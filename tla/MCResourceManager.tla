------------------------- MODULE MCResourceManager -------------------------
(***************************************************************************)
(* Instances of ResourceManager for TLC.                                   *)
(***************************************************************************)
EXTENDS ResourceManager, TLC

CONSTANTS r1, r2, archived, files, app

OneRequest == {r1}
TwoRequests == {r1, r2}
RequestSymmetry == Permutations(TwoRequests)
\* The archive and the application's provider have the same order and come before the directory.
ThreeProviders == {archived, files, app}
ThreeKinds == (archived :> "archive") @@ (files :> "directory") @@ (app :> "application")
ThreeOrders == (archived :> 1) @@ (files :> 2) @@ (app :> 1)
TwoProviders == {archived, app}
TwoKinds == (archived :> "archive") @@ (app :> "application")
TwoOrders == (archived :> 1) @@ (app :> 2)
Single == {{p} : p \in Providers}
=============================================================================
