--------------------------- MODULE MCRootWindows ---------------------------
(***************************************************************************)
(* Instances of RootWindows for TLC.                                       *)
(***************************************************************************)
EXTENDS RootWindows

CONSTANTS w1, w2, w3

ThreeWindows == {w1, w2, w3}
=============================================================================
