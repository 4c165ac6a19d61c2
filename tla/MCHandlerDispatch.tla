-------------------------- MODULE MCHandlerDispatch --------------------------
(***************************************************************************)
(* Instances of HandlerDispatch for TLC.                                   *)
(***************************************************************************)
EXTENDS HandlerDispatch

CONSTANTS h1, h2, h3

TwoHandlers == {h1, h2}
ThreeHandlers == {h1, h2, h3}
\* The handlers in the order of their addresses.
TwoAddresses == [h \in TwoHandlers |-> IF h = h1 THEN 1 ELSE 2]
ThreeAddresses == [h \in ThreeHandlers |-> IF h = h1 THEN 1 ELSE IF h = h2 THEN 2 ELSE 3]
=============================================================================
