--------------------------- MODULE MCMessageRouter ---------------------------
(***************************************************************************)
(* Instances of MessageRouter for TLC.                                     *)
(***************************************************************************)
EXTENDS MessageRouter, TLC

CONSTANTS b1, b2, h1, h2, main, sub

OneBrowser == {b1}
TwoBrowsers == {b1, b2}
OneHandler == {h1}
TwoHandlers == {h1, h2}
MainOnly == {main}
MainAndSub == {main, sub}
BrowserSymmetry == Permutations(TwoBrowsers)
HandlerSymmetry == Permutations(TwoHandlers)
=============================================================================
