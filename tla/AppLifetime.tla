---------------------------- MODULE AppLifetime ----------------------------
(***************************************************************************)
(* What the host of RootWindows promises: each window opens once, from one *)
(* that is there, and the application is over with the last of them, in    *)
(* that very step and for good. (RunMain: "This will block until Quit() is *)
(* called by the RootWindowManager after all windows have been destroyed." *)
(* src/cef3/tests/cefclient/cefclient_win.cc:104-105)                      *)
(***************************************************************************)
CONSTANTS Windows, First

VARIABLES
  present,  \* the windows that are there
  over      \* the application has been told to end

Init == present = {First} /\ over = FALSE

Opens(w) ==
  /\ present # {} /\ w \notin present
  /\ present' = present \cup {w}
  /\ UNCHANGED over

Goes(w) ==
  /\ w \in present
  /\ present' = present \ {w}
  /\ over' = (present' = {})

Next == \E w \in Windows : Opens(w) \/ Goes(w)

Spec == Init /\ [][Next]_<<present, over>>
=============================================================================
