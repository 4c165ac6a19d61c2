--------------------------- MODULE MCExternalPump ---------------------------
(***************************************************************************)
(* Instances of ExternalPump for TLC.                                      *)
(***************************************************************************)
EXTENDS ExternalPump

\* LPARAM has 16 values, -8..7, of which 7 stands for INT_MAX. Requests for now, for less
\* than, exactly and more than kMaxTimerDelay, for INT_MAX itself, and for one that becomes
\* negative (-4).
AllDelays == {0, 1, 2, 3, 7, 12}
=============================================================================
