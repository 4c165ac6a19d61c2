--------------------------- MODULE StreamDelivery ---------------------------
(***************************************************************************)
(* What a resource handler promises the browser: it hands out the stream's *)
(* bytes one after the other, none twice and none left out, and says that  *)
(* the response is complete only when it has handed out all of them.       *)
(*   src/cef3/include/cef_resource_handler.h                               *)
(***************************************************************************)
EXTENDS Naturals, Sequences

CONSTANT StreamLength  \* the bytes of the stream are 1..StreamLength

VARIABLES
  delivered,  \* the bytes the browser has, in the order they came
  ended       \* the handler has said that the response is complete

vars == <<delivered, ended>>

Init == delivered = <<>> /\ ended = FALSE

Deliver(n) ==
  /\ ~ended /\ Len(delivered) + n <= StreamLength
  /\ delivered' = [i \in 1..(Len(delivered) + n) |-> i]
  /\ UNCHANGED ended

End ==
  /\ ~ended /\ Len(delivered) = StreamLength
  /\ ended' = TRUE
  /\ UNCHANGED delivered

Next == End \/ \E n \in 1..StreamLength : Deliver(n)

Spec == Init /\ [][Next]_vars
=============================================================================
