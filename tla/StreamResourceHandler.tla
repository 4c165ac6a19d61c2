------------------------ MODULE StreamResourceHandler ------------------------
(***************************************************************************)
(* The handler that serves a stream as the response of a request. The      *)
(* browser calls ReadResponse on the IO thread until it returns false. A   *)
(* stream that may block is read on the FILE thread, into a buffer that    *)
(* the two threads share without a lock: the browser does not call again   *)
(* before the callback is executed, the last thing the FILE thread does.   *)
(*   src/cef3/libcef_dll/wrapper/cef_stream_resource_handler.cc            *)
(***************************************************************************)
EXTENDS Integers, Sequences

CONSTANTS
  StreamLength,  \* the bytes of the stream are 1..StreamLength
  Asks,          \* how many bytes the browser may ask for
  NoBuffer       \* buffer_ before the first read

ASSUME StreamAssumption ==
  /\ StreamLength \in Nat
  /\ Asks \subseteq Nat \ {0}
  /\ NoBuffer \notin [size : Nat, requested : Nat, bytes : Seq(Nat), taken : Nat]

VARIABLES
  position,     \* how many bytes of the stream have been read
  buffer,       \* buffer_: its size_, bytes_requested_, the bytes_written_ bytes, bytes_read_
  task,         \* ReadOnFileThread: "none", "posted", "reading" or "read"
  asked,        \* its bytes_to_read
  browser,      \* "ready" to call ReadResponse, "waits" for the callback, "ended", "canceled"
  delivered,    \* the bytes the browser has, in the order they came
  onFileThread  \* read_on_file_thread_: the stream may block

vars == <<position, buffer, task, asked, browser, delivered, onFileThread>>

Smaller(m, n) == IF m < n THEN m ELSE n
-----------------------------------------------------------------------------
(* The buffer. *)

IsEmpty == buffer.bytes = <<>>

CanRead == buffer.taken < Len(buffer.bytes)

\* Mutant: what the browser has taken of the buffer's last contents is kept.
ResetBytes(b, n) ==
  IF b = NoBuffer
  THEN [size |-> n, requested |-> n, bytes |-> <<>>, taken |-> 0]
  ELSE [b EXCEPT !.size = IF b.size < n THEN n ELSE b.size, !.requested = n, !.bytes = <<>>]

\* Buffer::Reset, of a new buffer if there is none.
Reset(b, n) ==
  [size |-> IF b = NoBuffer \/ b.size < n THEN n ELSE b.size,
   requested |-> n, bytes |-> <<>>, taken |-> 0]

\* The next n bytes of the stream.
Bytes(n) == [i \in 1..n |-> position + i]
-----------------------------------------------------------------------------
(* The IO thread. *)

\* ReadResponse with bytes in the buffer: Buffer::WriteTo.
TakeFromBuffer(n) ==
  /\ browser = "ready" /\ onFileThread
  /\ buffer # NoBuffer /\ CanRead
  /\ LET write == Smaller(n, Len(buffer.bytes) - buffer.taken)
     IN /\ delivered' = delivered \o SubSeq(buffer.bytes, buffer.taken + 1, buffer.taken + write)
        /\ buffer' = [buffer EXCEPT !.taken = @ + write]
  /\ UNCHANGED <<position, task, asked, browser, onFileThread>>

\* ReadResponse after a read that found nothing more.
EndOfStream ==
  /\ browser = "ready" /\ onFileThread
  /\ buffer # NoBuffer /\ ~CanRead /\ IsEmpty
  /\ browser' = "ended"
  /\ UNCHANGED <<position, buffer, task, asked, delivered, onFileThread>>

\* Mutant: an empty buffer is read again, whether or not the stream has been read to its end.
AskFileThreadAgain(n) ==
  /\ browser = "ready" /\ onFileThread
  /\ buffer # NoBuffer => ~CanRead
  /\ task' = "posted" /\ asked' = n /\ browser' = "waits"
  /\ UNCHANGED <<position, buffer, delivered, onFileThread>>

\* ReadResponse with a buffer whose bytes have all been taken, or none yet.
AskFileThread(n) ==
  /\ browser = "ready" /\ onFileThread
  /\ buffer # NoBuffer => ~CanRead /\ ~IsEmpty
  /\ task' = "posted" /\ asked' = n /\ browser' = "waits"
  /\ UNCHANGED <<position, buffer, delivered, onFileThread>>

\* ReadResponse of a stream that does not block: it reads until it has n bytes or there
\* are no more.
ReadDirectly(n) ==
  /\ browser = "ready" /\ ~onFileThread
  /\ LET read == Smaller(n, StreamLength - position)
     IN /\ delivered' = delivered \o Bytes(read)
        /\ position' = position + read
        /\ browser' = IF read > 0 THEN "ready" ELSE "ended"
  /\ UNCHANGED <<buffer, task, asked, onFileThread>>

\* The browser gives up; Cancel does nothing, and a task that is under way goes on.
Cancel ==
  /\ browser \in {"ready", "waits"}
  /\ browser' = "canceled"
  /\ UNCHANGED <<position, buffer, task, asked, delivered, onFileThread>>
-----------------------------------------------------------------------------
(* The FILE thread: ReadOnFileThread. *)

\* Mutant: the callback is executed before the buffer is filled.
StartReadAnswered ==
  /\ task = "posted"
  /\ buffer' = Reset(buffer, asked)
  /\ task' = "reading"
  /\ browser' = IF browser = "waits" THEN "ready" ELSE browser
  /\ UNCHANGED <<position, asked, delivered, onFileThread>>

StartRead ==
  /\ task = "posted"
  /\ buffer' = Reset(buffer, asked)
  /\ task' = "reading"
  /\ UNCHANGED <<position, asked, browser, delivered, onFileThread>>

\* One Read of Buffer::ReadFrom, which may return fewer bytes than there are; the loop ends
\* when the buffer is full.
ReadSome(n) ==
  /\ task = "reading"
  /\ n \in 1..Smaller(buffer.requested - Len(buffer.bytes), StreamLength - position)
  /\ buffer' = [buffer EXCEPT !.bytes = @ \o Bytes(n)]
  /\ position' = position + n
  /\ task' = IF Len(buffer.bytes) + n < buffer.requested THEN "reading" ELSE "read"
  /\ UNCHANGED <<asked, browser, delivered, onFileThread>>

\* The Read that returns 0.
ReadNothing ==
  /\ task = "reading" /\ position = StreamLength
  /\ task' = "read"
  /\ UNCHANGED <<position, buffer, asked, browser, delivered, onFileThread>>

\* callback->Continue(): the browser, if it still waits, calls ReadResponse again.
Continue ==
  /\ task = "read"
  /\ task' = "none"
  /\ browser' = IF browser = "waits" THEN "ready" ELSE browser
  /\ UNCHANGED <<position, buffer, asked, delivered, onFileThread>>
-----------------------------------------------------------------------------
Init ==
  /\ position = 0 /\ buffer = NoBuffer /\ task = "none" /\ asked = 0
  /\ browser = "ready" /\ delivered = <<>> /\ onFileThread \in BOOLEAN

ReadResponse ==
  \/ EndOfStream
  \/ \E n \in Asks : TakeFromBuffer(n) \/ AskFileThread(n) \/ ReadDirectly(n)

ReadOnFileThread == StartRead \/ ReadNothing \/ Continue \/ \E n \in 1..StreamLength : ReadSome(n)

Next == ReadResponse \/ ReadOnFileThread \/ Cancel

Spec == Init /\ [][Next]_vars

\* The browser goes on calling ReadResponse until it gives up, and the FILE thread runs its
\* tasks.
FairSpec == Spec /\ WF_vars(ReadResponse) /\ WF_vars(ReadOnFileThread)
-----------------------------------------------------------------------------
TypeOK ==
  /\ position \in 0..StreamLength
  /\ buffer \in {NoBuffer} \cup [size : Nat, requested : Nat, bytes : Seq(Nat), taken : Nat]
  /\ task \in {"none", "posted", "reading", "read"}
  /\ asked \in Nat
  /\ browser \in {"ready", "waits", "ended", "canceled"}
  /\ delivered \in Seq(Nat)
  /\ onFileThread \in BOOLEAN

\* The IO thread, which may call ReadResponse at any time when the browser is ready, never
\* meets the FILE thread in the buffer; a browser that waits has a task that will answer it;
\* and neither thread leaves the buffer's bounds.
BufferOwned ==
  /\ task # "none" => browser \in {"waits", "canceled"}
  /\ browser = "waits" => task # "none"
  /\ buffer # NoBuffer =>
       /\ buffer.taken <= Len(buffer.bytes)
       /\ Len(buffer.bytes) <= buffer.requested
       /\ buffer.requested <= buffer.size

Promise == INSTANCE StreamDelivery WITH ended <- browser = "ended"

\* However the reads of the two threads are cut, the browser gets the stream, in order and
\* whole, and the end only after its last byte.
ImplementsDelivery == Promise!Spec

\* A response ends: an empty read is not taken for one that is still to be made, and no
\* ReadResponse waits for a callback that nobody executes.
ResponseEnds == <>(browser \in {"ended", "canceled"})
=============================================================================
