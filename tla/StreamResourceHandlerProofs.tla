--------------------- MODULE StreamResourceHandlerProofs ---------------------
(***************************************************************************)
(* Proofs about StreamResourceHandler, for a stream of any length and any  *)
(* sizes the browser may ask for.                                          *)
(***************************************************************************)
EXTENDS StreamResourceHandler, TLAPS

\* The sequence counts on from d.
Counts(s, d) == \A i \in 1..Len(s) : s[i] = d + i

\* The bytes in the buffer that the browser has not taken.
Unread == IF buffer = NoBuffer THEN 0 ELSE Len(buffer.bytes) - buffer.taken

\* The buffer holds the last bytes read from the stream, and the browser has all the bytes
\* before those that it has not taken from there.
Contents ==
  /\ buffer # NoBuffer =>
       /\ Len(buffer.bytes) <= position
       /\ Counts(buffer.bytes, position - Len(buffer.bytes))
  /\ Counts(delivered, 0)
  /\ Len(delivered) + Unread = position

\* How far ReadOnFileThread is tells what the buffer may hold, and an empty buffer that has
\* been read to is at the end of the stream.
Stages ==
  /\ ~onFileThread => task = "none" /\ buffer = NoBuffer
  /\ task = "posted" => asked > 0 /\ Unread = 0
  /\ task \in {"reading", "read"} => buffer # NoBuffer /\ buffer.taken = 0
  /\ task = "reading" => Len(buffer.bytes) < buffer.requested
  /\ task \in {"none", "read"} /\ buffer # NoBuffer /\ buffer.bytes = <<>> =>
       position = StreamLength
  /\ browser = "ended" => Len(delivered) = StreamLength
  /\ browser = "waits" => onFileThread

IInv == TypeOK /\ BufferOwned /\ Contents /\ Stages
-----------------------------------------------------------------------------
\* A sequence that counts on where another one stopped makes the two one count.
LEMMA CountsOn ==
  ASSUME NEW s \in Seq(Nat), NEW t \in Seq(Nat), NEW d \in Int, NEW e \in Int,
         Counts(s, d), Counts(t, e), e = d + Len(s)
  PROVE  /\ s \o t \in Seq(Nat) /\ Len(s \o t) = Len(s) + Len(t)
         /\ Counts(s \o t, d)
<1>1. s \o t \in Seq(Nat) /\ Len(s \o t) = Len(s) + Len(t) OBVIOUS
<1>2. ASSUME NEW i \in 1..Len(s \o t) PROVE (s \o t)[i] = d + i
  <2>1. CASE i <= Len(s) BY <1>1, <2>1 DEF Counts
  <2>2. CASE i > Len(s)
    <3>1. i - Len(s) \in 1..Len(t) BY <1>1, <2>2
    <3>2. (s \o t)[i] = t[i - Len(s)] BY <1>1, <2>2
    <3>3. t[i - Len(s)] = d + Len(s) + (i - Len(s)) BY <3>1 DEF Counts
    <3> QED BY <3>1, <3>2, <3>3
  <2> QED BY <1>1, <2>1, <2>2
<1> QED BY <1>1, <1>2 DEF Counts

\* What is taken from one side of a sum and added to the other leaves it.
LEMMA Sums ==
  ASSUME NEW d \in Int, NEW k \in Int, NEW t \in Int, NEW n \in Int
  PROVE  /\ (d + n) + (k - (t + n)) = d + (k - t)
         /\ (d + k = t) => (t + n) - (k + n) = d
OBVIOUS

\* A piece of a count is a sequence of its length, ...
LEMMA PieceType ==
  ASSUME NEW s \in Seq(Nat), NEW m \in Nat, NEW n \in Nat, m + n <= Len(s)
  PROVE  SubSeq(s, m + 1, m + n) \in Seq(Nat) /\ Len(SubSeq(s, m + 1, m + n)) = n
OBVIOUS

\* ... and counts on from there.
LEMMA PieceCounts ==
  ASSUME NEW s \in Seq(Nat), NEW d \in Int, Counts(s, d),
         NEW m \in Nat, NEW n \in Nat, m + n <= Len(s)
  PROVE  /\ SubSeq(s, m + 1, m + n) \in Seq(Nat) /\ Len(SubSeq(s, m + 1, m + n)) = n
         /\ Counts(SubSeq(s, m + 1, m + n), d + m)
<1>1. /\ SubSeq(s, m + 1, m + n) \in Seq(Nat) /\ Len(SubSeq(s, m + 1, m + n)) = n
      /\ \A i \in 1..n : SubSeq(s, m + 1, m + n)[i] = s[m + i]
  OBVIOUS
<1>2. \A i \in 1..n : s[m + i] = d + (m + i) BY DEF Counts
<1> QED BY <1>1, <1>2 DEF Counts

\* The next bytes of the stream count on from the position.
LEMMA BytesCount ==
  ASSUME position \in Nat, NEW n \in Nat
  PROVE  Bytes(n) \in Seq(Nat) /\ Len(Bytes(n)) = n /\ Counts(Bytes(n), position)
BY DEF Bytes, Counts

\* The smaller of two numbers.
LEMMA SmallerIs ==
  ASSUME NEW m \in Nat, NEW n \in Nat
  PROVE  /\ Smaller(m, n) \in Nat /\ Smaller(m, n) <= m /\ Smaller(m, n) <= n
         /\ Smaller(m, n) \in {m, n}
BY DEF Smaller

\* What the buffer is, if there is one.
LEMMA BufferType ==
  ASSUME TypeOK, buffer # NoBuffer
  PROVE  /\ buffer \in [size : Nat, requested : Nat, bytes : Seq(Nat), taken : Nat]
         /\ buffer.size \in Nat /\ buffer.requested \in Nat /\ buffer.taken \in Nat
         /\ buffer.bytes \in Seq(Nat) /\ Len(buffer.bytes) \in Nat
BY DEF TypeOK

LEMMA InitIInv == Init => IInv
BY StreamAssumption
   DEF Init, IInv, TypeOK, BufferOwned, Contents, Stages, Unread, Counts
-----------------------------------------------------------------------------
(* The IO thread. *)

LEMMA TakeFromBufferKeeps ==
  ASSUME IInv, NEW n \in Asks, TakeFromBuffer(n)
  PROVE  IInv'
<1> DEFINE write == Smaller(n, Len(buffer.bytes) - buffer.taken)
           piece == SubSeq(buffer.bytes, buffer.taken + 1, buffer.taken + write)
<1> USE DEF IInv
<1>1. n \in Nat \ {0} BY StreamAssumption
<1>2. /\ buffer # NoBuffer /\ buffer.taken < Len(buffer.bytes) /\ browser = "ready" /\ task = "none"
      /\ onFileThread
      /\ delivered' = delivered \o piece
      /\ buffer' = [buffer EXCEPT !.taken = buffer.taken + write]
      /\ UNCHANGED <<position, task, asked, browser, onFileThread>>
  BY DEF TakeFromBuffer, CanRead, BufferOwned, TypeOK
<1>3. /\ buffer \in [size : Nat, requested : Nat, bytes : Seq(Nat), taken : Nat]
      /\ buffer.taken \in Nat /\ buffer.bytes \in Seq(Nat) /\ Len(buffer.bytes) \in Nat
  BY <1>2, BufferType
<1>4. write \in Nat \ {0} /\ buffer.taken + write <= Len(buffer.bytes)
  <2>1. Len(buffer.bytes) - buffer.taken \in Nat \ {0} BY <1>2, <1>3
  <2>2. /\ write \in Nat /\ write <= Len(buffer.bytes) - buffer.taken
        /\ write \in {n, Len(buffer.bytes) - buffer.taken}
    BY <1>1, <2>1, SmallerIs
  <2> QED BY <1>1, <1>3, <2>1, <2>2
<1> HIDE DEF write
<1>5. delivered \in Seq(Nat) /\ Len(delivered) \in Nat /\ position \in Nat /\ Counts(delivered, 0)
  BY StreamAssumption DEF TypeOK, Contents
<1>6. Len(delivered) + (Len(buffer.bytes) - buffer.taken) = position BY <1>2 DEF Contents, Unread
<1>7. piece \in Seq(Nat) /\ Len(piece) = write /\ Counts(piece, Len(delivered))
  <2>1. Counts(buffer.bytes, position - Len(buffer.bytes)) BY <1>2 DEF Contents
  <2>2. position - Len(buffer.bytes) \in Int BY <1>3, <1>5
  <2>3. Counts(piece, position - Len(buffer.bytes) + buffer.taken)
    BY <1>3, <1>4, <2>1, <2>2, PieceCounts
  <2>4. position - Len(buffer.bytes) + buffer.taken = Len(delivered) BY <1>3, <1>5, <1>6
  <2>5. piece \in Seq(Nat) /\ Len(piece) = write BY <1>3, <1>4, PieceType
  <2> QED BY <2>3, <2>4, <2>5
<1> HIDE DEF piece
<1>8. delivered' \in Seq(Nat) /\ Len(delivered') = Len(delivered) + write /\ Counts(delivered', 0)
  <2>1. Len(delivered) = 0 + Len(delivered) /\ Len(delivered) \in Int /\ 0 \in Int BY <1>5
  <2>2. /\ delivered \o piece \in Seq(Nat) /\ Len(delivered \o piece) = Len(delivered) + Len(piece)
        /\ Counts(delivered \o piece, 0)
    BY CountsOn, <2>1, <1>5, <1>7
  <2> QED BY <2>2, <1>2, <1>7
<1>9. /\ buffer' \in [size : Nat, requested : Nat, bytes : Seq(Nat), taken : Nat]
      /\ buffer'.taken = buffer.taken + write /\ buffer'.bytes = buffer.bytes
      /\ buffer'.requested = buffer.requested /\ buffer'.size = buffer.size
  <2>1. buffer.taken + write \in Nat BY <1>3, <1>4
  <2> QED BY <1>2, <1>3, <2>1
<1>10. buffer' # NoBuffer BY <1>9, StreamAssumption
<1>11. TypeOK' BY <1>2, <1>8, <1>9 DEF TypeOK
<1>12. BufferOwned' BY <1>2, <1>4, <1>9 DEF BufferOwned
<1>13. Contents'
  <2>1. Len(delivered') + (Len(buffer'.bytes) - buffer'.taken) = position'
    <3>1. PICK d \in Nat, k \in Nat, t \in Nat :
            d = Len(delivered) /\ k = Len(buffer.bytes) /\ t = buffer.taken
      BY <1>3, <1>5
    <3>2. Len(delivered') = d + write /\ Len(buffer'.bytes) = k /\ buffer'.taken = t + write
      BY <1>8, <1>9, <3>1
    <3>3. d + (k - t) = position /\ write \in Nat BY <1>4, <1>6, <3>1
    <3>4. d \in Int /\ k \in Int /\ t \in Int /\ write \in Int BY <3>1, <3>3
    <3>5. (d + write) + (k - (t + write)) = d + (k - t) BY <3>4, Sums
    <3>6. position' = position BY <1>2
    <3>7. Len(delivered') + (Len(buffer'.bytes) - buffer'.taken) = (d + write) + (k - (t + write))
      BY <3>2
    <3> QED BY <3>3, <3>5, <3>6, <3>7
  <2>2. Len(buffer'.bytes) <= position' /\ Counts(buffer'.bytes, position' - Len(buffer'.bytes))
    BY <1>2, <1>9 DEF Contents
  <2> QED BY <2>1, <2>2, <1>8, <1>10 DEF Contents, Unread
<1>14. Stages' BY <1>2, <1>9 DEF Stages
<1> QED BY <1>11, <1>12, <1>13, <1>14

LEMMA EndOfStreamKeeps ==
  ASSUME IInv, EndOfStream
  PROVE  IInv'
<1> USE DEF IInv
<1>1. /\ browser = "ready" /\ task = "none" /\ buffer # NoBuffer /\ buffer.bytes = <<>>
      /\ browser' = "ended" /\ UNCHANGED <<position, buffer, task, asked, delivered, onFileThread>>
  BY DEF EndOfStream, IsEmpty, BufferOwned, TypeOK
<1>2. buffer.taken = 0 /\ Len(buffer.bytes) = 0 BY <1>1, BufferType DEF BufferOwned
<1>3. position = StreamLength BY <1>1 DEF Stages
<1>4. Len(delivered) = StreamLength
  BY <1>1, <1>2, <1>3, StreamAssumption DEF Contents, Unread, TypeOK
<1> QED BY <1>1, <1>4 DEF TypeOK, BufferOwned, Contents, Stages, Unread

LEMMA AskFileThreadKeeps ==
  ASSUME IInv, NEW n \in Asks, AskFileThread(n)
  PROVE  IInv'
<1> USE DEF IInv
<1>1. /\ browser = "ready" /\ task = "none" /\ onFileThread /\ (buffer # NoBuffer => ~(buffer.taken < Len(buffer.bytes)))
      /\ task' = "posted" /\ asked' = n /\ browser' = "waits"
      /\ UNCHANGED <<position, buffer, delivered, onFileThread>>
  BY DEF AskFileThread, CanRead, BufferOwned, TypeOK
<1>2. n \in Nat \ {0} BY StreamAssumption
<1>3. Unread = 0 BY <1>1, BufferType DEF BufferOwned, Unread
<1>4. Unread' = Unread BY <1>1 DEF Unread
<1>5. TypeOK' BY <1>1, <1>2 DEF TypeOK
<1>6. BufferOwned' BY <1>1 DEF BufferOwned
<1>7. Contents' BY <1>1, <1>4 DEF Contents
<1>8. Stages' BY <1>1, <1>2, <1>3, <1>4 DEF Stages
<1> QED BY <1>5, <1>6, <1>7, <1>8

LEMMA ReadDirectlyKeeps ==
  ASSUME IInv, NEW n \in Asks, ReadDirectly(n)
  PROVE  IInv'
<1> DEFINE read == Smaller(n, StreamLength - position)
<1> USE DEF IInv
<1>1. /\ browser = "ready" /\ task = "none" /\ ~onFileThread /\ buffer = NoBuffer
      /\ delivered' = delivered \o Bytes(read) /\ position' = position + read
      /\ browser' = IF read > 0 THEN "ready" ELSE "ended"
      /\ UNCHANGED <<buffer, task, asked, onFileThread>>
  BY DEF ReadDirectly, Stages
<1>2. position \in Nat /\ StreamLength \in Nat /\ position <= StreamLength
  BY StreamAssumption DEF TypeOK
<1>3. read \in Nat /\ position + read <= StreamLength /\ (read = 0 => position = StreamLength)
  <2>1. n \in Nat \ {0} /\ StreamLength - position \in Nat BY <1>2, StreamAssumption
  <2> QED BY <1>2, <2>1, SmallerIs
<1> HIDE DEF read
<1>4. Bytes(read) \in Seq(Nat) /\ Len(Bytes(read)) = read /\ Counts(Bytes(read), position)
  BY <1>2, <1>3, BytesCount
<1>5. /\ delivered \in Seq(Nat) /\ Len(delivered) \in Nat /\ Len(delivered) = position
      /\ Counts(delivered, 0)
  BY <1>1, <1>2 DEF TypeOK, Contents, Unread
<1>6. Counts(Bytes(read), Len(delivered))
  BY <1>4, <1>5
<1>8. delivered' \in Seq(Nat) /\ Len(delivered') = Len(delivered) + read /\ Counts(delivered', 0)
  <2>1. Len(delivered) = 0 + Len(delivered) /\ Len(delivered) \in Int /\ 0 \in Int BY <1>5
  <2>2. /\ delivered \o Bytes(read) \in Seq(Nat)
        /\ Len(delivered \o Bytes(read)) = Len(delivered) + Len(Bytes(read))
        /\ Counts(delivered \o Bytes(read), 0)
    BY CountsOn, <2>1, <1>4, <1>5, <1>6
  <2> QED BY <2>2, <1>1, <1>4
<1>9. TypeOK' BY <1>1, <1>2, <1>3, <1>8 DEF TypeOK
<1>10. BufferOwned' BY <1>1 DEF BufferOwned
<1>11. Contents' BY <1>1, <1>2, <1>3, <1>5, <1>8 DEF Contents, Unread
<1>12. Stages' BY <1>1, <1>2, <1>3, <1>5, <1>8 DEF Stages
<1> QED BY <1>9, <1>10, <1>11, <1>12

LEMMA CancelKeeps ==
  ASSUME IInv, Cancel
  PROVE  IInv'
BY DEF IInv, Cancel, TypeOK, BufferOwned, Contents, Stages, Unread
-----------------------------------------------------------------------------
(* The FILE thread. *)

LEMMA StartReadKeeps ==
  ASSUME IInv, StartRead
  PROVE  IInv'
<1> USE DEF IInv
<1>1. /\ task = "posted" /\ task' = "reading" /\ buffer' = Reset(buffer, asked)
      /\ UNCHANGED <<position, asked, browser, delivered, onFileThread>>
  BY DEF StartRead
<1>2. asked \in Nat /\ asked > 0 /\ onFileThread BY <1>1 DEF TypeOK, Stages
<1>3. /\ buffer' \in [size : Nat, requested : Nat, bytes : Seq(Nat), taken : Nat]
      /\ buffer'.bytes = <<>> /\ buffer'.taken = 0 /\ buffer'.requested = asked
      /\ buffer'.requested <= buffer'.size
  <2>1. CASE buffer = NoBuffer BY <1>1, <1>2, <2>1 DEF Reset
  <2>2. CASE buffer # NoBuffer BY <1>1, <1>2, <2>2, BufferType DEF Reset
  <2> QED BY <2>1, <2>2
<1>4. buffer' # NoBuffer BY <1>3, StreamAssumption
<1>5. Len(buffer'.bytes) = 0 BY <1>3
<1>6. position \in Nat BY StreamAssumption DEF TypeOK
<1>7. TypeOK' BY <1>1, <1>3 DEF TypeOK
<1>8. BufferOwned' BY <1>1, <1>2, <1>3, <1>5 DEF BufferOwned
<1>9. Contents'
  <2>1. Len(delivered) = position BY <1>1, <1>6 DEF Stages, Contents, TypeOK
  <2>2. Counts(buffer'.bytes, position' - Len(buffer'.bytes)) BY <1>5 DEF Counts
  <2> QED BY <2>1, <2>2, <1>1, <1>3, <1>4, <1>5, <1>6 DEF Contents, Unread
<1>10. Stages' BY <1>1, <1>2, <1>3, <1>4, <1>5 DEF Stages
<1> QED BY <1>7, <1>8, <1>9, <1>10

LEMMA ReadSomeKeeps ==
  ASSUME IInv, NEW n \in 1..StreamLength, ReadSome(n)
  PROVE  IInv'
<1> USE DEF IInv
<1>1. /\ task = "reading" /\ n \in 1..Smaller(buffer.requested - Len(buffer.bytes), StreamLength - position)
      /\ buffer' = [buffer EXCEPT !.bytes = buffer.bytes \o Bytes(n)]
      /\ position' = position + n
      /\ task' = IF Len(buffer.bytes) + n < buffer.requested THEN "reading" ELSE "read"
      /\ UNCHANGED <<asked, browser, delivered, onFileThread>>
  BY DEF ReadSome
<1>2. buffer # NoBuffer /\ buffer.taken = 0 /\ onFileThread BY <1>1 DEF Stages
<1>3. /\ buffer \in [size : Nat, requested : Nat, bytes : Seq(Nat), taken : Nat]
      /\ buffer.requested \in Nat /\ buffer.size \in Nat
      /\ buffer.bytes \in Seq(Nat) /\ Len(buffer.bytes) \in Nat
  BY <1>2, BufferType
<1>4. position \in Nat /\ StreamLength \in Nat /\ n \in Nat \ {0} BY StreamAssumption DEF TypeOK
<1>5. Len(buffer.bytes) + n <= buffer.requested /\ position + n <= StreamLength
  <2>1. buffer.requested - Len(buffer.bytes) \in Nat BY <1>2, <1>3 DEF BufferOwned
  <2>2. StreamLength - position \in Nat BY <1>4 DEF TypeOK
  <2>3. /\ Smaller(buffer.requested - Len(buffer.bytes), StreamLength - position) \in Nat
        /\ Smaller(buffer.requested - Len(buffer.bytes), StreamLength - position)
             <= buffer.requested - Len(buffer.bytes)
        /\ Smaller(buffer.requested - Len(buffer.bytes), StreamLength - position)
             <= StreamLength - position
    BY <2>1, <2>2, SmallerIs
  <2>4. n <= Smaller(buffer.requested - Len(buffer.bytes), StreamLength - position)
    BY <1>1, <1>4, <2>3
  <2> QED BY <1>3, <1>4, <2>3, <2>4
<1>6. Bytes(n) \in Seq(Nat) /\ Len(Bytes(n)) = n /\ Counts(Bytes(n), position)
  BY <1>4, BytesCount
<1> DEFINE d == position - Len(buffer.bytes)
           s == buffer.bytes \o Bytes(n)
<1>7. Counts(buffer.bytes, d) BY <1>2 DEF Contents
<1>8. d \in Int /\ d + Len(buffer.bytes) = position BY <1>3, <1>4
<1> HIDE DEF d
<1>9. s \in Seq(Nat) /\ Len(s) = Len(buffer.bytes) + n /\ Counts(s, d)
  <2>1. position = d + Len(buffer.bytes) /\ position \in Int BY <1>4, <1>8
  <2>2. s \in Seq(Nat) /\ Len(s) = Len(buffer.bytes) + Len(Bytes(n)) /\ Counts(s, d)
    BY CountsOn, <2>1, <1>3, <1>6, <1>7, <1>8
  <2> QED BY <2>2, <1>6
<1> HIDE DEF s
<1>10. /\ buffer' \in [size : Nat, requested : Nat, bytes : Seq(Nat), taken : Nat]
       /\ buffer'.bytes = s /\ buffer'.taken = 0
       /\ buffer'.requested = buffer.requested /\ buffer'.size = buffer.size
  BY <1>1, <1>2, <1>3, <1>9 DEF s
<1>11. buffer' # NoBuffer BY <1>10, StreamAssumption
<1>12. TypeOK' BY <1>1, <1>4, <1>5, <1>10 DEF TypeOK
<1>13. BufferOwned'
  <2>1. browser' \in {"waits", "canceled"} /\ task' # "none" BY <1>1 DEF BufferOwned
  <2>2. buffer.requested <= buffer.size BY <1>2 DEF BufferOwned
  <2> QED BY <2>1, <2>2, <1>3, <1>5, <1>9, <1>10 DEF BufferOwned
<1>14. Contents'
  <2>1. Len(buffer.bytes) <= position BY <1>2 DEF Contents
  <2>2. position' - Len(s) = d
    <3>1. PICK k \in Nat : k = Len(buffer.bytes) BY <1>3
    <3>2. Len(s) = k + n /\ position' = position + n /\ d + k = position BY <1>1, <1>8, <1>9, <3>1
    <3>3. d \in Int /\ position \in Nat /\ n \in Nat BY <1>4, <1>8
    <3>4. d \in Int /\ k \in Int /\ position \in Int /\ n \in Int BY <3>1, <3>3
    <3>5. (position + n) - (k + n) = d BY <3>2, <3>4, Sums
    <3> QED BY <3>2, <3>5
  <2>3. Len(delivered) + Len(buffer.bytes) = position
    BY <1>2, <1>3 DEF Contents, Unread
  <2>4. Len(delivered) \in Nat BY DEF TypeOK
  <2>5. Len(delivered') + (Len(s) - 0) = position' BY <2>3, <2>4, <1>1, <1>3, <1>4, <1>9
  <2>6. Len(s) <= position' BY <2>1, <1>1, <1>3, <1>4, <1>9
  <2>7. Counts(s, position' - Len(s)) BY <2>2, <1>9
  <2>8. Counts(delivered', 0) BY <1>1 DEF Contents
  <2> QED BY <2>5, <2>6, <2>7, <2>8, <1>10, <1>11 DEF Contents, Unread
<1>15. Stages'
  <2>1. Len(s) > 0 BY <1>3, <1>4, <1>9
  <2>2. s # <<>> BY <2>1
  <2>3. browser' # "ended" BY <1>1 DEF BufferOwned
  <2> QED BY <2>2, <2>3, <1>1, <1>2, <1>9, <1>10, <1>11 DEF Stages
<1> QED BY <1>12, <1>13, <1>14, <1>15

LEMMA ReadNothingKeeps ==
  ASSUME IInv, ReadNothing
  PROVE  IInv'
BY DEF IInv, ReadNothing, TypeOK, BufferOwned, Contents, Stages, Unread

LEMMA ContinueKeeps ==
  ASSUME IInv, Continue
  PROVE  IInv'
BY DEF IInv, Continue, TypeOK, BufferOwned, Contents, Stages, Unread
-----------------------------------------------------------------------------
LEMMA NextKeeps == IInv /\ [Next]_vars => IInv'
<1> SUFFICES ASSUME IInv, [Next]_vars PROVE IInv' OBVIOUS
<1>1. CASE EndOfStream BY <1>1, EndOfStreamKeeps
<1>2. CASE \E n \in Asks : TakeFromBuffer(n) BY <1>2, TakeFromBufferKeeps
<1>3. CASE \E n \in Asks : AskFileThread(n) BY <1>3, AskFileThreadKeeps
<1>4. CASE \E n \in Asks : ReadDirectly(n) BY <1>4, ReadDirectlyKeeps
<1>5. CASE StartRead BY <1>5, StartReadKeeps
<1>6. CASE ReadNothing BY <1>6, ReadNothingKeeps
<1>7. CASE Continue BY <1>7, ContinueKeeps
<1>8. CASE \E n \in 1..StreamLength : ReadSome(n) BY <1>8, ReadSomeKeeps
<1>9. CASE Cancel BY <1>9, CancelKeeps
<1>10. CASE UNCHANGED vars
  BY <1>10 DEF vars, IInv, TypeOK, BufferOwned, Contents, Stages, Unread
<1> QED BY <1>1, <1>2, <1>3, <1>4, <1>5, <1>6, <1>7, <1>8, <1>9, <1>10
    DEF Next, ReadResponse, ReadOnFileThread

LEMMA Inductive == Spec => []IInv
BY InitIInv, NextKeeps, PTL DEF Spec

\* Every variable stays within its type.
THEOREM TypeCorrect == Spec => []TypeOK
<1>1. IInv => TypeOK BY DEF IInv
<1> QED BY <1>1, Inductive, PTL

\* The two threads are never in the buffer at once, a browser that waits is owed an answer,
\* and the buffer is never overrun.
THEOREM BufferSafe == Spec => []BufferOwned
<1>1. IInv => BufferOwned BY DEF IInv
<1> QED BY <1>1, Inductive, PTL
-----------------------------------------------------------------------------
(* The refinement. *)

LEMMA InitDelivers == Init => Promise!Init
BY DEF Init, Promise!Init

\* Bytes that count on from those delivered are a step of the promise.
LEMMA Delivers ==
  ASSUME IInv, IInv', browser = "ready", browser' = "ready",
         Len(delivered') > Len(delivered)
  PROVE  Promise!Next
<1> DEFINE n == Len(delivered') - Len(delivered)
<1>1. /\ delivered \in Seq(Nat) /\ delivered' \in Seq(Nat) /\ StreamLength \in Nat
      /\ Len(delivered) \in Nat /\ Len(delivered') \in Nat
  BY StreamAssumption DEF IInv, TypeOK
<1>2. Unread' \in Nat
  BY DEF IInv, TypeOK, BufferOwned, Unread
<1>3. Len(delivered') <= StreamLength
  BY <1>1, <1>2 DEF IInv, TypeOK, Contents
<1>4. n \in 1..StreamLength /\ Len(delivered) + n = Len(delivered') BY <1>1, <1>3
<1>5. delivered' = [i \in 1..Len(delivered') |-> i]
  <2>1. \A i \in 1..Len(delivered') : delivered'[i] = 0 + i BY DEF IInv, Contents, Counts
  <2>2. delivered' = [i \in 1..Len(delivered') |-> delivered'[i]] BY <1>1
  <2> QED BY <2>1, <2>2
<1> HIDE DEF n
<1>6. Promise!Deliver(n) BY <1>3, <1>4, <1>5 DEF Promise!Deliver
<1> QED BY <1>4, <1>6 DEF Promise!Next

LEMMA StepDelivers == IInv /\ IInv' /\ [Next]_vars => [Promise!Next]_(Promise!vars)
<1> SUFFICES ASSUME IInv, IInv', [Next]_vars PROVE [Promise!Next]_(Promise!vars) OBVIOUS
<1>1. CASE EndOfStream
  <2>1. browser = "ready" /\ browser' = "ended" /\ UNCHANGED delivered BY <1>1 DEF EndOfStream
  <2>2. Len(delivered) = StreamLength BY <2>1 DEF IInv, Stages
  <2> QED BY <2>1, <2>2 DEF Promise!Next, Promise!End
<1>2. ASSUME NEW n \in Asks, TakeFromBuffer(n) PROVE Promise!Next
  <2> DEFINE write == Smaller(n, Len(buffer.bytes) - buffer.taken)
             piece == SubSeq(buffer.bytes, buffer.taken + 1, buffer.taken + write)
  <2>1. /\ browser = "ready" /\ browser' = "ready" /\ buffer # NoBuffer
        /\ buffer.taken < Len(buffer.bytes) /\ delivered' = delivered \o piece
    BY <1>2 DEF TakeFromBuffer, CanRead
  <2>2. /\ buffer.bytes \in Seq(Nat) /\ buffer.taken \in Nat /\ Len(buffer.bytes) \in Nat
        /\ delivered \in Seq(Nat) /\ n \in Nat \ {0}
    BY <2>1, BufferType, StreamAssumption DEF IInv, TypeOK
  <2>3. write \in Nat \ {0} /\ buffer.taken + write <= Len(buffer.bytes)
    <3>1. Len(buffer.bytes) - buffer.taken \in Nat \ {0} BY <2>1, <2>2
    <3>2. /\ write \in Nat /\ write <= Len(buffer.bytes) - buffer.taken
          /\ write \in {n, Len(buffer.bytes) - buffer.taken}
      BY <2>2, <3>1, SmallerIs
    <3> QED BY <2>2, <3>1, <3>2
  <2> HIDE DEF write
  <2>4. piece \in Seq(Nat) /\ Len(piece) = write
    BY <2>2, <2>3, PieceType
  <2> HIDE DEF piece
  <2>5. Len(delivered') > Len(delivered) BY <2>1, <2>2, <2>3, <2>4
  <2> QED BY <2>1, <2>5, Delivers
<1>3. ASSUME NEW n \in Asks, AskFileThread(n) PROVE UNCHANGED Promise!vars
  BY <1>3 DEF AskFileThread, Promise!vars
<1>4. ASSUME NEW n \in Asks, ReadDirectly(n) PROVE Promise!Next
  <2> DEFINE read == Smaller(n, StreamLength - position)
  <2>1. /\ browser = "ready" /\ delivered' = delivered \o Bytes(read)
        /\ browser' = IF read > 0 THEN "ready" ELSE "ended"
    BY <1>4 DEF ReadDirectly
  <2>2. read \in Nat /\ position \in Nat /\ delivered \in Seq(Nat)
    BY StreamAssumption DEF IInv, TypeOK, Smaller
  <2> HIDE DEF read
  <2>3. Bytes(read) \in Seq(Nat) /\ Len(Bytes(read)) = read BY <2>2, BytesCount
  <2>4. CASE read > 0
    <3>1. browser' = "ready" BY <2>1, <2>4
    <3>2. Len(delivered') > Len(delivered) BY <2>1, <2>2, <2>3, <2>4
    <3> QED BY <2>1, <3>1, <3>2, Delivers
  <2>5. CASE read = 0
    <3>1. browser' = "ended" BY <2>1, <2>5
    <3>2. Bytes(read) = <<>> BY <2>3, <2>5
    <3>3. delivered' = delivered BY <2>1, <2>2, <3>2
    <3>4. Len(delivered) = StreamLength BY <3>1, <3>3 DEF IInv, Stages
    <3> QED BY <2>1, <3>1, <3>3, <3>4 DEF Promise!Next, Promise!End
  <2> QED BY <2>2, <2>4, <2>5
<1>5. CASE Cancel
  <2>1. browser # "ended" /\ browser' # "ended" /\ UNCHANGED delivered BY <1>5 DEF Cancel
  <2> QED BY <2>1 DEF Promise!vars
<1>6. CASE ReadOnFileThread
  <2>1. UNCHANGED delivered /\ (browser' = "ended" <=> browser = "ended")
    BY <1>6 DEF ReadOnFileThread, StartRead, ReadSome, ReadNothing, Continue
  <2> QED BY <2>1 DEF Promise!vars
<1>7. CASE UNCHANGED vars BY <1>7 DEF vars, Promise!vars
<1> QED BY <1>1, <1>2, <1>3, <1>4, <1>5, <1>6, <1>7 DEF Next, ReadResponse

\* The handler keeps the promise of a resource handler: each byte of the stream once, in
\* order, and the end after the last.
THEOREM Implements == Spec => ImplementsDelivery
BY InitDelivers, Inductive, StepDelivers, PTL DEF Spec, ImplementsDelivery, Promise!Spec
=============================================================================
