------------------------ MODULE SourcePatcherProofs ------------------------
(***************************************************************************)
(* Proofs about SourcePatcher, for any texts, releases and patches.        *)
(***************************************************************************)
EXTENDS SourcePatcher, SequenceTheorems, WellFoundedInduction, TLAPS

-----------------------------------------------------------------------------
(* Numbers and sequences. *)

\* A set of numbers has a least.
LEMMA Least ==
  ASSUME NEW S, S \subseteq Nat, S # {}
  PROVE  \E m \in S : \A k \in S : m <= k
<1> DEFINE R == {p \in Nat \X Nat : p[1] < p[2]}
<1>1. IsWellFoundedOn(R, Nat) BY NatLessThanWellFounded DEF OpToRel
<1>2. PICK m \in S : \A k \in S : ~ (<<k, m>> \in R)
  <2> HIDE DEF R
  <2> QED BY <1>1, WFMin
<1>3. \A k \in S : ~(k < m) BY <1>2
<1> QED BY <1>2, <1>3

\* Induction up to a number.
LEMMA UpTo ==
  ASSUME NEW n \in Nat, NEW S, 0 \in S, \A k \in 0..(n - 1) : k \in S => k + 1 \in S
  PROVE  \A k \in 0..n : k \in S
<1> SUFFICES ASSUME ~ \A k \in 0..n : k \in S PROVE FALSE OBVIOUS
<1> DEFINE T == {k \in 0..n : k \notin S}
<1>1. T \subseteq Nat /\ T # {} OBVIOUS
<1>2. PICK m \in T : \A k \in T : m <= k BY <1>1, Least
<1>3. m # 0 /\ m \in 0..n BY <1>2
<1>4. m - 1 \in 0..(n - 1) /\ m - 1 \notin T BY <1>2, <1>3
<1> QED BY <1>2, <1>3, <1>4

-----------------------------------------------------------------------------
(* The loops of the code are functions of the number of rounds. *)

\* The states of BuildPatchFile.
LEMMA BuildsIs ==
  ASSUME NEW X, NEW lines \in Seq(X), NEW b
  PROVE  Builds(b, lines) =
           [n \in 0..Len(lines) |-> IF n = 0 THEN b ELSE BuildLine(Builds(b, lines)[n - 1], lines[n])]
<1> DEFINE Eq(f, m) == f = [n \in 0..m |-> IF n = 0 THEN b ELSE BuildLine(f[n - 1], lines[n])]
           S == {m \in 0..Len(lines) : \E f : Eq(f, m)}
<1>1. Len(lines) \in Nat OBVIOUS
<1>2. 0 \in S
  <2>1. PICK f : f = [n \in 0..0 |-> b] OBVIOUS
  <2>2. Eq(f, 0) BY <2>1
  <2> QED BY <1>1, <2>2
<1>3. ASSUME NEW k \in 0..(Len(lines) - 1), k \in S PROVE k + 1 \in S
  <2>1. PICK f : Eq(f, k) BY <1>3
  <2>2. PICK g : g = [n \in 0..(k + 1) |-> IF n <= k THEN f[n] ELSE BuildLine(f[k], lines[k + 1])] OBVIOUS
  <2>3. \A n \in 0..(k + 1) : g[n] = IF n = 0 THEN b ELSE BuildLine(g[n - 1], lines[n])
    <3> TAKE n \in 0..(k + 1)
    <3>1. CASE n <= k BY <1>1, <1>3, <2>1, <2>2, <3>1
    <3>2. CASE n = k + 1 BY <1>1, <1>3, <2>1, <2>2, <3>2
    <3> QED BY <1>1, <1>3, <3>1, <3>2
  <2>4. Eq(g, k + 1) BY <2>2, <2>3
  <2> QED BY <1>1, <1>3, <2>4
<1>4. Len(lines) \in S
  <2>1. Len(lines) \in 0..Len(lines) BY <1>1
  <2> HIDE DEF S
  <2>2. \A k \in 0..Len(lines) : k \in S BY <1>1, <1>2, <1>3, UpTo
  <2> QED BY <2>1, <2>2
<1>5. PICK f : Eq(f, Len(lines)) BY <1>4
<1>6. Eq(CHOOSE g : Eq(g, Len(lines)), Len(lines))
  <2> HIDE DEF Eq
  <2> QED BY <1>5, Zenon
<1> QED BY <1>6 DEF Builds

\* The states of the loop over the commands of a task.
LEMMA CommandedIs ==
  ASSUME NEW X, NEW commands \in Seq(X), NEW input, NEW id, NEW p
  PROVE  Commanded(input, id, commands, p) =
           [n \in 0..Len(commands) |->
              IF n = 0 THEN p ELSE RunCommand(input, id, commands[n], Commanded(input, id, commands, p)[n - 1])]
<1> DEFINE Eq(f, m) == f = [n \in 0..m |-> IF n = 0 THEN p ELSE RunCommand(input, id, commands[n], f[n - 1])]
           S == {m \in 0..Len(commands) : \E f : Eq(f, m)}
<1>1. Len(commands) \in Nat OBVIOUS
<1>2. 0 \in S
  <2>1. PICK f : f = [n \in 0..0 |-> p] OBVIOUS
  <2>2. Eq(f, 0) BY <2>1
  <2> QED BY <1>1, <2>2
<1>3. ASSUME NEW k \in 0..(Len(commands) - 1), k \in S PROVE k + 1 \in S
  <2>1. PICK f : Eq(f, k) BY <1>3
  <2>2. PICK g : g = [n \in 0..(k + 1) |->
                        IF n <= k THEN f[n] ELSE RunCommand(input, id, commands[k + 1], f[k])] OBVIOUS
  <2>3. \A n \in 0..(k + 1) : g[n] = IF n = 0 THEN p ELSE RunCommand(input, id, commands[n], g[n - 1])
    <3> TAKE n \in 0..(k + 1)
    <3>1. CASE n <= k BY <1>1, <1>3, <2>1, <2>2, <3>1
    <3>2. CASE n = k + 1 BY <1>1, <1>3, <2>1, <2>2, <3>2
    <3> QED BY <1>1, <1>3, <3>1, <3>2
  <2>4. Eq(g, k + 1) BY <2>2, <2>3
  <2> QED BY <1>1, <1>3, <2>4
<1>4. Len(commands) \in S
  <2>1. Len(commands) \in 0..Len(commands) BY <1>1
  <2> HIDE DEF S
  <2>2. \A k \in 0..Len(commands) : k \in S BY <1>1, <1>2, <1>3, UpTo
  <2> QED BY <2>1, <2>2
<1>5. PICK f : Eq(f, Len(commands)) BY <1>4
<1>6. Eq(CHOOSE g : Eq(g, Len(commands)), Len(commands))
  <2> HIDE DEF Eq
  <2> QED BY <1>5, Zenon
<1> QED BY <1>6 DEF Commanded

\* The states of the loop over the tasks of a patch.
LEMMA PatchedIs ==
  ASSUME NEW X, NEW patch \in Seq(X), NEW input, NEW p
  PROVE  Patched(input, patch, p) =
           [n \in 0..Len(patch) |->
              IF n = 0 THEN p ELSE RunTask(input, patch[n], Patched(input, patch, p)[n - 1])]
<1> DEFINE Eq(f, m) == f = [n \in 0..m |-> IF n = 0 THEN p ELSE RunTask(input, patch[n], f[n - 1])]
           S == {m \in 0..Len(patch) : \E f : Eq(f, m)}
<1>1. Len(patch) \in Nat OBVIOUS
<1>2. 0 \in S
  <2>1. PICK f : f = [n \in 0..0 |-> p] OBVIOUS
  <2>2. Eq(f, 0) BY <2>1
  <2> QED BY <1>1, <2>2
<1>3. ASSUME NEW k \in 0..(Len(patch) - 1), k \in S PROVE k + 1 \in S
  <2>1. PICK f : Eq(f, k) BY <1>3
  <2>2. PICK g : g = [n \in 0..(k + 1) |-> IF n <= k THEN f[n] ELSE RunTask(input, patch[k + 1], f[k])] OBVIOUS
  <2>3. \A n \in 0..(k + 1) : g[n] = IF n = 0 THEN p ELSE RunTask(input, patch[n], g[n - 1])
    <3> TAKE n \in 0..(k + 1)
    <3>1. CASE n <= k BY <1>1, <1>3, <2>1, <2>2, <3>1
    <3>2. CASE n = k + 1 BY <1>1, <1>3, <2>1, <2>2, <3>2
    <3> QED BY <1>1, <1>3, <3>1, <3>2
  <2>4. Eq(g, k + 1) BY <2>2, <2>3
  <2> QED BY <1>1, <1>3, <2>4
<1>4. Len(patch) \in S
  <2>1. Len(patch) \in 0..Len(patch) BY <1>1
  <2> HIDE DEF S
  <2>2. \A k \in 0..Len(patch) : k \in S BY <1>1, <1>2, <1>3, UpTo
  <2> QED BY <2>1, <2>2
<1>5. PICK f : Eq(f, Len(patch)) BY <1>4
<1>6. Eq(CHOOSE g : Eq(g, Len(patch)), Len(patch))
  <2> HIDE DEF Eq
  <2> QED BY <1>5, Zenon
<1> QED BY <1>6 DEF Patched

\* What is flattened is the concatenation, piece after piece.
LEMMA FlattenIs ==
  ASSUME NEW X, NEW seqs \in Seq(X), seqs # <<>>
  PROVE  \E f : /\ f = [n \in 1..Len(seqs) |-> IF n = 1 THEN seqs[n] ELSE f[n - 1] \o seqs[n]]
                /\ FlattenSeq(seqs) = f[Len(seqs)]
<1> DEFINE Eq(f, m) == f = [n \in 1..m |-> IF n = 1 THEN seqs[n] ELSE f[n - 1] \o seqs[n]]
           S == {m \in 0..Len(seqs) : \E f : Eq(f, m)}
<1>1. Len(seqs) \in Nat \ {0} OBVIOUS
<1>2. 0 \in S
  <2>1. PICK f : f = [n \in 1..0 |-> n] OBVIOUS
  <2>2. Eq(f, 0) BY <2>1
  <2>3. 0 \in 0..Len(seqs) BY <1>1
  <2> HIDE DEF Eq
  <2> QED BY <2>2, <2>3
<1>3. ASSUME NEW k \in 0..(Len(seqs) - 1), k \in S PROVE k + 1 \in S
  <2>1. PICK f : Eq(f, k) BY <1>3
  <2>2. PICK g : g = [n \in 1..(k + 1) |->
                        IF n <= k THEN f[n] ELSE IF n = 1 THEN seqs[n] ELSE f[k] \o seqs[k + 1]] OBVIOUS
  <2>3. \A n \in 1..(k + 1) : g[n] = IF n = 1 THEN seqs[n] ELSE g[n - 1] \o seqs[n]
    <3> TAKE n \in 1..(k + 1)
    <3>1. CASE n <= k
      <4>1. g[n] = f[n] BY <2>2, <3>1
      <4>2. n # 1 => g[n - 1] = f[n - 1] BY <1>3, <2>2, <3>1
      <4>3. n \in 1..k BY <1>3, <3>1
      <4>4. f[n] = IF n = 1 THEN seqs[n] ELSE f[n - 1] \o seqs[n] BY <2>1, <4>3, Zenon
      <4> QED BY <4>1, <4>2, <4>4
    <3>2. CASE n = k + 1 BY <1>1, <1>3, <2>1, <2>2, <3>2
    <3> QED BY <1>1, <1>3, <3>1, <3>2
  <2>4. Eq(g, k + 1) BY <2>2, <2>3
  <2>5. k + 1 \in 0..Len(seqs) BY <1>1, <1>3
  <2> HIDE DEF Eq
  <2> QED BY <2>4, <2>5
<1>4. Len(seqs) \in S
  <2>1. Len(seqs) \in 0..Len(seqs) BY <1>1
  <2> HIDE DEF S
  <2>2. \A k \in 0..Len(seqs) : k \in S BY <1>1, <1>2, <1>3, UpTo
  <2> QED BY <2>1, <2>2
<1>5. PICK f : Eq(f, Len(seqs)) BY <1>4
<1>6. Eq(CHOOSE g : Eq(g, Len(seqs)), Len(seqs))
  <2> HIDE DEF Eq
  <2> QED BY <1>5, Zenon
<1>7. FlattenSeq(seqs) = (CHOOSE g : Eq(g, Len(seqs)))[Len(seqs)] BY <1>1 DEF FlattenSeq
<1>8. Eq(CHOOSE g : Eq(g, Len(seqs)), Len(seqs)) => \E h : Eq(h, Len(seqs)) /\ FlattenSeq(seqs) = h[Len(seqs)]
  <2> HIDE DEF Eq
  <2> QED BY <1>7, Zenon
<1> QED BY <1>6, <1>8, Zenon
-----------------------------------------------------------------------------
(* What a loop computes from more lines, commands or tasks. *)

\* No lines.
LEMMA BuildEmpty ==
  ASSUME NEW b
  PROVE  Build(b, <<>>) = b
<1>1. PICK s : s = <<>> OBVIOUS
<1>2. s \in Seq(Nat) BY <1>1
<1>3. Len(s) = 0 /\ 0 \in 0..Len(s) BY <1>1
<1>4. Builds(b, s) = [m \in 0..Len(s) |-> IF m = 0 THEN b ELSE BuildLine(Builds(b, s)[m - 1], s[m])]
  BY <1>2, BuildsIs
<1>5. Builds(b, s)[0] = b BY <1>3, <1>4
<1> QED BY <1>1, <1>3, <1>5 DEF Build

\* Each line is read in the state that the lines before it leave.
LEMMA BuildsStep ==
  ASSUME NEW X, NEW lines \in Seq(X), NEW b, NEW n \in 0..(Len(lines) - 1)
  PROVE  Builds(b, lines)[n + 1] = BuildLine(Builds(b, lines)[n], lines[n + 1])
<1>1. n + 1 \in 0..Len(lines) /\ n + 1 # 0 /\ (n + 1) - 1 = n OBVIOUS
<1>2. Builds(b, lines) =
        [m \in 0..Len(lines) |-> IF m = 0 THEN b ELSE BuildLine(Builds(b, lines)[m - 1], lines[m])]
  BY BuildsIs
<1>3. Builds(b, lines)[n + 1] =
        IF n + 1 = 0 THEN b ELSE BuildLine(Builds(b, lines)[(n + 1) - 1], lines[n + 1])
  BY <1>1, <1>2, Zenon
<1> QED BY <1>1, <1>3

\* Lines after lines.
LEMMA BuildConcat ==
  ASSUME NEW X, NEW s \in Seq(X), NEW t \in Seq(X), NEW b
  PROVE  Build(b, s \o t) = Build(Build(b, s), t)
<1> DEFINE st == s \o t
           c == Build(b, s)
<1>1. /\ st \in Seq(X) /\ Len(st) = Len(s) + Len(t) /\ Len(s) \in Nat /\ Len(t) \in Nat
      /\ \A i \in 1..Len(s) : st[i] = s[i]
      /\ \A i \in 1..Len(t) : st[Len(s) + i] = t[i]
  OBVIOUS
<1> HIDE DEF st
<1>2. \A k \in 0..Len(s) : Builds(b, st)[k] = Builds(b, s)[k]
  <2> DEFINE S == {k \in 0..Len(s) : Builds(b, st)[k] = Builds(b, s)[k]}
  <2>1. 0 \in S
    <3>1. 0 \in 0..Len(s) /\ 0 \in 0..Len(st) BY <1>1
    <3>2. Builds(b, st)[0] = b /\ Builds(b, s)[0] = b BY <1>1, <3>1, BuildsIs
    <3> QED BY <3>1, <3>2
  <2>2. ASSUME NEW k \in 0..(Len(s) - 1), k \in S PROVE k + 1 \in S
    <3>1. k \in 0..(Len(st) - 1) /\ k + 1 \in 1..Len(s) BY <1>1
    <3>2. Builds(b, st)[k + 1] = BuildLine(Builds(b, st)[k], st[k + 1]) BY <1>1, <3>1, BuildsStep
    <3>3. Builds(b, s)[k + 1] = BuildLine(Builds(b, s)[k], s[k + 1]) BY BuildsStep
    <3>4. st[k + 1] = s[k + 1] BY <1>1, <3>1
    <3> QED BY <2>2, <3>1, <3>2, <3>3, <3>4
  <2> HIDE DEF S
  <2>3. \A k \in 0..Len(s) : k \in S BY <1>1, <2>1, <2>2, UpTo
  <2> QED BY <2>3 DEF S
<1>3. Builds(b, st)[Len(s)] = c
  <2>1. Len(s) \in 0..Len(s) BY <1>1
  <2> QED BY <1>2, <2>1 DEF Build
<1>4. \A k \in 0..Len(t) : Builds(b, st)[Len(s) + k] = Builds(c, t)[k]
  <2> HIDE DEF c
  <2> DEFINE S == {k \in 0..Len(t) : Builds(b, st)[Len(s) + k] = Builds(c, t)[k]}
  <2>1. 0 \in S
    <3>1. 0 \in 0..Len(t) /\ Len(s) + 0 = Len(s) BY <1>1
    <3>2. Builds(c, t)[0] = c BY <3>1, BuildsIs
    <3> QED BY <1>3, <3>1, <3>2
  <2>2. ASSUME NEW k \in 0..(Len(t) - 1), k \in S PROVE k + 1 \in S
    <3>1. Len(s) + k \in 0..(Len(st) - 1) /\ k + 1 \in 1..Len(t) /\ Len(s) + (k + 1) = (Len(s) + k) + 1 BY <1>1
    <3>2. Builds(b, st)[(Len(s) + k) + 1] = BuildLine(Builds(b, st)[Len(s) + k], st[(Len(s) + k) + 1])
      BY <1>1, <3>1, BuildsStep
    <3>3. Builds(c, t)[k + 1] = BuildLine(Builds(c, t)[k], t[k + 1]) BY BuildsStep
    <3>4. st[(Len(s) + k) + 1] = t[k + 1] BY <1>1, <3>1
    <3> QED BY <2>2, <3>1, <3>2, <3>3, <3>4
  <2> HIDE DEF S
  <2>3. \A k \in 0..Len(t) : k \in S BY <1>1, <2>1, <2>2, UpTo
  <2> QED BY <2>3 DEF S
<1>5. Builds(b, st)[Len(s) + Len(t)] = Builds(c, t)[Len(t)]
  <2>1. Len(t) \in 0..Len(t) BY <1>1
  <2> HIDE DEF c
  <2> QED BY <1>4, <2>1
<1> QED BY <1>1, <1>5 DEF Build, st

\* One line.
LEMMA BuildOne ==
  ASSUME NEW b, NEW l
  PROVE  Build(b, <<l>>) = BuildLine(b, l)
<1>1. PICK s : s = <<l>> OBVIOUS
<1>2. s \in Seq({l}) /\ Len(s) = 1 /\ s[1] = l BY <1>1
<1>3. 0 \in 0..(Len(s) - 1) /\ 0 \in 0..Len(s) /\ 0 + 1 = 1 BY <1>2
<1>4. Builds(b, s)[0] = b BY <1>2, <1>3, BuildsIs
<1>5. Builds(b, s)[0 + 1] = BuildLine(Builds(b, s)[0], s[0 + 1]) BY <1>2, <1>3, BuildsStep
<1> QED BY <1>1, <1>2, <1>3, <1>4, <1>5 DEF Build

\* Each command is run from where those before it have come.
LEMMA CommandedStep ==
  ASSUME NEW X, NEW commands \in Seq(X), NEW input, NEW id, NEW p
  PROVE  /\ Commanded(input, id, commands, p)[0] = p
         /\ \A n \in 0..(Len(commands) - 1) :
              Commanded(input, id, commands, p)[n + 1] =
                RunCommand(input, id, commands[n + 1], Commanded(input, id, commands, p)[n])
<1>1. 0 \in 0..Len(commands) OBVIOUS
<1>2. Commanded(input, id, commands, p)[0] = p BY <1>1, CommandedIs
<1>3. ASSUME NEW n \in 0..(Len(commands) - 1)
      PROVE  Commanded(input, id, commands, p)[n + 1] =
               RunCommand(input, id, commands[n + 1], Commanded(input, id, commands, p)[n])
  <2>1. n + 1 \in 0..Len(commands) /\ n + 1 # 0 /\ (n + 1) - 1 = n OBVIOUS
  <2>2. Commanded(input, id, commands, p) =
          [m \in 0..Len(commands) |->
             IF m = 0 THEN p ELSE RunCommand(input, id, commands[m], Commanded(input, id, commands, p)[m - 1])]
    BY CommandedIs
  <2>3. Commanded(input, id, commands, p)[n + 1] =
          IF n + 1 = 0 THEN p
          ELSE RunCommand(input, id, commands[n + 1], Commanded(input, id, commands, p)[(n + 1) - 1])
    BY <2>1, <2>2, Zenon
  <2> QED BY <2>1, <2>3
<1> QED BY <1>2, <1>3

\* One more command.
LEMMA RunCommandsAppend ==
  ASSUME NEW X, NEW commands \in Seq(X), NEW c \in X, NEW input, NEW id, NEW p
  PROVE  RunCommands(input, id, Append(commands, c), p) =
           RunCommand(input, id, c, RunCommands(input, id, commands, p))
<1> DEFINE more == Append(commands, c)
           F(s) == Commanded(input, id, s, p)
<1>1. /\ more \in Seq(X) /\ Len(more) = Len(commands) + 1 /\ Len(commands) \in Nat
      /\ \A i \in 1..Len(commands) : more[i] = commands[i]
      /\ more[Len(commands) + 1] = c
  OBVIOUS
<1> HIDE DEF more
<1>2. /\ F(more)[0] = p
      /\ \A n \in 0..(Len(more) - 1) : F(more)[n + 1] = RunCommand(input, id, more[n + 1], F(more)[n])
  BY <1>1, CommandedStep
<1>3. /\ F(commands)[0] = p
      /\ \A n \in 0..(Len(commands) - 1) :
           F(commands)[n + 1] = RunCommand(input, id, commands[n + 1], F(commands)[n])
  BY CommandedStep
<1>4. \A k \in 0..Len(commands) : F(more)[k] = F(commands)[k]
  <2> HIDE DEF F
  <2> DEFINE S == {k \in 0..Len(commands) : F(more)[k] = F(commands)[k]}
  <2>1. 0 \in S BY <1>1, <1>2, <1>3
  <2>2. ASSUME NEW k \in 0..(Len(commands) - 1), k \in S PROVE k + 1 \in S
    <3>1. k \in 0..(Len(more) - 1) /\ k + 1 \in 1..Len(commands) BY <1>1
    <3> QED BY <1>1, <1>2, <1>3, <2>2, <3>1
  <2> HIDE DEF S
  <2>3. \A k \in 0..Len(commands) : k \in S BY <1>1, <2>1, <2>2, UpTo
  <2> QED BY <2>3 DEF S
<1>5. F(more)[Len(commands) + 1] = RunCommand(input, id, c, F(commands)[Len(commands)])
  <2> HIDE DEF F
  <2>1. Len(commands) \in 0..Len(commands) /\ Len(commands) \in 0..(Len(more) - 1) BY <1>1
  <2> QED BY <1>1, <1>2, <1>4, <2>1
<1> QED BY <1>1, <1>5 DEF RunCommands, more

\* No commands.
LEMMA RunCommandsEmpty ==
  ASSUME NEW input, NEW id, NEW p
  PROVE  RunCommands(input, id, <<>>, p) = p
<1>1. PICK s : s = <<>> OBVIOUS
<1>2. s \in Seq(Nat) BY <1>1
<1>3. Commanded(input, id, s, p)[0] = p BY <1>2, CommandedStep
<1>4. Len(s) = 0 BY <1>1
<1> QED BY <1>1, <1>3, <1>4 DEF RunCommands

\* Each task is run from where those before it have come.
LEMMA PatchedStep ==
  ASSUME NEW X, NEW patch \in Seq(X), NEW input, NEW p
  PROVE  /\ Patched(input, patch, p)[0] = p
         /\ \A n \in 0..(Len(patch) - 1) :
              Patched(input, patch, p)[n + 1] = RunTask(input, patch[n + 1], Patched(input, patch, p)[n])
<1>1. 0 \in 0..Len(patch) OBVIOUS
<1>2. Patched(input, patch, p)[0] = p BY <1>1, PatchedIs
<1>3. ASSUME NEW n \in 0..(Len(patch) - 1)
      PROVE  Patched(input, patch, p)[n + 1] = RunTask(input, patch[n + 1], Patched(input, patch, p)[n])
  <2>1. n + 1 \in 0..Len(patch) /\ n + 1 # 0 /\ (n + 1) - 1 = n OBVIOUS
  <2>2. Patched(input, patch, p) =
          [m \in 0..Len(patch) |->
             IF m = 0 THEN p ELSE RunTask(input, patch[m], Patched(input, patch, p)[m - 1])]
    BY PatchedIs
  <2>3. Patched(input, patch, p)[n + 1] =
          IF n + 1 = 0 THEN p ELSE RunTask(input, patch[n + 1], Patched(input, patch, p)[(n + 1) - 1])
    BY <2>1, <2>2, Zenon
  <2> QED BY <2>1, <2>3
<1> QED BY <1>2, <1>3

\* One more task.
LEMMA RunTasksAppend ==
  ASSUME NEW X, NEW patch \in Seq(X), NEW t \in X, NEW input, NEW p
  PROVE  RunTasks(input, Append(patch, t), p) = RunTask(input, t, RunTasks(input, patch, p))
<1> DEFINE more == Append(patch, t)
           F(s) == Patched(input, s, p)
<1>1. /\ more \in Seq(X) /\ Len(more) = Len(patch) + 1 /\ Len(patch) \in Nat
      /\ \A i \in 1..Len(patch) : more[i] = patch[i]
      /\ more[Len(patch) + 1] = t
  OBVIOUS
<1> HIDE DEF more
<1>2. /\ F(more)[0] = p
      /\ \A n \in 0..(Len(more) - 1) : F(more)[n + 1] = RunTask(input, more[n + 1], F(more)[n])
  BY <1>1, PatchedStep
<1>3. /\ F(patch)[0] = p
      /\ \A n \in 0..(Len(patch) - 1) : F(patch)[n + 1] = RunTask(input, patch[n + 1], F(patch)[n])
  BY PatchedStep
<1>4. \A k \in 0..Len(patch) : F(more)[k] = F(patch)[k]
  <2> HIDE DEF F
  <2> DEFINE S == {k \in 0..Len(patch) : F(more)[k] = F(patch)[k]}
  <2>1. 0 \in S BY <1>1, <1>2, <1>3
  <2>2. ASSUME NEW k \in 0..(Len(patch) - 1), k \in S PROVE k + 1 \in S
    <3>1. k \in 0..(Len(more) - 1) /\ k + 1 \in 1..Len(patch) BY <1>1
    <3> QED BY <1>1, <1>2, <1>3, <2>2, <3>1
  <2> HIDE DEF S
  <2>3. \A k \in 0..Len(patch) : k \in S BY <1>1, <2>1, <2>2, UpTo
  <2> QED BY <2>3 DEF S
<1>5. F(more)[Len(patch) + 1] = RunTask(input, t, F(patch)[Len(patch)])
  <2> HIDE DEF F
  <2>1. Len(patch) \in 0..Len(patch) /\ Len(patch) \in 0..(Len(more) - 1) BY <1>1
  <2> QED BY <1>1, <1>2, <1>4, <2>1
<1> QED BY <1>1, <1>5 DEF RunTasks, more

\* No tasks.
LEMMA RunTasksEmpty ==
  ASSUME NEW input, NEW p
  PROVE  RunTasks(input, <<>>, p) = p
<1>1. PICK s : s = <<>> OBVIOUS
<1>2. s \in Seq(Nat) BY <1>1
<1>3. Patched(input, s, p)[0] = p BY <1>2, PatchedStep
<1>4. Len(s) = 0 BY <1>1
<1> QED BY <1>1, <1>3, <1>4 DEF RunTasks
-----------------------------------------------------------------------------
(* Reading back what patching and saving write. *)

\* The lines of a file, patched or not, and of a saved patch.
Lines ==
  ({"text"} \X Texts) \cup (({"START", "APPEND_START"} \cup Finders) \X Nat)
    \cup {<<"SKIP_UNTIL_PASS", id, t>> : id \in Nat, t \in Texts} \cup {Original, AppendStop}

\* The lines there may be.
LEMMA LinesAre ==
  /\ \A t \in Texts : Line(t) \in Lines
  /\ \A id \in Nat : \A word \in {"START", "APPEND_START"} \cup Finders : Control(word, id) \in Lines
  /\ \A id \in Nat : \A t \in Texts : <<"SKIP_UNTIL_PASS", id, t>> \in Lines
  /\ Original \in Lines /\ AppendStop \in Lines
BY DEF Lines, Line, Control

\* A text builds nothing, nor does the first line of a patched file.
LEMMA ReadText ==
  ASSUME NEW ts, NEW l, IsText(l) \/ l = Original
  PROVE  BuildLine(Reading(ts), l) = Reading(ts)
BY DEF BuildLine, Reading, NoLine, Control, IsText, Original, Finders

\* Nor do texts.
LEMMA ReadTexts ==
  ASSUME NEW ts, NEW X, NEW s \in Seq(X), \A i \in 1..Len(s) : IsText(s[i])
  PROVE  Build(Reading(ts), s) = Reading(ts)
<1> DEFINE b == Reading(ts)
           S == {k \in 0..Len(s) : Builds(b, s)[k] = b}
<1>1. Len(s) \in Nat OBVIOUS
<1>2. 0 \in S
  <2>1. 0 \in 0..Len(s) BY <1>1
  <2> HIDE DEF b
  <2>2. Builds(b, s)[0] = b BY <2>1, BuildsIs
  <2> QED BY <2>1, <2>2
<1>3. ASSUME NEW k \in 0..(Len(s) - 1), k \in S PROVE k + 1 \in S
  <2>1. IsText(s[k + 1]) BY <1>1
  <2>2. BuildLine(b, s[k + 1]) = b BY <2>1, ReadText
  <2> HIDE DEF b
  <2>3. Builds(b, s)[k + 1] = BuildLine(Builds(b, s)[k], s[k + 1]) BY BuildsStep
  <2>4. k + 1 \in 0..Len(s) BY <1>1
  <2> QED BY <1>3, <2>2, <2>3, <2>4
<1>4. \A k \in 0..Len(s) : k \in S
  <2> HIDE DEF S
  <2> QED BY <1>1, <1>2, <1>3, UpTo
<1>5. Len(s) \in 0..Len(s) BY <1>1
<1> QED BY <1>4, <1>5 DEF Build

\* Two sequences of one.
LEMMA OneAndOne ==
  ASSUME NEW l, NEW m
  PROVE  <<l>> \o <<m>> = <<l, m>>
<1>1. PICK s, t : s = <<l>> /\ t = <<m>> OBVIOUS
<1>2. s \in Seq({l, m}) /\ t \in Seq({l, m}) BY <1>1
<1>3. Len(s) = 1 /\ Len(t) = 1 BY <1>1
<1>4. s \o t \in Seq({l, m}) /\ Len(s \o t) = 2 BY <1>1, <1>2, <1>3
<1>5. (s \o t)[1] = l /\ (s \o t)[2] = m BY <1>1, <1>2, <1>3
<1>6. PICK y : y = s \o t OBVIOUS
<1>7. y \in Seq({l, m}) /\ Len(y) = 2 /\ y[1] = l /\ y[2] = m BY <1>4, <1>5, <1>6
<1>8. PICK z : z = <<l, m>> OBVIOUS
<1>9. z \in Seq({l, m}) /\ Len(z) = 2 /\ z[1] = l /\ z[2] = m BY <1>8
<1>10. \A i \in 1..Len(y) : y[i] = z[i] BY <1>7, <1>9
<1>11. y = z BY <1>7, <1>9, <1>10, SeqEqual
<1> QED BY <1>1, <1>6, <1>8, <1>11

\* Two lines.
LEMMA BuildTwo ==
  ASSUME NEW b, NEW l, NEW m
  PROVE  Build(b, <<l, m>>) = BuildLine(BuildLine(b, l), m)
<1>1. PICK s, t : s = <<l>> /\ t = <<m>> OBVIOUS
<1>2. s \in Seq({l, m}) /\ t \in Seq({l, m}) BY <1>1
<1>3. s \o t = <<l, m>> BY <1>1, OneAndOne
<1>4. Build(b, s \o t) = Build(Build(b, s), t) BY <1>2, BuildConcat
<1>5. Build(b, s) = BuildLine(b, l) BY <1>1, BuildOne
<1>6. Build(BuildLine(b, l), t) = BuildLine(BuildLine(b, l), m) BY <1>1, BuildOne
<1> QED BY <1>3, <1>4, <1>5, <1>6

\* The state in which a value is awaited.
Awaiting(tasks, line, block) == [tasks |-> tasks, awaits |-> line, block |-> block]

\* A control line that wants a value.
LEMMA ReadControl ==
  ASSUME NEW ts, NEW word \in {"START", "APPEND_START"} \cup Finders, NEW id
  PROVE  BuildLine(Reading(ts), Control(word, id)) = Awaiting(ts, Control(word, id), <<>>)
BY DEF BuildLine, Reading, Awaiting, NoLine, Control, Finders

\* The line of a task and the one after it are a task.
LEMMA ReadStart ==
  ASSUME NEW ts, NEW id, NEW t
  PROVE  Build(Reading(ts), <<Control("START", id), Line(t)>>) =
           Reading(Append(ts, [id |-> id, landmark |-> t, commands |-> <<>>]))
<1>1. BuildLine(Reading(ts), Control("START", id)) = Awaiting(ts, Control("START", id), <<>>)
  BY ReadControl
<1>2. BuildLine(Awaiting(ts, Control("START", id), <<>>), Line(t)) = AddTask(ts, id, t)
  BY DEF BuildLine, Awaiting, Control, Line, Finders
<1> QED BY <1>1, <1>2, BuildTwo DEF AddTask

\* A command whose landmark follows it is read back.
LEMMA ReadFinder ==
  ASSUME NEW ts, NEW kind \in Finders, NEW id, NEW t
  PROVE  Build(Reading(ts), <<Control(kind, id), Line(t)>>) = AddCommand(ts, kind, t)
<1>1. BuildLine(Reading(ts), Control(kind, id)) = Awaiting(ts, Control(kind, id), <<>>)
  BY ReadControl
<1>2. BuildLine(Awaiting(ts, Control(kind, id), <<>>), Line(t)) = AddCommand(ts, kind, t)
  BY DEF BuildLine, Awaiting, Control, Line, Finders
<1> QED BY <1>1, <1>2, BuildTwo

\* A command that carries its landmark is read back.
LEMMA ReadPass ==
  ASSUME NEW ts, NEW id, NEW t
  PROVE  Build(Reading(ts), <<<<"SKIP_UNTIL_PASS", id, t>>>>) = AddCommand(ts, "SKIP_UNTIL_PASS", t)
<1>1. BuildLine(Reading(ts), <<"SKIP_UNTIL_PASS", id, t>>) = AddCommand(ts, "SKIP_UNTIL_PASS", t)
  BY DEF BuildLine, Reading, NoLine, Control, Finders
<1> QED BY <1>1, BuildOne

\* An appended block is read back.
LEMMA ReadBlock ==
  ASSUME NEW ts, NEW id \in Nat, NEW arg \in Seq(Texts)
  PROVE  Build(Reading(ts), <<Control("APPEND_START", id)>> \o AsLines(arg) \o <<AppendStop>>) =
           AddCommand(ts, "APPEND_START", arg)
<1> DEFINE c == Control("APPEND_START", id)
           s == AsLines(arg)
           b(n) == Awaiting(ts, c, SubSeq(arg, 1, n))
<1>1. /\ s \in Seq(Lines) /\ Len(s) = Len(arg) /\ Len(arg) \in Nat
      /\ \A i \in 1..Len(arg) : s[i] = Line(arg[i])
  BY LinesAre DEF AsLines
<1>2. PICK u, v : u = <<c>> /\ v = <<AppendStop>> OBVIOUS
<1>3. c \in Lines /\ AppendStop \in Lines BY LinesAre
<1>4. u \in Seq(Lines) /\ v \in Seq(Lines) BY <1>2, <1>3
<1>5. u \o s \in Seq(Lines) BY <1>1, <1>4
<1>6. Build(Reading(ts), u) = b(0)
  <2>1. Build(Reading(ts), u) = Awaiting(ts, c, <<>>) BY <1>2, BuildOne, ReadControl
  <2>2. SubSeq(arg, 1, 0) = <<>> OBVIOUS
  <2> QED BY <2>1, <2>2
<1>7. Build(b(0), s) = b(Len(arg))
  <2> DEFINE S == {k \in 0..Len(arg) : Builds(b(0), s)[k] = b(k)}
  <2>1. 0 \in S
    <3>1. 0 \in 0..Len(s) BY <1>1
    <3> HIDE DEF b, s
    <3>2. Builds(b(0), s) =
            [m \in 0..Len(s) |-> IF m = 0 THEN b(0) ELSE BuildLine(Builds(b(0), s)[m - 1], s[m])]
      BY <1>1, BuildsIs
    <3>3. Builds(b(0), s)[0] = b(0) BY <3>1, <3>2
    <3> QED BY <1>1, <3>1, <3>3
  <2>2. ASSUME NEW k \in 0..(Len(arg) - 1), k \in S PROVE k + 1 \in S
    <3>1. SubSeq(arg, 1, k + 1) = Append(SubSeq(arg, 1, k), arg[k + 1]) BY <1>1
    <3>2. BuildLine(b(k), Line(arg[k + 1])) = b(k + 1)
      <4>1. BuildLine(b(k), Line(arg[k + 1])) = Awaiting(ts, c, Append(SubSeq(arg, 1, k), arg[k + 1]))
        <5> DEFINE bl == SubSeq(arg, 1, k)
        <5> HIDE DEF bl
        <5>1. BuildLine(Awaiting(ts, c, bl), Line(arg[k + 1])) = Awaiting(ts, c, Append(bl, arg[k + 1]))
          BY DEF BuildLine, Awaiting, Control, Line, Finders
        <5> QED BY <5>1 DEF bl
      <4> QED BY <3>1, <4>1
    <3>3. k + 1 \in 1..Len(arg) /\ k + 1 \in 0..Len(arg) /\ k \in 0..(Len(s) - 1) BY <1>1
    <3>4. s[k + 1] = Line(arg[k + 1]) BY <1>1, <3>3
    <3> HIDE DEF b, s
    <3>5. Builds(b(0), s)[k + 1] = BuildLine(Builds(b(0), s)[k], s[k + 1]) BY <1>1, <3>3, BuildsStep
    <3> QED BY <2>2, <3>2, <3>3, <3>4, <3>5
  <2>3. \A k \in 0..Len(arg) : k \in S
    <3> HIDE DEF S
    <3> QED BY <1>1, <2>1, <2>2, UpTo
  <2>4. Len(arg) \in 0..Len(arg) BY <1>1
  <2> QED BY <1>1, <2>3, <2>4 DEF Build
<1>8. BuildLine(b(Len(arg)), AppendStop) = AddCommand(ts, "APPEND_START", arg)
  <2>1. SubSeq(arg, 1, Len(arg)) = arg OBVIOUS
  <2>2. BuildLine(Awaiting(ts, c, arg), AppendStop) = AddCommand(ts, "APPEND_START", arg)
    BY DEF BuildLine, Awaiting, Control, AppendStop, Finders
  <2> QED BY <2>1, <2>2
<1> HIDE DEF b, s
<1>9. Build(Reading(ts), (u \o s) \o v) = Build(Build(Reading(ts), u \o s), v) BY <1>4, <1>5, BuildConcat
<1>10. Build(Reading(ts), u \o s) = Build(Build(Reading(ts), u), s) BY <1>1, <1>4, BuildConcat
<1>11. Build(b(Len(arg)), v) = BuildLine(b(Len(arg)), AppendStop) BY <1>2, BuildOne
<1>12. Build(Reading(ts), (u \o s) \o v) = AddCommand(ts, "APPEND_START", arg)
  BY <1>6, <1>7, <1>8, <1>9, <1>10, <1>11
<1> QED BY <1>2, <1>12 DEF s
\* A task with the commands read so far.
TaskOf(id, landmark, commands) == [id |-> id, landmark |-> landmark, commands |-> commands]

\* What a command is made of.
LEMMA CommandIs ==
  ASSUME NEW c \in Command
  PROVE  /\ c = [kind |-> c.kind, arg |-> c.arg]
         /\ c.kind \in Finders \cup {"SKIP_UNTIL_PASS"} => c.arg \in Texts
         /\ c.kind = "APPEND_START" => c.arg \in Seq(Texts)
         /\ c.kind \in Finders \cup {"SKIP_UNTIL_PASS", "APPEND_START"}
<1>1. CASE c \in [kind : Finders \cup {"SKIP_UNTIL_PASS"}, arg : Texts]
  BY <1>1 DEF Finders
<1>2. CASE c \in [kind : {"APPEND_START"}, arg : Seq(Texts)]
  BY <1>2 DEF Finders
<1> QED BY <1>1, <1>2 DEF Command

\* Commands come from these two sets.
LEMMA CommandMade ==
  /\ \A kind \in Finders \cup {"SKIP_UNTIL_PASS"} : \A t \in Texts : [kind |-> kind, arg |-> t] \in Command
  /\ \A s \in Seq(Texts) : [kind |-> "APPEND_START", arg |-> s] \in Command
BY DEF Command

\* What a task is made of.
LEMMA TaskIs ==
  /\ \A t \in Task : /\ t.id \in Nat /\ t.landmark \in Texts /\ t.commands \in Seq(Command)
                     /\ t = TaskOf(t.id, t.landmark, t.commands)
  /\ \A id \in Nat : \A l \in Texts : \A cs \in Seq(Command) :
       /\ TaskOf(id, l, cs) \in Task
       /\ TaskOf(id, l, cs).id = id /\ TaskOf(id, l, cs).landmark = l /\ TaskOf(id, l, cs).commands = cs
BY DEF Task, TaskOf

\* The last task gets the command.
LEMMA CommandAdded ==
  ASSUME NEW ts \in Seq(Task), NEW id \in Nat, NEW l \in Texts, NEW cs \in Seq(Command), NEW c \in Command
  PROVE  AddCommand(Append(ts, TaskOf(id, l, cs)), c.kind, c.arg) =
           Reading(Append(ts, TaskOf(id, l, Append(cs, c))))
<1> DEFINE old == Append(ts, TaskOf(id, l, cs))
           t2 == TaskOf(id, l, Append(cs, c))
           new == [old EXCEPT ![Len(old)] = t2]
<1>1. TaskOf(id, l, cs) \in Task BY TaskIs
<1>2. t2 \in Task
  <2>1. Append(cs, c) \in Seq(Command) OBVIOUS
  <2> QED BY <2>1, TaskIs
<1>3. old[Len(old)] = TaskOf(id, l, cs) /\ old \in Seq(Task) /\ Len(old) = Len(ts) + 1 BY <1>1
<1>4. [old[Len(old)] EXCEPT !.commands = Append(@, c)] = t2
  <2>1. \A x : [TaskOf(id, l, cs) EXCEPT !.commands = x] = TaskOf(id, l, x) BY DEF TaskOf
  <2>2. TaskOf(id, l, cs).commands = cs BY DEF TaskOf
  <2> HIDE DEF old
  <2> QED BY <1>3, <2>1, <2>2
<1>5. new = Append(ts, t2)
  <2>3. \A j \in 1..Len(ts) : old[j] = ts[j] BY <1>1
  <2> HIDE DEF t2, old
  <2>1. Len(old) \in 1..Len(old) BY <1>3
  <2>2. new \in Seq(Task) /\ Len(new) = Len(old) /\ \A j \in 1..Len(old) : new[j] = IF j = Len(old) THEN t2 ELSE old[j]
    BY <1>2, <1>3, <2>1, ExceptSeq
  <2> DEFINE z == Append(ts, t2)
  <2>4. z \in Seq(Task) /\ Len(z) = Len(ts) + 1 /\ z[Len(ts) + 1] = t2 /\ \A j \in 1..Len(ts) : z[j] = ts[j]
    BY <1>2
  <2> HIDE DEF new, z
  <2>5. Len(ts) \in Nat OBVIOUS
  <2>7. ASSUME NEW j \in 1..Len(new) PROVE new[j] = z[j]
    <3>1. CASE j = Len(old) BY <1>3, <2>2, <2>4, <3>1
    <3>2. CASE j \in 1..Len(ts) BY <1>3, <2>2, <2>3, <2>4, <2>5, <3>2
    <3> QED BY <1>3, <2>2, <2>5, <3>1, <3>2
  <2>6. new = z BY <1>3, <2>2, <2>4, <2>7, SeqEqual
  <2> QED BY <2>6 DEF z
<1>6. AddCommand(old, c.kind, c.arg) = Reading([old EXCEPT ![Len(old)].commands = Append(@, c)])
  <2>1. c = [kind |-> c.kind, arg |-> c.arg] BY CommandIs
  <2> HIDE DEF old
  <2> QED BY <2>1 DEF AddCommand
<1>7. [old EXCEPT ![Len(old)].commands = Append(@, c)] = new BY <1>4
<1> QED BY <1>5, <1>6, <1>7

\* A saved command is read back.
LEMMA ReadCommand ==
  ASSUME NEW ts, NEW id \in Nat, NEW c \in Command
  PROVE  /\ WriteCommand(id, c, TRUE) \in Seq(Lines)
         /\ Build(Reading(ts), WriteCommand(id, c, TRUE)) = AddCommand(ts, c.kind, c.arg)
<1> DEFINE w == WriteCommand(id, c, TRUE)
<1>1. CASE c.kind = "APPEND_START"
  <2>1. w = <<Control("APPEND_START", id)>> \o AsLines(c.arg) \o <<AppendStop>> BY <1>1 DEF WriteCommand
  <2>2. c.arg \in Seq(Texts) BY <1>1, CommandIs
  <2>3. AsLines(c.arg) \in Seq(Lines) BY <2>2, LinesAre DEF AsLines
  <2>4. Control("APPEND_START", id) \in Lines /\ AppendStop \in Lines BY LinesAre
  <2>5. PICK u, s, v : u = <<Control("APPEND_START", id)>> /\ s = AsLines(c.arg) /\ v = <<AppendStop>> OBVIOUS
  <2>6. u \in Seq(Lines) /\ v \in Seq(Lines) BY <2>4, <2>5
  <2>7. (u \o s) \o v \in Seq(Lines) BY <2>3, <2>5, <2>6, ConcatProperties
  <2> QED BY <1>1, <2>1, <2>2, <2>5, <2>7, ReadBlock
<1>2. CASE c.kind = "SKIP_UNTIL_PASS"
  <2>1. w = <<<<"SKIP_UNTIL_PASS", id, c.arg>>>> BY <1>2 DEF WriteCommand
  <2>2. <<"SKIP_UNTIL_PASS", id, c.arg>> \in Lines BY <1>2, CommandIs, LinesAre
  <2> HIDE DEF w
  <2>3. w \in Seq(Lines) BY <2>1, <2>2
  <2> QED BY <1>2, <2>1, <2>3, ReadPass DEF w
<1>3. CASE c.kind \in Finders
  <2>1. w = <<Control(c.kind, id)>> \o <<Line(c.arg)>> BY <1>3 DEF WriteCommand, Finders
  <2>2. w = <<Control(c.kind, id), Line(c.arg)>> BY <2>1, OneAndOne
  <2>3. Control(c.kind, id) \in Lines /\ Line(c.arg) \in Lines BY <1>3, CommandIs, LinesAre
  <2> HIDE DEF w
  <2>4. w \in Seq(Lines) BY <2>2, <2>3
  <2> QED BY <1>3, <2>2, <2>4, ReadFinder DEF w
<1> QED BY <1>1, <1>2, <1>3, CommandIs
\* A sequence is a function from the numbers up to its length.
LEMMA SeqFrom ==
  ASSUME NEW X, NEW n \in Nat, NEW z \in [1..n -> X]
  PROVE  z \in Seq(X) /\ Len(z) = n
OBVIOUS

\* Pieces in a row, read one after the other.
LEMMA BuildFlat ==
  ASSUME NEW X, NEW seqs \in Seq(Seq(X)), NEW g,
         \A n \in 0..(Len(seqs) - 1) : Build(g[n], seqs[n + 1]) = g[n + 1]
  PROVE  FlattenSeq(seqs) \in Seq(X) /\ Build(g[0], FlattenSeq(seqs)) = g[Len(seqs)]
<1>1. Len(seqs) \in Nat OBVIOUS
<1>2. CASE seqs = <<>>
  <2>1. FlattenSeq(seqs) = <<>> /\ Len(seqs) = 0 BY <1>2 DEF FlattenSeq
  <2>2. Build(g[0], <<>>) = g[0] BY BuildEmpty
  <2> QED BY <2>1, <2>2
<1>3. CASE seqs # <<>>
  <2>1. PICK f : /\ f = [n \in 1..Len(seqs) |-> IF n = 1 THEN seqs[n] ELSE f[n - 1] \o seqs[n]]
                 /\ FlattenSeq(seqs) = f[Len(seqs)]
    BY <1>3, FlattenIs
  <2>2. \A n \in 1..Len(seqs) : f[n] = IF n = 1 THEN seqs[n] ELSE f[n - 1] \o seqs[n] BY <2>1, Zenon
  <2> DEFINE S == {k \in 0..Len(seqs) : k # 0 => f[k] \in Seq(X) /\ Build(g[0], f[k]) = g[k]}
  <2>3. 0 \in S BY <1>1
  <2>4. ASSUME NEW k \in 0..(Len(seqs) - 1), k \in S PROVE k + 1 \in S
    <3>1. k + 1 \in 1..Len(seqs) /\ k + 1 \in 0..Len(seqs) /\ (k + 1) - 1 = k BY <1>1
    <3>2. seqs[k + 1] \in Seq(X) BY <3>1
    <3>3. f[k + 1] = IF k + 1 = 1 THEN seqs[k + 1] ELSE f[(k + 1) - 1] \o seqs[k + 1] BY <2>2, <3>1, Zenon
    <3>4. CASE k = 0
      <4>1. f[k + 1] = seqs[k + 1] BY <3>3, <3>4
      <4>2. Build(g[k], seqs[k + 1]) = g[k + 1] OBVIOUS
      <4> QED BY <3>1, <3>2, <3>4, <4>1, <4>2
    <3>5. CASE k # 0
      <4>6. k + 1 # 1 BY <3>5
      <4>1. f[k + 1] = f[k] \o seqs[k + 1] BY <3>1, <3>3, <4>6, Zenon
      <4>2. f[k] \in Seq(X) /\ Build(g[0], f[k]) = g[k] BY <2>4, <3>5
      <4>3. f[k] \o seqs[k + 1] \in Seq(X) BY <3>2, <4>2, ConcatProperties
      <4>4. Build(g[0], f[k] \o seqs[k + 1]) = Build(Build(g[0], f[k]), seqs[k + 1])
        BY <3>2, <4>2, BuildConcat
      <4>5. Build(g[k], seqs[k + 1]) = g[k + 1] OBVIOUS
      <4> QED BY <3>1, <4>1, <4>2, <4>3, <4>4, <4>5
    <3> QED BY <3>4, <3>5
  <2>5. \A k \in 0..Len(seqs) : k \in S
    <3> HIDE DEF S
    <3> QED BY <1>1, <2>3, <2>4, UpTo
  <2>6. Len(seqs) \in 0..Len(seqs) /\ Len(seqs) # 0 BY <1>1, <1>3
  <2>7. f[Len(seqs)] \in Seq(X) /\ Build(g[0], f[Len(seqs)]) = g[Len(seqs)] BY <2>5, <2>6
  <2> QED BY <2>1, <2>7
<1> QED BY <1>2, <1>3

\* A saved task is read back.
LEMMA ReadTask ==
  ASSUME NEW ts \in Seq(Task), NEW t \in Task
  PROVE  SaveTask(t) \in Seq(Lines) /\ Build(Reading(ts), SaveTask(t)) = Reading(Append(ts, t))
<1> DEFINE id == t.id
           l == t.landmark
           cs == t.commands
           g == [n \in 0..Len(cs) |-> Reading(Append(ts, TaskOf(id, l, SubSeq(cs, 1, n))))]
           seqs == [i \in DOMAIN cs |-> WriteCommand(id, cs[i], TRUE)]
           head == <<Control("START", id), Line(l)>>
<1>1. id \in Nat /\ l \in Texts /\ cs \in Seq(Command) /\ t = TaskOf(id, l, cs) BY TaskIs
<1>2. Len(cs) \in Nat /\ DOMAIN cs = 1..Len(cs) BY <1>1
<1>3. \A i \in 1..Len(cs) : WriteCommand(id, cs[i], TRUE) \in Seq(Lines)
  <2> TAKE i \in 1..Len(cs)
  <2>1. cs[i] \in Command BY <1>1
  <2> HIDE DEF id, cs
  <2> QED BY <1>1, <2>1, ReadCommand
<1>4. seqs \in Seq(Seq(Lines)) /\ Len(seqs) = Len(cs)
  <2>1. seqs \in [1..Len(cs) -> Seq(Lines)]
    <3> HIDE DEF id, cs
    <3> QED BY <1>2, <1>3
  <2> HIDE DEF seqs
  <2> QED BY <1>2, <2>1, SeqFrom
<1>5. \A n \in 0..(Len(seqs) - 1) : Build(g[n], seqs[n + 1]) = g[n + 1]
  <2> SUFFICES ASSUME NEW n \in 0..(Len(cs) - 1) PROVE Build(g[n], seqs[n + 1]) = g[n + 1] BY <1>4
  <2>1. n + 1 \in 1..Len(cs) /\ n \in 0..Len(cs) /\ n + 1 \in 0..Len(cs) BY <1>2
  <2>2. cs[n + 1] \in Command /\ SubSeq(cs, 1, n) \in Seq(Command) BY <1>1, <2>1
  <2>3. SubSeq(cs, 1, n + 1) = Append(SubSeq(cs, 1, n), cs[n + 1]) BY <1>1, <2>1
  <2> DEFINE c == cs[n + 1]
             before == SubSeq(cs, 1, n)
  <2>4. seqs[n + 1] = WriteCommand(id, c, TRUE) BY <1>2, <2>1
  <2>5. g[n] = Reading(Append(ts, TaskOf(id, l, before))) BY <2>1
  <2>6. g[n + 1] = Reading(Append(ts, TaskOf(id, l, Append(before, c)))) BY <2>1, <2>3
  <2> HIDE DEF g, seqs, before, c, id, l, cs
  <2>7. Build(Reading(Append(ts, TaskOf(id, l, before))), WriteCommand(id, c, TRUE)) =
          AddCommand(Append(ts, TaskOf(id, l, before)), c.kind, c.arg)
    BY <1>1, <2>2, ReadCommand DEF c
  <2>8. AddCommand(Append(ts, TaskOf(id, l, before)), c.kind, c.arg) =
          Reading(Append(ts, TaskOf(id, l, Append(before, c))))
    BY <1>1, <2>2, CommandAdded DEF c, before
  <2> QED BY <2>4, <2>5, <2>6, <2>7, <2>8
<1>6. g[0] = Reading(Append(ts, TaskOf(id, l, <<>>)))
  <2>1. SubSeq(cs, 1, 0) = <<>> BY <1>1
  <2>2. 0 \in 0..Len(cs) BY <1>2
  <2>3. g[0] = Reading(Append(ts, TaskOf(id, l, SubSeq(cs, 1, 0)))) BY <2>2, Zenon
  <2> HIDE DEF g, cs
  <2> QED BY <2>1, <2>3
<1>7. g[Len(cs)] = Reading(Append(ts, t))
  <2>1. SubSeq(cs, 1, Len(cs)) = cs BY <1>1
  <2>2. Len(cs) \in 0..Len(cs) BY <1>2
  <2>3. g[Len(cs)] = Reading(Append(ts, TaskOf(id, l, SubSeq(cs, 1, Len(cs))))) BY <2>2, Zenon
  <2> HIDE DEF g, cs
  <2> QED BY <1>1, <2>1, <2>3
<1>8. Build(Reading(ts), head) = g[0]
  <2>1. Build(Reading(ts), head) = Reading(Append(ts, [id |-> id, landmark |-> l, commands |-> <<>>]))
    BY ReadStart
  <2> QED BY <1>6, <2>1 DEF TaskOf
<1>9. head \in Seq(Lines)
  <2>1. Control("START", id) \in Lines /\ Line(l) \in Lines BY <1>1, LinesAre
  <2> QED BY <2>1
<1>10. SaveTask(t) = head \o FlattenSeq(seqs) BY DEF SaveTask
<1> HIDE DEF g, seqs, head
<1>11. FlattenSeq(seqs) \in Seq(Lines) /\ Build(g[0], FlattenSeq(seqs)) = g[Len(seqs)]
  BY <1>4, <1>5, BuildFlat
<1>12. Build(Reading(ts), head \o FlattenSeq(seqs)) = Build(Build(Reading(ts), head), FlattenSeq(seqs))
  BY <1>9, <1>11, BuildConcat
<1>13. head \o FlattenSeq(seqs) \in Seq(Lines) BY <1>9, <1>11, ConcatProperties
<1> QED BY <1>4, <1>7, <1>8, <1>10, <1>11, <1>12, <1>13

\* What is saved is read back: the patch folder loses nothing.
LEMMA ReadPatch ==
  ASSUME NEW p \in Seq(Task)
  PROVE  SavePatchFile(p) \in Seq(Lines) /\ Build(Nothing, SavePatchFile(p)) = Reading(p)
<1> DEFINE g == [n \in 0..Len(p) |-> Reading(SubSeq(p, 1, n))]
           seqs == [i \in DOMAIN p |-> SaveTask(p[i])]
           head == <<Original>>
<1>1. Len(p) \in Nat /\ DOMAIN p = 1..Len(p) OBVIOUS
<1>2. \A i \in 1..Len(p) : SaveTask(p[i]) \in Seq(Lines)
  <2>1. <<>> \in Seq(Task) OBVIOUS
  <2> QED BY <1>1, <2>1, ReadTask
<1>3. seqs \in Seq(Seq(Lines)) /\ Len(seqs) = Len(p)
  <2>1. seqs \in [1..Len(p) -> Seq(Lines)] BY <1>1, <1>2
  <2> HIDE DEF seqs
  <2> QED BY <1>1, <2>1, SeqFrom
<1>4. \A n \in 0..(Len(seqs) - 1) : Build(g[n], seqs[n + 1]) = g[n + 1]
  <2> SUFFICES ASSUME NEW n \in 0..(Len(p) - 1) PROVE Build(g[n], seqs[n + 1]) = g[n + 1] BY <1>3
  <2>1. n + 1 \in 1..Len(p) /\ n \in 0..Len(p) /\ n + 1 \in 0..Len(p) BY <1>1
  <2> DEFINE t == p[n + 1]
             before == SubSeq(p, 1, n)
  <2>2. t \in Task /\ before \in Seq(Task) BY <2>1
  <2>3. SubSeq(p, 1, n + 1) = Append(before, t) BY <2>1
  <2>4. seqs[n + 1] = SaveTask(t) /\ g[n] = Reading(before) /\ g[n + 1] = Reading(Append(before, t))
    BY <1>1, <2>1, <2>3
  <2> HIDE DEF g, seqs, t, before
  <2>5. Build(Reading(before), SaveTask(t)) = Reading(Append(before, t)) BY <2>2, ReadTask
  <2> QED BY <2>4, <2>5
<1>5. g[0] = Nothing
  <2>1. SubSeq(p, 1, 0) = <<>> OBVIOUS
  <2>2. 0 \in 0..Len(p) BY <1>1
  <2>3. g[0] = Reading(SubSeq(p, 1, 0)) BY <2>2, Zenon
  <2> HIDE DEF g
  <2> QED BY <2>1, <2>3 DEF Nothing
<1>6. g[Len(p)] = Reading(p)
  <2>1. SubSeq(p, 1, Len(p)) = p OBVIOUS
  <2>2. Len(p) \in 0..Len(p) BY <1>1
  <2>3. g[Len(p)] = Reading(SubSeq(p, 1, Len(p))) BY <2>2, Zenon
  <2> HIDE DEF g
  <2> QED BY <2>1, <2>3
<1>7. Build(Nothing, head) = Nothing
  <2>1. BuildLine(Reading(<<>>), Original) = Reading(<<>>) BY ReadText
  <2> QED BY <2>1, BuildOne DEF Nothing
<1>8. head \in Seq(Lines)
  <2>1. Original \in Lines BY LinesAre
  <2> QED BY <2>1
<1>9. SavePatchFile(p) = head \o FlattenSeq(seqs) BY DEF SavePatchFile
<1> HIDE DEF g, seqs, head
<1>10. FlattenSeq(seqs) \in Seq(Lines) /\ Build(g[0], FlattenSeq(seqs)) = g[Len(seqs)]
  BY <1>3, <1>4, BuildFlat
<1>11. Build(Nothing, head \o FlattenSeq(seqs)) = Build(Build(Nothing, head), FlattenSeq(seqs))
  BY <1>8, <1>10, BuildConcat
<1>12. head \o FlattenSeq(seqs) \in Seq(Lines) BY <1>8, <1>10, ConcatProperties
<1> QED BY <1>3, <1>5, <1>6, <1>7, <1>9, <1>10, <1>11, <1>12
-----------------------------------------------------------------------------
(* One command on a release. *)

\* The lines of a release.
LEMMA ReleaseLines ==
  ASSUME NEW r \in Seq(Texts)
  PROVE  /\ AsLines(r) \in Seq(Lines) /\ Len(AsLines(r)) = Len(r) /\ Len(r) \in Nat
         /\ \A i \in 1..Len(r) : /\ AsLines(r)[i] = Line(r[i]) /\ AsLines(r)[i] \in Lines
                                 /\ IsText(AsLines(r)[i]) /\ AsLines(r)[i][2] = r[i] /\ r[i] \in Texts
<1>1. \A i \in 1..Len(r) : r[i] \in Texts /\ Line(r[i]) \in Lines BY LinesAre
<1>2. Len(r) \in Nat /\ DOMAIN r = 1..Len(r) OBVIOUS
<1>3. AsLines(r) \in [1..Len(r) -> Lines] BY <1>1, <1>2 DEF AsLines
<1>4. \A i \in 1..Len(r) : AsLines(r)[i] = Line(r[i]) BY <1>2 DEF AsLines
<1>5. \A i \in 1..Len(r) : IsText(Line(r[i])) /\ Line(r[i])[2] = r[i] BY DEF IsText, Line
<1> QED BY <1>1, <1>2, <1>3, <1>4, <1>5, SeqFrom

\* The line found is the first that starts with the landmark.
LEMMA Found ==
  ASSUME NEW r \in Seq(Texts), NEW at \in 1..(Len(r) + 1), NEW l
  PROVE  LET f == FindLandmark(AsLines(r), at, l)
         IN \/ f = 0 /\ \A i \in at..Len(r) : <<l, r[i]>> \notin Beginnings
            \/ /\ f \in at..Len(r) /\ <<l, r[f]>> \in Beginnings
               /\ \A i \in at..(f - 1) : <<l, r[i]>> \notin Beginnings
<1> DEFINE I == {i \in at..Len(r) : <<l, r[i]>> \in Beginnings}
           J == {i \in at..Len(AsLines(r)) : StartsWith(AsLines(r)[i], l)}
<1>1. Len(AsLines(r)) = Len(r) /\ Len(r) \in Nat BY ReleaseLines
<1>2. \A i \in at..Len(r) : StartsWith(AsLines(r)[i], l) <=> <<l, r[i]>> \in Beginnings
  <2> TAKE i \in at..Len(r)
  <2>1. i \in 1..Len(r) BY <1>1
  <2>2. IsText(AsLines(r)[i]) /\ AsLines(r)[i][2] = r[i] BY <2>1, ReleaseLines
  <2> QED BY <2>2 DEF StartsWith
<1>3. I = J BY <1>1, <1>2
<1>4. FindLandmark(AsLines(r), at, l) = IF J # {} THEN Min(J) ELSE 0
  BY DEF FindLandmark, SelectInSubSeq
<1>5. CASE I = {}
  <2>1. \A i \in at..Len(r) : <<l, r[i]>> \notin Beginnings BY <1>5
  <2> QED BY <1>3, <1>4, <1>5, <2>1
<1>6. CASE I # {}
  <2>1. I \subseteq Nat BY <1>1
  <2> HIDE DEF I
  <2>2. PICK m \in I : \A k \in I : m <= k BY <1>6, <2>1, Least
  <2>3. Min(I) \in I /\ \A k \in I : Min(I) <= k BY <2>2 DEF Min
  <2> DEFINE f == Min(I)
  <2>4. f \in at..Len(r) /\ <<l, r[f]>> \in Beginnings BY <2>3 DEF I
  <2>5. \A i \in at..(f - 1) : <<l, r[i]>> \notin Beginnings
    <3> SUFFICES ASSUME NEW i \in at..(f - 1), <<l, r[i]>> \in Beginnings PROVE FALSE OBVIOUS
    <3> HIDE DEF f
    <3>1. i \in I BY <1>1, <2>4 DEF I
    <3>2. f <= i BY <2>3, <3>1 DEF f
    <3> QED BY <1>1, <2>4, <3>2
  <2>6. FindLandmark(AsLines(r), at, l) = f BY <1>3, <1>4, <1>6
  <2> HIDE DEF f
  <2> QED BY <2>4, <2>5, <2>6
<1> QED BY <1>5, <1>6

\* The whole of the line found, taken as the landmark, finds the same line.
LEMMA FoundAgain ==
  ASSUME NEW r \in Seq(Texts), NEW at \in 1..(Len(r) + 1), NEW l \in Texts,
         FindLandmark(AsLines(r), at, l) # 0
  PROVE  LET f == FindLandmark(AsLines(r), at, l)
         IN /\ f \in at..Len(r) /\ f \in 1..Len(r) /\ r[f] \in Texts /\ Narrows(l, r[f])
            /\ FindLandmark(AsLines(r), at, r[f]) = f
<1> DEFINE f == FindLandmark(AsLines(r), at, l)
<1>1. Len(r) \in Nat OBVIOUS
<1>2. /\ f \in at..Len(r) /\ <<l, r[f]>> \in Beginnings
      /\ \A i \in at..(f - 1) : <<l, r[i]>> \notin Beginnings
  BY Found
<1> HIDE DEF f
<1>3. f \in 1..Len(r) /\ r[f] \in Texts BY <1>1, <1>2
<1> DEFINE g == FindLandmark(AsLines(r), at, r[f])
<1>4. \/ g = 0 /\ \A i \in at..Len(r) : <<r[f], r[i]>> \notin Beginnings
      \/ /\ g \in at..Len(r) /\ <<r[f], r[g]>> \in Beginnings
         /\ \A i \in at..(g - 1) : <<r[f], r[i]>> \notin Beginnings
  BY Found
<1> HIDE DEF g
<1>5. <<r[f], r[f]>> \in Beginnings BY <1>3, PatcherAssumption
<1>6. g # 0 BY <1>2, <1>4, <1>5
<1>7. g <= f
  <2> SUFFICES ASSUME f < g PROVE FALSE BY <1>1, <1>2, <1>4, <1>6
  <2>1. f \in at..(g - 1) BY <1>1, <1>2, <1>4, <1>6
  <2> QED BY <1>4, <1>5, <1>6, <2>1
<1>8. ~ g < f
  <2> SUFFICES ASSUME g < f PROVE FALSE OBVIOUS
  <2>1. g \in at..(f - 1) /\ g \in 1..Len(r) BY <1>1, <1>2, <1>4, <1>6
  <2>2. r[g] \in Texts BY <2>1
  <2>3. <<l, r[g]>> \in Beginnings BY <1>2, <1>3, <1>4, <1>6, <2>2, PatcherAssumption
  <2> QED BY <1>2, <2>1, <2>3
<1>9. g = f BY <1>1, <1>2, <1>4, <1>6, <1>7, <1>8
<1> QED BY <1>2, <1>3, <1>9 DEF f, g, Narrows

\* A patching that has come so far.
LEMMA AtIs ==
  ASSUME NEW out, NEW at
  PROVE  /\ At(out, at).out = out /\ At(out, at).at = at /\ (Ok(At(out, at)) <=> at # 0)
         /\ ~Ok(Failed)
BY DEF At, Failed, Ok

\* What the commands do.
AppendRan(input, id, c, out, at) ==
  RunCommand(input, id, c, At(out, at)) = At(out \o WriteCommand(id, c, TRUE), at)
FinderRan(r, id, c, out, at) ==
  LET f == FindLandmark(AsLines(r), at, c.arg)
      q == RunCommand(AsLines(r), id, c, At(out, at))
  IN /\ f = 0 => q = Failed
     /\ f # 0 /\ c.kind = "FIND_NEXT_LANDMARK" =>
          q = At(out \o SubSeq(AsLines(r), at, f - 1) \o <<Control(c.kind, id)>> \o <<Line(r[f])>>, f + 1)
     /\ f # 0 /\ c.kind = "SKIP_UNTIL_AND_ACCEPT" =>
          q = At(out \o <<Control(c.kind, id)>> \o <<Line(r[f])>>, f + 1)
     /\ f # 0 /\ c.kind = "SKIP_UNTIL_PASS" =>
          q = At(out \o <<<<"SKIP_UNTIL_PASS", id, c.arg>>>>, f + 1)

\* APPEND_START writes its block.
LEMMA AppendRuns ==
  ASSUME NEW input, NEW id, NEW c, c.kind = "APPEND_START", NEW out, NEW at \in Nat \ {0}
  PROVE  AppendRan(input, id, c, out, at)
<1> DEFINE p == At(out, at)
           w == WriteCommand(id, c, FALSE)
<1>1. w = WriteCommand(id, c, TRUE) BY DEF WriteCommand
<1>2. Ok(p) /\ p.out = out /\ p.at = at BY AtIs
<1> HIDE DEF p, w
<1>3. RunCommand(input, id, c, p) = At(p.out \o w, p.at) BY <1>2 DEF RunCommand, w
<1> QED BY <1>1, <1>2, <1>3 DEF p, w, AppendRan

\* FOLLOW_BY wants the next line.
LEMMA FollowRuns ==
  ASSUME NEW r \in Seq(Texts), NEW id, NEW c, c.kind = "FOLLOW_BY", NEW out, NEW at \in 1..(Len(r) + 1)
  PROVE  RunCommand(AsLines(r), id, c, At(out, at)) =
           IF at <= Len(r) /\ <<c.arg, r[at]>> \in Beginnings
           THEN At(out \o <<Control("FOLLOW_BY", id)>> \o <<Line(r[at])>>, at + 1)
           ELSE Failed
<1> DEFINE p == At(out, at)
           w == WriteCommand(id, c, FALSE)
           input == AsLines(r)
           x == out \o w \o <<input[at]>>
<1>1. w = <<Control("FOLLOW_BY", id)>>
  <2>1. w = <<Control("FOLLOW_BY", id)>> \o <<>> BY DEF WriteCommand
  <2>2. PICK u : u = <<Control("FOLLOW_BY", id)>> OBVIOUS
  <2>3. u \in Seq({Control("FOLLOW_BY", id)}) BY <2>2
  <2> QED BY <2>1, <2>2, <2>3, ConcatEmptySeq
<1>2. Ok(p) /\ p.out = out /\ p.at = at
  <2>1. at # 0 OBVIOUS
  <2> QED BY <2>1, AtIs
<1>3. Len(input) = Len(r) BY ReleaseLines
<1>4. at <= Len(r) => /\ StartsWith(input[at], c.arg) <=> <<c.arg, r[at]>> \in Beginnings
                      /\ input[at] = Line(r[at])
  <2> SUFFICES ASSUME at <= Len(r)
               PROVE  /\ StartsWith(input[at], c.arg) <=> <<c.arg, r[at]>> \in Beginnings
                      /\ input[at] = Line(r[at])
    OBVIOUS
  <2>1. at \in 1..Len(r) OBVIOUS
  <2>2. IsText(input[at]) /\ input[at][2] = r[at] /\ input[at] = Line(r[at]) BY <2>1, ReleaseLines
  <2> QED BY <2>2 DEF StartsWith
<1> HIDE DEF p, w, input
<1>5. RunCommand(input, id, c, p) = FollowBy(input, id, c, p) BY <1>2 DEF RunCommand
<1>6. FollowBy(input, id, c, p) =
        IF p.at <= Len(input) /\ StartsWith(input[p.at], c.arg)
        THEN At(p.out \o w \o <<input[p.at]>>, p.at + 1)
        ELSE Failed
  BY DEF FollowBy, w
<1>7. FollowBy(input, id, c, p) =
        IF at <= Len(r) /\ <<c.arg, r[at]>> \in Beginnings THEN At(x, at + 1) ELSE Failed
  <2> HIDE DEF x
  <2>1. FollowBy(input, id, c, p) =
          IF at <= Len(r) /\ StartsWith(input[at], c.arg) THEN At(x, at + 1) ELSE Failed
    BY <1>2, <1>3, <1>6 DEF x
  <2> QED BY <1>4, <2>1
<1>8. at <= Len(r) => x = out \o <<Control("FOLLOW_BY", id)>> \o <<Line(r[at])>> BY <1>1, <1>4
<1> HIDE DEF x
<1>9. RunCommand(input, id, c, p) =
        IF at <= Len(r) /\ <<c.arg, r[at]>> \in Beginnings
        THEN At(out \o <<Control("FOLLOW_BY", id)>> \o <<Line(r[at])>>, at + 1) ELSE Failed
  BY <1>5, <1>7, <1>8
<1> QED BY <1>9 DEF p, input

\* The other commands look for a line.
LEMMA FinderRuns ==
  ASSUME NEW r \in Seq(Texts), NEW id, NEW c,
         c.kind \in {"FIND_NEXT_LANDMARK", "SKIP_UNTIL_PASS", "SKIP_UNTIL_AND_ACCEPT"},
         NEW out \in Seq(Lines), NEW at \in 1..(Len(r) + 1)
  PROVE  FinderRan(r, id, c, out, at)
<1> DEFINE p == At(out, at)
           input == AsLines(r)
           f == FindLandmark(input, at, c.arg)
           kept == IF c.kind = "FIND_NEXT_LANDMARK" THEN SubSeq(input, at, f - 1) ELSE <<>>
           accepted == IF c.kind = "SKIP_UNTIL_PASS" THEN <<>> ELSE <<input[f]>>
           w == WriteCommand(id, c, FALSE)
           x == out \o kept \o w \o accepted
<1>1. Ok(p) /\ p.out = out /\ p.at = at
  <2>1. at # 0 OBVIOUS
  <2> QED BY <2>1, AtIs
<1>2. RunCommand(input, id, c, p) = IF f = 0 THEN Failed ELSE At(x, f + 1)
  <2>1. RunCommand(input, id, c, p) = RunFinder(input, id, c, p)
    <3> HIDE DEF p
    <3> QED BY <1>1 DEF RunCommand
  <2>2. RunFinder(input, id, c, p) = IF f = 0 THEN Failed ELSE At(x, f + 1)
    <3>1. p.out = out /\ p.at = at BY <1>1
    <3> HIDE DEF p
    <3> QED BY <3>1 DEF RunFinder
  <2> HIDE DEF x, f
  <2> QED BY <1>1, <2>1, <2>2
<1>3. f # 0 => input[f] = Line(r[f])
  <2> SUFFICES ASSUME f # 0 PROVE input[f] = Line(r[f]) OBVIOUS
  <2>1. f \in at..Len(r) BY Found
  <2> HIDE DEF f
  <2>2. f \in 1..Len(r) BY <2>1
  <2> QED BY <2>2, ReleaseLines
<1>4. c.kind # "SKIP_UNTIL_PASS" => w = <<Control(c.kind, id)>>
  <2> SUFFICES ASSUME c.kind # "SKIP_UNTIL_PASS" PROVE w = <<Control(c.kind, id)>> OBVIOUS
  <2>1. w = <<Control(c.kind, id)>> \o <<>> BY DEF WriteCommand
  <2>2. PICK u : u = <<Control(c.kind, id)>> OBVIOUS
  <2>3. u \in Seq({Control(c.kind, id)}) BY <2>2
  <2> QED BY <2>1, <2>2, <2>3, ConcatEmptySeq
<1>5. c.kind = "SKIP_UNTIL_PASS" => w = <<<<"SKIP_UNTIL_PASS", id, c.arg>>>> BY DEF WriteCommand
<1>6. out \o <<>> = out BY ConcatEmptySeq
<1>7. CASE c.kind = "FIND_NEXT_LANDMARK"
  <2>1. f # 0 => x = out \o SubSeq(input, at, f - 1) \o <<Control(c.kind, id)>> \o <<Line(r[f])>>
    BY <1>3, <1>4, <1>7
  <2> HIDE DEF x
  <2> QED BY <1>2, <1>7, <2>1 DEF FinderRan
<1>8. CASE c.kind = "SKIP_UNTIL_AND_ACCEPT"
  <2>1. f # 0 => x = out \o <<Control(c.kind, id)>> \o <<Line(r[f])>>
    BY <1>3, <1>4, <1>6, <1>8
  <2> HIDE DEF x
  <2> QED BY <1>2, <1>8, <2>1 DEF FinderRan
<1>9. CASE c.kind = "SKIP_UNTIL_PASS"
  <2>1. x = out \o <<<<"SKIP_UNTIL_PASS", id, c.arg>>>>
    <3> DEFINE u == <<<<"SKIP_UNTIL_PASS", id, c.arg>>>>
               l == <<"SKIP_UNTIL_PASS", id, c.arg>>
    <3>1. x = out \o u \o <<>>
      <4> HIDE DEF u
      <4> QED BY <1>5, <1>6, <1>9 DEF u
    <3>2. PICK v : v = u OBVIOUS
    <3>3. v \in Seq(Lines \cup {l}) /\ out \in Seq(Lines \cup {l})
      <4>1. l \in Lines \cup {l} OBVIOUS
      <4> HIDE DEF l
      <4>2. v \in Seq(Lines \cup {l}) BY <3>2, <4>1 DEF l
      <4> QED BY <4>2
    <3> HIDE DEF l
    <3>4. out \o v \in Seq(Lines \cup {l}) BY <3>3, ConcatProperties
    <3>5. (out \o v) \o <<>> = out \o v BY <3>4, ConcatEmptySeq
    <3> QED BY <3>1, <3>2, <3>5
  <2> HIDE DEF x
  <2> QED BY <1>2, <1>9, <2>1 DEF FinderRan
<1> QED BY <1>7, <1>8, <1>9
\* The command c, where it succeeds, writes the lines of a command d that does the same.
Carried(r, id, c, out, at, d, piece, n) ==
  /\ RunCommand(AsLines(r), id, c, At(out, at)) = At(out \o piece, n)
  /\ RunCommand(AsLines(r), id, d, At(out, at)) = At(out \o piece, n)
  /\ SameCommand(c, d)
  /\ \A ts : Build(Reading(ts), piece) = AddCommand(ts, d.kind, d.arg)

\* Texts that are kept do not hide what follows them.
LEMMA ReadAfterTexts ==
  ASSUME NEW r \in Seq(Texts), NEW i \in 1..(Len(r) + 1), NEW j \in Nat, j <= Len(r), NEW s \in Seq(Lines), NEW ts
  PROVE  /\ SubSeq(AsLines(r), i, j) \in Seq(Lines)
         /\ Build(Reading(ts), SubSeq(AsLines(r), i, j) \o s) = Build(Reading(ts), s)
         /\ Build(Reading(ts), SubSeq(AsLines(r), i, j)) = Reading(ts)
<1> DEFINE input == AsLines(r)
           kept == SubSeq(input, i, j)
<1>1. Len(input) = Len(r) /\ Len(r) \in Nat /\ input \in Seq(Lines) BY ReleaseLines
<1>2. \A k \in 1..Len(r) : input[k] \in Lines /\ IsText(input[k]) BY ReleaseLines
<1> HIDE DEF input
<1>3. /\ kept \in Seq(Lines) /\ Len(kept) = IF i <= j THEN j - i + 1 ELSE 0
      /\ \A k \in 1..(j - i + 1) : kept[k] = input[i + k - 1]
  <2>1. \A k \in i..j : input[k] \in Lines BY <1>1, <1>2
  <2> QED BY <1>1, <2>1, SubSeqProperties
<1>4. \A k \in 1..Len(kept) : IsText(kept[k])
  <2> TAKE k \in 1..Len(kept)
  <2>1. k \in 1..(j - i + 1) BY <1>1, <1>3
  <2>2. kept[k] = input[i + k - 1] BY <1>3, <2>1
  <2>3. i + k - 1 \in 1..Len(r) BY <1>1, <2>1
  <2> QED BY <1>2, <2>2, <2>3
<1> HIDE DEF kept
<1>5. Build(Reading(ts), kept) = Reading(ts) BY <1>3, <1>4, ReadTexts
<1>6. Build(Reading(ts), kept \o s) = Build(Build(Reading(ts), kept), s) BY <1>3, BuildConcat
<1> QED BY <1>3, <1>5, <1>6 DEF kept, input

\* One line is a sequence of lines.
LEMMA OneLine ==
  ASSUME NEW l \in Lines
  PROVE  <<l>> \in Seq(Lines)
OBVIOUS

\* Lines after lines are lines.
LEMMA LinesConcat ==
  \A s, t \in Seq(Lines) : s \o t \in Seq(Lines)
BY ConcatProperties

\* The order in which lines are put together.
Associates(s, t, u) == (s \o t) \o u = s \o (t \o u)
LEMMA LinesAssociate ==
  ASSUME NEW s \in Seq(Lines), NEW t \in Seq(Lines), NEW u \in Seq(Lines)
  PROVE  Associates(s, t, u)
BY ConcatAssociative DEF Associates

\* An appended block is carried as it is.
LEMMA AppendCarried ==
  ASSUME NEW r, NEW id \in Nat, NEW c \in Command, c.kind = "APPEND_START",
         NEW out \in Seq(Lines), NEW at \in Nat \ {0}
  PROVE  \E piece \in Seq(Lines) : Carried(r, id, c, out, at, c, piece, at)
<1> DEFINE w == WriteCommand(id, c, TRUE)
<1>1. w \in Seq(Lines) /\ \A ts : Build(Reading(ts), w) = AddCommand(ts, c.kind, c.arg) BY ReadCommand
<1>2. RunCommand(AsLines(r), id, c, At(out, at)) = At(out \o w, at)
  <2>1. AppendRan(AsLines(r), id, c, out, at) BY AppendRuns
  <2> QED BY <2>1 DEF AppendRan
<1>3. SameCommand(c, c) BY DEF SameCommand, Finders
<1> HIDE DEF w
<1>4. Carried(r, id, c, out, at, c, w, at) BY <1>1, <1>2, <1>3 DEF Carried
<1> QED BY <1>1, <1>4

\* FOLLOW_BY is carried with the line that follows.
LEMMA FollowCarried ==
  ASSUME NEW r \in Seq(Texts), NEW id \in Nat, NEW c \in Command, c.kind = "FOLLOW_BY",
         NEW out \in Seq(Lines), NEW at \in 1..(Len(r) + 1),
         Ok(RunCommand(AsLines(r), id, c, At(out, at)))
  PROVE  \E d \in Command : \E piece \in Seq(Lines) : \E n \in 1..(Len(r) + 1) :
           Carried(r, id, c, out, at, d, piece, n)
<1>1. at <= Len(r) /\ <<c.arg, r[at]>> \in Beginnings
  <2>1. ~Ok(Failed) BY AtIs
  <2> QED BY <2>1, FollowRuns
<1>2. RunCommand(AsLines(r), id, c, At(out, at)) =
        At(out \o <<Control("FOLLOW_BY", id)>> \o <<Line(r[at])>>, at + 1)
  BY <1>1, FollowRuns
<1>3. r[at] \in Texts /\ at + 1 \in 1..(Len(r) + 1) BY <1>1
<1> DEFINE d == [kind |-> "FOLLOW_BY", arg |-> r[at]]
<1>4. d \in Command BY <1>3, CommandMade DEF Finders
<1>5. <<r[at], r[at]>> \in Beginnings BY <1>3, PatcherAssumption
<1>6. d.kind = "FOLLOW_BY" /\ d.arg = r[at] OBVIOUS
<1>7. SameCommand(c, d) BY <1>1, <1>6 DEF SameCommand, Finders, Narrows
<1> HIDE DEF d
<1>8. RunCommand(AsLines(r), id, d, At(out, at)) =
        At(out \o <<Control("FOLLOW_BY", id)>> \o <<Line(r[at])>>, at + 1)
  BY <1>1, <1>5, <1>6, FollowRuns
<1> DEFINE piece == <<Control("FOLLOW_BY", id), Line(r[at])>>
           u == <<Control("FOLLOW_BY", id)>>
           v == <<Line(r[at])>>
<1>9. Control("FOLLOW_BY", id) \in Lines /\ Line(r[at]) \in Lines BY <1>3, LinesAre DEF Finders
<1>10. u \in Seq(Lines) /\ v \in Seq(Lines) BY <1>9, OneLine
<1>11. u \o v = piece BY OneAndOne
<1>12. \A ts : Build(Reading(ts), piece) = AddCommand(ts, d.kind, d.arg)
  BY <1>6, ReadFinder DEF Finders
<1> HIDE DEF u, v, piece
<1>13. (out \o u) \o v = out \o piece /\ piece \in Seq(Lines)
  <2>1. Associates(out, u, v) BY <1>10, LinesAssociate
  <2>2. u \o v \in Seq(Lines) BY <1>10, LinesConcat
  <2> QED BY <1>11, <2>1, <2>2 DEF Associates
<1>14. Carried(r, id, c, out, at, d, piece, at + 1)
  <2>1. RunCommand(AsLines(r), id, c, At(out, at)) = At(out \o piece, at + 1) BY <1>2, <1>13 DEF u, v
  <2>2. RunCommand(AsLines(r), id, d, At(out, at)) = At(out \o piece, at + 1) BY <1>8, <1>13 DEF u, v
  <2> QED BY <1>7, <1>12, <2>1, <2>2 DEF Carried
<1> QED BY <1>3, <1>4, <1>13, <1>14

\* FIND_NEXT_LANDMARK and SKIP_UNTIL_AND_ACCEPT are carried with the line they find.
LEMMA FindCarried ==
  ASSUME NEW r \in Seq(Texts), NEW id \in Nat, NEW c \in Command,
         c.kind \in {"FIND_NEXT_LANDMARK", "SKIP_UNTIL_AND_ACCEPT"},
         NEW out \in Seq(Lines), NEW at \in 1..(Len(r) + 1),
         Ok(RunCommand(AsLines(r), id, c, At(out, at)))
  PROVE  \E d \in Command : \E piece \in Seq(Lines) : \E n \in 1..(Len(r) + 1) :
           Carried(r, id, c, out, at, d, piece, n)
<1> DEFINE f == FindLandmark(AsLines(r), at, c.arg)
           u == <<Control(c.kind, id)>>
           v == <<Line(r[f])>>
           two == <<Control(c.kind, id), Line(r[f])>>
           kept == SubSeq(AsLines(r), at, f - 1)
           piece == IF c.kind = "FIND_NEXT_LANDMARK" THEN kept \o two ELSE two
           d == [kind |-> c.kind, arg |-> r[f]]
<1>0. FinderRan(r, id, c, out, at) BY FinderRuns
<1>1. f # 0
  <2>1. ~Ok(Failed) BY AtIs
  <2>2. f = 0 => RunCommand(AsLines(r), id, c, At(out, at)) = Failed BY <1>0 DEF FinderRan
  <2> QED BY <2>1, <2>2
<1>2. c.arg \in Texts BY CommandIs DEF Finders
<1>3. /\ f \in at..Len(r) /\ f \in 1..Len(r) /\ r[f] \in Texts /\ Narrows(c.arg, r[f])
      /\ FindLandmark(AsLines(r), at, r[f]) = f
  BY <1>1, <1>2, FoundAgain
<1>4. /\ c.kind = "FIND_NEXT_LANDMARK" =>
           RunCommand(AsLines(r), id, c, At(out, at)) = At(out \o kept \o u \o v, f + 1)
      /\ c.kind = "SKIP_UNTIL_AND_ACCEPT" =>
           RunCommand(AsLines(r), id, c, At(out, at)) = At(out \o u \o v, f + 1)
  BY <1>0, <1>1 DEF FinderRan
<1> HIDE DEF f
<1>5. d \in Command /\ d.kind = c.kind /\ d.arg = r[f] BY <1>3, CommandMade DEF Finders
<1>6. SameCommand(c, d) BY <1>3, <1>5 DEF SameCommand, Finders
<1> HIDE DEF d
<1>20. FinderRan(r, id, d, out, at) BY <1>5, FinderRuns
<1>7. /\ c.kind = "FIND_NEXT_LANDMARK" =>
           RunCommand(AsLines(r), id, d, At(out, at)) = At(out \o kept \o u \o v, f + 1)
      /\ c.kind = "SKIP_UNTIL_AND_ACCEPT" =>
           RunCommand(AsLines(r), id, d, At(out, at)) = At(out \o u \o v, f + 1)
  BY <1>1, <1>3, <1>5, <1>20 DEF FinderRan
<1>8. f + 1 \in 1..(Len(r) + 1) /\ f - 1 \in Nat /\ f - 1 <= Len(r) BY <1>3
<1>9. Control(c.kind, id) \in Lines /\ Line(r[f]) \in Lines BY <1>3, LinesAre DEF Finders
<1>10. u \in Seq(Lines) /\ v \in Seq(Lines) BY <1>9, OneLine
<1>11. u \o v = two BY OneAndOne
<1>12. \A ts : Build(Reading(ts), two) = AddCommand(ts, d.kind, d.arg)
  BY <1>5, ReadFinder DEF Finders
<1> HIDE DEF u, v, two
<1>13. two \in Seq(Lines) BY <1>10, <1>11, LinesConcat
<1>14. kept \in Seq(Lines) /\ \A ts : Build(Reading(ts), kept \o two) = Build(Reading(ts), two)
  BY <1>8, <1>13, ReadAfterTexts
<1> HIDE DEF kept
<1>15. /\ out \o kept \o u \o v = out \o (kept \o two) /\ kept \o two \in Seq(Lines)
       /\ out \o u \o v = out \o two
  <2>1. PICK so : so = out \o kept OBVIOUS
  <2>2. so \in Seq(Lines) /\ kept \o two \in Seq(Lines) BY <1>13, <1>14, <2>1, LinesConcat
  <2>3. Associates(so, u, v) /\ Associates(out, kept, two) /\ Associates(out, u, v)
    BY <1>10, <1>13, <1>14, <2>2, LinesAssociate
  <2> QED BY <1>11, <2>1, <2>2, <2>3 DEF Associates
<1>16. piece \in Seq(Lines) BY <1>13, <1>15
<1>17. \A ts : Build(Reading(ts), piece) = AddCommand(ts, d.kind, d.arg) BY <1>12, <1>14
<1>18. /\ RunCommand(AsLines(r), id, c, At(out, at)) = At(out \o piece, f + 1)
       /\ RunCommand(AsLines(r), id, d, At(out, at)) = At(out \o piece, f + 1)
  BY <1>4, <1>7, <1>15
<1> HIDE DEF piece
<1>19. Carried(r, id, c, out, at, d, piece, f + 1) BY <1>6, <1>17, <1>18 DEF Carried
<1> QED BY <1>5, <1>8, <1>16, <1>19

\* SKIP_UNTIL_PASS carries its landmark.
LEMMA PassCarried ==
  ASSUME NEW r \in Seq(Texts), NEW id \in Nat, NEW c \in Command, c.kind = "SKIP_UNTIL_PASS",
         NEW out \in Seq(Lines), NEW at \in 1..(Len(r) + 1),
         Ok(RunCommand(AsLines(r), id, c, At(out, at)))
  PROVE  \E piece \in Seq(Lines) : \E n \in 1..(Len(r) + 1) : Carried(r, id, c, out, at, c, piece, n)
<1> DEFINE f == FindLandmark(AsLines(r), at, c.arg)
           l == <<"SKIP_UNTIL_PASS", id, c.arg>>
           piece == <<l>>
<1>0. FinderRan(r, id, c, out, at) BY FinderRuns
<1>1. f # 0
  <2>1. ~Ok(Failed) BY AtIs
  <2>2. f = 0 => RunCommand(AsLines(r), id, c, At(out, at)) = Failed BY <1>0 DEF FinderRan
  <2> QED BY <2>1, <2>2
<1>2. c.arg \in Texts BY CommandIs
<1>3. f \in 1..Len(r) BY <1>1, <1>2, FoundAgain
<1>4. RunCommand(AsLines(r), id, c, At(out, at)) = At(out \o piece, f + 1) BY <1>0, <1>1 DEF FinderRan
<1> HIDE DEF f
<1>5. f + 1 \in 1..(Len(r) + 1) BY <1>3
<1>6. \A ts : Build(Reading(ts), piece) = AddCommand(ts, c.kind, c.arg) BY ReadPass
<1>7. l \in Lines BY <1>2, LinesAre
<1>8. SameCommand(c, c) BY DEF SameCommand, Finders
<1> HIDE DEF l
<1>9. piece \in Seq(Lines) BY <1>7, OneLine
<1> HIDE DEF piece
<1>10. Carried(r, id, c, out, at, c, piece, f + 1) BY <1>4, <1>6, <1>8 DEF Carried
<1> QED BY <1>5, <1>9, <1>10

\* Every command that succeeds is carried.
LEMMA CommandCarried ==
  ASSUME NEW r \in Seq(Texts), NEW id \in Nat, NEW c \in Command,
         NEW out \in Seq(Lines), NEW at \in 1..(Len(r) + 1),
         Ok(RunCommand(AsLines(r), id, c, At(out, at)))
  PROVE  \E d \in Command : \E piece \in Seq(Lines) : \E n \in 1..(Len(r) + 1) :
           Carried(r, id, c, out, at, d, piece, n)
<1>1. CASE c.kind = "APPEND_START"
  <2>1. at \in Nat \ {0} OBVIOUS
  <2>2. \E piece \in Seq(Lines) : Carried(r, id, c, out, at, c, piece, at) BY <1>1, <2>1, AppendCarried
  <2> QED BY <2>2
<1>2. CASE c.kind = "FOLLOW_BY" BY <1>2, FollowCarried
<1>3. CASE c.kind \in {"FIND_NEXT_LANDMARK", "SKIP_UNTIL_AND_ACCEPT"} BY <1>3, FindCarried
<1>4. CASE c.kind = "SKIP_UNTIL_PASS" BY <1>4, PassCarried
<1> QED BY <1>1, <1>2, <1>3, <1>4, CommandIs DEF Finders
-----------------------------------------------------------------------------
(* A task on a release. *)

\* The commands cs, where they succeed, write the lines of the commands ds that do the same.
AllCarried(r, id, cs, out, at, ds, piece, n) ==
  /\ RunCommands(AsLines(r), id, cs, At(out, at)) = At(out \o piece, n)
  /\ RunCommands(AsLines(r), id, ds, At(out, at)) = At(out \o piece, n)
  /\ Len(ds) = Len(cs) /\ \A j \in 1..Len(cs) : SameCommand(cs[j], ds[j])
  /\ \A ts \in Seq(Task) : \A l \in Texts :
       Build(Reading(Append(ts, TaskOf(id, l, <<>>))), piece) = Reading(Append(ts, TaskOf(id, l, ds)))

\* No commands.
LEMMA NoneCarried ==
  ASSUME NEW r, NEW id, NEW out \in Seq(Lines), NEW at
  PROVE  AllCarried(r, id, <<>>, out, at, <<>>, <<>>, at)
<1>1. \A ts, l : Build(Reading(Append(ts, TaskOf(id, l, <<>>))), <<>>) = Reading(Append(ts, TaskOf(id, l, <<>>)))
  BY BuildEmpty
<1>2. RunCommands(AsLines(r), id, <<>>, At(out, at)) = At(out, at) BY RunCommandsEmpty
<1>3. out \o <<>> = out BY ConcatEmptySeq
<1>4. Len(<<>>) = 0 OBVIOUS
<1> QED BY <1>1, <1>2, <1>3, <1>4 DEF AllCarried

\* A number up to the next one.
LEMMA OneMore ==
  \A n \in Nat : \A j \in 1..(n + 1) : j = n + 1 \/ j \in 1..n
OBVIOUS

\* One more command.
LEMMA MoreCarried ==
  ASSUME NEW r \in Seq(Texts), NEW id \in Nat, NEW cs \in Seq(Command), NEW out \in Seq(Lines), NEW at,
         NEW ds \in Seq(Command), NEW piece \in Seq(Lines), NEW n \in 1..(Len(r) + 1),
         AllCarried(r, id, cs, out, at, ds, piece, n),
         NEW c \in Command, Ok(RunCommands(AsLines(r), id, Append(cs, c), At(out, at)))
  PROVE  \E es \in Seq(Command) : \E more \in Seq(Lines) : \E m \in 1..(Len(r) + 1) :
           AllCarried(r, id, Append(cs, c), out, at, es, more, m)
<1> DEFINE p == At(out, at)
           so == out \o piece
           input == AsLines(r)
<1>1. so \in Seq(Lines) BY LinesConcat
<1>2. /\ RunCommands(input, id, cs, p) = At(so, n) /\ RunCommands(input, id, ds, p) = At(so, n)
      /\ Len(ds) = Len(cs) /\ \A j \in 1..Len(cs) : SameCommand(cs[j], ds[j])
      /\ \A ts \in Seq(Task) : \A l \in Texts :
           Build(Reading(Append(ts, TaskOf(id, l, <<>>))), piece) = Reading(Append(ts, TaskOf(id, l, ds)))
  BY DEF AllCarried
<1>3. RunCommands(input, id, Append(cs, c), p) = RunCommand(input, id, c, At(so, n))
  BY <1>2, RunCommandsAppend
<1>4. Ok(RunCommand(input, id, c, At(so, n))) BY <1>3
<1>5. PICK d \in Command, next \in Seq(Lines), m \in 1..(Len(r) + 1) : Carried(r, id, c, so, n, d, next, m)
  <2> HIDE DEF so
  <2> QED BY <1>1, <1>4, CommandCarried
<1>6. /\ RunCommand(input, id, c, At(so, n)) = At(so \o next, m)
      /\ RunCommand(input, id, d, At(so, n)) = At(so \o next, m)
      /\ SameCommand(c, d)
      /\ \A ts : Build(Reading(ts), next) = AddCommand(ts, d.kind, d.arg)
  BY <1>5 DEF Carried
<1> DEFINE es == Append(ds, d)
           more == piece \o next
<1>7. es \in Seq(Command) /\ more \in Seq(Lines) /\ so \o next = out \o more
  <2>1. es \in Seq(Command) OBVIOUS
  <2>2. more \in Seq(Lines) BY LinesConcat
  <2>3. Associates(out, piece, next) BY LinesAssociate
  <2> QED BY <2>1, <2>2, <2>3 DEF Associates
<1>8. RunCommands(input, id, es, p) = RunCommand(input, id, d, At(so, n)) BY <1>2, RunCommandsAppend
<1>9. Len(es) = Len(Append(cs, c)) /\ \A j \in 1..Len(Append(cs, c)) : SameCommand(Append(cs, c)[j], es[j])
  <2> DEFINE ct == Append(cs, c)
  <2>1. /\ Len(ct) = Len(cs) + 1 /\ Len(cs) \in Nat /\ ct[Len(cs) + 1] = c
        /\ \A j \in 1..Len(cs) : ct[j] = cs[j]
    OBVIOUS
  <2>2. /\ Len(es) = Len(ds) + 1 /\ es[Len(ds) + 1] = d
        /\ \A j \in 1..Len(ds) : es[j] = ds[j]
    OBVIOUS
  <2> HIDE DEF ct, es
  <2>3. ASSUME NEW j \in 1..Len(ct) PROVE SameCommand(ct[j], es[j])
    <3>1. CASE j = Len(cs) + 1 BY <1>2, <1>6, <2>1, <2>2, <3>1
    <3>2. CASE j \in 1..Len(cs) BY <1>2, <2>1, <2>2, <3>2
    <3>3. j = Len(cs) + 1 \/ j \in 1..Len(cs) BY <2>1, OneMore
    <3> QED BY <3>1, <3>2, <3>3
  <2>4. Len(es) = Len(ct) BY <1>2, <2>1, <2>2
  <2> QED BY <2>3, <2>4 DEF ct
<1>10. ASSUME NEW ts \in Seq(Task), NEW l \in Texts
       PROVE  Build(Reading(Append(ts, TaskOf(id, l, <<>>))), more) = Reading(Append(ts, TaskOf(id, l, es)))
  <2> DEFINE b == Reading(Append(ts, TaskOf(id, l, <<>>)))
             before == Append(ts, TaskOf(id, l, ds))
  <2>1. Build(b, piece) = Reading(before) BY <1>2
  <2>2. AddCommand(before, d.kind, d.arg) = Reading(Append(ts, TaskOf(id, l, es))) BY CommandAdded
  <2> HIDE DEF b, before, es
  <2>3. Build(b, more) = Build(Build(b, piece), next) BY BuildConcat
  <2>4. Build(Reading(before), next) = AddCommand(before, d.kind, d.arg) BY <1>6
  <2> QED BY <2>1, <2>2, <2>3, <2>4 DEF b
<1>11. /\ RunCommands(input, id, Append(cs, c), p) = At(out \o more, m)
       /\ RunCommands(input, id, es, p) = At(out \o more, m)
  BY <1>3, <1>6, <1>7, <1>8
<1> HIDE DEF es, more
<1>12. AllCarried(r, id, Append(cs, c), out, at, es, more, m)
  BY <1>9, <1>10, <1>11 DEF AllCarried
<1> QED BY <1>7, <1>12

\* A command after a failure fails.
LEMMA FailsOn ==
  ASSUME NEW input, NEW id, NEW c, NEW p, ~Ok(p)
  PROVE  RunCommand(input, id, c, p) = p
BY DEF RunCommand

\* All the commands of a task are carried.
LEMMA CommandsCarried ==
  ASSUME NEW r \in Seq(Texts), NEW id \in Nat, NEW cs \in Seq(Command),
         NEW out \in Seq(Lines), NEW at \in 1..(Len(r) + 1),
         Ok(RunCommands(AsLines(r), id, cs, At(out, at)))
  PROVE  \E ds \in Seq(Command) : \E piece \in Seq(Lines) : \E n \in 1..(Len(r) + 1) :
           AllCarried(r, id, cs, out, at, ds, piece, n)
<1> DEFINE p == At(out, at)
           input == AsLines(r)
           Some(s) == \E ds \in Seq(Command) : \E piece \in Seq(Lines) : \E n \in 1..(Len(r) + 1) :
                        AllCarried(r, id, s, out, at, ds, piece, n)
           F(k) == RunCommands(input, id, SubSeq(cs, 1, k), p)
           S == {k \in 0..Len(cs) : Ok(F(k)) => Some(SubSeq(cs, 1, k))}
<1>1. Len(cs) \in Nat OBVIOUS
<1>2. 0 \in S
  <2>1. SubSeq(cs, 1, 0) = <<>> OBVIOUS
  <2>2. <<>> \in Seq(Command) /\ <<>> \in Seq(Lines) OBVIOUS
  <2>3. AllCarried(r, id, <<>>, out, at, <<>>, <<>>, at) BY NoneCarried
  <2>4. Some(<<>>) BY <2>2, <2>3
  <2>5. 0 \in 0..Len(cs) BY <1>1
  <2> HIDE DEF Some, F
  <2> QED BY <2>1, <2>4, <2>5
<1>3. ASSUME NEW k \in 0..(Len(cs) - 1), k \in S PROVE k + 1 \in S
  <2> DEFINE before == SubSeq(cs, 1, k)
             c == cs[k + 1]
  <2>1. before \in Seq(Command) /\ c \in Command /\ SubSeq(cs, 1, k + 1) = Append(before, c)
    <3>1. k + 1 \in 1..Len(cs) BY <1>1
    <3>2. before \in Seq(Command) BY <1>1
    <3>3. c \in Command BY <3>1
    <3>4. SubSeq(cs, 1, k + 1) = Append(before, c) BY <3>1
    <3> QED BY <3>2, <3>3, <3>4
  <2>2. k + 1 \in 0..Len(cs) BY <1>1
  <2> SUFFICES ASSUME Ok(F(k + 1)) PROVE Some(SubSeq(cs, 1, k + 1)) BY <2>2
  <2>3. F(k) = RunCommands(input, id, before, p) OBVIOUS
  <2>4. F(k + 1) = RunCommands(input, id, Append(before, c), p) BY <2>1
  <2> HIDE DEF before, c, p, input
  <2>5. F(k + 1) = RunCommand(input, id, c, F(k)) BY <2>1, <2>3, <2>4, RunCommandsAppend
  <2> HIDE DEF F
  <2>6. Ok(F(k)) BY <2>5, FailsOn
  <2>7. Some(before)
    <3> HIDE DEF Some
    <3> QED BY <1>3, <2>6 DEF before
  <2>8. PICK ds \in Seq(Command), piece \in Seq(Lines), n \in 1..(Len(r) + 1) :
          AllCarried(r, id, before, out, at, ds, piece, n)
    BY <2>7
  <2>9. Ok(RunCommands(AsLines(r), id, Append(before, c), At(out, at))) BY <2>4 DEF p, input
  <2>10. Some(Append(before, c)) BY <2>1, <2>8, <2>9, MoreCarried
  <2> HIDE DEF Some
  <2> QED BY <2>1, <2>10
<1>4. \A k \in 0..Len(cs) : k \in S
  <2> HIDE DEF S
  <2> QED BY <1>1, <1>2, <1>3, UpTo
<1>5. Len(cs) \in 0..Len(cs) /\ SubSeq(cs, 1, Len(cs)) = cs BY <1>1
<1>6. Ok(F(Len(cs))) BY <1>5
<1>7. Some(SubSeq(cs, 1, Len(cs)))
  <2> HIDE DEF Some, F
  <2> QED BY <1>4, <1>5, <1>6
<1> QED BY <1>5, <1>7
\* The task t, where its landmark is found and its commands succeed, writes the lines of a
\* task u that does the same.
TaskCarried(r, t, out, at, u, piece, n) ==
  /\ RunTask(AsLines(r), t, At(out, at)) = At(out \o piece, n)
  /\ RunTask(AsLines(r), u, At(out, at)) = At(out \o piece, n)
  /\ SameTask(t, u)
  /\ \A ts \in Seq(Task) : Build(Reading(ts), piece) = Reading(Append(ts, u))

\* What a task does.
TaskRan(r, t, out, at) ==
  LET f == FindLandmark(AsLines(r), at, t.landmark)
      q == RunTask(AsLines(r), t, At(out, at))
  IN /\ f = 0 => q = CopyRest(AsLines(r), At(out, at))
     /\ f # 0 => q = RunCommands(AsLines(r), t.id, t.commands,
                       At(out \o SubSeq(AsLines(r), at, f - 1) \o <<Control("START", t.id), Line(r[f])>>, f + 1))

\* A task looks for its landmark and runs its commands from there.
LEMMA TaskRuns ==
  ASSUME NEW r \in Seq(Texts), NEW t, NEW out, NEW at \in 1..(Len(r) + 1)
  PROVE  TaskRan(r, t, out, at)
<1> DEFINE p == At(out, at)
           input == AsLines(r)
           f == FindLandmark(input, at, t.landmark)
<1>1. Ok(p) /\ p.out = out /\ p.at = at
  <2>1. at # 0 OBVIOUS
  <2> QED BY <2>1, AtIs
<1>2. f # 0 => input[f] = Line(r[f])
  <2> SUFFICES ASSUME f # 0 PROVE input[f] = Line(r[f]) OBVIOUS
  <2>1. f \in at..Len(r) BY Found
  <2> HIDE DEF f
  <2>2. f \in 1..Len(r) BY <2>1
  <2> QED BY <2>2, ReleaseLines
<1> HIDE DEF p
<1>3. RunTask(input, t, p) =
        IF f = 0 THEN CopyRest(input, p)
        ELSE RunCommands(input, t.id, t.commands,
               At(out \o SubSeq(input, at, f - 1) \o <<Control("START", t.id), input[f]>>, f + 1))
  BY <1>1 DEF RunTask
<1> HIDE DEF f
<1>4. /\ f = 0 => RunTask(input, t, p) = CopyRest(input, p)
      /\ f # 0 => RunTask(input, t, p) = RunCommands(input, t.id, t.commands,
                    At(out \o SubSeq(input, at, f - 1) \o <<Control("START", t.id), Line(r[f])>>, f + 1))
  BY <1>2, <1>3
<1> QED BY <1>4 DEF TaskRan, p, f

\* A task whose landmark is found is carried with the line found.
LEMMA FoundTaskCarried ==
  ASSUME NEW r \in Seq(Texts), NEW t \in Task, NEW out \in Seq(Lines), NEW at \in 1..(Len(r) + 1),
         FindLandmark(AsLines(r), at, t.landmark) # 0, Ok(RunTask(AsLines(r), t, At(out, at)))
  PROVE  \E u \in Task : \E piece \in Seq(Lines) : \E n \in 1..(Len(r) + 1) :
           TaskCarried(r, t, out, at, u, piece, n)
<1> DEFINE input == AsLines(r)
           f == FindLandmark(input, at, t.landmark)
           id == t.id
           kept == SubSeq(input, at, f - 1)
           head == <<Control("START", id), Line(r[f])>>
           so == out \o kept \o head
<1>1. t.id \in Nat /\ t.landmark \in Texts /\ t.commands \in Seq(Command) BY TaskIs
<1>2. /\ f \in at..Len(r) /\ f \in 1..Len(r) /\ r[f] \in Texts /\ Narrows(t.landmark, r[f])
      /\ FindLandmark(input, at, r[f]) = f
  BY <1>1, FoundAgain
<1>3. RunTask(input, t, At(out, at)) = RunCommands(input, id, t.commands, At(so, f + 1))
  <2>1. TaskRan(r, t, out, at) BY TaskRuns
  <2> QED BY <2>1 DEF TaskRan
<1>4. f # 0 OBVIOUS
<1> HIDE DEF f
<1>5. f + 1 \in 1..(Len(r) + 1) /\ f - 1 \in Nat /\ f - 1 <= Len(r) BY <1>2
<1>6. head \in Seq(Lines)
  <2>1. Control("START", id) \in Lines /\ Line(r[f]) \in Lines BY <1>1, <1>2, LinesAre
  <2> QED BY <2>1
<1>7. kept \in Seq(Lines) /\ \A s \in Seq(Lines) : \A ts : Build(Reading(ts), kept \o s) = Build(Reading(ts), s)
  <2>1. <<>> \in Seq(Lines) OBVIOUS
  <2>2. kept \in Seq(Lines) BY <1>5, <2>1, ReadAfterTexts
  <2>3. ASSUME NEW s \in Seq(Lines), NEW ts PROVE Build(Reading(ts), kept \o s) = Build(Reading(ts), s)
    BY <1>5, ReadAfterTexts
  <2> QED BY <2>2, <2>3
<1>8. \A ts : Build(Reading(ts), head) = Reading(Append(ts, TaskOf(id, r[f], <<>>)))
  BY ReadStart DEF TaskOf
<1> HIDE DEF kept, head
<1>9. so \in Seq(Lines) BY <1>6, <1>7, LinesConcat
<1> HIDE DEF so
<1>10. PICK ds \in Seq(Command), piece \in Seq(Lines), n \in 1..(Len(r) + 1) :
         AllCarried(r, id, t.commands, so, f + 1, ds, piece, n)
  BY <1>1, <1>3, <1>5, <1>9, CommandsCarried
<1>11. /\ RunCommands(input, id, t.commands, At(so, f + 1)) = At(so \o piece, n)
       /\ RunCommands(input, id, ds, At(so, f + 1)) = At(so \o piece, n)
       /\ Len(ds) = Len(t.commands) /\ \A j \in 1..Len(t.commands) : SameCommand(t.commands[j], ds[j])
       /\ \A ts \in Seq(Task) : \A l \in Texts :
            Build(Reading(Append(ts, TaskOf(id, l, <<>>))), piece) = Reading(Append(ts, TaskOf(id, l, ds)))
  BY <1>10 DEF AllCarried
<1> DEFINE u == TaskOf(id, r[f], ds)
           all == kept \o (head \o piece)
<1>12. u \in Task /\ u.id = id /\ u.landmark = r[f] /\ u.commands = ds BY <1>1, <1>2, TaskIs
<1>13. RunTask(input, u, At(out, at)) = RunCommands(input, id, ds, At(so, f + 1))
  <2>1. TaskRan(r, u, out, at) BY TaskRuns
  <2> HIDE DEF u
  <2> QED BY <1>2, <1>4, <1>12, <2>1 DEF TaskRan, so, kept, head
<1>14. SameTask(t, u)
  <2>1. DOMAIN t.commands = 1..Len(t.commands) BY <1>1
  <2> HIDE DEF u
  <2> QED BY <1>2, <1>11, <1>12, <2>1 DEF SameTask
<1>15. \A ts \in Seq(Task) : Build(Reading(ts), all) = Reading(Append(ts, u))
  <2> TAKE ts \in Seq(Task)
  <2>1. head \o piece \in Seq(Lines) BY <1>6, LinesConcat
  <2>2. Build(Reading(ts), all) = Build(Reading(ts), head \o piece) BY <1>7, <2>1
  <2>3. Build(Reading(ts), head \o piece) = Build(Build(Reading(ts), head), piece) BY <1>6, BuildConcat
  <2>4. Build(Reading(ts), head) = Reading(Append(ts, TaskOf(id, r[f], <<>>))) BY <1>8
  <2>5. Build(Reading(Append(ts, TaskOf(id, r[f], <<>>))), piece) = Reading(Append(ts, u)) BY <1>2, <1>11
  <2> QED BY <2>2, <2>3, <2>4, <2>5
<1>16. so \o piece = out \o all /\ all \in Seq(Lines)
  <2>1. head \o piece \in Seq(Lines) /\ out \o kept \in Seq(Lines) BY <1>6, <1>7, LinesConcat
  <2>2. PICK ok, hp : ok = out \o kept /\ hp = head \o piece OBVIOUS
  <2>3. ok \in Seq(Lines) /\ hp \in Seq(Lines) BY <2>1, <2>2
  <2>4. Associates(ok, head, piece) BY <1>6, <2>3, LinesAssociate
  <2>5. Associates(out, kept, hp) BY <1>7, <2>3, LinesAssociate
  <2>6. kept \o hp \in Seq(Lines) BY <1>7, <2>3, LinesConcat
  <2> QED BY <2>2, <2>4, <2>5, <2>6 DEF so, Associates
<1> HIDE DEF all, u
<1>17. /\ RunTask(input, t, At(out, at)) = At(out \o all, n)
       /\ RunTask(input, u, At(out, at)) = At(out \o all, n)
  BY <1>3, <1>11, <1>13, <1>16
<1>18. TaskCarried(r, t, out, at, u, all, n) BY <1>14, <1>15, <1>17 DEF TaskCarried
<1> QED BY <1>12, <1>16, <1>18
-----------------------------------------------------------------------------
(* A patch on a release. *)

\* Where a patch starts.
Start == At(<<Original>>, 1)

\* The first line of a patched file.
Opens(lines) == Len(lines) >= 1 /\ lines[1] = Original

\* It stays the first.
LEMMA OpensOn ==
  ASSUME NEW s \in Seq(Lines), NEW t \in Seq(Lines), Opens(s)
  PROVE  Opens(s \o t)
BY DEF Opens

\* The tasks us do what the tasks ts do, up to one whose landmark is not found.
PatchRun(r, ts, us, out, n) ==
  /\ RunTasks(AsLines(r), us, Start) = At(out, n)
  /\ Len(us) <= Len(ts) /\ \A i \in 1..Len(us) : SameTask(ts[i], us[i])
  /\ Build(Nothing, out) = Reading(us) /\ Opens(out)
  /\ \/ Len(us) = Len(ts) /\ RunTasks(AsLines(r), ts, Start) = At(out, n)
     \/ RunTasks(AsLines(r), ts, Start) = CopyRest(AsLines(r), At(out, n))

\* The rest of the file is copied.
LEMMA RestCopied ==
  ASSUME NEW r \in Seq(Texts), NEW out \in Seq(Lines), NEW n \in 1..(Len(r) + 1)
  PROVE  /\ CopyRest(AsLines(r), At(out, n)) = At(out \o SubSeq(AsLines(r), n, Len(r)), Len(r) + 1)
         /\ out \o SubSeq(AsLines(r), n, Len(r)) \in Seq(Lines)
         /\ Ok(CopyRest(AsLines(r), At(out, n)))
         /\ Opens(out) => Opens(out \o SubSeq(AsLines(r), n, Len(r)))
         /\ \A ts : Build(Nothing, out) = Reading(ts) =>
              Build(Nothing, out \o SubSeq(AsLines(r), n, Len(r))) = Reading(ts)
<1> DEFINE input == AsLines(r)
           rest == SubSeq(input, n, Len(r))
<1>1. Len(input) = Len(r) /\ Len(r) \in Nat BY ReleaseLines
<1>2. At(out, n).out = out /\ At(out, n).at = n BY AtIs
<1>3. CopyRest(input, At(out, n)) = At(out \o rest, Len(r) + 1) BY <1>1, <1>2 DEF CopyRest
<1>4. rest \in Seq(Lines) /\ \A ts : Build(Reading(ts), rest) = Reading(ts)
  <2>1. <<>> \in Seq(Lines) /\ Len(r) <= Len(r) BY <1>1
  <2>2. rest \in Seq(Lines) BY <1>1, <2>1, ReadAfterTexts
  <2>3. ASSUME NEW ts PROVE Build(Reading(ts), rest) = Reading(ts) BY <1>1, <2>1, ReadAfterTexts
  <2> QED BY <2>2, <2>3
<1> HIDE DEF rest
<1>5. out \o rest \in Seq(Lines) BY <1>4, LinesConcat
<1>6. Ok(CopyRest(input, At(out, n)))
  <2>1. Len(r) + 1 # 0 BY <1>1
  <2> QED BY <1>3, <2>1, AtIs
<1>7. Build(Nothing, out \o rest) = Build(Build(Nothing, out), rest) BY <1>4, BuildConcat
<1>8. Opens(out) => Opens(out \o rest) BY <1>4, OpensOn
<1> QED BY <1>3, <1>4, <1>5, <1>6, <1>7, <1>8 DEF rest

\* Once the rest is copied there is nothing left to find, nor to copy.
LEMMA NothingLeft ==
  ASSUME NEW r \in Seq(Texts), NEW out \in Seq(Lines), NEW n \in 1..(Len(r) + 1), NEW t
  PROVE  /\ RunTask(AsLines(r), t, CopyRest(AsLines(r), At(out, n))) = CopyRest(AsLines(r), At(out, n))
         /\ CopyRest(AsLines(r), CopyRest(AsLines(r), At(out, n))) = CopyRest(AsLines(r), At(out, n))
<1> DEFINE input == AsLines(r)
           more == out \o SubSeq(input, n, Len(r))
           end == Len(r) + 1
           nothing == SubSeq(input, end, Len(r))
<1>1. CopyRest(input, At(out, n)) = At(more, end) /\ more \in Seq(Lines) BY RestCopied
<1>2. end \in 1..(Len(r) + 1) /\ Len(r) \in Nat OBVIOUS
<1> HIDE DEF more
<1>3. CopyRest(input, At(more, end)) = At(more \o nothing, Len(r) + 1) BY <1>1, <1>2, RestCopied
<1>4. nothing = <<>>
  <2>1. end \in Int /\ Len(r) \in Int /\ Len(r) < end BY <1>2
  <2> HIDE DEF end, input
  <2> QED BY <2>1, SubSeqEmpty
<1>5. more \o <<>> = more BY <1>1, ConcatEmptySeq
<1>6. CopyRest(input, At(more, end)) = At(more, end) BY <1>3, <1>4, <1>5
<1>7. FindLandmark(input, end, t.landmark) = 0
  <2> DEFINE f == FindLandmark(input, end, t.landmark)
  <2>1. f = 0 \/ f \in end..Len(r) BY <1>2, Found
  <2> HIDE DEF f
  <2>2. f = 0 BY <1>2, <2>1
  <2> QED BY <2>2 DEF f
<1>8. TaskRan(r, t, more, end) BY <1>2, TaskRuns
<1>9. RunTask(input, t, At(more, end)) = CopyRest(input, At(more, end)) BY <1>7, <1>8 DEF TaskRan
<1> QED BY <1>1, <1>6, <1>9

\* No tasks.
LEMMA NoTaskRun ==
  ASSUME NEW r
  PROVE  PatchRun(r, <<>>, <<>>, <<Original>>, 1)
<1>1. RunTasks(AsLines(r), <<>>, Start) = At(<<Original>>, 1) BY RunTasksEmpty DEF Start
<1>2. Build(Nothing, <<Original>>) = Reading(<<>>)
  <2>1. BuildLine(Reading(<<>>), Original) = Reading(<<>>) BY ReadText
  <2> QED BY <2>1, BuildOne DEF Nothing
<1>3. Len(<<>>) = 0 OBVIOUS
<1>4. Opens(<<Original>>) BY DEF Opens
<1> QED BY <1>1, <1>2, <1>3, <1>4 DEF PatchRun

\* One more task.
LEMMA MoreRun ==
  ASSUME NEW r \in Seq(Texts), NEW ts \in Seq(Task), NEW us \in Seq(Task), NEW out \in Seq(Lines),
         NEW n \in 1..(Len(r) + 1), PatchRun(r, ts, us, out, n),
         NEW t \in Task, Ok(RunTasks(AsLines(r), Append(ts, t), Start))
  PROVE  \E vs \in Seq(Task) : \E more \in Seq(Lines) : \E m \in 1..(Len(r) + 1) :
           PatchRun(r, Append(ts, t), vs, more, m)
<1> DEFINE input == AsLines(r)
           q == RunTasks(input, ts, Start)
           tt == Append(ts, t)
           f == FindLandmark(input, n, t.landmark)
<1>1. /\ RunTasks(input, us, Start) = At(out, n)
      /\ Len(us) <= Len(ts) /\ \A i \in 1..Len(us) : SameTask(ts[i], us[i])
      /\ Build(Nothing, out) = Reading(us) /\ Opens(out)
      /\ \/ Len(us) = Len(ts) /\ q = At(out, n)
         \/ q = CopyRest(input, At(out, n))
  BY DEF PatchRun
<1>2. RunTasks(input, tt, Start) = RunTask(input, t, q) BY RunTasksAppend
<1>3. /\ Len(tt) = Len(ts) + 1 /\ Len(ts) \in Nat /\ Len(us) \in Nat /\ tt[Len(ts) + 1] = t
      /\ \A i \in 1..Len(ts) : tt[i] = ts[i]
  OBVIOUS
<1>4. Len(us) <= Len(tt) /\ \A i \in 1..Len(us) : SameTask(tt[i], us[i])
  <2> HIDE DEF tt
  <2>1. Len(us) <= Len(tt) BY <1>1, <1>3
  <2>2. ASSUME NEW i \in 1..Len(us) PROVE SameTask(tt[i], us[i])
    <3>1. i \in 1..Len(ts) BY <1>1, <1>3
    <3> QED BY <1>1, <1>3, <3>1
  <2> QED BY <2>1, <2>2
<1>5. CASE RunTask(input, t, q) = CopyRest(input, At(out, n))
  <2>1. PatchRun(r, tt, us, out, n)
    <3> HIDE DEF tt, q
    <3> QED BY <1>1, <1>2, <1>4, <1>5 DEF PatchRun
  <2> QED BY <2>1
<1>6. CASE q = CopyRest(input, At(out, n))
  <2>1. RunTask(input, t, q) = CopyRest(input, At(out, n)) BY <1>6, NothingLeft
  <2> QED BY <1>5, <2>1
<1>7. CASE Len(us) = Len(ts) /\ q = At(out, n)
  <2>1. CASE f = 0
    <3>1. TaskRan(r, t, out, n) BY TaskRuns
    <3>2. RunTask(input, t, q) = CopyRest(input, At(out, n)) BY <1>7, <2>1, <3>1 DEF TaskRan
    <3> QED BY <1>5, <3>2
  <2>2. CASE f # 0
    <3>1. Ok(RunTask(input, t, At(out, n))) BY <1>2, <1>7
    <3>2. PICK u \in Task, piece \in Seq(Lines), m \in 1..(Len(r) + 1) : TaskCarried(r, t, out, n, u, piece, m)
      BY <2>2, <3>1, FoundTaskCarried
    <3>3. /\ RunTask(input, t, At(out, n)) = At(out \o piece, m)
          /\ RunTask(input, u, At(out, n)) = At(out \o piece, m)
          /\ SameTask(t, u)
          /\ Build(Reading(us), piece) = Reading(Append(us, u))
      BY <3>2 DEF TaskCarried
    <3> DEFINE vs == Append(us, u)
               more == out \o piece
    <3>4. RunTasks(input, vs, Start) = RunTask(input, u, At(out, n)) BY <1>1, RunTasksAppend
    <3>5. /\ Len(vs) = Len(us) + 1 /\ vs[Len(us) + 1] = u /\ vs \in Seq(Task)
          /\ \A i \in 1..Len(us) : vs[i] = us[i]
      OBVIOUS
    <3>6. more \in Seq(Lines) BY LinesConcat
    <3>7. Build(Nothing, more) = Reading(vs) /\ Opens(more)
      <4>1. Build(Nothing, more) = Build(Build(Nothing, out), piece) BY BuildConcat
      <4>2. Opens(more) BY <1>1, OpensOn
      <4> QED BY <1>1, <3>3, <4>1, <4>2
    <3>8. RunTasks(input, tt, Start) = At(more, m) /\ RunTasks(input, vs, Start) = At(more, m)
      BY <1>2, <1>7, <3>3, <3>4
    <3> HIDE DEF vs, more, tt
    <3>9. ASSUME NEW i \in 1..Len(vs) PROVE SameTask(tt[i], vs[i])
      <4>1. CASE i = Len(us) + 1 BY <1>3, <1>7, <3>3, <3>5, <4>1
      <4>2. CASE i \in 1..Len(us) BY <1>1, <1>3, <1>7, <3>5, <4>2
      <4>3. i = Len(us) + 1 \/ i \in 1..Len(us) BY <1>3, <3>5, OneMore
      <4> QED BY <4>1, <4>2, <4>3
    <3>10. Len(vs) <= Len(tt) /\ Len(vs) = Len(tt) BY <1>3, <1>7, <3>5
    <3>11. PatchRun(r, tt, vs, more, m) BY <3>7, <3>8, <3>9, <3>10 DEF PatchRun
    <3> QED BY <3>5, <3>6, <3>11 DEF tt
  <2> QED BY <2>1, <2>2
<1> QED BY <1>1, <1>6, <1>7

\* A task after a failure fails.
LEMMA TaskFailsOn ==
  ASSUME NEW input, NEW t, NEW p, ~Ok(p)
  PROVE  RunTask(input, t, p) = p
BY DEF RunTask

\* All the tasks of a patch.
LEMMA PatchRuns ==
  ASSUME NEW r \in Seq(Texts), NEW ts \in Seq(Task), Ok(RunTasks(AsLines(r), ts, Start))
  PROVE  \E us \in Seq(Task) : \E out \in Seq(Lines) : \E n \in 1..(Len(r) + 1) : PatchRun(r, ts, us, out, n)
<1> DEFINE input == AsLines(r)
           Some(s) == \E us \in Seq(Task) : \E out \in Seq(Lines) : \E n \in 1..(Len(r) + 1) :
                        PatchRun(r, s, us, out, n)
           F(k) == RunTasks(input, SubSeq(ts, 1, k), Start)
           S == {k \in 0..Len(ts) : Ok(F(k)) => Some(SubSeq(ts, 1, k))}
<1>1. Len(ts) \in Nat OBVIOUS
<1>2. 0 \in S
  <2>1. SubSeq(ts, 1, 0) = <<>> OBVIOUS
  <2>2. <<>> \in Seq(Task) OBVIOUS
  <2>3. <<Original>> \in Seq(Lines)
    <3>1. Original \in Lines BY LinesAre
    <3> QED BY <3>1, OneLine
  <2>4. PatchRun(r, <<>>, <<>>, <<Original>>, 1) BY NoTaskRun
  <2>5. 1 \in 1..(Len(r) + 1) OBVIOUS
  <2>6. Some(<<>>) BY <2>2, <2>3, <2>4, <2>5
  <2>7. 0 \in 0..Len(ts) BY <1>1
  <2> HIDE DEF Some, F
  <2> QED BY <2>1, <2>6, <2>7
<1>3. ASSUME NEW k \in 0..(Len(ts) - 1), k \in S PROVE k + 1 \in S
  <2> DEFINE before == SubSeq(ts, 1, k)
             t == ts[k + 1]
  <2>1. before \in Seq(Task) /\ t \in Task /\ SubSeq(ts, 1, k + 1) = Append(before, t)
    <3>1. k + 1 \in 1..Len(ts) BY <1>1
    <3>2. before \in Seq(Task) BY <1>1
    <3>3. t \in Task BY <3>1
    <3>4. SubSeq(ts, 1, k + 1) = Append(before, t) BY <3>1
    <3> QED BY <3>2, <3>3, <3>4
  <2>2. k + 1 \in 0..Len(ts) BY <1>1
  <2> SUFFICES ASSUME Ok(F(k + 1)) PROVE Some(SubSeq(ts, 1, k + 1)) BY <2>2
  <2>3. F(k) = RunTasks(input, before, Start) OBVIOUS
  <2>4. F(k + 1) = RunTasks(input, Append(before, t), Start) BY <2>1
  <2> HIDE DEF before, t, input
  <2>5. F(k + 1) = RunTask(input, t, F(k)) BY <2>1, <2>3, <2>4, RunTasksAppend
  <2> HIDE DEF F
  <2>6. Ok(F(k)) BY <2>5, TaskFailsOn
  <2>7. Some(before)
    <3> HIDE DEF Some
    <3> QED BY <1>3, <2>6 DEF before
  <2>8. PICK us \in Seq(Task), out \in Seq(Lines), n \in 1..(Len(r) + 1) : PatchRun(r, before, us, out, n)
    BY <2>7
  <2>9. Ok(RunTasks(AsLines(r), Append(before, t), Start)) BY <2>4 DEF input
  <2>10. Some(Append(before, t)) BY <2>1, <2>8, <2>9, MoreRun
  <2> HIDE DEF Some
  <2> QED BY <2>1, <2>10
<1>4. \A k \in 0..Len(ts) : k \in S
  <2> HIDE DEF S
  <2> QED BY <1>1, <1>2, <1>3, UpTo
<1>5. Len(ts) \in 0..Len(ts) /\ SubSeq(ts, 1, Len(ts)) = ts BY <1>1
<1>6. Ok(F(Len(ts))) BY <1>5
<1>7. Some(SubSeq(ts, 1, Len(ts)))
  <2> HIDE DEF Some, F
  <2> QED BY <1>4, <1>5, <1>6
<1> QED BY <1>5, <1>7

\* The patch built from a patched release has the tasks of the one it was patched with, and
\* patches that release into the same file.
LEMMA PatchIsCarried ==
  ASSUME NEW r \in Seq(Texts), NEW ts \in Seq(Task), Ok(PatchContent(AsLines(r), ts))
  PROVE  /\ PatchContent(AsLines(r), ts).out \in Seq(Lines) /\ Opens(PatchContent(AsLines(r), ts).out)
         /\ \E us \in Seq(Task) :
              /\ Build(Nothing, PatchContent(AsLines(r), ts).out) = Reading(us)
              /\ PatchContent(AsLines(r), us) = PatchContent(AsLines(r), ts)
              /\ Len(us) <= Len(ts) /\ \A i \in 1..Len(us) : SameTask(ts[i], us[i])
<1> DEFINE input == AsLines(r)
<1>1. \A s : PatchContent(input, s) =
               IF Ok(RunTasks(input, s, Start)) THEN CopyRest(input, RunTasks(input, s, Start))
               ELSE RunTasks(input, s, Start)
  BY DEF PatchContent, Start
<1>2. Ok(RunTasks(input, ts, Start)) BY <1>1
<1>3. PICK us \in Seq(Task), out \in Seq(Lines), n \in 1..(Len(r) + 1) : PatchRun(r, ts, us, out, n)
  BY <1>2, PatchRuns
<1> DEFINE end == CopyRest(input, At(out, n))
           more == out \o SubSeq(input, n, Len(r))
<1>4. /\ RunTasks(input, us, Start) = At(out, n)
      /\ Len(us) <= Len(ts) /\ \A i \in 1..Len(us) : SameTask(ts[i], us[i])
      /\ Build(Nothing, out) = Reading(us) /\ Opens(out)
      /\ \/ RunTasks(input, ts, Start) = At(out, n)
         \/ RunTasks(input, ts, Start) = end
  BY <1>3 DEF PatchRun
<1>5. /\ end = At(more, Len(r) + 1) /\ more \in Seq(Lines)
      /\ Build(Nothing, more) = Reading(us) /\ Opens(more)
  BY <1>4, RestCopied
<1>6. CopyRest(input, end) = end BY NothingLeft
<1> HIDE DEF end, more
<1>7. PatchContent(input, ts) = end BY <1>1, <1>2, <1>4, <1>6 DEF end
<1>8. Ok(At(out, n))
  <2>1. n # 0 OBVIOUS
  <2> QED BY <2>1, AtIs
<1>9. PatchContent(input, us) = end BY <1>1, <1>4, <1>8 DEF end
<1>10. PatchContent(input, ts).out = more BY <1>5, <1>7, AtIs
<1> QED BY <1>4, <1>5, <1>7, <1>9, <1>10
-----------------------------------------------------------------------------
(* What patching keeps of a release. *)

\* A block that the lines open is closed by the last of them.
Closed(lines) == ~InBlock(lines, Len(lines) + 1)

\* The lines hold, of the release, what is from a up to b, as SourceKept says of a file.
Holds(r, a, b, lines, place) ==
  /\ place \in [Own(lines) -> a..(b - 1)]
  /\ \A i, j \in Own(lines) : i < j => place[i] < place[j]
  /\ \A i \in Own(lines) : lines[i][2] = r[place[i]]
  /\ ~Skips(lines) => \A k \in a..(b - 1) : \E i \in Own(lines) : place[i] = k
Kept(r, a, b, lines) == Closed(lines) /\ \E place : Holds(r, a, b, lines, place)

\* The lines of one sequence and of the next.
LEMMA ConcatIs ==
  ASSUME NEW s \in Seq(Lines), NEW t \in Seq(Lines)
  PROVE  /\ s \o t \in Seq(Lines) /\ Len(s \o t) = Len(s) + Len(t)
         /\ Len(s) \in Nat /\ Len(t) \in Nat
         /\ DOMAIN s = 1..Len(s) /\ DOMAIN t = 1..Len(t) /\ DOMAIN (s \o t) = 1..(Len(s) + Len(t))
         /\ \A i \in 1..Len(s) : (s \o t)[i] = s[i]
         /\ \A i \in 1..Len(t) : (s \o t)[Len(s) + i] = t[i]
OBVIOUS

\* A line after closed lines is in a block exactly if it is in one of those that follow.
LEMMA InBlockConcat ==
  ASSUME NEW s \in Seq(Lines), NEW t \in Seq(Lines)
  PROVE  /\ \A i \in 1..Len(s) : InBlock(s \o t, i) <=> InBlock(s, i)
         /\ Closed(s) => \A i \in 1..(Len(t) + 1) : InBlock(s \o t, Len(s) + i) <=> InBlock(t, i)
<1> DEFINE n == Len(s)
<1>0. PICK st : st = s \o t OBVIOUS
<1>1. /\ n \in Nat /\ Len(t) \in Nat
      /\ \A i \in 1..n : st[i] = s[i]
      /\ \A i \in 1..Len(t) : st[n + i] = t[i]
  BY <1>0, ConcatIs
<1>2. ASSUME NEW i \in 1..n PROVE InBlock(st, i) <=> InBlock(s, i)
  <2>1. \A j \in 1..(i - 1) : j \in 1..n BY <1>1
  <2>2. \A j \in 1..(i - 1) : \A k \in j..(i - 1) : k \in 1..n BY <1>1
  <2>3. \A j \in 1..(i - 1) : st[j] = s[j] /\ \A k \in j..(i - 1) : st[k] = s[k] BY <1>1, <2>1, <2>2
  <2> HIDE DEF n
  <2> QED BY <2>3 DEF InBlock
<1>3. ASSUME Closed(s), NEW i \in 1..(Len(t) + 1) PROVE InBlock(st, n + i) <=> InBlock(t, i)
  <2>1. ASSUME NEW j \in 1..(i - 1), t[j][1] = "APPEND_START", \A k \in j..(i - 1) : t[k][1] # "APPEND_STOP"
        PROVE  InBlock(st, n + i)
    <3>1. n + j \in 1..(n + i - 1) /\ j \in 1..Len(t) BY <1>1
    <3>2. st[n + j] = t[j] BY <1>1, <3>1
    <3>3. ASSUME NEW k \in (n + j)..(n + i - 1) PROVE st[k][1] # "APPEND_STOP"
      <4>1. k - n \in j..(i - 1) /\ k - n \in 1..Len(t) /\ n + (k - n) = k BY <1>1
      <4>2. st[k] = t[k - n] BY <1>1, <4>1
      <4> QED BY <2>1, <4>1, <4>2
    <3> QED BY <2>1, <3>1, <3>2, <3>3 DEF InBlock
  <2>2. ASSUME NEW j \in 1..(n + i - 1), st[j][1] = "APPEND_START",
               \A k \in j..(n + i - 1) : st[k][1] # "APPEND_STOP"
        PROVE  InBlock(t, i)
    <3>1. CASE j <= n
      <4>1. j \in 1..(n + 1 - 1) /\ j \in 1..n BY <1>1, <3>1
      <4>2. s[j][1] = "APPEND_START" BY <1>1, <2>2, <4>1
      <4>3. ASSUME NEW k \in j..(n + 1 - 1) PROVE s[k][1] # "APPEND_STOP"
        <5>1. k \in 1..n /\ k \in j..(n + i - 1) BY <1>1, <4>1
        <5> QED BY <1>1, <2>2, <5>1
      <4>4. InBlock(s, n + 1) BY <4>1, <4>2, <4>3 DEF InBlock
      <4> QED BY <1>3, <4>4 DEF Closed
    <3>2. CASE j > n
      <4>1. j - n \in 1..(i - 1) /\ j - n \in 1..Len(t) /\ n + (j - n) = j BY <1>1, <3>2
      <4>2. t[j - n][1] = "APPEND_START" BY <1>1, <2>2, <4>1
      <4>3. ASSUME NEW k \in (j - n)..(i - 1) PROVE t[k][1] # "APPEND_STOP"
        <5>1. n + k \in j..(n + i - 1) /\ k \in 1..Len(t) BY <1>1, <4>1
        <5> QED BY <1>1, <2>2, <5>1
      <4> QED BY <4>1, <4>2, <4>3 DEF InBlock
    <3> QED BY <1>1, <3>1, <3>2
  <2> QED BY <2>1, <2>2 DEF InBlock
<1> QED BY <1>0, <1>2, <1>3

\* The own lines of closed lines and of those that follow.
LEMMA OwnConcat ==
  ASSUME NEW s \in Seq(Lines), NEW t \in Seq(Lines), Closed(s)
  PROVE  /\ \A i \in 1..Len(s) : i \in Own(s \o t) <=> i \in Own(s)
         /\ \A i \in 1..Len(t) : Len(s) + i \in Own(s \o t) <=> i \in Own(t)
         /\ Own(s) \subseteq 1..Len(s) /\ Own(t) \subseteq 1..Len(t)
         /\ Own(s \o t) \subseteq 1..(Len(s) + Len(t))
<1> DEFINE n == Len(s)
<1>0. PICK st : st = s \o t OBVIOUS
<1>1. /\ n \in Nat /\ Len(t) \in Nat
      /\ DOMAIN s = 1..n /\ DOMAIN t = 1..Len(t) /\ DOMAIN st = 1..(n + Len(t))
      /\ \A i \in 1..n : st[i] = s[i]
      /\ \A i \in 1..Len(t) : st[n + i] = t[i]
  BY <1>0, ConcatIs
<1>2. /\ \A i \in 1..n : InBlock(st, i) <=> InBlock(s, i)
      /\ \A i \in 1..Len(t) : InBlock(st, n + i) <=> InBlock(t, i)
  <2>1. \A i \in 1..Len(t) : i \in 1..(Len(t) + 1) BY <1>1
  <2> QED BY <1>0, <2>1, InBlockConcat
<1> HIDE DEF n
<1>3. ASSUME NEW i \in 1..n PROVE i \in Own(st) <=> i \in Own(s)
  <2>1. i \in 1..(n + Len(t)) BY <1>1
  <2> QED BY <1>1, <1>2, <2>1 DEF Own
<1>4. ASSUME NEW i \in 1..Len(t) PROVE n + i \in Own(st) <=> i \in Own(t)
  <2>1. n + i \in 1..(n + Len(t)) BY <1>1
  <2> QED BY <1>1, <1>2, <2>1 DEF Own
<1>5. Own(s) \subseteq 1..n /\ Own(t) \subseteq 1..Len(t) /\ Own(st) \subseteq 1..(n + Len(t))
  BY <1>1 DEF Own
<1> QED BY <1>0, <1>3, <1>4, <1>5 DEF n

\* Closed lines after closed lines are closed.
LEMMA ClosedConcat ==
  ASSUME NEW s \in Seq(Lines), NEW t \in Seq(Lines), Closed(s), Closed(t)
  PROVE  Closed(s \o t)
<1>1. Len(s \o t) + 1 = Len(s) + (Len(t) + 1) /\ Len(t) + 1 \in 1..(Len(t) + 1) BY ConcatIs
<1>2. InBlock(s \o t, Len(s) + (Len(t) + 1)) <=> InBlock(t, Len(t) + 1) BY <1>1, InBlockConcat
<1> QED BY <1>1, <1>2 DEF Closed

\* So do lines that skip: either the first or those that follow.
LEMMA SkipsConcat ==
  ASSUME NEW s \in Seq(Lines), NEW t \in Seq(Lines)
  PROVE  Skips(s) \/ Skips(t) => Skips(s \o t)
<1>1. PICK st : st = s \o t OBVIOUS
<1>2. /\ Len(s) \in Nat /\ Len(t) \in Nat
      /\ DOMAIN s = 1..Len(s) /\ DOMAIN t = 1..Len(t) /\ DOMAIN st = 1..(Len(s) + Len(t))
      /\ \A i \in 1..Len(s) : st[i] = s[i]
      /\ \A i \in 1..Len(t) : st[Len(s) + i] = t[i]
  BY <1>1, ConcatIs
<1>3. ASSUME NEW l \in ToSet(s) PROVE l \in ToSet(st)
  <2>1. PICK i \in 1..Len(s) : l = s[i] BY <1>2 DEF ToSet
  <2>2. i \in 1..(Len(s) + Len(t)) /\ st[i] = l BY <1>2, <2>1
  <2> QED BY <1>2, <2>2 DEF ToSet
<1>4. ASSUME NEW l \in ToSet(t) PROVE l \in ToSet(st)
  <2>1. PICK i \in 1..Len(t) : l = t[i] BY <1>2 DEF ToSet
  <2>2. Len(s) + i \in 1..(Len(s) + Len(t)) /\ st[Len(s) + i] = l BY <1>2, <2>1
  <2> QED BY <1>2, <2>2 DEF ToSet
<1> QED BY <1>1, <1>3, <1>4 DEF Skips

\* What is kept up to b and what is kept from b on.
LEMMA KeptConcat ==
  ASSUME NEW r, NEW a \in Nat, NEW b \in Nat, NEW c \in Nat, a <= b, b <= c,
         NEW s \in Seq(Lines), NEW t \in Seq(Lines), Kept(r, a, b, s), Kept(r, b, c, t)
  PROVE  Kept(r, a, c, s \o t)
<1> DEFINE n == Len(s)
<1>1. PICK st : st = s \o t OBVIOUS
<1>2. Closed(s) /\ Closed(t) BY DEF Kept
<1>3. Closed(st) BY <1>1, <1>2, ClosedConcat
<1>4. PICK p : Holds(r, a, b, s, p) BY DEF Kept
<1>5. PICK q : Holds(r, b, c, t, q) BY DEF Kept
<1>6. /\ n \in Nat /\ Len(t) \in Nat
      /\ \A i \in 1..n : st[i] = s[i]
      /\ \A i \in 1..Len(t) : st[n + i] = t[i]
  BY <1>1, ConcatIs
<1>7. /\ \A i \in 1..n : i \in Own(st) <=> i \in Own(s)
      /\ \A i \in 1..Len(t) : n + i \in Own(st) <=> i \in Own(t)
      /\ Own(s) \subseteq 1..n /\ Own(t) \subseteq 1..Len(t)
      /\ Own(st) \subseteq 1..(n + Len(t))
  BY <1>1, <1>2, OwnConcat
<1> DEFINE place == [i \in Own(st) |-> IF i <= n THEN p[i] ELSE q[i - n]]
<1>8. ASSUME NEW i \in Own(st)
      PROVE  \/ i <= n /\ i \in Own(s) /\ place[i] = p[i] /\ st[i] = s[i]
             \/ ~(i <= n) /\ i - n \in Own(t) /\ place[i] = q[i - n] /\ st[i] = t[i - n]
  <2>1. i \in 1..(n + Len(t)) BY <1>7
  <2>2. CASE i <= n
    <3>1. i \in 1..n BY <2>1, <2>2
    <3> QED BY <1>6, <1>7, <2>2, <3>1
  <2>3. CASE ~(i <= n)
    <3>1. i - n \in 1..Len(t) /\ n + (i - n) = i BY <1>6, <2>1, <2>3
    <3>2. st[n + (i - n)] = t[i - n] BY <1>6, <3>1
    <3>3. n + (i - n) \in Own(st) <=> i - n \in Own(t) BY <1>7, <3>1
    <3> QED BY <2>3, <3>1, <3>2, <3>3
  <2> QED BY <2>2, <2>3
<1>9. /\ \A i \in Own(s) : p[i] \in a..(b - 1) /\ s[i][2] = r[p[i]]
      /\ \A i, j \in Own(s) : i < j => p[i] < p[j]
      /\ ~Skips(s) => \A k \in a..(b - 1) : \E i \in Own(s) : p[i] = k
  BY <1>4 DEF Holds
<1>10. /\ \A i \in Own(t) : q[i] \in b..(c - 1) /\ t[i][2] = r[q[i]]
       /\ \A i, j \in Own(t) : i < j => q[i] < q[j]
       /\ ~Skips(t) => \A k \in b..(c - 1) : \E i \in Own(t) : q[i] = k
  BY <1>5 DEF Holds
<1>11. place \in [Own(st) -> a..(c - 1)]
  <2>1. \A k \in a..(b - 1) : k \in a..(c - 1) OBVIOUS
  <2>2. \A k \in b..(c - 1) : k \in a..(c - 1) OBVIOUS
  <2>3. ASSUME NEW i \in Own(st) PROVE place[i] \in a..(c - 1)
    <3> HIDE DEF place
    <3> QED BY <1>8, <1>9, <1>10, <2>1, <2>2
  <2> QED BY <2>3
<1>12. \A i \in Own(st) : place[i] = IF i <= n THEN p[i] ELSE q[i - n] OBVIOUS
<1> HIDE DEF place
<1>13. ASSUME NEW i \in Own(st), NEW j \in Own(st), i < j PROVE place[i] < place[j]
  <2>1. i \in Nat /\ j \in Nat BY <1>6, <1>7
  <2>2. CASE j <= n
    <3>1. i <= n BY <1>6, <1>13, <2>1, <2>2
    <3> QED BY <1>8, <1>9, <1>13, <2>2, <3>1
  <2>3. CASE i <= n /\ ~(j <= n)
    <3>1. place[i] \in a..(b - 1) /\ place[j] \in b..(c - 1) BY <1>8, <1>9, <1>10, <2>3
    <3> QED BY <3>1
  <2>4. CASE ~(i <= n)
    <3>1. ~(j <= n) /\ i - n < j - n BY <1>6, <1>13, <2>1, <2>4
    <3> QED BY <1>8, <1>10, <2>4, <3>1
  <2> QED BY <2>2, <2>3, <2>4
<1>14. ASSUME NEW i \in Own(st) PROVE st[i][2] = r[place[i]]
  BY <1>8, <1>9, <1>10
<1>15. ASSUME ~Skips(st), NEW k \in a..(c - 1) PROVE \E i \in Own(st) : place[i] = k
  <2>1. ~Skips(s) /\ ~Skips(t) BY <1>1, <1>15, SkipsConcat
  <2>2. CASE k < b
    <3>1. k \in a..(b - 1) BY <2>2
    <3>2. PICK i \in Own(s) : p[i] = k BY <1>9, <2>1, <3>1
    <3>3. i \in 1..n BY <1>7
    <3>4. i <= n /\ i \in Own(st) BY <1>6, <1>7, <3>3
    <3> QED BY <1>12, <3>2, <3>4
  <2>3. CASE ~(k < b)
    <3>1. k \in b..(c - 1) BY <2>3
    <3>2. PICK i \in Own(t) : q[i] = k BY <1>10, <2>1, <3>1
    <3>3. i \in 1..Len(t) BY <1>7
    <3>4. ~(n + i <= n) /\ n + i \in Own(st) /\ (n + i) - n = i BY <1>6, <1>7, <3>3
    <3> QED BY <1>12, <3>2, <3>4
  <2> QED BY <2>2, <2>3
<1>16. Holds(r, a, c, st, place) BY <1>11, <1>13, <1>14, <1>15 DEF Holds
<1> QED BY <1>1, <1>3, <1>16 DEF Kept

\* Lines of which none is the file's own keep nothing; where they skip, this may be less
\* than there is.
LEMMA KeptNone ==
  ASSUME NEW r, NEW a \in Nat, NEW b \in Nat, NEW lines, a = b \/ Skips(lines),
         Closed(lines), Own(lines) = {}
  PROVE  Kept(r, a, b, lines)
<1> DEFINE place == [i \in {} |-> a]
<1>1. place \in [Own(lines) -> a..(b - 1)] OBVIOUS
<1>2. a = b => \A k \in a..(b - 1) : FALSE OBVIOUS
<1> HIDE DEF place
<1>3. Holds(r, a, b, lines, place) BY <1>1, <1>2 DEF Holds
<1> QED BY <1>3 DEF Kept

\* A line of the patch.
LEMMA KeptControl ==
  ASSUME NEW r, NEW a \in Nat, NEW b \in Nat, NEW l, l[1] # "text", l[1] # "APPEND_START",
         a = b \/ l[1] \in {"SKIP_UNTIL_PASS", "SKIP_UNTIL_AND_ACCEPT"}
  PROVE  Kept(r, a, b, <<l>>)
<1>1. PICK s : s = <<l>> OBVIOUS
<1>2. Len(s) = 1 /\ DOMAIN s = {1} /\ s[1] = l BY <1>1
<1>3. Closed(s)
  <2>1. \A j \in 1..(Len(s) + 1 - 1) : s[j] = l BY <1>2
  <2> QED BY <2>1 DEF Closed, InBlock
<1>4. Own(s) = {} BY <1>2 DEF Own, IsText
<1>5. a = b \/ Skips(s)
  <2>1. l \in ToSet(s) BY <1>2 DEF ToSet
  <2> QED BY <2>1 DEF Skips
<1> QED BY <1>1, <1>3, <1>4, <1>5, KeptNone

\* A block.
LEMMA KeptBlock ==
  ASSUME NEW r, NEW a \in Nat, NEW id \in Nat, NEW arg \in Seq(Texts)
  PROVE  Kept(r, a, a, <<Control("APPEND_START", id)>> \o AsLines(arg) \o <<AppendStop>>)
<1> DEFINE n == Len(arg)
<1>1. PICK s : s = <<Control("APPEND_START", id)>> \o AsLines(arg) \o <<AppendStop>> OBVIOUS
<1>2. /\ n \in Nat /\ Len(s) = n + 2 /\ DOMAIN s = 1..(n + 2)
      /\ s[1] = Control("APPEND_START", id) /\ s[n + 2] = AppendStop
      /\ \A i \in 2..(n + 1) : IsText(s[i])
  <2>1. PICK u, v, x : u = <<Control("APPEND_START", id)>> /\ v = <<AppendStop>> /\ x = AsLines(arg) OBVIOUS
  <2>2. x \in Seq(Lines) /\ Len(x) = n /\ n \in Nat /\ \A i \in 1..n : IsText(x[i]) BY <2>1, ReleaseLines
  <2>3. u \in Seq(Lines) /\ v \in Seq(Lines)
    <3>1. Control("APPEND_START", id) \in Lines /\ AppendStop \in Lines BY LinesAre
    <3> QED BY <2>1, <3>1, OneLine
  <2>4. Len(u) = 1 /\ Len(v) = 1 /\ u[1] = Control("APPEND_START", id) /\ v[1] = AppendStop BY <2>1
  <2>5. PICK y : y = u \o x OBVIOUS
  <2>6. /\ y \in Seq(Lines) /\ Len(y) = n + 1 /\ y[1] = u[1]
        /\ \A i \in 1..n : y[1 + i] = x[i]
    <3> HIDE DEF n
    <3>1. 1 \in 1..Len(u) BY <2>4
    <3>2. y \in Seq(Lines) /\ Len(y) = Len(u) + Len(x) BY <2>2, <2>3, <2>5, ConcatIs
    <3>3. \A i \in 1..Len(u) : y[i] = u[i] BY <2>2, <2>3, <2>5, ConcatIs
    <3>4. \A i \in 1..Len(x) : y[Len(u) + i] = x[i] BY <2>2, <2>3, <2>5, ConcatIs
    <3> QED BY <2>2, <2>4, <3>1, <3>2, <3>3, <3>4
  <2>7. s = y \o v BY <1>1, <2>1, <2>5
  <2>8. /\ Len(s) = n + 2 /\ DOMAIN s = 1..(n + 2) /\ s[n + 2] = v[1]
        /\ \A i \in 1..(n + 1) : s[i] = y[i]
    <3> HIDE DEF n
    <3>1. 1 \in 1..Len(v) /\ Len(y) + 1 = n + 2 BY <2>2, <2>4, <2>6
    <3>2. Len(s) = Len(y) + Len(v) /\ DOMAIN s = 1..(Len(y) + Len(v)) BY <2>3, <2>6, <2>7, ConcatIs
    <3>3. \A i \in 1..Len(y) : s[i] = y[i] BY <2>3, <2>6, <2>7, ConcatIs
    <3>4. s[Len(y) + 1] = v[1] BY <2>3, <2>6, <2>7, <3>1, ConcatIs
    <3> QED BY <2>2, <2>4, <2>6, <3>1, <3>2, <3>3, <3>4
  <2>9. ASSUME NEW i \in 2..(n + 1) PROVE IsText(s[i])
    <3>1. i - 1 \in 1..n /\ 1 + (i - 1) = i /\ i \in 1..(n + 1) BY <2>2
    <3>2. s[i] = x[i - 1] BY <2>6, <2>8, <3>1
    <3> QED BY <2>2, <3>1, <3>2
  <2>10. s[1] = u[1]
    <3>1. 1 \in 1..(n + 1) BY <2>2
    <3> QED BY <2>6, <2>8, <3>1
  <2> QED BY <2>2, <2>4, <2>8, <2>9, <2>10
<1> HIDE DEF n
<1>3. \A i \in 2..(n + 1) : s[i][1] # "APPEND_STOP" BY <1>2 DEF IsText
<1>4. s[1][1] = "APPEND_START" /\ s[n + 2][1] = "APPEND_STOP" BY <1>2 DEF Control, AppendStop
<1>5. Closed(s)
  <2>1. \A j \in 1..(Len(s) + 1 - 1) : n + 2 \in j..(Len(s) + 1 - 1) BY <1>2
  <2> QED BY <1>4, <2>1 DEF Closed, InBlock
<1>6. Own(s) = {}
  <2> SUFFICES ASSUME NEW i \in Own(s) PROVE FALSE OBVIOUS
  <2>1. i \in 1..(n + 2) /\ IsText(s[i]) /\ ~InBlock(s, i) BY <1>2 DEF Own
  <2>2. i \in 2..(n + 1)
    <3>1. i # 1 /\ i # n + 2 BY <1>4, <2>1 DEF IsText
    <3> QED BY <1>2, <2>1, <3>1
  <2>3. InBlock(s, i)
    <3>1. 1 \in 1..(i - 1) BY <1>2, <2>2
    <3>2. ASSUME NEW k \in 1..(i - 1) PROVE s[k][1] # "APPEND_STOP"
      <4>1. k = 1 \/ k \in 2..(n + 1) BY <1>2, <2>2
      <4> QED BY <1>3, <1>4, <4>1
    <3> QED BY <1>4, <3>1, <3>2 DEF InBlock
  <2> QED BY <2>1, <2>3
<1> QED BY <1>1, <1>5, <1>6, KeptNone

\* Lines of the release.
LEMMA KeptTexts ==
  ASSUME NEW r \in Seq(Texts), NEW a \in 1..(Len(r) + 1), NEW b \in 1..(Len(r) + 1), a <= b
  PROVE  /\ SubSeq(AsLines(r), a, b - 1) \in Seq(Lines)
         /\ Kept(r, a, b, SubSeq(AsLines(r), a, b - 1))
<1>1. PICK input : input = AsLines(r) OBVIOUS
<1>2. /\ Len(input) = Len(r) /\ Len(r) \in Nat /\ input \in Seq(Lines)
      /\ \A k \in 1..Len(r) : input[k] \in Lines /\ IsText(input[k]) /\ input[k][2] = r[k]
  BY <1>1, ReleaseLines
<1>3. PICK s : s = SubSeq(input, a, b - 1) OBVIOUS
<1>4. /\ s \in Seq(Lines) /\ Len(s) = b - a
      /\ \A k \in 1..(b - a) : s[k] = input[a + k - 1]
  <2>1. \A k \in a..(b - 1) : input[k] \in Lines BY <1>2
  <2>2. a \in Int /\ b - 1 \in Int /\ (b - 1) - a + 1 = b - a BY <1>2
  <2>3. /\ s \in Seq(Lines) /\ Len(s) = IF a <= b - 1 THEN (b - 1) - a + 1 ELSE 0
        /\ \A k \in 1..((b - 1) - a + 1) : s[k] = input[a + k - 1]
    BY <1>2, <1>3, <2>1, <2>2, SubSeqProperties
  <2> QED BY <2>2, <2>3
<1>5. \A k \in 1..(b - a) : IsText(s[k]) /\ s[k][2] = r[a + k - 1]
  <2> TAKE k \in 1..(b - a)
  <2>1. a + k - 1 \in 1..Len(r) BY <1>2
  <2> QED BY <1>2, <1>4, <2>1
<1>6. DOMAIN s = 1..(b - a) BY <1>4
<1>7. \A k \in 1..(b - a) : s[k][1] # "APPEND_START" BY <1>5 DEF IsText
<1>8. \A i \in 1..(b - a + 1) : ~InBlock(s, i)
  <2> TAKE i \in 1..(b - a + 1)
  <2>1. \A j \in 1..(i - 1) : j \in 1..(b - a) OBVIOUS
  <2> QED BY <1>7, <2>1 DEF InBlock
<1>9. Closed(s)
  <2>1. Len(s) + 1 \in 1..(b - a + 1) BY <1>4
  <2> QED BY <1>8, <2>1 DEF Closed
<1>10. Own(s) = 1..(b - a)
  <2>1. \A i \in 1..(b - a) : ~InBlock(s, i) BY <1>8
  <2> QED BY <1>5, <1>6, <2>1 DEF Own
<1> DEFINE place == [i \in 1..(b - a) |-> a + i - 1]
<1>11. place \in [Own(s) -> a..(b - 1)] BY <1>10
<1>12. \A i, j \in 1..(b - a) : i < j => place[i] < place[j] OBVIOUS
<1>13. \A i \in 1..(b - a) : s[i][2] = r[place[i]] BY <1>5
<1>14. \A k \in a..(b - 1) : \E i \in 1..(b - a) : place[i] = k
  <2> TAKE k \in a..(b - 1)
  <2>1. k - a + 1 \in 1..(b - a) OBVIOUS
  <2>2. place[k - a + 1] = k BY <2>1
  <2> QED BY <2>1, <2>2
<1> HIDE DEF place
<1>15. Holds(r, a, b, s, place) BY <1>10, <1>11, <1>12, <1>13, <1>14 DEF Holds
<1> QED BY <1>1, <1>3, <1>4, <1>9, <1>15 DEF Kept

\* One of them.
LEMMA KeptLine ==
  ASSUME NEW r \in Seq(Texts), NEW f \in 1..Len(r)
  PROVE  <<Line(r[f])>> \in Seq(Lines) /\ Kept(r, f, f + 1, <<Line(r[f])>>)
<1>1. f \in 1..(Len(r) + 1) /\ f + 1 \in 1..(Len(r) + 1) /\ f <= f + 1 /\ (f + 1) - 1 = f OBVIOUS
<1>2. SubSeq(AsLines(r), f, f) \in Seq(Lines) /\ Kept(r, f, f + 1, SubSeq(AsLines(r), f, f))
  BY <1>1, KeptTexts
<1>3. SubSeq(AsLines(r), f, f) = <<Line(r[f])>>
  <2>1. /\ AsLines(r) \in Seq(Lines) /\ Len(AsLines(r)) = Len(r) /\ AsLines(r)[f] = Line(r[f])
    BY ReleaseLines
  <2>2. PICK input : input = AsLines(r) OBVIOUS
  <2>3. PICK s : s = SubSeq(input, f, f) OBVIOUS
  <2>4. /\ s \in Seq(Lines) /\ Len(s) = IF f <= f THEN f - f + 1 ELSE 0
        /\ \A k \in 1..(f - f + 1) : s[k] = input[f + k - 1]
    <3>1. \A k \in f..f : input[k] \in Lines
      <4>1. input[f] \in Lines BY <2>2, ReleaseLines
      <4> QED BY <4>1
    <3> QED BY <2>1, <2>2, <2>3, <3>1, SubSeqProperties
  <2>5. s \in Seq(Lines) /\ Len(s) = 1 /\ s[1] = Line(r[f]) BY <2>1, <2>2, <2>4
  <2>6. s = <<s[1]>> BY <2>5
  <2> QED BY <2>2, <2>3, <2>5, <2>6
<1> QED BY <1>2, <1>3

\* A patching that has kept the release, up to where it has come, or has failed.
Keeping(r, p) ==
  Ok(p) => \E out \in Seq(Lines) : \E at \in 1..(Len(r) + 1) : p = At(out, at) /\ Kept(r, 1, at, out)

\* It goes on with what is kept from there on.
LEMMA KeepOn ==
  ASSUME NEW r \in Seq(Texts), NEW out \in Seq(Lines), NEW at \in 1..(Len(r) + 1), Kept(r, 1, at, out),
         NEW s \in Seq(Lines), NEW n \in 1..(Len(r) + 1), at <= n, Kept(r, at, n, s)
  PROVE  out \o s \in Seq(Lines) /\ Kept(r, 1, n, out \o s)
<1>1. 1 \in Nat /\ at \in Nat /\ n \in Nat /\ 1 <= at OBVIOUS
<1> QED BY <1>1, KeptConcat, LinesConcat

\* A patching that has kept so much.
LEMMA Keeps ==
  ASSUME NEW r, NEW out \in Seq(Lines), NEW at \in 1..(Len(r) + 1), Kept(r, 1, at, out)
  PROVE  Keeping(r, At(out, at))
BY DEF Keeping

\* A control line, and what it skips.
LEMMA KeepControl ==
  ASSUME NEW r \in Seq(Texts), NEW out \in Seq(Lines), NEW at \in 1..(Len(r) + 1), Kept(r, 1, at, out),
         NEW l \in Lines, l[1] # "text", l[1] # "APPEND_START", NEW n \in 1..(Len(r) + 1), at <= n,
         at = n \/ l[1] \in {"SKIP_UNTIL_PASS", "SKIP_UNTIL_AND_ACCEPT"}
  PROVE  out \o <<l>> \in Seq(Lines) /\ Kept(r, 1, n, out \o <<l>>)
<1>1. PICK s : s = <<l>> OBVIOUS
<1>2. s \in Seq(Lines) BY <1>1, OneLine
<1>3. at \in Nat /\ n \in Nat OBVIOUS
<1>4. Kept(r, at, n, s) BY <1>1, <1>3, KeptControl
<1>5. out \o s \in Seq(Lines) /\ Kept(r, 1, n, out \o s) BY <1>2, <1>4, KeepOn
<1> QED BY <1>1, <1>5

\* The next line.
LEMMA KeepLine ==
  ASSUME NEW r \in Seq(Texts), NEW out \in Seq(Lines), NEW f \in 1..Len(r), Kept(r, 1, f, out)
  PROVE  /\ out \o <<Line(r[f])>> \in Seq(Lines) /\ f + 1 \in 1..(Len(r) + 1)
         /\ Kept(r, 1, f + 1, out \o <<Line(r[f])>>)
<1>1. PICK s : s = <<Line(r[f])>> OBVIOUS
<1>2. s \in Seq(Lines) /\ Kept(r, f, f + 1, s) BY <1>1, KeptLine
<1>3. f \in 1..(Len(r) + 1) /\ f + 1 \in 1..(Len(r) + 1) /\ f <= f + 1 OBVIOUS
<1>4. out \o s \in Seq(Lines) /\ Kept(r, 1, f + 1, out \o s) BY <1>2, <1>3, KeepOn
<1> QED BY <1>1, <1>3, <1>4

\* The lines up to one.
LEMMA KeepTexts ==
  ASSUME NEW r \in Seq(Texts), NEW out \in Seq(Lines), NEW at \in 1..(Len(r) + 1), Kept(r, 1, at, out),
         NEW f \in 1..(Len(r) + 1), at <= f
  PROVE  /\ out \o SubSeq(AsLines(r), at, f - 1) \in Seq(Lines)
         /\ Kept(r, 1, f, out \o SubSeq(AsLines(r), at, f - 1))
<1>1. PICK s : s = SubSeq(AsLines(r), at, f - 1) OBVIOUS
<1>2. s \in Seq(Lines) /\ Kept(r, at, f, s) BY <1>1, KeptTexts
<1>3. out \o s \in Seq(Lines) /\ Kept(r, 1, f, out \o s) BY <1>2, KeepOn
<1> QED BY <1>1, <1>3

\* The control line of a command or of a task.
LEMMA ControlLine ==
  /\ \A id \in Nat : \A word \in Finders \cup {"START"} :
       /\ Control(word, id) \in Lines /\ Control(word, id)[1] = word
       /\ word # "text" /\ word # "APPEND_START"
  /\ \A id \in Nat : \A t \in Texts :
       <<"SKIP_UNTIL_PASS", id, t>> \in Lines /\ <<"SKIP_UNTIL_PASS", id, t>>[1] = "SKIP_UNTIL_PASS"
BY LinesAre DEF Control, Finders

\* A command that appends.
LEMMA AppendKeeps ==
  ASSUME NEW r \in Seq(Texts), NEW id \in Nat, NEW c \in Command, c.kind = "APPEND_START",
         NEW out \in Seq(Lines), NEW at \in 1..(Len(r) + 1), Kept(r, 1, at, out)
  PROVE  Keeping(r, RunCommand(AsLines(r), id, c, At(out, at)))
<1>1. PICK w : w = WriteCommand(id, c, TRUE) OBVIOUS
<1>2. w = <<Control("APPEND_START", id)>> \o AsLines(c.arg) \o <<AppendStop>> BY <1>1 DEF WriteCommand
<1>3. c.arg \in Seq(Texts) BY CommandIs
<1>4. at \in Nat /\ at <= at /\ at # 0 OBVIOUS
<1>5. Kept(r, at, at, w) BY <1>2, <1>3, <1>4, KeptBlock
<1>6. w \in Seq(Lines) BY <1>1, ReadCommand
<1>7. out \o w \in Seq(Lines) /\ Kept(r, 1, at, out \o w) BY <1>4, <1>5, <1>6, KeepOn
<1>8. AppendRan(AsLines(r), id, c, out, at) BY <1>4, AppendRuns
<1>9. RunCommand(AsLines(r), id, c, At(out, at)) = At(out \o w, at) BY <1>1, <1>8 DEF AppendRan
<1> QED BY <1>7, <1>9, Keeps

\* A command that follows.
LEMMA FollowKeeps ==
  ASSUME NEW r \in Seq(Texts), NEW id \in Nat, NEW c \in Command, c.kind = "FOLLOW_BY",
         NEW out \in Seq(Lines), NEW at \in 1..(Len(r) + 1), Kept(r, 1, at, out)
  PROVE  Keeping(r, RunCommand(AsLines(r), id, c, At(out, at)))
<1>1. PICK q : q = RunCommand(AsLines(r), id, c, At(out, at)) OBVIOUS
<1>2. CASE at <= Len(r) /\ <<c.arg, r[at]>> \in Beginnings
  <2>1. PICK u : u = out \o <<Control("FOLLOW_BY", id)>> OBVIOUS
  <2>2. at \in 1..Len(r) /\ at <= at BY <1>2
  <2>3. "FOLLOW_BY" \in Finders \cup {"START"} BY DEF Finders
  <2>4. PICK l : l = Control("FOLLOW_BY", id) OBVIOUS
  <2>5. l \in Lines /\ l[1] # "text" /\ l[1] # "APPEND_START" BY <2>3, <2>4, ControlLine
  <2>6. u \in Seq(Lines) /\ Kept(r, 1, at, u) BY <2>1, <2>2, <2>4, <2>5, KeepControl
  <2>7. PICK v : v = u \o <<Line(r[at])>> OBVIOUS
  <2>8. v \in Seq(Lines) /\ at + 1 \in 1..(Len(r) + 1) /\ Kept(r, 1, at + 1, v) BY <2>2, <2>6, <2>7, KeepLine
  <2>9. q = At(v, at + 1) BY <1>1, <1>2, <2>1, <2>7, FollowRuns
  <2> QED BY <1>1, <2>8, <2>9, Keeps
<1>3. CASE ~(at <= Len(r) /\ <<c.arg, r[at]>> \in Beginnings)
  <2>1. q = Failed BY <1>1, <1>3, FollowRuns
  <2> QED BY <1>1, <2>1, AtIs DEF Keeping
<1> QED BY <1>2, <1>3

\* A command that finds a line.
LEMMA FinderKeeps ==
  ASSUME NEW r \in Seq(Texts), NEW id \in Nat, NEW c \in Command,
         c.kind \in {"FIND_NEXT_LANDMARK", "SKIP_UNTIL_PASS", "SKIP_UNTIL_AND_ACCEPT"},
         NEW out \in Seq(Lines), NEW at \in 1..(Len(r) + 1), Kept(r, 1, at, out)
  PROVE  Keeping(r, RunCommand(AsLines(r), id, c, At(out, at)))
<1>1. PICK q : q = RunCommand(AsLines(r), id, c, At(out, at)) OBVIOUS
<1>2. PICK f : f = FindLandmark(AsLines(r), at, c.arg) OBVIOUS
<1>3. FinderRan(r, id, c, out, at) BY FinderRuns
<1>4. f = 0 \/ f \in at..Len(r) BY <1>2, Found
<1>5. CASE f = 0
  <2>1. q = Failed BY <1>1, <1>2, <1>3, <1>5 DEF FinderRan
  <2> QED BY <1>1, <2>1, AtIs DEF Keeping
<1>6. ASSUME f \in at..Len(r) PROVE /\ f # 0 /\ f \in 1..Len(r) /\ f \in 1..(Len(r) + 1) /\ f + 1 \in 1..(Len(r) + 1)
                                    /\ at <= f /\ at <= f + 1 /\ f <= f
  BY <1>6
<1>7. CASE f # 0 /\ c.kind = "FIND_NEXT_LANDMARK"
  <2>1. PICK u : u = out \o SubSeq(AsLines(r), at, f - 1) OBVIOUS
  <2>2. u \in Seq(Lines) /\ Kept(r, 1, f, u) BY <1>4, <1>6, <1>7, <2>1, KeepTexts
  <2>3. PICK l : l = Control("FIND_NEXT_LANDMARK", id) OBVIOUS
  <2>4. "FIND_NEXT_LANDMARK" \in Finders \cup {"START"} BY DEF Finders
  <2>5. l \in Lines /\ l[1] # "text" /\ l[1] # "APPEND_START" BY <2>3, <2>4, ControlLine
  <2>6. PICK v : v = u \o <<l>> OBVIOUS
  <2>7. v \in Seq(Lines) /\ Kept(r, 1, f, v) BY <1>4, <1>6, <1>7, <2>2, <2>5, <2>6, KeepControl
  <2>8. PICK x : x = v \o <<Line(r[f])>> OBVIOUS
  <2>9. x \in Seq(Lines) /\ Kept(r, 1, f + 1, x) BY <1>4, <1>6, <1>7, <2>7, <2>8, KeepLine
  <2>10. q = At(x, f + 1) BY <1>1, <1>2, <1>3, <1>7, <2>1, <2>3, <2>6, <2>8 DEF FinderRan
  <2> QED BY <1>1, <1>4, <1>6, <1>7, <2>9, <2>10, Keeps
<1>8. CASE f # 0 /\ c.kind = "SKIP_UNTIL_AND_ACCEPT"
  <2>1. PICK l : l = Control("SKIP_UNTIL_AND_ACCEPT", id) OBVIOUS
  <2>2. "SKIP_UNTIL_AND_ACCEPT" \in Finders \cup {"START"} BY DEF Finders
  <2>3. l \in Lines /\ l[1] = "SKIP_UNTIL_AND_ACCEPT" BY <2>1, <2>2, ControlLine
  <2>4. PICK v : v = out \o <<l>> OBVIOUS
  <2>5. v \in Seq(Lines) /\ Kept(r, 1, f, v) BY <1>4, <1>6, <1>8, <2>3, <2>4, KeepControl
  <2>6. PICK x : x = v \o <<Line(r[f])>> OBVIOUS
  <2>7. x \in Seq(Lines) /\ Kept(r, 1, f + 1, x) BY <1>4, <1>6, <1>8, <2>5, <2>6, KeepLine
  <2>8. q = At(x, f + 1) BY <1>1, <1>2, <1>3, <1>8, <2>1, <2>4, <2>6 DEF FinderRan
  <2> QED BY <1>1, <1>4, <1>6, <1>8, <2>7, <2>8, Keeps
<1>9. CASE f # 0 /\ c.kind = "SKIP_UNTIL_PASS"
  <2>1. PICK l : l = <<"SKIP_UNTIL_PASS", id, c.arg>> OBVIOUS
  <2>2. c.arg \in Texts BY <1>9, CommandIs
  <2>3. l \in Lines /\ l[1] = "SKIP_UNTIL_PASS" BY <2>1, <2>2, ControlLine
  <2>4. PICK x : x = out \o <<l>> OBVIOUS
  <2>5. x \in Seq(Lines) /\ Kept(r, 1, f + 1, x) BY <1>4, <1>6, <1>9, <2>3, <2>4, KeepControl
  <2>6. q = At(x, f + 1) BY <1>1, <1>2, <1>3, <1>9, <2>1, <2>4 DEF FinderRan
  <2> QED BY <1>1, <1>4, <1>6, <1>9, <2>5, <2>6, Keeps
<1> QED BY <1>5, <1>7, <1>8, <1>9

\* Any command, whatever has been done before.
LEMMA CommandKeeps ==
  ASSUME NEW r \in Seq(Texts), NEW id \in Nat, NEW c \in Command, NEW p, Keeping(r, p)
  PROVE  Keeping(r, RunCommand(AsLines(r), id, c, p))
<1>1. CASE ~Ok(p) BY <1>1, FailsOn
<1>2. CASE Ok(p)
  <2>1. PICK out \in Seq(Lines), at \in 1..(Len(r) + 1) : p = At(out, at) /\ Kept(r, 1, at, out)
    BY <1>2 DEF Keeping
  <2>2. \/ c.kind = "APPEND_START" \/ c.kind = "FOLLOW_BY"
        \/ c.kind \in {"FIND_NEXT_LANDMARK", "SKIP_UNTIL_PASS", "SKIP_UNTIL_AND_ACCEPT"}
    BY CommandIs DEF Finders
  <2> QED BY <2>1, <2>2, AppendKeeps, FollowKeeps, FinderKeeps
<1> QED BY <1>1, <1>2

\* All the commands of a task.
LEMMA CommandsKeep ==
  ASSUME NEW r \in Seq(Texts), NEW id \in Nat, NEW cs \in Seq(Command), NEW p, Keeping(r, p)
  PROVE  Keeping(r, RunCommands(AsLines(r), id, cs, p))
<1> DEFINE after == Commanded(AsLines(r), id, cs, p)
           S == {k \in 0..Len(cs) : Keeping(r, after[k])}
<1>1. /\ after[0] = p
      /\ \A n \in 0..(Len(cs) - 1) : after[n + 1] = RunCommand(AsLines(r), id, cs[n + 1], after[n])
  BY CommandedStep
<1> HIDE DEF after
<1>2. Len(cs) \in Nat OBVIOUS
<1>3. 0 \in S BY <1>1, <1>2
<1>4. ASSUME NEW n \in 0..(Len(cs) - 1), n \in S PROVE n + 1 \in S
  <2>1. n + 1 \in 1..Len(cs) /\ n + 1 \in 0..Len(cs) BY <1>2
  <2>2. cs[n + 1] \in Command BY <2>1
  <2>3. Keeping(r, RunCommand(AsLines(r), id, cs[n + 1], after[n])) BY <1>4, <2>2, CommandKeeps
  <2> QED BY <1>1, <2>1, <2>3
<1> HIDE DEF S
<1>5. Len(cs) \in S
  <2>1. \A k \in 0..Len(cs) : k \in S BY <1>2, <1>3, <1>4, UpTo
  <2> QED BY <1>2, <2>1
<1> QED BY <1>5 DEF S, after, RunCommands

\* The rest of the file is kept.
LEMMA RestKeeps ==
  ASSUME NEW r \in Seq(Texts), NEW out \in Seq(Lines), NEW at \in 1..(Len(r) + 1), Kept(r, 1, at, out)
  PROVE  LET rest == out \o SubSeq(AsLines(r), at, Len(r))
         IN /\ CopyRest(AsLines(r), At(out, at)) = At(rest, Len(r) + 1)
            /\ rest \in Seq(Lines) /\ Kept(r, 1, Len(r) + 1, rest)
<1>1. /\ Len(r) + 1 \in 1..(Len(r) + 1) /\ at <= Len(r) + 1 /\ (Len(r) + 1) - 1 = Len(r) OBVIOUS
<1>2. Kept(r, 1, Len(r) + 1, out \o SubSeq(AsLines(r), at, Len(r))) BY <1>1, KeepTexts
<1> QED BY <1>2, RestCopied

\* A task.
LEMMA TaskKeeps ==
  ASSUME NEW r \in Seq(Texts), NEW t \in Task, NEW p, Keeping(r, p)
  PROVE  Keeping(r, RunTask(AsLines(r), t, p))
<1>1. CASE ~Ok(p) BY <1>1, TaskFailsOn
<1>2. CASE Ok(p)
  <2>1. PICK out \in Seq(Lines), at \in 1..(Len(r) + 1) : p = At(out, at) /\ Kept(r, 1, at, out)
    BY <1>2 DEF Keeping
  <2>2. PICK f : f = FindLandmark(AsLines(r), at, t.landmark) OBVIOUS
  <2>3. f = 0 \/ f \in at..Len(r) BY <2>2, Found
  <2>4. TaskRan(r, t, out, at) BY TaskRuns
  <2>5. t.id \in Nat /\ t.commands \in Seq(Command) BY TaskIs
  <2>6. CASE f = 0
    <3>1. RunTask(AsLines(r), t, p) = CopyRest(AsLines(r), At(out, at)) BY <2>1, <2>2, <2>4, <2>6 DEF TaskRan
    <3>2. PICK rest : rest = out \o SubSeq(AsLines(r), at, Len(r)) OBVIOUS
    <3>3. RunTask(AsLines(r), t, p) = At(rest, Len(r) + 1) /\ rest \in Seq(Lines) /\ Kept(r, 1, Len(r) + 1, rest)
      BY <2>1, <3>1, <3>2, RestKeeps
    <3>4. Len(r) + 1 \in 1..(Len(r) + 1) OBVIOUS
    <3> QED BY <3>3, <3>4, Keeps
  <2>7. CASE f \in at..Len(r)
    <3>0. /\ f # 0 /\ f \in 1..Len(r) /\ f \in 1..(Len(r) + 1) /\ f + 1 \in 1..(Len(r) + 1)
          /\ at <= f /\ f <= f
      BY <2>7
    <3>1. PICK u : u = out \o SubSeq(AsLines(r), at, f - 1) OBVIOUS
    <3>2. u \in Seq(Lines) /\ Kept(r, 1, f, u) BY <2>1, <3>0, <3>1, KeepTexts
    <3>3. PICK l, m : l = Control("START", t.id) /\ m = Line(r[f]) OBVIOUS
    <3>4. l \in Lines /\ l[1] # "text" /\ l[1] # "APPEND_START" BY <2>5, <3>3, ControlLine
    <3>5. PICK v : v = u \o <<l>> OBVIOUS
    <3>6. v \in Seq(Lines) /\ Kept(r, 1, f, v) BY <3>0, <3>2, <3>4, <3>5, KeepControl
    <3>7. PICK x : x = v \o <<m>> OBVIOUS
    <3>8. x \in Seq(Lines) /\ Kept(r, 1, f + 1, x) BY <3>0, <3>3, <3>6, <3>7, KeepLine
    <3>9. x = u \o <<l, m>>
      <4>1. PICK a, b : a = <<l>> /\ b = <<m>> OBVIOUS
      <4>2. a \in Seq(Lines) /\ b \in Seq(Lines)
        <5>1. m \in Lines BY <3>0, <3>3, LinesAre
        <5> QED BY <3>4, <4>1, <5>1, OneLine
      <4>3. Associates(u, a, b) BY <3>2, <4>2, LinesAssociate
      <4>4. a \o b = <<l, m>> BY <4>1, OneAndOne
      <4> QED BY <3>5, <3>7, <4>1, <4>3, <4>4 DEF Associates
    <3>10. RunTask(AsLines(r), t, p) = RunCommands(AsLines(r), t.id, t.commands, At(x, f + 1))
      BY <2>1, <2>2, <2>4, <3>0, <3>1, <3>3, <3>9 DEF TaskRan
    <3>11. Keeping(r, At(x, f + 1)) BY <3>0, <3>8, Keeps
    <3> QED BY <2>5, <3>10, <3>11, CommandsKeep
  <2> QED BY <2>3, <2>6, <2>7
<1> QED BY <1>1, <1>2

\* All the tasks of a patch.
LEMMA TasksKeep ==
  ASSUME NEW r \in Seq(Texts), NEW ts \in Seq(Task)
  PROVE  Keeping(r, RunTasks(AsLines(r), ts, Start))
<1> DEFINE after == Patched(AsLines(r), ts, Start)
           S == {k \in 0..Len(ts) : Keeping(r, after[k])}
<1>1. /\ after[0] = Start
      /\ \A n \in 0..(Len(ts) - 1) : after[n + 1] = RunTask(AsLines(r), ts[n + 1], after[n])
  BY PatchedStep
<1> HIDE DEF after
<1>2. Len(ts) \in Nat OBVIOUS
<1>3. Keeping(r, Start)
  <2>1. Original[1] # "text" /\ Original[1] # "APPEND_START" BY DEF Original
  <2>2. PICK o : o = Original OBVIOUS
  <2>3. Kept(r, 1, 1, <<o>>) BY <2>1, <2>2, KeptControl
  <2>4. <<o>> \in Seq(Lines) BY <2>2, LinesAre, OneLine
  <2>5. 1 \in 1..(Len(r) + 1) OBVIOUS
  <2> QED BY <2>2, <2>3, <2>4, <2>5, Keeps DEF Start
<1>4. 0 \in S BY <1>1, <1>2, <1>3
<1>5. ASSUME NEW n \in 0..(Len(ts) - 1), n \in S PROVE n + 1 \in S
  <2>1. n + 1 \in 1..Len(ts) /\ n + 1 \in 0..Len(ts) BY <1>2
  <2>2. ts[n + 1] \in Task BY <2>1
  <2>3. Keeping(r, RunTask(AsLines(r), ts[n + 1], after[n])) BY <1>5, <2>2, TaskKeeps
  <2> QED BY <1>1, <2>1, <2>3
<1> HIDE DEF S
<1>6. Len(ts) \in S
  <2>1. \A k \in 0..Len(ts) : k \in S BY <1>2, <1>4, <1>5, UpTo
  <2> QED BY <1>2, <2>1
<1> QED BY <1>6 DEF S, after, RunTasks

\* The file that they make.
LEMMA PatchKeeps ==
  ASSUME NEW r \in Seq(Texts), NEW ts \in Seq(Task), Ok(PatchContent(AsLines(r), ts))
  PROVE  Kept(r, 1, Len(r) + 1, PatchContent(AsLines(r), ts).out)
<1>1. PICK p : p = RunTasks(AsLines(r), ts, Start) OBVIOUS
<1>2. PatchContent(AsLines(r), ts) = IF Ok(p) THEN CopyRest(AsLines(r), p) ELSE p
  BY <1>1 DEF PatchContent, Start
<1>3. Ok(p) BY <1>2
<1>4. PICK out \in Seq(Lines), at \in 1..(Len(r) + 1) : p = At(out, at) /\ Kept(r, 1, at, out)
  BY <1>1, <1>3, TasksKeep DEF Keeping
<1>5. PICK rest : rest = out \o SubSeq(AsLines(r), at, Len(r)) OBVIOUS
<1>6. PatchContent(AsLines(r), ts) = At(rest, Len(r) + 1) /\ Kept(r, 1, Len(r) + 1, rest)
  BY <1>2, <1>3, <1>4, <1>5, RestKeeps
<1> QED BY <1>6, AtIs

-----------------------------------------------------------------------------
(* The tool. *)

\* The patch folder holds a patch as it was saved.
PatchSaved ==
  LET p == Build(Nothing, saved).tasks
  IN p \in Seq(Task) /\ saved = SavePatchFile(p)

\* The file is as released or patched with the saved patch, which, if it was built from this
\* file, is one that makes the same of it.
FileKnown ==
  LET patch == BuildPatchFile(saved)
      patched == PatchContent(AsLines(release), patch)
  IN file = AsLines(release) \/ (patch # <<>> /\ Ok(patched) /\ file = patched.out)

IInv == release \in Releases /\ PatchSaved /\ FileKnown /\ Regenerates /\ PatchCarried

\* What is loaded is a patch.
LEMMA Loaded ==
  ASSUME NEW p \in Seq(Task)
  PROVE  /\ Build(Nothing, SavePatchFile(p)).tasks = p
         /\ BuildPatchFile(SavePatchFile(p)) =
              IF p # <<>> /\ Last(p).commands # <<>> THEN p ELSE <<>>
<1>1. Build(Nothing, SavePatchFile(p)) = Reading(p) BY ReadPatch
<1>2. Reading(p).tasks = p BY DEF Reading
<1> QED BY <1>1, <1>2 DEF BuildPatchFile

\* So it is in every state.
LEMMA LoadedIsPatch ==
  ASSUME PatchSaved
  PROVE  BuildPatchFile(saved) \in Seq(Task)
<1> DEFINE p == Build(Nothing, saved).tasks
<1>1. p \in Seq(Task) /\ saved = SavePatchFile(p) BY DEF PatchSaved
<1> HIDE DEF p
<1>2. BuildPatchFile(saved) = IF p # <<>> /\ Last(p).commands # <<>> THEN p ELSE <<>> BY <1>1, Loaded
<1> QED BY <1>1, <1>2

\* A released file has no patch to build, and has a first line, which is its own.
LEMMA ReleasedFile ==
  ASSUME NEW r \in Seq(Texts)
  PROVE  BuildPatchFile(AsLines(r)) = <<>>
<1>1. AsLines(r) \in Seq(Lines) /\ \A i \in 1..Len(AsLines(r)) : IsText(AsLines(r)[i]) BY ReleaseLines
<1>2. Build(Nothing, AsLines(r)) = Nothing BY <1>1, ReadTexts DEF Nothing
<1>3. Nothing.tasks = <<>> BY DEF Nothing, Reading
<1> QED BY <1>2, <1>3 DEF BuildPatchFile

\* The tool starts with a released file and saved patches.
LEMMA InitKnown ==
  Init => IInv
<1> SUFFICES ASSUME Init PROVE IInv OBVIOUS
<1>1. PICK p \in Patches : saved = SavePatchFile(p) BY DEF Init
<1>2. p \in Seq(Task) BY PatcherAssumption
<1>3. PatchSaved BY <1>1, <1>2, Loaded DEF PatchSaved
<1>4. release \in Releases /\ file = AsLines(release) /\ built = {} BY DEF Init
<1> QED BY <1>3, <1>4 DEF IInv, FileKnown, Regenerates, PatchCarried

\* LoadAndApply patches a file as released: the file that it finds patched it leaves alone.
LEMMA LoadKnown ==
  ASSUME IInv, LoadAndApply
  PROVE  IInv'
<1> DEFINE patch == BuildPatchFile(saved)
<1>1. /\ patch # <<>> /\ ~WasPatched(file) /\ Ok(PatchContent(file, patch))
      /\ file' = PatchContent(file, patch).out
      /\ release' = release /\ saved' = saved /\ built' = built
  BY DEF LoadAndApply
<1>2. patch \in Seq(Task) /\ release \in Seq(Texts)
  BY LoadedIsPatch, PatcherAssumption DEF IInv
<1>3. file = AsLines(release)
  <2> SUFFICES ASSUME Ok(PatchContent(AsLines(release), patch)), file = PatchContent(AsLines(release), patch).out
               PROVE  FALSE
    BY DEF IInv, FileKnown
  <2> HIDE DEF patch
  <2>1. file \in Seq(Lines) /\ Opens(file) BY <1>2, PatchIsCarried
  <2>2. Head(file) = Original BY <2>1 DEF Opens
  <2>3. WasPatched(file) BY <2>2 DEF WasPatched, Original
  <2> QED BY <1>1, <2>3
<1>4. PatchSaved' /\ (release \in Releases)' BY <1>1 DEF IInv, PatchSaved
<1>5. FileKnown' BY <1>1, <1>3 DEF FileKnown
<1>6. Regenerates' /\ PatchCarried' BY <1>1 DEF IInv, Regenerates, PatchCarried
<1> QED BY <1>4, <1>5, <1>6 DEF IInv

\* MakePatch builds, from a file that was patched, the patch it was patched with.
LEMMA MakeKnown ==
  ASSUME IInv, MakePatch
  PROVE  IInv'
<1> DEFINE patch == BuildPatchFile(file)
           old == BuildPatchFile(saved)
           patched == PatchContent(AsLines(release), old)
           b == [release |-> release, file |-> file, by |-> saved]
<1>1. /\ patch # <<>> /\ saved' = SavePatchFile(patch) /\ built' = {b}
      /\ release' = release /\ file' = file
  BY DEF MakePatch
<1>2. old \in Seq(Task) /\ release \in Seq(Texts)
  BY LoadedIsPatch, PatcherAssumption DEF IInv
<1>3. Ok(patched) /\ file = patched.out
  <2>1. file # AsLines(release) BY <1>1, <1>2, ReleasedFile
  <2> QED BY <2>1 DEF IInv, FileKnown
<1>4. PICK us \in Seq(Task) :
        /\ Build(Nothing, patched.out) = Reading(us)
        /\ PatchContent(AsLines(release), us) = patched
        /\ Len(us) <= Len(old) /\ \A i \in 1..Len(us) : SameTask(old[i], us[i])
  <2> HIDE DEF old
  <2> QED BY <1>2, <1>3, PatchIsCarried
<1>5. Build(Nothing, file).tasks = us
  <2>1. Reading(us).tasks = us BY DEF Reading
  <2> QED BY <1>3, <1>4, <2>1
<1>6. us # <<>> /\ Last(us).commands # <<>> /\ patch = us BY <1>1, <1>5 DEF BuildPatchFile
<1>7. BuildPatchFile(saved') = us /\ Build(Nothing, saved').tasks = us
  <2> HIDE DEF patch
  <2> QED BY <1>1, <1>6, Loaded
<1>8. PatchSaved' BY <1>1, <1>6, <1>7 DEF PatchSaved
<1>9. FileKnown'
  <2> HIDE DEF patched, patch, old
  <2> QED BY <1>1, <1>3, <1>4, <1>6, <1>7 DEF FileKnown
<1>10. \A c \in built' : c.release = release /\ c.file = file /\ c.by = saved BY <1>1
<1>11. Regenerates'
  <2> HIDE DEF patched, patch, old, b
  <2> QED BY <1>3, <1>4, <1>6, <1>7, <1>10 DEF Regenerates
<1>12. PatchCarried'
  <2>1. DOMAIN us = 1..Len(us) OBVIOUS
  <2> SUFFICES ASSUME NEW c \in built'
               PROVE  LET new == BuildPatchFile(saved')
                      IN Len(new) <= Len(BuildPatchFile(c.by)) /\ \A i \in DOMAIN new : SameTask(BuildPatchFile(c.by)[i], new[i])
    BY DEF PatchCarried
  <2>2. BuildPatchFile(c.by) = old BY <1>10
  <2> HIDE DEF patched, patch, old, b
  <2> QED BY <1>4, <1>7, <2>1, <2>2
<1>13. (release \in Releases)' BY <1>1 DEF IInv
<1> QED BY <1>8, <1>9, <1>11, <1>12, <1>13 DEF IInv

\* Nothing that a step does makes the invariant false.
LEMMA StepKnown ==
  IInv /\ [Next]_vars => IInv'
<1> SUFFICES ASSUME IInv, [Next]_vars PROVE IInv' OBVIOUS
<1>1. CASE LoadAndApply BY <1>1, LoadKnown
<1>2. CASE MakePatch BY <1>2, MakeKnown
<1>3. ASSUME NEW r \in Releases, NewRelease(r) PROVE IInv'
  BY <1>3 DEF IInv, PatchSaved, FileKnown, Regenerates, PatchCarried, NewRelease
<1>4. CASE UNCHANGED vars
  BY <1>4 DEF IInv, PatchSaved, FileKnown, Regenerates, PatchCarried, vars
<1> QED BY <1>1, <1>2, <1>3, <1>4 DEF Next

\* What the tool knows of its files, always.
LEMMA AlwaysKnown ==
  Spec => []IInv
BY InitKnown, StepKnown, PTL DEF Spec

\* A patch built from a patched file patches its release into the same file.
THEOREM PatchRegenerates ==
  Spec => []Regenerates
<1>1. IInv => Regenerates BY DEF IInv
<1> QED BY <1>1, AlwaysKnown, PTL

\* A patch keeps its tasks and its commands from release to release.
THEOREM PatchStaysItself ==
  Spec => []PatchCarried
<1>1. IInv => PatchCarried BY DEF IInv
<1> QED BY <1>1, AlwaysKnown, PTL

\* What is kept of a whole release.
LEMMA AllKept ==
  ASSUME release \in Seq(Texts), Kept(release, 1, Len(release) + 1, file)
  PROVE  SourceKept
<1>1. PICK place : Holds(release, 1, Len(release) + 1, file, place) BY DEF Kept
<1>2. DOMAIN release = 1..((Len(release) + 1) - 1) OBVIOUS
<1> QED BY <1>1, <1>2 DEF Holds, SourceKept

\* Patching only adds to a file, and takes away only what it is told to skip.
THEOREM SourceIsKept ==
  Spec => []SourceKept
<1>1. ASSUME IInv PROVE SourceKept
  <2>1. release \in Seq(Texts) BY <1>1, PatcherAssumption DEF IInv
  <2>2. CASE file = AsLines(release)
    <3>1. PICK input : input = AsLines(release) OBVIOUS
    <3>2. input \in Seq(Lines) /\ Len(input) = Len(release) /\ Len(release) \in Nat BY <2>1, <3>1, ReleaseLines
    <3>3. SubSeq(input, 1, Len(release)) = input BY <3>2
    <3>4. 1 \in 1..(Len(release) + 1) /\ Len(release) + 1 \in 1..(Len(release) + 1) /\ 1 <= Len(release) + 1
          /\ (Len(release) + 1) - 1 = Len(release)
      BY <3>2
    <3>5. Kept(release, 1, Len(release) + 1, SubSeq(input, 1, Len(release))) BY <2>1, <3>1, <3>4, KeptTexts
    <3> QED BY <2>1, <2>2, <3>1, <3>3, <3>5, AllKept
  <2>3. ASSUME Ok(PatchContent(AsLines(release), BuildPatchFile(saved))),
               file = PatchContent(AsLines(release), BuildPatchFile(saved)).out
        PROVE  SourceKept
    <3>1. PICK patch \in Seq(Task) : patch = BuildPatchFile(saved) BY <1>1, LoadedIsPatch DEF IInv
    <3>2. Kept(release, 1, Len(release) + 1, file) BY <2>1, <2>3, <3>1, PatchKeeps
    <3> QED BY <2>1, <3>2, AllKept
  <2> QED BY <1>1, <2>2, <2>3 DEF IInv, FileKnown
<1>2. IInv => SourceKept BY <1>1
<1> QED BY <1>2, AlwaysKnown, PTL
=============================================================================
