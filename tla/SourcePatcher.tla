--------------------------- MODULE SourcePatcher ---------------------------
(***************************************************************************)
(* The tool that keeps the bridge's changes to CEF's sources as patches. A *)
(* patch is a list of tasks; each finds a landmark in the file and, from   *)
(* there on, runs commands. A patched file carries a control line for each *)
(* of them, from which the patch is built again, to be applied to the next *)
(* release of the file.                                                    *)
(*   src/NativePatcher/BridgeBuilder/Patcher/Patchs.cs                     *)
(*   src/NativePatcher/BridgeBuilder/Patcher/PatchBuilder.cs               *)
(*   src/NativePatcher/BridgeBuilder/Form1.cs                              *)
(***************************************************************************)
EXTENDS Naturals, SequencesExt

CONSTANTS
  Texts,         \* what a line says, white space at its ends aside
  Beginnings,    \* <<l, t>>: the text t starts with l
  Releases,      \* what a new release of the file may contain: sequences of texts
  Patches        \* the patches there are at first

\* Commands whose argument is a landmark, which in a patched file is the line found.
Finders == {"FIND_NEXT_LANDMARK", "FOLLOW_BY", "SKIP_UNTIL_AND_ACCEPT"}

Command ==
  [kind : Finders \cup {"SKIP_UNTIL_PASS"}, arg : Texts] \cup [kind : {"APPEND_START"}, arg : Seq(Texts)]
Task == [id : Nat, landmark : Texts, commands : Seq(Command)]

ASSUME PatcherAssumption ==
  /\ Beginnings \subseteq Texts \X Texts
  /\ \A t \in Texts : <<t, t>> \in Beginnings
  /\ \A a, b, c \in Texts :
       <<a, b>> \in Beginnings /\ <<b, c>> \in Beginnings => <<a, c>> \in Beginnings
  /\ \A r \in Releases : r \in Seq(Texts) /\ r # <<>>
  /\ \A p \in Patches : p \in Seq(Task)

VARIABLES
  release,  \* the file as released
  file,     \* the file in the source folder: a sequence of lines
  saved,    \* its patch in the patch folder: a sequence of lines
  built     \* history: the release, the patched file and the patch it was patched with,
            \* from which the saved patch was built, if it was

vars == <<release, file, saved, built>>

\* A line is a text or a control line.
Line(text) == <<"text", text>>
Control(word, id) == <<word, id>>
Original == <<"ORIGINAL">>
AppendStop == <<"APPEND_STOP">>
IsText(line) == line[1] = "text"
AsLines(texts) == [i \in DOMAIN texts |-> Line(texts[i])]
StartsWith(line, landmark) == IsText(line) /\ <<landmark, line[2]>> \in Beginnings
-----------------------------------------------------------------------------
(* Writing patches. *)

\* Mutant: the appended lines, as the other values, are written on request only.
WriteCommandBare(id, cmd, withValue) ==
  CASE cmd.kind = "APPEND_START" ->
         <<Control("APPEND_START", id)>> \o (IF withValue THEN AsLines(cmd.arg) ELSE <<>>) \o <<AppendStop>>
    [] cmd.kind = "SKIP_UNTIL_PASS" -> <<<<"SKIP_UNTIL_PASS", id, cmd.arg>>>>
    [] OTHER -> <<Control(cmd.kind, id)>> \o (IF withValue THEN <<Line(cmd.arg)>> ELSE <<>>)

WriteCommand(id, cmd, withValue) ==
  CASE cmd.kind = "APPEND_START" -> <<Control("APPEND_START", id)>> \o AsLines(cmd.arg) \o <<AppendStop>>
    [] cmd.kind = "SKIP_UNTIL_PASS" -> <<<<"SKIP_UNTIL_PASS", id, cmd.arg>>>>
    [] OTHER -> <<Control(cmd.kind, id)>> \o (IF withValue THEN <<Line(cmd.arg)>> ELSE <<>>)

SaveTask(task) ==
  <<Control("START", task.id), Line(task.landmark)>>
    \o FlattenSeq([i \in DOMAIN task.commands |-> WriteCommand(task.id, task.commands[i], TRUE)])

SavePatchFile(patch) == <<Original>> \o FlattenSeq([i \in DOMAIN patch |-> SaveTask(patch[i])])
-----------------------------------------------------------------------------
(* Building a patch from a patched file or from a saved patch. *)

\* The state of BuildPatchFile: the tasks so far, the control line whose value is awaited
\* and, for APPEND_START, the value so far.
NoLine == Control("NOTHING", 0)
Reading(tasks) == [tasks |-> tasks, awaits |-> NoLine, block |-> <<>>]
Nothing == Reading(<<>>)

\* The last task has one more command.
AddCommand(tasks, kind, arg) ==
  Reading([tasks EXCEPT ![Len(tasks)].commands = Append(@, [kind |-> kind, arg |-> arg])])
AddTask(tasks, id, landmark) ==
  Reading(Append(tasks, [id |-> id, landmark |-> landmark, commands |-> <<>>]))

BuildLine(b, line) ==
  LET word == line[1]
      awaited == b.awaits[1]
  IN CASE awaited = "NOTHING" /\ word \in {"START", "APPEND_START"} \cup Finders -> [b EXCEPT !.awaits = line]
       [] awaited = "NOTHING" /\ word = "SKIP_UNTIL_PASS" -> AddCommand(b.tasks, word, line[3])
       [] awaited = "NOTHING" /\ word \in {"text", "ORIGINAL"} -> b
       [] awaited = "START" -> AddTask(b.tasks, b.awaits[2], line[2])
       [] awaited \in Finders -> AddCommand(b.tasks, awaited, line[2])
       [] awaited = "APPEND_START" /\ word # "APPEND_STOP" -> [b EXCEPT !.block = Append(@, line[2])]
       [] OTHER -> AddCommand(b.tasks, "APPEND_START", b.block)

\* The states after each of the lines, from b on.
Builds(b, lines) ==
  LET builds[n \in 0..Len(lines)] == IF n = 0 THEN b ELSE BuildLine(builds[n - 1], lines[n])
  IN builds
Build(b, lines) == Builds(b, lines)[Len(lines)]

\* The tasks read, none when the last has no command.
BuildPatchFile(lines) ==
  LET tasks == Build(Nothing, lines).tasks
  IN IF tasks # <<>> /\ Last(tasks).commands # <<>> THEN tasks ELSE <<>>
-----------------------------------------------------------------------------
(* Patching. *)

\* The position of the first line from CurrentLine on that starts with the landmark.
FindLandmark(input, at, landmark) ==
  SelectInSubSeq(input, at, Len(input), LAMBDA l : StartsWith(l, landmark))

\* How far a patching has come: what is written and CurrentLine; it goes nowhere once a
\* command has thrown its exception.
At(out, at) == [out |-> out, at |-> at]
Failed == At(<<>>, 0)
Ok(p) == p.at # 0

\* Mutant: the line that must follow is not counted as read.
FollowByUnread(input, id, cmd, p) ==
  IF p.at <= Len(input) /\ StartsWith(input[p.at], cmd.arg)
  THEN At(p.out \o WriteCommand(id, cmd, FALSE) \o <<input[p.at]>>, p.at)
  ELSE Failed

FollowBy(input, id, cmd, p) ==
  IF p.at <= Len(input) /\ StartsWith(input[p.at], cmd.arg)
  THEN At(p.out \o WriteCommand(id, cmd, FALSE) \o <<input[p.at]>>, p.at + 1)
  ELSE Failed

\* Mutant: the control line comes after the line found.
RunFinderSwapped(input, id, cmd, p) ==
  LET found == FindLandmark(input, p.at, cmd.arg)
      kept == IF cmd.kind = "FIND_NEXT_LANDMARK" THEN SubSeq(input, p.at, found - 1) ELSE <<>>
      accepted == IF cmd.kind = "SKIP_UNTIL_PASS" THEN <<>> ELSE <<input[found]>>
  IN IF found = 0
     THEN Failed
     ELSE At(p.out \o kept \o accepted \o WriteCommand(id, cmd, FALSE), found + 1)

\* FindNextLandMark, SkipUntilPass and SkipUntilAndAccept: what precedes the line found is
\* kept by the first, the line itself by the first and the last.
RunFinder(input, id, cmd, p) ==
  LET found == FindLandmark(input, p.at, cmd.arg)
      kept == IF cmd.kind = "FIND_NEXT_LANDMARK" THEN SubSeq(input, p.at, found - 1) ELSE <<>>
      accepted == IF cmd.kind = "SKIP_UNTIL_PASS" THEN <<>> ELSE <<input[found]>>
  IN IF found = 0
     THEN Failed
     ELSE At(p.out \o kept \o WriteCommand(id, cmd, FALSE) \o accepted, found + 1)

\* One command of the task with this id; p is how far the patching has come.
RunCommand(input, id, cmd, p) ==
  CASE ~Ok(p) -> p
    [] Ok(p) /\ cmd.kind = "APPEND_START" -> At(p.out \o WriteCommand(id, cmd, FALSE), p.at)
    [] Ok(p) /\ cmd.kind = "FOLLOW_BY" -> FollowBy(input, id, cmd, p)
    [] OTHER -> RunFinder(input, id, cmd, p)

\* The progress after each of the commands.
Commanded(input, id, commands, p) ==
  LET after[n \in 0..Len(commands)] ==
        IF n = 0 THEN p ELSE RunCommand(input, id, commands[n], after[n - 1])
  IN after
RunCommands(input, id, commands, p) == Commanded(input, id, commands, p)[Len(commands)]

CopyRest(input, p) == At(p.out \o SubSeq(input, p.at, Len(input)), Len(input) + 1)

\* PatchTask.PatchFile. A task whose landmark is not found is passed over, with the rest of
\* the file.
RunTask(input, task, p) ==
  LET found == FindLandmark(input, p.at, task.landmark)
      started == At(p.out \o SubSeq(input, p.at, found - 1) \o <<Control("START", task.id), input[found]>>,
                    found + 1)
  IN CASE ~Ok(p) -> p
       [] Ok(p) /\ found = 0 -> CopyRest(input, p)
       [] OTHER -> RunCommands(input, task.id, task.commands, started)

\* The progress after each of the tasks.
Patched(input, patch, p) ==
  LET after[n \in 0..Len(patch)] == IF n = 0 THEN p ELSE RunTask(input, patch[n], after[n - 1])
  IN after
RunTasks(input, patch, p) == Patched(input, patch, p)[Len(patch)]

\* PatchContent of a file that is not patched yet, up to the exception if there is one.
PatchContent(input, patch) ==
  LET p == RunTasks(input, patch, At(<<Original>>, 1))
  IN IF Ok(p) THEN CopyRest(input, p) ELSE p

\* CheckIfFileWasPatched.
WasPatched(lines) == Head(lines)[1] = "ORIGINAL"
-----------------------------------------------------------------------------
(* The tool. *)

\* LoadPatchesFromFolder and PatchContent; a patch that fails leaves the file alone.
LoadAndApply ==
  LET patch == BuildPatchFile(saved)
  IN /\ patch # <<>>
     /\ ~WasPatched(file) /\ Ok(PatchContent(file, patch))
     /\ file' = PatchContent(file, patch).out
     /\ UNCHANGED <<release, saved, built>>

\* MakePatch and Save: a file from which no patch is built keeps the patch it has.
MakePatch ==
  LET patch == BuildPatchFile(file)
  IN /\ patch # <<>>
     /\ saved' = SavePatchFile(patch)
     /\ built' = {[release |-> release, file |-> file, by |-> saved]}
     /\ UNCHANGED <<release, file>>

\* A new release of CEF's sources replaces the source folder.
NewRelease(r) ==
  /\ release' = r /\ file' = AsLines(r)
  /\ UNCHANGED <<saved, built>>

Init ==
  /\ release \in Releases /\ file = AsLines(release)
  /\ \E p \in Patches : saved = SavePatchFile(p)
  /\ built = {}

Next == LoadAndApply \/ MakePatch \/ \E r \in Releases : NewRelease(r)

Spec == Init /\ [][Next]_vars
-----------------------------------------------------------------------------
\* Line i is in a block that the patch has put there, ...
InBlock(lines, i) ==
  \E j \in 1..(i - 1) :
    lines[j][1] = "APPEND_START" /\ \A k \in j..(i - 1) : lines[k][1] # "APPEND_STOP"
\* ... and the lines that it has not put there.
Own(lines) == {i \in DOMAIN lines : IsText(lines[i]) /\ ~InBlock(lines, i)}

Skips(lines) == \E l \in ToSet(lines) : l[1] \in {"SKIP_UNTIL_PASS", "SKIP_UNTIL_AND_ACCEPT"}

\* Patching only adds to the file, in order, and takes away only what a command of the patch
\* skips, whichever landmarks are found; and a patch that fails has done nothing.
SourceKept ==
  \E place \in [Own(file) -> DOMAIN release] :
    /\ \A i, j \in Own(file) : i < j => place[i] < place[j]
    /\ \A i \in Own(file) : file[i][2] = release[place[i]]
    /\ ~Skips(file) => \A k \in DOMAIN release : \E i \in Own(file) : place[i] = k

\* A patch that is built from a patched file, saved and loaded, patches the release it was
\* made for into that same file, though its landmarks have become the whole lines found.
Regenerates ==
  \A b \in built :
    LET patch == BuildPatchFile(saved)
        patched == PatchContent(AsLines(b.release), patch)
    IN patch # <<>> /\ Ok(patched) /\ patched.out = b.file

\* The landmark l2 is l1 or more of the same line.
Narrows(l1, l2) == <<l1, l2>> \in Beginnings

\* The command d is c, with a landmark that may say more.
SameCommand(c, d) ==
  /\ c.kind = d.kind
  /\ IF c.kind \in Finders THEN Narrows(c.arg, d.arg) ELSE c.arg = d.arg
SameTask(t, u) ==
  /\ t.id = u.id /\ Narrows(t.landmark, u.landmark)
  /\ Len(t.commands) = Len(u.commands)
  /\ \A j \in DOMAIN t.commands : SameCommand(t.commands[j], u.commands[j])

\* The patch that is built has the tasks and the commands of the one that was applied, up to
\* a task whose landmark the release does not have, with landmarks that only say more: the
\* developer's patch goes from release to release unchanged.
PatchCarried ==
  \A b \in built :
    LET old == BuildPatchFile(b.by)
        new == BuildPatchFile(saved)
    IN Len(new) <= Len(old) /\ \A i \in DOMAIN new : SameTask(old[i], new[i])
=============================================================================
