---------------------------- MODULE MCSourcePatcher ----------------------------
(* A small instance of SourcePatcher: the text ab starts with the text a. *)
EXTENDS SourcePatcher
CONSTANTS a, ab, b
ThreeTexts == {a, ab, b}
TextsBegin == {<<t, t>> : t \in ThreeTexts} \cup {<<a, ab>>}
ShortReleases ==
  {<<ab, b>>, <<b, a, b>>, <<ab, a, b>>, <<a, ab, b>>, <<b, b, ab>>, <<a, b, ab, b>>}
Commands ==
  [kind : Finders \cup {"SKIP_UNTIL_PASS"}, arg : {a, b}]
    \cup [kind : {"APPEND_START"}, arg : {<<ab, b>>}]
Tasks(id, most) ==
  [id : {id}, landmark : {a, b}, commands : UNION {[1..n -> Commands] : n \in 0..most}]
SmallPatches ==
  {<<t>> : t \in Tasks(0, 2)} \cup {<<t, u>> : t \in Tasks(0, 2), u \in Tasks(1, 1)}
    \cup {<<t, u, v>> : t \in Tasks(0, 0), u \in Tasks(1, 1), v \in Tasks(2, 1)}
=============================================================================
