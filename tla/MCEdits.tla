------------------------------ MODULE MCEdits ------------------------------
(***************************************************************************)
(* An instance of Edits: an empty text, an indented line, and a commented  *)
(* line above one that is not; a server's edits of one or two places, in   *)
(* any order, also past the end.                                           *)
(***************************************************************************)
EXTENDS Edits

MCCharacters == {Newline, Blank, "a", "c", "d"} \cup Separators

MCTexts == {<<>>, <<Blank, "a">>, <<LineToken, Newline, "a">>}

MCInsertions == {<<"(">>, <<")">>, <<Newline>>}

Changes(last, ins) ==
  {c \in {Change(s, e, new) : s \in 0 .. last, e \in 0 .. last, new \in {<<>>, ins}} :
     c.start <= c.end /\ ~Noop(c)}

MCBatches ==
  LET Second(c) == {<<c, d>> : d \in Changes(1, <<"d">>)}
  IN  {<<c>> : c \in Changes(1, <<"c">>)}
        \cup Second(Change(1, 1, <<"c">>)) \cup Second(Change(0, 1, <<>>))
=============================================================================
