------------------------------- MODULE Lines -------------------------------
(***************************************************************************)
(* The lines of a text, and what the motions and the searches of deco-core *)
(* (movement.rs, search.rs) find in it.  A position of the code is a line  *)
(* and a column; a clamped one is an offset into the text, and At is what  *)
(* Buffer::clamp_position makes of any.                                    *)
(*                                                                         *)
(* Characters are blanks, line breaks, the delimiters below and letters,   *)
(* each of one column.                                                     *)
(***************************************************************************)
EXTENDS Buffer

Newline == "\n"
Blank   == " "

Pairs     == {<<"(", ")">>}   \* bracket_pairs
LineToken == "#"              \* line_comment_token
OpenToken  == "<"             \* block_comment_tokens
CloseToken == ">"

Separators == {"(", ")", LineToken, OpenToken, CloseToken}

Blanks(n) == [i \in 1 .. n |-> Blank]

LineOf(t, at) == Cardinality({i \in 1 .. at : t[i] = Newline})

LineCount(t) == 1 + LineOf(t, Len(t))

StartOf(t, line) ==
  IF line = 0 THEN 0
  ELSE CHOOSE i \in DOMAIN t : t[i] = Newline /\ LineOf(t, i) = line

EndOf(t, line) ==
  IF line + 1 = LineCount(t) THEN Len(t) ELSE StartOf(t, line + 1) - 1

LineText(t, line) ==
  IF line < LineCount(t) THEN SubSeq(t, StartOf(t, line) + 1, EndOf(t, line)) ELSE <<>>

Column(t, at) == at - StartOf(t, LineOf(t, at))

At(t, line, column) ==
  IF line >= LineCount(t) THEN Len(t)
  ELSE Smaller(StartOf(t, line) + column, EndOf(t, line))

-----------------------------------------------------------------------------
(* Runs of characters, within a line *)

Kind(c) == IF c = Blank THEN "blank" ELSE IF c \in Separators THEN "separator" ELSE "word"

\* Where the characters of a kind that end at `from`, or start at it, begin
\* and end.
RunStart(t, floor, from, kind) ==
  CHOOSE s \in floor .. from :
    /\ \A i \in s + 1 .. from : Kind(t[i]) = kind
    /\ s = floor \/ Kind(t[s]) # kind

RunEnd(t, from, ceiling, kind) ==
  CHOOSE e \in from .. ceiling :
    /\ \A i \in from + 1 .. e : Kind(t[i]) = kind
    /\ e = ceiling \/ Kind(t[e + 1]) # kind

\* The offset of the first character of a line that is not blank.
Indented(t, line) == RunEnd(t, StartOf(t, line), EndOf(t, line), "blank")

Indentation(t, line) == Indented(t, line) - StartOf(t, line)

IsBlank(t, line) == Indented(t, line) = EndOf(t, line)

\* A caret in column 0 starts from the end of the line before.
WordStartLeft(t, at) ==
  LET from  == IF Column(t, at) = 0 THEN Larger(at - 1, 0) ELSE at
      floor == StartOf(t, LineOf(t, from))
      solid == RunStart(t, floor, from, "blank")
  IN  IF solid = floor THEN floor ELSE RunStart(t, floor, solid, Kind(t[solid]))

WordEndRight(t, at) ==
  LET from    == IF at = EndOf(t, LineOf(t, at)) THEN Smaller(at + 1, Len(t)) ELSE at
      ceiling == EndOf(t, LineOf(t, from))
      solid   == RunEnd(t, from, ceiling, "blank")
  IN  IF solid = ceiling THEN ceiling ELSE RunEnd(t, solid, ceiling, Kind(t[solid + 1]))

SmartHome(t, at) ==
  LET line == LineOf(t, at)
  IN  IF at = Indented(t, line) THEN StartOf(t, line) ELSE Indented(t, line)

LineEnd(t, at) == EndOf(t, LineOf(t, at))

\* The characters beside a caret, none across a line break.
After(t, at) == IF at = LineEnd(t, at) THEN {} ELSE {t[at + 1]}
Behind(t, at) == IF Column(t, at) = 0 THEN {} ELSE {t[at]}

\* The word a caret is in, or else just behind.
WordAt(t, at) ==
  LET floor   == StartOf(t, LineOf(t, at))
      ceiling == LineEnd(t, at)
  IN  IF \E c \in After(t, at) \cup Behind(t, at) : Kind(c) = "word"
      THEN {[start |-> RunStart(t, floor, at, "word"), end |-> RunEnd(t, at, ceiling, "word")]}
      ELSE {}

\* The places where `needle` is found, none of which overlap: found[i] are
\* those that begin in the first i places.
FindAll(t, needle) ==
  LET n == Len(needle)
      found[i \in 0 .. Len(t)] ==
        IF i = 0 THEN <<>>
        ELSE IF /\ i - 1 + n <= Len(t)
                /\ SubSeq(t, i, i - 1 + n) = needle
                /\ found[i - 1] # <<>> => Last(found[i - 1]).end < i
        THEN Append(found[i - 1], [start |-> i - 1, end |-> i - 1 + n])
        ELSE found[i - 1]
  IN  found[Len(t)]

\* Without the blanks and line breaks at both ends.
Trimmed(s) ==
  LET solid == {i \in DOMAIN s : s[i] \notin {Blank, Newline}}
  IN  IF solid = {} THEN <<>> ELSE SubSeq(s, Min(solid), Max(solid))
=============================================================================
