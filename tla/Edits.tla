------------------------------- MODULE Edits -------------------------------
(***************************************************************************)
(* The commands of a document with several cursors (deco-editor's          *)
(* commands.rs): what is typed at every cursor at once, with the brackets  *)
(* that close themselves and the indentation of a new line; deletions; the *)
(* commands on whole lines and the comments; the motions and the cursors   *)
(* that are added; and a language server's batch of edits                  *)
(* (Session::apply_edits).                                                 *)
(***************************************************************************)
EXTENDS Selections

CONSTANTS Characters,      \* the characters of a text
          Texts,           \* the texts a buffer is opened with
          Insertions,      \* what is typed or pasted, none of it empty
          Batches,         \* the edits a server may ask for at once
          TabSize,         \* editor.tabSize, with editor.insertSpaces
          Page,            \* the lines of a page
          MaxLength,       \* bound: the length of a text a key is pressed on
          MaxEdits         \* bound: a run's edits and its cursors, together

\* A server's edit may lie past the end, but ends no earlier than it starts
\* (EditError::InvalidRange).
ASSUME EditsAssumption ==
  /\ {Newline, Blank} \cup Separators \subseteq Characters
  /\ Texts \subseteq Seq(Characters)
  /\ Insertions \subseteq Seq(Characters) \ {<<>>}
  /\ Batches \subseteq Seq({c \in [start : Nat, end : Nat, ins : Seq(Characters)] :
                             c.start <= c.end})
  /\ TabSize \in Nat \ {0}
  /\ Page \in Nat
  /\ MaxSyncChanges \in Nat

VARIABLES text,      \* Buffer::rope
          cursors,   \* View::selections, in order
          primary,   \* which of them is the primary one
          typed,     \* Document::auto_whitespace
          journal,   \* Document::sync_changes, or Unrecorded
          server,    \* the server's copy of the text
          inverse,   \* what Buffer::apply returned, when this step applied
          edits      \* edits made so far

vars == <<text, cursors, primary, typed, journal, server, inverse, edits>>

Selected == [cursors |-> cursors, primary |-> primary]

Show(set) == cursors' = set.cursors /\ primary' = set.primary

\* Document::apply, of sorted changes; those that overlap drop the edit as a
\* whole.
Commit(changes, after) ==
  /\ edits'   = edits + 1
  /\ changes # <<>> /\ ~Overlapping(changes)
  /\ text'    = Applied(text, changes)
  /\ inverse' = Inverted(text, changes)
  /\ journal' = Journal(journal, text, changes)
  /\ Show(after)
  /\ UNCHANGED server

-----------------------------------------------------------------------------
(* One change at each cursor: edit_at_selections *)

\* The blanks of a new line that was left as it is go with the next edit,
\* unless that leaves something on their line.
Trims(changes) ==
  {Change(StartOf(text, w.line), StartOf(text, w.line) + w.columns, <<>>) :
     w \in {w \in typed :
       /\ LineText(text, w.line) = Blanks(w.columns)
       /\ \A i \in DOMAIN changes :
            LET c == changes[i] IN
            \/ LineOf(text, c.start) > w.line \/ LineOf(text, c.end) < w.line
            \/ /\ c.ins # <<>> /\ c.ins[1] = Newline
               /\ LineOf(text, c.start) = w.line /\ Empty(c)
               /\ Column(text, c.start) >= w.columns}}

\* The changes the cursors plan, none or one each, and the trims.
Planned(Plan(_)) ==
  LET planned == FlattenSeq([i \in DOMAIN cursors |-> Plan(cursors[i])])
      trims   == IF planned = <<>> THEN {} ELSE Trims(planned)
  IN  [changes |-> Sorted(planned \o SetToSeq(trims)), trims |-> trims]

\* Fault: a caret is put where its text went in the old text.
CaretsUnmoved(edit) ==
  Normalized([i \in DOMAIN edit.changes |->
                Caret(edit.changes[i].start + Len(edit.changes[i].ins))], 1)

\* The caret of each change follows what it put in; a trim has none.
Carets(edit) ==
  LET changes == edit.changes
      Follow(i) == IF changes[i] \in edit.trims THEN <<>>
                   ELSE <<Caret(changes[i].start + Delta(changes, i) + Len(changes[i].ins))>>
  IN  Normalized(FlattenSeq([i \in DOMAIN changes |-> Follow(i)]), 1)

EditAtCursors(Plan(_)) ==
  LET edit == Planned(Plan)
  IN  Commit(edit.changes, Carets(edit)) /\ typed' = {}

Over(c, ins) == Change(RangeOf(c).start, RangeOf(c).end, ins)

\* insert_text: what is typed or pasted takes the place of every selection.
InsertText(ins) == EditAtCursors(LAMBDA c : <<Over(c, ins)>>)

\* delete_directional: a selection, or what is between a caret and `To` of it;
\* a caret with nothing to delete plans no change.
Delete(To(_)) ==
  EditAtCursors(LAMBDA c :
    IF ~IsCaret(c) THEN <<Over(c, <<>>)>>
    ELSE IF To(c.active) = c.active THEN <<>>
    ELSE <<Over(Cursor(c.active, To(c.active)), <<>>)>>)

LeftOf(at)  == Larger(at - 1, 0)
RightOf(at) == Smaller(at + 1, Len(text))

\* A level of indentation goes as a whole.
BackFrom(at) ==
  LET column == Column(text, at)
  IN  IF column > 0 /\ column % TabSize = 0 /\ column <= Indentation(text, LineOf(text, at))
      THEN at - TabSize ELSE LeftOf(at)

DeleteLeft      == Delete(BackFrom)
DeleteRight     == Delete(RightOf)
DeleteWordLeft  == Delete(LAMBDA at : WordStartLeft(text, at))
DeleteWordRight == Delete(LAMBDA at : WordEndRight(text, at))

\* delete_selection_or_line, when something is selected.
CutSelections ==
  /\ \E i \in DOMAIN cursors : ~IsCaret(cursors[i])
  /\ EditAtCursors(LAMBDA c : IF IsCaret(c) THEN <<>> ELSE <<Over(c, <<>>)>>)

-----------------------------------------------------------------------------
(* Typing *)

AllCarets == \A i \in DOMAIN cursors : IsCaret(cursors[i])
AtEvery(Test(_)) == \A i \in DOMAIN cursors : Test(cursors[i].active)

\* auto_close: a closing bracket that is there already is stepped over.
StepsOver(ins) ==
  /\ AllCarets /\ Len(ins) = 1
  /\ \E p \in Pairs : p[2] = ins[1]
  /\ AtEvery(LAMBDA at : ins[1] \in After(text, at))

StepOver(ins) ==
  /\ StepsOver(ins)
  /\ Show(Mapped(Selected, LAMBDA c : Caret(RightOf(c.active))))
  /\ inverse' = <<>>
  /\ UNCHANGED <<text, typed, journal, server, edits>>

\* AutoClosingBrackets::closes_before, for languageDefined.
ClosesBefore(at) == After(text, at) \subseteq {Blank, ")", CloseToken}

Closes(ins, p) ==
  /\ AllCarets /\ ~StepsOver(ins)
  /\ ins = <<p[1]>> /\ AtEvery(ClosesBefore)

AutoClose(ins) ==
  \E p \in Pairs :
    /\ Closes(ins, p)
    /\ LET edit == Planned(LAMBDA c : <<Over(c, p)>>)
       IN  Commit(edit.changes, Mapped(Carets(edit), LAMBDA c : Caret(c.active - 1)))
    /\ typed' = {}

BetweenPair == AtEvery(LAMBDA at : \E p \in Pairs : p[1] \in Behind(text, at) /\ p[2] \in After(text, at))
AfterOpener == AtEvery(LAMBDA at : \E p \in Pairs : p[1] \in Behind(text, at))

\* The blanks before a caret that begin its line.
Base(at) == Blanks(Smaller(Column(text, at), Indentation(text, LineOf(text, at))))

\* insert_newline, with editor.autoIndent "brackets".
Indents(ins) ==
  /\ ins = <<Newline>> /\ AllCarets
  /\ BetweenPair \/ AfterOpener \/ ~AtEvery(LAMBDA at : Base(at) = <<>>)

InsertNewline(ins) ==
  LET Inner(at) == Base(at) \o (IF AfterOpener THEN Blanks(TabSize) ELSE <<>>)
      Opened(at) == <<Newline>> \o Inner(at)
                      \o (IF BetweenPair THEN <<Newline>> \o Base(at) ELSE <<>>)
      edit   == Planned(LAMBDA c : <<Over(c, Opened(c.active))>>)
      after  == Carets(edit)
      result == Applied(text, edit.changes)
      \* The end of the line above the one a closing bracket went to.
      Above(c) == Caret(EndOf(result, Larger(LineOf(result, c.active) - 1, 0)))
  IN  /\ Indents(ins)
      /\ Commit(edit.changes, IF BetweenPair THEN Mapped(after, Above) ELSE after)
      /\ typed' = {w \in {[line |-> LineOf(result, after.cursors[i].active),
                           columns |-> Column(result, after.cursors[i].active)] :
                            i \in DOMAIN after.cursors} : w.columns > 0}

Type(ins) ==
  \/ StepOver(ins)
  \/ AutoClose(ins)
  \/ InsertNewline(ins)
  \/ /\ ~StepsOver(ins) /\ ~Indents(ins)
     /\ \A p \in Pairs : ~Closes(ins, p)
     /\ InsertText(ins)

-----------------------------------------------------------------------------
(* Whole lines *)

InOrder(lines) ==
  CHOOSE s \in [1 .. Cardinality(lines) -> lines] :
    \A i, j \in DOMAIN s : i < j => s[i] < s[j]

\* apply_line_changes: the cursors stay at their lines and columns.
EditLines(changes) ==
  LET after == Applied(text, changes)
  IN  /\ Commit(changes, Mapped(Selected, LAMBDA c : Shifted(text, after, c, 0)))
      /\ UNCHANGED typed

\* A line with the break behind it, or before it if it is the last.
WithBreak(line) ==
  IF line + 1 < LineCount(text) THEN Change(StartOf(text, line), StartOf(text, line + 1), <<>>)
  ELSE Change(IF line > 0 THEN EndOf(text, line - 1) ELSE 0, Len(text), <<>>)

DeleteLines ==
  LET lines == InOrder(SelectedLines(text, cursors))
  IN  EditLines([i \in DOMAIN lines |-> WithBreak(lines[i])])

\* Cut, with nothing selected.
CutLines == AllCarets /\ DeleteLines

\* insert_line, at the primary cursor.
InsertLine(below) ==
  LET line   == LineOf(text, cursors[primary].active)
      indent == Blanks(Indentation(text, line))
      change == IF below
                THEN Change(EndOf(text, line), EndOf(text, line), <<Newline>> \o indent)
                ELSE Change(StartOf(text, line), StartOf(text, line), indent \o <<Newline>>)
      after  == Applied(text, <<change>>)
      caret  == Caret(At(after, IF below THEN line + 1 ELSE line, Len(indent)))
  IN  /\ Commit(<<change>>, [cursors |-> <<caret>>, primary |-> 1])
      /\ UNCHANGED typed

\* move_lines and copy_lines take everything between the first and the last
\* selected line.
FirstLine(t, cs) == Min(SelectedLines(t, cs))
LastLine(t, cs)  == Max(SelectedLines(t, cs))
Block(t, first, last) == SubSeq(t, StartOf(t, first) + 1, EndOf(t, last))

MovedLines(t, cs, up) ==
  LET first == FirstLine(t, cs)
      last  == LastLine(t, cs)
  IN  IF up THEN Change(StartOf(t, first - 1), EndOf(t, last),
                        Block(t, first, last) \o <<Newline>> \o LineText(t, first - 1))
      ELSE Change(StartOf(t, first), EndOf(t, last + 1),
                  LineText(t, last + 1) \o <<Newline>> \o Block(t, first, last))

MoveLines(up) ==
  /\ IF up THEN FirstLine(text, cursors) > 0
     ELSE LastLine(text, cursors) + 1 < LineCount(text)
  /\ LET change == MovedLines(text, cursors, up)
         after  == Applied(text, <<change>>)
     IN  Commit(<<change>>, Mapped(Selected,
           LAMBDA c : Shifted(text, after, c, IF up THEN -1 ELSE 1)))
  /\ UNCHANGED typed

CopyLines(up) ==
  LET first  == FirstLine(text, cursors)
      last   == LastLine(text, cursors)
      change == Change(StartOf(text, first), StartOf(text, first),
                       Block(text, first, last) \o <<Newline>>)
      after  == Applied(text, <<change>>)
      shift  == IF up THEN 0 ELSE last - first + 1
  IN  /\ Commit(<<change>>, Mapped(Selected, LAMBDA c : Shifted(text, after, c, shift)))
      /\ UNCHANGED typed

\* change_indent.  An empty line is not indented.
IndentChanges(t, cs, add) ==
  LET lines == InOrder(SelectedLines(t, cs))
      Put(line) == IF LineText(t, line) = <<>> THEN <<>>
                   ELSE <<Change(StartOf(t, line), StartOf(t, line), Blanks(TabSize))>>
      Take(line) ==
        LET removed == Smaller(Indentation(t, line), TabSize)
        IN  IF removed = 0 THEN <<>>
            ELSE <<Change(StartOf(t, line), StartOf(t, line) + removed, <<>>)>>
  IN  FlattenSeq([i \in DOMAIN lines |-> IF add THEN Put(lines[i]) ELSE Take(lines[i])])

ChangeIndent(add) == EditLines(IndentChanges(text, cursors, add))

\* indent_or_insert.
Tab ==
  LET spans == \E i \in DOMAIN cursors :
                 LineOf(text, RangeOf(cursors[i]).start) # LineOf(text, RangeOf(cursors[i]).end)
  IN  IF spans THEN ChangeIndent(TRUE) ELSE InsertText(Blanks(TabSize))

-----------------------------------------------------------------------------
(* Comments *)

HasToken(t, line) == ~IsBlank(t, line) /\ t[Indented(t, line) + 1] = LineToken

CommentLines(t, cs) == {line \in SelectedLines(t, cs) : ~IsBlank(t, line)}

Uncomments(t, cs, mode) ==
  \/ mode = "remove"
  \/ mode = "toggle" /\ \A line \in CommentLines(t, cs) : HasToken(t, line)

\* Fault: the blank behind the token stays.
TokenAlone(t, line) == Change(Indented(t, line), Indented(t, line) + 1, <<>>)

\* The token goes with one blank behind it.
TokenAt(t, line) ==
  LET token == Indented(t, line)
  IN  Change(token, IF Blank \in After(t, token + 1) THEN token + 2 ELSE token + 1, <<>>)

\* line_comment.
CommentChanges(t, cs, mode) ==
  LET lines     == CommentLines(t, cs)
      commented == InOrder({line \in lines : HasToken(t, line)})
      each      == InOrder(lines)
      Put(line) == Change(Indented(t, line), Indented(t, line), <<LineToken, Blank>>)
  IN  IF Uncomments(t, cs, mode) THEN [i \in DOMAIN commented |-> TokenAt(t, commented[i])]
      ELSE [i \in DOMAIN each |-> Put(each[i])]

LineComment(mode) == EditLines(CommentChanges(text, cursors, mode))

\* surrounding_comment: the delimiters right outside a range, with a blank on
\* both sides or none.
Surrounds(t, r, blank) ==
  LET open  == IF blank THEN <<OpenToken, Blank>> ELSE <<OpenToken>>
      close == IF blank THEN <<Blank, CloseToken>> ELSE <<CloseToken>>
  IN  /\ r.start >= Len(open) /\ r.end + Len(close) <= Len(t)
      /\ SubSeq(t, r.start - Len(open) + 1, r.start) = open
      /\ SubSeq(t, r.end + 1, r.end + Len(close)) = close

\* plan_block_comment: a comment is unwrapped, anything else wrapped.  What is
\* inside is selected, from `from' to `to' of the new text.
BlockPlan(t, r) ==
  LET inside  == SubSeq(t, r.start + 1, r.end)
      trimmed == Trimmed(inside)
      Plan(start, end, ins, from, to) ==
        [start |-> start, end |-> end, ins |-> ins, from |-> from, to |-> to]
  IN  IF Len(trimmed) >= 2 /\ Head(trimmed) = OpenToken /\ Last(trimmed) = CloseToken
      THEN LET inner == Trimmed(Front(Tail(trimmed)))
           IN  Plan(r.start, r.end, inner, 0, Len(inner))
      ELSE IF Surrounds(t, r, TRUE) THEN Plan(r.start - 2, r.end + 2, inside, 0, Len(inside))
      ELSE IF Surrounds(t, r, FALSE) THEN Plan(r.start - 1, r.end + 1, inside, 0, Len(inside))
      ELSE Plan(r.start, r.end, <<OpenToken, Blank>> \o inside \o <<Blank, CloseToken>>,
                2, 2 + Len(inside))

BlockPlans(t, cs) == Sorted([i \in DOMAIN cs |-> BlockPlan(t, RangeOf(cs[i]))])

BlockChanges(t, cs) ==
  LET plans == BlockPlans(t, cs)
  IN  [i \in DOMAIN plans |-> Change(plans[i].start, plans[i].end, plans[i].ins)]

BlockComment ==
  LET plans == BlockPlans(text, cursors)
      Inner(i) == LET start == plans[i].start + Delta(plans, i)
                  IN  Cursor(start + plans[i].from, start + plans[i].to)
  IN  /\ Commit(BlockChanges(text, cursors),
                Normalized([i \in DOMAIN plans |-> Inner(i)], primary))
      /\ UNCHANGED typed

-----------------------------------------------------------------------------
(* A server's edits *)

\* Session::apply_edits, of edits of which each changes something:
\* build_transaction clamps them and rejects a batch that overlaps; one cursor
\* is left, where the primary one was.
ApplyEdits(batch) ==
  LET changes == Sorted([i \in DOMAIN batch |-> Clamped(text, batch[i])])
  IN  /\ Commit(changes,
           [cursors |-> <<Shifted(text, Applied(text, changes),
                                  Caret(cursors[primary].active), 0)>>,
            primary |-> 1])
      /\ UNCHANGED typed

\* The editor tells the server at the end of the key
\* (Document::take_sync_changes).
Tell ==
  /\ server'  = Told(server, journal, text)
  /\ journal' = Recorded(<<>>)
  /\ inverse' = <<>>
  /\ UNCHANGED <<text, cursors, primary, typed, edits>>

-----------------------------------------------------------------------------
(* Motions and selections *)

Select(set) ==
  /\ Show(set)
  /\ inverse' = <<>>
  /\ UNCHANGED <<text, typed, journal, server, edits>>

Moved(c, at, extend) == IF extend THEN Cursor(c.anchor, at) ELSE Caret(at)

Motion(To(_), extend) ==
  Select(Mapped(Selected, LAMBDA c : Moved(c, To(c.active), extend)))

\* A left or right motion that does not extend a selection collapses it to
\* that edge.
Sideways(To(_), Edge(_), extend) ==
  Select(Mapped(Selected, LAMBDA c :
    IF ~extend /\ ~IsCaret(c) THEN Caret(Edge(c)) ELSE Moved(c, To(c.active), extend)))

CursorLeft(extend)  == Sideways(LeftOf, LAMBDA c : RangeOf(c).start, extend)
CursorRight(extend) == Sideways(RightOf, LAMBDA c : RangeOf(c).end, extend)
CursorWordLeft(extend)  == Motion(LAMBDA at : WordStartLeft(text, at), extend)
CursorWordRight(extend) == Motion(LAMBDA at : WordEndRight(text, at), extend)
CursorHome(extend)   == Motion(LAMBDA at : SmartHome(text, at), extend)
CursorEnd(extend)    == Motion(LAMBDA at : LineEnd(text, at), extend)
CursorTop(extend)    == Motion(LAMBDA at : 0, extend)
CursorBottom(extend) == Motion(LAMBDA at : Len(text), extend)

\* vertical: up or down by some lines, in the column the caret wants.
Vertical(lines, extend) ==
  LET Target(at) == Larger(0, Smaller(LineOf(text, at) + lines, LineCount(text) - 1))
      Goal(c) == IF c.goal = NoGoal THEN Column(text, c.active) ELSE c.goal
  IN  Select(Mapped(Selected, LAMBDA c :
        [Moved(c, At(text, Target(c.active), Goal(c)), extend) EXCEPT !.goal = Goal(c)]))

CancelSelection ==
  Select(Mapped(Selected, LAMBDA c : [c EXCEPT !.anchor = c.active]))

\* SelectionSet::collapse_to_primary.
CollapseToPrimary == Select([cursors |-> <<cursors[primary]>>, primary |-> 1])

SelectAll == Select([cursors |-> <<Cursor(0, Len(text))>>, primary |-> 1])

ExpandLineSelection ==
  LET Beyond(line) == IF line + 1 < LineCount(text) THEN StartOf(text, line + 1) ELSE Len(text)
  IN  Select(Mapped(Selected, LAMBDA c :
        Cursor(StartOf(text, LineOf(text, RangeOf(c).start)),
               Beyond(LineOf(text, RangeOf(c).end)))))

\* SelectionSet::add.
Add(c) == Select(Normalized(Append(cursors, c), Len(cursors) + 1))

\* add_cursor, on the line above or below the primary one.
AddCursor(lines) ==
  LET at   == cursors[primary].active
      line == LineOf(text, at) + lines
  IN  line \in 0 .. LineCount(text) - 1 /\ Add(Caret(At(text, line, Column(text, at))))

\* search_term for a caret: every caret grows to its word.
SelectWords ==
  LET Word(c) == IF IsCaret(c) THEN WordAt(text, c.active) ELSE {}
  IN  /\ Word(cursors[primary]) # {}
      /\ Select(Mapped(Selected, LAMBDA c :
           IF Word(c) = {} THEN c
           ELSE LET w == CHOOSE w \in Word(c) : TRUE IN Cursor(w.start, w.end)))

\* The range of search_term, or none.
Term == IF IsCaret(cursors[primary]) THEN WordAt(text, cursors[primary].active)
        ELSE {RangeOf(cursors[primary])}

Matches == UNION {Range(FindAll(text, SubSeq(text, r.start + 1, r.end))) : r \in Term}

\* The matches from the first one behind the primary selection, round to it.
Onwards ==
  LET Behindhand(m) == m.start >= RangeOf(cursors[primary]).end
      InText(ms)    == Sorted(SetToSeq(ms))
  IN  InText({m \in Matches : Behindhand(m)}) \o InText({m \in Matches : ~Behindhand(m)})

\* add_next_match: the first press only selects.
AddNextMatch ==
  LET free == {k \in DOMAIN Onwards :
                 \A i \in DOMAIN cursors : RangeOf(cursors[i]) # Onwards[k]}
  IN  \/ SelectWords
      \/ /\ ~IsCaret(cursors[primary]) /\ free # {}
         /\ LET m == Onwards[Min(free)] IN Add(Cursor(m.start, m.end))

MoveToNextMatch ==
  \/ SelectWords
  \/ /\ ~IsCaret(cursors[primary])
     /\ Select(Normalized([cursors EXCEPT ![primary] = Cursor(Onwards[1].start, Onwards[1].end)],
                          primary))

SelectAllMatches ==
  LET all == Sorted(SetToSeq(Matches))
  IN  /\ all # <<>>
      /\ Select(Normalized([i \in DOMAIN all |-> Cursor(all[i].start, all[i].end)], Len(all)))

-----------------------------------------------------------------------------

Init ==
  /\ text \in Texts
  /\ cursors = <<Caret(0)>> /\ primary = 1
  /\ typed = {}
  /\ journal = Recorded(<<>>)
  /\ server = text
  /\ inverse = <<>>
  /\ edits = 0

Edit ==
  \/ \E ins \in Insertions : Type(ins) \/ InsertText(ins)
  \/ Tab
  \/ DeleteLeft \/ DeleteRight \/ DeleteWordLeft \/ DeleteWordRight
  \/ CutSelections \/ CutLines
  \/ DeleteLines
  \/ \E below \in BOOLEAN : InsertLine(below)
  \/ \E up \in BOOLEAN : MoveLines(up) \/ CopyLines(up)
  \/ \E add \in BOOLEAN : ChangeIndent(add)
  \/ \E mode \in {"toggle", "add", "remove"} : LineComment(mode)
  \/ BlockComment
  \/ \E batch \in Batches : ApplyEdits(batch)

Move ==
  \/ \E extend \in BOOLEAN :
       \/ CursorLeft(extend) \/ CursorRight(extend)
       \/ CursorWordLeft(extend) \/ CursorWordRight(extend)
       \/ CursorHome(extend) \/ CursorEnd(extend)
       \/ CursorTop(extend) \/ CursorBottom(extend)
       \/ \E lines \in {-Page, -1, 1, Page} : Vertical(lines, extend)
  \/ CancelSelection \/ CollapseToPrimary \/ SelectAll \/ ExpandLineSelection
  \/ \E lines \in {-1, 1} : AddCursor(lines)
  \/ AddNextMatch \/ MoveToNextMatch \/ SelectAllMatches

\* No key follows the last edit of a run.
Next ==
  \/ /\ Len(text) <= MaxLength
     /\ \/ edits + Len(cursors) <= MaxEdits /\ Edit
        \/ edits < MaxEdits /\ Move /\ edits + Len(cursors') <= MaxEdits
  \/ Tell

Spec == Init /\ [][Next]_vars

-----------------------------------------------------------------------------
(* Properties *)

\* What an edit returns takes the text back, character for character, however
\* many changes it made and however they lay beside one another; and what
\* that returns makes the edit again (Buffer::apply).
InverseRestores ==
  [][inverse' # <<>> =>
       /\ Applied(text', inverse') = text
       /\ Applied(text, Inverted(text', inverse')) = text']_vars

\* A server that applies the recorded changes one by one comes to the text on
\* screen (Document::record_sync_changes).
JournalReplays == Told(server, journal, text) = text

\* The cursors lie in the text, in order, and no two of them meet, so no key
\* is typed twice in one place (SelectionSet::normalize).
CursorsApart ==
  /\ primary \in DOMAIN cursors
  /\ \A i \in DOMAIN cursors : RangeOf(cursors[i]).end <= Len(text)
  /\ \A i \in 2 .. Len(cursors) :
       /\ RangeOf(cursors[i - 1]).end <= RangeOf(cursors[i]).start
       /\ RangeOf(cursors[i - 1]).start < RangeOf(cursors[i]).start

\* What is typed is typed at every cursor, and each is left right behind its
\* own, whether a bracket closed itself or the edit took the blanks of another
\* line with it (edit_at_selections, auto_close).
CaretsFollow ==
  [][\A ins \in Insertions :
       edits' > edits /\ Type(ins) /\ (ins = <<Newline>> => ~Indents(ins))
       => /\ Len(cursors') = Len(cursors)
          /\ \A i \in DOMAIN cursors' :
               /\ IsCaret(cursors'[i])
               /\ SubSeq(text', cursors'[i].active - Len(ins) + 1,
                         cursors'[i].active) = ins]_vars

\* A second press takes the first one back: a comment put around every
\* selection ("a second press unwrap[s] what the first press wrapped"), the
\* lines that were commented ("pressing it twice restores the original"),
\* indented, or moved under carets.
TakenBack ==
  [][edits' > edits =>
       \E t \in {text'}, cs \in {cursors'} :
         /\ BlockComment /\ (\A i \in DOMAIN cursors : BlockPlan(text, RangeOf(cursors[i])).from > 0)
              => Applied(t, BlockChanges(t, cs)) = text
         /\ LineComment("toggle") /\ ~Uncomments(text, cursors, "toggle")
              => Applied(t, CommentChanges(t, cs, "toggle")) = text
         /\ ChangeIndent(TRUE) => Applied(t, IndentChanges(t, cs, FALSE)) = text
         /\ \A up \in BOOLEAN :
              MoveLines(up) /\ AllCarets => Applied(t, <<MovedLines(t, cs, ~up)>>) = text]_vars
=============================================================================
