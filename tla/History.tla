------------------------------- MODULE History -------------------------------
(***************************************************************************)
(* The undo histories of the open documents (deco-core's history.rs) and   *)
(* the edits that several documents share (Session::apply_workspace_edit   *)
(* and Session::undo_group in deco-editor).                                *)
(*                                                                         *)
(* A text is the number it got when it first came about.  A transaction    *)
(* is the pair of texts it leads between: it means something only to the   *)
(* text it was made for, and what it makes of any other is Garbled.  A     *)
(* selection is known by the text it was made in.  0 is the text a         *)
(* document was opened with.                                               *)
(***************************************************************************)
EXTENDS Integers, Sequences, FiniteSets

CONSTANTS Docs,        \* the files a tab may hold
          MaxEntries,  \* HistoryOptions::max_entries
          MaxTexts,    \* bound: texts made in a run
          MaxGroups    \* bound: shared edits in a run

ASSUME HistoryAssumption ==
  /\ Docs # {} /\ IsFiniteSet(Docs)
  /\ MaxEntries \in Nat \ {0} /\ MaxTexts \in Nat /\ MaxGroups \in Nat

VARIABLES open,    \* the documents a tab holds
          active,  \* the one on screen
          text,    \* document -> its text
          carets,  \* document -> the text its view's selections were made in
          undo,    \* document -> History::undo_stack, the top last
          redo,    \* document -> History::redo_stack, the top last
          texts,   \* how many texts there have been
          groups,  \* Session::next_group
          stops,   \* ghost: texts at which typing was interrupted
          lately,  \* ghost: whether the step before moved the caret or pasted
          shared   \* ghost: document -> who made its last move with it

vars == <<open, active, text, carets, undo, redo, texts, groups, stops, lately,
          shared>>

Garbled == -1
Texts   == 0 .. MaxTexts
Kinds   == {"insert", "delete", "discrete"}
Group   == 0 .. MaxGroups    \* 0: the step is the document's own
Lately  == {"moved", "pasted", "other"}

Transactions == [from : Texts, to : Texts]

\* What a transaction makes of a text (Buffer::apply).
Applied(t, transaction) ==
  IF t = transaction.from THEN transaction.to ELSE Garbled

\* The texts met on the way when the steps of an entry are applied in order.
Trail(t, steps) ==
  LET trail[i \in 0 .. Len(steps)] ==
        IF i = 0 THEN t ELSE Applied(trail[i - 1], steps[i])
  IN  trail

Top(stack) == stack[Len(stack)]
Pop(stack) == SubSeq(stack, 1, Len(stack) - 1)

GroupOf(stack) == IF stack = <<>> THEN 0 ELSE Top(stack).group

-----------------------------------------------------------------------------
(* One history *)

\* History::break_group: the next edit starts a step of its own.
Broken(stack) ==
  IF stack = <<>> THEN stack
  ELSE [stack EXCEPT ![Len(stack)].kind = "discrete"]

\* The step that takes a document from text `t` back to text `b`, and is
\* undone in turn to `t`.
Entry(b, t, kind, group) ==
  [steps  |-> <<[from |-> t, to |-> b]>>,
   after  |-> b,     \* selection_after_apply
   before |-> t,     \* selection_before_apply
   kind   |-> kind, group |-> group]

\* Typing soon after typing of the same kind joins its step.  Whether it is
\* soon (coalesce_window_ms) is the caller's choice.
Coalesces(stack, kind, soon) ==
  /\ kind \in {"insert", "delete"}
  /\ stack # <<>>
  /\ Top(stack).kind = kind
  /\ soon

\* Fault: the newest inverse is applied last.
JoinedLast(entry, b, t) ==
  [entry EXCEPT !.steps = @ \o <<[from |-> t, to |-> b]>>, !.before = t]

\* The newest inverse is the first to be applied.
Joined(entry, b, t) ==
  [entry EXCEPT !.steps = <<[from |-> t, to |-> b]>> \o @, !.before = t]

\* History::push, for an edit from `b` to `t`.
Pushed(stack, b, t, kind, group, soon) ==
  IF Coalesces(stack, kind, soon)
  THEN Append(Pop(stack), Joined(Top(stack), b, t))
  ELSE LET grown == Append(stack, Entry(b, t, kind, group))
           over  == Len(grown) - MaxEntries
       IN  IF over > 0 THEN SubSeq(grown, over + 1, Len(grown)) ELSE grown

\* Fault: the inverses are kept in the order they were made.
OppositeInOrder(t, entry) ==
  LET trail == Trail(t, entry.steps)
  IN  [steps  |-> [i \in 1 .. Len(entry.steps) |->
                     [from |-> trail[i], to |-> trail[i - 1]]],
       after  |-> entry.before,
       before |-> entry.after,
       kind   |-> "discrete",
       group  |-> entry.group]

\* Fault: an undone step no longer knows that it was shared.
OppositeUnshared(t, entry) ==
  LET trail == Trail(t, entry.steps)
      n     == Len(entry.steps)
  IN  [steps  |-> [i \in 1 .. n |->
                     [from |-> trail[n + 1 - i], to |-> trail[n - i]]],
       after  |-> entry.before,
       before |-> entry.after,
       kind   |-> "discrete",
       group  |-> 0]

\* History::apply_entry: the entry that reverses `entry`, applied to text `t`.
Opposite(t, entry) ==
  LET trail == Trail(t, entry.steps)
      n     == Len(entry.steps)
  IN  [steps  |-> [i \in 1 .. n |->
                     [from |-> trail[n + 1 - i], to |-> trail[n - i]]],
       after  |-> entry.before,
       before |-> entry.after,
       kind   |-> "discrete",
       group  |-> entry.group]

Result(t, entry) == Trail(t, entry.steps)[Len(entry.steps)]

-----------------------------------------------------------------------------
(* Who moved with whom *)

Alone == [with |-> {}, done |-> FALSE]

\* The documents of S made a move together, forwards or backwards; whatever
\* they shared with others before is over.
Together(S, done) ==
  [d \in Docs |-> IF d \in S THEN [with |-> S, done |-> done]
                  ELSE [shared[d] EXCEPT !.with = @ \ S]]

\* Document d moved on its own.
Apart(d) ==
  [e \in Docs |-> IF e = d THEN Alone
                  ELSE [shared[e] EXCEPT !.with = @ \ {d}]]

-----------------------------------------------------------------------------
(* Editing *)

\* An edit of document d alone.
Edit(d, kind, soon) ==
  /\ texts < MaxTexts
  /\ texts'  = texts + 1
  /\ text'   = [text EXCEPT ![d] = texts']
  /\ carets' = [carets EXCEPT ![d] = texts']
  /\ undo'   = [undo EXCEPT ![d] = Pushed(@, text[d], texts', kind, 0, soon)]
  /\ redo'   = [redo EXCEPT ![d] = <<>>]
  /\ shared' = Apart(d)
  /\ UNCHANGED <<open, active, groups>>

\* Typing and deleting, on screen only.
Type(kind, soon) ==
  /\ lately' = "other"
  /\ kind \in {"insert", "delete"}
  /\ Edit(active, kind, soon)
  /\ UNCHANGED stops

\* The clipboard is inserted as if it were typed, and joins the typing.
Paste(soon) ==
  /\ lately' = "pasted"
  /\ Edit(active, "insert", soon)
  /\ UNCHANGED stops

\* Formatting, a replacement, a line command, a snippet's field, an extension's
\* edit of a tab that need not be on screen.
Change(d) ==
  /\ lately' = "other"
  /\ Edit(d, "discrete", TRUE)
  /\ UNCHANGED stops

\* Session::reload_changed, of a clean document whose file changed, and
\* Session::revert_to: the text of the file is taken in as one step, and the
\* document counts as saved.
TakeFile(d) ==
  /\ lately' = "other"
  /\ Edit(d, "discrete", TRUE)
  /\ stops' = stops \cup {texts'}

\* A motion of the caret ends the typing.
MoveCaret ==
  /\ lately' = "other"
  /\ undo'  = [undo EXCEPT ![active] = Broken(@)]
  /\ stops' = stops \cup {text[active]}
  /\ UNCHANGED <<open, active, text, carets, redo, texts, groups, shared>>

\* Going to a line, a match or a mark, or selecting everything, moves the carets
\* and no more: what is typed next may join what was typed before.
Jump ==
  /\ lately' = "moved"
  /\ UNCHANGED <<open, active, text, carets, undo, redo, texts, groups, stops, shared>>

\* Fault: a save in the background leaves the typing as it was.
SaveActiveOnly(d) ==
  /\ lately' = "other"
  /\ undo'  = [undo EXCEPT ![active] = Broken(@)]
  /\ stops' = stops \cup {text[d]}
  /\ UNCHANGED <<open, active, text, carets, redo, texts, groups, shared>>

\* Session::mark_saved, Session::mark_saved_at.
Save(d) ==
  /\ lately' = "other"
  /\ undo'  = [undo EXCEPT ![d] = Broken(@)]
  /\ stops' = stops \cup {text[d]}
  /\ UNCHANGED <<open, active, text, carets, redo, texts, groups, shared>>

\* Session::undo_group and the single-document undo and redo: the documents of
\* S each apply the top of one stack, and what reverses it goes on the other.
Move(S, from) ==
  /\ lately' = "other"
  /\ text'   = [d \in Docs |-> IF d \in S THEN Result(text[d], Top(from[d]))
                               ELSE text[d]]
  /\ carets' = [d \in Docs |-> IF d \in S THEN Top(from[d]).after
                               ELSE carets[d]]
  /\ UNCHANGED <<open, active, texts, groups, stops>>

Shrunk(S, stacks) == [d \in Docs |-> IF d \in S THEN Pop(stacks[d])
                                     ELSE stacks[d]]

Grown(S, stacks, from) ==
  [d \in Docs |-> IF d \in S
                  THEN Append(stacks[d], Opposite(text[d], Top(from[d])))
                  ELSE stacks[d]]

\* The documents whose next step is the one the active document is about to
\* take: itself alone, unless that step is shared.
Partners(stacks) ==
  LET group == GroupOf(stacks[active])
  IN  IF group = 0 THEN {active}
      ELSE {d \in open : GroupOf(stacks[d]) = group}

Moved(S, group, done) ==
  IF group = 0 THEN Apart(active) ELSE Together(S, done)

Undo ==
  LET S == Partners(undo)
  IN  /\ undo[active] # <<>>
      /\ Move(S, undo)
      /\ undo'   = Shrunk(S, undo)
      /\ redo'   = Grown(S, redo, undo)
      /\ shared' = Moved(S, GroupOf(undo[active]), FALSE)

Redo ==
  LET S == Partners(redo)
  IN  /\ redo[active] # <<>>
      /\ Move(S, redo)
      /\ redo'   = Shrunk(S, redo)
      /\ undo'   = Grown(S, undo, redo)
      /\ shared' = Moved(S, GroupOf(redo[active]), TRUE)

-----------------------------------------------------------------------------
(* Edits that several documents share *)

\* Session::take_group.
NextGroup == groups + 1

\* A plan names documents, and those it changes.  A file no tab holds is
\* opened from its text on disk, whether or not it is changed; every change is
\* a step of its own under the plan's group.  A plan that cannot be carried
\* out changes nothing at all, and is no step of this module.
ApplyWorkspaceEdit(plan, changed) ==
  LET number == CHOOSE f \in [changed -> texts + 1 .. texts + Cardinality(changed)] :
                  \A d, e \in changed : f[d] = f[e] => d = e
  IN  /\ lately' = "other"
      /\ changed \subseteq plan
      /\ groups < MaxGroups
      /\ texts + Cardinality(changed) <= MaxTexts
      /\ groups' = NextGroup
      /\ texts'  = texts + Cardinality(changed)
      /\ open'   = open \cup plan
      /\ text'   = [d \in Docs |-> IF d \in changed THEN number[d] ELSE text[d]]
      /\ carets' = [d \in Docs |-> IF d \in changed THEN number[d] ELSE carets[d]]
      /\ undo'   = [d \in Docs |->
                      IF d \in changed
                      THEN Pushed(undo[d], text[d], number[d], "discrete",
                                  groups', TRUE)
                      ELSE undo[d]]
      /\ redo'   = [d \in Docs |-> IF d \in changed THEN <<>> ELSE redo[d]]
      /\ stops'  = stops \cup {number[d] : d \in changed}
      /\ shared' = Together(changed, TRUE)
      /\ UNCHANGED <<active>>

-----------------------------------------------------------------------------
(* Tabs and files *)

\* Session::switch_to: a change of tabs leaves the histories as they are.
Switch(d) ==
  /\ lately' = "moved"
  /\ active' = d
  /\ UNCHANGED <<open, text, carets, undo, redo, texts, groups, stops, shared>>

\* Session::open, of a file no tab holds.
Open(d) ==
  /\ lately' = "moved"
  /\ d \notin open
  /\ open'   = open \cup {d}
  /\ active' = d
  /\ UNCHANGED <<text, carets, undo, redo, texts, groups, stops, shared>>

\* Session::close_active_tab: the history goes with the document, and with it
\* what was not saved.
Close(next) ==
  /\ lately' = "moved"
  /\ next \in open \ {active}
  /\ open'   = open \ {active}
  /\ active' = next
  /\ text'   = [text EXCEPT ![active] = 0]
  /\ carets' = [carets EXCEPT ![active] = 0]
  /\ undo'   = [undo EXCEPT ![active] = <<>>]
  /\ redo'   = [redo EXCEPT ![active] = <<>>]
  /\ shared' = Apart(active)
  /\ UNCHANGED <<texts, groups, stops>>

\* Session::reload_open, after a checkout: the history is another branch's.
ReloadOpen(d) ==
  /\ lately' = "other"
  /\ text'   = [text EXCEPT ![d] = 0]
  /\ carets' = [carets EXCEPT ![d] = 0]
  /\ undo'   = [undo EXCEPT ![d] = <<>>]
  /\ redo'   = [redo EXCEPT ![d] = <<>>]
  /\ shared' = Apart(d)
  /\ UNCHANGED <<open, active, texts, groups, stops>>

-----------------------------------------------------------------------------

Init ==
  /\ active \in Docs
  /\ open   = {active}
  /\ text   = [d \in Docs |-> 0]
  /\ carets = [d \in Docs |-> 0]
  /\ undo   = [d \in Docs |-> <<>>]
  /\ redo   = [d \in Docs |-> <<>>]
  /\ texts  = 0 /\ groups = 0
  /\ stops  = {}
  /\ lately = "other"
  /\ shared = [d \in Docs |-> Alone]

Next ==
  \/ \E kind \in Kinds, soon \in BOOLEAN : Type(kind, soon)
  \/ \E soon \in BOOLEAN : Paste(soon)
  \/ MoveCaret
  \/ Jump
  \/ Undo
  \/ Redo
  \/ \E d \in open : \/ Change(d)
                     \/ TakeFile(d)
                     \/ Save(d)
                     \/ Switch(d)
                     \/ Close(d)
                     \/ ReloadOpen(d)
  \/ \E d \in Docs : Open(d)
  \/ \E plan \in SUBSET Docs : \E changed \in SUBSET plan :
       ApplyWorkspaceEdit(plan, changed)

Spec == Init /\ [][Next]_vars

-----------------------------------------------------------------------------
(* Properties *)

Entries ==
  [steps : Seq(Transactions), after : Texts, before : Texts, kind : Kinds,
   group : Group]

\* The state has its types; no history grows past its limit, although redoing
\* puts steps back without looking at it; a closed document keeps no history.
TypeOK ==
  /\ open \subseteq Docs /\ active \in open
  /\ text \in [Docs -> Texts \cup {Garbled}]
  /\ carets \in [Docs -> Texts]
  /\ undo \in [Docs -> Seq(Entries)] /\ redo \in [Docs -> Seq(Entries)]
  /\ \A d \in Docs : Len(undo[d]) + Len(redo[d]) <= MaxEntries
  /\ \A d \in Docs \ open : text[d] = 0 /\ undo[d] = <<>> /\ redo[d] = <<>>
  /\ texts \in Texts /\ groups \in Group
  /\ stops \subseteq Texts
  /\ lately \in Lately
  /\ shared \in [Docs -> [with : SUBSET Docs, done : BOOLEAN]]

Begins(entry)  == entry.steps[1].from
Arrives(entry) == entry.steps[Len(entry.steps)].to

\* The steps of an entry follow on one another, and its selections were made
\* in the texts at its two ends.
Whole(entry) ==
  /\ entry.steps # <<>>
  /\ \A i \in 2 .. Len(entry.steps) :
       entry.steps[i - 1].to = entry.steps[i].from
  /\ entry.before = Begins(entry) /\ entry.after = Arrives(entry)

\* Every entry of the stack is made for the text the entries above it lead to.
Leads(stack, t) ==
  \A i \in 1 .. Len(stack) :
    /\ Whole(stack[i])
    /\ Begins(stack[i]) =
         IF i = Len(stack) THEN t ELSE Arrives(stack[i + 1])

\* However typing was joined and whatever was undone, redone and dropped, the
\* next undo and the next redo of every document, and all that come after
\* them, fit the text they will meet, and the selections on screen and in the
\* histories belong to the text they are shown with (History::push,
\* History::apply_entry).
HistoriesFit ==
  /\ TypeOK
  /\ \A d \in open :
       /\ Leads(undo[d], text[d])
       /\ Leads(redo[d], text[d])
       /\ carets[d] = text[d]

\* Texts an undo of `entry` passes without stopping.
Passed(entry) == {entry.steps[i].to : i \in 1 .. Len(entry.steps) - 1}

\* An undo or a redo can always stop where typing was interrupted by a motion
\* of the caret or a save, and where a reload or an edit shared with other
\* documents left the text: no step joins what was typed before it to what was
\* typed after it (History::break_group, History::record_in_group).
StopsAreKept ==
  \A d \in open : \A stack \in {undo[d], redo[d]} : \A i \in 1 .. Len(stack) :
    Passed(stack[i]) \cap stops = {}

\* An edit of the document on screen that joins a step before it.
Joins == /\ texts' = texts + 1 /\ text'[active] = texts'
         /\ \E i \in DOMAIN undo'[active] : text[active] \in Passed(undo'[active][i])

\* "Forces the next edit to start a new undo step even if it would otherwise
\* coalesce. Called when the cursor moves, the file is saved, or focus changes"
\* (History::break_group): an edit after the caret was moved or the tab left, in
\* whatever way, does not join what was typed before.
CaretMovesStop == [][lately = "moved" => ~Joins]_vars

\* "Never coalesced, because users expect one undo to revert exactly one"
\* (EditKind::Discrete, of a paste): a paste does not join what was typed before.
PastesAreSteps == [][lately' = "pasted" => ~Joins]_vars

\* The texts undoing leads to, the text on screen and those redoing leads to.
Timeline(d) ==
     [i \in 1 .. Len(undo[d]) |-> Arrives(undo[d][i])]
  \o <<text[d]>>
  \o [i \in 1 .. Len(redo[d]) |-> Arrives(redo[d][Len(redo[d]) + 1 - i])]

WentBack(d) == Len(undo'[d]) < Len(undo[d]) /\ Len(redo'[d]) > Len(redo[d])

\* A new edit, too, may grow one stack and empty the other, but makes a text.
WentForth(d) ==
  /\ Len(undo'[d]) > Len(undo[d]) /\ Len(redo'[d]) < Len(redo[d])
  /\ texts' = texts

\* Undoing and redoing only walk along the texts the document has had: nothing
\* on either side is lost or changed, in the document on screen and in those
\* that move with it (Session::undo_group).
TimelineKept ==
  [][\A d \in Docs : WentBack(d) \/ WentForth(d) => Timeline(d)' = Timeline(d)]_vars

\* Documents that made a move together, and have not moved apart since, take
\* it back together, from whichever of them it is undone or redone: "one
\* ctrl+z undoes the whole rename from any of the affected files"
\* (docs/language-servers.md).
SharedMovesTogether ==
  [][\A d \in open : \A e \in shared[d].with :
       /\ shared[d].done /\ WentBack(d) => WentBack(e)
       /\ ~shared[d].done /\ WentForth(d) => WentForth(e)]_vars
=============================================================================
