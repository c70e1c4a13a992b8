------------------------------- MODULE Buffer -------------------------------
(***************************************************************************)
(* Transactions of several changes and their inverses (deco-core's edit.rs *)
(* and buffer.rs), and the journal of changes that is sent to a language   *)
(* server (Document::record_sync_changes).                                 *)
(*                                                                         *)
(* A text is a sequence of characters and a position an offset into it:    *)
(* Lines gives the lines and columns.                                      *)
(***************************************************************************)
EXTENDS Integers, FiniteSets, SequencesExt

CONSTANT MaxSyncChanges   \* MAX_SYNC_CHANGES

Unrecorded == [lost |-> TRUE]
Recorded(changes) == [lost |-> FALSE, changes |-> changes]

Smaller(a, b) == IF a <= b THEN a ELSE b
Larger(a, b)  == IF a <= b THEN b ELSE a

-----------------------------------------------------------------------------
(* Transactions *)

Change(start, end, ins) == [start |-> start, end |-> end, ins |-> ins]

Empty(range) == range.start = range.end
Noop(change) == Empty(change) /\ change.ins = <<>>

Precedes(r, s) == r.start < s.start \/ (r.start = s.start /\ r.end < s.end)

\* `range` put behind all that it does not precede.
Inserted(ranges, range) ==
  LET k == Cardinality({j \in DOMAIN ranges : ~Precedes(range, ranges[j])})
  IN  SubSeq(ranges, 1, k) \o <<range>> \o SubSeq(ranges, k + 1, Len(ranges))

\* Sorted by position, ranges at one position in the order they came.
Sorted(ranges) ==
  LET sorted[i \in 0 .. Len(ranges)] ==
        IF i = 0 THEN <<>> ELSE Inserted(sorted[i - 1], ranges[i])
  IN  sorted[Len(ranges)]

\* Transaction::new rejects changes that overlap; two carets at one place and
\* ranges that only touch do not.
Overlapping(sorted) ==
  \E i \in 2 .. Len(sorted) :
    /\ ~(Empty(sorted[i - 1]) /\ Empty(sorted[i]))
    /\ sorted[i].start < sorted[i - 1].end

Clamped(t, change) ==
  [change EXCEPT !.start = Smaller(@, Len(t)), !.end = Smaller(@, Len(t))]

Replaced(t, change) ==
  SubSeq(t, 1, change.start) \o change.ins \o SubSeq(t, change.end + 1, Len(t))

\* One change after another, each in the text the one before it left.
InTurn(t, changes) ==
  LET after[i \in 0 .. Len(changes)] ==
        IF i = 0 THEN t ELSE Replaced(after[i - 1], changes[i])
  IN  after[Len(changes)]

\* Buffer::apply: from the end backwards, every range means the text before.
Applied(t, changes) ==
  InTurn(t, Reverse(Sorted([i \in DOMAIN changes |-> Clamped(t, changes[i])])))

\* By how much the changes before the i-th move what follows them.
Delta(sorted, i) ==
  LET moved[j \in 0 .. i - 1] ==
        IF j = 0 THEN 0
        ELSE moved[j - 1] + Len(sorted[j].ins) - (sorted[j].end - sorted[j].start)
  IN  moved[i - 1]

\* Fault: the ranges of the inverse are those of the text before.
InvertedUnmoved(t, changes) ==
  LET sorted == Sorted([i \in DOMAIN changes |-> Clamped(t, changes[i])])
  IN  [i \in DOMAIN sorted |->
         Change(sorted[i].start, sorted[i].start + Len(sorted[i].ins),
                SubSeq(t, sorted[i].start + 1, sorted[i].end))]

\* The transaction Buffer::apply returns: what each change removed, in the
\* place of what it put in.
Inverted(t, changes) ==
  LET sorted == Sorted([i \in DOMAIN changes |-> Clamped(t, changes[i])])
      Start(i) == sorted[i].start + Delta(sorted, i)
  IN  [i \in DOMAIN sorted |->
         Change(Start(i), Start(i) + Len(sorted[i].ins),
                SubSeq(t, sorted[i].start + 1, sorted[i].end))]

-----------------------------------------------------------------------------
(* The journal *)

\* Fault: the changes are recorded in the order of the transaction.
JournalForwards(entries, t, changes) ==
  IF entries.lost THEN entries
  ELSE IF Len(entries.changes) + Len(changes) > MaxSyncChanges THEN Unrecorded
  ELSE Recorded(entries.changes \o [i \in DOMAIN changes |-> Clamped(t, changes[i])])

\* Document::record_sync_changes: last first, so that each range means the
\* text the changes recorded before it leave.
Journal(entries, t, changes) ==
  IF entries.lost THEN entries
  ELSE IF Len(entries.changes) + Len(changes) > MaxSyncChanges THEN Unrecorded
  ELSE Recorded(entries.changes
                  \o Reverse([i \in DOMAIN changes |-> Clamped(t, changes[i])]))

\* A server applies the changes of a didChange one after another; without
\* them it is sent the whole text.
Told(copy, entries, t) ==
  IF entries.lost THEN t ELSE InTurn(copy, entries.changes)
=============================================================================
