----------------------------- MODULE Selections -----------------------------
(***************************************************************************)
(* The set of cursors of a view (deco-core's selection.rs), each a         *)
(* selection or a caret, in order and with one of them primary.            *)
(***************************************************************************)
EXTENDS Lines

NoGoal == -1

\* The goal is the column a caret that moves by lines wants.
Cursor(anchor, active) == [anchor |-> anchor, active |-> active, goal |-> NoGoal]
Caret(at) == Cursor(at, at)

RangeOf(c) == [start |-> Smaller(c.anchor, c.active),
               end   |-> Larger(c.anchor, c.active)]

IsCaret(c)  == c.anchor = c.active
Reversed(c) == c.active < c.anchor

\* Range::contains and Range::intersects.
Holds(range, at) ==
  IF Empty(range) THEN at = range.start
  ELSE range.start <= at /\ at < range.end

\* Fault: a caret in a range, or two at one place, do not meet.
IntersectProperly(r, s) == r.start < s.end /\ s.start < r.end

Intersect(r, s) ==
  \/ r.start < s.end /\ s.start < r.end
  \/ Empty(r) /\ Holds(s, r.start)
  \/ Empty(s) /\ Holds(r, s.start)

\* One cursor over both ranges, in the direction of the primary one or else of
\* the earlier one.
Merged(earlier, c, main) ==
  LET start == RangeOf(earlier).start
      end   == Larger(RangeOf(earlier).end, RangeOf(c).end)
  IN  IF Reversed(IF c = main THEN c ELSE earlier)
      THEN Cursor(end, start) ELSE Cursor(start, end)

\* SelectionSet::normalize, for the cursors of which the p-th is primary.
Normalized(all, p) ==
  LET main    == all[p]
      ordered == [i \in DOMAIN all |-> [start |-> RangeOf(all[i]).start,
                                        end   |-> RangeOf(all[i]).end,
                                        is    |-> all[i]]]
      sorted  == Sorted(ordered)
      Add(done, c) ==
        IF done # <<>> /\ Intersect(RangeOf(Last(done)), RangeOf(c))
        THEN Append(Front(done), Merged(Last(done), c, main))
        ELSE Append(done, c)
      added[i \in 0 .. Len(all)] ==
        IF i = 0 THEN <<>> ELSE Add(added[i - 1], sorted[i].is)
      merged  == added[Len(all)]
      First(Test(_)) == {i \in DOMAIN merged :
                           /\ Test(merged[i])
                           /\ \A j \in 1 .. i - 1 : ~Test(merged[j])}
      itself == First(LAMBDA c : c = main)
      where  == First(LAMBDA c : Intersect(RangeOf(c), RangeOf(main)))
  IN  [cursors |-> merged,
       primary |-> CHOOSE i \in (IF itself # {} THEN itself ELSE
                                 IF where # {} THEN where ELSE {1}) : TRUE]

\* SelectionSet::map.
Mapped(set, F(_)) ==
  Normalized([i \in DOMAIN set.cursors |-> F(set.cursors[i])], set.primary)

\* The lines a cursor touches.  A selection that ends in column 0 does not
\* touch the line it ends on.
TouchedBy(t, c) ==
  LET first == LineOf(t, RangeOf(c).start)
      last  == LineOf(t, RangeOf(c).end)
  IN  first .. (IF Column(t, RangeOf(c).end) = 0 /\ last > first THEN last - 1 ELSE last)

SelectedLines(t, cs) == UNION {TouchedBy(t, cs[i]) : i \in DOMAIN cs}

\* A cursor kept at its line and column, moved by some lines, in another text.
Shifted(t, after, c, lines) ==
  LET Put(at) == At(after, Larger(LineOf(t, at) + lines, 0), Column(t, at))
  IN  Cursor(Put(c.anchor), Put(c.active))
=============================================================================
