---------------------------- MODULE History_proofs ----------------------------
(***************************************************************************)
(* Undo histories that fit their texts, for any documents, any number of   *)
(* edits and shared edits, and histories of any length.                    *)
(***************************************************************************)
EXTENDS History, FiniteSetTheorems, FunctionTheorems, SequenceTheorems,
        WellFoundedInduction, TLAPS

(***************************************************************************)
(* The invariant of one document.  Texts are numbered as they come about,  *)
(* so that an undo entry leads down and a redo entry up.                   *)
(***************************************************************************)
Falls(entry) ==
  \A i \in 1 .. Len(entry.steps) :
    /\ Arrives(entry) <= entry.steps[i].to
    /\ entry.steps[i].to < entry.steps[i].from
    /\ entry.steps[i].from <= Begins(entry)

Rises(entry) ==
  \A i \in 1 .. Len(entry.steps) :
    /\ Begins(entry) <= entry.steps[i].from
    /\ entry.steps[i].from < entry.steps[i].to
    /\ entry.steps[i].to <= Arrives(entry)

\* What was undone to is older than the text; an entry that typing may still
\* join does not begin where typing was interrupted.
Past(t, stack, st) ==
  /\ stack \in Seq(Entries) /\ Leads(stack, t)
  /\ \A i \in 1 .. Len(stack) :
       /\ Falls(stack[i]) /\ Begins(stack[i]) <= t
       /\ Passed(stack[i]) \cap st = {}
       /\ stack[i].kind # "discrete" => Begins(stack[i]) \notin st
  /\ \A i \in 1 .. Len(stack) : \A j \in 1 .. i - 1 : Begins(stack[j]) <= Arrives(stack[i])

Future(t, stack, st, n) ==
  /\ stack \in Seq(Entries) /\ Leads(stack, t)
  /\ \A i \in 1 .. Len(stack) :
       /\ Rises(stack[i]) /\ t <= Begins(stack[i]) /\ Arrives(stack[i]) <= n
       /\ Passed(stack[i]) \cap st = {}
       /\ stack[i].kind = "discrete"
  /\ \A i \in 1 .. Len(stack) : \A j \in 1 .. i - 1 : Arrives(stack[i]) <= Begins(stack[j])

Fits(t, u, r, st, n) ==
  /\ t \in Texts /\ t <= n /\ Len(u) + Len(r) <= MaxEntries
  /\ Past(t, u, st) /\ Future(t, r, st, n)

\* The texts a history names.
Named(entry) ==
  {x \in Texts : \E i \in 1 .. Len(entry.steps) :
                   x = entry.steps[i].from \/ x = entry.steps[i].to}

Names(stack) == {x \in Texts : \E i \in 1 .. Len(stack) : x \in Named(stack[i])}

Met(t, u, r) == {t} \cup Names(u) \cup Names(r)

(***************************************************************************)
(* The invariant: each document fits, and no two have a text in common but *)
(* the one they were opened with.                                          *)
(***************************************************************************)
MetBy(d) == Met(text[d], undo[d], redo[d])

Framed ==
  /\ open \subseteq Docs /\ active \in open
  /\ text = [d \in Docs |-> text[d]] /\ carets = [d \in Docs |-> carets[d]]
  /\ undo = [d \in Docs |-> undo[d]] /\ redo = [d \in Docs |-> redo[d]]
  /\ \A d \in Docs \ open : text[d] = 0 /\ undo[d] = <<>> /\ redo[d] = <<>>
  /\ texts \in Texts /\ groups \in Group
  /\ shared \in [Docs -> [with : SUBSET Docs, done : BOOLEAN]]

HInv ==
  /\ Framed /\ stops \subseteq 0 .. texts
  /\ \A d \in Docs : /\ carets[d] = text[d]
                     /\ Fits(text[d], undo[d], redo[d], stops, texts)
  /\ \A d, e \in Docs : d # e => MetBy(d) \cap MetBy(e) \subseteq {0}

\* Documents that moved together have one step to take together.
Joint ==
  \A d \in Docs : \A e \in shared[d].with :
    /\ d \in open /\ e \in open
    /\ shared[d].done => GroupOf(undo[d]) # 0 /\ GroupOf(undo[e]) = GroupOf(undo[d])
    /\ ~shared[d].done => GroupOf(redo[d]) # 0 /\ GroupOf(redo[e]) = GroupOf(redo[d])

IInv == HInv /\ Joint

(***************************************************************************)
(* Lemmas on the texts an entry leads through.                             *)
(***************************************************************************)
LEMMA LeastOf ==
  ASSUME NEW S, S \subseteq Nat, S # {}
  PROVE  \E n \in S : \A m \in S : n <= m
<1>1. PICK n \in S : \A m \in S : <<m, n>> \notin OpToRel(<, Nat)
  BY NatLessThanWellFounded, WFMin
<1>2. \A m \in S : ~(m < n)
  BY <1>1, Zenon DEF OpToRel
<1> QED BY <1>2

\* Two functions that agree at zero and step alike agree.
LEMMA StepAlike ==
  ASSUME NEW n \in Nat, NEW f, NEW g, f[0] = g[0],
         \A i \in 1 .. n : f[i - 1] = g[i - 1] => f[i] = g[i]
  PROVE  \A i \in 0 .. n : f[i] = g[i]
<1> DEFINE S == {i \in 0 .. n : f[i] # g[i]}
<1> SUFFICES ASSUME S # {} PROVE FALSE
  OBVIOUS
<1>1. S \subseteq Nat
  OBVIOUS
<1>2. PICK i \in S : \A j \in S : i <= j
  BY <1>1, LeastOf
<1>3. i \in 1 .. n /\ i - 1 \in 0 .. n /\ i - 1 \notin S
  BY <1>2
<1> QED BY <1>2, <1>3

LEMMA StepsAre ==
  ASSUME NEW entry \in Entries, Whole(entry)
  PROVE  /\ entry.steps \in Seq(Transactions) /\ Len(entry.steps) \in Nat \ {0}
         /\ \A i \in 1 .. Len(entry.steps) :
              entry.steps[i].from \in Texts /\ entry.steps[i].to \in Texts
         /\ Begins(entry) \in Texts /\ Arrives(entry) \in Texts
         /\ entry.before = Begins(entry) /\ entry.after = Arrives(entry)
         /\ entry.group \in Group /\ entry.kind \in Kinds
<1>1. entry.steps \in Seq(Transactions) /\ entry.steps # <<>>
      /\ entry.group \in Group /\ entry.kind \in Kinds
      /\ entry.before = Begins(entry) /\ entry.after = Arrives(entry)
  BY DEF Entries, Whole
<1>2. Len(entry.steps) \in Nat \ {0}
  BY <1>1
<1>3. \A i \in 1 .. Len(entry.steps) : entry.steps[i] \in Transactions
  BY <1>1
<1>4. \A i \in 1 .. Len(entry.steps) :
        entry.steps[i].from \in Texts /\ entry.steps[i].to \in Texts
  BY <1>3 DEF Transactions
<1>5. 1 \in 1 .. Len(entry.steps) /\ Len(entry.steps) \in 1 .. Len(entry.steps)
  BY <1>2
<1> QED BY <1>1, <1>2, <1>4, <1>5 DEF Begins, Arrives

\* Steps that follow on one another lead a text from each to the next.
LEMMA TrailIs ==
  ASSUME NEW entry \in Entries, Whole(entry)
  PROVE  /\ Trail(Begins(entry), entry.steps)[0] = Begins(entry)
         /\ \A i \in 1 .. Len(entry.steps) :
              Trail(Begins(entry), entry.steps)[i] = entry.steps[i].to
<1> DEFINE steps == entry.steps
           n == Len(steps)
           t == Begins(entry)
           F(g) == [i \in 0 .. n |-> IF i = 0 THEN t ELSE Applied(g[i - 1], steps[i])]
           trail == CHOOSE g : g = F(g)
           known == [i \in 0 .. n |-> IF i = 0 THEN t ELSE steps[i].to]
<1>1. n \in Nat /\ n # 0
  BY StepsAre
<1>2. known[0] = t /\ \A i \in 1 .. n : known[i] = steps[i].to
  BY <1>1
<1>3. \A i \in 1 .. n : steps[i].from = known[i - 1]
  <2> TAKE i \in 1 .. n
  <2>1. CASE i = 1
    BY <1>2, <2>1 DEF Begins
  <2>2. CASE i # 1
    <3>1. i \in 2 .. n /\ i - 1 \in 1 .. n
      BY <1>1, <2>2
    <3>2. steps[i - 1].to = steps[i].from
      BY <3>1 DEF Whole
    <3> QED BY <1>2, <3>1, <3>2
  <2> QED BY <2>1, <2>2
<1>4. \A i \in 1 .. n : known[i] = Applied(known[i - 1], steps[i])
  BY <1>2, <1>3 DEF Applied
<1>5. known = F(known)
  <2>1. \A i \in 0 .. n : i # 0 => i \in 1 .. n
    BY <1>1
  <2>2. known = [i \in 0 .. n |-> known[i]]
    OBVIOUS
  <2> HIDE DEF known, n, steps, t
  <2>3. \A i \in 0 .. n : known[i] = IF i = 0 THEN t ELSE Applied(known[i - 1], steps[i])
    BY <1>2, <1>4, <2>1
  <2> QED BY <2>2, <2>3
<1>6. trail = F(trail)
  BY <1>5
<1>7. /\ trail[0] = t
      /\ \A i \in 1 .. n : trail[i] = Applied(trail[i - 1], steps[i])
  <2>1. \A i \in 1 .. n : i \in 0 .. n /\ i # 0
    BY <1>1
  <2> HIDE DEF trail, steps, t, n
  <2>2. trail = [i \in 0 .. n |-> IF i = 0 THEN t ELSE Applied(trail[i - 1], steps[i])]
    BY <1>6
  <2>3. 0 \in 0 .. n
    BY <1>1
  <2> HIDE DEF F
  <2> QED BY <2>1, <2>2, <2>3
<1>8. Trail(t, steps) = trail
  BY DEF Trail
<1> HIDE DEF trail, known, F
<1>9. \A i \in 0 .. n : trail[i] = known[i]
  <2>1. \A i \in 1 .. n : trail[i - 1] = known[i - 1] => trail[i] = known[i]
    BY <1>4, <1>7
  <2>2. trail[0] = known[0] /\ n \in Nat
    BY <1>1, <1>2, <1>7
  <2> HIDE DEF n
  <2> QED BY ONLY <2>1, <2>2, StepAlike
<1> QED BY <1>1, <1>2, <1>8, <1>9

(***************************************************************************)
(* An entry made by an edit, one it joins, and one that reverses another.  *)
(***************************************************************************)
LEMMA EntryIs ==
  ASSUME NEW b \in Texts, NEW t \in Texts, b < t, NEW kind \in Kinds, NEW group \in Group
  PROVE  LET entry == Entry(b, t, kind, group) IN
         /\ entry \in Entries /\ Whole(entry) /\ Falls(entry)
         /\ Begins(entry) = t /\ Arrives(entry) = b
         /\ Passed(entry) = {} /\ Named(entry) \subseteq {b, t}
         /\ entry.kind = kind /\ entry.group = group
<1> DEFINE entry == Entry(b, t, kind, group)
<1>1. /\ entry.steps = <<[from |-> t, to |-> b]>> /\ entry.after = b /\ entry.before = t
      /\ entry.kind = kind /\ entry.group = group
  BY DEF Entry
<1>2. entry \in Entries
  BY DEF Entry, Entries, Transactions
<1> HIDE DEF entry
<1>3. /\ Len(entry.steps) = 1 /\ entry.steps # <<>>
      /\ entry.steps[1].from = t /\ entry.steps[1].to = b
  BY <1>1
<1>4. Begins(entry) = t /\ Arrives(entry) = b
  BY <1>3 DEF Begins, Arrives
<1>5. Whole(entry) /\ Passed(entry) = {} /\ Named(entry) \subseteq {b, t}
  BY <1>1, <1>3, <1>4 DEF Whole, Passed, Named
<1>6. Falls(entry)
  BY <1>3, <1>4 DEF Falls, Texts
<1> QED BY <1>1, <1>2, <1>4, <1>5, <1>6 DEF entry

LEMMA JoinedIs ==
  ASSUME NEW old \in Entries, Whole(old), Falls(old),
         NEW t \in Texts, Begins(old) < t
  PROVE  LET entry == Joined(old, Begins(old), t) IN
         /\ entry \in Entries /\ Whole(entry) /\ Falls(entry)
         /\ Begins(entry) = t /\ Arrives(entry) = Arrives(old)
         /\ Passed(entry) \subseteq Passed(old) \cup {Begins(old)}
         /\ Named(entry) \subseteq Named(old) \cup {Begins(old), t}
         /\ entry.kind = old.kind /\ entry.group = old.group
<1> DEFINE b == Begins(old)
           entry == Joined(old, b, t)
           first == [from |-> t, to |-> b]
           n == Len(old.steps)
<1>1. /\ old.steps \in Seq(Transactions) /\ n \in Nat \ {0} /\ b \in Texts
      /\ Arrives(old) \in Texts
      /\ \A i \in 1 .. n : old.steps[i].from \in Texts /\ old.steps[i].to \in Texts
      /\ old.after = Arrives(old)
  BY StepsAre
<1>2. /\ entry.steps = <<first>> \o old.steps /\ entry.before = t
      /\ entry.after = old.after /\ entry.kind = old.kind /\ entry.group = old.group
  BY DEF Joined, Entries
<1>3. entry.steps \in Seq(Transactions)
  <2>1. first \in Transactions
    BY <1>1 DEF Transactions
  <2> HIDE DEF first, entry
  <2> QED BY <1>1, <1>2, <2>1
<1>4. entry \in Entries
  <2>1. entry = [old EXCEPT !.steps = <<first>> \o old.steps, !.before = t]
    BY DEF Joined
  <2>2. <<first>> \o old.steps \in Seq(Transactions)
    BY <1>2, <1>3
  <2> HIDE DEF entry, first
  <2> QED BY <2>1, <2>2 DEF Entries
<1> HIDE DEF entry
<1>5. /\ Len(entry.steps) = n + 1 /\ entry.steps # <<>> /\ entry.steps[1] = first
      /\ \A i \in 1 .. n : entry.steps[i + 1] = old.steps[i]
  BY <1>1, <1>2
<1>6. \A i \in 2 .. n + 1 : i - 1 \in 1 .. n /\ entry.steps[i] = old.steps[i - 1]
  <2> TAKE i \in 2 .. n + 1
  <2>1. i - 1 \in 1 .. n /\ (i - 1) + 1 = i
    BY <1>1
  <2> QED BY <1>5, <2>1
<1>7. Begins(entry) = t /\ entry.steps[1].to = b /\ entry.steps[1].from = t
  BY <1>5 DEF Begins
<1> HIDE DEF b, first
<1>8. Arrives(entry) = Arrives(old)
  BY <1>1, <1>5 DEF Arrives
<1>9. Whole(entry)
  <2>1. ASSUME NEW i \in 2 .. n + 1
        PROVE  entry.steps[i - 1].to = entry.steps[i].from
    <3>1. CASE i = 2
      BY <1>1, <1>6, <1>7, <3>1 DEF b, Begins
    <3>2. CASE i # 2
      <4>1. i - 1 \in 2 .. n + 1 /\ i - 1 \in 2 .. n
        BY <1>1, <3>2
      <4>2. entry.steps[i - 1] = old.steps[(i - 1) - 1] /\ entry.steps[i] = old.steps[i - 1]
        BY <1>6, <4>1
      <4>3. old.steps[(i - 1) - 1].to = old.steps[i - 1].from
        BY <4>1 DEF Whole
      <4> QED BY <4>2, <4>3
    <3> QED BY <3>1, <3>2
  <2> QED BY <1>1, <1>2, <1>5, <1>7, <1>8, <2>1 DEF Whole
<1>10. Falls(entry)
  <2>1. ASSUME NEW i \in 1 .. n + 1
        PROVE  /\ Arrives(entry) <= entry.steps[i].to
               /\ entry.steps[i].to < entry.steps[i].from
               /\ entry.steps[i].from <= Begins(entry)
    <3>1. CASE i = 1
      <4>1. Arrives(old) <= old.steps[1].to /\ old.steps[1].to < old.steps[1].from
            /\ old.steps[1].from = b /\ old.steps[1].to \in Texts
        BY <1>1 DEF Falls, Begins, b
      <4> QED BY <1>1, <1>7, <1>8, <3>1, <4>1 DEF Texts, b
    <3>2. CASE i # 1
      <4>1. i - 1 \in 1 .. n /\ entry.steps[i] = old.steps[i - 1]
        BY <1>1, <1>6, <3>2
      <4>2. /\ Arrives(old) <= old.steps[i - 1].to
            /\ old.steps[i - 1].to < old.steps[i - 1].from
            /\ old.steps[i - 1].from <= b /\ old.steps[i - 1].from \in Texts
        BY <1>1, <4>1 DEF Falls, b
      <4> QED BY <1>1, <1>7, <1>8, <4>1, <4>2 DEF Texts, b
    <3> QED BY <3>1, <3>2
  <2> QED BY <1>5, <2>1 DEF Falls
<1>11. Passed(entry) \subseteq Passed(old) \cup {b}
  <2>1. ASSUME NEW i \in 1 .. (n + 1) - 1
        PROVE  entry.steps[i].to \in Passed(old) \cup {b}
    <3>1. CASE i = 1
      BY <1>7, <3>1
    <3>2. CASE i # 1
      <4>1. i \in 2 .. n + 1 /\ i - 1 \in 1 .. n - 1
        BY <1>1, <3>2
      <4> QED BY <1>6, <4>1 DEF Passed
    <3> QED BY <3>1, <3>2
  <2> QED BY <1>5, <2>1 DEF Passed
<1>12. Named(entry) \subseteq Named(old) \cup {b, t}
  <2>1. ASSUME NEW i \in 1 .. n + 1
        PROVE  {entry.steps[i].from, entry.steps[i].to} \subseteq Named(old) \cup {b, t}
    <3>1. CASE i = 1
      BY <1>7, <3>1
    <3>2. CASE i # 1
      <4>1. i - 1 \in 1 .. n /\ entry.steps[i] = old.steps[i - 1]
        BY <1>1, <1>6, <3>2
      <4> QED BY <1>1, <4>1 DEF Named
    <3> QED BY <3>1, <3>2
  <2> QED BY <1>5, <2>1 DEF Named
<1> QED BY <1>2, <1>4, <1>7, <1>8, <1>9, <1>10, <1>11, <1>12 DEF entry, b

\* Undoing or redoing an entry gets where it arrives, and what reverses it
\* leads back through the same texts.
LEMMA OppositeIs ==
  ASSUME NEW old \in Entries, Whole(old)
  PROVE  LET entry == Opposite(Begins(old), old) IN
         /\ Result(Begins(old), old) = Arrives(old)
         /\ entry \in Entries /\ Whole(entry)
         /\ Begins(entry) = Arrives(old) /\ Arrives(entry) = Begins(old)
         /\ Passed(entry) \subseteq Passed(old) /\ Named(entry) \subseteq Named(old)
         /\ Falls(old) => Rises(entry)
         /\ Rises(old) => Falls(entry)
         /\ entry.kind = "discrete" /\ entry.group = old.group
<1> DEFINE t == Begins(old)
           n == Len(old.steps)
           trail == Trail(t, old.steps)
           entry == Opposite(t, old)
<1>1. /\ old.steps \in Seq(Transactions) /\ n \in Nat \ {0} /\ t \in Texts
      /\ Arrives(old) \in Texts
      /\ \A i \in 1 .. n : old.steps[i].from \in Texts /\ old.steps[i].to \in Texts
      /\ old.after = Arrives(old) /\ old.before = t /\ old.group \in Group
  BY StepsAre
<1>2. trail[0] = t /\ \A i \in 1 .. n : trail[i] = old.steps[i].to
  BY TrailIs
<1>3. Result(t, old) = Arrives(old)
  BY <1>1, <1>2 DEF Result, Arrives
<1> DEFINE back == [i \in 1 .. n |-> [from |-> trail[n + 1 - i], to |-> trail[n - i]]]
<1>4. /\ entry.steps = back /\ entry.after = old.before /\ entry.before = old.after
      /\ entry.kind = "discrete" /\ entry.group = old.group
      /\ entry = [steps |-> back, after |-> old.before, before |-> old.after,
                  kind |-> "discrete", group |-> old.group]
  BY DEF Opposite
<1> HIDE DEF entry, trail
<1>5. \A i \in 1 .. n : trail[i - 1] = old.steps[i].from
  <2> TAKE i \in 1 .. n
  <2>1. CASE i = 1
    BY <1>2, <2>1 DEF Begins
  <2>2. CASE i # 1
    <3>1. i \in 2 .. n /\ i - 1 \in 1 .. n
      BY <1>1, <2>2
    <3>2. old.steps[i - 1].to = old.steps[i].from
      BY <3>1 DEF Whole
    <3> QED BY <1>2, <3>1, <3>2
  <2> QED BY <2>1, <2>2
<1>6. \A i \in 1 .. n : /\ n + 1 - i \in 1 .. n
                        /\ back[i].from = old.steps[n + 1 - i].to
                        /\ back[i].to = old.steps[n + 1 - i].from
  <2> TAKE i \in 1 .. n
  <2>1. n + 1 - i \in 1 .. n /\ (n + 1 - i) - 1 = n - i
    BY <1>1
  <2> QED BY <1>2, <1>5, <2>1
<1>7. back \in Seq(Transactions) /\ Len(back) = n /\ back # <<>>
  <2>1. \A i \in 1 .. n : back[i] \in Transactions
    <3> TAKE i \in 1 .. n
    <3>1. back[i] = [from |-> back[i].from, to |-> back[i].to]
      OBVIOUS
    <3>2. back[i].from \in Texts /\ back[i].to \in Texts
      BY <1>1, <1>6
    <3> HIDE DEF back
    <3> QED BY <3>1, <3>2 DEF Transactions
  <2>2. back = [i \in 1 .. n |-> back[i]]
    OBVIOUS
  <2> HIDE DEF back
  <2> QED BY <1>1, <2>1, <2>2
<1>8. entry \in Entries
  BY <1>1, <1>4, <1>7 DEF Entries, Kinds
<1> HIDE DEF back
<1>9. Begins(entry) = Arrives(old) /\ Arrives(entry) = t
  <2>1. 1 \in 1 .. n /\ n \in 1 .. n /\ n + 1 - 1 = n /\ n + 1 - n = 1
    BY <1>1
  <2>2. back[1].from = old.steps[n].to /\ back[n].to = old.steps[1].from
    BY <1>6, <2>1
  <2> QED BY <1>4, <1>7, <2>2 DEF Begins, Arrives
<1>10. Whole(entry)
  <2>1. ASSUME NEW i \in 2 .. n
        PROVE  back[i - 1].to = back[i].from
    <3>1. /\ i \in 1 .. n /\ i - 1 \in 1 .. n /\ n + 1 - (i - 1) = (n + 1 - i) + 1
          /\ (n + 1 - i) + 1 \in 2 .. n /\ ((n + 1 - i) + 1) - 1 = n + 1 - i
      BY <1>1
    <3>2. old.steps[n + 1 - i].to = old.steps[(n + 1 - i) + 1].from
      BY <3>1 DEF Whole
    <3> QED BY <1>6, <3>1, <3>2
  <2> QED BY <1>1, <1>4, <1>7, <1>9, <2>1 DEF Whole
<1>11. Passed(entry) \subseteq Passed(old)
  <2>1. ASSUME NEW i \in 1 .. n - 1
        PROVE  back[i].to \in Passed(old)
    <3>1. i \in 1 .. n /\ n - i \in 1 .. n - 1 /\ n + 1 - i \in 2 .. n /\ (n + 1 - i) - 1 = n - i
      BY <1>1
    <3>2. old.steps[n - i].to = old.steps[n + 1 - i].from
      BY <3>1 DEF Whole
    <3> QED BY <1>6, <3>1, <3>2 DEF Passed
  <2> QED BY <1>4, <1>7, <2>1 DEF Passed
<1>12. Named(entry) \subseteq Named(old)
  <2>1. \A i \in 1 .. n : back[i].from \in Named(old) /\ back[i].to \in Named(old)
    BY <1>1, <1>6 DEF Named
  <2> QED BY <1>4, <1>7, <2>1 DEF Named
<1>13. (Falls(old) => Rises(entry)) /\ (Rises(old) => Falls(entry))
  BY <1>4, <1>6, <1>7, <1>9 DEF Falls, Rises
<1> QED BY <1>3, <1>4, <1>8, <1>9, <1>10, <1>11, <1>12, <1>13 DEF entry

(***************************************************************************)
(* Stacks: what is left by taking an entry, adding one, dropping the       *)
(* oldest and ending the typing.                                           *)
(***************************************************************************)
LEMMA PopIs ==
  ASSUME NEW stack \in Seq(Entries), stack # <<>>
  PROVE  /\ Len(stack) \in Nat \ {0} /\ Top(stack) \in Entries
         /\ Pop(stack) \in Seq(Entries) /\ Len(Pop(stack)) = Len(stack) - 1
         /\ \A i \in 1 .. Len(stack) - 1 : Pop(stack)[i] = stack[i]
         /\ Names(Pop(stack)) \subseteq Names(stack)
         /\ Named(Top(stack)) \subseteq Names(stack)
<1>1. Len(stack) \in Nat \ {0} /\ Top(stack) \in Entries
  BY DEF Top
<1>2. Pop(stack) \in Seq(Entries) /\ Len(Pop(stack)) = Len(stack) - 1
      /\ \A i \in 1 .. Len(stack) - 1 : Pop(stack)[i] = stack[i]
  <2> DEFINE n == Len(stack) - 1
  <2>1. n \in Nat /\ 1 \in Int /\ n \in Int /\ \A i \in 1 .. n : stack[i] \in Entries
    BY <1>1
  <2> HIDE DEF n
  <2>2. /\ SubSeq(stack, 1, n) \in Seq(Entries)
        /\ Len(SubSeq(stack, 1, n)) = IF 1 <= n THEN n - 1 + 1 ELSE 0
        /\ \A i \in 1 .. n - 1 + 1 : SubSeq(stack, 1, n)[i] = stack[1 + i - 1]
    BY <2>1, SubSeqProperties
  <2>3. /\ SubSeq(stack, 1, n) \in Seq(Entries) /\ Len(SubSeq(stack, 1, n)) = n
        /\ \A i \in 1 .. n : SubSeq(stack, 1, n)[i] = stack[i]
    BY <2>1, <2>2
  <2> QED BY <2>3 DEF Pop, n
<1>3. Names(Pop(stack)) \subseteq Names(stack)
  BY <1>1, <1>2 DEF Names
<1>4. Named(Top(stack)) \subseteq Names(stack)
  BY <1>1 DEF Names, Named, Top
<1> QED BY <1>1, <1>2, <1>3, <1>4

LEMMA AppendIs ==
  ASSUME NEW stack \in Seq(Entries), NEW entry \in Entries
  PROVE  /\ Append(stack, entry) \in Seq(Entries) /\ Append(stack, entry) # <<>>
         /\ Len(Append(stack, entry)) = Len(stack) + 1 /\ Len(stack) \in Nat
         /\ \A i \in 1 .. Len(stack) : Append(stack, entry)[i] = stack[i]
         /\ Append(stack, entry)[Len(stack) + 1] = entry
         /\ Top(Append(stack, entry)) = entry
         /\ Names(Append(stack, entry)) \subseteq Names(stack) \cup Named(entry)
<1>1. /\ Append(stack, entry) \in Seq(Entries) /\ Append(stack, entry) # <<>>
      /\ Len(Append(stack, entry)) = Len(stack) + 1 /\ Len(stack) \in Nat
      /\ \A i \in 1 .. Len(stack) : Append(stack, entry)[i] = stack[i]
      /\ Append(stack, entry)[Len(stack) + 1] = entry
  OBVIOUS
<1>2. Top(Append(stack, entry)) = entry
  BY <1>1 DEF Top
<1>3. Names(Append(stack, entry)) \subseteq Names(stack) \cup Named(entry)
  BY <1>1 DEF Names
<1> QED BY <1>1, <1>2, <1>3

\* An entry leads from a text to an older or a newer one.
LEMMA EndsApart ==
  ASSUME NEW entry \in Entries, Whole(entry)
  PROVE  /\ Falls(entry) => Arrives(entry) < Begins(entry)
         /\ Rises(entry) => Begins(entry) < Arrives(entry)
         /\ Begins(entry) \in Named(entry) /\ Arrives(entry) \in Named(entry)
<1>1. /\ 1 \in 1 .. Len(entry.steps) /\ Len(entry.steps) \in 1 .. Len(entry.steps)
      /\ entry.steps[1].from \in Texts /\ entry.steps[1].to \in Texts
      /\ Begins(entry) \in Texts /\ Arrives(entry) \in Texts
  BY StepsAre
<1>2. Begins(entry) \in Named(entry) /\ Arrives(entry) \in Named(entry)
  BY <1>1 DEF Named, Begins, Arrives
<1>3. Texts \subseteq Int
  BY HistoryAssumption DEF Texts
<1>4. ASSUME Falls(entry) PROVE Arrives(entry) < Begins(entry)
  <2>1. /\ Arrives(entry) <= entry.steps[1].to /\ entry.steps[1].to < entry.steps[1].from
        /\ entry.steps[1].from <= Begins(entry)
    BY <1>1, <1>4 DEF Falls
  <2>2. /\ entry.steps[1].from \in Int /\ entry.steps[1].to \in Int
        /\ Begins(entry) \in Int /\ Arrives(entry) \in Int
    BY <1>1, <1>3
  <2> QED BY <2>1, <2>2
<1>5. ASSUME Rises(entry) PROVE Begins(entry) < Arrives(entry)
  <2>1. /\ Begins(entry) <= entry.steps[1].from /\ entry.steps[1].from < entry.steps[1].to
        /\ entry.steps[1].to <= Arrives(entry)
    BY <1>1, <1>5 DEF Rises
  <2>2. /\ entry.steps[1].from \in Int /\ entry.steps[1].to \in Int
        /\ Begins(entry) \in Int /\ Arrives(entry) \in Int
    BY <1>1, <1>3
  <2> QED BY <2>1, <2>2
<1> QED BY <1>2, <1>4, <1>5

LEMMA PastPop ==
  ASSUME NEW t, NEW stack, NEW st, Past(t, stack, st), stack # <<>>
  PROVE  Past(Arrives(Top(stack)), Pop(stack), st)
<1> DEFINE n == Len(stack)
<1>1. /\ stack \in Seq(Entries) /\ n \in Nat \ {0} /\ Top(stack) = stack[n]
      /\ Pop(stack) \in Seq(Entries) /\ Len(Pop(stack)) = n - 1
      /\ \A i \in 1 .. n - 1 : Pop(stack)[i] = stack[i]
  BY PopIs DEF Past, Top
<1>2. Leads(Pop(stack), Arrives(Top(stack)))
  <2>1. ASSUME NEW i \in 1 .. n - 1
        PROVE  /\ Whole(Pop(stack)[i])
               /\ Begins(Pop(stack)[i]) = IF i = n - 1 THEN Arrives(Top(stack))
                                         ELSE Arrives(Pop(stack)[i + 1])
    <3>1. i \in 1 .. n /\ i # n /\ (i # n - 1 => i + 1 \in 1 .. n - 1)
      BY <1>1
    <3> QED BY <1>1, <3>1 DEF Past, Leads
  <2> QED BY <1>1, <2>1 DEF Leads
<1>3. \A i \in 1 .. n - 1 : Begins(stack[i]) <= Arrives(Top(stack))
  BY <1>1 DEF Past
<1> QED BY <1>1, <1>2, <1>3 DEF Past

LEMMA FuturePop ==
  ASSUME NEW t, NEW stack, NEW st, NEW n, Future(t, stack, st, n), stack # <<>>
  PROVE  Future(Arrives(Top(stack)), Pop(stack), st, n)
<1> DEFINE k == Len(stack)
<1>1. /\ stack \in Seq(Entries) /\ k \in Nat \ {0} /\ Top(stack) = stack[k]
      /\ Pop(stack) \in Seq(Entries) /\ Len(Pop(stack)) = k - 1
      /\ \A i \in 1 .. k - 1 : Pop(stack)[i] = stack[i]
  BY PopIs DEF Future, Top
<1>2. Leads(Pop(stack), Arrives(Top(stack)))
  <2>1. ASSUME NEW i \in 1 .. k - 1
        PROVE  /\ Whole(Pop(stack)[i])
               /\ Begins(Pop(stack)[i]) = IF i = k - 1 THEN Arrives(Top(stack))
                                         ELSE Arrives(Pop(stack)[i + 1])
    <3>1. i \in 1 .. k /\ i # k /\ (i # k - 1 => i + 1 \in 1 .. k - 1)
      BY <1>1
    <3> QED BY <1>1, <3>1 DEF Future, Leads
  <2> QED BY <1>1, <2>1 DEF Leads
<1>3. \A i \in 1 .. k - 1 : Arrives(Top(stack)) <= Begins(stack[i])
  BY <1>1 DEF Future
<1> QED BY <1>1, <1>2, <1>3 DEF Future

LEMMA PastPush ==
  ASSUME NEW t, NEW stack, NEW st, Past(t, stack, st),
         NEW entry \in Entries, Whole(entry), Falls(entry), Arrives(entry) = t,
         Passed(entry) \cap st = {}, entry.kind # "discrete" => Begins(entry) \notin st
  PROVE  Past(Begins(entry), Append(stack, entry), st)
<1> DEFINE n == Len(stack)
           more == Append(stack, entry)
<1>1. /\ stack \in Seq(Entries) /\ n \in Nat /\ more \in Seq(Entries) /\ Len(more) = n + 1
      /\ \A i \in 1 .. n : more[i] = stack[i]
      /\ more[n + 1] = entry
  BY AppendIs DEF Past
<1> HIDE DEF more
<1>2. Leads(more, Begins(entry))
  BY <1>1 DEF Past, Leads
<1>3. t < Begins(entry) /\ t \in Int /\ Begins(entry) \in Int
  BY StepsAre, EndsApart, HistoryAssumption DEF Texts
<1>4. \A i \in 1 .. n : Begins(stack[i]) <= t /\ Begins(stack[i]) \in Int
  BY <1>1, StepsAre, HistoryAssumption DEF Past, Leads, Texts
<1>5. ASSUME NEW i \in 1 .. n + 1
      PROVE  /\ Falls(more[i]) /\ Begins(more[i]) <= Begins(entry)
             /\ Passed(more[i]) \cap st = {}
             /\ more[i].kind # "discrete" => Begins(more[i]) \notin st
             /\ \A j \in 1 .. i - 1 : Begins(more[j]) <= Arrives(more[i])
  <2>1. CASE i = n + 1
    BY <1>1, <1>3, <1>4, <2>1
  <2>2. CASE i # n + 1
    <3>1. i \in 1 .. n /\ \A j \in 1 .. i - 1 : j \in 1 .. n
      BY <1>1, <2>2
    <3> QED BY <1>1, <1>3, <1>4, <3>1 DEF Past
  <2> QED BY <2>1, <2>2
<1>6. Past(Begins(entry), more, st)
  BY <1>1, <1>2, <1>5 DEF Past
<1> QED BY <1>6 DEF more

LEMMA FuturePush ==
  ASSUME NEW t, NEW stack, NEW st, NEW n, Future(t, stack, st, n), t <= n,
         NEW entry \in Entries, Whole(entry), Rises(entry), Arrives(entry) = t,
         Passed(entry) \cap st = {}, entry.kind = "discrete"
  PROVE  Future(Begins(entry), Append(stack, entry), st, n)
<1> DEFINE k == Len(stack)
           more == Append(stack, entry)
<1>1. /\ stack \in Seq(Entries) /\ k \in Nat /\ more \in Seq(Entries) /\ Len(more) = k + 1
      /\ \A i \in 1 .. k : more[i] = stack[i]
      /\ more[k + 1] = entry
  BY AppendIs DEF Future
<1> HIDE DEF more
<1>2. Leads(more, Begins(entry))
  BY <1>1 DEF Future, Leads
<1>3. Begins(entry) < t /\ t \in Int /\ Begins(entry) \in Int
  BY StepsAre, EndsApart, HistoryAssumption DEF Texts
<1>4. \A i \in 1 .. k : t <= Begins(stack[i]) /\ Begins(stack[i]) \in Int
  BY <1>1, StepsAre, HistoryAssumption DEF Future, Leads, Texts
<1>5. ASSUME NEW i \in 1 .. k + 1
      PROVE  /\ Rises(more[i]) /\ Begins(entry) <= Begins(more[i])
             /\ Arrives(more[i]) <= n
             /\ Passed(more[i]) \cap st = {}
             /\ more[i].kind = "discrete"
             /\ \A j \in 1 .. i - 1 : Arrives(more[i]) <= Begins(more[j])
  <2>1. CASE i = k + 1
    BY <1>1, <1>3, <1>4, <2>1
  <2>2. CASE i # k + 1
    <3>1. i \in 1 .. k /\ \A j \in 1 .. i - 1 : j \in 1 .. k
      BY <1>1, <2>2
    <3> QED BY <1>1, <1>3, <1>4, <3>1 DEF Future
  <2> QED BY <2>1, <2>2
<1>6. Future(Begins(entry), more, st, n)
  BY <1>1, <1>2, <1>5 DEF Future
<1> QED BY <1>6 DEF more

\* The history without its oldest step.
LEMMA PastDrop ==
  ASSUME NEW t, NEW stack, NEW st, Past(t, stack, st), stack # <<>>
  PROVE  /\ Past(t, SubSeq(stack, 2, Len(stack)), st)
         /\ Len(SubSeq(stack, 2, Len(stack))) = Len(stack) - 1
         /\ Names(SubSeq(stack, 2, Len(stack))) \subseteq Names(stack)
         /\ Len(stack) > 1 => /\ SubSeq(stack, 2, Len(stack)) # <<>>
                              /\ Top(SubSeq(stack, 2, Len(stack))) = Top(stack)
<1> DEFINE n == Len(stack)
           rest == SubSeq(stack, 2, n)
<1>1. /\ stack \in Seq(Entries) /\ n \in Nat \ {0} /\ rest \in Seq(Entries)
      /\ Len(rest) = n - 1
      /\ \A i \in 1 .. n - 1 : rest[i] = stack[i + 1]
  <2>1. stack \in Seq(Entries) /\ n \in Nat \ {0}
    BY DEF Past
  <2>2. 2 \in Int /\ n \in Int /\ \A i \in 2 .. n : stack[i] \in Entries
    BY <2>1
  <2> HIDE DEF n
  <2>3. /\ rest \in Seq(Entries)
        /\ Len(rest) = IF 2 <= n THEN n - 2 + 1 ELSE 0
        /\ \A i \in 1 .. n - 2 + 1 : rest[i] = stack[2 + i - 1]
    BY <2>2, SubSeqProperties
  <2> HIDE DEF rest
  <2> QED BY <2>1, <2>3
<1> HIDE DEF rest
<1>2. \A i \in 1 .. n - 1 : i + 1 \in 1 .. n
  BY <1>1
<1>3. Leads(rest, t)
  <2>1. ASSUME NEW i \in 1 .. n - 1
        PROVE  /\ Whole(rest[i])
               /\ Begins(rest[i]) = IF i = n - 1 THEN t ELSE Arrives(rest[i + 1])
    <3>1. i # n - 1 => i + 1 \in 1 .. n - 1 /\ i + 1 # n
      BY <1>1
    <3> QED BY <1>1, <1>2, <3>1 DEF Past, Leads
  <2> QED BY <1>1, <2>1 DEF Leads
<1>4. ASSUME NEW i \in 1 .. n - 1
      PROVE  \A j \in 1 .. i - 1 : Begins(rest[j]) <= Arrives(rest[i])
  <2>1. \A j \in 1 .. i - 1 : j \in 1 .. n - 1 /\ j + 1 \in 1 .. (i + 1) - 1
    BY <1>1
  <2> QED BY <1>1, <1>2, <2>1 DEF Past
<1>5. Past(t, rest, st)
  BY <1>1, <1>2, <1>3, <1>4 DEF Past
<1>6. Names(rest) \subseteq Names(stack)
  BY <1>1, <1>2 DEF Names
<1>7. n > 1 => rest # <<>> /\ Top(rest) = Top(stack)
  BY <1>1 DEF Top
<1> QED BY <1>1, <1>5, <1>6, <1>7 DEF rest

\* What an entry passes lies between its ends.
LEMMA PassedIs ==
  ASSUME NEW entry \in Entries, Whole(entry), NEW x \in Passed(entry)
  PROVE  /\ x \in Named(entry) /\ x \in Int
         /\ Falls(entry) => 0 < x /\ x < Begins(entry)
         /\ Rises(entry) => Begins(entry) < x
<1> DEFINE steps == entry.steps
<1>1. PICK i \in 1 .. Len(steps) - 1 : x = steps[i].to
  BY DEF Passed
<1>2. Texts \subseteq Nat /\ Len(steps) \in Nat \ {0} /\ Begins(entry) \in Texts
  BY StepsAre, HistoryAssumption DEF Texts
<1>3. i \in 1 .. Len(steps) /\ i + 1 \in 1 .. Len(steps) /\ i + 1 \in 2 .. Len(steps)
      /\ (i + 1) - 1 = i
  BY <1>2
<1>4. /\ steps[i].from \in Nat /\ steps[i].to \in Nat /\ steps[i + 1].from \in Nat
      /\ steps[i + 1].to \in Nat /\ steps[i].to \in Texts /\ Begins(entry) \in Nat
  BY <1>2, <1>3, StepsAre
<1>5. x = steps[i + 1].from
  BY <1>1, <1>3 DEF Whole
<1>6. x \in Named(entry)
  BY <1>1, <1>3, <1>4 DEF Named
<1>7. ASSUME Falls(entry) PROVE 0 < x /\ x < Begins(entry)
  <2>1. /\ steps[i].to < steps[i].from /\ steps[i].from <= Begins(entry)
        /\ steps[i + 1].to < steps[i + 1].from
    BY <1>3, <1>7 DEF Falls
  <2> QED BY <1>1, <1>4, <1>5, <2>1
<1>8. ASSUME Rises(entry) PROVE Begins(entry) < x
  <2>1. Begins(entry) <= steps[i].from /\ steps[i].from < steps[i].to
    BY <1>3, <1>8 DEF Rises
  <2> QED BY <1>1, <1>4, <2>1
<1> QED BY <1>1, <1>4, <1>6, <1>7, <1>8

\* Texts of other documents are none of this one's.
LEMMA PastStops ==
  ASSUME NEW t, NEW stack, NEW st, Past(t, stack, st), NEW X, X \cap Names(stack) \subseteq {0}
  PROVE  Past(t, stack, st \cup X)
<1>1. ASSUME NEW i \in 1 .. Len(stack)
      PROVE  /\ Passed(stack[i]) \cap (st \cup X) = {}
             /\ stack[i].kind # "discrete" => Begins(stack[i]) \notin st \cup X
  <2>1. stack[i] \in Entries /\ Whole(stack[i]) /\ Falls(stack[i])
    BY DEF Past, Leads
  <2>2. \A x \in Named(stack[i]) : x \in Names(stack)
    BY DEF Names, Named
  <2>3. Begins(stack[i]) # 0
    <3>1. Arrives(stack[i]) \in Nat /\ Begins(stack[i]) \in Nat
      BY <2>1, StepsAre, HistoryAssumption DEF Texts
    <3> QED BY <2>1, <3>1, EndsApart
  <2>4. Begins(stack[i]) \notin X
    BY <2>1, <2>2, <2>3, EndsApart
  <2>5. \A x \in Passed(stack[i]) : x \notin X
    BY <2>1, <2>2, PassedIs
  <2> QED BY <2>4, <2>5 DEF Past
<1> QED BY <1>1 DEF Past

LEMMA FutureStops ==
  ASSUME NEW t \in Texts, NEW stack, NEW st, NEW n, Future(t, stack, st, n),
         NEW X, X \cap Names(stack) \subseteq {0}
  PROVE  Future(t, stack, st \cup X, n)
<1>1. ASSUME NEW i \in 1 .. Len(stack)
      PROVE  Passed(stack[i]) \cap (st \cup X) = {}
  <2>1. stack[i] \in Entries /\ Whole(stack[i]) /\ Rises(stack[i])
    BY DEF Future, Leads
  <2>2. \A x \in Named(stack[i]) : x \in Names(stack)
    BY DEF Names, Named
  <2>3. Begins(stack[i]) \in Nat
    BY <2>1, StepsAre, HistoryAssumption DEF Texts
  <2>4. \A x \in Passed(stack[i]) : x # 0
    BY <2>1, <2>3, PassedIs
  <2>5. \A x \in Passed(stack[i]) : x \notin X
    BY <2>1, <2>2, <2>4, PassedIs
  <2> QED BY <2>5 DEF Future
<1> QED BY <1>1 DEF Future

\* Typing may be interrupted at the text itself: nothing passes it going forth.
LEMMA FutureStop ==
  ASSUME NEW t \in Texts, NEW stack, NEW st, NEW n, Future(t, stack, st, n)
  PROVE  Future(t, stack, st \cup {t}, n)
<1>1. ASSUME NEW i \in 1 .. Len(stack)
      PROVE  Passed(stack[i]) \cap (st \cup {t}) = {}
  <2>1. stack[i] \in Entries /\ Whole(stack[i]) /\ Rises(stack[i]) /\ t <= Begins(stack[i])
    BY DEF Future, Leads
  <2>2. Begins(stack[i]) \in Nat /\ t \in Nat
    BY <2>1, StepsAre, HistoryAssumption DEF Texts
  <2>3. \A x \in Passed(stack[i]) : x # t
    BY <2>1, <2>2, PassedIs
  <2> QED BY <2>3 DEF Future
<1> QED BY <1>1 DEF Future

\* Going back, nothing passes it either, and what typing may still join begins
\* below, when the newest step is closed.
LEMMA PastStop ==
  ASSUME NEW t \in Texts, NEW stack, NEW st, Past(t, stack, st),
         stack # <<>> => Top(stack).kind = "discrete"
  PROVE  Past(t, stack, st \cup {t})
<1>1. ASSUME NEW i \in 1 .. Len(stack)
      PROVE  /\ Passed(stack[i]) \cap (st \cup {t}) = {}
             /\ stack[i].kind # "discrete" => Begins(stack[i]) \notin st \cup {t}
  <2>1. stack[i] \in Entries /\ Whole(stack[i]) /\ Falls(stack[i]) /\ Begins(stack[i]) <= t
        /\ Len(stack) \in Nat
    BY DEF Past, Leads
  <2>2. Begins(stack[i]) \in Nat /\ t \in Nat
    BY <2>1, StepsAre, HistoryAssumption DEF Texts
  <2>3. \A x \in Passed(stack[i]) : x # t
    BY <2>1, <2>2, PassedIs
  <2>4. ASSUME stack[i].kind # "discrete"
        PROVE  Begins(stack[i]) # t
    <3> DEFINE n == Len(stack)
    <3>1. i # n /\ n \in 1 .. n /\ i \in 1 .. n - 1
      BY <2>1, <2>4 DEF Top
    <3>2. Begins(stack[i]) <= Arrives(stack[n]) /\ Begins(stack[n]) <= t
          /\ stack[n] \in Entries /\ Whole(stack[n]) /\ Falls(stack[n])
      BY <3>1 DEF Past, Leads
    <3>3. Arrives(stack[n]) < Begins(stack[n])
          /\ Arrives(stack[n]) \in Nat /\ Begins(stack[n]) \in Nat
      BY <3>2, EndsApart, StepsAre, HistoryAssumption DEF Texts
    <3> HIDE DEF n
    <3> QED BY <2>2, <3>2, <3>3
  <2> QED BY <2>3, <2>4 DEF Past
<1> QED BY <1>1 DEF Past

\* Ending the typing changes nothing of a history but the kind of its newest step.
LEMMA BrokenIs ==
  ASSUME NEW t \in Texts, NEW stack, NEW st, Past(t, stack, st)
  PROVE  /\ Past(t, Broken(stack), st \cup {t})
         /\ Len(Broken(stack)) = Len(stack)
         /\ Names(Broken(stack)) = Names(stack)
         /\ GroupOf(Broken(stack)) = GroupOf(stack)
         /\ stack # <<>> /\ Top(stack).kind = "discrete" => Broken(stack) = stack
<1>1. CASE stack = <<>>
  BY <1>1, PastStop DEF Broken
<1>2. CASE stack # <<>>
  <2> DEFINE n == Len(stack)
             closed == [stack[n] EXCEPT !.kind = "discrete"]
             broken == [stack EXCEPT ![n] = closed]
  <2>1. stack \in Seq(Entries) /\ n \in Nat \ {0} /\ n \in 1 .. n /\ stack[n] \in Entries
    BY <1>2 DEF Past
  <2>2. Broken(stack) = broken
    BY <1>2 DEF Broken
  <2>3. /\ closed \in Entries /\ closed.kind = "discrete" /\ closed.steps = stack[n].steps
        /\ closed.after = stack[n].after /\ closed.before = stack[n].before
        /\ closed.group = stack[n].group
        /\ stack[n].kind = "discrete" => closed = stack[n]
    BY <2>1 DEF Entries, Kinds
  <2> HIDE DEF closed
  <2>4. /\ broken \in Seq(Entries) /\ Len(broken) = n /\ broken[n] = closed
        /\ \A i \in 1 .. n : i # n => broken[i] = stack[i]
        /\ closed = stack[n] => broken = stack
    BY <2>1, <2>3
  <2> HIDE DEF broken
  <2>5. ASSUME NEW i \in 1 .. n
        PROVE  /\ Begins(broken[i]) = Begins(stack[i]) /\ Arrives(broken[i]) = Arrives(stack[i])
               /\ Passed(broken[i]) = Passed(stack[i]) /\ Named(broken[i]) = Named(stack[i])
               /\ (Whole(broken[i]) <=> Whole(stack[i])) /\ (Falls(broken[i]) <=> Falls(stack[i]))
               /\ broken[i].group = stack[i].group
               /\ broken[i].kind # "discrete" => stack[i].kind # "discrete"
    <3>1. /\ broken[i].steps = stack[i].steps /\ broken[i].after = stack[i].after
          /\ broken[i].before = stack[i].before /\ broken[i].group = stack[i].group
          /\ broken[i].kind # "discrete" => stack[i].kind # "discrete"
      BY <2>3, <2>4
    <3> QED BY <3>1 DEF Begins, Arrives, Passed, Named, Whole, Falls
  <2>6. Leads(broken, t)
    <3>1. \A i \in 1 .. n : i # n => i + 1 \in 1 .. n
      BY <2>1
    <3> QED BY <2>4, <2>5, <3>1 DEF Past, Leads
  <2>7. \A i \in 1 .. n : \A j \in 1 .. i - 1 : j \in 1 .. n
    BY <2>1
  <2>8. Past(t, broken, st)
    <3>1. \A i \in 1 .. n : \A j \in 1 .. i - 1 : Begins(broken[j]) <= Arrives(broken[i])
      BY <2>5, <2>7 DEF Past
    <3> QED BY <2>4, <2>5, <2>6, <3>1 DEF Past
  <2>9. Top(broken).kind = "discrete" /\ broken # <<>>
    BY <2>1, <2>3, <2>4 DEF Top
  <2>10. Past(t, broken, st \cup {t})
    BY <2>8, <2>9, PastStop
  <2>11. Names(broken) = Names(stack)
    BY <2>4, <2>5 DEF Names
  <2>12. GroupOf(broken) = GroupOf(stack)
    BY <1>2, <2>1, <2>4, <2>5, <2>9 DEF GroupOf, Top
  <2> QED BY <1>2, <2>2, <2>3, <2>4, <2>10, <2>11, <2>12 DEF Top
<1> QED BY <1>1, <1>2

(***************************************************************************)
(* A history that records an edit.                                         *)
(***************************************************************************)
LEMMA PushedIs ==
  ASSUME NEW b \in Texts, NEW t \in Texts, b < t,
         NEW stack, NEW st, Past(b, stack, st), t \notin st, Len(stack) <= MaxEntries,
         NEW kind \in Kinds, NEW group \in Group, NEW soon
  PROVE  LET v == Pushed(stack, b, t, kind, group, soon) IN
         /\ Past(t, v, st) /\ Len(v) <= MaxEntries /\ v # <<>>
         /\ Names(v) \subseteq Names(stack) \cup {b, t}
         /\ kind = "discrete" => Top(v).kind = "discrete" /\ Top(v).group = group
         /\ kind = "discrete" => Past(t, v, st \cup {t})
<1> DEFINE v == Pushed(stack, b, t, kind, group, soon)
<1>1. stack \in Seq(Entries) /\ Len(stack) \in Nat /\ b \in Nat /\ t \in Nat
  BY HistoryAssumption DEF Past, Texts
<1>2. CASE Coalesces(stack, kind, soon)
  <2>1. stack # <<>> /\ Top(stack).kind = kind /\ kind # "discrete"
    BY <1>2 DEF Coalesces
  <2> DEFINE old == Top(stack)
             entry == Joined(old, b, t)
  <2>2. /\ old \in Entries /\ Pop(stack) \in Seq(Entries) /\ Len(Pop(stack)) = Len(stack) - 1
        /\ Names(Pop(stack)) \subseteq Names(stack) /\ Named(old) \subseteq Names(stack)
    BY <1>1, <2>1, PopIs
  <2>3. /\ Whole(old) /\ Falls(old) /\ Begins(old) = b
        /\ Passed(old) \cap st = {} /\ b \notin st
    <3>1. Len(stack) \in 1 .. Len(stack)
      BY <1>1, <2>1
    <3> QED BY <2>1, <3>1 DEF Past, Leads, Top
  <2>4. /\ entry \in Entries /\ Whole(entry) /\ Falls(entry)
        /\ Begins(entry) = t /\ Arrives(entry) = Arrives(old)
        /\ Passed(entry) \subseteq Passed(old) \cup {b}
        /\ Named(entry) \subseteq Named(old) \cup {b, t}
    BY <1>1, <2>2, <2>3, JoinedIs
  <2>5. v = Append(Pop(stack), entry)
    BY <1>2 DEF Pushed
  <2> HIDE DEF entry, old, v
  <2>6. Past(Arrives(old), Pop(stack), st)
    BY <2>1, PastPop DEF old
  <2>7. Past(t, Append(Pop(stack), entry), st)
    BY <1>1, <2>3, <2>4, <2>6, PastPush
  <2>8. /\ Append(Pop(stack), entry) # <<>>
        /\ Len(Append(Pop(stack), entry)) = Len(stack)
        /\ Names(Append(Pop(stack), entry)) \subseteq Names(Pop(stack)) \cup Named(entry)
    BY <1>1, <2>2, <2>4, AppendIs
  <2> QED BY <2>1, <2>2, <2>4, <2>5, <2>7, <2>8 DEF v
<1>3. CASE ~Coalesces(stack, kind, soon)
  <2> DEFINE entry == Entry(b, t, kind, group)
             grown == Append(stack, entry)
             over == Len(grown) - MaxEntries
  <2>1. /\ entry \in Entries /\ Whole(entry) /\ Falls(entry)
        /\ Begins(entry) = t /\ Arrives(entry) = b
        /\ Passed(entry) = {} /\ Named(entry) \subseteq {b, t}
        /\ entry.kind = kind /\ entry.group = group
    BY <1>1, EntryIs
  <2>2. v = IF over > 0 THEN SubSeq(grown, over + 1, Len(grown)) ELSE grown
    BY <1>3 DEF Pushed
  <2> HIDE DEF entry
  <2>3. /\ Len(grown) = Len(stack) + 1 /\ grown # <<>> /\ Top(grown) = entry
        /\ Names(grown) \subseteq Names(stack) \cup Named(entry)
    BY <1>1, <2>1, AppendIs
  <2>4. Past(t, grown, st)
    BY <1>1, <2>1, PastPush
  <2> HIDE DEF grown
  <2>5. /\ Past(t, v, st) /\ Len(v) <= MaxEntries /\ v # <<>>
        /\ Names(v) \subseteq Names(grown) /\ Top(v) = Top(grown)
    <3>1. CASE over > 0
      <4>1. over = 1 /\ over + 1 = 2 /\ Len(grown) = MaxEntries + 1 /\ Len(grown) > 1
        BY <1>1, <2>3, <3>1, HistoryAssumption
      <4>2. v = SubSeq(grown, 2, Len(grown))
        BY <2>2, <3>1, <4>1
      <4>3. /\ Past(t, SubSeq(grown, 2, Len(grown)), st)
            /\ Len(SubSeq(grown, 2, Len(grown))) = Len(grown) - 1
            /\ Names(SubSeq(grown, 2, Len(grown))) \subseteq Names(grown)
            /\ SubSeq(grown, 2, Len(grown)) # <<>>
            /\ Top(SubSeq(grown, 2, Len(grown))) = Top(grown)
        BY <2>3, <2>4, <4>1, PastDrop
      <4> HIDE DEF v, over
      <4> QED BY <4>1, <4>2, <4>3, HistoryAssumption
    <3>2. CASE ~(over > 0)
      BY <1>1, <2>2, <2>3, <2>4, <3>2, HistoryAssumption
    <3> QED BY <3>1, <3>2
  <2> HIDE DEF v
  <2>6. kind = "discrete" => Past(t, v, st \cup {t})
    BY <2>1, <2>3, <2>5, PastStop
  <2> QED BY <2>1, <2>3, <2>5, <2>6 DEF v
<1> QED BY <1>2, <1>3

(***************************************************************************)
(* What each command makes of a document that fits.                        *)
(***************************************************************************)
LEMMA FitsEmpty ==
  ASSUME NEW n \in Nat, NEW st
  PROVE  Fits(0, <<>>, <<>>, st, n) /\ Met(0, <<>>, <<>>) = {0}
<1>1. 0 \in Texts /\ 0 <= n /\ 0 + 0 <= MaxEntries
  BY HistoryAssumption DEF Texts
<1>2. <<>> \in Seq(Entries) /\ Len(<<>>) = 0 /\ 1 .. 0 = {}
  OBVIOUS
<1>3. Past(0, <<>>, st) /\ Future(0, <<>>, st, n)
  BY <1>2 DEF Past, Future, Leads
<1>4. Met(0, <<>>, <<>>) = {0}
  BY <1>2 DEF Met, Names
<1> QED BY <1>1, <1>2, <1>3, <1>4 DEF Fits

\* Every text a document has met has come about.
LEMMA MetBounded ==
  ASSUME NEW n \in Nat, NEW t, NEW u, NEW r, NEW st, Fits(t, u, r, st, n)
  PROVE  Met(t, u, r) \subseteq 0 .. n
<1>1. t \in Nat /\ t <= n
  BY HistoryAssumption DEF Fits, Texts
<1>2. ASSUME NEW i \in 1 .. Len(u), NEW x \in Named(u[i])
      PROVE  x \in 0 .. n
  <2>1. u[i] \in Entries /\ Whole(u[i]) /\ Falls(u[i]) /\ Begins(u[i]) <= t
    BY DEF Fits, Past, Leads
  <2>2. PICK j \in 1 .. Len(u[i].steps) : x = u[i].steps[j].from \/ x = u[i].steps[j].to
    BY DEF Named
  <2>3. u[i].steps[j].to < u[i].steps[j].from /\ u[i].steps[j].from <= Begins(u[i])
    BY <2>1 DEF Falls
  <2>4. u[i].steps[j].to \in Nat /\ u[i].steps[j].from \in Nat /\ Begins(u[i]) \in Nat
    BY <2>1, StepsAre, HistoryAssumption DEF Texts
  <2>5. x <= n /\ x \in Nat
    BY <1>1, <2>1, <2>2, <2>3, <2>4
  <2> QED BY <2>5
<1>3. ASSUME NEW i \in 1 .. Len(r), NEW x \in Named(r[i])
      PROVE  x \in 0 .. n
  <2>1. r[i] \in Entries /\ Whole(r[i]) /\ Rises(r[i]) /\ Arrives(r[i]) <= n
    BY DEF Fits, Future, Leads
  <2>2. PICK j \in 1 .. Len(r[i].steps) : x = r[i].steps[j].from \/ x = r[i].steps[j].to
    BY DEF Named
  <2>3. r[i].steps[j].from < r[i].steps[j].to /\ r[i].steps[j].to <= Arrives(r[i])
    BY <2>1 DEF Rises
  <2>4. r[i].steps[j].to \in Nat /\ r[i].steps[j].from \in Nat /\ Arrives(r[i]) \in Nat
    BY <2>1, StepsAre, HistoryAssumption DEF Texts
  <2>5. x <= n /\ x \in Nat
    BY <1>1, <2>1, <2>2, <2>3, <2>4
  <2> QED BY <2>5
<1> QED BY <1>1, <1>2, <1>3 DEF Met, Names

\* The texts of others, and those yet to come about, are no stops for it.
LEMMA FitsStops ==
  ASSUME NEW n \in Nat, NEW m \in Nat, n <= m, NEW t, NEW u, NEW r, NEW st,
         Fits(t, u, r, st, n), NEW X, X \cap Met(t, u, r) \subseteq {0}
  PROVE  Fits(t, u, r, st \cup X, m)
<1>1. t \in Texts /\ t \in Nat /\ t <= n /\ Past(t, u, st) /\ Future(t, r, st, n)
  BY HistoryAssumption DEF Fits, Texts
<1>2. Past(t, u, st \cup X)
  BY <1>1, PastStops DEF Met
<1>3. Future(t, r, st \cup X, n)
  BY <1>1, FutureStops DEF Met
<1>4. \A i \in 1 .. Len(r) : Arrives(r[i]) <= n /\ Arrives(r[i]) \in Nat
  BY <1>1, StepsAre, HistoryAssumption DEF Future, Leads, Texts
<1>5. Future(t, r, st \cup X, m)
  BY <1>3, <1>4 DEF Future
<1> QED BY <1>1, <1>2, <1>5 DEF Fits

LEMMA FitsBroken ==
  ASSUME NEW n \in Nat, NEW t, NEW u, NEW r, NEW st, Fits(t, u, r, st, n)
  PROVE  /\ Fits(t, Broken(u), r, st \cup {t}, n)
         /\ Met(t, Broken(u), r) = Met(t, u, r)
         /\ GroupOf(Broken(u)) = GroupOf(u) /\ Len(Broken(u)) = Len(u)
<1>1. t \in Texts /\ Past(t, u, st) /\ Future(t, r, st, n)
  BY DEF Fits
<1> QED BY <1>1, BrokenIs, FutureStop DEF Fits, Met

LEMMA FitsPushed ==
  ASSUME NEW n \in Nat, NEW m \in Nat, NEW t, NEW u, NEW r, NEW st, Fits(t, u, r, st, n),
         st \subseteq 0 .. n, NEW x \in Texts, n < x, x <= m,
         NEW kind \in Kinds, NEW group \in Group, NEW soon
  PROVE  LET v == Pushed(u, t, x, kind, group, soon) IN
         /\ Fits(x, v, <<>>, st, m)
         /\ kind = "discrete" => Fits(x, v, <<>>, st \cup {x}, m)
<1> DEFINE v == Pushed(u, t, x, kind, group, soon)
<1>1. /\ t \in Texts /\ t <= n /\ Past(t, u, st) /\ Len(u) <= MaxEntries
  <2>1. Len(u) \in Nat /\ Len(r) \in Nat /\ Len(u) + Len(r) <= MaxEntries
    BY DEF Fits, Past, Future
  <2> QED BY <2>1, HistoryAssumption DEF Fits
<1>2. /\ Past(x, v, st) /\ Len(v) <= MaxEntries
      /\ kind = "discrete" => Past(x, v, st \cup {x})
  <2>1. t < x /\ x \notin st
    BY <1>1, HistoryAssumption DEF Texts
  <2> QED BY <1>1, <2>1, PushedIs
<1> HIDE DEF v
<1>3. Len(<<>>) = 0 /\ Len(v) \in Nat /\ \A s : Future(x, <<>>, s, m)
  BY <1>2 DEF Past, Future, Leads
<1> QED BY <1>2, <1>3 DEF Fits, v

\* It meets no text but the new one, and its newest step, unless it is typing,
\* is of the group it was recorded in.
Records(t, u, r, x, v, kind, group) ==
  /\ Met(x, v, <<>>) \subseteq Met(t, u, r) \cup {x}
  /\ kind = "discrete" => GroupOf(v) = group

LEMMA PushedMeets ==
  ASSUME NEW n \in Nat, NEW t, NEW u, NEW r, NEW st, Fits(t, u, r, st, n),
         st \subseteq 0 .. n, NEW x \in Texts, n < x,
         NEW kind \in Kinds, NEW group \in Group, NEW soon
  PROVE  Records(t, u, r, x, Pushed(u, t, x, kind, group, soon), kind, group)
<1> DEFINE v == Pushed(u, t, x, kind, group, soon)
<1>1. /\ t \in Texts /\ t <= n /\ Past(t, u, st) /\ Len(u) <= MaxEntries
  <2>1. Len(u) \in Nat /\ Len(r) \in Nat /\ Len(u) + Len(r) <= MaxEntries
    BY DEF Fits, Past, Future
  <2> QED BY <2>1, HistoryAssumption DEF Fits
<1>2. /\ Past(x, v, st) /\ Len(v) <= MaxEntries /\ v # <<>>
      /\ Names(v) \subseteq Names(u) \cup {t, x}
      /\ kind = "discrete" => Top(v).kind = "discrete" /\ Top(v).group = group
      /\ kind = "discrete" => Past(x, v, st \cup {x})
  <2>1. t < x /\ x \notin st
    BY <1>1, HistoryAssumption DEF Texts
  <2> QED BY <1>1, <2>1, PushedIs
<1> HIDE DEF v
<1>3. Names(<<>>) = {}
  BY DEF Names
<1> QED BY <1>2, <1>3 DEF Records, Met, GroupOf, v

\* What undoing the newest step makes of a history.
Undone(t, u, r, st, n) ==
  LET entry == Top(u)
      back == Opposite(t, entry)
  IN  /\ Result(t, entry) = Arrives(entry) /\ entry.after = Arrives(entry)
      /\ Fits(Arrives(entry), Pop(u), Append(r, back), st, n)
      /\ Met(Arrives(entry), Pop(u), Append(r, back)) \subseteq Met(t, u, r)
      /\ GroupOf(Append(r, back)) = GroupOf(u)
      /\ Len(Pop(u)) = Len(u) - 1 /\ Len(Append(r, back)) = Len(r) + 1
      /\ Arrives(back) = t /\ back \in Entries

LEMMA FitsUndo ==
  ASSUME NEW n \in Nat, NEW t, NEW u, NEW r, NEW st, Fits(t, u, r, st, n), u # <<>>
  PROVE  Undone(t, u, r, st, n)
<1> DEFINE entry == Top(u)
           back == Opposite(t, entry)
<1>1. /\ t \in Texts /\ t \in Nat /\ t <= n /\ Past(t, u, st) /\ Future(t, r, st, n)
      /\ u \in Seq(Entries) /\ r \in Seq(Entries) /\ Len(u) + Len(r) <= MaxEntries
  <2>1. /\ t \in Texts /\ t <= n /\ Past(t, u, st) /\ Future(t, r, st, n)
        /\ Len(u) + Len(r) <= MaxEntries
    BY DEF Fits
  <2>2. t \in Nat
    BY <2>1, HistoryAssumption DEF Texts
  <2>3. u \in Seq(Entries) /\ r \in Seq(Entries)
    BY <2>1 DEF Past, Future
  <2> QED BY <2>1, <2>2, <2>3
<1>2. /\ Len(u) \in Nat \ {0} /\ entry \in Entries
      /\ Pop(u) \in Seq(Entries) /\ Len(Pop(u)) = Len(u) - 1
      /\ Names(Pop(u)) \subseteq Names(u) /\ Named(entry) \subseteq Names(u)
  BY <1>1, PopIs
<1>3. /\ Whole(entry) /\ Falls(entry) /\ Begins(entry) = t /\ Passed(entry) \cap st = {}
  <2>1. Len(u) \in 1 .. Len(u)
    BY <1>2
  <2> QED BY <1>1, <2>1 DEF Past, Leads, Top
<1>4. /\ Result(t, entry) = Arrives(entry)
      /\ back \in Entries /\ Whole(back)
      /\ Begins(back) = Arrives(entry) /\ Arrives(back) = t
      /\ Passed(back) \subseteq Passed(entry) /\ Named(back) \subseteq Named(entry)
      /\ Rises(back) /\ back.kind = "discrete" /\ back.group = entry.group
  BY <1>2, <1>3, OppositeIs
<1> HIDE DEF back
<1>5. /\ Arrives(entry) \in Texts /\ Arrives(entry) \in Nat /\ Arrives(entry) < t
      /\ entry.after = Arrives(entry) /\ Arrives(entry) \in Named(entry)
  BY <1>2, <1>3, StepsAre, EndsApart, HistoryAssumption DEF Texts
<1>6. Past(Arrives(entry), Pop(u), st)
  BY <1>1, PastPop
<1>7. Future(Arrives(entry), Append(r, back), st, n)
  BY <1>1, <1>3, <1>4, FuturePush
<1>8. /\ Len(Append(r, back)) = Len(r) + 1 /\ Len(r) \in Nat /\ Append(r, back) # <<>>
      /\ Top(Append(r, back)) = back
      /\ Names(Append(r, back)) \subseteq Names(r) \cup Named(back)
  BY <1>1, <1>4, AppendIs
<1>9. Fits(Arrives(entry), Pop(u), Append(r, back), st, n)
  <2>1. Len(Pop(u)) + Len(Append(r, back)) <= MaxEntries /\ Arrives(entry) <= n
    BY <1>1, <1>2, <1>5, <1>8
  <2> QED BY <1>5, <1>6, <1>7, <2>1 DEF Fits
<1>10. Met(Arrives(entry), Pop(u), Append(r, back)) \subseteq Met(t, u, r)
  BY <1>2, <1>4, <1>5, <1>8 DEF Met
<1>11. GroupOf(Append(r, back)) = GroupOf(u)
  BY <1>4, <1>8 DEF GroupOf
<1>12. /\ Result(t, entry) = Arrives(entry) /\ entry.after = Arrives(entry)
       /\ Fits(Arrives(entry), Pop(u), Append(r, back), st, n)
       /\ Met(Arrives(entry), Pop(u), Append(r, back)) \subseteq Met(t, u, r)
       /\ GroupOf(Append(r, back)) = GroupOf(u)
       /\ Len(Pop(u)) = Len(u) - 1 /\ Len(Append(r, back)) = Len(r) + 1
       /\ Arrives(back) = t /\ back \in Entries
  BY <1>2, <1>4, <1>5, <1>8, <1>9, <1>10, <1>11
<1> QED BY ONLY <1>12 DEF Undone, back

\* What redoing the newest step makes of a history.
Redone(t, u, r, st, n) ==
  LET entry == Top(r)
      back == Opposite(t, entry)
  IN  /\ Result(t, entry) = Arrives(entry) /\ entry.after = Arrives(entry)
      /\ Fits(Arrives(entry), Append(u, back), Pop(r), st, n)
      /\ Met(Arrives(entry), Append(u, back), Pop(r)) \subseteq Met(t, u, r)
      /\ GroupOf(Append(u, back)) = GroupOf(r)
      /\ Len(Pop(r)) = Len(r) - 1 /\ Len(Append(u, back)) = Len(u) + 1
      /\ Arrives(back) = t /\ back \in Entries

LEMMA FitsRedo ==
  ASSUME NEW n \in Nat, NEW t, NEW u, NEW r, NEW st, Fits(t, u, r, st, n), r # <<>>
  PROVE  Redone(t, u, r, st, n)
<1> DEFINE entry == Top(r)
           back == Opposite(t, entry)
<1>1. /\ t \in Texts /\ t \in Nat /\ t <= n /\ Past(t, u, st) /\ Future(t, r, st, n)
      /\ u \in Seq(Entries) /\ r \in Seq(Entries) /\ Len(u) + Len(r) <= MaxEntries
  <2>1. /\ t \in Texts /\ t <= n /\ Past(t, u, st) /\ Future(t, r, st, n)
        /\ Len(u) + Len(r) <= MaxEntries
    BY DEF Fits
  <2>2. t \in Nat
    BY <2>1, HistoryAssumption DEF Texts
  <2>3. u \in Seq(Entries) /\ r \in Seq(Entries)
    BY <2>1 DEF Past, Future
  <2> QED BY <2>1, <2>2, <2>3
<1>2. /\ Len(r) \in Nat \ {0} /\ entry \in Entries
      /\ Pop(r) \in Seq(Entries) /\ Len(Pop(r)) = Len(r) - 1
      /\ Names(Pop(r)) \subseteq Names(r) /\ Named(entry) \subseteq Names(r)
  BY <1>1, PopIs
<1>3. /\ Whole(entry) /\ Rises(entry) /\ Begins(entry) = t /\ Passed(entry) \cap st = {}
      /\ Arrives(entry) <= n
  <2>1. Len(r) \in 1 .. Len(r)
    BY <1>2
  <2> QED BY <1>1, <2>1 DEF Future, Leads, Top
<1>4. /\ Result(t, entry) = Arrives(entry)
      /\ back \in Entries /\ Whole(back)
      /\ Begins(back) = Arrives(entry) /\ Arrives(back) = t
      /\ Passed(back) \subseteq Passed(entry) /\ Named(back) \subseteq Named(entry)
      /\ Falls(back) /\ back.kind = "discrete" /\ back.group = entry.group
  BY <1>2, <1>3, OppositeIs
<1> HIDE DEF back
<1>5. /\ Arrives(entry) \in Texts
      /\ entry.after = Arrives(entry) /\ Arrives(entry) \in Named(entry)
  BY <1>2, <1>3, StepsAre, EndsApart
<1>6. Future(Arrives(entry), Pop(r), st, n)
  BY <1>1, FuturePop
<1>7. Past(Arrives(entry), Append(u, back), st)
  BY <1>1, <1>3, <1>4, PastPush
<1>8. /\ Len(Append(u, back)) = Len(u) + 1 /\ Len(u) \in Nat /\ Append(u, back) # <<>>
      /\ Top(Append(u, back)) = back
      /\ Names(Append(u, back)) \subseteq Names(u) \cup Named(back)
  BY <1>1, <1>4, AppendIs
<1>9. Fits(Arrives(entry), Append(u, back), Pop(r), st, n)
  <2>1. Len(Append(u, back)) + Len(Pop(r)) <= MaxEntries
    BY <1>1, <1>2, <1>8, HistoryAssumption
  <2> QED BY <1>3, <1>5, <1>6, <1>7, <2>1 DEF Fits
<1>10. Met(Arrives(entry), Append(u, back), Pop(r)) \subseteq Met(t, u, r)
  BY <1>2, <1>4, <1>5, <1>8 DEF Met
<1>11. GroupOf(Append(u, back)) = GroupOf(r)
  BY <1>4, <1>8 DEF GroupOf
<1>12. /\ Result(t, entry) = Arrives(entry) /\ entry.after = Arrives(entry)
       /\ Fits(Arrives(entry), Append(u, back), Pop(r), st, n)
       /\ Met(Arrives(entry), Append(u, back), Pop(r)) \subseteq Met(t, u, r)
       /\ GroupOf(Append(u, back)) = GroupOf(r)
       /\ Len(Pop(r)) = Len(r) - 1 /\ Len(Append(u, back)) = Len(u) + 1
       /\ Arrives(back) = t /\ back \in Entries
  BY <1>2, <1>4, <1>5, <1>8, <1>9, <1>10, <1>11
<1> QED BY ONLY <1>12 DEF Redone, back

(***************************************************************************)
(* What a step leaves of the documents it does not touch.                  *)
(***************************************************************************)
\* Documents that meet only texts that were theirs, or came about for them
\* alone, have none in common.
LEMMA StillApart ==
  ASSUME HInv, texts' \in Nat, texts <= texts', NEW own,
         \A d \in Docs : own[d] \subseteq texts + 1 .. texts',
         \A d, e \in Docs : d # e => own[d] \cap own[e] = {},
         \A d \in Docs : MetBy(d)' \subseteq MetBy(d) \cup own[d] \cup {0}
  PROVE  \A d, e \in Docs : d # e => MetBy(d)' \cap MetBy(e)' \subseteq {0}
<1> TAKE d, e \in Docs
<1>1. texts \in Nat
  BY HistoryAssumption DEF HInv, Framed, Texts
<1>2. MetBy(d) \subseteq 0 .. texts /\ MetBy(e) \subseteq 0 .. texts
  BY <1>1, MetBounded DEF HInv, MetBy
<1>3. MetBy(d) \cap own[e] = {} /\ MetBy(e) \cap own[d] = {}
  BY <1>1, <1>2
<1> QED BY <1>3 DEF HInv

\* One document changes; it stops where it was, or at a text of its own.
LEMMA OneChanges ==
  ASSUME HInv, NEW d \in Docs, NEW t, NEW u, NEW r, NEW X,
         text' = [text EXCEPT ![d] = t], carets' = [carets EXCEPT ![d] = t],
         undo' = [undo EXCEPT ![d] = u], redo' = [redo EXCEPT ![d] = r],
         texts' \in Texts, texts <= texts', stops' = stops \cup X,
         X \subseteq MetBy(d) \cup (texts + 1 .. texts'),
         Fits(t, u, r, stops', texts'),
         Met(t, u, r) \subseteq MetBy(d) \cup (texts + 1 .. texts') \cup {0}
  PROVE  /\ text' = [e \in Docs |-> text'[e]] /\ carets' = [e \in Docs |-> carets'[e]]
         /\ undo' = [e \in Docs |-> undo'[e]] /\ redo' = [e \in Docs |-> redo'[e]]
         /\ stops' \subseteq 0 .. texts'
         /\ \A e \in Docs : /\ carets'[e] = text'[e]
                            /\ Fits(text'[e], undo'[e], redo'[e], stops', texts')
         /\ \A e, f \in Docs : e # f => MetBy(e)' \cap MetBy(f)' \subseteq {0}
<1>1. Framed /\ texts \in Nat /\ texts' \in Nat /\ stops \subseteq 0 .. texts
  BY HistoryAssumption DEF HInv, Framed, Texts
<1>2. /\ text' = [e \in Docs |-> text'[e]] /\ carets' = [e \in Docs |-> carets'[e]]
      /\ undo' = [e \in Docs |-> undo'[e]] /\ redo' = [e \in Docs |-> redo'[e]]
  BY <1>1 DEF Framed
<1>3. /\ text'[d] = t /\ carets'[d] = t /\ undo'[d] = u /\ redo'[d] = r
      /\ \A e \in Docs : e # d => /\ text'[e] = text[e] /\ carets'[e] = carets[e]
                                  /\ undo'[e] = undo[e] /\ redo'[e] = redo[e]
  BY <1>1 DEF Framed
<1>4. \A e \in Docs : MetBy(e) \subseteq 0 .. texts
  BY <1>1, MetBounded DEF HInv, MetBy
<1>5. stops' \subseteq 0 .. texts'
  <2>1. 0 .. texts \subseteq 0 .. texts' /\ texts + 1 .. texts' \subseteq 0 .. texts'
    BY <1>1
  <2> QED BY <1>1, <1>4, <2>1
<1>6. ASSUME NEW e \in Docs
      PROVE  /\ carets'[e] = text'[e]
             /\ Fits(text'[e], undo'[e], redo'[e], stops', texts')
  <2>1. CASE e = d
    BY <1>3, <2>1
  <2>2. CASE e # d
    <3>1. X \cap MetBy(e) \subseteq {0}
      BY <1>1, <1>4, <2>2 DEF HInv
    <3>2. Fits(text[e], undo[e], redo[e], stops \cup X, texts')
      BY <1>1, <3>1, FitsStops DEF HInv, MetBy
    <3> QED BY <1>3, <2>2, <3>2 DEF HInv
  <2> QED BY <2>1, <2>2
<1>7. \A e, f \in Docs : e # f => MetBy(e)' \cap MetBy(f)' \subseteq {0}
  <2> DEFINE own == [e \in Docs |-> IF e = d THEN texts + 1 .. texts' ELSE {}]
  <2>1. PICK mine : mine = own
    OBVIOUS
  <2>2. /\ mine[d] = texts + 1 .. texts'
        /\ \A e \in Docs : e # d => mine[e] = {}
    BY <2>1
  <2> HIDE DEF own
  <2>3. \A e \in Docs : mine[e] \subseteq texts + 1 .. texts'
    BY <2>2
  <2>4. \A e, f \in Docs : e # f => mine[e] \cap mine[f] = {}
    BY <2>2
  <2>5. ASSUME NEW e \in Docs
        PROVE  MetBy(e)' \subseteq MetBy(e) \cup mine[e] \cup {0}
    <3>1. MetBy(e)' = Met(text'[e], undo'[e], redo'[e])
      BY DEF MetBy
    <3>2. CASE e = d
      <4>1. MetBy(e)' = Met(t, u, r) /\ mine[e] = texts + 1 .. texts'
        BY <1>3, <2>2, <3>1, <3>2
      <4> QED BY <3>2, <4>1
    <3>3. CASE e # d
      BY <1>3, <3>1, <3>3 DEF MetBy
    <3> QED BY <3>2, <3>3
  <2> QED BY <1>1, <2>3, <2>4, <2>5, StillApart
<1> QED BY <1>2, <1>5, <1>6, <1>7

\* Who moved with whom, after a move of one document and after one of several.
LEMMA ApartKeeps ==
  ASSUME HInv, Joint, NEW d \in Docs, shared' = Apart(d),
         \A e \in Docs : e # d => /\ GroupOf(undo'[e]) = GroupOf(undo[e])
                                  /\ GroupOf(redo'[e]) = GroupOf(redo[e])
                                  /\ e \in open => e \in open'
  PROVE  Joint' /\ shared' \in [Docs -> [with : SUBSET Docs, done : BOOLEAN]]
<1>1. shared \in [Docs -> [with : SUBSET Docs, done : BOOLEAN]]
  BY DEF HInv, Framed
<1>2. shared'[d].with = {}
  BY DEF Apart, Alone
<1>3. ASSUME NEW e \in Docs, e # d
      PROVE  shared'[e].with = shared[e].with \ {d} /\ shared'[e].done = shared[e].done
  BY <1>1, <1>3 DEF Apart
<1>4. shared' \in [Docs -> [with : SUBSET Docs, done : BOOLEAN]]
  BY <1>1 DEF Apart, Alone
<1>5. ASSUME NEW e \in Docs, NEW f \in shared'[e].with
      PROVE  /\ e \in open' /\ f \in open'
             /\ shared'[e].done => GroupOf(undo'[e]) # 0 /\ GroupOf(undo'[f]) = GroupOf(undo'[e])
             /\ ~shared'[e].done => GroupOf(redo'[e]) # 0 /\ GroupOf(redo'[f]) = GroupOf(redo'[e])
  <2>1. e # d /\ f # d /\ f \in shared[e].with /\ f \in Docs
    BY <1>1, <1>2, <1>3, <1>5
  <2> QED BY <1>3, <2>1 DEF Joint
<1> QED BY <1>4, <1>5 DEF Joint

LEMMA SharedKeeps ==
  ASSUME HInv, Joint, shared' = shared, open \subseteq open',
         \A e \in Docs : /\ GroupOf(undo'[e]) = GroupOf(undo[e])
                         /\ GroupOf(redo'[e]) = GroupOf(redo[e])
  PROVE  Joint'
<1>1. shared \in [Docs -> [with : SUBSET Docs, done : BOOLEAN]]
  BY DEF HInv, Framed
<1>2. ASSUME NEW e \in Docs, NEW f \in shared'[e].with
      PROVE  /\ e \in open' /\ f \in open'
             /\ shared'[e].done => GroupOf(undo'[e]) # 0 /\ GroupOf(undo'[f]) = GroupOf(undo'[e])
             /\ ~shared'[e].done => GroupOf(redo'[e]) # 0 /\ GroupOf(redo'[f]) = GroupOf(redo'[e])
  <2>1. f \in shared[e].with /\ f \in Docs
    BY <1>1, <1>2
  <2> QED BY <2>1 DEF Joint
<1> QED BY <1>2 DEF Joint

LEMMA TogetherKeeps ==
  ASSUME HInv, Joint, NEW S, S \subseteq open', open \subseteq open', open' \subseteq Docs,
         NEW g, g # 0, shared' \in {Together(S, TRUE), Together(S, FALSE)},
         \A e \in S : /\ shared' = Together(S, TRUE) => GroupOf(undo'[e]) = g
                      /\ shared' = Together(S, FALSE) => GroupOf(redo'[e]) = g,
         \A e \in Docs \ S : /\ GroupOf(undo'[e]) = GroupOf(undo[e])
                             /\ GroupOf(redo'[e]) = GroupOf(redo[e])
  PROVE  Joint' /\ shared' \in [Docs -> [with : SUBSET Docs, done : BOOLEAN]]
<1>1. shared \in [Docs -> [with : SUBSET Docs, done : BOOLEAN]]
  BY DEF HInv, Framed
<1>2. ASSUME NEW e \in S
      PROVE  /\ shared'[e].with = S
             /\ shared'[e].done => GroupOf(undo'[e]) = g
             /\ ~shared'[e].done => GroupOf(redo'[e]) = g
  <2>1. e \in Docs
    BY <1>2
  <2>2. CASE shared' = Together(S, TRUE)
    <3>1. shared'[e] = [with |-> S, done |-> TRUE]
      BY <1>2, <2>1, <2>2 DEF Together
    <3>2. shared'[e].with = S /\ shared'[e].done
      BY <3>1
    <3>3. GroupOf(undo'[e]) = g
      BY <1>2, <2>2
    <3> QED BY ONLY <3>2, <3>3
  <2>3. CASE shared' = Together(S, FALSE)
    <3>1. shared'[e] = [with |-> S, done |-> FALSE]
      BY <1>2, <2>1, <2>3 DEF Together
    <3>2. shared'[e].with = S /\ ~shared'[e].done
      BY <3>1
    <3>3. GroupOf(redo'[e]) = g
      BY <1>2, <2>3
    <3> QED BY ONLY <3>2, <3>3
  <2> QED BY <2>2, <2>3
<1>3. ASSUME NEW e \in Docs \ S
      PROVE  shared'[e].with = shared[e].with \ S /\ shared'[e].done = shared[e].done
  BY <1>1, <1>3 DEF Together
<1>4. shared' \in [Docs -> [with : SUBSET Docs, done : BOOLEAN]]
  <2>1. \A e \in Docs : /\ [with |-> S, done |-> TRUE] \in [with : SUBSET Docs, done : BOOLEAN]
                       /\ [with |-> S, done |-> FALSE] \in [with : SUBSET Docs, done : BOOLEAN]
                       /\ [shared[e] EXCEPT !.with = @ \ S] \in [with : SUBSET Docs, done : BOOLEAN]
    BY <1>1
  <2>2. CASE shared' = Together(S, TRUE)
    BY <2>1, <2>2 DEF Together
  <2>3. CASE shared' = Together(S, FALSE)
    BY <2>1, <2>3 DEF Together
  <2> QED BY <2>2, <2>3
<1>5. ASSUME NEW e \in Docs, NEW f \in shared'[e].with
      PROVE  /\ e \in open' /\ f \in open'
             /\ shared'[e].done => GroupOf(undo'[e]) # 0 /\ GroupOf(undo'[f]) = GroupOf(undo'[e])
             /\ ~shared'[e].done => GroupOf(redo'[e]) # 0 /\ GroupOf(redo'[f]) = GroupOf(redo'[e])
  <2>1. CASE e \in S
    <3>1. f \in S
      BY <1>2, <1>5, <2>1
    <3>2. shared'[f].done = shared'[e].done
      BY <2>1, <3>1 DEF Together
    <3> QED BY <1>2, <2>1, <3>1, <3>2
  <2>2. CASE e \notin S
    <3>1. f \notin S /\ f \in shared[e].with /\ f \in Docs
      BY <1>1, <1>3, <1>5, <2>2
    <3> QED BY <1>3, <2>2, <3>1 DEF Joint
  <2> QED BY <2>1, <2>2
<1> QED BY <1>4, <1>5 DEF Joint

(***************************************************************************)
(* The steps.                                                              *)
(***************************************************************************)
LEMMA FirstState ==
  Init => IInv
<1> SUFFICES ASSUME Init PROVE IInv
  OBVIOUS
<1> USE HistoryAssumption DEF Init
<1>1. Framed
  BY DEF Framed, Texts, Group, Alone
<1>2. \A d \in Docs : /\ text[d] = 0 /\ carets[d] = 0 /\ undo[d] = <<>> /\ redo[d] = <<>>
                      /\ shared[d].with = {}
  BY DEF Alone
<1>3. \A d \in Docs : /\ Fits(text[d], undo[d], redo[d], stops, texts)
                      /\ MetBy(d) = {0}
  BY <1>2, FitsEmpty DEF MetBy
<1>4. HInv
  BY <1>1, <1>2, <1>3 DEF HInv
<1>5. Joint
  BY <1>2 DEF Joint
<1> QED BY <1>4, <1>5 DEF IInv

LEMMA EditStep ==
  ASSUME IInv, NEW d \in open, NEW kind \in Kinds, NEW soon, Edit(d, kind, soon),
         stops' = stops \/ (kind = "discrete" /\ stops' = stops \cup {texts'})
  PROVE  IInv'
<1>1. /\ HInv /\ Joint /\ Framed /\ d \in Docs
      /\ texts \in Nat /\ texts < MaxTexts /\ texts' = texts + 1
      /\ texts' \in Texts /\ texts' \in Nat /\ stops \subseteq 0 .. texts
      /\ Fits(text[d], undo[d], redo[d], stops, texts)
  BY HistoryAssumption DEF IInv, HInv, Framed, Edit, Texts
<1> DEFINE new == texts + 1
<1>2. PICK v : v = Pushed(undo[d], text[d], new, kind, 0, soon)
  OBVIOUS
<1>3. /\ text' = [text EXCEPT ![d] = new] /\ carets' = [carets EXCEPT ![d] = new]
      /\ undo' = [undo EXCEPT ![d] = v] /\ redo' = [redo EXCEPT ![d] = <<>>]
      /\ shared' = Apart(d) /\ open' = open /\ active' = active /\ groups' = groups
  BY <1>1, <1>2 DEF Edit
<1>4. /\ Fits(new, v, <<>>, stops, new)
      /\ kind = "discrete" => Fits(new, v, <<>>, stops \cup {new}, new)
      /\ Met(new, v, <<>>) \subseteq Met(text[d], undo[d], redo[d]) \cup {new}
  <2>1. new \in Texts /\ texts < new /\ new <= new /\ new \in Nat /\ 0 \in Group
    BY <1>1, HistoryAssumption DEF Group
  <2> HIDE DEF new
  <2>2. /\ Fits(new, v, <<>>, stops, new)
        /\ kind = "discrete" => Fits(new, v, <<>>, stops \cup {new}, new)
    BY <1>1, <1>2, <2>1, FitsPushed
  <2>3. Met(new, v, <<>>) \subseteq Met(text[d], undo[d], redo[d]) \cup {new}
    <3>1. Records(text[d], undo[d], redo[d], new, v, kind, 0)
      BY <1>1, <1>2, <2>1, PushedMeets
    <3> QED BY <3>1 DEF Records
  <2> QED BY <2>2, <2>3
<1>5. PICK X : X \subseteq {new} /\ stops' = stops \cup X
  <2>1. CASE stops' = stops
    <3>1. {} \subseteq {new} /\ stops' = stops \cup {}
      BY <2>1
    <3> QED BY <3>1
  <2>2. CASE stops' = stops \cup {new}
    BY <2>2
  <2> QED BY <1>1, <2>1, <2>2
<1>6. Fits(new, v, <<>>, stops', new)
  <2>1. stops' = stops \/ (kind = "discrete" /\ stops' = stops \cup {new})
    BY <1>1
  <2> QED BY <1>4, <2>1
<1>7. new = texts' /\ texts + 1 .. texts' = {new} /\ texts <= texts'
  BY <1>1
<1> HIDE DEF new
<1>8. /\ text' = [e \in Docs |-> text'[e]] /\ carets' = [e \in Docs |-> carets'[e]]
      /\ undo' = [e \in Docs |-> undo'[e]] /\ redo' = [e \in Docs |-> redo'[e]]
      /\ stops' \subseteq 0 .. texts'
      /\ \A e \in Docs : /\ carets'[e] = text'[e]
                         /\ Fits(text'[e], undo'[e], redo'[e], stops', texts')
      /\ \A e, f \in Docs : e # f => MetBy(e)' \cap MetBy(f)' \subseteq {0}
  <2>1. X \subseteq MetBy(d) \cup (texts + 1 .. texts')
    BY <1>5, <1>7
  <2>2. Met(new, v, <<>>) \subseteq MetBy(d) \cup (texts + 1 .. texts') \cup {0}
    BY <1>4, <1>7 DEF MetBy
  <2>3. Fits(new, v, <<>>, stops', texts')
    BY <1>6, <1>7
  <2> QED BY ONLY <1>1, <1>3, <1>5, <1>7, <2>1, <2>2, <2>3, OneChanges
<1>9. \A e \in Docs : e # d => /\ text'[e] = text[e] /\ undo'[e] = undo[e] /\ redo'[e] = redo[e]
  BY <1>1, <1>3 DEF Framed
<1>10. Joint' /\ shared' \in [Docs -> [with : SUBSET Docs, done : BOOLEAN]]
  BY <1>1, <1>3, <1>9, ApartKeeps
<1>11. Framed'
  BY <1>1, <1>3, <1>8, <1>9, <1>10 DEF Framed
<1>12. HInv'
  BY <1>8, <1>11 DEF HInv
<1> QED BY <1>10, <1>12 DEF IInv

LEMMA BreakStep ==
  ASSUME IInv, NEW d \in open, undo' = [undo EXCEPT ![d] = Broken(@)],
         stops' = stops \cup {text[d]},
         UNCHANGED <<open, active, text, carets, redo, texts, groups, shared>>
  PROVE  IInv'
<1>1. /\ HInv /\ Joint /\ Framed /\ d \in Docs /\ texts \in Nat /\ texts \in Texts
      /\ Fits(text[d], undo[d], redo[d], stops, texts)
  BY HistoryAssumption DEF IInv, HInv, Framed, Texts
<1>2. PICK v : v = Broken(undo[d])
  OBVIOUS
<1>3. /\ Fits(text[d], v, redo[d], stops', texts)
      /\ Met(text[d], v, redo[d]) = Met(text[d], undo[d], redo[d])
      /\ GroupOf(v) = GroupOf(undo[d])
  BY <1>1, <1>2, FitsBroken
<1>4. /\ text' = [text EXCEPT ![d] = text[d]] /\ carets' = [carets EXCEPT ![d] = text[d]]
      /\ undo' = [undo EXCEPT ![d] = v] /\ redo' = [redo EXCEPT ![d] = redo[d]]
  BY <1>1, <1>2 DEF Framed, HInv
<1>5. /\ \A e \in Docs : e # d => undo'[e] = undo[e]
      /\ undo'[d] = v
  BY <1>1, <1>4 DEF Framed
<1>6. /\ undo' = [e \in Docs |-> undo'[e]] /\ stops' \subseteq 0 .. texts'
      /\ \A e \in Docs : /\ carets'[e] = text'[e]
                         /\ Fits(text'[e], undo'[e], redo'[e], stops', texts')
      /\ \A e, f \in Docs : e # f => MetBy(e)' \cap MetBy(f)' \subseteq {0}
  <2>1. text[d] \in MetBy(d) /\ Met(text[d], v, redo[d]) \subseteq MetBy(d)
    BY <1>3 DEF MetBy, Met
  <2>2. texts' \in Texts /\ texts <= texts' /\ texts' = texts
    BY <1>1
  <2>3. PICK X : X = {text[d]}
    OBVIOUS
  <2>4. stops' = stops \cup X /\ X \subseteq MetBy(d) \cup (texts + 1 .. texts')
    BY <2>1, <2>3
  <2>5. Met(text[d], v, redo[d]) \subseteq MetBy(d) \cup (texts + 1 .. texts') \cup {0}
    BY <2>1
  <2>6. Fits(text[d], v, redo[d], stops', texts')
    BY <1>3, <2>2
  <2> QED BY ONLY <1>1, <1>4, <2>2, <2>4, <2>5, <2>6, OneChanges
<1>7. Joint'
  BY <1>1, <1>3, <1>5, SharedKeeps
<1>8. Framed'
  BY <1>1, <1>5, <1>6 DEF Framed
<1>9. HInv'
  BY <1>6, <1>8 DEF HInv
<1> QED BY <1>7, <1>9 DEF IInv

\* A document that comes to hold its file's text anew has no history.
LEMMA EmptiedStep ==
  ASSUME IInv, NEW d \in Docs,
         text' = [text EXCEPT ![d] = 0], carets' = [carets EXCEPT ![d] = 0],
         undo' = [undo EXCEPT ![d] = <<>>], redo' = [redo EXCEPT ![d] = <<>>],
         shared' = Apart(d), UNCHANGED <<texts, groups, stops>>,
         open \ {d} \subseteq open', open' \subseteq open, active' \in open'
  PROVE  IInv'
<1>1. /\ HInv /\ Joint /\ Framed /\ texts \in Nat /\ texts \in Texts
  BY HistoryAssumption DEF IInv, HInv, Framed, Texts
<1>2. Fits(0, <<>>, <<>>, stops', texts') /\ Met(0, <<>>, <<>>) = {0}
  BY <1>1, FitsEmpty
<1>3. /\ text' = [e \in Docs |-> text'[e]] /\ carets' = [e \in Docs |-> carets'[e]]
      /\ undo' = [e \in Docs |-> undo'[e]] /\ redo' = [e \in Docs |-> redo'[e]]
      /\ stops' \subseteq 0 .. texts'
      /\ \A e \in Docs : /\ carets'[e] = text'[e]
                         /\ Fits(text'[e], undo'[e], redo'[e], stops', texts')
      /\ \A e, f \in Docs : e # f => MetBy(e)' \cap MetBy(f)' \subseteq {0}
  <2>1. texts' \in Texts /\ texts <= texts'
    BY <1>1
  <2>2. PICK X : X = {}
    OBVIOUS
  <2>3. stops' = stops \cup X /\ X \subseteq MetBy(d) \cup (texts + 1 .. texts')
    BY <2>2
  <2>4. Met(0, <<>>, <<>>) \subseteq MetBy(d) \cup (texts + 1 .. texts') \cup {0}
    BY <1>2
  <2> QED BY ONLY <1>1, <1>2, <2>1, <2>3, <2>4, OneChanges, d \in Docs,
            text' = [text EXCEPT ![d] = 0], carets' = [carets EXCEPT ![d] = 0],
            undo' = [undo EXCEPT ![d] = <<>>], redo' = [redo EXCEPT ![d] = <<>>]
<1>4. /\ \A e \in Docs : e # d => /\ text'[e] = text[e] /\ undo'[e] = undo[e] /\ redo'[e] = redo[e]
      /\ text'[d] = 0 /\ undo'[d] = <<>> /\ redo'[d] = <<>>
  BY <1>1 DEF Framed
<1>5. Joint' /\ shared' \in [Docs -> [with : SUBSET Docs, done : BOOLEAN]]
  BY <1>1, <1>4, ApartKeeps
<1>6. Framed'
  BY <1>1, <1>3, <1>4, <1>5 DEF Framed
<1>7. HInv'
  BY <1>3, <1>6 DEF HInv
<1> QED BY <1>5, <1>7 DEF IInv

\* A change of tabs changes no document.
LEMMA TabStep ==
  ASSUME IInv, UNCHANGED <<text, carets, undo, redo, texts, groups, stops, shared>>,
         open \subseteq open', open' \subseteq Docs, active' \in open'
  PROVE  IInv'
<1>1. Joint'
  BY SharedKeeps DEF IInv
<1>2. Framed'
  BY DEF IInv, HInv, Framed
<1>3. \A d \in Docs : MetBy(d)' = MetBy(d)
  BY DEF MetBy
<1>4. HInv'
  BY <1>2, <1>3 DEF IInv, HInv
<1> QED BY <1>1, <1>4 DEF IInv

\* What the documents of one stack's newest step do, and the others.
LEMMA PartnersAre ==
  ASSUME IInv, NEW stacks, stacks[active] # <<>>
  PROVE  /\ Partners(stacks) \subseteq open /\ active \in Partners(stacks)
         /\ GroupOf(stacks[active]) = 0 => Partners(stacks) = {active}
         /\ \A d \in Partners(stacks) :
              stacks[d] # <<>> /\ GroupOf(stacks[d]) = GroupOf(stacks[active])
<1>1. active \in open
  BY DEF IInv, HInv, Framed
<1>2. CASE GroupOf(stacks[active]) = 0
  BY <1>1, <1>2 DEF Partners
<1>3. CASE GroupOf(stacks[active]) # 0
  <2>1. Partners(stacks) = {d \in open : GroupOf(stacks[d]) = GroupOf(stacks[active])}
    BY <1>3 DEF Partners
  <2>2. \A d \in open : GroupOf(stacks[d]) # 0 => stacks[d] # <<>>
    BY DEF GroupOf
  <2> QED BY <1>1, <1>3, <2>1, <2>2
<1> QED BY <1>2, <1>3

LEMMA UndoMoves ==
  ASSUME IInv, Undo
  PROVE  /\ \A d \in Partners(undo) :
              LET entry == Top(undo[d])
                  back  == Opposite(text[d], entry)
              IN  /\ d \in open /\ undo[d] # <<>>
                  /\ text'[d] = Arrives(entry) /\ carets'[d] = Arrives(entry)
                  /\ undo'[d] = Pop(undo[d]) /\ redo'[d] = Append(redo[d], back)
                  /\ Arrives(back) = text[d] /\ back \in Entries
                  /\ Fits(text'[d], undo'[d], redo'[d], stops, texts)
                  /\ MetBy(d)' \subseteq MetBy(d)
                  /\ GroupOf(redo'[d]) = GroupOf(undo[active])
                  /\ Len(undo'[d]) = Len(undo[d]) - 1 /\ Len(redo'[d]) = Len(redo[d]) + 1
         /\ \A d \in Docs \ Partners(undo) :
              /\ text'[d] = text[d] /\ carets'[d] = carets[d]
              /\ undo'[d] = undo[d] /\ redo'[d] = redo[d] /\ MetBy(d)' = MetBy(d)
         /\ text' = [d \in Docs |-> text'[d]] /\ carets' = [d \in Docs |-> carets'[d]]
         /\ undo' = [d \in Docs |-> undo'[d]] /\ redo' = [d \in Docs |-> redo'[d]]
<1>1. undo[active] # <<>> /\ HInv /\ open \subseteq Docs /\ texts \in Nat
  BY HistoryAssumption DEF Undo, IInv, HInv, Framed, Texts
<1>2. PICK S : S = Partners(undo)
  OBVIOUS
<1>3. /\ S \subseteq open /\ S \subseteq Docs
      /\ \A d \in S : undo[d] # <<>> /\ GroupOf(undo[d]) = GroupOf(undo[active])
  BY <1>1, <1>2, PartnersAre
<1>4. /\ text' = [d \in Docs |-> IF d \in S THEN Result(text[d], Top(undo[d])) ELSE text[d]]
      /\ carets' = [d \in Docs |-> IF d \in S THEN Top(undo[d]).after ELSE carets[d]]
      /\ undo' = [d \in Docs |-> IF d \in S THEN Pop(undo[d]) ELSE undo[d]]
      /\ redo' = [d \in Docs |-> IF d \in S
                                 THEN Append(redo[d], Opposite(text[d], Top(undo[d])))
                                 ELSE redo[d]]
  BY <1>2 DEF Undo, Move, Shrunk, Grown
<1>5. ASSUME NEW d \in S
      PROVE  LET entry == Top(undo[d])
                 back  == Opposite(text[d], entry)
             IN  /\ d \in open /\ undo[d] # <<>>
                 /\ text'[d] = Arrives(entry) /\ carets'[d] = Arrives(entry)
                 /\ undo'[d] = Pop(undo[d]) /\ redo'[d] = Append(redo[d], back)
                 /\ Arrives(back) = text[d] /\ back \in Entries
                 /\ Fits(text'[d], undo'[d], redo'[d], stops, texts)
                 /\ MetBy(d)' \subseteq MetBy(d)
                 /\ GroupOf(redo'[d]) = GroupOf(undo[active])
                 /\ Len(undo'[d]) = Len(undo[d]) - 1 /\ Len(redo'[d]) = Len(redo[d]) + 1
  <2>1. PICK t, u, r, entry, back : /\ t = text[d] /\ u = undo[d] /\ r = redo[d]
                                    /\ entry = Top(u) /\ back = Opposite(t, entry)
    OBVIOUS
  <2>2. d \in Docs /\ d \in open /\ u # <<>> /\ Fits(t, u, r, stops, texts)
    BY <1>1, <1>3, <2>1 DEF HInv
  <2>3. /\ Result(t, entry) = Arrives(entry) /\ entry.after = Arrives(entry)
        /\ Fits(Arrives(entry), Pop(u), Append(r, back), stops, texts)
        /\ Met(Arrives(entry), Pop(u), Append(r, back)) \subseteq Met(t, u, r)
        /\ GroupOf(Append(r, back)) = GroupOf(u)
        /\ Len(Pop(u)) = Len(u) - 1 /\ Len(Append(r, back)) = Len(r) + 1
        /\ Arrives(back) = t /\ back \in Entries
    <3>1. Undone(t, u, r, stops, texts)
      BY <1>1, <2>2, FitsUndo
    <3> QED BY <2>1, <3>1 DEF Undone
  <2>4. /\ text'[d] = Arrives(entry) /\ carets'[d] = Arrives(entry)
        /\ undo'[d] = Pop(u) /\ redo'[d] = Append(r, back)
    BY <1>4, <2>1, <2>2, <2>3
  <2>5. MetBy(d)' = Met(text'[d], undo'[d], redo'[d]) /\ MetBy(d) = Met(t, u, r)
    BY <2>1 DEF MetBy
  <2> QED BY <1>3, <2>1, <2>2, <2>3, <2>4, <2>5
<1>6. \A d \in Docs \ S :
              /\ text'[d] = text[d] /\ carets'[d] = carets[d]
              /\ undo'[d] = undo[d] /\ redo'[d] = redo[d] /\ MetBy(d)' = MetBy(d)
  BY <1>4 DEF MetBy
<1> QED BY <1>2, <1>4, <1>5, <1>6

LEMMA RedoMoves ==
  ASSUME IInv, Redo
  PROVE  /\ \A d \in Partners(redo) :
              LET entry == Top(redo[d])
                  back  == Opposite(text[d], entry)
              IN  /\ d \in open /\ redo[d] # <<>>
                  /\ text'[d] = Arrives(entry) /\ carets'[d] = Arrives(entry)
                  /\ redo'[d] = Pop(redo[d]) /\ undo'[d] = Append(undo[d], back)
                  /\ Arrives(back) = text[d] /\ back \in Entries
                  /\ Fits(text'[d], undo'[d], redo'[d], stops, texts)
                  /\ MetBy(d)' \subseteq MetBy(d)
                  /\ GroupOf(undo'[d]) = GroupOf(redo[active])
                  /\ Len(redo'[d]) = Len(redo[d]) - 1 /\ Len(undo'[d]) = Len(undo[d]) + 1
         /\ \A d \in Docs \ Partners(redo) :
              /\ text'[d] = text[d] /\ carets'[d] = carets[d]
              /\ undo'[d] = undo[d] /\ redo'[d] = redo[d] /\ MetBy(d)' = MetBy(d)
         /\ text' = [d \in Docs |-> text'[d]] /\ carets' = [d \in Docs |-> carets'[d]]
         /\ undo' = [d \in Docs |-> undo'[d]] /\ redo' = [d \in Docs |-> redo'[d]]
<1>1. redo[active] # <<>> /\ HInv /\ open \subseteq Docs /\ texts \in Nat
  BY HistoryAssumption DEF Redo, IInv, HInv, Framed, Texts
<1>2. PICK S : S = Partners(redo)
  OBVIOUS
<1>3. /\ S \subseteq open /\ S \subseteq Docs
      /\ \A d \in S : redo[d] # <<>> /\ GroupOf(redo[d]) = GroupOf(redo[active])
  BY <1>1, <1>2, PartnersAre
<1>4. /\ text' = [d \in Docs |-> IF d \in S THEN Result(text[d], Top(redo[d])) ELSE text[d]]
      /\ carets' = [d \in Docs |-> IF d \in S THEN Top(redo[d]).after ELSE carets[d]]
      /\ redo' = [d \in Docs |-> IF d \in S THEN Pop(redo[d]) ELSE redo[d]]
      /\ undo' = [d \in Docs |-> IF d \in S
                                 THEN Append(undo[d], Opposite(text[d], Top(redo[d])))
                                 ELSE undo[d]]
  BY <1>2 DEF Redo, Move, Shrunk, Grown
<1>5. ASSUME NEW d \in S
      PROVE  LET entry == Top(redo[d])
                 back  == Opposite(text[d], entry)
             IN  /\ d \in open /\ redo[d] # <<>>
                 /\ text'[d] = Arrives(entry) /\ carets'[d] = Arrives(entry)
                 /\ redo'[d] = Pop(redo[d]) /\ undo'[d] = Append(undo[d], back)
                 /\ Arrives(back) = text[d] /\ back \in Entries
                 /\ Fits(text'[d], undo'[d], redo'[d], stops, texts)
                 /\ MetBy(d)' \subseteq MetBy(d)
                 /\ GroupOf(undo'[d]) = GroupOf(redo[active])
                 /\ Len(redo'[d]) = Len(redo[d]) - 1 /\ Len(undo'[d]) = Len(undo[d]) + 1
  <2>1. PICK t, u, r, entry, back : /\ t = text[d] /\ u = undo[d] /\ r = redo[d]
                                    /\ entry = Top(r) /\ back = Opposite(t, entry)
    OBVIOUS
  <2>2. d \in Docs /\ d \in open /\ r # <<>> /\ Fits(t, u, r, stops, texts)
    BY <1>1, <1>3, <2>1 DEF HInv
  <2>3. /\ Result(t, entry) = Arrives(entry) /\ entry.after = Arrives(entry)
        /\ Fits(Arrives(entry), Append(u, back), Pop(r), stops, texts)
        /\ Met(Arrives(entry), Append(u, back), Pop(r)) \subseteq Met(t, u, r)
        /\ GroupOf(Append(u, back)) = GroupOf(r)
        /\ Len(Pop(r)) = Len(r) - 1 /\ Len(Append(u, back)) = Len(u) + 1
        /\ Arrives(back) = t /\ back \in Entries
    <3>1. Redone(t, u, r, stops, texts)
      BY <1>1, <2>2, FitsRedo
    <3> QED BY <2>1, <3>1 DEF Redone
  <2>4. /\ text'[d] = Arrives(entry) /\ carets'[d] = Arrives(entry)
        /\ redo'[d] = Pop(r) /\ undo'[d] = Append(u, back)
    BY <1>4, <2>1, <2>2, <2>3
  <2>5. MetBy(d)' = Met(text'[d], undo'[d], redo'[d]) /\ MetBy(d) = Met(t, u, r)
    BY <2>1 DEF MetBy
  <2> QED BY <1>3, <2>1, <2>2, <2>3, <2>4, <2>5
<1>6. \A d \in Docs \ S :
              /\ text'[d] = text[d] /\ carets'[d] = carets[d]
              /\ undo'[d] = undo[d] /\ redo'[d] = redo[d] /\ MetBy(d)' = MetBy(d)
  BY <1>4 DEF MetBy
<1> QED BY <1>2, <1>4, <1>5, <1>6

\* Documents that move along their histories go on fitting, and meet no text
\* they had not met.
LEMMA MoveKeeps ==
  ASSUME IInv, NEW S, S \subseteq open, UNCHANGED <<open, active, texts, groups, stops>>,
         text' = [d \in Docs |-> text'[d]], carets' = [d \in Docs |-> carets'[d]],
         undo' = [d \in Docs |-> undo'[d]], redo' = [d \in Docs |-> redo'[d]],
         \A d \in S : /\ carets'[d] = text'[d]
                      /\ Fits(text'[d], undo'[d], redo'[d], stops, texts)
                      /\ MetBy(d)' \subseteq MetBy(d),
         \A d \in Docs \ S :
           /\ text'[d] = text[d] /\ carets'[d] = carets[d]
           /\ undo'[d] = undo[d] /\ redo'[d] = redo[d] /\ MetBy(d)' = MetBy(d),
         shared' \in [Docs -> [with : SUBSET Docs, done : BOOLEAN]]
  PROVE  HInv'
<1>1. HInv /\ Framed /\ texts \in Nat /\ S \subseteq Docs
  BY HistoryAssumption DEF IInv, HInv, Framed, Texts
<1>2. Framed'
  BY <1>1 DEF Framed
<1>3. \A d \in Docs : /\ carets'[d] = text'[d]
                      /\ Fits(text'[d], undo'[d], redo'[d], stops', texts')
  BY <1>1 DEF HInv
<1>4. \A d, e \in Docs : d # e => MetBy(d)' \cap MetBy(e)' \subseteq {0}
  <2>1. \A d \in Docs : MetBy(d)' \subseteq MetBy(d)
    OBVIOUS
  <2>2. \A d, e \in Docs : d # e => MetBy(d) \cap MetBy(e) \subseteq {0}
    BY <1>1 DEF HInv
  <2> QED BY ONLY <2>1, <2>2
<1>5. stops' \subseteq 0 .. texts'
  BY <1>1 DEF HInv
<1> QED BY <1>2, <1>3, <1>4, <1>5 DEF HInv

LEMMA UndoStep ==
  ASSUME IInv, Undo
  PROVE  IInv'
<1>1. PICK S : S = Partners(undo)
  OBVIOUS
<1>2. PICK g : g = GroupOf(undo[active])
  OBVIOUS
<1>3. /\ undo[active] # <<>> /\ UNCHANGED <<open, active, texts, groups, stops>>
      /\ shared' = IF g = 0 THEN Apart(active) ELSE Together(S, FALSE)
      /\ HInv /\ Joint /\ open \subseteq Docs /\ active \in Docs
  BY <1>1, <1>2 DEF Undo, Move, Moved, IInv, HInv, Framed
<1>4. S \subseteq open /\ (g = 0 => S = {active})
  BY <1>1, <1>2, <1>3, PartnersAre
<1>5. /\ \A d \in S : /\ carets'[d] = text'[d]
                      /\ Fits(text'[d], undo'[d], redo'[d], stops, texts)
                      /\ MetBy(d)' \subseteq MetBy(d) /\ GroupOf(redo'[d]) = g
      /\ \A d \in Docs \ S :
           /\ text'[d] = text[d] /\ carets'[d] = carets[d]
           /\ undo'[d] = undo[d] /\ redo'[d] = redo[d] /\ MetBy(d)' = MetBy(d)
      /\ text' = [d \in Docs |-> text'[d]] /\ carets' = [d \in Docs |-> carets'[d]]
      /\ undo' = [d \in Docs |-> undo'[d]] /\ redo' = [d \in Docs |-> redo'[d]]
  BY <1>1, <1>2, UndoMoves
<1>6. Joint' /\ shared' \in [Docs -> [with : SUBSET Docs, done : BOOLEAN]]
  <2>1. CASE g = 0
    <3>1. \A d \in Docs : d # active =>
            /\ GroupOf(undo'[d]) = GroupOf(undo[d])
            /\ GroupOf(redo'[d]) = GroupOf(redo[d])
            /\ d \in open => d \in open'
      BY <1>3, <1>4, <1>5, <2>1
    <3>2. shared' = Apart(active)
      BY <1>3, <2>1
    <3> QED BY ONLY <1>3, <3>1, <3>2, ApartKeeps
  <2>2. CASE g # 0
    <3>1. shared' = Together(S, FALSE) /\ S \subseteq open' /\ open \subseteq open'
          /\ open' \subseteq Docs
      BY <1>3, <1>4, <2>2
    <3>2. /\ shared' \in {Together(S, TRUE), Together(S, FALSE)}
          /\ S # {} => Together(S, TRUE) # Together(S, FALSE)
      <4>1. ASSUME NEW d \in S
            PROVE  Together(S, TRUE)[d].done = TRUE /\ Together(S, FALSE)[d].done = FALSE
        BY <1>3, <1>4, <4>1 DEF Together
      <4> QED BY <3>1, <4>1
    <3>3. \A d \in S : /\ shared' = Together(S, TRUE) => GroupOf(undo'[d]) = g
                       /\ shared' = Together(S, FALSE) => GroupOf(redo'[d]) = g
      BY <1>5, <3>1, <3>2
    <3>4. \A d \in Docs \ S : /\ GroupOf(undo'[d]) = GroupOf(undo[d])
                              /\ GroupOf(redo'[d]) = GroupOf(redo[d])
      BY <1>5
    <3> QED BY ONLY <1>3, <2>2, <3>1, <3>2, <3>3, <3>4, TogetherKeeps
  <2> QED BY <2>1, <2>2
<1>7. HInv'
  BY <1>3, <1>4, <1>5, <1>6, MoveKeeps
<1> QED BY <1>6, <1>7 DEF IInv

LEMMA RedoStep ==
  ASSUME IInv, Redo
  PROVE  IInv'
<1>1. PICK S : S = Partners(redo)
  OBVIOUS
<1>2. PICK g : g = GroupOf(redo[active])
  OBVIOUS
<1>3. /\ redo[active] # <<>> /\ UNCHANGED <<open, active, texts, groups, stops>>
      /\ shared' = IF g = 0 THEN Apart(active) ELSE Together(S, TRUE)
      /\ HInv /\ Joint /\ open \subseteq Docs /\ active \in Docs
  BY <1>1, <1>2 DEF Redo, Move, Moved, IInv, HInv, Framed
<1>4. S \subseteq open /\ (g = 0 => S = {active})
  BY <1>1, <1>2, <1>3, PartnersAre
<1>5. /\ \A d \in S : /\ carets'[d] = text'[d]
                      /\ Fits(text'[d], undo'[d], redo'[d], stops, texts)
                      /\ MetBy(d)' \subseteq MetBy(d) /\ GroupOf(undo'[d]) = g
      /\ \A d \in Docs \ S :
           /\ text'[d] = text[d] /\ carets'[d] = carets[d]
           /\ undo'[d] = undo[d] /\ redo'[d] = redo[d] /\ MetBy(d)' = MetBy(d)
      /\ text' = [d \in Docs |-> text'[d]] /\ carets' = [d \in Docs |-> carets'[d]]
      /\ undo' = [d \in Docs |-> undo'[d]] /\ redo' = [d \in Docs |-> redo'[d]]
  BY <1>1, <1>2, RedoMoves
<1>6. Joint' /\ shared' \in [Docs -> [with : SUBSET Docs, done : BOOLEAN]]
  <2>1. CASE g = 0
    <3>1. \A d \in Docs : d # active =>
            /\ GroupOf(undo'[d]) = GroupOf(undo[d])
            /\ GroupOf(redo'[d]) = GroupOf(redo[d])
            /\ d \in open => d \in open'
      BY <1>3, <1>4, <1>5, <2>1
    <3>2. shared' = Apart(active)
      BY <1>3, <2>1
    <3> QED BY ONLY <1>3, <3>1, <3>2, ApartKeeps
  <2>2. CASE g # 0
    <3>1. shared' = Together(S, TRUE) /\ S \subseteq open' /\ open \subseteq open'
          /\ open' \subseteq Docs
      BY <1>3, <1>4, <2>2
    <3>2. /\ shared' \in {Together(S, TRUE), Together(S, FALSE)}
          /\ S # {} => Together(S, TRUE) # Together(S, FALSE)
      <4>1. ASSUME NEW d \in S
            PROVE  Together(S, TRUE)[d].done = TRUE /\ Together(S, FALSE)[d].done = FALSE
        BY <1>3, <1>4, <4>1 DEF Together
      <4> QED BY <3>1, <4>1
    <3>3. \A d \in S : /\ shared' = Together(S, TRUE) => GroupOf(undo'[d]) = g
                       /\ shared' = Together(S, FALSE) => GroupOf(redo'[d]) = g
      BY <1>5, <3>1, <3>2
    <3>4. \A d \in Docs \ S : /\ GroupOf(undo'[d]) = GroupOf(undo[d])
                              /\ GroupOf(redo'[d]) = GroupOf(redo[d])
      BY <1>5
    <3> QED BY ONLY <1>3, <2>2, <3>1, <3>2, <3>3, <3>4, TogetherKeeps
  <2> QED BY <2>1, <2>2
<1>7. HInv'
  BY <1>3, <1>4, <1>5, <1>6, MoveKeeps
<1> QED BY <1>6, <1>7 DEF IInv

\* New texts can be told apart: as many numbers as documents are enough.
LEMMA NumbersExist ==
  ASSUME NEW S, IsFiniteSet(S), NEW n \in Nat
  PROVE  \E f \in [S -> n + 1 .. n + Cardinality(S)] :
           \A d, e \in S : f[d] = f[e] => d = e
<1> DEFINE c == Cardinality(S)
<1>1. c \in Nat /\ ExistsBijection(1 .. c, S)
  BY FS_CardinalityType
<1> HIDE DEF c
<1>2. ExistsBijection(S, 1 .. c)
  BY <1>1, Fun_ExistsBijSymmetric
<1>3. PICK g \in Bijection(S, 1 .. c) : TRUE
  BY <1>2 DEF ExistsBijection
<1>4. g \in [S -> 1 .. c] /\ \A d, e \in S : g[d] = g[e] => d = e
  BY <1>3 DEF Bijection, Injection, IsInjective
<1>5. PICK f : f = [d \in S |-> n + g[d]]
  OBVIOUS
<1>6. \A d \in S : f[d] = n + g[d] /\ g[d] \in 1 .. c /\ n + g[d] \in n + 1 .. n + c
  BY <1>1, <1>4, <1>5
<1>7. f \in [S -> n + 1 .. n + c]
  BY <1>5, <1>6
<1>8. \A d, e \in S : f[d] = f[e] => d = e
  <2> TAKE d, e \in S
  <2> HAVE f[d] = f[e]
  <2>1. n + g[d] = n + g[e] /\ g[d] \in Nat /\ g[e] \in Nat
    BY <1>6
  <2>2. g[d] = g[e]
    BY <2>1
  <2> QED BY <1>4, <2>2
<1> QED BY <1>7, <1>8 DEF c

LEMMA ApplyStep ==
  ASSUME IInv, NEW plan \in SUBSET Docs, NEW changed \in SUBSET plan,
         ApplyWorkspaceEdit(plan, changed)
  PROVE  IInv'
<1>1. /\ HInv /\ Joint /\ Framed /\ changed \subseteq Docs /\ plan \subseteq Docs
      /\ texts \in Nat /\ stops \subseteq 0 .. texts /\ groups \in Nat
      /\ MaxTexts \in Nat /\ MaxGroups \in Nat
  BY HistoryAssumption DEF IInv, HInv, Framed, Texts, Group
<1>2. PICK number : number =
        CHOOSE f \in [changed -> texts + 1 .. texts + Cardinality(changed)] :
          \A d, e \in changed : f[d] = f[e] => d = e
  OBVIOUS
<1>3. /\ groups < MaxGroups /\ texts + Cardinality(changed) <= MaxTexts
      /\ groups' = groups + 1 /\ texts' = texts + Cardinality(changed)
      /\ open' = open \cup plan /\ active' = active
      /\ text' = [d \in Docs |-> IF d \in changed THEN number[d] ELSE text[d]]
      /\ carets' = [d \in Docs |-> IF d \in changed THEN number[d] ELSE carets[d]]
      /\ undo' = [d \in Docs |->
                    IF d \in changed
                    THEN Pushed(undo[d], text[d], number[d], "discrete", groups', TRUE)
                    ELSE undo[d]]
      /\ redo' = [d \in Docs |-> IF d \in changed THEN <<>> ELSE redo[d]]
      /\ stops' = stops \cup {number[d] : d \in changed}
      /\ shared' = Together(changed, TRUE)
  BY <1>2 DEF ApplyWorkspaceEdit, NextGroup
<1>4. IsFiniteSet(changed) /\ Cardinality(changed) \in Nat
  BY <1>1, HistoryAssumption, FS_Subset, FS_CardinalityType
<1>5. /\ number \in [changed -> texts + 1 .. texts + Cardinality(changed)]
      /\ \A d, e \in changed : number[d] = number[e] => d = e
  <2>1. \E f \in [changed -> texts + 1 .. texts + Cardinality(changed)] :
          \A d, e \in changed : f[d] = f[e] => d = e
    BY <1>1, <1>4, NumbersExist
  <2> QED BY ONLY <1>2, <2>1
<1>6. /\ texts' \in Texts /\ texts' \in Nat /\ texts <= texts'
      /\ groups' \in Group /\ groups' # 0
  BY <1>1, <1>3, <1>4 DEF Texts, Group
<1>7. PICK g, X : g = groups' /\ X = {number[d] : d \in changed}
  OBVIOUS
<1>8. /\ X \subseteq texts + 1 .. texts' /\ stops' = stops \cup X
      /\ \A d \in changed : number[d] \in texts + 1 .. texts' /\ number[d] \in X
  BY <1>3, <1>5, <1>7
<1>9. \A d \in changed :
        number[d] \in Texts /\ texts < number[d] /\ number[d] <= texts'
  BY <1>1, <1>6, <1>8 DEF Texts
<1>10. \A d \in Docs : Fits(text[d], undo[d], redo[d], stops, texts) /\ MetBy(d) \subseteq 0 .. texts
  BY <1>1, MetBounded DEF HInv, MetBy
<1>11. ASSUME NEW d \in Docs, d \notin changed
       PROVE  /\ text'[d] = text[d] /\ carets'[d] = carets[d]
              /\ undo'[d] = undo[d] /\ redo'[d] = redo[d] /\ MetBy(d)' = MetBy(d)
              /\ Fits(text'[d], undo'[d], redo'[d], stops', texts')
  <2>1. /\ text'[d] = text[d] /\ carets'[d] = carets[d]
        /\ undo'[d] = undo[d] /\ redo'[d] = redo[d]
    BY <1>3, <1>11
  <2>2. X \cap Met(text[d], undo[d], redo[d]) \subseteq {0}
    <3>1. (texts + 1 .. texts') \cap (0 .. texts) = {}
      BY <1>1, <1>6
    <3> QED BY <1>8, <1>10, <3>1 DEF MetBy
  <2>3. Fits(text[d], undo[d], redo[d], stops \cup X, texts')
    BY <1>1, <1>6, <1>10, <2>2, FitsStops
  <2> QED BY <1>8, <2>1, <2>3 DEF MetBy
<1>12. ASSUME NEW d \in changed
       PROVE  /\ text'[d] = number[d] /\ carets'[d] = number[d]
              /\ MetBy(d)' \subseteq MetBy(d) \cup {number[d]}
              /\ GroupOf(undo'[d]) = g
              /\ Fits(text'[d], undo'[d], redo'[d], stops', texts')
  <2>1. PICK x, v, b, u, r : /\ x = number[d] /\ b = text[d] /\ u = undo[d] /\ r = redo[d]
                             /\ v = Pushed(u, b, x, "discrete", g, TRUE)
    OBVIOUS
  <2>2. /\ text'[d] = x /\ carets'[d] = x /\ undo'[d] = v /\ redo'[d] = <<>>
    BY <1>1, <1>3, <1>7, <2>1
  <2>3. /\ x \in Texts /\ texts < x /\ x <= texts' /\ x \in X
        /\ Fits(b, u, r, stops, texts) /\ d \in Docs /\ "discrete" \in Kinds /\ g \in Group
    BY <1>1, <1>6, <1>7, <1>8, <1>9, <1>10, <2>1 DEF Kinds
  <2>4. Fits(x, v, <<>>, stops \cup {x}, texts')
    <3>1. PICK kind \in Kinds : kind = "discrete"
      BY <2>3
    <3>2. /\ Fits(x, Pushed(u, b, x, kind, g, TRUE), <<>>, stops, texts')
          /\ kind = "discrete" =>
               Fits(x, Pushed(u, b, x, kind, g, TRUE), <<>>, stops \cup {x}, texts')
      BY ONLY <1>1, <1>6, <2>3, <3>1, FitsPushed
    <3> QED BY <2>1, <3>1, <3>2
  <2>5. Records(b, u, r, x, v, "discrete", g)
    BY <1>1, <2>1, <2>3, PushedMeets
  <2>6. Met(x, v, <<>>) \subseteq MetBy(d) \cup {x} /\ GroupOf(v) = g
    BY <2>1, <2>5 DEF Records, MetBy
  <2>7. PICK Y : Y = X \ {x}
    OBVIOUS
  <2>8. Y \cap Met(x, v, <<>>) \subseteq {0}
    <3>1. (texts + 1 .. texts') \cap (0 .. texts) = {}
      BY <1>1, <1>6
    <3> QED BY <1>8, <1>10, <2>3, <2>6, <2>7, <3>1
  <2>9. Fits(x, v, <<>>, (stops \cup {x}) \cup Y, texts')
    BY ONLY <1>6, <2>4, <2>8, FitsStops, texts' <= texts'
  <2>10. (stops \cup {x}) \cup Y = stops'
    BY <1>8, <2>3, <2>7
  <2>11. MetBy(d)' = Met(x, v, <<>>)
    BY <2>2 DEF MetBy
  <2> QED BY <2>1, <2>2, <2>6, <2>9, <2>10, <2>11
<1>13. \A d, e \in Docs : d # e => MetBy(d)' \cap MetBy(e)' \subseteq {0}
  <2>1. PICK own : own = [d \in Docs |-> IF d \in changed THEN {number[d]} ELSE {}]
    OBVIOUS
  <2>2. /\ \A d \in changed : own[d] = {number[d]}
        /\ \A d \in Docs \ changed : own[d] = {}
    BY <1>1, <2>1
  <2>3. \A d \in Docs : own[d] \subseteq texts + 1 .. texts'
    BY <1>8, <2>2
  <2>4. \A d, e \in Docs : d # e => own[d] \cap own[e] = {}
    BY <1>5, <2>2
  <2>5. \A d \in Docs : MetBy(d)' \subseteq MetBy(d) \cup own[d] \cup {0}
    BY <1>11, <1>12, <2>2
  <2> QED BY ONLY <1>1, <1>6, <2>3, <2>4, <2>5, StillApart
<1>14. Joint' /\ shared' \in [Docs -> [with : SUBSET Docs, done : BOOLEAN]]
  <2>1. /\ changed \subseteq open' /\ open \subseteq open' /\ open' \subseteq Docs
        /\ shared' \in {Together(changed, TRUE), Together(changed, FALSE)} /\ g # 0
    BY <1>1, <1>3, <1>6, <1>7 DEF Framed
  <2>2. \A d \in changed : /\ shared' = Together(changed, TRUE) => GroupOf(undo'[d]) = g
                           /\ shared' = Together(changed, FALSE) => GroupOf(redo'[d]) = g
    <3>1. ASSUME NEW d \in changed
          PROVE  Together(changed, TRUE)[d].done = TRUE /\ Together(changed, FALSE)[d].done = FALSE
      BY <1>1, <3>1 DEF Together
    <3>2. changed # {} => shared' # Together(changed, FALSE)
      BY <1>3, <3>1
    <3> QED BY <1>12, <3>2
  <2>3. \A d \in Docs \ changed : /\ GroupOf(undo'[d]) = GroupOf(undo[d])
                                  /\ GroupOf(redo'[d]) = GroupOf(redo[d])
    BY <1>11
  <2> QED BY ONLY <1>1, <2>1, <2>2, <2>3, TogetherKeeps
<1>15. Framed'
  <2>1. /\ text' = [d \in Docs |-> text'[d]] /\ carets' = [d \in Docs |-> carets'[d]]
        /\ undo' = [d \in Docs |-> undo'[d]] /\ redo' = [d \in Docs |-> redo'[d]]
    BY <1>3
  <2>2. \A d \in Docs \ open' : text'[d] = 0 /\ undo'[d] = <<>> /\ redo'[d] = <<>>
    BY <1>1, <1>3, <1>11 DEF Framed
  <2>3. open' \subseteq Docs /\ active' \in open'
    BY <1>1, <1>3 DEF Framed
  <2> QED BY <1>6, <1>14, <2>1, <2>2, <2>3 DEF Framed
<1>16. \A d \in Docs : carets'[d] = text'[d] /\ Fits(text'[d], undo'[d], redo'[d], stops', texts')
  BY <1>1, <1>11, <1>12 DEF HInv
<1>17. stops' \subseteq 0 .. texts'
  <2>1. 0 .. texts \subseteq 0 .. texts' /\ texts + 1 .. texts' \subseteq 0 .. texts'
    BY <1>1, <1>6
  <2> QED BY <1>1, <1>8, <2>1
<1>18. HInv'
  BY <1>13, <1>15, <1>16, <1>17 DEF HInv
<1> QED BY <1>14, <1>18 DEF IInv

\* Every step keeps the invariant.
LEMMA EveryStep ==
  ASSUME IInv, Next
  PROVE  IInv'
<1>1. active \in open /\ open \subseteq Docs
  BY DEF IInv, HInv, Framed
<1>2. ASSUME NEW kind \in Kinds, NEW soon \in BOOLEAN, Type(kind, soon)
      PROVE  IInv'
  <2>1. Edit(active, kind, soon) /\ stops' = stops
    BY <1>2 DEF Type
  <2> QED BY <1>1, <2>1, EditStep
<1>3. CASE MoveCaret
  BY <1>1, <1>3, BreakStep DEF MoveCaret
<1>4. CASE Undo
  BY <1>4, UndoStep
<1>5. CASE Redo
  BY <1>5, RedoStep
<1>6. ASSUME NEW d \in open, Change(d) \/ TakeFile(d)
      PROVE  IInv'
  <2>1. "discrete" \in Kinds /\ Edit(d, "discrete", TRUE)
    BY <1>6 DEF Change, TakeFile, Kinds
  <2>2. stops' = stops \/ stops' = stops \cup {texts'}
    BY <1>6 DEF Change, TakeFile
  <2>3. PICK kind \in Kinds : kind = "discrete"
    BY <2>1
  <2>4. /\ Edit(d, kind, TRUE)
        /\ stops' = stops \/ (kind = "discrete" /\ stops' = stops \cup {texts'})
    BY <2>1, <2>2, <2>3
  <2> QED BY <2>4, EditStep
<1>7. ASSUME NEW d \in open, Save(d)
      PROVE  IInv'
  BY <1>7, BreakStep DEF Save
<1>8. ASSUME NEW d \in open, Switch(d)
      PROVE  IInv'
  BY <1>1, <1>8, TabStep DEF Switch
<1>9. ASSUME NEW d \in open, Close(d)
      PROVE  IInv'
  <2>1. /\ open \ {active} \subseteq open' /\ open' \subseteq open /\ active' \in open'
        /\ active \in Docs
    BY <1>1, <1>9 DEF Close
  <2> QED BY <1>9, <2>1, EmptiedStep DEF Close
<1>10. ASSUME NEW d \in open, ReloadOpen(d)
       PROVE  IInv'
  <2>1. open \ {d} \subseteq open' /\ open' \subseteq open /\ active' \in open' /\ d \in Docs
    BY <1>1, <1>10 DEF ReloadOpen
  <2> QED BY <1>10, <2>1, EmptiedStep DEF ReloadOpen
<1>11. ASSUME NEW d \in Docs, Open(d)
       PROVE  IInv'
  <2>1. open \subseteq open' /\ open' \subseteq Docs /\ active' \in open'
    BY <1>1, <1>11 DEF Open
  <2> QED BY <1>11, <2>1, TabStep DEF Open
<1>12. ASSUME NEW plan \in SUBSET Docs, NEW changed \in SUBSET plan,
              ApplyWorkspaceEdit(plan, changed)
       PROVE  IInv'
  BY <1>12, ApplyStep
<1>13. ASSUME NEW soon \in BOOLEAN, Paste(soon)
       PROVE  IInv'
  <2>1. "insert" \in Kinds /\ Edit(active, "insert", soon) /\ stops' = stops
    BY <1>13 DEF Paste, Kinds
  <2>2. PICK kind \in Kinds : kind = "insert"
    BY <2>1
  <2>3. Edit(active, kind, soon)
    BY <2>1, <2>2
  <2> QED BY <1>1, <2>1, <2>3, EditStep
<1>14. CASE Jump
  BY <1>1, <1>14, TabStep DEF Jump
<1> QED BY <1>2, <1>3, <1>4, <1>5, <1>6, <1>7, <1>8, <1>9, <1>10, <1>11, <1>12, <1>13, <1>14
        DEF Next

LEMMA LatelySet ==
  ASSUME lately \in Lately, Next \/ UNCHANGED vars
  PROVE  lately' \in Lately
BY DEF Lately, Next, vars, Type, Paste, MoveCaret, Jump, Undo, Redo, Move, Change, TakeFile,
       Save, Switch, Close, ReloadOpen, Open, ApplyWorkspaceEdit

LEMMA Stutter ==
  ASSUME IInv, UNCHANGED vars
  PROVE  IInv'
<1>1. UNCHANGED <<text, carets, undo, redo, texts, groups, stops, shared>>
  BY DEF vars
<1>2. open \subseteq open' /\ open' \subseteq Docs /\ active' \in open'
  BY DEF vars, IInv, HInv, Framed
<1> QED BY <1>1, <1>2, TabStep

(***************************************************************************)
(* The theorems.                                                           *)
(***************************************************************************)
\* The invariant holds in every state.
THEOREM Invariance == Spec => []IInv
<1>1. IInv /\ [Next]_vars => IInv'
  BY EveryStep, Stutter
<1> QED BY <1>1, FirstState, PTL DEF Spec

LEMMA Typed ==
  ASSUME IInv, lately \in Lately
  PROVE  TypeOK
<1>1. Framed /\ HInv /\ texts \in Texts /\ texts \in Nat
  BY HistoryAssumption DEF IInv, HInv, Framed, Texts
<1>2. \A d \in Docs : /\ text[d] \in Texts /\ carets[d] \in Texts
                      /\ undo[d] \in Seq(Entries) /\ redo[d] \in Seq(Entries)
                      /\ Len(undo[d]) + Len(redo[d]) <= MaxEntries
  BY <1>1 DEF HInv, Fits, Past, Future
<1>3. /\ text \in [Docs -> Texts \cup {Garbled}] /\ carets \in [Docs -> Texts]
      /\ undo \in [Docs -> Seq(Entries)] /\ redo \in [Docs -> Seq(Entries)]
  <2>1. /\ text = [d \in Docs |-> text[d]] /\ carets = [d \in Docs |-> carets[d]]
        /\ undo = [d \in Docs |-> undo[d]] /\ redo = [d \in Docs |-> redo[d]]
    BY <1>1 DEF Framed
  <2> QED BY <1>2, <2>1
<1>4. stops \subseteq Texts
  <2>1. 0 .. texts \subseteq Texts
    BY <1>1, HistoryAssumption DEF Texts
  <2> QED BY <1>1, <2>1 DEF HInv
<1> QED BY <1>1, <1>2, <1>3, <1>4 DEF Framed, TypeOK

\* In every state the next undo and the next redo of every document, and all
\* that come after them, fit the texts they will meet, and the selections
\* belong to the texts they are shown with (History::push,
\* History::apply_entry).
THEOREM EveryStepFits == Spec => []HistoriesFit
<1>1. IInv /\ lately \in Lately => HistoriesFit
  BY Typed DEF IInv, HInv, Framed, Fits, Past, Future, HistoriesFit
<1>2. Init => lately \in Lately
  BY DEF Init, Lately
<1>3. lately \in Lately /\ [Next]_vars => (lately \in Lately)'
  BY LatelySet
<1> QED BY <1>1, <1>2, <1>3, Invariance, PTL DEF Spec

\* No undo and no redo passes a text at which typing was interrupted without
\* stopping (History::break_group, History::record_in_group).
THEOREM InterruptionsStop == Spec => []StopsAreKept
<1>1. IInv => StopsAreKept
  BY DEF IInv, HInv, Framed, Fits, Past, Future, StopsAreKept
<1> QED BY <1>1, Invariance, PTL

(***************************************************************************)
(* The timeline of a document.                                             *)
(***************************************************************************)
Line(t, u, r) ==
     [i \in 1 .. Len(u) |-> Arrives(u[i])] \o <<t>>
  \o [i \in 1 .. Len(r) |-> Arrives(r[Len(r) + 1 - i])]

\* The entries of a history lead to texts.
Arriving(stack) ==
  stack \in Seq(Entries) /\ \A i \in 1 .. Len(stack) : Arrives(stack[i]) \in Texts

\* A line, text by text.
Along(line, t, u, r) ==
  /\ line \in Seq(Texts) /\ Len(line) = Len(u) + 1 + Len(r)
  /\ \A i \in 1 .. Len(u) : line[i] = Arrives(u[i])
  /\ line[Len(u) + 1] = t
  /\ \A i \in Len(u) + 2 .. Len(u) + 1 + Len(r) :
       line[i] = Arrives(r[Len(u) + 2 + Len(r) - i])

LEMMA LineIs ==
  ASSUME NEW t \in Texts, NEW u, Arriving(u), NEW r, Arriving(r)
  PROVE  Along(Line(t, u, r), t, u, r)
<1>1. PICK n, m : n = Len(u) /\ m = Len(r)
  OBVIOUS
<1>2. PICK a, b, c : /\ a = [i \in 1 .. n |-> Arrives(u[i])] /\ b = <<t>>
                     /\ c = [i \in 1 .. m |-> Arrives(r[m + 1 - i])]
  OBVIOUS
<1>3. /\ n \in Nat /\ m \in Nat
      /\ \A i \in 1 .. n : Arrives(u[i]) \in Texts
      /\ \A i \in 1 .. m : Arrives(r[m + 1 - i]) \in Texts
  <2>1. n \in Nat /\ m \in Nat
    BY <1>1 DEF Arriving
  <2>2. \A i \in 1 .. m : m + 1 - i \in 1 .. m
    BY <2>1
  <2> QED BY <1>1, <2>1, <2>2 DEF Arriving
<1>4. /\ a \in Seq(Texts) /\ Len(a) = n /\ \A i \in 1 .. n : a[i] = Arrives(u[i])
      /\ c \in Seq(Texts) /\ Len(c) = m /\ \A i \in 1 .. m : c[i] = Arrives(r[m + 1 - i])
      /\ b \in Seq(Texts) /\ Len(b) = 1 /\ b[1] = t
  BY <1>2, <1>3
<1>5. /\ a \o b \in Seq(Texts) /\ Len(a \o b) = n + 1
      /\ \A i \in 1 .. n : (a \o b)[i] = a[i]
      /\ (a \o b)[n + 1] = t
  <2>1. /\ a \o b \in Seq(Texts) /\ Len(a \o b) = Len(a) + Len(b)
        /\ \A i \in 1 .. Len(a) + Len(b) :
             (a \o b)[i] = IF i <= Len(a) THEN a[i] ELSE b[i - Len(a)]
    BY ONLY <1>4, ConcatProperties, Zenon
  <2>2. /\ \A i \in 1 .. n : i \in 1 .. n + 1 /\ i <= n
        /\ n + 1 \in 1 .. n + 1 /\ ~(n + 1 <= n) /\ (n + 1) - n = 1
    BY <1>3
  <2> QED BY <1>3, <1>4, <2>1, <2>2
<1>6. PICK d : d = a \o b
  OBVIOUS
<1>7. /\ d \o c \in Seq(Texts) /\ Len(d \o c) = n + 1 + m
      /\ \A i \in 1 .. n + 1 : (d \o c)[i] = d[i]
      /\ \A i \in n + 2 .. n + 1 + m : (d \o c)[i] = c[i - (n + 1)]
  <2>1. /\ d \o c \in Seq(Texts) /\ Len(d \o c) = Len(d) + Len(c)
        /\ \A i \in 1 .. Len(d) + Len(c) :
             (d \o c)[i] = IF i <= Len(d) THEN d[i] ELSE c[i - Len(d)]
    <3>1. d \in Seq(Texts) /\ c \in Seq(Texts)
      BY <1>4, <1>5, <1>6
    <3> QED BY ONLY <3>1, ConcatProperties, Zenon
  <2>2. Len(d) = n + 1 /\ Len(c) = m
    BY <1>4, <1>5, <1>6
  <2>3. /\ \A i \in 1 .. n + 1 : i \in 1 .. n + 1 + m /\ i <= n + 1
        /\ \A i \in n + 2 .. n + 1 + m : i \in 1 .. n + 1 + m /\ ~(i <= n + 1)
    BY <1>3
  <2> QED BY <2>1, <2>2, <2>3
<1>8. Line(t, u, r) = d \o c
  BY <1>1, <1>2, <1>6 DEF Line
<1>9. \A i \in 1 .. n : (d \o c)[i] = Arrives(u[i])
  <2>1. \A i \in 1 .. n : i \in 1 .. n + 1
    BY <1>3
  <2> QED BY <1>4, <1>5, <1>6, <1>7, <2>1
<1>10. (d \o c)[n + 1] = t
  <2>1. n + 1 \in 1 .. n + 1
    BY <1>3
  <2> QED BY <1>5, <1>6, <1>7, <2>1
<1>11. ASSUME NEW i \in n + 2 .. n + 1 + m
       PROVE  (d \o c)[i] = Arrives(r[n + 2 + m - i])
  <2>1. i - (n + 1) \in 1 .. m /\ m + 1 - (i - (n + 1)) = n + 2 + m - i
    BY <1>3
  <2>2. (d \o c)[i] = c[i - (n + 1)]
    BY <1>7
  <2>3. c[i - (n + 1)] = Arrives(r[m + 1 - (i - (n + 1))])
    BY <1>4, <2>1
  <2> QED BY <2>1, <2>2, <2>3
<1> QED BY <1>1, <1>3, <1>7, <1>8, <1>9, <1>10, <1>11 DEF Along

\* A step from the top of one stack to the other leaves the line as it is.
LEMMA LineKept ==
  ASSUME NEW t \in Texts, NEW u, Arriving(u), u # <<>>, NEW r, Arriving(r),
         NEW back \in Entries, Arrives(back) = t
  PROVE  Line(Arrives(Top(u)), Pop(u), Append(r, back)) = Line(t, u, r)
<1>1. PICK n, m : n = Len(u) /\ m = Len(r)
  OBVIOUS
<1>2. PICK v, w, s : v = Pop(u) /\ w = Append(r, back) /\ s = Arrives(Top(u))
  OBVIOUS
<1>3. /\ u \in Seq(Entries) /\ r \in Seq(Entries) /\ n \in Nat \ {0} /\ m \in Nat
      /\ \A i \in 1 .. n : Arrives(u[i]) \in Texts
      /\ \A i \in 1 .. m : Arrives(r[i]) \in Texts
  BY <1>1 DEF Arriving
<1>4. /\ v \in Seq(Entries) /\ Len(v) = n - 1 /\ \A i \in 1 .. n - 1 : v[i] = u[i]
  BY <1>1, <1>2, <1>3, PopIs
<1>5. /\ w \in Seq(Entries) /\ Len(w) = m + 1 /\ w[m + 1] = back
      /\ \A i \in 1 .. m : w[i] = r[i]
  BY <1>1, <1>2, <1>3, AppendIs
<1>6. s \in Texts /\ s = Arrives(u[n])
  BY <1>1, <1>2, <1>3 DEF Top
<1>7. Arriving(v)
  <2>1. \A i \in 1 .. n - 1 : i \in 1 .. n
    BY <1>3
  <2> QED BY <1>3, <1>4, <2>1 DEF Arriving
<1>8. Arriving(w)
  <2>1. \A i \in 1 .. m + 1 : i = m + 1 \/ i \in 1 .. m
    BY <1>3
  <2> QED BY <1>3, <1>5, <2>1 DEF Arriving
<1>9. PICK old, new : old = Line(t, u, r) /\ new = Line(s, v, w)
  OBVIOUS
<1>10. /\ old \in Seq(Texts) /\ Len(old) = n + 1 + m
       /\ \A i \in 1 .. n : old[i] = Arrives(u[i])
       /\ old[n + 1] = t
       /\ \A i \in n + 2 .. n + 1 + m : old[i] = Arrives(r[n + 2 + m - i])
  <2>1. /\ old \in Seq(Texts) /\ Len(old) = Len(u) + 1 + Len(r)
        /\ \A i \in 1 .. Len(u) : old[i] = Arrives(u[i])
        /\ old[Len(u) + 1] = t
        /\ \A i \in Len(u) + 2 .. Len(u) + 1 + Len(r) :
             old[i] = Arrives(r[Len(u) + 2 + Len(r) - i])
    <3>1. Along(old, t, u, r)
      BY <1>9, LineIs
    <3> QED BY <3>1 DEF Along
  <2> QED BY <1>1, <2>1
<1>11. /\ new \in Seq(Texts) /\ Len(new) = (n - 1) + 1 + (m + 1)
       /\ \A i \in 1 .. n - 1 : new[i] = Arrives(v[i])
       /\ new[(n - 1) + 1] = s
       /\ \A i \in (n - 1) + 2 .. (n - 1) + 1 + (m + 1) :
            new[i] = Arrives(w[(n - 1) + 2 + (m + 1) - i])
  <2>1. /\ new \in Seq(Texts) /\ Len(new) = Len(v) + 1 + Len(w)
        /\ \A i \in 1 .. Len(v) : new[i] = Arrives(v[i])
        /\ new[Len(v) + 1] = s
        /\ \A i \in Len(v) + 2 .. Len(v) + 1 + Len(w) :
             new[i] = Arrives(w[Len(v) + 2 + Len(w) - i])
    <3>1. Along(new, s, v, w)
      BY <1>6, <1>7, <1>8, <1>9, LineIs
    <3> QED BY <3>1 DEF Along
  <2> QED BY <1>4, <1>5, <2>1
<1>12. ASSUME NEW i \in 1 .. n + 1 + m
       PROVE  old[i] = new[i]
  <2>1. CASE i \in 1 .. n - 1
    <3>1. i \in 1 .. n
      BY <1>3, <2>1
    <3> QED BY <1>4, <1>10, <1>11, <2>1, <3>1
  <2>2. CASE i = n
    <3>1. i \in 1 .. n /\ (n - 1) + 1 = i
      BY <1>3, <2>2
    <3> QED BY <1>6, <1>10, <1>11, <2>2, <3>1
  <2>3. CASE i = n + 1
    <3>1. /\ i \in (n - 1) + 2 .. (n - 1) + 1 + (m + 1)
          /\ (n - 1) + 2 + (m + 1) - i = m + 1
      BY <1>3, <2>3
    <3>2. new[i] = Arrives(back)
      BY <1>5, <1>11, <3>1
    <3> QED BY <1>10, <2>3, <3>2
  <2>4. CASE i \in n + 2 .. n + 1 + m
    <3>1. /\ i \in (n - 1) + 2 .. (n - 1) + 1 + (m + 1)
          /\ (n - 1) + 2 + (m + 1) - i = n + 2 + m - i /\ n + 2 + m - i \in 1 .. m
      BY <1>3, <2>4
    <3>2. new[i] = Arrives(w[n + 2 + m - i])
      BY <1>11, <3>1
    <3> QED BY <1>5, <1>10, <2>4, <3>1, <3>2
  <2> QED BY <1>3, <2>1, <2>2, <2>3, <2>4
<1>13. old = new
  <2>1. Len(old) = Len(new) /\ \A i \in 1 .. Len(old) : old[i] = new[i]
    BY <1>3, <1>10, <1>11, <1>12
  <2> QED BY ONLY <1>10, <1>11, <2>1, SeqEqual
<1> QED BY <1>2, <1>9, <1>13

\* Only undo and redo walk along a timeline.
LEMMA OnlyMoves ==
  ASSUME IInv, Next \/ UNCHANGED vars, NEW d \in Docs,
         Len(redo'[d]) # Len(redo[d]), ~Undo, ~Redo
  PROVE  ~WentBack(d) /\ ~WentForth(d)
<1>1. /\ active \in Docs /\ open \subseteq Docs /\ texts \in Nat
      /\ Len(undo[d]) \in Nat /\ Len(redo[d]) \in Nat
      /\ undo = [e \in Docs |-> undo[e]] /\ redo = [e \in Docs |-> redo[e]]
  BY HistoryAssumption DEF IInv, HInv, Framed, Texts, Fits, Past, Future
<1>2. Len(<<>>) = 0
  OBVIOUS
<1>3. ASSUME NEW e \in Docs, NEW kind, NEW soon, Edit(e, kind, soon)
      PROVE  ~WentBack(d) /\ ~WentForth(d)
  <2>1. texts' # texts /\ redo' = [redo EXCEPT ![e] = <<>>]
    BY <1>1, <1>3 DEF Edit
  <2>2. redo'[d] = <<>> \/ redo'[d] = redo[d]
    BY <1>1, <2>1
  <2> QED BY <1>1, <1>2, <2>1, <2>2 DEF WentBack, WentForth
<1>4. ASSUME NEW e \in Docs, undo' = [undo EXCEPT ![e] = <<>>], redo' = [redo EXCEPT ![e] = <<>>]
      PROVE  ~WentBack(d) /\ ~WentForth(d)
  <2>1. /\ redo'[d] = <<>> \/ redo'[d] = redo[d]
        /\ undo'[d] = <<>> \/ undo'[d] = undo[d]
    BY <1>1, <1>4
  <2> QED BY <1>1, <1>2, <2>1 DEF WentBack, WentForth
<1>5. ASSUME NEW plan \in SUBSET Docs, NEW changed \in SUBSET plan,
             ApplyWorkspaceEdit(plan, changed)
      PROVE  ~WentBack(d) /\ ~WentForth(d)
  <2>1. /\ redo' = [e \in Docs |-> IF e \in changed THEN <<>> ELSE redo[e]]
        /\ texts' = texts + Cardinality(changed)
    BY <1>5 DEF ApplyWorkspaceEdit
  <2>2. d \in changed /\ redo'[d] = <<>>
    BY <2>1
  <2>3. Cardinality(changed) \in Nat /\ Cardinality(changed) # 0
    <3>1. IsFiniteSet(changed)
      BY HistoryAssumption, FS_Subset
    <3> QED BY <2>2, <3>1, FS_CardinalityType, FS_EmptySet
  <2>4. texts' # texts
    BY <1>1, <2>1, <2>3
  <2> QED BY <1>1, <1>2, <2>2, <2>4 DEF WentBack, WentForth
<1>6. UNCHANGED vars => redo' = redo
  BY DEF vars
<1>7. ASSUME NEW kind \in Kinds, NEW soon \in BOOLEAN, Type(kind, soon)
      PROVE  ~WentBack(d) /\ ~WentForth(d)
  BY <1>1, <1>3, <1>7 DEF Type
<1>8. ~MoveCaret
  BY DEF MoveCaret
<1>9. ASSUME NEW e \in open, Change(e) \/ TakeFile(e) \/ Save(e) \/ Switch(e) \/ Close(e) \/ ReloadOpen(e)
      PROVE  ~WentBack(d) /\ ~WentForth(d)
  <2>1. CASE Change(e)
    BY <1>1, <1>3, <2>1 DEF Change
  <2>2. CASE TakeFile(e)
    BY <1>1, <1>3, <2>2 DEF TakeFile
  <2>3. ~Save(e) /\ ~Switch(e)
    BY DEF Save, Switch
  <2>4. CASE Close(e)
    BY <1>1, <1>4, <2>4 DEF Close
  <2>5. CASE ReloadOpen(e)
    BY <1>1, <1>4, <2>5 DEF ReloadOpen
  <2> QED BY <1>9, <2>1, <2>2, <2>3, <2>4, <2>5
<1>10. ASSUME NEW e \in Docs
       PROVE  ~Open(e)
  BY DEF Open
<1>11. ~Jump
  BY DEF Jump
<1>12. ASSUME NEW soon \in BOOLEAN, Paste(soon)
       PROVE  ~WentBack(d) /\ ~WentForth(d)
  BY <1>1, <1>3, <1>12 DEF Paste
<1> QED BY <1>5, <1>6, <1>7, <1>8, <1>9, <1>10, <1>11, <1>12 DEF Next

\* A document that went back did so with the document on screen; so did one
\* that went forth.
LEMMA BackIsUndo ==
  ASSUME IInv, Next \/ UNCHANGED vars, NEW d \in Docs, WentBack(d)
  PROVE  Undo /\ d \in Partners(undo)
<1>1. Len(undo[d]) \in Nat /\ Len(redo[d]) \in Nat /\ Len(redo'[d]) > Len(redo[d])
      /\ Len(undo'[d]) < Len(undo[d])
  BY DEF IInv, HInv, Fits, Past, Future, WentBack
<1>2. Undo \/ Redo
  <2>1. Len(redo'[d]) # Len(redo[d])
    BY <1>1
  <2> QED BY <2>1, OnlyMoves
<1>3. ~Redo
  <2> SUFFICES ASSUME Redo PROVE FALSE
    OBVIOUS
  <2>1. CASE d \in Partners(redo)
    <3>1. Len(redo'[d]) = Len(redo[d]) - 1
      BY <2>1, RedoMoves
    <3> QED BY <1>1, <3>1
  <2>2. CASE d \notin Partners(redo)
    <3>1. redo'[d] = redo[d]
      BY <2>2, RedoMoves
    <3> QED BY <1>1, <3>1
  <2> QED BY <2>1, <2>2
<1>4. Undo
  BY <1>2, <1>3
<1>5. d \in Partners(undo)
  <2> SUFFICES ASSUME d \notin Partners(undo) PROVE FALSE
    OBVIOUS
  <2>1. redo'[d] = redo[d]
    BY <1>4, UndoMoves
  <2> QED BY <1>1, <2>1
<1> QED BY <1>4, <1>5

LEMMA ForthIsRedo ==
  ASSUME IInv, Next \/ UNCHANGED vars, NEW d \in Docs, WentForth(d)
  PROVE  Redo /\ d \in Partners(redo)
<1>1. Len(undo[d]) \in Nat /\ Len(redo[d]) \in Nat /\ Len(redo'[d]) < Len(redo[d])
      /\ Len(undo'[d]) > Len(undo[d])
  BY DEF IInv, HInv, Fits, Past, Future, WentForth
<1>2. Undo \/ Redo
  <2>1. Len(redo'[d]) # Len(redo[d])
    BY <1>1
  <2> QED BY <2>1, OnlyMoves
<1>3. ~Undo
  <2> SUFFICES ASSUME Undo PROVE FALSE
    OBVIOUS
  <2>1. CASE d \in Partners(undo)
    <3>1. Len(undo'[d]) = Len(undo[d]) - 1
      BY <2>1, UndoMoves
    <3> QED BY <1>1, <3>1
  <2>2. CASE d \notin Partners(undo)
    <3>1. undo'[d] = undo[d]
      BY <2>2, UndoMoves
    <3> QED BY <1>1, <3>1
  <2> QED BY <2>1, <2>2
<1>4. Redo
  BY <1>2, <1>3
<1>5. d \in Partners(redo)
  <2> SUFFICES ASSUME d \notin Partners(redo) PROVE FALSE
    OBVIOUS
  <2>1. redo'[d] = redo[d]
    BY <1>4, RedoMoves
  <2> QED BY <1>1, <2>1
<1> QED BY <1>4, <1>5

LEMMA TimelineIs ==
  ASSUME IInv, NEW d \in Docs
  PROVE  /\ Timeline(d) = Line(text[d], undo[d], redo[d])
         /\ text[d] \in Texts /\ Arriving(undo[d]) /\ Arriving(redo[d])
<1>1. Timeline(d) = Line(text[d], undo[d], redo[d])
  BY DEF Timeline, Line
<1>2. /\ text[d] \in Texts /\ undo[d] \in Seq(Entries) /\ redo[d] \in Seq(Entries)
      /\ \A i \in 1 .. Len(undo[d]) : Whole(undo[d][i]) /\ undo[d][i] \in Entries
      /\ \A i \in 1 .. Len(redo[d]) : Whole(redo[d][i]) /\ redo[d][i] \in Entries
  <2>1. text[d] \in Texts /\ Past(text[d], undo[d], stops) /\ Future(text[d], redo[d], stops, texts)
    BY DEF IInv, HInv, Fits
  <2>2. /\ undo[d] \in Seq(Entries) /\ Leads(undo[d], text[d])
        /\ redo[d] \in Seq(Entries) /\ Leads(redo[d], text[d])
    BY <2>1 DEF Past, Future
  <2> QED BY <2>1, <2>2 DEF Leads
<1>3. Arriving(undo[d]) /\ Arriving(redo[d])
  BY <1>2, StepsAre DEF Arriving
<1> QED BY <1>1, <1>2, <1>3

LEMMA BackKeeps ==
  ASSUME IInv, Next \/ UNCHANGED vars, NEW d \in Docs, WentBack(d)
  PROVE  Timeline(d)' = Timeline(d)
<1>1. Undo /\ d \in Partners(undo)
  BY BackIsUndo
<1>2. PICK t, u, r, back : /\ t = text[d] /\ u = undo[d] /\ r = redo[d]
                           /\ back = Opposite(text[d], Top(undo[d]))
  OBVIOUS
<1>3. /\ u # <<>> /\ Arrives(back) = t /\ back \in Entries
      /\ text'[d] = Arrives(Top(u)) /\ undo'[d] = Pop(u) /\ redo'[d] = Append(r, back)
  BY <1>1, <1>2, UndoMoves
<1>4. Timeline(d) = Line(t, u, r) /\ t \in Texts /\ Arriving(u) /\ Arriving(r)
  BY <1>2, TimelineIs
<1>5. Timeline(d)' = Line(text'[d], undo'[d], redo'[d])
  BY DEF Timeline, Line
<1>6. Line(Arrives(Top(u)), Pop(u), Append(r, back)) = Line(t, u, r)
  BY <1>3, <1>4, LineKept
<1> QED BY <1>3, <1>4, <1>5, <1>6

LEMMA ForthKeeps ==
  ASSUME IInv, Next \/ UNCHANGED vars, NEW d \in Docs, WentForth(d)
  PROVE  Timeline(d)' = Timeline(d)
<1>1. Redo /\ d \in Partners(redo) /\ IInv'
  BY ForthIsRedo, RedoStep
<1>2. PICK t, u, r, back : /\ t = text[d] /\ u = undo[d] /\ r = redo[d]
                           /\ back = Opposite(text[d], Top(redo[d]))
  OBVIOUS
<1>3. /\ r # <<>> /\ Arrives(back) = t /\ back \in Entries
      /\ text'[d] = Arrives(Top(r)) /\ redo'[d] = Pop(r) /\ undo'[d] = Append(u, back)
  BY <1>1, <1>2, RedoMoves
<1>4. Timeline(d) = Line(t, u, r) /\ t \in Texts /\ Arriving(u) /\ Arriving(r)
  BY <1>2, TimelineIs
<1>5. PICK s, v, w, top : /\ s = Arrives(Top(r)) /\ v = Append(u, back) /\ w = Pop(r)
                          /\ top = Top(r)
  OBVIOUS
<1>6. Timeline(d)' = Line(s, v, w)
  BY <1>3, <1>5 DEF Timeline, Line
<1>7. u \in Seq(Entries) /\ r \in Seq(Entries)
  BY <1>4 DEF Arriving
<1>8. /\ v \in Seq(Entries) /\ v # <<>> /\ Len(v) = Len(u) + 1 /\ Len(u) \in Nat
      /\ \A i \in 1 .. Len(u) : v[i] = u[i]
      /\ v[Len(u) + 1] = back /\ Top(v) = back
  BY <1>3, <1>5, <1>7, AppendIs
<1>9. /\ Len(r) \in Nat \ {0} /\ top \in Entries /\ w \in Seq(Entries)
      /\ Len(w) = Len(r) - 1 /\ \A i \in 1 .. Len(r) - 1 : w[i] = r[i]
      /\ r[Len(r)] = top
  BY <1>3, <1>5, <1>7, PopIs DEF Top
<1>10. s \in Texts /\ s = Arrives(top) /\ Arriving(v) /\ Arriving(w)
  <2>1. Len(r) \in 1 .. Len(r) /\ \A i \in 1 .. Len(r) - 1 : i \in 1 .. Len(r)
    BY <1>9
  <2>2. \A i \in 1 .. Len(u) + 1 : i = Len(u) + 1 \/ i \in 1 .. Len(u)
    BY <1>8
  <2> QED BY <1>3, <1>4, <1>5, <1>8, <1>9, <2>1, <2>2 DEF Arriving
<1>11. Pop(v) = u
  <2>1. /\ Pop(v) \in Seq(Entries) /\ Len(Pop(v)) = Len(v) - 1
        /\ \A i \in 1 .. Len(v) - 1 : Pop(v)[i] = v[i]
    BY <1>8, PopIs
  <2>2. Len(Pop(v)) = Len(u) /\ \A i \in 1 .. Len(Pop(v)) : Pop(v)[i] = u[i]
    BY <1>8, <2>1
  <2> QED BY ONLY <1>7, <2>1, <2>2, SeqEqual
<1>12. Append(w, top) = r
  <2>1. /\ Append(w, top) \in Seq(Entries) /\ Len(Append(w, top)) = Len(w) + 1
        /\ \A i \in 1 .. Len(w) : Append(w, top)[i] = w[i]
        /\ Append(w, top)[Len(w) + 1] = top
    BY <1>9, AppendIs
  <2>2. \A i \in 1 .. Len(r) : i = Len(r) \/ i \in 1 .. Len(r) - 1
    BY <1>9
  <2>3. /\ Len(Append(w, top)) = Len(r)
        /\ \A i \in 1 .. Len(Append(w, top)) : Append(w, top)[i] = r[i]
    BY <1>9, <2>1, <2>2
  <2> QED BY ONLY <1>7, <2>1, <2>3, SeqEqual
<1>13. Line(Arrives(Top(v)), Pop(v), Append(w, top)) = Line(s, v, w)
  BY <1>8, <1>9, <1>10, LineKept
<1> QED BY <1>3, <1>4, <1>6, <1>8, <1>11, <1>12, <1>13

\* Undo and redo only walk along the texts a document has had: nothing on
\* either side is lost or changed, on screen and in the documents that move
\* with it (Session::undo_group).
THEOREM NothingIsLost == Spec => TimelineKept
<1>1. IInv /\ [Next]_vars => \A d \in Docs : WentBack(d) \/ WentForth(d) => Timeline(d)' = Timeline(d)
  BY BackKeeps, ForthKeeps
<1>2. IInv /\ [Next]_vars =>
        [\A d \in Docs : WentBack(d) \/ WentForth(d) => Timeline(d)' = Timeline(d)]_vars
  BY <1>1
<1> QED BY <1>2, Invariance, PTL DEF Spec, TimelineKept

LEMMA JointMoves ==
  ASSUME IInv, Next \/ UNCHANGED vars, NEW d \in open, NEW e \in shared[d].with
  PROVE  /\ shared[d].done /\ WentBack(d) => WentBack(e)
         /\ ~shared[d].done /\ WentForth(d) => WentForth(e)
<1>1. /\ d \in Docs /\ e \in open
      /\ shared[d].done => GroupOf(undo[d]) # 0 /\ GroupOf(undo[e]) = GroupOf(undo[d])
      /\ ~shared[d].done => GroupOf(redo[d]) # 0 /\ GroupOf(redo[e]) = GroupOf(redo[d])
  BY DEF IInv, HInv, Framed, Joint
<1>2. \A f \in Docs : Len(undo[f]) \in Nat /\ Len(redo[f]) \in Nat
  BY DEF IInv, HInv, Fits, Past, Future
<1>3. e \in Docs
  BY <1>1 DEF IInv, HInv, Framed
<1>4. ASSUME shared[d].done, WentBack(d)
      PROVE  WentBack(e)
  <2>1. Undo /\ d \in Partners(undo)
    BY <1>1, <1>4, BackIsUndo
  <2>2. undo[active] # <<>>
    BY <2>1 DEF Undo
  <2>3. GroupOf(undo[d]) = GroupOf(undo[active])
    BY <2>1, <2>2, PartnersAre
  <2>4. e \in Partners(undo)
    BY <1>1, <1>4, <2>3 DEF Partners
  <2>5. Len(undo'[e]) = Len(undo[e]) - 1 /\ Len(redo'[e]) = Len(redo[e]) + 1
    BY <2>1, <2>4, UndoMoves
  <2> QED BY <1>2, <1>3, <2>5 DEF WentBack
<1>5. ASSUME ~shared[d].done, WentForth(d)
      PROVE  WentForth(e)
  <2>1. Redo /\ d \in Partners(redo)
    BY <1>1, <1>5, ForthIsRedo
  <2>2. redo[active] # <<>> /\ texts' = texts
    BY <2>1 DEF Redo, Move
  <2>3. GroupOf(redo[d]) = GroupOf(redo[active])
    BY <2>1, <2>2, PartnersAre
  <2>4. e \in Partners(redo)
    BY <1>1, <1>5, <2>3 DEF Partners
  <2>5. Len(redo'[e]) = Len(redo[e]) - 1 /\ Len(undo'[e]) = Len(undo[e]) + 1
    BY <2>1, <2>4, RedoMoves
  <2> QED BY <1>2, <1>3, <2>2, <2>5 DEF WentForth
<1> QED BY <1>4, <1>5

\* Documents that made a move together, and have not moved apart since, take
\* it back together, from whichever of them it is undone or redone ("one
\* ctrl+z undoes the whole rename from any of the affected files").
THEOREM RenamesMoveAsOne == Spec => SharedMovesTogether
<1>1. IInv /\ [Next]_vars =>
        \A d \in open : \A e \in shared[d].with :
          /\ shared[d].done /\ WentBack(d) => WentBack(e)
          /\ ~shared[d].done /\ WentForth(d) => WentForth(e)
  BY JointMoves
<1>2. IInv /\ [Next]_vars =>
        [\A d \in open : \A e \in shared[d].with :
           /\ shared[d].done /\ WentBack(d) => WentBack(e)
           /\ ~shared[d].done /\ WentForth(d) => WentForth(e)]_vars
  BY <1>1
<1> QED BY <1>2, Invariance, PTL DEF Spec, SharedMovesTogether
=============================================================================
