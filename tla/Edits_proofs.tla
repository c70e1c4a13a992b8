---------------------------- MODULE Edits_proofs ----------------------------
(***************************************************************************)
(* Theorems about the editing commands: whatever is typed, deleted, moved, *)
(* commented or asked for by a server, cursors stay apart, the journal is  *)
(* the text on screen, an inverse takes its edit back, and what is typed   *)
(* stands before every caret.                                              *)
(*                                                                         *)
(* In this order: the sorting of ranges; changes one after another; a      *)
(* transaction and its inverse; the journal; the lines of a text; the      *)
(* normalization of cursors; then the invariant, command by command.       *)
(***************************************************************************)
EXTENDS Edits, SequenceTheorems, FunctionTheorems, FiniteSetTheorems,
        WellFoundedInduction, TLAPS

(***************************************************************************)
(* Induction, and functions that are computed step by step.                *)
(***************************************************************************)
\* A set of numbers that is not empty has a least one.
LEMMA LeastOf ==
  ASSUME NEW S, S \subseteq Nat, S # {}
  PROVE  \E n \in S : \A m \in S : n <= m
<1>1. PICK n \in S : \A m \in S : <<m, n>> \notin OpToRel(<, Nat)
  BY NatLessThanWellFounded, WFMin
<1>2. \A m \in S : ~(m < n)
  BY <1>1 DEF OpToRel
<1> QED
  BY <1>2

\* Induction, for a set of numbers.
LEMMA NatSteps ==
  ASSUME NEW S, 0 \in S, \A n \in Nat : n \in S => n + 1 \in S
  PROVE  \A n \in Nat : n \in S
<1> SUFFICES ASSUME NEW n \in Nat, n \notin S PROVE FALSE
  OBVIOUS
<1>1. PICK m \in Nat \ S : \A k \in Nat \ S : m <= k
  BY LeastOf
<1>2. m # 0 /\ m - 1 \in Nat /\ m - 1 \in S
  BY <1>1
<1>3. m - 1 + 1 = m
  OBVIOUS
<1> QED
  BY <1>1, <1>2, <1>3

\* `f' is computed step by step from a to f[n].
Steps(f, a, n, G) == f[0] = a /\ \A i \in 1 .. n : f[i] = G[<<f[i - 1], i>>]

\* What is computed step by step from one value to the next can be.
LEMMA Trail ==
  ASSUME NEW S, NEW a \in S, NEW n \in Nat, NEW G \in [S \X (1 .. n) -> S]
  PROVE  \E f \in [0 .. n -> S] : Steps(f, a, n, G)
<1> DEFINE Upto(k) == \E f \in [0 .. k -> S] : Steps(f, a, k, G)
           T == {k \in Nat : k <= n => Upto(k)}
<1>1. 0 \in T
  <2> DEFINE f == [i \in 0 .. 0 |-> a]
  <2>1. f \in [0 .. 0 -> S] /\ f[0] = a
    OBVIOUS
  <2> HIDE DEF f
  <2>2. Upto(0)
    BY <2>1 DEF Steps
  <2> QED
    BY <2>2
<1>2. ASSUME NEW k \in Nat, k \in T PROVE k + 1 \in T
  <2> SUFFICES ASSUME k + 1 <= n PROVE Upto(k + 1)
    OBVIOUS
  <2>1. PICK f \in [0 .. k -> S] : /\ f[0] = a
                                   /\ \A i \in 1 .. k : f[i] = G[<<f[i - 1], i>>]
    BY <1>2 DEF Steps
  <2>2. G[<<f[k], k + 1>>] \in S
    OBVIOUS
  <2> DEFINE g == [i \in 0 .. k + 1 |-> IF i = k + 1 THEN G[<<f[k], k + 1>>] ELSE f[i]]
  <2>3. g \in [0 .. k + 1 -> S]
    BY <2>2
  <2>4. g[0] = a /\ g[k + 1] = G[<<f[k], k + 1>>] /\ \A i \in 0 .. k : g[i] = f[i]
    BY <2>1
  <2>5. \A i \in 1 .. k + 1 : g[i] = G[<<g[i - 1], i>>]
    <3> SUFFICES ASSUME NEW i \in 1 .. k + 1 PROVE g[i] = G[<<g[i - 1], i>>]
      OBVIOUS
    <3> HIDE DEF g
    <3>1. CASE i = k + 1
      BY <2>4, <3>1
    <3>2. CASE i # k + 1
      BY <2>1, <2>4, <3>2
    <3> QED
      BY <3>1, <3>2
  <2> HIDE DEF g
  <2> QED
    BY <2>3, <2>4, <2>5 DEF Steps
<1> HIDE DEF T
<1>3. n \in T
  BY <1>1, <1>2, NatSteps
<1>4. Upto(n)
  BY <1>3 DEF T
<1> QED
  BY <1>4

\* `f' and `g' begin alike and go on alike.
StepAlike(f, g, n) ==
  f[0] = g[0] /\ \A i \in 1 .. n : f[i - 1] = g[i - 1] => f[i] = g[i]

\* And in one way only.
LEMMA SameTrail ==
  ASSUME NEW f, NEW g, NEW n \in Nat, StepAlike(f, g, n)
  PROVE  \A i \in 0 .. n : f[i] = g[i]
<1> DEFINE T == {k \in Nat : k <= n => f[k] = g[k]}
<1>1. 0 \in T
  BY DEF StepAlike
<1>2. ASSUME NEW k \in Nat, k \in T PROVE k + 1 \in T
  <2> SUFFICES ASSUME k + 1 <= n PROVE f[k + 1] = g[k + 1]
    OBVIOUS
  <2>1. k + 1 \in 1 .. n /\ (k + 1) - 1 = k /\ f[k] = g[k]
    BY <1>2
  <2> QED
    BY <2>1 DEF StepAlike
<1> HIDE DEF T
<1>3. \A k \in Nat : k \in T
  BY <1>1, <1>2, NatSteps
<1> QED
  BY <1>3 DEF T

(***************************************************************************)
(* Sorting ranges                                                          *)
(***************************************************************************)
\* Ranges, whatever else is in them.
Ranges(R) == \A r \in R : r.start \in Nat /\ r.end \in Nat

\* No range precedes one before it.
Ascends(s) == \A i, j \in DOMAIN s : i < j => ~Precedes(s[j], s[i])

\* Those that `r' does not precede.
Before(s, r) == {j \in DOMAIN s : ~Precedes(r, s[j])}

\* `r' is put behind the first m.
PutBehind(p, o, k, m, r) ==
  /\ \A i \in 1 .. m : p[i] = o[i]
  /\ p[m + 1] = r
  /\ \A i \in m + 2 .. k + 1 : p[i] = o[i - 1]

\* A sequence that is another up to `m', then `r', then the rest of the
\* other.
LEMMA BehindWhich ==
  ASSUME NEW k \in Nat, NEW m \in 0 .. k, NEW p, NEW o, NEW r,
         \A i \in 1 .. k + 1 : p[i] = IF i <= m THEN o[i] ELSE IF i = m + 1 THEN r ELSE o[i - 1]
  PROVE  PutBehind(p, o, k, m, r)
BY DEF PutBehind

\* `p' is `s' with `r' behind the `m' ranges that precede it or tie with it.
InsertsAt(p, s, r, m) ==
  /\ m \in 0 .. Len(s) /\ m = Cardinality(Before(s, r))
  /\ Len(p) = Len(s) + 1
  /\ PutBehind(p, s, Len(s), m, r)

\* What insertion into a sorted sequence returns.
LEMMA InsertedIs ==
  ASSUME NEW R, NEW s \in Seq(R), NEW r \in R
  PROVE  /\ Inserted(s, r) \in Seq(R)
         /\ \E m : InsertsAt(Inserted(s, r), s, r, m)
<1> DEFINE K == Before(s, r)
           k == Cardinality(K)
<1>1. IsFiniteSet(K) /\ k \in 0 .. Len(s)
  <2>1. IsFiniteSet(1 .. Len(s)) /\ Cardinality(1 .. Len(s)) = Len(s)
    BY Len(s) \in Nat, FS_Interval, SMTT(30)
  <2>2. K \in SUBSET (1 .. Len(s))
    BY DEF Before
  <2> HIDE DEF K
  <2>3. IsFiniteSet(K) /\ Cardinality(K) <= Len(s)
    BY <2>1, <2>2, FS_Subset
  <2>4. Cardinality(K) \in Nat
    BY <2>3, FS_CardinalityType
  <2> QED
    BY <2>3, <2>4
<1>2. Inserted(s, r) = SubSeq(s, 1, k) \o <<r>> \o SubSeq(s, k + 1, Len(s))
  BY DEF Inserted, Before
<1> HIDE DEF k, K
<1> DEFINE a == SubSeq(s, 1, k)
           b == SubSeq(s, k + 1, Len(s))
<1>3. a \in Seq(R) /\ Len(a) = k /\ \A i \in 1 .. k : a[i] = s[i]
  BY <1>1
<1>4. b \in Seq(R) /\ Len(b) = Len(s) - k /\ \A i \in 1 .. Len(s) - k : b[i] = s[k + i]
  BY <1>1
<1> HIDE DEF a, b
<1>5. Inserted(s, r) = (a \o <<r>>) \o b
  BY <1>2 DEF a, b
<1>6. /\ a \o <<r>> \in Seq(R) /\ Len(a \o <<r>>) = k + 1
      /\ \A i \in 1 .. k + 1 : (a \o <<r>>)[i] = IF i <= k THEN s[i] ELSE r
  BY <1>1, <1>3
<1>7. /\ Inserted(s, r) \in Seq(R) /\ Len(Inserted(s, r)) = Len(s) + 1
      /\ \A i \in 1 .. Len(s) + 1 :
           Inserted(s, r)[i] = IF i <= k + 1 THEN (a \o <<r>>)[i] ELSE b[i - (k + 1)]
  BY <1>1, <1>4, <1>5, <1>6
<1>8. \A i \in 1 .. Len(s) + 1 :
        Inserted(s, r)[i] = IF i <= k THEN s[i] ELSE IF i = k + 1 THEN r ELSE s[i - 1]
  <2> SUFFICES ASSUME NEW i \in 1 .. Len(s) + 1
               PROVE  Inserted(s, r)[i] = IF i <= k THEN s[i] ELSE IF i = k + 1 THEN r ELSE s[i - 1]
    OBVIOUS
  <2>1. CASE i <= k + 1
    BY <1>1, <1>6, <1>7, <2>1
  <2>2. CASE i > k + 1
    <3>1. i - (k + 1) \in 1 .. Len(s) - k /\ k + (i - (k + 1)) = i - 1
      BY <1>1, <2>2
    <3>2. b[i - (k + 1)] = s[i - 1]
      BY <1>4, <3>1
    <3> QED
      BY <1>1, <1>7, <2>2, <3>2
  <2> QED
    BY <1>1, <2>1, <2>2
<1>9. PutBehind(Inserted(s, r), s, Len(s), k, r)
  BY <1>1, <1>8, BehindWhich, Len(s) \in Nat
<1> QED
  BY <1>1, <1>7, <1>9 DEF k, K, InsertsAt

\* Sorting as a sequence of insertions.
LEMMA SortedSteps ==
  ASSUME NEW R, Ranges(R), NEW s \in Seq(R)
  PROVE  \E f \in [0 .. Len(s) -> Seq(R)] :
           /\ f[0] = <<>>
           /\ \A i \in 1 .. Len(s) : f[i] = Inserted(f[i - 1], s[i])
           /\ Sorted(s) = f[Len(s)]
<1> DEFINE n == Len(s)
           F(g) == [i \in 0 .. n |-> IF i = 0 THEN <<>> ELSE Inserted(g[i - 1], s[i])]
           sorted == CHOOSE g : g = F(g)
           G == [p \in Seq(R) \X (1 .. n) |-> Inserted(p[1], s[p[2]])]
<1>0. Sorted(s) = sorted[n]
  BY DEF Sorted
<1>1. G \in [Seq(R) \X (1 .. n) -> Seq(R)]
  <2>1. ASSUME NEW q \in Seq(R), NEW i \in 1 .. n PROVE Inserted(q, s[i]) \in Seq(R)
    <3>1. s[i] \in R
      OBVIOUS
    <3> QED
      BY <3>1, InsertedIs
  <2> QED
    BY <2>1
<1>2. PICK f \in [0 .. n -> Seq(R)] : /\ f[0] = <<>>
                                       /\ \A i \in 1 .. n : f[i] = G[<<f[i - 1], i>>]
  <2> HIDE DEF G
  <2>1. n \in Nat
    OBVIOUS
  <2> DEFINE none == <<>>
  <2>2. none \in Seq(R)
    OBVIOUS
  <2> HIDE DEF n, none
  <2>3. \E f \in [0 .. n -> Seq(R)] : Steps(f, none, n, G)
    BY <1>1, <2>1, <2>2, Trail
  <2> QED
    BY <2>3 DEF none, Steps
<1>3. \A i \in 1 .. n : f[i] = Inserted(f[i - 1], s[i])
  <2> SUFFICES ASSUME NEW i \in 1 .. n PROVE f[i] = Inserted(f[i - 1], s[i])
    OBVIOUS
  <2>1. f[i - 1] \in Seq(R) /\ i \in 1 .. n
    OBVIOUS
  <2>2. G[<<f[i - 1], i>>] = Inserted(f[i - 1], s[i])
    BY <2>1
  <2> QED
    BY <1>2, <2>2
<1>4. f = F(f)
  BY <1>2, <1>3
<1>5. sorted = F(sorted)
  <2> HIDE DEF F
  <2> QED
    BY <1>4
<1> HIDE DEF sorted
<1>6. sorted[0] = <<>> /\ \A i \in 1 .. n : sorted[i] = Inserted(sorted[i - 1], s[i])
  <2>1. \A i \in 0 .. n : F(sorted)[i] = IF i = 0 THEN <<>> ELSE Inserted(sorted[i - 1], s[i])
    OBVIOUS
  <2> HIDE DEF F
  <2>2. \A i \in 0 .. n : sorted[i] = IF i = 0 THEN <<>> ELSE Inserted(sorted[i - 1], s[i])
    BY <1>5, <2>1
  <2> QED
    BY <2>2
<1>7. \A i \in 0 .. n : sorted[i] = f[i]
  <2> HIDE DEF G, F
  <2>1. n \in Nat
    OBVIOUS
  <2> HIDE DEF n
  <2>2. \A i \in 1 .. n : sorted[i - 1] = f[i - 1] => sorted[i] = f[i]
    BY <1>3, <1>6
  <2>3. sorted[0] = f[0]
    BY <1>2, <1>6
  <2>4. StepAlike(sorted, f, n)
    BY <2>2, <2>3 DEF StepAlike
  <2> QED
    BY <2>1, <2>4, SameTrail
<1> QED
  BY <1>0, <1>2, <1>3, <1>7

\* The order of ranges is asymmetric, and its complement transitive.
LEMMA PrecedesOrder ==
  ASSUME NEW R, Ranges(R), NEW a \in R, NEW b \in R, NEW c \in R
  PROVE  /\ Precedes(a, b) => ~Precedes(b, a)
         /\ ~Precedes(b, a) /\ ~Precedes(c, b) => ~Precedes(c, a)
BY DEF Ranges, Precedes

\* The numbers of a set that holds, with each, all smaller ones.
LEMMA InitialPart ==
  ASSUME NEW n \in Nat, NEW K, K \subseteq 1 .. n,
         \A i, j \in 1 .. n : i < j /\ j \in K => i \in K
  PROVE  /\ Cardinality(K) \in 0 .. n
         /\ K = 1 .. Cardinality(K)
<1> DEFINE U == {l \in Nat : \A j \in K : j <= l}
<1>1. n \in U
  OBVIOUS
<1>2. PICK l \in U : \A x \in U : l <= x
  BY <1>1, LeastOf
<1>3. l \in 0 .. n
  BY <1>1, <1>2
<1>4. l # 0 => l \in K
  <2> SUFFICES ASSUME l # 0, l \notin K PROVE FALSE
    OBVIOUS
  <2>1. \A j \in K : j <= l - 1
    BY <1>2
  <2>2. l - 1 \in U
    BY <1>3, <2>1
  <2> QED
    BY <1>2, <2>2
<1>5. \A j \in K : j <= l
  BY <1>2
<1> HIDE DEF U
<1>6. K = 1 .. l
  <2>1. ASSUME NEW i \in 1 .. l PROVE i \in K
    BY <1>3, <1>4
  <2>2. ASSUME NEW i \in K PROVE i \in 1 .. l
    BY <1>3, <1>5
  <2> QED
    BY <2>1, <2>2
<1>7. Cardinality(1 .. l) = l
  BY <1>3, FS_Interval
<1> QED
  BY <1>3, <1>6, <1>7

\* The first `k' ranges are in order.
Rising(o, k) == \A i, j \in 1 .. k : i < j => ~Precedes(o[j], o[i])

\* `r' precedes all but the first m.
PrecedesRest(r, o, k, m) ==
  /\ \A i \in 1 .. m : ~Precedes(r, o[i])
  /\ \A i \in m + 1 .. k : Precedes(r, o[i])

\* The first k of `o' are in R.
Within(o, k, R) == \A i \in 1 .. k : o[i] \in R

\* A range that is inserted where it belongs leaves them in order.
LEMMA AscendsStill ==
  ASSUME NEW R, Ranges(R), NEW k \in Nat, NEW m \in 0 .. k, NEW p, NEW o, NEW r \in R,
         Within(o, k, R), Rising(o, k), PrecedesRest(r, o, k, m), PutBehind(p, o, k, m, r)
  PROVE  Rising(p, k + 1)
<1> SUFFICES ASSUME NEW i \in 1 .. k + 1, NEW j \in 1 .. k + 1, i < j
             PROVE  ~Precedes(p[j], p[i])
  BY DEF Rising
<1> USE DEF Within, Rising, PrecedesRest
<1>1. CASE j <= m
  <2>1. p[i] = o[i] /\ p[j] = o[j]
    BY <1>1 DEF PutBehind
  <2> QED
    BY <1>1, <2>1
<1>2. CASE j = m + 1
  <2>1. p[i] = o[i] /\ p[j] = r /\ i \in 1 .. m
    BY <1>2 DEF PutBehind
  <2> QED
    BY <2>1
<1>3. CASE j > m + 1 /\ i <= m
  <2>1. p[i] = o[i] /\ p[j] = o[j - 1] /\ i < j - 1 /\ i \in 1 .. k /\ j - 1 \in 1 .. k
    BY <1>3 DEF PutBehind
  <2> QED
    BY <2>1
<1>4. CASE j > m + 1 /\ i = m + 1
  <2>1. p[j] = o[j - 1] /\ p[i] = r /\ j - 1 \in m + 1 .. k
    BY <1>4 DEF PutBehind
  <2>2. Precedes(r, o[j - 1]) /\ o[j - 1] \in R
    BY <2>1
  <2> QED
    BY <2>1, <2>2, PrecedesOrder
<1>5. CASE i > m + 1
  <2>1. p[i] = o[i - 1] /\ p[j] = o[j - 1] /\ i - 1 < j - 1 /\ i - 1 \in 1 .. k /\ j - 1 \in 1 .. k
    BY <1>5 DEF PutBehind
  <2> QED
    BY <2>1
<1> QED
  BY <1>1, <1>2, <1>3, <1>4, <1>5

\* `h' permutes 1 .. k.
Permutes(h, k) ==
  /\ h \in [1 .. k -> 1 .. k]
  /\ \A a, b \in 1 .. k : h[a] = h[b] => a = b
  /\ \A b \in 1 .. k : \E a \in 1 .. k : h[a] = b

\* A permutation with one place more put behind its first `m'.
LEMMA PermutesStill ==
  ASSUME NEW k \in Nat, NEW m \in 0 .. k, NEW h, Permutes(h, k)
  PROVE  \E q : Permutes(q, k + 1) /\ PutBehind(q, h, k, m, k + 1)
<1> DEFINE q == [i \in 1 .. k + 1 |-> IF i <= m THEN h[i] ELSE IF i = m + 1 THEN k + 1 ELSE h[i - 1]]
<1>1. /\ h \in [1 .. k -> 1 .. k]
      /\ \A a, b \in 1 .. k : h[a] = h[b] => a = b
      /\ \A b \in 1 .. k : \E a \in 1 .. k : h[a] = b
  BY DEF Permutes
<1>2. \A i \in 1 .. k : h[i] \in 1 .. k /\ h[i] # k + 1
  BY <1>1
<1>3. q \in [1 .. k + 1 -> 1 .. k + 1]
  BY <1>2
<1>4. PutBehind(q, h, k, m, k + 1)
  BY BehindWhich
<1> HIDE DEF q
<1>5. /\ \A i \in 1 .. m : q[i] = h[i]
      /\ q[m + 1] = k + 1
      /\ \A i \in m + 2 .. k + 1 : q[i] = h[i - 1]
  BY <1>4 DEF PutBehind
<1>6. ASSUME NEW i \in 1 .. k + 1, i # m + 1
      PROVE  \E x \in 1 .. k : q[i] = h[x] /\ x = IF i <= m THEN i ELSE i - 1
  <2>1. CASE i <= m
    BY <1>5, <2>1
  <2>2. CASE i > m
    <3>1. i - 1 \in 1 .. k /\ q[i] = h[i - 1]
      BY <1>5, <1>6, <2>2
    <3> QED
      BY <2>2, <3>1
  <2> QED
    BY <2>1, <2>2
<1>7. ASSUME NEW a \in 1 .. k + 1, NEW b \in 1 .. k + 1, q[a] = q[b] PROVE a = b
  <2>1. CASE a = m + 1 /\ b # m + 1
    <3>1. PICK y \in 1 .. k : q[b] = h[y]
      BY <1>6, <2>1
    <3> QED
      BY <1>2, <1>5, <1>7, <2>1, <3>1
  <2>2. CASE b = m + 1 /\ a # m + 1
    <3>1. PICK x \in 1 .. k : q[a] = h[x]
      BY <1>6, <2>2
    <3> QED
      BY <1>2, <1>5, <1>7, <2>2, <3>1
  <2>3. CASE a # m + 1 /\ b # m + 1
    <3>1. PICK x \in 1 .. k : q[a] = h[x] /\ x = IF a <= m THEN a ELSE a - 1
      BY <1>6, <2>3
    <3>2. PICK y \in 1 .. k : q[b] = h[y] /\ y = IF b <= m THEN b ELSE b - 1
      BY <1>6, <2>3
    <3>3. x = y
      BY <1>1, <1>7, <3>1, <3>2
    <3> QED
      BY <2>3, <3>1, <3>2, <3>3
  <2> QED
    BY <2>1, <2>2, <2>3
<1>8. ASSUME NEW b \in 1 .. k + 1 PROVE \E a \in 1 .. k + 1 : q[a] = b
  <2>1. CASE b = k + 1
    BY <1>5, <2>1
  <2>2. CASE b <= k
    <3>1. PICK a \in 1 .. k : h[a] = b
      BY <1>1, <2>2
    <3>2. CASE a <= m
      BY <1>5, <3>1, <3>2
    <3>3. CASE a > m
      <4>1. a + 1 \in m + 2 .. k + 1 /\ (a + 1) - 1 = a
        BY <3>3
      <4>2. q[a + 1] = h[a]
        BY <1>5, <4>1
      <4> QED
        BY <3>1, <4>1, <4>2
    <3> QED
      BY <3>2, <3>3
  <2> QED
    BY <2>1, <2>2
<1> QED
  BY <1>3, <1>4, <1>7, <1>8 DEF Permutes

\* The i-th of `o' is the h[i]-th of `s'.
Picks(o, s, h, k) == \A i \in 1 .. k : o[i] = s[h[i]]

\* Sorting permutes: the i-th of the result is the h[i]-th that came.
LEMMA SortedStep ==
  ASSUME NEW R, Ranges(R), NEW o \in Seq(R), NEW r \in R, NEW k \in Nat, Len(o) = k, Ascends(o),
         NEW s, NEW h, Permutes(h, k), s[k + 1] = r, Picks(o, s, h, k)
  PROVE  /\ Inserted(o, r) \in Seq(R) /\ Len(Inserted(o, r)) = k + 1 /\ Ascends(Inserted(o, r))
         /\ \E q : Permutes(q, k + 1) /\ Picks(Inserted(o, r), s, q, k + 1)
<1> DEFINE K == Before(o, r)
           p == Inserted(o, r)
<1>1. p \in Seq(R) /\ \E m : InsertsAt(p, o, r, m)
  BY InsertedIs
<1> HIDE DEF p
<1>2. PICK m \in 0 .. k : m = Cardinality(K) /\ Len(p) = k + 1 /\ PutBehind(p, o, k, m, r)
  BY <1>1 DEF InsertsAt
<1>3. /\ DOMAIN o = 1 .. k
      /\ Within(o, k, R)
      /\ DOMAIN p = 1 .. k + 1
  BY <1>1, <1>2 DEF Within
<1>4. Rising(o, k)
  BY <1>3 DEF Ascends, Rising
<1>5. K = 1 .. m
  <2>0. \A j : j \in K <=> j \in 1 .. k /\ ~Precedes(r, o[j])
    BY <1>3 DEF Before
  <2>1. ASSUME NEW i \in 1 .. k, NEW j \in 1 .. k, i < j, j \in K PROVE i \in K
    <3>1. o[i] \in R /\ o[j] \in R /\ ~Precedes(o[j], o[i]) /\ ~Precedes(r, o[j])
      BY <2>0, <1>3, <1>4, <2>1 DEF Within, Rising
    <3>2. ~Precedes(r, o[i])
      BY <3>1, PrecedesOrder
    <3> QED
      BY <2>0, <3>2
  <2>2. K \subseteq 1 .. k
    BY <2>0
  <2> HIDE DEF K
  <2> QED
    BY <1>2, <2>1, <2>2, InitialPart
<1>6. PrecedesRest(r, o, k, m)
  <2>1. ASSUME NEW i \in 1 .. m PROVE ~Precedes(r, o[i])
    <3>1. i \in K
      BY <1>5
    <3> QED
      BY <3>1 DEF Before
  <2>2. ASSUME NEW i \in m + 1 .. k PROVE Precedes(r, o[i])
    <3>1. i \notin K
      BY <1>5
    <3> QED
      BY <1>3, <3>1 DEF Before
  <2> QED
    BY <2>1, <2>2 DEF PrecedesRest
<1> HIDE DEF K
<1>7. Ascends(p)
  <2>1. Rising(p, k + 1)
    BY <1>2, <1>3, <1>4, <1>6, AscendsStill
  <2> QED
    BY <1>3, <2>1 DEF Ascends, Rising
<1>8. PICK q : Permutes(q, k + 1) /\ PutBehind(q, h, k, m, k + 1)
  BY PermutesStill
<1>9. ASSUME NEW i \in 1 .. k + 1 PROVE p[i] = s[q[i]]
  <2>1. CASE i <= m
    BY <1>2, <1>8, <2>1 DEF PutBehind, Picks
  <2>2. CASE i = m + 1
    BY <1>2, <1>8, <2>2 DEF PutBehind, Picks
  <2>3. CASE i > m + 1
    <3>1. i - 1 \in 1 .. k /\ p[i] = o[i - 1] /\ q[i] = h[i - 1]
      BY <1>2, <1>8, <2>3 DEF PutBehind
    <3> QED
      BY <3>1 DEF Picks
  <2> QED
    BY <2>1, <2>2, <2>3
<1> QED
  BY <1>1, <1>2, <1>7, <1>8, <1>9 DEF p, Picks

\* Sorting returns the same ranges, in order.
LEMMA SortedPermutes ==
  ASSUME NEW R, Ranges(R), NEW s \in Seq(R)
  PROVE  /\ Sorted(s) \in Seq(R)
         /\ Len(Sorted(s)) = Len(s)
         /\ Ascends(Sorted(s))
         /\ \E h : Permutes(h, Len(s)) /\ Picks(Sorted(s), s, h, Len(s))
<1>1. PICK f \in [0 .. Len(s) -> Seq(R)] :
           /\ f[0] = <<>>
           /\ \A i \in 1 .. Len(s) : f[i] = Inserted(f[i - 1], s[i])
           /\ Sorted(s) = f[Len(s)]
  BY SortedSteps
<1>2. Len(s) \in Nat
  OBVIOUS
<1> DEFINE Good(k) == /\ Len(f[k]) = k
                      /\ Ascends(f[k])
                      /\ \E h : Permutes(h, k) /\ Picks(f[k], s, h, k)
           T == {k \in Nat : k <= Len(s) => Good(k)}
<1>3. Good(0)
  <2> DEFINE h == [i \in 1 .. 0 |-> i]
  <2>1. Permutes(h, 0)
    BY DEF Permutes
  <2> HIDE DEF h
  <2>2. Ascends(<<>>)
    BY DEF Ascends
  <2> QED
    BY <1>1, <2>1, <2>2 DEF Picks
<1>4. ASSUME NEW k \in Nat, k + 1 <= Len(s), Good(k) PROVE Good(k + 1)
  <2> DEFINE o == f[k]
             r == s[k + 1]
  <2>1. o \in Seq(R) /\ r \in R
    BY <1>2, <1>4
  <2>2. f[k + 1] = Inserted(o, r)
    <3>1. k + 1 \in 1 .. Len(s) /\ (k + 1) - 1 = k
      BY <1>2, <1>4
    <3> QED
      BY <1>1, <3>1
  <2>3. PICK h : Permutes(h, k) /\ Picks(o, s, h, k)
    BY <1>4
  <2>4. Len(o) = k /\ Ascends(o)
    BY <1>4
  <2>5. s[k + 1] = r
    OBVIOUS
  <2> HIDE DEF o, r
  <2>6. /\ Len(Inserted(o, r)) = k + 1 /\ Ascends(Inserted(o, r))
        /\ \E q : Permutes(q, k + 1) /\ Picks(Inserted(o, r), s, q, k + 1)
    BY <2>1, <2>3, <2>4, <2>5, SortedStep
  <2> QED
    BY <2>2, <2>6
<1> HIDE DEF Good
<1>5. 0 \in T /\ \A k \in Nat : k \in T => k + 1 \in T
  BY <1>2, <1>3, <1>4
<1> HIDE DEF T
<1>6. Len(s) \in T
  BY <1>2, <1>5, NatSteps
<1>7. Good(Len(s))
  BY <1>2, <1>6 DEF T
<1>8. Sorted(s) \in Seq(R)
  BY <1>1, <1>2
<1> QED
  BY <1>1, <1>7, <1>8 DEF Good

\* What is in order stays as it is.
LEMMA SortedIsSame ==
  ASSUME NEW R, Ranges(R), NEW s \in Seq(R), Ascends(s)
  PROVE  Sorted(s) = s
<1> DEFINE n == Len(s)
<1>0. n \in Nat
  OBVIOUS
<1>1. PICK f \in [0 .. n -> Seq(R)] :
           /\ f[0] = <<>>
           /\ \A i \in 1 .. n : f[i] = Inserted(f[i - 1], s[i])
           /\ Sorted(s) = f[n]
  BY SortedSteps DEF n
<1> HIDE DEF n
<1> DEFINE T == {k \in Nat : k <= n => /\ Len(f[k]) = k
                                            /\ \A i \in 1 .. k : f[k][i] = s[i]}
<1>2. 0 \in T
  BY <1>1
<1>3. ASSUME NEW k \in Nat, k \in T PROVE k + 1 \in T
  <2> SUFFICES ASSUME k + 1 <= n
               PROVE  /\ Len(f[k + 1]) = k + 1
                      /\ \A i \in 1 .. k + 1 : f[k + 1][i] = s[i]
    OBVIOUS
  <2> DEFINE o == f[k]
             r == s[k + 1]
  <2>1. o \in Seq(R) /\ r \in R /\ Len(o) = k /\ \A i \in 1 .. k : o[i] = s[i]
    BY <1>0, <1>3 DEF n
  <2>2. f[k + 1] = Inserted(o, r)
    BY <1>1
  <2>3. \A j \in DOMAIN o : ~Precedes(r, o[j])
    BY <1>0, <2>1 DEF Ascends, n
  <2> HIDE DEF T, o
  <2> DEFINE K == Before(o, r)
  <2>4. K = 1 .. k
    BY <2>1, <2>3 DEF Before
  <2> HIDE DEF r
  <2>5. PICK m \in 0 .. k : /\ m = Cardinality(K) /\ Len(Inserted(o, r)) = k + 1
                            /\ PutBehind(Inserted(o, r), o, k, m, r)
    <3>1. \E m : InsertsAt(Inserted(o, r), o, r, m)
      BY <2>1, InsertedIs
    <3> QED
      BY <2>1, <3>1 DEF InsertsAt
  <2> HIDE DEF K
  <2>6. m = k
    BY <2>4, <2>5, FS_Interval
  <2> QED
    BY <2>1, <2>2, <2>5, <2>6 DEF r, PutBehind
<1> HIDE DEF T
<1>4. n \in T
  BY <1>0, <1>2, <1>3, NatSteps
<1>5. Sorted(s) \in Seq(R) /\ Len(Sorted(s)) = n /\ \A i \in 1 .. n : Sorted(s)[i] = s[i]
  BY <1>0, <1>1, <1>4 DEF T
<1> QED
  BY <1>5, SeqEqual DEF n

(***************************************************************************)
(* Texts and changes, one after another                                    *)
(***************************************************************************)
\* A text cut in two, and a part of one of two texts.
LEMMA CutInTwo ==
  ASSUME NEW C, NEW t \in Seq(C), NEW n \in 0 .. Len(t)
  PROVE  /\ SubSeq(t, 1, n) \in Seq(C) /\ Len(SubSeq(t, 1, n)) = n
         /\ SubSeq(t, n + 1, Len(t)) \in Seq(C) /\ Len(SubSeq(t, n + 1, Len(t))) = Len(t) - n
         /\ SubSeq(t, 1, n) \o SubSeq(t, n + 1, Len(t)) = t
<1>0. Len(t) \in Nat
  OBVIOUS
<1>1. /\ SubSeq(t, 1, n) \in Seq(C) /\ Len(SubSeq(t, 1, n)) = n
      /\ SubSeq(t, n + 1, Len(t)) \in Seq(C) /\ Len(SubSeq(t, n + 1, Len(t))) = Len(t) - n
  BY <1>0
<1>2. SubSeq(t, 1, n) \o SubSeq(t, n + 1, Len(t)) = SubSeq(t, 1, Len(t))
  <2>1. 1 \in 1 .. Len(t) + 1 /\ n \in 1 - 1 .. Len(t) /\ Len(t) \in n .. Len(t)
    BY <1>0
  <2> QED
    BY <2>1, ConcatAdjacentSubSeq
<1>3. SubSeq(t, 1, Len(t)) = t
  BY SubSeqFull
<1> QED
  BY <1>1, <1>2, <1>3

\* A part of a text.
LEMMA PartOfText ==
  ASSUME NEW C, NEW t \in Seq(C), NEW m \in Nat, NEW n \in Nat, n <= Len(t)
  PROVE  /\ SubSeq(t, m + 1, n) \in Seq(C)
         /\ Len(SubSeq(t, m + 1, n)) = IF m <= n THEN n - m ELSE 0
         /\ \A i \in 1 .. n - m : SubSeq(t, m + 1, n)[i] = t[m + i]
<1>0. Len(t) \in Nat
  OBVIOUS
<1>1. \A i \in m + 1 .. n : t[i] \in C
  BY <1>0
<1>2. m + 1 \in Int /\ n \in Int
  OBVIOUS
<1>3. /\ SubSeq(t, m + 1, n) \in Seq(C)
      /\ Len(SubSeq(t, m + 1, n)) = IF m + 1 <= n THEN n - (m + 1) + 1 ELSE 0
      /\ \A i \in 1 .. n - (m + 1) + 1 : SubSeq(t, m + 1, n)[i] = t[m + 1 + i - 1]
  BY <1>1, <1>2, SubSeqProperties
<1>4. (IF m + 1 <= n THEN n - (m + 1) + 1 ELSE 0) = (IF m <= n THEN n - m ELSE 0)
  OBVIOUS
<1>5. ASSUME NEW i \in 1 .. n - m PROVE SubSeq(t, m + 1, n)[i] = t[m + i]
  <2>1. i \in 1 .. n - (m + 1) + 1 /\ m + 1 + i - 1 = m + i
    OBVIOUS
  <2> QED
    BY <1>3, <2>1
<1> QED
  BY <1>3, <1>4, <1>5

\* A part that lies in the first of two texts.
LEMMA PartOfLeft ==
  ASSUME NEW C, NEW a \in Seq(C), NEW b \in Seq(C), NEW m \in Nat \ {0}, NEW n \in Nat, n <= Len(a)
  PROVE  SubSeq(a \o b, m, n) = SubSeq(a, m, n)
<1>0. Len(a) \in Nat
  OBVIOUS
<1>1. CASE m <= n
  <2>1. m \in 1 .. Len(a) /\ n \in 1 .. Len(a)
    BY <1>0, <1>1
  <2> QED
    BY <2>1, SubSeqOfConcat1
<1>2. CASE n < m
  BY <1>2, SubSeqEmpty
<1> QED
  BY <1>1, <1>2

\* A part that lies in the second of two texts.
LEMMA PartOfRight ==
  ASSUME NEW C, NEW a \in Seq(C), NEW b \in Seq(C), NEW m \in Nat, NEW n \in Nat, n <= Len(b)
  PROVE  SubSeq(a \o b, Len(a) + m + 1, Len(a) + n) = SubSeq(b, m + 1, n)
<1>0. Len(a) \in Nat /\ Len(b) \in Nat
  OBVIOUS
<1>1. CASE m + 1 <= n
  <2>1. /\ Len(a) + m + 1 \in Len(a) + 1 .. Len(a) + Len(b)
        /\ Len(a) + n \in Len(a) + 1 .. Len(a) + Len(b)
        /\ (Len(a) + m + 1) - Len(a) = m + 1 /\ (Len(a) + n) - Len(a) = n
    BY <1>0, <1>1
  <2> QED
    BY <2>1, SubSeqOfConcat2
<1>2. CASE n < m + 1
  <2>1. Len(a) + n < Len(a) + m + 1 /\ Len(a) + n \in Int /\ Len(a) + m + 1 \in Int
    BY <1>0, <1>2
  <2> QED
    BY <1>2, <2>1, SubSeqEmpty
<1> QED
  BY <1>1, <1>2

\* Two texts that are joined can be cut apart again.
LEMMA BothParts ==
  ASSUME NEW C, NEW a \in Seq(C), NEW b \in Seq(C)
  PROVE  /\ SubSeq(a \o b, 1, Len(a)) = a
         /\ SubSeq(a \o b, Len(a) + 1, Len(a \o b)) = b
<1>0. Len(a) \in Nat /\ Len(b) \in Nat /\ Len(a \o b) = Len(a) + Len(b)
  BY ConcatProperties
<1>1. SubSeq(a \o b, 1, Len(a)) = SubSeq(a, 1, Len(a))
  BY <1>0, PartOfLeft
<1>2. SubSeq(a \o b, Len(a) + 0 + 1, Len(a) + Len(b)) = SubSeq(b, 0 + 1, Len(b))
  BY <1>0, PartOfRight
<1>3. Len(a) + 0 + 1 = Len(a) + 1 /\ 0 + 1 = 1
  BY <1>0
<1>4. SubSeq(a, 1, Len(a)) = a /\ SubSeq(b, 1, Len(b)) = b
  BY SubSeqFull
<1>5. SubSeq(a \o b, Len(a) + 1, Len(a) + Len(b)) = SubSeq(b, 1, Len(b))
  BY <1>2, <1>3
<1> QED
  BY <1>0, <1>1, <1>4, <1>5

-----------------------------------------------------------------------------
\* The changes with characters of `C', wherever they lie.
ChangesOf(C) == [start : Nat, end : Nat, ins : Seq(C)]

\* The change lies in the text.
InPlace(t, c) == c.start <= c.end /\ c.end <= Len(t)

\* What a change leaves, in parts.
LEMMA ReplacedIs ==
  ASSUME NEW C, NEW t \in Seq(C), NEW c \in ChangesOf(C), InPlace(t, c)
  PROVE  /\ Replaced(t, c) \in Seq(C)
         /\ Replaced(t, c) = SubSeq(t, 1, c.start) \o (c.ins \o SubSeq(t, c.end + 1, Len(t)))
         /\ Len(Replaced(t, c)) = Len(t) - (c.end - c.start) + Len(c.ins)
<1> DEFINE a == SubSeq(t, 1, c.start)
           b == SubSeq(t, c.end + 1, Len(t))
<1>1. c.start \in 0 .. Len(t) /\ c.end \in 0 .. Len(t) /\ c.ins \in Seq(C) /\ Len(t) \in Nat
  BY DEF InPlace, ChangesOf
<1>2. a \in Seq(C) /\ Len(a) = c.start
  BY <1>1, CutInTwo
<1>3. b \in Seq(C) /\ Len(b) = Len(t) - c.end
  BY <1>1, CutInTwo
<1>4. Replaced(t, c) = (a \o c.ins) \o b
  BY DEF Replaced
<1> HIDE DEF a, b
<1>5. (a \o c.ins) \o b = a \o (c.ins \o b)
  <2> DEFINE x == c.ins
  <2>1. a \in Seq(C) /\ x \in Seq(C) /\ b \in Seq(C)
    BY <1>1, <1>2, <1>3
  <2> HIDE DEF x
  <2>2. (a \o x) \o b = a \o (x \o b)
    BY <2>1, ConcatAssociative, SMTT(30)
  <2> QED
    BY <2>2 DEF x
<1>6. c.ins \o b \in Seq(C) /\ Len(c.ins \o b) = Len(c.ins) + Len(b)
  BY <1>1, <1>3, ConcatProperties
<1>7. a \o (c.ins \o b) \in Seq(C) /\ Len(a \o (c.ins \o b)) = Len(a) + Len(c.ins \o b)
  BY <1>2, <1>6, ConcatProperties
<1>8. c.start + (Len(c.ins) + (Len(t) - c.end)) = Len(t) - (c.end - c.start) + Len(c.ins)
  <2>1. Len(c.ins) \in Nat
    BY <1>1
  <2> QED
    BY <1>1, <2>1
<1> QED
  BY <1>2, <1>3, <1>4, <1>5, <1>6, <1>7, <1>8 DEF a, b

\* `g' leads from a text through the changes to another.
Path(C, g, t, cs, u) ==
  /\ g \in [0 .. Len(cs) -> Seq(C)]
  /\ g[0] = t /\ g[Len(cs)] = u
  /\ \A i \in 1 .. Len(cs) : InPlace(g[i - 1], cs[i]) /\ g[i] = Replaced(g[i - 1], cs[i])

\* The changes, one after another and each in place when its turn comes,
\* lead from `t' to `u'.
Leads(C, t, cs, u) == \E g : Path(C, g, t, cs, u)

\* What applying changes in turn computes.
LEMMA LeadsIs ==
  ASSUME NEW C, NEW t, NEW u, NEW cs \in Seq(ChangesOf(C)), Leads(C, t, cs, u)
  PROVE  t \in Seq(C) /\ u \in Seq(C) /\ InTurn(t, cs) = u
<1> DEFINE n == Len(cs)
           F(g) == [i \in 0 .. n |-> IF i = 0 THEN t ELSE Replaced(g[i - 1], cs[i])]
           after == CHOOSE g : g = F(g)
<1>1. InTurn(t, cs) = after[n]
  BY DEF InTurn
<1>2. PICK g : Path(C, g, t, cs, u)
  BY DEF Leads
<1>3. n \in Nat
  OBVIOUS
<1> HIDE DEF n
<1>4. /\ g \in [0 .. n -> Seq(C)]
      /\ g[0] = t /\ g[n] = u
      /\ \A i \in 1 .. n : g[i] = Replaced(g[i - 1], cs[i])
  BY <1>2 DEF Path, n
<1>5. g = F(g)
  BY <1>4
<1>6. after = F(after)
  <2> HIDE DEF F
  <2> QED
    BY <1>5
<1> HIDE DEF after
<1>7. \A i \in 0 .. n : F(after)[i] = IF i = 0 THEN t ELSE Replaced(after[i - 1], cs[i])
  OBVIOUS
<1> HIDE DEF F
<1>8. \A i \in 0 .. n : after[i] = IF i = 0 THEN t ELSE Replaced(after[i - 1], cs[i])
  BY <1>6, <1>7
<1>9. StepAlike(after, g, n)
  BY <1>3, <1>4, <1>8 DEF StepAlike
<1>10. after[n] = g[n]
  BY <1>3, <1>9, SameTrail
<1> QED
  BY <1>1, <1>3, <1>4, <1>10

\* No change leaves the text.
LEMMA LeadsNowhere ==
  ASSUME NEW C, NEW t \in Seq(C)
  PROVE  Leads(C, t, <<>>, t)
<1> DEFINE g == [i \in 0 .. 0 |-> t]
<1>1. g \in [0 .. 0 -> Seq(C)] /\ g[0] = t
  OBVIOUS
<1> HIDE DEF g
<1>2. Path(C, g, t, <<>>, t)
  BY <1>1 DEF Path
<1> QED
  BY <1>2 DEF Leads

\* One change does what Replaced says.
LEMMA LeadsOnce ==
  ASSUME NEW C, NEW t \in Seq(C), NEW c \in ChangesOf(C), InPlace(t, c)
  PROVE  Leads(C, t, <<c>>, Replaced(t, c))
<1> DEFINE u == Replaced(t, c)
<1>1. u \in Seq(C)
  BY ReplacedIs
<1> HIDE DEF u
<1> DEFINE g == [i \in 0 .. 1 |-> IF i = 0 THEN t ELSE u]
<1>2. g \in [0 .. 1 -> Seq(C)] /\ g[0] = t /\ g[1] = u
  BY <1>1
<1> HIDE DEF g
<1>3. Len(<<c>>) = 1 /\ <<c>>[1] = c
  OBVIOUS
<1>4. \A i \in 1 .. 1 : i = 1 /\ i - 1 = 0
  OBVIOUS
<1>5. InPlace(g[0], <<c>>[1]) /\ g[1] = Replaced(g[0], <<c>>[1])
  BY <1>2, <1>3 DEF u
<1>6. Path(C, g, t, <<c>>, u)
  BY <1>2, <1>3, <1>4, <1>5 DEF Path
<1> QED
  BY <1>6 DEF Leads, u

\* Two runs of changes, one behind the other.
LEMMA LeadsOn ==
  ASSUME NEW C, NEW t, NEW u, NEW v,
         NEW cs \in Seq(ChangesOf(C)), NEW ds \in Seq(ChangesOf(C)),
         Leads(C, t, cs, u), Leads(C, u, ds, v)
  PROVE  Leads(C, t, cs \o ds, v)
<1> DEFINE m == Len(cs)
           n == Len(ds)
           es == cs \o ds
<1>1. PICK g : Path(C, g, t, cs, u)
  BY DEF Leads
<1>2. PICK h : Path(C, h, u, ds, v)
  BY DEF Leads
<1>3. m \in Nat /\ n \in Nat
  OBVIOUS
<1>4. /\ Len(es) = m + n
      /\ \A i \in 1 .. m + n : es[i] = IF i <= m THEN cs[i] ELSE ds[i - m]
  BY ConcatProperties
<1> HIDE DEF m, n, es
<1>5. /\ g \in [0 .. m -> Seq(C)]
      /\ g[0] = t /\ g[m] = u
      /\ \A i \in 1 .. m : InPlace(g[i - 1], cs[i]) /\ g[i] = Replaced(g[i - 1], cs[i])
  BY <1>1 DEF Path, m
<1>6. /\ h \in [0 .. n -> Seq(C)]
      /\ h[0] = u /\ h[n] = v
      /\ \A i \in 1 .. n : InPlace(h[i - 1], ds[i]) /\ h[i] = Replaced(h[i - 1], ds[i])
  BY <1>2 DEF Path, n
<1> DEFINE f == [i \in 0 .. m + n |-> IF i <= m THEN g[i] ELSE h[i - m]]
<1>7. f \in [0 .. m + n -> Seq(C)]
  <2>1. ASSUME NEW i \in 0 .. m + n PROVE (IF i <= m THEN g[i] ELSE h[i - m]) \in Seq(C)
    <3>1. CASE i <= m
      BY <1>3, <1>5, <3>1
    <3>2. CASE i > m
      <4>1. i - m \in 0 .. n
        BY <1>3, <3>2
      <4> QED
        BY <1>3, <1>6, <3>2, <4>1
    <3> QED
      BY <1>3, <3>1, <3>2
  <2> QED
    BY <2>1
<1>8. /\ \A i \in 0 .. m : f[i] = g[i]
      /\ \A i \in m + 1 .. m + n : f[i] = h[i - m]
  BY <1>3
<1> HIDE DEF f
<1>9. f[0] = t /\ f[m + n] = v /\ f[m] = h[0]
  <2>1. CASE n = 0
    BY <1>3, <1>5, <1>6, <1>8, <2>1
  <2>2. CASE n # 0
    <3>1. m + n \in m + 1 .. m + n /\ (m + n) - m = n
      BY <1>3, <2>2
    <3> QED
      BY <1>3, <1>5, <1>6, <1>8, <3>1
  <2> QED
    BY <2>1, <2>2
<1>10. ASSUME NEW i \in 1 .. m + n
       PROVE  InPlace(f[i - 1], es[i]) /\ f[i] = Replaced(f[i - 1], es[i])
  <2>1. CASE i <= m
    <3>1. es[i] = cs[i] /\ i \in 1 .. m
      BY <1>3, <1>4, <2>1
    <3>2. i - 1 \in 0 .. m /\ i \in 0 .. m
      BY <1>3, <2>1
    <3>3. f[i - 1] = g[i - 1] /\ f[i] = g[i]
      BY <1>8, <3>2
    <3> QED
      BY <1>5, <3>1, <3>3
  <2>2. CASE i > m
    <3> DEFINE j == i - m
    <3>1. j \in 1 .. n /\ f[i] = h[j] /\ es[i] = ds[j]
      BY <1>3, <1>4, <1>8, <2>2
    <3>2. f[i - 1] = h[j - 1]
      <4>1. CASE i = m + 1
        BY <1>3, <1>9, <4>1
      <4>2. CASE i > m + 1
        <5>1. i - 1 \in m + 1 .. m + n /\ (i - 1) - m = j - 1
          BY <1>3, <4>2
        <5> QED
          BY <1>8, <5>1
      <4> QED
        BY <1>3, <2>2, <4>1, <4>2
    <3> HIDE DEF j
    <3> QED
      BY <1>6, <3>1, <3>2
  <2> QED
    BY <1>3, <2>1, <2>2
<1>11. Path(C, f, t, es, v)
  BY <1>4, <1>7, <1>9, <1>10 DEF Path
<1> QED
  BY <1>11 DEF Leads, es

\* What stands behind a text stays where it is.
LEMMA ReplacedBeside ==
  ASSUME NEW C, NEW t \in Seq(C), NEW w \in Seq(C), NEW c \in ChangesOf(C), InPlace(t, c)
  PROVE  InPlace(t \o w, c) /\ Replaced(t \o w, c) = Replaced(t, c) \o w
<1> DEFINE a == SubSeq(t, 1, c.start)
           b == SubSeq(t, c.end + 1, Len(t))
<1>1. c.start \in 0 .. Len(t) /\ c.end \in 0 .. Len(t) /\ c.ins \in Seq(C) /\ Len(t) \in Nat /\ Len(w) \in Nat
  BY DEF InPlace, ChangesOf
<1>2. t \o w \in Seq(C) /\ Len(t \o w) = Len(t) + Len(w)
  BY ConcatProperties
<1>3. InPlace(t \o w, c)
  BY <1>1, <1>2 DEF InPlace, ChangesOf
<1>4. Replaced(t \o w, c) = SubSeq(t \o w, 1, c.start) \o (c.ins \o SubSeq(t \o w, c.end + 1, Len(t \o w)))
  BY <1>2, <1>3, ReplacedIs
<1>5. SubSeq(t \o w, 1, c.start) = a
  <2>1. c.start \in Nat /\ c.start <= Len(t)
    BY <1>1
  <2> QED
    BY <2>1, PartOfLeft
<1>6. SubSeq(t \o w, c.end + 1, Len(t \o w)) = b \o w
  <2> DEFINE e == SubSeq(t, 1, c.end)
  <2>1. e \in Seq(C) /\ Len(e) = c.end /\ b \in Seq(C) /\ Len(b) = Len(t) - c.end /\ t = e \o b
    BY <1>1, CutInTwo
  <2> HIDE DEF e, b
  <2>2. t \o w = e \o (b \o w)
    BY <2>1, ConcatAssociative
  <2>3. b \o w \in Seq(C) /\ Len(b \o w) = Len(b) + Len(w)
    BY <2>1, ConcatProperties
  <2>4. SubSeq(e \o (b \o w), Len(e) + 1, Len(e \o (b \o w))) = b \o w
    BY <2>1, <2>3, BothParts
  <2> QED
    BY <2>1, <2>2, <2>4
<1>7. a \in Seq(C) /\ b \in Seq(C)
  BY <1>1, CutInTwo
<1>8. Replaced(t, c) = a \o (c.ins \o b)
  BY ReplacedIs
<1> HIDE DEF a, b
<1>9. (a \o (c.ins \o b)) \o w = a \o (c.ins \o (b \o w))
  <2> DEFINE x == c.ins
  <2>1. x \in Seq(C)
    BY <1>1
  <2> HIDE DEF x
  <2>0. (x \o b) \o w = x \o (b \o w)
    <3>1. b \in Seq(C)
      BY <1>7
    <3> QED
      BY <2>1, <3>1, ConcatAssociative
  <2> DEFINE y == x \o b
  <2>2. y \in Seq(C) /\ b \o w \in Seq(C)
    BY <1>7, <2>1, ConcatProperties
  <2>3. y \o w = x \o (b \o w)
    BY <2>0
  <2> HIDE DEF y
  <2>4. (a \o y) \o w = a \o (y \o w)
    <3>1. a \in Seq(C)
      BY <1>7
    <3>2. y \in Seq(C)
      BY <2>2
    <3> QED
      BY <3>1, <3>2, ConcatAssociative
  <2>5. (a \o y) \o w = a \o (x \o (b \o w))
    BY <2>3, <2>4
  <2> QED
    BY <2>5 DEF x, y
<1> QED
  BY <1>3, <1>4, <1>5, <1>6, <1>8, <1>9

\* Text behind all the changes stays as it is.
LEMMA LeadsBeside ==
  ASSUME NEW C, NEW t, NEW u, NEW cs \in Seq(ChangesOf(C)), NEW w \in Seq(C), Leads(C, t, cs, u)
  PROVE  Leads(C, t \o w, cs, u \o w)
<1> DEFINE n == Len(cs)
<1>1. PICK g : Path(C, g, t, cs, u)
  BY DEF Leads
<1>2. n \in Nat /\ \A i \in 1 .. n : cs[i] \in ChangesOf(C)
  OBVIOUS
<1> HIDE DEF n
<1>3. /\ g \in [0 .. n -> Seq(C)]
      /\ g[0] = t /\ g[n] = u
      /\ \A i \in 1 .. n : InPlace(g[i - 1], cs[i]) /\ g[i] = Replaced(g[i - 1], cs[i])
  BY <1>1 DEF Path, n
<1> DEFINE f == [i \in 0 .. n |-> g[i] \o w]
<1>4. f \in [0 .. n -> Seq(C)]
  BY <1>3, ConcatProperties
<1>5. \A i \in 0 .. n : f[i] = g[i] \o w
  OBVIOUS
<1> HIDE DEF f
<1>6. ASSUME NEW i \in 1 .. n PROVE InPlace(f[i - 1], cs[i]) /\ f[i] = Replaced(f[i - 1], cs[i])
  <2>1. i - 1 \in 0 .. n /\ i \in 0 .. n
    BY <1>2
  <2>2. g[i - 1] \in Seq(C) /\ cs[i] \in ChangesOf(C)
    BY <1>2, <1>3, <2>1
  <2>3. InPlace(g[i - 1], cs[i]) /\ g[i] = Replaced(g[i - 1], cs[i])
    BY <1>3
  <2>4. f[i - 1] = g[i - 1] \o w /\ f[i] = g[i] \o w
    BY <1>5, <2>1
  <2>5. /\ InPlace(g[i - 1] \o w, cs[i])
        /\ Replaced(g[i - 1] \o w, cs[i]) = Replaced(g[i - 1], cs[i]) \o w
    BY <2>2, <2>3, ReplacedBeside
  <2> QED
    BY <2>3, <2>4, <2>5
<1>7. f[0] = t \o w /\ f[n] = u \o w
  <2>1. 0 \in 0 .. n /\ n \in 0 .. n
    BY <1>2
  <2> QED
    BY <1>3, <1>5, <2>1
<1>8. Path(C, f, t \o w, cs, u \o w)
  BY <1>4, <1>6, <1>7 DEF Path, n
<1> QED
  BY <1>8 DEF Leads

(***************************************************************************)
(* Transactions and what takes them back                                   *)
(***************************************************************************)
\* Records that stand for a change, whatever else is in them.
Changing(D, C) == \A c \in D : c.start \in Nat /\ c.end \in Nat /\ c.ins \in Seq(C)

\* By how much a change makes a text longer.
Grows(c) == Len(c.ins) - (c.end - c.start)

\* Delta adds up what the changes before an index grow the text by.
DeltaGoes(s) ==
  /\ Delta(s, 1) = 0
  /\ \A i \in 1 .. Len(s) + 1 : Delta(s, i) \in Int
  /\ \A i \in 1 .. Len(s) : Delta(s, i + 1) = Delta(s, i) + Grows(s[i])

\* That is an integer.
LEMMA GrowsInt ==
  ASSUME NEW C, NEW D, Changing(D, C), NEW c \in D
  PROVE  Grows(c) \in Int
<1>1. c.start \in Nat /\ c.end \in Nat /\ c.ins \in Seq(C)
  BY DEF Changing
<1>2. Len(c.ins) \in Nat
  BY <1>1
<1> QED
  BY <1>1, <1>2 DEF Grows

\* Delta, change by change.
LEMMA DeltaIs ==
  ASSUME NEW C, NEW D, Changing(D, C), NEW s \in Seq(D)
  PROVE  DeltaGoes(s)
<1> DEFINE n == Len(s)
           G == [p \in Int \X (1 .. n) |-> p[1] + Grows(s[p[2]])]
<1>1. n \in Nat
  OBVIOUS
<1>2. ASSUME NEW j \in 1 .. n
      PROVE  /\ Grows(s[j]) \in Int
             /\ \A m \in Int : m + Len(s[j].ins) - (s[j].end - s[j].start) = m + Grows(s[j])
  <2>1. s[j] \in D
    BY <1>2
  <2>2. s[j].start \in Nat /\ s[j].end \in Nat /\ s[j].ins \in Seq(C)
    BY <2>1 DEF Changing
  <2>3. Len(s[j].ins) \in Nat
    BY <2>2
  <2> QED
    BY <2>1, <2>2, <2>3, GrowsInt DEF Grows
<1> HIDE DEF n
<1>3. G \in [Int \X (1 .. n) -> Int]
  <2>1. ASSUME NEW p \in Int \X (1 .. n) PROVE p[1] + Grows(s[p[2]]) \in Int
    <3>1. p[1] \in Int /\ p[2] \in 1 .. n
      OBVIOUS
    <3>2. Grows(s[p[2]]) \in Int
      BY <1>2, <3>1
    <3> QED
      BY <3>1, <3>2
  <2> QED
    BY <2>1
<1>4. \A m \in Int, i \in 1 .. n : G[<<m, i>>] = m + Grows(s[i])
  OBVIOUS
<1> HIDE DEF G
<1>5. PICK f \in [0 .. n -> Int] : Steps(f, 0, n, G)
  <2>1. 0 \in Int
    OBVIOUS
  <2> QED
    BY <1>1, <1>3, <2>1, Trail
<1>6. f[0] = 0 /\ \A i \in 1 .. n : f[i] = f[i - 1] + Grows(s[i])
  <2>1. ASSUME NEW i \in 1 .. n PROVE f[i] = f[i - 1] + Grows(s[i])
    <3>1. f[i - 1] \in Int /\ f[i] = G[<<f[i - 1], i>>]
      BY <1>1, <1>5 DEF Steps
    <3> QED
      BY <1>4, <3>1
  <2> QED
    BY <1>5, <2>1 DEF Steps
<1>7. ASSUME NEW i \in 1 .. n + 1 PROVE Delta(s, i) = f[i - 1]
  <2> DEFINE k == i - 1
             F(g) == [j \in 0 .. k |-> IF j = 0 THEN 0
                                       ELSE g[j - 1] + Len(s[j].ins) - (s[j].end - s[j].start)]
             moved == CHOOSE g : g = F(g)
             h == [j \in 0 .. k |-> f[j]]
  <2>1. Delta(s, i) = moved[k]
    BY DEF Delta
  <2>2. k \in Nat /\ k <= n
    BY <1>1
  <2> HIDE DEF k
  <2>3. \A j \in 0 .. k : h[j] = f[j]
    OBVIOUS
  <2>4. \A j \in 1 .. k : h[j] = h[j - 1] + Len(s[j].ins) - (s[j].end - s[j].start)
    <3> SUFFICES ASSUME NEW j \in 1 .. k
                 PROVE  h[j] = h[j - 1] + Len(s[j].ins) - (s[j].end - s[j].start)
      OBVIOUS
    <3>1. h[j] = f[j] /\ h[j - 1] = f[j - 1] /\ j \in 1 .. n /\ j - 1 \in 0 .. n
      BY <1>1, <2>2, <2>3
    <3>2. f[j - 1] \in Int
      BY <3>1
    <3> HIDE DEF h
    <3> QED
      BY <1>2, <1>6, <3>1, <3>2
  <2>5. h = F(h)
    <3>1. h[0] = 0
      BY <1>6, <2>2, <2>3
    <3>2. h = [j \in 0 .. k |-> h[j]]
      OBVIOUS
    <3>3. \A j \in 0 .. k : h[j] = IF j = 0 THEN 0
                                   ELSE h[j - 1] + Len(s[j].ins) - (s[j].end - s[j].start)
      <4> HIDE DEF h
      <4> SUFFICES ASSUME NEW j \in 0 .. k
                   PROVE  h[j] = IF j = 0 THEN 0
                                 ELSE h[j - 1] + Len(s[j].ins) - (s[j].end - s[j].start)
        OBVIOUS
      <4>1. CASE j = 0
        BY <3>1, <4>1
      <4>2. CASE j # 0
        <5>1. j \in 1 .. k
          BY <2>2, <4>2
        <5> QED
          BY <2>4, <4>2, <5>1
      <4> QED
        BY <4>1, <4>2
    <3> HIDE DEF h
    <3> QED
      BY <3>2, <3>3
  <2>6. moved = F(moved)
    <3> HIDE DEF F, h
    <3> QED
      BY <2>5
  <2> HIDE DEF moved
  <2>7. \A j \in 0 .. k : F(moved)[j] = IF j = 0 THEN 0
                            ELSE moved[j - 1] + Len(s[j].ins) - (s[j].end - s[j].start)
    OBVIOUS
  <2> HIDE DEF F
  <2>8. \A j \in 0 .. k : moved[j] = IF j = 0 THEN 0
                            ELSE moved[j - 1] + Len(s[j].ins) - (s[j].end - s[j].start)
    BY <2>6, <2>7
  <2>9. StepAlike(moved, h, k)
    <3>1. moved[0] = h[0]
      BY <1>6, <2>2, <2>3, <2>8
    <3> HIDE DEF h
    <3>2. ASSUME NEW j \in 1 .. k, moved[j - 1] = h[j - 1] PROVE moved[j] = h[j]
      <4>1. j \in 0 .. k /\ j # 0
        BY <2>2
      <4> QED
        BY <2>4, <2>8, <3>2, <4>1
    <3> QED
      BY <3>1, <3>2 DEF StepAlike
  <2>10. moved[k] = h[k]
    <3> HIDE DEF h
    <3> QED
      BY <2>2, <2>9, SameTrail
  <2>11. h[k] = f[k]
    BY <2>2
  <2> QED
    BY <2>1, <2>10, <2>11 DEF k
<1>8. Delta(s, 1) = 0
  <2>1. 1 \in 1 .. n + 1 /\ 1 - 1 = 0
    BY <1>1
  <2> QED
    BY <1>6, <1>7, <2>1
<1>9. ASSUME NEW i \in 1 .. n + 1 PROVE Delta(s, i) \in Int
  <2>1. i - 1 \in 0 .. n
    BY <1>1
  <2> QED
    BY <1>7, <2>1
<1>10. ASSUME NEW i \in 1 .. n PROVE Delta(s, i + 1) = Delta(s, i) + Grows(s[i])
  <2>1. i \in 1 .. n + 1 /\ i + 1 \in 1 .. n + 1 /\ (i + 1) - 1 = i
    BY <1>1
  <2> QED
    BY <1>6, <1>7, <2>1
<1> QED
  BY <1>8, <1>9, <1>10 DEF DeltaGoes, n

\* It depends only on by how much the changes before grow.
LEMMA DeltaSame ==
  ASSUME NEW s, NEW r, DeltaGoes(s), DeltaGoes(r), NEW k \in Nat,
         Len(s) \in Nat, Len(r) \in Nat, k <= Len(s), k <= Len(r),
         \A i \in 1 .. k : Grows(s[i]) = Grows(r[i])
  PROVE  \A i \in 1 .. k + 1 : Delta(s, i) = Delta(r, i)
<1> DEFINE T == {i \in Nat : i <= k => Delta(s, i + 1) = Delta(r, i + 1)}
<1>1. 0 \in T
  BY DEF DeltaGoes
<1>2. ASSUME NEW i \in Nat, i \in T PROVE i + 1 \in T
  <2> SUFFICES ASSUME i + 1 <= k PROVE Delta(s, i + 1 + 1) = Delta(r, i + 1 + 1)
    OBVIOUS
  <2>1. Delta(s, i + 1) = Delta(r, i + 1)
    BY <1>2
  <2>2. i + 1 \in 1 .. Len(s) /\ i + 1 \in 1 .. Len(r) /\ i + 1 \in 1 .. k
    OBVIOUS
  <2> QED
    BY <2>1, <2>2 DEF DeltaGoes
<1> HIDE DEF T
<1>3. \A i \in Nat : i \in T
  BY <1>1, <1>2, NatSteps
<1> SUFFICES ASSUME NEW i \in 1 .. k + 1 PROVE Delta(s, i) = Delta(r, i)
  OBVIOUS
<1>4. i - 1 \in Nat /\ i - 1 <= k /\ (i - 1) + 1 = i
  OBVIOUS
<1>5. i - 1 \in T
  BY <1>3, <1>4
<1> QED
  BY <1>4, <1>5 DEF T

\* What Reverse returns.
LEMMA ReverseIs ==
  ASSUME NEW D, NEW s \in Seq(D)
  PROVE  /\ Reverse(s) \in Seq(D) /\ Len(Reverse(s)) = Len(s)
         /\ \A i \in 1 .. Len(s) : Reverse(s)[i] = s[Len(s) - i + 1]
<1>1. Len(s) \in Nat
  OBVIOUS
<1>2. \A i \in 1 .. Len(s) : s[Len(s) - i + 1] \in D
  <2> SUFFICES ASSUME NEW i \in 1 .. Len(s) PROVE s[Len(s) - i + 1] \in D
    OBVIOUS
  <2>1. Len(s) - i + 1 \in 1 .. Len(s)
    BY <1>1
  <2> QED
    BY <2>1
<1> QED
  BY <1>1, <1>2 DEF Reverse

\* The last comes first.
LEMMA ReverseAppend ==
  ASSUME NEW D, NEW s \in Seq(D), NEW d \in D
  PROVE  Reverse(Append(s, d)) = <<d>> \o Reverse(s)
<1> DEFINE n == Len(s)
           a == Append(s, d)
<1>1. n \in Nat
  OBVIOUS
<1>2. /\ a \in Seq(D) /\ Len(a) = n + 1 /\ a[n + 1] = d
      /\ \A i \in 1 .. n : a[i] = s[i]
  BY AppendProperties
<1>3. /\ Reverse(s) \in Seq(D) /\ Len(Reverse(s)) = n
      /\ \A i \in 1 .. n : Reverse(s)[i] = s[n - i + 1]
  BY ReverseIs
<1> HIDE DEF n, a
<1>4. /\ Reverse(a) \in Seq(D) /\ Len(Reverse(a)) = n + 1
      /\ \A i \in 1 .. n + 1 : Reverse(a)[i] = a[(n + 1) - i + 1]
  <2>1. /\ Reverse(a) \in Seq(D) /\ Len(Reverse(a)) = Len(a)
        /\ \A i \in 1 .. Len(a) : Reverse(a)[i] = a[Len(a) - i + 1]
    BY <1>2, ReverseIs
  <2> QED
    BY <1>2, <2>1
<1> DEFINE x == Reverse(a)
           r == Reverse(s)
           one == <<d>>
<1>5. one \in Seq(D) /\ Len(one) = 1 /\ one[1] = d
  OBVIOUS
<1> HIDE DEF x, r, one
<1>6. /\ one \o r \in Seq(D) /\ Len(one \o r) = n + 1
      /\ \A i \in 1 .. n + 1 : (one \o r)[i] = IF i <= 1 THEN one[i] ELSE r[i - 1]
  <2>1. r \in Seq(D) /\ Len(r) = n
    BY <1>3 DEF r
  <2>2. /\ one \o r \in Seq(D) /\ Len(one \o r) = Len(one) + Len(r)
        /\ \A i \in 1 .. Len(one) + Len(r) : (one \o r)[i] = IF i <= Len(one) THEN one[i] ELSE r[i - Len(one)]
    BY <1>5, <2>1, ConcatProperties
  <2>3. 1 + n = n + 1
    BY <1>1
  <2> QED
    BY <1>5, <2>1, <2>2, <2>3
<1>7. ASSUME NEW i \in 1 .. n + 1 PROVE x[i] = (one \o r)[i]
  <2>1. CASE i = 1
    <3>1. (n + 1) - i + 1 = n + 1 /\ i <= 1
      BY <1>1, <2>1
    <3>2. x[i] = d
      BY <1>2, <1>4, <3>1 DEF x
    <3>3. (one \o r)[i] = d
      BY <1>5, <1>6, <2>1, <3>1
    <3> QED
      BY <3>2, <3>3
  <2>2. CASE i # 1
    <3>1. i - 1 \in 1 .. n /\ (n + 1) - i + 1 = n - (i - 1) + 1 /\ ~(i <= 1) /\ n - (i - 1) + 1 \in 1 .. n
      BY <1>1, <2>2
    <3>2. x[i] = s[n - (i - 1) + 1]
      BY <1>2, <1>4, <3>1 DEF x
    <3>3. (one \o r)[i] = r[i - 1]
      BY <1>6, <3>1
    <3>4. r[i - 1] = s[n - (i - 1) + 1]
      BY <1>3, <3>1 DEF r
    <3> QED
      BY <3>2, <3>3, <3>4
  <2> QED
    BY <2>1, <2>2
<1>8. x \in Seq(D) /\ Len(x) = n + 1
  BY <1>4 DEF x
<1>9. x = one \o r
  BY <1>6, <1>7, <1>8, SeqEqual
<1> QED
  BY <1>9 DEF x, one, r, a

\* Changes one behind the other, within a text of length n.
Fits(cs, n) ==
  \A i \in 1 .. Len(cs) :
    /\ cs[i].start <= cs[i].end /\ cs[i].end <= n
    /\ \A j \in 1 .. i - 1 : cs[j].end <= cs[i].start

\* The inverse of such changes.
Back(t, cs) ==
  [i \in DOMAIN cs |->
     Change(cs[i].start + Delta(cs, i), cs[i].start + Delta(cs, i) + Len(cs[i].ins),
            SubSeq(t, cs[i].start + 1, cs[i].end))]

\* What stands in `u' where the changes are taken back.
PutIn(cs, back, u) ==
  \A i \in 1 .. Len(cs) : SubSeq(u, back[i].start + 1, back[i].end) = cs[i].ins

\* Buffer::apply of `cs' goes from `t' to `u', and what Inverted returns
\* goes back.
Restores(C, t, cs, u) ==
  /\ Leads(C, t, Reverse(cs), u)
  /\ Leads(C, u, Reverse(Back(t, cs)), t)
  /\ Back(t, cs) \in Seq(ChangesOf(C))
  /\ Fits(Back(t, cs), Len(u))
  /\ Len(u) = Len(t) + Delta(cs, Len(cs) + 1)
  /\ PutIn(cs, Back(t, cs), u)

\* Changes are ranges with a text.
LEMMA ChangesChange ==
  ASSUME NEW C
  PROVE  Changing(ChangesOf(C), C) /\ Ranges(ChangesOf(C))
BY DEF Changing, ChangesOf, Ranges

\* A transaction with one change more fits when that change lies behind the
\* others.
LEMMA FitsAppend ==
  ASSUME NEW D, NEW ds \in Seq(D), NEW c \in D, NEW n
  PROVE  Fits(Append(ds, c), n) <=>
           /\ Fits(ds, n)
           /\ c.start <= c.end /\ c.end <= n
           /\ \A j \in 1 .. Len(ds) : ds[j].end <= c.start
<1> DEFINE k == Len(ds)
           cs == Append(ds, c)
<1>1. k \in Nat
  OBVIOUS
<1>2. /\ Len(cs) = k + 1 /\ cs[k + 1] = c
      /\ \A i \in 1 .. k : cs[i] = ds[i]
  BY AppendProperties
<1> HIDE DEF k, cs
<1>3. Fits(cs, n) <=> \A i \in 1 .. k + 1 :
                         /\ cs[i].start <= cs[i].end /\ cs[i].end <= n
                         /\ \A j \in 1 .. i - 1 : cs[j].end <= cs[i].start
  BY <1>2 DEF Fits
<1>4. ASSUME Fits(cs, n)
      PROVE  /\ Fits(ds, n) /\ c.start <= c.end /\ c.end <= n
             /\ \A j \in 1 .. k : ds[j].end <= c.start
  <2>1. k + 1 \in 1 .. k + 1 /\ (k + 1) - 1 = k
    BY <1>1
  <2>2. c.start <= c.end /\ c.end <= n /\ \A j \in 1 .. k : cs[j].end <= c.start
    BY <1>2, <1>3, <1>4, <2>1
  <2>3. ASSUME NEW i \in 1 .. k
        PROVE  /\ ds[i].start <= ds[i].end /\ ds[i].end <= n
               /\ \A j \in 1 .. i - 1 : ds[j].end <= ds[i].start
    <3>1. i \in 1 .. k + 1 /\ \A j \in 1 .. i - 1 : j \in 1 .. k
      BY <1>1
    <3> QED
      BY <1>2, <1>3, <1>4, <3>1
  <2> QED
    BY <1>2, <2>2, <2>3 DEF Fits, k
<1>5. ASSUME Fits(ds, n), c.start <= c.end, c.end <= n,
             \A j \in 1 .. k : ds[j].end <= c.start
      PROVE  Fits(cs, n)
  <2> SUFFICES ASSUME NEW i \in 1 .. k + 1
               PROVE  /\ cs[i].start <= cs[i].end /\ cs[i].end <= n
                      /\ \A j \in 1 .. i - 1 : cs[j].end <= cs[i].start
    BY <1>3
  <2>1. CASE i = k + 1
    BY <1>1, <1>2, <1>5, <2>1
  <2>2. CASE i # k + 1
    <3>1. i \in 1 .. k /\ \A j \in 1 .. i - 1 : j \in 1 .. k
      BY <1>1, <2>2
    <3> QED
      BY <1>2, <1>5, <3>1 DEF Fits, k
  <2> QED
    BY <2>1, <2>2
<1> QED
  BY <1>4, <1>5 DEF k, cs

\* A part within the left of two texts, from position m on.
LEMMA PartWithinLeft ==
  ASSUME NEW C, NEW a \in Seq(C), NEW b \in Seq(C), NEW m \in Nat, NEW n \in Nat, n <= Len(a)
  PROVE  SubSeq(a \o b, m + 1, n) = SubSeq(a, m + 1, n)
<1>1. m + 1 \in Nat \ {0}
  OBVIOUS
<1> QED
  BY <1>1, PartOfLeft

\* The inverse of one more change.
LEMMA BackAppend ==
  ASSUME NEW C, NEW t \in Seq(C), NEW ds \in Seq(ChangesOf(C)), NEW c \in ChangesOf(C),
         Fits(Append(ds, c), Len(t))
  PROVE  LET t0 == SubSeq(t, 1, c.start)
             at == c.start + Delta(ds, Len(ds) + 1)
         IN  Back(t, Append(ds, c)) =
               Append(Back(t0, ds), Change(at, at + Len(c.ins), SubSeq(t, c.start + 1, c.end)))
<1> DEFINE k == Len(ds)
           cs == Append(ds, c)
           t0 == SubSeq(t, 1, c.start)
           at == c.start + Delta(ds, k + 1)
           d == Change(at, at + Len(c.ins), SubSeq(t, c.start + 1, c.end))
<1>0. Changing(ChangesOf(C), C)
  BY ChangesChange
<1>1. k \in Nat /\ DOMAIN ds = 1 .. k
  OBVIOUS
<1>2. /\ cs \in Seq(ChangesOf(C)) /\ Len(cs) = k + 1 /\ cs[k + 1] = c
      /\ \A i \in 1 .. k : cs[i] = ds[i]
  BY AppendProperties
<1>3. DOMAIN cs = 1 .. k + 1
  BY <1>2
<1> HIDE DEF cs
<1>4. DeltaGoes(cs) /\ DeltaGoes(ds)
  BY <1>0, <1>2, DeltaIs
<1>5. \A i \in 1 .. k + 1 : Delta(cs, i) = Delta(ds, i)
  <2>1. Len(cs) \in Nat /\ Len(ds) \in Nat /\ k <= Len(cs) /\ k <= Len(ds)
    BY <1>1, <1>2
  <2> HIDE DEF k
  <2> QED
    BY <1>1, <1>2, <1>4, <2>1, DeltaSame
<1>6. ASSUME NEW i \in 1 .. k
      PROVE  /\ ds[i].start \in Nat /\ ds[i].end \in Nat /\ ds[i].end <= c.start
             /\ c.start \in Nat /\ c.start <= Len(t)
  <2>1. ds[i] \in ChangesOf(C)
    OBVIOUS
  <2>2. c.start <= c.end /\ c.end <= Len(t) /\ ds[i].end <= c.start
    BY FitsAppend
  <2>3. Len(t) \in Nat
    OBVIOUS
  <2> QED
    BY <2>1, <2>2, <2>3, SMTT(30) DEF ChangesOf
<1>7. ASSUME NEW i \in 1 .. k
      PROVE  SubSeq(t, ds[i].start + 1, ds[i].end) = SubSeq(t0, ds[i].start + 1, ds[i].end)
  <2> DEFINE w == SubSeq(t, c.start + 1, Len(t))
  <2>1. c.start \in 0 .. Len(t)
    BY <1>6, Len(t) \in Nat
  <2>2. t0 \in Seq(C) /\ w \in Seq(C) /\ t0 \o w = t /\ Len(t0) = c.start
    BY <2>1, CutInTwo
  <2> HIDE DEF t0, w
  <2> DEFINE m == ds[i].start
             n == ds[i].end
  <2>3. m \in Nat /\ n \in Nat /\ n <= Len(t0)
    BY <1>6, <2>2
  <2> HIDE DEF m, n
  <2>4. SubSeq(t0 \o w, m + 1, n) = SubSeq(t0, m + 1, n)
    BY <2>2, <2>3, PartWithinLeft
  <2> QED
    BY <2>2, <2>4 DEF m, n
<1> DEFINE I == {SubSeq(t, x.start + 1, x.end) : x \in ChangesOf(C)}
                  \cup {SubSeq(t0, x.start + 1, x.end) : x \in ChangesOf(C)}
           D == [start : Int, end : Int, ins : I]
<1>8. /\ Back(t0, ds) \in Seq(D) /\ Len(Back(t0, ds)) = k
      /\ \A i \in 1 .. k : Back(t0, ds)[i] =
           Change(ds[i].start + Delta(ds, i), ds[i].start + Delta(ds, i) + Len(ds[i].ins),
                  SubSeq(t0, ds[i].start + 1, ds[i].end))
  <2>1. ASSUME NEW i \in 1 .. k
        PROVE  Change(ds[i].start + Delta(ds, i), ds[i].start + Delta(ds, i) + Len(ds[i].ins),
                  SubSeq(t0, ds[i].start + 1, ds[i].end)) \in D
    <3>1. ds[i] \in ChangesOf(C) /\ i \in 1 .. Len(ds) + 1
      BY <1>1
    <3>2. ds[i].start \in Nat /\ ds[i].ins \in Seq(C)
      BY <3>1 DEF ChangesOf
    <3>3. Len(ds[i].ins) \in Nat /\ Delta(ds, i) \in Int
      BY <1>4, <3>1, <3>2 DEF DeltaGoes
    <3> HIDE DEF t0
    <3>4. SubSeq(t0, ds[i].start + 1, ds[i].end) \in I
      BY <3>1
    <3> HIDE DEF I
    <3> QED
      BY <3>2, <3>3, <3>4 DEF Change
  <2> HIDE DEF D, t0
  <2> QED
    BY <1>1, <2>1 DEF Back
<1>9. d \in D
  <2>1. Delta(ds, k + 1) \in Int
    <3>1. k + 1 \in 1 .. Len(ds) + 1
      BY <1>1
    <3> QED
      BY <1>4, <3>1 DEF DeltaGoes
  <2>2. c.start \in Nat /\ Len(c.ins) \in Nat
    BY DEF ChangesOf
  <2> HIDE DEF k, t0
  <2>3. SubSeq(t, c.start + 1, c.end) \in I
    OBVIOUS
  <2> HIDE DEF I
  <2> QED
    BY <2>1, <2>2, <2>3 DEF Change
<1> HIDE DEF D
<1> DEFINE b == Append(Back(t0, ds), d)
<1>10. /\ b \in Seq(D) /\ Len(b) = k + 1 /\ b[k + 1] = d
       /\ \A i \in 1 .. k : b[i] = Back(t0, ds)[i]
  <2> HIDE DEF d, k
  <2> QED
    BY <1>8, <1>9, AppendProperties
<1>11. Back(t, cs) = [i \in 1 .. k + 1 |->
          Change(cs[i].start + Delta(cs, i), cs[i].start + Delta(cs, i) + Len(cs[i].ins),
            SubSeq(t, cs[i].start + 1, cs[i].end))]
  BY <1>3 DEF Back
<1>12. ASSUME NEW i \in 1 .. k + 1 PROVE Back(t, cs)[i] = b[i]
  <2>1. Back(t, cs)[i] = Change(cs[i].start + Delta(cs, i), cs[i].start + Delta(cs, i) + Len(cs[i].ins),
            SubSeq(t, cs[i].start + 1, cs[i].end))
    BY <1>11
  <2>2. CASE i \in 1 .. k
    <3>1. cs[i] = ds[i] /\ Delta(cs, i) = Delta(ds, i)
      BY <1>1, <1>2, <1>5, <2>2
    <3>2. b[i] = Back(t0, ds)[i]
      BY <1>10, <2>2
    <3> HIDE DEF b, t0, k, at, d
    <3> QED
      BY <1>7, <1>8, <2>1, <2>2, <3>1, <3>2
  <2>3. CASE i \notin 1 .. k
    <3>1. i = k + 1
      BY <1>1, <2>3
    <3>2. cs[i] = c /\ Delta(cs, i) = Delta(ds, k + 1) /\ b[i] = d
      BY <1>2, <1>5, <1>10, <3>1
    <3> HIDE DEF b, k
    <3> QED
      BY <2>1, <3>2
  <2> QED
    BY <2>2, <2>3
<1>13. Back(t, cs) = b
  <2>1. b = [i \in 1 .. k + 1 |-> b[i]]
    BY <1>10
  <2>2. Back(t, cs) = [i \in 1 .. k + 1 |-> Back(t, cs)[i]]
    BY <1>11
  <2> HIDE DEF b
  <2> QED
    BY <1>12, <2>1, <2>2
<1> QED
  BY <1>13 DEF cs

\* The step of the induction: a transaction on the text up to a change, and
\* then that change.
LEMMA RestoresAppend ==
  ASSUME NEW C, NEW t \in Seq(C), NEW ds \in Seq(ChangesOf(C)), NEW c \in ChangesOf(C),
         Fits(Append(ds, c), Len(t)), NEW u0 \in Seq(C),
         Restores(C, SubSeq(t, 1, c.start), ds, u0)
  PROVE  \E u \in Seq(C) : Restores(C, t, Append(ds, c), u)
<1> DEFINE k == Len(ds)
           cs == Append(ds, c)
           t0 == SubSeq(t, 1, c.start)
           mid == SubSeq(t, c.start + 1, c.end)
           tail == SubSeq(t, c.end + 1, Len(t))
           w == SubSeq(t, c.start + 1, Len(t))
           ins == c.ins
           start == c.start
           end == c.end
           x == ins \o tail
           u == u0 \o x
           at == start + Delta(ds, k + 1)
           d == Change(at, at + Len(ins), mid)
           b0 == Back(t0, ds)
           b == Append(b0, d)
\* What the parts are.
<1>1. /\ start \in Nat /\ end \in Nat /\ ins \in Seq(C) /\ start <= end /\ end <= Len(t)
      /\ Len(t) \in Nat /\ k \in Nat /\ Len(ins) \in Nat
  <2>1. c.start <= c.end /\ c.end <= Len(t)
    BY FitsAppend
  <2>2. c.start \in Nat /\ c.end \in Nat /\ c.ins \in Seq(C)
    BY DEF ChangesOf
  <2>3. Len(c.ins) \in Nat
    BY <2>2
  <2> QED
    BY <2>1, <2>2, <2>3
<1>2. t0 \in Seq(C) /\ Len(t0) = start /\ w \in Seq(C) /\ Len(w) = Len(t) - start /\ t0 \o w = t
  <2>1. c.start \in 0 .. Len(t)
    BY <1>1
  <2> QED
    BY <2>1, CutInTwo
<1>3. tail \in Seq(C) /\ Len(tail) = Len(t) - end
  <2>1. c.end \in 0 .. Len(t)
    BY <1>1
  <2> QED
    BY <2>1, CutInTwo
<1>4. mid \in Seq(C) /\ mid \o tail = w
  <2>1. mid \in Seq(C)
    BY <1>1, PartOfText
  <2>2. /\ start + 1 \in 1 .. Len(t) + 1 /\ end \in (start + 1) - 1 .. Len(t)
        /\ Len(t) \in end .. Len(t)
    BY <1>1
  <2>3. SubSeq(t, start + 1, end) \o SubSeq(t, end + 1, Len(t)) = SubSeq(t, start + 1, Len(t))
    <3> HIDE DEF start, end
    <3> QED
      BY <2>2, ConcatAdjacentSubSeq
  <2> QED
    BY <2>1, <2>3
<1>5. /\ Leads(C, t0, Reverse(ds), u0)
      /\ Leads(C, u0, Reverse(b0), t0)
      /\ b0 \in Seq(ChangesOf(C))
      /\ Fits(b0, Len(u0))
      /\ Len(u0) = Len(t0) + Delta(ds, k + 1)
      /\ PutIn(ds, b0, u0)
  BY DEF Restores
<1>6. /\ InPlace(t, c) /\ Replaced(t, c) = t0 \o x
  <2>1. InPlace(t, c)
    BY <1>1 DEF InPlace
  <2> QED
    BY <2>1, ReplacedIs
<1>7. Back(t, cs) = b
  BY BackAppend
<1>8. /\ cs \in Seq(ChangesOf(C)) /\ Len(cs) = k + 1 /\ cs[k + 1] = c
      /\ \A i \in 1 .. k : cs[i] = ds[i]
      /\ Reverse(cs) = <<c>> \o Reverse(ds)
  BY AppendProperties, ReverseAppend
<1>9. at = Len(u0) /\ Len(u0) \in Nat
  BY <1>2, <1>5
<1>10. d \in ChangesOf(C) /\ d.start = Len(u0) /\ d.end = Len(u0) + Len(ins) /\ d.ins = mid
  <2>1. d = Change(Len(u0), Len(u0) + Len(ins), mid)
    BY <1>9
  <2> HIDE DEF mid, ins, d
  <2> QED
    BY <1>1, <1>4, <1>9, <2>1 DEF Change, ChangesOf
<1>11. c = [start |-> start, end |-> end, ins |-> ins]
  BY DEF ChangesOf
<1>12. Len(cs) = k + 1 /\ Delta(cs, Len(cs) + 1) = Delta(ds, k + 1) + Len(ins) - (end - start)
  <2>0. DeltaGoes(cs) /\ DeltaGoes(ds)
    BY <1>8, ChangesChange, DeltaIs
  <2>1. Len(cs) \in Nat /\ k <= Len(cs) /\ k <= Len(ds) /\ Len(ds) \in Nat
    BY <1>1, <1>8
  <2> HIDE DEF cs, k
  <2>2. Delta(cs, k + 1) = Delta(ds, k + 1)
    <3>0. \A i \in 1 .. k : Grows(cs[i]) = Grows(ds[i])
      BY <1>8
    <3>1. \A i \in 1 .. k + 1 : Delta(cs, i) = Delta(ds, i)
      BY <1>1, <1>8, <2>0, <2>1, <3>0, DeltaSame
    <3> QED
      BY <1>1, <3>1
  <2>3. k + 1 \in 1 .. Len(cs) + 1 /\ k + 1 \in 1 .. Len(cs)
    BY <1>1, <1>8
  <2>4. Delta(cs, k + 1 + 1) = Delta(cs, k + 1) + Grows(c) /\ Delta(cs, k + 1) \in Int
    BY <1>8, <2>0, <2>3 DEF DeltaGoes
  <2> QED
    BY <1>1, <1>8, <2>2, <2>4 DEF Grows
<1> HIDE DEF k, cs, t0, mid, tail, w, ins, start, end, at, d, b0
<1>13. x \in Seq(C) /\ Len(x) = Len(ins) + Len(tail)
  BY <1>1, <1>3, ConcatProperties
<1>14. u \in Seq(C) /\ Len(u) = Len(u0) + Len(x)
  BY <1>13, ConcatProperties
\* Forwards: the last change first, then the others, before what it left.
<1>15. Leads(C, t, Reverse(cs), u)
  <2>1. Leads(C, t, <<c>>, t0 \o x)
    BY <1>6, LeadsOnce
  <2>2. Reverse(ds) \in Seq(ChangesOf(C)) /\ <<c>> \in Seq(ChangesOf(C))
    BY ReverseIs
  <2>3. Leads(C, t0 \o x, Reverse(ds), u)
    BY <1>5, <1>13, <2>2, LeadsBeside
  <2>4. Leads(C, t, <<c>> \o Reverse(ds), u)
    <3> HIDE DEF u, x
    <3> QED
      BY <2>1, <2>2, <2>3, LeadsOn
  <2> QED
    BY <1>8, <2>4
\* Backwards in the same way.
<1>16. InPlace(u, d) /\ Replaced(u, d) = u0 \o w
  <2>1. d.end <= Len(u) /\ d.start <= d.end
    <3>1. Len(tail) \in Nat
      BY <1>3
    <3> QED
      BY <1>1, <1>9, <1>10, <1>13, <1>14, <3>1
  <2>2. InPlace(u, d)
    BY <2>1 DEF InPlace
  <2>3. Replaced(u, d) = SubSeq(u, 1, d.start) \o (d.ins \o SubSeq(u, d.end + 1, Len(u)))
    <3> HIDE DEF u
    <3> QED
      BY <1>10, <1>14, <2>2, ReplacedIs
  <2>4. SubSeq(u, 1, Len(u0)) = u0
    BY <1>13, BothParts
  <2>5. SubSeq(u, Len(u0) + Len(ins) + 1, Len(u)) = tail
    <3> DEFINE v == u0 \o ins
    <3>1. v \in Seq(C) /\ Len(v) = Len(u0) + Len(ins)
      BY <1>1, ConcatProperties
    <3>2. u = v \o tail
      <4>1. u0 \in Seq(C) /\ ins \in Seq(C) /\ tail \in Seq(C)
        BY <1>1, <1>3
      <4>2. (u0 \o ins) \o tail = u0 \o (ins \o tail)
        BY <4>1, ConcatAssociative, SMTT(30)
      <4> QED
        BY <4>2
    <3> HIDE DEF v, u
    <3>3. SubSeq(v \o tail, Len(v) + 1, Len(v \o tail)) = tail
      BY <1>3, <3>1, BothParts
    <3> QED
      BY <3>1, <3>2, <3>3
  <2> HIDE DEF u
  <2>6. Replaced(u, d) = u0 \o (mid \o tail)
    BY <1>10, <2>3, <2>4, <2>5
  <2> QED
    BY <1>4, <2>2, <2>6
<1>17. Leads(C, u, Reverse(b), t)
  <2> HIDE DEF u, x
  <2>1. Leads(C, u, <<d>>, u0 \o w)
    BY <1>10, <1>14, <1>16, LeadsOnce
  <2>2. Reverse(b0) \in Seq(ChangesOf(C)) /\ <<d>> \in Seq(ChangesOf(C))
    BY <1>5, <1>10, ReverseIs
  <2>3. Leads(C, u0 \o w, Reverse(b0), t0 \o w)
    BY <1>2, <1>5, <2>2, LeadsBeside
  <2>4. Leads(C, u0 \o w, Reverse(b0), t)
    BY <1>2, <2>3
  <2>5. Leads(C, u, <<d>> \o Reverse(b0), t)
    BY <2>1, <2>2, <2>4, LeadsOn
  <2> QED
    BY <1>5, <1>10, <2>5, ReverseAppend
<1>18. b \in Seq(ChangesOf(C))
  BY <1>5, <1>10
<1>19. Len(b0) = k
  <2>1. DOMAIN b0 = 1 .. k
    BY DEF b0, Back, k
  <2>2. Len(b0) \in Nat /\ DOMAIN b0 = 1 .. Len(b0)
    BY <1>5
  <2> QED
    BY <1>1, <2>1, <2>2
<1>20. Fits(b, Len(u))
  <2> HIDE DEF u, b, x
  <2>1. Len(u0) <= Len(u) /\ Len(u) \in Nat /\ d.start <= d.end /\ d.end <= Len(u)
    <3>1. Len(x) \in Nat /\ Len(tail) \in Nat
      BY <1>3, <1>13
    <3> QED
      BY <1>1, <1>9, <1>10, <1>13, <1>14, <3>1
  <2>2. ASSUME NEW j \in 1 .. k
        PROVE  /\ b0[j].start <= b0[j].end /\ b0[j].end <= Len(u) /\ b0[j].end <= d.start
               /\ \A i \in 1 .. j - 1 : b0[i].end <= b0[j].start
    <3>1. b0[j].end <= Len(u0) /\ b0[j].start <= b0[j].end
      BY <1>5, <1>19 DEF Fits
    <3>2. b0[j] \in ChangesOf(C)
      BY <1>5, <1>19
    <3>3. b0[j].end \in Nat
      BY <3>2 DEF ChangesOf
    <3> QED
      BY <1>5, <1>9, <1>10, <1>19, <2>1, <3>1, <3>3 DEF Fits
  <2>3. Fits(b0, Len(u))
    BY <1>19, <2>2 DEF Fits
  <2>4. Fits(Append(b0, d), Len(u))
    BY <1>5, <1>10, <1>19, <2>1, <2>2, <2>3, FitsAppend
  <2> QED
    BY <2>4 DEF b
<1>21. Len(u) = Len(t) + Delta(cs, Len(cs) + 1)
  <2>1. Delta(ds, k + 1) = Len(u0) - Len(t0)
    <3>1. Delta(ds, k + 1) \in Int
      <4>1. DeltaGoes(ds) /\ k + 1 \in 1 .. Len(ds) + 1
        BY <1>1, ChangesChange, DeltaIs DEF k
      <4> QED
        BY <4>1 DEF DeltaGoes
    <3> QED
      BY <1>1, <1>2, <1>5, <1>9, <3>1
  <2> HIDE DEF u, x
  <2> QED
    BY <1>1, <1>2, <1>3, <1>9, <1>12, <1>13, <1>14, <2>1, SMTT(30)
<1>22. PutIn(cs, b, u)
  <2>1. /\ b[k + 1] = d /\ \A i \in 1 .. k : b[i] = b0[i]
    BY <1>5, <1>10, <1>19, AppendProperties
  <2> HIDE DEF b
  <2>2. ASSUME NEW i \in 1 .. k
        PROVE  SubSeq(u, b[i].start + 1, b[i].end) = cs[i].ins
    <3> DEFINE m == b0[i].start
               n == b0[i].end
    <3>1. b0[i] \in ChangesOf(C) /\ b0[i].end <= Len(u0)
      BY <1>5, <1>19 DEF Fits
    <3>2. m \in Nat /\ n \in Nat /\ n <= Len(u0)
      BY <3>1 DEF ChangesOf
    <3>3. SubSeq(u0, m + 1, n) = ds[i].ins
      BY <1>5 DEF PutIn, k
    <3> HIDE DEF m, n, x
    <3>4. SubSeq(u0 \o x, m + 1, n) = SubSeq(u0, m + 1, n)
      BY <1>13, <3>2, PartWithinLeft
    <3> HIDE DEF u
    <3> QED
      BY <1>8, <2>1, <3>3, <3>4 DEF m, n, u
  <2>3. SubSeq(u, d.start + 1, d.end) = ins
    <3> DEFINE v == u0 \o ins
    <3>1. v \in Seq(C) /\ Len(v) = Len(u0) + Len(ins)
      BY <1>1, ConcatProperties
    <3>2. u = v \o tail
      <4>1. u0 \in Seq(C) /\ ins \in Seq(C) /\ tail \in Seq(C)
        BY <1>1, <1>3
      <4>2. (u0 \o ins) \o tail = u0 \o (ins \o tail)
        BY <4>1, ConcatAssociative, SMTT(30)
      <4> QED
        BY <4>2
    <3>3. SubSeq(v, Len(u0) + 1, Len(v)) = ins
      BY <1>1, BothParts
    <3> HIDE DEF v, u
    <3>4. SubSeq(v \o tail, Len(u0) + 1, Len(v)) = SubSeq(v, Len(u0) + 1, Len(v))
      <4>1. Len(v) \in Nat
        BY <1>1, <1>9, <3>1
      <4> QED
        BY <1>3, <1>9, <3>1, <4>1, PartWithinLeft
    <3> QED
      BY <1>10, <3>1, <3>2, <3>3, <3>4
  <2>4. cs[k + 1].ins = ins
    BY <1>8 DEF ins
  <2> HIDE DEF u
  <2> SUFFICES ASSUME NEW i \in 1 .. k + 1
               PROVE  SubSeq(u, b[i].start + 1, b[i].end) = cs[i].ins
    BY <1>8 DEF PutIn
  <2>5. CASE i = k + 1
    BY <2>1, <2>3, <2>4, <2>5
  <2>6. CASE i # k + 1
    <3>1. i \in 1 .. k
      BY <1>1, <2>6
    <3> QED
      BY <2>2, <3>1
  <2> QED
    BY <2>5, <2>6
<1> HIDE DEF u, b
<1>23. Restores(C, t, cs, u)
  BY <1>7, <1>15, <1>17, <1>18, <1>20, <1>21, <1>22 DEF Restores
<1> QED
  BY <1>14, <1>23 DEF cs

\* Changes that fit lead to a text from which their inverse leads back.
LEMMA FittingRestores ==
  ASSUME NEW C, NEW t \in Seq(C), NEW cs \in Seq(ChangesOf(C)), Fits(cs, Len(t))
  PROVE  \E u \in Seq(C) : Restores(C, t, cs, u)
<1> DEFINE P(a, es) == Fits(es, Len(a)) => \E u \in Seq(C) : Restores(C, a, es, u)
           T == {k \in Nat : \A a \in Seq(C), es \in Seq(ChangesOf(C)) : Len(es) = k => P(a, es)}
<1>1. ASSUME NEW a \in Seq(C), NEW es \in Seq(ChangesOf(C)), Len(es) = 0 PROVE P(a, es)
  <2>1. es = <<>>
    BY <1>1
  <2>2. Back(a, <<>>) = <<>> /\ Reverse(<<>>) = <<>>
    BY DEF Back, Reverse
  <2>3. Leads(C, a, <<>>, a)
    BY LeadsNowhere
  <2>4. Delta(<<>>, Len(<<>>) + 1) = 0
    <3>1. <<>> \in Seq(ChangesOf(C)) /\ Len(<<>>) = 0
      OBVIOUS
    <3>2. DeltaGoes(<<>>)
      BY <3>1, ChangesChange, DeltaIs
    <3> QED
      BY <3>1, <3>2 DEF DeltaGoes
  <2>5. Fits(<<>>, Len(a)) /\ PutIn(<<>>, <<>>, a)
    BY DEF Fits, PutIn
  <2>6. Restores(C, a, <<>>, a)
    <3>1. <<>> \in Seq(ChangesOf(C)) /\ Len(a) \in Nat
      OBVIOUS
    <3>2. Len(a) = Len(a) + Delta(<<>>, Len(<<>>) + 1)
      BY <2>4, <3>1
    <3>3. /\ Leads(C, a, Reverse(<<>>), a) /\ Leads(C, a, Reverse(Back(a, <<>>)), a)
          /\ Back(a, <<>>) \in Seq(ChangesOf(C)) /\ Fits(Back(a, <<>>), Len(a))
          /\ PutIn(<<>>, Back(a, <<>>), a)
      BY <2>2, <2>3, <2>5, <3>1
    <3> QED
      BY <3>2, <3>3 DEF Restores
  <2> QED
    BY <2>1, <2>6
<1>2. ASSUME NEW k \in Nat, k \in T, NEW a \in Seq(C), NEW es \in Seq(ChangesOf(C)), Len(es) = k + 1
      PROVE  P(a, es)
  <2> SUFFICES ASSUME Fits(es, Len(a)) PROVE \E u \in Seq(C) : Restores(C, a, es, u)
    OBVIOUS
  <2>1. es # <<>>
    BY <1>2
  <2>2. PICK ds \in Seq(ChangesOf(C)), c \in ChangesOf(C) : es = Append(ds, c)
    BY <2>1, SequenceEmptyOrAppend
  <2>3. Len(ds) = k
    <3>1. Len(es) = Len(ds) + 1 /\ Len(ds) \in Nat
      BY <2>2, AppendProperties
    <3> QED
      BY <1>2, <3>1
  <2>4. /\ Fits(ds, Len(a)) /\ c.start <= c.end /\ c.end <= Len(a)
        /\ \A j \in 1 .. Len(ds) : ds[j].end <= c.start
    BY <2>2, FitsAppend
  <2> DEFINE a0 == SubSeq(a, 1, c.start)
  <2>5. a0 \in Seq(C) /\ Len(a0) = c.start
    <3>1. c.start \in 0 .. Len(a)
      BY <2>4, Len(a) \in Nat DEF ChangesOf
    <3> QED
      BY <3>1, CutInTwo
  <2>6. Fits(ds, Len(a0))
    BY <2>4, <2>5 DEF Fits
  <2> HIDE DEF a0, P
  <2>7. P(a0, ds)
    BY <1>2, <2>3, <2>5
  <2>8. PICK u0 \in Seq(C) : Restores(C, a0, ds, u0)
    BY <2>6, <2>7 DEF P
  <2>9. Fits(Append(ds, c), Len(a))
    BY <2>2
  <2>10. \E u \in Seq(C) : Restores(C, a, Append(ds, c), u)
    BY <2>8, <2>9, RestoresAppend DEF a0
  <2> QED
    BY <2>2, <2>10
<1> HIDE DEF P
<1>3. 0 \in T
  BY <1>1
<1>4. \A k \in Nat : k \in T => k + 1 \in T
  <2> SUFFICES ASSUME NEW k \in Nat, k \in T PROVE k + 1 \in T
    OBVIOUS
  <2>1. \A a \in Seq(C), es \in Seq(ChangesOf(C)) : Len(es) = k + 1 => P(a, es)
    <3> HIDE DEF T
    <3> QED
      BY <1>2
  <2> QED
    BY <2>1
<1> HIDE DEF T
<1>5. Len(cs) \in T
  BY <1>3, <1>4, NatSteps, Len(cs) \in Nat
<1>6. P(t, cs)
  BY <1>5 DEF T
<1> QED
  BY <1>6 DEF P

(***************************************************************************)
(* The journal                                                             *)
(***************************************************************************)
\* Changes none of which starts before an earlier one.
Mounts(cs) == \A i, j \in 1 .. Len(cs) : i < j => cs[i].start <= cs[j].start

\* Changes that all lie in a text.
AllIn(t, cs) == \A i \in 1 .. Len(cs) : InPlace(t, cs[i])

\* The parts of a change have their types.
LEMMA ChangeTypes ==
  ASSUME NEW C, NEW cs \in Seq(ChangesOf(C))
  PROVE  /\ Len(cs) \in Nat
         /\ \A i \in 1 .. Len(cs) : /\ cs[i] \in ChangesOf(C) /\ cs[i].start \in Nat
                                    /\ cs[i].end \in Nat /\ cs[i].ins \in Seq(C)
                                    /\ Len(cs[i].ins) \in Nat
<1>1. Len(cs) \in Nat
  OBVIOUS
<1>2. ASSUME NEW i \in 1 .. Len(cs)
      PROVE  /\ cs[i] \in ChangesOf(C) /\ cs[i].start \in Nat
             /\ cs[i].end \in Nat /\ cs[i].ins \in Seq(C) /\ Len(cs[i].ins) \in Nat
  <2>1. cs[i] \in ChangesOf(C)
    BY <1>2
  <2>2. cs[i].start \in Nat /\ cs[i].end \in Nat /\ cs[i].ins \in Seq(C)
    BY <2>1 DEF ChangesOf
  <2> QED
    BY <2>1, <2>2
<1> QED
  BY <1>1, <1>2

\* Neighbours that do not overlap are enough.
LEMMA FitsIf ==
  ASSUME NEW C, NEW t \in Seq(C), NEW cs \in Seq(ChangesOf(C)),
         AllIn(t, cs), Mounts(cs), ~Overlapping(cs)
  PROVE  Fits(cs, Len(t))
<1>1. /\ Len(cs) \in Nat
      /\ \A i \in 1 .. Len(cs) : cs[i].start \in Nat /\ cs[i].end \in Nat
  BY ChangeTypes
<1>2. \A i \in 1 .. Len(cs) : cs[i].start <= cs[i].end /\ cs[i].end <= Len(t)
  BY DEF AllIn, InPlace
<1>3. ASSUME NEW i \in 2 .. Len(cs) PROVE cs[i - 1].end <= cs[i].start
  <2>1. i - 1 \in 1 .. Len(cs) /\ i \in 1 .. Len(cs) /\ i - 1 < i
    BY <1>1
  <2>2. cs[i - 1].start <= cs[i].start
    BY <2>1 DEF Mounts
  <2>3. CASE Empty(cs[i - 1])
    BY <1>1, <2>1, <2>2, <2>3 DEF Empty
  <2>4. CASE ~Empty(cs[i - 1])
    <3>1. ~(cs[i].start < cs[i - 1].end)
      BY <2>4 DEF Overlapping
    <3> QED
      BY <1>1, <2>1, <3>1
  <2> QED
    BY <2>3, <2>4
<1>4. ASSUME NEW i \in 1 .. Len(cs), NEW j \in 1 .. i - 1 PROVE cs[j].end <= cs[i].start
  <2>1. i - 1 \in 1 .. Len(cs) /\ i \in 2 .. Len(cs) /\ j \in 1 .. Len(cs)
    BY <1>1
  <2>2. cs[i - 1].end <= cs[i].start
    BY <1>3, <2>1
  <2>3. CASE j = i - 1
    BY <2>2, <2>3
  <2>4. CASE j # i - 1
    <3>1. j + 1 \in 2 .. Len(cs) /\ j + 1 \in 1 .. Len(cs) /\ j + 1 < i /\ (j + 1) - 1 = j
      BY <1>1, <2>1, <2>4
    <3>2. cs[j].end <= cs[j + 1].start
      BY <1>3, <3>1
    <3>3. cs[j + 1].start <= cs[i].start
      BY <3>1 DEF Mounts
    <3> QED
      BY <1>1, <2>1, <3>1, <3>2, <3>3
  <2> QED
    BY <2>3, <2>4
<1> QED
  BY <1>2, <1>4 DEF Fits

\* One change alone.
LEMMA FitsAlone ==
  ASSUME NEW C, NEW t \in Seq(C), NEW c \in ChangesOf(C), InPlace(t, c)
  PROVE  <<c>> \in Seq(ChangesOf(C)) /\ Fits(<<c>>, Len(t))
<1> DEFINE cs == <<c>>
<1>1. cs \in Seq(ChangesOf(C)) /\ Len(cs) = 1 /\ cs[1] = c
  OBVIOUS
<1> HIDE DEF cs
<1>2. Fits(cs, Len(t))
  <2>1. \A i \in 1 .. Len(cs) : i = 1 /\ 1 .. i - 1 = {}
    BY <1>1
  <2> QED
    BY <1>1, <2>1 DEF Fits, InPlace
<1> QED
  BY <1>1, <1>2 DEF cs

\* A change in place is not clamped.
LEMMA ClampedSame ==
  ASSUME NEW C, NEW t \in Seq(C), NEW c \in ChangesOf(C), InPlace(t, c)
  PROVE  Clamped(t, c) = c
<1>1. c.start \in Nat /\ c.end \in Nat /\ c.start <= Len(t) /\ c.end <= Len(t)
  <2>1. Len(t) \in Nat
    OBVIOUS
  <2> QED
    BY <2>1 DEF ChangesOf, InPlace
<1>2. Smaller(c.start, Len(t)) = c.start /\ Smaller(c.end, Len(t)) = c.end
  BY <1>1 DEF Smaller
<1> QED
  BY <1>2 DEF Clamped, ChangesOf

\* Changes that fit are what Buffer::apply makes of them.
LEMMA FittingIsSorted ==
  ASSUME NEW C, NEW t \in Seq(C), NEW cs \in Seq(ChangesOf(C)), Fits(cs, Len(t))
  PROVE  [i \in DOMAIN cs |-> Clamped(t, cs[i])] = cs /\ Sorted(cs) = cs
<1>1. Len(cs) \in Nat /\ DOMAIN cs = 1 .. Len(cs)
  OBVIOUS
<1>2. \A i \in 1 .. Len(cs) : cs[i] \in ChangesOf(C) /\ cs[i].start \in Nat /\ cs[i].end \in Nat
  BY ChangeTypes
<1>3. \A i \in 1 .. Len(cs) : Clamped(t, cs[i]) = cs[i]
  <2> SUFFICES ASSUME NEW i \in 1 .. Len(cs) PROVE Clamped(t, cs[i]) = cs[i]
    OBVIOUS
  <2>1. InPlace(t, cs[i])
    BY DEF Fits, InPlace
  <2> QED
    BY <1>2, <2>1, ClampedSame
<1>4. [i \in DOMAIN cs |-> Clamped(t, cs[i])] = cs
  BY <1>1, <1>3
<1>5. Ascends(cs)
  <2> SUFFICES ASSUME NEW i \in 1 .. Len(cs), NEW j \in 1 .. Len(cs), i < j
               PROVE  ~Precedes(cs[j], cs[i])
    BY <1>1 DEF Ascends
  <2>1. i \in 1 .. j - 1
    BY <1>1
  <2>2. cs[i].start <= cs[i].end /\ cs[i].end <= cs[j].start /\ cs[j].start <= cs[j].end
    BY <2>1 DEF Fits
  <2> QED
    BY <1>2, <2>2 DEF Precedes
<1>6. Sorted(cs) = cs
  <2>1. Ranges(ChangesOf(C))
    BY ChangesChange
  <2> QED
    BY <1>5, <2>1, SortedIsSame
<1> QED
  BY <1>4, <1>6

\* What Buffer::apply does with changes that fit, and what it returns.
LEMMA AppliedIs ==
  ASSUME NEW C, NEW t \in Seq(C), NEW cs \in Seq(ChangesOf(C)), Fits(cs, Len(t))
  PROVE  /\ Applied(t, cs) \in Seq(C)
         /\ Inverted(t, cs) = Back(t, cs)
         /\ Restores(C, t, cs, Applied(t, cs))
<1>1. [i \in DOMAIN cs |-> Clamped(t, cs[i])] = cs /\ Sorted(cs) = cs
  BY FittingIsSorted
<1>2. Applied(t, cs) = InTurn(t, Reverse(cs))
  BY <1>1 DEF Applied
<1>3. Inverted(t, cs) = Back(t, cs)
  BY <1>1 DEF Inverted, Back
<1>4. PICK u \in Seq(C) : Restores(C, t, cs, u)
  BY FittingRestores
<1>5. InTurn(t, Reverse(cs)) = u
  <2>1. Reverse(cs) \in Seq(ChangesOf(C))
    BY ReverseIs
  <2>2. Leads(C, t, Reverse(cs), u)
    BY <1>4 DEF Restores
  <2> QED
    BY <2>1, <2>2, LeadsIs
<1> QED
  BY <1>2, <1>3, <1>4, <1>5

\* The inverse takes the text back, and its own inverse makes the edit again.
LEMMA TakesBack ==
  ASSUME NEW C, NEW t \in Seq(C), NEW cs \in Seq(ChangesOf(C)), Fits(cs, Len(t))
  PROVE  /\ Applied(Applied(t, cs), Inverted(t, cs)) = t
         /\ Applied(t, Inverted(Applied(t, cs), Inverted(t, cs))) = Applied(t, cs)
<1> DEFINE u == Applied(t, cs)
           b == Back(t, cs)
<1>1. u \in Seq(C) /\ Inverted(t, cs) = b /\ Restores(C, t, cs, u)
  BY AppliedIs
<1> HIDE DEF u, b
<1>2. b \in Seq(ChangesOf(C)) /\ Fits(b, Len(u)) /\ Leads(C, u, Reverse(b), t)
  BY <1>1 DEF Restores, b
<1>3. Applied(u, b) = t
  <2>1. Reverse(b) \in Seq(ChangesOf(C))
    BY <1>2, ReverseIs
  <2>2. InTurn(u, Reverse(b)) = t
    BY <1>2, <2>1, LeadsIs
  <2>3. [i \in DOMAIN b |-> Clamped(u, b[i])] = b /\ Sorted(b) = b
    BY <1>1, <1>2, FittingIsSorted
  <2> QED
    BY <2>2, <2>3 DEF Applied
<1>4. /\ Inverted(u, b) = Back(u, b)
      /\ Restores(C, u, b, t)
  BY <1>1, <1>2, <1>3, AppliedIs
<1> DEFINE a == Back(u, b)
<1> HIDE DEF a
<1>5. a \in Seq(ChangesOf(C)) /\ Fits(a, Len(t)) /\ Leads(C, t, Reverse(a), u)
  BY <1>4 DEF Restores, a
<1>6. Applied(t, a) = u
  <2>1. Reverse(a) \in Seq(ChangesOf(C))
    BY <1>5, ReverseIs
  <2>2. InTurn(t, Reverse(a)) = u
    BY <1>5, <2>1, LeadsIs
  <2>3. [i \in DOMAIN a |-> Clamped(t, a[i])] = a /\ Sorted(a) = a
    BY <1>5, FittingIsSorted
  <2> QED
    BY <2>2, <2>3 DEF Applied
<1> QED
  BY <1>1, <1>3, <1>4, <1>6 DEF u, a

-----------------------------------------------------------------------------
\* The recorded changes lead from the server's text to the one on screen.
JournalGoes(C, copy, entries, t) ==
  \/ entries = Unrecorded
  \/ \E s \in Seq(ChangesOf(C)) : entries = Recorded(s) /\ Leads(C, copy, s, t)

\* It goes on with an edit.
LEMMA JournalGoesOn ==
  ASSUME NEW C, NEW t \in Seq(C), NEW cs \in Seq(ChangesOf(C)), Fits(cs, Len(t)),
         NEW copy, NEW entries, JournalGoes(C, copy, entries, t)
  PROVE  JournalGoes(C, copy, Journal(entries, t, cs), Applied(t, cs))
<1>1. CASE entries = Unrecorded
  <2>1. entries.lost
    BY <1>1 DEF Unrecorded
  <2>2. Journal(entries, t, cs) = Unrecorded
    BY <1>1, <2>1 DEF Journal
  <2> QED
    BY <2>2 DEF JournalGoes
<1>2. ASSUME NEW s \in Seq(ChangesOf(C)), entries = Recorded(s), Leads(C, copy, s, t)
      PROVE  JournalGoes(C, copy, Journal(entries, t, cs), Applied(t, cs))
  <2>1. ~entries.lost /\ entries.changes = s
    BY <1>2 DEF Recorded
  <2>2. [i \in DOMAIN cs |-> Clamped(t, cs[i])] = cs
    BY FittingIsSorted
  <2>3. Leads(C, t, Reverse(cs), Applied(t, cs))
    BY AppliedIs DEF Restores
  <2>4. Reverse(cs) \in Seq(ChangesOf(C))
    BY ReverseIs
  <2>5. s \o Reverse(cs) \in Seq(ChangesOf(C))
    BY <2>4, ConcatProperties
  <2>6. Leads(C, copy, s \o Reverse(cs), Applied(t, cs))
    BY <1>2, <2>3, <2>4, LeadsOn
  <2>7. \/ Journal(entries, t, cs) = Unrecorded
        \/ Journal(entries, t, cs) = Recorded(s \o Reverse(cs))
    BY <2>1, <2>2 DEF Journal
  <2> QED
    BY <2>5, <2>6, <2>7 DEF JournalGoes
<1> QED
  BY <1>1, <1>2 DEF JournalGoes

\* A server that is sent the journal has the text on screen.
LEMMA JournalTells ==
  ASSUME NEW C, NEW t \in Seq(C), NEW copy, NEW entries, JournalGoes(C, copy, entries, t)
  PROVE  Told(copy, entries, t) = t
<1>1. CASE entries = Unrecorded
  BY <1>1 DEF Unrecorded, Told
<1>2. ASSUME NEW s \in Seq(ChangesOf(C)), entries = Recorded(s), Leads(C, copy, s, t)
      PROVE  Told(copy, entries, t) = t
  <2>1. ~entries.lost /\ entries.changes = s
    BY <1>2 DEF Recorded
  <2>2. InTurn(copy, s) = t
    BY <1>2, LeadsIs
  <2> QED
    BY <2>1, <2>2 DEF Told
<1> QED
  BY <1>1, <1>2 DEF JournalGoes

\* An empty journal, when the server has just been sent the text.
LEMMA JournalBegins ==
  ASSUME NEW C, NEW t \in Seq(C)
  PROVE  JournalGoes(C, t, Recorded(<<>>), t)
<1>1. <<>> \in Seq(ChangesOf(C))
  OBVIOUS
<1>2. Leads(C, t, <<>>, t)
  BY LeadsNowhere
<1> QED
  BY <1>1, <1>2 DEF JournalGoes

\* Where what a change puts in ends, in the new text.
LEMMA CaretFollows ==
  ASSUME NEW C, NEW t \in Seq(C), NEW cs \in Seq(ChangesOf(C)), Fits(cs, Len(t)),
         NEW i \in 1 .. Len(cs)
  PROVE  /\ cs[i].start + Delta(cs, i) \in Nat
         /\ cs[i].start + Delta(cs, i) + Len(cs[i].ins) \in 0 .. Len(Applied(t, cs))
<1> DEFINE b == Back(t, cs)
           u == Applied(t, cs)
           start == cs[i].start + Delta(cs, i)
           end == start + Len(cs[i].ins)
<1>1. b \in Seq(ChangesOf(C)) /\ Fits(b, Len(u)) /\ u \in Seq(C)
  BY AppliedIs DEF Restores
<1>2. Len(cs) \in Nat /\ DOMAIN cs = 1 .. Len(cs)
  OBVIOUS
<1>3. DOMAIN b = 1 .. Len(cs) /\ b[i].start = start /\ b[i].end = end
  BY <1>2 DEF Back, Change
<1> HIDE DEF b, u, start, end
<1>4. Len(b) \in Nat /\ DOMAIN b = 1 .. Len(b)
  BY <1>1
<1>5. i \in 1 .. Len(b)
  BY <1>3, <1>4
<1>6. b[i].start \in Nat /\ b[i].end \in Nat /\ b[i].end <= Len(u) /\ Len(u) \in Nat
  BY <1>1, <1>5, ChangeTypes DEF Fits
<1>7. start \in Nat /\ end \in 0 .. Len(u)
  BY <1>3, <1>6
<1> QED
  BY <1>7 DEF start, end, u

-----------------------------------------------------------------------------
\* `flat' keeps, in order, the elements of the first k of `seqs', none or one
\* of each.
Keeps(h, flat, seqs, k) ==
  /\ h \in [1 .. Len(flat) -> 1 .. k]
  /\ \A a, b \in 1 .. Len(flat) : a < b => h[a] < h[b]
  /\ \A a \in 1 .. Len(flat) : seqs[h[a]] = <<flat[a]>>
  /\ \A b \in 1 .. k : seqs[b] # <<>> => \E a \in 1 .. Len(flat) : h[a] = b

\* Flattening as a sequence of concatenations.
LEMMA FlattenSteps ==
  ASSUME NEW S, NEW seqs \in Seq(Seq(S))
  PROVE  \E f \in [0 .. Len(seqs) -> Seq(S)] :
           /\ f[0] = <<>>
           /\ \A i \in 1 .. Len(seqs) : f[i] = f[i - 1] \o seqs[i]
           /\ FlattenSeq(seqs) = f[Len(seqs)]
<1> DEFINE n == Len(seqs)
           G == [p \in Seq(S) \X (1 .. n) |-> p[1] \o seqs[p[2]]]
           F(g) == [i \in 1 .. n |-> IF i = 1 THEN seqs[i] ELSE g[i - 1] \o seqs[i]]
           flatten == CHOOSE g : g = F(g)
<1>1. n \in Nat /\ \A i \in 1 .. n : seqs[i] \in Seq(S)
  OBVIOUS
<1>0. FlattenSeq(seqs) = IF n = 0 THEN seqs ELSE flatten[n]
  BY DEF FlattenSeq
<1>00. n = 0 => seqs = <<>>
  OBVIOUS
<1> HIDE DEF n
<1>2. G \in [Seq(S) \X (1 .. n) -> Seq(S)]
  <2>1. ASSUME NEW p \in Seq(S) \X (1 .. n) PROVE p[1] \o seqs[p[2]] \in Seq(S)
    <3>1. p[1] \in Seq(S) /\ seqs[p[2]] \in Seq(S)
      BY <1>1
    <3> QED
      BY <3>1, ConcatProperties
  <2> QED
    BY <2>1
<1>3. \A s \in Seq(S), i \in 1 .. n : G[<<s, i>>] = s \o seqs[i]
  OBVIOUS
<1> HIDE DEF G
<1>4. PICK f \in [0 .. n -> Seq(S)] : Steps(f, <<>>, n, G)
  <2>1. <<>> \in Seq(S)
    OBVIOUS
  <2> QED
    BY <1>1, <1>2, <2>1, Trail
<1>5. f[0] = <<>> /\ \A i \in 1 .. n : f[i] = f[i - 1] \o seqs[i]
  <2>1. ASSUME NEW i \in 1 .. n PROVE f[i] = f[i - 1] \o seqs[i]
    <3>1. f[i - 1] \in Seq(S) /\ f[i] = G[<<f[i - 1], i>>]
      BY <1>1, <1>4 DEF Steps
    <3> QED
      BY <1>3, <3>1
  <2> QED
    BY <1>4, <2>1 DEF Steps
<1>6. ASSUME n # 0 PROVE flatten[n] = f[n]
  <2> DEFINE h == [i \in 1 .. n |-> f[i]]
  <2>1. \A i \in 1 .. n : h[i] = f[i]
    OBVIOUS
  <2>2. h = F(h)
    <3>1. ASSUME NEW i \in 1 .. n PROVE h[i] = IF i = 1 THEN seqs[i] ELSE h[i - 1] \o seqs[i]
      <4>1. CASE i = 1
        <5>1. f[1] = <<>> \o seqs[1] /\ seqs[1] \in Seq(S)
          <6>1. 1 \in 1 .. n /\ 1 - 1 = 0
            BY <4>1
          <6>2. f[1] = f[1 - 1] \o seqs[1] /\ seqs[1] \in Seq(S)
            BY <1>1, <1>5, <6>1
          <6> QED
            BY <1>5, <6>1, <6>2
        <5>2. f[1] = seqs[1]
          BY <5>1, ConcatEmptySeq
        <5> QED
          BY <2>1, <4>1, <5>2
      <4>2. CASE i # 1
        <5>1. i - 1 \in 1 .. n
          BY <1>1, <4>2
        <5> HIDE DEF h
        <5> QED
          BY <1>5, <2>1, <4>2, <5>1
      <4> QED
        BY <4>1, <4>2
    <3>2. h = [i \in 1 .. n |-> h[i]]
      OBVIOUS
    <3> HIDE DEF h
    <3> QED
      BY <3>1, <3>2
  <2>3. flatten = F(flatten)
    <3> HIDE DEF F, h
    <3> QED
      BY <2>2
  <2>4. \A i \in 1 .. n : flatten[i] = IF i = 1 THEN seqs[i] ELSE flatten[i - 1] \o seqs[i]
    <3> DEFINE x == flatten
    <3>1. x = [i \in 1 .. n |-> IF i = 1 THEN seqs[i] ELSE x[i - 1] \o seqs[i]]
      BY <2>3
    <3> HIDE DEF x
    <3>2. \A i \in 1 .. n : x[i] = IF i = 1 THEN seqs[i] ELSE x[i - 1] \o seqs[i]
      BY <3>1
    <3> QED
      BY <3>2 DEF x
  <2> DEFINE x == flatten
  <2>5. \A i \in 1 .. n : x[i] = IF i = 1 THEN seqs[i] ELSE x[i - 1] \o seqs[i]
    BY <2>4
  <2>6. \A i \in 1 .. n : h[i] = IF i = 1 THEN seqs[i] ELSE h[i - 1] \o seqs[i]
    <3>1. ASSUME NEW i \in 1 .. n, NEW y, y = F(y) PROVE y[i] = IF i = 1 THEN seqs[i] ELSE y[i - 1] \o seqs[i]
      BY <3>1
    <3> HIDE DEF h, F
    <3> QED
      BY <2>2, <3>1
  <2> HIDE DEF x, h, F
  <2> DEFINE T == {k \in Nat : k < n => x[k + 1] = h[k + 1]}
  <2>7. 0 \in T
    <3>1. 1 \in 1 .. n /\ 0 + 1 = 1
      BY <1>1, <1>6
    <3> QED
      BY <2>5, <2>6, <3>1
  <2>8. ASSUME NEW k \in Nat, k \in T PROVE k + 1 \in T
    <3> SUFFICES ASSUME k + 1 < n PROVE x[k + 1 + 1] = h[k + 1 + 1]
      OBVIOUS
    <3>1. k + 1 + 1 \in 1 .. n /\ k + 1 + 1 # 1 /\ (k + 1 + 1) - 1 = k + 1
      BY <1>1
    <3>2. x[k + 1] = h[k + 1]
      BY <1>1, <2>8
    <3> QED
      BY <2>5, <2>6, <3>1, <3>2
  <2> HIDE DEF T
  <2>9. \A k \in Nat : k \in T
    BY <2>7, <2>8, NatSteps
  <2>10. n - 1 \in Nat /\ (n - 1) + 1 = n /\ n - 1 < n /\ n \in 1 .. n
    BY <1>1, <1>6
  <2>11. n - 1 \in T
    BY <2>9, <2>10
  <2>12. x[n] = h[n]
    BY <2>10, <2>11 DEF T
  <2> QED
    BY <2>1, <2>10, <2>12 DEF x
<1> HIDE DEF flatten
<1>7. FlattenSeq(seqs) = f[n]
  BY <1>0, <1>00, <1>5, <1>6
<1> QED
  BY <1>5, <1>7 DEF n

\* One more, that holds nothing or one element.
LEMMA KeepsOn ==
  ASSUME NEW S, NEW seqs, NEW flat \in Seq(S), NEW k \in Nat, NEW h, Keeps(h, flat, seqs, k),
         NEW one \in Seq(S), one = seqs[k + 1], Len(one) <= 1
  PROVE  \E q : Keeps(q, flat \o one, seqs, k + 1)
<1> DEFINE m == Len(flat)
<1>0. m \in Nat /\ Len(one) \in Nat
  OBVIOUS
<1>1. /\ h \in [1 .. m -> 1 .. k]
      /\ \A a, b \in 1 .. m : a < b => h[a] < h[b]
      /\ \A a \in 1 .. m : seqs[h[a]] = <<flat[a]>>
      /\ \A b \in 1 .. k : seqs[b] # <<>> => \E a \in 1 .. m : h[a] = b
  BY DEF Keeps
<1>2. CASE Len(one) = 0
  <2>1. one = <<>> /\ flat \o one = flat
    <3>1. one = <<>>
      BY <1>2
    <3> QED
      BY <3>1, ConcatEmptySeq
  <2>2. h \in [1 .. m -> 1 .. k + 1]
    BY <1>1
  <2>3. \A b \in 1 .. k + 1 : seqs[b] # <<>> => \E a \in 1 .. m : h[a] = b
    <3> SUFFICES ASSUME NEW b \in 1 .. k + 1, seqs[b] # <<>> PROVE \E a \in 1 .. m : h[a] = b
      OBVIOUS
    <3>1. b # k + 1
      BY <2>1
    <3>2. b \in 1 .. k
      BY <3>1
    <3> QED
      BY <1>1, <3>2
  <2>4. Keeps(h, flat, seqs, k + 1)
    BY <1>1, <2>2, <2>3 DEF Keeps
  <2> QED
    BY <2>1, <2>4
<1>3. CASE Len(one) = 1
  <2> DEFINE y == flat \o one
             q == [a \in 1 .. m + 1 |-> IF a = m + 1 THEN k + 1 ELSE h[a]]
  <2>1. Len(y) = m + 1 /\ y[m + 1] = one[1] /\ \A a \in 1 .. m : y[a] = flat[a]
    <3>1. /\ Len(y) = Len(flat) + Len(one)
          /\ \A i \in 1 .. Len(flat) + Len(one) : y[i] =
                     IF i <= Len(flat) THEN flat[i] ELSE one[i - Len(flat)]
      BY ConcatProperties
    <3>2. m + 1 \in 1 .. m + 1 /\ ~(m + 1 <= m) /\ (m + 1) - m = 1
      BY <1>0
    <3> HIDE DEF m, y
    <3> QED
      BY <1>0, <1>3, <3>1, <3>2 DEF m
  <2>2. one = <<one[1]>>
    BY <1>3
  <2>3. q \in [1 .. m + 1 -> 1 .. k + 1] /\ q[m + 1] = k + 1 /\ \A a \in 1 .. m : q[a] = h[a]
    <3>1. \A a \in 1 .. m + 1 : a # m + 1 => a \in 1 .. m
      BY <1>0
    <3> HIDE DEF m
    <3> QED
      BY <1>0, <1>1, <3>1
  <2> HIDE DEF q, y, m
  <2>4. \A a, b \in 1 .. m + 1 : a < b => q[a] < q[b]
    <3> SUFFICES ASSUME NEW a \in 1 .. m + 1, NEW b \in 1 .. m + 1, a < b PROVE q[a] < q[b]
      OBVIOUS
    <3>1. a \in 1 .. m /\ h[a] \in 1 .. k /\ q[a] = h[a]
      BY <1>0, <1>1, <2>3
    <3>2. CASE b = m + 1
      BY <2>3, <3>1, <3>2
    <3>3. CASE b # m + 1
      <4>1. b \in 1 .. m
        BY <1>0, <3>3
      <4> QED
        BY <1>1, <2>3, <3>1, <4>1
    <3> QED
      BY <3>2, <3>3
  <2>5. \A a \in 1 .. m + 1 : seqs[q[a]] = <<y[a]>>
    <3> SUFFICES ASSUME NEW a \in 1 .. m + 1 PROVE seqs[q[a]] = <<y[a]>>
      OBVIOUS
    <3>1. CASE a = m + 1
      BY <2>1, <2>2, <2>3, <3>1
    <3>2. CASE a # m + 1
      <4>1. a \in 1 .. m
        BY <1>0, <3>2
      <4> QED
        BY <1>1, <2>1, <2>3, <4>1
    <3> QED
      BY <3>1, <3>2
  <2>6. \A b \in 1 .. k + 1 : seqs[b] # <<>> => \E a \in 1 .. m + 1 : q[a] = b
    <3> SUFFICES ASSUME NEW b \in 1 .. k + 1, seqs[b] # <<>> PROVE \E a \in 1 .. m + 1 : q[a] = b
      OBVIOUS
    <3>1. CASE b = k + 1
      <4>1. m + 1 \in 1 .. m + 1
        BY <1>0
      <4> QED
        BY <2>3, <3>1, <4>1
    <3>2. CASE b # k + 1
      <4>1. b \in 1 .. k
        BY <3>2
      <4>2. PICK a \in 1 .. m : h[a] = b
        BY <1>1, <4>1
      <4>3. a \in 1 .. m + 1 /\ q[a] = b
        BY <1>0, <2>3, <4>2
      <4> QED
        BY <4>3
    <3> QED
      BY <3>1, <3>2
  <2>7. Keeps(q, y, seqs, k + 1)
    BY <2>1, <2>3, <2>4, <2>5, <2>6 DEF Keeps
  <2> QED
    BY <2>7 DEF y
<1>4. Len(one) = 0 \/ Len(one) = 1
  <2> DEFINE w == Len(one)
  <2>1. w \in Nat /\ w <= 1
    BY <1>0
  <2> HIDE DEF w
  <2>2. w = 0 \/ w = 1
    BY <2>1
  <2> QED
    BY <2>2 DEF w
<1> HIDE DEF m
<1> QED
  BY <1>2, <1>3, <1>4

\* The elements of sequences that hold none or one each, in order.
LEMMA FlattenKeeps ==
  ASSUME NEW S, NEW seqs \in Seq(Seq(S)), \A i \in 1 .. Len(seqs) : Len(seqs[i]) <= 1
  PROVE  /\ FlattenSeq(seqs) \in Seq(S)
         /\ \E h : Keeps(h, FlattenSeq(seqs), seqs, Len(seqs))
<1> DEFINE n == Len(seqs)
<1>1. PICK f \in [0 .. n -> Seq(S)] :
           /\ f[0] = <<>>
           /\ \A i \in 1 .. n : f[i] = f[i - 1] \o seqs[i]
           /\ FlattenSeq(seqs) = f[n]
  BY FlattenSteps
<1>2. n \in Nat /\ \A i \in 1 .. n : seqs[i] \in Seq(S)
  OBVIOUS
<1> HIDE DEF n
<1> DEFINE Good(k) == \E h : Keeps(h, f[k], seqs, k)
           T == {k \in Nat : k <= n => Good(k)}
<1>3. Good(0)
  <2> DEFINE h == [i \in 1 .. 0 |-> i]
  <2>1. h \in [1 .. 0 -> 1 .. 0]
    OBVIOUS
  <2> HIDE DEF h
  <2>2. Len(<<>>) = 0 /\ \A a \in 1 .. 0 : FALSE
    OBVIOUS
  <2>3. Keeps(h, <<>>, seqs, 0)
    BY <2>1, <2>2 DEF Keeps
  <2> QED
    BY <1>1, <2>3
<1>4. ASSUME NEW k \in Nat, k \in T PROVE k + 1 \in T
  <2> SUFFICES ASSUME k + 1 <= n PROVE Good(k + 1)
    OBVIOUS
  <2>1. k + 1 \in 1 .. n /\ (k + 1) - 1 = k /\ k \in 0 .. n
    BY <1>2
  <2>2. f[k] \in Seq(S) /\ seqs[k + 1] \in Seq(S) /\ Len(seqs[k + 1]) <= 1 /\ f[k + 1] = f[k] \o seqs[k + 1]
    BY <1>1, <1>2, <2>1 DEF n
  <2>3. PICK h : Keeps(h, f[k], seqs, k)
    BY <1>2, <1>4
  <2> DEFINE flat == f[k]
             one == seqs[k + 1]
  <2>4. flat \in Seq(S) /\ one \in Seq(S) /\ Len(one) <= 1 /\ one = seqs[k + 1] /\ Keeps(h, flat, seqs, k)
    BY <2>2, <2>3
  <2> HIDE DEF flat, one
  <2>5. \E q : Keeps(q, flat \o one, seqs, k + 1)
    BY <2>4, KeepsOn
  <2> QED
    BY <2>2, <2>5 DEF flat, one
<1> HIDE DEF T
<1>5. n \in T
  BY <1>2, <1>3, <1>4, NatSteps DEF T
<1>6. Good(n)
  BY <1>2, <1>5 DEF T
<1> QED
  BY <1>1, <1>2, <1>6 DEF n

-----------------------------------------------------------------------------
\* The elements of a finite set, in some order.
LEMMA SetToSeqIs ==
  ASSUME NEW S, IsFiniteSet(S)
  PROVE  SetToSeq(S) \in Seq(S) /\ Len(SetToSeq(S)) = Cardinality(S) /\ Cardinality(S) \in Nat
<1> DEFINE n == Cardinality(S)
<1>1. n \in Nat /\ ExistsBijection(1 .. n, S)
  BY FS_CardinalityType
<1>2. \E f \in [1 .. n -> S] : IsInjective(f)
  BY <1>1 DEF ExistsBijection, Bijection, Injection
<1> HIDE DEF n
<1>3. SetToSeq(S) = CHOOSE f \in [1 .. n -> S] : IsInjective(f)
  BY DEF SetToSeq, n
<1>4. SetToSeq(S) \in [1 .. n -> S]
  BY <1>2, <1>3
<1> DEFINE x == SetToSeq(S)
<1>5. x \in [1 .. n -> S]
  BY <1>4
<1> HIDE DEF x
<1>6. x \in Seq(S) /\ Len(x) = n
  BY <1>1, <1>5
<1> QED
  BY <1>1, <1>6 DEF n, x

\* Numbers up to a bound, from the least one on.
LEMMA InOrderIs ==
  ASSUME NEW n \in Nat, NEW S \in SUBSET (0 .. n - 1)
  PROVE  /\ Cardinality(S) \in Nat
         /\ InOrder(S) \in Seq(S) /\ Len(InOrder(S)) = Cardinality(S)
         /\ \A i, j \in 1 .. Len(InOrder(S)) : i < j => InOrder(S)[i] < InOrder(S)[j]
         /\ S # {} => InOrder(S) # <<>>
<1> DEFINE Rises(s, k) == \A i, j \in 1 .. k : i < j => s[i] < s[j]
           Good(R) == IsFiniteSet(R) /\ \E s \in [1 .. Cardinality(R) -> R] : Rises(s, Cardinality(R))
           T == {k \in Nat : \A R \in SUBSET (0 .. k - 1) : Good(R)}
<1>1. 0 \in T
  <2> SUFFICES ASSUME NEW R \in SUBSET (0 .. 0 - 1) PROVE Good(R)
    OBVIOUS
  <2>1. R = {}
    OBVIOUS
  <2>2. IsFiniteSet(R) /\ Cardinality(R) = 0
    BY <2>1, FS_EmptySet
  <2> DEFINE s == [i \in 1 .. 0 |-> i]
  <2>3. s \in [1 .. 0 -> R] /\ Rises(s, 0)
    OBVIOUS
  <2> HIDE DEF s, Rises
  <2> QED
    BY <2>2, <2>3
<1>2. ASSUME NEW k \in Nat, k \in T PROVE k + 1 \in T
  <2> SUFFICES ASSUME NEW R \in SUBSET (0 .. (k + 1) - 1) PROVE Good(R)
    OBVIOUS
  <2>1. CASE k \notin R
    <3>1. R \in SUBSET (0 .. k - 1)
      <4> SUFFICES ASSUME NEW x \in R PROVE x \in 0 .. k - 1
        OBVIOUS
      <4>1. x \in 0 .. (k + 1) - 1 /\ x # k
        BY <2>1
      <4> QED
        BY <4>1
    <3> HIDE DEF Good
    <3> QED
      BY <1>2, <3>1
  <2>2. CASE k \in R
    <3> DEFINE Q == R \ {k}
    <3>1. Q \in SUBSET (0 .. k - 1)
      <4> SUFFICES ASSUME NEW x \in Q PROVE x \in 0 .. k - 1
        OBVIOUS
      <4>1. x \in 0 .. (k + 1) - 1 /\ x # k
        OBVIOUS
      <4> QED
        BY <4>1
    <3>2. Good(Q)
      <4> HIDE DEF Good, Q
      <4> QED
        BY <1>2, <3>1
    <3>3. R = Q \cup {k} /\ k \notin Q
      BY <2>2
    <3> HIDE DEF Q
    <3> DEFINE c == Cardinality(Q)
    <3>4. IsFiniteSet(R) /\ Cardinality(R) = c + 1
      BY <3>2, <3>3, FS_AddElement
    <3>5. c \in Nat
      BY <3>2, FS_CardinalityType
    <3>6. PICK s \in [1 .. c -> Q] : Rises(s, c)
      BY <3>2
    <3> HIDE DEF c
    <3> DEFINE r == [i \in 1 .. c + 1 |-> IF i = c + 1 THEN k ELSE s[i]]
    <3>7. \A i \in 1 .. c + 1 : i # c + 1 => i \in 1 .. c
      BY <3>5
    <3>8. r \in [1 .. c + 1 -> R]
      BY <3>3, <3>6, <3>7
    <3>9. Rises(r, c + 1)
      <4> SUFFICES ASSUME NEW i \in 1 .. c + 1, NEW j \in 1 .. c + 1, i < j PROVE r[i] < r[j]
        OBVIOUS
      <4>1. i \in 1 .. c /\ r[i] = s[i]
        BY <3>5
      <4>2. s[i] \in 0 .. k - 1
        BY <3>1, <3>6, <4>1
      <4>3. CASE j = c + 1
        BY <4>1, <4>2, <4>3
      <4>4. CASE j # c + 1
        <5>1. j \in 1 .. c /\ r[j] = s[j]
          BY <3>7, <4>4
        <5> QED
          BY <3>6, <4>1, <5>1
      <4> QED
        BY <4>3, <4>4
    <3> HIDE DEF r, Rises
    <3> QED
      BY <3>4, <3>8, <3>9
  <2> QED
    BY <2>1, <2>2
<1> HIDE DEF T
<1>3. n \in T
  BY <1>1, <1>2, NatSteps
<1> HIDE DEF Good
<1>4. Good(S)
  BY <1>3 DEF T
<1> DEFINE c == Cardinality(S)
<1>5. IsFiniteSet(S) /\ c \in Nat /\ \E s \in [1 .. c -> S] : Rises(s, c)
  BY <1>4, FS_CardinalityType DEF Good
<1>6. S # {} => c # 0
  BY <1>5, FS_EmptySet
<1>7. InOrder(S) = CHOOSE s \in [1 .. c -> S] : \A i, j \in DOMAIN s : i < j => s[i] < s[j]
  BY DEF InOrder
<1> HIDE DEF c
<1>8. \E s \in [1 .. c -> S] : \A i, j \in DOMAIN s : i < j => s[i] < s[j]
  BY <1>5
<1> DEFINE x == InOrder(S)
<1>9. x \in [1 .. c -> S] /\ \A i, j \in DOMAIN x : i < j => x[i] < x[j]
  BY <1>7, <1>8
<1> HIDE DEF x
<1>10. x \in Seq(S) /\ Len(x) = c
  BY <1>5, <1>9
<1>11. DOMAIN x = 1 .. Len(x)
  BY <1>10
<1> QED
  BY <1>5, <1>6, <1>9, <1>10, <1>11 DEF c, x

(***************************************************************************)
(* Lines                                                                   *)
(***************************************************************************)
\* The lines of a text lie one behind the other.
Lined(t) ==
  /\ LineCount(t) \in Nat /\ LineCount(t) > 0 /\ Len(t) \in Nat
  /\ \A at \in 0 .. Len(t) : LineOf(t, at) \in 0 .. LineCount(t) - 1
  /\ \A l \in 0 .. LineCount(t) - 1 :
       /\ StartOf(t, l) \in 0 .. Len(t) /\ EndOf(t, l) \in 0 .. Len(t)
       /\ StartOf(t, l) <= EndOf(t, l)
       /\ LineOf(t, StartOf(t, l)) = l /\ LineOf(t, EndOf(t, l)) = l
  /\ \A l \in 0 .. LineCount(t) - 1, at \in 0 .. Len(t) :
       /\ StartOf(t, l) <= at <=> l <= LineOf(t, at)
       /\ at <= EndOf(t, l) <=> LineOf(t, at) <= l
  /\ \A l \in 0 .. LineCount(t) - 1 :
       l + 1 < LineCount(t) => StartOf(t, l + 1) = EndOf(t, l) + 1

\* The line breaks before a place.
Breaks(t, at) == {i \in 1 .. at : t[i] = Newline}

\* Line breaks can be counted.
LEMMA BreaksFinite ==
  ASSUME NEW t, NEW at \in Nat
  PROVE  IsFiniteSet(Breaks(t, at)) /\ Cardinality(Breaks(t, at)) \in Nat
<1>1. IsFiniteSet(1 .. at)
  BY FS_Interval
<1>2. Breaks(t, at) \in SUBSET (1 .. at)
  BY DEF Breaks
<1>3. IsFiniteSet(Breaks(t, at))
  BY <1>1, <1>2, FS_Subset
<1> QED
  BY <1>3, FS_CardinalityType

\* The line of a position, position by position.
LEMMA LineOfSteps ==
  ASSUME NEW t
  PROVE  /\ LineOf(t, 0) = 0
         /\ \A at \in Nat : LineOf(t, at) \in Nat
         /\ \A at \in Nat : LineOf(t, at + 1) = IF t[at + 1] = Newline THEN LineOf(t, at) + 1
                                                ELSE LineOf(t, at)
<1>1. \A at \in Nat : LineOf(t, at) = Cardinality(Breaks(t, at))
  BY DEF LineOf, Breaks
<1>2. \A at \in Nat : LineOf(t, at) \in Nat
  BY <1>1, BreaksFinite
<1>3. LineOf(t, 0) = 0
  <2>1. Breaks(t, 0) = {}
    BY DEF Breaks
  <2> QED
    BY <1>1, <2>1, FS_EmptySet
<1>4. ASSUME NEW at \in Nat
      PROVE  LineOf(t, at + 1) = IF t[at + 1] = Newline THEN LineOf(t, at) + 1 ELSE LineOf(t, at)
  <2>1. IsFiniteSet(Breaks(t, at)) /\ at + 1 \in Nat
    BY BreaksFinite
  <2>2. CASE t[at + 1] = Newline
    <3>1. Breaks(t, at + 1) = Breaks(t, at) \cup {at + 1} /\ at + 1 \notin Breaks(t, at)
      BY <2>2 DEF Breaks
    <3>2. Cardinality(Breaks(t, at + 1)) = Cardinality(Breaks(t, at)) + 1
      BY <2>1, <3>1, FS_AddElement
    <3> QED
      BY <1>1, <2>1, <2>2, <3>2
  <2>3. CASE t[at + 1] # Newline
    <3>1. Breaks(t, at + 1) = Breaks(t, at)
      BY <2>3 DEF Breaks
    <3> QED
      BY <1>1, <2>1, <2>3, <3>1
  <2> QED
    BY <2>2, <2>3
<1> QED
  BY <1>2, <1>3, <1>4

\* A later position is on no earlier line.
LEMMA LineOfMounts ==
  ASSUME NEW t, NEW a \in Nat, NEW b \in Nat, a <= b
  PROVE  LineOf(t, a) <= LineOf(t, b)
<1>1. IsFiniteSet(Breaks(t, b))
  BY BreaksFinite
<1>2. Breaks(t, a) \in SUBSET Breaks(t, b)
  BY DEF Breaks
<1>3. Cardinality(Breaks(t, a)) <= Cardinality(Breaks(t, b))
  BY <1>1, <1>2, FS_Subset
<1> QED
  BY <1>3 DEF LineOf, Breaks

\* Where a line begins.
LEMMA StartIs ==
  ASSUME NEW t, NEW n \in Nat, DOMAIN t = 1 .. n, NEW l \in 0 .. LineOf(t, n)
  PROVE  /\ StartOf(t, l) \in 0 .. n
         /\ LineOf(t, StartOf(t, l)) = l
         /\ \A at \in 0 .. n : StartOf(t, l) <= at <=> l <= LineOf(t, at)
<1>0. /\ LineOf(t, 0) = 0
      /\ \A at \in Nat : LineOf(t, at) \in Nat
      /\ \A at \in Nat : LineOf(t, at + 1) = IF t[at + 1] = Newline THEN LineOf(t, at) + 1
                                             ELSE LineOf(t, at)
  BY LineOfSteps
<1>1. CASE l = 0
  <2>1. StartOf(t, l) = 0
    BY <1>1 DEF StartOf
  <2>2. \A at \in 0 .. n : LineOf(t, at) \in Nat
    <3>1. \A at \in 0 .. n : at \in Nat
      OBVIOUS
    <3> QED
      BY <1>0, <3>1
  <2>3. \A at \in 0 .. n : 0 <= at /\ 0 <= LineOf(t, at)
    BY <2>2
  <2>4. 0 \in 0 .. n
    OBVIOUS
  <2>5. LineOf(t, StartOf(t, l)) = l
    BY <1>0, <1>1, <2>1
  <2> QED
    BY <1>1, <2>1, <2>3, <2>4, <2>5
<1>2. CASE l # 0
  <2> DEFINE Q == {i \in 0 .. n : l <= LineOf(t, i)}
  <2>1. l \in Nat /\ l > 0
    BY <1>0, <1>2
  <2>2. n \in Q /\ Q \subseteq Nat
    OBVIOUS
  <2>3. PICK k \in Q : \A m \in Q : k <= m
    <3> HIDE DEF Q
    <3> QED
      BY <2>2, LeastOf
  <2>4. k \in 1 .. n /\ l <= LineOf(t, k)
    BY <1>0, <2>1, <2>3
  <2>5. k - 1 \in Nat /\ (k - 1) + 1 = k /\ k - 1 \notin Q /\ k - 1 \in 0 .. n
    BY <2>3, <2>4
  <2>6. LineOf(t, k - 1) < l
    BY <1>0, <2>1, <2>5
  <2>7. t[k] = Newline /\ LineOf(t, k) = l
    <3>1. LineOf(t, k) = IF t[k] = Newline THEN LineOf(t, k - 1) + 1 ELSE LineOf(t, k - 1)
      BY <1>0, <2>5
    <3>2. LineOf(t, k - 1) \in Nat /\ LineOf(t, k) \in Nat
      BY <1>0, <2>4, <2>5
    <3> QED
      BY <2>1, <2>4, <2>6, <3>1, <3>2
  <2> DEFINE s == StartOf(t, l)
  <2>8. s \in 1 .. n /\ t[s] = Newline /\ LineOf(t, s) = l
    <3>1. \E i \in DOMAIN t : t[i] = Newline /\ LineOf(t, i) = l
      BY <2>4, <2>7
    <3>2. s = CHOOSE i \in DOMAIN t : t[i] = Newline /\ LineOf(t, i) = l
      BY <1>2 DEF StartOf
    <3> HIDE DEF s
    <3> QED
      BY <3>1, <3>2
  <2> HIDE DEF s
  <2>9. s - 1 \in Nat /\ (s - 1) + 1 = s
    BY <2>8
  <2>10. LineOf(t, s - 1) = l - 1
    <3>1. LineOf(t, s) = LineOf(t, s - 1) + 1 /\ LineOf(t, s - 1) \in Nat
      BY <1>0, <2>8, <2>9
    <3> QED
      BY <2>8, <3>1
  <2>11. ASSUME NEW at \in 0 .. n PROVE s <= at <=> l <= LineOf(t, at)
    <3>0. at \in Nat /\ s \in Nat
      BY <2>8
    <3>1. at \in Nat /\ s \in Nat /\ LineOf(t, at) \in Nat
      BY <1>0, <3>0
    <3>2. CASE s <= at
      <4>1. LineOf(t, s) <= LineOf(t, at)
        BY <3>1, <3>2, LineOfMounts
      <4> QED
        BY <2>8, <3>2, <4>1
    <3>3. CASE ~(s <= at)
      <4>1. at <= s - 1
        BY <3>1, <3>3
      <4>2. LineOf(t, at) <= LineOf(t, s - 1)
        BY <2>9, <3>1, <4>1, LineOfMounts
      <4> QED
        BY <2>1, <2>10, <3>1, <3>3, <4>2
    <3> QED
      BY <3>2, <3>3
  <2>12. s \in 0 .. n
    BY <2>8
  <2> QED
    BY <2>8, <2>11, <2>12 DEF s
<1> QED
  BY <1>1, <1>2

\* Every text is so lined.
LEMMA LinesAre ==
  ASSUME NEW C, NEW t \in Seq(C)
  PROVE  Lined(t)
<1> DEFINE n == Len(t)
           last == LineOf(t, n)
<1>1. n \in Nat /\ DOMAIN t = 1 .. n
  OBVIOUS
<1>2. last \in Nat /\ \A at \in 0 .. n : LineOf(t, at) \in Nat
  BY <1>1, LineOfSteps
<1>3. LineCount(t) = 1 + last
  BY DEF LineCount
<1> HIDE DEF n
<1>4. \A at \in 0 .. n : LineOf(t, at) \in 0 .. last
  <2> SUFFICES ASSUME NEW at \in 0 .. n PROVE LineOf(t, at) \in 0 .. last
    OBVIOUS
  <2>1. LineOf(t, at) <= LineOf(t, n)
    BY <1>1, LineOfMounts
  <2> QED
    BY <1>2, <2>1
<1> HIDE DEF last
<1>5. ASSUME NEW l \in 0 .. last
      PROVE  /\ StartOf(t, l) \in 0 .. n
             /\ LineOf(t, StartOf(t, l)) = l
             /\ \A at \in 0 .. n : StartOf(t, l) <= at <=> l <= LineOf(t, at)
  BY <1>1, StartIs DEF last
<1>6. ASSUME NEW l \in 0 .. last
      PROVE  /\ EndOf(t, l) \in 0 .. n
             /\ \A at \in 0 .. n : at <= EndOf(t, l) <=> LineOf(t, at) <= l
             /\ l + 1 < LineCount(t) => StartOf(t, l + 1) = EndOf(t, l) + 1
  <2>1. CASE l = last
    <3>1. EndOf(t, l) = n
      BY <1>3, <2>1 DEF EndOf, n
    <3> QED
      BY <1>1, <1>2, <1>3, <1>4, <2>1, <3>1
  <2>2. CASE l # last
    <3>1. l + 1 \in 0 .. last /\ l + 1 # LineCount(t) /\ l \in Nat
      BY <1>2, <1>3, <2>2
    <3>2. EndOf(t, l) = StartOf(t, l + 1) - 1
      BY <3>1 DEF EndOf
    <3>3. StartOf(t, l + 1) \in 0 .. n
      BY <1>5, <3>1
    <3>4. StartOf(t, l + 1) # 0
      <4>1. LineOf(t, StartOf(t, l + 1)) = l + 1
        BY <1>5, <3>1
      <4>2. LineOf(t, 0) = 0
        BY LineOfSteps
      <4> QED
        BY <3>1, <4>1, <4>2
    <3>5. ASSUME NEW at \in 0 .. n PROVE at <= EndOf(t, l) <=> LineOf(t, at) <= l
      <4>1. StartOf(t, l + 1) <= at <=> l + 1 <= LineOf(t, at)
        BY <1>5, <3>1
      <4>2. LineOf(t, at) \in Nat
        BY <1>2
      <4> QED
        BY <3>1, <3>2, <3>3, <4>1, <4>2
    <3> DEFINE z == StartOf(t, l + 1)
    <3>6. z \in 0 .. n /\ z # 0 /\ EndOf(t, l) = z - 1
      BY <3>2, <3>3, <3>4
    <3> HIDE DEF z
    <3>7. EndOf(t, l) \in 0 .. n /\ z = EndOf(t, l) + 1
      BY <1>1, <3>6
    <3> QED
      BY <3>5, <3>7 DEF z
  <2> QED
    BY <2>1, <2>2
<1>7. ASSUME NEW l \in 0 .. last
      PROVE  StartOf(t, l) <= EndOf(t, l) /\ LineOf(t, EndOf(t, l)) = l
  <2>1. StartOf(t, l) <= EndOf(t, l)
    BY <1>1, <1>5, <1>6
  <2>2. LineOf(t, EndOf(t, l)) <= l /\ l <= LineOf(t, EndOf(t, l)) /\ LineOf(t, EndOf(t, l)) \in Nat
    <3>1. EndOf(t, l) \in 0 .. n
      BY <1>6
    <3> QED
      BY <1>1, <1>2, <1>5, <1>6, <2>1, <3>1
  <2> QED
    BY <2>1, <2>2
<1>8. LineCount(t) \in Nat /\ LineCount(t) > 0 /\ LineCount(t) - 1 = last
  BY <1>2, <1>3
<1> HIDE <1>3
<1> QED
  BY <1>1, <1>4, <1>5, <1>6, <1>7, <1>8 DEF Lined, n

\* Columns and clamped positions.
LEMMA ColumnIs ==
  ASSUME NEW t, Lined(t), NEW at \in 0 .. Len(t)
  PROVE  /\ LineOf(t, at) \in 0 .. LineCount(t) - 1
         /\ StartOf(t, LineOf(t, at)) \in 0 .. at /\ Column(t, at) \in 0 .. at
         /\ EndOf(t, LineOf(t, at)) \in at .. Len(t)
<1>1. LineOf(t, at) \in 0 .. LineCount(t) - 1 /\ LineCount(t) \in Nat /\ Len(t) \in Nat
  BY DEF Lined
<1>2. LineOf(t, at) <= LineOf(t, at)
  BY <1>1
<1>3. StartOf(t, LineOf(t, at)) <= at /\ at <= EndOf(t, LineOf(t, at))
  BY <1>1, <1>2 DEF Lined
<1>4. StartOf(t, LineOf(t, at)) \in 0 .. Len(t) /\ EndOf(t, LineOf(t, at)) \in 0 .. Len(t)
  BY <1>1 DEF Lined
<1> QED
  BY <1>1, <1>3, <1>4 DEF Column

\* A line and column are clamped into the text.
LEMMA AtIs ==
  ASSUME NEW t, Lined(t), NEW line \in Nat, NEW column \in Nat
  PROVE  At(t, line, column) \in 0 .. Len(t)
<1>1. CASE line >= LineCount(t)
  BY <1>1 DEF At, Lined
<1>2. CASE ~(line >= LineCount(t))
  <2>1. line \in 0 .. LineCount(t) - 1
    BY <1>2 DEF Lined
  <2>2. StartOf(t, line) \in 0 .. Len(t) /\ EndOf(t, line) \in 0 .. Len(t) /\ Len(t) \in Nat
    BY <2>1 DEF Lined
  <2> QED
    BY <1>2, <2>2 DEF At, Smaller
<1> QED
  BY <1>1, <1>2

-----------------------------------------------------------------------------
(* Runs *)

\* A run of characters of one kind ends where it may.
LEMMA RunEndIs ==
  ASSUME NEW t, NEW from \in Nat, NEW ceiling \in Nat, from <= ceiling, NEW kind
  PROVE  RunEnd(t, from, ceiling, kind) \in from .. ceiling
<1> DEFINE Q == {e \in from .. ceiling : e = ceiling \/ Kind(t[e + 1]) # kind}
<1>1. ceiling \in Q /\ Q \subseteq Nat
  OBVIOUS
<1>2. PICK e \in Q : \A m \in Q : e <= m
  <2> HIDE DEF Q
  <2> QED
    BY <1>1, LeastOf
<1>3. \A i \in from + 1 .. e : Kind(t[i]) = kind
  <2> SUFFICES ASSUME NEW i \in from + 1 .. e PROVE Kind(t[i]) = kind
    OBVIOUS
  <2>1. i - 1 \in from .. ceiling /\ (i - 1) + 1 = i /\ ~(e <= i - 1)
    BY <1>2
  <2> QED
    BY <1>2, <2>1
<1>4. \E s \in from .. ceiling :
         /\ \A i \in from + 1 .. s : Kind(t[i]) = kind
         /\ s = ceiling \/ Kind(t[s + 1]) # kind
  BY <1>2, <1>3
<1> QED
  BY <1>4 DEF RunEnd

\* And begins where it may.
LEMMA RunStartIs ==
  ASSUME NEW t, NEW floor \in Nat, NEW from \in Nat, floor <= from, NEW kind
  PROVE  RunStart(t, floor, from, kind) \in floor .. from
<1> DEFINE Q == {d \in 0 .. from - floor : from - d = floor \/ Kind(t[from - d]) # kind}
<1>1. from - floor \in Q /\ Q \subseteq Nat
  OBVIOUS
<1>2. PICK d \in Q : \A m \in Q : d <= m
  <2> HIDE DEF Q
  <2> QED
    BY <1>1, LeastOf
<1> DEFINE s == from - d
<1>3. \A i \in s + 1 .. from : Kind(t[i]) = kind
  <2> SUFFICES ASSUME NEW i \in s + 1 .. from PROVE Kind(t[i]) = kind
    OBVIOUS
  <2>1. from - i \in 0 .. from - floor /\ from - (from - i) = i /\ ~(d <= from - i)
    BY <1>2
  <2> QED
    BY <1>2, <2>1
<1>4. s \in floor .. from /\ (s = floor \/ Kind(t[s]) # kind)
  BY <1>2
<1> HIDE DEF s
<1>5. \E x \in floor .. from :
         /\ \A i \in x + 1 .. from : Kind(t[i]) = kind
         /\ x = floor \/ Kind(t[x]) # kind
  BY <1>3, <1>4
<1> QED
  BY <1>5 DEF RunStart

\* The blanks at the start of a line lie in it.
LEMMA IndentedIs ==
  ASSUME NEW t, Lined(t), NEW l \in 0 .. LineCount(t) - 1
  PROVE  /\ Indented(t, l) \in StartOf(t, l) .. EndOf(t, l)
         /\ Indented(t, l) \in 0 .. Len(t)
         /\ Indentation(t, l) \in Nat
         /\ StartOf(t, l) + Indentation(t, l) = Indented(t, l)
<1>1. /\ StartOf(t, l) \in 0 .. Len(t) /\ EndOf(t, l) \in 0 .. Len(t)
      /\ StartOf(t, l) <= EndOf(t, l) /\ Len(t) \in Nat
  BY DEF Lined
<1>2. Indented(t, l) \in StartOf(t, l) .. EndOf(t, l)
  BY <1>1, RunEndIs DEF Indented
<1> QED
  BY <1>1, <1>2 DEF Indentation

\* The places the motions lead to.
LEMMA WordStartLeftIs ==
  ASSUME NEW t, Lined(t), NEW at \in 0 .. Len(t)
  PROVE  WordStartLeft(t, at) \in 0 .. Len(t)
<1> DEFINE from  == IF Column(t, at) = 0 THEN Larger(at - 1, 0) ELSE at
           floor == StartOf(t, LineOf(t, from))
           solid == RunStart(t, floor, from, "blank")
<1>0. Len(t) \in Nat
  BY DEF Lined
<1>1. from \in 0 .. Len(t)
  BY <1>0 DEF Larger
<1> HIDE DEF from
<1>2. floor \in 0 .. from
  BY <1>1, ColumnIs
<1> HIDE DEF floor
<1>3. solid \in floor .. from
  BY <1>0, <1>1, <1>2, RunStartIs
<1>4. solid \in Nat /\ floor \in Nat /\ floor <= solid
  BY <1>0, <1>1, <1>2, <1>3
<1> HIDE DEF solid
<1>5. RunStart(t, floor, solid, Kind(t[solid])) \in floor .. solid
  BY <1>4, RunStartIs
<1>6. WordStartLeft(t, at) = IF solid = floor THEN floor ELSE RunStart(t, floor, solid, Kind(t[solid]))
  BY DEF WordStartLeft, from, floor, solid
<1> QED
  BY <1>0, <1>1, <1>2, <1>3, <1>5, <1>6

\* The end of a word lies in the text.
LEMMA WordEndRightIs ==
  ASSUME NEW t, Lined(t), NEW at \in 0 .. Len(t)
  PROVE  WordEndRight(t, at) \in 0 .. Len(t)
<1> DEFINE from    == IF at = EndOf(t, LineOf(t, at)) THEN Smaller(at + 1, Len(t)) ELSE at
           ceiling == EndOf(t, LineOf(t, from))
           solid   == RunEnd(t, from, ceiling, "blank")
<1>0. Len(t) \in Nat
  BY DEF Lined
<1>1. from \in 0 .. Len(t)
  BY <1>0 DEF Smaller
<1> HIDE DEF from
<1>2. ceiling \in from .. Len(t)
  BY <1>1, ColumnIs
<1> HIDE DEF ceiling
<1>3. solid \in from .. ceiling
  BY <1>0, <1>1, <1>2, RunEndIs
<1>4. solid \in Nat /\ ceiling \in Nat /\ solid <= ceiling
  BY <1>0, <1>1, <1>2, <1>3
<1> HIDE DEF solid
<1>5. RunEnd(t, solid, ceiling, Kind(t[solid + 1])) \in solid .. ceiling
  BY <1>4, RunEndIs
<1>6. WordEndRight(t, at) = IF solid = ceiling THEN ceiling
                            ELSE RunEnd(t, solid, ceiling, Kind(t[solid + 1]))
  BY DEF WordEndRight, from, ceiling, solid
<1> QED
  BY <1>0, <1>1, <1>2, <1>3, <1>5, <1>6

\* The two ends of a line that a cursor may go to.
LEMMA HomeAndEnd ==
  ASSUME NEW t, Lined(t), NEW at \in 0 .. Len(t)
  PROVE  SmartHome(t, at) \in 0 .. Len(t) /\ LineEnd(t, at) \in at .. Len(t)
<1> DEFINE l == LineOf(t, at)
<1>1. l \in 0 .. LineCount(t) - 1 /\ StartOf(t, l) \in 0 .. at /\ EndOf(t, l) \in at .. Len(t)
  BY ColumnIs
<1>2. Indented(t, l) \in 0 .. Len(t)
  BY <1>1, IndentedIs
<1>3. Len(t) \in Nat
  BY DEF Lined
<1> QED
  BY <1>1, <1>2, <1>3 DEF SmartHome, LineEnd

\* The word at a place holds the place.
LEMMA WordAtIs ==
  ASSUME NEW t, Lined(t), NEW at \in 0 .. Len(t), NEW w \in WordAt(t, at)
  PROVE  w.start \in 0 .. at /\ w.end \in at .. Len(t)
<1> DEFINE floor == StartOf(t, LineOf(t, at))
           ceiling == LineEnd(t, at)
<1>1. floor \in 0 .. at /\ ceiling \in at .. Len(t) /\ Len(t) \in Nat
  BY ColumnIs, HomeAndEnd DEF Lined
<1>2. w = [start |-> RunStart(t, floor, at, "word"), end |-> RunEnd(t, at, ceiling, "word")]
  BY DEF WordAt
<1> HIDE DEF floor, ceiling
<1>3. RunStart(t, floor, at, "word") \in floor .. at /\ RunEnd(t, at, ceiling, "word") \in at .. ceiling
  BY <1>1, RunStartIs, RunEndIs
<1> QED
  BY <1>1, <1>2, <1>3

(***************************************************************************)
(* Cursors                                                                 *)
(***************************************************************************)
\* Cursors between two positions.
CursorsIn(lo, hi) == [anchor : lo .. hi, active : lo .. hi, goal : Nat \cup {NoGoal}]

\* No two of them meet, and each starts behind the one before.
ApartTo(cs) ==
  \A i \in 2 .. Len(cs) :
    /\ RangeOf(cs[i - 1]).end <= RangeOf(cs[i]).start
    /\ RangeOf(cs[i - 1]).start < RangeOf(cs[i]).start

\* A set of cursors as SelectionSet keeps it.
Kept(set, lo, hi) ==
  /\ set.cursors \in Seq(CursorsIn(lo, hi))
  /\ set.primary \in DOMAIN set.cursors
  /\ ApartTo(set.cursors)

\* The range of a cursor lies where its two ends do.
LEMMA RangeIs ==
  ASSUME NEW lo \in Nat, NEW hi \in Nat, NEW c \in CursorsIn(lo, hi)
  PROVE  /\ c.anchor \in lo .. hi /\ c.active \in lo .. hi
         /\ RangeOf(c).start \in lo .. hi /\ RangeOf(c).end \in lo .. hi
         /\ RangeOf(c).start \in Nat /\ RangeOf(c).end \in Nat
         /\ RangeOf(c).start <= RangeOf(c).end
<1>1. c.anchor \in lo .. hi /\ c.active \in lo .. hi
  BY DEF CursorsIn
<1> QED
  BY <1>1 DEF RangeOf, Smaller, Larger

\* A cursor between two positions, and a caret.
LEMMA CursorIs ==
  ASSUME NEW lo \in Nat, NEW hi \in Nat, NEW a \in lo .. hi, NEW b \in lo .. hi
  PROVE  Cursor(a, b) \in CursorsIn(lo, hi) /\ Caret(a) \in CursorsIn(lo, hi)
BY DEF Cursor, Caret, CursorsIn

\* One step of SelectionSet::normalize.
Adding(done, c, main) ==
  IF done # <<>> /\ Intersect(RangeOf(Last(done)), RangeOf(c))
  THEN Append(Front(done), Merged(Last(done), c, main))
  ELSE Append(done, c)

\* Two cursors that are merged start where the first does.
LEMMA MergedIs ==
  ASSUME NEW lo \in Nat, NEW hi \in Nat, NEW a \in CursorsIn(lo, hi), NEW c \in CursorsIn(lo, hi),
         NEW main
  PROVE  /\ Merged(a, c, main) \in CursorsIn(lo, hi)
         /\ RangeOf(Merged(a, c, main)).start = RangeOf(a).start
<1> DEFINE start == RangeOf(a).start
           end == Larger(RangeOf(a).end, RangeOf(c).end)
<1>1. start \in lo .. hi /\ end \in lo .. hi /\ start <= end
  <2>1. /\ RangeOf(a).start \in lo .. hi /\ RangeOf(a).end \in lo .. hi
        /\ RangeOf(a).start <= RangeOf(a).end /\ RangeOf(c).end \in lo .. hi
    BY RangeIs
  <2> QED
    BY <2>1 DEF Larger
<1>2. Merged(a, c, main) = Cursor(end, start) \/ Merged(a, c, main) = Cursor(start, end)
  BY DEF Merged
<1> HIDE DEF start, end
<1>3. Cursor(end, start) \in CursorsIn(lo, hi) /\ Cursor(start, end) \in CursorsIn(lo, hi)
  BY <1>1, CursorIs
<1>4. RangeOf(Cursor(end, start)).start = start /\ RangeOf(Cursor(start, end)).start = start
  BY <1>1 DEF Cursor, RangeOf, Smaller
<1> QED
  BY <1>2, <1>3, <1>4 DEF start

\* Ranges that do not meet lie apart.
LEMMA DoNotMeet ==
  ASSUME NEW r, NEW s, r.start \in Nat, r.end \in Nat, s.start \in Nat, s.end \in Nat,
         r.start <= r.end, s.start <= s.end, r.start <= s.start, ~Intersect(r, s)
  PROVE  r.end <= s.start /\ r.start < s.start
BY DEF Intersect, Empty, Holds

\* The step of SelectionSet::normalize: a cursor that starts no earlier than
\* those before it is added or merged, and they stay apart.
LEMMA AddingKeeps ==
  ASSUME NEW lo \in Nat, NEW hi \in Nat, NEW done \in Seq(CursorsIn(lo, hi)),
         NEW c \in CursorsIn(lo, hi), NEW main, ApartTo(done),
         done # <<>> => RangeOf(Last(done)).start <= RangeOf(c).start
  PROVE  LET r == Adding(done, c, main)
         IN  /\ r \in Seq(CursorsIn(lo, hi)) /\ r # <<>> /\ ApartTo(r)
             /\ RangeOf(Last(r)).start <= RangeOf(c).start
<1> DEFINE K == CursorsIn(lo, hi)
           m == Len(done)
           r == Adding(done, c, main)
<1>1. m \in Nat
  OBVIOUS
<1>2. \A i \in 1 .. m : RangeOf(done[i]).start \in Nat /\ RangeOf(done[i]).end \in Nat
  BY RangeIs
<1>3. RangeOf(c).start \in Nat /\ RangeOf(c).end \in Nat /\ RangeOf(c).start <= RangeOf(c).end
  BY RangeIs
<1>4. CASE done = <<>>
  <2>1. r = Append(done, c)
    BY <1>4 DEF Adding
  <2>2. r \in Seq(K) /\ r # <<>> /\ Len(r) = 1 /\ r[1] = c
    <3>1. /\ Append(done, c) \in Seq(K) /\ Append(done, c) # <<>>
          /\ Len(Append(done, c)) = Len(done) + 1 /\ Append(done, c)[Len(done) + 1] = c
      BY AppendProperties
    <3>2. Len(done) = 0
      BY <1>4
    <3> QED
      BY <2>1, <3>1, <3>2
  <2> HIDE DEF r
  <2>3. ApartTo(r) /\ Last(r) = c
    BY <2>2 DEF ApartTo, Last
  <2> QED
    BY <1>3, <2>2, <2>3 DEF r
<1>5. CASE done # <<>> /\ Intersect(RangeOf(Last(done)), RangeOf(c))
  <2> DEFINE a == Last(done)
             e == Merged(a, c, main)
             f == Front(done)
  <2>1. r = Append(f, e)
    BY <1>5 DEF Adding
  <2>2. m # 0 /\ m \in 1 .. m /\ a = done[m]
    BY <1>1, <1>5 DEF Last
  <2>3. e \in K /\ RangeOf(e).start = RangeOf(a).start
    BY <2>2, MergedIs
  <2>4. f \in Seq(K) /\ Len(f) = m - 1 /\ \A i \in 1 .. m - 1 : f[i] = done[i]
    <3>1. m - 1 \in 0 .. Len(done)
      BY <1>1, <2>2
    <3> DEFINE q == m - 1
    <3>2. q \in 0 .. Len(done) /\ f = SubSeq(done, 1, q)
      BY <3>1 DEF Front
    <3> HIDE DEF q, f
    <3>3. f \in Seq(K) /\ Len(f) = q /\ \A i \in 1 .. q : f[i] = done[i]
      BY <3>2
    <3> QED
      BY <3>3 DEF q
  <2> HIDE DEF a, e, f, r
  <2>5. /\ r \in Seq(K) /\ r # <<>> /\ Len(r) = (m - 1) + 1 /\ r[(m - 1) + 1] = e
        /\ \A i \in 1 .. m - 1 : r[i] = done[i]
    BY <2>1, <2>3, <2>4, AppendProperties
  <2>6. Len(r) = m /\ r[m] = e
    BY <1>1, <2>5
  <2>7. \A i \in 1 .. m : RangeOf(r[i]).start = RangeOf(done[i]).start
    <3> SUFFICES ASSUME NEW i \in 1 .. m PROVE RangeOf(r[i]).start = RangeOf(done[i]).start
      OBVIOUS
    <3>1. CASE i = m
      BY <2>2, <2>3, <2>6, <3>1
    <3>2. CASE i # m
      <4>1. i \in 1 .. m - 1
        BY <1>1, <3>2
      <4> QED
        BY <2>5, <4>1
    <3> QED
      BY <3>1, <3>2
  <2>8. ApartTo(r)
    <3> SUFFICES ASSUME NEW i \in 2 .. m
                 PROVE  /\ RangeOf(r[i - 1]).end <= RangeOf(r[i]).start
                        /\ RangeOf(r[i - 1]).start < RangeOf(r[i]).start
      BY <2>6 DEF ApartTo
    <3>1. i - 1 \in 1 .. m - 1 /\ i \in 1 .. m /\ i - 1 \in 1 .. m
      BY <1>1
    <3>2. /\ RangeOf(done[i - 1]).end <= RangeOf(done[i]).start
          /\ RangeOf(done[i - 1]).start < RangeOf(done[i]).start
      BY DEF ApartTo
    <3>3. r[i - 1] = done[i - 1] /\ RangeOf(r[i]).start = RangeOf(done[i]).start
      BY <2>5, <2>7, <3>1
    <3> QED
      BY <3>2, <3>3
  <2>9. RangeOf(Last(r)).start <= RangeOf(c).start
    BY <1>5, <2>3, <2>6 DEF Last, a
  <2> QED
    BY <2>5, <2>8, <2>9 DEF r
<1>6. CASE done # <<>> /\ ~Intersect(RangeOf(Last(done)), RangeOf(c))
  <2>1. r = Append(done, c)
    BY <1>6 DEF Adding
  <2>2. m # 0 /\ m \in 1 .. m /\ Last(done) = done[m]
    BY <1>1, <1>6 DEF Last
  <2>3. /\ RangeOf(done[m]).end <= RangeOf(c).start
        /\ RangeOf(done[m]).start < RangeOf(c).start
    <3>1. RangeOf(done[m]).start <= RangeOf(done[m]).end
      BY <2>2, RangeIs
    <3> QED
      BY <1>2, <1>3, <1>6, <2>2, <3>1, DoNotMeet
  <2> HIDE DEF r
  <2>4. /\ r \in Seq(K) /\ r # <<>> /\ Len(r) = m + 1 /\ r[m + 1] = c
        /\ \A i \in 1 .. m : r[i] = done[i]
    BY <2>1, AppendProperties
  <2>5. ApartTo(r)
    <3> SUFFICES ASSUME NEW i \in 2 .. m + 1
                 PROVE  /\ RangeOf(r[i - 1]).end <= RangeOf(r[i]).start
                        /\ RangeOf(r[i - 1]).start < RangeOf(r[i]).start
      BY <2>4 DEF ApartTo
    <3>1. CASE i = m + 1
      <4>1. i - 1 = m
        BY <1>1, <3>1
      <4> QED
        BY <2>2, <2>3, <2>4, <3>1, <4>1
    <3>2. CASE i # m + 1
      <4>1. i \in 2 .. m /\ i - 1 \in 1 .. m /\ i \in 1 .. m
        BY <1>1, <3>2
      <4> QED
        BY <2>4, <4>1 DEF ApartTo
    <3> QED
      BY <3>1, <3>2
  <2>6. RangeOf(Last(r)).start <= RangeOf(c).start
    BY <1>1, <1>3, <2>4 DEF Last
  <2> QED
    BY <2>4, <2>5, <2>6 DEF r
<1> QED
  BY <1>4, <1>5, <1>6

\* The cursors as SelectionSet::normalize orders them.
Ordered(all) ==
  [i \in DOMAIN all |-> [start |-> RangeOf(all[i]).start,
                         end   |-> RangeOf(all[i]).end,
                         is    |-> all[i]]]

\* Cursors with their ranges, as they are sorted.
Whole(K) == {[start |-> RangeOf(c).start, end |-> RangeOf(c).end, is |-> c] : c \in K}

\* Cursors sorted by where they start.
LEMMA OrderedIs ==
  ASSUME NEW lo \in Nat, NEW hi \in Nat, NEW all \in Seq(CursorsIn(lo, hi))
  PROVE  LET s == Sorted(Ordered(all))
         IN  /\ Ordered(all) \in Seq(Whole(CursorsIn(lo, hi))) /\ Len(Ordered(all)) = Len(all)
             /\ s \in Seq(Whole(CursorsIn(lo, hi)))
             /\ Len(s) = Len(all)
             /\ \A i \in 1 .. Len(all) : s[i].is \in CursorsIn(lo, hi)
             /\ \A i, j \in 1 .. Len(all) :
                  i < j => RangeOf(s[i].is).start <= RangeOf(s[j].is).start
<1> DEFINE K == CursorsIn(lo, hi)
           n == Len(all)
           o == Ordered(all)
           s == Sorted(o)
<1>1. n \in Nat /\ DOMAIN all = 1 .. n /\ \A i \in 1 .. n : all[i] \in K
  OBVIOUS
<1> HIDE DEF n
<1>2. o \in [1 .. n -> Whole(K)]
  BY <1>1 DEF Ordered, Whole
<1> HIDE DEF o
<1>3. o \in Seq(Whole(K)) /\ Len(o) = n
  BY <1>1, <1>2
<1>4. Ranges(Whole(K))
  <2> SUFFICES ASSUME NEW c \in K
               PROVE  RangeOf(c).start \in Nat /\ RangeOf(c).end \in Nat
    BY DEF Ranges, Whole
  <2> QED
    BY RangeIs
<1>5. s \in Seq(Whole(K)) /\ Len(s) = n /\ Ascends(s)
  BY <1>3, <1>4, SortedPermutes
<1> HIDE DEF s
<1>6. ASSUME NEW i \in 1 .. n
      PROVE  s[i].is \in K /\ s[i].start = RangeOf(s[i].is).start
             /\ s[i].start \in Nat /\ s[i].end \in Nat
  <2>1. s[i] \in Whole(K)
    BY <1>5
  <2>2. PICK c \in K : s[i] = [start |-> RangeOf(c).start, end |-> RangeOf(c).end, is |-> c]
    BY <2>1 DEF Whole
  <2>3. RangeOf(c).start \in Nat /\ RangeOf(c).end \in Nat
    BY RangeIs
  <2> QED
    BY <2>2, <2>3
<1>7. ASSUME NEW i \in 1 .. n, NEW j \in 1 .. n, i < j
      PROVE  RangeOf(s[i].is).start <= RangeOf(s[j].is).start
  <2>1. DOMAIN s = 1 .. n
    BY <1>5
  <2>2. ~Precedes(s[j], s[i])
    BY <1>7, <2>1, <1>5 DEF Ascends
  <2>3. s[i].start <= s[j].start
    BY <1>6, <2>2 DEF Precedes
  <2> QED
    BY <1>6, <2>3
<1> QED
  BY <1>3, <1>5, <1>6, <1>7 DEF s, o, n

\* Adding a cursor returns cursors.
LEMMA AddingType ==
  ASSUME NEW lo \in Nat, NEW hi \in Nat, NEW done \in Seq(CursorsIn(lo, hi)),
         NEW c \in CursorsIn(lo, hi), NEW main
  PROVE  Adding(done, c, main) \in Seq(CursorsIn(lo, hi))
<1> DEFINE K == CursorsIn(lo, hi)
           m == Len(done)
<1>1. Append(done, c) \in Seq(K)
  BY AppendProperties
<1>2. ASSUME done # <<>> PROVE Append(Front(done), Merged(Last(done), c, main)) \in Seq(K)
  <2>1. m \in Nat /\ m # 0
    BY <1>2
  <2>2. Last(done) \in K
    BY <2>1 DEF Last
  <2>3. Front(done) \in Seq(K)
    <3>1. m - 1 \in 0 .. Len(done)
      BY <2>1
    <3> DEFINE q == m - 1
    <3>2. q \in 0 .. Len(done) /\ Front(done) = SubSeq(done, 1, q)
      BY <3>1 DEF Front
    <3> HIDE DEF q
    <3> QED
      BY <3>2
  <2>4. Merged(Last(done), c, main) \in K
    BY <2>2, MergedIs
  <2> QED
    BY <2>3, <2>4, AppendProperties
<1> QED
  BY <1>1, <1>2 DEF Adding

\* SelectionSet::normalize, step by step.
LEMMA NormalizedSteps ==
  ASSUME NEW lo \in Nat, NEW hi \in Nat, NEW all \in Seq(CursorsIn(lo, hi)),
         NEW p \in 1 .. Len(all)
  PROVE  LET s == Sorted(Ordered(all))
             r == Normalized(all, p)
         IN  \E f \in [0 .. Len(all) -> Seq(CursorsIn(lo, hi))] :
               /\ f[0] = <<>>
               /\ \A i \in 1 .. Len(all) : f[i] = Adding(f[i - 1], s[i].is, all[p])
               /\ r.cursors = f[Len(all)]
               /\ r.cursors # <<>> => r.primary \in DOMAIN r.cursors
<1> DEFINE K == CursorsIn(lo, hi)
           n == Len(all)
           main == all[p]
           s == Sorted(Ordered(all))
           r == Normalized(all, p)
           G == [q \in Seq(K) \X (1 .. n) |-> Adding(q[1], s[q[2]].is, main)]
           F(g) == [i \in 0 .. n |-> IF i = 0 THEN <<>> ELSE Adding(g[i - 1], s[i].is, main)]
           added == CHOOSE g : g = F(g)
<1>1. n \in Nat
  OBVIOUS
<1>2. \A i \in 1 .. n : s[i].is \in K
  BY OrderedIs
<1>3. r.cursors = added[n]
  BY DEF Normalized, Ordered, Adding
<1> DEFINE merged == added[n]
           itself == {i \in DOMAIN merged : /\ merged[i] = main
                                            /\ \A j \in 1 .. i - 1 : ~(merged[j] = main)}
           where == {i \in DOMAIN merged :
                       /\ Intersect(RangeOf(merged[i]), RangeOf(main))
                       /\ \A j \in 1 .. i - 1 : ~Intersect(RangeOf(merged[j]), RangeOf(main))}
<1>4. r.primary = CHOOSE i \in (IF itself # {} THEN itself ELSE
                                 IF where # {} THEN where ELSE {1}) : TRUE
  BY DEF Normalized, Ordered, Adding
<1> HIDE DEF n, s, r, main
<1>5. G \in [Seq(K) \X (1 .. n) -> Seq(K)]
  <2>1. ASSUME NEW q \in Seq(K) \X (1 .. n) PROVE Adding(q[1], s[q[2]].is, main) \in Seq(K)
    <3>1. q[1] \in Seq(K) /\ s[q[2]].is \in K
      BY <1>2
    <3> QED
      BY <3>1, AddingType
  <2> QED
    BY <2>1
<1>6. \A d \in Seq(K), i \in 1 .. n : G[<<d, i>>] = Adding(d, s[i].is, main)
  OBVIOUS
<1> HIDE DEF G, K
<1>7. PICK f \in [0 .. n -> Seq(K)] : Steps(f, <<>>, n, G)
  <2>1. <<>> \in Seq(K)
    OBVIOUS
  <2> QED
    BY <1>1, <1>5, <2>1, Trail
<1>8. f[0] = <<>> /\ \A i \in 1 .. n : f[i] = Adding(f[i - 1], s[i].is, main)
  <2>1. ASSUME NEW i \in 1 .. n PROVE f[i] = Adding(f[i - 1], s[i].is, main)
    <3>1. f[i - 1] \in Seq(K) /\ f[i] = G[<<f[i - 1], i>>]
      BY <1>1, <1>7 DEF Steps
    <3> QED
      BY <1>6, <3>1
  <2> QED
    BY <1>7, <2>1 DEF Steps
<1>9. f = F(f)
  <2>1. f = [i \in 0 .. n |-> f[i]]
    OBVIOUS
  <2>2. ASSUME NEW i \in 0 .. n
        PROVE  f[i] = IF i = 0 THEN <<>> ELSE Adding(f[i - 1], s[i].is, main)
    <3>1. CASE i = 0
      BY <1>8, <3>1
    <3>2. CASE i # 0
      <4>1. i \in 1 .. n
        BY <1>1, <3>2
      <4> QED
        BY <1>8, <3>2, <4>1
    <3> QED
      BY <3>1, <3>2
  <2> QED
    BY <2>1, <2>2
<1>10. added = F(added)
  <2> HIDE DEF F
  <2> QED
    BY <1>9
<1>11. StepAlike(added, f, n)
  <2> DEFINE x == added
  <2>1. x = [i \in 0 .. n |-> IF i = 0 THEN <<>> ELSE Adding(x[i - 1], s[i].is, main)]
    BY <1>10
  <2> HIDE DEF x
  <2>2. x[0] = <<>>
    <3>1. 0 \in 0 .. n
      BY <1>1
    <3> QED
      BY <2>1, <3>1
  <2>3. \A i \in 1 .. n : x[i] = Adding(x[i - 1], s[i].is, main)
    <3> SUFFICES ASSUME NEW i \in 1 .. n PROVE x[i] = Adding(x[i - 1], s[i].is, main)
      OBVIOUS
    <3>1. i \in 0 .. n /\ i # 0
      BY <1>1
    <3> QED
      BY <2>1, <3>1
  <2>4. StepAlike(x, f, n)
    BY <1>8, <2>2, <2>3 DEF StepAlike
  <2> QED
    BY <2>4 DEF x
<1>12. n \in 0 .. n
  BY <1>1
<1> HIDE DEF added
<1>13. merged = f[n]
  BY <1>1, <1>11, <1>12, SameTrail
<1>14. ASSUME merged # <<>> PROVE r.primary \in DOMAIN merged
  <2>1. merged \in Seq(K)
    BY <1>12, <1>13
  <2> DEFINE x == merged
  <2>2. x \in Seq(K) /\ x # <<>>
    BY <1>14, <2>1
  <2> HIDE DEF x
  <2>3. 1 \in DOMAIN x
    <3>1. Len(x) \in Nat /\ Len(x) # 0 /\ DOMAIN x = 1 .. Len(x)
      BY <2>2
    <3> QED
      BY <3>1
  <2> DEFINE Q == IF itself # {} THEN itself ELSE IF where # {} THEN where ELSE {1}
  <2>4. Q \subseteq DOMAIN merged /\ Q # {}
    <3>1. itself \subseteq DOMAIN merged /\ where \subseteq DOMAIN merged /\ {1} \subseteq DOMAIN merged
      BY <2>3 DEF x
    <3> HIDE DEF itself, where, merged
    <3> QED
      BY <3>1
  <2>5. r.primary = CHOOSE i \in Q : TRUE
    BY <1>4
  <2> HIDE DEF Q
  <2>6. r.primary \in Q
    BY <2>4, <2>5
  <2> QED
    BY <2>4, <2>6
<1> QED
  BY <1>3, <1>8, <1>13, <1>14 DEF n, s, r, main, K

\* However cursors lie, what is made of them lies apart.
LEMMA NormalizedKeeps ==
  ASSUME NEW lo \in Nat, NEW hi \in Nat, NEW all \in Seq(CursorsIn(lo, hi)),
         NEW p \in 1 .. Len(all)
  PROVE  Kept(Normalized(all, p), lo, hi)
<1> DEFINE K == CursorsIn(lo, hi)
           n == Len(all)
           s == Sorted(Ordered(all))
           r == Normalized(all, p)
           main == all[p]
<1>1. PICK f \in [0 .. n -> Seq(K)] :
           /\ f[0] = <<>>
           /\ \A i \in 1 .. n : f[i] = Adding(f[i - 1], s[i].is, main)
           /\ r.cursors = f[n]
           /\ r.cursors # <<>> => r.primary \in DOMAIN r.cursors
  BY NormalizedSteps
<1>2. /\ \A i \in 1 .. n : s[i].is \in K
      /\ \A i, j \in 1 .. n : i < j => RangeOf(s[i].is).start <= RangeOf(s[j].is).start
  BY OrderedIs
<1>3. n \in Nat /\ n > 0
  <2>1. n \in Nat
    OBVIOUS
  <2> QED
    BY <2>1
<1> HIDE DEF n, s, r, main
<1> DEFINE Good(k) == /\ ApartTo(f[k])
                      /\ k > 0 => /\ f[k] # <<>>
                                  /\ RangeOf(Last(f[k])).start <= RangeOf(s[k].is).start
           T == {k \in Nat : k <= n => Good(k)}
<1>4. 0 \in T
  BY <1>1 DEF ApartTo
<1>5. ASSUME NEW k \in Nat, k \in T PROVE k + 1 \in T
  <2> SUFFICES ASSUME k + 1 <= n PROVE Good(k + 1)
    OBVIOUS
  <2>1. k + 1 \in 1 .. n /\ (k + 1) - 1 = k /\ k \in 0 .. n /\ k <= n
    BY <1>3
  <2> DEFINE d == f[k]
             c == s[k + 1].is
  <2>2. d \in Seq(K) /\ c \in K /\ f[k + 1] = Adding(d, c, main) /\ ApartTo(d)
    BY <1>1, <1>2, <1>5, <2>1
  <2>3. d # <<>> => RangeOf(Last(d)).start <= RangeOf(c).start
    <3>1. CASE k = 0
      BY <1>1, <3>1
    <3>2. CASE k # 0
      <4>1. k > 0 /\ k \in 1 .. n /\ k < k + 1
        BY <2>1, <3>2
      <4>2. RangeOf(Last(d)).start <= RangeOf(s[k].is).start /\ d # <<>>
        BY <1>5, <2>1, <4>1
      <4>3. RangeOf(s[k].is).start <= RangeOf(c).start
        BY <1>2, <2>1, <4>1
      <4>4. RangeOf(s[k].is).start \in Nat /\ RangeOf(c).start \in Nat
        BY <1>2, <2>2, <4>1, RangeIs
      <4>5. Last(d) \in K
        <5>1. Len(d) \in 1 .. Len(d)
          <6>1. Len(d) \in Nat /\ Len(d) # 0
            BY <2>2, <4>2
          <6> QED
            BY <6>1
        <5> QED
          BY <2>2, <5>1 DEF Last
      <4>6. RangeOf(Last(d)).start \in Nat
        BY <4>5, RangeIs
      <4> QED
        BY <4>2, <4>3, <4>4, <4>6
    <3> QED
      BY <3>1, <3>2
  <2> HIDE DEF d, c
  <2>4. LET x == Adding(d, c, main)
        IN  /\ x \in Seq(CursorsIn(lo, hi)) /\ x # <<>> /\ ApartTo(x)
            /\ RangeOf(Last(x)).start <= RangeOf(c).start
    BY <2>2, <2>3, AddingKeeps
  <2> QED
    BY <2>2, <2>4 DEF c
<1> HIDE DEF T
<1>6. n \in T
  BY <1>3, <1>4, <1>5, NatSteps
<1>7. Good(n)
  BY <1>3, <1>6 DEF T
<1>8. n \in 0 .. n
  BY <1>3
<1>9. r.cursors \in Seq(K) /\ ApartTo(r.cursors) /\ r.primary \in DOMAIN r.cursors
  BY <1>1, <1>3, <1>7, <1>8
<1> QED
  BY <1>9 DEF Kept, r

(***************************************************************************)
(* The invariant                                                           *)
(***************************************************************************)
\* The step of InverseRestores.
Restoring ==
  inverse' # <<>> =>
    /\ Applied(text', inverse') = text
    /\ Applied(text, Inverted(text', inverse')) = text'

\* The lines whose blanks were put there by a new line.
TypedLines == IsFiniteSet(typed) /\ typed \subseteq [line : Nat, columns : Nat \ {0}]

\* The inductive invariant: the cursors are as SelectionSet keeps them, and
\* the journal leads from the text the server has to the one on screen.
IInv ==
  /\ text \in Seq(Characters)
  /\ Kept(Selected, 0, Len(text))
  /\ TypedLines
  /\ JournalGoes(Characters, server, journal, text)
  /\ edits \in Nat

\* What is to be shown of every step.
StepGood == IInv' /\ Restoring

\* The changes of a text.
ChangesIn(t) == {c \in ChangesOf(Characters) : InPlace(t, c)}

\* What a change of a text is.
LEMMA ChangesInIs ==
  ASSUME NEW t \in Seq(Characters), NEW c \in ChangesIn(t)
  PROVE  /\ c \in ChangesOf(Characters) /\ InPlace(t, c) /\ Len(t) \in Nat
         /\ c.start \in Nat /\ c.end \in Nat /\ c.start <= c.end /\ c.end <= Len(t)
         /\ c.ins \in Seq(Characters) /\ Len(c.ins) \in Nat
<1>1. c \in ChangesOf(Characters) /\ InPlace(t, c) /\ Len(t) \in Nat
  BY DEF ChangesIn
<1>2. c.start \in Nat /\ c.end \in Nat /\ c.ins \in Seq(Characters)
  BY <1>1 DEF ChangesOf
<1>3. Len(c.ins) \in Nat
  BY <1>2
<1> QED
  BY <1>1, <1>2, <1>3 DEF InPlace

\* A change between two positions of a text.
LEMMA ChangeIn ==
  ASSUME NEW t, NEW n \in Nat, n = Len(t), NEW a \in 0 .. n, NEW b \in 0 .. n, a <= b,
         NEW ins \in Seq(Characters)
  PROVE  /\ Change(a, b, ins) \in ChangesIn(t)
         /\ Change(a, b, ins).start = a /\ Change(a, b, ins).end = b /\ Change(a, b, ins).ins = ins
BY DEF ChangesIn, ChangesOf, InPlace, Change

\* Changes of a text lie in it.
LEMMA SeqIn ==
  ASSUME NEW t \in Seq(Characters), NEW cs \in Seq(ChangesIn(t))
  PROVE  cs \in Seq(ChangesOf(Characters)) /\ AllIn(t, cs) /\ Len(cs) \in Nat /\ DOMAIN cs = 1 .. Len(cs)
<1>1. ChangesIn(t) \subseteq ChangesOf(Characters)
  BY DEF ChangesIn
<1>2. cs \in Seq(ChangesOf(Characters))
  BY <1>1, SeqMonotonic
<1>3. Len(cs) \in Nat /\ DOMAIN cs = 1 .. Len(cs)
  OBVIOUS
<1>4. AllIn(t, cs)
  BY <1>3 DEF AllIn, ChangesIn
<1> QED
  BY <1>2, <1>3, <1>4

\* A sequence given by its length and elements.
LEMMA SeqOfLength ==
  ASSUME NEW S, NEW n \in Nat, NEW f \in [1 .. n -> S]
  PROVE  f \in Seq(S) /\ Len(f) = n
OBVIOUS

\* An edit keeps the invariant, and can be taken back.
LEMMA CommitKeeps ==
  ASSUME IInv, NEW changes \in Seq(ChangesIn(text)), Mounts(changes), NEW after,
         Commit(changes, after), TypedLines',
         Fits(changes, Len(text)) => Kept(after, 0, Len(Applied(text, changes)))
  PROVE  StepGood
<1> DEFINE u == Applied(text, changes)
<1>1. text \in Seq(Characters) /\ JournalGoes(Characters, server, journal, text) /\ edits \in Nat
  BY DEF IInv
<1>2. /\ edits' = edits + 1 /\ ~Overlapping(changes)
      /\ text' = u /\ inverse' = Inverted(text, changes)
      /\ journal' = Journal(journal, text, changes)
      /\ cursors' = after.cursors /\ primary' = after.primary /\ server' = server
  BY DEF Commit, Show
<1>3. changes \in Seq(ChangesOf(Characters)) /\ AllIn(text, changes)
  BY <1>1, SeqIn
<1>4. Fits(changes, Len(text))
  BY <1>1, <1>2, <1>3, FitsIf
<1>5. u \in Seq(Characters)
  BY <1>1, <1>3, <1>4, AppliedIs
<1>6. /\ Applied(u, Inverted(text, changes)) = text
      /\ Applied(text, Inverted(u, Inverted(text, changes))) = u
  BY <1>1, <1>3, <1>4, TakesBack
<1>7. JournalGoes(Characters, server, Journal(journal, text, changes), u)
  BY <1>1, <1>3, <1>4, JournalGoesOn
<1>8. Kept(after, 0, Len(u))
  BY <1>4
<1> HIDE DEF u
<1>9. Kept(Selected, 0, Len(text))'
  <2>1. cursors' = after.cursors /\ primary' = after.primary /\ text' = u
    BY <1>2
  <2> QED
    BY <1>8, <2>1 DEF Kept, Selected
<1>10. JournalGoes(Characters, server, journal, text)'
  BY <1>2, <1>7
<1>11. IInv'
  BY <1>1, <1>2, <1>5, <1>9, <1>10 DEF IInv
<1>12. Restoring
  BY <1>2, <1>6 DEF Restoring
<1> QED
  BY <1>11, <1>12 DEF StepGood

\* So does a key that only moves cursors.
LEMMA ShowKeeps ==
  ASSUME IInv, NEW set, Kept(set, 0, Len(text)), Show(set), inverse' = <<>>,
         UNCHANGED <<text, typed, journal, server, edits>>
  PROVE  StepGood
<1>1. Kept(Selected, 0, Len(text))'
  <2>1. cursors' = set.cursors /\ primary' = set.primary /\ text' = text
    BY DEF Show
  <2> QED
    BY <2>1 DEF Kept, Selected
<1>2. IInv'
  BY <1>1 DEF IInv, TypedLines, JournalGoes
<1> QED
  BY <1>2 DEF StepGood, Restoring

\* A motion: the text stays, and any cursors are normalized.
LEMMA SelectKeeps ==
  ASSUME IInv, NEW set, Kept(set, 0, Len(text)), Select(set)
  PROVE  StepGood
BY ShowKeeps DEF Select

\* The state's cursors.
LEMMA CursorsAre ==
  ASSUME IInv
  PROVE  /\ text \in Seq(Characters) /\ Len(text) \in Nat /\ Lined(text)
         /\ cursors \in Seq(CursorsIn(0, Len(text)))
         /\ Len(cursors) \in Nat /\ DOMAIN cursors = 1 .. Len(cursors)
         /\ primary \in 1 .. Len(cursors)
         /\ \A i \in 1 .. Len(cursors) : cursors[i] \in CursorsIn(0, Len(text))
         /\ ApartTo(cursors)
         /\ Selected.cursors = cursors /\ Selected.primary = primary
<1>1. Selected.cursors = cursors /\ Selected.primary = primary
  BY DEF Selected
<1>2. cursors \in Seq(CursorsIn(0, Len(text))) /\ primary \in DOMAIN cursors /\ ApartTo(cursors)
  BY <1>1 DEF IInv, Kept
<1>3. Len(cursors) \in Nat /\ DOMAIN cursors = 1 .. Len(cursors)
  BY <1>2
<1>4. text \in Seq(Characters) /\ Len(text) \in Nat
  BY DEF IInv
<1>5. Lined(text)
  BY <1>4, LinesAre
<1> QED
  BY <1>1, <1>2, <1>3, <1>4, <1>5

\* Cursors put elsewhere, one by one (SelectionSet::map).
LEMMA MappedKeeps ==
  ASSUME NEW set, NEW n \in Nat, NEW lo \in Nat, NEW hi \in Nat,
         DOMAIN set.cursors = 1 .. n, set.primary \in 1 .. n,
         NEW g, DOMAIN g = 1 .. n, \A i \in 1 .. n : g[i] \in CursorsIn(lo, hi),
         g = [i \in 1 .. n |-> g[i]]
  PROVE  Kept(Normalized(g, set.primary), lo, hi)
<1>1. g \in [1 .. n -> CursorsIn(lo, hi)]
  OBVIOUS
<1>2. g \in Seq(CursorsIn(lo, hi)) /\ Len(g) = n
  BY <1>1, SeqOfLength
<1> QED
  BY <1>2, NormalizedKeeps

\* One cursor is apart.
LEMMA KeptAlone ==
  ASSUME NEW lo \in Nat, NEW hi \in Nat, NEW c \in CursorsIn(lo, hi)
  PROVE  Kept([cursors |-> <<c>>, primary |-> 1], lo, hi)
<1> DEFINE s == <<c>>
<1>1. s \in Seq(CursorsIn(lo, hi)) /\ Len(s) = 1 /\ DOMAIN s = 1 .. 1
  OBVIOUS
<1> HIDE DEF s
<1>2. ApartTo(s)
  BY <1>1 DEF ApartTo
<1> QED
  BY <1>1, <1>2 DEF Kept, s

\* A place kept at its line and column in another text.
LEMMA ShiftedIs ==
  ASSUME NEW t, Lined(t), NEW u, Lined(u), NEW c \in CursorsIn(0, Len(t)), NEW lines \in Int
  PROVE  Shifted(t, u, c, lines) \in CursorsIn(0, Len(u))
<1> DEFINE Put(at) == At(u, Larger(LineOf(t, at) + lines, 0), Column(t, at))
<1>1. Len(t) \in Nat /\ Len(u) \in Nat
  BY DEF Lined
<1>2. ASSUME NEW at \in 0 .. Len(t) PROVE Put(at) \in 0 .. Len(u)
  <2>1. LineOf(t, at) \in 0 .. LineCount(t) - 1 /\ Column(t, at) \in 0 .. at
    BY ColumnIs
  <2>2. Larger(LineOf(t, at) + lines, 0) \in Nat /\ Column(t, at) \in Nat
    BY <1>1, <2>1 DEF Larger
  <2> QED
    BY <2>2, AtIs
<1>3. c.anchor \in 0 .. Len(t) /\ c.active \in 0 .. Len(t)
  BY DEF CursorsIn
<1>4. Put(c.anchor) \in 0 .. Len(u) /\ Put(c.active) \in 0 .. Len(u)
  BY <1>2, <1>3
<1>5. Shifted(t, u, c, lines) = Cursor(Put(c.anchor), Put(c.active))
  BY DEF Shifted
<1> HIDE DEF Put
<1>6. Cursor(Put(c.anchor), Put(c.active)) \in CursorsIn(0, Len(u))
  BY <1>1, <1>4, CursorIs
<1> QED
  BY <1>5, <1>6

\* Cursors that are put elsewhere by lines are kept.
LEMMA AllShifted ==
  ASSUME IInv, NEW u \in Seq(Characters), NEW lines \in Int
  PROVE  Kept(Mapped(Selected, LAMBDA c : Shifted(text, u, c, lines)), 0, Len(u))
<1> DEFINE n == Len(cursors)
           g == [i \in DOMAIN Selected.cursors |-> Shifted(text, u, Selected.cursors[i], lines)]
<1>1. /\ Lined(text) /\ n \in Nat /\ DOMAIN cursors = 1 .. n /\ primary \in 1 .. n
      /\ \A i \in 1 .. n : cursors[i] \in CursorsIn(0, Len(text))
      /\ Selected.cursors = cursors /\ Selected.primary = primary
  BY CursorsAre
<1>2. Lined(u) /\ Len(u) \in Nat
  BY LinesAre
<1> HIDE DEF n
<1>3. g = [i \in 1 .. n |-> Shifted(text, u, cursors[i], lines)]
  BY <1>1
<1>4. \A i \in 1 .. n : g[i] \in CursorsIn(0, Len(u))
  <2> SUFFICES ASSUME NEW i \in 1 .. n PROVE g[i] \in CursorsIn(0, Len(u))
    OBVIOUS
  <2>1. Shifted(text, u, cursors[i], lines) \in CursorsIn(0, Len(u))
    BY <1>1, <1>2, ShiftedIs
  <2> QED
    BY <1>3, <2>1
<1>5. DOMAIN g = 1 .. n /\ g = [i \in 1 .. n |-> g[i]]
  BY <1>3
<1>6. Mapped(Selected, LAMBDA c : Shifted(text, u, c, lines)) = Normalized(g, Selected.primary)
  BY DEF Mapped
<1> HIDE DEF g
<1>7. Kept(Normalized(g, Selected.primary), 0, Len(u))
  BY <1>1, <1>2, <1>4, <1>5, MappedKeeps
<1> QED
  BY <1>6, <1>7

(***************************************************************************)
(* The initial states, and motions                                         *)
(***************************************************************************)
\* The initial states.
LEMMA InitKeeps ==
  ASSUME Init, Texts \subseteq Seq(Characters)
  PROVE  IInv
<1>1. text \in Seq(Characters) /\ Len(text) \in Nat
  BY DEF Init
<1>2. Caret(0) \in CursorsIn(0, Len(text))
  <2>1. 0 \in Nat /\ 0 \in 0 .. Len(text)
    BY <1>1
  <2> QED
    BY <1>1, <2>1, CursorIs
<1>3. Kept(Selected, 0, Len(text))
  <2>1. 0 \in Nat
    OBVIOUS
  <2> QED
    BY <1>1, <1>2, <2>1, KeptAlone DEF Init, Selected
<1>4. TypedLines
  BY FS_EmptySet DEF Init, TypedLines
<1>5. JournalGoes(Characters, server, journal, text)
  BY <1>1, JournalBegins DEF Init
<1> QED
  BY <1>1, <1>3, <1>4, <1>5 DEF Init, IInv

\* A change is sent: the server has the text, and the journal begins again
\* (Document::take_sync_changes).
LEMMA TellKeeps ==
  ASSUME IInv, Tell
  PROVE  StepGood
<1>1. text \in Seq(Characters) /\ JournalGoes(Characters, server, journal, text)
  BY DEF IInv
<1>2. server' = text
  <2>1. Told(server, journal, text) = text
    BY <1>1, JournalTells
  <2> QED
    BY <2>1 DEF Tell
<1>3. JournalGoes(Characters, server, journal, text)'
  <2>1. JournalGoes(Characters, text, Recorded(<<>>), text)
    BY <1>1, JournalBegins
  <2> QED
    BY <1>2, <2>1 DEF Tell
<1>4. Kept(Selected, 0, Len(text))'
  BY DEF Tell, IInv, Kept, Selected
<1>5. TypedLines' /\ text' \in Seq(Characters) /\ edits' \in Nat
  BY DEF Tell, IInv, TypedLines
<1>6. IInv'
  BY <1>3, <1>4, <1>5 DEF IInv
<1>7. Restoring
  BY DEF Tell, Restoring
<1> QED
  BY <1>6, <1>7 DEF StepGood

-----------------------------------------------------------------------------
(* Motions *)

\* The cursors lie in the text.
LEMMA ActiveIs ==
  ASSUME IInv, NEW i \in 1 .. Len(cursors)
  PROVE  /\ cursors[i] \in CursorsIn(0, Len(text))
         /\ cursors[i].active \in 0 .. Len(text) /\ cursors[i].anchor \in 0 .. Len(text)
         /\ RangeOf(cursors[i]).start \in 0 .. Len(text)
         /\ RangeOf(cursors[i]).end \in 0 .. Len(text)
         /\ RangeOf(cursors[i]).start <= RangeOf(cursors[i]).end
<1>1. cursors[i] \in CursorsIn(0, Len(text)) /\ Len(text) \in Nat /\ 0 \in Nat
  BY CursorsAre
<1> QED
  BY <1>1, RangeIs

\* A cursor that is moved lies in the text.
LEMMA MovedIs ==
  ASSUME NEW n \in Nat, NEW c \in CursorsIn(0, n), NEW at \in 0 .. n, NEW extend \in BOOLEAN
  PROVE  Moved(c, at, extend) \in CursorsIn(0, n)
<1>1. c.anchor \in 0 .. n /\ 0 \in Nat
  BY DEF CursorsIn
<1>2. Cursor(c.anchor, at) \in CursorsIn(0, n) /\ Caret(at) \in CursorsIn(0, n)
  BY <1>1, CursorIs
<1> QED
  BY <1>2 DEF Moved

\* The end of a line lies in the text.
LEMMA LineEndIs ==
  ASSUME IInv, NEW at \in 0 .. Len(text)
  PROVE  LineEnd(text, at) \in 0 .. Len(text)
<1>1. LineEnd(text, at) \in at .. Len(text) /\ Len(text) \in Nat
  BY CursorsAre, HomeAndEnd
<1> QED
  BY <1>1

\* A motion of each cursor by itself.
LEMMA MotionKeeps ==
  ASSUME IInv, NEW g, g = [i \in 1 .. Len(cursors) |-> g[i]],
         \A i \in 1 .. Len(cursors) : g[i] \in CursorsIn(0, Len(text)),
         Select(Normalized(g, primary))
  PROVE  StepGood
<1>1. Len(cursors) \in Nat /\ primary \in 1 .. Len(cursors) /\ Len(text) \in Nat /\ 0 \in Nat
  BY CursorsAre
<1>2. g \in [1 .. Len(cursors) -> CursorsIn(0, Len(text))]
  OBVIOUS
<1>3. g \in Seq(CursorsIn(0, Len(text))) /\ Len(g) = Len(cursors)
  BY <1>1, <1>2, SeqOfLength
<1>4. Kept(Normalized(g, primary), 0, Len(text))
  BY <1>1, <1>3, NormalizedKeeps
<1> QED
  BY <1>4, SelectKeeps

\* cursor_word_left.
LEMMA CursorWordLeftKeeps ==
  ASSUME IInv, NEW extend \in BOOLEAN, CursorWordLeft(extend)
  PROVE  StepGood
<1> DEFINE g == [i \in 1 .. Len(cursors) |-> Moved(cursors[i], WordStartLeft(text, cursors[i].active), extend)]
<1>1. Select(Normalized(g, primary))
  BY CursorsAre DEF CursorWordLeft, Motion, Mapped
<1>2. \A i \in 1 .. Len(cursors) : g[i] \in CursorsIn(0, Len(text))
  <2> SUFFICES ASSUME NEW i \in 1 .. Len(cursors)
               PROVE  Moved(cursors[i], WordStartLeft(text, cursors[i].active), extend) \in CursorsIn(0, Len(text))
    OBVIOUS
  <2>1. cursors[i] \in CursorsIn(0, Len(text)) /\ cursors[i].active \in 0 .. Len(text)
    BY ActiveIs
  <2>2. WordStartLeft(text, cursors[i].active) \in 0 .. Len(text)
    BY <2>1, CursorsAre, WordStartLeftIs
  <2> QED
    BY <2>1, <2>2, MovedIs
<1>3. g = [i \in 1 .. Len(cursors) |-> g[i]] /\ DOMAIN g = 1 .. Len(cursors)
  OBVIOUS
<1> HIDE DEF g
<1> QED
  BY <1>1, <1>2, <1>3, MotionKeeps

\* cursor_word_right.
LEMMA CursorWordRightKeeps ==
  ASSUME IInv, NEW extend \in BOOLEAN, CursorWordRight(extend)
  PROVE  StepGood
<1> DEFINE g == [i \in 1 .. Len(cursors) |-> Moved(cursors[i], WordEndRight(text, cursors[i].active), extend)]
<1>1. Select(Normalized(g, primary))
  BY CursorsAre DEF CursorWordRight, Motion, Mapped
<1>2. \A i \in 1 .. Len(cursors) : g[i] \in CursorsIn(0, Len(text))
  <2> SUFFICES ASSUME NEW i \in 1 .. Len(cursors)
               PROVE  Moved(cursors[i], WordEndRight(text, cursors[i].active), extend) \in CursorsIn(0, Len(text))
    OBVIOUS
  <2>1. cursors[i] \in CursorsIn(0, Len(text)) /\ cursors[i].active \in 0 .. Len(text)
    BY ActiveIs
  <2>2. WordEndRight(text, cursors[i].active) \in 0 .. Len(text)
    BY <2>1, CursorsAre, WordEndRightIs
  <2> QED
    BY <2>1, <2>2, MovedIs
<1>3. g = [i \in 1 .. Len(cursors) |-> g[i]] /\ DOMAIN g = 1 .. Len(cursors)
  OBVIOUS
<1> HIDE DEF g
<1> QED
  BY <1>1, <1>2, <1>3, MotionKeeps

\* cursor_home.
LEMMA CursorHomeKeeps ==
  ASSUME IInv, NEW extend \in BOOLEAN, CursorHome(extend)
  PROVE  StepGood
<1> DEFINE g == [i \in 1 .. Len(cursors) |-> Moved(cursors[i], SmartHome(text, cursors[i].active), extend)]
<1>1. Select(Normalized(g, primary))
  BY CursorsAre DEF CursorHome, Motion, Mapped
<1>2. \A i \in 1 .. Len(cursors) : g[i] \in CursorsIn(0, Len(text))
  <2> SUFFICES ASSUME NEW i \in 1 .. Len(cursors)
               PROVE  Moved(cursors[i], SmartHome(text, cursors[i].active), extend) \in CursorsIn(0, Len(text))
    OBVIOUS
  <2>1. cursors[i] \in CursorsIn(0, Len(text)) /\ cursors[i].active \in 0 .. Len(text)
    BY ActiveIs
  <2>2. SmartHome(text, cursors[i].active) \in 0 .. Len(text)
    BY <2>1, CursorsAre, HomeAndEnd
  <2> QED
    BY <2>1, <2>2, MovedIs
<1>3. g = [i \in 1 .. Len(cursors) |-> g[i]] /\ DOMAIN g = 1 .. Len(cursors)
  OBVIOUS
<1> HIDE DEF g
<1> QED
  BY <1>1, <1>2, <1>3, MotionKeeps

\* cursor_end.
LEMMA CursorEndKeeps ==
  ASSUME IInv, NEW extend \in BOOLEAN, CursorEnd(extend)
  PROVE  StepGood
<1> DEFINE g == [i \in 1 .. Len(cursors) |-> Moved(cursors[i], LineEnd(text, cursors[i].active), extend)]
<1>1. Select(Normalized(g, primary))
  BY CursorsAre DEF CursorEnd, Motion, Mapped
<1>2. \A i \in 1 .. Len(cursors) : g[i] \in CursorsIn(0, Len(text))
  <2> SUFFICES ASSUME NEW i \in 1 .. Len(cursors)
               PROVE  Moved(cursors[i], LineEnd(text, cursors[i].active), extend) \in CursorsIn(0, Len(text))
    OBVIOUS
  <2>1. cursors[i] \in CursorsIn(0, Len(text)) /\ cursors[i].active \in 0 .. Len(text)
    BY ActiveIs
  <2>2. LineEnd(text, cursors[i].active) \in 0 .. Len(text)
    BY <2>1, LineEndIs
  <2> QED
    BY <2>1, <2>2, MovedIs
<1>3. g = [i \in 1 .. Len(cursors) |-> g[i]] /\ DOMAIN g = 1 .. Len(cursors)
  OBVIOUS
<1> HIDE DEF g
<1> QED
  BY <1>1, <1>2, <1>3, MotionKeeps

\* cursor_top.
LEMMA CursorTopKeeps ==
  ASSUME IInv, NEW extend \in BOOLEAN, CursorTop(extend)
  PROVE  StepGood
<1> DEFINE g == [i \in 1 .. Len(cursors) |-> Moved(cursors[i], 0, extend)]
<1>1. Select(Normalized(g, primary))
  BY CursorsAre DEF CursorTop, Motion, Mapped
<1>2. \A i \in 1 .. Len(cursors) : g[i] \in CursorsIn(0, Len(text))
  <2> SUFFICES ASSUME NEW i \in 1 .. Len(cursors)
               PROVE  Moved(cursors[i], 0, extend) \in CursorsIn(0, Len(text))
    OBVIOUS
  <2>1. cursors[i] \in CursorsIn(0, Len(text)) /\ cursors[i].active \in 0 .. Len(text)
    BY ActiveIs
  <2>2. 0 \in 0 .. Len(text)
    BY <2>1, CursorsAre
  <2> QED
    BY <2>1, <2>2, MovedIs
<1>3. g = [i \in 1 .. Len(cursors) |-> g[i]] /\ DOMAIN g = 1 .. Len(cursors)
  OBVIOUS
<1> HIDE DEF g
<1> QED
  BY <1>1, <1>2, <1>3, MotionKeeps

\* cursor_bottom.
LEMMA CursorBottomKeeps ==
  ASSUME IInv, NEW extend \in BOOLEAN, CursorBottom(extend)
  PROVE  StepGood
<1> DEFINE g == [i \in 1 .. Len(cursors) |-> Moved(cursors[i], Len(text), extend)]
<1>1. Select(Normalized(g, primary))
  BY CursorsAre DEF CursorBottom, Motion, Mapped
<1>2. \A i \in 1 .. Len(cursors) : g[i] \in CursorsIn(0, Len(text))
  <2> SUFFICES ASSUME NEW i \in 1 .. Len(cursors)
               PROVE  Moved(cursors[i], Len(text), extend) \in CursorsIn(0, Len(text))
    OBVIOUS
  <2>1. cursors[i] \in CursorsIn(0, Len(text)) /\ cursors[i].active \in 0 .. Len(text)
    BY ActiveIs
  <2>2. Len(text) \in 0 .. Len(text)
    BY <2>1, CursorsAre
  <2> QED
    BY <2>1, <2>2, MovedIs
<1>3. g = [i \in 1 .. Len(cursors) |-> g[i]] /\ DOMAIN g = 1 .. Len(cursors)
  OBVIOUS
<1> HIDE DEF g
<1> QED
  BY <1>1, <1>2, <1>3, MotionKeeps

\* The positions beside one are in the text.
LEMMA LeftAndRight ==
  ASSUME IInv, NEW at \in 0 .. Len(text)
  PROVE  LeftOf(at) \in 0 .. Len(text) /\ RightOf(at) \in 0 .. Len(text)
<1>1. Len(text) \in Nat
  BY CursorsAre
<1> QED
  BY <1>1 DEF LeftOf, RightOf, Larger, Smaller

\* cursor_left.
LEMMA CursorLeftKeeps ==
  ASSUME IInv, NEW extend \in BOOLEAN, CursorLeft(extend)
  PROVE  StepGood
<1> DEFINE To(i) == IF ~extend /\ ~IsCaret(cursors[i]) THEN Caret(RangeOf(cursors[i]).start)
                    ELSE Moved(cursors[i], LeftOf(cursors[i].active), extend)
           g == [i \in 1 .. Len(cursors) |-> To(i)]
<1>1. Select(Normalized(g, primary))
  BY CursorsAre DEF CursorLeft, Sideways, Mapped
<1>2. \A i \in 1 .. Len(cursors) : g[i] \in CursorsIn(0, Len(text))
  <2> SUFFICES ASSUME NEW i \in 1 .. Len(cursors) PROVE To(i) \in CursorsIn(0, Len(text))
    OBVIOUS
  <2>0. 0 \in Nat /\ Len(text) \in Nat
    BY CursorsAre
  <2>1. /\ cursors[i] \in CursorsIn(0, Len(text)) /\ cursors[i].active \in 0 .. Len(text)
        /\ RangeOf(cursors[i]).start \in 0 .. Len(text)
    BY ActiveIs
  <2>2. LeftOf(cursors[i].active) \in 0 .. Len(text)
    BY <2>1, LeftAndRight
  <2>3. Moved(cursors[i], LeftOf(cursors[i].active), extend) \in CursorsIn(0, Len(text))
    BY <2>0, <2>1, <2>2, MovedIs
  <2>4. Caret(RangeOf(cursors[i]).start) \in CursorsIn(0, Len(text))
    BY <2>0, <2>1, CursorIs
  <2> QED
    BY <2>3, <2>4
<1>3. g = [i \in 1 .. Len(cursors) |-> g[i]]
  OBVIOUS
<1> HIDE DEF g
<1> QED
  BY <1>1, <1>2, <1>3, MotionKeeps

\* cursor_right.
LEMMA CursorRightKeeps ==
  ASSUME IInv, NEW extend \in BOOLEAN, CursorRight(extend)
  PROVE  StepGood
<1> DEFINE To(i) == IF ~extend /\ ~IsCaret(cursors[i]) THEN Caret(RangeOf(cursors[i]).end)
                    ELSE Moved(cursors[i], RightOf(cursors[i].active), extend)
           g == [i \in 1 .. Len(cursors) |-> To(i)]
<1>1. Select(Normalized(g, primary))
  BY CursorsAre DEF CursorRight, Sideways, Mapped
<1>2. \A i \in 1 .. Len(cursors) : g[i] \in CursorsIn(0, Len(text))
  <2> SUFFICES ASSUME NEW i \in 1 .. Len(cursors) PROVE To(i) \in CursorsIn(0, Len(text))
    OBVIOUS
  <2>0. 0 \in Nat /\ Len(text) \in Nat
    BY CursorsAre
  <2>1. /\ cursors[i] \in CursorsIn(0, Len(text)) /\ cursors[i].active \in 0 .. Len(text)
        /\ RangeOf(cursors[i]).end \in 0 .. Len(text)
    BY ActiveIs
  <2>2. RightOf(cursors[i].active) \in 0 .. Len(text)
    BY <2>1, LeftAndRight
  <2>3. Moved(cursors[i], RightOf(cursors[i].active), extend) \in CursorsIn(0, Len(text))
    BY <2>0, <2>1, <2>2, MovedIs
  <2>4. Caret(RangeOf(cursors[i]).end) \in CursorsIn(0, Len(text))
    BY <2>0, <2>1, CursorIs
  <2> QED
    BY <2>3, <2>4
<1>3. g = [i \in 1 .. Len(cursors) |-> g[i]]
  OBVIOUS
<1> HIDE DEF g
<1> QED
  BY <1>1, <1>2, <1>3, MotionKeeps

\* Up and down by lines, and by pages, keeping the column aimed at.
LEMMA VerticalKeeps ==
  ASSUME IInv, NEW lines \in Int, NEW extend \in BOOLEAN, Vertical(lines, extend)
  PROVE  StepGood
<1> DEFINE Target(at) == Larger(0, Smaller(LineOf(text, at) + lines, LineCount(text) - 1))
           Goal(c) == IF c.goal = NoGoal THEN Column(text, c.active) ELSE c.goal
           To(i) == [Moved(cursors[i], At(text, Target(cursors[i].active), Goal(cursors[i])), extend)
                       EXCEPT !.goal = Goal(cursors[i])]
           g == [i \in 1 .. Len(cursors) |-> To(i)]
<1>1. Select(Normalized(g, primary))
  BY CursorsAre DEF Vertical, Mapped
<1>2. \A i \in 1 .. Len(cursors) : g[i] \in CursorsIn(0, Len(text))
  <2> SUFFICES ASSUME NEW i \in 1 .. Len(cursors) PROVE To(i) \in CursorsIn(0, Len(text))
    OBVIOUS
  <2> DEFINE at == cursors[i].active
             goal == Goal(cursors[i])
             place == At(text, Target(at), goal)
  <2>0. Len(text) \in Nat /\ Lined(text) /\ LineCount(text) \in Nat /\ LineCount(text) > 0
    BY CursorsAre DEF Lined
  <2>1. cursors[i] \in CursorsIn(0, Len(text)) /\ at \in 0 .. Len(text)
    BY ActiveIs
  <2>2. LineOf(text, at) \in 0 .. LineCount(text) - 1 /\ Column(text, at) \in 0 .. at
    BY <2>0, <2>1, ColumnIs
  <2>3. Target(at) \in Nat
    BY <2>0, <2>2 DEF Larger, Smaller
  <2>4. goal \in Nat
    <3>1. cursors[i].goal \in Nat \cup {NoGoal}
      BY <2>1 DEF CursorsIn
    <3>2. Column(text, at) \in Nat
      BY <2>1, <2>2
    <3> QED
      BY <3>1, <3>2
  <2> HIDE DEF Target, Goal
  <2>5. place \in 0 .. Len(text)
    <3> HIDE DEF goal, at
    <3> QED
      BY <2>0, <2>3, <2>4, AtIs
  <2>6. Moved(cursors[i], place, extend) \in CursorsIn(0, Len(text))
    <3> HIDE DEF place
    <3> QED
      BY <2>0, <2>1, <2>5, MovedIs
  <2> DEFINE m == Moved(cursors[i], place, extend)
  <2>7. [m EXCEPT !.goal = goal] \in CursorsIn(0, Len(text))
    <3> HIDE DEF m, goal
    <3> QED
      BY <2>4, <2>6 DEF CursorsIn, m
  <2> QED
    BY <2>7
<1>3. g = [i \in 1 .. Len(cursors) |-> g[i]]
  OBVIOUS
<1> HIDE DEF g
<1> QED
  BY <1>1, <1>2, <1>3, MotionKeeps

\* Escape: every selection becomes a caret.
LEMMA CancelSelectionKeeps ==
  ASSUME IInv, CancelSelection
  PROVE  StepGood
<1> DEFINE g == [i \in 1 .. Len(cursors) |-> [cursors[i] EXCEPT !.anchor = cursors[i].active]]
<1>1. Select(Normalized(g, primary))
  BY CursorsAre DEF CancelSelection, Mapped
<1>2. \A i \in 1 .. Len(cursors) : g[i] \in CursorsIn(0, Len(text))
  <2> SUFFICES ASSUME NEW i \in 1 .. Len(cursors)
               PROVE  [cursors[i] EXCEPT !.anchor = cursors[i].active] \in CursorsIn(0, Len(text))
    OBVIOUS
  <2>1. cursors[i] \in CursorsIn(0, Len(text))
    BY ActiveIs
  <2> QED
    BY <2>1 DEF CursorsIn
<1>3. g = [i \in 1 .. Len(cursors) |-> g[i]]
  OBVIOUS
<1> HIDE DEF g
<1> QED
  BY <1>1, <1>2, <1>3, MotionKeeps

\* Escape again: one cursor is left.
LEMMA CollapseToPrimaryKeeps ==
  ASSUME IInv, CollapseToPrimary
  PROVE  StepGood
<1>1. cursors[primary] \in CursorsIn(0, Len(text)) /\ 0 \in Nat /\ Len(text) \in Nat
  BY CursorsAre
<1>2. Kept([cursors |-> <<cursors[primary]>>, primary |-> 1], 0, Len(text))
  BY <1>1, KeptAlone
<1> QED
  BY <1>2, SelectKeeps DEF CollapseToPrimary

\* The whole text is selected.
LEMMA SelectAllKeeps ==
  ASSUME IInv, SelectAll
  PROVE  StepGood
<1>1. 0 \in Nat /\ Len(text) \in Nat
  BY CursorsAre
<1>2. 0 \in 0 .. Len(text) /\ Len(text) \in 0 .. Len(text)
  BY <1>1
<1>3. Cursor(0, Len(text)) \in CursorsIn(0, Len(text))
  BY <1>1, <1>2, CursorIs
<1>4. Kept([cursors |-> <<Cursor(0, Len(text))>>, primary |-> 1], 0, Len(text))
  BY <1>1, <1>3, KeptAlone
<1> QED
  BY <1>4, SelectKeeps DEF SelectAll

\* Selections are grown to whole lines.
LEMMA ExpandLineSelectionKeeps ==
  ASSUME IInv, ExpandLineSelection
  PROVE  StepGood
<1> DEFINE Beyond(line) == IF line + 1 < LineCount(text) THEN StartOf(text, line + 1) ELSE Len(text)
           To(i) == Cursor(StartOf(text, LineOf(text, RangeOf(cursors[i]).start)),
                           Beyond(LineOf(text, RangeOf(cursors[i]).end)))
           g == [i \in 1 .. Len(cursors) |-> To(i)]
<1>1. Select(Normalized(g, primary))
  BY CursorsAre DEF ExpandLineSelection, Mapped
<1>2. \A i \in 1 .. Len(cursors) : g[i] \in CursorsIn(0, Len(text))
  <2> SUFFICES ASSUME NEW i \in 1 .. Len(cursors) PROVE To(i) \in CursorsIn(0, Len(text))
    OBVIOUS
  <2> DEFINE a == RangeOf(cursors[i]).start
             b == RangeOf(cursors[i]).end
  <2>0. 0 \in Nat /\ Len(text) \in Nat /\ Lined(text) /\ LineCount(text) \in Nat
    BY CursorsAre DEF Lined
  <2>1. a \in 0 .. Len(text) /\ b \in 0 .. Len(text)
    BY ActiveIs
  <2> HIDE DEF a, b
  <2>2. StartOf(text, LineOf(text, a)) \in 0 .. Len(text)
    <3>1. StartOf(text, LineOf(text, a)) \in 0 .. a
      BY <2>0, <2>1, ColumnIs
    <3> QED
      BY <2>0, <2>1, <3>1
  <2>3. Beyond(LineOf(text, b)) \in 0 .. Len(text)
    <3> DEFINE l == LineOf(text, b)
    <3>1. l \in 0 .. LineCount(text) - 1
      BY <2>0, <2>1, ColumnIs
    <3> HIDE DEF l
    <3>2. ASSUME l + 1 < LineCount(text) PROVE StartOf(text, l + 1) \in 0 .. Len(text)
      <4>1. l + 1 \in 0 .. LineCount(text) - 1
        BY <2>0, <3>1, <3>2
      <4> QED
        BY <2>0, <4>1 DEF Lined
    <3>3. Len(text) \in 0 .. Len(text)
      BY <2>0
    <3> QED
      BY <3>2, <3>3 DEF l
  <2> HIDE DEF Beyond
  <2> QED
    BY <2>0, <2>2, <2>3, CursorIs DEF a, b
<1>3. g = [i \in 1 .. Len(cursors) |-> g[i]]
  OBVIOUS
<1> HIDE DEF g
<1> QED
  BY <1>1, <1>2, <1>3, MotionKeeps

\* SelectionSet::add.
LEMMA AddKeeps ==
  ASSUME IInv, NEW c \in CursorsIn(0, Len(text)), Add(c)
  PROVE  StepGood
<1> DEFINE g == Append(cursors, c)
<1>1. /\ cursors \in Seq(CursorsIn(0, Len(text))) /\ Len(cursors) \in Nat /\ Len(text) \in Nat
      /\ 0 \in Nat
  BY CursorsAre
<1>2. g \in Seq(CursorsIn(0, Len(text))) /\ Len(g) = Len(cursors) + 1
  BY <1>1, AppendProperties
<1>3. Select(Normalized(g, Len(cursors) + 1))
  BY DEF Add
<1> HIDE DEF g
<1>4. Len(cursors) + 1 \in 1 .. Len(g)
  BY <1>1, <1>2
<1>5. Kept(Normalized(g, Len(cursors) + 1), 0, Len(text))
  BY <1>1, <1>2, <1>4, NormalizedKeeps
<1> QED
  BY <1>3, <1>5, SelectKeeps

\* A cursor is added on the line above or below.
LEMMA AddCursorKeeps ==
  ASSUME IInv, NEW lines \in Int, AddCursor(lines)
  PROVE  StepGood
<1> DEFINE at == cursors[primary].active
           line == LineOf(text, at) + lines
           place == At(text, line, Column(text, at))
<1>1. line \in 0 .. LineCount(text) - 1 /\ Add(Caret(place))
  BY DEF AddCursor
<1>2. 0 \in Nat /\ Len(text) \in Nat /\ Lined(text) /\ primary \in 1 .. Len(cursors)
  BY CursorsAre
<1>3. at \in 0 .. Len(text)
  BY <1>2, ActiveIs
<1>4. Column(text, at) \in Nat /\ line \in Nat
  <2>1. Column(text, at) \in 0 .. at
    BY <1>2, <1>3, ColumnIs
  <2> QED
    BY <1>1, <1>3, <2>1
<1> HIDE DEF at, line
<1>5. place \in 0 .. Len(text)
  BY <1>2, <1>4, AtIs
<1> HIDE DEF place
<1>6. Caret(place) \in CursorsIn(0, Len(text))
  BY <1>2, <1>5, CursorIs
<1> QED
  BY <1>1, <1>6, AddKeeps

\* The least of a set of numbers.
LEMMA MinIs ==
  ASSUME NEW S, S \subseteq Nat, S # {}
  PROVE  Min(S) \in S /\ \A y \in S : Min(S) <= y
<1>1. \E x \in S : \A y \in S : x <= y
  BY LeastOf
<1> QED
  BY <1>1 DEF Min

\* The greatest, of numbers up to a bound.
LEMMA MaxIs ==
  ASSUME NEW n \in Nat, NEW S, S \subseteq 0 .. n, S # {}
  PROVE  Max(S) \in S /\ \A y \in S : y <= Max(S)
<1> DEFINE Q == {d \in 0 .. n : n - d \in S}
<1>1. Q \subseteq Nat /\ Q # {}
  <2>1. PICK x \in S : TRUE
    OBVIOUS
  <2>2. n - x \in 0 .. n /\ n - (n - x) = x
    BY <2>1
  <2>3. n - (n - x) \in S
    BY <2>1, <2>2
  <2>4. n - x \in Q
    BY <2>2, <2>3
  <2>5. Q \subseteq Nat
    OBVIOUS
  <2> HIDE DEF Q
  <2> QED
    BY <2>4, <2>5
<1>2. PICK d \in Q : \A m \in Q : d <= m
  <2> HIDE DEF Q
  <2> QED
    BY <1>1, LeastOf
<1>3. \A y \in S : y <= n - d
  <2> SUFFICES ASSUME NEW y \in S PROVE y <= n - d
    OBVIOUS
  <2>1. n - y \in 0 .. n /\ n - (n - y) = y
    OBVIOUS
  <2>2. n - y \in Q
    BY <2>1
  <2>3. d <= n - y /\ d \in 0 .. n
    BY <1>2, <2>2
  <2> QED
    BY <2>1, <2>3
<1>4. \E x \in S : \A y \in S : x >= y
  <2>1. n - d \in S
    BY <1>2
  <2> QED
    BY <1>3, <2>1
<1>5. Max(S) \in S /\ \A y \in S : Max(S) >= y
  BY <1>4 DEF Max
<1> QED
  BY <1>5

\* What a function takes on a finite set is finite.
LEMMA ImageFinite ==
  ASSUME NEW f, IsFiniteSet(DOMAIN f), f = [x \in DOMAIN f |-> f[x]]
  PROVE  IsFiniteSet({f[x] : x \in DOMAIN f})
<1> DEFINE D == DOMAIN f
           T == {f[x] : x \in D}
<1>1. f \in [D -> T]
  OBVIOUS
<1>2. \A y \in T : \E x \in D : f[x] = y
  OBVIOUS
<1>3. f \in Surjection(D, T)
  BY <1>1, <1>2 DEF Surjection
<1> HIDE DEF T
<1>4. IsFiniteSet(T)
  BY <1>3, FS_Surjection
<1> QED
  BY <1>4 DEF T

\* Every cursor selects the word it is on.
LEMMA SelectWordsKeeps ==
  ASSUME IInv, SelectWords
  PROVE  StepGood
<1> DEFINE Word(c) == IF IsCaret(c) THEN WordAt(text, c.active) ELSE {}
           To(c) == IF Word(c) = {} THEN c
                    ELSE LET w == CHOOSE w \in Word(c) : TRUE IN Cursor(w.start, w.end)
           g == [i \in 1 .. Len(cursors) |-> To(cursors[i])]
<1>1. Select(Normalized(g, primary))
  <2>1. Select(Normalized([i \in DOMAIN Selected.cursors |-> To(Selected.cursors[i])],
                          Selected.primary))
    BY DEF SelectWords, Mapped
  <2> HIDE DEF To
  <2> QED
    BY <2>1, CursorsAre
<1>2. \A i \in 1 .. Len(cursors) : g[i] \in CursorsIn(0, Len(text))
  <2> SUFFICES ASSUME NEW i \in 1 .. Len(cursors) PROVE To(cursors[i]) \in CursorsIn(0, Len(text))
    <3> HIDE DEF To
    <3> QED
      OBVIOUS
  <2> DEFINE c == cursors[i]
             w == CHOOSE w \in Word(c) : TRUE
  <2>0. 0 \in Nat /\ Len(text) \in Nat /\ Lined(text)
    BY CursorsAre
  <2>1. c \in CursorsIn(0, Len(text)) /\ c.active \in 0 .. Len(text)
    BY ActiveIs
  <2>2. To(c) = IF Word(c) = {} THEN c ELSE Cursor(w.start, w.end)
    OBVIOUS
  <2> HIDE DEF To
  <2>3. CASE Word(c) = {}
    BY <2>1, <2>2, <2>3
  <2>4. CASE Word(c) # {}
    <3>1. w \in Word(c)
      <4> HIDE DEF Word
      <4> QED
        BY <2>4
    <3>2. w \in WordAt(text, c.active)
      <4> HIDE DEF w, c
      <4> QED
        BY <2>4, <3>1
    <3> HIDE DEF w, c, Word
    <3>3. w.start \in 0 .. c.active /\ w.end \in c.active .. Len(text)
      BY <2>0, <2>1, <3>2, WordAtIs
    <3>4. w.start \in 0 .. Len(text) /\ w.end \in 0 .. Len(text)
      BY <2>0, <2>1, <3>3
    <3>5. Cursor(w.start, w.end) \in CursorsIn(0, Len(text))
      BY <2>0, <3>4, CursorIs
    <3>6. To(c) \in CursorsIn(0, Len(text))
      BY <2>2, <2>4, <3>5
    <3> QED
      BY <3>6 DEF c
  <2> QED
    BY <2>3, <2>4
<1>3. g = [i \in 1 .. Len(cursors) |-> g[i]]
  OBVIOUS
<1> HIDE DEF g
<1> QED
  BY <1>1, <1>2, <1>3, MotionKeeps

-----------------------------------------------------------------------------
(* Matches *)

\* Ranges of a text.
MatchesIn(n) == {m \in [start : 0 .. n, end : 0 .. n] : m.start <= m.end}

\* Whether `needle' is found in place i.
FoundAt(t, needle, before, i) ==
  /\ i - 1 + Len(needle) <= Len(t)
  /\ SubSeq(t, i, i - 1 + Len(needle)) = needle
  /\ before # <<>> => Last(before).end < i

\* The step of a search: a match that starts at `i' is appended, unless it
\* meets the one before.
Find(t, needle, before, i) ==
  IF FoundAt(t, needle, before, i)
  THEN Append(before, [start |-> i - 1, end |-> i - 1 + Len(needle)]) ELSE before

\* What it returns.
LEMMA FindIs ==
  ASSUME NEW C, NEW t \in Seq(C), NEW needle \in Seq(C), NEW before \in Seq(MatchesIn(Len(t))),
         NEW i \in 1 .. Len(t)
  PROVE  /\ Find(t, needle, before, i) \in Seq(MatchesIn(Len(t)))
         /\ before # <<>> => Find(t, needle, before, i) # <<>>
         /\ FoundAt(t, needle, before, i) => Find(t, needle, before, i) # <<>>
<1> DEFINE m == [start |-> i - 1, end |-> i - 1 + Len(needle)]
<1>1. Len(t) \in Nat /\ Len(needle) \in Nat
  OBVIOUS
<1>2. ASSUME FoundAt(t, needle, before, i) PROVE m \in MatchesIn(Len(t))
  <2>1. i - 1 \in 0 .. Len(t) /\ i - 1 + Len(needle) \in 0 .. Len(t) /\ i - 1 <= i - 1 + Len(needle)
    BY <1>1, <1>2 DEF FoundAt
  <2> QED
    BY <2>1 DEF MatchesIn
<1> HIDE DEF m
<1>3. ASSUME FoundAt(t, needle, before, i)
      PROVE  Append(before, m) \in Seq(MatchesIn(Len(t))) /\ Append(before, m) # <<>>
  BY <1>2, <1>3, AppendProperties
<1>4. Find(t, needle, before, i) = IF FoundAt(t, needle, before, i) THEN Append(before, m) ELSE before
  BY DEF Find, m
<1> QED
  BY <1>3, <1>4

\* The search as a sequence of those steps.
LEMMA FindAllSteps ==
  ASSUME NEW C, NEW t \in Seq(C), NEW needle \in Seq(C)
  PROVE  \E f \in [0 .. Len(t) -> Seq(MatchesIn(Len(t)))] :
           /\ f[0] = <<>>
           /\ \A i \in 1 .. Len(t) : f[i] = Find(t, needle, f[i - 1], i)
           /\ FindAll(t, needle) = f[Len(t)]
<1> DEFINE K == MatchesIn(Len(t))
           n == Len(t)
           G == [q \in Seq(K) \X (1 .. n) |-> Find(t, needle, q[1], q[2])]
           F(g) == [i \in 0 .. n |-> IF i = 0 THEN <<>> ELSE Find(t, needle, g[i - 1], i)]
           found == CHOOSE g : g = F(g)
<1>1. n \in Nat
  OBVIOUS
<1>2. \A d \in Seq(K), i \in 1 .. n : Find(t, needle, d, i) \in Seq(K)
  BY FindIs
<1>3. FindAll(t, needle) = found[n]
  BY DEF FindAll, Find, FoundAt
<1> HIDE DEF n, K
<1>5. G \in [Seq(K) \X (1 .. n) -> Seq(K)]
  BY <1>2
<1>6. \A d \in Seq(K), i \in 1 .. n : G[<<d, i>>] = Find(t, needle, d, i)
  OBVIOUS
<1> HIDE DEF G
<1>7. PICK f \in [0 .. n -> Seq(K)] : Steps(f, <<>>, n, G)
  <2>1. <<>> \in Seq(K)
    OBVIOUS
  <2> QED
    BY <1>1, <1>5, <2>1, Trail
<1>8. f[0] = <<>> /\ \A i \in 1 .. n : f[i] = Find(t, needle, f[i - 1], i)
  <2>1. ASSUME NEW i \in 1 .. n PROVE f[i] = Find(t, needle, f[i - 1], i)
    <3>1. f[i - 1] \in Seq(K) /\ f[i] = G[<<f[i - 1], i>>]
      BY <1>1, <1>7 DEF Steps
    <3> QED
      BY <1>6, <3>1
  <2> QED
    BY <1>7, <2>1 DEF Steps
<1>9. f = F(f)
  <2>1. f = [i \in 0 .. n |-> f[i]]
    OBVIOUS
  <2>2. ASSUME NEW i \in 0 .. n
        PROVE  f[i] = IF i = 0 THEN <<>> ELSE Find(t, needle, f[i - 1], i)
    <3>1. CASE i = 0
      BY <1>8, <3>1
    <3>2. CASE i # 0
      <4>1. i \in 1 .. n
        BY <1>1, <3>2
      <4> QED
        BY <1>8, <3>2, <4>1
    <3> QED
      BY <3>1, <3>2
  <2> QED
    BY <2>1, <2>2
<1>10. found = F(found)
  <2> HIDE DEF F
  <2> QED
    BY <1>9
<1>11. StepAlike(found, f, n)
  <2> DEFINE x == found
  <2>1. x = [i \in 0 .. n |-> IF i = 0 THEN <<>> ELSE Find(t, needle, x[i - 1], i)]
    BY <1>10
  <2> HIDE DEF x
  <2>2. x[0] = <<>>
    <3>1. 0 \in 0 .. n
      BY <1>1
    <3> QED
      BY <2>1, <3>1
  <2>3. \A i \in 1 .. n : x[i] = Find(t, needle, x[i - 1], i)
    <3> SUFFICES ASSUME NEW i \in 1 .. n PROVE x[i] = Find(t, needle, x[i - 1], i)
      OBVIOUS
    <3>1. i \in 0 .. n /\ i # 0
      BY <1>1
    <3> QED
      BY <2>1, <3>1
  <2>4. StepAlike(x, f, n)
    BY <1>8, <2>2, <2>3 DEF StepAlike
  <2> QED
    BY <2>4 DEF x
<1>12. n \in 0 .. n
  BY <1>1
<1> HIDE DEF found
<1>13. found[n] = f[n]
  BY <1>1, <1>11, <1>12, SameTrail
<1> QED
  BY <1>3, <1>8, <1>13 DEF n, K

\* A text is found where it was taken from, or something before it is.
LEMMA FindAllIs ==
  ASSUME NEW C, NEW t \in Seq(C), NEW a \in 0 .. Len(t), NEW b \in 0 .. Len(t), a <= b
  PROVE  LET found == FindAll(t, SubSeq(t, a + 1, b))
         IN  /\ found \in Seq(MatchesIn(Len(t)))
             /\ a < b => found # <<>>
<1> DEFINE needle == SubSeq(t, a + 1, b)
           n == Len(t)
<1>1. n \in Nat /\ a \in Nat /\ b \in Nat /\ a <= n /\ b <= n
  OBVIOUS
<1>2. needle \in Seq(C) /\ Len(needle) = b - a
  <2>1. needle \in Seq(C)
    BY <1>1, PartOfText
  <2>2. \A i \in a + 1 .. b : t[i] \in C
    BY <1>1
  <2>3. Len(needle) = IF a + 1 <= b THEN b - (a + 1) + 1 ELSE 0
    BY <1>1, <2>2, SubSeqProperties
  <2> QED
    BY <1>1, <2>1, <2>3
<1>0. SubSeq(t, a + 1, b) = needle
  OBVIOUS
<1> HIDE DEF needle
<1>3. PICK f \in [0 .. n -> Seq(MatchesIn(n))] :
           /\ f[0] = <<>>
           /\ \A i \in 1 .. n : f[i] = Find(t, needle, f[i - 1], i)
           /\ FindAll(t, needle) = f[n]
  BY <1>2, FindAllSteps
<1>4. n \in 0 .. n
  BY <1>1
<1>5. ASSUME a < b PROVE f[n] # <<>>
  <2> DEFINE T == {k \in Nat : a + 1 + k <= n => f[a + 1 + k] # <<>>}
  <2>1. a + 1 \in 1 .. n /\ (a + 1) - 1 = a /\ a \in 0 .. n
    BY <1>1, <1>5
  <2>2. f[a + 1] = Find(t, needle, f[a], a + 1) /\ f[a] \in Seq(MatchesIn(n))
    BY <1>3, <2>1
  <2>3. f[a] = <<>> => FoundAt(t, needle, f[a], a + 1)
    <3>1. (a + 1) - 1 + Len(needle) = b
      BY <1>1, <1>2
    <3> QED
      BY <1>0, <1>1, <3>1 DEF FoundAt
  <2>4. f[a + 1] # <<>>
    <3>1. /\ f[a] # <<>> => Find(t, needle, f[a], a + 1) # <<>>
          /\ FoundAt(t, needle, f[a], a + 1) => Find(t, needle, f[a], a + 1) # <<>>
      BY <1>2, <2>1, <2>2, FindIs
    <3> QED
      BY <2>2, <2>3, <3>1
  <2>5. 0 \in T
    <3>1. a + 1 + 0 = a + 1
      BY <1>1
    <3> QED
      BY <2>4, <3>1
  <2>6. ASSUME NEW k \in Nat, k \in T PROVE k + 1 \in T
    <3> SUFFICES ASSUME a + 1 + (k + 1) <= n PROVE f[a + 1 + (k + 1)] # <<>>
      OBVIOUS
    <3> DEFINE i == a + 1 + (k + 1)
    <3>1. i \in 1 .. n /\ i - 1 = a + 1 + k /\ a + 1 + k \in 0 .. n /\ a + 1 + k <= n
      BY <1>1
    <3>2. f[i - 1] # <<>> /\ f[i - 1] \in Seq(MatchesIn(n))
      BY <1>3, <2>6, <3>1
    <3>3. f[i] = Find(t, needle, f[i - 1], i)
      BY <1>3, <3>1
    <3> HIDE DEF i
    <3>4. f[i] # <<>>
      BY <1>2, <3>1, <3>2, <3>3, FindIs
    <3> QED
      BY <3>4 DEF i
  <2> HIDE DEF T
  <2>7. n - (a + 1) \in Nat /\ a + 1 + (n - (a + 1)) = n /\ n <= n
    BY <1>1, <2>1
  <2>8. n - (a + 1) \in T
    BY <2>5, <2>6, <2>7, NatSteps
  <2> QED
    BY <2>7, <2>8 DEF T
<1> QED
  BY <1>3, <1>4, <1>5 DEF needle, n

\* The members of a sequence are finitely many.
LEMMA RangeFinite ==
  ASSUME NEW S, NEW s \in Seq(S)
  PROVE  IsFiniteSet(Range(s)) /\ Range(s) \subseteq S /\ (s # <<>> => Range(s) # {})
<1>1. Len(s) \in Nat /\ DOMAIN s = 1 .. Len(s) /\ s = [i \in DOMAIN s |-> s[i]]
  OBVIOUS
<1>2. IsFiniteSet(DOMAIN s)
  <2>1. 1 \in Int /\ Len(s) \in Int
    BY <1>1
  <2> QED
    BY <1>1, <2>1, FS_Interval
<1>3. IsFiniteSet({s[x] : x \in DOMAIN s})
  BY <1>1, <1>2, ImageFinite
<1>4. \A x \in DOMAIN s : s[x] \in S
  OBVIOUS
<1>5. ASSUME s # <<>> PROVE 1 \in DOMAIN s
  <2>1. Len(s) # 0
    BY <1>5
  <2> QED
    BY <1>1, <2>1
<1> QED
  BY <1>3, <1>4, <1>5 DEF Range

\* What is searched for lies in the text, and a selection is searched for.
LEMMA TermIs ==
  ASSUME IInv
  PROVE  /\ Term = {} \/ \E r : Term = {r}
         /\ \A r \in Term : r.start \in 0 .. Len(text) /\ r.end \in 0 .. Len(text) /\ r.start <= r.end
         /\ ~IsCaret(cursors[primary]) => Term # {} /\ \A r \in Term : r.start < r.end
<1> DEFINE c == cursors[primary]
<1>1. primary \in 1 .. Len(cursors) /\ 0 \in Nat /\ Len(text) \in Nat /\ Lined(text)
  BY CursorsAre
<1>2. /\ c \in CursorsIn(0, Len(text)) /\ c.active \in 0 .. Len(text) /\ c.anchor \in 0 .. Len(text)
      /\ RangeOf(c).start \in 0 .. Len(text) /\ RangeOf(c).end \in 0 .. Len(text)
      /\ RangeOf(c).start <= RangeOf(c).end
  BY <1>1, ActiveIs
<1>3. Term = IF IsCaret(c) THEN WordAt(text, c.active) ELSE {RangeOf(c)}
  BY DEF Term
<1> HIDE DEF c
<1>4. CASE IsCaret(c)
  <2>1. WordAt(text, c.active) = {} \/ \E r : WordAt(text, c.active) = {r}
    BY DEF WordAt
  <2>2. \A r \in WordAt(text, c.active) :
          r.start \in 0 .. Len(text) /\ r.end \in 0 .. Len(text) /\ r.start <= r.end
    <3> SUFFICES ASSUME NEW r \in WordAt(text, c.active)
                 PROVE  r.start \in 0 .. Len(text) /\ r.end \in 0 .. Len(text) /\ r.start <= r.end
      OBVIOUS
    <3>1. r.start \in 0 .. c.active /\ r.end \in c.active .. Len(text)
      BY <1>1, <1>2, WordAtIs
    <3> QED
      BY <1>1, <1>2, <3>1
  <2> QED
    BY <1>3, <1>4, <2>1, <2>2 DEF c
<1>5. CASE ~IsCaret(c)
  <2>1. RangeOf(c).start < RangeOf(c).end
    BY <1>1, <1>2, <1>5 DEF IsCaret, RangeOf, Smaller, Larger
  <2> QED
    BY <1>2, <1>3, <1>5, <2>1
<1> QED
  BY <1>4, <1>5

\* The matches lie in the text, and what is selected is one of them.
LEMMA MatchesAre ==
  ASSUME IInv
  PROVE  /\ IsFiniteSet(Matches) /\ Matches \subseteq MatchesIn(Len(text))
         /\ ~IsCaret(cursors[primary]) => Matches # {}
<1> DEFINE Of(r) == Range(FindAll(text, SubSeq(text, r.start + 1, r.end)))
<1>1. Matches = UNION {Of(r) : r \in Term}
  BY DEF Matches
<1>2. text \in Seq(Characters)
  BY CursorsAre
<1>3. ASSUME NEW r \in Term
      PROVE  /\ IsFiniteSet(Of(r)) /\ Of(r) \subseteq MatchesIn(Len(text))
             /\ r.start < r.end => Of(r) # {}
  <2> DEFINE a == r.start
             b == r.end
             found == FindAll(text, SubSeq(text, a + 1, b))
  <2>1. a \in 0 .. Len(text) /\ b \in 0 .. Len(text) /\ a <= b
    BY TermIs
  <2> HIDE DEF a, b
  <2>2. found \in Seq(MatchesIn(Len(text))) /\ (a < b => found # <<>>)
    BY <1>2, <2>1, FindAllIs
  <2> HIDE DEF found
  <2>3. IsFiniteSet(Range(found)) /\ Range(found) \subseteq MatchesIn(Len(text))
        /\ (found # <<>> => Range(found) # {})
    BY <2>2, RangeFinite
  <2> QED
    BY <2>2, <2>3 DEF found, a, b
<1> HIDE DEF Of
<1>4. CASE Term = {}
  <2>1. Matches = {}
    BY <1>1, <1>4
  <2>2. IsCaret(cursors[primary])
    BY <1>4, TermIs
  <2> QED
    BY <2>1, <2>2, FS_EmptySet
<1>5. ASSUME NEW r, Term = {r} PROVE /\ IsFiniteSet(Matches) /\ Matches \subseteq MatchesIn(Len(text))
                                     /\ ~IsCaret(cursors[primary]) => Matches # {}
  <2>1. Matches = Of(r)
    BY <1>1, <1>5
  <2>2. r \in Term
    BY <1>5
  <2> QED
    BY <1>3, <2>1, <2>2, TermIs
<1> QED
  BY <1>4, <1>5, TermIs

\* A finite set of ranges, in the order of the text.
LEMMA InTextIs ==
  ASSUME NEW n \in Nat, NEW S, IsFiniteSet(S), S \subseteq MatchesIn(n)
  PROVE  /\ Sorted(SetToSeq(S)) \in Seq(MatchesIn(n))
         /\ S # {} => Sorted(SetToSeq(S)) # <<>>
<1> DEFINE s == SetToSeq(S)
<1>1. s \in Seq(S) /\ Len(s) = Cardinality(S) /\ Cardinality(S) \in Nat
  BY SetToSeqIs
<1>2. s \in Seq(MatchesIn(n))
  BY <1>1, SeqMonotonic
<1> HIDE DEF s
<1>3. Ranges(MatchesIn(n))
  BY DEF Ranges, MatchesIn
<1>4. Sorted(s) \in Seq(MatchesIn(n)) /\ Len(Sorted(s)) = Len(s)
  BY <1>2, <1>3, SortedPermutes
<1>5. ASSUME S # {} PROVE Sorted(s) # <<>>
  <2>1. Cardinality(S) # 0
    BY <1>5, FS_EmptySet
  <2> QED
    BY <1>1, <1>4, <2>1
<1> QED
  BY <1>4, <1>5 DEF s

\* The matches in the order in which they are reached.
LEMMA OnwardsIs ==
  ASSUME IInv
  PROVE  /\ Onwards \in Seq(MatchesIn(Len(text)))
         /\ ~IsCaret(cursors[primary]) => Onwards # <<>>
<1> DEFINE M == MatchesIn(Len(text))
           A == {m \in Matches : m.start >= RangeOf(cursors[primary]).end}
           B == {m \in Matches : ~(m.start >= RangeOf(cursors[primary]).end)}
           x == Sorted(SetToSeq(A))
           y == Sorted(SetToSeq(B))
<1>1. Onwards = x \o y
  BY DEF Onwards
<1>2. IsFiniteSet(Matches) /\ Matches \subseteq M /\ (~IsCaret(cursors[primary]) => Matches # {})
  BY MatchesAre
<1>3. A \in SUBSET Matches /\ B \in SUBSET Matches /\ (Matches # {} => A # {} \/ B # {})
  OBVIOUS
<1>0. Len(text) \in Nat
  BY CursorsAre
<1> HIDE DEF A, B
<1>4. IsFiniteSet(A) /\ IsFiniteSet(B) /\ A \subseteq M /\ B \subseteq M
  BY <1>2, <1>3, FS_Subset
<1>5. x \in Seq(M) /\ (A # {} => x # <<>>)
  BY <1>0, <1>4, InTextIs
<1>6. y \in Seq(M) /\ (B # {} => y # <<>>)
  BY <1>0, <1>4, InTextIs
<1> HIDE DEF x, y, M
<1>7. x \o y \in Seq(M) /\ (x \o y = <<>> => x = <<>> /\ y = <<>>)
  BY <1>5, <1>6, ConcatProperties, ConcatEqualIffEmpty
<1> QED
  BY <1>1, <1>2, <1>3, <1>5, <1>6, <1>7 DEF M

\* A match is selected.
LEMMA MatchCursor ==
  ASSUME NEW n \in Nat, NEW m \in MatchesIn(n)
  PROVE  Cursor(m.start, m.end) \in CursorsIn(0, n)
<1>1. m.start \in 0 .. n /\ m.end \in 0 .. n /\ 0 \in Nat
  BY DEF MatchesIn
<1> QED
  BY <1>1, CursorIs

\* The next match gets a cursor.
LEMMA AddNextMatchKeeps ==
  ASSUME IInv, AddNextMatch
  PROVE  StepGood
<1> DEFINE free == {k \in DOMAIN Onwards :
                      \A i \in DOMAIN cursors : RangeOf(cursors[i]) # Onwards[k]}
           m == Onwards[Min(free)]
<1>1. CASE SelectWords
  BY <1>1, SelectWordsKeeps
<1>2. CASE free # {} /\ Add(Cursor(m.start, m.end))
  <2>1. Onwards \in Seq(MatchesIn(Len(text))) /\ Len(text) \in Nat
    BY OnwardsIs, CursorsAre
  <2>2. free \subseteq DOMAIN Onwards
    OBVIOUS
  <2> HIDE DEF free
  <2>3. DOMAIN Onwards = 1 .. Len(Onwards) /\ Len(Onwards) \in Nat
    BY <2>1
  <2>4. free \subseteq Nat
    BY <2>2, <2>3
  <2>5. Min(free) \in free
    BY <1>2, <2>4, MinIs
  <2>6. m \in MatchesIn(Len(text))
    BY <2>1, <2>2, <2>5
  <2> HIDE DEF m
  <2>7. Cursor(m.start, m.end) \in CursorsIn(0, Len(text))
    BY <2>1, <2>6, MatchCursor
  <2> QED
    BY <1>2, <2>7, AddKeeps
<1> QED
  BY <1>1, <1>2 DEF AddNextMatch

\* The primary cursor goes to the next match.
LEMMA MoveToNextMatchKeeps ==
  ASSUME IInv, MoveToNextMatch
  PROVE  StepGood
<1> DEFINE c == Cursor(Onwards[1].start, Onwards[1].end)
           g == [cursors EXCEPT ![primary] = c]
<1>1. CASE SelectWords
  BY <1>1, SelectWordsKeeps
<1>2. CASE ~IsCaret(cursors[primary]) /\ Select(Normalized(g, primary))
  <2>1. Onwards \in Seq(MatchesIn(Len(text))) /\ Len(text) \in Nat /\ Onwards # <<>>
    BY <1>2, OnwardsIs, CursorsAre
  <2> DEFINE o == Onwards
             m == o[1]
  <2>2. m \in MatchesIn(Len(text))
    <3>1. o \in Seq(MatchesIn(Len(text))) /\ o # <<>>
      BY <2>1
    <3> HIDE DEF o
    <3>2. Len(o) \in Nat /\ Len(o) # 0
      BY <3>1
    <3>3. 1 \in 1 .. Len(o)
      BY <3>2
    <3> QED
      BY <3>1, <3>3
  <2>3. c = Cursor(m.start, m.end)
    OBVIOUS
  <2> HIDE DEF m, c
  <2>4. c \in CursorsIn(0, Len(text))
    BY <2>1, <2>2, <2>3, MatchCursor
  <2>5. /\ cursors \in Seq(CursorsIn(0, Len(text))) /\ Len(cursors) \in Nat
        /\ DOMAIN cursors = 1 .. Len(cursors)
        /\ \A i \in 1 .. Len(cursors) : cursors[i] \in CursorsIn(0, Len(text))
    BY CursorsAre
  <2>6. DOMAIN g = 1 .. Len(cursors) /\ g = [i \in 1 .. Len(cursors) |-> g[i]]
    BY <2>5
  <2>7. \A i \in 1 .. Len(cursors) : g[i] \in CursorsIn(0, Len(text))
    BY <2>4, <2>5
  <2> HIDE DEF g
  <2> QED
    BY <1>2, <2>6, <2>7, MotionKeeps
<1> QED
  BY <1>1, <1>2 DEF MoveToNextMatch

\* Every match gets a cursor.
LEMMA SelectAllMatchesKeeps ==
  ASSUME IInv, SelectAllMatches
  PROVE  StepGood
<1> DEFINE all == Sorted(SetToSeq(Matches))
           K == CursorsIn(0, Len(text))
           g == [i \in DOMAIN all |-> Cursor(all[i].start, all[i].end)]
<1>1. all # <<>> /\ Select(Normalized(g, Len(all)))
  BY DEF SelectAllMatches
<1>2. Len(text) \in Nat /\ 0 \in Nat
  BY CursorsAre
<1>3. all \in Seq(MatchesIn(Len(text)))
  BY <1>2, MatchesAre, InTextIs
<1> HIDE DEF all
<1>4. Len(all) \in Nat /\ Len(all) # 0 /\ DOMAIN all = 1 .. Len(all)
  BY <1>1, <1>3
<1>5. g \in [1 .. Len(all) -> K]
  <2> SUFFICES ASSUME NEW i \in 1 .. Len(all) PROVE Cursor(all[i].start, all[i].end) \in K
    BY <1>4
  <2>1. all[i] \in MatchesIn(Len(text))
    BY <1>3
  <2> QED
    BY <1>2, <2>1, MatchCursor
<1> HIDE DEF g
<1>6. g \in Seq(K) /\ Len(g) = Len(all)
  BY <1>4, <1>5, SeqOfLength
<1>7. Len(all) \in 1 .. Len(g)
  BY <1>4, <1>6
<1>8. Kept(Normalized(g, Len(all)), 0, Len(text))
  BY <1>2, <1>6, <1>7, NormalizedKeeps
<1> QED
  BY <1>1, <1>8, SelectKeeps

(***************************************************************************)
(* One change at each cursor                                               *)
(***************************************************************************)
\* The characters the code itself puts in are among those of texts.
LEMMA CharactersAre ==
  /\ Newline \in Characters /\ Blank \in Characters
  /\ LineToken \in Characters /\ OpenToken \in Characters /\ CloseToken \in Characters
  /\ "(" \in Characters /\ ")" \in Characters
BY EditsAssumption DEF Separators

\* Blanks are a text.
LEMMA BlanksAre ==
  ASSUME NEW n \in Nat
  PROVE  Blanks(n) \in Seq(Characters) /\ Len(Blanks(n)) = n
<1>1. Blanks(n) \in [1 .. n -> Characters]
  BY CharactersAre DEF Blanks
<1> QED
  BY <1>1, SeqOfLength

\* The text of a line.
LEMMA LineTextIs ==
  ASSUME NEW t \in Seq(Characters), NEW l \in Nat
  PROVE  /\ LineText(t, l) \in Seq(Characters)
         /\ l < LineCount(t) => Len(LineText(t, l)) = EndOf(t, l) - StartOf(t, l)
         /\ ~(l < LineCount(t)) => LineText(t, l) = <<>>
<1>1. CASE l < LineCount(t)
  <2> DEFINE a == StartOf(t, l)
             b == EndOf(t, l)
  <2>1. Lined(t) /\ LineCount(t) \in Nat /\ Len(t) \in Nat
    BY LinesAre DEF Lined
  <2>2. l \in 0 .. LineCount(t) - 1
    BY <1>1, <2>1
  <2>3. a \in 0 .. Len(t) /\ b \in 0 .. Len(t) /\ a <= b
    BY <2>1, <2>2 DEF Lined
  <2>4. LineText(t, l) = SubSeq(t, a + 1, b)
    BY <1>1 DEF LineText
  <2> HIDE DEF a, b
  <2>5. \A i \in a + 1 .. b : t[i] \in Characters
    BY <2>1, <2>3
  <2>6. /\ SubSeq(t, a + 1, b) \in Seq(Characters)
        /\ Len(SubSeq(t, a + 1, b)) = IF a + 1 <= b THEN b - (a + 1) + 1 ELSE 0
    BY <2>1, <2>3, <2>5, SubSeqProperties
  <2>7. Len(SubSeq(t, a + 1, b)) = b - a
    BY <2>1, <2>3, <2>6
  <2> QED
    BY <1>1, <2>4, <2>6, <2>7 DEF a, b
<1>2. CASE ~(l < LineCount(t))
  BY <1>2 DEF LineText
<1> QED
  BY <1>1, <1>2

\* What is taken out of a text.
LEMMA TakenOut ==
  ASSUME NEW t, NEW n \in Nat, n = Len(t), NEW a \in 0 .. n, NEW b \in 0 .. n, a <= b
  PROVE  /\ Change(a, b, <<>>) \in ChangesIn(t)
         /\ Change(a, b, <<>>).start = a /\ Change(a, b, <<>>).end = b
         /\ Change(a, b, <<>>).ins = <<>>
<1> DEFINE none == <<>>
<1>1. none \in Seq(Characters)
  OBVIOUS
<1> HIDE DEF none
<1>2. /\ Change(a, b, none) \in ChangesIn(t)
      /\ Change(a, b, none).start = a /\ Change(a, b, none).end = b
      /\ Change(a, b, none).ins = none
  BY <1>1, ChangeIn
<1> QED
  BY <1>2 DEF none

\* The trims are changes of the text, and none of them is a planned one.
LEMMA TrimsAre ==
  ASSUME IInv, NEW planned \in Seq(ChangesIn(text))
  PROVE  /\ IsFiniteSet(Trims(planned)) /\ Trims(planned) \subseteq ChangesIn(text)
         /\ \A i \in 1 .. Len(planned) : planned[i] \notin Trims(planned)
<1> DEFINE Lies(w, c) ==
             \/ LineOf(text, c.start) > w.line \/ LineOf(text, c.end) < w.line
             \/ /\ c.ins # <<>> /\ c.ins[1] = Newline
                /\ LineOf(text, c.start) = w.line /\ Empty(c)
                /\ Column(text, c.start) >= w.columns
           W == {w \in typed :
                   /\ LineText(text, w.line) = Blanks(w.columns)
                   /\ \A i \in DOMAIN planned : Lies(w, planned[i])}
           Trim(w) == Change(StartOf(text, w.line), StartOf(text, w.line) + w.columns, <<>>)
           f == [w \in W |-> Trim(w)]
<1>1. Trims(planned) = {Trim(w) : w \in W}
  BY DEF Trims
<1>2. text \in Seq(Characters) /\ Lined(text) /\ Len(text) \in Nat
  BY CursorsAre
<1>3. IsFiniteSet(typed) /\ typed \subseteq [line : Nat, columns : Nat \ {0}]
  BY DEF IInv, TypedLines
<1>4. ASSUME NEW w \in W
      PROVE  /\ Trim(w) \in ChangesIn(text)
             /\ \A i \in 1 .. Len(planned) : planned[i] # Trim(w)
  <2> DEFINE l == w.line
             a == StartOf(text, l)
             b == EndOf(text, l)
  <2>1. w \in [line : Nat, columns : Nat \ {0}] /\ LineText(text, l) = Blanks(w.columns)
        /\ \A i \in 1 .. Len(planned) : Lies(w, planned[i])
    <3> HIDE DEF Lies
    <3> QED
      BY <1>3
  <2>2. l \in Nat /\ w.columns \in Nat /\ w.columns > 0
    BY <2>1
  <2>3. Len(LineText(text, l)) = w.columns
    BY <2>1, <2>2, BlanksAre
  <2>4. l < LineCount(text)
    <3>1. CASE ~(l < LineCount(text))
      <4>1. LineText(text, l) = <<>>
        BY <1>2, <2>2, <3>1, LineTextIs
      <4>2. Len(<<>>) = 0
        OBVIOUS
      <4> QED
        BY <2>2, <2>3, <4>1, <4>2
    <3> QED
      BY <3>1
  <2>5. l \in 0 .. LineCount(text) - 1
    BY <1>2, <2>2, <2>4 DEF Lined
  <2>6. /\ a \in 0 .. Len(text) /\ b \in 0 .. Len(text) /\ a <= b
        /\ LineOf(text, a) = l /\ LineOf(text, b) = l
    BY <1>2, <2>5 DEF Lined
  <2>7. a + w.columns = b
    <3>1. Len(LineText(text, l)) = b - a
      BY <1>2, <2>2, <2>4, LineTextIs
    <3> QED
      BY <2>2, <2>3, <2>6, <3>1
  <2>8. Trim(w) = Change(a, b, <<>>)
    BY <2>7
  <2> HIDE DEF a, b, l, Trim
  <2> DEFINE n == Len(text)
  <2>9. n \in Nat /\ n = Len(text) /\ a \in 0 .. n /\ b \in 0 .. n
    BY <1>2, <2>6
  <2> HIDE DEF n
  <2>10. /\ Change(a, b, <<>>) \in ChangesIn(text) /\ Change(a, b, <<>>).start = a
         /\ Change(a, b, <<>>).end = b /\ Change(a, b, <<>>).ins = <<>>
    BY <2>6, <2>9, TakenOut
  <2>11. ~Lies(w, Change(a, b, <<>>))
    BY <2>2, <2>6, <2>10 DEF l
  <2> HIDE DEF Lies
  <2> QED
    BY <2>1, <2>8, <2>10, <2>11
<1>5. IsFiniteSet(W)
  <2>1. W \in SUBSET typed
    OBVIOUS
  <2> HIDE DEF W
  <2> QED
    BY <1>3, <2>1, FS_Subset
<1> HIDE DEF W, Trim
<1>6. DOMAIN f = W /\ f = [x \in DOMAIN f |-> f[x]] /\ \A w \in W : f[w] = Trim(w)
  OBVIOUS
<1> HIDE DEF f
<1>7. IsFiniteSet({f[x] : x \in DOMAIN f})
  BY <1>5, <1>6, ImageFinite
<1>8. {f[x] : x \in DOMAIN f} = {Trim(w) : w \in W}
  BY <1>6
<1> QED
  BY <1>1, <1>4, <1>7, <1>8

\* The planned changes and the blanks that go with them.
TrimmedEdit(planned) ==
  LET trims == IF planned = <<>> THEN {} ELSE Trims(planned)
  IN  [changes |-> Sorted(planned \o SetToSeq(trims)), trims |-> trims]

\* The changes of an edit are the planned ones and the trims, in order.
LEMMA TrimmedEditIs ==
  ASSUME IInv, NEW planned \in Seq(ChangesIn(text))
  PROVE  LET edit == TrimmedEdit(planned)
         IN  /\ edit.changes \in Seq(ChangesIn(text)) /\ Mounts(edit.changes)
             /\ \A i \in 1 .. Len(edit.changes) :
                  edit.changes[i] \notin edit.trims =>
                    \E b \in 1 .. Len(planned) : edit.changes[i] = planned[b]
             /\ \A b \in 1 .. Len(planned) :
                  \E i \in 1 .. Len(edit.changes) :
                    edit.changes[i] = planned[b] /\ edit.changes[i] \notin edit.trims
             /\ planned = <<>> => edit.changes = <<>>
             /\ Len(planned) <= Len(edit.changes)
             /\ \E h : /\ Permutes(h, Len(edit.changes))
                       /\ \A i \in 1 .. Len(edit.changes) :
                            edit.changes[i] \notin edit.trims <=> h[i] <= Len(planned)
<1> DEFINE D == ChangesIn(text)
           trims == IF planned = <<>> THEN {} ELSE Trims(planned)
           s == SetToSeq(trims)
           k == Len(planned)
           x == planned \o s
           cs == Sorted(x)
<1>1. TrimmedEdit(planned).changes = cs /\ TrimmedEdit(planned).trims = trims
  BY DEF TrimmedEdit
<1> DEFINE edit == TrimmedEdit(planned)
<1> HIDE DEF edit
<1>2. IsFiniteSet(trims) /\ trims \subseteq D /\ \A i \in 1 .. k : planned[i] \notin trims
  BY TrimsAre, FS_EmptySet
<1>2a. planned = <<>> => trims = {}
  OBVIOUS
<1>3. k \in Nat /\ text \in Seq(Characters) /\ Len(text) \in Nat
  BY CursorsAre
<1> HIDE DEF trims
<1>4. s \in Seq(trims) /\ Len(s) = Cardinality(trims) /\ Cardinality(trims) \in Nat
  BY <1>2, SetToSeqIs
<1>5. s \in Seq(D)
  BY <1>2, <1>4, SeqMonotonic
<1>6. Ranges(D)
  <2> SUFFICES ASSUME NEW c \in D PROVE c.start \in Nat /\ c.end \in Nat
    BY DEF Ranges
  <2> QED
    BY <1>3, ChangesInIs
<1> HIDE DEF D
<1> DEFINE m == Len(s)
<1>7. /\ x \in Seq(D) /\ Len(x) = k + m /\ m \in Nat
      /\ \A i \in 1 .. k : x[i] = planned[i]
      /\ \A i \in k + 1 .. k + m : x[i] \in trims
  <2>1. /\ x \in Seq(D) /\ Len(x) = k + m
        /\ \A i \in 1 .. k + m : x[i] = IF i <= k THEN planned[i] ELSE s[i - k]
    <3>1. planned \in Seq(D)
      BY DEF D
    <3> QED
      BY <1>5, <3>1, ConcatProperties
  <2>2. m \in Nat
    BY <1>4
  <2> HIDE DEF x, k
  <2>3. \A i \in 1 .. k : x[i] = planned[i]
    BY <1>3, <2>1, <2>2
  <2>4. ASSUME NEW i \in k + 1 .. k + m PROVE x[i] \in trims
    <3>1. i \in 1 .. k + m /\ ~(i <= k) /\ i - k \in 1 .. m
      BY <1>3, <2>2
    <3>2. x[i] = s[i - k]
      BY <2>1, <3>1
    <3>3. s[i - k] \in trims
      BY <1>4, <3>1
    <3> QED
      BY <3>2, <3>3
  <2> QED
    BY <2>1, <2>2, <2>3, <2>4
<1>8. /\ cs \in Seq(D) /\ Len(cs) = Len(x) /\ Ascends(cs)
      /\ \E h : Permutes(h, Len(x)) /\ Picks(cs, x, h, Len(x))
  BY <1>6, <1>7, SortedPermutes
<1>9. PICK h : Permutes(h, k + m) /\ Picks(cs, x, h, k + m)
  BY <1>7, <1>8
<1>10. planned = <<>> => cs = <<>>
  <2> SUFFICES ASSUME planned = <<>> PROVE cs = <<>>
    OBVIOUS
  <2>1. k = 0 /\ trims = {}
    BY <1>2a
  <2>2. m = 0
    BY <1>4, <2>1, FS_EmptySet
  <2>3. Len(cs) = 0
    BY <1>7, <1>8, <2>1, <2>2
  <2> HIDE DEF cs
  <2> QED
    BY <1>8, <2>3
<1> HIDE DEF cs, x, s, k, m
<1>11. Len(cs) = k + m /\ DOMAIN cs = 1 .. k + m
  BY <1>7, <1>8
<1>12. Mounts(cs)
  <2> SUFFICES ASSUME NEW i \in 1 .. k + m, NEW j \in 1 .. k + m, i < j
               PROVE  cs[i].start <= cs[j].start
    BY <1>11 DEF Mounts
  <2>1. ~Precedes(cs[j], cs[i])
    BY <1>8, <1>11 DEF Ascends
  <2>2. cs[i] \in D /\ cs[j] \in D
    BY <1>8, <1>11
  <2>3. cs[i].start \in Nat /\ cs[j].start \in Nat
    BY <1>6, <2>2 DEF Ranges
  <2> QED
    BY <2>1, <2>3 DEF Precedes
<1>13. ASSUME NEW i \in 1 .. k + m, cs[i] \notin trims
       PROVE  \E b \in 1 .. k : cs[i] = planned[b]
  <2>1. h[i] \in 1 .. k + m /\ cs[i] = x[h[i]]
    BY <1>9 DEF Permutes, Picks
  <2>2. ~(h[i] \in k + 1 .. k + m)
    BY <1>7, <1>13, <2>1
  <2>3. h[i] \in 1 .. k
    BY <1>3, <1>7, <2>1, <2>2 DEF k
  <2> QED
    BY <1>7, <2>1, <2>3
<1>14. ASSUME NEW b \in 1 .. k
       PROVE  \E i \in 1 .. k + m : cs[i] = planned[b] /\ cs[i] \notin trims
  <2>1. b \in 1 .. k + m
    BY <1>3, <1>7 DEF k
  <2>2. PICK i \in 1 .. k + m : h[i] = b
    BY <1>9, <2>1 DEF Permutes
  <2>3. cs[i] = planned[b]
    BY <1>7, <1>9, <2>2 DEF Picks
  <2> QED
    BY <1>2, <2>3
<1>15. ASSUME NEW i \in 1 .. k + m PROVE cs[i] \notin trims <=> h[i] <= k
  <2>1. h[i] \in 1 .. k + m /\ cs[i] = x[h[i]]
    BY <1>9 DEF Permutes, Picks
  <2>2. CASE h[i] <= k
    <3>1. h[i] \in 1 .. k
      BY <1>3, <1>7, <2>1, <2>2 DEF k
    <3> QED
      BY <1>2, <1>7, <2>1, <2>2, <3>1
  <2>3. CASE ~(h[i] <= k)
    <3>1. h[i] \in k + 1 .. k + m
      BY <1>3, <1>7, <2>1, <2>3 DEF k
    <3> QED
      BY <1>7, <2>1, <2>3, <3>1
  <2> QED
    BY <2>2, <2>3
<1>16. k <= k + m
  BY <1>3, <1>7 DEF k
<1>17. Permutes(h, k + m)
  BY <1>9
<1>18. edit.changes = cs /\ edit.trims = trims
  BY <1>1 DEF edit
<1>19. \E q : /\ Permutes(q, Len(cs))
              /\ \A i \in 1 .. Len(cs) : cs[i] \notin trims <=> q[i] <= k
  BY <1>11, <1>15, <1>17
<1> QED
  BY <1>8, <1>10, <1>11, <1>12, <1>13, <1>14, <1>16, <1>18, <1>19 DEF k, D, edit

\* Where the caret of a change is put, and the carets of an edit.
CaretAt(cs, i) == cs[i].start + Delta(cs, i) + Len(cs[i].ins)

\* The carets of an edit before they are normalized.
Following(edit) ==
  FlattenSeq([i \in DOMAIN edit.changes |->
                IF edit.changes[i] \in edit.trims THEN <<>>
                ELSE <<Caret(CaretAt(edit.changes, i))>>])

\* The a-th of them is of the h[a]-th change.
Follows(h, edit) ==
  /\ h \in [1 .. Len(Following(edit)) -> 1 .. Len(edit.changes)]
  /\ \A a, b \in 1 .. Len(Following(edit)) : a < b => h[a] < h[b]
  /\ \A a \in 1 .. Len(Following(edit)) :
       /\ edit.changes[h[a]] \notin edit.trims
       /\ Following(edit)[a] = Caret(CaretAt(edit.changes, h[a]))
  /\ \A i \in 1 .. Len(edit.changes) :
       edit.changes[i] \notin edit.trims => \E a \in 1 .. Len(Following(edit)) : h[a] = i

\* They lie in the new text, and there is one for each planned change.
LEMMA FollowingAre ==
  ASSUME IInv, NEW planned \in Seq(ChangesIn(text)), planned # <<>>, NEW lo \in Nat,
         \A b \in 1 .. Len(planned) : Len(planned[b].ins) >= lo,
         Fits(TrimmedEdit(planned).changes, Len(text))
  PROVE  LET edit == TrimmedEdit(planned)
         IN  /\ Carets(edit) = Normalized(Following(edit), 1)
             /\ Following(edit) \in Seq(CursorsIn(lo, Len(Applied(text, edit.changes))))
             /\ 1 \in 1 .. Len(Following(edit))
             /\ \E h : Follows(h, edit)
<1> DEFINE edit == TrimmedEdit(planned)
           cs == edit.changes
           u == Applied(text, cs)
           hi == Len(u)
           K == CursorsIn(lo, hi)
           Follow(i) == IF cs[i] \in edit.trims THEN <<>>
                        ELSE <<Caret(CaretAt(cs, i))>>
           seqs == [i \in DOMAIN cs |-> Follow(i)]
<1>1. text \in Seq(Characters) /\ Len(text) \in Nat
  BY CursorsAre
<1>2. /\ cs \in Seq(ChangesIn(text))
      /\ \A i \in 1 .. Len(cs) :
           cs[i] \notin edit.trims => \E b \in 1 .. Len(planned) : cs[i] = planned[b]
      /\ \A b \in 1 .. Len(planned) :
           \E i \in 1 .. Len(cs) : cs[i] = planned[b] /\ cs[i] \notin edit.trims
  BY TrimmedEditIs
<1>3. Carets(edit) = Normalized(FlattenSeq(seqs), 1)
  BY DEF Carets, CaretAt
<1>3a. Following(edit) = FlattenSeq(seqs)
  BY DEF Following
<1>4. Fits(cs, Len(text))
  OBVIOUS
<1> HIDE DEF edit
<1>5. cs \in Seq(ChangesOf(Characters)) /\ Len(cs) \in Nat /\ DOMAIN cs = 1 .. Len(cs)
  BY <1>1, <1>2, SeqIn
<1>6. u \in Seq(Characters) /\ hi \in Nat
  <2>1. u \in Seq(Characters)
    BY <1>1, <1>4, <1>5, AppliedIs
  <2> QED
    BY <2>1
<1>7. ASSUME NEW i \in 1 .. Len(cs), cs[i] \notin edit.trims
      PROVE  Caret(CaretAt(cs, i)) \in K
  <2> DEFINE a == cs[i].start + Delta(cs, i)
             l == Len(cs[i].ins)
  <2>1. a \in Nat /\ a + l \in 0 .. hi
    BY <1>1, <1>4, <1>5, CaretFollows
  <2>2. l \in Nat
    BY <1>5, ChangeTypes
  <2>3. l >= lo
    BY <1>2, <1>7
  <2> HIDE DEF a, l
  <2>4. a + l \in lo .. hi
    BY <1>6, <2>1, <2>2, <2>3
  <2>5. Caret(a + l) \in K
    <3> HIDE DEF hi
    <3> QED
      BY <1>6, <2>4, CursorIs
  <2> QED
    BY <2>5 DEF a, l, CaretAt
<1> HIDE DEF u, K, cs
<1>8. ASSUME NEW i \in 1 .. Len(cs) PROVE Follow(i) \in Seq(K) /\ Len(Follow(i)) <= 1
  <2>1. CASE cs[i] \in edit.trims
    BY <2>1
  <2>2. CASE cs[i] \notin edit.trims
    <3> DEFINE c == Caret(CaretAt(cs, i))
    <3>1. c \in K /\ Follow(i) = <<c>>
      BY <1>7, <2>2
    <3> HIDE DEF c, Follow
    <3> QED
      BY <3>1
  <2> QED
    BY <2>1, <2>2
<1>9. \A i \in 1 .. Len(cs) : seqs[i] = Follow(i)
  BY <1>5
<1>10. seqs \in [1 .. Len(cs) -> Seq(K)]
  <2> HIDE DEF Follow
  <2> QED
    BY <1>5, <1>8
<1>11. ASSUME NEW i \in 1 .. Len(cs), cs[i] \notin edit.trims PROVE seqs[i] # <<>>
  BY <1>9, <1>11
<1>11a. ASSUME NEW i \in 1 .. Len(cs), cs[i] \in edit.trims PROVE seqs[i] = <<>>
  BY <1>9, <1>11a
<1>11b. ASSUME NEW i \in 1 .. Len(cs), cs[i] \notin edit.trims PROVE seqs[i] = <<Caret(CaretAt(cs, i))>>
  BY <1>9, <1>11b
<1> HIDE DEF seqs, Follow
<1>12. seqs \in Seq(Seq(K)) /\ Len(seqs) = Len(cs) /\ \A i \in 1 .. Len(seqs) : Len(seqs[i]) <= 1
  <2>1. seqs \in Seq(Seq(K)) /\ Len(seqs) = Len(cs)
    BY <1>5, <1>10, SeqOfLength
  <2> QED
    BY <1>8, <1>9, <2>1
<1> DEFINE flat == FlattenSeq(seqs)
<1>13. flat \in Seq(K) /\ \E h : Keeps(h, flat, seqs, Len(cs))
  BY <1>12, FlattenKeeps
<1> HIDE DEF flat
<1>14. 1 \in 1 .. Len(flat)
  <2>1. 1 \in 1 .. Len(planned)
    <3>1. Len(planned) \in Nat /\ Len(planned) # 0
      OBVIOUS
    <3> QED
      BY <3>1
  <2>2. PICK i \in 1 .. Len(cs) : cs[i] = planned[1] /\ cs[i] \notin edit.trims
    BY <1>2, <2>1
  <2>3. seqs[i] # <<>>
    BY <1>11, <2>2
  <2>4. PICK h : Keeps(h, flat, seqs, Len(cs))
    BY <1>13
  <2>5. \E a \in 1 .. Len(flat) : h[a] = i
    BY <2>3, <2>4 DEF Keeps
  <2>6. Len(flat) \in Nat
    BY <1>13
  <2> QED
    BY <2>5, <2>6
<1>15. PICK h : Keeps(h, flat, seqs, Len(cs))
  BY <1>13
<1>16. ASSUME NEW a \in 1 .. Len(flat)
       PROVE  cs[h[a]] \notin edit.trims /\ flat[a] = Caret(CaretAt(cs, h[a]))
  <2> DEFINE d == flat[a]
             e == Caret(CaretAt(cs, h[a]))
  <2>1. h[a] \in 1 .. Len(cs) /\ seqs[h[a]] = <<d>>
    BY <1>15 DEF Keeps
  <2>2. seqs[h[a]] # <<>>
    <3> HIDE DEF d
    <3>1. <<d>> # <<>>
      OBVIOUS
    <3> QED
      BY <2>1, <3>1
  <2>3. cs[h[a]] \notin edit.trims
    BY <1>11a, <2>1, <2>2
  <2>4. seqs[h[a]] = <<e>>
    BY <1>11b, <2>1, <2>3
  <2>5. d = e
    <3>1. <<d>> = <<e>>
      BY <2>1, <2>4
    <3> HIDE DEF d, e
    <3> QED
      BY <3>1
  <2> QED
    BY <2>3, <2>5
<1>17. Following(edit) = flat
  BY <1>3a DEF flat
<1>18. Follows(h, edit)
  <2>1. /\ h \in [1 .. Len(flat) -> 1 .. Len(cs)]
        /\ \A a, b \in 1 .. Len(flat) : a < b => h[a] < h[b]
        /\ \A i \in 1 .. Len(cs) : seqs[i] # <<>> => \E a \in 1 .. Len(flat) : h[a] = i
    BY <1>15 DEF Keeps
  <2>2. \A i \in 1 .. Len(cs) : cs[i] \notin edit.trims => \E a \in 1 .. Len(flat) : h[a] = i
    BY <1>11, <2>1
  <2> QED
    BY <1>16, <1>17, <2>1, <2>2 DEF Follows, cs
<1> QED
  BY <1>3, <1>13, <1>14, <1>17, <1>18 DEF flat, u, cs, edit, K

\* They lie apart once they are normalized.
LEMMA CaretsKept ==
  ASSUME IInv, NEW planned \in Seq(ChangesIn(text)), planned # <<>>, NEW lo \in Nat,
         \A b \in 1 .. Len(planned) : Len(planned[b].ins) >= lo,
         Fits(TrimmedEdit(planned).changes, Len(text))
  PROVE  Kept(Carets(TrimmedEdit(planned)), lo, Len(Applied(text, TrimmedEdit(planned).changes)))
<1> DEFINE edit == TrimmedEdit(planned)
           flat == Following(edit)
           hi == Len(Applied(text, edit.changes))
<1>1. edit.changes \in Seq(ChangesIn(text))
  BY TrimmedEditIs
<1>2. hi \in Nat
  <2>1. text \in Seq(Characters)
    BY CursorsAre
  <2>2. edit.changes \in Seq(ChangesOf(Characters))
    BY <1>1, <2>1, SeqIn
  <2> HIDE DEF edit
  <2>3. Fits(edit.changes, Len(text))
    BY DEF edit
  <2>4. Applied(text, edit.changes) \in Seq(Characters)
    BY <2>1, <2>2, <2>3, AppliedIs
  <2> QED
    BY <2>4
<1>3. Carets(edit) = Normalized(flat, 1) /\ flat \in Seq(CursorsIn(lo, hi)) /\ 1 \in 1 .. Len(flat)
  BY FollowingAre
<1> HIDE DEF flat, hi
<1>4. Kept(Normalized(flat, 1), lo, hi)
  BY <1>2, <1>3, NormalizedKeeps
<1> QED
  BY <1>3, <1>4 DEF hi, edit

\* What a cursor plans: nothing, or one change.
Plans == {<<>>} \cup {<<c>> : c \in ChangesIn(text)}

\* The changes the cursors plan, in a row.
LEMMA PlansAre ==
  ASSUME IInv, NEW plans, plans = [i \in 1 .. Len(cursors) |-> plans[i]],
         \A i \in 1 .. Len(cursors) : plans[i] \in Plans
  PROVE  /\ FlattenSeq(plans) \in Seq(ChangesIn(text))
         /\ \E h : Keeps(h, FlattenSeq(plans), plans, Len(cursors))
<1> DEFINE D == ChangesIn(text)
<1>1. \A p \in Plans : p \in Seq(D) /\ Len(p) <= 1
  <2> HIDE DEF D
  <2>1. \A c \in D : <<c>> \in Seq(D) /\ Len(<<c>>) <= 1
    OBVIOUS
  <2>2. <<>> \in Seq(D) /\ Len(<<>>) <= 1
    OBVIOUS
  <2> QED
    BY <2>1, <2>2 DEF Plans, D
<1>2. Len(cursors) \in Nat
  BY CursorsAre
<1>3. plans \in [1 .. Len(cursors) -> Seq(D)]
  <2> HIDE DEF D
  <2> QED
    BY <1>1
<1> HIDE DEF D
<1>4. plans \in Seq(Seq(D)) /\ Len(plans) = Len(cursors)
  BY <1>2, <1>3, SeqOfLength
<1>5. \A i \in 1 .. Len(plans) : Len(plans[i]) <= 1
  BY <1>1, <1>4
<1> QED
  BY <1>4, <1>5, FlattenKeeps DEF D

\* edit_at_selections.
LEMMA EditAtKeeps ==
  ASSUME IInv, NEW plans, plans = [i \in 1 .. Len(cursors) |-> plans[i]],
         \A i \in 1 .. Len(cursors) : plans[i] \in Plans,
         Commit(TrimmedEdit(FlattenSeq(plans)).changes, Carets(TrimmedEdit(FlattenSeq(plans)))),
         typed' = {}
  PROVE  StepGood
<1> DEFINE planned == FlattenSeq(plans)
           edit == TrimmedEdit(planned)
<1>1. planned \in Seq(ChangesIn(text))
  BY PlansAre
<1>2. Commit(edit.changes, Carets(edit))
  OBVIOUS
<1> HIDE DEF planned
<1>3. /\ edit.changes \in Seq(ChangesIn(text)) /\ Mounts(edit.changes)
      /\ planned = <<>> => edit.changes = <<>>
  BY <1>1, TrimmedEditIs
<1>4. planned # <<>>
  BY <1>2, <1>3 DEF Commit
<1>5. Fits(edit.changes, Len(text)) => Kept(Carets(edit), 0, Len(Applied(text, edit.changes)))
  <2> SUFFICES ASSUME Fits(edit.changes, Len(text))
               PROVE  Kept(Carets(edit), 0, Len(Applied(text, edit.changes)))
    OBVIOUS
  <2>1. \A b \in 1 .. Len(planned) : Len(planned[b].ins) >= 0
    <3> SUFFICES ASSUME NEW b \in 1 .. Len(planned) PROVE Len(planned[b].ins) >= 0
      OBVIOUS
    <3>1. planned[b] \in ChangesIn(text) /\ text \in Seq(Characters)
      BY <1>1, CursorsAre
    <3>2. Len(planned[b].ins) \in Nat
      BY <3>1, ChangesInIs
    <3> QED
      BY <3>2
  <2>2. 0 \in Nat
    OBVIOUS
  <2> QED
    BY <1>1, <1>4, <2>1, <2>2, CaretsKept
<1>6. TypedLines'
  <2>1. IsFiniteSet({})
    BY FS_EmptySet
  <2> QED
    BY <2>1 DEF TypedLines
<1> HIDE DEF edit
<1> QED
  BY <1>2, <1>3, <1>5, <1>6, CommitKeeps

(***************************************************************************)
(* Commands that change something at each cursor                           *)
(***************************************************************************)
\* What a selection is replaced by.
LEMMA OverIs ==
  ASSUME IInv, NEW c \in CursorsIn(0, Len(text)), NEW ins \in Seq(Characters)
  PROVE  /\ Over(c, ins) \in ChangesIn(text) /\ <<Over(c, ins)>> \in Plans
         /\ Over(c, ins).start = RangeOf(c).start /\ Over(c, ins).end = RangeOf(c).end
         /\ Over(c, ins).ins = ins
<1> DEFINE n == Len(text)
           a == RangeOf(c).start
           b == RangeOf(c).end
<1>1. n \in Nat /\ n = Len(text)
  BY CursorsAre
<1>2. 0 \in Nat /\ c \in CursorsIn(0, n)
  OBVIOUS
<1> HIDE DEF n
<1>3. a \in 0 .. n /\ b \in 0 .. n /\ a <= b
  BY <1>1, <1>2, RangeIs
<1>4. Over(c, ins) = Change(a, b, ins)
  BY DEF Over
<1> HIDE DEF a, b
<1>5. /\ Change(a, b, ins) \in ChangesIn(text)
      /\ Change(a, b, ins).start = a /\ Change(a, b, ins).end = b /\ Change(a, b, ins).ins = ins
  BY <1>1, <1>3, ChangeIn
<1> QED
  BY <1>4, <1>5 DEF Plans, a, b

\* Nothing is a text, and a plan.
LEMMA NothingIsText == <<>> \in Seq(Characters) /\ <<>> \in Plans
BY DEF Plans

\* insert_text.
LEMMA InsertTextKeeps ==
  ASSUME IInv, NEW ins \in Seq(Characters), InsertText(ins)
  PROVE  StepGood
<1> DEFINE P(c) == <<Over(c, ins)>>
           plans == [i \in DOMAIN cursors |-> P(cursors[i])]
<1>1. /\ Commit(TrimmedEdit(FlattenSeq(plans)).changes, Carets(TrimmedEdit(FlattenSeq(plans))))
      /\ typed' = {}
  BY DEF InsertText, EditAtCursors, Planned, TrimmedEdit
<1>2. DOMAIN cursors = 1 .. Len(cursors)
  BY CursorsAre
<1>3. plans = [i \in 1 .. Len(cursors) |-> P(cursors[i])]
  BY <1>2
<1>4. \A i \in 1 .. Len(cursors) : P(cursors[i]) \in Plans
  BY ActiveIs, OverIs
<1> HIDE DEF plans, P
<1>5. plans = [i \in 1 .. Len(cursors) |-> plans[i]] /\ \A i \in 1 .. Len(cursors) : plans[i] \in Plans
  BY <1>3, <1>4
<1> QED
  BY <1>1, <1>5, EditAtKeeps

\* Deletions from the carets to other places.
LEMMA DeleteKeeps ==
  ASSUME IInv, NEW to, \A i \in 1 .. Len(cursors) : to[i] \in 0 .. Len(text),
         NEW plans,
         plans = [i \in DOMAIN cursors |->
                    IF ~IsCaret(cursors[i]) THEN <<Over(cursors[i], <<>>)>>
                    ELSE IF to[i] = cursors[i].active THEN <<>>
                    ELSE <<Over(Cursor(cursors[i].active, to[i]), <<>>)>>],
         Commit(TrimmedEdit(FlattenSeq(plans)).changes, Carets(TrimmedEdit(FlattenSeq(plans)))),
         typed' = {}
  PROVE  StepGood
<1> DEFINE none == <<>>
           P(i) == IF ~IsCaret(cursors[i]) THEN <<Over(cursors[i], none)>>
                   ELSE IF to[i] = cursors[i].active THEN none
                   ELSE <<Over(Cursor(cursors[i].active, to[i]), none)>>
<1>1. none \in Seq(Characters) /\ none \in Plans
  BY NothingIsText
<1>2. DOMAIN cursors = 1 .. Len(cursors) /\ Len(text) \in Nat
  BY CursorsAre
<1>3. plans = [i \in 1 .. Len(cursors) |-> P(i)]
  BY <1>2
<1>4. ASSUME NEW i \in 1 .. Len(cursors) PROVE P(i) \in Plans
  <2>1. cursors[i] \in CursorsIn(0, Len(text)) /\ cursors[i].active \in 0 .. Len(text)
    BY ActiveIs
  <2>2. Cursor(cursors[i].active, to[i]) \in CursorsIn(0, Len(text))
    BY <1>2, <2>1, CursorIs
  <2> HIDE DEF none
  <2>3. <<Over(cursors[i], none)>> \in Plans
    BY <1>1, <2>1, OverIs
  <2>4. <<Over(Cursor(cursors[i].active, to[i]), none)>> \in Plans
    BY <1>1, <2>2, OverIs
  <2>5. CASE ~IsCaret(cursors[i])
    BY <2>3, <2>5
  <2>6. CASE IsCaret(cursors[i]) /\ to[i] = cursors[i].active
    BY <1>1, <2>6
  <2>7. CASE IsCaret(cursors[i]) /\ to[i] # cursors[i].active
    BY <2>4, <2>7
  <2> QED
    BY <2>5, <2>6, <2>7
<1> HIDE DEF P
<1>5. plans = [i \in 1 .. Len(cursors) |-> plans[i]] /\ \A i \in 1 .. Len(cursors) : plans[i] \in Plans
  BY <1>3, <1>4
<1> QED
  BY <1>5, EditAtKeeps

\* A number of whole levels of indentation is a level at least.
LEMMA WholeLevels ==
  ASSUME NEW n \in Nat, n > 0, NEW size \in Nat \ {0}, n % size = 0
  PROVE  size <= n
OBVIOUS

\* What Backspace goes back to lies in the text.
LEMMA BackFromIs ==
  ASSUME IInv, NEW at \in 0 .. Len(text)
  PROVE  BackFrom(at) \in 0 .. Len(text)
<1> DEFINE column == Column(text, at)
           n == Len(text)
           indentation == Indentation(text, LineOf(text, at))
<1>1. n \in Nat /\ Lined(text)
  BY CursorsAre
<1>2. column \in 0 .. at
  BY <1>1, ColumnIs
<1>3. TabSize \in Nat \ {0}
  BY EditsAssumption
<1>4. LeftOf(at) \in 0 .. n
  BY LeftAndRight
<1>5. BackFrom(at) = IF column > 0 /\ column % TabSize = 0 /\ column <= indentation
                     THEN at - TabSize ELSE LeftOf(at)
  BY DEF BackFrom
<1>6. at \in 0 .. n
  OBVIOUS
<1> HIDE DEF n, column, indentation
<1>7. CASE column > 0 /\ column % TabSize = 0 /\ column <= indentation
  <2>1. TabSize <= column
    <3>1. column \in Nat
      BY <1>1, <1>2, <1>6
    <3> QED
      BY <1>3, <1>7, <3>1, WholeLevels
  <2>2. at - TabSize \in 0 .. n
    BY <1>1, <1>2, <1>3, <1>6, <2>1
  <2> QED
    BY <1>5, <1>7, <2>2 DEF n
<1>8. CASE ~(column > 0 /\ column % TabSize = 0 /\ column <= indentation)
  BY <1>4, <1>5, <1>8 DEF n
<1> QED
  BY <1>7, <1>8

\* delete_left.
LEMMA DeleteLeftKeeps ==
  ASSUME IInv, DeleteLeft
  PROVE  StepGood
<1> DEFINE to == [i \in DOMAIN cursors |-> BackFrom(cursors[i].active)]
           plans == [i \in DOMAIN cursors |->
                       IF ~IsCaret(cursors[i]) THEN <<Over(cursors[i], <<>>)>>
                       ELSE IF BackFrom(cursors[i].active) = cursors[i].active THEN <<>>
                       ELSE <<Over(Cursor(cursors[i].active, BackFrom(cursors[i].active)), <<>>)>>]
           same == [i \in DOMAIN cursors |->
                       IF ~IsCaret(cursors[i]) THEN <<Over(cursors[i], <<>>)>>
                       ELSE IF to[i] = cursors[i].active THEN <<>>
                       ELSE <<Over(Cursor(cursors[i].active, to[i]), <<>>)>>]
<1>1. /\ Commit(TrimmedEdit(FlattenSeq(plans)).changes, Carets(TrimmedEdit(FlattenSeq(plans))))
      /\ typed' = {}
  BY DEF DeleteLeft, Delete, EditAtCursors, Planned, TrimmedEdit
<1>2. plans = same
  OBVIOUS
<1>3. \A i \in 1 .. Len(cursors) : to[i] \in 0 .. Len(text)
  <2> SUFFICES ASSUME NEW i \in 1 .. Len(cursors) PROVE to[i] \in 0 .. Len(text)
    OBVIOUS
  <2>1. cursors[i].active \in 0 .. Len(text) /\ i \in DOMAIN cursors
    BY ActiveIs, CursorsAre
  <2>2. BackFrom(cursors[i].active) \in 0 .. Len(text)
    BY <2>1, BackFromIs
  <2> QED
    BY <2>1, <2>2
<1> HIDE DEF plans, to
<1> QED
  BY <1>1, <1>2, <1>3, DeleteKeeps

\* delete_right.
LEMMA DeleteRightKeeps ==
  ASSUME IInv, DeleteRight
  PROVE  StepGood
<1> DEFINE to == [i \in DOMAIN cursors |-> RightOf(cursors[i].active)]
           plans == [i \in DOMAIN cursors |->
                       IF ~IsCaret(cursors[i]) THEN <<Over(cursors[i], <<>>)>>
                       ELSE IF RightOf(cursors[i].active) = cursors[i].active THEN <<>>
                       ELSE <<Over(Cursor(cursors[i].active, RightOf(cursors[i].active)), <<>>)>>]
           same == [i \in DOMAIN cursors |->
                       IF ~IsCaret(cursors[i]) THEN <<Over(cursors[i], <<>>)>>
                       ELSE IF to[i] = cursors[i].active THEN <<>>
                       ELSE <<Over(Cursor(cursors[i].active, to[i]), <<>>)>>]
<1>1. /\ Commit(TrimmedEdit(FlattenSeq(plans)).changes, Carets(TrimmedEdit(FlattenSeq(plans))))
      /\ typed' = {}
  BY DEF DeleteRight, Delete, EditAtCursors, Planned, TrimmedEdit
<1>2. plans = same
  OBVIOUS
<1>3. \A i \in 1 .. Len(cursors) : to[i] \in 0 .. Len(text)
  <2> SUFFICES ASSUME NEW i \in 1 .. Len(cursors) PROVE to[i] \in 0 .. Len(text)
    OBVIOUS
  <2>1. cursors[i].active \in 0 .. Len(text) /\ i \in DOMAIN cursors
    BY ActiveIs, CursorsAre
  <2>2. RightOf(cursors[i].active) \in 0 .. Len(text)
    BY <2>1, LeftAndRight
  <2> QED
    BY <2>1, <2>2
<1> HIDE DEF plans, to
<1> QED
  BY <1>1, <1>2, <1>3, DeleteKeeps

\* delete_word_left.
LEMMA DeleteWordLeftKeeps ==
  ASSUME IInv, DeleteWordLeft
  PROVE  StepGood
<1> DEFINE to == [i \in DOMAIN cursors |-> WordStartLeft(text, cursors[i].active)]
           plans == [i \in DOMAIN cursors |->
                       IF ~IsCaret(cursors[i]) THEN <<Over(cursors[i], <<>>)>>
                       ELSE IF WordStartLeft(text, cursors[i].active) = cursors[i].active THEN <<>>
                       ELSE <<Over(Cursor(cursors[i].active, WordStartLeft(text, cursors[i].active)), <<>>)>>]
           same == [i \in DOMAIN cursors |->
                       IF ~IsCaret(cursors[i]) THEN <<Over(cursors[i], <<>>)>>
                       ELSE IF to[i] = cursors[i].active THEN <<>>
                       ELSE <<Over(Cursor(cursors[i].active, to[i]), <<>>)>>]
<1>1. /\ Commit(TrimmedEdit(FlattenSeq(plans)).changes, Carets(TrimmedEdit(FlattenSeq(plans))))
      /\ typed' = {}
  BY DEF DeleteWordLeft, Delete, EditAtCursors, Planned, TrimmedEdit
<1>2. plans = same
  OBVIOUS
<1>3. \A i \in 1 .. Len(cursors) : to[i] \in 0 .. Len(text)
  <2> SUFFICES ASSUME NEW i \in 1 .. Len(cursors) PROVE to[i] \in 0 .. Len(text)
    OBVIOUS
  <2>1. cursors[i].active \in 0 .. Len(text) /\ i \in DOMAIN cursors
    BY ActiveIs, CursorsAre
  <2>2. WordStartLeft(text, cursors[i].active) \in 0 .. Len(text)
    BY <2>1, CursorsAre, WordStartLeftIs
  <2> QED
    BY <2>1, <2>2
<1> HIDE DEF plans, to
<1> QED
  BY <1>1, <1>2, <1>3, DeleteKeeps

\* delete_word_right.
LEMMA DeleteWordRightKeeps ==
  ASSUME IInv, DeleteWordRight
  PROVE  StepGood
<1> DEFINE to == [i \in DOMAIN cursors |-> WordEndRight(text, cursors[i].active)]
           plans == [i \in DOMAIN cursors |->
                       IF ~IsCaret(cursors[i]) THEN <<Over(cursors[i], <<>>)>>
                       ELSE IF WordEndRight(text, cursors[i].active) = cursors[i].active THEN <<>>
                       ELSE <<Over(Cursor(cursors[i].active, WordEndRight(text, cursors[i].active)), <<>>)>>]
           same == [i \in DOMAIN cursors |->
                       IF ~IsCaret(cursors[i]) THEN <<Over(cursors[i], <<>>)>>
                       ELSE IF to[i] = cursors[i].active THEN <<>>
                       ELSE <<Over(Cursor(cursors[i].active, to[i]), <<>>)>>]
<1>1. /\ Commit(TrimmedEdit(FlattenSeq(plans)).changes, Carets(TrimmedEdit(FlattenSeq(plans))))
      /\ typed' = {}
  BY DEF DeleteWordRight, Delete, EditAtCursors, Planned, TrimmedEdit
<1>2. plans = same
  OBVIOUS
<1>3. \A i \in 1 .. Len(cursors) : to[i] \in 0 .. Len(text)
  <2> SUFFICES ASSUME NEW i \in 1 .. Len(cursors) PROVE to[i] \in 0 .. Len(text)
    OBVIOUS
  <2>1. cursors[i].active \in 0 .. Len(text) /\ i \in DOMAIN cursors
    BY ActiveIs, CursorsAre
  <2>2. WordEndRight(text, cursors[i].active) \in 0 .. Len(text)
    BY <2>1, CursorsAre, WordEndRightIs
  <2> QED
    BY <2>1, <2>2
<1> HIDE DEF plans, to
<1> QED
  BY <1>1, <1>2, <1>3, DeleteKeeps

\* delete_selection_or_line, of selections.
LEMMA CutSelectionsKeeps ==
  ASSUME IInv, CutSelections
  PROVE  StepGood
<1> DEFINE P(c) == IF IsCaret(c) THEN <<>> ELSE <<Over(c, <<>>)>>
           plans == [i \in DOMAIN cursors |-> P(cursors[i])]
<1>1. /\ Commit(TrimmedEdit(FlattenSeq(plans)).changes, Carets(TrimmedEdit(FlattenSeq(plans))))
      /\ typed' = {}
  BY DEF CutSelections, EditAtCursors, Planned, TrimmedEdit
<1>2. DOMAIN cursors = 1 .. Len(cursors)
  BY CursorsAre
<1>3. plans = [i \in 1 .. Len(cursors) |-> P(cursors[i])]
  BY <1>2
<1>4. ASSUME NEW i \in 1 .. Len(cursors) PROVE P(cursors[i]) \in Plans
  <2> DEFINE none == <<>>
             c == cursors[i]
  <2>1. none \in Seq(Characters) /\ none \in Plans
    BY NothingIsText
  <2>2. c \in CursorsIn(0, Len(text))
    BY ActiveIs
  <2> HIDE DEF none
  <2>3. <<Over(c, none)>> \in Plans
    BY <2>1, <2>2, OverIs
  <2> QED
    BY <2>1, <2>3 DEF none
<1> HIDE DEF plans, P
<1>5. plans = [i \in 1 .. Len(cursors) |-> plans[i]] /\ \A i \in 1 .. Len(cursors) : plans[i] \in Plans
  BY <1>3, <1>4
<1> QED
  BY <1>1, <1>5, EditAtKeeps

\* A closing bracket is stepped over.
LEMMA StepOverKeeps ==
  ASSUME IInv, NEW ins, StepOver(ins)
  PROVE  StepGood
<1> DEFINE g == [i \in DOMAIN cursors |-> Caret(RightOf(cursors[i].active))]
           h == [i \in DOMAIN Selected.cursors |-> Caret(RightOf(Selected.cursors[i].active))]
<1>1. Show(Normalized(h, Selected.primary))
  BY DEF StepOver, Mapped
<1>2. /\ Selected.cursors = cursors /\ Selected.primary = primary /\ primary \in 1 .. Len(cursors)
      /\ DOMAIN cursors = 1 .. Len(cursors) /\ Len(cursors) \in Nat /\ Len(text) \in Nat
  BY CursorsAre
<1>3. h = g
  BY <1>2
<1>4. \A i \in 1 .. Len(cursors) : g[i] \in CursorsIn(0, Len(text))
  <2> SUFFICES ASSUME NEW i \in 1 .. Len(cursors) PROVE g[i] \in CursorsIn(0, Len(text))
    OBVIOUS
  <2>1. cursors[i].active \in 0 .. Len(text)
    BY ActiveIs
  <2>2. RightOf(cursors[i].active) \in 0 .. Len(text)
    BY <2>1, LeftAndRight
  <2>3. Caret(RightOf(cursors[i].active)) \in CursorsIn(0, Len(text))
    BY <1>2, <2>2, CursorIs
  <2> QED
    BY <1>2, <2>3
<1>5. DOMAIN g = 1 .. Len(cursors) /\ g = [i \in 1 .. Len(cursors) |-> g[i]]
  BY <1>2
<1> HIDE DEF h, g
<1>6. Kept(Normalized(g, Selected.primary), 0, Len(text))
  BY <1>2, <1>4, <1>5, MappedKeeps
<1>7. inverse' = <<>> /\ UNCHANGED <<text, typed, journal, server, edits>>
  BY DEF StepOver
<1> QED
  BY <1>1, <1>3, <1>6, <1>7, ShowKeeps

\* Plans of changes that put in at least so much.
PlansOf(lo) == {<<>>} \cup {<<c>> : c \in {c \in ChangesIn(text) : Len(c.ins) >= lo}}

\* The text such an edit leaves, and its carets.
LEMMA EditAtCarets ==
  ASSUME IInv, NEW lo \in Nat, NEW plans, plans = [i \in 1 .. Len(cursors) |-> plans[i]],
         \A i \in 1 .. Len(cursors) : plans[i] \in PlansOf(lo),
         NEW after, Commit(TrimmedEdit(FlattenSeq(plans)).changes, after)
  PROVE  LET edit == TrimmedEdit(FlattenSeq(plans))
             u == Applied(text, edit.changes)
         IN  /\ edit.changes \in Seq(ChangesIn(text)) /\ Mounts(edit.changes)
             /\ u \in Seq(Characters)
             /\ Kept(Carets(edit), lo, Len(u))
<1> DEFINE planned == FlattenSeq(plans)
           edit == TrimmedEdit(planned)
<1>1. \A i \in 1 .. Len(cursors) : plans[i] \in Plans
  BY DEF Plans, PlansOf
<1>2. planned \in Seq(ChangesIn(text)) /\ \E h : Keeps(h, planned, plans, Len(cursors))
  BY <1>1, PlansAre
<1> HIDE DEF planned
<1>3. /\ edit.changes \in Seq(ChangesIn(text)) /\ Mounts(edit.changes)
      /\ planned = <<>> => edit.changes = <<>>
  BY <1>2, TrimmedEditIs
<1>4. edit.changes # <<>> /\ ~Overlapping(edit.changes)
  BY DEF Commit, planned
<1>5. planned # <<>>
  BY <1>3, <1>4
<1>6. text \in Seq(Characters)
  BY CursorsAre
<1>7. \A b \in 1 .. Len(planned) : Len(planned[b].ins) >= lo
  <2> SUFFICES ASSUME NEW b \in 1 .. Len(planned) PROVE Len(planned[b].ins) >= lo
    OBVIOUS
  <2>1. PICK h : Keeps(h, planned, plans, Len(cursors))
    BY <1>2
  <2>2. h[b] \in 1 .. Len(cursors) /\ plans[h[b]] = <<planned[b]>>
    BY <2>1 DEF Keeps
  <2>3. plans[h[b]] \in PlansOf(lo)
    BY <2>2
  <2> DEFINE d == planned[b]
  <2>a. plans[h[b]] # <<>>
    <3>1. <<d>> # <<>>
      OBVIOUS
    <3> QED
      BY <2>2, <3>1
  <2>4. PICK c \in ChangesIn(text) : Len(c.ins) >= lo /\ plans[h[b]] = <<c>>
    BY <2>3, <2>a DEF PlansOf
  <2> HIDE DEF d
  <2>5. c = d
    <3>1. <<c>> = <<d>>
      BY <2>2, <2>4 DEF d
    <3> QED
      BY <3>1
  <2> QED
    BY <2>4, <2>5 DEF d
<1> HIDE DEF edit
<1>8. edit.changes \in Seq(ChangesOf(Characters)) /\ AllIn(text, edit.changes)
  BY <1>3, <1>6, SeqIn
<1>9. Fits(edit.changes, Len(text))
  BY <1>3, <1>4, <1>6, <1>8, FitsIf
<1>10. Applied(text, edit.changes) \in Seq(Characters)
  BY <1>6, <1>8, <1>9, AppliedIs
<1>11. Kept(Carets(edit), lo, Len(Applied(text, edit.changes)))
  <2>1. Fits(TrimmedEdit(planned).changes, Len(text))
    BY <1>9 DEF edit
  <2> QED
    BY <1>2, <1>5, <1>7, <2>1, CaretsKept DEF edit
<1> QED
  BY <1>3, <1>10, <1>11 DEF edit, planned

\* What a cursor set keeps when each cursor moves.
LEMMA KeptAre ==
  ASSUME NEW set, NEW lo \in Nat, NEW hi \in Nat, Kept(set, lo, hi)
  PROVE  /\ Len(set.cursors) \in Nat /\ DOMAIN set.cursors = 1 .. Len(set.cursors)
         /\ set.primary \in 1 .. Len(set.cursors)
         /\ \A i \in 1 .. Len(set.cursors) :
              /\ set.cursors[i] \in CursorsIn(lo, hi)
              /\ set.cursors[i].active \in lo .. hi
<1> DEFINE s == set.cursors
<1>1. s \in Seq(CursorsIn(lo, hi)) /\ set.primary \in DOMAIN s
  BY DEF Kept
<1> HIDE DEF s
<1>2. Len(s) \in Nat /\ DOMAIN s = 1 .. Len(s)
  BY <1>1
<1>3. \A i \in 1 .. Len(s) : s[i] \in CursorsIn(lo, hi)
  BY <1>1, <1>2
<1>4. \A i \in 1 .. Len(s) : s[i].active \in lo .. hi
  BY <1>3 DEF CursorsIn
<1> QED
  BY <1>1, <1>2, <1>3, <1>4 DEF s

\* What begins and ends with the same plans at every caret.
LEMMA OverPlans ==
  ASSUME IInv, NEW lo \in Nat, NEW put,
         \A i \in 1 .. Len(cursors) : put[i] \in Seq(Characters) /\ Len(put[i]) >= lo,
         NEW plans, plans = [i \in DOMAIN cursors |-> <<Over(cursors[i], put[i])>>]
  PROVE  /\ plans = [i \in 1 .. Len(cursors) |-> plans[i]]
         /\ \A i \in 1 .. Len(cursors) : plans[i] \in PlansOf(lo)
<1>1. DOMAIN cursors = 1 .. Len(cursors)
  BY CursorsAre
<1>2. \A i \in 1 .. Len(cursors) : <<Over(cursors[i], put[i])>> \in PlansOf(lo)
  <2> SUFFICES ASSUME NEW i \in 1 .. Len(cursors) PROVE <<Over(cursors[i], put[i])>> \in PlansOf(lo)
    OBVIOUS
  <2>1. cursors[i] \in CursorsIn(0, Len(text)) /\ put[i] \in Seq(Characters)
    BY ActiveIs
  <2>2. Over(cursors[i], put[i]) \in ChangesIn(text) /\ Over(cursors[i], put[i]).ins = put[i]
    BY <2>1, OverIs
  <2> QED
    BY <2>2 DEF PlansOf
<1> QED
  BY <1>1, <1>2

\* The pairs of brackets are of characters.
LEMMA PairsAre ==
  ASSUME NEW p \in Pairs
  PROVE  p \in Seq(Characters) /\ Len(p) = 2 /\ p[1] \in Characters /\ p[2] \in Characters
<1>1. \A a, b \in Characters : LET s == <<a, b>>
                                IN  s \in Seq(Characters) /\ Len(s) = 2 /\ s[1] = a /\ s[2] = b
  OBVIOUS
<1>2. p = <<"(", ")">>
  BY DEF Pairs
<1> QED
  BY <1>1, <1>2, CharactersAre

\* A bracket that closes itself, and the caret between the two.
LEMMA AutoCloseKeeps ==
  ASSUME IInv, NEW ins, AutoClose(ins)
  PROVE  StepGood
<1>1. PICK p \in Pairs :
        /\ LET edit == Planned(LAMBDA c : <<Over(c, p)>>)
           IN  Commit(edit.changes, Mapped(Carets(edit), LAMBDA c : Caret(c.active - 1)))
        /\ typed' = {}
  BY DEF AutoClose
<1> DEFINE put == [i \in DOMAIN cursors |-> p]
           plans == [i \in DOMAIN cursors |-> <<Over(cursors[i], p)>>]
           edit == TrimmedEdit(FlattenSeq(plans))
           carets == Carets(edit)
           u == Applied(text, edit.changes)
           g == [i \in DOMAIN carets.cursors |-> Caret(carets.cursors[i].active - 1)]
           after == Normalized(g, carets.primary)
<1>2. Commit(edit.changes, after) /\ typed' = {}
  BY <1>1 DEF Planned, TrimmedEdit, Mapped
<1>3. plans = [i \in DOMAIN cursors |-> <<Over(cursors[i], put[i])>>]
  OBVIOUS
<1>4. \A i \in 1 .. Len(cursors) : put[i] \in Seq(Characters) /\ Len(put[i]) >= 1
  <2>1. p \in Seq(Characters) /\ Len(p) = 2 /\ DOMAIN cursors = 1 .. Len(cursors)
    BY PairsAre, CursorsAre
  <2> SUFFICES ASSUME NEW i \in 1 .. Len(cursors)
               PROVE  put[i] \in Seq(Characters) /\ Len(put[i]) >= 1
    OBVIOUS
  <2>2. put[i] = p
    BY <2>1
  <2> HIDE DEF put
  <2> QED
    BY <2>1, <2>2
<1> HIDE DEF put, plans
<1>5. 1 \in Nat
  OBVIOUS
<1>6. /\ plans = [i \in 1 .. Len(cursors) |-> plans[i]]
      /\ \A i \in 1 .. Len(cursors) : plans[i] \in PlansOf(1)
  BY <1>3, <1>4, <1>5, OverPlans
<1> HIDE DEF after
<1>7. /\ edit.changes \in Seq(ChangesIn(text)) /\ Mounts(edit.changes)
      /\ u \in Seq(Characters) /\ Kept(carets, 1, Len(u))
  BY <1>2, <1>5, <1>6, EditAtCarets
<1> HIDE DEF edit
<1>8. Len(u) \in Nat
  BY <1>7
<1> HIDE DEF u, carets
<1>9. Kept(after, 0, Len(u))
  <2> DEFINE n == Len(carets.cursors)
             hi == Len(u)
  <2>1. /\ n \in Nat /\ DOMAIN carets.cursors = 1 .. n /\ carets.primary \in 1 .. n
        /\ \A i \in 1 .. n : carets.cursors[i].active \in 1 .. hi
    BY <1>5, <1>7, <1>8, KeptAre
  <2>2. hi \in Nat /\ 0 \in Nat
    BY <1>8
  <2> HIDE DEF n, hi
  <2>3. \A i \in 1 .. n : Caret(carets.cursors[i].active - 1) \in CursorsIn(0, hi)
    <3> SUFFICES ASSUME NEW i \in 1 .. n PROVE Caret(carets.cursors[i].active - 1) \in CursorsIn(0, hi)
      OBVIOUS
    <3>1. carets.cursors[i].active - 1 \in 0 .. hi
      BY <2>1, <2>2
    <3> QED
      BY <2>2, <3>1, CursorIs
  <2>4. DOMAIN g = 1 .. n /\ g = [i \in 1 .. n |-> g[i]] /\ \A i \in 1 .. n : g[i] \in CursorsIn(0, hi)
    BY <2>1, <2>3
  <2> HIDE DEF g
  <2>5. Kept(Normalized(g, carets.primary), 0, hi)
    BY <2>1, <2>2, <2>4, MappedKeeps
  <2> QED
    BY <2>5 DEF after, hi
<1>10. TypedLines'
  <2>1. IsFiniteSet({})
    BY FS_EmptySet
  <2> QED
    BY <1>2, <2>1 DEF TypedLines
<1> QED
  BY <1>2, <1>7, <1>9, <1>10, CommitKeeps DEF u

\* The blanks a line begins with.
LEMMA BaseIs ==
  ASSUME IInv, NEW at \in 0 .. Len(text)
  PROVE  Base(at) \in Seq(Characters)
<1> DEFINE column == Column(text, at)
           line == LineOf(text, at)
           indentation == Indentation(text, line)
<1>1. Lined(text) /\ Len(text) \in Nat
  BY CursorsAre
<1>2. column \in 0 .. at /\ line \in 0 .. LineCount(text) - 1
  BY <1>1, ColumnIs
<1>3. indentation \in Nat
  BY <1>1, <1>2, IndentedIs
<1>4. column \in Nat
  BY <1>1, <1>2
<1> HIDE DEF column, indentation
<1>5. Smaller(column, indentation) \in Nat
  BY <1>3, <1>4 DEF Smaller
<1>6. Blanks(Smaller(column, indentation)) \in Seq(Characters)
  BY <1>5, BlanksAre
<1> QED
  BY <1>6 DEF Base, column, indentation, line

\* Two texts joined are a text.
LEMMA JoinedIs ==
  ASSUME NEW C, NEW a \in Seq(C), NEW b \in Seq(C)
  PROVE  a \o b \in Seq(C) /\ Len(a \o b) = Len(a) + Len(b)
OBVIOUS

\* A new line with its indentation, also between two brackets.
LEMMA InsertNewlineKeeps ==
  ASSUME IInv, NEW ins, InsertNewline(ins)
  PROVE  StepGood
<1> DEFINE Inner(at) == Base(at) \o (IF AfterOpener THEN Blanks(TabSize) ELSE <<>>)
           Opened(at) == <<Newline>> \o Inner(at)
                           \o (IF BetweenPair THEN <<Newline>> \o Base(at) ELSE <<>>)
           plans == [i \in DOMAIN cursors |-> <<Over(cursors[i], Opened(cursors[i].active))>>]
           put == [i \in DOMAIN cursors |-> Opened(cursors[i].active)]
           edit == TrimmedEdit(FlattenSeq(plans))
           carets == Carets(edit)
           u == Applied(text, edit.changes)
           Above(c) == Caret(EndOf(u, Larger(LineOf(u, c.active) - 1, 0)))
           g == [i \in DOMAIN carets.cursors |-> Above(carets.cursors[i])]
           after == IF BetweenPair THEN Normalized(g, carets.primary) ELSE carets
           Left(i) == [line |-> LineOf(u, carets.cursors[i].active),
                       columns |-> Column(u, carets.cursors[i].active)]
           left == [i \in DOMAIN carets.cursors |-> Left(i)]
<1>1. /\ Commit(edit.changes, after)
      /\ typed' = {w \in {Left(i) : i \in DOMAIN carets.cursors} : w.columns > 0}
  BY DEF InsertNewline, Planned, TrimmedEdit, Mapped
<1>2. plans = [i \in DOMAIN cursors |-> <<Over(cursors[i], put[i])>>]
  OBVIOUS
<1>3. ASSUME NEW at \in 0 .. Len(text) PROVE Opened(at) \in Seq(Characters)
  <2> DEFINE none == <<>>
             break == <<Newline>>
             x == IF AfterOpener THEN Blanks(TabSize) ELSE none
             y == IF BetweenPair THEN break \o Base(at) ELSE none
  <2>1. Base(at) \in Seq(Characters) /\ none \in Seq(Characters) /\ break \in Seq(Characters)
    BY BaseIs, CharactersAre
  <2>2. Blanks(TabSize) \in Seq(Characters)
    BY BlanksAre, EditsAssumption
  <2> HIDE DEF none, break
  <2>3. x \in Seq(Characters)
    BY <2>1, <2>2
  <2>4. y \in Seq(Characters)
    BY <2>1, JoinedIs
  <2> HIDE DEF x, y
  <2>5. break \o (Base(at) \o x) \o y \in Seq(Characters)
    <3>1. Base(at) \o x \in Seq(Characters)
      BY <2>1, <2>3, JoinedIs
    <3>2. break \o (Base(at) \o x) \in Seq(Characters)
      BY <2>1, <3>1, JoinedIs
    <3> QED
      BY <2>4, <3>2, JoinedIs
  <2> QED
    BY <2>5 DEF none, break, x, y
<1> HIDE DEF Opened
<1>4. 0 \in Nat
  OBVIOUS
<1>5. \A i \in 1 .. Len(cursors) : put[i] \in Seq(Characters) /\ Len(put[i]) >= 0
  <2> SUFFICES ASSUME NEW i \in 1 .. Len(cursors) PROVE put[i] \in Seq(Characters) /\ Len(put[i]) >= 0
    OBVIOUS
  <2>1. cursors[i].active \in 0 .. Len(text) /\ i \in DOMAIN cursors
    BY ActiveIs, CursorsAre
  <2>2. put[i] \in Seq(Characters)
    BY <1>3, <2>1
  <2>3. Len(put[i]) \in Nat
    BY <2>2
  <2> QED
    BY <2>2, <2>3
<1> HIDE DEF put, plans
<1>6. /\ plans = [i \in 1 .. Len(cursors) |-> plans[i]]
      /\ \A i \in 1 .. Len(cursors) : plans[i] \in PlansOf(0)
  BY <1>2, <1>4, <1>5, OverPlans
<1> HIDE DEF after, Left
<1>7. /\ edit.changes \in Seq(ChangesIn(text)) /\ Mounts(edit.changes)
      /\ u \in Seq(Characters) /\ Kept(carets, 0, Len(u))
  BY <1>1, <1>4, <1>6, EditAtCarets
<1> HIDE DEF edit
<1>8. Len(u) \in Nat /\ Lined(u)
  BY <1>7, LinesAre
<1> HIDE DEF u, carets
<1> DEFINE n == Len(carets.cursors)
           hi == Len(u)
<1>9. /\ n \in Nat /\ DOMAIN carets.cursors = 1 .. n /\ carets.primary \in 1 .. n
      /\ \A i \in 1 .. n : carets.cursors[i].active \in 0 .. hi
  BY <1>4, <1>7, <1>8, KeptAre
<1>10. hi \in Nat /\ Lined(u) /\ hi = Len(u)
  BY <1>8
<1> HIDE DEF n, hi
<1>11. Kept(after, 0, hi)
  <2>1. \A i \in 1 .. n : Above(carets.cursors[i]) \in CursorsIn(0, hi)
    <3> SUFFICES ASSUME NEW i \in 1 .. n PROVE Above(carets.cursors[i]) \in CursorsIn(0, hi)
      OBVIOUS
    <3> DEFINE l == LineOf(u, carets.cursors[i].active)
               m == LineCount(u)
               k == Larger(l - 1, 0)
    <3>1. m \in Nat /\ l \in 0 .. m - 1
      BY <1>9, <1>10 DEF Lined
    <3> HIDE DEF l
    <3>2. k \in 0 .. m - 1
      BY <3>1 DEF Larger
    <3> HIDE DEF k
    <3>3. EndOf(u, k) \in 0 .. hi
      BY <1>10, <3>2 DEF Lined
    <3>4. Caret(EndOf(u, k)) \in CursorsIn(0, hi)
      BY <1>4, <1>10, <3>3, CursorIs
    <3> QED
      BY <3>4 DEF k, l
  <2> HIDE DEF Above
  <2>2. DOMAIN g = 1 .. n /\ g = [i \in 1 .. n |-> g[i]] /\ \A i \in 1 .. n : g[i] \in CursorsIn(0, hi)
    BY <1>9, <2>1
  <2> HIDE DEF g
  <2>3. Kept(Normalized(g, carets.primary), 0, hi)
    BY <1>4, <1>9, <1>10, <2>2, MappedKeeps
  <2>4. Kept(carets, 0, hi)
    BY <1>7, <1>10
  <2> QED
    BY <2>3, <2>4 DEF after
<1>12. TypedLines'
  <2>1. DOMAIN left = 1 .. n /\ left = [x \in DOMAIN left |-> left[x]]
        /\ \A i \in 1 .. n : left[i] = Left(i)
    BY <1>9
  <2>2. \A i \in 1 .. n : Left(i) \in [line : Nat, columns : Nat]
    <3> SUFFICES ASSUME NEW i \in 1 .. n PROVE Left(i) \in [line : Nat, columns : Nat]
      OBVIOUS
    <3> DEFINE at == carets.cursors[i].active
    <3>1. at \in 0 .. hi
      BY <1>9
    <3> HIDE DEF at
    <3>2. LineOf(u, at) \in 0 .. LineCount(u) - 1 /\ Column(u, at) \in 0 .. at
      BY <1>10, <3>1, ColumnIs
    <3>3. LineOf(u, at) \in Nat /\ Column(u, at) \in Nat
      BY <1>10, <3>1, <3>2 DEF Lined
    <3> QED
      BY <3>3 DEF Left, at
  <2> HIDE DEF left
  <2>3. IsFiniteSet(DOMAIN left)
    <3>1. 1 \in Int /\ n \in Int
      BY <1>9
    <3>2. IsFiniteSet(1 .. n)
      BY <3>1, FS_Interval
    <3> QED
      BY <2>1, <3>2
  <2>4. IsFiniteSet({left[x] : x \in DOMAIN left})
    BY <2>1, <2>3, ImageFinite
  <2>5. typed' \in SUBSET {left[x] : x \in DOMAIN left}
    BY <1>1, <1>9, <2>1
  <2>6. IsFiniteSet(typed')
    BY <2>4, <2>5, FS_Subset
  <2>7. \A w \in typed' : w \in [line : Nat, columns : Nat \ {0}]
    <3> SUFFICES ASSUME NEW w \in typed' PROVE w \in [line : Nat, columns : Nat \ {0}]
      OBVIOUS
    <3>1. w.columns > 0 /\ \E i \in 1 .. n : w = Left(i)
      BY <1>1, <1>9
    <3>2. w \in [line : Nat, columns : Nat]
      BY <2>2, <3>1
    <3> QED
      BY <3>1, <3>2
  <2> QED
    BY <2>6, <2>7 DEF TypedLines
<1> QED
  BY <1>1, <1>7, <1>10, <1>11, <1>12, CommitKeeps DEF u

\* A key that types.
LEMMA TypeKeeps ==
  ASSUME IInv, NEW ins \in Insertions, Type(ins)
  PROVE  StepGood
<1>1. ins \in Seq(Characters)
  BY EditsAssumption
<1>2. CASE StepOver(ins)
  BY <1>2, StepOverKeeps
<1>3. CASE AutoClose(ins)
  BY <1>3, AutoCloseKeeps
<1>4. CASE InsertNewline(ins)
  BY <1>4, InsertNewlineKeeps
<1>5. CASE InsertText(ins)
  BY <1>1, <1>5, InsertTextKeeps
<1> QED
  BY <1>2, <1>3, <1>4, <1>5 DEF Type

(***************************************************************************)
(* Whole lines                                                             *)
(***************************************************************************)

\* The text that an edit leaves is a text.
LEMMA LeftIsText ==
  ASSUME IInv, NEW changes \in Seq(ChangesIn(text)), Fits(changes, Len(text))
  PROVE  Applied(text, changes) \in Seq(Characters) /\ Len(Applied(text, changes)) \in Nat
         /\ Lined(Applied(text, changes))
<1>1. text \in Seq(Characters)
  BY CursorsAre
<1>2. changes \in Seq(ChangesOf(Characters))
  BY <1>1, SeqIn
<1> DEFINE u == Applied(text, changes)
<1>3. u \in Seq(Characters)
  BY <1>1, <1>2, AppliedIs
<1> HIDE DEF u
<1>4. Len(u) \in Nat /\ Lined(u)
  BY <1>3, LinesAre
<1> QED
  BY <1>3, <1>4 DEF u

\* One change alone.
LEMMA OneIs ==
  ASSUME IInv, NEW c \in ChangesIn(text)
  PROVE  <<c>> \in Seq(ChangesIn(text)) /\ Mounts(<<c>>)
<1> DEFINE s == <<c>>
           D == ChangesIn(text)
<1>1. c \in D
  OBVIOUS
<1> HIDE DEF D
<1>2. s \in Seq(D) /\ Len(s) = 1
  BY <1>1
<1> HIDE DEF s
<1>3. Mounts(s)
  BY <1>2 DEF Mounts
<1> QED
  BY <1>2, <1>3 DEF s, D

\* An edit after which the cursors stay at their lines and columns.
LEMMA ShiftKeeps ==
  ASSUME IInv, NEW changes \in Seq(ChangesIn(text)), Mounts(changes), NEW lines \in Int,
         Commit(changes, Mapped(Selected,
                  LAMBDA c : Shifted(text, Applied(text, changes), c, lines))),
         UNCHANGED typed
  PROVE  StepGood
<1> DEFINE u == Applied(text, changes)
           after == Mapped(Selected, LAMBDA c : Shifted(text, u, c, lines))
<1>1. Commit(changes, after)
  OBVIOUS
<1>2. ASSUME Fits(changes, Len(text)) PROVE Kept(after, 0, Len(u))
  <2>1. u \in Seq(Characters)
    BY <1>2, LeftIsText
  <2> HIDE DEF u
  <2> QED
    BY <2>1, AllShifted
<1>3. TypedLines'
  BY DEF IInv, TypedLines
<1> HIDE DEF after
<1> QED
  BY <1>1, <1>2, <1>3, CommitKeeps

\* A command on lines that puts the cursors elsewhere (edit_lines).
LEMMA EditLinesKeeps ==
  ASSUME IInv, NEW changes \in Seq(ChangesIn(text)), Mounts(changes), EditLines(changes)
  PROVE  StepGood
<1>1. /\ Commit(changes, Mapped(Selected,
                  LAMBDA c : Shifted(text, Applied(text, changes), c, 0)))
      /\ UNCHANGED typed
  BY DEF EditLines
<1>2. 0 \in Int
  OBVIOUS
<1> QED
  BY <1>1, <1>2, ShiftKeeps

\* The selected lines are lines of the text.
LEMMA SelectedLinesAre ==
  ASSUME IInv
  PROVE  /\ SelectedLines(text, cursors) \in SUBSET (0 .. LineCount(text) - 1)
         /\ SelectedLines(text, cursors) # {}
<1> DEFINE m == LineCount(text)
           k == Len(cursors)
<1>1. /\ Lined(text) /\ Len(text) \in Nat /\ m \in Nat
      /\ DOMAIN cursors = 1 .. k /\ primary \in 1 .. k
  BY CursorsAre DEF Lined
<1>2. ASSUME NEW i \in 1 .. k
      PROVE  TouchedBy(text, cursors[i]) \subseteq 0 .. m - 1 /\ TouchedBy(text, cursors[i]) # {}
  <2> DEFINE a == RangeOf(cursors[i]).start
             b == RangeOf(cursors[i]).end
             first == LineOf(text, a)
             last == LineOf(text, b)
             end == IF Column(text, b) = 0 /\ last > first THEN last - 1 ELSE last
  <2>1. a \in 0 .. Len(text) /\ b \in 0 .. Len(text) /\ a <= b
    BY ActiveIs
  <2>2. first \in 0 .. m - 1 /\ last \in 0 .. m - 1
    BY <1>1, <2>1 DEF Lined
  <2>3. first <= last
    <3>1. a \in Nat /\ b \in Nat
      BY <1>1, <2>1
    <3> QED
      BY <2>1, <3>1, LineOfMounts
  <2>4. TouchedBy(text, cursors[i]) = first .. end
    BY DEF TouchedBy
  <2> HIDE DEF first, last, m
  <2>5. first .. end \subseteq 0 .. m - 1 /\ first \in first .. end
    BY <1>1, <2>2, <2>3
  <2> QED
    BY <2>4, <2>5 DEF m
<1> HIDE DEF m, k
<1>3. SelectedLines(text, cursors) = UNION {TouchedBy(text, cursors[i]) : i \in 1 .. k}
  BY <1>1 DEF SelectedLines
<1> QED
  BY <1>1, <1>2, <1>3, ZenonT(40) DEF m

\* The places of the lines, one behind the other.
LEMMA PlacesMount ==
  ASSUME NEW t, Lined(t), NEW l \in 0 .. LineCount(t) - 1, NEW m \in 0 .. LineCount(t) - 1
  PROVE  /\ StartOf(t, l) \in 0 .. Len(t) /\ EndOf(t, l) \in 0 .. Len(t)
         /\ StartOf(t, l) <= EndOf(t, l)
         /\ l < m => EndOf(t, l) < StartOf(t, m)
         /\ l <= m => StartOf(t, l) <= StartOf(t, m) /\ StartOf(t, l) <= EndOf(t, m)
         /\ l <= m => Indented(t, l) <= Indented(t, m)
<1> DEFINE n == Len(t)
<1>1. LineCount(t) \in Nat /\ n \in Nat
  BY DEF Lined
<1>2. /\ StartOf(t, l) \in 0 .. n /\ EndOf(t, l) \in 0 .. n /\ StartOf(t, l) <= EndOf(t, l)
      /\ StartOf(t, m) \in 0 .. n /\ EndOf(t, m) \in 0 .. n /\ StartOf(t, m) <= EndOf(t, m)
      /\ LineOf(t, EndOf(t, l)) = l
  BY DEF Lined
<1>3. StartOf(t, m) <= EndOf(t, l) <=> m <= LineOf(t, EndOf(t, l))
  BY <1>2 DEF Lined
<1>4. Indented(t, l) \in StartOf(t, l) .. EndOf(t, l) /\ Indented(t, m) \in StartOf(t, m) .. EndOf(t, m)
  BY IndentedIs
<1> HIDE DEF n
<1>5. CASE l = m
  BY <1>1, <1>2, <1>4, <1>5 DEF n
<1>6. CASE l # m
  BY <1>1, <1>2, <1>3, <1>4, <1>6 DEF n
<1> QED
  BY <1>5, <1>6

\* One change on each of some lines.
LEMMA LineByLine ==
  ASSUME IInv, NEW lines \in SUBSET (0 .. LineCount(text) - 1), NEW f,
         \A l \in lines : f[l] \in ChangesIn(text),
         \A l, m \in lines : l < m => f[l].start <= f[m].start,
         NEW changes, changes = [i \in DOMAIN InOrder(lines) |-> f[InOrder(lines)[i]]]
  PROVE  changes \in Seq(ChangesIn(text)) /\ Mounts(changes)
<1> DEFINE s == InOrder(lines)
           k == Cardinality(lines)
<1>1. LineCount(text) \in Nat
  BY CursorsAre DEF Lined
<1>2. /\ k \in Nat /\ s \in Seq(lines) /\ Len(s) = k
      /\ \A i, j \in 1 .. Len(s) : i < j => s[i] < s[j]
  BY <1>1, InOrderIs
<1>3. changes = [i \in DOMAIN s |-> f[s[i]]]
  OBVIOUS
<1> HIDE DEF s, k
<1>4. DOMAIN s = 1 .. k /\ \A i \in 1 .. k : s[i] \in lines
  BY <1>2
<1>5. changes \in [1 .. k -> ChangesIn(text)]
  BY <1>3, <1>4
<1>6. changes \in Seq(ChangesIn(text)) /\ Len(changes) = k
  BY <1>2, <1>5, SeqOfLength
<1>7. ASSUME NEW i \in 1 .. k, NEW j \in 1 .. k, i < j
      PROVE  changes[i].start <= changes[j].start
  <2>1. s[i] < s[j] /\ s[i] \in lines /\ s[j] \in lines
    BY <1>2, <1>4, <1>7
  <2>2. f[s[i]].start <= f[s[j]].start
    BY <2>1
  <2>3. changes[i] = f[s[i]] /\ changes[j] = f[s[j]]
    BY <1>3, <1>4
  <2> QED
    BY <2>2, <2>3
<1>8. Mounts(changes)
  BY <1>6, <1>7 DEF Mounts
<1> QED
  BY <1>6, <1>8

\* A line with the break before or after it is a range of the text.
LEMMA WithBreakIs ==
  ASSUME IInv, NEW l \in 0 .. LineCount(text) - 1
  PROVE  /\ WithBreak(l) \in ChangesIn(text)
         /\ l + 1 < LineCount(text) => WithBreak(l).start = StartOf(text, l)
         /\ ~(l + 1 < LineCount(text)) =>
              WithBreak(l).start = IF l > 0 THEN EndOf(text, l - 1) ELSE 0
<1> DEFINE n == Len(text)
           m == LineCount(text)
<1>1. Lined(text) /\ n \in Nat /\ n = Len(text) /\ m \in Nat
  BY CursorsAre DEF Lined
<1>2. CASE l + 1 < m
  <2> DEFINE a == StartOf(text, l)
             b == StartOf(text, l + 1)
  <2>1. l + 1 \in 0 .. m - 1
    BY <1>1, <1>2
  <2>2. a \in 0 .. n /\ b \in 0 .. n /\ a <= b
    <3>1. l <= l + 1
      BY <1>1
    <3> QED
      BY <1>1, <2>1, <3>1, PlacesMount
  <2>3. WithBreak(l) = Change(a, b, <<>>)
    BY <1>2 DEF WithBreak
  <2> HIDE DEF n, a, b
  <2>4. Change(a, b, <<>>) \in ChangesIn(text) /\ Change(a, b, <<>>).start = a
    BY <1>1, <2>2, TakenOut
  <2> QED
    BY <1>2, <2>3, <2>4 DEF a
<1>3. CASE ~(l + 1 < m)
  <2> DEFINE a == IF l > 0 THEN EndOf(text, l - 1) ELSE 0
  <2>1. a \in 0 .. n
    <3>1. CASE l > 0
      <4>1. l - 1 \in 0 .. m - 1
        BY <1>1, <3>1
      <4> QED
        BY <1>1, <3>1, <4>1 DEF Lined
    <3>2. CASE ~(l > 0)
      BY <1>1, <3>2
    <3> QED
      BY <3>1, <3>2
  <2>2. WithBreak(l) = Change(a, n, <<>>)
    BY <1>3 DEF WithBreak
  <2> HIDE DEF n, a
  <2>3. n \in 0 .. n /\ a <= n
    BY <1>1, <2>1
  <2>4. Change(a, n, <<>>) \in ChangesIn(text) /\ Change(a, n, <<>>).start = a
    BY <1>1, <2>1, <2>3, TakenOut
  <2> QED
    BY <1>3, <2>2, <2>4 DEF a
<1> QED
  BY <1>2, <1>3

\* delete_lines.
LEMMA DeleteLinesKeeps ==
  ASSUME IInv, DeleteLines
  PROVE  StepGood
<1> DEFINE lines == SelectedLines(text, cursors)
           m == LineCount(text)
           f == [l \in 0 .. m - 1 |-> WithBreak(l)]
           changes == [i \in DOMAIN InOrder(lines) |-> WithBreak(InOrder(lines)[i])]
           same == [i \in DOMAIN InOrder(lines) |-> f[InOrder(lines)[i]]]
<1>1. EditLines(changes)
  BY DEF DeleteLines
<1>2. lines \in SUBSET (0 .. m - 1)
  BY SelectedLinesAre
<1>3. m \in Nat /\ Lined(text) /\ Len(text) \in Nat
  BY CursorsAre DEF Lined
<1>4. changes = same
  <2>1. InOrder(lines) \in Seq(lines)
    BY <1>2, <1>3, InOrderIs
  <2> DEFINE s == InOrder(lines)
  <2> HIDE DEF lines, m
  <2>2. \A i \in DOMAIN s : s[i] \in 0 .. m - 1
    <3>1. s \in Seq(lines)
      BY <2>1
    <3> HIDE DEF s
    <3>2. \A i \in DOMAIN s : s[i] \in lines
      BY <3>1
    <3> QED
      BY <1>2, <3>2
  <2> QED
    BY <2>2
<1> HIDE DEF changes, lines
<1>5. \A l \in 0 .. m - 1 : f[l] = WithBreak(l)
  OBVIOUS
<1> HIDE DEF f
<1>6. \A l \in lines : f[l] \in ChangesIn(text)
  BY <1>2, <1>5, WithBreakIs
<1>7. ASSUME NEW l \in lines, NEW k \in lines, l < k PROVE f[l].start <= f[k].start
  <2>1. l \in 0 .. m - 1 /\ k \in 0 .. m - 1 /\ l + 1 < m /\ k > 0 /\ k - 1 \in 0 .. m - 1
    BY <1>2, <1>3, <1>7
  <2>2. f[l].start = StartOf(text, l)
    BY <1>5, <2>1, WithBreakIs
  <2>3. f[k].start = StartOf(text, k) \/ f[k].start = EndOf(text, k - 1)
    BY <1>5, <2>1, WithBreakIs
  <2>4. StartOf(text, l) <= StartOf(text, k)
    <3>1. l <= k
      BY <1>3, <1>7, <2>1
    <3> QED
      BY <1>3, <2>1, <3>1, PlacesMount
  <2>5. StartOf(text, l) <= EndOf(text, k - 1)
    <3>1. l <= k - 1
      BY <1>3, <1>7, <2>1
    <3> QED
      BY <1>3, <2>1, <3>1, PlacesMount
  <2> QED
    BY <2>2, <2>3, <2>4, <2>5
<1>8. same \in Seq(ChangesIn(text)) /\ Mounts(same)
  BY <1>2, <1>6, <1>7, LineByLine
<1> QED
  BY <1>1, <1>4, <1>8, EditLinesKeeps

\* delete_selection_or_line, of lines.
LEMMA CutLinesKeeps ==
  ASSUME IInv, CutLines
  PROVE  StepGood
BY DeleteLinesKeeps DEF CutLines

\* A caret alone after one change.
LEMMA AloneKeeps ==
  ASSUME IInv, NEW changes \in Seq(ChangesIn(text)), Mounts(changes), NEW c,
         Fits(changes, Len(text)) => c \in CursorsIn(0, Len(Applied(text, changes))),
         Commit(changes, [cursors |-> <<c>>, primary |-> 1]), UNCHANGED typed
  PROVE  StepGood
<1> DEFINE u == Applied(text, changes)
           after == [cursors |-> <<c>>, primary |-> 1]
<1>1. ASSUME Fits(changes, Len(text)) PROVE Kept(after, 0, Len(u))
  <2>1. Len(u) \in Nat /\ 0 \in Nat
    BY <1>1, LeftIsText
  <2>2. c \in CursorsIn(0, Len(u))
    BY <1>1
  <2> HIDE DEF u
  <2> QED
    BY <2>1, <2>2, KeptAlone
<1>2. TypedLines'
  BY DEF IInv, TypedLines
<1>3. Commit(changes, after)
  OBVIOUS
<1> HIDE DEF after
<1> QED
  BY <1>1, <1>2, <1>3, CommitKeeps

\* insert_line_after, insert_line_before.
LEMMA InsertLineKeeps ==
  ASSUME IInv, NEW below \in BOOLEAN, InsertLine(below)
  PROVE  StepGood
<1> DEFINE line == LineOf(text, cursors[primary].active)
           width == Indentation(text, line)
           indent == Blanks(width)
           n == Len(text)
           break == <<Newline>>
           change == IF below THEN Change(EndOf(text, line), EndOf(text, line), break \o indent)
                     ELSE Change(StartOf(text, line), StartOf(text, line), indent \o break)
           s == <<change>>
           u == Applied(text, s)
           to == IF below THEN line + 1 ELSE line
           caret == Caret(At(u, to, Len(indent)))
<1>1. Commit(s, [cursors |-> <<caret>>, primary |-> 1]) /\ UNCHANGED typed
  BY DEF InsertLine
<1>2. Lined(text) /\ n \in Nat /\ n = Len(text) /\ primary \in 1 .. Len(cursors)
      /\ LineCount(text) \in Nat
  BY CursorsAre DEF Lined
<1>3. line \in 0 .. LineCount(text) - 1
  BY <1>2, ActiveIs DEF Lined
<1> HIDE DEF line
<1>4. width \in Nat
  BY <1>2, <1>3, IndentedIs
<1> HIDE DEF width
<1>5. indent \in Seq(Characters) /\ Len(indent) = width /\ break \in Seq(Characters)
  BY <1>4, BlanksAre, CharactersAre
<1> HIDE DEF indent, break
<1>6. change \in ChangesIn(text)
  <2> DEFINE a == StartOf(text, line)
             b == EndOf(text, line)
             x == break \o indent
             y == indent \o break
  <2>1. a \in 0 .. n /\ b \in 0 .. n /\ a <= a /\ b <= b
    BY <1>2, <1>3, PlacesMount
  <2>2. x \in Seq(Characters) /\ y \in Seq(Characters)
    BY <1>5, JoinedIs
  <2> HIDE DEF a, b, x, y, n
  <2>3. Change(b, b, x) \in ChangesIn(text) /\ Change(a, a, y) \in ChangesIn(text)
    BY <1>2, <2>1, <2>2, ChangeIn
  <2> QED
    BY <2>3 DEF a, b, x, y
<1> HIDE DEF change
<1>7. s \in Seq(ChangesIn(text)) /\ Mounts(s)
  BY <1>6, OneIs
<1> HIDE DEF s
<1>8. ASSUME Fits(s, Len(text)) PROVE caret \in CursorsIn(0, Len(u))
  <2>1. Len(u) \in Nat /\ Lined(u) /\ 0 \in Nat
    BY <1>7, <1>8, LeftIsText
  <2>2. to \in Nat /\ Len(indent) \in Nat
    BY <1>2, <1>3, <1>4, <1>5
  <2> HIDE DEF u, to
  <2>3. At(u, to, Len(indent)) \in 0 .. Len(u)
    BY <2>1, <2>2, AtIs
  <2> QED
    BY <2>1, <2>3, CursorIs
<1> HIDE DEF caret
<1> QED
  BY <1>1, <1>7, <1>8, AloneKeeps DEF u

\* The first and the last selected line.
LEMMA FirstAndLast ==
  ASSUME IInv
  PROVE  /\ FirstLine(text, cursors) \in 0 .. LineCount(text) - 1
         /\ LastLine(text, cursors) \in 0 .. LineCount(text) - 1
         /\ FirstLine(text, cursors) <= LastLine(text, cursors)
<1> DEFINE S == SelectedLines(text, cursors)
           m == LineCount(text) - 1
<1>1. S \in SUBSET (0 .. m) /\ S # {}
  BY SelectedLinesAre
<1>2. LineCount(text) \in Nat /\ LineCount(text) > 0
  BY CursorsAre DEF Lined
<1>3. m \in Nat
  BY <1>2
<1>4. FirstLine(text, cursors) = Min(S) /\ LastLine(text, cursors) = Max(S)
  BY DEF FirstLine, LastLine
<1> HIDE DEF S, m
<1>5. S \subseteq Nat /\ S \subseteq 0 .. m
  BY <1>1, <1>3
<1>6. Min(S) \in S /\ \A y \in S : Min(S) <= y
  BY <1>1, <1>5, MinIs
<1>7. Max(S) \in S
  BY <1>1, <1>3, <1>5, MaxIs
<1> QED
  BY <1>4, <1>5, <1>6, <1>7 DEF m

\* Lines are a text.
LEMMA BlockIs ==
  ASSUME IInv, NEW l \in 0 .. LineCount(text) - 1, NEW m \in 0 .. LineCount(text) - 1
  PROVE  Block(text, l, m) \in Seq(Characters)
<1> DEFINE a == StartOf(text, l)
           b == EndOf(text, m)
<1>1. text \in Seq(Characters) /\ Len(text) \in Nat /\ Lined(text)
  BY CursorsAre
<1>2. a \in 0 .. Len(text) /\ b \in 0 .. Len(text)
  BY <1>1 DEF Lined
<1> HIDE DEF a, b
<1>3. a \in Nat /\ b \in Nat /\ b <= Len(text)
  BY <1>1, <1>2
<1>4. SubSeq(text, a + 1, b) \in Seq(Characters)
  BY <1>1, <1>3, PartOfText
<1> QED
  BY <1>4 DEF Block, a, b

\* A line is a text.
LEMMA LineTextIn ==
  ASSUME IInv, NEW l \in 0 .. LineCount(text) - 1
  PROVE  LineText(text, l) \in Seq(Characters)
<1>1. text \in Seq(Characters) /\ LineCount(text) \in Nat
  BY CursorsAre DEF Lined
<1>2. l \in Nat
  BY <1>1
<1> QED
  BY <1>1, <1>2, LineTextIs

\* move_lines.
LEMMA MoveLinesKeeps ==
  ASSUME IInv, NEW up \in BOOLEAN, MoveLines(up)
  PROVE  StepGood
<1> DEFINE first == FirstLine(text, cursors)
           last == LastLine(text, cursors)
           m == LineCount(text)
           n == Len(text)
           change == MovedLines(text, cursors, up)
           s == <<change>>
           lines == IF up THEN -1 ELSE 1
<1>1. /\ IF up THEN first > 0 ELSE last + 1 < m
      /\ Commit(s, Mapped(Selected, LAMBDA c : Shifted(text, Applied(text, s), c, lines)))
      /\ UNCHANGED typed
  BY DEF MoveLines
<1>2. Lined(text) /\ n \in Nat /\ n = Len(text) /\ m \in Nat
  BY CursorsAre DEF Lined
<1>3. first \in 0 .. m - 1 /\ last \in 0 .. m - 1 /\ first <= last
  BY FirstAndLast
<1> DEFINE break == <<Newline>>
           block == Block(text, first, last)
<1>4. block \in Seq(Characters) /\ break \in Seq(Characters)
  BY <1>3, BlockIs, CharactersAre
<1>5. change = IF up THEN Change(StartOf(text, first - 1), EndOf(text, last),
                                 block \o break \o LineText(text, first - 1))
               ELSE Change(StartOf(text, first), EndOf(text, last + 1),
                           LineText(text, last + 1) \o break \o block)
  BY DEF MovedLines
<1> HIDE DEF first, last, block, break, change
<1>6. CASE up
  <2> DEFINE a == StartOf(text, first - 1)
             b == EndOf(text, last)
             ins == block \o break \o LineText(text, first - 1)
  <2>1. first - 1 \in 0 .. m - 1 /\ first - 1 <= last
    BY <1>1, <1>2, <1>3, <1>6
  <2>2. a \in 0 .. n /\ b \in 0 .. n /\ a <= b
    BY <1>2, <1>3, <2>1, PlacesMount
  <2>3. ins \in Seq(Characters)
    <3>1. LineText(text, first - 1) \in Seq(Characters)
      BY <2>1, LineTextIn
    <3>2. block \o break \in Seq(Characters)
      BY <1>4, JoinedIs
    <3> QED
      BY <3>1, <3>2, JoinedIs
  <2>4. change = Change(a, b, ins)
    BY <1>5, <1>6
  <2> HIDE DEF n, a, b, ins
  <2>5. Change(a, b, ins) \in ChangesIn(text)
    BY <1>2, <2>2, <2>3, ChangeIn
  <2> QED
    <3>1. s \in Seq(ChangesIn(text)) /\ Mounts(s)
      BY <2>4, <2>5, OneIs
    <3>2. lines \in Int
      OBVIOUS
    <3> QED
      BY <1>1, <3>1, <3>2, ShiftKeeps
<1>7. CASE ~up
  <2> DEFINE a == StartOf(text, first)
             b == EndOf(text, last + 1)
             ins == LineText(text, last + 1) \o break \o block
  <2>1. last + 1 \in 0 .. m - 1 /\ first <= last + 1
    BY <1>1, <1>2, <1>3, <1>7
  <2>2. a \in 0 .. n /\ b \in 0 .. n /\ a <= b
    BY <1>2, <1>3, <2>1, PlacesMount
  <2>3. ins \in Seq(Characters)
    <3>1. LineText(text, last + 1) \in Seq(Characters)
      BY <2>1, LineTextIn
    <3>2. LineText(text, last + 1) \o break \in Seq(Characters)
      BY <1>4, <3>1, JoinedIs
    <3> QED
      BY <1>4, <3>2, JoinedIs
  <2>4. change = Change(a, b, ins)
    BY <1>5, <1>7
  <2> HIDE DEF n, a, b, ins
  <2>5. Change(a, b, ins) \in ChangesIn(text)
    BY <1>2, <2>2, <2>3, ChangeIn
  <2> QED
    <3>1. s \in Seq(ChangesIn(text)) /\ Mounts(s)
      BY <2>4, <2>5, OneIs
    <3>2. lines \in Int
      OBVIOUS
    <3> QED
      BY <1>1, <3>1, <3>2, ShiftKeeps
<1> QED
  BY <1>6, <1>7

\* copy_lines.
LEMMA CopyLinesKeeps ==
  ASSUME IInv, NEW up \in BOOLEAN, CopyLines(up)
  PROVE  StepGood
<1> DEFINE first == FirstLine(text, cursors)
           last == LastLine(text, cursors)
           m == LineCount(text)
           n == Len(text)
           break == <<Newline>>
           block == Block(text, first, last)
           change == Change(StartOf(text, first), StartOf(text, first), block \o break)
           s == <<change>>
           lines == IF up THEN 0 ELSE last - first + 1
<1>1. /\ Commit(s, Mapped(Selected, LAMBDA c : Shifted(text, Applied(text, s), c, lines)))
      /\ UNCHANGED typed
  BY DEF CopyLines
<1>2. Lined(text) /\ n \in Nat /\ n = Len(text) /\ m \in Nat
  BY CursorsAre DEF Lined
<1>3. first \in 0 .. m - 1 /\ last \in 0 .. m - 1
  BY FirstAndLast
<1>4. block \in Seq(Characters) /\ break \in Seq(Characters)
  BY <1>3, BlockIs, CharactersAre
<1> HIDE DEF first, last, block, break
<1>5. change \in ChangesIn(text)
  <2> DEFINE a == StartOf(text, first)
             ins == block \o break
  <2>1. a \in 0 .. n /\ a <= a
    BY <1>2, <1>3, PlacesMount
  <2>2. ins \in Seq(Characters)
    BY <1>4, JoinedIs
  <2> HIDE DEF n, a, ins
  <2>3. Change(a, a, ins) \in ChangesIn(text)
    BY <1>2, <2>1, <2>2, ChangeIn
  <2> QED
    BY <2>3 DEF a, ins
<1> HIDE DEF change
<1>6. s \in Seq(ChangesIn(text)) /\ Mounts(s)
  BY <1>5, OneIs
<1>7. lines \in Int
  BY <1>2, <1>3
<1> HIDE DEF lines, s
<1> QED
  BY <1>1, <1>6, <1>7, ShiftKeeps

\* indent_lines, outdent_lines.
LEMMA ChangeIndentKeeps ==
  ASSUME IInv, NEW add \in BOOLEAN, ChangeIndent(add)
  PROVE  StepGood
<1> DEFINE S == SelectedLines(text, cursors)
           s == InOrder(S)
           m == LineCount(text)
           n == Len(text)
           none == <<>>
           D == ChangesIn(text)
           Put(l) == IF LineText(text, l) = <<>> THEN <<>>
                     ELSE <<Change(StartOf(text, l), StartOf(text, l), Blanks(TabSize))>>
           Width(l) == Smaller(Indentation(text, l), TabSize)
           Take(l) == IF Width(l) = 0 THEN <<>>
                      ELSE <<Change(StartOf(text, l), StartOf(text, l) + Width(l), none)>>
           One(l) == IF add THEN Put(l) ELSE Take(l)
           seqs == [i \in DOMAIN s |-> One(s[i])]
           flat == FlattenSeq(seqs)
<1>1. EditLines(flat)
  BY DEF ChangeIndent, IndentChanges
<1>2. Lined(text) /\ n \in Nat /\ n = Len(text) /\ m \in Nat
  BY CursorsAre DEF Lined
<1>3. S \in SUBSET (0 .. m - 1)
  BY SelectedLinesAre
<1> DEFINE k == Cardinality(S)
<1> HIDE DEF S
<1>4. /\ k \in Nat /\ s \in Seq(S) /\ Len(s) = k
      /\ \A i, j \in 1 .. Len(s) : i < j => s[i] < s[j]
  BY <1>2, <1>3, InOrderIs
<1> HIDE DEF s, k
<1>5. DOMAIN s = 1 .. k /\ \A i \in 1 .. k : s[i] \in 0 .. m - 1
  <2>1. DOMAIN s = 1 .. k /\ \A i \in 1 .. k : s[i] \in S
    BY <1>4
  <2> QED
    BY <1>3, <2>1
<1>6. ASSUME NEW l \in 0 .. m - 1
      PROVE  One(l) = none \/ \E c \in D : One(l) = <<c>> /\ c.start = StartOf(text, l)
  <2> DEFINE a == StartOf(text, l)
             b == a + Width(l)
             ins == Blanks(TabSize)
  <2>1. a \in 0 .. n /\ a <= a
    BY <1>2, PlacesMount
  <2>2. b \in 0 .. n /\ a <= b
    <3>1. Indentation(text, l) \in Nat /\ a + Indentation(text, l) \in 0 .. n
      BY <1>2, IndentedIs
    <3>2. TabSize \in Nat
      BY EditsAssumption
    <3>3. Width(l) \in 0 .. Indentation(text, l)
      BY <3>1, <3>2 DEF Smaller
    <3> HIDE DEF a, Width
    <3> QED
      BY <1>2, <2>1, <3>1, <3>3
  <2>3. ins \in Seq(Characters)
    BY BlanksAre, EditsAssumption
  <2>4. Put(l) = none \/ Put(l) = <<Change(a, a, ins)>>
    OBVIOUS
  <2>5. Take(l) = none \/ Take(l) = <<Change(a, b, none)>>
    OBVIOUS
  <2> HIDE DEF n, a, b, ins, Put, Take
  <2>6. Change(a, a, ins) \in D /\ Change(a, a, ins).start = a
    BY <1>2, <2>1, <2>3, ChangeIn
  <2>7. Change(a, b, none) \in D /\ Change(a, b, none).start = a
    BY <1>2, <2>1, <2>2, TakenOut
  <2> HIDE DEF D, none
  <2> QED
    BY <2>4, <2>5, <2>6, <2>7 DEF a
<1> HIDE DEF D, One
<1>7. ASSUME NEW l \in 0 .. m - 1 PROVE One(l) \in Seq(D) /\ Len(One(l)) <= 1
  <2>1. none \in Seq(D) /\ Len(none) <= 1
    OBVIOUS
  <2>2. \A c \in D : <<c>> \in Seq(D) /\ Len(<<c>>) <= 1
    OBVIOUS
  <2> HIDE DEF none
  <2> QED
    BY <1>6, <2>1, <2>2
<1>8. /\ seqs \in [1 .. k -> Seq(D)]
      /\ \A i \in 1 .. k : seqs[i] = One(s[i]) /\ Len(seqs[i]) <= 1
  BY <1>5, <1>7
<1> HIDE DEF seqs
<1>9. seqs \in Seq(Seq(D)) /\ Len(seqs) = k
  BY <1>4, <1>8, SeqOfLength
<1>10. flat \in Seq(D) /\ \E h : Keeps(h, flat, seqs, k)
  BY <1>8, <1>9, FlattenKeeps
<1> HIDE DEF flat
<1>11. PICK h : Keeps(h, flat, seqs, k)
  BY <1>10
<1>12. ASSUME NEW a \in 1 .. Len(flat)
       PROVE  h[a] \in 1 .. k /\ flat[a].start = StartOf(text, s[h[a]])
  <2>1. h[a] \in 1 .. k /\ seqs[h[a]] = <<flat[a]>>
    BY <1>11 DEF Keeps
  <2> DEFINE d == flat[a]
  <2>2. seqs[h[a]] # none
    <3>1. <<d>> # <<>>
      OBVIOUS
    <3> QED
      BY <2>1, <3>1
  <2>3. One(s[h[a]]) = <<flat[a]>> /\ s[h[a]] \in 0 .. m - 1
    BY <1>5, <1>8, <2>1
  <2>4. PICK c \in D : One(s[h[a]]) = <<c>> /\ c.start = StartOf(text, s[h[a]])
    <3> HIDE DEF none
    <3> QED
      BY <1>6, <2>1, <2>2, <2>3
  <2>5. c = d
    <3>1. <<c>> = <<d>>
      BY <2>3, <2>4
    <3> HIDE DEF d
    <3> QED
      BY <3>1
  <2> QED
    BY <2>1, <2>4, <2>5
<1>13. Mounts(flat)
  <2> SUFFICES ASSUME NEW i \in 1 .. Len(flat), NEW j \in 1 .. Len(flat), i < j
               PROVE  flat[i].start <= flat[j].start
    BY DEF Mounts
  <2>1. h[i] < h[j] /\ h[i] \in 1 .. k /\ h[j] \in 1 .. k
    BY <1>11, <1>12 DEF Keeps
  <2>2. s[h[i]] < s[h[j]] /\ s[h[i]] \in 0 .. m - 1 /\ s[h[j]] \in 0 .. m - 1
    BY <1>4, <1>5, <2>1
  <2>3. s[h[i]] <= s[h[j]]
    BY <1>2, <2>2
  <2>4. StartOf(text, s[h[i]]) <= StartOf(text, s[h[j]])
    BY <1>2, <2>2, <2>3, PlacesMount
  <2> QED
    BY <1>12, <2>4
<1> QED
  BY <1>1, <1>10, <1>13, EditLinesKeeps DEF D

\* Tab: blanks, or indentation.
LEMMA TabKeeps ==
  ASSUME IInv, Tab
  PROVE  StepGood
<1>1. ChangeIndent(TRUE) \/ InsertText(Blanks(TabSize))
  BY DEF Tab
<1>2. Blanks(TabSize) \in Seq(Characters)
  BY BlanksAre, EditsAssumption
<1> QED
  BY <1>1, <1>2, ChangeIndentKeeps, InsertTextKeeps

\* toggle_line_comment.
LEMMA LineCommentKeeps ==
  ASSUME IInv, NEW mode, LineComment(mode)
  PROVE  StepGood
<1> DEFINE lines == CommentLines(text, cursors)
           marked == {l \in lines : HasToken(text, l)}
           m == LineCount(text)
           n == Len(text)
           ins == <<LineToken, Blank>>
           Put(l) == Change(Indented(text, l), Indented(text, l), ins)
           f == [l \in marked |-> TokenAt(text, l)]
           g == [l \in lines |-> Put(l)]
           takes == [i \in DOMAIN InOrder(marked) |-> TokenAt(text, InOrder(marked)[i])]
           puts == [i \in DOMAIN InOrder(lines) |-> Put(InOrder(lines)[i])]
           took == [i \in DOMAIN InOrder(marked) |-> f[InOrder(marked)[i]]]
           gave == [i \in DOMAIN InOrder(lines) |-> g[InOrder(lines)[i]]]
<1>1. EditLines(takes) \/ EditLines(puts)
  BY DEF LineComment, CommentChanges
<1>2. Lined(text) /\ n \in Nat /\ n = Len(text) /\ m \in Nat
  BY CursorsAre DEF Lined
<1>3. lines \in SUBSET (0 .. m - 1) /\ marked \in SUBSET (0 .. m - 1)
  BY SelectedLinesAre DEF CommentLines
<1>4. ASSUME NEW l \in marked PROVE HasToken(text, l) /\ ~IsBlank(text, l)
  BY DEF HasToken
<1> HIDE DEF lines, marked
<1>5. /\ \A i \in DOMAIN InOrder(lines) : InOrder(lines)[i] \in lines
      /\ \A i \in DOMAIN InOrder(marked) : InOrder(marked)[i] \in marked
  <2> DEFINE a == InOrder(lines)
             b == InOrder(marked)
  <2>1. a \in Seq(lines) /\ b \in Seq(marked)
    BY <1>2, <1>3, InOrderIs
  <2> HIDE DEF a, b
  <2>2. (\A i \in DOMAIN a : a[i] \in lines) /\ (\A i \in DOMAIN b : b[i] \in marked)
    BY <2>1
  <2> QED
    BY <2>2 DEF a, b
<1> HIDE DEF Put
<1>6. takes = took /\ puts = gave
  BY <1>5
<1>7. (\A l \in marked : f[l] = TokenAt(text, l)) /\ (\A l \in lines : g[l] = Put(l))
  OBVIOUS
<1> HIDE DEF takes, puts, f, g
<1>8. ASSUME NEW l \in marked
      PROVE  f[l] \in ChangesIn(text) /\ f[l].start = Indented(text, l)
  <2> DEFINE a == Indented(text, l)
             b == IF Blank \in After(text, a + 1) THEN a + 2 ELSE a + 1
             e == EndOf(text, l)
  <2>1. l \in 0 .. m - 1
    BY <1>3
  <2>2. a \in StartOf(text, l) .. e /\ a # e /\ a \in 0 .. n /\ e \in 0 .. n
    BY <1>2, <1>4, <2>1, IndentedIs DEF IsBlank, Lined
  <2>3. a + 1 \in 0 .. n
    BY <1>2, <2>2
  <2>4. Blank \in After(text, a + 1) => a + 2 \in 0 .. n
    <3> SUFFICES ASSUME Blank \in After(text, a + 1) PROVE a + 2 \in 0 .. n
      OBVIOUS
    <3>1. a + 1 # LineEnd(text, a + 1)
      BY DEF After
    <3>2. LineEnd(text, a + 1) \in a + 1 .. n
      BY <1>2, <2>3, HomeAndEnd
    <3> HIDE DEF n, a
    <3> QED
      BY <1>2, <2>2, <2>3, <3>1, <3>2
  <2>5. f[l] = Change(a, b, <<>>)
    BY <1>7 DEF TokenAt
  <2> HIDE DEF a
  <2>6. b \in 0 .. n /\ a <= b
    BY <1>2, <2>2, <2>3, <2>4
  <2> HIDE DEF b, n
  <2>7. Change(a, b, <<>>) \in ChangesIn(text) /\ Change(a, b, <<>>).start = a
    BY <1>2, <2>2, <2>6, TakenOut
  <2> QED
    BY <2>5, <2>7 DEF a
<1>9. ASSUME NEW l \in lines
      PROVE  g[l] \in ChangesIn(text) /\ g[l].start = Indented(text, l)
  <2> DEFINE a == Indented(text, l)
  <2>1. l \in 0 .. m - 1
    BY <1>3
  <2>2. a \in 0 .. n /\ a <= a
    BY <1>2, <2>1, IndentedIs
  <2>3. ins \in Seq(Characters)
    BY CharactersAre
  <2>4. g[l] = Change(a, a, ins)
    BY <1>7 DEF Put
  <2> HIDE DEF a, n, ins
  <2>5. Change(a, a, ins) \in ChangesIn(text) /\ Change(a, a, ins).start = a
    BY <1>2, <2>2, <2>3, ChangeIn
  <2> QED
    BY <2>4, <2>5 DEF a
<1>10. \A k, l \in 0 .. m - 1 : k < l => Indented(text, k) <= Indented(text, l)
  <2> SUFFICES ASSUME NEW k \in 0 .. m - 1, NEW l \in 0 .. m - 1, k < l
               PROVE  Indented(text, k) <= Indented(text, l)
    OBVIOUS
  <2>1. k <= l
    BY <1>2
  <2> QED
    BY <1>2, <2>1, PlacesMount
<1>11. took \in Seq(ChangesIn(text)) /\ Mounts(took)
  <2>1. \A k, l \in marked : k < l => f[k].start <= f[l].start
    BY <1>3, <1>8, <1>10
  <2> QED
    BY <1>3, <1>8, <2>1, LineByLine
<1>12. gave \in Seq(ChangesIn(text)) /\ Mounts(gave)
  <2>1. \A k, l \in lines : k < l => g[k].start <= g[l].start
    BY <1>3, <1>9, <1>10
  <2> QED
    BY <1>3, <1>9, <2>1, LineByLine
<1> QED
  BY <1>1, <1>6, <1>11, <1>12, EditLinesKeeps

(***************************************************************************)
(* Comments around selections, and a server's edits                        *)
(***************************************************************************)
\* Ranges in order start in order.
LEMMA AscendsMounts ==
  ASSUME NEW R, Ranges(R), NEW s \in Seq(R), Ascends(s)
  PROVE  \A i, j \in 1 .. Len(s) : i < j => s[i].start <= s[j].start
<1> DEFINE k == Len(s)
<1>1. DOMAIN s = 1 .. k /\ \A i \in 1 .. k : s[i] \in R
  OBVIOUS
<1> HIDE DEF k
<1> SUFFICES ASSUME NEW i \in 1 .. k, NEW j \in 1 .. k, i < j PROVE s[i].start <= s[j].start
  BY DEF k
<1>2. ~Precedes(s[j], s[i])
  BY <1>1 DEF Ascends
<1>3. s[i].start \in Nat /\ s[j].start \in Nat
  BY <1>1 DEF Ranges
<1> QED
  BY <1>2, <1>3 DEF Precedes

\* A text without its blanks at both ends.
LEMMA TrimmedIs ==
  ASSUME NEW C, NEW s \in Seq(C)
  PROVE  Trimmed(s) \in Seq(C) /\ Len(Trimmed(s)) \in Nat
<1> DEFINE solid == {i \in DOMAIN s : s[i] \notin {Blank, Newline}}
           n == Len(s)
<1>1. n \in Nat /\ DOMAIN s = 1 .. n
  OBVIOUS
<1>2. solid \subseteq 1 .. n
  BY <1>1
<1>3. Trimmed(s) = IF solid = {} THEN <<>> ELSE SubSeq(s, Min(solid), Max(solid))
  BY DEF Trimmed
<1> HIDE DEF solid
<1>4. CASE solid = {}
  <2>1. <<>> \in Seq(C) /\ Len(<<>>) \in Nat
    OBVIOUS
  <2> QED
    BY <1>3, <1>4, <2>1
<1>5. CASE solid # {}
  <2> DEFINE a == Min(solid)
             b == Max(solid)
             m == a - 1
  <2> HIDE DEF n
  <2>1. solid \subseteq Nat /\ solid \subseteq 0 .. n
    BY <1>1, <1>2
  <2>2. a \in solid
    BY <1>5, <2>1, MinIs
  <2>3. b \in solid
    BY <1>1, <1>5, <2>1, MaxIs
  <2> HIDE DEF a, b
  <2>4. m \in Nat /\ m + 1 = a /\ b \in Nat /\ b <= n
    BY <1>1, <1>2, <2>2, <2>3
  <2> HIDE DEF m
  <2>5. SubSeq(s, m + 1, b) \in Seq(C)
    BY <2>4, PartOfText DEF n
  <2>6. Trimmed(s) = SubSeq(s, m + 1, b)
    BY <1>3, <1>5, <2>4 DEF a, b
  <2> QED
    BY <2>5, <2>6
<1> QED
  BY <1>4, <1>5

\* What a comment around a selection does, and where the inside comes to lie.
PlansIn(n) ==
  {p \in [start : Nat, end : Nat, ins : Seq(Characters), from : Nat, to : Nat] :
     p.start <= p.end /\ p.end <= n /\ p.from <= Len(p.ins) /\ p.to <= Len(p.ins)}

\* The plan of a block comment.
LEMMA PlanIn ==
  ASSUME NEW n \in Nat, NEW a \in 0 .. n, NEW b \in 0 .. n, a <= b,
         NEW ins \in Seq(Characters), NEW k \in Nat, k = Len(ins),
         NEW from \in 0 .. k, NEW to \in 0 .. k
  PROVE  [start |-> a, end |-> b, ins |-> ins, from |-> from, to |-> to] \in PlansIn(n)
BY DEF PlansIn

\* Every selection has one.
LEMMA BlockPlanIs ==
  ASSUME IInv, NEW c \in CursorsIn(0, Len(text))
  PROVE  BlockPlan(text, RangeOf(c)) \in PlansIn(Len(text))
<1> DEFINE n == Len(text)
           r == RangeOf(c)
           inside == SubSeq(text, r.start + 1, r.end)
           trimmed == Trimmed(inside)
           inner == Trimmed(Front(Tail(trimmed)))
           open == <<OpenToken, Blank>>
           close == <<Blank, CloseToken>>
           wrapped == open \o inside \o close
           unwraps == Len(trimmed) >= 2 /\ Head(trimmed) = OpenToken /\ Last(trimmed) = CloseToken
           Plan(start, end, ins, from, to) ==
             [start |-> start, end |-> end, ins |-> ins, from |-> from, to |-> to]
<1>1. text \in Seq(Characters) /\ n \in Nat /\ n = Len(text) /\ 0 \in Nat
  BY CursorsAre
<1>2. r.start \in 0 .. n /\ r.end \in 0 .. n /\ r.start <= r.end
  BY <1>1, RangeIs
<1>3. BlockPlan(text, r) =
        IF unwraps THEN Plan(r.start, r.end, inner, 0, Len(inner))
        ELSE IF Surrounds(text, r, TRUE) THEN Plan(r.start - 2, r.end + 2, inside, 0, Len(inside))
        ELSE IF Surrounds(text, r, FALSE) THEN Plan(r.start - 1, r.end + 1, inside, 0, Len(inside))
        ELSE Plan(r.start, r.end, wrapped, 2, 2 + Len(inside))
  BY DEF BlockPlan
<1>4. Surrounds(text, r, TRUE) => r.start >= 2 /\ r.end + 2 <= n
  <2>1. Len(<<OpenToken, Blank>>) = 2 /\ Len(<<Blank, CloseToken>>) = 2
    OBVIOUS
  <2> QED
    BY <2>1 DEF Surrounds
<1>5. Surrounds(text, r, FALSE) => r.start >= 1 /\ r.end + 1 <= n
  <2>1. Len(<<OpenToken>>) = 1 /\ Len(<<CloseToken>>) = 1
    OBVIOUS
  <2> QED
    BY <2>1 DEF Surrounds
<1> DEFINE a == r.start
           b == r.end
<1>6. inside \in Seq(Characters)
  <2>1. a \in Nat /\ b \in Nat /\ b <= n
    BY <1>1, <1>2
  <2> HIDE DEF a, b, n
  <2>2. SubSeq(text, a + 1, b) \in Seq(Characters)
    BY <1>1, <2>1, PartOfText
  <2> QED
    BY <2>2 DEF a, b
<1>7. open \in Seq(Characters) /\ close \in Seq(Characters) /\ Len(open) = 2 /\ Len(close) = 2
  BY CharactersAre
<1> HIDE DEF inside, open, close, r
<1>8. trimmed \in Seq(Characters) /\ Len(trimmed) \in Nat
  BY <1>6, TrimmedIs
<1> HIDE DEF trimmed
<1>9. unwraps => inner \in Seq(Characters)
  <2> SUFFICES ASSUME unwraps PROVE inner \in Seq(Characters)
    OBVIOUS
  <2> DEFINE tail == Tail(trimmed)
             m == Len(tail) - 1
             zero == 0
  <2>1. tail \in Seq(Characters) /\ Len(tail) = Len(trimmed) - 1
    <3>1. trimmed # <<>>
      <4>1. Len(<<>>) = 0
        OBVIOUS
      <4> QED
        BY <4>1
    <3> QED
      BY <1>8, <3>1, HeadTailProperties
  <2> HIDE DEF tail
  <2>2. m \in Nat /\ m <= Len(tail) /\ zero \in Nat /\ zero + 1 = 1
    BY <1>8, <2>1
  <2>3. Front(tail) = SubSeq(tail, 1, m)
    BY DEF Front
  <2> HIDE DEF m, zero
  <2>4. SubSeq(tail, zero + 1, m) \in Seq(Characters)
    BY <2>1, <2>2, PartOfText
  <2>5. Front(tail) \in Seq(Characters)
    BY <2>2, <2>3, <2>4
  <2> QED
    BY <2>5, TrimmedIs DEF tail
<1> HIDE DEF inner, unwraps
<1>10. Len(inside) \in Nat
  BY <1>6
<1>11. wrapped \in Seq(Characters) /\ Len(wrapped) = 2 + Len(inside) + 2
  <2>1. open \o inside \in Seq(Characters) /\ Len(open \o inside) = 2 + Len(inside)
    BY <1>6, <1>7, JoinedIs
  <2> DEFINE x == open \o inside
  <2> HIDE DEF x
  <2>2. x \o close \in Seq(Characters) /\ Len(x \o close) = Len(x) + 2
    BY <1>7, <2>1, JoinedIs DEF x
  <2> QED
    BY <1>10, <2>1, <2>2 DEF x
<1>12. a \in 0 .. n /\ b \in 0 .. n /\ a <= b /\ a = r.start /\ b = r.end
  BY <1>2
<1> HIDE DEF wrapped, n, a, b
<1>13. CASE unwraps
  <2> DEFINE k == Len(inner)
  <2>1. inner \in Seq(Characters) /\ k \in Nat /\ k = Len(inner) /\ 0 \in 0 .. k /\ k \in 0 .. k
    BY <1>9, <1>13
  <2> HIDE DEF k
  <2>2. Plan(a, b, inner, 0, k) \in PlansIn(n)
    BY <1>1, <1>12, <2>1, PlanIn
  <2> QED
    BY <1>1, <1>3, <1>12, <1>13, <2>1, <2>2 DEF r
<1> DEFINE l == Len(inside)
<1>14. l \in Nat /\ l = Len(inside) /\ 0 \in 0 .. l /\ l \in 0 .. l
  BY <1>10
<1> HIDE DEF l
<1>15. CASE ~unwraps /\ Surrounds(text, r, TRUE)
  <2> DEFINE x == a - 2
             y == b + 2
  <2>1. x \in 0 .. n /\ y \in 0 .. n /\ x <= y
    BY <1>1, <1>4, <1>12, <1>15
  <2> HIDE DEF x, y
  <2>2. Plan(x, y, inside, 0, l) \in PlansIn(n)
    BY <1>1, <1>6, <1>14, <2>1, PlanIn
  <2> QED
    BY <1>1, <1>3, <1>12, <1>14, <1>15, <2>2 DEF r, x, y
<1>16. CASE ~unwraps /\ ~Surrounds(text, r, TRUE) /\ Surrounds(text, r, FALSE)
  <2> DEFINE x == a - 1
             y == b + 1
  <2>1. x \in 0 .. n /\ y \in 0 .. n /\ x <= y
    BY <1>1, <1>5, <1>12, <1>16
  <2> HIDE DEF x, y
  <2>2. Plan(x, y, inside, 0, l) \in PlansIn(n)
    BY <1>1, <1>6, <1>14, <2>1, PlanIn
  <2> QED
    BY <1>1, <1>3, <1>12, <1>14, <1>16, <2>2 DEF r, x, y
<1>17. CASE ~unwraps /\ ~Surrounds(text, r, TRUE) /\ ~Surrounds(text, r, FALSE)
  <2> DEFINE k == Len(wrapped)
             to == 2 + l
  <2>1. k \in Nat /\ k = Len(wrapped) /\ 2 \in 0 .. k /\ to \in 0 .. k
    BY <1>11, <1>14
  <2> HIDE DEF k, to
  <2>2. Plan(a, b, wrapped, 2, to) \in PlansIn(n)
    BY <1>1, <1>11, <1>12, <2>1, PlanIn
  <2> QED
    BY <1>1, <1>3, <1>12, <1>14, <1>17, <2>2 DEF r, to
<1> QED
  BY <1>13, <1>15, <1>16, <1>17

\* Such plans are ranges with a text.
LEMMA PlansChange ==
  ASSUME NEW n \in Nat
  PROVE  /\ Ranges(PlansIn(n)) /\ Changing(PlansIn(n), Characters)
         /\ \A p \in PlansIn(n) :
              /\ p.start \in 0 .. n /\ p.end \in 0 .. n /\ p.start <= p.end
              /\ p.ins \in Seq(Characters) /\ Len(p.ins) \in Nat
              /\ p.from \in 0 .. Len(p.ins) /\ p.to \in 0 .. Len(p.ins)
<1> SUFFICES ASSUME NEW p \in PlansIn(n)
             PROVE  /\ p.start \in Nat /\ p.end \in Nat /\ p.start \in 0 .. n /\ p.end \in 0 .. n
                    /\ p.start <= p.end
                    /\ p.ins \in Seq(Characters) /\ Len(p.ins) \in Nat
                    /\ p.from \in 0 .. Len(p.ins) /\ p.to \in 0 .. Len(p.ins)
  BY DEF Ranges, Changing
<1>1. /\ p.start \in Nat /\ p.end \in Nat /\ p.ins \in Seq(Characters)
      /\ p.from \in Nat /\ p.to \in Nat
      /\ p.start <= p.end /\ p.end <= n /\ p.from <= Len(p.ins) /\ p.to <= Len(p.ins)
  BY DEF PlansIn
<1>2. Len(p.ins) \in Nat
  BY <1>1
<1> QED
  BY <1>1, <1>2

\* toggle_block_comment.
LEMMA BlockCommentKeeps ==
  ASSUME IInv, BlockComment
  PROVE  StepGood
<1> DEFINE n == Len(text)
           k == Len(cursors)
           P == PlansIn(n)
           all == [i \in DOMAIN cursors |-> BlockPlan(text, RangeOf(cursors[i]))]
           plans == Sorted(all)
           changes == [i \in DOMAIN plans |-> Change(plans[i].start, plans[i].end, plans[i].ins)]
           Inner(i) == Cursor(plans[i].start + Delta(plans, i) + plans[i].from,
                              plans[i].start + Delta(plans, i) + plans[i].to)
           g == [i \in DOMAIN plans |-> Inner(i)]
           after == Normalized(g, primary)
           u == Applied(text, changes)
<1>1. Commit(changes, after) /\ UNCHANGED typed
  BY DEF BlockComment, BlockChanges, BlockPlans
<1>2. /\ text \in Seq(Characters) /\ n \in Nat /\ n = Len(text) /\ k \in Nat
      /\ DOMAIN cursors = 1 .. k /\ primary \in 1 .. k
  BY CursorsAre
<1>3. all \in [1 .. k -> P]
  <2> HIDE DEF P
  <2>1. \A i \in 1 .. k : BlockPlan(text, RangeOf(cursors[i])) \in P
    BY ActiveIs, BlockPlanIs DEF P
  <2> QED
    BY <1>2, <2>1
<1> HIDE DEF k
<1>4. Ranges(P) /\ Changing(P, Characters)
  BY <1>2, PlansChange
<1> HIDE DEF all
<1>5. all \in Seq(P) /\ Len(all) = k
  BY <1>2, <1>3, SeqOfLength
<1>6. plans \in Seq(P) /\ Len(plans) = k /\ Ascends(plans)
  BY <1>4, <1>5, SortedPermutes
<1> HIDE DEF plans
<1>7. DOMAIN plans = 1 .. k /\ \A i \in 1 .. k : plans[i] \in P
  BY <1>6
<1>8. \A i, j \in 1 .. k : i < j => plans[i].start <= plans[j].start
  BY <1>4, <1>6, AscendsMounts
<1>9. ASSUME NEW i \in 1 .. k
      PROVE  /\ changes[i] \in ChangesIn(text)
             /\ changes[i].start = plans[i].start /\ changes[i].end = plans[i].end
             /\ changes[i].ins = plans[i].ins
             /\ plans[i].start \in Nat /\ Len(plans[i].ins) \in Nat
             /\ plans[i].from \in 0 .. Len(plans[i].ins) /\ plans[i].to \in 0 .. Len(plans[i].ins)
  <2> DEFINE a == plans[i].start
             b == plans[i].end
             ins == plans[i].ins
  <2>1. plans[i] \in PlansIn(n)
    BY <1>7
  <2>2. /\ a \in 0 .. n /\ b \in 0 .. n /\ a <= b /\ ins \in Seq(Characters)
        /\ Len(ins) \in Nat
        /\ plans[i].from \in 0 .. Len(ins) /\ plans[i].to \in 0 .. Len(ins)
    BY <1>2, <2>1, PlansChange
  <2>3. changes[i] = Change(a, b, ins)
    BY <1>7
  <2>4. a \in Nat
    BY <1>2, <2>2
  <2> HIDE DEF n, a, b, ins, changes
  <2>5. /\ Change(a, b, ins) \in ChangesIn(text)
        /\ Change(a, b, ins).start = a /\ Change(a, b, ins).end = b /\ Change(a, b, ins).ins = ins
    BY <1>2, <2>2, ChangeIn
  <2> QED
    BY <2>2, <2>3, <2>4, <2>5 DEF a, b, ins
<1>10. changes \in [1 .. k -> ChangesIn(text)]
  <2>1. DOMAIN changes = 1 .. k /\ changes = [i \in DOMAIN changes |-> changes[i]]
    BY <1>7
  <2> HIDE DEF changes
  <2> QED
    BY <1>9, <2>1
<1>11. \A i \in 1 .. k : g[i] = Inner(i)
  BY <1>7
<1>12. DOMAIN g = 1 .. k /\ g = [i \in 1 .. k |-> g[i]]
  BY <1>7
<1> HIDE DEF changes, g, n, P
<1>13. changes \in Seq(ChangesIn(text)) /\ Len(changes) = k
  BY <1>2, <1>10, SeqOfLength
<1>14. Mounts(changes)
  BY <1>8, <1>9, <1>13 DEF Mounts
<1>15. changes \in Seq(ChangesOf(Characters))
  BY <1>2, <1>13, SeqIn
<1>16. \A i \in 1 .. k : Delta(plans, i) = Delta(changes, i)
  <2>1. DeltaGoes(plans)
    BY <1>4, <1>6, DeltaIs
  <2>2. DeltaGoes(changes)
    <3>1. Changing(ChangesOf(Characters), Characters)
      BY ChangesChange
    <3> QED
      BY <1>15, <3>1, DeltaIs
  <2>3. \A i \in 1 .. k : Grows(plans[i]) = Grows(changes[i])
    BY <1>9 DEF Grows
  <2>4. \A i \in 1 .. k + 1 : Delta(plans, i) = Delta(changes, i)
    <3>1. Len(plans) \in Nat /\ Len(changes) \in Nat /\ k <= Len(plans) /\ k <= Len(changes)
      BY <1>2, <1>6, <1>13
    <3> QED
      BY <1>2, <2>1, <2>2, <2>3, <3>1, DeltaSame
  <2> QED
    BY <1>2, <2>4
<1>17. ASSUME Fits(changes, Len(text)) PROVE Kept(after, 0, Len(u))
  <2> DEFINE hi == Len(u)
  <2>1. hi \in Nat /\ 0 \in Nat
    BY <1>13, <1>17, LeftIsText
  <2>2. ASSUME NEW i \in 1 .. k PROVE g[i] \in CursorsIn(0, hi)
    <3> DEFINE a == plans[i].start + Delta(plans, i)
               l == Len(plans[i].ins)
    <3>1. i \in 1 .. Len(changes)
      BY <1>13
    <3>2. /\ changes[i].start + Delta(changes, i) \in Nat
          /\ changes[i].start + Delta(changes, i) + Len(changes[i].ins) \in 0 .. hi
      BY <1>2, <1>15, <1>17, <3>1, CaretFollows
    <3>3. a \in Nat /\ a + l \in 0 .. hi
      BY <1>9, <1>16, <3>2
    <3>4. l \in Nat /\ plans[i].from \in 0 .. l /\ plans[i].to \in 0 .. l
      BY <1>9
    <3>5. g[i] = Cursor(a + plans[i].from, a + plans[i].to)
      BY <1>11
    <3> HIDE DEF hi, a, l
    <3>6. a + plans[i].from \in 0 .. hi /\ a + plans[i].to \in 0 .. hi
      BY <2>1, <3>3, <3>4
    <3> QED
      BY <2>1, <3>5, <3>6, CursorIs
  <2> HIDE DEF hi
  <2>3. Kept(Normalized(g, primary), 0, hi)
    <3>1. g \in [1 .. k -> CursorsIn(0, hi)]
      BY <1>12, <2>2
    <3>2. g \in Seq(CursorsIn(0, hi)) /\ Len(g) = k
      BY <1>2, <3>1, SeqOfLength
    <3> QED
      BY <1>2, <2>1, <3>2, NormalizedKeeps
  <2> QED
    BY <2>3 DEF hi
<1>18. TypedLines'
  BY <1>1 DEF IInv, TypedLines
<1> HIDE DEF after
<1> QED
  BY <1>1, <1>13, <1>14, <1>17, <1>18, CommitKeeps DEF u

\* Session::apply_edits: a batch that is clamped, sorted and applied, or
\* dropped as a whole.
LEMMA ApplyEditsKeeps ==
  ASSUME IInv, NEW batch \in Batches, ApplyEdits(batch)
  PROVE  StepGood
<1> DEFINE n == Len(text)
           k == Len(batch)
           D == ChangesIn(text)
           all == [i \in DOMAIN batch |-> Clamped(text, batch[i])]
           changes == Sorted(all)
           u == Applied(text, changes)
           c == Caret(cursors[primary].active)
           moved == Shifted(text, u, c, 0)
<1>1. Commit(changes, [cursors |-> <<moved>>, primary |-> 1]) /\ UNCHANGED typed
  BY DEF ApplyEdits
<1>2. text \in Seq(Characters) /\ n \in Nat /\ n = Len(text) /\ primary \in 1 .. Len(cursors)
      /\ Lined(text) /\ 0 \in Nat
  BY CursorsAre
<1> DEFINE E == {d \in [start : Nat, end : Nat, ins : Seq(Characters)] : d.start <= d.end}
<1>3. batch \in Seq(E)
  BY EditsAssumption
<1> HIDE DEF E
<1>4. k \in Nat /\ DOMAIN batch = 1 .. k /\ \A i \in 1 .. k : batch[i] \in E
  BY <1>3
<1>5. ASSUME NEW i \in 1 .. k PROVE Clamped(text, batch[i]) \in D
  <2> DEFINE d == batch[i]
             a == Smaller(d.start, n)
             b == Smaller(d.end, n)
  <2>1. /\ d \in [start : Nat, end : Nat, ins : Seq(Characters)]
        /\ d.start \in Nat /\ d.end \in Nat /\ d.ins \in Seq(Characters) /\ d.start <= d.end
    BY <1>4 DEF E
  <2>2. Clamped(text, d) = Change(a, b, d.ins)
    <3>1. Clamped(text, d) = [d EXCEPT !.start = a, !.end = b]
      BY DEF Clamped
    <3> HIDE DEF a, b, d
    <3> QED
      BY <2>1, <3>1 DEF Change
  <2>3. a \in 0 .. n /\ b \in 0 .. n /\ a <= b
    <3> HIDE DEF d
    <3> QED
      BY <1>2, <2>1 DEF Smaller
  <2> DEFINE ins == d.ins
  <2>4. ins \in Seq(Characters)
    BY <2>1
  <2> HIDE DEF a, b, n, ins, d
  <2>5. Change(a, b, ins) \in ChangesIn(text)
    BY <1>2, <2>3, <2>4, ChangeIn
  <2> QED
    BY <2>2, <2>5 DEF ins, d
<1> HIDE DEF k
<1>6. all \in [1 .. k -> D]
  <2> HIDE DEF D
  <2> QED
    BY <1>4, <1>5
<1>7. Ranges(D)
  <2> SUFFICES ASSUME NEW d \in D PROVE d.start \in Nat /\ d.end \in Nat
    BY DEF Ranges
  <2> QED
    BY <1>2, ChangesInIs
<1> HIDE DEF all, D
<1>8. all \in Seq(D)
  BY <1>4, <1>6, SeqOfLength
<1>9. changes \in Seq(D) /\ Ascends(changes)
  BY <1>7, <1>8, SortedPermutes
<1> HIDE DEF changes
<1>10. Mounts(changes)
  BY <1>7, <1>9, AscendsMounts DEF Mounts
<1>11. changes \in Seq(ChangesIn(text))
  BY <1>9 DEF D
<1>12. ASSUME Fits(changes, Len(text)) PROVE moved \in CursorsIn(0, Len(u))
  <2>1. Lined(u) /\ 0 \in Int
    BY <1>11, <1>12, LeftIsText
  <2>2. c \in CursorsIn(0, Len(text))
    <3>1. cursors[primary].active \in 0 .. Len(text)
      BY <1>2, ActiveIs
    <3> QED
      BY <1>2, <3>1, CursorIs
  <2> HIDE DEF u, c
  <2> QED
    BY <1>2, <2>1, <2>2, ShiftedIs
<1> HIDE DEF moved
<1> QED
  BY <1>1, <1>10, <1>11, <1>12, AloneKeeps DEF u

(***************************************************************************)
(* The theorems                                                            *)
(***************************************************************************)
\* Every edit.
LEMMA EditKeeps ==
  ASSUME IInv, Edit
  PROVE  StepGood
<1>1. ASSUME NEW ins \in Insertions, Type(ins) \/ InsertText(ins) PROVE StepGood
  <2>1. ins \in Seq(Characters)
    BY EditsAssumption
  <2> QED
    BY <1>1, <2>1, TypeKeeps, InsertTextKeeps
<1>2. CASE Tab
  BY <1>2, TabKeeps
<1>3. CASE DeleteLeft \/ DeleteRight \/ DeleteWordLeft \/ DeleteWordRight
  BY <1>3, DeleteLeftKeeps, DeleteRightKeeps, DeleteWordLeftKeeps, DeleteWordRightKeeps
<1>4. CASE CutSelections \/ CutLines
  BY <1>4, CutSelectionsKeeps, CutLinesKeeps
<1>5. CASE DeleteLines
  BY <1>5, DeleteLinesKeeps
<1>6. ASSUME NEW below \in BOOLEAN, InsertLine(below) PROVE StepGood
  BY <1>6, InsertLineKeeps
<1>7. ASSUME NEW up \in BOOLEAN, MoveLines(up) \/ CopyLines(up) PROVE StepGood
  BY <1>7, MoveLinesKeeps, CopyLinesKeeps
<1>8. ASSUME NEW add \in BOOLEAN, ChangeIndent(add) PROVE StepGood
  BY <1>8, ChangeIndentKeeps
<1>9. ASSUME NEW mode, LineComment(mode) PROVE StepGood
  BY <1>9, LineCommentKeeps
<1>10. CASE BlockComment
  BY <1>10, BlockCommentKeeps
<1>11. ASSUME NEW batch \in Batches, ApplyEdits(batch) PROVE StepGood
  BY <1>11, ApplyEditsKeeps
<1> QED
  BY <1>1, <1>2, <1>3, <1>4, <1>5, <1>6, <1>7, <1>8, <1>9, <1>10, <1>11 DEF Edit

\* Every motion.
LEMMA MoveKeeps ==
  ASSUME IInv, Move
  PROVE  StepGood
<1>1. ASSUME NEW extend \in BOOLEAN,
             \/ CursorLeft(extend) \/ CursorRight(extend)
             \/ CursorWordLeft(extend) \/ CursorWordRight(extend)
             \/ CursorHome(extend) \/ CursorEnd(extend)
             \/ CursorTop(extend) \/ CursorBottom(extend)
      PROVE  StepGood
  BY <1>1, CursorLeftKeeps, CursorRightKeeps, CursorWordLeftKeeps, CursorWordRightKeeps,
     CursorHomeKeeps, CursorEndKeeps, CursorTopKeeps, CursorBottomKeeps
<1>2. ASSUME NEW extend \in BOOLEAN, NEW lines \in {-Page, -1, 1, Page}, Vertical(lines, extend)
      PROVE  StepGood
  <2>1. Page \in Nat
    BY EditsAssumption
  <2>2. lines \in Int
    BY <2>1
  <2> QED
    BY <1>2, <2>2, VerticalKeeps
<1>3. CASE CancelSelection \/ CollapseToPrimary \/ SelectAll \/ ExpandLineSelection
  BY <1>3, CancelSelectionKeeps, CollapseToPrimaryKeeps, SelectAllKeeps, ExpandLineSelectionKeeps
<1>4. ASSUME NEW lines \in {-1, 1}, AddCursor(lines) PROVE StepGood
  <2>1. lines \in Int
    OBVIOUS
  <2> QED
    BY <1>4, <2>1, AddCursorKeeps
<1>5. CASE AddNextMatch \/ MoveToNextMatch \/ SelectAllMatches
  BY <1>5, AddNextMatchKeeps, MoveToNextMatchKeeps, SelectAllMatchesKeeps
<1> QED
  BY <1>1, <1>2, <1>3, <1>4, <1>5 DEF Move

\* Every step.
LEMMA NextKeeps ==
  ASSUME IInv, Next
  PROVE  StepGood
<1>1. Edit \/ Move \/ Tell
  BY DEF Next
<1> QED
  BY <1>1, EditKeeps, MoveKeeps, TellKeeps

\* The inductive invariant holds, for any characters, texts and batches, and after
\* any commands: each leaves the cursors normalized and records what it changed.
THEOREM Invariance == Spec => []IInv
<1>1. Init => IInv
  BY InitKeeps, EditsAssumption
<1>2. IInv /\ [Next]_vars => IInv'
  <2> SUFFICES ASSUME IInv, [Next]_vars PROVE IInv'
    OBVIOUS
  <2>1. CASE Next
    BY <2>1, NextKeeps DEF StepGood
  <2>2. CASE UNCHANGED vars
    BY <2>2 DEF vars, IInv, Selected, TypedLines, JournalGoes, Kept
  <2> QED
    BY <2>1, <2>2
<1> QED
  BY <1>1, <1>2, PTL DEF Spec

\* The cursors lie in the text, in order, and no two of them meet, whatever
\* commands moved, added and merged them or edited the text around them
\* (SelectionSet::normalize).
THEOREM CursorsStayApart == Spec => []CursorsApart
<1>1. IInv => CursorsApart
  <2> SUFFICES ASSUME IInv PROVE CursorsApart
    OBVIOUS
  <2>1. /\ DOMAIN cursors = 1 .. Len(cursors) /\ primary \in 1 .. Len(cursors)
        /\ Len(text) \in Nat /\ ApartTo(cursors)
    BY CursorsAre
  <2>2. \A i \in DOMAIN cursors : RangeOf(cursors[i]).end <= Len(text)
    BY <2>1, ActiveIs
  <2> QED
    BY <2>1, <2>2 DEF CursorsApart, ApartTo
<1> QED
  BY <1>1, Invariance, PTL

\* The recorded changes, applied one by one, lead from the text the server has
\* to the one on screen, or the whole text is sent (Document::record_sync_changes).
THEOREM JournalIsTheText == Spec => []JournalReplays
<1>1. IInv => JournalReplays
  BY JournalTells DEF IInv, JournalReplays
<1> QED
  BY <1>1, Invariance, PTL

\* What an edit returns takes it back, and what that returns makes it again, for
\* any number of changes that do not overlap, side by side ones included, of any
\* command and of a server (Buffer::apply).
THEOREM EditsAreTakenBack == Spec => InverseRestores
<1> DEFINE A == inverse' # <<>> =>
                  /\ Applied(text', inverse') = text
                  /\ Applied(text, Inverted(text', inverse')) = text'
<1>1. IInv /\ [Next]_vars => [A]_vars
  BY NextKeeps DEF StepGood, Restoring
<1>2. Spec => [][A]_vars
  BY <1>1, Invariance, PTL DEF Spec
<1> QED
  BY <1>2 DEF InverseRestores

(***************************************************************************)
(* What is typed at every cursor stands before every caret                 *)
(***************************************************************************)

\* Counting one by one.
OneByOne(f, m, n) ==
  /\ f \in [1 .. m -> 1 .. n]
  /\ \A a, b \in 1 .. m : f[a] = f[b] => a = b
  /\ \A b \in 1 .. n : \E a \in 1 .. m : f[a] = b

\* Two numbers that are matched one by one are the same.
LEMMA SameLength ==
  ASSUME NEW m \in Nat, NEW n \in Nat, NEW f, OneByOne(f, m, n)
  PROVE  m = n
<1>0. /\ f \in [1 .. m -> 1 .. n]
      /\ \A a, b \in 1 .. m : f[a] = f[b] => a = b
      /\ \A b \in 1 .. n : \E a \in 1 .. m : f[a] = b
  BY DEF OneByOne
<1>1. /\ IsFiniteSet(1 .. m) /\ IsFiniteSet(1 .. n)
      /\ Cardinality(1 .. m) = m /\ Cardinality(1 .. n) = n
  <2>1. \A k \in Nat : IsFiniteSet(1 .. k) /\ Cardinality(1 .. k) = k
    <3> SUFFICES ASSUME NEW k \in Nat PROVE IsFiniteSet(1 .. k) /\ Cardinality(1 .. k) = k
      OBVIOUS
    <3>1. 1 \in Int /\ k \in Int
      OBVIOUS
    <3>2. IsFiniteSet(1 .. k) /\ Cardinality(1 .. k) = IF 1 > k THEN 0 ELSE k - 1 + 1
      BY <3>1, FS_Interval
    <3> QED
      BY <3>2
  <2> QED
    BY <2>1
<1>2. ~(n < m)
  <2> SUFFICES ASSUME n < m PROVE FALSE
    OBVIOUS
  <2> DEFINE S == 1 .. m
             T == 1 .. n
  <2>1. f \in [S -> T] /\ Cardinality(T) < Cardinality(S)
    BY <1>0, <1>1
  <2>2. IsFiniteSet(S) /\ IsFiniteSet(T)
    BY <1>1
  <2>3. \A a, b \in S : f[a] = f[b] => a = b
    BY <1>0
  <2> HIDE DEF S, T
  <2>4. \E a, b \in S : a # b /\ f[a] = f[b]
    BY <2>1, <2>2, FS_PigeonHole
  <2> QED
    BY <2>3, <2>4
<1>3. ~(m < n)
  <2> SUFFICES ASSUME m < n PROVE FALSE
    OBVIOUS
  <2> DEFINE S == 1 .. m
             T == 1 .. n
             g == [b \in T |-> CHOOSE a \in S : f[a] = b]
  <2>1. Cardinality(S) < Cardinality(T) /\ \A b \in T : \E a \in S : f[a] = b
    BY <1>0, <1>1
  <2>2. IsFiniteSet(S) /\ IsFiniteSet(T)
    BY <1>1
  <2> HIDE DEF S, T
  <2>3. \A b \in T : g[b] \in S /\ f[g[b]] = b
    BY <2>1
  <2>4. g \in [T -> S]
    BY <2>1
  <2> HIDE DEF g
  <2>5. \E a, b \in T : a # b /\ g[a] = g[b]
    BY <2>1, <2>2, <2>4, FS_PigeonHole
  <2> QED
    BY <2>3, <2>5
<1> QED
  BY <1>2, <1>3

\* Carets one behind the other stay what they are.
LEMMA CaretsStay ==
  ASSUME NEW lo \in Nat, NEW hi \in Nat, NEW s \in Seq(CursorsIn(lo, hi)), NEW p \in 1 .. Len(s),
         \A i \in 1 .. Len(s) : IsCaret(s[i]),
         \A i, j \in 1 .. Len(s) : i < j => s[i].active < s[j].active
  PROVE  Normalized(s, p).cursors = s
<1> DEFINE K == CursorsIn(lo, hi)
           n == Len(s)
           o == Ordered(s)
           r == Normalized(s, p)
<1>1. n \in Nat /\ DOMAIN s = 1 .. n /\ \A i \in 1 .. n : s[i] \in K
  OBVIOUS
<1>2. ASSUME NEW i \in 1 .. n
      PROVE  /\ RangeOf(s[i]).start = s[i].active /\ RangeOf(s[i]).end = s[i].active
             /\ s[i].active \in Nat
  <2>1. IsCaret(s[i]) /\ s[i] \in K
    BY <1>1
  <2>2. s[i].active \in Nat /\ s[i].anchor = s[i].active
    BY <2>1 DEF CursorsIn, IsCaret
  <2> HIDE DEF n
  <2> QED
    BY <2>2 DEF RangeOf, Smaller, Larger
<1>3. o \in Seq(Whole(K)) /\ Len(o) = n
  BY OrderedIs
<1>4. \A i \in 1 .. n : o[i].is = s[i] /\ o[i].start = RangeOf(s[i]).start /\ o[i].end = RangeOf(s[i]).end
  BY <1>1 DEF Ordered
<1>5. Ranges(Whole(K))
  <2> SUFFICES ASSUME NEW c \in K PROVE RangeOf(c).start \in Nat /\ RangeOf(c).end \in Nat
    BY DEF Ranges, Whole
  <2> QED
    BY RangeIs
<1>6. PICK f \in [0 .. n -> Seq(K)] :
        /\ f[0] = <<>>
        /\ \A i \in 1 .. n : f[i] = Adding(f[i - 1], Sorted(o)[i].is, s[p])
        /\ r.cursors = f[n]
  BY NormalizedSteps
<1>7. \A i, j \in 1 .. n : i < j => s[i].active < s[j].active
  OBVIOUS
<1> HIDE DEF o, n, K
<1>8. Ascends(o)
  <2> SUFFICES ASSUME NEW i \in DOMAIN o, NEW j \in DOMAIN o, i < j PROVE ~Precedes(o[j], o[i])
    BY DEF Ascends
  <2>1. i \in 1 .. n /\ j \in 1 .. n
    BY <1>3
  <2>2. o[i].start = s[i].active /\ o[j].start = s[j].active /\ s[i].active < s[j].active
    BY <1>2, <1>4, <1>7, <2>1
  <2>3. s[i].active \in Nat /\ s[j].active \in Nat
    BY <1>2, <2>1
  <2> QED
    BY <2>2, <2>3 DEF Precedes
<1>9. Sorted(o) = o
  BY <1>3, <1>5, <1>8, SortedIsSame
<1>10. \A i \in 1 .. n : f[i] = Adding(f[i - 1], s[i], s[p])
  BY <1>4, <1>6, <1>9
<1> DEFINE T == {k \in Nat : k <= n => Len(f[k]) = k /\ \A j \in 1 .. k : f[k][j] = s[j]}
<1>11. 0 \in T
  <2>1. Len(f[0]) = 0
    BY <1>6
  <2> QED
    BY <2>1
<1>12. ASSUME NEW k \in Nat, k \in T PROVE k + 1 \in T
  <2> SUFFICES ASSUME k + 1 <= n
               PROVE  Len(f[k + 1]) = k + 1 /\ \A j \in 1 .. k + 1 : f[k + 1][j] = s[j]
    OBVIOUS
  <2>1. k \in 0 .. n /\ k + 1 \in 1 .. n /\ (k + 1) - 1 = k
    BY <1>1
  <2> DEFINE done == f[k]
             c == s[k + 1]
  <2>2. done \in Seq(K) /\ Len(done) = k /\ \A j \in 1 .. k : done[j] = s[j]
    BY <1>1, <1>12, <2>1
  <2>3. c \in K /\ f[k + 1] = Adding(done, c, s[p])
    BY <1>1, <1>10, <2>1
  <2>4. ASSUME done # <<>> PROVE ~Intersect(RangeOf(Last(done)), RangeOf(c))
    <3>1. k # 0
      BY <2>2, <2>4
    <3>2. k \in 1 .. n /\ k < k + 1
      BY <1>1, <2>1, <3>1
    <3>3. Last(done) = s[k]
      <4>1. Last(done) = done[Len(done)]
        BY DEF Last
      <4>2. done[k] = s[k]
        BY <2>2, <3>2
      <4> HIDE DEF done
      <4> QED
        BY <2>2, <4>1, <4>2
    <3>4. /\ RangeOf(s[k]).start = s[k].active /\ RangeOf(s[k]).end = s[k].active
          /\ s[k].active \in Nat
          /\ RangeOf(c).start = c.active /\ RangeOf(c).end = c.active
          /\ c.active \in Nat /\ s[k].active < c.active
      BY <1>2, <1>7, <2>1, <3>2
    <3> HIDE DEF c, done
    <3> QED
      BY <3>3, <3>4 DEF Intersect, Empty, Holds
  <2>5. f[k + 1] = Append(done, c)
    BY <2>3, <2>4 DEF Adding
  <2> HIDE DEF done, c
  <2>6. /\ Len(Append(done, c)) = k + 1
        /\ \A j \in 1 .. k : Append(done, c)[j] = done[j]
        /\ Append(done, c)[k + 1] = c
    BY <2>2, <2>3, AppendProperties
  <2>7. ASSUME NEW j \in 1 .. k + 1 PROVE f[k + 1][j] = s[j]
    <3>1. CASE j = k + 1
      BY <2>5, <2>6, <3>1 DEF c
    <3>2. CASE j # k + 1
      <4>1. j \in 1 .. k
        BY <3>2
      <4> QED
        BY <2>2, <2>5, <2>6, <4>1
    <3> QED
      BY <3>1, <3>2
  <2> QED
    BY <2>5, <2>6, <2>7
<1> HIDE DEF T
<1>13. n \in T
  BY <1>1, <1>11, <1>12, NatSteps
<1>14. Len(f[n]) = n /\ \A j \in 1 .. n : f[n][j] = s[j]
  BY <1>1, <1>13 DEF T
<1>15. f[n] \in Seq(K) /\ s \in Seq(K)
  BY <1>1, <1>6 DEF K
<1>16. f[n] = s
  <2> DEFINE x == f[n]
  <2>1. x \in Seq(K) /\ Len(x) = n /\ \A j \in 1 .. n : x[j] = s[j]
    BY <1>14, <1>15
  <2> HIDE DEF x
  <2>2. x = s
    BY <1>15, <2>1, SeqEqual DEF n
  <2> QED
    BY <2>2 DEF x
<1> QED
  BY <1>6, <1>16

\* Where changes put their texts, in the new one.
Stands(u, cs) ==
  \A i \in 1 .. Len(cs) :
    /\ CaretAt(cs, i) \in Len(cs[i].ins) .. Len(u)
    /\ Len(cs[i].ins) \in Nat
    /\ SubSeq(u, CaretAt(cs, i) - Len(cs[i].ins) + 1, CaretAt(cs, i)) = cs[i].ins
    /\ \A j \in 1 .. i - 1 : CaretAt(cs, j) + Len(cs[i].ins) <= CaretAt(cs, i)

\* What a transaction puts in stands in the text where Delta says.
LEMMA PutStands ==
  ASSUME NEW C, NEW t \in Seq(C), NEW cs \in Seq(ChangesOf(C)), Fits(cs, Len(t))
  PROVE  Stands(Applied(t, cs), cs)
<1> DEFINE u == Applied(t, cs)
           back == Back(t, cs)
<1>1. PutIn(cs, back, u) /\ Fits(back, Len(u)) /\ u \in Seq(C)
  BY AppliedIs DEF Restores
<1>2. DOMAIN cs = 1 .. Len(cs) /\ Len(cs) \in Nat
  OBVIOUS
<1>3. Len(back) = Len(cs)
  BY <1>2 DEF Back
<1>4. ASSUME NEW i \in 1 .. Len(cs)
      PROVE  /\ back[i].start = cs[i].start + Delta(cs, i)
             /\ back[i].end = CaretAt(cs, i)
             /\ cs[i].start + Delta(cs, i) \in Nat
             /\ CaretAt(cs, i) \in 0 .. Len(u)
             /\ Len(cs[i].ins) \in Nat
             /\ CaretAt(cs, i) = cs[i].start + Delta(cs, i) + Len(cs[i].ins)
  <2>1. back[i] = Change(cs[i].start + Delta(cs, i), cs[i].start + Delta(cs, i) + Len(cs[i].ins),
                         SubSeq(t, cs[i].start + 1, cs[i].end))
    BY <1>2 DEF Back
  <2>2. /\ cs[i].start + Delta(cs, i) \in Nat
        /\ cs[i].start + Delta(cs, i) + Len(cs[i].ins) \in 0 .. Len(u)
    BY CaretFollows
  <2>3. Len(cs[i].ins) \in Nat
    BY ChangeTypes
  <2> HIDE DEF u, back
  <2> QED
    BY <2>1, <2>2, <2>3 DEF Change, CaretAt
<1>5. Len(u) \in Nat
  BY <1>1
<1> HIDE DEF back
<1> SUFFICES ASSUME NEW i \in 1 .. Len(cs)
             PROVE  /\ CaretAt(cs, i) \in Len(cs[i].ins) .. Len(u)
                    /\ Len(cs[i].ins) \in Nat
                    /\ SubSeq(u, CaretAt(cs, i) - Len(cs[i].ins) + 1, CaretAt(cs, i)) = cs[i].ins
                    /\ \A j \in 1 .. i - 1 : CaretAt(cs, j) + Len(cs[i].ins) <= CaretAt(cs, i)
  BY DEF Stands
<1> HIDE DEF u
<1> DEFINE a == cs[i].start + Delta(cs, i)
           l == Len(cs[i].ins)
           b == CaretAt(cs, i)
<1>6. a \in Nat /\ l \in Nat /\ b = a + l /\ b \in 0 .. Len(u) /\ back[i].start = a /\ back[i].end = b
  BY <1>4
<1>7. SubSeq(u, a + 1, b) = cs[i].ins
  BY <1>1, <1>6 DEF PutIn
<1>8. \A j \in 1 .. i - 1 : CaretAt(cs, j) <= a /\ CaretAt(cs, j) \in 0 .. Len(u)
  <2> SUFFICES ASSUME NEW j \in 1 .. i - 1
               PROVE  CaretAt(cs, j) <= a /\ CaretAt(cs, j) \in 0 .. Len(u)
    OBVIOUS
  <2>1. j \in 1 .. Len(cs)
    BY <1>2
  <2>2. back[j].end <= back[i].start
    BY <1>1, <1>3 DEF Fits
  <2> QED
    BY <1>4, <1>6, <2>1, <2>2
<1> HIDE DEF a, b, l
<1>9. b - l + 1 = a + 1 /\ b \in l .. Len(u)
  BY <1>5, <1>6
<1>10. \A j \in 1 .. i - 1 : CaretAt(cs, j) + l <= b
  BY <1>5, <1>6, <1>8
<1> QED
  BY <1>6, <1>7, <1>9, <1>10 DEF b, l

\* One caret for each cursor, each behind what was put in.
LEMMA CaretsStand ==
  ASSUME IInv, NEW planned \in Seq(ChangesIn(text)), planned # <<>>,
         NEW ins \in Seq(Characters), Len(ins) >= 1,
         \A b \in 1 .. Len(planned) : planned[b].ins = ins,
         Fits(TrimmedEdit(planned).changes, Len(text))
  PROVE  LET edit == TrimmedEdit(planned)
             flat == Following(edit)
             u == Applied(text, edit.changes)
         IN  /\ Carets(edit) = Normalized(flat, 1) /\ 1 \in 1 .. Len(flat)
             /\ flat \in Seq(CursorsIn(1, Len(u)))
             /\ Len(flat) = Len(planned)
             /\ \A a \in 1 .. Len(flat) :
                  /\ flat[a] = Caret(flat[a].active)
                  /\ flat[a].active \in Len(ins) .. Len(u)
                  /\ SubSeq(u, flat[a].active - Len(ins) + 1, flat[a].active) = ins
             /\ \A a, b \in 1 .. Len(flat) : a < b => flat[a].active < flat[b].active
<1> DEFINE edit == TrimmedEdit(planned)
           flat == Following(edit)
           cs == edit.changes
           u == Applied(text, cs)
           hi == Len(u)
           k == Len(planned)
           l == Len(ins)
<1>1. text \in Seq(Characters) /\ k \in Nat /\ l \in Nat /\ l >= 1
  BY CursorsAre
<1>2. /\ cs \in Seq(ChangesIn(text))
      /\ \A i \in 1 .. Len(cs) : cs[i] \notin edit.trims => \E b \in 1 .. k : cs[i] = planned[b]
      /\ k <= Len(cs)
      /\ \E q : /\ Permutes(q, Len(cs))
                /\ \A i \in 1 .. Len(cs) : cs[i] \notin edit.trims <=> q[i] <= k
  BY TrimmedEditIs
<1>3. Fits(cs, Len(text))
  OBVIOUS
<1>4. /\ Carets(edit) = Normalized(flat, 1) /\ flat \in Seq(CursorsIn(1, hi))
      /\ 1 \in 1 .. Len(flat) /\ \E h : Follows(h, edit)
  <2>1. 1 \in Nat /\ \A b \in 1 .. k : Len(planned[b].ins) >= 1
    OBVIOUS
  <2> QED
    BY <2>1, FollowingAre
<1> HIDE DEF edit
<1>5. PICK h : Follows(h, edit)
  BY <1>4
<1>6. PICK q : /\ Permutes(q, Len(cs))
               /\ \A i \in 1 .. Len(cs) : cs[i] \notin edit.trims <=> q[i] <= k
  BY <1>2
<1>7. cs \in Seq(ChangesOf(Characters)) /\ Len(cs) \in Nat
  BY <1>1, <1>2, SeqIn
<1>8. \A i \in 1 .. Len(cs) :
        /\ CaretAt(cs, i) \in Len(cs[i].ins) .. hi
        /\ SubSeq(u, CaretAt(cs, i) - Len(cs[i].ins) + 1, CaretAt(cs, i)) = cs[i].ins
        /\ \A j \in 1 .. i - 1 : CaretAt(cs, j) + Len(cs[i].ins) <= CaretAt(cs, i)
  <2>1. Stands(u, cs)
    BY <1>1, <1>3, <1>7, PutStands
  <2> HIDE DEF u, cs
  <2> QED
    BY <2>1 DEF Stands
<1>9. Len(flat) \in Nat
  BY <1>4
<1>10. hi \in Nat
  <2>1. u \in Seq(Characters)
    BY <1>1, <1>3, <1>7, AppliedIs
  <2> QED
    BY <2>1
<1> DEFINE m == Len(flat)
           n == Len(cs)
<1>11. /\ h \in [1 .. m -> 1 .. n]
       /\ \A a, b \in 1 .. m : a < b => h[a] < h[b]
       /\ \A a \in 1 .. m : cs[h[a]] \notin edit.trims /\ flat[a] = Caret(CaretAt(cs, h[a]))
       /\ \A i \in 1 .. n : cs[i] \notin edit.trims => \E a \in 1 .. m : h[a] = i
  BY <1>5 DEF Follows
<1>12. m \in Nat /\ n \in Nat
  BY <1>7, <1>9
<1> HIDE DEF cs, flat, u, hi, k, l, m, n
<1>13. ASSUME NEW a \in 1 .. m
       PROVE  /\ cs[h[a]].ins = ins /\ flat[a].active = CaretAt(cs, h[a])
              /\ flat[a] = Caret(flat[a].active)
              /\ flat[a].active \in l .. hi
              /\ SubSeq(u, flat[a].active - l + 1, flat[a].active) = ins
  <2>1. h[a] \in 1 .. n /\ cs[h[a]] \notin edit.trims /\ flat[a] = Caret(CaretAt(cs, h[a]))
    BY <1>11
  <2>2. cs[h[a]].ins = ins
    <3>1. PICK b \in 1 .. k : cs[h[a]] = planned[b]
      BY <1>2, <2>1 DEF n
    <3> QED
      BY <3>1 DEF k
  <2>3. flat[a].active = CaretAt(cs, h[a])
    BY <2>1 DEF Caret, Cursor
  <2>4. /\ CaretAt(cs, h[a]) \in l .. hi
        /\ SubSeq(u, CaretAt(cs, h[a]) - l + 1, CaretAt(cs, h[a])) = ins
    BY <1>8, <2>1, <2>2 DEF n, l
  <2> QED
    BY <2>1, <2>2, <2>3, <2>4
<1>14. ASSUME NEW a \in 1 .. m, NEW b \in 1 .. m, a < b PROVE flat[a].active < flat[b].active
  <2>1. h[a] \in 1 .. n /\ h[b] \in 1 .. n /\ h[a] < h[b]
    BY <1>11, <1>14
  <2>2. h[a] \in 1 .. h[b] - 1
    BY <1>12, <2>1
  <2>3. CaretAt(cs, h[a]) + l <= CaretAt(cs, h[b])
    BY <1>8, <1>13, <2>1, <2>2 DEF n, l
  <2>4. flat[a].active = CaretAt(cs, h[a]) /\ flat[b].active = CaretAt(cs, h[b])
        /\ flat[a].active \in l .. hi /\ flat[b].active \in l .. hi
    BY <1>13
  <2> QED
    BY <1>1, <1>10, <2>3, <2>4
<1>15. m = k
  <2> DEFINE f == [a \in 1 .. m |-> q[h[a]]]
  <2>1. /\ q \in [1 .. n -> 1 .. n]
        /\ \A a, b \in 1 .. n : q[a] = q[b] => a = b
        /\ \A b \in 1 .. n : \E a \in 1 .. n : q[a] = b
    BY <1>6 DEF Permutes, n
  <2>2. \A i \in 1 .. n : cs[i] \notin edit.trims <=> q[i] <= k
    BY <1>6 DEF n
  <2>3. k <= n
    BY <1>2 DEF n
  <2>4. ASSUME NEW a \in 1 .. m PROVE f[a] = q[h[a]] /\ f[a] \in 1 .. k
    <3>1. h[a] \in 1 .. n /\ cs[h[a]] \notin edit.trims
      BY <1>11
    <3>2. q[h[a]] \in 1 .. n /\ q[h[a]] <= k
      BY <2>1, <2>2, <3>1
    <3> QED
      BY <1>1, <1>12, <3>2
  <2>5. f \in [1 .. m -> 1 .. k]
    BY <2>4
  <2> HIDE DEF f
  <2>6. ASSUME NEW a \in 1 .. m, NEW b \in 1 .. m, f[a] = f[b] PROVE a = b
    <3>1. h[a] \in 1 .. n /\ h[b] \in 1 .. n
      BY <1>11
    <3>2. h[a] = h[b]
      BY <2>1, <2>4, <2>6, <3>1
    <3>3. ~(a < b) /\ ~(b < a)
      BY <1>11, <1>12, <3>1, <3>2
    <3> QED
      BY <1>12, <3>3
  <2>7. ASSUME NEW b \in 1 .. k PROVE \E a \in 1 .. m : f[a] = b
    <3>1. b \in 1 .. n
      BY <1>1, <1>12, <2>3
    <3>2. PICK i \in 1 .. n : q[i] = b
      BY <2>1, <3>1
    <3>3. cs[i] \notin edit.trims
      BY <1>1, <2>2, <3>2
    <3>4. PICK a \in 1 .. m : h[a] = i
      BY <1>11, <3>3
    <3> QED
      BY <2>4, <3>2, <3>4
  <2> QED
    <3>1. OneByOne(f, m, k)
      BY <2>5, <2>6, <2>7 DEF OneByOne
    <3> QED
      BY <1>1, <1>12, <3>1, SameLength
<1> QED
  BY <1>4, <1>13, <1>14, <1>15 DEF cs, flat, u, hi, k, l, m, edit

\* The same text over every selection.
LEMMA OverAll ==
  ASSUME IInv, NEW ins \in Seq(Characters),
         NEW plans, plans = [i \in DOMAIN cursors |-> <<Over(cursors[i], ins)>>]
  PROVE  /\ FlattenSeq(plans) \in Seq(ChangesIn(text)) /\ FlattenSeq(plans) # <<>>
         /\ Len(FlattenSeq(plans)) = Len(cursors)
         /\ \A b \in 1 .. Len(FlattenSeq(plans)) : FlattenSeq(plans)[b].ins = ins
<1> DEFINE planned == FlattenSeq(plans)
           n == Len(cursors)
           m == Len(planned)
<1>1. DOMAIN cursors = 1 .. n /\ n \in Nat /\ primary \in 1 .. n
  BY CursorsAre
<1>2. \A i \in 1 .. n : plans[i] = <<Over(cursors[i], ins)>>
  BY <1>1
<1>3. ASSUME NEW i \in 1 .. n
      PROVE  <<Over(cursors[i], ins)>> \in Plans /\ Over(cursors[i], ins).ins = ins
  <2>1. cursors[i] \in CursorsIn(0, Len(text))
    BY ActiveIs
  <2> QED
    BY <2>1, OverIs
<1>4. plans = [i \in 1 .. n |-> plans[i]] /\ \A i \in 1 .. n : plans[i] \in Plans
  BY <1>1, <1>2, <1>3
<1>5. planned \in Seq(ChangesIn(text)) /\ \E h : Keeps(h, planned, plans, n)
  BY <1>4, PlansAre
<1> HIDE DEF planned
<1>6. PICK h : Keeps(h, planned, plans, n)
  BY <1>5
<1>7. m \in Nat
  BY <1>5
<1>8. /\ h \in [1 .. m -> 1 .. n]
      /\ \A a, b \in 1 .. m : a < b => h[a] < h[b]
      /\ \A a \in 1 .. m : plans[h[a]] = <<planned[a]>>
      /\ \A b \in 1 .. n : plans[b] # <<>> => \E a \in 1 .. m : h[a] = b
  BY <1>6 DEF Keeps
<1> HIDE DEF m, n
<1>9. ASSUME NEW a \in 1 .. m, NEW b \in 1 .. m, h[a] = h[b] PROVE a = b
  <2>1. h[a] \in 1 .. n /\ h[b] \in 1 .. n
    BY <1>8
  <2>2. ~(a < b) /\ ~(b < a)
    BY <1>1, <1>8, <1>9, <2>1
  <2> QED
    BY <1>7, <2>2
<1>10. ASSUME NEW b \in 1 .. n PROVE \E a \in 1 .. m : h[a] = b
  <2>1. plans[b] # <<>>
    <3> DEFINE c == Over(cursors[b], ins)
    <3>1. plans[b] = <<c>>
      BY <1>2
    <3> HIDE DEF c
    <3>2. <<c>> # <<>>
      OBVIOUS
    <3> QED
      BY <3>1, <3>2
  <2> QED
    BY <1>8, <2>1
<1>11. m = n
  <2>1. OneByOne(h, m, n)
    BY <1>8, <1>9, <1>10 DEF OneByOne
  <2> QED
    BY <1>1, <1>7, <2>1, SameLength
<1>12. ASSUME NEW b \in 1 .. m PROVE planned[b].ins = ins
  <2> DEFINE c == Over(cursors[h[b]], ins)
             d == planned[b]
  <2>1. h[b] \in 1 .. n /\ plans[h[b]] = <<d>>
    BY <1>8
  <2>2. plans[h[b]] = <<c>> /\ c.ins = ins
    BY <1>2, <1>3, <2>1
  <2>3. c = d
    <3>1. <<c>> = <<d>>
      BY <2>1, <2>2
    <3> HIDE DEF c, d
    <3> QED
      BY <3>1
  <2> QED
    BY <2>2, <2>3
<1>13. planned # <<>>
  <2>1. Len(<<>>) = 0
    OBVIOUS
  <2> QED
    BY <1>1, <1>11, <2>1 DEF m
<1> QED
  BY <1>5, <1>11, <1>12, <1>13 DEF planned, m, n

\* What the carets of such an edit are, once it is made.
LEMMA OverAllStands ==
  ASSUME IInv, NEW ins \in Seq(Characters), Len(ins) >= 1,
         NEW plans, plans = [i \in DOMAIN cursors |-> <<Over(cursors[i], ins)>>],
         NEW after, Commit(TrimmedEdit(FlattenSeq(plans)).changes, after)
  PROVE  LET edit == TrimmedEdit(FlattenSeq(plans))
             flat == Carets(edit).cursors
         IN  /\ text' \in Seq(Characters) /\ cursors' = after.cursors
             /\ Carets(edit).primary \in 1 .. Len(flat)
             /\ flat \in Seq(CursorsIn(1, Len(text')))
             /\ Len(flat) = Len(cursors)
             /\ \A a \in 1 .. Len(flat) :
                  /\ flat[a] = Caret(flat[a].active)
                  /\ flat[a].active \in Len(ins) .. Len(text')
                  /\ SubSeq(text', flat[a].active - Len(ins) + 1, flat[a].active) = ins
             /\ \A a, b \in 1 .. Len(flat) : a < b => flat[a].active < flat[b].active
<1> DEFINE planned == FlattenSeq(plans)
           edit == TrimmedEdit(planned)
           flat == Following(edit)
           u == Applied(text, edit.changes)
<1>1. /\ planned \in Seq(ChangesIn(text)) /\ planned # <<>>
      /\ Len(planned) = Len(cursors)
      /\ \A b \in 1 .. Len(planned) : planned[b].ins = ins
  BY OverAll
<1> HIDE DEF planned
<1>2. edit.changes \in Seq(ChangesIn(text)) /\ Mounts(edit.changes)
  BY <1>1, TrimmedEditIs
<1>3. text' = u /\ cursors' = after.cursors /\ ~Overlapping(edit.changes)
  BY DEF Commit, Show, planned
<1>4. text \in Seq(Characters)
  BY CursorsAre
<1>5. Fits(edit.changes, Len(text)) /\ u \in Seq(Characters)
  <2> DEFINE cs == edit.changes
  <2> HIDE DEF edit
  <2>1. cs \in Seq(ChangesOf(Characters)) /\ AllIn(text, cs)
    BY <1>2, <1>4, SeqIn
  <2>2. Fits(cs, Len(text))
    BY <1>2, <1>3, <1>4, <2>1, FitsIf
  <2>3. u \in Seq(Characters)
    BY <1>4, <2>1, <2>2, AppliedIs
  <2> QED
    BY <2>2, <2>3
<1>6. /\ Carets(edit) = Normalized(flat, 1) /\ 1 \in 1 .. Len(flat)
      /\ flat \in Seq(CursorsIn(1, Len(u)))
      /\ Len(flat) = Len(planned)
      /\ \A a \in 1 .. Len(flat) :
           /\ flat[a] = Caret(flat[a].active)
           /\ flat[a].active \in Len(ins) .. Len(u)
           /\ SubSeq(u, flat[a].active - Len(ins) + 1, flat[a].active) = ins
      /\ \A a, b \in 1 .. Len(flat) : a < b => flat[a].active < flat[b].active
  BY <1>1, <1>5, CaretsStand
<1> HIDE DEF flat, u, edit
<1>7. Len(u) \in Nat /\ 1 \in Nat
  BY <1>5
<1>8. \A a \in 1 .. Len(flat) : IsCaret(flat[a])
  <2> SUFFICES ASSUME NEW a \in 1 .. Len(flat) PROVE IsCaret(flat[a])
    OBVIOUS
  <2> DEFINE at == flat[a].active
  <2>1. flat[a] = Caret(at)
    BY <1>6
  <2> HIDE DEF at
  <2> QED
    BY <2>1 DEF Caret, Cursor, IsCaret
<1>9. Normalized(flat, 1).cursors = flat
  BY <1>6, <1>7, <1>8, CaretsStay
<1>10. Normalized(flat, 1).primary \in 1 .. Len(flat)
  <2> DEFINE hi == Len(u)
             set == Normalized(flat, 1)
  <2> HIDE DEF hi, set
  <2>1. Kept(set, 1, hi)
    BY <1>6, <1>7, NormalizedKeeps DEF hi, set
  <2>2. set.primary \in 1 .. Len(set.cursors)
    BY <1>7, <2>1, KeptAre DEF hi
  <2> QED
    BY <1>9, <2>2 DEF set
<1>11. Carets(edit).cursors = flat /\ Carets(edit).primary \in 1 .. Len(flat)
  BY <1>6, <1>9, <1>10
<1> QED
  BY <1>1, <1>3, <1>5, <1>6, <1>11 DEF edit, planned

\* Each caret is left behind what it typed.
Stood(ins) ==
  /\ Len(cursors') = Len(cursors)
  /\ \A i \in DOMAIN cursors' :
       /\ IsCaret(cursors'[i])
       /\ SubSeq(text', cursors'[i].active - Len(ins) + 1, cursors'[i].active) = ins

\* A caret is at its position.
LEMMA CaretIs ==
  ASSUME NEW c, NEW at, c = Caret(at)
  PROVE  IsCaret(c) /\ c.active = at
BY DEF Caret, Cursor, IsCaret

\* insert_text leaves every caret behind what it put in.
LEMMA InsertTextStands ==
  ASSUME IInv, NEW ins \in Seq(Characters), Len(ins) >= 1, InsertText(ins)
  PROVE  Stood(ins)
<1> DEFINE plans == [i \in DOMAIN cursors |-> <<Over(cursors[i], ins)>>]
           edit == TrimmedEdit(FlattenSeq(plans))
           after == Carets(edit)
           flat == after.cursors
<1>1. Commit(edit.changes, after)
  BY DEF InsertText, EditAtCursors, Planned, TrimmedEdit
<1> HIDE DEF plans
<1>2. plans = [i \in DOMAIN cursors |-> <<Over(cursors[i], ins)>>]
  BY DEF plans
<1>3. /\ cursors' = flat /\ flat \in Seq(CursorsIn(1, Len(text')))
      /\ Len(flat) = Len(cursors)
      /\ \A a \in 1 .. Len(flat) :
           /\ flat[a] = Caret(flat[a].active)
           /\ SubSeq(text', flat[a].active - Len(ins) + 1, flat[a].active) = ins
  <2> HIDE DEF after
  <2>1. after = Carets(edit)
    BY DEF after
  <2> QED
    BY <1>1, <1>2, <2>1, OverAllStands
<1> HIDE DEF after, flat
<1>4. DOMAIN flat = 1 .. Len(flat)
  BY <1>3
<1>5. \A a \in 1 .. Len(flat) : IsCaret(flat[a])
  BY <1>3, CaretIs
<1> QED
  BY <1>3, <1>4, <1>5 DEF Stood

\* The first of two characters in a text.
LEMMA FirstOfTwo ==
  ASSUME NEW C, NEW u \in Seq(C), NEW at \in 2 .. Len(u), NEW p, SubSeq(u, at - 2 + 1, at) = p
  PROVE  SubSeq(u, at - 1, at - 1) = <<p[1]>>
<1> DEFINE m == at - 2
           n == at - 1
<1>1. Len(u) \in Nat /\ at \in Nat
  OBVIOUS
<1>2. m \in Nat /\ n \in Nat /\ n <= Len(u) /\ at <= Len(u) /\ m + 1 = n /\ m + 2 = at
  BY <1>1
<1> HIDE DEF m, n
<1>3. \A i \in 1 .. at - m : SubSeq(u, m + 1, at)[i] = u[m + i]
  BY <1>1, <1>2, PartOfText
<1>4. p[1] = u[n]
  <2>1. 1 \in 1 .. at - m
    BY <1>1, <1>2
  <2>2. SubSeq(u, m + 1, at)[1] = u[m + 1]
    BY <1>3, <2>1
  <2> QED
    BY <1>2, <2>2 DEF m
<1>5. SubSeq(u, n, n) = <<u[n]>>
  <2> DEFINE x == SubSeq(u, m + 1, n)
             d == u[n]
  <2>1. x \in Seq(C) /\ Len(x) = n - m /\ (\A i \in 1 .. n - m : x[i] = u[m + i])
    BY <1>1, <1>2, PartOfText
  <2>2. n - m = 1 /\ 1 \in 1 .. n - m
    BY <1>2
  <2>3. x[1] = d /\ Len(x) = 1
    BY <1>2, <2>1, <2>2
  <2> HIDE DEF x, d
  <2>4. x = <<d>>
    <3>1. d \in C
      BY <1>1, <1>2 DEF d
    <3> DEFINE y == <<d>>
    <3>2. y \in Seq(C) /\ Len(y) = 1 /\ y[1] = d
      BY <3>1
    <3> HIDE DEF y
    <3>3. \A i \in 1 .. Len(x) : x[i] = y[i]
      <4>1. \A i \in 1 .. Len(x) : i = 1
        BY <2>3
      <4> QED
        BY <2>3, <3>2, <4>1
    <3>4. x \in Seq(C) /\ Len(x) = Len(y)
      BY <2>1, <2>3, <3>2
    <3>5. x = y
      BY <3>2, <3>3, <3>4, SeqEqual
    <3> QED
      BY <3>5 DEF y
  <2> QED
    BY <1>2, <2>4 DEF x, d
<1> QED
  BY <1>4, <1>5 DEF n

\* So does a bracket that closes itself: the caret goes back by one, and what was
\* typed is before it.
LEMMA AutoCloseStands ==
  ASSUME IInv, NEW ins, AutoClose(ins)
  PROVE  Stood(ins)
<1>1. PICK p \in Pairs :
        /\ ins = <<p[1]>>
        /\ LET edit == Planned(LAMBDA c : <<Over(c, p)>>)
           IN  Commit(edit.changes, Mapped(Carets(edit), LAMBDA c : Caret(c.active - 1)))
  BY DEF AutoClose, Closes
<1> DEFINE plans == [i \in DOMAIN cursors |-> <<Over(cursors[i], p)>>]
           edit == TrimmedEdit(FlattenSeq(plans))
           flat == Carets(edit).cursors
           main == Carets(edit).primary
           g == [i \in DOMAIN flat |-> Caret(flat[i].active - 1)]
           after == Normalized(g, main)
           hi == Len(text')
<1>2. Commit(edit.changes, after)
  BY <1>1 DEF Planned, TrimmedEdit, Mapped
<1>3. p \in Seq(Characters) /\ Len(p) = 2 /\ Len(p) >= 1
  BY PairsAre
<1> HIDE DEF plans
<1>4. plans = [i \in DOMAIN cursors |-> <<Over(cursors[i], p)>>]
  BY DEF plans
<1> HIDE DEF after
<1>5. /\ text' \in Seq(Characters) /\ cursors' = after.cursors
      /\ main \in 1 .. Len(flat)
      /\ flat \in Seq(CursorsIn(1, Len(text')))
      /\ Len(flat) = Len(cursors)
      /\ \A a \in 1 .. Len(flat) :
           /\ flat[a].active \in Len(p) .. Len(text')
           /\ SubSeq(text', flat[a].active - Len(p) + 1, flat[a].active) = p
      /\ \A a, b \in 1 .. Len(flat) : a < b => flat[a].active < flat[b].active
  BY <1>2, <1>3, <1>4, OverAllStands
<1> HIDE DEF flat, main
<1> DEFINE k == Len(flat)
<1>6. hi \in Nat /\ 0 \in Nat /\ DOMAIN flat = 1 .. k /\ k \in Nat
  BY <1>5
<1>7. \A i \in 1 .. k : g[i] = Caret(flat[i].active - 1)
  BY <1>6
<1>8. DOMAIN g = 1 .. k /\ g = [i \in 1 .. k |-> g[i]]
  BY <1>6
<1> HIDE DEF g, k
<1>9. ASSUME NEW i \in 1 .. k
      PROVE  /\ g[i] \in CursorsIn(0, hi) /\ IsCaret(g[i])
             /\ g[i].active = flat[i].active - 1 /\ flat[i].active \in 2 .. hi
             /\ SubSeq(text', g[i].active - Len(ins) + 1, g[i].active) = ins
  <2> DEFINE at == flat[i].active
             b == at - 1
  <2>1. at \in 2 .. hi /\ SubSeq(text', at - 2 + 1, at) = p
    BY <1>3, <1>5 DEF k
  <2> HIDE DEF at
  <2>2. b \in 0 .. hi
    BY <1>6, <2>1
  <2>3. SubSeq(text', at - 1, at - 1) = <<p[1]>>
    BY <1>5, <2>1, FirstOfTwo
  <2>4. b - 1 + 1 = b
    BY <1>6, <2>1
  <2>5. g[i] = Caret(b)
    BY <1>7 DEF at
  <2>6. SubSeq(text', b, b) = ins /\ Len(ins) = 1
    BY <1>1, <2>3
  <2> HIDE DEF b, hi
  <2>7. Caret(b) \in CursorsIn(0, hi)
    BY <1>6, <2>2, CursorIs
  <2>8. IsCaret(g[i]) /\ g[i].active = b
    BY <2>5, CaretIs
  <2>9. b = at - 1
    BY DEF b
  <2> QED
    BY <2>1, <2>4, <2>5, <2>6, <2>7, <2>8, <2>9 DEF at
<1>10. \A i, j \in 1 .. k : i < j => g[i].active < g[j].active
  <2> SUFFICES ASSUME NEW i \in 1 .. k, NEW j \in 1 .. k, i < j PROVE g[i].active < g[j].active
    OBVIOUS
  <2>1. flat[i].active < flat[j].active
    BY <1>5 DEF k
  <2>2. /\ g[i].active = flat[i].active - 1 /\ g[j].active = flat[j].active - 1
        /\ flat[i].active \in 2 .. hi /\ flat[j].active \in 2 .. hi
    BY <1>9
  <2> HIDE DEF hi
  <2> QED
    BY <1>6, <2>1, <2>2
<1> HIDE DEF hi
<1>11. g \in Seq(CursorsIn(0, hi)) /\ Len(g) = k
  <2>1. g \in [1 .. k -> CursorsIn(0, hi)]
    BY <1>8, <1>9
  <2> QED
    BY <1>6, <2>1, SeqOfLength
<1>12. after.cursors = g
  <2>1. main \in 1 .. Len(g)
    BY <1>5, <1>11 DEF k
  <2>2. \A i \in 1 .. Len(g) : IsCaret(g[i])
    BY <1>9, <1>11
  <2>3. \A i, j \in 1 .. Len(g) : i < j => g[i].active < g[j].active
    BY <1>10, <1>11
  <2>4. Normalized(g, main).cursors = g
    BY <1>6, <1>11, <2>1, <2>2, <2>3, CaretsStay
  <2> QED
    BY <2>4 DEF after
<1>13. cursors' = g /\ Len(g) = Len(cursors)
  BY <1>5, <1>11, <1>12 DEF k
<1> QED
  BY <1>8, <1>9, <1>13 DEF Stood

\* The step of CaretsFollow.
FollowsStep ==
  \A ins \in Insertions :
    edits' > edits /\ Type(ins) /\ (ins = <<Newline>> => ~Indents(ins)) => Stood(ins)

\* Typing does.
LEMMA TypeStands ==
  ASSUME IInv
  PROVE  FollowsStep
<1> SUFFICES ASSUME NEW ins \in Insertions, edits' > edits, Type(ins),
                    ins = <<Newline>> => ~Indents(ins)
             PROVE  Stood(ins)
  BY DEF FollowsStep
<1>1. ins \in Seq(Characters) /\ Len(ins) >= 1
  <2>1. ins \in Seq(Characters) /\ ins # <<>>
    BY EditsAssumption
  <2>2. Len(ins) \in Nat /\ Len(ins) # 0
    BY <2>1
  <2> QED
    BY <2>1, <2>2
<1>2. ~StepOver(ins)
  <2>1. edits \in Nat
    BY DEF IInv
  <2> QED
    BY <2>1 DEF StepOver
<1>3. ~InsertNewline(ins)
  BY DEF InsertNewline, Indents
<1>4. AutoClose(ins) \/ InsertText(ins)
  BY <1>2, <1>3 DEF Type
<1> QED
  BY <1>1, <1>4, AutoCloseStands, InsertTextStands

\* What is typed stands before every caret.
THEOREM TypedAtEveryCaret == Spec => CaretsFollow
<1>1. IInv /\ [Next]_vars => [FollowsStep]_vars
  BY TypeStands
<1>2. Spec => [][FollowsStep]_vars
  BY <1>1, Invariance, PTL DEF Spec
<1> QED
  BY <1>2 DEF CaretsFollow, FollowsStep, Stood
=============================================================================
