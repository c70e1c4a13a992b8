---------------------------- MODULE LspSync_proofs ----------------------------
(***************************************************************************)
(* What a language server holds of the editor's documents, for any         *)
(* documents, texts, languages and kinds of sync, however much is in the   *)
(* pipe and however long the journals are.                                 *)
(***************************************************************************)
EXTENDS LspSync, SequenceTheorems, WellFoundedInduction, TLAPS

(***************************************************************************)
(* The types of the state.                                                 *)
(***************************************************************************)
Contents == Texts \cup {NoText, Garbage, Misread}
Copies   == [Paths -> [version : Nat, text : Contents]]
Journals == Seq(Change) \cup {Lost}
Kinds    == {"didOpen", "didClose", "didChange", "didSave", "request", "completion"}
Messages == [type : Kinds, path : Paths, version : Nat, changes : Seq(Change),
             text : Texts \cup {NoText}, stale : BOOLEAN, replaced : BOOLEAN]

Types ==
  /\ text \in [Paths -> Texts] /\ language \in [Paths -> Languages \cup {NoLanguage}]
  /\ journal \in [Paths -> Journals]
  /\ \A p \in Paths : journal[p] # Lost => Len(journal[p]) <= MaxJournal
  /\ shown \in Paths \cup {NoPath} /\ open \in Paths \cup {NoPath}
  /\ running \in Languages \cup {NoServer}
  /\ sent \in Texts \cup {NoText} /\ wholeNext \in BOOLEAN
  /\ version \in [Paths -> 0..(MaxVersion + 1)]
  /\ stage # "idle" => \A p \in Paths : version[p] <= MaxVersion
  /\ kind \in SyncKinds /\ pipe \in {"open", "broken"}
  /\ stage \in Stages /\ behind \in BOOLEAN /\ replaced \in BOOLEAN
  /\ channel \in Seq(Messages) /\ copy \in Copies

(***************************************************************************)
(* The document that is open at the server.                                *)
(***************************************************************************)
Serving == running # NoServer /\ pipe = "open"

\* The server knows the one document that is open, if it can be told anything.
Known ==
  /\ running = NoServer => open = NoPath /\ \A p \in Paths : version[p] = 0
  /\ open # NoPath => sent \in Texts
  /\ ~Serving => channel = <<>>
  /\ Serving => \A p \in Paths : version[p] # 0 <=> p = open

\* How far a key that shows, or changes, a document has been carried through.
Followed ==
  /\ stage # "attach" /\ shown # NoPath /\ pipe = "open" /\ running = language[shown]
       => open = shown
  /\ stage = "idle" /\ ~behind /\ shown # NoPath /\ pipe = "open" /\ open = shown
       => sent = text[shown]

\* The edits lead from one text to the other.
LeadsTo(edits, from, to) ==
  /\ edits # <<>> /\ edits[1].from = from /\ edits[Len(edits)].to = to
  /\ \A i \in 1 .. Len(edits) - 1 : edits[i].to = edits[i + 1].from

\* Unless the open document was given another text unseen, its journal leads from
\* the text last sent to its text, or it is empty: nothing was changed, or all of
\* it is about to be sent.
JournalFits ==
  open # NoPath /\ ~wholeNext /\ ~replaced /\ journal[open] # Lost =>
    \/ journal[open] = <<>>
         /\ (sent = text[open] \/ (stage \in {"attach", "changed"} /\ shown = open))
    \/ LeadsTo(journal[open], sent, text[open])

(***************************************************************************)
(* What the server holds.                                                  *)
(***************************************************************************)
Clean(docs) == \A p \in Paths : docs[p].text # Garbage

\* A request and a save are about what the server has when it reads them.
About(docs, m, all) ==
  (all /\ m.type \in {"request", "didSave"} /\ ~m.stale) =>
     docs[m.path].text \in {m.text, Misread}

\* Reading the messages takes the server from one set of documents to another,
\* with no garbage on the way.
Reads(trail, docs, messages, all) ==
  /\ trail \in [0 .. Len(messages) -> Copies] /\ trail[0] = docs
  /\ \A i \in 1 .. Len(messages) : /\ trail[i] = Receive(trail[i - 1], messages[i])
                                   /\ About(trail[i - 1], messages[i], all)
  /\ \A i \in 0 .. Len(messages) : Clean(trail[i])

Reaches(docs, messages, all, end) ==
  \E trail \in [0 .. Len(messages) -> Copies] :
    Reads(trail, docs, messages, all) /\ trail[Len(messages)] = end

\* It ends with the open document alone, and with the text last sent unless it
\* asked for no changes, or that copy is Misread.
Holds(docs) ==
  \A p \in Paths :
    IF p # open THEN docs[p] = NotOpen
    ELSE /\ docs[p].version # 0
         /\ kind # "none" => docs[p].version = version[p] /\ docs[p].text \in {sent, Misread}

ServerFits ==
  /\ Clean(copy)
  /\ Serving => \E end \in Copies : Reaches(copy, channel, kind # "none", end) /\ Holds(end)

IInv == Types /\ Known /\ Followed /\ JournalFits /\ ServerFits

(***************************************************************************)
(* Lemmas on the functions computed message by message and edit by edit.   *)
(***************************************************************************)
LEMMA LeastOf ==
  ASSUME NEW S, S \subseteq Nat, S # {}
  PROVE  \E n \in S : \A m \in S : n <= m
<1>1. PICK n \in S : \A m \in S : <<m, n>> \notin OpToRel(<, Nat)
  BY NatLessThanWellFounded, WFMin
<1>2. \A m \in S : ~(m < n)
  BY <1>1, Zenon DEF OpToRel
<1> QED BY <1>2

\* Two functions that agree at zero and step alike agree.
StepLike(f, g, n) == \A i \in 1 .. n : f[i - 1] = g[i - 1] => f[i] = g[i]
Alike(f, g, n)    == \A i \in 0 .. n : f[i] = g[i]

LEMMA StepAlike ==
  ASSUME NEW n \in Nat, NEW f, NEW g, f[0] = g[0], StepLike(f, g, n)
  PROVE  Alike(f, g, n)
<1> USE DEF StepLike, Alike
<1> DEFINE S == {i \in 0 .. n : f[i] # g[i]}
<1> SUFFICES ASSUME S # {} PROVE FALSE
  OBVIOUS
<1>1. S \subseteq Nat
  OBVIOUS
<1>2. PICK i \in S : \A j \in S : i <= j
  BY <1>1, LeastOf
<1>3. i \in 1 .. n /\ i - 1 \in 0 .. n /\ i - 1 \notin S
  BY <1>2
<1> QED BY <1>2, <1>3

\* A trail of the server's documents ends with what Drained computes.
LEMMA DrainedIs ==
  ASSUME channel \in Seq(Messages), NEW trail,
         trail \in [0 .. Len(channel) -> Copies], trail[0] = copy,
         \A i \in 1 .. Len(channel) : trail[i] = Receive(trail[i - 1], channel[i])
  PROVE  Drained = trail[Len(channel)]
<1> DEFINE n == Len(channel)
           F(g) == [i \in 0 .. n |-> IF i = 0 THEN copy ELSE Receive(g[i - 1], channel[i])]
           documents == CHOOSE g : g = F(g)
<1>1. n \in Nat
  OBVIOUS
<1>2. trail = F(trail)
  <2>1. \A i \in 0 .. n : i # 0 => i \in 1 .. n
    BY <1>1
  <2>2. \A i \in 0 .. n : trail[i] = F(trail)[i]
    BY <2>1
  <2> QED BY <2>2
<1>3. documents = F(documents)
  BY <1>2
<1>4. /\ documents[0] = copy
      /\ \A i \in 1 .. n : documents[i] = Receive(documents[i - 1], channel[i])
  <2>1. \A i \in 0 .. n : documents[i] = F(documents)[i]
    BY <1>3
  <2> HIDE DEF documents
  <2> QED BY <1>1, <2>1
<1>5. Drained = documents[n]
  BY DEF Drained
<1> HIDE DEF documents, F
<1>6. PICK reading : reading = documents
  OBVIOUS
<1>7. PICK last \in Nat : last = n
  BY <1>1
<1>8. \A i \in 0 .. last : reading[i] = trail[i]
  <2>1. StepLike(reading, trail, last)
    BY <1>4, <1>6, <1>7 DEF StepLike
  <2>2. reading[0] = trail[0]
    BY <1>4, <1>6
  <2>3. last \in Nat
    OBVIOUS
  <2>4. Alike(reading, trail, last)
    BY ONLY <2>1, <2>2, <2>3, StepAlike
  <2> QED BY <2>4 DEF Alike
<1> QED BY <1>1, <1>5, <1>6, <1>7, <1>8

\* Edits that lead from one text to another take a copy of the one to the other.
LEMMA EditedIs ==
  ASSUME NEW edits \in Seq(Change), NEW from, NEW to, LeadsTo(edits, from, to)
  PROVE  Edited(from, edits) = to
<1> DEFINE n == Len(edits)
           F(g) == [i \in 0 .. n |-> IF i = 0 THEN from ELSE Apply(g[i - 1], edits[i])]
           left == CHOOSE g : g = F(g)
           trail == [i \in 0 .. n |-> IF i = 0 THEN from ELSE edits[i].to]
<1>1. n \in Nat /\ n # 0
  BY DEF LeadsTo
<1>2. \A i \in 1 .. n : edits[i].from = trail[i - 1]
  <2> TAKE i \in 1 .. n
  <2>1. CASE i = 1
    BY <1>1, <2>1 DEF LeadsTo
  <2>2. CASE i # 1
    <3>1. i - 1 \in 1 .. n - 1 /\ i - 1 + 1 = i /\ i - 1 \in 0 .. n /\ i - 1 # 0
      BY <1>1, <2>2
    <3>2. edits[i - 1].to = edits[i].from
      BY <3>1 DEF LeadsTo
    <3> QED BY <3>1, <3>2
  <2> QED BY <2>1, <2>2
<1>3. trail = F(trail)
  <2>1. \A i \in 1 .. n : trail[i] = Apply(trail[i - 1], edits[i])
    BY <1>1, <1>2 DEF Apply
  <2>2. \A i \in 0 .. n : trail[i] = F(trail)[i]
    <3>1. \A i \in 0 .. n : i # 0 => i \in 1 .. n
      BY <1>1
    <3>2. trail[0] = from
      BY <1>1
    <3> HIDE DEF trail
    <3> QED BY <2>1, <3>1, <3>2
  <2>3. F(trail) = [i \in 0 .. n |-> F(trail)[i]]
    OBVIOUS
  <2> QED BY <2>2, <2>3
<1>4. left = F(left)
  BY <1>3
<1>5. /\ left[0] = from
      /\ \A i \in 1 .. n : left[i] = Apply(left[i - 1], edits[i])
  <2>1. \A i \in 0 .. n : left[i] = F(left)[i]
    BY <1>4
  <2> HIDE DEF left
  <2> QED BY <1>1, <2>1
<1>6. Edited(from, edits) = left[n]
  BY DEF Edited
<1>7. trail[0] = from /\ trail[n] = to /\ \A i \in 1 .. n : trail[i] = Apply(trail[i - 1], edits[i])
  BY <1>1, <1>2 DEF Apply, LeadsTo
<1> HIDE DEF left, F, trail
<1>8. \A i \in 0 .. n : left[i] = trail[i]
  <2>1. StepLike(left, trail, n)
    BY <1>5, <1>7 DEF StepLike
  <2>2. left[0] = trail[0]
    BY <1>5, <1>7
  <2>3. n \in Nat
    BY <1>1
  <2> HIDE DEF n
  <2>4. Alike(left, trail, n)
    BY ONLY <2>1, <2>2, <2>3, StepAlike
  <2> QED BY <2>4 DEF Alike
<1> QED BY <1>1, <1>6, <1>7, <1>8

(***************************************************************************)
(* What the server does with a message it is right to be sent.             *)
(***************************************************************************)
Put(docs, p, v, t) == [docs EXCEPT ![p] = [version |-> v, text |-> t]]

LEMMA PutIs ==
  ASSUME NEW docs \in Copies, NEW p \in Paths, NEW v \in Nat, NEW t \in Contents
  PROVE  /\ Put(docs, p, v, t) \in Copies
         /\ Put(docs, p, v, t)[p] = [version |-> v, text |-> t]
         /\ \A q \in Paths : q # p => Put(docs, p, v, t)[q] = docs[q]
         /\ Clean(docs) /\ t # Garbage => Clean(Put(docs, p, v, t))
BY DEF Put, Copies, Clean

LEMMA ReadsOpen ==
  ASSUME NEW docs \in Copies, NEW m \in Messages, m.type = "didOpen",
         docs[m.path] = NotOpen
  PROVE  Receive(docs, m) = Put(docs, m.path, m.version, m.text)
<1> DEFINE F(x) == [version |-> m.version, text |-> IF x = NotOpen THEN m.text ELSE Garbage]
<1>1. Receive(docs, m) = [docs EXCEPT ![m.path] = F(docs[m.path])]
  BY DEF Receive
<1>2. F(docs[m.path]) = [version |-> m.version, text |-> m.text]
  OBVIOUS
<1> QED BY <1>1, <1>2 DEF Put

LEMMA ReadsClose ==
  ASSUME NEW docs \in Copies, NEW m \in Messages, m.type = "didClose",
         docs[m.path].version # 0
  PROVE  Receive(docs, m) = Put(docs, m.path, 0, NoText)
<1> DEFINE F(x) == IF x = NotOpen THEN [version |-> 0, text |-> Garbage] ELSE NotOpen
<1>1. Receive(docs, m) = [docs EXCEPT ![m.path] = F(docs[m.path])]
  BY DEF Receive
<1>2. F(docs[m.path]) = [version |-> 0, text |-> NoText]
  BY DEF NotOpen
<1> QED BY <1>1, <1>2 DEF Put

LEMMA ReadsChange ==
  ASSUME NEW docs \in Copies, NEW m \in Messages, m.type = "didChange",
         docs[m.path].version # 0, docs[m.path].version < m.version,
         \/ m.changes = <<>> \/ m.replaced \/ docs[m.path].text = Misread
         \/ LeadsTo(m.changes, docs[m.path].text, m.text)
  PROVE  \E t \in {m.text, Misread} :
           Receive(docs, m) = Put(docs, m.path, m.version, t)
<1> DEFINE F(x) == [version |-> m.version, text |-> Changed(x, m)]
<1>1. Receive(docs, m) = [docs EXCEPT ![m.path] = F(docs[m.path])]
  BY DEF Receive
<1>2. Changed(docs[m.path], m) \in {m.text, Misread}
  <2>1. docs[m.path] # NotOpen
    BY DEF NotOpen
  <2>2. ~(m.version <= docs[m.path].version)
    BY DEF Messages, Copies
  <2>3. LeadsTo(m.changes, docs[m.path].text, m.text) => Edited(docs[m.path].text, m.changes) = m.text
    BY EditedIs DEF Messages
  <2> QED BY <2>1, <2>2, <2>3 DEF Changed
<1> QED BY <1>1, <1>2 DEF Put

LEMMA ReadsOther ==
  ASSUME NEW docs, NEW m, m.type \in {"didSave", "request", "completion"}
  PROVE  Receive(docs, m) = docs
BY DEF Receive

(***************************************************************************)
(* What the server reaches, one message later and one message earlier.     *)
(***************************************************************************)
LEMMA ReachesNone ==
  ASSUME NEW docs \in Copies, NEW all \in BOOLEAN, Clean(docs)
  PROVE  Reaches(docs, <<>>, all, docs)
<1> DEFINE trail == [i \in 0 .. 0 |-> docs]
<1>1. /\ trail \in [0 .. Len(<<>>) -> Copies] /\ trail[0] = docs
      /\ trail[Len(<<>>)] = docs
      /\ \A i \in 0 .. Len(<<>>) : trail[i] = docs
      /\ 1 .. Len(<<>>) = {}
  OBVIOUS
<1> HIDE DEF trail
<1>2. Reads(trail, docs, <<>>, all)
  BY <1>1 DEF Reads
<1> QED BY <1>1, <1>2 DEF Reaches

LEMMA ReachesMore ==
  ASSUME NEW docs, NEW messages \in Seq(Messages), NEW all \in BOOLEAN, NEW end,
         Reaches(docs, messages, all, end), NEW m \in Messages,
         Receive(end, m) \in Copies, Clean(Receive(end, m)), About(end, m, all)
  PROVE  Reaches(docs, Append(messages, m), all, Receive(end, m))
<1> DEFINE n == Len(messages)
           more == Append(messages, m)
<1>1. /\ n \in Nat /\ Len(more) = n + 1 /\ more[n + 1] = m
      /\ \A i \in 1 .. n : more[i] = messages[i]
  OBVIOUS
<1>2. PICK trail \in [0 .. n -> Copies] : Reads(trail, docs, messages, all) /\ trail[n] = end
  BY DEF Reaches
<1>3. /\ trail[0] = docs
      /\ \A i \in 1 .. n : trail[i] = Receive(trail[i - 1], messages[i])
      /\ \A i \in 1 .. n : About(trail[i - 1], messages[i], all)
      /\ \A i \in 0 .. n : Clean(trail[i])
  BY <1>2 DEF Reads
<1> DEFINE longer == [i \in 0 .. n + 1 |-> IF i = n + 1 THEN Receive(end, m) ELSE trail[i]]
<1> HIDE DEF more
<1>4. /\ longer \in [0 .. n + 1 -> Copies]
      /\ longer[n + 1] = Receive(end, m)
      /\ \A i \in 0 .. n : longer[i] = trail[i]
  BY <1>1, <1>2
<1> HIDE DEF longer, n
<1>5. longer[0] = docs
  BY <1>1, <1>3, <1>4
<1>6. ASSUME NEW i \in 1 .. n + 1
      PROVE  longer[i] = Receive(longer[i - 1], more[i]) /\ About(longer[i - 1], more[i], all)
  <2>1. CASE i = n + 1
    <3>1. i - 1 = n /\ n \in 0 .. n
      BY <1>1, <2>1
    <3>2. longer[i - 1] = end
      BY <1>2, <1>4, <3>1
    <3> QED BY <1>1, <1>4, <2>1, <3>2
  <2>2. CASE i # n + 1
    <3>1. i \in 1 .. n /\ i \in 0 .. n /\ i - 1 \in 0 .. n
      BY <1>1, <2>2
    <3> QED BY <1>1, <1>3, <1>4, <3>1
  <2> QED BY <2>1, <2>2
<1>7. ASSUME NEW i \in 0 .. n + 1
      PROVE  Clean(longer[i])
  BY <1>1, <1>3, <1>4
<1>8. Reads(longer, docs, more, all)
  BY <1>1, <1>4, <1>5, <1>6, <1>7 DEF Reads
<1>9. Reaches(docs, more, all, Receive(end, m))
  BY <1>1, <1>4, <1>8 DEF Reaches
<1> QED BY <1>9 DEF more

LEMMA ReachesOn ==
  ASSUME NEW docs, NEW messages \in Seq(Messages), messages # <<>>,
         NEW all \in BOOLEAN, NEW end, Reaches(docs, messages, all, end)
  PROVE  /\ About(docs, Head(messages), all)
         /\ Receive(docs, Head(messages)) \in Copies
         /\ Clean(Receive(docs, Head(messages)))
         /\ Reaches(Receive(docs, Head(messages)), Tail(messages), all, end)
<1> DEFINE n == Len(messages)
           rest == Tail(messages)
<1>1. /\ n \in Nat /\ n # 0 /\ Len(rest) = n - 1 /\ Head(messages) = messages[1]
      /\ \A i \in 1 .. n - 1 : rest[i] = messages[i + 1]
  OBVIOUS
<1>2. PICK trail \in [0 .. n -> Copies] : Reads(trail, docs, messages, all) /\ trail[n] = end
  BY DEF Reaches
<1>3. /\ trail[0] = docs
      /\ \A i \in 1 .. n : trail[i] = Receive(trail[i - 1], messages[i])
      /\ \A i \in 1 .. n : About(trail[i - 1], messages[i], all)
      /\ \A i \in 0 .. n : Clean(trail[i])
  BY <1>2 DEF Reads
<1> DEFINE shorter == [i \in 0 .. n - 1 |-> trail[i + 1]]
<1> HIDE DEF rest
<1>4. 1 \in 1 .. n /\ 1 \in 0 .. n /\ 0 \in 0 .. n - 1
  BY <1>1
<1>5. /\ shorter \in [0 .. n - 1 -> Copies]
      /\ \A i \in 0 .. n - 1 : shorter[i] = trail[i + 1]
  BY <1>1, <1>2
<1> HIDE DEF shorter, n
<1>6. trail[1] = Receive(docs, Head(messages)) /\ About(docs, Head(messages), all)
  BY <1>1, <1>3, <1>4
<1>7. trail[1] \in Copies /\ Clean(trail[1]) /\ shorter[0] = trail[1]
  BY <1>2, <1>3, <1>4, <1>5
<1>8. shorter[n - 1] = end
  BY <1>1, <1>2, <1>5
<1>9. ASSUME NEW i \in 1 .. n - 1
      PROVE  shorter[i] = Receive(shorter[i - 1], rest[i]) /\ About(shorter[i - 1], rest[i], all)
  <2>1. /\ i + 1 \in 1 .. n /\ i \in 0 .. n - 1 /\ i - 1 \in 0 .. n - 1
        /\ (i - 1) + 1 = i /\ (i + 1) - 1 = i
    BY <1>1
  <2> QED BY <1>1, <1>3, <1>5, <2>1
<1>10. ASSUME NEW i \in 0 .. n - 1
       PROVE  Clean(shorter[i])
  BY <1>1, <1>3, <1>5
<1>11. Reads(shorter, trail[1], rest, all)
  BY <1>1, <1>5, <1>7, <1>9, <1>10 DEF Reads
<1>12. Reaches(trail[1], rest, all, end)
  BY <1>1, <1>5, <1>8, <1>11 DEF Reaches
<1> QED BY <1>6, <1>7, <1>12 DEF rest

\* Where the server gets by reading everything is what Drained computes.
LEMMA ReachesDrained ==
  ASSUME channel \in Seq(Messages), NEW all, NEW end, Reaches(copy, channel, all, end)
  PROVE  Drained = end
BY DrainedIs DEF Reaches, Reads

(***************************************************************************)
(* The invariant at the start, and the steps that tell the server nothing. *)
(***************************************************************************)
LEMMA FirstState == Init => IInv
<1> SUFFICES ASSUME Init PROVE IInv
  OBVIOUS
<1> USE DEF Init
<1>1. Types
  <2>1. text \in [Paths -> Texts] /\ language \in [Paths -> Languages \cup {NoLanguage}]
    OBVIOUS
  <2>2. /\ journal \in [Paths -> Journals]
        /\ \A p \in Paths : journal[p] # Lost => Len(journal[p]) <= MaxJournal
    BY SyncAssumption DEF Journals
  <2>3. version \in [Paths -> 0 .. (MaxVersion + 1)]
    BY SyncAssumption
  <2>4. channel \in Seq(Messages) /\ copy \in Copies
    BY DEF Copies, Contents, NotOpen
  <2> QED BY <2>1, <2>2, <2>3, <2>4 DEF Types, Stages
<1>2. Known
  BY DEF Known, Serving
<1>3. Followed /\ JournalFits
  BY SyncAssumption DEF Followed, JournalFits
<1>4. ServerFits
  BY DEF ServerFits, Clean, NotOpen, NoText, Garbage, Serving
<1> QED BY <1>1, <1>2, <1>3, <1>4 DEF IInv

LEMMA ServerKeeps ==
  ASSUME IInv, UNCHANGED <<lspVars, serverVars>>
  PROVE  Known' /\ ServerFits'
<1>1. UNCHANGED <<running, open, sent, wholeNext, version, kind, pipe, channel, copy>>
  BY DEF lspVars, serverVars
<1>2. Known'
  BY <1>1 DEF IInv, Known, Serving
<1>3. ServerFits'
  BY <1>1 DEF IInv, ServerFits, Serving, Holds
<1> QED BY <1>2, <1>3

\* An edit that enters a journal extends it, from the text it was made to.
LEMMA RecordedIs ==
  ASSUME Types, NEW p \in Paths, NEW t \in Texts
  PROVE  /\ Recorded(p, t) \in Journals
         /\ Recorded(p, t) # Lost =>
              /\ journal[p] # Lost /\ journal[p] \in Seq(Change)
              /\ Recorded(p, t) = Append(journal[p], [from |-> text[p], to |-> t])
              /\ Len(Recorded(p, t)) <= MaxJournal
<1>1. journal[p] \in Journals /\ text[p] \in Texts /\ MaxJournal \in Nat
  BY SyncAssumption DEF Types
<1>2. CASE journal[p] = Lost \/ Len(journal[p]) >= MaxJournal
  BY <1>2 DEF Recorded, Journals
<1>3. CASE ~(journal[p] = Lost \/ Len(journal[p]) >= MaxJournal)
  <2>1. journal[p] \in Seq(Change) /\ [from |-> text[p], to |-> t] \in Change
    BY <1>1, <1>3 DEF Journals, Change
  <2>2. Recorded(p, t) = Append(journal[p], [from |-> text[p], to |-> t])
    BY <1>3 DEF Recorded
  <2>3. /\ Append(journal[p], [from |-> text[p], to |-> t]) \in Seq(Change)
        /\ Len(Append(journal[p], [from |-> text[p], to |-> t])) = Len(journal[p]) + 1
    BY <2>1
  <2>4. Len(journal[p]) + 1 <= MaxJournal
    BY <1>1, <1>3, <2>1
  <2> QED BY <1>3, <2>1, <2>2, <2>3, <2>4 DEF Journals
<1> QED BY <1>2, <1>3

LEMMA LeadsOn ==
  ASSUME NEW edits \in Seq(Change), NEW from, NEW mid, NEW to \in Texts, mid \in Texts,
         \/ (edits = <<>> /\ from = mid)
         \/ LeadsTo(edits, from, mid)
  PROVE  LeadsTo(Append(edits, [from |-> mid, to |-> to]), from, to)
<1> DEFINE n == Len(edits)
           more == Append(edits, [from |-> mid, to |-> to])
<1>1. /\ n \in Nat /\ Len(more) = n + 1 /\ more[n + 1] = [from |-> mid, to |-> to]
      /\ \A i \in 1 .. n : more[i] = edits[i]
      /\ more # <<>>
  OBVIOUS
<1>2. more[n + 1].from = mid /\ more[n + 1].to = to
  BY <1>1
<1>3. CASE edits = <<>> /\ from = mid
  BY <1>1, <1>2, <1>3 DEF LeadsTo
<1>4. CASE edits # <<>> /\ LeadsTo(edits, from, mid)
  <2>1. n # 0
    BY <1>4
  <2>2. /\ edits[1].from = from /\ edits[n].to = mid
        /\ \A i \in 1 .. n - 1 : edits[i].to = edits[i + 1].from
    BY <1>4 DEF LeadsTo
  <2> HIDE DEF more, n
  <2>3. more[1].from = from
    BY <1>1, <2>1, <2>2
  <2>4. ASSUME NEW i \in 1 .. n
        PROVE  more[i].to = more[i + 1].from
    <3>1. CASE i = n
      BY <1>1, <1>2, <2>1, <2>2, <3>1
    <3>2. CASE i # n
      <4>1. i \in 1 .. n - 1 /\ i + 1 \in 1 .. n
        BY <1>1, <3>2
      <4> QED BY <1>1, <2>2, <4>1
    <3> QED BY <3>1, <3>2
  <2>5. LeadsTo(more, from, to)
    BY <1>1, <1>2, <2>3, <2>4 DEF LeadsTo
  <2> QED BY <2>5 DEF more
<1> QED BY <1>3, <1>4 DEF LeadsTo

\* The journal of the open document still fits after an edit made between keys.
LEMMA RecordedFits ==
  ASSUME IInv, stage = "idle", open # NoPath, ~wholeNext, ~replaced, NEW t \in Texts,
         Recorded(open, t) # Lost
  PROVE  LeadsTo(Recorded(open, t), sent, t)
<1>1. Types /\ JournalFits /\ open \in Paths /\ text[open] \in Texts
  BY DEF IInv, Types
<1>2. /\ journal[open] # Lost /\ journal[open] \in Seq(Change)
      /\ Recorded(open, t) = Append(journal[open], [from |-> text[open], to |-> t])
  BY <1>1, RecordedIs
<1>3. (journal[open] = <<>> /\ sent = text[open]) \/ LeadsTo(journal[open], sent, text[open])
  BY <1>1, <1>2 DEF JournalFits
<1> QED BY <1>1, <1>2, <1>3, LeadsOn

\* A step that records an edit of a document leaves its journal fitting.
LEMMA Recording ==
  ASSUME IInv, stage = "idle", NEW p \in Paths, NEW t \in Texts,
         text' = [text EXCEPT ![p] = t],
         journal' = [journal EXCEPT ![p] = Recorded(p, t)],
         UNCHANGED <<lspVars, replaced>>
  PROVE  /\ text' \in [Paths -> Texts] /\ journal' \in [Paths -> Journals]
         /\ \A q \in Paths : journal'[q] # Lost => Len(journal'[q]) <= MaxJournal
         /\ JournalFits'
<1>1. Types /\ JournalFits
  BY DEF IInv
<1>2. Recorded(p, t) \in Journals /\ (Recorded(p, t) # Lost => Len(Recorded(p, t)) <= MaxJournal)
  BY <1>1, RecordedIs
<1>3. /\ text' \in [Paths -> Texts] /\ journal' \in [Paths -> Journals]
      /\ \A q \in Paths : journal'[q] # Lost => Len(journal'[q]) <= MaxJournal
  BY <1>1, <1>2 DEF Types
<1>4. JournalFits'
  <2> SUFFICES ASSUME open # NoPath, ~wholeNext, ~replaced, journal'[open] # Lost
               PROVE  LeadsTo(journal'[open], sent, text'[open])
                      \/ (journal'[open] = <<>> /\ sent = text'[open])
    BY DEF JournalFits, lspVars
  <2>1. open \in Paths
    BY <1>1 DEF Types
  <2>2. CASE open = p
    <3>1. journal'[open] = Recorded(open, t) /\ text'[open] = t
      BY <1>1, <2>1, <2>2 DEF Types
    <3> QED BY <3>1, RecordedFits
  <2>3. CASE open # p
    <3>1. journal'[open] = journal[open] /\ text'[open] = text[open]
      BY <1>1, <2>1, <2>3 DEF Types
    <3> QED BY <1>1, <3>1, <2>3 DEF JournalFits
  <2> QED BY <2>2, <2>3
<1> QED BY <1>3, <1>4

LEMMA EditStep ==
  ASSUME IInv, NEW t \in Texts, Edit(t)
  PROVE  IInv'
<1> USE DEF Edit, KeyArrives
<1>1. Types /\ shown \in Paths
  BY DEF IInv, Types
<1>2. Known' /\ ServerFits'
  BY ServerKeeps
<1>3. /\ text' \in [Paths -> Texts] /\ journal' \in [Paths -> Journals]
      /\ \A q \in Paths : journal'[q] # Lost => Len(journal'[q]) <= MaxJournal
      /\ JournalFits'
  BY <1>1, Recording DEF histories
<1>4. Types'
  <2>1. \A q \in Paths : version[q] <= MaxVersion
    BY <1>1, SyncAssumption DEF Types
  <2> QED BY <1>1, <1>3, <2>1 DEF Types, Stages, lspVars, serverVars, histories
<1>5. Followed'
  BY DEF IInv, Followed, lspVars, histories, serverVars
<1> QED BY <1>2, <1>3, <1>4, <1>5 DEF IInv

LEMMA UndoStep ==
  ASSUME IInv, NEW t \in Texts, Undo(t)
  PROVE  IInv'
<1> USE DEF Undo, KeyArrives
<1>1. Types /\ JournalFits /\ shown \in Paths
  BY DEF IInv, Types
<1>2. Known' /\ ServerFits'
  BY ServerKeeps
<1>3. Types'
  <2>1. /\ journal' \in [Paths -> Journals]
        /\ \A p \in Paths : journal'[p] # Lost => Len(journal'[p]) <= MaxJournal
    BY <1>1 DEF Types, Journals
  <2>2. text' \in [Paths -> Texts]
    BY <1>1 DEF Types
  <2>3. \A p \in Paths : version[p] <= MaxVersion
    BY <1>1, SyncAssumption DEF Types
  <2> QED BY <1>1, <2>1, <2>2, <2>3 DEF Types, Stages, lspVars, serverVars, histories
<1>4. Followed'
  BY DEF IInv, Followed, lspVars, histories, serverVars
<1>5. JournalFits'
  <2>1. journal'[shown] = Lost
    BY <1>1 DEF Types
  <2>2. open # NoPath /\ open # shown => journal'[open] = journal[open] /\ text'[open] = text[open]
    BY <1>1 DEF Types
  <2> QED BY <1>1, <2>1, <2>2 DEF JournalFits, lspVars, histories
<1> QED BY <1>2, <1>3, <1>4, <1>5 DEF IInv

LEMMA SwitchStep ==
  ASSUME IInv, NEW p \in Paths \cup {NoPath}, Switch(p)
  PROVE  IInv'
<1> USE DEF Switch, KeyArrives
<1>1. Known' /\ ServerFits'
  BY ServerKeeps
<1>2. Types'
  <2>1. \A q \in Paths : version[q] <= MaxVersion
    BY SyncAssumption DEF IInv, Types
  <2> QED BY <2>1 DEF IInv, Types, Stages, lspVars, serverVars, histories
<1>3. Followed' /\ JournalFits'
  BY DEF IInv, Followed, JournalFits, lspVars, histories, serverVars
<1> QED BY <1>1, <1>2, <1>3 DEF IInv

LEMMA LanguageStep ==
  ASSUME IInv, NEW l \in Languages \cup {NoLanguage}, SetLanguage(l)
  PROVE  IInv'
<1> USE DEF SetLanguage, KeyArrives
<1>1. Known' /\ ServerFits'
  BY ServerKeeps
<1>2. Types'
  <2>1. \A q \in Paths : version[q] <= MaxVersion
    BY SyncAssumption DEF IInv, Types
  <2>2. language' \in [Paths -> Languages \cup {NoLanguage}]
    BY DEF IInv, Types
  <2> QED BY <2>1, <2>2 DEF IInv, Types, Stages, lspVars, serverVars, histories
<1>3. Followed' /\ JournalFits'
  BY DEF IInv, Followed, JournalFits, lspVars, histories, serverVars
<1> QED BY <1>1, <1>2, <1>3 DEF IInv

LEMMA ReopenStep ==
  ASSUME IInv, NEW p \in Paths, NEW t \in Texts, Reopen(p, t)
  PROVE  IInv'
<1> USE DEF Reopen, KeyArrives
<1>1. Types /\ JournalFits
  BY DEF IInv
<1>2. Known' /\ ServerFits'
  BY ServerKeeps
<1>3. Types'
  <2>1. /\ journal' \in [Paths -> Journals]
        /\ \A q \in Paths : journal'[q] # Lost => Len(journal'[q]) <= MaxJournal
    BY <1>1, SyncAssumption DEF Types, Journals
  <2>2. text' \in [Paths -> Texts] /\ language' \in [Paths -> Languages \cup {NoLanguage}]
    BY <1>1 DEF Types
  <2>3. \A q \in Paths : version[q] <= MaxVersion
    BY <1>1, SyncAssumption DEF Types
  <2> QED BY <1>1, <2>1, <2>2, <2>3 DEF Types, Stages, lspVars, serverVars, histories
<1>4. Followed'
  BY DEF IInv, Followed, lspVars, histories, serverVars
<1>5. JournalFits'
  <2>1. journal'[p] = <<>>
    BY <1>1 DEF Types
  <2>2. open # NoPath /\ open # p => journal'[open] = journal[open] /\ text'[open] = text[open]
    BY <1>1 DEF Types
  <2> QED BY <1>1, <2>1, <2>2 DEF JournalFits, lspVars, histories
<1> QED BY <1>2, <1>3, <1>4, <1>5 DEF IInv

\* When the document the server has open is replaced while it is not shown, its
\* journal says nothing of the text last sent.
LEMMA ReloadStep ==
  ASSUME IInv, NEW p \in Paths, NEW t \in Texts, Reload(p, t)
  PROVE  IInv'
<1> USE DEF Reload, KeyArrives
<1>1. Types /\ JournalFits
  BY DEF IInv
<1>2. Known' /\ ServerFits'
  BY ServerKeeps
<1>3. Types'
  <2>1. /\ journal' \in [Paths -> Journals]
        /\ \A q \in Paths : journal'[q] # Lost => Len(journal'[q]) <= MaxJournal
    BY <1>1, SyncAssumption DEF Types, Journals
  <2>2. text' \in [Paths -> Texts]
    BY <1>1 DEF Types
  <2>3. \A q \in Paths : version[q] <= MaxVersion
    BY <1>1, SyncAssumption DEF Types
  <2> QED BY <1>1, <2>1, <2>2, <2>3 DEF Types, Stages, lspVars, serverVars, histories
<1>4. Followed'
  BY DEF IInv, Followed, lspVars, histories, serverVars
<1>5. JournalFits'
  <2>1. journal'[p] = <<>> /\ (p = open /\ ~replaced' => p = shown) /\ (replaced => replaced')
    BY <1>1 DEF Types
  <2>2. open # NoPath /\ open # p => journal'[open] = journal[open] /\ text'[open] = text[open]
    BY <1>1 DEF Types
  <2> QED BY <1>1, <2>1, <2>2 DEF JournalFits, lspVars, histories
<1> QED BY <1>2, <1>3, <1>4, <1>5 DEF IInv

LEMMA AnswerStep ==
  ASSUME IInv, NEW t \in Texts, AnswerEdits(t)
  PROVE  IInv'
<1> USE DEF AnswerEdits, KeyArrives
<1>1. Types /\ shown \in Paths
  BY DEF IInv, Types
<1>2. Known' /\ ServerFits'
  BY ServerKeeps
<1>3. /\ text' \in [Paths -> Texts] /\ journal' \in [Paths -> Journals]
      /\ \A q \in Paths : journal'[q] # Lost => Len(journal'[q]) <= MaxJournal
      /\ JournalFits'
  BY <1>1, Recording DEF histories
<1>4. Types'
  BY <1>1, <1>3 DEF Types, Stages, lspVars, serverVars, histories
<1>5. Followed'
  BY DEF IInv, Followed, lspVars, histories, serverVars
<1> QED BY <1>2, <1>3, <1>4, <1>5 DEF IInv

LEMMA PollStep ==
  ASSUME IInv, NEW p \in Paths, NEW t \in Texts, PollEdits(p, t)
  PROVE  IInv'
<1> USE DEF PollEdits, KeyArrives
<1>1. Types /\ p \in Paths
  BY DEF IInv, Types
<1>2. Known' /\ ServerFits'
  BY ServerKeeps
<1>3. /\ text' \in [Paths -> Texts] /\ journal' \in [Paths -> Journals]
      /\ \A q \in Paths : journal'[q] # Lost => Len(journal'[q]) <= MaxJournal
      /\ JournalFits'
  BY <1>1, Recording DEF histories
<1>4. Types'
  <2>1. \A q \in Paths : version[q] <= MaxVersion
    BY <1>1, SyncAssumption DEF Types
  <2> QED BY <1>1, <1>3, <2>1 DEF Types, Stages, lspVars, serverVars, histories
<1>5. Followed'
  BY DEF IInv, Followed, lspVars, histories, serverVars
<1> QED BY <1>2, <1>3, <1>4, <1>5 DEF IInv

LEMMA TypedStep ==
  ASSUME IInv, TypedNothing
  PROVE  IInv'
<1> USE DEF TypedNothing
<1>1. Known' /\ ServerFits'
  BY ServerKeeps
<1>2. Types' /\ Followed' /\ JournalFits'
  BY DEF IInv, Types, Followed, JournalFits, Stages, docVars, lspVars, histories, serverVars
<1> QED BY <1>1, <1>2 DEF IInv

LEMMA AttachNothingStep ==
  ASSUME IInv, AttachNothing
  PROVE  IInv'
<1> USE DEF AttachNothing
<1>1. Known' /\ ServerFits'
  BY ServerKeeps
<1>2. Types'
  BY DEF IInv, Types, Stages, docVars, lspVars, serverVars, histories
<1>3. Followed'
  <2>1. running # NoLanguage
    BY SyncAssumption DEF IInv, Types, NoLanguage, NoServer
  <2> QED BY <2>1 DEF IInv, Followed, docVars, lspVars, histories, serverVars
<1>4. JournalFits'
  BY DEF IInv, JournalFits, docVars, lspVars, histories
<1> QED BY <1>1, <1>2, <1>3, <1>4 DEF IInv

(***************************************************************************)
(* The steps that write to the server.                                     *)
(***************************************************************************)
\* A request or a save leaves the server where it was, and is about what it
\* has there.
LEMMA Telling ==
  ASSUME IInv, NEW type \in {"request", "didSave", "completion"}, Tell(type),
         type # "completion" => stage = "idle",
         UNCHANGED <<docVars, lspVars, pipe, copy, histories>>
  PROVE  channel' \in Seq(Messages) /\ Known' /\ ServerFits'
<1> DEFINE m == Message(type, shown, 0, <<>>, text[shown])
<1>1. UNCHANGED <<running, open, sent, wholeNext, version, kind, pipe, copy>>
  BY DEF lspVars, histories
<1>2. Types /\ Known /\ Followed /\ ServerFits
  BY DEF IInv
<1>3. shown \in Paths /\ running # NoServer /\ version[shown] # 0 /\ channel' = Written(<<m>>)
  BY <1>2 DEF Tell, Types
<1>4. CASE pipe = "open"
  <2>1. Serving /\ open = shown /\ open # NoPath
    BY <1>2, <1>3, <1>4, SyncAssumption DEF Serving, Known
  <2>2. m \in Messages
    BY <1>2, <1>3 DEF Message, Messages, Types, Kinds
  <2>3. channel' = Append(channel, m) /\ channel' \in Seq(Messages)
    <3>1. channel \in Seq(Messages)
      BY <1>2 DEF Types
    <3> HIDE DEF m
    <3> QED BY <1>3, <1>4, <2>2, <3>1 DEF Written
  <2>4. PICK end \in Copies : Reaches(copy, channel, kind # "none", end) /\ Holds(end)
    BY <1>2, <2>1 DEF ServerFits
  <2>5. Receive(end, m) = end
    BY ReadsOther DEF Message
  <2>6. About(end, m, kind # "none")
    <3> SUFFICES ASSUME kind # "none", type \in {"request", "didSave"}, ~behind
                 PROVE  end[shown].text \in {text[shown], Misread}
      BY DEF About, Message
    <3>1. end[shown].text \in {sent, Misread}
      BY <1>3, <2>1, <2>4 DEF Holds
    <3>2. sent = text[shown]
      BY <1>2, <1>4, <2>1 DEF Followed
    <3> QED BY <3>1, <3>2
  <2>7. \A p \in Paths : end[p].text # Garbage
    BY <1>3, <2>4 DEF Reaches, Reads, Clean, Types
  <2>8. Reaches(copy, channel', kind # "none", end)
    <3>1. channel \in Seq(Messages) /\ (kind # "none") \in BOOLEAN /\ Clean(end)
      BY <1>2, <2>7 DEF Types, Clean
    <3> HIDE DEF m
    <3> QED BY <2>2, <2>3, <2>4, <2>5, <2>6, <3>1, ReachesMore
  <2>9. Known'
    BY <1>1, <1>2, <2>1 DEF Known, Serving
  <2>10. ServerFits'
    BY <1>1, <1>2, <2>4, <2>8 DEF ServerFits, Holds
  <2> QED BY <2>3, <2>9, <2>10
<1>5. CASE pipe # "open"
  <2>1. channel' = channel /\ ~Serving /\ ~Serving'
    BY <1>1, <1>3, <1>5 DEF Written, Serving
  <2> QED BY <1>1, <1>2, <2>1 DEF Known, ServerFits, Types
<1> QED BY <1>4, <1>5

LEMMA AskStep ==
  ASSUME IInv, Ask \/ Save
  PROVE  IInv'
<1> USE DEF Ask, Save, KeyArrives
<1>1. channel' \in Seq(Messages) /\ Known' /\ ServerFits'
  BY Telling
<1>2. Types'
  <2>1. \A q \in Paths : version[q] <= MaxVersion
    BY SyncAssumption DEF IInv, Types
  <2> QED BY <1>1, <2>1 DEF IInv, Types, Stages, docVars, lspVars, histories
<1>3. Followed' /\ JournalFits'
  BY DEF IInv, Followed, JournalFits, docVars, lspVars, histories
<1> QED BY <1>1, <1>2, <1>3 DEF IInv

LEMMA TriggerStep ==
  ASSUME IInv, TriggerCompletion
  PROVE  IInv'
<1> USE DEF TriggerCompletion
<1>1. channel' \in Seq(Messages) /\ Known' /\ ServerFits'
  BY Telling
<1>2. Types'
  BY <1>1 DEF IInv, Types, Stages, docVars, lspVars, histories
<1>3. Followed' /\ JournalFits'
  BY DEF IInv, Followed, JournalFits, docVars, lspVars, histories
<1> QED BY <1>1, <1>2, <1>3 DEF IInv

LEMMA AutoSaveStep ==
  ASSUME IInv, AutoSave
  PROVE  IInv'
<1> USE DEF AutoSave, KeyArrives
<1>1. channel' \in Seq(Messages) /\ Known' /\ ServerFits'
  BY Telling
<1>2. Types'
  BY <1>1 DEF IInv, Types, Stages, docVars, lspVars, histories
<1>3. Followed' /\ JournalFits'
  BY DEF IInv, Followed, JournalFits, docVars, lspVars, histories
<1> QED BY <1>1, <1>2, <1>3 DEF IInv

\* What the server has read after one message more about a document.
LEMMA ReachesPut ==
  ASSUME NEW docs, NEW messages \in Seq(Messages), NEW all \in BOOLEAN, NEW end \in Copies,
         Reaches(docs, messages, all, end), NEW m \in Messages,
         m.type \in {"didOpen", "didClose", "didChange"},
         NEW v \in Nat, NEW t \in Texts \cup {NoText, Misread},
         Receive(end, m) = Put(end, m.path, v, t)
  PROVE  /\ Put(end, m.path, v, t) \in Copies
         /\ Append(messages, m) \in Seq(Messages)
         /\ Reaches(docs, Append(messages, m), all, Put(end, m.path, v, t))
<1>1. Clean(end)
  BY DEF Reaches, Reads
<1>2. m.path \in Paths /\ t \in Contents /\ t # Garbage
  BY SyncAssumption DEF Messages, Contents, NoText, Garbage, Misread
<1>3. Put(end, m.path, v, t) \in Copies /\ Clean(Put(end, m.path, v, t))
  BY <1>1, <1>2, PutIs
<1>4. About(end, m, all)
  BY DEF About
<1> QED BY <1>3, <1>4, ReachesMore

LEMMA TwoMore ==
  ASSUME NEW S, NEW s \in Seq(S), NEW x \in S, NEW y \in S
  PROVE  s \o (<<x>> \o <<y>>) = Append(Append(s, x), y)
<1>1. <<x>> \in Seq(S) /\ <<y>> \in Seq(S)
  OBVIOUS
<1>2. s \o (<<x>> \o <<y>>) = (s \o <<x>>) \o <<y>>
  BY <1>1, ConcatAssociative
<1>3. s \o <<x>> = Append(s, x) /\ Append(s, x) \in Seq(S)
  OBVIOUS
<1>4. Append(s, x) \o <<y>> = Append(Append(s, x), y)
  BY <1>3
<1> QED BY <1>2, <1>3, <1>4

\* A document that is closed was the one open, if anything is written.
LEMMA CloseDeletedStep ==
  ASSUME IInv, NEW p \in Paths, CloseDeleted(p)
  PROVE  IInv'
<1>1. Types /\ Known /\ Followed /\ JournalFits /\ ServerFits
  BY DEF IInv
<1> DEFINE close == Message("didClose", p, 0, <<>>, NoText)
<1>2. /\ stage = "idle" /\ stage' \in {"attach", "changed"}
      /\ \A q \in Paths : version[q] < MaxVersion
      /\ shown' = IF shown = p THEN NoPath ELSE shown
      /\ version' = [version EXCEPT ![p] = 0]
      /\ channel' = IF version[p] # 0 THEN Written(<<close>>) ELSE channel
      /\ IF open = p THEN open' = NoPath /\ sent' = NoText /\ replaced' = FALSE
                     ELSE UNCHANGED <<open, sent, replaced>>
      /\ UNCHANGED <<text, language, journal, running, wholeNext, kind, pipe, copy, behind>>
  BY DEF CloseDeleted, KeyArrives
<1>3. close \in Messages /\ close.type = "didClose" /\ close.path = p
  BY <1>1 DEF Message, Messages, Types, Kinds
<1> HIDE DEF close
<1>4. /\ version' \in [Paths -> 0 .. (MaxVersion + 1)]
      /\ \A q \in Paths : version'[q] <= MaxVersion
      /\ \A q \in Paths : version'[q] = IF q = p THEN 0 ELSE version[q]
  BY <1>1, <1>2, SyncAssumption DEF Types
<1>5. channel' \in Seq(Messages) => Types'
  BY <1>1, <1>2, <1>4 DEF Types, Stages
<1>6. Followed' /\ JournalFits'
  BY <1>1, <1>2, SyncAssumption DEF Followed, JournalFits
<1>7. CASE ~Serving
  <2>1. ~Serving' /\ channel' = <<>>
    <3>1. pipe = "open" => version[p] = 0
      BY <1>1, <1>7 DEF Known, Serving
    <3> QED BY <1>1, <1>2, <1>7, <3>1 DEF Known, Serving, Written
  <2>2. Known' /\ ServerFits'
    BY <1>1, <1>2, <1>4, <2>1 DEF Known, ServerFits
  <2> QED BY <1>5, <1>6, <2>1, <2>2 DEF IInv
<1>8. CASE Serving
  <2>1. Serving' /\ pipe = "open" /\ running # NoServer
    BY <1>2, <1>8 DEF Serving
  <2>2. Known'
    BY <1>1, <1>2, <1>4, <1>8, <2>1, SyncAssumption DEF Known
  <2>3. PICK end \in Copies : Reaches(copy, channel, kind # "none", end) /\ Holds(end)
    BY <1>1, <1>8 DEF ServerFits
  <2>4. channel \in Seq(Messages) /\ (kind # "none") \in BOOLEAN /\ Clean(copy')
    BY <1>1, <1>2 DEF Types, ServerFits
  <2>5. CASE open # p
    <3>1. version[p] = 0 /\ channel' = channel
      BY <1>1, <1>2, <1>8, <2>5 DEF Known
    <3>2. Holds(end)'
      BY <1>2, <1>4, <2>3, <2>5 DEF Holds
    <3>3. ServerFits'
      BY <1>2, <2>3, <2>4, <3>1, <3>2 DEF ServerFits
    <3> QED BY <1>5, <1>6, <2>2, <2>4, <3>1, <3>3 DEF IInv
  <2>6. CASE open = p
    <3>1. version[p] # 0 /\ channel' = channel \o <<close>>
      BY <1>1, <1>2, <1>8, <2>1, <2>6 DEF Known, Written
    <3>2. channel' = Append(channel, close)
      BY <1>3, <2>4, <3>1
    <3>3. Receive(end, close) = Put(end, p, 0, NoText)
      BY <1>3, <2>3, <2>6, ReadsClose DEF Holds
    <3>4. NoText \in Texts \cup {NoText, Misread} /\ 0 \in Nat /\ NoText \in Contents
      BY DEF Contents
    <3>5. /\ Put(end, p, 0, NoText) \in Copies
          /\ Append(channel, close) \in Seq(Messages)
          /\ Reaches(copy, Append(channel, close), kind # "none", Put(end, p, 0, NoText))
      BY <1>3, <2>3, <2>4, <3>3, <3>4, ReachesPut
    <3>6. PICK after \in Copies : after = Put(end, p, 0, NoText)
      BY <3>5
    <3>7. /\ after[p] = [version |-> 0, text |-> NoText]
          /\ \A q \in Paths : q # p => after[q] = end[q]
      BY <2>3, <3>4, <3>6, PutIs
    <3>8. \A q \in Paths : after[q] = NotOpen
      BY <2>3, <2>6, <3>7 DEF Holds, NotOpen
    <3>9. Holds(after)'
      BY <1>2, <2>6, <3>8, SyncAssumption DEF Holds
    <3>10. ServerFits'
      BY <1>2, <2>4, <3>2, <3>5, <3>6, <3>9 DEF ServerFits
    <3> QED BY <1>5, <1>6, <2>2, <3>2, <3>5, <3>10 DEF IInv
  <2> QED BY <2>5, <2>6
<1> QED BY <1>7, <1>8

LEMMA AttachOpenStep ==
  ASSUME IInv, AttachOpen
  PROVE  IInv'
<1>1. Types /\ Known /\ Followed /\ JournalFits /\ ServerFits
  BY DEF IInv
<1> USE DEF AttachOpen, OpenDocument
<1>2. shown \in Paths /\ text[shown] \in Texts /\ running # NoServer
  BY <1>1, SyncAssumption DEF Types, NoLanguage, NoServer
<1>3. /\ journal' \in [Paths -> Journals]
      /\ \A p \in Paths : journal'[p] # Lost => Len(journal'[p]) <= MaxJournal
      /\ journal'[shown] = <<>>
  BY <1>1, <1>2, SyncAssumption DEF Types, Journals
<1>4. version' \in [Paths -> 0 .. (MaxVersion + 1)] /\ \A p \in Paths : version'[p] <= MaxVersion
  BY <1>1, SyncAssumption DEF Types
<1> DEFINE close == Message("didClose", open, 0, <<>>, NoText)
           didOpen == Message("didOpen", shown, 1, <<>>, text[shown])
<1>5. didOpen \in Messages /\ didOpen.type = "didOpen" /\ didOpen.path = shown
      /\ didOpen.version = 1 /\ didOpen.text = text[shown]
  BY <1>1, <1>2 DEF Message, Messages, Types, Kinds
<1>6. /\ pipe = "open" /\ version[shown] = 0
           => open' = shown /\ sent' = text[shown] /\ wholeNext' = FALSE
      /\ pipe # "open" => open' = NoPath /\ UNCHANGED <<sent, wholeNext>>
      /\ channel' = Written((IF open # NoPath THEN <<close>> ELSE <<>>)
                            \o (IF version[shown] = 0 THEN <<didOpen>> ELSE <<>>))
      /\ \A p \in Paths : version'[p] = IF p = shown THEN IF version[shown] = 0 THEN 1 ELSE version[shown]
                                       ELSE IF p = open THEN 0 ELSE version[p]
      /\ open # shown /\ stage' = "changed"
      /\ replaced' = FALSE
      /\ UNCHANGED <<running, kind, text, language, shown, pipe, copy, behind>>
  OBVIOUS
<1> HIDE DEF AttachOpen, OpenDocument
<1>7. CASE pipe = "open"
  <2>1. Serving /\ Serving'
    BY <1>2, <1>6, <1>7 DEF Serving
  <2>2. version[shown] = 0 /\ \A p \in Paths : version[p] # 0 <=> p = open
    BY <1>1, <1>2, <1>6, <2>1 DEF Known
  <2>3. open' = shown /\ sent' = text[shown] /\ wholeNext' = FALSE
    BY <1>6, <1>7, <2>2
  <2>4. \A p \in Paths : version'[p] = IF p = shown THEN 1 ELSE 0
    BY <1>6, <2>2
  <2>5. PICK end \in Copies : Reaches(copy, channel, kind # "none", end) /\ Holds(end)
    BY <1>1, <2>1 DEF ServerFits
  <2>6. \E before \in Copies, messages \in Seq(Messages) :
          /\ Reaches(copy, messages, kind # "none", before)
          /\ \A p \in Paths : before[p] = NotOpen
          /\ channel' = Append(messages, didOpen)
    <3>1. CASE open = NoPath
      <4>1. \A p \in Paths : end[p] = NotOpen
        BY <2>5, <3>1, SyncAssumption DEF Holds
      <4>2. channel \in Seq(Messages) /\ channel' = channel \o (<<>> \o <<didOpen>>)
        BY <1>1, <1>6, <1>7, <2>2, <3>1 DEF Types, Written
      <4> HIDE DEF didOpen
      <4>3. channel' = Append(channel, didOpen)
        BY <1>5, <4>2
      <4> QED BY <2>5, <4>1, <4>2, <4>3
    <3>2. CASE open # NoPath
      <4>1. open \in Paths /\ end[open].version # 0
            /\ \A p \in Paths : p # open => end[p] = NotOpen
        BY <1>1, <2>5, <3>2 DEF Holds, Types
      <4>2. close \in Messages /\ close.type = "didClose" /\ close.path = open
        BY <1>1, <4>1 DEF Message, Messages, Types, Kinds
      <4>3. channel \in Seq(Messages) /\ channel' = channel \o (<<close>> \o <<didOpen>>)
        BY <1>1, <1>6, <1>7, <2>2, <3>2 DEF Types, Written
      <4> HIDE DEF didOpen, close
      <4>4. Receive(end, close) = Put(end, open, 0, NoText)
        BY <4>1, <4>2, ReadsClose
      <4>5. (kind # "none") \in BOOLEAN /\ NoText \in Texts \cup {NoText, Misread} /\ 0 \in Nat
        OBVIOUS
      <4>6. /\ Put(end, open, 0, NoText) \in Copies
            /\ Append(channel, close) \in Seq(Messages)
            /\ Reaches(copy, Append(channel, close), kind # "none", Put(end, open, 0, NoText))
        BY <2>5, <4>2, <4>3, <4>4, <4>5, ReachesPut
      <4>7. \A p \in Paths : Put(end, open, 0, NoText)[p] = NotOpen
        <5>1. NoText \in Contents /\ 0 \in Nat
          BY DEF Contents
        <5>2. /\ Put(end, open, 0, NoText)[open] = [version |-> 0, text |-> NoText]
              /\ \A p \in Paths : p # open => Put(end, open, 0, NoText)[p] = end[p]
          BY <2>5, <4>1, <5>1, PutIs
        <5> QED BY <4>1, <5>2 DEF NotOpen
      <4>8. channel' = Append(Append(channel, close), didOpen)
        BY <1>5, <4>2, <4>3, TwoMore
      <4> QED BY <4>6, <4>7, <4>8
    <3> QED BY <3>1, <3>2
  <2>7. PICK before \in Copies, messages \in Seq(Messages) :
          /\ Reaches(copy, messages, kind # "none", before)
          /\ \A p \in Paths : before[p] = NotOpen
          /\ channel' = Append(messages, didOpen)
    BY <2>6
  <2> DEFINE after == Put(before, shown, 1, text[shown])
  <2> HIDE DEF didOpen, after
  <2>8. Receive(before, didOpen) = after /\ after = Put(before, didOpen.path, 1, text[shown])
    BY <1>2, <1>5, <2>7, ReadsOpen DEF after
  <2>9. after \in Copies /\ channel' \in Seq(Messages)
        /\ Reaches(copy, channel', kind # "none", after)
    <3>1. (kind # "none") \in BOOLEAN /\ 1 \in Nat /\ text[shown] \in Texts \cup {NoText, Misread}
      BY <1>2
    <3>2. /\ Put(before, didOpen.path, 1, text[shown]) \in Copies
          /\ Append(messages, didOpen) \in Seq(Messages)
          /\ Reaches(copy, Append(messages, didOpen), kind # "none",
                     Put(before, didOpen.path, 1, text[shown]))
      BY <1>5, <2>7, <2>8, <3>1, ReachesPut
    <3> QED BY <2>7, <2>8, <3>2
  <2>10. \A p \in Paths : IF p # shown THEN after[p] = NotOpen
                          ELSE after[p] = [version |-> 1, text |-> text[shown]]
    <3>1. text[shown] \in Contents /\ 1 \in Nat
      BY <1>2 DEF Contents
    <3>2. /\ after[shown] = [version |-> 1, text |-> text[shown]]
          /\ \A p \in Paths : p # shown => after[p] = before[p]
      BY <1>2, <2>7, <3>1, PutIs DEF after
    <3> QED BY <2>7, <3>2
  <2>11. PICK a \in Copies : a = after
    BY <2>9
  <2>12. ServerFits'
    <3>1. \A p \in Paths : IF p # open' THEN a[p] = NotOpen
             ELSE /\ a[p].version # 0
                  /\ kind' # "none" => a[p].version = version'[p] /\ a[p].text \in {sent', Misread}
      BY <2>3, <2>4, <2>10, <2>11
    <3>2. Reaches(copy', channel', kind' # "none", a)
      BY <1>6, <2>9, <2>11
    <3>3. \E x \in Copies : Reaches(copy', channel', kind' # "none", x) /\ Holds(x)'
      BY <3>1, <3>2 DEF Holds
    <3>4. Clean(copy')
      BY <1>1, <1>6 DEF ServerFits
    <3> QED BY <3>3, <3>4 DEF ServerFits
  <2>13. Types'
    BY <1>1, <1>2, <1>3, <1>4, <1>6, <2>3, <2>9 DEF Types, Stages
  <2>14. Known' /\ Followed' /\ JournalFits'
    BY <1>1, <1>2, <1>3, <1>6, <2>1, <2>3, <2>4 DEF Known, Followed, JournalFits
  <2> QED BY <2>12, <2>13, <2>14 DEF IInv
<1>8. CASE pipe # "open"
  <2>1. ~Serving /\ ~Serving' /\ channel' = channel
    BY <1>6, <1>8 DEF Serving, Written
  <2>2. open' = NoPath /\ UNCHANGED <<sent, wholeNext>>
    BY <1>6, <1>8
  <2>3. Types'
    BY <1>1, <1>3, <1>4, <1>6, <2>1, <2>2 DEF Types, Stages
  <2>4. Known' /\ Followed' /\ JournalFits' /\ ServerFits'
    BY <1>1, <1>2, <1>6, <1>8, <2>1, <2>2 DEF Known, Followed, JournalFits, ServerFits
  <2> QED BY <2>3, <2>4 DEF IInv
<1> QED BY <1>7, <1>8

\* A server that is started knows only the document it is started for.
LEMMA AttachStartStep ==
  ASSUME IInv, AttachStart
  PROVE  IInv'
<1>1. Types
  BY DEF IInv
<1>2. shown \in Paths /\ text[shown] \in Texts /\ language[shown] \in Languages
  BY <1>1 DEF Types, AttachStart
<1> DEFINE didOpen == Message("didOpen", shown, 1, <<>>, text[shown])
           fresh == [p \in Paths |-> NotOpen]
<1>3. didOpen \in Messages /\ didOpen.type = "didOpen" /\ didOpen.path = shown
      /\ didOpen.version = 1 /\ didOpen.text = text[shown]
  BY <1>1, <1>2 DEF Message, Messages, Types, Kinds
<1>4. /\ stage' = "changed" /\ kind' \in SyncKinds /\ copy' = fresh /\ replaced' = FALSE
      /\ UNCHANGED <<text, language, shown, behind>>
  BY DEF AttachStart
<1>5. \/ /\ running' = language[shown] /\ open' = shown /\ pipe' = "open"
         /\ sent' = text[shown] /\ wholeNext' = FALSE
         /\ version' = [p \in Paths |-> IF p = shown THEN 1 ELSE 0]
         /\ channel' = <<didOpen>> /\ journal' = [journal EXCEPT ![shown] = <<>>]
      \/ /\ running' = language[shown] /\ open' = NoPath /\ pipe' = "broken"
         /\ version' = [p \in Paths |-> IF p = shown THEN 1 ELSE 0]
         /\ channel' = <<>> /\ journal' = [journal EXCEPT ![shown] = <<>>]
         /\ UNCHANGED <<sent, wholeNext>>
      \/ /\ running' = NoServer /\ open' = NoPath /\ pipe' = "open"
         /\ version' = [p \in Paths |-> 0] /\ channel' = <<>>
         /\ UNCHANGED <<sent, wholeNext, journal>>
  BY DEF AttachStart
<1> HIDE DEF didOpen
<1>6. fresh \in Copies /\ Clean(fresh) /\ \A p \in Paths : fresh[p] = NotOpen
  BY DEF Copies, Contents, NotOpen, Clean, NoText, Garbage
<1> HIDE DEF fresh
<1>7. CASE running' = NoServer
  <2>1. /\ open' = NoPath /\ channel' = <<>> /\ version' = [p \in Paths |-> 0] /\ pipe' = "open"
        /\ UNCHANGED <<sent, wholeNext, journal>>
    BY <1>2, <1>5, <1>7, SyncAssumption
  <2>2. channel' \in Seq(Messages) /\ version' \in [Paths -> 0 .. (MaxVersion + 1)]
        /\ \A p \in Paths : version'[p] <= MaxVersion
    BY <2>1, SyncAssumption
  <2>3. Types'
    BY <1>1, <1>4, <1>6, <1>7, <2>1, <2>2 DEF Types, Stages
  <2>4. Known' /\ Followed' /\ JournalFits'
    BY <1>2, <1>4, <1>7, <2>1, SyncAssumption DEF Known, Serving, Followed, JournalFits
  <2>5. Clean(copy') /\ ~Serving'
    BY <1>4, <1>6, <1>7 DEF Serving
  <2> QED BY <2>3, <2>4, <2>5 DEF IInv, ServerFits
<1>8. CASE running' # NoServer /\ pipe' = "open"
  <2>1. /\ running' = language[shown] /\ open' = shown
        /\ sent' = text[shown] /\ wholeNext' = FALSE
        /\ version' = [p \in Paths |-> IF p = shown THEN 1 ELSE 0]
        /\ channel' = <<didOpen>> /\ journal' = [journal EXCEPT ![shown] = <<>>]
    BY <1>5, <1>8
  <2>2. /\ journal' \in [Paths -> Journals] /\ journal'[shown] = <<>>
        /\ \A p \in Paths : journal'[p] # Lost => Len(journal'[p]) <= MaxJournal
    BY <1>1, <1>2, <2>1, SyncAssumption DEF Types, Journals
  <2>3. version' \in [Paths -> 0 .. (MaxVersion + 1)] /\ \A p \in Paths : version'[p] <= MaxVersion
    BY <1>2, <2>1, SyncAssumption
  <2>4. PICK docs \in Copies : docs = fresh
    BY <1>6
  <2>5. PICK after : after = Put(fresh, didOpen.path, 1, text[shown])
    OBVIOUS
  <2>6. Reaches(fresh, <<>>, kind' # "none", fresh)
    <3>1. (kind' # "none") \in BOOLEAN
      OBVIOUS
    <3> QED BY <1>6, <3>1, ReachesNone
  <2>7. Receive(fresh, didOpen) = Put(fresh, didOpen.path, 1, text[shown])
    BY <1>2, <1>3, <1>6, ReadsOpen
  <2>8. /\ Put(fresh, didOpen.path, 1, text[shown]) \in Copies
        /\ Append(<<>>, didOpen) \in Seq(Messages)
        /\ Reaches(fresh, Append(<<>>, didOpen), kind' # "none",
                   Put(fresh, didOpen.path, 1, text[shown]))
    <3>1. (kind' # "none") \in BOOLEAN /\ 1 \in Nat /\ text[shown] \in Texts \cup {NoText, Misread}
          /\ <<>> \in Seq(Messages)
      BY <1>2
    <3> QED BY <1>3, <1>6, <2>6, <2>7, <3>1, ReachesPut
  <2>9. channel' = Append(<<>>, didOpen)
    BY <1>3, <2>1
  <2>10. after \in Copies /\ channel' \in Seq(Messages) /\ Reaches(copy', channel', kind' # "none", after)
    BY <1>4, <2>5, <2>8, <2>9
  <2>11. \A p \in Paths : IF p # shown THEN after[p] = NotOpen
                          ELSE after[p] = [version |-> 1, text |-> text[shown]]
    <3>1. text[shown] \in Contents /\ 1 \in Nat
      BY <1>2 DEF Contents
    <3>2. /\ after[shown] = [version |-> 1, text |-> text[shown]]
          /\ \A p \in Paths : p # shown => after[p] = fresh[p]
      BY <1>2, <1>3, <1>6, <2>5, <3>1, PutIs
    <3> QED BY <1>6, <3>2
  <2>12. ServerFits'
    <3>1. \A p \in Paths : IF p # open' THEN after[p] = NotOpen
             ELSE /\ after[p].version # 0
                  /\ kind' # "none" => /\ after[p].version = version'[p]
                                       /\ after[p].text \in {sent', Misread}
      BY <2>1, <2>11
    <3>2. \E x \in Copies : Reaches(copy', channel', kind' # "none", x) /\ Holds(x)'
      BY <2>10, <3>1 DEF Holds
    <3>3. Clean(copy')
      BY <1>4, <1>6
    <3> QED BY <3>2, <3>3 DEF ServerFits
  <2>13. Types'
    BY <1>1, <1>2, <1>4, <1>6, <1>8, <2>1, <2>2, <2>3, <2>10 DEF Types, Stages
  <2>14. Known' /\ Followed' /\ JournalFits'
    BY <1>2, <1>4, <1>8, <2>1, <2>2 DEF Known, Serving, Followed, JournalFits
  <2> QED BY <2>12, <2>13, <2>14 DEF IInv
<1>9. CASE running' # NoServer /\ pipe' # "open"
  <2>1. /\ open' = NoPath /\ pipe' = "broken" /\ channel' = <<>>
        /\ running' = language[shown]
        /\ version' = [p \in Paths |-> IF p = shown THEN 1 ELSE 0]
        /\ journal' = [journal EXCEPT ![shown] = <<>>]
        /\ UNCHANGED <<sent, wholeNext>>
    BY <1>5, <1>9
  <2>2. /\ journal' \in [Paths -> Journals]
        /\ \A p \in Paths : journal'[p] # Lost => Len(journal'[p]) <= MaxJournal
    BY <1>1, <1>2, <2>1, SyncAssumption DEF Types, Journals
  <2>3. /\ version' \in [Paths -> 0 .. (MaxVersion + 1)] /\ channel' \in Seq(Messages)
        /\ \A p \in Paths : version'[p] <= MaxVersion
    BY <1>2, <2>1, SyncAssumption
  <2>4. Types'
    BY <1>1, <1>2, <1>4, <1>6, <2>1, <2>2, <2>3 DEF Types, Stages
  <2>5. Known' /\ Followed' /\ JournalFits'
    BY <1>4, <1>9, <2>1 DEF Known, Serving, Followed, JournalFits
  <2>6. Clean(copy') /\ ~Serving'
    BY <1>4, <1>6, <2>1 DEF Serving
  <2> QED BY <2>4, <2>5, <2>6 DEF IInv, ServerFits
<1> QED BY <1>7, <1>8, <1>9

LEMMA ChangedNothingStep ==
  ASSUME IInv, ChangedNothing
  PROVE  IInv'
<1>1. Types /\ Known /\ Followed /\ JournalFits /\ ServerFits
  BY DEF IInv
<1>2. /\ stage = "changed" /\ stage' = "idle" /\ behind' = FALSE
      /\ UNCHANGED <<text, language, shown, running, open, sent, version, kind, pipe, channel, copy>>
      /\ Watched => /\ sent = text[shown] /\ wholeNext' = FALSE /\ replaced' = FALSE
                    /\ journal' = [journal EXCEPT ![shown] = <<>>]
      /\ ~Watched => UNCHANGED <<journal, wholeNext, replaced>>
  BY DEF ChangedNothing, serverVars
<1>3. /\ journal' \in [Paths -> Journals]
      /\ \A p \in Paths : journal'[p] # Lost => Len(journal'[p]) <= MaxJournal
  <2>1. CASE Watched
    <3>1. shown \in Paths
      BY <1>1, <2>1 DEF Watched, Types
    <3>2. journal' = [journal EXCEPT ![shown] = <<>>]
      BY <1>2, <2>1
    <3>3. <<>> \in Journals /\ Len(<<>>) <= MaxJournal
      BY SyncAssumption DEF Journals
    <3> QED BY <1>1, <3>1, <3>2, <3>3 DEF Types
  <2>2. CASE ~Watched
    BY <1>1, <1>2, <2>2 DEF Types
  <2> QED BY <2>1, <2>2
<1>4. Types'
  BY <1>1, <1>2, <1>3 DEF Types, Stages, Watched
<1>5. Known' /\ ServerFits'
  BY <1>1, <1>2 DEF Known, ServerFits, Serving, Holds
<1>6. Followed'
  BY <1>1, <1>2 DEF Followed, Known, Watched
<1>7. JournalFits'
  <2>1. CASE Watched
    <3>1. shown \in Paths /\ open = shown
      BY <1>1, <2>1 DEF Watched, Types
    <3>2. journal'[shown] = <<>>
      BY <1>1, <1>2, <2>1, <3>1 DEF Types
    <3> QED BY <1>2, <2>1, <3>1, <3>2 DEF JournalFits
  <2>2. CASE ~Watched
    <3>1. open # NoPath => open # shown
      BY <1>1, <2>2 DEF Watched, Known
    <3> QED BY <1>1, <1>2, <2>2, <3>1 DEF JournalFits
  <2> QED BY <2>1, <2>2
<1> QED BY <1>4, <1>5, <1>6, <1>7 DEF IInv

\* A change is of the text the server has, and its version is the next one.
LEMMA ChangedSendStep ==
  ASSUME IInv, ChangedSend
  PROVE  IInv'
<1>1. Types /\ Known /\ Followed /\ JournalFits /\ ServerFits
  BY DEF IInv
<1> DEFINE m == Message("didChange", shown, version[shown] + 1, Taken, text[shown])
<1>2. /\ stage = "changed" /\ Watched /\ stage' = "idle" /\ behind' = FALSE /\ replaced' = FALSE
      /\ journal' = [journal EXCEPT ![shown] = <<>>]
      /\ version' = [version EXCEPT ![shown] = version[shown] + 1]
      /\ kind = "none" \/ pipe = "open" => sent' = text[shown] /\ wholeNext' = FALSE
      /\ ~(kind = "none" \/ pipe = "open") => wholeNext' = TRUE /\ sent' = sent
      /\ channel' = IF kind = "none" THEN channel ELSE Written(<<m>>)
      /\ UNCHANGED <<text, language, shown, running, open, kind, pipe, copy>>
  BY DEF ChangedSend
<1> HIDE DEF m
<1>3. /\ shown \in Paths /\ open = shown /\ running # NoServer /\ text[shown] \in Texts
      /\ version[shown] \in Nat /\ version[shown] <= MaxVersion
  BY <1>1, <1>2, SyncAssumption DEF Watched, Types
<1>4. /\ journal' \in [Paths -> Journals] /\ journal'[shown] = <<>>
      /\ \A p \in Paths : journal'[p] # Lost => Len(journal'[p]) <= MaxJournal
  BY <1>1, <1>2, <1>3, SyncAssumption DEF Types, Journals
<1>5. /\ version' \in [Paths -> 0 .. (MaxVersion + 1)]
      /\ version'[shown] = version[shown] + 1
      /\ \A p \in Paths : p # shown => version'[p] = version[p]
  BY <1>1, <1>2, <1>3, SyncAssumption DEF Types
<1>6. channel' \in Seq(Messages) => Types'
  BY <1>1, <1>2, <1>3, <1>4, <1>5 DEF Types, Stages
<1>7. Followed' /\ JournalFits'
  BY <1>1, <1>2, <1>3, <1>4 DEF Followed, JournalFits
<1>8. CASE pipe # "open"
  <2>1. ~Serving /\ ~Serving' /\ channel' = channel
    BY <1>2, <1>8 DEF Serving, Written
  <2>2. Known' /\ ServerFits' /\ channel' \in Seq(Messages)
    BY <1>1, <1>2, <1>3, <2>1 DEF Known, ServerFits, Types
  <2> QED BY <1>6, <1>7, <2>2 DEF IInv
<1>9. CASE pipe = "open"
  <2>1. Serving /\ Serving'
    BY <1>2, <1>3, <1>9 DEF Serving
  <2>2. version[shown] # 0 /\ Known'
    BY <1>1, <1>2, <1>3, <1>5, <1>9, <2>1 DEF Known
  <2>3. PICK end \in Copies : Reaches(copy, channel, kind # "none", end) /\ Holds(end)
    BY <1>1, <2>1 DEF ServerFits
  <2>4. CASE kind = "none"
    <3>1. Holds(end)'
      BY <1>2, <2>3, <2>4 DEF Holds
    <3>2. ServerFits' /\ channel' \in Seq(Messages)
      BY <1>1, <1>2, <2>3, <2>4, <3>1 DEF ServerFits, Types
    <3> QED BY <1>6, <1>7, <2>2, <3>2 DEF IInv
  <2>5. CASE kind # "none"
    <3>1. end[shown].version = version[shown] /\ end[shown].text \in {sent, Misread}
          /\ \A p \in Paths : p # shown => end[p] = NotOpen
      BY <1>3, <2>3, <2>5 DEF Holds
    <3>2. Taken \in Seq(Change) /\ (Taken = <<>> \/ replaced \/ LeadsTo(Taken, sent, text[shown]))
      <4>1. journal[shown] \in Journals
        BY <1>1, <1>3 DEF Types
      <4>2. CASE journal[shown] = Lost \/ wholeNext \/ kind = "full"
        BY <4>2 DEF Taken
      <4>3. CASE ~(journal[shown] = Lost \/ wholeNext \/ kind = "full")
        <5>1. Taken = journal[shown] /\ journal[shown] \in Seq(Change)
          BY <4>1, <4>3 DEF Taken, Journals
        <5>2. open # NoPath /\ open = shown
          BY <1>3, SyncAssumption
        <5> QED BY <1>1, <4>3, <5>1, <5>2 DEF JournalFits
      <4> QED BY <4>2, <4>3
    <3>3. /\ m \in Messages /\ m.type = "didChange" /\ m.path = shown
          /\ m.version = version[shown] + 1 /\ m.changes = Taken /\ m.text = text[shown]
          /\ m.replaced = (replaced /\ Taken # <<>>)
      BY <1>1, <1>3, <3>2 DEF m, Message, Messages, Types, Kinds
    <3>4. /\ end[m.path].version # 0 /\ end[m.path].version < m.version
          /\ \/ m.changes = <<>> \/ m.replaced \/ end[m.path].text = Misread
             \/ LeadsTo(m.changes, end[m.path].text, m.text)
      <4>1. end[m.path].version # 0 /\ end[m.path].version < m.version
        BY <1>3, <2>2, <3>1, <3>3
      <4>2. CASE Taken = <<>> \/ end[shown].text = Misread
        BY <3>3, <4>1, <4>2
      <4>3. CASE Taken # <<>> /\ replaced
        BY <3>3, <4>1, <4>3
      <4>4. CASE LeadsTo(Taken, sent, text[shown]) /\ end[shown].text = sent
        BY <3>3, <4>1, <4>4
      <4> QED BY <3>1, <3>2, <4>2, <4>3, <4>4
    <3>5. PICK t \in {m.text, Misread} : Receive(end, m) = Put(end, m.path, m.version, t)
      BY <2>3, <3>3, <3>4, ReadsChange
    <3>6. PICK after : after = Put(end, m.path, m.version, t)
      OBVIOUS
    <3>7. /\ Put(end, m.path, m.version, t) \in Copies
          /\ Append(channel, m) \in Seq(Messages)
          /\ Reaches(copy, Append(channel, m), kind # "none", Put(end, m.path, m.version, t))
      <4>1. channel \in Seq(Messages) /\ (kind # "none") \in BOOLEAN
            /\ m.version \in Nat /\ t \in Texts \cup {NoText, Misread}
        BY <1>1, <3>3, <3>5 DEF Types, Messages
      <4> QED BY <2>3, <3>3, <3>5, <4>1, ReachesPut
    <3>8. channel' = Append(channel, m)
      <4>1. channel \in Seq(Messages)
        BY <1>1 DEF Types
      <4> QED BY <1>2, <1>9, <2>5, <3>3, <4>1 DEF Written
    <3>9. after \in Copies /\ channel' \in Seq(Messages)
          /\ Reaches(copy', channel', kind' # "none", after)
      BY <1>2, <3>6, <3>7, <3>8
    <3>10. \A p \in Paths : IF p # shown THEN after[p] = NotOpen
             ELSE after[p].version = version[shown] + 1 /\ after[p].text \in {text[shown], Misread}
      <4>1. t \in Contents /\ t \in {text[shown], Misread} /\ version[shown] + 1 \in Nat
        BY <1>3, <3>3, <3>5 DEF Contents
      <4>2. /\ after[shown] = [version |-> version[shown] + 1, text |-> t]
            /\ \A p \in Paths : p # shown => after[p] = end[p]
        BY <1>3, <2>3, <3>3, <3>6, <4>1, PutIs
      <4>3. t = text[shown] \/ t = Misread
        BY <4>1
      <4>4. after[shown].version = version[shown] + 1 /\ after[shown].text = t
        BY <4>2
      <4>5. \A p \in Paths : p # shown => after[p] = NotOpen
        BY <3>1, <4>2
      <4> QED BY <4>3, <4>4, <4>5
    <3>11. ServerFits'
      <4>1. \A p \in Paths : IF p # open' THEN after[p] = NotOpen
               ELSE /\ after[p].version # 0
                    /\ kind' # "none" => /\ after[p].version = version'[p]
                                       /\ after[p].text \in {sent', Misread}
        BY <1>2, <1>3, <1>5, <1>9, <3>10
      <4>2. \E x \in Copies : Reaches(copy', channel', kind' # "none", x) /\ Holds(x)'
        BY <3>9, <4>1 DEF Holds
      <4>3. Clean(copy')
        BY <1>1, <1>2 DEF ServerFits
      <4> QED BY <4>2, <4>3 DEF ServerFits
    <3> QED BY <1>6, <1>7, <2>2, <3>9, <3>11 DEF IInv
  <2> QED BY <2>4, <2>5
<1> QED BY <1>8, <1>9

LEMMA StoppedStep ==
  ASSUME IInv, Stopped
  PROVE  IInv'
<1>1. Types /\ Known /\ Followed /\ JournalFits /\ ServerFits
  BY DEF IInv
<1>2. /\ pipe = "broken" /\ running' = NoServer /\ open' = NoPath /\ stage = "idle"
      /\ version' = [p \in Paths |-> 0]
      /\ replaced' = FALSE
      /\ UNCHANGED <<text, language, journal, shown, sent, wholeNext, kind, pipe, channel, copy,
                     stage, behind>>
  BY DEF Stopped, docVars, serverVars
<1>3. version' \in [Paths -> 0 .. (MaxVersion + 1)]
  BY <1>2, SyncAssumption
<1>4. Types'
  BY <1>1, <1>2, <1>3 DEF Types, Stages
<1>5. ~Serving /\ ~Serving'
  BY <1>2 DEF Serving
<1>6. Known' /\ Followed' /\ JournalFits' /\ ServerFits'
  BY <1>1, <1>2, <1>5 DEF Known, Followed, JournalFits, ServerFits
<1> QED BY <1>4, <1>6 DEF IInv

(***************************************************************************)
(* The steps of the server.                                                *)
(***************************************************************************)
LEMMA ServerReadsStep ==
  ASSUME IInv, ServerReads
  PROVE  IInv'
<1>1. Types /\ Known /\ Followed /\ JournalFits /\ ServerFits
  BY DEF IInv
<1>2. /\ pipe = "open" /\ channel # <<>>
      /\ copy' = Receive(copy, Head(channel)) /\ channel' = Tail(channel)
      /\ UNCHANGED <<text, language, journal, shown, running, open, sent, wholeNext, version, kind,
                     pipe, stage, behind, replaced>>
  BY DEF ServerReads, docVars, lspVars, histories
<1>3. Serving /\ Serving'
  BY <1>1, <1>2 DEF Known, Serving
<1>4. PICK end \in Copies : Reaches(copy, channel, kind # "none", end) /\ Holds(end)
  BY <1>1, <1>3 DEF ServerFits
<1>5. channel \in Seq(Messages) /\ (kind # "none") \in BOOLEAN
  BY <1>1 DEF Types
<1>6. /\ Receive(copy, Head(channel)) \in Copies
      /\ Clean(Receive(copy, Head(channel)))
      /\ Reaches(Receive(copy, Head(channel)), Tail(channel), kind # "none", end)
  BY <1>2, <1>4, <1>5, ReachesOn
<1>7. copy' \in Copies /\ Clean(copy') /\ Reaches(copy', channel', kind' # "none", end)
  BY <1>2, <1>6
<1>8. channel' \in Seq(Messages)
  BY <1>2, <1>5
<1>9. Holds(end)'
  BY <1>2, <1>4 DEF Holds
<1>10. ServerFits'
  BY <1>4, <1>7, <1>9 DEF ServerFits
<1>11. Types'
  BY <1>1, <1>2, <1>7, <1>8 DEF Types
<1>12. Known' /\ Followed' /\ JournalFits'
  BY <1>1, <1>2, <1>3 DEF Known, Followed, JournalFits
<1> QED BY <1>10, <1>11, <1>12 DEF IInv

LEMMA ServerExitsStep ==
  ASSUME IInv, ServerExits
  PROVE  IInv'
<1>1. Types /\ Known /\ Followed /\ JournalFits /\ ServerFits
  BY DEF IInv
<1>2. /\ pipe' = "broken" /\ channel' = <<>>
      /\ copy' = [p \in Paths |-> NotOpen]
      /\ UNCHANGED <<text, language, journal, shown, running, open, sent, wholeNext, version, kind,
                     stage, behind, replaced>>
  BY DEF ServerExits, docVars, lspVars, histories
<1>3. ~Serving'
  BY <1>2 DEF Serving
<1>4. copy' \in Copies /\ Clean(copy')
  BY <1>2 DEF Copies, Contents, NotOpen, Clean, NoText, Garbage
<1>5. Types'
  BY <1>1, <1>2, <1>4 DEF Types
<1>6. Known' /\ Followed' /\ JournalFits' /\ ServerFits'
  BY <1>1, <1>2, <1>3, <1>4 DEF Known, Followed, JournalFits, ServerFits
<1> QED BY <1>5, <1>6 DEF IInv

(***************************************************************************)
(* Every step keeps the invariant.                                         *)
(***************************************************************************)
LEMMA NextKeeps ==
  ASSUME IInv, [Next]_vars
  PROVE  IInv'
<1>1. CASE Command
  <2>1. ASSUME NEW t \in Texts, Edit(t) \/ Undo(t)
        PROVE  IInv'
    BY <2>1, EditStep, UndoStep
  <2>2. ASSUME NEW t \in Texts, NEW p \in Paths, Reopen(p, t) \/ Reload(p, t)
        PROVE  IInv'
    BY <2>2, ReopenStep, ReloadStep
  <2>3. ASSUME NEW p \in Paths \cup {NoPath}, Switch(p)
        PROVE  IInv'
    BY <2>3, SwitchStep
  <2>4. ASSUME NEW l \in Languages \cup {NoLanguage}, SetLanguage(l)
        PROVE  IInv'
    BY <2>4, LanguageStep
  <2>5. CASE Ask \/ Save
    BY <2>5, AskStep
  <2>6. ASSUME NEW p \in Paths, CloseDeleted(p)
        PROVE  IInv'
    BY <2>6, CloseDeletedStep
  <2> QED BY <1>1, <2>1, <2>2, <2>3, <2>4, <2>5, <2>6 DEF Command
<1>2. CASE KeyContinues
  BY <1>2, TriggerStep, TypedStep, AttachOpenStep, AttachNothingStep, AttachStartStep,
     ChangedNothingStep, ChangedSendStep DEF KeyContinues
<1>3. CASE Idle
  <2>1. ASSUME NEW t \in Texts, AnswerEdits(t)
        PROVE  IInv'
    BY <2>1, AnswerStep
  <2>2. ASSUME NEW t \in Texts, NEW p \in Paths, PollEdits(p, t)
        PROVE  IInv'
    BY <2>2, PollStep
  <2> QED BY <1>3, <2>1, <2>2, AutoSaveStep, StoppedStep DEF Idle
<1>4. CASE ServerReads \/ ServerExits
  BY <1>4, ServerReadsStep, ServerExitsStep
<1>5. CASE UNCHANGED vars
  <2>1. UNCHANGED <<text, language, journal, shown, stage, behind, replaced, lspVars, serverVars>>
    BY <1>5 DEF vars, docVars, histories
  <2>2. Known' /\ ServerFits'
    BY <2>1, ServerKeeps
  <2>3. Types' /\ Followed' /\ JournalFits'
    BY <2>1 DEF IInv, Types, Followed, JournalFits, lspVars, serverVars
  <2> QED BY <2>2, <2>3 DEF IInv
<1> QED BY <1>1, <1>2, <1>3, <1>4, <1>5 DEF Next

(***************************************************************************)
(* The theorems.                                                           *)
(***************************************************************************)
\* The invariant: a server that can be told anything was told of one document;
\* its journal leads from the text last sent to the document's text; and what is
\* in the pipe takes the server, without garbage, to that text and version, or
\* to a Misread copy if its text was replaced while it was not on screen.
THEOREM Invariance ==
  Spec => []IInv
<1>1. IInv /\ [Next]_vars => IInv'
  BY NextKeeps
<1> QED BY FirstState, <1>1, PTL DEF Spec

\* The server never gets an edit of a text it does not have, a version that is
\* not newer, a change of an unknown document, or a second open.  The edits of a
\* text that replaced another while it was not on screen are told apart.
THEOREM NeverSpoiled ==
  Spec => []NeverGarbage
<1>1. IInv => NeverGarbage
  BY DEF IInv, ServerFits, Clean, NeverGarbage
<1> QED BY Invariance, <1>1, PTL

\* Once it has read its pipe, a running server has the open document, at the
\* version and with the text last sent, unless its copy is Misread, and no other
\* document.
THEOREM ServerFollows ==
  Spec => []ServerHoldsWhatWasSent
<1>1. IInv => TypeOK
  BY DEF IInv, Types, TypeOK, Journals
<1>2. ASSUME IInv, running # NoServer, pipe = "open", NEW p \in Paths
      PROVE  IF p # open THEN Drained[p] = NotOpen
             ELSE kind # "none" => /\ Drained[p].version = version[p]
                                    /\ Drained[p].text \in {sent, Misread}
  <2>1. Serving /\ channel \in Seq(Messages)
    BY <1>2 DEF Serving, IInv, Types
  <2>2. PICK end \in Copies : Reaches(copy, channel, kind # "none", end) /\ Holds(end)
    BY <1>2, <2>1 DEF IInv, ServerFits
  <2>3. Drained = end
    BY <2>1, <2>2, ReachesDrained
  <2> QED BY <2>2, <2>3 DEF Holds
<1>3. IInv => ServerHoldsWhatWasSent
  BY <1>1, <1>2 DEF ServerHoldsWhatWasSent
<1> QED BY Invariance, <1>3, PTL

\* When a key has been handled, the server of the shown document's language has
\* that document open, and was sent the text on screen.
THEOREM KeysReachTheServer ==
  Spec => []KeysAreSent
<1>1. IInv => KeysAreSent
  BY DEF IInv, Followed, KeysAreSent, ServedAsShown
<1> QED BY Invariance, <1>1, PTL

\* A request and a save are about the text the server has when it reads them,
\* unless they were raised over an unsent answer's edit or its copy is Misread.
THEOREM RequestsMatchTheServer ==
  Spec => []RequestsAboutServerText
<1>1. ASSUME IInv, pipe = "open", channel # <<>>, kind # "none",
             Head(channel).type \in {"request", "didSave"}, ~Head(channel).stale
      PROVE  copy[Head(channel).path].text \in {Head(channel).text, Misread}
  <2>1. Serving /\ channel \in Seq(Messages)
    BY <1>1 DEF IInv, Known, Serving, Types
  <2>2. PICK end \in Copies : Reaches(copy, channel, kind # "none", end)
    BY <1>1, <2>1 DEF IInv, ServerFits
  <2>3. (kind # "none") \in BOOLEAN
    OBVIOUS
  <2>4. About(copy, Head(channel), kind # "none")
    BY <1>1, <2>1, <2>2, <2>3, ReachesOn
  <2> QED BY <1>1, <2>4 DEF About
<1>2. IInv => RequestsAboutServerText
  BY <1>1 DEF RequestsAboutServerText, AboutServerText
<1> QED BY Invariance, <1>2, PTL
=============================================================================
