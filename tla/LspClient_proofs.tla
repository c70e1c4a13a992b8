--------------------------- MODULE LspClient_proofs ---------------------------
(***************************************************************************)
(* What holds of the client for every set of methods and every bound: its  *)
(* types, the handshake and the order of the requests on the wire, proved  *)
(* from one inductive invariant.  Its heart is what a request that waits   *)
(* for the handshake has in common with one that was sent: both are        *)
(* pending, and every id on the wire is smaller than every id that waits.  *)
(* The second part follows the fate of each request to show that the       *)
(* client implements RequestTable.                                         *)
(***************************************************************************)
EXTENDS LspClient, SequenceTheorems, TLAPS

\* The ids on the wire, and those that wait for the handshake, were allocated.
IdsAllocated ==
  \A i \in DOMAIN wire : wire[i].kind = "request" => wire[i].id \in 1..(nextId - 1)

\* The queue is in the order the requests were raised.
QueueOrdered ==
  \A i, j \in DOMAIN queued : i < j => queued[i] < queued[j]

\* What waits is pending, was raised by the editor, and comes after everything
\* that was sent.
QueueWaits ==
  \A i \in DOMAIN queued :
     /\ queued[i] \in DOMAIN pending
     /\ pending[queued[i]].method \in Methods
     /\ \A j \in DOMAIN wire : wire[j].kind = "request" => wire[j].id < queued[i]

QueueDrained == queued # <<>> => state \in {"Initializing", "Exited"}

\* Before `initialized' is sent there is nothing on the wire but `initialize'
\* and answers, and nothing is pending but `initialize' and what waits.
Opened == \E j \in DOMAIN wire : wire[j] = Initialized

Phases ==
  /\ state = "Uninitialized" =>
       /\ wire = <<>> /\ delivered = <<>> /\ queued = <<>> /\ DOMAIN pending = {}
  /\ state # "Uninitialized" => wire # <<>> /\ wire[1].method = "initialize"
                                /\ wire[1].kind = "request"
  /\ state \in {"Ready", "ShuttingDown"} => Opened
  /\ ~Opened =>
       /\ \A i \in DOMAIN wire : i = 1 \/ wire[i].kind = "response"
       /\ DOMAIN pending \subseteq QueuedIds \cup {initializeId}

IInv ==
  /\ TypeOK /\ IdsAllocated /\ QueueOrdered /\ QueueWaits /\ QueueDrained
  /\ Phases /\ RequestsInOrder /\ HandshakeFirst

(***************************************************************************)
(* Lemmas on the pending table, the queue and the wire.                    *)
(***************************************************************************)
\* The empty sequence has no positions.
LEMMA EmptyDomain == \A s : s = <<>> => DOMAIN s = {}
OBVIOUS

\* Removing one element of a sequence keeps the others in their order.
LEMMA RemoveAtKeeps ==
  ASSUME NEW S, NEW s \in Seq(S), NEW k \in 1..Len(s)
  PROVE  /\ RemoveAt(s, k) \in Seq(S)
         /\ Len(RemoveAt(s, k)) = Len(s) - 1
         /\ \A j \in 1..(Len(s) - 1) :
               RemoveAt(s, k)[j] = IF j < k THEN s[j] ELSE s[j + 1]
<1> DEFINE front == SubSeq(s, 1, k - 1)
           back  == SubSeq(s, k + 1, Len(s))
<1>0. Len(s) \in Nat
  BY LenProperties
<1>1. /\ front \in Seq(S) /\ Len(front) = k - 1
      /\ \A j \in 1..(k - 1) : front[j] = s[j]
  <2>1. \A j \in 1..(k - 1) : s[j] \in S
    BY <1>0, ElementOfSeq
  <2> QED
    BY <1>0, <2>1, SubSeqProperties
<1>2. /\ back \in Seq(S) /\ Len(back) = Len(s) - k
      /\ \A j \in 1..(Len(s) - k) : back[j] = s[k + j]
  <2>1. \A j \in (k + 1)..Len(s) : s[j] \in S
    BY <1>0, ElementOfSeq
  <2>2. /\ back \in Seq(S)
        /\ Len(back) = IF k + 1 <= Len(s) THEN Len(s) - (k + 1) + 1 ELSE 0
        /\ \A j \in 1..(Len(s) - (k + 1) + 1) : back[j] = s[k + 1 + j - 1]
    BY <1>0, <2>1, SubSeqProperties
  <2> QED
    BY <1>0, <2>2
<1>3. RemoveAt(s, k) = front \o back
  BY DEF RemoveAt
<1> HIDE DEF front, back
<1>4. /\ front \o back \in Seq(S)
      /\ Len(front \o back) = Len(front) + Len(back)
      /\ \A j \in 1..(Len(front) + Len(back)) : (front \o back)[j] =
            IF j <= Len(front) THEN front[j] ELSE back[j - Len(front)]
  BY <1>1, <1>2, ConcatProperties
<1>5. Len(front \o back) = Len(s) - 1
  BY <1>0, <1>1, <1>2, <1>4
<1>6. ASSUME NEW j \in 1..(Len(s) - 1)
      PROVE  (front \o back)[j] = IF j < k THEN s[j] ELSE s[j + 1]
  <2>1. (front \o back)[j] = IF j <= k - 1 THEN front[j] ELSE back[j - (k - 1)]
    BY <1>0, <1>1, <1>2, <1>4
  <2>2. CASE j < k
    BY <1>0, <1>1, <2>1, <2>2
  <2>3. CASE ~(j < k)
    <3>1. j - (k - 1) \in 1..(Len(s) - k) /\ k + (j - (k - 1)) = j + 1
      BY <1>0, <2>3
    <3>2. back[j - (k - 1)] = s[k + (j - (k - 1))]
      BY <1>2, <3>1
    <3> QED
      BY <2>1, <2>3, <3>1, <3>2
  <2> QED
    BY <2>2, <2>3
<1> QED
  BY <1>3, <1>4, <1>5, <1>6

\* One more message on the wire.
LEMMA WireAppend ==
  ASSUME TypeOK, NEW m \in Message, wire' = Append(wire, m)
  PROVE  /\ wire' \in Seq(Message) /\ wire' # <<>>
         /\ Len(wire) \in Nat
         /\ DOMAIN wire = 1..Len(wire) /\ DOMAIN wire' = 1..(Len(wire) + 1)
         /\ \A i \in 1..Len(wire) : wire'[i] = wire[i]
         /\ wire'[Len(wire) + 1] = m
<1>1. wire \in Seq(Message)
  BY DEF TypeOK
<1>2. /\ Append(wire, m) \in Seq(Message) /\ Append(wire, m) # <<>>
      /\ Len(Append(wire, m)) = Len(wire) + 1
      /\ \A i \in 1..Len(wire) : Append(wire, m)[i] = wire[i]
      /\ Append(wire, m)[Len(wire) + 1] = m
  BY <1>1, AppendProperties
<1>3. /\ Len(wire) \in Nat /\ DOMAIN wire = 1..Len(wire)
      /\ DOMAIN Append(wire, m) = 1..Len(Append(wire, m))
  BY <1>1, <1>2, LenProperties
<1> QED
  BY <1>2, <1>3

\* A message that is not a request, or a request with the next id, keeps the
\* ids of the requests allocated and increasing.
LEMMA AppendKeepsOrder ==
  ASSUME IInv, NEW m \in Message, wire' = Append(wire, m),
         nextId' \in {nextId, nextId + 1},
         m.kind = "request" => m.id = nextId /\ nextId' = nextId + 1
  PROVE  IdsAllocated' /\ RequestsInOrder'
<1>1. nextId \in Nat \ {0}
  BY ClientAssumption DEF IInv, TypeOK
<1> QED
  BY <1>1, WireAppend DEF IInv, IdsAllocated, RequestsInOrder

\* An answer may be sent at any time once `initialize' was, and anything else
\* but `initialize' once the session is open.
LEMMA AppendKeepsHandshake ==
  ASSUME IInv, NEW m \in Message, wire' = Append(wire, m),
         state # "Uninitialized",
         m.kind = "response" \/ (Opened /\ m.method # "initialize")
  PROVE  HandshakeFirst'
<1>1. Len(wire) \in Nat \ {0}
  BY EmptySeq, LenProperties DEF IInv, TypeOK, Phases
<1>2. \A i \in DOMAIN wire' : wire'[i].kind # "response" =>
        /\ (wire'[i].method = "initialize") <=> (i = 1)
        /\ wire'[i].method \notin {"initialize", "initialized"} =>
             \E j \in 1..(i - 1) : wire'[j] = Initialized
  BY <1>1, WireAppend DEF IInv, HandshakeFirst, Opened
<1> QED
  BY <1>2 DEF HandshakeFirst, Initialized, Note, NoId

\* A request is given the next id and becomes pending.
LEMMA Allocated ==
  ASSUME TypeOK, nextId <= MaxId, nextId' = nextId + 1,
         NEW method \in Methods \cup {"initialize", "shutdown"},
         pending' = With(pending, nextId, method)
  PROVE  /\ nextId \in Nat \ {0} /\ nextId' \in 1..(MaxId + 1)
         /\ DOMAIN pending' = DOMAIN pending \cup {nextId}
         /\ DOMAIN pending' \subseteq 1..(nextId' - 1)
         /\ \A id \in DOMAIN pending' :
               pending'[id] \in [method : Methods \cup {"initialize", "shutdown"},
                                 cancelled : BOOLEAN]
         /\ nextId \notin DOMAIN pending /\ pending'[nextId].method = method
         /\ \A id \in DOMAIN pending : pending'[id] = pending[id]
         /\ queued \in Seq(1..(nextId' - 1))
         /\ initializeId \in 0..(nextId' - 1) /\ shutdownId \in 0..(nextId' - 1)
<1>1. nextId \in Nat \ {0} /\ nextId' \in 1..(MaxId + 1)
  BY ClientAssumption DEF TypeOK
<1>2. DOMAIN pending \subseteq 1..(nextId - 1)
  BY DEF TypeOK
<1>3. 1..(nextId - 1) \subseteq 1..(nextId' - 1)
  BY <1>1
<1>4. queued \in Seq(1..(nextId' - 1))
  BY <1>3, SeqMonotonic DEF TypeOK
<1>5. nextId \notin DOMAIN pending
  BY <1>1, <1>2
<1>6. /\ DOMAIN pending' = DOMAIN pending \cup {nextId}
      /\ pending'[nextId] = [method |-> method, cancelled |-> FALSE]
      /\ \A id \in DOMAIN pending : pending'[id] = pending[id]
  <2>1. /\ DOMAIN With(pending, nextId, method) = DOMAIN pending \cup {nextId}
        /\ With(pending, nextId, method)[nextId] =
             [method |-> method, cancelled |-> FALSE]
        /\ \A id \in DOMAIN pending :
             id # nextId => With(pending, nextId, method)[id] = pending[id]
    BY DEF With
  <2> QED
    BY <1>5, <2>1, Zenon
<1>7. DOMAIN pending' \subseteq 1..(nextId' - 1)
  BY <1>1, <1>2, <1>6
<1>8. \A id \in DOMAIN pending' :
        pending'[id] \in [method : Methods \cup {"initialize", "shutdown"},
                          cancelled : BOOLEAN]
  <2>1. \A id \in DOMAIN pending :
          pending[id] \in [method : Methods \cup {"initialize", "shutdown"},
                           cancelled : BOOLEAN]
    BY DEF TypeOK
  <2>2. pending'[nextId] \in [method : Methods \cup {"initialize", "shutdown"},
                             cancelled : BOOLEAN]
    BY <1>6
  <2> QED
    BY <1>6, <2>1, <2>2, Zenon
<1>9. initializeId \in 0..(nextId' - 1) /\ shutdownId \in 0..(nextId' - 1)
  BY <1>1 DEF TypeOK
<1> QED
  BY <1>1, <1>4, <1>5, <1>6, <1>7, <1>8, <1>9

\* A request is no longer pending.
LEMMA Forgotten ==
  ASSUME TypeOK, nextId' = nextId, NEW id, pending' = Without(pending, id)
  PROVE  /\ DOMAIN pending' = DOMAIN pending \ {id}
         /\ DOMAIN pending' \subseteq 1..(nextId' - 1)
         /\ \A i \in DOMAIN pending' : pending'[i] = pending[i]
         /\ \A i \in DOMAIN pending' :
               pending'[i] \in [method : Methods \cup {"initialize", "shutdown"},
                                cancelled : BOOLEAN]
<1>1. /\ DOMAIN Without(pending, id) = DOMAIN pending \ {id}
      /\ \A i \in DOMAIN pending : i # id => Without(pending, id)[i] = pending[i]
  BY DEF Without
<1>2. /\ DOMAIN pending' = DOMAIN pending \ {id}
      /\ \A i \in DOMAIN pending' : pending'[i] = pending[i]
  BY <1>1, Zenon
<1>3. /\ DOMAIN pending \subseteq 1..(nextId - 1)
      /\ \A i \in DOMAIN pending :
            pending[i] \in [method : Methods \cup {"initialize", "shutdown"},
                            cancelled : BOOLEAN]
  BY DEF TypeOK
<1> QED
  BY <1>2, <1>3, Zenon

(***************************************************************************)
(* The initial states and each action.                                     *)
(***************************************************************************)
\* The invariant holds when the process has just been started.
LEMMA InitIInv == Init => IInv
<1> SUFFICES ASSUME Init PROVE IInv
  OBVIOUS
<1>1. /\ pending = <<>> /\ queued = <<>> /\ wire = <<>> /\ delivered = <<>>
      /\ asked = <<>> /\ nextId = 1 /\ state = "Uninitialized"
      /\ initializeId = 0 /\ shutdownId = 0
  BY DEF Init, ClientInit, NoId
<1>2. TypeOK
  BY <1>1, EmptySeq, ClientAssumption DEF TypeOK, States
<1>3. DOMAIN wire = {} /\ DOMAIN queued = {} /\ DOMAIN pending = {}
  BY <1>1
<1> QED
  BY <1>1, <1>2, <1>3
     DEF IInv, IdsAllocated, QueueOrdered, QueueWaits, QueueDrained, Phases,
         RequestsInOrder, HandshakeFirst

\* `initialize' is the first request: nothing is queued and nothing was sent.
LEMMA InitializeStep ==
  ASSUME IInv, Initialize PROVE IInv'
<1> DEFINE m == Req("initialize", nextId)
<1>1. /\ wire = <<>> /\ queued = <<>> /\ delivered = <<>> /\ DOMAIN pending = {}
  BY DEF IInv, Phases, Initialize
<1>2. /\ nextId' = nextId + 1 /\ nextId <= MaxId /\ initializeId' = nextId
      /\ pending' = With(pending, nextId, "initialize")
      /\ wire' = Append(wire, m) /\ state' = "Initializing"
      /\ UNCHANGED <<queued, shutdownId, delivered, asked>>
  BY DEF Initialize
<1>3. m \in Message /\ m.kind = "request" /\ m.id = nextId /\ m.method = "initialize"
  BY ClientAssumption DEF Req, Message, IInv, TypeOK
<1> HIDE DEF m
<1>4. Len(wire) = 0
  BY <1>1
<1>5. /\ wire' \in Seq(Message) /\ wire' # <<>> /\ DOMAIN wire' = 1..1
      /\ wire'[1] = m
  BY <1>2, <1>3, <1>4, WireAppend DEF IInv
<1>6. TypeOK'
  BY <1>2, <1>5, Allocated DEF IInv, TypeOK, States
<1>7. DOMAIN queued' = {}
  BY <1>1, <1>2
<1>8. IdsAllocated' /\ RequestsInOrder'
  BY <1>2, <1>3, AppendKeepsOrder
<1>9. QueueOrdered' /\ QueueWaits' /\ QueueDrained'
  BY <1>2, <1>7 DEF QueueOrdered, QueueWaits, QueueDrained
<1>10. Phases'
  BY <1>1, <1>2, <1>3, <1>5, Allocated DEF IInv, Phases
<1>11. HandshakeFirst'
  BY <1>3, <1>5 DEF HandshakeFirst
<1> QED
  BY <1>6, <1>8, <1>9, <1>10, <1>11 DEF IInv

\* A request is sent at once, or waits behind the ones raised before it.
LEMMA RequestStep ==
  ASSUME IInv, NEW method \in Methods, Request(method) PROVE IInv'
<1> DEFINE m == Req(method, nextId)
<1>1. /\ nextId' = nextId + 1 /\ nextId <= MaxId
      /\ pending' = With(pending, nextId, method)
      /\ UNCHANGED <<state, initializeId, shutdownId, delivered, asked>>
  BY DEF Request
<1>2. m \in Message /\ m.kind = "request" /\ m.id = nextId /\ m.method = method
  BY ClientAssumption DEF Req, Message, IInv, TypeOK
<1>3. method # "initialize" /\ state # "Uninitialized"
  BY ClientAssumption DEF Request
<1>4. /\ nextId \in Nat \ {0} /\ nextId' \in 1..(MaxId + 1)
      /\ DOMAIN pending' = DOMAIN pending \cup {nextId}
      /\ DOMAIN pending' \subseteq 1..(nextId' - 1)
      /\ \A id \in DOMAIN pending' :
            pending'[id] \in [method : Methods \cup {"initialize", "shutdown"},
                              cancelled : BOOLEAN]
      /\ nextId \notin DOMAIN pending /\ pending'[nextId].method = method
      /\ \A id \in DOMAIN pending : pending'[id] = pending[id]
      /\ queued \in Seq(1..(nextId' - 1))
      /\ initializeId \in 0..(nextId' - 1) /\ shutdownId \in 0..(nextId' - 1)
  BY <1>1, Allocated DEF IInv
<1> HIDE DEF m
<1>5. CASE state = "Initializing"
  <2>1. queued' = Append(queued, nextId) /\ wire' = wire
    BY <1>5 DEF Request
  <2>2. /\ queued' \in Seq(1..(nextId' - 1)) /\ Len(queued) \in Nat
        /\ DOMAIN queued = 1..Len(queued) /\ DOMAIN queued' = 1..(Len(queued) + 1)
        /\ \A i \in 1..Len(queued) : queued'[i] = queued[i]
        /\ queued'[Len(queued) + 1] = nextId
    <3>1. nextId \in 1..(nextId' - 1)
      BY <1>1, <1>4
    <3>2. /\ queued' \in Seq(1..(nextId' - 1))
          /\ Len(queued') = Len(queued) + 1
          /\ \A i \in 1..Len(queued) : queued'[i] = queued[i]
          /\ queued'[Len(queued) + 1] = nextId
      <4> DEFINE S == 1..(nextId' - 1)
      <4>1. queued \in Seq(S) /\ nextId \in S
        BY <1>4, <3>1
      <4> HIDE DEF S
      <4>2. /\ Append(queued, nextId) \in Seq(S)
            /\ Len(Append(queued, nextId)) = Len(queued) + 1
            /\ \A i \in 1..Len(queued) : Append(queued, nextId)[i] = queued[i]
            /\ Append(queued, nextId)[Len(queued) + 1] = nextId
        BY <4>1, AppendProperties
      <4> QED
        BY <2>1, <4>2 DEF S
    <3> QED
      BY <1>4, <3>2, LenProperties
  <2>3. TypeOK'
    BY <1>1, <1>4, <2>1, <2>2 DEF IInv, TypeOK
  <2>4. IdsAllocated' /\ RequestsInOrder' /\ HandshakeFirst'
    BY <1>1, <1>4, <2>1
       DEF IInv, TypeOK, IdsAllocated, RequestsInOrder, HandshakeFirst
  <2>5. QueueOrdered'
    <3>1. \A i \in 1..Len(queued) : queued[i] < nextId
      BY <1>4, <2>2 DEF IInv, TypeOK, QueueWaits
    <3> QED
      BY <2>2, <3>1 DEF IInv, QueueOrdered
  <2>6. QueueWaits'
    <3>1. \A i \in DOMAIN wire : wire[i].kind = "request" => wire[i].id < nextId
      BY <1>4 DEF IInv, IdsAllocated
    <3> QED
      BY <1>4, <2>1, <2>2, <3>1 DEF IInv, QueueWaits
  <2>7. QueueDrained'
    BY <1>1, <1>5 DEF QueueDrained
  <2>8. QueuedIds' = QueuedIds \cup {nextId}
    BY <2>2 DEF QueuedIds
  <2>9. Phases'
    BY <1>1, <1>4, <1>5, <2>1, <2>8 DEF IInv, Phases, Opened
  <2> QED
    BY <2>3, <2>4, <2>5, <2>6, <2>7, <2>9 DEF IInv
<1>6. CASE state # "Initializing"
  <2>1. queued' = queued /\ wire' = Append(wire, m) /\ state = "Ready"
    BY <1>6 DEF Request, m
  <2>2. Opened /\ queued = <<>>
    BY <2>1 DEF IInv, Phases, QueueDrained
  <2>3. TypeOK'
    BY <1>1, <1>2, <1>4, <2>1, WireAppend DEF IInv, TypeOK
  <2>4. IdsAllocated' /\ RequestsInOrder'
    BY <1>1, <1>2, <2>1, AppendKeepsOrder
  <2>5. HandshakeFirst'
    BY <1>2, <1>3, <2>1, <2>2, AppendKeepsHandshake
  <2>6. QueueOrdered' /\ QueueWaits' /\ QueueDrained'
    BY <2>1, <2>2 DEF QueueOrdered, QueueWaits, QueueDrained
  <2>7. Opened' /\ wire' # <<>> /\ wire'[1].method = "initialize" /\ wire'[1].kind = "request"
    BY <1>2, <1>3, <2>1, <2>2, WireAppend DEF IInv, Opened, Phases, Initialized, Note
  <2>8. Phases'
    BY <1>1, <1>3, <2>7 DEF Phases
  <2> QED
    BY <2>3, <2>4, <2>5, <2>6, <2>8 DEF IInv
<1> QED
  BY <1>5, <1>6

\* A message that is not a request, with nothing but the history changed.
LEMMA WireStep ==
  ASSUME IInv, NEW m \in Message, m.kind # "request", wire' = Append(wire, m),
         state # "Uninitialized",
         m.kind = "response" \/ (Opened /\ m.method # "initialize"),
         UNCHANGED clientVars,
         delivered' \in Seq(EditorEvent), asked' \in Seq(ServerMethods)
  PROVE  IInv'
<1>1. UNCHANGED <<state, nextId, pending, queued, initializeId, shutdownId>>
  BY DEF clientVars
<1>2. /\ wire' \in Seq(Message) /\ wire' # <<>>
      /\ Len(wire) \in Nat \ {0}
      /\ DOMAIN wire = 1..Len(wire) /\ DOMAIN wire' = 1..(Len(wire) + 1)
      /\ \A i \in 1..Len(wire) : wire'[i] = wire[i]
      /\ wire'[Len(wire) + 1] = m
  BY WireAppend, EmptySeq DEF IInv, TypeOK, Phases
<1>3. TypeOK'
  BY <1>1, <1>2 DEF IInv, TypeOK
<1>4. IdsAllocated' /\ RequestsInOrder'
  BY <1>1, AppendKeepsOrder
<1>5. HandshakeFirst'
  BY AppendKeepsHandshake
<1>6. QueueOrdered' /\ QueueDrained'
  BY <1>1 DEF IInv, QueueOrdered, QueueDrained
<1>7. QueueWaits'
  BY <1>1, <1>2 DEF IInv, QueueWaits
<1>8. Opened => Opened'
  BY <1>2 DEF Opened, Initialized, Note
<1>9. QueuedIds' = QueuedIds
  BY <1>1 DEF QueuedIds
<1>10. ~Opened' => /\ \A i \in DOMAIN wire' : i = 1 \/ wire'[i].kind = "response"
                   /\ DOMAIN pending' \subseteq QueuedIds' \cup {initializeId'}
  BY <1>1, <1>2, <1>8, <1>9 DEF IInv, Phases
<1>11. wire'[1].method = "initialize" /\ wire'[1].kind = "request"
  BY <1>2 DEF IInv, Phases
<1>12. Phases'
  BY <1>1, <1>2, <1>8, <1>10, <1>11 DEF IInv, Phases
<1> QED
  BY <1>3, <1>4, <1>5, <1>6, <1>7, <1>12 DEF IInv

\* What was sent does not wait.
LEMMA SentIsNotQueued ==
  ASSUME IInv, NEW id \in SentIds
  PROVE  id \in 1..(nextId - 1) /\ \A i \in DOMAIN queued : queued[i] # id
<1>1. PICK j \in DOMAIN wire : wire[j].kind = "request" /\ wire[j].id = id
  BY DEF SentIds
<1>2. \A i \in DOMAIN queued : queued[i] \in Nat /\ id < queued[i]
  <2>1. nextId \in Nat /\ queued \in Seq(1..(nextId - 1))
    BY ClientAssumption DEF IInv, TypeOK
  <2>2. \A i \in DOMAIN queued : queued[i] \in 1..(nextId - 1)
    BY <2>1, LenProperties, ElementOfSeq
  <2> QED
    BY <1>1, <2>1, <2>2 DEF IInv, QueueWaits
<1>3. id \in 1..(nextId - 1)
  BY <1>1 DEF IInv, IdsAllocated
<1> QED
  BY <1>2, <1>3

\* A sent request is no longer pending, with nothing else of the client changed.
LEMMA ReplyStep ==
  ASSUME IInv, NEW id \in SentIds, pending' = Without(pending, id),
         UNCHANGED <<state, nextId, queued, initializeId, shutdownId, wire, asked>>,
         delivered' \in Seq(EditorEvent)
  PROVE  IInv'
<1>1. PICK j \in DOMAIN wire : wire[j].kind = "request" /\ wire[j].id = id
  BY DEF SentIds
<1>2. /\ DOMAIN pending' = DOMAIN pending \ {id}
      /\ DOMAIN pending' \subseteq 1..(nextId' - 1)
      /\ \A i \in DOMAIN pending' : pending'[i] = pending[i]
      /\ \A i \in DOMAIN pending' :
            pending'[i] \in [method : Methods \cup {"initialize", "shutdown"},
                             cancelled : BOOLEAN]
  BY Forgotten DEF IInv
<1>3. TypeOK'
  BY <1>2 DEF IInv, TypeOK
<1>4. \A i \in DOMAIN queued : queued[i] # id
  BY SentIsNotQueued
<1>5. QueueWaits'
  BY <1>2, <1>4 DEF IInv, QueueWaits
<1>6. /\ IdsAllocated' /\ RequestsInOrder' /\ HandshakeFirst'
      /\ QueueOrdered' /\ QueueDrained'
  BY DEF IInv, IdsAllocated, RequestsInOrder, HandshakeFirst, QueueOrdered,
         QueueDrained
<1>7. state # "Uninitialized"
  BY <1>1 DEF IInv, Phases
<1>8. (Opened' <=> Opened) /\ QueuedIds' = QueuedIds
  BY DEF Opened, QueuedIds
<1>9. Phases'
  BY <1>2, <1>7, <1>8 DEF IInv, Phases
<1> QED
  BY <1>3, <1>5, <1>6, <1>9 DEF IInv

\* A notification is only ever sent on an open session.
LEMMA NotifyStep ==
  ASSUME IInv, Notify PROVE IInv'
<1> DEFINE m == Note("didChange", NoId)
<1>1. m \in Message /\ m.kind # "request" /\ m.method # "initialize"
  BY DEF Note, NoId, Message
<1>2. wire' = Append(wire, m) /\ UNCHANGED <<clientVars, delivered, asked>>
      /\ state = "Ready"
  BY DEF Notify
<1> HIDE DEF m
<1>3. Opened /\ delivered' \in Seq(EditorEvent) /\ asked' \in Seq(ServerMethods)
  BY <1>2 DEF IInv, Phases, TypeOK
<1> QED
  BY <1>1, <1>2, <1>3, WireStep

\* The reply to the server's own request is not a request.
LEMMA AnswerApplyEditStep ==
  ASSUME IInv, NEW id \in ServerIds, AnswerApplyEdit(id) PROVE IInv'
<1>0. id \in Nat
  BY ClientAssumption DEF ServerIds
<1>1. PICK result \in {"applied", "not applied"} :
         wire' = Append(wire, Ans(result, id))
  BY DEF AnswerApplyEdit
<1>2. /\ Ans(result, id) \in Message /\ Ans(result, id).kind = "response"
  <2>1. result \in Results
    BY DEF Results
  <2> QED
    BY <1>0, <2>1 DEF Ans, Message
<1>3. UNCHANGED <<clientVars, delivered, asked>> /\ id \in PassedIds
  BY DEF AnswerApplyEdit
<1>4. state # "Uninitialized"
  <2>1. PICK i \in DOMAIN delivered : delivered[i].id = id
    BY <1>3 DEF PassedIds
  <2>2. delivered = <<>> => DOMAIN delivered = {}
    BY EmptyDomain, Zenon
  <2> QED
    BY <2>1, <2>2 DEF IInv, Phases
<1>5. delivered' \in Seq(EditorEvent) /\ asked' \in Seq(ServerMethods)
  BY <1>3 DEF IInv, TypeOK
<1> QED
  BY <1>1, <1>2, <1>3, <1>4, <1>5, WireStep

\* Answering, or refusing, a request of the server's.
LEMMA HandleServerRequestStep ==
  ASSUME IInv, NEW method \in ServerMethods, HandleServerRequest(method)
  PROVE  IInv'
<1> DEFINE id == Len(asked) + 1
           event == Event("ApplyEdit", method, id)
<1>1. /\ state \notin {"Uninitialized", "Exited"} /\ UNCHANGED clientVars
      /\ asked' = Append(asked, method)
  BY DEF HandleServerRequest
<1>2. asked' \in Seq(ServerMethods) /\ id \in Nat
  <2>1. asked \in Seq(ServerMethods)
    BY DEF IInv, TypeOK
  <2> QED
    BY <1>1, <2>1, AppendProperties, LenProperties
<1>3. delivered \in Seq(EditorEvent)
  BY DEF IInv, TypeOK
<1>4. CASE method = ApplyEdit /\ RunningCommand
  <2>1. delivered' = Append(delivered, event) /\ wire' = wire
    BY <1>4 DEF HandleServerRequest
  <2>2. event \in EditorEvent
    BY <1>2, <1>4 DEF Event, EditorEvent
  <2> HIDE DEF event
  <2>3. delivered' \in Seq(EditorEvent)
    BY <1>3, <2>1, <2>2, AppendProperties
  <2>4. UNCHANGED <<state, nextId, pending, queued, initializeId, shutdownId, wire>>
    BY <1>1, <2>1 DEF clientVars
  <2>5. TypeOK'
    BY <1>2, <2>3, <2>4 DEF IInv, TypeOK
  <2>6. Opened' = Opened /\ QueuedIds' = QueuedIds
    BY <2>4 DEF Opened, QueuedIds
  <2>7. Phases'
    BY <1>1, <2>4, <2>6 DEF IInv, Phases
  <2>8. /\ IdsAllocated' /\ RequestsInOrder' /\ HandshakeFirst'
        /\ QueueOrdered' /\ QueueDrained' /\ QueueWaits'
    BY <2>4 DEF IInv, IdsAllocated, RequestsInOrder, HandshakeFirst, QueueOrdered,
                QueueDrained, QueueWaits
  <2> QED
    BY <2>5, <2>7, <2>8 DEF IInv
<1>5. CASE ~(method = ApplyEdit /\ RunningCommand)
  <2>1. PICK result \in Results : wire' = Append(wire, Ans(result, id))
    BY <1>5 DEF HandleServerRequest, Results
  <2>2. delivered' = delivered
    BY <1>5 DEF HandleServerRequest
  <2>3. Ans(result, id) \in Message /\ Ans(result, id).kind = "response"
    BY <1>2 DEF Ans, Message
  <2> HIDE DEF id
  <2> QED
    BY <1>1, <1>2, <1>3, <2>1, <2>2, <2>3, WireStep
<1> QED
  BY <1>4, <1>5

\* The answer to `shutdown' leaves the conversation as it was.
LEMMA AnswerShutdownStep ==
  ASSUME IInv, NEW id \in Ids, AnswerShutdown(id) PROVE IInv'
<1>1. /\ id \in SentIds /\ pending' = Without(pending, id)
      /\ UNCHANGED <<state, nextId, queued, initializeId, shutdownId, wire, asked>>
      /\ delivered' = delivered
  BY DEF AnswerShutdown, Replies
<1>2. delivered' \in Seq(EditorEvent)
  BY <1>1 DEF IInv, TypeOK
<1> QED
  BY <1>1, <1>2, ReplyStep

\* A reply forgets the request it names, or nothing at all.
LEMMA HandleResponseStep ==
  ASSUME IInv, NEW id \in Ids, HandleResponse(id) PROVE IInv'
<1> DEFINE event == Event("Response", pending[id].method, id)
<1>1. /\ id \in SentIds /\ pending' = Without(pending, id)
      /\ UNCHANGED <<state, nextId, queued, initializeId, shutdownId, wire, asked>>
      /\ delivered' \in {delivered, Append(delivered, event)}
      /\ id \in DOMAIN pending
  BY DEF HandleResponse, Replies
<1>2. event \in EditorEvent
  <2>1. pending[id].method \in Methods \cup {"initialize", "shutdown"}
    BY <1>1 DEF IInv, TypeOK
  <2>2. id \in Nat
    BY ClientAssumption DEF Ids
  <2> QED
    BY <2>1, <2>2 DEF Event, EditorEvent
<1> HIDE DEF event
<1>3. delivered' \in Seq(EditorEvent)
  <2>1. delivered \in Seq(EditorEvent)
    BY DEF IInv, TypeOK
  <2>2. Append(delivered, event) \in Seq(EditorEvent)
    BY <1>2, <2>1, AppendProperties
  <2> QED
    BY <1>1, <2>1, <2>2
<1> QED
  BY <1>1, <1>3, ReplyStep

\* Cancelling what waits removes it from the queue, the others keep their order.
LEMMA CancelQueuedStep ==
  ASSUME IInv, NEW id \in Ids, CancelQueued(id) PROVE IInv'
<1>1. PICK k \in DOMAIN queued : queued[k] = id /\ queued' = RemoveAt(queued, k)
  BY DEF CancelQueued
<1>2. /\ pending' = Without(pending, id)
      /\ UNCHANGED <<state, nextId, initializeId, shutdownId, wire, delivered, asked>>
  BY DEF CancelQueued
<1>3. /\ queued \in Seq(1..(nextId - 1)) /\ Len(queued) \in Nat
      /\ DOMAIN queued = 1..Len(queued)
  BY LenProperties DEF IInv, TypeOK
<1>4. /\ queued' \in Seq(1..(nextId - 1)) /\ DOMAIN queued' = 1..(Len(queued) - 1)
      /\ \A j \in 1..(Len(queued) - 1) :
            queued'[j] = IF j < k THEN queued[j] ELSE queued[j + 1]
  <2> DEFINE S == 1..(nextId - 1)
             rest == RemoveAt(queued, k)
  <2>1. queued \in Seq(S) /\ k \in 1..Len(queued)
    BY <1>1, <1>3
  <2> HIDE DEF S
  <2>2. /\ rest \in Seq(S) /\ Len(rest) = Len(queued) - 1
        /\ \A j \in 1..(Len(queued) - 1) :
              rest[j] = IF j < k THEN queued[j] ELSE queued[j + 1]
    BY <2>1, RemoveAtKeeps
  <2>3. DOMAIN rest = 1..Len(rest)
    BY <2>2, LenProperties
  <2> HIDE DEF rest
  <2>4. queued' = rest
    BY <1>1 DEF rest
  <2> QED
    BY <2>2, <2>3, <2>4 DEF S
<1>5. /\ DOMAIN pending' = DOMAIN pending \ {id}
      /\ DOMAIN pending' \subseteq 1..(nextId' - 1)
      /\ \A i \in DOMAIN pending' : pending'[i] = pending[i]
      /\ \A i \in DOMAIN pending' :
            pending'[i] \in [method : Methods \cup {"initialize", "shutdown"},
                             cancelled : BOOLEAN]
  BY <1>2, Forgotten DEF IInv
<1>6. TypeOK'
  BY <1>2, <1>4, <1>5 DEF IInv, TypeOK
<1>7. IdsAllocated' /\ RequestsInOrder' /\ HandshakeFirst'
  BY <1>2 DEF IInv, IdsAllocated, RequestsInOrder, HandshakeFirst
<1>8. \A i \in DOMAIN queued : queued[i] \in Nat
  <2>1. \A i \in DOMAIN queued : queued[i] \in 1..(nextId - 1)
    BY <1>3, ElementOfSeq
  <2>2. nextId \in Nat
    BY ClientAssumption DEF IInv, TypeOK
  <2> QED
    BY <2>1, <2>2
<1>9. \A j \in DOMAIN queued' :
         /\ j \in DOMAIN queued /\ j + 1 \in DOMAIN queued
         /\ queued'[j] = IF j < k THEN queued[j] ELSE queued[j + 1]
  BY <1>3, <1>4
<1>10. QueueOrdered'
  <2> SUFFICES ASSUME NEW i \in DOMAIN queued', NEW j \in DOMAIN queued', i < j
               PROVE  queued'[i] < queued'[j]
    BY DEF QueueOrdered
  <2>1. i \in Nat /\ j \in Nat /\ k \in Nat
    BY <1>1, <1>3, <1>4
  <2> QED
    BY <1>9, <2>1 DEF IInv, QueueOrdered
<1>11. \A j \in DOMAIN queued' : queued'[j] # id
  <2> SUFFICES ASSUME NEW j \in DOMAIN queued' PROVE queued'[j] # id
    OBVIOUS
  <2>1. j \in Nat /\ k \in Nat
    BY <1>1, <1>3, <1>4
  <2>2. CASE j < k
    BY <1>1, <1>8, <1>9, <2>1, <2>2 DEF IInv, QueueOrdered
  <2>3. CASE ~(j < k)
    <3>1. k < j + 1 /\ queued'[j] = queued[j + 1]
      BY <1>9, <2>1, <2>3
    <3> QED
      BY <1>1, <1>8, <1>9, <3>1 DEF IInv, QueueOrdered
  <2> QED
    BY <2>2, <2>3
<1>12. QueueWaits'
  BY <1>2, <1>5, <1>9, <1>11 DEF IInv, QueueWaits
<1>13. queued # <<>>
  <2>1. queued = <<>> => DOMAIN queued = {}
    BY EmptyDomain, Zenon
  <2> QED
    BY <1>1, <2>1
<1>14. QueueDrained'
  BY <1>2, <1>13 DEF IInv, QueueDrained
<1>15. \A x \in QueuedIds : x # id => x \in QueuedIds'
  <2> SUFFICES ASSUME NEW i \in DOMAIN queued, queued[i] # id
               PROVE  \E j \in DOMAIN queued' : queued'[j] = queued[i]
    BY DEF QueuedIds
  <2>1. i # k /\ i \in 1..Len(queued) /\ k \in 1..Len(queued)
    BY <1>1, <1>3
  <2>2. CASE i < k
    BY <1>3, <1>4, <2>1, <2>2
  <2>3. CASE ~(i < k)
    <3>1. i - 1 \in 1..(Len(queued) - 1) /\ ~(i - 1 < k) /\ (i - 1) + 1 = i
      BY <1>3, <2>1, <2>3
    <3> QED
      BY <1>4, <3>1
  <2> QED
    BY <2>2, <2>3
<1>16. (Opened' <=> Opened) /\ state # "Uninitialized"
  BY <1>2, <1>13 DEF IInv, Phases, Opened
<1>17. Phases'
  BY <1>2, <1>5, <1>15, <1>16 DEF IInv, Phases
<1> QED
  BY <1>6, <1>7, <1>10, <1>12, <1>14, <1>17 DEF IInv

\* Cancelling what was sent tells the server and forgets the request.
LEMMA CancelSentStep ==
  ASSUME IInv, NEW id \in Ids, id \notin {initializeId, shutdownId}, CancelSent(id)
  PROVE  IInv'
<1> DEFINE m == Note("$/cancelRequest", id)
<1>1. /\ id \in DOMAIN pending \ QueuedIds
      /\ pending' = [pending EXCEPT ![id].cancelled = TRUE]
      /\ wire' = Append(wire, m)
      /\ UNCHANGED <<state, nextId, queued, initializeId, shutdownId, delivered, asked>>
  BY DEF CancelSent
<1>2. m \in Message /\ m.kind # "request" /\ m.method # "initialize"
  <2>1. id \in Nat
    BY ClientAssumption DEF Ids
  <2> QED
    BY <2>1 DEF Note, Message
<1> HIDE DEF m
<1>3. state # "Uninitialized" /\ Opened
  BY <1>1 DEF IInv, Phases
<1>4. /\ wire' \in Seq(Message) /\ wire' # <<>>
      /\ Len(wire) \in Nat \ {0}
      /\ DOMAIN wire = 1..Len(wire) /\ DOMAIN wire' = 1..(Len(wire) + 1)
      /\ \A i \in 1..Len(wire) : wire'[i] = wire[i]
      /\ wire'[Len(wire) + 1] = m
  BY <1>1, <1>2, <1>3, WireAppend, EmptySeq DEF IInv, TypeOK, Phases
<1>5. /\ DOMAIN pending' = DOMAIN pending
      /\ \A i \in DOMAIN pending :
            /\ pending'[i].method = pending[i].method
            /\ pending'[i] \in [method : Methods \cup {"initialize", "shutdown"},
                                cancelled : BOOLEAN]
  <2>1. \A i \in DOMAIN pending :
           pending[i] \in [method : Methods \cup {"initialize", "shutdown"},
                           cancelled : BOOLEAN]
    BY DEF IInv, TypeOK
  <2> QED
    BY <1>1, <2>1
<1>6. TypeOK'
  BY <1>1, <1>4, <1>5 DEF IInv, TypeOK
<1>7. IdsAllocated' /\ RequestsInOrder'
  BY <1>1, <1>2, AppendKeepsOrder
<1>8. HandshakeFirst'
  BY <1>1, <1>2, <1>3, AppendKeepsHandshake
<1>9. QueueOrdered' /\ QueueDrained'
  BY <1>1 DEF IInv, QueueOrdered, QueueDrained
<1>10. QueueWaits'
  BY <1>1, <1>2, <1>4, <1>5 DEF IInv, QueueWaits
<1>11. Opened' /\ wire'[1].method = "initialize" /\ wire'[1].kind = "request"
  BY <1>3, <1>4 DEF IInv, Phases, Opened, Initialized, Note
<1>12. Phases'
  BY <1>1, <1>3, <1>4, <1>11 DEF Phases
<1> QED
  BY <1>6, <1>7, <1>8, <1>9, <1>10, <1>12 DEF IInv

\* `shutdown' is the last request, and nothing waits behind it.
LEMMA ShutdownStep ==
  ASSUME IInv, Shutdown PROVE IInv'
<1> DEFINE m == Req("shutdown", nextId)
<1>1. /\ state = "Ready" /\ state' = "ShuttingDown"
      /\ nextId' = nextId + 1 /\ nextId <= MaxId /\ shutdownId' = nextId
      /\ pending' = With(pending, nextId, "shutdown")
      /\ wire' = Append(wire, m)
      /\ UNCHANGED <<queued, initializeId, delivered, asked>>
  BY DEF Shutdown
<1>2. m \in Message /\ m.kind = "request" /\ m.id = nextId /\ m.method = "shutdown"
  BY ClientAssumption DEF Req, Message, IInv, TypeOK
<1> HIDE DEF m
<1>3. /\ wire' \in Seq(Message) /\ wire' # <<>>
      /\ Len(wire) \in Nat \ {0}
      /\ DOMAIN wire = 1..Len(wire) /\ DOMAIN wire' = 1..(Len(wire) + 1)
      /\ \A i \in 1..Len(wire) : wire'[i] = wire[i]
      /\ wire'[Len(wire) + 1] = m
  BY <1>1, <1>2, WireAppend, EmptySeq DEF IInv, TypeOK, Phases
<1>4. Opened /\ queued = <<>> /\ DOMAIN queued' = {}
  BY <1>1 DEF IInv, Phases, QueueDrained
<1>5. /\ nextId \in Nat \ {0} /\ nextId' \in 1..(MaxId + 1)
      /\ DOMAIN pending' \subseteq 1..(nextId' - 1)
      /\ \A id \in DOMAIN pending' :
            pending'[id] \in [method : Methods \cup {"initialize", "shutdown"},
                              cancelled : BOOLEAN]
      /\ queued \in Seq(1..(nextId' - 1)) /\ initializeId \in 0..(nextId' - 1)
  BY <1>1, Allocated DEF IInv
<1>6. TypeOK'
  BY <1>1, <1>3, <1>5 DEF IInv, TypeOK, States
<1>7. IdsAllocated' /\ RequestsInOrder'
  BY <1>1, <1>2, AppendKeepsOrder
<1>8. HandshakeFirst'
  BY <1>1, <1>2, <1>4, AppendKeepsHandshake
<1>9. QueueOrdered' /\ QueueWaits' /\ QueueDrained'
  BY <1>1, <1>4 DEF QueueOrdered, QueueWaits, QueueDrained
<1>10. Opened' /\ wire'[1].method = "initialize" /\ wire'[1].kind = "request"
  BY <1>1, <1>3, <1>4 DEF IInv, Phases, Opened, Initialized, Note
<1>11. Phases'
  BY <1>1, <1>3, <1>10 DEF Phases
<1> QED
  BY <1>6, <1>7, <1>8, <1>9, <1>11 DEF IInv

\* `exit' is a notification that closes the conversation.
LEMMA ExitStep ==
  ASSUME IInv, Exit PROVE IInv'
<1> DEFINE m == Note("exit", NoId)
<1>1. /\ state = "ShuttingDown" /\ state' = "Exited"
      /\ pending' = <<>> /\ queued' = <<>> /\ wire' = Append(wire, m)
      /\ UNCHANGED <<nextId, initializeId, shutdownId, delivered, asked>>
  BY DEF Exit
<1>2. m \in Message /\ m.kind # "request" /\ m.method # "initialize"
  BY DEF Note, NoId, Message
<1> HIDE DEF m
<1>3. /\ wire' \in Seq(Message) /\ wire' # <<>>
      /\ Len(wire) \in Nat \ {0}
      /\ DOMAIN wire = 1..Len(wire) /\ DOMAIN wire' = 1..(Len(wire) + 1)
      /\ \A i \in 1..Len(wire) : wire'[i] = wire[i]
      /\ wire'[Len(wire) + 1] = m
  BY <1>1, <1>2, WireAppend, EmptySeq DEF IInv, TypeOK, Phases
<1>4. DOMAIN pending' = {} /\ DOMAIN queued' = {} /\ queued' \in Seq(1..(nextId - 1))
  BY <1>1, EmptySeq
<1>5. TypeOK'
  BY <1>1, <1>3, <1>4 DEF IInv, TypeOK, States
<1>6. IdsAllocated' /\ RequestsInOrder'
  BY <1>1, <1>2, AppendKeepsOrder
<1>7. Opened
  BY <1>1 DEF IInv, Phases
<1>8. HandshakeFirst'
  BY <1>1, <1>2, <1>7, AppendKeepsHandshake
<1>9. QueueOrdered' /\ QueueWaits' /\ QueueDrained'
  BY <1>1, <1>4 DEF QueueOrdered, QueueWaits, QueueDrained
<1>10. Opened' /\ wire'[1].method = "initialize" /\ wire'[1].kind = "request"
  BY <1>1, <1>3, <1>7 DEF IInv, Phases, Opened, Initialized, Note
<1>11. Phases'
  BY <1>1, <1>3, <1>10 DEF Phases
<1> QED
  BY <1>5, <1>6, <1>8, <1>9, <1>11 DEF IInv

\* What the handshake's reply sends: `initialized', then a request for each
\* that waited, in their order.
LEMMA ReadyWire ==
  ASSUME IInv, NEW id \in Ids, FinishInitialize(id, "ready")
  PROVE  LET L == Len(wire)
             Q == Len(queued)
         IN  /\ L \in Nat /\ DOMAIN wire = 1..L /\ Q \in Nat /\ DOMAIN queued = 1..Q
             /\ wire' \in Seq(Message) /\ DOMAIN wire' = 1..(L + 1 + Q)
             /\ \A i \in 1..L : wire'[i] = wire[i]
             /\ wire'[L + 1] = Initialized
             /\ \A i \in 1..Q :
                   wire'[L + 1 + i] = Req(pending[queued[i]].method, queued[i])
             /\ \A i \in DOMAIN wire' :
                   i \in 1..L \/ i = L + 1 \/ \E j \in 1..Q : i = L + 1 + j
<1> DEFINE rest == [i \in DOMAIN queued |->
                      Req(pending[queued[i]].method, queued[i])]
           L == Len(wire)
           Q == Len(queued)
<1>1. /\ id \in SentIds /\ id = initializeId /\ pending' = Without(pending, id)
      /\ state' = "Ready" /\ queued' = <<>>
      /\ wire' = Append(wire, Initialized) \o rest
      /\ UNCHANGED <<nextId, initializeId, shutdownId, delivered, asked>>
  BY DEF FinishInitialize, Replies
<1>2. /\ wire \in Seq(Message) /\ L \in Nat /\ DOMAIN wire = 1..L
      /\ queued \in Seq(1..(nextId - 1)) /\ Q \in Nat /\ DOMAIN queued = 1..Q
  BY LenProperties DEF IInv, TypeOK
<1>3. \A i \in 1..Q : /\ queued[i] \in 1..(nextId - 1)
                      /\ queued[i] \in DOMAIN pending
                      /\ pending[queued[i]].method \in Methods
  BY <1>2, ElementOfSeq DEF IInv, QueueWaits
<1>4. nextId \in Nat \ {0}
  BY ClientAssumption DEF IInv, TypeOK
<1>5. \A i \in 1..Q : /\ rest[i] \in Message /\ rest[i].kind = "request"
                      /\ rest[i].method \in Methods /\ rest[i].id = queued[i]
  BY <1>2, <1>3, <1>4 DEF Req, Message
<1>6. rest \in Seq(Message) /\ Len(rest) = Q
  <2>1. rest \in [1..Q -> Message]
    BY <1>2, <1>5
  <2>2. rest \in Seq(Message)
    BY <1>2, <2>1, SeqDef
  <2>3. DOMAIN rest = 1..Q /\ DOMAIN rest = 1..Len(rest) /\ Len(rest) \in Nat
    BY <2>1, <2>2, LenProperties
  <2> QED
    BY <1>2, <2>2, <2>3
<1>10. \A i \in 1..Q : rest[i] = Req(pending[queued[i]].method, queued[i])
  BY <1>2
<1> HIDE DEF rest
<1>7. /\ Initialized \in Message /\ Initialized.kind = "notification"
      /\ Initialized.method = "initialized"
  BY DEF Initialized, Note, NoId, Message
<1>8. /\ wire' \in Seq(Message) /\ Len(wire') = L + 1 + Q
      /\ DOMAIN wire' = 1..(L + 1 + Q)
      /\ \A i \in 1..L : wire'[i] = wire[i]
      /\ wire'[L + 1] = Initialized
      /\ \A i \in 1..Q : wire'[L + 1 + i] = rest[i]
  <2> DEFINE opening == Append(wire, Initialized)
  <2>1. /\ opening \in Seq(Message) /\ Len(opening) = L + 1
        /\ \A i \in 1..L : opening[i] = wire[i]
        /\ opening[L + 1] = Initialized
    BY <1>2, <1>7, AppendProperties
  <2> HIDE DEF opening
  <2>2. /\ opening \o rest \in Seq(Message)
        /\ Len(opening \o rest) = Len(opening) + Len(rest)
        /\ \A i \in 1..(Len(opening) + Len(rest)) : (opening \o rest)[i] =
              IF i <= Len(opening) THEN opening[i] ELSE rest[i - Len(opening)]
    <3>1. opening \in Seq(Message) /\ rest \in Seq(Message)
      BY <1>6, <2>1
    <3> QED
      BY <3>1, ConcatProperties
  <2>3. wire' = opening \o rest
    BY <1>1 DEF opening
  <2>4. /\ wire' \in Seq(Message) /\ Len(wire') = L + 1 + Q
        /\ DOMAIN wire' = 1..(L + 1 + Q)
    BY <1>6, <2>1, <2>2, <2>3, LenProperties
  <2> HIDE DEF L, Q
  <2>5. \A i \in 1..(L + 1 + Q) :
           wire'[i] = IF i <= L + 1 THEN opening[i] ELSE rest[i - (L + 1)]
    BY <1>6, <2>1, <2>2, <2>3
  <2>6. (\A i \in 1..L : wire'[i] = wire[i]) /\ wire'[L + 1] = Initialized
    BY <1>2, <2>1, <2>5
  <2>7. ASSUME NEW i \in 1..Q PROVE wire'[L + 1 + i] = rest[i]
    <3>1. /\ L + 1 + i \in 1..(L + 1 + Q) /\ ~(L + 1 + i <= L + 1)
          /\ (L + 1 + i) - (L + 1) = i
      BY <1>2
    <3> QED
      BY <2>5, <3>1
  <2> QED
    BY <2>4, <2>6, <2>7
<1>9. \A i \in DOMAIN wire' :
         i \in 1..L \/ i = L + 1 \/ \E j \in 1..Q : i = L + 1 + j
  <2> SUFFICES ASSUME NEW i \in DOMAIN wire', i \notin 1..L, i # L + 1
               PROVE  \E j \in 1..Q : i = L + 1 + j
    OBVIOUS
  <2>1. i - (L + 1) \in 1..Q /\ i = L + 1 + (i - (L + 1))
    BY <1>2, <1>8
  <2> QED
    BY <2>1
<1> QED
  BY <1>2, <1>10, <1>8, <1>9

\* The handshake's reply sends `initialized' and then what waited, in order.
LEMMA FinishInitializeReady ==
  ASSUME IInv, NEW id \in Ids, FinishInitialize(id, "ready") PROVE IInv'
<1> DEFINE rest == [i \in DOMAIN queued |->
                      Req(pending[queued[i]].method, queued[i])]
           L == Len(wire)
           Q == Len(queued)
<1>1. /\ id \in SentIds /\ id = initializeId /\ pending' = Without(pending, id)
      /\ state' = "Ready" /\ queued' = <<>>
      /\ wire' = Append(wire, Initialized) \o rest
      /\ UNCHANGED <<nextId, initializeId, shutdownId, delivered, asked>>
  BY DEF FinishInitialize, Replies
<1>2. /\ wire \in Seq(Message) /\ L \in Nat /\ DOMAIN wire = 1..L
      /\ queued \in Seq(1..(nextId - 1)) /\ Q \in Nat /\ DOMAIN queued = 1..Q
  BY LenProperties DEF IInv, TypeOK
<1>3. \A i \in 1..Q : /\ queued[i] \in 1..(nextId - 1)
                      /\ queued[i] \in DOMAIN pending
                      /\ pending[queued[i]].method \in Methods
  BY <1>2, ElementOfSeq DEF IInv, QueueWaits
<1>4. nextId \in Nat \ {0}
  BY ClientAssumption DEF IInv, TypeOK
<1>5. \A i \in 1..Q : /\ rest[i] \in Message /\ rest[i].kind = "request"
                      /\ rest[i].method \in Methods /\ rest[i].id = queued[i]
  BY <1>2, <1>3, <1>4 DEF Req, Message
<1>6. \A i \in 1..Q : rest[i] = Req(pending[queued[i]].method, queued[i])
  BY <1>2
<1> HIDE DEF rest
<1>7. /\ Initialized \in Message /\ Initialized.kind = "notification"
      /\ Initialized.method = "initialized"
  BY DEF Initialized, Note, NoId, Message
<1>8. /\ wire' \in Seq(Message) /\ DOMAIN wire' = 1..(L + 1 + Q)
      /\ \A i \in 1..L : wire'[i] = wire[i]
      /\ wire'[L + 1] = Initialized
      /\ \A i \in 1..Q : wire'[L + 1 + i] = rest[i]
  BY <1>6, ReadyWire
<1>9. \A i \in DOMAIN wire' :
         i \in 1..L \/ i = L + 1 \/ \E j \in 1..Q : i = L + 1 + j
  BY ReadyWire
<1>10. /\ DOMAIN pending' \subseteq 1..(nextId' - 1)
       /\ \A i \in DOMAIN pending' :
             pending'[i] \in [method : Methods \cup {"initialize", "shutdown"},
                              cancelled : BOOLEAN]
  BY <1>1, Forgotten DEF IInv
<1>11. queued' \in Seq(1..(nextId' - 1)) /\ DOMAIN queued' = {}
  BY <1>1, EmptySeq
<1> HIDE DEF L, Q
<1>12. TypeOK'
  BY <1>1, <1>8, <1>10, <1>11 DEF IInv, TypeOK, States
<1>13. IdsAllocated'
  <2> SUFFICES ASSUME NEW i \in DOMAIN wire', wire'[i].kind = "request"
               PROVE  wire'[i].id \in 1..(nextId - 1)
    BY <1>1 DEF IdsAllocated
  <2>1. CASE i \in 1..L
    BY <1>2, <1>8, <2>1 DEF IInv, IdsAllocated
  <2>2. CASE \E j \in 1..Q : i = L + 1 + j
    BY <1>3, <1>5, <1>8, <2>2
  <2>3. i # L + 1
    BY <1>7, <1>8
  <2> QED
    BY <1>9, <2>1, <2>2, <2>3
<1>14. QueueOrdered' /\ QueueWaits' /\ QueueDrained'
  BY <1>1, <1>11 DEF QueueOrdered, QueueWaits, QueueDrained
<1>15. RequestsInOrder'
  <2> SUFFICES ASSUME NEW i \in DOMAIN wire', NEW j \in DOMAIN wire', i < j,
                      wire'[i].kind = "request", wire'[j].kind = "request"
               PROVE  wire'[i].id < wire'[j].id
    BY DEF RequestsInOrder
  <2>1. CASE i \in 1..L /\ j \in 1..L
    BY <1>2, <1>8, <2>1 DEF IInv, RequestsInOrder
  <2>2. CASE i \in 1..L /\ \E y \in 1..Q : j = L + 1 + y
    <3>1. PICK y \in 1..Q : j = L + 1 + y
      BY <2>2
    <3>2. wire[i].id < queued[y]
      BY <1>2, <1>8, <2>2, <3>1 DEF IInv, QueueWaits
    <3> QED
      BY <1>5, <1>8, <2>2, <3>1, <3>2
  <2>3. CASE (\E x \in 1..Q : i = L + 1 + x) /\ (\E y \in 1..Q : j = L + 1 + y)
    <3>1. PICK x \in 1..Q : i = L + 1 + x
      BY <2>3
    <3>2. PICK y \in 1..Q : j = L + 1 + y
      BY <2>3
    <3>3. x < y
      BY <1>2, <3>1, <3>2
    <3>4. queued[x] < queued[y]
      BY <1>2, <3>3 DEF IInv, QueueOrdered
    <3> QED
      BY <1>5, <1>8, <3>1, <3>2, <3>4
  <2>4. i # L + 1 /\ j # L + 1
    BY <1>7, <1>8
  <2>5. ~((\E x \in 1..Q : i = L + 1 + x) /\ j \in 1..L)
    BY <1>2
  <2> QED
    BY <1>9, <2>1, <2>2, <2>3, <2>4, <2>5
<1>16. wire # <<>> /\ wire[1].method = "initialize" /\ wire[1].kind = "request"
       /\ 1 \in 1..L
  <2>1. \E j \in DOMAIN wire : TRUE
    BY <1>1 DEF SentIds
  <2>2. wire # <<>>
    BY <2>1, EmptyDomain, Zenon
  <2>3. 1 \in 1..L
    BY <1>2, <2>1
  <2> QED
    BY <2>2, <2>3 DEF IInv, Phases
<1>17. HandshakeFirst'
  <2> SUFFICES ASSUME NEW i \in DOMAIN wire', wire'[i].kind # "response"
               PROVE  /\ (wire'[i].method = "initialize") <=> (i = 1)
                      /\ wire'[i].method \notin {"initialize", "initialized"} =>
                            \E j \in 1..(i - 1) : wire'[j] = Initialized
    BY <1>1 DEF HandshakeFirst, Initialized, Note, NoId
  <2>1. CASE i \in 1..L
    <3>1. \A j \in 1..(i - 1) : wire'[j] = wire[j]
      BY <1>2, <1>8, <2>1
    <3> QED
      BY <1>2, <1>8, <2>1, <3>1 DEF IInv, HandshakeFirst
  <2>2. CASE i = L + 1
    BY <1>2, <1>7, <1>8, <1>16, <2>2
  <2>3. CASE \E j \in 1..Q : i = L + 1 + j
    <3>1. PICK j \in 1..Q : i = L + 1 + j
      BY <2>3
    <3>2. wire'[i] = rest[j] /\ rest[j].method \in Methods
      BY <1>5, <1>8, <3>1
    <3>3. L + 1 \in 1..(i - 1) /\ i # 1
      BY <1>2, <3>1
    <3> QED
      BY <1>8, <3>2, <3>3, ClientAssumption
  <2> QED
    BY <1>9, <2>1, <2>2, <2>3
<1>18. Phases'
  <2>1. Opened'
    <3>1. L + 1 \in DOMAIN wire'
      BY <1>2, <1>8
    <3> QED
      BY <1>8, <3>1 DEF Opened, Initialized, Note, NoId
  <2>2. wire' # <<>> /\ wire'[1].method = "initialize" /\ wire'[1].kind = "request"
    <3>1. 1 \in DOMAIN wire'
      BY <1>2, <1>8
    <3>2. wire' # <<>>
      BY <3>1, EmptyDomain, Zenon
    <3> QED
      BY <1>8, <1>16, <3>2
  <2> QED
    BY <1>1, <2>1, <2>2 DEF Phases
<1> QED
  BY <1>12, <1>13, <1>14, <1>15, <1>17, <1>18 DEF IInv

\* The handshake's reply opens the session, or fails and closes it.
LEMMA FinishInitializeStep ==
  ASSUME IInv, NEW id \in Ids, NEW outcome \in Outcomes,
         FinishInitialize(id, outcome)
  PROVE  IInv'
<1>1. /\ id \in SentIds /\ id = initializeId /\ pending' = Without(pending, id)
      /\ UNCHANGED <<nextId, initializeId, shutdownId, delivered, asked>>
  BY DEF FinishInitialize, Replies
<1>2. delivered' \in Seq(EditorEvent)
  BY <1>1 DEF IInv, TypeOK
<1>3. CASE outcome = "ready"
  BY <1>3, FinishInitializeReady
<1>4. CASE outcome = "bad encoding"
  <2>1. UNCHANGED <<state, wire, queued>>
    BY <1>4 DEF FinishInitialize
  <2> QED
    BY <1>1, <1>2, <2>1, ReplyStep
<1>5. CASE outcome = "refused"
  <2>1. state' = "Exited" /\ UNCHANGED <<wire, queued>>
    BY <1>5 DEF FinishInitialize
  <2>2. PICK j \in DOMAIN wire : wire[j].kind = "request" /\ wire[j].id = id
    BY <1>1 DEF SentIds
  <2>3. /\ DOMAIN pending' = DOMAIN pending \ {id}
        /\ DOMAIN pending' \subseteq 1..(nextId' - 1)
        /\ \A i \in DOMAIN pending' : pending'[i] = pending[i]
        /\ \A i \in DOMAIN pending' :
              pending'[i] \in [method : Methods \cup {"initialize", "shutdown"},
                               cancelled : BOOLEAN]
    BY <1>1, Forgotten DEF IInv
  <2>4. TypeOK'
    BY <1>1, <2>1, <2>3 DEF IInv, TypeOK, States
  <2>5. \A i \in DOMAIN queued : queued[i] # id
    BY <1>1, SentIsNotQueued
  <2>6. QueueWaits'
    BY <2>1, <2>3, <2>5 DEF IInv, QueueWaits
  <2>7. /\ IdsAllocated' /\ RequestsInOrder' /\ HandshakeFirst'
        /\ QueueOrdered' /\ QueueDrained'
    BY <1>1, <2>1 DEF IInv, IdsAllocated, RequestsInOrder, HandshakeFirst,
                      QueueOrdered, QueueDrained
  <2>8. state # "Uninitialized"
    <3>1. wire # <<>>
      BY <2>2, EmptyDomain, Zenon
    <3> QED
      BY <3>1 DEF IInv, Phases
  <2>9. (Opened' <=> Opened) /\ QueuedIds' = QueuedIds
    BY <2>1 DEF Opened, QueuedIds
  <2>10. Phases'
    BY <1>1, <2>1, <2>3, <2>8, <2>9 DEF IInv, Phases
  <2> QED
    BY <2>4, <2>6, <2>7, <2>10 DEF IInv
<1> QED
  BY <1>3, <1>4, <1>5 DEF Outcomes

\* A step that changes nothing.
LEMMA StutterStep ==
  ASSUME IInv, UNCHANGED vars PROVE IInv'
<1>1. UNCHANGED <<state, nextId, pending, queued, initializeId, shutdownId,
                  wire, delivered, asked>>
  BY DEF vars, clientVars
<1>2. TypeOK'
  BY <1>1 DEF IInv, TypeOK
<1>3. /\ IdsAllocated' /\ QueueOrdered' /\ QueueWaits' /\ QueueDrained'
      /\ RequestsInOrder' /\ HandshakeFirst'
  BY <1>1 DEF IInv, IdsAllocated, QueueOrdered, QueueWaits, QueueDrained,
              RequestsInOrder, HandshakeFirst
<1>4. Phases'
  BY <1>1 DEF IInv, Phases, Opened, QueuedIds
<1> QED
  BY <1>2, <1>3, <1>4 DEF IInv

\* Every step of the client and of its server preserves the invariant.
LEMMA NextIInv == IInv /\ [Next]_vars => IInv'
<1> SUFFICES ASSUME IInv, [Next]_vars PROVE IInv'
  OBVIOUS
<1>1. CASE Initialize
  BY <1>1, InitializeStep
<1>2. CASE Notify
  BY <1>2, NotifyStep
<1>3. CASE Shutdown
  BY <1>3, ShutdownStep
<1>4. CASE Exit
  BY <1>4, ExitStep
<1>5. ASSUME NEW method \in Methods, Request(method) PROVE IInv'
  BY <1>5, RequestStep
<1>6. ASSUME NEW id \in Ids, Cancel(id) PROVE IInv'
  BY <1>6, CancelQueuedStep, CancelSentStep DEF Cancel
<1>7. ASSUME NEW id \in ServerIds, AnswerApplyEdit(id) PROVE IInv'
  BY <1>7, AnswerApplyEditStep
<1>8. CASE UnknownResponse
  BY <1>8, StutterStep DEF UnknownResponse
<1>9. ASSUME NEW id \in Ids, NEW outcome \in Outcomes, FinishInitialize(id, outcome)
      PROVE  IInv'
  BY <1>9, FinishInitializeStep
<1>10. ASSUME NEW id \in Ids, AnswerShutdown(id) PROVE IInv'
  BY <1>10, AnswerShutdownStep
<1>11. ASSUME NEW id \in Ids, HandleResponse(id) PROVE IInv'
  BY <1>11, HandleResponseStep
<1>12. ASSUME NEW method \in ServerMethods, HandleServerRequest(method) PROVE IInv'
  BY <1>12, HandleServerRequestStep
<1>13. CASE UNCHANGED vars
  BY <1>13, StutterStep
<1> QED
  BY <1>1, <1>2, <1>3, <1>4, <1>5, <1>6, <1>7, <1>8, <1>9, <1>10, <1>11, <1>12,
     <1>13 DEF Next, EditorCall, ServerMessage

(***************************************************************************)
(* The theorems.                                                           *)
(***************************************************************************)
\* The inductive invariant holds in every state of every conversation.
THEOREM Invariance == Spec => []IInv
<1> QED
  BY InitIInv, NextIInv, PTL DEF Spec

\* client.rs keeps its state, its tables and what it writes well formed.
THEOREM TypeCorrect == Spec => []TypeOK
<1>1. IInv => TypeOK
  BY DEF IInv
<1> QED
  BY Invariance, <1>1, PTL

\* Nothing overtakes the handshake, however many requests are raised, held
\* back, cancelled or answered during it.
THEOREM HandshakeIsFirst == Spec => []HandshakeFirst
<1>1. IInv => HandshakeFirst
  BY DEF IInv
<1> QED
  BY Invariance, <1>1, PTL

\* Requests reach the server in the order they were raised, each once.
THEOREM OrderIsKept == Spec => []RequestsInOrder
<1>1. IInv => RequestsInOrder
  BY DEF IInv
<1> QED
  BY Invariance, <1>1, PTL

\* What waits for the handshake is pending and was not sent.
THEOREM QueueIsPending == Spec => []QueuedArePending
<1>1. IInv => QueuedArePending
  <2> SUFFICES ASSUME IInv PROVE QueuedArePending
    OBVIOUS
  <2>1. QueuedIds \subseteq DOMAIN pending
    BY DEF IInv, QueueWaits, QueuedIds
  <2>2. queued # <<>> => state \in {"Initializing", "Exited"}
    BY DEF IInv, QueueDrained
  <2>3. ASSUME NEW i \in DOMAIN queued, NEW j \in DOMAIN wire,
               wire[j].kind = "request", wire[j].id = queued[i]
        PROVE  FALSE
    <3>1. nextId \in Nat
      BY ClientAssumption DEF IInv, TypeOK
    <3>2. wire[j].id \in Nat /\ wire[j].id < queued[i]
      BY <2>3, <3>1 DEF IInv, IdsAllocated, QueueWaits
    <3> QED
      BY <2>3, <3>2
  <2>4. QueuedIds \cap SentIds = {}
    BY <2>3 DEF QueuedIds, SentIds
  <2> QED
    BY <2>1, <2>2, <2>4 DEF QueuedArePending
<1> QED
  BY Invariance, <1>1, PTL

(***************************************************************************)
(* The fates of the requests.  What was delivered is no longer pending and *)
(* was delivered once, under the method it was sent with; what still may   *)
(* be answered remembers that method.                                      *)
(***************************************************************************)
ExitedEmpty == state = "Exited" /\ DOMAIN pending = {}

DeliveredOnce ==
  \A i \in DOMAIN delivered : delivered[i].kind = "Response" =>
    /\ delivered[i].id \in 1..(nextId - 1)
    /\ delivered[i].id \notin DOMAIN pending
    /\ \A k \in DOMAIN delivered :
         (delivered[k].kind = "Response" /\ delivered[k].id = delivered[i].id) => k = i
    /\ \E j \in DOMAIN wire : wire[j] = Req(delivered[i].method, delivered[i].id)

SentAsRaised ==
  \A j \in DOMAIN wire :
    (wire[j].kind = "request" /\ wire[j].id \in DOMAIN pending) =>
      wire[j].method = pending[wire[j].id].method

QueuedWanted == \A i \in DOMAIN queued : ~pending[queued[i]].cancelled

\* How far the conversation has got shows on the wire and in the two ids that
\* belong to the client itself.
Milestones ==
  /\ state = "Uninitialized" => nextId = 1 /\ initializeId = NoId
  /\ state \in {"Uninitialized", "Initializing", "Ready"} => shutdownId = NoId
  /\ state = "Initializing" => ~Opened
  /\ initializeId \in DOMAIN pending => state = "Initializing"
  /\ \A i \in DOMAIN wire :
       /\ wire[i].method = "shutdown" => state = "ShuttingDown" \/ ExitedEmpty
       /\ wire[i].method = "exit" => ExitedEmpty

AfterTheEnd ==
  \A i, j \in DOMAIN wire : (i < j /\ wire[j].kind # "response") =>
     /\ wire[i].method # "exit"
     /\ wire[i].method = "shutdown" => wire[j].method \in {"exit", "$/cancelRequest"}

FInv ==
  /\ IInv /\ DeliveredOnce /\ SentAsRaised /\ QueuedWanted /\ Milestones
  /\ AfterTheEnd

\* The fates hold when the process has just been started.
LEMMA InitFInv == Init => FInv
<1> SUFFICES ASSUME Init PROVE FInv
  OBVIOUS
<1>1. /\ wire = <<>> /\ delivered = <<>> /\ queued = <<>> /\ pending = <<>>
      /\ nextId = 1 /\ state = "Uninitialized"
      /\ initializeId = NoId /\ shutdownId = NoId
  BY DEF Init, ClientInit
<1>2. DOMAIN wire = {} /\ DOMAIN delivered = {} /\ DOMAIN queued = {}
      /\ DOMAIN pending = {}
  BY <1>1
<1> QED
  BY <1>1, <1>2, InitIInv
     DEF FInv, DeliveredOnce, SentAsRaised, QueuedWanted, Milestones, AfterTheEnd,
         NoId

\* Only `initialized' opens the session.
LEMMA OpenedByInitialized ==
  ASSUME TypeOK, NEW m \in Message, wire' = Append(wire, m)
  PROVE  Opened' <=> (Opened \/ m = Initialized)
<1>1. /\ Len(wire) \in Nat
      /\ DOMAIN wire = 1..Len(wire) /\ DOMAIN wire' = 1..(Len(wire) + 1)
      /\ \A i \in 1..Len(wire) : wire'[i] = wire[i]
      /\ wire'[Len(wire) + 1] = m
  BY WireAppend
<1> QED
  BY <1>1 DEF Opened, Initialized, Note, NoId

\* A message that is neither a request nor the end of anything.
LEMMA FatesAppend ==
  ASSUME FInv, IInv', NEW m \in Message, wire' = Append(wire, m),
         m.kind # "request", m.method \notin {"initialized", "shutdown", "exit"},
         \/ m.kind = "response"
         \/ m.method = "$/cancelRequest" /\ DOMAIN pending # {}
         \/ state = "Ready",
         DOMAIN pending' = DOMAIN pending,
         \A i \in DOMAIN pending : pending'[i].method = pending[i].method,
         \A i \in DOMAIN queued : pending'[queued[i]] = pending[queued[i]],
         UNCHANGED <<state, nextId, queued, initializeId, shutdownId, delivered>>
  PROVE  FInv'
<1>1. /\ Len(wire) \in Nat
      /\ DOMAIN wire = 1..Len(wire) /\ DOMAIN wire' = 1..(Len(wire) + 1)
      /\ \A i \in 1..Len(wire) : wire'[i] = wire[i]
      /\ wire'[Len(wire) + 1] = m
  BY WireAppend DEF FInv, IInv
<1>2. DeliveredOnce'
  BY <1>1 DEF FInv, DeliveredOnce
<1>3. SentAsRaised'
  BY <1>1 DEF FInv, SentAsRaised
<1>4. QueuedWanted'
  BY DEF FInv, QueuedWanted
<1>5. Opened' <=> Opened
  BY OpenedByInitialized DEF FInv, IInv, Initialized, Note
<1>6. Milestones'
  BY <1>1, <1>5 DEF FInv, Milestones, ExitedEmpty
<1>7. AfterTheEnd'
  BY <1>1 DEF FInv, AfterTheEnd, Milestones, ExitedEmpty
<1> QED
  BY <1>2, <1>3, <1>4, <1>6, <1>7 DEF FInv

\* A request that is forgotten: what is left keeps its method.
LEMMA FatesForgotten ==
  ASSUME FInv, IInv', NEW id, pending' = Without(pending, id),
         UNCHANGED <<nextId, initializeId, shutdownId, wire, delivered>>,
         queued' = queued /\ \A i \in DOMAIN queued : queued[i] # id,
         id \in DOMAIN pending,
         state' = state \/ (state' = "Exited" /\ id = initializeId)
  PROVE  FInv'
<1>1. /\ DOMAIN pending' = DOMAIN pending \ {id}
      /\ \A i \in DOMAIN pending' : pending'[i] = pending[i]
  <2>1. nextId' = nextId
    OBVIOUS
  <2> QED
    BY <2>1, Forgotten DEF FInv, IInv
<1>2. DeliveredOnce'
  BY <1>1 DEF FInv, DeliveredOnce
<1>3. SentAsRaised'
  BY <1>1 DEF FInv, SentAsRaised
<1>4. QueuedWanted'
  BY <1>1 DEF FInv, QueuedWanted, IInv, QueueWaits
<1>5. Opened' <=> Opened
  BY DEF Opened, Initialized, Note
<1>6. CASE state' = state
  <2>1. Milestones'
    BY <1>1, <1>5, <1>6 DEF FInv, Milestones, ExitedEmpty
  <2>2. AfterTheEnd'
    BY DEF FInv, AfterTheEnd
  <2> QED
    BY <1>2, <1>3, <1>4, <2>1, <2>2 DEF FInv
<1>7. CASE state' = "Exited" /\ id = initializeId
  <2>1. state = "Initializing"
    BY <1>7 DEF FInv, Milestones
  <2>2. \A i \in DOMAIN wire : wire[i].method \notin {"shutdown", "exit"}
    BY <2>1 DEF FInv, Milestones, ExitedEmpty
  <2>3. initializeId \notin DOMAIN pending'
    BY <1>1, <1>7
  <2>4. Milestones'
    BY <1>7, <2>2, <2>3 DEF Milestones
  <2>5. AfterTheEnd'
    BY DEF FInv, AfterTheEnd
  <2> QED
    BY <1>2, <1>3, <1>4, <2>4, <2>5 DEF FInv
<1> QED
  BY <1>6, <1>7

\* `initialize' is the first message of all.
LEMMA FatesInitialize ==
  ASSUME FInv, Initialize PROVE FInv'
<1> DEFINE m == Req("initialize", nextId)
<1>1. IInv'
  BY InitializeStep DEF FInv
<1>2. /\ wire = <<>> /\ queued = <<>> /\ delivered = <<>> /\ DOMAIN pending = {}
      /\ nextId = 1 /\ shutdownId = NoId
  BY DEF FInv, IInv, Phases, Milestones, Initialize
<1>3. /\ state' = "Initializing" /\ initializeId' = nextId /\ nextId' = nextId + 1
      /\ pending' = With(pending, nextId, "initialize")
      /\ wire' = Append(wire, m)
      /\ UNCHANGED <<queued, shutdownId, delivered, asked>>
  BY DEF Initialize
<1>4. m \in Message /\ m.kind = "request" /\ m.method = "initialize" /\ m.id = nextId
  BY <1>2 DEF Req, Message
<1> HIDE DEF m
<1>5. /\ DOMAIN wire' = 1..1 /\ wire'[1] = m
      /\ DOMAIN delivered' = {} /\ DOMAIN queued' = {}
  <2>1. Len(wire) = 0
    BY <1>2
  <2> QED
    BY <1>2, <1>3, <1>4, <2>1, WireAppend DEF FInv, IInv
<1>6. pending'[nextId].method = "initialize"
  BY <1>3 DEF With
<1>7. DeliveredOnce' /\ QueuedWanted' /\ AfterTheEnd'
  BY <1>5 DEF DeliveredOnce, QueuedWanted, AfterTheEnd
<1>8. SentAsRaised'
  BY <1>4, <1>5, <1>6 DEF SentAsRaised
<1>9. Milestones'
  BY <1>2, <1>3, <1>4, <1>5 DEF Milestones, Opened, Initialized, Note
<1> QED
  BY <1>1, <1>7, <1>8, <1>9 DEF FInv

\* A request has a new id: none was delivered, or was sent, under it.
LEMMA FatesRequest ==
  ASSUME FInv, NEW method \in Methods, Request(method) PROVE FInv'
<1> DEFINE m == Req(method, nextId)
<1>1. IInv'
  BY RequestStep DEF FInv
<1>2. /\ state \in {"Initializing", "Ready"} /\ nextId' = nextId + 1 /\ nextId <= MaxId
      /\ pending' = With(pending, nextId, method)
      /\ UNCHANGED <<state, initializeId, shutdownId, delivered, asked>>
  BY DEF Request
<1>3. /\ nextId \in Nat \ {0}
      /\ DOMAIN pending' = DOMAIN pending \cup {nextId}
      /\ nextId \notin DOMAIN pending /\ pending'[nextId].method = method
      /\ \A id \in DOMAIN pending : pending'[id] = pending[id]
  BY <1>2, Allocated DEF FInv, IInv
<1>4. pending'[nextId].cancelled = FALSE
  BY <1>2 DEF With
<1>5. m \in Message /\ m.kind = "request" /\ m.id = nextId /\ m.method = method
  BY <1>3, ClientAssumption DEF Req, Message
<1>6. m # Initialized /\ method \notin {"shutdown", "exit"}
  BY ClientAssumption DEF m, Req, Initialized, Note, NoId
<1> HIDE DEF m
<1>7. initializeId # nextId
  BY <1>3 DEF FInv, IInv, TypeOK
<1>8. CASE state = "Initializing"
  <2>1. queued' = Append(queued, nextId) /\ wire' = wire
    BY <1>8 DEF Request
  <2>2. /\ DOMAIN queued' = 1..(Len(queued) + 1) /\ DOMAIN queued = 1..Len(queued)
        /\ Len(queued) \in Nat
        /\ \A i \in 1..Len(queued) : queued'[i] = queued[i]
        /\ queued'[Len(queued) + 1] = nextId
    <3> DEFINE S == 1..(nextId' - 1)
    <3>1. queued \in Seq(S) /\ nextId \in S
      BY <1>2, <1>3, Allocated DEF FInv, IInv
    <3> HIDE DEF S
    <3> QED
      BY <2>1, <3>1, AppendProperties, LenProperties
  <2>3. DeliveredOnce'
    BY <1>2, <1>3, <2>1 DEF FInv, DeliveredOnce
  <2>4. SentAsRaised'
    BY <1>3, <2>1 DEF FInv, SentAsRaised, IInv, IdsAllocated
  <2>5. QueuedWanted'
    BY <1>3, <1>4, <2>2 DEF FInv, QueuedWanted, IInv, QueueWaits
  <2>6. Milestones'
    BY <1>2, <1>3, <1>7, <1>8, <2>1 DEF FInv, Milestones, ExitedEmpty, Opened
  <2>7. AfterTheEnd'
    BY <2>1 DEF FInv, AfterTheEnd
  <2> QED
    BY <1>1, <2>3, <2>4, <2>5, <2>6, <2>7 DEF FInv
<1>9. CASE state # "Initializing"
  <2>1. wire' = Append(wire, m) /\ queued' = queued /\ state = "Ready"
    BY <1>2, <1>9 DEF Request, m
  <2>2. /\ Len(wire) \in Nat
        /\ DOMAIN wire = 1..Len(wire) /\ DOMAIN wire' = 1..(Len(wire) + 1)
        /\ \A i \in 1..Len(wire) : wire'[i] = wire[i]
        /\ wire'[Len(wire) + 1] = m
    BY <1>5, <2>1, WireAppend DEF FInv, IInv
  <2>3. DeliveredOnce'
    BY <1>2, <1>3, <2>2 DEF FInv, DeliveredOnce
  <2>4. SentAsRaised'
    BY <1>3, <1>5, <2>2 DEF FInv, SentAsRaised, IInv, IdsAllocated
  <2>5. QueuedWanted'
    BY <1>3, <2>1 DEF FInv, QueuedWanted, IInv, QueueWaits
  <2>6. Milestones'
    BY <1>2, <1>3, <1>5, <1>6, <1>7, <2>1, <2>2 DEF FInv, Milestones, ExitedEmpty
  <2>7. AfterTheEnd'
    BY <2>1, <2>2 DEF FInv, AfterTheEnd, Milestones, ExitedEmpty
  <2> QED
    BY <1>1, <2>3, <2>4, <2>5, <2>6, <2>7 DEF FInv
<1> QED
  BY <1>8, <1>9

\* A cancelled request leaves the queue, and only that one.
LEMMA QueueAfterCancel ==
  ASSUME IInv, NEW id \in Ids, CancelQueued(id)
  PROVE  /\ QueuedIds' = QueuedIds \ {id} /\ id \in QueuedIds
         /\ \A i \in DOMAIN queued' : queued'[i] # id
         /\ \A i \in DOMAIN queued' : \E j \in DOMAIN queued : queued'[i] = queued[j]
<1>1. PICK k \in DOMAIN queued : queued[k] = id /\ queued' = RemoveAt(queued, k)
  BY DEF CancelQueued
<1>2. /\ queued \in Seq(1..(nextId - 1)) /\ Len(queued) \in Nat
      /\ DOMAIN queued = 1..Len(queued)
  BY LenProperties DEF IInv, TypeOK
<1>3. /\ DOMAIN queued' = 1..(Len(queued) - 1)
      /\ \A j \in 1..(Len(queued) - 1) :
            queued'[j] = IF j < k THEN queued[j] ELSE queued[j + 1]
  <2> DEFINE S == 1..(nextId - 1)
             rest == RemoveAt(queued, k)
  <2>1. queued \in Seq(S) /\ k \in 1..Len(queued)
    BY <1>1, <1>2
  <2> HIDE DEF S
  <2>2. /\ rest \in Seq(S) /\ Len(rest) = Len(queued) - 1
        /\ \A j \in 1..(Len(queued) - 1) :
              rest[j] = IF j < k THEN queued[j] ELSE queued[j + 1]
    BY <2>1, RemoveAtKeeps
  <2>3. DOMAIN rest = 1..Len(rest)
    BY <2>2, LenProperties
  <2> QED
    BY <1>1, <2>2, <2>3
<1>4. \A i \in DOMAIN queued : queued[i] \in Nat
  <2>1. \A i \in DOMAIN queued : queued[i] \in 1..(nextId - 1)
    BY <1>2, ElementOfSeq
  <2>2. nextId \in Nat
    BY ClientAssumption DEF IInv, TypeOK
  <2> QED
    BY <2>1, <2>2
<1>5. \A i \in DOMAIN queued' : \E j \in DOMAIN queued : j # k /\ queued'[i] = queued[j]
  <2> SUFFICES ASSUME NEW i \in DOMAIN queued'
               PROVE  \E j \in DOMAIN queued : j # k /\ queued'[i] = queued[j]
    OBVIOUS
  <2>1. CASE i < k
    BY <1>2, <1>3, <2>1
  <2>2. CASE ~(i < k)
    <3>1. i + 1 \in DOMAIN queued /\ i + 1 # k /\ queued'[i] = queued[i + 1]
      BY <1>1, <1>2, <1>3, <2>2
    <3> QED
      BY <3>1
  <2> QED
    BY <2>1, <2>2
<1>6. \A i \in DOMAIN queued : i # k => queued[i] # id
  BY <1>1, <1>2, <1>4 DEF IInv, QueueOrdered
<1>7. \A i \in DOMAIN queued : i # k => \E j \in DOMAIN queued' : queued'[j] = queued[i]
  <2> SUFFICES ASSUME NEW i \in DOMAIN queued, i # k
               PROVE  \E j \in DOMAIN queued' : queued'[j] = queued[i]
    OBVIOUS
  <2>1. CASE i < k
    BY <1>1, <1>2, <1>3, <2>1
  <2>2. CASE ~(i < k)
    <3>1. i - 1 \in DOMAIN queued' /\ ~(i - 1 < k) /\ (i - 1) + 1 = i
      BY <1>1, <1>2, <1>3, <2>2
    <3>2. queued'[i - 1] = queued[i]
      BY <1>3, <3>1
    <3> QED
      BY <3>1, <3>2
  <2> QED
    BY <2>1, <2>2
<1> QED
  BY <1>1, <1>5, <1>6, <1>7 DEF QueuedIds

\* What waits may be forgotten at any time: it was never sent.
LEMMA FatesCancelQueued ==
  ASSUME FInv, NEW id \in Ids, id \notin {initializeId, shutdownId}, CancelQueued(id)
  PROVE  FInv'
<1>1. IInv'
  BY CancelQueuedStep DEF FInv
<1>2. /\ pending' = Without(pending, id)
      /\ UNCHANGED <<state, nextId, initializeId, shutdownId, wire, delivered>>
  BY DEF CancelQueued
<1>3. /\ DOMAIN pending' = DOMAIN pending \ {id}
      /\ \A i \in DOMAIN pending' : pending'[i] = pending[i]
  BY <1>2, Forgotten DEF FInv, IInv
<1>4. /\ \A i \in DOMAIN queued' : queued'[i] # id
      /\ \A i \in DOMAIN queued' : \E j \in DOMAIN queued : queued'[i] = queued[j]
  BY QueueAfterCancel DEF FInv
<1>5. DeliveredOnce'
  BY <1>2, <1>3 DEF FInv, DeliveredOnce
<1>6. SentAsRaised'
  BY <1>2, <1>3 DEF FInv, SentAsRaised
<1>7. QueuedWanted'
  BY <1>3, <1>4 DEF FInv, QueuedWanted, IInv, QueueWaits
<1>8. Milestones'
  BY <1>2, <1>3 DEF FInv, Milestones, ExitedEmpty, Opened
<1>9. AfterTheEnd'
  BY <1>2 DEF FInv, AfterTheEnd
<1> QED
  BY <1>1, <1>5, <1>6, <1>7, <1>8, <1>9 DEF FInv

\* What was sent stays pending, marked.
LEMMA FatesCancelSent ==
  ASSUME FInv, NEW id \in Ids, id \notin {initializeId, shutdownId}, CancelSent(id)
  PROVE  FInv'
<1> DEFINE m == Note("$/cancelRequest", id)
<1>1. IInv'
  BY CancelSentStep DEF FInv
<1>2. /\ id \in DOMAIN pending \ QueuedIds
      /\ pending' = [pending EXCEPT ![id].cancelled = TRUE]
      /\ wire' = Append(wire, m)
      /\ UNCHANGED <<state, nextId, queued, initializeId, shutdownId, delivered>>
  BY DEF CancelSent
<1>3. id \in Nat
  BY ClientAssumption DEF Ids
<1>4. m \in Message /\ m.kind = "notification" /\ m.method = "$/cancelRequest"
  BY <1>3 DEF Note, Message
<1> HIDE DEF m
<1>5. /\ DOMAIN pending' = DOMAIN pending
      /\ \A i \in DOMAIN pending : pending'[i].method = pending[i].method
      /\ \A i \in DOMAIN pending : i # id => pending'[i] = pending[i]
  BY <1>2 DEF FInv, IInv, TypeOK
<1>6. \A i \in DOMAIN queued : pending'[queued[i]] = pending[queued[i]]
  BY <1>2, <1>5 DEF QueuedIds, FInv, IInv, QueueWaits
<1> QED
  BY <1>1, <1>2, <1>4, <1>5, <1>6, FatesAppend

\* A notification of the editor.
LEMMA FatesNotify ==
  ASSUME FInv, Notify PROVE FInv'
<1> DEFINE m == Note("didChange", NoId)
<1>1. IInv'
  BY NotifyStep DEF FInv
<1>2. /\ wire' = Append(wire, m) /\ state = "Ready"
      /\ UNCHANGED <<state, nextId, pending, queued, initializeId, shutdownId, delivered>>
  BY DEF Notify, clientVars
<1>3. m \in Message /\ m.kind = "notification" /\ m.method = "didChange"
  BY DEF Note, NoId, Message
<1> HIDE DEF m
<1> QED
  BY <1>1, <1>2, <1>3, FatesAppend

\* An answer to a request of the server's own.
LEMMA FatesAnswerApplyEdit ==
  ASSUME FInv, NEW id \in ServerIds, AnswerApplyEdit(id) PROVE FInv'
<1>0. id \in Nat
  BY ClientAssumption DEF ServerIds
<1>1. IInv'
  BY AnswerApplyEditStep DEF FInv
<1>2. PICK result \in {"applied", "not applied"} : wire' = Append(wire, Ans(result, id))
  BY DEF AnswerApplyEdit
<1>3. UNCHANGED <<state, nextId, pending, queued, initializeId, shutdownId, delivered>>
  BY DEF AnswerApplyEdit, clientVars
<1>4. /\ Ans(result, id) \in Message /\ Ans(result, id).kind = "response"
      /\ Ans(result, id).method = result
  <2>1. result \in Results
    BY DEF Results
  <2> QED
    BY <1>0, <2>1 DEF Ans, Message
<1> QED
  BY <1>1, <1>2, <1>3, <1>4, FatesAppend

\* A request of the server's own concerns no request of the editor.
LEMMA FatesServerRequest ==
  ASSUME FInv, NEW method \in ServerMethods, HandleServerRequest(method) PROVE FInv'
<1> DEFINE id == Len(asked) + 1
           event == Event("ApplyEdit", method, id)
<1>1. IInv'
  BY HandleServerRequestStep DEF FInv
<1>2. /\ state # "Exited"
      /\ UNCHANGED <<state, nextId, pending, queued, initializeId, shutdownId>>
  BY DEF HandleServerRequest, clientVars
<1>3. id \in Nat
  <2>1. asked \in Seq(ServerMethods)
    BY DEF FInv, IInv, TypeOK
  <2> QED
    BY <2>1, LenProperties
<1>4. CASE method = ApplyEdit /\ RunningCommand
  <2>1. delivered' = Append(delivered, event) /\ wire' = wire
    BY <1>4 DEF HandleServerRequest
  <2>2. event \in EditorEvent /\ event.kind = "ApplyEdit"
    BY <1>3, <1>4 DEF Event, EditorEvent
  <2> HIDE DEF event
  <2>3. /\ Len(delivered) \in Nat /\ DOMAIN delivered = 1..Len(delivered)
        /\ DOMAIN delivered' = 1..(Len(delivered) + 1)
        /\ \A i \in 1..Len(delivered) : delivered'[i] = delivered[i]
        /\ delivered'[Len(delivered) + 1] = event
    <3>1. delivered \in Seq(EditorEvent)
      BY DEF FInv, IInv, TypeOK
    <3> QED
      BY <2>1, <2>2, <3>1, AppendProperties, LenProperties
  <2>4. DeliveredOnce'
    BY <1>2, <2>1, <2>2, <2>3 DEF FInv, DeliveredOnce
  <2>5. SentAsRaised' /\ QueuedWanted' /\ AfterTheEnd'
    BY <1>2, <2>1 DEF FInv, SentAsRaised, QueuedWanted, AfterTheEnd
  <2>6. Milestones'
    BY <1>2, <2>1 DEF FInv, Milestones, ExitedEmpty, Opened
  <2> QED
    BY <1>1, <2>4, <2>5, <2>6 DEF FInv
<1>5. CASE ~(method = ApplyEdit /\ RunningCommand)
  <2>1. PICK result \in Results : wire' = Append(wire, Ans(result, id))
    BY <1>5 DEF HandleServerRequest, Results
  <2>2. delivered' = delivered
    BY <1>5 DEF HandleServerRequest
  <2>3. /\ Ans(result, id) \in Message /\ Ans(result, id).kind = "response"
        /\ Ans(result, id).method \notin {"initialized", "shutdown", "exit"}
    BY <1>3 DEF Ans, Message, Results
  <2> HIDE DEF id
  <2> QED
    BY <1>1, <1>2, <2>1, <2>2, <2>3, FatesAppend
<1> QED
  BY <1>4, <1>5

\* The request to end is the client's own.
LEMMA FatesShutdown ==
  ASSUME FInv, Shutdown PROVE FInv'
<1> DEFINE m == Req("shutdown", nextId)
<1>1. IInv'
  BY ShutdownStep DEF FInv
<1>2. /\ state = "Ready" /\ state' = "ShuttingDown"
      /\ nextId' = nextId + 1 /\ nextId <= MaxId
      /\ pending' = With(pending, nextId, "shutdown") /\ wire' = Append(wire, m)
      /\ UNCHANGED <<queued, initializeId, delivered>>
  BY DEF Shutdown
<1>3. /\ nextId \in Nat \ {0}
      /\ DOMAIN pending' = DOMAIN pending \cup {nextId}
      /\ nextId \notin DOMAIN pending /\ pending'[nextId].method = "shutdown"
      /\ \A id \in DOMAIN pending : pending'[id] = pending[id]
  BY <1>2, Allocated DEF FInv, IInv
<1>4. m \in Message /\ m.kind = "request" /\ m.id = nextId /\ m.method = "shutdown"
  BY <1>3 DEF Req, Message
<1> HIDE DEF m
<1>5. initializeId # nextId
  BY <1>3 DEF FInv, IInv, TypeOK
<1>6. /\ Len(wire) \in Nat
      /\ DOMAIN wire = 1..Len(wire) /\ DOMAIN wire' = 1..(Len(wire) + 1)
      /\ \A i \in 1..Len(wire) : wire'[i] = wire[i]
      /\ wire'[Len(wire) + 1] = m
  BY <1>2, <1>4, WireAppend DEF FInv, IInv
<1>7. DeliveredOnce'
  BY <1>2, <1>3, <1>6 DEF FInv, DeliveredOnce
<1>8. SentAsRaised'
  BY <1>3, <1>4, <1>6 DEF FInv, SentAsRaised, IInv, IdsAllocated
<1>9. QueuedWanted'
  BY <1>2, <1>3 DEF FInv, QueuedWanted, IInv, QueueWaits
<1>10. Milestones'
  BY <1>2, <1>3, <1>4, <1>5, <1>6 DEF FInv, Milestones, ExitedEmpty
<1>11. AfterTheEnd'
  BY <1>2, <1>6 DEF FInv, AfterTheEnd, Milestones, ExitedEmpty
<1> QED
  BY <1>1, <1>7, <1>8, <1>9, <1>10, <1>11 DEF FInv

\* Nothing is left of the tables after `exit'.
LEMMA FatesExit ==
  ASSUME FInv, Exit PROVE FInv'
<1> DEFINE m == Note("exit", NoId)
<1>1. IInv'
  BY ExitStep DEF FInv
<1>2. /\ state = "ShuttingDown" /\ state' = "Exited"
      /\ pending' = <<>> /\ queued' = <<>> /\ wire' = Append(wire, m)
      /\ UNCHANGED <<nextId, initializeId, shutdownId, delivered>>
  BY DEF Exit
<1>3. m \in Message /\ m.kind = "notification" /\ m.method = "exit"
  BY DEF Note, NoId, Message
<1> HIDE DEF m
<1>4. /\ Len(wire) \in Nat
      /\ DOMAIN wire = 1..Len(wire) /\ DOMAIN wire' = 1..(Len(wire) + 1)
      /\ \A i \in 1..Len(wire) : wire'[i] = wire[i]
      /\ wire'[Len(wire) + 1] = m
  BY <1>2, <1>3, WireAppend DEF FInv, IInv
<1>5. DOMAIN pending' = {} /\ DOMAIN queued' = {}
  BY <1>2
<1>6. DeliveredOnce'
  BY <1>2, <1>4, <1>5 DEF FInv, DeliveredOnce
<1>7. SentAsRaised' /\ QueuedWanted'
  BY <1>5 DEF SentAsRaised, QueuedWanted
<1>8. Milestones'
  BY <1>2, <1>5 DEF Milestones, ExitedEmpty
<1>9. AfterTheEnd'
  BY <1>2, <1>3, <1>4 DEF FInv, AfterTheEnd, Milestones, ExitedEmpty
<1> QED
  BY <1>1, <1>6, <1>7, <1>8, <1>9 DEF FInv

\* The client's own request to end is answered.
LEMMA FatesAnswerShutdown ==
  ASSUME FInv, NEW id \in Ids, AnswerShutdown(id) PROVE FInv'
<1>1. IInv'
  BY AnswerShutdownStep DEF FInv
<1>2. /\ id \in SentIds /\ id \in DOMAIN pending /\ pending' = Without(pending, id)
      /\ UNCHANGED <<state, nextId, queued, initializeId, shutdownId, wire, delivered>>
  BY DEF AnswerShutdown, Replies
<1>3. \A i \in DOMAIN queued : queued[i] # id
  BY <1>2, SentIsNotQueued DEF FInv
<1> QED
  BY <1>1, <1>2, <1>3, FatesForgotten

\* What waited is sent under the method it was raised with.
LEMMA FatesReady ==
  ASSUME FInv, NEW id \in Ids, FinishInitialize(id, "ready") PROVE FInv'
<1> DEFINE L == Len(wire)
           Q == Len(queued)
<1>1. IInv'
  BY FinishInitializeReady DEF FInv
<1>2. /\ id \in DOMAIN pending /\ id = initializeId /\ pending' = Without(pending, id)
      /\ state' = "Ready" /\ queued' = <<>>
      /\ UNCHANGED <<nextId, initializeId, shutdownId, delivered, asked>>
  BY DEF FinishInitialize, Replies
<1>3. /\ L \in Nat /\ DOMAIN wire = 1..L /\ Q \in Nat /\ DOMAIN queued = 1..Q
      /\ DOMAIN wire' = 1..(L + 1 + Q)
      /\ \A i \in 1..L : wire'[i] = wire[i]
      /\ wire'[L + 1] = Initialized
      /\ \A i \in 1..Q : wire'[L + 1 + i] = Req(pending[queued[i]].method, queued[i])
      /\ \A i \in DOMAIN wire' : i \in 1..L \/ i = L + 1 \/ \E j \in 1..Q : i = L + 1 + j
  BY ReadyWire DEF FInv
<1>4. /\ Initialized.kind = "notification" /\ Initialized.method = "initialized"
  BY DEF Initialized, Note
<1>5. \A i \in 1..Q : /\ wire'[L + 1 + i].id = queued[i]
                      /\ wire'[L + 1 + i].method = pending[queued[i]].method
                      /\ pending[queued[i]].method \in Methods
  <2>1. \A i \in 1..Q : pending[queued[i]].method \in Methods
    BY <1>3 DEF FInv, IInv, QueueWaits
  <2>2. \A i \in 1..Q : wire'[L + 1 + i] = Req(pending[queued[i]].method, queued[i])
    BY <1>3
  <2>3. \A method, i : Req(method, i).id = i /\ Req(method, i).method = method
    BY DEF Req
  <2> SUFFICES ASSUME NEW i \in 1..Q
               PROVE  /\ wire'[L + 1 + i].id = queued[i]
                      /\ wire'[L + 1 + i].method = pending[queued[i]].method
                      /\ pending[queued[i]].method \in Methods
    OBVIOUS
  <2>4. wire'[L + 1 + i] = Req(pending[queued[i]].method, queued[i])
    BY <2>2
  <2>5. /\ wire'[L + 1 + i].id = queued[i]
        /\ wire'[L + 1 + i].method = pending[queued[i]].method
    BY <2>3, <2>4
  <2> QED
    BY <2>1, <2>5
<1>6. /\ DOMAIN pending' = DOMAIN pending \ {id}
      /\ \A i \in DOMAIN pending' : pending'[i] = pending[i]
  BY <1>2, Forgotten DEF FInv, IInv
<1>7. state = "Initializing" /\ shutdownId = NoId
  BY <1>2 DEF FInv, Milestones
<1> HIDE DEF L, Q
<1>8. \A i \in 1..L : wire[i].method \notin {"shutdown", "exit"}
  BY <1>3, <1>7 DEF FInv, Milestones, ExitedEmpty
<1>9. \A i \in DOMAIN wire' : wire'[i].method \notin {"shutdown", "exit"}
  <2> SUFFICES ASSUME NEW i \in DOMAIN wire'
               PROVE  wire'[i].method \notin {"shutdown", "exit"}
    OBVIOUS
  <2>1. CASE i \in 1..L
    BY <1>3, <1>8, <2>1
  <2>2. CASE i = L + 1
    BY <1>3, <1>4, <2>2
  <2>3. CASE \E j \in 1..Q : i = L + 1 + j
    BY <1>5, <2>3, ClientAssumption
  <2> QED
    BY <1>3, <2>1, <2>2, <2>3
<1>10. DeliveredOnce'
  <2>1. \A j \in 1..L : j \in DOMAIN wire'
    BY <1>3
  <2> QED
    BY <1>2, <1>3, <1>6, <2>1 DEF FInv, DeliveredOnce, Req
<1>11. SentAsRaised'
  <2> SUFFICES ASSUME NEW i \in DOMAIN wire', wire'[i].kind = "request",
                      wire'[i].id \in DOMAIN pending'
               PROVE  wire'[i].method = pending'[wire'[i].id].method
    BY DEF SentAsRaised
  <2>1. CASE i \in 1..L
    BY <1>3, <1>6, <2>1 DEF FInv, SentAsRaised
  <2>2. i # L + 1
    BY <1>3, <1>4
  <2>3. CASE \E j \in 1..Q : i = L + 1 + j
    BY <1>5, <1>6, <2>3
  <2> QED
    BY <1>3, <2>1, <2>2, <2>3
<1>12. QueuedWanted'
  BY <1>2 DEF QueuedWanted
<1>13. Milestones'
  BY <1>2, <1>6, <1>7, <1>9 DEF Milestones
<1>14. AfterTheEnd'
  BY <1>9 DEF AfterTheEnd
<1> QED
  BY <1>1, <1>10, <1>11, <1>12, <1>13, <1>14 DEF FInv

\* Whatever the handshake's reply says, it touches no request of the editor.
LEMMA FatesFinishInitialize ==
  ASSUME FInv, NEW id \in Ids, NEW outcome \in Outcomes, FinishInitialize(id, outcome)
  PROVE  FInv'
<1>1. IInv'
  BY FinishInitializeStep DEF FInv
<1>2. /\ id \in SentIds /\ id \in DOMAIN pending /\ id = initializeId
      /\ pending' = Without(pending, id)
      /\ UNCHANGED <<nextId, initializeId, shutdownId, delivered>>
  BY DEF FinishInitialize, Replies
<1>3. \A i \in DOMAIN queued : queued[i] # id
  BY <1>2, SentIsNotQueued DEF FInv
<1>4. CASE outcome = "ready"
  BY <1>4, FatesReady
<1>5. CASE outcome = "refused"
  <2>1. state' = "Exited" /\ UNCHANGED <<wire, queued>>
    BY <1>5 DEF FinishInitialize
  <2> QED
    BY <1>1, <1>2, <1>3, <2>1, FatesForgotten
<1>6. CASE outcome = "bad encoding"
  <2>1. UNCHANGED <<state, wire, queued>>
    BY <1>6 DEF FinishInitialize
  <2> QED
    BY <1>1, <1>2, <1>3, <2>1, FatesForgotten
<1> QED
  BY <1>4, <1>5, <1>6 DEF Outcomes

\* A request the server was sent is on the wire, under the method it awaits.
LEMMA SentUnderItsMethod ==
  ASSUME FInv, NEW id \in SentIds, id \in DOMAIN pending
  PROVE  \E j \in DOMAIN wire : wire[j] = Req(pending[id].method, id)
<1>1. PICK j \in DOMAIN wire : wire[j].kind = "request" /\ wire[j].id = id
  BY DEF SentIds
<1>2. wire[j].method = pending[id].method
  BY <1>1 DEF FInv, SentAsRaised
<1>3. wire[j] \in Message
  <2>1. wire \in Seq(Message)
    BY DEF FInv, IInv, TypeOK
  <2> QED
    BY <1>1, <2>1, ElementOfSeq, LenProperties
<1>4. wire[j] = Req(pending[id].method, id)
  BY <1>1, <1>2, <1>3 DEF Message, Req
<1> QED
  BY <1>4

\* A reply is handed over under the method its request was sent with, and the
\* request is forgotten by the same step.
LEMMA FatesHandleResponse ==
  ASSUME FInv, NEW id \in Ids, HandleResponse(id) PROVE FInv'
<1> DEFINE event == Event("Response", pending[id].method, id)
<1>1. IInv'
  BY HandleResponseStep DEF FInv
<1>2. /\ id \in SentIds /\ id \in DOMAIN pending /\ pending' = Without(pending, id)
      /\ UNCHANGED <<state, nextId, queued, initializeId, shutdownId, wire>>
  BY DEF HandleResponse, Replies
<1>3. \A i \in DOMAIN queued : queued[i] # id
  BY <1>2, SentIsNotQueued DEF FInv
<1>4. CASE pending[id].cancelled
  <2>1. delivered' = delivered
    BY <1>4 DEF HandleResponse
  <2> QED
    BY <1>1, <1>2, <1>3, <2>1, FatesForgotten
<1>5. CASE ~pending[id].cancelled
  <2>1. delivered' = Append(delivered, event)
    BY <1>5 DEF HandleResponse
  <2>2. /\ DOMAIN pending' = DOMAIN pending \ {id}
        /\ \A i \in DOMAIN pending' : pending'[i] = pending[i]
    BY <1>2, Forgotten DEF FInv, IInv
  <2>3. id \in 1..(nextId - 1) /\ id \in Nat
    BY <1>2, SentIsNotQueued DEF FInv
  <2>4. event \in EditorEvent /\ event.kind = "Response"
        /\ event.method = pending[id].method /\ event.id = id
    BY <1>2, <2>3 DEF Event, EditorEvent, FInv, IInv, TypeOK
  <2> HIDE DEF event
  <2>5. /\ Len(delivered) \in Nat /\ DOMAIN delivered = 1..Len(delivered)
        /\ DOMAIN delivered' = 1..(Len(delivered) + 1)
        /\ \A i \in 1..Len(delivered) : delivered'[i] = delivered[i]
        /\ delivered'[Len(delivered) + 1] = event
    <3>1. delivered \in Seq(EditorEvent)
      BY DEF FInv, IInv, TypeOK
    <3> QED
      BY <2>1, <2>4, <3>1, AppendProperties, LenProperties
  <2>6. \A i \in 1..Len(delivered) :
           delivered[i].kind = "Response" => delivered[i].id # id
    BY <1>2, <2>5 DEF FInv, DeliveredOnce
  <2>7. \E j \in DOMAIN wire : wire[j] = Req(event.method, id)
    BY <1>2, <2>4, SentUnderItsMethod
  <2>8. DeliveredOnce'
    <3> SUFFICES ASSUME NEW i \in DOMAIN delivered', delivered'[i].kind = "Response"
                 PROVE  /\ delivered'[i].id \in 1..(nextId - 1)
                        /\ delivered'[i].id \notin DOMAIN pending'
                        /\ \A k \in DOMAIN delivered' :
                             (/\ delivered'[k].kind = "Response"
                              /\ delivered'[k].id = delivered'[i].id) => k = i
                        /\ \E j \in DOMAIN wire :
                             wire[j] = Req(delivered'[i].method, delivered'[i].id)
      BY <1>2 DEF DeliveredOnce, Req
    <3>1. CASE i \in 1..Len(delivered)
      BY <2>2, <2>4, <2>5, <2>6, <3>1 DEF FInv, DeliveredOnce
    <3>2. CASE i = Len(delivered) + 1
      BY <2>2, <2>3, <2>4, <2>5, <2>6, <2>7, <3>2
    <3> QED
      BY <2>5, <3>1, <3>2
  <2>9. SentAsRaised'
    BY <1>2, <2>2 DEF FInv, SentAsRaised
  <2>10. QueuedWanted'
    BY <1>2, <1>3, <2>2 DEF FInv, QueuedWanted, IInv, QueueWaits
  <2>11. Milestones'
    BY <1>2, <2>2 DEF FInv, Milestones, ExitedEmpty, Opened
  <2>12. AfterTheEnd'
    BY <1>2 DEF FInv, AfterTheEnd
  <2> QED
    BY <1>1, <2>8, <2>9, <2>10, <2>11, <2>12 DEF FInv
<1> QED
  BY <1>4, <1>5

\* A step that changes nothing.
LEMMA FatesStutter ==
  ASSUME FInv, UNCHANGED vars PROVE FInv'
<1>1. IInv'
  BY StutterStep DEF FInv
<1>2. UNCHANGED <<state, nextId, pending, queued, initializeId, shutdownId,
                  wire, delivered, asked>>
  BY DEF vars, clientVars
<1>3. DeliveredOnce' /\ SentAsRaised' /\ QueuedWanted' /\ AfterTheEnd'
  BY <1>2 DEF FInv, DeliveredOnce, SentAsRaised, QueuedWanted, AfterTheEnd
<1>4. Milestones'
  BY <1>2 DEF FInv, Milestones, ExitedEmpty, Opened
<1> QED
  BY <1>1, <1>3, <1>4 DEF FInv

\* Every step keeps the fates.
LEMMA NextFInv == FInv /\ [Next]_vars => FInv'
<1> SUFFICES ASSUME FInv, [Next]_vars PROVE FInv'
  OBVIOUS
<1>1. CASE Initialize
  BY <1>1, FatesInitialize
<1>2. CASE Notify
  BY <1>2, FatesNotify
<1>3. CASE Shutdown
  BY <1>3, FatesShutdown
<1>4. CASE Exit
  BY <1>4, FatesExit
<1>5. ASSUME NEW method \in Methods, Request(method) PROVE FInv'
  BY <1>5, FatesRequest
<1>6. ASSUME NEW id \in Ids, Cancel(id) PROVE FInv'
  BY <1>6, FatesCancelQueued, FatesCancelSent DEF Cancel
<1>7. ASSUME NEW id \in ServerIds, AnswerApplyEdit(id) PROVE FInv'
  BY <1>7, FatesAnswerApplyEdit
<1>8. CASE UnknownResponse
  BY <1>8, FatesStutter DEF UnknownResponse
<1>9. ASSUME NEW id \in Ids, NEW outcome \in Outcomes, FinishInitialize(id, outcome)
      PROVE  FInv'
  BY <1>9, FatesFinishInitialize
<1>10. ASSUME NEW id \in Ids, AnswerShutdown(id) PROVE FInv'
  BY <1>10, FatesAnswerShutdown
<1>11. ASSUME NEW id \in Ids, HandleResponse(id) PROVE FInv'
  BY <1>11, FatesHandleResponse
<1>12. ASSUME NEW method \in ServerMethods, HandleServerRequest(method) PROVE FInv'
  BY <1>12, FatesServerRequest
<1>13. CASE UNCHANGED vars
  BY <1>13, FatesStutter
<1> QED
  BY <1>1, <1>2, <1>3, <1>4, <1>5, <1>6, <1>7, <1>8, <1>9, <1>10, <1>11, <1>12,
     <1>13 DEF Next, EditorCall, ServerMessage

\* The fates hold in every state of every conversation.
THEOREM FatesInvariance == Spec => []FInv
<1> QED
  BY InitFInv, NextFInv, PTL DEF Spec

(***************************************************************************)
(* The end of a session.  What is pending was sent or waits, and nothing   *)
(* is asked after the shutdown: so what is cancelled then was asked before.*)
(***************************************************************************)
PendingReached == DOMAIN pending \subseteq SentIds \cup QueuedIds

ShutdownIsLast ==
  \A i \in DOMAIN wire : wire[i].method = "shutdown" =>
    wire[i].kind = "request" /\ wire[i].id = nextId - 1 /\ wire[i].id = shutdownId

CancelsWereAsked ==
  \A i, j \in DOMAIN wire :
    (i < j /\ wire[i].method = "shutdown" /\ wire[j].method = "$/cancelRequest") =>
      \E k \in 1..(i - 1) : wire[k].kind = "request" /\ wire[k].id = wire[j].id

EInv == FInv /\ PendingReached /\ ShutdownIsLast /\ CancelsWereAsked

\* What is on the wire stays there.
LEMMA SentGrows ==
  ASSUME TypeOK, NEW m \in Message, wire' = Append(wire, m)
  PROVE  /\ SentIds \subseteq SentIds'
         /\ m.kind = "request" => m.id \in SentIds'
<1>1. /\ Len(wire) \in Nat
      /\ DOMAIN wire = 1..Len(wire) /\ DOMAIN wire' = 1..(Len(wire) + 1)
      /\ \A i \in 1..Len(wire) : wire'[i] = wire[i]
      /\ wire'[Len(wire) + 1] = m
  BY WireAppend
<1>2. ASSUME NEW id \in SentIds PROVE id \in SentIds'
  <2>1. PICK j \in DOMAIN wire : wire[j].kind = "request" /\ wire[j].id = id
    BY DEF SentIds
  <2>2. j \in DOMAIN wire' /\ wire'[j].kind = "request" /\ wire'[j].id = id
    BY <1>1, <2>1
  <2> QED
    BY <2>2 DEF SentIds
<1>3. ASSUME m.kind = "request" PROVE m.id \in SentIds'
  <2>1. Len(wire) + 1 \in DOMAIN wire' /\ wire'[Len(wire) + 1].kind = "request"
        /\ wire'[Len(wire) + 1].id = m.id
    BY <1>1, <1>3
  <2> QED
    BY <2>1 DEF SentIds
<1> QED
  BY <1>2, <1>3

\* As long as the session is opening or open there is no shutdown to follow.
LEMMA NoEndYet ==
  ASSUME FInv, state \in {"Uninitialized", "Initializing", "Ready"}
  PROVE  /\ \A i \in DOMAIN wire : wire[i].method # "shutdown"
         /\ ShutdownIsLast /\ CancelsWereAsked
BY DEF FInv, Milestones, ExitedEmpty, ShutdownIsLast, CancelsWereAsked

\* A message that is no shutdown and no cancellation.
LEMMA EndAppend ==
  ASSUME EInv, NEW m \in Message, wire' = Append(wire, m),
         m.method \notin {"shutdown", "$/cancelRequest"},
         UNCHANGED <<nextId, shutdownId, queued>>,
         DOMAIN pending' \subseteq DOMAIN pending
  PROVE  PendingReached' /\ ShutdownIsLast' /\ CancelsWereAsked'
<1>1. /\ Len(wire) \in Nat
      /\ DOMAIN wire = 1..Len(wire) /\ DOMAIN wire' = 1..(Len(wire) + 1)
      /\ \A i \in 1..Len(wire) : wire'[i] = wire[i]
      /\ wire'[Len(wire) + 1] = m
  BY WireAppend DEF EInv, FInv, IInv
<1>2. SentIds \subseteq SentIds' /\ QueuedIds' = QueuedIds
  BY SentGrows DEF EInv, FInv, IInv, QueuedIds
<1>3. PendingReached'
  BY <1>2 DEF EInv, PendingReached
<1>4. ShutdownIsLast'
  BY <1>1 DEF EInv, ShutdownIsLast
<1>5. CancelsWereAsked'
  <2> SUFFICES ASSUME NEW i \in DOMAIN wire', NEW j \in DOMAIN wire', i < j,
                      wire'[i].method = "shutdown",
                      wire'[j].method = "$/cancelRequest"
               PROVE  \E k \in 1..(i - 1) :
                         wire'[k].kind = "request" /\ wire'[k].id = wire'[j].id
    BY DEF CancelsWereAsked
  <2>1. i \in DOMAIN wire /\ j \in DOMAIN wire
        /\ wire'[i] = wire[i] /\ wire'[j] = wire[j]
    BY <1>1
  <2>2. PICK k \in 1..(i - 1) : wire[k].kind = "request" /\ wire[k].id = wire[j].id
    BY <2>1 DEF EInv, CancelsWereAsked
  <2>3. k \in 1..Len(wire)
    BY <1>1, <2>1
  <2> QED
    BY <1>1, <2>1, <2>2, <2>3
<1> QED
  BY <1>3, <1>4, <1>5

\* What is on the wire does not change, and nothing new is pending.
LEMMA EndStays ==
  ASSUME EInv, UNCHANGED <<nextId, shutdownId, queued, wire>>,
         DOMAIN pending' \subseteq DOMAIN pending
  PROVE  PendingReached' /\ ShutdownIsLast' /\ CancelsWereAsked'
BY DEF EInv, PendingReached, ShutdownIsLast, CancelsWereAsked, SentIds, QueuedIds

\* Nothing is on the wire, or pending, before `initialize'.
LEMMA EndInitialize ==
  ASSUME EInv, FInv', Initialize PROVE EInv'
<1> DEFINE m == Req("initialize", nextId)
<1>1. /\ state' = "Initializing" /\ wire' = Append(wire, m) /\ nextId = 1
      /\ pending' = With(pending, nextId, "initialize") /\ DOMAIN pending = {}
  BY DEF Initialize, EInv, FInv, IInv, Phases, Milestones
<1>2. m \in Message /\ m.kind = "request" /\ m.id = nextId
  BY <1>1 DEF Req, Message
<1> HIDE DEF m
<1>3. nextId \in SentIds'
  BY <1>1, <1>2, SentGrows DEF EInv, FInv, IInv
<1>4. DOMAIN pending' = {nextId}
  BY <1>1 DEF With
<1>5. PendingReached'
  BY <1>3, <1>4 DEF PendingReached
<1>6. ShutdownIsLast' /\ CancelsWereAsked'
  BY <1>1 DEF FInv, Milestones, ExitedEmpty, ShutdownIsLast, CancelsWereAsked
<1> QED
  BY <1>5, <1>6 DEF EInv

\* A request is sent, or waits.
LEMMA EndRequest ==
  ASSUME EInv, FInv', NEW method \in Methods, Request(method) PROVE EInv'
<1> DEFINE m == Req(method, nextId)
<1>1. /\ state \in {"Initializing", "Ready"} /\ state' = state /\ nextId <= MaxId
      /\ pending' = With(pending, nextId, method)
  BY DEF Request
<1>2. nextId \in Nat
  BY ClientAssumption DEF EInv, FInv, IInv, TypeOK
<1>3. m \in Message /\ m.kind = "request" /\ m.id = nextId
  BY <1>2 DEF Req, Message
<1>4. DOMAIN pending' = DOMAIN pending \cup {nextId}
  BY <1>1 DEF With
<1>5. CASE state = "Initializing"
  <2>1. queued' = Append(queued, nextId) /\ wire' = wire
    BY <1>5 DEF Request
  <2>2. /\ DOMAIN queued = 1..Len(queued) /\ Len(queued) \in Nat
        /\ DOMAIN queued' = 1..(Len(queued) + 1)
        /\ \A i \in 1..Len(queued) : queued'[i] = queued[i]
        /\ queued'[Len(queued) + 1] = nextId
    <3> DEFINE S == 1..nextId
    <3>1. queued \in Seq(1..(nextId - 1)) /\ nextId \in S
      BY <1>2 DEF EInv, FInv, IInv, TypeOK, S
    <3>2. \A i \in 1..Len(queued) : queued[i] \in 1..(nextId - 1)
      BY <3>1, ElementOfSeq
    <3>3. queued \in Seq(S)
      <4>1. nextId - 1 \in Int /\ \A x \in 1..(nextId - 1) : x \in S
        BY <1>2 DEF S
      <4> HIDE DEF S
      <4> QED
        BY <3>1, <4>1, <3>2, IsASeq, LenProperties
    <3> HIDE DEF S
    <3> QED
      BY <2>1, <3>1, <3>3, AppendProperties, LenProperties
  <2>3. QueuedIds \subseteq QueuedIds' /\ nextId \in QueuedIds'
    <3>1. ASSUME NEW i \in DOMAIN queued PROVE queued[i] \in QueuedIds'
      <4>1. i \in DOMAIN queued' /\ queued'[i] = queued[i]
        BY <2>2
      <4> QED
        BY <4>1 DEF QueuedIds
    <3>2. Len(queued) + 1 \in DOMAIN queued'
      BY <2>2
    <3> QED
      BY <2>2, <3>1, <3>2 DEF QueuedIds
  <2>4. SentIds' = SentIds
    BY <2>1 DEF SentIds
  <2>5. PendingReached'
    BY <1>4, <2>3, <2>4 DEF EInv, PendingReached
  <2> QED
    BY <1>1, <2>5 DEF EInv, FInv, Milestones, ExitedEmpty, ShutdownIsLast,
                      CancelsWereAsked
<1>6. CASE state # "Initializing"
  <2>1. wire' = Append(wire, m) /\ queued' = queued
    BY <1>6 DEF Request
  <2> HIDE DEF m
  <2>2. SentIds \subseteq SentIds' /\ nextId \in SentIds'
    BY <1>3, <2>1, SentGrows DEF EInv, FInv, IInv
  <2>3. QueuedIds' = QueuedIds
    BY <2>1 DEF QueuedIds
  <2>4. PendingReached'
    BY <1>4, <2>2, <2>3 DEF EInv, PendingReached
  <2> QED
    BY <1>1, <2>4 DEF EInv, FInv, Milestones, ExitedEmpty, ShutdownIsLast,
                      CancelsWereAsked
<1> QED
  BY <1>5, <1>6

\* A notification of the editor is sent on an open session.
LEMMA EndNotify ==
  ASSUME EInv, FInv', Notify PROVE EInv'
<1> DEFINE m == Note("didChange", NoId)
<1>1. wire' = Append(wire, m) /\ UNCHANGED <<nextId, shutdownId, queued, pending>>
  BY DEF Notify, clientVars
<1>2. m \in Message /\ m.method \notin {"shutdown", "$/cancelRequest"}
  BY DEF Note, NoId, Message
<1> HIDE DEF m
<1> QED
  BY <1>1, <1>2, EndAppend DEF EInv

\* What waited and is cancelled neither waits nor is pending.
LEMMA EndCancelQueued ==
  ASSUME EInv, FInv', NEW id \in Ids, CancelQueued(id) PROVE EInv'
<1>1. /\ pending' = Without(pending, id) /\ UNCHANGED <<nextId, shutdownId, wire>>
  BY DEF CancelQueued
<1>2. QueuedIds' = QueuedIds \ {id}
  BY QueueAfterCancel DEF EInv, FInv
<1>3. SentIds' = SentIds
  BY <1>1 DEF SentIds
<1>4. DOMAIN pending' = DOMAIN pending \ {id}
  BY <1>1 DEF Without
<1>5. PendingReached'
  BY <1>2, <1>3, <1>4 DEF EInv, PendingReached
<1>6. ShutdownIsLast' /\ CancelsWereAsked'
  BY <1>1 DEF EInv, ShutdownIsLast, CancelsWereAsked
<1> QED
  BY <1>5, <1>6 DEF EInv

\* What is cancelled after the shutdown was sent before it.
LEMMA EndCancelSent ==
  ASSUME EInv, FInv', NEW id \in Ids, id \notin {initializeId, shutdownId}, CancelSent(id)
  PROVE  EInv'
<1> DEFINE m == Note("$/cancelRequest", id)
<1>1. /\ id \in DOMAIN pending \ QueuedIds /\ wire' = Append(wire, m)
      /\ pending' = [pending EXCEPT ![id].cancelled = TRUE]
      /\ UNCHANGED <<nextId, shutdownId, queued>>
  BY DEF CancelSent
<1>2. m \in Message /\ m.kind = "notification" /\ m.method = "$/cancelRequest" /\ m.id = id
  BY ClientAssumption DEF Note, Message, Ids
<1> HIDE DEF m
<1>3. /\ Len(wire) \in Nat
      /\ DOMAIN wire = 1..Len(wire) /\ DOMAIN wire' = 1..(Len(wire) + 1)
      /\ \A i \in 1..Len(wire) : wire'[i] = wire[i]
      /\ wire'[Len(wire) + 1] = m
  BY <1>1, <1>2, WireAppend DEF EInv, FInv, IInv
<1>4. PICK k \in DOMAIN wire : wire[k].kind = "request" /\ wire[k].id = id
  BY <1>1 DEF EInv, PendingReached, SentIds
<1>5. ASSUME NEW i \in DOMAIN wire, wire[i].method = "shutdown" PROVE k < i
  <2>1. wire[i].kind = "request" /\ wire[i].id = nextId - 1 /\ wire[i].id # id
    BY <1>5 DEF EInv, ShutdownIsLast
  <2>2. k # i
    BY <1>4, <2>1
  <2>3. nextId \in Nat /\ wire[k].id \in 1..(nextId - 1)
    BY <1>4, ClientAssumption DEF EInv, FInv, IInv, IdsAllocated, TypeOK
  <2>4. ~(i < k)
    BY <1>4, <2>1, <2>3 DEF EInv, FInv, IInv, RequestsInOrder
  <2> QED
    BY <1>3, <2>2, <2>4
<1>6. PendingReached'
  <2>1. SentIds \subseteq SentIds' /\ QueuedIds' = QueuedIds
    BY <1>1, <1>2, SentGrows DEF EInv, FInv, IInv, QueuedIds
  <2>2. DOMAIN pending' = DOMAIN pending
    BY <1>1
  <2> QED
    BY <2>1, <2>2 DEF EInv, PendingReached
<1>7. ShutdownIsLast'
  BY <1>1, <1>2, <1>3 DEF EInv, ShutdownIsLast
<1>8. CancelsWereAsked'
  <2> SUFFICES ASSUME NEW i \in DOMAIN wire', NEW j \in DOMAIN wire', i < j,
                      wire'[i].method = "shutdown",
                      wire'[j].method = "$/cancelRequest"
               PROVE  \E n \in 1..(i - 1) :
                         wire'[n].kind = "request" /\ wire'[n].id = wire'[j].id
    BY DEF CancelsWereAsked
  <2>1. i \in DOMAIN wire /\ wire'[i] = wire[i]
    BY <1>3
  <2>2. CASE j \in DOMAIN wire
    <3>1. PICK n \in 1..(i - 1) : wire[n].kind = "request" /\ wire[n].id = wire[j].id
      BY <1>3, <2>1, <2>2 DEF EInv, CancelsWereAsked
    <3>2. n \in 1..Len(wire)
      BY <1>3, <2>1
    <3> QED
      BY <1>3, <2>2, <3>1, <3>2
  <2>3. CASE j = Len(wire) + 1
    <3>1. k < i /\ k \in 1..(i - 1)
      BY <1>3, <1>5, <2>1
    <3> QED
      BY <1>2, <1>3, <1>4, <2>3, <3>1
  <2> QED
    BY <1>3, <2>2, <2>3
<1> QED
  BY <1>6, <1>7, <1>8 DEF EInv

\* The shutdown takes the last id.
LEMMA EndShutdown ==
  ASSUME EInv, FInv', Shutdown PROVE EInv'
<1> DEFINE m == Req("shutdown", nextId)
<1>1. /\ state = "Ready" /\ nextId' = nextId + 1 /\ shutdownId' = nextId
      /\ pending' = With(pending, nextId, "shutdown") /\ wire' = Append(wire, m)
      /\ queued' = queued
  BY DEF Shutdown
<1>2. nextId \in Nat
  BY ClientAssumption DEF EInv, FInv, IInv, TypeOK
<1>3. m \in Message /\ m.kind = "request" /\ m.id = nextId /\ m.method = "shutdown"
  BY <1>2 DEF Req, Message
<1> HIDE DEF m
<1>4. /\ Len(wire) \in Nat
      /\ DOMAIN wire = 1..Len(wire) /\ DOMAIN wire' = 1..(Len(wire) + 1)
      /\ \A i \in 1..Len(wire) : wire'[i] = wire[i]
      /\ wire'[Len(wire) + 1] = m
  BY <1>1, <1>3, WireAppend DEF EInv, FInv, IInv
<1>5. \A i \in DOMAIN wire : wire[i].method # "shutdown"
  BY <1>1, NoEndYet DEF EInv
<1>6. PendingReached'
  <2>1. SentIds \subseteq SentIds' /\ nextId \in SentIds' /\ QueuedIds' = QueuedIds
    BY <1>1, <1>3, SentGrows DEF EInv, FInv, IInv, QueuedIds
  <2>2. DOMAIN pending' = DOMAIN pending \cup {nextId}
    BY <1>1 DEF With
  <2> QED
    BY <2>1, <2>2 DEF EInv, PendingReached
<1>7. ShutdownIsLast'
  BY <1>1, <1>2, <1>3, <1>4, <1>5 DEF ShutdownIsLast
<1>8. CancelsWereAsked'
  BY <1>4, <1>5 DEF CancelsWereAsked
<1> QED
  BY <1>6, <1>7, <1>8 DEF EInv

\* Nothing is pending after `exit'.
LEMMA EndExit ==
  ASSUME EInv, FInv', Exit PROVE EInv'
<1> DEFINE m == Note("exit", NoId)
<1>1. /\ state = "ShuttingDown" /\ pending' = <<>> /\ wire' = Append(wire, m)
      /\ UNCHANGED <<nextId, shutdownId>>
  BY DEF Exit
<1>2. m \in Message /\ m.method \notin {"shutdown", "$/cancelRequest"}
  BY DEF Note, NoId, Message
<1> HIDE DEF m
<1>3. queued = <<>> /\ queued' = <<>>
  BY <1>1 DEF Exit, EInv, FInv, IInv, QueueDrained
<1>4. DOMAIN pending' = {}
  BY <1>1
<1> QED
  BY <1>1, <1>2, <1>3, <1>4, EndAppend DEF EInv

\* An answer to a request of the server's own ends nothing.
LEMMA EndAnswerApplyEdit ==
  ASSUME EInv, FInv', NEW id \in ServerIds, AnswerApplyEdit(id) PROVE EInv'
<1>0. id \in Nat
  BY ClientAssumption DEF ServerIds
<1>1. PICK result \in {"applied", "not applied"} : wire' = Append(wire, Ans(result, id))
  BY DEF AnswerApplyEdit
<1>2. UNCHANGED <<nextId, shutdownId, queued, pending>>
  BY DEF AnswerApplyEdit, clientVars
<1>3. /\ Ans(result, id) \in Message
      /\ Ans(result, id).method \notin {"shutdown", "$/cancelRequest"}
  <2>1. result \in Results
    BY DEF Results
  <2> QED
    BY <1>0, <2>1 DEF Ans, Message
<1> QED
  BY <1>1, <1>2, <1>3, EndAppend DEF EInv

\* Nor does a request of the server's own.
LEMMA EndServerRequest ==
  ASSUME EInv, FInv', NEW method \in ServerMethods, HandleServerRequest(method)
  PROVE  EInv'
<1> DEFINE id == Len(asked) + 1
<1>1. UNCHANGED <<nextId, shutdownId, queued, pending>>
  BY DEF HandleServerRequest, clientVars
<1>2. id \in Nat
  <2>1. asked \in Seq(ServerMethods)
    BY DEF EInv, FInv, IInv, TypeOK
  <2> QED
    BY <2>1, LenProperties
<1>3. CASE method = ApplyEdit /\ RunningCommand
  <2>1. wire' = wire
    BY <1>3 DEF HandleServerRequest
  <2> QED
    BY <1>1, <2>1, EndStays DEF EInv
<1>4. CASE ~(method = ApplyEdit /\ RunningCommand)
  <2>1. PICK result \in Results : wire' = Append(wire, Ans(result, id))
    BY <1>4 DEF HandleServerRequest, Results
  <2>2. /\ Ans(result, id) \in Message
        /\ Ans(result, id).method \notin {"shutdown", "$/cancelRequest"}
    BY <1>2 DEF Ans, Message, Results
  <2> HIDE DEF id
  <2> QED
    BY <1>1, <2>1, <2>2, EndAppend DEF EInv
<1> QED
  BY <1>3, <1>4

\* The session opens: what waited is on the wire.
LEMMA EndFinishInitialize ==
  ASSUME EInv, FInv', NEW id \in Ids, NEW outcome \in Outcomes,
         FinishInitialize(id, outcome)
  PROVE  EInv'
<1>1. /\ id \in DOMAIN pending /\ id = initializeId /\ pending' = Without(pending, id)
      /\ UNCHANGED <<nextId, shutdownId>>
  BY DEF FinishInitialize, Replies
<1>2. state = "Initializing"
  BY <1>1 DEF EInv, FInv, Milestones
<1>3. DOMAIN pending' = DOMAIN pending \ {id}
  BY <1>1 DEF Without
<1>4. CASE outcome = "ready"
  <2> DEFINE L == Len(wire)
             Q == Len(queued)
  <2>1. /\ L \in Nat /\ DOMAIN wire = 1..L /\ Q \in Nat /\ DOMAIN queued = 1..Q
        /\ DOMAIN wire' = 1..(L + 1 + Q)
        /\ \A i \in 1..L : wire'[i] = wire[i]
        /\ \A i \in 1..Q : wire'[L + 1 + i] = Req(pending[queued[i]].method, queued[i])
    BY <1>4, ReadyWire DEF EInv, FInv
  <2> HIDE DEF L, Q
  <2>2. ASSUME NEW n \in SentIds PROVE n \in SentIds'
    <3>1. PICK j \in DOMAIN wire : wire[j].kind = "request" /\ wire[j].id = n
      BY DEF SentIds
    <3>2. j \in DOMAIN wire' /\ wire'[j].kind = "request" /\ wire'[j].id = n
      BY <2>1, <3>1
    <3> QED
      BY <3>2 DEF SentIds
  <2>3. ASSUME NEW n \in QueuedIds PROVE n \in SentIds'
    <3>1. PICK j \in 1..Q : queued[j] = n
      BY <2>1 DEF QueuedIds
    <3>2. L + 1 + j \in DOMAIN wire'
      BY <2>1
    <3>3. wire'[L + 1 + j] = Req(pending[n].method, n)
      BY <2>1, <3>1
    <3>4. wire'[L + 1 + j].kind = "request" /\ wire'[L + 1 + j].id = n
      BY <3>3 DEF Req
    <3> QED
      BY <3>2, <3>4 DEF SentIds
  <2>4. PendingReached'
    BY <1>3, <2>2, <2>3 DEF EInv, PendingReached
  <2>5. state' = "Ready"
    BY <1>4 DEF FinishInitialize
  <2> QED
    BY <2>4, <2>5 DEF EInv, FInv, Milestones, ExitedEmpty, ShutdownIsLast,
                      CancelsWereAsked
<1>5. CASE outcome \in {"refused", "bad encoding"}
  <2>1. UNCHANGED <<wire, queued>>
    BY <1>5 DEF FinishInitialize
  <2> QED
    BY <1>1, <1>3, <2>1, EndStays DEF EInv
<1> QED
  BY <1>4, <1>5 DEF Outcomes

\* Every step keeps what is known of the end.
LEMMA NextEInv == EInv /\ FInv' /\ [Next]_vars => EInv'
<1> SUFFICES ASSUME EInv, FInv', [Next]_vars PROVE EInv'
  OBVIOUS
<1>1. CASE Initialize
  BY <1>1, EndInitialize
<1>2. CASE Notify
  BY <1>2, EndNotify
<1>3. CASE Shutdown
  BY <1>3, EndShutdown
<1>4. CASE Exit
  BY <1>4, EndExit
<1>5. ASSUME NEW method \in Methods, Request(method) PROVE EInv'
  BY <1>5, EndRequest
<1>6. ASSUME NEW id \in Ids, Cancel(id) PROVE EInv'
  BY <1>6, EndCancelQueued, EndCancelSent DEF Cancel
<1>7. ASSUME NEW id \in ServerIds, AnswerApplyEdit(id) PROVE EInv'
  BY <1>7, EndAnswerApplyEdit
<1>8. CASE UnknownResponse
  BY <1>8, EndStays DEF UnknownResponse, vars, clientVars, EInv
<1>9. ASSUME NEW id \in Ids, NEW outcome \in Outcomes, FinishInitialize(id, outcome)
      PROVE  EInv'
  BY <1>9, EndFinishInitialize
<1>10. ASSUME NEW id \in Ids, AnswerShutdown(id) PROVE EInv'
  <2>1. /\ DOMAIN pending' \subseteq DOMAIN pending
        /\ UNCHANGED <<nextId, shutdownId, queued, wire>>
    BY <1>10 DEF AnswerShutdown, Without
  <2> QED
    BY <2>1, EndStays DEF EInv
<1>11. ASSUME NEW id \in Ids, HandleResponse(id) PROVE EInv'
  <2>1. /\ DOMAIN pending' \subseteq DOMAIN pending
        /\ UNCHANGED <<nextId, shutdownId, queued, wire>>
    BY <1>11 DEF HandleResponse, Without
  <2> QED
    BY <2>1, EndStays DEF EInv
<1>12. ASSUME NEW method \in ServerMethods, HandleServerRequest(method) PROVE EInv'
  BY <1>12, EndServerRequest
<1>13. CASE UNCHANGED vars
  BY <1>13, EndStays DEF vars, clientVars, EInv
<1> QED
  BY <1>1, <1>2, <1>3, <1>4, <1>5, <1>6, <1>7, <1>8, <1>9, <1>10, <1>11, <1>12,
     <1>13 DEF Next, EditorCall, ServerMessage

\* After `exit' the editor starts nothing, and after `shutdown' nothing but
\* `exit' and cancellations of requests it sent before the shutdown, whatever
\* was pending when the session was closed and whatever it still answers.
THEOREM NothingFollowsTheEnd == Spec => []NothingAfterShutdown
<1>1. Init => EInv
  <2> SUFFICES ASSUME Init PROVE EInv
    OBVIOUS
  <2>1. wire = <<>> /\ DOMAIN wire = {} /\ DOMAIN pending = {}
    BY DEF Init, ClientInit
  <2> QED
    BY <2>1, InitFInv DEF EInv, PendingReached, ShutdownIsLast, CancelsWereAsked
<1>2. EInv => NothingAfterShutdown
  <2> SUFFICES ASSUME EInv PROVE NothingAfterShutdown
    OBVIOUS
  <2>1. TypeOK
    BY DEF EInv, FInv, IInv
  <2>2. ASSUME NEW i \in DOMAIN wire, NEW j \in DOMAIN wire, i < j,
               wire[j].kind # "response"
        PROVE  /\ wire[i].method # "exit"
               /\ wire[i].method = "shutdown" =>
                    \/ wire[j].method = "exit"
                    \/ /\ wire[j].method = "$/cancelRequest"
                       /\ \E k \in 1..(i - 1) :
                             wire[k].kind = "request" /\ wire[k].id = wire[j].id
    BY <2>2 DEF EInv, FInv, AfterTheEnd, CancelsWereAsked
  <2> QED
    BY <2>1, <2>2 DEF NothingAfterShutdown
<1> QED
  BY FatesInvariance, <1>1, <1>2, NextEInv, PTL DEF Spec

(***************************************************************************)
(* The request table.  What has become of an id, without the wire: under   *)
(* the fates nothing is ever misdelivered.                                 *)
(***************************************************************************)
WasDelivered(id) ==
  \E i \in DOMAIN delivered : delivered[i].kind = "Response" /\ delivered[i].id = id

OwnId(id) == id >= nextId \/ id \in {initializeId, shutdownId}

Fate(id) ==
  IF WasDelivered(id) THEN "delivered"
  ELSE IF OwnId(id) THEN "new"
  ELSE IF state = "Exited" \/ id \notin DOMAIN pending THEN "over"
  ELSE IF id \in QueuedIds THEN "held"
  ELSE IF pending[id].cancelled THEN "cancelled" ELSE "awaiting"

\* What is delivered is delivered well.
LEMMA StatusIsFate == FInv => \A id \in Ids : StatusOf(id) = Fate(id)
<1> SUFFICES ASSUME FInv, NEW id \in Ids PROVE StatusOf(id) = Fate(id)
  OBVIOUS
<1>1. Deliveries(id) # {} <=> WasDelivered(id)
  BY DEF Deliveries, WasDelivered
<1>2. ASSUME WasDelivered(id) PROVE DeliveredWell(id)
  <2>1. PICK i \in DOMAIN delivered :
           delivered[i].kind = "Response" /\ delivered[i].id = id
    BY <1>2 DEF WasDelivered
  <2>2. /\ \A k \in DOMAIN delivered :
             (delivered[k].kind = "Response" /\ delivered[k].id = id) => k = i
        /\ \E j \in DOMAIN wire : wire[j] = Req(delivered[i].method, id)
    BY <2>1 DEF FInv, DeliveredOnce
  <2>3. Deliveries(id) = {i}
    BY <2>1, <2>2 DEF Deliveries
  <2> QED
    BY <2>2, <2>3 DEF DeliveredWell
<1>3. CASE WasDelivered(id)
  <2>1. Deliveries(id) # {} /\ DeliveredWell(id)
    BY <1>1, <1>2, <1>3
  <2> QED
    BY <1>3, <2>1 DEF StatusOf, Fate
<1>4. CASE ~WasDelivered(id)
  <2>1. ~(Deliveries(id) # {})
    BY <1>1, <1>4
  <2> QED
    BY <1>4, <2>1 DEF StatusOf, Fate, OwnId
<1> QED
  BY <1>3, <1>4

\* The same in the state a step leads to.
LEMMA StatusIsFateNext == FInv' => \A id \in Ids : StatusOf(id)' = Fate(id)'
<1>1. (FInv => \A id \in Ids : StatusOf(id) = Fate(id))'
  BY StatusIsFate, PTL
<1> QED
  BY <1>1

\* How the steps of the table are recognised in the fates.
LEMMA TableStutters ==
  ASSUME FInv, FInv', SessionOf' = SessionOf, \A id \in Ids : Fate(id)' = Fate(id)
  PROVE  UNCHANGED Table!tableVars
<1>1. \A id \in Ids : StatusOf(id)' = StatusOf(id)
  BY StatusIsFate, StatusIsFateNext
<1> QED
  BY <1>1 DEF Table!tableVars

\* A new id that is held, or awaits its reply.
LEMMA TableRaises ==
  ASSUME FInv, FInv', NEW id \in Ids, SessionOf' = SessionOf,
         SessionOf \in {"opening", "open"}, Fate(id) = "new",
         \A other \in Ids : Fate(other) # "new" => other < id,
         Fate(id)' = IF SessionOf = "opening" THEN "held" ELSE "awaiting",
         \A other \in Ids \ {id} : Fate(other)' = Fate(other)
  PROVE  Table!Raise(id)
<1>1. /\ \A other \in Ids : StatusOf(other) = Fate(other)
      /\ \A other \in Ids : StatusOf(other)' = Fate(other)'
  BY StatusIsFate, StatusIsFateNext
<1> QED
  BY <1>1 DEF Table!Raise

\* One request that is given up.
LEMMA TableAbandons ==
  ASSUME FInv, FInv', NEW id \in Ids, SessionOf' = SessionOf, SessionOf # "over",
         \/ Fate(id) = "held" /\ Fate(id)' = "over"
         \/ Fate(id) = "awaiting" /\ Fate(id)' = "cancelled",
         \A other \in Ids \ {id} : Fate(other)' = Fate(other)
  PROVE  Table!Abandon(id)
<1>1. /\ \A other \in Ids : StatusOf(other) = Fate(other)
      /\ \A other \in Ids : StatusOf(other)' = Fate(other)'
  BY StatusIsFate, StatusIsFateNext
<1> QED
  BY <1>1 DEF Table!Abandon

\* One request that is answered.
LEMMA TableAnswers ==
  ASSUME FInv, FInv', NEW id \in Ids, SessionOf' = SessionOf,
         SessionOf \in {"open", "closing"},
         \/ Fate(id) = "awaiting" /\ Fate(id)' = "delivered"
         \/ Fate(id) = "cancelled" /\ Fate(id)' = "over",
         \A other \in Ids \ {id} : Fate(other)' = Fate(other)
  PROVE  Table!Answer(id)
<1>1. /\ \A other \in Ids : StatusOf(other) = Fate(other)
      /\ \A other \in Ids : StatusOf(other)' = Fate(other)'
  BY StatusIsFate, StatusIsFateNext
<1> QED
  BY <1>1 DEF Table!Answer

\* The end leaves what is new and what was delivered.
LEMMA TableEnds ==
  ASSUME FInv, FInv', SessionOf # "over", SessionOf' = "over",
         \A id \in Ids : Fate(id)' =
            IF Fate(id) \in {"new", "delivered"} THEN Fate(id) ELSE "over"
  PROVE  Table!End
<1>1. /\ \A id \in Ids : StatusOf(id) = Fate(id)
      /\ \A id \in Ids : StatusOf(id)' = Fate(id)'
  BY StatusIsFate, StatusIsFateNext
<1> QED
  BY <1>1 DEF Table!End

\* What is pending was raised, and has no reply yet.
LEMMA PendingIsFresh ==
  ASSUME FInv, NEW id \in DOMAIN pending
  PROVE  id < nextId /\ ~(id >= nextId) /\ ~WasDelivered(id)
<1>1. id \in 1..(nextId - 1) /\ nextId \in Nat
  BY ClientAssumption DEF FInv, IInv, TypeOK
<1> QED
  BY <1>1 DEF FInv, DeliveredOnce, WasDelivered

\* No id was delivered before it is allocated.
LEMMA UnallocatedNotDelivered ==
  ASSUME FInv PROVE nextId \in Nat \ {0} /\ ~WasDelivered(nextId)
<1>1. nextId \in Nat \ {0}
  BY ClientAssumption DEF FInv, IInv, TypeOK
<1> QED
  BY <1>1 DEF FInv, DeliveredOnce, WasDelivered

(***************************************************************************)
(* Each step of the client is one of the table, or changes none of it.     *)
(***************************************************************************)
\* Nothing has become of any id at the start.
LEMMA InitRefines == Init => Table!TableInit
<1> SUFFICES ASSUME Init PROVE Table!TableInit
  OBVIOUS
<1>1. FInv /\ state = "Uninitialized" /\ nextId = 1 /\ delivered = <<>>
  BY InitFInv DEF Init, ClientInit
<1>2. SessionOf = "opening"
  BY <1>1 DEF SessionOf
<1>3. ASSUME NEW id \in Ids PROVE StatusOf(id) = "new"
  <2>1. ~WasDelivered(id)
    BY <1>1 DEF WasDelivered
  <2>2. OwnId(id)
    BY <1>1, ClientAssumption DEF OwnId, Ids
  <2> QED
    BY <1>1, <2>1, <2>2, StatusIsFate DEF Fate
<1> QED
  BY <1>2, <1>3 DEF Table!TableInit

\* The handshake's own id stays new.
LEMMA InitializeRefines ==
  ASSUME FInv, FInv', Initialize PROVE UNCHANGED Table!tableVars
<1>1. /\ nextId = 1 /\ delivered = <<>> /\ delivered' = delivered
      /\ nextId' = nextId + 1 /\ initializeId' = nextId
      /\ state = "Uninitialized" /\ state' = "Initializing"
  BY DEF FInv, IInv, Phases, Milestones, Initialize
<1>2. SessionOf = "opening" /\ SessionOf' = "opening"
  BY <1>1 DEF SessionOf
<1>3. ASSUME NEW id \in Ids PROVE Fate(id)' = Fate(id)
  <2>1. ~WasDelivered(id) /\ ~WasDelivered(id)'
    BY <1>1 DEF WasDelivered
  <2>2. id \in Nat \ {0}
    BY ClientAssumption DEF Ids
  <2>3. OwnId(id) /\ OwnId(id)'
    BY <1>1, <2>2 DEF OwnId
  <2> QED
    BY <2>1, <2>3 DEF Fate
<1> QED
  BY <1>2, <1>3, TableStutters

\* A request is raised under an id above all others.
LEMMA RequestRefines ==
  ASSUME FInv, FInv', NEW method \in Methods, Request(method)
  PROVE  \E id \in Ids : Table!Raise(id)
<1>1. /\ state \in {"Initializing", "Ready"} /\ nextId <= MaxId
      /\ nextId' = nextId + 1 /\ pending' = With(pending, nextId, method)
      /\ UNCHANGED <<state, initializeId, shutdownId, delivered>>
  BY DEF Request
<1>2. nextId \in Nat \ {0} /\ ~WasDelivered(nextId)
  BY UnallocatedNotDelivered
<1>3. nextId \in Ids
  BY <1>1, <1>2, ClientAssumption DEF Ids
<1> PICK new \in Ids : new = nextId
  BY <1>3
<1>4. /\ DOMAIN pending' = DOMAIN pending \cup {nextId}
      /\ \A id \in DOMAIN pending : pending'[id] = pending[id]
  BY <1>1, Allocated DEF FInv, IInv
<1>5. pending'[nextId].cancelled = FALSE
  BY <1>1 DEF With
<1>6. \A id \in Ids : (id >= nextId' <=> id >= nextId /\ id # nextId)
  BY <1>1, <1>2, ClientAssumption DEF Ids
<1>7. initializeId # nextId /\ shutdownId # nextId
  BY <1>2 DEF FInv, IInv, TypeOK
<1>8. \A id \in Ids : WasDelivered(id)' = WasDelivered(id)
  BY <1>1 DEF WasDelivered
<1>9. SessionOf' = SessionOf /\ SessionOf \in {"opening", "open"}
      /\ (SessionOf = "opening" <=> state = "Initializing")
  BY <1>1 DEF SessionOf
<1>10. ASSUME NEW other \in Ids, Fate(other) # "new" PROVE other < nextId
  <2>1. CASE WasDelivered(other)
    BY <1>2, <2>1 DEF WasDelivered, FInv, DeliveredOnce
  <2>2. CASE ~WasDelivered(other)
    <3>1. ~(other >= nextId)
      BY <1>10, <2>2 DEF Fate, OwnId
    <3> QED
      BY <1>2, <3>1, ClientAssumption DEF Ids
  <2> QED
    BY <2>1, <2>2
<1>11. Fate(new) = "new"
  BY <1>2 DEF Fate, OwnId
<1>12. /\ nextId \notin QueuedIds
       /\ QueuedIds' = IF state = "Initializing" THEN QueuedIds \cup {nextId}
                       ELSE QueuedIds
  <2>1. /\ queued \in Seq(1..(nextId - 1)) /\ Len(queued) \in Nat
        /\ DOMAIN queued = 1..Len(queued)
    BY LenProperties DEF FInv, IInv, TypeOK
  <2>2. nextId \notin QueuedIds
    <3>1. \A i \in DOMAIN queued : queued[i] \in 1..(nextId - 1)
      BY <2>1, ElementOfSeq
    <3> QED
      BY <1>2, <3>1 DEF QueuedIds
  <2>3. CASE state = "Initializing"
    <3>1. queued' = Append(queued, nextId)
      BY <2>3 DEF Request
    <3>2. /\ DOMAIN queued' = 1..(Len(queued) + 1)
          /\ \A i \in 1..Len(queued) : queued'[i] = queued[i]
          /\ queued'[Len(queued) + 1] = nextId
      <4> DEFINE S == 1..(nextId' - 1)
      <4>1. queued \in Seq(S) /\ nextId \in S
        BY <1>1, <1>2, Allocated DEF FInv, IInv
      <4> HIDE DEF S
      <4> QED
        BY <3>1, <4>1, AppendProperties, LenProperties
    <3>3. \A id : id \in QueuedIds' <=> id \in QueuedIds \/ id = nextId
      BY <2>1, <3>2 DEF QueuedIds
    <3> QED
      BY <2>2, <2>3, <3>3
  <2>4. CASE state # "Initializing"
    <3>1. queued' = queued
      BY <2>4 DEF Request
    <3> QED
      BY <2>2, <2>4, <3>1 DEF QueuedIds
  <2> QED
    BY <2>3, <2>4
<1>13. Fate(new)' = IF SessionOf = "opening" THEN "held" ELSE "awaiting"
  <2>1. ~WasDelivered(new)'
    BY <1>2, <1>8
  <2>2. ~OwnId(new)'
    BY <1>1, <1>6, <1>7 DEF OwnId
  <2>3. /\ new \in DOMAIN pending' /\ ~pending'[new].cancelled
        /\ state' # "Exited"
    BY <1>1, <1>4, <1>5
  <2>4. new \in QueuedIds' <=> state = "Initializing"
    BY <1>12
  <2> QED
    BY <1>9, <2>1, <2>2, <2>3, <2>4 DEF Fate
<1>14. ASSUME NEW other \in Ids \ {new} PROVE Fate(other)' = Fate(other)
  <2>1. OwnId(other)' <=> OwnId(other)
    BY <1>1, <1>6 DEF OwnId
  <2>2. other \in DOMAIN pending' <=> other \in DOMAIN pending
    BY <1>4
  <2>3. other \in QueuedIds' <=> other \in QueuedIds
    BY <1>12
  <2> QED
    BY <1>1, <1>4, <1>8, <2>1, <2>2, <2>3 DEF Fate
<1> QED
  BY <1>9, <1>10, <1>11, <1>13, <1>14, TableRaises

\* A call or a message that touches neither the client nor what was delivered.
LEMMA WireOnlyRefines ==
  ASSUME FInv, FInv',
         UNCHANGED <<state, nextId, pending, queued, initializeId, shutdownId>>,
         \A id \in Ids : WasDelivered(id)' = WasDelivered(id)
  PROVE  UNCHANGED Table!tableVars
<1>1. SessionOf' = SessionOf
  BY DEF SessionOf
<1>2. \A id \in Ids : Fate(id)' = Fate(id)
  BY DEF Fate, OwnId, QueuedIds
<1> QED
  BY <1>1, <1>2, TableStutters

\* An edit passed to the editor is no reply.
LEMMA HandleServerRequestRefines ==
  ASSUME FInv, FInv', NEW method \in ServerMethods, HandleServerRequest(method)
  PROVE  UNCHANGED Table!tableVars
<1> DEFINE event == Event("ApplyEdit", method, Len(asked) + 1)
<1>1. UNCHANGED <<state, nextId, pending, queued, initializeId, shutdownId>>
  BY DEF HandleServerRequest, clientVars
<1>2. \/ delivered' = delivered
      \/ delivered' = Append(delivered, event) /\ method = ApplyEdit
  BY DEF HandleServerRequest
<1>3. ASSUME NEW id \in Ids PROVE WasDelivered(id)' = WasDelivered(id)
  <2>1. CASE delivered' = delivered
    BY <2>1 DEF WasDelivered
  <2>2. CASE delivered' = Append(delivered, event) /\ method = ApplyEdit
    <3>1. event.kind = "ApplyEdit"
      BY DEF Event
    <3>2. delivered \in Seq(EditorEvent) /\ event \in EditorEvent
      <4>1. asked \in Seq(ServerMethods) /\ delivered \in Seq(EditorEvent)
        BY DEF FInv, IInv, TypeOK
      <4>2. Len(asked) + 1 \in Nat
        BY <4>1, LenProperties
      <4> QED
        BY <2>2, <4>1, <4>2 DEF Event, EditorEvent
    <3> HIDE DEF event
    <3>3. /\ Len(delivered) \in Nat /\ DOMAIN delivered = 1..Len(delivered)
          /\ DOMAIN delivered' = 1..(Len(delivered) + 1)
          /\ \A i \in 1..Len(delivered) : delivered'[i] = delivered[i]
          /\ delivered'[Len(delivered) + 1] = event
      BY <2>2, <3>2, AppendProperties, LenProperties
    <3>4. WasDelivered(id)' <=> WasDelivered(id)
      BY <3>1, <3>3 DEF WasDelivered
    <3> QED
      BY <3>4 DEF WasDelivered
  <2> QED
    BY <1>2, <2>1, <2>2
<1> QED
  BY <1>1, <1>3, WireOnlyRefines

\* A request that waits is abandoned at once.
LEMMA CancelQueuedRefines ==
  ASSUME FInv, FInv', NEW id \in Ids, id \notin {initializeId, shutdownId},
         CancelQueued(id)
  PROVE  Table!Abandon(id) \/ UNCHANGED Table!tableVars
<1>1. /\ pending' = Without(pending, id)
      /\ UNCHANGED <<state, nextId, initializeId, shutdownId, wire, delivered>>
  BY DEF CancelQueued
<1>2. /\ DOMAIN pending' = DOMAIN pending \ {id}
      /\ \A i \in DOMAIN pending' : pending'[i] = pending[i]
  BY <1>1, Forgotten DEF FInv, IInv
<1>3. QueuedIds' = QueuedIds \ {id} /\ id \in QueuedIds
  BY QueueAfterCancel DEF FInv
<1>4. id \in DOMAIN pending
  BY <1>3 DEF QueuedIds, FInv, IInv, QueueWaits
<1>5. ~WasDelivered(id) /\ ~OwnId(id)
  BY <1>4, PendingIsFresh DEF OwnId
<1>6. ~WasDelivered(id)' /\ ~OwnId(id)' /\ SessionOf' = SessionOf
  BY <1>1, <1>5 DEF WasDelivered, OwnId, SessionOf
<1>7. ASSUME NEW other \in Ids \ {id} PROVE Fate(other)' = Fate(other)
  <2>1. /\ OwnId(other)' = OwnId(other) /\ WasDelivered(other)' = WasDelivered(other)
    BY <1>1 DEF OwnId, WasDelivered
  <2> QED
    BY <1>1, <1>2, <1>3, <2>1 DEF Fate
<1>8. Fate(id)' = "over"
  BY <1>2, <1>6 DEF Fate
<1>9. CASE state = "Exited"
  <2>1. Fate(id) = "over"
    BY <1>5, <1>9 DEF Fate
  <2>2. \A other \in Ids : Fate(other)' = Fate(other)
    BY <1>7, <1>8, <2>1
  <2> QED
    BY <1>6, <2>2, TableStutters
<1>10. CASE state # "Exited"
  <2>1. Fate(id) = "held"
    BY <1>3, <1>4, <1>5, <1>10 DEF Fate
  <2>2. SessionOf # "over"
    BY <1>10 DEF SessionOf, FInv, IInv, TypeOK, States
  <2> QED
    BY <1>6, <1>7, <1>8, <2>1, <2>2, TableAbandons
<1> QED
  BY <1>9, <1>10

\* One that was sent is cancelled, and its reply will change nothing.
LEMMA CancelSentRefines ==
  ASSUME FInv, FInv', NEW id \in Ids, id \notin {initializeId, shutdownId},
         CancelSent(id)
  PROVE  Table!Abandon(id) \/ UNCHANGED Table!tableVars
<1>1. /\ id \in DOMAIN pending /\ id \notin QueuedIds /\ ~pending[id].cancelled
      /\ pending' = [pending EXCEPT ![id].cancelled = TRUE]
      /\ UNCHANGED <<state, nextId, queued, initializeId, shutdownId, delivered>>
  BY DEF CancelSent
<1>2. /\ DOMAIN pending' = DOMAIN pending /\ pending'[id].cancelled
      /\ \A i \in DOMAIN pending : i # id => pending'[i] = pending[i]
  BY <1>1 DEF FInv, IInv, TypeOK
<1>3. ~WasDelivered(id) /\ ~OwnId(id)
  BY <1>1, PendingIsFresh DEF OwnId
<1>4. /\ ~WasDelivered(id)' /\ ~OwnId(id)' /\ SessionOf' = SessionOf
      /\ QueuedIds' = QueuedIds
  BY <1>1, <1>3 DEF WasDelivered, OwnId, SessionOf, QueuedIds
<1>5. ASSUME NEW other \in Ids \ {id} PROVE Fate(other)' = Fate(other)
  <2>1. /\ OwnId(other)' = OwnId(other) /\ WasDelivered(other)' = WasDelivered(other)
    BY <1>1 DEF OwnId, WasDelivered
  <2> QED
    BY <1>1, <1>2, <1>4, <2>1 DEF Fate
<1>6. CASE state = "Exited"
  <2>1. Fate(id) = "over" /\ Fate(id)' = "over"
    BY <1>1, <1>3, <1>4, <1>6 DEF Fate
  <2>2. \A other \in Ids : Fate(other)' = Fate(other)
    BY <1>5, <2>1
  <2> QED
    BY <1>4, <2>2, TableStutters
<1>7. CASE state # "Exited"
  <2>1. Fate(id) = "awaiting" /\ Fate(id)' = "cancelled"
    BY <1>1, <1>2, <1>3, <1>4, <1>7 DEF Fate
  <2>2. SessionOf # "over"
    BY <1>7 DEF SessionOf, FInv, IInv, TypeOK, States
  <2> QED
    BY <1>4, <1>5, <2>1, <2>2, TableAbandons
<1> QED
  BY <1>6, <1>7

\* The shutdown's own id stays new.
LEMMA ShutdownRefines ==
  ASSUME FInv, FInv', Shutdown PROVE Table!Close
<1>1. /\ state = "Ready" /\ state' = "ShuttingDown"
      /\ shutdownId' = nextId /\ nextId' = nextId + 1 /\ nextId <= MaxId
      /\ pending' = With(pending, nextId, "shutdown")
      /\ UNCHANGED <<queued, initializeId, delivered>>
  BY DEF Shutdown
<1>2. nextId \in Nat \ {0} /\ ~WasDelivered(nextId)
  BY UnallocatedNotDelivered
<1>3. /\ DOMAIN pending' = DOMAIN pending \cup {nextId}
      /\ \A id \in DOMAIN pending : pending'[id] = pending[id]
  BY <1>1, Allocated DEF FInv, IInv
<1>4. SessionOf = "open" /\ SessionOf' = "closing"
  BY <1>1 DEF SessionOf
<1>5. ASSUME NEW id \in Ids PROVE Fate(id)' = Fate(id)
  <2>1. id \in Nat \ {0} /\ id # shutdownId
    BY <1>1, ClientAssumption DEF Ids, FInv, Milestones, NoId
  <2>2. /\ OwnId(id)' <=> OwnId(id)
        /\ WasDelivered(id)' = WasDelivered(id) /\ QueuedIds' = QueuedIds
    BY <1>1, <1>2, <2>1 DEF OwnId, WasDelivered, QueuedIds
  <2>3. CASE OwnId(id)
    BY <2>2, <2>3 DEF Fate
  <2>4. CASE ~OwnId(id)
    <3>1. id # nextId
      BY <1>2, <2>4 DEF OwnId
    <3> QED
      BY <1>1, <1>3, <2>2, <2>4, <3>1 DEF Fate
  <2> QED
    BY <2>3, <2>4
<1>6. \A id \in Ids : StatusOf(id)' = StatusOf(id)
  BY <1>5, StatusIsFate, StatusIsFateNext
<1> QED
  BY <1>4, <1>6 DEF Table!Close

\* What was pending is over.
LEMMA ExitRefines ==
  ASSUME FInv, FInv', Exit PROVE Table!End
<1>1. /\ state = "ShuttingDown" /\ state' = "Exited"
      /\ UNCHANGED <<nextId, initializeId, shutdownId, delivered>>
  BY DEF Exit
<1>2. SessionOf # "over" /\ SessionOf' = "over"
  BY <1>1 DEF SessionOf
<1>3. ASSUME NEW id \in Ids
      PROVE  Fate(id)' = IF Fate(id) \in {"new", "delivered"} THEN Fate(id) ELSE "over"
  <2>1. OwnId(id)' = OwnId(id) /\ WasDelivered(id)' = WasDelivered(id)
    BY <1>1 DEF OwnId, WasDelivered
  <2> QED
    BY <1>1, <2>1 DEF Fate
<1> QED
  BY <1>2, <1>3, TableEnds

\* The handshake's reply opens the session for all that waited, or ends it, or
\* leaves it where it was.
LEMMA FinishInitializeRefines ==
  ASSUME FInv, FInv', NEW id \in Ids, NEW outcome \in Outcomes,
         FinishInitialize(id, outcome)
  PROVE  Table!Open \/ Table!End \/ UNCHANGED Table!tableVars
<1>1. /\ id \in SentIds /\ id \in DOMAIN pending /\ id = initializeId
      /\ pending' = Without(pending, id)
      /\ UNCHANGED <<nextId, initializeId, shutdownId, delivered>>
  BY DEF FinishInitialize, Replies
<1>2. /\ DOMAIN pending' = DOMAIN pending \ {id}
      /\ \A i \in DOMAIN pending' : pending'[i] = pending[i]
  BY <1>1, Forgotten DEF FInv, IInv
<1>3. state = "Initializing" /\ SessionOf = "opening"
  BY <1>1 DEF FInv, Milestones, SessionOf
<1>4. \A other \in Ids : /\ OwnId(other)' = OwnId(other)
                         /\ WasDelivered(other)' = WasDelivered(other)
  BY <1>1 DEF OwnId, WasDelivered
<1>5. OwnId(id)
  BY <1>1 DEF OwnId
<1>6. CASE outcome = "ready"
  <2>1. state' = "Ready" /\ queued' = <<>>
    BY <1>6 DEF FinishInitialize
  <2>2. SessionOf' = "open" /\ QueuedIds' = {}
    BY <2>1 DEF SessionOf, QueuedIds
  <2>3. \A other \in QueuedIds : other \in DOMAIN pending /\ ~pending[other].cancelled
    BY DEF QueuedIds, FInv, IInv, QueueWaits, QueuedWanted
  <2>4. ASSUME NEW other \in Ids
        PROVE  Fate(other)' = IF Fate(other) = "held" THEN "awaiting" ELSE Fate(other)
    <3>1. CASE WasDelivered(other) \/ OwnId(other)
      BY <1>4, <3>1 DEF Fate
    <3>2. CASE ~WasDelivered(other) /\ ~OwnId(other)
      <4>1. other # id
        BY <1>5, <3>2
      <4> QED
        BY <1>2, <1>3, <1>4, <2>1, <2>2, <2>3, <3>2, <4>1 DEF Fate
    <3> QED
      BY <3>1, <3>2
  <2>5. /\ \A other \in Ids : StatusOf(other) = Fate(other)
        /\ \A other \in Ids : StatusOf(other)' = Fate(other)'
    BY StatusIsFate, StatusIsFateNext
  <2> QED
    BY <1>3, <2>2, <2>4, <2>5 DEF Table!Open
<1>7. CASE outcome = "refused"
  <2>1. state' = "Exited" /\ SessionOf' = "over"
    BY <1>7 DEF FinishInitialize, SessionOf
  <2>2. \A other \in Ids : Fate(other)' =
           IF Fate(other) \in {"new", "delivered"} THEN Fate(other) ELSE "over"
    BY <1>4, <2>1 DEF Fate
  <2> QED
    BY <1>3, <2>1, <2>2, TableEnds
<1>8. CASE outcome = "bad encoding"
  <2>1. UNCHANGED <<state, queued>>
    BY <1>8 DEF FinishInitialize
  <2>2. SessionOf' = SessionOf /\ QueuedIds' = QueuedIds
    BY <2>1 DEF SessionOf, QueuedIds
  <2>3. ASSUME NEW other \in Ids PROVE Fate(other)' = Fate(other)
    <3>1. CASE OwnId(other)
      BY <1>4, <3>1 DEF Fate
    <3>2. CASE ~OwnId(other)
      <4>1. other # id
        BY <1>5, <3>2
      <4> QED
        BY <1>2, <1>4, <2>1, <2>2, <3>2, <4>1 DEF Fate
    <3> QED
      BY <3>1, <3>2
  <2> QED
    BY <2>2, <2>3, TableStutters
<1> QED
  BY <1>6, <1>7, <1>8 DEF Outcomes

\* The shutdown's own reply is no reply of the editor's.
LEMMA AnswerShutdownRefines ==
  ASSUME FInv, FInv', NEW id \in Ids, AnswerShutdown(id)
  PROVE  UNCHANGED Table!tableVars
<1>1. /\ id = shutdownId /\ pending' = Without(pending, id)
      /\ UNCHANGED <<state, nextId, queued, initializeId, shutdownId, delivered>>
  BY DEF AnswerShutdown
<1>2. /\ DOMAIN pending' = DOMAIN pending \ {id}
      /\ \A i \in DOMAIN pending' : pending'[i] = pending[i]
  BY <1>1, Forgotten DEF FInv, IInv
<1>3. SessionOf' = SessionOf /\ QueuedIds' = QueuedIds /\ OwnId(id)
  BY <1>1 DEF SessionOf, QueuedIds, OwnId
<1>4. ASSUME NEW other \in Ids PROVE Fate(other)' = Fate(other)
  <2>1. OwnId(other)' = OwnId(other) /\ WasDelivered(other)' = WasDelivered(other)
    BY <1>1 DEF OwnId, WasDelivered
  <2>2. CASE OwnId(other)
    BY <2>1, <2>2 DEF Fate
  <2>3. CASE ~OwnId(other)
    <3>1. other # id
      BY <1>3, <2>3
    <3> QED
      BY <1>1, <1>2, <1>3, <2>1, <2>3, <3>1 DEF Fate
  <2> QED
    BY <2>2, <2>3
<1> QED
  BY <1>3, <1>4, TableStutters

\* A reply to the editor's request answers it: the session is open by then.
LEMMA HandleResponseRefines ==
  ASSUME FInv, FInv', NEW id \in Ids, HandleResponse(id) PROVE Table!Answer(id)
<1> DEFINE event == Event("Response", pending[id].method, id)
<1>1. /\ state # "Exited" /\ id \in SentIds /\ id \in DOMAIN pending
      /\ id \notin {initializeId, shutdownId} /\ pending' = Without(pending, id)
      /\ UNCHANGED <<state, nextId, queued, initializeId, shutdownId, wire>>
  BY DEF HandleResponse, Replies
<1>2. /\ DOMAIN pending' = DOMAIN pending \ {id}
      /\ \A i \in DOMAIN pending' : pending'[i] = pending[i]
  BY <1>1, Forgotten DEF FInv, IInv
<1>3. id \notin QueuedIds
  BY <1>1, SentIsNotQueued DEF QueuedIds, FInv
<1>4. Opened
  BY <1>1, <1>3 DEF FInv, IInv, Phases
<1>5. SessionOf \in {"open", "closing"} /\ SessionOf' = SessionOf
  <2>1. state # "Uninitialized"
    BY <1>1 DEF FInv, IInv, Phases
  <2>2. state # "Initializing"
    BY <1>4 DEF FInv, Milestones
  <2> QED
    BY <1>1, <2>1, <2>2 DEF SessionOf, FInv, IInv, TypeOK, States
<1>6. ~WasDelivered(id) /\ ~OwnId(id)
  BY <1>1, PendingIsFresh DEF OwnId
<1>7. \A other \in Ids : OwnId(other)' = OwnId(other)
  BY <1>1 DEF OwnId
<1>8. QueuedIds' = QueuedIds
  BY <1>1 DEF QueuedIds
<1>9. /\ \A other \in Ids \ {id} : WasDelivered(other)' = WasDelivered(other)
      /\ WasDelivered(id)' <=> ~pending[id].cancelled
  <2>1. CASE pending[id].cancelled
    <3>1. delivered' = delivered
      BY <2>1 DEF HandleResponse
    <3> QED
      BY <1>6, <2>1, <3>1 DEF WasDelivered
  <2>2. CASE ~pending[id].cancelled
    <3>1. delivered' = Append(delivered, event)
      BY <2>2 DEF HandleResponse
    <3>2. event \in EditorEvent /\ event.kind = "Response" /\ event.id = id
      <4>1. id \in Nat
        BY ClientAssumption DEF Ids
      <4> QED
        BY <1>1, <4>1 DEF Event, EditorEvent, FInv, IInv, TypeOK
    <3> HIDE DEF event
    <3>3. /\ Len(delivered) \in Nat /\ DOMAIN delivered = 1..Len(delivered)
          /\ DOMAIN delivered' = 1..(Len(delivered) + 1)
          /\ \A i \in 1..Len(delivered) : delivered'[i] = delivered[i]
          /\ delivered'[Len(delivered) + 1] = event
      <4>1. delivered \in Seq(EditorEvent)
        BY DEF FInv, IInv, TypeOK
      <4> QED
        BY <3>1, <3>2, <4>1, AppendProperties, LenProperties
    <3>4. WasDelivered(id)'
      BY <3>2, <3>3 DEF WasDelivered
    <3>5. \A other \in Ids \ {id} : WasDelivered(other)' <=> WasDelivered(other)
      BY <3>2, <3>3 DEF WasDelivered
    <3> QED
      BY <2>2, <3>4, <3>5 DEF WasDelivered
  <2> QED
    BY <2>1, <2>2
<1>10. \/ Fate(id) = "awaiting" /\ Fate(id)' = "delivered"
       \/ Fate(id) = "cancelled" /\ Fate(id)' = "over"
  BY <1>1, <1>2, <1>3, <1>6, <1>7, <1>9 DEF Fate
<1>11. \A other \in Ids \ {id} : Fate(other)' = Fate(other)
  BY <1>1, <1>2, <1>7, <1>8, <1>9 DEF Fate
<1> QED
  BY <1>5, <1>10, <1>11, TableAnswers

\* Every step.
LEMMA StepRefines == FInv /\ FInv' /\ [Next]_vars => [Table!TableNext]_(Table!tableVars)
<1> SUFFICES ASSUME FInv, FInv', [Next]_vars
             PROVE  Table!TableNext \/ UNCHANGED Table!tableVars
  OBVIOUS
<1>1. CASE Initialize
  BY <1>1, InitializeRefines
<1>2. CASE Notify
  <2>1. /\ UNCHANGED <<state, nextId, pending, queued, initializeId, shutdownId>>
        /\ delivered' = delivered
    BY <1>2 DEF Notify, clientVars
  <2> QED
    BY <2>1, WireOnlyRefines DEF WasDelivered
<1>3. CASE Shutdown
  BY <1>3, ShutdownRefines DEF Table!TableNext
<1>4. CASE Exit
  BY <1>4, ExitRefines DEF Table!TableNext
<1>5. ASSUME NEW method \in Methods, Request(method) PROVE Table!TableNext
  BY <1>5, RequestRefines DEF Table!TableNext
<1>6. ASSUME NEW id \in Ids, Cancel(id)
      PROVE  Table!TableNext \/ UNCHANGED Table!tableVars
  BY <1>6, CancelQueuedRefines, CancelSentRefines DEF Cancel, Table!TableNext
<1>7. ASSUME NEW id \in ServerIds, AnswerApplyEdit(id) PROVE UNCHANGED Table!tableVars
  <2>1. /\ UNCHANGED <<state, nextId, pending, queued, initializeId, shutdownId>>
        /\ delivered' = delivered
    BY <1>7 DEF AnswerApplyEdit, clientVars
  <2> QED
    BY <2>1, WireOnlyRefines DEF WasDelivered
<1>8. CASE UNCHANGED vars
  <2>1. /\ UNCHANGED <<state, nextId, pending, queued, initializeId, shutdownId>>
        /\ delivered' = delivered
    BY <1>8 DEF vars, clientVars
  <2> QED
    BY <2>1, WireOnlyRefines DEF WasDelivered
<1>9. CASE UnknownResponse
  BY <1>8, <1>9 DEF UnknownResponse
<1>10. ASSUME NEW id \in Ids, NEW outcome \in Outcomes, FinishInitialize(id, outcome)
       PROVE  Table!TableNext \/ UNCHANGED Table!tableVars
  BY <1>10, FinishInitializeRefines DEF Table!TableNext
<1>11. ASSUME NEW id \in Ids, AnswerShutdown(id) PROVE UNCHANGED Table!tableVars
  BY <1>11, AnswerShutdownRefines
<1>12. ASSUME NEW id \in Ids, HandleResponse(id) PROVE Table!TableNext
  BY <1>12, HandleResponseRefines DEF Table!TableNext
<1>13. ASSUME NEW method \in ServerMethods, HandleServerRequest(method)
       PROVE  UNCHANGED Table!tableVars
  BY <1>13, HandleServerRequestRefines
<1> QED
  BY <1>1, <1>2, <1>3, <1>4, <1>5, <1>6, <1>7, <1>8, <1>9, <1>10, <1>11, <1>12,
     <1>13 DEF Next, EditorCall, ServerMessage

\* The client implements the request table, whatever is raised, cancelled and
\* answered, and in whatever order.
THEOREM ImplementsTable == Spec => RequestTableKept
<1> QED
  BY FatesInvariance, InitRefines, StepRefines, PTL
     DEF Spec, RequestTableKept, Table!TableSpec

=============================================================================
