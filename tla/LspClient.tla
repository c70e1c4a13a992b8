------------------------------ MODULE LspClient ------------------------------
(***************************************************************************)
(* One conversation with one language server: the state machine of         *)
(* crates/deco-lsp/src/client.rs.  The client performs no I/O: each call   *)
(* returns what must be written to the server and what the editor must act *)
(* on.  Here `wire' is everything the calls so far have returned to be     *)
(* written, in order, and `delivered' is the events that carry an id.      *)
(*                                                                         *)
(* The server is not modelled by a state of its own.  It may answer any    *)
(* request it was sent, in any order and more than once, answer an id it   *)
(* was never sent, and ask its own requests at any time after it has been  *)
(* spawned; it does not answer a request it has not been sent.             *)
(*                                                                         *)
(* Events without an id (window/showMessage, a log line, Ignored) change   *)
(* nothing in the client and are left out.                                 *)
(***************************************************************************)
EXTENDS Integers, Sequences, FiniteSets, SequencesExt

CONSTANTS Methods,            \* methods the editor raises requests with
          MaxId,              \* bound on the request ids allocated
          MaxNotes,           \* bound on the notifications of the editor
          MaxServerRequests   \* bound on the requests of the server

ExecuteCommand == "workspace/executeCommand"
ApplyEdit      == "workspace/applyEdit"

ASSUME ClientAssumption ==
  /\ MaxId \in Nat /\ MaxNotes \in Nat /\ MaxServerRequests \in Nat
  /\ ExecuteCommand \in Methods
  /\ Methods \cap {"initialize", "initialized", "shutdown", "exit"} = {}

VARIABLES state, nextId, pending, queued, initializeId, shutdownId,
          wire,        \* messages to write to the server, in order
          delivered,   \* Response and ApplyEdit events, in order
          asked        \* the methods of the server's requests, in order

clientVars == <<state, nextId, pending, queued, initializeId, shutdownId>>
vars == <<clientVars, wire, delivered, asked>>

States == {"Uninitialized", "Initializing", "Ready", "ShuttingDown", "Exited"}

\* An id no request has.
NoId == 0

\* Requests of the server that the client accepts, declines or does not know.
ServerMethods == {"workspace/configuration", ApplyEdit, "unknown"}

Req(method, id)  == [kind |-> "request",      method |-> method, id |-> id]
Note(method, id) == [kind |-> "notification", method |-> method, id |-> id]
Ans(result, id)  == [kind |-> "response",     method |-> result, id |-> id]
Initialized      == Note("initialized", NoId)

Event(kind, method, id) == [kind |-> kind, method |-> method, id |-> id]

\* The ids of the requests the server has been sent.
SentIds == {wire[i].id : i \in {j \in DOMAIN wire : wire[j].kind = "request"}}

\* The requests of the server that have been answered.
AnsweredIds == {wire[i].id : i \in {j \in DOMAIN wire : wire[j].kind = "response"}}

\* The ids of the edits passed to the editor to answer.
PassedIds == {delivered[i].id :
                i \in {j \in DOMAIN delivered : delivered[j].kind = "ApplyEdit"}}

NotesSent == Cardinality({i \in DOMAIN wire : wire[i].method = "didChange"})

ClientInit ==
  /\ state = "Uninitialized" /\ nextId = 1
  /\ pending = <<>> /\ queued = <<>>
  /\ initializeId = NoId /\ shutdownId = NoId

Init == ClientInit /\ wire = <<>> /\ delivered = <<>> /\ asked = <<>>

(***************************************************************************)
(* The pending table: a function from the ids that await a reply.          *)
(***************************************************************************)
Without(table, id) == [i \in DOMAIN table \ {id} |-> table[i]]

With(table, id, method) ==
  [i \in DOMAIN table \cup {id} |->
     IF i = id THEN [method |-> method, cancelled |-> FALSE] ELSE table[i]]

QueuedIds == {queued[i] : i \in DOMAIN queued}

\* A command the editor raised that has no reply and was not cancelled.
RunningCommand ==
  \E i \in DOMAIN pending :
     pending[i].method = ExecuteCommand /\ ~pending[i].cancelled

(***************************************************************************)
(* Faults: variants of the operators below that a plausible mistake would  *)
(* give.  No specification uses them; they show what the properties catch. *)
(***************************************************************************)
\* A request raised during the handshake is sent at once.
RequestNotHeld(method) ==
  /\ state \in {"Initializing", "Ready"} /\ nextId <= MaxId
  /\ nextId' = nextId + 1
  /\ pending' = With(pending, nextId, method)
  /\ wire' = Append(wire, Req(method, nextId))
  /\ UNCHANGED <<state, queued, initializeId, shutdownId, delivered, asked>>

\* The queue is a stack.
RequestPushedFirst(method) ==
  /\ state \in {"Initializing", "Ready"} /\ nextId <= MaxId
  /\ nextId' = nextId + 1
  /\ pending' = With(pending, nextId, method)
  /\ IF state = "Initializing"
       THEN queued' = <<nextId>> \o queued /\ wire' = wire
       ELSE wire' = Append(wire, Req(method, nextId)) /\ queued' = queued
  /\ UNCHANGED <<state, initializeId, shutdownId, delivered, asked>>

\* Requests are refused only before the handshake and after the exit.
RequestDuringShutdown(method) ==
  /\ state \in {"Ready", "ShuttingDown"} /\ nextId <= MaxId
  /\ nextId' = nextId + 1
  /\ pending' = With(pending, nextId, method)
  /\ wire' = Append(wire, Req(method, nextId))
  /\ UNCHANGED <<state, queued, initializeId, shutdownId, delivered, asked>>

\* A reply that arrives after the cancellation is delivered all the same.
HandleResponseAlways(id) ==
  /\ state # "Exited" /\ id \in SentIds /\ id \in DOMAIN pending
  /\ id \notin {initializeId, shutdownId}
  /\ pending' = Without(pending, id)
  /\ delivered' = Append(delivered, Event("Response", pending[id].method, id))
  /\ UNCHANGED <<state, nextId, queued, initializeId, shutdownId, wire, asked>>

\* A method the client does not know is only logged.
ServerRequestDropped(method) ==
  /\ state \notin {"Uninitialized", "Exited"}
  /\ Len(asked) < MaxServerRequests
  /\ asked' = Append(asked, method)
  /\ wire' = IF method = "unknown" THEN wire
             ELSE Append(wire, Ans("ok", Len(asked) + 1))
  /\ UNCHANGED <<clientVars, delivered>>

(***************************************************************************)
(* Calls of the editor.                                                    *)
(***************************************************************************)
Initialize ==
  /\ state = "Uninitialized" /\ nextId <= MaxId
  /\ state' = "Initializing"
  /\ initializeId' = nextId /\ nextId' = nextId + 1
  /\ pending' = With(pending, nextId, "initialize")
  /\ wire' = Append(wire, Req("initialize", nextId))
  /\ UNCHANGED <<queued, shutdownId, delivered, asked>>

\* Raised during the handshake, a request waits in `queued'; it is pending
\* from the moment it is raised.
Request(method) ==
  /\ state \in {"Initializing", "Ready"} /\ nextId <= MaxId
  /\ nextId' = nextId + 1
  /\ pending' = With(pending, nextId, method)
  /\ IF state = "Initializing"
       THEN queued' = Append(queued, nextId) /\ wire' = wire
       ELSE wire' = Append(wire, Req(method, nextId)) /\ queued' = queued
  /\ UNCHANGED <<state, initializeId, shutdownId, delivered, asked>>

Notify ==
  /\ state = "Ready" /\ NotesSent < MaxNotes
  /\ wire' = Append(wire, Note("didChange", NoId))
  /\ UNCHANGED <<clientVars, delivered, asked>>

\* A queued request was never sent: it is forgotten.
CancelQueued(id) ==
  /\ \E k \in DOMAIN queued : queued[k] = id /\ queued' = RemoveAt(queued, k)
  /\ pending' = Without(pending, id)
  /\ UNCHANGED <<state, nextId, initializeId, shutdownId, wire, delivered, asked>>

\* A sent request stays pending, so that its reply is recognised and dropped.
CancelSent(id) ==
  /\ id \in DOMAIN pending \ QueuedIds
  /\ ~pending[id].cancelled
  /\ pending' = [pending EXCEPT ![id].cancelled = TRUE]
  /\ wire' = Append(wire, Note("$/cancelRequest", id))
  /\ UNCHANGED <<state, nextId, queued, initializeId, shutdownId, delivered, asked>>

\* Only ids that `request' returned are ever cancelled.
Cancel(id) ==
  /\ id \notin {initializeId, shutdownId}
  /\ CancelQueued(id) \/ CancelSent(id)

Shutdown ==
  /\ state = "Ready" /\ nextId <= MaxId
  /\ state' = "ShuttingDown"
  /\ shutdownId' = nextId /\ nextId' = nextId + 1
  /\ pending' = With(pending, nextId, "shutdown")
  /\ wire' = Append(wire, Req("shutdown", nextId))
  /\ UNCHANGED <<queued, initializeId, delivered, asked>>

Exit ==
  /\ state = "ShuttingDown"
  /\ state' = "Exited"
  /\ pending' = <<>> /\ queued' = <<>>
  /\ wire' = Append(wire, Note("exit", NoId))
  /\ UNCHANGED <<nextId, initializeId, shutdownId, delivered, asked>>

(***************************************************************************)
(* Messages of the server.  The supervisor reads none once the client has  *)
(* exited: it has dropped the process by then.                             *)
(***************************************************************************)
Replies(id) == state # "Exited" /\ id \in SentIds

\* A reply to an unknown id, or a second reply, changes nothing.
UnknownResponse ==
  /\ state # "Exited"
  /\ \E id \in SentIds \cup {NoId} : id \notin DOMAIN pending
  /\ UNCHANGED vars

\* The handshake's reply opens the session and sends what was queued, refuses
\* it, or names a position encoding that cannot be honoured: then the call
\* fails before anything but the pending table has changed.
FinishInitialize(id, outcome) ==
  /\ Replies(id) /\ id \in DOMAIN pending /\ id = initializeId
  /\ pending' = Without(pending, id)
  /\ CASE outcome = "ready" ->
            /\ state' = "Ready"
            /\ wire' = Append(wire, Initialized)
                       \o [i \in DOMAIN queued |->
                             Req(pending[queued[i]].method, queued[i])]
            /\ queued' = <<>>
       [] outcome = "refused" ->
            state' = "Exited" /\ UNCHANGED <<wire, queued>>
       [] outcome = "bad encoding" ->
            UNCHANGED <<state, wire, queued>>
  /\ UNCHANGED <<nextId, initializeId, shutdownId, delivered, asked>>

\* The caller sends `exit' when it chooses.
AnswerShutdown(id) ==
  /\ Replies(id) /\ id \in DOMAIN pending /\ id = shutdownId
  /\ pending' = Without(pending, id)
  /\ UNCHANGED <<state, nextId, queued, initializeId, shutdownId,
                 wire, delivered, asked>>

HandleResponse(id) ==
  /\ Replies(id) /\ id \in DOMAIN pending
  /\ id \notin {initializeId, shutdownId}
  /\ pending' = Without(pending, id)
  /\ delivered' = IF pending[id].cancelled THEN delivered
                  ELSE Append(delivered,
                              Event("Response", pending[id].method, id))
  /\ UNCHANGED <<state, nextId, queued, initializeId, shutdownId, wire, asked>>

\* Every request is answered at once, but for an edit that arrives while a
\* command runs: the editor answers that one.
HandleServerRequest(method) ==
  /\ state \notin {"Uninitialized", "Exited"}
  /\ Len(asked) < MaxServerRequests
  /\ asked' = Append(asked, method)
  /\ LET id == Len(asked) + 1 IN
     IF method = ApplyEdit /\ RunningCommand
       THEN /\ delivered' = Append(delivered, Event("ApplyEdit", method, id))
            /\ wire' = wire
       ELSE /\ wire' = Append(wire,
                  Ans(CASE method = ApplyEdit -> "not applied"
                        [] method = "unknown" -> "MethodNotFound"
                        [] OTHER -> "ok", id))
            /\ delivered' = delivered
  /\ UNCHANGED clientVars

\* The editor answers an edit it was passed, whether it applied it or not, and
\* whatever has become of the session since: the client does not ask.
AnswerApplyEdit(id) ==
  /\ id \in PassedIds \ AnsweredIds
  /\ \E result \in {"applied", "not applied"} :
        wire' = Append(wire, Ans(result, id))
  /\ UNCHANGED <<clientVars, delivered, asked>>

Ids == 1..MaxId
ServerIds == 1..MaxServerRequests
Outcomes == {"ready", "refused", "bad encoding"}

EditorCall ==
  \/ Initialize \/ Notify \/ Shutdown \/ Exit
  \/ \E method \in Methods : Request(method)
  \/ \E id \in Ids : Cancel(id)
  \/ \E id \in ServerIds : AnswerApplyEdit(id)

ServerMessage ==
  \/ UnknownResponse
  \/ \E id \in Ids :
       \/ \E outcome \in Outcomes : FinishInitialize(id, outcome)
       \/ AnswerShutdown(id)
       \/ HandleResponse(id)
  \/ \E method \in ServerMethods : HandleServerRequest(method)

Next == EditorCall \/ ServerMessage

\* The frontend answers an edit in the same poll that received it.
Fairness == \A id \in ServerIds : WF_vars(AnswerApplyEdit(id))

Spec == Init /\ [][Next]_vars /\ Fairness

(***************************************************************************)
(* Properties.                                                             *)
(***************************************************************************)
Results == {"ok", "applied", "not applied", "MethodNotFound"}

Message ==
  [kind : {"request", "notification", "response"},
   method : Methods \cup Results \cup
              {"initialize", "initialized", "didChange", "$/cancelRequest",
               "shutdown", "exit"},
   id : Nat]

EditorEvent ==
  [kind : {"Response", "ApplyEdit"},
   method : Methods \cup {"initialize", "shutdown", ApplyEdit}, id : Nat]

TypeOK ==
  /\ state \in States
  /\ nextId \in 1..(MaxId + 1)
  /\ DOMAIN pending \subseteq 1..(nextId - 1)
  /\ \A id \in DOMAIN pending :
        pending[id] \in [method : Methods \cup {"initialize", "shutdown"},
                         cancelled : BOOLEAN]
  /\ queued \in Seq(1..(nextId - 1))
  /\ initializeId \in 0..(nextId - 1) /\ shutdownId \in 0..(nextId - 1)
  /\ wire \in Seq(Message) /\ delivered \in Seq(EditorEvent)
  /\ asked \in Seq(ServerMethods)

\* The server sees `initialize' first and once, and until it sees
\* `initialized' nothing but answers to its own requests: a request raised
\* during the handshake, or its cancellation, never overtakes the handshake.
HandshakeFirst ==
  \A i \in DOMAIN wire : wire[i].kind # "response" =>
     /\ (wire[i].method = "initialize") <=> (i = 1)
     /\ wire[i].method \notin {"initialize", "initialized"} =>
          \E j \in 1..(i - 1) : wire[j] = Initialized

\* Requests reach the server in the order the editor raised them, those held
\* back during the handshake included, and each at most once.
RequestsInOrder ==
  \A i, j \in DOMAIN wire :
     (i < j /\ wire[i].kind = "request" /\ wire[j].kind = "request")
        => wire[i].id < wire[j].id

\* After `exit' the editor starts nothing; after `shutdown' it starts nothing
\* but `exit', and cancellations of what was asked before the shutdown and is
\* still unanswered.  Answers it owes the server are no messages of its own.
NothingAfterShutdown ==
  /\ TypeOK
  /\ \A i, j \in DOMAIN wire : (i < j /\ wire[j].kind # "response") =>
        /\ wire[i].method # "exit"
        /\ wire[i].method = "shutdown" =>
             \/ wire[j].method = "exit"
             \/ /\ wire[j].method = "$/cancelRequest"
                /\ \E k \in 1..(i - 1) :
                      wire[k].kind = "request" /\ wire[k].id = wire[j].id

\* What the states of the client promise (client.rs:53): once `shutdown' is in
\* flight, only `exit' may follow.  It does not hold: a cancellation may.
OnlyExitFollowsShutdown ==
  \A i, j \in DOMAIN wire :
     (i < j /\ wire[i].method = "shutdown" /\ wire[j].kind # "response")
        => wire[j].method = "exit"

\* A request that is waiting for the handshake is pending, so its cancellation
\* and its reply both find it; the queue holds none once the session is open.
QueuedArePending ==
  /\ QueuedIds \subseteq DOMAIN pending
  /\ queued # <<>> => state \in {"Initializing", "Exited"}
  /\ QueuedIds \cap SentIds = {}

\* Every request of the server is answered, unless the session ends first: a
\* server that waits for the answer synchronously is never left blocked.
EveryRequestAnswered ==
  \A id \in ServerIds :
     (id \in DOMAIN asked) ~> (id \in AnsweredIds \/ state = "Exited")

(***************************************************************************)
(* The request table this client implements.  The handshake's own requests *)
(* are no requests of the editor: their ids stay new.                      *)
(***************************************************************************)
SessionOf ==
  CASE state \in {"Uninitialized", "Initializing"} -> "opening"
    [] state = "Ready"        -> "open"
    [] state = "ShuttingDown" -> "closing"
    [] OTHER                  -> "over"

Deliveries(id) ==
  {i \in DOMAIN delivered : delivered[i].kind = "Response" /\ delivered[i].id = id}

\* Handed over once, under the method the server was asked with.
DeliveredWell(id) ==
  \E i \in Deliveries(id) :
    /\ Deliveries(id) = {i}
    /\ \E j \in DOMAIN wire : wire[j] = Req(delivered[i].method, id)

StatusOf(id) ==
  IF Deliveries(id) # {} THEN
    IF DeliveredWell(id) THEN "delivered" ELSE "misdelivered"
  ELSE IF id >= nextId \/ id \in {initializeId, shutdownId} THEN "new"
  ELSE IF state = "Exited" \/ id \notin DOMAIN pending THEN "over"
  ELSE IF id \in QueuedIds THEN "held"
  ELSE IF pending[id].cancelled THEN "cancelled" ELSE "awaiting"

Table == INSTANCE RequestTable
           WITH session <- SessionOf, status <- [id \in Ids |-> StatusOf(id)]

\* Every history of the editor's requests is one of the abstract table: each is
\* held, sent, cancelled, delivered or abandoned once and in that order, those
\* held are released together, a reply is handed over under the method that was
\* asked, and one that crosses its cancellation, or comes twice, or after the
\* end, changes the fate of none.
RequestTableKept == Table!TableSpec
=============================================================================
