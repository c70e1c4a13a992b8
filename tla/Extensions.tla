------------------------------ MODULE Extensions ------------------------------
(***************************************************************************)
(* The extension hosts: Hosts of deco-tui/src/extensions.rs, the broker    *)
(* and `dispatch' of deco-ext, and the Node process at the other end       *)
(* (extension-host/src).                                                   *)
(*                                                                         *)
(* The editor has one thread.  Hosts::poll goes through the running hosts  *)
(* in order: `turn' is the hosts it has still to poll, and `drain' the     *)
(* local variables of the poll_one of the first.  An arm of its loop is an *)
(* action, and the processes go on between two of them.  Keys are handled  *)
(* between polls.                                                          *)
(*                                                                         *)
(* A message carries the process it belongs to (`from': an extension and   *)
(* the number of its start), which the code does not send: ids begin at 1  *)
(* in every process.                                                       *)
(***************************************************************************)
EXTENDS Integers, Sequences, FiniteSets, SequencesExt

CONSTANTS Extensions,    \* numbers, in the order of the map of hosts
          Commands, OwnerOf,           \* what the manifests contribute
          Capabilities, Covered,       \* what a grant of each covers
          Declared,      \* the capabilities of each manifest
          Calls,         \* the requests each extension makes
          Chatty,        \* extensions that log without end
          Policy,        \* extensions.defaultPolicy
          Budget,        \* events handled in one poll of a host (64)
          PipeSize,      \* messages the pipe to a host holds
          MaxInvoked,    \* bound on the commands the user runs
          MaxRequests    \* bound on the requests of a host process

\* What is requested: a call that needs capabilities, the registration of a
\* command, or a method the editor does not know.
Methods == [method : {"call", "unknown"} \cup Commands, needs : Seq(Capabilities)]

ASSUME ExtensionsAssumption ==
  /\ Extensions \subseteq Nat \ {0} /\ OwnerOf \in [Commands -> Extensions]
  /\ Covered \in [Capabilities -> SUBSET Capabilities]
  /\ \A c \in Capabilities : c \in Covered[c]
  /\ Declared \in [Extensions -> SUBSET Capabilities]
  /\ Calls \in [Extensions -> SUBSET Methods]
  /\ Chatty \subseteq Extensions /\ Policy \in {"prompt", "allow", "deny"}
  /\ {Budget, PipeSize, MaxInvoked, MaxRequests} \subseteq Nat \ {0}

VARIABLES
  host,         \* Hosts::running, with the broker's grants
  asking,       \* Hosts::asking
  permissions,  \* Hosts::permissions, for the installed versions; there is
                \* a file to keep them in
  prompt,       \* the kind of Session::prompt
  turn, drain,  \* a poll in progress
  proc,         \* the host processes: `waiting' are the requests a process has
                \* no reply to, `misled' those it took another's reply for
  toHost, toEditor,  \* messages on their way
  starts, invoked,   \* how often each host was started, commands were run
  said          \* what the user last said of each capability

editorVars == <<host, asking, permissions, prompt, invoked, said>>
pollVars   == <<turn, drain>>
procVars   == <<proc, toHost, toEditor>>
vars == <<editorVars, pollVars, procVars, starts>>

NoGrants == [allowed |-> {}, denied |-> {}]
NotRunning == [state |-> "none", registered |-> {}, queued |-> <<>>,
               asked |-> {}, nextId |-> 1, grants |-> NoGrants]
NoProcess == [phase |-> "none", next |-> 1, waiting |-> {}, owed |-> {},
              misled |-> {}]
NoQuestion == [ext |-> 0, request |-> 0, capability |-> 0]
NewDrain == [handled |-> 0, pending |-> NoQuestion, dead |-> FALSE]

Init ==
  /\ host = [e \in Extensions |-> NotRunning] /\ asking = NoQuestion
  /\ permissions = [e \in Extensions |-> NoGrants]
  /\ prompt = "none"
  /\ turn = {} /\ drain = NewDrain
  /\ proc = [e \in Extensions |-> NoProcess]
  /\ toHost = [e \in Extensions |-> <<>>]
  /\ toEditor = [e \in Extensions |-> <<>>]
  /\ starts = [e \in Extensions |-> 0] /\ invoked = 0
  /\ said = [e \in Extensions |-> [c \in Capabilities |-> "nothing"]]

Running  == {e \in Extensions : host[e].state # "none"}
Alive(e) == proc[e].phase \notin {"none", "exited"}
Idle     == turn = {}

(***************************************************************************)
(* The broker.  A request needs a sequence of capabilities; one that needs *)
(* none only touches what the editor shows.                                *)
(***************************************************************************)
Request(e, call) ==
  [kind |-> "request", from |-> <<e, starts[e]>>, id |-> proc[e].next,
   method |-> call.method, needs |-> call.needs]

Grants(h, c) == \E a \in h.grants.allowed : c \in Covered[a]

\* Broker::check, and what a denial outranks.
Denies(e, h, c) ==
  \/ \E d \in h.grants.denied : c \in Covered[d]
  \/ \A d \in Declared[e] : c \notin Covered[d]
  \/ Policy = "deny" /\ ~Grants(h, c)

Asks(e, h, c) == ~Denies(e, h, c) /\ ~Grants(h, c) /\ Policy = "prompt"

\* dispatch: refused, allowed, or the capability to ask about first.
Refused(e, h, request) ==
  request.method = "unknown" \/ \E c \in Range(request.needs) : Denies(e, h, c)

\* Fault: only the first of two paths is asked about.
UndecidedFirst(e, h, request) ==
  {i \in DOMAIN request.needs : i = 1 /\ Asks(e, h, request.needs[i])}

Undecided(e, h, request) ==
  {i \in DOMAIN request.needs : Asks(e, h, request.needs[i])}
Consent(e, h, request) ==
  ~Refused(e, h, request) /\ Undecided(e, h, request) # {}
Allowed(e, h, request) ==
  ~Refused(e, h, request) /\ Undecided(e, h, request) = {}
FirstAsked(e, h, request) == request.needs[Min(Undecided(e, h, request))]

\* A reply names the capabilities that were used to make it.
Reply(request, used) ==
  [kind |-> "response", from |-> request.from, id |-> request.id, used |-> used]
Served(request) == Reply(request, Range(request.needs))
Refusal(request) == Reply(request, {})

Remember(grants, c, allow) ==
  [allowed |-> IF allow THEN grants.allowed \cup {c} ELSE grants.allowed \ {c},
   denied  |-> IF allow THEN grants.denied \ {c} ELSE grants.denied \cup {c}]
Forget(grants, c) ==
  [allowed |-> grants.allowed \ {c}, denied |-> grants.denied \ {c}]

(***************************************************************************)
(* Steps several operations share.                                         *)
(***************************************************************************)
\* Host::send writes to the pipe on the editor's thread, and waits there while
\* the pipe is full.  What one call writes begins when there is room.
Room(e) == Len(toHost[e]) < PipeSize
Send(e, messages) ==
  /\ messages = <<>> \/ Room(e)
  /\ toHost' = [toHost EXCEPT ![e] = @ \o messages]

\* Hosts::finish of a host that is dead: it is asked to stop, then killed.
Stop(e) ==
  /\ host' = [host EXCEPT ![e] = NotRunning]
  /\ proc' = [proc EXCEPT ![e] = NoProcess]
  /\ toHost' = [toHost EXCEPT ![e] = <<>>]
  /\ toEditor' = [toEditor EXCEPT ![e] = <<>>]

\* Host::request for every command of a sequence that is registered.  One
\* that cannot be written is reported and lost.
Execute(e, h, commands) ==
  LET known == Cardinality({i \in DOMAIN commands : commands[i] \in h.registered})
      Id(i) == h.nextId + i - 1
      sent  == {[id |-> Id(i), method |-> "execute"] : i \in 1..known}
  IN  /\ host' = [host EXCEPT ![e] =
                    [h EXCEPT !.nextId = @ + known,
                              !.asked = IF Alive(e) THEN @ \cup sent ELSE @]]
      /\ IF Alive(e)
         THEN Send(e, [i \in 1..known |-> [kind |-> "execute", id |-> Id(i)]])
         ELSE UNCHANGED toHost

(***************************************************************************)
(* The user.                                                               *)
(***************************************************************************)
\* Hosts::start: a new process, and a broker with the remembered decisions.
Start(e, queued) ==
  /\ starts' = [starts EXCEPT ![e] = @ + 1]
  /\ host' = [host EXCEPT ![e] =
       [NotRunning EXCEPT !.state = "starting", !.queued = queued,
                          !.grants = permissions[e]]]
  /\ proc' = [proc EXCEPT ![e] = [NoProcess EXCEPT !.phase = "booting"]]
  /\ UNCHANGED <<toHost, toEditor>>

\* Hosts::run_command.
RunCommand(c) ==
  LET e == OwnerOf[c]
      h == host[e]
  IN  /\ Idle /\ invoked < MaxInvoked /\ invoked' = invoked + 1
      /\ \/ /\ h.state = "active" /\ Execute(e, h, <<c>>)
            /\ UNCHANGED <<proc, toEditor, starts>>
         \/ /\ h.state \in {"starting", "activating"}
            /\ host' = [host EXCEPT ![e].queued = Append(@, c)]
            /\ UNCHANGED <<procVars, starts>>
         \/ h.state = "none" /\ Start(e, <<c>>)
      /\ UNCHANGED <<asking, permissions, prompt, said, pollVars>>

\* Hosts::answer_consent, for the choice made in the prompt.  The request is
\* dispatched again, and held for as long as it needs another decision.
AnswerConsent(allow) ==
  LET q == asking
      e == q.ext
      h == [host[e] EXCEPT !.grants = Remember(@, q.capability, allow)]
      next == FirstAsked(e, h, q.request)
      again == /\ allow /\ Consent(e, h, q.request) /\ next # q.capability
  IN  /\ Idle /\ prompt = "consent" /\ q # NoQuestion
      /\ prompt' = IF e \in Running /\ again THEN "consent" ELSE "none"
      /\ IF e \notin Running
         THEN /\ asking' = NoQuestion
              /\ UNCHANGED <<host, permissions, said, procVars>>
         ELSE /\ permissions' = [permissions EXCEPT ![e] = h.grants]
              /\ said' = [said EXCEPT ![e][q.capability] = IF allow THEN "yes" ELSE "no"]
              /\ asking' = IF again THEN [q EXCEPT !.capability = next]
                                    ELSE NoQuestion
              /\ IF again \/ Alive(e)
                 THEN /\ host' = [host EXCEPT ![e] = h]
                      /\ IF again THEN UNCHANGED toHost
                         ELSE Send(e, <<IF Allowed(e, h, q.request)
                                        THEN Served(q.request) ELSE Refusal(q.request)>>)
                      /\ UNCHANGED <<proc, toEditor>>
                 ELSE Stop(e)
      /\ UNCHANGED <<invoked, pollVars, starts>>

\* Hosts::offer_permissions and forget_permission: a decision is chosen from a
\* list of those of the running hosts, which takes the place of any prompt.
ForgetPermission(e, c) ==
  /\ Idle /\ e \in Running /\ c \in host[e].grants.allowed \cup host[e].grants.denied
  /\ prompt' = "none"
  /\ host' = [host EXCEPT ![e].grants = Forget(@, c)]
  /\ permissions' = [permissions EXCEPT ![e] = Forget(@, c)]
  /\ said' = [said EXCEPT ![e][c] = "nothing"]
  /\ UNCHANGED <<asking, invoked, pollVars, procVars, starts>>

\* Escape, a prompt that another replaces, or Enter when the typed text
\* matches neither choice.
ClosePrompt ==
  /\ Idle /\ prompt # "none" /\ prompt' = "none"
  /\ UNCHANGED <<host, asking, permissions, invoked, said, pollVars,
                 procVars, starts>>

(***************************************************************************)
(* Hosts::poll.                                                            *)
(***************************************************************************)
Poll ==
  /\ Idle /\ Running # {}
  /\ turn' = Running /\ drain' = NewDrain
  /\ UNCHANGED <<editorVars, procVars, starts>>

\* The hosts are polled in the order of the map.
Polled(e) == e \in turn /\ \A other \in turn : e <= other

Drained(e) == drain.dead \/ drain.handled = Budget \/ toEditor[e] = <<>>

\* The next event of the host being polled.
NextEvent(e) ==
  /\ Polled(e) /\ ~Drained(e)
  /\ toEditor' = [toEditor EXCEPT ![e] = Tail(@)]
  /\ UNCHANGED <<asking, permissions, prompt, invoked, said, turn, proc, starts>>

\* Fault: everything that has arrived is handled, however much it is.
HandledAll == UNCHANGED drain

Handled == drain' = [drain EXCEPT !.handled = @ + 1]

\* A reply is sent, or finds that the process has gone.
Answer(e, reply) ==
  IF Alive(e) THEN Send(e, <<reply>>) /\ Handled
  ELSE drain' = [drain EXCEPT !.dead = TRUE] /\ UNCHANGED toHost

HandleRefused(e) ==
  LET m == Head(toEditor[e])
  IN  /\ NextEvent(e) /\ m.kind = "request" /\ Refused(e, host[e], m)
      /\ Answer(e, Refusal(m)) /\ UNCHANGED host

\* Hosts::mediated.
HandleAllowed(e) ==
  LET m == Head(toEditor[e])
  IN  /\ NextEvent(e) /\ m.kind = "request" /\ Allowed(e, host[e], m)
      /\ Answer(e, Served(m))
      /\ host' = IF m.method \in Commands
                 THEN [host EXCEPT ![e].registered = @ \cup {m.method}] ELSE host

\* Fault: a question is asked whether or not one is on the screen.
NothingHeldHere == drain.pending = NoQuestion

NothingHeld == drain.pending = NoQuestion /\ asking = NoQuestion
Decline(e, request) == Answer(e, Refusal(request))

\* The request is held, or refused while another is.
HandleConsent(e) ==
  LET m == Head(toEditor[e])
      first == FirstAsked(e, host[e], m)
  IN  /\ NextEvent(e) /\ m.kind = "request" /\ Consent(e, host[e], m)
      /\ IF NothingHeld
         THEN /\ drain' = [handled |-> drain.handled + 1, dead |-> FALSE,
                           pending |-> [ext |-> e, request |-> m, capability |-> first]]
              /\ UNCHANGED toHost
         ELSE Decline(e, m)
      /\ UNCHANGED host

\* A host whose extension has been activated is active.
HandleResponse(e) ==
  LET m == Head(toEditor[e])
      asked == {a \in host[e].asked : a.id = m.id}
  IN  /\ NextEvent(e) /\ m.kind = "answer" /\ Handled
      /\ host' = [host EXCEPT ![e].asked = @ \ asked,
                              ![e].state = IF m.ok /\ \E a \in asked : a.method = "activate"
                                           THEN "active" ELSE @]
      /\ UNCHANGED toHost

HandleReady(e) ==
  /\ NextEvent(e) /\ Head(toEditor[e]).kind = "ready" /\ Handled
  /\ host' = [host EXCEPT ![e].state = "activating"] /\ UNCHANGED toHost

HandleLog(e) ==
  NextEvent(e) /\ Head(toEditor[e]).kind = "log" /\ Handled /\ UNCHANGED <<host, toHost>>

HandleClosed(e) ==
  /\ NextEvent(e) /\ Head(toEditor[e]).kind = "closed"
  /\ drain' = [drain EXCEPT !.dead = TRUE] /\ UNCHANGED <<host, toHost>>

\* What poll_one does after its loop.
AfterDrain(e) ==
  /\ Polled(e) /\ Drained(e)
  /\ turn' = turn \ {e} /\ drain' = NewDrain
  /\ UNCHANGED <<permissions, invoked, said, starts>>

ActivationDue(e) == host[e].state = "activating" /\ host[e].asked = {}
Dead(e) == drain.dead \/ (ActivationDue(e) /\ ~Alive(e))

\* A question of a host that has died is dropped.
DropDead(e) == AfterDrain(e) /\ Dead(e) /\ Stop(e) /\ UNCHANGED <<asking, prompt>>

\* Fault: only a host that has not sent `$/ready' times out.
IsStarting(e) == host[e].state = "starting"

MayTimeOut(e) == host[e].state # "active"
MayRun(e) == host[e].state = "active"

\* A host that has not exited is sent `$/shutdown' first.
TimeOut(e) ==
  /\ AfterDrain(e) /\ ~Dead(e) /\ MayTimeOut(e) /\ (Alive(e) => Room(e))
  /\ Stop(e) /\ UNCHANGED <<asking, prompt>>

AskPending ==
  IF drain.pending # NoQuestion THEN asking' = drain.pending /\ prompt' = "consent"
  ELSE UNCHANGED <<asking, prompt>>

Activate(e) ==
  /\ AfterDrain(e) /\ ~Dead(e) /\ ActivationDue(e) /\ AskPending
  /\ host' = [host EXCEPT ![e].nextId = @ + 1,
                          ![e].asked = {[id |-> host[e].nextId, method |-> "activate"]}]
  /\ Send(e, <<[kind |-> "activate", id |-> host[e].nextId]>>)
  /\ UNCHANGED <<proc, toEditor>>

\* Everything that waited for the host is run.
RunQueued(e) ==
  /\ AfterDrain(e) /\ ~Dead(e) /\ ~ActivationDue(e) /\ AskPending
  /\ IF MayRun(e)
     THEN Execute(e, [host[e] EXCEPT !.queued = <<>>], host[e].queued)
     ELSE UNCHANGED <<host, toHost>>
  /\ UNCHANGED <<proc, toEditor>>

(***************************************************************************)
(* The host process.                                                       *)
(***************************************************************************)
Up(e) == proc[e].phase = "loaded"

Emit(e, message) == toEditor' = [toEditor EXCEPT ![e] = Append(@, message)]
Answers(id, ok) == [kind |-> "answer", id |-> id, ok |-> ok]

Boot(e) ==
  /\ proc[e].phase = "booting" /\ proc' = [proc EXCEPT ![e].phase = "ready"]
  /\ Emit(e, [kind |-> "ready"])
  /\ UNCHANGED <<editorVars, pollVars, toHost, starts>>

\* RpcConnection._dispatch: the request with the id of a reply is settled.
IsFor(e, reply) == reply.from = <<e, starts[e]>>
Settle(e, reply) ==
  proc' = [proc EXCEPT
    ![e].waiting = @ \ {reply.id},
    ![e].misled = IF IsFor(e, reply) THEN @ \ {reply.id}
                  ELSE @ \cup ({reply.id} \cap proc[e].waiting)]

\* RpcConnection._dispatch.  A second `$/activate' is answered at once.
Receive(e) ==
  LET m == Head(toHost[e])
  IN  /\ Alive(e) /\ toHost[e] # <<>> /\ toHost' = [toHost EXCEPT ![e] = Tail(@)]
      /\ \/ m.kind = "response" /\ Settle(e, m) /\ UNCHANGED toEditor
         \/ /\ m.kind = "activate" /\ ~Up(e)
            /\ proc' = [proc EXCEPT ![e].phase = "loaded", ![e].owed = @ \cup {m}]
            /\ UNCHANGED toEditor
         \/ m.kind = "activate" /\ Up(e) /\ Emit(e, Answers(m.id, TRUE)) /\ UNCHANGED proc
         \/ /\ m.kind = "execute"
            /\ proc' = [proc EXCEPT ![e].owed = @ \cup {m}] /\ UNCHANGED toEditor
      /\ UNCHANGED <<editorVars, pollVars, starts>>

\* The extension's `activate', or the callback of a command, returns or throws.
Return(e, m, ok) ==
  /\ Alive(e) /\ m \in proc[e].owed /\ Emit(e, Answers(m.id, ok))
  /\ proc' = [proc EXCEPT ![e].owed = @ \ {m}]
  /\ UNCHANGED <<editorVars, pollVars, toHost, starts>>

\* RpcConnection.request.
Ask(e, request) ==
  /\ Up(e) /\ proc[e].next <= MaxRequests /\ Emit(e, request)
  /\ proc' = [proc EXCEPT ![e].next = @ + 1, ![e].waiting = @ \cup {request.id}]
  /\ UNCHANGED <<editorVars, pollVars, toHost, starts>>

\* A line of the log is written when nothing else waits to be read.  The
\* editor ignores `$/activated' as it does a line of the log.
Log(e) ==
  /\ Up(e) /\ e \in Chatty /\ toEditor[e] = <<>> /\ Emit(e, [kind |-> "log"])
  /\ UNCHANGED <<editorVars, pollVars, proc, toHost, starts>>

Die(e) ==
  /\ Alive(e) /\ proc' = [proc EXCEPT ![e] = [NoProcess EXCEPT !.phase = "exited"]]
  /\ toHost' = [toHost EXCEPT ![e] = <<>>] /\ Emit(e, [kind |-> "closed"])
  /\ UNCHANGED <<editorVars, pollVars, starts>>

(***************************************************************************)
(* The specification.                                                      *)
(***************************************************************************)
User ==
  \/ \E c \in Commands : RunCommand(c)
  \/ \E allow \in BOOLEAN : AnswerConsent(allow)
  \/ ClosePrompt
  \/ \E e \in Extensions, c \in Capabilities : ForgetPermission(e, c)

Handle(e) ==
  \/ HandleRefused(e) \/ HandleAllowed(e) \/ HandleConsent(e) \/ HandleResponse(e)
  \/ HandleReady(e) \/ HandleLog(e) \/ HandleClosed(e)

Finish(e) == DropDead(e) \/ TimeOut(e) \/ Activate(e) \/ RunQueued(e)

Process(e) ==
  \/ Boot(e) \/ Receive(e) \/ Log(e) \/ Die(e)
  \/ \E call \in Calls[e] : Ask(e, Request(e, call))
  \/ \E m \in proc[e].owed, ok \in BOOLEAN : Return(e, m, ok)

Next == User \/ Poll \/ \E e \in Extensions : Handle(e) \/ Finish(e) \/ Process(e)

Spec == Init /\ [][Next]_vars

\* The event loop polls, time passes, and the user answers a question that is
\* on the screen.  Nothing is asked of the host processes.
EditorFairSpec ==
  /\ Spec
  /\ WF_vars(Poll \/ \E e \in Extensions : Handle(e) \/ Finish(e))
  /\ \A e \in Extensions : SF_vars(TimeOut(e))
  /\ SF_vars(\E allow \in BOOLEAN : AnswerConsent(allow))

\* With hosts that read what is written to them, whatever else they do.
FairSpec == EditorFairSpec /\ \A e \in Extensions : WF_vars(Receive(e))

(***************************************************************************)
(* Properties.                                                             *)
(***************************************************************************)
\* Every host is in one of the states of the code, what has not been started
\* has no process, and only the host being polled is drained.
TypeOK ==
  /\ \A e \in Extensions :
       /\ host[e].state \in {"none", "starting", "activating", "active"}
       /\ host[e].registered \subseteq Commands /\ host[e].queued \in Seq(Commands)
       /\ host[e].grants.allowed \cap host[e].grants.denied = {}
       /\ (host[e].state = "none") = (proc[e].phase = "none")
       /\ e \in Running => permissions[e] = host[e].grants
  /\ turn \subseteq Running
  /\ prompt \in {"none", "consent"}
  /\ Idle => drain = NewDrain

\* Where the request `id' of the process of e is.
Places(e, id) ==
  Cardinality({i \in DOMAIN toEditor[e] :
                 toEditor[e][i].kind = "request" /\ toEditor[e][i].id = id})
  + Cardinality({i \in DOMAIN toHost[e] :
                 /\ toHost[e][i].kind = "response" /\ toHost[e][i].id = id
                 /\ toHost[e][i].from = <<e, starts[e]>>})
  + Cardinality({q \in {asking, drain.pending} : q # NoQuestion /\
                 q.request.from = <<e, starts[e]>> /\ q.request.id = id})

\* A request of a live host is in exactly one place until its own reply reaches
\* the host: on its way, held for the user, or with its one reply on the way
\* back.  That is so of a request that was taken for answered as well.
EachRequestHeldOnce ==
  /\ TypeOK
  /\ \A e \in Extensions : Alive(e) =>
       \A id \in 1..(proc[e].next - 1) :
         Places(e, id) = IF id \in proc[e].waiting \cup proc[e].misled THEN 1 ELSE 0

\* No request is settled by the reply to a request of an earlier process, for
\* one that exits while its question is on the screen is gone when the user
\* answers (answer_consent).
RepliesFindTheirRequests == \A e \in Extensions : proc[e].misled = {}

Responds(e) ==
  Len(toHost'[e]) > Len(toHost[e]) /\ Last(toHost'[e]).kind = "response"

\* With every decision left to the user, a request is served only if the user
\* has said yes to every capability it used and has not said no or withdrawn
\* it since, in whichever host of the extension, and whatever was asked and
\* answered while it was held.
UsesHaveLeave ==
  [][\A e \in Extensions :
       Policy = "prompt" /\ Responds(e) =>
         \A c \in Last(toHost'[e]).used :
           /\ \E a \in Capabilities : c \in Covered[a] /\ said'[e][a] = "yes"
           /\ \A d \in Capabilities : c \in Covered[d] => said'[e][d] # "no"]_vars

\* Between polls nothing is queued for a host that is active.
NothingKeptWaiting ==
  Idle => \A e \in Extensions : host[e].state = "active" => host[e].queued = <<>>

\* A command that waits for its host is run, or its host is stopped; and once the
\* host is active, a command run from a key does not overtake one that waited.
CommandsAreSettled ==
  /\ []NothingKeptWaiting
  /\ \A e \in Extensions : host[e].queued # <<>> ~> host[e].queued = <<>>

\* A poll ends, however much the hosts write, as the comment on the budget of
\* poll_one promises.  Of FairSpec this holds; of EditorFairSpec, where a host
\* need not read, it does not.
PollReturns == turn # {} ~> turn = {}

\* A question nobody has answered is on the screen, or comes back to it, as
\* Session::accept_prompt says of one that was closed without a choice.
QuestionsComeBack == asking # NoQuestion ~> asking = NoQuestion \/ prompt = "consent"
=============================================================================
