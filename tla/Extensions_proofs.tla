-------------------------- MODULE Extensions_proofs --------------------------
(***************************************************************************)
(* What an extension may have had, and what becomes of its requests, for   *)
(* any extensions, capabilities and commands, however many requests the    *)
(* hosts make and however the polls fall between them.                     *)
(***************************************************************************)
EXTENDS Extensions, FiniteSetTheorems, FunctionTheorems, SequenceTheorems,
        WellFoundedInduction, TLAPS

(***************************************************************************)
(* The types of the state.                                                 *)
(***************************************************************************)
Grant == [allowed : SUBSET Capabilities, denied : SUBSET Capabilities]
Host  == [state : {"none", "starting", "activating", "active"},
          registered : SUBSET Commands, queued : Seq(Commands),
          asked : SUBSET [id : Nat, method : {"execute", "activate"}],
          nextId : Nat, grants : Grant]

Starts    == Extensions \X Nat
Requests  == [kind : {"request"}, from : Starts, id : Nat,
              method : {"call", "unknown"} \cup Commands, needs : Seq(Capabilities)]
Notices   == [kind : {"ready", "log", "closed"}]
Answered  == [kind : {"answer"}, id : Nat, ok : BOOLEAN]
FromHost  == Requests \cup Notices \cup Answered
Replies   == [kind : {"response"}, from : Starts, id : Nat, used : SUBSET Capabilities]
Orders    == [kind : {"activate", "execute"}, id : Nat]
FromEditor == Replies \cup Orders

Question == [ext : Extensions, request : Requests, capability : Capabilities]
Proc == [phase : {"none", "booting", "ready", "loaded", "exited"}, next : Nat \ {0},
         waiting : SUBSET Nat, owed : SUBSET Orders, misled : SUBSET Nat]

Types ==
  /\ host \in [Extensions -> Host] /\ proc \in [Extensions -> Proc]
  /\ permissions \in [Extensions -> Grant]
  /\ toHost \in [Extensions -> Seq(FromEditor)]
  /\ toEditor \in [Extensions -> Seq(FromHost)]
  /\ asking \in Question \cup {NoQuestion}
  /\ drain \in [handled : Nat, pending : Question \cup {NoQuestion}, dead : BOOLEAN]
  /\ turn \subseteq Running /\ prompt \in {"none", "consent"}
  /\ starts \in [Extensions -> Nat] /\ invoked \in Nat
  /\ said \in [Extensions -> [Capabilities -> {"nothing", "yes", "no"}]]

(***************************************************************************)
(* What holds of each extension.                                           *)
(***************************************************************************)
\* The remembered decisions are what the user last said.
SaidKept(e) ==
  \A c \in Capabilities : /\ c \in permissions[e].allowed <=> said[e][c] = "yes"
                          /\ c \in permissions[e].denied <=> said[e][c] = "no"

\* What has not been started has no process and no messages; what runs has the
\* remembered decisions.
HostOK(e) ==
  /\ host[e].state = "none" <=> proc[e].phase = "none"
  /\ host[e].state = "none" => toHost[e] = <<>> /\ toEditor[e] = <<>>
  /\ host[e].state # "none" => host[e].grants = permissions[e]
  /\ host[e].grants.allowed \cap host[e].grants.denied = {}

\* A poll leaves nothing queued for an active host.
Polls ==
  /\ Idle => drain = NewDrain
  /\ \A e \in Extensions \ turn : host[e].state = "active" => host[e].queued = <<>>

AInv == Types /\ Polls /\ \A e \in Extensions : SaidKept(e) /\ HostOK(e)

(***************************************************************************)
(* Lemmas on the operators the steps share.                                *)
(***************************************************************************)
\* The first capability to ask about is one the request needs.
LEMMA FirstAskedNeeded ==
  ASSUME NEW e, NEW h, NEW request, request.needs \in Seq(Capabilities),
         Undecided(e, h, request) # {}
  PROVE  FirstAsked(e, h, request) \in Capabilities
<1> DEFINE S == Undecided(e, h, request)
<1>1. S \subseteq Nat /\ S # {} /\ \A i \in S : request.needs[i] \in Capabilities
  BY DEF Undecided
<1> HIDE DEF S
<1>2. PICK x \in S : \A y \in S : <<y, x>> \notin OpToRel(<, Nat)
  BY <1>1, NatLessThanWellFounded, WFMin
<1>3. ASSUME NEW y \in S PROVE x <= y
  <2>1. x \in Nat /\ y \in Nat /\ <<y, x>> \notin {ss \in Nat \X Nat : ss[1] < ss[2]}
    BY <1>1, <1>2, Zenon DEF OpToRel
  <2>2. ~(y < x)
    BY <2>1
  <2> QED
    BY <2>1, <2>2
<1>4. Min(S) \in S
  BY <1>3 DEF Min
<1> QED
  BY <1>1, <1>4 DEF FirstAsked, S

LEMMA HeadTail ==
  ASSUME NEW S, NEW s \in Seq(S), s # <<>>
  PROVE  Head(s) \in S /\ Tail(s) \in Seq(S)
BY HeadTailProperties

LEMMA SendTyped ==
  ASSUME Types, NEW e \in Extensions, NEW messages \in Seq(FromEditor), Send(e, messages)
  PROVE  /\ toHost' \in [Extensions -> Seq(FromEditor)]
         /\ toHost'[e] = toHost[e] \o messages
         /\ \A o \in Extensions : o # e => toHost'[o] = toHost[o]
<1>1. toHost \in [Extensions -> Seq(FromEditor)]
  BY DEF Types
<1>2. toHost[e] \o messages \in Seq(FromEditor)
  BY <1>1, ConcatProperties
<1> QED
  BY <1>1, <1>2 DEF Send

LEMMA EmitTyped ==
  ASSUME Types, NEW e \in Extensions, NEW message \in FromHost, Emit(e, message)
  PROVE  /\ toEditor' \in [Extensions -> Seq(FromHost)]
         /\ toEditor'[e] = Append(toEditor[e], message)
         /\ \A o \in Extensions : o # e => toEditor'[o] = toEditor[o]
<1>1. toEditor \in [Extensions -> Seq(FromHost)]
  BY DEF Types
<1>2. Append(toEditor[e], message) \in Seq(FromHost)
  BY <1>1, AppendProperties
<1> QED
  BY <1>1, <1>2 DEF Emit

LEMMA ProcessTypes ==
  /\ NotRunning \in Host /\ NoProcess \in Proc /\ NoGrants \in Grant
  /\ NotRunning.state = "none" /\ NoProcess.phase = "none"
  /\ NotRunning.grants = NoGrants /\ NotRunning.queued = <<>>
  /\ <<>> \in Seq(FromEditor) /\ <<>> \in Seq(FromHost) /\ <<>> \in Seq(Commands)
  /\ NewDrain \in [handled : Nat, pending : Question \cup {NoQuestion}, dead : BOOLEAN]
BY EmptySeq DEF NotRunning, NoProcess, NoGrants, Host, Proc, Grant, NewDrain

LEMMA StopTyped ==
  ASSUME Types, NEW e \in Extensions, Stop(e)
  PROVE  /\ host' \in [Extensions -> Host] /\ host'[e] = NotRunning
         /\ proc' \in [Extensions -> Proc] /\ proc'[e] = NoProcess
         /\ toHost' \in [Extensions -> Seq(FromEditor)] /\ toHost'[e] = <<>>
         /\ toEditor' \in [Extensions -> Seq(FromHost)] /\ toEditor'[e] = <<>>
         /\ \A o \in Extensions : o # e =>
               /\ host'[o] = host[o] /\ proc'[o] = proc[o]
               /\ toHost'[o] = toHost[o] /\ toEditor'[o] = toEditor[o]
BY ProcessTypes DEF Types, Stop

\* Commands that are run are orders to the host, and leave its state.
LEMMA ExecuteTyped ==
  ASSUME Types, NEW e \in Extensions, NEW h \in Host, NEW commands \in Seq(Commands),
         Execute(e, h, commands)
  PROVE  /\ host' \in [Extensions -> Host]
         /\ host'[e].state = h.state /\ host'[e].queued = h.queued /\ host'[e].grants = h.grants
         /\ \A o \in Extensions : o # e => host'[o] = host[o]
         /\ toHost' \in [Extensions -> Seq(FromEditor)]
         /\ toHost' = toHost \/ (Alive(e) /\ \E orders \in Seq(Orders) : Send(e, orders))
<1> DEFINE known == Cardinality({i \in DOMAIN commands : commands[i] \in h.registered})
           Id(i) == h.nextId + i - 1
           sent  == {[id |-> Id(i), method |-> "execute"] : i \in 1..known}
           orders == [i \in 1..known |-> [kind |-> "execute", id |-> Id(i)]]
           asked == IF Alive(e) THEN h.asked \cup sent ELSE h.asked
           next  == [h EXCEPT !.nextId = @ + known, !.asked = asked]
<1>1. known \in Nat
  <2>1. DOMAIN commands = 1..Len(commands) /\ Len(commands) \in Nat
    BY LenProperties
  <2>2. IsFiniteSet(DOMAIN commands)
    BY <2>1, FS_Interval
  <2>3. IsFiniteSet({i \in DOMAIN commands : commands[i] \in h.registered})
    BY <2>2, FS_Subset
  <2> QED
    BY <2>3, FS_CardinalityType
<1>2. host' = [host EXCEPT ![e] = next]
  BY DEF Execute
<1>3. IF Alive(e) THEN Send(e, orders) ELSE UNCHANGED toHost
  BY DEF Execute
<1> HIDE DEF known
<1>4. h.nextId \in Nat /\ \A i \in 1..known : Id(i) \in Nat
  BY <1>1 DEF Host
<1>5. orders \in Seq(Orders) /\ sent \subseteq [id : Nat, method : {"execute", "activate"}]
  BY <1>1, <1>4 DEF Orders
<1> HIDE DEF orders, sent
<1>6. next \in Host /\ next.state = h.state /\ next.queued = h.queued /\ next.grants = h.grants
  <2>1. asked \in SUBSET [id : Nat, method : {"execute", "activate"}] /\ h.nextId + known \in Nat
    BY <1>1, <1>4, <1>5 DEF Host
  <2> HIDE DEF asked
  <2>2. next = [h EXCEPT !.nextId = h.nextId + known, !.asked = asked]
    OBVIOUS
  <2> QED
    BY <2>1, <2>2 DEF Host
<1> HIDE DEF next
<1>7. /\ host' \in [Extensions -> Host] /\ host'[e] = next
      /\ \A o \in Extensions : o # e => host'[o] = host[o]
  BY <1>2, <1>6 DEF Types
<1>8. toHost' \in [Extensions -> Seq(FromEditor)]
  <2>1. orders \in Seq(FromEditor)
    BY <1>5, SeqMonotonic DEF FromEditor
  <2> QED
    BY <1>3, <2>1, SendTyped DEF Types
<1> QED
  BY <1>3, <1>5, <1>6, <1>7, <1>8

\* What does not concern one extension leaves what holds of it.
LEMMA Frame ==
  ASSUME AInv, NEW e \in Extensions, Types', Polls', SaidKept(e)', HostOK(e)',
         \A o \in Extensions : o # e =>
            /\ host'[o] = host[o] /\ proc'[o].phase = proc[o].phase
            /\ toHost'[o] = toHost[o] /\ toEditor'[o] = toEditor[o]
            /\ permissions'[o] = permissions[o] /\ said'[o] = said[o]
  PROVE  AInv'
<1>1. \A o \in Extensions : o # e => SaidKept(o)' /\ HostOK(o)'
  BY DEF AInv, SaidKept, HostOK
<1> QED
  BY <1>1 DEF AInv

(***************************************************************************)
(* The initial states and the user's steps.                                *)
(***************************************************************************)
LEMMA InitAInv == Init => AInv
<1> SUFFICES ASSUME Init PROVE AInv
  OBVIOUS
<1>1. Types
  BY ProcessTypes DEF Init, Types
<1>2. Polls
  BY DEF Init, Polls, NotRunning
<1>3. ASSUME NEW e \in Extensions PROVE SaidKept(e) /\ HostOK(e)
  BY ProcessTypes DEF Init, SaidKept, HostOK, NoGrants
<1> QED
  BY <1>1, <1>2, <1>3 DEF AInv

LEMMA StartTyped ==
  ASSUME Types, NEW e \in Extensions, NEW queued \in Seq(Commands), Start(e, queued)
  PROVE  /\ host' \in [Extensions -> Host] /\ host'[e].state = "starting"
         /\ host'[e].grants = permissions[e] /\ host'[e].queued = queued
         /\ proc' \in [Extensions -> Proc] /\ proc'[e].phase = "booting"
         /\ starts' \in [Extensions -> Nat]
         /\ UNCHANGED <<toHost, toEditor>>
         /\ \A o \in Extensions : o # e =>
               host'[o] = host[o] /\ proc'[o] = proc[o] /\ starts'[o] = starts[o]
<1> DEFINE h == [NotRunning EXCEPT !.state = "starting", !.queued = queued,
                                   !.grants = permissions[e]]
           p == [NoProcess EXCEPT !.phase = "booting"]
<1>1. h \in Host /\ h.state = "starting" /\ h.grants = permissions[e] /\ h.queued = queued
  BY DEF NotRunning, Host, Types
<1>2. p \in Proc /\ p.phase = "booting"
  BY ProcessTypes DEF Proc
<1>3. /\ host' = [host EXCEPT ![e] = h] /\ proc' = [proc EXCEPT ![e] = p]
      /\ starts' = [starts EXCEPT ![e] = @ + 1] /\ UNCHANGED <<toHost, toEditor>>
  BY DEF Start
<1> HIDE DEF h, p
<1> QED
  BY <1>1, <1>2, <1>3 DEF Types

LEMMA RunCommandA ==
  ASSUME AInv, NEW c \in Commands, RunCommand(c)
  PROVE  AInv'
<1> DEFINE e == OwnerOf[c]
           h == host[e]
<1>1. e \in Extensions /\ Types /\ h \in Host /\ Polls /\ HostOK(e) /\ SaidKept(e)
  BY ExtensionsAssumption DEF AInv, Types
<1>2. /\ Idle /\ invoked' = invoked + 1
      /\ UNCHANGED <<asking, permissions, prompt, said, turn, drain>>
      /\ \/ /\ h.state = "active" /\ Execute(e, h, <<c>>)
            /\ UNCHANGED <<proc, toEditor, starts>>
         \/ /\ h.state \in {"starting", "activating"}
            /\ host' = [host EXCEPT ![e].queued = Append(@, c)]
            /\ UNCHANGED <<proc, toHost, toEditor, starts>>
         \/ h.state = "none" /\ Start(e, <<c>>)
  BY DEF RunCommand, pollVars, procVars
<1>3. <<c>> \in Seq(Commands) /\ Append(h.queued, c) \in Seq(Commands)
  BY <1>1, AppendProperties DEF Host
<1> HIDE DEF e
<1>4. /\ invoked' \in Nat /\ turn' = turn /\ turn = {} /\ drain' = drain
  BY <1>1, <1>2 DEF Types, Idle
<1>5. CASE h.state = "active" /\ Execute(e, h, <<c>>) /\ UNCHANGED <<proc, toEditor, starts>>
  <2>1. /\ host' \in [Extensions -> Host]
        /\ host'[e].state = h.state /\ host'[e].queued = h.queued /\ host'[e].grants = h.grants
        /\ \A o \in Extensions : o # e => host'[o] = host[o]
        /\ toHost' \in [Extensions -> Seq(FromEditor)]
        /\ toHost' = toHost \/ \E orders \in Seq(Orders) : Send(e, orders)
    BY <1>1, <1>3, <1>5, ExecuteTyped
  <2>2. \A o \in Extensions : o # e => toHost'[o] = toHost[o]
    BY <1>1, <2>1 DEF Send, Types
  <2>3. Types' /\ Polls'
    BY <1>1, <1>2, <1>4, <1>5, <2>1 DEF Types, Polls, Running, Idle
  <2>4. SaidKept(e)' /\ HostOK(e)'
    BY <1>1, <1>2, <1>5, <2>1 DEF SaidKept, HostOK
  <2> QED
    BY <1>1, <1>2, <1>5, <2>1, <2>2, <2>3, <2>4, Frame
<1>6. CASE /\ h.state \in {"starting", "activating"}
           /\ host' = [host EXCEPT ![e].queued = Append(@, c)]
           /\ UNCHANGED <<proc, toHost, toEditor, starts>>
  <2>1. /\ host' \in [Extensions -> Host]
        /\ host'[e].state = h.state /\ host'[e].grants = h.grants
        /\ \A o \in Extensions : o # e => host'[o] = host[o]
    BY <1>1, <1>3, <1>6 DEF Types, Host
  <2>2. Types' /\ Polls'
    BY <1>1, <1>2, <1>4, <1>6, <2>1 DEF Types, Polls, Running, Idle
  <2>3. SaidKept(e)' /\ HostOK(e)'
    BY <1>1, <1>2, <1>6, <2>1 DEF SaidKept, HostOK
  <2> QED
    BY <1>1, <1>2, <1>6, <2>1, <2>2, <2>3, Frame
<1>7. CASE h.state = "none" /\ Start(e, <<c>>)
  <2>1. /\ host' \in [Extensions -> Host] /\ host'[e].state = "starting"
        /\ host'[e].grants = permissions[e]
        /\ proc' \in [Extensions -> Proc] /\ proc'[e].phase = "booting"
        /\ starts' \in [Extensions -> Nat]
        /\ UNCHANGED <<toHost, toEditor>>
        /\ \A o \in Extensions : o # e => host'[o] = host[o] /\ proc'[o] = proc[o]
    BY <1>1, <1>3, <1>7, StartTyped
  <2>2. Types' /\ Polls'
    <3>1. Polls'
      BY <1>1, <1>2, <1>4, <1>7, <2>1 DEF Polls, Idle
    <3>2. Types'
      BY <1>1, <1>2, <1>4, <1>7, <2>1 DEF Types
    <3> QED
      BY <3>1, <3>2
  <2>3. SaidKept(e)' /\ HostOK(e)'
    BY <1>1, <1>2, <1>7, <2>1 DEF SaidKept, HostOK, Types, Grant
  <2> QED
    BY <1>1, <1>2, <1>7, <2>1, <2>2, <2>3, Frame
<1> QED
  BY <1>2, <1>5, <1>6, <1>7 DEF e

LEMMA ForgetA ==
  ASSUME AInv, NEW e \in Extensions, NEW c \in Capabilities, ForgetPermission(e, c)
  PROVE  AInv'
<1>1. Types /\ Polls /\ HostOK(e) /\ SaidKept(e)
  BY DEF AInv
<1>2. /\ Idle /\ e \in Running /\ prompt' = "none"
      /\ host' = [host EXCEPT ![e].grants = Forget(@, c)]
      /\ permissions' = [permissions EXCEPT ![e] = Forget(@, c)]
      /\ said' = [said EXCEPT ![e][c] = "nothing"]
      /\ UNCHANGED <<asking, invoked, turn, drain, proc, toHost, toEditor, starts>>
  BY DEF ForgetPermission, pollVars, procVars
<1>3. \A g \in Grant : /\ Forget(g, c) \in Grant
                       /\ Forget(g, c).allowed = g.allowed \ {c}
                       /\ Forget(g, c).denied = g.denied \ {c}
  BY DEF Forget, Grant
<1>4. host[e] \in Host /\ host[e].grants \in Grant /\ permissions[e] \in Grant
  BY <1>1 DEF Types, Host
<1>5. /\ host' \in [Extensions -> Host] /\ permissions' \in [Extensions -> Grant]
      /\ host'[e].state = host[e].state /\ host'[e].grants = Forget(host[e].grants, c)
      /\ permissions'[e] = Forget(permissions[e], c) /\ host'[e].queued = host[e].queued
      /\ said'[e] = [said[e] EXCEPT ![c] = "nothing"]
      /\ said' \in [Extensions -> [Capabilities -> {"nothing", "yes", "no"}]]
      /\ \A o \in Extensions : o # e => /\ host'[o] = host[o] /\ permissions'[o] = permissions[o]
                                       /\ said'[o] = said[o]
  BY <1>1, <1>2, <1>3, <1>4 DEF Types, Host
<1>6. Types' /\ Polls'
  BY <1>1, <1>2, <1>5 DEF Types, Polls, Running, Idle
<1>7. HostOK(e)'
  BY <1>1, <1>2, <1>3, <1>4, <1>5 DEF HostOK
<1>8. SaidKept(e)'
  <2>1. said[e] \in [Capabilities -> {"nothing", "yes", "no"}]
    BY <1>1 DEF Types
  <2> QED
    BY <1>1, <1>3, <1>4, <1>5, <2>1 DEF SaidKept
<1> QED
  BY <1>2, <1>5, <1>6, <1>7, <1>8, Frame

\* A question is answered by a reply of the request's own process.
LEMMA RepliesTyped ==
  ASSUME NEW request \in Requests
  PROVE  /\ Served(request) \in Replies /\ Refusal(request) \in Replies
         /\ <<Served(request)>> \in Seq(FromEditor) /\ <<Refusal(request)>> \in Seq(FromEditor)
         /\ Served(request).used = Range(request.needs) /\ Refusal(request).used = {}
<1>1. request.needs \in Seq(Capabilities) /\ request.from \in Starts /\ request.id \in Nat
  BY DEF Requests
<1>2. Range(request.needs) \in SUBSET Capabilities
  BY <1>1 DEF Range
<1> QED
  BY <1>1, <1>2 DEF Served, Refusal, Reply, Replies, FromEditor

LEMMA RememberKeeps ==
  ASSUME NEW g \in Grant, NEW c \in Capabilities, NEW allow \in BOOLEAN,
         g.allowed \cap g.denied = {}
  PROVE  /\ Remember(g, c, allow) \in Grant
         /\ Remember(g, c, allow).allowed \cap Remember(g, c, allow).denied = {}
         /\ \A d \in Capabilities : d # c =>
               /\ d \in Remember(g, c, allow).allowed <=> d \in g.allowed
               /\ d \in Remember(g, c, allow).denied <=> d \in g.denied
         /\ c \in Remember(g, c, allow).allowed <=> allow
         /\ c \in Remember(g, c, allow).denied <=> ~allow
<1>1. CASE allow
  BY <1>1 DEF Remember, Grant
<1>2. CASE ~allow
  BY <1>2 DEF Remember, Grant
<1> QED
  BY <1>1, <1>2

LEMMA AnswerConsentA ==
  ASSUME AInv, NEW allow \in BOOLEAN, AnswerConsent(allow)
  PROVE  AInv'
<1>0. PICK e \in Extensions : asking \in Question /\ e = asking.ext
  BY DEF AnswerConsent, AInv, Types, Question
<1> DEFINE q == asking
           grants == Remember(host[e].grants, q.capability, allow)
           h == [host[e] EXCEPT !.grants = grants]
           next == FirstAsked(e, h, q.request)
           again == /\ allow /\ Consent(e, h, q.request) /\ next # q.capability
           reply == IF Allowed(e, h, q.request) THEN Served(q.request) ELSE Refusal(q.request)
<1>1. Types /\ Polls /\ q \in Question
  BY <1>0 DEF AInv
<1>2. HostOK(e) /\ SaidKept(e) /\ host[e] \in Host /\ host[e].grants \in Grant
      /\ q.capability \in Capabilities /\ q.request \in Requests
      /\ q.request.needs \in Seq(Capabilities)
  BY <1>0, <1>1 DEF AInv, Types, Host, Question, Requests
<1>3. /\ Idle /\ prompt' \in {"none", "consent"}
      /\ UNCHANGED <<invoked, turn, drain, starts>>
  BY DEF AnswerConsent, pollVars
<1>4. \/ /\ e \notin Running /\ asking' = NoQuestion
         /\ UNCHANGED <<host, permissions, said, proc, toHost, toEditor>>
      \/ /\ e \in Running
         /\ permissions' = [permissions EXCEPT ![e] = h.grants]
         /\ said' = [said EXCEPT ![e][q.capability] = IF allow THEN "yes" ELSE "no"]
         /\ asking' = IF again THEN [q EXCEPT !.capability = next] ELSE NoQuestion
         /\ \/ /\ host' = [host EXCEPT ![e] = h]
               /\ toHost' = toHost \/ Send(e, <<reply>>)
               /\ UNCHANGED <<proc, toEditor>>
            \/ Stop(e)
  BY <1>0 DEF AnswerConsent, procVars
<1>5. /\ grants \in Grant /\ grants.allowed \cap grants.denied = {}
      /\ \A d \in Capabilities : d # q.capability =>
            /\ d \in grants.allowed <=> d \in host[e].grants.allowed
            /\ d \in grants.denied <=> d \in host[e].grants.denied
      /\ q.capability \in grants.allowed <=> allow
      /\ q.capability \in grants.denied <=> ~allow
  BY <1>2, RememberKeeps DEF HostOK
<1> HIDE DEF grants
<1>6. h \in Host /\ h.state = host[e].state /\ h.queued = host[e].queued /\ h.grants = grants
  BY <1>2, <1>5 DEF Host
<1>7. reply \in Replies /\ <<reply>> \in Seq(FromEditor)
  BY <1>2, RepliesTyped
<1>8. asking' \in Question \cup {NoQuestion}
  <2>1. again => next \in Capabilities
    <3>1. again => Undecided(e, h, q.request) # {}
      BY DEF Consent
    <3> QED
      BY <1>2, <3>1, FirstAskedNeeded
  <2> HIDE DEF again, next
  <2>2. again => [q EXCEPT !.capability = next] \in Question
    BY <1>1, <2>1 DEF Question
  <2> QED
    BY <1>4, <2>2
<1> HIDE DEF h, again, reply, next
<1>9. CASE e \notin Running
  <2>1. UNCHANGED <<host, permissions, said, proc, toHost, toEditor>>
    BY <1>4, <1>9
  <2>2. Types' /\ Polls'
    BY <1>1, <1>3, <1>8, <2>1 DEF Types, Polls, Running, Idle
  <2>3. SaidKept(e)' /\ HostOK(e)'
    BY <1>1, <1>2, <2>1 DEF SaidKept, HostOK
  <2> QED
    BY <1>1, <2>1, <2>2, <2>3, Frame
<1>10. CASE e \in Running
  <2> DEFINE word == IF allow THEN "yes" ELSE "no"
             saidOf == [said[e] EXCEPT ![q.capability] = word]
  <2>0. /\ said[e] \in [Capabilities -> {"nothing", "yes", "no"}]
        /\ saidOf \in [Capabilities -> {"nothing", "yes", "no"}]
        /\ saidOf[q.capability] = word
        /\ \A d \in Capabilities : d # q.capability => saidOf[d] = said[e][d]
    BY <1>1, <1>2 DEF Types
  <2>a. said' = [said EXCEPT ![e] = saidOf] /\ permissions' = [permissions EXCEPT ![e] = grants]
    BY <1>4, <1>6, <1>10
  <2>b. (word = "yes" <=> allow) /\ (word = "no" <=> ~allow)
    OBVIOUS
  <2> HIDE DEF saidOf, word
  <2>1. /\ permissions' \in [Extensions -> Grant] /\ permissions'[e] = grants
        /\ said' \in [Extensions -> [Capabilities -> {"nothing", "yes", "no"}]]
        /\ said'[e] = saidOf
        /\ \A o \in Extensions : o # e => permissions'[o] = permissions[o] /\ said'[o] = said[o]
    BY <1>1, <1>5, <2>0, <2>a DEF Types
  <2>2. SaidKept(e)'
    <3>2. host[e].grants = permissions[e]
      BY <1>2, <1>10 DEF HostOK, Running
    <3>3. ASSUME NEW d \in Capabilities
          PROVE  /\ d \in grants.allowed <=> saidOf[d] = "yes"
                 /\ d \in grants.denied <=> saidOf[d] = "no"
      <4>1. CASE d = q.capability
        BY <1>5, <2>0, <2>b, <4>1, Zenon
      <4>2. CASE d # q.capability
        BY <1>5, <2>0, <3>2, <1>2, <4>2 DEF SaidKept
      <4> QED
        BY <4>1, <4>2
    <3> QED
      BY <2>1, <3>3 DEF SaidKept
  <2>3. CASE /\ host' = [host EXCEPT ![e] = h]
             /\ toHost' = toHost \/ Send(e, <<reply>>)
             /\ UNCHANGED <<proc, toEditor>>
    <3>1. /\ host' \in [Extensions -> Host] /\ host'[e] = h
          /\ \A o \in Extensions : o # e => host'[o] = host[o]
      BY <1>1, <1>6, <2>3 DEF Types
    <3>2. /\ toHost' \in [Extensions -> Seq(FromEditor)]
          /\ \A o \in Extensions : o # e => toHost'[o] = toHost[o]
      BY <1>1, <1>7, <2>3, SendTyped DEF Types
    <3>3. Types' /\ Polls'
      <4>1. turn' \subseteq Running'
        BY <1>1, <1>3, <1>6, <3>1 DEF Types, Running
      <4>2. Polls'
        BY <1>1, <1>3, <1>6, <3>1 DEF Polls, Idle
      <4> QED
        BY <1>1, <1>3, <1>8, <2>1, <2>3, <3>1, <3>2, <4>1, <4>2 DEF Types
    <3>4. HostOK(e)'
      BY <1>2, <1>5, <1>6, <1>10, <2>1, <2>3, <3>1 DEF HostOK, Running
    <3> QED
      BY <1>1, <2>1, <2>2, <2>3, <3>1, <3>2, <3>3, <3>4, Frame
  <2>4. CASE Stop(e)
    <3>1. /\ host' \in [Extensions -> Host] /\ host'[e] = NotRunning
          /\ proc' \in [Extensions -> Proc] /\ proc'[e] = NoProcess
          /\ toHost' \in [Extensions -> Seq(FromEditor)] /\ toHost'[e] = <<>>
          /\ toEditor' \in [Extensions -> Seq(FromHost)] /\ toEditor'[e] = <<>>
          /\ \A o \in Extensions : o # e =>
                /\ host'[o] = host[o] /\ proc'[o] = proc[o]
                /\ toHost'[o] = toHost[o] /\ toEditor'[o] = toEditor[o]
      BY <1>1, <2>4, StopTyped
    <3>2. Types' /\ Polls'
      <4>1. turn' = {} /\ turn = {}
        BY <1>3 DEF Idle
      <4>2. Polls'
        BY <1>1, <1>3, <4>1, <3>1, ProcessTypes DEF Polls, Idle
      <4> QED
        BY <1>1, <1>3, <1>8, <2>1, <3>1, <4>1, <4>2 DEF Types
    <3>3. HostOK(e)'
      BY <3>1, ProcessTypes DEF HostOK, NoGrants
    <3> QED
      BY <1>1, <2>1, <2>2, <3>1, <3>2, <3>3, Frame
  <2> QED
    BY <1>4, <1>10, <2>3, <2>4
<1> QED
  BY <1>9, <1>10

LEMMA ClosePromptA ==
  ASSUME AInv, ClosePrompt
  PROVE  AInv'
BY DEF AInv, ClosePrompt, pollVars, procVars, Types, Polls, SaidKept, HostOK, Running, Idle

LEMMA PollA ==
  ASSUME AInv, Poll
  PROVE  AInv'
<1>1. /\ turn = {} /\ turn' = Running /\ drain' = NewDrain /\ Running # {}
      /\ UNCHANGED <<host, asking, permissions, prompt, invoked, said, proc, toHost,
                     toEditor, starts>>
  BY DEF Poll, Idle, editorVars, procVars
<1>2. Types'
  BY <1>1, ProcessTypes DEF AInv, Types, Running
<1>3. Polls'
  BY <1>1 DEF AInv, Polls, Idle
<1>4. \A e \in Extensions : SaidKept(e)' /\ HostOK(e)'
  BY <1>1 DEF AInv, SaidKept, HostOK
<1> QED
  BY <1>2, <1>3, <1>4 DEF AInv

(***************************************************************************)
(* The steps of a poll.                                                    *)
(***************************************************************************)
Drains == [handled : Nat, pending : Question \cup {NoQuestion}, dead : BOOLEAN]

LEMMA NextEventTyped ==
  ASSUME AInv, NEW e \in Extensions, NextEvent(e)
  PROVE  /\ e \in turn /\ e \in Running /\ toEditor[e] # <<>> /\ Polled(e)
         /\ Head(toEditor[e]) \in FromHost
         /\ toEditor' \in [Extensions -> Seq(FromHost)]
         /\ toEditor'[e] = Tail(toEditor[e])
         /\ \A o \in Extensions : o # e => toEditor'[o] = toEditor[o]
<1>1. /\ toEditor \in [Extensions -> Seq(FromHost)] /\ turn \subseteq Running
      /\ toEditor[e] \in Seq(FromHost)
  BY DEF AInv, Types
<1>2. /\ e \in turn /\ toEditor[e] # <<>> /\ Polled(e)
      /\ toEditor' = [toEditor EXCEPT ![e] = Tail(@)]
  BY DEF NextEvent, Polled, Drained
<1>3. Head(toEditor[e]) \in FromHost /\ Tail(toEditor[e]) \in Seq(FromHost)
  BY <1>1, <1>2, HeadTail
<1> QED
  BY <1>1, <1>2, <1>3

\* An event that leaves the host running, with its decisions.
LEMMA HandledA ==
  ASSUME AInv, NEW e \in Extensions, NextEvent(e), drain' \in Drains,
         host' \in [Extensions -> Host], host'[e].state # "none",
         host'[e].grants = host[e].grants, toHost' \in [Extensions -> Seq(FromEditor)],
         \A o \in Extensions : o # e => host'[o] = host[o] /\ toHost'[o] = toHost[o]
  PROVE  AInv'
<1>1. /\ e \in turn /\ e \in Running
      /\ toEditor' \in [Extensions -> Seq(FromHost)]
      /\ \A o \in Extensions : o # e => toEditor'[o] = toEditor[o]
  BY NextEventTyped
<1>2. UNCHANGED <<asking, permissions, prompt, invoked, said, turn, proc, starts>>
  BY DEF NextEvent
<1>3. Types'
  <2>1. turn' \subseteq Running'
    BY <1>2 DEF AInv, Types, Running
  <2> QED
    BY <1>1, <1>2, <2>1 DEF AInv, Types, Drains
<1>4. Polls'
  BY <1>1, <1>2 DEF AInv, Polls, Idle
<1>5. SaidKept(e)' /\ HostOK(e)'
  <2>1. SaidKept(e) /\ HostOK(e)
    BY DEF AInv
  <2>2. SaidKept(e)'
    BY <1>2, <2>1 DEF SaidKept
  <2> QED
    BY <1>1, <1>2, <2>1, <2>2 DEF HostOK, Running
<1> QED
  BY <1>1, <1>2, <1>3, <1>4, <1>5, Frame

LEMMA AnswerTyped ==
  ASSUME Types, NEW e \in Extensions, NEW reply \in Replies, Answer(e, reply)
  PROVE  /\ drain' \in Drains /\ toHost' \in [Extensions -> Seq(FromEditor)]
         /\ drain'.pending = drain.pending
         /\ \A o \in Extensions : o # e => toHost'[o] = toHost[o]
         /\ \/ ~Alive(e) /\ toHost' = toHost
            \/ Alive(e) /\ toHost'[e] = Append(toHost[e], reply)
<1>1. drain \in Drains /\ toHost \in [Extensions -> Seq(FromEditor)] /\ toHost[e] \in Seq(FromEditor)
  BY DEF Types, Drains
<1>2. CASE Alive(e)
  <2>1. Send(e, <<reply>>) /\ Handled
    BY <1>2 DEF Answer
  <2>2. drain.handled + 1 \in Nat
    BY <1>1 DEF Drains
  <2>3. drain' \in Drains /\ drain'.pending = drain.pending
    BY <1>1, <2>1, <2>2 DEF Handled, Drains
  <2>4. <<reply>> \in Seq(FromEditor) /\ reply \in FromEditor
    BY DEF FromEditor
  <2>5. toHost[e] \o <<reply>> = Append(toHost[e], reply)
    BY <1>1, <2>4, AppendIsConcat
  <2> QED
    BY <1>2, <2>1, <2>3, <2>4, <2>5, SendTyped
<1>3. CASE ~Alive(e)
  <2>1. drain' = [drain EXCEPT !.dead = TRUE] /\ UNCHANGED toHost
    BY <1>3 DEF Answer
  <2> QED
    BY <1>1, <1>3, <2>1 DEF Drains
<1> QED
  BY <1>2, <1>3

LEMMA HandledTyped ==
  ASSUME Types, Handled
  PROVE  drain' \in Drains /\ drain'.pending = drain.pending
<1>1. drain \in Drains /\ drain.handled + 1 \in Nat
  BY DEF Types, Drains
<1> QED
  BY <1>1 DEF Handled, Drains

LEMMA HeldHost ==
  ASSUME AInv, NEW e \in Extensions, NextEvent(e)
  PROVE  /\ host \in [Extensions -> Host] /\ host[e] \in Host /\ host[e].state # "none"
         /\ toHost \in [Extensions -> Seq(FromEditor)] /\ Types
         /\ Head(toEditor[e]).kind = "request" => Head(toEditor[e]) \in Requests
<1>1. e \in Running /\ Head(toEditor[e]) \in FromHost
  BY NextEventTyped
<1>2. Head(toEditor[e]).kind = "request" => Head(toEditor[e]) \in Requests
  BY <1>1 DEF FromHost, Requests, Notices, Answered
<1> QED
  BY <1>1, <1>2 DEF AInv, Types, Running

LEMMA HandleA ==
  ASSUME AInv, NEW e \in Extensions, Handle(e)
  PROVE  AInv'
<1> DEFINE m == Head(toEditor[e])
<1>1. NextEvent(e)
  BY DEF Handle, HandleRefused, HandleAllowed, HandleConsent, HandleResponse, HandleReady,
         HandleLog, HandleClosed
<1>2. /\ host \in [Extensions -> Host] /\ host[e] \in Host /\ host[e].state # "none"
      /\ toHost \in [Extensions -> Seq(FromEditor)] /\ Types
      /\ m.kind = "request" => m \in Requests
  BY <1>1, HeldHost
<1> HIDE DEF m
<1>3. CASE HandleRefused(e)
  <2>1. m.kind = "request" /\ Answer(e, Refusal(m)) /\ UNCHANGED host
    BY <1>3 DEF HandleRefused, m
  <2>2. Refusal(m) \in Replies
    BY <1>2, <2>1, RepliesTyped
  <2> QED
    BY <1>1, <1>2, <2>1, <2>2, AnswerTyped, HandledA
<1>4. CASE HandleAllowed(e)
  <2>1. /\ m.kind = "request" /\ Answer(e, Served(m))
        /\ host' = IF m.method \in Commands
                   THEN [host EXCEPT ![e].registered = @ \cup {m.method}] ELSE host
    BY <1>4 DEF HandleAllowed, m
  <2>2. Served(m) \in Replies
    BY <1>2, <2>1, RepliesTyped
  <2>3. /\ host' \in [Extensions -> Host] /\ host'[e].state = host[e].state
        /\ host'[e].grants = host[e].grants
        /\ \A o \in Extensions : o # e => host'[o] = host[o]
    BY <1>2, <2>1 DEF Host
  <2> QED
    BY <1>1, <1>2, <2>1, <2>2, <2>3, AnswerTyped, HandledA
<1>5. CASE HandleConsent(e)
  <2> DEFINE first == FirstAsked(e, host[e], m)
  <2>1. /\ m.kind = "request" /\ Consent(e, host[e], m) /\ UNCHANGED host
        /\ IF NothingHeld
           THEN /\ drain' = [handled |-> drain.handled + 1, dead |-> FALSE,
                             pending |-> [ext |-> e, request |-> m, capability |-> first]]
                /\ UNCHANGED toHost
           ELSE Decline(e, m)
    BY <1>5 DEF HandleConsent, m
  <2>2. m \in Requests /\ Refusal(m) \in Replies
    BY <1>2, <2>1, RepliesTyped
  <2>3. first \in Capabilities
    BY <2>1, <2>2, FirstAskedNeeded DEF Consent, Requests
  <2> HIDE DEF first
  <2>4. CASE NothingHeld
    <3>1. drain.handled + 1 \in Nat
      BY <1>2 DEF Types
    <3> DEFINE q == [ext |-> e, request |-> m, capability |-> first]
    <3>2. q \in Question
      BY <2>2, <2>3 DEF Question
    <3> HIDE DEF q
    <3>3. drain' \in Drains
      <4>1. drain' = [handled |-> drain.handled + 1, dead |-> FALSE, pending |-> q]
        BY <2>1, <2>4 DEF q
      <4> QED
        BY <3>1, <3>2, <4>1 DEF Drains
    <3> QED
      BY <1>1, <1>2, <2>1, <2>4, <3>3, HandledA
  <2>5. CASE ~NothingHeld
    BY <1>1, <1>2, <2>1, <2>2, <2>5, AnswerTyped, HandledA DEF Decline
  <2> QED
    BY <2>4, <2>5
<1>6. CASE HandleResponse(e)
  <2> DEFINE asked == {a \in host[e].asked : a.id = m.id}
             state == IF m.ok /\ \E a \in asked : a.method = "activate"
                      THEN "active" ELSE host[e].state
             left  == host[e].asked \ asked
             h     == [host[e] EXCEPT !.asked = left, !.state = state]
  <2>1. /\ Handled /\ host' = [host EXCEPT ![e] = h] /\ UNCHANGED toHost
    BY <1>2, <1>6 DEF HandleResponse, m
  <2>2. /\ left \in SUBSET [id : Nat, method : {"execute", "activate"}]
        /\ state \in {"starting", "activating", "active"}
    BY <1>2 DEF Host
  <2> HIDE DEF asked, state, left
  <2>3. h \in Host /\ h.state # "none" /\ h.grants = host[e].grants
    BY <1>2, <2>2 DEF Host
  <2> HIDE DEF h
  <2> QED
    BY <1>1, <1>2, <2>1, <2>3, HandledTyped, HandledA
<1>7. CASE HandleReady(e)
  <2>1. Handled /\ host' = [host EXCEPT ![e].state = "activating"] /\ UNCHANGED toHost
    BY <1>7 DEF HandleReady
  <2>2. /\ host' \in [Extensions -> Host] /\ host'[e].state = "activating"
        /\ host'[e].grants = host[e].grants
        /\ \A o \in Extensions : o # e => host'[o] = host[o]
    BY <1>2, <2>1 DEF Host
  <2> QED
    BY <1>1, <1>2, <2>1, <2>2, HandledTyped, HandledA
<1>8. CASE HandleLog(e)
  BY <1>1, <1>2, <1>8, HandledTyped, HandledA DEF HandleLog
<1>9. CASE HandleClosed(e)
  <2>1. drain' = [drain EXCEPT !.dead = TRUE] /\ UNCHANGED <<host, toHost>>
    BY <1>9 DEF HandleClosed
  <2>2. drain' \in Drains
    BY <1>2, <2>1 DEF Types, Drains
  <2> QED
    BY <1>1, <1>2, <2>1, <2>2, HandledA
<1> QED
  BY <1>3, <1>4, <1>5, <1>6, <1>7, <1>8, <1>9 DEF Handle

\* The end of a host's turn: it is stopped, or left with nothing queued.
LEMMA TurnEndsA ==
  ASSUME AInv, NEW e \in Extensions, AfterDrain(e),
         asking' \in Question \cup {NoQuestion}, prompt' \in {"none", "consent"},
         \/ Stop(e)
         \/ /\ UNCHANGED <<proc, toEditor>>
            /\ host' \in [Extensions -> Host] /\ host'[e].state = host[e].state
            /\ host'[e].grants = host[e].grants
            /\ host'[e].state = "active" => host'[e].queued = <<>>
            /\ toHost' \in [Extensions -> Seq(FromEditor)]
            /\ \A o \in Extensions : o # e => host'[o] = host[o] /\ toHost'[o] = toHost[o]
  PROVE  AInv'
<1>1. /\ e \in turn /\ turn' = turn \ {e} /\ drain' = NewDrain
      /\ UNCHANGED <<permissions, invoked, said, starts>>
  BY DEF AfterDrain, Polled
<1>2. /\ Types /\ Polls /\ SaidKept(e) /\ HostOK(e)
  BY DEF AInv
<1>3. host[e].state # "none"
  BY <1>1, <1>2 DEF Types, Running
<1>4. /\ host' \in [Extensions -> Host] /\ proc' \in [Extensions -> Proc]
      /\ toHost' \in [Extensions -> Seq(FromEditor)]
      /\ toEditor' \in [Extensions -> Seq(FromHost)]
      /\ host'[e].state = "active" => host'[e].queued = <<>>
      /\ \A o \in Extensions : o # e =>
            /\ host'[o] = host[o] /\ proc'[o] = proc[o]
            /\ toHost'[o] = toHost[o] /\ toEditor'[o] = toEditor[o]
  BY <1>2, StopTyped, ProcessTypes DEF Types
<1>5. HostOK(e)'
  <2>1. CASE Stop(e)
    BY <1>2, <2>1, StopTyped, ProcessTypes DEF HostOK, NoGrants
  <2>2. CASE ~Stop(e)
    BY <1>1, <1>2, <1>3, <2>2 DEF HostOK
  <2> QED
    BY <2>1, <2>2
<1>6. SaidKept(e)'
  BY <1>1, <1>2 DEF SaidKept
<1>7. Polls'
  <2>1. Idle' => drain' = NewDrain'
    BY <1>1 DEF NewDrain, NoQuestion
  <2>2. \A o \in Extensions \ turn' : host'[o].state = "active" => host'[o].queued = <<>>
    BY <1>1, <1>2, <1>4 DEF Polls
  <2> QED
    BY <2>1, <2>2 DEF Polls
<1>8. Types'
  <2>1. turn' \subseteq Running'
    BY <1>1, <1>2, <1>4 DEF Types, Running
  <2>2. drain' \in Drains
    BY <1>1, ProcessTypes DEF Drains
  <2> QED
    BY <1>1, <1>2, <1>4, <2>1, <2>2 DEF Types, Drains
<1> QED
  BY <1>1, <1>4, <1>5, <1>6, <1>7, <1>8, Frame

LEMMA FinishA ==
  ASSUME AInv, NEW e \in Extensions, Finish(e)
  PROVE  AInv'
<1>1. Types /\ AfterDrain(e) /\ host[e] \in Host
  BY DEF Finish, DropDead, TimeOut, Activate, RunQueued, AInv, Types
<1>2. AskPending => asking' \in Question \cup {NoQuestion} /\ prompt' \in {"none", "consent"}
  BY <1>1 DEF AskPending, Types
<1>3. CASE DropDead(e) \/ TimeOut(e)
  BY <1>1, <1>3, TurnEndsA DEF DropDead, TimeOut, Types
<1>4. CASE Activate(e)
  <2> DEFINE n == host[e].nextId
             asked == {[id |-> n, method |-> "activate"]}
             order == [kind |-> "activate", id |-> n]
             h == [host[e] EXCEPT !.nextId = n + 1, !.asked = asked]
  <2>1. /\ AskPending /\ host[e].state = "activating"
        /\ host' = [host EXCEPT ![e] = h] /\ Send(e, <<order>>)
        /\ UNCHANGED <<proc, toEditor>>
    BY <1>1, <1>4 DEF Activate, ActivationDue, Types
  <2>2. /\ n \in Nat /\ n + 1 \in Nat /\ asked \in SUBSET [id : Nat, method : {"execute", "activate"}]
        /\ <<order>> \in Seq(FromEditor)
    BY <1>1 DEF Host, FromEditor, Orders
  <2> HIDE DEF asked, n, order
  <2>3. h \in Host /\ h.state = host[e].state /\ h.grants = host[e].grants
    BY <1>1, <2>2 DEF Host
  <2> HIDE DEF h
  <2>4. /\ host' \in [Extensions -> Host] /\ host'[e] = h
        /\ \A o \in Extensions : o # e => host'[o] = host[o]
    BY <1>1, <2>1, <2>3 DEF Types
  <2> QED
    BY <1>1, <1>2, <2>1, <2>2, <2>3, <2>4, SendTyped, TurnEndsA
<1>5. CASE RunQueued(e)
  <2>1. AskPending /\ UNCHANGED <<proc, toEditor>>
    BY <1>5 DEF RunQueued
  <2>2. CASE host[e].state = "active"
    <3> DEFINE h == [host[e] EXCEPT !.queued = <<>>]
    <3>1. Execute(e, h, host[e].queued) /\ host[e].queued \in Seq(Commands)
      BY <1>1, <1>5, <2>2 DEF RunQueued, MayRun, Host
    <3>2. h \in Host /\ h.state = host[e].state /\ h.grants = host[e].grants /\ h.queued = <<>>
      BY <1>1, ProcessTypes DEF Host
    <3> HIDE DEF h
    <3>3. /\ host' \in [Extensions -> Host]
          /\ host'[e].state = h.state /\ host'[e].queued = h.queued /\ host'[e].grants = h.grants
          /\ \A o \in Extensions : o # e => host'[o] = host[o]
          /\ toHost' \in [Extensions -> Seq(FromEditor)]
          /\ toHost' = toHost \/ \E orders \in Seq(Orders) : Send(e, orders)
      BY <1>1, <3>1, <3>2, ExecuteTyped
    <3>4. \A o \in Extensions : o # e => toHost'[o] = toHost[o]
      BY <1>1, <3>3 DEF Send, Types
    <3> QED
      BY <1>1, <1>2, <2>1, <3>2, <3>3, <3>4, TurnEndsA
  <2>3. CASE host[e].state # "active"
    <3>1. UNCHANGED <<host, toHost>>
      BY <1>5, <2>3 DEF RunQueued, MayRun
    <3> QED
      BY <1>1, <1>2, <2>1, <2>3, <3>1, TurnEndsA DEF Types
  <2> QED
    BY <2>2, <2>3
<1> QED
  BY <1>3, <1>4, <1>5 DEF Finish

(***************************************************************************)
(* The steps of the host processes.                                        *)
(***************************************************************************)
\* A process that was started stays so, whatever becomes of it.
LEMMA ProcessStepA ==
  ASSUME AInv, NEW e \in Extensions, UNCHANGED <<editorVars, pollVars, starts>>,
         proc[e].phase # "none", proc' \in [Extensions -> Proc], proc'[e].phase # "none",
         toHost' \in [Extensions -> Seq(FromEditor)],
         toEditor' \in [Extensions -> Seq(FromHost)],
         \A o \in Extensions : o # e =>
            /\ proc'[o] = proc[o] /\ toHost'[o] = toHost[o] /\ toEditor'[o] = toEditor[o]
  PROVE  AInv'
<1>1. UNCHANGED <<host, asking, permissions, prompt, invoked, said, turn, drain, starts>>
  BY DEF editorVars, pollVars
<1>2. Types' /\ Polls'
  BY <1>1 DEF AInv, Types, Polls, Running, Idle
<1>3. SaidKept(e)' /\ HostOK(e)'
  BY <1>1 DEF AInv, SaidKept, HostOK
<1> QED
  BY <1>1, <1>2, <1>3, Frame

LEMMA ProcessA ==
  ASSUME AInv, NEW e \in Extensions, Process(e)
  PROVE  AInv'
<1> DEFINE p == proc[e]
           m == Head(toHost[e])
<1>1. /\ Types /\ p \in Proc /\ toHost \in [Extensions -> Seq(FromEditor)]
      /\ toEditor \in [Extensions -> Seq(FromHost)] /\ proc \in [Extensions -> Proc]
      /\ toHost[e] \in Seq(FromEditor)
  BY DEF AInv, Types
<1>2. CASE Boot(e)
  <2>1. /\ p.phase = "booting" /\ proc' = [proc EXCEPT ![e].phase = "ready"]
        /\ Emit(e, [kind |-> "ready"]) /\ UNCHANGED <<editorVars, pollVars, toHost, starts>>
    BY <1>2 DEF Boot
  <2>2. [kind |-> "ready"] \in FromHost
    BY DEF FromHost, Notices
  <2>3. /\ proc' \in [Extensions -> Proc] /\ proc'[e].phase = "ready"
        /\ \A o \in Extensions : o # e => proc'[o] = proc[o]
    BY <1>1, <2>1 DEF Proc
  <2> QED
    BY <1>1, <2>1, <2>2, <2>3, EmitTyped, ProcessStepA
<1>3. CASE Receive(e)
  <2> HIDE DEF m
  <2>1. /\ Alive(e) /\ toHost[e] # <<>> /\ toHost' = [toHost EXCEPT ![e] = Tail(@)]
        /\ \/ m.kind = "response" /\ Settle(e, m) /\ UNCHANGED toEditor
           \/ /\ m.kind = "activate"
              /\ proc' = [proc EXCEPT ![e].phase = "loaded", ![e].owed = @ \cup {m}]
              /\ UNCHANGED toEditor
           \/ m.kind = "activate" /\ Emit(e, Answers(m.id, TRUE)) /\ UNCHANGED proc
           \/ /\ m.kind = "execute"
              /\ proc' = [proc EXCEPT ![e].owed = @ \cup {m}] /\ UNCHANGED toEditor
        /\ UNCHANGED <<editorVars, pollVars, starts>>
    BY <1>3 DEF Receive, m
  <2>2. m \in FromEditor /\ Tail(toHost[e]) \in Seq(FromEditor)
    BY <1>1, <2>1, HeadTail DEF m
  <2>3. /\ toHost' \in [Extensions -> Seq(FromEditor)]
        /\ \A o \in Extensions : o # e => toHost'[o] = toHost[o]
    BY <1>1, <2>1, <2>2
  <2>4. p.phase # "none"
    BY <2>1 DEF Alive
  <2>5. m.kind # "response" => m \in Orders /\ m.id \in Nat
    BY <2>2 DEF FromEditor, Replies, Orders
  <2>6. /\ proc' \in [Extensions -> Proc] /\ proc'[e].phase # "none"
        /\ \A o \in Extensions : o # e => proc'[o] = proc[o]
    <3>1. CASE Settle(e, m)
      <4> DEFINE w == p.waiting \ {m.id}
                 lied == IF IsFor(e, m) THEN p.misled \ {m.id}
                         ELSE p.misled \cup ({m.id} \cap p.waiting)
      <4>1. w \in SUBSET Nat
        BY <1>1 DEF Proc
      <4>2. lied \in SUBSET Nat
        BY <1>1 DEF Proc
      <4>3. proc' = [proc EXCEPT ![e] = [p EXCEPT !.waiting = w, !.misled = lied]]
        BY <1>1, <3>1 DEF Settle
      <4> HIDE DEF w, lied
      <4>4. [p EXCEPT !.waiting = w, !.misled = lied] \in Proc
        BY <1>1, <4>1, <4>2 DEF Proc
      <4> QED
        BY <1>1, <2>4, <4>3, <4>4 DEF Proc
    <3>2. CASE proc' = [proc EXCEPT ![e].phase = "loaded", ![e].owed = @ \cup {m}]
               /\ m \in Orders
      BY <1>1, <3>2 DEF Proc
    <3>3. CASE proc' = [proc EXCEPT ![e].owed = @ \cup {m}] /\ m \in Orders
      BY <1>1, <2>4, <3>3 DEF Proc
    <3>4. CASE UNCHANGED proc
      BY <1>1, <2>4, <3>4
    <3> QED
      BY <2>1, <2>5, <3>1, <3>2, <3>3, <3>4
  <2>7. /\ toEditor' \in [Extensions -> Seq(FromHost)]
        /\ \A o \in Extensions : o # e => toEditor'[o] = toEditor[o]
    <3>1. CASE UNCHANGED toEditor
      BY <1>1, <3>1
    <3>2. CASE m.kind = "activate" /\ Emit(e, Answers(m.id, TRUE))
      <4>1. Answers(m.id, TRUE) \in FromHost
        BY <2>5, <3>2 DEF Answers, FromHost, Answered
      <4> QED
        BY <1>1, <3>2, <4>1, EmitTyped
    <3> QED
      BY <2>1, <3>1, <3>2
  <2> QED
    BY <2>1, <2>3, <2>4, <2>6, <2>7, ProcessStepA
<1>4. CASE Log(e)
  <2>1. /\ p.phase = "loaded" /\ Emit(e, [kind |-> "log"])
        /\ UNCHANGED <<editorVars, pollVars, proc, toHost, starts>>
    BY <1>4 DEF Log, Up
  <2>2. [kind |-> "log"] \in FromHost
    BY DEF FromHost, Notices
  <2> QED
    BY <1>1, <2>1, <2>2, EmitTyped, ProcessStepA
<1>5. CASE Die(e)
  <2> DEFINE gone == [NoProcess EXCEPT !.phase = "exited"]
  <2>1. /\ Alive(e) /\ proc' = [proc EXCEPT ![e] = gone]
        /\ toHost' = [toHost EXCEPT ![e] = <<>>] /\ Emit(e, [kind |-> "closed"])
        /\ UNCHANGED <<editorVars, pollVars, starts>>
    BY <1>5 DEF Die
  <2>2. gone \in Proc /\ gone.phase = "exited"
    BY ProcessTypes DEF Proc
  <2>3. [kind |-> "closed"] \in FromHost
    BY DEF FromHost, Notices
  <2> HIDE DEF gone
  <2> QED
    BY <1>1, <2>1, <2>2, <2>3, ProcessTypes, EmitTyped, ProcessStepA DEF Alive
<1>6. ASSUME NEW call \in Calls[e], Ask(e, Request(e, call)) PROVE AInv'
  <2> DEFINE r == Request(e, call)
             next == p.next + 1
             waits == p.waiting \cup {r.id}
  <2>1. r \in Requests /\ r.id \in Nat
    <3>1. call \in Methods /\ starts[e] \in Nat /\ p.next \in Nat
      BY <1>1, ExtensionsAssumption DEF Types, Proc
    <3>2. /\ call.method \in {"call", "unknown"} \cup Commands
          /\ call.needs \in Seq(Capabilities) /\ <<e, starts[e]>> \in Starts
      BY <3>1 DEF Methods, Starts
    <3> QED
      BY <3>1, <3>2 DEF Request, Requests
  <2>2. /\ Up(e) /\ Emit(e, r) /\ UNCHANGED <<editorVars, pollVars, toHost, starts>>
        /\ proc' = [proc EXCEPT ![e] = [p EXCEPT !.next = next, !.waiting = waits]]
    BY <1>1, <1>6 DEF Ask
  <2>3. next \in Nat \ {0} /\ waits \in SUBSET Nat
    BY <1>1, <2>1 DEF Proc
  <2>4. r \in FromHost
    BY <2>1 DEF FromHost
  <2> HIDE DEF r, next, waits
  <2>5. /\ proc' \in [Extensions -> Proc] /\ proc'[e].phase = p.phase
        /\ \A o \in Extensions : o # e => proc'[o] = proc[o]
    BY <1>1, <2>2, <2>3 DEF Proc
  <2> QED
    BY <1>1, <2>2, <2>4, <2>5, EmitTyped, ProcessStepA DEF Up
<1>7. ASSUME NEW order \in proc[e].owed, NEW ok \in BOOLEAN, Return(e, order, ok) PROVE AInv'
  <2>1. /\ Alive(e) /\ Emit(e, Answers(order.id, ok))
        /\ proc' = [proc EXCEPT ![e].owed = @ \ {order}]
        /\ UNCHANGED <<editorVars, pollVars, toHost, starts>>
    BY <1>7 DEF Return
  <2>2. order.id \in Nat
    BY <1>1, <1>7 DEF Proc, Orders
  <2>3. Answers(order.id, ok) \in FromHost
    BY <2>2 DEF Answers, FromHost, Answered
  <2>4. /\ proc' \in [Extensions -> Proc] /\ proc'[e].phase = p.phase
        /\ \A o \in Extensions : o # e => proc'[o] = proc[o]
    BY <1>1, <2>1 DEF Proc
  <2>5. p.phase # "none" /\ UNCHANGED toHost
    BY <2>1 DEF Alive
  <2>6. /\ toEditor' \in [Extensions -> Seq(FromHost)]
        /\ \A o \in Extensions : o # e => toEditor'[o] = toEditor[o]
    BY <1>1, <2>1, <2>3, EmitTyped
  <2> QED
    BY <1>1, <2>1, <2>4, <2>5, <2>6, ProcessStepA
<1>8. CASE \E order \in proc[e].owed, ok \in BOOLEAN : Return(e, order, ok)
  BY <1>7, <1>8, Zenon
<1> QED
  BY <1>2, <1>3, <1>4, <1>5, <1>6, <1>8, Zenon DEF Process

LEMMA NextAInv == AInv /\ [Next]_vars => AInv'
<1> SUFFICES ASSUME AInv, [Next]_vars PROVE AInv'
  OBVIOUS
<1>1. CASE UNCHANGED vars
  <2>1. UNCHANGED <<host, asking, permissions, prompt, turn, drain, proc, toHost, toEditor,
                    starts, invoked, said>>
    BY <1>1 DEF vars, editorVars, pollVars, procVars
  <2>2. Types' /\ Polls'
    BY <2>1 DEF AInv, Types, Polls, Running, Idle
  <2>3. \A e \in Extensions : SaidKept(e)' /\ HostOK(e)'
    BY <2>1 DEF AInv, SaidKept, HostOK
  <2> QED
    BY <2>2, <2>3 DEF AInv
<1>2. CASE User
  BY <1>2, RunCommandA, AnswerConsentA, ClosePromptA, ForgetA DEF User
<1> QED
  BY <1>1, <1>2, PollA, HandleA, FinishA, ProcessA DEF Next

\* The state of the hosts, the polls and the remembered decisions, always.
THEOREM Invariance == Spec => []AInv
<1>1. Init => AInv
  BY InitAInv
<1>2. AInv /\ [Next]_vars => AInv'
  BY NextAInv
<1> QED
  BY <1>1, <1>2, PTL DEF Spec

\* A command run from a key does not overtake one that waited for its host: between
\* two polls an active host has nothing queued.
THEOREM NothingWaits == Spec => []NothingKeptWaiting
<1>1. AInv => NothingKeptWaiting
  BY DEF AInv, Polls, NothingKeptWaiting, Idle
<1> QED
  BY <1>1, Invariance, PTL

(***************************************************************************)
(* What an extension uses.                                                 *)
(***************************************************************************)
\* A step that sends a host nothing but orders.
OrdersOnly(e) ==
  \/ Len(toHost'[e]) <= Len(toHost[e])
  \/ \E orders \in Seq(Orders) : toHost'[e] = toHost[e] \o orders

LEMMA OrdersAreNoReplies ==
  ASSUME AInv, AInv', NEW e \in Extensions, OrdersOnly(e)
  PROVE  ~Responds(e)
<1> SUFFICES ASSUME Responds(e) PROVE FALSE
  OBVIOUS
<1>1. toHost[e] \in Seq(FromEditor) /\ toHost'[e] \in Seq(FromEditor)
  BY DEF AInv, Types
<1>2. Len(toHost'[e]) > Len(toHost[e]) /\ Last(toHost'[e]).kind = "response"
  BY DEF Responds
<1>3. PICK orders \in Seq(Orders) : toHost'[e] = toHost[e] \o orders
  BY <1>1, <1>2, LenProperties DEF OrdersOnly
<1>4. /\ orders \in Seq(FromEditor) /\ Len(orders) \in Nat /\ Len(toHost[e]) \in Nat
      /\ Len(toHost'[e]) = Len(toHost[e]) + Len(orders)
  BY <1>1, <1>3, SeqMonotonic, ConcatProperties, LenProperties DEF FromEditor
<1>5. Last(toHost'[e]) = orders[Len(orders)] /\ Len(orders) >= 1
  <2>1. Len(orders) >= 1 /\ Len(toHost'[e]) \in 1..(Len(toHost[e]) + Len(orders))
    BY <1>2, <1>4
  <2>2. toHost'[e][Len(toHost'[e])] = orders[Len(toHost'[e]) - Len(toHost[e])]
    BY <1>1, <1>2, <1>3, <1>4, <2>1, ConcatProperties
  <2> QED
    BY <1>4, <2>1, <2>2 DEF Last
<1>6. orders[Len(orders)] \in Orders
  BY <1>4, <1>5, ElementOfSeq
<1> QED
  BY <1>2, <1>5, <1>6 DEF Orders

LEMMA StopsAreNoReplies ==
  ASSUME AInv, NEW e \in Extensions, NEW o \in Extensions, Stop(o)
  PROVE  OrdersOnly(e)
<1>1. Types /\ toHost[e] \in Seq(FromEditor)
  BY DEF AInv, Types
<1>2. toHost'[e] = <<>> \/ toHost'[e] = toHost[e]
  BY <1>1, StopTyped
<1> QED
  BY <1>1, <1>2, LenProperties DEF OrdersOnly

\* Leave for the capabilities of a request, when the user decides each.
HasLeave(e, used) ==
  \A c \in used : /\ \E a \in Capabilities : c \in Covered[a] /\ said'[e][a] = "yes"
                  /\ \A d \in Capabilities : c \in Covered[d] => said'[e][d] # "no"

\* A request that is allowed uses what the decisions grant and none denies.
LEMMA AllowedHasLeave ==
  ASSUME NEW e \in Extensions, NEW h \in Host, NEW request \in Requests,
         Allowed(e, h, request), Policy = "prompt", SaidKept(e)', h.grants = permissions'[e]
  PROVE  HasLeave(e, Range(request.needs))
<1> SUFFICES ASSUME NEW c \in Range(request.needs)
             PROVE  /\ \E a \in Capabilities : c \in Covered[a] /\ said'[e][a] = "yes"
                    /\ \A d \in Capabilities : c \in Covered[d] => said'[e][d] # "no"
  BY DEF HasLeave
<1>1. PICK i \in DOMAIN request.needs : c = request.needs[i]
  BY DEF Range
<1>2. ~Denies(e, h, c)
  BY DEF Allowed, Refused
<1>3. ~Asks(e, h, c)
  BY <1>1 DEF Allowed, Undecided
<1>4. Grants(h, c) /\ \A d \in h.grants.denied : c \notin Covered[d]
  BY <1>2, <1>3 DEF Asks, Denies
<1>5. h.grants.allowed \subseteq Capabilities
  BY DEF Host, Grant
<1> QED
  BY <1>4, <1>5 DEF Grants, SaidKept

\* The last message of a host that has been sent one reply.
LEMMA LastIsReply ==
  ASSUME NEW s \in Seq(FromEditor), NEW reply \in Replies
  PROVE  Last(Append(s, reply)) = reply
BY AppendProperties, LenProperties DEF Last, FromEditor

LEMMA ExecuteOrders ==
  ASSUME AInv, NEW e \in Extensions, NEW o \in Extensions, NEW h \in Host,
         NEW commands \in Seq(Commands), Execute(o, h, commands)
  PROVE  OrdersOnly(e)
<1>1. Types /\ toHost \in [Extensions -> Seq(FromEditor)]
  BY DEF AInv, Types
<1>2. toHost' = toHost \/ (Alive(o) /\ \E orders \in Seq(Orders) : Send(o, orders))
  BY <1>1, ExecuteTyped
<1>3. CASE toHost'[e] = toHost[e]
  BY <1>1, <1>3, LenProperties DEF OrdersOnly
<1>4. CASE e = o /\ \E orders \in Seq(Orders) : Send(o, orders)
  BY <1>1, <1>4 DEF OrdersOnly, Send
<1> QED
  BY <1>1, <1>2, <1>3, <1>4 DEF Send

\* The steps that send no reply.
LEMMA UserOrders ==
  ASSUME AInv, User, ~\E allow \in BOOLEAN : AnswerConsent(allow)
  PROVE  \A e \in Extensions : OrdersOnly(e)
<1> SUFFICES ASSUME NEW e \in Extensions PROVE OrdersOnly(e)
  OBVIOUS
<1>1. Types /\ toHost[e] \in Seq(FromEditor)
  BY DEF AInv, Types
<1>2. ASSUME NEW c \in Commands, RunCommand(c) PROVE OrdersOnly(e)
  <2>0. OwnerOf[c] \in Extensions
    BY ExtensionsAssumption
  <2>1. OwnerOf[c] \in Extensions /\ host[OwnerOf[c]] \in Host /\ <<c>> \in Seq(Commands)
    BY <1>1, <2>0 DEF Types
  <2>2. toHost' = toHost \/ Execute(OwnerOf[c], host[OwnerOf[c]], <<c>>)
    BY <1>2 DEF RunCommand, procVars, Start
  <2>3. CASE toHost' = toHost
    BY <1>1, <2>3, LenProperties DEF OrdersOnly
  <2> QED
    BY <2>1, <2>2, <2>3, ExecuteOrders
<1>3. ASSUME ClosePrompt \/ \E o \in Extensions, c \in Capabilities : ForgetPermission(o, c)
      PROVE  OrdersOnly(e)
  <2>1. toHost' = toHost
    BY <1>3 DEF ClosePrompt, ForgetPermission, procVars
  <2> QED
    BY <1>1, <2>1, LenProperties DEF OrdersOnly
<1> QED
  BY <1>2, <1>3 DEF User

LEMMA FinishOrders ==
  ASSUME AInv, NEW o \in Extensions, Finish(o)
  PROVE  \A e \in Extensions : OrdersOnly(e)
<1> SUFFICES ASSUME NEW e \in Extensions PROVE OrdersOnly(e)
  OBVIOUS
<1>1. Types /\ toHost \in [Extensions -> Seq(FromEditor)] /\ host[o] \in Host
  BY DEF AInv, Types
<1>2. CASE DropDead(o) \/ TimeOut(o)
  BY <1>2, StopsAreNoReplies DEF DropDead, TimeOut
<1>3. CASE Activate(o)
  <2> DEFINE order == [kind |-> "activate", id |-> host[o].nextId]
  <2>1. <<order>> \in Seq(Orders)
    BY <1>1 DEF Host, Orders
  <2>2. toHost' = [toHost EXCEPT ![o] = @ \o <<order>>]
    BY <1>3 DEF Activate, Send
  <2> HIDE DEF order
  <2>3. CASE e = o
    BY <1>1, <2>1, <2>2, <2>3 DEF OrdersOnly
  <2>4. CASE e # o
    BY <1>1, <2>2, <2>4, LenProperties DEF OrdersOnly
  <2> QED
    BY <2>3, <2>4
<1>4. CASE RunQueued(o)
  <2>1. CASE host[o].state = "active"
    <3> DEFINE h == [host[o] EXCEPT !.queued = <<>>]
    <3>1. Execute(o, h, host[o].queued) /\ host[o].queued \in Seq(Commands)
      BY <1>1, <1>4, <2>1 DEF RunQueued, MayRun, Host
    <3>2. h \in Host
      BY <1>1, ProcessTypes DEF Host
    <3> QED
      BY <3>1, <3>2, ExecuteOrders
  <2>2. CASE host[o].state # "active"
    <3>1. toHost' = toHost
      BY <1>4, <2>2 DEF RunQueued, MayRun
    <3> QED
      BY <1>1, <3>1, LenProperties DEF OrdersOnly
  <2> QED
    BY <2>1, <2>2
<1> QED
  BY <1>2, <1>3, <1>4 DEF Finish

LEMMA ProcessOrders ==
  ASSUME AInv, NEW o \in Extensions, Process(o)
  PROVE  \A e \in Extensions : OrdersOnly(e)
<1> SUFFICES ASSUME NEW e \in Extensions PROVE OrdersOnly(e)
  OBVIOUS
<1>1. Types /\ toHost \in [Extensions -> Seq(FromEditor)] /\ toHost[e] \in Seq(FromEditor)
  BY DEF AInv, Types
<1>2. \/ toHost' = toHost
      \/ toHost' = [toHost EXCEPT ![o] = <<>>]
      \/ toHost[o] # <<>> /\ toHost' = [toHost EXCEPT ![o] = Tail(@)]
  BY DEF Process, Boot, Receive, Log, Die, Ask, Return
<1>3. Len(toHost[e]) \in Nat /\ Len(<<>>) = 0
  BY <1>1, LenProperties
<1>4. toHost[e] # <<>> => Len(Tail(toHost[e])) = Len(toHost[e]) - 1
  BY <1>1, HeadTailProperties
<1>5. Len(toHost'[e]) <= Len(toHost[e])
  BY <1>1, <1>2, <1>3, <1>4
<1> QED
  BY <1>5 DEF OrdersOnly

\* A reply that is sent uses nothing the user has not said yes to.
LEMMA HandledHasLeave ==
  ASSUME AInv, AInv', NEW o \in Extensions, Handle(o), NEW e \in Extensions,
         Policy = "prompt", Responds(e)
  PROVE  HasLeave(e, Last(toHost'[e]).used)
<1> DEFINE m == Head(toEditor[o])
<1>1. NextEvent(o) /\ Types /\ Types' /\ SaidKept(e) /\ SaidKept(e)' /\ HostOK(e)
  BY DEF Handle, HandleRefused, HandleAllowed, HandleConsent, HandleResponse, HandleReady,
         HandleLog, HandleClosed, AInv
<1>2. /\ host[o] \in Host /\ host[o].state # "none" /\ toHost[e] \in Seq(FromEditor)
      /\ m.kind = "request" => m \in Requests
      /\ toHost[e] \in Seq(FromEditor) /\ permissions' = permissions
  BY <1>1, HeldHost DEF NextEvent, Types
<1> HIDE DEF m
<1>3. toHost'[e] # toHost[e]
  BY <1>2, LenProperties DEF Responds
<1>4. PICK reply \in Replies :
        /\ Answer(o, reply)
        /\ \/ reply = Refusal(m) /\ m \in Requests
           \/ reply = Served(m) /\ m \in Requests /\ Allowed(o, host[o], m)
  <2>1. CASE HandleRefused(o)
    BY <1>2, <2>1, RepliesTyped DEF HandleRefused, m
  <2>2. CASE HandleAllowed(o)
    BY <1>2, <2>2, RepliesTyped DEF HandleAllowed, m
  <2>3. CASE HandleConsent(o)
    BY <1>2, <1>3, <2>3, RepliesTyped DEF HandleConsent, Decline, m
  <2>4. CASE HandleResponse(o) \/ HandleReady(o) \/ HandleLog(o) \/ HandleClosed(o)
    BY <1>3, <2>4 DEF HandleResponse, HandleReady, HandleLog, HandleClosed
  <2> QED
    BY <2>1, <2>2, <2>3, <2>4 DEF Handle
<1>5. e = o /\ toHost'[e] = Append(toHost[e], reply)
  BY <1>1, <1>3, <1>4, AnswerTyped
<1>6. Last(toHost'[e]) = reply
  BY <1>2, <1>5, LastIsReply
<1>7. CASE reply = Refusal(m) /\ m \in Requests
  BY <1>6, <1>7, RepliesTyped DEF HasLeave
<1>8. CASE reply = Served(m) /\ m \in Requests /\ Allowed(o, host[o], m)
  <2>1. host[o].grants = permissions'[o]
    BY <1>1, <1>2, <1>5 DEF HostOK
  <2>2. HasLeave(e, Range(m.needs))
    BY <1>1, <1>2, <1>5, <1>8, <2>1, AllowedHasLeave
  <2> QED
    BY <1>6, <1>8, <2>2, RepliesTyped
<1> QED
  BY <1>4, <1>7, <1>8

LEMMA AnsweredHasLeave ==
  ASSUME AInv, AInv', NEW allow \in BOOLEAN, AnswerConsent(allow), NEW e \in Extensions,
         Policy = "prompt", Responds(e)
  PROVE  HasLeave(e, Last(toHost'[e]).used)
<1>0. PICK o \in Extensions : asking \in Question /\ o = asking.ext
  BY DEF AnswerConsent, AInv, Types, Question
<1> DEFINE q == asking
           grants == Remember(host[o].grants, q.capability, allow)
           h == [host[o] EXCEPT !.grants = grants]
           reply == IF Allowed(o, h, q.request) THEN Served(q.request) ELSE Refusal(q.request)
<1>1. /\ Types /\ Types' /\ SaidKept(e)' /\ HostOK(o) /\ q.request \in Requests
      /\ host[o] \in Host /\ host[o].grants \in Grant /\ q.capability \in Capabilities
      /\ toHost[e] \in Seq(FromEditor)
  BY <1>0 DEF AInv, Types, Question, Host
<1>2. toHost'[e] # toHost[e] /\ ~OrdersOnly(e)
  BY <1>1, LenProperties, OrdersAreNoReplies DEF Responds
<1>3. /\ Send(o, <<reply>>) /\ permissions' = [permissions EXCEPT ![o] = h.grants]
  BY <1>0, <1>2, StopsAreNoReplies DEF AnswerConsent, procVars
<1>4. grants \in Grant
  BY <1>1, RememberKeeps DEF HostOK
<1> HIDE DEF grants
<1>5. h \in Host /\ h.grants = grants
  BY <1>1, <1>4 DEF Host
<1>6. reply \in Replies /\ <<reply>> \in Seq(FromEditor) /\ reply \in FromEditor
  BY <1>1, RepliesTyped DEF FromEditor
<1> HIDE DEF h
<1>7. e = o /\ toHost'[e] = Append(toHost[e], reply)
  <2> HIDE DEF reply
  <2>1. toHost'[o] = toHost[o] \o <<reply>> /\ (e # o => toHost'[e] = toHost[e])
    BY <1>1, <1>3, <1>6, SendTyped
  <2> QED
    BY <1>1, <1>2, <1>6, <2>1, AppendIsConcat
<1>8. Last(toHost'[e]) = reply
  BY <1>1, <1>6, <1>7, LastIsReply
<1>9. CASE Allowed(o, h, q.request)
  <2>1. h.grants = permissions'[o]
    BY <1>1, <1>3 DEF Types
  <2>2. HasLeave(e, Range(q.request.needs))
    BY <1>1, <1>5, <1>7, <1>9, <2>1, AllowedHasLeave
  <2> QED
    BY <1>1, <1>8, <1>9, <2>2, RepliesTyped
<1>10. CASE ~Allowed(o, h, q.request)
  BY <1>1, <1>8, <1>10, RepliesTyped DEF HasLeave
<1> QED
  BY <1>9, <1>10

LEMMA StepHasLeave ==
  ASSUME AInv, AInv', [Next]_vars
  PROVE  \A e \in Extensions :
           Policy = "prompt" /\ Responds(e) => HasLeave(e, Last(toHost'[e]).used)
<1> SUFFICES ASSUME NEW e \in Extensions, Policy = "prompt", Responds(e)
             PROVE  HasLeave(e, Last(toHost'[e]).used)
  OBVIOUS
<1>1. ~OrdersOnly(e)
  BY OrdersAreNoReplies
<1>2. toHost' # toHost
  BY <1>1, LenProperties DEF OrdersOnly, AInv, Types
<1>3. CASE User
  BY <1>1, <1>3, UserOrders, AnsweredHasLeave
<1>4. CASE Poll
  BY <1>2, <1>4 DEF Poll, procVars
<1>5. ASSUME NEW o \in Extensions, Handle(o) PROVE HasLeave(e, Last(toHost'[e]).used)
  BY <1>5, HandledHasLeave
<1>6. ASSUME NEW o \in Extensions, Finish(o) \/ Process(o) PROVE FALSE
  BY <1>1, <1>6, FinishOrders, ProcessOrders
<1> QED
  BY <1>2, <1>3, <1>4, <1>5, <1>6 DEF Next, vars, procVars

\* With every decision left to the user, a request is served only with what the
\* user has said yes to, and has not said no to or withdrawn since.
THEOREM UsesAreGranted == Spec => UsesHaveLeave
<1>1. AInv /\ AInv' /\ [Next]_vars =>
        [\A e \in Extensions :
           Policy = "prompt" /\ Responds(e) =>
             \A c \in Last(toHost'[e]).used :
               /\ \E a \in Capabilities : c \in Covered[a] /\ said'[e][a] = "yes"
               /\ \A d \in Capabilities : c \in Covered[d] => said'[e][d] # "no"]_vars
  BY StepHasLeave DEF HasLeave
<1> QED
  BY <1>1, Invariance, PTL DEF Spec, UsesHaveLeave

(***************************************************************************)
(* Where the requests are.                                                 *)
(***************************************************************************)
Hits(s, M) == Cardinality({i \in DOMAIN s : s[i] \in M})

RequestsOf(id)      == {r \in Requests : r.id = id}
RepliesTo(from, id) == {r \in Replies : r.from = from /\ r.id = id}

\* A question is of the request `id' of one process.
Holds(question, from, id) ==
  question # NoQuestion /\ question.request.from = from /\ question.request.id = id
HeldOf(e, id) ==
  Holds(asking, <<e, starts[e]>>, id) \/ Holds(drain.pending, <<e, starts[e]>>, id)

InPlaces(e, id) ==
  Hits(toEditor[e], RequestsOf(id)) + Hits(toHost[e], RepliesTo(<<e, starts[e]>>, id))
  + IF HeldOf(e, id) THEN 1 ELSE 0

\* A question is of a process that was started, in the host it is held for; one
\* found in this poll is of the host being polled, and the only one.
Asked ==
  /\ \A q \in {asking, drain.pending} : q # NoQuestion =>
       q.request.from[1] = q.ext /\ q.request.from[2] <= starts[q.ext]
  /\ drain.pending # NoQuestion => asking = NoQuestion /\ Polled(drain.pending.ext)

\* What a process has had no reply of its own to.
Open(e) == proc[e].waiting \cup proc[e].misled

\* What a process asks carries its own number, and it waits only for what it asked.
Own(e) ==
  /\ \A i \in DOMAIN toEditor[e] :
       toEditor[e][i].kind = "request" => toEditor[e][i].from = <<e, starts[e]>>
  /\ \A id \in Open(e) : id < proc[e].next

Once(e) ==
  Alive(e) =>
    \A id \in Nat : InPlaces(e, id) = IF id \in Open(e) THEN 1 ELSE 0

HInv == AInv /\ Asked /\ \A e \in Extensions : Own(e) /\ Once(e)

(***************************************************************************)
(* Counting in a sequence.                                                 *)
(***************************************************************************)
LEMMA HitsFinite ==
  ASSUME NEW S, NEW s \in Seq(S), NEW M
  PROVE  IsFiniteSet({i \in DOMAIN s : s[i] \in M}) /\ Hits(s, M) \in Nat
<1>1. DOMAIN s = 1..Len(s) /\ Len(s) \in Nat
  BY LenProperties
<1>2. IsFiniteSet(DOMAIN s)
  BY <1>1, FS_Interval
<1>3. IsFiniteSet({i \in DOMAIN s : s[i] \in M})
  BY <1>2, FS_Subset
<1> QED
  BY <1>3, FS_CardinalityType DEF Hits

LEMMA HitsEmpty == ASSUME NEW M PROVE Hits(<<>>, M) = 0
<1>1. {i \in DOMAIN <<>> : <<>>[i] \in M} = {}
  OBVIOUS
<1> QED
  BY <1>1, FS_EmptySet DEF Hits

LEMMA HitsAppend ==
  ASSUME NEW S, NEW s \in Seq(S), NEW x \in S, NEW M
  PROVE  Hits(Append(s, x), M) = Hits(s, M) + IF x \in M THEN 1 ELSE 0
<1> DEFINE t == Append(s, x)
           A == {i \in DOMAIN s : s[i] \in M}
           B == {i \in DOMAIN t : t[i] \in M}
           n == Len(s) + 1
<1>1. /\ DOMAIN s = 1..Len(s) /\ Len(s) \in Nat /\ t \in Seq(S)
      /\ Len(t) = n /\ t[n] = x /\ \A i \in 1..Len(s) : t[i] = s[i]
  BY LenProperties, AppendProperties
<1>2. DOMAIN t = 1..n
  BY <1>1, LenProperties
<1>3. IsFiniteSet(A) /\ Cardinality(A) \in Nat
  BY HitsFinite DEF Hits
<1> HIDE DEF t
<1>4. CASE x \in M
  <2>1. B = A \cup {n} /\ n \notin A
    BY <1>1, <1>2, <1>4
  <2> HIDE DEF A, B, n
  <2>2. Cardinality(A \cup {n}) = Cardinality(A) + 1
    BY <1>3, <2>1, FS_AddElement
  <2>3. Hits(Append(s, x), M) = Cardinality(A \cup {n}) /\ Hits(s, M) = Cardinality(A)
    BY <2>1, Zenon DEF Hits, t, A, B
  <2> QED
    BY <1>3, <1>4, <2>2, <2>3
<1>5. CASE x \notin M
  <2>1. B = A
    BY <1>1, <1>2, <1>5
  <2>2. Hits(Append(s, x), M) = Cardinality(A) /\ Hits(s, M) = Cardinality(A)
    BY <2>1, Zenon DEF Hits, t
  <2> QED
    BY <1>3, <1>5, <2>1, <2>2
<1> QED
  BY <1>4, <1>5

LEMMA HitsTail ==
  ASSUME NEW S, NEW s \in Seq(S), s # <<>>, NEW M
  PROVE  Hits(s, M) = Hits(Tail(s), M) + IF Head(s) \in M THEN 1 ELSE 0
<1> DEFINE t == Tail(s)
           A == {i \in DOMAIN s : s[i] \in M}
           B == {i \in DOMAIN t : t[i] \in M}
           Later == A \ {1}
           f == [i \in B |-> i + 1]
<1>1. /\ DOMAIN s = 1..Len(s) /\ Len(s) \in Nat /\ Len(s) >= 1 /\ t \in Seq(S)
      /\ Len(t) = Len(s) - 1 /\ \A i \in 1..Len(t) : t[i] = s[i + 1]
  BY LenProperties, HeadTailProperties, EmptySeq
<1>2. DOMAIN t = 1..(Len(s) - 1) /\ Head(s) = s[1]
  BY <1>1, LenProperties
<1>3. IsFiniteSet(A) /\ IsFiniteSet(B) /\ Cardinality(A) \in Nat
  BY <1>1, HitsFinite DEF Hits
<1> HIDE DEF t
<1>4. f \in Bijection(B, Later)
  <2>1. \A i \in B : i + 1 \in Later
    BY <1>1, <1>2
  <2>2. \A i, j \in B : f[i] = f[j] => i = j
    BY <1>1, <1>2
  <2>3. ASSUME NEW j \in Later PROVE \E i \in B : f[i] = j
    <3>1. j - 1 \in B /\ f[j - 1] = j
      BY <1>1, <1>2, <2>3
    <3> QED
      BY <3>1
  <2> QED
    BY <2>1, <2>2, <2>3, Fun_IsBij
<1>5. Cardinality(Later) = Cardinality(B)
  BY <1>3, <1>4, FS_Bijection DEF ExistsBijection
<1>6. Cardinality(A) = Cardinality(Later) + IF 1 \in A THEN 1 ELSE 0
  <2> HIDE DEF A
  <2>1. Cardinality(A \ {1}) = IF 1 \in A THEN Cardinality(A) - 1 ELSE Cardinality(A)
    BY <1>3, FS_RemoveElement
  <2> QED
    BY <1>3, <2>1
<1>7. 1 \in A <=> Head(s) \in M
  BY <1>1, <1>2
<1> QED
  BY <1>5, <1>6, <1>7 DEF Hits, t

LEMMA HitsConcat ==
  ASSUME NEW S, NEW s \in Seq(S), NEW u \in Seq(S), NEW M, \A i \in 1..Len(u) : u[i] \notin M
  PROVE  Hits(s \o u, M) = Hits(s, M)
<1> DEFINE t == s \o u
<1>1. /\ DOMAIN s = 1..Len(s) /\ Len(s) \in Nat /\ Len(u) \in Nat /\ t \in Seq(S)
      /\ Len(t) = Len(s) + Len(u)
      /\ \A i \in 1..(Len(s) + Len(u)) : t[i] = IF i <= Len(s) THEN s[i] ELSE u[i - Len(s)]
  BY LenProperties, ConcatProperties
<1>2. DOMAIN t = 1..(Len(s) + Len(u))
  BY <1>1, LenProperties
<1> HIDE DEF t
<1>3. {i \in DOMAIN t : t[i] \in M} = {i \in DOMAIN s : s[i] \in M}
  <2>1. ASSUME NEW i \in 1..(Len(s) + Len(u)), ~(i <= Len(s)) PROVE t[i] \notin M
    <3>1. i - Len(s) \in 1..Len(u) /\ t[i] = u[i - Len(s)]
      BY <1>1, <2>1
    <3> QED
      BY <3>1
  <2> QED
    BY <1>1, <1>2, <2>1
<1> QED
  BY <1>3 DEF Hits, t

(***************************************************************************)
(* A step that moves no request of an extension.                           *)
(***************************************************************************)
HeldKept(e) == \A id \in Nat : HeldOf(e, id)' <=> HeldOf(e, id)

Kept(e) ==
  /\ starts'[e] = starts[e] /\ HeldKept(e)
  /\ proc'[e].waiting = proc[e].waiting /\ proc'[e].next = proc[e].next
  /\ proc'[e].misled = proc[e].misled /\ (Alive(e)' <=> Alive(e))
  /\ \/ toHost'[e] = toHost[e]
     \/ \E orders \in Seq(Orders) : toHost'[e] = toHost[e] \o orders
     \/ toHost[e] # <<>> /\ Head(toHost[e]) \notin Replies /\ toHost'[e] = Tail(toHost[e])
  /\ \/ toEditor'[e] = toEditor[e]
     \/ \E notice \in FromHost \ Requests : toEditor'[e] = Append(toEditor[e], notice)
     \/ toEditor[e] # <<>> /\ Head(toEditor[e]) \notin Requests
        /\ toEditor'[e] = Tail(toEditor[e])

LEMMA HitsAre ==
  ASSUME AInv, NEW e \in Extensions, NEW id
  PROVE  /\ toEditor[e] \in Seq(FromHost) /\ Hits(toEditor[e], RequestsOf(id)) \in Nat
         /\ toHost[e] \in Seq(FromEditor)
         /\ Hits(toHost[e], RepliesTo(<<e, starts[e]>>, id)) \in Nat
<1>1. toEditor[e] \in Seq(FromHost) /\ toHost[e] \in Seq(FromEditor)
  BY DEF AInv, Types
<1> QED
  BY <1>1, HitsFinite

LEMMA Indices ==
  ASSUME NEW n \in Nat
  PROVE  /\ \A i \in 1..(n + 1) : i \in 1..n \/ i = n + 1
         /\ \A i \in 1..(n - 1) : i + 1 \in 1..n
OBVIOUS

\* The requests of a sequence after one more message, or one less.
LEMMA RequestsFrom ==
  ASSUME NEW s \in Seq(FromHost), NEW t \in Seq(FromHost), NEW from,
         \A i \in DOMAIN s : s[i].kind = "request" => s[i].from = from,
         \/ t = s
         \/ \E x \in FromHost : t = Append(s, x) /\ (x.kind = "request" => x.from = from)
         \/ s # <<>> /\ t = Tail(s)
  PROVE  \A i \in DOMAIN t : t[i].kind = "request" => t[i].from = from
<1>1. DOMAIN s = 1..Len(s) /\ DOMAIN t = 1..Len(t) /\ Len(s) \in Nat /\ Len(t) \in Nat
  BY LenProperties
<1>2. ASSUME NEW x \in FromHost, t = Append(s, x), x.kind = "request" => x.from = from
      PROVE  \A i \in DOMAIN t : t[i].kind = "request" => t[i].from = from
  <2>1. Len(t) = Len(s) + 1 /\ t[Len(s) + 1] = x /\ \A i \in 1..Len(s) : t[i] = s[i]
    BY <1>2, AppendProperties
  <2>2. ASSUME NEW i \in DOMAIN t, t[i].kind = "request" PROVE t[i].from = from
    <3>1. CASE i \in 1..Len(s)
      <4>1. i \in DOMAIN s /\ t[i] = s[i]
        BY <1>1, <2>1, <3>1
      <4> QED
        BY <2>2, <4>1
    <3>2. CASE i = Len(s) + 1
      BY <1>2, <2>1, <2>2, <3>2
    <3>3. i \in 1..Len(t)
      BY <1>1, Zenon
    <3>4. i \in 1..Len(s) \/ i = Len(s) + 1
      BY <1>1, <2>1, <3>3, Indices, Zenon
    <3> QED
      BY <3>1, <3>2, <3>4
  <2> QED
    BY <2>2
<1>3. ASSUME s # <<>>, t = Tail(s)
      PROVE  \A i \in DOMAIN t : t[i].kind = "request" => t[i].from = from
  <2>1. Len(t) = Len(s) - 1 /\ \A i \in 1..Len(t) : t[i] = s[i + 1]
    BY <1>3, HeadTailProperties
  <2>2. ASSUME NEW i \in DOMAIN t, t[i].kind = "request" PROVE t[i].from = from
    <3>1. i \in 1..Len(t)
      BY <1>1, Zenon
    <3>2. i + 1 \in 1..Len(s)
      BY <1>1, <2>1, <3>1, Indices, Zenon
    <3>3. i + 1 \in DOMAIN s /\ t[i] = s[i + 1]
      BY <1>1, <2>1, <3>1, <3>2, Zenon
    <3> QED
      BY <2>2, <3>3
  <2> QED
    BY <2>2
<1> QED
  BY <1>2, <1>3

LEMMA KeptHits ==
  ASSUME AInv, NEW e \in Extensions, NEW id \in Nat, Kept(e)
  PROVE  InPlaces(e, id)' = InPlaces(e, id)
<1> DEFINE M == RequestsOf(id)
           R == RepliesTo(<<e, starts[e]>>, id)
<1>1. toEditor[e] \in Seq(FromHost) /\ toHost[e] \in Seq(FromEditor)
      /\ Hits(toEditor[e], M) \in Nat /\ Hits(toHost[e], R) \in Nat
  BY HitsAre
<1>2. Hits(toEditor'[e], M) = Hits(toEditor[e], M)
  <2>1. M \subseteq Requests
    BY DEF RequestsOf
  <2> HIDE DEF M
  <2>2. ASSUME NEW notice \in FromHost \ Requests, toEditor'[e] = Append(toEditor[e], notice)
        PROVE  Hits(toEditor'[e], M) = Hits(toEditor[e], M)
    <3>1. Hits(Append(toEditor[e], notice), M) = Hits(toEditor[e], M) + 0
      BY <1>1, <2>1, <2>2, HitsAppend
    <3> QED
      BY <1>1, <2>2, <3>1
  <2>3. ASSUME toEditor[e] # <<>>, Head(toEditor[e]) \notin Requests,
               toEditor'[e] = Tail(toEditor[e])
        PROVE  Hits(toEditor'[e], M) = Hits(toEditor[e], M)
    <3>1. Hits(toEditor[e], M) = Hits(Tail(toEditor[e]), M) + 0
      BY <1>1, <2>1, <2>3, HitsTail
    <3>2. Hits(Tail(toEditor[e]), M) \in Nat
      BY <1>1, <2>3, HeadTail, HitsFinite
    <3> QED
      BY <2>3, <3>1, <3>2
  <2> QED
    BY <2>2, <2>3 DEF Kept
<1>3. Hits(toHost'[e], R) = Hits(toHost[e], R)
  <2>1. R \subseteq Replies
    BY DEF RepliesTo
  <2> HIDE DEF R
  <2>2. ASSUME NEW orders \in Seq(Orders), toHost'[e] = toHost[e] \o orders
        PROVE  Hits(toHost'[e], R) = Hits(toHost[e], R)
    <3>1. orders \in Seq(FromEditor)
      BY SeqMonotonic DEF FromEditor
    <3>2. \A i \in 1..Len(orders) : orders[i] \notin R
      <4>1. \A i \in 1..Len(orders) : orders[i] \in Orders
        BY ElementOfSeq
      <4> QED
        BY <2>1, <4>1 DEF Orders, Replies
    <3> QED
      BY <1>1, <2>2, <3>1, <3>2, HitsConcat
  <2>3. ASSUME toHost[e] # <<>>, Head(toHost[e]) \notin Replies, toHost'[e] = Tail(toHost[e])
        PROVE  Hits(toHost'[e], R) = Hits(toHost[e], R)
    <3>1. Hits(toHost[e], R) = Hits(Tail(toHost[e]), R) + 0
      BY <1>1, <2>1, <2>3, HitsTail
    <3>2. Hits(Tail(toHost[e]), R) \in Nat
      BY <1>1, <2>3, HeadTail, HitsFinite
    <3> QED
      BY <2>3, <3>1, <3>2
  <2> QED
    BY <2>2, <2>3 DEF Kept
<1>4. (HeldOf(e, id)' <=> HeldOf(e, id)) /\ starts'[e] = starts[e]
  BY DEF Kept, HeldKept
<1>5. RequestsOf(id)' = M /\ RepliesTo(<<e, starts[e]>>, id)' = R
  BY <1>4 DEF RequestsOf, RepliesTo
<1> HIDE DEF M, R
<1>6. /\ Hits(toEditor[e], RequestsOf(id))' = Hits(toEditor[e], RequestsOf(id))
      /\ Hits(toHost[e], RepliesTo(<<e, starts[e]>>, id))' = Hits(toHost[e], RepliesTo(<<e, starts[e]>>, id))
  BY <1>2, <1>3, <1>5 DEF M, R
<1> QED
  BY <1>4, <1>6 DEF InPlaces

LEMMA KeptOnce ==
  ASSUME HInv, AInv', NEW e \in Extensions, Kept(e)
  PROVE  Own(e)' /\ Once(e)'
<1>1. AInv /\ Own(e) /\ Once(e) /\ toEditor[e] \in Seq(FromHost) /\ toEditor'[e] \in Seq(FromHost)
  BY DEF HInv, AInv, Types
<1>2. Own(e)'
  <2>1. starts'[e] = starts[e] /\ Open(e)' = Open(e) /\ proc'[e].next = proc[e].next
    BY DEF Kept, Open
  <2>2. \/ toEditor'[e] = toEditor[e]
        \/ \E notice \in FromHost : toEditor'[e] = Append(toEditor[e], notice)
                                    /\ (notice.kind = "request" => notice.from = <<e, starts[e]>>)
        \/ toEditor[e] # <<>> /\ toEditor'[e] = Tail(toEditor[e])
    <3>1. \A notice \in FromHost \ Requests : notice.kind # "request"
      BY DEF FromHost, Notices, Answered
    <3> QED
      BY <3>1 DEF Kept
  <2>3. \A i \in DOMAIN toEditor'[e] :
          toEditor'[e][i].kind = "request" => toEditor'[e][i].from = <<e, starts[e]>>
    BY <1>1, <2>1, <2>2, RequestsFrom DEF Own
  <2> QED
    BY <1>1, <2>1, <2>3 DEF Own
<1>3. Once(e)'
  <2> SUFFICES ASSUME Alive(e)', NEW id \in Nat
               PROVE  InPlaces(e, id)' = IF id \in Open(e)' THEN 1 ELSE 0
    BY DEF Once
  <2>1. Alive(e) /\ Open(e)' = Open(e)
    BY DEF Kept, Open
  <2>2. InPlaces(e, id)' = InPlaces(e, id)
    BY <1>1, KeptHits
  <2> QED
    BY <1>1, <2>1, <2>2 DEF Once
<1> QED
  BY <1>2, <1>3

LEMMA FrameOnce ==
  ASSUME HInv, AInv', Asked', \A o \in Extensions : Kept(o) \/ (Own(o)' /\ Once(o)')
  PROVE  HInv'
<1>1. \A o \in Extensions : Own(o)' /\ Once(o)'
  BY KeptOnce
<1> QED
  BY <1>1 DEF HInv

\* What is as it was, with the orders it was sent.
LEMMA SameKept ==
  ASSUME NEW e \in Extensions, toEditor'[e] = toEditor[e], proc'[e] = proc[e],
         starts'[e] = starts[e], HeldKept(e),
         toHost'[e] = toHost[e] \/ \E orders \in Seq(Orders) : toHost'[e] = toHost[e] \o orders
  PROVE  Kept(e)
BY DEF Kept, Alive

LEMMA HeldSame ==
  ASSUME NEW e \in Extensions, UNCHANGED asking, drain'.pending = drain.pending,
         starts'[e] = starts[e]
  PROVE  HeldKept(e)
BY DEF HeldKept, HeldOf, Holds

LEMMA PlacesAre ==
  ASSUME AInv, Asked, NEW e \in Extensions, NEW id
  PROVE  Places(e, id) = InPlaces(e, id)
<1> DEFINE from == <<e, starts[e]>>
           A == {i \in DOMAIN toEditor[e] :
                   toEditor[e][i].kind = "request" /\ toEditor[e][i].id = id}
           B == {i \in DOMAIN toHost[e] :
                   /\ toHost[e][i].kind = "response" /\ toHost[e][i].id = id
                   /\ toHost[e][i].from = from}
           C == {q \in {asking, drain.pending} : q # NoQuestion /\
                   q.request.from = from /\ q.request.id = id}
<1>1. A = {i \in DOMAIN toEditor[e] : toEditor[e][i] \in RequestsOf(id)}
  <2>1. \A i \in DOMAIN toEditor[e] : toEditor[e][i] \in FromHost
    BY HitsAre, LenProperties
  <2>2. \A x \in FromHost : (x.kind = "request" /\ x.id = id) <=> x \in RequestsOf(id)
    BY DEF FromHost, Requests, Notices, Answered, RequestsOf
  <2> QED
    BY <2>1, <2>2
<1>2. B = {i \in DOMAIN toHost[e] : toHost[e][i] \in RepliesTo(from, id)}
  <2>1. \A i \in DOMAIN toHost[e] : toHost[e][i] \in FromEditor
    BY HitsAre, LenProperties
  <2>2. \A x \in FromEditor :
          (x.kind = "response" /\ x.id = id /\ x.from = from) <=> x \in RepliesTo(from, id)
    BY DEF FromEditor, Replies, Orders, RepliesTo
  <2> QED
    BY <2>1, <2>2
<1>3. Cardinality(C) = IF HeldOf(e, id) THEN 1 ELSE 0
  <2>1. asking = NoQuestion \/ drain.pending = NoQuestion
    BY DEF Asked
  <2>2. CASE ~HeldOf(e, id)
    <3>1. C = {}
      BY <2>2 DEF HeldOf, Holds
    <3> QED
      BY <2>2, <3>1, FS_EmptySet
  <2>3. CASE HeldOf(e, id)
    <3>1. C = {asking} \/ C = {drain.pending}
      BY <2>1, <2>3 DEF HeldOf, Holds
    <3>2. Cardinality(C) = 1
      BY <3>1, FS_Singleton
    <3> QED
      BY <2>3, <3>2
  <2> QED
    BY <2>2, <2>3
<1>4. Places(e, id) = Cardinality(A) + Cardinality(B) + Cardinality(C)
  BY Zenon DEF Places
<1>5. /\ Cardinality(A) = Hits(toEditor[e], RequestsOf(id))
      /\ Cardinality(B) = Hits(toHost[e], RepliesTo(from, id))
  BY <1>1, <1>2, Zenon DEF Hits
<1> HIDE DEF A, B, C, from
<1> QED
  BY <1>3, <1>4, <1>5 DEF InPlaces, from

LEMMA AskedSame ==
  ASSUME Asked, UNCHANGED <<asking, starts, turn>>, drain'.pending = drain.pending
  PROVE  Asked'
BY DEF Asked, Polled

LEMMA QuestionOwner ==
  ASSUME AInv, Asked, NEW q \in {asking, drain.pending}, q # NoQuestion
  PROVE  /\ q \in Question /\ q.ext \in Extensions /\ q.request \in Requests
         /\ q.request.from = <<q.ext, q.request.from[2]>> /\ q.request.from[2] \in Nat
         /\ q.request.from[2] <= starts[q.ext] /\ q.request.id \in Nat
<1>1. q \in Question
  BY DEF AInv, Types
<1>2. q.request \in Requests /\ q.ext \in Extensions
  BY <1>1 DEF Question
<1>3. q.request.from \in Extensions \X Nat /\ q.request.id \in Nat
  BY <1>2 DEF Requests, Starts
<1>4. q.request.from[1] = q.ext /\ q.request.from[2] <= starts[q.ext]
  BY DEF Asked
<1> QED
  BY <1>1, <1>2, <1>3, <1>4

\* A question of another extension is no question of this one.
LEMMA HoldsOwner ==
  ASSUME AInv, Asked, NEW q \in {asking, drain.pending}, NEW n, NEW id, NEW e \in Extensions,
         Holds(q, <<e, n>>, id)
  PROVE  q.ext = e /\ n <= starts[e]
<1>1. q # NoQuestion /\ q.request.from = <<e, n>>
  BY DEF Holds
<1> QED
  BY <1>1, QuestionOwner

\* A host that is stopped holds nothing and is owed nothing.
LEMMA StoppedOnce ==
  ASSUME AInv, NEW e \in Extensions, Stop(e)
  PROVE  Own(e)' /\ Once(e)'
<1>1. toEditor'[e] = <<>> /\ proc'[e] = NoProcess
  BY StopTyped DEF AInv
<1>2. DOMAIN <<>> = {}
  OBVIOUS
<1> QED
  BY <1>1, <1>2 DEF Own, Once, Open, Alive, NoProcess

LEMMA StoppedOthers ==
  ASSUME AInv, NEW e \in Extensions, NEW o \in Extensions, o # e, Stop(e)
  PROVE  toEditor'[o] = toEditor[o] /\ proc'[o] = proc[o] /\ toHost'[o] = toHost[o]
BY StopTyped DEF AInv

\* A new process has asked nothing, and no question is of it.
LEMMA StartedOnce ==
  ASSUME HInv, NEW e \in Extensions, NEW queued \in Seq(Commands), Start(e, queued),
         host[e].state = "none", UNCHANGED <<asking, drain>>
  PROVE  Own(e)' /\ Once(e)'
<1>1. AInv /\ Types /\ Asked /\ HostOK(e)
  BY DEF HInv, AInv
<1>2. /\ toHost'[e] = <<>> /\ toEditor'[e] = <<>>
      /\ starts'[e] = starts[e] + 1 /\ starts[e] \in Nat
      /\ proc'[e] = [NoProcess EXCEPT !.phase = "booting"]
  BY <1>1 DEF Start, Types, HostOK
<1>3. Open(e)' = {} /\ DOMAIN <<>> = {}
  BY <1>2 DEF NoProcess, Open
<1>4. Own(e)'
  BY <1>2, <1>3 DEF Own
<1>5. ASSUME NEW id \in Nat PROVE ~HeldOf(e, id)'
  <2>1. ASSUME NEW q \in {asking, drain.pending}, Holds(q, <<e, starts'[e]>>, id) PROVE FALSE
    <3>1. starts'[e] <= starts[e]
      BY <1>1, <2>1, HoldsOwner
    <3> QED
      BY <1>2, <3>1
  <2> QED
    BY <2>1 DEF HeldOf
<1>6. ASSUME NEW id \in Nat PROVE InPlaces(e, id)' = 0
  <2>1. /\ Hits(toEditor[e], RequestsOf(id))' = 0
        /\ Hits(toHost[e], RepliesTo(<<e, starts[e]>>, id))' = 0
    BY <1>2, HitsEmpty
  <2> QED
    BY <1>5, <2>1 DEF InPlaces
<1> QED
  BY <1>3, <1>4, <1>6 DEF Once

LEMMA RunCommandH ==
  ASSUME HInv, AInv', NEW c \in Commands, RunCommand(c)
  PROVE  HInv'
<1>0. PICK e \in Extensions : e = OwnerOf[c]
  BY ExtensionsAssumption
<1>1. AInv /\ Types /\ Asked /\ host[e] \in Host
  BY DEF HInv, AInv, Types
<1>2. /\ UNCHANGED <<asking, permissions, prompt, said, turn, drain>>
      /\ \/ /\ Execute(e, host[e], <<c>>) /\ UNCHANGED <<proc, toEditor, starts>>
         \/ UNCHANGED <<proc, toHost, toEditor, starts>>
         \/ host[e].state = "none" /\ Start(e, <<c>>)
  BY <1>0 DEF RunCommand, pollVars, procVars
<1>3. <<c>> \in Seq(Commands)
  OBVIOUS
<1>4. CASE /\ Execute(e, host[e], <<c>>) \/ toHost' = toHost
           /\ UNCHANGED <<proc, toEditor, starts>>
  <2>1. toHost' = toHost \/ \E orders \in Seq(Orders) : Send(e, orders)
    BY <1>1, <1>3, <1>4, ExecuteTyped
  <2>2. ASSUME NEW o \in Extensions
        PROVE  toHost'[o] = toHost[o] \/ \E orders \in Seq(Orders) : toHost'[o] = toHost[o] \o orders
    BY <1>1, <2>1 DEF Send, Types
  <2>3. \A o \in Extensions : Kept(o)
    BY <1>2, <1>4, <2>2, HeldSame, SameKept
  <2>4. Asked'
    BY <1>1, <1>2, <1>4, AskedSame
  <2> QED
    BY <2>3, <2>4, FrameOnce
<1>5. CASE host[e].state = "none" /\ Start(e, <<c>>)
  <2>1. Own(e)' /\ Once(e)'
    BY <1>2, <1>3, <1>5, StartedOnce
  <2>2. /\ UNCHANGED <<toHost, toEditor>> /\ starts'[e] = starts[e] + 1
        /\ \A o \in Extensions : o # e => proc'[o] = proc[o] /\ starts'[o] = starts[o]
    BY <1>1, <1>5 DEF Start, Types
  <2>3. \A o \in Extensions : o # e => Kept(o)
    BY <1>2, <2>2, HeldSame, SameKept
  <2>4. Asked'
    <3>1. \A o \in Extensions : starts[o] \in Nat /\ starts[o] <= starts'[o] /\ starts'[o] \in Nat
      <4>1. starts \in [Extensions -> Nat]
        BY <1>1 DEF Types
      <4>2. ASSUME NEW o \in Extensions
            PROVE  starts[o] \in Nat /\ starts[o] <= starts'[o] /\ starts'[o] \in Nat
        <5>1. CASE o = e
          BY <2>2, <4>1, <5>1
        <5>2. CASE o # e
          BY <2>2, <4>1, <5>2
        <5> QED
          BY <5>1, <5>2
      <4> QED
        BY <4>2
    <3>2. ASSUME NEW q \in {asking, drain.pending}, q # NoQuestion
          PROVE  q.request.from[1] = q.ext /\ q.request.from[2] <= starts'[q.ext]
      BY <1>1, <3>1, <3>2, QuestionOwner DEF Asked
    <3> QED
      BY <1>1, <1>2, <3>2 DEF Asked, Polled
  <2> QED
    BY <2>1, <2>3, <2>4, FrameOnce
<1> QED
  BY <1>2, <1>4, <1>5

LEMMA QuietH ==
  ASSUME HInv, AInv', UNCHANGED <<proc, toHost, toEditor, starts, asking>>,
         drain'.pending = drain.pending, turn' = turn \/ drain.pending = NoQuestion
  PROVE  HInv'
<1>1. \A o \in Extensions : Kept(o)
  BY HeldSame, SameKept
<1>2. Asked'
  BY DEF HInv, Asked, Polled
<1> QED
  BY <1>1, <1>2, FrameOnce

LEMMA UserQuietH ==
  ASSUME HInv, AInv',
         Poll \/ ClosePrompt \/ \E e \in Extensions, c \in Capabilities : ForgetPermission(e, c)
  PROVE  HInv'
<1>1. UNCHANGED <<proc, toHost, toEditor, starts, asking>>
  BY DEF Poll, ClosePrompt, ForgetPermission, editorVars, procVars
<1>2. CASE Poll
  <2>1. drain' = NewDrain /\ drain = NewDrain /\ NewDrain.pending = NoQuestion
    BY <1>2 DEF Poll, HInv, AInv, Polls, NewDrain
  <2> QED
    BY <1>1, <2>1, QuietH
<1>3. CASE ~Poll
  BY <1>1, <1>3, QuietH DEF ClosePrompt, ForgetPermission, pollVars
<1> QED
  BY <1>2, <1>3

\* The message a sequence grows by counts once, if it counts.
LEMMA ReplyCounts ==
  ASSUME AInv, NEW e \in Extensions, NEW reply \in Replies, NEW id \in Nat,
         toHost'[e] = Append(toHost[e], reply), starts'[e] = starts[e]
  PROVE  Hits(toHost[e], RepliesTo(<<e, starts[e]>>, id))'
           = Hits(toHost[e], RepliesTo(<<e, starts[e]>>, id))
             + IF reply.from = <<e, starts[e]>> /\ reply.id = id THEN 1 ELSE 0
<1> DEFINE R == RepliesTo(<<e, starts[e]>>, id)
<1>1. reply \in R <=> reply.from = <<e, starts[e]>> /\ reply.id = id
  BY DEF RepliesTo
<1>2. RepliesTo(<<e, starts[e]>>, id)' = R
  BY DEF RepliesTo
<1>3. toHost[e] \in Seq(FromEditor) /\ reply \in FromEditor
  BY HitsAre DEF FromEditor
<1> HIDE DEF R
<1>4. Hits(Append(toHost[e], reply), R) = Hits(toHost[e], R) + IF reply \in R THEN 1 ELSE 0
  BY <1>3, HitsAppend
<1>5. Hits(toHost[e], RepliesTo(<<e, starts[e]>>, id))' = Hits(Append(toHost[e], reply), R)
  BY <1>2
<1>6. Hits(toHost[e], RepliesTo(<<e, starts[e]>>, id)) = Hits(toHost[e], R)
  BY DEF R
<1> QED
  BY <1>1, <1>4, <1>5, <1>6

LEMMA AnswerConsentH ==
  ASSUME HInv, AInv', NEW allow \in BOOLEAN, AnswerConsent(allow)
  PROVE  HInv'
<1>0. PICK o \in Extensions : asking \in Question /\ o = asking.ext /\ asking # NoQuestion
  BY DEF AnswerConsent, HInv, AInv, Types, Question
<1> DEFINE q == asking
           h == [host[o] EXCEPT !.grants = Remember(@, q.capability, allow)]
           reply == IF Allowed(o, h, q.request) THEN Served(q.request) ELSE Refusal(q.request)
<1>1. AInv /\ Types /\ Asked /\ Idle /\ drain = NewDrain /\ UNCHANGED <<turn, drain, starts>>
  BY DEF AnswerConsent, HInv, AInv, Polls, pollVars
<1>2. drain.pending = NoQuestion
  BY <1>1 DEF NewDrain
<1>3. \/ /\ o \notin Running /\ asking' = NoQuestion
         /\ UNCHANGED <<proc, toHost, toEditor>>
      \/ /\ \E c : asking' = [q EXCEPT !.capability = c]
         /\ UNCHANGED <<proc, toHost, toEditor>>
      \/ asking' = NoQuestion /\ Send(o, <<reply>>) /\ UNCHANGED <<proc, toEditor>>
      \/ asking' = NoQuestion /\ Stop(o)
  BY <1>0 DEF AnswerConsent, procVars
<1>4. ASSUME NEW e \in Extensions, e # o, NEW id \in Nat
      PROVE  ~Holds(asking, <<e, starts[e]>>, id)
  <2>1. Holds(asking, <<e, starts[e]>>, id) => asking.ext = e
    BY <1>1, HoldsOwner
  <2> QED
    BY <1>0, <1>4, <2>1
<1> HIDE DEF h, reply, q
<1>5. CASE asking' = NoQuestion
  <2>1. \A e \in Extensions : e # o => HeldKept(e)
    <3>1. ~Holds(NoQuestion, <<1, 1>>, 1) /\ \A f, id : ~Holds(NoQuestion, f, id)
      BY DEF Holds
    <3>2. ASSUME NEW e \in Extensions, e # o, NEW id \in Nat
          PROVE  HeldOf(e, id)' <=> HeldOf(e, id)
      <4>1. HeldOf(e, id)' <=> FALSE
        BY <1>1, <1>2, <1>5, <3>1 DEF HeldOf
      <4>2. HeldOf(e, id) <=> FALSE
        BY <1>2, <1>4, <3>1, <3>2 DEF HeldOf
      <4> QED
        BY <4>1, <4>2
    <3> QED
      BY <3>2 DEF HeldKept
  <2>2. Asked'
    BY <1>1, <1>2, <1>5 DEF Asked
  <2>3. CASE o \notin Running /\ UNCHANGED <<proc, toHost, toEditor>>
    <3>1. ~Alive(o)
      BY <1>1, <2>3 DEF Running, AInv, HostOK, Alive
    <3>2. Own(o)' /\ Once(o)'
      BY <1>1, <2>3, <3>1 DEF HInv, Own, Once, Open, Alive
    <3>3. \A e \in Extensions : e # o => Kept(e)
      BY <1>1, <2>1, <2>3, SameKept
    <3> QED
      BY <2>2, <3>2, <3>3, FrameOnce
  <2>4. CASE Stop(o)
    <3>1. \A e \in Extensions : e # o => Kept(e)
      BY <1>1, <2>1, <2>4, StoppedOthers, SameKept
    <3> QED
      BY <1>1, <2>2, <2>4, <3>1, StoppedOnce, FrameOnce
  <2>5. CASE Send(o, <<reply>>) /\ UNCHANGED <<proc, toEditor>>
    <3>1. q.request \in Requests /\ q.request.id \in Nat
      BY <1>0 DEF Question, Requests, q
    <3>2. /\ reply \in Replies /\ reply.from = q.request.from /\ reply.id = q.request.id
          /\ <<reply>> \in Seq(FromEditor)
      BY <3>1, RepliesTyped DEF reply, Served, Refusal, Reply
    <3>3. toHost'[o] = Append(toHost[o], reply) /\ \A e \in Extensions : e # o => toHost'[e] = toHost[e]
      <4>1. toHost[o] \in Seq(FromEditor) /\ reply \in FromEditor
        BY <1>1, <3>2 DEF Types, FromEditor
      <4> QED
        BY <1>1, <2>5, <3>2, <4>1, SendTyped, AppendIsConcat
    <3>4. ASSUME NEW id \in Nat PROVE InPlaces(o, id)' = InPlaces(o, id)
      <4> DEFINE A == Hits(toEditor[o], RequestsOf(id))
                 B == Hits(toHost[o], RepliesTo(<<o, starts[o]>>, id))
                 n == IF reply.from = <<o, starts[o]>> /\ reply.id = id THEN 1 ELSE 0
      <4>1. Hits(toHost[o], RepliesTo(<<o, starts[o]>>, id))' = B + n
        BY <1>1, <3>2, <3>3, ReplyCounts
      <4>2. Hits(toEditor[o], RequestsOf(id))' = A
        BY <2>5 DEF RequestsOf
      <4>3. HeldOf(o, id) <=> reply.from = <<o, starts[o]>> /\ reply.id = id
        BY <1>0, <1>2, <3>2 DEF HeldOf, Holds, q
      <4>4. ~HeldOf(o, id)'
        BY <1>1, <1>2, <1>5 DEF HeldOf, Holds
      <4>5. A \in Nat /\ B \in Nat
        BY <1>1, HitsAre
      <4>6. InPlaces(o, id)' = A + (B + n) + 0
        BY <4>1, <4>2, <4>4 DEF InPlaces
      <4>7. InPlaces(o, id) = A + B + n
        BY <4>3 DEF InPlaces
      <4>8. n \in Nat
        OBVIOUS
      <4> HIDE DEF A, B, n
      <4> QED
        BY <4>5, <4>6, <4>7, <4>8
    <3>5. Own(o)' /\ Once(o)'
      BY <1>1, <2>5, <3>4 DEF HInv, Own, Once, Open, Alive
    <3>6. \A e \in Extensions : e # o => Kept(e)
      BY <1>1, <2>1, <2>5, <3>3, SameKept
    <3> QED
      BY <2>2, <3>5, <3>6, FrameOnce
  <2>6. CASE /\ \E c : asking' = [q EXCEPT !.capability = c]
             /\ UNCHANGED <<proc, toHost, toEditor>>
    <3>1. asking'.ext = asking.ext
      BY <1>0, <2>6 DEF q, Question
    <3> QED
      BY <1>0, <1>5, <3>1, ExtensionsAssumption DEF NoQuestion
  <2> QED
    BY <1>3, <2>3, <2>4, <2>5, <2>6
<1>6. CASE \E c : asking' = [q EXCEPT !.capability = c] /\ UNCHANGED <<proc, toHost, toEditor>>
  <2>1. asking'.ext = asking.ext /\ asking'.request = asking.request
    BY <1>0, <1>6 DEF q, Question
  <2>2. asking' # NoQuestion
    BY <1>0, <2>1, ExtensionsAssumption DEF NoQuestion
  <2>3. \A e \in Extensions : HeldKept(e)
    BY <1>0, <1>1, <2>1, <2>2 DEF HeldKept, HeldOf, Holds
  <2>4. Asked'
    BY <1>0, <1>1, <1>2, <2>1, <2>2 DEF Asked
  <2>5. \A e \in Extensions : Kept(e)
    BY <1>1, <1>6, <2>3, SameKept
  <2> QED
    BY <2>4, <2>5, FrameOnce
<1> QED
  BY <1>3, <1>5, <1>6

\* The steps of a poll that take no request off the line.
LEMMA EventKept ==
  ASSUME HInv, NEW e \in Extensions, NextEvent(e), Head(toEditor[e]).kind # "request",
         UNCHANGED toHost, drain'.pending = drain.pending
  PROVE  \A o \in Extensions : Kept(o)
<1> SUFFICES ASSUME NEW o \in Extensions PROVE Kept(o)
  OBVIOUS
<1>1. UNCHANGED <<asking, proc, starts>> /\ AInv
  BY DEF NextEvent, HInv
<1>2. HeldKept(o)
  BY <1>1, HeldSame
<1>3. /\ toEditor[e] # <<>> /\ toEditor'[e] = Tail(toEditor[e])
      /\ \A x \in Extensions : x # e => toEditor'[x] = toEditor[x]
  BY <1>1, NextEventTyped
<1>4. Head(toEditor[e]) \notin Requests
  BY DEF Requests
<1> QED
  BY <1>1, <1>2, <1>3, <1>4 DEF Kept, Alive

\* A request taken off the line, for which one reply is sent.
LEMMA AnsweredOnce ==
  ASSUME HInv, NEW e \in Extensions, NextEvent(e), Head(toEditor[e]).kind = "request",
         NEW reply \in Replies, Answer(e, reply), reply.from = Head(toEditor[e]).from,
         reply.id = Head(toEditor[e]).id
  PROVE  Own(e)' /\ Once(e)' /\ Asked' /\ \A o \in Extensions : o # e => Kept(o)
<1> DEFINE m == Head(toEditor[e])
<1>1. AInv /\ Types /\ Asked /\ Own(e) /\ Once(e) /\ m \in Requests
  BY HeldHost DEF HInv
<1>2. UNCHANGED <<asking, turn, proc, starts>> /\ drain'.pending = drain.pending
  BY <1>1, AnswerTyped DEF NextEvent
<1>3. /\ toEditor[e] # <<>> /\ toEditor'[e] = Tail(toEditor[e]) /\ toEditor[e] \in Seq(FromHost)
      /\ toEditor'[e] \in Seq(FromHost)
      /\ \A x \in Extensions : x # e => toEditor'[x] = toEditor[x]
  BY <1>1, NextEventTyped DEF Types
<1>4. /\ \A x \in Extensions : x # e => toHost'[x] = toHost[x]
      /\ Alive(e) => toHost'[e] = Append(toHost[e], reply)
  BY <1>1, AnswerTyped
<1>5. Asked'
  BY <1>1, <1>2, AskedSame
<1>6. \A o \in Extensions : o # e => Kept(o)
  BY <1>2, <1>3, <1>4, HeldSame, SameKept
<1>7. m.from = <<e, starts[e]>>
  <2>1. Len(toEditor[e]) \in Nat /\ Len(toEditor[e]) # 0 /\ DOMAIN toEditor[e] = 1..Len(toEditor[e])
    BY <1>3, LenProperties, EmptySeq
  <2>2. 1 \in DOMAIN toEditor[e] /\ m = toEditor[e][1]
    BY <1>3, <2>1
  <2> QED
    BY <1>1, <2>2 DEF Own
<1>8. Own(e)'
  <2>1. \A i \in DOMAIN toEditor'[e] :
          toEditor'[e][i].kind = "request" => toEditor'[e][i].from = <<e, starts[e]>>
    BY <1>1, <1>3, RequestsFrom DEF Own
  <2> QED
    BY <1>1, <1>2, <2>1 DEF Own, Open
<1>9. ASSUME Alive(e), NEW id \in Nat PROVE InPlaces(e, id)' = InPlaces(e, id)
  <2> DEFINE M == RequestsOf(id)
             T == Hits(Tail(toEditor[e]), M)
             B == Hits(toHost[e], RepliesTo(<<e, starts[e]>>, id))
             n == IF m.id = id THEN 1 ELSE 0
             k == IF HeldOf(e, id) THEN 1 ELSE 0
  <2>1. m \in M <=> m.id = id
    BY <1>1 DEF RequestsOf
  <2>2. RequestsOf(id)' = M
    BY DEF RequestsOf
  <2> HIDE DEF M, m
  <2>3. Hits(toEditor[e], M) = T + n
    BY <1>3, <2>1, HitsTail DEF m
  <2>4. Hits(toEditor[e], RequestsOf(id))' = T
    BY <1>3, <2>2
  <2>5. Hits(toHost[e], RepliesTo(<<e, starts[e]>>, id))' = B + n
    <3>1. Hits(toHost[e], RepliesTo(<<e, starts[e]>>, id))'
            = B + IF reply.from = <<e, starts[e]>> /\ reply.id = id THEN 1 ELSE 0
      BY <1>1, <1>2, <1>4, <1>9, ReplyCounts
    <3> QED
      BY <1>7, <3>1 DEF m
  <2>6. HeldOf(e, id)' <=> HeldOf(e, id)
    BY <1>2 DEF HeldOf, Holds
  <2>7. T \in Nat /\ B \in Nat /\ n \in Nat /\ k \in Nat
    BY <1>1, <1>3, HitsAre, HeadTail, HitsFinite
  <2>8. InPlaces(e, id)' = T + (B + n) + k
    BY <2>4, <2>5, <2>6 DEF InPlaces
  <2>9. InPlaces(e, id) = (T + n) + B + k
    BY <2>3 DEF InPlaces, M
  <2> HIDE DEF T, B, n, k
  <2> QED
    BY <2>7, <2>8, <2>9
<1>10. Once(e)'
  BY <1>1, <1>2, <1>9 DEF Once, Open, Alive
<1> QED
  BY <1>5, <1>6, <1>8, <1>10

\* A request taken off the line and held for the user.
LEMMA HeldOnce ==
  ASSUME HInv, NEW e \in Extensions, NextEvent(e), Head(toEditor[e]).kind = "request",
         NothingHeld, UNCHANGED toHost, drain'.pending \in Question,
         drain'.pending.ext = e, drain'.pending.request = Head(toEditor[e])
  PROVE  Own(e)' /\ Once(e)' /\ Asked' /\ \A o \in Extensions : o # e => Kept(o)
<1> DEFINE m == Head(toEditor[e])
<1>1. AInv /\ Types /\ Asked /\ Own(e) /\ Once(e) /\ m \in Requests
  BY HeldHost DEF HInv
<1>2. UNCHANGED <<asking, turn, proc, starts, toHost>> /\ Polled(e)
  BY DEF NextEvent
<1>3. /\ toEditor[e] # <<>> /\ toEditor'[e] = Tail(toEditor[e]) /\ toEditor[e] \in Seq(FromHost)
      /\ toEditor'[e] \in Seq(FromHost)
      /\ \A x \in Extensions : x # e => toEditor'[x] = toEditor[x]
  BY <1>1, NextEventTyped DEF Types
<1>4. asking = NoQuestion /\ drain.pending = NoQuestion /\ drain'.pending # NoQuestion
  BY ExtensionsAssumption DEF NothingHeld, NoQuestion
<1>7. m.from = <<e, starts[e]>> /\ starts[e] \in Nat
  <2>1. Len(toEditor[e]) \in Nat /\ Len(toEditor[e]) # 0 /\ DOMAIN toEditor[e] = 1..Len(toEditor[e])
    BY <1>3, LenProperties, EmptySeq
  <2>2. 1 \in DOMAIN toEditor[e] /\ m = toEditor[e][1]
    BY <1>3, <2>1
  <2> QED
    BY <1>1, <2>2 DEF Own, Types
<1>5. Asked'
  BY <1>2, <1>4, <1>7 DEF Asked, Polled
<1>a. \A o \in Extensions : \A id : ~HeldOf(o, id)
  BY <1>4 DEF HeldOf, Holds
<1>b. \A o \in Extensions : \A id : HeldOf(o, id)' <=> o = e /\ m.id = id
  <2>1. ASSUME NEW o \in Extensions, NEW id
        PROVE  HeldOf(o, id)' <=> Holds(drain'.pending, <<o, starts[o]>>, id)
    BY <1>2, <1>4 DEF HeldOf, Holds
  <2>2. ASSUME NEW o \in Extensions, NEW id
        PROVE  Holds(drain'.pending, <<o, starts[o]>>, id) <=> o = e /\ m.id = id
    BY <1>4, <1>7 DEF Holds
  <2> QED
    BY <2>1, <2>2
<1>6. \A o \in Extensions : o # e => Kept(o)
  <2>1. \A o \in Extensions : o # e => HeldKept(o)
    BY <1>a, <1>b DEF HeldKept
  <2> QED
    BY <1>2, <1>3, <2>1, SameKept
<1>8. Own(e)'
  <2>1. \A i \in DOMAIN toEditor'[e] :
          toEditor'[e][i].kind = "request" => toEditor'[e][i].from = <<e, starts[e]>>
    BY <1>1, <1>3, RequestsFrom DEF Own
  <2> QED
    BY <1>1, <1>2, <2>1 DEF Own, Open
<1>9. ASSUME NEW id \in Nat PROVE InPlaces(e, id)' = InPlaces(e, id)
  <2> DEFINE M == RequestsOf(id)
             T == Hits(Tail(toEditor[e]), M)
             B == Hits(toHost[e], RepliesTo(<<e, starts[e]>>, id))
             n == IF m.id = id THEN 1 ELSE 0
  <2>1. m \in M <=> m.id = id
    BY <1>1 DEF RequestsOf
  <2>2. RequestsOf(id)' = M /\ RepliesTo(<<e, starts[e]>>, id)' = RepliesTo(<<e, starts[e]>>, id)
    BY <1>2 DEF RequestsOf, RepliesTo
  <2>6. (HeldOf(e, id)' <=> m.id = id) /\ ~HeldOf(e, id)
    BY <1>a, <1>b
  <2> HIDE DEF M, m
  <2>3. Hits(toEditor[e], M) = T + n
    BY <1>3, <2>1, HitsTail DEF m
  <2>4. Hits(toEditor[e], RequestsOf(id))' = T
    BY <1>3, <2>2
  <2>5. Hits(toHost[e], RepliesTo(<<e, starts[e]>>, id))' = B
    BY <1>2, <2>2
  <2>7. T \in Nat /\ B \in Nat /\ n \in Nat
    BY <1>1, <1>3, HitsAre, HeadTail, HitsFinite
  <2>8. InPlaces(e, id)' = T + B + n
    BY <2>4, <2>5, <2>6 DEF InPlaces
  <2>9. InPlaces(e, id) = (T + n) + B + 0
    BY <2>3, <2>6 DEF InPlaces, M
  <2> HIDE DEF T, B, n
  <2> QED
    BY <2>7, <2>8, <2>9
<1>10. Once(e)'
  BY <1>1, <1>2, <1>9 DEF Once, Open, Alive
<1> QED
  BY <1>5, <1>6, <1>8, <1>10

LEMMA HandleH ==
  ASSUME HInv, AInv', NEW e \in Extensions, Handle(e)
  PROVE  HInv'
<1> DEFINE m == Head(toEditor[e])
<1>1. AInv /\ Types /\ Asked /\ NextEvent(e)
  BY DEF Handle, HandleRefused, HandleAllowed, HandleConsent, HandleResponse, HandleReady,
         HandleLog, HandleClosed, HInv, AInv
<1>2. m.kind = "request" => m \in Requests
  BY <1>1, HeldHost
<1> HIDE DEF m
<1>3. CASE \E reply \in Replies :
             /\ Answer(e, reply) /\ reply.from = m.from /\ reply.id = m.id
             /\ m.kind = "request"
  BY <1>1, <1>3, AnsweredOnce, FrameOnce DEF m
<1>4. CASE HandleRefused(e) \/ HandleAllowed(e)
  <2>1. m.kind = "request" /\ \E reply \in {Refusal(m), Served(m)} : Answer(e, reply)
    BY <1>4 DEF HandleRefused, HandleAllowed, m
  <2>2. Refusal(m) \in Replies /\ Served(m) \in Replies
    BY <1>2, <2>1, RepliesTyped
  <2>3. /\ Refusal(m).from = m.from /\ Refusal(m).id = m.id
        /\ Served(m).from = m.from /\ Served(m).id = m.id
    BY DEF Refusal, Served, Reply
  <2> QED
    BY <1>3, <2>1, <2>2, <2>3
<1>5. CASE HandleConsent(e)
  <2>1. m.kind = "request"
    BY <1>5 DEF HandleConsent, m
  <2>2. CASE ~NothingHeld
    <3>1. Answer(e, Refusal(m))
      BY <1>5, <2>2 DEF HandleConsent, Decline, m
    <3>2. Refusal(m) \in Replies /\ Refusal(m).from = m.from /\ Refusal(m).id = m.id
      BY <1>2, <2>1, RepliesTyped DEF Refusal, Reply
    <3> QED
      BY <1>3, <2>1, <3>1, <3>2
  <2>3. CASE NothingHeld
    <3>1. /\ UNCHANGED toHost /\ drain'.pending.ext = e /\ drain'.pending.request = m
      BY <1>5, <2>3 DEF HandleConsent, m
    <3>2. drain'.pending \in Question
      <4>1. drain'.pending # NoQuestion
        BY <3>1, ExtensionsAssumption DEF NoQuestion
      <4> QED
        BY <4>1 DEF AInv, Types
    <3> QED
      BY <1>1, <2>1, <2>3, <3>1, <3>2, HeldOnce, FrameOnce DEF m
  <2> QED
    BY <2>2, <2>3
<1>6. CASE HandleResponse(e) \/ HandleReady(e) \/ HandleLog(e) \/ HandleClosed(e)
  <2>1. m.kind # "request" /\ UNCHANGED toHost
    BY <1>6 DEF HandleResponse, HandleReady, HandleLog, HandleClosed, m
  <2>2. drain'.pending = drain.pending
    <3>1. CASE Handled
      BY <1>1, <3>1, HandledTyped
    <3>2. CASE drain' = [drain EXCEPT !.dead = TRUE]
      BY <1>1, <3>2 DEF Types
    <3> QED
      BY <1>6, <3>1, <3>2 DEF HandleResponse, HandleReady, HandleLog, HandleClosed
  <2>3. Asked'
    BY <1>1, <2>2, AskedSame DEF NextEvent
  <2> QED
    BY <1>1, <2>1, <2>2, <2>3, EventKept, FrameOnce DEF m
<1> QED
  BY <1>4, <1>5, <1>6 DEF Handle

LEMMA FinishH ==
  ASSUME HInv, AInv', NEW e \in Extensions, Finish(e)
  PROVE  HInv'
<1>1. AInv /\ Types /\ Asked /\ AfterDrain(e) /\ host[e] \in Host
  BY DEF Finish, DropDead, TimeOut, Activate, RunQueued, HInv, AInv, Types
<1>2. Polled(e) /\ drain'.pending = NoQuestion /\ starts' = starts
  BY <1>1 DEF AfterDrain, NewDrain
<1>3. drain.pending # NoQuestion => drain.pending.ext = e /\ asking = NoQuestion
  <2>1. ASSUME drain.pending # NoQuestion PROVE drain.pending.ext = e
    <3>1. Polled(drain.pending.ext)
      BY <1>1, <2>1 DEF Asked
    <3>2. turn \subseteq Nat
      BY <1>1, ExtensionsAssumption DEF Types, Running
    <3>3. drain.pending.ext <= e /\ e <= drain.pending.ext /\ e \in Nat /\ drain.pending.ext \in Nat
      BY <1>2, <3>1, <3>2 DEF Polled
    <3> QED
      BY <3>3
  <2> QED
    BY <1>1, <2>1 DEF Asked
<1>4. CASE DropDead(e) \/ TimeOut(e)
  <2>1. Stop(e) /\ asking' = asking
    BY <1>4 DEF DropDead, TimeOut
  <2>2. ASSUME NEW o \in Extensions, o # e PROVE HeldKept(o)
    <3>1. ASSUME NEW id \in Nat PROVE ~Holds(drain.pending, <<o, starts[o]>>, id)
      <4>1. Holds(drain.pending, <<o, starts[o]>>, id)
              => drain.pending.ext = o /\ drain.pending # NoQuestion
        BY <1>1, HoldsOwner DEF Holds
      <4> QED
        BY <1>3, <2>2, <4>1
    <3>2. ~\E id : Holds(NoQuestion, <<o, starts[o]>>, id)
      BY DEF Holds
    <3> QED
      BY <1>2, <2>1, <3>1, <3>2 DEF HeldKept, HeldOf
  <2>3. \A o \in Extensions : o # e => Kept(o)
    BY <1>1, <1>2, <2>1, <2>2, StoppedOthers, SameKept
  <2>4. Asked'
    BY <1>1, <1>2, <2>1 DEF Asked
  <2> QED
    BY <1>1, <2>1, <2>3, <2>4, StoppedOnce, FrameOnce
<1>5. CASE Activate(e) \/ RunQueued(e)
  <2>1. AskPending /\ UNCHANGED <<proc, toEditor>>
    BY <1>5 DEF Activate, RunQueued
  <2>2. toHost' = toHost \/ \E orders \in Seq(Orders) : Send(e, orders)
    <3>1. CASE Activate(e)
      <4> DEFINE order == [kind |-> "activate", id |-> host[e].nextId]
      <4>1. <<order>> \in Seq(Orders)
        BY <1>1 DEF Host, Orders
      <4>2. Send(e, <<order>>)
        BY <3>1 DEF Activate
      <4> HIDE DEF order
      <4> QED
        BY <4>1, <4>2
    <3>2. CASE RunQueued(e)
      <4> DEFINE h == [host[e] EXCEPT !.queued = <<>>]
      <4>1. (Execute(e, h, host[e].queued) \/ toHost' = toHost) /\ host[e].queued \in Seq(Commands)
        BY <1>1, <3>2 DEF RunQueued, Host
      <4>2. h \in Host
        BY <1>1, ProcessTypes DEF Host
      <4> HIDE DEF h
      <4> QED
        BY <1>1, <4>1, <4>2, ExecuteTyped
    <3> QED
      BY <1>5, <3>1, <3>2
  <2>3. ASSUME NEW o \in Extensions
        PROVE  toHost'[o] = toHost[o] \/ \E orders \in Seq(Orders) : toHost'[o] = toHost[o] \o orders
    BY <1>1, <2>2 DEF Send, Types
  <2>4. \A o \in Extensions : HeldKept(o)
    <3>1. ~\E from, id : Holds(NoQuestion, from, id)
      BY DEF Holds
    <3>2. \/ asking' = drain.pending /\ asking = NoQuestion
          \/ asking' = asking /\ drain.pending = NoQuestion
      BY <1>3, <2>1 DEF AskPending
    <3> QED
      BY <1>2, <3>1, <3>2 DEF HeldKept, HeldOf
  <2>5. Asked'
    BY <1>1, <1>2, <2>1 DEF Asked, AskPending
  <2>6. \A o \in Extensions : Kept(o)
    BY <1>2, <2>1, <2>3, <2>4, SameKept
  <2> QED
    BY <2>5, <2>6, FrameOnce
<1> QED
  BY <1>4, <1>5 DEF Finish

(***************************************************************************)
(* The host processes.                                                     *)
(***************************************************************************)
\* A process that says something that is no request.
LEMMA SaysOnce ==
  ASSUME HInv, AInv', NEW e \in Extensions, NEW notice \in FromHost, notice \notin Requests,
         Emit(e, notice) \/ UNCHANGED toEditor, UNCHANGED <<asking, drain, starts, turn>>,
         proc'[e].waiting = proc[e].waiting, proc'[e].next = proc[e].next,
         proc'[e].misled = proc[e].misled, Alive(e)' <=> Alive(e),
         \/ UNCHANGED toHost
         \/ /\ toHost[e] # <<>> /\ Head(toHost[e]) \notin Replies
            /\ toHost' = [toHost EXCEPT ![e] = Tail(@)],
         \A o \in Extensions : o # e => proc'[o] = proc[o]
  PROVE  HInv'
<1>1. AInv /\ Types /\ Asked
  BY DEF HInv, AInv
<1>2. \A o \in Extensions : HeldKept(o)
  BY HeldSame
<1>3. /\ toEditor'[e] = toEditor[e] \/ toEditor'[e] = Append(toEditor[e], notice)
      /\ \A o \in Extensions : o # e => toEditor'[o] = toEditor[o]
  BY <1>1, EmitTyped
<1>4. /\ \/ toHost'[e] = toHost[e]
         \/ toHost[e] # <<>> /\ Head(toHost[e]) \notin Replies /\ toHost'[e] = Tail(toHost[e])
      /\ \A o \in Extensions : o # e => toHost'[o] = toHost[o]
  BY <1>1 DEF Types
<1>5. Kept(e)
  BY <1>2, <1>3, <1>4 DEF Kept
<1>6. \A o \in Extensions : o # e => Kept(o)
  BY <1>2, <1>3, <1>4, SameKept
<1>7. Asked'
  BY <1>1, AskedSame
<1> QED
  BY <1>5, <1>6, <1>7, FrameOnce

LEMMA OthersKept ==
  ASSUME NEW e \in Extensions, UNCHANGED <<asking, drain, starts>>,
         \A o \in Extensions : o # e =>
            toEditor'[o] = toEditor[o] /\ toHost'[o] = toHost[o] /\ proc'[o] = proc[o]
  PROVE  \A o \in Extensions : o # e => Kept(o)
BY HeldSame, SameKept

\* A reply that arrives is the one to a request the process waits for.
LEMMA ReceivedOnce ==
  ASSUME HInv, AInv', NEW e \in Extensions, Alive(e), toHost[e] # <<>>,
         Head(toHost[e]).kind = "response", UNCHANGED <<asking, drain, starts, turn, toEditor>>,
         toHost' = [toHost EXCEPT ![e] = Tail(@)], Settle(e, Head(toHost[e]))
  PROVE  HInv'
<1> DEFINE m == Head(toHost[e])
           R(id) == RepliesTo(<<e, starts[e]>>, id)
<1>1. AInv /\ Types /\ Asked /\ Own(e) /\ Once(e)
  BY DEF HInv, AInv
<1>2. m \in Replies /\ m.id \in Nat /\ toHost[e] \in Seq(FromEditor)
  <2>1. toHost[e] \in Seq(FromEditor) /\ m \in FromEditor
    BY <1>1, HeadTail DEF Types
  <2> QED
    BY <2>1 DEF FromEditor, Orders, Replies
<1>3. /\ proc'[e].waiting = proc[e].waiting \ {m.id} /\ proc'[e].next = proc[e].next
      /\ proc'[e].misled = IF IsFor(e, m) THEN proc[e].misled \ {m.id}
                           ELSE proc[e].misled \cup ({m.id} \cap proc[e].waiting)
      /\ proc'[e].phase = proc[e].phase
      /\ \A o \in Extensions : o # e => proc'[o] = proc[o]
  <2> HIDE DEF m
  <2> QED
    BY <1>1 DEF Types, Proc, Settle, m
<1>4. Open(e)' = IF IsFor(e, m) THEN Open(e) \ {m.id} ELSE Open(e)
  <2> HIDE DEF m
  <2> QED
    BY <1>3 DEF Open
<1>5. /\ toHost'[e] = Tail(toHost[e])
      /\ \A o \in Extensions : o # e => toHost'[o] = toHost[o]
  BY <1>1 DEF Types
<1>6. Own(e)'
  BY <1>1, <1>3, <1>4 DEF Own
<1>7. ASSUME NEW id \in Nat
      PROVE  InPlaces(e, id)' = IF id \in Open(e)' THEN 1 ELSE 0
  <2> DEFINE A == Hits(toEditor[e], RequestsOf(id))
             T == Hits(Tail(toHost[e]), R(id))
             n == IF IsFor(e, m) /\ m.id = id THEN 1 ELSE 0
             k == IF HeldOf(e, id) THEN 1 ELSE 0
  <2>1. m \in R(id) <=> IsFor(e, m) /\ m.id = id
    BY <1>2 DEF RepliesTo, IsFor
  <2>2. RequestsOf(id)' = RequestsOf(id) /\ RepliesTo(<<e, starts[e]>>, id)' = R(id)
    BY DEF RequestsOf, RepliesTo
  <2> HIDE DEF m, R
  <2>3. Hits(toHost[e], R(id)) = T + n
    BY <1>2, <2>1, HitsTail DEF m
  <2>4. Hits(toHost[e], RepliesTo(<<e, starts[e]>>, id))' = T
    BY <1>5, <2>2
  <2>5. Hits(toEditor[e], RequestsOf(id))' = A
    BY <2>2
  <2>6. HeldOf(e, id)' <=> HeldOf(e, id)
    BY DEF HeldOf, Holds
  <2>7. T \in Nat /\ A \in Nat /\ n \in {0, 1} /\ k \in {0, 1}
    BY <1>1, <1>2, HitsAre, HeadTail, HitsFinite
  <2>8. InPlaces(e, id)' = A + T + k
    BY <2>4, <2>5, <2>6 DEF InPlaces
  <2>9. InPlaces(e, id) = A + (T + n) + k
    BY <2>3 DEF InPlaces, R
  <2>10. InPlaces(e, id) = IF id \in Open(e) THEN 1 ELSE 0
    BY <1>1, <1>7 DEF Once
  <2>11. id \in Open(e)' <=> id \in Open(e) /\ ~(IsFor(e, m) /\ m.id = id)
    BY <1>4
  <2> HIDE DEF A, T, k
  <2>12. CASE ~(IsFor(e, m) /\ m.id = id)
    BY <2>7, <2>8, <2>9, <2>10, <2>11, <2>12
  <2>13. CASE IsFor(e, m) /\ m.id = id
    BY <2>7, <2>8, <2>9, <2>10, <2>11, <2>13
  <2> QED
    BY <2>12, <2>13
<1>8. Once(e)'
  BY <1>7 DEF Once
<1>9. \A o \in Extensions : o # e => Kept(o)
  BY <1>3, <1>5, OthersKept
<1>10. Asked'
  BY <1>1, AskedSame
<1> QED
  BY <1>6, <1>8, <1>9, <1>10, FrameOnce

\* A request that is made has an id of its own.
LEMMA AskedOnce ==
  ASSUME HInv, AInv', NEW e \in Extensions, NEW r \in Requests, Emit(e, r),
         r.id = proc[e].next, r.from = <<e, starts[e]>>, Alive(e),
         UNCHANGED <<asking, drain, starts, turn, toHost>>,
         proc'[e].next = proc[e].next + 1, proc'[e].misled = proc[e].misled,
         proc'[e].waiting = proc[e].waiting \cup {r.id},
         \A o \in Extensions : o # e => proc'[o] = proc[o]
  PROVE  HInv'
<1>1. AInv /\ Types /\ Asked /\ Own(e) /\ Once(e) /\ proc[e].next \in Nat
      /\ Open(e) \subseteq Nat /\ Open(e)' = Open(e) \cup {r.id}
  BY DEF HInv, AInv, Types, Proc, Open
<1>2. /\ r \in FromHost /\ toEditor[e] \in Seq(FromHost) /\ toEditor'[e] \in Seq(FromHost)
      /\ toEditor'[e] = Append(toEditor[e], r)
      /\ \A o \in Extensions : o # e => toEditor'[o] = toEditor[o]
  BY <1>1, EmitTyped DEF FromHost, Types
<1>3. Own(e)'
  <2>1. \A i \in DOMAIN toEditor'[e] :
          toEditor'[e][i].kind = "request" => toEditor'[e][i].from = <<e, starts[e]>>
    BY <1>1, <1>2, RequestsFrom DEF Own
  <2>2. \A id \in Open(e)' : id < proc'[e].next
    BY <1>1 DEF Own
  <2> QED
    BY <2>1, <2>2 DEF Own
<1>4. r.id \notin Open(e)
  BY <1>1 DEF Own
<1>5. ASSUME NEW id \in Nat
      PROVE  InPlaces(e, id)' = IF id \in Open(e)' THEN 1 ELSE 0
  <2> DEFINE M == RequestsOf(id)
             A == Hits(toEditor[e], M)
             B == Hits(toHost[e], RepliesTo(<<e, starts[e]>>, id))
             n == IF r.id = id THEN 1 ELSE 0
             k == IF HeldOf(e, id) THEN 1 ELSE 0
  <2>1. r \in M <=> r.id = id
    BY DEF RequestsOf
  <2>2. RequestsOf(id)' = M /\ RepliesTo(<<e, starts[e]>>, id)' = RepliesTo(<<e, starts[e]>>, id)
    BY DEF RequestsOf, RepliesTo
  <2> HIDE DEF M
  <2>3. Hits(Append(toEditor[e], r), M) = A + n
    BY <1>2, <2>1, HitsAppend
  <2>4. Hits(toEditor[e], RequestsOf(id))' = A + n
    BY <1>2, <2>2, <2>3
  <2>5. Hits(toHost[e], RepliesTo(<<e, starts[e]>>, id))' = B
    BY <2>2
  <2>6. HeldOf(e, id)' <=> HeldOf(e, id)
    BY DEF HeldOf, Holds
  <2>7. A \in Nat /\ B \in Nat /\ n \in {0, 1} /\ k \in {0, 1}
    BY <1>1, HitsAre DEF M
  <2>8. InPlaces(e, id)' = (A + n) + B + k
    BY <2>4, <2>5, <2>6 DEF InPlaces
  <2>9. InPlaces(e, id) = A + B + k
    BY DEF InPlaces, M
  <2>10. InPlaces(e, id) = IF id \in Open(e) THEN 1 ELSE 0
    BY <1>1, <1>5 DEF Once
  <2> HIDE DEF A, B, k
  <2>13. (id \in Open(e)') <=> (id \in Open(e) \/ id = r.id)
    BY <1>1
  <2>11. CASE r.id = id
    BY <1>4, <2>7, <2>8, <2>9, <2>10, <2>11, <2>13
  <2>12. CASE r.id # id
    BY <2>7, <2>8, <2>9, <2>10, <2>12, <2>13
  <2> QED
    BY <2>11, <2>12
<1>6. Once(e)'
  BY <1>5 DEF Once
<1>7. \A o \in Extensions : o # e => Kept(o)
  BY <1>2, OthersKept
<1>8. Asked'
  BY <1>1, AskedSame
<1> QED
  BY <1>3, <1>6, <1>7, <1>8, FrameOnce

LEMMA ProcessH ==
  ASSUME HInv, AInv', NEW e \in Extensions, Process(e)
  PROVE  HInv'
<1> DEFINE p == proc[e]
           m == Head(toHost[e])
<1>1. /\ AInv /\ Types /\ Asked /\ p \in Proc /\ proc \in [Extensions -> Proc]
      /\ toHost \in [Extensions -> Seq(FromEditor)] /\ UNCHANGED <<asking, drain, starts, turn>>
  BY DEF HInv, AInv, Types, Process, Boot, Receive, Log, Die, Ask, Return, editorVars, pollVars
<1>n. \A notice \in Notices \cup Answered : notice \in FromHost /\ notice \notin Requests
  BY DEF FromHost, Notices, Answered, Requests
<1>2. CASE Boot(e)
  <2>1. /\ p.phase = "booting" /\ proc' = [proc EXCEPT ![e].phase = "ready"]
        /\ Emit(e, [kind |-> "ready"]) /\ UNCHANGED toHost
    BY <1>2 DEF Boot
  <2>2. [kind |-> "ready"] \in Notices
    BY DEF Notices
  <2>3. /\ proc'[e].waiting = p.waiting /\ proc'[e].next = p.next /\ proc'[e].misled = p.misled
        /\ proc'[e].phase = "ready"
        /\ \A o \in Extensions : o # e => proc'[o] = proc[o]
    BY <1>1, <2>1 DEF Proc
  <2>4. Alive(e)' <=> Alive(e)
    BY <2>1, <2>3 DEF Alive
  <2> QED
    BY <1>1, <1>n, <2>1, <2>2, <2>3, <2>4, SaysOnce
<1>3. CASE Receive(e)
  <2>1. /\ Alive(e) /\ toHost[e] # <<>> /\ toHost' = [toHost EXCEPT ![e] = Tail(@)]
        /\ \/ m.kind = "response" /\ Settle(e, m) /\ UNCHANGED toEditor
           \/ /\ m.kind = "activate"
              /\ proc' = [proc EXCEPT ![e].phase = "loaded", ![e].owed = @ \cup {m}]
              /\ UNCHANGED toEditor
           \/ m.kind = "activate" /\ Emit(e, Answers(m.id, TRUE)) /\ UNCHANGED proc
           \/ /\ m.kind = "execute"
              /\ proc' = [proc EXCEPT ![e].owed = @ \cup {m}] /\ UNCHANGED toEditor
    BY <1>3 DEF Receive
  <2>2. CASE m.kind = "response"
    BY <1>1, <2>1, <2>2, ReceivedOnce
  <2>3. CASE m.kind # "response"
    <3>1. m \in FromEditor
      BY <1>1, <2>1, HeadTail
    <3>2. m \notin Replies /\ m.id \in Nat
      BY <2>3, <3>1 DEF FromEditor, Replies, Orders
    <3>3. Answers(m.id, TRUE) \in Answered /\ [kind |-> "log"] \in Notices
      BY <3>2 DEF Answers, Answered, Notices
    <3> HIDE DEF m
    <3>4. \/ UNCHANGED proc
          \/ proc' = [proc EXCEPT ![e].phase = "loaded", ![e].owed = @ \cup {m}]
          \/ proc' = [proc EXCEPT ![e].owed = @ \cup {m}]
      BY <2>1, <2>3
    <3>5. /\ proc'[e].waiting = p.waiting /\ proc'[e].next = p.next /\ proc'[e].misled = p.misled
          /\ proc'[e].phase \in {p.phase, "loaded"}
          /\ \A o \in Extensions : o # e => proc'[o] = proc[o]
      BY <1>1, <3>4 DEF Proc
    <3>6. Alive(e)' <=> Alive(e)
      BY <2>1, <3>5 DEF Alive
    <3>7. Emit(e, Answers(m.id, TRUE)) \/ UNCHANGED toEditor
      BY <2>1, <2>3
    <3>8. m = Head(toHost[e])
      BY DEF m
    <3> QED
      BY <1>1, <1>n, <2>1, <3>2, <3>3, <3>5, <3>6, <3>7, <3>8, SaysOnce
  <2> QED
    BY <2>2, <2>3
<1>4. CASE Log(e)
  <2>1. Emit(e, [kind |-> "log"]) /\ UNCHANGED <<proc, toHost>>
    BY <1>4 DEF Log
  <2>2. [kind |-> "log"] \in Notices /\ (Alive(e)' <=> Alive(e))
    BY <2>1 DEF Notices, Alive
  <2> QED
    BY <1>1, <1>n, <2>1, <2>2, SaysOnce
<1>5. CASE Die(e)
  <2>1. /\ proc' = [proc EXCEPT ![e] = [NoProcess EXCEPT !.phase = "exited"]]
        /\ toHost' = [toHost EXCEPT ![e] = <<>>] /\ Emit(e, [kind |-> "closed"])
    BY <1>5 DEF Die
  <2>2. /\ proc'[e] = [NoProcess EXCEPT !.phase = "exited"]
        /\ \A o \in Extensions : o # e => proc'[o] = proc[o] /\ toHost'[o] = toHost[o]
    BY <1>1, <2>1
  <2>3. proc'[e].phase = "exited" /\ Open(e)' = {}
    BY <2>2 DEF NoProcess, Open
  <2>4. [kind |-> "closed"] \in FromHost /\ [kind |-> "closed"].kind # "request"
    BY DEF FromHost, Notices
  <2> DEFINE closed == [kind |-> "closed"]
  <2>5. /\ toEditor[e] \in Seq(FromHost) /\ toEditor'[e] \in Seq(FromHost)
        /\ toEditor'[e] = Append(toEditor[e], closed)
        /\ \A o \in Extensions : o # e => toEditor'[o] = toEditor[o]
    BY <1>1, <2>1, <2>4, EmitTyped DEF Types
  <2>6. closed \in FromHost /\ closed.kind # "request"
    BY <2>4
  <2> HIDE DEF closed
  <2>7. \A i \in DOMAIN toEditor'[e] :
          toEditor'[e][i].kind = "request" => toEditor'[e][i].from = <<e, starts[e]>>
    BY <2>5, <2>6, RequestsFrom DEF HInv, Own
  <2>8. Own(e)' /\ Once(e)'
    BY <1>1, <2>3, <2>7 DEF Own, Once, Alive
  <2>9. \A o \in Extensions : o # e => Kept(o)
    BY <1>1, <2>2, <2>5, OthersKept
  <2> QED
    BY <1>1, <2>8, <2>9, AskedSame, FrameOnce
<1>6. ASSUME NEW call \in Calls[e], Ask(e, Request(e, call)) PROVE HInv'
  <2> DEFINE r == Request(e, call)
  <2>1. r \in Requests /\ r.id = p.next /\ r.from = <<e, starts[e]>>
    <3>1. call \in Methods /\ starts[e] \in Nat /\ p.next \in Nat
      BY <1>1, ExtensionsAssumption DEF Types, Proc
    <3>2. /\ call.method \in {"call", "unknown"} \cup Commands
          /\ call.needs \in Seq(Capabilities) /\ <<e, starts[e]>> \in Starts
      BY <3>1 DEF Methods, Starts
    <3> QED
      BY <3>1, <3>2 DEF Request, Requests
  <2>2. /\ p.phase = "loaded" /\ Emit(e, r) /\ UNCHANGED toHost
        /\ proc' = [proc EXCEPT ![e].next = @ + 1, ![e].waiting = @ \cup {r.id}]
    BY <1>6 DEF Ask, Up
  <2> HIDE DEF r
  <2>3. /\ proc'[e].next = p.next + 1 /\ proc'[e].waiting = p.waiting \cup {r.id}
        /\ proc'[e].misled = p.misled
        /\ \A o \in Extensions : o # e => proc'[o] = proc[o]
    BY <1>1, <2>2 DEF Proc
  <2>4. Alive(e)
    BY <2>2 DEF Alive
  <2> QED
    BY <1>1, <2>1, <2>2, <2>3, <2>4, AskedOnce
<1>7. ASSUME NEW order \in proc[e].owed, NEW ok \in BOOLEAN, Return(e, order, ok) PROVE HInv'
  <2>1. /\ Emit(e, Answers(order.id, ok)) /\ UNCHANGED toHost
        /\ proc' = [proc EXCEPT ![e].owed = @ \ {order}]
    BY <1>7 DEF Return
  <2>2. Answers(order.id, ok) \in Answered
    BY <1>1, <1>7 DEF Answers, Answered, Proc, Orders
  <2>3. /\ proc'[e].waiting = p.waiting /\ proc'[e].next = p.next /\ proc'[e].misled = p.misled
        /\ proc'[e].phase = p.phase
        /\ \A o \in Extensions : o # e => proc'[o] = proc[o]
    BY <1>1, <2>1 DEF Proc
  <2>4. Alive(e)' <=> Alive(e)
    BY <2>3 DEF Alive
  <2> QED
    BY <1>1, <1>n, <2>1, <2>2, <2>3, <2>4, SaysOnce
<1>8. CASE \E order \in proc[e].owed, ok \in BOOLEAN : Return(e, order, ok)
  BY <1>7, <1>8, Zenon
<1> QED
  BY <1>2, <1>3, <1>4, <1>5, <1>6, <1>8, Zenon DEF Process

LEMMA InitHInv == Init => HInv
<1> SUFFICES ASSUME Init PROVE HInv
  OBVIOUS
<1>1. AInv
  BY InitAInv
<1>2. Asked
  BY DEF Init, Asked, NewDrain
<1>3. ASSUME NEW e \in Extensions PROVE Own(e) /\ Once(e)
  <2>1. toEditor[e] = <<>> /\ proc[e] = NoProcess /\ DOMAIN <<>> = {}
    BY DEF Init
  <2> QED
    BY <2>1 DEF Own, Once, Open, Alive, NoProcess
<1> QED
  BY <1>1, <1>2, <1>3 DEF HInv

LEMMA NextHInv == HInv /\ [Next]_vars => HInv'
<1> SUFFICES ASSUME HInv, [Next]_vars PROVE HInv'
  OBVIOUS
<1>1. AInv'
  BY NextAInv DEF HInv
<1>2. CASE UNCHANGED vars
  BY <1>1, <1>2, QuietH DEF vars, editorVars, pollVars, procVars
<1>3. CASE User
  BY <1>1, <1>3, RunCommandH, AnswerConsentH, UserQuietH DEF User
<1>4. CASE Poll
  BY <1>1, <1>4, UserQuietH
<1> QED
  BY <1>1, <1>2, <1>3, <1>4, HandleH, FinishH, ProcessH DEF Next

\* A request is in one place until its own reply reaches the process that made
\* it, and in none afterwards, however many polls, questions and restarts come
\* between; that the process has been given the reply of an earlier one for it
\* changes nothing.
THEOREM RequestsAreKept == Spec => []EachRequestHeldOnce
<1>1. Init => HInv
  BY InitHInv
<1>2. HInv /\ [Next]_vars => HInv'
  BY NextHInv
<1>3. HInv => EachRequestHeldOnce
  <2> SUFFICES ASSUME HInv PROVE EachRequestHeldOnce
    OBVIOUS
  <2>1. AInv /\ Asked
    BY DEF HInv
  <2>2. TypeOK
    <3>1. ASSUME NEW e \in Extensions
          PROVE  /\ host[e].state \in {"none", "starting", "activating", "active"}
                 /\ host[e].registered \subseteq Commands /\ host[e].queued \in Seq(Commands)
                 /\ host[e].grants.allowed \cap host[e].grants.denied = {}
                 /\ (host[e].state = "none") = (proc[e].phase = "none")
                 /\ e \in Running => permissions[e] = host[e].grants
      <4>1. host[e] \in Host /\ HostOK(e)
        BY <2>1 DEF AInv, Types
      <4> QED
        BY <4>1 DEF Host, HostOK, Running
    <3>2. turn \subseteq Running /\ prompt \in {"none", "consent"} /\ (Idle => drain = NewDrain)
      BY <2>1 DEF AInv, Types, Polls
    <3> QED
      BY <3>1, <3>2 DEF TypeOK
  <2>3. ASSUME NEW e \in Extensions, Alive(e), NEW id \in 1..(proc[e].next - 1)
        PROVE  Places(e, id) = IF id \in proc[e].waiting \cup proc[e].misled THEN 1 ELSE 0
    <3>1. id \in Nat
      BY <2>1 DEF AInv, Types, Proc
    <3>2. Places(e, id) = InPlaces(e, id)
      BY <2>1, PlacesAre
    <3> QED
      BY <2>3, <3>1, <3>2 DEF HInv, Once, Open
  <2> QED
    BY <2>2, <2>3 DEF EachRequestHeldOnce
<1> QED
  BY <1>1, <1>2, <1>3, PTL DEF Spec
=============================================================================
