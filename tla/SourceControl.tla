---------------------------- MODULE SourceControl ----------------------------
(***************************************************************************)
(* Git beside the editor: the worker of crates/deco-tui/src/scm.rs, what   *)
(* the session keeps of its answers (crates/deco-editor/src/session.rs),   *)
(* and the re-reading of open files that crates/deco-tui/src/app.rs does   *)
(* after a checkout or a discard.                                          *)
(*                                                                         *)
(* In a local session every status, comparison and branch query has a      *)
(* thread of its own, and a write of the repository is done inside the     *)
(* key.  In a remote session one worker does everything, one request at a  *)
(* time, and a write goes on while the user works.  A session without a    *)
(* workspace has nothing to ask.                                           *)
(*                                                                         *)
(* Other programs change the repository at any moment, the steps of a poll *)
(* included: `head' is the commit that is checked out, `work' counts the   *)
(* changes of the working tree and the index, and `era' those of `head'.   *)
(* A status reads all three at one moment of its run.                      *)
(***************************************************************************)
EXTENDS Integers, FiniteSets

CONSTANTS Files,          \* files that may be open
          Modes,          \* the kinds of session looked at
          Kinds,          \* what the user may ask for
          MaxWork,        \* for each mode, bound on the changes of the repository
          MaxFaults       \* bound on Git's failures and on the worker's end

Writes     == {"stage", "commit", "checkout", "discard"}
Queries    == {"branches", "plan"}
UserAsks   == Writes \cup Queries \cup {"comparison"}
JobKinds   == UserAsks \cup {"status", "committed"}
Slots      == {"status", "comparison", "query", "wire"}

ASSUME SourceControlAssumption ==
  /\ Modes \subseteq {"local", "remote", "rootless"} /\ Kinds \subseteq UserAsks
  /\ \A m \in Modes : MaxWork[m] \in Nat
  /\ MaxFaults \in Nat

VARIABLES
  mode,
  head, commits, era, work,                 \* the repository
  wanted, shown, committed, reread, prompt, \* the session
  open, unsaved,                            \* its documents
  jobs, pending, unavailable, alive,        \* the worker
  at,                                       \* how far the poll has come
  owed, noticed, faults,                    \* history
  recent, returned                          \* of the committed texts

repository == <<head, commits, era, work>>
view       == <<wanted, shown, committed, reread, prompt>>
documents  == <<open, unsaved>>
worker     == <<jobs, pending, unavailable, alive>>
gutter     == <<recent, returned>>
history    == <<owed, noticed, faults, gutter>>
vars == <<mode, repository, view, documents, worker, at, history>>

Nothing == [head |-> -1, era |-> -1, work |-> -1]   \* no status
NotCached == -2                                     \* no committed text yet
NoText    == -1                                     \* none could be read

\* Whose text an answer brings: one that failed names no commit.
CommittedIn(snap) == snap.head

NoTask == "none"
NoJob == [kind |-> NoTask, file |-> "none", result |-> "none", snap |-> Nothing]
Job(kind, file) == [kind |-> kind, file |-> file, result |-> "running", snap |-> Nothing]

\* What a run that reads the repository brings back.
Read(kind) ==
  CASE kind = "status"    -> [head |-> head, era |-> era, work |-> work]
    [] kind = "committed" -> [Nothing EXCEPT !.head = head]
    [] OTHER              -> Nothing

\* The places a remote session has for one waiting request of each sort.
Lane(kind) == IF kind \in Writes THEN "write"
              ELSE IF kind \in Queries THEN "query" ELSE kind
Lanes == {"write", "query", "comparison"}

Init ==
  /\ mode \in Modes
  /\ head = 0 /\ commits = 0 /\ era = 0 /\ work = 0
  /\ wanted = TRUE /\ shown = Nothing /\ reread = FALSE /\ prompt = "none"
  /\ committed = [f \in Files |-> NotCached]
  /\ open = Files /\ unsaved = {}
  /\ jobs = [s \in Slots |-> NoJob] /\ pending = [l \in Lanes |-> NoTask]
  /\ unavailable \in (IF mode = "rootless" THEN BOOLEAN ELSE {FALSE})
  /\ alive = TRUE
  /\ at = "idle"
  /\ owed = [l \in Lanes |-> 0] /\ noticed = 0 /\ faults = 0
  /\ recent = {} /\ returned = {}

(***************************************************************************)
(* The repository.                                                         *)
(***************************************************************************)
MovesTo(commit) ==
  /\ head' = commit /\ work' = work + 1
  /\ era' = IF commit = head THEN era ELSE era + 1

\* What a write does when Git carries it out.
TakesEffect(kind) ==
  CASE kind = "commit"   -> commits' = commits + 1 /\ MovesTo(commits + 1)
    [] kind = "checkout" -> /\ \E c \in 0..commits : (c # head \/ commits = 0) /\ MovesTo(c)
                                 /\ UNCHANGED commits
    [] OTHER                  -> MovesTo(head) /\ UNCHANGED commits

(***************************************************************************)
(* Faults: variants of the operators below that a plausible mistake would  *)
(* give.  No specification uses them; they show what the properties catch. *)
(***************************************************************************)
\* The cache of committed texts is kept when the files are read again.
RereadKeptTexts ==
  /\ reread' = FALSE /\ unsaved' = IF reread THEN {} ELSE unsaved
  /\ UNCHANGED committed

\* A change is not asked about while a status is running.
ChangedUnlessRunning ==
  /\ wanted' = (wanted \/ \A s \in Slots : jobs[s].kind # "status")
  /\ noticed' = work'

\* A request that was sent keeps its place.
SendPendingKept(lane) ==
  /\ jobs' = [jobs EXCEPT !["wire"] = Job(pending[lane], "none")]
  /\ UNCHANGED <<pending, wanted>>

\* Only a result is taken, not an error.
FinishedWell(slot) == jobs[slot].result = "ok"

(***************************************************************************)
(* What the session does with an answer.                                   *)
(***************************************************************************)
Changed == wanted' = TRUE /\ noticed' = work'

\* The cache of committed texts goes with the commit it was read at.
Fill(status) ==
  /\ shown' = status
  /\ committed' = IF status.head = shown.head THEN committed
                  ELSE [f \in Files |-> NotCached]

\* History: `recent' are the files whose committed text was read while this turn
\* of HEAD was on the screen, or since files were read again; `returned' those
\* that were when a status came that names the same commit of another turn of
\* HEAD.  HEAD was elsewhere in between, and no status said so.
Remembered(status) ==
  IF status.era = shown.era THEN UNCHANGED gutter
  ELSE /\ recent' = {}
       /\ returned' = IF status.head = shown.head THEN returned \cup recent ELSE {}

Shows(status) == Fill(status) /\ Remembered(status)

\* The text of a file that is open comes.
Reads(f, text) ==
  /\ committed' = [committed EXCEPT ![f] = text]
  /\ recent' = recent \cup {f} /\ UNCHANGED returned

OperationDone(kind) ==
  /\ Changed
  /\ reread' = (reread \/ kind \in {"checkout", "discard"})

OperationFailed(kind) == Changed /\ UNCHANGED reread

\* The second look at unsaved documents comes with the plan.
PromptAfter(kind, result) ==
  IF result = "failed" \/ (kind = "plan" /\ unsaved # {}) THEN prompt
  ELSE IF kind = "plan" THEN "confirm" ELSE "branches"

(***************************************************************************)
(* What Git does with a request, wherever it runs.  A hook may fail after  *)
(* the write has taken effect.                                             *)
(***************************************************************************)
Carried(kind, result) ==
  \/ result = "ok" /\ TakesEffect(kind) /\ UNCHANGED faults
  \/ /\ result = "failed" /\ faults < MaxFaults /\ faults' = faults + 1
     /\ TakesEffect(kind) \/ UNCHANGED repository

\* A thread, or the worker of a remote session, comes to its answer.
Run(slot) ==
  LET job == jobs[slot] IN
  /\ job.result = "running" /\ (slot = "wire" => alive)
  /\ \E result \in {"ok", "failed"} :
       /\ IF job.kind \in Writes THEN Carried(job.kind, result)
          ELSE /\ UNCHANGED repository
               /\ result = "failed" => faults < MaxFaults
               /\ faults' = IF result = "failed" THEN faults + 1 ELSE faults
       /\ jobs' = [jobs EXCEPT ![slot].result = result,
                     ![slot].snap = IF result = "ok" THEN Read(job.kind) ELSE Nothing]
  /\ UNCHANGED <<mode, view, documents, pending, unavailable, alive, at,
                 owed, noticed, gutter>>

\* The thread of a remote session ends, with a write done or not.
WorkerStops ==
  LET job == jobs["wire"] IN
  /\ mode = "remote" /\ alive /\ faults < MaxFaults
  /\ alive' = FALSE /\ faults' = faults + 1
  /\ \/ UNCHANGED repository
     \/ job.result = "running" /\ job.kind \in Writes /\ TakesEffect(job.kind)
  /\ UNCHANGED <<mode, view, documents, jobs, pending, unavailable, at,
                 owed, noticed, gutter>>

\* Another program writes a file, commits, or checks a commit out.
OthersChange ==
  /\ work < MaxWork[mode]
  /\ \/ MovesTo(head) /\ UNCHANGED commits
     \/ MovesTo(commits + 1) /\ commits' = commits + 1
     \/ \E c \in 0..commits : MovesTo(c) /\ UNCHANGED commits
  /\ UNCHANGED <<mode, view, documents, worker, at, history>>

(***************************************************************************)
(* Keys.                                                                   *)
(***************************************************************************)
\* A key comes between two polls.  The loop polls before each; here several may
\* come before a poll, which allows more than it does.
Key == at = "idle"
KeyDone == at' = IF reread' THEN "reload" ELSE "idle"

Save(f) ==
  /\ Key /\ prompt = "none" /\ f \in open /\ work < MaxWork[mode]
  /\ MovesTo(head) /\ Changed /\ unsaved' = unsaved \ {f}
  /\ UNCHANGED <<mode, commits, shown, committed, reread, prompt, open, worker,
                 owed, faults, gutter>>
  /\ KeyDone

Edit(f) ==
  /\ Key /\ prompt = "none" /\ f \in open
  /\ unsaved' = unsaved \cup {f}
  /\ UNCHANGED <<mode, repository, view, open, worker, history>>
  /\ KeyDone

\* The language server's answer to a request of the user edits a document,
\* whatever prompt is open.
ServerEdit(f) ==
  /\ at = "idle" /\ f \in open /\ unsaved' = unsaved \cup {f}
  /\ UNCHANGED <<mode, repository, view, open, worker, at, history>>

OpenOrClose(f) ==
  /\ Key /\ prompt = "none" /\ f \notin unsaved
  /\ open' = IF f \in open THEN open \ {f} ELSE open \cup {f}
  /\ UNCHANGED <<mode, repository, view, unsaved, worker, history>>
  /\ KeyDone

\* git.refresh.
Refresh ==
  /\ Key /\ prompt = "none" /\ noticed < work
  /\ UNCHANGED repository /\ Changed
  /\ UNCHANGED <<mode, shown, committed, reread, prompt, documents, worker,
                 owed, faults, gutter>>
  /\ KeyDone

\* What was asked before keeps its place: one request of a sort may wait, and
\* none may while one is being carried out.
Taken(kind) ==
  IF mode = "remote"
    THEN \/ pending[Lane(kind)] # NoTask
         \/ Lane(jobs["wire"].kind) = Lane(kind)
    ELSE kind \notin Writes /\ jobs[Lane(kind)] # NoJob

\* Scm::apply: in the key itself, or put to the worker.
Apply(kind) ==
  IF mode = "remote"
    THEN /\ UNCHANGED <<repository, faults, jobs>>
         /\ IF Taken(kind)
              THEN OperationFailed(kind) /\ UNCHANGED pending
              ELSE /\ pending' = [pending EXCEPT !["write"] = kind]
                   /\ UNCHANGED <<wanted, noticed, reread>>
    ELSE /\ \E result \in {"ok", "failed"} :
              /\ Carried(kind, result)
              /\ IF result = "ok" THEN OperationDone(kind) ELSE OperationFailed(kind)
         /\ UNCHANGED <<jobs, pending>>

\* Scm::compare, Scm::branches and Scm::checkout_plan.
Query(kind) ==
  /\ UNCHANGED <<repository, faults, wanted, noticed, reread>>
  /\ IF Taken(kind) THEN UNCHANGED <<jobs, pending>>
     ELSE IF mode = "remote"
       THEN pending' = [pending EXCEPT ![Lane(kind)] = kind] /\ UNCHANGED jobs
       ELSE jobs' = [jobs EXCEPT ![Lane(kind)] = Job(kind, "none")] /\ UNCHANGED pending

\* A refusal, and a local write, is reported in the key; what is accepted for
\* later is owed an answer, until the session gives Git up.
Asks(kind) ==
  LET later == ~Taken(kind) /\ ~unavailable /\ (mode = "remote" \/ kind \notin Writes) IN
  /\ kind \in Kinds /\ (kind \in Writes => work < MaxWork[mode])
  /\ IF kind \in Writes THEN Apply(kind) ELSE Query(kind)
  /\ owed' = IF later THEN [owed EXCEPT ![Lane(kind)] = @ + 1] ELSE owed
  /\ UNCHANGED <<mode, shown, committed, documents, unavailable, alive, gutter>>

\* The session is told how a request of the user ended.
Told(kinds) == owed' = [l \in Lanes |-> 
                   IF l \in {Lane(k) : k \in kinds} /\ owed[l] > 0 THEN owed[l] - 1 ELSE owed[l]]

\* From the source-control view, which has rows once a status is there.
AskFromView ==
  /\ Key /\ prompt = "none" /\ shown # Nothing
  /\ UNCHANGED prompt
  /\ \/ \E kind \in {"stage", "commit", "comparison"} : Asks(kind)
     \/ unsaved = {} /\ Asks("branches")
  /\ KeyDone

\* Discarding asks first, and only about the one file.
AskDiscard(f) ==
  /\ Key /\ prompt = "none" /\ shown # Nothing /\ "discard" \in Kinds
  /\ f \notin unsaved
  /\ prompt' = "discard"
  /\ UNCHANGED <<mode, repository, wanted, shown, committed, reread, documents,
                 worker, history>>
  /\ KeyDone

AcceptPrompt ==
  /\ Key /\ prompt # "none" /\ prompt' = "none"
  /\ Asks(CASE prompt = "discard" -> "discard" [] prompt = "branches" -> "plan"
            [] OTHER -> "checkout")
  /\ KeyDone

ClosePrompt ==
  /\ Key /\ prompt # "none" /\ prompt' = "none"
  /\ UNCHANGED <<mode, repository, wanted, shown, committed, reread, documents,
                 worker, history>>
  /\ KeyDone

(***************************************************************************)
(* The poll.  Locally: the status that finished, the next status, the      *)
(* comparison, the branch query, one committed text, and the files to read *)
(* again.                                                                  *)
(***************************************************************************)
Finished(slot) == jobs[slot].result \in {"ok", "failed"}

\* Some failures are remembered for the session: no git, no repository.
StatusAnswered(job) ==
  /\ Shows(job.snap)
  /\ unavailable' \in (IF job.result = "failed" THEN {unavailable, TRUE} ELSE {unavailable})

\* Files are read again at the end of a poll or of a key, where it is due.
AfterPoll == IF reread THEN "reload" ELSE "idle"

PollStep(from, to) == at = from /\ at' = to

\* What a poll leaves of a thread: nothing once it has ended.
Left(slot) == IF Finished(slot) THEN NoJob ELSE jobs[slot]

\* The next status may start in the poll that takes the last one.
MayStart == mode = "local" /\ wanted /\ ~unavailable' /\ Left("status") = NoJob

Collect ==
  /\ PollStep("idle", "committed") /\ mode # "remote"
  /\ IF Finished("status") THEN StatusAnswered(jobs["status"])
     ELSE UNCHANGED <<shown, committed, unavailable, gutter>>
  \* The flag is cleared before the run, so a change during it asks again.
  \* Without a folder there is no run, and the flag is cleared all the same.
  /\ wanted' = (wanted /\ mode = "local" /\ ~MayStart)
  /\ jobs' = [jobs EXCEPT
                !["status"] = IF MayStart THEN Job("status", "none") ELSE Left("status"),
                !["comparison"] = Left("comparison"), !["query"] = Left("query")]
  /\ IF Finished("query")
       THEN prompt' = PromptAfter(jobs["query"].kind, jobs["query"].result)
       ELSE UNCHANGED prompt
  /\ Told({jobs[s].kind : s \in {t \in {"comparison", "query"} : Finished(t)}})
  /\ UNCHANGED <<mode, repository, reread, documents, pending, alive, noticed, faults>>

CommittedWanted == {f \in open : committed[f] = NotCached}

\* One file a poll, read at once; what cannot be read is not asked for again.
FetchCommitted ==
  /\ PollStep("committed", AfterPoll) /\ mode # "remote"
  /\ IF unavailable \/ CommittedWanted = {} THEN UNCHANGED <<committed, faults, gutter>>
     ELSE \E f \in CommittedWanted :
            \/ mode = "local" /\ Reads(f, head) /\ UNCHANGED faults
            \/ /\ mode = "rootless" \/ faults < MaxFaults
               /\ Reads(f, NoText)
               /\ faults' = IF mode = "rootless" THEN faults ELSE faults + 1
  /\ UNCHANGED <<mode, repository, wanted, shown, reread, prompt, documents,
                 worker, owed, noticed>>

\* Every open file is read, and its text and its committed text replaced.
RereadOpen ==
  /\ reread' = FALSE
  /\ IF reread
       THEN /\ unsaved' = {}
            /\ committed' = IF open = {} THEN committed ELSE [f \in Files |-> NotCached]
       ELSE UNCHANGED <<unsaved, committed>>

Reload ==
  /\ PollStep("reload", "idle") /\ RereadOpen
  /\ IF reread /\ open # {} THEN recent' = {} /\ returned' = {} ELSE UNCHANGED gutter
  /\ UNCHANGED <<mode, repository, wanted, shown, prompt, open, worker,
                 owed, noticed, faults>>

(***************************************************************************)
(* The poll of a remote session: one answer, then at most one request, in  *)
(* the order write, branch query, comparison, status, committed text.      *)
(***************************************************************************)
Answered(job) ==
  CASE job.kind = "status" ->
         StatusAnswered(job) /\ UNCHANGED <<wanted, reread, prompt, noticed>>
    [] job.kind = "committed" ->
         /\ Reads(job.file, CommittedIn(job.snap))
         /\ UNCHANGED <<wanted, shown, reread, prompt, unavailable, noticed>>
    [] job.kind = "comparison" -> UNCHANGED <<view, unavailable, noticed, gutter>>
    [] job.kind \in Queries ->
         /\ prompt' = PromptAfter(job.kind, job.result)
         /\ UNCHANGED <<wanted, shown, committed, reread, unavailable, noticed, gutter>>
    [] job.kind \in Writes ->
         /\ IF job.result = "ok" THEN OperationDone(job.kind) ELSE OperationFailed(job.kind)
         /\ UNCHANGED <<shown, committed, prompt, unavailable, gutter>>

\* A worker that has ended leaves an empty view, at every poll from then on.
Receive ==
  /\ PollStep("idle", "send") /\ mode = "remote"
  /\ UNCHANGED repository
  /\ IF Finished("wire")
       THEN /\ Answered(jobs["wire"]) /\ Told({jobs["wire"].kind})
            /\ jobs' = [jobs EXCEPT !["wire"] = NoJob]
       ELSE /\ IF alive THEN UNCHANGED <<shown, committed, unavailable, jobs, gutter>>
               ELSE /\ Shows(Nothing) /\ unavailable' = TRUE
                    /\ jobs' = [jobs EXCEPT !["wire"] = NoJob]
            /\ UNCHANGED <<wanted, reread, prompt, owed, noticed>>
  /\ UNCHANGED <<mode, documents, pending, alive, faults>>

Sent(kind, file) == jobs' = [jobs EXCEPT !["wire"] = Job(kind, file)]

SendPending(lane) ==
  /\ Sent(pending[lane], "none") /\ pending' = [pending EXCEPT ![lane] = NoTask]
  /\ UNCHANGED wanted

\* The request that goes first, and the lanes it goes before.
Ahead(lane) == IF lane = "write" THEN {}
               ELSE IF lane = "query" THEN {"write"} ELSE {"write", "query"}

GoesFirst(lane) == /\ pending[lane] # NoTask
                   /\ \A l \in Ahead(lane) : pending[l] = NoTask

NonePending == \A l \in Lanes : pending[l] = NoTask

\* The worker ended after the answers were looked at: the request is not taken.
RequestFails(lane) ==
  /\ pending' = [pending EXCEPT ![lane] = NoTask] /\ Told({pending[lane]})
  /\ IF lane = "write" THEN OperationFailed(pending[lane])
     ELSE UNCHANGED <<wanted, noticed, reread>>
  /\ UNCHANGED <<shown, committed, gutter>>

SendFails ==
  /\ unavailable' = TRUE /\ UNCHANGED jobs
  /\ \/ \E lane \in Lanes : GoesFirst(lane) /\ RequestFails(lane)
     \/ /\ NonePending /\ UNCHANGED <<pending, owed, noticed, reread>>
        /\ IF wanted THEN wanted' = FALSE /\ Shows(Nothing)
           ELSE /\ \E f \in CommittedWanted : Reads(f, NoText)
                /\ UNCHANGED <<wanted, shown>>

SendOne ==
  /\ \/ \E lane \in Lanes : GoesFirst(lane) /\ SendPending(lane)
     \/ /\ NonePending /\ UNCHANGED pending
        /\ IF wanted THEN Sent("status", "none") /\ wanted' = FALSE
           ELSE (\E f \in CommittedWanted : Sent("committed", f)) /\ UNCHANGED wanted
  /\ UNCHANGED <<shown, committed, reread, unavailable, owed, noticed, gutter>>

Sendable == wanted \/ CommittedWanted # {} \/ ~NonePending

Send ==
  /\ PollStep("send", AfterPoll) /\ mode = "remote"
  /\ UNCHANGED <<mode, repository, prompt, documents, alive, faults>>
  /\ IF unavailable \/ jobs["wire"] # NoJob \/ ~Sendable
       THEN UNCHANGED <<wanted, shown, committed, reread, jobs, pending, unavailable,
                        owed, noticed, gutter>>
       ELSE IF alive THEN SendOne ELSE SendFails

(***************************************************************************)
(* The system.                                                             *)
(***************************************************************************)
Poll == \/ Collect \/ FetchCommitted \/ Receive \/ Send \/ Reload

User == \/ AskFromView \/ AcceptPrompt \/ ClosePrompt \/ Refresh
        \/ \E f \in Files : Save(f) \/ Edit(f) \/ OpenOrClose(f) \/ AskDiscard(f)

Next == \/ Poll \/ User \/ OthersChange \/ WorkerStops
        \/ \E f \in Files : ServerEdit(f)
        \/ \E slot \in Slots : Run(slot)

\* The loop polls between keys, and what was given to a thread comes to an end.
Fairness == WF_vars(Poll) /\ \A slot \in Slots : WF_vars(Run(slot))

Spec == Init /\ [][Next]_vars /\ Fairness

(***************************************************************************)
(* Properties.                                                             *)
(***************************************************************************)
Snaps == [head : Nat \cup {-1}, era : Nat \cup {-1}, work : Nat \cup {-1}]

TypeOK ==
  /\ mode \in Modes /\ head \in 0..commits /\ commits \in Nat
  /\ era \in 0..work /\ work \in 0..(MaxWork[mode] + 1)
  /\ shown \in Snaps /\ noticed \in 0..work
  /\ committed \in [Files -> Nat \cup {NotCached, NoText}]
  /\ prompt \in {"none", "discard", "branches", "confirm"}
  /\ wanted \in BOOLEAN /\ reread \in BOOLEAN
  /\ unsaved \subseteq open /\ open \subseteq Files
  /\ \A s \in Slots : /\ jobs[s].kind \in JobKinds \cup {NoTask} /\ jobs[s].snap \in Snaps
                      /\ jobs[s].result \in {"none", "running", "ok", "failed"}
  /\ \A l \in Lanes : pending[l] \in UserAsks \cup {NoTask}
  /\ at \in {"idle", "committed", "send", "reload"}
  /\ owed \in [Lanes -> {0, 1}] /\ faults \in 0..MaxFaults

\* Once the status on the screen describes the commit that is checked out, so
\* does every text the gutter compares with: whatever a commit, a checkout here
\* or elsewhere, a run that was slow or an answer that crossed it did in between.
\* A text that was read between two statuses naming one commit is excused, where
\* HEAD was at another in between: the code keys the texts on the commit.
GutterMatchesStatus ==
  \A f \in Files \ returned :
    (shown.era = era /\ committed[f] >= 0) => committed[f] = head

\* The same of every text: docs/git.md says that a cached text is discarded when
\* the commit changes.
GutterMatchesCommit ==
  \A f \in Files : (shown.era = era /\ committed[f] >= 0) => committed[f] = head

\* What the user asked of Git is neither forgotten nor answered twice: a request
\* that has no answer waits in its lane or is with its thread, unless the worker
\* of a remote session has stopped, and at most one of a sort does.
InHand(lane) ==
  Cardinality({s \in Slots : Lane(jobs[s].kind) = lane})
    + IF pending[lane] # NoTask THEN 1 ELSE 0

RequestsAccounted ==
  TypeOK /\ \A l \in Lanes : InHand(l) <= 1 /\ (owed[l] = InHand(l) \/ unavailable)

\* In a remote session a request waits for those that go before it, and a status
\* for all of them.
Before(lane) ==
  IF mode # "remote" THEN {} ELSE IF lane \in Lanes THEN Ahead(lane) ELSE Lanes

KeptWaiting(lane) == \E l \in Before(lane) : owed[l] > 0

\* Once the user asks for nothing else, the status on the screen comes to take in
\* every change the session noticed, a save during a run included, unless Git
\* could not tell.
StatusCatchesUp ==
  (shown.work < noticed) ~>
     (shown.work >= noticed \/ shown = Nothing \/ unavailable \/ KeptWaiting("status"))

\* Every request of the user is answered in the end, unless the worker has
\* stopped: none waits for ever on a poll, or on what was asked after it but for
\* what goes before it.
RequestsSettled ==
  \A l \in Lanes : (owed[l] > 0) ~> (owed[l] = 0 \/ unavailable \/ KeptWaiting(l))

\* docs/git.md:109: a checkout is refused while any tab has unsaved text, so none
\* has when the files are read again.  The code violates it: what is typed, or
\* put in by a server, after the plan is replaced (session.rs:5437, app.rs:1561).
CheckoutKeepsUnsavedWork ==
  [][reread /\ ~reread' => unsaved = {}]_vars
=============================================================================
