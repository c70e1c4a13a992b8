------------------------- MODULE SourceControl_proofs -------------------------
(***************************************************************************)
(* What the user asked of Git, and the texts the gutter compares with, for *)
(* any files, any number of changes of the repository and of failures, in  *)
(* every kind of session.                                                  *)
(***************************************************************************)
EXTENDS SourceControl, FiniteSetTheorems, TLAPS

(***************************************************************************)
(* The types of the state.                                                 *)
(***************************************************************************)
Tasks == [kind : JobKinds \cup {NoTask}, file : Files \cup {"none"},
          result : {"none", "running", "ok", "failed"}, snap : Snaps]

Types ==
  /\ mode \in Modes /\ commits \in Nat /\ head \in 0..commits
  /\ work \in Nat /\ era \in 0..work
  /\ shown \in Snaps /\ noticed \in 0..work
  /\ committed \in [Files -> Nat \cup {NotCached, NoText}]
  /\ prompt \in {"none", "discard", "branches", "confirm"}
  /\ wanted \in BOOLEAN /\ reread \in BOOLEAN
  /\ unavailable \in BOOLEAN /\ alive \in BOOLEAN
  /\ unsaved \subseteq open /\ open \subseteq Files
  /\ jobs \in [Slots -> Tasks] /\ pending \in [Lanes -> UserAsks \cup {NoTask}]
  /\ at \in {"idle", "committed", "send", "reload"}
  /\ owed \in [Lanes -> {0, 1}] /\ faults \in 0..MaxFaults

(***************************************************************************)
(* Where requests are.                                                     *)
(***************************************************************************)
\* A thread has work of its own sort, the wire is a remote session's alone,
\* and a request waits in its lane.
Shape ==
  /\ mode = "remote" => \A s \in Slots \ {"wire"} : jobs[s] = NoJob
  /\ mode # "remote" => jobs["wire"] = NoJob /\ \A l \in Lanes : pending[l] = NoTask
  /\ \A s \in Slots : jobs[s].kind = NoTask \/ jobs[s].result = "none" => jobs[s] = NoJob
  /\ jobs["status"].kind \in {NoTask, "status"}
  /\ jobs["comparison"].kind \in {NoTask, "comparison"}
  /\ jobs["query"].kind \in Queries \cup {NoTask}
  /\ \A l \in Lanes : pending[l] = NoTask \/ Lane(pending[l]) = l
  /\ at = "committed" => mode # "remote"
  /\ at = "send" => mode = "remote"

\* A request of this sort is with its thread, or with the worker.
Running(lane) == \/ Lane(jobs["wire"].kind) = lane
                 \/ Lane(jobs["comparison"].kind) = lane
                 \/ Lane(jobs["query"].kind) = lane

Waiting(lane) == pending[lane] # NoTask

Accounted ==
  \A l \in Lanes : /\ ~(Running(l) /\ Waiting(l))
                   /\ unavailable \/ (owed[l] = 1 <=> Running(l) \/ Waiting(l))

\* A write that was put to the worker may take the repository one change past
\* the bound, once.
WriteAhead ==
  \/ Waiting("write")
  \/ alive /\ jobs["wire"].kind \in Writes /\ jobs["wire"].result = "running"

WorkBounded == work <= MaxWork[mode] + (IF WriteAhead THEN 0 ELSE 1)

AInv == Types /\ Shape /\ Accounted /\ WorkBounded

(***************************************************************************)
(* Whose texts the gutter compares with.                                   *)
(***************************************************************************)
\* A status is of the past, and one of the present era names what is checked
\* out.
OfThePast(snap) == snap.era <= era /\ (snap.era = era => snap.head = head)

\* A text that was kept through a status that named its commit is of that commit.
\* One that was read since is of the commit checked out, unless HEAD has moved
\* since the status, which the next one tells; where that one names the same
\* commit all the same, the text is one of those that `returned'.
TextsClean ==
  \A f \in Files \ returned : committed[f] >= 0 =>
     IF f \in recent THEN shown.era = era => committed[f] = head
     ELSE committed[f] = shown.head

\* A text that is on its way was read since the status, too.
WireClean ==
  jobs["wire"].kind = "committed" /\ jobs["wire"].snap.head >= 0 /\ shown.era = era
    => jobs["wire"].snap.head = head

GInv ==
  /\ OfThePast(shown) /\ \A s \in Slots : OfThePast(jobs[s].snap)
  /\ TextsClean /\ WireClean

IInv == AInv /\ GInv

(***************************************************************************)
(* The repository.                                                         *)
(***************************************************************************)
RepositoryTypes ==
  commits \in Nat /\ head \in 0..commits /\ work \in Nat /\ era \in 0..work

\* HEAD stays, or its next era begins.
Stays == head' = head /\ era' = era
Moved == Stays \/ era' = era + 1

LEMMA EffectOf ==
  ASSUME Types, NEW kind, TakesEffect(kind)
  PROVE  RepositoryTypes' /\ work' = work + 1 /\ Moved
<1>1. RepositoryTypes
  BY DEF Types, RepositoryTypes
<1>2. CASE kind = "commit"
  BY <1>1, <1>2 DEF TakesEffect, MovesTo, RepositoryTypes, Moved, Stays
<1>3. CASE kind = "checkout"
  <2>1. PICK c \in 0..commits : MovesTo(c) /\ commits' = commits
    BY <1>3 DEF TakesEffect
  <2> QED
    BY <1>1, <1>3, <2>1 DEF MovesTo, RepositoryTypes, Moved, Stays
<1>4. CASE kind \notin {"commit", "checkout"}
  BY <1>1, <1>4 DEF TakesEffect, MovesTo, RepositoryTypes, Moved, Stays
<1> QED
  BY <1>2, <1>3, <1>4

LEMMA CarriedOut ==
  ASSUME Types, NEW kind, NEW result \in {"ok", "failed"}, Carried(kind, result)
  PROVE  /\ RepositoryTypes' /\ faults' \in 0..MaxFaults
         /\ work' \in {work, work + 1} /\ Moved
<1>1. RepositoryTypes /\ faults \in 0..MaxFaults /\ MaxFaults \in Nat
  BY SourceControlAssumption DEF Types, RepositoryTypes
<1>2. faults' \in 0..MaxFaults
  BY <1>1 DEF Carried
<1>3. CASE TakesEffect(kind)
  BY <1>2, <1>3, EffectOf
<1>4. CASE UNCHANGED repository
  BY <1>1, <1>2, <1>4 DEF repository, RepositoryTypes, Moved, Stays
<1> QED
  BY <1>3, <1>4 DEF Carried

LEMMA BoundTyped ==
  ASSUME Types
  PROVE  MaxWork[mode] \in Nat /\ Kinds \subseteq UserAsks /\ MaxFaults \in Nat
BY SourceControlAssumption DEF Types

LEMMA Initially ==
  ASSUME Init
  PROVE  IInv
<1>1. Nothing \in Snaps /\ NoJob \in Tasks
  BY DEF Nothing, Snaps, NoJob, Tasks
<1>2. Types
  <2>1. /\ jobs \in [Slots -> Tasks] /\ pending \in [Lanes -> UserAsks \cup {NoTask}]
        /\ owed \in [Lanes -> {0, 1}] /\ shown \in Snaps
        /\ committed \in [Files -> Nat \cup {NotCached, NoText}]
    BY <1>1 DEF Init
  <2>2. /\ unavailable \in BOOLEAN /\ alive \in BOOLEAN /\ wanted \in BOOLEAN
        /\ reread \in BOOLEAN
    BY DEF Init
  <2>3. faults \in 0..MaxFaults
    BY SourceControlAssumption DEF Init
  <2> QED
    BY <2>1, <2>2, <2>3 DEF Init, Types
<1>3. /\ \A s \in Slots : jobs[s] = NoJob
      /\ \A l \in Lanes : pending[l] = NoTask /\ owed[l] = 0
  BY DEF Init
<1>4. NoJob.kind = NoTask /\ NoJob.result = "none" /\ NoJob.snap = Nothing
      /\ Nothing.head = -1 /\ Nothing.era = -1
  BY DEF NoJob, Nothing
<1>5. Shape
  BY <1>3, <1>4 DEF Init, Shape, Slots, NoTask, Queries
<1>6. \A l \in Lanes : ~Running(l)
  BY <1>3, <1>4 DEF Running, Lane, Lanes, Slots, NoTask, Writes, Queries
<1>7. Accounted
  BY <1>3, <1>6 DEF Accounted, Waiting
<1>8. WorkBounded
  BY <1>2, BoundTyped DEF Init, WorkBounded
<1>9. GInv
  BY <1>3, <1>4 DEF Init, GInv, OfThePast, TextsClean, WireClean, NotCached, NoTask, Slots
<1> QED
  BY <1>2, <1>5, <1>7, <1>8, <1>9 DEF IInv, AInv

(***************************************************************************)
(* Requests and their types.                                               *)
(***************************************************************************)
Prompts == {"none", "discard", "branches", "confirm"}

LEMMA TasksAre ==
  /\ Nothing \in Snaps /\ NoJob \in Tasks
  /\ \A kind \in JobKinds : \A file \in Files \cup {"none"} :
       /\ Job(kind, file) \in Tasks /\ Job(kind, file).kind = kind
       /\ Job(kind, file).result = "running" /\ Job(kind, file).snap = Nothing
       /\ Job(kind, file) # NoJob
  /\ NoJob.kind = NoTask /\ NoJob.result = "none" /\ NoJob.snap = Nothing
  /\ NoTask \notin JobKinds
  /\ Nothing.head = -1 /\ Nothing.era = -1 /\ Nothing.work = -1
BY DEF Nothing, Snaps, NoJob, Tasks, Job, JobKinds, UserAsks, Writes, Queries, NoTask

LEMMA LanesAre ==
  /\ Lane(NoTask) \notin Lanes
  /\ \A kind \in UserAsks : Lane(kind) \in Lanes
  /\ \A kind \in JobKinds \cup {NoTask} :
       /\ Lane(kind) = "write" <=> kind \in Writes
       /\ Lane(kind) = "query" <=> kind \in Queries
       /\ Lane(kind) = "comparison" <=> kind = "comparison"
  /\ Writes \subseteq JobKinds /\ Queries \subseteq JobKinds /\ UserAsks \subseteq JobKinds
  /\ Writes \cap Queries = {} /\ "comparison" \notin Writes \cup Queries
  /\ "status" \notin UserAsks /\ "committed" \notin UserAsks /\ NoTask \notin UserAsks
  /\ Lanes = {"write", "query", "comparison"}
BY DEF Lane, Lanes, UserAsks, JobKinds, Writes, Queries, NoTask

LEMMA LaneIs ==
  /\ Lane(NoTask) = "none" /\ NoTask = "none"
  /\ \A kind \in Writes : Lane(kind) = "write"
  /\ \A kind \in Queries : Lane(kind) = "query"
  /\ Lane("comparison") = "comparison"
  /\ Lane("status") = "status" /\ Lane("committed") = "committed"
  /\ Lanes = {"write", "query", "comparison"}
  /\ NoTask \notin Queries \cup Writes
BY DEF Lane, Lanes, Writes, Queries, NoTask

LEMMA JobPut ==
  ASSUME Types, NEW slot \in Slots, NEW task \in Tasks,
         jobs' = [jobs EXCEPT ![slot] = task]
  PROVE  /\ jobs' \in [Slots -> Tasks] /\ jobs'[slot] = task
         /\ \A s \in Slots \ {slot} : jobs'[s] = jobs[s]
BY DEF Types

LEMMA JobFields ==
  ASSUME Types, NEW slot \in Slots
  PROVE  /\ jobs[slot] \in Tasks /\ jobs[slot].kind \in JobKinds \cup {NoTask}
         /\ jobs[slot].result \in {"none", "running", "ok", "failed"}
         /\ jobs[slot].snap \in Snaps /\ jobs[slot].file \in Files \cup {"none"}
<1>1. jobs[slot] \in Tasks
  BY DEF Types
<1> QED
  BY <1>1 DEF Tasks

LEMMA ToldOf ==
  ASSUME Types, NEW kinds, Told(kinds)
  PROVE  /\ owed' \in [Lanes -> {0, 1}]
         /\ \A l \in Lanes : (\E k \in kinds : Lane(k) = l) => owed'[l] = 0
         /\ \A l \in Lanes : ~(\E k \in kinds : Lane(k) = l) => owed'[l] = owed[l]
<1>1. owed \in [Lanes -> {0, 1}]
  BY DEF Types
<1>2. ASSUME NEW l \in Lanes
      PROVE  /\ owed'[l] \in {0, 1}
             /\ (\E k \in kinds : Lane(k) = l) => owed'[l] = 0
             /\ ~(\E k \in kinds : Lane(k) = l) => owed'[l] = owed[l]
  BY <1>1 DEF Told
<1>3. owed' \in [Lanes -> {0, 1}]
  BY <1>1, <1>2 DEF Told
<1> QED
  BY <1>2, <1>3

\* What a step that asks nothing and answers nothing leaves as it was.
LEMMA StillAccounted ==
  ASSUME AInv, Types', UNCHANGED <<mode, jobs, pending, owed, unavailable, alive>>,
         work' = work \/ (work < MaxWork[mode] /\ work' = work + 1),
         at' \in {"idle", "reload"} \/ (at' = "committed" /\ mode # "remote")
           \/ (at' = "send" /\ mode = "remote")
  PROVE  AInv'
<1>1. Types /\ Shape /\ Accounted /\ WorkBounded
  BY DEF AInv
<1>2. Shape'
  BY <1>1 DEF Shape
<1>3. Accounted'
  BY <1>1 DEF Accounted, Running, Waiting
<1>4. WriteAhead' <=> WriteAhead
  BY DEF WriteAhead, Waiting
<1>5. WorkBounded'
  BY <1>1, <1>4, BoundTyped DEF WorkBounded, Types
<1> QED
  BY <1>2, <1>3, <1>5 DEF AInv

\* The values of the variables a step leaves alone.
LEMMA KeptTypes ==
  ASSUME Types
  PROVE  /\ UNCHANGED worker => /\ jobs' \in [Slots -> Tasks]
                                /\ pending' \in [Lanes -> UserAsks \cup {NoTask}]
                                /\ unavailable' \in BOOLEAN /\ alive' \in BOOLEAN
         /\ UNCHANGED committed => committed' \in [Files -> Nat \cup {NotCached, NoText}]
BY DEF Types, worker

LEMMA SimpleSteps ==
  ASSUME AInv, NEW f,
         \/ /\ f \in Files
            /\ Save(f) \/ Edit(f) \/ ServerEdit(f) \/ OpenOrClose(f) \/ AskDiscard(f)
         \/ Refresh \/ ClosePrompt \/ OthersChange \/ FetchCommitted \/ Reload
  PROVE  AInv'
<1> USE DEF repository, view, documents, worker, history
<1>1. Types /\ RepositoryTypes
  BY DEF AInv, Types, RepositoryTypes
<1>2. MaxWork[mode] \in Nat
  BY <1>1, BoundTyped
<1>3. CASE Save(f)
  <2>1. RepositoryTypes' /\ work' = work + 1 /\ work < MaxWork[mode] /\ noticed' = work'
    BY <1>1, <1>3 DEF Save, MovesTo, RepositoryTypes, Changed
  <2>2. Types'
    BY <1>1, <1>3, <2>1, KeptTypes DEF Save, Types, Changed, KeyDone, RepositoryTypes
  <2> QED
    BY <1>3, <2>1, <2>2, StillAccounted DEF Save, KeyDone
<1>4. CASE Edit(f)
  <2>1. Types'
    BY <1>1, <1>4, KeptTypes DEF Edit, Types, KeyDone
  <2> QED
    BY <1>4, <2>1, StillAccounted DEF Edit, KeyDone
<1>5. CASE ServerEdit(f)
  <2>1. Types'
    BY <1>1, <1>5, KeptTypes DEF ServerEdit, Types
  <2> QED
    BY <1>5, <2>1, StillAccounted DEF ServerEdit
<1>6. CASE f \in Files /\ OpenOrClose(f)
  <2>1. Types'
    BY <1>1, <1>6, KeptTypes DEF OpenOrClose, Types, KeyDone
  <2> QED
    BY <1>6, <2>1, StillAccounted DEF OpenOrClose, KeyDone
<1>7. CASE AskDiscard(f)
  <2>1. Types'
    BY <1>1, <1>7, KeptTypes DEF AskDiscard, Types, KeyDone
  <2> QED
    BY <1>7, <2>1, StillAccounted DEF AskDiscard, KeyDone
<1>8. CASE Refresh
  <2>1. Types'
    BY <1>1, <1>8, KeptTypes DEF Refresh, Types, KeyDone, Changed
  <2> QED
    BY <1>8, <2>1, StillAccounted DEF Refresh, KeyDone
<1>9. CASE ClosePrompt
  <2>1. Types'
    BY <1>1, <1>9, KeptTypes DEF ClosePrompt, Types, KeyDone
  <2> QED
    BY <1>9, <2>1, StillAccounted DEF ClosePrompt, KeyDone
<1>10. CASE OthersChange
  <2>1. RepositoryTypes' /\ work' = work + 1 /\ work < MaxWork[mode]
    BY <1>1, <1>10 DEF OthersChange, MovesTo, RepositoryTypes
  <2>2. Types'
    BY <1>1, <1>10, <2>1, KeptTypes DEF OthersChange, Types, RepositoryTypes
  <2>3. at' \in {"idle", "reload"} \/ (at' = "committed" /\ mode # "remote")
           \/ (at' = "send" /\ mode = "remote")
    BY <1>10 DEF AInv, Types, Shape, OthersChange
  <2> QED
    BY <1>10, <2>1, <2>2, <2>3, StillAccounted DEF OthersChange
<1>11. CASE FetchCommitted
  <2>1. committed' \in [Files -> Nat \cup {NotCached, NoText}] /\ faults' \in 0..MaxFaults
    <3>1. CASE unavailable \/ CommittedWanted = {}
      BY <1>1, <1>11, <3>1 DEF FetchCommitted, Types
    <3>2. CASE ~(unavailable \/ CommittedWanted = {})
      BY <1>1, <1>11, <3>2, BoundTyped DEF FetchCommitted, Reads, Types, CommittedWanted
    <3> QED
      BY <3>1, <3>2
  <2>2. Types'
    BY <1>1, <1>11, <2>1, KeptTypes DEF FetchCommitted, Types, PollStep, AfterPoll
  <2> QED
    BY <1>11, <2>2, StillAccounted DEF FetchCommitted, PollStep, AfterPoll
<1>12. CASE Reload
  <2>1. committed' \in [Files -> Nat \cup {NotCached, NoText}] /\ unsaved' \subseteq open
    BY <1>1, <1>12 DEF Reload, RereadOpen, Types
  <2>2. Types'
    BY <1>1, <1>12, <2>1, KeptTypes DEF Reload, RereadOpen, Types, PollStep
  <2> QED
    BY <1>12, <2>2, StillAccounted DEF Reload, PollStep
<1> QED
  BY <1>3, <1>4, <1>5, <1>6, <1>7, <1>8, <1>9, <1>10, <1>11, <1>12

LEMMA RunSteps ==
  ASSUME AInv, NEW slot \in Slots, Run(slot)
  PROVE  AInv'
<1> DEFINE job == jobs[slot]
<1>1. Types /\ Shape /\ Accounted /\ WorkBounded
  BY DEF AInv
<1>2. /\ job \in Tasks /\ job.kind \in JobKinds \cup {NoTask} /\ job.result = "running"
      /\ job.kind # NoTask /\ (slot = "wire" => alive)
  <2>1. job.result = "running"
    BY DEF Run
  <2>2. job # NoJob
    BY <2>1, TasksAre
  <2> QED
    BY <1>1, <2>1, <2>2, JobFields DEF Shape, Run
<1>3. PICK result \in {"ok", "failed"} :
        /\ IF job.kind \in Writes THEN Carried(job.kind, result)
           ELSE /\ UNCHANGED repository
                /\ result = "failed" => faults < MaxFaults
                /\ faults' = IF result = "failed" THEN faults + 1 ELSE faults
        /\ jobs' = [jobs EXCEPT ![slot].result = result,
                      ![slot].snap = IF result = "ok" THEN Read(job.kind) ELSE Nothing]
  BY DEF Run
<1>4. /\ RepositoryTypes /\ RepositoryTypes' /\ faults' \in 0..MaxFaults
      /\ work' \in {work, work + 1} /\ (work' # work => job.kind \in Writes)
  <2>1. RepositoryTypes /\ MaxFaults \in Nat /\ faults \in 0..MaxFaults
    BY <1>1, BoundTyped DEF Types, RepositoryTypes
  <2>2. CASE job.kind \in Writes
    BY <1>1, <1>3, <2>1, <2>2, CarriedOut
  <2>3. CASE job.kind \notin Writes
    BY <1>3, <2>1, <2>3 DEF repository, RepositoryTypes
  <2> QED
    BY <2>2, <2>3
<1>5. Read(job.kind) \in Snaps
  <2>1. RepositoryTypes
    BY <1>4
  <2> QED
    BY <2>1 DEF Read, Snaps, Nothing, RepositoryTypes
<1> DEFINE snap == IF result = "ok" THEN Read(job.kind) ELSE Nothing
<1>6. /\ snap \in Snaps
      /\ jobs' = [jobs EXCEPT ![slot].result = result, ![slot].snap = snap]
  BY <1>3, <1>5, TasksAre
<1> HIDE DEF snap
<1>7. /\ jobs' \in [Slots -> Tasks]
      /\ \A s \in Slots : /\ jobs'[s].kind = jobs[s].kind
                          /\ s # slot => jobs'[s] = jobs[s]
      /\ jobs'[slot].result = result
  <2>1. jobs' = [jobs EXCEPT ![slot] = [job EXCEPT !.result = result, !.snap = snap]]
    BY <1>6
  <2>2. /\ [job EXCEPT !.result = result, !.snap = snap] \in Tasks
        /\ [job EXCEPT !.result = result, !.snap = snap].kind = job.kind
        /\ [job EXCEPT !.result = result, !.snap = snap].result = result
    BY <1>2, <1>6 DEF Tasks
  <2> QED
    BY <1>1, <2>1, <2>2, JobPut
<1> HIDE DEF job
<1>8. /\ UNCHANGED <<mode, wanted, shown, committed, reread, prompt, open, unsaved>>
      /\ UNCHANGED <<pending, unavailable, alive, at, owed, noticed>>
  BY DEF Run, view, documents
<1>9. Types'
  <2>1. noticed' \in 0..work'
    BY <1>1, <1>4, <1>8 DEF Types, RepositoryTypes
  <2> QED
    BY <1>1, <1>4, <1>7, <1>8, <2>1 DEF Types, RepositoryTypes
<1>10. Shape'
  <2>1. slot = "wire" => mode = "remote"
    BY <1>1, <1>2, TasksAre DEF Shape, job
  <2>2. slot # "wire" => mode # "remote"
    BY <1>1, <1>2, TasksAre DEF Shape, job
  <2>3. \A s \in Slots : jobs'[s].kind = NoTask \/ jobs'[s].result = "none" => jobs'[s] = NoJob
    BY <1>1, <1>2, <1>7 DEF Shape, job
  <2> QED
    BY <1>1, <1>7, <1>8, <2>1, <2>2, <2>3 DEF Shape, Slots
<1>11. \A l \in Lanes : Running(l)' <=> Running(l)
  BY <1>7 DEF Running, Slots
<1>12. Accounted'
  BY <1>1, <1>8, <1>11 DEF Accounted, Waiting
<1>13. WorkBounded'
  <2>1. CASE job.kind \in Writes
    <3>1. slot = "wire"
      BY <1>1, <1>2, <2>1, LanesAre DEF Shape, Slots, job, Queries, Writes
    <3>2. WriteAhead /\ work <= MaxWork[mode]
      BY <1>1, <1>2, <2>1, <3>1, BoundTyped DEF WriteAhead, WorkBounded, job
    <3>3. ~Waiting("write")
      BY <1>1, <1>2, <2>1, <3>1, LanesAre DEF Accounted, Running, job
    <3>4. ~WriteAhead'
      BY <1>3, <1>7, <1>8, <3>1, <3>3 DEF WriteAhead, Waiting
    <3>5. WorkBounded' <=> work' <= MaxWork[mode] + 1
      BY <1>8, <3>4 DEF WorkBounded
    <3> QED
      BY <1>1, <1>4, <3>2, <3>5, BoundTyped DEF Types
  <2>2. CASE job.kind \notin Writes
    <3>1. work' = work /\ (WriteAhead' <=> WriteAhead)
      BY <1>4, <1>7, <1>8, <2>2 DEF WriteAhead, Waiting, job, Slots
    <3> QED
      BY <1>1, <1>8, <3>1 DEF WorkBounded
  <2> QED
    BY <2>1, <2>2
<1> QED
  BY <1>9, <1>10, <1>12, <1>13 DEF AInv

LEMMA WorkerStopsSteps ==
  ASSUME AInv, WorkerStops
  PROVE  AInv'
<1>1. Types /\ Shape /\ Accounted /\ WorkBounded
  BY DEF AInv
<1>2. /\ UNCHANGED <<mode, wanted, shown, committed, reread, prompt, open, unsaved>>
      /\ UNCHANGED <<pending, unavailable, at, owed, noticed, jobs>>
      /\ alive' = FALSE /\ alive /\ faults' \in 0..MaxFaults
  BY <1>1, BoundTyped DEF WorkerStops, view, documents, Types
<1>3. /\ RepositoryTypes'
      /\ \/ work' = work
         \/ work' = work + 1 /\ WriteAhead /\ jobs["wire"].kind \in Writes
  BY <1>1, EffectOf
    DEF WorkerStops, repository, RepositoryTypes, Types, WriteAhead
<1>4. Types'
  <2>1. noticed' \in 0..work'
    BY <1>1, <1>2, <1>3 DEF Types, RepositoryTypes
  <2> QED
    BY <1>1, <1>2, <1>3, <2>1 DEF Types, RepositoryTypes
<1>5. Shape' /\ Accounted'
  BY <1>1, <1>2 DEF Shape, Accounted, Running, Waiting
<1>6. WorkBounded'
  <2>1. MaxWork[mode] \in Nat /\ work \in Nat /\ work' \in Nat
    BY <1>1, <1>3, BoundTyped DEF Types, RepositoryTypes
  <2>2. CASE work' = work
    <3>1. WriteAhead' => WriteAhead
      BY <1>2 DEF WriteAhead, Waiting
    <3> QED
      BY <1>1, <1>2, <2>1, <2>2, <3>1 DEF WorkBounded
  <2>3. CASE work' # work
    <3>1. ~Waiting("write")
      BY <1>1, <1>3, <2>3, LanesAre DEF Accounted, Running, Waiting
    <3>2. ~WriteAhead'
      BY <1>2, <3>1 DEF WriteAhead, Waiting
    <3> QED
      BY <1>1, <1>2, <1>3, <2>1, <2>3, <3>2 DEF WorkBounded
  <2> QED
    BY <2>2, <2>3
<1> QED
  BY <1>4, <1>5, <1>6 DEF AInv

\* What a status leaves on the screen, and of the committed texts.
LEMMA FillTypes ==
  ASSUME Types, NEW status \in Snaps, Fill(status)
  PROVE  shown' \in Snaps /\ committed' \in [Files -> Nat \cup {NotCached, NoText}]
BY DEF Types, Fill

LEMMA CollectSteps ==
  ASSUME AInv, Collect
  PROVE  AInv'
<1>1. Types /\ Shape /\ Accounted /\ WorkBounded
  BY DEF AInv
<1>2. /\ mode # "remote" /\ at' = "committed" /\ jobs["wire"] = NoJob
      /\ UNCHANGED <<mode, head, commits, era, work, reread, open, unsaved, pending,
                     alive, noticed, faults>>
      /\ \A l \in Lanes : pending[l] = NoTask
  BY <1>1 DEF Collect, PollStep, Shape, repository, documents
<1>3. /\ unavailable' \in BOOLEAN /\ (unavailable => unavailable')
      /\ shown' \in Snaps /\ committed' \in [Files -> Nat \cup {NotCached, NoText}]
  <2>1. CASE Finished("status")
    <3>1. StatusAnswered(jobs["status"]) /\ jobs["status"].snap \in Snaps
      BY <1>1, <2>1, JobFields DEF Collect, Slots
    <3>2. shown' \in Snaps /\ committed' \in [Files -> Nat \cup {NotCached, NoText}]
      BY <1>1, <3>1, FillTypes DEF StatusAnswered, Shows
    <3>3. unavailable \in BOOLEAN /\ unavailable' \in {unavailable, TRUE}
      BY <1>1, <3>1 DEF Types, StatusAnswered
    <3> QED
      BY <3>2, <3>3
  <2>2. CASE ~Finished("status")
    BY <1>1, <2>2 DEF Collect, Types
  <2> QED
    BY <2>1, <2>2
<1>4. wanted' \in BOOLEAN
  BY DEF Collect
<1> DEFINE next == IF MayStart THEN Job("status", "none") ELSE Left("status")
<1>5. /\ next \in Tasks /\ next.kind \in {NoTask, "status"}
      /\ next.kind = NoTask \/ next.result = "none" => next = NoJob
  BY <1>1, TasksAre, JobFields DEF Left, Shape, Slots, JobKinds, NoTask
<1>6. ASSUME NEW s \in {"comparison", "query"}
      PROVE  /\ Left(s) \in Tasks
             /\ Finished(s) => Left(s) = NoJob /\ jobs[s].kind # NoTask
             /\ ~Finished(s) => Left(s) = jobs[s]
  BY <1>1, TasksAre, JobFields DEF Left, Shape, Slots, Finished
<1> HIDE DEF next
<1>7. jobs' = [jobs EXCEPT !["status"] = next, !["comparison"] = Left("comparison"),
                           !["query"] = Left("query")]
  BY DEF Collect, next
<1>8. /\ jobs' \in [Slots -> Tasks] /\ jobs'["status"] = next /\ jobs'["wire"] = NoJob
      /\ \A s \in {"comparison", "query"} : jobs'[s] = Left(s)
  BY <1>1, <1>2, <1>5, <1>6, <1>7 DEF Types, Slots
<1> DEFINE told == {jobs[s].kind : s \in {t \in {"comparison", "query"} : Finished(t)}}
<1>9. /\ owed' \in [Lanes -> {0, 1}]
      /\ \A l \in Lanes : (\E k \in told : Lane(k) = l) => owed'[l] = 0
      /\ \A l \in Lanes : ~(\E k \in told : Lane(k) = l) => owed'[l] = owed[l]
  BY <1>1, ToldOf DEF Collect
<1>10. prompt' \in Prompts
  BY <1>1 DEF Collect, PromptAfter, Types, Prompts
<1>11. Types'
  BY <1>1, <1>2, <1>3, <1>4, <1>8, <1>9, <1>10 DEF Types, Prompts
<1>12. Shape'
  <2>1. \A s \in {"comparison", "query"} : jobs'[s] \in {NoJob, jobs[s]}
    BY <1>6, <1>8
  <2>2. \A s \in Slots : jobs'[s].kind = NoTask \/ jobs'[s].result = "none" => jobs'[s] = NoJob
    BY <1>1, <1>5, <1>8, <2>1 DEF Shape, Slots
  <2> QED
    BY <1>1, <1>2, <1>5, <1>8, <2>1, <2>2, TasksAre DEF Shape
<1>13. Accounted'
  <2> SUFFICES ASSUME NEW l \in Lanes
               PROVE  /\ ~(Running(l)' /\ Waiting(l)')
                      /\ unavailable' \/ (owed'[l] = 1 <=> Running(l)' \/ Waiting(l)')
    BY DEF Accounted
  <2>1. ~Waiting(l)' /\ ~Waiting(l)
    BY <1>2 DEF Waiting
  <2>2. /\ jobs["comparison"].kind \in {NoTask, "comparison"}
        /\ jobs["query"].kind \in Queries \cup {NoTask}
        /\ jobs["wire"].kind = NoTask /\ jobs'["wire"].kind = NoTask
        /\ jobs'["comparison"].kind \in {NoTask, "comparison"}
        /\ jobs'["query"].kind \in Queries \cup {NoTask}
    BY <1>1, <1>2, <1>8, <1>12, TasksAre DEF Shape
  <2>3. unavailable \/ (owed[l] = 1 <=> Running(l))
    BY <1>1, <2>1 DEF Accounted
  <2>4. owed[l] \in {0, 1}
    BY <1>1 DEF Types
  <2>5. CASE l = "write"
    <3>1. ~Running(l) /\ ~Running(l)'
      BY <2>2, <2>5, LaneIs DEF Running
    <3>2. owed'[l] = owed[l]
      BY <1>9, <2>2, <2>5, LaneIs
    <3> QED
      BY <1>3, <2>1, <2>3, <3>1, <3>2
  <2>6. CASE l \in {"comparison", "query"}
    <3>1. Running(l) <=> jobs[l].kind # NoTask
      BY <2>2, <2>6, LaneIs DEF Running
    <3>2. Running(l)' <=> jobs'[l].kind # NoTask
      BY <2>2, <2>6, LaneIs DEF Running
    <3>3. CASE Finished(l)
      <4>1. jobs'[l] = NoJob /\ jobs[l].kind \in told
        BY <1>6, <1>8, <2>6, <3>3
      <4>2. Lane(jobs[l].kind) = l
        BY <1>6, <2>2, <2>6, <3>3, LaneIs
      <4>3. owed'[l] = 0 /\ ~Running(l)'
        BY <1>9, <3>2, <4>1, <4>2, TasksAre
      <4> QED
        BY <2>1, <4>3
    <3>4. CASE ~Finished(l)
      <4>1. jobs'[l] = jobs[l]
        BY <1>6, <1>8, <2>6, <3>4
      <4>2. \A k \in told : Lane(k) # l
        <5>1. SUFFICES ASSUME NEW t \in {"comparison", "query"}, Finished(t),
                              Lane(jobs[t].kind) = l
                       PROVE  FALSE
          OBVIOUS
        <5>2. t # l
          BY <3>4, <5>1
        <5> QED
          BY <1>6, <2>2, <2>6, <5>1, <5>2, LaneIs
      <4>3. owed'[l] = owed[l]
        BY <1>9, <4>2
      <4> QED
        BY <1>3, <2>1, <2>3, <3>1, <3>2, <4>1, <4>3
    <3> QED
      BY <3>3, <3>4
  <2> QED
    BY <2>5, <2>6, LanesAre
<1>14. WorkBounded'
  <2>1. ~WriteAhead' /\ ~WriteAhead
    BY <1>2, <1>8, LanesAre, TasksAre DEF WriteAhead, Waiting
  <2> QED
    BY <1>1, <1>2, <2>1 DEF WorkBounded
<1> QED
  BY <1>11, <1>12, <1>13, <1>14 DEF AInv

\* A request that is taken is owed an answer, and nothing else is of its sort.
LEMMA OwedOnce ==
  ASSUME AInv, NEW l \in Lanes, ~Running(l), ~Waiting(l),
         owed' = IF ~unavailable THEN [owed EXCEPT ![l] = @ + 1] ELSE owed
  PROVE  /\ owed' \in [Lanes -> {0, 1}]
         /\ \A k \in Lanes \ {l} : owed'[k] = owed[k]
         /\ unavailable \/ owed'[l] = 1
<1>1. owed \in [Lanes -> {0, 1}] /\ (unavailable \/ owed[l] # 1)
  BY DEF AInv, Types, Accounted
<1>2. CASE unavailable
  BY <1>1, <1>2
<1>3. CASE ~unavailable
  <2>1. owed[l] = 0
    BY <1>1, <1>3
  <2> QED
    BY <1>1, <1>3, <2>1
<1> QED
  BY <1>2, <1>3

LEMMA AsksSteps ==
  ASSUME AInv, NEW kind, Asks(kind), prompt' \in Prompts, at' \in {"idle", "reload"}
  PROVE  AInv'
<1> DEFINE later == ~Taken(kind) /\ ~unavailable /\ (mode = "remote" \/ kind \notin Writes)
<1>1. Types /\ Shape /\ Accounted /\ WorkBounded /\ RepositoryTypes
      /\ MaxWork[mode] \in Nat
  BY BoundTyped DEF AInv, Types, RepositoryTypes
<1>2. /\ kind \in UserAsks /\ (kind \in Writes => work < MaxWork[mode])
      /\ owed' = IF later THEN [owed EXCEPT ![Lane(kind)] = @ + 1] ELSE owed
      /\ UNCHANGED <<mode, shown, committed, open, unsaved, unavailable, alive>>
      /\ Lane(kind) \in Lanes
  BY <1>1, BoundTyped, LanesAre DEF Asks, documents
<1> HIDE DEF later
<1>3. CASE kind \in Writes /\ mode = "remote" /\ Taken(kind)
  <2>1. UNCHANGED repository /\ UNCHANGED <<jobs, faults, pending>>
        /\ Changed /\ UNCHANGED reread
    BY <1>3 DEF Asks, Apply, OperationFailed
  <2>2. owed' = owed
    BY <1>2, <1>3 DEF later
  <2>3. Types'
    BY <1>1, <1>2, <2>1, <2>2 DEF Types, repository, Changed, Prompts
  <2> QED
    BY <1>2, <2>1, <2>2, <2>3, StillAccounted DEF repository
<1>4. CASE kind \in Writes /\ mode # "remote"
  <2>1. PICK result \in {"ok", "failed"} :
          /\ Carried(kind, result)
          /\ IF result = "ok" THEN OperationDone(kind) ELSE OperationFailed(kind)
    BY <1>4 DEF Asks, Apply
  <2>2. UNCHANGED <<jobs, pending, owed>>
    BY <1>2, <1>4 DEF Asks, Apply, later
  <2>3. /\ RepositoryTypes' /\ faults' \in 0..MaxFaults /\ work' \in {work, work + 1}
        /\ noticed' = work' /\ wanted' \in BOOLEAN
    BY <1>1, <2>1, CarriedOut DEF OperationDone, OperationFailed, Changed
  <2>4. reread' \in BOOLEAN
    BY <1>1, <2>1 DEF OperationDone, OperationFailed, Types
  <2>5. Types'
    BY <1>1, <1>2, <2>2, <2>3, <2>4 DEF Types, RepositoryTypes, Prompts
  <2> QED
    BY <1>2, <1>4, <2>2, <2>3, <2>5, StillAccounted
<1>5. CASE kind \notin Writes /\ Taken(kind)
  <2>1. UNCHANGED repository /\ UNCHANGED <<jobs, faults, pending, wanted, noticed, reread>>
    BY <1>5 DEF Asks, Query
  <2>2. owed' = owed
    BY <1>2, <1>5 DEF later
  <2>3. Types'
    BY <1>1, <1>2, <2>1, <2>2 DEF Types, repository, Prompts
  <2> QED
    BY <1>2, <2>1, <2>2, <2>3, StillAccounted DEF repository
<1>6. CASE mode = "remote" /\ ~Taken(kind)
  <2> DEFINE l == Lane(kind)
  <2>1. /\ ~Waiting(l) /\ ~Running(l) /\ l \in Lanes
    BY <1>1, <1>2, <1>6, LaneIs, TasksAre DEF Taken, Waiting, Running, Shape, Slots
  <2>2. /\ pending' = [pending EXCEPT ![l] = kind] /\ UNCHANGED jobs
        /\ UNCHANGED repository /\ UNCHANGED <<faults, wanted, noticed, reread>>
    BY <1>6, LaneIs DEF Asks, Apply, Query
  <2>3. owed' = IF ~unavailable THEN [owed EXCEPT ![l] = @ + 1] ELSE owed
    BY <1>2, <1>6 DEF later
  <2>4. l = "write" <=> kind \in Writes
    BY <1>2, LanesAre
  <2>5. Lane(kind) = l
    OBVIOUS
  <2> HIDE DEF l
  <2>6. /\ owed' \in [Lanes -> {0, 1}] /\ \A k \in Lanes \ {l} : owed'[k] = owed[k]
        /\ unavailable \/ owed'[l] = 1
    BY <2>1, <2>3, OwedOnce
  <2>7. /\ pending' \in [Lanes -> UserAsks \cup {NoTask}] /\ pending'[l] = kind
        /\ \A k \in Lanes \ {l} : pending'[k] = pending[k]
    BY <1>1, <1>2, <2>1, <2>2 DEF Types
  <2>8. Types'
    BY <1>1, <1>2, <2>2, <2>6, <2>7 DEF Types, repository, Prompts
  <2>9. Shape'
    BY <1>1, <1>2, <1>6, <2>2, <2>5, <2>7 DEF Shape
  <2>10. Accounted'
    <3>1. \A k \in Lanes : Running(k)' <=> Running(k)
      BY <2>2 DEF Running
    <3> QED
      BY <1>1, <1>2, <2>1, <2>6, <2>7, <3>1, LanesAre DEF Accounted, Waiting
  <2>11. WorkBounded'
    <3>1. CASE l = "write"
      BY <1>1, <1>2, <2>2, <2>4, <3>1 DEF WorkBounded, repository, Types
    <3>2. CASE l # "write"
      <4>1. pending'["write"] = pending["write"]
        BY <2>7, <3>2, LaneIs
      <4>2. WriteAhead' <=> WriteAhead
        BY <1>2, <2>2, <4>1 DEF WriteAhead, Waiting
      <4> QED
        BY <1>1, <1>2, <2>2, <4>2 DEF WorkBounded, repository
    <3> QED
      BY <3>1, <3>2
  <2> QED
    BY <2>8, <2>9, <2>10, <2>11 DEF AInv
<1>7. CASE kind \notin Writes /\ mode # "remote" /\ ~Taken(kind)
  <2> DEFINE l == Lane(kind)
  <2>1. /\ l \in {"comparison", "query"} /\ jobs[l] = NoJob /\ Lane(kind) = l
        /\ l = "comparison" => kind = "comparison"
        /\ l = "query" => kind \in Queries
    BY <1>2, <1>7, LaneIs DEF Taken, UserAsks
  <2>2. /\ jobs' = [jobs EXCEPT ![l] = Job(kind, "none")] /\ UNCHANGED pending
        /\ UNCHANGED repository /\ UNCHANGED <<faults, wanted, noticed, reread>>
    BY <1>7 DEF Asks, Query
  <2>3. owed' = IF ~unavailable THEN [owed EXCEPT ![l] = @ + 1] ELSE owed
    BY <1>2, <1>7 DEF later
  <2> HIDE DEF l
  <2>4. ~Waiting(l) /\ ~Running(l) /\ l \in Lanes
    BY <1>1, <1>7, <2>1, LaneIs, TasksAre DEF Waiting, Running, Shape
  <2>5. /\ owed' \in [Lanes -> {0, 1}] /\ \A k \in Lanes \ {l} : owed'[k] = owed[k]
        /\ unavailable \/ owed'[l] = 1
    BY <2>3, <2>4, OwedOnce
  <2>6. /\ jobs' \in [Slots -> Tasks] /\ jobs'[l] = Job(kind, "none")
        /\ \A s \in Slots \ {l} : jobs'[s] = jobs[s]
    <3>1. Job(kind, "none") \in Tasks /\ l \in Slots
      BY <1>2, <2>1, TasksAre, LanesAre DEF Slots
    <3> QED
      BY <1>1, <2>2, <3>1, JobPut
  <2>7. jobs'[l].kind = kind /\ jobs'[l].result = "running" /\ kind # NoTask
    BY <1>2, <2>6, TasksAre, LanesAre
  <2>8. Types'
    BY <1>1, <1>2, <2>2, <2>5, <2>6 DEF Types, repository, Prompts
  <2>9. Shape'
    BY <1>1, <1>2, <1>7, <2>1, <2>2, <2>6, <2>7 DEF Shape, Slots
  <2>10. \A k \in Lanes \ {l} : Running(k)' <=> Running(k)
    BY <2>1, <2>6, <2>7, LaneIs, TasksAre DEF Running, Slots
  <2>11. Running(l)'
    BY <2>1, <2>6, <2>7 DEF Running
  <2>12. Accounted'
    BY <1>1, <1>2, <2>2, <2>4, <2>5, <2>10, <2>11 DEF Accounted, Waiting
  <2>13. WriteAhead' <=> WriteAhead
    BY <1>2, <2>1, <2>2, <2>6 DEF WriteAhead, Waiting, Slots
  <2>14. WorkBounded'
    BY <1>1, <1>2, <2>2, <2>13 DEF WorkBounded, repository
  <2> QED
    BY <2>8, <2>9, <2>12, <2>14 DEF AInv
<1> QED
  BY <1>3, <1>4, <1>5, <1>6, <1>7

\* In a remote session the wire is the one place for what runs.
LEMMA OneWire ==
  ASSUME Shape, mode = "remote"
  PROVE  \A l \in Lanes : Running(l) <=> Lane(jobs["wire"].kind) = l
BY LaneIs, TasksAre DEF Shape, Running, Slots

\* An answer of the worker: what it does to the session's view.
LEMMA AnsweredTypes ==
  ASSUME AInv, UNCHANGED repository, Finished("wire"), Answered(jobs["wire"])
  PROVE  /\ wanted' \in BOOLEAN /\ reread' \in BOOLEAN /\ prompt' \in Prompts
         /\ shown' \in Snaps /\ noticed' \in 0..work'
         /\ committed' \in [Files -> Nat \cup {NotCached, NoText}]
         /\ unavailable' \in BOOLEAN /\ (unavailable => unavailable')
<1> DEFINE job == jobs["wire"]
<1>1. Types /\ job.snap \in Snaps /\ work' = work
  BY JobFields DEF AInv, Slots, repository
<1>2. CASE job.kind = "status"
  <2>1. StatusAnswered(job) /\ UNCHANGED <<wanted, reread, prompt, noticed>>
    BY <1>2 DEF Answered, Queries, Writes
  <2> HIDE DEF job
  <2>2. shown' \in Snaps /\ committed' \in [Files -> Nat \cup {NotCached, NoText}]
    BY <1>1, <2>1, FillTypes DEF StatusAnswered, Shows
  <2>3. unavailable \in BOOLEAN /\ unavailable' \in {unavailable, TRUE}
    BY <1>1, <2>1 DEF Types, StatusAnswered
  <2>4. /\ wanted' \in BOOLEAN /\ reread' \in BOOLEAN /\ prompt' \in Prompts
        /\ noticed' \in 0..work'
    BY <1>1, <2>1 DEF Types, Prompts
  <2> QED
    BY <2>2, <2>3, <2>4
<1>3. CASE job.kind = "committed"
  <2>1. /\ committed' = [committed EXCEPT ![job.file] = CommittedIn(job.snap)]
        /\ UNCHANGED <<wanted, shown, reread, prompt, unavailable, noticed>>
    BY <1>3 DEF Answered, Reads, Queries, Writes
  <2>2. CommittedIn(job.snap) \in Nat \cup {NotCached, NoText}
    BY <1>1 DEF Snaps, CommittedIn, NoText
  <2> HIDE DEF job
  <2> QED
    BY <1>1, <2>1, <2>2 DEF Types, Prompts
<1>4. CASE job.kind = "comparison"
  <2>1. UNCHANGED <<view, unavailable, noticed>>
    BY <1>4 DEF Answered, Queries, Writes
  <2> QED
    BY <1>1, <2>1 DEF Types, view, Prompts
<1>5. CASE job.kind \in Queries
  <2>1. /\ prompt' = PromptAfter(job.kind, job.result)
        /\ UNCHANGED <<wanted, shown, committed, reread, unavailable, noticed>>
    BY <1>5 DEF Answered, Queries, Writes
  <2>2. prompt' \in Prompts
    BY <1>1, <2>1 DEF PromptAfter, Types, Prompts
  <2> QED
    BY <1>1, <2>1, <2>2 DEF Types
<1>6. CASE job.kind \in Writes
  <2>1. /\ OperationDone(job.kind) \/ OperationFailed(job.kind)
        /\ UNCHANGED <<shown, committed, prompt, unavailable>>
    BY <1>6 DEF Answered, Queries, Writes
  <2>2. /\ wanted' = TRUE /\ noticed' = work' /\ reread' \in BOOLEAN
    BY <1>1, <2>1 DEF OperationDone, OperationFailed, Changed, Types
  <2> QED
    BY <1>1, <2>1, <2>2 DEF Types, Prompts
<1>7. job.kind \in {"status", "committed", "comparison"} \cup Queries \cup Writes
  <2>1. job.kind \in JobKinds \cup {NoTask} /\ (job.kind = NoTask => job = NoJob)
    BY <1>1, JobFields DEF AInv, Shape, Slots
  <2>2. job # NoJob
    BY TasksAre DEF Finished
  <2> QED
    BY <2>1, <2>2 DEF JobKinds, UserAsks
<1> QED
  BY <1>2, <1>3, <1>4, <1>5, <1>6, <1>7

LEMMA ReceiveSteps ==
  ASSUME AInv, Receive
  PROVE  AInv'
<1>1. Types /\ Shape /\ Accounted /\ WorkBounded
  BY DEF AInv
<1>2. /\ mode = "remote" /\ at' = "send" /\ UNCHANGED repository
      /\ UNCHANGED <<mode, open, unsaved, pending, alive, faults>>
  BY DEF Receive, PollStep, documents
<1>3. CASE Finished("wire")
  <2>1. /\ Answered(jobs["wire"]) /\ Told({jobs["wire"].kind})
        /\ jobs' = [jobs EXCEPT !["wire"] = NoJob]
    BY <1>3 DEF Receive
  <2>2. /\ wanted' \in BOOLEAN /\ reread' \in BOOLEAN /\ prompt' \in Prompts
        /\ shown' \in Snaps /\ noticed' \in 0..work'
        /\ committed' \in [Files -> Nat \cup {NotCached, NoText}]
        /\ unavailable' \in BOOLEAN /\ (unavailable => unavailable')
    BY <1>2, <1>3, <2>1, AnsweredTypes
  <2>3. /\ jobs' \in [Slots -> Tasks] /\ jobs'["wire"] = NoJob
        /\ \A s \in Slots \ {"wire"} : jobs'[s] = jobs[s]
    BY <1>1, <2>1, JobPut, TasksAre DEF Slots
  <2>4. /\ owed' \in [Lanes -> {0, 1}]
        /\ \A l \in Lanes : IF Lane(jobs["wire"].kind) = l THEN owed'[l] = 0
                            ELSE owed'[l] = owed[l]
    BY <1>1, <2>1, ToldOf
  <2>5. Types'
    BY <1>1, <1>2, <2>2, <2>3, <2>4 DEF Types, repository, Prompts
  <2>6. Shape'
    BY <1>1, <1>2, <2>3, TasksAre DEF Shape, Slots
  <2>7. \A l \in Lanes : ~Running(l)'
    <3>1. \A l \in Lanes : Running(l)' <=> Lane(jobs'["wire"].kind) = l
      <4>1. (Shape /\ mode = "remote")'
        BY <1>2, <2>6
      <4>2. (\A l \in Lanes : Running(l) <=> Lane(jobs["wire"].kind) = l)'
        BY <4>1, OneWire, PTL
      <4> QED
        BY <4>2
    <3> QED
      BY <2>3, <3>1, LaneIs, TasksAre
  <2>8. Accounted'
    <3>1. \A l \in Lanes : Running(l) <=> Lane(jobs["wire"].kind) = l
      BY <1>1, <1>2, OneWire
    <3> QED
      BY <1>1, <1>2, <2>2, <2>4, <2>7, <3>1 DEF Accounted, Waiting
  <2>9. WriteAhead' <=> WriteAhead
    BY <1>2, <1>3, <2>3, TasksAre, LaneIs DEF WriteAhead, Waiting, Finished
  <2>10. WorkBounded'
    BY <1>1, <1>2, <2>9 DEF WorkBounded, repository
  <2> QED
    BY <2>5, <2>6, <2>8, <2>10 DEF AInv
<1>4. CASE ~Finished("wire") /\ alive
  <2>1. UNCHANGED <<shown, committed, unavailable, jobs, wanted, reread, prompt, owed, noticed>>
    BY <1>4 DEF Receive
  <2>2. Types'
    BY <1>1, <1>2, <2>1 DEF Types, repository
  <2> QED
    BY <1>2, <2>1, <2>2, StillAccounted DEF repository
<1>5. CASE ~Finished("wire") /\ ~alive
  <2>1. /\ Fill(Nothing) /\ unavailable' = TRUE
        /\ jobs' = [jobs EXCEPT !["wire"] = NoJob]
        /\ UNCHANGED <<wanted, reread, prompt, owed, noticed>>
    BY <1>5 DEF Receive, Shows
  <2>2. shown' \in Snaps /\ committed' \in [Files -> Nat \cup {NotCached, NoText}]
    BY <1>1, <2>1, FillTypes, TasksAre
  <2>3. /\ jobs' \in [Slots -> Tasks] /\ jobs'["wire"] = NoJob
        /\ \A s \in Slots \ {"wire"} : jobs'[s] = jobs[s]
    BY <1>1, <2>1, JobPut, TasksAre DEF Slots
  <2>4. Types'
    BY <1>1, <1>2, <2>1, <2>2, <2>3 DEF Types, repository
  <2>5. Shape'
    BY <1>1, <1>2, <2>3, TasksAre DEF Shape, Slots
  <2>6. \A l \in Lanes : Running(l)' => Running(l)
    BY <2>3, LaneIs, TasksAre DEF Running, Slots
  <2>7. Accounted'
    BY <1>1, <1>2, <2>1, <2>6 DEF Accounted, Waiting
  <2>8. WriteAhead' <=> WriteAhead
    BY <1>2, <1>5 DEF WriteAhead, Waiting
  <2>9. WorkBounded'
    BY <1>1, <1>2, <2>8 DEF WorkBounded, repository
  <2> QED
    BY <2>4, <2>5, <2>7, <2>9 DEF AInv
<1> QED
  BY <1>3, <1>4, <1>5

LEMMA SendOneSteps ==
  ASSUME AInv, Send, SendOne, alive, jobs["wire"] = NoJob, Sendable
  PROVE  AInv'
<1>1. Types /\ Shape /\ Accounted /\ WorkBounded
  BY DEF AInv
<1>2. /\ mode = "remote" /\ at' \in {"idle", "reload"} /\ UNCHANGED repository
      /\ UNCHANGED <<mode, prompt, open, unsaved, alive, faults>>
      /\ UNCHANGED <<shown, committed, reread, unavailable, owed, noticed>>
  BY DEF Send, SendOne, PollStep, AfterPoll, documents
<1>3. \A l \in Lanes : ~Running(l)
  BY <1>1, <1>2, OneWire, LaneIs, TasksAre
<1>4. CASE \E lane \in Lanes : GoesFirst(lane) /\ SendPending(lane)
  <2>1. PICK lane \in Lanes : /\ pending[lane] # NoTask /\ UNCHANGED wanted
                              /\ jobs' = [jobs EXCEPT !["wire"] = Job(pending[lane], "none")]
                              /\ pending' = [pending EXCEPT ![lane] = NoTask]
    BY <1>4 DEF GoesFirst, SendPending, Sent
  <2>2. /\ pending[lane] \in UserAsks /\ Lane(pending[lane]) = lane
        /\ pending[lane] \in JobKinds
    BY <1>1, <2>1, LanesAre DEF Types, Shape
  <2>3. /\ jobs' \in [Slots -> Tasks] /\ jobs'["wire"] = Job(pending[lane], "none")
        /\ \A s \in Slots \ {"wire"} : jobs'[s] = jobs[s]
    BY <1>1, <2>1, <2>2, JobPut, TasksAre DEF Slots
  <2>4. /\ pending' \in [Lanes -> UserAsks \cup {NoTask}] /\ pending'[lane] = NoTask
        /\ \A l \in Lanes \ {lane} : pending'[l] = pending[l]
    BY <1>1, <2>1 DEF Types
  <2>5. /\ jobs'["wire"].kind = pending[lane] /\ jobs'["wire"].result = "running"
        /\ pending[lane] # NoTask
    BY <2>1, <2>2, <2>3, TasksAre
  <2>6. Types'
    BY <1>1, <1>2, <2>1, <2>3, <2>4 DEF Types, repository
  <2>7. Shape'
    BY <1>1, <1>2, <2>3, <2>4, <2>5 DEF Shape, Slots
  <2>8. \A l \in Lanes : Running(l)' <=> l = lane
    <3>1. (Shape /\ mode = "remote")'
      BY <1>2, <2>7
    <3>2. (\A l \in Lanes : Running(l) <=> Lane(jobs["wire"].kind) = l)'
      BY <3>1, OneWire, PTL
    <3> QED
      BY <2>2, <2>5, <3>2
  <2>9. Accounted'
    BY <1>1, <1>2, <1>3, <2>1, <2>4, <2>8 DEF Accounted, Waiting
  <2>10. WriteAhead' => WriteAhead
    <3>1. lane = "write" <=> pending[lane] \in Writes
      BY <2>2, LanesAre
    <3> QED
      BY <1>2, <2>1, <2>4, <2>5, <3>1, LaneIs DEF WriteAhead, Waiting
  <2>11. WriteAhead => WriteAhead'
    <3>1. lane = "write" => pending[lane] \in Writes
      BY <2>2, LanesAre
    <3>2. jobs["wire"].kind \notin Writes
      BY TasksAre, LanesAre
    <3> QED
      BY <1>2, <2>4, <2>5, <3>1, <3>2, LaneIs DEF WriteAhead, Waiting
  <2>12. WorkBounded'
    BY <1>1, <1>2, <2>10, <2>11 DEF WorkBounded, repository
  <2> QED
    BY <2>6, <2>7, <2>9, <2>12 DEF AInv
<1>5. CASE NonePending /\ UNCHANGED pending
  <2>1. PICK job \in Tasks : /\ jobs' = [jobs EXCEPT !["wire"] = job]
                             /\ job.kind \in {"status", "committed"} /\ job.result = "running"
    <3>1. CASE wanted
      BY <1>5, <3>1, TasksAre DEF SendOne, Sent, GoesFirst, NonePending, JobKinds
    <3>2. CASE ~wanted
      <4>1. CommittedWanted # {}
        BY <1>5, <3>2 DEF Sendable
      <4>2. PICK f \in CommittedWanted : Sent("committed", f)
        BY <1>5, <3>2 DEF SendOne, GoesFirst, NonePending
      <4>3. f \in Files /\ "committed" \in JobKinds
        BY <1>1 DEF CommittedWanted, Types, JobKinds
      <4> QED
        BY <4>2, <4>3, TasksAre DEF Sent
    <3> QED
      BY <3>1, <3>2
  <2>2. wanted' \in BOOLEAN
    BY <1>1, <1>5 DEF SendOne, Types, GoesFirst, NonePending
  <2>3. /\ jobs' \in [Slots -> Tasks] /\ jobs'["wire"] = job
        /\ \A s \in Slots \ {"wire"} : jobs'[s] = jobs[s]
    BY <1>1, <2>1, JobPut DEF Slots
  <2>4. Types'
    BY <1>1, <1>2, <1>5, <2>2, <2>3 DEF Types, repository
  <2>5. Shape'
    BY <1>1, <1>2, <1>5, <2>1, <2>3, LaneIs DEF Shape, Slots
  <2>6. \A l \in Lanes : ~Running(l)'
    BY <1>3, <2>1, <2>3, LaneIs DEF Running, Slots
  <2>7. Accounted'
    BY <1>1, <1>2, <1>3, <1>5, <2>6 DEF Accounted, Waiting
  <2>8. WriteAhead' <=> WriteAhead
    BY <1>2, <1>5, <2>1, <2>3, TasksAre DEF WriteAhead, Waiting, Writes, NoTask
  <2>9. WorkBounded'
    BY <1>1, <1>2, <2>8 DEF WorkBounded, repository
  <2> QED
    BY <2>4, <2>5, <2>7, <2>9 DEF AInv
<1> QED
  BY <1>4, <1>5 DEF SendOne

LEMMA SendFailsSteps ==
  ASSUME AInv, Send, SendFails, ~alive, jobs["wire"] = NoJob
  PROVE  AInv'
<1>1. Types /\ Shape /\ Accounted /\ WorkBounded
  BY DEF AInv
<1>2. /\ mode = "remote" /\ at' \in {"idle", "reload"} /\ UNCHANGED repository
      /\ UNCHANGED <<mode, prompt, open, unsaved, alive, faults, jobs>>
      /\ unavailable' = TRUE
  BY DEF Send, SendFails, PollStep, AfterPoll, documents
<1>3. /\ pending' \in [Lanes -> UserAsks \cup {NoTask}] /\ owed' \in [Lanes -> {0, 1}]
      /\ wanted' \in BOOLEAN /\ reread' \in BOOLEAN /\ noticed' \in 0..work'
      /\ shown' \in Snaps /\ committed' \in [Files -> Nat \cup {NotCached, NoText}]
      /\ \A l \in Lanes : pending'[l] \in {NoTask, pending[l]}
  <2>1. CASE \E lane \in Lanes : GoesFirst(lane) /\ RequestFails(lane)
    <3>1. PICK lane \in Lanes : RequestFails(lane)
      BY <2>1
    <3>2. owed' \in [Lanes -> {0, 1}]
      BY <1>1, <3>1, ToldOf DEF RequestFails
    <3>3. wanted' \in BOOLEAN /\ reread' \in BOOLEAN /\ noticed' \in 0..work'
      <4>1. work' = work /\ work \in Nat /\ noticed \in 0..work
        BY <1>1, <1>2 DEF Types, repository
      <4>2. /\ UNCHANGED reread
            /\ \/ wanted' = TRUE /\ noticed' = work'
               \/ UNCHANGED <<wanted, noticed>>
        BY <3>1 DEF RequestFails, OperationFailed, Changed
      <4>3. noticed' \in 0..work'
        BY <4>1, <4>2
      <4>4. wanted' \in BOOLEAN /\ reread' \in BOOLEAN
        BY <1>1, <4>2 DEF Types
      <4> QED
        BY <4>3, <4>4
    <3> QED
      BY <1>1, <3>1, <3>2, <3>3 DEF RequestFails, Types
  <2>2. CASE NonePending /\ UNCHANGED <<pending, owed, noticed, reread>>
    <3>1. \/ wanted' = FALSE /\ Fill(Nothing)
          \/ /\ \E f \in CommittedWanted : committed' = [committed EXCEPT ![f] = NoText]
             /\ UNCHANGED <<wanted, shown>>
      BY <2>2 DEF SendFails, Shows, Reads, GoesFirst, NonePending
    <3>2. shown' \in Snaps /\ committed' \in [Files -> Nat \cup {NotCached, NoText}]
      <4>1. CASE Fill(Nothing)
        BY <1>1, <4>1, FillTypes, TasksAre
      <4>2. CASE ~Fill(Nothing)
        BY <1>1, <3>1, <4>2 DEF Types
      <4> QED
        BY <4>1, <4>2
    <3>3. wanted' \in BOOLEAN
      BY <1>1, <3>1 DEF Types
    <3>4. reread' \in BOOLEAN /\ noticed' \in 0..work'
      BY <1>1, <1>2, <2>2 DEF Types, repository
    <3> QED
      BY <1>1, <2>2, <3>2, <3>3, <3>4 DEF Types
  <2> QED
    BY <2>1, <2>2 DEF SendFails
<1>4. Types'
  BY <1>1, <1>2, <1>3 DEF Types, repository
<1>5. Shape'
  BY <1>1, <1>2, <1>3 DEF Shape
<1>6. Accounted'
  BY <1>1, <1>2, <1>3 DEF Accounted, Running, Waiting
<1>7. WriteAhead' => WriteAhead
  BY <1>2, <1>3, LaneIs DEF WriteAhead, Waiting
<1>8. WorkBounded'
  BY <1>1, <1>2, <1>7, BoundTyped DEF WorkBounded, repository, Types
<1> QED
  BY <1>4, <1>5, <1>6, <1>8 DEF AInv

LEMMA SendSteps ==
  ASSUME AInv, Send
  PROVE  AInv'
<1>1. Types /\ mode = "remote" /\ at' \in {"idle", "reload"} /\ UNCHANGED repository
      /\ UNCHANGED <<mode, prompt, open, unsaved, alive, faults>>
  BY DEF AInv, Send, PollStep, AfterPoll, documents
<1>2. CASE unavailable \/ jobs["wire"] # NoJob \/ ~Sendable
  <2>1. UNCHANGED <<wanted, shown, committed, reread, jobs, pending, unavailable,
                    owed, noticed>>
    BY <1>2 DEF Send
  <2>2. Types'
    BY <1>1, <2>1 DEF Types, repository
  <2> QED
    BY <1>1, <2>1, <2>2, StillAccounted DEF repository
<1>3. CASE ~(unavailable \/ jobs["wire"] # NoJob \/ ~Sendable)
  BY <1>3, SendOneSteps, SendFailsSteps DEF Send
<1> QED
  BY <1>2, <1>3

LEMMA Stutters ==
  ASSUME AInv, UNCHANGED vars
  PROVE  AInv'
<1> USE DEF vars, repository, view, documents, worker, history
<1>1. Types'
  BY DEF AInv, Types
<1> QED
  BY <1>1 DEF AInv, Shape, Accounted, Running, Waiting, WorkBounded, WriteAhead

LEMMA AInvStep ==
  ASSUME AInv, [Next]_vars
  PROVE  AInv'
<1>1. CASE Poll
  BY <1>1, CollectSteps, SimpleSteps, ReceiveSteps, SendSteps DEF Poll
<1>2. CASE User
  <2>1. CASE AskFromView
    <3>1. PICK kind : Asks(kind)
      BY <2>1 DEF AskFromView
    <3>2. prompt' \in Prompts /\ at' \in {"idle", "reload"}
      BY <2>1 DEF AskFromView, KeyDone, AInv, Types, Prompts
    <3> QED
      BY <3>1, <3>2, AsksSteps
  <2>2. CASE AcceptPrompt
    <3>1. PICK kind : Asks(kind)
      BY <2>2 DEF AcceptPrompt
    <3>2. prompt' \in Prompts /\ at' \in {"idle", "reload"}
      BY <2>2 DEF AcceptPrompt, KeyDone, Prompts
    <3> QED
      BY <3>1, <3>2, AsksSteps
  <2> QED
    BY <1>2, <2>1, <2>2, SimpleSteps DEF User
<1>3. CASE OthersChange
  BY <1>3, SimpleSteps
<1>4. CASE WorkerStops
  BY <1>4, WorkerStopsSteps
<1>5. CASE \E f \in Files : ServerEdit(f)
  BY <1>5, SimpleSteps
<1>6. CASE \E slot \in Slots : Run(slot)
  BY <1>6, RunSteps
<1>7. CASE UNCHANGED vars
  BY <1>7, Stutters
<1> QED
  BY <1>1, <1>2, <1>3, <1>4, <1>5, <1>6, <1>7 DEF Next

-----------------------------------------------------------------------------
(* Requests are neither forgotten nor held twice. *)

LEMMA InHandIs ==
  ASSUME AInv, NEW l \in Lanes
  PROVE  InHand(l) = (IF Running(l) THEN 1 ELSE 0) + (IF Waiting(l) THEN 1 ELSE 0)
<1> DEFINE S == {s \in Slots : Lane(jobs[s].kind) = l}
<1>1. Types /\ Shape
  BY DEF AInv
<1>2. PICK place \in Slots : S \subseteq {place} /\ (place \in S <=> Running(l))
  <2>1. CASE mode = "remote"
    <3>1. Running(l) <=> Lane(jobs["wire"].kind) = l
      BY <1>1, <2>1, OneWire
    <3>2. \A s \in Slots \ {"wire"} : s \notin S
      BY <1>1, <2>1, LaneIs, TasksAre DEF Shape
    <3> QED
      BY <3>1, <3>2 DEF Slots
  <2>2. CASE mode # "remote"
    <3>1. /\ "status" \notin S /\ "wire" \notin S
          /\ "comparison" \in S => l = "comparison"
          /\ "query" \in S => l = "query"
      BY <1>1, <2>2, LaneIs, TasksAre DEF Shape
    <3>2. Running(l) <=> "comparison" \in S \/ "query" \in S
      BY <3>1 DEF Running, Slots
    <3>3. CASE l = "comparison"
      BY <3>1, <3>2, <3>3 DEF Slots
    <3>4. CASE l # "comparison"
      BY <3>1, <3>2, <3>4 DEF Slots
    <3> QED
      BY <3>3, <3>4
  <2> QED
    BY <2>1, <2>2
<1>3. Cardinality(S) = IF Running(l) THEN 1 ELSE 0
  <2>1. S = IF Running(l) THEN {place} ELSE {}
    BY <1>2
  <2> QED
    BY <2>1, FS_EmptySet, FS_Singleton
<1> QED
  BY <1>3 DEF InHand, Waiting

LEMMA AInvAccounts ==
  ASSUME AInv
  PROVE  RequestsAccounted
<1>1. Types /\ Shape /\ Accounted /\ WorkBounded
  BY DEF AInv
<1>2. work \in 0..(MaxWork[mode] + 1)
  BY <1>1, BoundTyped DEF WorkBounded, Types
<1>3. \A s \in Slots : /\ jobs[s].kind \in JobKinds \cup {NoTask} /\ jobs[s].snap \in Snaps
                       /\ jobs[s].result \in {"none", "running", "ok", "failed"}
  BY <1>1, JobFields
<1>4. TypeOK
  BY <1>1, <1>2, <1>3 DEF TypeOK, Types
<1>5. ASSUME NEW l \in Lanes
      PROVE  InHand(l) <= 1 /\ (owed[l] = InHand(l) \/ unavailable)
  <2>1. InHand(l) = (IF Running(l) THEN 1 ELSE 0) + (IF Waiting(l) THEN 1 ELSE 0)
    BY InHandIs
  <2>2. /\ owed[l] \in {0, 1} /\ ~(Running(l) /\ Waiting(l))
        /\ unavailable \/ (owed[l] = 1 <=> Running(l) \/ Waiting(l))
    BY <1>1 DEF Types, Accounted
  <2> QED
    BY <2>1, <2>2
<1> QED
  BY <1>4, <1>5 DEF RequestsAccounted

\* Whatever the user asks and the session, the worker and other programs do,
\* the state keeps its types, and requests their places (Scm::poll_remote).
THEOREM Invariance == Spec => []AInv
<1>1. Init => AInv
  BY Initially DEF IInv
<1>2. AInv /\ [Next]_vars => AInv'
  BY AInvStep
<1> QED
  BY <1>1, <1>2, PTL DEF Spec

\* What the user asked of Git is with its thread or waits in its lane until it
\* is answered, and at most one request of a sort is (Scm::apply, Scm::compare,
\* Scm::poll_remote).
THEOREM RequestsAreAccounted == Spec => []RequestsAccounted
BY Invariance, AInvAccounts, PTL

-----------------------------------------------------------------------------
(* The gutter. *)

\* What may become of the view while the repository stands still: nothing, every
\* text dropped, a status that is true of its moment, or a text of the commit
\* that is checked out.
Flushed == shown' = shown /\ committed' = [f \in Files |-> NotCached]

Given(f, text) ==
  shown' = shown /\ Reads(f, text) /\ (text >= 0 /\ shown.era = era => text = head)

ViewStep == \/ UNCHANGED <<shown, committed, gutter>>
            \/ Flushed
            \/ \E status \in Snaps : OfThePast(status) /\ Shows(status)
            \/ \E f \in Files \cup {"none"}, text \in Int : Given(f, text)

\* What may become of an answer that is not taken yet.
Kept(slot) == jobs'[slot].snap \in {jobs[slot].snap, Nothing}

WireStep == \/ UNCHANGED shown /\ jobs'["wire"] = jobs["wire"]
            \/ jobs'["wire"].kind # "committed"
            \/ jobs'["wire"].snap = Nothing

LEMMA PastStays ==
  ASSUME Types, Types', Moved, NEW snap \in Snaps, OfThePast(snap)
  PROVE  snap.era <= era' /\ (snap.era = era' => snap.head = head')
<1>1. era \in Nat /\ era' \in Nat /\ snap.era \in Int
  BY DEF Types, Snaps
<1> QED
  BY <1>1 DEF Moved, Stays, OfThePast

\* A move of HEAD begins an era that no status knows of.
LEMMA ViewMoves ==
  ASSUME Types, Types', Moved, UNCHANGED <<shown, committed, gutter>>,
         OfThePast(shown), TextsClean
  PROVE  OfThePast(shown)' /\ TextsClean'
<1>1. /\ era \in Nat /\ era' \in Nat /\ shown \in Snaps /\ shown.era \in Int
      /\ UNCHANGED <<recent, returned>>
  BY DEF Types, Snaps, gutter
<1>2. OfThePast(shown)'
  BY <1>1, PastStays DEF OfThePast
<1>3. shown.era = era' => era' = era /\ head' = head
  BY <1>1 DEF Moved, Stays, OfThePast
<1>4. TextsClean'
  BY <1>1, <1>3 DEF TextsClean
<1> QED
  BY <1>2, <1>4

\* A status that comes drops the texts if it names another commit.  If it names
\* the same one, those that were read while an older turn of HEAD was on the
\* screen are the ones that returned.
LEMMA ViewShows ==
  ASSUME Types, TextsClean, NEW status \in Snaps, Shows(status), UNCHANGED <<head, era>>
  PROVE  TextsClean'
<1> DEFINE Clean(f) == committed'[f] >= 0 =>
             IF f \in recent' THEN shown'.era = era' => committed'[f] = head'
             ELSE committed'[f] = shown'.head
<1>1. SUFFICES ASSUME NEW f \in Files, f \notin returned' PROVE Clean(f)
  BY DEF TextsClean
<1>2. shown' = status
  BY DEF Shows, Fill
<1>3. CASE status.head # shown.head
  BY <1>3 DEF Shows, Fill, NotCached
<1>4. CASE status.head = shown.head /\ status.era = shown.era
  BY <1>1, <1>2, <1>4 DEF Shows, Fill, Remembered, gutter, TextsClean
<1>5. CASE status.head = shown.head /\ status.era # shown.era
  <2>1. committed' = committed /\ recent' = {} /\ f \notin returned /\ f \notin recent
    BY <1>1, <1>5 DEF Shows, Fill, Remembered
  <2> QED
    BY <1>1, <1>2, <1>5, <2>1 DEF TextsClean
<1> QED
  BY <1>3, <1>4, <1>5

LEMMA ViewGiven ==
  ASSUME Types, TextsClean, NEW f, NEW text \in Int, Given(f, text),
         UNCHANGED <<head, era>>
  PROVE  TextsClean'
<1>1. /\ committed \in [Files -> Nat \cup {NotCached, NoText}]
      /\ committed' = [committed EXCEPT ![f] = text] /\ shown' = shown
      /\ recent' = recent \cup {f} /\ returned' = returned
      /\ text >= 0 /\ shown.era = era => text = head
  BY DEF Types, Given, Reads
<1>2. \A g \in Files : committed'[g] = IF g = f THEN text ELSE committed[g]
  BY <1>1
<1> QED
  BY <1>1, <1>2 DEF TextsClean

LEMMA ViewChanges ==
  ASSUME Types, Types', OfThePast(shown), TextsClean, ViewStep, UNCHANGED repository
  PROVE  OfThePast(shown)' /\ TextsClean'
<1>1. UNCHANGED <<head, era>>
  BY DEF repository
<1>2. CASE UNCHANGED <<shown, committed, gutter>>
  BY <1>1, <1>2, ViewMoves DEF Moved, Stays
<1>3. CASE Flushed
  BY <1>1, <1>3 DEF Flushed, OfThePast, TextsClean, NotCached
<1>4. CASE \E status \in Snaps : OfThePast(status) /\ Shows(status)
  <2>1. PICK status \in Snaps : OfThePast(status) /\ Shows(status)
    BY <1>4
  <2>2. TextsClean'
    BY <1>1, <2>1, ViewShows
  <2> QED
    BY <1>1, <2>1, <2>2 DEF Shows, Fill, OfThePast
<1>5. CASE \E f \in Files \cup {"none"}, text \in Int : Given(f, text)
  <2>1. PICK f \in Files \cup {"none"}, text \in Int : Given(f, text)
    BY <1>5
  <2>2. TextsClean'
    BY <1>1, <2>1, ViewGiven
  <2> QED
    BY <1>1, <2>1, <2>2 DEF Given, OfThePast
<1> QED
  BY <1>2, <1>3, <1>4, <1>5 DEF ViewStep

\* HEAD moves and the view stands still, or the other way round.
LEMMA GutterKept ==
  ASSUME Types, Types', GInv, Moved,
         UNCHANGED repository \/ UNCHANGED <<shown, committed, gutter>>,
         ViewStep, WireStep, \A s \in Slots : Kept(s)
  PROVE  GInv'
<1>1. OfThePast(shown)' /\ TextsClean'
  BY ViewMoves, ViewChanges DEF GInv
<1>2. OfThePast(Nothing)'
  BY TasksAre DEF Types, OfThePast
<1>3. ASSUME NEW s \in Slots
      PROVE  OfThePast(jobs[s].snap)'
  <2>1. PICK past \in Snaps : past = jobs[s].snap /\ OfThePast(past)
    BY JobFields DEF GInv
  <2>2. past.era <= era' /\ (past.era = era' => past.head = head')
    BY <2>1, PastStays
  <2>3. jobs'[s].snap = past \/ jobs'[s].snap = Nothing
    BY <2>1 DEF Kept
  <2> QED
    BY <1>2, <2>2, <2>3 DEF OfThePast
<1>4. WireClean'
  <2>1. CASE UNCHANGED shown /\ jobs'["wire"] = jobs["wire"]
    <3>1. shown.era = era' => era' = era /\ head' = head
      BY DEF GInv, OfThePast, Moved, Stays, Types, Snaps
    <3> QED
      BY <2>1, <3>1 DEF GInv, WireClean
  <2>2. CASE jobs'["wire"].kind # "committed" \/ jobs'["wire"].snap = Nothing
    BY <2>2, TasksAre DEF WireClean
  <2> QED
    BY <2>1, <2>2 DEF WireStep
<1> QED
  BY <1>1, <1>3, <1>4 DEF GInv

\* The steps that leave the view and the worker's answers alone.
LEMMA GutterFrame ==
  ASSUME AInv, AInv', GInv, Moved, UNCHANGED <<shown, committed, jobs, gutter>>
  PROVE  GInv'
<1>1. ViewStep /\ WireStep /\ \A s \in Slots : Kept(s)
  BY DEF ViewStep, WireStep, Kept
<1> QED
  BY <1>1, GutterKept DEF AInv

LEMMA GutterSimple ==
  ASSUME AInv, AInv', GInv, NEW f,
         \/ Save(f) \/ Edit(f) \/ ServerEdit(f) \/ OpenOrClose(f) \/ AskDiscard(f)
         \/ Refresh \/ ClosePrompt \/ OthersChange
  PROVE  GInv'
<1> USE DEF repository, view, documents, worker, history, gutter
<1>1. UNCHANGED <<shown, committed, jobs, gutter>>
  BY DEF Save, Edit, ServerEdit, OpenOrClose, AskDiscard, Refresh, ClosePrompt, OthersChange
<1>2. Moved
  BY DEF Save, Edit, ServerEdit, OpenOrClose, AskDiscard, Refresh, ClosePrompt, OthersChange,
         MovesTo, Moved, Stays
<1> QED
  BY <1>1, <1>2, GutterFrame

LEMMA GutterFetch ==
  ASSUME AInv, AInv', GInv, FetchCommitted
  PROVE  GInv'
<1>1. /\ Types /\ Types' /\ UNCHANGED repository /\ UNCHANGED <<shown, jobs>>
  BY DEF AInv, FetchCommitted, worker
<1>2. head \in Int /\ NoText \in Int /\ ~(NoText >= 0)
  BY <1>1 DEF Types, NoText
<1>3. \A f \in CommittedWanted : f \in Files
  BY <1>1 DEF CommittedWanted, Types
<1>4. ViewStep
  BY <1>1, <1>2, <1>3 DEF FetchCommitted, ViewStep, Given, gutter
<1>5. Moved /\ WireStep /\ \A s \in Slots : Kept(s)
  BY <1>1 DEF Moved, Stays, repository, WireStep, Kept
<1> QED
  BY <1>1, <1>4, <1>5, GutterKept

LEMMA GutterReload ==
  ASSUME AInv, AInv', GInv, Reload
  PROVE  GInv'
<1>1. Types /\ Types' /\ UNCHANGED repository /\ UNCHANGED <<shown, jobs>>
  BY DEF AInv, Reload, worker
<1>2. ViewStep
  BY <1>1 DEF Reload, RereadOpen, ViewStep, Flushed, gutter
<1>3. Moved /\ WireStep /\ \A s \in Slots : Kept(s)
  BY <1>1 DEF Moved, Stays, repository, WireStep, Kept
<1> QED
  BY <1>1, <1>2, <1>3, GutterKept

LEMMA GutterWorkerStops ==
  ASSUME AInv, AInv', GInv, WorkerStops
  PROVE  GInv'
<1>1. Types /\ UNCHANGED <<shown, committed, jobs, gutter>>
  BY DEF AInv, WorkerStops, view
<1>2. Moved
  BY <1>1, EffectOf DEF WorkerStops, repository, Moved, Stays
<1> QED
  BY <1>1, <1>2, GutterFrame

\* A run that reads the repository reads it as it is.
LEMMA GutterRun ==
  ASSUME AInv, AInv', GInv, NEW slot \in Slots, Run(slot)
  PROVE  GInv'
<1> DEFINE job == jobs[slot]
<1>1. Types /\ Types' /\ UNCHANGED <<shown, committed, gutter>> /\ job \in Tasks
  BY JobFields DEF AInv, Run, view
<1>2. PICK result \in {"ok", "failed"} :
        /\ IF job.kind \in Writes THEN Carried(job.kind, result) ELSE UNCHANGED repository
        /\ jobs' = [jobs EXCEPT ![slot].result = result,
                      ![slot].snap = IF result = "ok" THEN Read(job.kind) ELSE Nothing]
  BY DEF Run
<1>3. Moved /\ (job.kind \notin Writes => UNCHANGED <<head, era>>)
  BY <1>1, <1>2, CarriedOut DEF repository, Moved, Stays
<1> DEFINE read == IF result = "ok" THEN Read(job.kind) ELSE Nothing
<1>4. /\ read = Nothing \/ (read.head = head' /\ read.era \in {era', -1})
      /\ read.era \in Int
  BY <1>1, <1>3, TasksAre DEF Read, Writes, Nothing, Types
<1>5. jobs'[slot].snap = read /\ jobs'[slot].kind = job.kind
  BY <1>1, <1>2 DEF Types, Tasks
<1>6. \A s \in Slots \ {slot} : jobs'[s] = jobs[s]
  BY <1>1, <1>2 DEF Types
<1> HIDE DEF read
<1>7. OfThePast(shown)' /\ TextsClean'
  BY <1>1, <1>3, ViewMoves DEF GInv
<1>8. ASSUME NEW s \in Slots
      PROVE  OfThePast(jobs[s].snap)'
  <2>1. CASE s = slot
    BY <1>1, <1>4, <1>5, <2>1, TasksAre DEF OfThePast, Types
  <2>2. CASE s # slot
    <3>1. PICK past \in Snaps : past = jobs[s].snap /\ OfThePast(past)
      BY <1>1, JobFields DEF GInv
    <3>2. past.era <= era' /\ (past.era = era' => past.head = head')
      BY <1>1, <1>3, <3>1, PastStays
    <3>3. jobs'[s].snap = past
      BY <1>6, <2>2, <3>1
    <3> QED
      BY <3>2, <3>3 DEF OfThePast
  <2> QED
    BY <2>1, <2>2
<1>9. WireClean'
  <2>1. CASE slot = "wire"
    BY <1>4, <1>5, <2>1, TasksAre DEF WireClean
  <2>2. CASE slot # "wire"
    <3>1. jobs'["wire"] = jobs["wire"]
      BY <1>6, <2>2 DEF Slots
    <3>2. shown.era = era' => era' = era /\ head' = head
      BY <1>1, <1>3 DEF GInv, OfThePast, Moved, Stays, Types, Snaps
    <3> QED
      BY <1>1, <3>1, <3>2 DEF GInv, WireClean
  <2> QED
    BY <2>1, <2>2
<1> QED
  BY <1>7, <1>8, <1>9 DEF GInv

LEMMA GutterCollect ==
  ASSUME AInv, AInv', GInv, Collect
  PROVE  GInv'
<1>1. /\ Types /\ Types' /\ Shape /\ UNCHANGED repository /\ jobs["wire"] = NoJob
  BY DEF AInv, Shape, Collect
<1>2. /\ jobs' = [jobs EXCEPT
                    !["status"] = IF MayStart THEN Job("status", "none") ELSE Left("status"),
                    !["comparison"] = Left("comparison"), !["query"] = Left("query")]
      /\ jobs \in [Slots -> Tasks]
  BY <1>1 DEF Collect, Types
<1>3. \A s \in Slots : Left(s).snap \in {jobs[s].snap, Nothing}
  BY TasksAre DEF Left
<1>4. Job("status", "none").snap = Nothing
  BY TasksAre DEF JobKinds
<1>5. jobs'["wire"] = jobs["wire"]
  BY <1>2 DEF Slots
<1>6. ASSUME NEW s \in Slots PROVE Kept(s)
  <2>1. CASE s = "wire"
    BY <1>5, <2>1 DEF Kept
  <2>2. CASE s = "status"
    BY <1>2, <1>3, <1>4, <2>2 DEF Kept
  <2>3. CASE s \in {"comparison", "query"}
    BY <1>2, <1>3, <2>3 DEF Kept
  <2> QED
    BY <2>1, <2>2, <2>3 DEF Slots
<1>7. ViewStep
  <2>1. CASE Finished("status")
    <3>1. Shows(jobs["status"].snap)
      BY <2>1 DEF Collect, StatusAnswered
    <3>2. jobs["status"].snap \in Snaps /\ OfThePast(jobs["status"].snap)
      BY <1>1, JobFields DEF GInv, Slots
    <3> QED
      BY <3>1, <3>2 DEF ViewStep
  <2>2. CASE ~Finished("status")
    BY <2>2 DEF Collect, ViewStep
  <2> QED
    BY <2>1, <2>2
<1>8. Moved /\ WireStep
  BY <1>1, <1>5, TasksAre DEF Moved, Stays, repository, WireStep, NoTask
<1> QED
  BY <1>1, <1>6, <1>7, <1>8, GutterKept

LEMMA NothingIsPast ==
  ASSUME Types
  PROVE  Nothing \in Snaps /\ OfThePast(Nothing)
BY TasksAre DEF Types, OfThePast

LEMMA GutterReceive ==
  ASSUME AInv, AInv', GInv, Receive
  PROVE  GInv'
<1> DEFINE job == jobs["wire"]
<1>1. Types /\ Types' /\ Shape /\ UNCHANGED repository /\ "wire" \in Slots
  BY DEF AInv, Receive, Slots
<1>2. /\ jobs' = [jobs EXCEPT !["wire"] = NoJob] \/ UNCHANGED <<jobs, shown>>
      /\ jobs \in [Slots -> Tasks]
  BY <1>1 DEF Receive, Types
<1>3. WireStep /\ \A s \in Slots : Kept(s)
  BY <1>1, <1>2, TasksAre DEF WireStep, Kept
<1>4. ViewStep
  <2>1. CASE ~Finished("wire")
    BY <1>1, <2>1, NothingIsPast DEF Receive, ViewStep
  <2>2. CASE Finished("wire") /\ job.kind = "status"
    <3>1. Shows(job.snap)
      BY <2>2 DEF Receive, Answered, StatusAnswered, Queries, Writes
    <3>2. job.snap \in Snaps /\ OfThePast(job.snap)
      BY <1>1, JobFields DEF GInv
    <3> QED
      BY <3>1, <3>2 DEF ViewStep
  <2>3. CASE Finished("wire") /\ job.kind = "committed"
    <3>1. Reads(job.file, job.snap.head) /\ UNCHANGED shown
      BY <2>3 DEF Receive, Answered, CommittedIn, Queries, Writes
    <3>2. job.snap \in Snaps /\ job.snap.head \in Int
      BY <1>1, JobFields DEF Snaps
    <3>3. job.snap.head >= 0 /\ shown.era = era => job.snap.head = head
      BY <2>3 DEF GInv, WireClean
    <3>4. job.file \in Files \cup {"none"}
      BY <1>1, JobFields
    <3> HIDE DEF job
    <3> QED
      BY <3>1, <3>2, <3>3, <3>4 DEF ViewStep, Given
  <2>4. CASE Finished("wire") /\ job.kind \notin {"status", "committed"}
    <3>1. job.kind \in Queries \cup Writes \cup {"comparison"}
      <4>1. job.kind \in JobKinds \cup {NoTask} /\ (job.kind = NoTask => job = NoJob)
        BY <1>1, JobFields DEF Shape
      <4>2. job # NoJob
        BY <2>4, TasksAre DEF Finished
      <4> QED
        BY <2>4, <4>1, <4>2 DEF JobKinds, UserAsks
    <3> QED
      BY <2>4, <3>1 DEF Receive, Answered, Queries, Writes, view, ViewStep
  <2> QED
    BY <2>1, <2>2, <2>3, <2>4
<1>5. Moved
  BY <1>1 DEF Moved, Stays, repository
<1> QED
  BY <1>1, <1>3, <1>4, <1>5, GutterKept

LEMMA GutterSend ==
  ASSUME AInv, AInv', GInv, Send
  PROVE  GInv'
<1>1. Types /\ Types' /\ Shape /\ UNCHANGED repository
  BY DEF AInv, Send
<1>2. Moved
  BY <1>1 DEF Moved, Stays, repository
<1>3. CASE unavailable \/ jobs["wire"] # NoJob \/ ~Sendable
  BY <1>2, <1>3, GutterFrame DEF Send
<1>4. CASE ~(unavailable \/ jobs["wire"] # NoJob \/ ~Sendable) /\ alive
  <2>1. SendOne
    BY <1>4 DEF Send
  <2>2. UNCHANGED <<shown, committed, gutter>>
    BY <2>1 DEF SendOne
  <2>3. \E kind, file : Sent(kind, file)
    BY <2>1 DEF SendOne, SendPending
  <2>4. PICK task : task.snap = Nothing /\ jobs' = [jobs EXCEPT !["wire"] = task]
    BY <2>3 DEF Sent, Job
  <2>5. /\ jobs'["wire"].snap = Nothing
        /\ \A s \in Slots \ {"wire"} : jobs'[s] = jobs[s]
    BY <1>1, <2>4 DEF Types, Slots
  <2>6. ViewStep /\ WireStep /\ \A s \in Slots : Kept(s)
    BY <2>2, <2>5 DEF ViewStep, WireStep, Kept
  <2> QED
    BY <1>1, <1>2, <2>2, <2>6, GutterKept
<1>5. CASE ~(unavailable \/ jobs["wire"] # NoJob \/ ~Sendable) /\ ~alive
  <2>1. SendFails /\ jobs["wire"] = NoJob /\ UNCHANGED jobs
    BY <1>5 DEF Send, SendFails
  <2>2. NoText \in Int /\ ~(NoText >= 0) /\ \A f \in CommittedWanted : f \in Files
    BY <1>1 DEF NoText, CommittedWanted, Types
  <2>3. ViewStep
    <3>1. CASE \E lane \in Lanes : GoesFirst(lane) /\ RequestFails(lane)
      BY <3>1 DEF RequestFails, ViewStep
    <3>2. CASE NonePending /\ wanted /\ Shows(Nothing)
      BY <1>1, <3>2, NothingIsPast DEF ViewStep
    <3>3. CASE \E f \in CommittedWanted : Reads(f, NoText) /\ UNCHANGED shown
      BY <2>2, <3>3 DEF ViewStep, Given
    <3> QED
      BY <2>1, <3>1, <3>2, <3>3 DEF SendFails
  <2>4. WireStep /\ \A s \in Slots : Kept(s)
    BY <2>1, TasksAre DEF WireStep, Kept
  <2> QED
    BY <1>1, <1>2, <2>3, <2>4, GutterKept
<1> QED
  BY <1>3, <1>4, <1>5

LEMMA GutterAsks ==
  ASSUME AInv, AInv', GInv, NEW kind, Asks(kind)
  PROVE  GInv'
<1>1. /\ Types /\ Types' /\ UNCHANGED <<shown, committed, gutter>> /\ kind \in UserAsks
  BY BoundTyped DEF AInv, Asks
<1>2. Moved
  BY <1>1, CarriedOut DEF Asks, Apply, Query, repository, Moved, Stays
<1>3. \/ UNCHANGED jobs
      \/ jobs' = [jobs EXCEPT ![Lane(kind)] = Job(kind, "none")] /\ Lane(kind) # "wire"
  BY <1>1, LaneIs DEF Asks, Apply, Query, UserAsks
<1>4. /\ jobs'["wire"] = jobs["wire"]
      /\ \A s \in Slots : jobs'[s] = jobs[s] \/ jobs'[s].snap = Nothing
  BY <1>1, <1>3 DEF Types, Slots, Job
<1>5. ViewStep /\ WireStep /\ \A s \in Slots : Kept(s)
  BY <1>1, <1>4 DEF ViewStep, WireStep, Kept
<1> QED
  BY <1>1, <1>2, <1>5, GutterKept

LEMMA GInvStep ==
  ASSUME AInv, AInv', GInv, [Next]_vars
  PROVE  GInv'
<1>1. CASE Poll
  BY <1>1, GutterCollect, GutterFetch, GutterReload, GutterReceive, GutterSend DEF Poll
<1>2. CASE User
  <2>1. CASE AskFromView
    BY <2>1, GutterAsks DEF AskFromView
  <2>2. CASE AcceptPrompt
    BY <2>2, GutterAsks DEF AcceptPrompt
  <2> QED
    BY <1>2, <2>1, <2>2, GutterSimple DEF User
<1>3. CASE OthersChange
  BY <1>3, GutterSimple
<1>4. CASE WorkerStops
  BY <1>4, GutterWorkerStops
<1>5. CASE \E f \in Files : ServerEdit(f)
  BY <1>5, GutterSimple
<1>6. CASE \E slot \in Slots : Run(slot)
  BY <1>6, GutterRun
<1>7. CASE UNCHANGED vars
  BY <1>7, GutterFrame DEF vars, repository, view, worker, history, gutter, Moved, Stays
<1> QED
  BY <1>1, <1>2, <1>3, <1>4, <1>5, <1>6, <1>7 DEF Next

LEMMA GInvMatches ==
  ASSUME AInv, GInv
  PROVE  GutterMatchesStatus
BY DEF GInv, OfThePast, TextsClean, GutterMatchesStatus

\* Once the status on the screen describes the commit that is checked out, so
\* does every text the gutter compares with, but one that was read before a
\* status naming the same commit of another turn of HEAD (Session::fill_scm,
\* Session::fill_committed).
THEOREM GutterIsOfTheStatus == Spec => []GutterMatchesStatus
<1>1. Init => AInv /\ GInv
  BY Initially DEF IInv
<1>2. AInv /\ GInv /\ [Next]_vars => (AInv /\ GInv)'
  BY AInvStep, GInvStep
<1>3. AInv /\ GInv => GutterMatchesStatus
  BY GInvMatches
<1> QED
  BY <1>1, <1>2, <1>3, PTL DEF Spec
=============================================================================
