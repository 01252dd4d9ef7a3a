-------------------------- MODULE MockWorkerProofs --------------------------
(***************************************************************************)
(* What the mock worker guarantees for any number of jobs and goroutines,  *)
(* whatever clients cancel and replay, whenever the process restarts and   *)
(* whichever calls of the store fail.                                      *)
(***************************************************************************)
EXTENDS MockWorker, TLAPS

\* The stages of a goroutine that is at work.
AtWork == Stages \ {"unused", "over", "killed"}

\* A goroutine that is at work has a job whose id was handed out.  (A job whose
\* goroutines have ended may be gone, with the state that Load did not find.)
RunsHaveJobs == \A r \in RunId : run[r].pc \in AtWork => run[r].job \in 1 .. nextID

\* An id that was not handed out names no job.
FreshIds == \A j \in JobId : j > nextID => jobs[j].status = "absent"

\* The inductive invariant: what the memory satisfies; what is on disk, a state
\* that the memory has had; and what the goroutines satisfy.  FreshIds keeps a
\* submission from replacing a job.
StoreInv == Memory \in State /\ SucceededHasResult /\ FreshIds
DiskInv ==
    /\ disk \in State
    /\ \A j \in JobId : /\ disk.jobs[j].status = "succeeded" => disk.jobs[j].result
                        /\ j > disk.nextID => disk.jobs[j].status = "absent"
    /\ store \in [faults : Nat, failed : BOOLEAN]
    /\ Durable
RunInv ==
    /\ run \in [RunId -> [job : {None} \cup JobId, pc : Stages]]
    /\ RunsHaveJobs
IInv == StoreInv /\ DiskInv /\ RunInv /\ hooks \subseteq JobId /\ now \in Nat

-----------------------------------------------------------------------------
\* The types of the parts of the memory.
LEMMA Types ==
    ASSUME StoreInv
    PROVE  /\ nextID \in 0 .. MaxJobs /\ jobs \in [JobId -> Job]
           /\ idem \in [Keys -> {None} \cup JobId]
           /\ \A j \in 1 .. nextID : j \in JobId
  BY MockWorkerAssumption DEF StoreInv, Memory, State, JobId

\* A new server without saved state satisfies the invariant.
LEMMA InitIInv ==
    ASSUME Init
    PROVE  IInv
  <1>1. jobs \in [JobId -> Job] /\ idem \in [Keys -> {None} \cup JobId]
    BY DEF Init, Job, Absent, Live, Terminal
  <1>2. Memory \in State
    BY <1>1, MockWorkerAssumption DEF Init, Memory, State
  <1>3. StoreInv
    BY <1>2 DEF Init, StoreInv, SucceededHasResult, FreshIds, Absent
  <1>4. DiskInv
    BY <1>2 DEF Init, DiskInv, Durable, Memory, Absent
  <1>. QED
    BY <1>3, <1>4 DEF Init, IInv, RunInv, RunsHaveJobs, AtWork, Stages

\* A job other than the absent one was handed out.
LEMMA JobIsHandedOut ==
    ASSUME StoreInv, NEW j \in JobId, jobs[j].status # "absent"
    PROVE  j \in 1 .. nextID
  BY Types, MockWorkerAssumption DEF StoreInv, FreshIds, JobId

\* A critical section that replaces one job that was handed out keeps the
\* memory in order.
LEMMA ReplaceJob ==
    ASSUME StoreInv, NEW j \in 1 .. nextID, NEW x \in Job,
           x.status = "succeeded" => x.result,
           jobs' = [jobs EXCEPT ![j] = x], UNCHANGED <<idem, nextID>>
    PROVE  StoreInv'
  <1>1. jobs' \in [JobId -> Job]
    BY Types
  <1>2. Memory' \in State
    BY <1>1, Types DEF Memory, State
  <1>3. SucceededHasResult'
    BY Types DEF StoreInv, SucceededHasResult
  <1>4. FreshIds'
    BY Types DEF StoreInv, FreshIds, JobId
  <1>. QED
    BY <1>2, <1>3, <1>4 DEF StoreInv

\* SetStatus is such a critical section.
LEMMA SetStatusStore ==
    ASSUME StoreInv, NEW j \in 1 .. nextID, NEW s \in (Live \cup Terminal) \ {"succeeded"},
           SetStatus(j, s), UNCHANGED <<idem, nextID>>
    PROVE  StoreInv'
  <1>. DEFINE x == [jobs[j] EXCEPT !.status = s]
  <1>1. x \in Job /\ x.status = s
    BY Types DEF Job
  <1>2. jobs' = [jobs EXCEPT ![j] = x]
    BY DEF SetStatus
  <1>3. s # "succeeded"
    OBVIOUS
  <1>. QED
    BY <1>1, <1>2, <1>3, ReplaceJob

\* The memory is in order while it does not change.
LEMMA SameStore ==
    ASSUME StoreInv, UNCHANGED <<jobs, idem, nextID>>
    PROVE  StoreInv'
  BY DEF StoreInv, Memory, State, SucceededHasResult, FreshIds

\* Saving puts a memory that is in order on disk, or fails and leaves what was
\* there.
LEMMA SaveDisk ==
    ASSUME DiskInv, StoreInv', persistLocked
    PROVE  DiskInv'
  <1>1. CASE disk' = [nextID |-> nextID', jobs |-> jobs', idem |-> idem'] /\ Succeeds
    <2>1. disk' = Memory' /\ disk'.jobs = jobs' /\ disk'.nextID = nextID'
      BY <1>1 DEF Memory
    <2>2. store' \in [faults : Nat, failed : BOOLEAN]
      BY <1>1 DEF Succeeds, DiskInv
    <2>. QED
      BY <2>1, <2>2 DEF DiskInv, StoreInv, Durable, SucceededHasResult, FreshIds
  <1>2. CASE Fails /\ UNCHANGED disk
    <2>1. store' \in [faults : Nat, failed : BOOLEAN] /\ store'.failed
      BY <1>2 DEF Fails, DiskInv
    <2>. QED
      BY <1>2, <2>1 DEF DiskInv, Durable
  <1>. QED
    BY <1>1, <1>2 DEF persistLocked

\* The disk is in order while neither it nor the memory changes.
LEMMA SameDisk ==
    ASSUME DiskInv, UNCHANGED <<jobs, idem, nextID, disk, store>>
    PROVE  DiskInv'
  BY DEF DiskInv, Durable, Memory

\* A goroutine that goes on keeps its job.
LEMMA GotoRuns ==
    ASSUME RunInv, NEW r \in RunId, run[r].pc \in AtWork, NEW l \in Stages, Goto(r, l),
           nextID' = nextID
    PROVE  RunInv'
  BY DEF RunInv, RunsHaveJobs, Goto

\* A goroutine that is started has its job.
LEMMA StartRuns ==
    ASSUME RunInv, nextID \in Nat, nextID' \in Nat, nextID' >= nextID,
           NEW j \in 1 .. nextID', j \in JobId, StartRun(j)
    PROVE  RunInv'
  <1>1. PICK r \in RunId : run' = [run EXCEPT ![r] = [job |-> j, pc |-> "expire30"]]
    BY DEF StartRun
  <1>2. run' \in [RunId -> [job : {None} \cup JobId, pc : Stages]]
    BY <1>1 DEF RunInv, Stages
  <1>3. RunsHaveJobs'
    BY <1>1 DEF RunInv, RunsHaveJobs
  <1>. QED
    BY <1>2, <1>3 DEF RunInv

-----------------------------------------------------------------------------
\* A submission uses an id that named no job, and saves it.
LEMMA SubmitIInv ==
    ASSUME IInv, NEW k \in Keys \cup {NoKey}, SubmitBriefJob(k)
    PROVE  IInv'
  <1>. DEFINE x == [status |-> "queued", expiresAt |-> now + JobTTL, result |-> FALSE]
  <1>1. StoreInv /\ RunInv /\ now \in Nat
    BY DEF IInv
  <1>2. /\ nextID \in Nat /\ nextID' = nextID + 1 /\ nextID' \in 0 .. MaxJobs
        /\ nextID' \in JobId
    BY <1>1, Types, MockWorkerAssumption DEF SubmitBriefJob, JobId
  <1>3. x \in Job
    BY <1>1, MockWorkerAssumption DEF Job, Live
  <1>4. jobs' = [jobs EXCEPT ![nextID'] = x] /\ jobs' \in [JobId -> Job]
    BY <1>1, <1>2, <1>3, Types DEF SubmitBriefJob
  <1>5. idem' \in [Keys -> {None} \cup JobId]
    BY <1>1, <1>2, Types DEF SubmitBriefJob
  <1>6. Memory' \in State
    BY <1>2, <1>4, <1>5 DEF Memory, State
  <1>7. SucceededHasResult'
    BY <1>1, <1>2, <1>4, Types DEF StoreInv, SucceededHasResult
  <1>8. FreshIds'
    BY <1>1, <1>2, <1>4, Types DEF StoreInv, FreshIds, JobId
  <1>9. StoreInv'
    BY <1>6, <1>7, <1>8 DEF StoreInv
  <1>10. DiskInv'
    BY <1>9, SaveDisk DEF IInv, SubmitBriefJob
  <1>11. RunInv'
    BY <1>1, <1>2, StartRuns DEF SubmitBriefJob
  <1>. QED
    BY <1>9, <1>10, <1>11 DEF IInv, SubmitBriefJob

\* A read that expires the job it asks for keeps the invariant.
LEMMA PollIInv ==
    ASSUME IInv, NEW j \in JobId, Poll(j)
    PROVE  IInv'
  <1>1. j \in 1 .. nextID
    BY JobIsHandedOut DEF IInv, Poll, expireJobIfNeeded, Expire, Live
  <1>2. StoreInv'
    BY <1>1, SetStatusStore DEF IInv, Poll, expireJobIfNeeded, Expire, Terminal
  <1>3. DiskInv'
    BY <1>2, SaveDisk DEF IInv, Poll, expireJobIfNeeded
  <1>. QED
    BY <1>2, <1>3 DEF IInv, Poll, expireJobIfNeeded, RunInv, RunsHaveJobs

\* A cancellation keeps the invariant.
LEMMA CancelIInv ==
    ASSUME IInv, NEW j \in JobId, CancelJob(j)
    PROVE  IInv'
  <1>1. j \in 1 .. nextID
    BY JobIsHandedOut DEF IInv, CancelJob, Live
  <1>2. StoreInv'
    BY <1>1, SetStatusStore DEF IInv, CancelJob, Terminal
  <1>3. DiskInv'
    BY <1>2, SaveDisk DEF IInv, CancelJob
  <1>. QED
    BY <1>2, <1>3 DEF IInv, CancelJob, RunInv, RunsHaveJobs

\* A replay keeps the invariant: its goroutine works on the replayed job.
LEMMA ReplayIInv ==
    ASSUME IInv, NEW j \in JobId, ReplayJob(j)
    PROVE  IInv'
  <1>1. j \in 1 .. nextID
    BY JobIsHandedOut DEF IInv, ReplayJob
  <1>2. StoreInv'
    BY <1>1, SetStatusStore DEF IInv, ReplayJob, Live
  <1>3. RunInv'
    BY <1>1, Types, StartRuns DEF IInv, ReplayJob
  <1>4. DiskInv'
    BY <1>2, SaveDisk DEF IInv, ReplayJob
  <1>. QED
    BY <1>2, <1>3, <1>4 DEF IInv, ReplayJob

\* The first half of shouldSkipJob keeps the invariant.
LEMMA SkipExpireIInv ==
    ASSUME IInv, NEW r \in RunId, NEW from \in AtWork, NEW next \in Stages,
           SkipExpire(r, from, next)
    PROVE  IInv'
  <1>1. run[r].job \in 1 .. nextID
    BY DEF IInv, RunInv, RunsHaveJobs, SkipExpire
  <1>2. StoreInv'
    BY <1>1, SetStatusStore, SameStore DEF IInv, SkipExpire, Expire, Terminal
  <1>3. DiskInv'
    BY <1>2, SaveDisk, SameDisk DEF IInv, SkipExpire
  <1>4. RunInv'
    BY GotoRuns DEF IInv, SkipExpire
  <1>. QED
    BY <1>2, <1>3, <1>4 DEF IInv, SkipExpire

\* So does its second half.
LEMMA SkipIInv ==
    ASSUME IInv, NEW r \in RunId, NEW from \in AtWork, NEW next \in Stages,
           shouldSkipJob(r, from, next)
    PROVE  IInv'
  <1>1. StoreInv' /\ DiskInv'
    BY SameStore, SameDisk DEF IInv, shouldSkipJob
  <1>2. RunInv'
    BY GotoRuns DEF IInv, shouldSkipJob, Stages
  <1>. QED
    BY <1>1, <1>2 DEF IInv, shouldSkipJob

\* A transition keeps the invariant: it reports success only with a result.
LEMMA TransitionIInv ==
    ASSUME IInv, NEW r \in RunId, NEW from \in AtWork, NEW next \in Stages,
           NEW s \in Live \cup Terminal, NEW b \in BOOLEAN, s = "succeeded" => b,
           Transition(r, from, s, b, next)
    PROVE  IInv'
  <1>. DEFINE j == run[r].job
              x == [jobs[j] EXCEPT !.status = s, !.result = @ \/ b]
  <1>1. j \in 1 .. nextID /\ transitionJob(j, s, b)
    BY DEF IInv, RunInv, RunsHaveJobs, Transition
  <1>2. x \in Job /\ x.status = s /\ x.result = (jobs[j].result \/ b)
    <2>1. jobs[j] \in Job
      BY <1>1, Types DEF IInv
    <2>. HIDE DEF j
    <2>. QED
      BY <2>1 DEF Job
  <1>3. StoreInv'
    <2>1. CASE UNCHANGED <<jobs, disk, store>>
      BY <1>1, <2>1, SameStore DEF IInv, transitionJob
    <2>2. CASE SetStatus(j, "expired") /\ persistLocked
      BY <1>1, <2>2, SetStatusStore DEF IInv, transitionJob, Terminal
    <2>3. CASE /\ jobs' = [jobs EXCEPT ![j].status = s, ![j].result = @ \/ b]
               /\ persistLocked
      <3>1. jobs' = [jobs EXCEPT ![j] = x]
        BY <1>1, <2>3, Types DEF IInv
      <3>2. x.status = "succeeded" => x.result
        BY <1>2
      <3>. HIDE DEF x, j
      <3>. QED
        BY <1>1, <1>2, <2>3, <3>1, <3>2, ReplaceJob DEF IInv, transitionJob
    <2>. QED
      BY <1>1, <2>1, <2>2, <2>3 DEF transitionJob
  <1>4. DiskInv'
    BY <1>1, <1>3, SaveDisk, SameDisk DEF IInv, transitionJob
  <1>5. RunInv'
    BY GotoRuns DEF IInv, Transition, transitionJob
  <1>. QED
    BY <1>3, <1>4, <1>5 DEF IInv, Transition

\* The dispatch of the webhook keeps the invariant.
LEMMA NotifyIInv ==
    ASSUME IInv, NEW r \in RunId, Notify(r)
    PROVE  IInv'
  <1>1. StoreInv' /\ DiskInv'
    BY SameStore, SameDisk DEF IInv, Notify
  <1>2. RunInv'
    BY GotoRuns DEF IInv, Notify, AtWork, Stages
  <1>3. run[r].job \in JobId
    BY Types DEF IInv, RunInv, RunsHaveJobs, Notify, AtWork, Stages
  <1>. QED
    BY <1>1, <1>2, <1>3 DEF IInv, Notify

\* A goroutine keeps the invariant in each of its critical sections.
LEMMA RunIInv ==
    ASSUME IInv, NEW r \in RunId, runMockJob(r)
    PROVE  IInv'
  <1>1. ASSUME SkipExpire(r, "expire30", "skip30") \/ SkipExpire(r, "expire70", "skip70")
        PROVE  IInv'
    BY <1>1, SkipExpireIInv DEF AtWork, Stages
  <1>2. ASSUME shouldSkipJob(r, "skip30", "running30") \/ shouldSkipJob(r, "skip70", "running70")
        PROVE  IInv'
    BY <1>2, SkipIInv DEF AtWork, Stages
  <1>3. ASSUME \/ Transition(r, "running30", "running", FALSE, "expire70")
               \/ Transition(r, "running70", "running", FALSE, "succeed")
               \/ Transition(r, "succeed", "succeeded", TRUE, "notify")
        PROVE  IInv'
    <2>1. /\ {"running30", "running70", "succeed"} \subseteq AtWork
          /\ {"expire70", "succeed", "notify"} \subseteq Stages
          /\ {"running", "succeeded"} \subseteq Live \cup Terminal
          /\ {TRUE, FALSE} \subseteq BOOLEAN /\ "running" # "succeeded"
      BY DEF AtWork, Stages, Live, Terminal
    <2>2. CASE Transition(r, "running30", "running", FALSE, "expire70")
      BY <2>1, <2>2, TransitionIInv, Zenon
    <2>3. CASE Transition(r, "running70", "running", FALSE, "succeed")
      BY <2>1, <2>3, TransitionIInv, Zenon
    <2>4. CASE Transition(r, "succeed", "succeeded", TRUE, "notify")
      BY <2>1, <2>4, TransitionIInv, Zenon
    <2>. QED
      BY <1>3, <2>2, <2>3, <2>4
  <1>. QED
    BY <1>1, <1>2, <1>3, NotifyIInv DEF runMockJob

\* A restart reads back a state the server has had, or starts from none; no
\* goroutine is at work then.  If the store has not failed, nothing changes.
LEMMA RestartIInv ==
    ASSUME IInv, Restart
    PROVE  /\ IInv'
           /\ ~store.failed /\ ~store'.failed => UNCHANGED <<jobs, idem, nextID>>
  <1>. DEFINE Kept == /\ StoreInv' /\ DiskInv'
                      /\ ~store.failed /\ ~store'.failed => UNCHANGED <<jobs, idem, nextID>>
  <1>1. store' \in [faults : Nat, failed : BOOLEAN]
    <2>1. store \in [faults : Nat, failed : BOOLEAN] /\ (Succeeds \/ Fails)
      BY DEF Restart, loadState, IInv, DiskInv
    <2>2. CASE Succeeds
      BY <2>1, <2>2 DEF Succeeds
    <2>3. CASE Fails
      BY <2>1, <2>3 DEF Fails
    <2>. QED
      BY <2>1, <2>2, <2>3
  <1>2. ASSUME jobs' = disk.jobs, idem' = disk.idem, nextID' = disk.nextID, UNCHANGED disk
        PROVE  Kept
    <2>1. disk = [nextID |-> disk.nextID, jobs |-> disk.jobs, idem |-> disk.idem]
      BY DEF IInv, DiskInv, State
    <2>2. Memory' = disk
      BY <1>2, <2>1 DEF Memory
    <2>3. StoreInv' /\ DiskInv'
      BY <1>1, <1>2, <2>2 DEF IInv, DiskInv, StoreInv, SucceededHasResult, FreshIds, Durable
    <2>4. ~store.failed => UNCHANGED <<jobs, idem, nextID>>
      BY <1>2 DEF IInv, DiskInv, Durable, Memory
    <2>. QED
      BY <2>3, <2>4
  <1>3. ASSUME jobs' = [j \in JobId |-> Absent], idem' = [k \in Keys |-> None],
               nextID' = 0, Fails, UNCHANGED disk
        PROVE  Kept
    <2>1. store'.failed
      BY <1>3 DEF Fails
    <2>2. jobs' \in [JobId -> Job] /\ idem' \in [Keys -> {None} \cup JobId]
      BY <1>3 DEF Job, Absent, Live, Terminal
    <2>3. Memory' \in State
      BY <1>3, <2>2, MockWorkerAssumption DEF Memory, State
    <2>4. StoreInv'
      BY <1>3, <2>3 DEF StoreInv, SucceededHasResult, FreshIds, Absent
    <2>5. DiskInv'
      BY <1>1, <1>3, <2>1 DEF IInv, DiskInv, Durable
    <2>. QED
      BY <2>1, <2>4, <2>5
  <1>4. Kept
    BY <1>2, <1>3 DEF Restart, loadState
  <1>5. RunInv'
    BY DEF IInv, RunInv, RunsHaveJobs, Restart, AtWork, Stages
  <1>. QED
    BY <1>4, <1>5 DEF IInv, Restart

\* Every step keeps the invariant.
LEMMA StepIInv ==
    ASSUME IInv, [Next]_vars
    PROVE  IInv'
  <1>1. CASE Tick
    BY <1>1, SameStore, SameDisk DEF Tick, IInv, RunInv, RunsHaveJobs
  <1>2. CASE UNCHANGED vars
    BY <1>2, SameStore, SameDisk DEF vars, IInv, RunInv, RunsHaveJobs
  <1>. QED
    BY <1>1, <1>2, SubmitIInv, PollIInv, CancelIInv, ReplayIInv, RunIInv, RestartIInv DEF Next

-----------------------------------------------------------------------------
\* The invariant holds in every state.
LEMMA MockWorkerInvariant == Spec => []IInv
  BY InitIInv, StepIInv, PTL DEF Spec

\* Unless the last call of the store has failed, what is on disk is what the
\* clients were told, so that a restart forgets no job, no result, no id and
\* no idempotency record.
THEOREM MockWorkerDurable == Spec => [](TypeOK /\ Durable)
  <1>1. IInv => TypeOK /\ Durable
    BY DEF IInv, StoreInv, DiskInv, RunInv, TypeOK
  <1>. QED
    BY <1>1, MockWorkerInvariant, PTL

\* A job that is reported as succeeded has its result, however many goroutines
\* a replay left working on it and whatever calls of the store have failed.
THEOREM MockWorkerResults == Spec => []SucceededHasResult
  <1>1. IInv => SucceededHasResult
    BY DEF IInv, StoreInv
  <1>. QED
    BY <1>1, MockWorkerInvariant, PTL

\* What OnlyReplayRevives says of one step.
Revives ==
    \A j \in JobId :
         jobs[j].status \in {"canceled", "expired"} /\ jobs'[j].status # jobs[j].status =>
            \/ /\ jobs'[j].status = "queued"
               /\ \E r \in RunId : run[r].pc = "unused" /\ run'[r].job = j
            \/ Restart /\ (store.failed \/ store'.failed)

\* A goroutine leaves the status of a canceled or expired job alone.
LEMMA RunRevivesNothing ==
    ASSUME IInv, NEW r \in RunId, runMockJob(r), NEW j \in JobId,
           jobs[j].status \in {"canceled", "expired"}
    PROVE  jobs'[j].status = jobs[j].status
  <1>. USE DEF SetStatus
  <1>1. jobs \in [JobId -> Job]
    BY Types DEF IInv
  <1>2. ASSUME NEW from, NEW next, SkipExpire(r, from, next)
        PROVE  jobs'[j].status = jobs[j].status
    BY <1>1, <1>2 DEF SkipExpire, Expire, Live, Job
  <1>3. ASSUME NEW from, NEW next, NEW s, NEW b, Transition(r, from, s, b, next)
        PROVE  jobs'[j].status = jobs[j].status
    BY <1>1, <1>3 DEF Transition, transitionJob, Job
  <1>. QED
    BY <1>2, <1>3 DEF runMockJob, shouldSkipJob, Notify

\* A replay revives its job and starts a goroutine for it.
LEMMA ReplayRevives ==
    ASSUME IInv, NEW i \in JobId, ReplayJob(i)
    PROVE  Revives
  <1>1. jobs \in [JobId -> Job] /\ run \in [RunId -> [job : {None} \cup JobId, pc : Stages]]
    BY Types DEF IInv, RunInv
  <1>2. jobs' = [jobs EXCEPT ![i].status = "queued"]
    BY DEF ReplayJob, SetStatus
  <1>3. \E r \in RunId : run[r].pc = "unused" /\ run'[r].job = i
    BY <1>1 DEF ReplayJob, StartRun
  <1>4. ASSUME NEW j \in JobId, jobs'[j].status # jobs[j].status
        PROVE  j = i /\ jobs'[j].status = "queued"
    BY <1>1, <1>2, <1>4 DEF Job
  <1>. QED
    BY <1>3, <1>4 DEF Revives

\* No step but a replay revives a job.
LEMMA StepRevives ==
    ASSUME IInv, [Next]_vars
    PROVE  Revives
  <1>1. jobs \in [JobId -> Job] /\ nextID \in 0 .. MaxJobs
    BY Types DEF IInv
  <1>2. ASSUME NEW k \in Keys \cup {NoKey}, SubmitBriefJob(k)
        PROVE  Revives
    <2>1. \A j \in JobId : jobs[j].status \in {"canceled", "expired"} => j # nextID + 1
      BY <1>1 DEF IInv, StoreInv, FreshIds
    <2>. QED
      BY <1>1, <1>2, <2>1 DEF SubmitBriefJob, Revives
  <1>3. ASSUME NEW i \in JobId, Poll(i) \/ CancelJob(i)
        PROVE  Revives
    BY <1>1, <1>3 DEF Poll, expireJobIfNeeded, Expire, CancelJob, SetStatus, Live, Job, Revives
  <1>4. ASSUME NEW r \in RunId, runMockJob(r)
        PROVE  Revives
    BY <1>4, RunRevivesNothing DEF Revives
  <1>5. CASE Restart
    BY <1>5, RestartIInv DEF Revives
  <1>6. CASE Tick \/ UNCHANGED vars
    BY <1>6 DEF Tick, vars, Revives
  <1>. QED
    BY <1>2, <1>3, <1>4, <1>5, <1>6, ReplayRevives DEF Next

\* A canceled or expired job comes back only by a replay, which starts a
\* goroutine for it: no goroutine that is still under way and no submission
\* revives it, and no restart unless the store has failed.
THEOREM MockWorkerRevives == Spec => OnlyReplayRevives
  <1>1. IInv /\ [Next]_vars => [Revives]_vars
    BY StepRevives
  <1>. QED
    BY <1>1, MockWorkerInvariant, PTL DEF Spec, OnlyReplayRevives, Revives
=============================================================================
