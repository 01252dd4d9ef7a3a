------------------------- MODULE OrchestratorProofs -------------------------
(***************************************************************************)
(* Proofs about Orchestrator, for every value of its constants.            *)
(***************************************************************************)
EXTENDS Orchestrator, TLAPS

\* The inductive invariant: types, the agreement of the maps in memory and on
\* disk, and what the worker holds between two critical sections.
IInv == TypeOK /\ StateConsistent /\ WorkerHoldsJob

\* Memory \in State, spelt out.
MemTyped ==
    /\ nextID \in 0 .. MaxJobs
    /\ jobs \in [JobId -> Job]
    /\ idem \in [Keys -> IdemRecord]
    /\ dlq \in [JobId -> DeadLetterEntry]

\* A job and its dead letter are in order.
JobInOrder(job, entry) ==
    /\ job \in Job /\ entry \in DeadLetterEntry
    /\ job.status # "absent"
    /\ job.attempt \in 1 .. MaxAttempts
    /\ job.req \in Requests
    /\ job.status = "failed" => entry # NoEntry
    /\ job.status = "succeeded" => entry = NoEntry /\ ~job.lastError

\* The step rewrites one existing job, or its dead letter, and nothing else of
\* the state under Server.mu.
EditsJob(j) ==
    /\ jobs[j].status # "absent"
    /\ jobs' = [jobs EXCEPT ![j] = jobs'[j]]
    /\ dlq' = [dlq EXCEPT ![j] = dlq'[j]]
    /\ JobInOrder(jobs'[j], dlq'[j])
    /\ jobs'[j].req = jobs[j].req
    /\ UNCHANGED <<idem, nextID>>

\* The type of the state under Server.mu, map by map.
LEMMA MemoryTyped == Memory \in State <=> MemTyped
  BY DEF Memory, State, MemTyped

\* The same after a step.
LEMMA MemoryTypedNext == Memory' \in State <=> MemTyped'
  BY DEF Memory, State, MemTyped

\* emptyState of jobstore/store.go is consistent: a first start, and a start after
\* a Load error, begin with maps that agree.
LEMMA EmptyStateOK == emptyState \in State /\ Consistent(emptyState)
  BY OrchestratorAssumption
  DEF emptyState, State, Job, Absent, IdemRecord, NoRecord, DeadLetterEntry, NoEntry,
      Consistent, IdsAllocated, FailedIsDeadLettered, SucceededIsClean,
      IdempotencySound, JobId, Live, Terminal

\* An existing job is in order.
LEMMA ExistingInOrder ==
    ASSUME IInv, NEW j \in JobId, jobs[j].status # "absent"
    PROVE  JobInOrder(jobs[j], dlq[j]) /\ j \in 1 .. nextID
  <1>1. MemTyped
    BY MemoryTyped DEF IInv, TypeOK
  <1>2. /\ j <= nextID
        /\ jobs[j].attempt \in 1 .. MaxAttempts
        /\ jobs[j].req \in Requests
    BY DEF IInv, StateConsistent, Consistent, IdsAllocated, Memory
  <1>3. /\ jobs[j].status = "failed" => dlq[j] # NoEntry
        /\ jobs[j].status = "succeeded" => dlq[j] = NoEntry /\ ~jobs[j].lastError
    BY DEF IInv, StateConsistent, Consistent, FailedIsDeadLettered, SucceededIsClean,
           Memory
  <1>. QED
    BY <1>1, <1>2, <1>3 DEF MemTyped, JobInOrder, JobId

\* A handler that rewrites one job and leaves it in order keeps the maps in
\* agreement.
LEMMA EditKeepsMemory ==
    ASSUME IInv, NEW j \in JobId, EditsJob(j)
    PROVE  MemTyped' /\ Consistent(Memory)'
  <1>1. MemTyped
    BY MemoryTyped DEF IInv, TypeOK
  <1>2. MemTyped'
    BY <1>1 DEF MemTyped, EditsJob, JobInOrder
  <1>3. \A i \in JobId : i # j => jobs'[i] = jobs[i] /\ dlq'[i] = dlq[i]
    BY <1>1 DEF MemTyped, EditsJob
  <1>4. IdsAllocated(Memory)'
    BY <1>1, <1>3 DEF IInv, StateConsistent, Consistent, IdsAllocated, Memory, EditsJob,
                      JobInOrder
  <1>5. FailedIsDeadLettered(Memory)' /\ SucceededIsClean(Memory)'
    BY <1>1, <1>3 DEF IInv, StateConsistent, Consistent, FailedIsDeadLettered,
                      SucceededIsClean, Memory, EditsJob, JobInOrder
  <1>6. IdempotencySound(Memory)'
    <2>1. \A i \in JobId : jobs'[i].req = jobs[i].req
      BY <1>3 DEF EditsJob
    <2>2. \A k \in Keys : idem[k] # NoRecord => idem[k].job \in JobId
      BY <1>1, OrchestratorAssumption
      DEF IInv, StateConsistent, Consistent, IdempotencySound, Memory, MemTyped, JobId
    <2>. QED
      BY <2>1, <2>2 DEF IInv, StateConsistent, Consistent, IdempotencySound, Memory, EditsJob
  <1>. QED
    BY <1>2, <1>4, <1>5, <1>6 DEF Consistent

\* What a submission adds to the state under Server.mu.
AddsJob(k, r) ==
    /\ nextID < MaxJobs
    /\ k \in Keys => idem[k] = NoRecord
    /\ nextID' = nextID + 1
    /\ jobs' = [jobs EXCEPT ![nextID + 1] = jobs'[nextID + 1]]
    /\ dlq' = [dlq EXCEPT ![nextID + 1] = dlq'[nextID + 1]]
    /\ JobInOrder(jobs'[nextID + 1], dlq'[nextID + 1])
    /\ jobs'[nextID + 1].req = r
    /\ idem' = IF k \in Keys
                 THEN [idem EXCEPT ![k] = [job |-> nextID + 1, req |-> r]]
                 ELSE idem

\* A submission keeps the maps in agreement: its id is new, so is its key.
LEMMA AddKeepsMemory ==
    ASSUME IInv, NEW k, NEW r \in Requests, AddsJob(k, r)
    PROVE  MemTyped' /\ Consistent(Memory)'
  <1>1. MemTyped
    BY MemoryTyped DEF IInv, TypeOK
  <1>2. nextID + 1 \in JobId /\ nextID \in Nat
    BY <1>1, OrchestratorAssumption DEF MemTyped, JobId, AddsJob
  <1>3. MemTyped'
    <2>1. nextID' \in 0 .. MaxJobs
      BY <1>1, OrchestratorAssumption DEF MemTyped, AddsJob
    <2>2. jobs' \in [JobId -> Job] /\ dlq' \in [JobId -> DeadLetterEntry]
      BY <1>1, <1>2 DEF MemTyped, AddsJob, JobInOrder
    <2>3. idem' \in [Keys -> IdemRecord]
      BY <1>1, <1>2 DEF MemTyped, AddsJob, IdemRecord
    <2>. QED
      BY <2>1, <2>2, <2>3 DEF MemTyped
  <1>4. \A i \in JobId : i # nextID + 1 => jobs'[i] = jobs[i] /\ dlq'[i] = dlq[i]
    BY <1>1, <1>2 DEF MemTyped, AddsJob
  <1>5. IdsAllocated(Memory)'
    <2>1. SUFFICES ASSUME NEW i \in JobId
                   PROVE  /\ jobs'[i].status # "absent" <=> i <= nextID'
                          /\ jobs'[i].status # "absent" =>
                                /\ jobs'[i].attempt \in 1 .. MaxAttempts
                                /\ jobs'[i].req \in Requests
      BY DEF IdsAllocated, Memory
    <2>2. CASE i = nextID + 1
      BY <1>2, <2>2 DEF AddsJob, JobInOrder
    <2>3. CASE i # nextID + 1
      BY <1>2, <1>4, <2>3 DEF IInv, StateConsistent, Consistent, IdsAllocated, Memory,
                              AddsJob, JobId
    <2>. QED
      BY <2>2, <2>3
  <1>6. FailedIsDeadLettered(Memory)' /\ SucceededIsClean(Memory)'
    BY <1>4 DEF IInv, StateConsistent, Consistent, FailedIsDeadLettered,
                SucceededIsClean, Memory, AddsJob, JobInOrder
  <1>7. IdempotencySound(Memory)'
    <2>1. \A l \in Keys : idem[l] # NoRecord =>
            /\ idem[l].job \in 1 .. nextID /\ idem[l].job \in JobId
            /\ jobs'[idem[l].job].req = idem[l].req
      <3>1. SUFFICES ASSUME NEW l \in Keys, idem[l] # NoRecord
                     PROVE  /\ idem[l].job \in 1 .. nextID /\ idem[l].job \in JobId
                            /\ jobs'[idem[l].job].req = idem[l].req
        OBVIOUS
      <3>2. idem[l].job \in 1 .. nextID /\ jobs[idem[l].job].req = idem[l].req
        BY <3>1 DEF IInv, StateConsistent, Consistent, IdempotencySound, Memory
      <3>3. idem[l].job \in JobId /\ idem[l].job # nextID + 1
        BY <1>1, <1>2, <3>2, OrchestratorAssumption DEF MemTyped, JobId
      <3>. QED
        BY <1>4, <3>2, <3>3
    <2>2. \A l \in Keys : idem[l].job \in 0 .. nextID
      BY <1>2, <2>1 DEF NoRecord
    <2>3. \A l, m \in Keys : idem[l] # NoRecord /\ idem[m].job = idem[l].job => m = l
      BY DEF IInv, StateConsistent, Consistent, IdempotencySound, Memory
    <2>4. CASE k \in Keys
      <3>1. /\ idem'[k] = [job |-> nextID + 1, req |-> r]
            /\ \A l \in Keys : l # k => idem'[l] = idem[l]
        BY <1>1, <2>4 DEF AddsJob, MemTyped
      <3>2. SUFFICES ASSUME NEW l \in Keys, idem'[l] # NoRecord
                     PROVE  /\ idem'[l].job \in 1 .. nextID'
                            /\ jobs'[idem'[l].job].req = idem'[l].req
                            /\ \A m \in Keys : idem'[m].job = idem'[l].job => m = l
        BY DEF IdempotencySound, Memory
      <3>3. CASE l = k
        BY <1>2, <2>2, <3>1, <3>3 DEF AddsJob
      <3>4. CASE l # k
        BY <1>2, <2>1, <2>2, <2>3, <3>1, <3>2, <3>4 DEF AddsJob
      <3>. QED
        BY <3>3, <3>4
    <2>5. CASE k \notin Keys
      BY <1>2, <2>1, <2>3, <2>5 DEF AddsJob, IdempotencySound, Memory
    <2>. QED
      BY <2>4, <2>5
  <1>. QED
    BY <1>3, <1>5, <1>6, <1>7 DEF Consistent

\* What loadState makes of a consistent snapshot.
LEMMA ReloadKeepsMemory ==
    ASSUME NEW st \in State, Consistent(st),
           nextID' = st.nextID, idem' = st.idem, dlq' = st.dlq,
           jobs' = [j \in JobId |-> Requeued(st.jobs[j])]
    PROVE  MemTyped' /\ Consistent(Memory)'
  <1>1. \A j \in JobId :
          /\ jobs'[j] \in Job
          /\ jobs'[j].status # "absent" <=> st.jobs[j].status # "absent"
          /\ jobs'[j].status \in {"failed", "succeeded"} => jobs'[j] = st.jobs[j]
          /\ jobs'[j].attempt = st.jobs[j].attempt
          /\ jobs'[j].req = st.jobs[j].req
    <2>1. SUFFICES ASSUME NEW j \in JobId, NEW job, job = st.jobs[j]
                   PROVE  /\ Requeued(job) \in Job
                          /\ Requeued(job).status # "absent" <=> job.status # "absent"
                          /\ Requeued(job).status \in {"failed", "succeeded"}
                                => Requeued(job) = job
                          /\ Requeued(job).attempt = job.attempt
                          /\ Requeued(job).req = job.req
      OBVIOUS
    <2>2. job \in Job
      BY <2>1 DEF State
    <2>3. CASE job.status # "running"
      BY <2>2, <2>3 DEF Requeued
    <2>4. CASE job.status = "running"
      <3>1. Requeued(job) = [job EXCEPT !.status = "queued"]
        BY <2>4 DEF Requeued
      <3>. QED
        BY <2>2, <2>4, <3>1 DEF Job, Live
    <2>. QED
      BY <2>3, <2>4
  <1>2. MemTyped'
    BY <1>1 DEF MemTyped, State
  <1>3. IdsAllocated(Memory)'
    BY <1>1 DEF Consistent, IdsAllocated, Memory
  <1>4. FailedIsDeadLettered(Memory)' /\ SucceededIsClean(Memory)'
    BY <1>1 DEF Consistent, FailedIsDeadLettered, SucceededIsClean, Memory
  <1>5. IdempotencySound(Memory)'
    <2>1. \A k \in Keys : st.idem[k] # NoRecord => st.idem[k].job \in JobId
      BY OrchestratorAssumption DEF Consistent, IdempotencySound, State, JobId
    <2>. QED
      BY <1>1, <2>1 DEF Consistent, IdempotencySound, Memory
  <1>. QED
    BY <1>2, <1>3, <1>4, <1>5 DEF Consistent

-----------------------------------------------------------------------------
(***************************************************************************)
(* What each action does to the state under Server.mu.                     *)
(***************************************************************************)

\* Rewriting the mutable fields of a job.
Rewritten(job, s, a, res, e) ==
    [job EXCEPT !.status = s, !.attempt = a, !.result = res, !.lastError = e]

\* Rewriting the mutable fields of a job leaves its request alone.
LEMMA RewriteJob ==
    ASSUME NEW job \in Job, NEW s \in Live \cup Terminal, NEW a \in Nat,
           NEW res \in Requests \cup {NoRequest}, NEW e \in BOOLEAN
    PROVE  LET new == Rewritten(job, s, a, res, e) IN
           /\ new \in Job
           /\ new.status = s /\ new.attempt = a /\ new.lastError = e
           /\ new.req = job.req
  BY DEF Job, Rewritten

\* A step that rewrites one job in this way and keeps the rest in order.
LEMMA RewriteEdits ==
    ASSUME IInv, NEW j \in JobId, jobs[j].status # "absent",
           NEW s \in Live \cup Terminal, NEW a \in 1 .. MaxAttempts,
           NEW res \in Requests \cup {NoRequest}, NEW e \in BOOLEAN,
           NEW entry \in DeadLetterEntry,
           jobs' = [jobs EXCEPT ![j] = Rewritten(jobs[j], s, a, res, e)],
           dlq' = [dlq EXCEPT ![j] = entry],
           UNCHANGED <<idem, nextID>>,
           s = "failed" => entry # NoEntry,
           s = "succeeded" => entry = NoEntry /\ ~e
    PROVE  EditsJob(j)
  <1>1. MemTyped /\ JobInOrder(jobs[j], dlq[j])
    BY MemoryTyped, ExistingInOrder DEF IInv, TypeOK
  <1>2. a \in Nat
    BY OrchestratorAssumption
  <1>3. jobs[j] \in Job
    BY <1>1 DEF MemTyped
  <1>4. jobs'[j] = Rewritten(jobs[j], s, a, res, e) /\ dlq'[j] = entry
    BY <1>1 DEF MemTyped
  <1>5. /\ jobs'[j] \in Job
        /\ jobs'[j].status = s /\ jobs'[j].attempt = a /\ jobs'[j].lastError = e
        /\ jobs'[j].req = jobs[j].req
    BY <1>2, <1>3, <1>4, RewriteJob
  <1>6. JobInOrder(jobs'[j], dlq'[j])
    BY <1>1, <1>4, <1>5 DEF JobInOrder, Live, Terminal
  <1>. QED
    BY <1>4, <1>5, <1>6 DEF EditsJob

\* expireJobIfNeeded rewrites one job and leaves it in order.
LEMMA ExpireEdits ==
    ASSUME IInv, NEW j \in JobId, expireJobIfNeeded(j)
    PROVE  EditsJob(j)
  <1>1. JobInOrder(jobs[j], dlq[j]) /\ MemTyped
    BY ExistingInOrder, MemoryTyped DEF expireJobIfNeeded, Live, IInv, TypeOK
  <1>. QED
    BY <1>1 DEF expireJobIfNeeded, SetStatus, EditsJob, JobInOrder, MemTyped, Job, Live,
                Terminal

\* So does CancelJob.
LEMMA CancelEdits ==
    ASSUME IInv, NEW j \in JobId, CancelJob(j)
    PROVE  EditsJob(j)
  <1>1. JobInOrder(jobs[j], dlq[j]) /\ MemTyped
    BY ExistingInOrder, MemoryTyped DEF CancelJob, Live, IInv, TypeOK
  <1>. QED
    BY <1>1 DEF CancelJob, SetStatus, EditsJob, JobInOrder, MemTyped, Job, Live, Terminal

\* So does ReplayJob, which deletes the dead letter.
LEMMA ReplayEdits ==
    ASSUME IInv, NEW j \in JobId, ReplayJob(j)
    PROVE  EditsJob(j)
  <1>1. MemTyped
    BY MemoryTyped DEF IInv, TypeOK
  <1>2. jobs' = [jobs EXCEPT ![j] = Rewritten(jobs[j], "queued", 1, jobs[j].result, FALSE)]
    BY <1>1 DEF ReplayJob, MemTyped, Job, Rewritten
  <1>3. /\ jobs[j].result \in Requests \cup {NoRequest}
        /\ "queued" \in Live \cup Terminal
        /\ 1 \in 1 .. MaxAttempts
        /\ NoEntry \in DeadLetterEntry
    BY <1>1, OrchestratorAssumption DEF MemTyped, Job, Live, DeadLetterEntry, NoEntry
  <1>4. /\ jobs[j].status # "absent"
        /\ dlq' = [dlq EXCEPT ![j] = NoEntry] /\ UNCHANGED <<idem, nextID>>
    BY DEF ReplayJob
  <1>. QED
    BY <1>2, <1>3, <1>4, RewriteEdits

\* SubmitBriefJob adds one job in order, under the next id.
LEMMA SubmitAdds ==
    ASSUME IInv, NEW k, NEW r \in Requests, SubmitBriefJob(k, r)
    PROVE  AddsJob(k, r)
  <1>1. MemTyped /\ now \in Nat
    BY MemoryTyped DEF IInv, TypeOK
  <1>2. nextID + 1 \in JobId
    BY <1>1, OrchestratorAssumption DEF MemTyped, JobId, SubmitBriefJob
  <1>. QED
    BY <1>1, <1>2, OrchestratorAssumption
    DEF SubmitBriefJob, AddsJob, JobInOrder, MemTyped, Job, Live, Terminal,
        DeadLetterEntry, NoEntry

\* The first critical section of processBriefJob rewrites the dequeued job or
\* nothing.
LEMMA StartEdits ==
    ASSUME IInv, NEW j \in JobId, StartJob(j)
    PROVE  UNCHANGED state \/ EditsJob(j)
  <1>1. MemTyped
    BY MemoryTyped DEF IInv, TypeOK
  <1>2. CASE jobs[j].status \in {"absent", "canceled"}
    BY <1>2 DEF StartJob, state
  <1>3. CASE jobs[j].status \notin {"absent", "canceled"}
    <2>1. JobInOrder(jobs[j], dlq[j])
      BY <1>3, ExistingInOrder
    <2>. QED
      BY <1>1, <1>3, <2>1 DEF StartJob, SetStatus, EditsJob, JobInOrder, MemTyped, Job,
                              Live, Terminal
  <1>. QED
    BY <1>2, <1>3

\* While ExecuteBrief is under way the worker's job is in the map.
LEMMA HeldInOrder ==
    ASSUME IInv, worker.pc \in {"executing", "accepted"}
    PROVE  /\ worker.job \in JobId /\ worker.job \in 1 .. nextID
           /\ worker.req \in Requests
           /\ jobs[worker.job].status # "absent"
           /\ JobInOrder(jobs[worker.job], dlq[worker.job])
  <1>1. MemTyped
    BY MemoryTyped DEF IInv, TypeOK
  <1>2. worker.job \in 1 .. nextID /\ worker.req = jobs[worker.job].req
    BY DEF IInv, WorkerHoldsJob
  <1>3. worker.job \in JobId
    BY <1>1, <1>2, OrchestratorAssumption DEF MemTyped, JobId
  <1>4. jobs[worker.job].status # "absent"
    BY <1>1, <1>2, <1>3 DEF IInv, StateConsistent, Consistent, IdsAllocated, Memory, MemTyped
  <1>5. JobInOrder(jobs[worker.job], dlq[worker.job])
    BY <1>3, <1>4, ExistingInOrder
  <1>. QED
    BY <1>2, <1>3, <1>4, <1>5 DEF JobInOrder

\* The handling of ErrAsyncAccepted rewrites the worker's job or nothing.
LEMMA AcceptedEdits ==
    ASSUME IInv, FinishAccepted
    PROVE  UNCHANGED state \/ EditsJob(worker.job)
  <1>1. MemTyped
    BY MemoryTyped DEF IInv, TypeOK
  <1>2. /\ worker.job \in JobId /\ jobs[worker.job].status # "absent"
        /\ JobInOrder(jobs[worker.job], dlq[worker.job])
    BY HeldInOrder DEF FinishAccepted
  <1>. QED
    BY <1>1, <1>2 DEF FinishAccepted, SetStatus, EditsJob, JobInOrder, MemTyped, Job,
                      Live, Terminal, state

\* The success path of processBriefJob rewrites the worker's job or nothing.
LEMMA ResultEdits ==
    ASSUME IInv, FinishResult
    PROVE  EditsJob(worker.job)
  <1>. DEFINE j == worker.job
  <1>1. MemTyped
    BY MemoryTyped DEF IInv, TypeOK
  <1>2. /\ j \in JobId /\ jobs[j].status # "absent"
        /\ worker.req \in Requests
        /\ JobInOrder(jobs[j], dlq[j])
    BY HeldInOrder DEF FinishResult
  <1>3. CASE jobs[j].status = "canceled" \/ isExpired(j)
    BY <1>1, <1>2, <1>3 DEF FinishResult, SetStatus, EditsJob, JobInOrder, MemTyped, Job,
                            Live, Terminal
  <1>4. CASE ~(jobs[j].status = "canceled" \/ isExpired(j))
    <2>1. jobs' = [jobs EXCEPT ![j] = Rewritten(jobs[j], "succeeded", jobs[j].attempt,
                                                worker.req, FALSE)]
      <3>1. jobs' = [jobs EXCEPT ![j].status = "succeeded", ![j].result = worker.req,
                                 ![j].lastError = FALSE]
        BY <1>4 DEF FinishResult
      <3>2. jobs[j] \in Job
        BY <1>1, <1>2 DEF MemTyped
      <3>3. [jobs[j] EXCEPT !.status = "succeeded", !.result = worker.req,
                            !.lastError = FALSE]
              = Rewritten(jobs[j], "succeeded", jobs[j].attempt, worker.req, FALSE)
        BY <3>2 DEF Job, Rewritten
      <3>. QED
        BY <1>1, <1>2, <3>1, <3>3 DEF MemTyped
    <2>2. dlq' = [dlq EXCEPT ![j] = NoEntry] /\ UNCHANGED <<idem, nextID>>
      BY <1>4 DEF FinishResult
    <2>3. /\ "succeeded" \in Live \cup Terminal
          /\ jobs[j].attempt \in 1 .. MaxAttempts
          /\ NoEntry \in DeadLetterEntry
      BY <1>2 DEF JobInOrder, Terminal, DeadLetterEntry, NoEntry
    <2>. QED
      BY <1>2, <2>1, <2>2, <2>3, RewriteEdits
  <1>. QED
    BY <1>3, <1>4

\* The error path of processBriefJob rewrites the worker's job, and writes the
\* dead letter of one that failed.
LEMMA ErrorEdits ==
    ASSUME IInv, FinishError
    PROVE  EditsJob(worker.job)
  <1>. DEFINE j == worker.job
  <1>1. MemTyped
    BY MemoryTyped DEF IInv, TypeOK
  <1>2. /\ j \in JobId /\ jobs[j].status # "absent"
        /\ JobInOrder(jobs[j], dlq[j])
    BY HeldInOrder DEF FinishError
  <1>3. /\ jobs[j].attempt \in 1 .. MaxAttempts
        /\ jobs[j].result \in Requests \cup {NoRequest}
        /\ dlq[j] \in DeadLetterEntry /\ dlq = [dlq EXCEPT ![j] = dlq[j]]
        /\ {"canceled", "expired", "queued", "failed"} \subseteq Live \cup Terminal
    BY <1>1, <1>2 DEF JobInOrder, MemTyped, Job, Live, Terminal
  <1>4. UNCHANGED <<idem, nextID>>
    BY DEF FinishError
  <1>5. CASE jobs[j].status = "canceled"
    <2>1. jobs' = [jobs EXCEPT ![j] = Rewritten(jobs[j], "canceled", jobs[j].attempt,
                                                jobs[j].result, TRUE)]
      <3>1. jobs' = [jobs EXCEPT ![j].lastError = TRUE]
        BY <1>5 DEF FinishError
      <3>. QED
        BY <1>1, <1>2, <1>5, <3>1 DEF MemTyped, Job, Rewritten
    <2>2. dlq' = [dlq EXCEPT ![j] = dlq[j]]
      BY <1>3, <1>5 DEF FinishError
    <2>. QED
      BY <1>2, <1>3, <1>4, <2>1, <2>2, RewriteEdits
  <1>6. CASE jobs[j].status # "canceled" /\ isExpired(j)
    <2>1. jobs' = [jobs EXCEPT ![j] = Rewritten(jobs[j], "expired", jobs[j].attempt,
                                                jobs[j].result, TRUE)]
      <3>1. jobs' = [jobs EXCEPT ![j].status = "expired", ![j].lastError = TRUE]
        BY <1>6 DEF FinishError
      <3>. QED
        BY <1>1, <1>2, <1>6, <3>1 DEF MemTyped, Job, Rewritten
    <2>2. dlq' = [dlq EXCEPT ![j] = dlq[j]]
      BY <1>3, <1>6 DEF FinishError
    <2>. QED
      BY <1>2, <1>3, <1>4, <2>1, <2>2, RewriteEdits
  <1>7. CASE jobs[j].status # "canceled" /\ ~isExpired(j) /\ jobs[j].attempt < MaxAttempts
    <2>1. jobs' = [jobs EXCEPT ![j] = Rewritten(jobs[j], "queued", jobs[j].attempt + 1,
                                                jobs[j].result, TRUE)]
      <3>1. jobs' = [jobs EXCEPT ![j].status = "queued", ![j].lastError = TRUE,
                                   ![j].attempt = @ + 1]
        BY <1>7, <1>3, OrchestratorAssumption DEF FinishError
      <3>. QED
        BY <1>1, <1>2, <1>7, <3>1 DEF MemTyped, Job, Rewritten
    <2>2. dlq' = [dlq EXCEPT ![j] = dlq[j]]
      BY <1>3, <1>7, OrchestratorAssumption DEF FinishError
    <2>3. jobs[j].attempt + 1 \in 1 .. MaxAttempts
      BY <1>3, <1>7, OrchestratorAssumption
    <2>. QED
      BY <1>2, <1>3, <1>4, <2>1, <2>2, <2>3, RewriteEdits
  <1>8. CASE jobs[j].status # "canceled" /\ ~isExpired(j) /\ jobs[j].attempt >= MaxAttempts
    <2>. DEFINE entry == [reason |-> "max_attempts_exhausted", attempts |-> jobs[j].attempt]
    <2>1. jobs' = [jobs EXCEPT ![j] = Rewritten(jobs[j], "failed", jobs[j].attempt,
                                                jobs[j].result, TRUE)]
      <3>1. jobs' = [jobs EXCEPT ![j].status = "failed", ![j].lastError = TRUE]
        BY <1>8, <1>3, OrchestratorAssumption DEF FinishError
      <3>. QED
        BY <1>1, <1>2, <1>8, <3>1 DEF MemTyped, Job, Rewritten
    <2>2. dlq' = [dlq EXCEPT ![j] = entry]
      BY <1>3, <1>8, OrchestratorAssumption DEF FinishError
    <2>3. entry \in DeadLetterEntry /\ entry # NoEntry
      BY <1>3, OrchestratorAssumption DEF DeadLetterEntry, NoEntry
    <2>. HIDE DEF entry
    <2>. QED
      BY <1>2, <1>3, <1>4, <2>1, <2>2, <2>3, RewriteEdits
  <1>. QED
    BY <1>3, <1>5, <1>6, <1>7, <1>8, OrchestratorAssumption

\* ExpertEventsHandler rewrites the job of the event or nothing.
LEMMA EventEdits ==
    ASSUME IInv, NEW j \in JobId, NEW r \in Requests, NEW s, ExpertEvent(j, r, s)
    PROVE  UNCHANGED state \/ EditsJob(j)
  <1>1. MemTyped
    BY MemoryTyped DEF IInv, TypeOK
  <1>2. CASE jobs[j].status \notin Live
    BY <1>2 DEF ExpertEvent, state
  <1>3. CASE jobs[j].status \in Live
    <2>1. JobInOrder(jobs[j], dlq[j]) /\ jobs[j].status # "absent"
      BY <1>3, ExistingInOrder DEF Live
    <2>2. /\ jobs[j].attempt \in 1 .. MaxAttempts
          /\ jobs[j].result \in Requests \cup {NoRequest}
          /\ "succeeded" \in Live \cup Terminal /\ "failed" \in Live \cup Terminal
          /\ NoEntry \in DeadLetterEntry
      BY <1>1, <2>1 DEF JobInOrder, MemTyped, Job, Terminal, DeadLetterEntry, NoEntry
    <2>3. UNCHANGED <<idem, nextID>>
      BY <1>3 DEF ExpertEvent
    <2>4. CASE s = "succeeded"
      <3>1. PICK res \in Requests \cup {NoRequest} :
              jobs' = [jobs EXCEPT ![j].status = "succeeded", ![j].result = res,
                                   ![j].lastError = FALSE]
        BY <1>3, <2>4 DEF ExpertEvent
      <3>2. jobs' = [jobs EXCEPT ![j] = Rewritten(jobs[j], "succeeded", jobs[j].attempt,
                                                  res, FALSE)]
        BY <1>1, <3>1 DEF MemTyped, Job, Rewritten
      <3>3. dlq' = [dlq EXCEPT ![j] = NoEntry]
        BY <1>3, <2>4 DEF ExpertEvent
      <3>. QED
        BY <2>1, <2>2, <2>3, <3>2, <3>3, RewriteEdits
    <2>5. CASE s = "failed"
      <3>. DEFINE entry == [reason |-> "runtime_failed", attempts |-> jobs[j].attempt]
      <3>1. PICK e \in BOOLEAN :
              jobs' = [jobs EXCEPT ![j].status = "failed", ![j].lastError = e]
        BY <1>3, <2>5 DEF ExpertEvent
      <3>2. jobs' = [jobs EXCEPT ![j] = Rewritten(jobs[j], "failed", jobs[j].attempt,
                                                  jobs[j].result, e)]
        BY <1>1, <3>1 DEF MemTyped, Job, Rewritten
      <3>3. dlq' = [dlq EXCEPT ![j] = entry]
        BY <1>3, <2>5 DEF ExpertEvent
      <3>4. entry \in DeadLetterEntry /\ entry # NoEntry
        BY <2>2, OrchestratorAssumption DEF DeadLetterEntry, NoEntry
      <3>. HIDE DEF entry
      <3>. QED
        BY <2>1, <2>2, <2>3, <3>2, <3>3, <3>4, RewriteEdits
    <2>6. CASE s = "canceled"
      BY <1>1, <1>3, <2>1, <2>6 DEF ExpertEvent, SetStatus, EditsJob, JobInOrder, MemTyped,
                                    Job, Live, Terminal
    <2>. QED
      BY <1>3, <2>4, <2>5, <2>6 DEF ExpertEvent
  <1>. QED
    BY <1>2, <1>3

-----------------------------------------------------------------------------
(***************************************************************************)
(* Steps.                                                                  *)
(***************************************************************************)

\* Every step leaves the maps in memory typed and in agreement.
LEMMA MemoryStep ==
    ASSUME IInv, [Next]_vars
    PROVE  MemTyped' /\ Consistent(Memory)'
  <1>0. UNCHANGED state => MemTyped' /\ Consistent(Memory)'
    <2>1. MemTyped /\ Consistent(Memory)
      BY MemoryTyped DEF IInv, TypeOK, StateConsistent
    <2>. QED
      BY <2>1 DEF state, MemTyped, Memory, Consistent, IdsAllocated, FailedIsDeadLettered,
                  SucceededIsClean, IdempotencySound
  <1>1. ASSUME NEW j \in JobId, expireJobIfNeeded(j)
        PROVE  MemTyped' /\ Consistent(Memory)'
    BY <1>1, ExpireEdits, EditKeepsMemory
  <1>2. ASSUME NEW j \in JobId, CancelJob(j)
        PROVE  MemTyped' /\ Consistent(Memory)'
    BY <1>2, CancelEdits, EditKeepsMemory
  <1>3. ASSUME NEW j \in JobId, ReplayJob(j)
        PROVE  MemTyped' /\ Consistent(Memory)'
    BY <1>3, ReplayEdits, EditKeepsMemory
  <1>4. ASSUME NEW j \in JobId, Enqueue(j)
        PROVE  MemTyped' /\ Consistent(Memory)'
    BY <1>4, <1>0 DEF Enqueue, state
  <1>5. ASSUME NEW j \in JobId, DropEnqueue(j)
        PROVE  MemTyped' /\ Consistent(Memory)'
    BY <1>5, <1>0 DEF DropEnqueue, state
  <1>6. ASSUME NEW j \in JobId, DispatchWebhook(j)
        PROVE  MemTyped' /\ Consistent(Memory)'
    BY <1>6, <1>0 DEF DispatchWebhook, state
  <1>7. ASSUME NEW j \in JobId, NEW r \in Requests,
               NEW s \in {"succeeded", "failed", "canceled"}, ExpertEvent(j, r, s)
        PROVE  MemTyped' /\ Consistent(Memory)'
    BY <1>7, <1>0, EventEdits, EditKeepsMemory
  <1>8. ASSUME NEW j \in JobId, NEW r \in Requests, TaskEndsSilently(j, r)
        PROVE  MemTyped' /\ Consistent(Memory)'
    BY <1>8, <1>0 DEF TaskEndsSilently, state
  <1>9. ASSUME NEW k \in Keys \cup {NoKey}, NEW r \in Requests, SubmitBriefJob(k, r)
        PROVE  MemTyped' /\ Consistent(Memory)'
    BY <1>9, SubmitAdds, AddKeepsMemory
  <1>10. ASSUME NEW j \in JobId, StartJob(j)
        PROVE  MemTyped' /\ Consistent(Memory)'
    BY <1>10, <1>0, StartEdits, EditKeepsMemory
  <1>11. CASE FinishAccepted
    BY <1>11, <1>0, AcceptedEdits, HeldInOrder, EditKeepsMemory DEF FinishAccepted
  <1>12. CASE FinishResult
    BY <1>12, ResultEdits, HeldInOrder, EditKeepsMemory DEF FinishResult
  <1>13. CASE FinishError
    BY <1>13, ErrorEdits, HeldInOrder, EditKeepsMemory DEF FinishError
  <1>14. CASE RetryEnqueue
    BY <1>14, <1>0 DEF RetryEnqueue, state
  <1>15. CASE AckJob
    BY <1>15, <1>0 DEF AckJob, state
  <1>16. CASE RuntimeAccepts
    BY <1>16, <1>0 DEF RuntimeAccepts, state
  <1>17. CASE Tick
    BY <1>17, <1>0 DEF Tick, state
  <1>18. CASE Restart
    <2>1. PICK rec \in Recovered :
            /\ nextID' = rec.mem.nextID /\ idem' = rec.mem.idem /\ dlq' = rec.mem.dlq
            /\ jobs' = [j \in JobId |-> Requeued(rec.mem.jobs[j])]
      BY <1>18 DEF Restart
    <2>2. rec.mem \in {disk, emptyState}
      BY DEF Recovered
    <2>3. rec.mem \in State /\ Consistent(rec.mem)
      BY <2>2, EmptyStateOK DEF IInv, TypeOK, StateConsistent
    <2>. QED
      BY <2>1, <2>3, ReloadKeepsMemory
  <1>19. CASE LoadDone
    BY <1>19, <1>0 DEF LoadDone, state
  <1>20. CASE UNCHANGED vars
    BY <1>20, <1>0 DEF vars, state
  <1>. QED
    BY <1>1, <1>2, <1>3, <1>4, <1>5, <1>6, <1>7, <1>8, <1>9, <1>10, <1>11, <1>12,
       <1>13, <1>14, <1>15, <1>16, <1>17, <1>18, <1>19, <1>20 DEF Next, Poll, WorkerStep

\* Every step leaves the disk alone, saves the memory, or (a crash inside
\* JSONFileStore.Save) leaves nothing.
LEMMA DiskStep ==
    ASSUME [Next]_vars
    PROVE  disk' \in {disk, Memory', emptyState}
  <1>1. ASSUME NEW j \in JobId, expireJobIfNeeded(j)
        PROVE  disk' \in {disk, Memory', emptyState}
    BY <1>1 DEF expireJobIfNeeded, persistLocked, Memory
  <1>2. ASSUME NEW j \in JobId, CancelJob(j)
        PROVE  disk' \in {disk, Memory', emptyState}
    BY <1>2 DEF CancelJob, persistLocked, Memory
  <1>3. ASSUME NEW j \in JobId, ReplayJob(j)
        PROVE  disk' \in {disk, Memory', emptyState}
    BY <1>3 DEF ReplayJob, persistLocked, Memory
  <1>4. ASSUME NEW j \in JobId, Enqueue(j)
        PROVE  disk' \in {disk, Memory', emptyState}
    BY <1>4 DEF Enqueue
  <1>5. ASSUME NEW j \in JobId, DropEnqueue(j)
        PROVE  disk' \in {disk, Memory', emptyState}
    BY <1>5 DEF DropEnqueue
  <1>6. ASSUME NEW j \in JobId, DispatchWebhook(j)
        PROVE  disk' \in {disk, Memory', emptyState}
    BY <1>6 DEF DispatchWebhook
  <1>7. ASSUME NEW j \in JobId, NEW r \in Requests,
               NEW s \in {"succeeded", "failed", "canceled"}, ExpertEvent(j, r, s)
        PROVE  disk' \in {disk, Memory', emptyState}
    BY <1>7 DEF ExpertEvent, persistLocked, Memory
  <1>8. ASSUME NEW j \in JobId, NEW r \in Requests, TaskEndsSilently(j, r)
        PROVE  disk' \in {disk, Memory', emptyState}
    BY <1>8 DEF TaskEndsSilently
  <1>9. ASSUME NEW k \in Keys \cup {NoKey}, NEW r \in Requests, SubmitBriefJob(k, r)
        PROVE  disk' \in {disk, Memory', emptyState}
    BY <1>9 DEF SubmitBriefJob, persistLocked, Memory
  <1>10. ASSUME NEW j \in JobId, StartJob(j)
        PROVE  disk' \in {disk, Memory', emptyState}
    BY <1>10 DEF StartJob, persistLocked, Memory
  <1>11. CASE FinishAccepted
    BY <1>11 DEF FinishAccepted, persistLocked, Memory
  <1>12. CASE FinishResult
    BY <1>12 DEF FinishResult, persistLocked, Memory
  <1>13. CASE FinishError
    BY <1>13 DEF FinishError, persistLocked, Memory
  <1>14. CASE RetryEnqueue
    BY <1>14 DEF RetryEnqueue
  <1>15. CASE AckJob
    BY <1>15 DEF AckJob
  <1>16. CASE RuntimeAccepts
    BY <1>16 DEF RuntimeAccepts
  <1>17. CASE Tick
    BY <1>17 DEF Tick
  <1>18. CASE Restart
    BY <1>18 DEF Restart, Recovered, persistLocked, Memory
  <1>19. CASE LoadDone
    BY <1>19 DEF LoadDone
  <1>20. CASE UNCHANGED vars
    BY <1>20 DEF vars
  <1>. QED
    BY <1>1, <1>2, <1>3, <1>4, <1>5, <1>6, <1>7, <1>8, <1>9, <1>10, <1>11, <1>12,
       <1>13, <1>14, <1>15, <1>16, <1>17, <1>18, <1>19, <1>20 DEF Next, Poll, WorkerStep

\* The part of TypeOK that is not Memory or disk.
Others ==
    /\ queue \in Seq(JobId)
    /\ pel \in [JobId -> Nat] /\ sending \in [JobId -> Nat]
    /\ worker \in Worker
    /\ tasks \in [JobId -> [Requests -> Nat]]
    /\ notify \subseteq JobId
    /\ now \in Nat

\* Every step keeps the types of queue, worker, tasks and clock.
LEMMA OthersStep ==
    ASSUME IInv, [Next]_vars
    PROVE  Others'
  <1>a. Others
    BY DEF IInv, TypeOK, Others
  <1>b. worker.pc \in {"retrying", "done"} => worker.job \in JobId
    BY DEF IInv, WorkerHoldsJob
  <1>c. MemTyped
    BY MemoryTyped DEF IInv, TypeOK
  <1>1. ASSUME NEW j \in JobId, expireJobIfNeeded(j)
        PROVE  Others'
    BY <1>1, <1>a DEF expireJobIfNeeded, Others, queues
  <1>2. ASSUME NEW j \in JobId, CancelJob(j)
        PROVE  Others'
    BY <1>2, <1>a DEF CancelJob, Others, queues
  <1>3. ASSUME NEW j \in JobId, ReplayJob(j)
        PROVE  Others'
    BY <1>3, <1>a DEF ReplayJob, Others, queues
  <1>4. ASSUME NEW j \in JobId, Enqueue(j)
        PROVE  Others'
    BY <1>4, <1>a DEF Enqueue, Others, queues
  <1>5. ASSUME NEW j \in JobId, DropEnqueue(j)
        PROVE  Others'
    BY <1>5, <1>a DEF DropEnqueue, Others, queues
  <1>6. ASSUME NEW j \in JobId, DispatchWebhook(j)
        PROVE  Others'
    BY <1>6, <1>a DEF DispatchWebhook, Others, queues
  <1>7. ASSUME NEW j \in JobId, NEW r \in Requests,
               NEW s \in {"succeeded", "failed", "canceled"}, ExpertEvent(j, r, s)
        PROVE  Others'
    <2>1. tasks' \in [JobId -> [Requests -> Nat]]
      <3>1. tasks[j][r] > 0 /\ tasks' = [tasks EXCEPT ![j][r] = @ - 1]
        BY <1>7 DEF ExpertEvent
      <3>. QED
        BY <1>a, <3>1 DEF Others
    <2>2. notify' \subseteq JobId
      BY <1>7, <1>a DEF ExpertEvent, Others
    <2>3. UNCHANGED <<queue, pel, sending, worker, now>>
      BY <1>7 DEF ExpertEvent, queues
    <2>. QED
      BY <1>a, <2>1, <2>2, <2>3 DEF Others
  <1>8. ASSUME NEW j \in JobId, NEW r \in Requests, TaskEndsSilently(j, r)
        PROVE  Others'
    BY <1>8, <1>a DEF TaskEndsSilently, Others, queues
  <1>9. ASSUME NEW k \in Keys \cup {NoKey}, NEW r \in Requests, SubmitBriefJob(k, r)
        PROVE  Others'
    <2>1. nextID + 1 \in JobId
      BY <1>9, <1>c, OrchestratorAssumption DEF SubmitBriefJob, MemTyped, JobId
    <2>. QED
      BY <1>9, <1>a, <2>1 DEF SubmitBriefJob, Others
  <1>10. ASSUME NEW j \in JobId, StartJob(j)
        PROVE  Others'
    <2>1. worker' \in Worker
      <3>1. worker \in Worker /\ jobs[j].req \in Requests \cup {NoRequest}
        BY <1>a, <1>c DEF Others, MemTyped, Job
      <3>. QED
        <4>1. \/ worker' = [worker EXCEPT !.pc = "done", !.job = j]
              \/ worker' = [pc |-> "executing", job |-> j, req |-> jobs[j].req]
          BY <1>10 DEF StartJob
        <4>2. CASE worker' = [worker EXCEPT !.pc = "done", !.job = j]
          BY <3>1, <4>2 DEF Worker
        <4>3. CASE worker' = [pc |-> "executing", job |-> j, req |-> jobs[j].req]
          BY <3>1, <4>3 DEF Worker
        <4>. QED
          BY <4>1, <4>2, <4>3
    <2>2. queue' \in Seq(JobId) /\ pel' \in [JobId -> Nat]
      <3>1. Dequeue(j)
        BY <1>10 DEF StartJob
      <3>2. CASE queue # <<>> /\ queue' = Tail(queue) /\ pel' = pel
        BY <1>a, <3>2 DEF Others
      <3>3. CASE pel[j] > 0 /\ pel' = [pel EXCEPT ![j] = @ - 1] /\ queue' = queue
        BY <1>a, <3>3 DEF Others
      <3>. QED
        BY <3>1, <3>2, <3>3 DEF Dequeue, OldestEntry, claimPending
    <2>. QED
      BY <1>10, <1>a, <2>1, <2>2 DEF StartJob, Others
  <1>11. CASE FinishAccepted
    BY <1>11, <1>a DEF FinishAccepted, Others, Worker, queues
  <1>12. CASE FinishResult
    <2>1. worker' \in Worker
      BY <1>12, <1>a DEF FinishResult, Others, Worker
    <2>2. notify' \subseteq JobId
      BY <1>12, <1>a, HeldInOrder DEF FinishResult, Others
    <2>. QED
      BY <1>12, <1>a, <2>1, <2>2 DEF FinishResult, Others, queues
  <1>13. CASE FinishError
    BY <1>13, <1>a DEF FinishError, Others, Worker, queues
  <1>14. CASE RetryEnqueue
    <2>1. worker' \in Worker
      BY <1>14, <1>a DEF RetryEnqueue, Others, Worker
    <2>2. queue' \in Seq(JobId)
      <3>1. worker.job \in JobId /\ queue' \in {queue, Append(queue, worker.job)}
        BY <1>14, <1>b DEF RetryEnqueue
      <3>2. CASE queue' = queue
        BY <1>a, <3>2 DEF Others
      <3>3. CASE queue' = Append(queue, worker.job)
        BY <1>a, <3>1, <3>3 DEF Others
      <3>. QED
        BY <3>1, <3>2, <3>3
    <2>. QED
      BY <1>14, <1>a, <2>1, <2>2 DEF RetryEnqueue, Others
  <1>15. CASE AckJob
    <2>1. worker' \in Worker
      BY <1>15 DEF AckJob, Idle, Worker
    <2>2. pel' \in [JobId -> Nat]
      <3>1. pel \in [JobId -> Nat]
        BY <1>a DEF Others
      <3>2. \/ pel' = pel
            \/ pel' = [pel EXCEPT ![worker.job] = pel[worker.job] + 1]
        BY <1>15 DEF AckJob
      <3>3. CASE pel' = [pel EXCEPT ![worker.job] = pel[worker.job] + 1]
        <4>1. worker.job \in JobId
          BY <1>15, <1>b DEF AckJob
        <4>2. pel[worker.job] + 1 \in Nat
          BY <3>1, <4>1
        <4>. QED
          BY <3>1, <3>3, <4>2
      <3>. QED
        BY <3>1, <3>2, <3>3
    <2>. QED
      BY <1>15, <1>a, <2>1, <2>2 DEF AckJob, Others
  <1>16. CASE RuntimeAccepts
    <2>1. worker' \in Worker
      BY <1>16, <1>a DEF RuntimeAccepts, Others, Worker
    <2>2. worker.job \in JobId /\ worker.req \in Requests
      BY <1>16, HeldInOrder DEF RuntimeAccepts
    <2>3. tasks' \in [JobId -> [Requests -> Nat]]
      BY <1>16, <1>a, <2>2 DEF RuntimeAccepts, Others
    <2>. QED
      BY <1>16, <1>a, <2>1, <2>3 DEF RuntimeAccepts, Others, queues
  <1>17. CASE Tick
    BY <1>17, <1>a DEF Tick, Others, queues
  <1>18. CASE Restart
    <2>1. worker' \in Worker
      BY <1>18 DEF Restart, Loading, Worker
    <2>2. queue' \in Seq(JobId) /\ pel' \in [JobId -> Nat]
      <3>1. queue' = queue \/ queue' = <<>>
        BY <1>18 DEF Restart
      <3>2. queue' \in Seq(JobId)
        <4>1. CASE queue' = queue
          BY <1>a, <4>1 DEF Others
        <4>2. CASE queue' = <<>>
          BY <4>2
        <4>. QED
          BY <3>1, <4>1, <4>2
      <3>3. \/ pel' = pel
            \/ (worker.job \in JobId /\ pel' = [pel EXCEPT ![worker.job] = @ + 1])
        BY <1>18 DEF Restart
      <3>4. pel' \in [JobId -> Nat]
        <4>1. CASE pel' = pel
          BY <1>a, <4>1 DEF Others
        <4>2. CASE worker.job \in JobId /\ pel' = [pel EXCEPT ![worker.job] = @ + 1]
          BY <1>a, <4>2 DEF Others
        <4>. QED
          BY <3>3, <4>1, <4>2
      <3>. QED
        BY <3>2, <3>4
    <2>3. sending' \in [JobId -> Nat]
      BY <1>18 DEF Restart
    <2>. QED
      BY <1>18, <1>a, <2>1, <2>2, <2>3 DEF Restart, Others
  <1>19. CASE LoadDone
    BY <1>19, <1>a DEF LoadDone, Others, queues, Idle, Worker
  <1>20. CASE UNCHANGED vars
    BY <1>20, <1>a DEF vars, Others
  <1>. QED
    BY <1>1, <1>2, <1>3, <1>4, <1>5, <1>6, <1>7, <1>8, <1>9, <1>10, <1>11, <1>12,
       <1>13, <1>14, <1>15, <1>16, <1>17, <1>18, <1>19, <1>20 DEF Next, Poll, WorkerStep

\* Every step keeps every type.
LEMMA TypeStep ==
    ASSUME IInv, [Next]_vars
    PROVE  TypeOK'
  <1>1. Memory' \in State
    BY MemoryStep, MemoryTypedNext
  <1>2. disk' \in State
    BY <1>1, DiskStep, EmptyStateOK DEF IInv, TypeOK
  <1>. QED
    BY <1>1, <1>2, OthersStep DEF TypeOK, Others

-----------------------------------------------------------------------------
(***************************************************************************)
(* What the worker holds, and what a client was promised.                  *)
(***************************************************************************)

\* The accepted jobs and the idempotency records are still there.
KeepsAccepted ==
    /\ nextID \in Nat /\ nextID' \in Nat /\ nextID <= nextID'
    /\ \A j \in 1 .. nextID : jobs'[j].status # "absent" /\ jobs'[j].req = jobs[j].req
    /\ \A k \in Keys : idem[k] # NoRecord => idem'[k] = idem[k]

\* The ids handed out so far belong to jobs of the map.
LEMMA AllocatedInMap ==
    ASSUME IInv
    PROVE  /\ nextID \in Nat
           /\ \A j \in 1 .. nextID : j \in JobId /\ jobs[j].status # "absent"
  <1>1. MemTyped
    BY MemoryTyped DEF IInv, TypeOK
  <1>2. nextID \in Nat /\ \A j \in 1 .. nextID : j \in JobId
    BY <1>1, OrchestratorAssumption DEF MemTyped, JobId
  <1>. QED
    BY <1>2 DEF IInv, StateConsistent, Consistent, IdsAllocated, Memory

\* Rewriting one job keeps the accepted jobs.
LEMMA EditKeepsAccepted ==
    ASSUME IInv, NEW j \in JobId, EditsJob(j)
    PROVE  KeepsAccepted
  <1>1. MemTyped
    BY MemoryTyped DEF IInv, TypeOK
  <1>2. \A i \in JobId : i # j => jobs'[i] = jobs[i]
    BY <1>1 DEF MemTyped, EditsJob
  <1>. QED
    BY <1>2, AllocatedInMap DEF EditsJob, JobInOrder, KeepsAccepted

\* Adding a job keeps the accepted jobs.
LEMMA AddKeepsAccepted ==
    ASSUME IInv, NEW k, NEW r \in Requests, AddsJob(k, r)
    PROVE  KeepsAccepted
  <1>1. MemTyped
    BY MemoryTyped DEF IInv, TypeOK
  <1>2. \A i \in 1 .. nextID : jobs'[i] = jobs[i]
    BY <1>1, AllocatedInMap DEF MemTyped, AddsJob
  <1>3. \A l \in Keys : idem[l] # NoRecord => idem'[l] = idem[l]
    BY <1>1 DEF MemTyped, AddsJob
  <1>. QED
    BY <1>2, <1>3, AllocatedInMap DEF AddsJob, KeepsAccepted

\* Within one process no step forgets an accepted job or changes its request.
LEMMA ProcessKeepsAccepted ==
    ASSUME IInv, [Next]_vars, ~Restart
    PROVE  KeepsAccepted
  <1>u. UNCHANGED state => KeepsAccepted
    BY AllocatedInMap DEF state, KeepsAccepted
  <1>1. ASSUME NEW j \in JobId, expireJobIfNeeded(j)
        PROVE  KeepsAccepted
    BY <1>1, ExpireEdits, EditKeepsAccepted
  <1>2. ASSUME NEW j \in JobId, CancelJob(j)
        PROVE  KeepsAccepted
    BY <1>2, CancelEdits, EditKeepsAccepted
  <1>3. ASSUME NEW j \in JobId, ReplayJob(j)
        PROVE  KeepsAccepted
    BY <1>3, ReplayEdits, EditKeepsAccepted
  <1>4. ASSUME NEW j \in JobId, Enqueue(j)
        PROVE  KeepsAccepted
    BY <1>4, <1>u DEF Enqueue, state
  <1>5. ASSUME NEW j \in JobId, DropEnqueue(j)
        PROVE  KeepsAccepted
    BY <1>5, <1>u DEF DropEnqueue, state
  <1>6. ASSUME NEW j \in JobId, DispatchWebhook(j)
        PROVE  KeepsAccepted
    BY <1>6, <1>u DEF DispatchWebhook, state
  <1>7. ASSUME NEW j \in JobId, NEW r \in Requests,
               NEW s \in {"succeeded", "failed", "canceled"}, ExpertEvent(j, r, s)
        PROVE  KeepsAccepted
    BY <1>7, EventEdits, EditKeepsAccepted, <1>u
  <1>8. ASSUME NEW j \in JobId, NEW r \in Requests, TaskEndsSilently(j, r)
        PROVE  KeepsAccepted
    BY <1>8, <1>u DEF TaskEndsSilently, state
  <1>9. ASSUME NEW k \in Keys \cup {NoKey}, NEW r \in Requests, SubmitBriefJob(k, r)
        PROVE  KeepsAccepted
    BY <1>9, SubmitAdds, AddKeepsAccepted
  <1>10. ASSUME NEW j \in JobId, StartJob(j)
        PROVE  KeepsAccepted
    BY <1>10, StartEdits, EditKeepsAccepted, <1>u
  <1>11. CASE FinishAccepted
    BY <1>11, AcceptedEdits, EditKeepsAccepted, HeldInOrder, <1>u DEF FinishAccepted
  <1>12. CASE FinishResult
    BY <1>12, ResultEdits, EditKeepsAccepted, HeldInOrder DEF FinishResult
  <1>13. CASE FinishError
    BY <1>13, ErrorEdits, EditKeepsAccepted, HeldInOrder DEF FinishError
  <1>14. CASE RetryEnqueue
    BY <1>14, <1>u DEF RetryEnqueue, state
  <1>15. CASE AckJob
    BY <1>15, <1>u DEF AckJob, state
  <1>16. CASE RuntimeAccepts
    BY <1>16, <1>u DEF RuntimeAccepts, state
  <1>17. CASE Tick
    BY <1>17, <1>u DEF Tick, state
  <1>18. CASE LoadDone
    BY <1>18, <1>u DEF LoadDone, state
  <1>19. CASE UNCHANGED vars
    BY <1>19, <1>u DEF vars, state
  <1>. QED
    BY <1>1, <1>2, <1>3, <1>4, <1>5, <1>6, <1>7, <1>8, <1>9, <1>10, <1>11, <1>12,
       <1>13, <1>14, <1>15, <1>16, <1>17, <1>18, <1>19 DEF Next, Poll, WorkerStep

\* Every step keeps what the worker relies on while it is outside the lock.
LEMMA WorkerStepKeeps ==
    ASSUME IInv, [Next]_vars
    PROVE  WorkerHoldsJob'
  <1>a. WorkerHoldsJob /\ worker \in Worker /\ MemTyped
    BY MemoryTyped DEF IInv, TypeOK
  <1>u. ASSUME UNCHANGED worker, ~Restart
        PROVE  WorkerHoldsJob'
    <2>1. KeepsAccepted
      BY <1>u, ProcessKeepsAccepted
    <2>. QED
      BY <1>a, <1>u, <2>1 DEF WorkerHoldsJob, KeepsAccepted
  <1>d. ASSUME worker'.pc \in {"done", "retrying"}, worker'.job \in JobId
        PROVE  WorkerHoldsJob'
    BY <1>d DEF WorkerHoldsJob
  <1>r. CASE Restart
    BY <1>r DEF Restart, Loading, WorkerHoldsJob
  <1>n. CASE ~Restart
    <2>1. ASSUME NEW j \in JobId, StartJob(j)
          PROVE  WorkerHoldsJob'
      <3>1. \/ worker' = [worker EXCEPT !.pc = "done", !.job = j]
            \/ (/\ jobs[j].status # "absent"
                /\ worker' = [pc |-> "executing", job |-> j, req |-> jobs[j].req])
        BY <2>1 DEF StartJob
      <3>2. CASE worker' = [worker EXCEPT !.pc = "done", !.job = j]
        BY <1>a, <1>d, <3>2 DEF Worker
      <3>3. CASE /\ jobs[j].status # "absent"
                 /\ worker' = [pc |-> "executing", job |-> j, req |-> jobs[j].req]
        <4>1. j \in 1 .. nextID
          BY <3>3, ExistingInOrder
        <4>2. KeepsAccepted
          BY <1>n, ProcessKeepsAccepted
        <4>. QED
          BY <3>3, <4>1, <4>2 DEF WorkerHoldsJob, KeepsAccepted
      <3>. QED
        BY <3>1, <3>2, <3>3
    <2>2. CASE FinishAccepted
      BY <1>a, <1>d, <2>2, HeldInOrder DEF FinishAccepted, Worker
    <2>3. CASE FinishResult
      BY <1>a, <1>d, <2>3, HeldInOrder DEF FinishResult, Worker
    <2>4. CASE FinishError
      BY <1>a, <1>d, <2>4, HeldInOrder DEF FinishError, Worker
    <2>5. CASE RetryEnqueue
      BY <1>a, <1>d, <2>5 DEF RetryEnqueue, Worker, WorkerHoldsJob
    <2>6. CASE AckJob
      BY <2>6 DEF AckJob, Idle, WorkerHoldsJob
    <2>7. CASE LoadDone
      BY <2>7 DEF LoadDone, Idle, WorkerHoldsJob
    <2>8. CASE RuntimeAccepts
      <3>1. /\ worker.pc = "executing"
            /\ worker' = [worker EXCEPT !.pc = "accepted"] /\ UNCHANGED <<jobs, nextID>>
        BY <2>8 DEF RuntimeAccepts, state
      <3>. QED
        BY <1>a, <3>1 DEF WorkerHoldsJob, Worker
    <2>9. CASE UNCHANGED worker
      BY <1>n, <1>u, <2>9
    <2>10. WorkerStep \/ LoadDone \/ RuntimeAccepts \/ UNCHANGED worker
      <3>1. ASSUME NEW k \in Keys \cup {NoKey}, NEW r \in Requests, SubmitBriefJob(k, r)
            PROVE  UNCHANGED worker
        BY <3>1 DEF SubmitBriefJob
      <3>2. ASSUME NEW j \in JobId,
                   \/ Poll(j) \/ CancelJob(j) \/ ReplayJob(j) \/ Enqueue(j)
                   \/ DropEnqueue(j) \/ DispatchWebhook(j)
            PROVE  UNCHANGED worker
        BY <3>2 DEF Poll, expireJobIfNeeded, CancelJob, ReplayJob, Enqueue, DropEnqueue,
                    DispatchWebhook
      <3>3. ASSUME NEW j \in JobId, NEW r \in Requests,
                   \/ \E s \in {"succeeded", "failed", "canceled"} : ExpertEvent(j, r, s)
                   \/ TaskEndsSilently(j, r)
            PROVE  UNCHANGED worker
        BY <3>3 DEF ExpertEvent, TaskEndsSilently
      <3>4. CASE Tick \/ UNCHANGED vars
        BY <3>4 DEF Tick, vars
      <3>. QED
        BY <1>n, <3>1, <3>2, <3>3, <3>4 DEF Next
    <2>. QED
      BY <2>1, <2>2, <2>3, <2>4, <2>5, <2>6, <2>7, <2>8, <2>9, <2>10 DEF WorkerStep
  <1>. QED
    BY <1>r, <1>n

\* The initial state satisfies the inductive invariant.
LEMMA InitIInv ==
    ASSUME Init
    PROVE  IInv
  <1>1. Memory = emptyState /\ disk = emptyState
    BY DEF Init, Memory, emptyState
  <1>2. StateConsistent
    BY <1>1, EmptyStateOK DEF StateConsistent
  <1>3. WorkerHoldsJob
    BY DEF Init, Idle, WorkerHoldsJob
  <1>4. TypeOK
    BY <1>1, EmptyStateOK DEF Init, TypeOK, Idle, Worker
  <1>. QED
    BY <1>2, <1>3, <1>4 DEF IInv

\* Every step keeps the inductive invariant.
LEMMA StepIInv ==
    ASSUME IInv, [Next]_vars
    PROVE  IInv'
  <1>1. Consistent(disk')
    <2>1. Consistent(Memory')
      BY MemoryStep
    <2>2. Consistent(disk)
      BY DEF IInv, StateConsistent
    <2>. QED
      BY <2>1, <2>2, DiskStep, EmptyStateOK
  <1>2. StateConsistent'
    BY <1>1, MemoryStep DEF StateConsistent
  <1>. QED
    BY <1>2, TypeStep, WorkerStepKeeps DEF IInv

-----------------------------------------------------------------------------
(***************************************************************************)
(* Theorems.                                                               *)
(***************************************************************************)

\* IInv is an invariant of the orchestrator, for any number of jobs, keys and
\* requests, either queue, and any combination of the faults: the races of
\* the handlers, the worker and the runtimes in server.go never break it.
THEOREM Invariance == Spec => []IInv
  <1>1. Init => IInv
    BY InitIInv
  <1>2. IInv /\ [Next]_vars => IInv'
    BY StepIInv
  <1>. QED
    BY <1>1, <1>2, PTL DEF Spec

\* Every variable of the orchestrator keeps the type the code gives it.
THEOREM TypeCorrect == Spec => []TypeOK
  <1>1. IInv => TypeOK
    BY DEF IInv
  <1>. QED
    BY <1>1, Invariance, PTL

\* Jobs, idempotency records, dead letters and the id counter agree in memory
\* and in the saved snapshot, whatever handlers raced, saves or loads failed
\* and restarts came before (persistLocked, loadState).
THEOREM StateAlwaysConsistent == Spec => []StateConsistent
  <1>1. IInv => StateConsistent
    BY DEF IInv
  <1>. QED
    BY <1>1, Invariance, PTL

\* processBriefJob finds its job again, with the same request, after the
\* unlocked call of ExecuteBrief.
THEOREM WorkerAlwaysHoldsJob == Spec => []WorkerHoldsJob
  <1>1. IInv => WorkerHoldsJob
    BY DEF IInv
  <1>. QED
    BY <1>1, Invariance, PTL

-----------------------------------------------------------------------------
(***************************************************************************)
(* With a store that does not fail.                                        *)
(***************************************************************************)

\* Every critical section that changes the state ends with a save of it.
LEMMA StepDurable ==
    ASSUME Faults \cap {"save", "load"} = {}, IInv, Durable, [Next]_vars
    PROVE  Durable'
  <1>a. "save" \notin Faults /\ "load" \notin Faults
    OBVIOUS
  <1>1. ASSUME NEW j \in JobId, expireJobIfNeeded(j)
        PROVE  Durable'
    BY <1>1, <1>a DEF expireJobIfNeeded, persistLocked, Memory, Durable, state
  <1>2. ASSUME NEW j \in JobId, CancelJob(j)
        PROVE  Durable'
    BY <1>2, <1>a DEF CancelJob, persistLocked, Memory, Durable, state
  <1>3. ASSUME NEW j \in JobId, ReplayJob(j)
        PROVE  Durable'
    BY <1>3, <1>a DEF ReplayJob, persistLocked, Memory, Durable, state
  <1>4. ASSUME NEW j \in JobId, Enqueue(j)
        PROVE  Durable'
    BY <1>4, <1>a DEF Enqueue, state, Memory, Durable
  <1>5. ASSUME NEW j \in JobId, DropEnqueue(j)
        PROVE  Durable'
    BY <1>5, <1>a DEF DropEnqueue, state, Memory, Durable
  <1>6. ASSUME NEW j \in JobId, DispatchWebhook(j)
        PROVE  Durable'
    BY <1>6, <1>a DEF DispatchWebhook, state, Memory, Durable
  <1>7. ASSUME NEW j \in JobId, NEW r \in Requests,
               NEW s \in {"succeeded", "failed", "canceled"}, ExpertEvent(j, r, s)
        PROVE  Durable'
    BY <1>7, <1>a DEF ExpertEvent, persistLocked, Memory, Durable, state
  <1>8. ASSUME NEW j \in JobId, NEW r \in Requests, TaskEndsSilently(j, r)
        PROVE  Durable'
    BY <1>8, <1>a DEF TaskEndsSilently, state, Memory, Durable
  <1>9. ASSUME NEW k \in Keys \cup {NoKey}, NEW r \in Requests, SubmitBriefJob(k, r)
        PROVE  Durable'
    BY <1>9, <1>a DEF SubmitBriefJob, persistLocked, Memory, Durable, state
  <1>10. ASSUME NEW j \in JobId, StartJob(j)
        PROVE  Durable'
    BY <1>10, <1>a DEF StartJob, persistLocked, Memory, Durable, state
  <1>11. CASE FinishAccepted
    BY <1>11, <1>a DEF FinishAccepted, persistLocked, Memory, Durable, state
  <1>12. CASE FinishResult
    BY <1>12, <1>a DEF FinishResult, persistLocked, Memory, Durable, state
  <1>13. CASE FinishError
    BY <1>13, <1>a DEF FinishError, persistLocked, Memory, Durable, state
  <1>14. CASE RetryEnqueue
    BY <1>14, <1>a DEF RetryEnqueue, state, Memory, Durable
  <1>15. CASE AckJob
    BY <1>15, <1>a DEF AckJob, state, Memory, Durable
  <1>16. CASE RuntimeAccepts
    BY <1>16, <1>a DEF RuntimeAccepts, state, Memory, Durable
  <1>17. CASE Tick
    BY <1>17, <1>a DEF Tick, state, Memory, Durable
  <1>18. CASE Restart
    <2>1. PICK rec \in Recovered :
            /\ nextID' = rec.mem.nextID /\ idem' = rec.mem.idem /\ dlq' = rec.mem.dlq
            /\ jobs' = [j \in JobId |-> Requeued(rec.mem.jobs[j])]
            /\ IF \E j \in JobId : jobs'[j].status = "queued"
                 THEN persistLocked
                 ELSE disk' = rec.stored
      BY <1>18 DEF Restart
    <2>2. CASE \E j \in JobId : jobs'[j].status = "queued"
      BY <1>a, <2>1, <2>2 DEF persistLocked, Memory, Durable
    <2>3. CASE ~ \E j \in JobId : jobs'[j].status = "queued"
      <3>1. rec.stored = rec.mem /\ rec.mem \in {disk, emptyState} /\ disk' = rec.stored
        BY <1>a, <2>1, <2>3 DEF Recovered
      <3>2. rec.mem \in State
        BY <3>1, EmptyStateOK DEF IInv, TypeOK
      <3>3. \A j \in JobId : Requeued(rec.mem.jobs[j]) = rec.mem.jobs[j]
        <4>1. \A j \in JobId : rec.mem.jobs[j] \in Job
          BY <3>2 DEF State
        <4>2. \A j \in JobId : Requeued(rec.mem.jobs[j]).status # "queued"
          BY <2>1, <2>3
        <4>. QED
          BY <4>1, <4>2 DEF Requeued, Job
      <3>4. jobs' = rec.mem.jobs
        BY <2>1, <3>2, <3>3 DEF State
      <3>. QED
        BY <2>1, <3>1, <3>2, <3>4 DEF Durable, Memory, State
    <2>. QED
      BY <2>2, <2>3
  <1>19. CASE LoadDone
    BY <1>19 DEF LoadDone, state, Memory, Durable
  <1>20. CASE UNCHANGED vars
    BY <1>20 DEF vars, Memory, Durable
  <1>. QED
    BY <1>1, <1>2, <1>3, <1>4, <1>5, <1>6, <1>7, <1>8, <1>9, <1>10, <1>11, <1>12,
       <1>13, <1>14, <1>15, <1>16, <1>17, <1>18, <1>19, <1>20 DEF Next, Poll, WorkerStep

\* As long as no Save and no Load fails, everything visible at an unlock of
\* Server.mu is on disk: no handler forgets its persistLocked.
THEOREM AlwaysDurable == Faults \cap {"save", "load"} = {} /\ Spec => []Durable
  <1>1. SUFFICES ASSUME Faults \cap {"save", "load"} = {}
                 PROVE  Spec => []Durable
    OBVIOUS
  <1>2. Init => Durable
    BY DEF Init, Durable, Memory, emptyState
  <1>3. IInv /\ Durable /\ [Next]_vars => Durable'
    BY <1>1, StepDurable
  <1>. QED
    BY <1>2, <1>3, Invariance, PTL DEF Spec

\* With a durable store a restart keeps the accepted jobs too.
LEMMA StepKeepsAccepted ==
    ASSUME Faults \cap {"load", "lostfile"} = {}, IInv, Durable, [Next]_vars
    PROVE  KeepsAccepted
  <1>1. CASE Restart
    <2>1. /\ nextID' = disk.nextID /\ idem' = disk.idem
          /\ jobs' = [j \in JobId |-> Requeued(disk.jobs[j])]
      BY <1>1 DEF Restart, Recovered
    <2>2. nextID' = nextID /\ idem' = idem /\ jobs' = [j \in JobId |-> Requeued(jobs[j])]
      BY <2>1 DEF Durable, Memory
    <2>3. \A j \in JobId : /\ Requeued(jobs[j]).req = jobs[j].req
                           /\ jobs[j].status # "absent" => Requeued(jobs[j]).status # "absent"
      <3>1. \A j \in JobId : jobs[j] \in Job
        BY MemoryTyped DEF IInv, TypeOK, MemTyped
      <3>. QED
        BY <3>1 DEF Requeued, Job
    <2>4. \A j \in 1 .. nextID : jobs'[j].status # "absent" /\ jobs'[j].req = jobs[j].req
      <3>1. \A j \in JobId : jobs'[j] = Requeued(jobs[j])
        BY <2>2
      <3>2. \A j \in JobId : /\ jobs'[j].req = jobs[j].req
                             /\ jobs[j].status # "absent" => jobs'[j].status # "absent"
        BY <2>3, <3>1, Zenon
      <3>3. \A j \in 1 .. nextID : j \in JobId /\ jobs[j].status # "absent"
        BY AllocatedInMap
      <3>. QED
        BY <3>2, <3>3
    <2>. QED
      BY <2>2, <2>4, AllocatedInMap DEF KeepsAccepted
  <1>2. CASE ~Restart
    BY <1>2, ProcessKeepsAccepted
  <1>. QED
    BY <1>1, <1>2

\* With a store that neither fails nor loses its file, an accepted job keeps
\* its id and its request, and an idempotency key its job, for ever and
\* through any number of restarts.
THEOREM JobsSurvive ==
    Faults \cap {"save", "load", "lostfile"} = {} /\ Spec => AcceptedJobsSurvive
  <1>1. SUFFICES ASSUME Faults \cap {"save", "load", "lostfile"} = {}
                 PROVE  Spec => AcceptedJobsSurvive
    OBVIOUS
  <1>2. /\ Faults \cap {"save", "load"} = {}
        /\ Faults \cap {"load", "lostfile"} = {}
    BY <1>1
  <1>3. Spec => []Durable
    BY <1>2, AlwaysDurable
  <1>4. IInv /\ Durable /\ [Next]_vars => KeepsAccepted
    BY <1>2, StepKeepsAccepted
  <1>5. KeepsAccepted =>
          /\ \A j \in 1 .. nextID : jobs'[j].status # "absent" /\ jobs'[j].req = jobs[j].req
          /\ \A k \in Keys : idem[k] # NoRecord => idem'[k] = idem[k]
    BY DEF KeepsAccepted
  <1>. QED
    BY <1>3, <1>4, <1>5, Invariance, PTL DEF Spec, AcceptedJobsSurvive

-----------------------------------------------------------------------------
(***************************************************************************)
(* What a step within one process does to a job.                           *)
(***************************************************************************)

\* The job is created, by SubmitBriefJob.
Submitted(j) ==
    /\ jobs[j].status = "absent" /\ jobs'[j].status = "queued"
    /\ jobs'[j].result = NoRequest

\* It is queued again, by ReplayJob.
Replayed(j) ==
    /\ jobs[j].status \in {"failed", "canceled", "expired"}
    /\ jobs'[j] = [jobs[j] EXCEPT !.status = "queued", !.attempt = 1, !.lastError = FALSE]
    /\ sending'[j] = sending[j] + 1

\* It moves on without a result.
Moved(j) ==
    /\ jobs[j].status # "absent"
    /\ jobs[j].status = "canceled" => jobs'[j].status = "canceled"
    /\ jobs'[j].status = "succeeded" => jobs[j].status = "succeeded"
    /\ jobs'[j].result = jobs[j].result /\ jobs'[j].req = jobs[j].req

\* It gets a result: from the worker's call of ExecuteBrief, or from an event
\* of a task that runs for it, which may come without one.
Succeeded(j) ==
    /\ jobs[j].status \notin {"absent", "canceled"} /\ jobs'[j].status = "succeeded"
    /\ jobs'[j].req = jobs[j].req
    /\ \/ /\ worker.pc = "executing" /\ worker.job = j
          /\ jobs'[j].result = worker.req
       \/ \E r \in Requests : tasks[j][r] > 0 /\ jobs'[j].result = r
       \/ "noresult" \in Faults /\ jobs'[j].result = NoRequest

OneMove(j) ==
    jobs'[j] = jobs[j] \/ Submitted(j) \/ Replayed(j) \/ Moved(j) \/ Succeeded(j)

\* A critical section that only sets the status of one job.
LEMMA SetStatusMoves ==
    ASSUME IInv, NEW j \in JobId, jobs[j].status \notin {"absent", "canceled"},
           NEW s \in {"running", "canceled", "expired"}, SetStatus(j, s)
    PROVE  \A i \in JobId : OneMove(i)
  <1>1. jobs \in [JobId -> Job]
    BY MemoryTyped DEF IInv, TypeOK, MemTyped
  <1>2. \A i \in JobId \ {j} : jobs'[i] = jobs[i]
    BY <1>1 DEF SetStatus
  <1>3. Moved(j)
    BY <1>1 DEF SetStatus, Moved, Job
  <1>. QED
    BY <1>2, <1>3 DEF OneMove

\* SubmitBriefJob creates the job of the next id and touches no other.
LEMMA SubmitMoves ==
    ASSUME IInv, NEW k, NEW r \in Requests, SubmitBriefJob(k, r)
    PROVE  \A i \in JobId : OneMove(i)
  <1>1. jobs \in [JobId -> Job] /\ nextID \in Nat
    BY MemoryTyped DEF IInv, TypeOK, MemTyped
  <1>2. nextID + 1 \in JobId
    BY <1>1, OrchestratorAssumption DEF JobId, SubmitBriefJob
  <1>3. jobs[nextID + 1].status = "absent"
    BY <1>1, <1>2 DEF IInv, StateConsistent, Consistent, IdsAllocated, Memory
  <1>4. \A i \in JobId \ {nextID + 1} : jobs'[i] = jobs[i]
    BY <1>1 DEF SubmitBriefJob
  <1>5. Submitted(nextID + 1)
    BY <1>1, <1>2, <1>3 DEF SubmitBriefJob, Submitted
  <1>. QED
    BY <1>4, <1>5 DEF OneMove

\* ReplayJob queues one job again, with an enqueue call of its own.
LEMMA ReplayMoves ==
    ASSUME IInv, NEW j \in JobId, ReplayJob(j)
    PROVE  \A i \in JobId : OneMove(i)
  <1>1. jobs \in [JobId -> Job] /\ sending \in [JobId -> Nat]
    BY MemoryTyped DEF IInv, TypeOK, MemTyped
  <1>2. jobs' = [jobs EXCEPT ![j] = [jobs[j] EXCEPT !.status = "queued", !.attempt = 1,
                                                    !.lastError = FALSE]]
    BY <1>1 DEF ReplayJob
  <1>3. Replayed(j)
    BY <1>1, <1>2 DEF ReplayJob, Replayed
  <1>. QED
    BY <1>1, <1>2, <1>3 DEF OneMove

\* The success path of processBriefJob.
LEMMA ResultMoves ==
    ASSUME IInv, FinishResult
    PROVE  \A i \in JobId : OneMove(i)
  <1>. DEFINE j == worker.job
  <1>1. jobs \in [JobId -> Job]
    BY MemoryTyped DEF IInv, TypeOK, MemTyped
  <1>2. j \in JobId /\ jobs[j].status # "absent"
    BY HeldInOrder DEF FinishResult
  <1>3. CASE jobs[j].status = "canceled"
    BY <1>3 DEF FinishResult, OneMove
  <1>4. CASE jobs[j].status # "canceled" /\ isExpired(j)
    <2>1. SetStatus(j, "expired")
      BY <1>4 DEF FinishResult
    <2>. QED
      BY <1>2, <1>4, <2>1, SetStatusMoves
  <1>5. CASE jobs[j].status # "canceled" /\ ~isExpired(j)
    <2>1. /\ worker.pc = "executing"
          /\ jobs' = [jobs EXCEPT ![j].status = "succeeded", ![j].result = worker.req,
                                  ![j].lastError = FALSE]
      BY <1>5 DEF FinishResult
    <2>2. Succeeded(j)
      BY <1>1, <1>2, <1>5, <2>1 DEF Succeeded, Job
    <2>3. \A i \in JobId \ {j} : jobs'[i] = jobs[i]
      BY <1>1, <2>1
    <2>. QED
      BY <2>2, <2>3 DEF OneMove
  <1>. QED
    BY <1>3, <1>4, <1>5

\* The error path of processBriefJob.
LEMMA ErrorMoves ==
    ASSUME IInv, FinishError
    PROVE  \A i \in JobId : OneMove(i)
  <1>. DEFINE j == worker.job
  <1>1. jobs \in [JobId -> Job]
    BY MemoryTyped DEF IInv, TypeOK, MemTyped
  <1>2. j \in JobId /\ jobs[j].status # "absent"
    BY HeldInOrder DEF FinishError
  <1>3. \A i \in JobId \ {j} : jobs'[i] = jobs[i]
    BY <1>1 DEF FinishError
  <1>4. Moved(j)
    BY <1>1, <1>2 DEF FinishError, Moved, Job
  <1>. QED
    BY <1>3, <1>4 DEF OneMove

\* An expert event: a job that is live succeeds, fails or is canceled.
LEMMA EventMoves ==
    ASSUME IInv, NEW j \in JobId, NEW r \in Requests, NEW s, ExpertEvent(j, r, s)
    PROVE  \A i \in JobId : OneMove(i)
  <1>1. jobs \in [JobId -> Job]
    BY MemoryTyped DEF IInv, TypeOK, MemTyped
  <1>2. CASE jobs[j].status \notin Live
    BY <1>2 DEF ExpertEvent, state, OneMove
  <1>3. CASE jobs[j].status \in Live
    <2>1. s \in {"succeeded", "failed", "canceled"}
      BY <1>3, Zenon DEF ExpertEvent
    <2>2. CASE s = "succeeded"
      <3>1. PICK res \in Requests \cup {NoRequest} :
                /\ res = r \/ ("noresult" \in Faults /\ res = NoRequest)
                /\ jobs' = [jobs EXCEPT ![j].status = "succeeded", ![j].result = res,
                                        ![j].lastError = FALSE]
        BY <1>3, <2>2 DEF ExpertEvent
      <3>2. tasks[j][r] > 0
        BY DEF ExpertEvent
      <3>3. /\ jobs'[j].status = "succeeded" /\ jobs'[j].result = res
            /\ jobs'[j].req = jobs[j].req
            /\ \A i \in JobId \ {j} : jobs'[i] = jobs[i]
        BY <1>1, <3>1 DEF Job
      <3>4. Succeeded(j)
        BY <1>3, <3>1, <3>2, <3>3 DEF Succeeded, Live
      <3>. QED
        BY <3>3, <3>4 DEF OneMove
    <2>3. CASE s = "failed"
      <3>1. PICK e \in BOOLEAN :
                jobs' = [jobs EXCEPT ![j].status = "failed", ![j].lastError = e]
        BY <1>3, <2>3 DEF ExpertEvent
      <3>2. Moved(j)
        BY <1>1, <1>3, <3>1 DEF Moved, Job, Live
      <3>3. \A i \in JobId \ {j} : jobs'[i] = jobs[i]
        BY <1>1, <3>1
      <3>. QED
        BY <3>2, <3>3 DEF OneMove
    <2>4. CASE s = "canceled"
      <3>1. SetStatus(j, "canceled")
        BY <1>3, <2>4 DEF ExpertEvent
      <3>. QED
        BY <1>3, <3>1, SetStatusMoves DEF Live
    <2>. QED
      BY <2>1, <2>2, <2>3, <2>4
  <1>. QED
    BY <1>2, <1>3

\* Every step within one process is one of these moves for each job.
LEMMA ProcessMoves ==
    ASSUME IInv, [Next]_vars, ~Restart
    PROVE  \A i \in JobId : OneMove(i)
  <1>u. ASSUME UNCHANGED jobs
        PROVE  \A i \in JobId : OneMove(i)
    BY <1>u DEF OneMove
  <1>1. ASSUME NEW j \in JobId, expireJobIfNeeded(j) \/ CancelJob(j)
        PROVE  \A i \in JobId : OneMove(i)
    BY <1>1, SetStatusMoves DEF expireJobIfNeeded, CancelJob, Live
  <1>2. ASSUME NEW j \in JobId, StartJob(j)
        PROVE  \A i \in JobId : OneMove(i)
    BY <1>2, <1>u, SetStatusMoves DEF StartJob
  <1>3. CASE FinishAccepted
    <2>1. worker.job \in JobId /\ jobs[worker.job].status # "absent"
      BY <1>3, HeldInOrder DEF FinishAccepted
    <2>. QED
      BY <1>3, <1>u, <2>1, SetStatusMoves DEF FinishAccepted
  <1>4. ASSUME NEW j \in JobId,
               \/ Enqueue(j) \/ DropEnqueue(j) \/ DispatchWebhook(j)
               \/ \E r \in Requests : TaskEndsSilently(j, r)
        PROVE  UNCHANGED jobs
    BY <1>4 DEF Enqueue, DropEnqueue, DispatchWebhook, TaskEndsSilently, state
  <1>5. CASE RetryEnqueue \/ AckJob \/ RuntimeAccepts \/ Tick \/ LoadDone \/ UNCHANGED vars
    BY <1>5, <1>u DEF RetryEnqueue, AckJob, RuntimeAccepts, Tick, LoadDone, vars, state
  <1>. QED
    BY <1>1, <1>2, <1>3, <1>4, <1>5, <1>u, SubmitMoves, ReplayMoves, ResultMoves, ErrorMoves,
       EventMoves DEF Next, Poll, WorkerStep

-----------------------------------------------------------------------------
(***************************************************************************)
(* Results.                                                                *)
(***************************************************************************)

\* In a snapshot of the state, every succeeded job has its result.
HasResults(st) ==
    \A j \in JobId : st.jobs[j].status = "succeeded" => st.jobs[j].result # NoRequest

\* If no runtime leaves the result out of a succeeded event, the result of a
\* succeeded job can always be fetched: whatever else the store, the queue,
\* the clients and restarts do, and after any number of replays.
THEOREM SucceededAlwaysHasResult ==
    "noresult" \notin Faults /\ Spec => []SucceededHasResult
  <1>. SUFFICES ASSUME "noresult" \notin Faults
                PROVE  Spec => []SucceededHasResult
    OBVIOUS
  <1>. DEFINE RInv == HasResults(Memory) /\ HasResults(disk)
  <1>1. Init => RInv
    BY DEF Init, HasResults, Memory, emptyState, Absent
  <1>2. IInv /\ RInv /\ [Next]_vars => RInv'
    <2>1. SUFFICES ASSUME IInv, RInv, [Next]_vars
                   PROVE  RInv'
      OBVIOUS
    <2>2. HasResults(emptyState)
      BY DEF HasResults, emptyState, Absent
    <2>3. HasResults(Memory')
      <3>1. CASE Restart
        <4>1. PICK rec \in Recovered : jobs' = [j \in JobId |-> Requeued(rec.mem.jobs[j])]
          BY <3>1 DEF Restart
        <4>2. rec.mem \in {disk, emptyState}
          BY DEF Recovered
        <4>3. HasResults(rec.mem) /\ rec.mem \in State
          BY <2>1, <2>2, <4>2, EmptyStateOK DEF IInv, TypeOK
        <4>4. ASSUME NEW j \in JobId, jobs'[j].status = "succeeded"
              PROVE  jobs'[j].result # NoRequest
          <5>1. rec.mem.jobs[j] \in Job
            BY <4>3 DEF State
          <5>2. Requeued(rec.mem.jobs[j]) = rec.mem.jobs[j]
            BY <4>1, <4>4, <5>1 DEF Requeued, Job
          <5>. QED
            BY <4>1, <4>3, <4>4, <5>2 DEF HasResults
        <4>. QED
          BY <4>4 DEF HasResults, Memory
      <3>2. CASE ~Restart
        <4>1. ASSUME NEW j \in JobId, jobs'[j].status = "succeeded"
              PROVE  jobs'[j].result # NoRequest
          <5>1. OneMove(j)
            BY <2>1, <3>2, ProcessMoves
          <5>2. jobs[j].status = "succeeded" => jobs[j].result # NoRequest
            BY <2>1 DEF HasResults, Memory
          <5>3. jobs[j] \in Job
            BY <2>1, MemoryTyped DEF IInv, TypeOK, MemTyped
          <5>4. CASE Succeeded(j)
            <6>1. worker.pc = "executing" => worker.req \in Requests
              BY <2>1, HeldInOrder
            <6>. QED
              BY <5>4, <6>1, OrchestratorAssumption DEF Succeeded
          <5>5. ~Replayed(j)
            BY <4>1, <5>3 DEF Replayed, Job
          <5>. QED
            BY <4>1, <5>1, <5>2, <5>4, <5>5 DEF OneMove, Submitted, Moved
        <4>. QED
          BY <4>1 DEF HasResults, Memory
      <3>. QED
        BY <3>1, <3>2
    <2>4. HasResults(disk')
      BY <2>1, <2>2, <2>3, DiskStep
    <2>. QED
      BY <2>3, <2>4
  <1>3. RInv => SucceededHasResult
    BY DEF HasResults, Memory, SucceededHasResult
  <1>. QED
    BY <1>1, <1>2, <1>3, Invariance, PTL DEF Spec

\* With a durable store a restart leaves every job as it was, but for the
\* running ones.
LEMMA RestartRequeues ==
    ASSUME Faults \cap {"load", "lostfile"} = {}, IInv, Durable, Restart
    PROVE  /\ nextID' = nextID /\ idem' = idem /\ dlq' = dlq
           /\ jobs' = [j \in JobId |-> Requeued(jobs[j])]
  <1>1. /\ nextID' = disk.nextID /\ idem' = disk.idem /\ dlq' = disk.dlq
        /\ jobs' = [j \in JobId |-> Requeued(disk.jobs[j])]
    BY DEF Restart, Recovered
  <1>. QED
    BY <1>1 DEF Durable, Memory

\* Only an accepted task adds to the tasks of the runtimes.
LEMMA TasksGrow ==
    ASSUME IInv, [Next]_vars, NEW j \in JobId, NEW r \in Requests,
           tasks'[j][r] > 0, ~(tasks[j][r] > 0)
    PROVE  worker.pc = "executing" /\ worker.job = j /\ worker.req = r
  <1>1. tasks \in [JobId -> [Requests -> Nat]]
    BY DEF IInv, TypeOK
  <1>2. ASSUME NEW i \in JobId, NEW q \in Requests, tasks[i][q] > 0,
               tasks' = [tasks EXCEPT ![i][q] = @ - 1]
        PROVE  FALSE
    <2>1. CASE i = j /\ q = r
      BY <1>2, <2>1
    <2>2. CASE i # j \/ q # r
      BY <1>1, <1>2, <2>2
    <2>. QED
      BY <2>1, <2>2
  <1>3. ASSUME NEW i \in JobId, NEW q \in Requests,
               TaskEndsSilently(i, q) \/ \E s \in {"succeeded", "failed", "canceled"} :
                                            ExpertEvent(i, q, s)
        PROVE  FALSE
    BY <1>2, <1>3, Zenon DEF TaskEndsSilently, ExpertEvent
  <1>4. CASE RuntimeAccepts
    <2>1. /\ worker.pc = "executing"
          /\ tasks' = [tasks EXCEPT ![worker.job][worker.req] = @ + 1]
      BY <1>4 DEF RuntimeAccepts
    <2>2. worker.job \in JobId /\ worker.req \in Requests
      BY <2>1, HeldInOrder
    <2>. QED
      BY <1>1, <2>1, <2>2
  <1>5. tasks' # tasks
    OBVIOUS
  <1>6. ~ \E k \in Keys \cup {NoKey}, q \in Requests : SubmitBriefJob(k, q)
    BY <1>5 DEF SubmitBriefJob
  <1>7. ~ \E i \in JobId : \/ Poll(i) \/ CancelJob(i) \/ ReplayJob(i) \/ Enqueue(i)
                            \/ DropEnqueue(i) \/ DispatchWebhook(i) \/ StartJob(i)
    BY <1>5 DEF Poll, expireJobIfNeeded, CancelJob, ReplayJob, Enqueue, DropEnqueue,
                DispatchWebhook, StartJob
  <1>8. ~(FinishAccepted \/ FinishResult \/ FinishError \/ RetryEnqueue \/ AckJob)
    BY <1>5 DEF FinishAccepted, FinishResult, FinishError, RetryEnqueue, AckJob
  <1>9. ~(Tick \/ Restart \/ LoadDone \/ UNCHANGED vars)
    BY <1>5 DEF Tick, Restart, LoadDone, vars
  <1>. QED
    BY <1>3, <1>4, <1>6, <1>7, <1>8, <1>9 DEF Next, WorkerStep

\* A task of an expert runtime runs for the request of its job, and so does
\* the call of ExecuteBrief: what makes any late answer one for the right
\* request.
TasksMatch ==
    \A j \in JobId, r \in Requests :
        tasks[j][r] > 0 => j \in 1 .. nextID /\ jobs[j].req = r

\* Every step keeps the tasks on their jobs: they outlive a restart, and so do
\* the jobs.
LEMMA StepTasksMatch ==
    ASSUME IInv, TasksMatch, KeepsAccepted, [Next]_vars
    PROVE  TasksMatch'
  <1>1. \A j \in 1 .. nextID : j \in 1 .. nextID' /\ jobs'[j].req = jobs[j].req
    BY DEF KeepsAccepted
  <1>2. ASSUME NEW j \in JobId, NEW r \in Requests, tasks'[j][r] > 0
        PROVE  j \in 1 .. nextID /\ jobs[j].req = r
    <2>1. CASE tasks[j][r] > 0
      BY <2>1 DEF TasksMatch
    <2>2. CASE ~(tasks[j][r] > 0)
      <3>1. worker.pc = "executing" /\ worker.job = j /\ worker.req = r
        BY <1>2, <2>2, TasksGrow
      <3>. QED
        BY <3>1 DEF IInv, WorkerHoldsJob
    <2>. QED
      BY <2>1, <2>2
  <1>. QED
    BY <1>1, <1>2 DEF TasksMatch

\* Every step keeps the results of the jobs to their requests.
LEMMA StepResults ==
    ASSUME Faults \cap {"load", "lostfile"} = {}, IInv, Durable, TasksMatch,
           ResultMatchesRequest, [Next]_vars
    PROVE  ResultMatchesRequest'
  <1>1. jobs \in [JobId -> Job]
    BY MemoryTyped DEF IInv, TypeOK, MemTyped
  <1>2. ASSUME NEW j \in JobId
        PROVE  jobs'[j].result \in {NoRequest, jobs'[j].req}
    <2>1. jobs[j] \in Job /\ jobs[j].result \in {NoRequest, jobs[j].req}
      BY <1>1 DEF ResultMatchesRequest
    <2>2. CASE Restart
      <3>1. jobs'[j] = Requeued(jobs[j])
        BY <2>2, RestartRequeues
      <3>. QED
        BY <2>1, <3>1 DEF Requeued, Job
    <2>3. CASE ~Restart
      <3>1. OneMove(j)
        BY <2>3, ProcessMoves
      <3>2. CASE Succeeded(j)
        <4>1. worker.pc = "executing" => worker.req = jobs[worker.job].req
          BY DEF IInv, WorkerHoldsJob
        <4>2. \A r \in Requests : tasks[j][r] > 0 => jobs[j].req = r
          BY DEF TasksMatch
        <4>. QED
          BY <3>2, <4>1, <4>2 DEF Succeeded
      <3>3. CASE Replayed(j)
        BY <2>1, <3>3 DEF Replayed, Job
      <3>. QED
        BY <2>1, <3>1, <3>2, <3>3 DEF OneMove, Submitted, Moved
    <2>. QED
      BY <2>2, <2>3
  <1>. QED
    BY <1>2 DEF ResultMatchesRequest

\* With a store that neither fails nor loses its file, the result of a job was
\* computed for its own request: no answer of ExecuteBrief and no expert event,
\* however late and across however many restarts and replays, brings a job
\* the result of another request.
THEOREM ResultsMatch ==
    Faults \cap {"save", "load", "lostfile"} = {} /\ Spec => []ResultMatchesRequest
  <1>1. SUFFICES ASSUME Faults \cap {"save", "load", "lostfile"} = {}
                 PROVE  Spec => []ResultMatchesRequest
    OBVIOUS
  <1>2. /\ Faults \cap {"save", "load"} = {}
        /\ Faults \cap {"load", "lostfile"} = {}
    BY <1>1
  <1>3. Spec => []Durable
    BY <1>2, AlwaysDurable
  <1>4. Init => TasksMatch /\ ResultMatchesRequest
    BY DEF Init, TasksMatch, ResultMatchesRequest, emptyState, Absent
  <1>5. IInv /\ Durable /\ TasksMatch /\ ResultMatchesRequest /\ [Next]_vars
          => TasksMatch' /\ ResultMatchesRequest'
    BY <1>2, StepKeepsAccepted, StepTasksMatch, StepResults
  <1>. QED
    BY <1>3, <1>4, <1>5, Invariance, PTL DEF Spec

\* And a canceled job stays canceled, through every race with the worker, the
\* runtimes and the queue and through every restart, until a client replays
\* it.
THEOREM CanceledAlwaysSticks ==
    Faults \cap {"save", "load", "lostfile"} = {} /\ Spec => CanceledSticks
  <1>1. SUFFICES ASSUME Faults \cap {"save", "load", "lostfile"} = {}
                 PROVE  Spec => CanceledSticks
    OBVIOUS
  <1>2. /\ Faults \cap {"save", "load"} = {}
        /\ Faults \cap {"load", "lostfile"} = {}
    BY <1>1
  <1>3. Spec => []Durable
    BY <1>2, AlwaysDurable
  <1>. DEFINE Sticks == \A j \in JobId :
                jobs[j].status = "canceled" /\ jobs'[j].status # "canceled" =>
                  /\ jobs'[j] = [jobs[j] EXCEPT !.status = "queued", !.attempt = 1,
                                               !.lastError = FALSE]
                  /\ sending'[j] = sending[j] + 1
  <1>4. IInv /\ Durable /\ [Next]_vars => Sticks
    <2>1. SUFFICES ASSUME IInv, Durable, [Next]_vars, NEW j \in JobId,
                          jobs[j].status = "canceled", jobs'[j].status # "canceled"
                   PROVE  Replayed(j)
      BY DEF Replayed
    <2>2. CASE Restart
      BY <1>2, <2>1, <2>2, RestartRequeues DEF Requeued
    <2>3. CASE ~Restart
      <3>1. OneMove(j)
        BY <2>1, <2>3, ProcessMoves
      <3>. QED
        BY <2>1, <3>1 DEF OneMove, Submitted, Moved, Succeeded
    <2>. QED
      BY <2>2, <2>3
  <1>. QED
    BY <1>3, <1>4, Invariance, PTL DEF Spec, CanceledSticks

-----------------------------------------------------------------------------
(***************************************************************************)
(* The queue.                                                              *)
(***************************************************************************)

\* Job j is in the queue, is on its way there or comes back to it.
OnItsWay(j) ==
    InQueue(j) \/ sending[j] > 0 \/ pel[j] > 0 \/ (worker.pc = "retrying" /\ worker.job = j)

\* What an entry at the end adds, and what the oldest entry takes away.
LEMMA InQueueAfter ==
    ASSUME IInv, NEW i \in JobId, NEW j \in JobId
    PROVE  /\ queue' = Append(queue, j) => (InQueue(i)' <=> InQueue(i) \/ i = j)
           /\ queue # <<>> /\ Head(queue) = j /\ queue' = Tail(queue) /\ i # j
                => (InQueue(i)' <=> InQueue(i))
  <1>1. queue \in Seq(JobId) /\ Len(queue) \in Nat
    BY DEF IInv, TypeOK
  <1>2. ASSUME queue' = Append(queue, j)
        PROVE  InQueue(i)' <=> InQueue(i) \/ i = j
    <2>1. /\ Len(queue') = Len(queue) + 1 /\ queue'[Len(queue) + 1] = j
          /\ \A n \in 1 .. Len(queue) : queue'[n] = queue[n]
      BY <1>1, <1>2
    <2>2. 1 .. Len(queue') = (1 .. Len(queue)) \cup {Len(queue) + 1}
      BY <1>1, <2>1
    <2>. HIDE <1>2
    <2>. QED
      BY <2>1, <2>2 DEF InQueue
  <1>3. ASSUME queue # <<>>, Head(queue) = j, queue' = Tail(queue), i # j
        PROVE  InQueue(i)' <=> InQueue(i)
    <2>1. /\ Len(queue') = Len(queue) - 1 /\ queue[1] = j /\ Len(queue) >= 1
          /\ \A n \in 1 .. Len(queue) - 1 : queue'[n] = queue[n + 1]
      BY <1>1, <1>3
    <2>2. ASSUME NEW n \in 1 .. Len(queue), queue[n] = i
          PROVE  n - 1 \in 1 .. Len(queue') /\ queue'[n - 1] = i
      BY <1>1, <1>3, <2>1, <2>2
    <2>3. ASSUME NEW n \in 1 .. Len(queue'), queue'[n] = i
          PROVE  n + 1 \in 1 .. Len(queue) /\ queue[n + 1] = i
      BY <1>1, <2>1, <2>3
    <2>. QED
      BY <2>2, <2>3 DEF InQueue
  <1>. QED
    BY <1>2, <1>3

\* A step that leaves the queue alone, and the worker unless it was retrying.
LEMMA QuietKeepsWay ==
    ASSUME NEW j \in JobId, OnItsWay(j), UNCHANGED <<queue, pel, sending>>,
           worker.pc # "retrying" \/ UNCHANGED worker
    PROVE  OnItsWay(j)'
  BY DEF OnItsWay, InQueue

\* The first critical section of processBriefJob takes one entry, and the job
\* it was for is not queued any more.
LEMMA StartKeepsWay ==
    ASSUME IInv, NEW j \in JobId, StartJob(j), NEW i \in JobId
    PROVE  /\ i = j => jobs'[i].status # "queued"
           /\ i # j => jobs'[i] = jobs[i] /\ (OnItsWay(i) => OnItsWay(i)')
  <1>1. jobs \in [JobId -> Job] /\ pel \in [JobId -> Nat]
    BY MemoryTyped DEF IInv, TypeOK, MemTyped
  <1>2. worker.pc = "idle" /\ Dequeue(j) /\ UNCHANGED sending
    BY DEF StartJob
  <1>3. \/ UNCHANGED jobs /\ jobs[j].status \in {"absent", "canceled"}
        \/ SetStatus(j, "expired") \/ SetStatus(j, "running")
    BY DEF StartJob
  <1>4. jobs'[j].status # "queued" /\ (i # j => jobs'[i] = jobs[i])
    BY <1>1, <1>3 DEF SetStatus, Job
  <1>5. ASSUME i # j, OnItsWay(i)
        PROVE  OnItsWay(i)'
    <2>1. CASE OldestEntry(j)
      <3>1. /\ queue # <<>> /\ Head(queue) = j /\ queue' = Tail(queue) /\ UNCHANGED pel
        BY <2>1 DEF OldestEntry
      <3>2. InQueue(i)' <=> InQueue(i)
        BY <1>5, <3>1, InQueueAfter
      <3>. QED
        BY <1>2, <1>5, <3>1, <3>2 DEF OnItsWay
    <2>2. CASE claimPending(j)
      <3>1. pel' = [pel EXCEPT ![j] = @ - 1] /\ UNCHANGED queue
        BY <2>2 DEF claimPending
      <3>2. pel'[i] = pel[i]
        BY <1>1, <1>5, <3>1
      <3>. QED
        BY <1>2, <1>5, <3>1, <3>2 DEF OnItsWay, InQueue
    <2>. QED
      BY <1>2, <2>1, <2>2 DEF Dequeue
  <1>. QED
    BY <1>4, <1>5

\* A step whose enqueue calls succeed loses no job.
LEMMA StepNoJobLost ==
    ASSUME IInv, NoJobLost, ~EnqueueFails, [Next]_vars
    PROVE  NoJobLost'
  <1>. SUFFICES ASSUME NEW i \in JobId, jobs'[i].status = "queued"
                PROVE  OnItsWay(i)'
    BY DEF NoJobLost, OnItsWay
  <1>1. /\ jobs \in [JobId -> Job] /\ sending \in [JobId -> Nat] /\ pel \in [JobId -> Nat]
        /\ worker \in Worker
    BY MemoryTyped DEF IInv, TypeOK, MemTyped
  <1>2. jobs[i].status = "queued" => OnItsWay(i)
    BY DEF NoJobLost, OnItsWay
  <1>3. ASSUME NEW j \in JobId, NEW s \in {"running", "canceled", "expired"}, SetStatus(j, s)
        PROVE  jobs[i].status = "queued"
    BY <1>1, <1>3 DEF SetStatus, Job
  <1>4. ASSUME NEW j \in JobId, Poll(j) \/ CancelJob(j)
        PROVE  OnItsWay(i)'
    <2>1. UNCHANGED <<queue, pel, sending, worker>>
      BY <1>4 DEF Poll, expireJobIfNeeded, CancelJob, queues
    <2>2. jobs[i].status = "queued"
      BY <1>3, <1>4 DEF Poll, expireJobIfNeeded, CancelJob
    <2>. QED
      BY <1>2, <2>1, <2>2, QuietKeepsWay
  <1>5. ASSUME NEW j \in JobId, jobs' = [jobs EXCEPT ![j] = jobs'[j]],
               sending' = [sending EXCEPT ![j] = @ + 1], UNCHANGED <<queue, pel, worker>>
        PROVE  OnItsWay(i)'
    <2>1. CASE i = j
      BY <1>1, <1>5, <2>1 DEF OnItsWay
    <2>2. CASE i # j
      <3>1. sending'[i] = sending[i] /\ jobs[i].status = "queued"
        BY <1>1, <1>5, <2>2
      <3>. QED
        BY <1>2, <1>5, <3>1 DEF OnItsWay, InQueue
    <2>. QED
      BY <2>1, <2>2
  <1>6. ASSUME NEW k \in Keys \cup {NoKey}, NEW r \in Requests, SubmitBriefJob(k, r)
        PROVE  OnItsWay(i)'
    <2>1. nextID + 1 \in JobId
      <3>1. nextID \in Nat
        BY AllocatedInMap
      <3>. QED
        BY <1>6, <3>1, OrchestratorAssumption DEF SubmitBriefJob, JobId
    <2>2. /\ jobs' = [jobs EXCEPT ![nextID + 1] = jobs'[nextID + 1]]
          /\ sending' = [sending EXCEPT ![nextID + 1] = @ + 1]
          /\ UNCHANGED <<queue, pel, worker>>
      BY <1>1, <1>6, <2>1 DEF SubmitBriefJob
    <2>. QED
      BY <1>5, <2>1, <2>2
  <1>7. ASSUME NEW j \in JobId, ReplayJob(j)
        PROVE  OnItsWay(i)'
    <2>1. /\ jobs' = [jobs EXCEPT ![j] = jobs'[j]]
          /\ sending' = [sending EXCEPT ![j] = @ + 1]
          /\ UNCHANGED <<queue, pel, worker>>
      BY <1>1, <1>7 DEF ReplayJob
    <2>. QED
      BY <1>5, <2>1
  <1>8. ASSUME NEW j \in JobId, Enqueue(j)
        PROVE  OnItsWay(i)'
    <2>1. /\ queue' = Append(queue, j) /\ sending' = [sending EXCEPT ![j] = @ - 1]
          /\ UNCHANGED <<jobs, pel, worker>>
      BY <1>8 DEF Enqueue, state
    <2>2. InQueue(i)' <=> InQueue(i) \/ i = j
      BY <2>1, InQueueAfter
    <2>3. i # j => sending'[i] = sending[i]
      BY <1>1, <2>1
    <2>. QED
      BY <1>2, <2>1, <2>2, <2>3 DEF OnItsWay
  <1>9. ASSUME NEW j \in JobId, DropEnqueue(j)
        PROVE  OnItsWay(i)'
    BY <1>9 DEF DropEnqueue
  <1>10. ASSUME NEW j \in JobId,
                DispatchWebhook(j) \/ \E r \in Requests : TaskEndsSilently(j, r)
         PROVE  OnItsWay(i)'
    <2>1. UNCHANGED <<jobs, queue, pel, sending, worker>>
      BY <1>10 DEF DispatchWebhook, TaskEndsSilently, state, queues
    <2>. QED
      BY <1>2, <2>1, QuietKeepsWay
  <1>11. ASSUME NEW j \in JobId, NEW r \in Requests,
                NEW s \in {"succeeded", "failed", "canceled"}, ExpertEvent(j, r, s)
         PROVE  OnItsWay(i)'
    <2>1. UNCHANGED <<queue, pel, sending, worker>>
      BY <1>11, Zenon DEF ExpertEvent, queues
    <2>2. CASE jobs[j].status \notin Live
      <3>1. UNCHANGED jobs
        BY <1>11, <2>2, Zenon DEF ExpertEvent, state
      <3>. QED
        BY <1>2, <2>1, <3>1, QuietKeepsWay
    <2>3. CASE jobs[j].status \in Live
      <3>1. jobs'[i] = jobs[i] \/ jobs'[i].status = s
        <4>1. CASE s = "succeeded"
          <5>1. PICK res \in Requests \cup {NoRequest} :
                  jobs' = [jobs EXCEPT ![j].status = "succeeded", ![j].result = res,
                                       ![j].lastError = FALSE]
            BY <1>11, <2>3, <4>1 DEF ExpertEvent
          <5>. QED
            BY <1>1, <4>1, <5>1 DEF Job
        <4>2. CASE s = "failed"
          <5>1. PICK e \in BOOLEAN :
                  jobs' = [jobs EXCEPT ![j].status = "failed", ![j].lastError = e]
            BY <1>11, <2>3, <4>2 DEF ExpertEvent
          <5>. QED
            BY <1>1, <4>2, <5>1 DEF Job
        <4>3. CASE s = "canceled"
          <5>1. SetStatus(j, "canceled")
            BY <1>11, <2>3, <4>3 DEF ExpertEvent
          <5>. QED
            BY <1>1, <4>3, <5>1 DEF SetStatus, Job
        <4>. QED
          BY <1>11, <4>1, <4>2, <4>3
      <3>2. jobs[i].status = "queued"
        BY <1>11, <3>1
      <3>. QED
        BY <1>2, <2>1, <3>2, QuietKeepsWay
    <2>. QED
      BY <2>2, <2>3
  <1>12. ASSUME NEW j \in JobId, StartJob(j)
         PROVE  OnItsWay(i)'
    BY <1>2, <1>12, StartKeepsWay
  <1>13. CASE FinishAccepted
    <2>1. worker.pc = "accepted" /\ UNCHANGED <<queue, pel, sending>>
      BY <1>13 DEF FinishAccepted, queues
    <2>2. worker.job \in JobId
      BY <2>1, HeldInOrder
    <2>3. jobs[i].status = "queued"
      BY <1>3, <1>13, <2>2 DEF FinishAccepted
    <2>. QED
      BY <1>2, <2>1, <2>3, QuietKeepsWay
  <1>14. CASE FinishResult
    <2>1. worker.pc = "executing" /\ UNCHANGED <<queue, pel, sending>>
      BY <1>14 DEF FinishResult, queues
    <2>2. worker.job \in JobId
      BY <2>1, HeldInOrder
    <2>3. jobs[i].status = "queued"
      BY <1>1, <1>14, <2>2 DEF FinishResult, SetStatus, Job
    <2>. QED
      BY <1>2, <2>1, <2>3, QuietKeepsWay
  <1>15. CASE FinishError
    <2>1. worker.pc \in {"executing", "accepted"} /\ UNCHANGED <<queue, pel, sending>>
      BY <1>15 DEF FinishError, queues
    <2>2. worker.job \in JobId
      BY <2>1, HeldInOrder
    <2>3. jobs'[i] = jobs[i] \/ (i = worker.job /\ jobs[i].status = "queued")
          \/ (i = worker.job /\ worker' = [worker EXCEPT !.pc = "retrying"])
      BY <1>1, <1>15, <2>2 DEF FinishError, Job
    <2>4. CASE jobs[i].status = "queued"
      BY <1>2, <2>1, <2>4, QuietKeepsWay
    <2>5. CASE i = worker.job /\ worker' = [worker EXCEPT !.pc = "retrying"]
      BY <1>1, <2>5 DEF OnItsWay, Worker
    <2>. QED
      BY <2>3, <2>4, <2>5
  <1>16. CASE RetryEnqueue
    <2>1. /\ worker.pc = "retrying" /\ queue' = Append(queue, worker.job)
          /\ UNCHANGED <<jobs, pel, sending>>
      BY <1>16 DEF RetryEnqueue, state
    <2>2. worker.job \in JobId
      BY <2>1 DEF IInv, WorkerHoldsJob
    <2>3. InQueue(i)' <=> InQueue(i) \/ i = worker.job
      BY <2>1, <2>2, InQueueAfter
    <2>. QED
      BY <1>2, <2>1, <2>3 DEF OnItsWay
  <1>17. CASE AckJob
    <2>1. worker.pc = "done" /\ UNCHANGED <<jobs, queue, sending>> /\ worker.job \in JobId
      BY <1>17 DEF AckJob, state, IInv, WorkerHoldsJob
    <2>2. pel'[i] >= pel[i] /\ pel'[i] \in Nat
      BY <1>1, <1>17, <2>1 DEF AckJob
    <2>. QED
      BY <1>1, <1>2, <2>1, <2>2 DEF OnItsWay, InQueue
  <1>18. CASE RuntimeAccepts \/ LoadDone
    <2>1. worker.pc # "retrying" /\ UNCHANGED <<jobs, queue, pel, sending>>
      BY <1>18 DEF RuntimeAccepts, LoadDone, state, queues
    <2>. QED
      BY <1>2, <2>1, QuietKeepsWay
  <1>19. CASE Tick \/ UNCHANGED vars
    <2>1. UNCHANGED <<jobs, queue, pel, sending, worker>>
      BY <1>19 DEF Tick, vars, state, queues
    <2>. QED
      BY <1>2, <2>1, QuietKeepsWay
  <1>20. CASE Restart
    BY <1>20 DEF Restart, OnItsWay
  <1>. QED
    BY <1>4, <1>6, <1>7, <1>8, <1>9, <1>10, <1>11, <1>12, <1>13, <1>14, <1>15, <1>16, <1>17,
       <1>18, <1>19, <1>20 DEF Next, WorkerStep

\* Whatever the worker, the runtimes, the clients, the store and restarts do,
\* no queued job is lost as long as no state is reached in which an enqueue can
\* fail: a full channel, or a Redis whose XADD may fail.
THEOREM LostOnlyByFailedEnqueue == Spec /\ []~EnqueueFails => []NoJobLost
  <1>1. Init => NoJobLost
    BY DEF Init, NoJobLost, emptyState, Absent
  <1>2. IInv /\ NoJobLost /\ ~EnqueueFails /\ [Next]_vars => NoJobLost'
    BY StepNoJobLost
  <1>. QED
    BY <1>1, <1>2, Invariance, PTL DEF Spec

\* On a Redis stream whose XADD does not fail no job is lost, though every
\* acknowledgement, every save and the store's file may be.
THEOREM RedisLosesNoJob ==
    QueueKind = "redis" /\ "enqueue" \notin Faults /\ Spec => []NoJobLost
  <1>1. SUFFICES ASSUME QueueKind = "redis", "enqueue" \notin Faults
                 PROVE  Spec => []NoJobLost
    OBVIOUS
  <1>2. ~EnqueueFails
    BY <1>1 DEF EnqueueFails
  <1>3. Init => NoJobLost
    BY DEF Init, NoJobLost, emptyState, Absent
  <1>4. IInv /\ NoJobLost /\ [Next]_vars => NoJobLost'
    BY <1>2, StepNoJobLost
  <1>. QED
    BY <1>3, <1>4, Invariance, PTL DEF Spec

-----------------------------------------------------------------------------
(***************************************************************************)
(* The lifecycle.  Without replays, asynchronous answers, a queue that     *)
(* delivers an entry again and a store that fails, a job has at most one   *)
(* entry, and the status follows JobLifecycle.  Each of the four breaks    *)
(* it.                                                                     *)
(***************************************************************************)
Undisturbed ==
    /\ "replay" \notin ClientOps
    /\ "accepted" \notin Answers
    /\ QueueKind = "memory" \/ Faults \cap {"crash", "ack"} = {}
    /\ Faults \cap {"save", "load", "lostfile"} = {}

Executing(j) == worker.pc = "executing" /\ worker.job = j
Retrying(j) == worker.pc = "retrying" /\ worker.job = j

\* No entry is in the queue twice.
QueueOnce == \A x, y \in 1 .. Len(queue) : queue[x] = queue[y] => x = y

\* Nothing is delivered again and no runtime runs a task of its own.
NothingElse ==
    /\ worker.pc # "accepted"
    /\ \A j \in JobId : pel[j] = 0 /\ \A r \in Requests : tasks[j][r] = 0

\* A job is in one place, and its status is one it can have there; what is
\* expired is overdue, and so never started again.
JobOnce(j) ==
    /\ sending[j] \in {0, 1}
    /\ sending[j] = 1 => ~InQueue(j)
    /\ Executing(j) \/ Retrying(j) => sending[j] = 0 /\ ~InQueue(j)
    /\ sending[j] = 1 \/ InQueue(j) \/ Retrying(j) =>
          jobs[j].status \in {"queued", "canceled", "expired"}
    /\ Executing(j) => jobs[j].status \in {"running", "canceled", "expired"}
    /\ jobs[j].status = "expired" => now > jobs[j].expiresAt

OnceInv == NothingElse /\ QueueOnce /\ \A j \in JobId : JobOnce(j)

\* A step that moves job j nowhere but out of the way, and cancels or expires
\* it at most.
Aside(j) ==
    /\ sending'[j] \in {0, sending[j]}
    /\ InQueue(j)' => InQueue(j)
    /\ Executing(j)' => Executing(j)
    /\ Retrying(j)' => Retrying(j)
    /\ now' >= now /\ jobs'[j].expiresAt = jobs[j].expiresAt
    /\ \/ jobs'[j].status = jobs[j].status
       \/ jobs'[j].status = "canceled"
       \/ jobs'[j].status = "expired" /\ now > jobs[j].expiresAt

\* Such a step leaves the job in one place.
LEMMA AsideOnce ==
    ASSUME IInv, IInv', NEW j \in JobId, JobOnce(j), Aside(j)
    PROVE  JobOnce(j)'
  <1>1. now \in Nat /\ now' \in Nat /\ jobs[j].expiresAt \in Nat
    BY MemoryTyped DEF IInv, TypeOK, MemTyped, Job
  <1>. QED
    BY <1>1 DEF JobOnce, Aside

\* A new entry is not in the queue twice if it was not there before.
LEMMA AppendOnce ==
    ASSUME IInv, QueueOnce, NEW j \in JobId, ~InQueue(j), queue' = Append(queue, j)
    PROVE  QueueOnce'
  <1>1. queue \in Seq(JobId) /\ Len(queue) \in Nat
    BY DEF IInv, TypeOK
  <1>2. /\ Len(queue') = Len(queue) + 1 /\ queue'[Len(queue) + 1] = j
        /\ \A n \in 1 .. Len(queue) : queue'[n] = queue[n]
    BY <1>1
  <1>3. ASSUME NEW x \in 1 .. Len(queue'), NEW y \in 1 .. Len(queue'), queue'[x] = queue'[y]
        PROVE  x = y
    <2>1. CASE x \in 1 .. Len(queue) /\ y \in 1 .. Len(queue)
      BY <1>2, <1>3, <2>1 DEF QueueOnce
    <2>2. CASE x \notin 1 .. Len(queue) \/ y \notin 1 .. Len(queue)
      BY <1>1, <1>2, <1>3, <2>2 DEF InQueue
    <2>. QED
      BY <2>1, <2>2
  <1>. QED
    BY <1>3 DEF QueueOnce

\* The oldest entry is gone once it is taken.
LEMMA TakeOnce ==
    ASSUME IInv, QueueOnce, NEW j \in JobId, OldestEntry(j)
    PROVE  /\ QueueOnce' /\ InQueue(j) /\ ~InQueue(j)'
           /\ \A i \in JobId : InQueue(i)' => InQueue(i)
  <1>1. queue \in Seq(JobId) /\ Len(queue) \in Nat /\ queue # <<>>
        /\ Head(queue) = j /\ queue' = Tail(queue)
    BY DEF IInv, TypeOK, OldestEntry
  <1>2. /\ Len(queue') = Len(queue) - 1 /\ queue[1] = j /\ Len(queue) >= 1
        /\ \A n \in 1 .. Len(queue) - 1 : queue'[n] = queue[n + 1]
    BY <1>1
  <1>3. \A n \in 1 .. Len(queue) - 1 : n + 1 \in 1 .. Len(queue) /\ n + 1 # 1
    BY <1>1
  <1>4. InQueue(j) /\ ~InQueue(j)'
    BY <1>1, <1>2, <1>3 DEF InQueue, QueueOnce
  <1>5. \A i \in JobId : InQueue(i)' => InQueue(i)
    BY <1>2, <1>3 DEF InQueue
  <1>6. QueueOnce'
    <2>1. ASSUME NEW x \in 1 .. Len(queue'), NEW y \in 1 .. Len(queue'), queue'[x] = queue'[y]
          PROVE  x = y
      <3>1. x + 1 \in 1 .. Len(queue) /\ y + 1 \in 1 .. Len(queue) /\ queue[x + 1] = queue[y + 1]
        BY <1>2, <1>3, <2>1
      <3>2. x + 1 = y + 1
        BY <3>1 DEF QueueOnce
      <3>. QED
        BY <1>1, <1>2, <3>2
    <2>. QED
      BY <2>1 DEF QueueOnce
  <1>. QED
    BY <1>4, <1>5, <1>6

\* A step of job j, while the others only get out of the way.
LEMMA OneActs ==
    ASSUME IInv, IInv', OnceInv, NothingElse', QueueOnce', NEW j \in JobId, JobOnce(j)',
           \A i \in JobId \ {j} : Aside(i)
    PROVE  OnceInv'
  <1>1. \A i \in JobId : JobOnce(i)'
    BY AsideOnce DEF OnceInv
  <1>. QED
    BY <1>1 DEF OnceInv

\* A step in which every job only gets out of the way.
LEMMA AllAside ==
    ASSUME IInv, IInv', OnceInv, NothingElse', QueueOnce', \A i \in JobId : Aside(i)
    PROVE  OnceInv'
  <1>1. \A i \in JobId : JobOnce(i)'
    BY AsideOnce DEF OnceInv
  <1>. QED
    BY <1>1 DEF OnceInv

\* What a critical section that only sets a status does to the jobs.
LEMMA StatusSet ==
    ASSUME IInv, NEW j \in JobId, NEW s, SetStatus(j, s)
    PROVE  /\ \A i \in JobId \ {j} : jobs'[i] = jobs[i]
           /\ jobs'[j] = [jobs[j] EXCEPT !.status = s]
           /\ jobs'[j].status = s /\ jobs'[j].expiresAt = jobs[j].expiresAt
  <1>1. jobs \in [JobId -> Job]
    BY MemoryTyped DEF IInv, TypeOK, MemTyped
  <1>. QED
    BY <1>1 DEF SetStatus, Job

\* A step that changes no job, no queue and no clock is out of the way, if the
\* worker takes up nothing.
LEMMA StillAside ==
    ASSUME IInv, NEW i \in JobId, jobs'[i] = jobs[i], UNCHANGED now,
           sending'[i] \in {0, sending[i]}, InQueue(i)' => InQueue(i),
           Executing(i)' => Executing(i), Retrying(i)' => Retrying(i)
    PROVE  Aside(i)
  <1>1. now \in Nat
    BY DEF IInv, TypeOK
  <1>. QED
    BY <1>1 DEF Aside

\* expireJobIfNeeded and CancelJob leave the entry of the job where it is.
LEMMA SettleOnce ==
    ASSUME IInv, IInv', OnceInv, NEW j \in JobId, Poll(j) \/ CancelJob(j)
    PROVE  OnceInv'
  <1>1. now \in Nat
    BY DEF IInv, TypeOK
  <1>2. UNCHANGED <<queue, pel, sending, worker, tasks, now>>
    BY DEF Poll, expireJobIfNeeded, CancelJob, queues
  <1>3. \/ SetStatus(j, "canceled")
        \/ SetStatus(j, "expired") /\ now > jobs[j].expiresAt
    BY DEF Poll, expireJobIfNeeded, CancelJob, isExpired
  <1>4. \A i \in JobId \ {j} : jobs'[i] = jobs[i]
    BY <1>3, StatusSet
  <1>5. /\ jobs'[j].expiresAt = jobs[j].expiresAt
        /\ \/ jobs'[j].status = "canceled"
           \/ jobs'[j].status = "expired" /\ now > jobs[j].expiresAt
    BY <1>3, StatusSet
  <1>6. Aside(j)
    BY <1>1, <1>2, <1>5 DEF Aside, InQueue, Executing, Retrying
  <1>7. \A i \in JobId : Aside(i)
    BY <1>2, <1>4, <1>6, StillAside DEF InQueue, Executing, Retrying
  <1>8. NothingElse' /\ QueueOnce'
    BY <1>2 DEF OnceInv, NothingElse, QueueOnce
  <1>. QED
    BY <1>7, <1>8, AllAside

\* A submission: its id was nowhere.
LEMMA SubmitOnce ==
    ASSUME IInv, IInv', OnceInv, NEW k, NEW r \in Requests, SubmitBriefJob(k, r)
    PROVE  OnceInv'
  <1>1. jobs \in [JobId -> Job] /\ now \in Nat /\ nextID \in Nat /\ sending \in [JobId -> Nat]
    BY MemoryTyped DEF IInv, TypeOK, MemTyped
  <1>2. PICK n \in JobId : n = nextID + 1
    BY <1>1, OrchestratorAssumption DEF JobId, SubmitBriefJob
  <1>3. jobs[n].status = "absent"
    BY <1>1, <1>2 DEF IInv, StateConsistent, Consistent, IdsAllocated, Memory
  <1>4. /\ UNCHANGED <<queue, pel, worker, tasks, now>>
        /\ sending' = [sending EXCEPT ![n] = @ + 1]
        /\ jobs'[n].status = "queued"
        /\ \A i \in JobId \ {n} : jobs'[i] = jobs[i]
    BY <1>1, <1>2 DEF SubmitBriefJob
  <1>5. sending[n] = 0 /\ ~InQueue(n) /\ ~Executing(n) /\ ~Retrying(n)
    BY <1>3 DEF OnceInv, JobOnce
  <1>6. JobOnce(n)'
    <2>1. sending'[n] = 1
      BY <1>1, <1>4, <1>5
    <2>2. ~InQueue(n)' /\ ~Executing(n)' /\ ~Retrying(n)'
      BY <1>4, <1>5 DEF InQueue, Executing, Retrying
    <2>. QED
      BY <1>4, <2>1, <2>2 DEF JobOnce
  <1>7. ASSUME NEW i \in JobId \ {n}
        PROVE  Aside(i)
    <2>1. sending'[i] = sending[i]
      BY <1>1, <1>4
    <2>. QED
      BY <1>4, <2>1, StillAside DEF InQueue, Executing, Retrying
  <1>8. NothingElse' /\ QueueOnce'
    BY <1>4 DEF OnceInv, NothingElse, QueueOnce
  <1>. QED
    BY <1>6, <1>7, <1>8, OneActs

\* A step that changes neither jobs nor queue, while the worker stays or goes
\* on to something that holds no entry.
LEMMA QuietOnce ==
    ASSUME IInv, IInv', OnceInv, UNCHANGED <<jobs, queue, pel, sending, tasks>>,
           now' = now \/ now' = now + 1,
           worker' = worker \/ worker'.pc \in {"idle", "done"}
    PROVE  OnceInv'
  <1>1. now \in Nat
    BY DEF IInv, TypeOK
  <1>2. now' >= now
    BY <1>1
  <1>3. \A i \in JobId : Aside(i)
    BY <1>2 DEF Aside, InQueue, Executing, Retrying
  <1>4. NothingElse' /\ QueueOnce'
    BY DEF OnceInv, NothingElse, QueueOnce
  <1>. QED
    BY <1>3, <1>4, AllAside

\* An enqueue call moves its entry into the queue, or drops it.
LEMMA EnqueueOnce ==
    ASSUME IInv, IInv', OnceInv, NEW j \in JobId, Enqueue(j) \/ DropEnqueue(j)
    PROVE  OnceInv'
  <1>1. sending \in [JobId -> Nat]
    BY DEF IInv, TypeOK
  <1>2. /\ UNCHANGED <<jobs, pel, worker, tasks, now>> /\ sending[j] > 0
        /\ sending' = [sending EXCEPT ![j] = @ - 1]
        /\ queue' = Append(queue, j) \/ queue' = queue
    BY DEF Enqueue, DropEnqueue, state
  <1>3. /\ sending[j] = 1 /\ ~InQueue(j) /\ ~Executing(j) /\ ~Retrying(j)
        /\ jobs[j].status \in {"queued", "canceled", "expired"}
        /\ jobs[j].status = "expired" => now > jobs[j].expiresAt
    BY <1>2 DEF OnceInv, JobOnce
  <1>4. sending'[j] = 0 /\ \A i \in JobId \ {j} : sending'[i] = sending[i]
    BY <1>1, <1>2, <1>3
  <1>5. \A i \in JobId \ {j} : InQueue(i)' => InQueue(i)
    <2>1. CASE queue' = queue
      BY <2>1 DEF InQueue
    <2>2. CASE queue' = Append(queue, j)
      BY <2>2, InQueueAfter
    <2>. QED
      BY <1>2, <2>1, <2>2
  <1>6. \A i \in JobId \ {j} : Aside(i)
    BY <1>2, <1>4, <1>5, StillAside DEF Executing, Retrying
  <1>7. ~Executing(j)' /\ ~Retrying(j)'
    BY <1>2, <1>3 DEF Executing, Retrying
  <1>8. JobOnce(j)'
    BY <1>2, <1>3, <1>4, <1>7 DEF JobOnce
  <1>9. NothingElse'
    BY <1>2 DEF OnceInv, NothingElse
  <1>10. QueueOnce'
    <2>1. CASE queue' = queue
      BY <2>1 DEF QueueOnce, OnceInv
    <2>2. CASE queue' = Append(queue, j)
      BY <1>3, <2>2, AppendOnce DEF OnceInv
    <2>. QED
      BY <1>2, <2>1, <2>2
  <1>. QED
    BY <1>6, <1>8, <1>9, <1>10, OneActs

\* What the status of a job may do in one step of the abstract machine.
Legal(j) ==
    \/ jobs'[j].status = jobs[j].status
    \/ jobs[j].status = "absent" /\ jobs'[j].status = "queued"
    \/ jobs[j].status = "queued" /\ jobs'[j].status = "running"
    \/ jobs[j].status = "running" /\ jobs'[j].status \in {"succeeded", "failed", "queued"}
    \/ jobs[j].status \in Live /\ jobs'[j].status \in {"canceled", "expired"}

\* The first critical section of processBriefJob: the entry it takes is the
\* only one of its job, so that the job it runs is a queued one.
LEMMA StartOnce ==
    ASSUME IInv, IInv', OnceInv, NEW j \in JobId, StartJob(j)
    PROVE  OnceInv' /\ Legal(j) /\ \A i \in JobId \ {j} : jobs'[i] = jobs[i]
  <1>1. now \in Nat /\ jobs[j].expiresAt \in Nat
    BY MemoryTyped DEF IInv, TypeOK, MemTyped, Job
  <1>2. /\ worker.pc = "idle" /\ UNCHANGED <<sending, tasks, now>>
        /\ \/ /\ jobs[j].status \in {"absent", "canceled"}
              /\ worker'.pc = "done" /\ UNCHANGED jobs
           \/ /\ jobs[j].status \notin {"absent", "canceled"}
              /\ now > jobs[j].expiresAt
              /\ SetStatus(j, "expired") /\ worker'.pc = "done"
           \/ /\ jobs[j].status \notin {"absent", "canceled"}
              /\ ~(now > jobs[j].expiresAt)
              /\ SetStatus(j, "running")
              /\ worker' = [pc |-> "executing", job |-> j, req |-> jobs[j].req]
    <2>1. worker \in Worker
      BY DEF IInv, TypeOK
    <2>. QED
      BY <2>1 DEF StartJob, isExpired, Worker
  <1>3. OldestEntry(j)
    BY DEF StartJob, Dequeue, claimPending, OnceInv, NothingElse
  <1>4. /\ QueueOnce' /\ InQueue(j) /\ ~InQueue(j)'
        /\ \A i \in JobId : InQueue(i)' => InQueue(i)
    BY <1>3, TakeOnce DEF OnceInv
  <1>5. /\ sending[j] = 0 /\ jobs[j].status \in {"queued", "canceled", "expired"}
        /\ jobs[j].status = "expired" => now > jobs[j].expiresAt
    BY <1>4 DEF OnceInv, JobOnce
  <1>6. \A i \in JobId \ {j} : jobs'[i] = jobs[i]
    BY <1>2, StatusSet
  <1>7. \/ jobs'[j] = jobs[j] /\ worker'.pc = "done"
        \/ /\ jobs'[j].status = "expired" /\ now > jobs[j].expiresAt
           /\ jobs[j].status # "canceled"
           /\ jobs'[j].expiresAt = jobs[j].expiresAt /\ worker'.pc = "done"
        \/ /\ jobs[j].status = "queued" /\ jobs'[j].status = "running"
           /\ worker'.pc = "executing" /\ worker'.job = j
    <2>1. CASE UNCHANGED jobs /\ worker'.pc = "done"
      BY <2>1
    <2>2. CASE /\ SetStatus(j, "expired") /\ worker'.pc = "done" /\ now > jobs[j].expiresAt
               /\ jobs[j].status # "canceled"
      BY <2>2, StatusSet
    <2>3. CASE /\ SetStatus(j, "running") /\ ~(now > jobs[j].expiresAt)
               /\ jobs[j].status # "canceled"
               /\ worker' = [pc |-> "executing", job |-> j, req |-> jobs[j].req]
      <3>1. jobs'[j].status = "running"
        BY <2>3, StatusSet
      <3>. QED
        BY <1>5, <2>3, <3>1
    <2>. QED
      BY <1>2, <2>1, <2>2, <2>3
  <1>8. JobOnce(j)'
    BY <1>2, <1>4, <1>5, <1>7 DEF JobOnce, Executing, Retrying
  <1>9. \A i \in JobId \ {j} : Aside(i)
    <2>1. ASSUME NEW i \in JobId \ {j}
          PROVE  ~Executing(i)' /\ ~Retrying(i)'
      BY <1>7, <2>1 DEF Executing, Retrying
    <2>. QED
      BY <1>2, <1>4, <1>6, <2>1, StillAside
  <1>10. NothingElse'
    BY <1>2, <1>3, <1>7 DEF OnceInv, NothingElse, OldestEntry
  <1>11. Legal(j)
    BY <1>5, <1>7 DEF Legal, Live
  <1>. QED
    BY <1>4, <1>6, <1>8, <1>9, <1>10, <1>11, OneActs

\* The second critical section of processBriefJob, after a result.
LEMMA ResultOnce ==
    ASSUME IInv, IInv', OnceInv, FinishResult
    PROVE  /\ OnceInv'
           /\ \E j \in JobId : Legal(j) /\ \A i \in JobId \ {j} : jobs'[i] = jobs[i]
  <1>1. worker \in Worker /\ jobs \in [JobId -> Job] /\ now \in Nat
    BY MemoryTyped DEF IInv, TypeOK, MemTyped
  <1>2. PICK j \in JobId : j = worker.job
    <2>1. worker.job \in 1 .. nextID /\ nextID \in 0 .. MaxJobs /\ MaxJobs \in Nat
      BY MemoryTyped, OrchestratorAssumption DEF IInv, TypeOK, MemTyped, WorkerHoldsJob, FinishResult
    <2>. QED
      BY <2>1 DEF JobId
  <1>3. /\ worker.pc = "executing" /\ UNCHANGED <<queue, pel, sending, tasks, now>>
        /\ worker'.pc = "done"
    BY <1>1 DEF FinishResult, queues, Worker
  <1>4. \/ jobs[j].status = "canceled" /\ UNCHANGED jobs
        \/ /\ jobs[j].status # "canceled"
           /\ now > jobs[j].expiresAt /\ SetStatus(j, "expired")
        \/ /\ jobs[j].status # "canceled"
           /\ ~(now > jobs[j].expiresAt)
           /\ jobs' = [jobs EXCEPT ![j].status = "succeeded", ![j].result = worker.req,
                                   ![j].lastError = FALSE]
    BY <1>2 DEF FinishResult, isExpired
  <1>5. /\ sending[j] = 0 /\ ~InQueue(j) /\ jobs[j].status \in {"running", "canceled", "expired"}
        /\ jobs[j].status = "expired" => now > jobs[j].expiresAt
    BY <1>2, <1>3 DEF OnceInv, JobOnce, Executing
  <1>6. \A i \in JobId \ {j} : jobs'[i] = jobs[i]
    <2>1. CASE UNCHANGED jobs \/ SetStatus(j, "expired")
      BY <2>1, StatusSet
    <2>2. CASE jobs' = [jobs EXCEPT ![j].status = "succeeded", ![j].result = worker.req,
                                    ![j].lastError = FALSE]
      BY <1>1, <2>2
    <2>. QED
      BY <1>4, <2>1, <2>2
  <1>7. \/ jobs'[j].status = "canceled" /\ jobs[j].status = "canceled"
        \/ /\ now > jobs[j].expiresAt /\ jobs'[j].status = "expired"
           /\ jobs'[j].expiresAt = jobs[j].expiresAt /\ jobs[j].status # "canceled"
        \/ jobs[j].status = "running" /\ jobs'[j].status = "succeeded"
    <2>1. CASE UNCHANGED jobs /\ jobs[j].status = "canceled"
      BY <2>1
    <2>2. CASE /\ SetStatus(j, "expired") /\ now > jobs[j].expiresAt
               /\ jobs[j].status # "canceled"
      BY <2>2, StatusSet
    <2>3. CASE /\ jobs[j].status # "canceled" /\ ~(now > jobs[j].expiresAt)
               /\ jobs' = [jobs EXCEPT ![j].status = "succeeded", ![j].result = worker.req,
                                       ![j].lastError = FALSE]
      <3>1. jobs'[j].status = "succeeded"
        BY <1>1, <2>3 DEF Job
      <3>. QED
        BY <1>5, <2>3, <3>1
    <2>. QED
      BY <1>4, <2>1, <2>2, <2>3
  <1>8. JobOnce(j)'
    BY <1>3, <1>5, <1>7 DEF JobOnce, Executing, Retrying, InQueue
  <1>9. \A i \in JobId \ {j} : Aside(i)
    BY <1>3, <1>6, StillAside DEF Executing, Retrying, InQueue
  <1>10. NothingElse' /\ QueueOnce'
    BY <1>3 DEF OnceInv, NothingElse, QueueOnce
  <1>11. Legal(j)
    BY <1>5, <1>7 DEF Legal, Live
  <1>. QED
    BY <1>6, <1>8, <1>9, <1>10, <1>11, OneActs

\* The second critical section of processBriefJob, after an error.
LEMMA ErrorOnce ==
    ASSUME IInv, IInv', OnceInv, FinishError
    PROVE  /\ OnceInv'
           /\ \E j \in JobId : Legal(j) /\ \A i \in JobId \ {j} : jobs'[i] = jobs[i]
  <1>1. worker \in Worker /\ jobs \in [JobId -> Job] /\ now \in Nat
    BY MemoryTyped DEF IInv, TypeOK, MemTyped
  <1>2. worker.pc = "executing"
    BY DEF FinishError, OnceInv, NothingElse
  <1>3. PICK j \in JobId : j = worker.job
    <2>1. worker.job \in 1 .. nextID /\ nextID \in 0 .. MaxJobs /\ MaxJobs \in Nat
      BY <1>2, MemoryTyped, OrchestratorAssumption DEF IInv, TypeOK, MemTyped, WorkerHoldsJob
    <2>. QED
      BY <2>1 DEF JobId
  <1>4. /\ UNCHANGED <<queue, pel, sending, tasks, now>>
        /\ worker'.pc \in {"done", "retrying"} /\ worker'.job = j
    BY <1>1, <1>3 DEF FinishError, queues, Worker
  <1>5. /\ sending[j] = 0 /\ ~InQueue(j) /\ jobs[j].status \in {"running", "canceled", "expired"}
        /\ jobs[j].status = "expired" => now > jobs[j].expiresAt
    BY <1>2, <1>3 DEF OnceInv, JobOnce, Executing
  <1>6. /\ \A i \in JobId \ {j} : jobs'[i] = jobs[i]
        /\ jobs'[j].expiresAt = jobs[j].expiresAt
        /\ \/ /\ jobs[j].status = "canceled" /\ jobs'[j].status = "canceled"
              /\ worker'.pc = "done"
           \/ /\ jobs[j].status # "canceled" /\ now > jobs[j].expiresAt
              /\ jobs'[j].status = "expired" /\ worker'.pc = "done"
           \/ /\ jobs[j].status # "canceled" /\ ~(now > jobs[j].expiresAt)
              /\ jobs'[j].status = "queued" /\ worker'.pc = "retrying"
           \/ /\ jobs[j].status # "canceled" /\ ~(now > jobs[j].expiresAt)
              /\ jobs'[j].status = "failed" /\ worker'.pc = "done"
    <2>1. CASE /\ jobs[j].status = "canceled"
               /\ jobs' = [jobs EXCEPT ![j].lastError = TRUE]
               /\ worker' = [worker EXCEPT !.pc = "done"]
      BY <1>1, <2>1 DEF Job, Worker
    <2>2. CASE /\ jobs[j].status # "canceled" /\ now > jobs[j].expiresAt
               /\ jobs' = [jobs EXCEPT ![j].status = "expired", ![j].lastError = TRUE]
               /\ worker' = [worker EXCEPT !.pc = "done"]
      BY <1>1, <2>2 DEF Job, Worker
    <2>3. CASE /\ jobs[j].status # "canceled" /\ ~(now > jobs[j].expiresAt)
               /\ jobs' = [jobs EXCEPT ![j].status = "queued", ![j].lastError = TRUE,
                                       ![j].attempt = @ + 1]
               /\ worker' = [worker EXCEPT !.pc = "retrying"]
      BY <1>1, <2>3 DEF Job, Worker
    <2>4. CASE /\ jobs[j].status # "canceled" /\ ~(now > jobs[j].expiresAt)
               /\ jobs' = [jobs EXCEPT ![j].status = "failed", ![j].lastError = TRUE]
               /\ worker' = [worker EXCEPT !.pc = "done"]
      BY <1>1, <2>4 DEF Job, Worker
    <2>. QED
      BY <1>3, <2>1, <2>2, <2>3, <2>4 DEF FinishError, isExpired
  <1>7. jobs[j].status # "canceled" /\ ~(now > jobs[j].expiresAt) => jobs[j].status = "running"
    BY <1>5
  <1>8. JobOnce(j)'
    BY <1>4, <1>5, <1>6 DEF JobOnce, Executing, Retrying, InQueue
  <1>9. \A i \in JobId \ {j} : Aside(i)
    BY <1>4, <1>6, StillAside DEF Executing, Retrying, InQueue
  <1>10. NothingElse' /\ QueueOnce'
    BY <1>4 DEF OnceInv, NothingElse, QueueOnce
  <1>11. Legal(j)
    BY <1>5, <1>6, <1>7 DEF Legal, Live
  <1>. QED
    BY <1>6, <1>8, <1>9, <1>10, <1>11, OneActs

\* The worker enqueues its retry, or drops it.
LEMMA RetryOnce ==
    ASSUME IInv, IInv', OnceInv, RetryEnqueue
    PROVE  OnceInv'
  <1>1. worker \in Worker
    BY DEF IInv, TypeOK
  <1>2. PICK j \in JobId : j = worker.job
    BY DEF IInv, WorkerHoldsJob, RetryEnqueue
  <1>3. /\ UNCHANGED <<jobs, pel, sending, tasks, now>>
        /\ worker.pc = "retrying" /\ worker'.pc = "done"
        /\ queue' = queue \/ queue' = Append(queue, j)
    BY <1>1, <1>2 DEF RetryEnqueue, state, Worker
  <1>4. /\ sending[j] = 0 /\ ~InQueue(j)
        /\ jobs[j].status \in {"queued", "canceled", "expired"}
        /\ jobs[j].status = "expired" => now > jobs[j].expiresAt
    BY <1>2, <1>3 DEF OnceInv, JobOnce, Retrying
  <1>5. \A i \in JobId \ {j} : InQueue(i)' => InQueue(i)
    <2>1. CASE queue' = queue
      BY <2>1 DEF InQueue
    <2>2. CASE queue' = Append(queue, j)
      BY <2>2, InQueueAfter
    <2>. QED
      BY <1>3, <2>1, <2>2
  <1>6. \A i \in JobId \ {j} : Aside(i)
    BY <1>3, <1>5, StillAside DEF Executing, Retrying
  <1>7. JobOnce(j)'
    BY <1>3, <1>4 DEF JobOnce, Executing, Retrying
  <1>8. NothingElse'
    BY <1>3 DEF OnceInv, NothingElse
  <1>9. QueueOnce'
    <2>1. CASE queue' = queue
      BY <2>1 DEF QueueOnce, OnceInv
    <2>2. CASE queue' = Append(queue, j)
      BY <1>4, <2>2, AppendOnce DEF OnceInv
    <2>. QED
      BY <1>3, <2>1, <2>2
  <1>. QED
    BY <1>6, <1>7, <1>8, <1>9, OneActs

\* A restart with the memory queue: exactly the queued jobs are enqueued.
LEMMA RestartOnce ==
    ASSUME Undisturbed, IInv, IInv', Durable, OnceInv, Restart
    PROVE  /\ OnceInv'
           /\ jobs' = [j \in JobId |-> Requeued(jobs[j])]
  <1>1. jobs \in [JobId -> Job] /\ now \in Nat
    BY MemoryTyped DEF IInv, TypeOK, MemTyped
  <1>2. jobs' = [j \in JobId |-> Requeued(jobs[j])]
    <2>1. Faults \cap {"load", "lostfile"} = {}
      BY DEF Undisturbed
    <2>. QED
      BY <2>1, RestartRequeues
  <1>3. QueueKind = "memory"
    BY DEF Undisturbed, Restart
  <1>4. /\ queue' = <<>> /\ UNCHANGED <<pel, tasks, now>> /\ worker'.pc = "loading"
        /\ sending' = [j \in JobId |-> IF jobs'[j].status = "queued" THEN 1 ELSE 0]
    BY <1>3 DEF Restart, Loading
  <1>5. ASSUME NEW j \in JobId
        PROVE  JobOnce(j)'
    <2>1. ~InQueue(j)' /\ ~Executing(j)' /\ ~Retrying(j)'
      BY <1>4 DEF InQueue, Executing, Retrying
    <2>2. sending'[j] = IF jobs'[j].status = "queued" THEN 1 ELSE 0
      BY <1>4
    <2>3. /\ jobs'[j].status = "expired" => jobs[j].status = "expired"
          /\ jobs'[j].expiresAt = jobs[j].expiresAt
      BY <1>1, <1>2 DEF Requeued, Job
    <2>4. jobs[j].status = "expired" => now > jobs[j].expiresAt
      BY DEF OnceInv, JobOnce
    <2>. QED
      BY <1>4, <2>1, <2>2, <2>3, <2>4 DEF JobOnce
  <1>6. NothingElse' /\ QueueOnce'
    BY <1>4 DEF OnceInv, NothingElse, QueueOnce
  <1>. QED
    BY <1>2, <1>5, <1>6 DEF OnceInv

\* One job makes a legal move, or a restart requeues the running ones.
Follows ==
    \/ UNCHANGED jobs
    \/ \E j \in JobId : Legal(j) /\ \A i \in JobId \ {j} : jobs'[i] = jobs[i]
    \/ jobs' = [j \in JobId |-> Requeued(jobs[j])]

\* Every step of an undisturbed orchestrator.
LEMMA StepOnce ==
    ASSUME Undisturbed, IInv, IInv', Durable, OnceInv, [Next]_vars
    PROVE  OnceInv' /\ Follows
  <1>1. ASSUME NEW k, NEW r \in Requests, SubmitBriefJob(k, r)
        PROVE  Follows
    <2>1. jobs \in [JobId -> Job] /\ nextID \in Nat
      BY MemoryTyped DEF IInv, TypeOK, MemTyped
    <2>2. PICK n \in JobId : n = nextID + 1
      BY <1>1, <2>1, OrchestratorAssumption DEF JobId, SubmitBriefJob
    <2>3. jobs[n].status = "absent"
      BY <2>1, <2>2 DEF IInv, StateConsistent, Consistent, IdsAllocated, Memory
    <2>4. jobs'[n].status = "queued" /\ \A i \in JobId \ {n} : jobs'[i] = jobs[i]
      BY <1>1, <2>1, <2>2 DEF SubmitBriefJob
    <2>. QED
      BY <2>3, <2>4 DEF Follows, Legal
  <1>2. ASSUME NEW j \in JobId, Poll(j) \/ CancelJob(j)
        PROVE  Follows
    <2>1. jobs[j].status \in Live /\ (SetStatus(j, "canceled") \/ SetStatus(j, "expired"))
      BY <1>2 DEF Poll, expireJobIfNeeded, CancelJob
    <2>2. /\ jobs'[j].status \in {"canceled", "expired"}
          /\ \A i \in JobId \ {j} : jobs'[i] = jobs[i]
      BY <2>1, StatusSet
    <2>. QED
      BY <2>1, <2>2 DEF Follows, Legal
  <1>3. ASSUME NEW j \in JobId, NEW r \in Requests,
               TaskEndsSilently(j, r) \/ \E s \in {"succeeded", "failed", "canceled"} :
                                            ExpertEvent(j, r, s)
        PROVE  FALSE
    <2>1. tasks[j][r] > 0
      BY <1>3, Zenon DEF TaskEndsSilently, ExpertEvent
    <2>. QED
      BY <2>1 DEF OnceInv, NothingElse
  <1>4. ~RuntimeAccepts /\ ~FinishAccepted
    BY DEF Undisturbed, RuntimeAccepts, FinishAccepted, OnceInv, NothingElse
  <1>5. ASSUME \/ \E j \in JobId : DispatchWebhook(j)
               \/ AckJob \/ Tick \/ LoadDone \/ UNCHANGED vars
        PROVE  OnceInv' /\ Follows
    <2>1. /\ UNCHANGED <<jobs, queue, sending, tasks>>
          /\ now' = now \/ now' = now + 1
          /\ worker' = worker \/ worker'.pc \in {"idle", "done"}
      BY <1>5 DEF DispatchWebhook, AckJob, Tick, LoadDone, vars, state, queues, Idle
    <2>2. UNCHANGED pel
      BY <1>5 DEF Undisturbed, DispatchWebhook, AckJob, Tick, LoadDone, vars, queues
    <2>. QED
      BY <2>1, <2>2, QuietOnce DEF Follows
  <1>6. ASSUME NEW j \in JobId, Enqueue(j) \/ DropEnqueue(j)
        PROVE  Follows
    BY <1>6 DEF Enqueue, DropEnqueue, state, Follows
  <1>7. RetryEnqueue => Follows
    BY DEF RetryEnqueue, state, Follows
  <1>8. \A j \in JobId : ~ReplayJob(j)
    BY DEF Undisturbed, ReplayJob
  <1>9. CASE \/ \E k \in Keys \cup {NoKey}, r \in Requests : SubmitBriefJob(k, r)
             \/ \E j \in JobId : Poll(j) \/ CancelJob(j) \/ Enqueue(j) \/ DropEnqueue(j)
             \/ RetryEnqueue
    BY <1>1, <1>2, <1>6, <1>7, <1>9, SubmitOnce, SettleOnce, EnqueueOnce, RetryOnce
  <1>10. CASE (\E j \in JobId : StartJob(j)) \/ FinishResult \/ FinishError \/ Restart
    BY <1>10, StartOnce, ResultOnce, ErrorOnce, RestartOnce DEF Follows
  <1>. QED
    BY <1>3, <1>4, <1>5, <1>8, <1>9, <1>10 DEF Next, WorkerStep

StatusOf == [j \in JobId |-> jobs[j].status]

\* Such a step is a step of the abstract machine, or none.
LEMMA FollowsStep ==
    ASSUME IInv, IInv', Follows
    PROVE  [Lifecycle!Next]_StatusOf
  <1>1. jobs \in [JobId -> Job]
    BY MemoryTyped DEF IInv, TypeOK, MemTyped
  <1>2. CASE UNCHANGED jobs
    BY <1>2 DEF StatusOf
  <1>3. CASE jobs' = [j \in JobId |-> Requeued(jobs[j])]
    <2>1. \A j \in JobId : jobs'[j].status =
                             IF jobs[j].status = "running" THEN "queued" ELSE jobs[j].status
      BY <1>1, <1>3 DEF Requeued, Job
    <2>2. Lifecycle!Recover
      BY <2>1 DEF Lifecycle!Recover
    <2>. QED
      BY <2>2 DEF Lifecycle!Next
  <1>4. ASSUME NEW j \in JobId, Legal(j), \A i \in JobId \ {j} : jobs'[i] = jobs[i]
        PROVE  [Lifecycle!Next]_StatusOf
    <2>1. StatusOf' = [StatusOf EXCEPT ![j] = jobs'[j].status]
      BY <1>4 DEF StatusOf
    <2>2. StatusOf[j] = jobs[j].status
      BY DEF StatusOf
    <2>3. \/ StatusOf' = StatusOf
          \/ Lifecycle!Submit(j) \/ Lifecycle!Run(j) \/ Lifecycle!Finish(j)
          \/ Lifecycle!Retry(j) \/ Lifecycle!Abandon(j)
      <3>1. CASE jobs'[j].status = jobs[j].status
        BY <2>1, <3>1 DEF StatusOf
      <3>2. CASE jobs[j].status = "absent" /\ jobs'[j].status = "queued"
        BY <2>1, <2>2, <3>2 DEF StatusOf, Lifecycle!Submit
      <3>3. CASE jobs[j].status = "queued" /\ jobs'[j].status = "running"
        BY <2>1, <2>2, <3>3 DEF StatusOf, Lifecycle!Run
      <3>4. CASE jobs[j].status = "running" /\ jobs'[j].status = "queued"
        BY <2>1, <2>2, <3>4 DEF StatusOf, Lifecycle!Retry
      <3>5. CASE jobs[j].status = "running" /\ jobs'[j].status \in {"succeeded", "failed"}
        BY <2>1, <2>2, <3>5 DEF StatusOf, Lifecycle!Finish
      <3>6. CASE jobs[j].status \in Live /\ jobs'[j].status \in {"canceled", "expired"}
        BY <2>1, <2>2, <3>6 DEF StatusOf, Lifecycle!Abandon, Live
      <3>. QED
        BY <1>4, <3>1, <3>2, <3>3, <3>4, <3>5, <3>6 DEF Legal
    <2>. QED
      BY <2>3 DEF Lifecycle!Next
  <1>. QED
    BY <1>2, <1>3, <1>4 DEF Follows

\* Refinement: with synchronous runtimes, no replay, and a store and a queue
\* that keep what they hold, the status of every job follows the documented
\* state machine.  The handlers, the worker, the retries and the restarts of a
\* memory queue are all in play.
THEOREM LifecycleFollowed == Undisturbed /\ Spec => FollowsLifecycle
  <1>1. SUFFICES ASSUME Undisturbed
                 PROVE  Spec => FollowsLifecycle
    OBVIOUS
  <1>2. Spec => []Durable
    <2>1. Faults \cap {"save", "load"} = {}
      BY <1>1 DEF Undisturbed
    <2>. QED
      BY <2>1, AlwaysDurable
  <1>3. Init => OnceInv
    <2>1. SUFFICES ASSUME Init
                   PROVE  OnceInv
      OBVIOUS
    <2>2. \A j \in JobId : jobs[j].status = "absent" /\ sending[j] = 0 /\ pel[j] = 0
      BY <2>1 DEF Init, emptyState, Absent
    <2>3. queue = <<>> /\ worker.pc = "idle" /\ \A j \in JobId, r \in Requests : tasks[j][r] = 0
      BY <2>1 DEF Init, Idle
    <2>. QED
      BY <2>2, <2>3 DEF OnceInv, NothingElse, QueueOnce, JobOnce, InQueue, Executing, Retrying
  <1>4. Init => Lifecycle!Init
    BY DEF Init, Lifecycle!Init, emptyState, Absent
  <1>5. IInv /\ IInv' /\ Durable /\ OnceInv /\ [Next]_vars => OnceInv' /\ Follows
    BY <1>1, StepOnce
  <1>6. IInv /\ IInv' /\ Follows => [Lifecycle!Next]_StatusOf
    BY FollowsStep
  <1>. QED
    BY <1>2, <1>3, <1>4, <1>5, <1>6, Invariance, PTL DEF Spec, FollowsLifecycle, Lifecycle!Spec, StatusOf
=============================================================================
