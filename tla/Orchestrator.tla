---------------------------- MODULE Orchestrator ----------------------------
(***************************************************************************)
(* The orchestrator server (internal/orchestrator/server.go) with its job  *)
(* queue (queue.go, queue_redis.go), its state store (storage/jobstore)    *)
(* and the part of the expert runtimes it can observe.                     *)
(*                                                                         *)
(* One step is one critical section of Server.mu, one queue operation, one *)
(* move of an expert runtime, one clock tick or one restart.  Wherever the *)
(* code releases the lock (before enqueue, during ExecuteBrief, between    *)
(* expireJobIfNeeded and the rest of a handler) other steps may come in    *)
(* between.                                                                *)
(***************************************************************************)
EXTENDS Integers, Sequences

CONSTANTS
    MaxJobs,      \* bound: ids "job_1" .. "job_MaxJobs" can be handed out
    MaxAttempts,  \* Server.maxAttempts
    JobTTL,       \* Server.jobTTL, in ticks
    MaxTime,      \* bound: the last instant of the clock
    QueueKind,    \* "memory" (queue.go) or "redis" (queue_redis.go)
    QueueSize,    \* capacity of the memory queue; bound on the Redis stream
    MaxSends,     \* bound: enqueue calls in flight, and unacknowledged
                  \* entries, of one job
    MaxTasks,     \* bound: runtime tasks in flight for one job and request
    Keys,         \* scoped idempotency keys (tenant::project::key)
    NoKey,        \* no Idempotency-Key header
    Requests,     \* what a client can ask for: scope and canonical payload
    NoRequest,    \* not a request
    Answers,      \* what ExecuteBrief may answer in this deployment
    ClientOps,    \* the job operations the clients use
    Faults        \* the faults the environment may inject

JobId == 1 .. MaxJobs
Live == {"queued", "running"}
Terminal == {"succeeded", "failed", "canceled", "expired"}

\* "lostfile": a crash between os.Remove and os.Rename of JSONFileStore.Save.
\* "noresult": a succeeded event whose optional result field is missing.
FaultKinds == {"crash", "save", "load", "lostfile", "enqueue", "ack", "noresult"}

ASSUME OrchestratorAssumption ==
    /\ MaxJobs \in Nat \ {0} /\ MaxAttempts \in Nat \ {0}
    /\ JobTTL \in Nat /\ MaxTime \in Nat
    /\ QueueKind \in {"memory", "redis"} /\ QueueSize \in Nat \ {0}
    /\ MaxSends \in Nat \ {0} /\ MaxTasks \in Nat
    /\ NoKey \notin Keys /\ NoRequest \notin Requests
    /\ Answers \subseteq {"result", "accepted", "error"}
    /\ ClientOps \subseteq {"cancel", "replay"}
    /\ Faults \subseteq FaultKinds

VARIABLES
    jobs,     \* Server.jobs, "absent" where the map has no entry
    idem,     \* Server.idem
    dlq,      \* Server.dlq
    nextID,   \* Server.nextID
    disk,     \* what stateStore.Load would return
    queue,    \* entries not yet delivered, oldest first
    pel,      \* Redis only: per job, entries delivered but never acknowledged
    sending,  \* per job, the enqueue calls made outside the lock
    worker,   \* the workerLoop goroutine
    tasks,    \* tasks the expert runtimes accepted with 202 and still run
    notify,   \* jobs with a dispatchJobCompletedWebhook goroutine
    now       \* the clock

vars == <<jobs, idem, dlq, nextID, disk, queue, pel, sending, worker, tasks,
          notify, now>>
state == <<jobs, idem, dlq, nextID>>
queues == <<queue, pel, sending>>

-----------------------------------------------------------------------------
(***************************************************************************)
(* Data.                                                                   *)
(***************************************************************************)
Job == [status : Live \cup Terminal \cup {"absent"}, attempt : Nat,
        expiresAt : Nat, req : Requests \cup {NoRequest},
        result : Requests \cup {NoRequest}, lastError : BOOLEAN]

Absent == [status |-> "absent", attempt |-> 0, expiresAt |-> 0,
           req |-> NoRequest, result |-> NoRequest, lastError |-> FALSE]

IdemRecord == [job : {0} \cup JobId, req : Requests \cup {NoRequest}]
NoRecord == [job |-> 0, req |-> NoRequest]

DeadLetterEntry == [reason : {"none", "max_attempts_exhausted", "runtime_failed"},
                    attempts : Nat]
NoEntry == [reason |-> "none", attempts |-> 0]

State == [nextID : 0 .. MaxJobs, jobs : [JobId -> Job],
          idem : [Keys -> IdemRecord], dlq : [JobId -> DeadLetterEntry]]

emptyState == [nextID |-> 0, jobs |-> [j \in JobId |-> Absent],
               idem |-> [k \in Keys |-> NoRecord],
               dlq |-> [j \in JobId |-> NoEntry]]

Idle == [pc |-> "idle", job |-> 0, req |-> NoRequest]
Loading == [pc |-> "loading", job |-> 0, req |-> NoRequest]

Worker == [pc : {"loading", "idle", "executing", "accepted", "retrying", "done"},
           job : {0} \cup JobId, req : Requests \cup {NoRequest}]

Memory == [nextID |-> nextID, jobs |-> jobs, idem |-> idem, dlq |-> dlq]

isExpired(j) == now > jobs[j].expiresAt

\* The HTTP listener and the worker start only once loadState has returned.
Serving == worker.pc # "loading"

\* Save may fail; the error is logged and the handler carries on.
persistLocked ==
    \/ disk' = [nextID |-> nextID', jobs |-> jobs', idem |-> idem', dlq |-> dlq']
    \/ "save" \in Faults /\ disk' = disk

SetStatus(j, s) == jobs' = [jobs EXCEPT ![j].status = s]

-----------------------------------------------------------------------------
(***************************************************************************)
(* The job API.                                                            *)
(***************************************************************************)

\* Mutant: only running jobs are checked against their deadline.
ExpireRunningOnly(j) ==
    /\ Serving /\ jobs[j].status = "running" /\ isExpired(j)
    /\ SetStatus(j, "expired")
    /\ UNCHANGED <<idem, dlq, nextID, queues, worker, tasks, notify, now>>
    /\ persistLocked

\* A live job whose deadline has passed becomes expired.
expireJobIfNeeded(j) ==
    /\ Serving
    /\ jobs[j].status \in Live
    /\ isExpired(j)
    /\ SetStatus(j, "expired")
    /\ UNCHANGED <<idem, dlq, nextID, queues, worker, tasks, notify, now>>
    /\ persistLocked

\* GetJobStatus, GetJobResult and GetJobDeliveries: all that a read changes is
\* that the job it asks for may expire.
Poll(j) == expireJobIfNeeded(j)

\* A submission that is not answered from the idempotency record.  The call
\* of enqueue comes after the unlock.
SubmitBriefJob(k, r) ==
    /\ Serving
    /\ k \in Keys => idem[k] = NoRecord
    /\ nextID < MaxJobs
    /\ now + JobTTL < MaxTime
    /\ nextID' = nextID + 1
    /\ jobs' = [jobs EXCEPT ![nextID + 1] =
                   [status |-> "queued", attempt |-> 1, expiresAt |-> now + JobTTL,
                    req |-> r, result |-> NoRequest, lastError |-> FALSE]]
    /\ dlq' = [dlq EXCEPT ![nextID + 1] = NoEntry]
    /\ idem' = IF k \in Keys
                 THEN [idem EXCEPT ![k] = [job |-> nextID + 1, req |-> r]]
                 ELSE idem
    /\ sending[nextID + 1] < MaxSends
    /\ sending' = [sending EXCEPT ![nextID + 1] = @ + 1]
    /\ UNCHANGED <<queue, pel, worker, tasks, notify, now>>
    /\ persistLocked

\* Mutants: a misspelt status, a missing persistLocked, a deleted job.
CancelMisspelt(j) ==
    /\ Serving /\ "cancel" \in ClientOps /\ jobs[j].status \in Live
    /\ SetStatus(j, "cancelled")
    /\ UNCHANGED <<idem, dlq, nextID, queues, worker, tasks, notify, now>>
    /\ persistLocked

CancelUnsaved(j) ==
    /\ Serving /\ "cancel" \in ClientOps /\ jobs[j].status \in Live
    /\ SetStatus(j, "canceled")
    /\ UNCHANGED <<idem, dlq, nextID, disk, queues, worker, tasks, notify, now>>

CancelDeletes(j) ==
    /\ Serving /\ "cancel" \in ClientOps /\ jobs[j].status \in Live
    /\ jobs' = [jobs EXCEPT ![j] = Absent]
    /\ UNCHANGED <<idem, dlq, nextID, queues, worker, tasks, notify, now>>
    /\ persistLocked

\* The second critical section of CancelJob (the first one is
\* expireJobIfNeeded).  The queue entry and the runtime task stay.
CancelJob(j) ==
    /\ Serving
    /\ "cancel" \in ClientOps
    /\ jobs[j].status \in Live
    /\ SetStatus(j, "canceled")
    /\ UNCHANGED <<idem, dlq, nextID, queues, worker, tasks, notify, now>>
    /\ persistLocked

\* Mutant: the call of enqueue is missing.
ReplayNotEnqueued(j) ==
    /\ Serving /\ "replay" \in ClientOps
    /\ jobs[j].status \in {"failed", "canceled", "expired"}
    /\ jobs' = [jobs EXCEPT ![j].status = "queued", ![j].attempt = 1,
                            ![j].lastError = FALSE]
    /\ dlq' = [dlq EXCEPT ![j] = NoEntry]
    /\ UNCHANGED <<idem, nextID, queues, worker, tasks, notify, now>>
    /\ persistLocked

\* The second critical section of ReplayJob.  expiresAt and result stay.
ReplayJob(j) ==
    /\ Serving
    /\ "replay" \in ClientOps
    /\ jobs[j].status \in {"failed", "canceled", "expired"}
    /\ jobs' = [jobs EXCEPT ![j].status = "queued", ![j].attempt = 1,
                            ![j].lastError = FALSE]
    /\ dlq' = [dlq EXCEPT ![j] = NoEntry]
    /\ sending[j] < MaxSends
    /\ sending' = [sending EXCEPT ![j] = @ + 1]
    /\ UNCHANGED <<idem, nextID, queue, pel, worker, tasks, notify, now>>
    /\ persistLocked

-----------------------------------------------------------------------------
(***************************************************************************)
(* The queue.                                                              *)
(***************************************************************************)

Enqueue(j) ==
    /\ sending[j] > 0
    /\ Len(queue) < QueueSize
    /\ queue' = Append(queue, j)
    /\ sending' = [sending EXCEPT ![j] = @ - 1]
    /\ UNCHANGED <<state, disk, pel, worker, tasks, notify, now>>

\* The enqueue call that fails: a full channel for three seconds, or an XADD
\* error.  It is only logged.
EnqueueFails ==
    IF QueueKind = "memory" THEN Len(queue) = QueueSize ELSE "enqueue" \in Faults

DropEnqueue(j) ==
    /\ sending[j] > 0
    /\ EnqueueFails
    /\ sending' = [sending EXCEPT ![j] = @ - 1]
    /\ UNCHANGED <<state, disk, queue, pel, worker, tasks, notify, now>>

OldestEntry(j) ==
    /\ queue # <<>> /\ Head(queue) = j
    /\ queue' = Tail(queue)
    /\ UNCHANGED pel

\* Redis only (pel stays empty otherwise): an entry that was delivered to this
\* consumer, or to the process before it, and never acknowledged.
claimPending(j) ==
    /\ pel[j] > 0
    /\ pel' = [pel EXCEPT ![j] = @ - 1]
    /\ UNCHANGED queue

Dequeue(j) == OldestEntry(j) \/ claimPending(j)

-----------------------------------------------------------------------------
(***************************************************************************)
(* workerLoop and processBriefJob.                                         *)
(***************************************************************************)

\* Mutant: the test that the dequeued id is in the map is missing.
StartUnchecked(j) ==
    /\ worker.pc = "idle"
    /\ Dequeue(j)
    /\ jobs[j].status # "canceled" /\ ~isExpired(j)
    /\ SetStatus(j, "running")
    /\ worker' = [pc |-> "executing", job |-> j, req |-> jobs[j].req]
    /\ UNCHANGED <<idem, dlq, nextID, sending, tasks, notify, now>>
    /\ persistLocked

\* The first critical section of processBriefJob.  A canceled job is left
\* alone and an overdue one is marked expired, whatever its status is; any
\* other status, a terminal one included, becomes running.
StartJob(j) ==
    /\ worker.pc = "idle"
    /\ Dequeue(j)
    /\ UNCHANGED <<idem, dlq, nextID, sending, tasks, notify, now>>
    /\ \/ /\ jobs[j].status \in {"absent", "canceled"}
          /\ worker' = [worker EXCEPT !.pc = "done", !.job = j]
          /\ UNCHANGED <<jobs, disk>>
       \/ /\ jobs[j].status \notin {"absent", "canceled"}
          /\ isExpired(j)
          /\ SetStatus(j, "expired")
          /\ persistLocked
          /\ worker' = [worker EXCEPT !.pc = "done", !.job = j]
       \/ /\ jobs[j].status \notin {"absent", "canceled"}
          /\ ~isExpired(j)
          /\ SetStatus(j, "running")
          /\ persistLocked
          /\ worker' = [pc |-> "executing", job |-> j, req |-> jobs[j].req]

\* An expert runtime accepts the task with 202: from here on it runs beside
\* the orchestrator, which may not have seen the answer yet.
RuntimeAccepts ==
    /\ worker.pc = "executing"
    /\ "accepted" \in Answers
    /\ tasks[worker.job][worker.req] < MaxTasks
    /\ tasks' = [tasks EXCEPT ![worker.job][worker.req] = @ + 1]
    /\ worker' = [worker EXCEPT !.pc = "accepted"]
    /\ UNCHANGED <<state, disk, queues, notify, now>>

\* Mutants: a 202 revives a canceled job; a 202 is taken for a result.
AcceptedUnchecked ==
    /\ worker.pc = "accepted"
    /\ SetStatus(worker.job, "running")
    /\ worker' = [worker EXCEPT !.pc = "done"]
    /\ UNCHANGED <<idem, dlq, nextID, queues, tasks, notify, now>>
    /\ persistLocked

AcceptedSucceeds ==
    /\ worker.pc = "accepted"
    /\ SetStatus(worker.job, "succeeded")
    /\ worker' = [worker EXCEPT !.pc = "done"]
    /\ UNCHANGED <<idem, dlq, nextID, queues, tasks, notify, now>>
    /\ persistLocked

\* ExecuteBrief returns ErrAsyncAccepted.  Jobs are never deleted while the
\* process lives, so the job is still in the map here and below.
FinishAccepted ==
    /\ worker.pc = "accepted"
    /\ UNCHANGED <<idem, dlq, nextID, queues, tasks, notify, now>>
    /\ LET j == worker.job IN
       IF jobs[j].status = "canceled" \/ isExpired(j)
         THEN UNCHANGED <<jobs, disk>>
         ELSE SetStatus(j, "running") /\ persistLocked
    /\ worker' = [worker EXCEPT !.pc = "done"]

\* ExecuteBrief returns a result.
FinishResult ==
    /\ worker.pc = "executing"
    /\ "result" \in Answers
    /\ UNCHANGED <<idem, nextID, queues, tasks, now>>
    /\ LET j == worker.job IN
       \/ /\ jobs[j].status = "canceled"
          /\ UNCHANGED <<jobs, dlq, notify>>
          /\ persistLocked
       \/ /\ jobs[j].status # "canceled"
          /\ isExpired(j)
          /\ SetStatus(j, "expired")
          /\ UNCHANGED <<dlq, notify>>
          /\ persistLocked
       \/ /\ jobs[j].status # "canceled"
          /\ ~isExpired(j)
          /\ jobs' = [jobs EXCEPT ![j].status = "succeeded",
                                  ![j].result = worker.req,
                                  ![j].lastError = FALSE]
          /\ dlq' = [dlq EXCEPT ![j] = NoEntry]
          /\ notify' = notify \cup {j}
          /\ persistLocked
    /\ worker' = [worker EXCEPT !.pc = "done"]

\* ExecuteBrief returns any other error: no answer, a status that is not 200,
\* or the 60 second timeout, which can also lose a 202.
FinishError ==
    /\ worker.pc \in {"executing", "accepted"}
    /\ "error" \in Answers
    /\ LET j == worker.job IN
       \/ /\ jobs[j].status = "canceled"
          /\ jobs' = [jobs EXCEPT ![j].lastError = TRUE]
          /\ worker' = [worker EXCEPT !.pc = "done"]
          /\ UNCHANGED dlq
       \/ /\ jobs[j].status # "canceled"
          /\ isExpired(j)
          /\ jobs' = [jobs EXCEPT ![j].status = "expired", ![j].lastError = TRUE]
          /\ worker' = [worker EXCEPT !.pc = "done"]
          /\ UNCHANGED dlq
       \/ /\ jobs[j].status # "canceled"
          /\ ~isExpired(j)
          /\ jobs[j].attempt < MaxAttempts
          /\ jobs' = [jobs EXCEPT ![j].status = "queued", ![j].lastError = TRUE,
                                  ![j].attempt = @ + 1]
          /\ worker' = [worker EXCEPT !.pc = "retrying"]
          /\ UNCHANGED dlq
       \/ /\ jobs[j].status # "canceled"
          /\ ~isExpired(j)
          /\ jobs[j].attempt >= MaxAttempts
          /\ jobs' = [jobs EXCEPT ![j].status = "failed", ![j].lastError = TRUE]
          /\ dlq' = [dlq EXCEPT ![j] = [reason |-> "max_attempts_exhausted",
                                        attempts |-> jobs[j].attempt]]
          /\ worker' = [worker EXCEPT !.pc = "done"]
    /\ UNCHANGED <<idem, nextID, queues, tasks, notify, now>>
    /\ persistLocked

\* The worker enqueues its own retry.  It is the only consumer, so a full
\* channel stays full and the entry is dropped after three seconds.
RetryEnqueue ==
    /\ worker.pc = "retrying"
    /\ \/ /\ Len(queue) < QueueSize
          /\ queue' = Append(queue, worker.job)
       \/ /\ EnqueueFails
          /\ UNCHANGED queue
    /\ worker' = [worker EXCEPT !.pc = "done"]
    /\ UNCHANGED <<state, disk, pel, sending, tasks, notify, now>>

\* item.Ack.  A lost XACK leaves the entry to be claimed again.
AckJob ==
    /\ worker.pc = "done"
    /\ \/ UNCHANGED pel
       \/ /\ QueueKind = "redis" /\ "ack" \in Faults
          /\ pel[worker.job] < MaxSends
          /\ pel' = [pel EXCEPT ![worker.job] = @ + 1]
    /\ worker' = Idle
    /\ UNCHANGED <<state, disk, queue, sending, tasks, notify, now>>

-----------------------------------------------------------------------------
(***************************************************************************)
(* Expert events, webhooks, time and restarts.                             *)
(***************************************************************************)

\* ExpertEventsHandler for a verified event about job j.  No attempt number,
\* task identity or deadline is compared.
ExpertEvent(j, r, s) ==
    /\ Serving
    /\ tasks[j][r] > 0
    /\ tasks' = [tasks EXCEPT ![j][r] = @ - 1]
    /\ IF jobs[j].status \notin Live
         THEN UNCHANGED <<state, disk, notify>>
         ELSE /\ \/ /\ s = "succeeded"
                    /\ \E res \in {r} \cup (IF "noresult" \in Faults
                                              THEN {NoRequest} ELSE {}) :
                         jobs' = [jobs EXCEPT ![j].status = "succeeded",
                                              ![j].result = res,
                                              ![j].lastError = FALSE]
                    /\ dlq' = [dlq EXCEPT ![j] = NoEntry]
                    /\ notify' = notify \cup {j}
                 \/ /\ s = "failed"
                    /\ \E e \in BOOLEAN :
                         jobs' = [jobs EXCEPT ![j].status = "failed",
                                              ![j].lastError = e]
                    /\ dlq' = [dlq EXCEPT ![j] = [reason |-> "runtime_failed",
                                                  attempts |-> jobs[j].attempt]]
                    /\ UNCHANGED notify
                 \/ /\ s = "canceled"
                    /\ SetStatus(j, "canceled")
                    /\ UNCHANGED <<dlq, notify>>
              /\ UNCHANGED <<idem, nextID>>
              /\ persistLocked
    /\ UNCHANGED <<queues, worker, now>>

\* runAsyncTask ends without an event that reaches the orchestrator: the task
\* failed, was canceled or timed out, or the one POST was lost.
TaskEndsSilently(j, r) ==
    /\ tasks[j][r] > 0
    /\ tasks' = [tasks EXCEPT ![j][r] = @ - 1]
    /\ UNCHANGED <<state, disk, queues, worker, notify, now>>

\* dispatchJobCompletedWebhook runs to its end; WebhookDelivery models how.
DispatchWebhook(j) ==
    /\ j \in notify
    /\ notify' = notify \ {j}
    /\ UNCHANGED <<state, disk, queues, worker, tasks, now>>

Tick ==
    /\ now < MaxTime
    /\ now' = now + 1
    /\ UNCHANGED <<state, disk, queues, worker, tasks, notify>>

\* Mutant: the id counter is not restored.
RecoveredNoCounter == {[stored |-> disk, mem |-> [disk EXCEPT !.nextID = 0]]}

\* What a new process can find: the last completed Save; nothing, when the
\* crash hit the window of JSONFileStore.Save; or a Load error, after which
\* NewServer goes on with its empty maps.
Recovered ==
    {[stored |-> disk, mem |-> disk]}
    \cup (IF "lostfile" \in Faults
            THEN {[stored |-> emptyState, mem |-> emptyState]} ELSE {})
    \cup (IF "load" \in Faults
            THEN {[stored |-> disk, mem |-> emptyState]} ELSE {})

\* Mutants: interrupted jobs are dropped; finished ones are run again.
RequeuedDrop(job) == IF job.status = "running" THEN Absent ELSE job

RequeuedAll(job) ==
    IF job.status \in {"running", "succeeded"} THEN [job EXCEPT !.status = "queued"] ELSE job

Requeued(job) == IF job.status = "running" THEN [job EXCEPT !.status = "queued"] ELSE job

\* The process dies (or is closed) and NewServer runs loadState.  Every queued
\* job is enqueued again, on a Redis stream that may still hold its entry.
Restart ==
    /\ "crash" \in Faults
    /\ \E rec \in Recovered :
         /\ nextID' = rec.mem.nextID
         /\ jobs' = [j \in JobId |-> Requeued(rec.mem.jobs[j])]
         /\ idem' = rec.mem.idem
         /\ dlq' = rec.mem.dlq
         /\ IF \E j \in JobId : jobs'[j].status = "queued"
              THEN persistLocked
              ELSE disk' = rec.stored
    /\ sending' = [j \in JobId |-> IF jobs'[j].status = "queued" THEN 1 ELSE 0]
    /\ IF QueueKind = "memory"
         THEN queue' = <<>> /\ UNCHANGED pel
         ELSE /\ UNCHANGED queue
              /\ pel' = IF worker.job \in JobId
                          THEN [pel EXCEPT ![worker.job] = @ + 1] ELSE pel
    /\ worker.job \in JobId => pel[worker.job] < MaxSends
    /\ worker' = Loading
    /\ notify' = {}
    /\ UNCHANGED <<tasks, now>>

\* loadState returns and the worker starts.
LoadDone ==
    /\ worker.pc = "loading"
    /\ \A j \in JobId : sending[j] = 0
    /\ worker' = Idle
    /\ UNCHANGED <<state, disk, queues, tasks, notify, now>>

-----------------------------------------------------------------------------
Init ==
    /\ jobs = emptyState.jobs /\ idem = emptyState.idem
    /\ dlq = emptyState.dlq /\ nextID = 0
    /\ disk = emptyState
    /\ queue = <<>>
    /\ pel = [j \in JobId |-> 0]
    /\ sending = [j \in JobId |-> 0]
    /\ worker = Idle
    /\ tasks = [j \in JobId |-> [r \in Requests |-> 0]]
    /\ notify = {}
    /\ now = 0

WorkerStep ==
    \/ \E j \in JobId : StartJob(j)
    \/ FinishAccepted
    \/ FinishResult
    \/ FinishError
    \/ RetryEnqueue
    \/ AckJob

Next ==
    \/ \E k \in Keys \cup {NoKey}, r \in Requests : SubmitBriefJob(k, r)
    \/ \E j \in JobId :
         \/ Poll(j)
         \/ CancelJob(j)
         \/ ReplayJob(j)
         \/ Enqueue(j)
         \/ DropEnqueue(j)
         \/ DispatchWebhook(j)
         \/ \E r \in Requests :
              \/ \E s \in {"succeeded", "failed", "canceled"} : ExpertEvent(j, r, s)
              \/ TaskEndsSilently(j, r)
    \/ WorkerStep
    \/ RuntimeAccepts
    \/ Tick
    \/ Restart
    \/ LoadDone

Spec == Init /\ [][Next]_vars
-----------------------------------------------------------------------------
(***************************************************************************)
(* Properties.                                                             *)
(***************************************************************************)

\* Every variable has the type the code gives it.
TypeOK ==
    /\ Memory \in State /\ disk \in State
    /\ queue \in Seq(JobId)
    /\ pel \in [JobId -> Nat] /\ sending \in [JobId -> Nat]
    /\ worker \in Worker
    /\ tasks \in [JobId -> [Requests -> Nat]]
    /\ notify \subseteq JobId
    /\ now \in Nat

\* The id counter is exactly the number of ids in use (a submission can never
\* overwrite a job), and an attempt number never leaves 1..MaxAttempts.
IdsAllocated(st) ==
    \A j \in JobId :
        /\ st.jobs[j].status # "absent" <=> j <= st.nextID
        /\ st.jobs[j].status # "absent" => /\ st.jobs[j].attempt \in 1 .. MaxAttempts
                                          /\ st.jobs[j].req \in Requests

\* A failed job has its dead letter.
FailedIsDeadLettered(st) ==
    \A j \in JobId : st.jobs[j].status = "failed" => st.dlq[j] # NoEntry

\* A succeeded job has neither a dead letter nor an error.
SucceededIsClean(st) ==
    \A j \in JobId : st.jobs[j].status = "succeeded" =>
                          st.dlq[j] = NoEntry /\ ~st.jobs[j].lastError

\* An idempotency record points to the one job that was created for it, with
\* the payload it was created from.
IdempotencySound(st) ==
    \A k \in Keys : st.idem[k] # NoRecord =>
        /\ st.idem[k].job \in 1 .. st.nextID
        /\ st.jobs[st.idem[k].job].req = st.idem[k].req
        /\ \A l \in Keys : st.idem[l].job = st.idem[k].job => l = k

Consistent(st) ==
    /\ IdsAllocated(st)
    /\ FailedIsDeadLettered(st)
    /\ SucceededIsClean(st)
    /\ IdempotencySound(st)

\* The maps of the server agree with one another at every unlock, and so does
\* the snapshot a restart would load, whatever races, restarts and store
\* faults came before.
StateConsistent == Consistent(Memory) /\ Consistent(disk)

\* The job that ExecuteBrief runs for is in the map, still with the request it
\* was started with, until the worker takes the lock again.
WorkerHoldsJob ==
    /\ worker.pc \in {"executing", "accepted"} =>
          worker.job \in 1 .. nextID /\ worker.req = jobs[worker.job].req
    /\ worker.pc \in {"retrying", "done"} => worker.job \in JobId

\* Whatever a client, a runtime or the worker can see at an unlock of
\* Server.mu has been saved: a restart at any point resumes from it.
Durable == disk = Memory

\* The result a job carries was computed for the request of that job, however
\* late the answer or the event that brought it.
ResultMatchesRequest ==
    \A j \in JobId : jobs[j].result \in {NoRequest, jobs[j].req}

\* The result of a succeeded job can be fetched.
SucceededHasResult ==
    \A j \in JobId : jobs[j].status = "succeeded" => jobs[j].result # NoRequest

InQueue(j) == \E i \in 1 .. Len(queue) : queue[i] = j

\* A queued job will reach the worker: it has an entry in the queue, an
\* enqueue call that is under way, or an unacknowledged delivery.
NoJobLost ==
    \A j \in JobId : jobs[j].status = "queued" =>
        \/ InQueue(j)
        \/ sending[j] > 0
        \/ pel[j] > 0
        \/ worker.pc = "retrying" /\ worker.job = j

\* Only ReplayJob takes a job out of canceled: no late answer of ExecuteBrief,
\* event, stale queue entry or restart revives it.
CanceledSticks ==
    [][\A j \in JobId :
         jobs[j].status = "canceled" /\ jobs'[j].status # "canceled" =>
            /\ jobs'[j] = [jobs[j] EXCEPT !.status = "queued", !.attempt = 1,
                                         !.lastError = FALSE]
            /\ sending'[j] = sending[j] + 1]_vars

\* An accepted job stays traceable under its id and an idempotency key keeps
\* its job, through every later step and every restart.
AcceptedJobsSurvive ==
    [][/\ \A j \in 1 .. nextID : jobs'[j].status # "absent" /\ jobs'[j].req = jobs[j].req
       /\ \A k \in Keys : idem[k] # NoRecord => idem'[k] = idem[k]]_vars

\* docs/api-contract.md: succeeded -> running is not allowed.
SucceededNeverRuns ==
    [][\A j \in JobId : jobs[j].status = "succeeded" => jobs'[j].status # "running"]_vars

\* The status of every job follows the documented state machine.
Lifecycle == INSTANCE JobLifecycle WITH
                Jobs <- JobId, status <- [j \in JobId |-> jobs[j].status]
FollowsLifecycle == Lifecycle!Spec

\* A client that keeps asking for a job sees it reach a terminal status,
\* whatever was dropped, lost or left unanswered.
EventuallyTerminal ==
    \A j \in JobId : (jobs[j].status \in Live) ~> (jobs[j].status \in Terminal)

-----------------------------------------------------------------------------
(***************************************************************************)
(* Fairness.                                                               *)
(***************************************************************************)

\* Crashes come to an end, time passes, clients poll, and an enqueue call ends
\* after three seconds at the latest.  Nothing is asked of worker or runtime.
PollingSpec ==
    /\ Spec
    /\ <>[][~Restart]_vars
    /\ WF_vars(Tick)
    /\ WF_vars(LoadDone)
    /\ \A j \in JobId : WF_vars(Poll(j)) /\ WF_vars(Enqueue(j) \/ DropEnqueue(j))
=============================================================================
