---------------------------- MODULE ExpertRuntime ---------------------------
(***************************************************************************)
(* The expert runtime (internal/expert/runtime/server.go, events.go): task *)
(* requests answered at once or accepted and run in a goroutine, and the   *)
(* map of cancel functions that handleCancelTask uses.                     *)
(*                                                                         *)
(* The orchestrator sends the job id as task id (RuntimeExecutor), so a    *)
(* retried or replayed job comes back under the id of a task that may      *)
(* still be running.  One step is one critical section of Server.mu, one   *)
(* atomic counter with what surrounds it, or one return of the executor.   *)
(***************************************************************************)
EXTENDS Integers, FiniteSets

CONSTANTS
    Tasks,     \* task ids
    NoTask,    \* the task of a request that has not come yet
    MaxRuns    \* bound: task requests

ASSUME ExpertRuntimeAssumption ==
    MaxRuns \in Nat /\ NoTask \notin Tasks

RunId == 1 .. MaxRuns
None == 0

VARIABLES
    pending,   \* Server.pending: the run whose cancel function is stored
    task,      \* TaskRequest.TaskID of a run
    pc,        \* where handleCreateTask or runAsyncTask is
    canceled,  \* whether the context of the run was canceled
    metrics,   \* Server.metrics
    shared     \* history: runs that shared the entry of their task id

runtimeVars == <<pending, task, pc, canceled, metrics, shared>>

Counter == {"total", "accepted", "succeeded", "failed", "canceled"}

Count(c) == metrics' = [metrics EXCEPT ![c] = @ + 1]

\* The two modes end the same way, except for the event and the cleanup.
InFlight == {r \in RunId : pc[r] \in {"sync", "created", "async"}}
Over(r) == pc[r] \in {"unused", "over"}

Goto(r, l) == pc' = [pc EXCEPT ![r] = l]

-----------------------------------------------------------------------------
\* handleCreateTask, up to the choice of the mode.
NewRun(r, t, mode) ==
    /\ pc[r] = "unused"
    /\ \A q \in RunId : q < r => pc[q] # "unused"
    /\ task' = [task EXCEPT ![r] = t]
    /\ Goto(r, mode)
    /\ Count("total")

CreateSync(r, t) ==
    /\ NewRun(r, t, "sync")
    /\ UNCHANGED <<pending, canceled, shared>>

\* r and the asynchronous runs of its task id that have not ended.
Share(r, t) ==
    LET others == {q \in RunId : task[q] = t /\ ~Over(q) /\ pc[q] # "sync"}
    IN  shared' = IF others = {} THEN shared ELSE shared \cup others \cup {r}

\* Mutant: a task id that is already known keeps its old cancel function.
CreateAsyncKeeps(r, t) ==
    /\ NewRun(r, t, "created")
    /\ pending' = IF \E q \in RunId : task[q] = t THEN pending ELSE [pending EXCEPT ![t] = r]
    /\ Share(r, t)
    /\ UNCHANGED <<canceled>>

\* The asynchronous mode stores the cancel function under the task id,
\* whatever was stored there.
CreateAsync(r, t) ==
    /\ NewRun(r, t, "created")
    /\ pending' = [pending EXCEPT ![t] = r]
    /\ Share(r, t)
    /\ UNCHANGED <<canceled>>

\* The rest of it: the goroutine is started and 202 is answered.
AcceptTask(r) ==
    /\ pc[r] = "created"
    /\ Count("accepted")
    /\ Goto(r, "async")
    /\ UNCHANGED <<pending, task, canceled, shared>>

\* handleCancelTask for a task that is found; the cancel function is called
\* right after the unlock.
handleCancelTask(t) ==
    /\ pending[t] # None
    /\ canceled' = [canceled EXCEPT ![pending[t]] = TRUE]
    /\ pending' = [pending EXCEPT ![t] = None]
    /\ Count("canceled")
    /\ UNCHANGED <<task, pc, shared>>

\* The executor fails: on its own, because the context was canceled, or at
\* the timeout of the task.  Nobody is told about an accepted task.
Fails(r) ==
    /\ pc[r] \in {"sync", "async"}
    /\ Count("failed")
    /\ Goto(r, IF pc[r] = "sync" THEN "over" ELSE "cleanup")
    /\ UNCHANGED <<pending, task, canceled, shared>>

\* Mutant: the counter of the synchronous mode is forgotten.
SucceedsUncounted(r) ==
    /\ pc[r] \in {"sync", "async"}
    /\ Goto(r, IF pc[r] = "sync" THEN "over" ELSE "sending")
    /\ IF pc[r] = "sync" THEN UNCHANGED metrics ELSE Count("succeeded")
    /\ UNCHANGED <<pending, task, canceled, shared>>

\* The executor returns a result.  It looks at the context only while it
\* waits, so a task can succeed after it was canceled.
Succeeds(r) ==
    /\ pc[r] \in {"sync", "async"}
    /\ Count("succeeded")
    /\ Goto(r, IF pc[r] = "sync" THEN "over" ELSE "sending")
    /\ UNCHANGED <<pending, task, canceled, shared>>

\* SendTaskCompleted returns; its error, if any, is only logged.
SendTaskCompleted(r) ==
    /\ pc[r] = "sending"
    /\ Goto(r, "cleanup")
    /\ UNCHANGED <<pending, task, canceled, metrics, shared>>

\* Mutant: the entry is left to handleCancelTask.
CleanupForgotten(r) ==
    /\ pc[r] = "cleanup"
    /\ Goto(r, "over")
    /\ UNCHANGED <<pending, task, canceled, metrics, shared>>

\* The deferred delete of runAsyncTask: the entry of the task id, whichever
\* run stored it.
Cleanup(r) ==
    /\ pc[r] = "cleanup"
    /\ pending' = [pending EXCEPT ![task[r]] = None]
    /\ Goto(r, "over")
    /\ UNCHANGED <<task, canceled, metrics, shared>>

RuntimeInit ==
    /\ pending = [t \in Tasks |-> None]
    /\ task = [r \in RunId |-> NoTask]
    /\ pc = [r \in RunId |-> "unused"]
    /\ canceled = [r \in RunId |-> FALSE]
    /\ metrics = [c \in Counter |-> 0]
    /\ shared = {}

\* A step of the runtime that is not the sending of an event.
RunStep(r) ==
    \/ AcceptTask(r)
    \/ Fails(r)
    \/ Succeeds(r)
    \/ Cleanup(r)

RuntimeNext ==
    \/ \E r \in RunId, t \in Tasks : CreateSync(r, t) \/ CreateAsync(r, t)
    \/ \E t \in Tasks : handleCancelTask(t)
    \/ \E r \in RunId : RunStep(r)

-----------------------------------------------------------------------------
\* Every variable has its type.
RuntimeTypeOK ==
    /\ pending \in [Tasks -> {None} \cup RunId]
    /\ task \in [RunId -> Tasks \cup {NoTask}]
    /\ pc \in [RunId -> {"unused", "sync", "created", "async", "sending", "cleanup", "over"}]
    /\ canceled \in [RunId -> BOOLEAN]
    /\ metrics \in [Counter -> Nat]
    /\ shared \subseteq RunId

\* The map of cancel functions does not leak and does not lie: an entry is
\* that of a run of its task which has not ended and was not canceled, even
\* when runs of one task overlap.
HandleIsLive ==
    \A t \in Tasks : pending[t] # None =>
        /\ task[pending[t]] = t
        /\ ~Over(pending[t])
        /\ ~canceled[pending[t]]

\* The counters of /metrics account for every request: each one is counted as
\* succeeded or failed or is still in flight.
MetricsAddUp ==
    metrics["total"] = metrics["succeeded"] + metrics["failed"] + Cardinality(InFlight)

\* An accepted task that is still running and was not canceled can be
\* canceled by its id (docs/api-expert.md, section 4.4: 202, "canceling"), as
\* long as its id was not sent again, or before, while a run was in flight.
RunningTaskCancelable ==
    \A r \in RunId \ shared :
        pc[r] \in {"created", "async"} /\ ~canceled[r] => pending[task[r]] = r
=============================================================================
