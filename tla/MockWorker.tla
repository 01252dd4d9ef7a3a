----------------------------- MODULE MockWorker -----------------------------
(***************************************************************************)
(* The mock worker (internal/worker/mock/server.go): the job API of the    *)
(* orchestrator without queue, retries and dead letters.  Every accepted   *)
(* submission and every replay starts a goroutine runMockJob, which moves  *)
(* the job along in critical sections of Server.mu with sleeps in between, *)
(* so several goroutines may work on one job.                              *)
(*                                                                         *)
(* Attempt is always 1 and LastError always nil here; every job is assumed *)
(* to have a callback URL.                                                 *)
(***************************************************************************)
EXTENDS Integers

CONSTANTS
    MaxJobs,   \* bound: ids "job_1" .. "job_MaxJobs" can be handed out
    MaxRuns,   \* bound: goroutines runMockJob
    JobTTL,    \* Server.jobTTL, in ticks
    MaxTime,   \* bound: the last instant of the clock
    MaxFaults, \* bound: calls of the store that fail
    Keys,      \* scoped idempotency keys
    NoKey      \* no Idempotency-Key header

ASSUME MockWorkerAssumption ==
    /\ MaxJobs \in Nat \ {0} /\ MaxRuns \in Nat
    /\ JobTTL \in Nat /\ MaxTime \in Nat /\ MaxFaults \in Nat
    /\ NoKey \notin Keys

JobId == 1 .. MaxJobs
RunId == 1 .. MaxRuns
None == 0

VARIABLES
    jobs,    \* Server.jobs, "absent" where the map has no entry
    idem,    \* Server.idem, None where the map has no entry
    nextID,  \* Server.nextID
    disk,    \* what stateStore.Load would return
    store,   \* history of the calls of the store, Save and Load: how many
             \* have failed, and whether the last one has
    run,     \* per goroutine, its job and where it is
    hooks,   \* the jobs whose webhook was dispatched
    now      \* the clock

vars == <<jobs, idem, nextID, disk, store, run, hooks, now>>

Live == {"queued", "running"}
Terminal == {"succeeded", "canceled", "expired"}

Job == [status : Live \cup Terminal \cup {"absent"}, expiresAt : Nat, result : BOOLEAN]
Absent == [status |-> "absent", expiresAt |-> 0, result |-> FALSE]

State == [nextID : 0 .. MaxJobs, jobs : [JobId -> Job], idem : [Keys -> {None} \cup JobId]]
Memory == [nextID |-> nextID, jobs |-> jobs, idem |-> idem]
Stages == {"unused", "expire30", "skip30", "running30", "expire70", "skip70",
           "running70", "succeed", "notify", "over", "killed"}

isExpired(j) == now > jobs[j].expiresAt

\* A call of the store succeeds, or fails.
Succeeds == store' = [store EXCEPT !.failed = FALSE]
Fails ==
    /\ store.faults < MaxFaults
    /\ store' = [faults |-> store.faults + 1, failed |-> TRUE]

\* Mutant: the idempotency records are not saved.
persistJobsOnly ==
    /\ disk' = [nextID |-> nextID', jobs |-> jobs', idem |-> disk.idem]
    /\ Succeeds

\* The whole state is saved; an error of Save is only logged.
persistLocked ==
    \/ disk' = [nextID |-> nextID', jobs |-> jobs', idem |-> idem'] /\ Succeeds
    \/ Fails /\ UNCHANGED disk

SetStatus(j, s) == jobs' = [jobs EXCEPT ![j].status = s]

Goto(r, l) == run' = [run EXCEPT ![r].pc = l]

-----------------------------------------------------------------------------
\* go s.runMockJob(jobID)
StartRun(j) ==
    \E r \in RunId :
        /\ run[r].pc = "unused" /\ \A q \in RunId : q < r => run[q].pc # "unused"
        /\ run' = [run EXCEPT ![r] = [job |-> j, pc |-> "expire30"]]

\* A submission that is not answered from the idempotency record.
SubmitBriefJob(k) ==
    /\ k \in Keys => idem[k] = None
    /\ nextID < MaxJobs
    /\ now + JobTTL < MaxTime
    /\ nextID' = nextID + 1
    /\ jobs' = [jobs EXCEPT ![nextID + 1] =
                   [status |-> "queued", expiresAt |-> now + JobTTL, result |-> FALSE]]
    /\ idem' = IF k \in Keys THEN [idem EXCEPT ![k] = nextID + 1] ELSE idem
    /\ hooks' = hooks \ {nextID + 1}
    /\ StartRun(nextID + 1)
    /\ UNCHANGED now
    /\ persistLocked

Expire(j) ==
    /\ jobs[j].status \in Live /\ isExpired(j)
    /\ SetStatus(j, "expired")

expireJobIfNeeded(j) ==
    /\ Expire(j)
    /\ UNCHANGED <<idem, nextID, run, hooks, now>>
    /\ persistLocked

\* GetJobStatus, GetJobResult, GetJobDeliveries: a read may expire the job it
\* asks for, and changes nothing else.
Poll(j) == expireJobIfNeeded(j)

CancelJob(j) ==
    /\ jobs[j].status \in Live
    /\ SetStatus(j, "canceled")
    /\ UNCHANGED <<idem, nextID, run, hooks, now>>
    /\ persistLocked

\* Mutant: the goroutine is not started again.
ReplayWithoutRun(j) ==
    /\ jobs[j].status \in {"canceled", "expired"}
    /\ SetStatus(j, "queued")
    /\ UNCHANGED <<idem, nextID, run, hooks, now>>
    /\ persistLocked

\* The goroutine that worked on the job before may still be there.
ReplayJob(j) ==
    /\ jobs[j].status \in {"canceled", "expired"}
    /\ SetStatus(j, "queued")
    /\ UNCHANGED <<idem, nextID, hooks, now>>
    /\ persistLocked
    /\ StartRun(j)

-----------------------------------------------------------------------------
\* The first critical section of shouldSkipJob: expireJobIfNeeded.
SkipExpire(r, from, next) ==
    /\ run[r].pc = from
    /\ Goto(r, next)
    /\ UNCHANGED <<idem, nextID, hooks, now>>
    /\ \/ Expire(run[r].job) /\ persistLocked
       \/ /\ ~(jobs[run[r].job].status \in Live /\ isExpired(run[r].job))
          /\ UNCHANGED <<jobs, disk, store>>

\* The second one: runMockJob gives up on a canceled or expired job.
shouldSkipJob(r, from, next) ==
    /\ run[r].pc = from
    /\ Goto(r, IF jobs[run[r].job].status \in {"canceled", "expired"} THEN "over" ELSE next)
    /\ UNCHANGED <<jobs, idem, nextID, disk, store, hooks, now>>

\* Mutants: the status is not checked again; the result is not stored.
transitionUnchecked(j, s, result) ==
    /\ jobs' = [jobs EXCEPT ![j].status = s, ![j].result = @ \/ result]
    /\ UNCHANGED <<idem, nextID>>
    /\ persistLocked

transitionNoResult(j, s, result) ==
    /\ IF jobs[j].status \in {"canceled", "expired"} \/ isExpired(j)
         THEN UNCHANGED jobs ELSE SetStatus(j, s)
    /\ UNCHANGED <<idem, nextID>>
    /\ persistLocked

\* transitionJob.  A job that is not canceled or expired gets the new status,
\* whatever other goroutine brought it where it is.
transitionJob(j, s, result) ==
    /\ UNCHANGED <<idem, nextID>>
    /\ \/ /\ jobs[j].status \in {"canceled", "expired"}
          /\ UNCHANGED <<jobs, disk, store>>
       \/ /\ jobs[j].status \notin {"canceled", "expired"}
          /\ isExpired(j)
          /\ SetStatus(j, "expired")
          /\ persistLocked
       \/ /\ jobs[j].status \notin {"canceled", "expired"}
          /\ ~isExpired(j)
          /\ jobs' = [jobs EXCEPT ![j].status = s, ![j].result = @ \/ result]
          /\ persistLocked

Transition(r, from, s, result, next) ==
    /\ run[r].pc = from
    /\ transitionJob(run[r].job, s, result)
    /\ Goto(r, next)
    /\ UNCHANGED <<hooks, now>>

\* Mutant: the goroutine ends with its last transition.
NotifyNobody(r) ==
    /\ run[r].pc = "notify"
    /\ Goto(r, "over")
    /\ UNCHANGED <<jobs, idem, nextID, disk, store, hooks, now>>

\* The end of runMockJob: the webhook says "succeeded", whatever transitionJob
\* did before.
Notify(r) ==
    /\ run[r].pc = "notify"
    /\ hooks' = hooks \cup {run[r].job}
    /\ Goto(r, "over")
    /\ UNCHANGED <<jobs, idem, nextID, disk, store, now>>

runMockJob(r) ==
    \/ SkipExpire(r, "expire30", "skip30")
    \/ shouldSkipJob(r, "skip30", "running30")
    \/ Transition(r, "running30", "running", FALSE, "expire70")
    \/ SkipExpire(r, "expire70", "skip70")
    \/ shouldSkipJob(r, "skip70", "running70")
    \/ Transition(r, "running70", "running", FALSE, "succeed")
    \/ Transition(r, "succeed", "succeeded", TRUE, "notify")
    \/ Notify(r)

Tick ==
    /\ now < MaxTime
    /\ now' = now + 1
    /\ UNCHANGED <<jobs, idem, nextID, disk, store, run, hooks>>

\* NewServer in a new process: loadState changes no status and starts no
\* goroutine.  An error of Load is only logged, and the server runs from an
\* empty state.
loadState ==
    \/ jobs' = disk.jobs /\ idem' = disk.idem /\ nextID' = disk.nextID /\ Succeeds
    \/ /\ jobs' = [j \in JobId |-> Absent] /\ idem' = [k \in Keys |-> None] /\ nextID' = 0
       /\ Fails

\* The goroutines are gone.  Those that had ended count as killed too if the
\* store had failed: what they did may be undone.
Restart ==
    /\ loadState
    /\ run' = [r \in RunId |->
                 IF run[r].pc = "unused" \/ (run[r].pc = "over" /\ ~store.failed) THEN run[r]
                 ELSE [run[r] EXCEPT !.pc = "killed"]]
    /\ UNCHANGED <<disk, hooks, now>>

Init ==
    /\ jobs = [j \in JobId |-> Absent]
    /\ idem = [k \in Keys |-> None]
    /\ nextID = 0
    /\ disk = Memory /\ store = [faults |-> 0, failed |-> FALSE]
    /\ run = [r \in RunId |-> [job |-> None, pc |-> "unused"]]
    /\ hooks = {}
    /\ now = 0

Next ==
    \/ \E k \in Keys \cup {NoKey} : SubmitBriefJob(k)
    \/ \E j \in JobId : Poll(j) \/ CancelJob(j) \/ ReplayJob(j)
    \/ \E r \in RunId : runMockJob(r)
    \/ Tick
    \/ Restart

Spec == Init /\ [][Next]_vars

\* The goroutines run; nobody needs to poll and the clock may stand still.
RunSpec == Spec /\ \A r \in RunId : WF_vars(runMockJob(r))

-----------------------------------------------------------------------------
\* Every variable has its type.
TypeOK ==
    /\ Memory \in State /\ disk \in State
    /\ run \in [RunId -> [job : {None} \cup JobId, pc : Stages]]
    /\ hooks \subseteq JobId
    /\ store \in [faults : Nat, failed : BOOLEAN]
    /\ now \in Nat

\* What is saved is what the clients were told, ids and idempotency records
\* included, unless the last call of the store has failed: the next one that
\* does not makes up for a Save that failed, and a restart forgets nothing
\* else.
Durable == ~store.failed => disk = Memory

\* A job that is reported as succeeded has its result, however many goroutines
\* worked on it.
SucceededHasResult == \A j \in JobId : jobs[j].status = "succeeded" => jobs[j].result

\* A goroutine that is still under way never takes a job out of canceled or
\* expired: only ReplayJob does, and it starts a goroutine, or a restart with a
\* store that failed, which may bring back an older state or none.
OnlyReplayRevives ==
    [][\A j \in JobId :
         jobs[j].status \in {"canceled", "expired"} /\ jobs'[j].status # jobs[j].status =>
            \/ /\ jobs'[j].status = "queued"
               /\ \E r \in RunId : run[r].pc = "unused" /\ run'[r].job = j
            \/ Restart /\ (store.failed \/ store'.failed)]_vars

\* A restart killed a goroutine of the job, or of one that had its id before
\* the store lost it, and loadState started none.
Killed(j) == \E r \in RunId : run[r].job = j /\ run[r].pc = "killed"

\* Every job that no restart interrupts ends, whatever clients cancel and
\* replay.
EventuallyTerminal ==
    \A j \in JobId : (jobs[j].status \in Live) ~> (jobs[j].status \in Terminal \/ Killed(j))

\* A job that succeeds is announced, unless a restart comes first.
SucceededIsAnnounced ==
    \A j \in JobId : (jobs[j].status = "succeeded") ~> (j \in hooks \/ Killed(j))
=============================================================================
