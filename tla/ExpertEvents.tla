----------------------------- MODULE ExpertEvents ---------------------------
(***************************************************************************)
(* The way of a completed task from an expert runtime to its job: the      *)
(* runtime of module ExpertRuntime posts one signed event                  *)
(* (HTTPEventSink, internal/expert/runtime/events.go), the network delays, *)
(* loses or repeats it, and the orchestrator verifies it with the guard of *)
(* module ReplayGuard and applies it (ExpertEventsHandler,                 *)
(* internal/orchestrator/server.go).                                       *)
(*                                                                         *)
(* The task id is the job id (RuntimeExecutor).  Of a job we keep the      *)
(* class of its status, in memory and in the snapshot: unknown, open       *)
(* (queued or running), succeeded, ended (failed or expired) or canceled.  *)
(* Module Orchestrator has the details of the steps that change it here.   *)
(***************************************************************************)
EXTENDS ExpertRuntime, ReplayGuard

CONSTANT
    MaxMoves   \* bound: steps and restarts of the orchestrator that no event causes

ASSUME ExpertEventsAssumption == MaxMoves \in Nat

VARIABLES
    posted,    \* the requests sent: whose run, under which id, signed when
    job,       \* Server.jobs: the class of the status per job
    disk,      \* the same, in the snapshot of the state store
    fate,      \* history: per run, what the orchestrator did with its event
    closed,    \* history: jobs the orchestrator has ended without an event
    overruled, \* history: jobs the worker has taken out of succeeded
    moves      \* how many steps it has taken without an event

orchVars == <<job, disk, closed, overruled, moves>>
eventVars == <<posted, fate, orchVars>>
vars == <<runtimeVars, guardVars, eventVars>>

Status == {"unknown", "open", "succeeded", "ended", "canceled"}
Fate == {"none", "dropped", "unknown", "ignored", "applied"}

-----------------------------------------------------------------------------
\* The end of runAsyncTask: the id is the clock in nanoseconds, so runs that
\* end together may draw the same one; HTTPEventSink signs once.
PostEvent(r) ==
    /\ SendTaskCompleted(r)
    /\ \E e \in Events, t \in Time :
         /\ Sign(e, t)
         /\ posted' = posted \cup {[run |-> r, event |-> e, ts |-> t]}
    /\ UNCHANGED <<fate, orchVars>>

\* persistLocked: Save may fail, and only the log tells.
Save == disk' = job' \/ disk' = disk

Set(j, s) == job' = [job EXCEPT ![j] = s] /\ Save

\* The first answer stays with the run, since the sink does not try again,
\* unless a copy of the request is applied later.
Note(r, f) ==
    fate' = [fate EXCEPT ![r] = IF @ = "none" \/ f = "applied" THEN f ELSE @]

\* ExpertEventsHandler after Verify, for the event of a run of job j.
Apply(r, j) ==
    /\ \/ job[j] = "unknown" /\ Note(r, "unknown") /\ UNCHANGED <<job, disk>>
       \/ job[j] = "open" /\ Note(r, "applied") /\ Set(j, "succeeded")
       \/ /\ job[j] \in {"succeeded", "ended", "canceled"}
          /\ Note(r, "ignored")
          /\ UNCHANGED <<job, disk>>
    /\ UNCHANGED <<closed, overruled, moves>>

\* Mutant: the request is verified twice, by the route and by the handler.
ReceiveVerifiedTwice(q) ==
    /\ Accept(q.event, q.ts) \/ RejectReplay(q.event, q.ts)
    /\ Note(q.run, "dropped")
    /\ UNCHANGED <<posted, orchVars, runtimeVars>>

\* ExpertEventsHandler for a request the network presents, now or again.
Receive(q) ==
    /\ \/ Accept(q.event, q.ts) /\ Apply(q.run, task[q.run])
       \/ RejectReplay(q.event, q.ts) /\ Note(q.run, "dropped") /\ UNCHANGED orchVars
       \/ ~InWindow(q.ts) /\ UNCHANGED <<guardVars, fate, orchVars>>
    /\ UNCHANGED <<posted, runtimeVars>>

-----------------------------------------------------------------------------
(***************************************************************************)
(* The rest of the orchestrator, as far as it touches the status of a job. *)
(***************************************************************************)

Move == moves < MaxMoves /\ moves' = moves + 1

\* processBriefJob, in any of its critical sections.  It stops for a canceled
\* job only: whatever else has happened meanwhile, the job is running, queued
\* again, succeeded, failed or expired afterwards.
WorkerSets(j) ==
    /\ Move
    /\ job[j] \in {"open", "succeeded", "ended"}
    /\ \E s \in {"open", "succeeded", "ended"} \ {job[j]} :
         /\ Set(j, s)
         /\ closed' = IF s = "open" THEN closed ELSE closed \cup {j}
    /\ overruled' = IF job[j] = "succeeded" THEN overruled \cup {j} ELSE overruled
    /\ UNCHANGED <<posted, fate, runtimeVars, guardVars>>

\* CancelJob and expireJobIfNeeded.
EndJob(j) ==
    /\ Move
    /\ job[j] = "open"
    /\ Set(j, "canceled") \/ Set(j, "ended")
    /\ closed' = closed \cup {j}
    /\ UNCHANGED <<overruled, posted, fate, runtimeVars, guardVars>>

ReplayJob(j) ==
    /\ Move
    /\ job[j] \in {"ended", "canceled"}
    /\ Set(j, "open")
    /\ UNCHANGED <<closed, overruled, posted, fate, runtimeVars, guardVars>>

\* SubmitBriefJob, with an id that was given before the jobs were lost.
SubmitJob(j) ==
    /\ Move
    /\ job[j] = "unknown"
    /\ Set(j, "open")
    /\ UNCHANGED <<closed, overruled, posted, fate, runtimeVars, guardVars>>

NoJobs == [j \in Tasks |-> "unknown"]

\* The orchestrator starts again, from the last snapshot that was saved, from
\* nothing if the file is lost, or from nothing though the file is there if it
\* cannot be read; nothing brings the guard back.
RestartOrchestrator ==
    /\ Move
    /\ Restart
    /\ \/ job' = disk /\ UNCHANGED disk
       \/ job' = NoJobs /\ disk' \in {disk, NoJobs}
    /\ UNCHANGED <<closed, overruled, posted, fate, runtimeVars>>

Init ==
    /\ RuntimeInit
    /\ GuardInit
    /\ posted = {}
    /\ job = [j \in Tasks |-> "open"]
    /\ disk = job
    /\ fate = [r \in RunId |-> "none"]
    /\ closed = {}
    /\ overruled = {}
    /\ moves = 0

Next ==
    \/ RuntimeNext /\ UNCHANGED <<guardVars, eventVars>>
    \/ \E r \in RunId : PostEvent(r)
    \/ \E q \in posted : Receive(q)
    \/ \E j \in Tasks : WorkerSets(j) \/ EndJob(j) \/ ReplayJob(j) \/ SubmitJob(j)
    \/ Tick /\ UNCHANGED <<runtimeVars, eventVars>>
    \/ RestartOrchestrator

Spec == Init /\ [][Next]_vars

-----------------------------------------------------------------------------
\* Every variable has its type.
TypeOK ==
    /\ RuntimeTypeOK /\ GuardTypeOK
    /\ posted \subseteq [run : RunId, event : Events, ts : Time]
    /\ job \in [Tasks -> Status]
    /\ disk \in [Tasks -> Status]
    /\ fate \in [RunId -> Fate]
    /\ closed \subseteq Tasks
    /\ overruled \subseteq Tasks
    /\ moves \in Nat

\* Where a completion goes that reaches the orchestrator in time.  The guard
\* marks an event before its handler runs, the ids are drawn from a clock and
\* the worker sets a status without looking at it, so a result can be lost;
\* but it is dropped as a repetition only if the event of another run that was
\* handled drew the same id, it finds no job only after a restart, it is
\* ignored only if the orchestrator ended the job itself or the event of
\* another run did, and once applied it is undone only by the worker or by a
\* restart: by no event, cancel, expiry or replay.
CompletionNotWasted ==
    \A r \in RunId :
        /\ fate[r] = "dropped" =>
             \E p, q \in posted : /\ p.run = r /\ q.run # r
                                  /\ p.event = q.event
                                  /\ fate[q.run] \in {"unknown", "ignored", "applied"}
        /\ fate[r] = "unknown" => restarts > 0
        /\ fate[r] = "ignored" =>
             \/ task[r] \in closed
             \/ \E q \in RunId \ {r} : task[q] = task[r] /\ fate[q] = "applied"
        /\ fate[r] = "applied" =>
             \/ job[task[r]] = "succeeded"
             \/ task[r] \in overruled
             \/ restarts > 0
=============================================================================
