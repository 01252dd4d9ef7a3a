---------------------------- MODULE JobLifecycle ----------------------------
(***************************************************************************)
(* What the API promises about the status of a job: the state machine of   *)
(* docs/api-contract.md, section 6, with the replay of canceled and        *)
(* expired jobs that docs/api-assistant.md, section 3.6, adds and the      *)
(* return to queued of a running job that is retried or found by a         *)
(* restarted server.  A restart requeues all running jobs at once.         *)
(***************************************************************************)
CONSTANT Jobs
VARIABLE status

Init == status = [j \in Jobs |-> "absent"]

Submit(j) == status[j] = "absent" /\ status' = [status EXCEPT ![j] = "queued"]

Run(j) == status[j] = "queued" /\ status' = [status EXCEPT ![j] = "running"]

Finish(j) ==
    /\ status[j] = "running"
    /\ \E s \in {"succeeded", "failed"} : status' = [status EXCEPT ![j] = s]

Abandon(j) ==
    /\ status[j] \in {"queued", "running"}
    /\ \E s \in {"canceled", "expired"} : status' = [status EXCEPT ![j] = s]

Retry(j) == status[j] = "running" /\ status' = [status EXCEPT ![j] = "queued"]

Replay(j) ==
    /\ status[j] \in {"failed", "canceled", "expired"}
    /\ status' = [status EXCEPT ![j] = "queued"]

Recover ==
    status' = [j \in Jobs |-> IF status[j] = "running" THEN "queued" ELSE status[j]]

Next ==
    \/ \E j \in Jobs : Submit(j) \/ Run(j) \/ Finish(j) \/ Abandon(j) \/ Retry(j) \/ Replay(j)
    \/ Recover

Spec == Init /\ [][Next]_status
=============================================================================
