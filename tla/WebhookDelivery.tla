--------------------------- MODULE WebhookDelivery --------------------------
(***************************************************************************)
(* Dispatcher.deliver (internal/delivery/webhook/dispatcher.go), run by    *)
(* dispatchJobCompletedWebhook of the orchestrator under a deadline, for   *)
(* one event, with its delivery log, a JSONLStore (store.go).               *)
(*                                                                         *)
(* The receiver is seen through what it answers and what it really did:    *)
(* a request may be handled although its answer is lost or late.           *)
(***************************************************************************)
EXTENDS Integers, Sequences, FiniteSets

CONSTANTS
    MaxAttempts,      \* config.maxAttempts
    InitialBackoff,   \* config.initialBackoff, in ticks
    MaxBackoff,       \* config.maxBackoff
    JitterPercent,    \* config.jitterFraction, in percent
    RequestTimeout,   \* config.requestTimeout
    Deadlines,        \* when the context of a caller may end
    DispatchTimeout,  \* when that of dispatchJobCompletedWebhook ends
    MaxFaults         \* bound: writes to the log that fail or tear

ASSUME WebhookDeliveryAssumption ==
    /\ MaxAttempts \in Nat \ {0}
    /\ InitialBackoff \in Nat /\ MaxBackoff \in Nat
    /\ JitterPercent \in 0 .. 100
    /\ RequestTimeout \in Nat \ {0} /\ Deadlines \subseteq Nat
    /\ DispatchTimeout \in Deadlines /\ MaxFaults \in Nat

VARIABLES
    deadline, \* when the context ends
    broken,   \* callback.Signing asks for another algorithm or has no secret
    pc,       \* where deliver is
    attempt,  \* its loop variable
    elapsed,  \* ticks since the context was created
    err,      \* lastErr: "nil", "retryable" or "nonretryable"
    delay,    \* retryDelay
    file,     \* the log: what the successive writes left at its end
    faults,   \* how many of them went wrong
    handled   \* how often the receiver has handled the event (capped at 2)

vars == <<deadline, broken, pc, attempt, elapsed, err, delay, file, faults, handled>>

\* A DeliveryRecord of another job, the part of a record that a failed or
\* interrupted write leaves, and the line end.
Other == [is |-> "other"]
Half == [is |-> "half"]
NL == [is |-> "nl"]

Min2(a, b) == IF a <= b THEN a ELSE b

\* math.Pow(2, n).
Pow2(n) ==
    LET p[i \in 0 .. n] == IF i = 0 THEN 1 ELSE 2 * p[i - 1]
    IN  p[n]

\* The exponential backoff before the jitter; 0 for MaxBackoff is no cap.
Backoff(n) ==
    LET raw == InitialBackoff * Pow2(n - 1)
    IN  IF MaxBackoff > 0 THEN Min2(raw, MaxBackoff) ELSE raw

\* The values rng can make of it, in whole ticks: both ends are rounded
\* outwards.
Jittered(d) ==
    (d * (100 - JitterPercent)) \div 100 .. (d * (100 + JitterPercent) + 99) \div 100

\* Mutant: the cap is ignored.
BackoffUncapped(n) == Jittered(InitialBackoff * Pow2(n - 1))

backoff(n) == Jittered(Backoff(n))

isNonRetryable(e) == e = "nonretryable"

Handle == handled' = Min2(handled + 1, 2)

Running == pc \in {"try", "record", "newline", "sleep"}

Finish(outcome) == pc' = outcome

\* tryOnce returns a result after d ticks: 2xx; an error answer, before or
\* after the receiver handled the event; no answer in time; or the error of a
\* callback that cannot be signed.  The request context ends with the outer
\* one.
tryOnce ==
    /\ pc = "try"
    /\ pc' = "record"
    /\ \/ /\ ~broken
          /\ elapsed < deadline
          /\ \E d \in 0 .. Min2(RequestTimeout, deadline - elapsed) :
               /\ elapsed' = elapsed + d
               /\ \/ err' = "nil" /\ Handle
                  \/ err' = "retryable" /\ (Handle \/ UNCHANGED handled)
       \/ /\ ~broken
          /\ elapsed >= deadline
          /\ err' = "retryable"
          /\ UNCHANGED <<elapsed, handled>>
       \/ /\ broken
          /\ err' = "nonretryable"
          /\ UNCHANGED <<elapsed, handled>>
    /\ UNCHANGED <<deadline, broken, attempt, delay, file, faults>>

retryableFailure == err # "nil" /\ attempt < MaxAttempts /\ ~isNonRetryable(err)

Records == [is : {"record"}, attempt : 1 .. MaxAttempts, success : BOOLEAN, retry : BOOLEAN]

Record ==
    [is |-> "record", attempt |-> attempt, success |-> err = "nil", retry |-> retryableFailure]

\* What follows persist in the loop body, up to the sleep.
GoOn ==
    IF retryableFailure
      THEN /\ \E d \in backoff(attempt) : delay' = d
           /\ pc' = "sleep"
      ELSE /\ delay' = 0
           /\ Finish(IF err = "nil" THEN "delivered" ELSE "failed")

\* A write of JSONLStore.Write that leaves f in the file although it failed;
\* persist drops the error.
WriteFails(f) ==
    /\ faults < MaxFaults
    /\ faults' = faults + 1
    /\ file' = f
    /\ GoOn

\* The first write: the encoded record.
WriteRecord ==
    /\ pc = "record"
    /\ \/ /\ file' = Append(file, Record)
          /\ pc' = "newline"
          /\ UNCHANGED <<delay, faults>>
       \/ WriteFails(file)
       \/ WriteFails(Append(file, Half))
    /\ UNCHANGED <<deadline, broken, attempt, elapsed, err, handled>>

\* Mutant: the line is ended only after the last record.
WriteNewlineAtEnd ==
    /\ pc = "newline"
    /\ file' = IF retryableFailure THEN file ELSE Append(file, NL)
    /\ GoOn
    /\ UNCHANGED <<deadline, broken, attempt, elapsed, err, faults, handled>>

\* The second write: the line end.
WriteNewline ==
    /\ pc = "newline"
    /\ \/ file' = Append(file, NL) /\ UNCHANGED faults /\ GoOn
       \/ WriteFails(file)
    /\ UNCHANGED <<deadline, broken, attempt, elapsed, err, handled>>

\* sleepWithContext: a context that is over ends the delivery, unless there
\* is nothing to wait for.
Sleep ==
    /\ pc = "sleep"
    /\ IF delay = 0 \/ elapsed + delay < deadline
         THEN /\ elapsed' = elapsed + delay
              /\ attempt' = attempt + 1
              /\ pc' = "try"
         ELSE /\ elapsed' = deadline
              /\ Finish("canceled")
              /\ UNCHANGED attempt
    /\ delay' = 0
    /\ UNCHANGED <<deadline, broken, err, file, faults, handled>>

\* The process dies, perhaps within a write; loadState does not resume a
\* delivery.
Crash ==
    /\ Running
    /\ Finish("lost")
    /\ \/ UNCHANGED file
       \/ pc = "record" /\ file' = Append(file, Half)
    /\ UNCHANGED <<deadline, broken, attempt, elapsed, err, delay, faults, handled>>

\* The log is the one an earlier process has left: it may have died before a
\* line end, or within a record.
Init ==
    /\ deadline \in Deadlines
    /\ broken \in BOOLEAN
    /\ pc = "try" /\ attempt = 1 /\ elapsed = 0
    /\ err = "nil" /\ delay = 0 /\ handled = 0
    /\ \/ file = <<>> /\ faults = 0
       \/ MaxFaults > 0 /\ file \in {<<Other>>, <<Half>>} /\ faults = 1

Next == tryOnce \/ WriteRecord \/ WriteNewline \/ Sleep \/ Crash

Spec == Init /\ [][Next]_vars

\* ListByJobID: the lines that are one record of this job; a line that does
\* not parse is skipped.  (A line too long for the scanner, an error for the
\* whole file, is left out.)
ListByJobID ==
    {i \in 1 .. Len(file) :
        /\ file[i].is = "record"
        /\ i > 1 => file[i - 1] = NL
        /\ i < Len(file) => file[i + 1] = NL}

-----------------------------------------------------------------------------
\* Every variable has its type, and the loop never makes an extra attempt.
TypeOK ==
    /\ deadline \in Deadlines
    /\ broken \in BOOLEAN
    /\ pc \in {"try", "record", "newline", "sleep", "delivered", "failed", "canceled", "lost"}
    /\ attempt \in 1 .. MaxAttempts
    /\ elapsed \in Nat /\ delay \in Nat
    /\ err \in {"nil", "retryable", "nonretryable"}
    /\ file \in Seq(Records \cup {Other, Half, NL})
    /\ faults \in 0 .. MaxFaults
    /\ handled \in 0 .. 2

\* The attempts whose record was to be written.
Persisted ==
    CASE pc \in {"try", "record"} -> attempt - 1
      [] pc \in {"newline", "sleep", "delivered", "failed", "canceled"} -> attempt
      [] pc = "lost" -> 0

\* GetJobDeliveries can be trusted at any moment, also when writes to the log
\* fail or a process dies within one.  The attempts it lists are in order, and
\* one that reports success means that the receiver handled the event.  A
\* record that announces a retry was followed by another attempt, unless
\* deliver has not come to it yet, its context ended during the wait or the
\* process died; a record that announces none is that of the last attempt.
\* What goes wrong once hides two records at most, the one that was being
\* written and the next one, which ends up on the same line.
LogTellsTheStory ==
    /\ \A i, j \in ListByJobID : i < j => file[i].attempt < file[j].attempt
    /\ \A i \in ListByJobID : file[i].success => handled > 0 /\ ~file[i].retry
    /\ \A i \in ListByJobID :
         IF file[i].retry
           THEN attempt > file[i].attempt \/ pc \in {"newline", "sleep", "canceled", "lost"}
           ELSE attempt = file[i].attempt /\ pc \in {"newline", "delivered", "failed", "lost"}
    /\ Cardinality(ListByJobID) >= Persisted - 2 * faults
    /\ pc \in {"delivered", "failed"} /\ faults = 0 =>
         \E i \in ListByJobID : ~file[i].retry /\ (file[i].success <=> pc = "delivered")

\* docs/api-contract.md, section 5: a delivery is given up only after a 2xx or
\* after all attempts.  With the default configuration the deadline of
\* dispatchJobCompletedWebhook leaves room for all ten.
AllAttemptsMade ==
    deadline >= DispatchTimeout =>
        /\ pc # "canceled"
        /\ pc = "failed" => attempt = MaxAttempts \/ err = "nonretryable"
=============================================================================
