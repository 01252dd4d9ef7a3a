------------------------- MODULE ExpertEventsProofs -------------------------
(***************************************************************************)
(* What the replay guard, the expert runtime and the way of its events     *)
(* guarantee for any number of tasks, runs and events, whatever the        *)
(* network does and however often the orchestrator restarts.               *)
(***************************************************************************)
EXTENDS ExpertEvents, FiniteSetTheorems, TLAPS

-----------------------------------------------------------------------------
(***************************************************************************)
(* The replay guard.  How long it has to remember: for every window, every *)
(* memory that is longer than two windows and the time a sender may go on  *)
(* signing, and any number of events.                                      *)
(***************************************************************************)

\* The configuration NewVerifier does not check.
LongMemory == ReplayTTL > 2 * AllowedSkew + Span

\* The signatures of one event lie within Span.
Spread ==
    \A m, n \in sent : m.event = n.event => m.ts - n.ts <= Span

\* The event was accepted for a request m that was at most one window ahead of
\* the clock, and is remembered until ReplayTTL after that, if that is not past.
Remembered(e) ==
    \E m \in sent :
        /\ m.event = e
        /\ \/ seen[e] >= m.ts - AllowedSkew + ReplayTTL
           \/ now >= m.ts - AllowedSkew + ReplayTTL

\* The inductive invariant: that a process accepts once says nothing of how
\* long it remembers, which is why it holds.
GuardInv ==
    /\ GuardTypeOK
    /\ Spread
    /\ \A e \in Events :
         accepted[e] <= 1 + restarts /\ (accepted[e] > restarts => Remembered(e))

\* What the cleanup of CheckAndMark keeps of a remembered event.
LEMMA KeptRemembered ==
    ASSUME GuardInv, NEW e \in Events, Remembered(e)
    PROVE  /\ Kept[e] \in Int
           /\ Kept[e] # Never => Kept[e] = seen[e]
           /\ Kept[e] = Never => (seen[e] <= now \/ seen[e] = Never)
  BY DEF GuardInv, GuardTypeOK, Kept, Never, Time

\* An event that was accepted and is no longer remembered is out of its window.
LEMMA ForgottenIsStale ==
    ASSUME LongMemory, GuardInv, NEW e \in Events, accepted[e] > restarts, Kept[e] = Never,
           NEW t \in Time, Signed(e, t)
    PROVE  ~InWindow(t)
  <1>1. PICK m \in sent : /\ m.event = e
                          /\ \/ seen[e] >= m.ts - AllowedSkew + ReplayTTL
                             \/ now >= m.ts - AllowedSkew + ReplayTTL
    BY DEF GuardInv, Remembered
  <1>2. m.ts \in Int /\ seen[e] \in Int /\ now \in Int /\ t \in Int
        /\ AllowedSkew \in Int /\ ReplayTTL \in Int /\ Span \in Int
        /\ now >= 0 /\ m.ts >= 0
    BY ReplayGuardAssumption DEF GuardInv, GuardTypeOK, Request, Time
  <1>3. seen[e] <= now
    BY <1>2 DEF Kept, Never
  <1>4. now >= m.ts - AllowedSkew + ReplayTTL
    BY <1>1, <1>2, <1>3
  <1>5. t - m.ts <= Span
    BY <1>1 DEF GuardInv, Spread, Signed
  <1>6. now - t > AllowedSkew
    BY <1>2, <1>4, <1>5 DEF LongMemory
  <1>. QED
    BY <1>2, <1>6, ReplayGuardAssumption DEF InWindow, absDuration

\* A step keeps what is remembered when it forgets only what is expired.
LEMMA KeptKeeps ==
    ASSUME GuardInv, NEW e \in Events, Remembered(e), now' = now, sent' = sent,
           seen'[e] = Kept[e]
    PROVE  Remembered(e)'
  <1>1. PICK m \in sent : /\ m.event = e
                          /\ \/ seen[e] >= m.ts - AllowedSkew + ReplayTTL
                             \/ now >= m.ts - AllowedSkew + ReplayTTL
    BY DEF Remembered
  <1>2. /\ m.ts \in Int /\ seen[e] \in Int /\ now \in Int /\ now >= 0
        /\ AllowedSkew \in Int /\ ReplayTTL \in Int
    BY ReplayGuardAssumption DEF GuardInv, GuardTypeOK, Request, Time
  <1>3. \/ seen'[e] >= m.ts - AllowedSkew + ReplayTTL
        \/ now' >= m.ts - AllowedSkew + ReplayTTL
    BY <1>1, <1>2 DEF Kept, Never
  <1>. QED
    BY <1>1, <1>3 DEF Remembered

\* The initial state satisfies the invariant.
LEMMA InitIInv ==
    ASSUME GuardInit
    PROVE  GuardInv
  BY DEF GuardInit, GuardInv, GuardTypeOK, Spread, Never, Time, Request

\* Every step keeps the invariant.
LEMMA StepIInv ==
    ASSUME LongMemory, GuardInv, [GuardNext]_guardVars
    PROVE  GuardInv'
  <1>1. ASSUME NEW e \in Events, NEW t \in Time, Sign(e, t)
        PROVE  GuardInv'
    <2>1. GuardTypeOK'
      BY <1>1 DEF GuardInv, GuardTypeOK, Sign, Request
    <2>2. Spread'
      <3>1. \A m \in sent : m.event = e => (t - m.ts <= Span /\ m.ts - t <= Span)
        BY <1>1, ReplayGuardAssumption DEF Sign, GuardInv, GuardTypeOK, Request, Time
      <3>2. t - t <= Span
        BY ReplayGuardAssumption DEF Time
      <3>. QED
        BY <1>1, <3>1, <3>2 DEF GuardInv, Spread, Sign
    <2>3. \A f \in Events : accepted'[f] <= 1 + restarts' /\ (accepted'[f] > restarts' => Remembered(f)')
      BY <1>1 DEF GuardInv, Remembered, Sign
    <2>. QED
      BY <2>1, <2>2, <2>3 DEF GuardInv
  <1>2. ASSUME NEW e \in Events, NEW t \in Time, Accept(e, t)
        PROVE  GuardInv'
    <2>1. /\ Signed(e, t) /\ InWindow(t) /\ Kept[e] = Never
          /\ seen' = [Kept EXCEPT ![e] = now + ReplayTTL]
          /\ accepted' = [accepted EXCEPT ![e] = @ + 1]
          /\ now' = now /\ sent' = sent /\ restarts' = restarts
      BY <1>2 DEF Accept, Mark
    <2>2. accepted[e] <= restarts
      BY <2>1, ForgottenIsStale DEF GuardInv, GuardTypeOK
    <2>3. GuardTypeOK'
      BY <2>1, ReplayGuardAssumption DEF GuardInv, GuardTypeOK, Kept, Never, Time
    <2>4. Remembered(e)'
      <3>1. now + ReplayTTL >= t - AllowedSkew + ReplayTTL
        BY <2>1, ReplayGuardAssumption DEF InWindow, absDuration, GuardInv, GuardTypeOK, Time
      <3>2. seen'[e] = now + ReplayTTL
        BY <2>1 DEF Kept
      <3>. QED
        BY <2>1, <3>1, <3>2 DEF Remembered, Signed
    <2>5. ASSUME NEW f \in Events, f # e
          PROVE  accepted'[f] <= 1 + restarts' /\ (accepted'[f] > restarts' => Remembered(f)')
      <3>1. seen'[f] = Kept[f] /\ accepted'[f] = accepted[f]
        BY <2>1, <2>5 DEF Kept, GuardInv, GuardTypeOK
      <3>. QED
        BY <2>1, <3>1, KeptKeeps DEF GuardInv
    <2>6. accepted'[e] <= 1 + restarts'
      BY <2>1, <2>2 DEF GuardInv, GuardTypeOK
    <2>7. Spread'
      BY <2>1 DEF GuardInv, Spread
    <2>. QED
      BY <2>3, <2>4, <2>5, <2>6, <2>7 DEF GuardInv
  <1>3. ASSUME NEW e \in Events, NEW t \in Time, RejectReplay(e, t)
        PROVE  GuardInv'
    <2>1. seen' = Kept /\ now' = now /\ sent' = sent /\ accepted' = accepted
          /\ restarts' = restarts
      BY <1>3 DEF RejectReplay
    <2>2. GuardTypeOK'
      BY <2>1 DEF GuardInv, GuardTypeOK, Kept, Never, Time
    <2>3. \A f \in Events : accepted'[f] <= 1 + restarts' /\ (accepted'[f] > restarts' => Remembered(f)')
      BY <2>1, KeptKeeps DEF GuardInv
    <2>. QED
      BY <2>1, <2>2, <2>3 DEF GuardInv, Spread
  <1>4. CASE Tick
    <2>1. now' = now + 1 /\ now' \in Time /\ seen' = seen /\ sent' = sent
          /\ accepted' = accepted /\ restarts' = restarts
      BY <1>4, ReplayGuardAssumption DEF Tick, GuardInv, GuardTypeOK, Time
    <2>2. ASSUME NEW f \in Events, Remembered(f)
          PROVE  Remembered(f)'
      <3>1. \A m \in sent : m.ts \in Int
        BY DEF GuardInv, GuardTypeOK, Request, Time
      <3>. QED
        BY <2>1, <2>2, <3>1, ReplayGuardAssumption DEF Remembered, GuardInv, GuardTypeOK, Time
    <2>. QED
      BY <2>1, <2>2 DEF GuardInv, GuardTypeOK, Spread
  <1>5. CASE Restart
    <2>1. /\ now' = now /\ sent' = sent /\ accepted' = accepted
          /\ restarts' = restarts + 1 /\ seen' = [e \in Events |-> Never]
      BY <1>5 DEF Restart
    <2>2. GuardTypeOK'
      BY <2>1 DEF GuardInv, GuardTypeOK, Never
    <2>3. \A f \in Events : accepted'[f] <= restarts'
      BY <2>1 DEF GuardInv, GuardTypeOK
    <2>4. \A f \in Events : accepted'[f] <= 1 + restarts' /\ (accepted'[f] > restarts' => Remembered(f)')
      BY <2>1, <2>2, <2>3 DEF GuardTypeOK
    <2>. QED
      BY <2>1, <2>2, <2>4 DEF GuardInv, Spread
  <1>6. CASE UNCHANGED guardVars
    BY <1>6 DEF guardVars, GuardInv, GuardTypeOK, Spread, Remembered
  <1>. QED
    BY <1>1, <1>2, <1>3, <1>4, <1>5, <1>6 DEF GuardNext

\* A verifier whose replayTTL exceeds two windows plus the time the sender may
\* go on signing (the defaults: 15 minutes, 5 minutes, one minute) accepts an
\* event at most once per life of its process, whatever the clocks and the
\* network do.
THEOREM OncePerProcess == LongMemory /\ GuardSpec => []AcceptedOncePerProcess
  <1>1. SUFFICES ASSUME LongMemory
                 PROVE  GuardSpec => []AcceptedOncePerProcess
    OBVIOUS
  <1>2. GuardInit => GuardInv
    BY InitIInv
  <1>3. GuardInv /\ [GuardNext]_guardVars => GuardInv'
    BY <1>1, StepIInv
  <1>4. GuardInv => AcceptedOncePerProcess
    BY DEF GuardInv, AcceptedOncePerProcess
  <1>. QED
    BY <1>2, <1>3, <1>4, PTL DEF GuardSpec

-----------------------------------------------------------------------------
(***************************************************************************)
(* The runtime.                                                            *)
(***************************************************************************)

\* A run that was created has its task, and one that was not is not canceled.
RunHasTask ==
    \A r \in RunId : IF pc[r] = "unused" THEN ~canceled[r] ELSE task[r] \in Tasks

\* Only the asynchronous mode stores a cancel function.
HandleIsAsync == \A t \in Tasks : pending[t] # None => pc[pending[t]] # "sync"

Async(r) == pc[r] \in {"created", "async", "sending", "cleanup"}

\* Runs of one task that overlap are on record: each of them may delete the
\* entry of the other.
OverlapShared ==
    \A q, r \in RunId : q # r /\ Async(q) /\ Async(r) /\ task[q] = task[r] => r \in shared

\* The inductive invariant of the runtime.
RuntimeInv ==
    /\ RuntimeTypeOK /\ RunHasTask
    /\ HandleIsLive /\ HandleIsAsync
    /\ OverlapShared /\ RunningTaskCancelable
    /\ MetricsAddUp

-----------------------------------------------------------------------------
\* The runtime starts without runs.
LEMMA InitRuntime ==
    ASSUME RuntimeInit
    PROVE  RuntimeInv
  <1>1. InFlight = {}
    BY DEF RuntimeInit, InFlight
  <1>2. Cardinality(InFlight) = 0
    BY <1>1, FS_EmptySet
  <1>3. MetricsAddUp
    BY <1>2 DEF RuntimeInit, MetricsAddUp, Counter
  <1>. QED
    BY <1>3 DEF RuntimeInit, RuntimeInv, RuntimeTypeOK, RunHasTask, HandleIsLive, HandleIsAsync,
                OverlapShared, Async, RunningTaskCancelable, None

\* There are finitely many runs in flight.
LEMMA FlightsFinite == IsFiniteSet(InFlight) /\ Cardinality(InFlight) \in Nat
  <1>1. IsFiniteSet(RunId)
    BY FS_Interval, ExpertRuntimeAssumption DEF RunId
  <1>. QED
    BY <1>1, FS_Subset, FS_CardinalityType DEF InFlight

\* A run that is created adds one to the runs in flight and one to the total.
LEMMA NewRunCounts ==
    ASSUME RuntimeTypeOK, MetricsAddUp, NEW r \in RunId, NEW t \in Tasks,
           NEW mode \in {"sync", "created"}, NewRun(r, t, mode)
    PROVE  MetricsAddUp'
  <1>1. InFlight' = InFlight \cup {r} /\ r \notin InFlight
    BY DEF NewRun, Goto, InFlight, RuntimeTypeOK
  <1>2. Cardinality(InFlight') = Cardinality(InFlight) + 1
    BY <1>1, FlightsFinite, FS_AddElement
  <1>. QED
    BY <1>2, FlightsFinite DEF NewRun, Count, MetricsAddUp, RuntimeTypeOK, Counter

\* A run that ends is counted once, as it leaves the runs in flight.
LEMMA EndCounts ==
    ASSUME RuntimeTypeOK, MetricsAddUp, NEW r \in RunId, Fails(r) \/ Succeeds(r)
    PROVE  MetricsAddUp'
  <1>1. InFlight' = InFlight \ {r} /\ r \in InFlight
    BY DEF Fails, Succeeds, Goto, InFlight, RuntimeTypeOK
  <1>2. Cardinality(InFlight') = Cardinality(InFlight) - 1
    BY <1>1, FlightsFinite, FS_RemoveElement
  <1>. QED
    BY <1>2, FlightsFinite DEF Fails, Succeeds, Count, MetricsAddUp, RuntimeTypeOK, Counter

\* Every other step keeps the runs in flight.
LEMMA OthersCount ==
    ASSUME MetricsAddUp, InFlight' = InFlight,
           \A c \in {"total", "succeeded", "failed"} : metrics'[c] = metrics[c]
    PROVE  MetricsAddUp'
  BY DEF MetricsAddUp

\* Creating a synchronous run touches no entry.
LEMMA CreateSyncInv ==
    ASSUME RuntimeInv, NEW r \in RunId, NEW t \in Tasks, CreateSync(r, t)
    PROVE  RuntimeInv'
  <1>1. RuntimeTypeOK
    BY DEF RuntimeInv
  <1>2. RuntimeTypeOK'
    BY <1>1 DEF RuntimeTypeOK, CreateSync, NewRun, Goto, Count, Counter
  <1>3. MetricsAddUp'
    BY NewRunCounts DEF RuntimeInv, CreateSync
  <1>4. /\ pc[r] = "unused" /\ pc' = [pc EXCEPT ![r] = "sync"]
        /\ task' = [task EXCEPT ![r] = t]
        /\ UNCHANGED <<pending, canceled, shared>>
    BY DEF CreateSync, NewRun, Goto
  <1>5. HandleIsLive' /\ HandleIsAsync'
    BY <1>1, <1>4 DEF RuntimeInv, RuntimeTypeOK, HandleIsLive, HandleIsAsync, Over
  <1>6. RunHasTask' /\ OverlapShared' /\ RunningTaskCancelable'
    BY <1>1, <1>4 DEF RuntimeInv, RuntimeTypeOK, RunHasTask, OverlapShared, Async,
                      RunningTaskCancelable
  <1>. QED
    BY <1>2, <1>3, <1>5, <1>6 DEF RuntimeInv

\* Creating an asynchronous run takes the entry of its task; the runs that had
\* it are on record.
LEMMA CreateAsyncInv ==
    ASSUME RuntimeInv, NEW r \in RunId, NEW t \in Tasks, CreateAsync(r, t)
    PROVE  RuntimeInv'
  <1>1. RuntimeTypeOK /\ r # None
    BY DEF RuntimeInv, RunId, None
  <1>. DEFINE others == {q \in RunId : task[q] = t /\ ~Over(q) /\ pc[q] # "sync"}
  <1>2. /\ pc[r] = "unused" /\ pc' = [pc EXCEPT ![r] = "created"]
        /\ task' = [task EXCEPT ![r] = t]
        /\ pending' = [pending EXCEPT ![t] = r]
        /\ canceled' = canceled
        /\ shared' = IF others = {} THEN shared ELSE shared \cup others \cup {r}
    BY DEF CreateAsync, NewRun, Goto, Share
  <1>3. RuntimeTypeOK'
    BY <1>1, <1>2 DEF RuntimeTypeOK, CreateAsync, NewRun, Count, Counter
  <1>4. MetricsAddUp'
    BY NewRunCounts DEF RuntimeInv, CreateAsync
  <1>5. HandleIsLive' /\ HandleIsAsync' /\ RunHasTask'
    BY <1>1, <1>2 DEF RuntimeInv, RuntimeTypeOK, HandleIsLive, HandleIsAsync, Over, RunHasTask
  <1>6. \A q \in RunId \ {r} : Async(q) /\ task[q] = t => q \in others
    BY <1>1 DEF Async, Over
  <1>7. \A q \in RunId \ {r} : /\ pc'[q] = pc[q] /\ task'[q] = task[q]
    BY <1>1, <1>2 DEF RuntimeTypeOK
  <1>8. pc'[r] = "created" /\ task'[r] = t
    BY <1>1, <1>2 DEF RuntimeTypeOK
  <1>. HIDE DEF others
  <1>9. \A q \in RunId \ {r} : Async(q) /\ task[q] = t => q \in shared' /\ r \in shared'
    BY <1>2, <1>6
  <1>10. shared \subseteq shared'
    BY <1>2
  <1>11. OverlapShared'
    BY <1>7, <1>8, <1>9, <1>10 DEF RuntimeInv, OverlapShared, Async
  <1>12. RunningTaskCancelable'
    BY <1>1, <1>2, <1>7, <1>8, <1>9, <1>10 DEF RuntimeInv, RuntimeTypeOK, RunningTaskCancelable, Async
  <1>. QED
    BY <1>3, <1>4, <1>5, <1>11, <1>12 DEF RuntimeInv

\* A step that takes one run from one point of the goroutine to a later one
\* and leaves the entries alone keeps what is said of them.
LEMMA AdvanceInv ==
    ASSUME RuntimeInv, NEW r \in RunId, NEW l \in {"async", "sending", "cleanup", "over"},
           pc[r] \in {"created", "sync", "async", "sending"},
           l = "over" <=> pc[r] = "sync", l = "async" => pc[r] = "created",
           Goto(r, l), UNCHANGED <<pending, task, canceled, shared>>
    PROVE  /\ HandleIsLive' /\ HandleIsAsync' /\ RunHasTask'
           /\ OverlapShared' /\ RunningTaskCancelable'
  <1>1. RuntimeTypeOK
    BY DEF RuntimeInv
  <1>2. pc'[r] = l /\ \A q \in RunId \ {r} : pc'[q] = pc[q]
    BY <1>1 DEF Goto, RuntimeTypeOK
  <1>3. HandleIsLive' /\ HandleIsAsync' /\ RunHasTask'
    BY <1>1, <1>2 DEF RuntimeInv, RuntimeTypeOK, HandleIsLive, HandleIsAsync, RunHasTask, Over
  <1>4. \A q \in RunId : Async(q)' => Async(q)
    BY <1>2 DEF Async
  <1>5. OverlapShared'
    BY <1>4 DEF RuntimeInv, OverlapShared
  <1>6. RunningTaskCancelable'
    BY <1>2 DEF RuntimeInv, RunningTaskCancelable
  <1>. QED
    BY <1>3, <1>5, <1>6

\* The answer 202 keeps the invariant.
LEMMA AcceptInv ==
    ASSUME RuntimeInv, NEW r \in RunId, AcceptTask(r)
    PROVE  RuntimeInv'
  <1>1. RuntimeTypeOK'
    BY DEF RuntimeInv, RuntimeTypeOK, AcceptTask, Goto, Count, Counter
  <1>2. InFlight' = InFlight
    BY DEF RuntimeInv, RuntimeTypeOK, AcceptTask, Goto, InFlight
  <1>3. MetricsAddUp'
    BY <1>2, OthersCount DEF RuntimeInv, RuntimeTypeOK, AcceptTask, Count, Counter
  <1>. QED
    BY <1>1, <1>3, AdvanceInv DEF RuntimeInv, AcceptTask

\* The end of the executor keeps the invariant.
LEMMA EndInv ==
    ASSUME RuntimeInv, NEW r \in RunId, Fails(r) \/ Succeeds(r)
    PROVE  RuntimeInv'
  <1>1. RuntimeTypeOK'
    BY DEF RuntimeInv, RuntimeTypeOK, Fails, Succeeds, Goto, Count, Counter
  <1>2. MetricsAddUp'
    BY EndCounts DEF RuntimeInv
  <1>3. CASE pc[r] = "sync"
    <2>1. Goto(r, "over") /\ UNCHANGED <<pending, task, canceled, shared>>
      BY <1>3 DEF Fails, Succeeds
    <2>. QED
      BY <1>1, <1>2, <1>3, <2>1, AdvanceInv DEF RuntimeInv
  <1>4. CASE pc[r] # "sync"
    <2>1. /\ pc[r] = "async" /\ (Goto(r, "cleanup") \/ Goto(r, "sending"))
          /\ UNCHANGED <<pending, task, canceled, shared>>
      BY <1>4 DEF Fails, Succeeds
    <2>. QED
      BY <1>1, <1>2, <1>4, <2>1, AdvanceInv DEF RuntimeInv, Fails, Succeeds
  <1>. QED
    BY <1>3, <1>4

\* The return of the sink keeps the invariant.
LEMMA SendInv ==
    ASSUME RuntimeInv, NEW r \in RunId, SendTaskCompleted(r)
    PROVE  RuntimeInv'
  <1>1. RuntimeTypeOK'
    BY DEF RuntimeInv, RuntimeTypeOK, SendTaskCompleted, Goto
  <1>2. InFlight' = InFlight
    BY DEF RuntimeInv, RuntimeTypeOK, SendTaskCompleted, Goto, InFlight
  <1>3. MetricsAddUp'
    BY <1>2, OthersCount DEF RuntimeInv, SendTaskCompleted
  <1>. QED
    BY <1>1, <1>3, AdvanceInv DEF RuntimeInv, SendTaskCompleted

\* The deferred delete empties the entry of the task, which may be that of
\* another run only if the two are on record.
LEMMA CleanupInv ==
    ASSUME RuntimeInv, NEW r \in RunId, Cleanup(r)
    PROVE  RuntimeInv'
  <1>1. /\ RuntimeTypeOK /\ pc[r] = "cleanup" /\ task[r] \in Tasks
        /\ pc' = [pc EXCEPT ![r] = "over"]
        /\ pending' = [pending EXCEPT ![task[r]] = None]
        /\ UNCHANGED <<task, canceled, metrics, shared>>
    BY DEF RuntimeInv, RunHasTask, Cleanup, Goto
  <1>2. RuntimeTypeOK'
    BY <1>1 DEF RuntimeTypeOK
  <1>3. InFlight' = InFlight
    BY <1>1 DEF RuntimeTypeOK, InFlight
  <1>4. MetricsAddUp'
    BY <1>1, <1>3, OthersCount DEF RuntimeInv
  <1>5. HandleIsLive' /\ HandleIsAsync'
    BY <1>1 DEF RuntimeInv, RuntimeTypeOK, HandleIsLive, HandleIsAsync, Over
  <1>6. RunHasTask' /\ OverlapShared'
    BY <1>1 DEF RuntimeInv, RuntimeTypeOK, RunHasTask, OverlapShared, Async
  <1>7. ASSUME NEW q \in RunId \ shared, pc'[q] \in {"created", "async"}, ~canceled[q]
        PROVE  pending'[task[q]] = q
    <2>1. q # r /\ pc[q] \in {"created", "async"} /\ task[q] \in Tasks
      BY <1>1, <1>7 DEF RuntimeInv, RuntimeTypeOK, RunHasTask
    <2>2. pending[task[q]] = q
      BY <1>7, <2>1 DEF RuntimeInv, RunningTaskCancelable
    <2>3. task[q] # task[r]
      BY <1>1, <1>7, <2>1 DEF RuntimeInv, OverlapShared, Async
    <2>. QED
      BY <1>1, <2>1, <2>2, <2>3 DEF RuntimeTypeOK
  <1>8. RunningTaskCancelable'
    BY <1>1, <1>7 DEF RunningTaskCancelable
  <1>. QED
    BY <1>2, <1>4, <1>5, <1>6, <1>8 DEF RuntimeInv

\* A cancellation takes the entry away and cancels the run it named.
LEMMA CancelInv ==
    ASSUME RuntimeInv, NEW t \in Tasks, handleCancelTask(t)
    PROVE  RuntimeInv'
  <1>1. /\ RuntimeTypeOK /\ pending[t] \in RunId
        /\ canceled' = [canceled EXCEPT ![pending[t]] = TRUE]
        /\ pending' = [pending EXCEPT ![t] = None]
        /\ UNCHANGED <<task, pc, shared>>
    BY DEF RuntimeInv, RuntimeTypeOK, handleCancelTask
  <1>2. RuntimeTypeOK'
    BY <1>1 DEF RuntimeTypeOK, handleCancelTask, Count, Counter
  <1>3. InFlight' = InFlight
    BY <1>1 DEF InFlight
  <1>4. MetricsAddUp'
    BY <1>3, OthersCount DEF RuntimeInv, RuntimeTypeOK, handleCancelTask, Count, Counter
  <1>5. task[pending[t]] = t /\ ~Over(pending[t])
    BY <1>1 DEF RuntimeInv, HandleIsLive, handleCancelTask
  <1>6. HandleIsLive'
    BY <1>1, <1>5 DEF RuntimeInv, RuntimeTypeOK, HandleIsLive, Over
  <1>7. HandleIsAsync' /\ RunHasTask' /\ OverlapShared'
    BY <1>1, <1>5 DEF RuntimeInv, RuntimeTypeOK, HandleIsAsync, RunHasTask, OverlapShared,
                      Async, Over
  <1>8. RunningTaskCancelable'
    BY <1>1, <1>5 DEF RuntimeInv, RuntimeTypeOK, RunningTaskCancelable, RunHasTask
  <1>. QED
    BY <1>2, <1>4, <1>6, <1>7, <1>8 DEF RuntimeInv

\* Every step of the runtime keeps its invariant.
LEMMA StepRuntime ==
    ASSUME RuntimeInv,
           RuntimeNext \/ (\E r \in RunId : SendTaskCompleted(r)) \/ UNCHANGED runtimeVars
    PROVE  RuntimeInv'
  <1>1. CASE UNCHANGED runtimeVars
    BY <1>1 DEF runtimeVars, RuntimeInv, RuntimeTypeOK, RunHasTask, HandleIsLive, HandleIsAsync,
                OverlapShared, Async, RunningTaskCancelable, MetricsAddUp, InFlight, Over
  <1>. QED
    BY <1>1, CreateSyncInv, CreateAsyncInv, AcceptInv, EndInv, SendInv, CleanupInv, CancelInv
    DEF RuntimeNext, RunStep

-----------------------------------------------------------------------------
Handled == {"unknown", "ignored", "applied"}

\* A run posts once, after its executor returned.
PostedOnce ==
    /\ \A p \in posted : pc[p.run] \in {"cleanup", "over"}
    /\ \A p, q \in posted : p.run = q.run => p = q

\* Only a run that posted has a fate.
FateIsPosted == \A r \in RunId : fate[r] # "none" => \E p \in posted : p.run = r

\* An event the guard remembers was handed to the handler for some run that
\* posted it, and that run was told so.
SeenIsHandled ==
    \A e \in Events : seen[e] # Never => \E p \in posted : p.event = e /\ fate[p.run] \in Handled

\* The jobs are lost only in a restart.
LostByRestart == \A j \in Tasks : job[j] = "unknown" => restarts > 0

\* A job that has an end, in memory or in the snapshot, got it from the
\* orchestrator or from the event of one of its runs.
Caused(j, s) ==
    /\ s \in {"ended", "canceled"} => j \in closed
    /\ s = "succeeded" =>
         j \in closed \/ \E q \in RunId : task[q] = j /\ fate[q] = "applied"

EndHasCause == \A j \in Tasks : Caused(j, job[j]) /\ Caused(j, disk[j])

\* The inductive invariant of the way of the events.
EventInv ==
    /\ TypeOK
    /\ PostedOnce /\ FateIsPosted /\ SeenIsHandled /\ LostByRestart /\ EndHasCause
    /\ CompletionNotWasted

\* The guard keeps its types.
LEMMA GuardTypes ==
    ASSUME GuardTypeOK, [GuardNext]_guardVars
    PROVE  GuardTypeOK'
  <1>. USE ReplayGuardAssumption DEF GuardTypeOK
  <1>1. ASSUME NEW e \in Events, NEW t \in Time, Sign(e, t)
        PROVE  GuardTypeOK'
    BY <1>1 DEF Sign, Request
  <1>2. Kept \in [Events -> Int] /\ \A e \in Events : Kept[e] # Never => Kept[e] = seen[e]
    BY DEF Kept, Never
  <1>3. ASSUME NEW e \in Events, NEW t \in Time, Accept(e, t) \/ RejectReplay(e, t)
        PROVE  GuardTypeOK'
    BY <1>2, <1>3 DEF Accept, Mark, RejectReplay, Time
  <1>4. CASE Tick
    BY <1>4 DEF Tick, Time
  <1>5. CASE Restart
    BY <1>5 DEF Restart, Never
  <1>6. CASE UNCHANGED guardVars
    BY <1>6 DEF guardVars
  <1>. QED
    BY <1>1, <1>3, <1>4, <1>5, <1>6 DEF GuardNext

\* The initial state satisfies both invariants.
LEMMA InitEvents ==
    ASSUME Init
    PROVE  RuntimeInv /\ EventInv
  <1>1. RuntimeInv
    BY InitRuntime DEF Init
  <1>2. GuardTypeOK
    BY DEF Init, GuardInit, GuardTypeOK, Never, Time, Request
  <1>3. TypeOK
    BY <1>1, <1>2 DEF Init, RuntimeInv, TypeOK, Fate, Status
  <1>. QED
    BY <1>1, <1>3 DEF Init, GuardInit, EventInv, PostedOnce, FateIsPosted, SeenIsHandled,
                      LostByRestart, EndHasCause, Caused, CompletionNotWasted, Never

\* A run that posted or has a fate does not lose it, nor its task, by what the
\* runtime does.
LEMMA RuntimeKeepsEvents ==
    ASSUME RuntimeInv, EventInv, RuntimeNext, UNCHANGED <<guardVars, eventVars>>
    PROVE  EventInv'
  <1>1. RuntimeTypeOK /\ RuntimeTypeOK'
    BY StepRuntime DEF RuntimeInv
  <1>2. \A r \in RunId : pc[r] \in {"cleanup", "over"} =>
          pc'[r] \in {"cleanup", "over"} /\ task'[r] = task[r]
    BY <1>1 DEF RuntimeTypeOK, RuntimeNext, RunStep, CreateSync, CreateAsync, NewRun, Goto,
                handleCancelTask, AcceptTask, Fails, Succeeds, Cleanup
  <1>3. \A p \in posted : p.run \in RunId
    BY DEF EventInv, TypeOK
  <1>4. TypeOK'
    BY <1>1 DEF EventInv, TypeOK, guardVars, eventVars, orchVars, GuardTypeOK
  <1>5. PostedOnce'
    BY <1>2, <1>3 DEF EventInv, PostedOnce, eventVars
  <1>6. \A r \in RunId : fate[r] # "none" => task'[r] = task[r]
    BY <1>2 DEF EventInv, FateIsPosted, PostedOnce
  <1>7. CompletionNotWasted'
    BY <1>6 DEF EventInv, CompletionNotWasted, guardVars, eventVars, orchVars
  <1>8. EndHasCause'
    BY <1>6 DEF EventInv, EndHasCause, Caused, eventVars, orchVars
  <1>. QED
    BY <1>4, <1>5, <1>7, <1>8 DEF EventInv, FateIsPosted, SeenIsHandled, LostByRestart,
                                  guardVars, eventVars, orchVars

\* The event of a run is its first.
LEMMA PostKeepsEvents ==
    ASSUME RuntimeInv, EventInv, NEW r \in RunId, PostEvent(r)
    PROVE  EventInv'
  <1>1. PICK e \in Events, t \in Time :
          /\ Sign(e, t)
          /\ posted' = posted \cup {[run |-> r, event |-> e, ts |-> t]}
    BY DEF PostEvent
  <1>2. /\ pc[r] = "sending" /\ pc' = [pc EXCEPT ![r] = "cleanup"] /\ task' = task
        /\ UNCHANGED <<fate, job, disk, closed, overruled, moves>>
    BY DEF PostEvent, SendTaskCompleted, Goto, orchVars
  <1>3. RuntimeTypeOK /\ RuntimeTypeOK'
    BY StepRuntime DEF RuntimeInv, PostEvent
  <1>4. GuardTypeOK'
    BY <1>1, GuardTypes DEF EventInv, TypeOK, GuardNext
  <1>5. TypeOK'
    BY <1>1, <1>2, <1>3, <1>4 DEF EventInv, TypeOK
  <1>6. \A p \in posted : p.run \in RunId /\ p.run # r
    BY <1>2 DEF EventInv, PostedOnce, TypeOK
  <1>7. PostedOnce'
    BY <1>1, <1>2, <1>3, <1>6 DEF EventInv, PostedOnce, RuntimeTypeOK
  <1>8. posted \subseteq posted' /\ seen' = seen /\ restarts' = restarts
    BY <1>1 DEF Sign
  <1>9. FateIsPosted' /\ SeenIsHandled' /\ LostByRestart' /\ EndHasCause'
    BY <1>2, <1>8 DEF EventInv, FateIsPosted, SeenIsHandled, LostByRestart, EndHasCause, Caused
  <1>10. CompletionNotWasted'
    BY <1>2, <1>8 DEF EventInv, CompletionNotWasted
  <1>. QED
    BY <1>5, <1>7, <1>9, <1>10 DEF EventInv

\* What the cleanup of the guard keeps was there.
LEMMA KeptIsSeen ==
    ASSUME NEW e \in Events, Kept[e] # Never
    PROVE  seen[e] # Never
  BY DEF Kept

\* Note leaves other runs alone, and a run that has a fate keeps it or is
\* applied.
LEMMA NoteOnce ==
    ASSUME TypeOK, NEW r \in RunId, NEW f \in Fate, Note(r, f)
    PROVE  /\ fate' \in [RunId -> Fate]
           /\ \A q \in RunId : fate[q] # "none" => fate'[q] = fate[q] \/ fate'[q] = "applied"
           /\ \A q \in RunId : fate'[q] # fate[q] => q = r /\ fate'[r] = f
           /\ f = "applied" => fate'[r] = f
           /\ fate[r] = "none" => fate'[r] = f
  BY DEF TypeOK, Note

\* What the handler does is one of three things.
LEMMA ApplyCases ==
    ASSUME NEW r, NEW j, Apply(r, j)
    PROVE  /\ UNCHANGED <<closed, overruled, moves>>
           /\ \E f \in Handled :
                /\ Note(r, f)
                /\ f = "unknown" => job[j] = "unknown" /\ UNCHANGED <<job, disk>>
                /\ f = "applied" => /\ job[j] = "open" /\ job' = [job EXCEPT ![j] = "succeeded"]
                                    /\ disk' = job' \/ disk' = disk
                /\ f = "ignored" => /\ job[j] \in {"succeeded", "ended", "canceled"}
                                    /\ UNCHANGED <<job, disk>>
  BY DEF Apply, Set, Save, Handled

\* A request that is accepted is handled, and applied only to an open job.
LEMMA AcceptKeepsEvents ==
    ASSUME RuntimeInv, EventInv, NEW q \in posted, Accept(q.event, q.ts),
           Apply(q.run, task[q.run]), UNCHANGED <<posted, runtimeVars>>
    PROVE  EventInv'
  <1>. DEFINE r == q.run
              j == task[r]
              e == q.event
  <1>1. /\ TypeOK /\ r \in RunId /\ e \in Events /\ q.ts \in Time /\ j \in Tasks
    BY DEF EventInv, TypeOK, PostedOnce, RuntimeInv, RunHasTask
  <1>2. GuardTypeOK'
    BY <1>1, GuardTypes DEF TypeOK, GuardNext
  <1>3. PICK f \in Handled :
          /\ Note(r, f)
          /\ f = "unknown" => job[j] = "unknown" /\ UNCHANGED <<job, disk>>
          /\ f = "applied" => /\ job[j] = "open" /\ job' = [job EXCEPT ![j] = "succeeded"]
                              /\ disk' = job' \/ disk' = disk
          /\ f = "ignored" => /\ job[j] \in {"succeeded", "ended", "canceled"}
                              /\ UNCHANGED <<job, disk>>
    BY ApplyCases
  <1>4. /\ fate' \in [RunId -> Fate]
        /\ \A s \in RunId : fate[s] # "none" => fate'[s] = fate[s] \/ fate'[s] = "applied"
        /\ \A s \in RunId : fate'[s] # fate[s] => s = r /\ fate'[r] = f
        /\ f = "applied" => fate'[r] = f
        /\ fate[r] = "none" => fate'[r] = f
    <2>1. f \in Fate
      BY DEF Fate, Handled
    <2>. QED
      BY <1>1, <1>3, <2>1, NoteOnce
  <1>5. /\ UNCHANGED <<closed, overruled, moves>>
        /\ job' \in [Tasks -> Status] /\ disk' \in [Tasks -> Status]
        /\ \A k \in Tasks : job'[k] = job[k] \/ (f = "applied" /\ k = j /\ job'[k] = "succeeded")
        /\ \A k \in Tasks : disk'[k] = disk[k] \/ disk'[k] = job'[k]
    BY <1>1, <1>3, ApplyCases DEF TypeOK, Status, Handled
  <1>6. /\ pc' = pc /\ task' = task /\ posted' = posted /\ restarts' = restarts
        /\ RuntimeTypeOK'
    BY StepRuntime DEF runtimeVars, Accept, RuntimeInv
  <1>7. TypeOK'
    BY <1>1, <1>2, <1>4, <1>5, <1>6 DEF TypeOK
  <1>8. seen' = [Kept EXCEPT ![e] = now + ReplayTTL]
    BY DEF Accept, Mark
  <1>9. \A p \in posted : p.run \in RunId /\ (p.run = r => p = q)
    BY DEF EventInv, TypeOK, PostedOnce
  <1>10. PostedOnce' /\ LostByRestart'
    BY <1>1, <1>5, <1>6 DEF EventInv, TypeOK, PostedOnce, LostByRestart
  <1>11. FateIsPosted'
    BY <1>4, <1>6 DEF EventInv, FateIsPosted
  <1>12. \A s \in RunId : fate[s] \in Handled => fate'[s] \in Handled
    BY <1>4 DEF Handled
  <1>13. \E p \in posted : p.event = e /\ fate'[p.run] \in Handled
    <2>1. CASE fate[r] = "none"
      BY <1>3, <1>4, <2>1
    <2>2. CASE fate[r] \in Handled
      BY <1>1, <1>12, <2>2
    <2>3. CASE fate[r] = "dropped"
      <3>1. PICK p \in posted, s \in posted :
              p.run = r /\ p.event = s.event /\ fate[s.run] \in Handled
        BY <1>1, <2>3 DEF EventInv, CompletionNotWasted, Handled
      <3>2. s.event = e /\ fate'[s.run] \in Handled
        BY <1>12, <1>9, <3>1
      <3>. QED
        BY <3>2
    <2>. QED
      BY <1>1, <2>1, <2>2, <2>3 DEF TypeOK, Fate, Handled
  <1>14. SeenIsHandled'
    <2>1. ASSUME NEW d \in Events, d # e, seen'[d] # Never
          PROVE  \E p \in posted : p.event = d /\ fate'[p.run] \in Handled
      <3>1. seen[d] # Never
        BY <1>8, <2>1, KeptIsSeen DEF Kept
      <3>2. PICK p \in posted : p.event = d /\ fate[p.run] \in Handled
        BY <3>1 DEF EventInv, SeenIsHandled
      <3>. QED
        BY <1>12, <1>9, <3>2
    <2>. QED
      BY <1>6, <1>13, <2>1 DEF SeenIsHandled
  <1>15. \A s \in RunId : fate[s] = "applied" => fate'[s] = "applied"
    BY <1>4
  <1>16. EndHasCause'
    <2>1. ASSUME NEW k \in Tasks, NEW s, Caused(k, s)
          PROVE  Caused(k, s)'
      BY <1>5, <1>6, <1>15, <2>1 DEF Caused
    <2>2. ASSUME NEW k \in Tasks, f = "applied", k = j
          PROVE  Caused(k, "succeeded")'
      BY <1>1, <1>4, <1>6, <2>2 DEF Caused
    <2>3. ASSUME NEW k \in Tasks, NEW s, s = job'[k]
          PROVE  Caused(k, s)'
      <3>1. CASE s = job[k]
        BY <2>1, <3>1 DEF EventInv, EndHasCause
      <3>2. CASE f = "applied" /\ k = j /\ s = "succeeded"
        BY <2>2, <3>2
      <3>. QED
        BY <1>5, <2>3, <3>1, <3>2
    <2>4. ASSUME NEW k \in Tasks, NEW s, s = disk'[k]
          PROVE  Caused(k, s)'
      <3>1. CASE s = disk[k]
        BY <2>1, <3>1 DEF EventInv, EndHasCause
      <3>. QED
        BY <1>5, <2>3, <2>4, <3>1
    <2>. QED
      BY <2>3, <2>4 DEF EndHasCause
  <1>17. ASSUME NEW s \in RunId, fate'[s] = "dropped"
         PROVE  \E p, o \in posted : /\ p.run = s /\ o.run # s
                                     /\ p.event = o.event
                                     /\ fate'[o.run] \in Handled
    <2>1. fate[s] = "dropped"
      BY <1>4, <1>17 DEF Handled
    <2>. QED
      BY <1>9, <1>12, <2>1 DEF EventInv, CompletionNotWasted, Handled
  <1>18. ASSUME NEW s \in RunId, fate'[s] = "unknown"
         PROVE  restarts > 0
    <2>1. CASE fate[s] = "unknown"
      BY <2>1 DEF EventInv, CompletionNotWasted
    <2>2. CASE fate[s] # "unknown"
      BY <1>1, <1>3, <1>4, <1>18, <2>2 DEF EventInv, LostByRestart
    <2>. QED
      BY <2>1, <2>2
  <1>19. ASSUME NEW s \in RunId, fate'[s] = "ignored"
         PROVE  \/ task[s] \in closed
                \/ \E o \in RunId \ {s} : task[o] = task[s] /\ fate'[o] = "applied"
    <2>1. CASE fate[s] = "ignored"
      BY <1>15, <2>1 DEF EventInv, CompletionNotWasted
    <2>2. CASE fate[s] # "ignored"
      <3>1. s = r /\ f = "ignored"
        BY <1>4, <1>19, <2>2
      <3>2. Caused(j, job[j]) /\ job[j] \in {"succeeded", "ended", "canceled"}
        BY <1>1, <1>3, <3>1 DEF EventInv, EndHasCause
      <3>3. j \in closed \/ \E o \in RunId : task[o] = j /\ fate[o] = "applied"
        BY <3>2 DEF Caused
      <3>. QED
        BY <1>15, <1>19, <3>1, <3>3
    <2>. QED
      BY <2>1, <2>2
  <1>20. ASSUME NEW s \in RunId, fate'[s] = "applied"
         PROVE  job'[task[s]] = "succeeded" \/ task[s] \in overruled \/ restarts > 0
    <2>1. CASE fate[s] = "applied"
      <3>1. task[s] \in Tasks
        BY <2>1 DEF EventInv, FateIsPosted, PostedOnce, RuntimeInv, RunHasTask
      <3>. QED
        BY <1>5, <2>1, <3>1 DEF EventInv, CompletionNotWasted
    <2>2. CASE fate[s] # "applied"
      BY <1>1, <1>3, <1>4, <1>20, <2>2 DEF TypeOK
    <2>. QED
      BY <2>1, <2>2
  <1>21. CompletionNotWasted'
    BY <1>5, <1>6, <1>17, <1>18, <1>19, <1>20 DEF CompletionNotWasted, Handled
  <1>. QED
    BY <1>7, <1>10, <1>11, <1>14, <1>16, <1>21 DEF EventInv

\* A request that is rejected as a repetition leaves the run that was handled
\* for the same event behind.
LEMMA RejectKeepsEvents ==
    ASSUME RuntimeInv, EventInv, NEW q \in posted, RejectReplay(q.event, q.ts),
           Note(q.run, "dropped"), UNCHANGED orchVars, UNCHANGED <<posted, runtimeVars>>
    PROVE  EventInv'
  <1>. DEFINE r == q.run
              e == q.event
  <1>1. TypeOK /\ r \in RunId /\ e \in Events /\ q.ts \in Time
    BY DEF EventInv, TypeOK
  <1>2. GuardTypeOK'
    BY <1>1, GuardTypes DEF TypeOK, GuardNext
  <1>3. /\ fate' \in [RunId -> Fate]
        /\ \A s \in RunId : fate[s] # "none" => fate'[s] = fate[s]
        /\ \A s \in RunId \ {r} : fate'[s] = fate[s]
        /\ fate[r] = "none" => fate'[r] = "dropped"
    BY <1>1 DEF TypeOK, Note, Fate
  <1>4. /\ pc' = pc /\ task' = task /\ posted' = posted /\ restarts' = restarts
        /\ UNCHANGED <<job, disk, closed, overruled, moves>>
        /\ seen' = Kept /\ Kept[e] # Never /\ RuntimeTypeOK'
    BY StepRuntime DEF runtimeVars, orchVars, RejectReplay, RuntimeInv
  <1>5. TypeOK'
    BY <1>1, <1>2, <1>3, <1>4 DEF TypeOK
  <1>6. \A p \in posted : p.run \in RunId
    BY DEF EventInv, TypeOK
  <1>7. PostedOnce' /\ LostByRestart' /\ FateIsPosted' /\ EndHasCause'
    BY <1>3, <1>4 DEF EventInv, PostedOnce, LostByRestart, FateIsPosted, EndHasCause, Caused
  <1>8. SeenIsHandled'
    <2>1. ASSUME NEW d \in Events, seen'[d] # Never
          PROVE  \E p \in posted : p.event = d /\ fate'[p.run] \in Handled
      <3>1. PICK p \in posted : p.event = d /\ fate[p.run] \in Handled
        BY <1>4, <2>1, KeptIsSeen DEF EventInv, SeenIsHandled
      <3>. QED
        BY <1>3, <1>6, <3>1 DEF Handled
    <2>. QED
      BY <1>4, <2>1 DEF SeenIsHandled
  <1>9. ASSUME NEW s \in RunId, fate'[s] = "dropped"
        PROVE  \E p, o \in posted : /\ p.run = s /\ o.run # s
                                    /\ p.event = o.event
                                    /\ fate'[o.run] \in Handled
    <2>1. CASE fate[s] = "dropped"
      BY <1>3, <1>6, <2>1 DEF EventInv, CompletionNotWasted, Handled
    <2>2. CASE fate[s] # "dropped"
      <3>1. s = r /\ fate[r] = "none"
        BY <1>3, <1>9, <2>2
      <3>2. PICK o \in posted : o.event = e /\ fate[o.run] \in Handled
        BY <1>1, <1>4, KeptIsSeen DEF EventInv, SeenIsHandled
      <3>3. o.run # r /\ fate'[o.run] \in Handled
        BY <1>3, <1>6, <3>1, <3>2 DEF Handled
      <3>. QED
        BY <3>1, <3>2, <3>3
    <2>. QED
      BY <2>1, <2>2
  <1>10. \A s \in RunId : fate'[s] \in Handled => fate'[s] = fate[s]
    BY <1>3 DEF Handled
  <1>11. ASSUME NEW s \in RunId, fate'[s] = "ignored"
         PROVE  \/ task[s] \in closed
                \/ \E o \in RunId \ {s} : task[o] = task[s] /\ fate'[o] = "applied"
    <2>1. \/ task[s] \in closed
          \/ \E o \in RunId \ {s} : task[o] = task[s] /\ fate[o] = "applied"
      BY <1>10, <1>11 DEF EventInv, CompletionNotWasted, Handled
    <2>. QED
      BY <1>3, <2>1
  <1>12. ASSUME NEW s \in RunId
         PROVE  /\ fate'[s] = "unknown" => restarts > 0
                /\ fate'[s] = "applied" =>
                     job[task[s]] = "succeeded" \/ task[s] \in overruled \/ restarts > 0
    BY <1>10 DEF EventInv, CompletionNotWasted, Handled
  <1>13. CompletionNotWasted'
    BY <1>4, <1>9, <1>11, <1>12 DEF CompletionNotWasted, Handled
  <1>. QED
    BY <1>5, <1>7, <1>8, <1>13 DEF EventInv

\* A step that handles no event: the guard may forget, the jobs may be lost in
\* a restart, an end has a cause or was stored, and success is undone by the
\* worker or by a restart.
Quiet ==
    /\ UNCHANGED <<posted, fate, pending, task, pc, canceled, metrics, shared>>
    /\ restarts' >= restarts
    /\ \A e \in Events : seen'[e] # Never => seen[e] # Never
    /\ job' \in [Tasks -> Status] /\ disk' \in [Tasks -> Status]
    /\ closed \subseteq closed' /\ closed' \subseteq Tasks
    /\ overruled \subseteq overruled' /\ overruled' \subseteq Tasks
    /\ moves' \in Nat
    /\ \A j \in Tasks :
         /\ job'[j] \in {job[j], disk[j], "open", "unknown"} \/ j \in closed'
         /\ disk'[j] \in {job[j], disk[j], "open", "unknown"} \/ j \in closed'
         /\ job[j] = "succeeded" => job'[j] = "succeeded" \/ j \in overruled' \/ restarts' > 0
         /\ job'[j] = "unknown" => job[j] = "unknown" \/ restarts' > 0

\* Such a step keeps the invariant.
LEMMA QuietKeepsEvents ==
    ASSUME RuntimeInv, EventInv, Quiet, [GuardNext]_guardVars
    PROVE  EventInv'
  <1>. USE DEF Quiet
  <1>1. TypeOK /\ GuardTypeOK' /\ RuntimeTypeOK'
    BY GuardTypes DEF EventInv, TypeOK, RuntimeInv, RuntimeTypeOK
  <1>2. TypeOK'
    BY <1>1 DEF TypeOK
  <1>3. restarts \in Nat /\ restarts' \in Nat
    BY <1>1 DEF TypeOK, GuardTypeOK
  <1>4. pc' = pc /\ task' = task /\ fate' = fate /\ posted' = posted
    OBVIOUS
  <1>5. \A r \in RunId : fate[r] = "applied" => task[r] \in Tasks
    BY DEF EventInv, FateIsPosted, PostedOnce, RuntimeInv, RunHasTask
  <1>6. PostedOnce' /\ FateIsPosted' /\ LostByRestart'
    BY <1>3, <1>4 DEF EventInv, PostedOnce, FateIsPosted, LostByRestart
  <1>7. SeenIsHandled'
    BY DEF EventInv, SeenIsHandled
  <1>8. CompletionNotWasted'
    <2>1. ASSUME NEW s \in RunId, fate[s] = "applied"
          PROVE  job'[task[s]] = "succeeded" \/ task[s] \in overruled' \/ restarts' > 0
      BY <1>3, <1>5, <2>1 DEF EventInv, CompletionNotWasted
    <2>2. restarts > 0 => restarts' > 0
      BY <1>3
    <2>3. closed \subseteq closed'
      OBVIOUS
    <2>. HIDE DEF Quiet
    <2>. QED
      BY <1>4, <2>1, <2>2, <2>3 DEF EventInv, CompletionNotWasted
  <1>9. EndHasCause'
    <2>1. ASSUME NEW k \in Tasks, NEW s, Caused(k, s)
          PROVE  Caused(k, s)'
      BY <1>4, <2>1 DEF Caused
    <2>2. ASSUME NEW k \in Tasks, NEW s \in {job[k], disk[k], "open", "unknown"}
          PROVE  Caused(k, s)'
      <3>1. Caused(k, s)
        BY <2>2 DEF EventInv, EndHasCause, Caused
      <3>. QED
        BY <2>1, <3>1
    <2>3. ASSUME NEW k \in Tasks, k \in closed', NEW s
          PROVE  Caused(k, s)'
      BY <2>3 DEF Caused
    <2>4. ASSUME NEW k \in Tasks, NEW s \in {job'[k], disk'[k]}
          PROVE  Caused(k, s)'
      BY <2>2, <2>3, <2>4
    <2>. QED
      BY <2>4 DEF EndHasCause
  <1>. QED
    BY <1>2, <1>6, <1>7, <1>8, <1>9 DEF EventInv

\* Every step of the composition is a step of the guard or leaves it alone.
LEMMA StepGuard ==
    ASSUME EventInv, [Next]_vars
    PROVE  [GuardNext]_guardVars
  <1>1. \A q \in posted : q.event \in Events /\ q.ts \in Time
    BY DEF EventInv, TypeOK
  <1>2. ASSUME NEW q \in posted, Receive(q)
        PROVE  [GuardNext]_guardVars
    BY <1>1, <1>2 DEF Receive, GuardNext
  <1>. QED
    BY <1>2 DEF Next, PostEvent, WorkerSets, EndJob, ReplayJob, SubmitJob, RestartOrchestrator,
                GuardNext, vars

\* Every step keeps both invariants.
LEMMA StepEvents ==
    ASSUME RuntimeInv, EventInv, [Next]_vars
    PROVE  RuntimeInv' /\ EventInv'
  <1>1. [GuardNext]_guardVars /\ TypeOK
    BY StepGuard DEF EventInv
  <1>2. RuntimeInv'
    <2>1. ASSUME UNCHANGED vars
          PROVE  UNCHANGED runtimeVars
      BY <2>1 DEF vars
    <2>. QED
      BY <2>1, StepRuntime DEF Next, PostEvent, Receive, WorkerSets, EndJob, ReplayJob, SubmitJob,
                               RestartOrchestrator
  <1>. USE DEF runtimeVars, guardVars, eventVars, orchVars, TypeOK, GuardTypeOK
  <1>3. ASSUME NEW q \in posted, Receive(q)
        PROVE  EventInv'
    <2>1. ASSUME UNCHANGED <<guardVars, fate, orchVars>>
          PROVE  Quiet
      BY <1>1, <1>3, <2>1 DEF Receive, Quiet
    <2>. QED
      BY <1>1, <1>3, <2>1, AcceptKeepsEvents, RejectKeepsEvents, QuietKeepsEvents DEF Receive
  <1>4. ASSUME NEW j \in Tasks, WorkerSets(j) \/ EndJob(j) \/ ReplayJob(j) \/ SubmitJob(j)
        PROVE  Quiet
    <2>. USE DEF Set, Save, Move, Status
    <2>1. CASE WorkerSets(j)
      BY <1>1, <2>1 DEF WorkerSets, Quiet
    <2>2. CASE EndJob(j)
      BY <1>1, <2>2 DEF EndJob, Quiet
    <2>3. CASE ReplayJob(j) \/ SubmitJob(j)
      BY <1>1, <2>3 DEF ReplayJob, SubmitJob, Quiet
    <2>. QED
      BY <1>4, <2>1, <2>2, <2>3
  <1>5. ASSUME Tick, UNCHANGED <<runtimeVars, eventVars>>
        PROVE  Quiet
    BY <1>1, <1>5 DEF Tick, Quiet
  <1>6. ASSUME RestartOrchestrator
        PROVE  Quiet
    <2>1. restarts' > 0 /\ restarts' >= restarts
      BY <1>1, <1>6 DEF RestartOrchestrator, Restart
    <2>2. \A e \in Events : seen'[e] = Never
      BY <1>6 DEF RestartOrchestrator, Restart
    <2>3. NoJobs \in [Tasks -> Status] /\ \A j \in Tasks : NoJobs[j] = "unknown"
      BY DEF NoJobs, Status
    <2>. QED
      BY <1>1, <1>6, <2>1, <2>2, <2>3 DEF RestartOrchestrator, Move, Quiet
  <1>7. ASSUME UNCHANGED vars
        PROVE  Quiet
    BY <1>1, <1>7 DEF vars, Quiet
  <1>. QED
    BY <1>1, <1>2, <1>3, <1>4, <1>5, <1>6, <1>7, RuntimeKeepsEvents, PostKeepsEvents,
       QuietKeepsEvents DEF Next

-----------------------------------------------------------------------------
\* The invariants hold in every state.
LEMMA EventsInvariant == Spec => [](RuntimeInv /\ EventInv)
  BY InitEvents, StepEvents, PTL DEF Spec

\* The map of cancel functions of an expert runtime neither leaks nor lies,
\* however runs of one task id overlap.
THEOREM RuntimeHandles == Spec => []HandleIsLive
  <1>1. RuntimeInv => HandleIsLive
    BY DEF RuntimeInv
  <1>. QED
    BY <1>1, EventsInvariant, PTL

\* Its counters account for every request.
THEOREM RuntimeMetrics == Spec => []MetricsAddUp
  <1>1. RuntimeInv => MetricsAddUp
    BY DEF RuntimeInv
  <1>. QED
    BY <1>1, EventsInvariant, PTL

\* A running task whose id no other run shares can be canceled.
THEOREM RuntimeCancels == Spec => []RunningTaskCancelable
  <1>1. RuntimeInv => RunningTaskCancelable
    BY DEF RuntimeInv
  <1>. QED
    BY <1>1, EventsInvariant, PTL

\* A completion that reaches the orchestrator in time is dropped, finds no job,
\* is ignored or is undone only for the reasons CompletionNotWasted names, for
\* every window and memory of the guard, any number of jobs, runs and restarts,
\* and saves that fail at any time.
THEOREM EventsSafe == Spec => [](TypeOK /\ CompletionNotWasted)
  <1>1. EventInv => TypeOK /\ CompletionNotWasted
    BY DEF EventInv
  <1>. QED
    BY <1>1, EventsInvariant, PTL

\* The composition of runtime, network and handler uses the guard as module
\* ReplayGuard says: what is proved of the guard alone holds in the system.
LEMMA EventsRefineGuard == Spec => GuardSpec
  <1>1. Init => GuardInit
    BY DEF Init
  <1>2. EventInv /\ [Next]_vars => [GuardNext]_guardVars
    BY StepGuard
  <1>. QED
    BY <1>1, <1>2, EventsInvariant, PTL DEF Spec, GuardSpec

\* With a memory longer than two windows and the span of the signatures, one
\* life of the orchestrator handles an event of an expert at most once.
THEOREM EventsOncePerProcess == LongMemory /\ Spec => []AcceptedOncePerProcess
  BY EventsRefineGuard, OncePerProcess, PTL
=============================================================================
