----------------------------- MODULE ReplayGuard ----------------------------
(***************************************************************************)
(* The verifier of signed events (internal/delivery/webhook/verify.go)     *)
(* with its InMemoryReplayGuard, against a network that keeps every signed *)
(* request it has ever carried and may present it again at any time.       *)
(*                                                                         *)
(* now is the clock of the receiver.  The sender's clock is its own: the   *)
(* timestamps it signs are any numbers, as long as those of one event      *)
(* (Dispatcher.deliver signs every attempt anew) lie within Span.          *)
(***************************************************************************)
EXTENDS Integers

CONSTANTS
    Events,       \* event ids
    AllowedSkew,  \* verifyConfig.allowedSkew
    ReplayTTL,    \* verifyConfig.replayTTL
    Span,         \* the longest time between two signatures of one event
    MaxTime,      \* bound: the last instant of either clock
    MaxAccepts,   \* bound: how often one event may be accepted
    MaxRestarts   \* bound: restarts of the receiving process

ASSUME ReplayGuardAssumption ==
    /\ AllowedSkew \in Nat \ {0} /\ ReplayTTL \in Nat \ {0}
    /\ Span \in Nat /\ MaxTime \in Nat /\ MaxAccepts \in Nat
    /\ MaxRestarts \in Nat

Time == 0 .. MaxTime
Never == -1

VARIABLES
    now,       \* the receiver's clock
    seen,      \* InMemoryReplayGuard.seen: expiry per event, Never if missing
    sent,      \* the requests signed so far
    accepted,  \* per event, how often Verify returned it without an error
    restarts   \* how often the process was restarted

guardVars == <<now, seen, sent, accepted, restarts>>

Request == [event : Events, ts : Time]

\* computeHMAC: nobody but the sender can produce a valid signature.
Signed(e, t) == [event |-> e, ts |-> t] \in sent

\* signPayload, or the signing part of tryOnce.
Sign(e, t) ==
    /\ \A m \in sent : m.event = e => t - m.ts \in -Span .. Span
    /\ sent' = sent \cup {[event |-> e, ts |-> t]}
    /\ UNCHANGED <<now, seen, accepted, restarts>>

absDuration(d) == IF d < 0 THEN -d ELSE d

InWindow(t) == absDuration(now - t) <= AllowedSkew

\* The opportunistic cleanup of CheckAndMark.
Kept == [e \in Events |-> IF seen[e] > now THEN seen[e] ELSE Never]

\* Mutant: what was checked is stored for the length of the window.
MarkForWindow(e) ==
    Kept[e] = Never /\ seen' = [Kept EXCEPT ![e] = now + AllowedSkew]

\* CheckAndMark for an event that is not a duplicate.
Mark(e) == Kept[e] = Never /\ seen' = [Kept EXCEPT ![e] = now + ReplayTTL]

\* Verify returns the event.  It reads the clock before it takes the guard's
\* lock; the two are one step here, so a request held up between them while
\* the entry of its copy expires is not modelled.
Accept(e, t) ==
    /\ Signed(e, t)
    /\ InWindow(t)
    /\ Mark(e)
    /\ accepted[e] < MaxAccepts
    /\ accepted' = [accepted EXCEPT ![e] = @ + 1]
    /\ UNCHANGED <<now, sent, restarts>>

\* Verify returns ErrReplayDetected, after the same cleanup.
RejectReplay(e, t) ==
    /\ Signed(e, t)
    /\ InWindow(t)
    /\ Kept[e] # Never
    /\ seen' = Kept
    /\ UNCHANGED <<now, sent, accepted, restarts>>

Tick ==
    /\ now < MaxTime
    /\ now' = now + 1
    /\ UNCHANGED <<seen, sent, accepted, restarts>>

\* NewInMemoryReplayGuard in a new process.
Restart ==
    /\ restarts < MaxRestarts
    /\ restarts' = restarts + 1
    /\ seen' = [e \in Events |-> Never]
    /\ UNCHANGED <<now, sent, accepted>>

GuardInit ==
    /\ now \in Time
    /\ seen = [e \in Events |-> Never]
    /\ sent = {}
    /\ accepted = [e \in Events |-> 0]
    /\ restarts = 0

GuardNext ==
    \/ \E e \in Events, t \in Time :
         \/ Sign(e, t)
         \/ Accept(e, t)
         \/ RejectReplay(e, t)
    \/ Tick
    \/ Restart

GuardSpec == GuardInit /\ [][GuardNext]_guardVars

-----------------------------------------------------------------------------
\* Every variable has its type.
GuardTypeOK ==
    /\ now \in Time
    /\ seen \in [Events -> Int]
    /\ sent \subseteq Request
    /\ accepted \in [Events -> Nat]
    /\ restarts \in Nat

\* One process hands an event to its handler at most once, however often and
\* however late a signed request for it is presented: a second acceptance
\* needs a restart in between.
AcceptedOncePerProcess == \A e \in Events : accepted[e] <= 1 + restarts

\* An event that the running process accepted is remembered for as long as any
\* of its signed requests can still pass the timestamp check.
RememberedWhileFresh ==
    restarts = 0 => \A e \in Events : accepted[e] > 0 =>
        \/ seen[e] > now
        \/ \A m \in sent : m.event = e => ~InWindow(m.ts)

=============================================================================
