------------------------------- MODULE Gateway -------------------------------
(***************************************************************************)
(* The API gateway (internal/api/gateway/middleware.go).  Every request    *)
(* runs in a goroutine of its own through Middleware.ServeHTTP:            *)
(*                                                                         *)
(*   - authentication and tenant scope, which read only the configuration; *)
(*   - ipLimiter.Allow, a token bucket per client under the limiter's own  *)
(*     mutex, which forgets idle buckets on every CleanupEvery-th call;    *)
(*   - validation, then the next handler, which takes any time;            *)
(*   - the deferred function, which takes the time and then, under the     *)
(*     mutex of the metrics, records the request in counters and in a ring *)
(*     of per-second counts that MetricsSnapshot adds up.                  *)
(*                                                                         *)
(* Tokens are counted in units: one token is Cost units and a bucket gains *)
(* Rate units a second, so that a rate below one per second is an integer. *)
(* What a request carries is its class: "anon" (no valid token, or headers *)
(* outside its tenant scope), "bad" (refused by validateRequest), "good".  *)
(***************************************************************************)
EXTENDS Integers, Sequences, FiniteSets, FiniteSetsExt

CONSTANTS
    Reqs,          \* the requests of a behaviour
    Clients,       \* the keys clientKey derives
    Class,         \* what the requests carry, of "anon", "bad" and "good"
    Cost,          \* units in one token
    Rate,          \* units a bucket gains per second (RatePerSecond)
    Burst,         \* tokens of a full bucket (RateBurst)
    CleanupEvery,  \* calls of Allow between two cleanups (100 in the code)
    EntryTTL,      \* seconds an idle bucket is kept (600 in the code)
    RingSize,      \* seconds the ring of counts covers (60 in the code)
    MaxLag,        \* bound: seconds between a request's stamp and its Record
    MaxTime        \* bound: the last second of a behaviour

ASSUME GatewayAssumption ==
    /\ Class \subseteq {"anon", "bad", "good"}
    /\ {Cost, Rate, Burst, CleanupEvery, RingSize, MaxTime} \subseteq Nat \ {0}
    /\ {EntryTTL, MaxLag} \subseteq Nat

VARIABLES
    now,       \* the clock, in seconds
    req,       \* the goroutine of each request
    entries,   \* ipLimiter.entries
    requests,  \* ipLimiter.requests
    metrics,   \* the counters of gatewayMetrics
    perSecond, \* gatewayMetrics.perSecond
    grants     \* history: the times at which Allow said yes to each client

limiter == <<entries, requests, grants>>
ring    == <<metrics, perSecond>>
vars    == <<now, req, limiter, ring>>

Outcome == {"forwarded", "rejected_auth", "rejected_rate_limit", "rejected_validation"}
Rejects == Outcome \ {"forwarded"}
Second  == 0 .. MaxTime

(* A request before it arrives. *)
NoReq == [phase |-> "none", outcome |-> "forwarded", at |-> 0]

(* What a client that was never seen, or was forgotten, has for a bucket.  *)
NoBucket == [tokens |-> 0, last |-> 0]

------------------------------------------------------------------------------
(* The limiter.                                                            *)

(* The units of c's bucket at this instant, refilled for the time since    *)
(* its last use and capped at the burst; a new bucket is full.             *)
Refilled(c) ==
    IF entries[c] = NoBucket THEN Burst * Cost
    ELSE Min({Burst * Cost, entries[c].tokens + (now - entries[c].last) * Rate})

(* Mutant: the TTL is compared the wrong way round. *)
cleanupRecent(es) ==
    IF (requests + 1) % CleanupEvery # 0 THEN es
    ELSE [c \in Clients |-> IF now - es[c].last < EntryTTL THEN NoBucket ELSE es[c]]

(* cleanupIfNeeded: on every CleanupEvery-th call, the buckets not seen    *)
(* for longer than the TTL are deleted.                                    *)
cleanupIfNeeded(es) ==
    IF (requests + 1) % CleanupEvery # 0 THEN es
    ELSE [c \in Clients |-> IF now - es[c].last > EntryTTL THEN NoBucket ELSE es[c]]

(* A request is let through while the bucket holds a token. *)
Allowed(c) == Refilled(c) >= Cost

(* Allow: the bucket is refilled, a token taken if there is one, and both  *)
(* times of the bucket set.                                                *)
Allow(c) ==
    LET left == IF Allowed(c) THEN Refilled(c) - Cost ELSE Refilled(c)
    IN  /\ entries' = cleanupIfNeeded([entries EXCEPT ![c] = [tokens |-> left, last |-> now]])
        /\ requests' = (requests + 1) % CleanupEvery
        /\ grants' = IF Allowed(c) THEN [grants EXCEPT ![c] = Append(@, now)] ELSE grants

------------------------------------------------------------------------------
(* A request.                                                              *)

(* checkAuth finds the principal of the token and injectTenantScope the    *)
(* request's own headers to agree with it; validateRequest accepts the     *)
(* headers and the size of the body.                                       *)
checkAuth(class)       == class # "anon"
validateRequest(class) == class # "bad"

Serve(r, outcome) ==
    /\ req[r].phase = "none"
    /\ req' = [req EXCEPT ![r] = [phase |-> "serving", outcome |-> outcome, at |-> 0]]

(* Mutant: the validation error is reported before the rate limit. *)
ServeLimitLast(r, c, class) ==
    /\ IF ~ checkAuth(class)
       THEN Serve(r, "rejected_auth") /\ UNCHANGED limiter
       ELSE /\ Allow(c)
            /\ Serve(r, IF ~ validateRequest(class) THEN "rejected_validation"
                        ELSE IF ~ Allowed(c) THEN "rejected_rate_limit"
                        ELSE "forwarded")
    /\ UNCHANGED <<now, ring>>

(* ServeHTTP up to the answer: the checks in the order of the code, each   *)
(* one ending the request.                                                 *)
ServeHTTP(r, c, class) ==
    /\ IF ~ checkAuth(class)
       THEN Serve(r, "rejected_auth") /\ UNCHANGED limiter
       ELSE /\ Allow(c)
            /\ Serve(r, IF ~ Allowed(c) THEN "rejected_rate_limit"
                        ELSE IF ~ validateRequest(class) THEN "rejected_validation"
                        ELSE "forwarded")
    /\ UNCHANGED <<now, ring>>

(* The deferred function reads the clock, before it takes the mutex.       *)
Finish(r) ==
    /\ req[r].phase = "serving"
    /\ req' = [req EXCEPT ![r].phase = "stamped", ![r].at = now]
    /\ UNCHANGED <<now, limiter, ring>>

(* Mutant: the slot is reused without being cleared. *)
CountAtStale(s) ==
    LET b == perSecond[s % RingSize]
    IN  [perSecond EXCEPT ![s % RingSize] = [second |-> s, count |-> b.count + 1]]

(* The slot of second s counts it, after dropping what an older second     *)
(* left there.                                                             *)
CountAt(s) ==
    LET b == perSecond[s % RingSize]
    IN  [perSecond EXCEPT ![s % RingSize] =
            [second |-> s, count |-> (IF b.second # s THEN 0 ELSE b.count) + 1]]

(* gatewayMetrics.Record, with the time the deferred function read. *)
Record(r) ==
    /\ req[r].phase = "stamped"
    /\ metrics' = [metrics EXCEPT !.total = @ + 1,
                                  !.rejected = [o \in Rejects |->
                                     IF o = req[r].outcome THEN @[o] + 1 ELSE @[o]]]
    /\ perSecond' = CountAt(req[r].at)
    /\ req' = [req EXCEPT ![r].phase = "done"]
    /\ UNCHANGED <<now, limiter>>

(* Snapshot: the loop over the ring that adds up the requests of the last  *)
(* minute.  Snapshot reads the clock just before it takes the lock; here   *)
(* it does both at once.                                                   *)
RequestsLast1m ==
    LET Recent(bucket) == bucket.second # 0 /\ now - bucket.second < RingSize
        sum[i \in 0 .. RingSize] ==   \* over the first i slots
            IF i = 0 THEN 0
            ELSE sum[i - 1] + (IF Recent(perSecond[i - 1]) THEN perSecond[i - 1].count ELSE 0)
    IN  sum[RingSize]

(* Time passes.  A goroutine that has read the clock records within MaxLag *)
(* seconds: it only waits for a mutex held for a few assignments.          *)
Tick ==
    /\ now < MaxTime
    /\ \A r \in Reqs : req[r].phase = "stamped" => now - req[r].at < MaxLag
    /\ now' = now + 1
    /\ UNCHANGED <<req, limiter, ring>>

(* NewHandler, newIPLimiter, newGatewayMetrics.  Unix time is not 0.  *)
Init ==
    /\ now = 1
    /\ req = [r \in Reqs |-> NoReq]
    /\ entries = [c \in Clients |-> NoBucket]
    /\ requests = 0
    /\ metrics = [total |-> 0, rejected |-> [o \in Rejects |-> 0]]
    /\ perSecond = [i \in 0 .. RingSize - 1 |-> [second |-> 0, count |-> 0]]
    /\ grants = [c \in Clients |-> <<>>]

Next ==
    \/ \E r \in Reqs, c \in Clients, class \in Class : ServeHTTP(r, c, class)
    \/ \E r \in Reqs : Finish(r)
    \/ \E r \in Reqs : Record(r)
    \/ Tick

Spec == Init /\ [][Next]_vars

------------------------------------------------------------------------------
(* Properties.                                                             *)

(* Every variable has the shape its declaration in the middleware gives    *)
(* it; in particular a bucket never holds more than the burst, nor less    *)
(* than nothing.                                                           *)
TypeOK ==
    /\ now \in 1 .. MaxTime
    /\ req \in [Reqs -> [phase : {"none", "serving", "stamped", "done"},
                         outcome : Outcome, at : Second]]
    /\ entries \in [Clients -> [tokens : 0 .. Burst * Cost, last : Second]]
    /\ requests \in 0 .. CleanupEvery - 1
    /\ metrics \in [total : Nat, rejected : [Rejects -> Nat]]
    /\ perSecond \in [0 .. RingSize - 1 -> [second : Second, count : Nat]]
    /\ grants \in [Clients -> Seq(Second)]

(* What the limiter is for: in every stretch of time a client is let       *)
(* through at most the burst plus what the rate gives in that stretch,     *)
(* whatever the cleanup forgets in between (Allow, cleanupIfNeeded).       *)
RateBound ==
    \A c \in Clients : \A i, j \in DOMAIN grants[c] :
        i <= j => (j - i + 1) * Cost
                  <= Burst * Cost + Rate * (grants[c][j] - grants[c][i])

(* The counters of Record and the decisions of the limiter tell the same   *)
(* story: what was let through and is recorded, plus what was let through  *)
(* and is still being served, is what Allow granted.                       *)
GrantsAccounted ==
    LET past    == metrics.total - metrics.rejected["rejected_auth"]
                                 - metrics.rejected["rejected_rate_limit"]
        current == {r \in Reqs : /\ req[r].phase \in {"serving", "stamped"}
                                 /\ req[r].outcome \in {"forwarded", "rejected_validation"}}
        granted == UNION {{c} \X DOMAIN grants[c] : c \in Clients}
    IN  past + Cardinality(current) = Cardinality(granted)

(* The ring is exact: the count of the last minute that the snapshot shows *)
(* is the number of recorded requests that finished in the last RingSize   *)
(* seconds, though the slots are reused and requests may record out of     *)
(* order.                                                                  *)
RecentExact ==
    RequestsLast1m = Cardinality({r \in Reqs : req[r].phase = "done"
                                               /\ now - req[r].at < RingSize})
==============================================================================
