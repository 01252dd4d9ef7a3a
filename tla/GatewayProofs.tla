---------------------------- MODULE GatewayProofs ----------------------------
(***************************************************************************)
(* What limiter and metrics of the gateway guarantee for every rate, burst *)
(* and TTL and for any number of clients and requests.                     *)
(***************************************************************************)
EXTENDS Gateway, FiniteSetTheorems, NaturalsInduction, WellFoundedInduction, TLAPS

(* The configuration newIPLimiter does not check: a bucket that is deleted *)
(* as idle would have been full again.                                     *)
LongTTL == Burst * Cost <= Rate * (EntryTTL + 1)

(* The full bucket. *)
Full == Burst * Cost

(* A bucket was used in the past. *)
UsedBefore == \A c \in Clients : entries[c].last <= now

(* What was granted since a grant, and what the bucket still holds, is at  *)
(* most the burst and what the rate has given since.                       *)
FlowBound ==
    \A c \in Clients : \A i \in DOMAIN grants[c] :
        (Len(grants[c]) - i + 1) * Cost + Refilled(c) <= Full + Rate * (now - grants[c][i])

------------------------------------------------------------------------------
(* The constants are positive numbers. *)
LEMMA Numbers ==
    /\ {Cost, Rate, Burst, CleanupEvery, RingSize, MaxTime} \subseteq Nat
    /\ Cost > 0 /\ Rate > 0 /\ CleanupEvery > 0 /\ RingSize > 0 /\ MaxTime > 0
    /\ EntryTTL \in Nat /\ MaxLag \in Nat
    /\ Full \in Nat /\ Full >= Cost
  <1>1. \A a, b \in Nat : b > 0 => a * b \in Nat /\ (a > 0 => a * b >= b)
    OBVIOUS
  <1>. QED
    BY <1>1, GatewayAssumption DEF Full

(* The smaller of two numbers. *)
LEMMA MinOfTwo ==
    ASSUME NEW a \in Int, NEW b \in Int
    PROVE  Min({a, b}) = IF a <= b THEN a ELSE b
  BY DEF Min

(* A longer time gives more units, a second gives Rate. *)
LEMMA Gains ==
    ASSUME NEW a \in Int, NEW b \in Int
    PROVE  /\ a * Rate \in Int
           /\ a >= 0 => a * Rate >= 0
           /\ a >= b => a * Rate >= b * Rate
           /\ (a + 1) * Rate = a * Rate + Rate
           /\ Rate * a = a * Rate
  BY Numbers

(* The bucket is between empty and full. *)
LEMMA RefilledType ==
    ASSUME TypeOK, UsedBefore, NEW c \in Clients
    PROVE  Refilled(c) \in 0 .. Full
  <1>1. /\ entries[c].tokens \in 0 .. Full /\ entries[c].last \in Int /\ now \in Int
        /\ now - entries[c].last \in Int /\ now - entries[c].last >= 0
    BY DEF TypeOK, UsedBefore, Second, Full
  <1>2. (now - entries[c].last) * Rate \in Int /\ (now - entries[c].last) * Rate >= 0
    BY <1>1, Gains
  <1>3. entries[c].tokens + (now - entries[c].last) * Rate \in Nat
    BY <1>1, <1>2
  <1>. QED
    BY <1>1, <1>3, Numbers, MinOfTwo DEF Refilled, Full

(* What Allow leaves in the bucket of c. *)
Left(c) == IF Allowed(c) THEN Refilled(c) - Cost ELSE Refilled(c)

(* Left keeps the bucket between empty and full. *)
LEMMA LeftType ==
    ASSUME TypeOK, UsedBefore, NEW c \in Clients
    PROVE  /\ Left(c) \in 0 .. Full
           /\ Allowed(c) => Refilled(c) = Left(c) + Cost
           /\ ~Allowed(c) => Refilled(c) = Left(c)
  BY RefilledType, Numbers DEF Left, Allowed

(* The bucket of every client after Allow: that of c, the one it was, or   *)
(* none if it was idle for longer than the TTL.                            *)
LEMMA AllowEntries ==
    ASSUME TypeOK, UsedBefore, NEW c \in Clients, Allow(c), now' = now
    PROVE  /\ entries' \in [Clients -> [tokens : 0 .. Full, last : Second]]
           /\ entries'[c] = [tokens |-> Left(c), last |-> now]
           /\ \A d \in Clients \ {c} :
                \/ entries'[d] = entries[d]
                \/ entries'[d] = NoBucket /\ now - entries[d].last > EntryTTL
  <1>. DEFINE mid == [entries EXCEPT ![c] = [tokens |-> Left(c), last |-> now]]
  <1>1. entries' = cleanupIfNeeded(mid)
    BY DEF Allow, Left
  <1>2. now \in Second /\ now \in Int /\ Left(c) \in 0 .. Full /\ 0 \in Second /\ EntryTTL \in Nat
    <2>1. now \in 1 .. MaxTime
      BY DEF TypeOK
    <2>2. MaxTime \in Nat /\ EntryTTL \in Nat
      BY Numbers
    <2>. QED
      BY <2>1, <2>2, LeftType DEF Second
  <1>3. entries \in [Clients -> [tokens : 0 .. Full, last : Second]]
    BY DEF TypeOK, Full
  <1>4. /\ mid \in [Clients -> [tokens : 0 .. Full, last : Second]]
        /\ mid[c] = [tokens |-> Left(c), last |-> now]
        /\ \A d \in Clients \ {c} : mid[d] = entries[d]
    BY <1>2, <1>3
  <1>5. NoBucket \in [tokens : 0 .. Full, last : Second]
    BY <1>2, Numbers DEF NoBucket
  <1>. HIDE DEF mid
  <1>6. ~(now - mid[c].last > EntryTTL)
    BY <1>2, <1>4
  <1>. QED
    BY <1>1, <1>4, <1>5, <1>6 DEF cleanupIfNeeded

(* With a long TTL the cleanup changes nothing: a forgotten bucket was     *)
(* full.                                                                   *)
LEMMA AllowRefilled ==
    ASSUME LongTTL, TypeOK, UsedBefore, NEW c \in Clients, Allow(c), now' = now
    PROVE  /\ Refilled(c)' = Left(c)
           /\ \A d \in Clients \ {c} : Refilled(d)' = Refilled(d)
  <1>1. now \in Int /\ now >= 1 /\ Left(c) \in 0 .. Full
    BY LeftType DEF TypeOK
  <1>2. Refilled(c)' = Left(c)
    <2>1. entries'[c] = [tokens |-> Left(c), last |-> now] /\ entries'[c] # NoBucket
      BY <1>1, AllowEntries DEF NoBucket
    <2>2. Refilled(c)' = Min({Full, Left(c) + (now - now) * Rate})
      BY <2>1 DEF Refilled, Full
    <2>3. Left(c) + (now - now) * Rate = Left(c)
      BY <1>1, Numbers
    <2>. QED
      BY <1>1, <2>2, <2>3, MinOfTwo, Numbers
  <1>3. ASSUME NEW d \in Clients \ {c}
        PROVE  Refilled(d)' = Refilled(d)
    <2>1. CASE entries'[d] = entries[d]
      BY <2>1 DEF Refilled
    <2>2. CASE entries'[d] = NoBucket /\ now - entries[d].last > EntryTTL
      <3>1. Refilled(d)' = Full
        BY <2>2 DEF Refilled, Full
      <3>2. entries[d].tokens \in 0 .. Full /\ now - entries[d].last \in Int
        BY DEF TypeOK, Second, Full
      <3>. DEFINE idle == now - entries[d].last
      <3>. HIDE DEF idle
      <3>3. idle \in Int /\ idle >= EntryTTL + 1 /\ EntryTTL + 1 \in Int
        BY <2>2, <3>2, Numbers DEF idle
      <3>4. (EntryTTL + 1) * Rate >= Full /\ (EntryTTL + 1) * Rate \in Int
        BY Gains, Numbers DEF LongTTL, Full
      <3>5. idle * Rate \in Int /\ idle * Rate >= (EntryTTL + 1) * Rate
        BY <3>3, Gains
      <3>6. Refilled(d) = IF entries[d] = NoBucket THEN Full
                          ELSE Min({Full, entries[d].tokens + idle * Rate})
        BY DEF Refilled, Full, idle
      <3>7. entries[d].tokens + idle * Rate \in Int /\ entries[d].tokens + idle * Rate >= Full
            /\ Full \in Int
        BY <3>2, <3>4, <3>5, Numbers
      <3>8. Refilled(d) = Full
        BY <3>6, <3>7, MinOfTwo
      <3>. QED
        BY <3>1, <3>8
    <2>. QED
      BY <2>1, <2>2, AllowEntries
  <1>. QED
    BY <1>2, <1>3

(* A second gives a bucket at most Rate units. *)
LEMMA TickRefilled ==
    ASSUME TypeOK, UsedBefore, NEW c \in Clients, now' = now + 1, entries' = entries
    PROVE  Refilled(c)' \in Int /\ Refilled(c)' <= Refilled(c) + Rate
  <1>. DEFINE t == entries[c].tokens
              g == (now - entries[c].last) * Rate
  <1>1. t \in Int /\ now - entries[c].last \in Int /\ now \in Int /\ entries[c].last \in Int
    BY DEF TypeOK, Second
  <1>2. g \in Int /\ (now - entries[c].last + 1) * Rate = g + Rate
    BY <1>1, Gains
  <1>3. now' - entries[c].last = now - entries[c].last + 1
    BY <1>1
  <1>4. Refilled(c) = IF entries[c] = NoBucket THEN Full ELSE Min({Full, t + g})
    BY DEF Refilled, Full
  <1>5. Refilled(c)' = IF entries[c] = NoBucket THEN Full ELSE Min({Full, t + (g + Rate)})
    BY <1>2, <1>3 DEF Refilled, Full
  <1>. HIDE DEF t, g
  <1>. QED
    BY <1>1, <1>2, <1>4, <1>5, MinOfTwo, Numbers
------------------------------------------------------------------------------
(* The invariant that needs no assumption. *)
Shape == TypeOK /\ UsedBefore

(* The initial state has its shape, and nothing was granted. *)
LEMMA InitShape ==
    ASSUME Init
    PROVE  Shape /\ FlowBound /\ RateBound
  <1>1. 0 \in Second /\ 1 \in 1 .. MaxTime /\ 0 \in 0 .. Burst * Cost
        /\ 0 \in 0 .. CleanupEvery - 1
    BY Numbers DEF Second, Full
  <1>2. TypeOK
    BY <1>1 DEF Init, TypeOK, NoReq, NoBucket, Outcome
  <1>3. UsedBefore
    BY DEF Init, UsedBefore, NoBucket
  <1>. QED
    BY <1>2, <1>3 DEF Init, Shape, FlowBound, RateBound

(* The number of calls stays below the period of the cleanup, and the slot *)
(* of a second is one of the ring.                                         *)
LEMMA Modulo ==
    ASSUME NEW n \in Nat
    PROVE  n % CleanupEvery \in 0 .. CleanupEvery - 1 /\ n % RingSize \in 0 .. RingSize - 1
  BY Numbers

(* ServeHTTP keeps the shape. *)
LEMMA ServeShape ==
    ASSUME Shape, NEW r \in Reqs, NEW c \in Clients, NEW class \in Class,
           ServeHTTP(r, c, class)
    PROVE  Shape'
  <1>1. TypeOK /\ UsedBefore /\ now' = now /\ UNCHANGED ring
    BY DEF Shape, ServeHTTP
  <1>2. req' \in [Reqs -> [phase : {"none", "serving", "stamped", "done"},
                           outcome : Outcome, at : Second]]
    <2>1. PICK o \in Outcome : Serve(r, o)
      BY DEF ServeHTTP, Outcome
    <2>2. 0 \in Second
      BY Numbers DEF Second
    <2>. QED
      BY <1>1, <2>1, <2>2 DEF Serve, TypeOK
  <1>3. CASE UNCHANGED limiter
    BY <1>1, <1>2, <1>3 DEF limiter, ring, Shape, TypeOK, UsedBefore
  <1>4. CASE Allow(c)
    <2>1. /\ entries' \in [Clients -> [tokens : 0 .. Full, last : Second]]
          /\ \A d \in Clients : entries'[d].last <= now
      <3>1. now \in Int /\ now >= 1 /\ NoBucket.last = 0
        BY <1>1 DEF TypeOK, NoBucket
      <3>2. /\ entries' \in [Clients -> [tokens : 0 .. Full, last : Second]]
            /\ entries'[c] = [tokens |-> Left(c), last |-> now]
            /\ \A d \in Clients \ {c} :
                 \/ entries'[d] = entries[d]
                 \/ entries'[d] = NoBucket /\ now - entries[d].last > EntryTTL
        BY <1>1, <1>4, AllowEntries
      <3>3. entries'[c].last = now
        BY <3>2
      <3>. QED
        BY <1>1, <3>1, <3>2, <3>3 DEF UsedBefore
    <2>2. requests' \in 0 .. CleanupEvery - 1
      BY <1>1, <1>4, Modulo DEF Allow, TypeOK
    <2>3. grants' \in [Clients -> Seq(Second)]
      BY <1>1, <1>4 DEF Allow, TypeOK, Second
    <2>. QED
      BY <1>1, <1>2, <2>1, <2>2, <2>3 DEF ring, Shape, TypeOK, UsedBefore, Full
  <1>. QED
    BY <1>3, <1>4 DEF ServeHTTP

(* Record keeps the shape. *)
LEMMA RecordShape ==
    ASSUME Shape, NEW r \in Reqs, Record(r)
    PROVE  Shape'
  <1>1. TypeOK /\ UsedBefore /\ now' = now /\ UNCHANGED limiter
    BY DEF Shape, Record
  <1>2. req[r].at \in Second /\ req[r].at \in Nat
    BY <1>1 DEF TypeOK, Second
  <1>3. metrics' \in [total : Nat, rejected : [Rejects -> Nat]]
    <2>1. metrics.total + 1 \in Nat
      BY <1>1 DEF TypeOK
    <2>2. [o \in Rejects |-> IF o = req[r].outcome THEN metrics.rejected[o] + 1
                                                   ELSE metrics.rejected[o]] \in [Rejects -> Nat]
      BY <1>1 DEF TypeOK
    <2>. QED
      BY <1>1, <2>1, <2>2 DEF TypeOK, Record
  <1>4. perSecond' \in [0 .. RingSize - 1 -> [second : Second, count : Nat]]
    <2>1. req[r].at % RingSize \in 0 .. RingSize - 1
      BY <1>2, Modulo
    <2>. QED
      BY <1>1, <1>2, <2>1 DEF TypeOK, Record, CountAt
  <1>5. req' \in [Reqs -> [phase : {"none", "serving", "stamped", "done"},
                           outcome : Outcome, at : Second]]
    BY <1>1, ZenonT(60) DEF TypeOK, Record
  <1>6. UNCHANGED <<now, entries, requests, grants>>
    BY <1>1 DEF limiter
  <1>7. UsedBefore'
    BY <1>1, <1>6 DEF UsedBefore
  <1>8. TypeOK'
    BY <1>1, <1>3, <1>4, <1>5, <1>6, Zenon DEF TypeOK
  <1>. QED
    BY <1>7, <1>8 DEF Shape

(* Every step keeps the shape. *)
LEMMA StepShape ==
    ASSUME Shape, [Next]_vars
    PROVE  Shape'
  <1>1. TypeOK /\ UsedBefore
    BY DEF Shape
  <1>2. ASSUME NEW r \in Reqs, Finish(r)
        PROVE  Shape'
    <2>1. now \in Second
      BY <1>1 DEF TypeOK, Second
    <2>2. UNCHANGED <<now, entries, requests, grants, metrics, perSecond>>
      BY <1>2 DEF Finish, limiter, ring
    <2>3. req' \in [Reqs -> [phase : {"none", "serving", "stamped", "done"},
                             outcome : Outcome, at : Second]]
      BY <1>1, <1>2, <2>1, ZenonT(60) DEF Finish, TypeOK
    <2>4. UsedBefore'
      BY <1>1, <2>2 DEF UsedBefore
    <2>5. TypeOK'
      BY <1>1, <2>2, <2>3, Zenon DEF TypeOK
    <2>. QED
      BY <2>4, <2>5 DEF Shape
  <1>3. CASE Tick
    <2>1. now \in Int /\ now' = now + 1 /\ now' \in 1 .. MaxTime
      BY <1>1, <1>3, Numbers DEF Tick, TypeOK
    <2>2. UsedBefore'
      BY <1>1, <1>3, <2>1 DEF Tick, limiter, TypeOK, UsedBefore, Second
    <2>. QED
      BY <1>1, <1>3, <2>1, <2>2 DEF Tick, limiter, ring, Shape, TypeOK
  <1>4. CASE UNCHANGED vars
    BY <1>1, <1>4 DEF vars, limiter, ring, Shape, TypeOK, UsedBefore
  <1>. QED
    BY <1>2, <1>3, <1>4, ServeShape, RecordShape DEF Next

(* Every variable of the gateway has its type, a bucket between empty and  *)
(* full included.                                                          *)
THEOREM GatewayTypes == Spec => []TypeOK
  <1>1. Init => Shape
    BY InitShape
  <1>2. Shape /\ [Next]_vars => Shape'
    BY StepShape
  <1>3. Shape => TypeOK
    BY DEF Shape
  <1>. QED
    BY <1>1, <1>2, <1>3, PTL DEF Spec

------------------------------------------------------------------------------
(* One token more is Cost units more. *)
LEMMA Costs ==
    ASSUME NEW a \in Int
    PROVE  a * Cost \in Int /\ (a + 1) * Cost = a * Cost + Cost
  BY Numbers

(* The times of the grants are numbers. *)
LEMMA GrantTimes ==
    ASSUME TypeOK, NEW c \in Clients
    PROVE  /\ now \in Int
           /\ Len(grants[c]) \in Nat /\ DOMAIN grants[c] = 1 .. Len(grants[c])
           /\ \A i \in DOMAIN grants[c] :
                /\ grants[c][i] \in Int
                /\ now - grants[c][i] \in Int /\ Rate * (now - grants[c][i]) \in Int
  <1>1. /\ now \in Int /\ grants[c] \in Seq(Second)
        /\ \A x \in Second : x \in Int
    BY DEF TypeOK, Second
  <1>2. ASSUME NEW i \in DOMAIN grants[c]
        PROVE  grants[c][i] \in Int /\ now - grants[c][i] \in Int
               /\ Rate * (now - grants[c][i]) \in Int
    <2>1. grants[c][i] \in Int /\ now - grants[c][i] \in Int
      BY <1>1
    <2>. QED
      BY <2>1, Gains
  <1>. QED
    BY <1>1, <1>2

(* The grants after one more. *)
LEMMA OneMore ==
    ASSUME TypeOK, NEW c \in Clients, Allow(c), Allowed(c)
    PROVE  /\ grants'[c] = Append(grants[c], now)
           /\ Len(grants'[c]) = Len(grants[c]) + 1
           /\ DOMAIN grants'[c] = 1 .. Len(grants[c]) + 1
           /\ grants'[c][Len(grants[c]) + 1] = now
           /\ \A i \in DOMAIN grants[c] : grants'[c][i] = grants[c][i]
           /\ \A d \in Clients \ {c} : grants'[d] = grants[d]
  <1>1. grants \in [Clients -> Seq(Second)] /\ now \in Second
    BY DEF TypeOK, Second
  <1>2. grants' = [grants EXCEPT ![c] = Append(@, now)]
    BY DEF Allow
  <1>3. /\ grants'[c] = Append(grants[c], now) /\ grants[c] \in Seq(Second)
        /\ \A d \in Clients \ {c} : grants'[d] = grants[d]
    BY <1>1, <1>2
  <1>4. ASSUME NEW q \in Seq(Second)
        PROVE  /\ Len(Append(q, now)) = Len(q) + 1
               /\ DOMAIN Append(q, now) = 1 .. Len(q) + 1
               /\ Append(q, now)[Len(q) + 1] = now
               /\ \A i \in DOMAIN q : Append(q, now)[i] = q[i]
    OBVIOUS
  <1>. QED
    BY <1>3, <1>4

(* A grant keeps the flow within its bound: the token it takes was in the  *)
(* bucket.                                                                 *)
LEMMA GrantFlow ==
    ASSUME Shape, FlowBound, NEW c \in Clients, Allow(c), Allowed(c),
           NEW i \in 1 .. Len(grants[c]) + 1
    PROVE  (Len(grants[c]) + 1 - i + 1) * Cost + Left(c) <= Full + Rate * (now - grants'[c][i])
  <1>. DEFINE n == Len(grants[c])
  <1>1. TypeOK /\ UsedBefore
    BY DEF Shape
  <1>2. /\ Left(c) \in 0 .. Full /\ Refilled(c) = Left(c) + Cost /\ Refilled(c) \in 0 .. Full
        /\ Cost \in Nat /\ Full \in Nat
    BY <1>1, LeftType, RefilledType, Numbers
  <1>3. n \in Nat /\ DOMAIN grants[c] = 1 .. n /\ now \in Int
    BY <1>1, GrantTimes
  <1>4. CASE i = n + 1
    <2>1. grants'[c][i] = now
      BY <1>1, <1>4, OneMore
    <2>2. n + 1 - i + 1 = 1 /\ now - now = 0
      BY <1>3, <1>4
    <2>3. 1 * Cost = Cost /\ Rate * 0 = 0
      BY Numbers
    <2>4. (n + 1 - i + 1) * Cost = Cost /\ Rate * (now - grants'[c][i]) = 0
      BY <2>1, <2>2, <2>3, Zenon
    <2>. QED
      BY <1>2, <2>4
  <1>5. CASE i # n + 1
    <2>1. i \in DOMAIN grants[c] /\ grants'[c][i] = grants[c][i]
      BY <1>1, <1>3, <1>5, OneMore
    <2>. DEFINE m == n - i + 1
                x == Rate * (now - grants[c][i])
    <2>2. m * Cost + Refilled(c) <= Full + x
      BY <2>1 DEF FlowBound
    <2>3. m \in Int /\ n + 1 - i + 1 = m + 1
      BY <1>3, <2>1
    <2>4. m * Cost \in Int /\ (m + 1) * Cost = m * Cost + Cost
      BY <2>3, Costs
    <2>5. x \in Int
      BY <1>1, <2>1, GrantTimes
    <2>. HIDE DEF m, x
    <2>6. (m + 1) * Cost + Left(c) <= Full + x
      BY <1>2, <2>2, <2>4, <2>5
    <2>. QED
      BY <2>1, <2>3, <2>6 DEF x
  <1>. QED
    BY <1>4, <1>5

(* A decision of the limiter keeps both bounds. *)
LEMMA AllowFlow ==
    ASSUME LongTTL, Shape, FlowBound, RateBound, NEW c \in Clients, Allow(c), now' = now
    PROVE  FlowBound' /\ RateBound'
  <1>1. TypeOK /\ UsedBefore
    BY DEF Shape
  <1>2. /\ Refilled(c)' = Left(c) /\ Left(c) \in 0 .. Full
        /\ \A d \in Clients \ {c} : Refilled(d)' = Refilled(d)
    BY <1>1, AllowRefilled, LeftType
  <1>3. CASE ~Allowed(c)
    <2>1. grants' = grants /\ Refilled(c) = Left(c)
      BY <1>1, <1>3, LeftType DEF Allow
    <2>. QED
      BY <1>2, <2>1 DEF FlowBound, RateBound
  <1>4. CASE Allowed(c)
    <2>. DEFINE n == Len(grants[c])
    <2>1. /\ n \in Nat /\ DOMAIN grants[c] = 1 .. n
          /\ Len(grants'[c]) = n + 1 /\ DOMAIN grants'[c] = 1 .. n + 1
          /\ grants'[c][n + 1] = now
          /\ \A i \in 1 .. n : grants'[c][i] = grants[c][i]
          /\ \A d \in Clients \ {c} : grants'[d] = grants[d]
      BY <1>1, <1>4, OneMore, GrantTimes
    <2>2. \A i \in 1 .. n + 1 :
            (n + 1 - i + 1) * Cost + Left(c) <= Full + Rate * (now - grants'[c][i])
      BY <1>4, GrantFlow
    <2>. HIDE DEF n
    <2>3. FlowBound'
      <3>1. ASSUME NEW d \in Clients, NEW i \in DOMAIN grants'[d]
            PROVE  (Len(grants'[d]) - i + 1) * Cost + Refilled(d)'
                   <= Full + Rate * (now' - grants'[d][i])
        <4>1. CASE d = c
          <5>1. i \in 1 .. n + 1
            BY <2>1, <4>1
          <5>2. (n + 1 - i + 1) * Cost + Left(c) <= Full + Rate * (now - grants'[c][i])
            BY <2>2, <5>1, Zenon
          <5>3. Len(grants'[d]) = n + 1 /\ grants'[d][i] = grants'[c][i] /\ now' = now
            BY <2>1, <4>1, Zenon
          <5>4. Refilled(d)' = Left(c)
            BY <1>2, <4>1
          <5>5. Len(grants'[d]) - i + 1 = n + 1 - i + 1
            BY <2>1, <5>1, <5>3
          <5>6. now' - grants'[d][i] = now - grants'[c][i]
            BY <5>3, Zenon
          <5>7. (Len(grants'[d]) - i + 1) * Cost = (n + 1 - i + 1) * Cost
            BY <5>5, Zenon
          <5>8. Rate * (now' - grants'[d][i]) = Rate * (now - grants'[c][i])
            BY <5>6, Zenon
          <5>. QED
            BY <5>2, <5>4, <5>7, <5>8, Zenon
        <4>2. CASE d # c
          BY <1>2, <2>1, <4>2 DEF FlowBound
        <4>. QED
          BY <4>1, <4>2
      <3>. QED
        BY <3>1 DEF FlowBound, Full
    <2>4. RateBound'
      <3>1. ASSUME NEW d \in Clients, NEW i \in DOMAIN grants'[d], NEW j \in DOMAIN grants'[d],
                   i <= j
            PROVE  (j - i + 1) * Cost <= Full + Rate * (grants'[d][j] - grants'[d][i])
        <4>1. CASE d # c
          BY <2>1, <3>1, <4>1 DEF RateBound, Full
        <4>2. CASE d = c /\ j # n + 1
          <5>1. i \in DOMAIN grants[c] /\ j \in DOMAIN grants[c]
            BY <2>1, <3>1, <4>2
          <5>2. grants'[c][i] = grants[c][i] /\ grants'[c][j] = grants[c][j]
            BY <2>1, <5>1
          <5>. QED
            BY <3>1, <4>2, <5>1, <5>2 DEF RateBound, Full
        <4>3. CASE d = c /\ j = n + 1
          <5>1. i \in 1 .. n + 1 /\ grants'[c][j] = now
            BY <2>1, <4>3
          <5>2. grants'[c][i] \in Int /\ now \in Int
            <6>1. now \in Int /\ \A x \in 1 .. n : grants[c][x] \in Int
              BY <1>1, <2>1, GrantTimes
            <6>2. i \in 1 .. n \/ i = n + 1
              BY <2>1, <5>1
            <6>. QED
              BY <2>1, <6>1, <6>2
          <5>. DEFINE m == n + 1 - i + 1
                      g == now - grants'[c][i]
          <5>3. m * Cost + Left(c) <= Full + Rate * g
            BY <2>2, <5>1, Zenon
          <5>4. m \in Int /\ j - i + 1 = m
            BY <2>1, <4>3, <5>1
          <5>5. g \in Int /\ grants'[d][j] - grants'[d][i] = g
            BY <4>3, <5>1, <5>2
          <5>. HIDE DEF m, g
          <5>6. m * Cost \in Int /\ Rate * g \in Int
            BY <5>4, <5>5, Costs, Gains
          <5>7. m * Cost <= Full + Rate * g
            BY <1>2, <5>3, <5>6, Numbers
          <5>. QED
            BY <5>4, <5>5, <5>7
        <4>. QED
          BY <4>1, <4>2, <4>3
      <3>. QED
        BY <3>1 DEF RateBound, Full
    <2>. QED
      BY <2>3, <2>4
  <1>. QED
    BY <1>3, <1>4

(* A second keeps both bounds: it gives the bucket no more than the rate.  *)
LEMMA TickFlow ==
    ASSUME Shape, FlowBound, RateBound, Tick
    PROVE  FlowBound' /\ RateBound'
  <1>1. TypeOK /\ UsedBefore /\ now' = now + 1 /\ entries' = entries /\ grants' = grants
    BY DEF Shape, Tick, limiter
  <1>2. ASSUME NEW c \in Clients, NEW i \in DOMAIN grants[c]
        PROVE  (Len(grants[c]) - i + 1) * Cost + Refilled(c)'
               <= Full + Rate * (now' - grants[c][i])
    <2>. DEFINE g == now - grants[c][i]
                m == Len(grants[c]) - i + 1
    <2>1. m * Cost + Refilled(c) <= Full + Rate * g
      BY <1>2 DEF FlowBound
    <2>2. g \in Int /\ m \in Int /\ now' - grants[c][i] = g + 1
      <3>1. /\ now \in Int /\ grants[c][i] \in Int
            /\ Len(grants[c]) \in Nat /\ i \in 1 .. Len(grants[c])
        BY <1>1, <1>2, GrantTimes, SMTT(30)
      <3>2. PICK x \in Int, k \in Nat : x = grants[c][i] /\ k = Len(grants[c]) /\ i \in 1 .. k
        BY <3>1
      <3>3. now' = now + 1
        BY <1>1
      <3>. QED
        BY <3>1, <3>2, <3>3, SMTT(30)
    <2>3. Refilled(c)' \in Int /\ Refilled(c)' <= Refilled(c) + Rate
      BY <1>1, TickRefilled
    <2>4. m * Cost \in Int /\ Rate * g \in Int /\ Rate * (g + 1) = Rate * g + Rate
      BY <2>2, Costs, Gains
    <2>5. Refilled(c) \in Int /\ Full \in Int /\ Rate \in Int
      BY <1>1, RefilledType, Numbers
    <2>. HIDE DEF g, m
    <2>6. m * Cost + Refilled(c)' <= Full + Rate * (g + 1)
      BY <2>1, <2>3, <2>4, <2>5
    <2>. QED
      BY <2>2, <2>6 DEF m
  <1>3. FlowBound'
    BY <1>1, <1>2 DEF FlowBound, Full
  <1>. QED
    BY <1>1, <1>3 DEF RateBound

(* Every step keeps both bounds. *)
LEMMA StepFlow ==
    ASSUME LongTTL, Shape, FlowBound, RateBound, [Next]_vars
    PROVE  FlowBound' /\ RateBound'
  <1>1. ASSUME UNCHANGED <<now, limiter>>
        PROVE  FlowBound' /\ RateBound'
    BY <1>1 DEF limiter, FlowBound, RateBound, Refilled
  <1>2. ASSUME NEW r \in Reqs, NEW c \in Clients, NEW class \in Class, ServeHTTP(r, c, class)
        PROVE  FlowBound' /\ RateBound'
    BY <1>1, <1>2, AllowFlow DEF ServeHTTP
  <1>3. ASSUME NEW r \in Reqs, Finish(r) \/ Record(r)
        PROVE  FlowBound' /\ RateBound'
    BY <1>1, <1>3 DEF Finish, Record
  <1>4. CASE UNCHANGED vars
    BY <1>1, <1>4 DEF vars
  <1>. QED
    BY <1>2, <1>3, <1>4, TickFlow DEF Next

(* When a bucket is deleted only after the time in which it fills up (the  *)
(* defaults: 20 tokens a second, a burst of 40, ten minutes), a client is  *)
(* let through at most the burst plus the rate times the length, in every  *)
(* interval, whatever the cleanup forgets.                                 *)
THEOREM RateLimited == LongTTL /\ Spec => []RateBound
  <1>1. SUFFICES ASSUME LongTTL
                 PROVE  Spec => []RateBound
    OBVIOUS
  <1>2. Init => Shape /\ FlowBound /\ RateBound
    BY InitShape
  <1>3. Shape /\ FlowBound /\ RateBound /\ [Next]_vars => (Shape /\ FlowBound /\ RateBound)'
    BY <1>1, StepShape, StepFlow
  <1>. QED
    BY <1>2, <1>3, PTL DEF Spec
------------------------------------------------------------------------------
(* The counters.                                                           *)

(* The requests whose goroutine has started. *)
Started == {r \in Reqs : req[r].phase # "none"}

(* The parts of GrantsAccounted: what is recorded, what is being served,   *)
(* and what was granted.                                                   *)
Past == metrics.total - metrics.rejected["rejected_auth"]
                      - metrics.rejected["rejected_rate_limit"]
Passed(r) == req[r].outcome \in {"forwarded", "rejected_validation"}
Current == {r \in Reqs : req[r].phase \in {"serving", "stamped"} /\ Passed(r)}
Granted == UNION {{c} \X DOMAIN grants[c] : c \in Clients}

Accounts ==
    /\ IsFiniteSet(Started) /\ IsFiniteSet(Granted)
    /\ Past + Cardinality(Current) = Cardinality(Granted)

(* Only so many requests have started, so that what is counted is finite.  *)
LEMMA CurrentFinite ==
    ASSUME IsFiniteSet(Started)
    PROVE  IsFiniteSet(Current) /\ Cardinality(Current) \in Nat
  <1>1. Current \in SUBSET Started
    BY DEF Current, Started
  <1>. QED
    BY <1>1, FS_Subset, FS_CardinalityType

(* Nothing is granted twice under one number. *)
LEMMA OneMoreGrant ==
    ASSUME TypeOK, NEW c \in Clients, Allow(c), Allowed(c), IsFiniteSet(Granted)
    PROVE  IsFiniteSet(Granted') /\ Cardinality(Granted') = Cardinality(Granted) + 1
  <1>. DEFINE n == Len(grants[c]) + 1
  <1>1. Len(grants[c]) \in Nat /\ DOMAIN grants[c] = 1 .. Len(grants[c])
    BY GrantTimes
  <1>2. DOMAIN grants'[c] = 1 .. n /\ \A d \in Clients \ {c} : grants'[d] = grants[d]
    BY OneMore
  <1>3. DOMAIN grants'[c] = DOMAIN grants[c] \cup {n} /\ n \notin DOMAIN grants[c]
    BY <1>1, <1>2
  <1>. HIDE DEF n
  <1>4. Granted' = Granted \cup {<<c, n>>}
    <2>1. ASSUME NEW d, NEW i
          PROVE  <<d, i>> \in Granted' <=> <<d, i>> \in Granted \/ (d = c /\ i = n)
      BY <1>2, <1>3 DEF Granted
    <2>2. \A p \in Granted : \E d, i : p = <<d, i>>
      BY DEF Granted
    <2>3. \A p \in Granted' : \E d, i : p = <<d, i>>
      BY DEF Granted
    <2>. QED
      BY <2>1, <2>2, <2>3
  <1>5. <<c, n>> \notin Granted
    BY <1>3 DEF Granted
  <1>. QED
    BY <1>4, <1>5, FS_AddElement

(* ServeHTTP: the answer to the client says what Allow did. *)
LEMMA ServeAccounts ==
    ASSUME TypeOK, Accounts, NEW r \in Reqs, NEW c \in Clients, NEW class \in Class,
           ServeHTTP(r, c, class)
    PROVE  Accounts'
  <1>1. req \in [Reqs -> [phase : {"none", "serving", "stamped", "done"},
                          outcome : Outcome, at : Second]]
    BY DEF TypeOK
  <1>2. PICK o : /\ Serve(r, o)
                 /\ \/ o = "rejected_auth" /\ UNCHANGED grants
                    \/ o = "rejected_rate_limit" /\ UNCHANGED grants
                    \/ /\ o \in {"forwarded", "rejected_validation"}
                       /\ Allow(c) /\ Allowed(c)
    <2>1. CASE ~checkAuth(class)
      BY <2>1 DEF ServeHTTP, limiter
    <2>2. CASE checkAuth(class) /\ ~Allowed(c)
      <3>1. Serve(r, "rejected_rate_limit") /\ Allow(c)
        BY <2>2 DEF ServeHTTP
      <3>2. UNCHANGED grants
        BY <2>2, <3>1 DEF Allow
      <3>. QED
        BY <3>1, <3>2
    <2>3. CASE checkAuth(class) /\ Allowed(c)
      BY <2>3 DEF ServeHTTP
    <2>. QED
      BY <2>1, <2>2, <2>3
  <1>3. /\ req[r].phase = "none" /\ req'[r].phase = "serving" /\ req'[r].outcome = o
        /\ \A q \in Reqs \ {r} : req'[q] = req[q]
    BY <1>1, <1>2 DEF Serve
  <1>4. Started' = Started \cup {r}
    BY <1>3 DEF Started
  <1>5. IsFiniteSet(Started')
    BY <1>4, FS_AddElement DEF Accounts
  <1>6. Past' = Past
    BY DEF ServeHTTP, ring, Past
  <1>7. r \notin Current
    BY <1>3 DEF Current
  <1>8. CASE o \notin {"forwarded", "rejected_validation"}
    <2>1. Current' = Current
      BY <1>3, <1>7, <1>8 DEF Current, Passed
    <2>2. Granted' = Granted
      BY <1>2, <1>8 DEF Granted
    <2>. QED
      BY <1>5, <1>6, <2>1, <2>2 DEF Accounts
  <1>9. CASE o \in {"forwarded", "rejected_validation"}
    <2>1. Current' = Current \cup {r}
      BY <1>3, <1>9 DEF Current, Passed
    <2>2. Cardinality(Current') = Cardinality(Current) + 1
      BY <1>7, <2>1, CurrentFinite, FS_AddElement DEF Accounts
    <2>3. IsFiniteSet(Granted') /\ Cardinality(Granted') = Cardinality(Granted) + 1
      BY <1>2, <1>9, OneMoreGrant DEF Accounts
    <2>4. Past \in Int /\ Cardinality(Current) \in Nat
      BY CurrentFinite DEF Accounts, TypeOK, Past, Rejects, Outcome
    <2>. QED
      BY <1>5, <1>6, <2>2, <2>3, <2>4 DEF Accounts
  <1>. QED
    BY <1>8, <1>9

(* Record moves a request from those being served to the counters.         *)
LEMMA RecordAccounts ==
    ASSUME TypeOK, Accounts, NEW r \in Reqs, Record(r)
    PROVE  Accounts'
  <1>1. /\ req \in [Reqs -> [phase : {"none", "serving", "stamped", "done"},
                             outcome : Outcome, at : Second]]
        /\ metrics \in [total : Nat, rejected : [Rejects -> Nat]]
    BY DEF TypeOK
  <1>2. /\ req[r].phase = "stamped" /\ req'[r].phase = "done"
        /\ req'[r].outcome = req[r].outcome
        /\ \A q \in Reqs \ {r} : req'[q] = req[q]
    BY <1>1 DEF Record
  <1>3. Started' = Started /\ Granted' = Granted
    BY <1>2 DEF Record, limiter, Started, Granted
  <1>4. /\ metrics'.total = metrics.total + 1
        /\ \A o \in Rejects : metrics'.rejected[o] =
             IF o = req[r].outcome THEN metrics.rejected[o] + 1 ELSE metrics.rejected[o]
    BY <1>1 DEF Record
  <1>5. /\ metrics.total \in Int /\ metrics.rejected["rejected_auth"] \in Int
        /\ metrics.rejected["rejected_rate_limit"] \in Int
        /\ "rejected_auth" \in Rejects /\ "rejected_rate_limit" \in Rejects
    BY <1>1 DEF Rejects, Outcome
  <1>6. req[r].outcome \in Outcome
    BY <1>1
  <1>7. Cardinality(Current) \in Nat /\ IsFiniteSet(Current) /\ Past \in Int
    BY <1>5, CurrentFinite DEF Accounts, Past
  <1>8. CASE Passed(r)
    <2>1. Past' = Past + 1
      BY <1>4, <1>5, <1>8 DEF Past, Passed
    <2>2. Current' = Current \ {r} /\ r \in Current
      BY <1>2, <1>8 DEF Current, Passed
    <2>3. Cardinality(Current') = Cardinality(Current) - 1
      BY <1>7, <2>2, FS_RemoveElement
    <2>. QED
      BY <1>3, <1>7, <2>1, <2>3 DEF Accounts
  <1>9. CASE ~Passed(r)
    <2>1. Past' = Past
      BY <1>4, <1>5, <1>6, <1>9 DEF Past, Passed, Outcome
    <2>2. Current' = Current
      BY <1>2, <1>9 DEF Current, Passed
    <2>. QED
      BY <1>3, <2>1, <2>2 DEF Accounts
  <1>. QED
    BY <1>8, <1>9

(* Every step keeps the accounts. *)
LEMMA StepAccounts ==
    ASSUME TypeOK, Accounts, [Next]_vars
    PROVE  Accounts'
  <1>1. ASSUME NEW r \in Reqs, Finish(r)
        PROVE  Accounts'
    <2>1. /\ req[r].phase = "serving" /\ req'[r].phase = "stamped"
          /\ req'[r].outcome = req[r].outcome
          /\ \A q \in Reqs \ {r} : req'[q] = req[q]
      BY <1>1 DEF Finish, TypeOK
    <2>2. Started' = Started /\ Current' = Current
      BY <2>1 DEF Started, Current, Passed
    <2>. QED
      BY <1>1, <2>2 DEF Finish, limiter, ring, Accounts, Past, Granted
  <1>2. CASE Tick \/ UNCHANGED vars
    BY <1>2 DEF Tick, vars, limiter, ring, Accounts, Past, Granted, Current, Started, Passed
  <1>. QED
    BY <1>1, <1>2, ServeAccounts, RecordAccounts DEF Next

(* What Record counts as let through, plus what is still being served, is  *)
(* what Allow granted, for any number of requests and clients.             *)
THEOREM CountersAgree == Spec => []GrantsAccounted
  <1>1. Init => Accounts
    <2>1. SUFFICES ASSUME Init PROVE Accounts
      OBVIOUS
    <2>2. Started = {} /\ Current = {} /\ Granted = {}
      BY <2>1 DEF Init, NoReq, Started, Current, Granted
    <2>3. Past = 0
      BY <2>1 DEF Init, Past, Rejects, Outcome
    <2>. QED
      BY <2>2, <2>3, FS_EmptySet DEF Accounts
  <1>2. TypeOK /\ Accounts /\ [Next]_vars => Accounts'
    BY StepAccounts
  <1>3. Accounts => GrantsAccounted
    BY DEF Accounts, GrantsAccounted, Past, Current, Granted, Passed
  <1>. QED
    BY <1>1, <1>2, <1>3, GatewayTypes, PTL DEF Spec
------------------------------------------------------------------------------
(* The ring.                                                               *)

(* A request records before its slot comes round again. *)
ShortLag == MaxLag < RingSize

Slots == 0 .. RingSize - 1

(* The recorded requests of second s. *)
DoneAt(s) == {r \in Reqs : req[r].phase = "done" /\ req[r].at = s}

(* A time stamp is of the past, and of the last MaxLag seconds while it is *)
(* not recorded.                                                           *)
Stamps ==
    \A r \in Reqs :
        /\ req[r].phase \in {"stamped", "done"} => req[r].at >= 1 /\ req[r].at <= now
        /\ req[r].phase = "stamped" => now - req[r].at <= MaxLag

(* A slot counts the requests of one of its seconds, *)
SlotExact(i) ==
    /\ perSecond[i].second <= now
    /\ perSecond[i].second # 0 =>
          /\ perSecond[i].second % RingSize = i
          /\ perSecond[i].count = Cardinality(DoneAt(perSecond[i].second))

(* the latest one for which a request was recorded. *)
SlotLatest == \A r \in Reqs : req[r].phase = "done" =>
                 req[r].at <= perSecond[req[r].at % RingSize].second

RingInv ==
    /\ IsFiniteSet(Started)
    /\ Stamps
    /\ \A i \in Slots : SlotExact(i)
    /\ SlotLatest

(* Seconds that share a slot and lie less than the ring apart are equal.   *)
LEMMA SameSlot ==
    ASSUME NEW a \in Nat, NEW b \in Nat, a % RingSize = b % RingSize,
           a <= b, b - a < RingSize
    PROVE  a = b
  <1>1. RingSize \in Nat /\ RingSize > 0
    BY Numbers
  <1>2. /\ a \div RingSize \in Int /\ b \div RingSize \in Int
        /\ a = RingSize * (a \div RingSize) + (a % RingSize)
        /\ b = RingSize * (b \div RingSize) + (b % RingSize)
        /\ a % RingSize \in Int
    BY <1>1
  <1>3. ASSUME NEW p \in Int, NEW q \in Int, RingSize * q - RingSize * p < RingSize,
               RingSize * p <= RingSize * q
        PROVE  p = q
    <2>1. RingSize * q - RingSize * p = RingSize * (q - p)
      BY <1>1
    <2>2. \A k \in Int : k >= 1 => RingSize * k >= RingSize
      BY <1>1
    <2>3. \A k \in Int : k <= -1 => RingSize * k < 0
      BY <1>1
    <2>4. RingSize * p \in Int /\ RingSize * q \in Int
      BY <1>1
    <2>. QED
      BY <1>1, <1>3, <2>1, <2>2, <2>3, <2>4
  <1>4. RingSize * (a \div RingSize) \in Int /\ RingSize * (b \div RingSize) \in Int
    BY <1>1, <1>2
  <1>5. a \div RingSize = b \div RingSize
    BY <1>1, <1>2, <1>3, <1>4
  <1>. QED
    BY <1>2, <1>5

(* What is recorded is finite. *)
LEMMA DoneFinite ==
    ASSUME IsFiniteSet(Started), NEW T, T \subseteq {r \in Reqs : req[r].phase = "done"}
    PROVE  IsFiniteSet(T) /\ Cardinality(T) \in Nat
  <1>1. T \in SUBSET Started
    BY DEF Started
  <1>. QED
    BY <1>1, FS_Subset, FS_CardinalityType

(* Record: the slot of the request's second holds that second or an older  *)
(* one, which it replaces.                                                 *)
LEMMA RecordRing ==
    ASSUME ShortLag, Shape, RingInv, NEW r \in Reqs, Record(r)
    PROVE  RingInv'
  <1>1. /\ req \in [Reqs -> [phase : {"none", "serving", "stamped", "done"},
                             outcome : Outcome, at : Second]]
        /\ perSecond \in [Slots -> [second : Second, count : Nat]]
        /\ now \in Nat /\ Second \subseteq Nat
    BY Numbers DEF Shape, TypeOK, Second, Slots
  <1>2. PICK s \in Nat : s = req[r].at
    BY <1>1
  <1>3. PICK i \in Slots : i = s % RingSize
    BY Modulo DEF Slots
  <1>4. /\ s >= 1 /\ s <= now /\ now - s <= MaxLag /\ req[r].phase = "stamped"
    BY <1>2 DEF RingInv, Stamps, Record
  <1>5. /\ UNCHANGED now /\ req'[r].phase = "done" /\ req'[r].at = s
        /\ \A q \in Reqs \ {r} : req'[q] = req[q]
    BY <1>1, <1>2 DEF Record
  <1>6. /\ perSecond'[i].second = s
        /\ perSecond'[i].count = (IF perSecond[i].second # s THEN 0 ELSE perSecond[i].count) + 1
        /\ \A k \in Slots \ {i} : perSecond'[k] = perSecond[k]
    BY <1>1, <1>2, <1>3 DEF Record, CountAt
  <1>7. perSecond[i].second \in Nat /\ perSecond[i].second <= now
    BY <1>1 DEF RingInv, SlotExact
  <1>8. perSecond[i].second <= s
    <2>1. SUFFICES ASSUME perSecond[i].second > s
                   PROVE  FALSE
      BY <1>2, <1>7
    <2>2. perSecond[i].second % RingSize = s % RingSize
      BY <1>3, <1>4, <1>7, <2>1 DEF RingInv, SlotExact
    <2>3. perSecond[i].second - s < RingSize
      BY <1>1, <1>2, <1>4, <1>7, <2>1, Numbers DEF ShortLag
    <2>. QED
      BY <1>2, <1>7, <2>1, <2>2, <2>3, SameSlot
  <1>9. IsFiniteSet(Started')
    <2>1. Started' = Started
      BY <1>4, <1>5 DEF Started
    <2>. QED
      BY <2>1 DEF RingInv
  <1>10. Stamps'
    BY <1>4, <1>5 DEF RingInv, Stamps
  <1>11. SlotExact(i)'
    <2>1. DoneAt(s)' = DoneAt(s) \cup {r} /\ r \notin DoneAt(s)
      BY <1>4, <1>5 DEF DoneAt
    <2>2. IsFiniteSet(DoneAt(s)) /\ Cardinality(DoneAt(s)) \in Nat
      BY DoneFinite DEF DoneAt, RingInv
    <2>3. Cardinality(DoneAt(s)') = Cardinality(DoneAt(s)) + 1
      BY <2>1, <2>2, FS_AddElement
    <2>4. perSecond'[i].count = Cardinality(DoneAt(s)) + 1
      <3>1. CASE perSecond[i].second = s
        BY <1>4, <1>6, <3>1 DEF RingInv, SlotExact
      <3>2. CASE perSecond[i].second # s
        <4>1. DoneAt(s) = {}
          <5>1. SUFFICES ASSUME NEW q \in DoneAt(s)
                         PROVE  FALSE
            OBVIOUS
          <5>2. req[q].at = s /\ s <= perSecond[i].second
            BY <1>3, <5>1 DEF DoneAt, RingInv, SlotLatest
          <5>. QED
            BY <1>2, <1>7, <1>8, <3>2, <5>2
        <4>. QED
          BY <1>6, <3>2, <4>1, FS_EmptySet
      <3>. QED
        BY <3>1, <3>2
    <2>. QED
      BY <1>3, <1>4, <1>5, <1>6, <2>3, <2>4 DEF SlotExact
  <1>12. ASSUME NEW k \in Slots \ {i}
         PROVE  SlotExact(k)'
    <2>1. SlotExact(k) /\ perSecond'[k] = perSecond[k]
      BY <1>6 DEF RingInv
    <2>2. ASSUME perSecond[k].second # 0
          PROVE  DoneAt(perSecond[k].second)' = DoneAt(perSecond[k].second)
      <3>1. perSecond[k].second # s
        BY <1>3, <1>12, <2>1, <2>2 DEF SlotExact
      <3>. QED
        BY <1>4, <1>5, <2>1, <3>1 DEF DoneAt
    <2>. QED
      BY <1>5, <2>1, <2>2 DEF SlotExact
  <1>13. SlotLatest'
    <2>1. ASSUME NEW q \in Reqs, req'[q].phase = "done"
          PROVE  req'[q].at <= perSecond'[req'[q].at % RingSize].second
      <3>1. CASE q = r
        BY <1>2, <1>3, <1>5, <1>6, <3>1
      <3>2. CASE q # r
        <4>1. req'[q] = req[q] /\ req[q].at <= perSecond[req[q].at % RingSize].second
          BY <1>5, <2>1, <3>2 DEF RingInv, SlotLatest
        <4>2. req[q].at \in Nat /\ req[q].at % RingSize \in Slots
          BY <1>1, Modulo DEF Slots
        <4>3. CASE req[q].at % RingSize = i
          BY <1>2, <1>6, <1>7, <1>8, <4>1, <4>2, <4>3
        <4>4. CASE req[q].at % RingSize # i
          BY <1>6, <4>1, <4>2, <4>4
        <4>. QED
          BY <4>3, <4>4
      <3>. QED
        BY <3>1, <3>2
    <2>. QED
      BY <2>1 DEF SlotLatest
  <1>. QED
    BY <1>9, <1>10, <1>11, <1>12, <1>13 DEF RingInv

(* A step that records nothing keeps the slots. *)
LEMMA QuietRing ==
    ASSUME Shape, RingInv, UNCHANGED perSecond, now' \in Nat, now' >= now, Stamps',
           IsFiniteSet(Started'),
           \A q \in Reqs : /\ req'[q].phase = "done" <=> req[q].phase = "done"
                           /\ req[q].phase = "done" => req'[q].at = req[q].at
    PROVE  RingInv'
  <1>1. now \in Nat /\ perSecond \in [Slots -> [second : Second, count : Nat]]
        /\ Second \subseteq Nat
    BY Numbers DEF Shape, TypeOK, Second, Slots
  <1>2. \A s : DoneAt(s)' = DoneAt(s)
    BY DEF DoneAt
  <1>3. \A i \in Slots : SlotExact(i)'
    <2>1. TAKE i \in Slots
    <2>2. SlotExact(i) /\ perSecond'[i] = perSecond[i] /\ perSecond[i].second \in Nat
      BY <1>1 DEF RingInv
    <2>3. perSecond[i].second <= now'
      BY <1>1, <2>2 DEF SlotExact
    <2>4. DoneAt(perSecond[i].second)' = DoneAt(perSecond[i].second)
      BY <1>2, <2>2 DEF DoneAt
    <2>. QED
      BY <2>2, <2>3, <2>4 DEF SlotExact
  <1>4. SlotLatest'
    BY DEF RingInv, SlotLatest
  <1>. QED
    BY <1>3, <1>4 DEF RingInv

(* Every step keeps the ring exact. *)
LEMMA StepRing ==
    ASSUME ShortLag, Shape, RingInv, [Next]_vars
    PROVE  RingInv'
  <1>1. /\ req \in [Reqs -> [phase : {"none", "serving", "stamped", "done"},
                             outcome : Outcome, at : Second]]
        /\ now \in Nat /\ now >= 1
    BY DEF Shape, TypeOK
  <1>2. ASSUME NEW r \in Reqs, NEW c \in Clients, NEW class \in Class, ServeHTTP(r, c, class)
        PROVE  RingInv'
    <2>1. PICK o : Serve(r, o)
      BY <1>2 DEF ServeHTTP
    <2>2. /\ req[r].phase = "none" /\ req'[r].phase = "serving"
          /\ \A q \in Reqs \ {r} : req'[q] = req[q]
      BY <1>1, <2>1 DEF Serve
    <2>3. UNCHANGED <<now, perSecond>>
      BY <1>2 DEF ServeHTTP, ring
    <2>4. Stamps'
      BY <2>2, <2>3 DEF RingInv, Stamps
    <2>5. Started' = Started \cup {r}
      BY <2>2 DEF Started
    <2>6. IsFiniteSet(Started')
      BY <2>5, FS_AddElement DEF RingInv
    <2>. QED
      BY <1>1, <2>2, <2>3, <2>4, <2>6, QuietRing
  <1>3. ASSUME NEW r \in Reqs, Finish(r)
        PROVE  RingInv'
    <2>1. /\ req[r].phase = "serving" /\ req'[r].phase = "stamped" /\ req'[r].at = now
          /\ \A q \in Reqs \ {r} : req'[q] = req[q]
          /\ UNCHANGED <<now, perSecond>>
      BY <1>1, <1>3 DEF Finish, ring
    <2>2. Stamps'
      BY <1>1, <2>1, Numbers DEF RingInv, Stamps
    <2>3. Started' = Started
      BY <2>1 DEF Started
    <2>. QED
      BY <1>1, <2>1, <2>2, <2>3, QuietRing DEF RingInv
  <1>4. CASE Tick
    <2>1. /\ now' = now + 1 /\ UNCHANGED <<req, perSecond>>
          /\ \A q \in Reqs : req[q].phase = "stamped" => now - req[q].at < MaxLag
      BY <1>4 DEF Tick, ring
    <2>2. \A q \in Reqs : req[q].at \in Nat
      BY <1>1 DEF Second
    <2>3. Stamps'
      BY <1>1, <2>1, <2>2, Numbers DEF RingInv, Stamps
    <2>4. Started' = Started
      BY <2>1 DEF Started
    <2>. QED
      BY <1>1, <2>1, <2>3, <2>4, QuietRing DEF RingInv
  <1>5. CASE UNCHANGED vars
    <2>1. UNCHANGED <<now, req, perSecond>>
      BY <1>5 DEF vars, ring
    <2>2. Stamps' /\ Started' = Started
      BY <2>1 DEF RingInv, Stamps, Started
    <2>. QED
      BY <1>1, <2>1, <2>2, QuietRing DEF RingInv
  <1>. QED
    BY <1>2, <1>3, <1>4, <1>5, RecordRing DEF Next

(* The recorded requests of the last RingSize seconds, and those of them   *)
(* in the first i slots.                                                   *)
RecentDone == {r \in Reqs : req[r].phase = "done" /\ now - req[r].at < RingSize}
RecentIn(i) == {r \in RecentDone : req[r].at % RingSize < i}

(* What the loop adds for slot i. *)
Adds(i) ==
    IF perSecond[i].second # 0 /\ now - perSecond[i].second < RingSize
      THEN perSecond[i].count ELSE 0

(* It is the number of recent requests in the slot. *)
LEMMA AddsExact ==
    ASSUME Shape, RingInv, NEW i \in Slots
    PROVE  Adds(i) = Cardinality({r \in RecentDone : req[r].at % RingSize = i})
  <1>. DEFINE here == {r \in RecentDone : req[r].at % RingSize = i}
              s == perSecond[i].second
  <1>1. /\ \A r \in Reqs : req[r].at \in Nat
        /\ s \in Nat /\ now \in Nat /\ s <= now
        /\ RingSize \in Nat /\ RingSize > 0
    <2>1. s <= now
      BY DEF RingInv, SlotExact
    <2>2. s \in Second /\ \A r \in Reqs : req[r].at \in Second
      BY DEF Shape, TypeOK, Slots
    <2>3. Second \subseteq Nat /\ now \in Nat
      BY Numbers DEF Second, Shape, TypeOK
    <2>. QED
      BY <2>1, <2>2, <2>3, Numbers
  <1>2. \A r \in here : /\ r \in Reqs /\ req[r].phase = "done" /\ now - req[r].at < RingSize
                        /\ req[r].at >= 1 /\ req[r].at <= s /\ req[r].at % RingSize = i
    BY DEF RecentDone, RingInv, SlotLatest, Stamps
  <1>3. s # 0 => s % RingSize = i /\ perSecond[i].count = Cardinality(DoneAt(s))
    BY DEF RingInv, SlotExact
  <1>. HIDE DEF s
  <1>4. CASE s # 0 /\ now - s < RingSize
    <2>1. ASSUME NEW r \in here
          PROVE  r \in DoneAt(s)
      <3>1. s - req[r].at < RingSize
        BY <1>1, <1>2, <2>1
      <3>2. req[r].at = s
        BY <1>1, <1>2, <1>3, <1>4, <2>1, <3>1, SameSlot
      <3>. QED
        BY <1>2, <2>1, <3>2 DEF DoneAt
    <2>2. ASSUME NEW r \in DoneAt(s)
          PROVE  r \in here
      BY <1>3, <1>4, <2>2 DEF DoneAt, RecentDone
    <2>3. here = DoneAt(s)
      BY <2>1, <2>2
    <2>. QED
      BY <1>3, <1>4, <2>3 DEF Adds, s
  <1>5. CASE ~(s # 0 /\ now - s < RingSize)
    <2>1. here = {}
      <3>1. SUFFICES ASSUME NEW r \in here
                     PROVE  FALSE
        OBVIOUS
      <3>2. s >= 1 /\ now - s <= now - req[r].at
        BY <1>1, <1>2, <3>1
      <3>. QED
        BY <1>1, <1>2, <1>5, <3>1, <3>2
    <2>. QED
      BY <1>5, <2>1, FS_EmptySet DEF Adds, s
  <1>. QED
    BY <1>4, <1>5

(* A set of naturals that is not empty has a least element. *)
LEMMA LeastNatural ==
    ASSUME NEW T, T \subseteq Nat, T # {}
    PROVE  \E x \in T : \A y \in T : x <= y
  <1>1. PICK x \in T : \A y \in T : ~ (<<y, x>> \in OpToRel(<, Nat))
    BY NatLessThanWellFounded, WFMin
  <1>2. \A y \in T : ~ (y < x)
    <2>1. TAKE y \in T
    <2>2. <<y, x>> \in Nat \X Nat /\ y \in Nat /\ x \in Nat
      OBVIOUS
    <2>. QED
      BY <1>1, <2>2 DEF OpToRel
  <1>3. x \in Nat /\ \A y \in T : y \in Nat
    OBVIOUS
  <1>. QED
    BY <1>2, <1>3

(* The loop of Snapshot, as a function of the slots it has passed. *)
IsSum(f) ==
    f = [i \in 0 .. RingSize |-> IF i = 0 THEN 0 ELSE f[i - 1] + Adds(i - 1)]

(* After i slots it has counted the recent requests in those. *)
LEMMA CountsAddUp ==
    ASSUME Shape, RingInv, NEW i \in 1 .. RingSize
    PROVE  Cardinality(RecentIn(i)) = Cardinality(RecentIn(i - 1)) + Adds(i - 1)
  <1>. DEFINE here == {r \in RecentDone : req[r].at % RingSize = i - 1}
  <1>1. RingSize \in Nat /\ \A r \in Reqs : req[r].at % RingSize \in Int
    <2>1. \A r \in Reqs : req[r].at \in Nat
      BY DEF Shape, TypeOK, Second
    <2>. QED
      BY <2>1, Numbers, Modulo
  <1>2. i - 1 \in Slots
    BY <1>1 DEF Slots
  <1>3. RecentIn(i) = RecentIn(i - 1) \cup here /\ RecentIn(i - 1) \cap here = {}
    BY <1>1 DEF RecentIn, RecentDone
  <1>4. /\ IsFiniteSet(here) /\ Cardinality(here) \in Nat
        /\ IsFiniteSet(RecentIn(i - 1)) /\ Cardinality(RecentIn(i - 1)) \in Nat
    BY DoneFinite DEF RecentIn, RecentDone, RingInv
  <1>5. Adds(i - 1) = Cardinality(here)
    BY <1>2, AddsExact
  <1>. HIDE DEF here
  <1>6. Cardinality(RecentIn(i)) =
          Cardinality(RecentIn(i - 1)) + Cardinality(here) - Cardinality({})
    BY <1>3, <1>4, FS_Union, Zenon
  <1>. QED
    BY <1>4, <1>5, <1>6, FS_EmptySet

(* Hence what it returns. *)
LEMMA SumExact ==
    ASSUME Shape, RingInv
    PROVE  RequestsLast1m = Cardinality(RecentDone)
  <1>1. RingSize \in Nat
    BY Numbers
  <1>2. RecentIn(0) = {} /\ RecentIn(RingSize) = RecentDone
    <2>1. \A r \in Reqs : req[r].at % RingSize \in 0 .. RingSize - 1
      <3>1. \A r \in Reqs : req[r].at \in Nat
        BY DEF Shape, TypeOK, Second
      <3>. QED
        BY <3>1, Modulo
    <2>. QED
      BY <1>1, <2>1 DEF RecentIn, RecentDone
  <1>. DEFINE h == [i \in 0 .. RingSize |-> Cardinality(RecentIn(i))]
  <1>3. IsSum(h)
    <2>1. ASSUME NEW i \in 0 .. RingSize
          PROVE  h[i] = IF i = 0 THEN 0 ELSE h[i - 1] + Adds(i - 1)
      <3>1. CASE i = 0
        BY <1>2, <3>1, FS_EmptySet
      <3>2. CASE i # 0
        <4>1. i \in 1 .. RingSize /\ i - 1 \in 0 .. RingSize
          BY <1>1, <3>2
        <4>. QED
          BY <3>2, <4>1, CountsAddUp
      <3>. QED
        BY <3>1, <3>2
    <2>2. h = [i \in 0 .. RingSize |-> h[i]]
      OBVIOUS
    <2>. HIDE DEF h
    <2>. QED
      BY <2>1, <2>2 DEF IsSum
  <1>4. ASSUME NEW f, IsSum(f)
        PROVE  f[RingSize] = h[RingSize]
    <2>. DEFINE Bad == {i \in 0 .. RingSize : f[i] # h[i]}
    <2>1. Bad = {}
      <3>1. SUFFICES ASSUME Bad # {} PROVE FALSE
        OBVIOUS
      <3>2. PICK n \in Bad : \A y \in Bad : n <= y
        <4>1. Bad \subseteq Nat
          BY <1>1
        <4>. HIDE DEF Bad
        <4>. QED
          BY <3>1, <4>1, LeastNatural
      <3>3. /\ n \in 0 .. RingSize /\ f[n] # h[n]
            /\ f[n] = IF n = 0 THEN 0 ELSE f[n - 1] + Adds(n - 1)
            /\ h[n] = IF n = 0 THEN 0 ELSE h[n - 1] + Adds(n - 1)
        <4>1. n \in 0 .. RingSize /\ f[n] # h[n]
          OBVIOUS
        <4>. HIDE DEF h
        <4>. QED
          BY <1>3, <1>4, <4>1 DEF IsSum
      <3>4. n # 0
        BY <3>3
      <3>5. n - 1 \in 0 .. RingSize /\ n - 1 < n
        BY <1>1, <3>3, <3>4
      <3>6. n - 1 \notin Bad
        BY <1>1, <3>2, <3>3, <3>5
      <3>7. f[n - 1] = h[n - 1]
        BY <3>5, <3>6
      <3>. QED
        BY <3>3, <3>4, <3>7
    <2>2. RingSize \in 0 .. RingSize
      BY <1>1
    <2>. HIDE DEF h
    <2>. QED
      BY <2>1, <2>2
  <1>5. RequestsLast1m = (CHOOSE f : IsSum(f))[RingSize]
    BY Zenon DEF RequestsLast1m, IsSum, Adds
  <1>6. IsSum(CHOOSE f : IsSum(f))
    <2>. HIDE DEF h
    <2>. QED
      BY <1>3, Zenon
  <1>7. RequestsLast1m = h[RingSize]
    <2>. HIDE DEF h
    <2>. QED
      BY <1>4, <1>5, <1>6
  <1>. QED
    BY <1>1, <1>2, <1>7

(* If a request takes its turn at the mutex of the metrics before the ring *)
(* comes round (60 seconds in the code), the snapshot shows exactly the    *)
(* requests of the last RingSize seconds that are recorded, in whatever    *)
(* order they finish and record.                                           *)
THEOREM SnapshotExact == ShortLag /\ Spec => []RecentExact
  <1>1. SUFFICES ASSUME ShortLag
                 PROVE  Spec => []RecentExact
    OBVIOUS
  <1>2. Init => Shape /\ RingInv
    <2>1. SUFFICES ASSUME Init PROVE RingInv
      BY InitShape
    <2>2. Started = {} /\ \A r \in Reqs : req[r].phase = "none"
      BY <2>1 DEF Init, NoReq, Started
    <2>3. \A i \in Slots : perSecond[i].second = 0 /\ now = 1
      BY <2>1 DEF Init, Slots
    <2>. QED
      BY <2>2, <2>3, FS_EmptySet DEF RingInv, Stamps, SlotExact, SlotLatest
  <1>3. Shape /\ RingInv /\ [Next]_vars => (Shape /\ RingInv)'
    BY <1>1, StepShape, StepRing
  <1>4. Shape /\ RingInv => RecentExact
    BY SumExact DEF RecentExact, RecentDone
  <1>. QED
    BY <1>2, <1>3, <1>4, PTL DEF Spec
==============================================================================
