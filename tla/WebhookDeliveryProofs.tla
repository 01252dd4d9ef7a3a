------------------------ MODULE WebhookDeliveryProofs -----------------------
(***************************************************************************)
(* What the delivery of a webhook and its log guarantee for any number of  *)
(* attempts, any backoff and any number of faults.                         *)
(***************************************************************************)
EXTENDS WebhookDelivery, FiniteSetTheorems, NaturalsInduction, WellFoundedInduction, TLAPS

Pieces == Records \cup {Other, Half, NL}

\* The lines of a log that are one record, and a log that ends with a line.
Lines(f) ==
    {i \in 1 .. Len(f) :
        /\ f[i].is = "record"
        /\ i > 1 => f[i - 1] = NL
        /\ i < Len(f) => f[i + 1] = NL}

Clean(f) == Len(f) = 0 \/ f[Len(f)] = NL

\* What the state of the last line may still cost: the next record that is
\* written ends up in a line that is not ended, and takes the record in that
\* line with it, if it is one.
Debt(f) == IF Clean(f) THEN 0 ELSE IF Len(f) \in Lines(f) THEN 2 ELSE 1

\* The pieces can be told apart.
LEMMA PiecesDiffer ==
    /\ NL \in Pieces /\ Half \in Pieces /\ Other \in Pieces
    /\ NL.is = "nl" /\ Half.is = "half" /\ Other.is = "other"
    /\ Half # NL /\ Other # NL
    /\ \A x \in Records : x.is = "record" /\ x # NL /\ x \in Pieces
    /\ \A x \in Pieces : x.is = "record" => x \in Records
  <1>1. NL.is = "nl" /\ Half.is = "half" /\ Other.is = "other"
    BY DEF NL, Half, Other
  <1>2. \A x \in Records : x.is = "record"
    BY DEF Records
  <1>. QED
    BY <1>1, <1>2 DEF Pieces

\* The lines are some of the positions of the log.
LEMMA LinesFinite ==
    ASSUME NEW f \in Seq(Pieces)
    PROVE  IsFiniteSet(Lines(f)) /\ Cardinality(Lines(f)) \in Nat
  <1>1. Lines(f) \in SUBSET (1 .. Len(f)) /\ Len(f) \in Nat
    BY DEF Lines
  <1>2. IsFiniteSet(1 .. Len(f))
    BY <1>1, FS_Interval
  <1>. QED
    BY <1>1, <1>2, FS_Subset, FS_CardinalityType

\* What a write adds at the end of the log.
LEMMA Appended ==
    ASSUME NEW f \in Seq(Pieces), NEW x \in Pieces
    PROVE  /\ Append(f, x) \in Seq(Pieces) /\ Len(f) \in Nat
           /\ Len(Append(f, x)) = Len(f) + 1 /\ Append(f, x)[Len(f) + 1] = x
           /\ \A i \in 1 .. Len(f) : Append(f, x)[i] = f[i]
  OBVIOUS

\* A line end leaves the lines as they are.
LEMMA LinesWithEnd ==
    ASSUME NEW f \in Seq(Pieces), NEW g, g = Append(f, NL)
    PROVE  Lines(g) = Lines(f) /\ Clean(g)
  <1>1. /\ Len(f) \in Nat /\ Len(g) = Len(f) + 1 /\ g[Len(f) + 1] = NL
        /\ \A i \in 1 .. Len(f) : g[i] = f[i]
    BY Appended, PiecesDiffer
  <1>2. ASSUME NEW i
        PROVE  i \in Lines(g) <=> i \in Lines(f)
    <2>1. CASE i \in 1 .. Len(f)
      <3>1. i > 1 => i - 1 \in 1 .. Len(f)
        BY <1>1, <2>1
      <3>2. i < Len(f) => i + 1 \in 1 .. Len(f)
        BY <1>1, <2>1
      <3>3. i = Len(f) => g[i + 1] = NL
        BY <1>1
      <3>. QED
        BY <1>1, <2>1, <3>1, <3>2, <3>3 DEF Lines
    <2>2. CASE i = Len(f) + 1
      BY <1>1, <2>2, PiecesDiffer DEF Lines
    <2>3. CASE i \notin 1 .. Len(f) + 1
      BY <1>1, <2>3 DEF Lines
    <2>. QED
      BY <1>1, <2>1, <2>2, <2>3
  <1>. QED
    BY <1>1, <1>2 DEF Clean

\* Anything else ends up in the last line, if that was not ended.
LEMMA LinesWithPiece ==
    ASSUME NEW f \in Seq(Pieces), NEW x \in Pieces, x # NL, NEW g, g = Append(f, x)
    PROVE  /\ Lines(g) = (Lines(f) \ {Len(f)})
                           \cup (IF x.is = "record" /\ Clean(f) THEN {Len(f) + 1} ELSE {})
           /\ ~Clean(g) /\ Len(g) = Len(f) + 1 /\ Len(f) + 1 \notin Lines(f)
  <1>1. /\ Len(f) \in Nat /\ Len(g) = Len(f) + 1 /\ g[Len(f) + 1] = x
        /\ \A i \in 1 .. Len(f) : g[i] = f[i]
    BY Appended
  <1>2. ASSUME NEW i
        PROVE  i \in Lines(g) <=> \/ i \in Lines(f) /\ i # Len(f)
                                  \/ i = Len(f) + 1 /\ x.is = "record" /\ Clean(f)
    <2>1. CASE i \in 1 .. Len(f) /\ i # Len(f)
      <3>1. i > 1 => i - 1 \in 1 .. Len(f)
        BY <1>1, <2>1
      <3>2. i + 1 \in 1 .. Len(f) /\ i < Len(f) /\ i < Len(g) /\ i \in 1 .. Len(g)
        BY <1>1, <2>1
      <3>. QED
        BY <1>1, <2>1, <3>1, <3>2 DEF Lines
    <2>2. CASE i = Len(f) /\ i \in 1 .. Len(f)
      BY <1>1, <2>2 DEF Lines
    <2>3. CASE i = Len(f) + 1
      <3>1. i > 1 => i - 1 \in 1 .. Len(f) /\ g[i - 1] = f[Len(f)]
        BY <1>1, <2>3
      <3>. QED
        BY <1>1, <2>3, <3>1 DEF Lines, Clean
    <2>4. CASE i \notin 1 .. Len(f) + 1
      BY <1>1, <2>4 DEF Lines
    <2>. QED
      BY <1>1, <2>1, <2>2, <2>3, <2>4
  <1>3. Len(f) + 1 \notin Lines(f)
    BY <1>1 DEF Lines
  <1>. QED
    BY <1>1, <1>2, <1>3 DEF Clean

\* The debt is at most 2, and a log whose last line is ended has none.
LEMMA DebtType ==
    ASSUME NEW f \in Seq(Pieces)
    PROVE  Debt(f) \in 0 .. 2 /\ (Clean(f) <=> Debt(f) = 0)
  BY DEF Debt

\* What a write does to the number of lines and to the debt.
LEMMA LinesCount ==
    ASSUME NEW f \in Seq(Pieces), NEW x \in Pieces, NEW g, g = Append(f, x)
    PROVE  /\ x = NL => Cardinality(Lines(g)) = Cardinality(Lines(f)) /\ Debt(g) = 0
           /\ x = Half => Cardinality(Lines(g)) >= Cardinality(Lines(f)) - Debt(f) /\ Debt(g) = 1
           /\ x \in Records => Cardinality(Lines(g)) = Cardinality(Lines(f)) + 1 - Debt(f)
  <1>1. CASE x = NL
    BY <1>1, LinesWithEnd, PiecesDiffer DEF Debt
  <1>2. CASE x # NL
    <2>1. /\ Lines(g) = (Lines(f) \ {Len(f)})
                          \cup (IF x.is = "record" /\ Clean(f) THEN {Len(f) + 1} ELSE {})
          /\ ~Clean(g) /\ Len(g) = Len(f) + 1 /\ Len(f) + 1 \notin Lines(f)
      BY <1>2, LinesWithPiece
    <2>2. IsFiniteSet(Lines(f)) /\ Cardinality(Lines(f)) \in Nat /\ Debt(f) \in 0 .. 2
      BY LinesFinite, DebtType
    <2>. DEFINE rest == Lines(f) \ {Len(f)}
    <2>3. /\ IsFiniteSet(rest) /\ Cardinality(rest) \in Nat
          /\ Cardinality(rest) = IF Len(f) \in Lines(f) THEN Cardinality(Lines(f)) - 1
                                                        ELSE Cardinality(Lines(f))
      BY <2>2, FS_RemoveElement, FS_CardinalityType
    <2>4. Len(f) \in Lines(f) <=> Debt(f) = 2
      <3>1. Len(f) \in Lines(f) => ~Clean(f)
        BY PiecesDiffer DEF Lines, Clean
      <3>. QED
        BY <3>1 DEF Debt
    <2>5. CASE x = Half
      <3>1. Lines(g) = rest
        BY <2>1, <2>5, PiecesDiffer
      <3>2. Len(g) \notin Lines(g)
        BY <2>1, <3>1
      <3>3. Debt(g) = 1
        BY <2>1, <3>2 DEF Debt
      <3>. HIDE DEF rest
      <3>4. Cardinality(Lines(g)) >= Cardinality(Lines(f)) - Debt(f)
        BY <2>2, <2>3, <2>4, <3>1
      <3>. QED
        BY <1>2, <2>5, <3>3, <3>4, PiecesDiffer
    <2>6. CASE x \in Records
      <3>1. Cardinality(Lines(g)) = Cardinality(Lines(f)) + 1 - Debt(f)
        <4>1. CASE Clean(f)
          <5>1. Lines(g) = rest \cup {Len(f) + 1} /\ Len(f) + 1 \notin rest
            BY <2>1, <2>6, <4>1, PiecesDiffer
          <5>2. Debt(f) = 0
            BY <4>1 DEF Debt
          <5>. HIDE DEF rest
          <5>3. Cardinality(Lines(g)) = Cardinality(rest) + 1
            <6>1. Cardinality(rest \cup {Len(f) + 1}) = Cardinality(rest) + 1
              BY <2>3, <5>1, FS_AddElement
            <6>. QED
              BY <5>1, <6>1, Zenon
          <5>. QED
            BY <2>2, <2>3, <2>4, <5>2, <5>3
        <4>2. CASE ~Clean(f)
          <5>1. Lines(g) = rest
            BY <2>1, <4>2
          <5>2. Debt(f) # 0
            BY <4>2 DEF Debt
          <5>. HIDE DEF rest
          <5>. QED
            BY <2>2, <2>3, <2>4, <5>1, <5>2
        <4>. QED
          BY <4>1, <4>2
      <3>. QED
        BY <1>2, <2>6, <3>1, PiecesDiffer
    <2>7. CASE x \notin Records /\ x # Half
      BY <1>2, <2>7
    <2>. QED
      BY <2>5, <2>6, <2>7
  <1>. QED
    BY <1>1, <1>2

-----------------------------------------------------------------------------
(***************************************************************************)
(* The backoff.                                                            *)
(***************************************************************************)

\* A set of naturals that is not empty has a least element.
LEMMA LeastNatural ==
    ASSUME NEW T, T \subseteq Nat, T # {}
    PROVE  \E x \in T : \A y \in T : x <= y
  <1>1. PICK x \in T : \A y \in T : ~ (<<y, x>> \in OpToRel(<, Nat))
    BY NatLessThanWellFounded, WFMin
  <1>2. \A y \in T : ~ (y < x)
    <2>1. TAKE y \in T
    <2>2. <<y, x>> \in Nat \X Nat /\ y \in Nat /\ x \in Nat
      OBVIOUS
    <2>. QED
      BY <1>1, <2>2 DEF OpToRel
  <1>3. x \in Nat /\ \A y \in T : y \in Nat
    OBVIOUS
  <1>. QED
    BY <1>2, <1>3

\* The powers of two up to n.
IsPow(f, n) == f = [i \in 0 .. n |-> IF i = 0 THEN 1 ELSE 2 * f[i - 1]]

\* There are such powers,
LEMMA PowersExist ==
    ASSUME NEW n \in Nat
    PROVE  \E f : IsPow(f, n)
  <1>. DEFINE Bad == {k \in Nat : ~ \E f : IsPow(f, k)}
  <1>1. Bad = {}
    <2>1. SUFFICES ASSUME Bad # {} PROVE FALSE
      OBVIOUS
    <2>2. PICK k \in Bad : \A y \in Bad : k <= y
      BY <2>1, LeastNatural
    <2>3. k \in Nat /\ ~ \E f : IsPow(f, k)
      OBVIOUS
    <2>4. CASE k = 0
      <3>. DEFINE g == [i \in 0 .. 0 |-> 1]
      <3>1. IsPow(g, k)
        BY <2>4 DEF IsPow
      <3>. QED
        BY <2>3, <3>1
    <2>5. CASE k # 0
      <3>1. k - 1 \in Nat /\ k - 1 < k
        BY <2>3, <2>5
      <3>2. k - 1 \notin Bad
        BY <2>2, <2>3, <3>1
      <3>3. PICK f : IsPow(f, k - 1)
        BY <3>1, <3>2
      <3>. DEFINE g == [i \in 0 .. k |-> IF i = k THEN 2 * f[k - 1] ELSE f[i]]
      <3>4. \A i \in 0 .. k - 1 : f[i] = IF i = 0 THEN 1 ELSE 2 * f[i - 1]
        BY <3>3 DEF IsPow
      <3>5. \A i \in 0 .. k : g[i] = IF i = 0 THEN 1 ELSE 2 * g[i - 1]
        <4>1. TAKE i \in 0 .. k
        <4>2. i # 0 => i - 1 \in 0 .. k /\ i - 1 # k /\ g[i - 1] = f[i - 1]
          BY <2>3
        <4>3. CASE i = k
          BY <2>5, <4>2, <4>3
        <4>4. CASE i # k
          <5>1. i \in 0 .. k - 1 /\ g[i] = f[i]
            BY <2>3, <4>4
          <5>. QED
            BY <3>4, <4>2, <5>1
        <4>. QED
          BY <4>3, <4>4
      <3>6. IsPow(g, k)
        <4>1. g = [i \in 0 .. k |-> g[i]]
          OBVIOUS
        <4>. HIDE DEF g
        <4>. QED
          BY <3>5, <4>1 DEF IsPow
      <3>. QED
        BY <2>3, <3>6
    <2>. QED
      BY <2>4, <2>5
  <1>. QED
    BY <1>1

\* and math.Pow yields one of them, a natural number.
LEMMA PowerType ==
    ASSUME NEW n \in Nat
    PROVE  Pow2(n) \in Nat
  <1>. DEFINE f == CHOOSE g : IsPow(g, n)
  <1>1. IsPow(f, n)
    BY PowersExist, Zenon
  <1>2. Pow2(n) = f[n]
    BY Zenon DEF Pow2, IsPow
  <1>. HIDE DEF f
  <1>3. \A i \in 0 .. n : f[i] = IF i = 0 THEN 1 ELSE 2 * f[i - 1]
    BY <1>1 DEF IsPow
  <1>. DEFINE Bad == {i \in 0 .. n : f[i] \notin Nat}
  <1>4. Bad = {}
    <2>1. SUFFICES ASSUME Bad # {} PROVE FALSE
      OBVIOUS
    <2>2. PICK k \in Bad : \A y \in Bad : k <= y
      <3>1. Bad \subseteq Nat
        OBVIOUS
      <3>. HIDE DEF Bad
      <3>. QED
        BY <2>1, <3>1, LeastNatural
    <2>3. k \in 0 .. n /\ f[k] \notin Nat /\ f[k] = IF k = 0 THEN 1 ELSE 2 * f[k - 1]
      BY <1>3
    <2>4. k # 0 /\ k - 1 \in 0 .. n /\ k - 1 < k
      BY <2>3
    <2>5. k - 1 \notin Bad
      BY <2>2, <2>3, <2>4
    <2>6. f[k - 1] \in Nat
      BY <2>4, <2>5
    <2>. QED
      BY <2>3, <2>4, <2>6
  <1>. QED
    BY <1>2, <1>4

\* The longest wait before a retry, when there is a cap.
Longest == (MaxBackoff * (100 + JitterPercent) + 99) \div 100

\* A wait is a natural number, and the cap bounds it.
LEMMA BackoffBound ==
    ASSUME NEW n \in Nat \ {0}, NEW d \in backoff(n)
    PROVE  d \in Nat /\ (MaxBackoff > 0 => Longest \in Nat /\ d <= Longest)
  <1>1. /\ InitialBackoff \in Nat /\ MaxBackoff \in Nat
        /\ JitterPercent \in Nat /\ JitterPercent <= 100
    BY WebhookDeliveryAssumption
  <1>2. Pow2(n - 1) \in Nat
    BY PowerType
  <1>3. InitialBackoff * Pow2(n - 1) \in Nat
    BY <1>1, <1>2
  <1>4. Backoff(n) \in Nat /\ (MaxBackoff > 0 => Backoff(n) <= MaxBackoff)
    BY <1>1, <1>3 DEF Backoff, Min2
  <1>5. PICK b \in Nat : b = Backoff(n)
    BY <1>4
  <1>6. /\ d \in Int /\ d >= (b * (100 - JitterPercent)) \div 100
        /\ d <= (b * (100 + JitterPercent) + 99) \div 100
    BY <1>5 DEF backoff, Jittered
  <1>7. PICK m \in Nat, q \in Nat : m = 100 - JitterPercent /\ q = 100 + JitterPercent
    BY <1>1
  <1>8. \A x \in Nat : x \div 100 \in Nat
    OBVIOUS
  <1>9. \A x, y \in Nat : x <= y => x \div 100 <= y \div 100
    OBVIOUS
  <1>10. b * m \in Nat /\ b * q + 99 \in Nat /\ MaxBackoff * q + 99 \in Nat
    BY <1>1, <1>7
  <1>11. MaxBackoff > 0 => b * q + 99 <= MaxBackoff * q + 99
    <2>1. \A x, y, z \in Nat : x <= y => x * z <= y * z
      OBVIOUS
    <2>. QED
      BY <1>1, <1>4, <1>5, <1>7, <2>1
  <1>12. (b * m) \div 100 \in Nat /\ (b * q + 99) \div 100 \in Nat
    BY <1>8, <1>10
  <1>13. MaxBackoff > 0 => Longest \in Nat /\ (b * q + 99) \div 100 <= Longest
    BY <1>7, <1>8, <1>9, <1>10, <1>11 DEF Longest
  <1>. QED
    BY <1>6, <1>7, <1>12, <1>13

-----------------------------------------------------------------------------
(***************************************************************************)
(* Types, and the time a delivery takes.                                   *)
(***************************************************************************)
TInv == TypeOK /\ (pc = "sleep" => attempt < MaxAttempts)

\* Every attempt but the last takes a request and a wait at most, and the
\* context leaves room for them: 9 times 3 s and 3.6 s within 60 s with the
\* defaults of the code.
Slice == RequestTimeout + Longest
Room == MaxBackoff > 0 /\ (MaxAttempts - 1) * Slice < DispatchTimeout

\* The numbers of the configuration.
LEMMA Numbers ==
    /\ MaxAttempts \in Nat /\ MaxAttempts >= 1 /\ RequestTimeout \in Nat
    /\ MaxFaults \in Nat /\ DispatchTimeout \in Nat /\ Deadlines \subseteq Nat
  BY WebhookDeliveryAssumption

\* What follows a write: a retry with its wait, or the end.
LEMMA GoOnStep ==
    ASSUME TypeOK, GoOn
    PROVE  /\ delay' \in Nat /\ (MaxBackoff > 0 /\ retryableFailure => delay' <= Longest)
           /\ pc' = IF retryableFailure THEN "sleep"
                    ELSE IF err = "nil" THEN "delivered" ELSE "failed"
  <1>1. attempt \in Nat \ {0}
    BY Numbers DEF TypeOK
  <1>2. CASE retryableFailure
    <2>1. PICK d \in backoff(attempt) : delay' = d /\ pc' = "sleep"
      BY <1>2 DEF GoOn
    <2>. QED
      BY <1>1, <1>2, <2>1, BackoffBound
  <1>3. CASE ~retryableFailure
    BY <1>3 DEF GoOn, Finish
  <1>. QED
    BY <1>2, <1>3

\* A record, once its type is known.
LEMMA RecordType ==
    ASSUME TypeOK
    PROVE  Record \in Records /\ Record \in Pieces
  <1>1. attempt \in 1 .. MaxAttempts /\ retryableFailure \in BOOLEAN /\ (err = "nil") \in BOOLEAN
    BY DEF TypeOK, retryableFailure
  <1>. QED
    BY <1>1 DEF Record, Records, Pieces

\* What the two writes leave in the log, and how they go on.
LEMMA Writes ==
    ASSUME TypeOK, WriteRecord \/ WriteNewline
    PROVE  /\ UNCHANGED <<deadline, broken, attempt, elapsed, err, handled>>
           /\ \/ /\ pc = "record" /\ pc' = "newline" /\ file' = Append(file, Record)
                 /\ UNCHANGED <<delay, faults>>
              \/ /\ pc = "newline" /\ file' = Append(file, NL) /\ UNCHANGED faults /\ GoOn
              \/ /\ pc \in {"record", "newline"} /\ file' = file
                 /\ faults < MaxFaults /\ faults' = faults + 1 /\ GoOn
              \/ /\ pc = "record" /\ file' = Append(file, Half)
                 /\ faults < MaxFaults /\ faults' = faults + 1 /\ GoOn
  BY DEF WriteRecord, WriteNewline, WriteFails

\* Every step keeps the types.
LEMMA StepTypes ==
    ASSUME TInv, [Next]_vars
    PROVE  TInv'
  <1>1. TypeOK
    BY DEF TInv
  <1>. DEFINE E == Records \cup {Other, Half, NL}
  <1>2. CASE tryOnce
    <2>1. elapsed' \in Nat
      <3>1. elapsed \in Nat
        BY <1>1 DEF TypeOK
      <3>2. ASSUME NEW d \in 0 .. Min2(RequestTimeout, deadline - elapsed), elapsed' = elapsed + d
            PROVE  elapsed' \in Nat
        BY <3>1, <3>2
      <3>. QED
        BY <1>2, <3>1, <3>2 DEF tryOnce
    <2>2. handled' \in 0 .. 2 /\ err' \in {"nil", "retryable", "nonretryable"}
      BY <1>1, <1>2 DEF tryOnce, TypeOK, Handle, Min2
    <2>3. pc' = "record" /\ UNCHANGED <<deadline, broken, attempt, delay, file, faults>>
      BY <1>2 DEF tryOnce
    <2>. QED
      BY <1>1, <2>1, <2>2, <2>3 DEF TypeOK, TInv
  <1>3. CASE WriteRecord \/ WriteNewline
    <2>1. file \in Seq(Pieces)
      BY <1>1 DEF TypeOK, Pieces
    <2>2. file' \in Seq(Pieces)
      BY <1>1, <1>3, <2>1, Writes, RecordType, Appended, PiecesDiffer
    <2>3. /\ UNCHANGED <<deadline, broken, attempt, elapsed, err, handled>>
          /\ faults' \in 0 .. MaxFaults
      <3>1. faults \in Nat /\ faults <= MaxFaults
        BY <1>1, Numbers DEF TypeOK
      <3>. QED
        BY <1>1, <1>3, <3>1, Writes, Numbers
    <2>4. /\ delay' \in Nat /\ pc' \in {"newline", "sleep", "delivered", "failed"}
          /\ pc' = "sleep" => retryableFailure
      <3>1. delay \in Nat
        BY <1>1 DEF TypeOK
      <3>2. CASE GoOn
        BY <1>1, <3>2, GoOnStep
      <3>3. CASE pc' = "newline" /\ UNCHANGED delay
        BY <3>1, <3>3
      <3>. QED
        BY <1>1, <1>3, <3>2, <3>3, Writes
    <2>5. pc' = "sleep" => attempt < MaxAttempts
      BY <2>4 DEF retryableFailure
    <2>. QED
      BY <1>1, <2>2, <2>3, <2>4, <2>5 DEF TypeOK, TInv, Pieces
  <1>4. CASE Sleep
    <2>1. /\ attempt \in Nat /\ attempt >= 1 /\ attempt < MaxAttempts
          /\ elapsed \in Nat /\ delay \in Nat /\ deadline \in Nat
      BY <1>1, <1>4, Numbers DEF TypeOK, TInv, Sleep
    <2>2. /\ attempt' \in 1 .. MaxAttempts /\ elapsed' \in Nat /\ delay' = 0
          /\ pc' \in {"try", "canceled"}
      BY <1>4, <2>1, Numbers DEF Sleep, Finish
    <2>3. UNCHANGED <<deadline, broken, err, file, faults, handled>>
      BY <1>4 DEF Sleep
    <2>. QED
      BY <1>1, <2>2, <2>3 DEF TypeOK, TInv
  <1>5. CASE Crash
    <2>1. file \in Seq(Pieces)
      BY <1>1 DEF TypeOK, Pieces
    <2>2. file' \in Seq(Pieces)
      BY <1>5, <2>1, Appended, PiecesDiffer DEF Crash
    <2>3. pc' = "lost" /\ UNCHANGED <<deadline, broken, attempt, elapsed, err, delay, faults, handled>>
      BY <1>5 DEF Crash, Finish
    <2>. QED
      BY <1>1, <2>2, <2>3 DEF TypeOK, TInv, Pieces
  <1>6. CASE UNCHANGED vars
    BY <1>1, <1>6 DEF vars, TypeOK, TInv
  <1>. QED
    BY <1>2, <1>3, <1>4, <1>5, <1>6 DEF Next

\* The initial state is well typed.
LEMMA InitTypes ==
    ASSUME Init
    PROVE  TInv
  <1>. DEFINE E == Records \cup {Other, Half, NL}
  <1>1. file \in Seq(E)
    <2>1. Other \in E /\ Half \in E
      OBVIOUS
    <2>. HIDE DEF E
    <2>2. <<>> \in Seq(E) /\ <<Other>> \in Seq(E) /\ <<Half>> \in Seq(E)
      BY <2>1
    <2>. QED
      BY <2>2 DEF Init
  <1>2. faults \in 0 .. MaxFaults
    <2>1. faults = 0 \/ (faults = 1 /\ MaxFaults > 0)
      BY DEF Init
    <2>. QED
      BY <2>1, Numbers
  <1>3. attempt \in 1 .. MaxAttempts /\ elapsed \in Nat /\ delay \in Nat /\ handled \in 0 .. 2
    BY Numbers DEF Init
  <1>4. /\ pc = "try" /\ err = "nil" /\ deadline \in Deadlines /\ broken \in BOOLEAN
    BY DEF Init
  <1>. QED
    BY <1>1, <1>2, <1>3, <1>4 DEF TypeOK, TInv

\* The types hold in every state.
LEMMA Typed == Spec => []TInv
  <1>. QED
    BY InitTypes, StepTypes, PTL DEF Spec

\* Dispatcher.deliver never makes more than maxAttempts attempts, and what it
\* leaves in the log is made of records, parts of them and line ends.
THEOREM DeliveryTypes == Spec => []TypeOK
  <1>1. TInv => TypeOK
    BY DEF TInv
  <1>. QED
    BY <1>1, Typed, PTL

-----------------------------------------------------------------------------
(***************************************************************************)
(* The time: an attempt starts in its slice, and the request and the wait  *)
(* that follow end within it.                                              *)
(***************************************************************************)
TimeInv ==
    /\ pc = "try" => elapsed <= (attempt - 1) * Slice
    /\ pc \in {"record", "newline", "sleep"} =>
         elapsed <= (attempt - 1) * Slice + RequestTimeout
    /\ pc = "sleep" => delay <= Longest
    /\ AllAttemptsMade

\* The slices.
LEMMA Slices ==
    ASSUME Room
    PROVE  /\ Longest \in Nat /\ Slice \in Nat
           /\ \A a \in 1 .. MaxAttempts :
                /\ (a - 1) * Slice \in Nat
                /\ \A c : c = a + 1 => (c - 1) * Slice = (a - 1) * Slice + Slice
                /\ a < MaxAttempts => (a - 1) * Slice + Slice < DispatchTimeout
  <1>1. /\ MaxBackoff \in Nat /\ JitterPercent \in Nat
    BY WebhookDeliveryAssumption
  <1>2. Longest \in Nat
    <2>1. MaxBackoff * (100 + JitterPercent) + 99 \in Nat
      BY <1>1
    <2>2. \A x \in Nat : x \div 100 \in Nat
      OBVIOUS
    <2>. QED
      BY <2>1, <2>2 DEF Longest
  <1>3. PICK s \in Nat : s = Slice
    BY <1>2, Numbers DEF Slice
  <1>4. PICK m \in Nat : m = MaxAttempts - 1
    BY Numbers
  <1>5. m * s < DispatchTimeout
    BY <1>3, <1>4 DEF Room
  <1>6. \A b \in Nat : b * s \in Nat /\ (b + 1) * s = b * s + s
    BY <1>3
  <1>7. \A b \in Nat : b <= m => b * s <= m * s
    BY <1>3, <1>4
  <1>8. ASSUME NEW a \in 1 .. MaxAttempts
        PROVE  /\ (a - 1) * s \in Nat
               /\ \A c : c = a + 1 => (c - 1) * s = (a - 1) * s + s
               /\ a < MaxAttempts => (a - 1) * s + s < DispatchTimeout
    <2>1. PICK b \in Nat : b = a - 1
      BY Numbers
    <2>2. a = b + 1 /\ \A c : c = a + 1 => c - 1 = b + 1
      BY <2>1, Numbers
    <2>3. (\A c : c = a + 1 => (c - 1) * s = b * s + s) /\ b * s \in Nat /\ (b + 1) * s = b * s + s
      BY <1>6, <2>1, <2>2
    <2>4. a < MaxAttempts => (b + 1) * s <= m * s
      <3>1. a < MaxAttempts => b + 1 <= m
        BY <1>4, <2>2, Numbers
      <3>. QED
        BY <1>7, <2>1, <3>1
    <2>5. m * s \in Nat
      BY <1>6, <1>4
    <2>6. a < MaxAttempts => b * s + s < DispatchTimeout
      BY <1>3, <1>5, <1>6, <2>1, <2>3, <2>4, <2>5, Numbers
    <2>. QED
      BY <2>1, <2>3, <2>6
  <1>. QED
    BY <1>2, <1>3, <1>8

\* Every step keeps to the slices.
LEMMA StepTime ==
    ASSUME TInv, TimeInv, Room, [Next]_vars
    PROVE  TimeInv'
  <1>1. TypeOK
    BY DEF TInv
  <1>2. PICK t \in Nat : t = (attempt - 1) * Slice
    BY <1>1, Slices DEF TypeOK
  <1>3. elapsed \in Nat /\ delay \in Nat /\ deadline \in Nat /\ DispatchTimeout \in Nat
    BY <1>1, Numbers DEF TypeOK
  <1>4. /\ RequestTimeout \in Nat /\ Longest \in Nat /\ Slice = RequestTimeout + Longest
        /\ MaxBackoff > 0
    BY Slices, Numbers DEF Slice, Room
  <1>5. CASE tryOnce
    <2>1. pc = "try" /\ pc' = "record" /\ attempt' = attempt
      BY <1>5 DEF tryOnce
    <2>2. elapsed <= t
      BY <1>2, <2>1 DEF TimeInv
    <2>3. elapsed' <= t + RequestTimeout
      <3>1. ASSUME NEW d \in 0 .. Min2(RequestTimeout, deadline - elapsed), elapsed' = elapsed + d
            PROVE  elapsed' <= t + RequestTimeout
        <4>1. d \in Nat /\ d <= RequestTimeout
          BY <1>3, <1>4 DEF Min2
        <4>. QED
          BY <1>2, <1>3, <1>4, <2>2, <3>1, <4>1
      <3>2. ASSUME elapsed' = elapsed
            PROVE  elapsed' <= t + RequestTimeout
        BY <1>2, <1>3, <1>4, <2>2, <3>2
      <3>. QED
        BY <1>5, <3>1, <3>2 DEF tryOnce
    <2>. QED
      BY <1>2, <2>1, <2>3 DEF TimeInv, AllAttemptsMade
  <1>6. CASE WriteRecord \/ WriteNewline
    <2>1. /\ UNCHANGED <<deadline, attempt, elapsed, err>>
          /\ pc \in {"record", "newline"}
          /\ \/ pc' = "newline"
             \/ GoOn
      BY <1>1, <1>6, Writes
    <2>2. elapsed <= t + RequestTimeout
      BY <1>2, <2>1 DEF TimeInv
    <2>3. CASE pc' = "newline"
      BY <1>2, <2>1, <2>2, <2>3 DEF TimeInv, AllAttemptsMade
    <2>4. CASE GoOn
      <3>1. /\ retryableFailure => delay' <= Longest
            /\ pc' = IF retryableFailure THEN "sleep"
                     ELSE IF err = "nil" THEN "delivered" ELSE "failed"
        BY <1>1, <1>4, <2>4, GoOnStep
      <3>2. pc' = "failed" => attempt = MaxAttempts \/ err = "nonretryable"
        <4>1. attempt \in Nat /\ attempt <= MaxAttempts
          BY <1>1, Numbers DEF TypeOK
        <4>. QED
          BY <3>1, <4>1, Numbers DEF retryableFailure, isNonRetryable
      <3>3. pc' = "sleep" => delay' <= Longest
        BY <3>1
      <3>. QED
        BY <1>2, <2>1, <2>2, <3>1, <3>2, <3>3 DEF TimeInv, AllAttemptsMade
    <2>. QED
      BY <2>1, <2>3, <2>4
  <1>7. CASE Sleep
    <2>1. /\ pc = "sleep" /\ attempt < MaxAttempts /\ delay <= Longest
          /\ elapsed <= t + RequestTimeout
      BY <1>2, <1>7 DEF Sleep, TInv, TimeInv
    <2>2. /\ t + Slice \in Nat /\ t + Slice < DispatchTimeout
          /\ \A c : c = attempt + 1 => (c - 1) * Slice = t + Slice
      BY <1>1, <1>2, <1>4, <2>1, Slices DEF TypeOK
    <2>3. elapsed + delay <= t + Slice
      BY <1>2, <1>3, <1>4, <2>1
    <2>4. CASE delay = 0 \/ elapsed + delay < deadline
      <3>1. pc' = "try" /\ attempt' = attempt + 1 /\ elapsed' = elapsed + delay
        BY <1>7, <2>4 DEF Sleep
      <3>. QED
        <4>1. (attempt' - 1) * Slice = t + Slice
          BY <2>2, <3>1
        <4>2. elapsed' <= (attempt' - 1) * Slice
          BY <2>3, <3>1, <4>1
        <4>. QED
          BY <3>1, <4>2 DEF TimeInv, AllAttemptsMade
    <2>5. CASE ~(delay = 0 \/ elapsed + delay < deadline)
      <3>1. pc' = "canceled" /\ deadline' = deadline
        BY <1>7, <2>5 DEF Sleep, Finish
      <3>2. ~(deadline >= DispatchTimeout)
        BY <1>3, <2>2, <2>3, <2>5
      <3>. QED
        BY <3>1, <3>2 DEF TimeInv, AllAttemptsMade
    <2>. QED
      BY <2>4, <2>5
  <1>8. CASE Crash
    BY <1>8 DEF Crash, Finish, TimeInv, AllAttemptsMade
  <1>9. CASE UNCHANGED vars
    BY <1>9 DEF vars, TimeInv, AllAttemptsMade
  <1>. QED
    BY <1>5, <1>6, <1>7, <1>8, <1>9 DEF Next

\* docs/api-contract.md, section 5, for every configuration whose attempts fit
\* into the time dispatchJobCompletedWebhook allows: a delivery is given up
\* only after a 2xx, an error that no retry can mend, or maxAttempts attempts;
\* the context never ends it.
THEOREM AttemptsFit == Room /\ Spec => []AllAttemptsMade
  <1>. SUFFICES ASSUME Room PROVE Spec => []AllAttemptsMade
    OBVIOUS
  <1>1. Init => TimeInv
    <2>. SUFFICES ASSUME Init PROVE TimeInv
      OBVIOUS
    <2>1. pc = "try" /\ elapsed = 0 /\ attempt = 1
      BY DEF Init
    <2>2. (attempt - 1) * Slice \in Nat
      <3>1. attempt \in 1 .. MaxAttempts
        BY <2>1, Numbers
      <3>. QED
        BY <3>1, Slices
    <2>. QED
      BY <2>1, <2>2 DEF TimeInv, AllAttemptsMade
  <1>2. TInv /\ TimeInv /\ [Next]_vars => TimeInv'
    BY StepTime
  <1>3. TimeInv => AllAttemptsMade
    BY DEF TimeInv
  <1>. QED
    BY <1>1, <1>2, <1>3, Typed, PTL DEF Spec

-----------------------------------------------------------------------------
(***************************************************************************)
(* The log.                                                                *)
(***************************************************************************)

\* The records in the log are those of the attempts made so far, in order; the
\* one of the current attempt, if it is there, is what Record yields, and all
\* earlier ones announce a retry.
RecordsInv ==
    /\ \A i \in 1 .. Len(file) : file[i].is = "record" =>
         /\ file[i].attempt <= attempt
         /\ pc \in {"try", "record"} => file[i].attempt # attempt
         /\ file[i].attempt = attempt => file[i] = Record
         /\ file[i].attempt < attempt => file[i].retry /\ ~file[i].success
         /\ file[i].success => handled > 0
    /\ \A i, j \in 1 .. Len(file) :
         file[i].is = "record" /\ file[j].is = "record" /\ i < j =>
             file[i].attempt < file[j].attempt

\* Where deliver is, and what the attempt that it makes came to.
PlaceInv ==
    /\ pc \in {"record", "newline"} /\ err = "nil" => handled > 0
    /\ pc \in {"sleep", "canceled"} => retryableFailure
    /\ pc \in {"delivered", "failed"} => ~retryableFailure /\ (err = "nil" <=> pc = "delivered")

\* How many of them can be read: two are lost for a fault at most, one of
\* which may still be to come.
CountInv ==
    /\ pc # "lost" =>
         Cardinality(Lines(file)) >= Persisted - 2 * faults + (IF pc = "newline" THEN 0 ELSE Debt(file))
    /\ faults = 0 =>
         /\ pc \notin {"newline", "lost"} => Clean(file)
         /\ pc \in {"newline", "delivered", "failed"} =>
              \E i \in Lines(file) : file[i] = Record

LogInv == RecordsInv /\ PlaceInv /\ CountInv

\* The records of a log have the fields of records.
LEMMA RecordFields ==
    ASSUME TypeOK
    PROVE  /\ file \in Seq(Pieces) /\ Len(file) \in Nat /\ attempt \in Nat /\ handled \in Nat
           /\ \A i \in 1 .. Len(file) : file[i].is = "record" =>
                file[i] \in Records /\ file[i].attempt \in Nat
  <1>1. file \in Seq(Pieces) /\ Len(file) \in Nat /\ attempt \in Nat /\ handled \in Nat
    BY Numbers DEF TypeOK, Pieces
  <1>2. \A i \in 1 .. Len(file) : file[i] \in Pieces
    BY <1>1
  <1>3. \A x \in Records : x.attempt \in Nat
    BY Numbers DEF Records
  <1>. QED
    BY <1>1, <1>2, <1>3, PiecesDiffer

\* What adds no record leaves the records as they were.
LEMMA RecordsKept ==
    ASSUME TypeOK, RecordsInv,
           file' = file \/ file' = Append(file, NL) \/ file' = Append(file, Half),
           attempt' = attempt, handled' \in Nat, handled' >= handled,
           Record' = Record \/ pc = "try",
           pc' \in {"try", "record"} => pc \in {"try", "record"}
    PROVE  RecordsInv'
  <1>1. /\ file \in Seq(Pieces) /\ Len(file) \in Nat /\ attempt \in Nat /\ handled \in Nat
        /\ \A i \in 1 .. Len(file) : file[i].is = "record" => file[i].attempt \in Nat
    BY RecordFields
  <1>2. /\ Len(file') \in Nat
        /\ \A i \in 1 .. Len(file') : file'[i].is = "record" =>
             i \in 1 .. Len(file) /\ file'[i] = file[i]
    <2>1. CASE file' = file
      BY <1>1, <2>1
    <2>2. ASSUME NEW x \in {NL, Half}, file' = Append(file, x)
          PROVE  /\ Len(file') \in Nat
                 /\ \A i \in 1 .. Len(file') : file'[i].is = "record" =>
                      i \in 1 .. Len(file) /\ file'[i] = file[i]
      <3>1. x \in Pieces /\ x.is # "record"
        BY <2>2, PiecesDiffer
      <3>2. /\ Len(file') = Len(file) + 1 /\ file'[Len(file) + 1] = x
            /\ \A i \in 1 .. Len(file) : file'[i] = file[i]
        BY <1>1, <2>2, <3>1, Appended
      <3>. QED
        BY <1>1, <3>1, <3>2
    <2>. QED
      BY <2>1, <2>2
  <1>3. ASSUME NEW i \in 1 .. Len(file'), file'[i].is = "record"
        PROVE  /\ file'[i].attempt <= attempt'
               /\ pc' \in {"try", "record"} => file'[i].attempt # attempt'
               /\ file'[i].attempt = attempt' => file'[i] = Record'
               /\ file'[i].attempt < attempt' => file'[i].retry /\ ~file'[i].success
               /\ file'[i].success => handled' > 0
    <2>1. i \in 1 .. Len(file) /\ file'[i] = file[i] /\ file[i].is = "record"
      BY <1>2, <1>3
    <2>2. file[i].success => handled' > 0
      BY <1>1, <2>1 DEF RecordsInv
    <2>3. file[i].attempt = attempt => pc # "try"
      BY <2>1 DEF RecordsInv
    <2>. QED
      BY <2>1, <2>2, <2>3 DEF RecordsInv
  <1>4. ASSUME NEW i \in 1 .. Len(file'), NEW j \in 1 .. Len(file'),
               file'[i].is = "record", file'[j].is = "record", i < j
        PROVE  file'[i].attempt < file'[j].attempt
    <2>1. /\ i \in 1 .. Len(file) /\ file'[i] = file[i] /\ file[i].is = "record"
          /\ j \in 1 .. Len(file) /\ file'[j] = file[j] /\ file[j].is = "record"
      BY <1>2, <1>4
    <2>. QED
      BY <1>4, <2>1 DEF RecordsInv
  <1>. QED
    BY <1>3, <1>4 DEF RecordsInv

\* The record of the current attempt comes last.
LEMMA RecordAdded ==
    ASSUME TypeOK, RecordsInv, PlaceInv, pc = "record", pc' = "newline",
           file' = Append(file, Record), UNCHANGED <<attempt, err, handled>>
    PROVE  RecordsInv'
  <1>1. /\ file \in Seq(Pieces) /\ Len(file) \in Nat /\ attempt \in Nat /\ handled \in Nat
        /\ \A i \in 1 .. Len(file) : file[i].is = "record" => file[i].attempt \in Nat
    BY RecordFields
  <1>2. Record \in Pieces /\ Record.attempt = attempt /\ (Record.success => handled > 0)
    BY RecordType DEF Record, PlaceInv
  <1>3. Record' = Record
    BY DEF Record, retryableFailure, isNonRetryable
  <1>4. /\ Len(file') = Len(file) + 1 /\ file'[Len(file) + 1] = Record
        /\ \A i \in 1 .. Len(file) : file'[i] = file[i]
    BY <1>1, <1>2, Appended
  <1>5. ASSUME NEW i \in 1 .. Len(file'), file'[i].is = "record"
        PROVE  /\ file'[i].attempt <= attempt'
               /\ file'[i].attempt = attempt' => file'[i] = Record'
               /\ file'[i].attempt < attempt' => file'[i].retry /\ ~file'[i].success
               /\ file'[i].success => handled' > 0
    <2>1. CASE i \in 1 .. Len(file)
      BY <1>3, <1>4, <1>5, <2>1 DEF RecordsInv
    <2>2. CASE i = Len(file) + 1
      BY <1>1, <1>2, <1>3, <1>4, <2>2
    <2>. QED
      BY <1>1, <1>4, <2>1, <2>2
  <1>6. ASSUME NEW i \in 1 .. Len(file'), NEW j \in 1 .. Len(file'),
               file'[i].is = "record", file'[j].is = "record", i < j
        PROVE  file'[i].attempt < file'[j].attempt
    <2>1. i \in 1 .. Len(file) /\ file'[i] = file[i] /\ file[i].is = "record"
      BY <1>1, <1>4, <1>6
    <2>2. CASE j \in 1 .. Len(file)
      BY <1>4, <1>6, <2>1, <2>2 DEF RecordsInv
    <2>3. CASE j = Len(file) + 1
      <3>1. file[i].attempt <= attempt /\ file[i].attempt # attempt /\ file[i].attempt \in Nat
        BY <1>1, <2>1 DEF RecordsInv
      <3>. QED
        BY <1>1, <1>2, <1>4, <2>1, <2>3, <3>1
    <2>. QED
      BY <1>1, <1>4, <2>2, <2>3
  <1>. QED
    BY <1>5, <1>6 DEF RecordsInv

\* The next attempt: all records are of earlier ones, that go on.
LEMMA RecordsPassed ==
    ASSUME TypeOK, RecordsInv, PlaceInv, pc = "sleep", attempt' = attempt + 1,
           UNCHANGED <<file, handled>>
    PROVE  RecordsInv'
  <1>1. /\ Len(file) \in Nat /\ attempt \in Nat
        /\ \A i \in 1 .. Len(file) : file[i].is = "record" => file[i].attempt \in Nat
    BY RecordFields
  <1>2. retryableFailure /\ err # "nil"
    BY DEF PlaceInv, retryableFailure
  <1>3. Record.retry /\ ~Record.success
    BY <1>2 DEF Record
  <1>4. ASSUME NEW i \in 1 .. Len(file), file[i].is = "record"
        PROVE  /\ file[i].attempt < attempt'
               /\ file[i].retry /\ ~file[i].success
    <2>1. file[i].attempt \in Nat /\ file[i].attempt <= attempt
      BY <1>1, <1>4 DEF RecordsInv
    <2>2. CASE file[i].attempt = attempt
      <3>1. file[i] = Record
        BY <1>4, <2>2 DEF RecordsInv
      <3>. QED
        BY <1>1, <1>3, <2>2, <3>1
    <2>3. CASE file[i].attempt < attempt
      BY <1>1, <1>4, <2>1, <2>3 DEF RecordsInv
    <2>. QED
      BY <1>1, <2>1, <2>2, <2>3
  <1>5. ASSUME NEW i \in 1 .. Len(file'), file'[i].is = "record"
        PROVE  /\ file'[i].attempt <= attempt'
               /\ file'[i].attempt # attempt'
               /\ file'[i].retry /\ ~file'[i].success
    <2>1. i \in 1 .. Len(file) /\ file'[i] = file[i]
      OBVIOUS
    <2>2. file[i].attempt \in Nat /\ file[i].attempt < attempt' /\ attempt' \in Nat
      BY <1>1, <1>4, <1>5, <2>1
    <2>. QED
      BY <1>4, <1>5, <2>1, <2>2
  <1>6. \A i, j \in 1 .. Len(file') :
          file'[i].is = "record" /\ file'[j].is = "record" /\ i < j =>
              file'[i].attempt < file'[j].attempt
    BY DEF RecordsInv
  <1>. QED
    BY <1>5, <1>6 DEF RecordsInv

\* Every step keeps the records and the place in order.
LEMMA StepRecords ==
    ASSUME TInv, RecordsInv, PlaceInv, [Next]_vars
    PROVE  RecordsInv' /\ PlaceInv'
  <1>1. TypeOK /\ handled \in Nat /\ handled >= handled
    BY RecordFields DEF TInv
  <1>2. ASSUME UNCHANGED <<attempt, err>>
        PROVE  Record' = Record /\ (retryableFailure' <=> retryableFailure)
    BY <1>2 DEF Record, retryableFailure, isNonRetryable
  <1>3. CASE tryOnce
    <2>1. pc = "try" /\ pc' = "record" /\ UNCHANGED <<attempt, file>>
      BY <1>3 DEF tryOnce
    <2>2. /\ handled' \in Nat /\ handled' >= handled
          /\ err' = "nil" => handled' > 0
      <3>1. handled \in 0 .. 2
        BY <1>1 DEF TypeOK
      <3>2. \/ UNCHANGED handled /\ err' # "nil"
            \/ Handle
        BY <1>3 DEF tryOnce
      <3>. QED
        BY <3>1, <3>2 DEF Handle, Min2
    <2>3. RecordsInv'
      BY <1>1, <2>1, <2>2, RecordsKept
    <2>. QED
      BY <2>1, <2>2, <2>3 DEF PlaceInv
  <1>4. CASE WriteRecord \/ WriteNewline
    <2>1. UNCHANGED <<attempt, err, handled>>
      BY <1>1, <1>4, Writes
    <2>2. Record' = Record /\ (retryableFailure' <=> retryableFailure)
      BY <1>2, <2>1
    <2>3. CASE /\ pc = "record" /\ pc' = "newline" /\ file' = Append(file, Record)
      <3>1. RecordsInv'
        BY <1>1, <2>1, <2>3, RecordAdded
      <3>. QED
        BY <2>1, <2>3, <3>1 DEF PlaceInv
    <2>4. CASE /\ GoOn
               /\ file' = file \/ file' = Append(file, NL) \/ file' = Append(file, Half)
      <3>1. pc' = IF retryableFailure THEN "sleep"
                  ELSE IF err = "nil" THEN "delivered" ELSE "failed"
        BY <1>1, <2>4, GoOnStep
      <3>2. RecordsInv'
        BY <1>1, <2>1, <2>2, <2>4, <3>1, RecordsKept
      <3>. QED
        BY <2>1, <2>2, <3>1, <3>2 DEF PlaceInv
    <2>. QED
      BY <1>1, <1>4, <2>3, <2>4, Writes
  <1>5. CASE Sleep
    <2>1. pc = "sleep" /\ UNCHANGED <<err, file, handled>>
      BY <1>5 DEF Sleep
    <2>2. CASE pc' = "try" /\ attempt' = attempt + 1
      <3>1. RecordsInv'
        BY <1>1, <2>1, <2>2, RecordsPassed
      <3>. QED
        BY <2>2, <3>1 DEF PlaceInv
    <2>3. CASE pc' = "canceled" /\ attempt' = attempt
      <3>1. RecordsInv'
        BY <1>1, <1>2, <2>1, <2>3, RecordsKept
      <3>. QED
        BY <1>2, <2>1, <2>3, <3>1 DEF PlaceInv
    <2>. QED
      BY <1>5, <2>2, <2>3 DEF Sleep, Finish
  <1>6. CASE Crash
    <2>1. /\ pc' = "lost" /\ UNCHANGED <<attempt, err, handled>>
          /\ file' = file \/ file' = Append(file, Half)
      BY <1>6 DEF Crash, Finish
    <2>2. RecordsInv'
      BY <1>1, <1>2, <2>1, RecordsKept
    <2>. QED
      BY <2>1, <2>2 DEF PlaceInv
  <1>7. CASE UNCHANGED vars
    <2>1. UNCHANGED <<pc, attempt, err, handled, file>>
      BY <1>7 DEF vars
    <2>2. RecordsInv'
      BY <1>1, <1>2, <2>1, RecordsKept
    <2>. QED
      BY <1>2, <2>1, <2>2 DEF PlaceInv
  <1>. QED
    BY <1>3, <1>4, <1>5, <1>6, <1>7 DEF Next

\* What the count of the lines depends on, when the log stays as it is.
LEMMA CountType ==
    ASSUME TypeOK
    PROVE  /\ file \in Seq(Pieces) /\ Cardinality(Lines(file)) \in Nat /\ Debt(file) \in 0 .. 2
           /\ faults \in Nat /\ attempt \in Nat
  BY RecordFields, LinesFinite, DebtType, Numbers DEF TypeOK

\* The first write, when it succeeds.
LEMMA CountRecord ==
    ASSUME TypeOK, CountInv, pc = "record", pc' = "newline",
           file' = Append(file, Record), UNCHANGED <<attempt, err, faults>>
    PROVE  CountInv'
  <1>1. /\ file \in Seq(Pieces) /\ Cardinality(Lines(file)) \in Nat /\ Debt(file) \in 0 .. 2
        /\ faults \in Nat /\ attempt \in Nat
    BY CountType
  <1>2. Record \in Records /\ Record \in Pieces /\ Record' = Record
    BY RecordType DEF Record, retryableFailure, isNonRetryable
  <1>3. Cardinality(Lines(file)) >= attempt - 1 - 2 * faults + Debt(file)
    BY DEF CountInv, Persisted
  <1>4. Cardinality(Lines(file')) = Cardinality(Lines(file)) + 1 - Debt(file)
    BY <1>1, <1>2, LinesCount
  <1>5. Cardinality(Lines(file')) >= attempt - 2 * faults + 0
    BY <1>1, <1>3, <1>4
  <1>6. ASSUME faults = 0
        PROVE  \E i \in Lines(file') : file'[i] = Record'
    <2>1. Clean(file)
      BY <1>6 DEF CountInv
    <2>2. Len(file) + 1 \in Lines(file')
      <3>1. Record # NL /\ Record.is = "record"
        BY <1>2, PiecesDiffer
      <3>2. Lines(file') = (Lines(file) \ {Len(file)})
              \cup (IF Record.is = "record" /\ Clean(file) THEN {Len(file) + 1} ELSE {})
        BY <1>1, <1>2, <3>1, LinesWithPiece
      <3>. QED
        BY <2>1, <3>1, <3>2
    <2>3. file'[Len(file) + 1] = Record
      BY <1>1, <1>2, Appended
    <2>. QED
      BY <1>2, <2>2, <2>3
  <1>. QED
    BY <1>5, <1>6 DEF CountInv, Persisted

\* The second one.
LEMMA CountNewline ==
    ASSUME TypeOK, CountInv, pc = "newline", pc' \in {"sleep", "delivered", "failed"},
           file' = Append(file, NL), UNCHANGED <<attempt, err, faults>>
    PROVE  CountInv'
  <1>1. /\ file \in Seq(Pieces) /\ Cardinality(Lines(file)) \in Nat /\ Debt(file) \in 0 .. 2
        /\ faults \in Nat /\ attempt \in Nat
    BY CountType
  <1>2. Record' = Record
    BY DEF Record, retryableFailure, isNonRetryable
  <1>3. Cardinality(Lines(file)) >= attempt - 2 * faults + 0
    BY DEF CountInv, Persisted
  <1>4. /\ Cardinality(Lines(file')) = Cardinality(Lines(file)) /\ Debt(file') = 0
        /\ Lines(file') = Lines(file) /\ Clean(file')
    BY <1>1, LinesCount, LinesWithEnd, PiecesDiffer
  <1>5. Cardinality(Lines(file')) >= attempt - 2 * faults + Debt(file')
    BY <1>1, <1>3, <1>4
  <1>6. ASSUME faults = 0
        PROVE  \E i \in Lines(file') : file'[i] = Record'
    <2>1. PICK i \in Lines(file) : file[i] = Record
      BY <1>6 DEF CountInv
    <2>2. file'[i] = file[i]
      BY <1>1, Appended, PiecesDiffer DEF Lines
    <2>. QED
      BY <1>2, <1>4, <2>1, <2>2
  <1>. QED
    BY <1>4, <1>5, <1>6 DEF CountInv, Persisted

\* A write that fails.
LEMMA CountFault ==
    ASSUME TypeOK, CountInv, pc \in {"record", "newline"}, pc' \in {"sleep", "delivered", "failed"},
           \/ file' = file
           \/ pc = "record" /\ file' = Append(file, Half),
           attempt' = attempt, faults' = faults + 1
    PROVE  CountInv'
  <1>1. /\ file \in Seq(Pieces) /\ Cardinality(Lines(file)) \in Nat /\ Debt(file) \in 0 .. 2
        /\ faults \in Nat /\ attempt \in Nat
    BY CountType
  <1>2. /\ pc = "record" => Cardinality(Lines(file)) >= attempt - 1 - 2 * faults + Debt(file)
        /\ pc = "newline" => Cardinality(Lines(file)) >= attempt - 2 * faults + 0
    BY DEF CountInv, Persisted
  <1>3. Cardinality(Lines(file')) >= attempt - 2 * (faults + 1) + Debt(file')
    <2>1. CASE file' = file
      BY <1>1, <1>2, <2>1
    <2>2. CASE pc = "record" /\ file' = Append(file, Half)
      <3>1. /\ Cardinality(Lines(file')) >= Cardinality(Lines(file)) - Debt(file)
            /\ Debt(file') = 1
        BY <1>1, <2>2, LinesCount, PiecesDiffer
      <3>2. file' \in Seq(Pieces)
        BY <1>1, <2>2, Appended, PiecesDiffer
      <3>3. Cardinality(Lines(file')) \in Nat
        BY <3>2, LinesFinite
      <3>. QED
        BY <1>1, <1>2, <2>2, <3>1, <3>3
    <2>. QED
      BY <2>1, <2>2
  <1>4. faults' # 0
    BY <1>1
  <1>. QED
    BY <1>3, <1>4 DEF CountInv, Persisted

\* Every step keeps the count.
LEMMA StepCount ==
    ASSUME TInv, CountInv, [Next]_vars
    PROVE  CountInv'
  <1>1. TypeOK
    BY DEF TInv
  <1>2. attempt \in Nat /\ faults \in Nat
    BY <1>1, CountType
  <1>3. CASE tryOnce
    <2>1. pc = "try" /\ pc' = "record" /\ UNCHANGED <<attempt, file, faults>>
      BY <1>3 DEF tryOnce
    <2>. QED
      BY <2>1 DEF CountInv, Persisted
  <1>4. CASE WriteRecord \/ WriteNewline
    <2>1. UNCHANGED <<attempt, err>>
      BY <1>1, <1>4, Writes
    <2>2. GoOn => pc' \in {"sleep", "delivered", "failed"}
      BY <1>1, GoOnStep
    <2>. QED
      BY <1>1, <1>4, <2>1, <2>2, Writes, CountRecord, CountNewline, CountFault
  <1>5. CASE Sleep
    <2>1. /\ pc = "sleep" /\ UNCHANGED <<file, faults>>
          /\ \/ pc' = "try" /\ attempt' = attempt + 1
             \/ pc' = "canceled" /\ attempt' = attempt
      BY <1>5 DEF Sleep, Finish
    <2>2. Persisted = attempt /\ Persisted' = attempt
      BY <1>2, <2>1 DEF Persisted
    <2>. QED
      BY <2>1, <2>2 DEF CountInv
  <1>6. CASE Crash
    BY <1>6 DEF Crash, Finish, CountInv
  <1>7. CASE UNCHANGED vars
    <2>1. UNCHANGED <<pc, attempt, err, file, faults>>
      BY <1>7 DEF vars
    <2>. QED
      BY <2>1 DEF CountInv, Persisted, Record, retryableFailure, isNonRetryable
  <1>. QED
    BY <1>3, <1>4, <1>5, <1>6, <1>7 DEF Next

\* The log an earlier process has left.
LEMMA InitLog ==
    ASSUME Init
    PROVE  LogInv
  <1>1. TypeOK
    BY InitTypes DEF TInv
  <1>2. pc = "try" /\ attempt = 1
    BY DEF Init
  <1>3. \/ file = <<>> /\ faults = 0
        \/ faults = 1 /\ \E x \in {Other, Half} : file = <<x>>
    BY DEF Init
  <1>4. \A i \in 1 .. Len(file) : file[i].is # "record"
    <2>1. CASE file = <<>>
      BY <2>1
    <2>2. ASSUME NEW x \in {Other, Half}, file = <<x>>
          PROVE  \A i \in 1 .. Len(file) : file[i].is # "record"
      <3>1. x.is # "record" /\ Len(file) = 1 /\ file[1] = x
        BY <2>2, PiecesDiffer
      <3>. QED
        BY <3>1
    <2>. QED
      BY <1>3, <2>1, <2>2
  <1>5. Lines(file) = {}
    BY <1>4 DEF Lines
  <1>6. Cardinality(Lines(file)) = 0
    BY <1>5, FS_EmptySet
  <1>7. Debt(file) \in 0 .. 2 /\ (faults = 0 => Clean(file)) /\ (Clean(file) => Debt(file) = 0)
    BY <1>1, <1>3, CountType DEF Clean, Debt
  <1>8. CountInv
    <2>1. Persisted = 0
      BY <1>2 DEF Persisted
    <2>2. 0 >= Persisted - 2 * faults + Debt(file)
      BY <1>3, <1>7, <2>1
    <2>. QED
      BY <1>2, <1>6, <1>7, <2>2 DEF CountInv
  <1>. QED
    BY <1>2, <1>4, <1>8 DEF LogInv, RecordsInv, PlaceInv

\* GetJobDeliveries can be trusted, whatever goes wrong with the log: its
\* records are in order, a retry they announce was made unless the wait for it
\* is not over, was canceled or died with the process, no attempt follows a
\* record that announces none, a success is one the receiver has seen, and a
\* fault hides two records at most.
THEOREM LogTrue == Spec => []LogTellsTheStory
  <1>1. TInv /\ LogInv /\ [Next]_vars => LogInv'
    BY StepRecords, StepCount DEF LogInv
  <1>2. TInv /\ LogInv => LogTellsTheStory
    <2>. SUFFICES ASSUME TInv, LogInv PROVE LogTellsTheStory
      OBVIOUS
    <2>1. TypeOK /\ ListByJobID = Lines(file)
      BY DEF TInv, ListByJobID, Lines
    <2>2. /\ Len(file) \in Nat /\ attempt \in Nat
          /\ \A i \in 1 .. Len(file) : file[i].is = "record" => file[i].attempt \in Nat
      BY <2>1, RecordFields
    <2>3. \A i \in ListByJobID : i \in 1 .. Len(file) /\ file[i].is = "record"
      BY DEF ListByJobID
    <2>4. ASSUME NEW i \in ListByJobID, NEW j \in ListByJobID, i < j
          PROVE  file[i].attempt < file[j].attempt
      BY <2>3, <2>4 DEF LogInv, RecordsInv
    <2>5. ASSUME NEW i \in ListByJobID
          PROVE  /\ file[i].success => handled > 0 /\ ~file[i].retry
                 /\ IF file[i].retry
                      THEN \/ attempt > file[i].attempt
                           \/ pc \in {"newline", "sleep", "canceled", "lost"}
                      ELSE /\ attempt = file[i].attempt
                           /\ pc \in {"newline", "delivered", "failed", "lost"}
      <3>1. /\ file[i].attempt \in Nat /\ file[i].attempt <= attempt
            /\ pc \in {"try", "record"} => file[i].attempt # attempt
            /\ file[i].attempt = attempt => file[i] = Record
            /\ file[i].attempt < attempt => file[i].retry /\ ~file[i].success
            /\ file[i].success => handled > 0
        BY <2>2, <2>3 DEF LogInv, RecordsInv
      <3>2. CASE file[i].attempt < attempt
        BY <2>2, <3>1, <3>2
      <3>3. CASE file[i].attempt = attempt
        <4>1. /\ file[i].retry = retryableFailure /\ file[i].success = (err = "nil")
              /\ pc \notin {"try", "record"}
          BY <3>1, <3>3 DEF Record
        <4>2. /\ pc \in {"sleep", "canceled"} => retryableFailure
              /\ pc \in {"delivered", "failed"} => ~retryableFailure
              /\ err = "nil" => ~retryableFailure
          BY DEF LogInv, PlaceInv, retryableFailure
        <4>3. pc \in {"newline", "sleep", "delivered", "failed", "canceled", "lost"}
          BY <2>1, <4>1 DEF TypeOK
        <4>. QED
          BY <3>1, <3>3, <4>1, <4>2, <4>3
      <3>. QED
        BY <2>2, <3>1, <3>2, <3>3
    <2>6. Cardinality(ListByJobID) >= Persisted - 2 * faults
      <3>1. /\ Cardinality(Lines(file)) \in Nat /\ Debt(file) \in 0 .. 2
            /\ faults \in Nat
        BY <2>1, CountType
      <3>2. Persisted \in Int /\ (pc = "lost" => Persisted = 0)
        BY <2>1, <2>2 DEF Persisted, TypeOK
      <3>3. CASE pc = "lost"
        BY <2>1, <3>1, <3>2, <3>3
      <3>4. CASE pc # "lost"
        BY <2>1, <3>1, <3>2, <3>4 DEF LogInv, CountInv
      <3>. QED
        BY <3>3, <3>4
    <2>7. ASSUME pc \in {"delivered", "failed"}, faults = 0
          PROVE  \E i \in ListByJobID : ~file[i].retry /\ (file[i].success <=> pc = "delivered")
      <3>1. PICK i \in Lines(file) : file[i] = Record
        BY <2>7 DEF LogInv, CountInv
      <3>2. ~retryableFailure /\ (err = "nil" <=> pc = "delivered")
        BY <2>7 DEF LogInv, PlaceInv
      <3>3. Record.retry = retryableFailure /\ Record.success = (err = "nil")
        BY DEF Record
      <3>. QED
        BY <2>1, <3>1, <3>2, <3>3
    <2>. QED
      BY <2>4, <2>5, <2>6, <2>7 DEF LogTellsTheStory
  <1>. QED
    BY <1>1, <1>2, InitLog, Typed, PTL DEF Spec
=============================================================================
