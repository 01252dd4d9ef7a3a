------------------------- MODULE ConfigLoaderProofs -------------------------
(***************************************************************************)
(* What the readers of the configuration make of a file of any length,     *)
(* with any lines: a registry that is loaded is the one that was written,  *)
(* and a value of a definition is stored where the file nests it.          *)
(***************************************************************************)
EXTENDS ConfigLoader, FiniteSetTheorems, NaturalsInduction, WellFoundedInduction, TLAPS

\* s lists the numbers of S in ascending order.
Lists(s, S) ==
    /\ s \in Seq(S) /\ Ascends(s)
    /\ \A x \in S : \E i \in DOMAIN s : s[i] = x

-----------------------------------------------------------------------------
\* A set of naturals that is not empty has a least element.
LEMMA LeastNatural ==
    ASSUME NEW T, T \subseteq Nat, T # {}
    PROVE  \E x \in T : \A y \in T : x <= y
  <1>1. PICK x \in T : \A y \in T : ~ (<<y, x>> \in OpToRel(<, Nat))
    BY NatLessThanWellFounded, WFMin
  <1>2. \A y \in T : ~ (y < x)
    <2>1. TAKE y \in T
    <2>2. <<y, x>> \in Nat \X Nat /\ y \in Nat /\ x \in Nat
      OBVIOUS
    <2>. QED
      BY <1>1, <2>2 DEF OpToRel
  <1>3. x \in Nat /\ \A y \in T : y \in Nat
    OBVIOUS
  <1>. QED
    BY <1>2, <1>3

\* Max is the largest number of a bounded set.
LEMMA MaxOfBounded ==
    ASSUME NEW S, S \subseteq Nat, S # {}, NEW b \in Nat, \A x \in S : x <= b
    PROVE  Max(S) \in S /\ \A x \in S : x <= Max(S)
  <1>. DEFINE T == {k \in Nat : \A x \in S : x <= k}
  <1>1. T \subseteq Nat /\ T # {}
    OBVIOUS
  <1>2. PICK k \in T : \A y \in T : k <= y
    <2>. HIDE DEF T
    <2>. QED
      BY <1>1, LeastNatural
  <1>3. k \in S
    <2>1. SUFFICES ASSUME k \notin S
                   PROVE  FALSE
      OBVIOUS
    <2>2. PICK z \in S : z \in Nat
      OBVIOUS
    <2>3. k - 1 \in Nat /\ \A x \in S : x <= k - 1
      BY <2>1, <2>2
    <2>4. k - 1 \in T
      BY <2>3
    <2>. QED
      BY <1>2, <2>3, <2>4
  <1>4. \A y \in S : k >= y
    OBVIOUS
  <1>5. \E x \in S : \A y \in S : x >= y
    BY <1>3, <1>4
  <1>6. Max(S) \in S /\ \A y \in S : Max(S) >= y
    <2>. HIDE DEF T
    <2>. QED
      BY <1>5, Zenon DEF Max
  <1>. QED
    BY <1>6

\* A new largest number is the Max.
LEMMA MaxOfNew ==
    ASSUME NEW S, S \subseteq Nat, NEW m \in Nat, m \in S, \A x \in S : x <= m
    PROVE  Max(S) = m
  <1>1. Max(S) \in S /\ \A x \in S : x <= Max(S)
    BY MaxOfBounded
  <1>2. PICK x \in S : x = Max(S)
    BY <1>1
  <1>3. x <= m /\ m <= x /\ x \in Nat
    BY <1>1, <1>2
  <1>. QED
    BY <1>2, <1>3

Fills(s, n, S) ==
    s \in [1 .. n -> S] /\ Ascends(s) /\ \A x \in S : \E i \in 1 .. n : s[i] = x

\* Two ascending enumerations of the same set are equal.
LEMMA ListsAgree ==
    ASSUME NEW S, S \subseteq Nat, NEW n \in Nat, NEW s, Fills(s, n, S), NEW t, Fills(t, n, S)
    PROVE  s = t
  <1>. USE DEF Fills
  <1>. DEFINE T == {i \in 1 .. n : s[i] # t[i]}
  <1>1. SUFFICES ASSUME T # {}
                 PROVE  FALSE
    OBVIOUS
  <1>2. T \subseteq Nat
    OBVIOUS
  <1>3. PICK i \in T : \A y \in T : i <= y
    <2>. HIDE DEF T
    <2>. QED
      BY <1>1, <1>2, LeastNatural
  <1>4. i \in 1 .. n /\ s[i] \in Nat /\ t[i] \in Nat /\ s[i] # t[i]
    OBVIOUS
  <1>5. \A j \in 1 .. n : j < i => s[j] = t[j]
    BY <1>3
  <1>6. PICK j \in 1 .. n : t[j] = s[i]
    BY <1>4
  <1>7. PICK k \in 1 .. n : s[k] = t[i]
    BY <1>4
  <1>8. /\ \A a, b \in 1 .. n : a < b => s[a] < s[b]
        /\ \A a, b \in 1 .. n : a < b => t[a] < t[b]
    BY DEF Ascends
  <1>9. j > i
    BY <1>4, <1>5, <1>6, <1>8
  <1>10. k > i
    BY <1>4, <1>5, <1>7, <1>8
  <1>. QED
    BY <1>4, <1>6, <1>7, <1>8, <1>9, <1>10

\* InOrder is the list of its set.
LEMMA InOrderIs ==
    ASSUME NEW S, S \subseteq Nat, NEW s, Lists(s, S)
    PROVE  InOrder(S) = s
  <1>. DEFINE n == Len(s)
  <1>1. n \in Nat /\ DOMAIN s = 1 .. n /\ s \in [1 .. n -> S]
    BY DEF Lists
  <1>2. Ascends(s) /\ \A x \in S : \E i \in 1 .. n : s[i] = x
    BY <1>1 DEF Lists
  <1>. HIDE DEF n
  <1>3. s \in Surjection(1 .. n, S)
    BY <1>1, <1>2 DEF Surjection
  <1>4. \A t \in [1 .. n -> S] : Ascends(t) => t \in Injection(1 .. n, S)
    <2>1. TAKE t \in [1 .. n -> S]
    <2>2. HAVE Ascends(t)
    <2>3. ASSUME NEW a \in 1 .. n, NEW b \in 1 .. n, t[a] = t[b]
          PROVE  a = b
      <3>1. t[a] \in S /\ t[b] \in S /\ a \in Int /\ b \in Int
        BY <2>1, <2>3
      <3>2. t[a] \in Nat /\ t[b] \in Nat
        BY <3>1
      <3>3. (a < b => t[a] < t[b]) /\ (b < a => t[b] < t[a])
        BY <2>1, <2>2, <2>3 DEF Ascends
      <3>. QED
        BY <2>3, <3>1, <3>2, <3>3
    <2>. QED
      BY <2>3 DEF Injection, IsInjective
  <1>5. IsFiniteSet(1 .. n) /\ Cardinality(1 .. n) = n
    BY <1>1, FS_Interval
  <1>6. IsFiniteSet(S) /\ Cardinality(S) = n
    BY <1>1, <1>2, <1>3, <1>4, <1>5, FS_Surjection
  <1>7. \E t \in [1 .. Cardinality(S) -> S] : Ascends(t)
    BY <1>1, <1>2, <1>6
  <1>8. PICK t : t = InOrder(S)
    OBVIOUS
  <1>9. t \in [1 .. n -> S] /\ Ascends(t)
    BY <1>6, <1>7, <1>8, Zenon DEF InOrder
  <1>10. t \in Surjection(1 .. n, S)
    BY <1>4, <1>5, <1>6, <1>9, FS_Injection
  <1>11. \A x \in S : \E i \in 1 .. n : t[i] = x
    BY <1>10 DEF Surjection
  <1>. QED
    <2>1. Fills(s, n, S) /\ Fills(t, n, S)
      BY <1>1, <1>2, <1>9, <1>11 DEF Fills
    <2>2. s = t
      BY <1>1, <2>1, ListsAgree
    <2>. QED
      BY <1>8, <2>2

\* The empty list.
LEMMA ListsNone == Lists(<<>>, {})
  BY DEF Lists, Ascends

\* A number larger than all of the set comes last.
LEMMA ListsAppend ==
    ASSUME NEW S, S \subseteq Nat, NEW s, Lists(s, S), NEW m \in Nat, \A x \in S : x < m
    PROVE  Lists(Append(s, m), S \cup {m})
  <1>1. s \in Seq(S) /\ s \in Seq(S \cup {m}) /\ Len(s) \in Nat
    BY DEF Lists
  <1>2. /\ Append(s, m) \in Seq(S \cup {m}) /\ DOMAIN Append(s, m) = 1 .. Len(s) + 1
        /\ \A i \in 1 .. Len(s) : Append(s, m)[i] = s[i] /\ s[i] \in S /\ s[i] \in Nat
        /\ Append(s, m)[Len(s) + 1] = m
    <2>1. \A i \in 1 .. Len(s) : s[i] \in S
      BY <1>1
    <2>2. \A i \in 1 .. Len(s) : s[i] \in Nat
      BY <2>1
    <2>. QED
      BY <1>1, <2>1, <2>2
  <1>3. Ascends(Append(s, m))
    BY <1>1, <1>2 DEF Lists, Ascends
  <1>4. ASSUME NEW x \in S \cup {m}
        PROVE  \E i \in DOMAIN Append(s, m) : Append(s, m)[i] = x
    <2>1. CASE x \in S
      <3>1. PICK i \in DOMAIN s : s[i] = x
        BY <2>1 DEF Lists
      <3>2. i \in 1 .. Len(s) /\ i \in 1 .. Len(s) + 1
        BY <1>1, <3>1
      <3>. QED
        BY <1>2, <3>1, <3>2
    <2>2. CASE x = m
      BY <1>1, <1>2, <2>2
    <2>. QED
      BY <2>1, <2>2
  <1>. QED
    BY <1>2, <1>3, <1>4 DEF Lists

\* The first numbers of a list are the list of those numbers.
LEMMA ListsPrefix ==
    ASSUME NEW S, S \subseteq Nat, NEW s, Lists(s, S), NEW m \in 0 .. Len(s),
           NEW T, T = {s[i] : i \in 1 .. m}
    PROVE  Lists(SubSeq(s, 1, m), T)
  <1>1. s \in Seq(S) /\ Len(s) \in Nat /\ m \in Nat /\ DOMAIN s = 1 .. Len(s)
    BY DEF Lists
  <1>2. /\ SubSeq(s, 1, m) \in Seq(S) /\ Len(SubSeq(s, 1, m)) = m
        /\ \A i \in 1 .. m : SubSeq(s, 1, m)[i] = s[i] /\ s[i] \in T /\ i \in DOMAIN s
    BY <1>1
  <1>3. DOMAIN SubSeq(s, 1, m) = 1 .. m
    BY <1>1, <1>2
  <1>4. SubSeq(s, 1, m) \in Seq(T)
    BY <1>1, <1>2, <1>3
  <1>5. Ascends(SubSeq(s, 1, m))
    BY <1>1, <1>2, <1>3 DEF Lists, Ascends
  <1>6. ASSUME NEW x \in T
        PROVE  \E i \in DOMAIN SubSeq(s, 1, m) : SubSeq(s, 1, m)[i] = x
    <2>1. PICK i \in 1 .. m : x = s[i]
      OBVIOUS
    <2>. QED
      BY <1>2, <1>3, <2>1
  <1>. QED
    BY <1>4, <1>5, <1>6 DEF Lists

\* Every set of line numbers can be listed.
LEMMA ListsExist ==
    ASSUME NEW n \in Nat, NEW S, S \subseteq 1 .. n
    PROVE  \E s : Lists(s, S)
  <1>. DEFINE Listable(U) == \E s : Lists(s, U)
  <1>. DEFINE T == {k \in Nat : \E U \in SUBSET (1 .. k) : ~Listable(U)}
  <1>1. SUFFICES ASSUME ~Listable(S)
                 PROVE  FALSE
    OBVIOUS
  <1>2. n \in T /\ T \subseteq Nat
    <2>1. S \in SUBSET (1 .. n)
      OBVIOUS
    <2>. HIDE DEF Listable
    <2>. QED
      BY <1>1, <2>1
  <1>3. PICK k \in T : \A y \in T : k <= y
    <2>. HIDE DEF T
    <2>. QED
      BY <1>2, LeastNatural
  <1>4. PICK U \in SUBSET (1 .. k) : ~Listable(U)
    BY <1>3
  <1>5. k \in Nat /\ k # 0
    <2>1. k = 0 => U = {}
      BY <1>4
    <2>. QED
      BY <1>4, <2>1, ListsNone
  <1>6. k - 1 \in Nat /\ k - 1 \notin T
    <2>1. k - 1 \in Nat /\ ~(k <= k - 1)
      BY <1>5
    <2>. HIDE DEF T
    <2>. QED
      BY <1>3, <2>1
  <1>7. \A W \in SUBSET (1 .. k - 1) : Listable(W)
    <2>. HIDE DEF Listable
    <2>. QED
      BY <1>6
  <1>8. U \ {k} \in SUBSET (1 .. k - 1) /\ U \ {k} \subseteq Nat /\ \A x \in U \ {k} : x < k
    BY <1>4, <1>5
  <1>9. PICK s : Lists(s, U \ {k})
    BY <1>7, <1>8
  <1>10. CASE k \in U
    <2>1. Lists(Append(s, k), (U \ {k}) \cup {k})
      BY <1>5, <1>8, <1>9, ListsAppend
    <2>2. (U \ {k}) \cup {k} = U
      BY <1>10
    <2>. QED
      BY <1>4, <2>1, <2>2
  <1>11. CASE k \notin U
    <2>1. U \ {k} = U
      BY <1>11
    <2>. QED
      BY <1>4, <1>9, <2>1
  <1>. QED
    BY <1>10, <1>11

\* InOrder lists its set, and a new largest number is put at the end.
LEMMA InOrderLists ==
    ASSUME NEW n \in Nat, NEW S, S \subseteq 1 .. n
    PROVE  /\ Lists(InOrder(S), S) /\ InOrder(S) \in Seq(S) /\ Len(InOrder(S)) \in Nat
           /\ DOMAIN InOrder(S) = 1 .. Len(InOrder(S))
           /\ \A i \in DOMAIN InOrder(S) : InOrder(S)[i] \in S
           /\ InOrder(S \cup {n + 1}) = Append(InOrder(S), n + 1)
  <1>1. S \subseteq Nat /\ \A x \in S : x < n + 1
    OBVIOUS
  <1>2. PICK s : Lists(s, S)
    BY ListsExist
  <1>3. InOrder(S) = s
    BY <1>1, <1>2, InOrderIs
  <1>4. s \in Seq(S) /\ Len(s) \in Nat /\ DOMAIN s = 1 .. Len(s) /\ \A i \in DOMAIN s : s[i] \in S
    BY <1>2 DEF Lists
  <1>5. Lists(Append(s, n + 1), S \cup {n + 1}) /\ S \cup {n + 1} \subseteq Nat
    <2>1. n + 1 \in Nat
      OBVIOUS
    <2>2. Lists(Append(s, n + 1), S \cup {n + 1})
      BY <1>1, <1>2, <2>1, ListsAppend
    <2>. QED
      BY <1>1, <2>1, <2>2
  <1>6. InOrder(S \cup {n + 1}) = Append(s, n + 1)
    BY <1>5, InOrderIs
  <1>. QED
    BY <1>2, <1>3, <1>4, <1>6

-----------------------------------------------------------------------------
Node == [indent : Nat, key : STRING]
Field == [path : ListPaths \cup ValuePaths, value : Value]

\* Every variable has its type.
TypeOK ==
    /\ reader \in {"experts", "agents", "definition"}
    /\ lines \in Seq(Line)
    /\ pc \in {"reading", "loaded", "rejected"}
    /\ in \in BOOLEAN
    /\ out \in Seq(Ref) /\ current \in Ref \cup {NoRef}
    /\ stack \in Seq(Node) /\ fields \in Seq(Field)

\* The parts of lines and of the keys on the stack.
LEMMA Parts ==
    /\ \A x \in Line : /\ x.indent \in Nat /\ x.form \in {"item", "field", "bare", "text"}
                      /\ x.key \in STRING /\ x.value \in Value
    /\ \A x \in Node : x.indent \in Nat /\ x.key \in STRING
  BY DEF Line, Node

\* What a line that is read adds to the file.
LEMMA LineAdded ==
    ASSUME lines \in Seq(Line), NEW l \in Line, lines' = Append(lines, l)
    PROVE  /\ Len(lines) \in Nat /\ Len(lines') = Len(lines) + 1 /\ lines' \in Seq(Line)
           /\ DOMAIN lines = 1 .. Len(lines) /\ DOMAIN lines' = 1 .. Len(lines) + 1
           /\ lines'[Len(lines) + 1] = l
           /\ \A i \in 1 .. Len(lines) : lines'[i] = lines[i] /\ lines[i] \in Line
  OBVIOUS

\* The line that is read next is a line.
LEMMA LinesAreLines ==
    ASSUME NEW l \in IF reader = "definition" THEN DefinitionLines ELSE RegistryLines
    PROVE  l \in Line
  BY ConfigLoaderAssumption

\* The keys that hold a line are not changed by the lines after it.
LEMMA PathKept ==
    ASSUME lines \in Seq(Line), NEW l \in Line, lines' = Append(lines, l),
           NEW i \in 1 .. Len(lines)
    PROVE  PathOf(i)' = PathOf(i)
  <1>. PICK n \in Nat : n = Len(lines)
    BY LineAdded
  <1>1. /\ DOMAIN lines = 1 .. n /\ DOMAIN lines' = 1 .. n + 1
        /\ \A j \in 1 .. n : lines'[j] = lines[j]
    BY LineAdded
  <1>2. \A k \in 1 .. n : Holds(k, i)' <=> Holds(k, i)
    BY <1>1 DEF Holds
  <1>3. ~Holds(n + 1, i)'
    BY <1>1 DEF Holds
  <1>4. {k \in Indexes' : Holds(k, i)'} = {k \in Indexes : Holds(k, i)}
    BY <1>1, <1>2, <1>3 DEF Indexes
  <1>5. PICK S : S = {k \in Indexes : Holds(k, i)}
    OBVIOUS
  <1>6. S \subseteq 1 .. n
    BY <1>1, <1>5 DEF Indexes
  <1>7. \A m \in DOMAIN InOrder(S) : InOrder(S)[m] \in 1 .. n
    BY <1>6, InOrderLists
  <1>8. PICK p : p = [m \in DOMAIN InOrder(S) |-> lines[InOrder(S)[m]].key]
    OBVIOUS
  <1>9. p = [m \in DOMAIN InOrder(S) |-> lines'[InOrder(S)[m]].key]
    BY <1>1, <1>7, <1>8
  <1>10. PathOf(i) = Join(IF lines[i].form = "item" THEN p ELSE Append(p, lines[i].key))
    BY <1>5, <1>8, Zenon DEF PathOf
  <1>11. PathOf(i)' = Join(IF lines'[i].form = "item" THEN p ELSE Append(p, lines'[i].key))
    BY <1>4, <1>5, <1>9, Zenon DEF PathOf
  <1>12. lines'[i] = lines[i]
    BY <1>1
  <1>13. PathOf(i)' = Join(IF lines[i].form = "item" THEN p ELSE Append(p, lines[i].key))
    BY <1>11, <1>12
  <1>. QED
    BY <1>10, <1>13

-----------------------------------------------------------------------------
\* The keys of the definition that the next line may be below.
Open ==
    {k \in Indexes :
       /\ lines[k].form = "field" /\ lines[k].value = Empty
       /\ \A j \in k + 1 .. Len(lines) : lines[j].indent > lines[k].indent}

\* The keys of a stack are those of the lines h of a file.
Nodes(nodes, h, file) ==
    /\ Len(nodes) = Len(h)
    /\ \A i \in DOMAIN nodes :
         nodes[i].indent = file[h[i]].indent /\ nodes[i].key = file[h[i]].key

\* The stack is the open keys, in order.
StackIsOpen == reader = "definition" => Nodes(stack, InOrder(Open), lines)

\* The keys that hold the line that is read are open ones further left.
LEMMA HoldsNew ==
    ASSUME lines \in Seq(Line), NEW l \in Line, lines' = Append(lines, l),
           NEW n \in Nat, n = Len(lines)
    PROVE  /\ Open \subseteq 1 .. n
           /\ \A k \in 1 .. n : Holds(k, n + 1)' <=> k \in Open /\ lines[k].indent < l.indent
           /\ ~Holds(n + 1, n + 1)'
           /\ {k \in Indexes' : Holds(k, n + 1)'} \subseteq 1 .. n
  <1>1. /\ DOMAIN lines = 1 .. n /\ DOMAIN lines' = 1 .. n + 1 /\ lines'[n + 1] = l
        /\ \A j \in 1 .. n : lines'[j] = lines[j] /\ lines[j].indent \in Nat
        /\ l.indent \in Nat
    BY LineAdded DEF Line
  <1>2. Open \subseteq 1 .. n
    BY <1>1 DEF Open, Indexes
  <1>3. ASSUME NEW k \in 1 .. n
        PROVE  Holds(k, n + 1)' <=> k \in Open /\ lines[k].indent < l.indent
    <2>1. Holds(k, n + 1)' <=>
            /\ lines[k].form = "field" /\ lines[k].value = Empty
            /\ \A j \in k + 1 .. n + 1 : lines'[j].indent > lines[k].indent
      BY <1>1, <1>3 DEF Holds
    <2>2. (\A j \in k + 1 .. n + 1 : lines'[j].indent > lines[k].indent) <=>
            /\ \A j \in k + 1 .. n : lines[j].indent > lines[k].indent
            /\ l.indent > lines[k].indent
      <3>1. \A j \in k + 1 .. n : j \in 1 .. n /\ j \in k + 1 .. n + 1
        BY <1>3
      <3>2. n + 1 \in k + 1 .. n + 1
        BY <1>3
      <3>3. \A j \in k + 1 .. n + 1 : j = n + 1 \/ j \in k + 1 .. n
        BY <1>3
      <3>. QED
        BY <1>1, <3>1, <3>2, <3>3
    <2>3. k \in Open <=>
            /\ lines[k].form = "field" /\ lines[k].value = Empty
            /\ \A j \in k + 1 .. n : lines[j].indent > lines[k].indent
      BY <1>1 DEF Open, Indexes
    <2>4. l.indent > lines[k].indent <=> lines[k].indent < l.indent
      BY <1>1
    <2>. QED
      BY <2>1, <2>2, <2>3, <2>4
  <1>4. ~Holds(n + 1, n + 1)'
    BY <1>1 DEF Holds
  <1>5. {k \in Indexes' : Holds(k, n + 1)'} \subseteq 1 .. n
    BY <1>1, <1>4 DEF Indexes
  <1>. QED
    BY <1>2, <1>3, <1>4, <1>5

\* The indents of the stack ascend.
LEMMA StackAscends ==
    ASSUME TypeOK, reader = "definition", StackIsOpen
    PROVE  \A i, j \in DOMAIN stack : i < j => stack[i].indent < stack[j].indent
  <1>1. PICK n \in Nat : n = Len(lines) /\ DOMAIN lines = 1 .. n
    BY DEF TypeOK
  <1>2. Open \subseteq 1 .. n
    BY <1>1 DEF Open, Indexes
  <1>3. PICK o : o = InOrder(Open)
    OBVIOUS
  <1>4. /\ Ascends(o) /\ DOMAIN o = 1 .. Len(o) /\ \A i \in DOMAIN o : o[i] \in Open
    BY <1>2, <1>3, InOrderLists DEF Lists
  <1>5. DOMAIN stack = DOMAIN o /\ \A i \in DOMAIN stack : stack[i].indent = lines[o[i]].indent
    BY <1>3, <1>4 DEF StackIsOpen, Nodes, TypeOK
  <1>6. ASSUME NEW i \in DOMAIN stack, NEW j \in DOMAIN stack, i < j
        PROVE  stack[i].indent < stack[j].indent
    <2>1. o[i] < o[j] /\ o[i] \in Open /\ o[j] \in Open
      BY <1>4, <1>5, <1>6 DEF Ascends
    <2>2. o[i] \in 1 .. n /\ o[j] \in 1 .. n
      BY <1>2, <2>1
    <2>3. o[j] \in o[i] + 1 .. n
      BY <2>1, <2>2
    <2>4. lines[o[j]].indent > lines[o[i]].indent
      BY <1>1, <2>1, <2>3 DEF Open
    <2>5. lines[o[i]].indent \in Nat /\ lines[o[j]].indent \in Nat
      <3>1. lines[o[i]] \in Line /\ lines[o[j]] \in Line
        BY <1>1, <2>2 DEF TypeOK
      <3>. QED
        BY <3>1, Parts
    <2>. QED
      BY <1>5, <1>6, <2>4, <2>5
  <1>. QED
    BY <1>6

\* What is popped: the keys left are the first of the stack, and they are the
\* ones that hold the line.
LEMMA PoppedIs ==
    ASSUME TypeOK, reader = "definition", StackIsOpen,
           NEW l \in Line, lines' = Append(lines, l), NEW n \in Nat, n = Len(lines)
    PROVE  \E m \in 0 .. Len(stack) :
              /\ Popped(l) = SubSeq(stack, 1, m)
              /\ InOrder({k \in Indexes' : Holds(k, n + 1)'}) = SubSeq(InOrder(Open), 1, m)
  <1>1. lines \in Seq(Line) /\ stack \in Seq(Node) /\ Len(stack) \in Nat
        /\ DOMAIN stack = 1 .. Len(stack) /\ l.indent \in Nat
        /\ \A i \in DOMAIN stack : stack[i].indent \in Nat
    <2>1. stack \in Seq(Node) /\ lines \in Seq(Line)
      BY DEF TypeOK
    <2>2. \A i \in DOMAIN stack : stack[i] \in Node
      BY <2>1
    <2>. QED
      BY <2>1, <2>2, Parts
  <1>2. /\ Open \subseteq 1 .. n
        /\ \A k \in 1 .. n : Holds(k, n + 1)' <=> k \in Open /\ lines[k].indent < l.indent
        /\ {k \in Indexes' : Holds(k, n + 1)'} \subseteq 1 .. n
    BY <1>1, HoldsNew
  <1>3. PICK o : o = InOrder(Open)
    OBVIOUS
  <1>4. /\ Lists(o, Open) /\ DOMAIN o = 1 .. Len(o) /\ \A i \in DOMAIN o : o[i] \in Open
        /\ \A x \in Open : \E i \in DOMAIN o : o[i] = x
    <2>1. Lists(o, Open) /\ DOMAIN o = 1 .. Len(o) /\ \A i \in DOMAIN o : o[i] \in Open
      BY <1>2, <1>3, InOrderLists
    <2>. QED
      BY <2>1 DEF Lists
  <1>5. Len(o) = Len(stack) /\ \A i \in DOMAIN stack : stack[i].indent = lines[o[i]].indent
    BY <1>3 DEF StackIsOpen, Nodes
  <1>6. PICK M : M = {0} \cup {i \in DOMAIN stack : l.indent > stack[i].indent}
    OBVIOUS
  <1>7. M \subseteq Nat /\ M # {} /\ \A x \in M : x <= Len(stack)
    BY <1>1, <1>6
  <1>8. PICK m : m = Max(M)
    OBVIOUS
  <1>9. m \in M /\ \A x \in M : x <= m
    BY <1>1, <1>7, <1>8, MaxOfBounded
  <1>10. m \in 0 .. Len(stack)
    BY <1>1, <1>7, <1>9
  <1>11. ASSUME NEW i \in DOMAIN stack
         PROVE  l.indent > stack[i].indent <=> i <= m
    <2>1. ASSUME l.indent > stack[i].indent
          PROVE  i <= m
      BY <1>6, <1>9, <2>1
    <2>2. ASSUME i <= m
          PROVE  l.indent > stack[i].indent
      <3>1. m \in DOMAIN stack /\ l.indent > stack[m].indent
        BY <1>1, <1>6, <1>9, <2>2, <1>11, <1>10
      <3>2. i < m => stack[i].indent < stack[m].indent
        BY <3>1, StackAscends
      <3>. QED
        BY <1>1, <1>10, <2>2, <3>1, <3>2
    <2>. QED
      BY <2>1, <2>2
  <1>12. PICK H : H = {k \in Indexes' : Holds(k, n + 1)'}
    OBVIOUS
  <1>13. ASSUME NEW k
         PROVE  k \in H <=> k \in {o[i] : i \in 1 .. m}
    <2>1. ASSUME k \in H
          PROVE  \E i \in 1 .. m : k = o[i]
      <3>1. k \in 1 .. n /\ k \in Open /\ lines[k].indent < l.indent
        BY <1>2, <1>12, <2>1
      <3>2. PICK i \in DOMAIN o : o[i] = k
        BY <1>4, <3>1
      <3>3. i \in DOMAIN stack /\ l.indent > stack[i].indent
        BY <1>1, <1>4, <1>5, <3>1, <3>2
      <3>4. i \in 1 .. m
        BY <1>1, <1>10, <1>11, <3>3
      <3>. QED
        BY <3>2, <3>4
    <2>2. ASSUME NEW i \in 1 .. m, k = o[i]
          PROVE  k \in H
      <3>1. i \in DOMAIN stack /\ i \in DOMAIN o /\ i <= m
        BY <1>1, <1>4, <1>5, <1>10
      <3>2. k \in Open /\ k \in 1 .. n /\ lines[k].indent < l.indent
        BY <1>1, <1>2, <1>4, <1>5, <1>11, <2>2, <3>1
      <3>3. k \in Indexes' /\ Holds(k, n + 1)'
        BY <1>1, <1>2, <3>2, LineAdded DEF Indexes
      <3>. QED
        BY <1>12, <3>3
    <2>. QED
      BY <2>1, <2>2
  <1>14. H = {o[i] : i \in 1 .. m} /\ H \subseteq Nat /\ Open \subseteq Nat
    BY <1>2, <1>12, <1>13
  <1>15. Lists(SubSeq(o, 1, m), H)
    BY <1>4, <1>5, <1>10, <1>14, ListsPrefix
  <1>16. InOrder(H) = SubSeq(o, 1, m)
    BY <1>14, <1>15, InOrderIs
  <1>17. Popped(l) = SubSeq(stack, 1, m)
    BY <1>6, <1>8 DEF Popped
  <1>. QED
    BY <1>3, <1>10, <1>12, <1>16, <1>17

\* A sequence over a set is one over a larger set.
LEMMA SeqWider ==
    ASSUME NEW S, NEW T, S \subseteq T, NEW s \in Seq(S)
    PROVE  s \in Seq(T)
  OBVIOUS

\* Some keys of a stack are keys of the lines they stand for.
LEMMA NodesPrefix ==
    ASSUME NEW p \in Seq(Node), NEW h \in Seq(Nat), NEW L, Nodes(p, h, L), NEW m \in 0 .. Len(p)
    PROVE  Nodes(SubSeq(p, 1, m), SubSeq(h, 1, m), L)
  <1>1. Len(p) \in Nat /\ Len(h) = Len(p) /\ m \in Nat /\ DOMAIN p = 1 .. Len(p)
    BY DEF Nodes
  <1>2. /\ Len(SubSeq(p, 1, m)) = m /\ DOMAIN SubSeq(p, 1, m) = 1 .. m
        /\ Len(SubSeq(h, 1, m)) = m
        /\ \A i \in 1 .. m : SubSeq(p, 1, m)[i] = p[i] /\ SubSeq(h, 1, m)[i] = h[i] /\ i \in DOMAIN p
    BY <1>1
  <1>. QED
    BY <1>2 DEF Nodes

\* Lines that are added change no earlier one.
LEMMA NodesGrow ==
    ASSUME NEW p \in Seq(Node), NEW L \in Seq(Line), NEW l \in Line, NEW h \in Seq(1 .. Len(L)),
           Nodes(p, h, L)
    PROVE  Nodes(p, h, Append(L, l))
  <1>1. Len(h) = Len(p) /\ \A i \in DOMAIN p : h[i] \in 1 .. Len(L)
    BY DEF Nodes
  <1>2. \A j \in 1 .. Len(L) : Append(L, l)[j] = L[j]
    OBVIOUS
  <1>. QED
    BY <1>1, <1>2 DEF Nodes

\* A key is pushed with its line.
LEMMA NodesAppend ==
    ASSUME NEW p \in Seq(Node), NEW h \in Seq(Nat), NEW L, Nodes(p, h, L),
           NEW k \in Nat, NEW x \in Node, x.indent = L[k].indent, x.key = L[k].key
    PROVE  Nodes(Append(p, x), Append(h, k), L)
  <1>1. /\ Len(p) \in Nat /\ Len(h) = Len(p) /\ DOMAIN p = 1 .. Len(p)
        /\ \A i \in DOMAIN p : p[i].indent = L[h[i]].indent /\ p[i].key = L[h[i]].key
    BY DEF Nodes
  <1>2. /\ Len(Append(p, x)) = Len(p) + 1 /\ DOMAIN Append(p, x) = 1 .. Len(p) + 1
        /\ Len(Append(h, k)) = Len(p) + 1
        /\ \A i \in 1 .. Len(p) : Append(p, x)[i] = p[i] /\ Append(h, k)[i] = h[i]
        /\ Append(p, x)[Len(p) + 1] = x /\ Append(h, k)[Len(p) + 1] = k
    BY <1>1
  <1>3. \A i \in 1 .. Len(p) + 1 : i \in 1 .. Len(p) \/ i = Len(p) + 1
    BY <1>1
  <1>4. ASSUME NEW i \in 1 .. Len(p) + 1
        PROVE  /\ Append(p, x)[i].indent = L[Append(h, k)[i]].indent
               /\ Append(p, x)[i].key = L[Append(h, k)[i]].key
    <2>1. CASE i \in 1 .. Len(p)
      BY <1>1, <1>2, <2>1
    <2>2. CASE i = Len(p) + 1
      BY <1>2, <2>2
    <2>. QED
      BY <1>3, <2>1, <2>2
  <1>. QED
    BY <1>2, <1>4 DEF Nodes

\* The path of the keys is the path of their lines.
LEMMA NodesKeys ==
    ASSUME NEW p \in Seq(Node), NEW h \in Seq(Nat), NEW L, Nodes(p, h, L)
    PROVE  Keys(p) \in Seq(STRING) /\ Keys(p) = [i \in DOMAIN h |-> L[h[i]].key]
  <1>1. Len(p) \in Nat /\ DOMAIN h = DOMAIN p /\ DOMAIN p = 1 .. Len(p)
    BY DEF Nodes
  <1>2. \A i \in DOMAIN p : p[i].key = L[h[i]].key /\ p[i].key \in STRING
    BY <1>1, Parts DEF Nodes
  <1>3. [i \in 1 .. Len(p) |-> p[i].key] \in Seq(STRING)
    BY <1>1, <1>2
  <1>. QED
    BY <1>1, <1>2, <1>3 DEF Keys

\* The keys that are left make the path of the line.
LEMMA NestedAt ==
    ASSUME TypeOK, reader = "definition", StackIsOpen,
           NEW l \in Line, lines' = Append(lines, l), NEW n \in Nat, n = Len(lines),
           NEW H, H = {k \in Indexes' : Holds(k, n + 1)'}
    PROVE  /\ Popped(l) \in Seq(Node) /\ Keys(Popped(l)) \in Seq(STRING)
           /\ Nodes(Popped(l), InOrder(H), lines')
           /\ PathOf(n + 1)' = Join(IF l.form = "item" THEN Keys(Popped(l))
                                    ELSE Append(Keys(Popped(l)), l.key))
  <1>1. lines'[n + 1] = l /\ lines \in Seq(Line) /\ stack \in Seq(Node)
    BY LineAdded DEF TypeOK
  <1>2. Open \subseteq 1 .. n /\ H \subseteq 1 .. n
    BY <1>1, HoldsNew
  <1>3. PICK m \in 0 .. Len(stack) :
           Popped(l) = SubSeq(stack, 1, m) /\ InOrder(H) = SubSeq(InOrder(Open), 1, m)
    BY PoppedIs
  <1>4. /\ InOrder(Open) \in Seq(Nat) /\ InOrder(H) \in Seq(1 .. n) /\ InOrder(H) \in Seq(Nat)
    <2>1. InOrder(Open) \in Seq(Open) /\ InOrder(H) \in Seq(H)
      BY <1>2, InOrderLists
    <2>2. Open \subseteq Nat /\ H \subseteq Nat
      BY <1>2
    <2>. QED
      BY <1>2, <2>1, <2>2, SeqWider
  <1>5. Nodes(stack, InOrder(Open), lines)
    BY DEF StackIsOpen
  <1>6. Nodes(Popped(l), InOrder(H), lines)
    BY <1>1, <1>3, <1>4, <1>5, NodesPrefix
  <1>7. Popped(l) \in Seq(Node)
    BY <1>1, <1>3
  <1>8. Nodes(Popped(l), InOrder(H), lines')
    BY <1>1, <1>4, <1>6, <1>7, NodesGrow
  <1>9. /\ Keys(Popped(l)) \in Seq(STRING)
        /\ Keys(Popped(l)) = [i \in DOMAIN InOrder(H) |-> lines'[InOrder(H)[i]].key]
    <2>1. PICK p, h, L : p = Popped(l) /\ h = InOrder(H) /\ L = lines'
      OBVIOUS
    <2>2. Keys(p) \in Seq(STRING) /\ Keys(p) = [i \in DOMAIN h |-> L[h[i]].key]
      <3>1. p \in Seq(Node) /\ h \in Seq(Nat) /\ Nodes(p, h, L)
        BY <1>4, <1>7, <1>8, <2>1
      <3>. QED
        BY <3>1, NodesKeys
    <2>. QED
      BY <2>1, <2>2
  <1>10. PICK q : q = Keys(Popped(l))
    OBVIOUS
  <1>11. PathOf(n + 1)' = Join(IF lines'[n + 1].form = "item" THEN q ELSE Append(q, lines'[n + 1].key))
    BY <1>9, <1>10, Zenon DEF PathOf
  <1>12. PathOf(n + 1)' = Join(IF l.form = "item" THEN q ELSE Append(q, l.key))
    BY <1>1, <1>11
  <1>. QED
    BY <1>7, <1>8, <1>9, <1>10, <1>12

\* The keys open after the line: those that hold it, and the line itself if
\* it is a key without a value.
LEMMA OpenNext ==
    ASSUME lines \in Seq(Line), NEW l \in Line, lines' = Append(lines, l),
           NEW n \in Nat, n = Len(lines), NEW H, H = {k \in Indexes' : Holds(k, n + 1)'}
    PROVE  Open' = IF l.form = "field" /\ l.value = Empty THEN H \cup {n + 1} ELSE H
  <1>1. /\ DOMAIN lines' = 1 .. n + 1 /\ lines'[n + 1] = l /\ Len(lines') = n + 1
    BY LineAdded
  <1>2. H \subseteq 1 .. n /\ n + 1 \notin H
    BY HoldsNew
  <1>3. ASSUME NEW k \in 1 .. n
        PROVE  k \in Open' <=> k \in H
    BY <1>1, <1>3 DEF Open, Holds, Indexes
  <1>4. n + 1 \in Open' <=> l.form = "field" /\ l.value = Empty
    BY <1>1 DEF Open, Indexes
  <1>5. Open' \subseteq 1 .. n + 1 /\ \A k \in 1 .. n + 1 : k \in 1 .. n \/ k = n + 1
    BY <1>1 DEF Open, Indexes
  <1>. QED
    BY <1>2, <1>3, <1>4, <1>5

\* The stack after the line is the open keys again.
LEMMA StackNext ==
    ASSUME TypeOK, reader = "definition", StackIsOpen, NEW l \in Line,
           lines' = Append(lines, l),
           stack' = IF l.form = "field" /\ l.value = Empty
                    THEN Append(Popped(l), [indent |-> l.indent, key |-> l.key]) ELSE Popped(l)
    PROVE  StackIsOpen' /\ stack' \in Seq(Node)
  <1>. PICK n \in Nat : n = Len(lines)
    BY DEF TypeOK
  <1>1. PICK H : H = {k \in Indexes' : Holds(k, n + 1)'}
    OBVIOUS
  <1>2. Popped(l) \in Seq(Node) /\ Nodes(Popped(l), InOrder(H), lines')
    BY <1>1, NestedAt, Zenon
  <1>3. H \subseteq 1 .. n /\ lines'[n + 1] = l
    BY <1>1, HoldsNew, LineAdded DEF TypeOK
  <1>4. InOrder(H) \in Seq(Nat) /\ InOrder(H \cup {n + 1}) = Append(InOrder(H), n + 1)
    <2>1. InOrder(H) \in Seq(H)
      BY <1>3, InOrderLists
    <2>2. InOrder(H) \in Seq(Nat)
      BY <1>3, <2>1
    <2>. QED
      BY <1>3, <2>2, InOrderLists
  <1>5. Open' = IF l.form = "field" /\ l.value = Empty THEN H \cup {n + 1} ELSE H
    BY <1>1, OpenNext DEF TypeOK
  <1>6. PICK x : x = [indent |-> l.indent, key |-> l.key]
    OBVIOUS
  <1>7. x \in Node /\ x.indent = lines'[n + 1].indent /\ x.key = lines'[n + 1].key
    BY <1>3, <1>6, Parts DEF Node
  <1>8. n + 1 \in Nat
    OBVIOUS
  <1>9. Nodes(Append(Popped(l), x), Append(InOrder(H), n + 1), lines')
    BY <1>2, <1>4, <1>7, <1>8, NodesAppend
  <1>10. CASE l.form = "field" /\ l.value = Empty
    <2>1. stack' = Append(Popped(l), x) /\ InOrder(Open') = Append(InOrder(H), n + 1)
      BY <1>4, <1>5, <1>6, <1>10
    <2>2. Append(Popped(l), x) \in Seq(Node)
      BY <1>2, <1>7
    <2>. QED
      BY <1>9, <2>1, <2>2 DEF StackIsOpen
  <1>11. CASE ~(l.form = "field" /\ l.value = Empty)
    <2>1. stack' = Popped(l) /\ Open' = H
      BY <1>5, <1>11
    <2>. QED
      BY <1>2, <2>1 DEF StackIsOpen
  <1>. QED
    BY <1>10, <1>11

\* A list of entries grows by the entry of the number that is added.
LEMMA MapAppend ==
    ASSUME NEW R, NEW n \in Nat, NEW F \in [1 .. n -> R], NEW G \in [1 .. n + 1 -> R],
           NEW v \in Seq(1 .. n), \A x \in DOMAIN v : G[v[x]] = F[v[x]]
    PROVE  /\ [x \in DOMAIN v |-> F[v[x]]] \in Seq(R)
           /\ [x \in DOMAIN v |-> G[v[x]]] = [x \in DOMAIN v |-> F[v[x]]]
           /\ [x \in DOMAIN Append(v, n + 1) |-> G[Append(v, n + 1)[x]]]
                = Append([x \in DOMAIN v |-> F[v[x]]], G[n + 1])
  <1>1. Len(v) \in Nat /\ DOMAIN v = 1 .. Len(v) /\ \A x \in DOMAIN v : v[x] \in 1 .. n
    OBVIOUS
  <1>2. PICK f : f = [x \in 1 .. Len(v) |-> F[v[x]]]
    OBVIOUS
  <1>3. f \in Seq(R) /\ Len(f) = Len(v)
    BY <1>1, <1>2
  <1>4. PICK w : w = Append(v, n + 1)
    OBVIOUS
  <1>5. /\ DOMAIN w = 1 .. Len(v) + 1 /\ w[Len(v) + 1] = n + 1
        /\ \A x \in 1 .. Len(v) : w[x] = v[x]
    BY <1>1, <1>4
  <1>6. PICK g : g = Append(f, G[n + 1])
    OBVIOUS
  <1>7. /\ G[n + 1] \in R /\ g \in Seq(R) /\ DOMAIN g = 1 .. Len(v) + 1
        /\ g[Len(v) + 1] = G[n + 1]
        /\ \A x \in 1 .. Len(v) : g[x] = f[x]
    <2>1. G[n + 1] \in R
      OBVIOUS
    <2>. QED
      BY <1>1, <1>3, <1>6, <2>1
  <1>8. ASSUME NEW x \in 1 .. Len(v) + 1
        PROVE  G[w[x]] = g[x]
    <2>1. CASE x \in 1 .. Len(v)
      BY <1>1, <1>2, <1>5, <1>7, <2>1
    <2>2. CASE x = Len(v) + 1
      BY <1>5, <1>7, <2>2
    <2>. QED
      BY <1>1, <2>1, <2>2
  <1>9. g = [x \in 1 .. Len(v) + 1 |-> G[w[x]]]
    BY <1>1, <1>7, <1>8
  <1>. QED
    BY <1>1, <1>2, <1>3, <1>4, <1>5, <1>6, <1>9

\* Whether a line has a place is not changed by the lines after it.
LEMMA PlaceKept ==
    ASSUME lines \in Seq(Line), NEW l \in Line, lines' = Append(lines, l),
           NEW i \in 1 .. Len(lines)
    PROVE  HasPlace(i)' <=> HasPlace(i)
  <1>1. lines'[i] = lines[i]
    BY LineAdded
  <1>2. PathOf(i)' = PathOf(i)
    BY PathKept
  <1>. QED
    BY <1>1, <1>2 DEF HasPlace, Parses

\* What is stored for the line, if it has a place.
LEMMA FieldsNext ==
    ASSUME TypeOK, reader = "definition", reader' = reader, StackIsOpen, StoredWhereNested,
           NEW l \in Line, lines' = Append(lines, l), NEW n \in Nat, n = Len(lines),
           NEW P, P = PathOf(n + 1)',
           fields' = IF HasPlace(n + 1)' THEN Append(fields, [path |-> P, value |-> l.value])
                     ELSE fields
    PROVE  StoredWhereNested' /\ fields' \in Seq(Field)
  <1>1. /\ DOMAIN lines = 1 .. n /\ DOMAIN lines' = 1 .. n + 1 /\ lines'[n + 1] = l
        /\ \A j \in 1 .. n : lines'[j] = lines[j] /\ lines[j] \in Line
        /\ lines \in Seq(Line)
    BY LineAdded DEF TypeOK
  <1>2. PICK V : V = Valued
    OBVIOUS
  <1>3. V \subseteq 1 .. n
    BY <1>1, <1>2 DEF Valued, Indexes
  <1>4. Valued' = IF HasPlace(n + 1)' THEN V \cup {n + 1} ELSE V
    <2>1. \A i \in 1 .. n : HasPlace(i)' <=> HasPlace(i)
      BY <1>1, PlaceKept
    <2>2. \A i \in 1 .. n + 1 : i \in 1 .. n \/ i = n + 1
      OBVIOUS
    <2>3. n + 1 \in 1 .. n + 1 /\ n + 1 \notin 1 .. n /\ \A i \in 1 .. n : i \in 1 .. n + 1
      OBVIOUS
    <2>4. Valued' = {i \in 1 .. n + 1 : HasPlace(i)'} /\ V = {i \in 1 .. n : HasPlace(i)}
      BY <1>1, <1>2 DEF Valued, Indexes
    <2>. QED
      BY <2>1, <2>2, <2>3, <2>4
  <1>5. PICK v : v = InOrder(V)
    OBVIOUS
  <1>6. v \in Seq(1 .. n) /\ InOrder(V \cup {n + 1}) = Append(v, n + 1)
    <2>1. v \in Seq(V)
      BY <1>3, <1>5, InOrderLists
    <2>2. InOrder(V \cup {n + 1}) = Append(v, n + 1)
      BY <1>3, <1>5, InOrderLists
    <2>. QED
      BY <1>3, <2>1, <2>2, SeqWider
  <1>7. PICK F : F = [i \in 1 .. n |-> [path |-> PathOf(i), value |-> lines[i].value]]
    OBVIOUS
  <1>8. PICK G : G = [i \in 1 .. n + 1 |-> [path |-> PathOf(i)', value |-> lines'[i].value]]
    OBVIOUS
  <1>9. \A i \in 1 .. n : G[i] = F[i]
    BY <1>1, <1>7, <1>8, PathKept
  <1>10. \A x \in DOMAIN v : v[x] \in 1 .. n /\ v[x] \in 1 .. n + 1 /\ G[v[x]] = F[v[x]]
    BY <1>6, <1>9
  <1>11. G[n + 1] = [path |-> P, value |-> l.value]
    BY <1>1, <1>8
  <1>12. fields = [x \in DOMAIN v |-> F[v[x]]]
    BY <1>2, <1>5, <1>7, <1>10 DEF StoredWhereNested
  <1>13. PICK R : R = {F[i] : i \in 1 .. n} \cup {G[i] : i \in 1 .. n + 1}
    OBVIOUS
  <1>14. F \in [1 .. n -> R] /\ G \in [1 .. n + 1 -> R]
    BY <1>7, <1>8, <1>13
  <1>15. /\ [x \in DOMAIN v |-> G[v[x]]] = fields
         /\ [x \in DOMAIN Append(v, n + 1) |-> G[Append(v, n + 1)[x]]] = Append(fields, G[n + 1])
    BY <1>6, <1>10, <1>12, <1>14, MapAppend
  <1>16. \A x \in DOMAIN Append(v, n + 1) : Append(v, n + 1)[x] \in 1 .. n + 1
    BY <1>6
  <1>17. HasPlace(n + 1)' => [path |-> P, value |-> l.value] \in Field
    <2>1. l.value \in Value
      BY Parts
    <2>2. HasPlace(n + 1)' => P \in ListPaths \cup ValuePaths
      BY DEF HasPlace
    <2>. QED
      BY <2>1, <2>2 DEF Field
  <1>18. CASE HasPlace(n + 1)'
    <2>1. fields' = Append(fields, G[n + 1]) /\ InOrder(Valued') = Append(v, n + 1)
      BY <1>4, <1>6, <1>11, <1>18
    <2>2. PICK w : w = Append(v, n + 1)
      OBVIOUS
    <2>3. fields' = [x \in DOMAIN w |-> [path |-> PathOf(w[x])', value |-> lines'[w[x]].value]]
      BY <1>8, <1>15, <1>16, <2>1, <2>2
    <2>4. StoredWhereNested'
      BY <2>1, <2>2, <2>3, Zenon DEF StoredWhereNested
    <2>5. fields' \in Seq(Field)
      BY <1>11, <1>17, <1>18, <2>1 DEF TypeOK
    <2>. QED
      BY <2>4, <2>5
  <1>19. CASE ~HasPlace(n + 1)'
    <2>1. fields' = fields /\ InOrder(Valued') = v
      BY <1>4, <1>5, <1>19
    <2>2. fields' = [x \in DOMAIN v |-> [path |-> PathOf(v[x])', value |-> lines'[v[x]].value]]
      BY <1>8, <1>10, <1>15, <2>1
    <2>3. StoredWhereNested'
      BY <2>1, <2>2, Zenon DEF StoredWhereNested
    <2>. QED
      BY <2>1, <2>3 DEF TypeOK
  <1>. QED
    BY <1>18, <1>19

\* A line of parseExpertDefinition keeps the stack and the values right.
LEMMA DefinitionStep ==
    ASSUME TypeOK, reader = "definition", reader' = reader, StackIsOpen, StoredWhereNested,
           NEW l \in Line, lines' = Append(lines, l), DefinitionLine(l)
    PROVE  TypeOK' /\ StackIsOpen' /\ StoredWhereNested'
  <1>1. PICK n \in Nat : n = Len(lines) /\ lines'[n + 1] = l /\ lines' \in Seq(Line)
    BY LineAdded DEF TypeOK
  <1>2. PICK nodes, q : nodes = Popped(l) /\ q = Keys(nodes)
    OBVIOUS
  <1>3. PICK P : P = PathOf(n + 1)' /\ P = Join(IF l.form = "item" THEN q ELSE Append(q, l.key))
    <2>1. PICK H : H = {k \in Indexes' : Holds(k, n + 1)'}
      OBVIOUS
    <2>. QED
      BY <1>1, <1>2, <2>1, NestedAt
  <1>4. HasPlace(n + 1)' <=>
          \/ l.form = "item" /\ P \in ListPaths
          \/ l.form = "field" /\ l.value # Empty /\ P \in ValuePaths /\ Parses(P, l.value)
    BY <1>1, <1>3 DEF HasPlace, Parses
  <1>5. P \in ListPaths => Parses(P, l.value)
    BY DEF ListPaths, Parses
  <1>6. UNCHANGED <<pc, in, out, current>>
    BY DEF DefinitionLine
  <1>7. stack' = IF l.form = "field" /\ l.value = Empty
                 THEN Append(nodes, [indent |-> l.indent, key |-> l.key]) ELSE nodes
    BY <1>2 DEF DefinitionLine
  <1>8. fields' = IF HasPlace(n + 1)' THEN Append(fields, [path |-> P, value |-> l.value])
                  ELSE fields
    <2>1. CASE l.form = "item"
      <3>1. fields' = IF P \in ListPaths /\ Parses(P, l.value)
                      THEN Append(fields, [path |-> P, value |-> l.value]) ELSE fields
        BY <1>2, <1>3, <2>1 DEF DefinitionLine, Store
      <3>. QED
        BY <1>3, <1>4, <1>5, <2>1, <3>1
    <2>2. CASE l.form = "field" /\ l.value = Empty
      BY <1>4, <2>2 DEF DefinitionLine
    <2>3. CASE l.form = "field" /\ l.value # Empty
      <3>1. P = Join(Append(q, l.key))
        BY <1>3, <2>3
      <3>2. fields' = IF P \in ValuePaths /\ Parses(P, l.value)
                      THEN Append(fields, [path |-> P, value |-> l.value]) ELSE fields
        BY <1>2, <2>3, <3>1 DEF DefinitionLine, Store
      <3>. QED
        BY <1>4, <2>3, <3>2
    <2>4. CASE l.form \notin {"item", "field"}
      BY <1>4, <2>4 DEF DefinitionLine
    <2>. QED
      BY <2>1, <2>2, <2>3, <2>4
  <1>9. StackIsOpen' /\ stack' \in Seq(Node)
    BY <1>2, <1>7, StackNext
  <1>10. StoredWhereNested' /\ fields' \in Seq(Field)
    BY <1>1, <1>3, <1>8, FieldsNext
  <1>. QED
    BY <1>1, <1>6, <1>9, <1>10 DEF TypeOK

-----------------------------------------------------------------------------
\* The value on the last line of a set of lines.
ValueAmong(T, file) == IF T = {} THEN Empty ELSE file[Max(T)].value

\* A later line leaves that value alone, unless it belongs to the set.
LEMMA ValueOfLines ==
    ASSUME lines \in Seq(Line), NEW l \in Line, lines' = Append(lines, l),
           NEW n \in Nat, n = Len(lines)
    PROVE  \A T \in SUBSET (1 .. n) : /\ ValueAmong(T, lines) \in Value
                                     /\ ValueAmong(T, lines') = ValueAmong(T, lines)
                                     /\ ValueAmong(T \cup {n + 1}, lines') = l.value
  <1>1. lines'[n + 1] = l /\ \A i \in 1 .. n : lines'[i] = lines[i] /\ lines[i] \in Line
    BY LineAdded
  <1>2. ASSUME NEW T \in SUBSET (1 .. n), T # {}
        PROVE  Max(T) \in 1 .. n
    <2>1. T \subseteq Nat /\ \A x \in T : x <= n
      OBVIOUS
    <2>2. Max(T) \in T
      BY <1>2, <2>1, MaxOfBounded
    <2>. QED
      BY <2>2
  <1>3. ASSUME NEW T \in SUBSET (1 .. n)
        PROVE  Max(T \cup {n + 1}) = n + 1
    <2>1. PICK U : U = T \cup {n + 1}
      OBVIOUS
    <2>2. n + 1 \in Nat /\ n + 1 \in U /\ \A x \in U : x \in 1 .. n + 1
      BY <2>1
    <2>3. U \subseteq Nat /\ \A x \in U : x <= n + 1
      BY <2>2
    <2>4. Max(U) = n + 1
      BY <2>2, <2>3, MaxOfNew
    <2>. QED
      BY <2>1, <2>4
  <1>4. ASSUME NEW T \in SUBSET (1 .. n)
        PROVE  /\ ValueAmong(T, lines) \in Value
               /\ ValueAmong(T, lines') = ValueAmong(T, lines)
               /\ ValueAmong(T \cup {n + 1}, lines') = l.value
    <2>1. ValueAmong(T, lines) \in Value
      BY <1>1, <1>2, Parts DEF ValueAmong, Value
    <2>2. ValueAmong(T, lines') = ValueAmong(T, lines)
      BY <1>1, <1>2 DEF ValueAmong
    <2>3. ValueAmong(T \cup {n + 1}, lines') = l.value
      BY <1>1, <1>3 DEF ValueAmong
    <2>. QED
      BY <2>1, <2>2, <2>3
  <1>. QED
    BY <1>4

\* Without a value a boolean is false.
LEMMA EmptyIsNotTrue == Empty # "true"
  BY Zenon DEF Empty

\* The keys of an entry.
EntryKeys == {"id", "req", "enabled"}

\* The entry with these values.
RefOf(id, req, enabled) == [id |-> id, req |-> req, enabled |-> enabled = "true"]

\* What a line with a key does to an entry.
LEMMA WithFieldIs ==
    ASSUME NEW id \in Value, NEW req \in Value, NEW enabled \in Value,
           NEW l \in Line, l.form \in {"item", "field"}
    PROVE  WithField(RefOf(id, req, enabled), l) =
             RefOf(IF l.key = "id" THEN l.value ELSE id,
                   IF l.key = "req" THEN l.value ELSE req,
                   IF l.key = "enabled" THEN l.value ELSE enabled)
  <1>1. CASE l.key = "id"
    BY <1>1 DEF WithField, RefOf
  <1>2. CASE l.key = "req"
    BY <1>2 DEF WithField, RefOf
  <1>3. CASE l.key = "enabled"
    BY <1>3 DEF WithField, RefOf
  <1>4. CASE l.key \notin {"id", "req", "enabled"}
    BY <1>4 DEF WithField, RefOf
  <1>. QED
    BY <1>1, <1>2, <1>3, <1>4

\* The entries are what their lines give.
LEMMA RefTypes ==
    /\ NewRef = RefOf(Empty, Empty, Empty) /\ NewRef \in Ref
    /\ \A id, req, enabled \in Value : RefOf(id, req, enabled) \in Ref
    /\ \A r \in Ref, l \in Line : WithField(r, l) \in Ref
  <1>1. NewRef = RefOf(Empty, Empty, Empty)
    BY EmptyIsNotTrue DEF NewRef, RefOf
  <1>2. \A id, req, enabled \in Value : RefOf(id, req, enabled) \in Ref
    BY DEF RefOf, Ref
  <1>3. Empty \in Value
    BY DEF Value
  <1>4. ASSUME NEW r \in Ref, NEW l \in Line
        PROVE  WithField(r, l) \in Ref
    <2>1. l.value \in Value
      BY Parts
    <2>2. /\ [r EXCEPT !.id = l.value] \in Ref /\ [r EXCEPT !.req = l.value] \in Ref
          /\ [r EXCEPT !.enabled = l.value = "true"] \in Ref
      BY <2>1 DEF Ref
    <2>. QED
      BY <2>2 DEF WithField
  <1>. QED
    BY <1>1, <1>2, <1>3, <1>4

\* The lines of an entry, and the entry, in terms of the above.
LEMMA EntryIs ==
    ASSUME NEW d
    PROVE  /\ LastValue(d, "id") = ValueAmong(Given(d, "id"), lines)
           /\ EntryOf(d) = RefOf(ValueAmong(Given(d, "id"), lines),
                                 ValueAmong(Given(d, "req"), lines),
                                 ValueAmong(Given(d, "enabled"), lines))
  BY Zenon DEF EntryOf, RefOf, LastValue, ValueAmong

\* A line that does not belong to an entry leaves it as it is; one that does
\* gives it its field.
LEMMA EntryNext ==
    ASSUME lines \in Seq(Line), NEW l \in Line, lines' = Append(lines, l),
           NEW n \in Nat, n = Len(lines), NEW d \in 1 .. n
    PROVE  /\ EntryOf(d) \in Ref
           /\ EntryLines(d)' = EntryLines(d) => EntryOf(d)' = EntryOf(d)
           /\ EntryLines(d)' = EntryLines(d) \cup {n + 1} /\ l.form \in {"item", "field"}
                => EntryOf(d)' = WithField(EntryOf(d), l)
  <1>1. /\ lines'[n + 1] = l /\ \A i \in 1 .. n : lines'[i] = lines[i]
    BY LineAdded
  <1>. \A T \in SUBSET (1 .. n) : /\ ValueAmong(T, lines) \in Value
                                  /\ ValueAmong(T, lines') = ValueAmong(T, lines)
                                  /\ ValueAmong(T \cup {n + 1}, lines') = l.value
    BY ValueOfLines
  <1>2. EntryLines(d) \subseteq 1 .. n
    BY DEF EntryLines
  <1>3. \A key \in EntryKeys : Given(d, key) \subseteq 1 .. n
    BY <1>2 DEF Given
  <1>4. "id" \in EntryKeys /\ "req" \in EntryKeys /\ "enabled" \in EntryKeys
    BY DEF EntryKeys
  <1>5. PICK a, b, c : a = ValueAmong(Given(d, "id"), lines) /\ b = ValueAmong(Given(d, "req"), lines)
                       /\ c = ValueAmong(Given(d, "enabled"), lines)
    OBVIOUS
  <1>6. a \in Value /\ b \in Value /\ c \in Value
    BY <1>3, <1>4, <1>5
  <1>7. EntryOf(d) = RefOf(a, b, c)
    BY <1>5, EntryIs
  <1>8. EntryOf(d)' = RefOf(ValueAmong(Given(d, "id")', lines'),
                            ValueAmong(Given(d, "req")', lines'),
                            ValueAmong(Given(d, "enabled")', lines'))
    BY Zenon DEF EntryOf, RefOf, LastValue, ValueAmong
  <1>9. ASSUME EntryLines(d)' = EntryLines(d)
        PROVE  EntryOf(d)' = EntryOf(d)
    <2>1. \A key \in EntryKeys : Given(d, key)' = Given(d, key)
      BY <1>1, <1>2, <1>9 DEF Given
    <2>2. ASSUME NEW key \in EntryKeys
          PROVE  ValueAmong(Given(d, key)', lines') = ValueAmong(Given(d, key), lines)
      <3>1. PICK T : T = Given(d, key) /\ T \subseteq 1 .. n
        BY <1>3
      <3>2. ValueAmong(T, lines') = ValueAmong(T, lines)
        BY <3>1
      <3>. QED
        BY <2>1, <3>1, <3>2
    <2>. QED
      BY <1>4, <1>5, <1>7, <1>8, <2>2
  <1>10. ASSUME EntryLines(d)' = EntryLines(d) \cup {n + 1}, l.form \in {"item", "field"}
         PROVE  EntryOf(d)' = WithField(EntryOf(d), l)
    <2>1. \A key \in EntryKeys :
             Given(d, key)' = IF l.key = key THEN Given(d, key) \cup {n + 1} ELSE Given(d, key)
      BY <1>1, <1>2, <1>10 DEF Given
    <2>2. ASSUME NEW key \in EntryKeys
          PROVE  ValueAmong(Given(d, key)', lines') =
                   IF l.key = key THEN l.value ELSE ValueAmong(Given(d, key), lines)
      <3>1. PICK T : T = Given(d, key) /\ T \subseteq 1 .. n
        BY <1>3
      <3>2. /\ ValueAmong(T, lines') = ValueAmong(T, lines)
            /\ ValueAmong(T \cup {n + 1}, lines') = l.value
        BY <3>1
      <3>3. Given(d, key)' = IF l.key = key THEN T \cup {n + 1} ELSE T
        BY <2>1, <3>1
      <3>. QED
        BY <3>1, <3>2, <3>3
    <2>3. EntryOf(d)' = RefOf(IF l.key = "id" THEN l.value ELSE a,
                              IF l.key = "req" THEN l.value ELSE b,
                              IF l.key = "enabled" THEN l.value ELSE c)
      BY <1>4, <1>5, <1>8, <2>2
    <2>. QED
      BY <1>6, <1>7, <1>10, <2>3, WithFieldIs
  <1>. QED
    BY <1>6, <1>7, <1>9, <1>10, RefTypes

\* The entry a dash begins has the field of the dash's line.
LEMMA EntryNew ==
    ASSUME lines \in Seq(Line), NEW l \in Line, lines' = Append(lines, l),
           NEW n \in Nat, n = Len(lines), EntryLines(n + 1)' = {n + 1}, l.form = "item"
    PROVE  EntryOf(n + 1)' = WithField(NewRef, l)
  <1>1. lines'[n + 1] = l
    BY LineAdded
  <1>2. EntryOf(n + 1)' = RefOf(ValueAmong(Given(n + 1, "id")', lines'),
                                ValueAmong(Given(n + 1, "req")', lines'),
                                ValueAmong(Given(n + 1, "enabled")', lines'))
    BY Zenon DEF EntryOf, RefOf, LastValue, ValueAmong
  <1>. \A T \in SUBSET (1 .. n) : ValueAmong(T \cup {n + 1}, lines') = l.value
    BY ValueOfLines
  <1>3. ASSUME NEW key \in EntryKeys
        PROVE  ValueAmong(Given(n + 1, key)', lines') = IF l.key = key THEN l.value ELSE Empty
    <2>1. Given(n + 1, key)' = IF l.key = key THEN {} \cup {n + 1} ELSE {}
      BY <1>1 DEF Given
    <2>2. ValueAmong({} \cup {n + 1}, lines') = l.value
      <3>1. {} \subseteq 1 .. n
        OBVIOUS
      <3>. QED
        BY <3>1
    <2>3. ValueAmong({}, lines') = Empty
      BY DEF ValueAmong
    <2>. QED
      BY <2>1, <2>2, <2>3
  <1>4. "id" \in EntryKeys /\ "req" \in EntryKeys /\ "enabled" \in EntryKeys /\ Empty \in Value
    BY DEF EntryKeys, Value
  <1>5. EntryOf(n + 1)' = RefOf(IF l.key = "id" THEN l.value ELSE Empty,
                                IF l.key = "req" THEN l.value ELSE Empty,
                                IF l.key = "enabled" THEN l.value ELSE Empty)
    BY <1>2, <1>3, <1>4
  <1>6. WithField(RefOf(Empty, Empty, Empty), l) =
             RefOf(IF l.key = "id" THEN l.value ELSE Empty,
                   IF l.key = "req" THEN l.value ELSE Empty,
                   IF l.key = "enabled" THEN l.value ELSE Empty)
    BY <1>4, WithFieldIs
  <1>. QED
    BY <1>5, <1>6, RefTypes

-----------------------------------------------------------------------------
\* The file is in the sequence: its key was read, and no line without
\* indentation since.
Inside ==
    \E k \in Indexes : IsListKey(k) /\ \A j \in k + 1 .. Len(lines) : lines[j].indent > 0

\* A file whose entries a reader sees, if it accepts it.
Plain ==
    /\ WellFormed
    /\ \A i \in Indexes :
         IsDash(i) => lines[i].indent > 0 /\ (reader = "agents" => lines[i].form = "item")

\* What a line is, is not changed by the lines after it.
LEMMA SequenceKept ==
    ASSUME lines \in Seq(Line), NEW l \in Line, lines' = Append(lines, l),
           NEW n \in Nat, n = Len(lines)
    PROVE  \A i \in 1 .. n : /\ IsListKey(i)' <=> IsListKey(i)
                             /\ IsDash(i)' <=> IsDash(i)
                             /\ InSequence(i)' <=> InSequence(i)
  <1>1. /\ DOMAIN lines = 1 .. n /\ DOMAIN lines' = 1 .. n + 1
        /\ \A j \in 1 .. n : lines'[j] = lines[j]
    BY LineAdded
  <1>2. \A i \in 1 .. n : (IsListKey(i)' <=> IsListKey(i)) /\ (IsDash(i)' <=> IsDash(i))
    BY <1>1 DEF IsListKey, IsDash
  <1>3. ASSUME NEW i \in 1 .. n
        PROVE  InSequence(i)' <=> InSequence(i)
    <2>1. \A k \in 1 .. n + 1 : k < i => k \in 1 .. n
      OBVIOUS
    <2>2. \A k \in 1 .. n : \A j \in k + 1 .. i : j \in 1 .. n
      OBVIOUS
    <2>3. ASSUME NEW k \in 1 .. n
          PROVE  (\A j \in k + 1 .. i : lines'[j].indent > 0 \/ IsDash(j)')
                   <=> (\A j \in k + 1 .. i : lines[j].indent > 0 \/ IsDash(j))
      BY <1>1, <1>2, <2>2
    <2>4. InSequence(i)' <=> \E k \in 1 .. n + 1 : /\ k < i /\ IsListKey(k)'
                                                 /\ \A j \in k + 1 .. i : lines'[j].indent > 0 \/ IsDash(j)'
      BY <1>1 DEF InSequence, Indexes
    <2>5. InSequence(i) <=> \E k \in 1 .. n : /\ k < i /\ IsListKey(k)
                                            /\ \A j \in k + 1 .. i : lines[j].indent > 0 \/ IsDash(j)
      BY <1>1 DEF InSequence, Indexes
    <2>6. \A k \in 1 .. n : k \in 1 .. n + 1
      OBVIOUS
    <2>. QED
      BY <1>2, <2>1, <2>3, <2>4, <2>5, <2>6
  <1>. QED
    BY <1>2, <1>3

\* A file that is plain with one more line was plain without it.
LEMMA PlainKept ==
    ASSUME lines \in Seq(Line), NEW l \in Line, lines' = Append(lines, l),
           NEW n \in Nat, n = Len(lines), reader' = reader, Plain'
    PROVE  /\ Plain /\ l.form # "text"
           /\ l.form \in {"item", "bare"} => l.indent > 0 /\ (reader = "agents" => l.form = "item")
           /\ \A j \in 1 .. n + 1 : IsDash(j)' => lines'[j].indent > 0
  <1>1. /\ Indexes = 1 .. n /\ Indexes' = 1 .. n + 1 /\ lines'[n + 1] = l
        /\ \A j \in 1 .. n : lines'[j] = lines[j] /\ j \in 1 .. n + 1
        /\ n + 1 \in 1 .. n + 1
    BY LineAdded DEF Indexes
  <1>2. \A i \in 1 .. n : (IsListKey(i)' <=> IsListKey(i)) /\ (IsDash(i)' <=> IsDash(i))
    BY SequenceKept
  <1>3. /\ \A i, j \in 1 .. n + 1 : IsListKey(i)' /\ IsListKey(j)' => i = j
        /\ \A i, j \in 1 .. n + 1 : IsDash(i)' /\ IsDash(j)' => lines'[i].indent = lines'[j].indent
        /\ \A i \in 1 .. n + 1 : lines'[i].form # "text"
    BY <1>1 DEF Plain, WellFormed
  <1>4. \A i \in 1 .. n + 1 :
           IsDash(i)' => lines'[i].indent > 0 /\ (reader = "agents" => lines'[i].form = "item")
    BY <1>1 DEF Plain
  <1>5. IsDash(n + 1)' <=> l.form \in {"item", "bare"}
    BY <1>1 DEF IsDash
  <1>6. WellFormed
    BY <1>1, <1>2, <1>3 DEF WellFormed
  <1>7. Plain
    BY <1>1, <1>2, <1>4, <1>6 DEF Plain
  <1>. QED
    BY <1>1, <1>3, <1>4, <1>5, <1>7

\* When the new line is part of the sequence, and when the next one may be.
LEMMA InsideNext ==
    ASSUME lines \in Seq(Line), NEW l \in Line, lines' = Append(lines, l),
           NEW n \in Nat, n = Len(lines), reader' = reader, Plain'
    PROVE  /\ InSequence(n + 1)' <=> Inside /\ l.indent > 0
           /\ Inside' <=> \/ l.indent = 0 /\ l.form = "field" /\ l.key = "list"
                          \/ Inside /\ l.indent > 0
  <1>1. /\ Indexes = 1 .. n /\ Indexes' = 1 .. n + 1 /\ lines'[n + 1] = l /\ Len(lines') = n + 1
        /\ \A j \in 1 .. n : lines'[j] = lines[j] /\ j \in 1 .. n + 1
        /\ n + 1 \in 1 .. n + 1
    BY LineAdded DEF Indexes
  <1>2. \A i \in 1 .. n : IsListKey(i)' <=> IsListKey(i)
    BY SequenceKept
  <1>3. \A j \in 1 .. n + 1 : IsDash(j)' => lines'[j].indent > 0
    BY PlainKept
  <1>4. ASSUME NEW k \in 1 .. n
        PROVE  (\A j \in k + 1 .. n + 1 : lines'[j].indent > 0)
                 <=> (\A j \in k + 1 .. n : lines[j].indent > 0) /\ l.indent > 0
    <2>1. \A j \in k + 1 .. n : j \in 1 .. n /\ j \in k + 1 .. n + 1
      OBVIOUS
    <2>2. n + 1 \in k + 1 .. n + 1 /\ \A j \in k + 1 .. n + 1 : j = n + 1 \/ j \in k + 1 .. n
      OBVIOUS
    <2>. QED
      BY <1>1, <2>1, <2>2
  <1>5. ASSUME NEW k \in 1 .. n
        PROVE  (\A j \in k + 1 .. n + 1 : lines'[j].indent > 0 \/ IsDash(j)')
                 <=> (\A j \in k + 1 .. n + 1 : lines'[j].indent > 0)
    <2>1. \A j \in k + 1 .. n + 1 : j \in 1 .. n + 1
      OBVIOUS
    <2>. QED
      BY <1>3, <2>1
  <1>6. \A k \in 1 .. n + 1 : k < n + 1 <=> k \in 1 .. n
    OBVIOUS
  <1>7. InSequence(n + 1)' <=>
           \E k \in 1 .. n + 1 : /\ k < n + 1 /\ IsListKey(k)'
                                 /\ \A j \in k + 1 .. n + 1 : lines'[j].indent > 0 \/ IsDash(j)'
    BY <1>1 DEF InSequence
  <1>8. Inside <=> \E k \in 1 .. n : IsListKey(k) /\ \A j \in k + 1 .. n : lines[j].indent > 0
    BY <1>1 DEF Inside
  <1>9. Inside' <=>
           \E k \in 1 .. n + 1 : IsListKey(k)' /\ \A j \in k + 1 .. n + 1 : lines'[j].indent > 0
    BY <1>1 DEF Inside
  <1>10. IsListKey(n + 1)' <=> l.indent = 0 /\ l.form = "field" /\ l.key = "list"
    BY <1>1 DEF IsListKey
  <1>11. \A j \in n + 1 + 1 .. n + 1 : FALSE
    OBVIOUS
  <1>12. InSequence(n + 1)' <=> Inside /\ l.indent > 0
    <2>1. InSequence(n + 1)' <=>
             \E k \in 1 .. n : IsListKey(k)' /\ \A j \in k + 1 .. n + 1 : lines'[j].indent > 0 \/ IsDash(j)'
      BY <1>1, <1>6, <1>7
    <2>2. InSequence(n + 1)' <=>
             \E k \in 1 .. n : IsListKey(k) /\ \A j \in k + 1 .. n + 1 : lines'[j].indent > 0
      BY <1>2, <1>5, <2>1
    <2>. QED
      BY <1>4, <1>8, <2>2
  <1>13. \A k \in 1 .. n + 1 : k \in 1 .. n \/ k = n + 1
    OBVIOUS
  <1>14. Inside' <=> \/ IsListKey(n + 1)'
                     \/ \E k \in 1 .. n : IsListKey(k)' /\ \A j \in k + 1 .. n + 1 : lines'[j].indent > 0
    BY <1>1, <1>9, <1>11, <1>13
  <1>15. Inside' <=> IsListKey(n + 1)' \/ (Inside /\ l.indent > 0)
    BY <1>2, <1>4, <1>8, <1>14
  <1>. QED
    BY <1>10, <1>12, <1>15

\* The dashes of the sequence after the line.
LEMMA DashesNext ==
    ASSUME lines \in Seq(Line), NEW l \in Line, lines' = Append(lines, l),
           NEW n \in Nat, n = Len(lines)
    PROVE  /\ Dashes \subseteq 1 .. n
           /\ Dashes' = IF l.form \in {"item", "bare"} /\ InSequence(n + 1)'
                        THEN Dashes \cup {n + 1} ELSE Dashes
  <1>1. /\ Indexes = 1 .. n /\ Indexes' = 1 .. n + 1 /\ lines'[n + 1] = l
    BY LineAdded DEF Indexes
  <1>2. \A i \in 1 .. n : (IsDash(i)' <=> IsDash(i)) /\ (InSequence(i)' <=> InSequence(i))
    BY SequenceKept
  <1>3. IsDash(n + 1)' <=> l.form \in {"item", "bare"}
    BY <1>1 DEF IsDash
  <1>4. /\ Dashes = {i \in 1 .. n : IsDash(i) /\ InSequence(i)}
        /\ Dashes' = {i \in 1 .. n + 1 : IsDash(i)' /\ InSequence(i)'}
    BY <1>1 DEF Dashes
  <1>5. /\ \A i \in 1 .. n + 1 : i \in 1 .. n \/ i = n + 1
        /\ \A i \in 1 .. n : i \in 1 .. n + 1 /\ i # n + 1
        /\ n + 1 \in 1 .. n + 1
    OBVIOUS
  <1>. QED
    BY <1>2, <1>3, <1>4, <1>5

\* The lines of the entries after the line.
LEMMA EntryLinesNext ==
    ASSUME lines \in Seq(Line), NEW l \in Line, lines' = Append(lines, l),
           NEW n \in Nat, n = Len(lines)
    PROVE  /\ \A d \in 1 .. n :
                EntryLines(d)' = IF InSequence(n + 1)' /\ \A j \in d + 1 .. n + 1 : ~IsDash(j)'
                                 THEN EntryLines(d) \cup {n + 1} ELSE EntryLines(d)
           /\ InSequence(n + 1)' => EntryLines(n + 1)' = {n + 1}
  <1>1. Len(lines') = n + 1
    BY LineAdded
  <1>2. \A i \in 1 .. n : (IsDash(i)' <=> IsDash(i)) /\ (InSequence(i)' <=> InSequence(i))
    BY SequenceKept
  <1>3. ASSUME NEW d \in 1 .. n
        PROVE  EntryLines(d)' = IF InSequence(n + 1)' /\ \A j \in d + 1 .. n + 1 : ~IsDash(j)'
                                THEN EntryLines(d) \cup {n + 1} ELSE EntryLines(d)
    <2>1. /\ EntryLines(d) = {i \in d .. n : InSequence(i) /\ \A j \in d + 1 .. i : ~IsDash(j)}
          /\ EntryLines(d)' = {i \in d .. n + 1 : InSequence(i)' /\ \A j \in d + 1 .. i : ~IsDash(j)'}
      BY <1>1 DEF EntryLines
    <2>2. /\ \A i \in d .. n + 1 : i \in d .. n \/ i = n + 1
          /\ \A i \in d .. n : i \in 1 .. n /\ i \in d .. n + 1 /\ i # n + 1
          /\ n + 1 \in d .. n + 1
          /\ \A i \in d .. n : \A j \in d + 1 .. i : j \in 1 .. n
      OBVIOUS
    <2>3. \A i \in d .. n : (\A j \in d + 1 .. i : ~IsDash(j)') <=> (\A j \in d + 1 .. i : ~IsDash(j))
      BY <1>2, <2>2
    <2>. QED
      BY <1>2, <2>1, <2>2, <2>3
  <1>4. EntryLines(n + 1)' = {i \in n + 1 .. n + 1 : InSequence(i)' /\ \A j \in n + 1 + 1 .. i : ~IsDash(j)'}
    BY <1>1 DEF EntryLines
  <1>5. /\ \A i \in n + 1 .. n + 1 : i = n + 1
        /\ n + 1 \in n + 1 .. n + 1 /\ \A j \in n + 1 + 1 .. n + 1 : FALSE
    OBVIOUS
  <1>6. InSequence(n + 1)' => EntryLines(n + 1)' = {n + 1}
    BY <1>4, <1>5
  <1>. QED
    BY <1>3, <1>6

\* After the last dash of a sequence that goes on there are no more dashes.
LEMMA LastDash ==
    ASSUME lines \in Seq(Line), NEW n \in Nat, n = Len(lines), Plain, Inside,
           NEW d \in Dashes, \A e \in Dashes : e <= d
    PROVE  \A j \in d + 1 .. n : ~IsDash(j)
  <1>1. Indexes = 1 .. n
    BY DEF Indexes
  <1>2. PICK k \in 1 .. n : IsListKey(k) /\ \A j \in k + 1 .. n : lines[j].indent > 0
    BY <1>1 DEF Inside
  <1>3. PICK c \in 1 .. n : c < d /\ IsListKey(c)
    BY <1>1 DEF Dashes, InSequence
  <1>4. c = k /\ k < d /\ d \in 1 .. n
    BY <1>1, <1>2, <1>3 DEF Plain, WellFormed, Dashes
  <1>5. SUFFICES ASSUME NEW j \in d + 1 .. n, IsDash(j)
                 PROVE  FALSE
    OBVIOUS
  <1>6. j \in 1 .. n /\ k < j /\ j > d /\ \A i \in k + 1 .. j : i \in k + 1 .. n
    BY <1>4
  <1>7. \A i \in k + 1 .. j : lines[i].indent > 0 \/ IsDash(i)
    BY <1>2, <1>6
  <1>8. InSequence(j)
    BY <1>1, <1>2, <1>6, <1>7 DEF InSequence
  <1>9. j \in Dashes
    BY <1>1, <1>5, <1>6, <1>8 DEF Dashes
  <1>. QED
    BY <1>4, <1>6, <1>9

\* The entries before (F) and after the line (G), by their dashes (v).
EntriesAre(v, F, G, n) ==
    /\ v \in Seq(1 .. n) /\ F \in [1 .. n -> Ref]
    /\ Ascends(v) /\ \A x \in DOMAIN v : v[x] \in Dashes
    /\ \A e \in Dashes : \E x \in DOMAIN v : v[x] = e
    /\ \A i \in 1 .. n : F[i] = EntryOf(i) /\ F[i] \in Ref
    /\ G = [i \in 1 .. n + 1 |-> G[i]] /\ \A i \in 1 .. n + 1 : G[i] = EntryOf(i)'
    /\ Meaning = [x \in DOMAIN v |-> F[v[x]]]
    /\ Dashes' = Dashes => Meaning' = [x \in DOMAIN v |-> G[v[x]]]
    /\ Dashes' = Dashes \cup {n + 1} =>
         Meaning' = [x \in DOMAIN Append(v, n + 1) |-> G[Append(v, n + 1)[x]]]

\* There are such functions.
LEMMA MeaningIs ==
    ASSUME lines \in Seq(Line), NEW l \in Line, lines' = Append(lines, l),
           NEW n \in Nat, n = Len(lines)
    PROVE  \E v, F, G : EntriesAre(v, F, G, n)
  <1>1. Dashes \subseteq 1 .. n
    BY DashesNext
  <1>2. PICK D, v : D = Dashes /\ v = InOrder(D)
    OBVIOUS
  <1>3. /\ v \in Seq(D) /\ Ascends(v) /\ \A x \in DOMAIN v : v[x] \in D
        /\ \A e \in D : \E x \in DOMAIN v : v[x] = e
        /\ InOrder(D \cup {n + 1}) = Append(v, n + 1)
    <2>1. Lists(v, D) /\ \A x \in DOMAIN v : v[x] \in D
      BY <1>1, <1>2, InOrderLists
    <2>2. InOrder(D \cup {n + 1}) = Append(v, n + 1)
      BY <1>1, <1>2, InOrderLists
    <2>. QED
      BY <2>1, <2>2 DEF Lists
  <1>4. v \in Seq(1 .. n)
    BY <1>1, <1>2, <1>3, SeqWider
  <1>5. PICK w : w = Append(v, n + 1)
    OBVIOUS
  <1>6. \A x \in DOMAIN v : v[x] \in 1 .. n
    BY <1>1, <1>2, <1>3
  <1>7. \A x \in DOMAIN w : w[x] \in 1 .. n + 1
    <2>1. PICK k \in Nat : k = Len(v)
      BY <1>4
    <2>2. /\ DOMAIN v = 1 .. k /\ DOMAIN w = 1 .. k + 1 /\ w[k + 1] = n + 1
          /\ \A x \in 1 .. k : w[x] = v[x]
      BY <1>4, <1>5, <2>1
    <2>3. \A x \in 1 .. k + 1 : x \in 1 .. k \/ x = k + 1
      OBVIOUS
    <2>4. n + 1 \in 1 .. n + 1 /\ \A y \in 1 .. n : y \in 1 .. n + 1
      OBVIOUS
    <2>5. \A x \in 1 .. k : w[x] \in 1 .. n
      BY <1>6, <2>2
    <2>. QED
      BY <2>2, <2>3, <2>4, <2>5
  <1>8. \A i \in 1 .. n : EntryOf(i) \in Ref
    BY EntryNext
  <1>9. PICK F \in [1 .. n -> Ref] : \A i \in 1 .. n : F[i] = EntryOf(i)
    <2>1. [i \in 1 .. n |-> EntryOf(i)] \in [1 .. n -> Ref]
      BY <1>8
    <2>. QED
      BY <2>1
  <1>10. PICK G : G = [i \in 1 .. n + 1 |-> G[i]] /\ \A i \in 1 .. n + 1 : G[i] = EntryOf(i)'
    <2>1. PICK H : H = [i \in 1 .. n + 1 |-> EntryOf(i)']
      OBVIOUS
    <2>. QED
      BY <2>1
  <1>11. Meaning = [x \in DOMAIN v |-> F[v[x]]]
    <2>1. Meaning = [x \in DOMAIN v |-> EntryOf(v[x])]
      BY <1>2, Zenon DEF Meaning
    <2>. QED
      BY <1>6, <1>9, <2>1
  <1>12. ASSUME NEW u, InOrder(Dashes') = u, \A x \in DOMAIN u : u[x] \in 1 .. n + 1
         PROVE  Meaning' = [x \in DOMAIN u |-> G[u[x]]]
    <2>1. Meaning' = [x \in DOMAIN u |-> EntryOf(u[x])']
      BY <1>12, Zenon DEF Meaning
    <2>. QED
      BY <1>10, <1>12, <2>1
  <1>13. Dashes' = Dashes => Meaning' = [x \in DOMAIN v |-> G[v[x]]]
    <2>1. HAVE Dashes' = Dashes
    <2>2. InOrder(Dashes') = v
      BY <1>2, <2>1
    <2>3. \A x \in DOMAIN v : v[x] \in 1 .. n + 1
      BY <1>6
    <2>. QED
      BY <1>12, <2>2, <2>3
  <1>14. Dashes' = Dashes \cup {n + 1} => Meaning' = [x \in DOMAIN w |-> G[w[x]]]
    <2>1. HAVE Dashes' = Dashes \cup {n + 1}
    <2>2. InOrder(Dashes') = w
      BY <1>2, <1>3, <1>5, <2>1
    <2>. QED
      BY <1>7, <1>12, <2>2
  <1>15. EntriesAre(v, F, G, n)
    BY <1>2, <1>3, <1>4, <1>5, <1>8, <1>9, <1>10, <1>11, <1>13, <1>14 DEF EntriesAre
  <1>. QED
    BY <1>15

\* A line that is not part of the sequence changes no entry.
LEMMA MeaningSame ==
    ASSUME lines \in Seq(Line), NEW l \in Line, lines' = Append(lines, l),
           NEW n \in Nat, n = Len(lines), ~InSequence(n + 1)'
    PROVE  Meaning' = Meaning
  <1>1. PICK v, F, G : EntriesAre(v, F, G, n)
    BY MeaningIs
  <1>2. Dashes' = Dashes
    BY DashesNext
  <1>3. /\ v \in Seq(1 .. n) /\ Meaning = [x \in DOMAIN v |-> F[v[x]]]
        /\ Meaning' = [x \in DOMAIN v |-> G[v[x]]]
    BY <1>1, <1>2 DEF EntriesAre
  <1>4. ASSUME NEW i \in 1 .. n
        PROVE  EntryOf(i)' = EntryOf(i)
    <2>1. EntryLines(i)' = EntryLines(i)
      BY EntryLinesNext
    <2>. QED
      BY <2>1, EntryNext
  <1>5. \A i \in 1 .. n : G[i] = F[i]
    BY <1>1, <1>4 DEF EntriesAre
  <1>6. \A x \in DOMAIN v : v[x] \in 1 .. n
    BY <1>3
  <1>7. \A x \in DOMAIN v : G[v[x]] = F[v[x]]
    BY <1>5, <1>6
  <1>. QED
    BY <1>3, <1>7

\* An item of the sequence adds an entry, with the field of its line.
LEMMA MeaningItem ==
    ASSUME lines \in Seq(Line), NEW l \in Line, lines' = Append(lines, l),
           NEW n \in Nat, n = Len(lines), InSequence(n + 1)', l.form = "item"
    PROVE  Meaning' = Append(Meaning, WithField(NewRef, l))
  <1>1. PICK v, F, G : EntriesAre(v, F, G, n)
    BY MeaningIs
  <1>2. Dashes' = Dashes \cup {n + 1}
    BY DashesNext
  <1>3. /\ v \in Seq(1 .. n) /\ Meaning = [x \in DOMAIN v |-> F[v[x]]] /\ F \in [1 .. n -> Ref]
        /\ Meaning' = [x \in DOMAIN Append(v, n + 1) |-> G[Append(v, n + 1)[x]]]
    BY <1>1, <1>2 DEF EntriesAre
  <1>4. IsDash(n + 1)'
    BY LineAdded DEF IsDash
  <1>5. ASSUME NEW i \in 1 .. n
        PROVE  EntryOf(i)' = EntryOf(i)
    <2>1. n + 1 \in i + 1 .. n + 1
      OBVIOUS
    <2>2. EntryLines(i)' = EntryLines(i)
      BY <1>4, <2>1, EntryLinesNext
    <2>. QED
      BY <2>2, EntryNext
  <1>6. EntryOf(n + 1)' = WithField(NewRef, l)
    <2>1. EntryLines(n + 1)' = {n + 1}
      BY EntryLinesNext
    <2>. QED
      BY <2>1, EntryNew
  <1>7. G[n + 1] = WithField(NewRef, l) /\ \A i \in 1 .. n : G[i] = F[i]
    <2>1. /\ \A i \in 1 .. n : F[i] = EntryOf(i)
          /\ \A i \in 1 .. n + 1 : G[i] = EntryOf(i)'
      BY <1>1 DEF EntriesAre
    <2>2. n + 1 \in 1 .. n + 1 /\ \A i \in 1 .. n : i \in 1 .. n + 1
      OBVIOUS
    <2>. QED
      BY <1>5, <1>6, <2>1, <2>2
  <1>8. G \in [1 .. n + 1 -> Ref]
    <2>1. \A i \in 1 .. n + 1 : i \in 1 .. n \/ i = n + 1
      OBVIOUS
    <2>2. \A i \in 1 .. n + 1 : G[i] \in Ref
      BY <1>3, <1>7, <2>1, RefTypes
    <2>3. G = [i \in 1 .. n + 1 |-> G[i]]
      BY <1>1 DEF EntriesAre
    <2>. QED
      BY <2>2, <2>3
  <1>9. \A x \in DOMAIN v : G[v[x]] = F[v[x]]
    BY <1>3, <1>7
  <1>. QED
    BY <1>3, <1>7, <1>8, <1>9, MapAppend

\* A field of the sequence is one of the last entry.
LEMMA MeaningField ==
    ASSUME lines \in Seq(Line), NEW l \in Line, lines' = Append(lines, l),
           NEW n \in Nat, n = Len(lines), InSequence(n + 1)', l.form = "field",
           Plain, Inside, NEW o \in Seq(Ref), NEW c \in Ref, Meaning = Append(o, c)
    PROVE  Meaning' = Append(o, WithField(c, l))
  <1>1. PICK v, F, G : EntriesAre(v, F, G, n)
    BY MeaningIs
  <1>2. Dashes' = Dashes /\ Dashes \subseteq 1 .. n
    BY DashesNext
  <1>3. /\ v \in Seq(1 .. n) /\ Ascends(v) /\ \A x \in DOMAIN v : v[x] \in Dashes
        /\ Meaning = [x \in DOMAIN v |-> F[v[x]]] /\ Meaning' = [x \in DOMAIN v |-> G[v[x]]]
        /\ \A e \in Dashes : \E x \in DOMAIN v : v[x] = e
    BY <1>1, <1>2 DEF EntriesAre
  <1>4. PICK m \in Nat : m = Len(o) + 1 /\ m > 0
    OBVIOUS
  <1>. PICK q : q = Append(o, c)
    OBVIOUS
  <1>5. /\ q = Meaning /\ DOMAIN q = 1 .. m /\ q[m] = c
        /\ \A x \in 1 .. m : x < m => q[x] = o[x]
    BY <1>4
  <1>6. /\ DOMAIN v = 1 .. m /\ F[v[m]] = c /\ m \in 1 .. m
        /\ \A x \in 1 .. m : x < m => F[v[x]] = o[x]
    <2>1. q = [x \in DOMAIN v |-> F[v[x]]]
      BY <1>3, <1>5
    <2>2. DOMAIN q = DOMAIN v /\ \A x \in DOMAIN v : q[x] = F[v[x]]
      BY <2>1
    <2>3. m \in 1 .. m
      BY <1>4
    <2>. QED
      BY <1>5, <2>2, <2>3
  <1>7. \A x \in 1 .. m : v[x] \in 1 .. n /\ v[x] \in Dashes
    BY <1>2, <1>3, <1>6
  <1>8. \A e \in Dashes : e <= v[m]
    <2>1. TAKE e \in Dashes
    <2>2. PICK x \in 1 .. m : v[x] = e
      BY <1>3, <1>6
    <2>3. x < m => v[x] < v[m]
      BY <1>3, <1>6 DEF Ascends
    <2>. QED
      BY <1>6, <1>7, <2>2, <2>3
  <1>9. \A j \in v[m] + 1 .. n : ~IsDash(j)
    BY <1>6, <1>7, <1>8, LastDash
  <1>10. /\ \A i \in 1 .. n : IsDash(i)' <=> IsDash(i)
         /\ ~IsDash(n + 1)'
    BY SequenceKept, LineAdded DEF IsDash
  <1>11. G[v[m]] = WithField(c, l)
    <2>1. \A j \in v[m] + 1 .. n + 1 : ~IsDash(j)'
      <3>1. \A j \in v[m] + 1 .. n + 1 : j = n + 1 \/ (j \in v[m] + 1 .. n /\ j \in 1 .. n)
        BY <1>6, <1>7
      <3>. QED
        BY <1>9, <1>10, <3>1
    <2>2. PICK d \in 1 .. n : d = v[m]
      BY <1>6, <1>7
    <2>3. EntryLines(d)' = EntryLines(d) \cup {n + 1}
      BY <2>1, <2>2, EntryLinesNext
    <2>4. EntryOf(d)' = WithField(EntryOf(d), l)
      BY <2>3, EntryNext
    <2>5. G[d] = EntryOf(d)' /\ F[d] = EntryOf(d)
      <3>1. d \in 1 .. n + 1
        OBVIOUS
      <3>. QED
        BY <1>1, <3>1 DEF EntriesAre
    <2>. QED
      BY <1>6, <2>2, <2>4, <2>5
  <1>12. ASSUME NEW x \in 1 .. m, x < m
         PROVE  G[v[x]] = o[x]
    <2>1. PICK d \in 1 .. n : d = v[x]
      BY <1>7
    <2>2. v[x] < v[m] /\ v[m] \in 1 .. n /\ IsDash(v[m])
      BY <1>3, <1>6, <1>7, <1>12 DEF Ascends, Dashes
    <2>3. v[m] \in d + 1 .. n + 1 /\ IsDash(v[m])'
      BY <1>10, <2>1, <2>2
    <2>4. EntryLines(d)' = EntryLines(d)
      BY <2>3, EntryLinesNext
    <2>5. EntryOf(d)' = EntryOf(d)
      BY <2>4, EntryNext
    <2>6. G[d] = F[d]
      BY <1>1, <2>5 DEF EntriesAre
    <2>. QED
      BY <1>6, <1>12, <2>1, <2>6
  <1>13. PICK g : g = Append(o, WithField(c, l))
    OBVIOUS
  <1>14. /\ DOMAIN g = 1 .. m /\ g[m] = WithField(c, l) /\ g \in Seq(Ref)
         /\ \A x \in 1 .. m : x < m => g[x] = o[x]
    <2>1. WithField(c, l) \in Ref
      BY RefTypes
    <2>. QED
      BY <1>4, <1>13, <2>1
  <1>15. \A x \in 1 .. m : G[v[x]] = g[x]
    <2>1. \A x \in 1 .. m : x = m \/ x < m
      BY <1>4
    <2>. QED
      BY <1>11, <1>12, <1>14, <2>1
  <1>16. g = [x \in 1 .. m |-> G[v[x]]]
    BY <1>4, <1>14, <1>15
  <1>. QED
    BY <1>3, <1>6, <1>13, <1>16

-----------------------------------------------------------------------------
\* A registry has entries only if an indented item of its file began one.
EntriesFromItems ==
    pc = "reading" /\ reader # "definition" /\ Flushed # <<>> =>
        \E i \in Indexes : lines[i].form = "item" /\ lines[i].indent > 0

\* While a plain registry is read, the reader knows whether it is in the
\* sequence, and has the entries of the lines so far.
ReadAsWritten ==
    pc = "reading" /\ reader # "definition" /\ Plain => (in <=> Inside) /\ Flushed = Meaning

\* What a line of a registry does, in one of four cases or not at all.
LEMMA RegistryLine ==
    ASSUME TypeOK, NEW l \in Line, reader # "definition", ReadLine(l), pc' = "reading"
    PROVE  /\ pc = "reading" /\ lines' = Append(lines, l) /\ reader' = reader
           /\ UNCHANGED <<stack, fields>>
           /\ \/ /\ l.indent = 0 /\ UNCHANGED <<out, current>>
                 /\ in' <=> l.form = "field" /\ l.key = "list"
              \/ l.indent > 0 /\ ~in /\ UNCHANGED <<in, out, current>>
              \/ /\ l.indent > 0 /\ in /\ l.form = "item" /\ in' = in
                 /\ out' = Flushed /\ current' = WithField(NewRef, l)
              \/ /\ l.indent > 0 /\ in /\ l.form # "item" /\ in' = in
                 /\ current # NoRef /\ ~Refuses(l)
                 /\ out' = out /\ current' = WithField(current, l)
  <1>1. /\ pc = "reading" /\ lines' = Append(lines, l) /\ reader' = reader
        /\ UNCHANGED <<stack, fields>>
        /\ TopLine(l) \/ SkippedLine(l) \/ ItemLine(l) \/ FieldLine(l)
    BY DEF ReadLine
  <1>2. CASE TopLine(l)
    BY <1>1, <1>2 DEF TopLine, Reject
  <1>3. CASE SkippedLine(l)
    BY <1>1, <1>3 DEF SkippedLine
  <1>4. CASE ItemLine(l)
    BY <1>1, <1>4 DEF ItemLine, Reject
  <1>5. CASE FieldLine(l)
    BY <1>1, <1>5 DEF FieldLine, Reject
  <1>. QED
    BY <1>1, <1>2, <1>3, <1>4, <1>5

\* The entries so far, with and without an open one.
LEMMA FlushedIs ==
    ASSUME TypeOK
    PROVE  /\ Flushed \in Seq(Ref)
           /\ current = NoRef => Flushed = out
           /\ current # NoRef => current \in Ref /\ Flushed = Append(out, current) /\ Flushed # <<>>
  <1>1. out \in Seq(Ref) /\ current \in Ref \cup {NoRef}
    BY DEF TypeOK
  <1>2. CASE current = NoRef
    BY <1>1, <1>2 DEF Flushed
  <1>3. CASE current # NoRef
    <2>1. current \in Ref /\ Flushed = Append(out, current)
      BY <1>1, <1>3 DEF Flushed
    <2>2. Append(out, current) \in Seq(Ref) /\ Append(out, current) # <<>>
      BY <1>1, <2>1
    <2>. QED
      BY <1>3, <2>1, <2>2
  <1>. QED
    BY <1>2, <1>3

\* A line of a registry leaves every variable in its type.
LEMMA RegistryTypes ==
    ASSUME TypeOK, NEW l \in Line, reader # "definition", ReadLine(l)
    PROVE  TypeOK'
  <1>1. /\ lines' \in Seq(Line) /\ reader' \in {"experts", "agents", "definition"}
        /\ stack' \in Seq(Node) /\ fields' \in Seq(Field)
        /\ TopLine(l) \/ SkippedLine(l) \/ ItemLine(l) \/ FieldLine(l)
        /\ pc = "reading"
    BY LineAdded DEF TypeOK, ReadLine
  <1>2. /\ in \in BOOLEAN /\ out \in Seq(Ref) /\ current \in Ref \cup {NoRef}
    BY DEF TypeOK
  <1>3. Flushed \in Seq(Ref)
    BY FlushedIs
  <1>4. WithField(NewRef, l) \in Ref /\ (current # NoRef => WithField(current, l) \in Ref)
    BY <1>2, RefTypes
  <1>5. /\ pc' \in {"reading", "loaded", "rejected"} /\ in' \in BOOLEAN
        /\ out' \in Seq(Ref) /\ current' \in Ref \cup {NoRef}
    <2>1. CASE TopLine(l)
      BY <1>1, <1>2, <2>1 DEF TopLine, Reject
    <2>2. CASE SkippedLine(l)
      BY <1>1, <1>2, <2>2 DEF SkippedLine
    <2>3. CASE ItemLine(l)
      BY <1>1, <1>2, <1>3, <1>4, <2>3 DEF ItemLine, Reject
    <2>4. CASE FieldLine(l)
      BY <1>1, <1>2, <1>4, <2>4 DEF FieldLine, Reject
    <2>. QED
      BY <1>1, <2>1, <2>2, <2>3, <2>4
  <1>. QED
    BY <1>1, <1>5 DEF TypeOK

\* A line of a registry keeps EntriesFromItems: only an item adds an entry.
LEMMA ItemsStep ==
    ASSUME TypeOK, NEW l \in Line, reader # "definition", ReadLine(l), EntriesFromItems
    PROVE  EntriesFromItems'
  <1>1. SUFFICES ASSUME pc' = "reading", Flushed' # <<>>
                 PROVE  \E i \in Indexes' : lines'[i].form = "item" /\ lines'[i].indent > 0
    BY DEF EntriesFromItems
  <1>2. pc = "reading" /\ lines' = Append(lines, l)
    BY <1>1, RegistryLine
  <1>3. PICK n \in Nat : n = Len(lines)
    BY LineAdded DEF TypeOK
  <1>4. /\ Indexes = 1 .. n /\ Indexes' = 1 .. n + 1 /\ lines'[n + 1] = l
        /\ n + 1 \in 1 .. n + 1 /\ \A i \in 1 .. n : lines'[i] = lines[i] /\ i \in 1 .. n + 1
    BY <1>2, <1>3, LineAdded DEF TypeOK, Indexes
  <1>5. CASE l.form = "item" /\ l.indent > 0
    BY <1>4, <1>5
  <1>6. CASE ~(l.form = "item" /\ l.indent > 0)
    <2>1. Flushed # <<>>
      <3>1. UNCHANGED <<out, current>> \/ current # NoRef
        BY <1>1, <1>6, RegistryLine
      <3>2. UNCHANGED <<out, current>> => Flushed' = Flushed
        BY DEF Flushed
      <3>. QED
        BY <1>1, <3>1, <3>2, FlushedIs
    <2>2. PICK i \in Indexes : lines[i].form = "item" /\ lines[i].indent > 0
      BY <1>2, <2>1 DEF EntriesFromItems
    <2>. QED
      BY <1>4, <2>2
  <1>. QED
    BY <1>5, <1>6

\* A line of a registry keeps ReadAsWritten: each line does to the entries
\* what it means.
LEMMA ReadStep ==
    ASSUME TypeOK, NEW l \in Line, reader # "definition", ReadLine(l), ReadAsWritten
    PROVE  ReadAsWritten'
  <1>1. SUFFICES ASSUME pc' = "reading", Plain'
                 PROVE  (in' <=> Inside') /\ Flushed' = Meaning'
    BY DEF ReadAsWritten
  <1>2. pc = "reading" /\ lines' = Append(lines, l) /\ reader' = reader /\ lines \in Seq(Line)
    BY <1>1, RegistryLine DEF TypeOK
  <1>3. PICK n \in Nat : n = Len(lines)
    BY <1>2, LineAdded
  <1>4. /\ Plain /\ l.form # "text"
        /\ l.form \in {"item", "bare"} => l.indent > 0 /\ (reader = "agents" => l.form = "item")
    BY <1>1, <1>2, <1>3, PlainKept
  <1>5. (in <=> Inside) /\ Flushed = Meaning
    BY <1>2, <1>4 DEF ReadAsWritten
  <1>6. /\ InSequence(n + 1)' <=> in /\ l.indent > 0
        /\ Inside' <=> \/ l.indent = 0 /\ l.form = "field" /\ l.key = "list"
                       \/ in /\ l.indent > 0
    BY <1>1, <1>2, <1>3, <1>5, InsideNext
  <1>7. ~InSequence(n + 1)' => Meaning' = Meaning
    BY <1>2, <1>3, MeaningSame
  <1>8. UNCHANGED <<out, current>> => Flushed' = Flushed
    BY DEF Flushed
  <1>9. l.indent \in Nat /\ l.form \in {"item", "field", "bare", "text"}
    BY Parts
  <1>10. CASE /\ l.indent = 0 /\ UNCHANGED <<out, current>>
              /\ in' <=> l.form = "field" /\ l.key = "list"
    BY <1>5, <1>6, <1>7, <1>8, <1>9, <1>10
  <1>11. CASE l.indent > 0 /\ ~in /\ UNCHANGED <<in, out, current>>
    BY <1>5, <1>6, <1>7, <1>8, <1>9, <1>11
  <1>12. CASE /\ l.indent > 0 /\ in /\ l.form = "item" /\ in' = in
              /\ out' = Flushed /\ current' = WithField(NewRef, l)
    <2>1. InSequence(n + 1)' /\ (in' <=> Inside')
      BY <1>6, <1>9, <1>12
    <2>2. Meaning' = Append(Meaning, WithField(NewRef, l))
      BY <1>2, <1>3, <1>12, <2>1, MeaningItem
    <2>3. current' # NoRef
      BY <1>12, RefTypes, ConfigLoaderAssumption
    <2>4. Flushed' = Append(out', current')
      BY <2>3 DEF Flushed
    <2>. QED
      BY <1>5, <1>12, <2>1, <2>2, <2>4
  <1>13. CASE /\ l.indent > 0 /\ in /\ l.form # "item" /\ in' = in
              /\ current # NoRef /\ ~Refuses(l)
              /\ out' = out /\ current' = WithField(current, l)
    <2>1. InSequence(n + 1)' /\ (in' <=> Inside') /\ Inside
      BY <1>5, <1>6, <1>9, <1>13
    <2>2. l.form = "field"
      <3>1. reader \in {"experts", "agents"}
        BY DEF TypeOK
      <3>. QED
        BY <1>4, <1>9, <1>13, <3>1 DEF Refuses
    <2>3. PICK o \in Seq(Ref), c \in Ref : o = out /\ c = current
      BY <1>13 DEF TypeOK
    <2>4. Meaning = Append(o, c)
      BY <1>5, <1>13, <2>3, FlushedIs
    <2>5. Meaning' = Append(o, WithField(c, l))
      BY <1>2, <1>3, <1>4, <2>1, <2>2, <2>4, MeaningField
    <2>6. current' # NoRef
      BY <1>13, <2>3, RefTypes, ConfigLoaderAssumption
    <2>7. Flushed' = Append(out', current')
      BY <2>6 DEF Flushed
    <2>. QED
      BY <1>13, <2>1, <2>3, <2>5, <2>7
  <1>. QED
    BY <1>1, <1>10, <1>11, <1>12, <1>13, RegistryLine

-----------------------------------------------------------------------------
\* The inductive invariant.
IInv ==
    TypeOK /\ StackIsOpen /\ StoredWhereNested /\ EntriesFromItems /\ ReadAsWritten /\ LoadedAsWritten

\* What the file means depends on its lines alone.
LEMMA SameFile ==
    ASSUME UNCHANGED <<reader, lines>>
    PROVE  /\ Meaning' = Meaning /\ (Inside' <=> Inside) /\ Indexes' = Indexes
           /\ Plain' <=> Plain
           /\ Readable' <=> Readable
           /\ UNCHANGED stack /\ StackIsOpen => StackIsOpen'
           /\ UNCHANGED fields /\ StoredWhereNested => StoredWhereNested'
  <1>1. Meaning' = Meaning
    BY DEF Meaning, Dashes, EntryOf, LastValue, Given, EntryLines, InSequence, IsDash, IsListKey, Indexes
  <1>2. (Inside' <=> Inside) /\ Indexes' = Indexes /\ (Plain' <=> Plain) /\ (Readable' <=> Readable)
    BY DEF Inside, Plain, Readable, WellFormed, IsDash, IsListKey, Indexes
  <1>3. UNCHANGED stack /\ StackIsOpen => StackIsOpen'
    BY DEF StackIsOpen, Open, Indexes
  <1>4. UNCHANGED fields /\ StoredWhereNested => StoredWhereNested'
    <2>1. ASSUME NEW i
          PROVE  PathOf(i)' = PathOf(i)
      BY DEF PathOf, Holds, Indexes
    <2>2. Valued' = Valued
      BY <2>1 DEF Valued, HasPlace, Indexes
    <2>3. PICK v : v = InOrder(Valued)
      OBVIOUS
    <2>. QED
      BY <2>1, <2>2, <2>3 DEF StoredWhereNested
  <1>. QED
    BY <1>1, <1>2, <1>3, <1>4

\* A loaded registry was plain: the experts of one that is not are none, and
\* a registry without experts is not valid.
LEMMA LoadedIsPlain ==
    ASSUME TypeOK, EntriesFromItems, Finish, pc' = "loaded", reader # "definition", Readable
    PROVE  Plain
  <1>1. WellFormed
    BY DEF Readable
  <1>2. CASE reader = "agents"
    BY <1>1, <1>2 DEF Readable, Plain
  <1>3. CASE reader = "experts"
    <2>1. pc = "reading" /\ Flushed # <<>>
      BY <1>3 DEF Finish, Valid
    <2>2. PICK i \in Indexes : lines[i].form = "item" /\ lines[i].indent > 0
      BY <1>3, <2>1 DEF EntriesFromItems
    <2>3. \A j \in Indexes : IsDash(j) => lines[j].indent = lines[i].indent
      BY <1>1, <2>2 DEF WellFormed, IsDash
    <2>. QED
      BY <1>1, <1>3, <2>2, <2>3 DEF Plain
  <1>. QED
    BY <1>2, <1>3 DEF TypeOK

\* The end of the file keeps the invariant.
LEMMA FinishStep ==
    ASSUME IInv, Finish
    PROVE  IInv'
  <1>1. /\ UNCHANGED <<reader, lines, in, stack, fields>> /\ pc = "reading" /\ pc' # "reading"
        /\ pc' \in {"loaded", "rejected"} /\ out' = Flushed /\ current' = NoRef
    BY DEF Finish
  <1>2. TypeOK'
    <2>1. TypeOK /\ Flushed \in Seq(Ref)
      BY FlushedIs DEF IInv
    <2>. QED
      BY <1>1, <2>1 DEF TypeOK
  <1>3. StackIsOpen' /\ StoredWhereNested'
    BY <1>1, SameFile DEF IInv
  <1>4. EntriesFromItems' /\ ReadAsWritten'
    BY <1>1 DEF EntriesFromItems, ReadAsWritten
  <1>5. LoadedAsWritten'
    <2>1. SUFFICES ASSUME pc' = "loaded", reader # "definition", Readable
                   PROVE  out' = Meaning
      BY <1>1, SameFile DEF LoadedAsWritten
    <2>2. Plain
      BY <2>1, LoadedIsPlain DEF IInv
    <2>. QED
      BY <1>1, <2>1, <2>2 DEF IInv, ReadAsWritten
  <1>. QED
    BY <1>2, <1>3, <1>4, <1>5 DEF IInv

\* A line keeps the invariant.
LEMMA LineStep ==
    ASSUME IInv, NEW l \in Line, ReadLine(l)
    PROVE  IInv'
  <1>1. pc = "reading" /\ lines' = Append(lines, l) /\ reader' = reader
    BY DEF ReadLine
  <1>2. CASE reader = "definition"
    <2>1. DefinitionLine(l) /\ pc' = pc
      BY <1>2 DEF ReadLine, DefinitionLine
    <2>2. TypeOK' /\ StackIsOpen' /\ StoredWhereNested'
      BY <1>1, <1>2, <2>1, DefinitionStep DEF IInv
    <2>3. EntriesFromItems' /\ ReadAsWritten' /\ LoadedAsWritten'
      BY <1>1, <1>2 DEF EntriesFromItems, ReadAsWritten, LoadedAsWritten
    <2>. QED
      BY <2>2, <2>3 DEF IInv
  <1>3. CASE reader # "definition"
    <2>1. TypeOK'
      BY <1>3, RegistryTypes DEF IInv
    <2>2. EntriesFromItems'
      BY <1>3, ItemsStep DEF IInv
    <2>3. ReadAsWritten'
      BY <1>3, ReadStep DEF IInv
    <2>4. StackIsOpen' /\ StoredWhereNested'
      BY <1>1, <1>3 DEF StackIsOpen, StoredWhereNested
    <2>5. pc' # "loaded"
      BY <1>1, <1>3 DEF ReadLine, TopLine, SkippedLine, ItemLine, FieldLine, Reject
    <2>. QED
      BY <2>1, <2>2, <2>3, <2>4, <2>5 DEF IInv, LoadedAsWritten
  <1>. QED
    BY <1>2, <1>3

\* A file without lines holds nothing, and nothing was read.
LEMMA InitInv == Init => IInv
  <1>1. HAVE Init
  <1>2. /\ lines = <<>> /\ pc = "reading" /\ ~in /\ out = <<>> /\ current = NoRef
        /\ stack = <<>> /\ fields = <<>> /\ Len(lines) = 0 /\ Indexes = {}
    BY <1>1 DEF Init, Indexes
  <1>3. TypeOK
    <2>1. <<>> \in Seq(Line) /\ <<>> \in Seq(Ref) /\ <<>> \in Seq(Node) /\ <<>> \in Seq(Field)
      OBVIOUS
    <2>. QED
      BY <1>1, <2>1 DEF Init, TypeOK
  <1>4. InOrder({}) = <<>>
    <2>1. {} \subseteq Nat
      OBVIOUS
    <2>. QED
      BY <2>1, ListsNone, InOrderIs
  <1>5. Open = {} /\ Valued = {} /\ Dashes = {}
    BY <1>2 DEF Open, Valued, Dashes
  <1>6. StackIsOpen
    BY <1>2, <1>4, <1>5 DEF StackIsOpen, Nodes
  <1>7. StoredWhereNested
    <2>1. InOrder(Valued) = <<>>
      BY <1>4, <1>5
    <2>. QED
      BY <1>2, <2>1 DEF StoredWhereNested
  <1>8. Flushed = <<>>
    BY <1>2 DEF Flushed
  <1>9. Meaning = <<>>
    <2>1. InOrder(Dashes) = <<>>
      BY <1>4, <1>5
    <2>. QED
      BY <2>1 DEF Meaning
  <1>10. ~Inside
    BY <1>2 DEF Inside
  <1>. QED
    BY <1>2, <1>3, <1>6, <1>7, <1>8, <1>9, <1>10
       DEF IInv, EntriesFromItems, ReadAsWritten, LoadedAsWritten

\* IInv holds of every file, at every line and when it has been read.
THEOREM ConfigInvariant == Spec => []IInv
  <1>1. ASSUME IInv, [Next]_vars
        PROVE  IInv'
    <2>1. ASSUME NEW l \in IF reader = "definition" THEN DefinitionLines ELSE RegistryLines,
                 ReadLine(l)
          PROVE  IInv'
      BY <1>1, <2>1, LinesAreLines, LineStep
    <2>2. CASE Finish
      BY <1>1, <2>2, FinishStep
    <2>3. CASE UNCHANGED vars
      <3>1. UNCHANGED <<reader, lines, pc, in, out, current, stack, fields>>
        BY <2>3 DEF vars
      <3>2. TypeOK' /\ Flushed' = Flushed
        BY <1>1, <3>1 DEF IInv, TypeOK, Flushed
      <3>3. StackIsOpen' /\ StoredWhereNested'
        BY <1>1, <3>1, SameFile DEF IInv
      <3>4. EntriesFromItems' /\ ReadAsWritten' /\ LoadedAsWritten'
        BY <1>1, <3>1, <3>2, SameFile DEF IInv, EntriesFromItems, ReadAsWritten, LoadedAsWritten
      <3>. QED
        BY <3>2, <3>3, <3>4 DEF IInv
    <2>. QED
      BY <1>1, <2>1, <2>2, <2>3 DEF Next
  <1>. QED
    BY <1>1, InitInv, PTL DEF Spec

\* An expert or agent registry that is loaded is what its file says: the
\* entries of its sequence, in order and with their own fields
\* (parseRegistry, parseAgentRegistry), for files of any length.
THEOREM RegistryLoadedAsWritten == Spec => []LoadedAsWritten
  <1>1. IInv => LoadedAsWritten
    BY DEF IInv
  <1>. QED
    BY <1>1, ConfigInvariant, PTL

\* parseExpertDefinition stores each value under the keys that hold its line,
\* and in the order of the file, for files of any length and nesting.
THEOREM DefinitionStoredWhereNested == Spec => []StoredWhereNested
  <1>1. IInv => StoredWhereNested
    BY DEF IInv
  <1>. QED
    BY <1>1, ConfigInvariant, PTL
=============================================================================
