--------------------------- MODULE NinjaGenProofs ---------------------------
(***************************************************************************)
(* That the ninja files say what the source files say, for every number of *)
(* items and wherever generators are stopped, and that ninja watches the   *)
(* headers they include.                                                   *)
(***************************************************************************)
EXTENDS NinjaGen, ScanOutputProofs, WellFoundedInduction

-----------------------------------------------------------------------------
(* Recursion on numbers *)

\* Induction, as a statement about sets of numbers.
LEMMA Induction ==
  ASSUME NEW S \in SUBSET Nat, 0 \in S, \A n \in S : n + 1 \in S
  PROVE  S = Nat
<1>. SUFFICES ASSUME Nat \ S # {} PROVE FALSE
  OBVIOUS
<1>1. PICK x \in Nat \ S : \A y \in Nat \ S : ~(<<y, x>> \in OpToRel(<, Nat))
  <2>. HIDE DEF OpToRel
  <2>1. Nat \ S \subseteq Nat
    OBVIOUS
  <2>. QED
    BY <2>1, WFMin, NatLessThanWellFounded, Zenon
<1>2. \A y \in Nat : y < x => <<y, x>> \in OpToRel(<, Nat)
  BY DEF OpToRel
<1>3. x # 0 /\ x - 1 \in Nat /\ x - 1 < x /\ x = (x - 1) + 1
  OBVIOUS
<1>. QED
  BY <1>1, <1>2, <1>3

\* f starts from base, and step k takes its value at k - 1 to that at k.
Recursive(f, n, V, base, step) ==
    /\ f \in [0 .. n -> V]
    /\ f[0] = base
    /\ \A k \in 1 .. n : f[k] = step[k][f[k - 1]]

LEMMA Recursion ==
  ASSUME NEW n \in Nat, NEW V, NEW base \in V, NEW step \in [1 .. n -> [V -> V]]
  PROVE  \E f : Recursive(f, n, V, base, step)
<1>. DEFINE Good(m, f) == f[0] = base /\ \A k \in 1 .. n : k <= m => f[k] = step[k][f[k - 1]]
            S == {m \in Nat : m <= n => \E f \in [0 .. n -> V] : Good(m, f)}
<1>1. 0 \in S
  <2>1. Good(0, [k \in 0 .. n |-> base])
    OBVIOUS
  <2>. QED
    BY <2>1
<1>2. ASSUME NEW m \in S PROVE m + 1 \in S
  <2>. SUFFICES ASSUME m + 1 <= n PROVE \E f \in [0 .. n -> V] : Good(m + 1, f)
    OBVIOUS
  <2>1. PICK f \in [0 .. n -> V] : Good(m, f)
    OBVIOUS
  <2>. DEFINE v == step[m + 1][f[m]]
              g == [f EXCEPT ![m + 1] = v]
  <2>2. v \in V
    <3>1. m + 1 \in 1 .. n /\ f[m] \in V
      OBVIOUS
    <3>. QED
      BY <3>1
  <2>3. g \in [0 .. n -> V] /\ g[m + 1] = v /\ \A k \in 0 .. n : k # m + 1 => g[k] = f[k]
    BY <2>2
  <2>. HIDE DEF g, v
  <2>4. ASSUME NEW k \in 1 .. n, k <= m + 1 PROVE g[k] = step[k][g[k - 1]]
    <3>1. k - 1 \in 0 .. n /\ k - 1 # m + 1 /\ k \in 0 .. n
      BY <2>4
    <3>2. g[k - 1] = f[k - 1]
      BY <2>3, <3>1
    <3>3. CASE k = m + 1
      BY <2>3, <3>2, <3>3 DEF v
    <3>4. CASE k # m + 1
      <4>1. g[k] = f[k] /\ k <= m
        BY <2>3, <2>4, <3>1, <3>4
      <4>. QED
        BY <2>1, <3>2, <4>1
    <3>. QED
      BY <3>3, <3>4
  <2>5. g[0] = base
    BY <2>1, <2>3
  <2>. QED
    BY <2>3, <2>4, <2>5
<1>3. S = Nat
  <2>1. S \in SUBSET Nat
    OBVIOUS
  <2>. HIDE DEF S
  <2>. QED
    BY <1>1, <1>2, <2>1, Induction
<1>4. n \in S
  BY <1>3
<1>. QED
  BY <1>4 DEF Recursive

-----------------------------------------------------------------------------
(* The visitor *)

\* The queue q, without duplicates, when r was added at its end.
Distinct(q) == \A k, l \in 1 .. Len(q) : q[k] = q[l] => k = l

Longer(r, q) ==
    /\ r \in Seq(Item) /\ Distinct(r)
    /\ Len(q) <= Len(r)
    /\ \A k \in 1 .. Len(q) : r[k] = q[k]

\* Adding an item that is not in the queue.
LEMMA NewAdded ==
  ASSUME NEW q \in Seq(Item), Distinct(q), NEW j \in Item
  PROVE  Longer(AddNew(q, {}, j), q) /\ In(AddNew(q, {}, j)) = In(q) \cup {j}
<1>1. CASE j \in In(q)
  BY <1>1 DEF AddNew, Longer
<1>2. CASE j \notin In(q)
  <2>. DEFINE r == Append(q, j)
  <2>1. r \in Seq(Item) /\ Len(r) = Len(q) + 1 /\ r[Len(q) + 1] = j
        /\ \A k \in 1 .. Len(q) : r[k] = q[k]
    OBVIOUS
  <2>2. In(r) = In(q) \cup {j}
    BY InAppend
  <2>3. \A k \in 1 .. Len(q) : q[k] # j
    BY <1>2 DEF In
  <2>. HIDE DEF r
  <2>4. Distinct(r)
    BY <2>1, <2>3 DEF Distinct
  <2>. QED
    BY <1>2, <2>1, <2>2, <2>4 DEF AddNew, Longer, r
<1>. QED
  BY <1>1, <1>2

LEMMA LongerTransitive ==
  ASSUME NEW q \in Seq(Item), NEW r, NEW s, Longer(r, q), Longer(s, r)
  PROVE  Longer(s, q)
BY DEF Longer

\* Adding the imports of one item.
LEMMA ImportsAdded ==
  ASSUME NEW q \in Seq(Item), Distinct(q), NEW imports \in Seq(Item)
  PROVE  /\ Longer(AddImports(q, {}, imports), q)
         /\ In(AddImports(q, {}, imports)) = In(q) \cup In(imports)
<1>. DEFINE n == Len(imports)
            added[k \in 0 .. n] == IF k = 0 THEN q ELSE AddNew(added[k - 1], {}, imports[k])
            step == [k \in 1 .. n |-> [r \in Seq(Item) |-> AddNew(r, {}, imports[k])]]
<1>1. n \in Nat /\ \A k \in 1 .. n : imports[k] \in Item
  OBVIOUS
<1>2. AddImports(q, {}, imports) = added[n]
  BY DEF AddImports
<1>3. step \in [1 .. n -> [Seq(Item) -> Seq(Item)]]
  <2>1. ASSUME NEW k \in 1 .. n, NEW r \in Seq(Item) PROVE AddNew(r, {}, imports[k]) \in Seq(Item)
    BY <1>1 DEF AddNew
  <2>. QED
    BY <2>1
<1>4. PICK f : Recursive(f, n, Seq(Item), q, step)
  <2>. HIDE DEF n, step
  <2>. QED
    BY <1>1, <1>3, Recursion
<1>5. /\ f \in [0 .. n -> Seq(Item)] /\ f[0] = q
      /\ \A k \in 1 .. n : f[k] = AddNew(f[k - 1], {}, imports[k])
  <2>1. f \in [0 .. n -> Seq(Item)] /\ f[0] = q /\ \A k \in 1 .. n : f[k] = step[k][f[k - 1]]
    <3>. HIDE DEF n, step
    <3>. QED
      BY <1>4 DEF Recursive
  <2>2. ASSUME NEW k \in 1 .. n PROVE f[k - 1] \in Seq(Item)
    <3>. HIDE DEF n, step
    <3>. QED
      BY <1>1, <2>1
  <2>3. ASSUME NEW k \in 1 .. n PROVE f[k] = AddNew(f[k - 1], {}, imports[k])
    BY <2>1, <2>2
  <2>. QED
    BY <2>1, <2>3
<1>6. f = [k \in 0 .. n |-> IF k = 0 THEN q ELSE AddNew(f[k - 1], {}, imports[k])]
  BY <1>1, <1>5
<1>7. added = [k \in 0 .. n |-> IF k = 0 THEN q ELSE AddNew(added[k - 1], {}, imports[k])]
  BY <1>6
<1>. HIDE DEF added
<1>. DEFINE G(k) == /\ Longer(added[k], q)
                    /\ \A j : j \in In(added[k]) <=> j \in In(q) \/ \E l \in 1 .. k : imports[l] = j
            S == {k \in Nat : k <= n => G(k)}
<1>8. 0 \in S
  <2>1. added[0] = q
    BY <1>1, <1>7
  <2>. QED
    BY <2>1 DEF Longer
<1>9. ASSUME NEW k \in S PROVE k + 1 \in S
  <2>. SUFFICES ASSUME k + 1 <= n PROVE G(k + 1)
    OBVIOUS
  <2>1. G(k) /\ k \in Nat
    BY <1>1
  <2>2. added[k + 1] = AddNew(added[k], {}, imports[k + 1]) /\ imports[k + 1] \in Item
    BY <1>1, <1>7, <2>1
  <2>3. added[k] \in Seq(Item) /\ Distinct(added[k])
    BY <2>1 DEF Longer
  <2>. HIDE DEF n
  <2>4. Longer(added[k + 1], added[k]) /\ In(added[k + 1]) = In(added[k]) \cup {imports[k + 1]}
    BY <2>2, <2>3, NewAdded
  <2>5. Longer(added[k + 1], q)
    BY <2>1, <2>4, LongerTransitive
  <2>6. \A l : l \in 1 .. k + 1 <=> l \in 1 .. k \/ l = k + 1
    BY <2>1
  <2>. QED
    BY <2>1, <2>4, <2>5, <2>6
<1>10. S = Nat
  <2>1. S \in SUBSET Nat
    OBVIOUS
  <2>. HIDE DEF S
  <2>. QED
    BY <1>8, <1>9, <2>1, Induction
<1>11. G(n)
  BY <1>1, <1>10
<1>. QED
  BY ZenonT(30), <1>2, <1>11 DEF In

\* A queue without duplicates is no longer than there are items.
LEMMA QueueIsShort ==
  ASSUME NEW q \in Seq(Item), Distinct(q)
  PROVE  Len(q) <= N
<1>. DEFINE f == [k \in 1 .. Len(q) |-> q[k]]
<1>1. Len(q) \in Nat /\ N \in Nat /\ N # 0
  BY OutputAssumption
<1>2. f \in [1 .. Len(q) -> Item]
  OBVIOUS
<1>3. f \in Injection(1 .. Len(q), Item)
  BY <1>2 DEF Distinct, Injection, IsInjective
<1>4. IsFiniteSet(Item) /\ Cardinality(Item) = N
  <2>1. IsFiniteSet(0 .. N - 1) /\ Cardinality(0 .. N - 1) = IF 0 > N - 1 THEN 0 ELSE (N - 1) - 0 + 1
    BY <1>1, FS_Interval
  <2>. QED
    BY <1>1, <2>1 DEF Item
<1>5. IsFiniteSet(1 .. Len(q)) /\ Cardinality(1 .. Len(q)) = Len(q)
  <2>1. /\ IsFiniteSet(1 .. Len(q))
        /\ Cardinality(1 .. Len(q)) = IF 1 > Len(q) THEN 0 ELSE Len(q) - 1 + 1
    BY <1>1, FS_Interval
  <2>. QED
    BY <1>1, <2>1
<1>. HIDE DEF f
<1>6. Cardinality(1 .. Len(q)) <= Cardinality(Item)
  BY <1>3, <1>4, FS_Injection
<1>. QED
  BY <1>4, <1>5, <1>6

\* X has what item i imports, and all that these items import.
ClosedUnder(graph, i, X) ==
    /\ In(graph.imports_item[i]) \subseteq X
    /\ \A k \in X : In(graph.imports_item[k]) \subseteq X

Reached(graph, i) ==
    {j \in Item \ {i} : \A X \in SUBSET Item : ClosedUnder(graph, i, X) => j \in X}

\* The queue q after s turns.
Queued(graph, i, s, q) ==
    /\ q \in Seq(Item) /\ Distinct(q)
    /\ Len(q) >= 1 /\ q[1] = i
    /\ \A l \in 1 .. s : l <= Len(q) => In(graph.imports_item[q[l]]) \subseteq In(q)
    /\ \A j \in In(q) : j = i \/ j \in Reached(graph, i)

LEMMA TurnTaken ==
  ASSUME NEW graph, \A j \in Item : graph.imports_item[j] \in Seq(Item), NEW i \in Item,
         NEW s \in Nat, NEW q, Queued(graph, i, s, q)
  PROVE  Queued(graph, i, s + 1, Turn(graph, {}, s + 1, q))
<1>. DEFINE E(j) == graph.imports_item[j]
            r == Turn(graph, {}, s + 1, q)
<1>1. q \in Seq(Item) /\ Distinct(q) /\ Len(q) \in Nat /\ Len(q) >= 1 /\ q[1] = i
  BY DEF Queued
<1>2. CASE s + 1 > Len(q)
  <2>1. r = q
    BY <1>2 DEF Turn
  <2>2. \A l \in 1 .. s + 1 : l <= Len(q) => l \in 1 .. s
    BY <1>1, <1>2
  <2>. QED
    BY <2>1, <2>2 DEF Queued
<1>3. CASE ~(s + 1 > Len(q))
  <2>1. s + 1 \in 1 .. Len(q)
    BY <1>1, <1>3
  <2>2. q[s + 1] \in Item /\ q[s + 1] \in In(q)
    BY <1>1, <2>1 DEF In
  <2>3. r = AddImports(q, {}, E(q[s + 1])) /\ E(q[s + 1]) \in Seq(Item)
    BY <1>3, <2>2 DEF Turn
  <2>. HIDE DEF r
  <2>4. Longer(r, q) /\ In(r) = In(q) \cup In(E(q[s + 1]))
    BY <1>1, <2>3, ImportsAdded
  <2>5. r \in Seq(Item) /\ Distinct(r) /\ Len(r) >= 1 /\ r[1] = i
        /\ \A l \in 1 .. Len(q) : r[l] = q[l]
    BY <1>1, <2>4 DEF Longer
  <2>6. ASSUME NEW l \in 1 .. s + 1 PROVE In(E(r[l])) \subseteq In(r)
    <3>1. l \in 1 .. Len(q) /\ r[l] = q[l]
      BY <2>1, <2>5
    <3>2. CASE l = s + 1
      BY <2>4, <3>1, <3>2
    <3>3. CASE l # s + 1
      <4>1. l \in 1 .. s /\ l <= Len(q)
        BY <3>1, <3>3
      <4>2. In(E(q[l])) \subseteq In(q)
        BY <4>1 DEF Queued
      <4>. QED
        BY <2>4, <3>1, <4>2
    <3>. QED
      BY <3>2, <3>3
  <2>7. ASSUME NEW j \in In(r) PROVE j = i \/ j \in Reached(graph, i)
    <3>1. CASE j \in In(q)
      BY <3>1 DEF Queued
    <3>2. CASE j \in In(E(q[s + 1])) /\ j # i
      <4>1. j \in Item
        BY <2>3, <3>2, InSeq
      <4>2. q[s + 1] = i \/ q[s + 1] \in Reached(graph, i)
        BY <2>2 DEF Queued
      <4>3. ASSUME NEW X \in SUBSET Item, ClosedUnder(graph, i, X) PROVE j \in X
        BY <3>2, <4>2, <4>3 DEF Reached, ClosedUnder
      <4>. QED
        BY <3>2, <4>1, <4>3 DEF Reached
    <3>. QED
      BY <2>4, <3>1, <3>2
  <2>. QED
    BY <2>5, <2>6, <2>7 DEF Queued, r
<1>. QED
  BY <1>2, <1>3

\* visit_transitive_imports visits what item i imports, directly or not, but for
\* i itself, and visits it once.
LEMMA VisitedOnce ==
  ASSUME NEW graph, \A j \in Item : graph.imports_item[j] \in Seq(Item), NEW i \in Item
  PROVE  /\ Visited(graph, i, {}) \in Seq(Item)
         /\ Distinct(Visited(graph, i, {}))
         /\ In(Visited(graph, i, {})) = Reached(graph, i)
<1>. DEFINE V == {q \in Seq(Item) : Distinct(q)}
            queue[s \in 0 .. N] == IF s = 0 THEN <<i>> ELSE Turn(graph, {}, s, queue[s - 1])
            step == [s \in 1 .. N |-> [q \in V |-> Turn(graph, {}, s, q)]]
<1>1. N \in Nat /\ N # 0
  BY OutputAssumption
<1>2. Visited(graph, i, {}) = Tail(queue[N])
  BY DEF Visited
<1>3. <<i>> \in V /\ In(<<i>>) = {i}
  BY DEF Distinct, In
<1>4. step \in [1 .. N -> [V -> V]]
  <2>1. ASSUME NEW s \in 1 .. N, NEW q \in V PROVE Turn(graph, {}, s, q) \in V
    <3>1. q \in Seq(Item) /\ Distinct(q) /\ Len(q) \in Nat /\ s >= 1
      OBVIOUS
    <3>2. CASE s > Len(q)
      BY <3>1, <3>2 DEF Turn
    <3>3. CASE ~(s > Len(q))
      <4>1. q[s] \in Item
        BY <3>1, <3>3
      <4>2. Longer(AddImports(q, {}, graph.imports_item[q[s]]), q)
        BY <3>1, <4>1, ImportsAdded
      <4>. QED
        BY <3>3, <4>2 DEF Longer, Turn
    <3>. QED
      BY <3>2, <3>3
  <2>. HIDE DEF V
  <2>. QED
    BY <2>1
<1>5. PICK f : Recursive(f, N, V, <<i>>, step)
  <2>. HIDE DEF V, step
  <2>. QED
    BY <1>1, <1>3, <1>4, Recursion
<1>6. f \in [0 .. N -> V] /\ f[0] = <<i>> /\ \A s \in 1 .. N : f[s] = Turn(graph, {}, s, f[s - 1])
  <2>. HIDE DEF V
  <2>1. f \in [0 .. N -> V] /\ f[0] = <<i>> /\ \A s \in 1 .. N : f[s] = step[s][f[s - 1]]
    <3>. HIDE DEF step
    <3>. QED
      BY <1>5 DEF Recursive
  <2>2. ASSUME NEW s \in 1 .. N PROVE f[s - 1] \in V
    BY <1>1, <2>1
  <2>. QED
    BY <2>1, <2>2
<1>7. f = [s \in 0 .. N |-> IF s = 0 THEN <<i>> ELSE Turn(graph, {}, s, f[s - 1])]
  <2>. HIDE DEF V
  <2>1. ASSUME NEW s \in 0 .. N
        PROVE  f[s] = IF s = 0 THEN <<i>> ELSE Turn(graph, {}, s, f[s - 1])
    <3>1. CASE s = 0
      BY <1>6, <3>1
    <3>2. CASE s # 0
      <4>1. s \in 1 .. N
        BY <1>1, <3>2
      <4>. QED
        BY <1>6, <3>2, <4>1
    <3>. QED
      BY <3>1, <3>2
  <2>2. f = [s \in 0 .. N |-> f[s]]
    BY <1>6
  <2>. QED
    BY <2>1, <2>2, Zenon
<1>8. queue = [s \in 0 .. N |-> IF s = 0 THEN <<i>> ELSE Turn(graph, {}, s, queue[s - 1])]
  BY <1>7
<1>. HIDE DEF queue
<1>9. queue[0] = <<i>> /\ \A s \in 1 .. N : queue[s] = Turn(graph, {}, s, queue[s - 1])
  BY <1>1, <1>8
<1>. DEFINE S == {s \in Nat : s <= N => Queued(graph, i, s, queue[s])}
<1>10. 0 \in S
  <2>1. queue[0] \in Seq(Item) /\ Distinct(queue[0]) /\ Len(queue[0]) >= 1 /\ queue[0][1] = i
        /\ In(queue[0]) = {i}
    BY <1>3, <1>9
  <2>. QED
    BY <2>1 DEF Queued
<1>11. ASSUME NEW s \in S PROVE s + 1 \in S
  <2>. SUFFICES ASSUME s + 1 <= N PROVE Queued(graph, i, s + 1, queue[s + 1])
    OBVIOUS
  <2>1. s \in Nat /\ Queued(graph, i, s, queue[s])
    BY <1>1
  <2>2. queue[s + 1] = Turn(graph, {}, s + 1, queue[s])
    BY <1>1, <1>9, <2>1
  <2>. QED
    BY <2>1, <2>2, TurnTaken
<1>12. S = Nat
  <2>1. S \in SUBSET Nat
    OBVIOUS
  <2>. HIDE DEF S
  <2>. QED
    BY <1>10, <1>11, <2>1, Induction
<1>. DEFINE q == queue[N]
<1>13. Queued(graph, i, N, q)
  BY <1>1, <1>12
<1>. HIDE DEF q, S, V
<1>14. /\ q \in Seq(Item) /\ Distinct(q) /\ Len(q) \in Nat /\ Len(q) >= 1 /\ q[1] = i
       /\ Len(q) <= N
  BY <1>13, QueueIsShort DEF Queued
<1>15. \A l \in 1 .. Len(q) : In(graph.imports_item[q[l]]) \subseteq In(q)
  BY <1>1, <1>13, <1>14 DEF Queued
<1>16. ClosedUnder(graph, i, In(q)) /\ In(q) \in SUBSET Item
  <2>1. \A j \in In(q) : In(graph.imports_item[j]) \subseteq In(q)
    BY <1>15 DEF In
  <2>2. i \in In(q)
    BY <1>14 DEF In
  <2>. QED
    BY <1>14, <2>1, <2>2, InSeq DEF ClosedUnder
<1>17. /\ Tail(q) \in Seq(Item) /\ Len(Tail(q)) = Len(q) - 1
       /\ \A k \in 1 .. Len(q) - 1 : Tail(q)[k] = q[k + 1]
  BY <1>14
<1>18. Distinct(Tail(q))
  <2>1. ASSUME NEW k \in 1 .. Len(q) - 1, NEW l \in 1 .. Len(q) - 1, q[k + 1] = q[l + 1]
        PROVE  k = l
    <3>1. k + 1 \in 1 .. Len(q) /\ l + 1 \in 1 .. Len(q)
      BY <1>14
    <3>2. k + 1 = l + 1
      BY <1>14, <2>1, <3>1 DEF Distinct
    <3>. QED
      BY <3>2
  <2>. QED
    BY <1>17, <2>1 DEF Distinct
<1>19. In(Tail(q)) = In(q) \ {i}
  <2>1. ASSUME NEW j \in In(Tail(q)) PROVE j \in In(q) \ {i}
    <3>1. PICK k \in 1 .. Len(q) - 1 : j = q[k + 1]
      BY <1>17, <2>1 DEF In
    <3>2. k + 1 \in 1 .. Len(q) /\ 1 \in 1 .. Len(q) /\ k + 1 # 1
      BY <1>14
    <3>3. j # i
      BY <1>14, <3>1, <3>2 DEF Distinct
    <3>. QED
      BY <3>1, <3>2, <3>3 DEF In
  <2>2. ASSUME NEW j \in In(q), j # i PROVE j \in In(Tail(q))
    <3>1. PICK k \in 1 .. Len(q) : j = q[k]
      BY DEF In
    <3>2. k - 1 \in 1 .. Len(q) - 1 /\ (k - 1) + 1 = k
      BY <1>14, <2>2, <3>1
    <3>3. Tail(q)[k - 1] = j
      BY <1>17, <3>1, <3>2
    <3>. QED
      BY <1>17, <3>2, <3>3 DEF In
  <2>. QED
    BY <2>1, <2>2
<1>20. In(q) \ {i} = Reached(graph, i)
  <2>1. \A j \in In(q) \ {i} : j \in Reached(graph, i)
    BY <1>13 DEF Queued
  <2>2. \A j \in Reached(graph, i) : j \in In(q) /\ j # i
    BY <1>16 DEF Reached
  <2>. QED
    BY <2>1, <2>2
<1>. QED
  BY <1>2, <1>17, <1>18, <1>19, <1>20 DEF q

-----------------------------------------------------------------------------
(* The invariant *)

File == [there : BOOLEAN, interface : BOOLEAN, references : Seq(Item)]
Line == [item : Item, bmi : BOOLEAN, inputs : Seq(Item)]

\* A generator that writes has come to item gen.next; one that is done has been
\* to all items.
Passed == IF gen.pc = "done" THEN N ELSE gen.next

TypesOK ==
    /\ gen = [pc |-> gen.pc, graph |-> gen.graph, marks |-> gen.marks, printed |-> gen.printed,
              next |-> gen.next, known |-> gen.known, headers |-> gen.headers, lost |-> gen.lost]
    /\ gen.marks = {}
    /\ gen.pc \in {"idle", "write", "done"} /\ gen.next \in Item
    /\ rsp \in [Item -> File]
    /\ dyndeps \in Seq(Line)
    /\ stops \in Nat

\* What has been written says what the graph does.
WrittenOK ==
    gen.pc \in {"write", "done"} =>
        /\ \A i \in Item : gen.graph.imports_item[i] \in Seq(Item)
        /\ Len(dyndeps) = Passed
        /\ \A i \in Item : i < Passed => /\ rsp[i] = Generate(gen.graph, i, {})
                                        /\ dyndeps[i + 1] = BuildLine(gen.graph, i, {})

\* No generator writes while it scans.
ScanFirst == pc # "idle" => gen.pc = "idle"

GenInv == TypesOK /\ WrittenOK /\ ScanFirst

\* The graph says what is known of the files, if the scan has lost no imports.
GraphRight ==
    gen.pc \in {"write", "done"} /\ ~gen.lost => \A i \in Item :
        /\ gen.graph.exports[i] # NoModule <=> gen.known[i].exp # NoModule
        /\ In(gen.graph.imports_item[i]) = KnownImports(i)

\* What was printed is what the files include.
HeadersRight ==
    gen.pc \in {"write", "done"} => gen.printed = UNION {gen.headers[i] : i \in Item}

-----------------------------------------------------------------------------
(* The steps of the generator *)

LEMMA Written ==
  ASSUME NEW graph, \A j \in Item : graph.imports_item[j] \in Seq(Item), NEW i \in Item
  PROVE  Generate(graph, i, {}) \in File /\ BuildLine(graph, i, {}) \in Line
<1>1. Visited(graph, i, {}) \in Seq(Item) /\ HasExport(graph, i) \in BOOLEAN
  BY VisitedOnce DEF HasExport
<1>2. <<>> \in Seq(Item)
  OBVIOUS
<1>. QED
  BY <1>1, <1>2 DEF Generate, BuildLine, File, Line, Flags, EmptyFile

LEMMA InitGen == GenInit => GenInv
<1>. SUFFICES ASSUME GenInit PROVE GenInv
  OBVIOUS
<1>1. 0 \in Item /\ <<>> \in Seq(Item)
  BY OutputAssumption DEF Item
<1>2. NoFile \in File
  BY <1>1 DEF NoFile, File
<1>3. TypesOK
  BY <1>1, <1>2, StopsAssumption DEF GenInit, TypesOK, Idle
<1>4. WrittenOK /\ ScanFirst
  BY DEF GenInit, WrittenOK, ScanFirst, Idle
<1>. QED
  BY <1>3, <1>4 DEF GenInv

LEMMA StepScan == ASSUME GenInv, ScanStep PROVE GenInv'
<1>1. 0 \in Item
  BY OutputAssumption DEF Item
<1>2. /\ UNCHANGED <<rsp, dyndeps, stops>>
      /\ gen' = gen \/ gen' = Idle
      /\ gen.pc # "write"
  BY DEF ScanStep
<1>3. TypesOK'
  BY <1>1, <1>2 DEF GenInv, TypesOK, Idle
<1>4. WrittenOK'
  BY <1>2 DEF GenInv, WrittenOK, Passed, Idle
<1>5. ScanFirst'
  BY <1>2 DEF ScanStep, GenInv, ScanFirst, Idle
<1>. QED
  BY <1>3, <1>4, <1>5 DEF GenInv

LEMMA StepReturns == ASSUME IInv, GenInv, ScanReturns PROVE GenInv'
<1>. pc = "save" /\ gen.pc = "idle" /\ ScanFirst'
  BY DEF ScanReturns, Save, Leave, GenInv, ScanFirst
<1>1. 0 \in Item /\ N \in Nat /\ \A i \in Item : ~(i < 0)
  BY OutputAssumption DEF Item
<1>2. UNCHANGED <<rsp, stops>> /\ pc = "save"
  BY DEF ScanReturns, Save
<1>3. CASE HeaderUnit = {} /\ collated.success
  <2>1. /\ gen' = [Idle EXCEPT !.pc = "write", !.graph = collated, !.printed = AllFileDeps,
                               !.known = [i \in Item |-> Known(i)],
                               !.headers = [i \in Item |-> KnownHeaders(i)],
                               !.lost = NoImportSeen]
        /\ dyndeps' = <<>>
    BY <1>3 DEF ScanReturns
  <2>2. /\ gen'.pc = "write" /\ gen'.graph = collated /\ gen'.next = 0
        /\ gen'.marks = {}
        /\ gen' = [pc |-> gen'.pc, graph |-> gen'.graph, marks |-> gen'.marks,
                   printed |-> gen'.printed, next |-> gen'.next, known |-> gen'.known,
                   headers |-> gen'.headers, lost |-> gen'.lost]
    BY <2>1 DEF Idle
  <2>3. \A i \in Item : collated.imports_item[i] \in Seq(Item)
    BY <1>2, <1>3 DEF IInv, GraphOK
  <2>4. TypesOK'
    BY <1>1, <1>2, <2>1, <2>2 DEF GenInv, TypesOK
  <2>5. WrittenOK'
    BY <1>1, <2>1, <2>2, <2>3 DEF WrittenOK, Passed
  <2>. QED
    BY <2>4, <2>5 DEF GenInv
<1>4. CASE ~(HeaderUnit = {} /\ collated.success)
  <2>1. UNCHANGED <<gen, dyndeps>>
    BY <1>4 DEF ScanReturns
  <2>. QED
    BY <1>2, <2>1 DEF GenInv, TypesOK, WrittenOK, Passed
<1>. QED
  BY <1>3, <1>4

LEMMA StepWrite == ASSUME GenInv, WriteItem PROVE GenInv'
<1>. DEFINE i == gen.next
            cmd_buf == Generate(gen.graph, i, {})
            line == BuildLine(gen.graph, i, {})
<1>1. TypesOK /\ WrittenOK /\ ScanFirst
  BY DEF GenInv
<1>2. /\ gen.pc = "write" /\ UNCHANGED vars /\ UNCHANGED stops
      /\ dyndeps' = Append(dyndeps, line)
      /\ rsp' = IF Same(i, cmd_buf) THEN rsp ELSE [rsp EXCEPT ![i] = cmd_buf]
      /\ gen' = [gen EXCEPT !.marks = {}, !.next = IF i = N - 1 THEN 0 ELSE i + 1,
                            !.pc = IF i = N - 1 THEN "done" ELSE "write"]
  <2>1. gen.marks = {}
    BY <1>1 DEF TypesOK
  <2>2. Generated(gen.graph, i, gen.marks) = {}
    BY <2>1 DEF Generated, MarksLeft
  <2>. QED
    BY <2>1, <2>2 DEF WriteItem, Writing, MarksLeft
<1>3. i \in Item /\ 0 \in Item /\ Passed = i /\ \A j \in Item : gen.graph.imports_item[j] \in Seq(Item)
  BY <1>1, <1>2, OutputAssumption DEF TypesOK, WrittenOK, Passed, Item
<1>4. N \in Nat /\ N # 0 /\ Item = 0 .. N - 1 /\ i \in Nat
  BY <1>3, OutputAssumption DEF Item
<1>5. cmd_buf \in File /\ line \in Line
  BY <1>3, Written
<1>. HIDE DEF i, cmd_buf, line
<1>6. /\ gen' = [pc |-> gen'.pc, graph |-> gen'.graph, marks |-> gen'.marks,
                 printed |-> gen'.printed, next |-> gen'.next, known |-> gen'.known,
                 headers |-> gen'.headers, lost |-> gen'.lost]
      /\ gen'.marks = {}
      /\ gen'.graph = gen.graph /\ gen'.known = gen.known /\ gen'.lost = gen.lost
      /\ gen'.next = (IF i = N - 1 THEN 0 ELSE i + 1)
      /\ gen'.pc = (IF i = N - 1 THEN "done" ELSE "write")
  BY <1>1, <1>2 DEF TypesOK
<1>7. gen'.next \in Item /\ gen'.pc \in {"write", "done"} /\ Passed' = i + 1
  BY <1>3, <1>4, <1>6 DEF Passed
<1>8. rsp' \in [Item -> File] /\ rsp'[i] = cmd_buf /\ \A j \in Item : j # i => rsp'[j] = rsp[j]
  BY <1>1, <1>2, <1>3, <1>5 DEF TypesOK, Same
<1>9. /\ dyndeps' \in Seq(Line) /\ Len(dyndeps') = i + 1 /\ dyndeps'[i + 1] = line
      /\ \A j \in Item : j < i => dyndeps'[j + 1] = dyndeps[j + 1]
  <2>1. dyndeps \in Seq(Line) /\ Len(dyndeps) = i
    BY <1>1, <1>2, <1>3 DEF TypesOK, WrittenOK
  <2>2. \A k \in 1 .. i : dyndeps'[k] = dyndeps[k]
    BY <1>2, <2>1
  <2>3. \A j \in Item : j < i => j + 1 \in 1 .. i
    BY <1>4
  <2>. QED
    BY <1>2, <1>5, <2>1, <2>2, <2>3
<1>10. TypesOK'
  BY <1>1, <1>2, <1>3, <1>6, <1>7, <1>8, <1>9 DEF TypesOK
<1>11. WrittenOK'
  <2>1. ASSUME NEW j \in Item, j < i + 1
        PROVE  rsp'[j] = Generate(gen.graph, j, {}) /\ dyndeps'[j + 1] = BuildLine(gen.graph, j, {})
    <3>1. CASE j = i
      BY <1>8, <1>9, <3>1 DEF cmd_buf, line, i
    <3>2. CASE j # i
      <4>1. j < i
        BY <1>4, <2>1, <3>2
      <4>2. rsp[j] = Generate(gen.graph, j, {}) /\ dyndeps[j + 1] = BuildLine(gen.graph, j, {})
        BY <1>1, <1>2, <1>3, <4>1 DEF WrittenOK
      <4>. QED
        BY <1>8, <1>9, <3>2, <4>1, <4>2
    <3>. QED
      BY <3>1, <3>2
  <2>. QED
    BY <1>3, <1>6, <1>7, <1>9, <2>1 DEF WrittenOK
<1>12. ScanFirst'
  BY <1>1, <1>2 DEF ScanFirst, vars
<1>. QED
  BY <1>10, <1>11, <1>12 DEF GenInv

LEMMA StepStop == ASSUME GenInv, Stop PROVE GenInv'
<1>. DEFINE i == gen.next
<1>1. TypesOK /\ WrittenOK /\ ScanFirst
  BY DEF GenInv
<1>2. /\ gen' = Idle /\ stops' = stops + 1 /\ UNCHANGED vars
      /\ rsp' = rsp \/ rsp' = [rsp EXCEPT ![i] = EmptyFile]
  BY DEF Stop, Writing
<1>3. 0 \in Item /\ i \in Item /\ EmptyFile \in File
  <2>1. <<>> \in Seq(Item)
    OBVIOUS
  <2>. QED
    BY <1>1, <2>1, OutputAssumption DEF TypesOK, EmptyFile, Flags, File, Item
<1>4. dyndeps' \in Seq(Line)
  <2>1. PICK k \in 0 .. Len(dyndeps) : dyndeps' = SubSeq(dyndeps, 1, k)
    BY DEF Stop
  <2>. QED
    BY <1>1, <2>1 DEF TypesOK
<1>5. TypesOK'
  BY <1>1, <1>2, <1>3, <1>4 DEF TypesOK, Idle
<1>6. WrittenOK' /\ ScanFirst'
  BY <1>2 DEF WrittenOK, ScanFirst, Idle
<1>. QED
  BY <1>5, <1>6 DEF GenInv

-----------------------------------------------------------------------------
(* The theorems *)

\* The generator's scans are the scans of ScanOutput, so that all its theorems
\* hold of them.
THEOREM GeneratorScans == GenSpec => Spec
<1>1. GenInit => Init
  BY DEF GenInit
<1>2. [GenNext]_<<vars, gvars>> => [Next]_vars
  BY DEF GenNext, ScanStep, ScanReturns, WriteItem, Stop, Writing, Next
<1>. QED
  BY <1>1, <1>2, PTL DEF GenSpec, Spec

\* GenInv is inductive, wherever generators are stopped.
THEOREM GenInvariance == GenSpec => []GenInv
<1>1. IInv /\ GenInv /\ [GenNext]_<<vars, gvars>> => GenInv'
  <2>1. CASE UNCHANGED <<vars, gvars>>
    BY <2>1 DEF gvars, vars, GenInv, TypesOK, WrittenOK, ScanFirst, Passed
  <2>. QED
    BY <2>1, StepScan, StepReturns, StepWrite, StepStop DEF GenNext
<1>2. GenSpec => []IInv
  BY GeneratorScans, Invariance, PTL
<1>. QED
  BY <1>1, <1>2, InitGen, PTL DEF GenSpec

\* The graph the generator writes says what the scan knows.
LEMMA StepGraph ==
  ASSUME InterfacesStay, IInv, RowsRight, ExportsRight, GenInv, GraphRight,
         [GenNext]_<<vars, gvars>>
  PROVE  GraphRight'
<1>1. CASE ScanReturns /\ HeaderUnit = {} /\ collated.success
  <2>1. pc = "save" /\ gen'.graph = collated /\ gen'.known = [i \in Item |-> Known(i)]
        /\ gen'.lost = NoImportSeen
    BY <1>1 DEF ScanReturns, Save, Idle
  <2>. SUFFICES ASSUME ~NoImportSeen, NEW i \in Item
                PROVE  /\ collated.exports[i] # NoModule <=> Known(i).exp # NoModule
                       /\ In(collated.imports_item[i]) =
                            {j \in Item : /\ Known(j).exp # NoModule
                                          /\ Known(j).exp \in Known(i).imps \ {StdCore}}
    BY <2>1 DEF GraphRight, KnownImports
  <2>2. VarsOK /\ FilesOK /\ GraphOK
    BY DEF IInv
  <2>3. /\ collated.exports = mods.exports
        /\ In(collated.imports_item[i]) =
             {j \in Item : mods.exports[j] \in In(mods.imports[i]) \ {StdCore}} \cup In(sdeps[i])
    BY <1>1, <2>1, <2>2 DEF GraphOK
  <2>4. In(sdeps[i]) = {}
    <3>1. sdeps[i] \in Seq(HeaderUnit)
      BY <2>2 DEF VarsOK
    <3>2. In(sdeps[i]) \subseteq HeaderUnit
      BY <3>1, InSeq
    <3>. QED
      BY <1>1, <3>2
  <2>5. \A j \in Item : mods.exports[j] = Known(j).exp
    BY <2>1, SaveKnows
  <2>6. In(mods.imports[i]) = Known(i).imps
    BY <2>1, SaveKnows
  <2>7. In(mods.imports[i]) \subseteq Module
    <3>1. mods.imports[i] \in Seq(Module)
      BY <2>2 DEF VarsOK
    <3>. QED
      BY <3>1, InSeq
  <2>8. NoModule \notin Module
    BY OutputAssumption
  <2>. QED
    BY <2>3, <2>4, <2>5, <2>6, <2>7, <2>8
<1>2. CASE gen'.pc \notin {"write", "done"}
  BY <1>2 DEF GraphRight
<1>3. CASE /\ gen'.graph = gen.graph /\ gen'.known = gen.known /\ gen'.lost = gen.lost
           /\ gen.pc \in {"write", "done"}
  BY <1>3 DEF GraphRight, KnownImports
<1>4. CASE ScanReturns /\ ~(HeaderUnit = {} /\ collated.success)
  <2>1. gen' = gen
    BY <1>4 DEF ScanReturns
  <2>. QED
    BY <2>1 DEF GraphRight, KnownImports
<1>5. CASE ScanStep
  <2>1. gen' = gen \/ gen' = Idle
    BY <1>5 DEF ScanStep
  <2>. QED
    BY <1>2, <1>3, <2>1 DEF Idle, GenInv, TypesOK
<1>6. CASE WriteItem
  <2>1. gen.pc = "write"
        /\ gen' = [gen EXCEPT !.marks = gen'.marks,
                              !.next = IF gen.next = N - 1 THEN 0 ELSE gen.next + 1,
                              !.pc = IF gen.next = N - 1 THEN "done" ELSE "write"]
    BY <1>6 DEF WriteItem, Writing, GenInv, TypesOK
  <2>2. gen'.graph = gen.graph /\ gen'.known = gen.known /\ gen'.lost = gen.lost
    BY <2>1 DEF GenInv, TypesOK
  <2>. QED
    BY <1>3, <2>1, <2>2
<1>7. CASE Stop
  BY <1>2, <1>7 DEF Stop, Idle
<1>8. CASE UNCHANGED <<vars, gvars>>
  BY <1>8 DEF gvars, GraphRight, KnownImports
<1>. QED
  BY <1>1, <1>4, <1>5, <1>6, <1>7, <1>8 DEF GenNext

\* A graph that is right gives files that say what is needed.
LEMMA GraphGivesFiles ==
  ASSUME GenInv, GraphRight
  PROVE  FilesExact
<1>. SUFFICES ASSUME gen.pc = "done", ~gen.lost PROVE FilesExact!2
  BY DEF FilesExact
<1>. DEFINE g == gen.graph
<1>1. /\ Len(dyndeps) = N /\ \A i \in Item : g.imports_item[i] \in Seq(Item)
      /\ \A i \in Item : rsp[i] = Generate(g, i, {}) /\ dyndeps[i + 1] = BuildLine(g, i, {})
  <2>1. Passed = N /\ \A i \in Item : i < N
    BY OutputAssumption DEF Passed, Item
  <2>. QED
    BY <2>1 DEF GenInv, WrittenOK
<1>2. \A i \in Item : /\ HasExport(g, i) = (gen.known[i].exp # NoModule)
                      /\ In(g.imports_item[i]) = KnownImports(i)
  BY DEF GraphRight, HasExport
<1>. HIDE DEF g
<1>3. ASSUME NEW i \in Item PROVE Reached(g, i) = Needed(i)
  <2>1. ASSUME NEW X \in SUBSET Item
        PROVE  ClosedUnder(g, i, X) <=> /\ KnownImports(i) \subseteq X
                                        /\ \A k \in X : KnownImports(k) \subseteq X
    BY <1>2 DEF ClosedUnder
  <2>. QED
    BY <2>1 DEF Reached, Needed
<1>4. ASSUME NEW i \in Item
      PROVE  /\ Visited(g, i, {}) \in Seq(Item) /\ In(Visited(g, i, {})) = Needed(i)
             /\ IsInjective(Visited(g, i, {}))
  <2>1. /\ Visited(g, i, {}) \in Seq(Item) /\ Distinct(Visited(g, i, {}))
        /\ In(Visited(g, i, {})) = Needed(i)
    BY <1>1, <1>3, VisitedOnce
  <2>. QED
    BY <2>1 DEF Distinct, IsInjective
<1>5. ASSUME NEW i \in Item, NEW j \in Needed(i) PROVE HasExport(g, j) /\ j \in Item
  <2>. DEFINE X == {k \in Item : gen.known[k].exp # NoModule}
  <2>1. X \in SUBSET Item /\ \A k \in Item : KnownImports(k) \subseteq X
    BY DEF KnownImports
  <2>. HIDE DEF X
  <2>2. j \in X /\ j \in Item
    BY <2>1 DEF Needed
  <2>. QED
    BY <1>2, <2>2 DEF X
<1>6. ASSUME NEW i \in Item, ~HasImport(g, i) PROVE Needed(i) = {}
  <2>1. KnownImports(i) = {}
    BY <1>2, <1>6, InEmpty DEF HasImport
  <2>. QED
    BY <2>1 DEF Needed
<1>7. ASSUME NEW i \in Item
      PROVE  /\ rsp[i].there /\ rsp[i].interface = HasExport(g, i)
             /\ In(rsp[i].references) = Needed(i) /\ IsInjective(rsp[i].references)
  <2>1. CASE ~HasExport(g, i) /\ ~HasImport(g, i)
    <3>1. rsp[i] = EmptyFile
      BY <1>1, <2>1 DEF Generate
    <3>2. Needed(i) = {} /\ IsInjective(<<>>)
      BY <1>6, <2>1 DEF IsInjective
    <3>3. /\ EmptyFile.there /\ EmptyFile.interface = FALSE /\ EmptyFile.references = <<>>
      BY DEF EmptyFile, Flags
    <3>4. HasExport(g, i) = FALSE
      BY <2>1 DEF HasExport
    <3>. QED
      BY <3>1, <3>2, <3>3, <3>4, InEmpty
  <2>2. CASE HasExport(g, i) \/ HasImport(g, i)
    <3>1. rsp[i] = Flags(HasExport(g, i), Visited(g, i, {}))
      BY <1>1, <2>2 DEF Generate
    <3>. QED
      BY <1>4, <3>1 DEF Flags
  <2>. QED
    BY <2>1, <2>2
<1>8. ASSUME NEW i \in Item
      PROVE  LET line == dyndeps[i + 1] IN
             /\ line.item = i /\ line.bmi = HasExport(g, i) /\ In(line.inputs) = Needed(i)
             /\ \A j \in In(line.inputs) : dyndeps[j + 1].bmi
  <2>1. ASSUME NEW j \in Item
        PROVE  /\ dyndeps[j + 1].item = j /\ dyndeps[j + 1].bmi = HasExport(g, j)
               /\ dyndeps[j + 1].inputs = Visited(g, j, {})
    <3>1. dyndeps[j + 1] = BuildLine(g, j, {})
      BY <1>1
    <3>. QED
      BY <3>1 DEF BuildLine
  <2>. QED
    BY <1>4, <1>5, <2>1
<1>. QED
  BY <1>1, <1>2, <1>7, <1>8

\* The response files and dyndeps.ninja that a generator leaves say what the source
\* files say, wherever it or those before it were stopped.
THEOREM FilesFollowSources ==
  ASSUME HeaderUnitsStay, InterfacesStay
  PROVE  GenSpec => []FilesExact
<1>1. GenInit => GraphRight
  BY DEF GenInit, GraphRight, Idle
<1>2. /\ IInv /\ RowsRight /\ ExportsRight /\ GenInv /\ GraphRight
      /\ [GenNext]_<<vars, gvars>>
      => GraphRight'
  BY StepGraph
<1>3. GenSpec => [](IInv /\ RowsRight)
  BY GeneratorScans, RowsStayRight, PTL
<1>4. GenSpec => [](IInv /\ ExportsRight)
  BY GeneratorScans, ExportsStayRight, PTL
<1>5. GenSpec => []GraphRight
  BY <1>1, <1>2, <1>3, <1>4, GenInvariance, PTL DEF GenSpec
<1>6. GenInv /\ GraphRight => FilesExact
  BY GraphGivesFiles
<1>. QED
  BY <1>5, <1>6, GenInvariance, PTL

\* What is printed is what the observer was told, which is what the files include.
LEMMA StepHeaders ==
  ASSUME IInv, GenInv, ToldExactly, HeadersRight, [GenNext]_<<vars, gvars>>
  PROVE  HeadersRight'
<1>1. CASE ScanReturns /\ gen' # gen
  <2>1. /\ pc = "save" /\ gen'.printed = AllFileDeps
        /\ gen'.headers = [i \in Item |-> KnownHeaders(i)]
    BY <1>1 DEF ScanReturns, Save, Idle
  <2>2. ASSUME NEW i \in Item PROVE told[i].fdeps = KnownHeaders(i)
    <3>1. CASE Succeeded(i)
      <4>1. told[i] = [times |-> 1, finished |-> 1, ood |-> i \in In(ood),
                       exp |-> content[i].exp, imps |-> content[i].imps,
                       fdeps |-> Included(i) \cap Header,
                       ideps |-> Included(i) \cap HeaderUnit]
        BY <2>1, <3>1, Zenon DEF ToldExactly
      <4>2. told[i].fdeps = Included(i) \cap Header
        BY <4>1
      <4>. QED
        BY <3>1, <4>2 DEF KnownHeaders
    <3>2. CASE ~Succeeded(i)
      <4>1. told[i] = NotTold
        BY <2>1, <3>2 DEF ToldExactly
      <4>. QED
        BY <3>2, <4>1 DEF NotTold, KnownHeaders
    <3>. QED
      BY <3>1, <3>2
  <2>3. {told[i].fdeps : i \in Item} = {gen'.headers[i] : i \in Item}
    <3>1. \A i \in Item : told[i].fdeps = gen'.headers[i]
      BY <2>1, <2>2
    <3>2. \A x : (\E i \in Item : x = told[i].fdeps) <=> (\E i \in Item : x = gen'.headers[i])
      BY <3>1
    <3>. QED
      BY <3>2
  <2>. QED
    BY <2>1, <2>3 DEF HeadersRight, AllFileDeps
<1>2. CASE gen' = gen
  BY <1>2 DEF HeadersRight
<1>3. CASE gen' = Idle
  BY <1>3 DEF HeadersRight, Idle
<1>4. CASE WriteItem
  <2>1. /\ gen.pc = "write"
        /\ gen' = [gen EXCEPT !.marks = gen'.marks, !.next = gen'.next, !.pc = gen'.pc]
    BY <1>4 DEF WriteItem, Writing, GenInv, TypesOK
  <2>2. gen'.printed = gen.printed /\ gen'.headers = gen.headers
    BY <2>1 DEF GenInv, TypesOK
  <2>. QED
    BY <2>1, <2>2 DEF HeadersRight
<1>. QED
  BY <1>1, <1>2, <1>3, <1>4 DEF GenNext, ScanStep, Stop, gvars

\* ninja watches the headers of every item whose scan succeeded, whichever items
\* the last scan was about.
THEOREM HeadersAreWatched ==
  ASSUME HeaderUnitsStay, InterfacesStay
  PROVE  GenSpec => []HeadersPrinted
<1>1. GenInit => HeadersRight
  BY DEF GenInit, HeadersRight, Idle
<1>2. /\ IInv /\ GenInv /\ ToldExactly /\ HeadersRight
      /\ [GenNext]_<<vars, gvars>>
      => HeadersRight'
  BY StepHeaders
<1>3. GenSpec => []IInv
  BY GeneratorScans, Invariance, PTL
<1>4. GenSpec => []ToldExactly
  BY GeneratorScans, ObserverHearsAll, PTL
<1>5. GenSpec => []HeadersRight
  BY <1>1, <1>2, <1>3, <1>4, GenInvariance, PTL DEF GenSpec
<1>6. HeadersRight => HeadersPrinted
  BY DEF HeadersRight, HeadersPrinted
<1>. QED
  BY <1>5, <1>6, PTL
=============================================================================
