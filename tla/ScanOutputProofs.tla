-------------------------- MODULE ScanOutputProofs --------------------------
(***************************************************************************)
(* That the rows, the observer and the module graph get what the tool      *)
(* reports, for every number of items, every content of their files and    *)
(* every order in which the tool reports them.                             *)
(***************************************************************************)
EXTENDS ScanOutput, FiniteSetTheorems, TLAPS

-----------------------------------------------------------------------------
(* Sequences *)

\* A function on an initial segment is a sequence of that length.
LEMMA SeqOfFunction ==
  ASSUME NEW n \in Nat, NEW S, NEW f \in [1 .. n -> S]
  PROVE  f \in Seq(S) /\ Len(f) = n
<1>1. f \in Seq(S)
  OBVIOUS
<1>2. DOMAIN f = 1 .. n
  OBVIOUS
<1>3. DOMAIN f = 1 .. Len(f) /\ Len(f) \in Nat
  BY <1>1
<1>4. Len(f) = n
  BY <1>2, <1>3
<1>. QED
  BY <1>1, <1>4

\* The members of a sequence that got longer, of two in a row, of the empty one
\* and of any.
LEMMA InAppend ==
  ASSUME NEW S, NEW s \in Seq(S), NEW x \in S
  PROVE  In(Append(s, x)) = In(s) \cup {x}
<1>1. \A y \in In(s) : y \in In(Append(s, x))
  BY DEF In
<1>2. x \in In(Append(s, x))
  <2>1. Len(s) + 1 \in 1 .. Len(Append(s, x)) /\ Append(s, x)[Len(s) + 1] = x
    OBVIOUS
  <2>. QED
    BY <2>1 DEF In
<1>3. \A y \in In(Append(s, x)) : y \in In(s) \cup {x}
  BY DEF In
<1>. QED
  BY <1>1, <1>2, <1>3

LEMMA InConcat ==
  ASSUME NEW S, NEW s \in Seq(S), NEW t \in Seq(S)
  PROVE  In(s \o t) = In(s) \cup In(t)
<1>1. \A y \in In(s) : y \in In(s \o t)
  BY DEF In
<1>2. ASSUME NEW k \in 1 .. Len(t) PROVE t[k] \in In(s \o t)
  <2>1. (s \o t)[Len(s) + k] = t[k] /\ Len(s) + k \in 1 .. Len(s \o t)
    OBVIOUS
  <2>. QED
    BY <2>1 DEF In
<1>3. ASSUME NEW k \in 1 .. Len(s \o t) PROVE (s \o t)[k] \in In(s) \cup In(t)
  <2>1. CASE k \in 1 .. Len(s)
    BY <2>1 DEF In
  <2>2. CASE k \notin 1 .. Len(s)
    <3>1. (s \o t)[k] = t[k - Len(s)] /\ k - Len(s) \in 1 .. Len(t)
      BY <2>2
    <3>. QED
      BY <3>1 DEF In
  <2>. QED
    BY <2>1, <2>2
<1>. QED
  BY <1>1, <1>2, <1>3 DEF In

LEMMA InEmpty == In(<<>>) = {}
  BY DEF In

LEMMA InSeq == ASSUME NEW S, NEW s \in Seq(S) PROVE In(s) \subseteq S
  BY DEF In

\* The numbers below each member of a set count up.
LEMMA Ranks ==
  ASSUME NEW S \in SUBSET Nat, IsFiniteSet(S),
         NEW rank, rank = [i \in S |-> Cardinality({j \in S : j < i})]
  PROVE  /\ rank \in [S -> Nat]
         /\ \A i \in S : rank[i] + 1 <= Cardinality(S)
         /\ \A i, j \in S : i < j => rank[i] + 1 <= rank[j]
<1>1. ASSUME NEW i \in S, NEW T \in SUBSET S, {j \in S : j < i} \cup {i} \subseteq T
      PROVE  /\ rank[i] \in Nat
             /\ rank[i] + 1 <= Cardinality(T)
             /\ Cardinality(T) \in Nat
  <2>. DEFINE B == {j \in S : j < i}
  <2>1. IsFiniteSet(B) /\ i \notin B /\ rank[i] = Cardinality(B)
    <3>1. B \subseteq S /\ i \notin B
      OBVIOUS
    <3>. QED
      BY <3>1, FS_Subset
  <2>. HIDE DEF B
  <2>2. Cardinality(B \cup {i}) = Cardinality(B) + 1 /\ IsFiniteSet(B \cup {i})
    BY <2>1, FS_AddElement
  <2>3. IsFiniteSet(T) /\ B \cup {i} \subseteq T
    BY <1>1, FS_Subset DEF B
  <2>4. Cardinality(B \cup {i}) <= Cardinality(T)
    BY <2>2, <2>3, FS_Subset
  <2>5. Cardinality(B) \in Nat /\ Cardinality(T) \in Nat
    BY <2>1, <2>3, FS_CardinalityType
  <2>. QED
    BY <2>1, <2>2, <2>4, <2>5
<1>2. ASSUME NEW i \in S PROVE rank[i] \in Nat /\ rank[i] + 1 <= Cardinality(S)
  BY <1>1
<1>3. ASSUME NEW i \in S, NEW j \in S, i < j PROVE rank[i] + 1 <= rank[j]
  <2>. DEFINE T == {l \in S : l < j}
  <2>1. T \in SUBSET S /\ {l \in S : l < i} \cup {i} \subseteq T
    <3>1. \A l \in S : l < i => l < j
      BY <1>3
    <3>. QED
      BY <1>3, <3>1
  <2>2. rank[j] = Cardinality(T)
    OBVIOUS
  <2>. HIDE DEF T
  <2>. QED
    BY <1>1, <2>1, <2>2
<1>4. rank \in [S -> Nat]
  <2>1. \A i \in S : rank[i] \in Nat
    BY <1>2
  <2>2. rank = [i \in S |-> rank[i]]
    OBVIOUS
  <2>. QED
    BY <2>1, <2>2
<1>. QED
  BY <1>2, <1>3, <1>4

\* A strictly increasing numbering that stays below the size of a set hits every
\* number below it.
LEMMA RanksAreAll ==
  ASSUME NEW S \in SUBSET Nat, IsFiniteSet(S), NEW n \in Nat, n = Cardinality(S),
         NEW rank \in [S -> Nat], \A i \in S : rank[i] + 1 <= n,
         \A i, j \in S : i < j => rank[i] + 1 <= rank[j]
  PROVE  /\ \A i, j \in S : rank[i] = rank[j] => i = j
         /\ \A k \in 1 .. n : \E i \in S : rank[i] = k - 1
<1>1. ASSUME NEW i \in S, NEW j \in S, rank[i] = rank[j] PROVE i = j
  <2>1. rank[i] \in Nat /\ rank[j] \in Nat /\ i \in Nat /\ j \in Nat
    OBVIOUS
  <2>2. ~(i < j)
    BY <1>1, <2>1
  <2>3. ~(j < i)
    BY <1>1, <2>1
  <2>. QED
    BY <2>1, <2>2, <2>3
<1>. DEFINE R == [i \in S |-> rank[i] + 1]
<1>2. R \in [S -> 1 .. n]
  <2>1. ASSUME NEW i \in S PROVE rank[i] + 1 \in 1 .. n
    <3>1. rank[i] \in Nat /\ rank[i] + 1 <= n
      OBVIOUS
    <3>. QED
      BY <3>1
  <2>. QED
    BY <2>1
<1>3. \A i, j \in S : R[i] = R[j] => i = j
  <2>. SUFFICES ASSUME NEW i \in S, NEW j \in S, R[i] = R[j] PROVE i = j
    OBVIOUS
  <2>1. rank[i] \in Nat /\ rank[j] \in Nat /\ rank[i] + 1 = rank[j] + 1
    OBVIOUS
  <2>. QED
    BY <1>1, <2>1
<1>4. R \in Injection(S, 1 .. n)
  BY <1>2, <1>3 DEF Injection, IsInjective
<1>5. IsFiniteSet(1 .. n) /\ Cardinality(1 .. n) = n
  BY FS_Interval
<1>6. R \in Surjection(S, 1 .. n)
  BY <1>4, <1>5, FS_Injection
<1>7. ASSUME NEW k \in 1 .. n PROVE \E i \in S : rank[i] = k - 1
  <2>1. PICK i \in S : R[i] = k
    BY <1>6 DEF Surjection
  <2>2. rank[i] \in Nat /\ rank[i] + 1 = k
    BY <2>1
  <2>. QED
    BY <2>2
<1>. QED
  BY <1>1, <1>7

\* Ascending lists the members of a finite set of numbers, each once.
LEMMA AscendingLists ==
  ASSUME NEW S \in SUBSET Nat, IsFiniteSet(S)
  PROVE  /\ Ascending(S) \in Seq(S)
         /\ In(Ascending(S)) = S
         /\ \A k, l \in 1 .. Len(Ascending(S)) :
                Ascending(S)[k] = Ascending(S)[l] => k = l
<1>. DEFINE n == Cardinality(S)
            rank == [i \in S |-> Cardinality({j \in S : j < i})]
            s == Ascending(S)
<1>1. n \in Nat
  BY FS_CardinalityType
<1>2. s = [k \in 1 .. n |-> CHOOSE i \in S : Cardinality({j \in S : j < i}) = k - 1]
  BY DEF Ascending
<1>3. \A i \in S : rank[i] = Cardinality({j \in S : j < i})
  OBVIOUS
<1>. HIDE DEF s, n
<1>4. /\ rank \in [S -> Nat]
      /\ \A i \in S : rank[i] + 1 <= n
      /\ \A i, j \in S : i < j => rank[i] + 1 <= rank[j]
  BY Ranks DEF n
<1>. HIDE DEF rank
<1>5. /\ \A i, j \in S : rank[i] = rank[j] => i = j
      /\ \A k \in 1 .. n : \E i \in S : rank[i] = k - 1
  BY <1>1, <1>4, RanksAreAll DEF n
<1>6. ASSUME NEW k \in 1 .. n PROVE s[k] \in S /\ rank[s[k]] = k - 1
  <2>1. PICK i \in S : Cardinality({j \in S : j < i}) = k - 1
    BY <1>3, <1>5
  <2>2. s[k] = CHOOSE i2 \in S : Cardinality({j \in S : j < i2}) = k - 1
    BY <1>2
  <2>3. s[k] \in S /\ Cardinality({j \in S : j < s[k]}) = k - 1
    BY <2>1, <2>2
  <2>. QED
    BY <1>3, <2>3
<1>7. s \in Seq(S) /\ Len(s) = n
  <2>1. \A k \in 1 .. n : (CHOOSE i \in S : Cardinality({j \in S : j < i}) = k - 1) \in S
    BY <1>2, <1>6, Zenon
  <2>2. s \in [1 .. n -> S]
    BY <1>2, <2>1, Zenon
  <2>. QED
    BY <1>1, <2>2, SeqOfFunction
<1>8. ASSUME NEW i \in S PROVE i \in In(s)
  <2>0. rank[i] \in Nat /\ rank[i] + 1 <= n
    BY <1>4
  <2>1. rank[i] + 1 \in 1 .. n /\ (rank[i] + 1) - 1 = rank[i]
    BY <1>1, <2>0
  <2>2. s[rank[i] + 1] = i
    BY <1>5, <1>6, <2>1
  <2>. QED
    BY <1>7, <2>1, <2>2 DEF In
<1>9. ASSUME NEW k \in 1 .. Len(s), NEW l \in 1 .. Len(s), s[k] = s[l] PROVE k = l
  <2>1. k - 1 = l - 1 /\ k \in Int /\ l \in Int
    BY <1>6, <1>7, <1>9
  <2>. QED
    BY <2>1
<1>10. In(s) = S
  BY <1>7, <1>8, InSeq
<1>. QED
  BY <1>7, <1>9, <1>10 DEF s

\* What is looked up are the imports other than std.core.
LEMMA LookedUpIn ==
  ASSUME NEW S, NEW imports \in Seq(S)
  PROVE  /\ LookedUp(imports) \in Seq(S)
         /\ In(LookedUp(imports)) = In(imports) \ {StdCore}
<1>. DEFINE K == {k \in 1 .. Len(imports) : imports[k] # StdCore}
            kept == Ascending(K)
<1>1. K \in SUBSET Nat /\ IsFiniteSet(K)
  BY FS_Interval, FS_Subset
<1>2. kept \in Seq(K) /\ In(kept) = K
  BY <1>1, AscendingLists
<1>3. LookedUp(imports) = [n \in 1 .. Len(kept) |-> imports[kept[n]]]
  BY DEF LookedUp
<1>. HIDE DEF kept
<1>4. LookedUp(imports) \in Seq(S) /\ Len(LookedUp(imports)) = Len(kept)
  BY <1>2, <1>3
<1>5. ASSUME NEW n \in 1 .. Len(kept) PROVE LookedUp(imports)[n] \in In(imports) \ {StdCore}
  BY SMTT(30), <1>2, <1>3 DEF In
<1>6. ASSUME NEW k \in 1 .. Len(imports), imports[k] # StdCore
      PROVE  imports[k] \in In(LookedUp(imports))
  <2>1. PICK n \in 1 .. Len(kept) : kept[n] = k
    BY <1>2, <1>6 DEF In
  <2>. QED
    BY <1>3, <1>4, <2>1 DEF In
<1>. QED
  BY <1>4, <1>5, <1>6 DEF In

-----------------------------------------------------------------------------
(* Buffers *)

Vector == [ofs : Nat, final_idx : Item]

\* A buffer of elements of S: its vectors lie in it, in order, one of each item.
GoodBuffer(b, S) ==
    /\ b \in [buf : Seq(S), vecs : Seq(Vector), max : Nat]
    /\ \A k \in 1 .. Len(b.vecs) : /\ b.vecs[k].ofs <= Len(b.buf)
                                   /\ b.vecs[k].final_idx <= b.max
    /\ \A k, l \in 1 .. Len(b.vecs) : k < l =>
         /\ b.vecs[k].ofs <= b.vecs[l].ofs
         /\ b.vecs[k].final_idx # b.vecs[l].final_idx

\* What the vectors are worth: that of item i holds of[i].
Holds(b, of) == \A k \in 1 .. Len(b.vecs) : In(VectorAt(b, k)) = of[b.vecs[k].final_idx]

HasVector(b, i) == \E k \in 1 .. Len(b.vecs) : b.vecs[k].final_idx = i

LastVector(b) == b.vecs[Len(b.vecs)].final_idx

LEMMA ItemsAreNumbers == Item \in SUBSET Nat /\ IsFiniteSet(Item) /\ 0 \in Item
<1>1. N \in Nat /\ N # 0
  BY OutputAssumption
<1>2. IsFiniteSet(0 .. N - 1)
  BY <1>1, FS_Interval
<1>. QED
  BY <1>1, <1>2 DEF Item

\* What a vector is made of.
LEMMA VectorFields ==
  ASSUME NEW s \in Seq(Vector), NEW k \in 1 .. Len(s)
  PROVE  /\ s[k] \in Vector /\ s[k].ofs \in Nat
         /\ s[k].final_idx \in Item /\ s[k].final_idx \in Nat
<1>1. s[k] \in Vector
  OBVIOUS
<1>. QED
  BY <1>1, ItemsAreNumbers DEF Vector

\* The span of a vector that lies in the buffer.
LEMMA SpanIn ==
  ASSUME NEW S, NEW s \in Seq(S), NEW m \in Nat, NEW n \in Nat, m <= n, n <= Len(s)
  PROVE  /\ SubSeq(s, m + 1, n) \in Seq(S)
         /\ Len(SubSeq(s, m + 1, n)) = n - m
         /\ \A k \in 1 .. n - m : SubSeq(s, m + 1, n)[k] = s[m + k]
         /\ \A x : x \in In(SubSeq(s, m + 1, n)) <=> \E k \in m + 1 .. n : s[k] = x
<1>1. /\ SubSeq(s, m + 1, n) \in Seq(S)
      /\ Len(SubSeq(s, m + 1, n)) = n - m
      /\ \A k \in 1 .. n - m : SubSeq(s, m + 1, n)[k] = s[m + k]
  OBVIOUS
<1>2. ASSUME NEW k \in 1 .. n - m PROVE \E l \in m + 1 .. n : s[l] = SubSeq(s, m + 1, n)[k]
  <2>1. m + k \in m + 1 .. n
    OBVIOUS
  <2>. QED
    BY <1>1, <2>1
<1>3. ASSUME NEW k \in m + 1 .. n PROVE \E l \in 1 .. n - m : s[k] = SubSeq(s, m + 1, n)[l]
  <2>1. k - m \in 1 .. n - m /\ m + (k - m) = k
    OBVIOUS
  <2>. QED
    BY <1>1, <2>1
<1>4. \A x : x \in In(SubSeq(s, m + 1, n)) <=> \E k \in 1 .. n - m : SubSeq(s, m + 1, n)[k] = x
  BY <1>1 DEF In
<1>5. \A x : x \in In(SubSeq(s, m + 1, n)) <=> \E k \in m + 1 .. n : s[k] = x
  BY <1>2, <1>3, <1>4
<1>. QED
  BY <1>1, <1>5

\* The numbers that make up the span of a vector.
LEMMA VectorBounds ==
  ASSUME NEW S, NEW b, GoodBuffer(b, S), NEW k \in 1 .. Len(b.vecs)
  PROVE  /\ b.buf \in Seq(S) /\ b.vecs[k].ofs \in Nat /\ VectorEnd(b, k) \in Nat
         /\ b.vecs[k].ofs <= VectorEnd(b, k) /\ VectorEnd(b, k) <= Len(b.buf)
<1>1. /\ b.buf \in Seq(S) /\ b.vecs \in Seq(Vector)
      /\ \A l \in 1 .. Len(b.vecs) : b.vecs[l] \in Vector /\ b.vecs[l].ofs <= Len(b.buf)
  BY DEF GoodBuffer
<1>2. \A l \in 1 .. Len(b.vecs) : b.vecs[l].ofs \in Nat
  BY <1>1 DEF Vector
<1>3. CASE k < Len(b.vecs)
  <2>1. k + 1 \in 1 .. Len(b.vecs) /\ k < k + 1
    BY <1>1, <1>3
  <2>2. b.vecs[k].ofs <= b.vecs[k + 1].ofs
    BY <2>1 DEF GoodBuffer
  <2>. QED
    BY <1>1, <1>2, <1>3, <2>1, <2>2 DEF VectorEnd
<1>4. CASE ~(k < Len(b.vecs))
  BY <1>1, <1>2, <1>4 DEF VectorEnd
<1>. QED
  BY <1>3, <1>4

LEMMA VectorIsList ==
  ASSUME NEW S, NEW b, GoodBuffer(b, S), NEW k \in 1 .. Len(b.vecs)
  PROVE  /\ VectorAt(b, k) \in Seq(S)
         /\ \A x : x \in In(VectorAt(b, k)) <=>
              \E l \in b.vecs[k].ofs + 1 .. VectorEnd(b, k) : b.buf[l] = x
<1>. DEFINE s == b.buf
            m == b.vecs[k].ofs
            n == VectorEnd(b, k)
<1>1. s \in Seq(S) /\ m \in Nat /\ n \in Nat /\ m <= n /\ n <= Len(s)
  BY VectorBounds
<1>2. VectorAt(b, k) = SubSeq(s, m + 1, n)
  BY DEF VectorAt
<1>. HIDE DEF s, m, n
<1>3. /\ SubSeq(s, m + 1, n) \in Seq(S)
      /\ \A x : x \in In(SubSeq(s, m + 1, n)) <=> \E l \in m + 1 .. n : s[l] = x
  BY <1>1, SpanIn
<1>. QED
  BY <1>2, <1>3 DEF s, m, n

\* The empty buffer.
LEMMA GoodEmpty ==
  ASSUME NEW S
  PROVE  GoodBuffer(EmptyBuffer, S) /\ Len(EmptyBuffer.vecs) = 0
  BY DEF GoodBuffer, EmptyBuffer

\* Starting a vector leaves the others alone.
LEMMA VectorStarted ==
  ASSUME NEW S, NEW b, GoodBuffer(b, S), NEW i \in Item, ~HasVector(b, i)
  PROVE  LET c == NewVector(b, i) IN
         /\ GoodBuffer(c, S)
         /\ Len(c.vecs) = Len(b.vecs) + 1
         /\ LastVector(c) = i
         /\ \A k \in 1 .. Len(b.vecs) : /\ c.vecs[k].final_idx = b.vecs[k].final_idx
                                        /\ VectorAt(c, k) = VectorAt(b, k)
         /\ In(VectorAt(c, Len(b.vecs) + 1)) = {}
<1>. DEFINE c == NewVector(b, i)
            n == Len(b.vecs)
            v == [ofs |-> Len(b.buf), final_idx |-> i]
<1>1. /\ b.buf \in Seq(S) /\ b.vecs \in Seq(Vector) /\ b.max \in Nat /\ n \in Nat
      /\ Len(b.buf) \in Nat
  BY DEF GoodBuffer
<1>2. /\ c.buf = b.buf /\ c.vecs = Append(b.vecs, v)
      /\ c.max = IF i > b.max THEN i ELSE b.max
      /\ c = [buf |-> c.buf, vecs |-> c.vecs, max |-> c.max]
  BY DEF NewVector
<1>3. i \in Nat
  BY ItemsAreNumbers
<1>4. v \in Vector /\ v.ofs = Len(b.buf) /\ v.final_idx = i
  BY <1>1 DEF Vector
<1>. HIDE DEF c, v
<1>5. /\ c.vecs \in Seq(Vector) /\ Len(c.vecs) = n + 1 /\ c.vecs[n + 1] = v
      /\ \A k \in 1 .. n : c.vecs[k] = b.vecs[k]
  BY <1>1, <1>2, <1>4
<1>6. \A k \in 1 .. n : b.vecs[k] \in Vector /\ b.vecs[k].ofs \in Nat /\ b.vecs[k].final_idx \in Nat
  BY <1>1, VectorFields
<1>7. c \in [buf : Seq(S), vecs : Seq(Vector), max : Nat]
  BY <1>1, <1>2, <1>3, <1>5
<1>8. ASSUME NEW k \in 1 .. n + 1
      PROVE  c.vecs[k].ofs <= Len(c.buf) /\ c.vecs[k].final_idx <= c.max
  <2>1. CASE k = n + 1
    BY <1>1, <1>2, <1>3, <1>4, <1>5, <2>1
  <2>2. CASE k \in 1 .. n
    <3>1. c.vecs[k] = b.vecs[k] /\ b.vecs[k].ofs \in Nat /\ b.vecs[k].final_idx \in Nat
      BY <1>5, <1>6, <2>2
    <3>2. b.vecs[k].ofs <= Len(b.buf) /\ b.vecs[k].final_idx <= b.max
      BY <2>2 DEF GoodBuffer
    <3>3. b.max <= c.max
      BY <1>1, <1>2, <1>3
    <3>4. b.vecs[k].final_idx <= c.max
      BY <1>1, <1>2, <1>3, <3>1, <3>2, <3>3
    <3>. QED
      BY <1>2, <3>1, <3>2, <3>4
  <2>. QED
    BY <1>1, <2>1, <2>2
<1>9. ASSUME NEW k \in 1 .. n + 1, NEW l \in 1 .. n + 1, k < l
      PROVE  /\ c.vecs[k].ofs <= c.vecs[l].ofs
             /\ c.vecs[k].final_idx # c.vecs[l].final_idx
  <2>1. k \in 1 .. n
    BY <1>1, <1>9
  <2>2. CASE l = n + 1
    <3>1. c.vecs[k] = b.vecs[k] /\ b.vecs[k].ofs <= Len(b.buf) /\ b.vecs[k].final_idx # i
      BY <1>5, <2>1 DEF GoodBuffer, HasVector
    <3>. QED
      BY <1>4, <1>5, <2>2, <3>1
  <2>3. CASE l \in 1 .. n
    BY <1>5, <1>9, <2>1, <2>3 DEF GoodBuffer
  <2>. QED
    BY <1>1, <2>2, <2>3
<1>10. GoodBuffer(c, S)
  BY <1>5, <1>7, <1>8, <1>9 DEF GoodBuffer
<1>11. ASSUME NEW k \in 1 .. n PROVE VectorAt(c, k) = VectorAt(b, k)
  <2>1. c.vecs[k] = b.vecs[k]
    BY <1>5
  <2>2. CASE k < n
    <3>1. k + 1 \in 1 .. n /\ k < n + 1
      BY <1>1, <2>2
    <3>2. VectorEnd(c, k) = VectorEnd(b, k)
      BY <1>5, <2>2, <3>1 DEF VectorEnd
    <3>. QED
      BY <1>2, <2>1, <3>2 DEF VectorAt
  <2>3. CASE k = n
    <3>1. k < n + 1 /\ ~(k < n)
      BY <1>1, <2>3
    <3>2. VectorEnd(c, k) = Len(b.buf) /\ VectorEnd(b, k) = Len(b.buf)
      BY <1>4, <1>5, <2>3, <3>1 DEF VectorEnd
    <3>. QED
      BY <1>2, <2>1, <3>2 DEF VectorAt
  <2>. QED
    BY <1>1, <2>2, <2>3
<1>12. In(VectorAt(c, n + 1)) = {}
  <2>1. n + 1 \in 1 .. Len(c.vecs) /\ ~(n + 1 < Len(c.vecs))
    BY <1>1, <1>5
  <2>2. VectorEnd(c, n + 1) = Len(b.buf) /\ c.vecs[n + 1].ofs = Len(b.buf)
    BY <1>2, <1>4, <1>5, <2>1 DEF VectorEnd
  <2>3. \A x : x \in In(VectorAt(c, n + 1)) <=> \E l \in Len(b.buf) + 1 .. Len(b.buf) : c.buf[l] = x
    BY SMTT(30), <1>10, <2>1, <2>2, VectorIsList
  <2>. QED
    BY <1>1, <2>3
<1>13. LastVector(c) = i
  BY <1>4, <1>5 DEF LastVector
<1>. QED
  BY <1>5, <1>10, <1>11, <1>12, <1>13 DEF c

\* An element goes to the last vector, and to no other.
LEMMA ElementAdded ==
  ASSUME NEW S, NEW b, GoodBuffer(b, S), Len(b.vecs) # 0, NEW x \in S
  PROVE  LET c == AddElem(b, x) IN
         /\ GoodBuffer(c, S)
         /\ c.vecs = b.vecs
         /\ \A k \in 1 .. Len(b.vecs) :
              In(VectorAt(c, k)) = In(VectorAt(b, k)) \cup (IF k = Len(b.vecs) THEN {x} ELSE {})
<1>. DEFINE c == AddElem(b, x)
            n == Len(b.vecs)
<1>1. /\ b.buf \in Seq(S) /\ b.vecs \in Seq(Vector) /\ b.max \in Nat /\ n \in Nat
      /\ Len(b.buf) \in Nat
  BY DEF GoodBuffer
<1>2. /\ c.buf = Append(b.buf, x) /\ c.vecs = b.vecs /\ c.max = b.max
      /\ c = [buf |-> c.buf, vecs |-> c.vecs, max |-> c.max]
  BY DEF AddElem
<1>. HIDE DEF c
<1>3. /\ c.buf \in Seq(S) /\ Len(c.buf) = Len(b.buf) + 1 /\ c.buf[Len(b.buf) + 1] = x
      /\ \A k \in 1 .. Len(b.buf) : c.buf[k] = b.buf[k]
  BY <1>1, <1>2
<1>4. \A k \in 1 .. n : b.vecs[k] \in Vector /\ b.vecs[k].ofs \in Nat
  BY <1>1, VectorFields
<1>5. c \in [buf : Seq(S), vecs : Seq(Vector), max : Nat]
  BY <1>1, <1>2, <1>3
<1>6. ASSUME NEW k \in 1 .. n PROVE c.vecs[k].ofs <= Len(c.buf)
  <2>1. b.vecs[k].ofs \in Nat /\ b.vecs[k].ofs <= Len(b.buf)
    BY <1>4 DEF GoodBuffer
  <2>. QED
    BY <1>1, <1>2, <1>3, <2>1
<1>7. GoodBuffer(c, S)
  BY <1>2, <1>5, <1>6 DEF GoodBuffer
<1>8. ASSUME NEW k \in 1 .. n
      PROVE  In(VectorAt(c, k)) = In(VectorAt(b, k)) \cup (IF k = n THEN {x} ELSE {})
  <2>. DEFINE o == b.vecs[k].ofs
  <2>0. /\ \A y : y \in In(VectorAt(b, k)) <=> \E l \in o + 1 .. VectorEnd(b, k) : b.buf[l] = y
        /\ o \in Nat /\ VectorEnd(b, k) \in Nat
        /\ o <= VectorEnd(b, k) /\ VectorEnd(b, k) <= Len(b.buf)
    BY VectorIsList, VectorBounds
  <2>01. k \in 1 .. Len(c.vecs) /\ c.vecs[k].ofs = o
    BY <1>2
  <2>02. \A y : y \in In(VectorAt(c, k)) <=>
             \E l \in c.vecs[k].ofs + 1 .. VectorEnd(c, k) : c.buf[l] = y
    BY <1>7, <2>01, VectorIsList
  <2>1. /\ \A y : y \in In(VectorAt(b, k)) <=> \E l \in o + 1 .. VectorEnd(b, k) : b.buf[l] = y
        /\ \A y : y \in In(VectorAt(c, k)) <=> \E l \in o + 1 .. VectorEnd(c, k) : c.buf[l] = y
        /\ o \in Nat /\ VectorEnd(b, k) \in Nat
        /\ o <= VectorEnd(b, k) /\ VectorEnd(b, k) <= Len(b.buf)
    BY <2>0, <2>01, <2>02
  <2>. HIDE DEF o
  <2>2. \A l \in o + 1 .. VectorEnd(b, k) : c.buf[l] = b.buf[l]
    BY SMTT(30), <1>1, <1>3, <2>1
  <2>3. CASE k < n
    <3>1. VectorEnd(c, k) = VectorEnd(b, k) /\ k # n
      BY <1>1, <1>2, <2>3 DEF VectorEnd
    <3>2. \A y : y \in In(VectorAt(c, k)) <=> y \in In(VectorAt(b, k))
      BY <2>1, <2>2, <3>1
    <3>. QED
      BY <3>1, <3>2
  <2>4. CASE k = n
    <3>1. ~(k < n)
      BY <1>1, <2>4
    <3>2. VectorEnd(b, k) = Len(b.buf) /\ VectorEnd(c, k) = Len(b.buf) + 1
      BY <1>2, <1>3, <3>1 DEF VectorEnd
    <3>3. \A y : (\E l \in o + 1 .. Len(b.buf) + 1 : c.buf[l] = y) <=>
                 (\E l \in o + 1 .. Len(b.buf) : c.buf[l] = y) \/ c.buf[Len(b.buf) + 1] = y
      BY <1>1, <2>1, <3>2
    <3>4. ASSUME NEW y PROVE y \in In(VectorAt(c, k)) <=> y \in In(VectorAt(b, k)) \/ y = x
      <4>1. y \in In(VectorAt(c, k)) <=> \E l \in o + 1 .. Len(b.buf) + 1 : c.buf[l] = y
        BY <2>1, <3>2
      <4>2. (\E l \in o + 1 .. Len(b.buf) : c.buf[l] = y) <=>
            (\E l \in o + 1 .. Len(b.buf) : b.buf[l] = y)
        BY <2>2, <3>2
      <4>3. y \in In(VectorAt(b, k)) <=> \E l \in o + 1 .. Len(b.buf) : b.buf[l] = y
        BY <2>1, <3>2
      <4>. QED
        BY <1>3, <3>3, <4>1, <4>2, <4>3
    <3>. QED
      BY <2>4, <3>4
  <2>. QED
    BY <1>1, <2>3, <2>4
<1>. QED
  BY <1>2, <1>7, <1>8 DEF c

\* What to_vectors assigns to index i, which held old.
Assigned(b, i, old) ==
    IF b.buf = <<>> THEN IF i <= b.max THEN <<>> ELSE old
    ELSE LET K == {k \in 1 .. Len(b.vecs) : b.vecs[k].final_idx = i} IN
         IF K = {} THEN old ELSE VectorAt(b, CHOOSE k \in K : \A l \in K : l <= k)

\* Each vector is handed back where it belongs; the others keep what they had,
\* unless nothing was added at all.
LEMMA VectorsHandedBack ==
  ASSUME NEW S, NEW b, GoodBuffer(b, S), NEW to \in [Item -> Seq(S)]
  PROVE  /\ ToVectors(b, to) \in [Item -> Seq(S)]
         /\ \A k \in 1 .. Len(b.vecs) :
              In(ToVectors(b, to)[b.vecs[k].final_idx]) = In(VectorAt(b, k))
         /\ \A i \in Item : ~HasVector(b, i) /\ b.buf # <<>> => ToVectors(b, to)[i] = to[i]
<1>. DEFINE t == ToVectors(b, to)
<1>1. /\ b.buf \in Seq(S) /\ b.vecs \in Seq(Vector) /\ b.max \in Nat
  BY DEF GoodBuffer
<1>2. ASSUME NEW k \in 1 .. Len(b.vecs)
      PROVE  b.vecs[k].final_idx \in Item /\ b.vecs[k].final_idx <= b.max
  BY <1>1, VectorFields DEF GoodBuffer
<1>3. CASE b.buf = <<>>
  <2>1. t = [i \in Item |-> IF i <= b.max THEN <<>> ELSE to[i]]
    BY <1>3 DEF ToVectors
  <2>2. \A i \in Item : t[i] \in Seq(S)
    BY <2>1
  <2>3. ASSUME NEW k \in 1 .. Len(b.vecs)
        PROVE  In(t[b.vecs[k].final_idx]) = In(VectorAt(b, k))
    <3>1. t[b.vecs[k].final_idx] = <<>>
      BY <1>2, <2>1
    <3>2. \A x : x \in In(VectorAt(b, k)) <=>
             \E l \in b.vecs[k].ofs + 1 .. VectorEnd(b, k) : b.buf[l] = x
      BY VectorIsList
    <3>3. /\ b.vecs[k].ofs \in Nat /\ VectorEnd(b, k) \in Nat
          /\ VectorEnd(b, k) <= Len(b.buf) /\ Len(b.buf) = 0
      BY <1>3, VectorBounds
    <3>4. \A l \in b.vecs[k].ofs + 1 .. VectorEnd(b, k) : FALSE
      BY <3>3
    <3>5. In(VectorAt(b, k)) = {}
      BY <3>2, <3>4
    <3>. QED
      BY <3>1, <3>5, InEmpty
  <2>. QED
    BY <1>3, <2>1, <2>2, <2>3
<1>4. CASE b.buf # <<>>
  <2>. DEFINE K(i) == {k \in 1 .. Len(b.vecs) : b.vecs[k].final_idx = i}
  <2>1. ASSUME NEW i \in Item
        PROVE  t[i] = IF K(i) = {} THEN to[i]
                      ELSE VectorAt(b, CHOOSE k \in K(i) : \A l \in K(i) : l <= k)
    BY <1>4, Zenon DEF ToVectors
  <2>2. ASSUME NEW k \in 1 .. Len(b.vecs) PROVE t[b.vecs[k].final_idx] = VectorAt(b, k)
    <3>. DEFINE i == b.vecs[k].final_idx
    <3>1. \A l \in 1 .. Len(b.vecs) : b.vecs[l].final_idx = i <=> l = k
      BY <1>1 DEF GoodBuffer
    <3>2. \A l \in 1 .. Len(b.vecs) : l \in Int
      BY <1>1
    <3>3. K(i) = {k}
      BY <3>1
    <3>4. k \in K(i) /\ \A l \in K(i) : l <= k
      BY <3>2, <3>3
    <3>. DEFINE c == CHOOSE l \in K(i) : \A m \in K(i) : m <= l
    <3>5. c \in K(i)
      BY <3>4, Zenon
    <3>6. t[i] = VectorAt(b, c)
      BY <1>2, <2>1, <3>4, Zenon
    <3>7. c = k
      BY <3>3, <3>5, Zenon
    <3>. QED
      BY <3>6, <3>7, Zenon
  <2>3. ASSUME NEW i \in Item, ~HasVector(b, i) PROVE t[i] = to[i]
    <3>1. K(i) = {}
      BY <2>3 DEF HasVector
    <3>. QED
      BY <2>1, <3>1, Zenon
  <2>. HIDE DEF t
  <2>4. ASSUME NEW i \in Item PROVE t[i] \in Seq(S)
    <3>1. CASE HasVector(b, i)
      <4>1. PICK k \in 1 .. Len(b.vecs) : b.vecs[k].final_idx = i
        BY <3>1 DEF HasVector
      <4>. QED
        BY <2>2, <4>1, VectorIsList
    <3>2. CASE ~HasVector(b, i)
      BY <2>3, <3>2
    <3>. QED
      BY <3>1, <3>2
  <2>5. t \in [Item -> Seq(S)]
    <3>1. t = [i \in DOMAIN to |-> Assigned(b, i, to[i])] /\ DOMAIN to = Item
      BY DEF ToVectors, Assigned, t
    <3>. QED
      BY <2>4, <3>1
  <2>. QED
    BY <2>2, <2>3, <2>5 DEF t
<1>. QED
  BY <1>3, <1>4

\* The buffers of all kinds get a vector.
LEMMA AllStarted ==
  ASSUME NEW x, NEW y, NEW z, NEW i,
         NEW r, r = [file_deps |-> x, item_deps |-> y, imports |-> z]
  PROVE  [b \in DOMAIN r |-> NewVector(r[b], i)] =
           [file_deps |-> NewVector(x, i), item_deps |-> NewVector(y, i),
            imports |-> NewVector(z, i)]
  OBVIOUS

-----------------------------------------------------------------------------
(* What is included, and what is out of date *)

\* The least set of members of U with all that item i and its own members
\* include; c is content.
IncSet(c, U, i) ==
    {f \in U : \A X \in SUBSET U :
        (c[i].deps \subseteq X /\ \A h \in X \cap Item : c[h].deps \subseteq X) => f \in X}

IncIn(c, U, i) == IncSet(c, U, i) \ {i}

\* The least set of items with those of own and all whose row depends on a member.
OodOf(own, r) ==
    {i \in Item : \A X \in SUBSET Item :
        (\A j \in Item : j \in own \/ In(r[j].ideps) \cap X # {} => j \in X) => i \in X}

LEMMA IncludedIs ==
  \A i \in Item : Included(i) = IncIn(content, HeaderUnit \cup Header, i)
  BY DEF Included, IncIn, IncSet

LEMMA OodSetIs == OodSet = OodOf(OwnOod, rows)
  BY DEF OodSet, DepClosed, OodOf

\* IncSet is the least of its kind, where all that is included is in U.
LEMMA IncSetLeast ==
  ASSUME NEW c, NEW U, NEW i \in Item, \A j \in Item : c[j].deps \subseteq U
  PROVE  /\ IncSet(c, U, i) \in SUBSET U
         /\ c[i].deps \subseteq IncSet(c, U, i)
         /\ \A h \in IncSet(c, U, i) \cap Item : c[h].deps \subseteq IncSet(c, U, i)
         /\ \A X \in SUBSET U :
              (c[i].deps \subseteq X /\ \A h \in X \cap Item : c[h].deps \subseteq X)
                => IncSet(c, U, i) \subseteq X
<1>1. ASSUME NEW h \in IncSet(c, U, i) \cap Item, NEW f \in c[h].deps
      PROVE  f \in IncSet(c, U, i)
  <2>1. f \in U
    OBVIOUS
  <2>2. ASSUME NEW X \in SUBSET U, c[i].deps \subseteq X,
               \A g \in X \cap Item : c[g].deps \subseteq X
        PROVE  f \in X
    <3>1. h \in X
      BY <2>2 DEF IncSet
    <3>. QED
      BY <2>2, <3>1
  <2>. QED
    BY <2>1, <2>2 DEF IncSet
<1>. QED
  BY <1>1 DEF IncSet

\* What an item includes depends on its own content and that of what it includes.
LEMMA IncludedFrame ==
  ASSUME NEW c, NEW d, NEW U, NEW i \in Item,
         \A j \in Item : c[j].deps \subseteq U /\ d[j].deps \subseteq U,
         c[i].deps = d[i].deps,
         \A h \in IncIn(c, U, i) \cap Item : c[h].deps = d[h].deps
  PROVE  IncIn(d, U, i) = IncIn(c, U, i)
<1>. DEFINE R == IncSet(c, U, i)
            Q == IncSet(d, U, i)
<1>1. /\ R \in SUBSET U /\ c[i].deps \subseteq R
      /\ \A h \in R \cap Item : c[h].deps \subseteq R
      /\ \A X \in SUBSET U :
           (c[i].deps \subseteq X /\ \A h \in X \cap Item : c[h].deps \subseteq X) => R \subseteq X
  BY IncSetLeast
<1>2. /\ Q \in SUBSET U /\ d[i].deps \subseteq Q
      /\ \A h \in Q \cap Item : d[h].deps \subseteq Q
      /\ \A X \in SUBSET U :
           (d[i].deps \subseteq X /\ \A h \in X \cap Item : d[h].deps \subseteq X) => Q \subseteq X
  BY IncSetLeast
<1>3. \A h \in R \cap Item : c[h].deps = d[h].deps
  BY DEF IncIn
<1>. HIDE DEF R, Q
<1>4. Q \subseteq R
  BY <1>1, <1>2, <1>3
<1>5. R \subseteq Q
  BY <1>1, <1>2, <1>3, <1>4
<1>. QED
  BY <1>4, <1>5 DEF IncIn, R, Q

\* OodOf is the least of its kind.
LEMMA OodOfLeast ==
  ASSUME NEW own \in SUBSET Item, NEW r
  PROVE  /\ OodOf(own, r) \in SUBSET Item
         /\ own \subseteq OodOf(own, r)
         /\ \A j \in Item : In(r[j].ideps) \cap OodOf(own, r) # {} => j \in OodOf(own, r)
         /\ \A X \in SUBSET Item :
              (\A j \in Item : j \in own \/ In(r[j].ideps) \cap X # {} => j \in X)
                => OodOf(own, r) \subseteq X
<1>1. ASSUME NEW j \in Item, NEW h \in In(r[j].ideps) \cap OodOf(own, r)
      PROVE  j \in OodOf(own, r)
  <2>1. ASSUME NEW X \in SUBSET Item,
               \A k \in Item : k \in own \/ In(r[k].ideps) \cap X # {} => k \in X
        PROVE  j \in X
    <3>1. h \in X
      BY <2>1 DEF OodOf
    <3>. QED
      BY <2>1, <3>1
  <2>. QED
    BY <2>1 DEF OodOf
<1>. QED
  BY <1>1 DEF OodOf

\* The more items are out of date by themselves, the more are out of date.
LEMMA OodOfGrows ==
  ASSUME NEW own \in SUBSET Item, NEW more \in SUBSET Item, own \subseteq more, NEW r
  PROVE  OodOf(own, r) \subseteq OodOf(more, r)
<1>. DEFINE X == OodOf(more, r)
<1>1. /\ X \in SUBSET Item /\ more \subseteq X
      /\ \A j \in Item : In(r[j].ideps) \cap X # {} => j \in X
  BY OodOfLeast
<1>. HIDE DEF X
<1>2. OodOf(own, r) \subseteq X
  BY <1>1, OodOfLeast
<1>. QED
  BY <1>2 DEF X

-----------------------------------------------------------------------------
(* The invariant *)

Row == [saved : BOOLEAN, exp : Module \cup {NoModule}, imps : Seq(Module),
        fdeps : Seq(Header), ideps : Seq(HeaderUnit)]

Report == [times : Nat, finished : Nat, ood : BOOLEAN, exp : Module \cup {NoModule},
           imps : SUBSET Module, fdeps : SUBSET Header, ideps : SUBSET HeaderUnit]

FilesOK ==
    /\ world \in Worlds
    /\ content \in [Item -> Content]
    /\ \A i \in Item : content[i] \in world.says[i]
    /\ edits \in 0 .. MaxEdits

\* A row's export is one that the file has had.
RowsOK ==
    /\ rows \in [Item -> Row]
    /\ current \subseteq {i \in Item : rows[i].saved}
    /\ \A i \in Item : rows[i].exp = NoModule \/ \E c \in world.says[i] : c.exp = rows[i].exp

VarsOK ==
    /\ pc \in {"idle", "stream", "collate", "save"}
    /\ cur \in Item
    /\ got \in [Item -> BOOLEAN]
    /\ mods \in [exports : [Item -> Module \cup {NoModule}], imports : [Item -> Seq(Module)]]
    /\ deps \in [file_deps : [Item -> Seq(Header)], item_deps : [Item -> Seq(HeaderUnit)]]
    /\ sdeps \in [Item -> Seq(HeaderUnit)]
    /\ told \in [Item -> Report]
    /\ lines \in [exp : Module \cup {NoModule}, imps : SUBSET Module,
                  deps : SUBSET (HeaderUnit \cup Header)]

\* Between scans.
IdleOK ==
    pc = "idle" =>
        /\ ood = <<>> /\ todo = {} /\ lines = NoLines
        /\ \A i \in Item : ~got[i]
        /\ bufs = NoBuffers

\* The out-of-date items are listed; those that are not to be reported any more
\* have been, and without failures all are.
OodOK ==
    pc # "idle" =>
        /\ ood = Ascending(OodSet)
        /\ todo \subseteq 1 .. Len(ood)
        /\ \A k \in 1 .. Len(ood) : got[ood[k]] <=> k \notin todo
        /\ \A i \in Item : got[i] => i \in OodSet
        /\ pc = "stream" => ood # <<>>
        /\ pc # "stream" /\ ~world.fails => todo = {}

\* Buffer b has a vector for each item that was reported, which holds of[i].
BufferOK(b, S, of) ==
    /\ GoodBuffer(b, S)
    /\ \A i \in Item : HasVector(b, i) <=> got[i]
    /\ Holds(b, of)
    /\ lines # NoLines => Len(b.vecs) # 0 /\ LastVector(b) = cur

BuffersOK ==
    /\ bufs = [file_deps |-> bufs.file_deps, item_deps |-> bufs.item_deps,
               imports |-> bufs.imports]
    /\ BufferOK(bufs.imports, Module, [i \in Item |-> told[i].imps])
    /\ BufferOK(bufs.file_deps, Header, [i \in Item |-> told[i].fdeps])
    /\ BufferOK(bufs.item_deps, HeaderUnit, [i \in Item |-> told[i].ideps])

LinesOK == lines # NoLines => pc = "stream" /\ got[cur]

\* The lines of item i that are yet to come.
Pending(i) == IF i = cur THEN lines ELSE NoLines

\* What the search for changed item dependencies may have left of its list.
KeptDeps(i) == IF i \in Entered THEN In(rows[i].ideps) ELSE {}

\* What has been told of an item that was reported, and what is yet to come, is
\* what its file says.
ReportsOK ==
    \A i \in Item : got[i] =>
        /\ told[i].times = 1 /\ told[i].ood
        /\ told[i].imps \cup Pending(i).imps = content[i].imps
        /\ told[i].fdeps \cup (Pending(i).deps \cap Header) = Included(i) \cap Header
        /\ told[i].ideps \cup (Pending(i).deps \cap HeaderUnit) = Included(i) \cap HeaderUnit
        /\ told[i].ideps \subseteq In(sdeps[i])
        /\ In(sdeps[i]) \subseteq told[i].ideps \cup KeptDeps(i)
        /\ IF Pending(i).exp = NoModule
           THEN /\ told[i].exp = content[i].exp
                /\ mods.exports[i] = IF content[i].exp = NoModule THEN rows[i].exp
                                     ELSE content[i].exp
           ELSE Pending(i).exp = content[i].exp

\* The tool is at one of the items it has reported; the others are finished.
FinishedOK ==
    \A i \in Item : got[i] =>
        /\ got[cur]
        /\ told[i].finished = IF pc = "stream" /\ i = cur THEN 0 ELSE 1

\* Of the others the scan knows what their rows say, and tells it if they are up
\* to date.
RestOK ==
    pc # "idle" => \A i \in Item : ~got[i] =>
        /\ told[i] = IF i \in OodSet THEN NotTold ELSE ToldOfRow(i)
        /\ mods.exports[i] = rows[i].exp
        /\ IF i \in OodSet THEN In(sdeps[i]) \subseteq KeptDeps(i)
           ELSE sdeps[i] = rows[i].ideps

ImportsOK ==
    /\ pc = "stream" => \A i \in Item : mods.imports[i] = rows[i].imps
    /\ pc \in {"collate", "save"} /\ ~NoImportSeen =>
         \A i \in Item : ~got[i] => mods.imports[i] = rows[i].imps

\* The spans are what was told.
SpansOK ==
    pc \in {"collate", "save"} => \A i \in Item : got[i] =>
        /\ In(mods.imports[i]) = told[i].imps
        /\ In(deps.file_deps[i]) = told[i].fdeps
        /\ In(deps.item_deps[i]) = told[i].ideps

Resolvable == ~Ambiguous(mods.exports)
                /\ ~Unresolved(mods.exports, [i \in Item |-> In(mods.imports[i])])

\* The graph as a relation.
GraphOK ==
    pc = "save" =>
        /\ collated.success = Resolvable
        /\ collated.success =>
             /\ collated.exports = mods.exports
             /\ \A i \in Item :
                  /\ collated.imports_item[i] \in Seq(Item)
                  /\ In(collated.imports_item[i]) =
                       {j \in Item : mods.exports[j] \in In(mods.imports[i]) \ {StdCore}}
                         \cup In(sdeps[i])

IInv ==
    /\ FilesOK /\ RowsOK /\ VarsOK
    /\ IdleOK /\ OodOK /\ BuffersOK /\ LinesOK
    /\ ReportsOK /\ FinishedOK /\ RestOK /\ ImportsOK /\ SpansOK /\ GraphOK

\* A row that says what the file says.
RightRow(i) ==
    /\ In(rows[i].imps) = content[i].imps
    /\ In(rows[i].fdeps) = Included(i) \cap Header
    /\ In(rows[i].ideps) = Included(i) \cap HeaderUnit

\* Where the tool may fail, a dependency can come up to date without the items
\* that depend on it.
RowsRight == \A i \in IF world.fails THEN current ELSE Item \ OodSet : RightRow(i)

ExportsRight == \A i \in current : rows[i].exp = content[i].exp

-----------------------------------------------------------------------------
(* What does not change *)

\* What the situation says of the files.
LEMMA FileFacts ==
  ASSUME FilesOK
  PROVE  /\ HeaderUnit \subseteq Item /\ HeaderUnit \cap Header = {}
         /\ world.fails \in BOOLEAN
         /\ \A i \in Item : /\ world.says[i] \subseteq Content
                            /\ content[i] \in Content
                            /\ content[i].exp \in Module \cup {NoModule}
                            /\ content[i].imps \subseteq Module
                            /\ content[i].deps \subseteq HeaderUnit \cup Header
         /\ \A i \in Item : Included(i) \subseteq HeaderUnit \cup Header
<1>1. world \in World /\ world.hu \in SUBSET Item /\ world.says \in [Item -> SUBSET Content]
      /\ world.fails \in BOOLEAN
  BY OutputAssumption DEF FilesOK, World
<1>2. HeaderUnit \subseteq Item /\ HeaderUnit \cap Header = {}
  BY <1>1, OutputAssumption DEF HeaderUnit
<1>3. ASSUME NEW i \in Item
      PROVE  /\ world.says[i] \subseteq Content
             /\ content[i] \in Content
             /\ content[i].exp \in Module \cup {NoModule}
             /\ content[i].imps \subseteq Module
             /\ content[i].deps \subseteq HeaderUnit \cup Header
  <2>1. content[i] \in Content /\ content[i] \in world.says[i] /\ world \in Worlds
    BY DEF FilesOK
  <2>2. content[i].deps \subseteq world.hu \cup Header
    BY <2>1, OutputAssumption
  <2>. QED
    BY <1>1, <2>1, <2>2 DEF Content, HeaderUnit
<1>4. \A i \in Item : Included(i) \subseteq HeaderUnit \cup Header
  BY DEF Included
<1>. QED
  BY <1>1, <1>2, <1>3, <1>4

\* While the files rest, so does what they include.
LEMMA FilesRest ==
  ASSUME UNCHANGED files
  PROVE  /\ UNCHANGED <<world, content, edits, HeaderUnit>>
         /\ FilesOK => FilesOK'
         /\ \A i \in Item : Included(i)' = Included(i)
<1>1. world' = world /\ content' = content /\ edits' = edits /\ HeaderUnit' = HeaderUnit
  BY DEF files, HeaderUnit
<1>2. ASSUME NEW i \in Item PROVE Included(i)' = Included(i)
  BY <1>1 DEF Included
<1>3. FilesOK => FilesOK'
  BY <1>1 DEF FilesOK
<1>. QED
  BY <1>1, <1>2, <1>3

\* While the rows rest, so does what they say of the items.
LEMMA RowsRest ==
  ASSUME UNCHANGED <<files, db>>
  PROVE  /\ UNCHANGED <<rows, current, OwnOod, OodSet, Entered, Row, Report>>
         /\ RowsOK => RowsOK'
         /\ \A i \in Item : UNCHANGED <<KeptDeps(i), ToldOfRow(i)>>
<1>1. rows' = rows /\ current' = current /\ world' = world /\ HeaderUnit' = HeaderUnit
  BY DEF db, files, HeaderUnit
<1>2. OwnOod' = OwnOod
  BY <1>1 DEF OwnOod
<1>3. OodSet' = OodSet
  BY <1>1, <1>2 DEF OodSet, DepClosed
<1>4. Entered' = Entered
  BY <1>1, <1>2, <1>3 DEF Entered
<1>5. Row' = Row /\ Report' = Report
  BY <1>1 DEF Row, Report
<1>6. RowsOK => RowsOK'
  BY <1>1, <1>5 DEF RowsOK
<1>7. \A i \in Item : UNCHANGED <<KeptDeps(i), ToldOfRow(i)>>
  BY <1>1, <1>4 DEF KeptDeps, ToldOfRow
<1>. QED
  BY <1>1, <1>2, <1>3, <1>4, <1>5, <1>6, <1>7

\* The out-of-date items are items, and contain those that are by themselves.
LEMMA OodFacts ==
  /\ OwnOod \subseteq OodSet /\ OodSet \subseteq Item
  /\ \A j \in Item : In(rows[j].ideps) \cap OodSet # {} => j \in OodSet
  /\ OodSet \in SUBSET Nat /\ IsFiniteSet(OodSet)
<1>1. OwnOod \in SUBSET Item
  BY DEF OwnOod
<1>2. /\ OodOf(OwnOod, rows) \in SUBSET Item /\ OwnOod \subseteq OodOf(OwnOod, rows)
      /\ \A j \in Item : In(rows[j].ideps) \cap OodOf(OwnOod, rows) # {}
                            => j \in OodOf(OwnOod, rows)
  BY <1>1, OodOfLeast
<1>. QED
  BY <1>2, OodSetIs, ItemsAreNumbers, FS_Subset

\* The list of the out-of-date items.
LEMMA OodList ==
  ASSUME ood = Ascending(OodSet)
  PROVE  /\ ood \in Seq(Item) /\ In(ood) = OodSet /\ Len(ood) \in Nat
         /\ \A k \in 1 .. Len(ood) : ood[k] \in OodSet
         /\ \A k, l \in 1 .. Len(ood) : ood[k] = ood[l] => k = l
<1>1. /\ ood \in Seq(OodSet) /\ In(ood) = OodSet
      /\ \A k, l \in 1 .. Len(ood) : ood[k] = ood[l] => k = l
  BY AscendingLists, OodFacts
<1>2. OodSet \subseteq Item
  BY OodFacts
<1>. HIDE DEF OodSet
<1>. QED
  BY <1>1, <1>2

-----------------------------------------------------------------------------
(* Every step preserves the invariant *)

\* An empty buffer holds nothing of anything.
LEMMA EmptyHolds ==
  ASSUME NEW S, NEW of
  PROVE  /\ GoodBuffer(EmptyBuffer, S) /\ Holds(EmptyBuffer, of)
         /\ \A i : ~HasVector(EmptyBuffer, i)
  BY GoodEmpty DEF HasVector, Holds

\* The initial states.
LEMMA InitIInv == Init => IInv
<1>. SUFFICES ASSUME Init PROVE IInv
  OBVIOUS
<1>1. world \in Worlds /\ world.says \in [Item -> SUBSET Content]
  BY OutputAssumption DEF Init, World
<1>2. FilesOK
  <2>1. content \in [Item -> UNION {world.says[i] : i \in Item}]
        /\ \A i \in Item : content[i] \in world.says[i]
    BY DEF Init
  <2>2. \A i \in Item : content[i] \in Content
    BY <1>1, <2>1
  <2>3. content \in [Item -> Content]
    BY <2>1, <2>2
  <2>. QED
    BY <1>1, <2>1, <2>3, OutputAssumption DEF Init, FilesOK
<1>3. RowsOK
  BY DEF Init, RowsOK, NoRow, Row
<1>4. VarsOK
  BY ItemsAreNumbers DEF Init, VarsOK, NoMods, NoDeps, Empty, NotTold, Report, NoLines
<1>5. BuffersOK
  <2>1. ASSUME NEW S, NEW of PROVE BufferOK(EmptyBuffer, S, of)
    BY EmptyHolds DEF Init, BufferOK
  <2>2. /\ bufs.imports = EmptyBuffer /\ bufs.file_deps = EmptyBuffer
        /\ bufs.item_deps = EmptyBuffer
        /\ bufs = [file_deps |-> bufs.file_deps, item_deps |-> bufs.item_deps,
                   imports |-> bufs.imports]
    BY DEF Init, NoBuffers
  <2>. QED
    BY <2>1, <2>2 DEF BuffersOK
<1>6. IdleOK /\ OodOK /\ LinesOK /\ ReportsOK /\ RestOK /\ ImportsOK /\ SpansOK /\ GraphOK
  BY DEF Init, IdleOK, OodOK, LinesOK, ReportsOK, RestOK, ImportsOK, SpansOK, GraphOK
<1>7. FinishedOK
  BY DEF Init, FinishedOK
<1>. QED
  BY <1>2, <1>3, <1>4, <1>5, <1>6, <1>7 DEF IInv

\* The item the tool is at is the one that is finished next.
LEMMA NextFinished ==
  ASSUME IInv, pc = "stream"
  PROVE  /\ Finished \in [Item -> Report]
         /\ \A i \in Item :
              /\ i # cur \/ ~got[i] => Finished[i] = told[i]
              /\ got[i] => Finished[i].finished = 1
              /\ Finished[i].times = told[i].times /\ Finished[i].ood = told[i].ood
              /\ Finished[i].exp = told[i].exp /\ Finished[i].imps = told[i].imps
              /\ Finished[i].fdeps = told[i].fdeps /\ Finished[i].ideps = told[i].ideps
<1>1. told \in [Item -> Report] /\ cur \in Item /\ FinishedOK
  BY DEF IInv, VarsOK
<1>2. CASE \A i \in Item : ~got[i]
  <2>1. Finished = told
    BY <1>2 DEF Finished
  <2>. QED
    BY <1>1, <1>2, <2>1
<1>3. CASE \E i \in Item : got[i]
  <2>1. Finished = [told EXCEPT ![cur].finished = @ + 1] /\ got[cur]
    BY <1>1, <1>3 DEF Finished, FinishedOK
  <2>2. \A i \in Item : got[i] => told[i].finished = IF i = cur THEN 0 ELSE 1
    BY <1>1 DEF FinishedOK
  <2>. QED
    BY <1>1, <2>1, <2>2 DEF Report
<1>. QED
  BY <1>2, <1>3

\* No step ends an item twice, or forgets to.
LEMMA StepFinished == ASSUME IInv, Next \/ UNCHANGED vars PROVE FinishedOK'
<1>1. /\ told \in [Item -> Report] /\ got \in [Item -> BOOLEAN] /\ cur \in Item
      /\ FinishedOK /\ IdleOK /\ OodOK
  BY DEF IInv, VarsOK
<1>2. CASE UNCHANGED <<pc, cur, got>> /\ \A i \in Item : told'[i].finished = told[i].finished
  BY <1>1, <1>2 DEF FinishedOK
<1>3. CASE UNCHANGED vars
  BY <1>2, <1>3 DEF vars
<1>4. ASSUME NEW i \in Item, Edit(i) PROVE FinishedOK'
  BY <1>2, <1>4 DEF Edit
<1>5. CASE BeginScan
  BY <1>1, <1>5 DEF BeginScan, FinishedOK, IdleOK
<1>6. ASSUME NEW k \in todo, HeaderLine(k) PROVE FinishedOK'
  <2>1. /\ pc = "stream" /\ pc' = "stream" /\ cur' = ood[k]
        /\ got' = [got EXCEPT ![cur'] = TRUE]
        /\ told' = [Finished EXCEPT ![cur'] =
                       [NotTold EXCEPT !.times = told[cur'].times + 1, !.ood = TRUE]]
    BY <1>6 DEF HeaderLine, Streaming
  <2>2. cur' \in Item /\ ~got[cur']
    BY <1>1, <2>1, OodList DEF OodOK
  <2>3. /\ Finished \in [Item -> Report]
        /\ \A i \in Item : got[i] => Finished[i].finished = 1
    BY <2>1, NextFinished
  <2>4. told'[cur'].finished = 0 /\ got'[cur']
    BY <1>1, <2>1, <2>2, <2>3 DEF NotTold
  <2>5. \A i \in Item : i # cur' => told'[i] = Finished[i] /\ got'[i] = got[i]
    BY <1>1, <2>1, <2>2, <2>3
  <2>. QED
    BY <2>1, <2>3, <2>4, <2>5 DEF FinishedOK
<1>7. CASE ExpLine
  BY <1>1, <1>2, <1>7 DEF ExpLine, Streaming, Report
<1>8. ASSUME NEW m \in Module, ImpLine(m) PROVE FinishedOK'
  BY <1>1, <1>2, <1>8 DEF ImpLine, Streaming, Report
<1>9. ASSUME NEW f \in HeaderUnit \cup Header, DepLine(f) PROVE FinishedOK'
  <2>1. /\ UNCHANGED <<pc, cur, got>>
        /\ \/ told' = [told EXCEPT ![cur].ideps = @ \cup {f}]
           \/ told' = [told EXCEPT ![cur].fdeps = @ \cup {f}]
    BY <1>9 DEF DepLine, Streaming
  <2>2. \A i \in Item : told'[i].finished = told[i].finished
    BY <1>1, <2>1 DEF Report
  <2>. QED
    BY <1>2, <2>1, <2>2
<1>10. CASE ToolExit
  <2>1. pc = "stream" /\ pc' = "collate" /\ UNCHANGED <<cur, got>> /\ told' = Finished
    BY <1>10 DEF ToolExit
  <2>2. \A i \in Item : got[i] => Finished[i].finished = 1
    BY <2>1, NextFinished
  <2>. QED
    BY <1>1, <2>1, <2>2 DEF FinishedOK
<1>11. CASE Collate
  BY <1>1, <1>11 DEF Collate, FinishedOK
<1>12. CASE Save
  BY <1>12 DEF Save, Leave, FinishedOK
<1>. QED
  BY <1>3, <1>4, <1>5, <1>6, <1>7, <1>8, <1>9, <1>10, <1>11, <1>12 DEF Next

\* Files change between scans.
LEMMA StepEdit == ASSUME IInv, NEW i \in Item, Edit(i) PROVE IInv'
<1>1. FilesOK /\ RowsOK /\ VarsOK /\ IdleOK /\ BuffersOK /\ pc = "idle"
  BY DEF IInv, Edit
<1>2. /\ UNCHANGED <<world, rows, pc, ood, todo, lines, cur, got, mods, deps, sdeps, bufs, told,
                     collated, HeaderUnit>>
      /\ edits < MaxEdits /\ edits' = edits + 1 /\ current' = current \ {i}
  BY DEF Edit, HeaderUnit
<1>3. FilesOK'
  <2>1. PICK c \in world.says[i] : content' = [content EXCEPT ![i] = c]
    BY DEF Edit
  <2>2. c \in Content
    BY <1>1, FileFacts
  <2>3. content' \in [Item -> Content] /\ \A j \in Item : content'[j] \in world.says[j]
    BY <1>1, <2>1, <2>2 DEF FilesOK
  <2>4. edits' \in 0 .. MaxEdits
    BY <1>1, <1>2, OutputAssumption DEF FilesOK
  <2>. QED
    BY <1>1, <1>2, <2>3, <2>4 DEF FilesOK
<1>4. Row' = Row /\ Report' = Report
  BY <1>2 DEF Row, Report
<1>5. RowsOK'
  BY <1>1, <1>2, <1>4 DEF RowsOK
<1>6. VarsOK' /\ IdleOK'
  BY <1>1, <1>2, <1>4 DEF VarsOK, IdleOK
<1>7. BuffersOK'
  BY <1>1, <1>2 DEF BuffersOK, BufferOK
<1>8. OodOK' /\ LinesOK' /\ ReportsOK' /\ RestOK' /\ ImportsOK' /\ SpansOK' /\ GraphOK'
  BY <1>1, <1>2 DEF OodOK, LinesOK, IdleOK, ReportsOK, RestOK, ImportsOK, SpansOK, GraphOK
<1>20. FinishedOK'
  BY StepFinished DEF Next
<1>. QED
  BY <1>20, <1>3, <1>5, <1>6, <1>7, <1>8 DEF IInv

\* A scan begins with the rows.
LEMMA StepBegin == ASSUME IInv, BeginScan PROVE IInv'
<1>1. /\ FilesOK /\ RowsOK /\ VarsOK /\ IdleOK /\ BuffersOK /\ pc = "idle"
      /\ lines = NoLines /\ bufs = NoBuffers /\ \A i \in Item : ~got[i]
  BY DEF IInv, BeginScan, IdleOK
<1>2. UNCHANGED <<files, db, lines, cur, got, bufs, collated>>
  BY DEF BeginScan
<1>3. /\ FilesOK' /\ RowsOK' /\ OodSet' = OodSet /\ HeaderUnit' = HeaderUnit
      /\ rows' = rows /\ Entered' = Entered /\ Row' = Row /\ Report' = Report
      /\ \A i \in Item : KeptDeps(i)' = KeptDeps(i) /\ ToldOfRow(i)' = ToldOfRow(i)
  BY <1>1, <1>2, FilesRest, RowsRest
<1>4. /\ pc' \in {"collate", "stream"} /\ (pc' = "collate" => OodSet = {})
      /\ ood' = Ascending(OodSet) /\ todo' = 1 .. Len(ood')
      /\ mods' = [exports |-> [i \in Item |-> rows[i].exp],
                  imports |-> [i \in Item |-> rows[i].imps]]
      /\ deps' = [file_deps |-> [i \in Item |-> rows[i].fdeps],
                  item_deps |-> [i \in Item |-> rows[i].ideps]]
      /\ told' = [i \in Item |-> IF i \in OodSet THEN NotTold ELSE ToldOfRow(i)]
  BY DEF BeginScan
<1>5. PICK kept \in SUBSET Entered :
        sdeps' = [i \in Item |-> IF i \in OodSet \ kept THEN <<>> ELSE rows[i].ideps]
  BY DEF BeginScan
<1>6. \A i \in Item : /\ rows[i] \in Row
                      /\ rows[i].exp \in Module \cup {NoModule}
                      /\ rows[i].imps \in Seq(Module)
                      /\ rows[i].fdeps \in Seq(Header)
                      /\ rows[i].ideps \in Seq(HeaderUnit)
  BY <1>1 DEF RowsOK, Row
<1>7. \A i \in Item : ToldOfRow(i) \in Report /\ NotTold \in Report
  <2>. SUFFICES ASSUME NEW i \in Item PROVE ToldOfRow(i) \in Report /\ NotTold \in Report
    OBVIOUS
  <2>1. /\ In(rows[i].imps) \subseteq Module /\ In(rows[i].fdeps) \subseteq Header
        /\ In(rows[i].ideps) \subseteq HeaderUnit
    BY <1>6, InSeq
  <2>. QED
    BY <1>6, <2>1 DEF ToldOfRow, NotTold, Report
<1>8. VarsOK'
  <2>1. /\ mods' \in [exports : [Item -> Module \cup {NoModule}], imports : [Item -> Seq(Module)]]
        /\ deps' \in [file_deps : [Item -> Seq(Header)], item_deps : [Item -> Seq(HeaderUnit)]]
    BY <1>4, <1>6
  <2>2. sdeps' \in [Item -> Seq(HeaderUnit)]
    BY <1>5, <1>6
  <2>3. told' \in [Item -> Report]
    BY <1>4, <1>7
  <2>. QED
    BY <1>1, <1>2, <1>3, <1>4, <2>1, <2>2, <2>3 DEF VarsOK
<1>9. /\ ood' \in Seq(OodSet) /\ Len(ood') \in Nat
      /\ (OodSet = {} => Len(ood') = 0)
  <2>1. ood' \in Seq(OodSet)
    BY <1>4, AscendingLists, OodFacts
  <2>. HIDE DEF OodSet
  <2>. QED
    BY <2>1
<1>10. IdleOK' /\ LinesOK'
  BY <1>1, <1>2, <1>4 DEF IdleOK, LinesOK
<1>11. OodOK'
  <2>1. \A k \in 1 .. Len(ood') : ood'[k] \in Item /\ k \in todo'
    <3>1. OodSet \subseteq Item
      BY OodFacts
    <3>. HIDE DEF OodSet
    <3>. QED
      BY <1>4, <1>9, <3>1
  <2>2. pc' # "stream" => todo' = {}
    BY <1>4, <1>9
  <2>3. pc' = "stream" => ood' # <<>>
    <3>1. pc' = "stream" => OodSet # {}
      BY DEF BeginScan
    <3>2. In(ood') = OodSet
      BY <1>4, AscendingLists, OodFacts
    <3>. HIDE DEF OodSet
    <3>. QED
      BY <3>1, <3>2, InEmpty
  <2>. QED
    BY <1>1, <1>2, <1>3, <1>4, <2>1, <2>2, <2>3 DEF OodOK
<1>12. BuffersOK'
  <2>1. /\ bufs' = bufs /\ got' = got /\ lines' = NoLines
        /\ bufs.imports = EmptyBuffer /\ bufs.file_deps = EmptyBuffer
        /\ bufs.item_deps = EmptyBuffer
        /\ bufs = [file_deps |-> bufs.file_deps, item_deps |-> bufs.item_deps,
                   imports |-> bufs.imports]
    BY <1>1, <1>2 DEF NoBuffers
  <2>2. \A S, of : /\ GoodBuffer(EmptyBuffer, S) /\ Holds(EmptyBuffer, of)
                   /\ \A i \in Item : HasVector(EmptyBuffer, i) <=> got'[i]
    BY <1>1, <2>1, EmptyHolds
  <2>3. \A S, of : BufferOK(bufs.imports, S, of)' /\ BufferOK(bufs.file_deps, S, of)'
                     /\ BufferOK(bufs.item_deps, S, of)'
    BY <2>1, <2>2 DEF BufferOK
  <2>. QED
    BY <1>3, <2>1, <2>3 DEF BuffersOK
<1>13. RestOK' /\ ReportsOK'
  <2>1. ASSUME NEW i \in Item
        PROVE  /\ told'[i] = IF i \in OodSet THEN NotTold ELSE ToldOfRow(i)
               /\ mods'.exports[i] = rows[i].exp
               /\ IF i \in OodSet THEN In(sdeps'[i]) \subseteq KeptDeps(i)
                  ELSE sdeps'[i] = rows[i].ideps
    <3>1. CASE i \in OodSet \ kept
      <4>1. sdeps'[i] = <<>>
        BY <1>5, <3>1
      <4>. QED
        BY <1>4, <3>1, <4>1, InEmpty
    <3>2. CASE i \notin OodSet \ kept
      <4>1. sdeps'[i] = rows[i].ideps
        BY <1>5, <3>2
      <4>. QED
        BY <1>4, <3>2, <4>1 DEF KeptDeps
    <3>. QED
      BY <3>1, <3>2
  <2>. QED
    BY <1>1, <1>2, <1>3, <2>1 DEF RestOK, ReportsOK
<1>14. ImportsOK' /\ SpansOK' /\ GraphOK'
  BY <1>1, <1>2, <1>3, <1>4 DEF ImportsOK, SpansOK, GraphOK
<1>20. FinishedOK'
  BY StepFinished DEF Next
<1>. QED
  BY <1>20, <1>3, <1>8, <1>10, <1>11, <1>12, <1>13, <1>14 DEF IInv

\* What all lines of the tool leave alone.
LEMMA StreamFrame ==
  ASSUME IInv, Streaming
  PROVE  /\ pc = "stream" /\ UNCHANGED <<world, content, rows, pc, ood, deps, collated>>
         /\ FilesOK' /\ RowsOK' /\ IdleOK' /\ SpansOK' /\ GraphOK'
         /\ OodSet' = OodSet /\ HeaderUnit' = HeaderUnit /\ Report' = Report
         /\ \A i \in Item : /\ KeptDeps(i)' = KeptDeps(i)
                            /\ ToldOfRow(i)' = ToldOfRow(i)
                            /\ Included(i)' = Included(i)
<1>1. FilesOK /\ RowsOK /\ UNCHANGED <<files, db, pc, ood, deps, collated>> /\ pc = "stream"
  BY DEF IInv, Streaming
<1>2. IdleOK' /\ SpansOK' /\ GraphOK'
  BY <1>1 DEF IdleOK, SpansOK, GraphOK
<1>. QED
  BY <1>1, <1>2, FilesRest, RowsRest

\* A vector is started for the item that a header line names.
LEMMA BufferStarted ==
  ASSUME NEW S, NEW b, NEW of, BufferOK(b, S, of), NEW i \in Item, ~got[i],
         NEW t, \A j \in Item : j # i => t[j] = of[j], t[i] = {}
  PROVE  LET c == NewVector(b, i) IN
         /\ GoodBuffer(c, S) /\ Holds(c, t) /\ Len(c.vecs) # 0 /\ LastVector(c) = i
         /\ \A j \in Item : HasVector(c, j) <=> got[j] \/ j = i
<1>. DEFINE c == NewVector(b, i)
            n == Len(b.vecs)
<1>1. GoodBuffer(b, S) /\ Holds(b, of) /\ ~HasVector(b, i)
      /\ \A j \in Item : HasVector(b, j) <=> got[j]
  BY DEF BufferOK
<1>2. /\ GoodBuffer(c, S) /\ Len(c.vecs) = n + 1 /\ LastVector(c) = i
      /\ \A k \in 1 .. n : /\ c.vecs[k].final_idx = b.vecs[k].final_idx
                           /\ VectorAt(c, k) = VectorAt(b, k)
      /\ In(VectorAt(c, n + 1)) = {}
  BY <1>1, VectorStarted
<1>3. b.vecs \in Seq(Vector) /\ n \in Nat
  BY <1>1 DEF GoodBuffer
<1>4. c.vecs[n + 1].final_idx = i
  BY <1>2 DEF LastVector
<1>. HIDE DEF c
<1>5. ASSUME NEW k \in 1 .. n + 1
      PROVE  In(VectorAt(c, k)) = t[c.vecs[k].final_idx]
  <2>1. CASE k \in 1 .. n
    <3>1. b.vecs[k].final_idx \in Item /\ b.vecs[k].final_idx # i
      BY <1>1, <1>3, <2>1, VectorFields DEF HasVector
    <3>2. In(VectorAt(b, k)) = of[b.vecs[k].final_idx]
      BY <1>1, <2>1 DEF Holds
    <3>. QED
      BY <1>2, <2>1, <3>1, <3>2
  <2>2. CASE k = n + 1
    BY <1>2, <1>4, <2>2
  <2>. QED
    BY <1>3, <2>1, <2>2
<1>6. ASSUME NEW j \in Item PROVE HasVector(c, j) <=> got[j] \/ j = i
  <2>1. HasVector(c, j) <=> \E k \in 1 .. n + 1 : c.vecs[k].final_idx = j
    BY <1>2 DEF HasVector
  <2>2. got[j] <=> \E k \in 1 .. n : b.vecs[k].final_idx = j
    BY <1>1 DEF HasVector
  <2>. QED
    BY SMTT(30), <1>2, <1>3, <1>4, <2>1, <2>2
<1>. QED
  BY <1>2, <1>3, <1>5, <1>6 DEF Holds, c

\* An element is added to the vector of the item being reported.
LEMMA BufferExtended ==
  ASSUME NEW S, NEW b, NEW of, BufferOK(b, S, of), lines # NoLines, cur \in Item, NEW x \in S,
         NEW t, \A j \in Item : j # cur => t[j] = of[j], t[cur] = of[cur] \cup {x}
  PROVE  LET c == AddElem(b, x) IN
         /\ GoodBuffer(c, S) /\ Holds(c, t) /\ Len(c.vecs) # 0 /\ LastVector(c) = cur
         /\ \A j \in Item : HasVector(c, j) <=> got[j]
<1>. DEFINE c == AddElem(b, x)
            n == Len(b.vecs)
<1>1. /\ GoodBuffer(b, S) /\ Holds(b, of) /\ n # 0 /\ LastVector(b) = cur
      /\ \A j \in Item : HasVector(b, j) <=> got[j]
  BY DEF BufferOK
<1>2. /\ GoodBuffer(c, S) /\ c.vecs = b.vecs
      /\ \A k \in 1 .. n :
           In(VectorAt(c, k)) = In(VectorAt(b, k)) \cup (IF k = n THEN {x} ELSE {})
  BY <1>1, ElementAdded
<1>3. b.vecs \in Seq(Vector) /\ n \in Nat
  BY <1>1 DEF GoodBuffer
<1>. HIDE DEF c
<1>4. ASSUME NEW k \in 1 .. n PROVE In(VectorAt(c, k)) = t[b.vecs[k].final_idx]
  <2>1. In(VectorAt(b, k)) = of[b.vecs[k].final_idx] /\ b.vecs[k].final_idx \in Item
    BY <1>1, <1>3, VectorFields DEF Holds
  <2>2. CASE k = n
    BY <1>1, <1>2, <2>1, <2>2 DEF LastVector
  <2>3. CASE k < n
    <3>1. b.vecs[k].final_idx # b.vecs[n].final_idx
      BY <1>1, <1>3, <2>3 DEF GoodBuffer
    <3>2. b.vecs[k].final_idx # cur /\ k # n
      BY <1>1, <1>3, <2>3, <3>1 DEF LastVector
    <3>. QED
      BY <1>2, <2>1, <3>2
  <2>. QED
    BY <1>3, <2>2, <2>3
<1>. QED
  BY <1>1, <1>2, <1>4 DEF Holds, HasVector, LastVector, c

\* A header line: the report of an item begins.
LEMMA StepHeader == ASSUME IInv, NEW k \in todo, HeaderLine(k) PROVE IInv'
<1>. DEFINE i == ood[k]
<1>1. /\ FilesOK /\ RowsOK /\ VarsOK /\ OodOK /\ BuffersOK /\ ReportsOK /\ RestOK /\ ImportsOK
      /\ Streaming /\ lines = NoLines
  BY DEF IInv, HeaderLine
<1>2. /\ pc = "stream" /\ UNCHANGED <<world, content, rows, pc, ood, deps, collated>>
      /\ FilesOK' /\ RowsOK' /\ IdleOK' /\ SpansOK' /\ GraphOK'
      /\ OodSet' = OodSet /\ HeaderUnit' = HeaderUnit /\ Report' = Report
      /\ \A j \in Item : /\ KeptDeps(j)' = KeptDeps(j)
                         /\ ToldOfRow(j)' = ToldOfRow(j)
                         /\ Included(j)' = Included(j)
  BY <1>1, StreamFrame
<1>3. /\ todo' = todo \ {k} /\ cur' = i /\ lines' = ToolLines(i)
      /\ bufs' = [b \in DOMAIN bufs |-> NewVector(bufs[b], cur')]
      /\ got' = [got EXCEPT ![i] = TRUE]
      /\ told' = [Finished EXCEPT ![i] = [NotTold EXCEPT !.times = told[i].times + 1, !.ood = TRUE]]
      /\ UNCHANGED <<mods, sdeps>>
  BY DEF HeaderLine
<1>4. /\ ood \in Seq(Item) /\ Len(ood) \in Nat
      /\ \A l \in 1 .. Len(ood) : ood[l] \in OodSet
      /\ \A l, m \in 1 .. Len(ood) : ood[l] = ood[m] => l = m
  BY <1>1, <1>2, OodList DEF OodOK
<1>5. /\ k \in 1 .. Len(ood) /\ i \in Item /\ i \in OodSet /\ ~got[i]
  <2>1. k \in 1 .. Len(ood) /\ (got[ood[k]] <=> k \notin todo)
    BY <1>1, <1>2 DEF OodOK
  <2>2. i \in OodSet
    BY <1>4, <2>1
  <2>3. i \in Item
    BY <1>4, <2>1
  <2>. QED
    BY <2>1, <2>2, <2>3
<1>6. told[i] = NotTold
  BY <1>1, <1>2, <1>5 DEF RestOK
<1>. HIDE DEF i
<1>7. told' = [Finished EXCEPT ![i] = [NotTold EXCEPT !.times = 1, !.ood = TRUE]]
  <2>1. told[i].times + 1 = 1
    BY <1>6 DEF NotTold
  <2>. QED
    BY <1>3, <2>1
<1>8. /\ lines' = [exp |-> content[i].exp, imps |-> content[i].imps, deps |-> Included(i)]
      /\ Included(i) \subseteq HeaderUnit \cup Header
      /\ content[i].exp \in Module \cup {NoModule} /\ content[i].imps \subseteq Module
  BY <1>1, <1>3, <1>5, FileFacts DEF ToolLines
<1>9. /\ Finished \in [Item -> Report] /\ got \in [Item -> BOOLEAN] /\ NotTold \in Report
      /\ \A j \in Item :
           /\ ~got[j] => Finished[j] = told[j]
           /\ Finished[j].times = told[j].times /\ Finished[j].ood = told[j].ood
           /\ Finished[j].exp = told[j].exp /\ Finished[j].imps = told[j].imps
           /\ Finished[j].fdeps = told[j].fdeps /\ Finished[j].ideps = told[j].ideps
  BY <1>1, <1>2, NextFinished DEF VarsOK, NotTold, Report
<1>10. /\ told'[i] = [times |-> 1, finished |-> 0, ood |-> TRUE, exp |-> NoModule,
                      imps |-> {}, fdeps |-> {}, ideps |-> {}]
       /\ \A j \in Item : j # i =>
            /\ ~got[j] => told'[j] = told[j]
            /\ told'[j].times = told[j].times /\ told'[j].ood = told[j].ood
            /\ told'[j].exp = told[j].exp /\ told'[j].imps = told[j].imps
            /\ told'[j].fdeps = told[j].fdeps /\ told'[j].ideps = told[j].ideps
       /\ \A j \in Item : got'[j] <=> got[j] \/ j = i
  <2>1. \A j \in Item : j # i => told'[j] = Finished[j]
    BY <1>5, <1>7, <1>9
  <2>2. told'[i] = [NotTold EXCEPT !.times = 1, !.ood = TRUE]
    BY <1>5, <1>7, <1>9
  <2>3. told'[i] = [times |-> 1, finished |-> 0, ood |-> TRUE, exp |-> NoModule,
                    imps |-> {}, fdeps |-> {}, ideps |-> {}]
    BY <2>2 DEF NotTold
  <2>4. \A j \in Item : got'[j] <=> got[j] \/ j = i
    BY <1>3, <1>5, <1>9
  <2>. QED
    BY <1>9, <2>1, <2>3, <2>4
<1>11. VarsOK'
  <2>1. told' \in [Item -> Report]
    BY <1>5, <1>7, <1>9 DEF NotTold, Report
  <2>2. lines' \in [exp : Module \cup {NoModule}, imps : SUBSET Module,
                    deps : SUBSET (HeaderUnit \cup Header)]
    BY <1>8
  <2>. QED
    BY <1>1, <1>2, <1>3, <1>5, <2>1, <2>2 DEF VarsOK
<1>12. OodOK'
  <2>1. ASSUME NEW l \in 1 .. Len(ood) PROVE got'[ood[l]] <=> l \notin todo'
    <3>1. got[ood[l]] <=> l \notin todo
      BY <1>1, <1>2 DEF OodOK
    <3>2. ood[l] = i <=> l = k
      BY <1>4, <1>5 DEF i
    <3>3. ood[l] \in Item
      BY <1>4
    <3>. QED
      BY <1>3, <1>10, <3>1, <3>2, <3>3
  <2>2. \A j \in Item : got'[j] => j \in OodSet
    BY <1>1, <1>2, <1>5, <1>10 DEF OodOK
  <2>. QED
    BY <1>1, <1>2, <1>3, <2>1, <2>2 DEF OodOK
<1>13. BuffersOK'
  <2>1. /\ BufferOK(bufs.imports, Module, [j \in Item |-> told[j].imps])
        /\ BufferOK(bufs.file_deps, Header, [j \in Item |-> told[j].fdeps])
        /\ BufferOK(bufs.item_deps, HeaderUnit, [j \in Item |-> told[j].ideps])
    BY <1>1 DEF BuffersOK
  <2>2. /\ bufs' = [file_deps |-> NewVector(bufs.file_deps, i),
                    item_deps |-> NewVector(bufs.item_deps, i),
                    imports |-> NewVector(bufs.imports, i)]
    BY <1>1, <1>3, AllStarted DEF BuffersOK
  <2>3. LET c == bufs'.imports IN
        /\ GoodBuffer(c, Module) /\ Holds(c, [j \in Item |-> told'[j].imps])
        /\ Len(c.vecs) # 0 /\ LastVector(c) = i
        /\ \A j \in Item : HasVector(c, j) <=> got'[j]
    BY SMTT(30), <1>5, <1>10, <2>1, <2>2, BufferStarted
  <2>4. LET c == bufs'.file_deps IN
        /\ GoodBuffer(c, Header) /\ Holds(c, [j \in Item |-> told'[j].fdeps])
        /\ Len(c.vecs) # 0 /\ LastVector(c) = i
        /\ \A j \in Item : HasVector(c, j) <=> got'[j]
    BY <1>5, <1>10, <2>1, <2>2, BufferStarted
  <2>5. LET c == bufs'.item_deps IN
        /\ GoodBuffer(c, HeaderUnit) /\ Holds(c, [j \in Item |-> told'[j].ideps])
        /\ Len(c.vecs) # 0 /\ LastVector(c) = i
        /\ \A j \in Item : HasVector(c, j) <=> got'[j]
    BY <1>5, <1>10, <2>1, <2>2, BufferStarted
  <2>6. bufs' = [file_deps |-> bufs'.file_deps, item_deps |-> bufs'.item_deps,
                 imports |-> bufs'.imports]
    BY <2>2
  <2>. QED
    BY <1>2, <1>3, <2>3, <2>4, <2>5, <2>6 DEF BuffersOK, BufferOK
<1>14. LinesOK'
  BY <1>2, <1>3, <1>5, <1>10 DEF LinesOK
<1>15. ReportsOK'
  <2>. SUFFICES ASSUME NEW j \in Item, got'[j]
                PROVE  /\ told'[j].times = 1 /\ told'[j].ood
                       /\ told'[j].imps \cup Pending(j)'.imps = content[j].imps
                       /\ told'[j].fdeps \cup (Pending(j)'.deps \cap Header)
                            = Included(j) \cap Header
                       /\ told'[j].ideps \cup (Pending(j)'.deps \cap HeaderUnit)
                            = Included(j) \cap HeaderUnit
                       /\ told'[j].ideps \subseteq In(sdeps[j])
                       /\ In(sdeps[j]) \subseteq told'[j].ideps \cup KeptDeps(j)
                       /\ IF Pending(j)'.exp = NoModule
                          THEN /\ told'[j].exp = content[j].exp
                               /\ mods.exports[j] = IF content[j].exp = NoModule
                                                    THEN rows[j].exp ELSE content[j].exp
                          ELSE Pending(j)'.exp = content[j].exp
    BY <1>2, <1>3 DEF ReportsOK
  <2>1. CASE j = i
    <3>1. Pending(j)' = lines'
      BY <1>3, <2>1 DEF Pending
    <3>2. mods.exports[i] = rows[i].exp /\ In(sdeps[i]) \subseteq KeptDeps(i)
      BY <1>1, <1>2, <1>5 DEF RestOK
    <3>. QED
      BY <1>8, <1>10, <2>1, <3>1, <3>2
  <2>2. CASE j # i
    <3>1. Pending(j)' = NoLines /\ Pending(j) = NoLines
      BY <1>1, <1>3, <2>2 DEF Pending
    <3>. QED
      BY <1>1, <1>10, <2>2, <3>1 DEF ReportsOK
  <2>. QED
    BY <2>1, <2>2
<1>16. RestOK' /\ ImportsOK'
  BY <1>1, <1>2, <1>3, <1>10 DEF RestOK, ImportsOK
<1>20. FinishedOK'
  BY StepFinished DEF Next
<1>. QED
  BY <1>20, <1>2, <1>11, <1>12, <1>13, <1>14, <1>15, <1>16 DEF IInv

\* What the lines after a header line have in common.
LEMMA LineFrame ==
  ASSUME IInv, Streaming, lines # NoLines, UNCHANGED <<todo, cur, got>>
  PROVE  /\ FilesOK /\ RowsOK /\ VarsOK /\ BuffersOK /\ ReportsOK /\ RestOK /\ ImportsOK
         /\ pc = "stream" /\ UNCHANGED <<world, content, rows, pc, ood, deps, collated>>
         /\ FilesOK' /\ RowsOK' /\ IdleOK' /\ SpansOK' /\ GraphOK' /\ OodOK' /\ LinesOK'
         /\ OodSet' = OodSet /\ HeaderUnit' = HeaderUnit /\ Report' = Report
         /\ \A i \in Item : /\ KeptDeps(i)' = KeptDeps(i)
                            /\ ToldOfRow(i)' = ToldOfRow(i)
                            /\ Included(i)' = Included(i)
         /\ cur \in Item /\ got[cur] /\ told \in [Item -> Report] /\ told[cur] \in Report
         /\ \A i \in Item : i # cur => Pending(i) = NoLines /\ Pending(i)' = NoLines
         /\ Pending(cur) = lines /\ Pending(cur)' = lines'
         /\ lines.exp \in Module \cup {NoModule} /\ lines.imps \subseteq Module
         /\ lines.deps \subseteq HeaderUnit \cup Header
<1>1. /\ FilesOK /\ RowsOK /\ VarsOK /\ BuffersOK /\ ReportsOK /\ RestOK /\ ImportsOK
      /\ OodOK /\ LinesOK
  BY DEF IInv
<1>2. /\ pc = "stream" /\ UNCHANGED <<world, content, rows, pc, ood, deps, collated>>
      /\ FilesOK' /\ RowsOK' /\ IdleOK' /\ SpansOK' /\ GraphOK'
      /\ OodSet' = OodSet /\ HeaderUnit' = HeaderUnit /\ Report' = Report
      /\ \A i \in Item : /\ KeptDeps(i)' = KeptDeps(i)
                         /\ ToldOfRow(i)' = ToldOfRow(i)
                         /\ Included(i)' = Included(i)
  BY StreamFrame
<1>3. OodOK'
  BY <1>1, <1>2 DEF OodOK
<1>4. LinesOK' /\ got[cur]
  BY <1>1, <1>2 DEF LinesOK
<1>5. /\ cur \in Item /\ told \in [Item -> Report] /\ told[cur] \in Report
      /\ lines.exp \in Module \cup {NoModule} /\ lines.imps \subseteq Module
      /\ lines.deps \subseteq HeaderUnit \cup Header
  BY <1>1 DEF VarsOK
<1>6. /\ \A i \in Item : i # cur => Pending(i) = NoLines /\ Pending(i)' = NoLines
      /\ Pending(cur) = lines /\ Pending(cur)' = lines'
  BY DEF Pending
<1>. QED
  BY <1>1, <1>2, <1>3, <1>4, <1>5, <1>6

\* What item i has been told, and what is yet to come, in a step to the states of
\* the primed variables.
LEMMA LineReports ==
  ASSUME ReportsOK, UNCHANGED <<content, rows, cur, got>>, cur \in Item,
         HeaderUnit' = HeaderUnit,
         \A i \in Item : KeptDeps(i)' = KeptDeps(i) /\ Included(i)' = Included(i),
         \A i \in Item : i # cur =>
            UNCHANGED <<told[i], sdeps[i], mods.exports[i], Pending(i)>>,
         told'[cur].times = told[cur].times, told'[cur].ood = told[cur].ood,
         told'[cur].imps \cup lines'.imps = told[cur].imps \cup lines.imps,
         told'[cur].fdeps \cup (lines'.deps \cap Header)
            = told[cur].fdeps \cup (lines.deps \cap Header),
         told'[cur].ideps \cup (lines'.deps \cap HeaderUnit)
            = told[cur].ideps \cup (lines.deps \cap HeaderUnit),
         \E d : /\ told'[cur].ideps = told[cur].ideps \cup d
                /\ In(sdeps'[cur]) = In(sdeps[cur]) \cup d,
         \/ UNCHANGED <<told[cur].exp, lines.exp, mods.exports[cur]>>
         \/ /\ lines.exp # NoModule /\ lines'.exp = NoModule
            /\ told'[cur].exp = lines.exp /\ mods'.exports[cur] = lines.exp
  PROVE  ReportsOK'
<1>. SUFFICES ASSUME NEW i \in Item, got[i]
              PROVE  /\ told'[i].times = 1 /\ told'[i].ood
                     /\ told'[i].imps \cup Pending(i)'.imps = content[i].imps
                     /\ told'[i].fdeps \cup (Pending(i)'.deps \cap Header)
                          = Included(i) \cap Header
                     /\ told'[i].ideps \cup (Pending(i)'.deps \cap HeaderUnit)
                          = Included(i) \cap HeaderUnit
                     /\ told'[i].ideps \subseteq In(sdeps'[i])
                     /\ In(sdeps'[i]) \subseteq told'[i].ideps \cup KeptDeps(i)
                     /\ IF Pending(i)'.exp = NoModule
                        THEN /\ told'[i].exp = content[i].exp
                             /\ mods'.exports[i] = IF content[i].exp = NoModule
                                                   THEN rows[i].exp ELSE content[i].exp
                        ELSE Pending(i)'.exp = content[i].exp
  BY DEF ReportsOK
<1>1. /\ told[i].times = 1 /\ told[i].ood
      /\ told[i].imps \cup Pending(i).imps = content[i].imps
      /\ told[i].fdeps \cup (Pending(i).deps \cap Header) = Included(i) \cap Header
      /\ told[i].ideps \cup (Pending(i).deps \cap HeaderUnit) = Included(i) \cap HeaderUnit
      /\ told[i].ideps \subseteq In(sdeps[i])
      /\ In(sdeps[i]) \subseteq told[i].ideps \cup KeptDeps(i)
  BY DEF ReportsOK
<1>2. IF Pending(i).exp = NoModule
      THEN /\ told[i].exp = content[i].exp
           /\ mods.exports[i] = IF content[i].exp = NoModule THEN rows[i].exp
                                ELSE content[i].exp
      ELSE Pending(i).exp = content[i].exp
  BY DEF ReportsOK
<1>3. CASE i # cur
  BY <1>1, <1>2, <1>3
<1>4. CASE i = cur
  <2>1. Pending(i) = lines /\ Pending(i)' = lines'
    BY <1>4 DEF Pending
  <2>2. PICK d : /\ told'[cur].ideps = told[cur].ideps \cup d
                 /\ In(sdeps'[cur]) = In(sdeps[cur]) \cup d
    OBVIOUS
  <2>3. /\ told'[i].times = 1 /\ told'[i].ood
        /\ told'[i].imps \cup Pending(i)'.imps = content[i].imps
        /\ told'[i].fdeps \cup (Pending(i)'.deps \cap Header) = Included(i) \cap Header
        /\ told'[i].ideps \cup (Pending(i)'.deps \cap HeaderUnit) = Included(i) \cap HeaderUnit
    BY <1>1, <1>4, <2>1
  <2>4. /\ told'[i].ideps \subseteq In(sdeps'[i])
        /\ In(sdeps'[i]) \subseteq told'[i].ideps \cup KeptDeps(i)
    BY <1>1, <1>4, <2>2
  <2>5. IF Pending(i)'.exp = NoModule
        THEN /\ told'[i].exp = content[i].exp
             /\ mods'.exports[i] = IF content[i].exp = NoModule THEN rows[i].exp
                                   ELSE content[i].exp
        ELSE Pending(i)'.exp = content[i].exp
    BY <1>2, <1>4, <2>1
  <2>. QED
    BY <2>3, <2>4, <2>5
<1>. QED
  BY <1>3, <1>4

\* A buffer that a line does not concern.
LEMMA BufferKept ==
  ASSUME NEW S, NEW b, NEW of, BufferOK(b, S, of), lines # NoLines,
         NEW t, \A j \in Item : t[j] = of[j]
  PROVE  /\ GoodBuffer(b, S) /\ Holds(b, t) /\ Len(b.vecs) # 0 /\ LastVector(b) = cur
         /\ \A j \in Item : HasVector(b, j) <=> got[j]
<1>1. /\ GoodBuffer(b, S) /\ Holds(b, of) /\ Len(b.vecs) # 0 /\ LastVector(b) = cur
      /\ \A j \in Item : HasVector(b, j) <=> got[j]
  BY DEF BufferOK
<1>2. b.vecs \in Seq(Vector)
  BY <1>1 DEF GoodBuffer
<1>3. ASSUME NEW k \in 1 .. Len(b.vecs) PROVE In(VectorAt(b, k)) = t[b.vecs[k].final_idx]
  <2>1. b.vecs[k].final_idx \in Item
    BY <1>2, VectorFields
  <2>2. In(VectorAt(b, k)) = of[b.vecs[k].final_idx]
    BY <1>1 DEF Holds
  <2>. QED
    BY <2>1, <2>2
<1>. QED
  BY <1>1, <1>3 DEF Holds

\* An export line.
LEMMA StepExp == ASSUME IInv, ExpLine PROVE IInv'
<1>1. /\ Streaming /\ lines # NoLines /\ UNCHANGED <<todo, cur, got, sdeps, bufs>>
      /\ lines.exp # NoModule
      /\ lines' = [lines EXCEPT !.exp = NoModule]
      /\ mods' = [mods EXCEPT !.exports[cur] = lines.exp]
      /\ told' = [told EXCEPT ![cur].exp = lines.exp]
  BY DEF ExpLine, NoLines
<1>2. /\ FilesOK /\ RowsOK /\ VarsOK /\ BuffersOK /\ ReportsOK /\ RestOK /\ ImportsOK
      /\ pc = "stream" /\ UNCHANGED <<world, content, rows, pc, ood, deps, collated>>
      /\ FilesOK' /\ RowsOK' /\ IdleOK' /\ SpansOK' /\ GraphOK' /\ OodOK' /\ LinesOK'
      /\ OodSet' = OodSet /\ HeaderUnit' = HeaderUnit /\ Report' = Report
      /\ \A i \in Item : /\ KeptDeps(i)' = KeptDeps(i)
                         /\ ToldOfRow(i)' = ToldOfRow(i)
                         /\ Included(i)' = Included(i)
      /\ cur \in Item /\ got[cur] /\ told \in [Item -> Report] /\ told[cur] \in Report
      /\ \A i \in Item : i # cur => Pending(i) = NoLines /\ Pending(i)' = NoLines
      /\ lines.exp \in Module \cup {NoModule} /\ lines.imps \subseteq Module
      /\ lines.deps \subseteq HeaderUnit \cup Header
  BY <1>1, LineFrame
<1>3. lines \in [exp : Module \cup {NoModule}, imps : SUBSET Module,
                 deps : SUBSET (HeaderUnit \cup Header)]
      /\ mods \in [exports : [Item -> Module \cup {NoModule}], imports : [Item -> Seq(Module)]]
  BY <1>2 DEF VarsOK
<1>4. /\ lines'.exp = NoModule /\ lines'.imps = lines.imps /\ lines'.deps = lines.deps
      /\ lines' \in [exp : Module \cup {NoModule}, imps : SUBSET Module,
                     deps : SUBSET (HeaderUnit \cup Header)]
  BY <1>1, <1>3
<1>5. /\ told' \in [Item -> Report]
      /\ told'[cur].exp = lines.exp
      /\ UNCHANGED <<told[cur].times, told[cur].ood, told[cur].imps, told[cur].fdeps,
                     told[cur].ideps>>
      /\ \A i \in Item : i # cur => told'[i] = told[i]
  BY <1>1, <1>2 DEF Report
<1>6. /\ mods' \in [exports : [Item -> Module \cup {NoModule}], imports : [Item -> Seq(Module)]]
      /\ mods'.exports[cur] = lines.exp /\ mods'.imports = mods.imports
      /\ \A i \in Item : i # cur => mods'.exports[i] = mods.exports[i]
  BY <1>1, <1>2, <1>3
<1>7. VarsOK'
  BY <1>1, <1>2, <1>4, <1>5, <1>6 DEF VarsOK
<1>8. BuffersOK'
  <2>1. \A i \in Item : UNCHANGED <<told[i].imps, told[i].fdeps, told[i].ideps>>
    BY <1>1, <1>5
  <2>2. /\ BufferOK(bufs.imports, Module, [i \in Item |-> told[i].imps])
        /\ BufferOK(bufs.file_deps, Header, [i \in Item |-> told[i].fdeps])
        /\ BufferOK(bufs.item_deps, HeaderUnit, [i \in Item |-> told[i].ideps])
        /\ bufs = [file_deps |-> bufs.file_deps, item_deps |-> bufs.item_deps,
                   imports |-> bufs.imports]
    BY <1>2 DEF BuffersOK
  <2>3. LET b == bufs.imports IN
        /\ GoodBuffer(b, Module) /\ Holds(b, [i \in Item |-> told'[i].imps])
        /\ Len(b.vecs) # 0 /\ LastVector(b) = cur
        /\ \A i \in Item : HasVector(b, i) <=> got[i]
    BY <1>1, <2>1, <2>2, BufferKept
  <2>4. LET b == bufs.file_deps IN
        /\ GoodBuffer(b, Header) /\ Holds(b, [i \in Item |-> told'[i].fdeps])
        /\ Len(b.vecs) # 0 /\ LastVector(b) = cur
        /\ \A i \in Item : HasVector(b, i) <=> got[i]
    BY <1>1, <2>1, <2>2, BufferKept
  <2>5. LET b == bufs.item_deps IN
        /\ GoodBuffer(b, HeaderUnit) /\ Holds(b, [i \in Item |-> told'[i].ideps])
        /\ Len(b.vecs) # 0 /\ LastVector(b) = cur
        /\ \A i \in Item : HasVector(b, i) <=> got[i]
    BY <1>1, <2>1, <2>2, BufferKept
  <2>. QED
    BY <1>1, <1>2, <2>2, <2>3, <2>4, <2>5 DEF BuffersOK, BufferOK
<1>9. ReportsOK'
  <2>1. \A i \in Item : i # cur => UNCHANGED <<told[i], sdeps[i], mods.exports[i], Pending(i)>>
    BY <1>1, <1>2, <1>5, <1>6
  <2>2. \E d : /\ told'[cur].ideps = told[cur].ideps \cup d
               /\ In(sdeps'[cur]) = In(sdeps[cur]) \cup d
    <3>1. /\ told'[cur].ideps = told[cur].ideps \cup {}
          /\ In(sdeps'[cur]) = In(sdeps[cur]) \cup {}
      BY <1>1, <1>5
    <3>. QED
      BY <3>1
  <2>. QED
    BY <1>1, <1>2, <1>4, <1>5, <1>6, <2>1, <2>2, LineReports
<1>10. RestOK' /\ ImportsOK'
  BY <1>1, <1>2, <1>5, <1>6 DEF RestOK, ImportsOK
<1>20. FinishedOK'
  BY StepFinished DEF Next
<1>. QED
  BY <1>20, <1>2, <1>7, <1>8, <1>9, <1>10 DEF IInv

\* An import line.
LEMMA StepImp == ASSUME IInv, NEW m \in Module, ImpLine(m) PROVE IInv'
<1>1. /\ Streaming /\ lines # NoLines /\ UNCHANGED <<todo, cur, got, mods, sdeps>>
      /\ m \in lines.imps
      /\ lines' = [lines EXCEPT !.imps = @ \ {m}]
      /\ bufs' = [bufs EXCEPT !.imports = AddElem(@, m)]
      /\ told' = [told EXCEPT ![cur].imps = @ \cup {m}]
  BY DEF ImpLine, NoLines
<1>2. /\ FilesOK /\ RowsOK /\ VarsOK /\ BuffersOK /\ ReportsOK /\ RestOK /\ ImportsOK
      /\ pc = "stream" /\ UNCHANGED <<world, content, rows, pc, ood, deps, collated>>
      /\ FilesOK' /\ RowsOK' /\ IdleOK' /\ SpansOK' /\ GraphOK' /\ OodOK' /\ LinesOK'
      /\ OodSet' = OodSet /\ HeaderUnit' = HeaderUnit /\ Report' = Report
      /\ \A i \in Item : /\ KeptDeps(i)' = KeptDeps(i)
                         /\ ToldOfRow(i)' = ToldOfRow(i)
                         /\ Included(i)' = Included(i)
      /\ cur \in Item /\ got[cur] /\ told \in [Item -> Report] /\ told[cur] \in Report
      /\ \A i \in Item : i # cur => Pending(i) = NoLines /\ Pending(i)' = NoLines
      /\ lines.exp \in Module \cup {NoModule} /\ lines.imps \subseteq Module
      /\ lines.deps \subseteq HeaderUnit \cup Header
  BY <1>1, LineFrame
<1>3. lines \in [exp : Module \cup {NoModule}, imps : SUBSET Module,
                 deps : SUBSET (HeaderUnit \cup Header)]
  BY <1>2 DEF VarsOK
<1>4. /\ lines'.exp = lines.exp /\ lines'.imps = lines.imps \ {m} /\ lines'.deps = lines.deps
      /\ lines' \in [exp : Module \cup {NoModule}, imps : SUBSET Module,
                     deps : SUBSET (HeaderUnit \cup Header)]
  BY <1>1, <1>3
<1>5. /\ told' \in [Item -> Report]
      /\ told'[cur].imps = told[cur].imps \cup {m}
      /\ UNCHANGED <<told[cur].times, told[cur].ood, told[cur].exp, told[cur].fdeps,
                     told[cur].ideps>>
      /\ \A i \in Item : i # cur => told'[i] = told[i]
  BY <1>1, <1>2 DEF Report
<1>6. VarsOK'
  BY <1>1, <1>2, <1>4, <1>5 DEF VarsOK
<1>7. BuffersOK'
  <2>1. \A i \in Item : UNCHANGED <<told[i].fdeps, told[i].ideps>>
    BY <1>1, <1>5
  <2>2. /\ BufferOK(bufs.imports, Module, [i \in Item |-> told[i].imps])
        /\ BufferOK(bufs.file_deps, Header, [i \in Item |-> told[i].fdeps])
        /\ BufferOK(bufs.item_deps, HeaderUnit, [i \in Item |-> told[i].ideps])
        /\ bufs = [file_deps |-> bufs.file_deps, item_deps |-> bufs.item_deps,
                   imports |-> bufs.imports]
    BY <1>2 DEF BuffersOK
  <2>3. bufs' = [file_deps |-> bufs.file_deps, item_deps |-> bufs.item_deps,
                 imports |-> AddElem(bufs.imports, m)]
    BY <1>1, <2>2
  <2>4. LET b == bufs'.imports IN
        /\ GoodBuffer(b, Module) /\ Holds(b, [i \in Item |-> told'[i].imps])
        /\ Len(b.vecs) # 0 /\ LastVector(b) = cur
        /\ \A i \in Item : HasVector(b, i) <=> got[i]
    BY <1>1, <1>2, <1>5, <2>2, <2>3, BufferExtended
  <2>5. LET b == bufs'.file_deps IN
        /\ GoodBuffer(b, Header) /\ Holds(b, [i \in Item |-> told'[i].fdeps])
        /\ Len(b.vecs) # 0 /\ LastVector(b) = cur
        /\ \A i \in Item : HasVector(b, i) <=> got[i]
    BY <1>1, <2>1, <2>2, <2>3, BufferKept
  <2>6. LET b == bufs'.item_deps IN
        /\ GoodBuffer(b, HeaderUnit) /\ Holds(b, [i \in Item |-> told'[i].ideps])
        /\ Len(b.vecs) # 0 /\ LastVector(b) = cur
        /\ \A i \in Item : HasVector(b, i) <=> got[i]
    BY <1>1, <2>1, <2>2, <2>3, BufferKept
  <2>7. bufs' = [file_deps |-> bufs'.file_deps, item_deps |-> bufs'.item_deps,
                 imports |-> bufs'.imports]
    BY <2>3
  <2>. QED
    BY <1>1, <1>2, <2>4, <2>5, <2>6, <2>7 DEF BuffersOK, BufferOK
<1>8. ReportsOK'
  <2>1. \A i \in Item : i # cur => UNCHANGED <<told[i], sdeps[i], mods.exports[i], Pending(i)>>
    BY <1>1, <1>2, <1>5
  <2>2. \E d : /\ told'[cur].ideps = told[cur].ideps \cup d
               /\ In(sdeps'[cur]) = In(sdeps[cur]) \cup d
    <3>1. /\ told'[cur].ideps = told[cur].ideps \cup {}
          /\ In(sdeps'[cur]) = In(sdeps[cur]) \cup {}
      BY <1>1, <1>5
    <3>. QED
      BY <3>1
  <2>. QED
    BY <1>1, <1>2, <1>4, <1>5, <2>1, <2>2, LineReports
<1>9. RestOK' /\ ImportsOK'
  BY <1>1, <1>2, <1>5 DEF RestOK, ImportsOK
<1>20. FinishedOK'
  BY StepFinished DEF Next
<1>. QED
  BY <1>20, <1>2, <1>6, <1>7, <1>8, <1>9 DEF IInv

\* A path.
LEMMA StepDep == ASSUME IInv, NEW f \in HeaderUnit \cup Header, DepLine(f) PROVE IInv'
<1>1. /\ Streaming /\ lines # NoLines /\ UNCHANGED <<todo, cur, got, mods>>
      /\ f \in lines.deps
      /\ lines' = [lines EXCEPT !.deps = @ \ {f}]
  BY DEF DepLine, NoLines
<1>2. /\ FilesOK /\ RowsOK /\ VarsOK /\ BuffersOK /\ ReportsOK /\ RestOK /\ ImportsOK
      /\ pc = "stream" /\ UNCHANGED <<world, content, rows, pc, ood, deps, collated>>
      /\ FilesOK' /\ RowsOK' /\ IdleOK' /\ SpansOK' /\ GraphOK' /\ OodOK' /\ LinesOK'
      /\ OodSet' = OodSet /\ HeaderUnit' = HeaderUnit /\ Report' = Report
      /\ \A i \in Item : /\ KeptDeps(i)' = KeptDeps(i)
                         /\ ToldOfRow(i)' = ToldOfRow(i)
                         /\ Included(i)' = Included(i)
      /\ cur \in Item /\ got[cur] /\ told \in [Item -> Report] /\ told[cur] \in Report
      /\ \A i \in Item : i # cur => Pending(i) = NoLines /\ Pending(i)' = NoLines
      /\ lines.exp \in Module \cup {NoModule} /\ lines.imps \subseteq Module
      /\ lines.deps \subseteq HeaderUnit \cup Header
  BY <1>1, LineFrame
<1>3. /\ lines \in [exp : Module \cup {NoModule}, imps : SUBSET Module,
                    deps : SUBSET (HeaderUnit \cup Header)]
      /\ sdeps \in [Item -> Seq(HeaderUnit)]
      /\ HeaderUnit \cap Header = {}
  BY <1>2, FileFacts DEF VarsOK
<1>4. /\ lines'.exp = lines.exp /\ lines'.imps = lines.imps /\ lines'.deps = lines.deps \ {f}
      /\ lines' \in [exp : Module \cup {NoModule}, imps : SUBSET Module,
                     deps : SUBSET (HeaderUnit \cup Header)]
  BY <1>1, <1>3
<1>5. /\ BufferOK(bufs.imports, Module, [i \in Item |-> told[i].imps])
      /\ BufferOK(bufs.file_deps, Header, [i \in Item |-> told[i].fdeps])
      /\ BufferOK(bufs.item_deps, HeaderUnit, [i \in Item |-> told[i].ideps])
      /\ bufs = [file_deps |-> bufs.file_deps, item_deps |-> bufs.item_deps,
                 imports |-> bufs.imports]
  BY <1>2 DEF BuffersOK
<1>6. /\ told' \in [Item -> Report] /\ sdeps' \in [Item -> Seq(HeaderUnit)]
      /\ UNCHANGED <<told[cur].times, told[cur].ood, told[cur].exp, told[cur].imps>>
      /\ \A i \in Item : i # cur => told'[i] = told[i] /\ sdeps'[i] = sdeps[i]
      /\ told'[cur].fdeps \cup (lines'.deps \cap Header)
           = told[cur].fdeps \cup (lines.deps \cap Header)
      /\ told'[cur].ideps \cup (lines'.deps \cap HeaderUnit)
           = told[cur].ideps \cup (lines.deps \cap HeaderUnit)
      /\ \E d : /\ told'[cur].ideps = told[cur].ideps \cup d
                /\ In(sdeps'[cur]) = In(sdeps[cur]) \cup d
      /\ BuffersOK'
  <2>1. CASE f \in HeaderUnit
    <3>1. /\ bufs' = [bufs EXCEPT !.item_deps = AddElem(@, f)]
          /\ sdeps' = [sdeps EXCEPT ![cur] = Append(@, f)]
          /\ told' = [told EXCEPT ![cur].ideps = @ \cup {f}]
      BY <2>1 DEF DepLine
    <3>2. /\ told' \in [Item -> Report]
          /\ told'[cur].ideps = told[cur].ideps \cup {f}
          /\ UNCHANGED <<told[cur].times, told[cur].ood, told[cur].exp, told[cur].imps,
                         told[cur].fdeps>>
          /\ \A i \in Item : i # cur => told'[i] = told[i]
      BY <1>1, <1>2, <2>1, <3>1 DEF Report
    <3>3. /\ sdeps' \in [Item -> Seq(HeaderUnit)]
          /\ \A i \in Item : i # cur => sdeps'[i] = sdeps[i]
          /\ sdeps'[cur] = Append(sdeps[cur], f) /\ sdeps[cur] \in Seq(HeaderUnit)
      BY <1>2, <1>3, <2>1, <3>1
    <3>4. In(sdeps'[cur]) = In(sdeps[cur]) \cup {f}
      BY <2>1, <3>3, InAppend
    <3>5. \A i \in Item : UNCHANGED <<told[i].fdeps, told[i].imps>>
      BY <1>1, <3>2
    <3>6. bufs' = [file_deps |-> bufs.file_deps, item_deps |-> AddElem(bufs.item_deps, f),
                   imports |-> bufs.imports]
      BY <1>5, <3>1
    <3>7. LET b == bufs'.imports IN
          /\ GoodBuffer(b, Module) /\ Holds(b, [i \in Item |-> told'[i].imps])
          /\ Len(b.vecs) # 0 /\ LastVector(b) = cur
          /\ \A i \in Item : HasVector(b, i) <=> got[i]
      BY <1>1, <1>5, <3>5, <3>6, BufferKept
    <3>8. LET b == bufs'.file_deps IN
          /\ GoodBuffer(b, Header) /\ Holds(b, [i \in Item |-> told'[i].fdeps])
          /\ Len(b.vecs) # 0 /\ LastVector(b) = cur
          /\ \A i \in Item : HasVector(b, i) <=> got[i]
      BY <1>1, <1>5, <3>5, <3>6, BufferKept
    <3>9. LET b == bufs'.item_deps IN
          /\ GoodBuffer(b, HeaderUnit) /\ Holds(b, [i \in Item |-> told'[i].ideps])
          /\ Len(b.vecs) # 0 /\ LastVector(b) = cur
          /\ \A i \in Item : HasVector(b, i) <=> got[i]
      BY SMTT(30), <1>1, <1>2, <1>5, <2>1, <3>2, <3>6, BufferExtended
    <3>10. bufs' = [file_deps |-> bufs'.file_deps, item_deps |-> bufs'.item_deps,
                    imports |-> bufs'.imports]
      BY <3>6
    <3>11. BuffersOK'
      BY <1>1, <1>2, <3>7, <3>8, <3>9, <3>10 DEF BuffersOK, BufferOK
    <3>12. \E d : /\ told'[cur].ideps = told[cur].ideps \cup d
                  /\ In(sdeps'[cur]) = In(sdeps[cur]) \cup d
      BY <3>2, <3>4
    <3>13. /\ told'[cur].fdeps \cup (lines'.deps \cap Header)
               = told[cur].fdeps \cup (lines.deps \cap Header)
           /\ told'[cur].ideps \cup (lines'.deps \cap HeaderUnit)
               = told[cur].ideps \cup (lines.deps \cap HeaderUnit)
      <4>1. f \notin Header
        BY <1>3, <2>1
      <4>. QED
        BY <1>1, <1>4, <2>1, <3>2, <4>1
    <3>. QED
      BY <1>1, <3>2, <3>3, <3>11, <3>12, <3>13
  <2>2. CASE f \notin HeaderUnit
    <3>1. /\ bufs' = [bufs EXCEPT !.file_deps = AddElem(@, f)]
          /\ sdeps' = sdeps
          /\ told' = [told EXCEPT ![cur].fdeps = @ \cup {f}]
      BY <2>2 DEF DepLine
    <3>2. /\ told' \in [Item -> Report]
          /\ told'[cur].fdeps = told[cur].fdeps \cup {f}
          /\ UNCHANGED <<told[cur].times, told[cur].ood, told[cur].exp, told[cur].imps,
                         told[cur].ideps>>
          /\ \A i \in Item : i # cur => told'[i] = told[i]
      BY <1>1, <1>2, <2>2, <3>1 DEF Report
    <3>3. \A i \in Item : UNCHANGED <<told[i].ideps, told[i].imps>>
      BY <1>1, <3>2
    <3>4. bufs' = [file_deps |-> AddElem(bufs.file_deps, f), item_deps |-> bufs.item_deps,
                   imports |-> bufs.imports]
      BY <1>5, <3>1
    <3>5. LET b == bufs'.imports IN
          /\ GoodBuffer(b, Module) /\ Holds(b, [i \in Item |-> told'[i].imps])
          /\ Len(b.vecs) # 0 /\ LastVector(b) = cur
          /\ \A i \in Item : HasVector(b, i) <=> got[i]
      BY <1>1, <1>5, <3>3, <3>4, BufferKept
    <3>6. LET b == bufs'.item_deps IN
          /\ GoodBuffer(b, HeaderUnit) /\ Holds(b, [i \in Item |-> told'[i].ideps])
          /\ Len(b.vecs) # 0 /\ LastVector(b) = cur
          /\ \A i \in Item : HasVector(b, i) <=> got[i]
      BY <1>1, <1>5, <3>3, <3>4, BufferKept
    <3>7. LET b == bufs'.file_deps IN
          /\ GoodBuffer(b, Header) /\ Holds(b, [i \in Item |-> told'[i].fdeps])
          /\ Len(b.vecs) # 0 /\ LastVector(b) = cur
          /\ \A i \in Item : HasVector(b, i) <=> got[i]
      BY SMTT(30), <1>1, <1>2, <1>5, <2>2, <3>2, <3>4, BufferExtended
    <3>8. bufs' = [file_deps |-> bufs'.file_deps, item_deps |-> bufs'.item_deps,
                   imports |-> bufs'.imports]
      BY <3>4
    <3>9. BuffersOK'
      BY <1>1, <1>2, <3>5, <3>6, <3>7, <3>8 DEF BuffersOK, BufferOK
    <3>10. \E d : /\ told'[cur].ideps = told[cur].ideps \cup d
                  /\ In(sdeps'[cur]) = In(sdeps[cur]) \cup d
      <4>1. /\ told'[cur].ideps = told[cur].ideps \cup {}
            /\ In(sdeps'[cur]) = In(sdeps[cur]) \cup {}
        BY <1>1, <3>1, <3>2
      <4>. QED
        BY <4>1
    <3>11. /\ told'[cur].fdeps \cup (lines'.deps \cap Header)
               = told[cur].fdeps \cup (lines.deps \cap Header)
           /\ told'[cur].ideps \cup (lines'.deps \cap HeaderUnit)
               = told[cur].ideps \cup (lines.deps \cap HeaderUnit)
      BY <1>1, <1>4, <2>2, <3>2
    <3>. QED
      BY <1>1, <1>3, <3>1, <3>2, <3>9, <3>10, <3>11
  <2>. QED
    BY <2>1, <2>2
<1>7. VarsOK'
  BY <1>1, <1>2, <1>4, <1>6 DEF VarsOK
<1>8. ReportsOK'
  <2>1. \A i \in Item : i # cur => UNCHANGED <<told[i], sdeps[i], mods.exports[i], Pending(i)>>
    BY <1>1, <1>2, <1>6
  <2>. QED
    BY <1>1, <1>2, <1>4, <1>6, <2>1, LineReports
<1>9. RestOK' /\ ImportsOK'
  BY <1>1, <1>2, <1>6 DEF RestOK, ImportsOK
<1>20. FinishedOK'
  BY StepFinished DEF Next
<1>. QED
  BY <1>20, <1>2, <1>6, <1>7, <1>8, <1>9 DEF IInv

\* What an item's vector holds comes back at the item.
LEMMA SpanOfItem ==
  ASSUME NEW S, NEW b, NEW of, BufferOK(b, S, of), NEW to \in [Item -> Seq(S)]
  PROVE  /\ ToVectors(b, to) \in [Item -> Seq(S)]
         /\ \A i \in Item : got[i] => In(ToVectors(b, to)[i]) = of[i]
         /\ \A i \in Item : ~got[i] /\ b.buf # <<>> => ToVectors(b, to)[i] = to[i]
<1>1. GoodBuffer(b, S) /\ Holds(b, of) /\ \A j \in Item : HasVector(b, j) <=> got[j]
  BY DEF BufferOK
<1>2. /\ ToVectors(b, to) \in [Item -> Seq(S)]
      /\ \A k \in 1 .. Len(b.vecs) :
           In(ToVectors(b, to)[b.vecs[k].final_idx]) = In(VectorAt(b, k))
      /\ \A i \in Item : ~HasVector(b, i) /\ b.buf # <<>> => ToVectors(b, to)[i] = to[i]
  BY <1>1, VectorsHandedBack
<1>3. ASSUME NEW i \in Item, got[i] PROVE In(ToVectors(b, to)[i]) = of[i]
  <2>1. PICK k \in 1 .. Len(b.vecs) : b.vecs[k].final_idx = i
    BY <1>1, <1>3 DEF HasVector
  <2>2. In(VectorAt(b, k)) = of[b.vecs[k].final_idx]
    BY <1>1 DEF Holds
  <2>. QED
    BY <1>2, <2>1, <2>2
<1>. QED
  BY <1>1, <1>2, <1>3

\* The tool has ended; the buffers become spans.
LEMMA StepToolExit == ASSUME IInv, ToolExit PROVE IInv'
<1>1. /\ FilesOK /\ RowsOK /\ VarsOK /\ OodOK /\ BuffersOK /\ ReportsOK /\ RestOK /\ ImportsOK
  BY DEF IInv
<1>2. /\ pc = "stream" /\ lines = NoLines /\ (todo = {} \/ world.fails) /\ pc' = "collate"
      /\ deps' = [file_deps |-> ToVectors(bufs.file_deps, deps.file_deps),
                  item_deps |-> ToVectors(bufs.item_deps, deps.item_deps)]
      /\ mods' = [mods EXCEPT !.imports = ToVectors(bufs.imports, @)]
      /\ told' = Finished
      /\ UNCHANGED <<files, db, ood, todo, lines, cur, got, sdeps, bufs, collated>>
  BY DEF ToolExit
<1>17. /\ told' \in [Item -> Report]
       /\ \A i \in Item :
            /\ ~got[i] => told'[i] = told[i]
            /\ told'[i].times = told[i].times /\ told'[i].ood = told[i].ood
            /\ told'[i].exp = told[i].exp /\ told'[i].imps = told[i].imps
            /\ told'[i].fdeps = told[i].fdeps /\ told'[i].ideps = told[i].ideps
  BY <1>2, NextFinished
<1>3. /\ FilesOK' /\ RowsOK' /\ OodSet' = OodSet /\ HeaderUnit' = HeaderUnit
      /\ UNCHANGED <<rows, content, world>> /\ Report' = Report
      /\ \A i \in Item : /\ KeptDeps(i)' = KeptDeps(i)
                         /\ ToldOfRow(i)' = ToldOfRow(i)
                         /\ Included(i)' = Included(i)
  BY <1>1, <1>2, FilesRest, RowsRest
<1>4. /\ mods.exports \in [Item -> Module \cup {NoModule}] /\ mods.imports \in [Item -> Seq(Module)]
      /\ mods = [exports |-> mods.exports, imports |-> mods.imports]
      /\ deps.file_deps \in [Item -> Seq(Header)] /\ deps.item_deps \in [Item -> Seq(HeaderUnit)]
  BY <1>1 DEF VarsOK
<1>5. /\ BufferOK(bufs.imports, Module, [i \in Item |-> told[i].imps])
      /\ BufferOK(bufs.file_deps, Header, [i \in Item |-> told[i].fdeps])
      /\ BufferOK(bufs.item_deps, HeaderUnit, [i \in Item |-> told[i].ideps])
  BY <1>1 DEF BuffersOK
<1>6. /\ mods'.exports = mods.exports /\ mods'.imports = ToVectors(bufs.imports, mods.imports)
      /\ mods' = [exports |-> mods'.exports, imports |-> mods'.imports]
  BY <1>2, <1>4
<1>7. /\ mods'.imports \in [Item -> Seq(Module)]
      /\ \A i \in Item : got[i] => In(mods'.imports[i]) = told[i].imps
      /\ \A i \in Item : ~got[i] /\ bufs.imports.buf # <<>> => mods'.imports[i] = mods.imports[i]
  <2>. DEFINE of == [i \in Item |-> told[i].imps]
              t == ToVectors(bufs.imports, mods.imports)
  <2>1. /\ t \in [Item -> Seq(Module)]
        /\ \A i \in Item : got[i] => In(t[i]) = of[i]
        /\ \A i \in Item : ~got[i] /\ bufs.imports.buf # <<>> => t[i] = mods.imports[i]
    <3>1. BufferOK(bufs.imports, Module, of) /\ mods.imports \in [Item -> Seq(Module)]
      BY <1>4, <1>5
    <3>. HIDE DEF of
    <3>. QED
      BY <3>1, SpanOfItem
  <2>2. \A i \in Item : of[i] = told[i].imps
    OBVIOUS
  <2>3. mods'.imports = t
    BY <1>6
  <2>. HIDE DEF of, t
  <2>. QED
    BY <2>1, <2>2, <2>3
<1>8. /\ deps'.file_deps \in [Item -> Seq(Header)]
      /\ \A i \in Item : got[i] => In(deps'.file_deps[i]) = told[i].fdeps
  <2>. DEFINE of == [i \in Item |-> told[i].fdeps]
              t == ToVectors(bufs.file_deps, deps.file_deps)
  <2>1. /\ t \in [Item -> Seq(Header)]
        /\ \A i \in Item : got[i] => In(t[i]) = of[i]
        /\ \A i \in Item : ~got[i] /\ bufs.file_deps.buf # <<>> => t[i] = deps.file_deps[i]
    <3>1. BufferOK(bufs.file_deps, Header, of) /\ deps.file_deps \in [Item -> Seq(Header)]
      BY <1>4, <1>5
    <3>. HIDE DEF of
    <3>. QED
      BY <3>1, SpanOfItem
  <2>2. \A i \in Item : of[i] = told[i].fdeps
    OBVIOUS
  <2>3. deps'.file_deps = t
    BY <1>2
  <2>. HIDE DEF of, t
  <2>. QED
    BY <2>1, <2>2, <2>3
<1>9. /\ deps'.item_deps \in [Item -> Seq(HeaderUnit)]
      /\ \A i \in Item : got[i] => In(deps'.item_deps[i]) = told[i].ideps
  <2>. DEFINE of == [i \in Item |-> told[i].ideps]
              t == ToVectors(bufs.item_deps, deps.item_deps)
  <2>1. /\ t \in [Item -> Seq(HeaderUnit)]
        /\ \A i \in Item : got[i] => In(t[i]) = of[i]
        /\ \A i \in Item : ~got[i] /\ bufs.item_deps.buf # <<>> => t[i] = deps.item_deps[i]
    <3>1. BufferOK(bufs.item_deps, HeaderUnit, of) /\ deps.item_deps \in [Item -> Seq(HeaderUnit)]
      BY <1>4, <1>5
    <3>. HIDE DEF of
    <3>. QED
      BY <3>1, SpanOfItem
  <2>2. \A i \in Item : of[i] = told[i].ideps
    OBVIOUS
  <2>3. deps'.item_deps = t
    BY <1>2
  <2>. HIDE DEF of, t
  <2>. QED
    BY <2>1, <2>2, <2>3
<1>10. VarsOK'
  <2>1. deps' = [file_deps |-> deps'.file_deps, item_deps |-> deps'.item_deps]
    BY <1>2
  <2>2. /\ mods' \in [exports : [Item -> Module \cup {NoModule}], imports : [Item -> Seq(Module)]]
        /\ deps' \in [file_deps : [Item -> Seq(Header)], item_deps : [Item -> Seq(HeaderUnit)]]
    BY <1>4, <1>6, <1>7, <1>8, <1>9, <2>1
  <2>. QED
    BY <1>1, <1>2, <1>3, <1>17, <2>2 DEF VarsOK
<1>11. IdleOK' /\ OodOK' /\ LinesOK' /\ GraphOK'
  BY <1>1, <1>2, <1>3 DEF IdleOK, OodOK, LinesOK, GraphOK
<1>12. BuffersOK'
  <2>1. /\ [i \in Item |-> told'[i].imps] = [i \in Item |-> told[i].imps]
        /\ [i \in Item |-> told'[i].fdeps] = [i \in Item |-> told[i].fdeps]
        /\ [i \in Item |-> told'[i].ideps] = [i \in Item |-> told[i].ideps]
    BY <1>17
  <2>. QED
    BY <1>1, <1>2, <1>3, <2>1 DEF BuffersOK, BufferOK
<1>13. ReportsOK'
  BY <1>1, <1>2, <1>3, <1>6, <1>17 DEF ReportsOK, Pending
<1>14. RestOK'
  BY <1>1, <1>2, <1>3, <1>6, <1>17 DEF RestOK
<1>15. ImportsOK'
  BY <1>1, <1>2, <1>3, <1>7 DEF ImportsOK, NoImportSeen, OodOK
<1>16. SpansOK'
  BY <1>2, <1>7, <1>8, <1>9, <1>17 DEF SpansOK
<1>20. FinishedOK'
  BY StepFinished DEF Next
<1>. QED
  BY <1>20, <1>3, <1>10, <1>11, <1>12, <1>13, <1>14, <1>15, <1>16 DEF IInv

\* The edges of the graph lead to the exporters of what is imported, and to what
\* scan_item_deps has.
LEMMA Edges ==
  ASSUME FilesOK, VarsOK, Resolvable, NEW i \in Item, NEW L, L = LookedUp(mods.imports[i])
  PROVE  /\ [k \in 1 .. Len(L) |-> Exporter(L[k])] \o sdeps[i] \in Seq(Item)
         /\ In([k \in 1 .. Len(L) |-> Exporter(L[k])] \o sdeps[i]) =
              {j \in Item : mods.exports[j] \in In(mods.imports[i]) \ {StdCore}} \cup In(sdeps[i])
<1>. DEFINE e == mods.exports
            M == In(mods.imports[i]) \ {StdCore}
            s == [k \in 1 .. Len(L) |-> Exporter(L[k])]
<1>1. L \in Seq(Module) /\ In(L) = M
  <2>1. mods.imports[i] \in Seq(Module)
    BY DEF VarsOK
  <2>. QED
    BY <2>1, LookedUpIn
<1>2. M \subseteq Module
  BY <1>1, InSeq
<1>3. ASSUME NEW m \in M PROVE Exporter(m) \in Item /\ e[Exporter(m)] = m
  <2>1. \E j \in Item : e[j] = m
    BY DEF Resolvable, Unresolved
  <2>. QED
    BY <2>1 DEF Exporter
<1>4. ASSUME NEW j \in Item, e[j] \in M PROVE j = Exporter(e[j])
  <2>1. e[j] # NoModule
    BY <1>2, <1>4, OutputAssumption
  <2>2. Exporter(e[j]) \in Item /\ e[Exporter(e[j])] = e[j]
    BY <1>3, <1>4
  <2>. QED
    BY <2>1, <2>2 DEF Resolvable, Ambiguous
<1>. HIDE DEF M, e
<1>5. \A k \in 1 .. Len(L) : L[k] \in M
  BY <1>1 DEF In
<1>6. s \in Seq(Item) /\ Len(s) = Len(L) /\ \A k \in 1 .. Len(L) : s[k] = Exporter(L[k])
  <2>1. \A k \in 1 .. Len(L) : Exporter(L[k]) \in Item
    BY <1>3, <1>5
  <2>2. Len(L) \in Nat
    BY <1>1
  <2>. QED
    BY <2>1, <2>2, SeqOfFunction
<1>. HIDE DEF s
<1>7. ASSUME NEW j \in In(s) PROVE j \in Item /\ e[j] \in M
  <2>1. PICK k \in 1 .. Len(L) : j = Exporter(L[k])
    BY <1>6 DEF In
  <2>. QED
    BY <1>3, <1>5, <2>1
<1>8. ASSUME NEW j \in Item, e[j] \in M PROVE j \in In(s)
  <2>1. PICK k \in 1 .. Len(L) : L[k] = e[j]
    BY <1>1, <1>8 DEF In
  <2>2. s[k] = j
    BY <1>4, <1>6, <1>8, <2>1
  <2>. QED
    BY <1>6, <2>1, <2>2 DEF In
<1>9. In(s) = {j \in Item : e[j] \in M}
  BY <1>7, <1>8
<1>10. In(s \o sdeps[i]) = In(s) \cup In(sdeps[i])
  <2>1. sdeps[i] \in Seq(HeaderUnit)
    BY DEF VarsOK
  <2>2. s \in Seq(Item \cup HeaderUnit) /\ sdeps[i] \in Seq(Item \cup HeaderUnit)
    BY <1>6, <2>1
  <2>. QED
    BY <2>2, InConcat
<1>11. s \o sdeps[i] \in Seq(Item)
  <2>1. sdeps[i] \in Seq(HeaderUnit) /\ HeaderUnit \subseteq Item
    BY FileFacts DEF VarsOK
  <2>2. sdeps[i] \in Seq(Item)
    BY <2>1
  <2>. QED
    BY <1>6, <2>2
<1>. QED
  BY <1>9, <1>10, <1>11 DEF s, e, M

\* Collating.
LEMMA StepCollate == ASSUME IInv, Collate PROVE IInv'
<1>1. /\ FilesOK /\ RowsOK /\ VarsOK /\ OodOK /\ BuffersOK /\ LinesOK /\ ReportsOK /\ RestOK
      /\ ImportsOK /\ SpansOK
  BY DEF IInv
<1>2. /\ pc = "collate" /\ pc' = "save"
      /\ UNCHANGED <<files, db, ood, todo, lines, cur, got, mods, deps, sdeps, bufs, told>>
  BY DEF Collate
<1>3. /\ FilesOK' /\ RowsOK' /\ OodSet' = OodSet /\ HeaderUnit' = HeaderUnit
      /\ UNCHANGED <<rows, content, world>> /\ Report' = Report
      /\ \A i \in Item : /\ KeptDeps(i)' = KeptDeps(i)
                         /\ ToldOfRow(i)' = ToldOfRow(i)
                         /\ Included(i)' = Included(i)
  BY <1>1, <1>2, FilesRest, RowsRest
<1>4. VarsOK' /\ IdleOK' /\ OodOK' /\ LinesOK'
  BY <1>1, <1>2, <1>3 DEF VarsOK, IdleOK, OodOK, LinesOK
<1>5. BuffersOK'
  BY <1>1, <1>2, <1>3 DEF BuffersOK, BufferOK
<1>6. ReportsOK'
  BY <1>1, <1>2, <1>3 DEF ReportsOK, Pending
<1>7. RestOK' /\ ImportsOK' /\ SpansOK'
  BY <1>1, <1>2, <1>3 DEF RestOK, ImportsOK, NoImportSeen, SpansOK
<1>8. GraphOK'
  <2>. DEFINE L(i) == LookedUp(mods.imports[i])
  <2>1. /\ collated'.success = Resolvable
        /\ Resolvable => collated'.exports = mods.exports
        /\ Resolvable => collated'.imports_item =
             [i \in Item |-> [k \in 1 .. Len(L(i)) |-> Exporter(L(i)[k])] \o sdeps[i]]
    BY DEF Collate, Resolvable
  <2>2. ASSUME Resolvable, NEW i \in Item
        PROVE  /\ collated'.imports_item[i] \in Seq(Item)
               /\ In(collated'.imports_item[i]) =
                    {j \in Item : mods.exports[j] \in In(mods.imports[i]) \ {StdCore}}
                      \cup In(sdeps[i])
    <3>1. collated'.imports_item[i] = [k \in 1 .. Len(L(i)) |-> Exporter(L(i)[k])] \o sdeps[i]
      BY <2>1, <2>2, Zenon
    <3>2. /\ [k \in 1 .. Len(L(i)) |-> Exporter(L(i)[k])] \o sdeps[i] \in Seq(Item)
          /\ In([k \in 1 .. Len(L(i)) |-> Exporter(L(i)[k])] \o sdeps[i]) =
               {j \in Item : mods.exports[j] \in In(mods.imports[i]) \ {StdCore}}
                 \cup In(sdeps[i])
      BY <1>1, <2>2, Edges, Zenon
    <3>. QED
      BY <3>1, <3>2, Zenon
  <2>3. Resolvable' = Resolvable
    BY <1>2 DEF Resolvable, Ambiguous, Unresolved
  <2>. QED
    BY <1>2, <2>1, <2>2, <2>3 DEF GraphOK
<1>20. FinishedOK'
  BY StepFinished DEF Next
<1>. QED
  BY <1>20, <1>3, <1>4, <1>5, <1>6, <1>7, <1>8 DEF IInv

\* What is saved of the items that were reported, and that the others keep their
\* rows.
LEMMA SavedRows ==
  ASSUME IInv, Save
  PROVE  /\ UNCHANGED <<world, content, HeaderUnit>>
         /\ rows' \in [Item -> Row]
         /\ \A i \in Item : ~got[i] => rows'[i] = rows[i]
         /\ \A i \in Item : got[i] =>
              /\ rows'[i].saved
              /\ In(rows'[i].imps) = content[i].imps
              /\ In(rows'[i].fdeps) = Included(i) \cap Header
              /\ In(rows'[i].ideps) = Included(i) \cap HeaderUnit
              /\ rows'[i].exp = IF content[i].exp = NoModule THEN rows[i].exp
                                ELSE content[i].exp
         /\ current' = current \cup {i \in Item : got[i]}
         /\ \A i \in Item : got[i] => i \in OodSet
<1>1. /\ FilesOK /\ RowsOK /\ VarsOK /\ OodOK /\ LinesOK /\ ReportsOK /\ SpansOK /\ pc = "save"
  BY DEF IInv, Save
<1>2. UNCHANGED <<world, content, HeaderUnit>>
  BY FilesRest DEF Save
<1>3. lines = NoLines /\ \A i \in Item : Pending(i) = NoLines
  BY <1>1 DEF LinesOK, Pending
<1>4. In(ood) = OodSet /\ \A i \in Item : got[i] => i \in OodSet
  BY <1>1, OodList DEF OodOK
<1>5. rows' = [i \in Item |->
         IF got[i] /\ i \in In(ood)
         THEN [saved |-> TRUE, exp |-> mods.exports[i], imps |-> mods.imports[i],
               fdeps |-> deps.file_deps[i], ideps |-> deps.item_deps[i]]
         ELSE rows[i]]
  BY DEF Save
<1>6. /\ \A i \in Item : ~got[i] => rows'[i] = rows[i]
      /\ \A i \in Item : got[i] => rows'[i] =
           [saved |-> TRUE, exp |-> mods.exports[i], imps |-> mods.imports[i],
            fdeps |-> deps.file_deps[i], ideps |-> deps.item_deps[i]]
  BY <1>4, <1>5
<1>7. \A i \in Item : /\ rows[i] \in Row
                      /\ mods.exports[i] \in Module \cup {NoModule}
                      /\ mods.imports[i] \in Seq(Module)
                      /\ deps.file_deps[i] \in Seq(Header)
                      /\ deps.item_deps[i] \in Seq(HeaderUnit)
  BY <1>1 DEF VarsOK, RowsOK
<1>8. rows' \in [Item -> Row]
  <2>1. ASSUME NEW i \in Item PROVE rows'[i] \in Row
    <3>1. CASE got[i]
      <4>1. rows'[i] =
              [saved |-> TRUE, exp |-> mods.exports[i], imps |-> mods.imports[i],
               fdeps |-> deps.file_deps[i], ideps |-> deps.item_deps[i]]
        BY <1>6, <3>1
      <4>. QED
        BY <1>7, <4>1 DEF Row
    <3>2. CASE ~got[i]
      BY <1>6, <1>7, <3>2
    <3>. QED
      BY <3>1, <3>2
  <2>. QED
    BY <1>5, <2>1
<1>9. ASSUME NEW i \in Item, got[i]
      PROVE  /\ rows'[i].saved
             /\ In(rows'[i].imps) = content[i].imps
             /\ In(rows'[i].fdeps) = Included(i) \cap Header
             /\ In(rows'[i].ideps) = Included(i) \cap HeaderUnit
             /\ rows'[i].exp = IF content[i].exp = NoModule THEN rows[i].exp
                               ELSE content[i].exp
  <2>1. /\ In(mods.imports[i]) = told[i].imps
        /\ In(deps.file_deps[i]) = told[i].fdeps
        /\ In(deps.item_deps[i]) = told[i].ideps
    BY <1>1, <1>9 DEF SpansOK
  <2>2. /\ told[i].imps = content[i].imps
        /\ told[i].fdeps = Included(i) \cap Header
        /\ told[i].ideps = Included(i) \cap HeaderUnit
        /\ mods.exports[i] = IF content[i].exp = NoModule THEN rows[i].exp
                             ELSE content[i].exp
    <3>1. /\ told[i].imps \cup Pending(i).imps = content[i].imps
          /\ told[i].fdeps \cup (Pending(i).deps \cap Header) = Included(i) \cap Header
          /\ told[i].ideps \cup (Pending(i).deps \cap HeaderUnit) = Included(i) \cap HeaderUnit
          /\ Pending(i).exp = NoModule =>
               mods.exports[i] = IF content[i].exp = NoModule THEN rows[i].exp
                                 ELSE content[i].exp
      BY <1>1, <1>9 DEF ReportsOK
    <3>2. Pending(i).exp = NoModule /\ Pending(i).imps = {} /\ Pending(i).deps = {}
      BY <1>3 DEF NoLines
    <3>. QED
      BY <3>1, <3>2
  <2>3. rows'[i] =
          [saved |-> TRUE, exp |-> mods.exports[i], imps |-> mods.imports[i],
           fdeps |-> deps.file_deps[i], ideps |-> deps.item_deps[i]]
    BY <1>6, <1>9
  <2>. QED
    BY <2>1, <2>2, <2>3
<1>10. current' = current \cup {i \in Item : got[i]}
  <2>1. current' = current \cup {i \in In(ood) : got[i]} /\ OodSet \subseteq Item
    BY OodFacts DEF Save
  <2>. QED
    BY <1>4, <2>1
<1>. QED
  BY <1>2, <1>4, <1>6, <1>8, <1>9, <1>10

\* Saving, and the end of the scan.
LEMMA StepSave == ASSUME IInv, Save PROVE IInv'
<1>1. FilesOK /\ RowsOK
  BY DEF IInv
<1>2. Leave /\ UNCHANGED files
  BY DEF Save
<1>3. FilesOK'
  BY <1>1, <1>2, FilesRest
<1>4. RowsOK'
  <2>1. /\ UNCHANGED <<world, content, HeaderUnit>>
        /\ rows' \in [Item -> Row]
        /\ \A i \in Item : ~got[i] => rows'[i] = rows[i]
        /\ \A i \in Item : got[i] =>
             /\ rows'[i].saved
             /\ rows'[i].exp = IF content[i].exp = NoModule THEN rows[i].exp
                               ELSE content[i].exp
        /\ current' = current \cup {i \in Item : got[i]}
    BY SavedRows
  <2>2. Row' = Row
    BY <2>1 DEF Row
  <2>3. \A i \in Item : content[i] \in world.says[i]
    BY <1>1 DEF FilesOK
  <2>4. ASSUME NEW i \in Item
        PROVE  rows'[i].exp = NoModule \/ \E c \in world.says[i] : c.exp = rows'[i].exp
    BY <1>1, <2>1, <2>3 DEF RowsOK
  <2>5. ASSUME NEW i \in current' PROVE i \in Item /\ rows'[i].saved
    BY <1>1, <2>1 DEF RowsOK
  <2>. QED
    BY <2>1, <2>2, <2>4, <2>5 DEF RowsOK
<1>5. VarsOK'
  BY <1>2, ItemsAreNumbers DEF Leave, VarsOK, NoMods, NoDeps, Empty, NotTold, Report, NoLines
<1>6. BuffersOK'
  <2>1. \A S, of : /\ GoodBuffer(EmptyBuffer, S) /\ Holds(EmptyBuffer, of)
                   /\ \A i \in Item : HasVector(EmptyBuffer, i) <=> got'[i]
    BY <1>2, EmptyHolds DEF Leave
  <2>2. /\ bufs'.imports = EmptyBuffer /\ bufs'.file_deps = EmptyBuffer
        /\ bufs'.item_deps = EmptyBuffer /\ lines' = NoLines
        /\ bufs' = [file_deps |-> bufs'.file_deps, item_deps |-> bufs'.item_deps,
                    imports |-> bufs'.imports]
    BY <1>2 DEF Leave, NoBuffers
  <2>3. \A S, of : BufferOK(bufs.imports, S, of)' /\ BufferOK(bufs.file_deps, S, of)'
                     /\ BufferOK(bufs.item_deps, S, of)'
    BY <2>1, <2>2 DEF BufferOK
  <2>. QED
    BY <2>2, <2>3 DEF BuffersOK
<1>7. IdleOK' /\ OodOK' /\ LinesOK' /\ ReportsOK' /\ RestOK' /\ ImportsOK' /\ SpansOK' /\ GraphOK'
  BY <1>2 DEF Leave, IdleOK, OodOK, LinesOK, ReportsOK, RestOK, ImportsOK, SpansOK, GraphOK
<1>20. FinishedOK'
  BY StepFinished DEF Next
<1>. QED
  BY <1>20, <1>3, <1>4, <1>5, <1>6, <1>7 DEF IInv

\* A step that changes nothing.
LEMMA StepStutter == ASSUME IInv, UNCHANGED vars PROVE IInv'
<1>1. UNCHANGED <<files, db>> /\ UNCHANGED <<pc, ood, todo, lines, cur, got, mods, deps, sdeps,
                                             bufs, told, collated>>
  BY DEF vars
<1>2. /\ FilesOK' /\ RowsOK' /\ OodSet' = OodSet /\ HeaderUnit' = HeaderUnit
      /\ UNCHANGED <<rows, content, world>> /\ Report' = Report
      /\ \A i \in Item : /\ KeptDeps(i)' = KeptDeps(i)
                         /\ ToldOfRow(i)' = ToldOfRow(i)
                         /\ Included(i)' = Included(i)
  BY <1>1, FilesRest, RowsRest DEF IInv
<1>3. VarsOK' /\ IdleOK' /\ OodOK' /\ LinesOK'
  BY <1>1, <1>2 DEF IInv, VarsOK, IdleOK, OodOK, LinesOK
<1>4. BuffersOK'
  BY <1>1, <1>2 DEF IInv, BuffersOK, BufferOK
<1>5. ReportsOK'
  BY <1>1, <1>2 DEF IInv, ReportsOK, Pending
<1>6. RestOK' /\ ImportsOK' /\ SpansOK'
  BY <1>1, <1>2 DEF IInv, RestOK, ImportsOK, NoImportSeen, SpansOK
<1>7. GraphOK'
  <2>1. Resolvable' = Resolvable
    BY <1>1 DEF Resolvable, Ambiguous, Unresolved
  <2>. QED
    BY <1>1, <2>1 DEF IInv, GraphOK
<1>20. FinishedOK'
  BY StepFinished DEF Next
<1>. QED
  BY <1>20, <1>2, <1>3, <1>4, <1>5, <1>6, <1>7 DEF IInv

\* IInv is inductive, whatever the tool reports, in whatever order, and wherever
\* it gives up.
THEOREM Invariance == Spec => []IInv
<1>1. IInv /\ [Next]_vars => IInv'
  BY StepEdit, StepBegin, StepHeader, StepExp, StepImp, StepDep, StepToolExit, StepCollate,
     StepSave, StepStutter DEF Next
<1>. QED
  BY <1>1, InitIInv, PTL DEF Spec

\* Every variable stays within its type: module names are listed as imports, items
\* as item dependencies, other files as file dependencies.
THEOREM TypeCorrect == Spec => []TypeOK
<1>1. IInv => TypeOK
  <2>. SUFFICES ASSUME IInv PROVE TypeOK
    OBVIOUS
  <2>1. FilesOK /\ RowsOK /\ VarsOK
    BY DEF IInv
  <2>2. In(ood) \subseteq Item /\ todo \subseteq 1 .. Len(ood)
    <3>1. CASE pc = "idle"
      BY <3>1, InEmpty DEF IInv, IdleOK
    <3>2. CASE pc # "idle"
      <4>1. ood = Ascending(OodSet) /\ todo \subseteq 1 .. Len(ood)
        BY <3>2 DEF IInv, OodOK
      <4>2. ood \in Seq(Item)
        BY <4>1, OodList
      <4>. QED
        BY <4>1, <4>2, InSeq
    <3>. QED
      BY <3>1, <3>2
  <2>3. ASSUME NEW i \in Item
        PROVE  /\ In(mods.imports[i]) \subseteq Module
               /\ In(deps.file_deps[i]) \subseteq Header
               /\ In(deps.item_deps[i]) \subseteq HeaderUnit
               /\ In(sdeps[i]) \subseteq HeaderUnit
    <3>1. /\ mods.imports[i] \in Seq(Module) /\ deps.file_deps[i] \in Seq(Header)
          /\ deps.item_deps[i] \in Seq(HeaderUnit) /\ sdeps[i] \in Seq(HeaderUnit)
      BY <2>1 DEF VarsOK
    <3>. QED
      BY <3>1, InSeq
  <2>. QED
    BY <2>1, <2>2, <2>3 DEF TypeOK, FilesOK, RowsOK, VarsOK
<1>. QED
  BY <1>1, Invariance, PTL

-----------------------------------------------------------------------------
(* The rows of the items that are up to date *)

\* Only edits and the end of a scan concern the rows and the files.
LEMMA RowSteps ==
  ASSUME [Next]_vars
  PROVE  (\E i \in Item : Edit(i)) \/ Save \/ UNCHANGED <<files, db>>
  BY DEF Next, BeginScan, HeaderLine, ExpLine, ImpLine, DepLine, Streaming, ToolExit, Collate,
         vars

\* An edit of file i leaves what item j includes alone, if j includes no file that
\* now includes others.
LEMMA EditIncluded ==
  ASSUME FilesOK, NEW i \in Item, Edit(i), NEW j \in Item, j # i,
         i \in Included(j) => content'[i].deps = content[i].deps
  PROVE  content'[j] = content[j] /\ Included(j)' = Included(j) /\ HeaderUnit' = HeaderUnit
<1>1. PICK c \in world.says[i] : content' = [content EXCEPT ![i] = c]
  BY DEF Edit
<1>2. world' = world /\ HeaderUnit' = HeaderUnit
  BY DEF Edit, HeaderUnit
<1>3. content \in [Item -> Content]
  BY DEF FilesOK
<1>4. content'[i] = c /\ \A h \in Item : h # i => content'[h] = content[h]
  BY <1>1, <1>3
<1>5. c.deps \subseteq HeaderUnit \cup Header
  <2>1. world \in Worlds
    BY DEF FilesOK
  <2>. QED
    BY <2>1, OutputAssumption DEF HeaderUnit
<1>. DEFINE U == HeaderUnit \cup Header
<1>6. \A h \in Item : content[h].deps \subseteq U
  BY FileFacts
<1>7. \A h \in Item : content[h].deps \subseteq U /\ content'[h].deps \subseteq U
  BY <1>4, <1>5, <1>6
<1>8. Included(j) = IncIn(content, U, j)
  BY IncludedIs
<1>9. Included(j)' = IncIn(content', U, j)
  BY <1>2 DEF Included, IncIn, IncSet
<1>10. \A h \in IncIn(content, U, j) \cap Item : content[h].deps = content'[h].deps
  BY <1>4, <1>8
<1>. HIDE DEF U
<1>11. IncIn(content', U, j) = IncIn(content, U, j)
  BY <1>4, <1>7, <1>10, IncludedFrame
<1>. QED
  BY <1>2, <1>4, <1>8, <1>9, <1>11

\* Edits: the items whose row is no longer right become out of date.
LEMMA EditRowsRight ==
  ASSUME HeaderUnitsStay, IInv, RowsRight, NEW i \in Item, Edit(i)
  PROVE  RowsRight'
<1>1. FilesOK /\ RowsOK
  BY DEF IInv
<1>2. /\ world' = world /\ rows' = rows /\ current' = current \ {i} /\ HeaderUnit' = HeaderUnit
  BY DEF Edit, HeaderUnit
<1>3. ASSUME NEW j \in Item, RightRow(j), j # i,
             i \in Included(j) => content'[i].deps = content[i].deps
      PROVE  RightRow(j)'
  <2>1. content'[j] = content[j] /\ Included(j)' = Included(j)
    BY <1>1, <1>3, EditIncluded
  <2>. QED
    BY <1>2, <1>3, <2>1 DEF RightRow
<1>4. CASE world.fails
  <2>1. ASSUME NEW j \in current' PROVE RightRow(j)'
    <3>1. j \in Item /\ j # i /\ RightRow(j)
      BY <1>1, <1>2, <1>4, <2>1 DEF RowsOK, RowsRight
    <3>2. ASSUME i \in Included(j) PROVE content'[i].deps = content[i].deps
      <4>1. i \in world.hu
        <5>1. Included(j) \subseteq HeaderUnit \cup Header /\ Header \cap Item = {}
          BY <1>1, <3>1, FileFacts, OutputAssumption
        <5>. QED
          BY <3>2, <5>1 DEF HeaderUnit
      <4>2. PICK c \in world.says[i] : content' = [content EXCEPT ![i] = c]
        BY DEF Edit
      <4>3. content \in [Item -> Content] /\ content[i] \in world.says[i] /\ world \in Worlds
        BY <1>1 DEF FilesOK
      <4>4. content'[i] = c
        BY <4>2, <4>3
      <4>. QED
        BY <1>4, <4>1, <4>3, <4>4 DEF HeaderUnitsStay
    <3>. QED
      BY <1>3, <3>1, <3>2
  <2>. QED
    BY <1>2, <1>4, <2>1 DEF RowsRight
<1>5. CASE ~world.fails
  <2>1. OwnOod' = OwnOod \cup {i}
    BY <1>2 DEF OwnOod
  <2>2. OwnOod \in SUBSET Item /\ OwnOod' \in SUBSET Item
    BY DEF OwnOod
  <2>3. /\ OodSet = OodOf(OwnOod, rows)
        /\ OodSet' = OodOf(OwnOod', rows)
    BY <1>2 DEF OodSet, DepClosed, OodOf
  <2>4. OodSet \subseteq OodSet'
    BY <2>1, <2>2, <2>3, OodOfGrows
  <2>5. i \in OodSet' /\ \A j \in Item : In(rows[j].ideps) \cap OodSet' # {} => j \in OodSet'
    BY <2>1, <2>2, <2>3, OodOfLeast
  <2>6. ASSUME NEW j \in Item \ OodSet' PROVE RightRow(j)'
    <3>1. RightRow(j) /\ j # i
      BY <1>5, <2>4, <2>5 DEF RowsRight
    <3>2. i \notin Included(j)
      <4>1. i \notin In(rows[j].ideps)
        BY <2>5, <2>6
      <4>2. In(rows[j].ideps) = Included(j) \cap HeaderUnit
        BY <3>1 DEF RightRow
      <4>3. Included(j) \subseteq HeaderUnit \cup Header /\ Header \cap Item = {}
        BY <1>1, FileFacts, OutputAssumption
      <4>. QED
        BY <4>1, <4>2, <4>3
    <3>. QED
      BY <1>3, <3>1, <3>2
  <2>. QED
    BY <1>2, <1>5, <2>6 DEF RowsRight
<1>. QED
  BY <1>4, <1>5

\* Saving: what was reported is right.
LEMMA SaveRowsRight == ASSUME IInv, RowsRight, Save PROVE RowsRight'
<1>1. /\ UNCHANGED <<world, content, HeaderUnit>>
      /\ \A i \in Item : ~got[i] => rows'[i] = rows[i]
      /\ \A i \in Item : got[i] =>
           /\ In(rows'[i].imps) = content[i].imps
           /\ In(rows'[i].fdeps) = Included(i) \cap Header
           /\ In(rows'[i].ideps) = Included(i) \cap HeaderUnit
      /\ current' = current \cup {i \in Item : got[i]}
  BY SavedRows
<1>2. \A i \in Item : Included(i)' = Included(i)
  BY FilesRest DEF Save
<1>3. ASSUME NEW i \in Item, got[i] \/ RightRow(i) PROVE RightRow(i)'
  <2>1. CASE got[i]
    BY <1>1, <1>2, <2>1 DEF RightRow
  <2>2. CASE ~got[i]
    BY <1>1, <1>2, <1>3, <2>2 DEF RightRow
  <2>. QED
    BY <2>1, <2>2
<1>4. CASE world.fails
  <2>1. ASSUME NEW i \in current' PROVE i \in Item /\ (got[i] \/ RightRow(i))
    BY <1>1, <1>4 DEF IInv, RowsOK, RowsRight
  <2>. QED
    BY <1>1, <1>3, <1>4, <2>1 DEF RowsRight
<1>5. CASE ~world.fails
  <2>1. \A i \in OodSet : got[i]
    <3>1. /\ ood = Ascending(OodSet) /\ todo = {}
          /\ \A k \in 1 .. Len(ood) : got[ood[k]] <=> k \notin todo
      BY <1>5 DEF IInv, OodOK, Save
    <3>2. In(ood) = OodSet
      BY <3>1, OodList
    <3>. HIDE DEF OodSet
    <3>. QED
      BY <3>1, <3>2 DEF In
  <2>2. ASSUME NEW i \in Item PROVE got[i] \/ RightRow(i)
    BY <1>5, <2>1 DEF RowsRight
  <2>. QED
    BY <1>1, <1>3, <1>5, <2>2 DEF RowsRight
<1>. QED
  BY <1>4, <1>5

\* RowsRight is kept by every step.
LEMMA StepRowsRight ==
  ASSUME HeaderUnitsStay, IInv, RowsRight, [Next]_vars
  PROVE  RowsRight'
<1>1. CASE \E i \in Item : Edit(i)
  BY <1>1, EditRowsRight
<1>2. CASE Save
  BY <1>2, SaveRowsRight
<1>3. CASE UNCHANGED <<files, db>>
  <2>1. /\ UNCHANGED <<world, content, HeaderUnit, rows, current, OodSet>>
        /\ \A i \in Item : Included(i)' = Included(i)
    BY <1>3, FilesRest, RowsRest
  <2>2. current \subseteq Item
    BY DEF IInv, RowsOK
  <2>3. \A i \in Item : RightRow(i) => RightRow(i)'
    BY <2>1 DEF RightRow
  <2>. QED
    BY <2>1, <2>2, <2>3 DEF RowsRight
<1>. QED
  BY <1>1, <1>2, <1>3, RowSteps

\* An item that is up to date was not edited since its row was written.
LEMMA UpToDateIsRight ==
  ASSUME RowsOK, RowsRight, NEW i \in Item \ OodSet
  PROVE  i \in current /\ RightRow(i)
<1>1. i \notin OwnOod
  BY OodFacts
<1>2. i \in current
  BY <1>1 DEF OwnOod
<1>. QED
  BY <1>2 DEF RowsRight

\* Rows stay right, where the tool does not fail or header units keep what they
\* include.
THEOREM RowsStayRight ==
  ASSUME HeaderUnitsStay
  PROVE  Spec => [](IInv /\ RowsRight)
<1>1. Init => RowsRight
  <2>. SUFFICES ASSUME Init PROVE RowsRight
    OBVIOUS
  <2>1. OwnOod = Item /\ current = {}
    BY DEF Init, OwnOod, NoRow
  <2>2. Item \subseteq OodSet
    BY <2>1, OodFacts
  <2>. QED
    BY <2>1, <2>2 DEF RowsRight
<1>2. (IInv /\ RowsRight) /\ [Next]_vars => (IInv /\ RowsRight)'
  <2>1. IInv /\ [Next]_vars => IInv'
    BY StepEdit, StepBegin, StepHeader, StepExp, StepImp, StepDep, StepToolExit, StepCollate,
       StepSave, StepStutter DEF Next
  <2>. QED
    BY <2>1, StepRowsRight
<1>. QED
  BY <1>1, <1>2, InitIInv, PTL DEF Spec

\* The rows of the items that are up to date say what their files say, whatever
\* was reported in which order. The hypothesis is needed: run header_unit_failure
\* has an item that failed come up to date because a header unit did.
THEOREM RowsFollowFiles ==
  ASSUME HeaderUnitsStay
  PROVE  Spec => []RowsAreReports
<1>1. IInv /\ RowsRight => RowsAreReports
  <2>1. ASSUME IInv, RowsRight, NEW i \in Item \ OodSet PROVE RightRow(i)
    BY <2>1, UpToDateIsRight DEF IInv
  <2>. QED
    BY <2>1 DEF RowsAreReports, RightRow
<1>. QED
  BY <1>1, RowsStayRight, PTL

-----------------------------------------------------------------------------
(* What the observer is told, and the module graph *)

\* A file that is no interface has never been one.
LEMMA NoStaleExport ==
  ASSUME InterfacesStay, FilesOK, RowsOK, NEW i \in Item, content[i].exp = NoModule
  PROVE  rows[i].exp = NoModule
<1>1. world \in Worlds /\ content[i] \in world.says[i]
  BY DEF FilesOK
<1>2. \A c \in world.says[i] : c.exp = NoModule
  BY <1>1 DEF InterfacesStay
<1>. QED
  BY <1>2 DEF RowsOK

\* The rows' exports are right as well, where files stay interfaces.
LEMMA StepExportsRight ==
  ASSUME InterfacesStay, IInv, ExportsRight, [Next]_vars
  PROVE  ExportsRight'
<1>1. CASE \E i \in Item : Edit(i)
  <2>1. PICK i \in Item : Edit(i)
    BY <1>1
  <2>2. PICK c \in world.says[i] : content' = [content EXCEPT ![i] = c]
    BY <2>1 DEF Edit
  <2>3. content \in [Item -> Content] /\ current \subseteq Item
    BY DEF IInv, FilesOK, RowsOK
  <2>. QED
    BY <2>1, <2>2, <2>3 DEF Edit, ExportsRight
<1>2. CASE Save
  <2>1. /\ UNCHANGED <<world, content>>
        /\ \A i \in Item : ~got[i] => rows'[i] = rows[i]
        /\ \A i \in Item : got[i] =>
             rows'[i].exp = IF content[i].exp = NoModule THEN rows[i].exp ELSE content[i].exp
        /\ current' = current \cup {i \in Item : got[i]}
    BY <1>2, SavedRows
  <2>2. \A i \in Item : content[i].exp = NoModule => rows[i].exp = NoModule
    BY NoStaleExport DEF IInv
  <2>3. ASSUME NEW i \in current' PROVE rows'[i].exp = content[i].exp
    <3>1. i \in Item
      BY <2>1, <2>3 DEF IInv, RowsOK
    <3>2. CASE got[i]
      BY <2>1, <2>2, <3>1, <3>2
    <3>3. CASE ~got[i]
      BY <2>1, <2>3, <3>1, <3>3 DEF ExportsRight
    <3>. QED
      BY <3>2, <3>3
  <2>. QED
    BY <2>1, <2>3 DEF ExportsRight
<1>3. CASE UNCHANGED <<files, db>>
  BY <1>3 DEF files, db, ExportsRight
<1>. QED
  BY <1>1, <1>2, <1>3, RowSteps

\* The invariant where rows say all that files say.
THEOREM ExportsStayRight ==
  ASSUME InterfacesStay
  PROVE  Spec => [](IInv /\ ExportsRight)
<1>1. Init => ExportsRight
  BY DEF Init, ExportsRight
<1>2. (IInv /\ ExportsRight) /\ [Next]_vars => (IInv /\ ExportsRight)'
  <2>1. IInv /\ [Next]_vars => IInv'
    BY StepEdit, StepBegin, StepHeader, StepExp, StepImp, StepDep, StepToolExit, StepCollate,
       StepSave, StepStutter DEF Next
  <2>. QED
    BY <2>1, StepExportsRight
<1>. QED
  BY <1>1, <1>2, InitIInv, PTL DEF Spec

\* The exports of the items that are up to date are those of their files, as long
\* as no file ceases to be an interface; run stale_export shows what happens then.
THEOREM ExportsFollowFiles ==
  ASSUME InterfacesStay
  PROVE  Spec => []RowsHaveExports
<1>1. IInv /\ ExportsRight => RowsHaveExports
  <2>1. ASSUME IInv, ExportsRight, NEW i \in Item \ OodSet PROVE rows[i].exp = content[i].exp
    <3>1. i \in current
      <4>1. i \notin OwnOod
        BY OodFacts
      <4>. QED
        BY <4>1 DEF OwnOod
    <3>. QED
      BY <2>1, <3>1 DEF ExportsRight
  <2>. QED
    BY <2>1 DEF RowsHaveExports
<1>. QED
  BY <1>1, ExportsStayRight, PTL

\* When the scan saves, it has all that is known of each item.
LEMMA SaveKnows ==
  ASSUME InterfacesStay, IInv, RowsRight, ExportsRight, pc = "save", NEW i \in Item
  PROVE  /\ Succeeded(i) <=> i \notin OodSet \/ got[i]
         /\ mods.exports[i] = Known(i).exp
         /\ Succeeded(i) =>
              told[i] = [times |-> 1, finished |-> 1, ood |-> i \in In(ood),
                         exp |-> content[i].exp, imps |-> content[i].imps,
                         fdeps |-> Included(i) \cap Header,
                         ideps |-> Included(i) \cap HeaderUnit]
         /\ ~Succeeded(i) => told[i] = NotTold
         /\ ~NoImportSeen => In(mods.imports[i]) = Known(i).imps
         /\ Succeeded(i) => /\ Included(i) \cap HeaderUnit \subseteq In(sdeps[i])
                            /\ In(sdeps[i]) \subseteq (Included(i) \cap HeaderUnit) \cup KeptDeps(i)
<1>1. /\ FilesOK /\ RowsOK /\ VarsOK /\ OodOK /\ LinesOK /\ ReportsOK /\ RestOK /\ ImportsOK
      /\ SpansOK
  BY DEF IInv
<1>2. In(ood) = OodSet /\ (got[i] => i \in OodSet)
  BY <1>1, OodList DEF OodOK
<1>3. Succeeded(i) <=> i \notin OodSet \/ got[i]
  BY <1>2 DEF Succeeded
<1>4. Pending(i).exp = NoModule /\ Pending(i).imps = {} /\ Pending(i).deps = {}
  BY <1>1 DEF LinesOK, Pending, NoLines
<1>5. told[i] \in Report
  BY <1>1 DEF VarsOK
<1>6. CASE got[i]
  <2>1. Succeeded(i) /\ Known(i).exp = content[i].exp /\ Known(i).imps = content[i].imps
    BY <1>3, <1>6 DEF Known
  <2>2. /\ told[i].times = 1 /\ told[i].ood /\ told[i].finished = 1
        /\ told[i].imps = content[i].imps
        /\ told[i].fdeps = Included(i) \cap Header
        /\ told[i].ideps = Included(i) \cap HeaderUnit
        /\ told[i].ideps \subseteq In(sdeps[i])
        /\ In(sdeps[i]) \subseteq told[i].ideps \cup KeptDeps(i)
        /\ told[i].exp = content[i].exp
        /\ mods.exports[i] = IF content[i].exp = NoModule THEN rows[i].exp ELSE content[i].exp
    <3>1. /\ told[i].times = 1 /\ told[i].ood
          /\ told[i].imps \cup Pending(i).imps = content[i].imps
          /\ told[i].fdeps \cup (Pending(i).deps \cap Header) = Included(i) \cap Header
          /\ told[i].ideps \cup (Pending(i).deps \cap HeaderUnit) = Included(i) \cap HeaderUnit
          /\ told[i].ideps \subseteq In(sdeps[i])
          /\ In(sdeps[i]) \subseteq told[i].ideps \cup KeptDeps(i)
          /\ Pending(i).exp = NoModule =>
               /\ told[i].exp = content[i].exp
               /\ mods.exports[i] = IF content[i].exp = NoModule THEN rows[i].exp
                                    ELSE content[i].exp
      BY <1>1, <1>6 DEF ReportsOK
    <3>2. told[i].finished = 1
      BY <1>6 DEF IInv, FinishedOK
    <3>. QED
      BY <1>4, <3>1, <3>2
  <2>3. told[i] = [times |-> 1, finished |-> 1, ood |-> i \in In(ood),
                   exp |-> content[i].exp, imps |-> content[i].imps,
                   fdeps |-> Included(i) \cap Header,
                   ideps |-> Included(i) \cap HeaderUnit]
    <3>1. told[i].ood = TRUE /\ (i \in In(ood)) = TRUE
      BY <1>2, <1>5, <1>6, <2>2 DEF Report
    <3>. QED
      BY <1>5, <2>2, <3>1 DEF Report
  <2>4. In(mods.imports[i]) = content[i].imps
    BY <1>1, <1>6, <2>2 DEF SpansOK
  <2>5. content[i].exp = NoModule => rows[i].exp = NoModule
    BY <1>1, NoStaleExport
  <2>. QED
    BY <1>3, <2>1, <2>2, <2>3, <2>4, <2>5
<1>7. CASE ~got[i] /\ i \in OodSet
  BY <1>1, <1>3, <1>7 DEF RestOK, ImportsOK, Known
<1>8. CASE ~got[i] /\ i \notin OodSet
  <2>1. i \in current /\ RightRow(i)
    BY <1>1, <1>8, UpToDateIsRight
  <2>2. rows[i].exp = content[i].exp
    BY <2>1 DEF ExportsRight
  <2>3. Succeeded(i) /\ Known(i).exp = content[i].exp /\ Known(i).imps = content[i].imps
    BY <1>3, <1>8 DEF Known
  <2>4. told[i] = ToldOfRow(i) /\ mods.exports[i] = rows[i].exp /\ sdeps[i] = rows[i].ideps
    BY <1>1, <1>8 DEF RestOK
  <2>5. ~NoImportSeen => mods.imports[i] = rows[i].imps
    BY <1>1, <1>8 DEF ImportsOK
  <2>6. (i \in In(ood)) = FALSE
    BY <1>2, <1>8
  <2>. QED
    BY <1>3, <2>1, <2>2, <2>3, <2>4, <2>5, <2>6 DEF RightRow, ToldOfRow
<1>. QED
  BY <1>6, <1>7, <1>8

\* The observer is told of every item that succeeded, once, what its file says,
\* and, once, that this was all.
THEOREM ObserverHearsAll ==
  ASSUME HeaderUnitsStay, InterfacesStay
  PROVE  Spec => []ToldExactly
<1>1. IInv /\ RowsRight /\ ExportsRight => ToldExactly
  BY SaveKnows DEF ToldExactly
<1>. QED
  BY <1>1, RowsStayRight, ExportsStayRight, PTL

\* Collating succeeds exactly when no module is exported twice and all that is
\* imported is exported.
THEOREM GraphIfResolvable ==
  ASSUME HeaderUnitsStay, InterfacesStay
  PROVE  Spec => []CollateSucceeds
<1>1. IInv /\ RowsRight /\ ExportsRight => CollateSucceeds
  <2>. SUFFICES ASSUME IInv, RowsRight, ExportsRight, pc = "save", ~NoImportSeen
                PROVE  collated.success <=>
                         /\ ~Ambiguous([i \in Item |-> Known(i).exp])
                         /\ ~Unresolved([i \in Item |-> Known(i).exp],
                                        [i \in Item |-> Known(i).imps])
    BY DEF CollateSucceeds
  <2>1. \A i \in Item : mods.exports[i] = Known(i).exp /\ In(mods.imports[i]) = Known(i).imps
    BY SaveKnows
  <2>2. mods.exports \in [Item -> Module \cup {NoModule}]
    BY DEF IInv, VarsOK
  <2>3. mods.exports = [i \in Item |-> Known(i).exp]
    BY <2>1, <2>2
  <2>4. [i \in Item |-> In(mods.imports[i])] = [i \in Item |-> Known(i).imps]
    BY <2>1
  <2>5. collated.success = Resolvable
    BY DEF IInv, GraphOK
  <2>. QED
    BY <2>3, <2>4, <2>5 DEF Resolvable
<1>. QED
  BY <1>1, RowsStayRight, ExportsStayRight, PTL

\* A graph that collating calls a success is that of the files, with the exceptions
\* CollatedExact names.
THEOREM GraphFollowsFiles ==
  ASSUME HeaderUnitsStay, InterfacesStay
  PROVE  Spec => []CollatedExact
<1>1. IInv /\ RowsRight /\ ExportsRight => CollatedExact
  <2>. SUFFICES ASSUME IInv, RowsRight, ExportsRight, pc = "save", collated.success,
                       ~NoImportSeen, NEW i \in Item, Succeeded(i)
                PROVE  /\ Imported(i) \subseteq In(collated.imports_item[i])
                       /\ In(collated.imports_item[i]) \subseteq Imported(i) \cup KeptDeps(i)
    BY DEF CollatedExact, KeptDeps
  <2>1. In(collated.imports_item[i]) =
          {j \in Item : mods.exports[j] \in In(mods.imports[i]) \ {StdCore}} \cup In(sdeps[i])
    BY DEF IInv, GraphOK
  <2>2. \A j \in Item : mods.exports[j] = Known(j).exp
    BY SaveKnows
  <2>3. In(mods.imports[i]) = content[i].imps
    BY SaveKnows DEF Known
  <2>4. /\ Included(i) \cap HeaderUnit \subseteq In(sdeps[i])
        /\ In(sdeps[i]) \subseteq (Included(i) \cap HeaderUnit) \cup KeptDeps(i)
    BY SaveKnows
  <2>5. {j \in Item : mods.exports[j] \in In(mods.imports[i]) \ {StdCore}}
          = {j \in Item : Known(j).exp \in content[i].imps \ {StdCore}}
    BY <2>2, <2>3
  <2>. QED
    BY <2>1, <2>4, <2>5 DEF Imported
<1>. QED
  BY <1>1, RowsStayRight, ExportsStayRight, PTL
=============================================================================
