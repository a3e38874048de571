-------------------------- MODULE LineReaderProofs --------------------------
(***************************************************************************)
(* That every line a tool prints is called back once and whole, and that   *)
(* the screen shows what it printed: for all texts, all sizes of pipes and *)
(* reads, and all orders in which the threads and the tool take steps.     *)
(***************************************************************************)
EXTENDS LineReader, FiniteSetTheorems, SequenceTheorems, TLAPS

-----------------------------------------------------------------------------
(* Numbers, sequences and positions *)

\* Induction, as a statement about sets of numbers.
LEMMA Induction ==
  ASSUME NEW S \in SUBSET Nat, 0 \in S, \A n \in S : n + 1 \in S
  PROVE  S = Nat
<1>. SUFFICES ASSUME Nat \ S # {} PROVE FALSE
  OBVIOUS
<1>1. PICK x \in Nat \ S : \A y \in Nat \ S : ~(<<y, x>> \in OpToRel(<, Nat))
  <2>. HIDE DEF OpToRel
  <2>1. Nat \ S \subseteq Nat
    OBVIOUS
  <2>. QED
    BY <2>1, WFMin, NatLessThanWellFounded, Zenon
<1>2. \A y \in Nat : y < x => <<y, x>> \in OpToRel(<, Nat)
  BY DEF OpToRel
<1>3. x # 0 /\ x - 1 \in Nat /\ x - 1 < x /\ x = (x - 1) + 1
  OBVIOUS
<1>. QED
  BY <1>1, <1>2, <1>3

\* Induction on sequences, in the same form.
LEMMA SequenceInduction ==
  ASSUME NEW E, NEW S \in SUBSET Seq(E), <<>> \in S, \A q \in S, x \in E : Append(q, x) \in S
  PROVE  S = Seq(E)
<1>. DEFINE N == {n \in Nat : \A q \in Seq(E) : Len(q) = n => q \in S}
<1>1. 0 \in N
  <2>1. \A q \in Seq(E) : Len(q) = 0 => q = <<>>
    OBVIOUS
  <2>. QED
    BY <2>1
<1>2. ASSUME NEW n \in N PROVE n + 1 \in N
  <2>. SUFFICES ASSUME NEW q \in Seq(E), Len(q) = n + 1 PROVE q \in S
    OBVIOUS
  <2>1. PICK r \in Seq(E), x \in E : q = Append(r, x)
    <3>1. q # <<>>
      OBVIOUS
    <3>. QED
      BY <3>1, SequenceEmptyOrAppend
  <2>2. Len(r) = n
    BY <2>1
  <2>. QED
    BY <2>1, <2>2
<1>3. N \in SUBSET Nat
  OBVIOUS
<1>4. N = Nat
  <2>. HIDE DEF N
  <2>. QED
    BY <1>1, <1>2, <1>3, Induction
<1>5. \A q \in Seq(E) : Len(q) \in N
  BY <1>4
<1>. QED
  BY <1>5

\* A set of positions and one that is larger than all of them.
LEMMA NextRank ==
  ASSUME NEW n \in Nat, NEW S \in SUBSET (1 .. n), NEW m, m = n + 1, NEW T, T = S \cup {m}
  PROVE  /\ Cardinality(S) \in Nat /\ Cardinality(T) = Cardinality(S) + 1
         /\ \A k \in 1 .. Cardinality(S) : Nth(T, k) = Nth(S, k)
         /\ Nth(T, Cardinality(S) + 1) = m
<1>. DEFINE c == Cardinality(S)
<1>1. IsFiniteSet(S) /\ c \in Nat /\ m \notin S /\ m \in Nat /\ S \subseteq Nat
  <2>1. IsFiniteSet(1 .. n)
    BY FS_Interval
  <2>2. IsFiniteSet(S)
    BY <2>1, FS_Subset
  <2>. QED
    BY <2>2, FS_CardinalityType
<1>2. Cardinality(T) = c + 1
  BY <1>1, FS_AddElement
<1>3. Cardinality({l \in T : l <= m}) = c + 1
  <2>1. \A l \in T : l <= m
    OBVIOUS
  <2>2. {l \in T : l <= m} = T
    BY <2>1
  <2>. QED
    BY <1>2, <2>2
<1>4. \A k \in S : {l \in T : l <= k} = {l \in S : l <= k}
  <2>. SUFFICES ASSUME NEW k \in S PROVE {l \in T : l <= k} = {l \in S : l <= k}
    OBVIOUS
  <2>1. ~(m <= k)
    BY <1>1
  <2>2. \A l : l \in T <=> l \in S \/ l = m
    OBVIOUS
  <2>3. ASSUME NEW l PROVE l \in T /\ l <= k <=> l \in S /\ l <= k
    BY <2>1, <2>2, Zenon
  <2>. QED
    BY <2>3, Zenon
<1>5. ASSUME NEW k \in S PROVE Cardinality({l \in S : l <= k}) \in Nat /\ Cardinality({l \in S : l <= k}) <= c
  BY <1>1, FS_Subset, FS_CardinalityType
<1>6. ASSUME NEW k \in 1 .. c PROVE Ranked(T, k) = Ranked(S, k)
  <2>1. Cardinality({l \in T : l <= m}) # k
    BY <1>1, <1>3
  <2>2. \A x \in S : Cardinality({l \in T : l <= x}) = Cardinality({l \in S : l <= x})
    BY <1>4
  <2>3. ASSUME NEW x PROVE x \in Ranked(T, k) <=> x \in Ranked(S, k)
    <3>1. CASE x = m
      BY <1>1, <2>1, <3>1 DEF Ranked
    <3>2. CASE x # m
      BY <2>2, <3>2 DEF Ranked
    <3>. QED
      BY <3>1, <3>2
  <2>. QED
    BY <2>3 DEF Ranked
<1>7. Ranked(T, c + 1) = {m}
  <2>1. \A k \in S : Cardinality({l \in T : l <= k}) # c + 1
    BY <1>1, <1>4, <1>5
  <2>2. m \in T /\ Cardinality({l \in T : l <= m}) = c + 1
    BY <1>3
  <2>3. ASSUME NEW x PROVE x \in Ranked(T, c + 1) <=> x = m
    <3>1. CASE x = m
      BY <2>2, <3>1 DEF Ranked
    <3>2. CASE x # m
      BY <2>1, <3>2 DEF Ranked
    <3>. QED
      BY <3>1, <3>2
  <2>. QED
    BY <2>3
<1>8. \A k \in 1 .. c : Nth(T, k) = Nth(S, k)
  BY <1>6 DEF Nth
<1>9. Nth(T, c + 1) = m
  BY <1>7 DEF Nth
<1>. QED
  BY <1>1, <1>2, <1>8, <1>9

\* There is a member of each rank.
LEMMA RanksExist ==
  ASSUME NEW n \in Nat, NEW S \in SUBSET (1 .. n), NEW k \in 1 .. Cardinality(S)
  PROVE  Nth(S, k) \in S
<1>. DEFINE N == {i \in Nat : \A T \in SUBSET (1 .. i) : \A j \in 1 .. Cardinality(T) : Nth(T, j) \in T}
<1>1. 0 \in N
  <2>1. \A T \in SUBSET (1 .. 0) : T = {}
    OBVIOUS
  <2>2. Cardinality({}) = 0
    BY FS_EmptySet
  <2>3. \A T \in SUBSET (1 .. 0) : \A j \in 1 .. Cardinality(T) : FALSE
    BY <2>1, <2>2
  <2>. QED
    BY <2>3
<1>2. ASSUME NEW i \in N PROVE i + 1 \in N
  <2>. SUFFICES ASSUME NEW T \in SUBSET (1 .. i + 1), NEW j \in 1 .. Cardinality(T) PROVE Nth(T, j) \in T
    OBVIOUS
  <2>1. CASE i + 1 \notin T
    <3>1. T \in SUBSET (1 .. i)
      BY <2>1
    <3>. QED
      BY <3>1
  <2>2. CASE i + 1 \in T
    <3>. DEFINE U == T \ {i + 1}
    <3>1. U \in SUBSET (1 .. i) /\ T = U \cup {i + 1} /\ i \in Nat
      BY <2>2
    <3>. HIDE DEF U
    <3>2. /\ Cardinality(U) \in Nat /\ Cardinality(T) = Cardinality(U) + 1
          /\ \A h \in 1 .. Cardinality(U) : Nth(T, h) = Nth(U, h)
          /\ Nth(T, Cardinality(U) + 1) = i + 1
      BY <3>1, NextRank
    <3>3. \A h \in 1 .. Cardinality(U) : Nth(U, h) \in U
      BY <3>1
    <3>4. j \in 1 .. Cardinality(U) \/ j = Cardinality(U) + 1
      BY <3>2
    <3>. QED
      BY <3>1, <3>2, <3>3, <3>4
  <2>. QED
    BY <2>1, <2>2
<1>3. N \in SUBSET Nat
  OBVIOUS
<1>4. N = Nat
  <2>. HIDE DEF N
  <2>. QED
    BY <1>1, <1>2, <1>3, Induction
<1>. QED
  BY <1>4

\* The values of f at some positions, in their order.
Picked(f, at) == [k \in 1 .. Cardinality(at) |-> f[Nth(at, k)]]

Values(f, at, E) == \A k \in at : f[k] \in E
Agree(g, f, at)  == \A k \in at : g[k] = f[k]

\* g is f at some positions, and x at one more.
Grows(E, n, f, g, at, all, x) ==
    /\ n \in Nat /\ at \in SUBSET (1 .. n) /\ all = at \cup {n + 1} /\ x \in E
    /\ Values(f, at, E) /\ Agree(g, f, at) /\ g[n + 1] = x

\* What is picked from a sequence is a sequence, as long as there are positions.
LEMMA PickedIsSeq ==
  ASSUME NEW E, NEW n \in Nat, NEW f, NEW at \in SUBSET (1 .. n), Values(f, at, E)
  PROVE  Picked(f, at) \in Seq(E) /\ Len(Picked(f, at)) = Cardinality(at) /\ Cardinality(at) \in Nat
<1>1. Cardinality(at) \in Nat
  <2>1. IsFiniteSet(1 .. n)
    BY FS_Interval
  <2>2. IsFiniteSet(at)
    BY <2>1, FS_Subset
  <2>. QED
    BY <2>2, FS_CardinalityType
<1>2. \A k \in 1 .. Cardinality(at) : Nth(at, k) \in at
  BY RanksExist
<1>3. \A k \in 1 .. Cardinality(at) : f[Nth(at, k)] \in E
  BY <1>2 DEF Values
<1>. QED
  BY <1>1, <1>3 DEF Picked

\* One more element is picked last, or not at all.
LEMMA PickedGrows ==
  ASSUME NEW E, NEW n, NEW f, NEW g, NEW at, NEW all, NEW x,
         Grows(E, n, f, g, at, all, x)
  PROVE  Picked(g, at) = Picked(f, at) /\ Picked(g, all) = Append(Picked(f, at), x)
<1>. DEFINE c == Cardinality(at)
            p == Picked(f, at)
            q == Picked(g, all)
<1>0. /\ n \in Nat /\ at \in SUBSET (1 .. n) /\ all = at \cup {n + 1} /\ x \in E
      /\ Values(f, at, E) /\ Agree(g, f, at) /\ g[n + 1] = x
  BY DEF Grows
<1>1. /\ c \in Nat /\ Cardinality(all) = c + 1
      /\ \A k \in 1 .. c : Nth(all, k) = Nth(at, k)
      /\ Nth(all, c + 1) = n + 1
  BY <1>0, NextRank
<1>2. \A k \in 1 .. c : Nth(at, k) \in at
  BY <1>0, RanksExist
<1>3. p \in Seq(E) /\ Len(p) = c
  BY <1>0, PickedIsSeq
<1>4. q \in Seq(E) /\ Len(q) = c + 1
  <2>. DEFINE m == n + 1
  <2>1. all \in SUBSET (1 .. m) /\ m \in Nat
    BY <1>0
  <2>2. Values(g, all, E)
    BY <1>0 DEF Values, Agree
  <2>. HIDE DEF m
  <2>3. q \in Seq(E) /\ Len(q) = Cardinality(all)
    BY <2>1, <2>2, PickedIsSeq
  <2>. QED
    BY <1>1, <2>3
<1>5. \A k \in 1 .. c : q[k] = p[k]
  <2>. SUFFICES ASSUME NEW k \in 1 .. c PROVE q[k] = p[k]
    OBVIOUS
  <2>1. k \in 1 .. Cardinality(all) /\ Nth(all, k) = Nth(at, k) /\ Nth(at, k) \in at
    BY <1>1, <1>2
  <2>2. q[k] = g[Nth(all, k)] /\ p[k] = f[Nth(at, k)]
    BY <2>1 DEF Picked
  <2>. QED
    BY <1>0, <2>1, <2>2 DEF Agree
<1>6. q[c + 1] = g[n + 1]
  <2>1. c + 1 \in 1 .. Cardinality(all)
    BY <1>1
  <2>. QED
    BY <1>1, <2>1 DEF Picked
<1>7. Picked(g, at) = p
  BY <1>0, <1>2 DEF Picked, Agree
<1>. HIDE DEF p, q
<1>8. q = Append(p, g[n + 1])
  <2>1. Append(p, g[n + 1]) \in Seq(E) /\ Len(Append(p, g[n + 1])) = c + 1
    BY <1>0, <1>3
  <2>2. \A k \in 1 .. c + 1 : Append(p, g[n + 1])[k] = q[k]
    BY <1>1, <1>3, <1>5, <1>6
  <2>. QED
    BY <1>4, <2>1, <2>2, SeqEqual
<1>. QED
  BY <1>0, <1>7, <1>8, <1>6 DEF p, q

\* Without positions nothing is picked.
LEMMA NothingPicked == ASSUME NEW f PROVE Picked(f, {}) = <<>>
<1>1. Picked(f, {}) \in Seq({}) /\ Len(Picked(f, {})) = 0
  <2>1. {} \in SUBSET (1 .. 0) /\ Values(f, {}, {}) /\ Cardinality({}) = 0
    BY FS_EmptySet DEF Values
  <2>. QED
    BY <2>1, PickedIsSeq
<1>. QED
  BY <1>1

-----------------------------------------------------------------------------
(* The text of a stream, and a sequence without some elements *)

\* What is printed, heard or shown: a stream and something on it.
On(E) == Stream \X E

\* What is on a stream is a pair.
LEMMA OnStreams == \A E : \A p \in On(E) : p[1] \in Stream /\ p[2] \in E /\ p = <<p[1], p[2]>>
BY DEF On

\* The text of a stream, one printed character further.
LEMMA TextGrows ==
  ASSUME NEW E, NEW q \in Seq(On(E)), NEW p \in On(E), NEW s \in Stream
  PROVE  /\ TextOf(q, s) \in Seq(E)
         /\ TextOf(Append(q, p), s) = IF p[1] = s THEN Append(TextOf(q, s), p[2]) ELSE TextOf(q, s)
<1>. DEFINE r == p[1]
            x == p[2]
            n == Len(q)
            new == Append(q, p)
            f == [k \in 1 .. n |-> q[k][2]]
            g == [k \in 1 .. n + 1 |-> new[k][2]]
            at == {k \in 1 .. n : q[k][1] = s}
            more == at \cup {n + 1}
            all == {k \in 1 .. Len(new) : new[k][1] = s}
<1>1. /\ n \in Nat /\ new \in Seq(On(E)) /\ Len(new) = n + 1 /\ new[n + 1] = p
      /\ \A k \in 1 .. n : new[k] = q[k] /\ q[k] \in On(E)
  OBVIOUS
<1>. r \in Stream /\ x \in E /\ \A k \in 1 .. n : q[k][1] \in Stream /\ q[k][2] \in E
  BY <1>1, OnStreams
<1>. HIDE DEF r, x
<1>. HIDE DEF new
<1>2. /\ at \in SUBSET (1 .. n) /\ \A k \in at : f[k] \in E /\ g[k] = f[k]
      /\ g[n + 1] \in E /\ g[n + 1] = x
  <2>1. n + 1 \in 1 .. n + 1 /\ \A k \in 1 .. n : k \in 1 .. n + 1
    BY <1>1
  <2>2. g[n + 1] = x
    BY <1>1, <2>1 DEF x
  <2>3. \A k \in 1 .. n : f[k] = q[k][2] /\ g[k] = new[k][2] /\ q[k][2] \in E
    BY <1>1, <2>1
  <2>. QED
    BY <1>1, <2>2, <2>3
<1>3. all = IF r = s THEN more ELSE at
  BY <1>1 DEF r
<1>4. \A k \in 1 .. Cardinality(at) : Nth(at, k) \in at
  BY <1>1, <1>2, RanksExist
<1>5. \A k \in 1 .. Cardinality(all) : Nth(all, k) \in all
  <2>1. all \in SUBSET (1 .. n + 1)
    BY <1>1
  <2>2. n + 1 \in Nat
    BY <1>1
  <2>. QED
    BY <2>1, <2>2, RanksExist
<1>6. TextOf(q, s) = Picked(f, at)
  <2>1. \A k \in at : f[k] = q[k][2]
    OBVIOUS
  <2>. QED
    BY <1>4, <2>1 DEF TextOf, Picked
<1>7. TextOf(new, s) = Picked(g, all)
  <2>1. all \in SUBSET (1 .. n + 1)
    BY <1>1
  <2>2. \A k \in all : g[k] = new[k][2]
    BY <2>1
  <2>. QED
    BY <1>5, <2>2 DEF TextOf, Picked
<1>. HIDE DEF n, f, g, at, more, all
<1>8. Picked(f, at) \in Seq(E)
  <2>1. Values(f, at, E)
    BY <1>2 DEF Values
  <2>. QED
    BY <1>1, <1>2, <2>1, PickedIsSeq
<1>9. Picked(g, at) = Picked(f, at) /\ Picked(g, more) = Append(Picked(f, at), x)
  <2>1. Grows(E, n, f, g, at, more, x)
    BY <1>1, <1>2 DEF Values, Agree, Grows, more
  <2>. QED
    BY <2>1, PickedGrows
<1>. QED
  BY <1>3, <1>6, <1>7, <1>8, <1>9 DEF new, r, x

\* Where nothing is printed there is no text.
LEMMA NoText == ASSUME NEW s PROVE TextOf(<<>>, s) = <<>>
<1>. DEFINE at == {k \in 1 .. Len(<<>>) : <<>>[k][1] = s}
<1>1. at = {}
  OBVIOUS
<1>2. \A k \in 1 .. Cardinality(at) : FALSE
  BY <1>1, FS_EmptySet
<1>3. TextOf(<<>>, s) = [k \in 1 .. Cardinality(at) |-> <<>>[Nth(at, k)][2]]
  BY DEF TextOf
<1>. HIDE DEF at
<1>4. TextOf(<<>>, s) = Picked(<<>>, at)
  BY <1>2, <1>3 DEF Picked
<1>. QED
  BY <1>1, <1>4, NothingPicked

\* Leaving out an element, one element further.
LEMMA WithoutGrows ==
  ASSUME NEW E, NEW q \in Seq(E), NEW x \in E, NEW z
  PROVE  /\ Without(q, z) \in Seq(E)
         /\ Without(Append(q, x), z) = IF x = z THEN Without(q, z) ELSE Append(Without(q, z), x)
<1>. DEFINE n == Len(q)
            new == Append(q, x)
            at == {k \in 1 .. n : q[k] # z}
            more == at \cup {n + 1}
            all == {k \in 1 .. Len(new) : new[k] # z}
<1>1. /\ n \in Nat /\ new \in Seq(E) /\ Len(new) = n + 1 /\ new[n + 1] = x
      /\ \A k \in 1 .. n : new[k] = q[k] /\ q[k] \in E
  OBVIOUS
<1>. HIDE DEF new
<1>2. /\ at \in SUBSET (1 .. n) /\ \A k \in at : q[k] \in E /\ new[k] = q[k]
      /\ new[n + 1] \in E
  BY <1>1
<1>3. all = IF x = z THEN at ELSE more
  BY <1>1
<1>4. Without(q, z) = Picked(q, at) /\ Without(new, z) = Picked(new, all)
  BY DEF Without, Picked
<1>. HIDE DEF n, at, more, all
<1>5. Picked(q, at) \in Seq(E)
  <2>1. Values(q, at, E)
    BY <1>2 DEF Values
  <2>. QED
    BY <1>1, <1>2, <2>1, PickedIsSeq
<1>6. Picked(new, at) = Picked(q, at) /\ Picked(new, more) = Append(Picked(q, at), x)
  <2>1. Grows(E, n, q, new, at, more, x)
    BY <1>1, <1>2 DEF Values, Agree, Grows, more
  <2>. QED
    BY <2>1, PickedGrows
<1>. QED
  BY <1>3, <1>4, <1>5, <1>6 DEF new

\* From nothing, nothing is left out.
LEMMA NothingWithout == ASSUME NEW z PROVE Without(<<>>, z) = <<>>
<1>. DEFINE at == {k \in 1 .. Len(<<>>) : <<>>[k] # z}
<1>1. at = {}
  OBVIOUS
<1>2. Without(<<>>, z) = Picked(<<>>, at)
  BY DEF Without, Picked
<1>. QED
  BY <1>1, <1>2, NothingPicked

\* The text of a stream consists of what was put on it.
LEMMA TextTyped ==
  ASSUME NEW E, NEW q \in Seq(On(E)), NEW s \in Stream
  PROVE  TextOf(q, s) \in Seq(E)
<1>1. CASE q = <<>>
  <2>1. <<>> \in Seq(E)
    OBVIOUS
  <2>. QED
    BY <1>1, <2>1, NoText
<1>2. CASE q # <<>>
  <2>1. q[1] \in On(E)
    BY <1>2
  <2>. QED
    BY <2>1, TextGrows
<1>. QED
  BY <1>1, <1>2

\* Appending to the second of two parts appends to the whole.
LEMMA AppendToBoth ==
  ASSUME NEW E, NEW a \in Seq(E), NEW b \in Seq(E), NEW x \in E
  PROVE  a \o Append(b, x) = Append(a \o b, x) /\ a \o b \in Seq(E)
<1>1. Append(b, x) = b \o <<x>> /\ Append(a \o b, x) = (a \o b) \o <<x>> /\ a \o b \in Seq(E)
  BY AppendIsConcat, ConcatProperties
<1>2. <<x>> \in Seq(E)
  OBVIOUS
<1>3. (a \o b) \o <<x>> = a \o (b \o <<x>>)
  BY <1>2, ConcatAssociative
<1>. QED
  BY <1>1, <1>3

\* The text of two parts is the two texts.
LEMMA TextOfBoth ==
  ASSUME NEW E, NEW a \in Seq(On(E)), NEW b \in Seq(On(E)), NEW s \in Stream
  PROVE  TextOf(a \o b, s) = TextOf(a, s) \o TextOf(b, s)
<1>. DEFINE P == On(E)
            S == {q \in Seq(P) : TextOf(a \o q, s) = TextOf(a, s) \o TextOf(q, s)}
<1>1. /\ \A q \in Seq(P) : TextOf(q, s) \in Seq(E)
      /\ \A q \in Seq(P), x \in P :
           TextOf(Append(q, x), s) = IF x[1] = s THEN Append(TextOf(q, s), x[2]) ELSE TextOf(q, s)
      /\ \A x \in P : x[2] \in E
  BY TextTyped, TextGrows, OnStreams
<1>0. a \in Seq(P)
  OBVIOUS
<1>. HIDE DEF P
<1>2. <<>> \in S
  <2>1. a \o <<>> = a
    BY <1>0, ConcatEmptySeq
  <2>2. TextOf(a, s) \in Seq(E)
    BY <1>0, <1>1
  <2>3. TextOf(a, s) \o <<>> = TextOf(a, s)
    BY <2>2, ConcatEmptySeq
  <2>4. <<>> \in Seq(P)
    OBVIOUS
  <2>. QED
    BY <2>1, <2>3, <2>4, NoText
<1>3. ASSUME NEW q \in S, NEW x \in P PROVE Append(q, x) \in S
  <2>1. q \in Seq(P) /\ TextOf(a \o q, s) = TextOf(a, s) \o TextOf(q, s)
    OBVIOUS
  <2>3. a \o Append(q, x) = Append(a \o q, x) /\ a \o q \in Seq(P)
    BY <1>0, <2>1, AppendToBoth
  <2>6. TextOf(a, s) \o Append(TextOf(q, s), x[2]) = Append(TextOf(a, s) \o TextOf(q, s), x[2])
    BY <1>0, <1>1, <2>1, AppendToBoth
  <2>7. Append(q, x) \in Seq(P)
    BY <2>1
  <2>. QED
    BY ZenonT(30), <1>1, <2>1, <2>3, <2>6, <2>7
<1>4. S = Seq(P)
  <2>1. S \in SUBSET Seq(P)
    OBVIOUS
  <2>. HIDE DEF S
  <2>. QED
    BY <1>2, <1>3, <2>1, SequenceInduction
<1>. QED
  BY <1>4 DEF P

\* The text of a stream, from its first character.
LEMMA TextByHead ==
  ASSUME NEW E, NEW q \in Seq(On(E)), q # <<>>, NEW s \in Stream
  PROVE  /\ Head(q) \in On(E) /\ Tail(q) \in Seq(On(E))
         /\ TextOf(q, s) = IF Head(q)[1] = s THEN <<Head(q)[2]>> \o TextOf(Tail(q), s)
                           ELSE TextOf(Tail(q), s)
<1>. DEFINE P == On(E)
            h == Head(q)
            one == <<h>>
<1>1. h \in P /\ Tail(q) \in Seq(P)
  OBVIOUS
<1>2. q = one \o Tail(q)
  OBVIOUS
<1>3. one = Append(<<>>, h) /\ one \in Seq(P) /\ <<>> \in Seq(P)
  BY <1>1
<1>. HIDE DEF h
<1>5. TextOf(one, s) = IF h[1] = s THEN Append(<<>>, h[2]) ELSE <<>>
  <2>1. TextOf(Append(<<>>, h), s) = IF h[1] = s THEN Append(TextOf(<<>>, s), h[2]) ELSE TextOf(<<>>, s)
    BY <1>1, <1>3, TextGrows
  <2>. QED
    BY <1>3, <2>1, NoText
<1>6. Append(<<>>, h[2]) = <<h[2]>>
  OBVIOUS
<1>7. TextOf(Tail(q), s) \in Seq(E)
  BY <1>1, TextTyped
<1>8. TextOf(q, s) = TextOf(one, s) \o TextOf(Tail(q), s)
  BY ZenonT(30), <1>1, <1>2, <1>3, TextOfBoth
<1>9. <<>> \o TextOf(Tail(q), s) = TextOf(Tail(q), s)
  BY <1>7, ConcatEmptySeq
<1>. QED
  BY <1>1, <1>5, <1>6, <1>8, <1>9 DEF h

-----------------------------------------------------------------------------
(* The lines of a text *)

\* Whether the next character of a text would start a line.
EndsLine(text) == text = <<>> \/ text[Len(text)] \in NewLines

\* u is t and one more character.
OneMore(t, c, u, n, m) ==
    /\ t \in Seq(Char) /\ c \in Char /\ u = Append(t, c)
    /\ n = Len(t) /\ m = n + 1

\* What one more character does to the starts and ends of lines.
LEMMA StartsAndEnds ==
  ASSUME NEW t, NEW c, NEW u, NEW n, NEW m, OneMore(t, c, u, n, m)
  PROVE  /\ Firsts(t) \in SUBSET (1 .. n) /\ Lasts(t) \in SUBSET (1 .. n)
         /\ c \in NewLines => Firsts(u) = Firsts(t) /\ Lasts(u) = Lasts(t)
         /\ c \notin NewLines /\ EndsLine(t) =>
              Firsts(u) = Firsts(t) \cup {m} /\ Lasts(u) = Lasts(t) \cup {m}
         /\ c \notin NewLines /\ ~EndsLine(t) =>
              /\ n \in Lasts(t)
              /\ Firsts(u) = Firsts(t) /\ Lasts(u) = (Lasts(t) \ {n}) \cup {m}
<1>. t \in Seq(Char) /\ c \in Char /\ u = Append(t, c) /\ n = Len(t) /\ m = n + 1
  BY DEF OneMore
<1>1. /\ n \in Nat /\ Len(u) = n + 1 /\ u[n + 1] = c /\ \A k \in 1 .. n : u[k] = t[k]
      /\ 1 .. n + 1 = 1 .. n \cup {n + 1}
  OBVIOUS
<1>2. Firsts(t) \in SUBSET (1 .. n) /\ Lasts(t) \in SUBSET (1 .. n)
  BY DEF Firsts, Lasts
<1>3. Firsts(u) \in SUBSET (1 .. n + 1) /\ Lasts(u) \in SUBSET (1 .. n + 1)
  BY <1>1 DEF Firsts, Lasts
<1>4. EndsLine(t) <=> n = 0 \/ t[n] \in NewLines
  BY DEF EndsLine
<1>5. \A k \in 1 .. n : k \in Firsts(u) <=> k \in Firsts(t)
  <2>. SUFFICES ASSUME NEW k \in 1 .. n PROVE k \in Firsts(u) <=> k \in Firsts(t)
    OBVIOUS
  <2>1. k # 1 => k - 1 \in 1 .. n
    OBVIOUS
  <2>. QED
    BY <1>1, <2>1 DEF Firsts
<1>6. \A k \in 1 .. n : k # n => (k \in Lasts(u) <=> k \in Lasts(t))
  <2>. SUFFICES ASSUME NEW k \in 1 .. n, k # n PROVE k \in Lasts(u) <=> k \in Lasts(t)
    OBVIOUS
  <2>1. k + 1 \in 1 .. n /\ k # Len(u)
    BY <1>1
  <2>. QED
    BY <1>1, <2>1 DEF Lasts
<1>7. n # 0 => (n \in Lasts(t) <=> t[n] \notin NewLines)
  BY <1>1 DEF Lasts
<1>8. n # 0 => (n \in Lasts(u) <=> t[n] \notin NewLines /\ c \in NewLines)
  BY <1>1 DEF Lasts
<1>9. (n + 1 \in Firsts(u) <=> c \notin NewLines /\ EndsLine(t)) /\ (n + 1 \in Lasts(u) <=> c \notin NewLines)
  <2>1. n + 1 \in 1 .. Len(u) /\ (n + 1) - 1 = n /\ (n # 0 => u[n] = t[n])
    BY <1>1
  <2>. QED
    BY <1>1, <1>4, <2>1 DEF Firsts, Lasts
<1>10. CASE c \in NewLines
  <2>1. Firsts(u) = Firsts(t)
    BY ZenonT(30), <1>1, <1>2, <1>3, <1>5, <1>9, <1>10
  <2>2. Lasts(u) = Lasts(t)
    <3>1. \A k \in 1 .. n : k \in Lasts(u) <=> k \in Lasts(t)
      BY <1>1, <1>6, <1>7, <1>8, <1>10
    <3>. QED
      BY ZenonT(30), <1>1, <1>2, <1>3, <1>9, <1>10, <3>1
  <2>. QED
    BY <1>2, <1>10, <2>1, <2>2
<1>11. CASE c \notin NewLines /\ EndsLine(t)
  <2>1. Firsts(u) = Firsts(t) \cup {n + 1}
    BY <1>1, <1>2, <1>3, <1>5, <1>9, <1>11
  <2>2. Lasts(u) = Lasts(t) \cup {n + 1}
    BY <1>1, <1>2, <1>3, <1>4, <1>6, <1>7, <1>8, <1>9, <1>11
  <2>. QED
    BY <1>2, <1>11, <2>1, <2>2
<1>12. CASE c \notin NewLines /\ ~EndsLine(t)
  <2>1. Firsts(u) = Firsts(t)
    BY <1>1, <1>2, <1>3, <1>5, <1>9, <1>12
  <2>2. n \in Lasts(t) /\ n \notin Lasts(u)
    BY <1>4, <1>7, <1>8, <1>12
  <2>3. Lasts(u) = (Lasts(t) \ {n}) \cup {n + 1}
    BY <1>1, <1>2, <1>3, <1>6, <1>9, <1>12, <2>2
  <2>. QED
    BY <1>2, <1>12, <2>1, <2>2, <2>3
<1>. QED
  BY <1>10, <1>11, <1>12

\* Two sets of positions of which the second has a later largest one.
LEMMA MovedRank ==
  ASSUME NEW n \in Nat, NEW S \in SUBSET (1 .. n), n \in S, NEW m, m = n + 1, NEW T, T = (S \ {n}) \cup {m}
  PROVE  /\ Cardinality(S) \in Nat \ {0} /\ Cardinality(T) = Cardinality(S)
         /\ \A k \in 1 .. Cardinality(S) - 1 : Nth(T, k) = Nth(S, k)
         /\ Nth(S, Cardinality(S)) = n /\ Nth(T, Cardinality(S)) = m
<1>. DEFINE R == S \ {n}
            o == n - 1
<1>1. o \in Nat /\ n = o + 1 /\ R \in SUBSET (1 .. o) /\ R \in SUBSET (1 .. n) /\ S = R \cup {n}
  OBVIOUS
<1>2. T = R \cup {m} /\ R \in SUBSET (1 .. n) /\ m = n + 1 /\ n \in Nat
  OBVIOUS
<1>. HIDE DEF R, o
<1>3. /\ Cardinality(R) \in Nat /\ Cardinality(S) = Cardinality(R) + 1
      /\ \A k \in 1 .. Cardinality(R) : Nth(S, k) = Nth(R, k)
      /\ Nth(S, Cardinality(R) + 1) = n
  BY <1>1, NextRank
<1>4. /\ Cardinality(T) = Cardinality(R) + 1
      /\ \A k \in 1 .. Cardinality(R) : Nth(T, k) = Nth(R, k)
      /\ Nth(T, Cardinality(R) + 1) = m
  BY <1>2, NextRank
<1>5. Cardinality(S) \in Nat \ {0} /\ Cardinality(S) - 1 = Cardinality(R)
  BY <1>3
<1>6. \A k \in 1 .. Cardinality(S) - 1 : Nth(T, k) = Nth(S, k)
  BY <1>3, <1>4, <1>5
<1>. QED
  BY <1>3, <1>4, <1>5, <1>6

\* There are as many ends as starts.
LEMMA AsManyEnds == \A t \in Seq(Char) : Cardinality(Lasts(t)) = Cardinality(Firsts(t))
<1>. DEFINE S == {t \in Seq(Char) : Cardinality(Lasts(t)) = Cardinality(Firsts(t))}
<1>1. <<>> \in S
  <2>1. Firsts(<<>>) = {} /\ Lasts(<<>>) = {}
    BY DEF Firsts, Lasts
  <2>. QED
    BY <2>1
<1>2. ASSUME NEW t \in S, NEW c \in Char PROVE Append(t, c) \in S
  <2>. DEFINE n == Len(t)
              u == Append(t, c)
              m == n + 1
              F == Firsts(t)
              L == Lasts(t)
  <2>1. /\ t \in Seq(Char) /\ Cardinality(L) = Cardinality(F) /\ u \in Seq(Char)
        /\ n \in Nat /\ n = Len(t) /\ m = n + 1 /\ u = Append(t, c)
    OBVIOUS
  <2>. HIDE DEF n, m, u
  <2>2. /\ F \in SUBSET (1 .. n) /\ L \in SUBSET (1 .. n)
        /\ c \in NewLines => Firsts(u) = F /\ Lasts(u) = L
        /\ c \notin NewLines /\ EndsLine(t) => Firsts(u) = F \cup {m} /\ Lasts(u) = L \cup {m}
        /\ c \notin NewLines /\ ~EndsLine(t) => n \in L /\ Firsts(u) = F /\ Lasts(u) = (L \ {n}) \cup {m}
    <3>1. OneMore(t, c, u, n, m)
      BY <2>1 DEF OneMore
    <3>. QED
      BY <3>1, StartsAndEnds
  <2>. HIDE DEF F, L
  <2>3. CASE c \in NewLines
    BY <2>1, <2>2, <2>3 DEF u
  <2>4. CASE c \notin NewLines /\ EndsLine(t)
    <3>1. Cardinality(F \cup {m}) = Cardinality(F) + 1 /\ Cardinality(L \cup {m}) = Cardinality(L) + 1
      BY <2>1, <2>2, NextRank
    <3>. QED
      BY <2>1, <2>2, <2>4, <3>1 DEF u
  <2>5. CASE c \notin NewLines /\ ~EndsLine(t)
    <3>1. Cardinality(Lasts(u)) = Cardinality(L)
      BY <2>1, <2>2, <2>5, MovedRank
    <3>. QED
      BY <2>1, <2>2, <2>5, <3>1 DEF u
  <2>. QED
    BY <2>3, <2>4, <2>5
<1>3. S \in SUBSET Seq(Char)
  OBVIOUS
<1>4. S = Seq(Char)
  <2>. HIDE DEF S
  <2>. QED
    BY <1>1, <1>2, <1>3, SequenceInduction
<1>. QED
  BY <1>4

\* Lines are parts of their text, from a start to the end of the same rank.
LEMMA LinesTyped ==
  ASSUME NEW t \in Seq(Char)
  PROVE  /\ Cardinality(Firsts(t)) \in Nat
         /\ LinesOf(t) \in Seq(Seq(Char)) /\ Len(LinesOf(t)) = Cardinality(Firsts(t))
         /\ \A k \in 1 .. Cardinality(Firsts(t)) :
              /\ Nth(Firsts(t), k) \in 1 .. Len(t) /\ Nth(Lasts(t), k) \in 1 .. Len(t)
              /\ LinesOf(t)[k] = SubSeq(t, Nth(Firsts(t), k), Nth(Lasts(t), k))
<1>. DEFINE n == Len(t)
            F == Firsts(t)
            L == Lasts(t)
<1>1. n \in Nat /\ F \in SUBSET (1 .. n) /\ L \in SUBSET (1 .. n)
  BY DEF Firsts, Lasts
<1>2. Cardinality(F) \in Nat /\ Cardinality(L) = Cardinality(F)
  <2>1. IsFiniteSet(1 .. n)
    BY <1>1, FS_Interval
  <2>2. IsFiniteSet(F)
    BY <1>1, <2>1, FS_Subset
  <2>. QED
    BY <2>2, FS_CardinalityType, AsManyEnds
<1>3. ASSUME NEW k \in 1 .. Cardinality(F) PROVE Nth(F, k) \in 1 .. n /\ Nth(L, k) \in 1 .. n
  <2>. HIDE DEF F, L, n
  <2>1. Nth(F, k) \in F
    BY <1>1, RanksExist
  <2>2. k \in 1 .. Cardinality(L)
    BY <1>2
  <2>3. Nth(L, k) \in L
    BY <1>1, <2>2, RanksExist
  <2>. QED
    BY <1>1, <2>1, <2>3
<1>4. \A k \in 1 .. Cardinality(F) : SubSeq(t, Nth(F, k), Nth(L, k)) \in Seq(Char)
  <2>. SUFFICES ASSUME NEW k \in 1 .. Cardinality(F) PROVE SubSeq(t, Nth(F, k), Nth(L, k)) \in Seq(Char)
    OBVIOUS
  <2>. DEFINE a == Nth(F, k)
              b == Nth(L, k)
  <2>1. a \in 1 .. n /\ b \in 1 .. n
    BY <1>3
  <2>. HIDE DEF a, b
  <2>2. SubSeq(t, a, b) \in Seq(Char)
    BY <2>1
  <2>. QED
    BY <2>2 DEF a, b
<1>5. LinesOf(t) = [k \in 1 .. Cardinality(F) |-> SubSeq(t, Nth(F, k), Nth(L, k))]
  BY DEF LinesOf
<1>. HIDE DEF F, L
<1>6. LinesOf(t) \in Seq(Seq(Char)) /\ Len(LinesOf(t)) = Cardinality(F)
  <2>. DEFINE c == Cardinality(F)
              lines == [k \in 1 .. c |-> SubSeq(t, Nth(F, k), Nth(L, k))]
  <2>1. lines \in [1 .. c -> Seq(Char)] /\ c \in Nat
    BY <1>2, <1>4
  <2>. HIDE DEF lines, c
  <2>2. lines \in Seq(Seq(Char)) /\ Len(lines) = c
    BY <2>1
  <2>. QED
    BY <1>5, <2>2 DEF lines, c
<1>. QED
  BY <1>2, <1>3, <1>5, <1>6 DEF F, L

\* Parts of a sequence and one more element.
LEMMA PartsOfMore ==
  ASSUME NEW t, NEW c, NEW u, NEW n, NEW m, OneMore(t, c, u, n, m)
  PROVE  /\ \A a, b \in 1 .. n : SubSeq(u, a, b) = SubSeq(t, a, b)
         /\ \A a \in 1 .. n : SubSeq(u, a, m) = Append(SubSeq(t, a, n), c)
         /\ SubSeq(u, m, m) = <<c>>
         /\ u \in Seq(Char) /\ n \in Nat
<1>1. /\ t \in Seq(Char) /\ c \in Char /\ u = Append(t, c) /\ n = Len(t) /\ m = n + 1
      /\ u \in Seq(Char) /\ Len(u) = m /\ n \in Nat /\ u[m] = c /\ \A k \in 1 .. n : u[k] = t[k]
  BY DEF OneMore
<1>2. \A a, b \in 1 .. n : SubSeq(u, a, b) = SubSeq(t, a, b)
  BY <1>1
<1>3. \A a \in 1 .. n : SubSeq(u, a, m) = Append(SubSeq(t, a, n), c)
  <2>. SUFFICES ASSUME NEW a \in 1 .. n PROVE SubSeq(u, a, m) = Append(SubSeq(t, a, n), c)
    OBVIOUS
  <2>1. SubSeq(u, a, m) \in Seq(Char) /\ Len(SubSeq(u, a, m)) = m - a + 1
        /\ \A k \in 1 .. m - a + 1 : SubSeq(u, a, m)[k] = u[a + k - 1]
    BY SMTT(30), <1>1
  <2>2. SubSeq(t, a, n) \in Seq(Char) /\ Len(SubSeq(t, a, n)) = n - a + 1
        /\ \A k \in 1 .. n - a + 1 : SubSeq(t, a, n)[k] = t[a + k - 1]
    BY <1>1
  <2>3. Append(SubSeq(t, a, n), c) \in Seq(Char) /\ Len(Append(SubSeq(t, a, n), c)) = m - a + 1
    BY <1>1, <2>2
  <2>4. \A k \in 1 .. m - a + 1 : SubSeq(u, a, m)[k] = Append(SubSeq(t, a, n), c)[k]
    BY <1>1, <2>1, <2>2
  <2>. QED
    BY <2>1, <2>3, <2>4, SeqEqual
<1>4. SubSeq(u, m, m) = <<c>>
  <2>1. SubSeq(u, m, m) \in Seq(Char) /\ Len(SubSeq(u, m, m)) = 1 /\ SubSeq(u, m, m)[1] = c
    BY <1>1
  <2>2. <<c>> \in Seq(Char) /\ Len(<<c>>) = 1 /\ <<c>>[1] = c
    BY <1>1
  <2>3. \A k \in 1 .. Len(<<c>>) : SubSeq(u, m, m)[k] = <<c>>[k]
    BY <2>1, <2>2
  <2>. QED
    BY <2>1, <2>2, <2>3, SeqEqual
<1>. QED
  BY <1>1, <1>2, <1>3, <1>4

\* What one more character does to the lines.
LEMMA LinesGrow ==
  ASSUME NEW t, NEW c, NEW u, NEW n, NEW m, OneMore(t, c, u, n, m)
  PROVE  /\ c \in NewLines => LinesOf(u) = LinesOf(t)
         /\ c \notin NewLines /\ EndsLine(t) => LinesOf(u) = Append(LinesOf(t), <<c>>)
         /\ c \notin NewLines /\ ~EndsLine(t) =>
              LET k == Len(LinesOf(t))
              IN /\ k # 0 /\ Len(LinesOf(u)) = k
                 /\ \A j \in 1 .. k - 1 : LinesOf(u)[j] = LinesOf(t)[j]
                 /\ LinesOf(u)[k] = Append(LinesOf(t)[k], c)
<1>. DEFINE F == Firsts(t)
            L == Lasts(t)
            k == Cardinality(F)
<1>1. /\ t \in Seq(Char) /\ c \in Char /\ n \in Nat /\ n = Len(t) /\ m = n + 1 /\ u \in Seq(Char)
      /\ \A a, b \in 1 .. n : SubSeq(u, a, b) = SubSeq(t, a, b)
      /\ \A a \in 1 .. n : SubSeq(u, a, m) = Append(SubSeq(t, a, n), c)
      /\ SubSeq(u, m, m) = <<c>>
  <2>1. t \in Seq(Char) /\ c \in Char /\ n \in Nat /\ n = Len(t) /\ m = n + 1
    BY DEF OneMore
  <2>. HIDE DEF F, L, k
  <2>2. /\ \A a, b \in 1 .. n : SubSeq(u, a, b) = SubSeq(t, a, b)
        /\ \A a \in 1 .. n : SubSeq(u, a, m) = Append(SubSeq(t, a, n), c)
        /\ SubSeq(u, m, m) = <<c>>
        /\ u \in Seq(Char) /\ n \in Nat
    BY PartsOfMore
  <2>. QED
    BY <2>1, <2>2, Zenon
<1>2. /\ F \in SUBSET (1 .. n) /\ L \in SUBSET (1 .. n)
      /\ c \in NewLines => Firsts(u) = F /\ Lasts(u) = L
      /\ c \notin NewLines /\ EndsLine(t) => Firsts(u) = F \cup {m} /\ Lasts(u) = L \cup {m}
      /\ c \notin NewLines /\ ~EndsLine(t) => n \in L /\ Firsts(u) = F /\ Lasts(u) = (L \ {n}) \cup {m}
  BY StartsAndEnds
<1>3. /\ k \in Nat /\ k = Cardinality(F) /\ LinesOf(t) \in Seq(Seq(Char)) /\ Len(LinesOf(t)) = k
      /\ \A j \in 1 .. k : /\ Nth(F, j) \in 1 .. n /\ Nth(L, j) \in 1 .. n
                           /\ LinesOf(t)[j] = SubSeq(t, Nth(F, j), Nth(L, j))
  BY <1>1, LinesTyped
<1>4. Cardinality(L) = k
  BY <1>1, AsManyEnds
<1>5. /\ LinesOf(u) \in Seq(Seq(Char)) /\ Len(LinesOf(u)) = Cardinality(Firsts(u))
      /\ \A j \in 1 .. Cardinality(Firsts(u)) : LinesOf(u)[j] = SubSeq(u, Nth(Firsts(u), j), Nth(Lasts(u), j))
  BY <1>1, LinesTyped
<1>. HIDE DEF F, L, k
<1>6. CASE c \in NewLines
  <2>1. Firsts(u) = F /\ Lasts(u) = L
    BY <1>2, <1>6
  <2>2. Len(LinesOf(u)) = k /\ \A j \in 1 .. k : LinesOf(u)[j] = LinesOf(t)[j]
    <3>1. Len(LinesOf(u)) = k /\ \A j \in 1 .. k : LinesOf(u)[j] = SubSeq(u, Nth(F, j), Nth(L, j))
      BY <1>3, <1>5, <2>1
    <3>. QED
      BY <1>1, <1>3, <3>1
  <2>3. LinesOf(u) = LinesOf(t)
    BY <1>3, <1>5, <2>2, SeqEqual
  <2>. QED
    BY <1>6, <2>3
<1>7. CASE c \notin NewLines /\ EndsLine(t)
  <2>1. Firsts(u) = F \cup {m} /\ Lasts(u) = L \cup {m}
    BY <1>2, <1>7
  <2>2. /\ Cardinality(Firsts(u)) = k + 1 /\ Nth(Firsts(u), k + 1) = m
        /\ \A j \in 1 .. k : Nth(Firsts(u), j) = Nth(F, j)
    <3>1. n \in Nat /\ m = n + 1 /\ F \in SUBSET (1 .. n) /\ Firsts(u) = F \cup {m}
      BY <1>1, <1>2, <2>1
    <3>2. /\ Cardinality(Firsts(u)) = Cardinality(F) + 1 /\ Nth(Firsts(u), Cardinality(F) + 1) = m
          /\ \A j \in 1 .. Cardinality(F) : Nth(Firsts(u), j) = Nth(F, j)
      BY <3>1, NextRank
    <3>. QED
      BY <1>3, <3>2
  <2>3. Nth(Lasts(u), k + 1) = m /\ \A j \in 1 .. k : Nth(Lasts(u), j) = Nth(L, j)
    <3>1. n \in Nat /\ m = n + 1 /\ L \in SUBSET (1 .. n) /\ Lasts(u) = L \cup {m}
      BY <1>1, <1>2, <2>1
    <3>2. /\ Nth(Lasts(u), Cardinality(L) + 1) = m
          /\ \A j \in 1 .. Cardinality(L) : Nth(Lasts(u), j) = Nth(L, j)
      BY <3>1, NextRank
    <3>. QED
      BY <1>4, <3>2
  <2>4. \A j \in 1 .. k : LinesOf(u)[j] = LinesOf(t)[j]
    <3>. SUFFICES ASSUME NEW j \in 1 .. k PROVE LinesOf(u)[j] = LinesOf(t)[j]
      OBVIOUS
    <3>1. j \in 1 .. k + 1
      BY <1>3
    <3>2. LinesOf(u)[j] = SubSeq(u, Nth(F, j), Nth(L, j))
      BY <1>5, <2>2, <2>3, <3>1
    <3>. QED
      BY <1>1, <1>3, <3>2
  <2>5. LinesOf(u)[k + 1] = <<c>>
    <3>1. k + 1 \in 1 .. k + 1
      BY <1>3
    <3>. QED
      BY <1>1, <1>5, <2>2, <2>3, <3>1
  <2>6. LinesOf(u) = Append(LinesOf(t), <<c>>)
    <3>1. <<c>> \in Seq(Char)
      BY <1>1
    <3>2. Append(LinesOf(t), <<c>>) \in Seq(Seq(Char)) /\ Len(Append(LinesOf(t), <<c>>)) = k + 1
      BY <1>3, <3>1
    <3>3. \A j \in 1 .. k + 1 : LinesOf(u)[j] = Append(LinesOf(t), <<c>>)[j]
      <4>. SUFFICES ASSUME NEW j \in 1 .. k + 1 PROVE LinesOf(u)[j] = Append(LinesOf(t), <<c>>)[j]
        OBVIOUS
      <4>1. CASE j = k + 1
        <5>1. Append(LinesOf(t), <<c>>)[Len(LinesOf(t)) + 1] = <<c>>
          BY <1>3, <3>1, AppendProperties
        <5>. QED
          BY <1>3, <2>5, <4>1, <5>1
      <4>2. CASE j # k + 1
        <5>1. j \in 1 .. k
          BY <1>3, <4>2
        <5>. QED
          BY <1>3, <2>4, <3>1, <5>1
      <4>. QED
        BY <4>1, <4>2
    <3>. QED
      BY <1>5, <2>2, <3>2, <3>3, SeqEqual
  <2>. QED
    BY <1>7, <2>6
<1>8. CASE c \notin NewLines /\ ~EndsLine(t)
  <2>1. n \in L /\ Firsts(u) = F /\ Lasts(u) = (L \ {n}) \cup {m}
    BY <1>2, <1>8
  <2>2. /\ k \in Nat \ {0} /\ \A j \in 1 .. k - 1 : Nth(Lasts(u), j) = Nth(L, j)
        /\ Nth(L, k) = n /\ Nth(Lasts(u), k) = m
    <3>1. n \in Nat /\ m = n + 1 /\ L \in SUBSET (1 .. n) /\ n \in L /\ Lasts(u) = (L \ {n}) \cup {m}
      BY <1>1, <1>2, <2>1
    <3>2. /\ Cardinality(L) \in Nat \ {0}
          /\ \A j \in 1 .. Cardinality(L) - 1 : Nth(Lasts(u), j) = Nth(L, j)
          /\ Nth(L, Cardinality(L)) = n /\ Nth(Lasts(u), Cardinality(L)) = m
      BY <3>1, MovedRank
    <3>. QED
      BY <1>4, <3>2
  <2>3. \A j \in 1 .. k - 1 : LinesOf(u)[j] = LinesOf(t)[j]
    <3>. SUFFICES ASSUME NEW j \in 1 .. k - 1 PROVE LinesOf(u)[j] = LinesOf(t)[j]
      OBVIOUS
    <3>1. j \in 1 .. k
      BY <2>2
    <3>2. LinesOf(u)[j] = SubSeq(u, Nth(F, j), Nth(L, j))
      BY <1>3, <1>5, <2>1, <2>2, <3>1
    <3>. QED
      BY <1>1, <1>3, <3>1, <3>2
  <2>4. LinesOf(u)[k] = Append(LinesOf(t)[k], c)
    <3>1. k \in 1 .. k
      BY <2>2
    <3>2. LinesOf(u)[k] = SubSeq(u, Nth(F, k), m)
      BY <1>3, <1>5, <2>1, <2>2, <3>1
    <3>3. LinesOf(t)[k] = SubSeq(t, Nth(F, k), n) /\ Nth(F, k) \in 1 .. n
      BY <1>3, <2>2, <3>1
    <3>. QED
      BY <1>1, <3>2, <3>3
  <2>5. Len(LinesOf(u)) = k
    BY <1>3, <1>5, <2>1
  <2>. QED
    BY <1>3, <1>8, <2>2, <2>3, <2>4, <2>5
<1>. QED
  BY <1>6, <1>7, <1>8

\* The complete lines of a text, and the start of one that follows them.
Kept(line) == IF line = <<>> THEN <<>> ELSE <<line>>
Cut(text, lines, line) ==
    /\ text \in Seq(Char) /\ lines \in Seq(Seq(Char)) /\ line \in Seq(Char)
    /\ LinesOf(text) = lines \o Kept(line)
    /\ line = <<>> <=> EndsLine(text)

\* The line that is being read is a list of one line or none.
LEMMA KeptTyped == \A line \in Seq(Char) : Kept(line) \in Seq(Seq(Char))
BY DEF Kept

\* Sequences of sequences.
LEMMA LinesJoin ==
  ASSUME NEW a \in Seq(Seq(Char)), NEW b \in Seq(Seq(Char)), NEW line \in Seq(Char)
  PROVE  /\ Kept(line) \in Seq(Seq(Char)) /\ b \o Kept(line) \in Seq(Seq(Char))
         /\ (a \o b) \o Kept(line) = a \o (b \o Kept(line))
<1>. DEFINE E == Seq(Char)
            k == Kept(line)
<1>1. a \in Seq(E) /\ b \in Seq(E) /\ k \in Seq(E)
  BY KeptTyped
<1>. HIDE DEF E, k
<1>2. b \o k \in Seq(E)
  BY <1>1, ConcatProperties
<1>3. (a \o b) \o k = a \o (b \o k)
  BY SMTT(30), <1>1, ConcatAssociative
<1>. QED
  BY <1>1, <1>2, <1>3 DEF E, k

\* A line without characters is no line.
LEMMA NothingKept == \A lines \in Seq(Seq(Char)) : Kept(<<>>) = <<>> /\ lines \o Kept(<<>>) = lines
BY ConcatEmptySeq DEF Kept

\* How a text is cut, one character further: a newline completes the line.
LEMMA CutGrows ==
  ASSUME NEW t, NEW lines, NEW line, NEW c \in Char, Cut(t, lines, line)
  PROVE  /\ c \in NewLines => Cut(Append(t, c), lines \o Kept(line), <<>>)
         /\ c \notin NewLines => Cut(Append(t, c), lines, Append(line, c))
<1>. DEFINE u == Append(t, c)
            n == Len(t)
            m == n + 1
            k == Len(lines)
<1>1. /\ t \in Seq(Char) /\ lines \in Seq(Seq(Char)) /\ line \in Seq(Char)
      /\ LinesOf(t) = lines \o Kept(line) /\ (line = <<>> <=> EndsLine(t))
  BY DEF Cut
<1>2. OneMore(t, c, u, n, m) /\ u \in Seq(Char) /\ k \in Nat
  BY <1>1 DEF OneMore
<1>3. EndsLine(u) <=> c \in NewLines
  BY <1>1, AppendProperties DEF EndsLine
<1>4. /\ Kept(line) \in Seq(Seq(Char)) /\ lines \o Kept(line) \in Seq(Seq(Char))
      /\ lines \o <<>> = lines /\ Append(line, c) \in Seq(Char) /\ Append(line, c) # <<>> /\ <<>> \in Seq(Char)
  <2>1. Kept(line) \in Seq(Seq(Char)) /\ lines \o Kept(line) \in Seq(Seq(Char))
    BY <1>1, LinesJoin
  <2>2. lines \o <<>> = lines
    BY <1>1, ConcatEmptySeq
  <2>3. Append(line, c) \in Seq(Char) /\ Append(line, c) # <<>> /\ <<>> \in Seq(Char)
    BY <1>1, AppendProperties
  <2>. QED
    BY <2>1, <2>2, <2>3
<1>. HIDE DEF u, n, m
<1>5. /\ c \in NewLines => LinesOf(u) = LinesOf(t)
      /\ c \notin NewLines /\ EndsLine(t) => LinesOf(u) = Append(LinesOf(t), <<c>>)
      /\ c \notin NewLines /\ ~EndsLine(t) =>
           LET h == Len(LinesOf(t))
           IN /\ h # 0 /\ Len(LinesOf(u)) = h
              /\ \A j \in 1 .. h - 1 : LinesOf(u)[j] = LinesOf(t)[j]
              /\ LinesOf(u)[h] = Append(LinesOf(t)[h], c)
  BY <1>2, LinesGrow
<1>6. CASE c \in NewLines
  <2>1. LinesOf(u) = (lines \o Kept(line)) \o Kept(<<>>)
    BY <1>1, <1>4, <1>5, <1>6, NothingKept
  <2>2. Cut(u, lines \o Kept(line), <<>>)
    BY <1>2, <1>3, <1>4, <1>6, <2>1 DEF Cut
  <2>. QED
    BY <1>6, <2>2 DEF u
<1>7. CASE c \notin NewLines
  <2>1. LinesOf(u) = lines \o Kept(Append(line, c))
    <3>1. Kept(Append(line, c)) = <<Append(line, c)>>
      BY <1>4 DEF Kept
    <3>2. CASE EndsLine(t)
      <4>1. line = <<>> /\ LinesOf(t) = lines
        BY <1>1, <3>2, NothingKept
      <4>2. Append(line, c) = <<c>>
        BY <4>1
      <4>3. LinesOf(u) = Append(lines, <<c>>) /\ <<c>> \in Seq(Char)
        BY <1>5, <1>7, <3>2, <4>1
      <4>. QED
        BY <1>1, <3>1, <4>2, <4>3, AppendIsConcat
    <3>3. CASE ~EndsLine(t)
      <4>1. Kept(line) = <<line>>
        BY <1>1, <3>3 DEF Kept
      <4>2. LinesOf(t) = Append(lines, line)
        BY <1>1, <4>1, AppendIsConcat
      <4>3. /\ Len(LinesOf(t)) = k + 1 /\ LinesOf(t)[k + 1] = line
            /\ \A j \in 1 .. k : LinesOf(t)[j] = lines[j]
        BY <1>1, <4>2, AppendProperties
      <4>4. /\ Len(LinesOf(u)) = k + 1 /\ LinesOf(u)[k + 1] = Append(line, c)
            /\ \A j \in 1 .. k : LinesOf(u)[j] = lines[j]
        BY <1>2, <1>5, <1>7, <3>3, <4>3
      <4>5. LinesOf(u) \in Seq(Seq(Char))
        BY <1>2, LinesTyped
      <4>6. LET new == Append(lines, Append(line, c))
            IN /\ new \in Seq(Seq(Char)) /\ Len(new) = k + 1 /\ new[k + 1] = Append(line, c)
               /\ \A j \in 1 .. k : new[j] = lines[j]
        BY <1>1, <1>4, AppendProperties
      <4>7. ASSUME NEW j \in 1 .. k + 1 PROVE LinesOf(u)[j] = Append(lines, Append(line, c))[j]
        <5>1. j \in 1 .. k \/ j = k + 1
          BY <1>2
        <5>. QED
          BY <4>4, <4>6, <5>1
      <4>8. LinesOf(u) = Append(lines, Append(line, c))
        BY <4>4, <4>5, <4>6, <4>7, SeqEqual
      <4>. QED
        BY <1>1, <1>4, <3>1, <4>8, AppendIsConcat
    <3>. QED
      BY <3>2, <3>3
  <2>2. Cut(u, lines, Append(line, c))
    BY <1>1, <1>2, <1>3, <1>4, <1>7, <2>1 DEF Cut
  <2>. QED
    BY <1>7, <2>2 DEF u
<1>. QED
  BY <1>6, <1>7

\* A part of a line, and newlines.
Plain(x)    == \A k \in 1 .. Len(x) : x[k] \notin NewLines
OnlyNew(x)  == \A k \in 1 .. Len(x) : x[k] \in NewLines

\* Text without newlines, and newlines only, one character further.
LEMMA PlainGrows ==
  ASSUME NEW q \in Seq(Char), NEW c \in Char
  PROVE  /\ Plain(Append(q, c)) <=> Plain(q) /\ c \notin NewLines
         /\ OnlyNew(Append(q, c)) <=> OnlyNew(q) /\ c \in NewLines
<1>1. /\ Len(Append(q, c)) = Len(q) + 1 /\ Append(q, c)[Len(q) + 1] = c /\ Len(q) \in Nat
      /\ \A k \in 1 .. Len(q) : Append(q, c)[k] = q[k]
  BY AppendProperties
<1>2. \A k : k \in 1 .. Len(q) + 1 <=> k \in 1 .. Len(q) \/ k = Len(q) + 1
  BY <1>1
<1>. HIDE DEF Plain
<1>3. Plain(Append(q, c)) <=> Plain(q) /\ c \notin NewLines
  BY <1>1, <1>2 DEF Plain
<1>4. OnlyNew(Append(q, c)) <=> OnlyNew(q) /\ c \in NewLines
  BY <1>1, <1>2 DEF OnlyNew
<1>. QED
  BY <1>3, <1>4

\* Text without newlines continues the line.
LEMMA CutPlain ==
  ASSUME NEW t, NEW lines, NEW line, Cut(t, lines, line), NEW x \in Seq(Char), Plain(x)
  PROVE  Cut(t \o x, lines, line \o x)
<1>. DEFINE S == {q \in Seq(Char) : Plain(q) => Cut(t \o q, lines, line \o q)}
<1>1. t \in Seq(Char) /\ line \in Seq(Char)
  BY DEF Cut
<1>2. <<>> \in S
  BY <1>1, ConcatEmptySeq
<1>3. ASSUME NEW q \in S, NEW c \in Char PROVE Append(q, c) \in S
  <2>1. q \in Seq(Char) /\ (Plain(q) => Cut(t \o q, lines, line \o q))
    OBVIOUS
  <2>2. t \o Append(q, c) = Append(t \o q, c) /\ line \o Append(q, c) = Append(line \o q, c)
    BY SMTT(30), <1>1, <2>1, AppendToBoth
  <2>3. Append(q, c) \in Seq(Char) /\ (Plain(Append(q, c)) => Plain(q) /\ c \notin NewLines)
    BY <2>1, PlainGrows
  <2>4. ASSUME Plain(Append(q, c)) PROVE Cut(t \o Append(q, c), lines, line \o Append(q, c))
    BY <2>1, <2>2, <2>3, <2>4, CutGrows
  <2>. QED
    BY <2>3, <2>4
<1>4. S = Seq(Char)
  <2>1. S \in SUBSET Seq(Char)
    OBVIOUS
  <2>. HIDE DEF S
  <2>. QED
    BY <1>2, <1>3, <2>1, SequenceInduction
<1>. QED
  BY <1>4

\* Newlines complete the line, however many.
LEMMA CutNew ==
  ASSUME NEW t, NEW lines, NEW line, Cut(t, lines, line), NEW x \in Seq(Char), OnlyNew(x), x # <<>>
  PROVE  Cut(t \o x, lines \o Kept(line), <<>>)
<1>. DEFINE more == lines \o Kept(line)
            S == {q \in Seq(Char) : OnlyNew(q) /\ q # <<>> => Cut(t \o q, more, <<>>)}
<1>1. t \in Seq(Char) /\ more \in Seq(Seq(Char))
  BY KeptTyped, ConcatProperties DEF Cut
<1>2. <<>> \in S
  OBVIOUS
<1>3. ASSUME NEW q \in S, NEW c \in Char PROVE Append(q, c) \in S
  <2>1. q \in Seq(Char) /\ (OnlyNew(q) /\ q # <<>> => Cut(t \o q, more, <<>>))
    OBVIOUS
  <2>2. t \o Append(q, c) = Append(t \o q, c)
    BY <1>1, <2>1, AppendToBoth
  <2>3. Append(q, c) \in Seq(Char) /\ (OnlyNew(Append(q, c)) => OnlyNew(q) /\ c \in NewLines)
    BY <2>1, PlainGrows
  <2>4. ASSUME OnlyNew(Append(q, c)) PROVE Cut(Append(t \o q, c), more, <<>>)
    <3>1. CASE q = <<>>
      <4>1. t \o q = t
        BY <1>1, <3>1, ConcatEmptySeq
      <4>. QED
        BY <2>3, <2>4, <4>1, CutGrows
    <3>2. CASE q # <<>>
      <4>1. Cut(Append(t \o q, c), more \o Kept(<<>>), <<>>)
        BY <2>1, <2>3, <2>4, <3>2, CutGrows
      <4>2. more \o Kept(<<>>) = more
        BY <1>1, NothingKept
      <4>. QED
        BY <4>1, <4>2
    <3>. QED
      BY <3>1, <3>2
  <2>. QED
    BY <2>2, <2>3, <2>4
<1>4. S = Seq(Char)
  <2>1. S \in SUBSET Seq(Char)
    OBVIOUS
  <2>. HIDE DEF S
  <2>. QED
    BY <1>2, <1>3, <2>1, SequenceInduction
<1>. QED
  BY <1>4

\* Whatever follows a text, its complete lines remain the first ones.
LEMMA LinesStay ==
  ASSUME NEW t, NEW lines, NEW line, Cut(t, lines, line), NEW x \in Seq(Char)
  PROVE  \E more \in Seq(Seq(Char)) : LinesOf(t \o x) = lines \o more
<1>. DEFINE S == {q \in Seq(Char) : \E more \in Seq(Seq(Char)), rest \in Seq(Char) : Cut(t \o q, lines \o more, rest)}
<1>1. t \in Seq(Char) /\ lines \in Seq(Seq(Char)) /\ line \in Seq(Char)
  BY DEF Cut
<1>2. <<>> \in S
  <2>1. t \o <<>> = t /\ lines \o <<>> = lines /\ <<>> \in Seq(Char) /\ <<>> \in Seq(Seq(Char))
    BY <1>1, ConcatEmptySeq
  <2>. QED
    BY <1>1, <2>1
<1>3. ASSUME NEW q \in S, NEW c \in Char PROVE Append(q, c) \in S
  <2>1. q \in Seq(Char)
    OBVIOUS
  <2>2. PICK more \in Seq(Seq(Char)), rest \in Seq(Char) : Cut(t \o q, lines \o more, rest)
    OBVIOUS
  <2>3. t \o Append(q, c) = Append(t \o q, c) /\ Append(q, c) \in Seq(Char)
    BY SMTT(30), <1>1, <2>1, AppendToBoth
  <2>4. CASE c \in NewLines
    <3>1. Cut(Append(t \o q, c), (lines \o more) \o Kept(rest), <<>>)
      BY <2>2, <2>4, CutGrows
    <3>2. (lines \o more) \o Kept(rest) = lines \o (more \o Kept(rest)) /\ more \o Kept(rest) \in Seq(Seq(Char))
      BY ZenonT(30), <1>1, LinesJoin
    <3>3. Cut(t \o Append(q, c), lines \o (more \o Kept(rest)), <<>>) /\ <<>> \in Seq(Char)
      BY <2>3, <3>1, <3>2
    <3>. QED
      BY <2>3, <3>2, <3>3
  <2>5. CASE c \notin NewLines
    <3>1. Cut(t \o Append(q, c), lines \o more, Append(rest, c)) /\ Append(rest, c) \in Seq(Char)
      BY <2>2, <2>3, <2>5, CutGrows
    <3>. QED
      BY <2>3, <3>1
  <2>. QED
    BY <2>4, <2>5
<1>4. S = Seq(Char)
  <2>1. S \in SUBSET Seq(Char)
    OBVIOUS
  <2>. HIDE DEF S
  <2>. QED
    BY <1>2, <1>3, <2>1, SequenceInduction
<1>5. PICK more \in Seq(Seq(Char)), rest \in Seq(Char) : Cut(t \o x, lines \o more, rest)
  BY <1>4
<1>6. LinesOf(t \o x) = (lines \o more) \o Kept(rest)
  BY <1>5 DEF Cut
<1>7. (lines \o more) \o Kept(rest) = lines \o (more \o Kept(rest)) /\ more \o Kept(rest) \in Seq(Seq(Char))
  BY <1>1, LinesJoin
<1>. QED
  BY <1>6, <1>7

-----------------------------------------------------------------------------
(* The parts of a chunk *)

\* A sequence consists of its first n elements and the rest.
LEMMA SplitAt ==
  ASSUME NEW E, NEW q \in Seq(E), NEW n \in 0 .. Len(q)
  PROVE  /\ FirstN(q, n) \in Seq(E) /\ Drop(q, n) \in Seq(E) /\ FirstN(q, n) \o Drop(q, n) = q
         /\ Len(FirstN(q, n)) = n /\ Len(Drop(q, n)) = Len(q) - n
         /\ \A k \in 1 .. n : FirstN(q, n)[k] = q[k]
         /\ \A k \in 1 .. Len(q) - n : Drop(q, n)[k] = q[n + k]
<1>. DEFINE a == FirstN(q, n)
            b == Drop(q, n)
            l == Len(q)
<1>0. l \in Nat /\ n \in Nat /\ n <= l
  OBVIOUS
<1>1. a \in Seq(E) /\ Len(a) = n /\ \A k \in 1 .. n : a[k] = q[k]
  BY <1>0 DEF FirstN
<1>2. b \in Seq(E) /\ Len(b) = l - n /\ \A k \in 1 .. l - n : b[k] = q[n + k]
  BY <1>0 DEF Drop
<1>. HIDE DEF a, b
<1>3. /\ a \o b \in Seq(E) /\ Len(a \o b) = l
      /\ \A k \in 1 .. l : (a \o b)[k] = IF k <= n THEN a[k] ELSE b[k - n]
  BY <1>0, <1>1, <1>2, ConcatProperties
<1>4. ASSUME NEW k \in 1 .. l PROVE (a \o b)[k] = q[k]
  <2>1. CASE k <= n
    <3>1. k \in 1 .. n
      BY <1>0, <2>1
    <3>. QED
      BY <1>1, <1>3, <2>1, <3>1
  <2>2. CASE ~(k <= n)
    <3>1. k - n \in 1 .. l - n /\ n + (k - n) = k
      BY <1>0, <2>2
    <3>. QED
      BY <1>2, <1>3, <2>2, <3>1
  <2>. QED
    BY <2>1, <2>2
<1>5. a \o b = q
  BY <1>3, <1>4, SeqEqual
<1>. QED
  BY <1>1, <1>2, <1>5 DEF a, b

\* The first newline is at n, or there is none and n is past the end.
EndAt(q, n) ==
    /\ n \in 1 .. Len(q) + 1
    /\ n <= Len(q) => q[n] \in NewLines
    /\ \A k \in 1 .. n - 1 : q[k] \notin NewLines

\* LineEnd is the position of the first newline, or behind the chunk.
LEMMA LineEndIs == \A q \in Seq(Char) : EndAt(q, LineEnd(q))
<1>. DEFINE S == {q \in Seq(Char) : \E n : EndAt(q, n)}
<1>1. <<>> \in S
  <2>1. EndAt(<<>>, 1)
    BY DEF EndAt
  <2>. QED
    BY <2>1
<1>2. ASSUME NEW q \in S, NEW c \in Char PROVE Append(q, c) \in S
  <2>. DEFINE u == Append(q, c)
  <2>1. PICK n : EndAt(q, n)
    OBVIOUS
  <2>2. /\ q \in Seq(Char) /\ n \in 1 .. Len(q) + 1 /\ (n <= Len(q) => q[n] \in NewLines)
        /\ \A k \in 1 .. n - 1 : q[k] \notin NewLines
    BY <2>1 DEF EndAt
  <2>3. /\ u \in Seq(Char) /\ Len(u) = Len(q) + 1 /\ u[Len(q) + 1] = c /\ Len(q) \in Nat
        /\ \A k \in 1 .. Len(q) : u[k] = q[k]
    BY <2>2, AppendProperties
  <2>. HIDE DEF u
  <2>4. CASE n <= Len(q)
    <3>1. EndAt(u, n)
      BY <2>2, <2>3, <2>4 DEF EndAt
    <3>. QED
      BY <2>3, <3>1 DEF u
  <2>5. CASE n = Len(q) + 1 /\ c \in NewLines
    <3>1. EndAt(u, n)
      BY <2>2, <2>3, <2>5 DEF EndAt
    <3>. QED
      BY <2>3, <3>1 DEF u
  <2>6. CASE n = Len(q) + 1 /\ c \notin NewLines
    <3>1. \A k \in 1 .. Len(q) + 1 : u[k] \notin NewLines
      <4>. SUFFICES ASSUME NEW k \in 1 .. Len(q) + 1 PROVE u[k] \notin NewLines
        OBVIOUS
      <4>1. k \in 1 .. Len(q) \/ k = Len(q) + 1
        BY <2>3
      <4>2. k \in 1 .. Len(q) => k \in 1 .. n - 1
        BY <2>6, <2>3
      <4>. QED
        BY <2>2, <2>3, <2>6, <4>1, <4>2
    <3>2. EndAt(u, Len(q) + 2)
      BY <2>3, <3>1 DEF EndAt
    <3>. QED
      BY <2>3, <3>2 DEF u
  <2>. QED
    BY <2>2, <2>4, <2>5, <2>6, <2>3
<1>3. S = Seq(Char)
  <2>1. S \in SUBSET Seq(Char)
    OBVIOUS
  <2>. HIDE DEF S
  <2>. QED
    BY <1>1, <1>2, <2>1, SequenceInduction
<1>4. ASSUME NEW q \in Seq(Char) PROVE EndAt(q, LineEnd(q))
  <2>1. \E n : EndAt(q, n)
    BY <1>3
  <2>. QED
    BY <2>1 DEF EndAt, LineEnd
<1>. QED
  BY <1>4

\* q starts with n newlines, and no more.
NewUpTo(q, n) ==
    /\ n \in 0 .. Len(q)
    /\ \A k \in 1 .. n : q[k] \in NewLines
    /\ n < Len(q) => q[n + 1] \notin NewLines

\* SkipNewLines drops the newlines at the front and nothing else.
LEMMA SkippedIs == \A q \in Seq(Char) : \E n : NewUpTo(q, n) /\ SkipNewLines(q) = Drop(q, n)
<1>. DEFINE S == {q \in Seq(Char) : \E n : NewUpTo(q, n)}
<1>1. <<>> \in S
  <2>1. NewUpTo(<<>>, 0)
    BY DEF NewUpTo
  <2>. QED
    BY <2>1
<1>2. ASSUME NEW q \in S, NEW c \in Char PROVE Append(q, c) \in S
  <2>. DEFINE u == Append(q, c)
  <2>1. PICK n : NewUpTo(q, n)
    OBVIOUS
  <2>2. /\ q \in Seq(Char) /\ n \in 0 .. Len(q) /\ (n < Len(q) => q[n + 1] \notin NewLines)
        /\ \A k \in 1 .. n : q[k] \in NewLines
    BY <2>1 DEF NewUpTo
  <2>3. /\ u \in Seq(Char) /\ Len(u) = Len(q) + 1 /\ u[Len(q) + 1] = c /\ Len(q) \in Nat
        /\ \A k \in 1 .. Len(q) : u[k] = q[k]
    BY <2>2, AppendProperties
  <2>. HIDE DEF u
  <2>4. CASE n < Len(q)
    <3>1. NewUpTo(u, n)
      BY <2>2, <2>3, <2>4 DEF NewUpTo
    <3>. QED
      BY <2>3, <3>1 DEF u
  <2>5. CASE n = Len(q) /\ c \notin NewLines
    <3>1. NewUpTo(u, n)
      BY <2>2, <2>3, <2>5 DEF NewUpTo
    <3>. QED
      BY <2>3, <3>1 DEF u
  <2>6. CASE n = Len(q) /\ c \in NewLines
    <3>1. \A k \in 1 .. Len(q) + 1 : u[k] \in NewLines
      <4>. SUFFICES ASSUME NEW k \in 1 .. Len(q) + 1 PROVE u[k] \in NewLines
        OBVIOUS
      <4>1. k \in 1 .. Len(q) \/ k = Len(q) + 1
        BY <2>3
      <4>. QED
        BY <2>2, <2>3, <2>6, <4>1
    <3>2. NewUpTo(u, Len(q) + 1)
      BY <2>3, <3>1 DEF NewUpTo
    <3>. QED
      BY <2>3, <3>2 DEF u
  <2>. QED
    BY <2>2, <2>4, <2>5, <2>6, <2>3
<1>3. S = Seq(Char)
  <2>1. S \in SUBSET Seq(Char)
    OBVIOUS
  <2>. HIDE DEF S
  <2>. QED
    BY <1>1, <1>2, <2>1, SequenceInduction
<1>4. ASSUME NEW q \in Seq(Char) PROVE \E n : NewUpTo(q, n) /\ SkipNewLines(q) = Drop(q, n)
  <2>. DEFINE n == CHOOSE n \in 0 .. Len(q) : /\ \A k \in 1 .. n : q[k] \in NewLines
                                              /\ n < Len(q) => q[n + 1] \notin NewLines
  <2>1. \E i : NewUpTo(q, i)
    BY <1>3
  <2>2. NewUpTo(q, n)
    BY <2>1 DEF NewUpTo
  <2>3. SkipNewLines(q) = Drop(q, n)
    BY DEF SkipNewLines
  <2>. QED
    BY <2>2, <2>3
<1>. QED
  BY <1>4

\* A chunk with a newline: the end of a line, newlines, and what is split next.
LEMMA ChunkParts ==
  ASSUME NEW q \in Seq(Char), LineEnd(q) <= Len(q)
  PROVE  LET x == FirstN(q, LineEnd(q) - 1)
             r == Drop(q, LineEnd(q) - 1)
             z == SkipNewLines(r)
         IN /\ x \in Seq(Char) /\ Plain(x) /\ z \in Seq(Char) /\ Len(z) <= Len(q)
            /\ \E y \in Seq(Char) : y # <<>> /\ OnlyNew(y) /\ q = x \o (y \o z)
<1>. DEFINE e == LineEnd(q)
            m == e - 1
            x == FirstN(q, m)
            r == Drop(q, m)
            z == SkipNewLines(r)
<1>1. /\ e \in 1 .. Len(q) + 1 /\ e <= Len(q) /\ q[e] \in NewLines
      /\ \A k \in 1 .. m : q[k] \notin NewLines
  BY LineEndIs DEF EndAt
<1>. HIDE DEF e
<1>2. m \in 0 .. Len(q) /\ m + 1 = e /\ Len(q) \in Nat /\ m < Len(q)
  BY <1>1
<1>. HIDE DEF m
<1>3. /\ x \in Seq(Char) /\ r \in Seq(Char) /\ x \o r = q /\ Len(x) = m /\ Len(r) = Len(q) - m
      /\ \A k \in 1 .. m : x[k] = q[k]
      /\ \A k \in 1 .. Len(q) - m : r[k] = q[m + k]
  BY <1>2, SplitAt
<1>. HIDE DEF x, r
<1>4. Plain(x)
  BY <1>1, <1>3 DEF Plain
<1>5. Len(r) \in Nat \ {0} /\ r[1] \in NewLines
  <2>1. 1 \in 1 .. Len(q) - m
    BY <1>2
  <2>. QED
    BY <1>1, <1>2, <1>3, <2>1
<1>6. PICK n : NewUpTo(r, n) /\ z = Drop(r, n)
  BY <1>3, SkippedIs
<1>. HIDE DEF z
<1>7. n \in 0 .. Len(r) /\ n # 0 /\ \A k \in 1 .. n : r[k] \in NewLines
  BY <1>5, <1>6 DEF NewUpTo
<1>. DEFINE y == FirstN(r, n)
<1>8. /\ y \in Seq(Char) /\ z \in Seq(Char) /\ y \o z = r /\ Len(y) = n /\ Len(z) = Len(r) - n
      /\ \A k \in 1 .. n : y[k] = r[k]
  BY <1>3, <1>6, <1>7, SplitAt
<1>. HIDE DEF y
<1>9. y # <<>> /\ OnlyNew(y)
  BY <1>7, <1>8 DEF OnlyNew
<1>10. Len(z) <= Len(q)
  BY <1>2, <1>3, <1>5, <1>7, <1>8
<1>11. q = x \o (y \o z)
  BY <1>3, <1>8
<1>. QED
  BY <1>3, <1>4, <1>8, <1>9, <1>10, <1>11 DEF x, r, z, m, e

-----------------------------------------------------------------------------
(* What is shown of a chunk *)

\* F is what joining the first pieces, up to k of them, gives.
Joins(E, q, F, k) ==
    /\ F \in [1 .. k -> Seq(E)] /\ F[1] = q[1]
    /\ \A i \in 1 .. k - 1 : F[i + 1] = F[i] \o q[i + 1]

\* One more piece can be joined.
LEMMA OneJoined ==
  ASSUME NEW E, NEW q, NEW k \in Nat \ {0}, NEW F, Joins(E, q, F, k), NEW m, m = k + 1, q[m] \in Seq(E)
  PROVE  \E G : Joins(E, q, G, m)
<1>. DEFINE last == F[k] \o q[m]
            G == [i \in 1 .. m |-> IF i = m THEN last ELSE F[i]]
<1>0. k \in Nat /\ m \in Nat /\ m # 0 /\ m = k + 1 /\ m - 1 = k
  OBVIOUS
<1>1. /\ F \in [1 .. k -> Seq(E)] /\ F[1] = q[1]
      /\ \A i \in 1 .. k - 1 : F[i + 1] = F[i] \o q[i + 1]
  BY DEF Joins
<1>2. F[k] \in Seq(E)
  BY <1>1
<1>3. last \in Seq(E)
  BY <1>2, ConcatProperties
<1>. HIDE DEF last
<1>4. \A i \in 1 .. k : G[i] = F[i] /\ F[i] \in Seq(E)
  <2>. SUFFICES ASSUME NEW i \in 1 .. k PROVE G[i] = F[i] /\ F[i] \in Seq(E)
    OBVIOUS
  <2>1. i \in 1 .. m /\ i # m
    BY <1>0
  <2>2. G[i] = F[i]
    BY <2>1
  <2>. QED
    BY <1>1, <2>2
<1>5. G[m] = last
  <2>1. m \in 1 .. m
    BY <1>0
  <2>. QED
    BY <2>1
<1>6. G \in [1 .. m -> Seq(E)]
  <2>1. \A i \in 1 .. m : G[i] \in Seq(E)
    <3>. SUFFICES ASSUME NEW i \in 1 .. m PROVE G[i] \in Seq(E)
      OBVIOUS
    <3>1. i \in 1 .. k \/ i = m
      OBVIOUS
    <3>. HIDE DEF G
    <3>. QED
      BY <1>3, <1>4, <1>5, <3>1
  <2>2. G = [i \in 1 .. m |-> G[i]]
    OBVIOUS
  <2>. HIDE DEF G
  <2>. QED
    BY <2>1, <2>2
<1>. HIDE DEF G
<1>7. G[1] = q[1]
  BY <1>1, <1>4
<1>8. \A i \in 1 .. m - 1 : G[i + 1] = G[i] \o q[i + 1]
  <2>. SUFFICES ASSUME NEW i \in 1 .. k PROVE G[i + 1] = G[i] \o q[i + 1]
    BY <1>0
  <2>1. CASE i = k
    <3>1. i + 1 = m /\ G[i] = F[k]
      BY <1>0, <1>4, <2>1
    <3>. QED
      BY <1>5, <3>1 DEF last
  <2>2. CASE i # k
    <3>1. i \in 1 .. k - 1 /\ i + 1 \in 1 .. k
      BY <2>2
    <3>. QED
      BY <1>1, <1>4, <3>1
  <2>. QED
    BY <2>1, <2>2
<1>. QED
  BY <1>6, <1>7, <1>8 DEF Joins

\* All pieces can be joined.
LEMMA AllJoined ==
  ASSUME NEW E, NEW q \in Seq(Seq(E)), q # <<>>
  PROVE  \E F : Joins(E, q, F, Len(q))
<1>. DEFINE n == Len(q)
            N == {k \in Nat : k + 1 <= n => \E F : Joins(E, q, F, k + 1)}
<1>1. n \in Nat \ {0} /\ \A k \in 1 .. n : q[k] \in Seq(E)
  OBVIOUS
<1>2. 0 \in N
  <2>. DEFINE F == [i \in 1 .. 1 |-> q[1]]
  <2>1. F \in [1 .. 1 -> Seq(E)] /\ F[1] = q[1]
    BY <1>1
  <2>2. Joins(E, q, F, 0 + 1)
    BY <2>1 DEF Joins
  <2>. HIDE DEF F
  <2>. QED
    BY <2>2
<1>3. ASSUME NEW k \in N PROVE k + 1 \in N
  <2>. SUFFICES ASSUME (k + 1) + 1 <= n PROVE \E F : Joins(E, q, F, (k + 1) + 1)
    OBVIOUS
  <2>1. k \in Nat /\ k + 1 <= n /\ k + 1 \in Nat \ {0} /\ (k + 1) + 1 \in 1 .. n
    BY <1>1
  <2>2. PICK F : Joins(E, q, F, k + 1)
    BY <2>1
  <2>3. q[(k + 1) + 1] \in Seq(E)
    BY <1>1, <2>1
  <2>. QED
    BY <2>1, <2>2, <2>3, OneJoined
<1>4. N = Nat
  <2>1. N \in SUBSET Nat
    OBVIOUS
  <2>. HIDE DEF N
  <2>. QED
    BY <1>2, <1>3, <2>1, Induction
<1>. HIDE DEF n
<1>5. n - 1 \in Nat /\ (n - 1) + 1 = n /\ n <= n
  BY <1>1
<1>6. \E F : Joins(E, q, F, (n - 1) + 1)
  BY <1>4, <1>5
<1>. QED
  BY <1>5, <1>6 DEF n

\* FlattenSeq joins the pieces one after the other.
LEMMA Flattened ==
  ASSUME NEW E, NEW q \in Seq(Seq(E)), NEW n, n = Len(q), n # 0
  PROVE  \E F : Joins(E, q, F, n) /\ FlattenSeq(q) = F[n]
<1>. DEFINE flatten == CHOOSE f : f = [i \in 1 .. Len(q) |-> IF i = 1 THEN q[i] ELSE f[i - 1] \o q[i]]
<1>1. n \in Nat \ {0} /\ q # <<>> /\ \A k \in 1 .. n : q[k] \in Seq(E)
  OBVIOUS
<1>2. PICK F : Joins(E, q, F, n)
  BY <1>1, AllJoined
<1>3. /\ F \in [1 .. n -> Seq(E)] /\ F[1] = q[1]
      /\ \A i \in 1 .. n - 1 : F[i + 1] = F[i] \o q[i + 1]
  BY <1>2 DEF Joins
<1>4. F = [i \in 1 .. Len(q) |-> IF i = 1 THEN q[i] ELSE F[i - 1] \o q[i]]
  <2>1. ASSUME NEW i \in 1 .. n PROVE F[i] = IF i = 1 THEN q[i] ELSE F[i - 1] \o q[i]
    <3>1. CASE i = 1
      BY <1>3, <3>1
    <3>2. CASE i # 1
      <4>1. i - 1 \in 1 .. n - 1 /\ (i - 1) + 1 = i
        BY <1>1, <3>2
      <4>. QED
        BY <1>3, <3>2, <4>1
    <3>. QED
      BY <3>1, <3>2
  <2>2. F = [i \in 1 .. n |-> F[i]]
    BY <1>3
  <2>. QED
    BY <2>1, <2>2
<1>5. flatten = [i \in 1 .. Len(q) |-> IF i = 1 THEN q[i] ELSE flatten[i - 1] \o q[i]]
  BY <1>4
<1>6. FlattenSeq(q) = flatten[n]
  BY <1>1 DEF FlattenSeq
<1>. HIDE DEF flatten
<1>7. flatten[1] = q[1] /\ \A i \in 1 .. n - 1 : flatten[i + 1] = flatten[i] \o q[i + 1]
  <2>1. flatten[1] = q[1]
    BY <1>1, <1>5
  <2>2. ASSUME NEW i \in 1 .. n - 1 PROVE flatten[i + 1] = flatten[i] \o q[i + 1]
    <3>1. i + 1 \in 1 .. Len(q) /\ i + 1 # 1 /\ (i + 1) - 1 = i
      BY <1>1
    <3>. QED
      BY <1>5, <3>1
  <2>. QED
    BY <2>1, <2>2
<1>8. flatten \in [1 .. n -> Seq(E)]
  <2>. DEFINE M == {k \in Nat : k + 1 <= n => flatten[k + 1] \in Seq(E)}
  <2>1. 0 \in M
    BY <1>1, <1>7
  <2>2. ASSUME NEW k \in M PROVE k + 1 \in M
    <3>. SUFFICES ASSUME (k + 1) + 1 <= n PROVE flatten[(k + 1) + 1] \in Seq(E)
      OBVIOUS
    <3>1. k \in Nat /\ k + 1 \in 1 .. n - 1 /\ flatten[k + 1] \in Seq(E) /\ q[(k + 1) + 1] \in Seq(E)
      BY <1>1
    <3>2. flatten[(k + 1) + 1] = flatten[k + 1] \o q[(k + 1) + 1]
      BY <1>7, <3>1
    <3>. QED
      BY <3>1, <3>2, ConcatProperties
  <2>3. M = Nat
    <3>1. M \in SUBSET Nat
      OBVIOUS
    <3>. HIDE DEF M
    <3>. QED
      BY <2>1, <2>2, <3>1, Induction
  <2>4. ASSUME NEW k \in 1 .. n PROVE flatten[k] \in Seq(E)
    <3>1. k - 1 \in Nat /\ (k - 1) + 1 = k /\ k <= n
      BY <1>1
    <3>2. k - 1 \in M
      BY <2>3, <3>1
    <3>. QED
      BY <3>1, <3>2
  <2>5. flatten = [i \in 1 .. n |-> flatten[i]]
    BY <1>5
  <2>. QED
    BY <2>4, <2>5
<1>. QED
  BY <1>6, <1>7, <1>8 DEF Joins

\* What is right at position k of what is shown of a stream.
Fits(shown, k) ==
    IF shown[k] = Prompt THEN k = 1 \/ shown[k - 1] \in NewLines
    ELSE shown[k] \notin NewLines => k # 1 /\ shown[k - 1] \notin NewLines

\* shown is a text with its prompts.
Prompted(shown, text) ==
    /\ shown \in Seq(Char \cup {Prompt}) /\ text \in Seq(Char)
    /\ Without(shown, Prompt) = text
    /\ \A k \in 1 .. Len(shown) : Fits(shown, k)

\* Prompts stay at the starts of lines, and starts keep their prompts.
LEMMA FitsGrows ==
  ASSUME NEW E, NEW q \in Seq(E), NEW x \in E, \A k \in 1 .. Len(q) : Fits(q, k),
         IF x = Prompt THEN EndsLine(q) ELSE x \notin NewLines => ~EndsLine(q)
  PROVE  \A k \in 1 .. Len(Append(q, x)) : Fits(Append(q, x), k)
<1>. DEFINE u == Append(q, x)
<1>1. /\ Len(u) = Len(q) + 1 /\ u[Len(q) + 1] = x /\ Len(q) \in Nat
      /\ \A k \in 1 .. Len(q) : u[k] = q[k]
  BY AppendProperties
<1>. HIDE DEF u
<1>2. EndsLine(q) <=> Len(q) = 0 \/ q[Len(q)] \in NewLines
  BY DEF EndsLine
<1>3. ASSUME NEW k \in 1 .. Len(q) PROVE Fits(u, k)
  <2>1. u[k] = q[k] /\ (k # 1 => k - 1 \in 1 .. Len(q)) /\ (k # 1 => u[k - 1] = q[k - 1])
    BY <1>1
  <2>. QED
    BY <2>1 DEF Fits
<1>4. Fits(u, Len(q) + 1)
  <2>1. (Len(q) + 1) - 1 = Len(q) /\ (Len(q) # 0 => u[Len(q)] = q[Len(q)]) /\ (Len(q) + 1 = 1 <=> Len(q) = 0)
    BY <1>1
  <2>. QED
    BY <1>1, <1>2, <2>1 DEF Fits
<1>5. \A k \in 1 .. Len(u) : k \in 1 .. Len(q) \/ k = Len(q) + 1
  BY <1>1
<1>. QED
  BY <1>3, <1>4, <1>5 DEF u

\* A text ends a line if its last character does.
LEMMA EndsWith ==
  ASSUME NEW E, NEW q \in Seq(E), NEW x \in E
  PROVE  EndsLine(Append(q, x)) <=> x \in NewLines
BY AppendProperties DEF EndsLine

\* A character with the prompt it needs is shown right.
LEMMA PromptedGrows ==
  ASSUME NEW shown, NEW text, Prompted(shown, text), NEW c \in Char
  PROVE  /\ c \in NewLines \/ ~EndsLine(shown) => Prompted(Append(shown, c), Append(text, c))
         /\ EndsLine(shown) => Prompted(Append(Append(shown, Prompt), c), Append(text, c))
         /\ EndsLine(Append(shown, c)) <=> c \in NewLines
         /\ EndsLine(Append(Append(shown, Prompt), c)) <=> c \in NewLines
<1>. DEFINE E == Char \cup {Prompt}
            p == Append(shown, Prompt)
<1>1. /\ shown \in Seq(E) /\ text \in Seq(Char) /\ Without(shown, Prompt) = text
      /\ \A k \in 1 .. Len(shown) : Fits(shown, k)
      /\ c \in E /\ Prompt \in E /\ c # Prompt /\ Prompt \notin NewLines
  BY ReaderAssumption DEF Prompted
<1>. HIDE DEF E
<1>2. p \in Seq(E) /\ Append(p, c) \in Seq(E) /\ Append(shown, c) \in Seq(E) /\ Append(text, c) \in Seq(Char)
  BY <1>1, AppendProperties
<1>3. /\ Without(Append(shown, c), Prompt) = Append(text, c)
      /\ Without(p, Prompt) = text
  BY <1>1, WithoutGrows
<1>. HIDE DEF p
<1>4. Without(Append(p, c), Prompt) = Append(text, c)
  BY <1>1, <1>2, <1>3, WithoutGrows
<1>5. ~EndsLine(p)
  BY <1>1, EndsWith DEF p
<1>6. (EndsLine(Append(shown, c)) <=> c \in NewLines) /\ (EndsLine(Append(p, c)) <=> c \in NewLines)
  BY <1>1, <1>2, EndsWith
<1>7. ASSUME c \in NewLines \/ ~EndsLine(shown) PROVE Prompted(Append(shown, c), Append(text, c))
  <2>1. \A k \in 1 .. Len(Append(shown, c)) : Fits(Append(shown, c), k)
    BY <1>1, <1>7, FitsGrows
  <2>. QED
    BY <1>2, <1>3, <2>1 DEF Prompted, E
<1>8. ASSUME EndsLine(shown) PROVE Prompted(Append(p, c), Append(text, c))
  <2>1. \A k \in 1 .. Len(p) : Fits(p, k)
    BY <1>1, <1>8, FitsGrows DEF p
  <2>2. \A k \in 1 .. Len(Append(p, c)) : Fits(Append(p, c), k)
    BY <1>1, <1>2, <1>5, <2>1, FitsGrows
  <2>. QED
    BY <1>2, <1>4, <2>2 DEF Prompted, E
<1>. QED
  BY <1>6, <1>7, <1>8 DEF p

\* What is on the screen.
OnScreen == On(Char \cup {Prompt})

\* What is shown of a character.
Piece(s, starts, c) == (IF starts THEN <<<<s, Prompt>>>> ELSE <<>>) \o <<<<s, c>>>>

\* After a, b shows text on the stream s, that ends with c, and nothing new on others.
ShownTo(s, a, b, text, c) ==
    /\ b \in Seq(OnScreen) /\ Prompted(TextOf(b, s), text)
    /\ EndsLine(TextOf(b, s)) <=> c \in NewLines
    /\ \A r \in Stream : r # s => TextOf(b, r) = TextOf(a, r)

\* The same among what the other stream shows.
LEMMA PieceShown ==
  ASSUME NEW s \in Stream, NEW a \in Seq(OnScreen), NEW text, Prompted(TextOf(a, s), text),
         NEW c \in Char, NEW starts \in BOOLEAN,
         starts => EndsLine(TextOf(a, s)), ~starts => c \in NewLines \/ ~EndsLine(TextOf(a, s))
  PROVE  ShownTo(s, a, a \o Piece(s, starts, c), Append(text, c), c)
<1>. DEFINE E == Char \cup {Prompt}
            x == <<s, c>>
            y == <<s, Prompt>>
            p == Piece(s, starts, c)
<1>1. /\ x \in On(E) /\ y \in On(E) /\ x[1] = s /\ x[2] = c /\ y[1] = s /\ y[2] = Prompt
      /\ c \in E /\ Prompt \in E /\ OnScreen = On(E)
  BY DEF On, OnScreen
<1>. HIDE DEF E
<1>2. <<x>> \in Seq(On(E)) /\ <<y>> \in Seq(On(E)) /\ <<>> \in Seq(On(E))
  BY <1>1
<1>3. p = (IF starts THEN <<y>> ELSE <<>>) \o <<x>>
  BY DEF Piece
<1>. HIDE DEF x, y, p
<1>4. p \in Seq(On(E)) /\ a \in Seq(On(E)) /\ a \o p \in Seq(On(E))
  <2>1. p \in Seq(On(E))
    BY <1>2, <1>3, ConcatProperties
  <2>. QED
    BY <1>1, <2>1, ConcatProperties
<1>5. Append(a, y) \in Seq(On(E))
  BY <1>1, <1>4, AppendProperties
<1>6. a \o p = IF starts THEN Append(Append(a, y), x) ELSE Append(a, x)
  <2>1. CASE starts
    <3>1. p = <<y>> \o <<x>> /\ a \o (<<y>> \o <<x>>) = (a \o <<y>>) \o <<x>>
      BY <1>2, <1>3, <1>4, <2>1, ConcatAssociative
    <3>2. a \o <<y>> = Append(a, y) /\ Append(a, y) \o <<x>> = Append(Append(a, y), x)
      BY <1>1, <1>4, <1>5, AppendIsConcat
    <3>. QED
      BY <2>1, <3>1, <3>2
  <2>2. CASE ~starts
    <3>1. p = <<x>>
      BY <1>2, <1>3, <2>2, ConcatEmptySeq
    <3>2. a \o <<x>> = Append(a, x)
      BY <1>1, <1>4, AppendIsConcat
    <3>. QED
      BY <2>2, <3>1, <3>2
  <2>. QED
    BY <2>1, <2>2
<1>7. ASSUME NEW r \in Stream
      PROVE  /\ TextOf(Append(a, x), r) = IF r = s THEN Append(TextOf(a, r), c) ELSE TextOf(a, r)
             /\ TextOf(Append(Append(a, y), x), r) =
                  IF r = s THEN Append(Append(TextOf(a, r), Prompt), c) ELSE TextOf(a, r)
  <2>1. /\ TextOf(Append(a, x), r) = IF x[1] = r THEN Append(TextOf(a, r), x[2]) ELSE TextOf(a, r)
        /\ TextOf(Append(a, y), r) = IF y[1] = r THEN Append(TextOf(a, r), y[2]) ELSE TextOf(a, r)
    BY <1>1, <1>4, TextGrows
  <2>2. TextOf(Append(Append(a, y), x), r) =
          IF x[1] = r THEN Append(TextOf(Append(a, y), r), x[2]) ELSE TextOf(Append(a, y), r)
    BY <1>1, <1>5, TextGrows
  <2>. QED
    BY <1>1, <2>1, <2>2
<1>8. /\ c \in NewLines \/ ~EndsLine(TextOf(a, s)) => Prompted(Append(TextOf(a, s), c), Append(text, c))
      /\ EndsLine(TextOf(a, s)) => Prompted(Append(Append(TextOf(a, s), Prompt), c), Append(text, c))
      /\ EndsLine(Append(TextOf(a, s), c)) <=> c \in NewLines
      /\ EndsLine(Append(Append(TextOf(a, s), Prompt), c)) <=> c \in NewLines
  BY PromptedGrows
<1>9. CASE starts
  BY <1>1, <1>4, <1>6, <1>7, <1>8, <1>9 DEF p, ShownTo
<1>10. CASE ~starts
  BY <1>1, <1>4, <1>6, <1>7, <1>8, <1>10 DEF p, ShownTo
<1>. QED
  BY <1>9, <1>10

\* One more element of a part.
LEMMA FirstGrows ==
  ASSUME NEW E, NEW q \in Seq(E), NEW t \in Seq(E), NEW i \in Nat, NEW m, m = i + 1, m <= Len(q)
  PROVE  /\ t \o FirstN(q, m) = Append(t \o FirstN(q, i), q[m])
         /\ t \o FirstN(q, 0) = t /\ t \o FirstN(q, Len(q)) = t \o q
<1>1. /\ i \in 0 .. Len(q) /\ m \in 0 .. Len(q) /\ 0 \in 0 .. Len(q) /\ Len(q) \in 0 .. Len(q)
      /\ q[m] \in E /\ m \in 1 .. m /\ \A k \in 1 .. i : k \in 1 .. m
      /\ m = i + 1 /\ m \in Nat
  OBVIOUS
<1>2. /\ FirstN(q, i) \in Seq(E) /\ Len(FirstN(q, i)) = i
      /\ \A k \in 1 .. i : FirstN(q, i)[k] = q[k]
  BY <1>1, SplitAt
<1>3. /\ FirstN(q, m) \in Seq(E) /\ Len(FirstN(q, m)) = m
      /\ \A k \in 1 .. m : FirstN(q, m)[k] = q[k]
  BY <1>1, SplitAt
<1>4. LET u == Append(FirstN(q, i), q[m])
      IN /\ u \in Seq(E) /\ Len(u) = m /\ u[m] = q[m]
         /\ \A k \in 1 .. i : u[k] = q[k]
  BY <1>1, <1>2, AppendProperties
<1>5. \A k \in 1 .. m : FirstN(q, m)[k] = Append(FirstN(q, i), q[m])[k]
  <2>1. \A k \in 1 .. m : k \in 1 .. i \/ k = m
    BY <1>1
  <2>. QED
    BY <1>3, <1>4, <2>1
<1>6. FirstN(q, m) = Append(FirstN(q, i), q[m])
  BY <1>3, <1>4, <1>5, SeqEqual
<1>7. t \o FirstN(q, m) = Append(t \o FirstN(q, i), q[m])
  <2>. DEFINE f == FirstN(q, i)
              x == q[m]
  <2>1. f \in Seq(E) /\ x \in E
    BY <1>1, <1>2
  <2>. HIDE DEF f, x
  <2>2. t \o Append(f, x) = Append(t \o f, x)
    BY <2>1, AppendToBoth
  <2>. QED
    BY <1>6, <2>2 DEF f, x
<1>8. FirstN(q, 0) = <<>>
  <2>1. FirstN(q, 0) \in Seq(E) /\ Len(FirstN(q, 0)) = 0
    BY <1>1, SplitAt
  <2>. QED
    BY <2>1
<1>9. FirstN(q, Len(q)) = q
  <2>1. /\ FirstN(q, Len(q)) \in Seq(E) /\ Len(FirstN(q, Len(q))) = Len(q)
        /\ \A k \in 1 .. Len(q) : FirstN(q, Len(q))[k] = q[k]
    BY ZenonT(30), <1>1, SplitAt
  <2>. QED
    BY <2>1, SeqEqual
<1>. QED
  BY <1>7, <1>8, <1>9, ConcatEmptySeq

\* The same for text.
LEMMA FirstMore ==
  ASSUME NEW q \in Seq(Char), NEW t \in Seq(Char), NEW i \in Nat, NEW m, m = i + 1, m <= Len(q)
  PROVE  t \o FirstN(q, m) = Append(t \o FirstN(q, i), q[m])
BY SMTT(30), FirstGrows

\* A chunk is shown with prompts where its lines start.
LEMMA ChunkShown ==
  ASSUME NEW s \in Stream, str[s] \in Seq(Char), str[s] # <<>>,
         NEW a \in Seq(OnScreen), NEW text, Prompted(TextOf(a, s), text),
         got_newline[s] <=> EndsLine(TextOf(a, s)), got_newline[s] \in BOOLEAN
  PROVE  ShownTo(s, a, a \o Shown(s), text \o str[s], Last(str[s]))
<1>. DEFINE q == str[s]
            n == Len(q)
            starts(k) == IF k = 1 THEN got_newline[s] ELSE q[k - 1] \in NewLines /\ q[k] \notin NewLines
            pieces == [k \in 1 .. n |-> Piece(s, starts(k), q[k])]
<1>0. text \in Seq(Char)
  BY DEF Prompted
<1>1. /\ n \in Nat \ {0} /\ 1 \in 1 .. n /\ n = Len(q) /\ q \in Seq(Char) /\ \A k \in 1 .. n : q[k] \in Char
      /\ starts(1) <=> got_newline[s]
  OBVIOUS
<1>2. \A k \in 1 .. n : starts(k) \in BOOLEAN
  OBVIOUS
<1>3. \A k \in 1 .. n : Piece(s, starts(k), q[k]) \in Seq(OnScreen)
  <2>. SUFFICES ASSUME NEW k \in 1 .. n PROVE Piece(s, starts(k), q[k]) \in Seq(OnScreen)
    OBVIOUS
  <2>1. <<s, Prompt>> \in OnScreen /\ <<s, q[k]>> \in OnScreen
    BY <1>1 DEF OnScreen, On
  <2>2. <<<<s, Prompt>>>> \in Seq(OnScreen) /\ <<<<s, q[k]>>>> \in Seq(OnScreen) /\ <<>> \in Seq(OnScreen)
    BY <2>1
  <2>. QED
    BY <2>2, ConcatProperties DEF Piece
<1>4. pieces \in Seq(Seq(OnScreen)) /\ Len(pieces) = n /\ \A k \in 1 .. n : pieces[k] = Piece(s, starts(k), q[k])
  BY <1>1, <1>3
<1>5. Shown(s) = FlattenSeq(pieces)
  BY DEF Shown, Piece
<1>6. \A k \in Nat \ {0} : k + 1 <= n => (starts(k + 1) <=> q[k] \in NewLines /\ q[k + 1] \notin NewLines)
  OBVIOUS
<1>. HIDE DEF pieces, starts, n, q
<1>7. PICK F : Joins(OnScreen, pieces, F, n) /\ Shown(s) = F[n]
  BY <1>1, <1>4, <1>5, Flattened
<1>8. /\ F \in [1 .. n -> Seq(OnScreen)] /\ F[1] = pieces[1]
      /\ \A i \in 1 .. n - 1 : F[i + 1] = F[i] \o pieces[i + 1]
  BY <1>7 DEF Joins
<1>. DEFINE N == {i \in Nat : i + 1 <= n => ShownTo(s, a, a \o F[i + 1], text \o FirstN(q, i + 1), q[i + 1])}
<1>9. 0 \in N
  <2>1. F[0 + 1] = Piece(s, starts(1), q[1])
    BY <1>1, <1>4, <1>8
  <2>2. text \o FirstN(q, 0 + 1) = Append(text, q[0 + 1])
    <3>1. 0 \in Nat /\ 1 = 0 + 1 /\ 1 <= Len(q)
      BY <1>1
    <3>2. /\ text \o FirstN(q, 1) = Append(text \o FirstN(q, 0), q[1])
          /\ text \o FirstN(q, 0) = text
      BY SMTT(30), <1>0, <1>1, <3>1, FirstGrows
    <3>. QED
      BY <3>2
  <2>3. q[1] \in Char /\ starts(1) \in BOOLEAN /\ (starts(1) <=> EndsLine(TextOf(a, s)))
    BY <1>1, <1>2
  <2>4. ShownTo(s, a, a \o Piece(s, starts(1), q[1]), Append(text, q[1]), q[1])
    BY <2>3, PieceShown
  <2>5. ShownTo(s, a, a \o F[0 + 1], text \o FirstN(q, 0 + 1), q[0 + 1])
    <3>1. 0 + 1 = 1
      OBVIOUS
    <3>2. q[0 + 1] = q[1]
      BY <3>1, Zenon
    <3>. QED
      BY <2>1, <2>2, <2>4, <3>2, Zenon
  <2>. QED
    BY <2>5
<1>10. ASSUME NEW i \in N PROVE i + 1 \in N
  <2>. DEFINE j == i + 1
              k == j + 1
              b == a \o F[j]
              p == Piece(s, starts(k), q[k])
              t == text \o FirstN(q, j)
  <2>. SUFFICES ASSUME k <= n PROVE ShownTo(s, a, a \o F[k], text \o FirstN(q, k), q[k])
    OBVIOUS
  <2>1. i \in Nat /\ j \in 1 .. n /\ j \in 1 .. n - 1 /\ k \in 1 .. n /\ j \in Nat \ {0} /\ j <= n /\ k = j + 1
    BY <1>1
  <2>2. ShownTo(s, a, b, t, q[j])
    BY <2>1
  <2>. HIDE DEF j
  <2>3. text \o FirstN(q, k) = Append(t, q[k])
    <3>1. j \in Nat /\ k = j + 1 /\ k <= Len(q) /\ q \in Seq(Char) /\ text \in Seq(Char)
      BY <1>0, <1>1, <2>1
    <3>. HIDE DEF k, N
    <3>2. text \o FirstN(q, k) = Append(text \o FirstN(q, j), q[k])
      BY SMTT(30), <3>1, FirstMore
    <3>. QED
      BY <3>2, Zenon
  <2>. HIDE DEF k, b, t
  <2>4. q[k] \in Char /\ starts(k) \in BOOLEAN /\ (starts(k) <=> q[j] \in NewLines /\ q[k] \notin NewLines)
    BY <1>1, <1>2, <1>6, <2>1
  <2>5. F[k] = F[j] \o p /\ F[j] \in Seq(OnScreen) /\ p \in Seq(OnScreen)
    BY <1>3, <1>4, <1>8, <2>1
  <2>6. a \o F[k] = b \o p
    <3>. HIDE DEF p
    <3>. DEFINE f == F[j]
                E == OnScreen
    <3>1. f \in Seq(E) /\ p \in Seq(E) /\ a \in Seq(E)
      BY <2>5
    <3>. HIDE DEF f, E
    <3>2. (a \o f) \o p = a \o (f \o p)
      BY SMTT(30), <3>1, ConcatAssociative
    <3>. QED
      BY <2>5, <3>2, Zenon DEF b, f
  <2>7. /\ b \in Seq(OnScreen) /\ Prompted(TextOf(b, s), t)
        /\ EndsLine(TextOf(b, s)) <=> q[j] \in NewLines
        /\ \A r \in Stream : r # s => TextOf(b, r) = TextOf(a, r)
    BY <2>2 DEF ShownTo
  <2>8. ShownTo(s, b, b \o p, Append(t, q[k]), q[k])
    BY <2>4, <2>7, PieceShown
  <2>9. ShownTo(s, a, b \o p, Append(t, q[k]), q[k])
    BY <2>7, <2>8 DEF ShownTo
  <2>. QED
    BY <2>3, <2>6, <2>9
<1>11. N = Nat
  <2>1. N \in SUBSET Nat
    OBVIOUS
  <2>. HIDE DEF N
  <2>. QED
    BY <1>9, <1>10, <2>1, Induction
<1>12. ShownTo(s, a, a \o F[n], text \o FirstN(q, n), q[n])
  <2>1. n - 1 \in Nat /\ (n - 1) + 1 = n /\ n <= n
    BY <1>1
  <2>2. ShownTo(s, a, a \o F[(n - 1) + 1], text \o FirstN(q, (n - 1) + 1), q[(n - 1) + 1])
    BY <1>11, <2>1
  <2>. QED
    BY <2>1, <2>2
<1>13. text \o FirstN(q, n) = text \o q
  <2>1. 0 \in Nat /\ 1 = 0 + 1 /\ 1 <= Len(q)
    BY <1>1
  <2>. QED
    BY SMTT(30), <1>0, <1>1, <2>1, FirstGrows
<1>14. Last(q) = q[n]
  BY <1>1 DEF Last
<1>. QED
  BY <1>7, <1>12, <1>13, <1>14 DEF q

-----------------------------------------------------------------------------
(* The inductive invariant *)

ReaderTypes ==
    /\ call \in Calls
    /\ tool \in Seq(On(Char)) /\ todo \in Seq(On(Char)) /\ exited \in BOOLEAN
    /\ caller \in {"start", "running", "returned", "failed", "terminated"}
    /\ pc \in [Stream -> {"none", "read", "split", "leftover", "print", "done"}]
    /\ pipe \in [Stream -> Seq(Char)] /\ str \in [Stream -> Seq(Char)] /\ line_buf \in [Stream -> Seq(Char)]
    /\ got_newline \in [Stream -> BOOLEAN]
    /\ lock \in Stream \cup {NoThread}
    /\ heard \in Seq(On(Seq(Char))) /\ screen \in Seq(OnScreen)

\* Where the thread of stream s can be, and what it has.
ThreadOK(s) ==
    /\ caller = "start" => pc[s] = "none"
    /\ caller = "returned" => pc[s] = "done"
    /\ pc[s] \in {"split", "print"} <=> str[s] # <<>>
    /\ pc[s] \in {"split", "leftover"} => call = "run_cmd_read_lines"
    /\ pc[s] = "print" => call = "run_cmd"
    /\ pc[s] \in {"leftover", "done"} => exited /\ pipe[s] = <<>>
    /\ pc[s] = "done" => line_buf[s] = <<>>
    /\ call = "run_cmd" => line_buf[s] = <<>>
    /\ lock = s => \/ pc[s] = "leftover"
                   \/ pc[s] = "split" /\ LineEnd(str[s]) <= Len(str[s])
    /\ Len(pipe[s]) <= PipeSize /\ Len(str[s]) <= ReadSize
    /\ Plain(line_buf[s])

\* What has not been dealt with yet of the text of stream s.
Rest(s) == str[s] \o (pipe[s] \o TextOf(todo, s))

\* text, what has been, is what was called back and the start of a line, or what
\* is on the screen.
DealtWith(s, text) ==
    /\ TextOf(tool, s) = text \o Rest(s)
    /\ call = "run_cmd_read_lines" =>
         /\ pc[s] # "done" => Cut(text, LinesHeard(s), line_buf[s])
         /\ pc[s] = "done" => LinesOf(text) = LinesHeard(s)
    /\ call = "run_cmd" => /\ Prompted(TextOf(screen, s), text)
                           /\ got_newline[s] <=> EndsLine(TextOf(screen, s))

StreamOK(s) == \E text \in Seq(Char) : DealtWith(s, text)

ReaderInv ==
    /\ ReaderTypes
    /\ exited => todo = <<>>
    /\ \A s \in Stream : ThreadOK(s) /\ StreamOK(s)

\* A step that takes text from one place to the next.
LEMMA StillDealtWith ==
  ASSUME NEW s \in Stream, StreamOK(s),
         UNCHANGED <<call, tool, line_buf[s], got_newline[s]>>,
         Rest(s)' = Rest(s), TextOf(heard, s)' = TextOf(heard, s), TextOf(screen, s)' = TextOf(screen, s),
         pc[s]' = "done" <=> pc[s] = "done"
  PROVE  StreamOK(s)'
<1>1. PICK text \in Seq(Char) : DealtWith(s, text)
  BY DEF StreamOK
<1>2. LinesHeard(s)' = LinesHeard(s)
  BY DEF LinesHeard
<1>3. TextOf(tool, s)' = TextOf(tool, s)
  OBVIOUS
<1>4. DealtWith(s, text)'
  BY <1>1, <1>2, <1>3 DEF DealtWith
<1>. QED
  BY <1>4 DEF StreamOK

\* What a step does to the thread of another stream.
LEMMA OtherStream ==
  ASSUME NEW s \in Stream, ThreadOK(s), StreamOK(s),
         UNCHANGED <<call, caller, exited, tool, todo, pc[s], pipe[s], str[s], line_buf[s], got_newline[s]>>,
         lock' = s => lock = s, TextOf(heard, s)' = TextOf(heard, s), TextOf(screen, s)' = TextOf(screen, s)
  PROVE  ThreadOK(s)' /\ StreamOK(s)'
<1>1. ThreadOK(s)'
  BY DEF ThreadOK
<1>2. Rest(s)' = Rest(s)
  BY DEF Rest
<1>. QED
  BY <1>1, <1>2, StillDealtWith

\* Types of the texts that the invariant speaks of.
LEMMA TextsTyped ==
  ASSUME ReaderTypes, NEW s \in Stream
  PROVE  /\ TextOf(tool, s) \in Seq(Char) /\ TextOf(todo, s) \in Seq(Char)
         /\ TextOf(heard, s) \in Seq(Seq(Char)) /\ LinesHeard(s) \in Seq(Seq(Char))
         /\ str[s] \in Seq(Char) /\ pipe[s] \in Seq(Char) /\ line_buf[s] \in Seq(Char)
         /\ pipe[s] \o TextOf(todo, s) \in Seq(Char) /\ Rest(s) \in Seq(Char)
<1>1. /\ TextOf(tool, s) \in Seq(Char) /\ TextOf(todo, s) \in Seq(Char)
      /\ TextOf(heard, s) \in Seq(Seq(Char))
  BY TextTyped DEF ReaderTypes
<1>2. LinesHeard(s) \in Seq(Seq(Char))
  <2>. DEFINE E == Seq(Char)
              q == TextOf(heard, s)
  <2>1. q \in Seq(E)
    BY <1>1
  <2>2. <<>> \in E
    OBVIOUS
  <2>. HIDE DEF q, E
  <2>3. Without(q, <<>>) \in Seq(E)
    BY <2>1, <2>2, WithoutGrows
  <2>. QED
    BY <2>3 DEF LinesHeard, q, E
<1>3. str[s] \in Seq(Char) /\ pipe[s] \in Seq(Char) /\ line_buf[s] \in Seq(Char)
  BY DEF ReaderTypes
<1>4. pipe[s] \o TextOf(todo, s) \in Seq(Char)
  BY <1>1, <1>3, ConcatProperties
<1>5. Rest(s) \in Seq(Char)
  BY <1>3, <1>4, ConcatProperties DEF Rest
<1>. QED
  BY <1>1, <1>2, <1>3, <1>4, <1>5

\* Before the tool is started nothing has been printed or heard.
LEMMA InvInit == Init => ReaderInv
<1>. SUFFICES ASSUME Init PROVE ReaderInv
  OBVIOUS
<1>1. ReaderTypes
  <2>1. tool \in Seq(On(Char))
    BY ReaderAssumption DEF Init, On
  <2>2. <<>> \in Seq(Char) /\ <<>> \in Seq(On(Seq(Char))) /\ <<>> \in Seq(OnScreen)
    OBVIOUS
  <2>. QED
    BY <2>1, <2>2 DEF Init, ReaderTypes
<1>2. ASSUME NEW s \in Stream PROVE ThreadOK(s)
  <2>1. Plain(<<>>)
    BY DEF Plain
  <2>2. lock # s
    BY ReaderAssumption DEF Init
  <2>. QED
    BY <2>1, <2>2, ReaderAssumption DEF Init, ThreadOK
<1>3. ASSUME NEW s \in Stream PROVE StreamOK(s)
  <2>1. /\ str[s] = <<>> /\ pipe[s] = <<>> /\ line_buf[s] = <<>> /\ todo = tool
        /\ pc[s] # "done" /\ got_newline[s] = TRUE /\ heard = <<>> /\ screen = <<>>
    BY DEF Init
  <2>2. TextOf(tool, s) \in Seq(Char) /\ <<>> \in Seq(Char)
    BY <1>1, TextsTyped
  <2>3. TextOf(tool, s) = <<>> \o Rest(s)
    BY <2>1, <2>2, ConcatEmptySeq DEF Rest
  <2>4. LinesHeard(s) = <<>> /\ TextOf(screen, s) = <<>>
    BY <2>1, NoText, NothingWithout DEF LinesHeard
  <2>5. Cut(<<>>, <<>>, <<>>)
    <3>1. LinesOf(<<>>) = <<>>
      <4>1. LinesOf(<<>>) \in Seq(Seq(Char)) /\ Len(LinesOf(<<>>)) = Cardinality(Firsts(<<>>))
        BY <2>2, LinesTyped
      <4>2. Firsts(<<>>) = {}
        BY DEF Firsts
      <4>3. Len(LinesOf(<<>>)) = 0
        BY <4>1, <4>2, FS_EmptySet
      <4>. QED
        BY <4>1, <4>3
    <3>2. <<>> \in Seq(Seq(Char))
      OBVIOUS
    <3>3. <<>> \o Kept(<<>>) = <<>>
      BY <3>2, NothingKept
    <3>. QED
      BY <2>2, <3>1, <3>2, <3>3 DEF Cut, EndsLine
  <2>6. Prompted(<<>>, <<>>)
    <3>1. <<>> \in Seq(Char \cup {Prompt}) /\ \A k \in 1 .. Len(<<>>) : Fits(<<>>, k)
      OBVIOUS
    <3>. QED
      BY <2>2, <3>1, NothingWithout DEF Prompted
  <2>7. EndsLine(<<>>)
    BY DEF EndsLine
  <2>8. DealtWith(s, <<>>)
    BY <2>1, <2>3, <2>4, <2>5, <2>6, <2>7 DEF DealtWith
  <2>. QED
    BY <2>2, <2>8 DEF StreamOK
<1>. QED
  BY <1>1, <1>2, <1>3 DEF ReaderInv, Init

-----------------------------------------------------------------------------
(* Every step keeps it *)

\* A printed character goes to the end of the pipe.
LEMMA InvToolPrints == ReaderInv /\ ToolPrints => ReaderInv'
<1>. SUFFICES ASSUME ReaderInv, ToolPrints PROVE ReaderInv'
  OBVIOUS
<1>1. ReaderTypes /\ (exited => todo = <<>>) /\ \A r \in Stream : ThreadOK(r) /\ StreamOK(r)
  BY DEF ReaderInv
<1>2. /\ todo # <<>> /\ todo' = Tail(todo) /\ todo \in Seq(On(Char))
      /\ UNCHANGED <<call, tool, exited, caller, pc, str, line_buf, got_newline, lock, heard, screen>>
  BY <1>1 DEF ToolPrints, ReaderTypes
<1>3. /\ Head(todo) \in On(Char) /\ todo' \in Seq(On(Char))
      /\ \A r \in Stream : TextOf(todo, r) = IF Head(todo)[1] = r THEN <<Head(todo)[2]>> \o TextOf(Tail(todo), r)
                                             ELSE TextOf(Tail(todo), r)
  BY <1>2, TextByHead
<1>4. PICK s \in Stream, c \in Char : Head(todo)[1] = s /\ Head(todo)[2] = c
  BY <1>3, OnStreams
<1>5. /\ todo # <<>> /\ Len(pipe[s]) < PipeSize /\ pipe' = [pipe EXCEPT ![s] = Append(@, c)]
      /\ todo' = Tail(todo)
      /\ UNCHANGED <<call, tool, exited, caller, pc, str, line_buf, got_newline, lock, heard, screen>>
  BY <1>2, <1>4 DEF ToolPrints
<1>6. /\ todo' \in Seq(On(Char)) /\ s \in Stream /\ c \in Char
      /\ \A r \in Stream : TextOf(todo, r) = IF s = r THEN <<c>> \o TextOf(todo', r) ELSE TextOf(todo', r)
  BY <1>2, <1>3, <1>4
<1>7. pipe \in [Stream -> Seq(Char)] /\ Append(pipe[s], c) \in Seq(Char) /\ Len(Append(pipe[s], c)) = Len(pipe[s]) + 1
  BY <1>1, <1>6, AppendProperties DEF ReaderTypes
<1>8. ReaderTypes'
  BY <1>1, <1>5, <1>6, <1>7 DEF ReaderTypes
<1>9. ASSUME NEW r \in Stream PROVE ThreadOK(r)'
  <2>1. ThreadOK(r) /\ ~exited
    BY <1>1, <1>5
  <2>2. pipe'[r] = (IF r = s THEN Append(pipe[s], c) ELSE pipe[r]) /\ Len(pipe[s]) \in Nat
    BY <1>5, <1>6, <1>7
  <2>3. Len(pipe'[r]) <= PipeSize
    BY <1>5, <1>7, <2>1, <2>2, ReaderAssumption DEF ThreadOK
  <2>. QED
    BY <1>5, <2>1, <2>3 DEF ThreadOK
<1>10. ASSUME NEW r \in Stream PROVE StreamOK(r)'
  <2>1. Rest(r)' = Rest(r)
    <3>1. CASE r = s
      <4>. DEFINE p == pipe[s]
                  t == TextOf(todo', s)
      <4>1. TextOf(todo, s) = <<c>> \o t
        BY <1>6
      <4>2. p \in Seq(Char) /\ t \in Seq(Char) /\ <<c>> \in Seq(Char)
        BY <1>6, <1>7, TextTyped
      <4>3. pipe'[s] = Append(p, c)
        BY <1>5, <1>6, <1>7
      <4>. HIDE DEF p, t
      <4>4. Append(p, c) \o t = p \o (<<c>> \o t)
        <5>1. Append(p, c) = p \o <<c>>
          BY <1>6, <4>2, AppendIsConcat
        <5>2. (p \o <<c>>) \o t = p \o (<<c>> \o t)
          BY <4>2, ConcatAssociative
        <5>. QED
          BY <5>1, <5>2
      <4>5. Rest(s) = str[s] \o (p \o (<<c>> \o t))
        BY <4>1 DEF Rest, p
      <4>6. Rest(s)' = str[s] \o (Append(p, c) \o t)
        BY <1>5, <4>3 DEF Rest, t
      <4>. QED
        BY <3>1, <4>4, <4>5, <4>6
    <3>2. CASE r # s
      <4>1. pipe'[r] = pipe[r] /\ TextOf(todo', r) = TextOf(todo, r)
        BY <1>5, <1>6, <1>7, <3>2
      <4>. QED
        BY <1>5, <4>1 DEF Rest
    <3>. QED
      BY <3>1, <3>2
  <2>. QED
    BY <1>1, <1>5, <2>1, StillDealtWith
<1>. QED
  BY <1>1, <1>5, <1>8, <1>9, <1>10 DEF ReaderInv

\* Steps that do not touch a thread's data.
LEMMA InvOthers == ReaderInv /\ (ToolExits \/ Start \/ Return) => ReaderInv'
<1>. SUFFICES ASSUME ReaderInv, ToolExits \/ Start \/ Return PROVE ReaderInv'
  OBVIOUS
<1>1. ReaderTypes /\ (exited => todo = <<>>) /\ \A r \in Stream : ThreadOK(r) /\ StreamOK(r)
  BY DEF ReaderInv
<1>2. UNCHANGED <<call, tool, todo, pipe, str, line_buf, got_newline, lock, heard, screen>>
  BY DEF ToolExits, Start, Return, toolVars
<1>3. \A r \in Stream : pc[r]' = "done" <=> pc[r] = "done"
  <2>1. CASE UNCHANGED pc
    BY <2>1
  <2>2. CASE caller = "start" /\ pc' = [r \in Stream |-> "read"]
    BY <1>1, <2>2 DEF ThreadOK
  <2>. QED
    BY <2>1, <2>2 DEF ToolExits, Start, Return
<1>4. \A r \in Stream : StreamOK(r)'
  <2>1. \A r \in Stream : Rest(r)' = Rest(r)
    BY <1>2 DEF Rest
  <2>2. \A r \in Stream : TextOf(heard, r)' = TextOf(heard, r) /\ TextOf(screen, r)' = TextOf(screen, r)
    BY <1>2
  <2>. QED
    BY <1>1, <1>2, <1>3, <2>1, <2>2, StillDealtWith
<1>5. CASE ToolExits
  <2>1. ReaderTypes'
    BY <1>1, <1>5 DEF ReaderTypes, ToolExits
  <2>2. \A r \in Stream : ThreadOK(r)'
    BY <1>1, <1>5 DEF ThreadOK, ToolExits
  <2>. QED
    BY <1>4, <1>5, <2>1, <2>2 DEF ReaderInv, ToolExits
<1>6. CASE Start
  <2>1. ReaderTypes'
    BY <1>1, <1>6 DEF ReaderTypes, Start, toolVars
  <2>2. \A r \in Stream : ThreadOK(r)'
    BY <1>1, <1>6 DEF ThreadOK, Start, toolVars
  <2>. QED
    BY <1>1, <1>2, <1>4, <1>6, <2>1, <2>2 DEF ReaderInv, Start, toolVars
<1>7. CASE Return
  <2>1. ReaderTypes'
    BY <1>1, <1>7 DEF ReaderTypes, Return, toolVars
  <2>2. \A r \in Stream : ThreadOK(r)'
    BY <1>1, <1>7 DEF ThreadOK, Return, toolVars
  <2>. QED
    BY <1>1, <1>2, <1>4, <1>7, <2>1, <2>2 DEF ReaderInv, Return, toolVars
<1>. QED
  BY <1>5, <1>6, <1>7

\* What is read leaves the pipe at its front.
LEMMA InvRead == ASSUME NEW s \in Stream PROVE ReaderInv /\ Read(s) => ReaderInv'
<1>. SUFFICES ASSUME ReaderInv, Read(s) PROVE ReaderInv'
  OBVIOUS
<1>1. ReaderTypes /\ (exited => todo = <<>>) /\ \A r \in Stream : ThreadOK(r) /\ StreamOK(r)
  BY DEF ReaderInv
<1>2. /\ caller = "running" /\ pc[s] = "read" /\ pipe[s] # <<>>
      /\ pc' = [pc EXCEPT ![s] = IF call = "run_cmd" THEN "print" ELSE "split"]
      /\ UNCHANGED <<call, tool, todo, exited, caller, line_buf, got_newline, lock, heard, screen>>
  BY DEF Read, ReaderStep, toolVars
<1>3. PICK n \in 1 .. Len(pipe[s]) : /\ n <= ReadSize
                                     /\ str' = [str EXCEPT ![s] = FirstN(pipe[s], n)]
                                     /\ pipe' = [pipe EXCEPT ![s] = Drop(@, n)]
  BY DEF Read
<1>. DEFINE p == pipe[s]
            a == FirstN(p, n)
            b == Drop(p, n)
            t == TextOf(todo, s)
<1>4. /\ str \in [Stream -> Seq(Char)] /\ pipe \in [Stream -> Seq(Char)] /\ p \in Seq(Char) /\ Len(p) \in Nat
      /\ t \in Seq(Char) /\ n \in 0 .. Len(p)
  <2>1. str \in [Stream -> Seq(Char)] /\ pipe \in [Stream -> Seq(Char)]
    BY <1>1 DEF ReaderTypes
  <2>2. p \in Seq(Char) /\ t \in Seq(Char)
    BY <1>1, TextsTyped
  <2>3. n \in 0 .. Len(p)
    BY <1>3
  <2>. QED
    BY <2>1, <2>2, <2>3
<1>5. /\ a \in Seq(Char) /\ b \in Seq(Char) /\ a \o b = p /\ Len(a) = n /\ Len(b) = Len(p) - n
  <2>. HIDE DEF p
  <2>. QED
    BY <1>4, SplitAt
<1>6. str' = [str EXCEPT ![s] = a] /\ pipe' = [pipe EXCEPT ![s] = b]
  BY <1>3, <1>4
<1>. HIDE DEF a, b, p, t
<1>7. ReaderTypes'
  BY <1>1, <1>2, <1>4, <1>5, <1>6 DEF ReaderTypes
<1>8. /\ str'[s] = a /\ pipe'[s] = b /\ a # <<>> /\ str[s] = <<>> /\ lock # s
      /\ Len(a) <= ReadSize /\ Len(b) <= PipeSize
  <2>1. ThreadOK(s) /\ ThreadOK(s)
    BY <1>1
  <2>2. a # <<>> /\ Len(a) <= ReadSize
    BY <1>3, <1>5
  <2>3. Len(b) <= PipeSize
    BY <1>3, <1>4, <1>5, <2>1, ReaderAssumption DEF ThreadOK, p
  <2>. QED
    BY <1>2, <1>4, <1>6, <2>1, <2>2, <2>3 DEF ThreadOK
<1>9. ThreadOK(s)'
  <2>1. ThreadOK(s) /\ call \in Calls /\ pc'[s] = IF call = "run_cmd" THEN "print" ELSE "split"
    BY <1>1, <1>2 DEF ReaderTypes
  <2>. QED
    BY <1>2, <1>8, <2>1 DEF ThreadOK, Calls
<1>10. StreamOK(s)'
  <2>1. Rest(s) = Rest(s)'
    <3>1. Rest(s) = p \o t
      BY <1>4, <1>8, ConcatEmptySeq, ConcatProperties DEF Rest, p, t
    <3>2. Rest(s)' = a \o (b \o t)
      BY <1>2, <1>8 DEF Rest, t
    <3>3. a \in Seq(Char) /\ b \in Seq(Char) /\ t \in Seq(Char)
      BY <1>4, <1>5
    <3>4. (a \o b) \o t = a \o (b \o t)
      BY SMTT(30), <3>3, ConcatAssociative
    <3>. QED
      BY <1>5, <3>1, <3>2, <3>4
  <2>2. pc[s]' = "done" <=> pc[s] = "done"
    BY <1>1, <1>2 DEF ReaderTypes
  <2>. QED
    BY <1>1, <1>2, <2>1, <2>2, StillDealtWith
<1>11. ASSUME NEW r \in Stream, r # s PROVE ThreadOK(r)' /\ StreamOK(r)'
  <2>1. pc[r]' = pc[r] /\ pipe[r]' = pipe[r] /\ str[r]' = str[r]
    BY <1>1, <1>2, <1>6, <1>11 DEF ReaderTypes
  <2>. QED
    BY <1>1, <1>2, <2>1, OtherStream
<1>. QED
  BY <1>1, <1>2, <1>7, <1>9, <1>10, <1>11 DEF ReaderInv

\* At the end of a stream there is nothing left to read.
LEMMA InvEndOfStream == ASSUME NEW s \in Stream PROVE ReaderInv /\ EndOfStream(s) => ReaderInv'
<1>. SUFFICES ASSUME ReaderInv, EndOfStream(s) PROVE ReaderInv'
  OBVIOUS
<1>1. ReaderTypes /\ (exited => todo = <<>>) /\ \A r \in Stream : ThreadOK(r) /\ StreamOK(r)
  BY DEF ReaderInv
<1>2. /\ caller = "running" /\ pc[s] = "read" /\ pipe[s] = <<>> /\ exited
      /\ pc' = [pc EXCEPT ![s] = IF line_buf[s] = <<>> THEN "done" ELSE "leftover"]
      /\ UNCHANGED <<call, tool, todo, exited, caller, pipe, str, line_buf, got_newline, lock, heard, screen>>
  BY DEF EndOfStream, ReaderStep, toolVars
<1>3. pc \in [Stream -> {"none", "read", "split", "leftover", "print", "done"}] /\ call \in Calls
  BY <1>1 DEF ReaderTypes
<1>4. ReaderTypes'
  BY <1>1, <1>2, <1>3 DEF ReaderTypes
<1>5. pc'[s] = IF line_buf[s] = <<>> THEN "done" ELSE "leftover"
  BY <1>2, <1>3
<1>6. ThreadOK(s) /\ StreamOK(s)
  BY <1>1
<1>7. ThreadOK(s)'
  BY <1>2, <1>3, <1>5, <1>6 DEF ThreadOK, Calls
<1>8. StreamOK(s)'
  <2>1. PICK text \in Seq(Char) : DealtWith(s, text)
    BY <1>6 DEF StreamOK
  <2>2. Rest(s)' = Rest(s) /\ TextOf(tool, s)' = TextOf(tool, s) /\ TextOf(screen, s)' = TextOf(screen, s)
    BY <1>2 DEF Rest
  <2>3. LinesHeard(s)' = LinesHeard(s) /\ line_buf[s]' = line_buf[s]
    BY <1>2 DEF LinesHeard
  <2>4. line_buf[s] = <<>> /\ call = "run_cmd_read_lines" => LinesOf(text) = LinesHeard(s)
    <3>1. SUFFICES ASSUME line_buf[s] = <<>>, Cut(text, LinesHeard(s), line_buf[s]) PROVE LinesOf(text) = LinesHeard(s)
      BY <1>2, <2>1 DEF DealtWith
    <3>2. LinesOf(text) = LinesHeard(s) \o Kept(<<>>) /\ LinesHeard(s) \in Seq(Seq(Char))
      BY <3>1 DEF Cut
    <3>. QED
      BY <3>2, NothingKept
  <2>5. DealtWith(s, text)'
    BY <1>2, <1>5, <2>1, <2>2, <2>3, <2>4 DEF DealtWith
  <2>. QED
    BY <2>5 DEF StreamOK
<1>9. ASSUME NEW r \in Stream, r # s PROVE ThreadOK(r)' /\ StreamOK(r)'
  <2>1. pc[r]' = pc[r]
    BY <1>2, <1>3, <1>9
  <2>. QED
    BY <1>1, <1>2, <2>1, OtherStream
<1>. QED
  BY <1>1, <1>2, <1>4, <1>7, <1>8, <1>9 DEF ReaderInv

\* A chunk without newline is added to the line.
LEMMA InvNoNewLine == ASSUME NEW s \in Stream PROVE ReaderInv /\ NoNewLine(s) => ReaderInv'
<1>. SUFFICES ASSUME ReaderInv, NoNewLine(s) PROVE ReaderInv'
  OBVIOUS
<1>. DEFINE q == str[s]
            line == line_buf[s]
<1>1. ReaderTypes /\ (exited => todo = <<>>) /\ \A r \in Stream : ThreadOK(r) /\ StreamOK(r)
  BY DEF ReaderInv
<1>2. /\ caller = "running" /\ pc[s] = "split" /\ LineEnd(q) > Len(q)
      /\ line_buf' = [line_buf EXCEPT ![s] = line \o q]
      /\ str' = [str EXCEPT ![s] = <<>>]
      /\ pc' = [pc EXCEPT ![s] = "read"]
      /\ UNCHANGED <<call, tool, todo, exited, caller, pipe, got_newline, lock, heard, screen>>
  BY <1>1 DEF NoNewLine, ReaderStep, toolVars, ReaderTypes
<1>3. /\ pc \in [Stream -> {"none", "read", "split", "leftover", "print", "done"}]
      /\ str \in [Stream -> Seq(Char)] /\ line_buf \in [Stream -> Seq(Char)]
      /\ q \in Seq(Char) /\ line \in Seq(Char) /\ <<>> \in Seq(Char)
  BY <1>1 DEF ReaderTypes
<1>4. Plain(q)
  <2>1. EndAt(q, LineEnd(q))
    BY <1>3, LineEndIs
  <2>2. LineEnd(q) \in 1 .. Len(q) + 1 /\ \A k \in 1 .. LineEnd(q) - 1 : q[k] \notin NewLines
    BY <2>1 DEF EndAt
  <2>3. Len(q) \in Nat
    BY <1>3
  <2>. HIDE DEF q
  <2>4. LineEnd(q) - 1 = Len(q)
    BY <1>2, <2>2, <2>3
  <2>. QED
    BY <2>2, <2>4 DEF Plain
<1>. HIDE DEF q, line
<1>5. line \o q \in Seq(Char) /\ Plain(line \o q)
  <2>1. Plain(line)
    BY <1>1 DEF ThreadOK, line
  <2>2. /\ line \o q \in Seq(Char) /\ Len(line \o q) = Len(line) + Len(q) /\ Len(line) \in Nat /\ Len(q) \in Nat
        /\ \A k \in 1 .. Len(line) + Len(q) : (line \o q)[k] = IF k <= Len(line) THEN line[k] ELSE q[k - Len(line)]
    BY <1>3, ConcatProperties
  <2>3. ASSUME NEW k \in 1 .. Len(line) + Len(q) PROVE (line \o q)[k] \notin NewLines
    <3>1. CASE k <= Len(line)
      <4>1. k \in 1 .. Len(line)
        BY <2>2, <3>1
      <4>. QED
        BY <2>1, <2>2, <3>1, <4>1 DEF Plain
    <3>2. CASE ~(k <= Len(line))
      <4>1. k - Len(line) \in 1 .. Len(q)
        BY <2>2, <3>2
      <4>. QED
        BY <1>4, <2>2, <3>2, <4>1 DEF Plain
    <3>. QED
      BY <3>1, <3>2
  <2>. QED
    BY <2>2, <2>3 DEF Plain
<1>6. ReaderTypes'
  BY <1>1, <1>2, <1>3, <1>5 DEF ReaderTypes
<1>7. /\ pc'[s] = "read" /\ str'[s] = <<>> /\ line_buf'[s] = line \o q /\ ThreadOK(s) /\ StreamOK(s)
      /\ Len(<<>>) <= ReadSize /\ call = "run_cmd_read_lines" /\ call # "run_cmd" /\ lock # s
  <2>1. ThreadOK(s) /\ StreamOK(s)
    BY <1>1
  <2>2. lock = s => LineEnd(q) <= Len(q)
    BY <1>2, <2>1 DEF ThreadOK, q
  <2>3. LineEnd(q) \in Nat /\ Len(q) \in Nat
    <3>1. LineEnd(q) \in 1 .. Len(q) + 1 /\ Len(q) \in Nat
      BY <1>3, LineEndIs DEF EndAt
    <3>. QED
      BY <3>1
  <2>4. call = "run_cmd_read_lines"
    BY <1>2, <2>1 DEF ThreadOK
  <2>5. lock # s
    BY <1>2, <2>2, <2>3
  <2>. QED
    BY <1>2, <1>3, <2>1, <2>4, <2>5, ReaderAssumption
<1>8. ThreadOK(s)'
  BY <1>2, <1>5, <1>7 DEF ThreadOK
<1>9. StreamOK(s)'
  <2>1. PICK text \in Seq(Char) : DealtWith(s, text)
    BY <1>7 DEF StreamOK
  <2>2. Cut(text, LinesHeard(s), line) /\ TextOf(tool, s) = text \o Rest(s)
    BY <1>2, <1>7, <2>1 DEF DealtWith, line
  <2>3. Cut(text \o q, LinesHeard(s), line \o q)
    BY <1>3, <1>4, <2>2, CutPlain
  <2>4. TextOf(tool, s) = (text \o q) \o Rest(s)' /\ text \o q \in Seq(Char)
    <3>. DEFINE t == pipe[s] \o TextOf(todo, s)
    <3>1. t \in Seq(Char)
      BY <1>1, TextsTyped
    <3>2. Rest(s) = q \o t
      BY DEF Rest, q
    <3>3. Rest(s)' = <<>> \o t
      BY <1>2, <1>7 DEF Rest
    <3>. HIDE DEF t
    <3>4. text \in Seq(Char) /\ q \in Seq(Char)
      BY <1>3
    <3>5. (text \o q) \o t = text \o (q \o t)
      BY SMTT(30), <3>1, <3>4, ConcatAssociative
    <3>6. <<>> \o t = t /\ text \o q \in Seq(Char)
      BY <3>1, <3>4, ConcatEmptySeq, ConcatProperties
    <3>. QED
      BY <2>2, <3>2, <3>3, <3>5, <3>6
  <2>5. LinesHeard(s)' = LinesHeard(s) /\ TextOf(tool, s)' = TextOf(tool, s)
    BY <1>2 DEF LinesHeard
  <2>6. PICK d \in Seq(Char) : d = text \o q
    BY <2>4
  <2>7. DealtWith(s, d)'
    BY <1>2, <1>7, <2>3, <2>4, <2>5, <2>6 DEF DealtWith
  <2>. QED
    BY <2>7 DEF StreamOK
<1>10. ASSUME NEW r \in Stream, r # s PROVE ThreadOK(r)' /\ StreamOK(r)'
  <2>1. pc[r]' = pc[r] /\ str[r]' = str[r] /\ line_buf[r]' = line_buf[r]
    BY <1>2, <1>3, <1>10
  <2>. QED
    BY <1>1, <1>2, <2>1, OtherStream
<1>. QED
  BY <1>1, <1>2, <1>6, <1>8, <1>9, <1>10 DEF ReaderInv

\* Taking the lock, and an exception, change no text.
LEMMA InvCallBack == ASSUME NEW s \in Stream PROVE ReaderInv /\ (CallBack(s) \/ CallbackThrows(s)) => ReaderInv'
<1>. SUFFICES ASSUME ReaderInv, CallBack(s) \/ CallbackThrows(s) PROVE ReaderInv'
  OBVIOUS
<1>1. ReaderTypes /\ (exited => todo = <<>>) /\ \A r \in Stream : ThreadOK(r) /\ StreamOK(r)
  BY DEF ReaderInv
<1>2. /\ UNCHANGED <<call, tool, todo, exited, pipe, pc, str, line_buf, got_newline, heard, screen>>
      /\ caller = "running" /\ caller' \in {"running", "terminated"}
      /\ lock' \in {s, lock}
      /\ lock' # lock => \/ pc[s] = "leftover"
                         \/ pc[s] = "split" /\ LineEnd(str[s]) <= Len(str[s])
  BY DEF CallBack, CallbackThrows, ReaderStep, toolVars
<1>3. ReaderTypes'
  BY <1>1, <1>2 DEF ReaderTypes
<1>4. ASSUME NEW r \in Stream PROVE ThreadOK(r)'
  BY <1>1, <1>2 DEF ThreadOK
<1>5. ASSUME NEW r \in Stream PROVE StreamOK(r)'
  <2>1. Rest(r)' = Rest(r)
    BY <1>2 DEF Rest
  <2>2. TextOf(heard, r)' = TextOf(heard, r) /\ TextOf(screen, r)' = TextOf(screen, r)
    BY <1>2
  <2>. QED
    BY <1>1, <1>2, <2>1, <2>2, StillDealtWith
<1>. QED
  BY <1>1, <1>2, <1>3, <1>4, <1>5 DEF ReaderInv

\* What a call of the callback adds to the lines heard.
LEMMA Hears ==
  ASSUME ReaderTypes, NEW s \in Stream, NEW line \in Seq(Char), heard' = Append(heard, <<s, line>>)
  PROVE  /\ heard' \in Seq(On(Seq(Char))) /\ LinesHeard(s)' = LinesHeard(s) \o Kept(line)
         /\ \A r \in Stream : r # s => TextOf(heard, r)' = TextOf(heard, r)
<1>. DEFINE E == Seq(Char)
            p == <<s, line>>
            q == TextOf(heard, s)
            l == LinesHeard(s)
<1>1. heard \in Seq(On(E)) /\ p \in On(E) /\ p[1] = s /\ p[2] = line /\ line \in E
  BY DEF ReaderTypes, On
<1>2. q \in Seq(E) /\ l \in Seq(E) /\ <<>> \in E
  BY TextsTyped
<1>3. heard' = Append(heard, p) /\ l = Without(q, <<>>)
  BY DEF LinesHeard
<1>. HIDE DEF E, p, q, l
<1>4. \A r \in Stream : TextOf(Append(heard, p), r) =
                          IF p[1] = r THEN Append(TextOf(heard, r), p[2]) ELSE TextOf(heard, r)
  BY <1>1, TextGrows
<1>5. heard' \in Seq(On(E))
  <2>. DEFINE F == On(E)
  <2>1. heard \in Seq(F) /\ p \in F
    BY <1>1
  <2>. HIDE DEF F
  <2>2. Append(heard, p) \in Seq(F)
    BY <2>1
  <2>. QED
    BY <2>2, <1>3 DEF F
<1>6. \A r \in Stream : TextOf(heard, r)' = IF r = s THEN Append(q, line) ELSE TextOf(heard, r)
  BY <1>1, <1>3, <1>4 DEF q
<1>7. LinesHeard(s)' = Without(Append(q, line), <<>>)
  BY <1>6 DEF LinesHeard
<1>8. Without(Append(q, line), <<>>) = IF line = <<>> THEN l ELSE Append(l, line)
  BY <1>1, <1>2, <1>3, WithoutGrows
<1>9. (IF line = <<>> THEN l ELSE Append(l, line)) = l \o Kept(line)
  <2>1. l \o <<>> = l /\ Append(l, line) = l \o <<line>>
    BY <1>1, <1>2, ConcatEmptySeq, AppendIsConcat
  <2>. QED
    BY <2>1 DEF Kept
<1>. QED
  BY <1>5, <1>6, <1>7, <1>8, <1>9 DEF E, l

\* Joining is associative.
LEMMA JoinedTwice ==
  ASSUME NEW E, NEW a, NEW b, NEW c, a \in Seq(E) /\ b \in Seq(E) /\ c \in Seq(E)
  PROVE  (a \o b) \o c = a \o (b \o c) /\ a \o b \in Seq(E) /\ b \o c \in Seq(E)
BY SMTT(30), ConcatAssociative, ConcatProperties

AreTexts(a, x, y, z, t) ==
    a \in Seq(Char) /\ x \in Seq(Char) /\ y \in Seq(Char) /\ z \in Seq(Char) /\ t \in Seq(Char)

\* The same for the five parts of a text in CallbackReturns.
LEMMA Rejoined ==
  ASSUME NEW a, NEW x, NEW y, NEW z, NEW t, AreTexts(a, x, y, z, t)
  PROVE  /\ a \o ((x \o (y \o z)) \o t) = ((a \o x) \o y) \o (z \o t)
         /\ a \o x \in Seq(Char) /\ (a \o x) \o y \in Seq(Char)
<1>. DEFINE b == y \o z
            w == z \o t
            v == y \o w
            d == a \o x
<1>1. y \in Seq(Char) /\ z \in Seq(Char) /\ t \in Seq(Char)
  BY DEF AreTexts
<1>2. b \o t = y \o w /\ b \in Seq(Char) /\ w \in Seq(Char)
  BY <1>1, JoinedTwice
<1>. HIDE DEF b, w
<1>3. y \in Seq(Char) /\ w \in Seq(Char) /\ a \in Seq(Char) /\ x \in Seq(Char)
  BY <1>2 DEF AreTexts
<1>4. v \in Seq(Char)
  BY <1>3, ConcatProperties
<1>5. d \in Seq(Char)
  BY <1>3, ConcatProperties
<1>. HIDE DEF v
<1>6. d \o v = a \o (x \o v)
  BY SMTT(30), <1>3, <1>4, JoinedTwice
<1>. HIDE DEF d
<1>7. (d \o y) \o w = d \o v /\ d \o y \in Seq(Char)
  BY SMTT(30), <1>3, <1>5, JoinedTwice DEF v
<1>8. (x \o b) \o t = x \o (b \o t)
  <2>1. x \in Seq(Char) /\ b \in Seq(Char) /\ t \in Seq(Char)
    BY <1>1, <1>2, <1>3
  <2>. QED
    BY <2>1, JoinedTwice
<1>9. a \o ((x \o b) \o t) = (d \o y) \o w
  BY <1>2, <1>6, <1>7, <1>8 DEF v
<1>. QED
  BY <1>5, <1>7, <1>9 DEF b, w, d

\* The line up to the newline has been heard, the newlines are dropped.
LEMMA InvCallbackReturns == ASSUME NEW s \in Stream PROVE ReaderInv /\ CallbackReturns(s) => ReaderInv'
<1>. SUFFICES ASSUME ReaderInv, CallbackReturns(s) PROVE ReaderInv'
  OBVIOUS
<1>. DEFINE line == line_buf[s]
            full == FullLine(s)
<1>1. ReaderTypes /\ (exited => todo = <<>>) /\ \A r \in Stream : ThreadOK(r) /\ StreamOK(r)
  BY DEF ReaderInv
<1>2. /\ caller = "running" /\ lock = s /\ lock' = NoThread
      /\ heard' = Append(heard, <<s, full>>)
      /\ line_buf' = [line_buf EXCEPT ![s] = <<>>]
      /\ UNCHANGED <<call, tool, todo, exited, caller, pipe, got_newline, screen>>
  BY DEF CallbackReturns, ReaderStep, toolVars
<1>3. /\ pc \in [Stream -> {"none", "read", "split", "leftover", "print", "done"}]
      /\ str \in [Stream -> Seq(Char)] /\ line_buf \in [Stream -> Seq(Char)]
      /\ line \in Seq(Char) /\ <<>> \in Seq(Char)
  BY <1>1 DEF ReaderTypes
<1>4. ThreadOK(s) /\ StreamOK(s) /\ call = "run_cmd_read_lines" /\ call # "run_cmd"
  BY <1>1, <1>2 DEF ThreadOK
<1>5. /\ line_buf'[s] = <<>> /\ Plain(<<>>) /\ lock' # s
      /\ line_buf' \in [Stream -> Seq(Char)]
  BY <1>2, <1>3, ReaderAssumption DEF Plain
<1>6. PICK text \in Seq(Char) : DealtWith(s, text)
  BY <1>4 DEF StreamOK
<1>7. /\ pc[s] # "done" /\ Cut(text, LinesHeard(s), line) /\ TextOf(tool, s) = text \o Rest(s)
      /\ LinesHeard(s) \in Seq(Seq(Char))
  <2>1. pc[s] # "done"
    BY <1>2, <1>4 DEF ThreadOK
  <2>. QED
    BY <1>4, <1>6, <2>1 DEF DealtWith, Cut
<1>8. TextOf(tool, s)' = TextOf(tool, s)
  BY <1>2
<1>9. CASE pc[s] = "leftover"
  <2>1. pc' = [pc EXCEPT ![s] = "done"] /\ str' = str
    BY <1>9 DEF CallbackReturns
  <2>2. full = line
    BY <1>3, <1>9, ConcatEmptySeq DEF FullLine
  <2>. HIDE DEF full, line
  <2>3. /\ heard' \in Seq(On(Seq(Char))) /\ LinesHeard(s)' = LinesHeard(s) \o Kept(line)
        /\ \A r \in Stream : r # s => TextOf(heard, r)' = TextOf(heard, r)
    BY <1>1, <1>2, <1>3, <2>2, Hears
  <2>4. ReaderTypes'
    BY <1>1, <1>2, <1>3, <1>5, <2>1, <2>3 DEF ReaderTypes
  <2>5. pc'[s] = "done" /\ str[s] = <<>> /\ str'[s] = str[s]
    BY <1>3, <1>4, <1>9, <2>1 DEF ThreadOK
  <2>6. ThreadOK(s)'
    BY <1>2, <1>4, <1>5, <1>9, <2>5 DEF ThreadOK
  <2>7. StreamOK(s)'
    <3>1. LinesOf(text) = LinesHeard(s)'
      BY <1>7, <2>3 DEF Cut
    <3>2. Rest(s)' = Rest(s)
      BY <1>2, <2>1 DEF Rest
    <3>3. DealtWith(s, text)'
      BY <1>2, <1>4, <1>7, <1>8, <2>5, <3>1, <3>2 DEF DealtWith
    <3>. QED
      BY <3>3 DEF StreamOK
  <2>8. ASSUME NEW r \in Stream, r # s PROVE ThreadOK(r)' /\ StreamOK(r)'
    <3>1. pc[r]' = pc[r] /\ str[r]' = str[r] /\ line_buf[r]' = line_buf[r]
      BY <1>2, <1>3, <2>1, <2>8
    <3>2. lock' = r => lock = r
      BY <1>2, ReaderAssumption
    <3>3. TextOf(heard, r)' = TextOf(heard, r) /\ TextOf(screen, r)' = TextOf(screen, r)
      BY <1>2, <2>3, <2>8
    <3>. QED
      BY <1>1, <1>2, <3>1, <3>2, <3>3, OtherStream
  <2>. QED
    BY <1>1, <1>2, <2>4, <2>6, <2>7, <2>8 DEF ReaderInv
<1>10. CASE pc[s] # "leftover"
  <2>. DEFINE q == str[s]
              m == LineEnd(q) - 1
              x == FirstN(q, m)
              z == SkipNewLines(Drop(q, m))
              t == pipe[s] \o TextOf(todo, s)
  <2>1. pc[s] = "split" /\ LineEnd(q) <= Len(q) /\ q \in Seq(Char)
    BY <1>2, <1>3, <1>4, <1>10 DEF ThreadOK
  <2>2. /\ str' = [str EXCEPT ![s] = z]
        /\ pc' = [pc EXCEPT ![s] = IF str'[s] = <<>> THEN "read" ELSE "split"]
    BY <1>3, <1>10 DEF CallbackReturns
  <2>3. full = line \o x
    BY <1>10 DEF FullLine
  <2>4. /\ x \in Seq(Char) /\ Plain(x) /\ z \in Seq(Char) /\ Len(z) <= Len(q)
        /\ \E y \in Seq(Char) : y # <<>> /\ OnlyNew(y) /\ q = x \o (y \o z)
    BY <2>1, ChunkParts
  <2>5. PICK y \in Seq(Char) : y # <<>> /\ OnlyNew(y) /\ q = x \o (y \o z)
    BY <2>4
  <2>6. t \in Seq(Char)
    BY <1>1, TextsTyped
  <2>7. Rest(s) = q \o t
    BY DEF Rest
  <2>. HIDE DEF x, z
  <2>8. Rest(s)' = z \o t
    BY <1>2, <1>3, <2>2 DEF Rest
  <2>9. Len(z) <= ReadSize
    <3>1. Len(q) <= ReadSize
      BY <1>4 DEF ThreadOK
    <3>2. Len(q) \in Nat /\ Len(z) \in Nat /\ ReadSize \in Nat
      BY <2>1, <2>4, ReaderAssumption
    <3>. HIDE DEF q
    <3>. QED
      BY <2>4, <3>1, <3>2
  <2>. HIDE DEF full, line, q, t
  <2>10. full \in Seq(Char)
    BY <1>3, <2>3, <2>4, ConcatProperties
  <2>11. /\ heard' \in Seq(On(Seq(Char))) /\ LinesHeard(s)' = LinesHeard(s) \o Kept(full)
         /\ \A r \in Stream : r # s => TextOf(heard, r)' = TextOf(heard, r)
    BY <1>1, <1>2, <2>10, Hears
  <2>12. /\ str'[s] = z /\ pc'[s] = (IF z = <<>> THEN "read" ELSE "split")
         /\ pc' = [pc EXCEPT ![s] = IF z = <<>> THEN "read" ELSE "split"]
    BY <1>3, <2>2
  <2>13. ReaderTypes'
    BY <1>1, <1>2, <1>3, <1>5, <2>2, <2>4, <2>11, <2>12 DEF ReaderTypes
  <2>14. ThreadOK(s)'
    BY <1>2, <1>4, <1>5, <2>9, <2>12 DEF ThreadOK
  <2>15. PICK d \in Seq(Char) : d = (text \o x) \o y /\ TextOf(tool, s) = d \o (z \o t)
    <3>1. /\ text \o ((x \o (y \o z)) \o t) = ((text \o x) \o y) \o (z \o t)
          /\ (text \o x) \o y \in Seq(Char)
      <4>1. AreTexts(text, x, y, z, t)
        BY <2>4, <2>6 DEF AreTexts
      <4>2. AreTexts(text, x, y, z, t) =>
              /\ text \o ((x \o (y \o z)) \o t) = ((text \o x) \o y) \o (z \o t)
              /\ text \o x \in Seq(Char) /\ (text \o x) \o y \in Seq(Char)
        BY Rejoined, Zenon
      <4>. QED
        BY <4>1, <4>2, Zenon
    <3>. QED
      BY <1>7, <2>5, <2>7, <3>1
  <2>16. Cut(d, LinesHeard(s) \o Kept(full), <<>>)
    <3>1. Cut(text \o x, LinesHeard(s), line \o x)
      BY <1>7, <2>4, CutPlain
    <3>2. Cut((text \o x) \o y, LinesHeard(s) \o Kept(line \o x), <<>>)
      BY <2>5, <3>1, CutNew
    <3>. QED
      BY <2>3, <2>15, <3>2
  <2>17. StreamOK(s)'
    <3>1. Cut(d, LinesHeard(s)', line_buf'[s])
      BY <1>5, <2>11, <2>16
    <3>2. DealtWith(s, d)'
      BY <1>2, <1>4, <1>8, <2>8, <2>12, <2>15, <3>1 DEF DealtWith
    <3>. QED
      BY <3>2 DEF StreamOK
  <2>18. ASSUME NEW r \in Stream, r # s PROVE ThreadOK(r)' /\ StreamOK(r)'
    <3>1. pc[r]' = pc[r] /\ str[r]' = str[r] /\ line_buf[r]' = line_buf[r]
      BY <1>2, <1>3, <2>2, <2>18
    <3>2. lock' = r => lock = r
      BY <1>2, ReaderAssumption
    <3>3. TextOf(heard, r)' = TextOf(heard, r) /\ TextOf(screen, r)' = TextOf(screen, r)
      BY <1>2, <2>11, <2>18
    <3>. QED
      BY <1>1, <1>2, <3>1, <3>2, <3>3, OtherStream
  <2>. QED
    BY <1>1, <1>2, <2>13, <2>14, <2>17, <2>18 DEF ReaderInv
<1>. QED
  BY <1>9, <1>10

\* A chunk is shown, with its prompts.
LEMMA InvPrintChunk == ASSUME NEW s \in Stream PROVE ReaderInv /\ PrintChunk(s) => ReaderInv'
<1>. SUFFICES ASSUME ReaderInv, PrintChunk(s) PROVE ReaderInv'
  OBVIOUS
<1>. DEFINE q == str[s]
            ends == Last(q) \in NewLines
            new == screen \o Shown(s)
<1>1. ReaderTypes /\ (exited => todo = <<>>) /\ \A r \in Stream : ThreadOK(r) /\ StreamOK(r)
  BY DEF ReaderInv
<1>2. /\ caller = "running" /\ pc[s] = "print" /\ lock = NoThread
      /\ screen' = new
      /\ got_newline' = [got_newline EXCEPT ![s] = ends]
      /\ str' = [str EXCEPT ![s] = <<>>]
      /\ pc' = [pc EXCEPT ![s] = "read"]
      /\ UNCHANGED <<call, tool, todo, exited, caller, pipe, line_buf, lock, heard>>
  BY DEF PrintChunk, ReaderStep, toolVars
<1>3. /\ pc \in [Stream -> {"none", "read", "split", "leftover", "print", "done"}]
      /\ str \in [Stream -> Seq(Char)] /\ got_newline \in [Stream -> BOOLEAN]
      /\ q \in Seq(Char) /\ <<>> \in Seq(Char) /\ screen \in Seq(OnScreen)
  BY <1>1 DEF ReaderTypes
<1>4. ThreadOK(s) /\ StreamOK(s) /\ call = "run_cmd" /\ q # <<>> /\ lock # s /\ call # "run_cmd_read_lines"
  <2>1. ThreadOK(s) /\ StreamOK(s)
    BY <1>1
  <2>2. call = "run_cmd" /\ q # <<>>
    BY <1>2, <2>1 DEF ThreadOK
  <2>. QED
    BY <1>2, <2>1, <2>2, ReaderAssumption
<1>5. PICK text \in Seq(Char) : DealtWith(s, text)
  BY <1>4 DEF StreamOK
<1>6. /\ Prompted(TextOf(screen, s), text) /\ (got_newline[s] <=> EndsLine(TextOf(screen, s)))
      /\ TextOf(tool, s) = text \o Rest(s)
  BY <1>4, <1>5 DEF DealtWith
<1>7. ShownTo(s, screen, new, text \o q, Last(q))
  BY <1>3, <1>4, <1>6, ChunkShown
<1>8. /\ new \in Seq(OnScreen) /\ Prompted(TextOf(new, s), text \o q)
      /\ EndsLine(TextOf(new, s)) <=> ends
      /\ \A r \in Stream : r # s => TextOf(new, r) = TextOf(screen, r)
  BY <1>7 DEF ShownTo
<1>. HIDE DEF new
<1>9. pc'[s] = "read" /\ str'[s] = <<>> /\ (got_newline'[s] <=> ends) /\ Len(<<>>) <= ReadSize
  <2>1. pc'[s] = "read" /\ str'[s] = <<>> /\ Len(<<>>) <= ReadSize
    BY <1>2, <1>3, ReaderAssumption
  <2>2. s \in DOMAIN got_newline /\ got_newline' = [got_newline EXCEPT ![s] = ends]
    BY <1>2, <1>3
  <2>. HIDE DEF ends
  <2>3. got_newline'[s] = ends
    BY <2>2, Zenon
  <2>. QED
    BY <2>1, <2>3
<1>10. ReaderTypes'
  BY <1>1, <1>2, <1>3, <1>8 DEF ReaderTypes
<1>11. ThreadOK(s)'
  BY <1>2, <1>4, <1>9 DEF ThreadOK
<1>12. StreamOK(s)'
  <2>. DEFINE t == pipe[s] \o TextOf(todo, s)
  <2>1. t \in Seq(Char)
    BY <1>1, TextsTyped
  <2>2. Rest(s) = q \o t
    BY DEF Rest
  <2>3. Rest(s)' = <<>> \o t
    BY <1>2, <1>9 DEF Rest
  <2>. HIDE DEF t, q
  <2>4. text \in Seq(Char) /\ q \in Seq(Char)
    BY <1>3
  <2>5. (text \o q) \o t = text \o (q \o t)
    BY SMTT(30), <2>1, <2>4, ConcatAssociative
  <2>6. <<>> \o t = t /\ text \o q \in Seq(Char)
    BY <2>1, <2>4, ConcatEmptySeq, ConcatProperties
  <2>7. PICK d \in Seq(Char) : d = text \o q /\ TextOf(tool, s) = d \o Rest(s)'
    BY <1>6, <2>2, <2>3, <2>5, <2>6
  <2>8. TextOf(tool, s)' = TextOf(tool, s) /\ TextOf(screen, s)' = TextOf(new, s)
    BY <1>2
  <2>9. DealtWith(s, d)'
    BY <1>2, <1>4, <1>8, <1>9, <2>7, <2>8 DEF DealtWith
  <2>. QED
    BY <2>9 DEF StreamOK
<1>13. ASSUME NEW r \in Stream, r # s PROVE ThreadOK(r)' /\ StreamOK(r)'
  <2>1. pc[r]' = pc[r] /\ str[r]' = str[r] /\ got_newline[r]' = got_newline[r]
    BY <1>2, <1>3, <1>13
  <2>2. TextOf(heard, r)' = TextOf(heard, r) /\ TextOf(screen, r)' = TextOf(screen, r)
    BY <1>2, <1>8, <1>13
  <2>. QED
    BY <1>1, <1>2, <2>1, <2>2, OtherStream
<1>. QED
  BY <1>1, <1>2, <1>10, <1>11, <1>12, <1>13 DEF ReaderInv

\* A stutter keeps the invariant.
LEMMA InvStutters == ReaderInv /\ UNCHANGED vars => ReaderInv'
<1>. SUFFICES ASSUME ReaderInv, UNCHANGED vars PROVE ReaderInv'
  OBVIOUS
<1>1. ReaderTypes /\ (exited => todo = <<>>) /\ \A r \in Stream : ThreadOK(r) /\ StreamOK(r)
  BY DEF ReaderInv
<1>2. UNCHANGED <<call, tool, todo, exited, caller, pipe, pc, str, line_buf, got_newline, lock, heard, screen>>
  BY DEF vars, toolVars
<1>3. ReaderTypes'
  BY <1>1, <1>2 DEF ReaderTypes
<1>4. ASSUME NEW r \in Stream PROVE ThreadOK(r)' /\ StreamOK(r)'
  <2>1. TextOf(heard, r)' = TextOf(heard, r) /\ TextOf(screen, r)' = TextOf(screen, r)
    BY <1>2
  <2>. QED
    BY <1>1, <1>2, <2>1, OtherStream
<1>. QED
  BY <1>1, <1>2, <1>3, <1>4 DEF ReaderInv

\* Every step keeps the invariant.
LEMMA InvNext == ReaderInv /\ [Next]_vars => ReaderInv'
<1>. SUFFICES ASSUME ReaderInv, [Next]_vars PROVE ReaderInv'
  OBVIOUS
<1>1. CASE ToolPrints
  BY <1>1, InvToolPrints
<1>2. CASE ToolExits \/ Start \/ Return
  BY <1>2, InvOthers
<1>3. ASSUME NEW s \in Stream, Reader(s) PROVE ReaderInv'
  <2>1. CASE Read(s)
    BY <2>1, InvRead
  <2>2. CASE EndOfStream(s)
    BY <2>2, InvEndOfStream
  <2>3. CASE NoNewLine(s)
    BY <2>3, InvNoNewLine
  <2>4. CASE CallBack(s) \/ CallbackThrows(s)
    BY <2>4, InvCallBack
  <2>5. CASE CallbackReturns(s)
    BY <2>5, InvCallbackReturns
  <2>6. CASE PrintChunk(s)
    BY <2>6, InvPrintChunk
  <2>. QED
    BY <1>3, <2>1, <2>2, <2>3, <2>4, <2>5, <2>6 DEF Reader
<1>4. CASE UNCHANGED vars
  BY <1>4, InvStutters
<1>. QED
  BY <1>1, <1>2, <1>3, <1>4 DEF Next

-----------------------------------------------------------------------------
(* The theorems *)

\* The inductive invariant: every stream's text is what was dealt with, then the
\* chunk, the pipe and what the tool has yet to print (run_cmd_read_lines, run_cmd).
THEOREM ReaderInvariant == Spec => []ReaderInv
<1>. QED
  BY InvInit, InvNext, PTL DEF Spec

\* A text starts with each of its first parts.
LEMMA FirstOf ==
  ASSUME NEW E, NEW a \in Seq(E), NEW b \in Seq(E)
  PROVE  IsPrefix(a, a \o b)
<1>1. Len(a) \in Nat /\ Len(b) \in Nat /\ a \o b \in Seq(E) /\ Len(a \o b) = Len(a) + Len(b)
  OBVIOUS
<1>2. SubSeq(a, 1, Len(a)) = a
  OBVIOUS
<1>3. SubSeq(a \o b, 1, Len(a)) = a
  OBVIOUS
<1>. QED
  BY <1>1, <1>2, <1>3 DEF IsPrefix

\* The types, the bounds of the pipes and of a read, no newline in line_buf, and
\* one callback at a time, by a thread with a line to call back.
THEOREM ReaderTypeOK == Spec => []TypeOK
<1>1. ReaderInv => TypeOK
  <2>. SUFFICES ASSUME ReaderInv PROVE TypeOK
    OBVIOUS
  <2>1. ReaderTypes /\ \A s \in Stream : ThreadOK(s)
    BY DEF ReaderInv
  <2>2. lock # NoThread => lock \in Stream /\ pc[lock] \in {"split", "leftover"}
    BY <2>1 DEF ReaderTypes, ThreadOK
  <2>3. \A s \in Stream : pc[s] \in {"none", "read", "split", "leftover", "print", "done"}
    BY <2>1 DEF ReaderTypes
  <2>4. \A s \in Stream : /\ Len(pipe[s]) <= PipeSize /\ Len(str[s]) <= ReadSize
                          /\ \A k \in 1 .. Len(line_buf[s]) : line_buf[s][k] \notin NewLines
    BY <2>1 DEF ThreadOK, Plain
  <2>. QED
    BY <2>1, <2>2, <2>3, <2>4 DEF TypeOK, ReaderTypes
<1>. QED
  BY <1>1, ReaderInvariant, PTL

\* run_cmd_read_lines calls back for each line of a stream once and whole, in
\* its order, and for all of them before it returns.
THEOREM LinesHeardOnce == Spec => []LinesAreHeard
<1>1. ReaderInv => LinesAreHeard
  <2>. SUFFICES ASSUME ReaderInv, call = "run_cmd_read_lines", NEW s \in Stream
                PROVE  /\ IsPrefix(LinesHeard(s), LinesOf(TextOf(tool, s)))
                       /\ caller = "returned" => LinesHeard(s) = LinesOf(TextOf(tool, s))
    BY DEF LinesAreHeard
  <2>1. ReaderTypes /\ (exited => todo = <<>>) /\ ThreadOK(s) /\ StreamOK(s)
    BY DEF ReaderInv
  <2>2. PICK text \in Seq(Char) : DealtWith(s, text)
    BY <2>1 DEF StreamOK
  <2>3. /\ TextOf(tool, s) = text \o Rest(s) /\ Rest(s) \in Seq(Char) /\ TextOf(tool, s) \in Seq(Char)
        /\ LinesHeard(s) \in Seq(Seq(Char)) /\ LinesOf(TextOf(tool, s)) \in Seq(Seq(Char))
    BY <2>1, <2>2, TextsTyped, LinesTyped DEF DealtWith
  <2>4. CASE pc[s] # "done"
    <3>1. Cut(text, LinesHeard(s), line_buf[s])
      BY <2>2, <2>4 DEF DealtWith
    <3>2. PICK more \in Seq(Seq(Char)) : LinesOf(TextOf(tool, s)) = LinesHeard(s) \o more
      <4>. DEFINE r == Rest(s)
                  l == LinesHeard(s)
                  line == line_buf[s]
      <4>1. r \in Seq(Char) /\ Cut(text, l, line)
        BY <2>3, <3>1
      <4>. HIDE DEF r, l, line
      <4>2. \E more \in Seq(Seq(Char)) : LinesOf(text \o r) = l \o more
        BY <4>1, LinesStay
      <4>. QED
        BY <2>3, <4>2 DEF r, l
    <3>3. IsPrefix(LinesHeard(s), LinesOf(TextOf(tool, s)))
      BY <2>3, <3>2, FirstOf
    <3>. QED
      BY <2>1, <2>4, <3>3 DEF ThreadOK
  <2>5. CASE pc[s] = "done"
    <3>1. str[s] = <<>> /\ pipe[s] = <<>> /\ todo = <<>>
      BY <2>1, <2>5 DEF ThreadOK
    <3>2. Rest(s) = <<>>
      <4>1. TextOf(todo, s) = <<>> /\ <<>> \in Seq(Char)
        BY <3>1, NoText
      <4>2. <<>> \o <<>> = <<>>
        BY <4>1, ConcatEmptySeq
      <4>. QED
        BY <3>1, <4>1, <4>2 DEF Rest
    <3>3. TextOf(tool, s) = text
      BY <2>3, <3>2, ConcatEmptySeq
    <3>4. LinesHeard(s) = LinesOf(TextOf(tool, s))
      BY <2>2, <2>5, <3>3 DEF DealtWith
    <3>5. LinesHeard(s) \o <<>> = LinesHeard(s) /\ <<>> \in Seq(Seq(Char))
      BY <2>3, ConcatEmptySeq
    <3>6. IsPrefix(LinesHeard(s), LinesHeard(s))
      BY <2>3, <3>5, FirstOf
    <3>. QED
      BY <3>4, <3>6
  <2>. QED
    BY <2>4, <2>5
<1>. QED
  BY <1>1, ReaderInvariant, PTL

\* run_cmd shows the text of a stream, all of it before it returns, with a prompt
\* at the start of each line and nowhere else.
THEOREM ScreenIsText == Spec => []ScreenShowsText
<1>1. ReaderInv => ScreenShowsText
  <2>. DEFINE shown(s)   == TextOf(screen, s)
              text(s)    == Without(shown(s), Prompt)
              prompts(s) == {k \in 1 .. Len(shown(s)) : shown(s)[k] = Prompt}
  <2>. SUFFICES ASSUME ReaderInv, call = "run_cmd", NEW s \in Stream
                PROVE  /\ IsPrefix(text(s), TextOf(tool, s))
                       /\ caller = "returned" => text(s) = TextOf(tool, s)
                       /\ \A k \in prompts(s) : k = 1 \/ shown(s)[k - 1] \in NewLines
                       /\ \A k \in 1 .. Len(shown(s)) : shown(s)[k] \notin NewLines \cup {Prompt} =>
                            k # 1 /\ shown(s)[k - 1] \notin NewLines
    BY DEF ScreenShowsText
  <2>1. ReaderTypes /\ (exited => todo = <<>>) /\ ThreadOK(s) /\ StreamOK(s)
    BY DEF ReaderInv
  <2>2. PICK d \in Seq(Char) : DealtWith(s, d)
    BY <2>1 DEF StreamOK
  <2>3. /\ TextOf(tool, s) = d \o Rest(s) /\ Rest(s) \in Seq(Char)
        /\ text(s) = d /\ \A k \in 1 .. Len(shown(s)) : Fits(shown(s), k)
    <3>1. Prompted(shown(s), d) /\ TextOf(tool, s) = d \o Rest(s)
      BY <2>2 DEF DealtWith
    <3>2. Rest(s) \in Seq(Char)
      BY <2>1, TextsTyped
    <3>. QED
      BY <3>1, <3>2 DEF Prompted
  <2>4. caller = "returned" => d = TextOf(tool, s)
    <3>. SUFFICES ASSUME caller = "returned" PROVE d = TextOf(tool, s)
      OBVIOUS
    <3>1. str[s] = <<>> /\ pipe[s] = <<>> /\ todo = <<>>
      BY <2>1 DEF ThreadOK
    <3>2. Rest(s) = <<>>
      <4>1. TextOf(todo, s) = <<>> /\ <<>> \in Seq(Char)
        BY <3>1, NoText
      <4>2. <<>> \o <<>> = <<>>
        BY <4>1, ConcatEmptySeq
      <4>. QED
        BY <3>1, <4>1, <4>2 DEF Rest
    <3>. QED
      BY <2>3, <3>2, ConcatEmptySeq
  <2>5. IsPrefix(d, TextOf(tool, s))
    BY <2>3, FirstOf
  <2>. HIDE DEF shown
  <2>6. \A k \in prompts(s) : k = 1 \/ shown(s)[k - 1] \in NewLines
    BY <2>3 DEF Fits
  <2>7. \A k \in 1 .. Len(shown(s)) : shown(s)[k] \notin NewLines \cup {Prompt} =>
          k # 1 /\ shown(s)[k - 1] \notin NewLines
    BY <2>3 DEF Fits
  <2>. QED
    BY <2>3, <2>4, <2>5, <2>6, <2>7
<1>. QED
  BY <1>1, ReaderInvariant, PTL

=============================================================================
