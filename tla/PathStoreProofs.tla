-------------------------- MODULE PathStoreProofs --------------------------
(***************************************************************************)
(* That the store of paths keeps every file it has been given, once, under *)
(* one id: while it grows, when it is saved and when it is read back, for  *)
(* all chunk sizes and any paths; and what normalizing a path yields.      *)
(***************************************************************************)
EXTENDS PathStore, FiniteSetTheorems, TLAPS

-----------------------------------------------------------------------------
(* Recursion on numbers *)

\* Induction, as a statement about sets of numbers.
LEMMA Induction ==
  ASSUME NEW S \in SUBSET Nat, 0 \in S, \A n \in S : n + 1 \in S
  PROVE  S = Nat
<1>. SUFFICES ASSUME Nat \ S # {} PROVE FALSE
  OBVIOUS
<1>1. PICK x \in Nat \ S : \A y \in Nat \ S : ~(<<y, x>> \in OpToRel(<, Nat))
  <2>. HIDE DEF OpToRel
  <2>1. Nat \ S \subseteq Nat
    OBVIOUS
  <2>. QED
    BY <2>1, WFMin, NatLessThanWellFounded, Zenon
<1>2. \A y \in Nat : y < x => <<y, x>> \in OpToRel(<, Nat)
  BY DEF OpToRel
<1>3. x # 0 /\ x - 1 \in Nat /\ x - 1 < x /\ x = (x - 1) + 1
  OBVIOUS
<1>. QED
  BY <1>1, <1>2, <1>3

\* f starts from base, and step k takes its value at k - 1 to that at k.
Recursive(f, n, V, base, step) ==
    /\ f \in [0 .. n -> V]
    /\ f[0] = base
    /\ \A k \in 1 .. n : f[k] = step[k][f[k - 1]]

\* A function that is defined so exists.
LEMMA Recursion ==
  ASSUME NEW n \in Nat, NEW V, NEW base \in V, NEW step \in [1 .. n -> [V -> V]]
  PROVE  \E f : Recursive(f, n, V, base, step)
<1>. DEFINE Good(m, f) == f[0] = base /\ \A k \in 1 .. n : k <= m => f[k] = step[k][f[k - 1]]
            S == {m \in Nat : m <= n => \E f \in [0 .. n -> V] : Good(m, f)}
<1>1. 0 \in S
  <2>1. Good(0, [k \in 0 .. n |-> base])
    OBVIOUS
  <2>. QED
    BY <2>1
<1>2. ASSUME NEW m \in S PROVE m + 1 \in S
  <2>. SUFFICES ASSUME m + 1 <= n PROVE \E f \in [0 .. n -> V] : Good(m + 1, f)
    OBVIOUS
  <2>1. PICK f \in [0 .. n -> V] : Good(m, f)
    OBVIOUS
  <2>. DEFINE v == step[m + 1][f[m]]
              g == [f EXCEPT ![m + 1] = v]
  <2>2. v \in V
    <3>1. m + 1 \in 1 .. n /\ f[m] \in V
      OBVIOUS
    <3>. QED
      BY <3>1
  <2>3. g \in [0 .. n -> V] /\ g[m + 1] = v /\ \A k \in 0 .. n : k # m + 1 => g[k] = f[k]
    BY <2>2
  <2>. HIDE DEF g, v
  <2>4. ASSUME NEW k \in 1 .. n, k <= m + 1 PROVE g[k] = step[k][g[k - 1]]
    <3>1. k - 1 \in 0 .. n /\ k - 1 # m + 1 /\ k \in 0 .. n
      BY <2>4
    <3>2. g[k - 1] = f[k - 1]
      BY <2>3, <3>1
    <3>3. CASE k = m + 1
      BY <2>3, <3>2, <3>3 DEF v
    <3>4. CASE k # m + 1
      <4>1. g[k] = f[k] /\ k <= m
        BY <2>3, <2>4, <3>1, <3>4
      <4>. QED
        BY <2>1, <3>2, <4>1
    <3>. QED
      BY <3>3, <3>4
  <2>5. g[0] = base
    BY <2>1, <2>3
  <2>. QED
    BY <2>3, <2>4, <2>5
<1>3. S = Nat
  <2>1. S \in SUBSET Nat
    OBVIOUS
  <2>. HIDE DEF S
  <2>. QED
    BY <1>1, <1>2, <2>1, Induction
<1>4. n \in S
  BY <1>3
<1>. QED
  BY <1>4 DEF Recursive

-----------------------------------------------------------------------------
(* Walking along a path *)

\* What paths are made of.
Component == STRING \cup {Root, Unwritten}

\* Root, Unwritten and Parent are none of the directories.
LEMMA Components ==
  /\ Root \in Component /\ Unwritten \in Component /\ STRING \subseteq Component
  /\ <<Root>> \in Seq(Component) /\ Len(<<Root>>) = 1 /\ <<Root>>[1] = Root
  /\ ~IsDir(Root) /\ ~IsDir(Parent) /\ Root # Parent
<1>1. Root \in Component /\ Unwritten \in Component /\ STRING \subseteq Component
  BY DEF Component
<1>2. ~IsDir(Root) /\ ~IsDir(Parent) /\ Root # Parent
  BY DEF IsDir, Root, Parent
<1>3. \A c \in Component : <<c>> \in Seq(Component) /\ Len(<<c>>) = 1 /\ <<c>>[1] = c
  OBVIOUS
<1>. QED
  BY <1>1, <1>3, <1>2, Zenon

\* A path is made of components.
LEMMA ComponentPaths ==
  ASSUME NEW p \in Seq(STRING) PROVE p \in Seq(Component)
<1>1. p \in [1 .. Len(p) -> STRING] /\ Len(p) \in Nat
  OBVIOUS
<1>2. p \in [1 .. Len(p) -> Component]
  BY <1>1, Components
<1>. QED
  BY <1>1, <1>2

\* out[k] is what normalize has built from the first k components of full.
Walk(full, out) ==
    /\ out \in [0 .. Len(full) -> Seq(Component)]
    /\ out[0] = <<Root>>
    /\ \A k \in 1 .. Len(full) : out[k] = Step(out[k - 1], full[k])

\* What Step does to a path.
LEMMA Stepped ==
  ASSUME NEW path \in Seq(Component), NEW c \in Component
  PROVE  /\ Step(path, c) \in Seq(Component)
         /\ IsDir(c) => Step(path, c) = Append(path, c)
         /\ c = Parent => Step(path, c) = SubSeq(path, 1, Len(path) - 1)
         /\ c # Parent /\ ~IsDir(c) => Step(path, c) = path
<1>1. IsDir(c) => Step(path, c) = Append(path, c)
  BY Components DEF Step
<1>2. c = Parent => Step(path, c) = SubSeq(path, 1, Len(path) - 1)
  BY Components DEF Step, Front
<1>3. c # Parent /\ ~IsDir(c) => Step(path, c) = path
  BY DEF Step
<1>4. Append(path, c) \in Seq(Component)
  OBVIOUS
<1>5. SubSeq(path, 1, Len(path) - 1) \in Seq(Component)
  OBVIOUS
<1>. QED
  BY <1>1, <1>2, <1>3, <1>4, <1>5

\* normalize walks along the path from where it starts.
LEMMA NormalizeWalks ==
  ASSUME NEW cwd \in Seq(Component), NEW p \in Seq(Component)
  PROVE  \E out : /\ out \in [0 .. Len(p) -> Seq(Component)]
                  /\ out[0] = Start(cwd, p)
                  /\ \A k \in 1 .. Len(p) : out[k] = Step(out[k - 1], p[k])
                  /\ Normalize(cwd, p) = out[Len(p)]
<1>. DEFINE n == Len(p)
            out[k \in 0 .. n] == IF k = 0 THEN Start(cwd, p) ELSE Step(out[k - 1], p[k])
            step == [k \in 1 .. n |-> [path \in Seq(Component) |-> Step(path, p[k])]]
<1>1. n \in Nat /\ \A k \in 1 .. n : p[k] \in Component
  OBVIOUS
<1>2. Start(cwd, p) \in Seq(Component)
  <2>1. <<Root>> \in Seq(Component)
    BY Components
  <2>. QED
    BY <2>1 DEF Start
<1>3. step \in [1 .. n -> [Seq(Component) -> Seq(Component)]]
  <2>1. ASSUME NEW k \in 1 .. n, NEW path \in Seq(Component) PROVE Step(path, p[k]) \in Seq(Component)
    BY <1>1, Stepped
  <2>. QED
    BY <2>1
<1>4. PICK f : Recursive(f, n, Seq(Component), Start(cwd, p), step)
  BY <1>1, <1>2, <1>3, Recursion
<1>5. \A k \in 1 .. n : k - 1 \in 0 .. n /\ f[k - 1] \in Seq(Component) /\ f[k] = Step(f[k - 1], p[k])
  <2>1. f \in [0 .. n -> Seq(Component)]
    BY <1>4 DEF Recursive
  <2>2. ASSUME NEW k \in 1 .. n
        PROVE  k - 1 \in 0 .. n /\ f[k - 1] \in Seq(Component) /\ f[k] = Step(f[k - 1], p[k])
    <3>1. k - 1 \in 0 .. n
      BY <1>1
    <3>2. f[k - 1] \in Seq(Component)
      BY <2>1, <3>1
    <3>3. f[k] = step[k][f[k - 1]]
      BY <1>4 DEF Recursive
    <3>. QED
      BY <3>1, <3>2, <3>3
  <2>. QED
    BY <2>2
<1>6. f = [k \in 0 .. n |-> IF k = 0 THEN Start(cwd, p) ELSE Step(f[k - 1], p[k])]
  <2>1. f \in [0 .. n -> Seq(Component)] /\ f[0] = Start(cwd, p)
    BY <1>4 DEF Recursive
  <2>. HIDE DEF step
  <2>2. \A k \in 0 .. n : f[k] = IF k = 0 THEN Start(cwd, p) ELSE Step(f[k - 1], p[k])
    <3>. SUFFICES ASSUME NEW k \in 0 .. n
                  PROVE  f[k] = IF k = 0 THEN Start(cwd, p) ELSE Step(f[k - 1], p[k])
      OBVIOUS
    <3>1. k # 0 => k \in 1 .. n
      BY <1>1
    <3>. QED
      BY <1>5, <2>1, <3>1
  <2>3. f = [k \in 0 .. n |-> f[k]]
    BY <2>1
  <2>. QED
    BY <2>2, <2>3, Zenon
<1>7. out = [k \in 0 .. n |-> IF k = 0 THEN Start(cwd, p) ELSE Step(out[k - 1], p[k])]
  BY <1>6
<1>8. Normalize(cwd, p) = out[n]
  BY DEF Normalize
<1>. HIDE DEF out
<1>. DEFINE S == {k \in Nat : k <= n => out[k] = f[k]}
<1>9. S = Nat
  <2>1. 0 \in S
    BY <1>1, <1>6, <1>7
  <2>2. ASSUME NEW k \in S PROVE k + 1 \in S
    <3>. SUFFICES ASSUME k + 1 <= n PROVE out[k + 1] = f[k + 1]
      BY DEF S
    <3>1. k + 1 \in 0 .. n /\ k + 1 # 0 /\ (k + 1) - 1 = k /\ out[k] = f[k]
      BY <1>1, <2>2
    <3>2. out[k + 1] = Step(out[k], p[k + 1])
      BY <1>7, <3>1, Zenon
    <3>3. f[k + 1] = Step(f[k], p[k + 1])
      BY <1>6, <3>1, Zenon
    <3>. QED
      BY <3>1, <3>2, <3>3
  <2>3. S \in SUBSET Nat
    OBVIOUS
  <2>. HIDE DEF S
  <2>. QED
    BY <2>1, <2>2, <2>3, Induction
<1>10. Normalize(cwd, p) = f[n]
  BY <1>1, <1>8, <1>9
<1>. QED
  BY <1>4, <1>5, <1>10 DEF Recursive

\* The depth after one more component.
LEMMA DepthStep ==
  ASSUME NEW full \in Seq(Component)
  PROVE  /\ Depth(full, 0) = 0
         /\ \A k \in Nat : Depth(full, k) \in Int
         /\ \A k \in Nat : Depth(full, k + 1) =
              Depth(full, k) + IF IsDir(full[k + 1]) THEN 1 ELSE IF full[k + 1] = Parent THEN -1 ELSE 0
<1>1. ASSUME NEW k \in Nat
      PROVE  /\ IsFiniteSet(Dirs(full, k)) /\ Cardinality(Dirs(full, k)) \in Nat
             /\ IsFiniteSet(Parents(full, k)) /\ Cardinality(Parents(full, k)) \in Nat
  <2>1. IsFiniteSet(1 .. k) /\ Dirs(full, k) \subseteq 1 .. k /\ Parents(full, k) \subseteq 1 .. k
    BY FS_Interval DEF Dirs, Parents
  <2>. QED
    BY <2>1, FS_Subset, FS_CardinalityType
<1>2. Depth(full, 0) = 0
  <2>1. Dirs(full, 0) = {} /\ Parents(full, 0) = {}
    BY DEF Dirs, Parents
  <2>2. Cardinality({}) = 0
    BY FS_EmptySet
  <2>. QED
    BY <2>1, <2>2 DEF Depth
<1>3. ASSUME NEW k \in Nat
      PROVE  Depth(full, k + 1) =
               Depth(full, k) + IF IsDir(full[k + 1]) THEN 1 ELSE IF full[k + 1] = Parent THEN -1 ELSE 0
  <2>1. 1 .. k + 1 = 1 .. k \cup {k + 1} /\ k + 1 \notin 1 .. k
    OBVIOUS
  <2>2. CASE IsDir(full[k + 1])
    <3>1. Dirs(full, k + 1) = Dirs(full, k) \cup {k + 1} /\ k + 1 \notin Dirs(full, k)
      BY <2>1, <2>2 DEF Dirs
    <3>2. Parents(full, k + 1) = Parents(full, k)
      BY <2>1, <2>2, Components DEF Parents
    <3>3. Cardinality(Dirs(full, k + 1)) = Cardinality(Dirs(full, k)) + 1
      BY <1>1, <3>1, FS_AddElement
    <3>. QED
      BY <1>1, <2>2, <3>2, <3>3 DEF Depth
  <2>3. CASE full[k + 1] = Parent
    <3>1. Parents(full, k + 1) = Parents(full, k) \cup {k + 1} /\ k + 1 \notin Parents(full, k)
      BY <2>1, <2>3 DEF Parents
    <3>2. Dirs(full, k + 1) = Dirs(full, k) /\ ~IsDir(full[k + 1])
      BY <2>1, <2>3, Components DEF Dirs
    <3>3. Cardinality(Parents(full, k + 1)) = Cardinality(Parents(full, k)) + 1
      BY <1>1, <3>1, FS_AddElement
    <3>. QED
      BY <1>1, <2>3, <3>2, <3>3 DEF Depth
  <2>4. CASE full[k + 1] # Parent /\ ~IsDir(full[k + 1])
    <3>1. Dirs(full, k + 1) = Dirs(full, k) /\ Parents(full, k + 1) = Parents(full, k)
      BY <2>1, <2>4 DEF Dirs, Parents
    <3>. QED
      BY <1>1, <2>4, <3>1 DEF Depth
  <2>. QED
    BY <2>2, <2>3, <2>4
<1>. QED
  BY <1>1, <1>2, <1>3 DEF Depth

\* The components of full that are still there after the first m.
Staying(full, m) ==
    {k \in 1 .. m : IsDir(full[k]) /\ \A l \in k + 1 .. m : Depth(full, l) >= Depth(full, k)}

\* full does not leave the root.
Descends(full) ==
    /\ full \in Seq(Component) /\ full # <<>> /\ full[1] = Root
    /\ \A k \in 0 .. Len(full) : Depth(full, k) \in Nat

\* What has been built is what stays.
Walked(full, path, m) ==
    /\ Len(path) = Depth(full, m) + 1 /\ path[1] = Root
    /\ Len(path) <= IF m = 0 THEN 1 ELSE m
    /\ \A d \in 1 .. Depth(full, m) :
          \E k \in Staying(full, m) : Depth(full, k) = d /\ path[d + 1] = full[k]

\* One more component: those that stay are those that the path has.
LEMMA WalkStep ==
  ASSUME NEW full, Descends(full), NEW m \in Nat, m < Len(full),
         NEW path \in Seq(Component), Walked(full, path, m)
  PROVE  Walked(full, Step(path, full[m + 1]), m + 1)
<1>. DEFINE c == full[m + 1]
            new == Step(path, c)
<1>1. /\ full \in Seq(Component) /\ Len(full) \in Nat /\ m + 1 \in 1 .. Len(full) /\ c \in Component
      /\ \A k \in 0 .. m + 1 : Depth(full, k) \in Nat
      /\ Len(path) = Depth(full, m) + 1 /\ path[1] = Root
  BY DEF Descends, Walked
<1>2. Depth(full, m + 1) = Depth(full, m) + IF IsDir(c) THEN 1 ELSE IF c = Parent THEN -1 ELSE 0
  BY <1>1, DepthStep
<1>3. Len(path) <= (IF m = 0 THEN 1 ELSE m) /\ (m = 0 => ~IsDir(c))
  BY Components DEF Walked, Descends
<1>4. \A d \in 1 .. Depth(full, m) : \E k \in Staying(full, m) : Depth(full, k) = d /\ path[d + 1] = full[k]
  BY DEF Walked
<1>5. ASSUME NEW k \in Staying(full, m), Depth(full, k) <= Depth(full, m + 1) PROVE k \in Staying(full, m + 1)
  <2>1. k \in 1 .. m /\ IsDir(full[k]) /\ \A l \in k + 1 .. m : Depth(full, l) >= Depth(full, k)
    BY DEF Staying
  <2>2. \A l \in k + 1 .. m + 1 : Depth(full, l) >= Depth(full, k)
    BY <1>1, <1>5, <2>1
  <2>. QED
    BY <2>1, <2>2 DEF Staying
<1>6. CASE IsDir(c)
  <2>1. new = Append(path, c) /\ Depth(full, m + 1) = Depth(full, m) + 1
    BY <1>1, <1>2, <1>6, Stepped
  <2>. HIDE DEF new
  <2>2. Len(new) = Depth(full, m + 1) + 1 /\ new[1] = Root /\ Len(new) <= m + 1
    BY <1>1, <1>3, <1>6, <2>1
  <2>3. m + 1 \in Staying(full, m + 1)
    BY <1>6 DEF Staying
  <2>4. ASSUME NEW d \in 1 .. Depth(full, m + 1)
        PROVE  \E k \in Staying(full, m + 1) : Depth(full, k) = d /\ new[d + 1] = full[k]
    <3>1. CASE d = Depth(full, m + 1)
      <4>1. new[d + 1] = c
        BY <1>1, <2>1, <3>1
      <4>. QED
        BY <2>3, <3>1, <4>1
    <3>2. CASE d # Depth(full, m + 1)
      <4>1. d \in 1 .. Depth(full, m) /\ new[d + 1] = path[d + 1]
        BY <1>1, <2>1, <2>4, <3>2
      <4>2. PICK k \in Staying(full, m) : Depth(full, k) = d /\ path[d + 1] = full[k]
        BY <1>4, <4>1
      <4>3. k \in Staying(full, m + 1)
        BY <1>1, <1>5, <2>1, <4>1, <4>2
      <4>. QED
        BY <4>1, <4>2, <4>3
    <3>. QED
      BY <3>1, <3>2
  <2>. QED
    BY <1>1, <2>2, <2>4 DEF Walked, new
<1>7. CASE ~IsDir(c)
  <2>1. Len(new) = Depth(full, m + 1) + 1 /\ Depth(full, m + 1) <= Depth(full, m)
        /\ \A j \in 1 .. Len(new) : new[j] = path[j]
    <3>1. CASE c = Parent
      <4>1. new = SubSeq(path, 1, Len(path) - 1) /\ Depth(full, m + 1) = Depth(full, m) - 1
        BY <1>1, <1>2, <1>7, <3>1, Stepped
      <4>. QED
        BY <1>1, <4>1
    <3>2. CASE c # Parent
      <4>1. new = path
        BY <1>1, <1>7, <3>2, Stepped
      <4>2. Depth(full, m + 1) = Depth(full, m)
        BY <1>1, <1>2, <1>7, <3>2
      <4>. QED
        BY <1>1, <4>1, <4>2
    <3>. QED
      BY <3>1, <3>2
  <2>. HIDE DEF new
  <2>2. new[1] = Root /\ Len(new) <= m + 1
    BY <1>1, <1>3, <2>1
  <2>3. ASSUME NEW d \in 1 .. Depth(full, m + 1)
        PROVE  \E k \in Staying(full, m + 1) : Depth(full, k) = d /\ new[d + 1] = full[k]
    <3>1. d \in 1 .. Depth(full, m) /\ new[d + 1] = path[d + 1] /\ d <= Depth(full, m + 1)
      BY <1>1, <2>1
    <3>2. PICK k \in Staying(full, m) : Depth(full, k) = d /\ path[d + 1] = full[k]
      BY <1>4, <3>1
    <3>3. k \in Staying(full, m + 1)
      BY <1>5, <3>1, <3>2
    <3>. QED
      BY <3>1, <3>2, <3>3
  <2>. QED
    BY <1>1, <2>1, <2>2, <2>3 DEF Walked, new
<1>. QED
  BY <1>6, <1>7

\* So it is for the whole path.
LEMMA WalkEnds ==
  ASSUME NEW full, Descends(full), NEW out, Walk(full, out)
  PROVE  \A m \in 0 .. Len(full) : out[m] \in Seq(Component) /\ Walked(full, out[m], m)
<1>. DEFINE S == {m \in Nat : m <= Len(full) => Walked(full, out[m], m)}
<1>1. Len(full) \in Nat /\ \A m \in 0 .. Len(full) : out[m] \in Seq(Component)
  <2>1. Len(full) \in Nat
    BY DEF Descends
  <2>2. out \in [0 .. Len(full) -> Seq(Component)]
    BY DEF Walk
  <2>. QED
    BY <2>1, <2>2
<1>2. 0 \in S
  <2>1. Depth(full, 0) = 0 /\ out[0] = <<Root>>
    BY DepthStep DEF Descends, Walk
  <2>2. Len(out[0]) = 1 /\ out[0][1] = Root
    BY <2>1, Components
  <2>3. Walked(full, out[0], 0)
    BY <2>1, <2>2 DEF Walked
  <2>. QED
    BY <2>3
<1>3. ASSUME NEW m \in S PROVE m + 1 \in S
  <2>. SUFFICES ASSUME m + 1 <= Len(full) PROVE Walked(full, out[m + 1], m + 1)
    OBVIOUS
  <2>1. m \in Nat /\ m + 1 \in 1 .. Len(full) /\ (m + 1) - 1 = m /\ m \in 0 .. Len(full)
    BY <1>1
  <2>2. out[m + 1] = Step(out[m], full[m + 1])
    BY <2>1 DEF Walk
  <2>3. out[m] \in Seq(Component) /\ Walked(full, out[m], m) /\ m < Len(full)
    BY <1>1, <2>1
  <2>. QED
    BY <2>1, <2>2, <2>3, WalkStep
<1>4. S \in SUBSET Nat
  OBVIOUS
<1>. HIDE DEF S
<1>5. S = Nat
  BY <1>2, <1>3, <1>4, Induction
<1>. QED
  BY <1>1, <1>5 DEF S

\* A normalized path.
NormalPath(q) ==
    /\ q \in Seq(Component) /\ Len(q) >= 1 /\ q[1] = Root
    /\ \A j \in 2 .. Len(q) : IsDir(q[j])

\* Two sequences with the same elements.
LEMMA SameSequence ==
  ASSUME NEW X, NEW s \in Seq(X), NEW t \in Seq(X), Len(s) = Len(t),
         \A i \in 1 .. Len(s) : s[i] = t[i]
  PROVE  s = t
OBVIOUS

\* x is the first k components of q.
Starts(x, q, k) == Len(x) = k /\ \A j \in 1 .. k : x[j] = q[j]

\* A normalized path is not changed by normalizing it again.
LEMMA NormalFixed ==
  ASSUME NEW q, NormalPath(q), NEW cwd \in Seq(Component)
  PROVE  Normalize(cwd, q) = q
<1>. DEFINE n == Len(q)
<1>1. q \in Seq(Component) /\ n \in Nat /\ n >= 1 /\ q[1] = Root /\ \A j \in 2 .. n : IsDir(q[j])
  BY DEF NormalPath
<1>2. PICK out : /\ out \in [0 .. n -> Seq(Component)]
                 /\ out[0] = Start(cwd, q)
                 /\ \A k \in 1 .. n : out[k] = Step(out[k - 1], q[k])
                 /\ Normalize(cwd, q) = out[n]
  BY <1>1, NormalizeWalks
<1>3. out[0] = <<Root>>
  BY <1>1, <1>2 DEF Start, Absolute
<1>. DEFINE S == {k \in Nat : k + 1 <= n => Starts(out[k + 1], q, k + 1)}
<1>4. 0 \in S
  <2>1. out[1] = Step(out[0], q[1])
    <3>1. 1 \in 1 .. n
      BY <1>1
    <3>. QED
      BY <1>2, <3>1
  <2>2. out[1] = <<Root>>
    BY <1>1, <1>3, <2>1, Components, Stepped
  <2>3. Starts(out[1], q, 1)
    BY <1>1, <2>2, Components DEF Starts
  <2>4. 0 + 1 = 1
    OBVIOUS
  <2>. QED
    BY <2>3, <2>4
<1>5. ASSUME NEW k \in S PROVE k + 1 \in S
  <2>. DEFINE a == out[k + 1]
              b == out[k + 2]
              c == q[k + 2]
  <2>. SUFFICES ASSUME k + 2 <= n PROVE Starts(b, q, k + 2)
    BY (k + 1) + 1 = k + 2 DEF S
  <2>1. k \in Nat /\ k + 2 \in 1 .. n /\ (k + 2) - 1 = k + 1 /\ k + 1 \in 0 .. n /\ k + 2 \in 2 .. n
    BY <1>1
  <2>2. IsDir(c) /\ c \in Component
    BY <1>1, <2>1
  <2>3. b = Step(a, c)
    BY <1>2, <2>1
  <2>4. a \in Seq(Component)
    BY <1>2, <2>1
  <2>5. Starts(a, q, k + 1)
    BY <2>1
  <2>6. b = Append(a, c)
    BY <2>2, <2>3, <2>4, Stepped
  <2>7. c = q[k + 2]
    OBVIOUS
  <2>. HIDE DEF a, b, c
  <2>. QED
    BY <2>1, <2>2, <2>5, <2>6, <2>7, <2>4 DEF Starts
<1>6. S \in SUBSET Nat
  OBVIOUS
<1>. HIDE DEF S
<1>7. n - 1 \in S
  <2>1. S = Nat
    BY <1>4, <1>5, <1>6, Induction
  <2>. QED
    BY <1>1, <2>1
<1>8. Len(out[n]) = n /\ \A j \in 1 .. n : out[n][j] = q[j]
  <2>1. (n - 1) + 1 = n
    BY <1>1
  <2>. QED
    BY <1>1, <1>7, <2>1 DEF S, Starts
<1>9. out[n] \in Seq(Component)
  BY <1>1, <1>2
<1>. QED
  BY <1>1, <1>2, <1>8, <1>9, SameSequence

\* Normalizing r, and then p from there, is walking along the whole path.
LEMMA WholeWalk ==
  ASSUME NEW r \in Seq(Component), Absolute(r), NEW p \in Seq(Component)
  PROVE  /\ Normalize(<<Root>>, r) \in Seq(Component)
         /\ \E out : Walk(Full(r, p), out) /\ out[Len(Full(r, p))] = Normalize(Normalize(<<Root>>, r), p)
<1>. DEFINE n == Len(r)
            m == Len(p)
            cwd == Normalize(<<Root>>, r)
<1>1. n \in Nat /\ m \in Nat
  OBVIOUS
<1>2. PICK o1 : /\ o1 \in [0 .. n -> Seq(Component)]
                /\ o1[0] = <<Root>>
                /\ \A k \in 1 .. n : o1[k] = Step(o1[k - 1], r[k])
                /\ cwd = o1[n]
  BY Components, NormalizeWalks DEF Start
<1>3. cwd \in Seq(Component)
  BY <1>1, <1>2
<1>. HIDE DEF cwd
<1>4. PICK o2 : /\ o2 \in [0 .. m -> Seq(Component)]
                /\ o2[0] = Start(cwd, p)
                /\ \A k \in 1 .. m : o2[k] = Step(o2[k - 1], p[k])
                /\ Normalize(cwd, p) = o2[m]
  BY <1>3, NormalizeWalks
<1>5. CASE Absolute(p)
  <2>1. Walk(Full(r, p), o2)
    BY <1>4, <1>5 DEF Walk, Full, Start
  <2>2. Len(Full(r, p)) = m
    BY <1>5 DEF Full
  <2>. QED
    BY <1>3, <1>4, <2>1, <2>2 DEF cwd
<1>6. CASE ~Absolute(p)
  <2>. DEFINE out == [k \in 0 .. n + m |-> IF k <= n THEN o1[k] ELSE o2[k - n]]
              full == r \o p
  <2>1. Full(r, p) = full /\ Len(full) = n + m
    BY <1>6 DEF Full
  <2>2. o2[0] = o1[n]
    BY <1>2, <1>4, <1>6 DEF Start
  <2>3. out \in [0 .. Len(full) -> Seq(Component)]
    <3>1. ASSUME NEW k \in 0 .. n + m PROVE (IF k <= n THEN o1[k] ELSE o2[k - n]) \in Seq(Component)
      <4>1. IF k <= n THEN k \in 0 .. n ELSE k - n \in 0 .. m
        BY <1>1
      <4>. QED
        BY <1>2, <1>4, <4>1
    <3>. QED
      BY <2>1, <3>1
  <2>4. ASSUME NEW k \in 1 .. Len(full) PROVE out[k] = Step(out[k - 1], full[k])
    <3>1. k \in 0 .. n + m /\ k - 1 \in 0 .. n + m
      BY <1>1, <2>1
    <3>2. CASE k <= n
      <4>1. k \in 1 .. n /\ full[k] = r[k]
        BY <1>1, <2>1, <3>2
      <4>2. out[k] = o1[k] /\ out[k - 1] = o1[k - 1]
        BY <1>1, <3>1, <3>2
      <4>. QED
        BY <1>2, <4>1, <4>2
    <3>3. CASE k > n
      <4>1. k - n \in 1 .. m /\ full[k] = p[k - n]
        BY <1>1, <2>1, <3>3
      <4>2. out[k] = o2[k - n]
        BY <1>1, <3>1, <3>3
      <4>3. out[k - 1] = o2[(k - n) - 1]
        <5>1. CASE k = n + 1
          BY <1>1, <2>2, <3>1, <5>1
        <5>2. CASE k # n + 1
          <6>1. k - 1 > n /\ (k - 1) - n = (k - n) - 1
            BY <1>1, <3>1, <3>3, <5>2
          <6>. QED
            BY <1>1, <3>1, <6>1
        <5>. QED
          BY <5>1, <5>2
      <4>. QED
        BY <1>4, <4>1, <4>2, <4>3
    <3>. QED
      BY <1>1, <3>1, <3>2, <3>3
  <2>5. out[0] = <<Root>>
    BY <1>1, <1>2
  <2>6. out[n + m] = o2[m]
    <3>1. CASE m = 0
      BY <1>1, <2>2, <3>1
    <3>2. CASE m # 0
      BY <1>1, <3>2
    <3>. QED
      BY <3>1, <3>2
  <2>. HIDE DEF out
  <2>7. Walk(full, out)
    BY <2>3, <2>4, <2>5 DEF Walk
  <2>. QED
    BY <1>3, <1>4, <2>1, <2>6, <2>7 DEF cwd
<1>. QED
  BY <1>5, <1>6

\* If neither the root nor the path climb above the root directory, the whole does not.
LEMMA WholeDescends ==
  ASSUME NEW r \in Seq(Component), Absolute(r), NEW p \in Seq(Component), ~ClimbsAboveRoot(r, p)
  PROVE  Descends(Full(r, p))
<1>. DEFINE full == Full(r, p)
<1>1. full \in Seq(Component) /\ full # <<>> /\ full[1] = Root
  <2>1. CASE Absolute(p)
    BY <2>1 DEF Full, Absolute
  <2>2. CASE ~Absolute(p)
    BY <2>2 DEF Full, Absolute
  <2>. QED
    BY <2>1, <2>2
<1>2. ASSUME NEW k \in 0 .. Len(full) PROVE Depth(full, k) \in Nat
  <2>1. Len(full) \in Nat /\ Depth(full, 0) = 0 /\ Depth(full, k) \in Int
    BY <1>1, DepthStep
  <2>2. k # 0 => ~(Depth(full, k) < 0)
    BY <2>1 DEF ClimbsAboveRoot
  <2>. QED
    BY <2>1, <2>2
<1>. QED
  BY <1>1, <1>2 DEF Descends

\* What normalize returns: a normalized path, no longer than what was allocated.
LEMMA NormalizeOK ==
  ASSUME NEW cwd, NormalPath(cwd), NEW p \in Seq(Component), ~ClimbsAboveRoot(cwd, p)
  PROVE  NormalPath(Normalize(cwd, p)) /\ Len(Normalize(cwd, p)) <= RawSize(cwd, p)
<1>. DEFINE full == Full(cwd, p)
            path == Normalize(cwd, p)
            n == Len(full)
<1>1. cwd \in Seq(Component) /\ Absolute(cwd) /\ cwd # <<>>
  BY DEF NormalPath, Absolute
<1>2. Normalize(<<Root>>, cwd) = cwd
  BY Components, NormalFixed
<1>3. PICK out : Walk(full, out) /\ out[n] = path
  BY <1>1, <1>2, WholeWalk
<1>4. Descends(full)
  BY <1>1, WholeDescends
<1>5. n \in Nat /\ n >= 1 /\ full \in Seq(Component)
  BY <1>4 DEF Descends
<1>6. path \in Seq(Component) /\ Walked(full, path, n)
  BY <1>3, <1>4, <1>5, WalkEnds
<1>7. Len(path) <= RawSize(cwd, p)
  <2>1. n = IF Absolute(p) THEN Len(p) ELSE Len(cwd) + Len(p)
    BY <1>1 DEF Full
  <2>. QED
    BY <1>5, <1>6, <2>1 DEF Walked, RawSize
<1>8. ASSUME NEW j \in 2 .. Len(path) PROVE IsDir(path[j])
  <2>1. Depth(full, n) \in Nat /\ Len(path) = Depth(full, n) + 1
    BY <1>4, <1>5, <1>6 DEF Walked, Descends
  <2>2. j - 1 \in 1 .. Depth(full, n) /\ (j - 1) + 1 = j
    BY <2>1
  <2>3. PICK k \in Staying(full, n) : path[(j - 1) + 1] = full[k]
    BY <1>6, <2>2 DEF Walked
  <2>. QED
    BY <2>2, <2>3 DEF Staying
<1>9. Len(path) >= 1 /\ path[1] = Root
  BY <1>4, <1>5, <1>6 DEF Walked, Descends
<1>. QED
  BY <1>6, <1>7, <1>8, <1>9 DEF NormalPath

\* A component that stays is as deep as there are components that stay before it.
LEMMA StayingRanks ==
  ASSUME NEW full, Descends(full), NEW path, Walked(full, path, Len(full))
  PROVE  LET T == Staying(full, Len(full))
         IN /\ IsFiniteSet(T) /\ Cardinality(T) = Depth(full, Len(full))
            /\ \A k \in T : /\ Depth(full, k) \in 1 .. Cardinality(T)
                            /\ Cardinality({l \in T : l < k}) = Depth(full, k) - 1
            /\ \A k, l \in T : Depth(full, k) = Depth(full, l) => k = l
<1>. DEFINE n == Len(full)
            T == Staying(full, n)
            f == [k \in 1 .. n |-> Depth(full, k)]
<1>1. n \in Nat /\ full \in Seq(Component) /\ full[1] = Root /\ \A k \in 0 .. n : Depth(full, k) \in Nat
  BY DEF Descends
<1>2. \A k \in 1 .. n : f[k] = Depth(full, k) /\ f[k] \in Nat
  BY <1>1
<1>3. ASSUME NEW k \in T
      PROVE  /\ k \in 1 .. n /\ IsDir(full[k]) /\ f[k] \in 1 .. Depth(full, n)
             /\ \A l \in k + 1 .. n : f[l] >= f[k]
             /\ k - 1 \in 0 .. n /\ Depth(full, k - 1) = f[k] - 1
  <2>1. k \in 1 .. n /\ IsDir(full[k]) /\ \A l \in k + 1 .. n : Depth(full, l) >= Depth(full, k)
    BY DEF Staying
  <2>2. k - 1 \in Nat /\ (k - 1) + 1 = k /\ k - 1 \in 0 .. n
    BY <1>1, <2>1
  <2>3. Depth(full, k) = Depth(full, k - 1) + 1
    BY <1>1, <2>1, <2>2, DepthStep
  <2>4. Depth(full, n) >= Depth(full, k)
    <3>1. CASE k = n
      BY <1>1, <3>1
    <3>2. CASE k # n
      <4>1. n \in k + 1 .. n
        BY <1>1, <2>1, <3>2
      <4>. QED
        BY <2>1, <4>1
    <3>. QED
      BY <3>1, <3>2
  <2>5. Depth(full, k - 1) \in Nat /\ Depth(full, n) \in Nat
    BY <1>1, <2>2
  <2>6. \A l \in k + 1 .. n : f[l] >= f[k]
    BY <1>1, <1>2, <2>1
  <2>. QED
    BY <1>2, <2>1, <2>2, <2>3, <2>4, <2>5, <2>6
<1>4. ASSUME NEW k \in T, NEW l \in T, k < l PROVE f[k] < f[l]
  <2>1. k \in 1 .. n /\ l \in 1 .. n /\ f[k] \in Nat /\ f[l] \in Nat /\ Depth(full, l - 1) = f[l] - 1
    BY <1>2, <1>3
  <2>2. CASE l - 1 = k
    <3>1. Depth(full, k) = f[k]
      BY <1>2, <2>1
    <3>. QED
      BY <2>1, <2>2, <3>1
  <2>3. CASE l - 1 # k
    <3>1. l - 1 \in k + 1 .. n /\ l - 1 \in 1 .. n
      BY <1>4, <2>1, <2>3
    <3>2. f[l - 1] >= f[k] /\ f[l - 1] = Depth(full, l - 1)
      BY <1>2, <1>3, <3>1
    <3>. QED
      BY <2>1, <3>2
  <2>. QED
    BY <2>2, <2>3
<1>5. ASSUME NEW d \in 1 .. Depth(full, n) PROVE \E k \in T : f[k] = d
  <2>1. \E k \in T : Depth(full, k) = d
    BY DEF Walked
  <2>. QED
    BY <1>2, <1>3, <2>1
<1>6. IsFiniteSet(T) /\ Depth(full, n) \in Nat
  <2>1. T \subseteq 1 .. n
    BY DEF Staying
  <2>2. IsFiniteSet(1 .. n)
    BY <1>1, FS_Interval
  <2>3. Depth(full, n) \in Nat
    BY <1>1
  <2>. HIDE DEF T
  <2>. QED
    BY <2>1, <2>2, <2>3, FS_Subset
<1>. HIDE DEF f, T
<1>7. \A k, l \in T : f[k] = f[l] => k = l
  <2>. SUFFICES ASSUME NEW k \in T, NEW l \in T, f[k] = f[l] PROVE k = l
    OBVIOUS
  <2>1. k \in 1 .. n /\ l \in 1 .. n /\ f[k] \in 1 .. Depth(full, n) /\ f[l] \in 1 .. Depth(full, n)
    BY <1>3
  <2>. QED
    BY <1>1, <1>4, <1>6, <2>1
\* The components that stay before the one at depth d + 1 have the depths 1 to d.
<1>8. ASSUME NEW B \in SUBSET T, NEW d \in Nat, \A k \in B : f[k] \in 1 .. d,
             \A e \in 1 .. d : \E k \in B : f[k] = e
      PROVE  Cardinality(B) = d
  <2>. DEFINE g == [k \in B |-> f[k]]
  <2>1. g \in [B -> 1 .. d] /\ \A k \in B : g[k] = f[k]
    BY <1>8
  <2>. HIDE DEF g
  <2>2. g \in Bijection(B, 1 .. d)
    <3>1. g \in Injection(B, 1 .. d)
      BY <1>7, <2>1 DEF Injection, IsInjective
    <3>2. g \in Surjection(B, 1 .. d)
      BY <1>8, <2>1 DEF Surjection
    <3>. QED
      BY <3>1, <3>2 DEF Bijection
  <2>3. IsFiniteSet(B)
    BY <1>6, FS_Subset
  <2>4. Cardinality(1 .. d) = d
    <3>1. 1 \in Int /\ d \in Int /\ (IF 1 > d THEN 0 ELSE d - 1 + 1) = d
      OBVIOUS
    <3>. QED
      BY <3>1, FS_Interval
  <2>. QED
    BY <2>2, <2>3, <2>4, FS_Bijection DEF ExistsBijection
<1>9. Cardinality(T) = Depth(full, n)
  BY <1>3, <1>5, <1>6, <1>8
<1>10. ASSUME NEW k \in T PROVE Cardinality({l \in T : l < k}) = f[k] - 1
  <2>. DEFINE B == {l \in T : l < k}
  <2>1. f[k] \in 1 .. Depth(full, n) /\ k \in 1 .. n
    BY <1>3
  <2>2. ASSUME NEW l \in B PROVE f[l] \in 1 .. f[k] - 1
    <3>1. l \in T /\ f[l] < f[k] /\ f[l] \in 1 .. Depth(full, n)
      BY <1>3, <1>4, <2>2
    <3>. QED
      BY <1>6, <2>1, <3>1
  <2>3. ASSUME NEW e \in 1 .. f[k] - 1 PROVE \E l \in B : f[l] = e
    <3>1. e \in 1 .. Depth(full, n)
      BY <1>6, <2>1
    <3>2. PICK l \in T : f[l] = e
      BY <1>5, <3>1
    <3>3. ~(k < l) /\ l # k
      BY <1>4, <1>6, <2>1, <3>2
    <3>4. l \in 1 .. n
      BY <1>3
    <3>. QED
      BY <1>1, <2>1, <3>2, <3>3, <3>4
  <2>4. f[k] - 1 \in Nat /\ B \in SUBSET T
    BY <1>6, <2>1
  <2>. HIDE DEF B
  <2>5. Cardinality(B) = f[k] - 1
    BY <1>8, <2>2, <2>3, <2>4
  <2>. QED
    BY <2>5 DEF B
<1>. QED
  BY <1>2, <1>3, <1>6, <1>7, <1>9, <1>10 DEF T, f

-----------------------------------------------------------------------------
(* Tables of names *)

\* A sequence without duplicates, and one that starts like another.
Distinct(s) == \A i, j \in 1 .. Len(s) : s[i] = s[j] => i = j

StartsWith(s, t) == Len(t) <= Len(s) /\ \A i \in 1 .. Len(t) : s[i] = t[i]

-----------------------------------------------------------------------------
(* stable_multi_string_buffer *)

Chunk  == [1 .. ChunkSize -> Component]
Buffer == [chunks : Seq(Chunk), rem : 0 .. ChunkSize]
Ref    == [chunk : Nat, ofs : Nat, size : Nat \ {0}]

BufferOK(b) == b \in Buffer /\ (b.chunks = <<>> => b.rem = 0)

\* How much of chunk k is allocated, or was before the next one was begun.
Used(b, k) == IF k = Len(b.chunks) THEN InsertPosition(b) ELSE ChunkSize

RefIn(b, r) == r \in Ref /\ r.chunk \in 1 .. Len(b.chunks) /\ r.ofs + r.size <= Used(b, r.chunk)

\* What was allocated in b is still there in a.
Keeps(a, b) ==
    /\ Len(b.chunks) <= Len(a.chunks)
    /\ \A k \in 1 .. Len(b.chunks) :
         Used(b, k) <= Used(a, k) /\ \A c \in 1 .. Used(b, k) : a.chunks[k][c] = b.chunks[k][c]

\* A chunk has a cell.
LEMMA ChunkSizes == ChunkSize \in Nat /\ ChunkSize >= 1
BY ChunkAssumption

\* What a buffer is made of.
LEMMA BufferFields ==
  ASSUME NEW b, BufferOK(b)
  PROVE  /\ b.chunks \in Seq(Chunk) /\ b.rem \in 0 .. ChunkSize /\ Len(b.chunks) \in Nat
         /\ b = [chunks |-> b.chunks, rem |-> b.rem]
         /\ InsertPosition(b) \in 0 .. ChunkSize
         /\ \A k \in 1 .. Len(b.chunks) :
              /\ b.chunks[k] \in Seq(Component) /\ Len(b.chunks[k]) = ChunkSize
              /\ Used(b, k) \in 0 .. ChunkSize
<1>1. b.chunks \in Seq(Chunk) /\ b.rem \in 0 .. ChunkSize /\ b = [chunks |-> b.chunks, rem |-> b.rem]
  BY DEF BufferOK, Buffer
<1>2. InsertPosition(b) \in 0 .. ChunkSize
  BY <1>1, ChunkSizes DEF InsertPosition
<1>3. ASSUME NEW k \in 1 .. Len(b.chunks)
      PROVE  b.chunks[k] \in Seq(Component) /\ Len(b.chunks[k]) = ChunkSize
  <2>1. b.chunks[k] \in [1 .. ChunkSize -> Component]
    BY <1>1 DEF Chunk
  <2>. QED
    BY <2>1, ChunkSizes
<1>. QED
  BY <1>1, <1>2, <1>3, ChunkSizes DEF Used

\* SubSeq of a chunk.
LEMMA PartOf ==
  ASSUME NEW s \in Seq(Component), NEW lo \in Nat, NEW n \in Nat, lo + n <= Len(s)
  PROVE  /\ SubSeq(s, lo + 1, lo + n) \in Seq(Component) /\ Len(SubSeq(s, lo + 1, lo + n)) = n
         /\ \A j \in 1 .. n : SubSeq(s, lo + 1, lo + n)[j] = s[lo + j]
<1>1. Len(s) \in Nat
  OBVIOUS
<1>2. \A j \in lo + 1 .. lo + n : s[j] \in Component
  BY <1>1
<1>3. SubSeq(s, lo + 1, lo + n) \in Seq(Component)
  BY <1>1, <1>2
<1>4. Len(SubSeq(s, lo + 1, lo + n)) = n
  BY <1>1
<1>5. ASSUME NEW j \in 1 .. n PROVE SubSeq(s, lo + 1, lo + n)[j] = s[lo + j]
  BY <1>1
<1>. QED
  BY <1>3, <1>4, <1>5

\* Two chunks with the same cells have the same part.
SameCells(s, t, lo, n) ==
    lo + n <= Len(s) /\ lo + n <= Len(t) /\ \A c \in lo + 1 .. lo + n : s[c] = t[c]

LEMMA SamePart ==
  ASSUME NEW s \in Seq(Component), NEW t \in Seq(Component), NEW lo \in Nat, NEW n \in Nat, SameCells(s, t, lo, n)
  PROVE  SubSeq(s, lo + 1, lo + n) = SubSeq(t, lo + 1, lo + n)
<1>. DEFINE x == SubSeq(s, lo + 1, lo + n)
            y == SubSeq(t, lo + 1, lo + n)
<1>1. x \in Seq(Component) /\ Len(x) = n /\ \A j \in 1 .. n : x[j] = s[lo + j]
  BY PartOf DEF SameCells
<1>2. y \in Seq(Component) /\ Len(y) = n /\ \A j \in 1 .. n : y[j] = t[lo + j]
  BY PartOf DEF SameCells
<1>3. \A j \in 1 .. n : lo + j \in lo + 1 .. lo + n
  OBVIOUS
<1>. HIDE DEF x, y
<1>4. \A j \in 1 .. Len(x) : x[j] = y[j]
  BY <1>1, <1>2, <1>3 DEF SameCells
<1>5. x = y
  BY <1>1, <1>2, <1>4, SameSequence
<1>. QED
  BY <1>5 DEF x, y

\* A reference into what is kept refers to the same path.
LEMMA RefKept ==
  ASSUME NEW b, BufferOK(b), NEW a, BufferOK(a), Keeps(a, b), NEW r, RefIn(b, r)
  PROVE  RefIn(a, r) /\ AllocAt(a, r) = AllocAt(b, r)
<1>1. /\ r.chunk \in 1 .. Len(b.chunks) /\ r.ofs \in Nat /\ r.size \in Nat /\ r \in Ref
      /\ r.ofs + r.size <= Used(b, r.chunk)
  BY DEF RefIn, Ref
<1>2. /\ Len(b.chunks) \in Nat /\ Used(b, r.chunk) \in 0 .. ChunkSize /\ ChunkSize \in Nat
      /\ Used(a, r.chunk) \in 0 .. ChunkSize /\ Len(a.chunks) \in Nat /\ r.chunk \in 1 .. Len(a.chunks)
  BY <1>1, BufferFields, ChunkSizes DEF Keeps
<1>3. RefIn(a, r)
  BY <1>1, <1>2 DEF RefIn, Keeps
<1>. DEFINE s == a.chunks[r.chunk]
            t == b.chunks[r.chunk]
<1>4. s \in Seq(Component) /\ Len(s) = ChunkSize /\ t \in Seq(Component) /\ Len(t) = ChunkSize
  BY <1>1, <1>2, BufferFields
<1>5. ASSUME NEW c \in r.ofs + 1 .. r.ofs + r.size PROVE s[c] = t[c]
  <2>1. c \in 1 .. Used(b, r.chunk)
    BY <1>1, <1>2
  <2>. QED
    BY <2>1, <1>1 DEF Keeps
<1>6. AllocAt(a, r) = SubSeq(s, r.ofs + 1, r.ofs + r.size) /\ AllocAt(b, r) = SubSeq(t, r.ofs + 1, r.ofs + r.size)
  BY DEF AllocAt
<1>. HIDE DEF s, t
<1>7. r.ofs + 1 <= r.ofs + r.size + 1 /\ r.ofs + r.size <= ChunkSize
  BY <1>1, <1>2
<1>8. SubSeq(s, r.ofs + 1, r.ofs + r.size) = SubSeq(t, r.ofs + 1, r.ofs + r.size)
  <2>1. SameCells(s, t, r.ofs, r.size)
    BY <1>4, <1>5, <1>7 DEF SameCells
  <2>. QED
    BY <1>1, <1>4, <2>1, SamePart
<1>. QED
  BY <1>3, <1>6, <1>8

\* alloc.
LEMMA Allocated ==
  ASSUME NEW b, BufferOK(b), NEW size \in 1 .. ChunkSize
  PROVE  LET a == Alloc(b, size)
         IN /\ BufferOK(a) /\ Keeps(a, b) /\ Len(a.chunks) >= 1
            /\ Len(a.chunks) \in {Len(b.chunks), Len(b.chunks) + 1}
            /\ b.rem = 0 => Len(a.chunks) = Len(b.chunks) + 1 /\ a.rem = ChunkSize - size
            /\ InsertPosition(a) - size \in Nat
            /\ Len(a.chunks) = Len(b.chunks) => InsertPosition(a) - size = InsertPosition(b)
            /\ Len(a.chunks) = Len(b.chunks) => a.chunks = b.chunks
            /\ \A k \in 1 .. Len(b.chunks) : a.chunks[k] = b.chunks[k]
<1>. DEFINE a == Alloc(b, size)
<1>1. /\ b.chunks \in Seq(Chunk) /\ b.rem \in 0 .. ChunkSize /\ Len(b.chunks) \in Nat
      /\ b = [chunks |-> b.chunks, rem |-> b.rem] /\ ChunkSize \in Nat /\ ChunkSize >= 1
      /\ b.chunks = <<>> => b.rem = 0
  BY BufferFields, ChunkSizes DEF BufferOK
<1>2. CASE size <= b.rem
  <2>1. a = [chunks |-> b.chunks, rem |-> b.rem - size]
    <3>. DEFINE cs == b.chunks
                rem == b.rem
    <3>1. b = [chunks |-> cs, rem |-> rem] /\ a = [b EXCEPT !.rem = rem - size]
      BY <1>1, <1>2 DEF Alloc
    <3>. HIDE DEF cs, rem, a
    <3>2. a = [chunks |-> cs, rem |-> rem - size]
      BY <3>1
    <3>. QED
      BY <3>2 DEF cs, rem
  <2>2. a.chunks = b.chunks /\ a.rem = b.rem - size
    BY <2>1
  <2>. HIDE DEF a
  <2>3. BufferOK(a) /\ Len(a.chunks) >= 1
    BY <1>1, <1>2, <2>1, <2>2 DEF BufferOK, Buffer
  <2>4. InsertPosition(a) - size = InsertPosition(b) /\ InsertPosition(b) \in Nat
    BY <1>1, <2>2 DEF InsertPosition
  <2>5. Keeps(a, b)
    BY <1>1, <2>2, <2>4 DEF Keeps, Used, InsertPosition
  <2>. QED
    BY <1>1, <1>2, <2>2, <2>3, <2>4, <2>5 DEF a
<1>3. CASE ~(size <= b.rem)
  <2>1. a = [chunks |-> Append(b.chunks, NewChunk), rem |-> ChunkSize - size]
    BY <1>3 DEF Alloc
  <2>2. a.chunks = Append(b.chunks, NewChunk) /\ a.rem = ChunkSize - size
    BY <2>1
  <2>. HIDE DEF a
  <2>3. NewChunk \in Chunk
    BY Components DEF NewChunk, Chunk
  <2>4. Len(a.chunks) = Len(b.chunks) + 1 /\ a.chunks \in Seq(Chunk)
        /\ \A k \in 1 .. Len(b.chunks) : a.chunks[k] = b.chunks[k]
    BY <1>1, <2>2, <2>3
  <2>5. BufferOK(a)
    BY <1>1, <2>1, <2>2, <2>4 DEF BufferOK, Buffer
  <2>6. InsertPosition(a) - size = 0
    BY <1>1, <2>2 DEF InsertPosition
  <2>7. Keeps(a, b)
    BY <1>1, <2>4 DEF Keeps, Used, InsertPosition
  <2>. QED
    BY <1>1, <2>2, <2>4, <2>5, <2>6, <2>7 DEF a
<1>. QED
  BY <1>2, <1>3

\* Write, at the end of what is allocated.
LEMMA Written ==
  ASSUME NEW b, BufferOK(b), Len(b.chunks) >= 1, NEW s \in Seq(Component), s # <<>>,
         NEW ofs \in Nat, ofs + Len(s) <= ChunkSize
  PROVE  LET w    == Write(b, ofs, s)
             last == Len(b.chunks)
         IN /\ BufferOK(w) /\ w.rem = b.rem /\ Len(w.chunks) = last
            /\ \A k \in 1 .. last - 1 : w.chunks[k] = b.chunks[k]
            /\ \A c \in 1 .. ofs : w.chunks[last][c] = b.chunks[last][c]
            /\ SubSeq(w.chunks[last], ofs + 1, ofs + Len(s)) = s
<1>. DEFINE w == Write(b, ofs, s)
            L == Len(b.chunks)
            cs == b.chunks
            rm == b.rem
            ch == [c \in 1 .. ChunkSize |->
                     IF c \in ofs + 1 .. ofs + Len(s) THEN s[c - ofs] ELSE cs[L][c]]
<1>1. /\ cs \in Seq(Chunk) /\ rm \in 0 .. ChunkSize /\ L \in Nat /\ L >= 1 /\ L \in 1 .. Len(cs)
      /\ b = [chunks |-> cs, rem |-> rm] /\ ChunkSize \in Nat /\ Len(s) \in Nat /\ Len(s) >= 1
      /\ cs[L] \in Chunk
  BY BufferFields, ChunkSizes
<1>2. w = [b EXCEPT !.chunks[L] = ch]
  BY <1>1 DEF Write
<1>3. ASSUME NEW c \in 1 .. ChunkSize
      PROVE  (IF c \in ofs + 1 .. ofs + Len(s) THEN s[c - ofs] ELSE cs[L][c]) \in Component
  <2>1. cs[L][c] \in Component
    BY <1>1 DEF Chunk
  <2>2. c \in ofs + 1 .. ofs + Len(s) => c - ofs \in 1 .. Len(s)
    BY <1>1
  <2>. QED
    BY <2>1, <2>2
<1>4. ch \in Chunk
  BY <1>3 DEF Chunk
<1>5. \A c \in 1 .. ofs : ch[c] = cs[L][c]
  BY <1>1
<1>6. \A j \in 1 .. Len(s) : ch[ofs + j] = s[j]
  <2>. SUFFICES ASSUME NEW j \in 1 .. Len(s) PROVE ch[ofs + j] = s[j]
    OBVIOUS
  <2>1. ofs + j \in 1 .. ChunkSize /\ ofs + j \in ofs + 1 .. ofs + Len(s) /\ (ofs + j) - ofs = j
    BY <1>1
  <2>. QED
    BY <2>1
<1>. DEFINE ds == [cs EXCEPT ![L] = ch]
<1>. HIDE DEF w, L, cs, rm, ch
<1>7. w = [chunks |-> ds, rem |-> rm]
  <2>. HIDE DEF ds
  <2>1. [b EXCEPT !.chunks[L] = ch] = [b EXCEPT !.chunks = [b.chunks EXCEPT ![L] = ch]]
    OBVIOUS
  <2>2. b.chunks = cs
    BY DEF cs
  <2>. QED
    BY <1>1, <1>2, <2>1, <2>2 DEF ds
<1>8. ds \in Seq(Chunk) /\ Len(ds) = L /\ ds[L] = ch /\ \A k \in 1 .. L - 1 : ds[k] = cs[k]
  <2>1. Len(cs) = L
    BY DEF L, cs
  <2>. QED
    BY <1>1, <1>4, <2>1
<1>. HIDE DEF ds
<1>9. BufferOK(w) /\ w.rem = rm /\ w.chunks = ds
  <2>1. ds # <<>>
    BY <1>1, <1>8
  <2>. QED
    BY <1>1, <1>7, <1>8, <2>1 DEF BufferOK, Buffer
<1>10. ch \in Seq(Component) /\ Len(ch) = ChunkSize
  <2>1. ch \in [1 .. ChunkSize -> Component]
    BY <1>4 DEF Chunk
  <2>. QED
    BY <1>1, <2>1
<1>11. SubSeq(ch, ofs + 1, ofs + Len(s)) = s
  <2>. DEFINE x == SubSeq(ch, ofs + 1, ofs + Len(s))
  <2>1. x \in Seq(Component) /\ Len(x) = Len(s) /\ \A j \in 1 .. Len(s) : x[j] = ch[ofs + j]
    BY <1>1, <1>10, PartOf
  <2>. HIDE DEF x
  <2>2. \A j \in 1 .. Len(x) : x[j] = s[j]
    BY <1>6, <2>1
  <2>3. x = s
    BY <2>1, <2>2, SameSequence
  <2>. QED
    BY <2>3 DEF x
<1>12. BufferOK(w) /\ w.rem = rm /\ Len(w.chunks) = L /\ (\A k \in 1 .. L - 1 : w.chunks[k] = cs[k])
       /\ (\A c \in 1 .. ofs : w.chunks[L][c] = cs[L][c]) /\ SubSeq(w.chunks[L], ofs + 1, ofs + Len(s)) = s
  BY <1>5, <1>8, <1>9, <1>11
<1>. QED
  BY <1>12 DEF w, L, cs, rm

\* free_last_alloc.
LEMMA Freed ==
  ASSUME NEW b, BufferOK(b), NEW size \in Nat, b.chunks # <<>>, b.rem + size <= ChunkSize
  PROVE  /\ BufferOK(Free(b, size)) /\ Free(b, size).chunks = b.chunks
         /\ Free(b, size).rem = b.rem + size
         /\ InsertPosition(Free(b, size)) = InsertPosition(b) - size
<1>. DEFINE cs == b.chunks
            rm == b.rem
            f == Free(b, size)
<1>1. /\ cs \in Seq(Chunk) /\ rm \in 0 .. ChunkSize /\ b = [chunks |-> cs, rem |-> rm]
      /\ f = [b EXCEPT !.rem = rm + size] /\ ChunkSize \in Nat
  BY BufferFields, ChunkSizes DEF Free
<1>2. cs # <<>> /\ rm + size <= ChunkSize
  OBVIOUS
<1>. HIDE DEF cs, rm, f
<1>3. f = [chunks |-> cs, rem |-> rm + size]
  BY <1>1
<1>4. f.chunks = cs /\ f.rem = rm + size
  BY <1>3
<1>5. rm + size \in 0 .. ChunkSize
  BY <1>2, <1>1
<1>6. BufferOK(f)
  BY <1>2, <1>1, <1>3, <1>4, <1>5 DEF BufferOK, Buffer
<1>7. InsertPosition(f) = InsertPosition(b) - size
  BY <1>1, <1>4 DEF InsertPosition, rm
<1>. QED
  BY <1>4, <1>6, <1>7 DEF cs, rm, f

\* Two buffers that differ in what is after the first ofs cells of the last chunk.
\* a has the chunks of b, and w those of a.
SameBelow(w, a, b, ofs) ==
    /\ Len(w.chunks) = Len(a.chunks) /\ Len(a.chunks) \in {Len(b.chunks), Len(b.chunks) + 1}
    /\ \A k \in 1 .. Len(b.chunks) : a.chunks[k] = b.chunks[k]
    /\ \A k \in 1 .. Len(a.chunks) - 1 : w.chunks[k] = a.chunks[k]
    /\ \A c \in 1 .. ofs : w.chunks[Len(a.chunks)][c] = a.chunks[Len(a.chunks)][c]
    /\ Len(a.chunks) = Len(b.chunks) => ofs = InsertPosition(b)

\* What was written beyond an offset leaves what is before it.
LEMMA KeptBelow ==
  ASSUME NEW a, BufferOK(a), NEW b, BufferOK(b), NEW w, BufferOK(w), NEW ofs \in Nat,
         SameBelow(w, a, b, ofs), InsertPosition(w) >= ofs
  PROVE  Keeps(w, b)
<1>1. /\ Len(w.chunks) = Len(a.chunks) /\ Len(a.chunks) \in {Len(b.chunks), Len(b.chunks) + 1}
      /\ \A k \in 1 .. Len(b.chunks) : a.chunks[k] = b.chunks[k]
      /\ \A k \in 1 .. Len(a.chunks) - 1 : w.chunks[k] = a.chunks[k]
      /\ \A c \in 1 .. ofs : w.chunks[Len(a.chunks)][c] = a.chunks[Len(a.chunks)][c]
      /\ Len(a.chunks) = Len(b.chunks) => ofs = InsertPosition(b)
  BY DEF SameBelow
<1>2. /\ Len(w.chunks) \in Nat /\ Len(a.chunks) \in Nat /\ Len(b.chunks) \in Nat /\ ChunkSize \in Nat
      /\ InsertPosition(w) \in Nat /\ InsertPosition(b) \in 0 .. ChunkSize
      /\ Len(b.chunks) <= Len(w.chunks)
  BY <1>1, BufferFields, ChunkSizes
<1>3. ASSUME NEW k \in 1 .. Len(b.chunks)
      PROVE  Used(b, k) <= Used(w, k) /\ \A c \in 1 .. Used(b, k) : w.chunks[k][c] = b.chunks[k][c]
  <2>1. CASE k = Len(a.chunks)
    <3>1. Len(a.chunks) = Len(b.chunks)
      BY <1>1, <1>2, <2>1
    <3>2. Used(b, k) = ofs /\ Used(w, k) = InsertPosition(w)
      BY <1>1, <2>1, <3>1 DEF Used
    <3>3. a.chunks[k] = b.chunks[k]
      BY <1>1
    <3>4. \A c \in 1 .. ofs : w.chunks[k][c] = b.chunks[k][c]
      BY <1>1, <2>1, <3>3
    <3>5. ofs <= InsertPosition(w)
      BY <1>2
    <3>. QED
      BY <3>2, <3>4, <3>5
  <2>2. CASE k # Len(a.chunks)
    <3>1. k \in 1 .. Len(a.chunks) - 1
      BY <1>1, <1>2, <2>2
    <3>2. w.chunks[k] = b.chunks[k]
      BY <1>1, <3>1
    <3>3. Used(w, k) = ChunkSize
      BY <1>1, <2>2 DEF Used
    <3>4. Used(b, k) \in 0 .. ChunkSize
      BY BufferFields
    <3>. QED
      BY <1>2, <3>2, <3>3, <3>4
  <2>. QED
    BY <2>1, <2>2
<1>. QED
  BY <1>2, <1>3 DEF Keeps

\* p can be normalized into a chunk.
Fits(s, p) == ~ClimbsAboveRoot(s.cwd, p) /\ RawSize(s.cwd, p) <= ChunkSize

\* The path of a store that is about to take p, after it was normalized into the buffer.
LEMMA NormalizedIn ==
  ASSUME NEW s, BufferOK(s.buf), NormalPath(s.cwd), NEW p \in Seq(Component), Fits(s, p)
  PROVE  LET n == Normalized(s, p)
             f == Free(n.buf, Len(n.path))
         IN /\ n.path = Normalize(s.cwd, p) /\ NormalPath(n.path)
            /\ BufferOK(n.buf) /\ Keeps(n.buf, s.buf) /\ RefIn(n.buf, n.ref) /\ AllocAt(n.buf, n.ref) = n.path
            /\ n.ref.chunk = Len(n.buf.chunks)
            /\ n.ref.chunk = Len(s.buf.chunks) => n.ref.ofs >= InsertPosition(s.buf)
            /\ n.ref.ofs + n.ref.size = InsertPosition(n.buf)
            /\ BufferOK(f) /\ Keeps(f, s.buf) /\ Len(f.chunks) = Len(n.buf.chunks)
            /\ Len(n.buf.chunks) \in {Len(s.buf.chunks), Len(s.buf.chunks) + 1}
            /\ s.buf.rem = 0 => Len(n.buf.chunks) = Len(s.buf.chunks) + 1
<1>. DEFINE b == s.buf
            path == Normalize(s.cwd, p)
            raw == RawSize(s.cwd, p)
            a == Alloc(b, raw)
            ofs == InsertPosition(a) - raw
            c == Free(a, raw - Len(path))
            w == Write(c, ofs, path)
            f == Free(w, Len(path))
            ref == [chunk |-> Len(a.chunks), ofs |-> ofs, size |-> Len(path)]
            n == Normalized(s, p)
<1>1. n.buf = w /\ n.path = path /\ n.ref = ref
  BY DEF Normalized
<1>2. NormalPath(path) /\ Len(path) <= raw
  BY NormalizeOK DEF Fits
<1>3. raw <= ChunkSize
  BY DEF Fits
<1>4. path \in Seq(Component) /\ Len(path) \in Nat /\ Len(path) >= 1 /\ path # <<>>
  BY <1>2 DEF NormalPath
<1>5. raw \in 1 .. ChunkSize
  <2>1. raw \in Nat
    BY DEF RawSize, NormalPath
  <2>. QED
    BY <1>2, <1>3, <1>4, <2>1, ChunkSizes
<1>6. b = s.buf /\ BufferOK(b)
  OBVIOUS
<1>. HIDE DEF b, path, raw, n
<1>7. /\ BufferOK(a) /\ Len(a.chunks) >= 1 /\ Len(a.chunks) \in {Len(b.chunks), Len(b.chunks) + 1}
      /\ b.rem = 0 => Len(a.chunks) = Len(b.chunks) + 1
      /\ ofs \in Nat /\ Len(a.chunks) = Len(b.chunks) => ofs = InsertPosition(b)
      /\ \A k \in 1 .. Len(b.chunks) : a.chunks[k] = b.chunks[k]
  BY <1>5, <1>6, Allocated
<1>8. ofs \in Nat
  BY <1>5, <1>6, Allocated
<1>9. Len(a.chunks) = Len(b.chunks) => ofs = InsertPosition(b)
  BY <1>5, <1>6, Allocated
<1>10. /\ a.rem \in 0 .. ChunkSize /\ InsertPosition(a) = ChunkSize - a.rem /\ InsertPosition(a) \in 0 .. ChunkSize
       /\ ChunkSize \in Nat /\ a.chunks # <<>> /\ Len(a.chunks) \in Nat
  BY <1>7, BufferFields, ChunkSizes DEF InsertPosition
<1>11. ofs = InsertPosition(a) - raw
  OBVIOUS
<1>. HIDE DEF a, ofs
<1>12. raw - Len(path) \in Nat /\ a.rem + (raw - Len(path)) <= ChunkSize
  BY <1>2, <1>4, <1>5, <1>8, <1>10, <1>11
<1>13. /\ BufferOK(c) /\ c.chunks = a.chunks /\ c.rem = a.rem + (raw - Len(path))
       /\ InsertPosition(c) = ofs + Len(path)
  <2>1. /\ BufferOK(c) /\ c.chunks = a.chunks /\ c.rem = a.rem + (raw - Len(path))
        /\ InsertPosition(c) = InsertPosition(a) - (raw - Len(path))
    BY <1>7, <1>10, <1>12, Freed
  <2>. QED
    BY <1>4, <1>5, <1>8, <1>10, <1>11, <2>1
<1>. HIDE DEF c
<1>14. ofs + Len(path) <= ChunkSize /\ ofs + Len(path) \in Nat
  BY <1>4, <1>8, <1>13, BufferFields
<1>15. /\ BufferOK(w) /\ w.rem = c.rem /\ Len(w.chunks) = Len(a.chunks)
       /\ \A k \in 1 .. Len(a.chunks) - 1 : w.chunks[k] = a.chunks[k]
       /\ \A j \in 1 .. ofs : w.chunks[Len(a.chunks)][j] = a.chunks[Len(a.chunks)][j]
       /\ SubSeq(w.chunks[Len(a.chunks)], ofs + 1, ofs + Len(path)) = path
  <2>1. Len(c.chunks) >= 1
    BY <1>7, <1>13
  <2>2. /\ BufferOK(w) /\ w.rem = c.rem /\ Len(w.chunks) = Len(c.chunks)
        /\ \A k \in 1 .. Len(c.chunks) - 1 : w.chunks[k] = c.chunks[k]
        /\ \A j \in 1 .. ofs : w.chunks[Len(c.chunks)][j] = c.chunks[Len(c.chunks)][j]
        /\ SubSeq(w.chunks[Len(c.chunks)], ofs + 1, ofs + Len(path)) = path
    <3>1. path \in Seq(Component) /\ path # <<>> /\ ofs + Len(path) <= ChunkSize /\ BufferOK(c)
      BY <1>4, <1>13, <1>14
    <3>2. ofs \in Nat
      BY <1>8
    <3>. DEFINE last == Len(c.chunks)
                x == Write(c, ofs, path)
    <3>3. /\ BufferOK(x) /\ x.rem = c.rem /\ Len(x.chunks) = last
          /\ \A k \in 1 .. last - 1 : x.chunks[k] = c.chunks[k]
          /\ \A j \in 1 .. ofs : x.chunks[last][j] = c.chunks[last][j]
          /\ SubSeq(x.chunks[last], ofs + 1, ofs + Len(path)) = path
      <4>. HIDE DEF w
      <4>. QED
        BY <2>1, <3>1, <3>2, Written
    <3>4. x = w
      BY DEF w
    <3>. HIDE DEF x, w
    <3>. QED
      BY <3>3, <3>4
  <2>. QED
    BY <1>13, <2>2
<1>. HIDE DEF w
<1>16. InsertPosition(w) = ofs + Len(path)
  BY <1>13, <1>15 DEF InsertPosition
<1>17. Keeps(w, b)
  <2>1. InsertPosition(w) >= ofs
    BY <1>4, <1>8, <1>16
  <2>2. SameBelow(w, a, b, ofs)
    BY <1>7, <1>9, <1>15 DEF SameBelow
  <2>. QED
    BY <1>6, <1>7, <1>8, <1>15, <2>1, <2>2, KeptBelow
<1>18. ref \in Ref /\ ref.chunk = Len(w.chunks) /\ ref.ofs = ofs /\ ref.size = Len(path)
  BY <1>4, <1>8, <1>10, <1>15 DEF Ref
<1>19. AllocAt(w, ref) = path
  BY <1>15, <1>18 DEF AllocAt
<1>20. RefIn(w, ref)
  <2>1. Used(w, Len(w.chunks)) = ofs + Len(path)
    BY <1>16 DEF Used
  <2>2. Len(w.chunks) \in 1 .. Len(w.chunks)
    BY <1>7, <1>10, <1>15
  <2>. QED
    BY <1>14, <1>18, <2>1, <2>2 DEF RefIn
<1>. HIDE DEF ref
<1>21. BufferOK(f) /\ f.chunks = w.chunks /\ InsertPosition(f) = ofs
  <2>1. w.chunks # <<>>
    BY <1>7, <1>10, <1>15
  <2>2. w.rem + Len(path) <= ChunkSize /\ InsertPosition(w) - Len(path) = ofs
    <3>1. w.rem \in Nat /\ ofs + Len(path) = ChunkSize - w.rem /\ Len(path) \in Nat /\ ofs \in Nat
      BY <1>4, <1>8, <1>15, <1>16, BufferFields DEF InsertPosition
    <3>. QED
      BY <1>10, <1>16, <3>1
  <2>. QED
    BY <1>4, <1>15, <2>1, <2>2, Freed
<1>22. n.buf = w /\ n.path = path /\ n.ref = ref /\ Free(n.buf, Len(n.path)) = f
  BY <1>1
<1>. HIDE DEF f
<1>23. Keeps(f, b)
  <2>1. InsertPosition(f) >= ofs
    BY <1>8, <1>21
  <2>2. SameBelow(f, a, b, ofs)
    BY <1>7, <1>9, <1>15, <1>21 DEF SameBelow
  <2>. QED
    BY <1>6, <1>7, <1>8, <1>21, <2>1, <2>2, KeptBelow
<1>24. /\ ref.chunk = Len(w.chunks)
       /\ ref.chunk = Len(b.chunks) => ref.ofs >= InsertPosition(b)
       /\ ref.ofs + ref.size = InsertPosition(w)
  BY <1>8, <1>9, <1>15, <1>16, <1>18
<1>25. Len(w.chunks) \in {Len(b.chunks), Len(b.chunks) + 1} /\ (b.rem = 0 => Len(w.chunks) = Len(b.chunks) + 1)
       /\ Len(f.chunks) = Len(w.chunks)
  BY <1>7, <1>15, <1>21
<1>. QED
  BY <1>2, <1>6, <1>15, <1>17, <1>19, <1>20, <1>21, <1>22, <1>23, <1>24, <1>25 DEF n, b, path

-----------------------------------------------------------------------------
(* path_id_store *)

\* No two references share a cell.
Apart(refs) ==
    \A i, j \in 1 .. Len(refs) :
      i # j /\ refs[i].chunk = refs[j].chunk =>
        refs[i].ofs + refs[i].size <= refs[j].ofs \/ refs[j].ofs + refs[j].size <= refs[i].ofs

\* A store object in memory, but for what current_path has as its id.
PathsHeld(s) ==
    /\ s = [buf |-> s.buf, refs |-> s.refs, max |-> s.max, next |-> s.next, cwd |-> s.cwd, cwdId |-> s.cwdId]
    /\ BufferOK(s.buf)
    /\ s.refs \in Seq(Ref) /\ s.next = Len(s.refs) + 1
    /\ \A i \in 1 .. Len(s.refs) : RefIn(s.buf, s.refs[i])
    /\ Apart(s.refs)
    /\ \A i, j \in 1 .. Len(s.refs) : PathAt(s, i) = PathAt(s, j) => i = j
    /\ NormalPath(s.cwd)

\* The paths of a store are a sequence.
LEMMA PathsInSeq ==
  ASSUME NEW s, PathsHeld(s)
  PROVE  /\ Len(PathsIn(s)) = Len(s.refs) /\ Len(s.refs) \in Nat
         /\ \A i \in 1 .. Len(s.refs) : PathsIn(s)[i] = PathAt(s, i)
<1>1. Len(s.refs) \in Nat
  BY DEF PathsHeld
<1>2. DOMAIN PathsIn(s) = 1 .. Len(s.refs)
  BY DEF PathsIn
<1>3. PathsIn(s) = [i \in 1 .. Len(s.refs) |-> PathAt(s, i)]
  BY DEF PathsIn
<1>. QED
  BY <1>1, <1>2, <1>3

\* A new reference, to a part of the buffer that nothing was allocated in.
LEMMA StaysApart ==
  ASSUME NEW b, BufferOK(b), NEW refs \in Seq(Ref), \A i \in 1 .. Len(refs) : RefIn(b, refs[i]),
         Apart(refs), NEW r \in Ref, r.chunk >= Len(b.chunks),
         r.chunk = Len(b.chunks) => r.ofs >= InsertPosition(b)
  PROVE  Apart(Append(refs, r))
<1>. DEFINE more == Append(refs, r)
            n == Len(refs)
<1>1. n \in Nat /\ Len(more) = n + 1 /\ more[n + 1] = r /\ \A i \in 1 .. n : more[i] = refs[i]
  OBVIOUS
<1>2. ASSUME NEW i \in 1 .. n, refs[i].chunk = r.chunk
      PROVE  refs[i].ofs + refs[i].size <= r.ofs
  <2>1. RefIn(b, refs[i])
    OBVIOUS
  <2>2. refs[i].chunk \in 1 .. Len(b.chunks) /\ refs[i].ofs + refs[i].size <= Used(b, refs[i].chunk)
        /\ refs[i].ofs \in Nat /\ refs[i].size \in Nat
    BY <2>1 DEF RefIn, Ref
  <2>3. Len(b.chunks) \in Nat /\ InsertPosition(b) \in Nat /\ r.chunk \in Nat /\ r.ofs \in Nat
    BY BufferFields, ChunkSizes DEF Ref
  <2>4. r.chunk = Len(b.chunks)
    BY <1>2, <2>2, <2>3
  <2>5. Used(b, refs[i].chunk) = InsertPosition(b)
    BY <1>2, <2>4 DEF Used
  <2>. QED
    BY <2>2, <2>3, <2>4, <2>5
<1>. HIDE DEF more, n
<1>3. ASSUME NEW i \in 1 .. Len(more), NEW j \in 1 .. Len(more), i # j, more[i].chunk = more[j].chunk
      PROVE  more[i].ofs + more[i].size <= more[j].ofs \/ more[j].ofs + more[j].size <= more[i].ofs
  <2>1. CASE i \in 1 .. n /\ j \in 1 .. n
    BY <1>1, <1>3, <2>1 DEF Apart, n
  <2>2. CASE i = n + 1 /\ j \in 1 .. n
    BY <1>1, <1>2, <1>3, <2>2
  <2>3. CASE j = n + 1 /\ i \in 1 .. n
    BY <1>1, <1>2, <1>3, <2>3
  <2>. QED
    BY <1>1, <1>3, <2>1, <2>2, <2>3
<1>4. Apart(more)
  BY <1>3 DEF Apart
<1>. QED
  BY <1>4 DEF more

\* The fields of a store whose buffer, or also references, have changed.
LEMMA PathsFields ==
  ASSUME NEW s, PathsHeld(s), NEW b, NEW r
  PROVE  /\ [s EXCEPT !.buf = b] = [buf |-> b, refs |-> s.refs, max |-> s.max, next |-> s.next,
                                    cwd |-> s.cwd, cwdId |-> s.cwdId]
         /\ [s EXCEPT !.buf = b, !.refs = Append(@, r), !.next = @ + 1]
              = [buf |-> b, refs |-> Append(s.refs, r), max |-> s.max, next |-> s.next + 1,
                 cwd |-> s.cwd, cwdId |-> s.cwdId]
<1>. DEFINE sb == s.buf
            sr == s.refs
            sm == s.max
            sn == s.next
            sc == s.cwd
            si == s.cwdId
<1>1. /\ s = [buf |-> sb, refs |-> sr, max |-> sm, next |-> sn, cwd |-> sc, cwdId |-> si]
      /\ s.refs = sr /\ s.next = sn
  BY DEF PathsHeld
<1>. HIDE DEF sb, sr, sm, sn, sc, si
<1>2. [s EXCEPT !.buf = b] = [buf |-> b, refs |-> sr, max |-> sm, next |-> sn, cwd |-> sc, cwdId |-> si]
  BY <1>1
<1>3. [s EXCEPT !.buf = b, !.refs = Append(@, r), !.next = @ + 1]
        = [buf |-> b, refs |-> Append(sr, r), max |-> sm, next |-> sn + 1, cwd |-> sc, cwdId |-> si]
  <2>1. [s EXCEPT !.buf = b, !.refs = Append(@, r), !.next = @ + 1]
          = [s EXCEPT !.buf = b, !.refs = Append(sr, r), !.next = sn + 1]
    BY <1>1
  <2>. DEFINE x == Append(sr, r)
              y == sn + 1
  <2>. HIDE DEF x, y
  <2>2. [s EXCEPT !.buf = b, !.refs = x, !.next = y]
          = [buf |-> b, refs |-> x, max |-> sm, next |-> y, cwd |-> sc, cwdId |-> si]
    <3>. DEFINE u == [s EXCEPT !.buf = b]
                v == [u EXCEPT !.refs = x]
    <3>1. [s EXCEPT !.buf = b, !.refs = x, !.next = y] = [v EXCEPT !.next = y]
      OBVIOUS
    <3>2. u = [buf |-> b, refs |-> sr, max |-> sm, next |-> sn, cwd |-> sc, cwdId |-> si]
      BY <1>2
    <3>. HIDE DEF u
    <3>3. v = [buf |-> b, refs |-> x, max |-> sm, next |-> sn, cwd |-> sc, cwdId |-> si]
      BY <3>2
    <3>. HIDE DEF v
    <3>4. [v EXCEPT !.next = y] = [buf |-> b, refs |-> x, max |-> sm, next |-> y, cwd |-> sc, cwdId |-> si]
      BY <3>3
    <3>. QED
      BY <3>1, <3>4
  <2>. QED
    BY <2>1, <2>2 DEF x, y
<1>. QED
  BY <1>2, <1>3 DEF sb, sr, sm, sn, sc, si

\* A store whose references are in a buffer that keeps what another one had.
LEMMA PathsKept ==
  ASSUME NEW s, PathsHeld(s), NEW t, BufferOK(t.buf), Keeps(t.buf, s.buf),
         NEW i \in 1 .. Len(s.refs), t.refs[i] = s.refs[i]
  PROVE  RefIn(t.buf, t.refs[i]) /\ PathAt(t, i) = PathAt(s, i)
<1>1. BufferOK(s.buf) /\ RefIn(s.buf, s.refs[i])
  BY DEF PathsHeld
<1>2. RefIn(t.buf, s.refs[i]) /\ AllocAt(t.buf, s.refs[i]) = AllocAt(s.buf, s.refs[i])
  BY <1>1, RefKept
<1>. QED
  BY <1>2 DEF PathAt

\* What try_add does: the path has one id, and those before it keep theirs.
LEMMA PathAdded ==
  ASSUME NEW s, PathsHeld(s), NEW p \in Seq(Component), p # <<>>, Fits(s, p)
  PROVE  LET t == TryAddPath(s, p)
         IN /\ PathsHeld(t) /\ t.max = s.max /\ t.cwd = s.cwd /\ t.cwdId = s.cwdId
            /\ StartsWith(t.refs, s.refs)
            /\ \A i \in 1 .. Len(s.refs) : PathAt(t, i) = PathAt(s, i)
            /\ PathId(t, p) \in 1 .. Len(t.refs) /\ PathAt(t, PathId(t, p)) = Normalize(s.cwd, p)
            /\ Len(t.buf.chunks) >= Len(s.buf.chunks)
            /\ s.buf.rem = 0 => Len(t.buf.chunks) > Len(s.buf.chunks)
<1>. DEFINE t == TryAddPath(s, p)
            n == Normalized(s, p)
            f == Free(n.buf, Len(n.path))
            path == Normalize(s.cwd, p)
            k == Len(s.refs)
<1>1. /\ BufferOK(s.buf) /\ s.refs \in Seq(Ref) /\ k \in Nat /\ s.next = k + 1
      /\ \A i \in 1 .. k : RefIn(s.buf, s.refs[i])
      /\ Apart(s.refs) /\ NormalPath(s.cwd)
      /\ \A i, j \in 1 .. k : PathAt(s, i) = PathAt(s, j) => i = j
  BY DEF PathsHeld
<1>2. /\ n.path = path /\ NormalPath(path)
      /\ BufferOK(n.buf) /\ Keeps(n.buf, s.buf) /\ RefIn(n.buf, n.ref) /\ AllocAt(n.buf, n.ref) = path
      /\ n.ref.chunk = Len(n.buf.chunks)
      /\ n.ref.chunk = Len(s.buf.chunks) => n.ref.ofs >= InsertPosition(s.buf)
      /\ BufferOK(f) /\ Keeps(f, s.buf) /\ Len(f.chunks) = Len(n.buf.chunks)
      /\ Len(n.buf.chunks) \in {Len(s.buf.chunks), Len(s.buf.chunks) + 1}
      /\ s.buf.rem = 0 => Len(n.buf.chunks) = Len(s.buf.chunks) + 1
  <2>. HIDE DEF n, f
  <2>1. n = Normalized(s, p) /\ f = Free(n.buf, Len(n.path))
    BY DEF n, f
  <2>. QED
    BY <1>1, <2>1, NormalizedIn
<1>3. Len(s.buf.chunks) \in Nat
  BY <1>1, BufferFields
<1>. DEFINE u == [s EXCEPT !.buf = n.buf]
<1>4. t = IF IdsOfPath(u, n.path) # {} THEN [s EXCEPT !.buf = f]
          ELSE [s EXCEPT !.buf = n.buf, !.refs = Append(@, n.ref), !.next = @ + 1]
  BY DEF TryAddPath
<1>. HIDE DEF n, f, path
<1>5. u = [buf |-> n.buf, refs |-> s.refs, max |-> s.max, next |-> s.next, cwd |-> s.cwd, cwdId |-> s.cwdId]
  BY PathsFields
<1>6. u.buf = n.buf /\ u.refs = s.refs
  BY <1>5
<1>. HIDE DEF u, t
<1>7. \A i \in 1 .. k : PathAt(u, i) = PathAt(s, i)
  <2>. SUFFICES ASSUME NEW i \in 1 .. k PROVE PathAt(u, i) = PathAt(s, i)
    OBVIOUS
  <2>. QED
    BY <1>2, <1>6, PathsKept
<1>8. IdsOfPath(u, n.path) = {i \in 1 .. k : PathAt(s, i) = path}
  BY <1>2, <1>6, <1>7 DEF IdsOfPath
<1>. DEFINE Goal == /\ PathsHeld(t) /\ t.max = s.max /\ t.cwd = s.cwd /\ t.cwdId = s.cwdId
                    /\ StartsWith(t.refs, s.refs)
                    /\ \A i \in 1 .. k : PathAt(t, i) = PathAt(s, i)
                    /\ \E i \in 1 .. Len(t.refs) : PathAt(t, i) = path
                    /\ Len(t.buf.chunks) >= Len(s.buf.chunks)
                    /\ s.buf.rem = 0 => Len(t.buf.chunks) > Len(s.buf.chunks)
<1>9. ASSUME IdsOfPath(u, n.path) # {} PROVE Goal
  <2>1. t = [buf |-> f, refs |-> s.refs, max |-> s.max, next |-> s.next, cwd |-> s.cwd, cwdId |-> s.cwdId]
    BY <1>4, <1>9, PathsFields
  <2>2. t.buf = f /\ t.refs = s.refs /\ t.max = s.max /\ t.next = s.next /\ t.cwd = s.cwd /\ t.cwdId = s.cwdId
    BY <2>1
  <2>3. ASSUME NEW i \in 1 .. k PROVE RefIn(t.buf, t.refs[i]) /\ PathAt(t, i) = PathAt(s, i)
    BY <1>2, <2>2, PathsKept
  <2>4. PathsHeld(t)
    BY <1>1, <1>2, <2>1, <2>2, <2>3 DEF PathsHeld
  <2>5. \E i \in 1 .. Len(t.refs) : PathAt(t, i) = path
    <3>1. PICK i \in 1 .. k : PathAt(s, i) = path
      BY <1>8, <1>9
    <3>2. i \in 1 .. Len(t.refs) /\ PathAt(t, i) = path
      BY <2>2, <2>3, <3>1
    <3>. QED
      BY <3>2
  <2>6. StartsWith(t.refs, s.refs)
    BY <1>1, <2>2 DEF StartsWith
  <2>7. Len(t.buf.chunks) >= Len(s.buf.chunks) /\ (s.buf.rem = 0 => Len(t.buf.chunks) > Len(s.buf.chunks))
    BY <1>2, <1>3, <2>2
  <2>. QED
    BY <2>2, <2>3, <2>4, <2>5, <2>6, <2>7
<1>10. ASSUME IdsOfPath(u, n.path) = {} PROVE Goal
  <2>1. t = [buf |-> n.buf, refs |-> Append(s.refs, n.ref), max |-> s.max, next |-> s.next + 1,
             cwd |-> s.cwd, cwdId |-> s.cwdId]
    BY <1>4, <1>10, PathsFields
  <2>2. t.buf = n.buf /\ t.refs = Append(s.refs, n.ref) /\ t.max = s.max /\ t.next = s.next + 1
        /\ t.cwd = s.cwd /\ t.cwdId = s.cwdId
    BY <2>1
  <2>3. n.ref \in Ref
    BY <1>2 DEF RefIn
  <2>4. t.refs \in Seq(Ref) /\ Len(t.refs) = k + 1 /\ t.refs[k + 1] = n.ref
        /\ \A i \in 1 .. k : t.refs[i] = s.refs[i]
    BY <1>1, <2>2, <2>3
  <2>5. ASSUME NEW i \in 1 .. k PROVE RefIn(t.buf, t.refs[i]) /\ PathAt(t, i) = PathAt(s, i)
    BY <1>2, <2>2, <2>4, PathsKept
  <2>6. RefIn(t.buf, t.refs[k + 1]) /\ PathAt(t, k + 1) = path
    BY <1>2, <2>2, <2>4 DEF PathAt
  <2>7. \A i \in 1 .. k : PathAt(s, i) # path
    BY <1>8, <1>10
  <2>8. Apart(t.refs)
    <3>1. n.ref.chunk >= Len(s.buf.chunks)
      BY <1>2, <1>3
    <3>. QED
      BY <1>1, <1>2, <2>2, <2>3, <3>1, StaysApart
  <2>9. \A i \in 1 .. k + 1 : RefIn(t.buf, t.refs[i])
    <3>1. \A i \in 1 .. k + 1 : i \in 1 .. k \/ i = k + 1
      BY <1>1
    <3>. QED
      BY <2>5, <2>6, <3>1
  <2>10. ASSUME NEW i \in 1 .. k + 1, NEW j \in 1 .. k + 1, PathAt(t, i) = PathAt(t, j) PROVE i = j
    <3>1. (i \in 1 .. k \/ i = k + 1) /\ (j \in 1 .. k \/ j = k + 1)
      BY <1>1
    <3>2. CASE i \in 1 .. k /\ j \in 1 .. k
      BY <1>1, <2>5, <2>10, <3>2
    <3>3. CASE i \in 1 .. k /\ j = k + 1
      BY <2>5, <2>6, <2>7, <2>10, <3>3
    <3>4. CASE j \in 1 .. k /\ i = k + 1
      BY <2>5, <2>6, <2>7, <2>10, <3>4
    <3>. QED
      BY <3>1, <3>2, <3>3, <3>4
  <2>11. PathsHeld(t)
    <3>1. t.next = Len(t.refs) + 1
      BY <1>1, <2>2, <2>4
    <3>2. t = [buf |-> t.buf, refs |-> t.refs, max |-> t.max, next |-> t.next, cwd |-> t.cwd, cwdId |-> t.cwdId]
      BY <2>1, <2>2
    <3>3. BufferOK(t.buf) /\ NormalPath(t.cwd)
      BY <1>1, <1>2, <2>2
    <3>4. \A i, j \in 1 .. Len(t.refs) : PathAt(t, i) = PathAt(t, j) => i = j
      BY <2>4, <2>10
    <3>. QED
      BY <2>4, <2>8, <2>9, <3>1, <3>2, <3>3, <3>4 DEF PathsHeld
  <2>12. \E i \in 1 .. Len(t.refs) : PathAt(t, i) = path
    <3>1. k + 1 \in 1 .. Len(t.refs)
      BY <1>1, <2>4
    <3>. QED
      BY <2>6, <3>1
  <2>13. StartsWith(t.refs, s.refs)
    BY <1>1, <2>4 DEF StartsWith
  <2>14. Len(t.buf.chunks) >= Len(s.buf.chunks) /\ (s.buf.rem = 0 => Len(t.buf.chunks) > Len(s.buf.chunks))
    BY <1>2, <1>3, <2>2
  <2>. QED
    BY <2>2, <2>5, <2>11, <2>12, <2>13, <2>14
<1>11. Goal
  <2>. HIDE DEF Goal
  <2>. QED
    BY <1>9, <1>10
<1>12. PathId(t, p) \in 1 .. Len(t.refs) /\ PathAt(t, PathId(t, p)) = path
  <2>1. PathId(t, p) = CHOOSE i \in IdsOfPath(t, path) : TRUE
    BY <1>11 DEF PathId, path
  <2>2. IdsOfPath(t, path) # {}
    BY <1>11 DEF IdsOfPath
  <2>3. PathId(t, p) \in IdsOfPath(t, path)
    BY <2>1, <2>2
  <2>. QED
    BY <2>3 DEF IdsOfPath
<1>. QED
  BY <1>11, <1>12 DEF t, path

\* Nothing in a normalized path climbs.
LEMMA NormalFits ==
  ASSUME NEW q, NormalPath(q), NEW s, Len(q) <= ChunkSize
  PROVE  q # <<>> /\ Fits(s, q)
<1>1. q \in Seq(Component) /\ Len(q) \in Nat /\ Len(q) >= 1 /\ q[1] = Root /\ \A j \in 2 .. Len(q) : IsDir(q[j])
  BY DEF NormalPath
<1>2. Absolute(q) /\ q # <<>>
  BY <1>1 DEF Absolute
<1>3. Full(s.cwd, q) = q /\ RawSize(s.cwd, q) = Len(q)
  BY <1>2 DEF Full, RawSize
<1>4. ASSUME NEW k \in 1 .. Len(q) PROVE ~(Depth(q, k) < 0)
  <2>1. Parents(q, k) = {}
    <3>1. ASSUME NEW l \in 1 .. k PROVE q[l] # Parent
      <4>1. l = 1 \/ l \in 2 .. Len(q)
        BY <1>1
      <4>2. l \in 2 .. Len(q) => IsDir(q[l])
        BY <1>1
      <4>. QED
        BY <1>1, <4>1, <4>2, Components
    <3>. QED
      BY <3>1 DEF Parents
  <2>2. Cardinality({}) = 0
    BY FS_EmptySet
  <2>3. IsFiniteSet(1 .. k)
    BY FS_Interval
  <2>4. Dirs(q, k) \subseteq 1 .. k
    BY DEF Dirs
  <2>5. Cardinality(Dirs(q, k)) \in Nat
    <3>. DEFINE D == Dirs(q, k)
    <3>1. D \subseteq 1 .. k
      BY <2>4
    <3>. HIDE DEF D
    <3>2. IsFiniteSet(D)
      BY <2>3, <3>1, FS_Subset
    <3>3. Cardinality(D) \in Nat
      BY <3>2, FS_CardinalityType
    <3>. QED
      BY <3>3 DEF D
  <2>. QED
    BY <2>1, <2>2, <2>5 DEF Depth
<1>. QED
  BY <1>2, <1>3, <1>4 DEF Fits, ClimbsAboveRoot

\* update_current_path, when a store is read.
LEMMA CurrentPathUpdated ==
  ASSUME NEW s, PathsHeld(s), NEW root \in Seq(Component), root # <<>>, Fits(s, root)
  PROVE  LET u == UpdateCurrentPath(s, root)
         IN /\ PathsHeld(u) /\ u.max = s.max /\ u.cwd = Normalize(s.cwd, root)
            /\ u.cwdId \in 1 .. Len(u.refs) /\ PathAt(u, u.cwdId) = u.cwd
            /\ Len(s.refs) <= Len(u.refs)
            /\ \A i \in 1 .. Len(s.refs) : PathAt(u, i) = PathAt(s, i)
            /\ Len(u.buf.chunks) >= Len(s.buf.chunks)
            /\ s.buf.rem = 0 => Len(u.buf.chunks) > Len(s.buf.chunks)
<1>. DEFINE n == Normalized(s, root)
            path == Normalize(s.cwd, root)
            f == Free(n.buf, Len(n.path))
            s1 == [s EXCEPT !.buf = f, !.cwd = n.path]
            t == TryAddPath(s1, n.path)
            u == UpdateCurrentPath(s, root)
            k == Len(s.refs)
<1>1. /\ BufferOK(s.buf) /\ s.refs \in Seq(Ref) /\ k \in Nat /\ s.next = k + 1
      /\ \A i \in 1 .. k : RefIn(s.buf, s.refs[i])
      /\ Apart(s.refs) /\ NormalPath(s.cwd)
      /\ \A i, j \in 1 .. k : PathAt(s, i) = PathAt(s, j) => i = j
  BY DEF PathsHeld
<1>2. /\ n.path = path /\ NormalPath(path) /\ BufferOK(f) /\ Keeps(f, s.buf)
      /\ Len(f.chunks) \in {Len(s.buf.chunks), Len(s.buf.chunks) + 1}
      /\ s.buf.rem = 0 => Len(f.chunks) = Len(s.buf.chunks) + 1
  <2>. HIDE DEF n, f
  <2>1. n = Normalized(s, root) /\ f = Free(n.buf, Len(n.path))
    BY DEF n, f
  <2>. QED
    BY <1>1, <2>1, NormalizedIn
<1>3. Len(path) <= ChunkSize
  <2>1. Len(path) <= RawSize(s.cwd, root) /\ RawSize(s.cwd, root) <= ChunkSize
    BY <1>1, NormalizeOK DEF Fits
  <2>2. Len(path) \in Nat /\ RawSize(s.cwd, root) \in Nat /\ ChunkSize \in Nat
    BY <1>1, <1>2, ChunkSizes DEF NormalPath, RawSize
  <2>. QED
    BY <2>1, <2>2
<1>4. u = [t EXCEPT !.cwdId = PathId(t, n.path)]
  BY DEF UpdateCurrentPath
<1>. HIDE DEF n, f, u
<1>5. s1 = [buf |-> f, refs |-> s.refs, max |-> s.max, next |-> s.next, cwd |-> n.path, cwdId |-> s.cwdId]
  <2>. DEFINE v == [s EXCEPT !.buf = f]
              q == n.path
              sr == s.refs
              sm == s.max
              sn == s.next
              sc == s.cwd
              si == s.cwdId
  <2>1. s1 = [v EXCEPT !.cwd = q]
    OBVIOUS
  <2>2. v = [buf |-> f, refs |-> sr, max |-> sm, next |-> sn, cwd |-> sc, cwdId |-> si]
    BY PathsFields
  <2>. HIDE DEF v, q, sr, sm, sn, sc, si
  <2>3. [v EXCEPT !.cwd = q] = [buf |-> f, refs |-> sr, max |-> sm, next |-> sn, cwd |-> q, cwdId |-> si]
    BY <2>2
  <2>. QED
    BY <2>1, <2>3 DEF q, sr, sm, sn, si
<1>6. s1.buf = f /\ s1.refs = s.refs /\ s1.max = s.max /\ s1.next = s.next /\ s1.cwd = path /\ s1.cwdId = s.cwdId
  BY <1>2, <1>5
<1>. HIDE DEF s1, path
<1>7. ASSUME NEW i \in 1 .. k PROVE RefIn(s1.buf, s1.refs[i]) /\ PathAt(s1, i) = PathAt(s, i)
  BY <1>2, <1>6, PathsKept
<1>8. PathsHeld(s1)
  BY <1>1, <1>2, <1>5, <1>6, <1>7 DEF PathsHeld
<1>9. path \in Seq(Component) /\ path # <<>> /\ Fits(s1, path) /\ Normalize(s1.cwd, path) = path
  <2>1. path \in Seq(Component)
    BY <1>2 DEF NormalPath
  <2>2. s1.cwd \in Seq(Component)
    BY <1>6, <2>1
  <2>. QED
    BY <1>2, <1>3, <2>1, <2>2, NormalFits, NormalFixed
<1>10. /\ PathsHeld(t) /\ t.max = s1.max /\ t.cwd = s1.cwd
       /\ StartsWith(t.refs, s1.refs)
       /\ \A i \in 1 .. Len(s1.refs) : PathAt(t, i) = PathAt(s1, i)
       /\ PathId(t, n.path) \in 1 .. Len(t.refs) /\ PathAt(t, PathId(t, n.path)) = path
       /\ Len(t.buf.chunks) >= Len(s1.buf.chunks)
  <2>. HIDE DEF t
  <2>1. t = TryAddPath(s1, path)
    BY <1>2 DEF t
  <2>. QED
    BY <1>2, <1>8, <1>9, <2>1, PathAdded
<1>. DEFINE id == PathId(t, n.path)
<1>. HIDE DEF t, id
<1>11. u = [buf |-> t.buf, refs |-> t.refs, max |-> t.max, next |-> t.next, cwd |-> t.cwd, cwdId |-> id]
  <2>. DEFINE tb == t.buf
              tr == t.refs
              tm == t.max
              tn == t.next
              tc == t.cwd
              ti == t.cwdId
  <2>1. t = [buf |-> tb, refs |-> tr, max |-> tm, next |-> tn, cwd |-> tc, cwdId |-> ti]
    BY <1>10 DEF PathsHeld
  <2>2. u = [t EXCEPT !.cwdId = id]
    BY <1>4 DEF id
  <2>. HIDE DEF tb, tr, tm, tn, tc, ti
  <2>3. u = [buf |-> tb, refs |-> tr, max |-> tm, next |-> tn, cwd |-> tc, cwdId |-> id]
    BY <2>1, <2>2
  <2>. QED
    BY <2>3 DEF tb, tr, tm, tn, tc
<1>12. u.buf = t.buf /\ u.refs = t.refs /\ u.max = t.max /\ u.next = t.next /\ u.cwd = t.cwd /\ u.cwdId = id
  BY <1>11
<1>13. \A i \in Nat : PathAt(u, i) = PathAt(t, i)
  BY <1>12 DEF PathAt
<1>14. PathsHeld(u)
  <2>1. u = [buf |-> u.buf, refs |-> u.refs, max |-> u.max, next |-> u.next, cwd |-> u.cwd, cwdId |-> u.cwdId]
    BY <1>11, <1>12
  <2>2. /\ BufferOK(t.buf) /\ t.refs \in Seq(Ref) /\ t.next = Len(t.refs) + 1
        /\ \A i \in 1 .. Len(t.refs) : RefIn(t.buf, t.refs[i])
        /\ Apart(t.refs) /\ NormalPath(t.cwd)
        /\ \A i, j \in 1 .. Len(t.refs) : PathAt(t, i) = PathAt(t, j) => i = j
    BY <1>10 DEF PathsHeld
  <2>3. \A i, j \in 1 .. Len(u.refs) : PathAt(u, i) = PathAt(u, j) => i = j
    BY <1>12, <1>13, <2>2
  <2>. QED
    BY <1>12, <2>1, <2>2, <2>3 DEF PathsHeld
<1>15. id \in 1 .. Len(t.refs) /\ PathAt(t, id) = path
  BY <1>10 DEF id
<1>16. k <= Len(u.refs) /\ Len(u.refs) \in Nat
  BY <1>6, <1>10, <1>12 DEF StartsWith, PathsHeld
<1>17. /\ Len(u.buf.chunks) >= Len(s.buf.chunks)
       /\ s.buf.rem = 0 => Len(u.buf.chunks) > Len(s.buf.chunks)
  <2>1. Len(s.buf.chunks) \in Nat /\ Len(f.chunks) \in Nat /\ Len(t.buf.chunks) \in Nat
    BY <1>1, <1>2, <1>10, BufferFields DEF PathsHeld
  <2>2. u.buf.chunks = t.buf.chunks /\ s1.buf.chunks = f.chunks
    BY <1>6, <1>12
  <2>3. Len(u.buf.chunks) >= Len(f.chunks)
    BY <1>10, <2>2
  <2>4. Len(f.chunks) >= Len(s.buf.chunks) /\ (s.buf.rem = 0 => Len(f.chunks) > Len(s.buf.chunks))
    BY <1>2, <2>1
  <2>. QED
    BY <2>1, <2>2, <2>3, <2>4, SMTT(30)
<1>18. \A i \in 1 .. k : PathAt(u, i) = PathAt(s, i)
  BY <1>6, <1>7, <1>10, <1>13
<1>. QED
  BY <1>6, <1>10, <1>12, <1>13, <1>14, <1>15, <1>16, <1>17, <1>18 DEF u, path

\* The references in a database, and how many chunks.
SavedRefs(db)   == IF Has(db, 0) THEN db[0] ELSE <<>>
SavedChunks(db) == Cardinality(DOMAIN db \ {0})

\* Chunks 1 to n: each is full but for the last one.
ChunksSaved(db, n) ==
    /\ n \in Nat /\ DOMAIN db = IF n = 0 THEN {} ELSE 0 .. n
    /\ \A k \in 1 .. n : /\ db[k] \in Seq(Component) /\ Len(db[k]) <= ChunkSize
                         /\ k < n => Len(db[k]) = ChunkSize

\* A database as read_paths expects it.
PathsSaved(db) ==
    /\ ChunksSaved(db, SavedChunks(db))
    /\ SavedRefs(db) \in Seq(Ref) /\ Apart(SavedRefs(db))
    /\ \A i \in 1 .. Len(SavedRefs(db)) :
         LET r == SavedRefs(db)[i]
         IN r.chunk \in 1 .. SavedChunks(db) /\ r.ofs + r.size <= Len(db[r.chunk])
    /\ \A i, j \in 1 .. Len(SavedRefs(db)) : SavedPaths(db)[i] = SavedPaths(db)[j] => i = j

\* An empty database has no paths.
LEMMA NoPathsSaved == PathsSaved(EmptyDb) /\ SavedPaths(EmptyDb) = <<>>
<1>1. DOMAIN EmptyDb = {} /\ ~Has(EmptyDb, 0)
  BY DEF EmptyDb, Has
<1>2. Cardinality({}) = 0
  BY FS_EmptySet
<1>3. SavedChunks(EmptyDb) = 0
  <2>1. DOMAIN EmptyDb \ {0} = {}
    BY <1>1
  <2>. QED
    BY <1>2, <2>1 DEF SavedChunks
<1>4. SavedRefs(EmptyDb) = <<>>
  BY <1>1 DEF SavedRefs
<1>. HIDE DEF EmptyDb
<1>5. ChunksSaved(EmptyDb, 0)
  BY <1>1 DEF ChunksSaved
<1>6. SavedPaths(EmptyDb) = <<>>
  BY <1>1 DEF SavedPaths
<1>. QED
  BY <1>3, <1>4, <1>5, <1>6 DEF PathsSaved, Apart

\* b has the first k chunks of db, the last of them if there is something in it.
ReadTo(b, db, n, k) ==
    /\ BufferOK(b)
    /\ k < n => b.rem = 0 /\ Len(b.chunks) = k
    /\ k = n /\ k # 0 => IF db[k] = <<>> THEN Len(b.chunks) = k - 1 /\ b.rem = 0
                         ELSE Len(b.chunks) = k /\ InsertPosition(b) = Len(db[k])
    /\ k = 0 => Len(b.chunks) = 0
    /\ \A j \in 1 .. k : \A c \in 1 .. Len(db[j]) : b.chunks[j][c] = db[j][c]

\* copy: the string is at the end of what is allocated.
LEMMA CopyOK ==
  ASSUME NEW b, BufferOK(b), NEW s \in Seq(Component), Len(s) <= ChunkSize
  PROVE  BufferOK(Copy(b, s)) /\ (s = <<>> => Copy(b, s) = b)
<1>. DEFINE a == Alloc(b, Len(s))
<1>1. /\ b.chunks \in Seq(Chunk) /\ b.rem \in 0 .. ChunkSize /\ b = [chunks |-> b.chunks, rem |-> b.rem]
      /\ ChunkSize \in Nat /\ ChunkSize >= 1 /\ Len(s) \in Nat
  BY BufferFields, ChunkSizes
<1>2. CASE s = <<>>
  <2>1. Len(s) = 0 /\ 0 <= b.rem
    BY <1>1, <1>2
  <2>2. a = [b EXCEPT !.rem = b.rem - 0]
    BY <2>1 DEF Alloc
  <2>3. b.rem - 0 = b.rem
    BY <1>1
  <2>4. a = b
    BY <1>1, <2>2, <2>3
  <2>5. Copy(b, s) = a
    BY <1>2 DEF Copy, Write
  <2>. QED
    BY <2>4, <2>5
<1>3. CASE s # <<>>
  <2>1. Len(s) \in 1 .. ChunkSize
    BY <1>1, <1>3
  <2>2. BufferOK(a) /\ Len(a.chunks) >= 1 /\ InsertPosition(a) - Len(s) \in Nat
    BY <2>1, Allocated
  <2>. DEFINE ofs == InsertPosition(a) - Len(s)
  <2>3. Copy(b, s) = Write(a, ofs, s)
    BY DEF Copy
  <2>4. ofs + Len(s) <= ChunkSize
    <3>1. InsertPosition(a) \in 0 .. ChunkSize
      BY <2>2, BufferFields
    <3>. QED
      BY <1>1, <3>1
  <2>5. ofs \in Nat
    BY <2>2
  <2>. HIDE DEF a, ofs
  <2>. QED
    BY <1>3, <2>2, <2>3, <2>4, <2>5, Written
<1>. QED
  BY <1>2, <1>3

\* copy of one more chunk.
LEMMA ChunkRead ==
  ASSUME NEW db, NEW n, ChunksSaved(db, n), NEW k \in Nat, k < n, NEW b, ReadTo(b, db, n, k)
  PROVE  ReadTo(Copy(b, db[k + 1]), db, n, k + 1)
<1>. DEFINE s == db[k + 1]
            a == Alloc(b, Len(s))
            w == Copy(b, s)
<1>1. /\ n \in Nat /\ k + 1 \in 1 .. n /\ s \in Seq(Component) /\ Len(s) <= ChunkSize
      /\ k + 1 < n => Len(s) = ChunkSize
  BY DEF ChunksSaved
<1>2. /\ BufferOK(b) /\ b.rem = 0 /\ Len(b.chunks) = k
      /\ \A j \in 1 .. k : \A c \in 1 .. Len(db[j]) : b.chunks[j][c] = db[j][c]
  BY DEF ReadTo
<1>3. BufferOK(w) /\ (s = <<>> => w = b)
  BY <1>1, <1>2, CopyOK
<1>4. ChunkSize \in Nat /\ ChunkSize >= 1 /\ Len(s) \in Nat /\ \A j \in 1 .. k + 1 : j \in 1 .. k \/ j = k + 1
  BY <1>1, ChunkSizes
<1>5. CASE s = <<>>
  <2>1. Len(s) = 0 /\ k + 1 = n
    BY <1>1, <1>4, <1>5
  <2>2. w = b
    BY <1>3, <1>5
  <2>. HIDE DEF w
  <2>3. \A j \in 1 .. k + 1 : \A c \in 1 .. Len(db[j]) : w.chunks[j][c] = db[j][c]
    <3>. SUFFICES ASSUME NEW j \in 1 .. k + 1, NEW c \in 1 .. Len(db[j]) PROVE w.chunks[j][c] = db[j][c]
      OBVIOUS
    <3>1. j # k + 1
      BY <2>1
    <3>2. j \in 1 .. k
      BY <1>4, <3>1
    <3>. QED
      BY <1>2, <2>2, <3>2
  <2>4. k + 1 # 0 /\ (k + 1) - 1 = k
    OBVIOUS
  <2>5. ReadTo(w, db, n, k + 1)
    BY <1>2, <1>3, <1>5, <2>1, <2>2, <2>3, <2>4 DEF ReadTo
  <2>. QED
    BY <2>5 DEF w
<1>6. CASE s # <<>>
  <2>1. Len(s) \in 1 .. ChunkSize
    BY <1>1, <1>4, <1>6
  <2>2. /\ BufferOK(a) /\ Len(a.chunks) = k + 1 /\ a.rem = ChunkSize - Len(s)
        /\ \A j \in 1 .. k : a.chunks[j] = b.chunks[j]
    BY <1>2, <2>1, Allocated
  <2>3. InsertPosition(a) - Len(s) = 0
    BY <1>4, <2>2 DEF InsertPosition
  <2>4. w = Write(a, 0, s)
    BY <2>3 DEF Copy
  <2>. HIDE DEF a, w
  <2>5. /\ w.rem = a.rem /\ Len(w.chunks) = Len(a.chunks)
        /\ \A j \in 1 .. Len(a.chunks) - 1 : w.chunks[j] = a.chunks[j]
        /\ SubSeq(w.chunks[Len(a.chunks)], 0 + 1, 0 + Len(s)) = s
    <3>1. Len(a.chunks) >= 1 /\ 0 \in Nat /\ 0 + Len(s) <= ChunkSize
      BY <1>1, <1>4, <2>2
    <3>. QED
      BY <1>1, <1>6, <2>2, <2>4, <3>1, Written, SMTT(30)
  <2>6. /\ Len(w.chunks) = k + 1 /\ InsertPosition(w) = Len(s) /\ (Len(s) = ChunkSize => w.rem = 0)
        /\ \A j \in 1 .. k : w.chunks[j] = b.chunks[j]
    <3>1. w.rem = ChunkSize - Len(s) /\ (k + 1) - 1 = k
      BY <2>2, <2>5
    <3>. QED
      BY <1>4, <2>2, <2>5, <3>1 DEF InsertPosition
  <2>7. \A c \in 1 .. Len(s) : w.chunks[k + 1][c] = s[c]
    <3>. DEFINE ch == w.chunks[k + 1]
    <3>1. ch \in Seq(Component) /\ Len(ch) = ChunkSize
      BY <1>3, <2>6, BufferFields
    <3>2. SubSeq(ch, 0 + 1, 0 + Len(s)) = s
      BY <2>2, <2>5
    <3>. HIDE DEF ch
    <3>3. 0 \in Nat /\ 0 + Len(s) <= Len(ch)
      BY <1>1, <1>4, <3>1
    <3>4. \A j \in 1 .. Len(s) : SubSeq(ch, 0 + 1, 0 + Len(s))[j] = ch[0 + j]
      BY <1>4, <3>1, <3>3, PartOf
    <3>5. \A j \in 1 .. Len(s) : 0 + j = j
      OBVIOUS
    <3>. QED
      BY <3>2, <3>4, <3>5 DEF ch
  <2>8. \A j \in 1 .. k + 1 : \A c \in 1 .. Len(db[j]) : w.chunks[j][c] = db[j][c]
    <3>. SUFFICES ASSUME NEW j \in 1 .. k + 1, NEW c \in 1 .. Len(db[j]) PROVE w.chunks[j][c] = db[j][c]
      OBVIOUS
    <3>1. CASE j \in 1 .. k
      BY <1>2, <2>6, <3>1, SMTT(30)
    <3>2. CASE j = k + 1
      BY <2>7, <3>2
    <3>. QED
      BY <1>4, <3>1, <3>2
  <2>9. ReadTo(w, db, n, k + 1)
    BY <1>1, <1>3, <1>4, <1>6, <2>6, <2>8 DEF ReadTo
  <2>. QED
    BY <2>9 DEF w
<1>. QED
  BY <1>5, <1>6

\* The buffer that read_paths makes.
ReadBuffer(db) ==
    LET n == Cardinality(DOMAIN db \ {0})
        buf[k \in 0 .. n] == IF k = 0 THEN NoChunks ELSE Copy(buf[k - 1], db[k])
    IN buf[n]

\* read_paths: every chunk is read.
LEMMA BufferRead ==
  ASSUME NEW db, PathsSaved(db)
  PROVE  LET n == SavedChunks(db) IN ReadTo(ReadBuffer(db), db, n, n)
<1>. DEFINE n == Cardinality(DOMAIN db \ {0})
            buf[k \in 0 .. n] == IF k = 0 THEN NoChunks ELSE Copy(buf[k - 1], db[k])
            V == {b \in Buffer : BufferOK(b)}
            step == [k \in 1 .. n |-> [b \in V |-> Copy(b, db[k])]]
<1>1. n = SavedChunks(db)
  BY DEF SavedChunks
<1>2. ReadBuffer(db) = buf[n]
  BY DEF ReadBuffer
<1>3. buf = CHOOSE g : g = [k \in 0 .. n |-> IF k = 0 THEN NoChunks ELSE Copy(g[k - 1], db[k])]
  BY DEF buf
<1>. HIDE DEF n, buf
<1>4. ChunksSaved(db, n) /\ n \in Nat
  BY <1>1 DEF PathsSaved, ChunksSaved
<1>5. BufferOK(NoChunks) /\ NoChunks \in V /\ NoChunks.rem = 0 /\ Len(NoChunks.chunks) = 0
  <2>1. <<>> \in Seq(Chunk) /\ Len(<<>>) = 0 /\ 0 \in 0 .. ChunkSize
    BY ChunkSizes
  <2>2. NoChunks \in Buffer /\ NoChunks.chunks = <<>> /\ NoChunks.rem = 0
    BY <2>1 DEF NoChunks, Buffer
  <2>. QED
    BY <2>1, <2>2 DEF BufferOK
<1>6. step \in [1 .. n -> [V -> V]]
  <2>1. ASSUME NEW k \in 1 .. n, NEW b \in V PROVE Copy(b, db[k]) \in V
    <3>1. BufferOK(b) /\ db[k] \in Seq(Component) /\ Len(db[k]) <= ChunkSize
      BY <1>4 DEF ChunksSaved
    <3>2. BufferOK(Copy(b, db[k]))
      BY <3>1, CopyOK
    <3>. QED
      BY <3>2 DEF BufferOK
  <2>. HIDE DEF V
  <2>. QED
    BY <2>1
<1>. HIDE DEF V
<1>7. PICK f : Recursive(f, n, V, NoChunks, step)
  BY <1>4, <1>5, <1>6, Recursion
<1>8. ASSUME NEW k \in 1 .. n PROVE k - 1 \in 0 .. n /\ f[k] = Copy(f[k - 1], db[k])
  <2>1. k - 1 \in 0 .. n
    BY <1>4
  <2>2. f[k - 1] \in V
    BY <1>7, <2>1 DEF Recursive
  <2>3. f[k] = step[k][f[k - 1]]
    BY <1>7 DEF Recursive
  <2>. QED
    BY <2>1, <2>2, <2>3
<1>9. f = [k \in 0 .. n |-> IF k = 0 THEN NoChunks ELSE Copy(f[k - 1], db[k])]
  <2>1. f \in [0 .. n -> V] /\ f[0] = NoChunks
    BY <1>7 DEF Recursive
  <2>. HIDE DEF step
  <2>2. \A k \in 0 .. n : f[k] = IF k = 0 THEN NoChunks ELSE Copy(f[k - 1], db[k])
    <3>. SUFFICES ASSUME NEW k \in 0 .. n PROVE f[k] = IF k = 0 THEN NoChunks ELSE Copy(f[k - 1], db[k])
      OBVIOUS
    <3>1. k # 0 => k \in 1 .. n
      BY <1>4
    <3>. QED
      BY <1>8, <2>1, <3>1
  <2>3. f = [k \in 0 .. n |-> f[k]]
    BY <2>1
  <2>. QED
    BY <2>2, <2>3, Zenon
<1>10. buf = [k \in 0 .. n |-> IF k = 0 THEN NoChunks ELSE Copy(buf[k - 1], db[k])]
  BY <1>3, <1>9
<1>11. buf[0] = NoChunks /\ \A k \in 0 .. n : k # 0 => buf[k] = Copy(buf[k - 1], db[k])
  <2>1. 0 \in 0 .. n
    BY <1>4
  <2>. QED
    BY <1>10, <2>1, Zenon
<1>. DEFINE S == {k \in Nat : k <= n => ReadTo(buf[k], db, n, k)}
<1>12. 0 \in S
  <2>1. ReadTo(NoChunks, db, n, 0)
    BY <1>4, <1>5 DEF ReadTo
  <2>. QED
    BY <1>11, <2>1
<1>13. ASSUME NEW k \in S PROVE k + 1 \in S
  <2>. SUFFICES ASSUME k + 1 <= n PROVE ReadTo(buf[k + 1], db, n, k + 1)
    BY DEF S
  <2>1. k \in Nat /\ k < n /\ ReadTo(buf[k], db, n, k) /\ k + 1 \in 0 .. n /\ k + 1 # 0 /\ (k + 1) - 1 = k
    BY <1>4, <1>13
  <2>2. buf[k + 1] = Copy(buf[k], db[k + 1])
    BY <1>11, <2>1
  <2>. QED
    BY <1>4, <2>1, <2>2, ChunkRead
<1>14. S = Nat
  <2>1. S \in SUBSET Nat
    OBVIOUS
  <2>. HIDE DEF S
  <2>. QED
    BY <1>12, <1>13, <2>1, Induction
<1>15. ReadTo(buf[n], db, n, n)
  BY <1>4, <1>14
<1>. QED
  BY <1>1, <1>2, <1>15

\* A store that was read from db, and grew.
PathsOpen(s, db) ==
    /\ PathsHeld(s)
    /\ s.cwdId \in 1 .. Len(s.refs) /\ PathAt(s, s.cwdId) = s.cwd
    /\ s.max = Len(SavedRefs(db)) /\ s.max <= Len(s.refs)
    /\ \A i \in 1 .. s.max : PathAt(s, i) = SavedPaths(db)[i]
    /\ Len(s.buf.chunks) >= SavedChunks(db)

\* read_paths.
LEMMA PathsRead ==
  ASSUME NEW db, PathsSaved(db), NEW root \in Seq(Component), root # <<>>, Fits(NewPathStore, root)
  PROVE  LET s == ReadPaths(db, root) IN PathsOpen(s, db) /\ s.cwd = Normalize(<<Root>>, root)
<1>. DEFINE n == SavedChunks(db)
            b == ReadBuffer(db)
            refs == SavedRefs(db)
            m == Len(refs)
            s == [NewPathStore EXCEPT !.buf = b, !.refs = refs, !.max = m, !.next = m + 1]
            u == ReadPaths(db, root)
<1>1. u = UpdateCurrentPath(s, root)
  BY Zenon DEF ReadPaths, ReadBuffer, SavedRefs
<1>2. /\ refs \in Seq(Ref) /\ Apart(refs) /\ m \in Nat /\ n \in Nat /\ ChunksSaved(db, n)
      /\ \A i \in 1 .. m : refs[i].chunk \in 1 .. n /\ refs[i].ofs + refs[i].size <= Len(db[refs[i].chunk])
      /\ \A i, j \in 1 .. m : SavedPaths(db)[i] = SavedPaths(db)[j] => i = j
  BY DEF PathsSaved, ChunksSaved
<1>3. ReadTo(b, db, n, n)
  BY BufferRead
<1>. HIDE DEF b, u
<1>4. s = [buf |-> b, refs |-> refs, max |-> m, next |-> m + 1, cwd |-> <<Root>>, cwdId |-> 0]
  <2>. DEFINE x  == m + 1
              s0 == NewPathStore
              s1 == [s0 EXCEPT !.buf = b]
              s2 == [s1 EXCEPT !.refs = refs]
              s3 == [s2 EXCEPT !.max = m]
              root0 == <<Root>>
  <2>. HIDE DEF refs, m, x, root0
  <2>1. s = [s3 EXCEPT !.next = x]
    BY DEF x
  <2>2. \E none, zero, one : s0 = [buf |-> none, refs |-> <<>>, max |-> zero, next |-> one, cwd |-> root0, cwdId |-> 0]
    BY DEF NewPathStore, root0
  <2>3. PICK none, zero, one :
          s0 = [buf |-> none, refs |-> <<>>, max |-> zero, next |-> one, cwd |-> root0, cwdId |-> 0]
    BY <2>2
  <2>. HIDE DEF s0
  <2>4. s1 = [buf |-> b, refs |-> <<>>, max |-> zero, next |-> one, cwd |-> root0, cwdId |-> 0]
    BY <2>3
  <2>. HIDE DEF s1
  <2>5. s2 = [buf |-> b, refs |-> refs, max |-> zero, next |-> one, cwd |-> root0, cwdId |-> 0]
    BY <2>4
  <2>. HIDE DEF s2
  <2>6. s3 = [buf |-> b, refs |-> refs, max |-> m, next |-> one, cwd |-> root0, cwdId |-> 0]
    BY <2>5
  <2>. HIDE DEF s3
  <2>7. [s3 EXCEPT !.next = x] = [buf |-> b, refs |-> refs, max |-> m, next |-> x, cwd |-> root0, cwdId |-> 0]
    BY <2>6
  <2>. QED
    BY <2>1, <2>7 DEF x, root0
<1>5. s.buf = b /\ s.refs = refs /\ s.max = m /\ s.next = m + 1 /\ s.cwd = <<Root>> /\ s.cwdId = 0
  BY <1>4
<1>. HIDE DEF s
<1>6. ASSUME NEW i \in 1 .. m
      PROVE  RefIn(b, refs[i]) /\ AllocAt(b, refs[i]) = SavedPaths(db)[i]
  <2>. DEFINE r == refs[i]
              k == r.chunk
              x == b.chunks[k]
              y == db[k]
  <2>1. /\ r \in Ref /\ r.ofs \in Nat /\ r.size \in Nat /\ r.size >= 1
        /\ k \in 1 .. n /\ r.ofs + r.size <= Len(y)
    <3>1. r \in Ref
      BY <1>2
    <3>2. k \in 1 .. n /\ r.ofs + r.size <= Len(y)
      BY <1>2
    <3>. QED
      BY <3>1, <3>2 DEF Ref
  <2>2. /\ y \in Seq(Component) /\ Len(y) \in Nat /\ Len(y) <= ChunkSize /\ y # <<>>
        /\ k < n => Len(y) = ChunkSize
    <3>1. y \in Seq(Component) /\ Len(y) <= ChunkSize /\ (k < n => Len(y) = ChunkSize)
      BY <1>2, <2>1 DEF ChunksSaved
    <3>2. Len(y) >= 1 /\ Len(y) \in Nat
      BY <2>1, <3>1
    <3>3. y # <<>>
      BY <3>2
    <3>. QED
      BY <3>1, <3>2, <3>3
  <2>3. /\ BufferOK(b) /\ \A j \in 1 .. n : \A c \in 1 .. Len(db[j]) : b.chunks[j][c] = db[j][c]
        /\ n # 0 => IF db[n] = <<>> THEN Len(b.chunks) = n - 1
                    ELSE Len(b.chunks) = n /\ InsertPosition(b) = Len(db[n])
    BY <1>3 DEF ReadTo
  <2>4. k \in 1 .. Len(b.chunks) /\ Len(y) <= Used(b, k)
    <3>1. CASE k = n
      <4>1. Len(b.chunks) = n /\ InsertPosition(b) = Len(y)
        <5>1. n # 0 /\ db[n] = y /\ y # <<>>
          BY <1>2, <2>1, <2>2, <3>1
        <5>. QED
          BY <2>3, <5>1
      <4>. QED
        BY <2>1, <2>2, <3>1, <4>1 DEF Used
    <3>2. CASE k < n
      <4>1. k \in 1 .. Len(b.chunks) /\ Len(y) = ChunkSize /\ Len(b.chunks) \in Nat
        <5>1. n \in Nat /\ k \in Nat /\ k >= 1 /\ n # 0 /\ Len(y) = ChunkSize
          BY <1>2, <2>1, <2>2, <3>2
        <5>2. Len(b.chunks) = n \/ Len(b.chunks) = n - 1
          BY <2>3, <5>1
        <5>3. \A a, c \in Nat : 1 <= a /\ a < c => a \in 1 .. c /\ a \in 1 .. c - 1 /\ c - 1 \in Nat
          OBVIOUS
        <5>4. k \in 1 .. n /\ k \in 1 .. n - 1 /\ n - 1 \in Nat
          BY <3>2, <5>1, <5>3
        <5>5. Len(b.chunks) \in Nat
          BY <5>1, <5>2, <5>4
        <5>. QED
          BY <5>1, <5>2, <5>4, <5>5
      <4>2. k # Len(b.chunks) => Used(b, k) = ChunkSize
        BY DEF Used
      <4>3. k = Len(b.chunks) => b.rem = 0
        BY <1>2, <1>3, <2>1, <2>3, <3>2, <4>1 DEF ReadTo
      <4>4. k = Len(b.chunks) => Used(b, k) = ChunkSize
        BY <4>3, ChunkSizes DEF Used, InsertPosition
      <4>. QED
        BY <2>2, <4>1, <4>2, <4>4
    <3>. QED
      BY <1>2, <2>1, <3>1, <3>2
  <2>5. x \in Seq(Component) /\ Len(x) = ChunkSize /\ Used(b, k) \in 0 .. ChunkSize
    BY <2>3, <2>4, BufferFields
  <2>6. RefIn(b, r)
    BY <2>1, <2>2, <2>4, <2>5, ChunkSizes DEF RefIn
  <2>7. \A c \in r.ofs + 1 .. r.ofs + r.size : x[c] = y[c]
    <3>1. \A c \in r.ofs + 1 .. r.ofs + r.size : c \in 1 .. Len(y)
      BY SMTT(30), <2>1, <2>2
    <3>. QED
      BY <2>1, <2>3, <3>1
  <2>8. AllocAt(b, r) = SubSeq(x, r.ofs + 1, r.ofs + r.size)
    BY DEF AllocAt
  <2>9. SavedPaths(db)[i] = SubSeq(y, r.ofs + 1, r.ofs + r.size)
    <3>1. Has(db, 0) /\ Len(db[0]) = m
      BY <1>2 DEF SavedRefs
    <3>2. db[0] = refs
      BY <3>1 DEF SavedRefs
    <3>. QED
      BY <3>1, <3>2 DEF SavedPaths
  <2>. HIDE DEF x, y, k, r
  <2>10. SubSeq(x, r.ofs + 1, r.ofs + r.size) = SubSeq(y, r.ofs + 1, r.ofs + r.size)
    <3>1. r.ofs + r.size <= Len(x) /\ r.ofs + r.size <= Len(y)
      <4>1. \A o, z, l, c \in Nat : o + z <= l /\ l <= c => o + z <= c
        OBVIOUS
      <4>. QED
        BY <2>1, <2>2, <2>5, <4>1, ChunkSizes
    <3>2. SameCells(x, y, r.ofs, r.size)
      BY <2>7, <3>1 DEF SameCells
    <3>3. y \in Seq(Component) /\ r.ofs \in Nat /\ r.size \in Nat
      BY <2>1, <2>2
    <3>. QED
      BY <2>5, <3>2, <3>3, SamePart
  <2>. QED
    BY <2>6, <2>8, <2>9, <2>10 DEF r
<1>. HIDE DEF refs, m, n
<1>7. \A i \in 1 .. m : PathAt(s, i) = SavedPaths(db)[i]
  BY <1>5, <1>6 DEF PathAt
<1>8. NormalPath(<<Root>>)
  BY Components DEF NormalPath
<1>9. m = Len(refs)
  BY DEF m
<1>10. BufferOK(b)
  BY <1>3 DEF ReadTo
<1>11. PathsHeld(s)
  <2>1. s = [buf |-> s.buf, refs |-> s.refs, max |-> s.max, next |-> s.next, cwd |-> s.cwd, cwdId |-> s.cwdId]
    BY <1>4, <1>5
  <2>2. \A i, j \in 1 .. Len(s.refs) : PathAt(s, i) = PathAt(s, j) => i = j
    BY <1>2, <1>5, <1>7, <1>9
  <2>3. \A i \in 1 .. Len(s.refs) : RefIn(s.buf, s.refs[i])
    BY <1>5, <1>6, <1>9
  <2>. QED
    BY <1>2, <1>5, <1>8, <1>9, <1>10, <2>1, <2>2, <2>3 DEF PathsHeld
<1>12. Fits(s, root)
  BY <1>5 DEF Fits, NewPathStore
<1>13. /\ PathsHeld(u) /\ u.max = s.max /\ u.cwd = Normalize(s.cwd, root)
       /\ u.cwdId \in 1 .. Len(u.refs) /\ PathAt(u, u.cwdId) = u.cwd
       /\ Len(s.refs) <= Len(u.refs)
       /\ \A i \in 1 .. Len(s.refs) : PathAt(u, i) = PathAt(s, i)
       /\ Len(u.buf.chunks) >= Len(s.buf.chunks)
       /\ s.buf.rem = 0 => Len(u.buf.chunks) > Len(s.buf.chunks)
  BY <1>1, <1>11, <1>12, CurrentPathUpdated
<1>14. Len(u.buf.chunks) >= n
  <2>1. Len(b.chunks) \in Nat /\ Len(u.buf.chunks) \in Nat
    BY <1>10, <1>13, BufferFields DEF PathsHeld
  <2>2. Len(b.chunks) = n \/ (Len(b.chunks) = n - 1 /\ b.rem = 0)
    BY <1>2, <1>3 DEF ReadTo
  <2>. QED
    BY <1>2, <1>5, <1>13, <2>1, <2>2
<1>15. PathsOpen(u, db)
  BY <1>5, <1>7, <1>9, <1>13, <1>14 DEF PathsOpen, m, refs, n
<1>. QED
  BY <1>5, <1>13, <1>15 DEF u

\* t is s with more paths.
Grown(t, s) ==
    /\ t.cwd = s.cwd /\ Len(s.refs) <= Len(t.refs)
    /\ \A i \in 1 .. Len(s.refs) : PathAt(t, i) = PathAt(s, i)

\* The empty path is current_path.
LEMMA NormalizeEmpty ==
  ASSUME NEW cwd \in Seq(Component) PROVE Normalize(cwd, <<>>) = cwd
<1>1. <<>> \in Seq(Component) /\ Len(<<>>) = 0
  OBVIOUS
<1>2. PICK out : /\ out \in [0 .. Len(<<>>) -> Seq(Component)]
                 /\ out[0] = Start(cwd, <<>>)
                 /\ Normalize(cwd, <<>>) = out[Len(<<>>)]
  BY <1>1, NormalizeWalks
<1>3. Start(cwd, <<>>) = cwd
  BY DEF Start, Absolute
<1>. QED
  BY <1>1, <1>2, <1>3

\* A path has the id that was found for it.
LEMMA PathFound ==
  ASSUME NEW s, NEW db, PathsOpen(s, db), NEW p \in Seq(Component),
         NEW i \in 1 .. Len(s.refs), PathAt(s, i) = Normalize(s.cwd, p)
  PROVE  PathId(s, p) = i
<1>1. /\ \A j \in 1 .. Len(s.refs) : PathAt(s, i) = PathAt(s, j) => i = j
      /\ s.cwdId \in 1 .. Len(s.refs) /\ PathAt(s, s.cwdId) = s.cwd /\ NormalPath(s.cwd)
  BY DEF PathsOpen, PathsHeld
<1>2. CASE p = <<>>
  <2>1. Normalize(s.cwd, p) = s.cwd
    BY <1>1, <1>2, NormalizeEmpty DEF NormalPath
  <2>. QED
    BY <1>1, <1>2, <2>1 DEF PathId
<1>3. CASE p # <<>>
  <2>1. PathId(s, p) = CHOOSE j \in IdsOfPath(s, Normalize(s.cwd, p)) : TRUE
    BY <1>3 DEF PathId
  <2>2. i \in IdsOfPath(s, Normalize(s.cwd, p))
    BY DEF IdsOfPath
  <2>3. PathId(s, p) \in IdsOfPath(s, Normalize(s.cwd, p))
    BY <2>1, <2>2
  <2>4. PathId(s, p) \in 1 .. Len(s.refs) /\ PathAt(s, PathId(s, p)) = PathAt(s, i)
    BY <2>3 DEF IdsOfPath
  <2>. QED
    BY <1>1, <2>4
<1>. QED
  BY <1>2, <1>3

\* try_add, of a store in use.
LEMMA PathTaken ==
  ASSUME NEW db, PathsSaved(db), NEW s, PathsOpen(s, db), NEW p \in Seq(Component), Addable(s, p)
  PROVE  LET t == TryAddPath(s, p)
         IN /\ PathsOpen(t, db) /\ Grown(t, s)
            /\ PathId(t, p) \in 1 .. Len(t.refs) /\ PathAt(t, PathId(t, p)) = Normalize(s.cwd, p)
<1>. DEFINE t == TryAddPath(s, p)
<1>1. /\ PathsHeld(s) /\ s.cwdId \in 1 .. Len(s.refs) /\ PathAt(s, s.cwdId) = s.cwd /\ NormalPath(s.cwd)
      /\ s.max = Len(SavedRefs(db)) /\ s.max <= Len(s.refs)
      /\ \A i \in 1 .. s.max : PathAt(s, i) = SavedPaths(db)[i]
      /\ Len(s.buf.chunks) >= SavedChunks(db)
      /\ Len(s.refs) \in Nat
  BY DEF PathsOpen, PathsHeld
<1>2. CASE p = <<>>
  <2>1. t = s
    BY <1>2 DEF TryAddPath
  <2>2. Normalize(s.cwd, p) = s.cwd
    BY <1>1, <1>2, NormalizeEmpty DEF NormalPath
  <2>3. PathId(t, p) = s.cwdId
    BY <1>2, <2>1 DEF PathId
  <2>4. Grown(s, s)
    BY <1>1 DEF Grown
  <2>. QED
    BY <1>1, <2>1, <2>2, <2>3, <2>4
<1>3. CASE p # <<>>
  <2>1. Fits(s, p)
    BY <1>3 DEF Addable, Fits
  <2>2. /\ PathsHeld(t) /\ t.max = s.max /\ t.cwd = s.cwd /\ t.cwdId = s.cwdId
        /\ StartsWith(t.refs, s.refs)
        /\ \A i \in 1 .. Len(s.refs) : PathAt(t, i) = PathAt(s, i)
        /\ PathId(t, p) \in 1 .. Len(t.refs) /\ PathAt(t, PathId(t, p)) = Normalize(s.cwd, p)
        /\ Len(t.buf.chunks) >= Len(s.buf.chunks)
    BY <1>1, <1>3, <2>1, PathAdded
  <2>. HIDE DEF t
  <2>3. Len(s.refs) <= Len(t.refs) /\ Len(t.refs) \in Nat
    BY <2>2 DEF StartsWith, PathsHeld
  <2>4. Grown(t, s)
    BY <2>2, <2>3 DEF Grown
  <2>5. /\ t.cwdId \in 1 .. Len(t.refs) /\ PathAt(t, t.cwdId) = t.cwd
        /\ t.max <= Len(t.refs) /\ \A i \in 1 .. t.max : PathAt(t, i) = SavedPaths(db)[i]
    <3>1. \A i \in 1 .. t.max : i \in 1 .. Len(s.refs)
      BY <1>1, <2>2, <2>3
    <3>2. t.max <= Len(t.refs) /\ t.cwdId \in 1 .. Len(t.refs)
      BY <1>1, <2>2, <2>3
    <3>3. PathAt(t, t.cwdId) = t.cwd
      BY <1>1, <2>2
    <3>. QED
      BY <1>1, <2>2, <3>1, <3>2, <3>3
  <2>6. Len(t.buf.chunks) >= SavedChunks(db)
    <3>1. Len(t.buf.chunks) \in Nat /\ Len(s.buf.chunks) \in Nat
      BY <1>1, <2>2, BufferFields DEF PathsHeld
    <3>2. SavedChunks(db) \in Nat
      BY DEF PathsSaved, ChunksSaved
    <3>. QED
      BY <1>1, <2>2, <3>1, <3>2
  <2>7. PathsOpen(t, db)
    BY <1>1, <2>2, <2>5, <2>6 DEF PathsOpen
  <2>8. PathsOpen(t, db) /\ Grown(t, s)
        /\ PathId(t, p) \in 1 .. Len(t.refs) /\ PathAt(t, PathId(t, p)) = Normalize(s.cwd, p)
    BY <2>2, <2>4, <2>7
  <2>. QED
    BY <2>8 DEF t
<1>. QED
  BY <1>2, <1>3
\* commit_changes: the database has the paths of the store.
LEMMA PathsCommitted ==
  ASSUME NEW db, PathsSaved(db), NEW s, PathsOpen(s, db)
  PROVE  PathsSaved(CommitPaths(s, db)) /\ SavedPaths(CommitPaths(s, db)) = PathsIn(s)
<1>. DEFINE new == CommitPaths(s, db)
            b == s.buf
            refs == s.refs
            m == Len(refs)
            n == Len(b.chunks)
            old == SavedChunks(db)
            pos == InsertPosition(b)
<1>1. /\ BufferOK(b) /\ refs \in Seq(Ref) /\ m \in Nat /\ s.next = m + 1
      /\ \A i \in 1 .. m : RefIn(b, refs[i])
      /\ Apart(refs)
      /\ \A i, j \in 1 .. m : PathAt(s, i) = PathAt(s, j) => i = j
      /\ m >= 1
  BY DEF PathsOpen, PathsHeld
<1>2. /\ s.max = Len(SavedRefs(db)) /\ \A i \in 1 .. s.max : PathAt(s, i) = SavedPaths(db)[i]
      /\ n >= old
  BY DEF PathsOpen
<1>3. /\ old \in Nat /\ DOMAIN db = IF old = 0 THEN {} ELSE 0 .. old
  BY DEF PathsSaved, ChunksSaved
<1>4. CASE s.next = s.max + 1
  <2>1. new = db /\ s.max = m
    <3>1. s.max \in Nat
      BY <1>2 DEF PathsSaved
    <3>. QED
      BY <1>1, <1>4, <3>1 DEF CommitPaths
  <2>2. Len(SavedRefs(db)) = IF Has(db, 0) THEN Len(db[0]) ELSE 0
    BY DEF SavedRefs
  <2>3. DOMAIN SavedPaths(db) = 1 .. m /\ SavedPaths(db) = [i \in 1 .. m |-> SavedPaths(db)[i]]
    BY <1>2, <2>1, <2>2 DEF SavedPaths
  <2>4. PathsIn(s) = [i \in 1 .. m |-> PathAt(s, i)]
    BY DEF PathsIn
  <2>5. \A i \in 1 .. m : SavedPaths(db)[i] = PathAt(s, i)
    BY <1>2, <2>1
  <2>6. SavedPaths(db) = PathsIn(s)
    BY <2>3, <2>4, <2>5, Zenon
  <2>. QED
    BY <2>1, <2>6
<1>5. CASE s.next # s.max + 1
  <2>1. n \in Nat /\ n >= 1 /\ n \in 1 .. n /\ b.chunks \in Seq(Chunk) /\ pos \in 0 .. ChunkSize
    <3>1. RefIn(b, refs[1])
      BY <1>1
    <3>2. refs[1].chunk \in 1 .. n
      BY <3>1 DEF RefIn
    <3>. QED
      BY <1>1, <3>2, BufferFields
  <2>2. DOMAIN db \cup 0 .. n = 0 .. n
    BY <1>2, <1>3, <2>1
  <2>3. new = [k \in 0 .. n |->
                 IF k = 0 THEN refs
                 ELSE IF k > n THEN db[k]
                 ELSE IF k = n THEN SubSeq(b.chunks[k], 1, pos)
                 ELSE b.chunks[k]]
    <3>1. new = [k \in DOMAIN db \cup 0 .. n |->
                   IF k = 0 THEN refs
                   ELSE IF k > n THEN db[k]
                   ELSE IF k = n THEN SubSeq(b.chunks[k], 1, pos)
                   ELSE b.chunks[k]]
      BY <1>5 DEF CommitPaths
    <3>. QED
      BY <2>2, <3>1
  <2>. HIDE DEF new, pos
  <2>4. DOMAIN new = 0 .. n /\ new[0] = refs /\ new[n] = SubSeq(b.chunks[n], 1, pos)
        /\ \A k \in 1 .. n : k # n => new[k] = b.chunks[k]
    <3>1. 0 \in 0 .. n /\ n \in 0 .. n /\ n # 0 /\ ~(n > n)
      BY <2>1
    <3>2. \A k \in 1 .. n : k \in 0 .. n /\ k # 0 /\ ~(k > n)
      BY <2>1
    <3>3. DOMAIN new = 0 .. n
      BY <2>3
    <3>4. new[0] = refs
      BY <2>3, <3>1
    <3>5. new[n] = SubSeq(b.chunks[n], 1, pos)
      BY <2>3, <3>1
    <3>6. ASSUME NEW k \in 1 .. n, k # n PROVE new[k] = b.chunks[k]
      BY <2>3, <3>2, <3>6
    <3>. QED
      BY <3>3, <3>4, <3>5, <3>6
  <2>5. SavedRefs(new) = refs /\ Has(new, 0)
    BY <2>1, <2>4 DEF SavedRefs, Has
  <2>6. SavedChunks(new) = n
    <3>1. DOMAIN new \ {0} = 1 .. n
      BY <2>1, <2>4
    <3>2. Cardinality(1 .. n) = n
      BY <2>1, FS_Interval
    <3>. QED
      BY <3>1, <3>2 DEF SavedChunks
  <2>7. ASSUME NEW k \in 1 .. n
        PROVE  /\ b.chunks[k] \in Seq(Component) /\ Len(b.chunks[k]) = ChunkSize
               /\ new[k] \in Seq(Component) /\ Len(new[k]) = Used(b, k) /\ Used(b, k) \in 0 .. ChunkSize
               /\ \A c \in 1 .. Used(b, k) : new[k][c] = b.chunks[k][c]
    <3>1. b.chunks[k] \in Seq(Component) /\ Len(b.chunks[k]) = ChunkSize /\ Used(b, k) \in 0 .. ChunkSize
      BY <1>1, BufferFields
    <3>2. CASE k # n
      <4>1. new[k] = b.chunks[k]
        BY <2>4, <3>2
      <4>2. Used(b, k) = ChunkSize
        BY <3>2 DEF Used
      <4>. QED
        BY <3>1, <4>1, <4>2
    <3>3. CASE k = n
      <4>1. Used(b, k) = pos /\ pos \in Nat /\ 0 + pos <= Len(b.chunks[k]) /\ 0 \in Nat
        BY <2>1, <3>1, <3>3, ChunkSizes DEF Used, pos
      <4>2. new[k] = SubSeq(b.chunks[k], 0 + 1, 0 + pos)
        BY <2>4, <3>3, <4>1
      <4>3. /\ new[k] \in Seq(Component) /\ Len(new[k]) = pos
            /\ \A c \in 1 .. pos : new[k][c] = b.chunks[k][0 + c]
        BY <3>1, <4>1, <4>2, PartOf
      <4>4. \A c \in 1 .. pos : 0 + c = c
        BY <4>1
      <4>. QED
        BY <3>1, <4>1, <4>3, <4>4
    <3>. QED
      BY <3>2, <3>3
  <2>8. ChunksSaved(new, n)
    <3>1. ASSUME NEW k \in 1 .. n
          PROVE  new[k] \in Seq(Component) /\ Len(new[k]) <= ChunkSize /\ (k < n => Len(new[k]) = ChunkSize)
      <4>1. k < n => Used(b, k) = ChunkSize
        BY <2>1 DEF Used
      <4>. QED
        BY <2>7, <4>1, ChunkSizes
    <3>. QED
      BY <2>1, <2>4, <3>1 DEF ChunksSaved
  <2>9. ASSUME NEW i \in 1 .. m
        PROVE  LET r == refs[i]
               IN /\ r.chunk \in 1 .. n /\ r.ofs + r.size <= Len(new[r.chunk])
                  /\ SubSeq(new[r.chunk], r.ofs + 1, r.ofs + r.size) = PathAt(s, i)
    <3>. DEFINE r == refs[i]
                x == new[r.chunk]
                y == b.chunks[r.chunk]
    <3>1. RefIn(b, r)
      BY <1>1
    <3>2. /\ r.chunk \in 1 .. n /\ r.ofs + r.size <= Used(b, r.chunk) /\ r.ofs \in Nat /\ r.size \in Nat
      BY <3>1 DEF RefIn, Ref
    <3>3. /\ y \in Seq(Component) /\ Len(y) = ChunkSize
          /\ x \in Seq(Component) /\ Len(x) = Used(b, r.chunk) /\ Used(b, r.chunk) \in 0 .. ChunkSize
          /\ \A c \in 1 .. Used(b, r.chunk) : x[c] = y[c]
      BY <2>7, <3>2
    <3>4. PathAt(s, i) = SubSeq(y, r.ofs + 1, r.ofs + r.size)
      BY DEF PathAt, AllocAt
    <3>. DEFINE u == Used(b, r.chunk)
    <3>. HIDE DEF r, x, y, u
    <3>5. u \in Nat /\ r.ofs + r.size <= u /\ u <= ChunkSize /\ Len(x) = u
      BY <3>2, <3>3, ChunkSizes DEF u
    <3>6. r.ofs + r.size <= Len(x) /\ r.ofs + r.size <= Len(y)
      BY <3>2, <3>3, <3>5, ChunkSizes
    <3>7. \A c \in r.ofs + 1 .. r.ofs + r.size : c \in 1 .. u
      BY <3>2, <3>5
    <3>8. \A c \in r.ofs + 1 .. r.ofs + r.size : x[c] = y[c]
      BY <3>3, <3>7 DEF u
    <3>9. SubSeq(x, r.ofs + 1, r.ofs + r.size) = SubSeq(y, r.ofs + 1, r.ofs + r.size)
      <4>1. SameCells(x, y, r.ofs, r.size)
        BY <3>6, <3>8 DEF SameCells
      <4>. QED
        BY <3>2, <3>3, <4>1, SamePart
    <3>. QED
      BY <3>2, <3>4, <3>6, <3>9 DEF r, x
  <2>10. /\ DOMAIN SavedPaths(new) = 1 .. m /\ SavedPaths(new) = [i \in 1 .. m |-> SavedPaths(new)[i]]
         /\ \A i \in 1 .. m :
              SavedPaths(new)[i] = SubSeq(new[refs[i].chunk], refs[i].ofs + 1, refs[i].ofs + refs[i].size)
    BY <2>4, <2>5 DEF SavedPaths
  <2>11. \A i \in 1 .. m : SavedPaths(new)[i] = PathAt(s, i)
    BY <2>9, <2>10
  <2>12. PathsIn(s) = [i \in 1 .. m |-> PathAt(s, i)]
    BY DEF PathsIn
  <2>13. SavedPaths(new) = PathsIn(s)
    BY <2>10, <2>11, <2>12, Zenon
  <2>14. PathsSaved(new)
    <3>1. \A i, j \in 1 .. m : SavedPaths(new)[i] = SavedPaths(new)[j] => i = j
      BY <1>1, <2>11
    <3>2. \A i \in 1 .. m : refs[i].chunk \in 1 .. n /\ refs[i].ofs + refs[i].size <= Len(new[refs[i].chunk])
      BY <2>9
    <3>. QED
      BY <1>1, <2>5, <2>6, <2>8, <3>1, <3>2 DEF PathsSaved
  <2>. QED
    BY <2>13, <2>14 DEF new
<1>. QED
  BY <1>4, <1>5

=============================================================================
