-------------------------- MODULE ItemDepsOodProofs --------------------------
(***************************************************************************)
(* The search for changed item dependencies is exact for any number of     *)
(* items, whatever their lists are, as long as these have no cycles or     *)
(* name all that is reachable; what it marks out of date is so in any case.*)
(***************************************************************************)
EXTENDS ItemDepsOod, TLAPS, SequenceTheorems

-----------------------------------------------------------------------------
(* The inductive invariant *)

Frame == [item : Item, pos : Nat]

OnStack == {stack[k].item : k \in 1 .. Len(stack)}

Types ==
    /\ deps \in [Item -> Seq(Item \cup {Missing})]
    /\ own \in [Item -> {"ood", "unknown", "up_to_date"}]
    /\ ood \in [Item -> State]
    /\ sid \in [Item -> Seq(Item \cup {Missing})]
    /\ phase \in {"fill", "search", "done"}
    /\ idx \in 1 .. N + 1
    /\ stack \in Seq(Frame)

\* What get_item_ood leaves.
InputOK ==
    /\ deps \in Graphs
    /\ \A i \in Item : /\ own[i] = "unknown" => deps[i] # <<>>
                       /\ own[i] = "up_to_date" => deps[i] = <<>>

\* Only what was unknown is marked, and nothing becomes unknown again.
MarksOK ==
    /\ \A i \in Item :
         IF own[i] = "unknown" THEN ood[i] # "ood" ELSE ood[i] = own[i]
    /\ phase = "fill" => \A i \in Undecided : ood[i] # "up_to_date"
    /\ phase = "search" => \A i \in Item : i < idx => ood[i] # "unknown"
    /\ phase = "done" => \A i \in Item : ood[i] # "unknown"

\* An item that is not out of date has its whole list, once it was looked up.
ListsOK ==
    \A i \in Item :
        /\ sid[i] \in {<<>>, deps[i]}
        /\ Missing \notin In(sid[i])
        /\ ood[i] \in {"unknown", "up_to_date"} /\ (phase # "fill" \/ i < idx) => sid[i] = deps[i]

\* The stack is a path of undecided items from the root; each item but the root is
\* marked, and each frame points at the next.
StackOK ==
    /\ phase # "search" => stack = <<>>
    /\ stack # <<>> => idx \in Item /\ stack[1].item = idx
    /\ \A k \in 1 .. Len(stack) :
         /\ stack[k].item \in Undecided
         /\ ood[stack[k].item] \in {"unknown", "up_to_date"}
         /\ stack[k].pos \in 0 .. Len(deps[stack[k].item])
         /\ k > 1 => ood[stack[k].item] = "up_to_date"
         /\ k < Len(stack) => /\ stack[k].pos > 0
                              /\ deps[stack[k].item][stack[k].pos] = stack[k + 1].item

\* Whatever is on the stack is out of date if an item above it is.
PathOK ==
    \A X \in SUBSET Undecided : DepClosed(X) =>
        \A l \in 1 .. Len(stack) : \A k \in 1 .. l :
            stack[l].item \in X => stack[k].item \in X

\* A dependency the search may leave behind: it is not out of date by itself and,
\* without cycles, the search has left it too.
Passed(j) ==
    /\ j \in Item /\ own[j] # "ood"
    /\ Acyclic(deps) => ood[j] = "up_to_date" /\ j \notin OnStack

\* What a frame has gone past; the one it points at may be on the stack above it.
SeenOK ==
    \A k \in 1 .. Len(stack) : \A q \in 1 .. stack[k].pos :
        \/ Passed(deps[stack[k].item][q])
        \/ k < Len(stack) /\ q = stack[k].pos

\* What the search has left.
LeftOK ==
    \A i \in Undecided : ood[i] = "up_to_date" /\ i \notin OnStack =>
        \A q \in 1 .. Len(deps[i]) : Passed(deps[i][q])

\* What is marked out of date is so.
MarkedOK == \A i \in Item : ood[i] = "item_deps_changed" => i \in ItemDepsChanged

IInv ==
    Types /\ InputOK /\ MarksOK /\ ListsOK /\ StackOK /\ PathOK /\ SeenOK /\ LeftOK /\ MarkedOK

-----------------------------------------------------------------------------
(* The stack *)

\* Looking at the next dependency changes the top frame only.
LEMMA AdvancedFrames ==
  ASSUME Types, stack # <<>>
  PROVE  /\ Len(stack) \in Nat \ {0}
         /\ Top \in Frame
         /\ Advanced \in Seq(Frame)
         /\ Len(Advanced) = Len(stack)
         /\ \A k \in 1 .. Len(stack) - 1 : Advanced[k] = stack[k]
         /\ Advanced[Len(stack)] = [item |-> Top.item, pos |-> Top.pos + 1]
<1>1. stack \in Seq(Frame) /\ Len(stack) \in Nat \ {0}
  BY EmptySeq DEF Types
<1>2. Top \in Frame
  BY <1>1, ElementOfSeq DEF Top
<1>3. [Top EXCEPT !.pos = @ + 1] = [item |-> Top.item, pos |-> Top.pos + 1]
  BY <1>2 DEF Frame
<1>4. [item |-> Top.item, pos |-> Top.pos + 1] \in Frame
  BY <1>2 DEF Frame
<1>5. Advanced = [stack EXCEPT ![Len(stack)] = [item |-> Top.item, pos |-> Top.pos + 1]]
  BY <1>3 DEF Advanced, Top
<1>. HIDE DEF Frame
<1>. QED
  BY <1>1, <1>2, <1>4, <1>5, ExceptSeq

\* Leaving the top frame leaves the others as they are.
LEMMA BelowFrames ==
  ASSUME Types, stack # <<>>
  PROVE  /\ Below \in Seq(Frame)
         /\ Len(Below) = Len(stack) - 1
         /\ \A k \in 1 .. Len(stack) - 1 : Below[k] = stack[k]
         /\ Below = <<>> <=> Len(stack) = 1
<1>1. stack \in Seq(Frame) /\ Len(stack) \in Nat \ {0}
  BY EmptySeq DEF Types
<1>2. \A k \in 1 .. Len(stack) - 1 : stack[k] \in Frame
  BY <1>1, ElementOfSeq
<1>3. PICK n \in Nat : n = Len(stack) - 1
  <2>1. Len(stack) \in Nat /\ Len(stack) # 0
    BY <1>1
  <2>2. Len(stack) - 1 \in Nat
    BY <2>1
  <2>. QED
    BY <2>2
<1>4. /\ SubSeq(stack, 1, n) \in Seq(Frame)
      /\ Len(SubSeq(stack, 1, n)) = IF 1 <= n THEN n - 1 + 1 ELSE 0
      /\ \A i \in 1 .. n - 1 + 1 : SubSeq(stack, 1, n)[i] = stack[1 + i - 1]
  <2>1. 1 \in Int /\ n \in Int /\ \A k \in 1 .. n : stack[k] \in Frame
    BY <1>2, <1>3
  <2>. HIDE DEF Frame
  <2>. QED
    BY <2>1, SubSeqProperties
<1>5. /\ Below \in Seq(Frame)
      /\ Len(Below) = n
      /\ \A k \in 1 .. n : Below[k] = stack[k]
  BY <1>3, <1>4 DEF Below
<1>6. Below = <<>> <=> n = 0
  <2>. HIDE DEF Frame
  <2>. QED
    BY <1>5, EmptySeq
<1>. QED
  BY <1>3, <1>5, <1>6

\* Without cycles, no dependency of an item on the stack is on the stack below it:
\* the items from the one to the other would each have a dependency among them.
LEMMA NoWayBack ==
  ASSUME Types, StackOK, Acyclic(deps), NEW n \in 1 .. Len(stack), NEW m \in 1 .. n
  PROVE  ~Edge(deps, stack[n].item, stack[m].item)
<1>. SUFFICES ASSUME Edge(deps, stack[n].item, stack[m].item) PROVE FALSE
  OBVIOUS
<1>. DEFINE X == {stack[k].item : k \in m .. n}
<1>1. Len(stack) \in Nat
  BY LenProperties DEF Types
<1>2. \A k \in m .. n : k \in 1 .. Len(stack) /\ stack[k].item \in Item
  BY <1>1 DEF StackOK, Undecided
<1>3. X \in SUBSET Item /\ X # {}
  BY <1>1, <1>2
<1>4. ASSUME NEW k \in m .. n PROVE \E j \in X : Edge(deps, stack[k].item, j)
  <2>1. CASE k = n
    BY <1>1, <2>1
  <2>2. CASE k < n
    <3>1. k + 1 \in m .. n /\ k \in 1 .. Len(stack) /\ k < Len(stack)
      BY <1>1, <1>2, <2>2
    <3>2. /\ stack[k].pos \in 1 .. Len(deps[stack[k].item])
          /\ deps[stack[k].item][stack[k].pos] = stack[k + 1].item
      BY <3>1 DEF StackOK
    <3>. QED
      BY <3>1, <3>2 DEF Edge
  <2>. QED
    BY <1>1, <2>1, <2>2
<1>. QED
  BY <1>3, <1>4 DEF Acyclic

\* If a dependency of the top is out of date, so are all items on the stack.
LEMMA StackIsChanged ==
  ASSUME Types, StackOK, PathOK, stack # <<>>,
         NEW j \in In(deps[Top.item]), j \in {Missing} \cup OwnOod \cup ItemDepsChanged
  PROVE  \A k \in 1 .. Len(stack) : stack[k].item \in ItemDepsChanged
<1>1. Len(stack) \in Nat \ {0}
  BY EmptySeq DEF Types
<1>2. Top.item \in Undecided
  BY <1>1 DEF StackOK, Top
<1>3. ASSUME NEW X \in SUBSET Undecided, DepClosed(X), NEW k \in 1 .. Len(stack)
      PROVE  stack[k].item \in X
  <2>1. Top.item \in X
    BY <1>2, <1>3 DEF DepClosed, ItemDepsChanged
  <2>. QED
    BY <1>1, <1>3, <2>1 DEF PathOK, Top
<1>. QED
  BY <1>3 DEF StackOK, ItemDepsChanged

-----------------------------------------------------------------------------
(* Steps *)

\* What the search has to compute does not change.
LEMMA SameInput ==
  ASSUME UNCHANGED input
  PROVE  /\ deps' = deps /\ own' = own
         /\ Undecided' = Undecided /\ OwnOod' = OwnOod
         /\ ItemDepsChanged' = ItemDepsChanged
         /\ \A X : DepClosed(X)' = DepClosed(X)
         /\ Acyclic(deps)' = Acyclic(deps)
  BY DEF input, Undecided, OwnOod, ItemDepsChanged, DepClosed

\* The top of the stack and the dependency it comes to next.
LEMMA TopOfStack ==
  ASSUME Types, ListsOK, StackOK, Searching
  PROVE  /\ Len(stack) \in Nat \ {0} /\ stack \in Seq(Frame)
         /\ Top = stack[Len(stack)] /\ Top.item \in Undecided /\ Top.item \in Item
         /\ sid[Top.item] = deps[Top.item]
         /\ Len(deps[Top.item]) \in Nat
         /\ Top.pos \in 0 .. Len(deps[Top.item])
         /\ AtEnd => Top.pos = Len(deps[Top.item])
         /\ ~AtEnd => /\ Top.pos + 1 \in 1 .. Len(deps[Top.item])
                      /\ Child = deps[Top.item][Top.pos + 1]
                      /\ Child \in Item /\ Child \in In(deps[Top.item])
                      /\ Edge(deps, Top.item, Child)
<1>1. Len(stack) \in Nat \ {0} /\ stack \in Seq(Frame)
  BY EmptySeq DEF Types, Searching
<1>2. Top = stack[Len(stack)] /\ Top.item \in Undecided /\ Top.item \in Item
  BY <1>1 DEF Top, StackOK, Undecided
<1>3. sid[Top.item] = deps[Top.item] /\ Missing \notin In(sid[Top.item])
  BY <1>1, <1>2 DEF StackOK, ListsOK, Searching
<1>4. Top.pos \in 0 .. Len(deps[Top.item])
  BY <1>1, <1>2 DEF StackOK
<1>5. deps[Top.item] \in Seq(Item \cup {Missing}) /\ Len(deps[Top.item]) \in Nat
  BY <1>2, LenProperties DEF Types
<1>6. AtEnd => Top.pos = Len(deps[Top.item])
  BY <1>3, <1>4, <1>5 DEF AtEnd
<1>7. ASSUME ~AtEnd
      PROVE  /\ Top.pos + 1 \in 1 .. Len(deps[Top.item])
             /\ Child = deps[Top.item][Top.pos + 1]
  BY <1>3, <1>4, <1>5, <1>7 DEF AtEnd, Child
<1>8. ASSUME ~AtEnd
      PROVE  /\ Child \in Item /\ Child \in In(deps[Top.item])
             /\ Edge(deps, Top.item, Child)
  <2>1. Child \in Item \cup {Missing}
    BY <1>5, <1>7, <1>8, ElementOfSeq
  <2>2. Child \in In(deps[Top.item])
    BY <1>7, <1>8 DEF In
  <2>. QED
    BY <1>3, <1>7, <1>8, <2>1, <2>2 DEF Edge
<1>. QED
  BY <1>1, <1>2, <1>3, <1>4, <1>5, <1>6, <1>7, <1>8

\* Nothing is on an empty stack.
LEMMA EmptyStack ==
  ASSUME stack = <<>>
  PROVE  Len(stack) = 0 /\ OnStack = {} /\ PathOK /\ SeenOK
  BY EmptySeq DEF OnStack, PathOK, SeenOK

\* The first loop: an item whose dependencies are all found keeps its whole list, any
\* other one is marked.
LEMMA StepFillDeps == ASSUME IInv, FillDeps PROVE IInv'
<1>. USE SearchAssumption DEF IInv
<1>1. idx \in Item /\ idx + 1 \in 1 .. N + 1 /\ \A i \in Item : i < idx + 1 <=> (i < idx \/ i = idx)
  BY DEF FillDeps, Types, Item
<1>2. UNCHANGED <<deps, own, phase, stack>> /\ idx' = idx + 1 /\ phase = "fill" /\ stack = <<>>
  BY DEF FillDeps, input, StackOK
<1>3. Kept(idx) /\ Missing \in In(deps[idx]) => own[idx] = "unknown"
  BY <1>1 DEF Kept, In, InputOK, MarksOK, Types
<1>4. ood' = [ood EXCEPT ![idx] = IF Kept(idx) /\ Missing \in In(deps[idx])
                                  THEN "item_deps_changed" ELSE @]
  BY <1>1 DEF FillDeps, Types
<1>5. sid' = [sid EXCEPT ![idx] = IF Kept(idx)
                                  THEN IF Missing \in In(deps[idx]) THEN @ ELSE deps[idx]
                                  ELSE <<>>]
  BY <1>1 DEF FillDeps, Types
<1>6. Types'
  <2>1. <<>> \in Seq(Item \cup {Missing})
    BY EmptySeq
  <2>. QED
    BY <1>1, <1>2, <1>4, <1>5, <2>1 DEF Types, State
<1>7. InputOK' /\ MarksOK'
  BY <1>1, <1>2, <1>3, <1>4 DEF InputOK, MarksOK, Types, Undecided
<1>8. ListsOK'
  <2>1. Missing \notin In(<<>>)
    BY EmptySeq DEF In
  <2>2. \A i \in Item : i # idx => ood'[i] = ood[i] /\ sid'[i] = sid[i]
    BY <1>4, <1>5 DEF Types
  <2>3. /\ sid'[idx] \in {<<>>, deps[idx]} /\ Missing \notin In(sid'[idx])
        /\ ood'[idx] \in {"unknown", "up_to_date"} => sid'[idx] = deps[idx]
    BY <1>1, <1>4, <1>5, <2>1 DEF Types, ListsOK, Kept
  <2>. QED
    BY <1>1, <1>2, <2>2, <2>3 DEF ListsOK, In
<1>9. StackOK' /\ PathOK' /\ SeenOK'
  BY <1>2, EmptySeq DEF StackOK, PathOK, SeenOK
<1>10. LeftOK'
  BY <1>2, <1>7 DEF MarksOK, LeftOK
<1>11. MarkedOK'
  <2>1. Kept(idx) /\ Missing \in In(deps[idx]) => idx \in ItemDepsChanged
    BY <1>1, <1>3 DEF ItemDepsChanged, DepClosed, Undecided
  <2>2. ItemDepsChanged' = ItemDepsChanged
    BY <1>2, SameInput DEF input
  <2>. QED
    BY <1>4, <2>1, <2>2 DEF MarkedOK, Types
<1>. QED
  BY <1>6, <1>7, <1>8, <1>9, <1>10, <1>11

\* The search starts with all lists looked up and nothing on the stack.
LEMMA StepFillEnd == ASSUME IInv, FillEnd PROVE IInv'
<1>. USE SearchAssumption DEF IInv
<1>1. /\ UNCHANGED <<deps, own, ood, sid, stack>> /\ idx' = 1 /\ phase' = "search"
      /\ phase = "fill" /\ stack = <<>> /\ idx = N + 1
  BY DEF FillEnd, input, StackOK, Types
<1>2. \A i \in Item : i < idx /\ ~(i < 1)
  BY <1>1 DEF Item
<1>3. Types' /\ InputOK'
  BY <1>1 DEF Types, InputOK
<1>4. MarksOK' /\ LeftOK'
  BY <1>1, <1>2 DEF MarksOK, LeftOK, Undecided
<1>5. ListsOK'
  BY <1>1, <1>2 DEF ListsOK, In
<1>6. StackOK' /\ PathOK' /\ SeenOK'
  BY <1>1, EmptySeq DEF StackOK, PathOK, SeenOK
<1>7. MarkedOK'
  BY <1>1, SameInput DEF MarkedOK, input
<1>. QED
  BY <1>3, <1>4, <1>5, <1>6, <1>7

\* An item that is decided is not searched.
LEMMA StepNextRoot == ASSUME IInv, NextRoot PROVE IInv'
<1>. USE SearchAssumption DEF IInv
<1>1. /\ UNCHANGED <<deps, own, ood, sid, phase, stack>> /\ idx' = idx + 1
      /\ phase = "search" /\ stack = <<>> /\ idx \in Item /\ ood[idx] # "unknown"
  BY DEF NextRoot, input, Types, Item
<1>2. idx + 1 \in 1 .. N + 1 /\ \A i \in Item : i < idx + 1 => i < idx \/ i = idx
  BY <1>1 DEF Item
<1>3. Types' /\ InputOK' /\ MarksOK'
  BY <1>1, <1>2 DEF Types, InputOK, MarksOK, Undecided
<1>4. ListsOK'
  BY <1>1 DEF ListsOK, In
<1>5. StackOK' /\ PathOK' /\ SeenOK'
  BY <1>1, EmptySeq DEF StackOK, PathOK, SeenOK
<1>6. LeftOK' /\ MarkedOK'
  BY <1>1, SameInput DEF LeftOK, Passed, OnStack, MarkedOK, input
<1>. QED
  BY <1>3, <1>4, <1>5, <1>6

\* The stack starts with an undecided item that has not been left.
LEMMA StepPushRoot == ASSUME IInv, PushRoot PROVE IInv'
<1>. USE SearchAssumption DEF IInv
<1>1. /\ UNCHANGED <<deps, own, ood, sid, phase, idx>> /\ stack' = <<[item |-> idx, pos |-> 0]>>
      /\ phase = "search" /\ stack = <<>> /\ idx \in Item /\ ood[idx] = "unknown"
  BY DEF PushRoot, input, Types, Item
<1>2. Len(stack') = 1 /\ stack'[1] = [item |-> idx, pos |-> 0] /\ stack' \in Seq(Frame) /\ stack' # <<>>
  BY <1>1 DEF Frame
<1>3. idx \in Undecided
  BY <1>1 DEF MarksOK, Undecided, Types
<1>4. Types' /\ InputOK' /\ MarksOK'
  BY <1>1, <1>2 DEF Types, InputOK, MarksOK, Undecided
<1>5. ListsOK'
  BY <1>1 DEF ListsOK, In
<1>6. StackOK'
  <2>1. Len(deps[idx]) \in Nat
    BY <1>1, LenProperties DEF Types
  <2>. QED
    BY <1>1, <1>2, <1>3, <2>1 DEF StackOK, Undecided
<1>7. PathOK' /\ SeenOK'
  BY <1>2 DEF PathOK, SeenOK
<1>8. OnStack' = {idx} /\ OnStack = {}
  BY <1>1, <1>2, EmptyStack DEF OnStack
<1>9. LeftOK'
  BY <1>1, <1>8 DEF LeftOK, Passed, Undecided
<1>10. MarkedOK'
  BY <1>1, SameInput DEF MarkedOK, input
<1>. QED
  BY <1>4, <1>5, <1>6, <1>7, <1>9, <1>10

\* The search ends when no item is unknown.
LEMMA StepSearchEnd == ASSUME IInv, SearchEnd PROVE IInv'
<1>. USE SearchAssumption DEF IInv
<1>1. /\ UNCHANGED <<deps, own, ood, sid, idx, stack>> /\ phase' = "done"
      /\ phase = "search" /\ stack = <<>> /\ \A i \in Item : i < idx
  BY DEF SearchEnd, input, Types, Item
<1>2. Types' /\ InputOK' /\ MarksOK'
  BY <1>1 DEF Types, InputOK, MarksOK, Undecided
<1>3. ListsOK'
  BY <1>1 DEF ListsOK, In
<1>4. StackOK' /\ PathOK' /\ SeenOK'
  BY <1>1, EmptySeq DEF StackOK, PathOK, SeenOK
<1>5. LeftOK' /\ MarkedOK'
  BY <1>1, SameInput DEF LeftOK, Passed, OnStack, MarkedOK, input
<1>. QED
  BY <1>2, <1>3, <1>4, <1>5

\* An up-to-date dependency is passed: without cycles it is not on the stack, so that
\* the search has left it.
LEMMA StepPassUpToDate == ASSUME IInv, PassUpToDate PROVE IInv'
<1>. USE SearchAssumption DEF IInv
<1>1. /\ UNCHANGED <<deps, own, ood, sid, phase, idx>> /\ stack' = Advanced
      /\ Searching /\ phase = "search" /\ stack # <<>> /\ ~AtEnd /\ ood[Child] = "up_to_date"
  BY DEF PassUpToDate, input, Searching
<1>. DEFINE n == Len(stack)
<1>2. /\ n \in Nat \ {0}
      /\ stack' \in Seq(Frame) /\ Len(stack') = n /\ stack' # <<>>
      /\ \A k \in 1 .. n : /\ stack'[k].item = stack[k].item
                           /\ k < n => stack'[k] = stack[k]
      /\ stack'[n].pos = stack[n].pos + 1
  BY <1>1, AdvancedFrames, EmptySeq DEF Top
<1>3. /\ Top = stack[n] /\ Top.item \in Undecided /\ Top.item \in Item
      /\ Top.pos + 1 \in 1 .. Len(deps[Top.item])
      /\ Top.pos + 1 \in 0 .. Len(deps[Top.item])
      /\ Child = deps[Top.item][Top.pos + 1] /\ Child \in Item
      /\ Edge(deps, Top.item, Child)
  BY <1>1, TopOfStack
<1>4. Types' /\ InputOK' /\ MarksOK'
  BY <1>1, <1>2 DEF Types, InputOK, MarksOK, Undecided
<1>5. ListsOK'
  BY <1>1 DEF ListsOK, In
<1>6. StackOK'
  <2>1. stack'[1].item = stack[1].item
    BY <1>2
  <2>2. \A k \in 1 .. n : stack'[k].pos \in 0 .. Len(deps[stack'[k].item])
    BY <1>2, <1>3 DEF StackOK
  <2>3. \A k \in 1 .. n : k < n => /\ stack'[k].pos > 0
                                   /\ deps[stack'[k].item][stack'[k].pos] = stack'[k + 1].item
    BY SMTT(30), <1>2 DEF StackOK
  <2>. QED
    BY <1>1, <1>2, <2>1, <2>2, <2>3 DEF StackOK, Undecided
<1>7. PathOK'
  BY <1>1, <1>2, SameInput DEF PathOK, input
<1>8. OnStack' = OnStack
  BY <1>2 DEF OnStack
<1>9. Passed(Child)
  <2>1. own[Child] # "ood"
    BY <1>1, <1>3 DEF MarksOK
  <2>2. ASSUME Acyclic(deps) PROVE Child \notin OnStack
    BY <1>2, <1>3, <2>2, NoWayBack DEF OnStack
  <2>. QED
    BY <1>1, <1>3, <2>1, <2>2 DEF Passed
<1>10. \A j : Passed(j) => Passed(j)'
  BY <1>1, <1>8 DEF Passed
<1>11. SeenOK'
  <2>. SUFFICES ASSUME NEW k \in 1 .. n, NEW q \in 1 .. stack'[k].pos
                PROVE  Passed(deps[stack[k].item][q]) \/ (k < n /\ q = stack'[k].pos)
    BY <1>1, <1>2, <1>10 DEF SeenOK
  <2>1. CASE k < n
    BY <1>2, <2>1 DEF SeenOK
  <2>2. CASE k = n /\ q = stack[n].pos + 1
    BY <1>3, <1>9, <2>2
  <2>3. CASE k = n /\ q # stack[n].pos + 1
    <3>1. stack[n].pos \in Nat
      BY <1>2 DEF StackOK
    <3>2. q \in 1 .. stack[n].pos
      BY <1>2, <2>3, <3>1
    <3>. QED
      BY <1>2, <2>3, <3>2 DEF SeenOK
  <2>. QED
    BY <1>2, <2>1, <2>2, <2>3
<1>12. LeftOK'
  BY <1>1, <1>8, <1>10 DEF LeftOK, Undecided
<1>13. MarkedOK'
  BY <1>1, SameInput DEF MarkedOK, input
<1>. QED
  BY <1>4, <1>5, <1>6, <1>7, <1>11, <1>12, <1>13

\* An unknown dependency is entered: it has a list, and if it is out of date so is all
\* that is on the stack.
LEMMA StepDescend == ASSUME IInv, Descend PROVE IInv'
<1>. USE SearchAssumption DEF IInv
<1>1. /\ UNCHANGED <<deps, own, sid, phase, idx>>
      /\ stack' = Append(Advanced, [item |-> Child, pos |-> 0])
      /\ Searching /\ phase = "search" /\ stack # <<>> /\ ~AtEnd /\ ood[Child] = "unknown"
      /\ ood' = [ood EXCEPT ![Child] = "up_to_date"]
  BY DEF Descend, input, Searching
<1>. DEFINE n == Len(stack)
<1>2. /\ Top = stack[n] /\ Top.item \in Undecided /\ Top.item \in Item
      /\ Top.pos + 1 \in 1 .. Len(deps[Top.item])
      /\ Top.pos + 1 \in 0 .. Len(deps[Top.item])
      /\ Child = deps[Top.item][Top.pos + 1] /\ Child \in Item
      /\ Child \in In(deps[Top.item])
  BY <1>1, TopOfStack
<1>3. /\ n \in Nat \ {0}
      /\ stack' \in Seq(Frame) /\ Len(stack') = n + 1 /\ stack' # <<>>
      /\ \A k \in 1 .. n : /\ stack'[k].item = stack[k].item
                           /\ k < n => stack'[k] = stack[k]
      /\ stack'[n].pos = stack[n].pos + 1
      /\ stack'[n + 1] = [item |-> Child, pos |-> 0]
  <2>1. [item |-> Child, pos |-> 0] \in Frame
    BY <1>2 DEF Frame
  <2>2. /\ n \in Nat \ {0}
        /\ Advanced \in Seq(Frame) /\ Len(Advanced) = n
        /\ \A k \in 1 .. n - 1 : Advanced[k] = stack[k]
        /\ Advanced[n] = [item |-> stack[n].item, pos |-> stack[n].pos + 1]
    BY <1>1, AdvancedFrames DEF Top
  <2>3. /\ stack' \in Seq(Frame) /\ Len(stack') = n + 1 /\ stack' # <<>>
        /\ \A k \in 1 .. n : stack'[k] = Advanced[k]
        /\ stack'[n + 1] = [item |-> Child, pos |-> 0]
    BY <1>1, <2>1, <2>2, AppendProperties
  <2>4. \A k \in 1 .. n : k = n \/ k \in 1 .. n - 1
    BY <2>2
  <2>5. \A k \in 1 .. n - 1 : k \in 1 .. n /\ stack'[k] = stack[k]
    BY <2>2, <2>3
  <2>6. n \in 1 .. n /\ stack'[n] = [item |-> stack[n].item, pos |-> stack[n].pos + 1]
    BY <2>2, <2>3
  <2>7. \A k \in 1 .. n : k < n => k \in 1 .. n - 1
    BY <2>2
  <2>8. \A k \in 1 .. n : /\ stack'[k].item = stack[k].item
                          /\ k < n => stack'[k] = stack[k]
    BY <2>4, <2>5, <2>6, <2>7
  <2>. QED
    BY <2>2, <2>3, <2>6, <2>8
<1>4. Child \in Undecided
  BY <1>1, <1>2 DEF MarksOK, Undecided, Types
<1>5. Types' /\ InputOK' /\ MarksOK'
  BY ZenonT(30), <1>1, <1>2, <1>3, <1>4 DEF Types, InputOK, MarksOK, Undecided, State
<1>6. ListsOK'
  BY <1>1 DEF ListsOK, In, Types
<1>7. StackOK'
  <2>1. stack'[1].item = stack[1].item
    BY <1>3
  <2>2. Len(deps[Child]) \in Nat
    BY <1>2, LenProperties DEF Types
  <2>3. \A k \in 1 .. n + 1 : /\ stack'[k].item \in Undecided
                              /\ stack'[k].pos \in 0 .. Len(deps[stack'[k].item])
    BY SMTT(30), <1>2, <1>3, <1>4, <2>2 DEF StackOK
  <2>4. \A k \in 1 .. n + 1 : k < n + 1 => /\ stack'[k].pos > 0
                              /\ deps[stack'[k].item][stack'[k].pos] = stack'[k + 1].item
    <3>. SUFFICES ASSUME NEW k \in 1 .. n
                  PROVE  /\ stack'[k].pos > 0
                         /\ deps[stack'[k].item][stack'[k].pos] = stack'[k + 1].item
      BY <1>3
    <3>1. CASE k < n
      <4>1. k + 1 \in 1 .. n /\ stack'[k] = stack[k] /\ stack'[k + 1].item = stack[k + 1].item
        BY <1>3, <3>1
      <4>. QED
        BY <3>1, <4>1 DEF StackOK
    <3>2. CASE k = n
      BY <1>2, <1>3, <3>2
    <3>. QED
      BY <1>3, <3>1, <3>2
  <2>5. \A k \in 1 .. n + 1 : /\ ood'[stack'[k].item] \in {"unknown", "up_to_date"}
                              /\ k > 1 => ood'[stack'[k].item] = "up_to_date"
    <3>1. ood'[Child] = "up_to_date" /\ \A i \in Item : ood'[i] = ood[i] \/ ood'[i] = "up_to_date"
      BY <1>1, <1>2 DEF Types
    <3>2. \A k \in 1 .. n : /\ stack[k].item \in Item
                            /\ ood[stack[k].item] \in {"unknown", "up_to_date"}
                            /\ k > 1 => ood[stack[k].item] = "up_to_date"
      BY DEF StackOK, Undecided
    <3>3. \A k \in 1 .. n + 1 : k \in 1 .. n \/ k = n + 1
      BY <1>3
    <3>4. stack'[n + 1].item = Child
      BY <1>3
    <3>5. \A k \in 1 .. n : stack'[k].item = stack[k].item
      BY <1>3
    <3>. QED
      BY <3>1, <3>2, <3>3, <3>4, <3>5, Zenon
  <2>. QED
    BY <1>1, <1>3, <2>1, <2>3, <2>4, <2>5 DEF StackOK, Undecided
<1>8. PathOK'
  <2>. SUFFICES ASSUME NEW X \in SUBSET Undecided, DepClosed(X),
                       NEW l \in 1 .. n + 1, NEW k \in 1 .. l, stack'[l].item \in X
                PROVE  stack'[k].item \in X
    BY <1>1, <1>3, SameInput DEF PathOK, input
  <2>1. CASE l <= n
    BY <1>3, <2>1 DEF PathOK
  <2>2. CASE l = n + 1
    <3>1. stack[n].item \in X
      BY <1>2, <1>3, <2>2 DEF DepClosed
    <3>2. CASE k = n + 1
      BY <2>2, <3>2
    <3>3. CASE k # n + 1
      <4>1. n \in 1 .. n /\ k \in 1 .. n
        BY <1>3, <2>2, <3>3
      <4>2. stack[k].item \in X
        BY <3>1, <4>1 DEF PathOK
      <4>. QED
        BY <1>3, <4>1, <4>2
    <3>. QED
      BY <3>2, <3>3
  <2>. QED
    BY <1>3, <2>1, <2>2
<1>9. OnStack' = OnStack \cup {Child}
  <2>1. \A k \in 1 .. n + 1 : k \in 1 .. n \/ k = n + 1
    BY <1>3
  <2>2. \A k \in 1 .. n : k \in 1 .. n + 1 /\ stack'[k].item = stack[k].item
    BY <1>3
  <2>3. n + 1 \in 1 .. n + 1 /\ stack'[n + 1].item = Child
    BY <1>3
  <2>4. OnStack' = {stack'[k].item : k \in 1 .. n + 1}
    BY <1>3 DEF OnStack
  <2>. QED
    BY <2>1, <2>2, <2>3, <2>4, Zenon DEF OnStack
<1>10. \A j : Passed(j) => Passed(j)'
  BY <1>1, <1>9 DEF Passed, Types
<1>11. SeenOK'
  <2>. SUFFICES ASSUME NEW k \in 1 .. n + 1, NEW q \in 1 .. stack'[k].pos
                PROVE  Passed(deps[stack'[k].item][q]) \/ (k < n + 1 /\ q = stack'[k].pos)
    BY <1>1, <1>3, <1>10 DEF SeenOK
  <2>1. CASE k < n
    BY <1>3, <2>1 DEF SeenOK
  <2>2. CASE k = n
    <3>1. stack[n].pos \in Nat
      BY <1>3 DEF StackOK
    <3>2. q \in 1 .. stack[n].pos \/ q = stack'[n].pos
      BY <1>3, <2>2, <3>1
    <3>. QED
      BY <1>3, <2>2, <3>2 DEF SeenOK
  <2>3. CASE k = n + 1
    BY <1>3, <2>3
  <2>. QED
    BY <1>3, <2>1, <2>2, <2>3
<1>12. LeftOK'
  <2>1. \A i \in Undecided : ood'[i] = "up_to_date" /\ i \notin OnStack' =>
          ood[i] = "up_to_date" /\ i \notin OnStack
    BY <1>1, <1>9 DEF Types, Undecided
  <2>. QED
    BY <1>1, <1>10, <2>1 DEF LeftOK, Undecided
<1>13. MarkedOK'
  BY <1>1, SameInput DEF MarkedOK, input, Types
<1>. QED
  BY <1>5, <1>6, <1>7, <1>8, <1>11, <1>12, <1>13

\* The top item is left when everything in its list has been passed.
LEMMA StepPop == ASSUME IInv, Pop PROVE IInv'
<1>. USE SearchAssumption DEF IInv
<1>1. /\ UNCHANGED <<deps, own, sid, phase>> /\ stack' = Below
      /\ Searching /\ phase = "search" /\ stack # <<>> /\ AtEnd
  BY DEF Pop, input, Searching
<1>. DEFINE n == Len(stack)
<1>2. /\ n \in Nat \ {0} /\ idx \in Item /\ stack[1].item = idx
      /\ stack' \in Seq(Frame) /\ Len(stack') = n - 1
      /\ \A k \in 1 .. n - 1 : stack'[k] = stack[k]
      /\ stack' = <<>> <=> n = 1
  BY <1>1, BelowFrames, EmptySeq DEF StackOK, Types
<1>3. /\ Top = stack[n] /\ Top.item \in Undecided /\ Top.item \in Item
      /\ sid[Top.item] = deps[Top.item]
      /\ Top.pos = Len(deps[Top.item])
  BY <1>1, TopOfStack
<1>4. IF n = 1 THEN ood' = [ood EXCEPT ![idx] = "up_to_date"] /\ idx' = idx + 1
               ELSE UNCHANGED <<ood, idx>>
  BY <1>1, <1>2 DEF Pop
<1>5. /\ ood'[Top.item] = "up_to_date"
      /\ \A i \in Item : ood'[i] = ood[i] \/ i = Top.item
  BY <1>2, <1>3, <1>4 DEF StackOK, Types
<1>6. idx' \in 1 .. N + 1 /\ (idx' = idx \/ (n = 1 /\ idx' = idx + 1))
  <2>1. idx \in 1 .. N + 1 /\ idx + 1 \in 1 .. N + 1
    BY SMTT(30), <1>2 DEF Types, Item
  <2>. QED
    BY <1>4, <2>1
<1>7. Types' /\ InputOK'
  BY <1>1, <1>2, <1>4, <1>6 DEF Types, InputOK, State, Item
<1>8. MarksOK'
  <2>1. \A i \in Item : phase = "search" /\ i < idx' => ood'[i] # "unknown"
    BY <1>1, <1>2, <1>3, <1>4, <1>5 DEF MarksOK, Item
  <2>. QED
    BY <1>1, <1>3, <1>5, <2>1 DEF MarksOK, Undecided
<1>9. ListsOK'
  BY <1>1, <1>3, <1>5 DEF ListsOK, In
<1>10. StackOK'
  <2>1. n # 1 => idx' = idx /\ ood' = ood /\ stack'[1].item = idx
    BY <1>2, <1>4
  <2>2. ASSUME NEW k \in 1 .. n - 1
        PROVE  /\ k \in 1 .. n /\ n # 1
               /\ k < n - 1 => k < n /\ stack'[k + 1] = stack[k + 1]
    BY <1>2
  <2>3. \A k \in 1 .. n - 1 :
          /\ stack[k].item \in Undecided
          /\ ood'[stack[k].item] \in {"unknown", "up_to_date"}
          /\ stack[k].pos \in 0 .. Len(deps[stack[k].item])
          /\ k > 1 => ood'[stack[k].item] = "up_to_date"
          /\ k < n - 1 => /\ stack[k].pos > 0
                          /\ deps[stack[k].item][stack[k].pos] = stack'[k + 1].item
    BY <2>1, <2>2 DEF StackOK
  <2>4. stack' # <<>> => idx' \in Item /\ stack'[1].item = idx'
    BY <1>2, <2>1
  <2>5. /\ Undecided' = Undecided /\ deps' = deps /\ phase' = "search"
        /\ Len(stack') = n - 1
    BY <1>1, <1>2, SameInput DEF input
  <2>6. \A k \in 1 .. n - 1 :
          /\ stack'[k].item \in Undecided
          /\ ood'[stack'[k].item] \in {"unknown", "up_to_date"}
          /\ stack'[k].pos \in 0 .. Len(deps[stack'[k].item])
          /\ k > 1 => ood'[stack'[k].item] = "up_to_date"
          /\ k < n - 1 => /\ stack'[k].pos > 0
                          /\ deps[stack'[k].item][stack'[k].pos] = stack'[k + 1].item
    <3>1. \A k \in 1 .. n - 1 : stack'[k] = stack[k]
      BY <1>2
    <3>. QED
      BY <2>3, <3>1, Zenon
  <2>. QED
    BY <2>4, <2>5, <2>6 DEF StackOK
<1>11. PathOK'
  <2>1. \A l \in 1 .. n - 1 : /\ l \in 1 .. n /\ stack'[l] = stack[l]
                              /\ \A k \in 1 .. l : stack'[k] = stack[k]
    BY <1>2
  <2>. QED
    BY <1>1, <1>2, <2>1, SameInput DEF PathOK, input
<1>12. OnStack' \subseteq OnStack /\ OnStack \subseteq OnStack' \cup {Top.item}
  BY <1>2, <1>3 DEF OnStack
<1>13. Acyclic(deps) => Top.item \notin OnStack'
  <2>. SUFFICES ASSUME Acyclic(deps), NEW m \in 1 .. n - 1, stack[m].item = Top.item PROVE FALSE
    BY <1>2 DEF OnStack
  <2>1. n - 1 \in 1 .. n /\ m \in 1 .. n - 1 /\ n - 1 < n
    BY <1>2
  <2>2. /\ stack[n - 1].pos \in 1 .. Len(deps[stack[n - 1].item])
        /\ deps[stack[n - 1].item][stack[n - 1].pos] = stack[n].item
    <3>1. n - 1 + 1 = n
      BY <1>2
    <3>. QED
      BY <2>1, <3>1 DEF StackOK
  <2>3. Edge(deps, stack[n - 1].item, stack[m].item)
    BY <1>3, <2>2 DEF Edge
  <2>. QED
    BY <2>1, <2>3, NoWayBack
<1>14. \A j : Passed(j) => Passed(j)'
  BY <1>1, <1>5, <1>12 DEF Passed
<1>15. SeenOK'
  <2>1. ASSUME NEW k \in 1 .. n - 1, NEW q \in 1 .. stack[k].pos, NEW j,
               j = deps[stack[k].item][q]
        PROVE  Passed(j)' \/ (k < n - 1 /\ q = stack[k].pos)
    <3>1. k \in 1 .. n /\ k < n
      BY <1>2
    <3>2. CASE Passed(j)
      BY <1>14, <3>2
    <3>3. CASE k = n - 1 /\ q = stack[k].pos
      <4>1. k + 1 = n
        BY <1>2, <3>3
      <4>2. j = Top.item
        BY <1>3, <2>1, <3>1, <3>3, <4>1 DEF StackOK
      <4>3. own[j] # "ood" /\ j \in Item
        BY <1>3, <4>2 DEF Undecided
      <4>. QED
        BY <1>1, <1>5, <1>13, <4>2, <4>3 DEF Passed
    <3>. QED
      BY <1>2, <2>1, <3>1, <3>2, <3>3 DEF SeenOK
  <2>. QED
    BY <1>1, <1>2, <2>1 DEF SeenOK
<1>16. LeftOK'
  <2>. SUFFICES ASSUME NEW i \in Undecided, ood'[i] = "up_to_date", i \notin OnStack',
                       NEW q \in 1 .. Len(deps[i])
                PROVE  Passed(deps[i][q])
    BY <1>1, <1>14 DEF LeftOK, Undecided
  <2>1. CASE i = Top.item
    BY <1>2, <1>3, <2>1 DEF SeenOK
  <2>2. CASE i # Top.item
    BY <1>5, <1>12, <2>2 DEF LeftOK, Undecided
  <2>. QED
    BY <2>1, <2>2
<1>17. MarkedOK'
  BY <1>1, <1>5, SameInput DEF MarkedOK, input
<1>. QED
  BY <1>7, <1>8, <1>9, <1>10, <1>11, <1>15, <1>16, <1>17

\* An out-of-date dependency makes all that is on the stack out of date, and these are
\* the items marked.
LEMMA StepFoundOod == ASSUME IInv, FoundOod PROVE IInv'
<1>. USE SearchAssumption DEF IInv
<1>1. /\ UNCHANGED <<deps, own, phase>> /\ stack' = <<>> /\ idx' = idx + 1
      /\ Searching /\ phase = "search" /\ stack # <<>> /\ ~AtEnd
      /\ ood[Child] \notin {"unknown", "up_to_date"}
      /\ ood' = [i \in Item |-> IF i = idx \/ i \in Entered THEN "item_deps_changed" ELSE ood[i]]
      /\ sid' = [sid EXCEPT ![idx] = <<>>]
  BY DEF FoundOod, input, Searching
<1>. DEFINE n == Len(stack)
<1>2. n \in Nat \ {0} /\ idx \in Item /\ stack[1].item = idx
  BY <1>1, EmptySeq DEF StackOK, Types
<1>3. /\ Child \in Item /\ Child \in In(deps[Top.item])
  BY <1>1, TopOfStack
<1>4. {idx} \cup Entered = OnStack
  <2>1. \A k \in 1 .. n - 1 : sid[stack[k].item][stack[k].pos] = stack[k + 1].item
    <3>. SUFFICES ASSUME NEW k \in 1 .. n - 1
                  PROVE  sid[stack[k].item][stack[k].pos] = stack[k + 1].item
      OBVIOUS
    <3>1. k \in 1 .. n /\ k < n
      BY <1>2
    <3>. QED
      BY <1>1, <3>1 DEF StackOK, ListsOK, Undecided
  <2>2. Entered = {stack[k + 1].item : k \in 1 .. n - 1}
    BY <2>1 DEF Entered
  <2>3. \A l \in 1 .. n : l = 1 \/ (l - 1 \in 1 .. n - 1 /\ (l - 1) + 1 = l)
    BY <1>2
  <2>4. \A k \in 1 .. n - 1 : k + 1 \in 1 .. n
    BY <1>2
  <2>5. OnStack \subseteq {idx} \cup Entered
    BY <1>2, <2>2, <2>3 DEF OnStack
  <2>6. {idx} \cup Entered \subseteq OnStack
    BY <1>2, <2>2, <2>4 DEF OnStack
  <2>. QED
    BY <2>5, <2>6
<1>5. \A i \in Item : ood'[i] = IF i \in OnStack THEN "item_deps_changed" ELSE ood[i]
  BY <1>1, <1>4
<1>6. OnStack \subseteq ItemDepsChanged
  <2>1. Child \in OwnOod \cup ItemDepsChanged
    BY <1>1, <1>3 DEF MarksOK, MarkedOK, OwnOod, Types, State
  <2>. QED
    BY <1>1, <1>3, <2>1, StackIsChanged DEF OnStack
<1>7. idx + 1 \in 1 .. N + 1 /\ \A i \in Item : i < idx + 1 => i < idx \/ i = idx
  BY <1>2 DEF Item
<1>8. OnStack \subseteq Undecided
  BY DEF OnStack, StackOK
<1>9. Types' /\ InputOK' /\ MarksOK'
  <2>1. <<>> \in Seq(Item \cup {Missing}) /\ <<>> \in Seq(Frame)
    BY EmptySeq
  <2>2. Types' /\ InputOK'
    BY <1>1, <1>2, <1>7, <2>1 DEF Types, InputOK, State
  <2>3. idx \in OnStack
    BY <1>4
  <2>. QED
    BY <1>1, <1>5, <1>7, <1>8, <2>2, <2>3 DEF MarksOK, Undecided
<1>10. ListsOK'
  <2>1. Missing \notin In(<<>>)
    BY EmptySeq DEF In
  <2>2. idx \in OnStack
    BY <1>4
  <2>3. sid'[idx] = <<>> /\ \A i \in Item : i # idx => sid'[i] = sid[i]
    BY <1>1, <1>2 DEF Types
  <2>. QED
    BY <1>1, <1>2, <1>5, <2>1, <2>2, <2>3 DEF ListsOK, In
<1>11. StackOK' /\ PathOK' /\ SeenOK' /\ OnStack' = {}
  BY <1>1, EmptySeq DEF StackOK, PathOK, SeenOK, OnStack
<1>12. LeftOK'
  BY <1>1, <1>5, <1>11 DEF LeftOK, Passed, Undecided
<1>13. MarkedOK'
  BY <1>1, <1>5, <1>6, SameInput DEF MarkedOK, input
<1>. QED
  BY <1>9, <1>10, <1>11, <1>12, <1>13

-----------------------------------------------------------------------------
(* The theorems *)

\* The inductive invariant: the stack is a path of items that stand or fall
\* together, and what the search has left and what it has marked is as it must be.
THEOREM Invariance == Spec => []IInv
<1>1. Init => IInv
  <2>. SUFFICES ASSUME Init PROVE IInv
    OBVIOUS
  <2>. USE SearchAssumption
  <2>1. deps \in Graphs /\ deps \in [Item -> Seq(Item \cup {Missing})]
    BY DEF Init
  <2>2. PICK X \in SUBSET Item :
           own = [i \in Item |-> IF i \in X THEN "ood"
                                 ELSE IF deps[i] # <<>> THEN "unknown" ELSE "up_to_date"]
    BY DEF Init
  <2>3. /\ ood = own /\ sid = [i \in Item |-> <<>>] /\ phase = "fill" /\ idx = 1 /\ stack = <<>>
    BY DEF Init
  <2>4. <<>> \in Seq(Item \cup {Missing}) /\ <<>> \in Seq(Frame) /\ Missing \notin In(<<>>)
    BY EmptySeq DEF In
  <2>5. Types /\ InputOK
    BY <2>1, <2>2, <2>3, <2>4 DEF Types, InputOK, State
  <2>6. MarksOK /\ LeftOK /\ MarkedOK
    BY <2>2, <2>3 DEF MarksOK, LeftOK, MarkedOK, Undecided
  <2>7. ListsOK
    BY <2>3, <2>4 DEF ListsOK, Item
  <2>8. StackOK /\ PathOK /\ SeenOK
    BY <2>3, EmptySeq DEF StackOK, PathOK, SeenOK
  <2>. QED
    BY <2>5, <2>6, <2>7, <2>8 DEF IInv
<1>2. IInv /\ [Next]_vars => IInv'
  <2>. SUFFICES ASSUME IInv, [Next]_vars PROVE IInv'
    OBVIOUS
  <2>1. CASE UNCHANGED vars
    <3>1. UNCHANGED <<deps, own, ood, sid, phase, idx, stack>>
      BY <2>1 DEF vars
    <3>2. Types' /\ InputOK' /\ MarksOK' /\ ListsOK'
      BY <3>1 DEF IInv, Types, InputOK, MarksOK, ListsOK, In, Undecided
    <3>3. StackOK' /\ SeenOK' /\ LeftOK'
      BY <3>1 DEF IInv, StackOK, SeenOK, LeftOK, Passed, OnStack, Undecided
    <3>4. PathOK' /\ MarkedOK'
      BY <3>1, SameInput DEF IInv, PathOK, MarkedOK, input
    <3>. QED
      BY <3>2, <3>3, <3>4 DEF IInv
  <2>. QED
    BY <2>1, StepFillDeps, StepFillEnd, StepNextRoot, StepPushRoot, StepPop, StepDescend,
       StepPassUpToDate, StepFoundOod, StepSearchEnd DEF Next
<1>. QED
  BY <1>1, <1>2, PTL DEF Spec

\* All variables keep their types: in particular no frame points outside its list,
\* and no index of scan_item_deps stands for an item that was not found.
THEOREM TypeCorrect == Spec => []TypeOK
<1>1. IInv => TypeOK
  <2>. SUFFICES ASSUME IInv PROVE TypeOK
    OBVIOUS
  <2>1. \A k \in 1 .. Len(stack) :
          stack[k].item \in Item /\ stack[k].pos \in 0 .. Len(sid[stack[k].item])
    <3>. SUFFICES ASSUME NEW k \in 1 .. Len(stack)
                  PROVE  stack[k].item \in Item /\ stack[k].pos \in 0 .. Len(sid[stack[k].item])
      OBVIOUS
    <3>1. phase = "search"
      BY EmptySeq DEF IInv, StackOK
    <3>. QED
      BY <3>1 DEF IInv, StackOK, ListsOK, Undecided
  <2>. QED
    BY <2>1 DEF IInv, Types, ListsOK, TypeOK, State
<1>. QED
  BY <1>1, Invariance, PTL

\* The assertions of the code (524, 542): a list that is searched is not empty.
THEOREM SearchedListsAreNotEmpty == Spec => []UnknownHasDeps
<1>1. IInv => UnknownHasDeps
  BY DEF IInv, Types, InputOK, MarksOK, ListsOK, UnknownHasDeps
<1>. QED
  BY <1>1, Invariance, PTL

\* Up-to-date items are collated with all their dependencies.
THEOREM ListsAreKept == Spec => []UpToDateKeepsDeps
<1>1. IInv => UpToDateKeepsDeps
  BY DEF IInv, ListsOK, UpToDateKeepsDeps
<1>. QED
  BY <1>1, Invariance, PTL

\* Nothing is rescanned for an item dependency unless it reaches an out-of-date
\* item, whatever the lists are.
THEOREM NoFalseAlarm ==
  Spec => [](\A i \in Item : ood[i] = "item_deps_changed" => i \in ItemDepsChanged)
<1>1. IInv => \A i \in Item : ood[i] = "item_deps_changed" => i \in ItemDepsChanged
  BY DEF IInv, MarkedOK
<1>. QED
  BY <1>1, Invariance, PTL

\* What the search has left and marked up to date is so, if the lists have no
\* cycles or name all that is reachable.
LEMMA LeftIsRight ==
  ASSUME \A g \in Graphs : Acyclic(g) \/ Flattened(g), IInv, phase # "fill"
  PROVE  \A i \in Undecided : ood[i] = "up_to_date" /\ i \notin OnStack => i \notin ItemDepsChanged
<1>. SUFFICES ASSUME NEW i \in Undecided, ood[i] = "up_to_date", i \notin OnStack
              PROVE  \E X \in SUBSET Undecided : DepClosed(X) /\ i \notin X
  BY DEF ItemDepsChanged
<1>. DEFINE Left == {j \in Undecided : ood[j] = "up_to_date" /\ j \notin OnStack}
            Direct == {j \in Undecided : In(deps[j]) \cap ({Missing} \cup OwnOod) # {}}
<1>1. \A j \in Left : \A k \in In(deps[j]) : Passed(k)
  BY DEF IInv, LeftOK, In
<1>2. \A j \in Left : In(deps[j]) \cap ({Missing} \cup OwnOod) = {}
  BY <1>1, SearchAssumption DEF Passed, OwnOod
<1>3. CASE Acyclic(deps)
  <2>1. DepClosed(Undecided \ Left)
    BY <1>1, <1>2, <1>3 DEF DepClosed, Passed
  <2>. QED
    BY <2>1
<1>4. CASE Flattened(deps)
  <2>1. \A j, k \in Item : k \in In(deps[j]) <=> Edge(deps, j, k)
    BY DEF In, Edge
  <2>2. \A j \in Item : Missing \in In(deps[j]) <=> Edge(deps, j, Missing)
    BY DEF In, Edge
  <2>3. ASSUME NEW j \in Undecided, NEW k \in In(deps[j]), k \in Direct PROVE j \in Direct
    <3>1. PICK l \in {Missing} \cup OwnOod : l \in In(deps[k])
      BY <2>3
    <3>2. l # j /\ j \in Item /\ k \in Item /\ l \in Item \cup {Missing}
      BY <2>3, SearchAssumption DEF Undecided, OwnOod
    <3>3. Edge(deps, j, k) /\ Edge(deps, k, l)
      BY <2>1, <2>2, <2>3, <3>1, <3>2
    <3>4. Edge(deps, j, l)
      BY <1>4, <3>2, <3>3 DEF Flattened
    <3>. QED
      BY <2>1, <2>2, <3>1, <3>2, <3>4
  <2>4. DepClosed(Direct)
    BY <2>3 DEF DepClosed
  <2>5. i \notin Direct /\ Direct \in SUBSET Undecided
    BY <1>2
  <2>. QED
    BY <2>4, <2>5
<1>. QED
  BY <1>3, <1>4 DEF IInv, InputOK

\* A mark is taken back only from items on the stack.
THEOREM LeftItemsAreFinal ==
  ASSUME \A g \in Graphs : Acyclic(g) \/ Flattened(g)
  PROVE  Spec => []LeftIsFinal
<1>1. IInv => LeftIsFinal
  BY LeftIsRight DEF LeftIsFinal, OnStack, ItemDepsChanged
<1>. QED
  BY <1>1, Invariance, PTL

\* For any number of items and any such lists, the search finds the items that
\* reach an out-of-date one, and no others.
THEOREM SearchIsExact ==
  ASSUME \A g \in Graphs : Acyclic(g) \/ Flattened(g)
  PROVE  Spec => []SearchExact
<1>1. IInv => SearchExact
  <2>. SUFFICES ASSUME IInv, phase = "done" PROVE SearchExact
    BY DEF SearchExact
  <2>1. OnStack = {}
    BY EmptySeq DEF IInv, StackOK, OnStack
  <2>2. \A i \in Undecided : ood[i] = IF i \in ItemDepsChanged THEN "item_deps_changed" ELSE "up_to_date"
    BY <2>1, LeftIsRight DEF IInv, Types, MarksOK, MarkedOK, State, Undecided
  <2>3. \A i \in Item \ Undecided : ood[i] = own[i]
    BY DEF IInv, MarksOK, Undecided
  <2>. QED
    BY <2>2, <2>3 DEF SearchExact
<1>. QED
  BY <1>1, Invariance, PTL

=============================================================================
