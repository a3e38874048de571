----------------------------- MODULE ItemDepsOod -----------------------------
(***************************************************************************)
(* ScannerImpl::get_item_deps_ood (src/src/scanner/scanner.cpp): the depth *)
(* first search that decides the items get_item_ood left "unknown".  They  *)
(* have item dependencies, and are out of date if one of these is, or is   *)
(* not among the items of this scan.  The search marks an item up to date  *)
(* when it first enters it and takes that back for the items on its stack  *)
(* when it meets an item that is out of date.  It also turns the item ids  *)
(* of the database into indices, scan_item_deps, which the scan goes on to *)
(* use.                                                                    *)
(***************************************************************************)
EXTENDS Naturals, Sequences

CONSTANTS
    N,        \* number of items of the scan
    Missing,  \* an item id that item_lookup does not find
    Graphs    \* the dependency lists (all_item_deps) the search may be given

Item == 1 .. N

ASSUME SearchAssumption ==
    /\ N \in Nat
    /\ Missing \notin Item
    /\ Graphs \subseteq [Item -> Seq(Item \cup {Missing})]

VARIABLES
    deps,   \* all_item_deps
    own,    \* history: item_ood as get_item_ood left it
    ood,    \* item_ood
    sid,    \* scan_item_deps
    phase,  \* "fill" scan_item_deps, "search", "done"
    idx,    \* the item the outer loop is at
    stack   \* item_deps_stack, its top last: an item and a position in its list

vars  == <<deps, own, ood, sid, phase, idx, stack>>
input == <<deps, own>>

\* The elements of a list.
In(s) == {s[k] : k \in 1 .. Len(s)}

\* "ood" stands for the states get_item_ood gives an item for its own sake.
State == {"ood", "item_deps_changed", "unknown", "up_to_date"}

\* What get_item_ood leaves: items with dependencies and no other reason to be
\* out of date are "unknown".
Init ==
    /\ deps \in Graphs
    /\ \E X \in SUBSET Item :
         own = [i \in Item |-> IF i \in X THEN "ood"
                               ELSE IF deps[i] # <<>> THEN "unknown" ELSE "up_to_date"]
    /\ ood = own
    /\ sid = [i \in Item |-> <<>>]
    /\ phase = "fill"
    /\ idx = 1
    /\ stack = <<>>

-----------------------------------------------------------------------------
(* The first loop: look up the item dependencies *)

Kept(i) == ood[i] \in {"up_to_date", "unknown"}

\* Mutant: an id that is not found is skipped.
FillSkipsMissingMutant ==
    /\ phase = "fill" /\ idx <= N
    /\ LET Found(k) == k # Missing IN
       sid' = [sid EXCEPT ![idx] = IF Kept(idx) THEN SelectSeq(deps[idx], Found) ELSE <<>>]
    /\ ood' = [ood EXCEPT ![idx] = IF @ = "unknown" /\ In(deps[idx]) = {Missing}
                                   THEN "up_to_date" ELSE @]
    /\ idx' = idx + 1
    /\ UNCHANGED <<input, phase, stack>>

\* Mutant: the list of an item with a missing dependency is cleared, its state
\* left alone.
FillForgetsStateMutant ==
    /\ phase = "fill" /\ idx <= N
    /\ sid' = [sid EXCEPT ![idx] = IF Kept(idx) /\ Missing \notin In(deps[idx])
                                   THEN deps[idx] ELSE <<>>]
    /\ ood' = ood
    /\ idx' = idx + 1
    /\ UNCHANGED <<input, phase, stack>>

FillDeps ==
    /\ phase = "fill" /\ idx <= N
    /\ IF Kept(idx) /\ Missing \in In(deps[idx])
       THEN /\ ood' = [ood EXCEPT ![idx] = "item_deps_changed"]
            /\ sid' = sid
       ELSE /\ ood' = ood
            /\ sid' = [sid EXCEPT ![idx] = IF Kept(idx) THEN deps[idx] ELSE <<>>]
    /\ idx' = idx + 1
    /\ UNCHANGED <<input, phase, stack>>

FillEnd ==
    /\ phase = "fill" /\ idx > N
    /\ phase' = "search"
    /\ idx' = 1
    /\ UNCHANGED <<input, ood, sid, stack>>

-----------------------------------------------------------------------------
(* The second loop: a search from each item that is still unknown *)

Top   == stack[Len(stack)]
Below == SubSeq(stack, 1, Len(stack) - 1)

\* The stack once the top iterator has been incremented, and what it points at.
Advanced == [stack EXCEPT ![Len(stack)].pos = @ + 1]
AtEnd    == Top.pos + 1 > Len(sid[Top.item])
Child    == sid[Top.item][Top.pos + 1]

Searching == phase = "search" /\ stack # <<>>

NextRoot ==
    /\ phase = "search" /\ stack = <<>> /\ idx <= N
    /\ ood[idx] # "unknown"
    /\ idx' = idx + 1
    /\ UNCHANGED <<input, ood, sid, phase, stack>>

PushRoot ==
    /\ phase = "search" /\ stack = <<>> /\ idx <= N
    /\ ood[idx] = "unknown"
    /\ stack' = <<[item |-> idx, pos |-> 0]>>
    /\ UNCHANGED <<input, ood, sid, phase, idx>>

\* All dependencies of the item on top have been looked at; when it is the root
\* nothing was found.
Pop ==
    /\ Searching /\ AtEnd
    /\ stack' = Below
    /\ IF Below = <<>>
       THEN ood' = [ood EXCEPT ![idx] = "up_to_date"] /\ idx' = idx + 1
       ELSE UNCHANGED <<ood, idx>>
    /\ UNCHANGED <<input, sid, phase>>

Descend ==
    /\ Searching /\ ~AtEnd
    /\ ood[Child] = "unknown"
    /\ ood' = [ood EXCEPT ![Child] = "up_to_date"]
    /\ stack' = Append(Advanced, [item |-> Child, pos |-> 0])
    /\ UNCHANGED <<input, sid, phase, idx>>

\* Mutant: the iterator stays where it is.
PassStuckMutant ==
    /\ Searching /\ ~AtEnd
    /\ ood[Child] = "up_to_date"
    /\ UNCHANGED vars

PassUpToDate ==
    /\ Searching /\ ~AtEnd
    /\ ood[Child] = "up_to_date"
    /\ stack' = Advanced
    /\ UNCHANGED <<input, ood, sid, phase, idx>>

\* The items the frames below the top point at: those on the stack but the root.
Entered == {sid[stack[k].item][stack[k].pos] : k \in 1 .. Len(stack) - 1}

\* Mutant: only the root is marked.
FoundRootOnlyMutant ==
    /\ Searching /\ ~AtEnd
    /\ ood[Child] \notin {"unknown", "up_to_date"}
    /\ ood' = [ood EXCEPT ![idx] = "item_deps_changed"]
    /\ sid' = [sid EXCEPT ![idx] = <<>>]
    /\ stack' = <<>>
    /\ idx' = idx + 1
    /\ UNCHANGED <<input, phase>>

\* Mutant: the list of every item entered so far is cleared, those that the
\* search has left too.
FoundClearsStackMutant ==
    /\ Searching /\ ~AtEnd
    /\ ood[Child] \notin {"unknown", "up_to_date"}
    /\ ood' = [i \in Item |-> IF i = idx \/ i \in Entered THEN "item_deps_changed" ELSE ood[i]]
    /\ sid' = [i \in Item |-> IF ood[i] = "up_to_date" THEN <<>> ELSE sid[i]]
    /\ stack' = <<>>
    /\ idx' = idx + 1
    /\ UNCHANGED <<input, phase>>

FoundOod ==
    /\ Searching /\ ~AtEnd
    /\ ood[Child] \notin {"unknown", "up_to_date"}
    /\ ood' = [i \in Item |-> IF i = idx \/ i \in Entered THEN "item_deps_changed" ELSE ood[i]]
    /\ sid' = [sid EXCEPT ![idx] = <<>>]
    /\ stack' = <<>>
    /\ idx' = idx + 1
    /\ UNCHANGED <<input, phase>>

SearchEnd ==
    /\ phase = "search" /\ stack = <<>> /\ idx > N
    /\ phase' = "done"
    /\ UNCHANGED <<input, ood, sid, idx, stack>>

Next ==
    \/ FillDeps \/ FillEnd
    \/ NextRoot \/ PushRoot \/ Pop \/ Descend \/ PassUpToDate \/ FoundOod
    \/ SearchEnd

Spec == Init /\ [][Next]_vars

\* The function runs in its caller's thread.
FairSpec == Spec /\ WF_vars(Next)

-----------------------------------------------------------------------------
(* What it must compute *)

OwnOod    == {i \in Item : own[i] = "ood"}
Undecided == {i \in Item : own[i] = "unknown"}

\* X holds every undecided item with a missing dependency, or one that is out of
\* date, or one in X.
DepClosed(X) ==
    \A i \in Undecided : In(deps[i]) \cap ({Missing} \cup OwnOod \cup X) # {} => i \in X

\* The undecided items that depend on an out-of-date item: the least such X.
ItemDepsChanged ==
    {i \in Undecided : \A X \in SUBSET Undecided : DepClosed(X) => i \in X}

\* The dependency lists a complete scan may leave.
Edge(g, i, j) == \E k \in 1 .. Len(g[i]) : g[i][k] = j

\* No header includes itself, directly or not: every set of items has one that
\* includes none of them.
Acyclic(g) ==
    \A X \in SUBSET Item : X # {} =>
        \E i \in X : \A j \in X : ~Edge(g, i, j)

\* Each list names all the header units the tool saw, not just the direct ones.
Flattened(g) ==
    \A i, j \in Item, k \in Item \cup {Missing} :
        Edge(g, i, j) /\ Edge(g, j, k) /\ k # i => Edge(g, i, k)

-----------------------------------------------------------------------------
(* Properties *)

TypeOK ==
    /\ deps \in [Item -> Seq(Item \cup {Missing})]
    /\ own \in [Item -> State] /\ ood \in [Item -> State]
    /\ \A i \in Item : sid[i] \in {<<>>, deps[i]} /\ Missing \notin In(sid[i])
    /\ phase \in {"fill", "search", "done"}
    /\ idx \in 1 .. N + 1
    /\ \A k \in 1 .. Len(stack) :
         stack[k].item \in Item /\ stack[k].pos \in 0 .. Len(sid[stack[k].item])

\* scanner.cpp:484-485: the search finds the items with "any transitive item
\* dependencies (imported headers) that are out of date", and no others.
SearchExact ==
    phase = "done" =>
        /\ \A i \in Undecided :
             ood[i] = IF i \in ItemDepsChanged THEN "item_deps_changed" ELSE "up_to_date"
        /\ \A i \in Item \ Undecided : ood[i] = own[i]

\* An item marked up to date that the search has left has nothing out of date
\* below it, however the search goes on: a mark is taken back only from items on
\* the stack.
LeftIsFinal ==
    phase # "fill" => \A i \in Item \ {stack[k].item : k \in 1 .. Len(stack)} :
        ood[i] = "up_to_date" => i \notin ItemDepsChanged

\* scanner.cpp:521-524 and 542, assert(!item_deps.empty()): an item that is
\* still unknown has dependencies to look at.
UnknownHasDeps ==
    phase = "search" => \A i \in Item : ood[i] = "unknown" => sid[i] # <<>>

\* The indices an up-to-date item is collated with are its dependencies.
UpToDateKeepsDeps ==
    phase = "done" => \A i \in Item : ood[i] = "up_to_date" => sid[i] = deps[i]

\* scanner.cpp:496: "the deps for the out of date items will be filled in by
\* execute_scanner": the search leaves it nothing to add to.
OodDepsLeftToScanner ==
    phase = "done" => \A i \in Item : ood[i] # "up_to_date" => sid[i] = <<>>

\* The search ends, also where header units include each other.
Terminates == <>(phase = "done")
=============================================================================
