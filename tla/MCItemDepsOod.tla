---------------------------- MODULE MCItemDepsOod ----------------------------
(***************************************************************************)
(* Dependency lists of four items for ItemDepsOod.  Lists are without      *)
(* repetition and never name the item itself (execute_scanner leaves out   *)
(* an item's own file).  Where in its list an item has the missing id does *)
(* not matter to the first loop: it comes last.  Nor does it matter that   *)
(* another item has one too: at most one has.                              *)
(***************************************************************************)
EXTENDS ItemDepsOod, FiniteSets

CONSTANTS
    MaxDeps     \* bound on the length of a dependency list without cycles

Lists(i, max) ==
    {s \in UNION {[1 .. n -> Item \ {i}] : n \in 0 .. max} :
        \A j, k \in DOMAIN s : s[j] = s[k] => j = k}

FourLists(L(_)) ==
    {<<q, r, s, t>> : q \in L(1), r \in L(2), s \in L(3), t \in L(4)}

WithMissing(g) == {[g EXCEPT ![i] = Append(@, Missing)] : i \in {j \in Item : Len(g[j]) < MaxDeps}}

TestGraphs ==
    LET L(i)  == Lists(i, MaxDeps)
        M(i)  == Lists(i, N - 1)
        found == {g \in FourLists(L) : Acyclic(g)}
    IN found \cup UNION {WithMissing(g) : g \in found} \cup {g \in FourLists(M) : Flattened(g)}
=============================================================================
