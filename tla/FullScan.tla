------------------------------ MODULE FullScan ------------------------------
(***************************************************************************)
(* What an incremental scan promises: the result of scanning from scratch. *)
(* A scan of a set of items happens at one moment, looks at no timestamp   *)
(* and reuses nothing: afterwards each of those items has exactly the      *)
(* record a scan of its files gives at that moment.                        *)
(***************************************************************************)
EXTENDS Naturals

CONSTANTS
    Item, File, FileOf, Includes, Cmd, ItemSets, MaxVer,
    None    \* the record of an item that was never scanned, or was cleaned

VARIABLES
    ver,    \* file -> version of its content
    inc,    \* file -> the files it includes
    store   \* item -> what is recorded of it

vars == <<ver, inc, store>>

\* f and the files it includes, directly or not.
Closure(f) == {g \in File : \A X \in SUBSET File :
                (f \in X /\ \A h \in X : inc[h] \subseteq X) => g \in X}

\* The record of item i scanned with command c.
Record(i, c) == [cmd |-> c, seen |-> [f \in Closure(FileOf[i]) |-> ver[f]]]

Init ==
    /\ ver = [f \in File |-> 0]
    /\ inc \in {g \in [File -> SUBSET File] : \A f \in File : g[f] \in Includes[f]}
    /\ store = [i \in Item |-> None]

Edit(f) ==
    /\ ver[f] < MaxVer
    /\ ver' = [ver EXCEPT ![f] = @ + 1]
    /\ \E s \in Includes[f] : inc' = [inc EXCEPT ![f] = s]
    /\ UNCHANGED store

Scan(S, c) ==
    /\ store' = [i \in Item |-> IF i \in S THEN Record(i, c[i]) ELSE store[i]]
    /\ UNCHANGED <<ver, inc>>

Clean(S) ==
    /\ store' = [i \in Item |-> IF i \in S THEN None ELSE store[i]]
    /\ UNCHANGED <<ver, inc>>

Next ==
    \/ \E f \in File : Edit(f)
    \/ \E S \in ItemSets, c \in [Item -> Cmd] : Scan(S, c)
    \/ \E S \in ItemSets : Clean(S)

Spec == Init /\ [][Next]_vars
=============================================================================
