------------------------------- MODULE IdTable -------------------------------
(***************************************************************************)
(* What a store promises: a table that gives each name one number, for     *)
(* ever.  A session extends the saved table; what it adds is saved as a    *)
(* whole or not at all.                                                    *)
(***************************************************************************)
EXTENDS Naturals, Sequences

VARIABLES
    saved,     \* the names by number, as the database has them
    session    \* the same, with those the present scan has added

TableInit == saved = <<>> /\ session = <<>>

\* t is the start of s, which has no name twice.
Extends(s, t) ==
    /\ Len(t) <= Len(s)
    /\ \A i \in 1 .. Len(t) : s[i] = t[i]
    /\ \A i, j \in 1 .. Len(s) : s[i] = s[j] => i = j

\* New names get the numbers that follow.
Grow == /\ Extends(session', session)
        /\ saved' = saved

Save == /\ saved' = session
        /\ session' = session

Abandon == /\ session' = saved
           /\ saved' = saved

TableSpec == TableInit /\ [][Grow \/ Save \/ Abandon]_<<saved, session>>

=============================================================================
