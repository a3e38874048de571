---------------------------- MODULE MCScanOutput ----------------------------
(***************************************************************************)
(* The situations in which the runs look at ScanOutput and NinjaGen, with  *)
(* four items.                                                             *)
(***************************************************************************)
EXTENDS NinjaGen

CONSTANTS A, B, std, hdr,
    Family    \* the situations of this run

MCModule == {A, B, std}

Says(e, i, d) == [exp |-> e, imps |-> i, deps |-> d]
Nothing       == Says(NoModule, {}, {})

\* Of each item (they are counted from 0) what its file may say.
Situation(hu, q, r, s, t, f) ==
    [hu |-> hu, says |-> [i \in Item |-> <<q, r, s, t>>[i + 1]], fails |-> f]

\* Nothing changes; modules are exported once, twice or not at all.
Unchanging ==
    {Situation({2}, {q}, {r}, {s}, {Nothing}, FALSE) :
        q \in {Says(NoModule, {A}, {2}), Says(A, {std}, {hdr, 2}), Says(B, {A, std}, {})},
        r \in {Says(A, {}, {}), Says(A, {std}, {2}), Says(NoModule, {}, {hdr})},
        s \in {Nothing, Says(NoModule, {}, {hdr}), Says(B, {std}, {})}}

\* A translation unit, an interface and two header units, of which one may
\* include the other.
Changing ==
    Situation({2, 3},
        {Says(NoModule, {A}, {2, hdr}), Says(NoModule, {A, std}, {2})},
        {Says(A, {std}, {}), Says(A, {std}, {hdr})},
        {Says(NoModule, {std}, {3}), Says(NoModule, {std}, {})},
        {Says(NoModule, {std}, {}), Says(NoModule, {std}, {hdr})}, FALSE)

\* A chain of three header units that becomes shorter at its end.
Chain ==
    Situation({1, 2, 3},
        {Says(A, {std}, {1})},
        {Says(NoModule, {std}, {2})},
        {Says(NoModule, {std}, {3}), Says(NoModule, {std}, {})},
        {Nothing}, FALSE)

\* The tool may fail; what the header unit includes stays (see the run
\* header_unit_failure for what happens otherwise).
Failing ==
    Situation({2},
        {Says(NoModule, {A}, {2, hdr}), Says(NoModule, {}, {2}), Says(NoModule, {A, std}, {})},
        {Says(A, {std}, {}), Says(A, {}, {hdr})},
        {Says(NoModule, {std}, {}), Nothing},
        {Nothing}, TRUE)

\* An interface stops being one.
Unexporting ==
    Situation({2}, {Says(NoModule, {std}, {})}, {Says(A, {std}, {}), Says(NoModule, {std}, {})},
              {Nothing}, {Nothing}, FALSE)

\* A file that imports nothing changes.
Plain ==
    Situation({2}, {Says(NoModule, {A}, {2})}, {Says(A, {}, {}), Says(A, {}, {hdr})},
              {Nothing}, {Nothing}, FALSE)

\* What ninja builds: no item is a header unit.  The import that closes a cycle
\* comes and goes, which changes the flags of three items, and the only include of
\* a header comes and goes; the tool may fail.
Building ==
    Situation({}, {Says(NoModule, {A}, {hdr}), Says(NoModule, {A}, {})},
        {Says(A, {B}, {}), Says(A, {}, {})}, {Says(B, {A}, {})}, {Nothing}, TRUE)

MCWorlds ==
    CASE Family = "all"         -> Unchanging \cup {Building, Changing, Chain, Failing, Plain}
      [] Family = "unexporting" -> {Unexporting}
      [] Family = "plain"       -> {Plain}

\* The hypotheses of the theorems hold of run output, and of the other runs but one.
ASSUME Hypotheses == HeaderUnitsStay /\ (InterfacesStay \/ Family = "unexporting")
=============================================================================
