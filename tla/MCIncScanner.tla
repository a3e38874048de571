---------------------------- MODULE MCIncScanner ----------------------------
(***************************************************************************)
(* Instances of IncScanner: a translation unit m, a header unit a and, in  *)
(* the larger one, a plain header fh that is no item.  Edits choose between *)
(* the include sets listed here.                                           *)
(***************************************************************************)
EXTENDS IncScanner, TLC

CONSTANTS m, a, fm, fa, fh, p1, p2

TwoProcs == {p1, p2}
ProcSym  == Permutations(TwoProcs)
CmdSym   == Permutations(Cmd)

MCItem    == {m, a}
MCFileOf  == (m :> fm) @@ (a :> fa)
OneFileOf == m :> fm
HuItems   == {a}
NoHuItems == {}

AllItems == {MCItem}
AllSets  == {{m}, {a}, MCItem}

\* Two files: m imports a, or no longer does.
TwoFiles    == {fm, fa}
TwoIncludes == (fm :> {{fa}, {}}) @@ (fa :> {{}})

\* Three files: m imports a, which includes the header, or includes the header
\* itself.
ThreeFiles    == {fm, fa, fh}
ThreeIncludes == (fm :> {{fa}, {fh}}) @@ (fa :> {{fh}}) @@ (fh :> {{}})
=============================================================================
