----------------------------- MODULE MCMsBuild ------------------------------
(***************************************************************************)
(* An instance of MsBuild: an application with one source file that        *)
(* references a library with two.                                          *)
(***************************************************************************)
EXTENDS MsBuild, TLC

CONSTANTS app, lib, m, a, b

MCProject    == {app, lib}
MCItem       == {m, a, b}
MCProjectOf  == (m :> app) @@ (a :> lib) @@ (b :> lib)
MCReferences == (app :> {lib}) @@ (lib :> {})
MCOrder      == (app :> <<m>>) @@ (lib :> <<a, b>>)
=============================================================================
