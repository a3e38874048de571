---------------------------- MODULE MCScanStores ----------------------------
(***************************************************************************)
(* Two directories, and files spelled in all the ways the normalization    *)
(* tells apart; a chunk is full after two paths.                           *)
(***************************************************************************)
EXTENDS ScanStores

CONSTANTS exe, dll, A, B

MCRoots == {<<"", "a">>, <<"", "b", ".", "">>}

MCPaths == {<<"x">>,                                \* x
            <<"..", "b", "x">>,                     \* ../b/x
            <<"", "a", ".", "", "x">>}              \* /a/.//x
MCItemPaths == {<<"x">>, <<"", "b", "y", "..", "x">>}   \* /b/y/../x
MCUnitPaths == {<<"..", "b", "x">>}

\* Nothing orders targets or names.
Renamings == Permutations({exe, dll}) \cup Permutations({A, B})
=============================================================================
