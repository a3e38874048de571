---------------------------- MODULE MsBuildProofs ----------------------------
(***************************************************************************)
(* What holds of definition files and module maps for any projects, items  *)
(* and references, and any number of builds, of them stopped, of edits and *)
(* of changes to project files.                                            *)
(***************************************************************************)
EXTENDS MsBuild, TLAPS

-----------------------------------------------------------------------------
(* The inductive invariant *)

Types ==
    /\ says \in [Item -> Version]
    /\ listed \subseteq Item /\ dirty \subseteq Project /\ opened \in BOOLEAN
    /\ rows \in [Item -> Version \cup {Missing}]
    /\ defs \in [Item -> Version \cup {Missing, Damaged}]
    /\ maps \in [Project -> [state : {"none", "empty", "torn", "ok"},
                             entry : [Item -> Version \cup {Missing}]]]
    /\ since \in [Project -> SUBSET Item]
    /\ \A p \in Project : since[p] \subseteq Files(p)
    /\ build \in [pc : {"idle", "scan", "maps", "clean"}, projects : SUBSET Project,
                  reads : SUBSET Project, ood : SUBSET Item, reported : SUBSET Item, todo : SUBSET Project]
    /\ build.reported \subseteq build.ood
    /\ build.ood \subseteq ItemSet(build.projects)
    /\ build.todo \subseteq build.projects
    /\ build.pc = "idle" => build = NoBuild
    /\ told \in [Item -> Version \cup {Missing}]
    /\ stops \in Nat

\* Rows are no newer than files, and definition files no older than rows.
RowsOK ==
    \A i \in Item :
        /\ rows[i] <= says[i]
        /\ rows[i] # Missing /\ i \notin bare /\ defs[i] # Damaged => defs[i] >= rows[i]

\* A definition file says what was reported, unless writing it was stopped.
DefsOK ==
    /\ \A i \in Item : defs[i] \in {told[i], Damaged}
    /\ stops = 0 => \A i \in Item : defs[i] # Damaged
    /\ build.pc \in {"scan", "maps"} =>
         \A i \in build.reported : defs[i] = says[i] /\ told[i] = says[i]

\* An entry is the report of an item whose definition file is older than the map,
\* or was missed, or the item was not listed when the map was written; the latter
\* shows, as long as the map is newer than the project file.
EntriesOK ==
    \A p \in Project : maps[p].state = "ok" =>
        /\ \A i \in Files(p) \ since[p] : maps[p].entry[i] \in {told[i], Missing} \/ i \in missed
        /\ p \notin dirty => \A i \in Files(p) : i \in listed <=> maps[p].entry[i] # Missing

\* The maps a build has dealt with are newer than all they are made from.
DoneOK ==
    build.pc = "maps" =>
        \A p \in build.projects \ build.todo :
            ItemSet({p}) # {} => p \notin dirty /\ since[p] = {}

\* As long as every build comes to writing its maps, what is newer than a map is
\* so because of the present build, or is seen because of the project file.
MissedOK ==
    stops = 0 /\ ~threw =>
        /\ missed = {}
        /\ \A p \in Project : \A i \in since[p] :
             \/ p \in dirty
             \/ build.pc = "scan" /\ i \in build.reported
             \/ build.pc = "maps" /\ p \in build.todo /\ build.reported # {}

\* A listed item that has been reported is in the map, unless it was put back.
BackOK ==
    /\ \A p \in Project : maps[p].state = "ok" =>
         \A i \in Files(p) \ since[p] :
             i \in listed /\ maps[p].entry[i] = Missing => i \in back \/ told[i] = Missing
    /\ build.pc = "clean" => \A i \in ItemSet(build.projects) : told[i] = Missing

\* A map that is not there is out of date; only a stopped build cuts one short.
MapsOK ==
    \A p \in Project :
        /\ maps[p].state = "none" => p \in dirty
        /\ stops = 0 => maps[p].state \in {"none", "ok"}

IInv == Types /\ RowsOK /\ DefsOK /\ EntriesOK /\ DoneOK /\ MissedOK /\ BackOK /\ MapsOK

-----------------------------------------------------------------------------
(* Initial states *)

\* Nothing is built: there are no rows, definition files or maps.
LEMMA InitIInv == Init => IInv
<1>. SUFFICES ASSUME Init PROVE IInv
  OBVIOUS
<1>1. Types
  <2>1. NoBuild \in [pc : {"idle", "scan", "maps", "clean"}, projects : SUBSET Project,
                     reads : SUBSET Project, ood : SUBSET Item, reported : SUBSET Item,
                     todo : SUBSET Project]
    BY DEF NoBuild
  <2>2. /\ NoBuild.reported \subseteq NoBuild.ood
        /\ NoBuild.ood \subseteq ItemSet(NoBuild.projects)
        /\ NoBuild.todo \subseteq NoBuild.projects
    BY DEF NoBuild
  <2>3. maps \in [Project -> [state : {"none", "empty", "torn", "ok"},
                               entry : [Item -> Version \cup {Missing}]]]
    BY DEF Init, NoMap
  <2>4. /\ says \in [Item -> Version] /\ stops \in Nat
        /\ rows \in [Item -> Version \cup {Missing}]
        /\ defs \in [Item -> Version \cup {Missing, Damaged}]
        /\ told \in [Item -> Version \cup {Missing}]
    BY BuildAssumption DEF Init, Version
  <2>5. /\ listed \subseteq Item /\ dirty \subseteq Project /\ opened \in BOOLEAN
        /\ since \in [Project -> SUBSET Item]
        /\ \A p \in Project : since[p] \subseteq Files(p)
    BY DEF Init
  <2>6. build = NoBuild
    BY DEF Init
  <2>. QED
    BY <2>1, <2>2, <2>3, <2>4, <2>5, <2>6 DEF Types
<1>2. RowsOK /\ DefsOK
  BY BuildAssumption DEF Init, RowsOK, DefsOK, Version, Missing, Damaged, NoBuild
<1>3. EntriesOK /\ DoneOK /\ MissedOK /\ BackOK /\ MapsOK
  BY DEF Init, EntriesOK, DoneOK, MissedOK, BackOK, MapsOK, NoMap, NoBuild
<1>. QED
  BY <1>1, <1>2, <1>3 DEF IInv

-----------------------------------------------------------------------------
(* Steps *)

\* Whatever is reported, by whichever number, is an item of the scan.
LEMMA ReportStep ==
  ASSUME Types, NEW p \in Project, NEW k, Report(p, k)
  PROVE  \E i \in build.ood \ build.reported :
           /\ build.pc = "scan"
           /\ build' = [build EXCEPT !.reported = @ \cup {i}]
           /\ defs' = [defs EXCEPT ![i] = says[i]]
           /\ since' = [since EXCEPT ![ProjectOf[i]] = @ \cup {i}]
           /\ missed' = missed \ {i}
           /\ back' = back \ {i}
           /\ bare' = bare \ {i}
           /\ told' = [told EXCEPT ![i] = says[i]]
           /\ UNCHANGED <<project, dirty, rows, opened, maps, stops, threw>>
  BY DEF Report, Forwarded

\* Entries are what EntryOf says when a map is written, and none is missing.
LEMMA EntryType ==
  ASSUME Types, DefsOK, NEW p \in Project, ~Throws(p), Rewrites(p), NEW i \in ItemSet({p})
  PROVE  EntryOf(p, i) \in Version /\ i \in Files(p)
<1>1. i \in Item /\ i \in Files(p)
  BY DEF ItemSet, Files, Types
<1>2. EntryOf(p, i) \in Version \cup {Missing, Damaged}
  BY <1>1 DEF EntryOf, Types
<1>. QED
  BY <1>1, <1>2 DEF Throws, EntryOf

\* Every step keeps the types; the items of a build are those of its projects.
LEMMA StepTypes == IInv /\ [Next]_vars => Types'
<1>. SUFFICES ASSUME IInv, [Next]_vars PROVE Types'
  OBVIOUS
<1>. USE DEF IInv
<1>1. ASSUME NEW i \in Item, Edit(i) PROVE Types'
  BY <1>1, BuildAssumption DEF Edit, Types, Version, ItemSet, history, NoBuild
<1>2. ASSUME NEW i \in Item, ChangeList(i) PROVE Types'
  BY <1>2, BuildAssumption DEF ChangeList, Types, ItemSet, NoBuild
<1>3. ASSUME NEW p \in Project, StartBuild(p) PROVE Types'
  <2>1. PICK P \in {{p}, {p} \cup References[p]} :
          build' = [pc |-> "scan", projects |-> P, reads |-> {p} \cup References[p],
                    ood |-> {i \in ItemSet(P) : rows[i] # says[i]},
                    reported |-> {}, todo |-> {}]
    BY <1>3 DEF StartBuild
  <2>2. P \subseteq Project /\ {p} \cup References[p] \subseteq Project
    BY BuildAssumption
  <2>3. build' \in [pc : {"idle", "scan", "maps", "clean"}, projects : SUBSET Project,
                    reads : SUBSET Project, ood : SUBSET Item, reported : SUBSET Item,
                    todo : SUBSET Project]
    BY <2>1, <2>2 DEF ItemSet, Types
  <2>4. /\ UNCHANGED <<says, listed, dirty, rows, defs, maps, since, told, stops>>
        /\ opened' = TRUE
    BY <1>3 DEF StartBuild, history, project
  <2>5. /\ build'.reported \subseteq build'.ood
        /\ (build.ood \subseteq ItemSet(build.projects))'
        /\ build'.todo \subseteq build'.projects
        /\ build'.pc # "idle"
    BY <2>1, <2>4 DEF ItemSet
  <2>. QED
    BY <2>3, <2>4, <2>5 DEF Types
<1>4. ASSUME NEW p \in Project, NEW k, Report(p, k) PROVE Types'
  <2>1. PICK i \in build.ood \ build.reported :
           /\ build.pc = "scan"
           /\ build' = [build EXCEPT !.reported = @ \cup {i}]
           /\ defs' = [defs EXCEPT ![i] = says[i]]
           /\ since' = [since EXCEPT ![ProjectOf[i]] = @ \cup {i}]
           /\ told' = [told EXCEPT ![i] = says[i]]
           /\ UNCHANGED <<project, dirty, rows, opened, maps, stops, threw>>
    BY <1>4, ReportStep
  <2>2. i \in Item /\ i \in Files(ProjectOf[i]) /\ ProjectOf[i] \in Project
    BY <2>1, BuildAssumption DEF Types, Files
  <2>3. \A q \in Project : since'[q] \subseteq Files(q)
    BY <2>1, <2>2 DEF Types
  <2>. QED
    BY <2>1, <2>2, <2>3 DEF Types, project, ItemSet
<1>5. ASSUME ScanEnds PROVE Types'
  BY <1>5 DEF ScanEnds, WithItems, Types, ItemSet, project, history
<1>6. ASSUME NEW p \in Project, WriteMap(p) PROVE Types'
  <2>1. [i \in Item |-> IF i \in ItemSet({p}) THEN EntryOf(p, i) ELSE Missing]
           \in [Item -> Version \cup {Missing}]
    BY <1>6, EntryType DEF WriteMap
  <2>2. maps' \in [Project -> [state : {"none", "empty", "torn", "ok"},
                               entry : [Item -> Version \cup {Missing}]]]
    BY <1>6, <2>1 DEF WriteMap, Types
  <2>. QED
    BY <1>6, <2>2 DEF WriteMap, Types, ItemSet, project, history
<1>7. ASSUME NEW p \in Project, TouchMap(p) PROVE Types'
  BY <1>7 DEF TouchMap, Types, ItemSet, project
<1>8. ASSUME NEW p \in Project, PreProcessThrows(p) PROVE Types'
  BY <1>8 DEF PreProcessThrows, Types, ItemSet, project, NoBuild
<1>9. ASSUME Compile PROVE Types'
  BY <1>9 DEF Compile, Types, ItemSet, project, history, NoBuild
<1>9a. ASSUME GetNodesThrows PROVE Types'
  BY <1>9a DEF GetNodesThrows, Types, ItemSet, project, history, NoBuild
<1>10. ASSUME NEW p \in Project, StartClean(p) PROVE Types'
  <2>1. NoMap \in [state : {"none", "empty", "torn", "ok"}, entry : [Item -> Version \cup {Missing}]]
    BY DEF NoMap
  <2>. QED
    BY <1>10, <2>1 DEF StartClean, Types, ItemSet, project, NoBuild
<1>11. ASSUME CleanItems PROVE Types'
  BY <1>11 DEF CleanItems, Types, ItemSet, project, NoBuild
<1>12. ASSUME StopScan PROVE Types'
  <2>1. /\ defs' \in [Item -> Version \cup {Missing, Damaged}]
        /\ since' \in [Project -> SUBSET Item]
        /\ \A p \in Project : since'[p] \subseteq Files(p)
    <3>1. CASE UNCHANGED <<defs, since>>
      BY <3>1 DEF Types
    <3>2. ASSUME NEW i \in build.ood,
                 defs' = [defs EXCEPT ![i] = Damaged],
                 since' = [since EXCEPT ![ProjectOf[i]] = @ \cup {i}]
          PROVE  /\ defs' \in [Item -> Version \cup {Missing, Damaged}]
                 /\ since' \in [Project -> SUBSET Item]
                 /\ \A p \in Project : since'[p] \subseteq Files(p)
      <4>1. i \in Item /\ i \in Files(ProjectOf[i])
        BY BuildAssumption DEF Types, Files
      <4>. QED
        BY <3>2, <4>1 DEF Types
    <3>. QED
      BY <1>12, <3>1, <3>2 DEF StopScan
  <2>. QED
    BY <1>12, <2>1 DEF StopScan, Stopped, Types, ItemSet, project, history, NoBuild
<1>13. ASSUME StopMaps PROVE Types'
  <2>1. \A s \in {"empty", "torn"} : [NoMap EXCEPT !.state = s]
           \in [state : {"none", "empty", "torn", "ok"}, entry : [Item -> Version \cup {Missing}]]
    BY DEF NoMap
  <2>2. maps' \in [Project -> [state : {"none", "empty", "torn", "ok"},
                               entry : [Item -> Version \cup {Missing}]]]
    <3>1. CASE UNCHANGED maps
      BY <3>1 DEF Types
    <3>2. ASSUME NEW p \in build.todo, NEW s \in {"empty", "torn"},
                 maps' = [maps EXCEPT ![p] = [NoMap EXCEPT !.state = s]]
          PROVE  maps' \in [Project -> [state : {"none", "empty", "torn", "ok"},
                                        entry : [Item -> Version \cup {Missing}]]]
      <4>1. PICK map : map = [NoMap EXCEPT !.state = s]
        OBVIOUS
      <4>. QED
        BY <2>1, <3>2, <4>1 DEF Types
    <3>. QED
      BY <1>13, <3>1, <3>2 DEF StopMaps
  <2>3. /\ since' \in [Project -> SUBSET Item]
        /\ \A p \in Project : since'[p] \subseteq Files(p)
        /\ dirty' \subseteq Project
    BY <1>13 DEF StopMaps, Types
  <2>. QED
    BY <1>13, <2>2, <2>3 DEF StopMaps, Stopped, Types, ItemSet, project, history, NoBuild
<1>14. ASSUME StopClean PROVE Types'
  BY <1>14 DEF StopClean, Stopped, Types, ItemSet, project, history, NoBuild
<1>15. CASE UNCHANGED vars
  BY <1>15 DEF vars, Types, ItemSet, project, history
<1>. QED
  BY <1>1, <1>2, <1>3, <1>4, <1>5, <1>6, <1>7, <1>8, <1>9, <1>10, <1>11, <1>12, <1>13,
     <1>14, <1>15, <1>9a DEF Next

\* A scan commits a row only after it has written the definition file.
LEMMA StepRowsOK == IInv /\ [Next]_vars => RowsOK'
<1>. SUFFICES ASSUME IInv, [Next]_vars PROVE RowsOK'
  OBVIOUS
<1>. USE DEF IInv
<1>1. ASSUME NEW i \in Item, Edit(i) PROVE RowsOK'
  BY <1>1 DEF Edit, RowsOK, Types, Version, Missing, history
<1>2. ASSUME NEW i \in Item, ChangeList(i) PROVE RowsOK'
  BY <1>2 DEF ChangeList, RowsOK, project, history
<1>3. ASSUME NEW p \in Project, StartBuild(p) PROVE RowsOK'
  BY <1>3 DEF StartBuild, RowsOK, project, history
<1>4. ASSUME NEW p \in Project, NEW k, Report(p, k) PROVE RowsOK'
  <2>1. PICK i \in build.ood \ build.reported :
           /\ defs' = [defs EXCEPT ![i] = says[i]]
           /\ bare' = bare \ {i}
           /\ UNCHANGED <<project, rows>>
    BY <1>4, ReportStep
  <2>. QED
    BY <2>1 DEF RowsOK, Types, Version, Missing, Damaged, project
<1>5. ASSUME ScanEnds PROVE RowsOK'
  BY <1>5 DEF ScanEnds, WithItems, RowsOK, DefsOK, Types, Version, Missing, project, history
<1>6. ASSUME NEW p \in Project, WriteMap(p) PROVE RowsOK'
  BY <1>6 DEF WriteMap, RowsOK, project, history
<1>7. ASSUME NEW p \in Project, TouchMap(p) PROVE RowsOK'
  BY <1>7 DEF TouchMap, RowsOK, project, history
<1>8. ASSUME NEW p \in Project, PreProcessThrows(p) PROVE RowsOK'
  BY <1>8 DEF PreProcessThrows, RowsOK, project, history
<1>9. ASSUME Compile PROVE RowsOK'
  BY <1>9 DEF Compile, RowsOK, project, history
<1>9a. ASSUME GetNodesThrows PROVE RowsOK'
  BY <1>9a DEF GetNodesThrows, RowsOK, project, history
<1>10. ASSUME NEW p \in Project, StartClean(p) PROVE RowsOK'
  BY <1>10 DEF StartClean, RowsOK, project
<1>11. ASSUME CleanItems PROVE RowsOK'
  <2>1. \/ rows' = rows /\ bare' = bare
        \/ \E p \in Project :
             /\ rows' = [i \in Item |-> IF i \in ItemSet({p}) THEN Missing ELSE rows[i]]
             /\ bare' = bare \ ItemSet({p})
    BY <1>11 DEF CleanItems, Types
  <2>2. UNCHANGED <<says, defs>>
    BY <1>11 DEF CleanItems, project
  <2>3. \A i \in Item : says[i] \in Nat
    BY DEF Types, Version
  <2>4. CASE rows' = rows /\ bare' = bare
    BY <2>2, <2>4 DEF RowsOK
  <2>5. ASSUME NEW p \in Project,
               rows' = [i \in Item |-> IF i \in ItemSet({p}) THEN Missing ELSE rows[i]],
               bare' = bare \ ItemSet({p})
        PROVE  RowsOK'
    BY <2>2, <2>3, <2>5 DEF RowsOK, Missing
  <2>. QED
    BY <2>1, <2>4, <2>5
<1>12. ASSUME StopScan PROVE RowsOK'
  <2>1. rows' = rows /\ says' = says /\ bare' = bare
    BY <1>12 DEF StopScan, project, history
  <2>2. \A i \in Item : defs'[i] = Damaged \/ defs'[i] = defs[i]
    BY <1>12 DEF StopScan, Types
  <2>. QED
    BY <2>1, <2>2 DEF RowsOK
<1>13. ASSUME StopMaps PROVE RowsOK'
  BY <1>13 DEF StopMaps, RowsOK, project, history
<1>14. ASSUME StopClean PROVE RowsOK'
  BY <1>14 DEF StopClean, RowsOK, project, history
<1>15. CASE UNCHANGED vars
  BY <1>15 DEF vars, RowsOK, project, history
<1>. QED
  BY <1>1, <1>2, <1>3, <1>4, <1>5, <1>6, <1>7, <1>8, <1>9, <1>10, <1>11, <1>12, <1>13,
     <1>14, <1>15, <1>9a DEF Next

\* A definition file is written with what is reported.
LEMMA StepDefsOK == IInv /\ [Next]_vars => DefsOK'
<1>. SUFFICES ASSUME IInv, [Next]_vars PROVE DefsOK'
  OBVIOUS
<1>. USE DEF IInv
<1>1. ASSUME NEW i \in Item, Edit(i) PROVE DefsOK'
  BY <1>1 DEF Edit, DefsOK, history
<1>2. ASSUME NEW i \in Item, ChangeList(i) PROVE DefsOK'
  BY <1>2 DEF ChangeList, DefsOK, project, history
<1>3. ASSUME NEW p \in Project, StartBuild(p) PROVE DefsOK'
  <2>1. build'.reported = {} /\ UNCHANGED <<stops, defs, told>>
    BY <1>3 DEF StartBuild, history
  <2>. QED
    BY <2>1 DEF DefsOK
<1>4. ASSUME NEW p \in Project, NEW k, Report(p, k) PROVE DefsOK'
  <2>1. PICK i \in build.ood \ build.reported :
           /\ build.pc = "scan"
           /\ build' = [build EXCEPT !.reported = @ \cup {i}]
           /\ defs' = [defs EXCEPT ![i] = says[i]]
           /\ told' = [told EXCEPT ![i] = says[i]]
           /\ UNCHANGED <<project, stops>>
    BY <1>4, ReportStep
  <2>2. build'.reported = build.reported \cup {i}
    BY <2>1 DEF Types
  <2>3. \A j \in Item : IF j = i THEN defs'[j] = says[j] /\ told'[j] = says[j] /\ says[j] # Damaged
                        ELSE defs'[j] = defs[j] /\ told'[j] = told[j]
    BY <2>1 DEF Types, Version, Damaged
  <2>4. build'.reported \subseteq Item
    BY <2>1, <2>2 DEF Types
  <2>. QED
    BY <2>1, <2>2, <2>3, <2>4 DEF DefsOK, project
<1>5. ASSUME ScanEnds PROVE DefsOK'
  <2>1. build.pc = "scan" /\ build'.reported = build.reported /\ UNCHANGED <<stops, defs, told, says>>
    BY <1>5 DEF ScanEnds, WithItems, history, project, Types
  <2>. QED
    BY <2>1 DEF DefsOK
<1>6. ASSUME NEW p \in Project, WriteMap(p) PROVE DefsOK'
  <2>1. build.pc = "maps" /\ build'.reported = build.reported /\ UNCHANGED <<stops, defs, told, says>>
    BY <1>6 DEF WriteMap, history, project, Types
  <2>. QED
    BY <2>1 DEF DefsOK
<1>7. ASSUME NEW p \in Project, TouchMap(p) PROVE DefsOK'
  <2>1. build.pc = "maps" /\ build'.reported = build.reported /\ UNCHANGED <<stops, defs, told, says>>
    BY <1>7 DEF TouchMap, history, project, Types
  <2>. QED
    BY <2>1 DEF DefsOK
<1>8. ASSUME NEW p \in Project, PreProcessThrows(p) PROVE DefsOK'
  BY <1>8 DEF PreProcessThrows, DefsOK, NoBuild, history
<1>9. ASSUME Compile PROVE DefsOK'
  BY <1>9 DEF Compile, DefsOK, NoBuild, history
<1>9a. ASSUME GetNodesThrows PROVE DefsOK'
  BY <1>9a DEF GetNodesThrows, DefsOK, NoBuild, history
<1>10. ASSUME NEW p \in Project, StartClean(p) PROVE DefsOK'
  <2>1. build'.pc = "clean" /\ stops' = stops
    BY <1>10 DEF StartClean, NoBuild
  <2>2. \A i \in Item : (defs'[i] = Missing /\ told'[i] = Missing) \/ (defs'[i] = defs[i] /\ told'[i] = told[i])
    BY <1>10 DEF StartClean
  <2>. QED
    BY <2>1, <2>2 DEF DefsOK, Missing, Damaged
<1>11. ASSUME CleanItems PROVE DefsOK'
  BY <1>11 DEF CleanItems, DefsOK, NoBuild
<1>12. ASSUME StopScan PROVE DefsOK'
  <2>1. stops' = stops + 1 /\ build' = NoBuild /\ told' = told
    BY <1>12 DEF StopScan, Stopped, history
  <2>2. \A i \in Item : defs'[i] = Damaged \/ defs'[i] = defs[i]
    BY <1>12 DEF StopScan, Types
  <2>. QED
    BY <2>1, <2>2 DEF DefsOK, NoBuild, Types
<1>13. ASSUME StopMaps PROVE DefsOK'
  <2>1. stops' = stops + 1 /\ build' = NoBuild /\ UNCHANGED <<told, defs>>
    BY <1>13 DEF StopMaps, Stopped, history
  <2>. QED
    BY <2>1 DEF DefsOK, NoBuild, Types
<1>14. ASSUME StopClean PROVE DefsOK'
  <2>1. stops' = stops + 1 /\ build' = NoBuild /\ UNCHANGED <<told, defs>>
    BY <1>14 DEF StopClean, Stopped, history
  <2>. QED
    BY <2>1 DEF DefsOK, NoBuild, Types
<1>15. CASE UNCHANGED vars
  BY <1>15 DEF vars, DefsOK, project, history
<1>. QED
  BY <1>1, <1>2, <1>3, <1>4, <1>5, <1>6, <1>7, <1>8, <1>9, <1>10, <1>11, <1>12, <1>13,
     <1>14, <1>15, <1>9a DEF Next

\* An entry that is written is the last report of the item, or hides one that the
\* old map hid.
LEMMA EntryIsTold ==
  ASSUME Types, DefsOK, EntriesOK, NEW p \in Project, ~Throws(p), Rewrites(p),
         build.pc = "maps", NEW i \in ItemSet({p})
  PROVE  EntryOf(p, i) = told[i] \/ i \in missed
<1>1. EntryOf(p, i) \notin {Missing, Damaged} /\ i \in Files(p) /\ i \in Item
  BY DEF Throws, ItemSet, Files, Types
<1>2. CASE i \in build.reported
  BY <1>1, <1>2 DEF EntryOf, DefsOK
<1>3. CASE i \notin build.reported /\ FromOldMap(p, i)
  <2>1. maps[p].state = "ok" /\ i \in Files(p) \ since[p] /\ EntryOf(p, i) = maps[p].entry[i]
    BY <1>1, <1>3 DEF EntryOf, FromOldMap, HasOldMap, MapIsNewer
  <2>. QED
    BY <1>1, <2>1 DEF EntriesOK
<1>4. CASE i \notin build.reported /\ ~FromOldMap(p, i)
  <2>1. EntryOf(p, i) = defs[i]
    BY <1>4 DEF EntryOf
  <2>. QED
    BY <1>1, <2>1 DEF DefsOK
<1>. QED
  BY <1>2, <1>3, <1>4

\* The new map has the listed items of its project, each with a report or none.
LEMMA WrittenMap ==
  ASSUME Types, DefsOK, EntriesOK, NEW p \in Project, WriteMap(p)
  PROVE  /\ \A q \in Project : q # p => maps'[q] = maps[q] /\ since'[q] = since[q]
         /\ maps'[p].state = "ok"
         /\ since'[p] = {}
         /\ \A i \in Files(p) :
              IF i \in listed
              THEN /\ maps'[p].entry[i] # Missing
                   /\ maps'[p].entry[i] = told[i] \/ i \in missed
              ELSE maps'[p].entry[i] = Missing
<1>1. ~Throws(p) /\ Rewrites(p) /\ build.pc = "maps"
  BY DEF WriteMap
<1>2. \A i \in ItemSet({p}) : /\ EntryOf(p, i) \in Version
                              /\ EntryOf(p, i) = told[i] \/ i \in missed
  BY <1>1, EntryType, EntryIsTold
<1>3. maps'[p] = [state |-> "ok",
                  entry |-> [i \in Item |-> IF i \in ItemSet({p}) THEN EntryOf(p, i) ELSE Missing]]
  BY DEF WriteMap, Types
<1>4. \A i \in Files(p) : i \in Item /\ (i \in ItemSet({p}) <=> i \in listed)
  BY DEF Files, ItemSet
<1>5. Missing \notin Version
  BY DEF Missing, Version
<1>6. \A q \in Project : /\ since'[q] = IF q = p THEN {} ELSE since[q]
                         /\ q # p => maps'[q] = maps[q]
  BY DEF WriteMap, Types
<1>. QED
  BY SMTT(30), <1>2, <1>3, <1>4, <1>5, <1>6

\* A map that is newer than a definition file says the same, or is remembered.
LEMMA StepEntriesOK == IInv /\ [Next]_vars => EntriesOK'
<1>. SUFFICES ASSUME IInv, [Next]_vars PROVE EntriesOK'
  OBVIOUS
<1>. USE DEF IInv
<1>1. ASSUME NEW i \in Item, Edit(i) PROVE EntriesOK'
  BY <1>1 DEF Edit, EntriesOK, project, history
<1>2. ASSUME NEW i \in Item, ChangeList(i) PROVE EntriesOK'
  BY <1>2, BuildAssumption DEF ChangeList, EntriesOK, Files
<1>3. ASSUME NEW p \in Project, StartBuild(p) PROVE EntriesOK'
  BY <1>3 DEF StartBuild, EntriesOK, project, history
<1>4. ASSUME NEW p \in Project, NEW k, Report(p, k) PROVE EntriesOK'
  <2>1. PICK i \in build.ood \ build.reported :
           /\ build.pc = "scan"
           /\ build' = [build EXCEPT !.reported = @ \cup {i}]
           /\ since' = [since EXCEPT ![ProjectOf[i]] = @ \cup {i}]
           /\ missed' = missed \ {i}
           /\ back' = back \ {i}
           /\ told' = [told EXCEPT ![i] = says[i]]
           /\ UNCHANGED <<project, dirty, maps, stops, threw>>
    BY <1>4, ReportStep
  <2>2. i \in Item /\ ProjectOf[i] \in Project
    BY <2>1, BuildAssumption DEF Types
  <2>3. \A q \in Project : since[q] \subseteq since'[q]
    BY <2>1, <2>2 DEF Types
  <2>4. i \in since'[ProjectOf[i]]
    BY <2>1, <2>2 DEF Types
  <2>5. \A q \in Project : \A j \in Files(q) \ since'[q] :
          j \in Files(q) \ since[q] /\ told'[j] = told[j] /\ (j \in missed' <=> j \in missed)
    BY <2>1, <2>3, <2>4 DEF Types, Files
  <2>. QED
    BY <2>1, <2>5 DEF EntriesOK, project
<1>5. ASSUME ScanEnds PROVE EntriesOK'
  BY <1>5 DEF ScanEnds, WithItems, EntriesOK, project, history
<1>6. ASSUME NEW p \in Project, WriteMap(p) PROVE EntriesOK'
  <2>1. UNCHANGED <<listed, told, missed>> /\ dirty' = dirty \ {p}
    BY <1>6 DEF WriteMap, project, history
  <2>. QED
    BY <1>6, <2>1, WrittenMap DEF EntriesOK
<1>7. ASSUME NEW p \in Project, TouchMap(p) PROVE EntriesOK'
  <2>1. /\ UNCHANGED <<listed, dirty, maps, told>>
        /\ missed' = missed \cup {i \in since[p] : maps[p].entry[i] # defs[i]}
        /\ \A q \in Project : since'[q] = IF q = p THEN {} ELSE since[q]
    BY <1>7 DEF TouchMap, project, Types
  <2>2. \A i \in Files(p) : defs[i] \in {told[i], Damaged} /\ maps[p].entry[i] # Damaged
    BY DEF DefsOK, Types, Files, Version, Missing, Damaged
  <2>. QED
    BY <2>1, <2>2 DEF EntriesOK
<1>8. ASSUME NEW p \in Project, PreProcessThrows(p) PROVE EntriesOK'
  BY <1>8 DEF PreProcessThrows, EntriesOK, project, history
<1>9. ASSUME Compile PROVE EntriesOK'
  BY <1>9 DEF Compile, EntriesOK, project, history
<1>9a. ASSUME GetNodesThrows PROVE EntriesOK'
  BY <1>9a DEF GetNodesThrows, EntriesOK, project, history
<1>10. ASSUME NEW p \in Project, StartClean(p) PROVE EntriesOK'
  <2>1. maps'[p].state # "ok" /\ \A q \in Project : q # p => maps'[q] = maps[q] /\ since'[q] = since[q]
    BY <1>10 DEF StartClean, NoMap, Types
  <2>2. \A q \in Project : q # p => \A i \in Files(q) :
          told'[i] = told[i] /\ (i \in missed' <=> i \in missed)
    BY <1>10 DEF StartClean, Files, ItemSet
  <2>3. listed' = listed /\ dirty' = dirty \cup {p}
    BY <1>10 DEF StartClean, project
  <2>. QED
    BY <2>1, <2>2, <2>3 DEF EntriesOK
<1>11. ASSUME CleanItems PROVE EntriesOK'
  BY <1>11 DEF CleanItems, EntriesOK, project, history
<1>12. ASSUME StopScan PROVE EntriesOK'
  <2>1. UNCHANGED <<listed, dirty, maps, told, missed>> /\ \A q \in Project : since[q] \subseteq since'[q]
    BY <1>12 DEF StopScan, project, history, Types
  <2>. QED
    BY <2>1 DEF EntriesOK
<1>13. ASSUME StopMaps PROVE EntriesOK'
  <2>1. UNCHANGED <<listed, told, missed>>
    BY <1>13 DEF StopMaps, project, history
  <2>2. CASE UNCHANGED <<maps, since, dirty>>
    BY <2>1, <2>2 DEF EntriesOK
  <2>3. ASSUME NEW p \in build.todo, NEW s \in {"empty", "torn"},
               maps' = [maps EXCEPT ![p] = [NoMap EXCEPT !.state = s]],
               since' = [since EXCEPT ![p] = {}], dirty' = dirty \ {p}
        PROVE  EntriesOK'
    <3>1. [NoMap EXCEPT !.state = s].state # "ok" /\ p \in Project
      BY <2>3 DEF NoMap, Types
    <3>2. PICK map : map = [NoMap EXCEPT !.state = s]
      OBVIOUS
    <3>3. maps'[p].state # "ok" /\ \A q \in Project : q # p => maps'[q] = maps[q] /\ since'[q] = since[q]
      BY <2>3, <3>1, <3>2 DEF Types
    <3>. QED
      BY <2>1, <2>3, <3>3 DEF EntriesOK
  <2>. QED
    BY <1>13, <2>2, <2>3 DEF StopMaps
<1>14. ASSUME StopClean PROVE EntriesOK'
  BY <1>14 DEF StopClean, EntriesOK, project, history
<1>15. CASE UNCHANGED vars
  BY <1>15 DEF vars, EntriesOK, project, history
<1>. QED
  BY <1>1, <1>2, <1>3, <1>4, <1>5, <1>6, <1>7, <1>8, <1>9, <1>10, <1>11, <1>12, <1>13,
     <1>14, <1>15, <1>9a DEF Next

\* A build leaves a map behind that is newer than what it is made from.
LEMMA StepDoneOK == IInv /\ [Next]_vars => DoneOK'
<1>. SUFFICES ASSUME IInv, [Next]_vars PROVE DoneOK'
  OBVIOUS
<1>. USE DEF IInv
<1>1. ASSUME NEW i \in Item, Edit(i) PROVE DoneOK'
  <2>1. build'.pc = "idle"
    BY <1>1 DEF Edit
  <2>. QED
    BY <2>1 DEF DoneOK
<1>2. ASSUME NEW i \in Item, ChangeList(i) PROVE DoneOK'
  <2>1. build'.pc = "idle"
    BY <1>2 DEF ChangeList
  <2>. QED
    BY <2>1 DEF DoneOK
<1>3. ASSUME NEW p \in Project, StartBuild(p) PROVE DoneOK'
  <2>1. build'.pc = "scan"
    BY <1>3 DEF StartBuild
  <2>. QED
    BY <2>1 DEF DoneOK
<1>4. ASSUME NEW p \in Project, NEW k, Report(p, k) PROVE DoneOK'
  <2>1. PICK i \in build.ood \ build.reported :
           /\ build.pc = "scan"
           /\ build' = [build EXCEPT !.reported = @ \cup {i}]
           /\ since' = [since EXCEPT ![ProjectOf[i]] = @ \cup {i}]
           /\ missed' = missed \ {i}
           /\ back' = back \ {i}
           /\ told' = [told EXCEPT ![i] = says[i]]
           /\ UNCHANGED <<project, dirty, maps, stops, threw>>
    BY <1>4, ReportStep
  <2>2. i \in Item /\ ProjectOf[i] \in Project
    BY <2>1, BuildAssumption DEF Types
  <2>. QED
    BY <2>1 DEF DoneOK, Types
<1>5. ASSUME ScanEnds PROVE DoneOK'
  <2>1. build'.projects \ build'.todo = {p \in build.projects : ItemSet({p}) = {}} /\ listed' = listed
    BY <1>5 DEF ScanEnds, WithItems, Types, project
  <2>. QED
    BY <2>1 DEF DoneOK, ItemSet
<1>6. ASSUME NEW p \in Project, WriteMap(p) PROVE DoneOK'
  <2>1. /\ build.pc = "maps" /\ dirty' = dirty \ {p} /\ listed' = listed
        /\ \A q \in Project : since'[q] = IF q = p THEN {} ELSE since[q]
    BY <1>6 DEF WriteMap, Rewrites, Types, project
  <2>2. build'.projects = build.projects /\ build'.todo = build.todo \ {p}
    BY <1>6 DEF WriteMap, Types
  <2>3. build.projects \subseteq Project
    BY DEF Types
  <2>. QED
    BY <2>1, <2>2, <2>3 DEF DoneOK, ItemSet
<1>7. ASSUME NEW p \in Project, TouchMap(p) PROVE DoneOK'
  <2>1. /\ build.pc = "maps" /\ dirty' = dirty /\ p \notin dirty /\ listed' = listed
        /\ \A q \in Project : since'[q] = IF q = p THEN {} ELSE since[q]
    BY <1>7 DEF TouchMap, Rewrites, Types, project
  <2>2. build'.projects = build.projects /\ build'.todo = build.todo \ {p}
    BY <1>7 DEF TouchMap, Types
  <2>3. build.projects \subseteq Project
    BY DEF Types
  <2>. QED
    BY <2>1, <2>2, <2>3 DEF DoneOK, ItemSet
<1>8. ASSUME NEW p \in Project, PreProcessThrows(p) PROVE DoneOK'
  BY <1>8 DEF PreProcessThrows, DoneOK, NoBuild
<1>9. ASSUME Compile PROVE DoneOK'
  BY <1>9 DEF Compile, DoneOK, NoBuild
<1>9a. ASSUME GetNodesThrows PROVE DoneOK'
  BY <1>9a DEF GetNodesThrows, DoneOK, NoBuild
<1>10. ASSUME NEW p \in Project, StartClean(p) PROVE DoneOK'
  <2>1. build'.pc = "clean"
    BY <1>10 DEF StartClean, NoBuild
  <2>. QED
    BY <2>1 DEF DoneOK
<1>11. ASSUME CleanItems PROVE DoneOK'
  BY <1>11 DEF CleanItems, DoneOK, NoBuild
<1>12. ASSUME StopScan PROVE DoneOK'
  BY <1>12 DEF StopScan, Stopped, DoneOK, NoBuild
<1>13. ASSUME StopMaps PROVE DoneOK'
  BY <1>13 DEF StopMaps, Stopped, DoneOK, NoBuild
<1>14. ASSUME StopClean PROVE DoneOK'
  BY <1>14 DEF StopClean, Stopped, DoneOK, NoBuild
<1>15. CASE UNCHANGED vars
  BY <1>15 DEF vars, DoneOK, project, history, ItemSet
<1>. QED
  BY <1>1, <1>2, <1>3, <1>4, <1>5, <1>6, <1>7, <1>8, <1>9, <1>10, <1>11, <1>12, <1>13,
     <1>14, <1>15, <1>9a DEF Next

\* A build that comes to its maps leaves nothing newer than them.
LEMMA StepMissedOK == IInv /\ [Next]_vars => MissedOK'
<1>. SUFFICES ASSUME IInv, [Next]_vars PROVE MissedOK'
  OBVIOUS
<1>. USE DEF IInv
<1>1. ASSUME NEW i \in Item, Edit(i) PROVE MissedOK'
  BY <1>1 DEF Edit, MissedOK, project, history, NoBuild
<1>2. ASSUME NEW i \in Item, ChangeList(i) PROVE MissedOK'
  BY <1>2 DEF ChangeList, MissedOK, project, history, NoBuild
<1>3. ASSUME NEW p \in Project, StartBuild(p) PROVE MissedOK'
  <2>1. build.pc = "idle" /\ UNCHANGED <<dirty, since, stops, missed, threw>>
    BY <1>3 DEF StartBuild, history
  <2>. QED
    BY <2>1 DEF MissedOK
<1>4. ASSUME NEW p \in Project, NEW k, Report(p, k) PROVE MissedOK'
  <2>1. PICK i \in build.ood \ build.reported :
           /\ build.pc = "scan"
           /\ build' = [build EXCEPT !.reported = @ \cup {i}]
           /\ since' = [since EXCEPT ![ProjectOf[i]] = @ \cup {i}]
           /\ missed' = missed \ {i}
           /\ back' = back \ {i}
           /\ told' = [told EXCEPT ![i] = says[i]]
           /\ UNCHANGED <<project, dirty, maps, stops, threw>>
    BY <1>4, ReportStep
  <2>2. i \in Item /\ ProjectOf[i] \in Project
    BY <2>1, BuildAssumption DEF Types
  <2>3. build'.pc = "scan" /\ build'.reported = build.reported \cup {i}
    BY <2>1 DEF Types
  <2>4. \A q \in Project : \A j \in since'[q] : j \in since[q] \/ j = i
    BY <2>1, <2>2 DEF Types
  <2>. QED
    BY <2>1, <2>3, <2>4 DEF MissedOK
<1>5. ASSUME ScanEnds PROVE MissedOK'
  <2>1. build.pc = "scan" /\ UNCHANGED <<dirty, since, stops, missed, threw>>
    BY <1>5 DEF ScanEnds, WithItems, history
  <2>2. /\ build'.pc = "maps" /\ build'.reported = build.reported
        /\ build'.todo = {p \in build.projects : ItemSet({p}) # {}}
    BY <1>5 DEF ScanEnds, WithItems, Types
  <2>3. \A p \in Project : \A i \in since[p] : i \in build.reported => p \in build'.todo
    BY <2>2 DEF Types, ItemSet, Files
  <2>. QED
    BY <2>1, <2>2, <2>3 DEF MissedOK
<1>6. ASSUME NEW p \in Project, WriteMap(p) PROVE MissedOK'
  <2>1. /\ build.pc = "maps" /\ dirty' = dirty \ {p} /\ UNCHANGED <<stops, missed, threw>>
        /\ \A q \in Project : since'[q] = IF q = p THEN {} ELSE since[q]
    BY <1>6 DEF WriteMap, Types, history
  <2>2. /\ build'.pc = "maps" /\ build'.reported = build.reported
        /\ build'.todo = build.todo \ {p}
    BY <1>6 DEF WriteMap, Types
  <2>. QED
    BY <2>1, <2>2 DEF MissedOK
<1>7. ASSUME NEW p \in Project, TouchMap(p) PROVE MissedOK'
  <2>1. /\ build.pc = "maps" /\ dirty' = dirty /\ UNCHANGED <<stops, threw>>
        /\ \A q \in Project : since'[q] = IF q = p THEN {} ELSE since[q]
        /\ p \notin dirty /\ build.reported = {}
        /\ missed' = missed \cup {i \in since[p] : maps[p].entry[i] # defs[i]}
    BY <1>7 DEF TouchMap, Rewrites, Types
  <2>2. stops = 0 /\ ~threw => since[p] = {}
    BY <2>1 DEF MissedOK
  <2>. QED
    BY <2>1, <2>2 DEF MissedOK
<1>8. ASSUME NEW p \in Project, PreProcessThrows(p) PROVE MissedOK'
  BY <1>8 DEF PreProcessThrows, MissedOK
<1>9. ASSUME Compile PROVE MissedOK'
  BY <1>9 DEF Compile, MissedOK, history
<1>9a. ASSUME GetNodesThrows PROVE MissedOK'
  BY <1>9a DEF GetNodesThrows, MissedOK, history
<1>10. ASSUME NEW p \in Project, StartClean(p) PROVE MissedOK'
  <2>1. /\ build.pc = "idle" /\ UNCHANGED <<stops, threw>>
        /\ dirty \subseteq dirty' /\ missed' \subseteq missed
        /\ \A q \in Project : since'[q] \subseteq since[q]
    BY <1>10 DEF StartClean, Types
  <2>. QED
    BY <2>1 DEF MissedOK
<1>11. ASSUME CleanItems PROVE MissedOK'
  BY <1>11 DEF CleanItems, MissedOK
<1>12. ASSUME StopScan PROVE MissedOK'
  <2>1. stops' # 0
    BY <1>12 DEF StopScan, Stopped, Types
  <2>. QED
    BY <2>1 DEF MissedOK
<1>13. ASSUME StopMaps PROVE MissedOK'
  <2>1. stops' # 0
    BY <1>13 DEF StopMaps, Stopped, Types
  <2>. QED
    BY <2>1 DEF MissedOK
<1>14. ASSUME StopClean PROVE MissedOK'
  <2>1. stops' # 0
    BY <1>14 DEF StopClean, Stopped, Types
  <2>. QED
    BY <2>1 DEF MissedOK
<1>15. CASE UNCHANGED vars
  BY <1>15 DEF vars, MissedOK, project, history
<1>. QED
  BY <1>1, <1>2, <1>3, <1>4, <1>5, <1>6, <1>7, <1>8, <1>9, <1>10, <1>11, <1>12, <1>13,
     <1>14, <1>15, <1>9a DEF Next

\* Only an item that is put back can be reported, listed and not in the map.
LEMMA StepBackOK == IInv /\ [Next]_vars => BackOK'
<1>. SUFFICES ASSUME IInv, [Next]_vars PROVE BackOK'
  OBVIOUS
<1>. USE DEF IInv
<1>1. ASSUME NEW i \in Item, Edit(i) PROVE BackOK'
  BY <1>1 DEF Edit, BackOK, history
<1>2. ASSUME NEW i \in Item, ChangeList(i) PROVE BackOK'
  BY <1>2 DEF ChangeList, BackOK
<1>3. ASSUME NEW p \in Project, StartBuild(p) PROVE BackOK'
  <2>1. build'.pc = "scan" /\ UNCHANGED <<listed, maps, since, stops, told, back>>
    BY <1>3 DEF StartBuild, history, project
  <2>. QED
    BY <2>1 DEF BackOK
<1>4. ASSUME NEW p \in Project, NEW k, Report(p, k) PROVE BackOK'
  <2>1. PICK i \in build.ood \ build.reported :
           /\ build.pc = "scan"
           /\ build' = [build EXCEPT !.reported = @ \cup {i}]
           /\ since' = [since EXCEPT ![ProjectOf[i]] = @ \cup {i}]
           /\ missed' = missed \ {i}
           /\ back' = back \ {i}
           /\ told' = [told EXCEPT ![i] = says[i]]
           /\ UNCHANGED <<project, dirty, maps, stops, threw>>
    BY <1>4, ReportStep
  <2>2. i \in Item /\ ProjectOf[i] \in Project
    BY <2>1, BuildAssumption DEF Types
  <2>3. build'.pc = "scan"
    BY <2>1 DEF Types
  <2>4. i \in since'[ProjectOf[i]] /\ \A q \in Project : since[q] \subseteq since'[q]
    BY <2>1, <2>2 DEF Types
  <2>5. \A q \in Project : \A j \in Files(q) \ since'[q] :
          j \in Files(q) \ since[q] /\ told'[j] = told[j] /\ (j \in back' <=> j \in back)
    BY <2>1, <2>4 DEF Types, Files
  <2>. QED
    BY <2>1, <2>3, <2>5 DEF BackOK, project
<1>5. ASSUME ScanEnds PROVE BackOK'
  <2>1. build'.pc = "maps" /\ UNCHANGED <<listed, maps, since, stops, told, back>>
    BY <1>5 DEF ScanEnds, WithItems, Types, history, project
  <2>. QED
    BY <2>1 DEF BackOK
<1>6. ASSUME NEW p \in Project, WriteMap(p) PROVE BackOK'
  <2>1. build'.pc = "maps" /\ UNCHANGED <<listed, stops, told, back>>
    BY <1>6 DEF WriteMap, Types, history, project
  <2>. QED
    BY <1>6, <2>1, WrittenMap DEF BackOK
<1>7. ASSUME NEW p \in Project, TouchMap(p) PROVE BackOK'
  <2>1. build'.pc = "maps" /\ UNCHANGED <<listed, maps, stops, told, back>> /\ p \notin dirty
    BY <1>7 DEF TouchMap, Rewrites, Types, project
  <2>2. \A q \in Project : q # p => since'[q] = since[q]
    BY <1>7 DEF TouchMap, Types
  <2>. QED
    BY <2>1, <2>2 DEF BackOK, EntriesOK
<1>8. ASSUME NEW p \in Project, PreProcessThrows(p) PROVE BackOK'
  BY <1>8 DEF PreProcessThrows, BackOK, NoBuild, project
<1>9. ASSUME Compile PROVE BackOK'
  BY <1>9 DEF Compile, BackOK, NoBuild, project, history
<1>9a. ASSUME GetNodesThrows PROVE BackOK'
  BY <1>9a DEF GetNodesThrows, BackOK, NoBuild, project, history
<1>10. ASSUME NEW p \in Project, StartClean(p) PROVE BackOK'
  <2>1. maps'[p].state = "none" /\ \A q \in Project : q # p => maps'[q] = maps[q] /\ since'[q] = since[q]
    BY <1>10 DEF StartClean, NoMap, Types
  <2>2. \A q \in Project : q # p => \A i \in Files(q) : told'[i] = told[i]
    BY <1>10 DEF StartClean, Files, ItemSet
  <2>3. build'.projects = {p} /\ UNCHANGED <<listed, back, stops>>
    BY <1>10 DEF StartClean, NoBuild, project
  <2>4. \A i \in listed : ProjectOf[i] \in {p} => told'[i] = Missing
    BY <1>10 DEF StartClean, ItemSet, Types
  <2>5. (\A i \in ItemSet(build.projects) : told[i] = Missing)'
    BY <2>3, <2>4 DEF ItemSet
  <2>6. ASSUME NEW q \in Project, maps'[q].state = "ok", NEW i \in Files(q) \ since'[q],
               i \in listed', maps'[q].entry[i] = Missing
        PROVE  i \in back' \/ told'[i] = Missing
    BY <2>1, <2>2, <2>3, <2>6 DEF BackOK
  <2>. QED
    BY <2>5, <2>6 DEF BackOK
<1>11. ASSUME CleanItems PROVE BackOK'
  <2>1. build'.pc = "idle" /\ build.pc = "clean" /\ UNCHANGED <<listed, maps, since, stops, told>>
    BY <1>11 DEF CleanItems, NoBuild, project
  <2>2. \A i \in Item : i \in back \ back' => i \in ItemSet(build.projects)
    BY <1>11 DEF CleanItems, ItemSet
  <2>. QED
    BY <2>1, <2>2 DEF BackOK, Files
<1>12. ASSUME StopScan PROVE BackOK'
  <2>1. /\ build'.pc = "idle" /\ stops' # 0 /\ UNCHANGED <<listed, maps, told, back>>
        /\ \A q \in Project : since[q] \subseteq since'[q]
    BY <1>12 DEF StopScan, Stopped, NoBuild, project, history, Types
  <2>. QED
    BY <2>1 DEF BackOK
<1>13. ASSUME StopMaps PROVE BackOK'
  <2>1. build'.pc = "idle" /\ stops' # 0 /\ UNCHANGED <<listed, told, back>>
    BY <1>13 DEF StopMaps, Stopped, NoBuild, project, history, Types
  <2>2. CASE UNCHANGED <<maps, since, dirty>>
    BY <2>1, <2>2 DEF BackOK
  <2>3. ASSUME NEW p \in build.todo, NEW s \in {"empty", "torn"},
               maps' = [maps EXCEPT ![p] = [NoMap EXCEPT !.state = s]],
               since' = [since EXCEPT ![p] = {}], dirty' = dirty \ {p}
        PROVE  BackOK'
    <3>1. [NoMap EXCEPT !.state = s].state # "ok" /\ p \in Project
      BY <2>3 DEF NoMap, Types
    <3>2. PICK map : map = [NoMap EXCEPT !.state = s]
      OBVIOUS
    <3>3. maps'[p].state # "ok" /\ \A q \in Project : q # p => maps'[q] = maps[q] /\ since'[q] = since[q]
      BY <2>3, <3>1, <3>2 DEF Types
    <3>. QED
      BY <2>1, <3>3 DEF BackOK
  <2>. QED
    BY <1>13, <2>2, <2>3 DEF StopMaps
<1>14. ASSUME StopClean PROVE BackOK'
  <2>1. build'.pc = "idle" /\ stops' # 0 /\ UNCHANGED <<listed, maps, since, told, back>>
    BY <1>14 DEF StopClean, Stopped, NoBuild, project, history, Types
  <2>. QED
    BY <2>1 DEF BackOK
<1>15. CASE UNCHANGED vars
  BY <1>15 DEF vars, BackOK, ItemSet, project, history
<1>. QED
  BY <1>1, <1>2, <1>3, <1>4, <1>5, <1>6, <1>7, <1>8, <1>9, <1>10, <1>11, <1>12, <1>13,
     <1>14, <1>15, <1>9a DEF Next

\* What takes a map away makes its project dirty; a build cuts one only when stopped.
LEMMA StepMapsOK == IInv /\ [Next]_vars => MapsOK'
<1>. SUFFICES ASSUME IInv, [Next]_vars PROVE MapsOK'
  OBVIOUS
<1>. USE DEF IInv
<1>1. ASSUME NEW i \in Item, Edit(i) PROVE MapsOK'
  BY <1>1 DEF Edit, MapsOK
<1>2. ASSUME NEW i \in Item, ChangeList(i) PROVE MapsOK'
  BY <1>2 DEF ChangeList, MapsOK
<1>3. ASSUME NEW p \in Project, StartBuild(p) PROVE MapsOK'
  BY <1>3 DEF StartBuild, MapsOK
<1>4. ASSUME NEW p \in Project, NEW k, Report(p, k) PROVE MapsOK'
  BY <1>4 DEF Report, MapsOK
<1>5. ASSUME ScanEnds PROVE MapsOK'
  BY <1>5 DEF ScanEnds, MapsOK
<1>6. ASSUME NEW p \in Project, WriteMap(p) PROVE MapsOK'
  <2>1. stops' = stops /\ dirty' = dirty \ {p} /\ \A q \in Project : q # p => maps'[q] = maps[q]
    BY <1>6 DEF WriteMap, Types
  <2>. QED
    BY <1>6, <2>1, WrittenMap DEF MapsOK
<1>7. ASSUME NEW p \in Project, TouchMap(p) PROVE MapsOK'
  BY <1>7 DEF TouchMap, MapsOK
<1>8. ASSUME NEW p \in Project, PreProcessThrows(p) PROVE MapsOK'
  BY <1>8 DEF PreProcessThrows, MapsOK
<1>9. ASSUME Compile PROVE MapsOK'
  BY <1>9 DEF Compile, MapsOK
<1>9a. ASSUME GetNodesThrows PROVE MapsOK'
  BY <1>9a DEF GetNodesThrows, MapsOK
<1>10. ASSUME NEW p \in Project, StartClean(p) PROVE MapsOK'
  <2>1. maps'[p].state = "none" /\ \A q \in Project : q # p => maps'[q] = maps[q]
    BY <1>10 DEF StartClean, NoMap, Types
  <2>2. stops' = stops /\ dirty' = dirty \cup {p}
    BY <1>10 DEF StartClean
  <2>. QED
    BY <2>1, <2>2 DEF MapsOK
<1>11. ASSUME CleanItems PROVE MapsOK'
  BY <1>11 DEF CleanItems, MapsOK
<1>12. ASSUME StopScan PROVE MapsOK'
  <2>1. stops' # 0 /\ UNCHANGED <<maps, dirty>>
    BY <1>12 DEF StopScan, Stopped, Types
  <2>. QED
    BY <2>1 DEF MapsOK
<1>13. ASSUME StopMaps PROVE MapsOK'
  <2>1. stops' # 0
    BY <1>13 DEF StopMaps, Stopped, Types
  <2>2. CASE UNCHANGED <<maps, since, dirty>>
    BY <2>1, <2>2 DEF MapsOK
  <2>3. ASSUME NEW p \in build.todo, NEW s \in {"empty", "torn"},
               maps' = [maps EXCEPT ![p] = [NoMap EXCEPT !.state = s]],
               dirty' = dirty \ {p}
        PROVE  MapsOK'
    <3>1. [NoMap EXCEPT !.state = s].state = s /\ p \in Project
      BY <2>3 DEF NoMap, Types
    <3>2. PICK map : map = [NoMap EXCEPT !.state = s]
      OBVIOUS
    <3>3. maps'[p].state = s /\ \A q \in Project : q # p => maps'[q] = maps[q]
      BY <2>3, <3>1, <3>2 DEF Types
    <3>. QED
      BY <2>1, <2>3, <3>3 DEF MapsOK
  <2>. QED
    BY <1>13, <2>2, <2>3 DEF StopMaps
<1>14. ASSUME StopClean PROVE MapsOK'
  <2>1. stops' # 0 /\ UNCHANGED <<maps, dirty>>
    BY <1>14 DEF StopClean, Stopped, Types
  <2>. QED
    BY <2>1 DEF MapsOK
<1>15. CASE UNCHANGED vars
  BY <1>15 DEF vars, MapsOK
<1>. QED
  BY <1>1, <1>2, <1>3, <1>4, <1>5, <1>6, <1>7, <1>8, <1>9, <1>10, <1>11, <1>12, <1>13,
     <1>14, <1>15, <1>9a DEF Next

-----------------------------------------------------------------------------
(* The theorems *)

\* The inductive invariant: what builds, cleans and changes between them leave true
\* of rows, definition files and maps together.
THEOREM Invariance == Spec => []IInv
<1>1. IInv /\ [Next]_vars => IInv'
  BY StepTypes, StepRowsOK, StepDefsOK, StepEntriesOK, StepDoneOK, StepMissedOK, StepBackOK,
     StepMapsOK
  DEF IInv
<1>. QED
  BY InitIInv, <1>1, PTL DEF Spec

\* All variables keep their types; a build deals with items of its projects only.
THEOREM TypeCorrect == Spec => []TypeOK
<1>1. IInv => TypeOK
  BY DEF IInv, Types, TypeOK
<1>. QED
  BY <1>1, Invariance, PTL

\* An item with a row has a definition file at least as new, whenever builds are
\* stopped, unless a clean deleted the file and did not come to the row.
THEOREM DefinitionsFollowRows == Spec => []RowsHaveDefinitions
<1>1. IInv => RowsHaveDefinitions
  BY DEF IInv, RowsOK, RowsHaveDefinitions
<1>. QED
  BY <1>1, Invariance, PTL

\* The maps a build compiles from, its own and those of references that have been
\* built, are there, readable unless a build was stopped, and have exactly the listed
\* items, as last reported, but for reports that a touched map hides.
THEOREM MapsFollowReports == Spec => []MapsAreReports
<1>1. IInv => MapsAreReports
  <2>1. SUFFICES ASSUME IInv, build.pc = "maps", NEW p \in build.reads \ build.todo, Expected(p)
                 PROVE  /\ maps[p].state # "none"
                        /\ stops = 0 => maps[p].state = "ok"
                        /\ maps[p].state = "ok" =>
                             \A i \in Files(p) :
                                 IF i \in listed
                                 THEN maps[p].entry[i] = told[i] \/ i \in missed
                                 ELSE maps[p].entry[i] = Missing
    BY DEF MapsAreReports
  <2>2. p \in Project
    BY <2>1 DEF IInv, Types
  <2>3. p \notin dirty /\ since[p] = {}
    BY <2>1 DEF IInv, DoneOK, Expected
  <2>4. maps[p].state # "none" /\ (stops = 0 => maps[p].state = "ok")
    BY <2>1, <2>2, <2>3 DEF IInv, MapsOK
  <2>5. ASSUME maps[p].state = "ok", NEW i \in Files(p)
        PROVE  IF i \in listed THEN maps[p].entry[i] = told[i] \/ i \in missed
                               ELSE maps[p].entry[i] = Missing
    BY <2>1, <2>2, <2>3, <2>5 DEF IInv, EntriesOK
  <2>. QED
    BY <2>4, <2>5
<1>. QED
  BY <1>1, Invariance, PTL

\* As long as no build was stopped or threw, no report is hidden.
THEOREM NothingElseIsMissed == Spec => []MissedExplained
<1>1. IInv => MissedExplained
  BY DEF IInv, Types, MissedOK, MissedExplained
<1>. QED
  BY <1>1, Invariance, PTL

\* As long as no build was stopped, one throws only for an item that was put back,
\* or that the tool has yet to report.
THEOREM ThrowsAreExplained == Spec => []ThrowsExplained
<1>1. IInv => ThrowsExplained
  <2>1. SUFFICES ASSUME IInv, build.pc = "maps", stops = 0, NEW p \in build.todo, Throws(p)
                 PROVE  \E i \in ItemSet({p}) : i \in back \/ told[i] = Missing
    BY DEF ThrowsExplained
  <2>2. p \in Project /\ maps[p].state # "torn"
    BY <2>1 DEF IInv, Types, MapsOK
  <2>3. PICK i \in ItemSet({p}) : EntryOf(p, i) \in {Missing, Damaged}
    BY <2>1, <2>2 DEF Throws
  <2>4. i \in Item /\ i \in Files(p) /\ i \in listed
    BY <2>1, <2>3 DEF ItemSet, Files, IInv, Types
  <2>5. CASE i \in build.reported
    BY <2>1, <2>3, <2>4, <2>5 DEF EntryOf, IInv, Types, Version, Missing, Damaged
  <2>6. CASE i \notin build.reported /\ FromOldMap(p, i)
    <3>1. maps[p].state = "ok" /\ i \notin since[p] /\ EntryOf(p, i) = maps[p].entry[i]
      BY <2>6 DEF EntryOf, FromOldMap, HasOldMap, MapIsNewer
    <3>2. maps[p].entry[i] # Damaged
      BY <2>1, <2>2, <2>4 DEF IInv, Types, Version, Missing, Damaged
    <3>. QED
      BY <2>1, <2>2, <2>3, <2>4, <3>1, <3>2 DEF IInv, BackOK
  <2>7. CASE i \notin build.reported /\ ~FromOldMap(p, i)
    <3>1. EntryOf(p, i) = defs[i]
      BY <2>7 DEF EntryOf
    <3>. QED
      BY <2>1, <2>3, <2>4, <3>1 DEF IInv, DefsOK
  <2>. QED
    BY <2>5, <2>6, <2>7
<1>. QED
  BY <1>1, Invariance, PTL
=============================================================================
