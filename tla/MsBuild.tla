------------------------------ MODULE MsBuild -------------------------------
(***************************************************************************)
(* The MSBuild task (src/build_rules/cpp_modules.cs) around the scanner,   *)
(* which it calls through src/src/scanner/wrapper_cs.cpp.  A build scans   *)
(* the source files of one project, or of one and all it references.  What *)
(* the scanner reports of a file is written to the file's definition file  *)
(* while the scan runs, and then, for all files of a project, to its       *)
(* module map: from the reports, from the old map, or from the definition  *)
(* files, as their times tell.  The maps of all referenced projects are    *)
(* what is compiled from.  Scan, database, definition files and maps are   *)
(* written one after another, and a build may be stopped between any two.  *)
(*                                                                         *)
(* What a file says is a number, 1 and up, that grows with each edit of    *)
(* the file or a header it includes; that the scanner finds out of date    *)
(* what has changed is the subject of IncScanner.  The wrapper does not    *)
(* say which items are header units, so that none depends on another.      *)
(***************************************************************************)
EXTENDS Integers, Sequences, FiniteSets

CONSTANTS
    Item, Project,
    ProjectOf,     \* item -> the project that may list it
    References,    \* project -> the projects it references, directly or not
    Order,         \* project -> its items as a sequence
    Edited,        \* bounds: the items that are edited,
    MaxVersion,    \* what a file may come to say
    MaxChanges,    \* bound on changes to the lists of items
    MaxStops       \* bound on the number of builds and cleans stopped

Files(p) == {i \in Item : ProjectOf[i] = p}

ASSUME BuildAssumption ==
    /\ ProjectOf \in [Item -> Project]
    /\ References \in [Project -> SUBSET Project]
    /\ \A p \in Project : p \notin References[p]
    /\ \A p \in Project : /\ Len(Order[p]) = Cardinality(Files(p))
                          /\ {Order[p][k] : k \in 1 .. Len(Order[p])} = Files(p)
    /\ MaxVersion \in Nat \ {0} /\ MaxChanges \in Nat /\ MaxStops \in Nat

Version == 1 .. MaxVersion
Missing == 0      \* no file, no row, no entry
Damaged == -1     \* a file that was being written when the build was stopped

VARIABLES
    says,      \* item -> what its file says
    listed,    \* the items the project files list
    dirty,     \* projects whose file is newer than their map
    rows,      \* item -> what its row was made from
    opened,    \* whether a scan has opened the database, which makes its file
    defs,      \* item -> what its definition file says
    maps,      \* project -> its module map: a state, and what it says by item
    since,     \* project -> items whose definition file is newer than the map
    build,     \* the build or clean that runs
    changes, stops,
    told,      \* History: item -> its last report since it was cleaned,
    missed,    \* items whose last report a touched map hides, and
    back,      \* items listed again whose definition file is older than a map
    bare,      \* that lacks them, items that lost it and maybe not their row,
    threw      \* and whether a build ended before it had written its maps

project == <<says, listed, changes>>
history == <<told, missed, back, bare, threw>>
vars == <<project, dirty, rows, opened, defs, maps, since, build, stops, history>>

NoMap == [state |-> "none", entry |-> [i \in Item |-> Missing]]

\* projects: those the itemset is from; reads: those whose maps are compiled from;
\* todo: those whose map is yet to come.
NoBuild == [pc |-> "idle", projects |-> {}, reads |-> {}, ood |-> {}, reported |-> {},
            todo |-> {}]

Init ==
    /\ says = [i \in Item |-> 1]
    /\ listed = Item
    /\ dirty = Project
    /\ rows = [i \in Item |-> Missing]
    /\ opened = FALSE
    /\ defs = [i \in Item |-> Missing]
    /\ maps = [p \in Project |-> NoMap]
    /\ since = [p \in Project |-> {}]
    /\ build = NoBuild
    /\ changes = 0
    /\ stops = 0
    /\ told = [i \in Item |-> Missing]
    /\ missed = {}
    /\ back = {}
    /\ bare = {}
    /\ threw = FALSE

-----------------------------------------------------------------------------
(* The user, between builds *)

Edit(i) ==
    /\ build.pc = "idle"
    /\ i \in Edited /\ says[i] < MaxVersion
    /\ says' = [says EXCEPT ![i] = @ + 1]
    /\ UNCHANGED <<listed, changes, dirty, rows, opened, defs, maps, since, build, stops, history>>

\* An item is removed from a project file, or put back.
ChangeList(i) ==
    /\ build.pc = "idle"
    /\ changes < MaxChanges
    /\ changes' = changes + 1
    /\ listed' = IF i \in listed THEN listed \ {i} ELSE listed \cup {i}
    /\ dirty' = dirty \cup {ProjectOf[i]}
    /\ back' = IF i \notin listed THEN back \cup {i} ELSE back
    /\ UNCHANGED <<says, rows, opened, defs, maps, since, build, stops, told, missed, bare, threw>>

-----------------------------------------------------------------------------
(* The scan *)

ItemSet(P) == {i \in listed : ProjectOf[i] \in P}

\* GetScanItems: the items by project, which is how the scanner numbers them.
ScanItems(p) == SelectSeq(Order[p], LAMBDA i : i \in listed)

\* Mutant: the results are numbered by the project file, whatever it excludes.
FileOrderMutant(p, k) == Order[p][k]

\* DepInfoForwarder: the path of the item with the k-th index of its project,
\* which on_result looks up in the itemset.
Forwarded(p, k) == ScanItems(p)[k]

\* The three build modes: a project, or with it all it references.
StartBuild(p) ==
    /\ build.pc = "idle"
    /\ \E P \in {{p}, {p} \cup References[p]} :
         /\ ItemSet({p}) # {}
         /\ build' = [pc |-> "scan", projects |-> P, reads |-> {p} \cup References[p],
                      ood |-> {i \in ItemSet(P) : rows[i] # says[i]},
                      reported |-> {}, todo |-> {}]
    /\ opened' = TRUE
    /\ UNCHANGED <<project, dirty, rows, defs, maps, since, stops, history>>

\* on_result: the definition file is written while the scan holds the database.
Report(p, k) ==
    /\ build.pc = "scan"
    /\ p \in build.projects
    /\ k \in 1 .. Len(ScanItems(p))
    /\ ScanItems(p)[k] \in build.ood \ build.reported
    /\ LET i == Forwarded(p, k)
           report == says[ScanItems(p)[k]]
       IN /\ build' = [build EXCEPT !.reported = @ \cup {i}]
          /\ defs' = [defs EXCEPT ![i] = report]
          /\ since' = [since EXCEPT ![ProjectOf[i]] = @ \cup {i}]
          /\ missed' = missed \ {i}
          /\ back' = back \ {i}
          /\ bare' = bare \ {i}
    /\ told' = [told EXCEPT ![ScanItems(p)[k]] = says[ScanItems(p)[k]]]
    /\ UNCHANGED <<project, dirty, rows, opened, maps, stops, threw>>

WithItems == {p \in build.projects : ItemSet({p}) # {}}

\* Mutant: what the tool failed on is saved.
FailedSavedMutant ==
    /\ build.pc = "scan"
    /\ rows' = [i \in Item |-> IF i \in build.ood THEN says[i] ELSE rows[i]]
    /\ build' = [build EXCEPT !.pc = "maps", !.todo = WithItems]
    /\ UNCHANGED <<project, dirty, opened, defs, maps, since, stops, history>>

\* The scan commits the rows of what was reported; the tool may have failed on
\* the rest, which the task does not look at (is_ood is only set by on_result).
ScanEnds ==
    /\ build.pc = "scan"
    /\ rows' = [i \in Item |-> IF i \in build.reported THEN says[i] ELSE rows[i]]
    /\ build' = [build EXCEPT !.pc = "maps", !.todo = WithItems]
    /\ UNCHANGED <<project, dirty, opened, defs, maps, since, stops, history>>

-----------------------------------------------------------------------------
(* The module maps *)

\* DeserializeIfExists: a file cut to nothing reads as null, like a missing one.
HasOldMap(p) == maps[p].state = "ok"

\* Mutant: the old map is used whenever there is one.
AnyMapMutant(p, i) == TRUE

\* NewerThan(module_map_file, def_file), which a missing definition file passes.
MapIsNewer(p, i) == i \notin since[p]

FromOldMap(p, i) == HasOldMap(p) /\ MapIsNewer(p, i)

\* What map p says of item i when it is written.
EntryOf(p, i) ==
    IF i \in build.reported THEN says[i]
    ELSE IF FromOldMap(p, i) THEN maps[p].entry[i]
    ELSE defs[i]

\* Mutant: a map is only rewritten when the project file has changed.
DirtyOnlyMutant(p) == p \in dirty

\* nr_ood > 0 || IsProjectDirty(...).
Rewrites(p) == build.reported # {} \/ p \in dirty

\* PreProcess throws: the old map or a definition file cannot be read, or the
\* item is not where it is looked for.
Throws(p) ==
    /\ Rewrites(p)
    /\ \/ maps[p].state = "torn"
       \/ \E i \in ItemSet({p}) : EntryOf(p, i) \in {Missing, Damaged}

WriteMap(p) ==
    /\ build.pc = "maps"
    /\ p \in build.todo
    /\ Rewrites(p) /\ ~Throws(p)
    /\ maps' = [maps EXCEPT ![p] =
         [state |-> "ok",
          entry |-> [i \in Item |-> IF i \in ItemSet({p}) THEN EntryOf(p, i) ELSE Missing]]]
    /\ since' = [since EXCEPT ![p] = {}]
    /\ dirty' = dirty \ {p}
    /\ build' = [build EXCEPT !.todo = @ \ {p}]
    /\ UNCHANGED <<project, rows, opened, defs, stops, history>>

\* SetLastWriteTimeUtc.
TouchMap(p) ==
    /\ build.pc = "maps"
    /\ p \in build.todo
    /\ ~Rewrites(p)
    /\ since' = [since EXCEPT ![p] = {}]
    /\ missed' = missed \cup {i \in since[p] : maps[p].entry[i] # defs[i]}
    /\ build' = [build EXCEPT !.todo = @ \ {p}]
    /\ UNCHANGED <<project, dirty, rows, opened, defs, maps, stops, told, back, bare, threw>>

PreProcessThrows(p) ==
    /\ build.pc = "maps"
    /\ p \in build.todo
    /\ Throws(p)
    /\ build' = NoBuild
    /\ threw' = TRUE
    /\ UNCHANGED <<project, dirty, rows, opened, defs, maps, since, stops, told, missed, back, bare>>

\* GetNodes deserializes the maps of the project and of all it references, whichever
\* the build was for; one that is missing, empty or torn ends it.
Readable(q) == maps[q].state = "ok"

Compile ==
    /\ build.pc = "maps"
    /\ build.todo = {}
    /\ \A q \in build.reads : Readable(q)
    /\ build' = NoBuild
    /\ UNCHANGED <<project, dirty, rows, opened, defs, maps, since, stops, history>>

GetNodesThrows ==
    /\ build.pc = "maps"
    /\ build.todo = {}
    /\ \E q \in build.reads : ~Readable(q)
    /\ build' = NoBuild
    /\ UNCHANGED <<project, dirty, rows, opened, defs, maps, since, stops, history>>

-----------------------------------------------------------------------------
(* Cleaning *)

\* CppM_BeforeClean deletes the map and the definition files first.
StartClean(p) ==
    /\ build.pc = "idle"
    /\ ItemSet({p}) # {}
    /\ maps' = [maps EXCEPT ![p] = NoMap]
    /\ dirty' = dirty \cup {p}
    /\ defs' = [i \in Item |-> IF i \in ItemSet({p}) THEN Missing ELSE defs[i]]
    /\ since' = [since EXCEPT ![p] = @ \ ItemSet({p})]
    /\ missed' = missed \ Files(p)
    /\ bare' = bare \cup ItemSet({p})
    /\ told' = [i \in Item |-> IF i \in ItemSet({p}) THEN Missing ELSE told[i]]
    /\ build' = [NoBuild EXCEPT !.pc = "clean", !.projects = {p}]
    /\ UNCHANGED <<project, rows, opened, stops, back, threw>>

\* mdb_del fails for a row that is not there (a target the database does not know is
\* given an id first, and has none).
RowsThere(p) == \A i \in ItemSet({p}) : rows[i] # Missing

\* The rows of all items go, or the transaction is aborted.  Before the first scan
\* there is no database, and nothing is done.
CleanItems ==
    /\ build.pc = "clean"
    /\ \E p \in build.projects :
         IF opened /\ RowsThere(p)
         THEN /\ rows' = [i \in Item |-> IF i \in ItemSet({p}) THEN Missing ELSE rows[i]]
              /\ bare' = bare \ ItemSet({p})
              /\ back' = back \ ItemSet({p})
         ELSE UNCHANGED <<rows, bare, back>>
    /\ build' = NoBuild
    /\ UNCHANGED <<project, dirty, opened, defs, maps, since, stops, told, missed, threw>>

-----------------------------------------------------------------------------
(* Builds and cleans are stopped *)

Stopped == stops < MaxStops /\ stops' = stops + 1 /\ build' = NoBuild

\* During the scan, maybe in on_result; its transaction is lost.
StopScan ==
    /\ build.pc = "scan"
    /\ Stopped
    /\ \/ UNCHANGED <<defs, since>>
       \/ \E i \in build.ood \ build.reported :
            /\ defs' = [defs EXCEPT ![i] = Damaged]
            /\ since' = [since EXCEPT ![ProjectOf[i]] = @ \cup {i}]
    /\ UNCHANGED <<project, dirty, rows, opened, maps, history>>

\* After the commit, maybe while a map is written.
StopMaps ==
    /\ build.pc = "maps"
    /\ build.todo # {}
    /\ Stopped
    /\ \/ UNCHANGED <<maps, since, dirty>>
       \/ \E p \in build.todo :
            /\ Rewrites(p) /\ ~Throws(p)
            /\ \E s \in {"empty", "torn"} :
                 maps' = [maps EXCEPT ![p] = [NoMap EXCEPT !.state = s]]
            /\ since' = [since EXCEPT ![p] = {}]
            /\ dirty' = dirty \ {p}
    /\ UNCHANGED <<project, rows, opened, defs, history>>

\* Before the rows are deleted.
StopClean ==
    /\ build.pc = "clean"
    /\ Stopped
    /\ UNCHANGED <<project, dirty, rows, opened, defs, maps, since, history>>

Next ==
    \/ \E i \in Item : Edit(i) \/ ChangeList(i)
    \/ \E p \in Project : \/ StartBuild(p)
                          \/ \E k \in 1 .. Cardinality(Item) : Report(p, k)
                          \/ WriteMap(p)
                          \/ TouchMap(p)
                          \/ PreProcessThrows(p)
                          \/ StartClean(p)
    \/ ScanEnds
    \/ Compile
    \/ GetNodesThrows
    \/ CleanItems
    \/ StopScan
    \/ StopMaps
    \/ StopClean

Spec == Init /\ [][Next]_vars

-----------------------------------------------------------------------------
(* Properties *)

TypeOK ==
    /\ says \in [Item -> Version]
    /\ listed \subseteq Item /\ dirty \subseteq Project /\ opened \in BOOLEAN
    /\ rows \in [Item -> Version \cup {Missing}]
    /\ defs \in [Item -> Version \cup {Missing, Damaged}]
    /\ \A p \in Project :
         /\ maps[p].state \in {"none", "empty", "torn", "ok"}
         /\ maps[p].entry \in [Item -> Version \cup {Missing}]
         /\ since[p] \subseteq Files(p)
    /\ build.pc \in {"idle", "scan", "maps", "clean"}
    /\ build.reported \subseteq build.ood /\ build.ood \subseteq ItemSet(build.projects)
    /\ build.todo \subseteq build.projects

\* What a build expects to be up to date: the maps of its own projects once it has
\* dealt with them, and (cpp_modules.cs:132-134) of the references it assumes "to have
\* been built already", where that is so: nothing has changed since their maps.
Expected(p) ==
    \/ p \in build.projects /\ ItemSet({p}) # {}
    \/ p \notin dirty /\ since[p] = {}

\* cpp_modules.cs:735, "we expect the module map to be up to date at this point".  The
\* map of every project a build compiles from is there.  It has exactly the items of
\* its project, each as the tool last reported it, after failed and stopped builds too.
\* These are the exceptions, which the code does not recover from:
\*  - a map that was cut short by a stopped build: the next one finds nothing out of
\*    date, touches it and fails to read it, as does each after it until something is
\*    reported (or, for a torn map, until the project is cleaned).  Before any build
\*    was stopped every map can be read;
\*  - a report that came before a build was stopped, or threw for another project, and
\*    that a later one, which found nothing to do, has hidden by touching the map.
MapsAreReports ==
    build.pc = "maps" => \A p \in build.reads \ build.todo :
        Expected(p) =>
            /\ maps[p].state # "none"
            /\ stops = 0 => maps[p].state = "ok"
            /\ maps[p].state = "ok" =>
                 \A i \in Files(p) :
                     IF i \in listed
                     THEN maps[p].entry[i] = told[i] \/ i \in missed
                     ELSE maps[p].entry[i] = Missing

\* Nothing else hides a report: a build in which the tool fails on some items,
\* changes of the lists of items, cleans.
MissedExplained == missed # {} => stops > 0 \/ threw

\* A build throws only after one was stopped, or for an item that was put back, or
\* that the tool has not reported since it was first listed or last cleaned.
ThrowsExplained ==
    build.pc = "maps" /\ stops = 0 =>
        \A p \in build.todo :
            Throws(p) => \E i \in ItemSet({p}) : i \in back \/ told[i] = Missing

\* cpp_modules.cs:697, "the scanner DB is probably out of sync".  An item with a
\* row has a definition file at least as new, unless a clean took only the latter, or
\* a stopped build left it unfinished; then the item is still out of date.
RowsHaveDefinitions ==
    build.pc = "idle" => \A i \in Item :
        rows[i] # Missing /\ i \notin bare /\ defs[i] # Damaged => defs[i] >= rows[i]
=============================================================================
