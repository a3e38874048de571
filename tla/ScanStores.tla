----------------------------- MODULE ScanStores -----------------------------
(***************************************************************************)
(* The database of a scan (struct DB of src/src/scanner/scanner.cpp): rows *)
(* that speak of targets, files and modules by the ids of three stores,    *)
(* which are read when a scan begins, grow in memory while the tool        *)
(* reports and are written, with the rows, in the scan's transaction.      *)
(* Each scan is a process of its own; one that ends early leaves nothing.  *)
(* That scans exclude each other is in IncScanner.                         *)
(***************************************************************************)
EXTENDS StringStore, PathStore

CONSTANTS
    Roots,         \* item_root_path: absolute directories, any spelling
    Paths,         \* spellings of files in the tool's output,
    ItemPaths,     \* those of items
    UnitPaths,     \* and those of header units
    Targets, Names,
    NoName,        \* no module
    MaxCommands,   \* bound on the number of scans and cleans
    MaxLines       \* bound on the lines the tool prints in all these scans

ASSUME StoresAssumption ==
    /\ Roots \cup Paths \cup ItemPaths \cup UnitPaths \subseteq Seq(STRING)
    \* Any scan from another root throws.
    /\ \A r \in Roots : Absolute(r) /\ Addable(NewPathStore, r)
    \* A relative path does not climb above the root directory.
    /\ \A r \in Roots, p \in Paths \cup ItemPaths \cup UnitPaths : ~Absolute(p) => ~ClimbsAboveRoot(r, p)
    /\ NoName \notin Names
    /\ MaxCommands \in Nat /\ MaxLines \in Nat

VARIABLES
    disk,        \* the databases, as last committed
    commands,    \* number of commands so far
    lines,       \* number of lines printed so far
    pc,          \* where the command is
    targets, modules, paths,    \* its store objects
    item,        \* the item the tool reports on, and the header units that are listed too
    got,         \* got_result
    rep,         \* item_data of that item: ids
    said,        \* history: what rep stands for
    meant        \* history: what was reported for the rows of the database

stores == <<targets, modules, paths>>
vars   == <<disk, commands, lines, pc, stores, item, got, rep, said, meant>>

EmptyDisk == [targets |-> EmptyDb, modules |-> EmptyDb, paths |-> EmptyDb, items |-> EmptyDb]

NoItem == [root |-> <<Root>>, path |-> <<>>, target |-> NoName, units |-> <<>>]
NoReport == [exp |-> 0, fdeps |-> <<>>, ideps |-> <<>>, imps |-> <<>>]
NothingSaid == [exp |-> NoName, fdeps |-> <<>>, ideps |-> <<>>, imps |-> <<>>]

\* item_entry: cmd_hash, last_successful_scan, file_deps, item_deps (a file and
\* a target each), exports, imports.
ItemEntry == <<Number, Number, View(1), View(2), Number, View(1)>>
CmdHash   == 1

Init ==
    /\ disk = EmptyDisk
    /\ commands = 0
    /\ lines = 0
    /\ pc = "idle"
    /\ targets = NewStringStore
    /\ modules = NewStringStore
    /\ paths = NewPathStore
    /\ item = NoItem
    /\ got = FALSE
    /\ rep = NoReport
    /\ said = NothingSaid
    /\ meant = {}

-----------------------------------------------------------------------------
(* What a path means, by another way than that of the code: a component    *)
(* stays if the path does not climb above it later.                        *)

Meaning(root, p) ==
    LET full  == Full(root, p)
        stays == {k \in Dirs(full, Len(full)) :
                    \A l \in k + 1 .. Len(full) : Depth(full, l) >= Depth(full, k)}
    IN <<Root>> \o [n \in 1 .. Cardinality(stays) |->
                    full[CHOOSE k \in stays : Cardinality({l \in stays : l < k}) = n - 1]]

FileOf == [root \in Roots |-> [p \in Paths \cup ItemPaths \cup UnitPaths |-> Meaning(root, p)]]

-----------------------------------------------------------------------------

\* The ids of the item's file and target.
ItemKey == <<PathId(paths, item.path), NameId(targets, item.target)>>

\* get_item_data: the row of an item whose file is in the database.
RowOf(db, ps, ts, p, t) ==
    LET key == <<PathId(ps, p), NameId(ts, t)>>
    IN IF key[1] <= ps.max /\ Has(db.items, key) THEN FromVal(ItemEntry, db.items[key])
       ELSE <<0, 0, <<>>, <<>>, 0, <<>>>>

IsRowOf(m, file, t) == m.file = file /\ m.target = t

MeantExport(file, t) ==
    IF \E m \in meant : IsRowOf(m, file, t)
    THEN (CHOOSE m \in meant : IsRowOf(m, file, t)).said.exp ELSE NoName

\* try_add for the files of the header units that are listed.
AddUnits(ps, units) ==
    LET added[k \in 0 .. Len(units)] ==
          IF k = 0 THEN ps ELSE TryAddPath(added[k - 1], units[k])
    IN added[Len(units)]

\* Mutant: the modules are not read before the tool runs.
NoInitMutant(root, p, t, units, ood) ==
    /\ pc = "idle"
    /\ commands < MaxCommands
    /\ \A k \in DOMAIN units : FileOf[root][units[k]] # FileOf[root][p]
    /\ LET read == ReadPaths(disk.paths, root)
           ps   == AddUnits(TryAddPath(read, p), units)
           ts   == TryAddName(InitStringStore(NewStringStore, disk.targets), t)
           row  == RowOf(disk, ps, ts, p, t)
       IN /\ Addable(read, p) /\ \A k \in DOMAIN units : Addable(read, units[k])
          /\ targets' = ts
          /\ paths' = ps
          /\ modules' = NewStringStore
          /\ rep' = [exp |-> row[5], fdeps |-> row[3], ideps |-> row[4], imps |-> row[6]]
          /\ said' = [NothingSaid EXCEPT !.exp = MeantExport(FileOf[root][p], t)]
    /\ commands' = commands + 1
    /\ pc' = IF ood THEN "ood" ELSE "write"
    /\ item' = [root |-> root, path |-> p, target |-> t, units |-> units]
    /\ UNCHANGED <<disk, lines, got, meant>>

\* scan() up to execute_scanner: read_write_transaction, the ids of targets and
\* items, the rows; module names are read if an item is out of date.
BeginScan(root, p, t, units, ood) ==
    /\ pc = "idle"
    /\ commands < MaxCommands
    /\ \A k \in DOMAIN units : FileOf[root][units[k]] # FileOf[root][p]
    /\ LET read == ReadPaths(disk.paths, root)
           ps   == AddUnits(TryAddPath(read, p), units)
           ts   == TryAddName(InitStringStore(NewStringStore, disk.targets), t)
           row  == RowOf(disk, ps, ts, p, t)
       IN /\ Addable(read, p) /\ \A k \in DOMAIN units : Addable(read, units[k])
          /\ targets' = ts
          /\ paths' = ps
          /\ modules' = IF ood THEN InitStringStore(NewStringStore, disk.modules) ELSE NewStringStore
          /\ rep' = [exp |-> row[5], fdeps |-> row[3], ideps |-> row[4], imps |-> row[6]]
          /\ said' = [NothingSaid EXCEPT !.exp = MeantExport(FileOf[root][p], t)]
    /\ commands' = commands + 1
    /\ pc' = IF ood THEN "ood" ELSE "write"
    /\ item' = [root |-> root, path |-> p, target |-> t, units |-> units]
    /\ UNCHANGED <<disk, lines, got, meant>>

\* The tool reports on the item: what the rows said of it is replaced, except
\* for its export.
HeaderLine ==
    /\ pc = "ood"
    /\ ~got
    /\ got' = TRUE
    /\ rep' = [rep EXCEPT !.fdeps = <<>>, !.ideps = <<>>, !.imps = <<>>]
    /\ UNCHANGED <<disk, commands, lines, pc, stores, item, said, meant>>

Reporting ==
    /\ pc = "ood"
    /\ got
    /\ lines < MaxLines
    /\ lines' = lines + 1
    /\ UNCHANGED <<disk, commands, pc, targets, item, got, meant>>

ExpLine(n) ==
    /\ Reporting
    /\ modules' = TryAddName(modules, n)
    /\ rep' = [rep EXCEPT !.exp = NameId(modules', n)]
    /\ said' = [said EXCEPT !.exp = n]
    /\ UNCHANGED paths

ImpLine(n) ==
    /\ Reporting
    /\ modules' = TryAddName(modules, n)
    /\ rep' = [rep EXCEPT !.imps = Append(@, NameId(modules', n))]
    /\ said' = [said EXCEPT !.imps = Append(@, n)]
    /\ UNCHANGED paths

\* The file ids of the header units among the items.
UnitIds == {PathId(paths', item.units[k]) : k \in DOMAIN item.units}

\* A path: the item's own file, a header unit, or another file.
PathLine(p) ==
    /\ Reporting
    /\ Addable(paths, p)
    /\ paths' = TryAddPath(paths, p)
    /\ LET id   == PathId(paths', p)
           file == FileOf[item.root][p]
       IN IF id = PathId(paths', item.path) THEN UNCHANGED <<rep, said>>
          ELSE IF id \in UnitIds
          THEN /\ rep' = [rep EXCEPT !.ideps = Append(@, <<id, NameId(targets, item.target)>>)]
               /\ said' = [said EXCEPT !.ideps = Append(@, <<file, item.target>>)]
          ELSE /\ rep' = [rep EXCEPT !.fdeps = Append(@, id)]
               /\ said' = [said EXCEPT !.fdeps = Append(@, file)]
    /\ UNCHANGED modules

\* update_items: the new ids, and the row if the tool has reported it.
Updated ==
    [modules |-> CommitNames(modules, disk.modules),
     targets |-> CommitNames(targets, disk.targets),
     paths   |-> CommitPaths(paths, disk.paths),
     items   |-> IF ~got THEN disk.items
                 ELSE Put(disk.items, ItemKey,
                          Reserved(ItemEntry, <<CmdHash, commands, rep.fdeps, rep.ideps,
                                                rep.exp, rep.imps>>))]

Leave ==
    /\ pc' = "idle"
    /\ targets' = NewStringStore
    /\ modules' = NewStringStore
    /\ paths' = NewPathStore
    /\ item' = NoItem
    /\ got' = FALSE
    /\ rep' = NoReport
    /\ said' = NothingSaid
    /\ UNCHANGED <<commands, lines>>

\* The tool has ended; what update_items puts is there with the commit, as a whole.
CommitTransaction ==
    /\ pc # "idle"
    /\ disk' = Updated
    /\ meant' = IF ~got THEN meant
                ELSE LET file == FileOf[item.root][item.path]
                     IN {m \in meant : ~IsRowOf(m, file, item.target)}
                          \cup {[file |-> file, target |-> item.target, time |-> commands, said |-> said]}
    /\ Leave

\* The process ends before the commit, or throws (a path that is not Addable among
\* other things); mdb_txn_abort.
Crash ==
    /\ pc # "idle"
    /\ disk' = disk
    /\ meant' = meant
    /\ Leave

\* clean() of one item: its row is deleted; the ids that were added to find it
\* are not saved.  Without a row, key_not_found_exception: nothing is committed.
Clean(root, p, t) ==
    /\ pc = "idle"
    /\ commands < MaxCommands
    /\ commands' = commands + 1
    /\ LET read == ReadPaths(disk.paths, root)
           ps   == TryAddPath(read, p)
           ts   == TryAddName(InitStringStore(NewStringStore, disk.targets), t)
           key  == <<PathId(ps, p), NameId(ts, t)>>
       IN /\ Addable(read, p)
          /\ Has(disk.items, key)
          /\ disk' = [disk EXCEPT !.items = Del(@, key)]
    /\ meant' = {m \in meant : ~IsRowOf(m, FileOf[root][p], t)}
    /\ UNCHANGED <<lines, pc, stores, item, got, rep, said>>

\* The bound on commands is reached.
NoMoreCommands == pc = "idle" /\ commands = MaxCommands /\ UNCHANGED vars

Next ==
    \/ \E r \in Roots, p \in ItemPaths, t \in Targets :
         \/ \E units \in {<<>>} \cup {<<q>> : q \in UnitPaths}, ood \in BOOLEAN : BeginScan(r, p, t, units, ood)
         \/ Clean(r, p, t)
    \/ HeaderLine
    \/ \E n \in Names : ExpLine(n) \/ ImpLine(n)
    \/ \E p \in Paths : PathLine(p)
    \/ CommitTransaction
    \/ Crash
    \/ NoMoreCommands

Spec == Init /\ [][Next]_vars

-----------------------------------------------------------------------------
(* Properties *)

\* The store objects number names and paths without gaps; a reference stays
\* inside of its chunk, and no two of them share a cell.
TypeOK ==
    /\ pc \in {"idle", "ood", "write"}
    /\ commands \in 0 .. MaxCommands /\ lines \in 0 .. MaxLines
    /\ \A s \in {targets, modules} :
         DOMAIN s.reverse \in {0 .. s.next - 1, 1 .. s.next - 1} /\ s.max < s.next
    /\ paths.next = Len(paths.refs) + 1
    /\ paths.buf.rem \in 0 .. ChunkSize
    /\ \A i \in 1 .. Len(paths.refs) :
         LET r == paths.refs[i] IN
         /\ r.chunk \in 1 .. Len(paths.buf.chunks)
         /\ r.ofs + r.size <= IF r.chunk = Len(paths.buf.chunks) THEN InsertPosition(paths.buf)
                              ELSE ChunkSize
         /\ \A j \in 1 .. i - 1 : LET q == paths.refs[j] IN
              q.chunk = r.chunk => q.ofs + q.size <= r.ofs \/ r.ofs + r.size <= q.ofs

\* What a row says, in names.
RowSays(key) ==
    LET row       == FromVal(ItemEntry, disk.items[key])
        files     == SavedPaths(disk.paths)
        at(s, i)  == IF i \in DOMAIN s THEN s[i] ELSE NoName
        file(i)   == at(files, i)
        target(i) == at(SavedNames(disk.targets), i)
        module(i) == at(SavedNames(disk.modules), i)
    IN [file |-> file(key[1]), target |-> target(key[2]), time |-> row[2],
        said |-> [exp   |-> module(row[5]),
                  fdeps |-> [k \in 1 .. Len(row[3]) |-> file(row[3][k])],
                  ideps |-> [k \in 1 .. Len(row[4]) |-> <<file(row[4][k][1]), target(row[4][k][2])>>],
                  imps  |-> [k \in 1 .. Len(row[6]) |-> module(row[6][k])]]]

\* There is one row for each file and target that has been reported and not been
\* cleaned since, however the file was spelled, from whichever root, and however
\* many scans have added ids or stopped half way since then; and its ids stand
\* for the files, targets and modules of its last report.
RowsMeanWhatWasReported == {RowSays(key) : key \in DOMAIN disk.items} = meant

\* The rows of the present scan's items are those of their files.
RowsAreFound ==
    pc # "idle" =>
        \A m \in meant : IsRowOf(m, FileOf[item.root][item.path], item.target) =>
            ItemKey \in DOMAIN disk.items /\ RowSays(ItemKey) = m

\* Appending new names never fails, whatever is stored.
AppendsSucceed ==
    pc # "idle" => /\ NamesAppendable(targets, disk.targets)
                   /\ NamesAppendable(modules, disk.modules)

\* Each store is a table of names (module IdTable).
Session(names, saved) == IF pc = "idle" THEN saved ELSE names

TargetTable == INSTANCE IdTable WITH
    saved   <- SavedNames(disk.targets),
    session <- Session(NamesIn(targets), SavedNames(disk.targets))

ModuleTable == INSTANCE IdTable WITH
    saved   <- SavedNames(disk.modules),
    session <- IF modules.init THEN NamesIn(modules) ELSE SavedNames(disk.modules)

PathTable == INSTANCE IdTable WITH
    saved   <- SavedPaths(disk.paths),
    session <- Session(PathsIn(paths), SavedPaths(disk.paths))

ImplementsStringTables == TargetTable!TableSpec /\ ModuleTable!TableSpec
ImplementsPathTable    == PathTable!TableSpec

=============================================================================
