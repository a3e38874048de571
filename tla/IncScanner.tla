----------------------------- MODULE IncScanner -----------------------------
(***************************************************************************)
(* The incremental module-dependency scanner (src/src/scanner/scanner.cpp) *)
(* Several scanner processes share one LMDB file, scanner.mdb.  A scan     *)
(* opens the single write transaction, reads what is known of the items it *)
(* was given, stats every file they depend on, decides which items are out *)
(* of date, has clang-scan-deps rescan those, writes the new entries with  *)
(* the time of the write, and commits.  Meanwhile the user edits files and *)
(* changes commands, the tool fails, and processes crash.                  *)
(*                                                                         *)
(* An item is a source file compiled for a target.  A file's content is a  *)
(* version number and the set of files it includes.  Fields and variables  *)
(* marked "history" are not in the program; properties read them.          *)
(***************************************************************************)
EXTENDS Naturals, FiniteSets

CONSTANTS
    Proc,        \* the scanner processes
    File,        \* source files and headers
    Item,        \* scan items
    FileOf,      \* the file of an item
    HeaderUnit,  \* the items marked is_header_unit
    Includes,    \* per file, the include sets its content may have
    Cmd,         \* the command lines an item may be given
    ItemSets,    \* the item sets a caller may pass to scan or clean
    Faults,      \* which mishaps of AllFaults may happen
    MaxTime,     \* bound on the clock
    MaxVer,      \* bound on the number of edits of one file
    Free,        \* value of lock: no write transaction is open
    NoCmd        \* the command hash of an absent entry

AllFaults == {"race", "tool_fail", "tool_dies", "crash", "delete"}

ASSUME ScannerAssumption ==
    /\ FileOf \in [Item -> File]
    /\ HeaderUnit \subseteq Item
    /\ \A j, k \in HeaderUnit : FileOf[j] = FileOf[k] => j = k
    /\ Includes \in [File -> SUBSET SUBSET File]
    /\ ItemSets \subseteq SUBSET Item
    /\ Faults \subseteq AllFaults
    /\ MaxTime \in Nat \ {0}
    /\ MaxVer \in Nat
    /\ Free \notin Proc
    /\ NoCmd \notin Cmd

VARIABLES
    now,     \* the clock file_time_t_now() and the file system share
    ver,     \* file -> number of times its content changed
    inc,     \* file -> the files it includes
    mtime,   \* file -> last write time
    cmd,     \* item -> its command in the build configuration
    db,      \* the committed database
    lock,    \* owner of the write transaction, or Free
    pc,      \* process -> where it is in scan()
    cfg,     \* process -> the ConfigView it was called with
    data,    \* process -> the database as its transaction read it
    tostat,  \* process -> files still to stat
    lwt,     \* process -> file -> the stat-ed last write time (real_lwt)
    ood,     \* process -> item -> ood_state
    got,     \* process -> item -> what the tool reported in this scan
    txn,     \* process -> the uncommitted contents of its transaction
    failed   \* history: item -> command its last scan failed with, or NoCmd

env     == <<now, ver, inc, mtime, cmd>>
scanner == <<pc, cfg, data, tostat, lwt, ood, got, txn>>
vars    == <<now, ver, inc, mtime, cmd, db, lock, pc, cfg, data, tostat, lwt,
             ood, got, txn, failed>>

-----------------------------------------------------------------------------
(* The database *)

Time   == 0 .. MaxTime
NoFile == MaxTime + 1      \* get_last_write_time() of a missing file: the maximum

\* A row of the "items" table; reads, seen and readAt are history: the
\* files the tool read, their versions, and when.
Entry == [lss : Time, cmd : Cmd \cup {NoCmd}, fdeps : SUBSET File,
          ideps : SUBSET Item, reads : SUBSET File, seen : [File -> 0 .. MaxVer],
          readAt : Time]

\* What get_item_data leaves for an item that has no row: zero-initialised data.
NoEntry == [lss |-> 0, cmd |-> NoCmd, fdeps |-> {}, ideps |-> {}, reads |-> {},
            seen |-> [f \in File |-> 0], readAt |-> 0]

Present(e) == e.reads # {}

\* Mutant: the entry is stored without its last_successful_scan.
UnstampedMutant(e, t) == e

\* The row as update_items writes it at time t.
Stamped(e, t) == [e EXCEPT !.lss = t]

\* The items table, and the paths the path store has given ids to.
Database == [items : [Item -> Entry], paths : SUBSET File]
EmptyDb  == [items |-> [i \in Item |-> NoEntry], paths |-> {}]

\* Mutant: get_unique_deps collects the items' own files only.
OwnFilesMutant(d, S) == {FileOf[i] : i \in S}

\* The files stat-ed for an item: its own, and those of its row's file_deps.
StatFiles(d, S) == UNION {{FileOf[i]} \cup d.items[i].fdeps : i \in S}

-----------------------------------------------------------------------------
(* What makes an item out of date *)

\* The states an item may leave the decision with ("none": not in this scan);
\* "unknown" only occurs on the way there.
OodState == {"none", "new_file", "file_changed", "command_changed",
             "deps_changed", "item_deps_changed", "up_to_date"}

\* Mutant: a file written in the same tick as the row counts as changed.
NotBeforeMutant(d, c, w, i) ==
    LET e == d.items[i] IN
    IF FileOf[i] \notin d.paths               THEN "new_file"
    ELSE IF w[FileOf[i]] >= e.lss             THEN "file_changed"
    ELSE IF e.cmd # c.cmd[i]                  THEN "command_changed"
    ELSE IF \E f \in e.fdeps : w[f] >= e.lss  THEN "deps_changed"
    ELSE IF e.ideps # {}                      THEN "unknown"
    ELSE "up_to_date"

\* Mutant: the included files are not compared.
HeadersIgnoredMutant(d, c, w, i) ==
    LET e == d.items[i] IN
    IF FileOf[i] \notin d.paths     THEN "new_file"
    ELSE IF w[FileOf[i]] > e.lss    THEN "file_changed"
    ELSE IF e.cmd # c.cmd[i]        THEN "command_changed"
    ELSE IF e.ideps # {}            THEN "unknown"
    ELSE "up_to_date"

\* get_item_ood: the first reason that applies, looking at the item alone.
OwnState(d, c, w, i) ==
    LET e == d.items[i] IN
    IF FileOf[i] \notin d.paths              THEN "new_file"
    ELSE IF w[FileOf[i]] > e.lss             THEN "file_changed"
    ELSE IF e.cmd # c.cmd[i]                 THEN "command_changed"
    ELSE IF \E f \in e.fdeps : w[f] > e.lss  THEN "deps_changed"
    ELSE IF e.ideps # {}                     THEN "unknown"
    ELSE "up_to_date"

\* Mutant: only the item dependencies missing from this scan force a rescan.
MissingOnlyMutant(d, c, w, j) == j \notin c.items

\* An item dependency that forces a rescan of whoever imports it: it is not
\* among the items of this scan, or it is out of date by itself.
Forces(d, c, w, j) ==
    \/ j \notin c.items
    \/ OwnState(d, c, w, j) \notin {"unknown", "up_to_date"}

Undecided(d, c, w) == {i \in c.items : OwnState(d, c, w, i) = "unknown"}

\* X holds every undecided item with a dependency that forces a rescan or is in X.
DepClosed(d, c, w, X) ==
    \A i \in Undecided(d, c, w) :
        (\E j \in d.items[i].ideps : Forces(d, c, w, j) \/ j \in X) => i \in X

\* get_item_deps_ood: the undecided items that reach an out-of-date item along
\* item_deps, the least such X (module ItemDepsOod has the search itself).
ItemDepsChanged(d, c, w) ==
    {i \in Undecided(d, c, w) :
        \A X \in SUBSET Undecided(d, c, w) : DepClosed(d, c, w, X) => i \in X}

\* Mutant: get_item_deps_ood is not called.
OwnStateMutant(d, c, w, i) == OwnState(d, c, w, i)

ItemState(d, c, w, i) ==
    LET own == OwnState(d, c, w, i) IN
    IF own # "unknown" THEN own
    ELSE IF i \in ItemDepsChanged(d, c, w) THEN "item_deps_changed"
    ELSE "up_to_date"

-----------------------------------------------------------------------------
(* What clang-scan-deps reports *)

\* The files a translation unit reads besides its own: includes, transitively.
Reach(f) == {g \in File : \A X \in SUBSET File :
                (inc[f] \subseteq X /\ \A h \in X : inc[h] \subseteq X) => g \in X}

Output(i) == Reach(FileOf[i]) \ {FileOf[i]}

Readable(i) == \A f \in Output(i) \cup {FileOf[i]} : mtime[f] # NoFile

\* get_header_unit_lookup: the header unit item of this scan with that file.
HuLookup(p, f) == {j \in cfg[p].items \cap HeaderUnit : FileOf[j] = f}

\* execute_scanner sorts the reported files into item_deps and file_deps.
Result(p, i, out) ==
    [lss    |-> 0,
     cmd    |-> cfg[p].cmd[i],
     fdeps  |-> {f \in out : HuLookup(p, f) = {}},
     ideps  |-> UNION {HuLookup(p, f) : f \in out},
     reads  |-> out \cup {FileOf[i]},
     seen   |-> [f \in File |-> IF f \in out \cup {FileOf[i]} THEN ver[f] ELSE 0],
     readAt |-> now]

-----------------------------------------------------------------------------
NoCfg == [items |-> {}, cmd |-> [i \in Item |-> NoCmd]]

Init ==
    /\ now = 1
    /\ ver = [f \in File |-> 0]
    /\ inc \in {g \in [File -> SUBSET File] : \A f \in File : g[f] \in Includes[f]}
    /\ mtime = [f \in File |-> 1]
    /\ cmd \in [Item -> Cmd]
    /\ db = EmptyDb
    /\ lock = Free
    /\ pc = [p \in Proc |-> "idle"]
    /\ cfg = [p \in Proc |-> NoCfg]
    /\ data = [p \in Proc |-> EmptyDb]
    /\ tostat = [p \in Proc |-> {}]
    /\ lwt = [p \in Proc |-> [f \in File |-> 0]]
    /\ ood = [p \in Proc |-> [i \in Item |-> "none"]]
    /\ got = [p \in Proc |-> [i \in Item |-> NoEntry]]
    /\ txn = [p \in Proc |-> EmptyDb]
    /\ failed = [i \in Item |-> NoCmd]

-----------------------------------------------------------------------------
(* The user and the clock *)

Tick ==
    /\ now < MaxTime
    /\ now' = now + 1
    /\ UNCHANGED <<ver, inc, mtime, cmd, db, lock, scanner, failed>>

\* Without "race", files change only between scans and after their rows are stamped.
MayEdit ==
    \/ "race" \in Faults
    \/ lock = Free /\ \A i \in Item : db.items[i].lss < now

Edit(f) ==
    /\ MayEdit
    /\ ver[f] < MaxVer
    /\ ver' = [ver EXCEPT ![f] = @ + 1]
    /\ \E s \in Includes[f] : inc' = [inc EXCEPT ![f] = s]
    /\ mtime' = [mtime EXCEPT ![f] = now]
    /\ UNCHANGED <<now, cmd, db, lock, scanner, failed>>

Delete(f) ==
    /\ "delete" \in Faults
    /\ MayEdit
    /\ ver[f] < MaxVer /\ mtime[f] # NoFile
    /\ ver' = [ver EXCEPT ![f] = @ + 1]
    /\ mtime' = [mtime EXCEPT ![f] = NoFile]
    /\ UNCHANGED <<now, inc, cmd, db, lock, scanner, failed>>

\* Likewise commands; a scan works with those it was called with.
ChangeCommand(i) ==
    /\ "race" \in Faults \/ lock = Free
    /\ \E c \in Cmd \ {cmd[i]} : cmd' = [cmd EXCEPT ![i] = c]
    /\ UNCHANGED <<now, ver, inc, mtime, db, lock, scanner, failed>>

-----------------------------------------------------------------------------
(* Scanner::scan *)

\* Mutant: a read transaction that becomes a write transaction later.
ReadFirstMutant(p, S) ==
    /\ pc[p] = "idle"
    /\ S # {}
    /\ lock' = p
    /\ pc' = [pc EXCEPT ![p] = "stat"]
    /\ cfg' = [cfg EXCEPT ![p] = [items |-> S, cmd |-> cmd]]
    /\ data' = [data EXCEPT ![p] = db]
    /\ tostat' = [tostat EXCEPT ![p] = StatFiles(db, S)]
    /\ UNCHANGED <<env, db, lwt, ood, got, txn, failed>>

\* mdb_txn_begin waits for the writer mutex; then everything known is read.
BeginScan(p, S) ==
    /\ pc[p] = "idle"
    /\ lock = Free
    /\ S # {}
    /\ lock' = p
    /\ pc' = [pc EXCEPT ![p] = "stat"]
    /\ cfg' = [cfg EXCEPT ![p] = [items |-> S, cmd |-> cmd]]
    /\ data' = [data EXCEPT ![p] = db]
    /\ tostat' = [tostat EXCEPT ![p] = StatFiles(db, S)]
    /\ UNCHANGED <<env, db, lwt, ood, got, txn, failed>>

StatFile(p, f) ==
    /\ pc[p] = "stat"
    /\ f \in tostat[p]
    /\ lwt' = [lwt EXCEPT ![p][f] = mtime[f]]
    /\ tostat' = [tostat EXCEPT ![p] = @ \ {f}]
    /\ UNCHANGED <<env, db, lock, pc, cfg, data, ood, got, txn, failed>>

ComputeOod(p) ==
    /\ pc[p] = "stat"
    /\ tostat[p] = {}
    /\ pc' = [pc EXCEPT ![p] = "scan"]
    /\ ood' = [ood EXCEPT ![p] = [i \in Item |->
                  IF i \in cfg[p].items THEN ItemState(data[p], cfg[p], lwt[p], i)
                                        ELSE "none"]]
    /\ UNCHANGED <<env, db, lock, cfg, data, tostat, lwt, got, txn, failed>>

OodItems(p) == {i \in cfg[p].items : ood[p][i] # "up_to_date"}

GotResult(p, i) == Present(got[p][i])

ToolResult(p, i) ==
    /\ pc[p] = "scan"
    /\ i \in OodItems(p) /\ ~GotResult(p, i)
    /\ Readable(i)
    /\ got' = [got EXCEPT ![p][i] = Result(p, i, Output(i))]
    /\ UNCHANGED <<env, db, lock, pc, cfg, data, tostat, lwt, ood, txn, failed>>

\* The tool is killed while it prints the files of item i; its exit status is
\* not looked at.
ToolDies(p, i) ==
    /\ "tool_dies" \in Faults
    /\ pc[p] = "scan"
    /\ i \in OodItems(p) /\ ~GotResult(p, i)
    /\ Readable(i)
    /\ \E out \in SUBSET Output(i) : got' = [got EXCEPT ![p][i] = Result(p, i, out)]
    /\ pc' = [pc EXCEPT ![p] = "update"]
    /\ UNCHANGED <<env, db, lock, cfg, data, tostat, lwt, ood, txn, failed>>

\* The tool has reported every item it can; items that fail have no report.
ToolExits(p) ==
    /\ pc[p] = "scan"
    /\ \/ "tool_fail" \in Faults
       \/ \A i \in OodItems(p) : GotResult(p, i) \/ ~Readable(i)
    /\ pc' = [pc EXCEPT ![p] = "update"]
    /\ UNCHANGED <<env, db, lock, cfg, data, tostat, lwt, ood, got, txn, failed>>

\* update_items: every row written in one scan gets the same, current time.
Updated(p, i) == GotResult(p, i) /\ ood[p][i] # "up_to_date"

\* Mutant: items without a result are written too, with the deps they had.
FailuresSavedMutant(p) ==
    /\ pc[p] = "update"
    /\ pc' = [pc EXCEPT ![p] = "commit"]
    /\ txn' = [txn EXCEPT ![p] =
         [items |-> [i \in Item |->
              IF i \in OodItems(p)
              THEN IF GotResult(p, i)
                   THEN Stamped(got[p][i], now)
                   ELSE [data[p].items[i] EXCEPT !.lss = now, !.cmd = cfg[p].cmd[i]]
              ELSE data[p].items[i]],
          paths |-> data[p].paths \cup {FileOf[i] : i \in cfg[p].items}
                        \cup UNION {got[p][i].reads : i \in Item}]]
    /\ UNCHANGED <<env, db, lock, cfg, data, tostat, lwt, ood, got, failed>>

\* Mutant: path_store.commit_changes comes before the tool has run.
PathsTooEarlyMutant(p) ==
    /\ pc[p] = "update"
    /\ pc' = [pc EXCEPT ![p] = "commit"]
    /\ txn' = [txn EXCEPT ![p] =
         [items |-> [i \in Item |->
              IF i \in cfg[p].items /\ Updated(p, i)
              THEN Stamped(got[p][i], now) ELSE data[p].items[i]],
          paths |-> data[p].paths \cup {FileOf[i] : i \in cfg[p].items}]]
    /\ UNCHANGED <<env, db, lock, cfg, data, tostat, lwt, ood, got, failed>>

UpdateItems(p) ==
    /\ pc[p] = "update"
    /\ pc' = [pc EXCEPT ![p] = "commit"]
    /\ txn' = [txn EXCEPT ![p] =
         [items |-> [i \in Item |->
              IF i \in cfg[p].items /\ Updated(p, i)
              THEN Stamped(got[p][i], now) ELSE data[p].items[i]],
          paths |-> data[p].paths \cup {FileOf[i] : i \in cfg[p].items}
                        \cup UNION {got[p][i].reads : i \in Item}]]
    /\ UNCHANGED <<env, db, lock, cfg, data, tostat, lwt, ood, got, failed>>

\* Mutant: scan() returns with the transaction open.
LockKeptMutant(p) ==
    /\ lock' = lock
    /\ pc' = [pc EXCEPT ![p] = "idle"]
    /\ cfg' = [cfg EXCEPT ![p] = NoCfg]
    /\ data' = [data EXCEPT ![p] = EmptyDb]
    /\ tostat' = [tostat EXCEPT ![p] = {}]
    /\ lwt' = [lwt EXCEPT ![p] = [f \in File |-> 0]]
    /\ ood' = [ood EXCEPT ![p] = [i \in Item |-> "none"]]
    /\ got' = [got EXCEPT ![p] = [i \in Item |-> NoEntry]]
    /\ txn' = [txn EXCEPT ![p] = EmptyDb]

\* The process leaves scan(); its Scanner object is gone.
Leave(p) ==
    /\ lock' = Free
    /\ pc' = [pc EXCEPT ![p] = "idle"]
    /\ cfg' = [cfg EXCEPT ![p] = NoCfg]
    /\ data' = [data EXCEPT ![p] = EmptyDb]
    /\ tostat' = [tostat EXCEPT ![p] = {}]
    /\ lwt' = [lwt EXCEPT ![p] = [f \in File |-> 0]]
    /\ ood' = [ood EXCEPT ![p] = [i \in Item |-> "none"]]
    /\ got' = [got EXCEPT ![p] = [i \in Item |-> NoEntry]]
    /\ txn' = [txn EXCEPT ![p] = EmptyDb]

Commit(p) ==
    /\ pc[p] = "commit"
    /\ db' = txn[p]
    /\ failed' = [i \in Item |-> IF i \in OodItems(p)
                                 THEN IF GotResult(p, i) THEN NoCmd ELSE cfg[p].cmd[i]
                                 ELSE failed[i]]
    /\ Leave(p)
    /\ UNCHANGED env

\* A crash, or any exception that leaves scan(): the transaction is aborted.
Crash(p) ==
    /\ "crash" \in Faults
    /\ pc[p] # "idle"
    /\ Leave(p)
    /\ UNCHANGED <<env, db, failed>>

\* Scanner::clean: one transaction; deleting a row that is not there throws and
\* aborts it.
Clean(p, S) ==
    /\ pc[p] = "idle"
    /\ lock = Free
    /\ S # {}
    /\ \A i \in S : Present(db.items[i])
    /\ db' = [items |-> [i \in Item |-> IF i \in S THEN NoEntry ELSE db.items[i]],
              paths |-> db.paths]
    /\ failed' = [i \in Item |-> IF i \in S THEN NoCmd ELSE failed[i]]
    /\ UNCHANGED <<env, lock, scanner>>

-----------------------------------------------------------------------------
ScanStep(p) ==
    \/ \E f \in File : StatFile(p, f)
    \/ ComputeOod(p)
    \/ \E i \in Item : ToolResult(p, i)
    \/ \E i \in Item : ToolDies(p, i)
    \/ ToolExits(p)
    \/ UpdateItems(p)
    \/ Commit(p)

UserStep ==
    \/ Tick
    \/ \E f \in File : Edit(f) \/ Delete(f)
    \/ \E i \in Item : ChangeCommand(i)

Next ==
    \/ UserStep
    \/ \E p \in Proc : ScanStep(p)
    \/ \E p \in Proc : Crash(p)
    \/ \E p \in Proc, S \in ItemSets : BeginScan(p, S) \/ Clean(p, S)

Spec == Init /\ [][Next]_vars

-----------------------------------------------------------------------------
(* Properties *)

TypeOK ==
    /\ now \in Time
    /\ ver \in [File -> 0 .. MaxVer]
    /\ inc \in [File -> SUBSET File]
    /\ mtime \in [File -> Time \cup {NoFile}]
    /\ cmd \in [Item -> Cmd]
    /\ db \in Database
    /\ lock \in Proc \cup {Free}
    /\ pc \in [Proc -> {"idle", "stat", "scan", "update", "commit"}]
    /\ cfg \in [Proc -> [items : SUBSET Item, cmd : [Item -> Cmd \cup {NoCmd}]]]
    /\ data \in [Proc -> Database]
    /\ tostat \in [Proc -> SUBSET File]
    /\ lwt \in [Proc -> [File -> Time \cup {NoFile}]]
    /\ ood \in [Proc -> [Item -> OodState]]
    /\ got \in [Proc -> [Item -> Entry]]
    /\ txn \in [Proc -> Database]
    /\ failed \in [Item -> Cmd \cup {NoCmd}]

\* Process p has decided that item i of its set is up to date.
UpToDate(p, i) ==
    /\ pc[p] \in {"scan", "update", "commit"}
    /\ i \in cfg[p].items
    /\ ood[p][i] = "up_to_date"

\* The row e describes the files it was made from as they are now.
Fresh(e) == \A f \in e.reads : ver[f] = e.seen[f]

\* What a scan decided on stays what the database holds until that scan ends:
\* nobody commits underneath it (one write transaction per scanner.mdb, taken
\* before anything is read).
ReadIsCurrent == \A p \in Proc : pc[p] # "idle" => lock = p /\ data[p] = db

\* An item may be reported up to date although a file it was scanned from has
\* changed since.  That happens in two ways only: the edit fell between the
\* tool's read and the timestamp update_items takes later, or the file is a
\* header unit whose own row was rewritten after the edit by a scan that did
\* not rewrite this item's row.
StaleExplained ==
    \A p \in Proc, i \in Item : UpToDate(p, i) =>
        LET e == data[p].items[i] IN
        \A f \in e.reads : ver[f] # e.seen[f] /\ mtime[f] = lwt[p][f] =>
            \/ e.readAt <= mtime[f] /\ mtime[f] <= e.lss
            \/ \E j \in e.ideps : /\ FileOf[j] = f
                                  /\ e.lss < mtime[f]
                                  /\ mtime[f] <= data[p].items[j].lss

\* An up-to-date answer is right: no file the item was scanned from differs from
\* what the tool read.  (Where scans cover all items, no scan fails and files
\* are not edited while one runs.)
UpToDateIsFresh ==
    \A p \in Proc, i \in Item : UpToDate(p, i) => Fresh(data[p].items[i])

\* Items whose rows are current, together with every item they depend on, are
\* never rescanned: this is what makes the scanner incremental.
NoNeedlessRescan ==
    \A p \in Proc : pc[p] \in {"scan", "update", "commit"} =>
        \A G \in SUBSET cfg[p].items :
            (\A i \in G : LET e == data[p].items[i] IN
                /\ Present(e) /\ Fresh(e)
                /\ e.cmd = cfg[p].cmd[i]
                /\ e.ideps \subseteq G)
            => \A i \in G : ood[p][i] = "up_to_date"

\* scanner.cpp:940-943: failures are not saved, "so if it's up to date then it
\* must've succeeded last time" (with the command it has now).
UpToDateSucceeded ==
    \A p \in Proc, i \in Item : UpToDate(p, i) => failed[i] # cfg[p].cmd[i]

\* Every id a row refers to is in the path store: the four stores and the items
\* table change together, or (abort) not at all.
PathsKnown ==
    \A i \in Item : LET e == db.items[i] IN
        Present(e) => /\ FileOf[i] \in db.paths
                      /\ e.fdeps \subseteq db.paths
                      /\ \A j \in e.ideps : FileOf[j] \in db.paths

\* A scan of every item, with the files and commands as they are now, would find
\* item i out of date.
OodNow(i) ==
    ItemState(db, [items |-> Item, cmd |-> cmd], mtime, i) # "up_to_date"

\* An out-of-date item stays so until the tool has rescanned it: a scan of other
\* items, a failure, an abort or a crash does not make it up to date.
OodUntilRescanned ==
    [][\A i \in Item : OodNow(i) /\ ~OodNow(i)' /\ UNCHANGED env =>
           \E p \in Proc : Commit(p) /\ GotResult(p, i)]_vars

\* A row is replaced by a later one or removed, never by an older one: commits
\* of different processes cannot overtake each other.
RowsMoveForward ==
    [][\A i \in Item : Present(db'.items[i]) =>
           db'.items[i].readAt >= db.items[i].readAt]_vars

-----------------------------------------------------------------------------
(* The inductive invariant behind the safety properties *)

\* At time n, with file versions v and write times w, row e of item i lists the
\* files it was made from, and the versions it records are older than those of
\* the files written since the tool read them, and of no others.
RowOK(i, e, n, v, w) ==
    /\ e.readAt <= n
    /\ Present(e) =>
         /\ e.reads = {FileOf[i]} \cup e.fdeps \cup {FileOf[j] : j \in e.ideps}
         /\ \A f \in e.reads :
              \/ e.seen[f] = v[f] /\ w[f] <= e.readAt
              \/ e.seen[f] < v[f] /\ w[f] >= e.readAt

\* Once written, its time is between that read and now.
SavedRowOK(i, e) == RowOK(i, e, now, ver, mtime) /\ e.readAt <= e.lss /\ e.lss <= now

RowsOK ==
    /\ \A f \in File : mtime[f] <= now \/ mtime[f] = NoFile
    /\ \A i \in Item : SavedRowOK(i, db.items[i])
    /\ \A p \in Proc, i \in Item :
         /\ RowOK(i, got[p][i], now, ver, mtime)
         /\ Present(got[p][i]) => /\ pc[p] \notin {"idle", "stat"}
                                  /\ got[p][i].readAt >= data[p].items[i].readAt
    /\ \A p \in Proc : pc[p] = "commit" => \A i \in Item :
         /\ SavedRowOK(i, txn[p].items[i])
         /\ txn[p].items[i].readAt >= data[p].items[i].readAt

\* The files of every row have ids in the path store it is committed with.
KnownIn(d) == \A i \in Item : d.items[i].reads \subseteq d.paths

PathsOK == KnownIn(db) /\ \A p \in Proc : pc[p] = "commit" => KnownIn(txn[p])

\* A stat-ed time that postdates a row means that the file has changed.
StatsOK ==
    \A p \in Proc : pc[p] # "idle" =>
        /\ pc[p] # "stat" => tostat[p] = {}
        /\ \A i \in cfg[p].items : LET e == data[p].items[i] IN
             \A f \in ({FileOf[i]} \cup e.fdeps) \ tostat[p] :
                 f \in e.reads /\ ver[f] = e.seen[f] => lwt[p][f] <= e.readAt

\* The decision of a scan is a function of what it read and stat-ed.
DecisionOK ==
    \A p \in Proc : pc[p] \in {"scan", "update", "commit"} =>
        \A i \in cfg[p].items : ood[p][i] = ItemState(data[p], cfg[p], lwt[p], i)

IInv == TypeOK /\ ReadIsCurrent /\ RowsOK /\ StatsOK /\ DecisionOK /\ PathsOK

-----------------------------------------------------------------------------
(* Refinement *)

\* What the database says of item i, without its timestamp: the command and the
\* versions of the files it was scanned from.
Recorded(i) ==
    LET e == db.items[i] IN
    IF Present(e) THEN [cmd |-> e.cmd, seen |-> [f \in e.reads |-> e.seen[f]]]
                  ELSE NoCmd

FS == INSTANCE FullScan WITH store <- [i \in Item |-> Recorded(i)], None <- NoCmd

\* A scan that reuses what is up to date leaves the database as a scan of all
\* its items from scratch would, at the moment it commits; one that crashes
\* leaves no trace.
ImplementsFullScan == FS!Spec

-----------------------------------------------------------------------------
(* Liveness *)

\* The operating system runs a process that is inside scan(); the tool exits.
Fairness == \A p \in Proc : WF_vars(ScanStep(p))

FairSpec == Spec /\ Fairness

\* A write transaction does not stay open forever.
LockReleased == \A p \in Proc : lock = p ~> lock = Free

\* The user keeps building everything.
BuildFairness == SF_vars(\E p \in Proc : BeginScan(p, Item))

NothingOod == \A p \in Proc, i \in Item : ood[p][i] \in {"none", "up_to_date"}

\* Unless the user keeps cleaning or changing commands, there comes a time after
\* which no scan finds anything out of date.
Settles ==
    \/ []<><<\E p \in Proc, S \in ItemSets : Clean(p, S)>>_vars
    \/ []<><<\E i \in Item : ChangeCommand(i)>>_vars
    \/ <>[]NothingOod

BuildSpec == FairSpec /\ BuildFairness

=============================================================================
