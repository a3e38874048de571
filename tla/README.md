# Verification of the incremental module scanner of cpp_modules

This directory holds TLA+ models of the program in `../src`, the TLC runs that
check them and the proofs that the TLA+ proof system (TLAPS) checks. `scanner.cpp`
without a path means `src/src/scanner/scanner.cpp`, and so on for its neighbours.

Contents: [the system](#the-system) · [what is modelled](#what-is-modelled) ·
[what the runs show](#what-the-runs-show) · [what is proved](#what-is-proved) ·
[disagreements with the code's own words](#disagreements) · [what is not
modelled](#what-is-not-modelled) · [plan](#plan)

## The system

cpp_modules lets CMake/Ninja and MSBuild build C++ modules. Before a build it must
know, for every translation unit and header unit, which module it exports, which it
imports and which files it reads. The *scanner* gets that from (a patched)
clang-scan-deps and remembers it in an LMDB file, `scanner.mdb`, so that the next
scan only has to run the tool on what is out of date. Ninja or MSBuild then order
the build by the collated module graph.

| component | state it keeps | operations | interacts with |
|---|---|---|---|
| incremental scanner: `scanner.cpp`, `scanner.h`, `file_time.cpp` | per scan: the rows read, stat-ed times, `ood_state` per item, what the tool reported | `Scanner::scan`, `clean`, `clean_all` | opens the database, runs the tool, calls the observer, fills `CollatedModuleInfo` |
| search for changed item dependencies: `get_item_deps_ood` | the stack of the depth first search, `item_ood`, `scan_item_deps` | one call per scan | its marks decide what is rescanned, its lists are collated |
| tool output, observer, module graph: `execute_scanner`, `submit_up_to_date_items`, `collate_module_deps`, `update_items` | three shared buffers, `got_result`, `item_data` | one callback per line of output | writes what the next scan reads |
| buffers: `multi_buffer.h` | `reordered_multi_vector_buffer` (vectors of vectors in one vector), `stable_multi_string_buffer` (lines) | `new_vector`, `add`, `to_vectors`; `copy` | hold everything that was reported until it is written |
| stores: `lmdb_string_store.h`, `lmdb_path_store.h`, `lmdb_store.h` | ids of targets, modules and paths; new ones in memory until `commit_changes` | `get_ids`, `try_add`, `get`, `commit_changes` | rows refer to files, modules and targets by these ids |
| LMDB wrapper: `lmdb_wrapper.h`, `lmdb_wrapper_impl.h` | environment, transaction, cursors; aggregates with views as bytes | open, begin, get, put, del, commit, abort; `to_val`, `from_val` | one write transaction at a time per file, across processes |
| process and pipes: `utils/cmd_line_utils.cpp` | two reader threads, the unfinished line of each stream | `run_cmd`, `run_cmd_read_lines` | calls the scanner's line callbacks under one mutex |
| Ninja generator: `gen_ninja.cpp`, `module_cmdgen.cpp` | the dyndep file and a response file per item | `scan`, `gen_dynamic`, `gen_static` | runs a scan, writes what ninja reads |
| C++/CLI wrapper: `wrapper_cs.cpp` | the report under construction of one item | `DepInfoForwarder` | turns observer calls into one `on_result` per item |
| MSBuild task: `build_rules/cpp_modules.cs` | module definitions and module maps in files, the graph of nodes | `PreProcess`, `GetNodes`, `Compile`, `CleanItems`, ... | runs a scan per build of a project, generates ninja files |
| command line tools, CMake glue, schema and utilities | none | | |

### What is hard about it

* **Three moments of time.** A scan stats files, then the tool reads them, then the
  rows are stamped with the current time, at a resolution of a millisecond and a
  strict comparison (`scanner.cpp:455, 749, 200, 583`). Users edit in between.
* **Processes.** Projects are built concurrently on one `scanner.mdb`; the write
  transaction is taken before the first read and held while the tool runs.
* **Partial results.** The tool may fail on some items, be killed, or exit with an
  error that nobody looks at; files may be missing; a scan may be given any subset of
  the items. What made an item out of date must survive all that.
* **Dependencies between items.** An item that imports a header unit does not list
  the files of that unit in its own row, only the unit: it is out of date if the
  unit is, recursively. The unit may be rescanned in a scan where the item is absent
  or fails.
* **Depth first search with optimistic marks** over lists that may form cycles
  (header units that include each other under include guards).
* **Interleaved reports** in shared buffers, in the order the tool happens to
  finish, numbered by their position in the compilation database and not by item;
  half-new, half-old `item_data` that is told to an observer, collated and saved.
* **Everything that is cached outside of the transaction**: dyndep files, module
  maps and definition files, which a crash separates from the database.

### What correctness means, component by component

* *Scanner*: two scans never interleave; what a scan calls up to date is what a scan
  from scratch would find, except where an edit raced with a scan; an item stays out
  of date until it has been rescanned successfully; nothing is rescanned needlessly,
  and scanning comes to rest; rows only refer to ids that are stored.
* *Search*: it finds exactly the items that reach an out-of-date one, ends, and
  leaves the dependency lists of up-to-date items intact.
* *Output*: rows, observer and graph all say what the files say, for fresh and for
  reused items.
* *Stores*: one id per name or file, for ever, whatever way it is spelled; a row is
  read back as it was written and means what was reported.
* *Pipes*: each line is called back once, whole and in order, wherever it is cut; the
  tool never waits for a pipe nobody empties; an error in a callback is not passed over.
* *Ninja generator*: what it writes is a function of the module graph, whenever a
  previous run stopped; ninja is told of all headers, those of reused items included.
* *MSBuild*: the module map has exactly the listed items, each as last reported;
  failed, stopped and repeated builds, cleans and changes to the project included. That
  it can be read after a stopped build does not hold.

## What is modelled

| module | models | its state and actions against the code |
|---|---|---|
| `IncScanner` | scan and clean as processes on one database, with the user, the tool, the clock and crashes around them | `db` is the committed items table and path store; `lock` the writer mutex; `data`, `lwt`, `ood`, `got`, `txn` are `item_data`, `real_lwt`, `item_ood`, the tool's reports and the dirty pages of the transaction. `BeginScan` = open, begin, `get_item_data`, `get_unique_deps`; `StatFile` one step per file; `ComputeOod` = `get_item_ood` and `get_item_deps_ood`; `ToolResult`, `ToolDies`, `ToolExits` = `execute_scanner`; `UpdateItems`; `Commit`; `Crash` = any exit without commit; `Clean` |
| `FullScan` | the abstract specification: a scan is one step, looks at no time and reuses nothing | `IncScanner` refines it (`ImplementsFullScan`) |
| `ItemDepsOod` | `get_item_deps_ood`, one action per branch of its loops | `sid` is `scan_item_deps`, `stack` is `item_deps_stack` as (item, position) instead of pointers into lists |
| `ReorderedBuffer` | `reordered_multi_vector_buffer` as operators on a record | `NewVector`, `AddElem`, `ToVectors` (with the separate path of `visit` for an empty buffer) |
| `ScanOutput` | from the tool's lines to observer, graph and rows, over successive scans | one action per kind of line; `mods` and `deps` are the parts of `item_data` the report overwrites; `bufs` the three buffers; `sdeps` is `scan_item_deps`; `told`, `collated` are what the caller is given |
| `Lmdb` | a database as a function from keys to values, `MDB_APPEND`, and how `lmdb_wrapper_impl.h` lays out an aggregate with views | `Reserved` = reserve, then fill; `FromVal` = `from_val` with the last view taking what is left |
| `StringStore` | `string_id_store` as operators on a record | `InitStringStore`, `TryAddName`, `CommitNames` = `init`, `try_add`, `commit_changes`; key 0 is the largest id |
| `PathStore` | `path_id_store` over `stable_multi_string_buffer`, chunk by chunk | `TryAddPath` normalizes into the end of the last chunk and gives back what it did not need; `CommitPaths` and `ReadPaths` save chunks and copy them back |
| `IdTable` | the abstract specification of a store: a table that gives each name one number and grows by whole sessions | `ScanStores` refines it three times (`ImplementsStringTables`, `ImplementsPathTable`) |
| `ScanStores` | `struct DB` over successive scans and cleans, each a process that may die | `disk` is the databases; `targets`, `modules`, `paths` the store objects; `rep` is `item_data` in ids; one action per kind of line; `CommitTransaction` with what `update_items` put (`Updated`); `Crash` is any exit before it; `Clean` |
| `LineReader` | `run_cmd_read_lines` and `run_cmd`: tool, two pipes, two threads | `str` and `line_buf` are the variables of these names; `Read` returns any part of what the pipe holds; `CallBack` takes `callback_lock`, `CallbackReturns` and `CallbackThrows` release it |
| `NinjaGen` | `NinjaGenerator::scan`: the scan of `ScanOutput`, then a response file per item and `dyndeps.ninja` | `ScanStep` and `ScanReturns` are the scan; `WriteItem` one turn of the loop with `write_if_changed_guard`; `Visited` = `visit_transitive_imports`, with the marks `is_in_queue` that one visit leaves to the next; `AllFileDeps` the headers printed for ninja; `Stop` at any point |
| `MsBuild` | `PreProcess`, `GetNodes` as far as it reads maps, `CleanItems`, on projects that reference each other | `rows` is the database, `defs` the definition files, `maps` the module maps; times are compared only with those of maps, hence `since` and `dirty`; `Report` = `on_result`; `WriteMap`, `TouchMap`, `PreProcessThrows` the three ends of `PreProcess`; `Compile`, `GetNodesThrows` those of `GetNodes`, which reads the maps of the project and of all it references |
| `MCIncScanner`, `MCItemDepsOod`, `MCScanOutput`, `MCScanStores`, `MCLineReader`, `MCMsBuild` | the instances that are checked | |
| `IncScannerProofs`, `ItemDepsOodProofs`, `ScanOutputProofs`, `NinjaGenProofs`, `MsBuildProofs`, `ScanStoresProofs`, `LineReaderProofs` | theorems about the modules they are named for | |
| `PathStoreProofs` | lemmas about single operations of the stores, which `ScanStoresProofs` is built on | |

How they fit together: `IncScanner` uses the least fixed point of "depends on an
out-of-date item" for the search, and `ItemDepsOod` shows that the search computes
it (`SearchExact`). `ScanOutput` takes "the file changed since its row was written"
as known, which is what `IncScanner` establishes from times, and looks at what is in
the rows instead. It builds on `ReorderedBuffer`, and `NinjaGen` on it: the properties
of the generator's files compare them with the source files, through the tool's lines,
the rows and the graph. `ScanStores` justifies that the other modules speak of files,
targets and modules where the code has ids: `IncScanner`'s set `paths` is the path
table of `IdTable`. `MsBuild` abstracts from the scanner in the other direction: that
it finds what has changed, and nothing else, is taken from `IncScanner` and `ScanOutput`.
`LineReader` is why `ScanOutput` may take whole lines, one at a time, as its steps.

Abstractions, and why they are harmless:

* A file's content is a version number and its include set; module names and paths
  are model values. Nothing in the code looks inside them.
* In `IncScanner` path ids are the paths (the path store is the set `paths`), target
  ids are not distinguished: an item stands for a (file, target) pair.
* In `ScanStores` a path is a sequence of components, each of which takes one cell of
  a chunk, and an integer takes one cell too: sizes and offsets are counted as in the
  code, in another unit. One item per command; what the tool reports is arbitrary.
* In `LineReader` the characters of a text are numbered, so that a lost, repeated or
  misplaced one shows.
* In `NinjaGen` flags and build lines name items instead of their files, and buffered
  output that a stopped generator leaves behind is any prefix of what it wrote.
* In `MsBuild` a report is a number that grows with each edit; a definition file says
  all of it. Times are abstracted to the comparisons the code makes (`NewerThan`,
  `IsProjectDirty`); that two files are never written in the same tick is assumed.
* Time is a small counter that the clock and the file system share, as
  `file_time_t_now` does. Any number of events fit in one tick, which is what
  millisecond stamps mean. A missing file has a time beyond all others.
* What is called history (`reads`, `seen`, `readAt`, `failed` in `IncScanner`, `said`
  and `meant`, `known`, `headers` and `lost`, `tool`, `told`, `missed`, `back`, `bare` and
  `threw` in the others) is not in the program: it records what the properties speak
  of, and no guard depends on it, except that a row of `IncScanner` is present when it
  has read something.
* The reports of one tool run are atomic per item in `IncScanner` and line by line in
  `ScanOutput`.
* `ScanOutput` lets the tool print the lines of an item in any order, and items in
  any order.

## What the runs show

Bounds are named constants of the modules. `pass` runs finish without an error;
deadlock is checked, except for `search` and `reader`, functions that return.

| run | instance | shows |
|---|---|---|
| `scanner_faults` | 2 processes, a translation unit importing a header unit, any subset scanned or cleaned, edits and deletions at any moment, tool failures, kills and crashes; clock 0..3, one edit per file | `ReadIsCurrent`: what a scan decided on is what the database holds until it ends. `StaleExplained`: a stale answer is possible only through an edit between the tool's read and the stamp, or through a header unit rewritten without its importer. `NoNeedlessRescan`: a set of items with current rows that is closed under item dependencies is reused. `PathsKnown`, `RowsMoveForward` |
| `scanner_full_scan` | 1 process, three files (one a plain header below the header unit), include sets change, two edits per file, crashes; every scan covers all items | `UpToDateIsFresh` and `ImplementsFullScan`: without failures and racing edits the database after a commit is that of a full scan at that moment |
| `scanner_retry` | any subsets, failures, files that are deleted and come back, crashes, two commands per item, two edits per file; clock 0..2; no header units | `OodUntilRescanned`: only a successful report makes an item up to date. `UpToDateSucceeded`: never one that failed last time with the same command |
| `scanner_settles` | 2 processes that queue on the lock, racing edits, fair scheduling | `LockReleased`: every scan ends, so that others can scan. `Settles`: once files and commands rest, scans come to find nothing out of date |
| `search` | 4 items: every acyclic structure with lists of up to two, one of them with a missing id or none, and every structure (cycles included) whose lists name all that is reachable; every choice of items that are out of date by themselves | `SearchExact`, `LeftIsFinal`, `UnknownHasDeps` (the two assertions of the code), `UpToDateKeepsDeps`, `Terminates` |
| `output` | 4 items in 31 situations (see `MCScanOutput`): resolved, ambiguous and incomplete graphs; changing imports; a shrinking chain of header units; failing items; up to two edits with a scan at any point; ninja generators, one of which is stopped anywhere | `ToldExactly` (each item is told once and then finished), `RowsAreReports`, `CollatedExact`, `CollateSucceeds`. `FilesExact`: response files and build lines name what an item needs, once each. `HeadersPrinted`: what a generator prints for ninja to watch is the headers of all items that were scanned, reused ones included |
| `stores` | 3 commands (scan of one item, or clean) from 2 root directories, one of them in an odd spelling; 4 spellings of 2 files, one of them only for items; chunks of 5 cells, which hold two paths; 2 lines of tool output; exits at any point | `RowsMeanWhatWasReported`, `RowsAreFound`, `AppendsSucceed`, and the refinements `ImplementsStringTables` and `ImplementsPathTable` |
| `reader` | all texts of 6 characters on one stream, and of 4 and 3 on two; pipes and reads of at most 3 characters, cut anywhere | `LinesAreHeard`, `ScreenShowsText`, and `Returns`: the call ends |
| `msbuild` | an application with one file that references a library with two; one edit of each file of the library, two changes to the lists of files, one stopped build or clean | `MapsAreReports`: the maps a project is compiled from, its own and its references', are there and have what was last reported. `MissedExplained`, `ThrowsExplained`, `RowsHaveDefinitions` |
| `header_unit_failure`, `stale_export`, `wiped_imports` | the smallest instance in which it happens | the code does not do what it says: see [below](#disagreements) |

Why the bounds are enough. The decision about an item compares one stamp with the
times of the files of one row, and follows item dependencies: two items, of which one
depends on the other, exercise both, and three ticks (before, in and after the tick of
a stamp) all comparisons. A second edit of the same file matters only to
`scanner_full_scan` and to a deleted file that comes back (`scanner_retry`), where there
is one. Two processes are enough for two
transactions to overlap; the theorems below hold for any number. For the search, four
items give a root, an intermediate item that is entered and left, one that is entered
and taken back, and a reason; cycles of two and three occur. Longer lists without
cycles are left out: a third dependency is looked at as the second is. `output` needs two reports in
one buffer, an empty one between, first, last, and an item that is not reported: four
items give all of these; a generator that was stopped is followed by one that finds
nothing out of date, or something else. `stores` needs a name that is new, one that is
known, one that a crashed scan had an id for, and a chunk that is full, partly filled,
and read back: three commands, two names and two paths per chunk give these. `reader`
needs a line longer than a read, CR and LF in different reads, and more text than a
pipe holds on the stream that is printed first. `msbuild` needs a project that is
scanned with another and alone, a map that one build writes and another touches, and a
file that leaves the project and returns (two changes).

Symmetry is used for processes (`scanner_faults`), commands (`scanner_retry`), and
targets and modules (`stores`); these runs check no liveness, and nothing orders
processes, commands or names (ids are given in the order names are met, which is part
of the state). The refinements `stores` checks are step properties.

Fairness. `Fairness` is weak fairness of each process's own steps, between
`BeginScan` and `Commit`: the operating system runs a process that can run, stat-ing
returns, and clang-scan-deps exits (`run_cmd_read_lines` waits without a timeout, so
nothing else would justify it). It says nothing of starting a scan, editing, the
clock, crashing or cleaning. `Settles` needs someone to scan, hence
`BuildFairness`, strong because another scan or clean may hold the lock whenever one
looks; it excuses users who go on cleaning or changing commands for ever. The search
runs in its caller's thread, `WF_vars(Next)`. For `LineReader`, the operating system
runs each of the two threads and the tool, the tool prints what it has to and ends,
and a callback returns or throws; nothing is asked of the lock, since the text is
finite: a thread that waits for it can only be overtaken by the other's lines. The bounds on clock and edits do not
make liveness true by themselves: the state in which they are used up is one in which
the files rest, which is the premise of `Settles`, and a stamp in the last tick still
has to be compared with edits of that tick.

Every property has a mutant, an altered definition with the kind of mistake it is
meant to catch, under which its run fails (`mutants` in `PROJECT.json`; the operators
are next to the definitions they alter).

## What is proved

Every component that is modelled is proved about, in eight modules: all invariants and
action properties of the runs, the three refinements among them. None of the proofs
bounds a constant beyond what the named assumptions say (`ScannerAssumption`,
`SearchAssumption`, `OutputAssumption`, `StopsAssumption`, `BuildAssumption`,
`StoresAssumption`, `ChunkAssumption`, `ReaderAssumption`), which the runs evaluate as well. Where a theorem has a hypothesis of
its own, a run checks the property in an instance that satisfies it, and the text says
what happens without.

### The scanner

`IncScannerProofs`, for all sets of processes, files, items and commands, all include
structures, all fault sets and all bounds, under `ScannerAssumption`: each item has a
file, no two header units share one (the code throws), the bounds are naturals and
`Free` and `NoCmd` are values of their own. That assumption is evaluated by every run.

| theorem | statement |
|---|---|
| `TypeCorrect` | `TypeOK`; no item leaves the decision in state "unknown" |
| `ReadStaysCurrent` | `ReadIsCurrent` |
| `Invariance` | the inductive invariant `IInv` |
| `StaleAnswers` | `StaleExplained` |
| `Incremental` | `NoNeedlessRescan` |
| `RowsHavePaths` | `PathsKnown` |
| `RowsOnlyMoveForward` | the action property `RowsMoveForward` |

`StaleExplained` and `NoNeedlessRescan` are not inductive: they speak of a decision,
and say nothing of the rows it was made from or of the time between the stats and the
decision. `IInv` adds

* `RowsOK`: every row, saved, reported or about to be committed, lists the files it
  was made from; each of these has either the version the row records, and was then
  written no later than the tool read it, or a later one, and was written no earlier.
  The stamp lies between that reading and now. Rows are only replaced by later ones.
* `StatsOK`: once a file has been stat-ed, a time later than the reading of the row
  means that the file is not the one the row was made from.
* `DecisionOK`: `ood` is the function `ItemState` of what was read and stat-ed.
* `PathsOK`: all files of a row have ids in the store it is committed with.

From `RowsOK`, `StatsOK` and `DecisionOK`, an item that is called up to date has a
stamp no earlier than the stat-ed time of each of its files; if one of them has
another version than the row records, it was written between reading and stamp, or
it is a header unit, whose own row carries the later stamp. The other direction is
that the times of a current row are all no later than its stamp, and that a set of
such items closed under item dependencies is disjoint from the least fixed point
`ItemDepsChanged`: its complement is closed as well. The proof of each conjunct's preservation goes by actions; the
steps of the environment are dealt with once (`StepEnvLater`, `RowStable`: later
times and versions keep a row good).

### What the scanner's answers are worth

The second half of `IncScannerProofs`, on top of `IInv`:

| theorem | hypothesis | statement |
|---|---|---|
| `RetryInvariance` | no racing edits | the inductive invariant `RetryInv` |
| `FailuresAreRetried` | no racing edits | an item called up to date whose last scan failed with the same command has item dependencies |
| `NoFailureForgotten` | no racing edits, no header units | `UpToDateSucceeded` |
| `OnlyARescanHelps` | no header units | `OodUntilRescanned` |
| `FullInvariance` | `Smooth` | the inductive invariant `FullInv` |
| `UpToDateIsTrue` | `Smooth` | `UpToDateIsFresh` |
| `IncrementalIsFull` | `Smooth` | the refinement `ImplementsFullScan` |

"No racing edits" is `"race" \notin Faults`: files and commands rest while a scan runs, and
may do anything between scans. `Smooth` adds that every scan covers all items and that
neither a tool run nor a file fails; scans, cleans and crashes of any number of
processes, header units and changing include sets remain. The hypotheses are those of
`scanner_retry` and `scanner_full_scan`, which check the same properties, and they cannot
be dropped: with a racing edit `StaleExplained` is all that is left; a header unit that is
rescanned while its importer is absent or fails makes the importer look up to date, as
`header_unit_failure` shows.

`RetryInv` says why a failure is remembered although nothing is saved of it: the row the
failed item keeps has another command, or lists a file with a time after its stamp, and
neither can change but by a rescan that succeeds, because stamps only grow and files only
get newer times. `StatsCurrent` carries that from the stats to the decision.

`FullInv` must explain an item that is out of date only because of a header unit.
`SavedFresh` says of each file of a row that it is as it was, or newer than the row's stamp;
of each header unit that it is as it was, or newer than the stamp of the *unit's* row.
The second is what a stamp of the unit alone would destroy, and why all items have to be
scanned and none may fail: then the item is rescanned in the same transaction
(`AllScanned`, `TxnStamped`). `SavedClosed` says that a row whose files are unchanged
lists all that its item includes, which makes reusing it the same as reading it again.
The refinement maps `Commit` to the one step of `FullScan`, `Clean` and the steps of the
user to theirs, and everything else to a stutter: its last lemma, `FullScanStep`.

### The search

`ItemDepsOodProofs`, for any number of items and any set of dependency lists:

| theorem | statement |
|---|---|
| `Invariance` | the inductive invariant `IInv` |
| `TypeCorrect` | `TypeOK`: no frame points outside its list, no index stands for a missing item |
| `SearchedListsAreNotEmpty` | `UnknownHasDeps`, the two assertions of the code |
| `ListsAreKept` | `UpToDateKeepsDeps` |
| `NoFalseAlarm` | what is marked "item_deps_changed" reaches an out-of-date item, whatever the lists are |
| `LeftItemsAreFinal` | `LeftIsFinal` |
| `SearchIsExact` | `SearchExact` |

The last two assume that every structure is `Acyclic` or `Flattened`; without that they
are false (see [disagreements](#disagreements)).

`SearchExact` is about the end of the search; what has to hold on the way is this.
`StackOK`: the stack is a path of undecided items from the present root, each of which
but the root is marked. `PathOK`: if an item on the stack belongs to a set that is
closed under "depends on", so do all below it. An induction along the stack would give
that; as an invariant it is kept by one step at a time. It makes marking the whole stack
right (`FoundOod`). `SeenOK`: what a frame has gone past is not out of date by itself,
and has been left up to date, or is the next frame. `LeftOK`: the same for all
dependencies of an item that was left up to date. For acyclic lists "was left" is
sound because a dependency of the top is never below it on the stack (`NoWayBack`, a
use of `Acyclic` on the set of items between the two); then the undecided items that
were not left are closed under "depends on", and contain `ItemDepsChanged`. For
flattened lists it is enough that a list that was gone through names nothing that is
out of date by itself.

### The tool's output

`ScanOutputProofs`, for any number of items, all contents of their files, all situations
(which contents a file may get, what is out of date at first, whether the tool fails on
items) and all orders in which the tool reports items and the lines of an item:

| theorem | hypothesis | statement |
|---|---|---|
| `Invariance` | | the inductive invariant `IInv` |
| `TypeCorrect` | | `TypeOK` |
| `RowsStayRight`, `RowsFollowFiles` | `HeaderUnitsStay` | `RowsRight` is invariant; `RowsAreReports` |
| `ExportsStayRight`, `ExportsFollowFiles` | `InterfacesStay` | `ExportsRight` is invariant; the rows of up-to-date items have the exports of their files |
| `ObserverHearsAll` | both | `ToldExactly` |
| `GraphIfResolvable` | both | `CollateSucceeds` |
| `GraphFollowsFiles` | both | `CollatedExact` |

`HeaderUnitsStay`: in a situation where the tool fails on items, header units go on including
what they include. Without it a header unit that is rescanned where its importer fails
leaves the importer with a row that is wrong and not out of date (`header_unit_failure`).
`InterfacesStay`: no file turns from a module interface into something else, or back; `stale_export` is
what happens if one does. `MCScanOutput` has both as an assumption that TLC evaluates:
they hold of every situation of `output`.

`IInv` follows what the tool prints through the code. `ReportsOK`: what was told of an
item and the lines of it that are pending add up to what its file says, at any point
between two lines. `BuffersOK`: the three shared buffers have one vector for each item
that was reported, however they interleave, which holds what was told, and the vector
that lines are added to is the last one. `RestOK`: of the other items everything is as in
their rows. `OodOK`: positions in the compilation database, which the header lines name,
are positions in the ascending list of out-of-date items. `SpansOK`, `ImportsOK` and
`GraphOK` take that through `ToVectors` and the collating. The lemmas these rest on:

* `AscendingLists`: `Ascending` lists each member of a finite set of numbers once. It is
  defined by the number of smaller members; that these ranks are all numbers below the
  size of the set is a counting argument (`Ranks`, `RanksAreAll`).
* `VectorStarted`, `ElementAdded`, `VectorsHandedBack`: what the operations of
  `reordered_multi_vector_buffer` do. The last is that a span from one offset to the
  next is the vector that was started there, the last one and empty ones included.
* `IncludedFrame`: what a file includes, directly or not, only depends on what the files
  it reaches say. An edit makes everything that reaches the file out of date
  (`OodGrows`), so that for the items that stay up to date nothing changes.

`RowsRight` is the strengthening that makes `RowsAreReports` inductive. Where the tool does
not fail it speaks of the items that are up to date; where it may fail, of all items
whose own row is current, since one of these may come to be up to date in a scan that
never rescans it.

### The Ninja generator

`NinjaGenProofs`, on top of `ScanOutputProofs`, wherever and however often a generator is
stopped:

| theorem | hypothesis | statement |
|---|---|---|
| `GeneratorScans` | | a behaviour of the generator is one of `ScanOutput`, whose theorems therefore hold here |
| `GenInvariance` | | the inductive invariant `GenInv` |
| `HeadersAreWatched` | `HeaderUnitsStay`, `InterfacesStay` | `HeadersPrinted` |
| `FilesFollowSources` | `HeaderUnitsStay`, `InterfacesStay` | `FilesExact` |

`GenInv` says that the files of the items the loop has passed are those of the graph it
writes (`WrittenOK`), that each visit starts without marks, and that no graph is written
while a scan runs. `GraphRight` and `HeadersRight` are what graph and printed headers say
of the source files: it comes from `IInv`, `RowsRight` and `ExportsRight` at the moment the
scan returns, and the files stay as they were known then.

What remains is that the visitor of imports names each item it reaches once, `VisitedOnce`,
for every graph, cyclic ones included, if it starts without marks. Its loop is a recursive function of the number of
turns: after `s` turns the queue has no item twice, contains only what is reached, and is
closed under "imports" up to position `s` (`Queued`). A queue without duplicates is no
longer than `N`, hence all of it is dealt with after `N` turns. That is an induction over
the natural numbers: the lemma `Induction` states it for a set of numbers, which makes it
usable without an operator as parameter, and follows from the well-foundedness of `<`;
`Recursion` says that the recursive functions of the model exist.

### The MSBuild task

`MsBuildProofs`, for all projects, items, references and bounds:

| theorem | statement |
|---|---|
| `Invariance` | the inductive invariant `IInv` |
| `TypeCorrect` | `TypeOK` |
| `MapsFollowReports` | `MapsAreReports` |
| `NothingElseIsMissed` | `MissedExplained` |
| `ThrowsAreExplained` | `ThrowsExplained` |
| `DefinitionsFollowRows` | `RowsHaveDefinitions` |

`MapsAreReports` speaks of maps a build is about to read; that one is right when
it was merely touched, or is that of a reference, depends on every earlier build.
`EntriesOK` says what a map of any age is worth: an entry is the item's last report if its
definition file is older than the map, and the map has exactly the listed items if the
project file is. `MapsOK` says that a missing map never passes for an up-to-date one, and
that only a stopped build leaves one that cannot be read. `DefsOK` ties definition files to
reports, `DoneOK` says that what a build has dealt with is newer than
all it depends on, `MissedOK` that without a stopped or failing build nothing stays newer
than its map beyond the build that wrote it, and `BackOK` which entries a map may lack.
`RowsOK` relates rows, definition files and source files.

### The stores

`PathStoreProofs` and `ScanStoresProofs`, for all sets of names, paths and root
directories, all chunk sizes, and any number of commands and lines:

| theorem | statement |
|---|---|
| `StoresTypeOK` | `TypeOK`: ids without gaps, references inside their chunks, no two of which share a cell |
| `NamesInvariance`, `AppendsDoSucceed` | `NamesInv` is invariant; `AppendsSucceed` |
| `StringStoresAreTables` | the refinements `ImplementsStringTables` |
| `PathsInvariance`, `PathStoreIsTable` | `PathsInv` is invariant; the refinement `ImplementsPathTable` |
| `RowsInvariance` | the inductive invariant `RowsInv` |
| `RowsMeanReports`, `RowsFound` | `RowsMeanWhatWasReported`, `RowsAreFound` |
| `NormalizeMeans` | what `Normalize` leaves in the buffer, read back, is the file that the spelling means |
| `RowRoundTrip` | `from_val` gives back what a row of `item_entry` was written from, whatever the lengths of its lists |

`StoresAssumption` asks of root directories that they are absolute and fit into a chunk
(a scan from another one throws), and of relative paths that they do not climb above the
root; for those the code removes components that are not there (see
[what is not modelled](#what-is-not-modelled)). A path that is too long needs no
assumption: the scan that meets it ends without a commit. `ChunkAssumption` is that
a chunk has a cell.

The names come first. `NamesSaved`: a database holds ids 1 to its largest, and each
name once; `NamesOpen`: a store read from it is that table, followed by what was added.
Hence the new keys are larger than all saved ones, which is what `MDB_APPEND` needs, and
committing makes the session's table the saved one, which is the step of `IdTable`.

Paths have the same shape, but their table is only implicit in the references and the
chunks. `PathsOpen` says that references stay `Apart` and inside what has been allocated,
that no two of them refer to the same path, and that the first ones refer to the paths of
the database. The lemmas of `PathStoreProofs` say what
one operation does: normalizing writes behind all references (`Keeps`), so that what was
there is still there; the part that is given back is the part not needed; chunks that
are saved and copied back hold the same text, also where the last one was written
in part by an earlier session. `Grown` is what any number of additions do to a store.
What a spelling means (`Meaning`, and `FileOf` for its root) is defined
in another way: a component stays if the path does not climb above it later on.

Then `RowsInv`, for what the ids in the rows mean. `RowsKnown`: every id in a row, key
included, is in the saved table. Tables only get longer, so a known id keeps its meaning,
across additions, commits, crashes and cleans. `RowsMeant`: read with the saved
tables, the rows say what was reported. `ItemKnown`: the ids of the item being scanned are
those of its file and target; `Heard`: its report in progress stands for what the tool
has said. No two ids stand for one name, so a row replaced or deleted by key is the row of that
file and target and no other, which is what keeps `RowsMeant` over a commit and a clean.

Normalizing, reading a path back and laying out a row are recursive functions of a number:
components handled, cells read, position in a value. What they return for every input is
proved by the lemmas `Induction` and `Recursion`, as for `VisitedOnce` above.

### Process and pipes

`LineReaderProofs`, for all texts and characters, all sizes of pipes and reads, and all
orders in which the tool, the two threads and their callbacks take steps:

| theorem | statement |
|---|---|
| `ReaderInvariant` | the inductive invariant `ReaderInv` |
| `ReaderTypeOK` | `TypeOK` |
| `LinesHeardOnce` | `LinesAreHeard` |
| `ScreenIsText` | `ScreenShowsText` |

`ReaderAssumption` gives sizes of at least one, and a prompt that is no character of
the text: without that the screen does not tell what is a prompt.

Both properties compare what came out with the whole text of a stream, and while the
call runs only part of that has been dealt with. `StreamOK` says which: there is a first
part of the text of which the chunk in `str`, the pipe and what the tool has yet to print
are the rest, and `DealtWith` says what has become of it. In `run_cmd_read_lines`
(`Cut`), the lines heard are its lines up to the last newline, and `line_buf` is what
follows; in `run_cmd` (`Prompted`), it is on the screen, and each start of a line has its
prompt. `ThreadOK` adds what the thread's place in the loop says of its chunk, its
pipe and the lock.

`LinesOf` defines the lines of a text by the positions of their first and last
characters; the code has a buffer and newline positions. `CutGrows` connects
them, one character at a time: a newline completes the line, or is one of several, and
anything else extends it. `CutPlain` and `CutNew` take that to chunks, and `ChunkParts`
cuts the chunk as `find_first_of` and the loop at 284-286 do. An empty line
that is called back, because CR and LF came in different reads, is no line of the text.
`LinesStay`: text that follows does not change the lines that are complete. The step of one
thread leaves the other's stream alone since each speaks only of what has its
number (`TextOf`); that is `OtherStream`. TLC has
checked `ReaderInv` on an instance, with `text` ranging over first parts.

### Only model-checked

Liveness (`Settles`, `LockReleased`, `Terminates`, `Returns`) and ENABLED, which are beyond
the prover. So is deadlock, which is ENABLED of the next-state relation.

The library's induction theorems have an operator as parameter, which the provers cannot
instantiate. Where a recursive function takes a number, `Induction` and `Recursion`
replace them, and `SequenceInduction` does for sequences.

## Disagreements

What the code says of itself and does not do; each is a run that must fail, and a
finding in `PROJECT.json`.

1. `header_unit_failure`. `scanner.cpp:940-942`: an item whose scan fails "never gets
   saved in failed state and so if it's up to date then it must've succeeded last
   time". An importer that is out of date only because of its header unit has
   nothing in its own row to say so. The unit is rescanned and stamped, the importer
   fails; the next scan finds the unit up to date, hence the importer too.
   `StaleExplained` states how far this goes.
2. `stale_export`. `scanner.cpp:1016-1026` lists "deps,export/import changed". An
   export is only ever overwritten by a `:exp` line, so the row of an item that no
   longer exports anything keeps its old export, and so do observer and graph.
3. `wiped_imports`. `scanner.cpp:1090-1091` asks for previous results "to generate
   collated results". When no rescanned item imports a module, `visit` takes its path
   for an empty buffer and assigns an empty span to every index up to the largest one
   started, up-to-date items included, whose imports are then missing from the graph.

Others are exceptions that properties of passing runs make and name:

* Half a report. An item counts as reported from its first line on (763) and the exit
  status is dropped (807), so what a tool that died had printed is saved as a success.
  `ToolDies` is a step of `scanner_faults`, whose properties hold with it.
* Cycles with inconsistent lists. `scanner.cpp:484-485` speaks of "any transitive item
  dependencies". On a cycle an item may be left marked up to date before the item below
  it on the stack turns out to be out of date, if lists do not name all that is
  reachable, as after a failed rescan. `search` and `SearchIsExact` leave such lists out.
* Maps that cannot be read, in `MapsAreReports`. `cpp_modules.cs:735` (the numbers below
  are of this file): "we expect the module map to be up to date at this point". A build
  that is stopped while it writes a map leaves it empty or half-written, and newer than
  all it is made from. The next build has nothing out of date, renews the time of the file
  (706) and fails to read it (736-737: `GetNodesThrows`), and so does each after it, until
  something is reported, or, for a half-written map, which is read before it is rewritten
  (668), until a clean. That it takes a stopped build is part of the property.
* `missed` in `MapsAreReports`. An item that is up to date has its definition in the old
  map, "unless the last preprocess didn't finish successfully" (694), when it is read from
  the definition file. A build that is stopped, or throws for another project, after the
  scan has committed leaves definition files newer than the map; the next build has
  nothing out of date, touches the map (706), and no later build looks at these files.
  `MissedExplained` states that nothing else hides a report.
* The maps of references. A build reads them, but neither scans nor writes them:
  "the references of this project are assumed to have been built already" (133).
  `Expected` is that premise; a reference that was never built makes `GetNodes` throw.
* `back` in `ThrowsExplained`. The message at 689-691, "created after definition file {1},
  but does not contain an entry for source file {2} ??", takes that to be impossible. A
  file that is taken out of a project and put back is up to date and has an old definition
  file, and no entry in the map, which is newer: every build throws, until the file changes
  or the project is cleaned.
* `bare` in `RowsHaveDefinitions`. `cpp_modules.targets:166` has a clean delete definition
  files, and then the rows, which "we can't just delete". `mdb_del` throws for an item
  without a row, which aborts the deletion of the others (`scanner.cpp:235`): these are not
  out of date and have no definition ("the scanner DB is probably out of sync", 697).
* Items the tool fails on, in `ScanEnds`. "ERROR: source file {0} was not successfully
  preprocessed" (632) is never said: only the observer marks items out of date (549), and
  it marks them visited too (595). A build goes on with the old definition of such an item;
  it has no row newer than that, so that the next scan finds it out of date again.
* `lost` in `FilesExact` is `wiped_imports` again, as the ninja files show it.

One more is part of `CollatedExact`: `scanner.cpp:496` says that the lists of
out-of-date items "will be filled in by execute_scanner"; the search clears that of
the root only (556), the items it entered on the way keep theirs, and the graph gets
each of these edges twice, or edges that no longer exist. The property allows such
edges for such items (`Entered`) and for no others.

## What is not modelled

* `file_tracker_running`: the times come from a store nothing in the repository
  writes. `clean_all` removes the file, from the outside.
* `concurrent_targets` is passed to the scan, which does not read it. No caller in
  `src` uses one `Scanner` object for two scans, so none is modelled to.
* The contents of command lines (a command is a model value; the hash is taken to be
  injective), encodings, JSON, logging, tracing. Which project properties are part of a
  command is formatting: `AdditionalOptions` are cleared (`cpp_modules.cs:375`), so that
  changing them makes nothing out of date, contrary to the list at 423-424.
* LMDB itself: its transactions are atomic, isolated and durable; only one is a
  write transaction. The map size limit is not modelled: a full map is an exception,
  that is, `Crash`. `lmdb_store.h` holds times for the file tracker and is never written.
* Paths with `~`, of more than 256 components, longer than a chunk, or climbing above the
  root (`Addable`): the first three throw, and an absolute path that climbs throws too
  (`lmdb_path_store.h:156, 161-163`); of a relative one the code removes components that are
  not there, and reads before the start of the buffer. A path that exactly fills a debug build's chunk fails
  an assertion (`multi_buffer.h:129`, `<` for `<=`) that release builds do not have.
* clang-scan-deps: it reports each item it can read once, with the files it includes
  directly or not, or (with `tool_fail`) not at all.
* Errors of `reproc_read` other than the end of a stream: any error ends a reader's loop
  (`cmd_line_utils.cpp:264`), and with it what is called back, without being reported.
* Splitting command lines, and callbacks that return false (none in `src` does).
* `gen_dynamic` and `gen_static`, which rewrite `build.ninja` as text; the commands of
  compilers other than MSVC; header units in a compilation database, which
  `scan_item_set_from_comp_db` never flags (`scanner.cpp:1143-1183`).
* In the MSBuild task: the ninja files and commands it generates, the graph of nodes
  and its duplicate checks, two builds at the same time.
* The command line tools and the CMake glue, which keep no state; the JSON schema of a
  format the scanner does not read any more; vendored `span.hpp`; `trace.h`.
* `multi_string_buffer`, which only the reader of the compilation database uses.

## Plan

The order is by how much of a build's correctness hangs on a part. Done: the modules
above. What is left:

1. Two builds at the same time in `MsBuild`, on one database and one set of maps.
2. `gen_dynamic` with the module graph, once `build.ninja` is more than text.
3. The file tracker, if there is to be one.
