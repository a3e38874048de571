----------------------------- MODULE ScanOutput -----------------------------
(***************************************************************************)
(* What a scan makes of the tool's output (src/src/scanner/scanner.cpp):   *)
(* the lines clang-scan-deps prints for the out-of-date items are sorted   *)
(* into exports, imports and dependencies (execute_scanner), the observer  *)
(* is told (execute_scanner, submit_up_to_date_items), the module graph of *)
(* all items is collated (collate_module_deps) and the rows of the         *)
(* rescanned items are written (update_items).  Scans of all items follow  *)
(* one another, each starting from the rows the previous ones left; files  *)
(* are edited in between.  How timestamps tell what changed is in          *)
(* IncScanner: here it is known which files changed since their row was    *)
(* written.                                                                *)
(***************************************************************************)
EXTENDS ReorderedBuffer, FiniteSets

CONSTANTS
    N,           \* number of items; scan_item_idx_t counts from 0
    Module,      \* module names
    StdCore,     \* "std.core", which no item exports
    Header,      \* files that are no item
    Worlds,      \* the situations to look at, see World
    MaxEdits,    \* bound on the number of edits
    NoModule     \* an invalid module id

Item == 0 .. N - 1

Content == [exp : (Module \ {StdCore}) \cup {NoModule}, imps : SUBSET Module,
            deps : SUBSET (Item \cup Header)]

\* A situation: the items marked is_header_unit, what the file of each item may
\* come to say, and whether the tool may fail.
World == [hu : SUBSET Item, says : [Item -> SUBSET Content], fails : BOOLEAN]

ASSUME OutputAssumption ==
    /\ N \in Nat \ {0}
    /\ Header \cap Item = {}
    /\ StdCore \in Module
    /\ NoModule \notin Module
    /\ Worlds \subseteq World
    /\ \A w \in Worlds, i \in Item : \A c \in w.says[i] : c.deps \subseteq w.hu \cup Header
    /\ MaxEdits \in Nat

\* What the theorems assume of the situations (module ScanOutputProofs).

\* Where the tool may fail, header units keep the files they include.
HeaderUnitsStay ==
    \A w \in Worlds : w.fails => \A i \in w.hu : \A c, d \in w.says[i] : c.deps = d.deps

\* No file starts or ceases to be a module interface.
InterfacesStay ==
    \A w \in Worlds, i \in Item : \A c, d \in w.says[i] : c.exp = NoModule => d.exp = NoModule

VARIABLES
    world,     \* the member of Worlds this behaviour is in
    content,   \* item -> what its file says: module names, and files included
    edits,     \* number of edits so far
    rows,      \* item -> its row in the items table
    current,   \* items whose row is newer than their file
    pc,        \* where scan() is
    ood,       \* ood_items, ascending
    todo,      \* what the tool has yet to report, as positions in ood
    lines,     \* the lines it has yet to print of the item it is reporting
    cur,       \* current_item_idx
    got,       \* item -> got_result
    mods,      \* item_data.exports and .imports: the rows as read, then
    deps,      \* overwritten by what the tool reports; .file_deps and .item_deps
    sdeps,     \* item -> scan_item_deps
    bufs,      \* file_deps_buf, item_deps_buf and imports_buf
    told,      \* item -> what the observer was told of it
    collated   \* *collated_results

files == <<world, content, edits>>
db    == <<rows, current>>
vars  == <<files, db, pc, ood, todo, lines, cur, got, mods, deps, sdeps, bufs, told, collated>>

HeaderUnit == world.hu

In(s) == {s[k] : k \in 1 .. Len(s)}
Empty == [i \in Item |-> <<>>]

NoRow == [saved |-> FALSE, exp |-> NoModule, imps |-> <<>>, fdeps |-> <<>>, ideps |-> <<>>]

NoMods      == [exports |-> [i \in Item |-> NoModule], imports |-> Empty]
NoDeps      == [file_deps |-> Empty, item_deps |-> Empty]
NoLines     == [exp |-> NoModule, imps |-> {}, deps |-> {}]
NoBuffers   == [file_deps |-> EmptyBuffer, item_deps |-> EmptyBuffer, imports |-> EmptyBuffer]
NotTold     == [times |-> 0, finished |-> 0, ood |-> FALSE, exp |-> NoModule, imps |-> {},
                fdeps |-> {}, ideps |-> {}]
NotCollated == [success |-> FALSE, exports |-> <<>>, imports_item |-> <<>>]

Init ==
    /\ world \in Worlds
    /\ content \in {c \in [Item -> UNION {world.says[i] : i \in Item}] :
                       \A i \in Item : c[i] \in world.says[i]}
    /\ edits = 0
    /\ rows = [i \in Item |-> NoRow]
    /\ current = {}
    /\ pc = "idle"
    /\ ood = <<>>
    /\ todo = {}
    /\ lines = NoLines
    /\ cur = 0
    /\ got = [i \in Item |-> FALSE]
    /\ mods = NoMods
    /\ deps = NoDeps
    /\ sdeps = Empty
    /\ bufs = NoBuffers
    /\ told = [i \in Item |-> NotTold]
    /\ collated = NotCollated

-----------------------------------------------------------------------------
(* The files, and the tool *)

Edit(i) ==
    /\ pc = "idle"
    /\ edits < MaxEdits
    /\ edits' = edits + 1
    /\ \E c \in world.says[i] \ {content[i]} : content' = [content EXCEPT ![i] = c]
    /\ current' = current \ {i}
    /\ UNCHANGED <<world, rows, pc, ood, todo, lines, cur, got, mods, deps, sdeps, bufs, told, collated>>

\* The files item i includes, directly or through header units.
Included(i) ==
    {f \in HeaderUnit \cup Header : \A X \in SUBSET (HeaderUnit \cup Header) :
        (content[i].deps \subseteq X /\ \A h \in X \cap Item : content[h].deps \subseteq X)
            => f \in X} \ {i}

\* The lines clang-scan-deps prints of item i, after its header line.
ToolLines(i) ==
    [exp |-> content[i].exp, imps |-> content[i].imps, deps |-> Included(i)]

-----------------------------------------------------------------------------
(* Which items are out of date, and the rows of the others *)

OwnOod == {i \in Item : ~rows[i].saved \/ i \notin current}

DepClosed(X) ==
    \A i \in Item : (i \in OwnOod \/ In(rows[i].ideps) \cap X # {}) => i \in X

OodSet == {i \in Item : \A X \in SUBSET Item : DepClosed(X) => i \in X}

Ascending(S) ==
    [k \in 1 .. Cardinality(S) |-> CHOOSE i \in S : Cardinality({j \in S : j < i}) = k - 1]

\* Items the search of get_item_deps_ood may have entered on its way to another
\* one: their scan_item_deps are not cleared (module ItemDepsOod).
Entered == {i \in OodSet \ OwnOod : \E j \in OodSet \ OwnOod : i \in In(rows[j].ideps)}

\* submit_up_to_date_items.
ToldOfRow(i) ==
    [times |-> 1, finished |-> 1, ood |-> FALSE, exp |-> rows[i].exp, imps |-> In(rows[i].imps),
     fdeps |-> In(rows[i].fdeps), ideps |-> In(rows[i].ideps)]

BeginScan ==
    /\ pc = "idle"
    /\ ood' = Ascending(OodSet)
    /\ todo' = 1 .. Len(ood')
    /\ pc' = IF OodSet = {} THEN "collate" ELSE "stream"
    /\ mods' = [exports |-> [i \in Item |-> rows[i].exp],
                imports |-> [i \in Item |-> rows[i].imps]]
    /\ deps' = [file_deps |-> [i \in Item |-> rows[i].fdeps],
                item_deps |-> [i \in Item |-> rows[i].ideps]]
    /\ \E kept \in SUBSET Entered :
         sdeps' = [i \in Item |->
                     IF i \in OodSet \ kept THEN <<>> ELSE rows[i].ideps]
    /\ told' = [i \in Item |-> IF i \in OodSet THEN NotTold ELSE ToldOfRow(i)]
    /\ UNCHANGED <<files, db, lines, cur, got, bufs, collated>>

-----------------------------------------------------------------------------
(* execute_scanner: one action per kind of line *)

Streaming == pc = "stream" /\ UNCHANGED <<files, db, pc, ood, deps, collated>>

\* item_finished for the item the tool has reported, unless it is the first line.
Finished == IF \E i \in Item : got[i] THEN [told EXCEPT ![cur].finished = @ + 1] ELSE told

\* Mutant: the position in the compilation database is taken for the item.
PositionIsItemMutant(k) ==
    /\ Streaming
    /\ lines = NoLines
    /\ k \in todo
    /\ todo' = todo \ {k}
    /\ cur' = k - 1
    /\ lines' = ToolLines(ood[k])
    /\ bufs' = [b \in DOMAIN bufs |-> NewVector(bufs[b], cur')]
    /\ got' = [got EXCEPT ![cur'] = TRUE]
    /\ told' = [Finished EXCEPT ![cur'] = [NotTold EXCEPT !.times = told[cur'].times + 1, !.ood = TRUE]]
    /\ UNCHANGED <<mods, sdeps>>

\* ":::: k": the k-th entry of the compilation database, which lists ood_items.
HeaderLine(k) ==
    /\ Streaming
    /\ lines = NoLines
    /\ k \in todo
    /\ todo' = todo \ {k}
    /\ cur' = ood[k]
    /\ lines' = ToolLines(ood[k])
    /\ bufs' = [b \in DOMAIN bufs |-> NewVector(bufs[b], cur')]
    /\ got' = [got EXCEPT ![cur'] = TRUE]
    /\ told' = [Finished EXCEPT ![cur'] = [NotTold EXCEPT !.times = told[cur'].times + 1, !.ood = TRUE]]
    /\ UNCHANGED <<mods, sdeps>>

\* ":exp name".
ExpLine ==
    /\ Streaming
    /\ lines.exp # NoModule
    /\ lines' = [lines EXCEPT !.exp = NoModule]
    /\ mods' = [mods EXCEPT !.exports[cur] = lines.exp]
    /\ told' = [told EXCEPT ![cur].exp = lines.exp]
    /\ UNCHANGED <<todo, cur, got, sdeps, bufs>>

\* ":imp name".
ImpLine(m) ==
    /\ Streaming
    /\ m \in lines.imps
    /\ lines' = [lines EXCEPT !.imps = @ \ {m}]
    /\ bufs' = [bufs EXCEPT !.imports = AddElem(@, m)]
    /\ told' = [told EXCEPT ![cur].imps = @ \cup {m}]
    /\ UNCHANGED <<todo, cur, got, mods, sdeps>>

\* Mutant: an imported header unit is not added to scan_item_deps.
DepNotCollatedMutant(f) ==
    /\ Streaming
    /\ f \in lines.deps
    /\ lines' = [lines EXCEPT !.deps = @ \ {f}]
    /\ IF f \in HeaderUnit
       THEN /\ bufs' = [bufs EXCEPT !.item_deps = AddElem(@, f)]
            /\ told' = [told EXCEPT ![cur].ideps = @ \cup {f}]
       ELSE /\ bufs' = [bufs EXCEPT !.file_deps = AddElem(@, f)]
            /\ told' = [told EXCEPT ![cur].fdeps = @ \cup {f}]
    /\ UNCHANGED <<todo, cur, got, mods, sdeps>>

\* A path: a header unit of this scan, or another file.
DepLine(f) ==
    /\ Streaming
    /\ f \in lines.deps
    /\ lines' = [lines EXCEPT !.deps = @ \ {f}]
    /\ IF f \in HeaderUnit
       THEN /\ bufs' = [bufs EXCEPT !.item_deps = AddElem(@, f)]
            /\ sdeps' = [sdeps EXCEPT ![cur] = Append(@, f)]
            /\ told' = [told EXCEPT ![cur].ideps = @ \cup {f}]
       ELSE /\ bufs' = [bufs EXCEPT !.file_deps = AddElem(@, f)]
            /\ told' = [told EXCEPT ![cur].fdeps = @ \cup {f}]
            /\ sdeps' = sdeps
    /\ UNCHANGED <<todo, cur, got, mods>>

\* Mutant: the file and the item dependencies are confused.
SwappedSpansMutant ==
    /\ pc = "stream"
    /\ lines = NoLines
    /\ todo = {} \/ world.fails
    /\ pc' = "collate"
    /\ deps' = [file_deps |-> ToVectors(bufs.item_deps, deps.file_deps),
                item_deps |-> ToVectors(bufs.file_deps, deps.item_deps)]
    /\ mods' = [mods EXCEPT !.imports = ToVectors(bufs.imports, @)]
    /\ told' = Finished
    /\ UNCHANGED <<files, db, ood, todo, lines, cur, got, sdeps, bufs, collated>>

\* The tool has no more to print; items it failed on have no header line.  The
\* buffers are turned into spans.
ToolExit ==
    /\ pc = "stream"
    /\ lines = NoLines
    /\ todo = {} \/ world.fails
    /\ pc' = "collate"
    /\ deps' = [file_deps |-> ToVectors(bufs.file_deps, deps.file_deps),
                item_deps |-> ToVectors(bufs.item_deps, deps.item_deps)]
    /\ mods' = [mods EXCEPT !.imports = ToVectors(bufs.imports, @)]
    /\ told' = Finished
    /\ UNCHANGED <<files, db, ood, todo, lines, cur, got, sdeps, bufs, collated>>

-----------------------------------------------------------------------------
(* The module graph, and the rows *)

\* Two items export the same module.
Ambiguous(e) == \E i, j \in Item : i # j /\ e[i] = e[j] /\ e[i] # NoModule

\* An item imports a module that no item exports.
Unresolved(e, S) == \E i \in Item : \E m \in S[i] \ {StdCore} : \A j \in Item : e[j] # m

Exporter(m) == CHOOSE j \in Item : mods.exports[j] = m

\* The imports that are looked up, in their order.
LookedUp(imports) ==
    LET kept == Ascending({k \in 1 .. Len(imports) : imports[k] # StdCore})
    IN [n \in 1 .. Len(kept) |-> imports[kept[n]]]

\* Mutant: std.core is looked up like any other module.
StdCoreExportedMutant ==
    /\ pc = "collate"
    /\ pc' = "save"
    /\ LET e == mods.exports
           imported(i) == mods.imports[i]
           ok == ~Ambiguous(e) /\ \A i \in Item : \A m \in In(imported(i)) : \E j \in Item : e[j] = m
       IN collated' = [success |-> ok,
                       exports |-> IF Ambiguous(e) THEN <<>> ELSE e,
                       imports_item |->
                         IF ok THEN [i \in Item |->
                                       [k \in 1 .. Len(imported(i)) |-> Exporter(imported(i)[k])]
                                          \o sdeps[i]]
                               ELSE <<>>]
    /\ UNCHANGED <<files, db, ood, todo, lines, cur, got, mods, deps, sdeps, bufs, told>>

\* collate_module_deps.
Collate ==
    /\ pc = "collate"
    /\ pc' = "save"
    /\ LET e == mods.exports
           imported(i) == LookedUp(mods.imports[i])
           ok == ~Ambiguous(e) /\ ~Unresolved(e, [i \in Item |-> In(mods.imports[i])])
       IN collated' = [success |-> ok,
                       exports |-> IF Ambiguous(e) THEN <<>> ELSE e,
                       imports_item |->
                         IF ok THEN [i \in Item |->
                                       [k \in 1 .. Len(imported(i)) |-> Exporter(imported(i)[k])]
                                          \o sdeps[i]]
                               ELSE <<>>]
    /\ UNCHANGED <<files, db, ood, todo, lines, cur, got, mods, deps, sdeps, bufs, told>>

\* The end of scan(); its results are the caller's.
Leave ==
    /\ pc' = "idle"
    /\ ood' = <<>>
    /\ todo' = {}
    /\ lines' = NoLines
    /\ cur' = 0
    /\ got' = [i \in Item |-> FALSE]
    /\ mods' = NoMods
    /\ deps' = NoDeps
    /\ sdeps' = Empty
    /\ bufs' = NoBuffers
    /\ told' = [i \in Item |-> NotTold]
    /\ collated' = NotCollated

\* update_items, and the end of the scan.
Save ==
    /\ pc = "save"
    /\ rows' = [i \in Item |->
         IF got[i] /\ i \in In(ood)
         THEN [saved |-> TRUE, exp |-> mods.exports[i], imps |-> mods.imports[i],
               fdeps |-> deps.file_deps[i], ideps |-> deps.item_deps[i]]
         ELSE rows[i]]
    /\ current' = current \cup {i \in In(ood) : got[i]}
    /\ Leave
    /\ UNCHANGED files

Next ==
    \/ \E i \in Item : Edit(i)
    \/ BeginScan
    \/ \E k \in todo : HeaderLine(k)
    \/ ExpLine
    \/ \E m \in Module : ImpLine(m)
    \/ \E f \in HeaderUnit \cup Header : DepLine(f)
    \/ ToolExit
    \/ Collate
    \/ Save

Spec == Init /\ [][Next]_vars

-----------------------------------------------------------------------------
(* Properties *)

TypeOK ==
    /\ world \in Worlds
    /\ content \in [Item -> Content]
    /\ edits \in 0 .. MaxEdits
    /\ current \subseteq {i \in Item : rows[i].saved}
    /\ pc \in {"idle", "stream", "collate", "save"}
    /\ In(ood) \subseteq Item /\ todo \subseteq 1 .. Len(ood) /\ cur \in Item
    /\ got \in [Item -> BOOLEAN]
    /\ mods.exports \in [Item -> Module \cup {NoModule}]
    /\ \A i \in Item : /\ In(mods.imports[i]) \subseteq Module
                       /\ In(deps.file_deps[i]) \subseteq Header
                       /\ In(deps.item_deps[i]) \cup In(sdeps[i]) \subseteq HeaderUnit

\* The result of item i is scan_state::success (get_results).
Succeeded(i) == i \notin In(ood) \/ got[i]

\* What there is to know of item i in this scan: its file if the scan of it
\* succeeded, else what was last saved.
Known(i) ==
    IF Succeeded(i) THEN [exp |-> content[i].exp, imps |-> content[i].imps]
    ELSE [exp |-> rows[i].exp, imps |-> In(rows[i].imps)]

\* The observer is told of every item that succeeded, once, what its file says and,
\* once, that this was all, whether or not the item was rescanned; of the others it
\* hears nothing.
ToldExactly ==
    pc = "save" => \A i \in Item :
        IF Succeeded(i)
        THEN told[i] = [times |-> 1, finished |-> 1, ood |-> i \in In(ood),
                        exp |-> content[i].exp, imps |-> content[i].imps,
                        fdeps |-> Included(i) \cap Header,
                        ideps |-> Included(i) \cap HeaderUnit]
        ELSE told[i] = NotTold

\* The rows of the items that are up to date say what their files say, however
\* the reports of one scan were interleaved in the buffers.
RowsAreReports ==
    pc = "idle" => \A i \in Item \ OodSet :
        /\ In(rows[i].imps) = content[i].imps
        /\ In(rows[i].fdeps) = Included(i) \cap Header
        /\ In(rows[i].ideps) = Included(i) \cap HeaderUnit

\* scanner.cpp:1016-1026, "changes to items: deps,export/import changed".
RowsHaveExports ==
    pc = "idle" => \A i \in Item \ OodSet : rows[i].exp = content[i].exp

\* What item i imports: the items that export what it names, and the header
\* units it includes.
Imported(i) ==
    {j \in Item : Known(j).exp \in content[i].imps \ {StdCore}}
        \cup (Included(i) \cap HeaderUnit)

\* The tool ran, but no item it reported imports a module.
NoImportSeen == ood # <<>> /\ bufs.imports.buf = <<>>

\* A graph that collating calls a success is that of the files, whatever mixture
\* of fresh reports, rows of up-to-date items and old rows of failed ones it was
\* made of, with two exceptions: an item that the search for changed item
\* dependencies entered may keep edges of its row, and the imports of up-to-date
\* items are lost when the tool has seen none.
CollatedExact ==
    pc = "save" /\ collated.success /\ ~NoImportSeen =>
        \A i \in Item : Succeeded(i) =>
            LET edges == In(collated.imports_item[i]) IN
            /\ Imported(i) \subseteq edges
            /\ edges \subseteq Imported(i) \cup (IF i \in Entered THEN In(rows[i].ideps) ELSE {})

\* scanner.cpp:1090-1091, "previous results are needed to generate collated
\* results": with them, no import of an item that succeeded is missing.
PreviousResultsCollated ==
    pc = "save" /\ collated.success =>
        \A i \in Item : Succeeded(i) => Imported(i) \subseteq In(collated.imports_item[i])

\* Collating succeeds when no module is exported twice and all that is imported
\* is exported, and only then, unless the tool has seen no import.
CollateSucceeds ==
    pc = "save" /\ ~NoImportSeen =>
        LET e == [i \in Item |-> Known(i).exp]
        IN collated.success <=> ~Ambiguous(e) /\ ~Unresolved(e, [i \in Item |-> Known(i).imps])
=============================================================================
