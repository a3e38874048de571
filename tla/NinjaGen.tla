------------------------------ MODULE NinjaGen ------------------------------
(***************************************************************************)
(* The ninja generator (src/src/scanner/gen_ninja.cpp): a scan of the      *)
(* whole compilation database (module ScanOutput), and then the files that *)
(* tell ninja what it found: a response file per item, with the module     *)
(* flags of its command, and dyndeps.ninja, with a build line per item.    *)
(* It also prints the headers the scan told its observer of: ninja runs    *)
(* the generator again when one of them changes.                           *)
(* The generator writes its files one after another, a response file only  *)
(* when its contents change, and may be stopped anywhere; the next one     *)
(* starts from what it finds.  A compilation database says of no item that *)
(* it is a header unit (scan_item_set_from_comp_db).                       *)
(*                                                                         *)
(* The file of item i is its number: flags and build lines name items,     *)
(* for the paths of their object, response and module interface files.     *)
(***************************************************************************)
EXTENDS ScanOutput, Functions

CONSTANT MaxStops   \* bound on the number of generators that are stopped

ASSUME StopsAssumption == MaxStops \in Nat

VARIABLES
    gen,      \* the generator that writes, or the last one
    rsp,      \* item -> its response file
    dyndeps,  \* the lines of dyndeps.ninja
    stops     \* number of generators stopped so far

gvars == <<gen, rsp, dyndeps, stops>>

\* A response file: what it says of the item's command.
NoFile == [there |-> FALSE, interface |-> FALSE, references |-> <<>>]
Flags(interface, references) ==
    [there |-> TRUE, interface |-> interface, references |-> references]
EmptyFile == Flags(FALSE, <<>>)

\* graph: collated_results; marks: is_in_queue; printed: the headers printed; next:
\* the item whose files come next.  History: what there was to know of the items,
\* and NoImportSeen.
Idle == [pc |-> "idle", graph |-> NotCollated, marks |-> {}, printed |-> {}, next |-> 0,
         known |-> <<>>, headers |-> <<>>, lost |-> FALSE]

GenInit ==
    /\ Init
    /\ gen = Idle
    /\ rsp = [i \in Item |-> NoFile]
    /\ dyndeps = <<>>
    /\ stops = 0

-----------------------------------------------------------------------------
(* Definitions *)

\* ModuleVisitor::visit_transitive_imports: the items root_idx imports, in the
\* order the visitor meets them.  Of the earlier visits it has the marks.
AddNew(queue, marks, idx) ==
    IF idx \in In(queue) \cup marks THEN queue ELSE Append(queue, idx)

\* The queue, with the imports of the item the visitor is at.
AddImports(queue, marks, imports) ==
    LET added[k \in 0 .. Len(imports)] ==
          IF k = 0 THEN queue ELSE AddNew(added[k - 1], marks, imports[k])
    IN added[Len(imports)]

\* A turn of the visitor's loop: it is at position s, if the queue is that long.
Turn(graph, marks, s, queue) ==
    IF s > Len(queue) THEN queue ELSE AddImports(queue, marks, graph.imports_item[queue[s]])

Visited(graph, i, marks) ==
    LET queue[s \in 0 .. N] == IF s = 0 THEN <<i>> ELSE Turn(graph, marks, s, queue[s - 1])
    IN Tail(queue[N])

\* Mutant: the marks are not cleared.
MarksKeptMutant(graph, i, marks) == marks \cup {i} \cup In(Visited(graph, i, marks))

\* The marks that a visit leaves to the next one.
MarksLeft(graph, i, marks) == {}

HasExport(graph, i) == graph.exports[i] # NoModule
HasImport(graph, i) == graph.imports_item[i] # <<>>

\* ModuleCommandGenerator::generate, which only visits the imports if it must.
Generate(graph, i, marks) ==
    IF ~HasExport(graph, i) /\ ~HasImport(graph, i) THEN EmptyFile
    ELSE Flags(HasExport(graph, i), Visited(graph, i, marks))

Generated(graph, i, marks) ==
    IF ~HasExport(graph, i) /\ ~HasImport(graph, i) THEN marks ELSE MarksLeft(graph, i, marks)

\* "build o | bmi: dyndep | rsp bmis".
BuildLine(graph, i, marks) ==
    [item |-> i, bmi |-> HasExport(graph, i), inputs |-> Visited(graph, i, marks)]

-----------------------------------------------------------------------------
(* The generator *)

\* What there is to know of the headers item i includes; nothing if it failed.
KnownHeaders(i) == IF Succeeded(i) THEN Included(i) \cap Header ELSE {}

\* Another step of the scan.
ScanStep ==
    /\ gen.pc # "write"
    /\ \/ \E i \in Item : Edit(i)
       \/ BeginScan
       \/ \E k \in todo : HeaderLine(k)
       \/ ExpLine
       \/ \E m \in Module : ImpLine(m)
       \/ \E f \in HeaderUnit \cup Header : DepLine(f)
       \/ ToolExit
       \/ Collate
    /\ gen' = IF pc' = "idle" THEN gen ELSE Idle
    /\ UNCHANGED <<rsp, dyndeps, stops>>

\* Mutant: the headers of the items that were rescanned.
ReusedNotToldMutant == UNION {told[i].fdeps : i \in In(ood)}

\* DepsCollector::all_file_deps.
AllFileDeps == UNION {told[i].fdeps : i \in Item}

\* The scan returns.  When the graph could not be collated the generator exits
\* with 1; else it prints the headers and opens dyndeps.ninja.
ScanReturns ==
    /\ Save
    /\ IF HeaderUnit = {} /\ collated.success
       THEN /\ gen' = [Idle EXCEPT !.pc = "write", !.graph = collated,
                                   !.printed = AllFileDeps,
                                   !.known = [i \in Item |-> Known(i)],
                                   !.headers = [i \in Item |-> KnownHeaders(i)],
                                   !.lost = NoImportSeen]
            /\ dyndeps' = <<>>
       ELSE UNCHANGED <<gen, dyndeps>>
    /\ UNCHANGED <<rsp, stops>>

Writing == gen.pc = "write" /\ UNCHANGED vars

\* getline finds no line in an empty file.
Same(i, cmd_buf) == rsp[i] # EmptyFile /\ rsp[i] = cmd_buf

\* The loop over the items; write_if_changed_guard writes at the end of its body.
WriteItem ==
    /\ Writing
    /\ LET i == gen.next
           cmd_buf == Generate(gen.graph, i, gen.marks)
           marks == Generated(gen.graph, i, gen.marks)
       IN /\ dyndeps' = Append(dyndeps, BuildLine(gen.graph, i, marks))
          /\ rsp' = IF Same(i, cmd_buf) THEN rsp ELSE [rsp EXCEPT ![i] = cmd_buf]
          /\ gen' = [gen EXCEPT !.marks = MarksLeft(gen.graph, i, marks),
                                !.next = IF i = N - 1 THEN 0 ELSE i + 1,
                                !.pc = IF i = N - 1 THEN "done" ELSE "write"]
    /\ UNCHANGED stops

\* The generator is stopped: what it wrote to dyndeps.ninja may still be in a
\* buffer, and the response file it was writing may be truncated.
Stop ==
    /\ Writing
    /\ stops < MaxStops
    /\ stops' = stops + 1
    /\ gen' = Idle
    /\ \E k \in 0 .. Len(dyndeps) : dyndeps' = SubSeq(dyndeps, 1, k)
    /\ \/ rsp' = rsp
       \/ /\ ~Same(gen.next, Generate(gen.graph, gen.next, gen.marks))
          /\ rsp' = [rsp EXCEPT ![gen.next] = EmptyFile]

GenNext == ScanStep \/ ScanReturns \/ WriteItem \/ Stop

GenSpec == GenInit /\ [][GenNext]_<<vars, gvars>>

-----------------------------------------------------------------------------
(* Properties *)

\* What item i imports according to what is known of the files.
KnownImports(i) ==
    {j \in Item : gen.known[j].exp # NoModule /\ gen.known[j].exp \in gen.known[i].imps \ {StdCore}}

\* All it needs the interfaces of: what it imports, directly or not.
Needed(i) ==
    {j \in Item \ {i} : \A X \in SUBSET Item :
        (KnownImports(i) \subseteq X /\ \A k \in X : KnownImports(k) \subseteq X) => j \in X}

\* gen_ninja.cpp:140-144, "it's possible that ... we crashed before writing the
\* file".  When the generator exits with 0, both the response files and the build
\* lines of all items say what the files say, those it has not written included,
\* whatever earlier generators were stopped in, unless the scan lost imports (see
\* PreviousResultsCollated); so each interface a command names is named once
\* whatever the imports look like, an input of the item's edge, and the output of
\* another one.
FilesExact ==
    gen.pc = "done" /\ ~gen.lost =>
        /\ Len(dyndeps) = N
        /\ \A i \in Item :
            LET line == dyndeps[i + 1]
                exports == gen.known[i].exp # NoModule
            IN /\ rsp[i].there /\ rsp[i].interface = exports
               /\ In(rsp[i].references) = Needed(i) /\ IsInjective(rsp[i].references)
               /\ line.item = i /\ line.bmi = exports
               /\ In(line.inputs) = Needed(i)
               /\ \A j \in In(line.inputs) : dyndeps[j + 1].bmi

\* gen_ninja.cpp:201-204, "ninja looks for the prefix".  What a generator prints
\* takes the place of what the one before it printed: when it exits with 0 it has
\* printed the headers of all items, those that were not rescanned included, as the
\* files stand, and no others; but none of the items the tool failed on, whose
\* headers ninja does not watch.
HeadersPrinted == gen.pc = "done" => gen.printed = UNION {gen.headers[i] : i \in Item}

=============================================================================
