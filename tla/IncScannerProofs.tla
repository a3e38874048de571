-------------------------- MODULE IncScannerProofs --------------------------
(***************************************************************************)
(* What holds of the incremental scanner for every set of processes, files *)
(* and items, every dependency structure and every combination of faults.  *)
(* The second half is about combinations in which more holds: where no     *)
(* file is edited while a scan runs, or also none of the scans fails.      *)
(***************************************************************************)
EXTENDS IncScanner, TLAPS

-----------------------------------------------------------------------------
(* Rows and databases *)

\* The row of an item nothing is known of is a row.
LEMMA NoEntryType == NoEntry \in Entry
  BY ScannerAssumption DEF NoEntry, Entry, Time

\* The database a Scanner object starts from is a database.
LEMMA EmptyDbType == EmptyDb \in Database
  BY NoEntryType DEF EmptyDb, Database

\* The value the state of a process that is not in scan() has.
LEMMA NoCfgType == NoCfg \in [items : SUBSET Item, cmd : [Item -> Cmd \cup {NoCmd}]]
  BY DEF NoCfg

\* Whatever part of an item's files the tool reports makes a row.
LEMMA ResultType ==
  ASSUME TypeOK, NEW p \in Proc, NEW i \in Item, NEW out \in SUBSET File
  PROVE  Result(p, i, out) \in Entry
<1>1. FileOf[i] \in File
  BY ScannerAssumption
<1>2. cfg[p].cmd[i] \in Cmd \cup {NoCmd}
  BY DEF TypeOK
<1>3. UNION {HuLookup(p, f) : f \in out} \in SUBSET Item
  BY DEF HuLookup, TypeOK
<1>4. [f \in File |-> IF f \in out \cup {FileOf[i]} THEN ver[f] ELSE 0]
         \in [File -> 0 .. MaxVer]
  BY ScannerAssumption DEF TypeOK
<1>5. now \in Time /\ 0 \in Time
  BY ScannerAssumption DEF TypeOK, Time
<1>. QED
  BY <1>1, <1>2, <1>3, <1>4, <1>5 DEF Result, Entry

\* Stamping a row sets its time and nothing else.
LEMMA StampedRow ==
  ASSUME NEW e \in Entry, NEW t \in Time
  PROVE  /\ Stamped(e, t) \in Entry
         /\ Stamped(e, t) = [lss |-> t, cmd |-> e.cmd, fdeps |-> e.fdeps,
                             ideps |-> e.ideps, reads |-> e.reads, seen |-> e.seen,
                             readAt |-> e.readAt]
<1>1. Stamped(e, t) \in Entry
  BY Zenon DEF Stamped, Entry
<1>2. Stamped(e, t) = [lss |-> t, cmd |-> e.cmd, fdeps |-> e.fdeps,
                       ideps |-> e.ideps, reads |-> e.reads, seen |-> e.seen,
                       readAt |-> e.readAt]
  BY DEF Stamped, Entry
<1>. QED
  BY <1>1, <1>2

\* What the tool reports of an item are files.
LEMMA OutputType == ASSUME NEW i \in Item PROVE Output(i) \in SUBSET File
  BY DEF Output, Reach

\* The decision procedure always comes to one of the states of ood_state.
LEMMA ItemStateType ==
  ASSUME NEW d, NEW c, NEW w, NEW i PROVE ItemState(d, c, w, i) \in OodState
<1>1. OwnState(d, c, w, i) \in OodState \cup {"unknown"}
  BY DEF OwnState, OodState
<1>. QED
  BY <1>1 DEF ItemState, OodState

-----------------------------------------------------------------------------
(* Type correctness *)

LEMMA InitType == Init => TypeOK
<1>. SUFFICES ASSUME Init PROVE TypeOK
  OBVIOUS
<1>1. now \in Time /\ ver \in [File -> 0 .. MaxVer] /\ mtime \in [File -> Time \cup {NoFile}]
  BY ScannerAssumption DEF Init, Time
<1>2. inc \in [File -> SUBSET File] /\ cmd \in [Item -> Cmd] /\ lock \in Proc \cup {Free}
  BY DEF Init
<1>3. db \in Database /\ data \in [Proc -> Database] /\ txn \in [Proc -> Database]
  BY EmptyDbType DEF Init
<1>4. /\ pc \in [Proc -> {"idle", "stat", "scan", "update", "commit"}]
      /\ tostat \in [Proc -> SUBSET File]
      /\ failed \in [Item -> Cmd \cup {NoCmd}]
  BY DEF Init
<1>5. cfg \in [Proc -> [items : SUBSET Item, cmd : [Item -> Cmd \cup {NoCmd}]]]
  BY NoCfgType DEF Init
<1>6. lwt \in [Proc -> [File -> Time \cup {NoFile}]]
  BY ScannerAssumption DEF Init, Time
<1>7. ood \in [Proc -> [Item -> OodState]]
  BY DEF Init, OodState
<1>8. got \in [Proc -> [Item -> Entry]]
  BY NoEntryType DEF Init
<1>. QED
  BY <1>1, <1>2, <1>3, <1>4, <1>5, <1>6, <1>7, <1>8 DEF TypeOK

\* Leaving scan() resets the process.
LEMMA LeaveType ==
  ASSUME TypeOK, NEW p \in Proc, Leave(p)
  PROVE  /\ lock' \in Proc \cup {Free}
         /\ pc' \in [Proc -> {"idle", "stat", "scan", "update", "commit"}]
         /\ cfg' \in [Proc -> [items : SUBSET Item, cmd : [Item -> Cmd \cup {NoCmd}]]]
         /\ data' \in [Proc -> Database]
         /\ tostat' \in [Proc -> SUBSET File]
         /\ lwt' \in [Proc -> [File -> Time \cup {NoFile}]]
         /\ ood' \in [Proc -> [Item -> OodState]]
         /\ got' \in [Proc -> [Item -> Entry]]
         /\ txn' \in [Proc -> Database]
<1>1. lock' \in Proc \cup {Free} /\ tostat' \in [Proc -> SUBSET File]
  BY DEF Leave, TypeOK
<1>2. pc' \in [Proc -> {"idle", "stat", "scan", "update", "commit"}]
  BY DEF Leave, TypeOK
<1>3. cfg' \in [Proc -> [items : SUBSET Item, cmd : [Item -> Cmd \cup {NoCmd}]]]
  BY NoCfgType DEF Leave, TypeOK
<1>4. data' \in [Proc -> Database] /\ txn' \in [Proc -> Database]
  BY EmptyDbType DEF Leave, TypeOK
<1>5. [f \in File |-> 0] \in [File -> Time \cup {NoFile}]
  BY ScannerAssumption DEF Time
<1>6. lwt' \in [Proc -> [File -> Time \cup {NoFile}]]
  BY <1>5 DEF Leave, TypeOK
<1>7. ood' \in [Proc -> [Item -> OodState]]
  BY DEF Leave, TypeOK, OodState
<1>8. got' \in [Proc -> [Item -> Entry]]
  BY NoEntryType DEF Leave, TypeOK
<1>. QED
  BY <1>1, <1>2, <1>3, <1>4, <1>6, <1>7, <1>8

\* Every step of the system keeps every variable within its type.
LEMMA StepType == TypeOK /\ [Next]_vars => TypeOK'
<1>. SUFFICES ASSUME TypeOK, [Next]_vars PROVE TypeOK'
  OBVIOUS
<1>. USE DEF env, scanner
<1>1. ASSUME Tick PROVE TypeOK'
  BY <1>1, ScannerAssumption DEF Tick, TypeOK, Time
<1>2. ASSUME NEW f \in File, Edit(f) PROVE TypeOK'
  <2>1. ver' \in [File -> 0 .. MaxVer]
    BY <1>2, ScannerAssumption DEF Edit, TypeOK
  <2>2. inc' \in [File -> SUBSET File]
    <3>1. PICK s \in Includes[f] : inc' = [inc EXCEPT ![f] = s]
      BY <1>2 DEF Edit
    <3>2. s \in SUBSET File
      BY ScannerAssumption
    <3>. QED
      BY <3>1, <3>2 DEF TypeOK
  <2>3. mtime' \in [File -> Time \cup {NoFile}]
    BY <1>2 DEF Edit, TypeOK
  <2>. QED
    BY <1>2, <2>1, <2>2, <2>3 DEF Edit, TypeOK
<1>3. ASSUME NEW f \in File, Delete(f) PROVE TypeOK'
  <2>1. ver' \in [File -> 0 .. MaxVer]
    BY <1>3, ScannerAssumption DEF Delete, TypeOK
  <2>2. mtime' \in [File -> Time \cup {NoFile}]
    BY <1>3 DEF Delete, TypeOK
  <2>. QED
    BY <1>3, <2>1, <2>2 DEF Delete, TypeOK
<1>4. ASSUME NEW i \in Item, ChangeCommand(i) PROVE TypeOK'
  BY <1>4 DEF ChangeCommand, TypeOK
<1>5. ASSUME NEW p \in Proc, NEW S \in ItemSets, BeginScan(p, S) PROVE TypeOK'
  <2>1. S \subseteq Item
    BY ScannerAssumption
  <2>2. [items |-> S, cmd |-> cmd] \in [items : SUBSET Item, cmd : [Item -> Cmd \cup {NoCmd}]]
    BY <2>1 DEF TypeOK
  <2>3. cfg' \in [Proc -> [items : SUBSET Item, cmd : [Item -> Cmd \cup {NoCmd}]]]
    BY <1>5, <2>2 DEF BeginScan, TypeOK
  <2>4. StatFiles(db, S) \subseteq File
    BY <2>1, ScannerAssumption DEF StatFiles, TypeOK, Database, Entry
  <2>5. tostat' \in [Proc -> SUBSET File]
    BY <1>5, <2>4 DEF BeginScan, TypeOK
  <2>. QED
    BY <1>5, <2>3, <2>5 DEF BeginScan, TypeOK
<1>6. ASSUME NEW p \in Proc, NEW f \in File, StatFile(p, f) PROVE TypeOK'
  BY <1>6 DEF StatFile, TypeOK
<1>7. ASSUME NEW p \in Proc, ComputeOod(p) PROVE TypeOK'
  <2>1. ood' \in [Proc -> [Item -> OodState]]
    BY <1>7, ItemStateType DEF ComputeOod, TypeOK, OodState
  <2>. QED
    BY <1>7, <2>1 DEF ComputeOod, TypeOK
<1>8. ASSUME NEW p \in Proc, NEW i \in Item, ToolResult(p, i) PROVE TypeOK'
  <2>1. Result(p, i, Output(i)) \in Entry
    BY OutputType, ResultType
  <2>2. got' \in [Proc -> [Item -> Entry]]
    BY <1>8, <2>1 DEF ToolResult, TypeOK
  <2>. QED
    BY <1>8, <2>2 DEF ToolResult, TypeOK
<1>9. ASSUME NEW p \in Proc, NEW i \in Item, ToolDies(p, i) PROVE TypeOK'
  <2>1. PICK out \in SUBSET Output(i) : got' = [got EXCEPT ![p][i] = Result(p, i, out)]
    BY <1>9 DEF ToolDies
  <2>2. Result(p, i, out) \in Entry
    BY OutputType, ResultType
  <2>3. got' \in [Proc -> [Item -> Entry]]
    BY <2>1, <2>2 DEF TypeOK
  <2>. QED
    BY <1>9, <2>3 DEF ToolDies, TypeOK
<1>10. ASSUME NEW p \in Proc, ToolExits(p) PROVE TypeOK'
  BY <1>10 DEF ToolExits, TypeOK
<1>11. ASSUME NEW p \in Proc, UpdateItems(p) PROVE TypeOK'
  <2>1. ASSUME NEW i \in Item
        PROVE  got[p][i] \in Entry /\ data[p].items[i] \in Entry
    BY DEF TypeOK, Database
  <2>2. {FileOf[i] : i \in cfg[p].items} \subseteq File
    BY ScannerAssumption DEF TypeOK
  <2>3. \A i \in Item : got[p][i].reads \subseteq File
    BY <2>1 DEF Entry
  <2>4. UNION {got[p][i].reads : i \in Item} \subseteq File
    BY <2>3
  <2>5. data[p].paths \subseteq File
    BY DEF TypeOK, Database
  <2>6. ASSUME NEW i \in Item PROVE Stamped(got[p][i], now) \in Entry
    BY <2>1, StampedRow DEF TypeOK
  <2>7. [items |-> [i \in Item |-> IF i \in cfg[p].items /\ Updated(p, i)
                                   THEN Stamped(got[p][i], now)
                                   ELSE data[p].items[i]],
         paths |-> data[p].paths \cup {FileOf[i] : i \in cfg[p].items}
                       \cup UNION {got[p][i].reads : i \in Item}] \in Database
    BY <2>1, <2>2, <2>4, <2>5, <2>6 DEF Database
  <2>8. txn' \in [Proc -> Database]
    BY <1>11, <2>7 DEF UpdateItems, TypeOK
  <2>. QED
    BY <1>11, <2>8 DEF UpdateItems, TypeOK
<1>12. ASSUME NEW p \in Proc, Commit(p) PROVE TypeOK'
  <2>1. db' \in Database
    BY <1>12 DEF Commit, TypeOK
  <2>2. failed' \in [Item -> Cmd \cup {NoCmd}]
    BY <1>12 DEF Commit, TypeOK
  <2>. QED
    BY <1>12, <2>1, <2>2, LeaveType DEF Commit, TypeOK
<1>13. ASSUME NEW p \in Proc, Crash(p) PROVE TypeOK'
  BY <1>13, LeaveType DEF Crash, TypeOK
<1>14. ASSUME NEW p \in Proc, NEW S \in ItemSets, Clean(p, S) PROVE TypeOK'
  <2>1. db' \in Database
    BY <1>14, NoEntryType DEF Clean, TypeOK, Database
  <2>2. failed' \in [Item -> Cmd \cup {NoCmd}]
    BY <1>14 DEF Clean, TypeOK
  <2>. QED
    BY <1>14, <2>1, <2>2 DEF Clean, TypeOK
<1>15. ASSUME UNCHANGED vars PROVE TypeOK'
  BY <1>15 DEF vars, TypeOK
<1>. QED
  BY <1>1, <1>2, <1>3, <1>4, <1>5, <1>6, <1>7, <1>8, <1>9, <1>10, <1>11, <1>12,
     <1>13, <1>14, <1>15 DEF Next, UserStep, ScanStep

\* The types of all variables: of the committed database, and of everything the
\* processes inside scan() hold.
THEOREM TypeCorrect == Spec => []TypeOK
  BY InitType, StepType, PTL DEF Spec

-----------------------------------------------------------------------------
(* One writer at a time *)

\* A step of the environment only, or of one process, leaves the other
\* processes' transactions alone, and no process commits while another reads.
LEMMA StepReadIsCurrent == TypeOK /\ ReadIsCurrent /\ [Next]_vars => ReadIsCurrent'
<1>. SUFFICES ASSUME TypeOK, ReadIsCurrent, [Next]_vars PROVE ReadIsCurrent'
  OBVIOUS
<1>. USE DEF env, scanner
<1>1. ASSUME UserStep PROVE ReadIsCurrent'
  BY <1>1 DEF UserStep, Tick, Edit, Delete, ChangeCommand, ReadIsCurrent
<1>2. ASSUME NEW p \in Proc, NEW S \in ItemSets, BeginScan(p, S) PROVE ReadIsCurrent'
  <2>1. \A q \in Proc : pc[q] = "idle"
    BY <1>2, ScannerAssumption DEF BeginScan, ReadIsCurrent
  <2>. QED
    BY <1>2, <2>1 DEF BeginScan, ReadIsCurrent, TypeOK
<1>3. ASSUME NEW p \in Proc, NEW f \in File, StatFile(p, f) PROVE ReadIsCurrent'
  BY <1>3 DEF StatFile, ReadIsCurrent
<1>4. ASSUME NEW p \in Proc, ComputeOod(p) PROVE ReadIsCurrent'
  BY <1>4 DEF ComputeOod, ReadIsCurrent, TypeOK
<1>5. ASSUME NEW p \in Proc, NEW i \in Item, ToolResult(p, i) PROVE ReadIsCurrent'
  BY <1>5 DEF ToolResult, ReadIsCurrent
<1>6. ASSUME NEW p \in Proc, NEW i \in Item, ToolDies(p, i) PROVE ReadIsCurrent'
  BY <1>6 DEF ToolDies, ReadIsCurrent, TypeOK
<1>7. ASSUME NEW p \in Proc, ToolExits(p) PROVE ReadIsCurrent'
  BY <1>7 DEF ToolExits, ReadIsCurrent, TypeOK
<1>8. ASSUME NEW p \in Proc, UpdateItems(p) PROVE ReadIsCurrent'
  BY <1>8 DEF UpdateItems, ReadIsCurrent, TypeOK
<1>9. ASSUME NEW p \in Proc, pc[p] # "idle", Leave(p) PROVE ReadIsCurrent'
  <2>1. \A q \in Proc : q # p => pc[q] = "idle"
    BY <1>9 DEF ReadIsCurrent
  <2>. QED
    BY <1>9, <2>1 DEF Leave, ReadIsCurrent, TypeOK
<1>10. ASSUME NEW p \in Proc, Commit(p) \/ Crash(p) PROVE ReadIsCurrent'
  BY <1>9, <1>10 DEF Commit, Crash
<1>11. ASSUME NEW p \in Proc, NEW S \in ItemSets, Clean(p, S) PROVE ReadIsCurrent'
  <2>1. \A q \in Proc : pc[q] = "idle"
    BY <1>11, ScannerAssumption DEF Clean, ReadIsCurrent
  <2>. QED
    BY <1>11, <2>1 DEF Clean, ReadIsCurrent
<1>12. ASSUME UNCHANGED vars PROVE ReadIsCurrent'
  BY <1>12 DEF vars, ReadIsCurrent
<1>. QED
  BY <1>1, <1>2, <1>3, <1>4, <1>5, <1>6, <1>7, <1>8, <1>10, <1>11, <1>12
  DEF Next, ScanStep

\* However many processes share a database, what a scan reads when it begins is
\* what it updates when it commits.
THEOREM ReadStaysCurrent == Spec => []ReadIsCurrent
<1>1. Init => ReadIsCurrent
  BY DEF Init, ReadIsCurrent
<1>. QED
  BY <1>1, StepReadIsCurrent, TypeCorrect, PTL DEF Spec

-----------------------------------------------------------------------------
(* Rows against the files they were made from *)

\* What one step of the system does to the clock and the files: an edit makes a
\* new version and leaves a write time that is not in the past.
EnvLater ==
    /\ now <= now'
    /\ \A f \in File : \/ ver'[f] = ver[f] /\ mtime'[f] = mtime[f]
                       \/ ver'[f] > ver[f] /\ mtime'[f] >= now

LEMMA StepEnvLater == TypeOK /\ [Next]_vars => EnvLater
<1>. SUFFICES ASSUME TypeOK, [Next]_vars PROVE EnvLater
  OBVIOUS
<1>0. now \in Nat /\ MaxTime \in Nat /\ now <= MaxTime
  BY ScannerAssumption DEF TypeOK, Time
<1>1. \A f \in File : ver[f] \in Nat
  BY ScannerAssumption DEF TypeOK
<1>2. ASSUME UNCHANGED env PROVE EnvLater
  BY <1>2, <1>0 DEF env, EnvLater
<1>3. ASSUME Tick PROVE EnvLater
  BY <1>3, <1>0 DEF Tick, EnvLater
<1>4. ASSUME NEW f \in File, Edit(f) PROVE EnvLater
  BY <1>4, <1>0, <1>1 DEF Edit, EnvLater, TypeOK
<1>5. ASSUME NEW f \in File, Delete(f) PROVE EnvLater
  BY <1>5, <1>0, <1>1 DEF Delete, EnvLater, TypeOK, NoFile
<1>6. ASSUME NEW i \in Item, ChangeCommand(i) PROVE EnvLater
  BY <1>6, <1>0 DEF ChangeCommand, EnvLater
<1>7. ASSUME NEW p \in Proc, ScanStep(p) PROVE UNCHANGED env
  BY <1>7 DEF ScanStep, StatFile, ComputeOod, ToolResult, ToolDies, ToolExits,
              UpdateItems, Commit
<1>8. ASSUME NEW p \in Proc, NEW S \in ItemSets,
             Crash(p) \/ BeginScan(p, S) \/ Clean(p, S) PROVE UNCHANGED env
  BY <1>8 DEF Crash, BeginScan, Clean
<1>9. ASSUME NEW p \in Proc, Crash(p) PROVE UNCHANGED env
  BY <1>9 DEF Crash
<1>10. ASSUME UNCHANGED vars PROVE UNCHANGED env
  BY <1>10 DEF vars, env
<1>. QED
  BY <1>2, <1>3, <1>4, <1>5, <1>6, <1>7, <1>8, <1>9, <1>10 DEF Next, UserStep

\* A correct row stays correct when time passes and files change.
LEMMA RowStable ==
  ASSUME NEW i \in Item, NEW e \in Entry, TypeOK, TypeOK', EnvLater,
         RowOK(i, e, now, ver, mtime)
  PROVE  RowOK(i, e, now', ver', mtime')
<1>1. e.readAt \in Nat /\ now \in Nat /\ now' \in Nat /\ e.readAt <= now
  BY ScannerAssumption DEF Entry, TypeOK, Time, RowOK
<1>2. e.reads \subseteq File
  BY DEF Entry
<1>3. ASSUME NEW f \in File
      PROVE  /\ e.seen[f] \in Nat /\ ver[f] \in Nat /\ ver'[f] \in Nat
             /\ mtime[f] \in Nat /\ mtime'[f] \in Nat
  BY ScannerAssumption DEF Entry, TypeOK, Time, NoFile
<1>4. ASSUME NEW f \in e.reads,
             \/ e.seen[f] = ver[f] /\ mtime[f] <= e.readAt
             \/ e.seen[f] < ver[f] /\ mtime[f] >= e.readAt
      PROVE  \/ e.seen[f] = ver'[f] /\ mtime'[f] <= e.readAt
             \/ e.seen[f] < ver'[f] /\ mtime'[f] >= e.readAt
  BY <1>1, <1>2, <1>3, <1>4 DEF EnvLater
<1>. QED
  BY <1>1, <1>4 DEF RowOK, EnvLater

\* What the tool reports of an item is true of its files at that moment.
LEMMA ResultRow ==
  ASSUME TypeOK, RowsOK, NEW p \in Proc, NEW i \in Item, Readable(i),
         NEW out \in SUBSET Output(i)
  PROVE  /\ RowOK(i, Result(p, i, out), now, ver, mtime)
         /\ Result(p, i, out).readAt = now
<1>. DEFINE r == Result(p, i, out)
<1>1. /\ r.readAt = now
      /\ r.reads = out \cup {FileOf[i]}
      /\ r.fdeps = {f \in out : HuLookup(p, f) = {}}
      /\ r.ideps = UNION {HuLookup(p, f) : f \in out}
      /\ r.seen = [f \in File |-> IF f \in out \cup {FileOf[i]} THEN ver[f] ELSE 0]
  BY DEF Result
<1>2. {FileOf[j] : j \in r.ideps} = {f \in out : HuLookup(p, f) # {}}
  <2>1. ASSUME NEW f \in out, NEW j \in HuLookup(p, f) PROVE FileOf[j] = f /\ j \in r.ideps
    BY <1>1, <2>1 DEF HuLookup
  <2>2. ASSUME NEW j \in r.ideps PROVE \E f \in out : j \in HuLookup(p, f)
    BY <1>1
  <2>. QED
    BY <2>1, <2>2
<1>3. r.reads = {FileOf[i]} \cup r.fdeps \cup {FileOf[j] : j \in r.ideps}
  BY <1>1, <1>2
<1>4. r.reads \subseteq File /\ now \in Nat
  BY <1>1, OutputType, ScannerAssumption DEF TypeOK, Time
<1>5. ASSUME NEW f \in r.reads PROVE r.seen[f] = ver[f] /\ mtime[f] <= r.readAt
  BY <1>1, <1>4 DEF Readable, RowsOK
<1>6. r.readAt <= now
  BY <1>1, <1>4
<1>. HIDE DEF r
<1>7. RowOK(i, r, now, ver, mtime)
  BY <1>3, <1>5, <1>6 DEF RowOK
<1>. QED
  BY <1>1, <1>7 DEF r

\* Rows stay correct: those the tool has just reported, those written but not
\* yet committed, and those committed.
LEMMA StepRowsOK == IInv /\ [Next]_vars => RowsOK'
<1>. SUFFICES ASSUME IInv, [Next]_vars PROVE RowsOK'
  OBVIOUS
<1>1. TypeOK /\ TypeOK' /\ EnvLater /\ ReadIsCurrent /\ RowsOK
  BY StepType, StepEnvLater DEF IInv
<1>2. /\ \A i \in Item : db.items[i] \in Entry
      /\ \A p \in Proc, i \in Item : /\ got[p][i] \in Entry /\ txn[p].items[i] \in Entry
                                     /\ data[p].items[i] \in Entry
  BY <1>1 DEF TypeOK, Database
<1>3. now \in Nat /\ now' \in Nat /\ now <= now'
  BY <1>1, ScannerAssumption DEF TypeOK, Time, EnvLater
<1>4. ASSUME NEW i \in Item, NEW e \in Entry, RowOK(i, e, now, ver, mtime)
      PROVE  RowOK(i, e, now', ver', mtime')
  BY <1>1, <1>4, RowStable
<1>5. ASSUME NEW i \in Item, NEW e \in Entry,
             RowOK(i, e, now, ver, mtime), e.readAt <= e.lss, e.lss <= now
      PROVE  RowOK(i, e, now', ver', mtime') /\ e.readAt <= e.lss /\ e.lss <= now'
  BY <1>3, <1>4, <1>5, ScannerAssumption DEF Entry, Time
<1>6. ASSUME NEW i \in Item, NEW n \in Nat
      PROVE  /\ RowOK(i, NoEntry, n, ver', mtime') /\ ~Present(NoEntry)
             /\ NoEntry.readAt = 0 /\ NoEntry.lss = 0
  BY DEF RowOK, NoEntry, Present
<1>7. \A f \in File : mtime'[f] <= now' \/ mtime'[f] = NoFile
  <2>1. \A f \in File : mtime[f] \in Nat
    BY <1>1, ScannerAssumption DEF TypeOK, Time, NoFile
  <2>2. ASSUME UNCHANGED <<now, mtime>> PROVE \A f \in File : mtime'[f] <= now' \/ mtime'[f] = NoFile
    BY <1>1, <2>2 DEF RowsOK
  <2>3. ASSUME UserStep PROVE \A f \in File : mtime'[f] <= now' \/ mtime'[f] = NoFile
    BY <1>1, <1>3, <2>1, <2>3 DEF UserStep, Tick, Edit, Delete, ChangeCommand, RowsOK, TypeOK
  <2>4. UserStep \/ UNCHANGED <<now, mtime>>
    BY DEF Next, ScanStep, StatFile, ComputeOod, ToolResult, ToolDies, ToolExits,
           UpdateItems, Commit, Crash, BeginScan, Clean, env, vars
  <2>. QED
    BY <2>2, <2>3, <2>4
<1>8. ASSUME UNCHANGED <<db, got, data, txn, pc>> PROVE RowsOK'
  BY <1>1, <1>2, <1>4, <1>5, <1>7, <1>8 DEF RowsOK, SavedRowOK
<1>9. ASSUME UserStep \/ (\E p \in Proc, f \in File : StatFile(p, f)) \/ UNCHANGED vars
      PROVE  RowsOK'
  BY <1>8, <1>9 DEF UserStep, Tick, Edit, Delete, ChangeCommand, StatFile, scanner, vars
<1>10. ASSUME NEW p \in Proc, NEW S \in ItemSets, BeginScan(p, S) PROVE RowsOK'
  BY <1>1, <1>2, <1>4, <1>5, <1>7, <1>10 DEF BeginScan, RowsOK, SavedRowOK, TypeOK
<1>11. ASSUME NEW p \in Proc, ComputeOod(p) \/ ToolExits(p) PROVE RowsOK'
  BY ZenonT(30), <1>1, <1>2, <1>4, <1>5, <1>7, <1>11 DEF ComputeOod, ToolExits, RowsOK, SavedRowOK, TypeOK
<1>12. ASSUME NEW p \in Proc, NEW i \in Item, ToolResult(p, i) \/ ToolDies(p, i)
       PROVE  RowsOK'
  <2>1. PICK out \in SUBSET Output(i) : got' = [got EXCEPT ![p][i] = Result(p, i, out)]
    BY <1>12 DEF ToolResult, ToolDies
  <2>2. /\ UNCHANGED <<env, db, lock, cfg, data, tostat, lwt, ood, txn, failed>>
        /\ Readable(i) /\ pc[p] = "scan"
        /\ pc' = pc \/ pc' = [pc EXCEPT ![p] = "update"]
    BY <1>12 DEF ToolResult, ToolDies
  <2>3. Result(p, i, out) \in Entry
    BY <1>1, OutputType, ResultType
  <2>4. /\ RowOK(i, Result(p, i, out), now, ver, mtime)
        /\ Result(p, i, out).readAt = now
    BY <1>1, <2>2, ResultRow
  <2>5. data[p].items[i].readAt <= now
    BY <1>1, <1>2, <2>2 DEF ReadIsCurrent, RowsOK, SavedRowOK, RowOK
  <2>6. ASSUME NEW q \in Proc, NEW j \in Item
        PROVE  /\ RowOK(j, got'[q][j], now', ver', mtime')
               /\ Present(got'[q][j]) => /\ pc'[q] \notin {"idle", "stat"}
                                         /\ got'[q][j].readAt >= data'[q].items[j].readAt
    <3>1. CASE q = p /\ j = i
      BY <1>1, <1>3, <1>4, <2>1, <2>2, <2>3, <2>4, <2>5, <3>1 DEF TypeOK, env
    <3>2. CASE q # p \/ j # i
      <4>1. got'[q][j] = got[q][j]
        BY <1>1, <2>1, <3>2 DEF TypeOK
      <4>. QED
        BY <1>1, <1>2, <1>4, <2>2, <4>1 DEF TypeOK, RowsOK
    <3>. QED
      BY <3>1, <3>2
  <2>7. \A q \in Proc : pc'[q] = "commit" => pc[q] = "commit"
    BY <1>1, <2>2 DEF TypeOK
  <2>. QED
    BY <1>1, <1>2, <1>5, <1>7, <2>2, <2>6, <2>7 DEF RowsOK, SavedRowOK
<1>13. ASSUME NEW p \in Proc, UpdateItems(p) PROVE RowsOK'
  <2>1. /\ UNCHANGED <<env, db, data, got>> /\ pc[p] = "update"
        /\ pc' = [pc EXCEPT ![p] = "commit"]
        /\ \A q \in Proc : q # p => txn'[q] = txn[q]
    BY <1>1, <1>13 DEF UpdateItems, TypeOK
  <2>2. ASSUME NEW i \in Item
        PROVE  /\ SavedRowOK(i, txn'[p].items[i])
               /\ txn'[p].items[i].readAt >= data[p].items[i].readAt
    <3>1. \/ txn'[p].items[i] = Stamped(got[p][i], now) /\ Present(got[p][i])
          \/ txn'[p].items[i] = data[p].items[i]
      BY <1>1, <1>13 DEF UpdateItems, TypeOK, Updated, GotResult
    <3>2. CASE txn'[p].items[i] = Stamped(got[p][i], now) /\ Present(got[p][i])
      <4>. DEFINE e == got[p][i]
      <4>1. e \in Entry /\ RowOK(i, e, now, ver, mtime) /\ Present(e)
            /\ e.readAt >= data[p].items[i].readAt /\ e.readAt <= now
        BY <1>1, <1>2, <3>2 DEF RowsOK, RowOK
      <4>2. Stamped(e, now) = [lss |-> now, cmd |-> e.cmd, fdeps |-> e.fdeps,
                               ideps |-> e.ideps, reads |-> e.reads, seen |-> e.seen,
                               readAt |-> e.readAt]
        BY <1>1, <4>1, StampedRow DEF TypeOK
      <4>. HIDE DEF e
      <4>3. SavedRowOK(i, Stamped(e, now))
        BY <1>3, <4>1, <4>2 DEF SavedRowOK, RowOK, Present
      <4>. QED
        BY <3>2, <4>1, <4>2, <4>3 DEF e
    <3>3. CASE txn'[p].items[i] = data[p].items[i]
      <4>1. data[p].items[i].readAt \in Nat
        BY <1>2, ScannerAssumption DEF Entry, Time
      <4>. QED
        BY <1>1, <2>1, <3>3, <4>1 DEF ReadIsCurrent, RowsOK
    <3>. QED
      BY <3>1, <3>2, <3>3
  <2>3. \A i \in Item : txn'[p].items[i] \in Entry
    BY <1>1 DEF TypeOK, Database
  <2>4. \A q \in Proc : pc'[q] = "commit" => q = p \/ pc[q] = "commit"
    BY <1>1, <2>1 DEF TypeOK
  <2>5. \A q \in Proc : pc'[q] \in {"idle", "stat"} => pc[q] \in {"idle", "stat"}
    BY <1>1, <2>1 DEF TypeOK
  <2>. QED
    BY <1>1, <1>2, <1>4, <1>5, <1>7, <2>1, <2>2, <2>3, <2>4, <2>5 DEF RowsOK, SavedRowOK
<1>14. ASSUME NEW p \in Proc, Leave(p), UNCHANGED env,
              \A i \in Item : db'.items[i] \in Entry /\ SavedRowOK(i, db'.items[i])
       PROVE  RowsOK'
  <2>1. \A i \in Item : got'[p][i] = NoEntry
    BY <1>1, <1>14 DEF Leave, TypeOK
  <2>2. \A q \in Proc : q # p => /\ pc'[q] = pc[q] /\ got'[q] = got[q]
                                 /\ txn'[q] = txn[q] /\ data'[q] = data[q]
    BY <1>1, <1>14 DEF Leave, TypeOK
  <2>3. pc'[p] = "idle"
    BY <1>1, <1>14 DEF Leave, TypeOK
  <2>4. ASSUME NEW q \in Proc, NEW i \in Item
        PROVE  /\ RowOK(i, got'[q][i], now', ver', mtime')
               /\ Present(got'[q][i]) => /\ pc'[q] \notin {"idle", "stat"}
                                         /\ got'[q][i].readAt >= data'[q].items[i].readAt
    BY <1>1, <1>2, <1>3, <1>4, <1>6, <2>1, <2>2 DEF RowsOK
  <2>. QED
    BY <1>1, <1>2, <1>5, <1>7, <1>14, <2>2, <2>3, <2>4 DEF RowsOK, SavedRowOK
<1>15. ASSUME NEW p \in Proc, Commit(p) PROVE RowsOK'
  <2>1. \A i \in Item : db'.items[i] \in Entry /\ SavedRowOK(i, db'.items[i])
    BY <1>1, <1>2, <1>15 DEF Commit, RowsOK
  <2>. QED
    BY <1>14, <1>15, <2>1 DEF Commit
<1>16. ASSUME NEW p \in Proc, Crash(p) PROVE RowsOK'
  <2>1. \A i \in Item : db'.items[i] \in Entry /\ SavedRowOK(i, db'.items[i])
    BY <1>1, <1>2, <1>16 DEF Crash, RowsOK
  <2>. QED
    BY <1>14, <1>16, <2>1 DEF Crash
<1>17. ASSUME NEW p \in Proc, NEW S \in ItemSets, Clean(p, S) PROVE RowsOK'
  <2>1. /\ UNCHANGED <<now, ver, mtime, data, got, pc, txn>>
        /\ \A i \in Item : db'.items[i] = NoEntry \/ db'.items[i] = db.items[i]
    BY <1>17 DEF Clean, env, scanner
  <2>2. ASSUME NEW i \in Item PROVE SavedRowOK(i, db.items[i])'
    BY <1>1, <1>3, <1>6, <2>1, <2>2 DEF RowsOK, SavedRowOK
  <2>. QED
    BY <1>1, <1>7, <2>1, <2>2 DEF RowsOK, SavedRowOK
<1>. QED
  BY <1>9, <1>10, <1>11, <1>12, <1>13, <1>15, <1>16, <1>17 DEF Next, ScanStep

-----------------------------------------------------------------------------
(* Timestamps, decisions and paths *)

\* Inside scan(), only stat-ing changes the stat-ed times, and what was read at
\* the beginning does not change.
LEMMA StepScanFrame ==
  ASSUME TypeOK, [Next]_vars, NEW p \in Proc, pc[p] # "idle", pc'[p] # "idle"
  PROVE  /\ UNCHANGED <<data[p], cfg[p]>>
         /\ \/ UNCHANGED <<lwt[p], tostat[p]>>
            \/ \E f \in tostat[p] : /\ pc[p] = "stat" /\ pc'[p] = "stat"
                                    /\ lwt'[p] = [lwt[p] EXCEPT ![f] = mtime[f]]
                                    /\ tostat'[p] = tostat[p] \ {f}
         /\ \/ UNCHANGED ood[p] /\ (pc[p] = "stat" <=> pc'[p] = "stat")
            \/ pc[p] = "stat" /\ ComputeOod(p)
<1>. USE DEF env, scanner
<1>1. CASE UserStep \/ UNCHANGED vars
  BY <1>1 DEF UserStep, Tick, Edit, Delete, ChangeCommand, vars
<1>2. ASSUME NEW q \in Proc, NEW S \in ItemSets, BeginScan(q, S) \/ Clean(q, S)
      PROVE  UNCHANGED <<data[p], cfg[p], lwt[p], tostat[p], ood[p], pc[p]>>
  BY <1>2 DEF BeginScan, Clean, TypeOK
<1>3. ASSUME NEW q \in Proc, q # p, ScanStep(q)
      PROVE  UNCHANGED <<data[p], cfg[p], lwt[p], tostat[p], ood[p], pc[p]>>
  BY <1>3 DEF ScanStep, StatFile, ComputeOod, ToolResult, ToolDies, ToolExits,
              UpdateItems, Commit, Leave, TypeOK
<1>4. ASSUME NEW q \in Proc, Crash(q)
      PROVE  UNCHANGED <<data[p], cfg[p], lwt[p], tostat[p], ood[p], pc[p]>>
  BY <1>4 DEF Crash, Leave, TypeOK
<1>5. ASSUME NEW f \in File, StatFile(p, f)
      PROVE  /\ UNCHANGED <<data[p], cfg[p], ood[p], pc[p]>>
             /\ f \in tostat[p] /\ pc[p] = "stat"
             /\ lwt'[p] = [lwt[p] EXCEPT ![f] = mtime[f]]
             /\ tostat'[p] = tostat[p] \ {f}
  BY <1>5 DEF StatFile, TypeOK
<1>6. ASSUME ComputeOod(p)
      PROVE  UNCHANGED <<data[p], cfg[p], lwt[p], tostat[p]>> /\ pc[p] = "stat"
  BY <1>6 DEF ComputeOod
<1>7. ASSUME ScanStep(p), ~ComputeOod(p), ~(\E f \in File : StatFile(p, f))
      PROVE  /\ UNCHANGED <<data[p], cfg[p], lwt[p], tostat[p], ood[p]>>
             /\ pc[p] # "stat" /\ pc'[p] # "stat"
  BY <1>7 DEF ScanStep, ToolResult, ToolDies, ToolExits, UpdateItems, Commit,
              Leave, TypeOK
<1>8. ASSUME NEW q \in Proc, ScanStep(q) PROVE q # p \/ ScanStep(p)
  BY <1>8
<1>. QED
  BY <1>1, <1>2, <1>3, <1>4, <1>5, <1>6, <1>7, <1>8 DEF Next

\* A process that was idle has decided nothing yet.
LEMMA StepEnters ==
  ASSUME TypeOK, [Next]_vars, NEW p \in Proc, pc[p] = "idle", pc'[p] # "idle"
  PROVE  /\ pc'[p] = "stat"
         /\ tostat'[p] = StatFiles(data'[p], cfg'[p].items)
<1>. USE DEF env, scanner
<1>1. ASSUME NEW S \in ItemSets, BeginScan(p, S)
      PROVE  pc'[p] = "stat" /\ tostat'[p] = StatFiles(data'[p], cfg'[p].items)
  BY <1>1 DEF BeginScan, TypeOK
<1>2. ASSUME NEW q \in Proc, ~(\E S \in ItemSets : BeginScan(p, S)),
             \/ UserStep \/ UNCHANGED vars \/ ScanStep(q) \/ Crash(q)
             \/ \E S \in ItemSets : BeginScan(q, S) \/ Clean(q, S)
      PROVE  pc'[p] = pc[p]
  BY <1>2 DEF UserStep, Tick, Edit, Delete, ChangeCommand, vars, ScanStep, StatFile,
     ComputeOod, ToolResult, ToolDies, ToolExits, UpdateItems, Commit, Crash, Leave,
     BeginScan, Clean, TypeOK
<1>. QED
  BY <1>1, <1>2 DEF Next

LEMMA StepStatsOK == IInv /\ [Next]_vars => StatsOK'
<1>. SUFFICES ASSUME IInv, [Next]_vars, NEW p \in Proc, pc'[p] # "idle"
              PROVE  /\ pc'[p] # "stat" => tostat'[p] = {}
                     /\ \A i \in cfg'[p].items : LET e == data'[p].items[i] IN
                          \A f \in ({FileOf[i]} \cup e.fdeps) \ tostat'[p] :
                              f \in e.reads /\ ver'[f] = e.seen[f] => lwt'[p][f] <= e.readAt
  BY DEF StatsOK
<1>1. TypeOK /\ TypeOK' /\ EnvLater /\ ReadIsCurrent /\ RowsOK /\ StatsOK
  BY StepType, StepEnvLater DEF IInv
<1>2. CASE pc[p] = "idle"
  BY <1>1, <1>2, StepEnters DEF StatFiles
<1>3. CASE pc[p] # "idle"
  <2>1. /\ UNCHANGED <<data[p], cfg[p]>>
        /\ \/ UNCHANGED <<lwt[p], tostat[p]>>
           \/ \E f \in tostat[p] : /\ pc[p] = "stat" /\ pc'[p] = "stat"
                                   /\ lwt'[p] = [lwt[p] EXCEPT ![f] = mtime[f]]
                                   /\ tostat'[p] = tostat[p] \ {f}
        /\ (pc[p] = "stat" <=> pc'[p] = "stat") \/ ComputeOod(p)
    BY <1>1, <1>3, StepScanFrame
  <2>2. data[p] = db
    BY <1>1, <1>3 DEF ReadIsCurrent
  <2>3. pc'[p] # "stat" => tostat'[p] = {}
    BY <1>1, <1>3, <2>1 DEF StatsOK, ComputeOod
  <2>4. ASSUME NEW i \in cfg[p].items,
               NEW f \in ({FileOf[i]} \cup data[p].items[i].fdeps) \ tostat'[p],
               f \in data[p].items[i].reads, ver'[f] = data[p].items[i].seen[f]
        PROVE  lwt'[p][f] <= data[p].items[i].readAt
    <3>. DEFINE e == data[p].items[i]
    <3>1. i \in Item /\ e \in Entry /\ f \in File
      BY <1>1, <2>4 DEF TypeOK, Database, Entry
    <3>2. e.seen[f] \in Nat /\ ver[f] \in Nat /\ ver'[f] \in Nat
      BY <1>1, <3>1, ScannerAssumption DEF TypeOK, Entry
    <3>3. \/ e.seen[f] = ver[f] /\ mtime[f] <= e.readAt
          \/ e.seen[f] < ver[f]
      BY <1>1, <2>2, <2>4, <3>1 DEF RowsOK, SavedRowOK, RowOK, Present
    <3>4. ver[f] = e.seen[f] /\ mtime[f] <= e.readAt
      BY <1>1, <2>4, <3>1, <3>2, <3>3 DEF EnvLater
    <3>5. CASE f \notin tostat[p] /\ lwt'[p][f] = lwt[p][f]
      BY <1>1, <1>3, <2>4, <3>4, <3>5 DEF StatsOK
    <3>6. CASE lwt'[p][f] = mtime[f]
      BY <3>4, <3>6
    <3>. QED
      BY <1>1, <2>1, <2>4, <3>1, <3>5, <3>6 DEF TypeOK
  <2>. QED
    BY <2>1, <2>3, <2>4
<1>. QED
  BY <1>2, <1>3

LEMMA StepDecisionOK == IInv /\ [Next]_vars => DecisionOK'
<1>. SUFFICES ASSUME IInv, [Next]_vars, NEW p \in Proc,
                     pc'[p] \in {"scan", "update", "commit"}, NEW i \in cfg'[p].items
              PROVE  ood'[p][i] = ItemState(data'[p], cfg'[p], lwt'[p], i)
  BY DEF DecisionOK
<1>1. TypeOK /\ TypeOK' /\ DecisionOK
  BY StepType DEF IInv
<1>2. i \in Item
  BY <1>1 DEF TypeOK
<1>3. pc[p] # "idle" /\ pc'[p] # "idle"
  BY <1>1, StepEnters
<1>4. /\ UNCHANGED <<data[p], cfg[p]>>
      /\ UNCHANGED lwt[p] \/ pc'[p] = "stat"
      /\ \/ UNCHANGED ood[p] /\ (pc[p] = "stat" <=> pc'[p] = "stat")
         \/ ComputeOod(p)
  BY <1>1, <1>3, StepScanFrame
<1>5. CASE ComputeOod(p)
  BY <1>1, <1>2, <1>5 DEF ComputeOod, TypeOK
<1>6. CASE UNCHANGED ood[p] /\ pc[p] # "stat"
  <2>1. pc[p] \in {"scan", "update", "commit"}
    BY <1>1, <1>3, <1>6 DEF TypeOK
  <2>. QED
    BY <1>1, <1>4, <1>6, <2>1 DEF DecisionOK
<1>. QED
  BY <1>4, <1>5, <1>6

LEMMA StepPathsOK == IInv /\ [Next]_vars => PathsOK'
<1>. SUFFICES ASSUME IInv, [Next]_vars PROVE PathsOK'
  OBVIOUS
<1>. USE DEF env, scanner
<1>1. TypeOK /\ TypeOK' /\ ReadIsCurrent /\ PathsOK
  BY StepType DEF IInv
<1>2. ASSUME UNCHANGED <<db, txn>>, \A p \in Proc : pc'[p] = "commit" => pc[p] = "commit"
      PROVE  PathsOK'
  BY <1>1, <1>2 DEF PathsOK
<1>3. ASSUME UserStep \/ UNCHANGED vars PROVE PathsOK'
  BY <1>2, <1>3 DEF UserStep, Tick, Edit, Delete, ChangeCommand, vars
<1>4. ASSUME NEW p \in Proc, NEW S \in ItemSets, BeginScan(p, S) PROVE PathsOK'
  BY <1>1, <1>2, <1>4 DEF BeginScan, TypeOK
<1>5. ASSUME NEW p \in Proc,
             \/ (\E f \in File : StatFile(p, f)) \/ ComputeOod(p) \/ ToolExits(p)
             \/ (\E i \in Item : ToolResult(p, i) \/ ToolDies(p, i))
      PROVE  PathsOK'
  BY <1>1, <1>2, <1>5 DEF StatFile, ComputeOod, ToolExits, ToolResult, ToolDies, TypeOK
<1>6. ASSUME NEW p \in Proc, UpdateItems(p) PROVE PathsOK'
  <2>1. data[p] = db
    BY <1>1, <1>6 DEF ReadIsCurrent, UpdateItems
  <2>2. /\ txn'[p].paths = data[p].paths \cup {FileOf[i] : i \in cfg[p].items}
                               \cup UNION {got[p][i].reads : i \in Item}
        /\ \A i \in Item : \/ txn'[p].items[i] = Stamped(got[p][i], now)
                           \/ txn'[p].items[i] = data[p].items[i]
    BY <1>1, <1>6 DEF UpdateItems, TypeOK
  <2>3. ASSUME NEW i \in Item PROVE Stamped(got[p][i], now).reads = got[p][i].reads
    BY <1>1, StampedRow DEF TypeOK
  <2>4. ASSUME NEW i \in Item PROVE got[p][i].reads \subseteq txn'[p].paths
    BY <2>2
  <2>5. KnownIn(txn'[p])
    BY <1>1, <2>1, <2>2, <2>3, <2>4 DEF PathsOK, KnownIn
  <2>6. UNCHANGED db /\ \A q \in Proc : q # p => UNCHANGED <<txn[q], pc[q]>>
    BY <1>1, <1>6 DEF UpdateItems, TypeOK
  <2>. QED
    BY <1>1, <2>5, <2>6 DEF PathsOK
<1>7. ASSUME NEW p \in Proc, Commit(p) \/ Crash(p) PROVE PathsOK'
  <2>1. KnownIn(db')
    BY <1>1, <1>7 DEF Commit, Crash, PathsOK
  <2>2. \A q \in Proc : q # p => UNCHANGED <<txn[q], pc[q]>>
    BY <1>1, <1>7 DEF Commit, Crash, Leave, TypeOK
  <2>3. pc'[p] = "idle"
    BY <1>1, <1>7 DEF Commit, Crash, Leave, TypeOK
  <2>. QED
    BY <1>1, <2>1, <2>2, <2>3 DEF PathsOK
<1>8. ASSUME NEW p \in Proc, NEW S \in ItemSets, Clean(p, S) PROVE PathsOK'
  <2>1. KnownIn(db')
    BY <1>1, <1>8 DEF Clean, PathsOK, KnownIn, NoEntry
  <2>. QED
    BY <1>1, <1>8, <2>1 DEF Clean, PathsOK
<1>. QED
  BY <1>3, <1>4, <1>5, <1>6, <1>7, <1>8 DEF Next, ScanStep

-----------------------------------------------------------------------------
(* The inductive invariant *)

LEMMA InitIInv == Init => IInv
<1>. SUFFICES ASSUME Init PROVE IInv
  OBVIOUS
<1>1. TypeOK
  BY InitType
<1>2. ReadIsCurrent /\ StatsOK /\ DecisionOK
  BY DEF Init, ReadIsCurrent, StatsOK, DecisionOK
<1>3. \A i \in Item : SavedRowOK(i, NoEntry) /\ RowOK(i, NoEntry, now, ver, mtime)
  BY DEF Init, SavedRowOK, RowOK, NoEntry, Present
<1>4. ~Present(NoEntry)
  BY DEF NoEntry, Present
<1>5. RowsOK
  <2>1. \A f \in File : mtime[f] <= now
    BY DEF Init
  <2>2. \A i \in Item : db.items[i] = NoEntry
    BY DEF Init, EmptyDb
  <2>3. \A p \in Proc : pc[p] = "idle" /\ \A i \in Item : got[p][i] = NoEntry
    BY DEF Init
  <2>. QED
    BY <1>3, <1>4, <2>1, <2>2, <2>3 DEF RowsOK
<1>6. PathsOK
  BY DEF Init, PathsOK, KnownIn, EmptyDb, NoEntry
<1>. QED
  BY <1>1, <1>2, <1>5, <1>6 DEF IInv

\* The invariant from which the safety properties follow.
THEOREM Invariance == Spec => []IInv
<1>1. IInv /\ [Next]_vars => IInv'
  BY StepType, StepReadIsCurrent, StepRowsOK, StepStatsOK, StepDecisionOK, StepPathsOK
  DEF IInv
<1>. QED
  BY <1>1, InitIInv, PTL DEF Spec

-----------------------------------------------------------------------------
(* What an up-to-date answer is worth *)

\* An item declared up to date was not overtaken by its own file or its include
\* dependencies, nor were the items it depends on.
LEMMA UpToDateMeans ==
  ASSUME NEW d, NEW c, NEW w, NEW i \in c.items, ItemState(d, c, w, i) = "up_to_date"
  PROVE  /\ ~(w[FileOf[i]] > d.items[i].lss)
         /\ \A f \in d.items[i].fdeps : ~(w[f] > d.items[i].lss)
         /\ \A j \in d.items[i].ideps : ~(w[FileOf[j]] > d.items[j].lss)
<1>1. OwnState(d, c, w, i) \in {"up_to_date", "unknown"}
  BY DEF ItemState
<1>2. ASSUME NEW j, OwnState(d, c, w, j) \in {"up_to_date", "unknown"}
      PROVE  /\ ~(w[FileOf[j]] > d.items[j].lss)
             /\ \A f \in d.items[j].fdeps : ~(w[f] > d.items[j].lss)
             /\ OwnState(d, c, w, j) = "up_to_date" => d.items[j].ideps = {}
  BY <1>2 DEF OwnState
<1>3. CASE OwnState(d, c, w, i) = "up_to_date"
  BY <1>2, <1>3
<1>4. CASE OwnState(d, c, w, i) = "unknown"
  <2>1. i \in Undecided(d, c, w) /\ i \notin ItemDepsChanged(d, c, w)
    BY <1>4 DEF Undecided, ItemState
  <2>2. PICK X \in SUBSET Undecided(d, c, w) : DepClosed(d, c, w, X) /\ i \notin X
    BY <2>1 DEF ItemDepsChanged
  <2>3. \A j \in d.items[i].ideps : ~Forces(d, c, w, j)
    BY <2>1, <2>2 DEF DepClosed
  <2>4. \A j \in d.items[i].ideps : OwnState(d, c, w, j) \in {"up_to_date", "unknown"}
    BY <2>3 DEF Forces
  <2>. QED
    BY <1>1, <1>2, <2>4
<1>. QED
  BY <1>1, <1>3, <1>4

\* In every state the invariant describes, a stale answer has one of the two
\* causes StaleExplained names.
LEMMA InvStaleExplained == IInv => StaleExplained
<1>. SUFFICES ASSUME IInv, NEW p \in Proc, NEW i \in Item, UpToDate(p, i),
                     NEW f \in data[p].items[i].reads,
                     ver[f] # data[p].items[i].seen[f], mtime[f] = lwt[p][f]
              PROVE  \/ /\ data[p].items[i].readAt <= mtime[f]
                        /\ mtime[f] <= data[p].items[i].lss
                     \/ \E j \in data[p].items[i].ideps :
                          /\ FileOf[j] = f
                          /\ data[p].items[i].lss < mtime[f]
                          /\ mtime[f] <= data[p].items[j].lss
  BY DEF StaleExplained
<1>. DEFINE e == data[p].items[i]
<1>1. TypeOK /\ ReadIsCurrent /\ RowsOK /\ DecisionOK
  BY DEF IInv
<1>2. data[p] = db /\ i \in cfg[p].items
  BY <1>1 DEF ReadIsCurrent, UpToDate
<1>3. ItemState(data[p], cfg[p], lwt[p], i) = "up_to_date"
  BY <1>1 DEF DecisionOK, UpToDate
<1>4. /\ ~(lwt[p][FileOf[i]] > e.lss)
      /\ \A g \in e.fdeps : ~(lwt[p][g] > e.lss)
      /\ \A j \in e.ideps : ~(lwt[p][FileOf[j]] > data[p].items[j].lss)
  BY <1>2, <1>3, UpToDateMeans
<1>5. e \in Entry /\ f \in File /\ e.ideps \subseteq Item
  BY <1>1 DEF TypeOK, Database, Entry
<1>6. /\ e.reads = {FileOf[i]} \cup e.fdeps \cup {FileOf[j] : j \in e.ideps}
      /\ mtime[f] >= e.readAt
  BY <1>1, <1>2 DEF RowsOK, SavedRowOK, RowOK, Present
<1>7. mtime[f] \in Nat /\ e.lss \in Nat /\ \A j \in Item : data[p].items[j].lss \in Nat
  BY <1>1, <1>5, ScannerAssumption DEF TypeOK, Database, Entry, Time, NoFile
<1>8. e.readAt \in Nat
  BY <1>5, ScannerAssumption DEF Entry, Time
<1>9. CASE f = FileOf[i] \/ f \in e.fdeps
  BY <1>4, <1>6, <1>7, <1>8, <1>9
<1>10. ASSUME NEW j \in e.ideps, f = FileOf[j]
       PROVE  \/ e.readAt <= mtime[f] /\ mtime[f] <= e.lss
              \/ \E k \in e.ideps : /\ FileOf[k] = f
                                    /\ e.lss < mtime[f]
                                    /\ mtime[f] <= data[p].items[k].lss
  <2>1. mtime[f] <= data[p].items[j].lss
    BY <1>4, <1>5, <1>7, <1>10
  <2>. QED
    BY <1>6, <1>7, <1>8, <1>10, <2>1
<1>. QED
  BY <1>6, <1>9, <1>10

\* An up-to-date answer that is wrong about a file is wrong either because the
\* file was edited between the tool's read and the timestamp of the scan, or
\* because a header unit was rescanned after the edit and its importer was not.
THEOREM StaleAnswers == Spec => []StaleExplained
  BY Invariance, InvStaleExplained, PTL

\* Rows that are current and depend on none but current ones are not rescanned.
LEMMA InvNoNeedlessRescan == IInv => NoNeedlessRescan
<1>. SUFFICES ASSUME IInv, NEW p \in Proc, pc[p] \in {"scan", "update", "commit"},
                     NEW G \in SUBSET cfg[p].items,
                     \A i \in G : /\ Present(data[p].items[i]) /\ Fresh(data[p].items[i])
                                  /\ data[p].items[i].cmd = cfg[p].cmd[i]
                                  /\ data[p].items[i].ideps \subseteq G,
                     NEW i \in G
              PROVE  ood[p][i] = "up_to_date"
  BY DEF NoNeedlessRescan
<1>. DEFINE d == data[p]
            c == cfg[p]
            w == lwt[p]
<1>1. TypeOK /\ ReadIsCurrent /\ RowsOK /\ StatsOK /\ DecisionOK /\ PathsOK
  BY DEF IInv
<1>2. d = db /\ tostat[p] = {} /\ G \subseteq Item
  BY <1>1 DEF ReadIsCurrent, StatsOK, TypeOK
<1>3. ASSUME NEW j \in G PROVE OwnState(d, c, w, j) \in {"up_to_date", "unknown"}
  <2>. DEFINE e == d.items[j]
  <2>1. /\ e.reads = {FileOf[j]} \cup e.fdeps \cup {FileOf[k] : k \in e.ideps}
        /\ e.readAt <= e.lss
    BY <1>1, <1>2, <1>3 DEF RowsOK, SavedRowOK, RowOK
  <2>2. FileOf[j] \in d.paths
    BY <1>1, <1>2, <1>3, <2>1 DEF PathsOK, KnownIn
  <2>3. \A f \in {FileOf[j]} \cup e.fdeps : w[f] <= e.readAt
    BY <1>1, <1>2, <1>3, <2>1 DEF StatsOK, Fresh
  <2>4. /\ e \in Entry
        /\ \A f \in {FileOf[j]} \cup e.fdeps : w[f] \in Nat
    BY <1>1, <1>2, <1>3, ScannerAssumption DEF TypeOK, Database, Entry, Time, NoFile
  <2>5. e.readAt \in Nat /\ e.lss \in Nat
    BY <2>4, ScannerAssumption DEF Entry, Time
  <2>6. \A f \in {FileOf[j]} \cup e.fdeps : ~(w[f] > e.lss)
    BY <2>1, <2>3, <2>4, <2>5
  <2>. QED
    BY <1>3, <2>2, <2>6 DEF OwnState
<1>4. DepClosed(d, c, w, Undecided(d, c, w) \ G)
  <2>1. ASSUME NEW j \in G, j \in Undecided(d, c, w), NEW k \in d.items[j].ideps
        PROVE  ~Forces(d, c, w, k) /\ k \in G
    BY <1>3, <2>1 DEF Forces
  <2>. QED
    BY <2>1 DEF DepClosed
<1>5. i \notin ItemDepsChanged(d, c, w)
  BY <1>4 DEF ItemDepsChanged
<1>6. ItemState(d, c, w, i) = "up_to_date"
  BY <1>3, <1>5 DEF ItemState
<1>. QED
  BY <1>1, <1>6 DEF DecisionOK

\* The scanner is incremental: it never rescans items whose rows, and those of
\* all the items they depend on, describe the files and commands as they are.
THEOREM Incremental == Spec => []NoNeedlessRescan
  BY Invariance, InvNoNeedlessRescan, PTL

\* A committed row never refers to an id that the path store does not have.
THEOREM RowsHavePaths == Spec => []PathsKnown
<1>1. IInv => PathsKnown
  <2>. SUFFICES ASSUME IInv, NEW i \in Item, Present(db.items[i])
                PROVE  /\ FileOf[i] \in db.paths
                       /\ db.items[i].fdeps \subseteq db.paths
                       /\ \A j \in db.items[i].ideps : FileOf[j] \in db.paths
    BY DEF PathsKnown
  <2>. QED
    BY DEF IInv, PathsOK, KnownIn, RowsOK, SavedRowOK, RowOK
<1>. QED
  BY <1>1, Invariance, PTL

\* Rows are only ever replaced by rows read later.
THEOREM RowsOnlyMoveForward == Spec => RowsMoveForward
<1>1. ASSUME IInv, IInv', [Next]_vars, NEW i \in Item, Present(db'.items[i])
      PROVE  db'.items[i].readAt >= db.items[i].readAt
  <2>1. db.items[i].readAt \in Nat
    BY <1>1, ScannerAssumption DEF IInv, TypeOK, Database, Entry, Time
  <2>2. CASE db'.items[i] = db.items[i]
    BY <2>1, <2>2
  <2>3. ASSUME NEW p \in Proc, Commit(p) PROVE db'.items[i].readAt >= db.items[i].readAt
    BY <1>1, <2>3 DEF Commit, IInv, RowsOK, ReadIsCurrent
  <2>4. ASSUME NEW p \in Proc, NEW S \in ItemSets, Clean(p, S)
        PROVE  db'.items[i] = db.items[i]
    BY <1>1, <2>4 DEF Clean, NoEntry, Present
  <2>5. \/ UNCHANGED db
        \/ \E p \in Proc : Commit(p)
        \/ \E p \in Proc, S \in ItemSets : Clean(p, S)
    BY <1>1 DEF Next, UserStep, Tick, Edit, Delete, ChangeCommand, ScanStep, StatFile,
       ComputeOod, ToolResult, ToolDies, ToolExits, UpdateItems, Crash, BeginScan, vars
  <2>. QED
    BY <2>2, <2>3, <2>4, <2>5
<1>2. IInv /\ IInv' /\ [Next]_vars =>
        [\A i \in Item : Present(db'.items[i]) =>
            db'.items[i].readAt >= db.items[i].readAt]_vars
  BY <1>1
<1>. QED
  BY <1>2, Invariance, PTL DEF Spec, RowsMoveForward

-----------------------------------------------------------------------------
(***************************************************************************)
(* What the answers are worth when files rest while a scan runs.  Failures *)
(* are not forgotten, unless an item depends on a header unit; and where   *)
(* every scan covers all items and none fails, the database is what scans  *)
(* from scratch would have left (module FullScan).                         *)
(***************************************************************************)

(* The invariants, on top of IInv *)

\* Without row there is nothing: no timestamp and no command.
AbsentOK ==
    /\ \A i \in Item : Present(db.items[i]) \/ db.items[i] = NoEntry
    /\ \A p \in Proc : pc[p] = "commit" =>
         \A i \in Item : Present(txn[p].items[i]) \/ txn[p].items[i] = NoEntry

\* Every file has been written after the epoch.
ClockOK == now >= 1 /\ \A f \in File : mtime[f] >= 1

\* A scan works with commands of the build configuration, and the rows it does
\* not have a result for are those it read.
ScanOK ==
    \A p \in Proc : pc[p] # "idle" =>
        /\ cfg[p].cmd \in [Item -> Cmd]
        /\ pc[p] = "commit" => \A i \in Item :
             \/ i \in OodItems(p) /\ GotResult(p, i)
             \/ txn[p].items[i] = data[p].items[i]

BaseInv == IInv /\ AbsentOK /\ ClockOK /\ ScanOK

\* No file has changed since it was stat-ed.
StatsCurrent ==
    \A p \in Proc : pc[p] # "idle" =>
        \A f \in StatFiles(data[p], cfg[p].items) \ tostat[p] : lwt[p][f] = mtime[f]

\* The row of an item whose last scan failed still shows why it was scanned, unless
\* the reason was an item it depends on.
FailedOK ==
    \A i \in Item : failed[i] \in Cmd =>
        LET e == db.items[i] IN
        \/ e.cmd # failed[i]
        \/ \E f \in {FileOf[i]} \cup e.fdeps : mtime[f] > e.lss
        \/ e.ideps # {}

RetryInv == BaseInv /\ StatsCurrent /\ FailedOK

\* No row has item dependencies.
NoItemDeps ==
    /\ \A i \in Item : db.items[i].ideps = {}
    /\ \A p \in Proc, i \in Item :
         /\ data[p].items[i].ideps = {}
         /\ got[p][i].ideps = {}
         /\ txn[p].items[i].ideps = {}

\* What a row says of a file it was made from, unless that file was written after
\* the row, or after the row of the header unit it belongs to.
SavedFresh ==
    \A i \in Item : LET e == db.items[i] IN
        /\ \A f \in e.reads : e.seen[f] = ver[f] \/ mtime[f] > e.lss
        /\ \A j \in e.ideps : \/ e.seen[FileOf[j]] = ver[FileOf[j]]
                              \/ mtime[FileOf[j]] > db.items[j].lss

\* What the tool has reported in a scan is so.
GotFresh ==
    \A p \in Proc, i \in Item : Present(got[p][i]) =>
        /\ Fresh(got[p][i])
        /\ got[p][i].reads = Output(i) \cup {FileOf[i]}
        /\ got[p][i].cmd = cfg[p].cmd[i]

\* A scan covers all items, and all that are out of date are reported.
AllScanned ==
    \A p \in Proc : pc[p] # "idle" =>
        /\ cfg[p].items = Item /\ Item \in ItemSets
        /\ pc[p] \in {"update", "commit"} => \A i \in OodItems(p) : GotResult(p, i)

\* A row that is current lists all that its item includes.
SavedClosed ==
    \A i \in Item : LET e == db.items[i] IN
        Present(e) /\ Fresh(e) => e.reads = Output(i) \cup {FileOf[i]}

\* What is about to be committed.
TxnStamped ==
    \A p \in Proc : pc[p] = "commit" => \A i \in OodItems(p) :
        /\ txn[p].items[i].reads = got[p][i].reads
        /\ txn[p].items[i].seen = got[p][i].seen
        /\ txn[p].items[i].cmd = got[p][i].cmd

NoFileMissing == \A f \in File : mtime[f] # NoFile

FullInv == /\ BaseInv /\ StatsCurrent /\ NoFileMissing /\ AllScanned
           /\ SavedFresh /\ SavedClosed /\ GotFresh /\ TxnStamped

-----------------------------------------------------------------------------
(* What one step does *)

\* Files and commands rest while a scan runs, where nothing races with scans.
LEMMA StepQuiet ==
  ASSUME "race" \notin Faults, TypeOK, ReadIsCurrent, [Next]_vars,
         NEW p \in Proc, pc[p] # "idle"
  PROVE  UNCHANGED <<ver, inc, mtime, cmd>>
<1>1. lock # Free
  BY ScannerAssumption DEF ReadIsCurrent
<1>. QED
  BY <1>1 DEF Next, UserStep, Tick, Edit, Delete, MayEdit, ChangeCommand, ScanStep,
     StatFile, ComputeOod, ToolResult, ToolDies, ToolExits, UpdateItems, Commit, Crash,
     BeginScan, Clean, env, vars

\* Rows change when a scan commits and when items are cleaned.
LEMMA StepDb ==
  ASSUME [Next]_vars
  PROVE  \/ UNCHANGED <<db, failed>>
         \/ \E p \in Proc : Commit(p)
         \/ \E p \in Proc, S \in ItemSets : Clean(p, S)
  BY DEF Next, UserStep, Tick, Edit, Delete, ChangeCommand, ScanStep, StatFile,
     ComputeOod, ToolResult, ToolDies, ToolExits, UpdateItems, Crash, BeginScan, vars

\* What update_items puts in the transaction.
LEMMA UpdateWrites ==
  ASSUME TypeOK, NEW p \in Proc, UpdateItems(p), NEW i \in Item
  PROVE  IF i \in OodItems(p) /\ GotResult(p, i)
         THEN txn'[p].items[i] = Stamped(got[p][i], now)
         ELSE txn'[p].items[i] = data[p].items[i]
  BY DEF UpdateItems, Updated, OodItems, TypeOK

\* A process comes to hold a finished transaction by update_items alone.
LEMMA StepTxn ==
  ASSUME TypeOK, [Next]_vars, NEW p \in Proc, pc'[p] = "commit"
  PROVE  /\ UNCHANGED <<cfg[p], data[p], ood[p], got[p]>>
         /\ \/ pc[p] = "commit" /\ UNCHANGED txn[p]
            \/ pc[p] = "update" /\ UpdateItems(p)
<1>. USE DEF env, scanner
<1>1. CASE UserStep \/ UNCHANGED vars
  BY <1>1 DEF UserStep, Tick, Edit, Delete, ChangeCommand, vars
<1>2. ASSUME NEW q \in Proc, NEW S \in ItemSets, BeginScan(q, S) \/ Clean(q, S)
      PROVE  UNCHANGED <<cfg[p], data[p], ood[p], got[p], pc[p], txn[p]>>
  BY <1>2 DEF BeginScan, Clean, TypeOK
<1>3. ASSUME NEW q \in Proc, q # p, ScanStep(q) \/ Crash(q)
      PROVE  UNCHANGED <<cfg[p], data[p], ood[p], got[p], pc[p], txn[p]>>
  BY <1>3 DEF ScanStep, StatFile, ComputeOod, ToolResult, ToolDies, ToolExits,
              UpdateItems, Commit, Crash, Leave, TypeOK
<1>4. ASSUME ScanStep(p) \/ Crash(p) PROVE UpdateItems(p)
  BY <1>4 DEF ScanStep, StatFile, ComputeOod, ToolResult, ToolDies, ToolExits,
              Commit, Crash, Leave, TypeOK
<1>5. ASSUME UpdateItems(p) PROVE UNCHANGED <<cfg, data, ood, got>> /\ pc[p] = "update"
  BY <1>5 DEF UpdateItems
<1>6. ASSUME NEW q \in Proc, ScanStep(q) \/ Crash(q)
      PROVE  q # p \/ ScanStep(p) \/ Crash(p)
  BY <1>6
<1>. QED
  BY <1>1, <1>2, <1>3, <1>4, <1>5, <1>6 DEF Next

\* A report comes from the tool, in this scan.
LEMMA StepGot ==
  ASSUME TypeOK, RowsOK, [Next]_vars, NEW p \in Proc, NEW i \in Item,
         Present(got'[p][i])
  PROVE  /\ pc[p] # "idle" /\ UNCHANGED cfg[p]
         /\ \/ UNCHANGED got[p][i]
            \/ ToolResult(p, i) /\ got'[p][i] = Result(p, i, Output(i)) /\ UNCHANGED env
            \/ "tool_dies" \in Faults /\ \E out \in SUBSET Output(i) :
                   got'[p][i] = Result(p, i, out) /\ UNCHANGED env
<1>. USE DEF env, scanner
<1>0. ~Present(NoEntry)
  BY DEF Present, NoEntry
<1>1. ASSUME UNCHANGED <<got[p][i], cfg[p]>>
      PROVE  pc[p] # "idle" /\ UNCHANGED cfg[p] /\ UNCHANGED got[p][i]
  BY <1>1 DEF RowsOK
<1>2. CASE UserStep \/ UNCHANGED vars
  BY <1>1, <1>2 DEF UserStep, Tick, Edit, Delete, ChangeCommand, vars
<1>3. ASSUME NEW q \in Proc, NEW S \in ItemSets, BeginScan(q, S) \/ Clean(q, S)
      PROVE  pc[p] # "idle" /\ UNCHANGED cfg[p] /\ UNCHANGED got[p][i]
  <2>1. CASE Clean(q, S)
    BY <1>1, <2>1 DEF Clean
  <2>2. CASE BeginScan(q, S)
    BY <1>1, <1>3, <2>2 DEF BeginScan, RowsOK, TypeOK
  <2>. QED
    BY <1>3, <2>1, <2>2
<1>4. ASSUME NEW q \in Proc, q # p, ScanStep(q) \/ Crash(q)
      PROVE  UNCHANGED <<got[p][i], cfg[p]>>
  BY <1>4 DEF ScanStep, StatFile, ComputeOod, ToolResult, ToolDies, ToolExits,
              UpdateItems, Commit, Crash, Leave, TypeOK
<1>5. ASSUME Crash(p) \/ Commit(p) PROVE FALSE
  BY <1>0, <1>5 DEF Crash, Commit, Leave, TypeOK
<1>6. ASSUME ScanStep(p), ~(\E j \in Item : ToolResult(p, j) \/ ToolDies(p, j))
      PROVE  UNCHANGED <<got[p][i], cfg[p]>>
  BY <1>5, <1>6 DEF ScanStep, StatFile, ComputeOod, ToolExits, UpdateItems
<1>7. ASSUME NEW j \in Item, j # i, ToolResult(p, j) \/ ToolDies(p, j)
      PROVE  UNCHANGED <<got[p][i], cfg[p]>>
  BY <1>7 DEF ToolResult, ToolDies, TypeOK
<1>8. ASSUME ToolResult(p, i)
      PROVE  /\ pc[p] # "idle" /\ UNCHANGED cfg[p] /\ UNCHANGED env
             /\ got'[p][i] = Result(p, i, Output(i))
  BY <1>8 DEF ToolResult, TypeOK
<1>9. ASSUME ToolDies(p, i)
      PROVE  /\ pc[p] # "idle" /\ UNCHANGED cfg[p] /\ "tool_dies" \in Faults
             /\ \E out \in SUBSET Output(i) :
                    got'[p][i] = Result(p, i, out) /\ UNCHANGED env
  <2>1. PICK out \in SUBSET Output(i) : got' = [got EXCEPT ![p][i] = Result(p, i, out)]
    BY <1>9 DEF ToolDies
  <2>2. got'[p][i] = Result(p, i, out)
    BY <2>1 DEF TypeOK
  <2>. QED
    BY <1>9, <2>2 DEF ToolDies
<1>10. ASSUME NEW q \in Proc, ScanStep(q) \/ Crash(q)
       PROVE  q # p \/ ScanStep(p) \/ Crash(p)
  BY <1>10
<1>11. CASE ScanStep(p)
  <2>1. ASSUME NEW j \in Item, ToolResult(p, j) \/ ToolDies(p, j)
        PROVE  \/ UNCHANGED <<got[p][i], cfg[p]>>
               \/ ToolResult(p, i) \/ ToolDies(p, i)
    BY <1>7, <2>1
  <2>. QED
    BY <1>1, <1>6, <1>8, <1>9, <1>11, <2>1
<1>. QED
  BY <1>1, <1>2, <1>3, <1>4, <1>5, <1>10, <1>11 DEF Next

-----------------------------------------------------------------------------
(* The part of the invariant that holds under all circumstances *)

LEMMA StepAbsentOK == IInv /\ AbsentOK /\ [Next]_vars => AbsentOK'
<1>. SUFFICES ASSUME IInv, AbsentOK, [Next]_vars PROVE AbsentOK'
  OBVIOUS
<1>1. TypeOK /\ TypeOK' /\ ReadIsCurrent
  BY StepType DEF IInv
<1>2. ASSUME NEW p \in Proc, pc'[p] = "commit", NEW i \in Item
      PROVE  Present(txn'[p].items[i]) \/ txn'[p].items[i] = NoEntry
  <2>1. CASE pc[p] = "commit" /\ UNCHANGED txn[p]
    BY <1>2, <2>1 DEF AbsentOK
  <2>2. CASE UpdateItems(p)
    <3>1. data[p] = db
      BY <1>1, <2>2 DEF UpdateItems, ReadIsCurrent
    <3>2. got[p][i] \in Entry /\ now \in Time
      BY <1>1 DEF TypeOK
    <3>3. Present(got[p][i]) => Present(Stamped(got[p][i], now))
      BY <3>2, StampedRow DEF Present
    <3>. QED
      BY <1>1, <2>2, <3>1, <3>3, UpdateWrites DEF GotResult, AbsentOK
  <2>. QED
    BY <1>1, <1>2, <2>1, <2>2, StepTxn
<1>3. ASSUME NEW i \in Item PROVE Present(db'.items[i]) \/ db'.items[i] = NoEntry
  <2>1. ASSUME NEW p \in Proc, Commit(p) PROVE Present(db'.items[i]) \/ db'.items[i] = NoEntry
    BY <2>1 DEF Commit, AbsentOK
  <2>2. ASSUME NEW p \in Proc, NEW S \in ItemSets, Clean(p, S)
        PROVE  Present(db'.items[i]) \/ db'.items[i] = NoEntry
    BY <2>2 DEF Clean, AbsentOK
  <2>. QED
    BY <2>1, <2>2, StepDb DEF AbsentOK
<1>. QED
  BY <1>2, <1>3 DEF AbsentOK

LEMMA StepClockOK == TypeOK /\ ClockOK /\ [Next]_vars => ClockOK'
<1>. SUFFICES ASSUME TypeOK, ClockOK, [Next]_vars PROVE ClockOK'
  OBVIOUS
<1>1. now \in Nat /\ MaxTime \in Nat
  BY ScannerAssumption DEF TypeOK, Time
<1>2. ASSUME UserStep PROVE ClockOK'
  <2>1. ASSUME Tick PROVE ClockOK'
    BY <1>1, <2>1 DEF Tick, ClockOK
  <2>2. ASSUME NEW f \in File, Edit(f) \/ Delete(f) PROVE ClockOK'
    <3>1. /\ now' = now
          /\ mtime' = [mtime EXCEPT ![f] = now] \/ mtime' = [mtime EXCEPT ![f] = NoFile]
      BY <2>2 DEF Edit, Delete
    <3>2. \A g \in File : mtime'[g] \in {mtime[g], now, NoFile}
      BY <3>1 DEF TypeOK
    <3>. QED
      BY <1>1, <3>1, <3>2 DEF ClockOK, NoFile
  <2>3. ASSUME NEW i \in Item, ChangeCommand(i) PROVE ClockOK'
    BY <2>3 DEF ChangeCommand, ClockOK
  <2>. QED
    BY <1>2, <2>1, <2>2, <2>3 DEF UserStep
<1>3. UserStep \/ UNCHANGED <<now, mtime>>
  BY DEF Next, ScanStep, StatFile, ComputeOod, ToolResult, ToolDies, ToolExits,
         UpdateItems, Commit, Crash, BeginScan, Clean, env, vars
<1>. QED
  BY <1>2, <1>3 DEF ClockOK

\* The rows a transaction ends with: reports of this scan, or what it read.
LEMMA StepScanOK == IInv /\ ScanOK /\ [Next]_vars => ScanOK'
<1>. SUFFICES ASSUME IInv, ScanOK, [Next]_vars, NEW p \in Proc, pc'[p] # "idle"
              PROVE  /\ cfg'[p].cmd \in [Item -> Cmd]
                     /\ pc'[p] = "commit" => \A i \in Item :
                          \/ i \in OodItems(p)' /\ GotResult(p, i)'
                          \/ txn'[p].items[i] = data'[p].items[i]
  BY DEF ScanOK
<1>1. TypeOK
  BY DEF IInv
<1>2. cfg'[p].cmd \in [Item -> Cmd]
  <2>1. CASE pc[p] # "idle"
    BY <1>1, <2>1, StepScanFrame DEF ScanOK
  <2>2. CASE pc[p] = "idle"
    <3>1. ASSUME NEW S \in ItemSets, BeginScan(p, S) PROVE cfg'[p].cmd \in [Item -> Cmd]
      BY <1>1, <3>1 DEF BeginScan, TypeOK
    <3>2. ASSUME NEW q \in Proc, ~(\E S \in ItemSets : BeginScan(p, S)),
                 \/ UserStep \/ UNCHANGED vars \/ ScanStep(q) \/ Crash(q)
                 \/ \E S \in ItemSets : BeginScan(q, S) \/ Clean(q, S)
          PROVE  pc'[p] = pc[p]
      BY <1>1, <2>2, <3>2 DEF UserStep, Tick, Edit, Delete, ChangeCommand, vars, ScanStep,
         StatFile, ComputeOod, ToolResult, ToolDies, ToolExits, UpdateItems, Commit, Crash,
         Leave, BeginScan, Clean, TypeOK, scanner
    <3>. QED
      BY <2>2, <3>1, <3>2 DEF Next
  <2>. QED
    BY <2>1, <2>2
<1>3. ASSUME pc'[p] = "commit", NEW i \in Item
      PROVE  \/ i \in OodItems(p)' /\ GotResult(p, i)'
             \/ txn'[p].items[i] = data'[p].items[i]
  <2>1. UNCHANGED <<cfg[p], data[p], ood[p], got[p]>>
    BY <1>1, <1>3, StepTxn
  <2>2. OodItems(p)' = OodItems(p) /\ GotResult(p, i)' = GotResult(p, i)
    BY <2>1 DEF OodItems, GotResult
  <2>3. CASE pc[p] = "commit" /\ UNCHANGED txn[p]
    BY <2>1, <2>2, <2>3 DEF ScanOK
  <2>4. CASE UpdateItems(p)
    BY <1>1, <2>1, <2>2, <2>4, UpdateWrites
  <2>. QED
    BY <1>1, <1>3, <2>3, <2>4, StepTxn
<1>. QED
  BY <1>2, <1>3

LEMMA InitBase == Init => BaseInv
<1>. SUFFICES ASSUME Init PROVE BaseInv
  OBVIOUS
<1>1. AbsentOK
  BY DEF Init, AbsentOK, EmptyDb
<1>2. ClockOK /\ ScanOK
  BY DEF Init, ClockOK, ScanOK
<1>. QED
  BY <1>1, <1>2, InitIInv DEF BaseInv

LEMMA StepBase == BaseInv /\ [Next]_vars => BaseInv'
<1>1. IInv /\ [Next]_vars => IInv'
  BY StepType, StepReadIsCurrent, StepRowsOK, StepStatsOK, StepDecisionOK, StepPathsOK
  DEF IInv
<1>. QED
  BY <1>1, StepAbsentOK, StepClockOK, StepScanOK DEF BaseInv, IInv

-----------------------------------------------------------------------------
(* Failures *)

\* Nothing races with a scan: the times it has stat-ed are those of the files.
LEMMA StepStatsCurrent ==
  ASSUME "race" \notin Faults
  PROVE  IInv /\ StatsCurrent /\ [Next]_vars => StatsCurrent'
<1>. SUFFICES ASSUME IInv, StatsCurrent, [Next]_vars, NEW p \in Proc, pc'[p] # "idle",
                     NEW f \in StatFiles(data'[p], cfg'[p].items) \ tostat'[p]
              PROVE  lwt'[p][f] = mtime'[f]
  BY DEF StatsCurrent, StatFiles
<1>1. TypeOK /\ ReadIsCurrent
  BY DEF IInv
<1>2. CASE pc[p] = "idle"
  BY <1>1, <1>2, StepEnters
<1>3. CASE pc[p] # "idle"
  <2>1. UNCHANGED mtime
    BY <1>1, <1>3, StepQuiet
  <2>2. /\ UNCHANGED <<data[p], cfg[p]>>
        /\ \/ UNCHANGED <<lwt[p], tostat[p]>>
           \/ \E g \in tostat[p] : /\ lwt'[p] = [lwt[p] EXCEPT ![g] = mtime[g]]
                                   /\ tostat'[p] = tostat[p] \ {g}
    BY <1>1, <1>3, StepScanFrame
  <2>3. CASE UNCHANGED <<lwt[p], tostat[p]>>
    BY <1>3, <2>1, <2>2, <2>3 DEF StatsCurrent
  <2>4. ASSUME NEW g \in tostat[p], lwt'[p] = [lwt[p] EXCEPT ![g] = mtime[g]],
               tostat'[p] = tostat[p] \ {g}
        PROVE  lwt'[p][f] = mtime'[f]
    <3>1. g \in File /\ lwt[p] \in [File -> Time \cup {NoFile}]
      BY <1>1 DEF TypeOK
    <3>2. CASE f = g
      BY <2>1, <2>4, <3>1, <3>2
    <3>3. CASE f # g
      <4>1. lwt[p][f] = mtime[f]
        BY <1>3, <2>2, <2>4, <3>3 DEF StatsCurrent
      <4>. QED
        BY <2>1, <2>4, <3>1, <3>3, <4>1
    <3>. QED
      BY <3>2, <3>3
  <2>. QED
    BY <2>2, <2>3, <2>4
<1>. QED
  BY <1>2, <1>3

\* The row of an item that a scan finds out of date shows why.
LEMMA OodReason ==
  ASSUME BaseInv, StatsCurrent, NEW p \in Proc,
         pc[p] \in {"scan", "update", "commit"}, NEW i \in OodItems(p)
  PROVE  \/ db.items[i].cmd # cfg[p].cmd[i]
         \/ \E f \in {FileOf[i]} \cup db.items[i].fdeps : mtime[f] > db.items[i].lss
         \/ db.items[i].ideps # {}
<1>. DEFINE e == db.items[i]
<1>1. TypeOK /\ ReadIsCurrent /\ StatsOK /\ DecisionOK /\ PathsOK /\ RowsOK
      /\ AbsentOK /\ ClockOK
  BY DEF BaseInv, IInv
<1>2. /\ i \in cfg[p].items /\ i \in Item /\ data[p] = db /\ tostat[p] = {}
      /\ ood[p][i] = ItemState(db, cfg[p], lwt[p], i) /\ ood[p][i] # "up_to_date"
  BY <1>1 DEF OodItems, ReadIsCurrent, StatsOK, DecisionOK, TypeOK
<1>3. \A f \in {FileOf[i]} \cup e.fdeps : lwt[p][f] = mtime[f]
  BY <1>2 DEF StatsCurrent, StatFiles
<1>4. CASE FileOf[i] \notin db.paths
  <2>1. ~Present(e)
    BY <1>1, <1>2, <1>4 DEF PathsOK, KnownIn, RowsOK, SavedRowOK, RowOK
  <2>2. e.lss = 0
    BY <1>1, <1>2, <2>1 DEF AbsentOK, NoEntry
  <2>3. FileOf[i] \in File /\ mtime[FileOf[i]] >= 1 /\ mtime[FileOf[i]] \in Nat
    BY <1>1, <1>2, ScannerAssumption DEF ClockOK, TypeOK, Time, NoFile
  <2>. QED
    BY <2>2, <2>3
<1>5. CASE FileOf[i] \in db.paths
  <2>1. OwnState(db, cfg[p], lwt[p], i) # "up_to_date"
    BY <1>2 DEF ItemState
  <2>. QED
    BY <1>3, <1>5, <2>1 DEF OwnState
<1>. QED
  BY <1>4, <1>5

LEMMA StepFailedOK ==
  ASSUME "race" \notin Faults
  PROVE  RetryInv /\ [Next]_vars => FailedOK'
<1>. SUFFICES ASSUME RetryInv, [Next]_vars, NEW i \in Item, failed'[i] \in Cmd
              PROVE  \/ db'.items[i].cmd # failed'[i]
                     \/ \E f \in {FileOf[i]} \cup db'.items[i].fdeps :
                            mtime'[f] > db'.items[i].lss
                     \/ db'.items[i].ideps # {}
  BY DEF FailedOK
<1>1. TypeOK /\ TypeOK' /\ ReadIsCurrent /\ RowsOK /\ EnvLater /\ FailedOK
      /\ BaseInv /\ StatsCurrent /\ ScanOK
  BY StepType, StepEnvLater DEF RetryInv, BaseInv, IInv
<1>2. CASE UNCHANGED <<db, failed>>
  <2>. DEFINE e == db.items[i]
  <2>1. e \in Entry /\ FileOf[i] \in File /\ now \in Nat /\ e.lss \in Nat
        /\ \A f \in File : mtime[f] \in Nat /\ mtime'[f] \in Nat
    <3>1. e \in Entry /\ FileOf[i] \in File
      BY <1>1, ScannerAssumption DEF TypeOK, Database
    <3>2. MaxTime \in Nat /\ now \in Nat /\ e.lss \in Nat
      BY <1>1, <3>1, ScannerAssumption DEF TypeOK, Entry, Time
    <3>3. \A f \in File : mtime[f] \in Nat /\ mtime'[f] \in Nat
      BY <1>1, <3>2 DEF TypeOK, Time, NoFile
    <3>. QED
      BY <3>1, <3>2, <3>3
  <2>2. e.fdeps \subseteq File
    BY <2>1 DEF Entry
  <2>3. ASSUME NEW f \in {FileOf[i]} \cup e.fdeps, mtime[f] > e.lss
        PROVE  mtime'[f] > e.lss
    <3>1. f \in File
      BY <2>1, <2>2
    <3>2. CASE mtime'[f] = mtime[f]
      BY <2>3, <3>2
    <3>3. CASE mtime'[f] # mtime[f]
      <4>1. \A p \in Proc : pc[p] = "idle"
        BY <1>1, <3>3, StepQuiet
      <4>2. "race" \in Faults \/ e.lss < now
        BY <3>3 DEF Next, UserStep, Tick, Edit, Delete, MayEdit, ChangeCommand, ScanStep,
           StatFile, ComputeOod, ToolResult, ToolDies, ToolExits, UpdateItems, Commit,
           Crash, BeginScan, Clean, env, vars
      <4>3. mtime'[f] >= now
        BY <1>1, <3>1, <3>3 DEF EnvLater
      <4>. QED
        BY <2>1, <3>1, <4>2, <4>3
    <3>. QED
      BY <3>2, <3>3
  <2>. QED
    BY <1>1, <1>2, <2>3 DEF FailedOK
<1>3. ASSUME NEW p \in Proc, Commit(p)
      PROVE  \/ db'.items[i].cmd # failed'[i]
             \/ \E f \in {FileOf[i]} \cup db'.items[i].fdeps :
                    mtime'[f] > db'.items[i].lss
             \/ db'.items[i].ideps # {}
  <2>1. /\ pc[p] = "commit" /\ db' = txn[p] /\ mtime' = mtime
        /\ failed'[i] = IF i \in OodItems(p)
                        THEN IF GotResult(p, i) THEN NoCmd ELSE cfg[p].cmd[i]
                        ELSE failed[i]
    BY <1>3 DEF Commit, env
  <2>2. ~(i \in OodItems(p) /\ GotResult(p, i))
    BY <2>1, ScannerAssumption
  <2>3. db'.items[i] = db.items[i]
    BY <1>1, <2>1, <2>2 DEF ScanOK, ReadIsCurrent
  <2>4. CASE i \in OodItems(p)
    BY <1>1, <2>1, <2>2, <2>3, <2>4, OodReason
  <2>5. CASE i \notin OodItems(p)
    BY <1>1, <2>1, <2>3, <2>5 DEF FailedOK
  <2>. QED
    BY <2>4, <2>5
<1>4. ASSUME NEW p \in Proc, NEW S \in ItemSets, Clean(p, S)
      PROVE  UNCHANGED <<db.items[i], failed[i], mtime>>
  BY <1>1, <1>4, ScannerAssumption DEF Clean, env
<1>. QED
  BY <1>1, <1>2, <1>3, <1>4, StepDb DEF FailedOK

\* RetryInv is inductive, where nothing changes during a scan.
THEOREM RetryInvariance ==
  ASSUME "race" \notin Faults
  PROVE  Spec => []RetryInv
<1>1. Init => RetryInv
  BY InitBase, ScannerAssumption DEF RetryInv, StatsCurrent, FailedOK, Init
<1>2. RetryInv /\ [Next]_vars => RetryInv'
  BY StepBase, StepStatsCurrent, StepFailedOK DEF RetryInv, BaseInv
<1>. QED
  BY <1>1, <1>2, PTL DEF Spec

\* An item whose last scan failed, with the command it has, is up to date only if
\* it has item dependencies.
FailedHasItemDeps ==
    \A p \in Proc, i \in Item :
        UpToDate(p, i) /\ failed[i] = cfg[p].cmd[i] => data[p].items[i].ideps # {}

\* Where nothing changes during a scan, a failed scan is repeated until it
\* succeeds, whatever was edited, deleted, cleaned or given another command in
\* between and whichever items the scans cover; the exception, items that depend
\* on header units, is the one run header_unit_failure shows.
THEOREM FailuresAreRetried ==
  ASSUME "race" \notin Faults
  PROVE  Spec => []FailedHasItemDeps
<1>1. RetryInv => FailedHasItemDeps
  <2>. SUFFICES ASSUME RetryInv, NEW p \in Proc, NEW i \in Item, UpToDate(p, i),
                       failed[i] = cfg[p].cmd[i]
                PROVE  data[p].items[i].ideps # {}
    BY DEF FailedHasItemDeps
  <2>. DEFINE e == data[p].items[i]
  <2>1. TypeOK /\ ReadIsCurrent /\ StatsOK /\ DecisionOK /\ StatsCurrent /\ FailedOK /\ ScanOK
    BY DEF RetryInv, BaseInv, IInv
  <2>2. /\ pc[p] \in {"scan", "update", "commit"} /\ i \in cfg[p].items
        /\ data[p] = db /\ tostat[p] = {}
        /\ ItemState(data[p], cfg[p], lwt[p], i) = "up_to_date"
    BY <2>1 DEF UpToDate, ReadIsCurrent, StatsOK, DecisionOK
  <2>3. cfg[p].cmd[i] \in Cmd
    BY <2>1, <2>2 DEF ScanOK
  <2>4. \A f \in {FileOf[i]} \cup e.fdeps : lwt[p][f] = mtime[f] /\ ~(lwt[p][f] > e.lss)
    BY <2>1, <2>2, UpToDateMeans DEF StatsCurrent, StatFiles
  <2>5. e.cmd = cfg[p].cmd[i]
    BY <2>2 DEF ItemState, OwnState
  <2>. QED
    BY <2>1, <2>2, <2>3, <2>4, <2>5 DEF FailedOK
<1>. QED
  BY <1>1, RetryInvariance, PTL

-----------------------------------------------------------------------------
(* Without header units *)

LEMMA StepNoItemDeps ==
  ASSUME HeaderUnit = {}
  PROVE  IInv /\ NoItemDeps /\ [Next]_vars => NoItemDeps'
<1>. SUFFICES ASSUME IInv, NoItemDeps, [Next]_vars PROVE NoItemDeps'
  OBVIOUS
<1>. USE DEF env, scanner
<1>1. TypeOK
  BY DEF IInv
<1>2. NoEntry.ideps = {} /\ \A i \in Item : EmptyDb.items[i].ideps = {}
  BY DEF NoEntry, EmptyDb
<1>3. CASE UserStep \/ UNCHANGED vars
  BY <1>3 DEF UserStep, Tick, Edit, Delete, ChangeCommand, vars, NoItemDeps
<1>4. ASSUME NEW p \in Proc, NEW S \in ItemSets, BeginScan(p, S) PROVE NoItemDeps'
  BY <1>1, <1>4 DEF BeginScan, NoItemDeps, TypeOK
<1>5. ASSUME NEW p \in Proc,
             (\E f \in File : StatFile(p, f)) \/ ComputeOod(p) \/ ToolExits(p)
      PROVE  NoItemDeps'
  BY <1>5 DEF StatFile, ComputeOod, ToolExits, NoItemDeps
<1>6. ASSUME NEW p \in Proc, NEW i \in Item, ToolResult(p, i) \/ ToolDies(p, i)
      PROVE  NoItemDeps'
  <2>1. PICK out \in SUBSET Output(i) : got' = [got EXCEPT ![p][i] = Result(p, i, out)]
    BY <1>6 DEF ToolResult, ToolDies
  <2>2. Result(p, i, out).ideps = {}
    BY DEF Result, HuLookup
  <2>3. \A q \in Proc, j \in Item : got'[q][j].ideps = {}
    BY <1>1, <2>1, <2>2 DEF NoItemDeps, TypeOK
  <2>. QED
    BY <1>6, <2>3 DEF ToolResult, ToolDies, NoItemDeps
<1>7. ASSUME NEW p \in Proc, UpdateItems(p) PROVE NoItemDeps'
  <2>1. ASSUME NEW i \in Item PROVE Stamped(got[p][i], now).ideps = got[p][i].ideps
    BY <1>1, StampedRow DEF TypeOK
  <2>2. \A i \in Item : txn'[p].items[i].ideps = {}
    BY <1>1, <1>7, <2>1, UpdateWrites DEF NoItemDeps
  <2>3. UNCHANGED <<db, data, got>> /\ \A q \in Proc : q # p => txn'[q] = txn[q]
    BY <1>7 DEF UpdateItems
  <2>. QED
    BY <2>2, <2>3 DEF NoItemDeps
<1>8. ASSUME NEW p \in Proc, Leave(p), \A i \in Item : db'.items[i].ideps = {}
      PROVE  NoItemDeps'
  BY <1>1, <1>2, <1>8 DEF Leave, NoItemDeps, TypeOK
<1>9. ASSUME NEW p \in Proc, Commit(p) \/ Crash(p) PROVE NoItemDeps'
  BY <1>8, <1>9 DEF Commit, Crash, NoItemDeps
<1>10. ASSUME NEW p \in Proc, NEW S \in ItemSets, Clean(p, S) PROVE NoItemDeps'
  BY <1>2, <1>10 DEF Clean, NoItemDeps
<1>. QED
  BY <1>3, <1>4, <1>5, <1>6, <1>7, <1>9, <1>10 DEF Next, ScanStep

\* Without header units no row and no report has item dependencies.
THEOREM NoItemDepsInvariance ==
  ASSUME HeaderUnit = {}
  PROVE  Spec => [](BaseInv /\ NoItemDeps)
<1>1. Init => BaseInv /\ NoItemDeps
  BY InitBase DEF NoItemDeps, Init, EmptyDb, NoEntry
<1>2. BaseInv /\ NoItemDeps /\ [Next]_vars => (BaseInv /\ NoItemDeps)'
  BY StepBase, StepNoItemDeps DEF BaseInv
<1>. QED
  BY <1>1, <1>2, PTL DEF Spec

\* What scanner.cpp:940-943 says of failures holds of projects without header
\* units, where nothing changes during a scan.
THEOREM NoFailureForgotten ==
  ASSUME "race" \notin Faults, HeaderUnit = {}
  PROVE  Spec => []UpToDateSucceeded
<1>1. FailedHasItemDeps /\ NoItemDeps => UpToDateSucceeded
  BY DEF FailedHasItemDeps, NoItemDeps, UpToDateSucceeded
<1>2. Spec => []FailedHasItemDeps
  BY FailuresAreRetried
<1>3. Spec => [](BaseInv /\ NoItemDeps)
  BY NoItemDepsInvariance
<1>. QED
  BY <1>1, <1>2, <1>3, PTL

\* An item that a scan would rescan stays so until a scan has: not even edits,
\* failures and crashes in the middle of other scans make it up to date.
THEOREM OnlyARescanHelps ==
  ASSUME HeaderUnit = {}
  PROVE  Spec => OodUntilRescanned
<1>. DEFINE A == \A i \in Item : OodNow(i) /\ ~OodNow(i)' /\ UNCHANGED env =>
                      \E p \in Proc : Commit(p) /\ GotResult(p, i)
<1>1. ASSUME BaseInv, NoItemDeps, [Next]_vars, NEW i \in Item,
             OodNow(i), ~OodNow(i)', UNCHANGED env
      PROVE  \E p \in Proc : Commit(p) /\ GotResult(p, i)
  <2>. DEFINE e == db.items[i]
  <2>1. TypeOK /\ ReadIsCurrent /\ RowsOK /\ PathsOK /\ AbsentOK /\ ClockOK /\ ScanOK
    BY <1>1 DEF BaseInv, IInv
  <2>2. NoItemDeps'
    BY <1>1, StepNoItemDeps DEF BaseInv
  <2>3. OodNow(i) <=> \/ FileOf[i] \notin db.paths
                      \/ \E f \in {FileOf[i]} \cup e.fdeps : mtime[f] > e.lss
                      \/ e.cmd # cmd[i]
    BY <1>1 DEF OodNow, ItemState, OwnState, NoItemDeps
  <2>4. OodNow(i)' <=> \/ FileOf[i] \notin db'.paths
                       \/ \E f \in {FileOf[i]} \cup db'.items[i].fdeps :
                              mtime'[f] > db'.items[i].lss
                       \/ db'.items[i].cmd # cmd'[i]
    BY <2>2 DEF OodNow, ItemState, OwnState, NoItemDeps
  <2>5. mtime' = mtime /\ cmd' = cmd /\ mtime[FileOf[i]] > 0
    <3>1. mtime[FileOf[i]] \in Nat /\ mtime[FileOf[i]] >= 1
      BY <2>1, ScannerAssumption DEF TypeOK, Time, NoFile, ClockOK
    <3>. QED
      BY <1>1, <3>1 DEF env
  <2>6. db'.items[i] # e
    <3>. SUFFICES ASSUME db'.items[i] = e PROVE FALSE
      OBVIOUS
    <3>1. FileOf[i] \notin db.paths
      BY <1>1, <2>3, <2>4, <2>5
    <3>2. e = NoEntry
      BY <2>1, <3>1 DEF PathsOK, KnownIn, RowsOK, SavedRowOK, RowOK, AbsentOK
    <3>. QED
      BY <1>1, <2>4, <2>5, <3>2 DEF NoEntry
  <2>7. ASSUME NEW p \in Proc, NEW S \in ItemSets, Clean(p, S) PROVE FALSE
    <3>1. db'.items[i] = NoEntry
      BY <2>6, <2>7 DEF Clean
    <3>. QED
      BY <1>1, <2>4, <2>5, <3>1 DEF NoEntry
  <2>8. ASSUME NEW p \in Proc, Commit(p) PROVE GotResult(p, i)
    BY <2>1, <2>6, <2>8 DEF Commit, ScanOK, ReadIsCurrent
  <2>. QED
    BY <1>1, <2>6, <2>7, <2>8, StepDb
<1>2. BaseInv /\ NoItemDeps /\ [Next]_vars => [A]_vars
  BY <1>1
<1>3. Spec => [](BaseInv /\ NoItemDeps)
  BY NoItemDepsInvariance
<1>. QED
  BY <1>2, <1>3, PTL DEF Spec, OodUntilRescanned

-----------------------------------------------------------------------------
(* Inclusion *)

\* The files f includes when v says what each file includes, directly or not, as
\* Reach computes them and, with f itself, as module FullScan does.
ReachIn(v, f) == {g \in File : \A X \in SUBSET File :
                     (v[f] \subseteq X /\ \A h \in X : v[h] \subseteq X) => g \in X}
ClosureIn(v, f) == {g \in File : \A X \in SUBSET File :
                     (f \in X /\ \A h \in X : v[h] \subseteq X) => g \in X}

\* The closure of f is the least set that holds f and what its files include.
LEMMA ClosureLeast ==
  ASSUME NEW v \in [File -> SUBSET File], NEW f \in File
  PROVE  /\ ClosureIn(v, f) \subseteq File /\ f \in ClosureIn(v, f)
         /\ \A h \in ClosureIn(v, f) : v[h] \subseteq ClosureIn(v, f)
         /\ \A X \in SUBSET File :
               (f \in X /\ \A h \in X : v[h] \subseteq X) => ClosureIn(v, f) \subseteq X
<1>1. ASSUME NEW h \in ClosureIn(v, f), NEW g \in v[h] PROVE g \in ClosureIn(v, f)
  BY <1>1 DEF ClosureIn
<1>. QED
  BY <1>1 DEF ClosureIn

\* Both definitions name the same files.
LEMMA ReachIsClosure ==
  ASSUME NEW v \in [File -> SUBSET File], NEW f \in File
  PROVE  ReachIn(v, f) \cup {f} = ClosureIn(v, f)
<1>1. ASSUME NEW g \in ReachIn(v, f) PROVE g \in ClosureIn(v, f)
  BY <1>1 DEF ClosureIn, ReachIn
<1>2. ASSUME NEW g \in ClosureIn(v, f) PROVE g \in ReachIn(v, f) \cup {f}
  <2>. SUFFICES ASSUME g # f, NEW X \in SUBSET File,
                       v[f] \subseteq X, \A h \in X : v[h] \subseteq X
                PROVE  g \in X
    BY <1>2 DEF ReachIn, ClosureIn
  <2>1. \A h \in X \cup {f} : v[h] \subseteq X \cup {f}
    OBVIOUS
  <2>. QED
    BY <1>2, <2>1 DEF ClosureIn
<1>3. f \in ClosureIn(v, f)
  BY ClosureLeast
<1>. QED
  BY <1>1, <1>2, <1>3

\* A file outside the closure of another has no say in it.
LEMMA ClosureFrame ==
  ASSUME NEW v \in [File -> SUBSET File], NEW w \in [File -> SUBSET File], NEW f \in File,
         \A h \in File : h # f => w[h] = v[h],
         NEW g \in File, f \notin ClosureIn(v, g)
  PROVE  ClosureIn(w, g) = ClosureIn(v, g)
<1>. DEFINE C == ClosureIn(v, g)
            D == ClosureIn(w, g)
<1>1. /\ C \subseteq File /\ g \in C /\ \A h \in C : v[h] \subseteq C
      /\ D \subseteq File /\ g \in D /\ \A h \in D : w[h] \subseteq D
  BY ClosureLeast
<1>2. D \subseteq C
  <2>1. \A h \in C : w[h] \subseteq C
    BY <1>1
  <2>. QED
    BY <1>1, <2>1, ClosureLeast
<1>3. C \subseteq D
  <2>1. \A h \in D : v[h] \subseteq D
    BY <1>1, <1>2
  <2>. QED
    BY <1>1, <2>1, ClosureLeast
<1>. QED
  BY <1>2, <1>3

\* What a scan of an item reads is its file's closure under inclusion.
LEMMA OutputIsClosure ==
  ASSUME TypeOK, TypeOK', NEW i \in Item
  PROVE  /\ Output(i) \cup {FileOf[i]} = ClosureIn(inc, FileOf[i])
         /\ Output(i)' \cup {FileOf[i]} = ClosureIn(inc', FileOf[i])
<1>1. /\ FileOf[i] \in File
      /\ inc \in [File -> SUBSET File] /\ inc' \in [File -> SUBSET File]
  BY ScannerAssumption DEF TypeOK
<1>2. /\ Output(i) = ReachIn(inc, FileOf[i]) \ {FileOf[i]}
      /\ Output(i)' = ReachIn(inc', FileOf[i]) \ {FileOf[i]}
  BY DEF Output, Reach, ReachIn
<1>3. /\ ReachIn(inc, FileOf[i]) \cup {FileOf[i]} = ClosureIn(inc, FileOf[i])
      /\ ReachIn(inc', FileOf[i]) \cup {FileOf[i]} = ClosureIn(inc', FileOf[i])
  BY <1>1, ReachIsClosure
<1>. QED
  BY <1>2, <1>3

-----------------------------------------------------------------------------
(* Scans of everything that do not fail *)

\* Every scan covers all items; the only mishap is a crash.
Smooth == ItemSets \subseteq {Item} /\ Faults \subseteq {"crash"}

\* The tool has finished because it came to its end, or died.
LEMMA StepEnds ==
  ASSUME TypeOK, [Next]_vars, NEW p \in Proc, pc'[p] \in {"update", "commit"}
  PROVE  /\ UNCHANGED <<cfg[p], ood[p]>>
         /\ \/ pc[p] \in {"update", "commit"} /\ UNCHANGED got[p]
            \/ ToolExits(p) /\ UNCHANGED got[p]
            \/ "tool_dies" \in Faults
<1>. USE DEF env, scanner
<1>1. CASE UserStep \/ UNCHANGED vars
  BY <1>1 DEF UserStep, Tick, Edit, Delete, ChangeCommand, vars
<1>2. ASSUME NEW q \in Proc, NEW S \in ItemSets, BeginScan(q, S) \/ Clean(q, S)
      PROVE  UNCHANGED <<cfg[p], ood[p], got[p], pc[p]>>
  BY <1>2 DEF BeginScan, Clean, TypeOK
<1>3. ASSUME NEW q \in Proc, q # p, ScanStep(q) \/ Crash(q)
      PROVE  UNCHANGED <<cfg[p], ood[p], got[p], pc[p]>>
  BY <1>3 DEF ScanStep, StatFile, ComputeOod, ToolResult, ToolDies, ToolExits,
              UpdateItems, Commit, Crash, Leave, TypeOK
<1>4. ASSUME ScanStep(p) \/ Crash(p)
      PROVE  UpdateItems(p) \/ ToolExits(p) \/ \E i \in Item : ToolDies(p, i)
  BY <1>4 DEF ScanStep, StatFile, ComputeOod, ToolResult, Commit, Crash, Leave, TypeOK
<1>5. ASSUME UpdateItems(p) \/ ToolExits(p)
      PROVE  UNCHANGED <<cfg, ood, got>> /\ (ToolExits(p) \/ pc[p] = "update")
  BY <1>5 DEF UpdateItems, ToolExits
<1>6. ASSUME NEW i \in Item, ToolDies(p, i)
      PROVE  UNCHANGED <<cfg, ood>> /\ "tool_dies" \in Faults
  BY <1>6 DEF ToolDies
<1>7. ASSUME NEW q \in Proc, ScanStep(q) \/ Crash(q)
      PROVE  q # p \/ ScanStep(p) \/ Crash(p)
  BY <1>7
<1>. QED
  BY <1>1, <1>2, <1>3, <1>4, <1>5, <1>6, <1>7 DEF Next

LEMMA StepNoFileMissing ==
  ASSUME Smooth PROVE TypeOK /\ NoFileMissing /\ [Next]_vars => NoFileMissing'
<1>. SUFFICES ASSUME TypeOK, NoFileMissing, [Next]_vars PROVE NoFileMissing'
  OBVIOUS
<1>1. now # NoFile
  BY ScannerAssumption DEF TypeOK, Time, NoFile
<1>2. ASSUME NEW f \in File, Edit(f) PROVE NoFileMissing'
  BY <1>1, <1>2 DEF Edit, NoFileMissing, TypeOK, NoFile
<1>3. ASSUME NEW f \in File, Delete(f) PROVE FALSE
  BY <1>3 DEF Delete, Smooth
<1>4. (\E f \in File : Edit(f) \/ Delete(f)) \/ UNCHANGED mtime
  BY DEF Next, UserStep, Tick, ChangeCommand, ScanStep, StatFile, ComputeOod, ToolResult,
     ToolDies, ToolExits, UpdateItems, Commit, Crash, BeginScan, Clean, env, vars
<1>. QED
  BY <1>2, <1>3, <1>4 DEF NoFileMissing, NoFile

LEMMA StepAllScanned ==
  ASSUME Smooth
  PROVE  TypeOK /\ NoFileMissing /\ AllScanned /\ [Next]_vars => AllScanned'
<1>. SUFFICES ASSUME TypeOK, NoFileMissing, AllScanned, [Next]_vars, NEW p \in Proc,
                     pc'[p] # "idle"
              PROVE  /\ cfg'[p].items = Item /\ Item \in ItemSets
                     /\ pc'[p] \in {"update", "commit"} =>
                            \A i \in OodItems(p)' : GotResult(p, i)'
  BY DEF AllScanned
<1>1. cfg'[p].items = Item /\ Item \in ItemSets
  <2>1. CASE pc[p] # "idle"
    BY <2>1, StepScanFrame DEF AllScanned
  <2>2. CASE pc[p] = "idle"
    <3>1. ASSUME NEW S \in ItemSets, BeginScan(p, S)
          PROVE  cfg'[p].items = Item /\ Item \in ItemSets
      BY <3>1 DEF BeginScan, TypeOK, Smooth
    <3>2. ASSUME NEW q \in Proc, ~(\E S \in ItemSets : BeginScan(p, S)),
                 \/ UserStep \/ UNCHANGED vars \/ ScanStep(q) \/ Crash(q)
                 \/ \E S \in ItemSets : BeginScan(q, S) \/ Clean(q, S)
          PROVE  pc'[p] = pc[p]
      BY <2>2, <3>2 DEF UserStep, Tick, Edit, Delete, ChangeCommand, vars, ScanStep,
         StatFile, ComputeOod, ToolResult, ToolDies, ToolExits, UpdateItems, Commit, Crash,
         Leave, BeginScan, Clean, TypeOK, scanner
    <3>. QED
      BY <2>2, <3>1, <3>2 DEF Next
  <2>. QED
    BY <2>1, <2>2
<1>2. ASSUME pc'[p] \in {"update", "commit"}, NEW i \in OodItems(p)'
      PROVE  GotResult(p, i)'
  <2>1. i \in OodItems(p) /\ (UNCHANGED got[p] => (GotResult(p, i)' <=> GotResult(p, i)))
    BY <1>2, StepEnds DEF OodItems, GotResult
  <2>2. CASE pc[p] \in {"update", "commit"} /\ UNCHANGED got[p]
    BY <2>1, <2>2 DEF AllScanned
  <2>3. CASE ToolExits(p) /\ UNCHANGED got[p]
    <3>1. i \in Item
      BY <2>1 DEF OodItems, TypeOK
    <3>2. Readable(i)
      BY <3>1, OutputType, ScannerAssumption DEF Readable, NoFileMissing
    <3>. QED
      BY <2>1, <2>3, <3>2 DEF ToolExits, Smooth
  <2>. QED
    BY <1>2, <2>2, <2>3, StepEnds DEF Smooth
<1>. QED
  BY <1>1, <1>2

LEMMA StepGotFresh ==
  ASSUME Smooth
  PROVE  IInv /\ GotFresh /\ [Next]_vars => GotFresh'
<1>. SUFFICES ASSUME IInv, GotFresh, [Next]_vars, NEW p \in Proc, NEW i \in Item,
                     Present(got'[p][i])
              PROVE  /\ Fresh(got[p][i])'
                     /\ got'[p][i].reads = Output(i)' \cup {FileOf[i]}
                     /\ got'[p][i].cmd = cfg'[p].cmd[i]
  BY DEF GotFresh, Present
<1>1. TypeOK /\ ReadIsCurrent /\ RowsOK
  BY DEF IInv
<1>2. /\ pc[p] # "idle" /\ UNCHANGED cfg[p]
      /\ UNCHANGED got[p][i] \/ got'[p][i] = Result(p, i, Output(i))
  BY <1>1, StepGot DEF Smooth
<1>3. UNCHANGED <<ver, inc>>
  BY <1>1, <1>2, StepQuiet DEF Smooth
<1>4. Output(i)' = Output(i)
  BY <1>3 DEF Output, Reach
<1>5. CASE UNCHANGED got[p][i]
  BY <1>2, <1>3, <1>4, <1>5 DEF GotFresh, Fresh, Present
<1>6. CASE got'[p][i] = Result(p, i, Output(i))
  <2>1. /\ got'[p][i].reads = Output(i) \cup {FileOf[i]}
        /\ got'[p][i].cmd = cfg[p].cmd[i]
        /\ got'[p][i].seen = [f \in File |-> IF f \in Output(i) \cup {FileOf[i]}
                                             THEN ver[f] ELSE 0]
    BY <1>6 DEF Result
  <2>2. Output(i) \cup {FileOf[i]} \subseteq File
    BY OutputType, ScannerAssumption
  <2>3. \A f \in got'[p][i].reads : ver'[f] = got'[p][i].seen[f]
    BY <1>3, <2>1, <2>2
  <2>. QED
    BY <1>2, <1>4, <2>1, <2>3 DEF Fresh
<1>. QED
  BY <1>2, <1>5, <1>6

LEMMA StepTxnStamped ==
  ASSUME Smooth
  PROVE  TypeOK /\ AllScanned /\ TxnStamped /\ [Next]_vars => TxnStamped'
<1>. SUFFICES ASSUME TypeOK, AllScanned, TxnStamped, [Next]_vars, NEW p \in Proc,
                     pc'[p] = "commit", NEW i \in OodItems(p)'
              PROVE  /\ txn'[p].items[i].reads = got'[p][i].reads
                     /\ txn'[p].items[i].seen = got'[p][i].seen
                     /\ txn'[p].items[i].cmd = got'[p][i].cmd
  BY DEF TxnStamped
<1>1. /\ UNCHANGED <<cfg[p], data[p], ood[p], got[p]>>
      /\ \/ pc[p] = "commit" /\ UNCHANGED txn[p]
         \/ pc[p] = "update" /\ UpdateItems(p)
  BY StepTxn
<1>2. i \in OodItems(p) /\ i \in Item
  BY <1>1 DEF OodItems, TypeOK
<1>3. CASE pc[p] = "commit" /\ UNCHANGED txn[p]
  BY <1>1, <1>2, <1>3 DEF TxnStamped
<1>4. CASE pc[p] = "update" /\ UpdateItems(p)
  <2>1. got[p][i] \in Entry /\ now \in Time
    BY <1>2 DEF TypeOK
  <2>2. txn'[p].items[i] = Stamped(got[p][i], now)
    BY <1>2, <1>4, UpdateWrites DEF AllScanned
  <2>. QED
    BY <1>1, <2>1, <2>2, StampedRow
<1>. QED
  BY <1>1, <1>3, <1>4

\* What a scan leaves alone is what a scan from scratch would give.
LEMMA UpToDateIsRight ==
  ASSUME FullInv, NEW p \in Proc, NEW i \in Item, UpToDate(p, i)
  PROVE  /\ Present(db.items[i]) /\ Fresh(db.items[i])
         /\ db.items[i].cmd = cfg[p].cmd[i]
<1>. DEFINE e == db.items[i]
<1>1. TypeOK /\ ReadIsCurrent /\ StatsOK /\ DecisionOK /\ RowsOK /\ AbsentOK /\ ClockOK
      /\ StatsCurrent /\ AllScanned /\ SavedFresh
  BY DEF FullInv, BaseInv, IInv
<1>2. /\ cfg[p].items = Item /\ data[p] = db /\ tostat[p] = {}
      /\ ItemState(db, cfg[p], lwt[p], i) = "up_to_date"
  BY <1>1 DEF UpToDate, AllScanned, ReadIsCurrent, StatsOK, DecisionOK
<1>3. /\ e \in Entry /\ e.ideps \subseteq Item
      /\ \A j \in Item : lwt[p][FileOf[j]] = mtime[FileOf[j]]
      /\ \A f \in e.fdeps : lwt[p][f] = mtime[f]
  <2>1. e \in Entry /\ e.ideps \subseteq Item
    BY <1>1 DEF TypeOK, Database, Entry
  <2>2. \A f \in StatFiles(db, Item) : lwt[p][f] = mtime[f]
    BY <1>1, <1>2 DEF StatsCurrent, UpToDate
  <2>. QED
    BY <2>1, <2>2 DEF StatFiles
<1>4. /\ \A f \in {FileOf[i]} \cup e.fdeps : ~(mtime[f] > e.lss)
      /\ \A j \in e.ideps : ~(mtime[FileOf[j]] > db.items[j].lss)
  BY <1>2, <1>3, UpToDateMeans
<1>5. Present(e)
  <2>1. mtime[FileOf[i]] >= 1 /\ mtime[FileOf[i]] \in Nat
    BY <1>1, ScannerAssumption DEF ClockOK, TypeOK, Time, NoFile
  <2>2. e.lss # 0
    BY <1>4, <2>1
  <2>. QED
    BY <1>1, <2>2 DEF AbsentOK, NoEntry
<1>6. e.reads = {FileOf[i]} \cup e.fdeps \cup {FileOf[j] : j \in e.ideps}
  BY <1>1, <1>5 DEF RowsOK, SavedRowOK, RowOK
<1>7. ASSUME NEW f \in e.reads PROVE ver[f] = e.seen[f]
  <2>1. CASE f \in {FileOf[i]} \cup e.fdeps
    BY <1>1, <1>4, <1>7, <2>1 DEF SavedFresh
  <2>2. ASSUME NEW j \in e.ideps, f = FileOf[j] PROVE ver[f] = e.seen[f]
    BY <1>1, <1>4, <2>2 DEF SavedFresh
  <2>. QED
    BY <1>6, <2>1, <2>2
<1>8. e.cmd = cfg[p].cmd[i]
  BY <1>2 DEF ItemState, OwnState
<1>. QED
  BY <1>5, <1>7, <1>8 DEF Fresh

\* What a scan commits is what a scan from scratch would have given.
LEMMA CommittedRow ==
  ASSUME FullInv, NEW p \in Proc, pc[p] = "commit", NEW i \in Item
  PROVE  LET e == txn[p].items[i] IN
         /\ Present(e) /\ Fresh(e)
         /\ e.reads = Output(i) \cup {FileOf[i]}
         /\ e.cmd = cfg[p].cmd[i]
<1>1. /\ ReadIsCurrent /\ AllScanned /\ GotFresh /\ TxnStamped /\ SavedClosed /\ ScanOK
  BY DEF FullInv, BaseInv, IInv
<1>2. CASE i \in OodItems(p)
  <2>1. Present(got[p][i])
    BY <1>1, <1>2 DEF AllScanned, GotResult
  <2>. QED
    BY <1>1, <1>2, <2>1 DEF GotFresh, TxnStamped, Fresh, Present
<1>3. CASE i \notin OodItems(p)
  <2>1. UpToDate(p, i) /\ txn[p].items[i] = db.items[i]
    BY <1>1, <1>3 DEF OodItems, UpToDate, AllScanned, ScanOK, ReadIsCurrent
  <2>. QED
    BY <1>1, <2>1, UpToDateIsRight DEF SavedClosed
<1>. QED
  BY <1>2, <1>3

\* An edit that does not race with a scan comes after the rows were written.
LEMMA StepEdit ==
  ASSUME Smooth, TypeOK, [Next]_vars
  PROVE  \/ UNCHANGED <<ver, inc, mtime>>
         \/ \E f \in File : Edit(f) /\ \A i \in Item : db.items[i].lss < now
<1>1. ASSUME NEW f \in File, Edit(f) PROVE \A i \in Item : db.items[i].lss < now
  BY <1>1 DEF Edit, MayEdit, Smooth
<1>2. ASSUME NEW f \in File, Delete(f) PROVE FALSE
  BY <1>2 DEF Delete, Smooth
<1>. QED
  BY <1>1, <1>2 DEF Next, UserStep, Tick, ChangeCommand, ScanStep, StatFile, ComputeOod,
     ToolResult, ToolDies, ToolExits, UpdateItems, Commit, Crash, BeginScan, Clean, env, vars

\* Rows after a step: those there were, none, or those of the commit.
LEMMA StepSaved ==
  ASSUME Smooth, FullInv, [Next]_vars, UNCHANGED <<ver, inc, mtime>>
  PROVE  SavedFresh' /\ SavedClosed'
<1>0. TypeOK /\ TypeOK' /\ IInv'
  BY StepType, StepBase DEF FullInv, BaseInv, IInv
<1>1. ASSUME NEW i \in Item PROVE Output(i)' = Output(i)
  BY DEF Output, Reach
<1>2. CASE UNCHANGED db
  BY <1>1, <1>2 DEF FullInv, SavedFresh, SavedClosed, Fresh, Present
<1>3. ASSUME NEW p \in Proc, NEW S \in ItemSets, Clean(p, S) PROVE SavedFresh' /\ SavedClosed'
  <2>1. \A i \in Item : db'.items[i] = NoEntry
    BY <1>3 DEF Clean, Smooth
  <2>. QED
    BY <2>1 DEF SavedFresh, SavedClosed, NoEntry, Present
<1>4. ASSUME NEW p \in Proc, Commit(p) PROVE SavedFresh' /\ SavedClosed'
  <2>1. db' = txn[p] /\ pc[p] = "commit"
    BY <1>4 DEF Commit
  <2>2. ASSUME NEW i \in Item
        PROVE  /\ Present(db'.items[i])
               /\ \A f \in db'.items[i].reads : ver'[f] = db'.items[i].seen[f]
               /\ db'.items[i].reads = Output(i)' \cup {FileOf[i]}
    BY <1>1, <2>1, CommittedRow DEF Fresh
  <2>3. ASSUME NEW i \in Item, NEW j \in db'.items[i].ideps
        PROVE  FileOf[j] \in db'.items[i].reads
    BY <1>0, <2>2 DEF IInv, RowsOK, SavedRowOK, RowOK, Present
  <2>. QED
    BY <2>2, <2>3 DEF SavedFresh, SavedClosed
<1>. QED
  BY <1>2, <1>3, <1>4, StepDb

LEMMA EditSaved ==
  ASSUME FullInv, TypeOK', NEW f \in File, Edit(f), \A i \in Item : db.items[i].lss < now
  PROVE  SavedFresh' /\ SavedClosed'
<1>1. TypeOK /\ RowsOK /\ SavedFresh /\ SavedClosed
  BY DEF FullInv, BaseInv, IInv
<1>2. /\ db' = db /\ ver' = [ver EXCEPT ![f] = @ + 1] /\ mtime' = [mtime EXCEPT ![f] = now]
      /\ \A h \in File : h # f => inc'[h] = inc[h]
  BY <1>1 DEF Edit, TypeOK
<1>3. /\ \A g \in File : g # f => ver'[g] = ver[g] /\ mtime'[g] = mtime[g]
      /\ ver'[f] = ver[f] + 1 /\ mtime'[f] = now
  BY <1>1, <1>2 DEF TypeOK
<1>4. now \in Nat /\ ver[f] \in Nat
  BY <1>1, ScannerAssumption DEF TypeOK, Time
<1>5. ASSUME NEW i \in Item
      PROVE  /\ db.items[i] \in Entry /\ db.items[i].lss \in Nat
             /\ db.items[i].reads \subseteq File /\ db.items[i].ideps \subseteq Item
  BY <1>1, ScannerAssumption DEF TypeOK, Database, Entry, Time
<1>6. SavedFresh'
  <2>1. ASSUME NEW i \in Item, NEW g \in db.items[i].reads
        PROVE  db.items[i].seen[g] = ver'[g] \/ mtime'[g] > db.items[i].lss
    BY <1>1, <1>3, <1>4, <1>5 DEF SavedFresh
  <2>2. ASSUME NEW i \in Item, NEW j \in db.items[i].ideps
        PROVE  \/ db.items[i].seen[FileOf[j]] = ver'[FileOf[j]]
               \/ mtime'[FileOf[j]] > db.items[j].lss
    <3>1. j \in Item /\ FileOf[j] \in File
      BY <1>5, ScannerAssumption
    <3>. QED
      BY <1>1, <1>3, <1>4, <1>5, <3>1 DEF SavedFresh
  <2>. QED
    BY <1>2, <2>1, <2>2 DEF SavedFresh
<1>7. SavedClosed'
  <2>. SUFFICES ASSUME NEW i \in Item, Present(db.items[i]),
                       \A g \in db.items[i].reads : ver'[g] = db.items[i].seen[g]
                PROVE  db.items[i].reads = Output(i)' \cup {FileOf[i]}
    BY <1>2 DEF SavedClosed, Present, Fresh
  <2>. DEFINE e == db.items[i]
  <2>1. f \notin e.reads
    <3>1. \A g \in e.reads : e.seen[g] = ver[g] \/ e.seen[g] < ver[g]
      BY <1>1 DEF RowsOK, SavedRowOK, RowOK
    <3>2. f \in e.reads => e.seen[f] \in Nat
      BY <1>5, ScannerAssumption DEF Entry
    <3>. QED
      BY <1>3, <1>4, <3>1, <3>2
  <2>2. Fresh(e)
    BY <1>3, <1>5, <2>1 DEF Fresh
  <2>3. /\ e.reads = ClosureIn(inc, FileOf[i])
        /\ Output(i)' \cup {FileOf[i]} = ClosureIn(inc', FileOf[i])
    BY <1>1, <2>2, OutputIsClosure DEF SavedClosed
  <2>4. /\ inc \in [File -> SUBSET File] /\ inc' \in [File -> SUBSET File]
        /\ FileOf[i] \in File
    BY <1>1, ScannerAssumption DEF TypeOK
  <2>5. ClosureIn(inc', FileOf[i]) = ClosureIn(inc, FileOf[i])
    BY <1>2, <2>1, <2>3, <2>4, ClosureFrame
  <2>. QED
    BY <2>3, <2>5
<1>. QED
  BY <1>6, <1>7

\* FullInv is inductive, under Smooth.
THEOREM FullInvariance ==
  ASSUME Smooth
  PROVE  Spec => []FullInv
<1>1. Init => FullInv
  <2>. SUFFICES ASSUME Init PROVE FullInv
    OBVIOUS
  <2>1. StatsCurrent /\ AllScanned /\ TxnStamped
    BY DEF Init, StatsCurrent, AllScanned, TxnStamped
  <2>2. NoFileMissing
    BY ScannerAssumption DEF Init, NoFileMissing, NoFile
  <2>3. SavedFresh /\ SavedClosed /\ GotFresh
    BY DEF Init, SavedFresh, SavedClosed, GotFresh, EmptyDb, NoEntry, Present
  <2>. QED
    BY <2>1, <2>2, <2>3, InitBase DEF FullInv
<1>2. ASSUME FullInv, [Next]_vars PROVE FullInv'
  <2>1. BaseInv /\ IInv /\ TypeOK
    BY <1>2 DEF FullInv, BaseInv, IInv
  <2>2. BaseInv' /\ TypeOK'
    BY <1>2, <2>1, StepBase DEF BaseInv, IInv
  <2>3. "race" \notin Faults
    BY DEF Smooth
  <2>4. SavedFresh' /\ SavedClosed'
    BY <1>2, <2>1, <2>2, StepEdit, StepSaved, EditSaved
  <2>5. StatsCurrent' /\ GotFresh' /\ TxnStamped' /\ NoFileMissing' /\ AllScanned'
    BY <1>2, <2>1, <2>3, StepStatsCurrent, StepGotFresh, StepTxnStamped,
       StepNoFileMissing, StepAllScanned DEF FullInv
  <2>. QED
    BY <2>2, <2>4, <2>5 DEF FullInv
<1>. QED
  BY <1>1, <1>2, PTL DEF Spec

\* An up-to-date answer is right, where scans cover all items, none fails and files
\* are not edited while one runs: crashes, cleaning, header units and commands that
\* change do no harm.
THEOREM UpToDateIsTrue ==
  ASSUME Smooth
  PROVE  Spec => []UpToDateIsFresh
<1>1. FullInv => UpToDateIsFresh
  <2>1. ASSUME FullInv, NEW p \in Proc, NEW i \in Item, UpToDate(p, i)
        PROVE  Fresh(data[p].items[i])
    BY <2>1, UpToDateIsRight DEF FullInv, BaseInv, IInv, ReadIsCurrent, UpToDate
  <2>. QED
    BY <2>1 DEF UpToDateIsFresh
<1>. QED
  BY <1>1, FullInvariance, PTL

-----------------------------------------------------------------------------
(* Refinement of FullScan *)

\* What a row with its files' versions and command says.
LEMMA RecordedNow ==
  ASSUME TypeOK, NEW i \in Item, NEW e, Present(e), Fresh(e),
         e.reads = Output(i) \cup {FileOf[i]}
  PROVE  [cmd |-> e.cmd, seen |-> [f \in e.reads |-> e.seen[f]]] = FS!Record(i, e.cmd)
<1>1. FileOf[i] \in File /\ inc \in [File -> SUBSET File]
  BY ScannerAssumption DEF TypeOK
<1>2. e.reads = ReachIn(inc, FileOf[i]) \cup {FileOf[i]}
  BY DEF Output, Reach, ReachIn
<1>3. FS!Closure(FileOf[i]) = ClosureIn(inc, FileOf[i])
  BY DEF FS!Closure, ClosureIn
<1>4. e.reads = FS!Closure(FileOf[i])
  BY <1>1, <1>2, <1>3, ReachIsClosure
<1>5. [f \in e.reads |-> e.seen[f]] = [f \in FS!Closure(FileOf[i]) |-> ver[f]]
  BY <1>4 DEF Fresh
<1>. QED
  BY <1>5 DEF FS!Record

LEMMA FullScanStep ==
  ASSUME Smooth, FullInv, [Next]_vars
  PROVE  [FS!Next]_(FS!vars)
<1>. DEFINE store == [i \in Item |-> Recorded(i)]
<1>0. TypeOK /\ AllScanned /\ ScanOK
  BY DEF FullInv, BaseInv, IInv
<1>1. ASSUME UNCHANGED <<ver, inc, db>> PROVE UNCHANGED FS!vars
  BY <1>1 DEF FS!vars, Recorded, Present
<1>2. ASSUME NEW f \in File, Edit(f) PROVE FS!Edit(f)
  <2>1. store' = store
    BY <1>2 DEF Edit, Recorded, Present
  <2>. QED
    BY <1>2, <2>1 DEF Edit, FS!Edit
<1>3. ASSUME NEW f \in File, Delete(f) PROVE FALSE
  BY <1>3 DEF Delete, Smooth
<1>4. ASSUME NEW p \in Proc, Commit(p)
      PROVE  Item \in ItemSets /\ cfg[p].cmd \in [Item -> Cmd] /\ FS!Scan(Item, cfg[p].cmd)
  <2>1. /\ pc[p] = "commit" /\ db' = txn[p] /\ UNCHANGED <<ver, inc>>
    BY <1>4 DEF Commit, env
  <2>2. Item \in ItemSets /\ cfg[p].cmd \in [Item -> Cmd]
    BY <1>0, <2>1 DEF AllScanned, ScanOK
  <2>3. ASSUME NEW i \in Item PROVE Recorded(i)' = FS!Record(i, cfg[p].cmd[i])
    <3>. DEFINE e == txn[p].items[i]
    <3>1. /\ Present(e) /\ Fresh(e) /\ e.reads = Output(i) \cup {FileOf[i]}
          /\ e.cmd = cfg[p].cmd[i]
      BY <2>1, CommittedRow
    <3>2. Recorded(i)' = [cmd |-> e.cmd, seen |-> [f \in e.reads |-> e.seen[f]]]
      BY <2>1, <3>1 DEF Recorded, Present
    <3>. HIDE DEF e
    <3>. QED
      BY <1>0, <3>1, <3>2, RecordedNow
  <2>4. store' = [i \in Item |-> FS!Record(i, cfg[p].cmd[i])]
    BY <2>3
  <2>. QED
    BY <2>1, <2>2, <2>4 DEF FS!Scan
<1>5. ASSUME NEW p \in Proc, NEW S \in ItemSets, Clean(p, S) PROVE FS!Clean(S)
  <2>1. /\ UNCHANGED <<ver, inc>>
        /\ db'.items = [i \in Item |-> IF i \in S THEN NoEntry ELSE db.items[i]]
    BY <1>5 DEF Clean, env
  <2>2. ASSUME NEW i \in Item
        PROVE  Recorded(i)' = IF i \in S THEN NoCmd ELSE Recorded(i)
    BY <2>1 DEF Recorded, NoEntry, Present
  <2>3. store' = [i \in Item |-> IF i \in S THEN NoCmd ELSE Recorded(i)]
    BY <2>2
  <2>. QED
    BY <2>1, <2>3 DEF FS!Clean
<1>6. \/ UNCHANGED <<ver, inc, db>>
      \/ \E f \in File : Edit(f) \/ Delete(f)
      \/ \E p \in Proc : Commit(p)
      \/ \E p \in Proc, S \in ItemSets : Clean(p, S)
  BY DEF Next, UserStep, Tick, ChangeCommand, ScanStep, StatFile, ComputeOod, ToolResult,
     ToolDies, ToolExits, UpdateItems, Crash, BeginScan, env, vars
<1>. QED
  BY <1>1, <1>2, <1>3, <1>4, <1>5, <1>6 DEF FS!Next

\* Where scans cover all items, none fails and files are not edited while one
\* runs, the incremental scanner implements the scan from scratch.
THEOREM IncrementalIsFull ==
  ASSUME Smooth
  PROVE  Spec => ImplementsFullScan
<1>1. Init => FS!Init
  BY DEF Init, FS!Init, Recorded, EmptyDb, NoEntry, Present
<1>2. FullInv /\ [Next]_vars => [FS!Next]_(FS!vars)
  BY FullScanStep
<1>. QED
  BY <1>1, <1>2, FullInvariance, PTL DEF Spec, ImplementsFullScan, FS!Spec

=============================================================================
