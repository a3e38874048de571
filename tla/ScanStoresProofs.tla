------------------------- MODULE ScanStoresProofs -------------------------
(***************************************************************************)
(* That the stores number names and files once and for all, and that the   *)
(* rows of the database mean what was reported: for all sets of names and  *)
(* paths, all chunk sizes and any number of scans.                         *)
(***************************************************************************)
EXTENDS ScanStores, PathStoreProofs

-----------------------------------------------------------------------------
(* string_id_store *)

LastId(db) == IF Has(db, 0) THEN db[0] ELSE 0

\* The database of a string store holds ids 1 to LastId(db), and LastId(db).
NamesSaved(db) ==
    /\ LastId(db) \in Nat
    /\ DOMAIN db = IF LastId(db) = 0 THEN {} ELSE 0 .. LastId(db)
    /\ \A i, j \in 1 .. LastId(db) : db[i] = db[j] => i = j

\* A store that was read from db, and grew.
NamesOpen(s, db) ==
    /\ s = [init |-> TRUE, reverse |-> s.reverse, max |-> LastId(db), next |-> s.next]
    /\ s.next \in Nat /\ LastId(db) < s.next
    /\ DOMAIN s.reverse = DOMAIN db \cup (1 .. s.next - 1)
    /\ \A i \in 1 .. LastId(db) : s.reverse[i] = db[i]
    /\ \A i, j \in 1 .. s.next - 1 : s.reverse[i] = s.reverse[j] => i = j

StoreOf(s, db) == s = NewStringStore \/ NamesOpen(s, db)

\* init reads the names as they were saved.
LEMMA NamesRead ==
  ASSUME NEW db, NamesSaved(db)
  PROVE  LET s == InitStringStore(NewStringStore, db) IN NamesOpen(s, db) /\ NamesIn(s) = SavedNames(db)
<1>. DEFINE s == InitStringStore(NewStringStore, db)
<1>1. s = [init |-> TRUE, reverse |-> db, max |-> LastId(db), next |-> LastId(db) + 1]
  BY DEF InitStringStore, NewStringStore, LastId, NamesSaved
<1>. HIDE DEF s
<1>2. NamesOpen(s, db)
  BY <1>1 DEF NamesOpen, NamesSaved
<1>3. NamesIn(s) = SavedNames(db)
  BY <1>1 DEF NamesIn, SavedNames, LastId, NamesSaved
<1>. QED
  BY <1>2, <1>3 DEF s

\* What try_add does: n has one id, and the names before it keep theirs.
LEMMA NameAdded ==
  ASSUME NEW s, NEW db, NamesSaved(db), NamesOpen(s, db), NEW n
  PROVE  LET t == TryAddName(s, n)
         IN /\ NamesOpen(t, db)
            /\ StartsWith(NamesIn(t), NamesIn(s))
            /\ NameId(t, n) \in 1 .. t.next - 1 /\ t.reverse[NameId(t, n)] = n
<1>. DEFINE t == TryAddName(s, n)
<1>1. s.next \in Nat /\ 1 <= s.next /\ LastId(db) \in Nat
  BY DEF NamesOpen, NamesSaved
<1>2. CASE IdsOfName(s, n) # {}
  <2>1. t = s
    BY <1>2 DEF TryAddName
  <2>2. NameId(s, n) \in IdsOfName(s, n)
    BY <1>2 DEF NameId
  <2>3. IdsOfName(s, n) \subseteq 1 .. s.next - 1
    <3>1. \A i \in DOMAIN db : i # 0 => i \in 1 .. LastId(db)
      BY DEF NamesSaved
    <3>. QED
      BY <1>1, <3>1 DEF IdsOfName, NamesOpen
  <2>4. StartsWith(NamesIn(s), NamesIn(s))
    BY <1>1 DEF StartsWith, NamesIn
  <2>. HIDE DEF t
  <2>. QED
    BY <2>1, <2>2, <2>3, <2>4 DEF IdsOfName, t
<1>3. CASE IdsOfName(s, n) = {}
  <2>1. t = [init |-> TRUE, reverse |-> Put(s.reverse, s.next, n), max |-> LastId(db), next |-> s.next + 1]
    <3>. DEFINE rev == s.reverse
                nxt == s.next
                max == LastId(db)
    <3>1. s = [init |-> TRUE, reverse |-> rev, max |-> max, next |-> nxt]
      BY DEF NamesOpen
    <3>2. t = [s EXCEPT !.reverse = Put(rev, nxt, n), !.next = nxt + 1]
      BY <1>3 DEF TryAddName
    <3>. HIDE DEF rev, nxt, max, t
    <3>3. t = [init |-> TRUE, reverse |-> Put(rev, nxt, n), max |-> max, next |-> nxt + 1]
      BY <3>1, <3>2
    <3>. QED
      BY <3>3 DEF rev, nxt, max, t
  <2>2. /\ DOMAIN t.reverse = DOMAIN s.reverse \cup {s.next}
        /\ t.reverse[s.next] = n
        /\ \A i \in DOMAIN s.reverse : i # s.next => t.reverse[i] = s.reverse[i]
        /\ t.next = s.next + 1
    BY <2>1 DEF Put
  <2>. HIDE DEF t
  <2>3. \A i \in 1 .. s.next - 1 : i \in DOMAIN s.reverse /\ i # s.next /\ s.reverse[i] # n
    BY <1>1, <1>3 DEF IdsOfName, NamesOpen
  <2>4. NamesOpen(t, db)
    <3>1. DOMAIN t.reverse = DOMAIN db \cup (1 .. t.next - 1)
      BY <1>1, <2>2 DEF NamesOpen
    <3>2. \A i \in 1 .. LastId(db) : t.reverse[i] = db[i]
      BY <1>1, <2>2, <2>3 DEF NamesOpen
    <3>3. \A i, j \in 1 .. t.next - 1 : t.reverse[i] = t.reverse[j] => i = j
      BY <1>1, <2>2, <2>3 DEF NamesOpen
    <3>4. t.next \in Nat /\ LastId(db) < t.next
      BY <1>1, <2>2 DEF NamesOpen
    <3>5. t = [init |-> TRUE, reverse |-> t.reverse, max |-> LastId(db), next |-> t.next]
      BY <2>1
    <3>. QED
      BY <3>1, <3>2, <3>3, <3>4, <3>5 DEF NamesOpen
  <2>5. StartsWith(NamesIn(t), NamesIn(s))
    BY <1>1, <2>2, <2>3 DEF StartsWith, NamesIn
  <2>6. IdsOfName(t, n) # {} /\ IdsOfName(t, n) \subseteq 1 .. t.next - 1
    <3>1. s.next \in IdsOfName(t, n)
      BY <1>1, <2>2 DEF IdsOfName
    <3>2. \A i \in DOMAIN db : i # 0 => i \in 1 .. LastId(db)
      BY DEF NamesSaved
    <3>. QED
      BY <1>1, <2>2, <3>1, <3>2 DEF IdsOfName, NamesOpen
  <2>7. NameId(t, n) \in IdsOfName(t, n)
    BY <2>6 DEF NameId
  <2>. QED
    BY <2>4, <2>5, <2>6, <2>7 DEF IdsOfName, t
<1>. QED
  BY <1>2, <1>3

\* Appended names come after those that are stored.
LEMMA NamesFollow ==
  ASSUME NEW s, NEW db, NamesSaved(db), StoreOf(s, db)
  PROVE  NamesAppendable(s, db)
<1>1. CASE s = NewStringStore
  BY <1>1 DEF NewStringStore, NamesAppendable
<1>2. CASE NamesOpen(s, db)
  BY <1>2 DEF NamesOpen, NamesSaved, NamesAppendable, Appendable
<1>. QED
  BY <1>1, <1>2 DEF StoreOf

\* What commit_changes leaves is what the store held.
LEMMA NamesCommitted ==
  ASSUME NEW s, NEW db, NamesSaved(db), StoreOf(s, db)
  PROVE  LET new == CommitNames(s, db)
         IN /\ NamesSaved(new)
            /\ SavedNames(new) = IF s.init THEN NamesIn(s) ELSE SavedNames(db)
<1>. DEFINE new == CommitNames(s, db)
<1>1. CASE s = NewStringStore
  BY <1>1 DEF NewStringStore, CommitNames
<1>2. CASE NamesOpen(s, db)
  <2>1. s.init /\ s.max = LastId(db) /\ LastId(db) \in Nat /\ s.next \in Nat /\ LastId(db) < s.next
    BY <1>2 DEF NamesOpen, NamesSaved
  <2>2. CASE s.next = s.max + 1
    <3>1. new = db
      BY <2>2 DEF CommitNames
    <3>2. SavedNames(db) = NamesIn(s)
      BY <1>2, <2>1, <2>2 DEF SavedNames, NamesIn, NamesOpen, LastId
    <3>. QED
      BY <2>1, <3>1, <3>2
  <2>3. CASE s.next # s.max + 1
    <3>1. new = [i \in DOMAIN db \cup {0} \cup (s.max + 1 .. s.next - 1) |->
                   IF i = 0 THEN s.next - 1 ELSE IF i > s.max THEN s.reverse[i] ELSE db[i]]
      BY <2>3 DEF CommitNames
    <3>2. DOMAIN db \cup {0} \cup (s.max + 1 .. s.next - 1) = 0 .. s.next - 1
      BY <2>1, <2>3 DEF NamesSaved
    <3>3. /\ DOMAIN new = 0 .. s.next - 1
          /\ new[0] = s.next - 1
          /\ \A i \in 1 .. s.next - 1 : new[i] = s.reverse[i]
      BY <1>2, <2>1, <3>1, <3>2 DEF NamesOpen
    <3>. HIDE DEF new
    <3>4. LastId(new) = s.next - 1 /\ s.next - 1 \in Nat /\ s.next - 1 # 0
      BY <2>1, <2>3, <3>3 DEF LastId, Has
    <3>5. NamesSaved(new)
      BY <1>2, <3>3, <3>4 DEF NamesSaved, NamesOpen
    <3>6. SavedNames(new) = NamesIn(s)
      BY <3>3, <3>4 DEF SavedNames, LastId, NamesIn
    <3>. QED
      BY <2>1, <3>5, <3>6 DEF new
  <2>. QED
    BY <2>2, <2>3
<1>. QED
  BY <1>1, <1>2 DEF StoreOf

\* The tables of a store and of its database.
LEMMA NamesAreTable ==
  ASSUME NEW s, NEW db, NamesSaved(db), NamesOpen(s, db)
  PROVE  /\ StartsWith(NamesIn(s), SavedNames(db))
         /\ Distinct(NamesIn(s))
         /\ Len(NamesIn(s)) = s.next - 1 /\ Len(SavedNames(db)) = LastId(db)
<1>1. s.next - 1 \in Nat /\ LastId(db) \in Nat /\ LastId(db) <= s.next - 1
  BY DEF NamesOpen, NamesSaved
<1>2. Len(NamesIn(s)) = s.next - 1 /\ DOMAIN NamesIn(s) = 1 .. s.next - 1
  BY <1>1 DEF NamesIn
<1>3. Len(SavedNames(db)) = LastId(db)
  BY <1>1 DEF SavedNames, LastId
<1>4. StartsWith(NamesIn(s), SavedNames(db))
  BY <1>1, <1>2, <1>3 DEF StartsWith, NamesIn, SavedNames, NamesOpen, LastId
<1>5. Distinct(NamesIn(s))
  BY <1>1, <1>2 DEF Distinct, NamesIn, NamesOpen
<1>. QED
  BY <1>2, <1>3, <1>4, <1>5

-----------------------------------------------------------------------------
(* The stores of names *)

\* Targets are read by every scan, modules by one that has something to report.
NamesInv ==
    /\ disk = [targets |-> disk.targets, modules |-> disk.modules, paths |-> disk.paths,
               items |-> disk.items]
    /\ pc \in {"idle", "ood", "write"}
    /\ NamesSaved(disk.targets) /\ NamesSaved(disk.modules)
    /\ IF pc = "idle" THEN targets = NewStringStore ELSE NamesOpen(targets, disk.targets)
    /\ IF pc = "ood" THEN NamesOpen(modules, disk.modules) ELSE modules = NewStringStore

\* Init: there are no names.
LEMMA NamesInit == Init => NamesInv
<1>. SUFFICES ASSUME Init PROVE NamesInv
  OBVIOUS
<1>1. disk.targets = EmptyDb /\ disk.modules = EmptyDb
  BY DEF Init, EmptyDisk
<1>2. NamesSaved(EmptyDb)
  BY DEF NamesSaved, EmptyDb, LastId, Has
<1>. QED
  BY <1>1, <1>2 DEF Init, NamesInv, EmptyDisk

\* A scan begins: the session of the targets may have one more name.
LEMMA NamesBegin ==
  ASSUME NamesInv, NEW r, NEW p, NEW t, NEW units, NEW ood \in BOOLEAN, BeginScan(r, p, t, units, ood)
  PROVE  /\ NamesInv'
         /\ StartsWith(NamesIn(targets'), SavedNames(disk.targets))
         /\ NamesIn(modules') = IF ood THEN SavedNames(disk.modules) ELSE NamesIn(modules)
         /\ NameId(targets', t) \in 1 .. targets'.next - 1
         /\ targets'.reverse[NameId(targets', t)] = t
<1>1. /\ pc = "idle" /\ pc' = (IF ood THEN "ood" ELSE "write") /\ disk' = disk
      /\ targets' = TryAddName(InitStringStore(NewStringStore, disk.targets), t)
      /\ modules' = IF ood THEN InitStringStore(NewStringStore, disk.modules) ELSE NewStringStore
  BY DEF BeginScan
<1>2. NamesSaved(disk.targets) /\ NamesSaved(disk.modules) /\ modules = NewStringStore
  BY <1>1 DEF NamesInv
<1>. DEFINE s == InitStringStore(NewStringStore, disk.targets)
<1>3. NamesOpen(s, disk.targets) /\ NamesIn(s) = SavedNames(disk.targets)
  BY <1>2, NamesRead
<1>. HIDE DEF s
<1>4. /\ NamesOpen(targets', disk.targets) /\ StartsWith(NamesIn(targets'), NamesIn(s))
      /\ NameId(targets', t) \in 1 .. targets'.next - 1
      /\ targets'.reverse[NameId(targets', t)] = t
  <2>1. targets' = TryAddName(s, t)
    BY <1>1 DEF s
  <2>. QED
    BY <1>2, <1>3, <2>1, NameAdded
<1>5. ood => NamesOpen(modules', disk.modules) /\ NamesIn(modules') = SavedNames(disk.modules)
  BY <1>1, <1>2, NamesRead
<1>6. NamesInv'
  BY <1>1, <1>2, <1>4, <1>5 DEF NamesInv
<1>. QED
  BY <1>1, <1>2, <1>3, <1>4, <1>5, <1>6

\* A line of the tool with the name of a module.
LEMMA NamesLine ==
  ASSUME NamesInv, NEW n, ExpLine(n) \/ ImpLine(n)
  PROVE  /\ NamesInv'
         /\ StartsWith(NamesIn(modules'), NamesIn(modules))
         /\ NameId(modules', n) \in 1 .. modules'.next - 1
         /\ modules'.reverse[NameId(modules', n)] = n
<1>1. /\ pc = "ood" /\ UNCHANGED <<pc, disk, targets>>
      /\ modules' = TryAddName(modules, n)
  BY DEF ExpLine, ImpLine, Reporting
<1>2. NamesSaved(disk.modules) /\ NamesOpen(modules, disk.modules)
  BY <1>1 DEF NamesInv
<1>3. /\ NamesOpen(modules', disk.modules)
      /\ StartsWith(NamesIn(modules'), NamesIn(modules))
      /\ NameId(modules', n) \in 1 .. modules'.next - 1
      /\ modules'.reverse[NameId(modules', n)] = n
  BY <1>1, <1>2, NameAdded
<1>4. NamesInv'
  BY <1>1, <1>3 DEF NamesInv
<1>. QED
  BY <1>3, <1>4

\* CommitTransaction: the names of the session are the saved ones.
LEMMA NamesCommit ==
  ASSUME NamesInv, CommitTransaction
  PROVE  /\ NamesInv'
         /\ SavedNames(disk'.targets) = NamesIn(targets)
         /\ SavedNames(disk'.modules) = IF pc = "ood" THEN NamesIn(modules) ELSE SavedNames(disk.modules)
<1>1. /\ disk' = Updated /\ pc' = "idle" /\ pc # "idle"
      /\ targets' = NewStringStore /\ modules' = NewStringStore
  BY DEF CommitTransaction, Leave
<1>2. /\ disk'.targets = CommitNames(targets, disk.targets)
      /\ disk'.modules = CommitNames(modules, disk.modules)
      /\ disk' = [targets |-> disk'.targets, modules |-> disk'.modules, paths |-> disk'.paths,
                  items |-> disk'.items]
  BY <1>1 DEF Updated
<1>3. /\ NamesSaved(disk.targets) /\ NamesSaved(disk.modules)
      /\ NamesOpen(targets, disk.targets) /\ targets.init
      /\ pc = "ood" => NamesOpen(modules, disk.modules) /\ modules.init
      /\ pc # "ood" => modules = NewStringStore /\ ~modules.init
  BY <1>1 DEF NamesInv, NamesOpen, NewStringStore
<1>4. NamesSaved(disk'.targets) /\ SavedNames(disk'.targets) = NamesIn(targets)
  BY <1>2, <1>3, NamesCommitted DEF StoreOf
<1>5. /\ NamesSaved(disk'.modules)
      /\ SavedNames(disk'.modules) = IF pc = "ood" THEN NamesIn(modules) ELSE SavedNames(disk.modules)
  <2>1. StoreOf(modules, disk.modules) /\ (modules.init <=> pc = "ood")
    BY <1>3 DEF StoreOf
  <2>. QED
    BY <1>2, <1>3, <2>1, NamesCommitted
<1>. QED
  BY <1>1, <1>2, <1>4, <1>5 DEF NamesInv

\* Crash: the saved names are as before.
LEMMA NamesAbandon ==
  ASSUME NamesInv, Crash PROVE NamesInv'
BY DEF NamesInv, Crash, Leave

\* Clean does not touch the names.
LEMMA NamesClean ==
  ASSUME NamesInv, NEW r, NEW p, NEW t, Clean(r, p, t)
  PROVE  /\ NamesInv' /\ UNCHANGED <<pc, stores>>
         /\ disk'.targets = disk.targets /\ disk'.modules = disk.modules /\ disk'.paths = disk.paths
<1>1. UNCHANGED <<pc, targets, modules, paths>> /\ \E key : disk' = [disk EXCEPT !.items = Del(@, key)]
  BY DEF Clean, stores
<1>2. /\ disk'.targets = disk.targets /\ disk'.modules = disk.modules /\ disk'.paths = disk.paths
      /\ disk' = [targets |-> disk'.targets, modules |-> disk'.modules, paths |-> disk'.paths,
                  items |-> disk'.items]
  <2>. DEFINE ts == disk.targets
              ms == disk.modules
              ps == disk.paths
              is == disk.items
  <2>1. disk = [targets |-> ts, modules |-> ms, paths |-> ps, items |-> is]
    BY DEF NamesInv
  <2>2. PICK key : disk' = [disk EXCEPT !.items = Del(is, key)]
    BY <1>1
  <2>. HIDE DEF ts, ms, ps, is
  <2>3. disk' = [targets |-> ts, modules |-> ms, paths |-> ps, items |-> Del(is, key)]
    BY <2>1, <2>2
  <2>. QED
    BY <2>3 DEF ts, ms, ps, is
<1>. QED
  BY <1>1, <1>2 DEF NamesInv, stores

\* The steps that leave the names alone.
LEMMA NamesRest ==
  ASSUME NamesInv, UNCHANGED <<disk, pc, targets, modules>> PROVE NamesInv'
BY DEF NamesInv

\* Every step leaves the stores of names as they should be.
LEMMA NamesStep == ASSUME NamesInv, [Next]_vars PROVE NamesInv'
<1>1. ASSUME NEW r, NEW p, NEW t, NEW units, NEW ood \in BOOLEAN, BeginScan(r, p, t, units, ood)
      PROVE  NamesInv'
  BY <1>1, NamesBegin
<1>2. ASSUME NEW r, NEW p, NEW t, Clean(r, p, t) PROVE NamesInv'
  BY <1>2, NamesClean
<1>3. ASSUME NEW n, ExpLine(n) \/ ImpLine(n) PROVE NamesInv'
  BY <1>3, NamesLine
<1>4. CASE HeaderLine \/ (\E p \in Paths : PathLine(p)) \/ NoMoreCommands \/ UNCHANGED vars
  BY <1>4, NamesRest DEF HeaderLine, PathLine, Reporting, NoMoreCommands, vars, stores
<1>. QED
  BY <1>1, <1>2, <1>3, <1>4, NamesCommit, NamesAbandon DEF Next

\* The stores of names are as they should be, and appending new ones succeeds.
THEOREM NamesInvariance == Spec => []NamesInv
BY NamesInit, NamesStep, PTL DEF Spec

\* AppendsSucceed: MDB_APPEND never fails when names are committed.
THEOREM AppendsDoSucceed == Spec => []AppendsSucceed
<1>1. NamesInv => AppendsSucceed
  BY NamesFollow DEF NamesInv, AppendsSucceed, StoreOf
<1>. QED
  BY <1>1, NamesInvariance, PTL

\* The refinement: the tables of targets and modules.
TargetSession == Session(NamesIn(targets), SavedNames(disk.targets))
ModuleSession == IF modules.init THEN NamesIn(modules) ELSE SavedNames(disk.modules)

\* A step of a table: what is saved and the session, before and after.
TableStep(saved, session, saved2, session2) ==
    \/ /\ StartsWith(session2, session)
       /\ Distinct(session2)
       /\ saved2 = saved
    \/ saved2 = session /\ session2 = session
    \/ session2 = saved /\ saved2 = saved
    \/ session2 = session /\ saved2 = saved

\* A step of the program is one of the table of targets.
LEMMA TargetTableStep ==
  ASSUME NamesInv, [Next]_vars
  PROVE  TableStep(SavedNames(disk.targets), TargetSession,
                   SavedNames(disk'.targets), TargetSession')
<1>1. ASSUME NEW r, NEW p, NEW t, NEW units, NEW ood \in BOOLEAN, BeginScan(r, p, t, units, ood)
      PROVE  /\ StartsWith(TargetSession', TargetSession)
             /\ Distinct(TargetSession')
             /\ SavedNames(disk'.targets) = SavedNames(disk.targets)
  <2>1. NamesInv' /\ StartsWith(NamesIn(targets'), SavedNames(disk.targets))
    BY <1>1, NamesBegin
  <2>2. pc = "idle" /\ pc' # "idle" /\ disk' = disk
    BY <1>1 DEF BeginScan
  <2>3. TargetSession = SavedNames(disk.targets) /\ TargetSession' = NamesIn(targets')
    BY <2>2 DEF TargetSession, Session
  <2>4. NamesOpen(targets', disk'.targets) /\ NamesSaved(disk'.targets)
    BY <2>1, <2>2 DEF NamesInv
  <2>. QED
    BY <2>1, <2>2, <2>3, <2>4, NamesAreTable
<1>2. CASE CommitTransaction
  <2>1. SavedNames(disk'.targets) = NamesIn(targets) /\ pc # "idle" /\ pc' = "idle"
    BY <1>2, NamesCommit DEF CommitTransaction, Leave
  <2>. QED
    BY <2>1 DEF TableStep, TargetSession, Session
<1>3. CASE Crash
  BY <1>3 DEF Crash, Leave, TableStep, TargetSession, Session
<1>4. ASSUME NEW r, NEW p, NEW t, Clean(r, p, t)
      PROVE  TargetSession' = TargetSession /\ SavedNames(disk'.targets) = SavedNames(disk.targets)
  BY <1>4, NamesClean DEF TargetSession, Session, stores
<1>5. CASE \/ HeaderLine \/ NoMoreCommands \/ UNCHANGED vars
           \/ \E n \in Names : ExpLine(n) \/ ImpLine(n)
           \/ \E p \in Paths : PathLine(p)
  <2>1. UNCHANGED <<disk, pc, targets>>
    BY <1>5 DEF HeaderLine, ExpLine, ImpLine, PathLine, Reporting, NoMoreCommands, vars, stores
  <2>. QED
    BY <2>1 DEF TableStep, TargetSession, Session
<1>. QED
  BY <1>1, <1>2, <1>3, <1>4, <1>5 DEF Next, TableStep, TargetSession, Session

\* A step of the program is one of the table of modules.
LEMMA ModuleTableStep ==
  ASSUME NamesInv, [Next]_vars
  PROVE  TableStep(SavedNames(disk.modules), ModuleSession,
                   SavedNames(disk'.modules), ModuleSession')
<1>. DEFINE M(s, db) == IF s.init THEN NamesIn(s) ELSE SavedNames(db)
<1>1. /\ ModuleSession = M(modules, disk.modules) /\ ModuleSession' = M(modules', disk'.modules)
      /\ ~NewStringStore.init
  BY DEF ModuleSession, NewStringStore
<1>2. ASSUME NEW r, NEW p, NEW t, NEW units, NEW ood \in BOOLEAN, BeginScan(r, p, t, units, ood)
      PROVE  ModuleSession' = ModuleSession /\ disk' = disk
  <2>1. NamesInv' /\ NamesIn(modules') = (IF ood THEN SavedNames(disk.modules) ELSE NamesIn(modules))
    BY <1>2, NamesBegin
  <2>2. pc = "idle" /\ pc' = (IF ood THEN "ood" ELSE "write") /\ disk' = disk
    BY <1>2 DEF BeginScan
  <2>3. modules = NewStringStore /\ ~modules.init
    BY <1>1, <2>2 DEF NamesInv
  <2>4. IF ood THEN modules'.init ELSE modules' = NewStringStore
    BY <2>1, <2>2 DEF NamesInv, NamesOpen
  <2>. QED
    BY <1>1, <2>1, <2>2, <2>3, <2>4
<1>3. CASE CommitTransaction
  <2>1. /\ SavedNames(disk'.modules) = (IF pc = "ood" THEN NamesIn(modules) ELSE SavedNames(disk.modules))
        /\ modules' = NewStringStore
    BY <1>3, NamesCommit DEF CommitTransaction, Leave
  <2>2. modules.init <=> pc = "ood"
    BY <1>1 DEF NamesInv, NamesOpen
  <2>. QED
    BY <1>1, <2>1, <2>2 DEF TableStep
<1>4. CASE Crash
  <2>1. modules' = NewStringStore /\ disk' = disk
    BY <1>4 DEF Crash, Leave
  <2>. QED
    BY <1>1, <2>1 DEF TableStep
<1>5. ASSUME NEW r, NEW p, NEW t, Clean(r, p, t)
      PROVE  ModuleSession' = ModuleSession /\ SavedNames(disk'.modules) = SavedNames(disk.modules)
  BY <1>5, NamesClean DEF ModuleSession, stores
<1>6. ASSUME NEW n, ExpLine(n) \/ ImpLine(n)
      PROVE  /\ StartsWith(ModuleSession', ModuleSession)
             /\ Distinct(ModuleSession')
             /\ SavedNames(disk'.modules) = SavedNames(disk.modules)
  <2>1. NamesInv' /\ StartsWith(NamesIn(modules'), NamesIn(modules))
    BY <1>6, NamesLine
  <2>2. pc = "ood" /\ pc' = "ood" /\ disk' = disk
    BY <1>6 DEF ExpLine, ImpLine, Reporting
  <2>3. NamesOpen(modules', disk'.modules) /\ NamesSaved(disk'.modules) /\ NamesOpen(modules, disk.modules)
    BY <2>1, <2>2 DEF NamesInv
  <2>4. ModuleSession = NamesIn(modules) /\ ModuleSession' = NamesIn(modules')
    BY <1>1, <2>3 DEF NamesOpen
  <2>. QED
    BY <2>1, <2>2, <2>3, <2>4, NamesAreTable
<1>7. CASE \/ HeaderLine \/ NoMoreCommands \/ UNCHANGED vars
           \/ \E p \in Paths : PathLine(p)
  <2>1. UNCHANGED <<disk, modules>>
    BY <1>7 DEF HeaderLine, PathLine, Reporting, NoMoreCommands, vars, stores
  <2>. QED
    BY <2>1 DEF TableStep, ModuleSession
<1>. QED
  <2>1. (\E n \in Names : ExpLine(n) \/ ImpLine(n)) \/ (\E r, p, t : Clean(r, p, t))
        \/ (\E r, p, t, units : \E ood \in BOOLEAN : BeginScan(r, p, t, units, ood))
        => TableStep(SavedNames(disk.modules), ModuleSession,
                     SavedNames(disk'.modules), ModuleSession')
    BY <1>2, <1>5, <1>6 DEF TableStep
  <2>. QED
    BY <1>3, <1>4, <1>7, <2>1 DEF Next

\* ImplementsStringTables: the stores of targets and modules are tables of names,
\* each of which grows by whole sessions.
THEOREM StringStoresAreTables == Spec => ImplementsStringTables
<1>1. Init => TargetTable!TableInit /\ ModuleTable!TableInit
  <2>1. SavedNames(EmptyDb) = <<>> /\ ~NewStringStore.init
    BY DEF SavedNames, EmptyDb, Has, NewStringStore
  <2>2. Init => disk.targets = EmptyDb /\ disk.modules = EmptyDb
    BY DEF Init, EmptyDisk
  <2>. QED
    BY <2>1, <2>2 DEF Init, Session, TargetTable!TableInit, ModuleTable!TableInit
<1>2. NamesInv /\ [Next]_vars =>
        [TargetTable!Grow \/ TargetTable!Save \/ TargetTable!Abandon]_<<SavedNames(disk.targets),
            Session(NamesIn(targets), SavedNames(disk.targets))>>
  BY TargetTableStep DEF TableStep, TargetSession, StartsWith, Distinct, TargetTable!Grow, TargetTable!Save,
     TargetTable!Abandon, TargetTable!Extends
<1>3. NamesInv /\ [Next]_vars =>
        [ModuleTable!Grow \/ ModuleTable!Save \/ ModuleTable!Abandon]_<<SavedNames(disk.modules),
            IF modules.init THEN NamesIn(modules) ELSE SavedNames(disk.modules)>>
  BY ModuleTableStep DEF TableStep, ModuleSession, StartsWith, Distinct, ModuleTable!Grow, ModuleTable!Save,
     ModuleTable!Abandon, ModuleTable!Extends
<1>. QED
  BY <1>1, <1>2, <1>3, NamesInvariance, PTL DEF Spec, ImplementsStringTables, TargetTable!TableSpec,
     ModuleTable!TableSpec

\* Normalizing a path component by component, from a normalized current_path,
\* leaves what the whole path means: the directories that it enters and does not
\* leave again (normalize of lmdb_path_store.h).
THEOREM NormalizeMeans ==
  ASSUME NEW r \in Seq(Component), Absolute(r), NEW p \in Seq(Component), ~ClimbsAboveRoot(r, p)
  PROVE  Normalize(Normalize(<<Root>>, r), p) = Meaning(r, p)
<1>. DEFINE full == Full(r, p)
            n == Len(full)
            T == {k \in Dirs(full, n) : \A l \in k + 1 .. n : Depth(full, l) >= Depth(full, k)}
            path == Normalize(Normalize(<<Root>>, r), p)
            pick(d) == CHOOSE k \in T : Cardinality({l \in T : l < k}) = d - 1
            tail == [d \in 1 .. Cardinality(T) |-> full[pick(d)]]
<1>1. Meaning(r, p) = <<Root>> \o tail
  BY Zenon DEF Meaning
<1>2. T = Staying(full, n)
  BY DEF Staying, Dirs
<1>. HIDE DEF T
<1>3. Descends(full)
  BY WholeDescends
<1>4. PICK out : Walk(full, out) /\ out[n] = path
  BY WholeWalk
<1>5. n \in Nat /\ full \in Seq(Component)
  BY <1>3 DEF Descends
<1>6. path \in Seq(Component) /\ Walked(full, path, n)
  BY <1>3, <1>4, <1>5, WalkEnds
<1>7. /\ Cardinality(T) = Depth(full, n)
      /\ \A k \in T : Cardinality({l \in T : l < k}) = Depth(full, k) - 1 /\ Depth(full, k) \in 1 .. Cardinality(T)
      /\ \A k, l \in T : Depth(full, k) = Depth(full, l) => k = l
  BY <1>2, <1>3, <1>6, StayingRanks
<1>8. Cardinality(T) \in Nat
  BY <1>3, <1>5, <1>7 DEF Descends
<1>9. ASSUME NEW d \in 1 .. Cardinality(T) PROVE path[d + 1] = full[pick(d)] /\ full[pick(d)] \in Component
  <2>1. PICK k \in T : Depth(full, k) = d /\ path[d + 1] = full[k]
    BY <1>2, <1>6, <1>7 DEF Walked
  <2>2. Cardinality({l \in T : l < k}) = d - 1
    BY <1>7, <2>1
  <2>3. pick(d) \in T /\ Cardinality({l \in T : l < pick(d)}) = d - 1
    BY <2>1, <2>2, Zenon
  <2>4. Depth(full, pick(d)) - 1 = d - 1 /\ Depth(full, pick(d)) \in 1 .. Cardinality(T)
    BY <1>7, <2>3
  <2>5. Depth(full, pick(d)) = d
    BY <1>8, <2>4
  <2>6. pick(d) = k
    BY <1>7, <2>1, <2>3, <2>5
  <2>7. full[k] \in Component
    BY <1>2, <1>5, <2>1 DEF Staying
  <2>. QED
    BY <2>1, <2>6, <2>7
<1>. HIDE DEF path, pick
<1>10. tail \in Seq(Component) /\ Len(tail) = Cardinality(T)
  BY <1>8, <1>9
<1>11. \A d \in 1 .. Cardinality(T) : tail[d] = path[d + 1]
  BY <1>9
<1>. HIDE DEF tail
<1>12. /\ <<Root>> \o tail \in Seq(Component)
       /\ Len(<<Root>> \o tail) = Cardinality(T) + 1
       /\ (<<Root>> \o tail)[1] = Root
       /\ \A d \in 1 .. Cardinality(T) : (<<Root>> \o tail)[d + 1] = tail[d]
  <2>1. \A c \in Component : /\ <<c>> \o tail \in Seq(Component)
                             /\ Len(<<c>> \o tail) = Cardinality(T) + 1
                             /\ (<<c>> \o tail)[1] = c
                             /\ \A d \in 1 .. Cardinality(T) : (<<c>> \o tail)[d + 1] = tail[d]
    BY <1>8, <1>10
  <2>. QED
    BY <2>1, Components, Zenon
<1>13. Len(path) = Cardinality(T) + 1 /\ path[1] = Root
  BY <1>2, <1>6, <1>7 DEF Walked
<1>14. \A i \in 1 .. Cardinality(T) + 1 : path[i] = (<<Root>> \o tail)[i]
  <2>. SUFFICES ASSUME NEW i \in 1 .. Cardinality(T) + 1 PROVE path[i] = (<<Root>> \o tail)[i]
    OBVIOUS
  <2>1. CASE i = 1
    BY <1>12, <1>13, <2>1
  <2>2. CASE i # 1
    <3>1. i - 1 \in 1 .. Cardinality(T) /\ (i - 1) + 1 = i
      BY <1>8, <2>2
    <3>. QED
      BY <1>11, <1>12, <3>1
  <2>. QED
    BY <2>1, <2>2
<1>15. path = <<Root>> \o tail
  BY <1>6, <1>12, <1>13, <1>14, SameSequence
<1>. QED
  BY <1>1, <1>15 DEF path

\* Whether a path can be added depends on current_path only.
LEMMA AddableToo ==
  ASSUME NEW s, NEW t, t.cwd = s.cwd, NEW p, Addable(s, p)
  PROVE  Addable(t, p)
BY DEF Addable

\* The references of a store that was read.
LEMMA OpenFields ==
  ASSUME NEW db, NEW s, PathsOpen(s, db)
  PROVE  /\ Len(s.refs) \in Nat /\ NormalPath(s.cwd) /\ s.cwd \in Seq(Component) /\ BufferOK(s.buf)
         /\ s.refs \in Seq(Ref) /\ s.next = Len(s.refs) + 1
<1>1. PathsHeld(s)
  BY DEF PathsOpen
<1>. QED
  BY <1>1 DEF PathsHeld, NormalPath

\* A store that has grown twice has grown.
LEMMA GrownFurther ==
  ASSUME NEW s, NEW t, NEW u, Grown(t, s), Grown(u, t), Len(s.refs) \in Nat, Len(t.refs) \in Nat, Len(u.refs) \in Nat
  PROVE  Grown(u, s)
<1>1. /\ t.cwd = s.cwd /\ Len(s.refs) <= Len(t.refs) /\ u.cwd = t.cwd /\ Len(t.refs) <= Len(u.refs)
      /\ \A i \in 1 .. Len(s.refs) : PathAt(t, i) = PathAt(s, i)
      /\ \A i \in 1 .. Len(t.refs) : PathAt(u, i) = PathAt(t, i)
  BY DEF Grown
<1>2. \A i \in 1 .. Len(s.refs) : i \in 1 .. Len(t.refs)
  BY <1>1
<1>3. \A i \in 1 .. Len(s.refs) : PathAt(u, i) = PathAt(s, i)
  BY <1>1, <1>2
<1>4. u.cwd = s.cwd /\ Len(s.refs) <= Len(u.refs)
  BY <1>1
<1>. QED
  BY <1>3, <1>4 DEF Grown

\* All stores that were read from db and are like s, but for more paths.
PathStores == [buf : Buffer, refs : Seq(Ref), max : Nat, next : Nat, cwd : Seq(Component), cwdId : Nat]
GrownStores(s, db) == {t \in PathStores : PathsOpen(t, db) /\ Grown(t, s)}

\* A store that has grown from an open one, as an element of a set.
LEMMA OpenStores ==
  ASSUME NEW db, PathsSaved(db), NEW s, NEW t, PathsOpen(t, db), Grown(t, s)
  PROVE  t \in GrownStores(s, db)
<1>1. /\ t = [buf |-> t.buf, refs |-> t.refs, max |-> t.max, next |-> t.next, cwd |-> t.cwd, cwdId |-> t.cwdId]
      /\ t.buf \in Buffer /\ t.refs \in Seq(Ref) /\ t.next = Len(t.refs) + 1 /\ t.cwd \in Seq(Component)
      /\ t.cwdId \in Nat /\ t.max = Len(SavedRefs(db)) /\ SavedRefs(db) \in Seq(Ref)
  BY DEF PathsOpen, PathsHeld, BufferOK, NormalPath, PathsSaved
<1>2. t.next \in Nat /\ t.max \in Nat
  BY <1>1
<1>3. t \in PathStores
  BY <1>1, <1>2 DEF PathStores
<1>. QED
  BY <1>3 DEF GrownStores

\* try_add for one header unit after the other.
LEMMA UnitsAdded ==
  ASSUME NEW db, PathsSaved(db), NEW s, PathsOpen(s, db), NEW units \in Seq(Seq(Component)),
         \A k \in 1 .. Len(units) : Addable(s, units[k])
  PROVE  PathsOpen(AddUnits(s, units), db) /\ Grown(AddUnits(s, units), s)
<1>. DEFINE n == Len(units)
            added[k \in 0 .. Len(units)] ==
              IF k = 0 THEN s ELSE TryAddPath(added[k - 1], units[k])
            V == GrownStores(s, db)
            step == [k \in 1 .. n |-> [t \in V |-> TryAddPath(t, units[k])]]
<1>1. n \in Nat /\ Len(s.refs) \in Nat
  BY DEF PathsOpen, PathsHeld
<1>2. AddUnits(s, units) = added[n]
  BY DEF AddUnits
<1>3. added = CHOOSE g : g = [k \in 0 .. n |-> IF k = 0 THEN s ELSE TryAddPath(g[k - 1], units[k])]
  BY DEF added
<1>. HIDE DEF added
<1>4. s \in V
  <2>1. Grown(s, s)
    BY <1>1 DEF Grown
  <2>. QED
    BY <2>1, OpenStores
<1>5. ASSUME NEW k \in 1 .. n, NEW t \in V PROVE TryAddPath(t, units[k]) \in V
  <2>1. PathsOpen(t, db) /\ Grown(t, s)
    BY DEF GrownStores
  <2>2. units[k] \in Seq(Component) /\ Addable(t, units[k])
    <3>1. t.cwd = s.cwd
      BY <2>1 DEF Grown
    <3>. QED
      BY <3>1, AddableToo
  <2>. DEFINE u == TryAddPath(t, units[k])
  <2>3. PathsOpen(u, db) /\ Grown(u, t)
    BY <2>1, <2>2, PathTaken
  <2>. HIDE DEF u
  <2>4. Len(t.refs) \in Nat /\ Len(u.refs) \in Nat
    BY <2>1, <2>3, OpenFields
  <2>5. Grown(u, s)
    BY <1>1, <2>1, <2>3, <2>4, GrownFurther
  <2>6. u \in V
    BY <2>3, <2>5, OpenStores
  <2>. QED
    BY <2>6 DEF u
<1>. HIDE DEF V
<1>6. step \in [1 .. n -> [V -> V]]
  BY <1>5
<1>7. PICK f : Recursive(f, n, V, s, step)
  BY <1>1, <1>4, <1>6, Recursion
<1>8. ASSUME NEW k \in 1 .. n PROVE k - 1 \in 0 .. n /\ f[k] = TryAddPath(f[k - 1], units[k])
  <2>1. k - 1 \in 0 .. n
    BY <1>1
  <2>2. f[k - 1] \in V
    BY <1>7, <2>1 DEF Recursive
  <2>3. f[k] = step[k][f[k - 1]]
    BY <1>7 DEF Recursive
  <2>. QED
    BY <2>1, <2>2, <2>3
<1>9. f = [k \in 0 .. n |-> IF k = 0 THEN s ELSE TryAddPath(f[k - 1], units[k])]
  <2>1. f \in [0 .. n -> V] /\ f[0] = s
    BY <1>7 DEF Recursive
  <2>. HIDE DEF step
  <2>2. \A k \in 0 .. n : f[k] = IF k = 0 THEN s ELSE TryAddPath(f[k - 1], units[k])
    <3>. SUFFICES ASSUME NEW k \in 0 .. n PROVE f[k] = IF k = 0 THEN s ELSE TryAddPath(f[k - 1], units[k])
      OBVIOUS
    <3>1. k # 0 => k \in 1 .. n
      BY <1>1
    <3>. QED
      BY <1>8, <2>1, <3>1
  <2>3. f = [k \in 0 .. n |-> f[k]]
    BY <2>1
  <2>. QED
    BY <2>2, <2>3, Zenon
<1>10. added = [k \in 0 .. n |-> IF k = 0 THEN s ELSE TryAddPath(added[k - 1], units[k])]
  BY <1>3, <1>9
<1>11. added[0] = s /\ \A k \in 0 .. n : k # 0 => added[k] = TryAddPath(added[k - 1], units[k])
  <2>1. 0 \in 0 .. n
    BY <1>1
  <2>. QED
    BY <1>10, <2>1, Zenon
<1>. DEFINE S == {k \in Nat : k <= n => added[k] \in V}
<1>12. 0 \in S
  BY <1>4, <1>11
<1>13. ASSUME NEW k \in S PROVE k + 1 \in S
  <2>. SUFFICES ASSUME k + 1 <= n PROVE added[k + 1] \in V
    BY DEF S
  <2>1. k \in Nat /\ added[k] \in V /\ k + 1 \in 1 .. n /\ k + 1 \in 0 .. n /\ k + 1 # 0 /\ (k + 1) - 1 = k
    BY <1>1, <1>13
  <2>2. added[k + 1] = TryAddPath(added[k], units[k + 1])
    BY <1>11, <2>1
  <2>. QED
    BY <1>5, <2>1, <2>2
<1>14. S = Nat
  <2>1. S \in SUBSET Nat
    OBVIOUS
  <2>. HIDE DEF S
  <2>. QED
    BY <1>12, <1>13, <2>1, Induction
<1>15. added[n] \in V
  BY <1>1, <1>14
<1>. QED
  BY <1>2, <1>15 DEF V, GrownStores

-----------------------------------------------------------------------------
(* The store of paths, and what the scan in progress has added to it. *)

PathsInv ==
    /\ PathsSaved(disk.paths)
    /\ IF pc = "idle" THEN paths = NewPathStore ELSE PathsOpen(paths, disk.paths)
    /\ pc # "idle" =>
         /\ item.root \in Roots /\ item.path \in ItemPaths
         /\ paths.cwd = Normalize(<<Root>>, item.root)

\* The paths of the model are made of components.
LEMMA PathsKnown ==
  ASSUME NEW p \in Roots \cup Paths \cup ItemPaths \cup UnitPaths
  PROVE  p \in Seq(Component)
<1>1. p \in Seq(STRING)
  BY StoresAssumption
<1>. QED
  BY <1>1, ComponentPaths

\* A root can become current_path.
LEMMA RootsKnown ==
  ASSUME NEW r \in Roots
  PROVE  r \in Seq(Component) /\ r # <<>> /\ Absolute(r) /\ Fits(NewPathStore, r)
<1>1. Absolute(r) /\ Addable(NewPathStore, r)
  BY StoresAssumption
<1>2. r # <<>>
  BY <1>1 DEF Absolute
<1>. QED
  BY <1>1, <1>2, PathsKnown DEF Addable, Fits

\* What a scan does to the store before the tool runs.
LEMMA PathsBegun ==
  ASSUME PathsSaved(disk.paths), NEW r \in Roots, NEW p \in ItemPaths, NEW units \in Seq(UnitPaths),
         Addable(ReadPaths(disk.paths, r), p),
         \A k \in DOMAIN units : Addable(ReadPaths(disk.paths, r), units[k])
  PROVE  LET ps == AddUnits(TryAddPath(ReadPaths(disk.paths, r), p), units)
         IN /\ PathsOpen(ps, disk.paths) /\ ps.cwd = Normalize(<<Root>>, r)
            /\ PathId(ps, p) \in 1 .. Len(ps.refs) /\ PathAt(ps, PathId(ps, p)) = Normalize(ps.cwd, p)
<1>. DEFINE db == disk.paths
            read == ReadPaths(db, r)
            t == TryAddPath(read, p)
            ps == AddUnits(t, units)
<1>1. PathsOpen(read, db) /\ read.cwd = Normalize(<<Root>>, r)
  BY RootsKnown, PathsRead
<1>2. p \in Seq(Component) /\ Addable(read, p)
  BY PathsKnown
<1>3. \A k \in DOMAIN units : Addable(read, units[k])
  OBVIOUS
<1>. HIDE DEF read
<1>4. /\ PathsOpen(t, db) /\ Grown(t, read)
      /\ PathId(t, p) \in 1 .. Len(t.refs) /\ PathAt(t, PathId(t, p)) = Normalize(read.cwd, p)
  BY <1>1, <1>2, PathTaken
<1>. HIDE DEF t
<1>5. t.cwd = read.cwd
  BY <1>4 DEF Grown
<1>6. units \in Seq(Seq(Component)) /\ \A k \in 1 .. Len(units) : Addable(t, units[k])
  <2>1. Len(units) \in Nat /\ DOMAIN units = 1 .. Len(units) /\ units \in [1 .. Len(units) -> UnitPaths]
    OBVIOUS
  <2>2. \A k \in 1 .. Len(units) : Addable(t, units[k])
    BY <1>3, <1>5, <2>1, AddableToo
  <2>3. units \in [1 .. Len(units) -> Seq(Component)]
    BY <2>1, PathsKnown
  <2>. QED
    BY <2>1, <2>2, <2>3
<1>7. PathsOpen(ps, db) /\ Grown(ps, t)
  BY <1>4, <1>6, UnitsAdded
<1>. HIDE DEF ps
<1>8. /\ ps.cwd = t.cwd /\ PathId(t, p) \in 1 .. Len(ps.refs)
      /\ PathAt(ps, PathId(t, p)) = PathAt(t, PathId(t, p))
  <2>1. Len(t.refs) \in Nat /\ Len(ps.refs) \in Nat
    BY <1>4, <1>7 DEF PathsOpen, PathsHeld
  <2>. QED
    BY <1>4, <1>7, <2>1 DEF Grown
<1>9. PathId(ps, p) = PathId(t, p)
  BY <1>2, <1>4, <1>5, <1>7, <1>8, PathFound
<1>. QED
  BY <1>1, <1>4, <1>5, <1>7, <1>8, <1>9 DEF ps, t, read

\* The tables of a store and of its database.
LEMMA SavedLen ==
  ASSUME NEW db, PathsSaved(db)
  PROVE  Len(SavedPaths(db)) = Len(SavedRefs(db)) /\ Len(SavedRefs(db)) \in Nat
<1>1. Len(SavedRefs(db)) \in Nat
  BY DEF PathsSaved
<1>2. Len(SavedRefs(db)) = IF Has(db, 0) THEN Len(db[0]) ELSE 0
  BY DEF SavedRefs
<1>3. DOMAIN SavedPaths(db) = 1 .. Len(SavedRefs(db))
  BY <1>2 DEF SavedPaths
<1>4. SavedPaths(db) = [i \in 1 .. Len(SavedRefs(db)) |-> SavedPaths(db)[i]]
  BY <1>2 DEF SavedPaths
<1>. QED
  BY <1>1, <1>3, <1>4

\* The paths of a store have different ids, those of the database theirs.
LEMMA PathsAreTable ==
  ASSUME NEW db, PathsSaved(db), NEW s, PathsOpen(s, db)
  PROVE  /\ StartsWith(PathsIn(s), SavedPaths(db)) /\ Distinct(PathsIn(s))
         /\ Len(PathsIn(s)) = Len(s.refs) /\ \A i \in 1 .. Len(s.refs) : PathsIn(s)[i] = PathAt(s, i)
<1>1. /\ PathsHeld(s) /\ s.max = Len(SavedRefs(db)) /\ s.max <= Len(s.refs)
      /\ \A i \in 1 .. s.max : PathAt(s, i) = SavedPaths(db)[i]
  BY DEF PathsOpen
<1>2. Len(PathsIn(s)) = Len(s.refs) /\ Len(s.refs) \in Nat /\ \A i \in 1 .. Len(s.refs) : PathsIn(s)[i] = PathAt(s, i)
  BY <1>1, PathsInSeq
<1>3. Len(SavedPaths(db)) = s.max /\ s.max \in Nat
  BY <1>1, SavedLen
<1>4. Distinct(PathsIn(s))
  BY <1>1, <1>2 DEF PathsHeld, Distinct
<1>5. \A i \in 1 .. s.max : i \in 1 .. Len(s.refs)
  BY <1>1, <1>2, <1>3
<1>6. StartsWith(PathsIn(s), SavedPaths(db))
  BY <1>1, <1>2, <1>3, <1>5 DEF StartsWith
<1>. QED
  BY <1>2, <1>4, <1>6

\* A store that has grown has the same ids for what it had.
LEMMA GrownTable ==
  ASSUME NEW db, PathsSaved(db), NEW s, PathsOpen(s, db), NEW t, PathsOpen(t, db), Grown(t, s)
  PROVE  StartsWith(PathsIn(t), PathsIn(s)) /\ Distinct(PathsIn(t))
<1>1. Len(PathsIn(s)) = Len(s.refs) /\ \A i \in 1 .. Len(s.refs) : PathsIn(s)[i] = PathAt(s, i)
  BY PathsAreTable
<1>2. /\ Len(PathsIn(t)) = Len(t.refs) /\ \A i \in 1 .. Len(t.refs) : PathsIn(t)[i] = PathAt(t, i)
      /\ Distinct(PathsIn(t))
  BY PathsAreTable
<1>3. Len(s.refs) \in Nat /\ Len(t.refs) \in Nat
  BY OpenFields
<1>4. Len(s.refs) <= Len(t.refs) /\ \A i \in 1 .. Len(s.refs) : PathAt(t, i) = PathAt(s, i)
  BY DEF Grown
<1>5. \A i \in 1 .. Len(s.refs) : i \in 1 .. Len(t.refs)
  BY <1>3, <1>4
<1>6. \A i \in 1 .. Len(PathsIn(s)) : PathsIn(t)[i] = PathsIn(s)[i]
  BY <1>1, <1>2, <1>4, <1>5
<1>. QED
  BY <1>1, <1>2, <1>4, <1>6 DEF StartsWith

\* A scan begins.
LEMMA PathsBegin ==
  ASSUME PathsInv, NEW r \in Roots, NEW p \in ItemPaths, NEW t, NEW units \in Seq(UnitPaths), NEW ood \in BOOLEAN,
         BeginScan(r, p, t, units, ood)
  PROVE  /\ PathsInv' /\ PathsOpen(paths', disk.paths)
         /\ PathId(paths', p) \in 1 .. Len(paths'.refs)
         /\ PathAt(paths', PathId(paths', p)) = Normalize(paths'.cwd, p)
<1>1. /\ pc = "idle" /\ pc' = (IF ood THEN "ood" ELSE "write") /\ disk' = disk
      /\ item' = [root |-> r, path |-> p, target |-> t, units |-> units]
      /\ Addable(ReadPaths(disk.paths, r), p)
      /\ \A k \in DOMAIN units : Addable(ReadPaths(disk.paths, r), units[k])
      /\ paths' = AddUnits(TryAddPath(ReadPaths(disk.paths, r), p), units)
  BY Zenon DEF BeginScan
<1>2. PathsSaved(disk.paths)
  BY DEF PathsInv
<1>3. /\ PathsOpen(paths', disk.paths) /\ paths'.cwd = Normalize(<<Root>>, r)
      /\ PathId(paths', p) \in 1 .. Len(paths'.refs) /\ PathAt(paths', PathId(paths', p)) = Normalize(paths'.cwd, p)
  BY <1>1, <1>2, PathsBegun
<1>4. item'.root = r /\ item'.path = p /\ pc' # "idle"
  BY <1>1
<1>5. PathsInv'
  BY <1>1, <1>2, <1>3, <1>4 DEF PathsInv
<1>. QED
  BY <1>3, <1>5

\* A line of the tool with a path.
LEMMA PathsLine ==
  ASSUME PathsInv, NEW p \in Paths, PathLine(p)
  PROVE  /\ PathsInv' /\ PathsOpen(paths, disk.paths) /\ PathsOpen(paths', disk.paths) /\ Grown(paths', paths)
         /\ PathId(paths', p) \in 1 .. Len(paths'.refs)
         /\ PathAt(paths', PathId(paths', p)) = Normalize(paths.cwd, p)
<1>1. /\ pc = "ood" /\ UNCHANGED <<pc, disk, item>> /\ Addable(paths, p) /\ paths' = TryAddPath(paths, p)
  BY DEF PathLine, Reporting
<1>2. /\ PathsSaved(disk.paths) /\ PathsOpen(paths, disk.paths)
      /\ item.root \in Roots /\ item.path \in ItemPaths /\ paths.cwd = Normalize(<<Root>>, item.root)
  BY <1>1 DEF PathsInv
<1>3. p \in Seq(Component)
  BY PathsKnown
<1>4. /\ PathsOpen(paths', disk.paths) /\ Grown(paths', paths)
      /\ PathId(paths', p) \in 1 .. Len(paths'.refs)
      /\ PathAt(paths', PathId(paths', p)) = Normalize(paths.cwd, p)
  BY <1>1, <1>2, <1>3, PathTaken
<1>5. paths'.cwd = paths.cwd
  BY <1>4 DEF Grown
<1>6. PathsInv'
  BY <1>1, <1>2, <1>4, <1>5 DEF PathsInv
<1>. QED
  BY <1>2, <1>4, <1>6

\* CommitTransaction: the paths of the session are the saved ones.
LEMMA PathsCommit ==
  ASSUME PathsInv, CommitTransaction
  PROVE  PathsInv' /\ SavedPaths(disk'.paths) = PathsIn(paths) /\ PathsOpen(paths, disk.paths)
<1>1. disk' = Updated /\ pc # "idle" /\ pc' = "idle" /\ paths' = NewPathStore
  BY DEF CommitTransaction, Leave
<1>2. disk'.paths = CommitPaths(paths, disk.paths)
  BY <1>1 DEF Updated
<1>3. PathsSaved(disk.paths) /\ PathsOpen(paths, disk.paths)
  BY <1>1 DEF PathsInv
<1>4. PathsSaved(disk'.paths) /\ SavedPaths(disk'.paths) = PathsIn(paths)
  BY <1>2, <1>3, PathsCommitted
<1>. QED
  BY <1>1, <1>3, <1>4 DEF PathsInv

\* The header units that Next lets a scan have.
LEMMA OneUnit ==
  ASSUME NEW units \in {<<>>} \cup {<<q>> : q \in UnitPaths} PROVE units \in Seq(UnitPaths)
<1>1. CASE units = <<>>
  BY <1>1
<1>2. ASSUME NEW q \in UnitPaths, units = <<q>> PROVE units \in Seq(UnitPaths)
  BY <1>2
<1>. QED
  BY <1>1, <1>2

\* Every step leaves the store of paths as it should be.
LEMMA PathsStep == ASSUME NamesInv, PathsInv, [Next]_vars PROVE PathsInv'
<1>1. ASSUME NEW r \in Roots, NEW p \in ItemPaths, NEW t,
             NEW units \in {<<>>} \cup {<<q>> : q \in UnitPaths}, NEW ood \in BOOLEAN,
             BeginScan(r, p, t, units, ood)
      PROVE  PathsInv'
  BY <1>1, OneUnit, PathsBegin
<1>2. ASSUME NEW r, NEW p, NEW t, Clean(r, p, t) PROVE PathsInv'
  <2>1. disk'.paths = disk.paths /\ UNCHANGED <<pc, paths, item>>
    BY <1>2, NamesClean DEF Clean, stores
  <2>. QED
    BY <2>1 DEF PathsInv
<1>3. ASSUME NEW p \in Paths, PathLine(p) PROVE PathsInv'
  BY <1>3, PathsLine
<1>4. CASE HeaderLine \/ (\E n \in Names : ExpLine(n) \/ ImpLine(n)) \/ NoMoreCommands \/ UNCHANGED vars
  <2>1. UNCHANGED <<disk, pc, paths, item>>
    BY <1>4 DEF HeaderLine, ExpLine, ImpLine, Reporting, NoMoreCommands, vars, stores
  <2>. QED
    BY <2>1 DEF PathsInv
<1>5. CASE Crash
  BY <1>5 DEF Crash, Leave, PathsInv
<1>6. CASE CommitTransaction
  BY <1>6, PathsCommit
<1>. QED
  BY <1>1, <1>2, <1>3, <1>4, <1>5, <1>6 DEF Next

\* Init: there are no paths.
LEMMA PathsInit == Init => PathsInv
<1>1. Init => disk.paths = EmptyDb /\ pc = "idle" /\ paths = NewPathStore
  BY DEF Init, EmptyDisk
<1>. QED
  BY <1>1, NoPathsSaved DEF PathsInv

\* The store of paths is as it should be: its buffer holds each path once.
THEOREM PathsInvariance == Spec => []PathsInv
BY NamesInit, NamesStep, NamesInvariance, PathsInit, PathsStep, PTL DEF Spec

Bounded == commands \in 0 .. MaxCommands /\ lines \in 0 .. MaxLines

\* The numbers of commands and lines stay within their bounds.
THEOREM BoundedInvariance == Spec => []Bounded
<1>1. MaxCommands \in Nat /\ MaxLines \in Nat
  BY StoresAssumption
<1>2. Init => Bounded
  BY <1>1 DEF Init, Bounded
<1>3. ASSUME Bounded, [Next]_vars PROVE Bounded'
  <2>. DEFINE Counts ==
         /\ UNCHANGED commands \/ (commands < MaxCommands /\ commands' = commands + 1)
         /\ UNCHANGED lines \/ (lines < MaxLines /\ lines' = lines + 1)
  <2>1. Counts => Bounded'
    BY <1>1, <1>3 DEF Bounded
  <2>2. ASSUME NEW r, NEW p, NEW t, NEW units, NEW ood, BeginScan(r, p, t, units, ood) PROVE Counts
    BY <2>2 DEF BeginScan
  <2>3. ASSUME NEW r, NEW p, NEW t, Clean(r, p, t) PROVE Counts
    BY <2>3 DEF Clean
  <2>4. ASSUME HeaderLine PROVE Counts
    BY <2>4 DEF HeaderLine
  <2>5. ASSUME Reporting PROVE Counts
    BY <2>5 DEF Reporting
  <2>6. ASSUME Leave PROVE Counts
    BY <2>6 DEF Leave
  <2>7. ASSUME UNCHANGED vars PROVE Counts
    BY <2>7 DEF vars
  <2>. HIDE DEF Counts
  <2>8. ASSUME NEW n, ExpLine(n) \/ ImpLine(n) PROVE Counts
    BY <2>5, <2>8 DEF ExpLine, ImpLine
  <2>9. ASSUME NEW p, PathLine(p) PROVE Counts
    BY <2>5, <2>9 DEF PathLine
  <2>10. ASSUME CommitTransaction \/ Crash PROVE Counts
    BY <2>6, <2>10 DEF CommitTransaction, Crash
  <2>11. ASSUME NoMoreCommands PROVE Counts
    BY <2>7, <2>11 DEF NoMoreCommands
  <2>. QED
    BY <1>3, <2>1, <2>2, <2>3, <2>4, <2>7, <2>8, <2>9, <2>10, <2>11 DEF Next
<1>. QED
  BY <1>2, <1>3, PTL DEF Spec

\* Ids without gaps.
LEMMA StringStoreOK ==
  ASSUME NEW db, NamesSaved(db), NEW s, StoreOf(s, db)
  PROVE  DOMAIN s.reverse \in {0 .. s.next - 1, 1 .. s.next - 1} /\ s.max < s.next
<1>1. CASE s = NewStringStore
  <2>1. s.reverse = EmptyDb /\ s.max = 0 /\ s.next = 1
    BY <1>1 DEF NewStringStore
  <2>2. DOMAIN EmptyDb = 1 .. 0
    BY DEF EmptyDb
  <2>. QED
    BY <2>1, <2>2
<1>2. CASE NamesOpen(s, db)
  <2>1. LastId(db) \in Nat /\ s.next \in Nat /\ LastId(db) < s.next /\ s.max = LastId(db)
    BY <1>2 DEF NamesOpen, NamesSaved
  <2>2. DOMAIN s.reverse = (IF LastId(db) = 0 THEN {} ELSE 0 .. LastId(db)) \cup (1 .. s.next - 1)
    BY <1>2 DEF NamesOpen, NamesSaved
  <2>3. CASE LastId(db) = 0
    BY <2>1, <2>2, <2>3
  <2>4. CASE LastId(db) # 0
    <3>1. (0 .. LastId(db)) \cup (1 .. s.next - 1) = 0 .. s.next - 1
      BY <2>1, <2>4
    <3>. QED
      BY <2>1, <2>2, <2>4, <3>1
  <2>. QED
    BY <2>3, <2>4
<1>. QED
  BY <1>1, <1>2 DEF StoreOf

\* A reference stays in its chunk and shares no cell.
LEMMA PathStoreOK ==
  ASSUME NEW s, PathsHeld(s)
  PROVE  /\ s.next = Len(s.refs) + 1 /\ s.buf.rem \in 0 .. ChunkSize
         /\ \A i \in 1 .. Len(s.refs) :
              LET r == s.refs[i] IN
              /\ r.chunk \in 1 .. Len(s.buf.chunks)
              /\ r.ofs + r.size <= IF r.chunk = Len(s.buf.chunks) THEN InsertPosition(s.buf) ELSE ChunkSize
              /\ \A j \in 1 .. i - 1 : LET q == s.refs[j] IN
                   q.chunk = r.chunk => q.ofs + q.size <= r.ofs \/ r.ofs + r.size <= q.ofs
<1>1. /\ BufferOK(s.buf) /\ s.next = Len(s.refs) + 1 /\ Len(s.refs) \in Nat /\ Apart(s.refs)
      /\ \A i \in 1 .. Len(s.refs) : RefIn(s.buf, s.refs[i])
  BY DEF PathsHeld
<1>2. s.buf.rem \in 0 .. ChunkSize
  BY <1>1, BufferFields
<1>3. ASSUME NEW i \in 1 .. Len(s.refs)
      PROVE  /\ s.refs[i].chunk \in 1 .. Len(s.buf.chunks)
             /\ s.refs[i].ofs + s.refs[i].size <=
                  IF s.refs[i].chunk = Len(s.buf.chunks) THEN InsertPosition(s.buf) ELSE ChunkSize
  <2>1. RefIn(s.buf, s.refs[i])
    BY <1>1
  <2>. QED
    BY <2>1 DEF RefIn, Used
<1>4. ASSUME NEW i \in 1 .. Len(s.refs), NEW j \in 1 .. i - 1, s.refs[j].chunk = s.refs[i].chunk
      PROVE  \/ s.refs[j].ofs + s.refs[j].size <= s.refs[i].ofs
             \/ s.refs[i].ofs + s.refs[i].size <= s.refs[j].ofs
  <2>1. j \in 1 .. Len(s.refs) /\ j # i
    BY <1>1
  <2>. QED
    BY <1>1, <1>4, <2>1 DEF Apart
<1>. QED
  BY <1>1, <1>2, <1>3, <1>4

\* A store that is not read yet is in order.
LEMMA NewStoreHeld == PathsHeld(NewPathStore)
<1>. DEFINE s == NewPathStore
<1>1. s = [buf |-> NoChunks, refs |-> <<>>, max |-> 0, next |-> 1, cwd |-> <<Root>>, cwdId |-> 0]
  BY DEF NewPathStore
<1>2. /\ s.buf = NoChunks /\ s.refs = <<>> /\ s.max = 0 /\ s.next = 1 /\ s.cwd = <<Root>> /\ s.cwdId = 0
  BY <1>1
<1>3. s = [buf |-> s.buf, refs |-> s.refs, max |-> s.max, next |-> s.next, cwd |-> s.cwd, cwdId |-> s.cwdId]
  BY <1>1, <1>2
<1>. HIDE DEF s
<1>4. BufferOK(NoChunks)
  <2>1. <<>> \in Seq(Chunk) /\ 0 \in 0 .. ChunkSize
    BY ChunkSizes
  <2>. QED
    BY <2>1 DEF NoChunks, BufferOK, Buffer
<1>5. NormalPath(<<Root>>)
  BY Components DEF NormalPath
<1>6. Len(s.refs) = 0 /\ s.refs \in Seq(Ref) /\ s.next = Len(s.refs) + 1
  BY <1>2
<1>7. PathsHeld(s)
  BY <1>2, <1>3, <1>4, <1>5, <1>6 DEF PathsHeld, Apart
<1>. QED
  BY <1>7 DEF s

\* TypeOK: ids without gaps (try_add); references that stay in their chunk and
\* share no cell (alloc and shrink_last_alloc), through all scans.
THEOREM StoresTypeOK == Spec => []TypeOK
<1>1. ASSUME NamesInv, PathsInv, Bounded PROVE TypeOK
  <2>1. pc \in {"idle", "ood", "write"} /\ commands \in 0 .. MaxCommands /\ lines \in 0 .. MaxLines
    BY <1>1 DEF NamesInv, Bounded
  <2>2. StoreOf(targets, disk.targets) /\ StoreOf(modules, disk.modules)
        /\ NamesSaved(disk.targets) /\ NamesSaved(disk.modules)
    BY <1>1 DEF NamesInv, StoreOf
  <2>3. ASSUME NEW s \in {targets, modules}
        PROVE  DOMAIN s.reverse \in {0 .. s.next - 1, 1 .. s.next - 1} /\ s.max < s.next
    BY <2>2, StringStoreOK
  <2>4. PathsHeld(paths)
    BY <1>1, NewStoreHeld DEF PathsInv, PathsOpen
  <2>5. /\ paths.next = Len(paths.refs) + 1 /\ paths.buf.rem \in 0 .. ChunkSize
        /\ \A i \in 1 .. Len(paths.refs) :
             LET r == paths.refs[i] IN
             /\ r.chunk \in 1 .. Len(paths.buf.chunks)
             /\ r.ofs + r.size <= IF r.chunk = Len(paths.buf.chunks) THEN InsertPosition(paths.buf) ELSE ChunkSize
             /\ \A j \in 1 .. i - 1 : LET q == paths.refs[j] IN
                  q.chunk = r.chunk => q.ofs + q.size <= r.ofs \/ r.ofs + r.size <= q.ofs
    BY <2>4, PathStoreOK
  <2>. QED
    BY <2>1, <2>3, <2>5 DEF TypeOK
<1>. QED
  BY <1>1, NamesInvariance, PathsInvariance, BoundedInvariance, PTL

\* The refinement: the table of paths.
PathSession == Session(PathsIn(paths), SavedPaths(disk.paths))

\* A step of the program is one of the table of files.
LEMMA PathTableStep ==
  ASSUME NamesInv, PathsInv, [Next]_vars
  PROVE  TableStep(SavedPaths(disk.paths), PathSession, SavedPaths(disk'.paths), PathSession')
<1>1. ASSUME NEW r \in Roots, NEW p \in ItemPaths, NEW t,
             NEW units \in {<<>>} \cup {<<q>> : q \in UnitPaths}, NEW ood \in BOOLEAN,
             BeginScan(r, p, t, units, ood)
      PROVE  /\ StartsWith(PathSession', PathSession) /\ Distinct(PathSession')
             /\ SavedPaths(disk'.paths) = SavedPaths(disk.paths)
  <2>1. PathsOpen(paths', disk.paths) /\ PathsSaved(disk.paths)
    BY <1>1, OneUnit, PathsBegin DEF PathsInv
  <2>2. pc = "idle" /\ pc' # "idle" /\ disk' = disk
    BY <1>1 DEF BeginScan
  <2>3. StartsWith(PathsIn(paths'), SavedPaths(disk.paths)) /\ Distinct(PathsIn(paths'))
    BY <2>1, PathsAreTable
  <2>4. PathSession = SavedPaths(disk.paths) /\ PathSession' = PathsIn(paths')
    BY <2>2 DEF PathSession, Session
  <2>. QED
    BY <2>2, <2>3, <2>4
<1>2. ASSUME NEW p \in Paths, PathLine(p)
      PROVE  /\ StartsWith(PathSession', PathSession) /\ Distinct(PathSession')
             /\ SavedPaths(disk'.paths) = SavedPaths(disk.paths)
  <2>1. PathsOpen(paths, disk.paths) /\ PathsOpen(paths', disk.paths) /\ Grown(paths', paths) /\ PathsSaved(disk.paths)
    BY <1>2, PathsLine DEF PathsInv
  <2>2. pc = "ood" /\ pc' = "ood" /\ disk' = disk
    BY <1>2 DEF PathLine, Reporting
  <2>3. PathSession = PathsIn(paths) /\ PathSession' = PathsIn(paths')
    BY <2>2 DEF PathSession, Session
  <2>. QED
    BY <2>1, <2>2, <2>3, GrownTable
<1>3. CASE CommitTransaction
  <2>1. SavedPaths(disk'.paths) = PathsIn(paths)
    BY <1>3, PathsCommit
  <2>2. pc # "idle" /\ pc' = "idle"
    BY <1>3 DEF CommitTransaction, Leave
  <2>. QED
    BY <2>1, <2>2 DEF TableStep, PathSession, Session
<1>4. CASE Crash
  BY <1>4 DEF Crash, Leave, TableStep, PathSession, Session
<1>5. ASSUME NEW r, NEW p, NEW t, Clean(r, p, t)
      PROVE  PathSession' = PathSession /\ SavedPaths(disk'.paths) = SavedPaths(disk.paths)
  BY <1>5, NamesClean DEF PathSession, Session, stores
<1>6. CASE HeaderLine \/ (\E n \in Names : ExpLine(n) \/ ImpLine(n)) \/ NoMoreCommands \/ UNCHANGED vars
  <2>1. UNCHANGED <<disk, pc, paths>>
    BY <1>6 DEF HeaderLine, ExpLine, ImpLine, Reporting, NoMoreCommands, vars, stores
  <2>. QED
    BY <2>1 DEF TableStep, PathSession, Session
<1>. QED
  BY <1>1, <1>2, <1>3, <1>4, <1>5, <1>6 DEF Next, TableStep

\* ImplementsPathTable: the store of paths is a table of files, which grows by
\* whole sessions.
THEOREM PathStoreIsTable == Spec => ImplementsPathTable
<1>1. Init => PathTable!TableInit
  <2>1. Init => disk.paths = EmptyDb /\ pc = "idle"
    BY DEF Init, EmptyDisk
  <2>. QED
    BY <2>1, NoPathsSaved DEF PathTable!TableInit, Session
<1>2. NamesInv /\ PathsInv /\ [Next]_vars =>
        [PathTable!Grow \/ PathTable!Save \/ PathTable!Abandon]_<<SavedPaths(disk.paths),
            Session(PathsIn(paths), SavedPaths(disk.paths))>>
  BY PathTableStep DEF TableStep, PathSession, StartsWith, Distinct, PathTable!Grow, PathTable!Save,
     PathTable!Abandon, PathTable!Extends
<1>. QED
  BY <1>1, <1>2, NamesInvariance, PathsInvariance, PTL DEF Spec, ImplementsPathTable, PathTable!TableSpec

-----------------------------------------------------------------------------
(* Rows: what is put is what is got. *)

\* w is s and t, one after the other.
Concat(w, s, t) ==
    /\ w \in Seq(Nat) /\ Len(w) = Len(s) + Len(t)
    /\ \A i \in 1 .. Len(s) : w[i] = s[i]
    /\ \A i \in 1 .. Len(t) : w[Len(s) + i] = t[i]

\* What one sequence after the other is.
LEMMA Concatenated ==
  ASSUME NEW s \in Seq(Nat), NEW t \in Seq(Nat) PROVE Concat(s \o t, s, t)
BY DEF Concat

\* A part of a value, by its cells.
LEMMA PartIs ==
  ASSUME NEW S, NEW s \in Seq(S), NEW t \in Seq(S), NEW lo \in Nat, lo + Len(t) <= Len(s),
         \A i \in 1 .. Len(t) : s[lo + i] = t[i]
  PROVE  SubSeq(s, lo + 1, lo + Len(t)) = t
<1>. DEFINE p == SubSeq(s, lo + 1, lo + Len(t))
<1>1. p \in Seq(S) /\ Len(p) = Len(t)
  OBVIOUS
<1>2. \A i \in 1 .. Len(t) : p[i] = t[i]
  <2>1. \A i \in 1 .. Len(t) : p[i] = s[lo + i]
    OBVIOUS
  <2>. QED
    BY <2>1
<1>. HIDE DEF p
<1>3. p = t
  BY <1>1, <1>2
<1>. QED
  BY <1>3 DEF p

\* What the fields of a row are.
LEMMA RowFields ==
  /\ Len(ItemEntry) = 6
  /\ ~ItemEntry[1].view /\ ~ItemEntry[2].view /\ ItemEntry[3].view /\ ItemEntry[4].view
  /\ ~ItemEntry[5].view /\ ItemEntry[6].view
  /\ ItemEntry[3].width = 1 /\ ItemEntry[4].width = 2 /\ ItemEntry[6].width = 1
  /\ ~HasSize(ItemEntry, 1) /\ ~HasSize(ItemEntry, 2) /\ HasSize(ItemEntry, 3) /\ HasSize(ItemEntry, 4)
  /\ ~HasSize(ItemEntry, 5) /\ ~HasSize(ItemEntry, 6)
<1>1. /\ Len(ItemEntry) = 6
      /\ ItemEntry[1] = Number /\ ItemEntry[2] = Number /\ ItemEntry[3] = View(1)
      /\ ItemEntry[4] = View(2) /\ ItemEntry[5] = Number /\ ItemEntry[6] = View(1)
  BY DEF ItemEntry
<1>2. Number.view = FALSE /\ View(1).view = TRUE /\ View(2).view = TRUE /\ View(1).width = 1 /\ View(2).width = 2
  BY DEF Number, View
<1>. QED
  BY <1>1, <1>2 DEF HasSize

Row(h, t, f, d, e, m) == <<h, t, f, d, e, m>>

\* The cells of a row.
RowCells(h, t, f, d, e, m) ==
    (((((<<>> \o <<h>>) \o <<t>>) \o (<<Len(f)>> \o f)) \o (<<2 * Len(d)>> \o Cells(2, d))) \o <<e>>) \o m

\* The cells of the three views.
LEMMA CellsOf ==
  ASSUME NEW f \in Seq(Nat), NEW d \in Seq(Nat \X Nat)
  PROVE  /\ Cells(1, f) = f
         /\ Cells(2, d) \in Seq(Nat) /\ Len(Cells(2, d)) = 2 * Len(d)
         /\ \A k \in 1 .. Len(d) : Cells(2, d)[2 * k - 1] = d[k][1] /\ Cells(2, d)[2 * k] = d[k][2]
<1>1. Cells(1, f) = f
  BY DEF Cells
<1>2. Cells(2, d) = [c \in 1 .. 2 * Len(d) |-> d[((c - 1) \div 2) + 1][((c - 1) % 2) + 1]]
  BY DEF Cells
<1>3. Len(d) \in Nat /\ 2 * Len(d) \in Nat
  OBVIOUS
<1>4. ASSUME NEW c \in 1 .. 2 * Len(d) PROVE d[((c - 1) \div 2) + 1][((c - 1) % 2) + 1] \in Nat
  <2>1. ((c - 1) \div 2) + 1 \in 1 .. Len(d) /\ ((c - 1) % 2) + 1 \in 1 .. 2
    BY <1>3
  <2>. DEFINE x == d[((c - 1) \div 2) + 1]
  <2>2. x \in Nat \X Nat
    BY <2>1
  <2>. HIDE DEF x
  <2>3. x[1] \in Nat /\ x[2] \in Nat
    BY <2>2
  <2>4. x[((c - 1) % 2) + 1] \in Nat
    BY <2>1, <2>3, SMTT(30)
  <2>. QED
    BY <2>4 DEF x
<1>5. Cells(2, d) \in Seq(Nat) /\ Len(Cells(2, d)) = 2 * Len(d)
  <2>. DEFINE x(c) == d[((c - 1) \div 2) + 1][((c - 1) % 2) + 1]
              n == 2 * Len(d)
              s == [c \in 1 .. n |-> x(c)]
  <2>1. n \in Nat /\ \A c \in 1 .. n : x(c) \in Nat
    BY <1>3, <1>4
  <2>2. s = Cells(2, d)
    BY <1>2
  <2>. HIDE DEF x, n
  <2>3. s \in Seq(Nat) /\ Len(s) = n
    BY <2>1
  <2>. QED
    BY <2>2, <2>3 DEF n
<1>6. ASSUME NEW k \in 1 .. Len(d) PROVE Cells(2, d)[2 * k - 1] = d[k][1] /\ Cells(2, d)[2 * k] = d[k][2]
  <2>1. 2 * k - 1 \in 1 .. 2 * Len(d) /\ 2 * k \in 1 .. 2 * Len(d)
    BY <1>3
  <2>2. (((2 * k - 1) - 1) \div 2) + 1 = k /\ (((2 * k - 1) - 1) % 2) + 1 = 1
    BY <1>3
  <2>3. ((2 * k - 1) \div 2) + 1 = k /\ ((2 * k - 1) % 2) + 1 = 2
    BY <1>3
  <2>. QED
    BY <1>2, <2>1, <2>2, <2>3, Zenon
<1>. QED
  BY <1>1, <1>5, <1>6

\* w is r, x and s, one after the other.
Joined(w, r, x, s) ==
    /\ w \in Seq(Nat) /\ Len(w) = Len(r) + 1 + Len(s) /\ w[Len(r) + 1] = x
    /\ \A i \in 1 .. Len(r) : w[i] = r[i]
    /\ \A i \in 1 .. Len(s) : w[Len(r) + 1 + i] = s[i]

\* A number and a view, appended to what is there.
LEMMA AreJoined ==
  ASSUME NEW x \in Nat, NEW s \in Seq(Nat), NEW r \in Seq(Nat)
  PROVE  Joined(r \o (<<x>> \o s), r, x, s)
<1>. DEFINE y == <<x>>
            u == y \o s
            w == r \o u
<1>1. y \in Seq(Nat) /\ Len(y) = 1 /\ y[1] = x
  OBVIOUS
<1>. HIDE DEF y
<1>2. Concat(u, y, s)
  BY <1>1, Concatenated
<1>. HIDE DEF u
<1>3. u \in Seq(Nat)
  BY <1>2 DEF Concat
<1>4. Concat(w, r, u)
  BY <1>3, Concatenated
<1>. HIDE DEF w
<1>5. Len(r) \in Nat /\ Len(s) \in Nat /\ Len(u) = 1 + Len(s)
  BY <1>1, <1>2 DEF Concat
<1>6. u[1] = x /\ \A i \in 1 .. Len(s) : u[1 + i] = s[i]
  <2>1. 1 \in 1 .. Len(y)
    BY <1>1
  <2>. QED
    BY <1>1, <1>2, <2>1 DEF Concat
<1>7. ASSUME NEW i \in 1 .. Len(s) PROVE w[Len(r) + 1 + i] = s[i]
  <2>1. 1 + i \in 1 .. Len(u) /\ Len(r) + (1 + i) = Len(r) + 1 + i
    BY <1>5
  <2>2. w[Len(r) + (1 + i)] = u[1 + i]
    BY <1>4, <2>1 DEF Concat
  <2>. QED
    BY <1>6, <2>1, <2>2
<1>8. w[Len(r) + 1] = x
  <2>1. 1 \in 1 .. Len(u)
    BY <1>5
  <2>. QED
    BY <1>4, <1>6, <2>1 DEF Concat
<1>9. w \in Seq(Nat) /\ Len(w) = Len(r) + 1 + Len(s) /\ \A i \in 1 .. Len(r) : w[i] = r[i]
  BY <1>4, <1>5 DEF Concat
<1>10. Joined(w, r, x, s)
  BY <1>7, <1>8, <1>9 DEF Joined
<1>. QED
  BY <1>10 DEF w, u, y

\* v are the cells of a row.
IsRow(v, h, t, f, d, e, m) ==
    LET p == 4 + Len(f)
        q == p + 2 * Len(d) + 1
    IN /\ v \in Seq(Nat) /\ Len(v) = q + Len(m)
       /\ v[1] = h /\ v[2] = t /\ v[3] = Len(f) /\ v[p] = 2 * Len(d) /\ v[q] = e
       /\ \A i \in 1 .. Len(f) : v[3 + i] = f[i]
       /\ \A i \in 1 .. 2 * Len(d) : v[p + i] = Cells(2, d)[i]
       /\ \A i \in 1 .. Len(m) : v[q + i] = m[i]

\* The cells of a row, one field after the other.
LEMMA RowCellsAre ==
  ASSUME NEW h \in Nat, NEW t \in Nat, NEW f \in Seq(Nat), NEW d \in Seq(Nat \X Nat), NEW e \in Nat,
         NEW m \in Seq(Nat)
  PROVE  IsRow(RowCells(h, t, f, d, e, m), h, t, f, d, e, m)
<1>. DEFINE c == Cells(2, d)
            a == (<<>> \o <<h>>) \o <<t>>
            b == a \o (<<Len(f)>> \o f)
            g == b \o (<<2 * Len(d)>> \o c)
            k == g \o <<e>>
            v == k \o m
            p == 4 + Len(f)
            q == p + 2 * Len(d) + 1
<1>1. c \in Seq(Nat) /\ Len(c) = 2 * Len(d) /\ Len(f) \in Nat /\ Len(d) \in Nat /\ Len(m) \in Nat
  BY CellsOf
<1>. HIDE DEF c
<1>2. a \in Seq(Nat) /\ Len(a) = 2 /\ a[1] = h /\ a[2] = t
  OBVIOUS
<1>. HIDE DEF a
<1>3. b \in Seq(Nat) /\ Len(b) = 3 + Len(f) /\ b[1] = h /\ b[2] = t /\ b[3] = Len(f)
      /\ \A i \in 1 .. Len(f) : b[3 + i] = f[i]
  <2>1. /\ b \in Seq(Nat) /\ Len(b) = Len(a) + 1 + Len(f) /\ b[Len(a) + 1] = Len(f)
        /\ \A i \in 1 .. Len(a) : b[i] = a[i]
        /\ \A i \in 1 .. Len(f) : b[Len(a) + 1 + i] = f[i]
    <3>1. Joined(b, a, Len(f), f)
      BY <1>1, <1>2, AreJoined
    <3>. QED
      BY <3>1 DEF Joined
  <2>. HIDE DEF b
  <2>. QED
    BY <1>1, <1>2, <2>1
<1>. HIDE DEF b
<1>4. g \in Seq(Nat) /\ Len(g) = p + 2 * Len(d) /\ g[p] = 2 * Len(d)
      /\ (\A i \in 1 .. Len(b) : g[i] = b[i])
      /\ \A i \in 1 .. 2 * Len(d) : g[p + i] = c[i]
  <2>1. 2 * Len(d) \in Nat
    BY <1>1
  <2>2. /\ g \in Seq(Nat) /\ Len(g) = Len(b) + 1 + Len(c) /\ g[Len(b) + 1] = 2 * Len(d)
        /\ \A i \in 1 .. Len(b) : g[i] = b[i]
        /\ \A i \in 1 .. Len(c) : g[Len(b) + 1 + i] = c[i]
    <3>. DEFINE n == 2 * Len(d)
    <3>. HIDE DEF n
    <3>1. n \in Nat
      BY <2>1 DEF n
    <3>2. Joined(b \o (<<n>> \o c), b, n, c)
      BY <1>1, <1>3, <3>1, AreJoined
    <3>3. Joined(g, b, n, c)
      BY <3>2 DEF n
    <3>. HIDE DEF g
    <3>. QED
      BY <3>3 DEF Joined, n
  <2>. HIDE DEF g
  <2>3. Len(b) + 1 = p
    BY <1>1, <1>3
  <2>. QED
    BY <1>1, <2>2, <2>3
<1>. HIDE DEF g
<1>5. k \in Seq(Nat) /\ Len(k) = q /\ k[q] = e /\ \A i \in 1 .. Len(g) : k[i] = g[i]
  <2>. DEFINE y == <<e>>
  <2>1. y \in Seq(Nat) /\ Len(y) = 1 /\ y[1] = e
    OBVIOUS
  <2>. HIDE DEF y
  <2>2. Concat(g \o y, g, y)
    BY <1>4, <2>1, Concatenated
  <2>3. k = g \o y
    BY DEF y
  <2>4. Concat(k, g, y)
    BY <2>2, <2>3
  <2>. HIDE DEF k
  <2>5. Len(g) + 1 = q /\ 1 \in 1 .. Len(y)
    BY <1>1, <1>4, <2>1
  <2>. HIDE DEF q
  <2>. QED
    BY <2>1, <2>4, <2>5 DEF Concat
<1>. HIDE DEF k
<1>6. /\ v \in Seq(Nat) /\ Len(v) = q + Len(m)
      /\ \A i \in 1 .. q : v[i] = k[i]
      /\ \A i \in 1 .. Len(m) : v[q + i] = m[i]
  <2>1. Concat(v, k, m)
    BY <1>5, Concatenated
  <2>. HIDE DEF v, q
  <2>. QED
    BY <1>5, <2>1 DEF Concat
<1>7. v = RowCells(h, t, f, d, e, m)
  BY DEF RowCells, v, k, g, b, a, c
<1>. HIDE DEF v
<1>8. p \in Nat /\ q \in Nat /\ p + 2 * Len(d) = Len(g) /\ q = Len(g) + 1 /\ Len(b) = p - 1
  BY <1>1, <1>3, <1>4, SMTT(30)
<1>9. \A i \in 1 .. Len(g) : v[i] = g[i]
  <2>1. \A i \in 1 .. Len(g) : i \in 1 .. q
    BY <1>8
  <2>. QED
    BY <1>5, <1>6, <2>1
<1>10. \A i \in 1 .. Len(b) : v[i] = b[i]
  <2>1. \A i \in 1 .. Len(b) : i \in 1 .. Len(g)
    BY <1>1, <1>8
  <2>. QED
    BY <1>4, <1>9, <2>1
<1>11. v[1] = h /\ v[2] = t /\ v[3] = Len(f)
  <2>1. 1 \in 1 .. Len(b) /\ 2 \in 1 .. Len(b) /\ 3 \in 1 .. Len(b)
    BY <1>1, <1>3
  <2>. QED
    BY <1>3, <1>10, <2>1
<1>12. ASSUME NEW i \in 1 .. Len(f) PROVE v[3 + i] = f[i]
  <2>1. 3 + i \in 1 .. Len(b)
    BY <1>1, <1>3
  <2>. QED
    BY <1>3, <1>10, <2>1
<1>13. v[p] = 2 * Len(d)
  <2>1. p \in 1 .. Len(g)
    BY <1>1, <1>8
  <2>. QED
    BY <1>4, <1>9, <2>1
<1>14. ASSUME NEW i \in 1 .. 2 * Len(d) PROVE v[p + i] = c[i]
  <2>1. p + i \in 1 .. Len(g)
    <3>. DEFINE n == 2 * Len(d)
    <3>1. n \in Nat /\ i \in 1 .. n /\ p \in Nat /\ p + n = Len(g)
      BY <1>1, <1>8
    <3>. HIDE DEF n, p
    <3>. QED
      BY <3>1
  <2>. QED
    BY <1>4, <1>9, <2>1
<1>15. v[q] = e
  <2>1. q \in 1 .. q
    BY <1>1, <1>8
  <2>. QED
    BY <1>5, <1>6, <2>1
<1>16. IsRow(v, h, t, f, d, e, m)
  BY <1>6, <1>11, <1>12, <1>13, <1>14, <1>15 DEF IsRow, c
<1>. QED
  BY <1>7, <1>16

\* What is reserved for a row (SizeUpTo): its numbers, the sizes of two views and the views.
LEMMA RowSize ==
  ASSUME NEW h, NEW t, NEW f \in Seq(Nat), NEW d \in Seq(Nat \X Nat), NEW e, NEW m \in Seq(Nat)
  PROVE  SizeUpTo(ItemEntry, Row(h, t, f, d, e, m))[6] = 5 + Len(f) + 2 * Len(d) + Len(m)
<1>. DEFINE F == ItemEntry
            agg == Row(h, t, f, d, e, m)
            size[k \in 0 .. Len(F)] ==
              IF k = 0 THEN 0
              ELSE size[k - 1] + NonViewSize(F, k) + ViewSize(F, agg, k)
            Q(g) == g = [k \in 0 .. Len(F) |->
                           IF k = 0 THEN 0
                           ELSE g[k - 1] + NonViewSize(F, k) + ViewSize(F, agg, k)]
<1>1. SizeUpTo(F, agg) = size
  BY DEF SizeUpTo
<1>2. size = CHOOSE g : Q(g)
  BY DEF size
<1>. HIDE DEF size
<1>3. Len(f) \in Nat /\ Len(d) \in Nat /\ Len(m) \in Nat
  OBVIOUS
<1>4. agg[3] = f /\ agg[4] = d /\ agg[6] = m
  BY DEF Row
<1>5. Len(F) = 6 /\ ~F[1].view /\ ~F[2].view /\ F[3].view /\ F[4].view /\ ~F[5].view /\ F[6].view
      /\ F[3].width = 1 /\ F[4].width = 2 /\ F[6].width = 1
      /\ HasSize(F, 3) /\ HasSize(F, 4) /\ ~HasSize(F, 6)
  BY RowFields
<1>. HIDE DEF agg, F
<1>6. /\ NonViewSize(F, 1) = 1 /\ NonViewSize(F, 2) = 1 /\ NonViewSize(F, 3) = 1
      /\ NonViewSize(F, 4) = 1 /\ NonViewSize(F, 5) = 1 /\ NonViewSize(F, 6) = 0
  BY <1>5 DEF NonViewSize
<1>7. /\ ViewSize(F, agg, 1) = 0 /\ ViewSize(F, agg, 2) = 0 /\ ViewSize(F, agg, 3) = Len(f)
      /\ ViewSize(F, agg, 4) = 2 * Len(d) /\ ViewSize(F, agg, 5) = 0 /\ ViewSize(F, agg, 6) = Len(m)
  BY <1>3, <1>4, <1>5 DEF ViewSize
<1>. DEFINE a == Len(f)
            b == 2 * Len(d)
            c == Len(m)
            w == [k \in 0 .. 6 |->
                    IF k = 0 THEN 0 ELSE IF k = 1 THEN 1 ELSE IF k = 2 THEN 2
                    ELSE IF k = 3 THEN 3 + a ELSE IF k = 4 THEN 4 + a + b
                    ELSE IF k = 5 THEN 5 + a + b ELSE 5 + a + b + c]
<1>8. a \in Nat /\ b \in Nat /\ c \in Nat
  BY <1>3
<1>9. ViewSize(F, agg, 3) = a /\ ViewSize(F, agg, 4) = b /\ ViewSize(F, agg, 6) = c
  BY <1>7
<1>. HIDE DEF a, b, c
<1>10. Q(w)
  <2>1. w[0] = 0 /\ w[1] = 1 /\ w[2] = 2 /\ w[3] = 3 + a /\ w[4] = 4 + a + b
        /\ w[5] = 5 + a + b /\ w[6] = 5 + a + b + c
    OBVIOUS
  <2>2. w = [k \in 0 .. 6 |-> w[k]]
    OBVIOUS
  <2>. HIDE DEF w
  <2>3. ASSUME NEW k \in 0 .. 6
        PROVE  w[k] = IF k = 0 THEN 0 ELSE w[k - 1] + NonViewSize(F, k) + ViewSize(F, agg, k)
    <3>1. k \in {0, 1, 2, 3, 4, 5, 6}
      OBVIOUS
    <3>2. 1 - 1 = 0 /\ 2 - 1 = 1 /\ 3 - 1 = 2 /\ 4 - 1 = 3 /\ 5 - 1 = 4 /\ 6 - 1 = 5
      OBVIOUS
    <3>3. w[3] = w[2] + NonViewSize(F, 3) + ViewSize(F, agg, 3)
      BY <1>6, <1>8, <1>9, <2>1
    <3>4. w[4] = w[3] + NonViewSize(F, 4) + ViewSize(F, agg, 4)
      BY <1>6, <1>8, <1>9, <2>1
    <3>5. w[5] = w[4] + NonViewSize(F, 5) + ViewSize(F, agg, 5)
      BY <1>6, <1>7, <1>8, <2>1
    <3>6. w[6] = w[5] + NonViewSize(F, 6) + ViewSize(F, agg, 6)
      BY <1>6, <1>8, <1>9, <2>1
    <3>7. w[1] = w[0] + NonViewSize(F, 1) + ViewSize(F, agg, 1)
      BY <1>6, <1>7, <2>1
    <3>8. w[2] = w[1] + NonViewSize(F, 2) + ViewSize(F, agg, 2)
      BY <1>6, <1>7, <2>1
    <3>9. CASE k \in {0, 1, 2}
      BY <2>1, <3>2, <3>9, <3>7, <3>8
    <3>10. CASE k \in {3, 4, 5, 6}
      BY <3>2, <3>3, <3>4, <3>5, <3>6, <3>10
    <3>. QED
      BY <3>1, <3>9, <3>10
  <2>. QED
    BY <1>5, <2>2, <2>3, Zenon
<1>. HIDE DEF w
<1>11. Q(size)
  <2>. HIDE DEF Q
  <2>. QED
    BY <1>2, <1>10
<1>12. size[0] = 0 /\ \A k \in 1 .. 6 : size[k] = size[k - 1] + NonViewSize(F, k) + ViewSize(F, agg, k)
  <2>1. 0 \in 0 .. 6 /\ \A k \in 1 .. 6 : k \in 0 .. 6 /\ k # 0
    OBVIOUS
  <2>. QED
    BY <1>5, <1>11, <2>1, Zenon
<1>13. size[1] = 1 /\ size[2] = 2
  BY <1>6, <1>7, <1>9, <1>12
<1>14. size[3] = 3 + a
  <2>1. size[3] = size[2] + NonViewSize(F, 3) + ViewSize(F, agg, 3)
    BY <1>12
  <2>. QED
    BY <1>6, <1>13, <1>8, <1>9, <2>1
<1>15. size[4] = 4 + a + b
  <2>1. size[4] = size[3] + NonViewSize(F, 4) + ViewSize(F, agg, 4)
    BY <1>12
  <2>. QED
    BY <1>6, <1>14, <1>8, <1>9, <2>1
<1>16. size[5] = 5 + a + b
  <2>1. size[5] = size[4] + NonViewSize(F, 5) + ViewSize(F, agg, 5)
    BY <1>12
  <2>. QED
    BY <1>6, <1>7, <1>15, <1>8, <2>1
<1>17. size[6] = 5 + a + b + c
  <2>1. size[6] = size[5] + NonViewSize(F, 6) + ViewSize(F, agg, 6)
    BY <1>12
  <2>. QED
    BY <1>6, <1>16, <1>8, <1>9, <2>1
<1>. QED
  BY <1>1, <1>17 DEF agg, F, a, b, c

\* What is written for a row (ToVal).
LEMMA RowVal ==
  ASSUME NEW h, NEW t, NEW f \in Seq(Nat), NEW d \in Seq(Nat \X Nat), NEW e, NEW m \in Seq(Nat)
  PROVE  ToVal(ItemEntry, Row(h, t, f, d, e, m)) = RowCells(h, t, f, d, e, m)
<1>. DEFINE F == ItemEntry
            agg == Row(h, t, f, d, e, m)
            part(k) == IF ~F[k].view THEN <<agg[k]>>
                       ELSE (IF HasSize(F, k) THEN <<ViewSize(F, agg, k)>> ELSE <<>>)
                                \o Cells(F[k].width, agg[k])
            val[k \in 0 .. Len(F)] ==
              IF k = 0 THEN <<>>
              ELSE val[k - 1] \o
                   (IF ~F[k].view THEN <<agg[k]>>
                    ELSE (IF HasSize(F, k) THEN <<ViewSize(F, agg, k)>> ELSE <<>>)
                             \o Cells(F[k].width, agg[k]))
            Q(g) == g = [k \in 0 .. Len(F) |-> IF k = 0 THEN <<>> ELSE g[k - 1] \o part(k)]
<1>1. ToVal(F, agg) = val[Len(F)]
  BY DEF ToVal
<1>2. val = CHOOSE g : Q(g)
  BY DEF val
<1>. HIDE DEF val
<1>3. Len(f) \in Nat /\ Len(d) \in Nat /\ Len(m) \in Nat
  OBVIOUS
<1>4. agg[1] = h /\ agg[2] = t /\ agg[3] = f /\ agg[4] = d /\ agg[5] = e /\ agg[6] = m
  BY DEF Row
<1>5. Len(F) = 6 /\ ~F[1].view /\ ~F[2].view /\ F[3].view /\ F[4].view /\ ~F[5].view /\ F[6].view
      /\ F[3].width = 1 /\ F[4].width = 2 /\ F[6].width = 1
      /\ HasSize(F, 3) /\ HasSize(F, 4) /\ ~HasSize(F, 6)
  BY RowFields
<1>. HIDE DEF agg, F
<1>6. Cells(1, f) = f /\ Cells(1, m) = m
  BY CellsOf
<1>7. ViewSize(F, agg, 3) = Len(f) /\ ViewSize(F, agg, 4) = 2 * Len(d)
  BY <1>3, <1>4, <1>5 DEF ViewSize
<1>8. /\ part(1) = <<h>> /\ part(2) = <<t>> /\ part(3) = <<Len(f)>> \o f
      /\ part(4) = <<2 * Len(d)>> \o Cells(2, d) /\ part(5) = <<e>>
  <2>1. part(1) = <<h>> /\ part(2) = <<t>> /\ part(5) = <<e>>
    BY <1>4, <1>5
  <2>2. part(3) = <<Len(f)>> \o f
    <3>1. part(3) = <<ViewSize(F, agg, 3)>> \o Cells(F[3].width, agg[3])
      BY <1>5, Zenon
    <3>. QED
      BY <1>4, <1>5, <1>6, <1>7, <3>1
  <2>3. part(4) = <<2 * Len(d)>> \o Cells(2, d)
    <3>1. part(4) = <<ViewSize(F, agg, 4)>> \o Cells(F[4].width, agg[4])
      BY <1>5, Zenon
    <3>. QED
      BY <1>4, <1>5, <1>7, <3>1
  <2>. QED
    BY <2>1, <2>2, <2>3
<1>9. part(6) = m
  <2>1. part(6) = <<>> \o Cells(F[6].width, agg[6])
    BY <1>5, Zenon
  <2>2. part(6) = <<>> \o m
    BY <1>4, <1>5, <1>6, <2>1
  <2>3. <<>> \o m = m
    OBVIOUS
  <2>. QED
    BY <2>2, <2>3
<1>. HIDE DEF part
<1>. DEFINE v1 == <<>> \o <<h>>
            v2 == v1 \o <<t>>
            v3 == v2 \o (<<Len(f)>> \o f)
            v4 == v3 \o (<<2 * Len(d)>> \o Cells(2, d))
            v5 == v4 \o <<e>>
            v6 == v5 \o m
            w == [k \in 0 .. 6 |->
                    IF k = 0 THEN <<>> ELSE IF k = 1 THEN v1 ELSE IF k = 2 THEN v2
                    ELSE IF k = 3 THEN v3 ELSE IF k = 4 THEN v4 ELSE IF k = 5 THEN v5 ELSE v6]
<1>10. /\ v1 = <<>> \o part(1) /\ v2 = v1 \o part(2) /\ v3 = v2 \o part(3) /\ v4 = v3 \o part(4)
       /\ v5 = v4 \o part(5) /\ v6 = v5 \o part(6)
  BY <1>8, <1>9
<1>11. v6 = RowCells(h, t, f, d, e, m)
  BY DEF RowCells
<1>. HIDE DEF v1, v2, v3, v4, v5, v6
<1>12. Q(w)
  <2>1. w[0] = <<>> /\ w[1] = v1 /\ w[2] = v2 /\ w[3] = v3 /\ w[4] = v4 /\ w[5] = v5 /\ w[6] = v6
    OBVIOUS
  <2>2. w = [k \in 0 .. 6 |-> w[k]]
    OBVIOUS
  <2>. HIDE DEF w
  <2>3. ASSUME NEW k \in 0 .. 6 PROVE w[k] = IF k = 0 THEN <<>> ELSE w[k - 1] \o part(k)
    <3>1. k \in {0, 1, 2, 3, 4, 5, 6}
      OBVIOUS
    <3>2. 1 - 1 = 0 /\ 2 - 1 = 1 /\ 3 - 1 = 2 /\ 4 - 1 = 3 /\ 5 - 1 = 4 /\ 6 - 1 = 5
      OBVIOUS
    <3>. QED
      BY <1>10, <2>1, <3>1, <3>2
  <2>. QED
    BY <1>5, <2>2, <2>3, Zenon
<1>. HIDE DEF w
<1>13. Q(val)
  <2>. HIDE DEF Q
  <2>. QED
    BY <1>2, <1>12
<1>14. val[0] = <<>> /\ \A k \in 1 .. 6 : val[k] = val[k - 1] \o part(k)
  <2>1. 0 \in 0 .. 6 /\ \A k \in 1 .. 6 : k \in 0 .. 6 /\ k # 0
    OBVIOUS
  <2>. QED
    BY <1>5, <1>13, <2>1, Zenon
<1>15. val[6] = v6
  <2>1. 1 \in 1 .. 6 /\ 2 \in 1 .. 6 /\ 3 \in 1 .. 6 /\ 4 \in 1 .. 6 /\ 5 \in 1 .. 6 /\ 6 \in 1 .. 6
        /\ 1 - 1 = 0 /\ 2 - 1 = 1 /\ 3 - 1 = 2 /\ 4 - 1 = 3 /\ 5 - 1 = 4 /\ 6 - 1 = 5
    OBVIOUS
  <2>2. val[1] = v1 /\ val[2] = val[1] \o part(2) /\ val[3] = val[2] \o part(3)
        /\ val[4] = val[3] \o part(4) /\ val[5] = val[4] \o part(5) /\ val[6] = val[5] \o part(6)
    BY <1>10, <1>14, <2>1
  <2>. QED
    BY <1>10, <2>2, Zenon
<1>. QED
  BY <1>1, <1>5, <1>11, <1>15 DEF agg, F

\* The memory that is reserved for a row is exactly filled.
LEMMA RowReserved ==
  ASSUME NEW h \in Nat, NEW t \in Nat, NEW f \in Seq(Nat), NEW d \in Seq(Nat \X Nat), NEW e \in Nat,
         NEW m \in Seq(Nat)
  PROVE  Reserved(ItemEntry, Row(h, t, f, d, e, m)) = RowCells(h, t, f, d, e, m)
<1>. DEFINE agg == Row(h, t, f, d, e, m)
            v == RowCells(h, t, f, d, e, m)
            n == 5 + Len(f) + 2 * Len(d) + Len(m)
<1>1. v \in Seq(Nat) /\ Len(v) = n
  <2>1. Len(f) \in Nat /\ Len(d) \in Nat /\ Len(m) \in Nat
    OBVIOUS
  <2>2. v \in Seq(Nat) /\ Len(v) = 4 + Len(f) + 2 * Len(d) + 1 + Len(m)
    <3>1. IsRow(v, h, t, f, d, e, m)
      BY RowCellsAre
    <3>. HIDE DEF v
    <3>. QED
      BY <3>1 DEF IsRow
  <2>. HIDE DEF v
  <2>. QED
    BY <2>1, <2>2
<1>2. Len(ItemEntry) = 6 /\ SizeUpTo(ItemEntry, agg)[6] = n /\ ToVal(ItemEntry, agg) = v
  BY RowFields, RowSize, RowVal
<1>. HIDE DEF agg, v, n
<1>3. Reserved(ItemEntry, agg) = [c \in 1 .. n |-> IF c <= Len(v) THEN v[c] ELSE Garbage]
  BY <1>2 DEF Reserved
<1>4. Reserved(ItemEntry, agg) = v
  BY <1>1, <1>3
<1>. QED
  BY <1>4 DEF agg, v

\* The fields that from_val finds.
Positions(F, v) ==
    LET pos[k \in 1 .. Len(F) + 1] ==
          IF k = 1 THEN 1
          ELSE pos[k - 1] + (IF HasSize(F, k - 1) THEN 1 + v[pos[k - 1]] ELSE 1)
    IN pos

\* Where from_val finds the fields.
LEMMA RowPositions ==
  ASSUME NEW v, NEW a \in Nat, NEW b \in Nat, v[3] = a, v[4 + a] = b
  PROVE  LET pos == Positions(ItemEntry, v)
         IN pos[1] = 1 /\ pos[2] = 2 /\ pos[3] = 3 /\ pos[4] = 4 + a /\ pos[5] = 5 + a + b /\ pos[6] = 6 + a + b
<1>. DEFINE F == ItemEntry
            pos[k \in 1 .. Len(F) + 1] ==
              IF k = 1 THEN 1
              ELSE pos[k - 1] + (IF HasSize(F, k - 1) THEN 1 + v[pos[k - 1]] ELSE 1)
            Q(g) == g = [k \in 1 .. Len(F) + 1 |->
                           IF k = 1 THEN 1
                           ELSE g[k - 1] + (IF HasSize(F, k - 1) THEN 1 + v[g[k - 1]] ELSE 1)]
            w == [k \in 1 .. 7 |->
                    IF k = 1 THEN 1 ELSE IF k = 2 THEN 2 ELSE IF k = 3 THEN 3 ELSE IF k = 4 THEN 4 + a
                    ELSE IF k = 5 THEN 5 + a + b ELSE IF k = 6 THEN 6 + a + b ELSE 7 + a + b]
<1>1. Positions(F, v) = pos
  BY DEF Positions
<1>2. pos = CHOOSE g : Q(g)
  BY DEF pos
<1>. HIDE DEF pos
<1>3. Len(F) + 1 = 7 /\ ~HasSize(F, 1) /\ ~HasSize(F, 2) /\ HasSize(F, 3) /\ HasSize(F, 4)
      /\ ~HasSize(F, 5) /\ ~HasSize(F, 6)
  BY RowFields
<1>. HIDE DEF F
<1>4. 2 - 1 = 1 /\ 3 - 1 = 2 /\ 4 - 1 = 3 /\ 5 - 1 = 4 /\ 6 - 1 = 5 /\ 7 - 1 = 6
  OBVIOUS
<1>5. Q(w)
  <2>1. w[1] = 1 /\ w[2] = 2 /\ w[3] = 3 /\ w[4] = 4 + a /\ w[5] = 5 + a + b /\ w[6] = 6 + a + b /\ w[7] = 7 + a + b
    OBVIOUS
  <2>2. w = [k \in 1 .. 7 |-> w[k]]
    OBVIOUS
  <2>. HIDE DEF w
  <2>. DEFINE P(k) == w[k] = w[k - 1] + (IF HasSize(F, k - 1) THEN 1 + v[w[k - 1]] ELSE 1)
  <2>3. P(2)
    BY <1>3, <1>4, <2>1
  <2>4. P(3)
    BY <1>3, <1>4, <2>1
  <2>5. P(4)
    BY <1>3, <1>4, <2>1
  <2>6. P(5)
    <3>1. w[5] = w[4] + (1 + v[w[4]])
      <4>1. v[w[4]] = b
        BY <2>1
      <4>. QED
        BY <2>1, <4>1
    <3>. QED
      BY <1>3, <1>4, <3>1
  <2>7. P(6)
    <3>1. w[6] = w[5] + 1
      BY <2>1
    <3>. QED
      BY <1>3, <1>4, <3>1
  <2>8. P(7)
    <3>1. w[7] = w[6] + 1
      BY <2>1
    <3>. QED
      BY <1>3, <1>4, <3>1
  <2>9. ASSUME NEW k \in 1 .. 7
        PROVE  w[k] = IF k = 1 THEN 1
                      ELSE w[k - 1] + (IF HasSize(F, k - 1) THEN 1 + v[w[k - 1]] ELSE 1)
    <3>1. k \in {1, 2, 3, 4, 5, 6, 7}
      OBVIOUS
    <3>2. k = 1 \/ P(k)
      <4>. HIDE DEF P
      <4>. QED
        BY <2>3, <2>4, <2>5, <2>6, <2>7, <2>8, <3>1
    <3>. QED
      BY <2>1, <3>2
  <2>. QED
    BY <1>3, <2>2, <2>9, ZenonT(30)
<1>. HIDE DEF w
<1>6. Q(pos)
  <2>. HIDE DEF Q
  <2>. QED
    BY <1>2, <1>5
<1>7. pos[1] = 1 /\ \A k \in 2 .. 7 : pos[k] = pos[k - 1] + (IF HasSize(F, k - 1) THEN 1 + v[pos[k - 1]] ELSE 1)
  <2>1. 1 \in 1 .. 7 /\ \A k \in 2 .. 7 : k \in 1 .. 7 /\ k # 1
    OBVIOUS
  <2>. QED
    BY <1>3, <1>6, <2>1, Zenon
<1>8. pos[2] = 2
  <2>1. pos[2] = pos[1] + 1
    BY <1>3, <1>4, <1>7
  <2>. QED
    BY <1>7, <2>1
<1>9. pos[3] = 3
  <2>1. pos[3] = pos[2] + 1
    BY <1>3, <1>4, <1>7
  <2>. QED
    BY <1>8, <2>1
<1>10. pos[4] = 4 + a
  <2>1. pos[4] = pos[3] + (1 + v[pos[3]])
    BY <1>3, <1>4, <1>7
  <2>. QED
    BY <1>9, <2>1
<1>11. pos[5] = 5 + a + b
  <2>1. pos[5] = pos[4] + (1 + v[pos[4]])
    BY <1>3, <1>4, <1>7
  <2>2. v[pos[4]] = b
    BY <1>10
  <2>. QED
    BY <1>10, <2>1, <2>2
<1>12. pos[6] = 6 + a + b
  <2>1. pos[6] = pos[5] + 1
    BY <1>3, <1>4, <1>7
  <2>. QED
    BY <1>11, <2>1
<1>. QED
  BY <1>1, <1>7, <1>8, <1>9, <1>10, <1>11, <1>12 DEF F

\* A field of width w, whose cells are s.
Elements(w, s) ==
    [e \in 1 .. Len(s) \div w |-> IF w = 1 THEN s[e] ELSE SubSeq(s, (e - 1) * w + 1, e * w)]

\* The elements of a view of width w.
LEMMA ElementsOf ==
  ASSUME NEW f \in Seq(Nat), NEW d \in Seq(Nat \X Nat)
  PROVE  Elements(1, f) = f /\ Elements(2, Cells(2, d)) = d
<1>1. Elements(1, f) = f
  <2>1. Len(f) \in Nat /\ Len(f) \div 1 = Len(f)
    OBVIOUS
  <2>. QED
    BY <2>1 DEF Elements
<1>2. Elements(2, Cells(2, d)) = d
  <2>. DEFINE c == Cells(2, d)
              n == Len(d)
              r == [k \in 1 .. n |-> SubSeq(c, (k - 1) * 2 + 1, k * 2)]
  <2>1. n \in Nat /\ c \in Seq(Nat) /\ Len(c) = 2 * n /\ \A k \in 1 .. n : c[2 * k - 1] = d[k][1] /\ c[2 * k] = d[k][2]
    BY CellsOf
  <2>. HIDE DEF c
  <2>2. Elements(2, c) = [k \in 1 .. Len(c) \div 2 |-> SubSeq(c, (k - 1) * 2 + 1, k * 2)]
    BY DEF Elements
  <2>3. Len(c) \div 2 = n
    BY <2>1
  <2>4. Elements(2, c) = r
    BY <2>2, <2>3
  <2>5. ASSUME NEW k \in 1 .. n PROVE SubSeq(c, (k - 1) * 2 + 1, k * 2) = d[k]
    <3>. DEFINE t == <<d[k][1], d[k][2]>>
    <3>1. d[k] \in Nat \X Nat
      OBVIOUS
    <3>2. d[k] = t /\ t \in Seq(Nat) /\ Len(t) = 2 /\ t[1] = d[k][1] /\ t[2] = d[k][2]
      BY <3>1
    <3>. HIDE DEF t
    <3>3. (k - 1) * 2 \in Nat /\ (k - 1) * 2 + Len(t) <= Len(c) /\ (k - 1) * 2 + Len(t) = k * 2
          /\ (k - 1) * 2 + 1 = 2 * k - 1 /\ (k - 1) * 2 + 2 = 2 * k
      BY <2>1, <3>2
    <3>4. c[(k - 1) * 2 + 1] = t[1] /\ c[(k - 1) * 2 + 2] = t[2]
      BY <2>1, <3>2, <3>3
    <3>5. \A i \in 1 .. Len(t) : c[(k - 1) * 2 + i] = t[i]
      <4>1. \A i \in 1 .. Len(t) : i = 1 \/ i = 2
        BY <3>2
      <4>. QED
        BY <3>4, <4>1
    <3>. DEFINE lo == (k - 1) * 2
    <3>6. SubSeq(c, lo + 1, lo + Len(t)) = t
      <4>. HIDE DEF lo
      <4>1. lo \in Nat /\ lo + Len(t) <= Len(c) /\ \A i \in 1 .. Len(t) : c[lo + i] = t[i]
        BY <3>3, <3>5 DEF lo
      <4>. QED
        BY <2>1, <3>2, <4>1, PartIs
    <3>. QED
      BY <3>2, <3>3, <3>6
  <2>6. r = d
    <3>1. r = [k \in 1 .. n |-> d[k]]
      BY <2>5
    <3>2. d = [k \in 1 .. n |-> d[k]]
      OBVIOUS
    <3>. QED
      BY <3>1, <3>2
  <2>. QED
    BY <2>4, <2>6 DEF c
<1>. QED
  BY <1>1, <1>2

\* An item_entry that is put is the one that is got, whatever the lengths of its
\* views (to_val and from_val of lmdb_wrapper_impl.h).
THEOREM RowRoundTrip ==
  ASSUME NEW h \in Nat, NEW t \in Nat, NEW f \in Seq(Nat), NEW d \in Seq(Nat \X Nat), NEW e \in Nat,
         NEW m \in Seq(Nat)
  PROVE  FromVal(ItemEntry, Reserved(ItemEntry, <<h, t, f, d, e, m>>)) = <<h, t, f, d, e, m>>
<1>. DEFINE F == ItemEntry
            v == RowCells(h, t, f, d, e, m)
            a == Len(f)
            b == 2 * Len(d)
            n == Len(m)
            pos == Positions(F, v)
            view(k) == IF HasSize(F, k) THEN SubSeq(v, pos[k] + 1, pos[k] + v[pos[k]])
                       ELSE SubSeq(v, pos[k], Len(v))
            field(k) == IF ~F[k].view THEN v[pos[k]] ELSE Elements(F[k].width, view(k))
<1>1. Reserved(F, <<h, t, f, d, e, m>>) = v
  BY RowReserved DEF Row
<1>2. FromVal(F, v) = [k \in 1 .. Len(F) |-> field(k)]
  BY DEF FromVal, Positions, Elements
<1>3. IsRow(v, h, t, f, d, e, m)
  BY RowCellsAre
<1>. HIDE DEF v
<1>4. a \in Nat /\ b \in Nat /\ n \in Nat
  OBVIOUS
<1>5. /\ v \in Seq(Nat) /\ Len(v) = 5 + a + b + n
      /\ v[1] = h /\ v[2] = t /\ v[3] = a /\ v[4 + a] = b /\ v[5 + a + b] = e
      /\ \A i \in 1 .. Len(f) : v[3 + i] = f[i]
      /\ \A i \in 1 .. b : v[(4 + a) + i] = Cells(2, d)[i]
      /\ \A i \in 1 .. Len(m) : v[(5 + a + b) + i] = m[i]
  <2>1. 4 + Len(f) = 4 + a /\ 4 + Len(f) + 2 * Len(d) + 1 = 5 + a + b
    <3>. HIDE DEF a, b
    <3>1. 4 + a + b + 1 = 5 + a + b
      BY <1>4
    <3>. QED
      BY <3>1 DEF a, b
  <2>. QED
    BY <1>3, <2>1 DEF IsRow
<1>. HIDE DEF b
<1>6. pos[1] = 1 /\ pos[2] = 2 /\ pos[3] = 3 /\ pos[4] = 4 + a /\ pos[5] = 5 + a + b /\ pos[6] = 6 + a + b
  <2>1. a \in Nat /\ b \in Nat /\ v[3] = a /\ v[4 + a] = b
    BY <1>4, <1>5
  <2>. HIDE DEF a
  <2>. QED
    BY <2>1, RowPositions
<1>. HIDE DEF pos
<1>7. a = Len(f) /\ n = Len(m)
  OBVIOUS
<1>. HIDE DEF a, n
<1>8. /\ Len(F) = 6
      /\ ~F[1].view /\ ~F[2].view /\ F[3].view /\ F[4].view /\ ~F[5].view /\ F[6].view
      /\ F[3].width = 1 /\ F[4].width = 2 /\ F[6].width = 1
      /\ HasSize(F, 3) /\ HasSize(F, 4) /\ ~HasSize(F, 6)
  BY RowFields
<1>. HIDE DEF F
<1>9. field(1) = h /\ field(2) = t /\ field(5) = e
  BY <1>5, <1>6, <1>8
<1>10. Elements(1, f) = f /\ Elements(1, m) = m /\ Elements(2, Cells(2, d)) = d
  BY ElementsOf
<1>11. field(3) = f
  <2>1. 3 + Len(f) <= Len(v)
    BY <1>4, <1>5, <1>7
  <2>2. SubSeq(v, 3 + 1, 3 + Len(f)) = f
    BY <1>5, <2>1, PartIs
  <2>3. view(3) = f
    <3>1. view(3) = SubSeq(v, pos[3] + 1, pos[3] + v[pos[3]])
      BY <1>8
    <3>2. pos[3] = 3 /\ v[pos[3]] = Len(f)
      BY <1>5, <1>6, <1>7
    <3>. QED
      BY <2>2, <3>1, <3>2
  <2>. HIDE DEF view
  <2>. QED
    BY <1>8, <1>10, <2>3
<1>12. field(4) = d
  <2>. DEFINE c == Cells(2, d)
  <2>1. c \in Seq(Nat) /\ Len(c) = b
    BY CellsOf DEF b
  <2>. HIDE DEF c
  <2>2. (4 + a) + Len(c) <= Len(v) /\ 4 + a \in Nat
    <3>1. Len(v) = 5 + a + b + n
      BY <1>5
    <3>. QED
      BY <1>4, <2>1, <3>1
  <2>3. \A i \in 1 .. Len(c) : v[(4 + a) + i] = c[i]
    BY <1>5, <2>1 DEF c
  <2>. DEFINE lo == 4 + a
  <2>4. SubSeq(v, lo + 1, lo + Len(c)) = c
    <3>. HIDE DEF lo
    <3>1. lo \in Nat /\ lo + Len(c) <= Len(v) /\ \A i \in 1 .. Len(c) : v[lo + i] = c[i]
      BY <2>2, <2>3 DEF lo
    <3>. QED
      BY <1>5, <2>1, <3>1, PartIs
  <2>5. view(4) = c
    <3>1. view(4) = SubSeq(v, pos[4] + 1, pos[4] + v[pos[4]])
      BY <1>8
    <3>2. pos[4] = lo /\ v[pos[4]] = Len(c)
      BY <1>5, <1>6, <2>1
    <3>. QED
      BY <2>4, <3>1, <3>2
  <2>. HIDE DEF view
  <2>. QED
    BY <1>8, <1>10, <2>5 DEF c
<1>13. field(6) = m
  <2>. DEFINE lo == 5 + a + b
  <2>1. lo \in Nat /\ lo + Len(m) = Len(v) /\ lo + 1 = 6 + a + b
    <3>1. Len(v) = 5 + a + b + n
      BY <1>5
    <3>. QED
      BY <1>4, <1>7, <3>1
  <2>2. \A i \in 1 .. Len(m) : v[lo + i] = m[i]
    BY <1>5
  <2>3. SubSeq(v, lo + 1, lo + Len(m)) = m
    <3>. HIDE DEF lo
    <3>1. lo + Len(m) <= Len(v)
      BY <1>4, <1>5, <2>1
    <3>. QED
      BY <1>5, <2>1, <2>2, <3>1, PartIs
  <2>4. view(6) = m
    <3>1. view(6) = SubSeq(v, pos[6], Len(v))
      BY <1>8
    <3>2. pos[6] = lo + 1
      BY <1>6, <2>1
    <3>. QED
      BY <2>1, <2>3, <3>1, <3>2
  <2>. HIDE DEF view
  <2>. QED
    BY <1>8, <1>10, <2>4
<1>. HIDE DEF field
<1>14. FromVal(F, v) = <<h, t, f, d, e, m>>
  <2>1. FromVal(F, v) = [k \in 1 .. 6 |-> field(k)]
    BY <1>2, <1>8
  <2>2. [k \in 1 .. 6 |-> field(k)] = <<field(1), field(2), field(3), field(4), field(5), field(6)>>
    OBVIOUS
  <2>. QED
    BY <1>9, <1>11, <1>12, <1>13, <2>1, <2>2
<1>. QED
  BY <1>1, <1>14 DEF F

-----------------------------------------------------------------------------
(* What the rows say *)

\* Name i of a table; 0 is no module.
At(s, i) == IF i \in DOMAIN s THEN s[i] ELSE NoName

\* A table: files, targets or modules, none of them twice.
Table(s) == DOMAIN s \subseteq Nat \ {0} /\ \A i, j \in DOMAIN s : s[i] = s[j] => i = j

Larger(t, s) == DOMAIN s \subseteq DOMAIN t /\ \A i \in DOMAIN s : t[i] = s[i]

\* An export, file dependencies, item dependencies and imports, in names.
Spoken(exp, fdeps, ideps, imps, F, T, M) ==
    [exp   |-> At(M, exp),
     fdeps |-> [k \in 1 .. Len(fdeps) |-> At(F, fdeps[k])],
     ideps |-> [k \in 1 .. Len(ideps) |-> <<At(F, ideps[k][1]), At(T, ideps[k][2])>>],
     imps  |-> [k \in 1 .. Len(imps) |-> At(M, imps[k])]]

\* A row, in names.
Reading(key, row, F, T, M) ==
    [file |-> At(F, key[1]), target |-> At(T, key[2]), time |-> row[2],
     said |-> Spoken(row[5], row[3], row[4], row[6], F, T, M)]

\* The ids of a report, and of a row.
IdsKnown(exp, fdeps, ideps, imps, F, T, M) ==
    /\ exp \in DOMAIN M \cup {0} /\ fdeps \in Seq(DOMAIN F)
    /\ ideps \in Seq((DOMAIN F) \X (DOMAIN T)) /\ imps \in Seq(DOMAIN M)

RowKnown(row, F, T, M) == IdsKnown(row[5], row[3], row[4], row[6], F, T, M)

KeyKnown(key, F, T) == key \in (DOMAIN F) \X (DOMAIN T)

\* A name keeps its number in a larger table.
LEMMA SameAt ==
  ASSUME NEW s, NEW t, Larger(t, s), NEW i \in DOMAIN s
  PROVE  At(t, i) = At(s, i) /\ At(s, i) = s[i] /\ i \in DOMAIN t
BY DEF Larger, At

\* A sequence over a set is one over a larger set.
LEMMA LargerSeq ==
  ASSUME NEW S, NEW T, S \subseteq T, NEW q \in Seq(S) PROVE q \in Seq(T)
<1>1. Len(q) \in Nat /\ DOMAIN q = 1 .. Len(q) /\ \A k \in 1 .. Len(q) : q[k] \in T
  OBVIOUS
<1>2. q = [k \in 1 .. Len(q) |-> q[k]]
  OBVIOUS
<1>. DEFINE n == Len(q)
            r == [k \in 1 .. n |-> q[k]]
<1>3. r \in [1 .. n -> T] /\ n \in Nat
  BY <1>1
<1>4. r \in Seq(T)
  <2>. HIDE DEF r, n
  <2>. QED
    BY <1>3
<1>. QED
  BY <1>2, <1>4

\* The ids stand for the same names in tables that have grown.
LEMMA SameSpoken ==
  ASSUME NEW F, NEW T, NEW M, NEW F2, NEW T2, NEW M2, Larger(F2, F), Larger(T2, T), Larger(M2, M),
         0 \notin DOMAIN M2,
         NEW exp, NEW fdeps, NEW ideps, NEW imps, IdsKnown(exp, fdeps, ideps, imps, F, T, M)
  PROVE  /\ Spoken(exp, fdeps, ideps, imps, F2, T2, M2) = Spoken(exp, fdeps, ideps, imps, F, T, M)
         /\ IdsKnown(exp, fdeps, ideps, imps, F2, T2, M2)
<1>1. At(M2, exp) = At(M, exp)
  <2>1. CASE exp \in DOMAIN M
    BY <2>1, SameAt
  <2>2. CASE exp = 0
    <3>1. 0 \notin DOMAIN M
      BY DEF Larger
    <3>. QED
      BY <2>2, <3>1 DEF At
  <2>. QED
    BY <2>1, <2>2 DEF IdsKnown
<1>2. ASSUME NEW k \in 1 .. Len(fdeps) PROVE At(F2, fdeps[k]) = At(F, fdeps[k])
  <2>1. fdeps[k] \in DOMAIN F
    BY DEF IdsKnown
  <2>. QED
    BY <2>1, SameAt
<1>3. ASSUME NEW k \in 1 .. Len(ideps)
      PROVE  At(F2, ideps[k][1]) = At(F, ideps[k][1]) /\ At(T2, ideps[k][2]) = At(T, ideps[k][2])
  <2>1. ideps[k] \in (DOMAIN F) \X (DOMAIN T)
    BY DEF IdsKnown
  <2>2. ideps[k][1] \in DOMAIN F /\ ideps[k][2] \in DOMAIN T
    BY <2>1
  <2>. QED
    BY <2>2, SameAt
<1>4. ASSUME NEW k \in 1 .. Len(imps) PROVE At(M2, imps[k]) = At(M, imps[k])
  <2>1. imps[k] \in DOMAIN M
    BY DEF IdsKnown
  <2>. QED
    BY <2>1, SameAt
<1>5. Spoken(exp, fdeps, ideps, imps, F2, T2, M2) = Spoken(exp, fdeps, ideps, imps, F, T, M)
  <2>1. [k \in 1 .. Len(fdeps) |-> At(F2, fdeps[k])] = [k \in 1 .. Len(fdeps) |-> At(F, fdeps[k])]
    BY <1>2
  <2>2. [k \in 1 .. Len(ideps) |-> <<At(F2, ideps[k][1]), At(T2, ideps[k][2])>>]
          = [k \in 1 .. Len(ideps) |-> <<At(F, ideps[k][1]), At(T, ideps[k][2])>>]
    BY <1>3
  <2>3. [k \in 1 .. Len(imps) |-> At(M2, imps[k])] = [k \in 1 .. Len(imps) |-> At(M, imps[k])]
    BY <1>4
  <2>. QED
    BY <1>1, <2>1, <2>2, <2>3 DEF Spoken
<1>6. IdsKnown(exp, fdeps, ideps, imps, F2, T2, M2)
  <2>1. DOMAIN F \subseteq DOMAIN F2 /\ DOMAIN M \subseteq DOMAIN M2 /\ DOMAIN T \subseteq DOMAIN T2
    BY DEF Larger
  <2>2. (DOMAIN F) \X (DOMAIN T) \subseteq (DOMAIN F2) \X (DOMAIN T2)
    BY <2>1
  <2>3. fdeps \in Seq(DOMAIN F2) /\ imps \in Seq(DOMAIN M2) /\ ideps \in Seq((DOMAIN F2) \X (DOMAIN T2))
    BY <2>1, <2>2, LargerSeq DEF IdsKnown
  <2>. QED
    BY <2>1, <2>3 DEF IdsKnown
<1>. QED
  BY <1>5, <1>6

\* A row means the same with larger tables.
LEMMA SameReading ==
  ASSUME NEW F, NEW T, NEW M, NEW F2, NEW T2, NEW M2, Larger(F2, F), Larger(T2, T), Larger(M2, M),
         0 \notin DOMAIN M2,
         NEW key, KeyKnown(key, F, T), NEW row, RowKnown(row, F, T, M)
  PROVE  /\ Reading(key, row, F2, T2, M2) = Reading(key, row, F, T, M)
         /\ KeyKnown(key, F2, T2) /\ RowKnown(row, F2, T2, M2)
<1>1. key = <<key[1], key[2]>> /\ key[1] \in DOMAIN F /\ key[2] \in DOMAIN T
  BY DEF KeyKnown
<1>2. At(F2, key[1]) = At(F, key[1]) /\ key[1] \in DOMAIN F2 /\ At(T2, key[2]) = At(T, key[2]) /\ key[2] \in DOMAIN T2
  BY <1>1, SameAt
<1>3. /\ Spoken(row[5], row[3], row[4], row[6], F2, T2, M2) = Spoken(row[5], row[3], row[4], row[6], F, T, M)
      /\ IdsKnown(row[5], row[3], row[4], row[6], F2, T2, M2)
  BY SameSpoken DEF RowKnown
<1>4. KeyKnown(key, F2, T2)
  <2>1. <<key[1], key[2]>> \in (DOMAIN F2) \X (DOMAIN T2)
    BY <1>2
  <2>. QED
    BY <1>1, <2>1 DEF KeyKnown
<1>. QED
  BY <1>2, <1>3, <1>4 DEF Reading, RowKnown

\* The file that a path stands for is the one that the store has for it.
LEMMA FileIs ==
  ASSUME NEW r \in Roots, NEW p \in Paths \cup ItemPaths \cup UnitPaths, NEW s, s.cwd = Normalize(<<Root>>, r),
         Addable(s, p)
  PROVE  FileOf[r][p] = Normalize(s.cwd, p)
<1>1. r \in Seq(Component) /\ Absolute(r) /\ p \in Seq(Component)
  BY RootsKnown, PathsKnown
<1>2. ~ClimbsAboveRoot(r, p)
  <2>1. CASE Absolute(p)
    <3>1. p # <<>>
      BY <2>1 DEF Absolute
    <3>2. ~ClimbsAboveRoot(s.cwd, p)
      BY <3>1 DEF Addable
    <3>3. Full(s.cwd, p) = p /\ Full(r, p) = p
      BY <2>1 DEF Full
    <3>. QED
      BY <3>2, <3>3 DEF ClimbsAboveRoot
  <2>2. CASE ~Absolute(p)
    BY <2>2, StoresAssumption
  <2>. QED
    BY <2>1, <2>2
<1>3. Normalize(Normalize(<<Root>>, r), p) = Meaning(r, p)
  BY <1>1, <1>2, NormalizeMeans
<1>4. FileOf[r][p] = Meaning(r, p)
  BY DEF FileOf
<1>. QED
  BY <1>3, <1>4

Report(e, f, d, m) == [exp |-> e, fdeps |-> f, ideps |-> d, imps |-> m]
SetExp(r, z)  == [r EXCEPT !.exp = z]
AddFdep(r, z) == [r EXCEPT !.fdeps = Append(@, z)]
AddIdep(r, z) == [r EXCEPT !.ideps = Append(@, z)]
AddImp(r, z)  == [r EXCEPT !.imps = Append(@, z)]

\* What a line does to a report.
LEMMA ReportFields ==
  ASSUME NEW e, NEW f, NEW d, NEW m, NEW z
  PROVE  LET r == Report(e, f, d, m)
         IN /\ r.exp = e /\ r.fdeps = f /\ r.ideps = d /\ r.imps = m
            /\ SetExp(r, z) = Report(z, f, d, m)
            /\ AddFdep(r, z) = Report(e, Append(f, z), d, m)
            /\ AddIdep(r, z) = Report(e, f, Append(d, z), m)
            /\ AddImp(r, z) = Report(e, f, d, Append(m, z))
<1>. DEFINE r == Report(e, f, d, m)
<1>1. r = [exp |-> e, fdeps |-> f, ideps |-> d, imps |-> m]
  BY DEF Report
<1>. HIDE DEF r
<1>2. r.exp = e /\ r.fdeps = f /\ r.ideps = d /\ r.imps = m
  BY <1>1
<1>3. ASSUME NEW y
      PROVE  /\ [r EXCEPT !.exp = y] = [exp |-> y, fdeps |-> f, ideps |-> d, imps |-> m]
             /\ [r EXCEPT !.fdeps = y] = [exp |-> e, fdeps |-> y, ideps |-> d, imps |-> m]
             /\ [r EXCEPT !.ideps = y] = [exp |-> e, fdeps |-> f, ideps |-> y, imps |-> m]
             /\ [r EXCEPT !.imps = y] = [exp |-> e, fdeps |-> f, ideps |-> d, imps |-> y]
  BY <1>1
<1>4. /\ [r EXCEPT !.fdeps = Append(r.fdeps, z)] = [exp |-> e, fdeps |-> Append(f, z), ideps |-> d, imps |-> m]
      /\ [r EXCEPT !.ideps = Append(r.ideps, z)] = [exp |-> e, fdeps |-> f, ideps |-> Append(d, z), imps |-> m]
      /\ [r EXCEPT !.imps = Append(r.imps, z)] = [exp |-> e, fdeps |-> f, ideps |-> d, imps |-> Append(m, z)]
  BY <1>2, <1>3, Zenon
<1>5. SetExp(r, z) = Report(z, f, d, m)
  BY <1>3 DEF SetExp, Report
<1>6. AddFdep(r, z) = Report(e, Append(f, z), d, m)
  BY <1>4 DEF AddFdep, Report
<1>7. AddIdep(r, z) = Report(e, f, Append(d, z), m)
  BY <1>4 DEF AddIdep, Report
<1>8. AddImp(r, z) = Report(e, f, d, Append(m, z))
  BY <1>4 DEF AddImp, Report
<1>. QED
  BY <1>2, <1>5, <1>6, <1>7, <1>8 DEF r

\* An export more.
LEMMA ExpKnown ==
  ASSUME NEW F, NEW T, NEW M, NEW e, NEW f, NEW d, NEW m, IdsKnown(e, f, d, m, F, T, M), NEW x \in DOMAIN M
  PROVE  /\ IdsKnown(x, f, d, m, F, T, M)
         /\ Spoken(x, f, d, m, F, T, M) = SetExp(Spoken(e, f, d, m, F, T, M), M[x])
<1>1. IdsKnown(x, f, d, m, F, T, M)
  BY DEF IdsKnown
<1>2. At(M, x) = M[x]
  BY DEF At
<1>. DEFINE u == [k \in 1 .. Len(f) |-> At(F, f[k])]
            v == [k \in 1 .. Len(d) |-> <<At(F, d[k][1]), At(T, d[k][2])>>]
            w == [k \in 1 .. Len(m) |-> At(M, m[k])]
            y == At(M, e)
            z == M[x]
<1>3. /\ Spoken(x, f, d, m, F, T, M) = Report(z, u, v, w)
      /\ Spoken(e, f, d, m, F, T, M) = Report(y, u, v, w)
  BY <1>2 DEF Spoken, Report
<1>. HIDE DEF u, v, w, y, z
<1>4. Spoken(x, f, d, m, F, T, M) = SetExp(Spoken(e, f, d, m, F, T, M), z)
  BY <1>3, ReportFields
<1>. QED
  BY <1>1, <1>4 DEF z

\* An import more.
LEMMA ImpKnown ==
  ASSUME NEW F, NEW T, NEW M, NEW e, NEW f, NEW d, NEW m, IdsKnown(e, f, d, m, F, T, M), NEW x \in DOMAIN M
  PROVE  /\ IdsKnown(e, f, d, Append(m, x), F, T, M)
         /\ Spoken(e, f, d, Append(m, x), F, T, M)
              = AddImp(Spoken(e, f, d, m, F, T, M), M[x])
<1>. DEFINE a == Append(m, x)
<1>1. m \in Seq(DOMAIN M)
  BY DEF IdsKnown
<1>2. a \in Seq(DOMAIN M) /\ Len(a) = Len(m) + 1 /\ a[Len(m) + 1] = x /\ \A k \in 1 .. Len(m) : a[k] = m[k]
  BY <1>1
<1>3. Len(m) \in Nat
  BY <1>1
<1>4. At(M, x) = M[x]
  BY DEF At
<1>. HIDE DEF a
<1>5. [k \in 1 .. Len(a) |-> At(M, a[k])] = Append([k \in 1 .. Len(m) |-> At(M, m[k])], M[x])
  BY <1>2, <1>3, <1>4
<1>6. IdsKnown(e, f, d, a, F, T, M)
  BY <1>2 DEF IdsKnown
<1>7. Spoken(e, f, d, a, F, T, M) = AddImp(Spoken(e, f, d, m, F, T, M), M[x])
  <2>. DEFINE r == [k \in 1 .. Len(a) |-> At(M, a[k])]
              q == [k \in 1 .. Len(m) |-> At(M, m[k])]
              y == At(M, e)
              u == [k \in 1 .. Len(f) |-> At(F, f[k])]
              v == [k \in 1 .. Len(d) |-> <<At(F, d[k][1]), At(T, d[k][2])>>]
              z == M[x]
  <2>1. /\ Spoken(e, f, d, a, F, T, M) = Report(y, u, v, r)
        /\ Spoken(e, f, d, m, F, T, M) = Report(y, u, v, q)
    BY DEF Spoken, Report
  <2>2. r = Append(q, z)
    BY <1>5
  <2>. HIDE DEF r, q, y, u, v, z
  <2>3. Spoken(e, f, d, a, F, T, M) = AddImp(Spoken(e, f, d, m, F, T, M), z)
    BY <2>1, <2>2, ReportFields
  <2>. QED
    BY <2>3 DEF z
<1>. QED
  BY <1>6, <1>7 DEF a

\* A file more.
LEMMA FdepKnown ==
  ASSUME NEW F, NEW T, NEW M, NEW e, NEW f, NEW d, NEW m, IdsKnown(e, f, d, m, F, T, M), NEW x \in DOMAIN F
  PROVE  /\ IdsKnown(e, Append(f, x), d, m, F, T, M)
         /\ Spoken(e, Append(f, x), d, m, F, T, M)
              = AddFdep(Spoken(e, f, d, m, F, T, M), F[x])
<1>. DEFINE a == Append(f, x)
<1>1. f \in Seq(DOMAIN F)
  BY DEF IdsKnown
<1>2. a \in Seq(DOMAIN F) /\ Len(a) = Len(f) + 1 /\ a[Len(f) + 1] = x /\ \A k \in 1 .. Len(f) : a[k] = f[k]
  BY <1>1
<1>3. Len(f) \in Nat
  BY <1>1
<1>4. At(F, x) = F[x]
  BY DEF At
<1>. HIDE DEF a
<1>5. [k \in 1 .. Len(a) |-> At(F, a[k])] = Append([k \in 1 .. Len(f) |-> At(F, f[k])], F[x])
  BY <1>2, <1>3, <1>4
<1>6. IdsKnown(e, a, d, m, F, T, M)
  BY <1>2 DEF IdsKnown
<1>7. Spoken(e, a, d, m, F, T, M) = AddFdep(Spoken(e, f, d, m, F, T, M), F[x])
  <2>. DEFINE r == [k \in 1 .. Len(a) |-> At(F, a[k])]
              q == [k \in 1 .. Len(f) |-> At(F, f[k])]
              y == At(M, e)
              u == [k \in 1 .. Len(m) |-> At(M, m[k])]
              v == [k \in 1 .. Len(d) |-> <<At(F, d[k][1]), At(T, d[k][2])>>]
              z == F[x]
  <2>1. /\ Spoken(e, a, d, m, F, T, M) = Report(y, r, v, u)
        /\ Spoken(e, f, d, m, F, T, M) = Report(y, q, v, u)
    BY DEF Spoken, Report
  <2>2. r = Append(q, z)
    BY <1>5
  <2>. HIDE DEF r, q, y, u, v, z
  <2>3. Spoken(e, a, d, m, F, T, M) = AddFdep(Spoken(e, f, d, m, F, T, M), z)
    BY <2>1, <2>2, ReportFields
  <2>. QED
    BY <2>3 DEF z
<1>. QED
  BY <1>6, <1>7 DEF a

SameTo(r, q, n) == \A k \in 1 .. n : r[k] = q[k]

IsFunction(q, n) == q = [k \in 1 .. n |-> q[k]]

\* A function that extends a sequence by one element.
LEMMA AppendIs ==
  ASSUME NEW n \in Nat, NEW q, IsFunction(q, n), NEW y,
         NEW r, IsFunction(r, n + 1), r[n + 1] = y, SameTo(r, q, n)
  PROVE  r = Append(q, y)
<1>. DEFINE S == {q[k] : k \in 1 .. n} \cup {y}
<1>1. \A k \in 1 .. n : q[k] \in S
  OBVIOUS
<1>2. y \in S
  OBVIOUS
<1>. HIDE DEF S
<1>3. q \in Seq(S) /\ Len(q) = n
  <2>1. [k \in 1 .. n |-> q[k]] \in [1 .. n -> S]
    BY <1>1
  <2>2. q \in [1 .. n -> S]
    BY <2>1 DEF IsFunction
  <2>. QED
    BY <2>2
<1>4. r \in Seq(S) /\ Len(r) = n + 1
  <2>1. \A k \in 1 .. n + 1 : k = n + 1 \/ k \in 1 .. n
    OBVIOUS
  <2>2. \A k \in 1 .. n + 1 : r[k] \in S
    BY <1>1, <1>2, <2>1 DEF SameTo
  <2>3. [k \in 1 .. n + 1 |-> r[k]] \in [1 .. n + 1 -> S]
    BY <2>2
  <2>4. r \in [1 .. n + 1 -> S]
    BY <2>3 DEF IsFunction
  <2>. QED
    BY <2>4
<1>5. Append(q, y) \in Seq(S) /\ Len(Append(q, y)) = n + 1 /\ Append(q, y)[n + 1] = y
      /\ \A k \in 1 .. n : Append(q, y)[k] = q[k]
  BY <1>2, <1>3
<1>. DEFINE a == Append(q, y)
<1>. HIDE DEF a
<1>6. \A k \in 1 .. n + 1 : r[k] = a[k]
  <2>1. \A k \in 1 .. n + 1 : k = n + 1 \/ k \in 1 .. n
    OBVIOUS
  <2>. QED
    BY <1>5, <2>1 DEF a, SameTo
<1>7. a \in Seq(S) /\ Len(a) = n + 1
  BY <1>5 DEF a
<1>8. r = a
  BY <1>4, <1>6, <1>7
<1>. QED
  BY <1>8 DEF a

\* A header unit more.
LEMMA IdepKnown ==
  ASSUME NEW F, NEW T, NEW M, NEW e, NEW f, NEW d, NEW m, IdsKnown(e, f, d, m, F, T, M),
         NEW x \in DOMAIN F, NEW t \in DOMAIN T
  PROVE  /\ IdsKnown(e, f, Append(d, <<x, t>>), m, F, T, M)
         /\ Spoken(e, f, Append(d, <<x, t>>), m, F, T, M)
              = AddIdep(Spoken(e, f, d, m, F, T, M), <<F[x], T[t]>>)
<1>. DEFINE p == <<x, t>>
            P == (DOMAIN F) \X (DOMAIN T)
<1>1. d \in Seq(P)
  BY DEF IdsKnown
<1>2. p \in P /\ p[1] = x /\ p[2] = t
  OBVIOUS
<1>. HIDE DEF p, P
<1>. DEFINE a == Append(d, p)
<1>3. a \in Seq(P) /\ Len(a) = Len(d) + 1 /\ a[Len(d) + 1] = p /\ \A k \in 1 .. Len(d) : a[k] = d[k]
  BY <1>1, <1>2
<1>4. Len(d) \in Nat
  BY <1>1
<1>5. At(F, x) = F[x] /\ At(T, t) = T[t]
  BY DEF At
<1>. HIDE DEF a
<1>6. [k \in 1 .. Len(a) |-> <<At(F, a[k][1]), At(T, a[k][2])>>]
        = Append([k \in 1 .. Len(d) |-> <<At(F, d[k][1]), At(T, d[k][2])>>], <<F[x], T[t]>>)
  <2>. DEFINE r == [k \in 1 .. Len(a) |-> <<At(F, a[k][1]), At(T, a[k][2])>>]
              q == [k \in 1 .. Len(d) |-> <<At(F, d[k][1]), At(T, d[k][2])>>]
              y == <<F[x], T[t]>>
              n == Len(d)
  <2>1. \A k \in 1 .. n : r[k] = q[k]
    BY <1>3, <1>4
  <2>2. r[n + 1] = y
    <3>1. n + 1 \in 1 .. Len(a)
      BY <1>3, <1>4
    <3>2. r[n + 1] = <<At(F, p[1]), At(T, p[2])>>
      BY <1>3, <3>1
    <3>. QED
      BY <1>2, <1>5, <3>2
  <2>3. r = [k \in 1 .. n + 1 |-> r[k]] /\ q = [k \in 1 .. n |-> q[k]] /\ n \in Nat
    BY <1>3, <1>4
  <2>. HIDE DEF r, q, y, n
  <2>4. SameTo(r, q, n)
    BY <2>1 DEF SameTo
  <2>5. IsFunction(q, n) /\ IsFunction(r, n + 1)
    BY <2>3 DEF IsFunction
  <2>6. r = Append(q, y)
    BY <2>2, <2>3, <2>4, <2>5, AppendIs
  <2>. QED
    BY <2>6 DEF r, q, y
<1>7. IdsKnown(e, f, a, m, F, T, M)
  BY <1>3 DEF IdsKnown, P
<1>8. Spoken(e, f, a, m, F, T, M) = AddIdep(Spoken(e, f, d, m, F, T, M), <<F[x], T[t]>>)
  <2>. DEFINE r == [k \in 1 .. Len(a) |-> <<At(F, a[k][1]), At(T, a[k][2])>>]
              q == [k \in 1 .. Len(d) |-> <<At(F, d[k][1]), At(T, d[k][2])>>]
              y == At(M, e)
              u == [k \in 1 .. Len(m) |-> At(M, m[k])]
              v == [k \in 1 .. Len(f) |-> At(F, f[k])]
              z == <<F[x], T[t]>>
  <2>1. /\ Spoken(e, f, a, m, F, T, M) = Report(y, v, r, u)
        /\ Spoken(e, f, d, m, F, T, M) = Report(y, v, q, u)
    BY DEF Spoken, Report
  <2>2. r = Append(q, z)
    BY <1>6
  <2>. HIDE DEF r, q, y, u, v, z
  <2>3. Spoken(e, f, a, m, F, T, M) = AddIdep(Spoken(e, f, d, m, F, T, M), z)
    BY <2>1, <2>2, ReportFields
  <2>. QED
    BY <2>3 DEF z
<1>. QED
  BY <1>7, <1>8 DEF a, p

-----------------------------------------------------------------------------
(* The tables of the stores *)

\* A sequence without duplicates is a table.
LEMMA AsTables ==
  ASSUME NEW s, NEW t, Len(s) \in Nat, Len(t) \in Nat, DOMAIN s = 1 .. Len(s), DOMAIN t = 1 .. Len(t),
         StartsWith(t, s), Distinct(t)
  PROVE  Table(s) /\ Table(t) /\ Larger(t, s)
<1>1. Len(s) <= Len(t) /\ \A i \in 1 .. Len(s) : s[i] = t[i]
  BY DEF StartsWith
<1>2. Larger(t, s)
  BY <1>1 DEF Larger
<1>3. Table(t)
  BY DEF Distinct, Table
<1>4. Table(s)
  <2>1. ASSUME NEW i \in DOMAIN s, NEW j \in DOMAIN s, s[i] = s[j] PROVE i = j
    <3>1. i \in DOMAIN t /\ j \in DOMAIN t /\ t[i] = t[j]
      BY <1>1, <2>1
    <3>. QED
      BY <1>3, <3>1 DEF Table
  <2>. QED
    BY <2>1 DEF Table
<1>. QED
  BY <1>2, <1>3, <1>4

\* The names of a store and of its database.
LEMMA NameTables ==
  ASSUME NEW s, NEW db, NamesSaved(db), NamesOpen(s, db)
  PROVE  /\ Table(SavedNames(db)) /\ Table(NamesIn(s)) /\ Larger(NamesIn(s), SavedNames(db))
         /\ DOMAIN NamesIn(s) = 1 .. s.next - 1
         /\ \A i \in 1 .. s.next - 1 : NamesIn(s)[i] = s.reverse[i]
<1>1. /\ StartsWith(NamesIn(s), SavedNames(db)) /\ Distinct(NamesIn(s))
      /\ Len(NamesIn(s)) = s.next - 1 /\ Len(SavedNames(db)) = LastId(db)
  BY NamesAreTable
<1>2. s.next - 1 \in Nat /\ LastId(db) \in Nat
  BY DEF NamesOpen, NamesSaved
<1>3. DOMAIN NamesIn(s) = 1 .. s.next - 1 /\ DOMAIN SavedNames(db) = 1 .. LastId(db)
      /\ \A i \in 1 .. s.next - 1 : NamesIn(s)[i] = s.reverse[i]
  BY DEF NamesIn, SavedNames, LastId
<1>. DEFINE x == SavedNames(db)
            y == NamesIn(s)
<1>. HIDE DEF x, y
<1>4. Table(x) /\ Table(y) /\ Larger(y, x)
  <2>1. Len(x) \in Nat /\ Len(y) \in Nat /\ DOMAIN x = 1 .. Len(x) /\ DOMAIN y = 1 .. Len(y)
        /\ StartsWith(y, x) /\ Distinct(y)
    BY <1>1, <1>2, <1>3 DEF x, y
  <2>. QED
    BY <2>1, AsTables
<1>. QED
  BY <1>3, <1>4 DEF x, y

\* The paths of a store and of its database.
LEMMA PathTables ==
  ASSUME NEW s, NEW db, PathsSaved(db), PathsOpen(s, db)
  PROVE  /\ Table(SavedPaths(db)) /\ Table(PathsIn(s)) /\ Larger(PathsIn(s), SavedPaths(db))
         /\ DOMAIN PathsIn(s) = 1 .. Len(s.refs) /\ DOMAIN SavedPaths(db) = 1 .. Len(SavedRefs(db))
         /\ \A i \in 1 .. Len(s.refs) : PathsIn(s)[i] = PathAt(s, i)
<1>1. /\ StartsWith(PathsIn(s), SavedPaths(db)) /\ Distinct(PathsIn(s))
      /\ Len(PathsIn(s)) = Len(s.refs) /\ \A i \in 1 .. Len(s.refs) : PathsIn(s)[i] = PathAt(s, i)
  BY PathsAreTable
<1>2. Len(s.refs) \in Nat /\ Len(SavedPaths(db)) = Len(SavedRefs(db)) /\ Len(SavedRefs(db)) \in Nat
  BY OpenFields, SavedLen
<1>3. DOMAIN PathsIn(s) = 1 .. Len(s.refs)
  BY DEF PathsIn
<1>4. DOMAIN SavedPaths(db) = 1 .. Len(SavedRefs(db))
  <2>1. (IF Has(db, 0) THEN Len(db[0]) ELSE 0) = Len(SavedRefs(db))
    <3>1. Len(<<>>) = 0
      OBVIOUS
    <3>. QED
      BY <3>1 DEF SavedRefs
  <2>. QED
    BY <2>1 DEF SavedPaths
<1>. DEFINE x == SavedPaths(db)
            y == PathsIn(s)
<1>. HIDE DEF x, y
<1>5. Table(x) /\ Table(y) /\ Larger(y, x)
  <2>1. Len(x) \in Nat /\ Len(y) \in Nat /\ DOMAIN x = 1 .. Len(x) /\ DOMAIN y = 1 .. Len(y)
        /\ StartsWith(y, x) /\ Distinct(y)
    BY <1>1, <1>2, <1>3, <1>4 DEF x, y
  <2>. QED
    BY <2>1, AsTables
<1>. QED
  BY <1>1, <1>3, <1>4, <1>5 DEF x, y

-----------------------------------------------------------------------------
(* The rows of the database *)

ReadRow(db, key) ==
    Reading(key, FromVal(ItemEntry, db.items[key]), SavedPaths(db.paths), SavedNames(db.targets),
            SavedNames(db.modules))

\* The ids of all rows are those of saved names.
RowsKnown(db) ==
    \A key \in DOMAIN db.items :
      /\ KeyKnown(key, SavedPaths(db.paths), SavedNames(db.targets))
      /\ RowKnown(FromVal(ItemEntry, db.items[key]), SavedPaths(db.paths), SavedNames(db.targets),
                  SavedNames(db.modules))

\* What the rows say is what was meant.
RowsMeant(db, mm) == {ReadRow(db, key) : key \in DOMAIN db.items} = mm

\* key is that of a file and a target.
KeyIs(key, file, t, F, T) ==
    /\ key = <<key[1], key[2]>>
    /\ key[1] \in DOMAIN F /\ F[key[1]] = file
    /\ key[2] \in DOMAIN T /\ T[key[2]] = t

\* The parts of what a row says.
LEMMA ReadingFields ==
  ASSUME NEW key, NEW row, NEW F, NEW T, NEW M
  PROVE  /\ Reading(key, row, F, T, M).file = At(F, key[1])
         /\ Reading(key, row, F, T, M).target = At(T, key[2])
         /\ Reading(key, row, F, T, M).said = Spoken(row[5], row[3], row[4], row[6], F, T, M)
BY DEF Reading

\* The export of what a report says.
LEMMA SpokenExp ==
  ASSUME NEW e, NEW f, NEW d, NEW m, NEW F, NEW T, NEW M
  PROVE  Spoken(e, f, d, m, F, T, M).exp = At(M, e)
BY DEF Spoken

\* The only row of a file and a target is the one with their ids.
LEMMA RowFound ==
  ASSUME NEW db, RowsKnown(db), NEW F, NEW T, Table(F), Table(T),
         Larger(F, SavedPaths(db.paths)), Larger(T, SavedNames(db.targets)),
         NEW file, NEW t, NEW key, KeyIs(key, file, t, F, T), NEW k \in DOMAIN db.items
  PROVE  IsRowOf(ReadRow(db, k), file, t) <=> k = key
<1>. DEFINE F0 == SavedPaths(db.paths)
            T0 == SavedNames(db.targets)
<1>1. KeyKnown(k, F0, T0)
  BY DEF RowsKnown
<1>2. ReadRow(db, k).file = At(F0, k[1]) /\ ReadRow(db, k).target = At(T0, k[2])
  BY ReadingFields DEF ReadRow
<1>3. Larger(F, F0) /\ Larger(T, T0)
  OBVIOUS
<1>. HIDE DEF F0, T0
<1>4. k = <<k[1], k[2]>> /\ k[1] \in DOMAIN F0 /\ k[2] \in DOMAIN T0
  BY <1>1 DEF KeyKnown
<1>5. At(F0, k[1]) = F[k[1]] /\ At(T0, k[2]) = T[k[2]] /\ k[1] \in DOMAIN F /\ k[2] \in DOMAIN T
  BY <1>3, <1>4 DEF Larger, At
<1>6. IsRowOf(ReadRow(db, k), file, t) <=> F[k[1]] = file /\ T[k[2]] = t
  BY <1>2, <1>5 DEF IsRowOf
<1>7. ASSUME F[k[1]] = file, T[k[2]] = t PROVE k = key
  <2>1. k[1] = key[1]
    BY <1>5, <1>7 DEF KeyIs, Table
  <2>2. k[2] = key[2]
    BY <1>5, <1>7 DEF KeyIs, Table
  <2>. QED
    BY <1>4, <2>1, <2>2 DEF KeyIs
<1>8. ASSUME k = key PROVE F[k[1]] = file /\ T[k[2]] = t
  BY <1>8 DEF KeyIs
<1>. QED
  BY <1>6, <1>7, <1>8

\* What was meant of a file and a target is what their row says.
LEMMA MeantRow ==
  ASSUME NEW db, RowsKnown(db), NEW mm, RowsMeant(db, mm), NEW F, NEW T, Table(F), Table(T),
         Larger(F, SavedPaths(db.paths)), Larger(T, SavedNames(db.targets)),
         NEW file, NEW t, NEW key, KeyIs(key, file, t, F, T)
  PROVE  /\ \A m \in mm : IsRowOf(m, file, t) => key \in DOMAIN db.items /\ m = ReadRow(db, key)
         /\ key \in DOMAIN db.items => ReadRow(db, key) \in mm /\ IsRowOf(ReadRow(db, key), file, t)
<1>1. ASSUME NEW m \in mm, IsRowOf(m, file, t) PROVE key \in DOMAIN db.items /\ m = ReadRow(db, key)
  <2>1. PICK k \in DOMAIN db.items : m = ReadRow(db, k)
    BY DEF RowsMeant
  <2>2. k = key
    BY <1>1, <2>1, RowFound
  <2>. QED
    BY <2>1, <2>2
<1>2. ASSUME key \in DOMAIN db.items PROVE ReadRow(db, key) \in mm /\ IsRowOf(ReadRow(db, key), file, t)
  <2>1. ReadRow(db, key) \in mm
    BY <1>2 DEF RowsMeant
  <2>2. IsRowOf(ReadRow(db, key), file, t)
    BY <1>2, RowFound
  <2>. QED
    BY <2>1, <2>2
<1>. QED
  BY <1>1, <1>2

\* All rows but that of a file and a target.
LEMMA OtherRows ==
  ASSUME NEW db, RowsKnown(db), NEW mm, RowsMeant(db, mm), NEW F, NEW T, Table(F), Table(T),
         Larger(F, SavedPaths(db.paths)), Larger(T, SavedNames(db.targets)),
         NEW file, NEW t, NEW key, KeyIs(key, file, t, F, T)
  PROVE  {ReadRow(db, k) : k \in DOMAIN db.items \ {key}} = {m \in mm : ~IsRowOf(m, file, t)}
<1>1. ASSUME NEW k \in DOMAIN db.items \ {key}
      PROVE  ReadRow(db, k) \in mm /\ ~IsRowOf(ReadRow(db, k), file, t)
  <2>1. ReadRow(db, k) \in mm
    BY DEF RowsMeant
  <2>2. ~IsRowOf(ReadRow(db, k), file, t)
    BY RowFound
  <2>. QED
    BY <2>1, <2>2
<1>2. ASSUME NEW m \in mm, ~IsRowOf(m, file, t) PROVE \E k \in DOMAIN db.items \ {key} : m = ReadRow(db, k)
  <2>1. PICK k \in DOMAIN db.items : m = ReadRow(db, k)
    BY DEF RowsMeant
  <2>2. k # key
    BY <1>2, <2>1, RowFound
  <2>. QED
    BY <2>1, <2>2
<1>. QED
  BY <1>1, <1>2

-----------------------------------------------------------------------------
(* The item of the scan, and what is heard of it *)

\* The item has the ids of its file and target.
ItemKnown(ps, ts, it) ==
    /\ Addable(ps, it.path)
    /\ KeyIs(<<PathId(ps, it.path), NameId(ts, it.target)>>, FileOf[it.root][it.path], it.target,
             PathsIn(ps), NamesIn(ts))

\* s is what the report r stands for.
Heard(r, s, F, T, M) ==
    /\ IdsKnown(r.exp, r.fdeps, r.ideps, r.imps, F, T, M)
    /\ s = Spoken(r.exp, r.fdeps, r.ideps, r.imps, F, T, M)

IsReport(r) == r = Report(r.exp, r.fdeps, r.ideps, r.imps)

\* The rows, the item of the scan, and what the scan has heard of it.
RowsInv ==
    /\ RowsKnown(disk) /\ RowsMeant(disk, meant)
    /\ got => pc = "ood"
    /\ pc # "idle" => ItemKnown(paths, targets, item)
    /\ pc = "ood" =>
         /\ IsReport(rep)
         /\ Heard(IF got THEN rep ELSE Report(rep.exp, <<>>, <<>>, <<>>), said,
                  PathsIn(paths), NamesIn(targets), NamesIn(modules))

\* What an empty report says.
LEMMA NothingSpoken ==
  ASSUME NEW e, NEW F, NEW T, NEW M
  PROVE  /\ Spoken(e, <<>>, <<>>, <<>>, F, T, M) = Report(At(M, e), <<>>, <<>>, <<>>)
         /\ e \in DOMAIN M \cup {0} => IdsKnown(e, <<>>, <<>>, <<>>, F, T, M)
<1>1. Len(<<>>) = 0 /\ 1 .. 0 = {}
  OBVIOUS
<1>2. Spoken(e, <<>>, <<>>, <<>>, F, T, M) = Report(At(M, e), <<>>, <<>>, <<>>)
  BY <1>1 DEF Spoken, Report
<1>3. <<>> \in Seq(DOMAIN F) /\ <<>> \in Seq((DOMAIN F) \X (DOMAIN T)) /\ <<>> \in Seq(DOMAIN M)
  OBVIOUS
<1>. QED
  BY <1>2, <1>3 DEF IdsKnown

\* Init: there are no rows.
LEMMA RowsInit == Init => RowsInv
<1>. SUFFICES ASSUME Init PROVE RowsInv
  OBVIOUS
<1>1. disk.items = EmptyDb /\ meant = {} /\ ~got /\ pc = "idle"
  BY DEF Init, EmptyDisk
<1>2. DOMAIN disk.items = {}
  BY <1>1 DEF EmptyDb
<1>3. RowsKnown(disk) /\ RowsMeant(disk, meant)
  BY <1>1, <1>2 DEF RowsKnown, RowsMeant
<1>. QED
  BY <1>1, <1>3 DEF RowsInv

\* What the item's row said of the export is what was meant.
LEMMA ExportMeant ==
  ASSUME NEW db, RowsKnown(db), RowsMeant(db, meant), NEW F, NEW T, Table(F), Table(T),
         Larger(F, SavedPaths(db.paths)), Larger(T, SavedNames(db.targets)),
         NEW file, NEW t, NEW key, KeyIs(key, file, t, F, T),
         0 \notin DOMAIN SavedNames(db.modules)
  PROVE  LET e == IF Has(db.items, key) THEN FromVal(ItemEntry, db.items[key])[5] ELSE 0
         IN /\ e \in DOMAIN SavedNames(db.modules) \cup {0}
            /\ MeantExport(file, t) = At(SavedNames(db.modules), e)
<1>. DEFINE M == SavedNames(db.modules)
            mine(m) == IsRowOf(m, file, t)
<1>1. /\ \A m \in meant : IsRowOf(m, file, t) => key \in DOMAIN db.items /\ m = ReadRow(db, key)
      /\ key \in DOMAIN db.items => ReadRow(db, key) \in meant /\ IsRowOf(ReadRow(db, key), file, t)
  BY MeantRow
<1>2. MeantExport(file, t) = IF \E m \in meant : mine(m) THEN (CHOOSE m \in meant : mine(m)).said.exp ELSE NoName
  BY DEF MeantExport
<1>3. ASSUME key \in DOMAIN db.items
      PROVE  LET e == FromVal(ItemEntry, db.items[key])[5]
             IN e \in DOMAIN M \cup {0} /\ MeantExport(file, t) = At(M, e)
  <2>. DEFINE r == FromVal(ItemEntry, db.items[key])
              c == CHOOSE m \in meant : mine(m)
  <2>1. ReadRow(db, key) \in meant /\ mine(ReadRow(db, key))
    BY <1>1, <1>3
  <2>2. c \in meant /\ mine(c)
    BY <2>1
  <2>3. c = ReadRow(db, key)
    BY <1>1, <2>2
  <2>4. MeantExport(file, t) = c.said.exp
    BY <1>2, <2>1
  <2>. HIDE DEF c
  <2>5. ReadRow(db, key).said = Spoken(r[5], r[3], r[4], r[6], SavedPaths(db.paths), SavedNames(db.targets), M)
    BY ReadingFields DEF ReadRow
  <2>6. ReadRow(db, key).said.exp = At(M, r[5])
    BY <2>5, SpokenExp
  <2>7. r[5] \in DOMAIN M \cup {0}
    BY <1>3 DEF RowsKnown, RowKnown, IdsKnown
  <2>. QED
    BY <2>3, <2>4, <2>6, <2>7
<1>4. ASSUME key \notin DOMAIN db.items PROVE MeantExport(file, t) = At(M, 0)
  <2>1. ~ \E m \in meant : mine(m)
    BY <1>1, <1>4
  <2>2. MeantExport(file, t) = NoName
    BY <1>2, <2>1
  <2>3. At(M, 0) = NoName
    BY DEF At
  <2>. QED
    BY <2>2, <2>3
<1>. QED
  BY <1>3, <1>4 DEF Has

\* No name has the id 0.
LEMMA Unnamed ==
  ASSUME NEW db PROVE 0 \notin DOMAIN SavedNames(db)
BY DEF SavedNames

\* What is known of the export when the item is looked up.
LEMMA RowLookedUp ==
  ASSUME NEW db, RowsKnown(db), RowsMeant(db, meant), NamesSaved(db.targets), PathsSaved(db.paths),
         NEW ps, PathsOpen(ps, db.paths), NEW ts, NamesOpen(ts, db.targets), NEW file, NEW p, NEW t,
         KeyIs(<<PathId(ps, p), NameId(ts, t)>>, file, t, PathsIn(ps), NamesIn(ts))
  PROVE  LET row == RowOf(db, ps, ts, p, t)
             M   == SavedNames(db.modules)
         IN row[5] \in DOMAIN M \cup {0} /\ MeantExport(file, t) = At(M, row[5])
<1>. DEFINE key == <<PathId(ps, p), NameId(ts, t)>>
            row == RowOf(db, ps, ts, p, t)
            M == SavedNames(db.modules)
            e == IF Has(db.items, key) THEN FromVal(ItemEntry, db.items[key])[5] ELSE 0
<1>1. /\ Table(PathsIn(ps)) /\ Larger(PathsIn(ps), SavedPaths(db.paths))
      /\ DOMAIN SavedPaths(db.paths) = 1 .. Len(SavedRefs(db.paths))
  BY PathTables
<1>2. Table(NamesIn(ts)) /\ Larger(NamesIn(ts), SavedNames(db.targets))
  BY NameTables
<1>3. e \in DOMAIN M \cup {0} /\ MeantExport(file, t) = At(M, e)
  <2>1. 0 \notin DOMAIN M
    BY Unnamed
  <2>2. KeyIs(key, file, t, PathsIn(ps), NamesIn(ts))
    OBVIOUS
  <2>. HIDE DEF key
  <2>. QED
    BY <1>1, <1>2, <2>1, <2>2, ExportMeant
<1>4. Has(db.items, key) => key[1] <= ps.max
  <2>. SUFFICES ASSUME Has(db.items, key) PROVE key[1] <= ps.max
    OBVIOUS
  <2>1. KeyKnown(key, SavedPaths(db.paths), SavedNames(db.targets))
    BY DEF RowsKnown, Has
  <2>2. key[1] \in DOMAIN SavedPaths(db.paths)
    BY <2>1 DEF KeyKnown
  <2>3. ps.max = Len(SavedRefs(db.paths))
    BY DEF PathsOpen
  <2>4. Len(SavedRefs(db.paths)) \in Nat
    BY SavedLen
  <2>. QED
    BY <1>1, <2>2, <2>3, <2>4
<1>5. row[5] = e
  <2>1. row = IF key[1] <= ps.max /\ Has(db.items, key) THEN FromVal(ItemEntry, db.items[key])
              ELSE <<0, 0, <<>>, <<>>, 0, <<>>>>
    BY DEF RowOf
  <2>. HIDE DEF key
  <2>2. CASE Has(db.items, key)
    BY <1>4, <2>1, <2>2
  <2>3. CASE ~Has(db.items, key)
    <3>1. row = <<0, 0, <<>>, <<>>, 0, <<>>>>
      BY <2>1, <2>3
    <3>. HIDE DEF row
    <3>. QED
      BY <2>3, <3>1
  <2>. QED
    BY <2>2, <2>3
<1>. QED
  BY <1>3, <1>5

\* The ids of an item are those of its file and target.
LEMMA KeyOfItem ==
  ASSUME NEW db, PathsSaved(db.paths), NamesSaved(db.targets),
         NEW r \in Roots, NEW p \in Paths \cup ItemPaths \cup UnitPaths, NEW t,
         NEW ps, PathsOpen(ps, db.paths), NEW ts, NamesOpen(ts, db.targets),
         ps.cwd = Normalize(<<Root>>, r), Addable(ps, p),
         PathId(ps, p) \in 1 .. Len(ps.refs), PathAt(ps, PathId(ps, p)) = Normalize(ps.cwd, p),
         NameId(ts, t) \in 1 .. ts.next - 1, ts.reverse[NameId(ts, t)] = t
  PROVE  KeyIs(<<PathId(ps, p), NameId(ts, t)>>, FileOf[r][p], t, PathsIn(ps), NamesIn(ts))
<1>1. FileOf[r][p] = Normalize(ps.cwd, p)
  BY FileIs
<1>2. /\ DOMAIN PathsIn(ps) = 1 .. Len(ps.refs)
      /\ \A i \in 1 .. Len(ps.refs) : PathsIn(ps)[i] = PathAt(ps, i)
  BY PathTables
<1>3. DOMAIN NamesIn(ts) = 1 .. ts.next - 1 /\ \A i \in 1 .. ts.next - 1 : NamesIn(ts)[i] = ts.reverse[i]
  BY NameTables
<1>. DEFINE i == PathId(ps, p)
            j == NameId(ts, t)
<1>4. i \in DOMAIN PathsIn(ps) /\ PathsIn(ps)[i] = FileOf[r][p] /\ j \in DOMAIN NamesIn(ts) /\ NamesIn(ts)[j] = t
  BY <1>1, <1>2, <1>3
<1>. HIDE DEF i, j
<1>5. <<i, j>>[1] = i /\ <<i, j>>[2] = j
  OBVIOUS
<1>6. KeyIs(<<i, j>>, FileOf[r][p], t, PathsIn(ps), NamesIn(ts))
  BY <1>4, <1>5 DEF KeyIs
<1>. QED
  BY <1>6 DEF i, j

\* BeginScan: the item is known; its report starts from the export of its row.
LEMMA RowsBegin ==
  ASSUME NamesInv, PathsInv, RowsInv, NEW r \in Roots, NEW p \in ItemPaths, NEW t, NEW units \in Seq(UnitPaths),
         NEW ood \in BOOLEAN, BeginScan(r, p, t, units, ood)
  PROVE  RowsInv'
<1>. DEFINE row == RowOf(disk, paths', targets', p, t)
            read == ReadPaths(disk.paths, r)
            file == FileOf[r][p]
            M == SavedNames(disk.modules)
<1>1. /\ pc = "idle" /\ disk' = disk /\ meant' = meant /\ got' = got
      /\ pc' = IF ood THEN "ood" ELSE "write"
      /\ item' = [root |-> r, path |-> p, target |-> t, units |-> units]
      /\ rep' = [exp |-> row[5], fdeps |-> row[3], ideps |-> row[4], imps |-> row[6]]
      /\ said' = [NothingSaid EXCEPT !.exp = MeantExport(file, t)]
      /\ Addable(read, p)
  BY DEF BeginScan
<1>. HIDE DEF row, read
<1>2. /\ NamesInv' /\ NamesIn(modules') = IF ood THEN M ELSE NamesIn(modules)
      /\ NameId(targets', t) \in 1 .. targets'.next - 1 /\ targets'.reverse[NameId(targets', t)] = t
  BY NamesBegin
<1>3. /\ PathsInv' /\ PathsOpen(paths', disk.paths) /\ PathId(paths', p) \in 1 .. Len(paths'.refs)
      /\ PathAt(paths', PathId(paths', p)) = Normalize(paths'.cwd, p)
  BY PathsBegin
<1>4. NamesOpen(targets', disk.targets) /\ pc' # "idle"
  BY <1>1, <1>2 DEF NamesInv
<1>5. PathsSaved(disk.paths) /\ NamesSaved(disk.targets)
  BY DEF PathsInv, NamesInv
<1>6. paths'.cwd = Normalize(<<Root>>, r)
  <2>1. item'.root = r
    BY <1>1
  <2>. QED
    BY <1>3, <1>4, <2>1 DEF PathsInv
<1>7. Addable(paths', p)
  <2>1. read.cwd = Normalize(<<Root>>, r)
    BY <1>5, RootsKnown, PathsRead DEF read
  <2>. QED
    BY <1>1, <1>6, <2>1, AddableToo
<1>8. KeyIs(<<PathId(paths', p), NameId(targets', t)>>, file, t, PathsIn(paths'), NamesIn(targets'))
  BY <1>2, <1>3, <1>4, <1>5, <1>6, <1>7, KeyOfItem
<1>9. RowsKnown(disk) /\ RowsMeant(disk, meant) /\ ~got
  BY <1>1 DEF RowsInv
<1>10. row[5] \in DOMAIN M \cup {0} /\ MeantExport(file, t) = At(M, row[5])
  BY <1>3, <1>4, <1>5, <1>8, <1>9, RowLookedUp DEF row
<1>11. ItemKnown(paths', targets', item')
  <2>1. item'.root = r /\ item'.path = p /\ item'.target = t
    BY <1>1
  <2>. QED
    BY <1>7, <1>8, <2>1 DEF ItemKnown
<1>12. ASSUME ood
       PROVE  /\ IsReport(rep')
              /\ Heard(Report(rep'.exp, <<>>, <<>>, <<>>), said', PathsIn(paths'), NamesIn(targets'), NamesIn(modules'))
  <2>. DEFINE F == PathsIn(paths')
              T == NamesIn(targets')
              e == row[5]
              q == Report(e, <<>>, <<>>, <<>>)
  <2>. HIDE DEF F, T
  <2>1. rep' = Report(row[5], row[3], row[4], row[6])
    BY <1>1 DEF Report
  <2>2. rep'.exp = row[5] /\ rep'.fdeps = row[3] /\ rep'.ideps = row[4] /\ rep'.imps = row[6]
    BY <1>1
  <2>3. NamesIn(modules') = M
    BY <1>2, <1>12
  <2>4. said' = SetExp(Report(NoName, <<>>, <<>>, <<>>), MeantExport(file, t))
    BY <1>1 DEF SetExp, Report, NothingSaid
  <2>5. said' = Report(At(M, e), <<>>, <<>>, <<>>)
    BY <1>10, <2>4, ReportFields
  <2>. HIDE DEF e, M
  <2>6. /\ Spoken(e, <<>>, <<>>, <<>>, F, T, M) = Report(At(M, e), <<>>, <<>>, <<>>)
        /\ IdsKnown(e, <<>>, <<>>, <<>>, F, T, M)
    BY <1>10, NothingSpoken DEF e
  <2>7. q.exp = e /\ q.fdeps = <<>> /\ q.ideps = <<>> /\ q.imps = <<>>
    BY ReportFields
  <2>8. Heard(q, said', F, T, M)
    BY <2>5, <2>6, <2>7 DEF Heard
  <2>. QED
    BY <2>1, <2>2, <2>3, <2>8 DEF e, F, T, IsReport
<1>13. /\ RowsKnown(disk') /\ RowsMeant(disk', meant') /\ ~got'
       /\ pc' = "ood" => ood
  BY <1>1, <1>9
<1>. QED
  BY <1>11, <1>12, <1>13 DEF RowsInv

\* A report means the same with larger tables.
LEMMA HeardInMore ==
  ASSUME NEW r, NEW s, NEW F, NEW T, NEW M, Heard(r, s, F, T, M), NEW F2, NEW T2, NEW M2,
         Larger(F2, F), Larger(T2, T), Larger(M2, M), 0 \notin DOMAIN M2
  PROVE  Heard(r, s, F2, T2, M2)
<1>. DEFINE e == r.exp
            f == r.fdeps
            d == r.ideps
            m == r.imps
<1>1. IdsKnown(e, f, d, m, F, T, M) /\ s = Spoken(e, f, d, m, F, T, M)
  BY DEF Heard
<1>. HIDE DEF e, f, d, m
<1>2. IdsKnown(e, f, d, m, F2, T2, M2) /\ s = Spoken(e, f, d, m, F2, T2, M2)
  BY <1>1, SameSpoken
<1>. QED
  BY <1>2 DEF Heard, e, f, d, m

\* Each line adds to the row what it adds to what was said.
LEMMA HeardLine ==
  ASSUME NEW r, IsReport(r), NEW s, NEW F, NEW T, NEW M, Heard(r, s, F, T, M)
  PROVE  /\ \A x \in DOMAIN M : /\ IsReport(SetExp(r, x)) /\ Heard(SetExp(r, x), SetExp(s, M[x]), F, T, M)
                                /\ IsReport(AddImp(r, x)) /\ Heard(AddImp(r, x), AddImp(s, M[x]), F, T, M)
         /\ \A x \in DOMAIN F : IsReport(AddFdep(r, x)) /\ Heard(AddFdep(r, x), AddFdep(s, F[x]), F, T, M)
         /\ \A x \in DOMAIN F, t \in DOMAIN T :
              /\ IsReport(AddIdep(r, <<x, t>>))
              /\ Heard(AddIdep(r, <<x, t>>), AddIdep(s, <<F[x], T[t]>>), F, T, M)
<1>. DEFINE e == r.exp
            f == r.fdeps
            d == r.ideps
            m == r.imps
<1>1. r = Report(e, f, d, m) /\ IdsKnown(e, f, d, m, F, T, M) /\ s = Spoken(e, f, d, m, F, T, M)
  BY DEF Heard, IsReport
<1>. HIDE DEF e, f, d, m
<1>2. ASSUME NEW x
      PROVE  /\ SetExp(r, x) = Report(x, f, d, m) /\ AddFdep(r, x) = Report(e, Append(f, x), d, m)
             /\ AddIdep(r, x) = Report(e, f, Append(d, x), m) /\ AddImp(r, x) = Report(e, f, d, Append(m, x))
  BY <1>1, ReportFields
<1>3. ASSUME NEW q, NEW e2, NEW f2, NEW d2, NEW m2, q = Report(e2, f2, d2, m2)
      PROVE  /\ IsReport(q) /\ q.exp = e2 /\ q.fdeps = f2 /\ q.ideps = d2 /\ q.imps = m2
  <2>1. q.exp = e2 /\ q.fdeps = f2 /\ q.ideps = d2 /\ q.imps = m2
    BY <1>3, ReportFields
  <2>. QED
    BY <1>3, <2>1 DEF IsReport
<1>4. ASSUME NEW x \in DOMAIN M
      PROVE  IsReport(SetExp(r, x)) /\ Heard(SetExp(r, x), SetExp(s, M[x]), F, T, M)
  <2>. DEFINE q == SetExp(r, x)
  <2>1. q = Report(x, f, d, m)
    BY <1>2
  <2>2. IdsKnown(x, f, d, m, F, T, M) /\ SetExp(s, M[x]) = Spoken(x, f, d, m, F, T, M)
    BY <1>1, ExpKnown
  <2>. HIDE DEF q
  <2>3. IsReport(q) /\ q.exp = x /\ q.fdeps = f /\ q.ideps = d /\ q.imps = m
    BY <1>3, <2>1
  <2>. QED
    BY <2>2, <2>3 DEF Heard, q
<1>5. ASSUME NEW x \in DOMAIN M
      PROVE  IsReport(AddImp(r, x)) /\ Heard(AddImp(r, x), AddImp(s, M[x]), F, T, M)
  <2>. DEFINE q == AddImp(r, x)
              a == Append(m, x)
  <2>1. q = Report(e, f, d, a)
    BY <1>2
  <2>2. IdsKnown(e, f, d, a, F, T, M) /\ AddImp(s, M[x]) = Spoken(e, f, d, a, F, T, M)
    BY <1>1, ImpKnown
  <2>. HIDE DEF q, a
  <2>3. IsReport(q) /\ q.exp = e /\ q.fdeps = f /\ q.ideps = d /\ q.imps = a
    BY <1>3, <2>1
  <2>. QED
    BY <2>2, <2>3 DEF Heard, q
<1>6. ASSUME NEW x \in DOMAIN F
      PROVE  IsReport(AddFdep(r, x)) /\ Heard(AddFdep(r, x), AddFdep(s, F[x]), F, T, M)
  <2>. DEFINE q == AddFdep(r, x)
              a == Append(f, x)
  <2>1. q = Report(e, a, d, m)
    BY <1>2
  <2>2. IdsKnown(e, a, d, m, F, T, M) /\ AddFdep(s, F[x]) = Spoken(e, a, d, m, F, T, M)
    BY <1>1, FdepKnown
  <2>. HIDE DEF q, a
  <2>3. IsReport(q) /\ q.exp = e /\ q.fdeps = a /\ q.ideps = d /\ q.imps = m
    BY <1>3, <2>1
  <2>. QED
    BY <2>2, <2>3 DEF Heard, q
<1>7. ASSUME NEW x \in DOMAIN F, NEW t \in DOMAIN T
      PROVE  IsReport(AddIdep(r, <<x, t>>)) /\ Heard(AddIdep(r, <<x, t>>), AddIdep(s, <<F[x], T[t]>>), F, T, M)
  <2>. DEFINE q == AddIdep(r, <<x, t>>)
              a == Append(d, <<x, t>>)
  <2>1. q = Report(e, f, a, m)
    BY <1>2
  <2>2. IdsKnown(e, f, a, m, F, T, M) /\ AddIdep(s, <<F[x], T[t]>>) = Spoken(e, f, a, m, F, T, M)
    BY <1>1, IdepKnown
  <2>. HIDE DEF q, a
  <2>3. IsReport(q) /\ q.exp = e /\ q.fdeps = f /\ q.ideps = a /\ q.imps = m
    BY <1>3, <2>1
  <2>. QED
    BY <2>2, <2>3 DEF Heard, q
<1>. QED
  BY <1>4, <1>5, <1>6, <1>7

-----------------------------------------------------------------------------
(* The lines of the tool *)

\* HeaderLine: what the report has is what was said since.
LEMMA RowsHeader == ASSUME NamesInv, PathsInv, RowsInv, HeaderLine PROVE RowsInv'
<1>. DEFINE F == PathsIn(paths)
            T == NamesIn(targets)
            M == NamesIn(modules)
            q == Report(rep.exp, <<>>, <<>>, <<>>)
<1>1. /\ pc = "ood" /\ ~got /\ got' = TRUE
      /\ rep' = [rep EXCEPT !.fdeps = <<>>, !.ideps = <<>>, !.imps = <<>>]
      /\ UNCHANGED <<disk, pc, paths, targets, modules, item, said, meant>>
  BY DEF HeaderLine, stores
<1>2. IsReport(rep) /\ Heard(q, said, F, T, M) /\ ItemKnown(paths, targets, item)
      /\ RowsKnown(disk) /\ RowsMeant(disk, meant)
  BY <1>1 DEF RowsInv
<1>3. rep' = q
  <2>. DEFINE e == rep.exp
              f == rep.fdeps
              d == rep.ideps
              m == rep.imps
  <2>1. rep = [exp |-> e, fdeps |-> f, ideps |-> d, imps |-> m]
    BY <1>2 DEF IsReport, Report
  <2>. HIDE DEF e, f, d, m
  <2>. DEFINE u == [rep EXCEPT !.fdeps = <<>>]
              v == [u EXCEPT !.ideps = <<>>]
              w == [v EXCEPT !.imps = <<>>]
  <2>2. u = [exp |-> e, fdeps |-> <<>>, ideps |-> d, imps |-> m]
    BY <2>1
  <2>3. rep' = w
    BY <1>1
  <2>. HIDE DEF u
  <2>4. v = [exp |-> e, fdeps |-> <<>>, ideps |-> <<>>, imps |-> m]
    BY <2>2
  <2>. HIDE DEF v
  <2>5. w = [exp |-> e, fdeps |-> <<>>, ideps |-> <<>>, imps |-> <<>>]
    BY <2>4
  <2>. QED
    BY <2>3, <2>5 DEF Report, e
<1>4. IsReport(q)
  <2>1. q.exp = rep.exp /\ q.fdeps = <<>> /\ q.ideps = <<>> /\ q.imps = <<>>
    BY ReportFields
  <2>. QED
    BY <2>1 DEF IsReport
<1>. HIDE DEF q
<1>5. IsReport(rep') /\ Heard(rep', said', F', T', M')
  BY <1>1, <1>2, <1>3, <1>4
<1>. QED
  BY <1>1, <1>2, <1>5 DEF RowsInv

\* ExpLine and ImpLine: the module gets an id, and the report that id.
LEMMA RowsName ==
  ASSUME NamesInv, PathsInv, RowsInv, NEW n, ExpLine(n) \/ ImpLine(n)
  PROVE  RowsInv'
<1>. DEFINE F == PathsIn(paths)
            T == NamesIn(targets)
            M == NamesIn(modules)
            N == NamesIn(modules')
            x == NameId(modules', n)
<1>1. /\ pc = "ood" /\ got /\ UNCHANGED <<disk, pc, paths, targets, item, got, meant>>
      /\ \/ rep' = SetExp(rep, x) /\ said' = SetExp(said, n)
         \/ rep' = AddImp(rep, x) /\ said' = AddImp(said, n)
  BY DEF ExpLine, ImpLine, Reporting, SetExp, AddImp
<1>2. IsReport(rep) /\ Heard(rep, said, F, T, M) /\ ItemKnown(paths, targets, item)
      /\ RowsKnown(disk) /\ RowsMeant(disk, meant)
  BY <1>1 DEF RowsInv
<1>3. NamesInv' /\ StartsWith(N, M) /\ x \in 1 .. modules'.next - 1 /\ modules'.reverse[x] = n
  BY NamesLine
<1>4. NamesOpen(modules, disk.modules) /\ NamesOpen(modules', disk.modules) /\ NamesSaved(disk.modules)
  BY <1>1, <1>3 DEF NamesInv
<1>5. /\ DOMAIN N = 1 .. modules'.next - 1 /\ N[x] = n /\ 0 \notin DOMAIN N
      /\ DOMAIN M = 1 .. modules.next - 1
  <2>. DEFINE nx == modules'.next
  <2>1. DOMAIN N = 1 .. nx - 1 /\ \A i \in 1 .. nx - 1 : N[i] = modules'.reverse[i]
    BY <1>4, NameTables
  <2>2. DOMAIN M = 1 .. modules.next - 1
    BY <1>4, NameTables
  <2>. HIDE DEF N, x
  <2>3. N[x] = n
    BY <1>3, <2>1
  <2>4. nx \in Nat
    BY <1>4 DEF NamesOpen
  <2>. HIDE DEF nx
  <2>5. 0 \notin 1 .. nx - 1
    BY <2>4
  <2>6. 0 \notin DOMAIN N
    BY <2>1, <2>5
  <2>. QED
    BY <2>1, <2>2, <2>3, <2>6 DEF nx
<1>6. Larger(N, M)
  <2>1. Len(M) = modules.next - 1 /\ Len(N) = modules'.next - 1 /\ modules.next \in Nat /\ modules'.next \in Nat
    <3>1. modules.next \in Nat /\ modules'.next \in Nat
      BY <1>4 DEF NamesOpen
    <3>. QED
      BY <1>4, <3>1, NamesAreTable
  <2>. HIDE DEF M, N
  <2>2. Len(M) <= Len(N) /\ \A i \in 1 .. Len(M) : N[i] = M[i]
    BY <1>3 DEF StartsWith
  <2>. QED
    BY <1>5, <2>1, <2>2 DEF Larger
<1>. HIDE DEF F, T, M, N, x
<1>7. Heard(rep, said, F, T, N)
  <2>1. Larger(F, F) /\ Larger(T, T)
    BY DEF Larger
  <2>. QED
    BY <1>2, <1>5, <1>6, <2>1, HeardInMore
<1>8. IsReport(rep') /\ Heard(rep', said', F, T, N)
  <2>1. x \in DOMAIN N
    BY <1>3, <1>5
  <2>2. /\ IsReport(SetExp(rep, x)) /\ Heard(SetExp(rep, x), SetExp(said, N[x]), F, T, N)
        /\ IsReport(AddImp(rep, x)) /\ Heard(AddImp(rep, x), AddImp(said, N[x]), F, T, N)
    BY <1>2, <1>7, <2>1, HeardLine
  <2>. QED
    BY <1>1, <1>5, <2>2
<1>9. Heard(rep', said', PathsIn(paths'), NamesIn(targets'), NamesIn(modules'))
  BY <1>1, <1>8 DEF F, T, N
<1>10. ItemKnown(paths', targets', item') /\ RowsKnown(disk') /\ RowsMeant(disk', meant') /\ got' /\ pc' = "ood"
  BY <1>1, <1>2
<1>. QED
  BY <1>8, <1>9, <1>10 DEF RowsInv

\* The item keeps its ids while paths are added.
LEMMA ItemStays ==
  ASSUME NEW db, PathsSaved(db), NEW s, PathsOpen(s, db), NEW s2, PathsOpen(s2, db), Grown(s2, s),
         NEW ts, NEW it, it.root \in Roots, it.path \in ItemPaths, s.cwd = Normalize(<<Root>>, it.root),
         ItemKnown(s, ts, it)
  PROVE  ItemKnown(s2, ts, it) /\ PathId(s2, it.path) = PathId(s, it.path)
<1>. DEFINE i == PathId(s, it.path)
            j == NameId(ts, it.target)
            T == NamesIn(ts)
            file == FileOf[it.root][it.path]
            p == it.path
<1>1. Addable(s, p) /\ KeyIs(<<i, j>>, file, it.target, PathsIn(s), T)
  BY DEF ItemKnown
<1>2. s2.cwd = s.cwd /\ Len(s.refs) <= Len(s2.refs) /\ \A k \in 1 .. Len(s.refs) : PathAt(s2, k) = PathAt(s, k)
  BY DEF Grown
<1>3. /\ DOMAIN PathsIn(s) = 1 .. Len(s.refs) /\ \A k \in 1 .. Len(s.refs) : PathsIn(s)[k] = PathAt(s, k)
  BY PathTables
<1>4. /\ DOMAIN PathsIn(s2) = 1 .. Len(s2.refs) /\ \A k \in 1 .. Len(s2.refs) : PathsIn(s2)[k] = PathAt(s2, k)
  BY PathTables
<1>5. file = Normalize(s.cwd, p)
  BY <1>1, FileIs
<1>6. p \in Seq(Component)
  BY PathsKnown
<1>7. Len(s.refs) \in Nat /\ Len(s2.refs) \in Nat
  BY DEF PathsOpen, PathsHeld
<1>. HIDE DEF i, j, T, file
<1>8. <<i, j>>[1] = i /\ <<i, j>>[2] = j
  OBVIOUS
<1>9. i \in DOMAIN PathsIn(s) /\ PathsIn(s)[i] = file /\ j \in DOMAIN T /\ T[j] = it.target
  BY <1>1, <1>8 DEF KeyIs
<1>10. i \in 1 .. Len(s.refs) /\ PathAt(s, i) = file
  BY <1>3, <1>9
<1>11. i \in 1 .. Len(s2.refs) /\ PathAt(s2, i) = file
  BY <1>2, <1>7, <1>10
<1>12. PathAt(s2, i) = Normalize(s2.cwd, p)
  BY <1>2, <1>5, <1>11
<1>. HIDE DEF p
<1>13. PathId(s2, p) = i
  BY <1>6, <1>11, <1>12, PathFound
<1>14. i \in DOMAIN PathsIn(s2) /\ PathsIn(s2)[i] = file
  BY <1>4, <1>11
<1>15. KeyIs(<<i, j>>, file, it.target, PathsIn(s2), T)
  BY <1>8, <1>9, <1>14 DEF KeyIs
<1>16. Addable(s2, p)
  BY <1>1, <1>2, AddableToo
<1>17. ItemKnown(s2, ts, it)
  BY <1>13, <1>15, <1>16 DEF ItemKnown, p, j, T, file
<1>. QED
  BY <1>13, <1>17 DEF i, p

\* PathLine: the file gets an id, and the report that id, with the target or without.
LEMMA RowsPath ==
  ASSUME NamesInv, PathsInv, RowsInv, NEW p \in Paths, PathLine(p)
  PROVE  RowsInv'
<1>. DEFINE F == PathsIn(paths)
            F2 == PathsIn(paths')
            T == NamesIn(targets)
            M == NamesIn(modules)
            x == PathId(paths', p)
            t == NameId(targets, item.target)
            file == FileOf[item.root][p]
<1>1. /\ pc = "ood" /\ got /\ UNCHANGED <<disk, pc, targets, modules, item, got, meant>>
      /\ Addable(paths, p)
      /\ \/ rep' = rep /\ said' = said
         \/ rep' = AddIdep(rep, <<x, t>>) /\ said' = AddIdep(said, <<file, item.target>>)
         \/ rep' = AddFdep(rep, x) /\ said' = AddFdep(said, file)
  BY DEF PathLine, Reporting, AddIdep, AddFdep
<1>2. IsReport(rep) /\ Heard(rep, said, F, T, M) /\ ItemKnown(paths, targets, item)
      /\ RowsKnown(disk) /\ RowsMeant(disk, meant)
  BY <1>1 DEF RowsInv
<1>3. /\ PathsOpen(paths, disk.paths) /\ PathsOpen(paths', disk.paths) /\ Grown(paths', paths)
      /\ x \in 1 .. Len(paths'.refs) /\ PathAt(paths', x) = Normalize(paths.cwd, p)
  BY PathsLine
<1>4. /\ PathsSaved(disk.paths) /\ item.root \in Roots /\ item.path \in ItemPaths
      /\ paths.cwd = Normalize(<<Root>>, item.root)
  BY <1>1 DEF PathsInv
<1>5. ItemKnown(paths', targets, item)
  BY <1>2, <1>3, <1>4, ItemStays
<1>6. file = Normalize(paths.cwd, p)
  BY <1>1, <1>4, FileIs
<1>. HIDE DEF x, file
<1>7. x \in DOMAIN F2 /\ F2[x] = file
  <2>1. DOMAIN F2 = 1 .. Len(paths'.refs) /\ \A k \in 1 .. Len(paths'.refs) : F2[k] = PathAt(paths', k)
    BY <1>3, <1>4, PathTables
  <2>. HIDE DEF F2
  <2>. QED
    BY <1>3, <1>6, <2>1
<1>8. t \in DOMAIN T /\ T[t] = item.target
  <2>. DEFINE i == PathId(paths, item.path)
              f == FileOf[item.root][item.path]
              g == item.target
  <2>1. KeyIs(<<i, t>>, f, g, F, T)
    BY <1>2 DEF ItemKnown
  <2>. HIDE DEF i, t, f, F, T, g
  <2>2. <<i, t>>[2] = t
    OBVIOUS
  <2>3. t \in DOMAIN T /\ T[t] = g
    BY <2>1, <2>2 DEF KeyIs
  <2>. QED
    BY <2>3 DEF g
<1>9. Larger(F2, F)
  <2>1. DOMAIN F = 1 .. Len(paths.refs) /\ \A k \in 1 .. Len(paths.refs) : F[k] = PathAt(paths, k)
    BY <1>3, <1>4, PathTables
  <2>2. DOMAIN F2 = 1 .. Len(paths'.refs) /\ \A k \in 1 .. Len(paths'.refs) : F2[k] = PathAt(paths', k)
    BY <1>3, <1>4, PathTables
  <2>. HIDE DEF F, F2
  <2>3. Len(paths.refs) <= Len(paths'.refs) /\ \A k \in 1 .. Len(paths.refs) : PathAt(paths', k) = PathAt(paths, k)
    BY <1>3 DEF Grown
  <2>4. Len(paths.refs) \in Nat /\ Len(paths'.refs) \in Nat
    BY <1>3 DEF PathsOpen, PathsHeld
  <2>5. \A k \in 1 .. Len(paths.refs) : k \in 1 .. Len(paths'.refs)
    BY <2>3, <2>4
  <2>. QED
    BY <2>1, <2>2, <2>3, <2>5 DEF Larger
<1>. HIDE DEF F, F2, T, M, t
<1>10. 0 \notin DOMAIN M
  <2>1. NamesOpen(modules, disk.modules)
    BY <1>1 DEF NamesInv
  <2>2. NamesSaved(disk.modules)
    BY DEF NamesInv
  <2>3. Table(M)
    BY <2>1, <2>2, NameTables DEF M
  <2>. QED
    BY <2>3 DEF Table
<1>11. Heard(rep, said, F2, T, M)
  <2>1. Larger(M, M) /\ Larger(T, T)
    BY DEF Larger
  <2>. QED
    BY <1>2, <1>9, <1>10, <2>1, HeardInMore
<1>12. IsReport(rep') /\ Heard(rep', said', F2, T, M)
  <2>1. /\ IsReport(AddFdep(rep, x)) /\ Heard(AddFdep(rep, x), AddFdep(said, F2[x]), F2, T, M)
        /\ IsReport(AddIdep(rep, <<x, t>>))
        /\ Heard(AddIdep(rep, <<x, t>>), AddIdep(said, <<F2[x], T[t]>>), F2, T, M)
    BY <1>2, <1>7, <1>8, <1>11, HeardLine
  <2>. QED
    BY <1>1, <1>2, <1>7, <1>8, <1>11, <2>1
<1>13. Heard(rep', said', PathsIn(paths'), NamesIn(targets'), NamesIn(modules'))
  BY <1>1, <1>12 DEF F2, T, M
<1>14. ItemKnown(paths', targets', item') /\ RowsKnown(disk') /\ RowsMeant(disk', meant') /\ got' /\ pc' = "ood"
  BY <1>1, <1>2, <1>5
<1>. QED
  BY <1>12, <1>13, <1>14 DEF RowsInv

-----------------------------------------------------------------------------
(* The end of a scan, and clean *)

\* A row says the same in a database whose tables have grown.
LEMMA RowStays ==
  ASSUME NEW db, RowsKnown(db), NEW db2,
         Larger(SavedPaths(db2.paths), SavedPaths(db.paths)),
         Larger(SavedNames(db2.targets), SavedNames(db.targets)),
         Larger(SavedNames(db2.modules), SavedNames(db.modules)),
         NEW key \in DOMAIN db.items, db2.items[key] = db.items[key]
  PROVE  /\ ReadRow(db2, key) = ReadRow(db, key)
         /\ KeyKnown(key, SavedPaths(db2.paths), SavedNames(db2.targets))
         /\ RowKnown(FromVal(ItemEntry, db2.items[key]), SavedPaths(db2.paths), SavedNames(db2.targets),
                     SavedNames(db2.modules))
<1>. DEFINE F == SavedPaths(db.paths)
            T == SavedNames(db.targets)
            M == SavedNames(db.modules)
            F2 == SavedPaths(db2.paths)
            T2 == SavedNames(db2.targets)
            M2 == SavedNames(db2.modules)
            row == FromVal(ItemEntry, db.items[key])
<1>1. KeyKnown(key, F, T) /\ RowKnown(row, F, T, M)
  BY DEF RowsKnown
<1>2. 0 \notin DOMAIN M2
  BY Unnamed
<1>3. Larger(F2, F) /\ Larger(T2, T) /\ Larger(M2, M)
  OBVIOUS
<1>4. ReadRow(db2, key) = Reading(key, row, F2, T2, M2) /\ ReadRow(db, key) = Reading(key, row, F, T, M)
  BY DEF ReadRow
<1>5. FromVal(ItemEntry, db2.items[key]) = row
  OBVIOUS
<1>. HIDE DEF F, T, M, F2, T2, M2, row
<1>6. Reading(key, row, F2, T2, M2) = Reading(key, row, F, T, M) /\ KeyKnown(key, F2, T2) /\ RowKnown(row, F2, T2, M2)
  BY <1>1, <1>2, <1>3, SameReading
<1>. QED
  BY <1>4, <1>5, <1>6 DEF F2, T2, M2

\* What update_items puts is read back as it was reported.
LEMMA RowWritten ==
  ASSUME NEW F, NEW T, NEW M, Table(F), Table(T), Table(M), NEW r, NEW s, Heard(r, s, F, T, M),
         NEW key, NEW file, NEW t, KeyIs(key, file, t, F, T), NEW h \in Nat, NEW n \in Nat
  PROVE  LET row == FromVal(ItemEntry, Reserved(ItemEntry, <<h, n, r.fdeps, r.ideps, r.exp, r.imps>>))
         IN /\ KeyKnown(key, F, T) /\ RowKnown(row, F, T, M)
            /\ Reading(key, row, F, T, M) = [file |-> file, target |-> t, time |-> n, said |-> s]
<1>. DEFINE e == r.exp
            f == r.fdeps
            d == r.ideps
            m == r.imps
            row == FromVal(ItemEntry, Reserved(ItemEntry, <<h, n, f, d, e, m>>))
<1>1. IdsKnown(e, f, d, m, F, T, M) /\ s = Spoken(e, f, d, m, F, T, M)
  BY DEF Heard
<1>. HIDE DEF e, f, d, m
<1>2. DOMAIN F \subseteq Nat /\ DOMAIN T \subseteq Nat /\ DOMAIN M \subseteq Nat
  BY DEF Table
<1>3. (DOMAIN F) \X (DOMAIN T) \subseteq Nat \X Nat
  BY <1>2
<1>4. e \in Nat
  BY <1>1, <1>2 DEF IdsKnown
<1>5. f \in Seq(Nat) /\ m \in Seq(Nat) /\ d \in Seq(Nat \X Nat)
  <2>1. f \in Seq(DOMAIN F) /\ m \in Seq(DOMAIN M) /\ d \in Seq((DOMAIN F) \X (DOMAIN T))
    BY <1>1 DEF IdsKnown
  <2>2. f \in Seq(Nat) /\ m \in Seq(Nat)
    BY <1>2, <2>1, LargerSeq
  <2>. DEFINE P == (DOMAIN F) \X (DOMAIN T)
              Q == Nat \X Nat
  <2>3. P \subseteq Q /\ d \in Seq(P)
    BY <1>3, <2>1
  <2>. HIDE DEF P, Q
  <2>4. d \in Seq(Q)
    BY <2>3, LargerSeq
  <2>. QED
    BY <2>2, <2>4 DEF Q
<1>6. row = <<h, n, f, d, e, m>>
  BY <1>4, <1>5, RowRoundTrip
<1>. HIDE DEF row
<1>7. row[2] = n /\ row[3] = f /\ row[4] = d /\ row[5] = e /\ row[6] = m
  BY <1>6
<1>8. RowKnown(row, F, T, M)
  BY <1>1, <1>7 DEF RowKnown
<1>9. key[1] \in DOMAIN F /\ key[2] \in DOMAIN T /\ F[key[1]] = file /\ T[key[2]] = t /\ key = <<key[1], key[2]>>
  BY DEF KeyIs
<1>10. KeyKnown(key, F, T)
  <2>1. <<key[1], key[2]>> \in (DOMAIN F) \X (DOMAIN T)
    BY <1>9
  <2>. QED
    BY <1>9, <2>1 DEF KeyKnown
<1>11. Reading(key, row, F, T, M) = [file |-> file, target |-> t, time |-> n, said |-> s]
  <2>1. At(F, key[1]) = file /\ At(T, key[2]) = t
    BY <1>9 DEF At
  <2>2. Reading(key, row, F, T, M) = [file |-> At(F, key[1]), target |-> At(T, key[2]), time |-> row[2],
                                      said |-> Spoken(row[5], row[3], row[4], row[6], F, T, M)]
    BY DEF Reading
  <2>. QED
    BY <1>1, <1>7, <2>1, <2>2
<1>. QED
  BY <1>8, <1>10, <1>11 DEF row, e, f, d, m

\* CommitTransaction: the row of the item says what was said, the others what they said.
LEMMA RowsCommit ==
  ASSUME NamesInv, PathsInv, Bounded, RowsInv, CommitTransaction
  PROVE  RowsInv'
<1>. DEFINE F == PathsIn(paths)
            T == NamesIn(targets)
            M == IF pc = "ood" THEN NamesIn(modules) ELSE SavedNames(disk.modules)
            file == FileOf[item.root][item.path]
            t == item.target
            key == ItemKey
            val == Reserved(ItemEntry, <<CmdHash, commands, rep.fdeps, rep.ideps, rep.exp, rep.imps>>)
            new == [file |-> file, target |-> t, time |-> commands, said |-> said]
<1>1. /\ pc # "idle" /\ pc' = "idle" /\ ~got'
      /\ disk'.items = IF ~got THEN disk.items ELSE Put(disk.items, key, val)
      /\ meant' = IF ~got THEN meant ELSE {m \in meant : ~IsRowOf(m, file, t)} \cup {new}
  BY DEF CommitTransaction, Updated, Leave
<1>2. /\ RowsKnown(disk) /\ RowsMeant(disk, meant) /\ ItemKnown(paths, targets, item)
      /\ got => pc = "ood" /\ Heard(rep, said, F, T, NamesIn(modules))
  BY <1>1 DEF RowsInv
<1>3. /\ NamesOpen(targets, disk.targets) /\ NamesSaved(disk.targets) /\ NamesSaved(disk.modules)
      /\ pc = "ood" => NamesOpen(modules, disk.modules)
  BY <1>1 DEF NamesInv
<1>4. PathsOpen(paths, disk.paths) /\ PathsSaved(disk.paths)
  BY <1>1 DEF PathsInv
<1>5. SavedPaths(disk'.paths) = F /\ SavedNames(disk'.targets) = T /\ SavedNames(disk'.modules) = M
  BY NamesCommit, PathsCommit
<1>6. Table(F) /\ Larger(F, SavedPaths(disk.paths)) /\ Table(T) /\ Larger(T, SavedNames(disk.targets))
  BY <1>3, <1>4, NameTables, PathTables
<1>7. Table(M) /\ Larger(M, SavedNames(disk.modules))
  <2>1. CASE pc = "ood"
    BY <1>3, <2>1, NameTables
  <2>2. CASE pc # "ood"
    <3>1. Table(SavedNames(disk.modules))
      BY <1>3, NamesRead, NameTables
    <3>2. Larger(SavedNames(disk.modules), SavedNames(disk.modules))
      BY DEF Larger
    <3>. QED
      BY <2>2, <3>1, <3>2
  <2>. QED
    BY <2>1, <2>2
<1>8. got => Heard(rep, said, F, T, M)
  BY <1>2
<1>9. KeyIs(key, file, t, F, T)
  BY <1>2 DEF ItemKnown, ItemKey
<1>. HIDE DEF F, T, M, file, t, key, val, new
<1>10. ASSUME NEW k \in DOMAIN disk.items, disk'.items[k] = disk.items[k]
       PROVE  /\ ReadRow(disk', k) = ReadRow(disk, k)
              /\ KeyKnown(k, F, T) /\ RowKnown(FromVal(ItemEntry, disk'.items[k]), F, T, M)
  <2>. DEFINE d2 == disk'
  <2>1. /\ Larger(SavedPaths(d2.paths), SavedPaths(disk.paths))
        /\ Larger(SavedNames(d2.targets), SavedNames(disk.targets))
        /\ Larger(SavedNames(d2.modules), SavedNames(disk.modules)) /\ d2.items[k] = disk.items[k]
    BY <1>5, <1>6, <1>7, <1>10
  <2>2. SavedPaths(d2.paths) = F /\ SavedNames(d2.targets) = T /\ SavedNames(d2.modules) = M
    BY <1>5
  <2>. HIDE DEF d2
  <2>3. /\ ReadRow(d2, k) = ReadRow(disk, k)
        /\ KeyKnown(k, SavedPaths(d2.paths), SavedNames(d2.targets))
        /\ RowKnown(FromVal(ItemEntry, d2.items[k]), SavedPaths(d2.paths), SavedNames(d2.targets),
                    SavedNames(d2.modules))
    BY <1>2, <2>1, RowStays
  <2>. QED
    BY <2>2, <2>3 DEF d2
<1>11. CASE ~got
  <2>1. disk'.items = disk.items /\ meant' = meant
    BY <1>1, <1>11
  <2>2. \A k \in DOMAIN disk.items : ReadRow(disk', k) = ReadRow(disk, k)
    BY <1>10, <2>1
  <2>3. RowsKnown(disk')
    BY <1>5, <1>10, <2>1 DEF RowsKnown
  <2>4. RowsMeant(disk', meant')
    BY <1>2, <2>1, <2>2 DEF RowsMeant
  <2>. QED
    BY <1>1, <2>3, <2>4 DEF RowsInv
<1>12. CASE got
  <2>. DEFINE K == DOMAIN disk.items
  <2>1. /\ DOMAIN disk'.items = K \cup {key} /\ disk'.items[key] = val
        /\ \A k \in K \ {key} : disk'.items[k] = disk.items[k]
    BY <1>1, <1>12 DEF Put
  <2>2. commands \in Nat /\ CmdHash \in Nat
    BY DEF Bounded, CmdHash
  <2>3. /\ KeyKnown(key, F, T) /\ RowKnown(FromVal(ItemEntry, val), F, T, M)
        /\ Reading(key, FromVal(ItemEntry, val), F, T, M) = new
    BY <1>6, <1>7, <1>8, <1>9, <1>12, <2>2, RowWritten DEF val, new
  <2>4. ReadRow(disk', key) = new
    BY <1>5, <2>1, <2>3 DEF ReadRow
  <2>5. RowsKnown(disk')
    BY <1>5, <1>10, <2>1, <2>3 DEF RowsKnown
  <2>6. \A k \in K \ {key} : ReadRow(disk', k) = ReadRow(disk, k)
    BY <1>10, <2>1
  <2>7. {ReadRow(disk, k) : k \in K \ {key}} = {m \in meant : ~IsRowOf(m, file, t)}
    BY <1>2, <1>6, <1>9, OtherRows
  <2>8. {ReadRow(disk', k) : k \in DOMAIN disk'.items} = {ReadRow(disk, k) : k \in K \ {key}} \cup {new}
    BY <2>1, <2>4, <2>6
  <2>9. RowsMeant(disk', meant')
    BY <1>1, <1>12, <2>7, <2>8 DEF RowsMeant
  <2>. QED
    BY <1>1, <2>5, <2>9 DEF RowsInv
<1>. QED
  BY <1>11, <1>12

\* Clean: the row of the item goes, the others say what they said.
LEMMA RowsClean ==
  ASSUME NamesInv, PathsInv, RowsInv, NEW r \in Roots, NEW p \in ItemPaths, NEW t, Clean(r, p, t)
  PROVE  RowsInv'
<1>. DEFINE read == ReadPaths(disk.paths, r)
            ps   == TryAddPath(read, p)
            ts   == TryAddName(InitStringStore(NewStringStore, disk.targets), t)
            key  == <<PathId(ps, p), NameId(ts, t)>>
            file == FileOf[r][p]
            F    == PathsIn(ps)
            T    == NamesIn(ts)
<1>1. /\ pc = "idle" /\ Addable(read, p) /\ disk' = [disk EXCEPT !.items = Del(@, key)]
      /\ meant' = {m \in meant : ~IsRowOf(m, file, t)}
      /\ pc' = pc /\ got' = got
  BY DEF Clean
<1>2. /\ NamesSaved(disk.targets) /\ PathsSaved(disk.paths)
      /\ disk = [targets |-> disk.targets, modules |-> disk.modules, paths |-> disk.paths, items |-> disk.items]
  BY DEF NamesInv, PathsInv
<1>3. PathsOpen(read, disk.paths) /\ read.cwd = Normalize(<<Root>>, r)
  BY <1>2, RootsKnown, PathsRead
<1>4. /\ PathsOpen(ps, disk.paths) /\ Grown(ps, read) /\ PathId(ps, p) \in 1 .. Len(ps.refs)
      /\ PathAt(ps, PathId(ps, p)) = Normalize(read.cwd, p)
  <2>1. p \in Seq(Component)
    BY PathsKnown
  <2>. HIDE DEF read
  <2>. QED
    BY <1>1, <1>2, <1>3, <2>1, PathTaken
<1>5. /\ NamesOpen(ts, disk.targets) /\ NameId(ts, t) \in 1 .. ts.next - 1 /\ ts.reverse[NameId(ts, t)] = t
  <2>. DEFINE s == InitStringStore(NewStringStore, disk.targets)
  <2>1. NamesOpen(s, disk.targets)
    BY <1>2, NamesRead
  <2>. HIDE DEF s
  <2>. QED
    BY <1>2, <2>1, NameAdded DEF s
<1>. HIDE DEF read, ps, ts
<1>6. ps.cwd = read.cwd
  BY <1>4 DEF Grown
<1>7. Addable(ps, p)
  BY <1>1, <1>6, AddableToo
<1>8. KeyIs(key, file, t, F, T)
  BY <1>2, <1>3, <1>4, <1>5, <1>6, <1>7, KeyOfItem
<1>9. Table(F) /\ Larger(F, SavedPaths(disk.paths)) /\ Table(T) /\ Larger(T, SavedNames(disk.targets))
  BY <1>2, <1>4, <1>5, NameTables, PathTables
<1>10. RowsKnown(disk) /\ RowsMeant(disk, meant) /\ ~got
  BY <1>1 DEF RowsInv
<1>. HIDE DEF key, file, F, T
<1>11. {ReadRow(disk, k) : k \in DOMAIN disk.items \ {key}} = meant'
  BY <1>1, <1>8, <1>9, <1>10, OtherRows
<1>12. /\ disk'.paths = disk.paths /\ disk'.targets = disk.targets /\ disk'.modules = disk.modules
       /\ disk'.items = Del(disk.items, key)
  BY <1>1, <1>2
<1>13. /\ DOMAIN disk'.items = DOMAIN disk.items \ {key}
       /\ \A k \in DOMAIN disk.items \ {key} : disk'.items[k] = disk.items[k]
  BY <1>12 DEF Del
<1>14. \A k \in DOMAIN disk'.items : ReadRow(disk', k) = ReadRow(disk, k)
  BY <1>12, <1>13 DEF ReadRow
<1>15. RowsMeant(disk', meant')
  BY <1>11, <1>13, <1>14 DEF RowsMeant
<1>16. RowsKnown(disk')
  BY <1>10, <1>12, <1>13 DEF RowsKnown
<1>. QED
  BY <1>1, <1>10, <1>15, <1>16 DEF RowsInv

\* Every step leaves the rows and the report as they should be.
LEMMA RowsStep == ASSUME NamesInv, PathsInv, Bounded, RowsInv, [Next]_vars PROVE RowsInv'
<1>1. ASSUME UNCHANGED vars PROVE RowsInv'
  BY <1>1 DEF vars, stores, RowsInv
<1>2. ASSUME Crash PROVE RowsInv'
  BY <1>2 DEF Crash, Leave, RowsInv
<1>3. ASSUME NoMoreCommands PROVE RowsInv'
  BY <1>1, <1>3 DEF NoMoreCommands
<1>4. ASSUME NEW r \in Roots, NEW p \in ItemPaths, NEW t \in Targets,
             NEW units \in {<<>>} \cup {<<q>> : q \in UnitPaths}, NEW ood \in BOOLEAN,
             BeginScan(r, p, t, units, ood)
      PROVE  RowsInv'
  <2>1. units \in Seq(UnitPaths)
    BY OneUnit
  <2>. QED
    BY <1>4, <2>1, RowsBegin
<1>5. ASSUME NEW r \in Roots, NEW p \in ItemPaths, NEW t \in Targets, Clean(r, p, t) PROVE RowsInv'
  BY <1>5, RowsClean
<1>6. ASSUME HeaderLine PROVE RowsInv'
  BY <1>6, RowsHeader
<1>7. ASSUME NEW n \in Names, ExpLine(n) \/ ImpLine(n) PROVE RowsInv'
  BY <1>7, RowsName
<1>8. ASSUME NEW p \in Paths, PathLine(p) PROVE RowsInv'
  BY <1>8, RowsPath
<1>9. ASSUME CommitTransaction PROVE RowsInv'
  BY <1>9, RowsCommit
<1>10. [Next]_vars <=> Next \/ UNCHANGED vars
  OBVIOUS
<1>. HIDE DEF RowsInv
<1>. QED
  BY <1>1, <1>2, <1>3, <1>4, <1>5, <1>6, <1>7, <1>8, <1>9, <1>10 DEF Next

-----------------------------------------------------------------------------

\* What the rows and the report say is what was said, in every state.
THEOREM RowsInvariance == Spec => []RowsInv
BY NamesInit, NamesStep, NamesInvariance, PathsInit, PathsStep, PathsInvariance, BoundedInvariance, RowsInit, RowsStep,
   PTL DEF Spec

\* RowSays in terms of what is above.
LEMMA RowSaysIs == ASSUME NEW key PROVE RowSays(key) = ReadRow(disk, key)
BY DEF RowSays, ReadRow, Reading, Spoken, At

\* RowsMeanWhatWasReported: the rows of the database are one for each file and target
\* reported and not cleaned since, and their ids stand for what was reported last,
\* whatever was added, abandoned or spelled otherwise in between.
THEOREM RowsMeanReports == Spec => []RowsMeanWhatWasReported
<1>1. RowsInv => RowsMeanWhatWasReported
  BY RowSaysIs DEF RowsInv, RowsMeant, RowsMeanWhatWasReported
<1>. QED
  BY <1>1, RowsInvariance, PTL

\* RowsAreFound: the scan looks its item up under the ids that its row has.
THEOREM RowsFound == Spec => []RowsAreFound
<1>1. ASSUME NamesInv, PathsInv, RowsInv PROVE RowsAreFound
  <2>. SUFFICES ASSUME pc # "idle", NEW m \in meant, IsRowOf(m, FileOf[item.root][item.path], item.target)
                PROVE  ItemKey \in DOMAIN disk.items /\ RowSays(ItemKey) = m
    BY DEF RowsAreFound
  <2>. DEFINE file == FileOf[item.root][item.path]
              t == item.target
              key == ItemKey
              F == PathsIn(paths)
              T == NamesIn(targets)
  <2>1. RowsKnown(disk) /\ RowsMeant(disk, meant) /\ ItemKnown(paths, targets, item)
    BY <1>1 DEF RowsInv
  <2>2. Table(F) /\ Larger(F, SavedPaths(disk.paths)) /\ Table(T) /\ Larger(T, SavedNames(disk.targets))
    <3>1. NamesSaved(disk.targets) /\ NamesOpen(targets, disk.targets)
      BY <1>1 DEF NamesInv
    <3>2. PathsSaved(disk.paths) /\ PathsOpen(paths, disk.paths)
      BY <1>1 DEF PathsInv
    <3>. QED
      BY <3>1, <3>2, NameTables, PathTables
  <2>3. KeyIs(key, file, t, F, T)
    BY <2>1 DEF ItemKnown, ItemKey
  <2>. HIDE DEF file, t, key, F, T
  <2>4. \A n \in meant : IsRowOf(n, file, t) => key \in DOMAIN disk.items /\ n = ReadRow(disk, key)
    BY <2>1, <2>2, <2>3, MeantRow
  <2>. QED
    BY <2>4, RowSaysIs DEF file, t, key
<1>. QED
  BY <1>1, NamesInvariance, PathsInvariance, RowsInvariance, PTL

=============================================================================
