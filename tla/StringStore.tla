----------------------------- MODULE StringStore -----------------------------
(***************************************************************************)
(* string_id_store (src/src/scanner/lmdb_string_store.h): ids for the      *)
(* names of targets and modules.  The database holds name i under key i    *)
(* and, under key 0, the largest id.  A store object reads all of it, adds *)
(* names in memory and writes the new ones when the scan ends.             *)
(***************************************************************************)
EXTENDS Lmdb

\* A store that has not read the database yet.
NewStringStore == [init |-> FALSE, reverse |-> EmptyDb, max |-> 0, next |-> 1]

\* Mutant: the first new id is the largest one of the database.
FirstIdMutant(s, db) ==
    IF s.init THEN s
    ELSE [init |-> TRUE, reverse |-> db,
          max  |-> IF Has(db, 0) THEN db[0] ELSE 0,
          next |-> IF Has(db, 0) THEN db[0] ELSE 1]

\* init: reads everything there is, the first time.
InitStringStore(s, db) ==
    IF s.init THEN s
    ELSE [init |-> TRUE, reverse |-> db,
          max  |-> IF Has(db, 0) THEN db[0] ELSE 0,
          next |-> IF Has(db, 0) THEN db[0] + 1 ELSE 1]

\* The ids of a name: map, the inverse of reverse_map.
IdsOfName(s, n) == {i \in DOMAIN s.reverse : i # 0 /\ s.reverse[i] = n}

\* try_add.
TryAddName(s, n) ==
    IF IdsOfName(s, n) # {} THEN s
    ELSE [s EXCEPT !.reverse = Put(@, s.next, n), !.next = @ + 1]

NameId(s, n) == CHOOSE i \in IdsOfName(s, n) : TRUE

\* Every name that is put with flag append comes after all that is stored.
NamesAppendable(s, db) == \A i \in s.max + 1 .. s.next - 1 : Appendable(db, i)

\* commit_changes: nothing if there is no new name.
CommitNames(s, db) ==
    IF s.next = s.max + 1 THEN db
    ELSE [i \in DOMAIN db \cup {0} \cup (s.max + 1 .. s.next - 1) |->
            IF i = 0 THEN s.next - 1 ELSE IF i > s.max THEN s.reverse[i] ELSE db[i]]

\* Name i of the database, and of a store.
SavedNames(db) == [i \in 1 .. (IF Has(db, 0) THEN db[0] ELSE 0) |-> db[i]]
NamesIn(s)     == [i \in 1 .. s.next - 1 |-> s.reverse[i]]

=============================================================================
