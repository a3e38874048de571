-------------------------------- MODULE Lmdb --------------------------------
(***************************************************************************)
(* The typed view of an LMDB database that the stores use                  *)
(* (src/src/scanner/lmdb_wrapper.h) and how an aggregate that contains     *)
(* views is laid out in one value (lmdb_wrapper_impl.h).  A database is a  *)
(* function from its keys to values; it is an error to get or delete a key *)
(* that is not there.                                                      *)
(***************************************************************************)
EXTENDS Integers, Sequences

EmptyDb == [k \in {} |-> 0]

Has(db, k) == k \in DOMAIN db

Put(db, k, v) == [l \in DOMAIN db \cup {k} |-> IF l = k THEN v ELSE db[l]]

Del(db, k) == [l \in DOMAIN db \ {k} |-> db[l]]

\* A put with flag append only succeeds beyond the last key.
Appendable(db, k) == \A l \in DOMAIN db : l < k

-----------------------------------------------------------------------------
(* Values.  A field of an aggregate is either a number, which takes one     *)
(* cell, or a view: a sequence of elements of width cells each.            *)

Number     == [view |-> FALSE, width |-> 1]
View(w)    == [view |-> TRUE, width |-> w]
Garbage    == -1    \* what reserved memory holds

\* A view is preceded by its size, in cells, unless it is the last field.
HasSize(fields, k) == fields[k].view /\ k # Len(fields)

ViewSize(fields, agg, k) == IF fields[k].view THEN fields[k].width * Len(agg[k]) ELSE 0

NonViewSize(fields, k) == IF fields[k].view /\ ~HasSize(fields, k) THEN 0 ELSE 1

\* Cells of fields 1 to k.
SizeUpTo(fields, agg) ==
    LET size[k \in 0 .. Len(fields)] ==
          IF k = 0 THEN 0
          ELSE size[k - 1] + NonViewSize(fields, k) + ViewSize(fields, agg, k)
    IN size

\* The elements of a view side by side.
Cells(w, s) == [c \in 1 .. w * Len(s) |->
                  IF w = 1 THEN s[c] ELSE s[((c - 1) \div w) + 1][((c - 1) % w) + 1]]

ToVal(fields, agg) ==
    LET val[k \in 0 .. Len(fields)] ==
          IF k = 0 THEN <<>>
          ELSE val[k - 1] \o
               (IF ~fields[k].view THEN <<agg[k]>>
                ELSE (IF HasSize(fields, k) THEN <<ViewSize(fields, agg, k)>> ELSE <<>>)
                         \o Cells(fields[k].width, agg[k]))
    IN val[Len(fields)]

\* Mutant: the last view is given room for a size as well.
SizeForAllMutant(fields, agg) ==
    LET size == SizeUpTo(fields, agg)[Len(fields)] + (IF fields[Len(fields)].view THEN 1 ELSE 0)
        val  == ToVal(fields, agg)
    IN [c \in 1 .. size |-> IF c <= Len(val) THEN val[c] ELSE Garbage]

\* put of such an aggregate: the room it needs is reserved, then filled.
Reserved(fields, agg) ==
    LET size == SizeUpTo(fields, agg)[Len(fields)]
        val  == ToVal(fields, agg)
    IN [c \in 1 .. size |-> IF c <= Len(val) THEN val[c] ELSE Garbage]

\* from_val: the last view takes what is left of the value.
FromVal(fields, val) ==
    LET pos[k \in 1 .. Len(fields) + 1] ==
          IF k = 1 THEN 1
          ELSE pos[k - 1] + (IF HasSize(fields, k - 1) THEN 1 + val[pos[k - 1]] ELSE 1)
        view(k) == IF HasSize(fields, k) THEN SubSeq(val, pos[k] + 1, pos[k] + val[pos[k]])
                   ELSE SubSeq(val, pos[k], Len(val))
        elem(w, s, e) == IF w = 1 THEN s[e] ELSE SubSeq(s, (e - 1) * w + 1, e * w)
    IN [k \in 1 .. Len(fields) |->
          IF ~fields[k].view THEN val[pos[k]]
          ELSE [e \in 1 .. Len(view(k)) \div fields[k].width |->
                  elem(fields[k].width, view(k), e)]]

=============================================================================
