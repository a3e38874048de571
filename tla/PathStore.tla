------------------------------ MODULE PathStore ------------------------------
(***************************************************************************)
(* path_id_store (src/src/scanner/lmdb_path_store.h): ids for files, with  *)
(* their normalized paths in the chunks of a stable_multi_string_buffer    *)
(* (multi_buffer.h), from where they are saved and read back as a whole.   *)
(*                                                                         *)
(* A path is the sequence of its components, the first of an absolute path *)
(* being empty (what precedes the first slash); a component takes one cell *)
(* of a chunk.                                                             *)
(***************************************************************************)
EXTENDS Lmdb, SequencesExt

CONSTANT ChunkSize    \* cells of a chunk (chunk_size)

ASSUME ChunkAssumption == ChunkSize \in Nat \ {0}

Root   == ""
Parent == ".."
IsDir(c) == c \notin {Root, ".", Parent}

Absolute(p) == p # <<>> /\ Head(p) = Root

-----------------------------------------------------------------------------
(* The buffer: chunks, and how much of the last one is not allocated.      *)

Unwritten == "?"
NewChunk == [c \in 1 .. ChunkSize |-> Unwritten]
NoChunks == [chunks |-> <<>>, rem |-> 0]

\* alloc; Addable leaves out paths longer than a chunk.
Alloc(b, size) ==
    IF size <= b.rem THEN [b EXCEPT !.rem = @ - size]
    ELSE [chunks |-> Append(b.chunks, NewChunk), rem |-> ChunkSize - size]

\* free_last_alloc and shrink_last_alloc.
Free(b, size) == [b EXCEPT !.rem = @ + size]

InsertPosition(b) == ChunkSize - b.rem

\* Write s at offset ofs of the last chunk.
Write(b, ofs, s) ==
    IF s = <<>> THEN b
    ELSE [b EXCEPT !.chunks[Len(b.chunks)] =
            [c \in 1 .. ChunkSize |-> IF c \in ofs + 1 .. ofs + Len(s) THEN s[c - ofs] ELSE @[c]]]

\* copy.
Copy(b, s) == LET a == Alloc(b, Len(s)) IN Write(a, InsertPosition(a) - Len(s), s)

\* get_alloc.
AllocAt(b, r) == SubSeq(b.chunks[r.chunk], r.ofs + 1, r.ofs + r.size)

-----------------------------------------------------------------------------
(* Normalization *)

\* The components of p are taken one after the other.
Step(path, c) ==
    CASE c = Parent -> Front(path)
      [] IsDir(c)   -> Append(path, c)
      [] OTHER      -> path

\* normalize: a relative path starts from current_path; an absolute one has an
\* empty first component, which changes nothing.
Start(cwd, p) == IF Absolute(p) THEN <<Root>> ELSE cwd

\* Mutant: Parent is treated like ".".
NoParentMutant(cwd, p) ==
    LET out[k \in 0 .. Len(p)] ==
          IF k = 0 THEN Start(cwd, p)
          ELSE IF p[k] = Parent THEN out[k - 1] ELSE Step(out[k - 1], p[k])
    IN out[Len(p)]

Normalize(cwd, p) ==
    LET out[k \in 0 .. Len(p)] == IF k = 0 THEN Start(cwd, p) ELSE Step(out[k - 1], p[k])
    IN out[Len(p)]

\* The whole path that p stands for, and how many directories below the root one
\* is after the first k components of a path.
Full(cwd, p) == IF Absolute(p) THEN p ELSE cwd \o p
Dirs(path, k)    == {l \in 1 .. k : IsDir(path[l])}
Parents(path, k) == {l \in 1 .. k : path[l] = Parent}
Depth(path, k)   == Cardinality(Dirs(path, k)) - Cardinality(Parents(path, k))

\* Some ".." has no directory to leave.
ClimbsAboveRoot(cwd, p) ==
    \E k \in 1 .. Len(Full(cwd, p)) : Depth(Full(cwd, p), k) < 0

\* What is allocated before it is known how much of it the path needs.
RawSize(cwd, p) == IF Absolute(p) THEN Len(p) ELSE Len(cwd) + Len(p)

-----------------------------------------------------------------------------
(* The store *)

NewPathStore ==
    [buf |-> NoChunks, refs |-> <<>>, max |-> 0, next |-> 1, cwd |-> <<Root>>, cwdId |-> 0]

PathAt(s, i) == AllocAt(s.buf, s.refs[i])

\* normal_path_to_id: the keys are the paths in the buffer.
IdsOfPath(s, path) == {i \in 1 .. Len(s.refs) : PathAt(s, i) = path}

\* What try_add is given here.  It throws for a "~", for an absolute path that climbs
\* above the root and for one of more than 256 components; a relative path that climbs
\* above the root it may store with components missing.  None of these is modelled.
Addable(s, p) ==
    \/ p = <<>>
    \/ /\ ~Contains(p, "~")
       /\ ~ClimbsAboveRoot(s.cwd, p)
       /\ RawSize(s.cwd, p) <= ChunkSize

\* The buffer once p is normalized into it, at the end of what was allocated.
Normalized(s, p) ==
    LET raw == RawSize(s.cwd, p)
        a   == Alloc(s.buf, raw)
        ofs == InsertPosition(a) - raw
        n   == Normalize(s.cwd, p)
    IN [buf |-> Write(Free(a, raw - Len(n)), ofs, n), path |-> n,
        ref |-> [chunk |-> Len(a.chunks), ofs |-> ofs, size |-> Len(n)]]

\* Mutant: what a new path does not need is given back twice.
ShrunkTwiceMutant(s, p) ==
    IF p = <<>> THEN s
    ELSE LET n == Normalized(s, p)
         IN IF IdsOfPath([s EXCEPT !.buf = n.buf], n.path) # {}
            THEN [s EXCEPT !.buf = Free(n.buf, Len(n.path))]
            ELSE [s EXCEPT !.buf = Free(n.buf, RawSize(s.cwd, p) - Len(n.path)),
                           !.refs = Append(@, n.ref), !.next = @ + 1]

\* try_add: the path stays in the buffer only if it is new.
TryAddPath(s, p) ==
    IF p = <<>> THEN s
    ELSE LET n == Normalized(s, p)
         IN IF IdsOfPath([s EXCEPT !.buf = n.buf], n.path) # {}
            THEN [s EXCEPT !.buf = Free(n.buf, Len(n.path))]
            ELSE [s EXCEPT !.buf = n.buf, !.refs = Append(@, n.ref), !.next = @ + 1]

PathId(s, p) ==
    IF p = <<>> THEN s.cwdId ELSE CHOOSE i \in IdsOfPath(s, Normalize(s.cwd, p)) : TRUE

\* update_current_path: normalized once to become current_path, and added.
UpdateCurrentPath(s, root) ==
    LET n == Normalized(s, root)
        t == TryAddPath([s EXCEPT !.buf = Free(n.buf, Len(n.path)), !.cwd = n.path], n.path)
    IN [t EXCEPT !.cwdId = PathId(t, n.path)]

\* Mutant: every chunk is written with the bytes of the last.
LastChunkMutant(s, db) ==
    IF s.next = s.max + 1 THEN db
    ELSE LET n == Len(s.buf.chunks)
         IN [k \in DOMAIN db \cup 0 .. n |->
               IF k = 0 THEN s.refs
               ELSE IF k > n THEN db[k]
               ELSE IF k = n THEN SubSeq(s.buf.chunks[n], 1, InsertPosition(s.buf))
               ELSE s.buf.chunks[n]]

\* commit_changes: the references under key 0, chunk k under key k, the last
\* one as far as it is allocated.
CommitPaths(s, db) ==
    IF s.next = s.max + 1 THEN db
    ELSE LET n == Len(s.buf.chunks)
         IN [k \in DOMAIN db \cup 0 .. n |->
               IF k = 0 THEN s.refs
               ELSE IF k > n THEN db[k]
               ELSE IF k = n THEN SubSeq(s.buf.chunks[k], 1, InsertPosition(s.buf))
               ELSE s.buf.chunks[k]]

\* read_paths: the chunks are copied into a buffer of its own.
ReadPaths(db, root) ==
    LET n    == Cardinality(DOMAIN db \ {0})
        refs == IF Has(db, 0) THEN db[0] ELSE <<>>
        buf[k \in 0 .. n] == IF k = 0 THEN NoChunks ELSE Copy(buf[k - 1], db[k])
    IN UpdateCurrentPath(
          [NewPathStore EXCEPT !.buf = buf[n], !.refs = refs, !.max = Len(refs),
                               !.next = Len(refs) + 1], root)

\* Path i of the database, and of a store.
SavedPaths(db) ==
    [i \in 1 .. (IF Has(db, 0) THEN Len(db[0]) ELSE 0) |->
       LET r == db[0][i] IN SubSeq(db[r.chunk], r.ofs + 1, r.ofs + r.size)]
PathsIn(s) == [i \in 1 .. Len(s.refs) |-> PathAt(s, i)]

=============================================================================
