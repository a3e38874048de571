--------------------------- MODULE ReorderedBuffer ---------------------------
(***************************************************************************)
(* reordered_multi_vector_buffer (src/src/scanner/multi_buffer.h): many    *)
(* vectors appended to one buffer, and handed back as spans of it, each at *)
(* the index it was started for.  A buffer is a record; indices start at   *)
(* 0, positions in the sequences at 1.                                     *)
(***************************************************************************)
EXTENDS Naturals, Sequences

\* vecs[k].ofs elements precede the k-th vector; max is max_idx.
EmptyBuffer == [buf |-> <<>>, vecs |-> <<>>, max |-> 0]

\* Mutant: the offset is that of the buffer's last element.
OffByOneMutant(b, i) ==
    [buf  |-> b.buf,
     vecs |-> Append(b.vecs, [ofs |-> IF b.buf = <<>> THEN 0 ELSE Len(b.buf) - 1,
                              final_idx |-> i]),
     max  |-> IF i > b.max THEN i ELSE b.max]

NewVector(b, i) ==
    [buf  |-> b.buf,
     vecs |-> Append(b.vecs, [ofs |-> Len(b.buf), final_idx |-> i]),
     max  |-> IF i > b.max THEN i ELSE b.max]

\* add; needs a vector to add to.
AddElem(b, x) == [buf |-> Append(b.buf, x), vecs |-> b.vecs, max |-> b.max]

VectorEnd(b, k) == IF k < Len(b.vecs) THEN b.vecs[k + 1].ofs ELSE Len(b.buf)

\* The span of the k-th vector.
VectorAt(b, k) == SubSeq(b.buf, b.vecs[k].ofs + 1, VectorEnd(b, k))

\* to_vectors(to): visit() assigns the spans in order.  When nothing was added
\* it visits the indices 0 to max_idx instead, each with an empty span.
ToVectors(b, to) ==
    [i \in DOMAIN to |->
        IF b.buf = <<>> THEN IF i <= b.max THEN <<>> ELSE to[i]
        ELSE LET K == {k \in 1 .. Len(b.vecs) : b.vecs[k].final_idx = i} IN
             IF K = {} THEN to[i] ELSE VectorAt(b, CHOOSE k \in K : \A l \in K : l <= k)]

=============================================================================
