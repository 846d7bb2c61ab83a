------------------------------- MODULE Corpus -------------------------------
(***************************************************************************)
(* The documents file the scripts read: rows in a fixed order.  A later    *)
(* release of it may have more rows at the end, and a document may have    *)
(* more than one row.                                                      *)
(***************************************************************************)
EXTENDS Naturals, FiniteSets, Sequences

CONSTANT Document

VARIABLE corpus     \* the documents of its rows, in order

Grow(d) == corpus' = Append(corpus, d)

(* node_identity("Document", dsid) *)
DocumentKey(d) == <<"Document", d>>

Least(a, b) == IF a < b THEN a ELSE b

(* Mutant: a chunk begins with the last row of the one before it. *)
ChunkOverlapping(rows, size, n) ==
    SubSeq(rows, IF n = 0 THEN 1 ELSE n * size, Least((n + 1) * size, Len(rows)))

(* Cut into chunks of one size, the last of which may be shorter: the n-th, from 0. *)
Chunk(rows, size, n) == SubSeq(rows, n * size + 1, Least((n + 1) * size, Len(rows)))

Chunks(rows, size) == (Len(rows) + size - 1) \div size

=============================================================================
