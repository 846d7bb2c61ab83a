----------------------------- MODULE PagedRead -----------------------------
(***************************************************************************)
(* Reads that take rows a page at a time, ordered by a key: _read_all of   *)
(* reconcile.py and the walk of contested() in controller.py.  Every page  *)
(* is a statement of its own and may see another snapshot of the rows; the *)
(* engine promises nothing of the order of rows with one key.              *)
(***************************************************************************)
EXTENDS Naturals, FiniteSets

(***************************************************************************)
(* ORDER BY key SKIP skip LIMIT size: the sets of rows a page may be.      *)
(* key gives every row its number; rows with one hold adjacent places, in  *)
(* any order.                                                              *)
(***************************************************************************)
Slice(rows, key, skip, size) ==
    LET Below(r) == Cardinality({x \in rows : key[x] < key[r]})
        Tied(s, r) == {x \in s : key[x] = key[r]}
    IN  {p \in SUBSET rows : \A r \in rows :
            Cardinality(Tied(p, r)) =
                Cardinality((Below(r) .. Below(r) + Cardinality(Tied(rows, r)) - 1)
                            \cap (skip .. skip + size - 1))}

(* A page goes on where the one before it stopped: no row went, and no tie is split. *)
GoesOn(before, rows, key, page) ==
    /\ before \subseteq rows
    /\ \A r \in page : {x \in rows : key[x] = key[r]} \subseteq page

=============================================================================
