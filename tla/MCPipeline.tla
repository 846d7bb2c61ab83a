----------------------------- MODULE MCPipeline -----------------------------
(***************************************************************************)
(* Pipeline over a corpus of up to four rows, in batches of two.  d2 has   *)
(* two rows; the run loaded d1 and d2; d3, which can only join the corpus  *)
(* later, folds to the id of a claim of d1.                                *)
(***************************************************************************)
EXTENDS Pipeline

CONSTANTS d1, d2, d3, c1, c2, o1, o2, r1

Rows   == <<d2, d1, d2>>
Loaded == <<d1, d2>>

WordForWord == [c \in Proposal |-> IF c = c1 THEN {d1, d2} ELSE {d1}]
OneSpan     == [c \in Proposal |-> 1]
AnyReply    == {{}, {c1}, {c2}, {c1, c2}}

Names_ ==
    {DocumentKey(d) : d \in Document}
    \cup {ClaimKey(d, c) : d \in Document, c \in Proposal}
    \cup {SpanKey(d, c) : d \in Document, c \in Proposal}
    \cup {AssertsKey(d, c) : d \in Document, c \in Proposal}
    \cup {SupportKey(d, c) : d \in Document, c \in Proposal}

(* Ids are written as a name they are the id of. *)
Folding == [k \in Names_ |-> IF k = DocumentKey(d3) THEN ClaimKey(d1, c2) ELSE k]

Load(corpora, runs, copies, batches_, kills, growths, deletions, readings) ==
    [corpus |-> corpora, run |-> runs, rechunk |-> copies, extract |-> batches_, kill |-> kills,
     grow |-> growths, delete |-> deletions, read |-> readings]
Loads ==
    {Load(3, 0, 0, 0, 1, 1, 0, 0), Load(2, 1, 0, 0, 0, 1, 0, 0),
     Load(0, 0, 3, 0, 1, 1, 2, 1), Load(0, 0, 2, 0, 0, 1, 2, 2),
     Load(0, 0, 0, 2, 1, 0, 0, 0), Load(1, 0, 0, 1, 0, 1, 0, 0)}

=============================================================================
