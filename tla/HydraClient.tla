---------------------------- MODULE HydraClient ----------------------------
(***************************************************************************)
(* The client that every thread of the API shares, over a graph that       *)
(* changes as KnowledgeGraph says.  Every statement sees one snapshot, not *)
(* older than the bookmark it was sent with.  The bookmark is one field:   *)
(* whichever answer arrives last, of a write over Bolt or of any query     *)
(* over HTTP, overwrites it.                                               *)
(*                                                                         *)
(* The engine and the snapshots it serves are external; a bookmark is the  *)
(* number of the snapshot it stands for.                                   *)
(***************************************************************************)
EXTENDS KnowledgeGraph, Sequences

VARIABLES
    log,        \* the snapshots of the graph, oldest first
    bookmark,   \* _bookmarks: the snapshot the next statement must not precede
    overtaken   \* an older bookmark has overwritten a newer one

hydra == <<promised, log, bookmark, overtaken>>

Snapshot == [claims |-> claims, identity |-> identity, disputes |-> disputes]

ClientInit ==
    /\ Init
    /\ log = <<Snapshot>>
    /\ bookmark = 1 /\ overtaken = FALSE

(* The snapshots a statement sent now may see. *)
Readable == bookmark .. Len(log)

(* A write of claims or of disputes that the engine applies, again perhaps. *)
Apply(write) ==
    /\ claims' = claims \cup write.claims
    /\ disputes' = disputes \cup write.disputes
    /\ identity' = identity
    /\ log' = Append(log, Snapshot')

(* An answer with the bookmark of snapshot v arrives. *)
Remember(v) ==
    /\ bookmark' = v
    /\ overtaken' = (overtaken \/ v < bookmark)

(* Another process changes the graph: a bulk script, or a sweep that prunes. *)
Prune ==
    /\ disputes' \in SUBSET disputes
    /\ UNCHANGED <<claims, identity>>

Elsewhere ==
    /\ Next \/ Prune
    /\ promised' # promised
    /\ log' = Append(log, Snapshot')
    /\ UNCHANGED <<bookmark, overtaken>>

=============================================================================
