------------------------------- MODULE Sweep -------------------------------
(***************************************************************************)
(* The authoritative conflict sweep of scripts/55_conflicts.py, run over a *)
(* graph that the API goes on changing as KnowledgeGraph says.  A sweep    *)
(* reads the claims, then the identities, compares them, writes the edges  *)
(* through the checkpoint of loader.py, reads the edges back and deletes   *)
(* those it did not find (prune_superseded of reconcile.py).  It can die   *)
(* at any point and be run again.                                          *)
(***************************************************************************)
EXTENDS KnowledgeGraph

CONSTANTS
    BatchSize,      \* edges written or deleted by one statement
    MaxSweeps,      \* bounds of the model: sweeps started,
    MaxChanges      \* and changes the API makes

ASSUME SweepAssumption ==
    /\ BatchSize \in Nat \ {0}
    /\ {MaxSweeps, MaxChanges} \subseteq Nat

VARIABLES
    marked,     \* the checkpoint: keys of the batches that completed
    pc,         \* where the sweep is
    read,       \* the claims it read
    rows,       \* the edges it found
    left,       \* those it has yet to write, or to delete
    alone,      \* nothing else changed the graph since the sweep began
    fresh,      \* it has skipped no batch
    sweeps, changes

sweep == <<marked, pc, read, rows, left>>
vars  == <<promised, sweep, alone, fresh, sweeps, changes>>

Idle == {"idle", "done"}

(* The next statement's share of some edges, cut the same way every time. *)
Batch(edges) == CHOOSE b \in SUBSET edges : b = edges \/ Cardinality(b) = BatchSize

(* The job of a sweep is named by the number of edges it found. *)
Key == <<Cardinality(rows), Cardinality(left)>>

SweepInit ==
    /\ Init
    /\ marked = {} /\ pc = "idle" /\ read = {} /\ rows = {} /\ left = {}
    /\ alone = TRUE /\ fresh = TRUE /\ sweeps = 0 /\ changes = 0

(* What the API does meanwhile. *)
Change ==
    /\ changes < MaxChanges
    /\ changes' = changes + 1
    /\ Next
    /\ alone' = FALSE
    /\ UNCHANGED <<sweep, fresh, sweeps>>

Begin ==
    /\ pc \in Idle /\ sweeps < MaxSweeps
    /\ sweeps' = sweeps + 1
    /\ pc' = "claims" /\ read' = {} /\ rows' = {} /\ left' = {}
    /\ alone' = TRUE /\ fresh' = TRUE
    /\ UNCHANGED <<promised, marked, changes>>

ReadClaims ==
    /\ pc = "claims"
    /\ read' = claims
    /\ pc' = "identity"
    /\ UNCHANGED <<promised, marked, rows, left, alone, fresh, sweeps, changes>>

(* load_subject_identity, and detect_conflicts over what was read. *)
Compare ==
    /\ pc = "identity"
    /\ rows' = Detected(read, identity)
    /\ left' = rows'
    /\ pc' = "write"
    /\ UNCHANGED <<promised, marked, read, alone, fresh, sweeps, changes>>

SkipBatch ==
    /\ pc = "write" /\ left # {} /\ Key \in marked
    /\ left' = left \ Batch(left)
    /\ fresh' = FALSE
    /\ UNCHANGED <<promised, marked, pc, read, rows, alone, sweeps, changes>>

WriteBatch ==
    /\ pc = "write" /\ left # {} /\ Key \notin marked
    /\ disputes' = disputes \cup Batch(left)
    /\ pc' = "mark"
    /\ UNCHANGED <<claims, identity, marked, read, rows, left, alone, fresh, sweeps, changes>>

MarkBatch ==
    /\ pc = "mark"
    /\ marked' = marked \cup {Key}
    /\ left' = left \ Batch(left)
    /\ pc' = "write"
    /\ UNCHANGED <<promised, read, rows, alone, fresh, sweeps, changes>>

(* Mutant: only edges between claims it did not read count as superseded. *)
SupersededUnread == {e \in disputes \ rows : ~ \E x, y \in read : e = Dispute(x, y)}

(* The edges in the graph that the sweep did not find. *)
Superseded == disputes \ rows

ReadEdges ==
    /\ pc = "write" /\ left = {}
    /\ left' = Superseded
    /\ pc' = "delete"
    /\ UNCHANGED <<promised, marked, read, rows, alone, fresh, sweeps, changes>>

DeleteBatch ==
    /\ pc = "delete" /\ left # {}
    /\ disputes' = disputes \ Batch(left)
    /\ left' = left \ Batch(left)
    /\ UNCHANGED <<claims, identity, marked, pc, read, rows, alone, fresh, sweeps, changes>>

Finish ==
    /\ pc = "delete" /\ left = {}
    /\ pc' = "done"
    /\ UNCHANGED <<promised, marked, read, rows, left, alone, fresh, sweeps, changes>>

(* Mutant: the next sweep starts with what the dead one had left. *)
DieKeepingRows ==
    /\ pc \notin Idle
    /\ pc' = "idle" /\ read' = {} /\ rows' = {}
    /\ UNCHANGED <<promised, marked, left, alone, fresh, sweeps, changes>>

(* The process dies; the graph and the checkpoint stay. *)
Die ==
    /\ pc \notin Idle
    /\ pc' = "idle" /\ read' = {} /\ rows' = {} /\ left' = {}
    /\ UNCHANGED <<promised, marked, alone, fresh, sweeps, changes>>

SweepStep ==
    \/ Begin \/ ReadClaims \/ Compare \/ SkipBatch \/ WriteBatch \/ MarkBatch
    \/ ReadEdges \/ DeleteBatch \/ Finish \/ Die

SweepSpec == SweepInit /\ [][Change \/ SweepStep]_vars

-----------------------------------------------------------------------------
(* The edges that can be drawn at all: from the lower claim to a rival with the higher id. *)
Rivals ==
    {Dispute(p[1], p[2]) : p \in {q \in Contestable \X Contestable :
        q[1] < q[2] /\ Predicate[q[1]] = Predicate[q[2]] /\ Object[q[1]] # Object[q[2]]}}

(***************************************************************************)
(* Type correctness; what a sweep has left to write is among what it found,*)
(* and what it has left to delete is not.                                  *)
(***************************************************************************)
SweepTypeOK ==
    /\ claims \subseteq Claim
    /\ identity \in [Mention -> Person \cup {NoPerson}]
    /\ disputes \subseteq Rivals
    /\ pc \in {"idle", "claims", "identity", "write", "mark", "delete", "done"}
    /\ read \subseteq Claim /\ rows \subseteq Rivals
    /\ pc \in {"write", "mark"} => left \subseteq rows
    /\ pc = "delete" => left \subseteq Rivals \ rows
    /\ pc \notin {"write", "mark", "delete"} => left = {}
    /\ pc = "mark" => left # {}
    /\ alone \in BOOLEAN /\ fresh \in BOOLEAN

(***************************************************************************)
(* A sweep that ran undisturbed and skipped no batch leaves exactly the    *)
(* disputes of the claims in the graph, whatever earlier sweeps wrote or   *)
(* deleted before they died.                                               *)
(***************************************************************************)
SweepExact == pc = "done" /\ alone /\ fresh => disputes = Detected(claims, identity)

(* Every undisturbed sweep does, whatever its checkpoint remembers. *)
SweepAuthoritative == pc = "done" /\ alone => disputes = Detected(claims, identity)

=============================================================================
