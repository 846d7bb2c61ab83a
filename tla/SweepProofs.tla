---------------------------- MODULE SweepProofs ----------------------------
(***************************************************************************)
(* Theorems about Sweep, for every set of claims, batch size, number of    *)
(* sweeps and interference of the API: type correctness, and that a sweep  *)
(* which ran undisturbed and skipped no batch leaves exactly the disputes  *)
(* of the claims in the graph.                                             *)
(***************************************************************************)
EXTENDS Sweep, TLAPS

(* A batch is some of the edges it is cut from. *)
LEMMA BatchOfEdges ==
    ASSUME NEW edges PROVE Batch(edges) \in SUBSET edges
<1>1. \E b \in SUBSET edges : b = edges \/ Cardinality(b) = BatchSize
  OBVIOUS
<1>2. QED
  BY <1>1 DEF Batch

(* What conflict detection finds is drawn between rivals. *)
LEMMA DetectedAreRivals ==
    ASSUME NEW c \in SUBSET Claim, NEW i
    PROVE  Detected(c, i) \in SUBSET Rivals
BY ClaimAssumption DEF Detected, ConflictRows, Disagree, Fact, Rivals

(* What the API does keeps the types, and it never deletes a dispute. *)
LEMMA ChangeOnlyAdds ==
    ASSUME SweepTypeOK, Next
    PROVE  /\ claims' \in SUBSET Claim
           /\ identity' \in [Mention -> Person \cup {NoPerson}]
           /\ disputes' \in SUBSET Rivals
           /\ disputes \in SUBSET disputes'
<1> USE DEF SweepTypeOK
<1>1. CASE Contest
  <2>1. Detected(claims, identity) \in SUBSET Rivals
    BY DetectedAreRivals
  <2>2. QED
    BY <1>1, <2>1 DEF Contest
<1>2. CASE \E d \in Doc : Assert(d)
  BY <1>2 DEF Assert
<1>3. CASE \E d \in Doc : Recognise(d)
  BY <1>3 DEF Recognise
<1>4. QED
  BY <1>1, <1>2, <1>3 DEF Next

-----------------------------------------------------------------------------
(* Type correctness. *)

LEMMA TypeStep ==
    ASSUME SweepTypeOK, [Change \/ SweepStep]_vars
    PROVE  SweepTypeOK'
<1> USE DEF SweepTypeOK, promised
<1>1. CASE Change
  BY <1>1, ChangeOnlyAdds DEF Change, sweep
<1>2. CASE Begin
  BY <1>2 DEF Begin
<1>3. CASE ReadClaims
  BY <1>3 DEF ReadClaims
<1>4. CASE Compare
  BY <1>4, DetectedAreRivals DEF Compare
<1>5. CASE SkipBatch
  BY <1>5 DEF SkipBatch
<1>6. CASE WriteBatch
  BY <1>6, BatchOfEdges DEF WriteBatch
<1>7. CASE MarkBatch
  BY <1>7 DEF MarkBatch
<1>8. CASE ReadEdges
  BY <1>8 DEF ReadEdges, Superseded
<1>9. CASE DeleteBatch
  BY <1>9 DEF DeleteBatch
<1>10. CASE Finish
  BY <1>10 DEF Finish
<1>11. CASE Die
  BY <1>11 DEF Die
<1>12. CASE UNCHANGED vars
  BY <1>12 DEF vars, sweep
<1>13. QED
  BY <1>1, <1>2, <1>3, <1>4, <1>5, <1>6, <1>7, <1>8, <1>9, <1>10, <1>11, <1>12 DEF SweepStep

(***************************************************************************)
(* Whatever the API changes and wherever a sweep dies, the sweep writes    *)
(* only rivals and deletes only edges it did not find.                     *)
(***************************************************************************)
THEOREM TypeCorrect == SweepSpec => []SweepTypeOK
<1>1. SweepInit => SweepTypeOK
  BY DEF SweepInit, Init, SweepTypeOK
<1>2. SweepTypeOK /\ [Change \/ SweepStep]_vars => SweepTypeOK'
  BY TypeStep
<1>3. QED
  BY <1>1, <1>2, PTL DEF SweepSpec

-----------------------------------------------------------------------------
(* The invariant of a sweep under way. *)

(* Undisturbed, what the sweep read and found is what is there. *)
FindingsCurrent ==
    alone =>
        /\ pc = "identity" => read = claims
        /\ pc \in {"write", "mark", "delete", "done"} => rows = Detected(claims, identity)

(* An edge it found is in the graph, unless it has yet to write it. *)
WritesReachGraph ==
    fresh /\ pc \in {"write", "mark", "delete", "done"} =>
        /\ rows \ left \subseteq disputes
        /\ pc = "mark" => Batch(left) \subseteq disputes

(* Undisturbed, an edge it did not find is gone, unless it has yet to delete it. *)
RestIsDeleted ==
    alone /\ pc \in {"delete", "done"} => disputes \subseteq rows \cup left

SweepInvariant == FindingsCurrent /\ WritesReachGraph /\ RestIsDeleted

LEMMA InvariantStep ==
    ASSUME SweepTypeOK, SweepInvariant, [Change \/ SweepStep]_vars
    PROVE  SweepInvariant'
<1> USE DEF SweepInvariant, FindingsCurrent, WritesReachGraph, RestIsDeleted, promised
<1>1. CASE Change
  BY <1>1, ChangeOnlyAdds DEF Change, sweep
<1>2. CASE Begin
  BY <1>2 DEF Begin
<1>3. CASE ReadClaims
  BY <1>3 DEF ReadClaims
<1>4. CASE Compare
  BY <1>4 DEF Compare
<1>5. CASE SkipBatch
  BY <1>5 DEF SkipBatch
<1>6. CASE WriteBatch
  BY <1>6 DEF WriteBatch
<1>7. CASE MarkBatch
  BY <1>7 DEF MarkBatch
<1>8. CASE ReadEdges
  BY <1>8 DEF ReadEdges, Superseded
<1>9. CASE DeleteBatch
  <2>1. Batch(left) \in SUBSET left /\ left \in SUBSET (Rivals \ rows)
    BY <1>9, BatchOfEdges DEF DeleteBatch, SweepTypeOK
  <2>2. QED
    BY <1>9, <2>1 DEF DeleteBatch
<1>10. CASE Finish
  BY <1>10 DEF Finish
<1>11. CASE Die
  BY <1>11 DEF Die
<1>12. CASE UNCHANGED vars
  BY <1>12 DEF vars, sweep
<1>13. QED
  BY <1>1, <1>2, <1>3, <1>4, <1>5, <1>6, <1>7, <1>8, <1>9, <1>10, <1>11, <1>12 DEF SweepStep

(***************************************************************************)
(* A sweep nothing disturbed and that skipped no batch ends with exactly   *)
(* the disputes of the claims in the graph: what it found was current, it  *)
(* wrote all of it, and it deleted the rest.                               *)
(***************************************************************************)
THEOREM Exact == SweepSpec => []SweepExact
<1>1. SweepInit => SweepInvariant
  BY DEF SweepInit, SweepInvariant, FindingsCurrent, WritesReachGraph, RestIsDeleted
<1>2. SweepTypeOK /\ SweepInvariant /\ [Change \/ SweepStep]_vars => SweepInvariant'
  BY InvariantStep
<1>3. SweepTypeOK /\ SweepInvariant => SweepExact
  BY DEF SweepTypeOK, SweepInvariant, FindingsCurrent, WritesReachGraph, RestIsDeleted, SweepExact
<1>4. QED
  BY <1>1, <1>2, <1>3, TypeCorrect, PTL DEF SweepSpec

=============================================================================
