--------------------------- MODULE KnowledgeGraph ---------------------------
(***************************************************************************)
(* What the ingestor promises whoever reads the graph: the claims that can *)
(* be read with their evidence, the identity each mention records, and the *)
(* disputes between claims.  Batches, threads, locks and failures are not  *)
(* visible here; Ingest implements this specification.                     *)
(***************************************************************************)
EXTENDS Adjudication

VARIABLES
    claims,     \* the claims a reader can follow to their evidence
    identity,   \* the person each mention is recorded as, or NoPerson
    disputes    \* the CONFLICTS_WITH edges

promised == <<claims, identity, disputes>>

Init ==
    /\ claims = {}
    /\ identity = [m \in Mention |-> NoPerson]
    /\ disputes = {}

(* Claims of one document become readable; none ever stops being so. *)
Assert(d) ==
    /\ \E new \in SUBSET {c \in Claim : ClaimDoc[c] = d} : claims' = claims \cup new
    /\ UNCHANGED <<identity, disputes>>

(* The mentions of one document are decided, or put back to undecided. *)
Recognise(d) ==
    /\ identity' \in [Mention -> Person \cup {NoPerson}]
    /\ \A m \in Mention : DocOf[m] # d => identity'[m] = identity[m]
    /\ UNCHANGED <<claims, disputes>>

(* Claims that disagree, as identities stand, are recorded as disputing. *)
Contest ==
    /\ \E rows \in SUBSET Detected(claims, identity) : disputes' = disputes \cup rows
    /\ UNCHANGED <<claims, identity>>

Next == Contest \/ \E d \in Doc : Assert(d) \/ Recognise(d)

Spec == Init /\ [][Next]_promised

=============================================================================
