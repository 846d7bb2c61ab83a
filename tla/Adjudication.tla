---------------------------- MODULE Adjudication ----------------------------
(***************************************************************************)
(* Which claims are about the same fact, which of them disagree, and the   *)
(* CONFLICTS_WITH rows a pass over them writes: group_key and              *)
(* detect_conflicts of conflicts.py, load_claims and conflict_edge_rows of *)
(* reconcile.py.  The trust scores decide which version leads, never       *)
(* whether an edge is drawn, and are not modelled here.                    *)
(*                                                                         *)
(* A claim is its id, a natural number, because edges run from the lower   *)
(* id to the higher one.  A claim's subject is a surface; SubjectMention[c]*)
(* is the mention of that surface in the claim's own document, if any.     *)
(***************************************************************************)
EXTENDS GraphEvidence

CONSTANTS
    Claim,           \* claims the model can extract, as ids
    NoMention,       \* the subject is not a mention of the document
    ClaimDoc,        \* the document a claim is extracted from
    SpanOf,          \* the evidence span under a claim
    SubjectMention, SubjectName,
    Predicate,       \* the canonical predicate of a claim
    Contestable,     \* claims whose predicate aligns and can conflict
    Object           \* the normalised value

ASSUME ClaimAssumption ==
    /\ Claim \subseteq Nat
    /\ ClaimDoc \in [Claim -> Doc]
    /\ NoMention \notin Mention
    /\ SubjectMention \in [Claim -> Mention \cup {NoMention}]
    /\ \A c \in Claim : SubjectMention[c] # NoMention => DocOf[SubjectMention[c]] = ClaimDoc[c]
    /\ Contestable \subseteq Claim

ClaimNode(c) == Node("Claim", c)
Assertion(c) == Edge("ASSERTS", Node("Document", ClaimDoc[c]), ClaimNode(c))
Support(c)   == Edge("SUPPORTED_BY", ClaimNode(c), Node("EvidenceSpan", SpanOf[c]))
Dispute(a, b) == Edge("CONFLICTS_WITH", ClaimNode(a), ClaimNode(b))

(* The claims load_claims reads: asserted by a document and supported by a span. *)
Visible(g) == {c \in Claim : Assertion(c) \in g.edges /\ Support(c) \in g.edges}

(* The identity every mention records: only one whose status is "resolved" has any. *)
IdentityOf(mention) ==
    [m \in Mention |-> IF mention[m].status = "resolved" THEN mention[m].entity ELSE NoPerson]

(* What identity, a map from mentions to people, makes of a claim's subject. *)
SubjectIdentity(identity, c) ==
    IF SubjectMention[c] # NoMention /\ identity[SubjectMention[c]] # NoPerson
    THEN <<"entity", identity[SubjectMention[c]]>>
    ELSE <<"name", SubjectName[c]>>

(* group_key: the fact a contestable claim is about. *)
Fact(identity, c) == <<SubjectIdentity(identity, c), Predicate[c]>>

(* Two contestable claims about one fact that give it different values. *)
Disagree(identity, a, b) ==
    /\ {a, b} \subseteq Contestable
    /\ Fact(identity, a) = Fact(identity, b)
    /\ Object[a] # Object[b]

(* Mutant: the facts a batch touched are told apart by subject name alone. *)
TouchedByName(claims, identity, docs) ==
    {<<<<"name", SubjectName[c]>>, Predicate[c]>> :
        c \in {k \in claims \cap Contestable : ClaimDoc[k] \in docs}}

(* The facts a set of documents has an opinion about. *)
Touched(claims, identity, docs) ==
    {Fact(identity, c) : c \in {k \in claims \cap Contestable : ClaimDoc[k] \in docs}}

(* Mutant: a pair is written from either end, as if its order did not matter. *)
ConflictRowsBothWays(claims, identity, facts) ==
    LET contested == {c \in claims \cap Contestable : Fact(identity, c) \in facts}
    IN  {Dispute(p[1], p[2]) : p \in {q \in contested \X contested : Disagree(identity, q[1], q[2])}}

(* conflict_edge_rows over the claims about some facts: between values, never within one. *)
ConflictRows(claims, identity, facts) ==
    LET contested == {c \in claims \cap Contestable : Fact(identity, c) \in facts}
    IN  {Dispute(p[1], p[2]) :
            p \in {q \in contested \X contested : q[1] < q[2] /\ Disagree(identity, q[1], q[2])}}

(* What a pass over every claim detects, and what the graph holds. *)
Detected(claims, identity) ==
    ConflictRows(claims, identity, {Fact(identity, c) : c \in claims \cap Contestable})
Persisted(g) == {e \in g.edges : e.type = "CONFLICTS_WITH"}

=============================================================================
