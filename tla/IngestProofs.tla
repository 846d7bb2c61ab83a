---------------------------- MODULE IngestProofs ----------------------------
(***************************************************************************)
(* Theorems about Ingest, for every corpus, every number of threads and    *)
(* every bound.  The first part types the rows a commit writes; then come  *)
(* type correctness, mutual exclusion, the agreement of a mention's two    *)
(* identity records, what a CONFLICTS_WITH edge may join, and what commits *)
(* without failures leave behind: no pending mention, whole evidence.      *)
(***************************************************************************)
EXTENDS Ingest, GraphEvidenceProofs, FiniteSetTheorems, TLAPS

GraphType == [nodes : SUBSET Vertex, edges : SUBSET AnyEdge]

-----------------------------------------------------------------------------
(* Where a commit goes next. *)

(* Every batch of a commit leads to another one, and a decision only from observe. *)
LEMMA FollowingIsCommit ==
    ASSUME NEW a \in Asks, pc[a] \in CommitSteps, pc[a] # "register"
    PROVE  Following(a) \in CommitSteps
BY DEF Following, CommitSteps, StructureSteps, IdentitySteps, ClaimSteps, StructureStart,
       TicketStart, IdentityStart, ClaimStart, Order, ClaimOrder

LEMMA ClaimStartIsCommit ==
    ASSUME NEW a \in Asks
    PROVE  ClaimStart(a) \in ClaimSteps
BY DEF ClaimSteps, ClaimStart

-----------------------------------------------------------------------------
(* What the graph operators do to a graph. *)

(* Writing vertices keeps the graph typed and anchored, and takes nothing away. *)
LEMMA UpsertNodesGrows ==
    ASSUME NEW g \in GraphType, Anchored(g), NEW rows \in SUBSET Vertex
    PROVE  /\ UpsertNodes(g, rows) \in GraphType /\ Anchored(UpsertNodes(g, rows))
           /\ UpsertNodes(g, rows).nodes = g.nodes \cup rows
           /\ UpsertNodes(g, rows).edges = g.edges
BY DEF UpsertNodes, GraphType, Anchored

(* Writing edges skips the rows without endpoints, so the graph stays anchored. *)
LEMMA UpsertEdgesGrows ==
    ASSUME NEW g \in GraphType, Anchored(g), NEW rows \in SUBSET AnyEdge
    PROVE  /\ UpsertEdges(g, rows) \in GraphType /\ Anchored(UpsertEdges(g, rows))
           /\ UpsertEdges(g, rows).nodes = g.nodes
           /\ UpsertEdges(g, rows).edges =
                g.edges \cup {e \in rows : e.src \in g.nodes /\ e.dst \in g.nodes}
BY DEF UpsertEdges, GraphType, Anchored

-----------------------------------------------------------------------------
(* Everybody a document touches is somebody the resolver knows. *)
LEMMA TouchedAreKnown ==
    ASSUME NEW d \in Doc, NEW p \in TouchedPeople(d)
    PROVE  p \in people
BY LexicalTargetKnown DEF TouchedPeople, Settled, Ambiguous, MentionsIn, CandidatesFor

(* The vertices of a batch are vertices of the model. *)
LEMMA NodeRowsTyped ==
    ASSUME NEW a \in Asks, TypeOK
    PROVE  NodeRows(a) \in SUBSET Vertex
<1>1. SUFFICES ASSUME pc[a] \in NodeSteps
               PROVE  NodeRows(a) \in SUBSET Vertex
  BY DEF NodeRows, At, NodeSteps
<1>2. doc[a] \in Doc
  BY <1>1 DEF TypeOK, NodeSteps, CommitSteps, StructureSteps, IdentitySteps, ClaimSteps
<1>3. prepared[a][doc[a]].claims \in SUBSET Claim
  BY <1>2 DEF TypeOK, Extraction
<1>4. TouchedPeople(doc[a]) \in SUBSET Person /\ ChannelsOf(doc[a]) \in SUBSET Channel
  BY <1>2, TouchedAreKnown, CorpusAssumption DEF TypeOK, ChannelsOf
<1>5. QED
  BY <1>2, <1>3, <1>4 DEF NodeRows, At, Vertex, Node, MentionsIn, ClaimNode

(* The edges of a batch join vertices of the model. *)
LEMMA EdgeRowsTyped ==
    ASSUME NEW a \in Asks, TypeOK
    PROVE  EdgeRows(a) \in SUBSET AnyEdge
<1> DEFINE d == doc[a]
           claims == prepared[a][d].claims
<1>1. CASE pc[a] = "conflicts_with"
  BY <1>1 DEF EdgeRows, At, TypeOK
<1>2. CASE pc[a] \in EdgeSteps
  <2>1. d \in Doc
    BY <1>2 DEF TypeOK, EdgeSteps, CommitSteps, StructureSteps, IdentitySteps, ClaimSteps
  <2>2. claims \in SUBSET Claim
    BY <2>1 DEF TypeOK, Extraction
  <2>3. \A m \in Settled(d) : m \in Mention /\ LexicalTarget(people, m) \in Person
    BY LexicalTargetKnown DEF Settled, MentionsIn, TypeOK
  <2>4. \A m \in Ambiguous(d) : /\ m \in Mention /\ outcome[m] \in Person \cup {NoPerson}
                               /\ CandidatesFor(people, m) \in SUBSET Person
    BY DEF Ambiguous, MentionsIn, TypeOK, CandidatesFor
  <2>5. ChannelsOf(d) \in SUBSET Channel
    BY <2>1, CorpusAssumption DEF ChannelsOf
  <2> USE DEF EdgeRows, At, AnyEdge, EdgeType, Edge, Vertex, Node
  <2> HIDE DEF d, claims
  <2>6. CASE pc[a] = "mentioned_in"
    BY <2>6, <2>1 DEF MentionsIn, d
  <2>7. CASE pc[a] = "references"
    BY <2>7, <2>1 DEF d
  <2>8. CASE pc[a] = "resolves"
    BY <2>8, <2>3 DEF Resolution, d
  <2>9. CASE pc[a] = "participated_in"
    BY <2>9, <2>3, <2>5 DEF d
  <2>10. CASE pc[a] = "graph_resolves"
    BY <2>10, <2>4 DEF Resolution, d
  <2>11. CASE pc[a] = "candidate_for"
    <3>1. SUFFICES ASSUME NEW e \in EdgeRows(a) PROVE e \in AnyEdge
      OBVIOUS
    <3>2. PICK m \in Ambiguous(d) : \E p \in CandidatesFor(people, m) :
             e = Edge("CANDIDATE_FOR", Node("Mention", m), Node("Entity", p))
      BY <2>11 DEF d
    <3>3. QED
      BY <3>2, <2>4
  <2>12. CASE pc[a] = "asserts"
    <3>1. \A c \in claims : c \in Claim /\ ClaimDoc[c] \in Doc
      BY <2>2, ClaimAssumption
    <3>2. QED
      BY <2>12, <3>1 DEF Assertion, ClaimNode, d, claims
  <2>13. CASE pc[a] = "supported_by"
    BY <2>13, <2>2 DEF Support, ClaimNode, d, claims
  <2>14. QED
    BY <1>2, <2>6, <2>7, <2>8, <2>9, <2>10, <2>11, <2>12, <2>13 DEF EdgeSteps
<1>3. CASE pc[a] \notin EdgeSteps \cup {"conflicts_with"}
  BY <1>3 DEF EdgeRows, At, EdgeSteps
<1>4. QED
  BY <1>1, <1>2, <1>3

(* A batch keeps the graph typed and anchored, and takes nothing away. *)
LEMMA GraphAfterGrows ==
    ASSUME NEW a \in Asks, TypeOK
    PROVE  /\ GraphAfter(a) \in GraphType /\ Anchored(GraphAfter(a))
           /\ GraphAfter(a).nodes = graph.nodes \cup NodeRows(a)
           /\ GraphAfter(a).edges = graph.edges \cup
                 {e \in EdgeRows(a) : {e.src, e.dst} \subseteq graph.nodes \cup NodeRows(a)}
<1>1. graph \in GraphType /\ Anchored(graph)
  BY DEF TypeOK, GraphType
<1> DEFINE g == UpsertNodes(graph, NodeRows(a))
<1>2. /\ g \in GraphType /\ Anchored(g)
      /\ g.nodes = graph.nodes \cup NodeRows(a) /\ g.edges = graph.edges
  BY <1>1, NodeRowsTyped, UpsertNodesGrows
<1> HIDE DEF g
<1>3. /\ UpsertEdges(g, EdgeRows(a)) \in GraphType /\ Anchored(UpsertEdges(g, EdgeRows(a)))
      /\ UpsertEdges(g, EdgeRows(a)).nodes = g.nodes
      /\ UpsertEdges(g, EdgeRows(a)).edges =
            g.edges \cup {e \in EdgeRows(a) : e.src \in g.nodes /\ e.dst \in g.nodes}
  BY <1>2, EdgeRowsTyped, UpsertEdgesGrows
<1>4. QED
  BY <1>2, <1>3 DEF GraphAfter, g

(* A batch writes well-formed mention records. *)
LEMMA MentionAfterTyped ==
    ASSUME NEW a \in Asks, TypeOK
    PROVE  MentionAfter(a) \in [Mention -> Record]
<1>1. SUFFICES ASSUME NEW m \in Mention PROVE MentionAfter(a)[m] \in Record
  BY DEF MentionAfter
<1>2. mention[m] \in Record /\ outcome[m] \in Person \cup {NoPerson}
  BY DEF TypeOK
<1>3. Verdict(m) \in Record /\ [mention[m] EXCEPT !.status = "pending"] \in Record
  BY <1>2 DEF Verdict, Record
<1>4. QED
  BY <1>2, <1>3 DEF MentionAfter

(* The graph tier decides for people of the model. *)
LEMMA DecisionTyped ==
    ASSUME TypeOK, NEW m \in Mention
    PROVE  /\ LexicalTarget(people, m) \in Person \cup {NoPerson}
           /\ GraphTarget(graph, people, m) \in Person \cup {NoPerson}
<1>1. LexicalTarget(people, m) \in Person \cup {NoPerson}
  BY LexicalTargetKnown DEF TypeOK
<1>2. Winner(graph, CandidatesFor(people, m), DocOf[m]) \in Person \cup {NoPerson}
  BY WinnerTyped DEF CandidatesFor, TypeOK
<1>3. Proposal(graph, m) \in Person \cup {NoPerson}
  BY ProposalTyped DEF Connected
<1>4. QED
  BY <1>1, <1>2, <1>3 DEF GraphTarget

-----------------------------------------------------------------------------
(* Type correctness. *)

LEMMA TypeInit == Init => TypeOK
<1> SUFFICES ASSUME Init PROVE TypeOK
  OBVIOUS
<1>1. graph \in [nodes : SUBSET Vertex, edges : SUBSET AnyEdge] /\ Anchored(graph)
  BY DEF Init, EmptyGraph, Anchored
<1>2. NothingPrepared \in [Doc -> Extraction]
  BY DEF NothingPrepared, NothingExtracted, Extraction
<1>3. questions \in 0 .. MaxQuestions /\ faults \in 0 .. MaxFaults /\ crashes \in 0 .. MaxCrashes
  BY IngestAssumption DEF Init
<1>4. \A a \in Asks : doc[a] \in Doc <=> pc[a] \in CommitSteps
  BY IngestAssumption DEF Init, CommitSteps, StructureSteps, IdentitySteps, ClaimSteps
<1>5. mention \in [Mention -> Record] /\ outcome \in [Mention -> Person \cup {NoPerson}]
  BY DEF Init, Record, NoDecision
<1>6. prepared \in [Asks -> [Doc -> Extraction]]
  BY <1>2 DEF Init
<1>7. QED
  BY <1>1, <1>3, <1>4, <1>5, <1>6 DEF Init, TypeOK, Open

(* What an action that fails or writes does to the graph is typed. *)
LEMMA RaisedTyped ==
    ASSUME NEW a \in Asks, TypeOK, Raised(a)
    PROVE  /\ graph' \in [nodes : SUBSET Vertex, edges : SUBSET AnyEdge] /\ Anchored(graph')
           /\ mention' \in [Mention -> Record]
           /\ faults' \in 0 .. MaxFaults /\ UNCHANGED <<questions, crashes>>
<1>1. GraphAfter(a) \in GraphType /\ Anchored(GraphAfter(a))
  BY GraphAfterGrows
<1>2. MentionAfter(a) \in [Mention -> Record]
  BY MentionAfterTyped
<1>3. graph \in GraphType /\ Anchored(graph) /\ mention \in [Mention -> Record]
  BY DEF TypeOK, GraphType
<1>4. graph' \in GraphType /\ Anchored(graph') /\ mention' \in [Mention -> Record]
  BY <1>1, <1>2, <1>3 DEF Raised, Anchored
<1>5. faults' \in 0 .. MaxFaults /\ UNCHANGED <<questions, crashes>>
  BY IngestAssumption DEF Raised, TypeOK
<1>6. QED
  BY <1>4, <1>5 DEF GraphType

(* Threads stay typed when a thread forgets its question. *)
LEMMA ForgetTyped ==
    ASSUME NEW a \in Asks, TypeOK, Forget(a)
    PROVE  /\ asked' \in [Asks -> SUBSET Doc] /\ unchecked' \in [Asks -> SUBSET Doc]
           /\ todo' \in [Asks -> SUBSET Doc] /\ written' \in [Asks -> SUBSET Doc]
           /\ prepared' \in [Asks -> [Doc -> Extraction]]
           /\ doc' \in [Asks -> Doc \cup {NoDoc}]
           /\ disputes' \in [Asks -> SUBSET AnyEdge]
           /\ \A b \in Asks : doc'[b] = IF b = a THEN NoDoc ELSE doc[b]
<1>1. NothingPrepared \in [Doc -> Extraction]
  BY DEF NothingPrepared, NothingExtracted, Extraction
<1>2. QED
  BY <1>1 DEF TypeOK, Forget

LEMMA TypeStep == TypeOK /\ [Next]_vars => TypeOK'
<1> SUFFICES ASSUME TypeOK, [Next]_vars PROVE TypeOK'
  OBVIOUS
<1> USE IngestAssumption DEF Open, Critical, CommitSteps, StructureSteps, IdentitySteps,
        ClaimSteps, ReconcileSteps
<1>1. ASSUME NEW a \in Asks, Ask(a) PROVE TypeOK'
  BY <1>1 DEF Ask, TypeOK, memory
<1>2. ASSUME NEW a \in Asks, Check(a) PROVE TypeOK'
  <2>0. PICK d \in unchecked[a] :
           \/ present' = present \cup {d} /\ todo' = todo
           \/ todo' = [todo EXCEPT ![a] = @ \cup {d}] /\ present' = present
    BY <1>2 DEF Check
  <2>1. present' \in SUBSET Doc /\ todo' \in [Asks -> SUBSET Doc]
    <3>1. d \in Doc /\ present \in SUBSET Doc /\ todo \in [Asks -> SUBSET Doc]
      BY DEF TypeOK
    <3>2. QED
      BY <2>0, <3>1
  <2>2. unchecked' \in [Asks -> SUBSET Doc]
    BY <1>2 DEF Check, TypeOK
  <2>3. QED
    BY <1>2, <2>1, <2>2 DEF Check, TypeOK, bounds
<1>3. ASSUME NEW a \in Asks, Prepare(a) PROVE TypeOK'
  <2>0. PICK batch \in SUBSET todo[a] :
           /\ \E p \in [batch -> UNION {Extractions(d) : d \in batch}] :
                /\ \A d \in batch : p[d] \in Extractions(d)
                /\ prepared' = [prepared EXCEPT ![a] =
                              [d \in Doc |-> IF d \in batch THEN p[d] ELSE NothingExtracted]]
           /\ todo' = [todo EXCEPT ![a] = batch]
    BY <1>3 DEF Prepare
  <2>1. PICK p \in [batch -> UNION {Extractions(d) : d \in batch}] :
           /\ \A d \in batch : p[d] \in Extractions(d)
           /\ prepared' = [prepared EXCEPT ![a] =
                              [d \in Doc |-> IF d \in batch THEN p[d] ELSE NothingExtracted]]
    BY <2>0
  <2>2. \A d \in batch : p[d] \in Extraction
    <3>1. \A d \in batch : Extractions(d) \in SUBSET Extraction
      <4>1. SUFFICES ASSUME NEW d \in batch, NEW x \in Extractions(d) PROVE x \in Extraction
        OBVIOUS
      <4>2. CASE x = [failed |-> TRUE, claims |-> {}]
        BY <4>2 DEF Extraction
      <4>3. CASE \E s \in SUBSET Claim : x = [failed |-> FALSE, claims |-> s]
        BY <4>3 DEF Extraction
      <4>4. QED
        BY <4>2, <4>3 DEF Extractions
    <3>2. QED
      BY <2>1, <3>1
  <2>3. NothingExtracted \in Extraction
    BY DEF NothingExtracted, Extraction
  <2>4. [d \in Doc |-> IF d \in batch THEN p[d] ELSE NothingExtracted] \in [Doc -> Extraction]
    BY <2>2, <2>3
  <2>5. /\ prepared' \in [Asks -> [Doc -> Extraction]] /\ todo' \in [Asks -> SUBSET Doc]
    BY <2>0, <2>1, <2>4 DEF TypeOK
  <2>6. QED
    BY <1>3, <2>5 DEF Prepare, TypeOK, memory, bounds
<1>4. ASSUME NEW a \in Asks, NothingToDo(a) PROVE TypeOK'
  BY <1>4 DEF NothingToDo, TypeOK, memory, thread, bounds
<1>5. ASSUME NEW a \in Asks, StartCommit(a) PROVE TypeOK'
  BY <1>5 DEF StartCommit, TypeOK, memory, bounds
<1>6. ASSUME NEW a \in Asks, SkipDocument(a) PROVE TypeOK'
  BY <1>6 DEF SkipDocument, TypeOK, memory, bounds
<1>7. ASSUME NEW a \in Asks, WriteBatch(a) PROVE TypeOK'
  <2>1. /\ graph' \in [nodes : SUBSET Vertex, edges : SUBSET AnyEdge] /\ Anchored(graph')
        /\ mention' \in [Mention -> Record]
    BY <1>7, GraphAfterGrows, MentionAfterTyped DEF WriteBatch, GraphType, Anchored
  <2>2. Following(a) \in CommitSteps /\ pc[a] \in CommitSteps
    BY <1>7, FollowingIsCommit DEF WriteBatch, NodeSteps, EdgeSteps
  <2>3. QED
    BY <1>7, <2>1, <2>2 DEF WriteBatch, TypeOK, memory, thread, bounds
<1>8. ASSUME NEW a \in Asks, Observe(a) PROVE TypeOK'
  <2>1. PeopleIn(doc[a]) \in SUBSET Person
    BY CorpusAssumption DEF PeopleIn, MentionsIn
  <2>2. Following(a) \in CommitSteps /\ pc[a] \in CommitSteps
    BY <1>8, FollowingIsCommit DEF Observe
  <2>3. QED
    BY <1>8, <2>1, <2>2 DEF Observe, TypeOK, thread, bounds
<1>9. ASSUME NEW a \in Asks, Decide(a) PROVE TypeOK'
  <2>1. outcome' \in [Mention -> Person \cup {NoPerson}]
    BY <1>9, DecisionTyped DEF Decide
  <2>2. Following(a) \in CommitSteps /\ pc[a] \in CommitSteps
    BY <1>9, FollowingIsCommit DEF Decide
  <2>3. QED
    BY <1>9, <2>1, <2>2 DEF Decide, TypeOK, memory, thread, bounds
<1>10. ASSUME NEW a \in Asks, Register(a) PROVE TypeOK'
  <2>1. doc[a] \in Doc /\ outcome' \in [Mention -> Person \cup {NoPerson}]
    BY <1>10 DEF Register, TypeOK, NoDecision
  <2>2. QED
    BY <1>10, <2>1 DEF Register, TypeOK, bounds, Leave
<1>11. ASSUME NEW a \in Asks, NothingWritten(a) PROVE TypeOK'
  BY <1>11 DEF NothingWritten, TypeOK, memory, thread, bounds
<1>12. ASSUME NEW a \in Asks, StartReconcile(a) PROVE TypeOK'
  BY <1>12 DEF StartReconcile, TypeOK, memory, thread, bounds
<1>13. ASSUME NEW a \in Asks, Adjudicate(a) PROVE TypeOK'
  <2>1. \A facts : ConflictRows(Visible(graph), IdentityOf(mention), facts) \in SUBSET AnyEdge
    BY DEF ConflictRows, Visible, Dispute, Edge, ClaimNode, Node, AnyEdge, EdgeType, Vertex
  <2>2. disputes' \in [Asks -> SUBSET AnyEdge]
    BY <1>13, <2>1 DEF Adjudicate, Subjects, TypeOK
  <2>3. pc' = [pc EXCEPT ![a] = "returned"] \/ pc' = [pc EXCEPT ![a] = "conflicts_with"]
    BY <1>13 DEF Adjudicate, Subjects, Release
  <2>4. lock' \in Asks \cup {NoAsk}
    BY <1>13 DEF Adjudicate, Subjects, Release, Leave, TypeOK
  <2>5. pc' \in [Asks -> Open \cup Critical]
    BY <2>3 DEF TypeOK
  <2>6. pc[a] = "adjudicate" /\ UNCHANGED doc
    BY <1>13 DEF Adjudicate, Subjects
  <2>7. \A b \in Asks : doc'[b] \in Doc <=> pc'[b] \in CommitSteps
    BY <2>3, <2>6 DEF TypeOK
  <2>8. QED
    BY <1>13, <2>2, <2>4, <2>5, <2>7 DEF Adjudicate, Subjects, TypeOK, memory, bounds
<1>14. ASSUME NEW a \in Asks, WriteConflicts(a) PROVE TypeOK'
  <2>1. graph' \in [nodes : SUBSET Vertex, edges : SUBSET AnyEdge] /\ Anchored(graph')
    BY <1>14, GraphAfterGrows DEF WriteConflicts, GraphType, Anchored
  <2>2. QED
    BY <1>14, <2>1 DEF WriteConflicts, TypeOK, memory, thread, bounds
<1>15. ASSUME NEW a \in Asks, RegisterConflicts(a) PROVE TypeOK'
  BY <1>15 DEF RegisterConflicts, Release, Leave, TypeOK, memory, thread, bounds
<1>16. ASSUME NEW a \in Asks, Deliver(a) PROVE TypeOK'
  <2>1. Forget(a) /\ pc' = [pc EXCEPT ![a] = "idle"]
    BY <1>16 DEF Deliver
  <2>2. UNCHANGED <<graph, mention, memory, lock, outcome, bounds>>
    BY <1>16 DEF Deliver
  <2>3. pc' \in [Asks -> Open \cup Critical]
    BY <2>1 DEF TypeOK
  <2>4. \A b \in Asks : doc'[b] \in Doc <=> pc'[b] \in CommitSteps
    <3>1. \A b \in Asks : doc'[b] = IF b = a THEN NoDoc ELSE doc[b]
      BY <2>1, ForgetTyped
    <3>2. \A b \in Asks : pc'[b] = IF b = a THEN "idle" ELSE pc[b]
      BY <2>1 DEF TypeOK
    <3>3. \A b \in Asks : doc[b] \in Doc <=> pc[b] \in CommitSteps
      BY DEF TypeOK
    <3>4. NoDoc \notin Doc
      BY IngestAssumption
    <3>5. QED
      BY <3>1, <3>2, <3>3, <3>4
  <2>5. QED
    BY <2>1, <2>2, <2>3, <2>4, ForgetTyped DEF TypeOK, memory, bounds
<1>17. ASSUME NEW a \in Asks, ResolutionFails(a) PROVE TypeOK'
  <2>1. pc[a] \in CommitSteps /\ ClaimStart(a) \in CommitSteps
    BY <1>17, ClaimStartIsCommit DEF ResolutionFails
  <2>2. QED
    BY <1>17, <2>1, RaisedTyped DEF ResolutionFails, TypeOK, memory, thread
<1>18. ASSUME NEW a \in Asks, ReconcileFails(a) PROVE TypeOK'
  BY <1>18, RaisedTyped DEF ReconcileFails, Release, Leave, TypeOK, memory, thread
<1>19. ASSUME NEW a \in Asks, QuestionFails(a) PROVE TypeOK'
  <2>1. outcome' \in [Mention -> Person \cup {NoPerson}]
    BY <1>19 DEF QuestionFails, NoDecision, TypeOK
  <2>2. lock' \in Asks \cup {NoAsk}
    BY <1>19 DEF QuestionFails, Leave, TypeOK
  <2>3. Raised(a) /\ Forget(a) /\ pc' = [pc EXCEPT ![a] = "idle"] /\ UNCHANGED memory
    BY <1>19 DEF QuestionFails
  <2>4. pc' \in [Asks -> Open \cup Critical]
    BY <2>3 DEF TypeOK
  <2>5. \A b \in Asks : doc'[b] \in Doc <=> pc'[b] \in CommitSteps
    <3>1. \A b \in Asks : doc'[b] = IF b = a THEN NoDoc ELSE doc[b]
      BY <2>3, ForgetTyped
    <3>2. \A b \in Asks : pc'[b] = IF b = a THEN "idle" ELSE pc[b]
      BY <2>3 DEF TypeOK
    <3>3. \A b \in Asks : doc[b] \in Doc <=> pc[b] \in CommitSteps
      BY DEF TypeOK
    <3>4. QED
      BY <3>1, <3>2, <3>3
  <2>6. QED
    BY <2>1, <2>2, <2>3, <2>4, <2>5, RaisedTyped, ForgetTyped DEF TypeOK, memory
<1>20. CASE Crash
  <2>1. NothingPrepared \in [Doc -> Extraction]
    BY DEF NothingPrepared, NothingExtracted, Extraction
  <2>2. pc' \in [Asks -> Open \cup Critical] /\ doc' \in [Asks -> Doc \cup {NoDoc}]
        /\ \A b \in Asks : doc'[b] \in Doc <=> pc'[b] \in CommitSteps
    BY <1>20 DEF Crash
  <2>3. prepared' \in [Asks -> [Doc -> Extraction]] /\ outcome' \in [Mention -> Person \cup {NoPerson}]
    BY <1>20, <2>1 DEF Crash, NoDecision
  <2>4. Anchored(graph')
    BY <1>20 DEF Crash, TypeOK
  <2>5. crashes' \in 0 .. MaxCrashes
    BY <1>20 DEF Crash, TypeOK
  <2>6. QED
    BY <1>20, <2>2, <2>3, <2>4, <2>5 DEF Crash, TypeOK
<1>21. CASE UNCHANGED vars
  BY <1>21 DEF vars, memory, thread, bounds, TypeOK, Anchored
<1>22. QED
  BY <1>1, <1>2, <1>3, <1>4, <1>5, <1>6, <1>7, <1>8, <1>9, <1>10, <1>11, <1>12, <1>13, <1>14,
     <1>15, <1>16, <1>17, <1>18, <1>19, <1>20, <1>21
  DEF Next, Progress, Commit, Reconcile

(***************************************************************************)
(* Every variable keeps its type, no edge of the graph dangles, and a      *)
(* thread has a document exactly while it commits one.                     *)
(***************************************************************************)
THEOREM TypeCorrect == Spec => []TypeOK
<1>1. Init => TypeOK
  BY TypeInit
<1>2. TypeOK /\ [Next]_vars => TypeOK'
  BY TypeStep
<1>3. QED
  BY <1>1, <1>2, PTL DEF Spec

-----------------------------------------------------------------------------
(* Mutual exclusion. *)

LEMMA ExclusionStep == TypeOK /\ MutualExclusion /\ [Next]_vars => MutualExclusion'
<1> SUFFICES ASSUME TypeOK, MutualExclusion, [Next]_vars PROVE MutualExclusion'
  OBVIOUS
<1>1. pc \in [Asks -> Open \cup Critical] /\ NoAsk \notin Asks
  BY IngestAssumption DEF TypeOK
(* A thread that moves inside, or outside, the critical section keeps the lock as it is. *)
<1>2. ASSUME NEW a \in Asks, NEW s, pc' = [pc EXCEPT ![a] = s], UNCHANGED lock,
             pc[a] \in Critical <=> s \in Critical
      PROVE  MutualExclusion'
  BY <1>1, <1>2 DEF MutualExclusion
(* A thread that leaves the critical section gives the lock back. *)
<1>3. ASSUME NEW a \in Asks, NEW s, pc' = [pc EXCEPT ![a] = s], Leave(a), s \notin Critical
      PROVE  MutualExclusion'
  BY <1>1, <1>3 DEF MutualExclusion, Leave
(* A thread that enters finds nobody inside. *)
<1>4. ASSUME NEW a \in Asks, NEW s, pc' = [pc EXCEPT ![a] = s], LockFree, lock' = a,
             s \in Critical
      PROVE  MutualExclusion'
  BY <1>1, <1>4 DEF MutualExclusion, LockFree
<1> USE DEF Critical, CommitSteps, StructureSteps, IdentitySteps, ClaimSteps, ReconcileSteps
<1>5. ASSUME NEW a \in Asks,
             Ask(a) \/ Prepare(a) \/ NothingToDo(a) \/ NothingWritten(a) \/ Deliver(a)
      PROVE  MutualExclusion'
  BY <1>2, <1>5 DEF Ask, Prepare, NothingToDo, NothingWritten, Deliver
<1>6. ASSUME NEW a \in Asks, Check(a) \/ SkipDocument(a)
      PROVE  MutualExclusion'
  BY <1>6 DEF Check, SkipDocument, MutualExclusion
<1>7. ASSUME NEW a \in Asks, StartCommit(a) \/ StartReconcile(a)
      PROVE  MutualExclusion'
  BY <1>4, <1>7 DEF StartCommit, StartReconcile
<1>8. ASSUME NEW a \in Asks, WriteBatch(a) \/ Observe(a) \/ Decide(a)
      PROVE  MutualExclusion'
  <2>1. pc[a] \in CommitSteps /\ Following(a) \in CommitSteps
    BY <1>8, FollowingIsCommit DEF WriteBatch, Observe, Decide, NodeSteps, EdgeSteps
  <2>2. pc' = [pc EXCEPT ![a] = Following(a)] /\ UNCHANGED lock
    BY <1>8 DEF WriteBatch, Observe, Decide
  <2>3. QED
    BY <1>2, <2>1, <2>2
<1>9. ASSUME NEW a \in Asks, Register(a) \/ RegisterConflicts(a) \/ ReconcileFails(a)
      PROVE  MutualExclusion'
  BY <1>3, <1>9 DEF Register, RegisterConflicts, ReconcileFails, Release
<1>10. ASSUME NEW a \in Asks, Adjudicate(a)
       PROVE  MutualExclusion'
  <2>1. \/ Leave(a) /\ pc' = [pc EXCEPT ![a] = "returned"]
        \/ pc[a] = "adjudicate" /\ UNCHANGED lock /\ pc' = [pc EXCEPT ![a] = "conflicts_with"]
    BY <1>10 DEF Adjudicate, Subjects, Release
  <2>2. QED
    BY <1>2, <1>3, <2>1
<1>11. ASSUME NEW a \in Asks, WriteConflicts(a)
       PROVE  MutualExclusion'
  BY <1>2, <1>11 DEF WriteConflicts
<1>12. ASSUME NEW a \in Asks, ResolutionFails(a)
       PROVE  MutualExclusion'
  BY <1>2, <1>12, ClaimStartIsCommit DEF ResolutionFails
<1>13. ASSUME NEW a \in Asks, QuestionFails(a)
       PROVE  MutualExclusion'
  BY <1>3, <1>13 DEF QuestionFails
<1>14. CASE Crash
  BY <1>1, <1>14 DEF Crash, MutualExclusion
<1>15. CASE UNCHANGED vars
  BY <1>15 DEF vars, MutualExclusion
<1>16. QED
  BY <1>5, <1>6, <1>7, <1>8, <1>9, <1>10, <1>11, <1>12, <1>13, <1>14, <1>15
  DEF Next, Progress, Commit, Reconcile

(***************************************************************************)
(* A thread is inside a commit or a reconciliation exactly when it holds   *)
(* the ingestor's lock, whatever fails on the way and for any number of    *)
(* threads: so no two of them interleave their identity decisions.         *)
(***************************************************************************)
THEOREM Exclusive == Spec => []MutualExclusion
<1>1. Init => MutualExclusion
  BY IngestAssumption
  DEF Init, MutualExclusion, Critical, CommitSteps, StructureSteps, IdentitySteps, ClaimSteps,
      ReconcileSteps
<1>2. TypeOK /\ MutualExclusion /\ [Next]_vars => MutualExclusion'
  BY ExclusionStep
<1>3. QED
  BY <1>1, <1>2, TypeCorrect, PTL DEF Spec

-----------------------------------------------------------------------------
(* The two records of a mention's identity. *)

(* Whoever the graph connects to a document has a vertex: an edge leads to it. *)
LEMMA ConnectedExist ==
    ASSUME TypeOK, NEW d, NEW p \in Connected(graph, d)
    PROVE  Node("Entity", p) \in graph.nodes
<1>1. CASE CoOccurrence(graph, p, d) > 0
  <2>1. PICK m \in Mention : Resolution(m, p) \in graph.edges
    BY <1>1, FS_EmptySet DEF CoOccurrence
  <2>2. Resolution(m, p).dst = Node("Entity", p)
    BY DEF Resolution, Edge
  <2>3. QED
    BY <2>1, <2>2 DEF TypeOK, Anchored
<1>2. CASE Participation(graph, p, d) > 0
  <2>1. Edge("PARTICIPATED_IN", Node("Entity", p), Node("Channel", ChannelOf[d])) \in graph.edges
    BY <1>2 DEF Participation, Joined
  <2>2. Edge("PARTICIPATED_IN", Node("Entity", p), Node("Channel", ChannelOf[d])).src
          = Node("Entity", p)
    BY DEF Edge
  <2>3. QED
    BY <2>1, <2>2 DEF TypeOK, Anchored
<1>3. QED
  BY <1>1, <1>2 DEF Connected

(* The graph tier decides for people who have a vertex. *)
LEMMA DecidedExist ==
    ASSUME TypeOK, NEW a \in Asks, ResolutionOf(a), pc[a] = "decide",
           NEW m \in Ambiguous(doc[a]), GraphTarget(graph, people, m) # NoPerson
    PROVE  Node("Entity", GraphTarget(graph, people, m)) \in graph.nodes
<1>1. CASE CandidatesFor(people, m) = {}
  BY <1>1, ProposalTyped, ConnectedExist DEF GraphTarget
<1>2. CASE CandidatesFor(people, m) # {}
  <2>1. GraphTarget(graph, people, m) \in CandidatesFor(people, m)
    BY <1>2, WinnerTyped DEF GraphTarget
  <2>2. GraphTarget(graph, people, m) \in TouchedPeople(doc[a])
    BY <2>1 DEF TouchedPeople
  <2>3. QED
    BY <2>2 DEF ResolutionOf, EntitiesWritten
<1>3. QED
  BY <1>1, <1>2

Grows == graph.nodes \subseteq graph'.nodes /\ graph.edges \subseteq graph'.edges

(* A graph that only grows, and verdicts that follow their edges, keep the two records together. *)
LEMMA RecordsKept ==
    ASSUME TypeOK, RecordedIdentityHasEdge, NEW a \in Asks, ResolutionOf(a), Grows,
           mention' = mention \/ mention' = MentionAfter(a)
    PROVE  RecordedIdentityHasEdge'
<1>1. SUFFICES ASSUME NEW m \in Mention, mention'[m].status = "resolved"
               PROVE  Resolution(m, mention'[m].entity) \in graph.edges
  BY DEF RecordedIdentityHasEdge, Grows
<1>2. CASE mention'[m] = mention[m]
  BY <1>1, <1>2 DEF RecordedIdentityHasEdge
<1>3. CASE mention'[m] # mention[m]
  <2>1. mention' = MentionAfter(a) /\ mention[m] \in Record
    BY <1>3 DEF TypeOK
  <2>2. DocOf[m] = doc[a] /\ (pc[a] = "mentions" \/ pc[a] = "statuses")
    BY <1>3, <2>1 DEF MentionAfter
  <2>3. pc[a] # "mentions"
    BY <1>1, <2>1, <2>2 DEF MentionAfter, Record
  <2>4. mention'[m] = Verdict(m)
    BY <2>1, <2>2, <2>3 DEF MentionAfter
  <2>5. mention'[m].entity = outcome[m] /\ outcome[m] # NoPerson
    BY <1>1, <2>4 DEF Verdict
  <2>6. m \in Settled(doc[a]) \/ m \in Ambiguous(doc[a])
    BY <2>2 DEF Ambiguous, MentionsIn
  <2>7. QED
    BY <2>2, <2>3, <2>5, <2>6
    DEF ResolutionOf, SettledWritten, DecisionsMade, DecisionsWritten
<1>4. QED
  BY <1>2, <1>3

(* A thread whose own position and document stay, in a graph that only grows. *)
LEMMA ResolutionKept ==
    ASSUME NEW b \in Asks, ResolutionOf(b), Grows, UNCHANGED <<people, outcome>>,
           pc'[b] = pc[b], doc'[b] = doc[b]
    PROVE  ResolutionOf(b)'
<1>1. /\ Settled(doc[b])' = Settled(doc[b]) /\ Ambiguous(doc[b])' = Ambiguous(doc[b])
      /\ TouchedPeople(doc[b])' = TouchedPeople(doc[b])
  BY DEF Settled, Ambiguous, TouchedPeople
<1>2. QED
  BY <1>1 DEF ResolutionOf, Grows

(* A thread outside the stages that promise anything. *)
LEMMA NothingPromised ==
    ASSUME NEW b \in Asks, pc[b] \notin MentionsWritten
    PROVE  ResolutionOf(b)
BY DEF ResolutionOf, MentionsWritten, EntitiesWritten, SettledWritten, DecisionsMade,
       DecisionsWritten, IdentitySteps

LEMMA NothingPromisedNext ==
    ASSUME NEW b \in Asks, pc'[b] \notin MentionsWritten
    PROVE  ResolutionOf(b)'
BY DEF ResolutionOf, MentionsWritten, EntitiesWritten, SettledWritten, DecisionsMade,
       DecisionsWritten, IdentitySteps

LEMMA PromisesAreCritical == MentionsWritten \subseteq Critical
BY DEF MentionsWritten, Critical, CommitSteps, StructureSteps, IdentitySteps, ClaimSteps

(* Only the holder of the lock changes what the resolver knows or has decided. *)
LEMMA OthersKept ==
    ASSUME TypeOK, MutualExclusion, ResolutionInProgress, NEW a \in Asks, Grows,
           \A b \in Asks \ {a} : pc'[b] = pc[b] /\ doc'[b] = doc[b],
           UNCHANGED <<people, outcome>> \/ pc[a] \in Critical
    PROVE  \A b \in Asks \ {a} : ResolutionOf(b)'
<1>1. SUFFICES ASSUME NEW b \in Asks \ {a} PROVE ResolutionOf(b)'
  OBVIOUS
<1>2. CASE pc[a] \in Critical
  <2>1. pc[b] \notin Critical
    BY <1>2, IngestAssumption DEF MutualExclusion
  <2>2. QED
    BY <2>1, PromisesAreCritical, NothingPromisedNext
<1>3. CASE UNCHANGED <<people, outcome>>
  BY <1>3, ResolutionKept DEF ResolutionInProgress
<1>4. QED
  BY <1>2, <1>3

(* A batch leaves the graph with everything it had. *)
LEMMA BatchGrows ==
    ASSUME TypeOK, NEW a \in Asks, graph' = graph \/ graph' = GraphAfter(a)
    PROVE  Grows
BY GraphAfterGrows DEF Grows

(* What each batch of a commit adds to what its thread has established. *)
LEMMA BatchPromises ==
    ASSUME TypeOK, NEW a \in Asks, ResolutionOf(a), WriteBatch(a)
    PROVE  ResolutionOf(a)'
<1>1. /\ pc \in [Asks -> Open \cup Critical]
      /\ pc' = [pc EXCEPT ![a] = Following(a)] /\ graph' = GraphAfter(a)
      /\ UNCHANGED <<people, outcome, doc>>
  BY DEF WriteBatch, TypeOK, memory, thread
<1>2. pc'[a] = Following(a) /\ doc'[a] = doc[a] /\ people' = people /\ outcome' = outcome
  BY <1>1
<1>3. Grows
  BY <1>1, BatchGrows
<1>4. /\ graph'.nodes = graph.nodes \cup NodeRows(a)
      /\ graph'.edges = graph.edges \cup
            {e \in EdgeRows(a) : {e.src, e.dst} \subseteq graph.nodes \cup NodeRows(a)}
  BY <1>1, GraphAfterGrows
<1>5. /\ Settled(doc[a])' = Settled(doc[a]) /\ Ambiguous(doc[a])' = Ambiguous(doc[a])
      /\ TouchedPeople(doc[a])' = TouchedPeople(doc[a])
  BY <1>2 DEF Settled, Ambiguous, TouchedPeople
<1>6. CASE pc[a] = "document"
  <2>1. Following(a) = StructureStart(a)
    BY <1>6 DEF Following, Order, ClaimSteps
  <2>2. \/ MentionsIn(doc[a]) = {} /\ Following(a) = "tickets"
        \/ Following(a) \notin MentionsWritten
    BY <2>1
    DEF StructureStart, TicketStart, IdentityStart, ClaimStart, MentionsWritten, IdentitySteps
  <2>3. QED
    BY <1>2, <2>2, NothingPromisedNext
    DEF ResolutionOf, EntitiesWritten, SettledWritten, DecisionsMade, DecisionsWritten
<1>7. CASE pc[a] = "mentions"
  <2>1. Following(a) = "mentioned_in"
    BY <1>7 DEF Following, Order, ClaimSteps
  <2>2. \A m \in MentionsIn(doc[a]) : Node("Mention", m) \in NodeRows(a)
    BY <1>7 DEF NodeRows, At
  <2>3. QED
    BY <1>2, <1>4, <2>1, <2>2
    DEF ResolutionOf, EntitiesWritten, SettledWritten, DecisionsMade, DecisionsWritten
<1>8. CASE pc[a] \in {"mentioned_in", "tickets", "references"}
  <2>1. \/ Following(a) \in {"tickets", "references", "observe"}
        \/ Following(a) \notin MentionsWritten
    BY <1>8
    DEF Following, Order, ClaimSteps, TicketStart, IdentityStart, ClaimStart, MentionsWritten,
        IdentitySteps
  <2>2. \A m \in MentionsIn(doc[a]) : Node("Mention", m) \in graph.nodes
    BY <1>8 DEF ResolutionOf, MentionsWritten
  <2>3. QED
    BY <1>2, <1>3, <2>1, <2>2, NothingPromisedNext
    DEF ResolutionOf, Grows, EntitiesWritten, SettledWritten, DecisionsMade, DecisionsWritten
<1>9. CASE pc[a] = "entities"
  <2>1. Following(a) = "channel"
    BY <1>9 DEF Following, Order, ClaimSteps
  <2>2. \A m \in MentionsIn(doc[a]) : Node("Mention", m) \in graph.nodes
    BY <1>9 DEF ResolutionOf, MentionsWritten, IdentitySteps
  <2>3. \A p \in TouchedPeople(doc[a]) : Node("Entity", p) \in NodeRows(a)
    BY <1>9 DEF NodeRows, At
  <2>4. QED
    BY <1>2, <1>3, <1>4, <1>5, <2>1, <2>2, <2>3
    DEF ResolutionOf, Grows, SettledWritten, DecisionsMade, DecisionsWritten
<1>10. CASE pc[a] = "resolves"
  <2>1. Following(a) = "participated_in"
    BY <1>10 DEF Following, Order, ClaimSteps
  <2>2. /\ \A m \in MentionsIn(doc[a]) : Node("Mention", m) \in graph.nodes
        /\ \A p \in TouchedPeople(doc[a]) : Node("Entity", p) \in graph.nodes
    BY <1>10 DEF ResolutionOf, MentionsWritten, EntitiesWritten, IdentitySteps
  <2>3. ASSUME NEW m \in Settled(doc[a])
        PROVE  Resolution(m, LexicalTarget(people, m)) \in graph'.edges
    <3>1. Resolution(m, LexicalTarget(people, m)) \in EdgeRows(a)
      BY <1>10 DEF EdgeRows, At
    <3>2. m \in MentionsIn(doc[a]) /\ LexicalTarget(people, m) \in TouchedPeople(doc[a])
      BY DEF Settled, TouchedPeople
    <3>3. QED
      BY <1>4, <2>2, <3>1, <3>2 DEF Resolution, Edge
  <2>4. QED
    BY <1>2, <1>3, <1>5, <2>1, <2>2, <2>3
    DEF ResolutionOf, Grows, DecisionsMade, DecisionsWritten
<1>11. CASE pc[a] = "graph_resolves"
  <2>1. Following(a) = "candidate_for"
    BY <1>11 DEF Following, Order, ClaimSteps
  <2>2. ASSUME NEW m \in Ambiguous(doc[a]), outcome[m] # NoPerson
        PROVE  Resolution(m, outcome[m]) \in graph'.edges
    <3>1. Resolution(m, outcome[m]) \in EdgeRows(a)
      BY <1>11, <2>2 DEF EdgeRows, At
    <3>2. Node("Mention", m) \in graph.nodes /\ Node("Entity", outcome[m]) \in graph.nodes
      BY <1>11, <2>2
      DEF ResolutionOf, MentionsWritten, IdentitySteps, DecisionsMade, Ambiguous
    <3>3. QED
      BY <1>4, <3>1, <3>2 DEF Resolution, Edge
  <2>3. QED
    BY <1>2, <1>3, <1>5, <1>11, <2>1, <2>2
    DEF ResolutionOf, Grows, MentionsWritten, EntitiesWritten, SettledWritten, DecisionsMade,
        IdentitySteps
<1>12. CASE pc[a] \in {"channel", "participated_in", "candidate_for"}
  <2>1. /\ pc[a] = "channel" => Following(a) = "resolves"
        /\ pc[a] = "participated_in" => Following(a) = "decide"
        /\ pc[a] = "candidate_for" => Following(a) = "statuses"
    BY <1>12 DEF Following, Order, ClaimSteps
  <2>2. QED
    BY <1>2, <1>3, <1>5, <1>12, <2>1
    DEF ResolutionOf, Grows, MentionsWritten, EntitiesWritten, SettledWritten, DecisionsMade,
        DecisionsWritten, IdentitySteps
<1>13. CASE pc[a] \in {"statuses", "claims", "spans", "asserts", "supported_by"}
  <2>1. Following(a) \notin MentionsWritten
    BY <1>13
    DEF Following, Order, ClaimOrder, ClaimSteps, ClaimStart, MentionsWritten, IdentitySteps
  <2>2. QED
    BY <1>2, <2>1, NothingPromisedNext
<1>14. QED
  BY <1>6, <1>7, <1>8, <1>9, <1>10, <1>11, <1>12, <1>13 DEF WriteBatch, NodeSteps, EdgeSteps

IdentityInv ==
    TypeOK /\ MutualExclusion /\ ResolutionInProgress /\ RecordedIdentityHasEdge

LEMMA IdentityStep ==
    ASSUME IdentityInv, [Next]_vars
    PROVE  ResolutionInProgress' /\ RecordedIdentityHasEdge'
<1> USE DEF IdentityInv
(* Steps that leave the graph, the mentions and every commit in progress alone. *)
<1>1. ASSUME NEW a \in Asks, Grows,
             \A b \in Asks \ {a} : pc'[b] = pc[b] /\ doc'[b] = doc[b],
             UNCHANGED <<people, outcome>> \/ pc[a] \in Critical,
             mention' = mention \/ mention' = MentionAfter(a), ResolutionOf(a)'
      PROVE  ResolutionInProgress' /\ RecordedIdentityHasEdge'
  BY <1>1, OthersKept, RecordsKept DEF ResolutionInProgress
<1>2. ASSUME NEW a \in Asks, Grows,
             \A b \in Asks \ {a} : pc'[b] = pc[b] /\ doc'[b] = doc[b],
             UNCHANGED <<people, outcome>> \/ pc[a] \in Critical,
             mention' = mention \/ mention' = MentionAfter(a), pc'[a] \notin MentionsWritten
      PROVE  ResolutionInProgress' /\ RecordedIdentityHasEdge'
  BY <1>1, <1>2, NothingPromisedNext
<1>3. /\ pc \in [Asks -> Open \cup Critical] /\ doc \in [Asks -> Doc \cup {NoDoc}]
      /\ \A a \in Asks : ResolutionOf(a)
  BY DEF TypeOK, ResolutionInProgress
<1>4. \A s \in {"idle", "check", "commit", "returned", "document", "adjudicate",
                 "conflicts_with", "register_conflicts"} : s \notin MentionsWritten
  BY DEF MentionsWritten, IdentitySteps
<1>5. graph' = graph => Grows
  BY DEF Grows
<1>6. ASSUME NEW a \in Asks,
             Ask(a) \/ Prepare(a) \/ NothingToDo(a) \/ StartCommit(a) \/ NothingWritten(a)
               \/ StartReconcile(a) \/ Deliver(a)
      PROVE  ResolutionInProgress' /\ RecordedIdentityHasEdge'
  BY <1>2, <1>3, <1>4, <1>5, <1>6
  DEF Ask, Prepare, NothingToDo, StartCommit, NothingWritten, StartReconcile, Deliver, Forget,
      memory, thread
<1>7. ASSUME NEW a \in Asks, Check(a) \/ SkipDocument(a)
      PROVE  ResolutionInProgress' /\ RecordedIdentityHasEdge'
  <2>1. pc' = pc /\ doc' = doc /\ graph' = graph /\ mention' = mention
        /\ UNCHANGED <<people, outcome>>
    BY <1>7 DEF Check, SkipDocument, memory
  <2>2. ResolutionOf(a)'
    BY <1>3, <1>5, <2>1, ResolutionKept
  <2>3. QED
    BY <1>1, <1>5, <2>1, <2>2
<1>8. ASSUME NEW a \in Asks, WriteBatch(a)
      PROVE  ResolutionInProgress' /\ RecordedIdentityHasEdge'
  <2>1. /\ pc' = [pc EXCEPT ![a] = Following(a)] /\ graph' = GraphAfter(a)
        /\ mention' = MentionAfter(a) /\ UNCHANGED <<people, outcome, doc>>
    BY <1>8 DEF WriteBatch, memory, thread
  <2>2. QED
    BY <1>1, <1>3, <1>8, <2>1, BatchPromises, BatchGrows
<1>9. ASSUME NEW a \in Asks, Observe(a)
      PROVE  ResolutionInProgress' /\ RecordedIdentityHasEdge'
  <2>1. /\ pc[a] = "observe" /\ pc' = [pc EXCEPT ![a] = "entities"]
        /\ UNCHANGED <<graph, mention, doc>>
    BY <1>9 DEF Observe, Following, Order, ClaimSteps, thread
  <2>2. pc[a] \in Critical
    BY <2>1 DEF Critical, CommitSteps, IdentitySteps
  <2>3. \A m \in MentionsIn(doc[a]) : Node("Mention", m) \in graph.nodes
    BY <1>3, <2>1 DEF ResolutionOf, MentionsWritten, IdentitySteps
  <2>4. ResolutionOf(a)'
    BY <1>3, <2>1, <2>3
    DEF ResolutionOf, EntitiesWritten, SettledWritten, DecisionsMade, DecisionsWritten
  <2>5. QED
    BY <1>1, <1>3, <1>5, <2>1, <2>2, <2>4
<1>10. ASSUME NEW a \in Asks, Decide(a)
       PROVE  ResolutionInProgress' /\ RecordedIdentityHasEdge'
  <2>1. /\ pc[a] = "decide" /\ pc' = [pc EXCEPT ![a] = "graph_resolves"]
        /\ UNCHANGED <<graph, mention, doc, people>>
    BY <1>10 DEF Decide, Following, Order, ClaimSteps, thread, memory
  <2>2. /\ Settled(doc[a])' = Settled(doc[a]) /\ Ambiguous(doc[a])' = Ambiguous(doc[a])
        /\ TouchedPeople(doc[a])' = TouchedPeople(doc[a])
    BY <2>1 DEF Settled, Ambiguous, TouchedPeople
  <2>3. \A m \in Settled(doc[a]) : outcome'[m] = LexicalTarget(people, m)
    BY <1>10 DEF Decide, Settled, MentionsIn
  <2>4. \A m \in Ambiguous(doc[a]) : outcome'[m] = GraphTarget(graph, people, m)
    BY <1>10 DEF Decide, Settled, Ambiguous, MentionsIn
  <2>5. \A m \in Ambiguous(doc[a]) :
           outcome'[m] # NoPerson => Node("Entity", outcome'[m]) \in graph.nodes
    BY <1>3, <2>1, <2>4, DecidedExist
  <2>6. ResolutionOf(a)'
    BY <1>3, <2>1, <2>2, <2>3, <2>5
    DEF ResolutionOf, MentionsWritten, EntitiesWritten, SettledWritten, DecisionsWritten,
        IdentitySteps
  <2>7. pc[a] \in Critical
    BY <2>1 DEF Critical, CommitSteps, IdentitySteps
  <2>8. QED
    BY <1>1, <1>3, <1>5, <2>1, <2>6, <2>7
<1>11. ASSUME NEW a \in Asks, Register(a)
       PROVE  ResolutionInProgress' /\ RecordedIdentityHasEdge'
  <2>1. pc[a] \in Critical
    BY <1>11 DEF Register, Critical, CommitSteps, ClaimSteps
  <2>2. QED
    BY <1>2, <1>3, <1>4, <1>5, <1>11, <2>1 DEF Register
<1>12. ASSUME NEW a \in Asks, Adjudicate(a) \/ RegisterConflicts(a)
       PROVE  ResolutionInProgress' /\ RecordedIdentityHasEdge'
  BY <1>2, <1>3, <1>4, <1>5, <1>12
  DEF Adjudicate, Subjects, RegisterConflicts, Release, memory, thread
<1>13. ASSUME NEW a \in Asks, WriteConflicts(a)
       PROVE  ResolutionInProgress' /\ RecordedIdentityHasEdge'
  BY <1>2, <1>3, <1>4, <1>13, BatchGrows DEF WriteConflicts, memory, thread
<1>14. ASSUME NEW a \in Asks, ResolutionFails(a) \/ ReconcileFails(a)
       PROVE  ResolutionInProgress' /\ RecordedIdentityHasEdge'
  <2>1. Grows /\ (mention' = mention \/ mention' = MentionAfter(a))
    BY <1>14, BatchGrows DEF ResolutionFails, ReconcileFails, Raised
  <2>2. ClaimStart(a) \notin MentionsWritten
    BY DEF ClaimStart, MentionsWritten, IdentitySteps
  <2>3. QED
    BY <1>2, <1>3, <1>4, <1>14, <2>1, <2>2
    DEF ResolutionFails, ReconcileFails, Release, memory, thread
<1>15. ASSUME NEW a \in Asks, QuestionFails(a)
       PROVE  ResolutionInProgress' /\ RecordedIdentityHasEdge'
  <2>1. Grows /\ (mention' = mention \/ mention' = MentionAfter(a))
    BY <1>15, BatchGrows DEF QuestionFails, Raised
  <2>2. /\ pc' = [pc EXCEPT ![a] = "idle"] /\ doc' = [doc EXCEPT ![a] = NoDoc]
        /\ people' = people
    BY <1>15 DEF QuestionFails, Forget, memory
  <2>3. outcome' = outcome \/ pc[a] \in Critical
    BY <1>15 DEF QuestionFails, MutualExclusion
  <2>4. QED
    BY <1>2, <1>3, <1>4, <2>1, <2>2, <2>3
<1>16. CASE Crash
  <2>1. RecordedIdentityHasEdge'
    BY <1>16 DEF Crash, RecordedIdentityHasEdge
  <2>2. \A a \in Asks : pc'[a] \notin MentionsWritten
    BY <1>4, <1>16 DEF Crash
  <2>3. QED
    BY <2>1, <2>2, NothingPromisedNext DEF ResolutionInProgress
<1>17. CASE UNCHANGED vars
  <2>1. /\ UNCHANGED <<graph, mention, people, outcome, pc, doc>>
    BY <1>17 DEF vars, memory, thread
  <2>2. RecordedIdentityHasEdge'
    BY <2>1 DEF RecordedIdentityHasEdge
  <2>3. QED
    BY <1>3, <1>5, <2>1, <2>2, ResolutionKept DEF ResolutionInProgress
<1>18. QED
  BY <1>6, <1>7, <1>8, <1>9, <1>10, <1>11, <1>12, <1>13, <1>14, <1>15, <1>16, <1>17
  DEF Next, Progress, Commit, Reconcile

LEMMA IdentityAlways == Spec => [](ResolutionInProgress /\ RecordedIdentityHasEdge)
<1>1. Init => ResolutionInProgress /\ RecordedIdentityHasEdge
  <2>1. SUFFICES ASSUME Init PROVE ResolutionInProgress /\ RecordedIdentityHasEdge
    OBVIOUS
  <2>2. \A a \in Asks : pc[a] \notin MentionsWritten
    BY <2>1 DEF Init, MentionsWritten, IdentitySteps
  <2>3. RecordedIdentityHasEdge
    BY <2>1 DEF Init, RecordedIdentityHasEdge
  <2>4. QED
    BY <2>2, <2>3, NothingPromised DEF ResolutionInProgress
<1>2. /\ TypeOK /\ MutualExclusion /\ ResolutionInProgress /\ RecordedIdentityHasEdge
      /\ [Next]_vars
      => (ResolutionInProgress /\ RecordedIdentityHasEdge)'
  BY IdentityStep DEF IdentityInv
<1>3. QED
  BY <1>1, <1>2, TypeCorrect, Exclusive, PTL DEF Spec

(***************************************************************************)
(* A commit keeps what its next batches rely on, at every step and for any *)
(* number of threads: the mention and entity vertices before their edges,  *)
(* people the graph holds for every decision, and the edge of a decision   *)
(* before its record; no question that reads or extracts meanwhile and no  *)
(* failure takes any of it away.                                           *)
(***************************************************************************)
THEOREM PromisesKept == Spec => []ResolutionInProgress
BY IdentityAlways, PTL

(***************************************************************************)
(* A mention recorded as resolved has the RESOLVES_TO edge to the identity *)
(* it records, whichever batch failed and wherever the process died, for   *)
(* every corpus and any number of threads and failures.                    *)
(***************************************************************************)
THEOREM RecordsHaveEdges == Spec => []RecordedIdentityHasEdge
BY IdentityAlways, PTL

-----------------------------------------------------------------------------
(* What a CONFLICTS_WITH edge joins. *)

(* The rows a reconciliation has computed, and the edges it has written, join rivals. *)
DisputesInProgress ==
    /\ \A a \in Asks : \A e \in disputes[a] : JoinsRivals(graph, e)
    /\ DisputesJoinRivals

(* A readable claim stays readable, so rivals stay rivals. *)
LEMMA RivalsStay ==
    ASSUME Grows, NEW e, JoinsRivals(graph, e)
    PROVE  JoinsRivals(graph', e)
<1>1. Visible(graph) \subseteq Visible(graph')
  BY DEF Visible, Grows
<1>2. QED
  BY <1>1 DEF JoinsRivals

(* conflict_edge_rows pairs readable claims about one fact with different values. *)
LEMMA RowsJoinRivals ==
    ASSUME NEW identity, NEW facts, NEW e \in ConflictRows(Visible(graph), identity, facts)
    PROVE  JoinsRivals(graph, e)
<1>1. PICK x \in Visible(graph), y \in Visible(graph) :
         e = Dispute(x, y) /\ x < y /\ Disagree(identity, x, y)
  BY DEF ConflictRows
<1>2. Object[x] # Object[y] /\ Predicate[x] = Predicate[y]
  BY <1>1 DEF Disagree, Fact
<1>3. QED
  BY <1>1, <1>2 DEF JoinsRivals

(* Only the step that writes conflict edges writes edges of that type. *)
LEMMA OnlyDisputes ==
    ASSUME NEW a \in Asks, NEW e \in EdgeRows(a), e.type = "CONFLICTS_WITH"
    PROVE  e \in disputes[a]
BY DEF EdgeRows, At, Edge, Resolution, Assertion, Support

(* A step that writes at most one batch and computes no new rows. *)
LEMMA DisputesKept ==
    ASSUME TypeOK, DisputesInProgress, NEW a \in Asks,
           graph' = graph \/ graph' = GraphAfter(a),
           \A b \in Asks : disputes'[b] \subseteq disputes[b]
    PROVE  DisputesInProgress'
<1>1. Grows
  BY BatchGrows
<1>2. \A b \in Asks : \A e \in disputes'[b] : JoinsRivals(graph', e)
  BY <1>1, RivalsStay DEF DisputesInProgress
<1>3. ASSUME NEW e \in graph'.edges, e.type = "CONFLICTS_WITH"
      PROVE  JoinsRivals(graph', e)
  <2>1. e \in graph.edges \/ e \in EdgeRows(a)
    BY <1>3, GraphAfterGrows
  <2>2. JoinsRivals(graph, e)
    BY <1>3, <2>1, OnlyDisputes DEF DisputesInProgress, DisputesJoinRivals, Persisted
  <2>3. QED
    BY <1>1, <2>2, RivalsStay
<1>4. QED
  BY <1>2, <1>3 DEF DisputesInProgress, DisputesJoinRivals, Persisted

LEMMA DisputesStep == TypeOK /\ DisputesInProgress /\ [Next]_vars => DisputesInProgress'
<1> SUFFICES ASSUME TypeOK, DisputesInProgress, [Next]_vars PROVE DisputesInProgress'
  OBVIOUS
<1>1. disputes \in [Asks -> SUBSET AnyEdge]
  BY DEF TypeOK
<1>2. ASSUME NEW a \in Asks,
             \/ Ask(a) \/ Check(a) \/ Prepare(a) \/ NothingToDo(a) \/ StartCommit(a)
             \/ SkipDocument(a) \/ WriteBatch(a) \/ Observe(a) \/ Decide(a) \/ Register(a)
             \/ NothingWritten(a) \/ StartReconcile(a) \/ WriteConflicts(a)
             \/ RegisterConflicts(a) \/ ResolutionFails(a) \/ ReconcileFails(a)
      PROVE  DisputesInProgress'
  <2>1. (graph' = graph \/ graph' = GraphAfter(a)) /\ disputes' = disputes
    BY <1>2
    DEF Ask, Check, Prepare, NothingToDo, StartCommit, SkipDocument, WriteBatch, Observe, Decide,
        Register, NothingWritten, StartReconcile, WriteConflicts, RegisterConflicts,
        ResolutionFails, ReconcileFails, Raised, thread
  <2>2. QED
    BY <2>1, DisputesKept
<1>3. ASSUME NEW a \in Asks, Deliver(a) \/ QuestionFails(a)
      PROVE  DisputesInProgress'
  <2>1. (graph' = graph \/ graph' = GraphAfter(a)) /\ disputes' = [disputes EXCEPT ![a] = {}]
    BY <1>3 DEF Deliver, QuestionFails, Raised, Forget
  <2>2. QED
    BY <1>1, <2>1, DisputesKept
<1>4. ASSUME NEW a \in Asks, Adjudicate(a)
      PROVE  DisputesInProgress'
  <2>1. PICK facts :
           /\ disputes' = [disputes EXCEPT ![a] =
                              ConflictRows(Visible(graph), IdentityOf(mention), facts)]
           /\ UNCHANGED graph
    BY <1>4 DEF Adjudicate, Subjects
  <2>2. \A b \in Asks : \A e \in disputes'[b] : JoinsRivals(graph, e)
    BY <1>1, <2>1, RowsJoinRivals DEF DisputesInProgress
  <2>3. QED
    BY <2>1, <2>2 DEF DisputesInProgress, DisputesJoinRivals, Persisted
<1>5. CASE Crash
  BY <1>5 DEF Crash, DisputesInProgress, DisputesJoinRivals, Persisted
<1>6. CASE UNCHANGED vars
  BY <1>6 DEF vars, thread, DisputesInProgress, DisputesJoinRivals, Persisted
<1>7. QED
  BY <1>2, <1>3, <1>4, <1>5, <1>6 DEF Next, Progress, Commit, Reconcile

(***************************************************************************)
(* A CONFLICTS_WITH edge always joins two readable claims with the same    *)
(* predicate and different values, for every set of claims: a failed or    *)
(* repeated reconciliation never records a dispute that nobody has.        *)
(***************************************************************************)
THEOREM DisputesAreReal == Spec => []DisputesJoinRivals
<1>1. Init => DisputesInProgress
  BY DEF Init, EmptyGraph, DisputesInProgress, DisputesJoinRivals, Persisted
<1>2. TypeOK /\ DisputesInProgress /\ [Next]_vars => DisputesInProgress'
  BY DisputesStep
<1>3. DisputesInProgress => DisputesJoinRivals
  BY DEF DisputesInProgress
<1>4. QED
  BY <1>1, <1>2, <1>3, TypeCorrect, PTL DEF Spec

-----------------------------------------------------------------------------
(* What a commit without failures leaves behind. *)

(* Once something has failed, or the process has died, it has. *)
LEMMA CleanBefore ==
    ASSUME TypeOK, [Next]_vars, Clean'
    PROVE  /\ Clean /\ ~ Crash
           /\ \A a \in Asks : ~ ResolutionFails(a) /\ ~ ReconcileFails(a) /\ ~ QuestionFails(a)
<1>1. faults \in Nat /\ crashes \in Nat /\ faults' = 0 /\ crashes' = 0
  BY IngestAssumption DEF TypeOK, Clean
<1>2. \A a \in Asks : ~ Raised(a)
  BY <1>1 DEF Raised
<1>3. ~ Crash
  BY <1>1 DEF Crash
<1>4. \A a \in Asks : ~ ResolutionFails(a) /\ ~ ReconcileFails(a) /\ ~ QuestionFails(a)
  BY <1>2 DEF ResolutionFails, ReconcileFails, QuestionFails
<1>5. UNCHANGED <<faults, crashes>>
  BY <1>3, <1>4
  DEF Next, Progress, Commit, Reconcile, Ask, Check, Prepare, NothingToDo, StartCommit,
      SkipDocument, WriteBatch, Observe, Decide, Register, NothingWritten, StartReconcile,
      Adjudicate, WriteConflicts, RegisterConflicts, Deliver, bounds, vars
<1>6. QED
  BY <1>1, <1>3, <1>4, <1>5 DEF Clean

(* Who will decide a pending mention: the thread that commits its document. *)
Decides(a, m) == doc[a] = DocOf[m] /\ pc[a] \in MentionsWritten

PendingInv ==
    Clean => \A m \in Mention : mention[m].status = "pending" => \E a \in Asks : Decides(a, m)

(* A step after which the mentions are the same and whoever decides one goes on. *)
LEMMA PendingFrame ==
    ASSUME PendingInv, Clean, mention' = mention,
           \A a \in Asks : pc[a] \in MentionsWritten => pc'[a] \in MentionsWritten /\ doc'[a] = doc[a]
    PROVE  PendingInv'
BY DEF PendingInv, Decides

(* A batch: mentions are pending from theirs to that of the statuses. *)
LEMMA PendingBatch ==
    ASSUME TypeOK, PendingInv, Clean, NEW a \in Asks, WriteBatch(a)
    PROVE  PendingInv'
<1>1. /\ pc' = [pc EXCEPT ![a] = Following(a)] /\ mention' = MentionAfter(a) /\ doc' = doc
      /\ DOMAIN pc = Asks
  BY DEF WriteBatch, thread, TypeOK
<1> SUFFICES ASSUME NEW m \in Mention, mention'[m].status = "pending"
             PROVE  \E b \in Asks : Decides(b, m)'
  BY DEF PendingInv
<1>2. CASE pc[a] = "mentions" /\ DocOf[m] = doc[a]
  <2>1. pc'[a] = "mentioned_in"
    BY <1>1, <1>2 DEF Following, Order, ClaimSteps
  <2>2. QED
    BY <1>1, <1>2, <2>1 DEF Decides, MentionsWritten
<1>3. CASE ~ (pc[a] = "mentions" /\ DocOf[m] = doc[a])
  <2>1. ~ (pc[a] = "statuses" /\ DocOf[m] = doc[a])
    BY <1>1, <1>3 DEF MentionAfter, Verdict
  <2>2. mention[m].status = "pending"
    BY <1>1, <1>3, <2>1 DEF MentionAfter
  <2>3. PICK b \in Asks : Decides(b, m)
    BY <2>2 DEF PendingInv
  <2>4. CASE b # a
    BY <1>1, <2>3, <2>4 DEF Decides
  <2>5. CASE b = a
    <3>1. MentionsIn(doc[a]) # {}
      BY <2>3, <2>5 DEF Decides, MentionsIn
    <3>2. Following(a) \in MentionsWritten
      BY <2>1, <2>3, <2>5, <3>1
      DEF Decides, MentionsWritten, IdentitySteps, Following, Order, ClaimSteps, TicketStart,
          IdentityStart
    <3>3. QED
      BY <1>1, <2>3, <2>5, <3>2 DEF Decides
  <2>6. QED
    BY <2>4, <2>5
<1>4. QED
  BY <1>2, <1>3

LEMMA PendingStep == TypeOK /\ PendingInv /\ [Next]_vars => PendingInv'
<1> SUFFICES ASSUME TypeOK, PendingInv, [Next]_vars, Clean' PROVE PendingInv'
  BY DEF PendingInv
<1>1. Clean
  BY CleanBefore
<1>2. \A s \in {"idle", "check", "commit", "returned", "register", "adjudicate",
                 "conflicts_with", "register_conflicts"} : s \notin MentionsWritten
  BY DEF MentionsWritten, IdentitySteps
<1>3. DOMAIN pc = Asks /\ DOMAIN doc = Asks
  BY DEF TypeOK
<1>4. ASSUME NEW a \in Asks,
             \/ Ask(a) \/ Check(a) \/ Prepare(a) \/ NothingToDo(a) \/ StartCommit(a)
             \/ SkipDocument(a) \/ Register(a) \/ NothingWritten(a) \/ StartReconcile(a)
             \/ Adjudicate(a) \/ WriteConflicts(a) \/ RegisterConflicts(a) \/ Deliver(a)
      PROVE  PendingInv'
  <2>1. mention' = mention
    BY <1>4
    DEF Ask, Check, Prepare, NothingToDo, StartCommit, SkipDocument, Register, NothingWritten,
        StartReconcile, Adjudicate, WriteConflicts, RegisterConflicts, Deliver
  <2>2. \/ pc' = pc /\ doc' = doc
        \/ pc[a] \notin MentionsWritten
           /\ \A b \in Asks \ {a} : pc'[b] = pc[b] /\ doc'[b] = doc[b]
    BY <1>2, <1>3, <1>4
    DEF Ask, Check, Prepare, NothingToDo, StartCommit, SkipDocument, Register, NothingWritten,
        StartReconcile, Adjudicate, WriteConflicts, RegisterConflicts, Deliver, Release, Forget,
        thread
  <2>3. QED
    BY <1>1, <2>1, <2>2, PendingFrame
<1>5. ASSUME NEW a \in Asks, Observe(a) \/ Decide(a)
      PROVE  PendingInv'
  <2>1. mention' = mention /\ doc' = doc /\ pc' = [pc EXCEPT ![a] = Following(a)]
        /\ pc[a] \in {"observe", "decide"}
    BY <1>5 DEF Observe, Decide, thread
  <2>2. Following(a) \in MentionsWritten
    BY <2>1 DEF Following, Order, ClaimSteps, MentionsWritten, IdentitySteps
  <2>3. QED
    BY <1>1, <1>3, <2>1, <2>2, PendingFrame
<1>6. ASSUME NEW a \in Asks, WriteBatch(a)
      PROVE  PendingInv'
  BY <1>1, <1>6, PendingBatch
<1>7. CASE UNCHANGED vars
  BY <1>7 DEF vars, thread, bounds, PendingInv, Clean, Decides
<1>8. QED
  BY <1>4, <1>5, <1>6, <1>7, CleanBefore DEF Next, Progress, Commit, Reconcile

LEMMA PendingAlways == Spec => []PendingInv
<1>1. Init => PendingInv
  BY DEF Init, PendingInv
<1>2. TypeOK /\ PendingInv /\ [Next]_vars => PendingInv'
  BY PendingStep
<1>3. QED
  BY <1>1, <1>2, TypeCorrect, PTL DEF Spec

(***************************************************************************)
(* When nothing has failed and nobody is inside a commit, no mention is    *)
(* pending: every document whose mentions were written has them decided,   *)
(* for every corpus and any number of threads.                             *)
(***************************************************************************)
THEOREM NothingPending == Spec => []NothingLeftPending
<1>1. MutualExclusion /\ PendingInv => NothingLeftPending
  BY PromisesAreCritical, IngestAssumption
  DEF MutualExclusion, PendingInv, NothingLeftPending, Decides
<1>2. QED
  BY <1>1, PendingAlways, Exclusive, PTL

-----------------------------------------------------------------------------
(* How far a commit has come with the evidence of its document. *)

ClaimsOf(a) == prepared[a][doc[a]].claims

EvidenceOf(a) ==
    /\ pc[a] \in CommitSteps \ {"document"} => Node("Document", doc[a]) \in graph.nodes
    /\ pc[a] \in {"spans", "asserts", "supported_by", "register"} =>
          \A c \in ClaimsOf(a) : ClaimNode(c) \in graph.nodes
    /\ pc[a] \in {"asserts", "supported_by", "register"} =>
          \A c \in ClaimsOf(a) : Node("EvidenceSpan", SpanOf[c]) \in graph.nodes
    /\ pc[a] \in {"supported_by", "register"} =>
          \A c \in ClaimsOf(a) : Assertion(c) \in graph.edges
    /\ pc[a] = "register" => ClaimsOf(a) \subseteq Visible(graph)

(* Extraction gives a document claims of its own. *)
OwnClaims == \A a \in Asks : \A d \in Doc : \A c \in prepared[a][d].claims : ClaimDoc[c] = d

(* A claim vertex is readable, or its thread is about to make it so. *)
Completes(a, c) == pc[a] \in {"spans", "asserts", "supported_by"} /\ c \in ClaimsOf(a)

CompleteInv ==
    \A c \in Claim : ClaimNode(c) \in graph.nodes =>
        c \in Visible(graph) \/ \E a \in Asks : Completes(a, c)

EvidenceInv ==
    /\ OwnClaims
    /\ \A a \in Asks : EvidenceOf(a)
    /\ Clean => CompleteInv

(* What a thread has established stays while it does not move. *)
LEMMA EvidenceFrame ==
    ASSUME Grows, NEW a \in Asks, EvidenceOf(a), pc'[a] = pc[a], doc'[a] = doc[a],
           prepared'[a] = prepared[a]
    PROVE  EvidenceOf(a)'
BY DEF EvidenceOf, Grows, ClaimsOf, Visible

LEMMA VisibleStays == ASSUME Grows PROVE Visible(graph) \subseteq Visible(graph')
BY DEF Grows, Visible

(* Only the batch of the claims writes claim vertices. *)
LEMMA OnlyClaimNodes ==
    ASSUME NEW a \in Asks, NEW c, ClaimNode(c) \in NodeRows(a)
    PROVE  pc[a] = "claims" /\ c \in ClaimsOf(a)
BY DEF NodeRows, At, Node, ClaimNode, ClaimsOf

(* A batch that adds its own rows brings the evidence one step further. *)
LEMMA EvidenceBatch ==
    ASSUME TypeOK, OwnClaims, NEW a \in Asks, EvidenceOf(a), WriteBatch(a)
    PROVE  EvidenceOf(a)'
<1>1. /\ pc'[a] = Following(a) /\ graph' = GraphAfter(a) /\ doc' = doc /\ prepared' = prepared
      /\ pc[a] \in CommitSteps /\ pc[a] # "register"
  BY DEF WriteBatch, thread, TypeOK, NodeSteps, EdgeSteps, CommitSteps, StructureSteps,
         IdentitySteps, ClaimSteps
<1>2. doc[a] \in Doc
  BY <1>1 DEF TypeOK
<1>3. Grows
  BY <1>1, BatchGrows
<1>4. \A c \in ClaimsOf(a) : c \in Claim /\ ClaimDoc[c] = doc[a]
  BY <1>2 DEF TypeOK, Extraction, OwnClaims, ClaimsOf
<1>5. /\ graph'.nodes = graph.nodes \cup NodeRows(a)
      /\ graph'.edges = graph.edges \cup
            {e \in EdgeRows(a) : {e.src, e.dst} \subseteq graph.nodes \cup NodeRows(a)}
  BY <1>1, GraphAfterGrows
<1>6. Node("Document", doc[a]) \in graph'.nodes
  <2>1. CASE pc[a] = "document"
    BY <1>5, <2>1 DEF NodeRows, At
  <2>2. CASE pc[a] # "document"
    BY <1>1, <1>5, <2>2 DEF EvidenceOf
  <2>3. QED
    BY <2>1, <2>2
<1>7. CASE pc[a] \notin ClaimSteps
  <2>1. ClaimStart(a) = "claims" \/ (ClaimStart(a) = "register" /\ ClaimsOf(a) = {})
    BY DEF ClaimStart, ClaimsOf
  <2>2. Following(a) \notin ClaimSteps \/ Following(a) = ClaimStart(a)
    BY <1>1, <1>7
    DEF Following, Order, CommitSteps, StructureSteps, IdentitySteps, ClaimSteps, StructureStart,
        TicketStart, IdentityStart
  <2>3. QED
    BY <1>1, <1>6, <2>1, <2>2 DEF EvidenceOf, ClaimSteps, ClaimsOf
<1>8. CASE pc[a] = "claims"
  <2>1. Following(a) = "spans"
    BY <1>8 DEF Following, ClaimOrder, ClaimSteps
  <2>2. \A c \in ClaimsOf(a) : ClaimNode(c) \in graph'.nodes
    BY <1>5, <1>8 DEF NodeRows, At, ClaimsOf
  <2>3. QED
    BY <1>1, <1>6, <2>1, <2>2 DEF EvidenceOf, ClaimsOf
<1>9. CASE pc[a] = "spans"
  <2>1. Following(a) = "asserts"
    BY <1>9 DEF Following, ClaimOrder, ClaimSteps
  <2>2. \A c \in ClaimsOf(a) : Node("EvidenceSpan", SpanOf[c]) \in graph'.nodes
    BY <1>5, <1>9 DEF NodeRows, At, ClaimsOf
  <2>3. \A c \in ClaimsOf(a) : ClaimNode(c) \in graph'.nodes
    BY <1>5, <1>9 DEF EvidenceOf
  <2>4. QED
    BY <1>1, <1>6, <2>1, <2>2, <2>3 DEF EvidenceOf, ClaimsOf
<1>10. CASE pc[a] = "asserts"
  <2>1. Following(a) = "supported_by"
    BY <1>10 DEF Following, ClaimOrder, ClaimSteps
  <2>2. ASSUME NEW c \in ClaimsOf(a) PROVE Assertion(c) \in graph'.edges
    <3>1. Assertion(c) \in EdgeRows(a)
      BY <1>10 DEF EdgeRows, At, ClaimsOf
    <3>2. Node("Document", ClaimDoc[c]) \in graph.nodes /\ ClaimNode(c) \in graph.nodes
      BY <1>4, <1>10 DEF EvidenceOf, CommitSteps, ClaimSteps
    <3>3. QED
      BY <1>5, <3>1, <3>2 DEF Assertion, Edge
  <2>3. \A c \in ClaimsOf(a) :
           ClaimNode(c) \in graph'.nodes /\ Node("EvidenceSpan", SpanOf[c]) \in graph'.nodes
    BY <1>5, <1>10 DEF EvidenceOf
  <2>4. QED
    BY <1>1, <1>6, <2>1, <2>2, <2>3 DEF EvidenceOf, ClaimsOf
<1>11. CASE pc[a] = "supported_by"
  <2>1. Following(a) = "register"
    BY <1>11 DEF Following, ClaimOrder, ClaimSteps
  <2>2. ASSUME NEW c \in ClaimsOf(a) PROVE Support(c) \in graph'.edges
    <3>1. Support(c) \in EdgeRows(a)
      BY <1>11 DEF EdgeRows, At, ClaimsOf
    <3>2. ClaimNode(c) \in graph.nodes /\ Node("EvidenceSpan", SpanOf[c]) \in graph.nodes
      BY <1>11 DEF EvidenceOf
    <3>3. QED
      BY <1>5, <3>1, <3>2 DEF Support, Edge
  <2>3. \A c \in ClaimsOf(a) : Assertion(c) \in graph'.edges
    BY <1>5, <1>11 DEF EvidenceOf
  <2>4. ClaimsOf(a) \subseteq Visible(graph')
    BY <1>4, <2>2, <2>3 DEF Visible
  <2>5. \A c \in ClaimsOf(a) :
           ClaimNode(c) \in graph'.nodes /\ Node("EvidenceSpan", SpanOf[c]) \in graph'.nodes
    BY <1>5, <1>11 DEF EvidenceOf
  <2>6. QED
    BY <1>1, <1>6, <2>1, <2>3, <2>4, <2>5 DEF EvidenceOf, ClaimsOf
<1>12. QED
  BY <1>1, <1>7, <1>8, <1>9, <1>10, <1>11 DEF ClaimSteps

(* Outside the batches a commit writes, the evidence promises nothing new. *)
LEMMA EvidenceElsewhere ==
    ASSUME NEW a \in Asks, pc'[a] \notin CommitSteps \ {"document"}
    PROVE  EvidenceOf(a)'
BY DEF EvidenceOf, CommitSteps, ClaimSteps

(* A step of one thread leaves the promises of all. *)
LEMMA EvidenceOthers ==
    ASSUME Grows, \A b \in Asks : EvidenceOf(b), NEW a \in Asks, EvidenceOf(a)',
           \A b \in Asks \ {a} : pc'[b] = pc[b] /\ doc'[b] = doc[b] /\ prepared'[b] = prepared[b]
    PROVE  \A b \in Asks : EvidenceOf(b)'
BY EvidenceFrame

(* What extraction gives a document is its own. *)
LEMMA OwnPrepared ==
    ASSUME OwnClaims, DOMAIN prepared = Asks, NEW a \in Asks, Prepare(a)
    PROVE  OwnClaims'
<1>1. PICK batch \in SUBSET todo[a] :
         \E p \in [batch -> UNION {Extractions(d) : d \in batch}] :
            /\ \A d \in batch : p[d] \in Extractions(d)
            /\ prepared' = [prepared EXCEPT ![a] =
                              [d \in Doc |-> IF d \in batch THEN p[d] ELSE NothingExtracted]]
  BY DEF Prepare
<1>2. PICK p \in [batch -> UNION {Extractions(d) : d \in batch}] :
            /\ \A d \in batch : p[d] \in Extractions(d)
            /\ prepared' = [prepared EXCEPT ![a] =
                              [d \in Doc |-> IF d \in batch THEN p[d] ELSE NothingExtracted]]
  BY <1>1
<1>3. \A d \in batch : \A c \in p[d].claims : ClaimDoc[c] = d
  <2>1. SUFFICES ASSUME NEW d \in batch PROVE \A c \in p[d].claims : ClaimDoc[c] = d
    OBVIOUS
  <2>2. p[d] \in Extractions(d)
    BY <1>2
  <2>3. p[d].claims \subseteq {c \in Claim : ClaimDoc[c] = d}
    BY <2>2 DEF Extractions
  <2>4. QED
    BY <2>3
<1>4. NothingExtracted.claims = {}
  BY DEF NothingExtracted
<1>5. QED
  BY <1>2, <1>3, <1>4 DEF OwnClaims

LEMMA OwnForgotten ==
    ASSUME OwnClaims, DOMAIN prepared = Asks, NEW a \in Asks, Forget(a)
    PROVE  OwnClaims'
BY DEF OwnClaims, Forget, NothingPrepared, NothingExtracted

(* A step that writes no claim vertex, and moves nobody who completes one. *)
LEMMA CompleteFrame ==
    ASSUME CompleteInv, graph' = graph \/ (Grows /\ graph'.nodes = graph.nodes),
           \A a \in Asks : pc[a] \in {"spans", "asserts", "supported_by"} =>
               pc'[a] = pc[a] /\ doc'[a] = doc[a] /\ prepared'[a] = prepared[a]
    PROVE  CompleteInv'
<1>1. Grows /\ graph'.nodes = graph.nodes
  BY DEF Grows
<1>2. QED
  BY <1>1, VisibleStays DEF CompleteInv, Completes, ClaimsOf

LEMMA CompleteBatch ==
    ASSUME TypeOK, EvidenceInv, CompleteInv, NEW a \in Asks, WriteBatch(a)
    PROVE  CompleteInv'
<1>1. /\ pc' = [pc EXCEPT ![a] = Following(a)] /\ graph' = GraphAfter(a) /\ doc' = doc
      /\ prepared' = prepared /\ DOMAIN pc = Asks
  BY DEF WriteBatch, thread, TypeOK
<1>2. Grows /\ graph'.nodes = graph.nodes \cup NodeRows(a)
  BY <1>1, BatchGrows, GraphAfterGrows
<1>3. EvidenceOf(a)'
  BY EvidenceBatch DEF EvidenceInv
<1> SUFFICES ASSUME NEW c \in Claim, ClaimNode(c) \in graph'.nodes
             PROVE  c \in Visible(graph') \/ \E b \in Asks : Completes(b, c)'
  BY DEF CompleteInv
<1>4. CASE ClaimNode(c) \in NodeRows(a)
  <2>1. pc[a] = "claims" /\ c \in ClaimsOf(a)
    BY <1>4, OnlyClaimNodes
  <2>2. pc'[a] = "spans"
    BY <1>1, <2>1 DEF Following, ClaimOrder, ClaimSteps
  <2>3. QED
    BY <1>1, <2>1, <2>2 DEF Completes, ClaimsOf
<1>5. CASE ClaimNode(c) \in graph.nodes
  <2>1. CASE c \in Visible(graph)
    BY <1>2, <2>1, VisibleStays
  <2>2. CASE \E b \in Asks : Completes(b, c)
    <3>1. PICK b \in Asks : Completes(b, c)
      BY <2>2
    <3>2. CASE b # a
      BY <1>1, <3>1, <3>2 DEF Completes, ClaimsOf
    <3>3. CASE b = a /\ pc[a] \in {"spans", "asserts"}
      <4>1. pc'[a] \in {"asserts", "supported_by"}
        BY <1>1, <3>3 DEF Following, ClaimOrder, ClaimSteps
      <4>2. QED
        BY <1>1, <3>1, <3>3, <4>1 DEF Completes, ClaimsOf
    <3>4. CASE b = a /\ pc[a] = "supported_by"
      <4>1. pc'[a] = "register"
        BY <1>1, <3>4 DEF Following, ClaimOrder, ClaimSteps
      <4>2. c \in ClaimsOf(a)'
        BY <1>1, <3>1, <3>4 DEF Completes, ClaimsOf
      <4>3. QED
        BY <1>3, <4>1, <4>2 DEF EvidenceOf
    <3>5. QED
      BY <3>1, <3>2, <3>3, <3>4 DEF Completes
  <2>3. QED
    BY <1>5, <2>1, <2>2 DEF CompleteInv
<1>6. QED
  BY <1>2, <1>4, <1>5

LEMMA EvidenceStep == TypeOK /\ EvidenceInv /\ [Next]_vars => EvidenceInv'
<1> SUFFICES ASSUME TypeOK, EvidenceInv, [Next]_vars PROVE EvidenceInv'
  OBVIOUS
<1>1. /\ DOMAIN pc = Asks /\ DOMAIN doc = Asks /\ DOMAIN prepared = Asks
      /\ OwnClaims /\ \A a \in Asks : EvidenceOf(a)
  BY DEF TypeOK, EvidenceInv
<1>2. /\ Clean' => Clean /\ CompleteInv /\ ~ Crash
                   /\ \A a \in Asks : ~ ResolutionFails(a) /\ ~ ReconcileFails(a)
                                         /\ ~ QuestionFails(a)
  BY CleanBefore DEF EvidenceInv
<1>3. \A s \in {"idle", "check", "commit", "returned", "document", "adjudicate",
                 "conflicts_with", "register_conflicts"} :
         s \notin CommitSteps \ {"document"} /\ s \notin {"spans", "asserts", "supported_by"}
  BY DEF CommitSteps, StructureSteps, IdentitySteps, ClaimSteps
<1>4. graph' = graph => Grows
  BY DEF Grows
(* Between commits, and where one begins or ends. *)
<1>5. ASSUME NEW a \in Asks,
             \/ Ask(a) \/ Check(a) \/ Prepare(a) \/ NothingToDo(a) \/ StartCommit(a)
             \/ SkipDocument(a) \/ Register(a) \/ NothingWritten(a) \/ StartReconcile(a)
             \/ Adjudicate(a) \/ RegisterConflicts(a) \/ Deliver(a)
      PROVE  EvidenceInv'
  <2>1. graph' = graph
    BY <1>5
    DEF Ask, Check, Prepare, NothingToDo, StartCommit, SkipDocument, Register, NothingWritten,
        StartReconcile, Adjudicate, RegisterConflicts, Deliver
  <2>2. /\ pc'[a] \notin CommitSteps \ {"document"}
        /\ pc[a] \notin {"spans", "asserts", "supported_by"}
        /\ \A b \in Asks \ {a} : pc'[b] = pc[b] /\ doc'[b] = doc[b] /\ prepared'[b] = prepared[b]
    BY <1>1, <1>3, <1>5
    DEF Ask, Check, Prepare, NothingToDo, StartCommit, SkipDocument, Register, NothingWritten,
        StartReconcile, Adjudicate, RegisterConflicts, Deliver, Release, Forget, thread
  <2>3. OwnClaims'
    <3>1. CASE Prepare(a)
      BY <1>1, <3>1, OwnPrepared
    <3>2. CASE Deliver(a)
      BY <1>1, <3>2, OwnForgotten DEF Deliver
    <3>3. CASE prepared' = prepared
      BY <1>1, <3>3 DEF OwnClaims
    <3>4. QED
      BY <1>5, <3>1, <3>2, <3>3
      DEF Ask, Check, NothingToDo, StartCommit, SkipDocument, Register, NothingWritten,
          StartReconcile, Adjudicate, RegisterConflicts, thread
  <2>4. \A b \in Asks : EvidenceOf(b)'
    BY <1>1, <1>4, <2>1, <2>2, EvidenceElsewhere, EvidenceOthers
  <2>5. Clean' => CompleteInv'
    BY <1>2, <2>1, <2>2, CompleteFrame
  <2>6. QED
    BY <2>3, <2>4, <2>5 DEF EvidenceInv
<1>6. ASSUME NEW a \in Asks, Observe(a) \/ Decide(a)
      PROVE  EvidenceInv'
  <2>1. /\ graph' = graph /\ doc' = doc /\ prepared' = prepared
        /\ pc' = [pc EXCEPT ![a] = Following(a)] /\ pc[a] \in {"observe", "decide"}
    BY <1>6 DEF Observe, Decide, thread
  <2>2. Following(a) \in {"entities", "graph_resolves"}
    BY <2>1 DEF Following, Order, ClaimSteps
  <2>3. EvidenceOf(a)'
    BY <1>1, <2>1, <2>2 DEF EvidenceOf, CommitSteps, IdentitySteps
  <2>4. \A b \in Asks : EvidenceOf(b)'
    BY <1>1, <1>4, <2>1, <2>3, EvidenceOthers
  <2>5. Clean' => CompleteInv'
    BY <1>1, <1>2, <2>1, CompleteFrame
  <2>6. QED
    BY <1>1, <2>1, <2>4, <2>5 DEF EvidenceInv, OwnClaims
<1>7. ASSUME NEW a \in Asks, WriteBatch(a)
      PROVE  EvidenceInv'
  <2>1. /\ pc' = [pc EXCEPT ![a] = Following(a)] /\ graph' = GraphAfter(a) /\ doc' = doc
        /\ prepared' = prepared
    BY <1>7 DEF WriteBatch, thread
  <2>2. \A b \in Asks : EvidenceOf(b)'
    BY <1>1, <1>7, <2>1, BatchGrows, EvidenceBatch, EvidenceOthers
  <2>3. Clean' => CompleteInv'
    BY <1>2, <1>7, CompleteBatch
  <2>4. QED
    BY <1>1, <2>1, <2>2, <2>3 DEF EvidenceInv, OwnClaims
<1>8. ASSUME NEW a \in Asks, WriteConflicts(a)
      PROVE  EvidenceInv'
  <2>1. /\ pc[a] = "conflicts_with" /\ pc' = [pc EXCEPT ![a] = "register_conflicts"]
        /\ graph' = GraphAfter(a) /\ doc' = doc /\ prepared' = prepared
    BY <1>8 DEF WriteConflicts, thread
  <2>2. Grows /\ graph'.nodes = graph.nodes
    <3>1. NodeRows(a) = {}
      BY <2>1 DEF NodeRows, At
    <3>2. QED
      BY <2>1, <3>1, BatchGrows, GraphAfterGrows
  <2>3. \A b \in Asks : EvidenceOf(b)'
    BY <1>1, <1>3, <2>1, <2>2, EvidenceElsewhere, EvidenceOthers
  <2>4. Clean' => CompleteInv'
    BY <1>1, <1>2, <2>1, <2>2, CompleteFrame
  <2>5. QED
    BY <1>1, <2>1, <2>3, <2>4 DEF EvidenceInv, OwnClaims
<1>9. ASSUME NEW a \in Asks, ResolutionFails(a)
      PROVE  EvidenceInv'
  <2>1. /\ pc[a] \in IdentitySteps /\ pc' = [pc EXCEPT ![a] = ClaimStart(a)] /\ Grows
        /\ doc' = doc /\ prepared' = prepared
    BY <1>9, BatchGrows DEF ResolutionFails, Raised, thread
  <2>2. ClaimStart(a) = "claims" \/ (ClaimStart(a) = "register" /\ ClaimsOf(a) = {})
    BY DEF ClaimStart, ClaimsOf
  <2>3. Node("Document", doc[a]) \in graph.nodes
    BY <1>1, <2>1 DEF EvidenceOf, CommitSteps, IdentitySteps
  <2>4. EvidenceOf(a)'
    BY <1>1, <2>1, <2>2, <2>3 DEF EvidenceOf, Grows, ClaimsOf
  <2>5. \A b \in Asks : EvidenceOf(b)'
    BY <1>1, <2>1, <2>4, EvidenceOthers
  <2>6. QED
    BY <1>1, <1>2, <1>9, <2>1, <2>5 DEF EvidenceInv, OwnClaims
<1>10. ASSUME NEW a \in Asks, ReconcileFails(a) \/ QuestionFails(a)
       PROVE  EvidenceInv'
  <2>1. /\ pc' = [pc EXCEPT ![a] = "returned"] \/ pc' = [pc EXCEPT ![a] = "idle"]
        /\ Grows
    BY <1>10, BatchGrows DEF ReconcileFails, QuestionFails, Raised, Release
  <2>2. \A b \in Asks \ {a} : doc'[b] = doc[b] /\ prepared'[b] = prepared[b]
    BY <1>1, <1>10 DEF ReconcileFails, QuestionFails, Forget, thread
  <2>3. \A b \in Asks : EvidenceOf(b)'
    BY <1>1, <1>3, <2>1, <2>2, EvidenceElsewhere, EvidenceOthers
  <2>4. OwnClaims'
    BY <1>1, <1>10, OwnForgotten DEF ReconcileFails, QuestionFails, thread, OwnClaims
  <2>5. QED
    BY <1>2, <1>10, <2>3, <2>4 DEF EvidenceInv
<1>11. CASE Crash
  <2>1. \A a \in Asks : pc'[a] = "idle" /\ prepared'[a] = NothingPrepared
    BY <1>11 DEF Crash
  <2>2. \A a \in Asks : EvidenceOf(a)'
    BY <1>3, <2>1, EvidenceElsewhere
  <2>3. OwnClaims'
    BY <2>1 DEF OwnClaims, NothingPrepared, NothingExtracted
  <2>4. QED
    BY <1>2, <1>11, <2>2, <2>3 DEF EvidenceInv
<1>12. CASE UNCHANGED vars
  <2>1. UNCHANGED <<graph, pc, doc, prepared>>
    BY <1>12 DEF vars, thread
  <2>2. \A a \in Asks : EvidenceOf(a)'
    BY <1>1, <1>4, <2>1, EvidenceFrame
  <2>3. Clean' => CompleteInv'
    BY <1>2, <2>1, CompleteFrame
  <2>4. QED
    BY <1>1, <2>1, <2>2, <2>3 DEF EvidenceInv, OwnClaims
<1>13. QED
  BY <1>5, <1>6, <1>7, <1>8, <1>9, <1>10, <1>11, <1>12 DEF Next, Progress, Commit, Reconcile

LEMMA EvidenceAlways == Spec => []EvidenceInv
<1>1. Init => EvidenceInv
  <2>1. SUFFICES ASSUME Init PROVE EvidenceInv
    OBVIOUS
  <2>2. \A a \in Asks : pc[a] = "idle" /\ prepared[a] = NothingPrepared /\ graph.nodes = {}
    BY <2>1 DEF Init, EmptyGraph
  <2>3. \A a \in Asks : EvidenceOf(a)
    BY <2>2 DEF EvidenceOf, CommitSteps, StructureSteps, IdentitySteps, ClaimSteps
  <2>4. OwnClaims
    BY <2>2 DEF OwnClaims, NothingPrepared, NothingExtracted
  <2>5. CompleteInv
    BY <2>1 DEF Init, EmptyGraph, CompleteInv
  <2>6. QED
    BY <2>3, <2>4, <2>5 DEF EvidenceInv
<1>2. TypeOK /\ EvidenceInv /\ [Next]_vars => EvidenceInv'
  BY EvidenceStep
<1>3. QED
  BY <1>1, <1>2, TypeCorrect, PTL DEF Spec

(***************************************************************************)
(* When nothing has failed and nobody is inside a commit, every claim      *)
(* vertex can be read: its document asserts it and a span supports it, for *)
(* every corpus, any number of threads and whatever extraction returns.    *)
(***************************************************************************)
THEOREM EvidenceStands == Spec => []EvidenceWhole
<1>1. MutualExclusion /\ EvidenceInv => EvidenceWhole
  BY IngestAssumption
  DEF MutualExclusion, EvidenceInv, CompleteInv, Completes, EvidenceWhole, Critical, CommitSteps,
      ClaimSteps
<1>2. QED
  BY <1>1, EvidenceAlways, Exclusive, PTL

=============================================================================
