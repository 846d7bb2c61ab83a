------------------------ MODULE KnowledgeGraphProofs ------------------------
(***************************************************************************)
(* Ingest implements KnowledgeGraph: whatever batch is written or fails    *)
(* and wherever the process dies, a reader of the graph sees claims become *)
(* readable a document at a time, the mentions of one document decided at  *)
(* a time, and disputes recorded only between claims that disagree at that *)
(* instant.  The last needs the lock: the rows are computed in one step    *)
(* and written in a later one, and would be stale if another thread could  *)
(* decide a mention in between.                                            *)
(*                                                                         *)
(* And, without failures, none of the disputes is missing: the last part   *)
(* follows each pair of claims that disagree from the commit that made the *)
(* pair readable to the thread that will compare it, and each row back to  *)
(* the decisions it was computed from.                                     *)
(***************************************************************************)
EXTENDS IngestProofs, Decisions

(* The rows a thread is about to write are still disputes of the graph it writes to. *)
RowsCurrent ==
    \A a \in Asks : pc[a] = "conflicts_with" =>
        disputes[a] \subseteq Detected(Visible(graph), IdentityOf(mention))

-----------------------------------------------------------------------------
(* What one batch changes of what a reader sees. *)

(* The rows conflict_edge_rows makes are edges of one type. *)
LEMMA RowsAreDisputes ==
    ASSUME NEW claims, NEW identity, NEW facts, NEW e \in ConflictRows(claims, identity, facts)
    PROVE  e.type = "CONFLICTS_WITH"
BY DEF ConflictRows, Dispute, Edge

(* Adjudicating some of the facts finds some of what adjudicating all of them finds. *)
LEMMA SomeFacts ==
    ASSUME NEW claims, NEW identity, NEW facts
    PROVE  ConflictRows(claims, identity, facts) \subseteq Detected(claims, identity)
BY DEF Detected, ConflictRows

(* Adjudication is the same in both specifications. *)
LEMMA SameAdjudication ==
    ASSUME NEW claims, NEW identity
    PROVE  Promised!Detected(claims, identity) = Detected(claims, identity)
<1>1. \A c \in Claim : Promised!Fact(identity, c) = Fact(identity, c)
  BY DEF Promised!Fact, Promised!SubjectIdentity, Fact, SubjectIdentity
<1>2. \A a, b : Promised!Disagree(identity, a, b) = Disagree(identity, a, b)
  BY DEF Promised!Disagree, Disagree, Promised!Fact, Promised!SubjectIdentity, Fact,
         SubjectIdentity
<1>3. \A a, b : Promised!Dispute(a, b) = Dispute(a, b)
  BY DEF Promised!Dispute, Dispute, Promised!Edge, Edge, Promised!ClaimNode, ClaimNode,
         Promised!Node, Node
<1>4. QED
  BY <1>2, <1>3
  DEF Promised!Detected, Detected, Promised!ConflictRows, ConflictRows, Promised!Fact,
      Promised!SubjectIdentity, Fact, SubjectIdentity

(* The claims a batch makes readable are the ones the document was prepared with. *)
LEMMA NewlyVisible ==
    ASSUME TypeOK, RowsCurrent, NEW a \in Asks,
           NEW c \in Visible(GraphAfter(a)) \ Visible(graph)
    PROVE  /\ pc[a] \in {"asserts", "supported_by"}
           /\ c \in prepared[a][doc[a]].claims
<1>1. PICK e \in EdgeRows(a) : e = Assertion(c) \/ e = Support(c)
  BY GraphAfterGrows DEF Visible
<1>2. e.type \in {"ASSERTS", "SUPPORTED_BY"}
  BY <1>1 DEF Assertion, Support, Edge
<1>3. CASE pc[a] = "asserts"
  <2>1. PICK k \in prepared[a][doc[a]].claims : e = Assertion(k)
    BY <1>1, <1>3 DEF EdgeRows, At
  <2>2. e.dst = ClaimNode(k) /\ e.type = "ASSERTS"
    BY <2>1 DEF Assertion, Edge
  <2>3. e.dst = ClaimNode(c)
    BY <1>1, <2>2 DEF Assertion, Support, Edge
  <2>4. k = c
    BY <2>2, <2>3 DEF ClaimNode, Node
  <2>5. QED
    BY <1>3, <2>4
<1>4. CASE pc[a] = "supported_by"
  <2>1. PICK k \in prepared[a][doc[a]].claims : e = Support(k)
    BY <1>1, <1>4 DEF EdgeRows, At
  <2>2. e.src = ClaimNode(k) /\ e.type = "SUPPORTED_BY"
    BY <2>1 DEF Support, Edge
  <2>3. e.src = ClaimNode(c)
    BY <1>1, <2>2 DEF Assertion, Support, Edge
  <2>4. k = c
    BY <2>2, <2>3 DEF ClaimNode, Node
  <2>5. QED
    BY <1>4, <2>4
<1>5. CASE pc[a] = "conflicts_with"
  <2>1. e \in disputes[a]
    BY <1>1, <1>5 DEF EdgeRows, At
  <2>2. e.type = "CONFLICTS_WITH"
    BY <1>5, <2>1, RowsAreDisputes DEF RowsCurrent, Detected
  <2>3. QED
    BY <1>2, <2>2
<1>6. pc[a] \in {"asserts", "supported_by", "conflicts_with"}
  BY <1>1, <1>2 DEF EdgeRows, At, Edge, Resolution
<1>7. QED
  BY <1>3, <1>4, <1>5, <1>6

(* The disputes a batch adds are the rows its thread has computed. *)
LEMMA NewlyPersisted ==
    ASSUME TypeOK, NEW a \in Asks, NEW e \in Persisted(GraphAfter(a)) \ Persisted(graph)
    PROVE  pc[a] = "conflicts_with" /\ e \in disputes[a]
<1>1. e \in EdgeRows(a) /\ e.type = "CONFLICTS_WITH"
  BY GraphAfterGrows DEF Persisted
<1>2. QED
  BY <1>1 DEF EdgeRows, At, Edge, Resolution, Assertion, Support

(* Nothing a reader sees is taken away. *)
LEMMA ReadersKeep ==
    ASSUME TypeOK, NEW a \in Asks
    PROVE  /\ Visible(graph) \subseteq Visible(GraphAfter(a))
           /\ Persisted(graph) \subseteq Persisted(GraphAfter(a))
BY GraphAfterGrows DEF Visible, Persisted

(* Mentions are decided by two batches, and only those of the document. *)
LEMMA NewlyDecided ==
    ASSUME TypeOK, NEW a \in Asks
    PROVE  /\ IdentityOf(MentionAfter(a)) \in [Mention -> Person \cup {NoPerson}]
           /\ \A m \in Mention : DocOf[m] # doc[a] =>
                 IdentityOf(MentionAfter(a))[m] = IdentityOf(mention)[m]
           /\ pc[a] \notin {"mentions", "statuses"} => MentionAfter(a) = mention
<1>1. MentionAfter(a) \in [Mention -> Record]
  BY MentionAfterTyped
<1>2. \A m \in Mention : MentionAfter(a)[m].entity \in Person \cup {NoPerson}
  BY <1>1 DEF Record
<1>3. IdentityOf(MentionAfter(a)) \in [Mention -> Person \cup {NoPerson}]
  BY <1>2 DEF IdentityOf
<1>4. \A m \in Mention : DocOf[m] # doc[a] => MentionAfter(a)[m] = mention[m]
  BY DEF MentionAfter
<1>5. \A m \in Mention : DocOf[m] # doc[a] =>
         IdentityOf(MentionAfter(a))[m] = IdentityOf(mention)[m]
  BY <1>4 DEF IdentityOf
<1>6. ASSUME pc[a] \notin {"mentions", "statuses"} PROVE MentionAfter(a) = mention
  <2>1. mention \in [Mention -> Record]
    BY DEF TypeOK
  <2>2. \A m \in Mention : MentionAfter(a)[m] = mention[m]
    BY <1>6 DEF MentionAfter
  <2>3. QED
    BY <1>1, <2>1, <2>2
<1>7. QED
  BY <1>3, <1>5, <1>6

-----------------------------------------------------------------------------
(* One batch is one step of the abstract specification, or none. *)
LEMMA BatchSimulates ==
    ASSUME TypeOK, RowsCurrent, OwnClaims, NEW a \in Asks,
           graph' = graph \/ graph' = GraphAfter(a),
           mention' = mention \/ mention' = MentionAfter(a)
    PROVE  Promised!Next \/ UNCHANGED Promised!promised
<1> DEFINE C  == Visible(graph)
           I  == IdentityOf(mention)
           D  == Persisted(graph)
<1>1. /\ C' = Visible(graph') /\ I' = IdentityOf(mention') /\ D' = Persisted(graph')
  OBVIOUS
<1>2. CASE pc[a] \in {"asserts", "supported_by"}
  <2>1. doc[a] \in Doc
    BY <1>2 DEF TypeOK, CommitSteps, ClaimSteps
  <2>2. D' = D
    BY <1>2, NewlyPersisted, ReadersKeep
  <2>3. I' = I
    BY <1>2, NewlyDecided
  <2>4. C' = C \cup (C' \ C)
    BY ReadersKeep
  <2>5. \A c \in C' \ C : c \in Claim /\ ClaimDoc[c] = doc[a]
    <3>1. \A c \in C' \ C : c \in prepared[a][doc[a]].claims
      BY NewlyVisible
    <3>2. \A c \in C' : c \in Claim
      BY DEF Visible
    <3>3. QED
      BY <2>1, <3>1, <3>2 DEF OwnClaims
  <2> HIDE DEF C, I, D
  <2>6. C' \ C \in SUBSET {c \in Claim : ClaimDoc[c] = doc[a]}
    BY <2>5
  <2>7. \E new \in SUBSET {c \in Claim : ClaimDoc[c] = doc[a]} : C' = C \cup new
    BY <2>4, <2>6
  <2>8. Promised!Assert(doc[a])
    BY <2>2, <2>3, <2>7 DEF Promised!Assert, C, I, D
  <2>9. QED
    BY <2>1, <2>8 DEF Promised!Next
<1>3. CASE pc[a] \in {"mentions", "statuses"}
  <2>1. doc[a] \in Doc
    BY <1>3 DEF TypeOK, CommitSteps, StructureSteps, IdentitySteps
  <2>2. D' = D
    BY <1>3, NewlyPersisted, ReadersKeep
  <2>3. C' = C
    BY <1>3, NewlyVisible, ReadersKeep
  <2>4. /\ I \in [Mention -> Person \cup {NoPerson}]
    BY DEF IdentityOf, TypeOK, Record
  <2>5. /\ I' \in [Mention -> Person \cup {NoPerson}]
        /\ \A m \in Mention : DocOf[m] # doc[a] => I'[m] = I[m]
    BY <2>4, NewlyDecided
  <2> HIDE DEF C, I, D
  <2>6. Promised!Recognise(doc[a])
    BY <2>2, <2>3, <2>5 DEF Promised!Recognise, C, I, D
  <2>7. QED
    BY <2>1, <2>6 DEF Promised!Next
<1>4. CASE pc[a] = "conflicts_with"
  <2>1. C' = C
    BY <1>4, NewlyVisible, ReadersKeep
  <2>2. I' = I
    BY <1>4, NewlyDecided
  <2>3. D' = D \cup (D' \ D)
    BY ReadersKeep
  <2>4. D' \ D \subseteq disputes[a]
    BY NewlyPersisted
  <2>5. disputes[a] \subseteq Detected(C, I)
    BY <1>4 DEF RowsCurrent
  <2> HIDE DEF C, I, D
  <2>6. \E rows \in SUBSET Detected(C, I) : D' = D \cup rows
    BY <2>3, <2>4, <2>5
  <2>7. Promised!Contest
    BY <2>1, <2>2, <2>6, SameAdjudication DEF Promised!Contest, C, I, D
  <2>8. QED
    BY <2>7 DEF Promised!Next
<1>5. CASE pc[a] \notin {"asserts", "supported_by", "mentions", "statuses", "conflicts_with"}
  <2>1. C' = C /\ D' = D
    BY <1>5, NewlyVisible, NewlyPersisted, ReadersKeep
  <2>2. I' = I
    BY <1>5, NewlyDecided
  <2>3. QED
    BY <2>1, <2>2 DEF Promised!promised
<1>6. QED
  BY <1>2, <1>3, <1>4, <1>5

-----------------------------------------------------------------------------
(* While a thread has rows to write, what it compared cannot change under it. *)
LEMMA RowsKept ==
    ASSUME TypeOK, MutualExclusion, RowsCurrent, NEW a \in Asks,
           pc'[a] # "conflicts_with",
           \A b \in Asks \ {a} : pc'[b] = pc[b] /\ disputes'[b] = disputes[b],
           \/ pc[a] \in Critical
           \/ Visible(graph') = Visible(graph) /\ IdentityOf(mention') = IdentityOf(mention)
    PROVE  RowsCurrent'
<1>1. SUFFICES ASSUME NEW b \in Asks \ {a}, pc'[b] = "conflicts_with"
               PROVE  disputes'[b] \subseteq Detected(Visible(graph'), IdentityOf(mention'))
  BY DEF RowsCurrent
<1>2. pc[b] = "conflicts_with" /\ disputes'[b] = disputes[b]
  BY <1>1
<1>3. pc[b] \in Critical
  BY <1>2 DEF Critical, ReconcileSteps
<1>4. pc[a] \notin Critical
  BY <1>3, IngestAssumption DEF MutualExclusion
<1>5. QED
  BY <1>2, <1>4 DEF RowsCurrent

LEMMA RowsStep == TypeOK /\ MutualExclusion /\ RowsCurrent /\ [Next]_vars => RowsCurrent'
<1> SUFFICES ASSUME TypeOK, MutualExclusion, RowsCurrent, [Next]_vars PROVE RowsCurrent'
  OBVIOUS
<1>1. /\ pc \in [Asks -> Open \cup Critical] /\ disputes \in [Asks -> SUBSET AnyEdge]
  BY DEF TypeOK
<1>2. CommitSteps \subseteq Critical /\ "conflicts_with" \notin CommitSteps \cup Open
  BY DEF Critical, CommitSteps, StructureSteps, IdentitySteps, ClaimSteps, Open
(* Outside the critical section. *)
<1>3. ASSUME NEW a \in Asks,
             \/ Ask(a) \/ Check(a) \/ Prepare(a) \/ NothingToDo(a) \/ StartCommit(a)
             \/ SkipDocument(a) \/ NothingWritten(a) \/ StartReconcile(a)
      PROVE  RowsCurrent'
  <2>1. UNCHANGED <<graph, mention, disputes>>
    BY <1>3 DEF Ask, Check, Prepare, NothingToDo, StartCommit, SkipDocument, NothingWritten,
               StartReconcile, thread
  <2>2. /\ pc'[a] # "conflicts_with"
        /\ \A b \in Asks \ {a} : pc'[b] = pc[b]
    BY <1>1, <1>3 DEF Ask, Check, Prepare, NothingToDo, StartCommit, SkipDocument,
               NothingWritten, StartReconcile
  <2>3. QED
    BY <2>1, <2>2, RowsKept
(* Inside a commit. *)
<1>4. ASSUME NEW a \in Asks,
             WriteBatch(a) \/ Observe(a) \/ Decide(a) \/ Register(a) \/ ResolutionFails(a)
      PROVE  RowsCurrent'
  <2>1. pc[a] \in CommitSteps /\ disputes' = disputes
    BY <1>4
    DEF WriteBatch, Observe, Decide, Register, ResolutionFails, thread, NodeSteps, EdgeSteps,
        CommitSteps, StructureSteps, IdentitySteps, ClaimSteps
  <2>2. PICK s \in CommitSteps \cup Open : pc' = [pc EXCEPT ![a] = s]
    <3>1. ASSUME pc[a] # "register" PROVE Following(a) \in CommitSteps
      BY <2>1, <3>1, FollowingIsCommit
    <3>2. ClaimStart(a) \in CommitSteps
      BY ClaimStartIsCommit DEF CommitSteps
    <3>3. QED
      BY <1>4, <3>1, <3>2 DEF WriteBatch, Observe, Decide, Register, Release, ResolutionFails,
                              NodeSteps, EdgeSteps, Open
  <2>3. QED
    BY <1>1, <1>2, <2>1, <2>2, RowsKept
(* Inside a reconciliation, once the rows are written or have failed to be. *)
<1>5. ASSUME NEW a \in Asks, WriteConflicts(a) \/ RegisterConflicts(a) \/ ReconcileFails(a)
      PROVE  RowsCurrent'
  <2>1. pc[a] \in Critical /\ disputes' = disputes
    BY <1>5 DEF WriteConflicts, RegisterConflicts, ReconcileFails, thread, Critical,
               ReconcileSteps
  <2>2. /\ pc'[a] # "conflicts_with"
        /\ \A b \in Asks \ {a} : pc'[b] = pc[b]
    BY <1>1, <1>5 DEF WriteConflicts, RegisterConflicts, ReconcileFails, Release
  <2>3. QED
    BY <2>1, <2>2, RowsKept
<1>6. ASSUME NEW a \in Asks, Adjudicate(a)
      PROVE  RowsCurrent'
  <2>1. PICK facts :
           disputes' = [disputes EXCEPT ![a] =
                          ConflictRows(Visible(graph), IdentityOf(mention), facts)]
    BY <1>6 DEF Adjudicate, Subjects
  <2>2. UNCHANGED <<graph, mention>> /\ \A b \in Asks \ {a} : pc'[b] = pc[b]
    BY <1>1, <1>6 DEF Adjudicate, Subjects, Release
  <2>3. disputes'[a] \subseteq Detected(Visible(graph), IdentityOf(mention))
    BY <1>1, <2>1, SomeFacts
  <2>4. \A b \in Asks \ {a} : disputes'[b] = disputes[b]
    BY <1>1, <2>1
  <2>5. QED
    BY <2>2, <2>3, <2>4 DEF RowsCurrent
(* Where a question is given up. *)
<1>7. ASSUME NEW a \in Asks, Deliver(a) \/ QuestionFails(a)
      PROVE  RowsCurrent'
  <2>1. /\ pc' = [pc EXCEPT ![a] = "idle"] /\ disputes' = [disputes EXCEPT ![a] = {}]
    BY <1>7 DEF Deliver, QuestionFails, Forget
  <2>2. \/ pc[a] \in Critical
        \/ /\ pc[a] \in Open
           /\ graph' = graph \/ graph' = GraphAfter(a)
           /\ mention' = mention \/ mention' = MentionAfter(a)
    BY <1>1, <1>7 DEF Deliver, QuestionFails, Raised
  <2>3. ASSUME pc[a] \in Open,
               graph' = graph \/ graph' = GraphAfter(a),
               mention' = mention \/ mention' = MentionAfter(a)
        PROVE  Visible(graph') = Visible(graph) /\ IdentityOf(mention') = IdentityOf(mention)
    <3>1. pc[a] \notin {"asserts", "supported_by", "mentions", "statuses"}
      BY <2>3 DEF Open
    <3>2. QED
      BY <2>3, <3>1, NewlyVisible, ReadersKeep, NewlyDecided
  <2>4. QED
    BY <1>1, <2>1, <2>2, <2>3, RowsKept
<1>8. CASE Crash
  BY <1>8 DEF Crash, RowsCurrent
<1>9. CASE UNCHANGED vars
  BY <1>9 DEF vars, thread, RowsCurrent
<1>10. QED
  BY <1>3, <1>4, <1>5, <1>6, <1>7, <1>8, <1>9 DEF Next, Progress, Commit, Reconcile

LEMMA RowsAlways == Spec => []RowsCurrent
<1>1. Init => RowsCurrent
  BY DEF Init, RowsCurrent
<1>2. TypeOK /\ MutualExclusion /\ RowsCurrent /\ [Next]_vars => RowsCurrent'
  BY RowsStep
<1>3. QED
  BY <1>1, <1>2, TypeCorrect, Exclusive, PTL DEF Spec

-----------------------------------------------------------------------------
(* Every step of the threads, of their failures and of a crash maps to a step or to none. *)
LEMMA StepSimulates ==
    TypeOK /\ RowsCurrent /\ OwnClaims /\ [Next]_vars => [Promised!Next]_(Promised!promised)
<1> SUFFICES ASSUME TypeOK, RowsCurrent, OwnClaims, [Next]_vars
             PROVE  Promised!Next \/ UNCHANGED Promised!promised
  OBVIOUS
<1>1. ASSUME UNCHANGED <<graph, mention>>
      PROVE  UNCHANGED Promised!promised
  BY <1>1 DEF Promised!promised
<1>2. ASSUME NEW a \in Asks,
             \/ Ask(a) \/ Check(a) \/ Prepare(a) \/ NothingToDo(a) \/ StartCommit(a)
             \/ SkipDocument(a) \/ Observe(a) \/ Decide(a) \/ Register(a) \/ NothingWritten(a)
             \/ StartReconcile(a) \/ Adjudicate(a) \/ RegisterConflicts(a) \/ Deliver(a)
      PROVE  UNCHANGED <<graph, mention>>
  BY <1>2 DEF Ask, Check, Prepare, NothingToDo, StartCommit, SkipDocument, Observe, Decide,
              Register, NothingWritten, StartReconcile, Adjudicate, RegisterConflicts, Deliver
<1>3. ASSUME NEW a \in Asks,
             \/ WriteBatch(a) \/ WriteConflicts(a)
             \/ ResolutionFails(a) \/ ReconcileFails(a) \/ QuestionFails(a)
      PROVE  Promised!Next \/ UNCHANGED Promised!promised
  <2>1. /\ graph' = graph \/ graph' = GraphAfter(a)
        /\ mention' = mention \/ mention' = MentionAfter(a)
    BY <1>3 DEF WriteBatch, WriteConflicts, ResolutionFails, ReconcileFails, QuestionFails, Raised
  <2>2. QED
    BY <2>1, BatchSimulates
<1>4. CASE Crash
  BY <1>1, <1>4 DEF Crash
<1>5. CASE UNCHANGED vars
  BY <1>1, <1>5 DEF vars
<1>6. QED
  BY <1>1, <1>2, <1>3, <1>4, <1>5 DEF Next, Progress, Commit, Reconcile

LEMMA InitSimulates == Init => Promised!Init
<1> SUFFICES ASSUME Init PROVE Promised!Init
  OBVIOUS
<1>1. Visible(graph) = {} /\ Persisted(graph) = {}
  BY DEF Init, EmptyGraph, Visible, Persisted
<1>2. IdentityOf(mention) = [m \in Mention |-> NoPerson]
  BY DEF Init, IdentityOf
<1>3. QED
  BY <1>1, <1>2 DEF Promised!Init

(***************************************************************************)
(* Ingest implements KnowledgeGraph, for every corpus, any number of       *)
(* threads and any number of failures and restarts.                        *)
(***************************************************************************)
THEOREM Implementation == Spec => ImplementsKnowledgeGraph
<1>1. EvidenceInv => OwnClaims
  BY DEF EvidenceInv
<1>2. QED
  BY <1>1, InitSimulates, StepSimulates, TypeCorrect, RowsAlways, EvidenceAlways, PTL
  DEF Spec, ImplementsKnowledgeGraph, Promised!Spec

-----------------------------------------------------------------------------
(* Exactness of the disputes, over the decisions each mention has been given. *)

(* Whom a mention was decided to be, if it was always decided the same. *)
The(S)  == CHOOSE p : p \in S
Lasting == [m \in Mention |-> IF decided[m] = {} THEN NoPerson ELSE The(decided[m])]

DecidedInv ==
    /\ DOMAIN decided = Mention
    /\ \A m \in Mention :
          /\ Decision(m) \subseteq decided[m]
          /\ decided[m] # {} => mention[m].status # "absent"

(* A claim is asserted after the mentions of its document were decided. *)
Familiar ==
    /\ \A c \in Claim : Assertion(c) \in graph.edges /\ SubjectMention[c] # NoMention =>
          decided[SubjectMention[c]] # {}
    /\ \A a \in Asks : pc[a] \in ClaimSteps => \A m \in MentionsIn(doc[a]) : decided[m] # {}

(* The rows a thread has yet to write. *)
Due(a) == IF pc[a] = "conflicts_with" THEN disputes[a] ELSE {}

(* What is recorded, or about to be, is a dispute under the lasting identities. *)
Justified ==
    \A e : e \in Persisted(graph) \/ (\E a \in Asks : e \in Due(a)) =>
        e \in Detected(Visible(graph), Lasting)

(* A thread that will see to it that a dispute is recorded. *)
Owes(a, x, y) ==
    \/ Dispute(x, y) \in Due(a)
    \/ /\ pc[a] \in CommitSteps \cup {"commit", "adjudicate"}
       /\ ClaimDoc[x] \in written[a] \/ ClaimDoc[y] \in written[a]
    \/ pc[a] \in {"supported_by", "register"} /\ (x \in ClaimsOf(a) \/ y \in ClaimsOf(a))

(* No dispute between readable claims is forgotten. *)
Minded ==
    \A x, y \in Visible(graph) : x < y /\ Disagree(Lasting, x, y) =>
        Dispute(x, y) \in graph.edges \/ \E a \in Asks : Owes(a, x, y)

GateInv ==
    /\ DecidedInv
    /\ Clean => Familiar
    /\ Clean /\ Steadfast => Justified /\ Minded

decisions == <<vars, decided>>

LEMMA TheIn == ASSUME NEW S, S # {} PROVE The(S) \in S
BY DEF The

(* The rows of a pass are the pairs of claims about its facts that disagree. *)
LEMMA RowPairs ==
    ASSUME NEW C \in SUBSET Claim, NEW identity, NEW facts, NEW e
    PROVE  e \in ConflictRows(C, identity, facts) <=>
             \E x, y \in C :
                 /\ x < y /\ Disagree(identity, x, y) /\ e = Dispute(x, y)
                 /\ Fact(identity, x) \in facts
<1> DEFINE contested == {c \in C \cap Contestable : Fact(identity, c) \in facts}
           Pair(q) == q[1] < q[2] /\ Disagree(identity, q[1], q[2])
<1>1. ConflictRows(C, identity, facts) =
        {Dispute(p[1], p[2]) : p \in {q \in contested \X contested : Pair(q)}}
  BY DEF ConflictRows
<1>2. ASSUME NEW x \in C, NEW y \in C, Disagree(identity, x, y), Fact(identity, x) \in facts
      PROVE  x \in contested /\ y \in contested
  BY <1>2 DEF Disagree
<1>3. ASSUME NEW x \in contested, NEW y \in contested, Pair(<<x, y>>)
      PROVE  Dispute(x, y) \in ConflictRows(C, identity, facts)
  <2>1. <<x, y>> \in {q \in contested \X contested : Pair(q)}
    BY <1>3
  <2>2. Dispute(<<x, y>>[1], <<x, y>>[2]) \in ConflictRows(C, identity, facts)
    BY <1>1, <2>1
  <2>3. QED
    BY <2>2
<1>4. ASSUME e \in ConflictRows(C, identity, facts)
      PROVE  \E x, y \in contested : Pair(<<x, y>>) /\ e = Dispute(x, y)
  <2>1. PICK p \in {q \in contested \X contested : Pair(q)} : e = Dispute(p[1], p[2])
    BY <1>1, <1>4
  <2>2. p[1] \in contested /\ p[2] \in contested /\ p = <<p[1], p[2]>>
    BY <2>1
  <2>3. QED
    BY <2>1, <2>2
<1>5. QED
  BY <1>2, <1>3, <1>4

(* A pass over all claims detects every pair that disagrees. *)
LEMMA DetectedPairs ==
    ASSUME NEW C \in SUBSET Claim, NEW identity, NEW e
    PROVE  e \in Detected(C, identity) <=>
             \E x, y \in C : x < y /\ Disagree(identity, x, y) /\ e = Dispute(x, y)
<1> DEFINE facts == {Fact(identity, c) : c \in C \cap Contestable}
<1>1. \A x, y \in C : Disagree(identity, x, y) => Fact(identity, x) \in facts
  BY DEF Disagree
<1>2. QED
  BY <1>1, RowPairs DEF Detected

(* A pass over the facts some documents touch, those one side of which is theirs. *)
LEMMA TouchedPairs ==
    ASSUME NEW C \in SUBSET Claim, NEW identity, NEW docs, NEW x \in C, NEW y \in C, x < y,
           Disagree(identity, x, y), ClaimDoc[x] \in docs \/ ClaimDoc[y] \in docs
    PROVE  Dispute(x, y) \in ConflictRows(C, identity, Touched(C, identity, docs))
<1>1. x \in Contestable /\ y \in Contestable /\ Fact(identity, x) = Fact(identity, y)
  BY DEF Disagree
<1>2. Fact(identity, x) \in Touched(C, identity, docs)
  BY <1>1 DEF Touched
<1>3. QED
  BY <1>2, RowPairs

(* What identities agree on for two claims decides whether these disagree. *)
LEMMA SameFactsDisagree ==
    ASSUME NEW i, NEW j, NEW x, NEW y, Fact(i, x) = Fact(j, x), Fact(i, y) = Fact(j, y)
    PROVE  Disagree(i, x, y) <=> Disagree(j, x, y)
BY DEF Disagree

(* One set of disputes under identities that agree on the facts of its claims. *)
LEMMA SameDetected ==
    ASSUME NEW C \in SUBSET Claim, NEW i, NEW j, \A c \in C : Fact(i, c) = Fact(j, c)
    PROVE  Detected(C, i) = Detected(C, j)
<1>1. \A x, y \in C : Disagree(i, x, y) <=> Disagree(j, x, y)
  BY SameFactsDisagree
<1>2. \A e : e \in Detected(C, i) <=> e \in Detected(C, j)
  BY <1>1, DetectedPairs
<1>3. QED
  BY <1>2

(* Decisions are only ever added. *)
LEMMA DecisionsGrow ==
    ASSUME DecidedInv, [DecisionsNext]_decisions
    PROVE  /\ DOMAIN decided' = Mention
           /\ \A m \in Mention : decided[m] \subseteq decided'[m]
           /\ Steadfast' => Steadfast
<1>1. DOMAIN decided' = Mention /\ \A m \in Mention : decided[m] \subseteq decided'[m]
  BY DEF DecisionsNext, decisions, DecidedInv
<1>2. QED
  BY <1>1 DEF Steadfast

(* A steadfast mention keeps the identity it was decided to have. *)
LEMMA LastingStays ==
    ASSUME DecidedInv, [DecisionsNext]_decisions, Steadfast', NEW m \in Mention, decided[m] # {}
    PROVE  Lasting'[m] = Lasting[m]
<1>1. decided[m] \subseteq decided'[m] /\ \A p, q \in decided'[m] : p = q
  BY DecisionsGrow DEF Steadfast
<1>2. decided[m] = decided'[m]
  BY <1>1
<1>3. QED
  BY <1>2 DEF Lasting

(* So a readable claim stays about the same fact. *)
LEMMA FactsStay ==
    ASSUME TypeOK, DecidedInv, Familiar, [DecisionsNext]_decisions, Steadfast',
           NEW c \in Visible(graph)
    PROVE  Fact(Lasting', c) = Fact(Lasting, c)
<1>1. c \in Claim /\ Assertion(c) \in graph.edges
  BY DEF Visible
<1>2. CASE SubjectMention[c] = NoMention
  BY <1>2 DEF Fact, SubjectIdentity
<1>3. CASE SubjectMention[c] # NoMention
  <2>1. SubjectMention[c] \in Mention /\ decided[SubjectMention[c]] # {}
    BY <1>1, <1>3, ClaimAssumption DEF Familiar
  <2>2. Lasting'[SubjectMention[c]] = Lasting[SubjectMention[c]]
    BY <2>1, LastingStays
  <2>3. QED
    BY <2>2 DEF Fact, SubjectIdentity
<1>4. QED
  BY <1>2, <1>3

(* While nobody commits, the identity recorded is the lasting one. *)
LEMMA RecordedLasts ==
    ASSUME TypeOK, PendingInv, DecidedInv, Clean, Familiar, Steadfast,
           \A a \in Asks : pc[a] \notin MentionsWritten, NEW c \in Visible(graph)
    PROVE  Fact(IdentityOf(mention), c) = Fact(Lasting, c)
<1>1. c \in Claim /\ Assertion(c) \in graph.edges
  BY DEF Visible
<1>2. CASE SubjectMention[c] = NoMention
  BY <1>2 DEF Fact, SubjectIdentity
<1>3. CASE SubjectMention[c] # NoMention
  <2> DEFINE m == SubjectMention[c]
  <2>1. m \in Mention /\ decided[m] # {}
    BY <1>1, <1>3, ClaimAssumption DEF Familiar
  <2>2. mention[m].status \in {"absent", "pending", "resolved", "unresolved"}
    BY <2>1 DEF TypeOK, Record
  <2> HIDE DEF m
  <2>3. mention[m].status # "pending"
    BY <2>1 DEF PendingInv, Decides
  <2>4. Decision(m) = {IdentityOf(mention)[m]}
    BY <2>1, <2>2, <2>3 DEF DecidedInv, Decision
  <2>5. IdentityOf(mention)[m] \in decided[m] /\ The(decided[m]) \in decided[m]
    <3>1. Decision(m) \subseteq decided[m]
      BY <2>1 DEF DecidedInv
    <3>2. QED
      BY <2>1, <2>4, <3>1, TheIn
  <2>6. Lasting[m] = IdentityOf(mention)[m]
    BY <2>1, <2>5 DEF Lasting, Steadfast
  <2>7. QED
    BY <2>6 DEF Fact, SubjectIdentity, m
<1>4. QED
  BY <1>2, <1>3

(* Without failures, a step is one thread's, and the other threads stay where they are. *)
LEMMA CalmSteps ==
    ASSUME TypeOK, [DecisionsNext]_decisions, Clean'
    PROVE  Clean /\ (UNCHANGED decisions \/ \E a \in Asks : Ask(a) \/ Progress(a))
BY CleanBefore DEF DecisionsNext, decisions, Next

LEMMA OthersStill ==
    ASSUME TypeOK, NEW a \in Asks, Ask(a) \/ Progress(a), NEW b \in Asks \ {a}
    PROVE  /\ pc'[b] = pc[b] /\ doc'[b] = doc[b] /\ prepared'[b] = prepared[b]
           /\ written'[b] = written[b] /\ disputes'[b] = disputes[b]
<1>1. /\ DOMAIN pc = Asks /\ DOMAIN doc = Asks /\ DOMAIN prepared = Asks /\ DOMAIN written = Asks
      /\ DOMAIN disputes = Asks
  BY DEF TypeOK
<1>2. CASE \/ Ask(a) \/ Check(a) \/ NothingToDo(a) \/ StartCommit(a) \/ SkipDocument(a)
           \/ WriteBatch(a) \/ Observe(a) \/ Decide(a) \/ Register(a) \/ NothingWritten(a)
  BY <1>1, <1>2 DEF Ask, Check, NothingToDo, StartCommit, SkipDocument, WriteBatch, Observe, Decide,
               Register, NothingWritten, thread
<1>3. CASE Prepare(a)
  <2>1. \E p : prepared' = [prepared EXCEPT ![a] = p]
    BY <1>3 DEF Prepare
  <2>2. QED
    BY <1>1, <1>3, <2>1 DEF Prepare
<1>4. CASE Reconcile(a)
  <2>1. \E rows : disputes' = disputes \/ disputes' = [disputes EXCEPT ![a] = rows]
    BY <1>4 DEF Reconcile, StartReconcile, Adjudicate, WriteConflicts, RegisterConflicts, thread
  <2>2. QED
    BY <1>1, <1>4, <2>1 DEF Reconcile, StartReconcile, Adjudicate, WriteConflicts,
               RegisterConflicts, Release, thread
<1>5. CASE Deliver(a)
  BY <1>1, <1>5 DEF Deliver, Forget
<1>6. QED
  BY <1>2, <1>3, <1>4, <1>5 DEF Progress, Commit

(* What one step does to the graph and to the mentions is what its batch does. *)
LEMMA StepWrites ==
    ASSUME NEW a \in Asks, Ask(a) \/ Progress(a)
    PROVE  \/ UNCHANGED <<graph, mention>>
           \/ /\ WriteBatch(a) \/ WriteConflicts(a)
              /\ graph' = GraphAfter(a)
              /\ mention' = mention \/ mention' = MentionAfter(a)
BY DEF Ask, Progress, Check, Prepare, NothingToDo, Commit, StartCommit, SkipDocument, WriteBatch,
       Observe, Decide, Register, NothingWritten, Reconcile, StartReconcile, Adjudicate,
       WriteConflicts, RegisterConflicts, Deliver

(* Only the batch of the assertions asserts, and what it asserts are its own claims. *)
LEMMA AssertedByOwn ==
    ASSUME TypeOK, RowsCurrent, NEW a \in Asks, NEW c, Assertion(c) \in EdgeRows(a)
    PROVE  pc[a] = "asserts" /\ c \in ClaimsOf(a)
<1>1. Assertion(c).type = "ASSERTS" /\ Assertion(c).dst = ClaimNode(c)
  BY DEF Assertion, Edge
<1>2. pc[a] = "conflicts_with" => \A e \in disputes[a] : e.type = "CONFLICTS_WITH"
  BY RowsAreDisputes DEF RowsCurrent, Detected
<1>3. pc[a] = "asserts"
  BY <1>1, <1>2 DEF EdgeRows, At, Edge, Resolution, Support
<1>4. PICK k \in ClaimsOf(a) : Assertion(c) = Assertion(k)
  BY <1>3 DEF EdgeRows, At, ClaimsOf
<1>5. ClaimNode(c) = ClaimNode(k)
  BY <1>1, <1>4 DEF Assertion, Edge
<1>6. QED
  BY <1>3, <1>4, <1>5 DEF ClaimNode, Node

(* While it writes claims, a thread stays with its document. *)
LEMMA ClaimsKeepDocument ==
    ASSUME TypeOK, NEW a \in Asks, Ask(a) \/ Progress(a), pc[a] \in ClaimSteps,
           pc'[a] \in ClaimSteps
    PROVE  WriteBatch(a) /\ doc' = doc
<1>1. DOMAIN pc = Asks
  BY DEF TypeOK
<1>2. ~ Register(a)
  BY <1>1 DEF Register, ClaimSteps
<1>3. QED
  BY <1>2 DEF ClaimSteps, Ask, Progress, Check, Prepare, NothingToDo, Commit, StartCommit,
              SkipDocument, WriteBatch, Observe, Decide, NothingWritten, Reconcile,
              StartReconcile, Adjudicate, WriteConflicts, RegisterConflicts, Deliver, thread

(* A batch is what a commit writes before its claims. *)
LEMMA BatchesEnterClaims ==
    ASSUME TypeOK, NEW a \in Asks, Ask(a) \/ Progress(a), pc[a] \notin ClaimSteps,
           pc'[a] \in ClaimSteps
    PROVE  WriteBatch(a) /\ doc' = doc
<1>1. DOMAIN pc = Asks
  BY DEF TypeOK
<1>2. ASSUME Observe(a) \/ Decide(a) PROVE FALSE
  <2>1. pc'[a] \in {"entities", "graph_resolves"}
    BY <1>1, <1>2 DEF Observe, Decide, Following, Order, ClaimSteps
  <2>2. QED
    BY <2>1 DEF ClaimSteps
<1>3. \/ UNCHANGED pc \/ WriteBatch(a)
      \/ pc'[a] \in {"idle", "check", "commit", "returned", "document", "adjudicate",
                     "conflicts_with", "register_conflicts"}
  BY <1>1, <1>2
  DEF Ask, Progress, Check, Prepare, NothingToDo, Commit, StartCommit, SkipDocument, Register,
      NothingWritten, Reconcile, StartReconcile, Adjudicate, WriteConflicts, RegisterConflicts,
      Deliver, Release
<1>4. QED
  BY <1>3 DEF ClaimSteps, WriteBatch, thread

(* It comes to its claims from the statuses, unless there is nobody to decide. *)
LEMMA ClaimsEntered ==
    ASSUME TypeOK, NEW a \in Asks, WriteBatch(a), pc[a] \notin ClaimSteps, pc'[a] \in ClaimSteps
    PROVE  pc[a] = "statuses" \/ MentionsIn(doc[a]) = {}
<1>1. pc'[a] = Following(a)
  BY DEF WriteBatch, TypeOK
<1>2. pc[a] \in NodeSteps \cup EdgeSteps \cup {"statuses"}
  BY DEF WriteBatch
<1>3. QED
  BY <1>1, <1>2 DEF NodeSteps, EdgeSteps, Following, Order, ClaimSteps, StructureStart, TicketStart,
                    IdentityStart

LEMMA DecidedStep ==
    ASSUME TypeOK, DecidedInv, [DecisionsNext]_decisions
    PROVE  DecidedInv'
<1>1. ASSUME NEW m \in Mention PROVE Decision(m)' \subseteq decided'[m]
  <2>1. CASE UNCHANGED decisions
    <3>1. mention' = mention /\ decided' = decided
      BY <2>1 DEF decisions, vars
    <3>2. QED
      BY <3>1 DEF Decision, DecidedInv
  <2>2. CASE DecisionsNext
    BY <2>2 DEF DecisionsNext
  <2>3. QED
    BY <2>1, <2>2
<1>2. mention' = mention \/ \E a \in Asks : mention' = MentionAfter(a)
  <2>1. CASE UNCHANGED decisions
    BY <2>1 DEF decisions, vars
  <2>2. CASE Next
    BY <2>2
    DEF Next, Ask, Progress, Check, Prepare, NothingToDo, Commit, StartCommit, SkipDocument,
        WriteBatch, Observe, Decide, Register, NothingWritten, Reconcile, StartReconcile,
        Adjudicate, WriteConflicts, RegisterConflicts, Deliver, ResolutionFails, ReconcileFails,
        QuestionFails, Raised, Crash
  <2>3. QED
    BY <2>1, <2>2 DEF DecisionsNext
<1>3. ASSUME NEW m \in Mention, mention[m].status # "absent" PROVE mention'[m].status # "absent"
  <2>1. mention[m] \in Record
    BY DEF TypeOK
  <2>2. \A a \in Asks : MentionAfter(a)[m].status \in {"pending", "resolved", "unresolved"}
                            \/ MentionAfter(a)[m] = mention[m]
    BY <2>1 DEF MentionAfter, Verdict, Record
  <2>3. QED
    BY <1>2, <1>3, <2>2
<1>4. ASSUME NEW m \in Mention, decided'[m] # {} PROVE mention'[m].status # "absent"
  <2>1. CASE decided[m] # {}
    BY <1>3, <2>1 DEF DecidedInv
  <2>2. CASE decided[m] = {}
    <3>1. DecisionsNext
      BY <1>4, <2>2 DEF decisions
    <3>2. Decision(m)' # {}
      BY <1>4, <2>2, <3>1 DEF DecisionsNext
    <3>3. QED
      BY <3>2 DEF Decision
  <2>3. QED
    BY <2>1, <2>2
<1>5. DOMAIN decided' = Mention
  BY DecisionsGrow
<1>6. QED
  BY <1>1, <1>4, <1>5 DEF DecidedInv

(* A document's claims are written when each of its mentions has been decided. *)
LEMMA FamiliarStep ==
    ASSUME TypeOK, RowsCurrent, OwnClaims, DecidedInv, Familiar, [DecisionsNext]_decisions, Clean'
    PROVE  Familiar'
<1>1. \A m \in Mention : decided[m] \subseteq decided'[m]
  BY DecisionsGrow
<1>2. CASE UNCHANGED decisions
  BY <1>2 DEF decisions, vars, thread, Familiar
<1>3. ASSUME NEW a \in Asks, Ask(a) \/ Progress(a), DecisionsNext
      PROVE  Familiar'
  <2>1. ASSUME NEW c \in Claim, Assertion(c) \in graph'.edges, SubjectMention[c] # NoMention
        PROVE  decided'[SubjectMention[c]] # {}
    <3>1. SubjectMention[c] \in Mention /\ DocOf[SubjectMention[c]] = ClaimDoc[c]
      BY <2>1, ClaimAssumption
    <3>2. CASE Assertion(c) \in graph.edges
      BY <1>1, <2>1, <3>1, <3>2 DEF Familiar
    <3>3. CASE Assertion(c) \notin graph.edges
      <4>1. graph' = GraphAfter(a)
        BY <1>3, <2>1, <3>3, StepWrites
      <4>2. Assertion(c) \in EdgeRows(a)
        BY <2>1, <3>3, <4>1, GraphAfterGrows
      <4>3. pc[a] = "asserts" /\ c \in ClaimsOf(a)
        BY <4>2, AssertedByOwn
      <4>4. doc[a] \in Doc
        BY <4>3 DEF TypeOK, CommitSteps, ClaimSteps
      <4>5. ClaimDoc[c] = doc[a]
        BY <4>3, <4>4 DEF OwnClaims, ClaimsOf
      <4>6. decided[SubjectMention[c]] # {}
        BY <3>1, <4>3, <4>5 DEF Familiar, ClaimSteps, MentionsIn
      <4>7. QED
        BY <1>1, <3>1, <4>6
    <3>4. QED
      BY <3>2, <3>3
  <2>2. ASSUME NEW b \in Asks, pc'[b] \in ClaimSteps, NEW m \in MentionsIn(doc'[b])
        PROVE  decided'[m] # {}
    <3>1. m \in Mention
      BY <2>2 DEF MentionsIn
    <3>2. CASE b # a
      <4>1. pc'[b] = pc[b] /\ doc'[b] = doc[b]
        BY <1>3, <3>2, OthersStill
      <4>2. QED
        BY <1>1, <2>2, <3>1, <4>1 DEF Familiar
    <3>3. CASE b = a /\ pc[a] \in ClaimSteps
      <4>1. doc'[a] = doc[a]
        BY <1>3, <2>2, <3>3, ClaimsKeepDocument
      <4>2. QED
        BY <1>1, <2>2, <3>1, <3>3, <4>1 DEF Familiar
    <3>4. CASE b = a /\ pc[a] \notin ClaimSteps
      <4>1. WriteBatch(a) /\ doc' = doc
        BY <1>3, <2>2, <3>4, BatchesEnterClaims
      <4>2. pc[a] = "statuses" \/ MentionsIn(doc[a]) = {}
        BY <2>2, <3>4, <4>1, ClaimsEntered
      <4>3. pc[a] = "statuses" /\ DocOf[m] = doc[a]
        BY <2>2, <3>4, <4>1, <4>2 DEF MentionsIn
      <4>4. mention'[m] = Verdict(m)
        BY <3>1, <4>1, <4>3 DEF WriteBatch, MentionAfter
      <4>5. Decision(m)' # {}
        BY <4>4 DEF Decision, Verdict
      <4>6. QED
        BY <1>3, <3>1, <4>5 DEF DecisionsNext
    <3>5. QED
      BY <3>2, <3>3, <3>4
  <2>3. QED
    BY <2>1, <2>2 DEF Familiar
<1>4. QED
  BY <1>2, <1>3, CalmSteps DEF decisions

(* What a step leaves readable, and disputed, stays so under the lasting identities. *)
LEMMA ReadersStay ==
    ASSUME TypeOK, DecidedInv, Familiar, [DecisionsNext]_decisions, Clean', Steadfast'
    PROVE  /\ Visible(graph) \subseteq Visible(graph')
           /\ graph.edges \subseteq graph'.edges
           /\ \A x, y \in Visible(graph) :
                 Disagree(Lasting', x, y) <=> Disagree(Lasting, x, y)
           /\ Detected(Visible(graph), Lasting) \subseteq Detected(Visible(graph'), Lasting')
<1>1. Visible(graph) \subseteq Visible(graph') /\ graph.edges \subseteq graph'.edges
  <2>1. CASE UNCHANGED decisions
    BY <2>1 DEF decisions, vars
  <2>2. ASSUME NEW a \in Asks, Ask(a) \/ Progress(a)
        PROVE  Visible(graph) \subseteq Visible(graph') /\ graph.edges \subseteq graph'.edges
    BY <2>2, StepWrites, ReadersKeep, GraphAfterGrows
  <2>3. QED
    BY <2>1, <2>2, CalmSteps
<1>2. \A c \in Visible(graph) : Fact(Lasting', c) = Fact(Lasting, c)
  BY FactsStay
<1>3. \A x, y \in Visible(graph) : Disagree(Lasting', x, y) <=> Disagree(Lasting, x, y)
  BY <1>2, SameFactsDisagree
<1>4. Visible(graph) \subseteq Claim /\ Visible(graph') \subseteq Claim
  BY DEF Visible
<1>5. ASSUME NEW e \in Detected(Visible(graph), Lasting)
      PROVE  e \in Detected(Visible(graph'), Lasting')
  <2>1. PICK x, y \in Visible(graph) : x < y /\ Disagree(Lasting, x, y) /\ e = Dispute(x, y)
    BY <1>4, DetectedPairs
  <2>2. QED
    BY <1>1, <1>3, <1>4, <2>1, DetectedPairs
<1>6. QED
  BY <1>1, <1>3, <1>5

(* While a thread adjudicates, nobody commits, and what it reads lasts. *)
LEMMA AdjudicationReads ==
    ASSUME TypeOK, MutualExclusion, PendingInv, DecidedInv, Clean, Familiar, Steadfast,
           NEW a \in Asks, pc[a] = "adjudicate"
    PROVE  \A c \in Visible(graph) : Fact(IdentityOf(mention), c) = Fact(Lasting, c)
<1>1. lock = a
  BY DEF MutualExclusion, Critical, ReconcileSteps
<1>2. \A b \in Asks : pc[b] \notin MentionsWritten
  BY <1>1, PromisesAreCritical DEF MutualExclusion, MentionsWritten, IdentitySteps
<1>3. QED
  BY <1>2, RecordedLasts

(* A thread comes to have rows to write by adjudicating. *)
LEMMA OnlyAdjudicationDue ==
    ASSUME TypeOK, NEW a \in Asks, Ask(a) \/ Progress(a), ~ Adjudicate(a)
    PROVE  pc'[a] # "conflicts_with"
<1>1. DOMAIN pc = Asks /\ pc[a] \in Open \cup Critical
  BY DEF TypeOK
<1>2. CASE WriteBatch(a) \/ Observe(a) \/ Decide(a)
  <2>1. pc[a] \in CommitSteps \ {"register"}
    BY <1>2 DEF WriteBatch, Observe, Decide, NodeSteps, EdgeSteps, CommitSteps, StructureSteps,
                IdentitySteps, ClaimSteps
  <2>2. Following(a) \in CommitSteps
    BY <2>1, FollowingIsCommit
  <2>3. QED
    BY <1>1, <1>2, <2>2 DEF WriteBatch, Observe, Decide, CommitSteps, StructureSteps, IdentitySteps,
                ClaimSteps
<1>3. CASE ~ (WriteBatch(a) \/ Observe(a) \/ Decide(a))
  BY <1>1, <1>3
  DEF Ask, Progress, Check, Prepare, NothingToDo, Commit, StartCommit, SkipDocument, Register,
      NothingWritten, Reconcile, StartReconcile, WriteConflicts, RegisterConflicts, Deliver, Release
<1>4. QED
  BY <1>2, <1>3

LEMMA JustifiedStep ==
    ASSUME TypeOK, MutualExclusion, PendingInv, DecidedInv, Familiar, Justified,
           [DecisionsNext]_decisions, Clean', Steadfast'
    PROVE  Justified'
<1>1. Clean /\ Steadfast
  BY CalmSteps, DecisionsGrow
<1>2. Detected(Visible(graph), Lasting) \subseteq Detected(Visible(graph'), Lasting')
  BY ReadersStay
<1>3. CASE UNCHANGED decisions
  <2>1. UNCHANGED <<graph, pc, disputes>>
    BY <1>3 DEF decisions, vars, thread
  <2>2. QED
    BY <1>2, <2>1 DEF Justified, Due
<1>4. ASSUME NEW a \in Asks, Ask(a) \/ Progress(a)
      PROVE  Justified'
  <2>1. ASSUME NEW e \in Persisted(graph') \ Persisted(graph)
        PROVE  e \in Detected(Visible(graph), Lasting)
    <3>1. graph' = GraphAfter(a)
      BY <1>4, <2>1, StepWrites
    <3>2. pc[a] = "conflicts_with" /\ e \in disputes[a]
      BY <2>1, <3>1, NewlyPersisted
    <3>3. QED
      BY <3>2 DEF Justified, Due
  <2>2. ASSUME NEW b \in Asks, NEW e \in Due(b)', ~ (b = a /\ Adjudicate(a))
        PROVE  e \in Detected(Visible(graph), Lasting)
    <3>1. CASE b # a
      BY <1>4, <2>2, <3>1, OthersStill DEF Due, Justified
    <3>2. CASE b = a
      BY <1>4, <2>2, <3>2, OnlyAdjudicationDue DEF Due
    <3>3. QED
      BY <3>1, <3>2
  <2>3. ASSUME Adjudicate(a), NEW e \in Due(a)'
        PROVE  e \in Detected(Visible(graph), Lasting)
    <3>1. PICK facts :
             disputes' = [disputes EXCEPT ![a] =
                            ConflictRows(Visible(graph), IdentityOf(mention), facts)]
      BY <2>3 DEF Adjudicate, Subjects
    <3>2. e \in ConflictRows(Visible(graph), IdentityOf(mention), facts)
      BY <2>3, <3>1 DEF Due, TypeOK
    <3>3. e \in Detected(Visible(graph), IdentityOf(mention))
      BY <3>2, SomeFacts
    <3>4. \A c \in Visible(graph) : Fact(IdentityOf(mention), c) = Fact(Lasting, c)
      BY <1>1, <2>3, AdjudicationReads DEF Adjudicate
    <3>5. Visible(graph) \subseteq Claim
      BY DEF Visible
    <3>6. QED
      BY <3>3, <3>4, <3>5, SameDetected
  <2>4. QED
    BY <1>2, <2>1, <2>2, <2>3 DEF Justified
<1>5. QED
  BY <1>3, <1>4, CalmSteps

(* A dispute two readable claims are in is written when its rows are: both ends exist. *)
LEMMA DueIsWritten ==
    ASSUME TypeOK, NEW a \in Asks, pc[a] = "conflicts_with", NEW x \in Visible(graph),
           NEW y \in Visible(graph), Dispute(x, y) \in disputes[a]
    PROVE  Dispute(x, y) \in GraphAfter(a).edges
<1>1. Assertion(x) \in graph.edges /\ Assertion(y) \in graph.edges
  BY DEF Visible
<1>2. ClaimNode(x) \in graph.nodes /\ ClaimNode(y) \in graph.nodes
  BY <1>1 DEF TypeOK, Anchored, Assertion, Edge
<1>3. Dispute(x, y) \in EdgeRows(a)
  BY DEF EdgeRows, At
<1>4. {Dispute(x, y).src, Dispute(x, y).dst} \subseteq graph.nodes
  BY <1>2 DEF Dispute, Edge
<1>5. QED
  BY <1>3, <1>4, GraphAfterGrows

(* A thread that committed a document of the pair goes on until it has compared them. *)
LEMMA WrittenIsCompared ==
    ASSUME TypeOK, MutualExclusion, PendingInv, DecidedInv, Clean, Familiar, Steadfast,
           NEW a \in Asks, Ask(a) \/ Progress(a), NEW x \in Visible(graph), NEW y \in Visible(graph),
           x < y, Disagree(Lasting, x, y),
           pc[a] \in CommitSteps \cup {"commit", "adjudicate"},
           ClaimDoc[x] \in written[a] \/ ClaimDoc[y] \in written[a]
    PROVE  Owes(a, x, y)'
<1>1. /\ DOMAIN pc = Asks /\ DOMAIN written = Asks /\ DOMAIN disputes = Asks
  BY DEF TypeOK
<1>2. pc[a] \notin {"idle", "check", "returned", "conflicts_with", "register_conflicts"}
  BY DEF CommitSteps, StructureSteps, IdentitySteps, ClaimSteps
<1>3. CASE WriteBatch(a) \/ Observe(a) \/ Decide(a)
  <2>1. pc[a] \in CommitSteps \ {"register"}
    BY <1>3 DEF WriteBatch, Observe, Decide, NodeSteps, EdgeSteps, CommitSteps, StructureSteps,
                IdentitySteps, ClaimSteps
  <2>2. pc'[a] \in CommitSteps /\ written' = written
    BY <1>1, <1>3, <2>1, FollowingIsCommit DEF WriteBatch, Observe, Decide, thread
  <2>3. QED
    BY <2>2 DEF Owes
<1>4. CASE Register(a)
  <2>1. pc'[a] = "commit" /\ written[a] \subseteq written'[a]
    BY <1>1, <1>4 DEF Register
  <2>2. QED
    BY <2>1 DEF Owes
<1>5. CASE StartCommit(a) \/ SkipDocument(a) \/ StartReconcile(a)
  <2>1. pc'[a] \in {"document", "commit", "adjudicate"} /\ written' = written
    BY <1>1, <1>5 DEF StartCommit, SkipDocument, StartReconcile, thread
  <2>2. QED
    BY <2>1 DEF Owes, CommitSteps, StructureSteps
<1>6. CASE Adjudicate(a)
  <2> DEFINE rows == ConflictRows(Visible(graph), IdentityOf(mention),
                                  Touched(Visible(graph), IdentityOf(mention), written[a]))
  <2>1. Visible(graph) \subseteq Claim /\ pc[a] = "adjudicate"
    BY <1>6 DEF Visible, Adjudicate
  <2>2. \A c \in Visible(graph) : Fact(IdentityOf(mention), c) = Fact(Lasting, c)
    BY <2>1, AdjudicationReads
  <2>3. Disagree(IdentityOf(mention), x, y)
    BY <2>2, SameFactsDisagree
  <2>4. Dispute(x, y) \in rows
    BY <2>1, <2>3, TouchedPairs
  <2>5. disputes'[a] = rows /\ pc'[a] = "conflicts_with"
    BY <1>1, <1>6, <2>4 DEF Adjudicate, Subjects
  <2>6. QED
    BY <2>4, <2>5 DEF Owes, Due
<1>7. QED
  BY <1>2, <1>3, <1>4, <1>5, <1>6
  DEF Ask, Progress, Check, Prepare, NothingToDo, Commit, NothingWritten, Reconcile,
      WriteConflicts, RegisterConflicts, Deliver

(* What a thread owes it pays, or still owes. *)
LEMMA OwesKept ==
    ASSUME TypeOK, MutualExclusion, PendingInv, OwnClaims, DecidedInv, Clean, Familiar, Steadfast,
           NEW a \in Asks, Ask(a) \/ Progress(a), NEW x \in Visible(graph), NEW y \in Visible(graph),
           x < y, Disagree(Lasting, x, y), NEW b \in Asks, Owes(b, x, y)
    PROVE  Dispute(x, y) \in graph'.edges \/ Owes(b, x, y)'
<1>1. CASE b # a
  BY <1>1, OthersStill DEF Owes, Due, ClaimsOf
<1>2. CASE b = a /\ Dispute(x, y) \in Due(a)
  <2>1. pc[a] = "conflicts_with" /\ Dispute(x, y) \in disputes[a]
    BY <1>2 DEF Due
  <2>2. WriteConflicts(a)
    BY <2>1
    DEF Ask, Progress, Check, Prepare, NothingToDo, Commit, StartCommit, SkipDocument, WriteBatch,
        Observe, Decide, Register, NothingWritten, Reconcile, StartReconcile, Adjudicate,
        RegisterConflicts, Deliver, NodeSteps, EdgeSteps
  <2>3. QED
    BY <2>1, <2>2, DueIsWritten DEF WriteConflicts
<1>3. CASE /\ b = a
           /\ pc[a] \in CommitSteps \cup {"commit", "adjudicate"}
           /\ ClaimDoc[x] \in written[a] \/ ClaimDoc[y] \in written[a]
  BY <1>3, WrittenIsCompared
<1>4. CASE b = a /\ pc[a] = "supported_by" /\ (x \in ClaimsOf(a) \/ y \in ClaimsOf(a))
  <2>1. WriteBatch(a)
    BY <1>4
    DEF Ask, Progress, Check, Prepare, NothingToDo, Commit, StartCommit, SkipDocument,
        Observe, Decide, Register, NothingWritten, Reconcile, StartReconcile, Adjudicate,
        WriteConflicts, RegisterConflicts, Deliver
  <2>2. pc'[a] = "register" /\ doc' = doc /\ prepared' = prepared
    BY <1>4, <2>1 DEF WriteBatch, TypeOK, Following, ClaimOrder, ClaimSteps, thread
  <2>3. QED
    BY <1>4, <2>2 DEF Owes, ClaimsOf
<1>5. CASE b = a /\ pc[a] = "register" /\ (x \in ClaimsOf(a) \/ y \in ClaimsOf(a))
  <2>1. Register(a)
    BY <1>5
    DEF Ask, Progress, Check, Prepare, NothingToDo, Commit, StartCommit, SkipDocument, WriteBatch,
        Observe, Decide, NothingWritten, Reconcile, StartReconcile, Adjudicate, WriteConflicts,
        RegisterConflicts, Deliver, NodeSteps, EdgeSteps
  <2>2. doc[a] \in Doc
    BY <1>5 DEF TypeOK, CommitSteps, ClaimSteps
  <2>3. ClaimDoc[x] = doc[a] \/ ClaimDoc[y] = doc[a]
    BY <1>5, <2>2 DEF OwnClaims, ClaimsOf
  <2>4. pc'[a] = "commit" /\ doc[a] \in written'[a]
    BY <1>5, <2>1 DEF Register, TypeOK, ClaimsOf
  <2>5. QED
    BY <1>5, <2>3, <2>4 DEF Owes
<1>6. QED
  BY <1>1, <1>2, <1>3, <1>4, <1>5 DEF Owes

(* A pair that comes to be readable is owed by the thread that made it so. *)
LEMMA MindedStep ==
    ASSUME TypeOK, MutualExclusion, PendingInv, EvidenceInv, RowsCurrent, DecidedInv, Familiar,
           Minded, [DecisionsNext]_decisions, Clean', Steadfast'
    PROVE  Minded'
<1>1. Clean /\ Steadfast /\ OwnClaims
  BY CalmSteps, DecisionsGrow DEF EvidenceInv
<1>2. CASE UNCHANGED decisions
  <2>1. /\ UNCHANGED <<graph, pc, doc, prepared, written, disputes, decided>>
    BY <1>2 DEF decisions, vars, thread
  <2>2. Lasting' = Lasting
    BY <2>1 DEF Lasting
  <2>3. \A a \in Asks : \A x, y : Owes(a, x, y)' <=> Owes(a, x, y)
    BY <2>1 DEF Owes, Due, ClaimsOf
  <2>4. Visible(graph)' = Visible(graph)
    BY <2>1
  <2>5. QED
    BY <2>1, <2>2, <2>3, <2>4 DEF Minded
<1>3. ASSUME NEW a \in Asks, Ask(a) \/ Progress(a)
      PROVE  Minded'
  <2>1. SUFFICES ASSUME NEW x \in Visible(graph'), NEW y \in Visible(graph'), x < y,
                        Disagree(Lasting', x, y)
                 PROVE  Dispute(x, y) \in graph'.edges \/ \E b \in Asks : Owes(b, x, y)'
    BY DEF Minded
  <2>2. CASE x \in Visible(graph) /\ y \in Visible(graph)
    <3>1. Disagree(Lasting, x, y)
      BY <2>1, <2>2, ReadersStay
    <3>2. CASE Dispute(x, y) \in graph.edges
      BY <3>2, ReadersStay
    <3>3. CASE \E b \in Asks : Owes(b, x, y)
      <4>1. PICK b \in Asks : Owes(b, x, y)
        BY <3>3
      <4>2. QED
        BY <1>1, <1>3, <2>1, <2>2, <3>1, <4>1, OwesKept
    <3>4. QED
      BY <2>1, <2>2, <3>1, <3>2, <3>3 DEF Minded
  <2>3. ASSUME NEW c \in {x, y}, c \notin Visible(graph)
        PROVE  Owes(a, x, y)'
    <3>1. /\ WriteBatch(a) \/ WriteConflicts(a)
          /\ graph' = GraphAfter(a)
      BY <1>3, <2>1, <2>3, StepWrites
    <3>2. pc[a] \in {"asserts", "supported_by"} /\ c \in ClaimsOf(a)
      BY <2>1, <2>3, <3>1, NewlyVisible DEF ClaimsOf
    <3>3. WriteBatch(a)
      BY <3>1, <3>2 DEF WriteConflicts
    <3>4. pc'[a] \in {"supported_by", "register"} /\ doc' = doc /\ prepared' = prepared
      BY <3>2, <3>3 DEF WriteBatch, TypeOK, Following, ClaimOrder, ClaimSteps, thread
    <3>5. QED
      BY <2>3, <3>2, <3>4 DEF Owes, ClaimsOf
  <2>4. QED
    BY <2>2, <2>3
<1>4. QED
  BY <1>2, <1>3, CalmSteps

LEMMA GateStep ==
    TypeOK /\ MutualExclusion /\ PendingInv /\ EvidenceInv /\ RowsCurrent /\ GateInv
        /\ [DecisionsNext]_decisions
    => GateInv'
<1> SUFFICES ASSUME TypeOK, MutualExclusion, PendingInv, EvidenceInv, RowsCurrent, GateInv,
                    [DecisionsNext]_decisions
             PROVE  GateInv'
  OBVIOUS
<1>1. DecidedInv'
  BY DecidedStep DEF GateInv
<1>2. ASSUME Clean' PROVE Familiar'
  BY <1>2, CalmSteps, FamiliarStep DEF GateInv, EvidenceInv
<1>3. ASSUME Clean', Steadfast' PROVE Justified' /\ Minded'
  <2>1. Clean /\ Steadfast
    BY <1>3, CalmSteps, DecisionsGrow DEF GateInv
  <2>2. QED
    BY <1>3, <2>1, JustifiedStep, MindedStep DEF GateInv
<1>4. QED
  BY <1>1, <1>2, <1>3 DEF GateInv

LEMMA GateInit == DecisionsInit => GateInv
<1> SUFFICES ASSUME DecisionsInit PROVE GateInv
  OBVIOUS
<1>1. /\ graph = EmptyGraph /\ decided = [m \in Mention |-> {}]
      /\ \A a \in Asks : pc[a] = "idle"
      /\ \A m \in Mention : mention[m].status = "absent"
  BY DEF DecisionsInit, Init
<1>2. DecidedInv
  BY <1>1 DEF DecidedInv, Decision
<1>3. Familiar
  BY <1>1 DEF Familiar, EmptyGraph, ClaimSteps
<1>4. Visible(graph) = {} /\ Persisted(graph) = {}
  BY <1>1 DEF EmptyGraph, Visible, Persisted
<1>5. Justified /\ Minded
  BY <1>1, <1>4 DEF Justified, Minded, Due
<1>6. QED
  BY <1>2, <1>3, <1>5 DEF GateInv

(* Between questions nobody owes anything, and what was owed has been paid. *)
LEMMA QuietIsExact ==
    TypeOK /\ PendingInv /\ GateInv => GateExact
<1> SUFFICES ASSUME TypeOK, PendingInv, GateInv, Clean, Quiet, Steadfast
             PROVE  Persisted(graph) = Detected(Visible(graph), IdentityOf(mention))
  BY DEF GateExact
<1>1. \A a \in Asks : pc[a] \in {"idle", "returned"}
  BY DEF Quiet
<1>2. \A a \in Asks : pc[a] \notin MentionsWritten
  BY <1>1 DEF MentionsWritten, IdentitySteps
<1>3. \A c \in Visible(graph) : Fact(IdentityOf(mention), c) = Fact(Lasting, c)
  BY <1>2, RecordedLasts DEF GateInv
<1>4. Visible(graph) \subseteq Claim
  BY DEF Visible
<1>5. Detected(Visible(graph), IdentityOf(mention)) = Detected(Visible(graph), Lasting)
  BY <1>3, <1>4, SameDetected
<1>6. Persisted(graph) \subseteq Detected(Visible(graph), Lasting)
  BY DEF GateInv, Justified
<1>7. \A a \in Asks : \A x, y : ~ Owes(a, x, y)
  BY <1>1 DEF Owes, Due, CommitSteps, StructureSteps, IdentitySteps, ClaimSteps
<1>8. ASSUME NEW e \in Detected(Visible(graph), Lasting)
      PROVE  e \in Persisted(graph)
  <2>1. PICK x, y \in Visible(graph) : x < y /\ Disagree(Lasting, x, y) /\ e = Dispute(x, y)
    BY <1>4, DetectedPairs
  <2>2. Dispute(x, y) \in graph.edges
    BY <1>7, <2>1 DEF GateInv, Minded
  <2>3. QED
    BY <2>1, <2>2 DEF Persisted, Dispute, Edge
<1>9. QED
  BY <1>5, <1>6, <1>8

(***************************************************************************)
(* With no failure, between questions, the graph holds exactly the         *)
(* disputes a pass over every readable claim detects, whatever order any   *)
(* number of threads committed and adjudicated in, as long as no mention   *)
(* was decided twice with different outcomes.                              *)
(***************************************************************************)
THEOREM DisputesAreExact == DecisionsSpec => []GateExact
<1>1. DecisionsInit => Init
  BY DEF DecisionsInit
<1>2. [DecisionsNext]_decisions => [Next]_vars
  BY DEF DecisionsNext, decisions
<1>3. QED
  BY <1>1, <1>2, GateInit, GateStep, QuietIsExact, TypeCorrect, Exclusive, PendingAlways,
     EvidenceAlways, RowsAlways, PTL
  DEF DecisionsSpec, Spec, decisions

=============================================================================
