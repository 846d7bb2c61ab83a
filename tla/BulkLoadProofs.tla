--------------------------- MODULE BulkLoadProofs ---------------------------
(***************************************************************************)
(* Theorems about BulkLoad, for every slice, batch size, set of run ids    *)
(* and number of loads: type correctness; a load that ends has written     *)
(* everything; a recorded identity has its edge; and, when all loads have  *)
(* one run id, none leaves a mention pending.                              *)
(***************************************************************************)
EXTENDS BulkLoad, GraphEvidenceProofs, TLAPS

Decision == [Mention -> Person \cup {NoPerson}]

(* Every other step writes edges only. *)
NodeSteps == {"documents", "entities", "channels", "mentions", "statuses"}

-----------------------------------------------------------------------------
(* The steps and their rows. *)

(* Which step is which: the order, spelled out for the provers. *)
LEMMA OrderIs ==
    /\ Len(Order) = 12
    /\ Order[1] = "documents" /\ Order[2] = "entities" /\ Order[3] = "channels"
    /\ Order[4] = "mentions" /\ Order[5] = "mentioned_in" /\ Order[6] = "sent_in"
    /\ Order[7] = "resolves" /\ Order[8] = "participated_in" /\ Order[9] = "decide"
    /\ Order[10] = "graph_resolves" /\ Order[11] = "candidate_for" /\ Order[12] = "statuses"
BY DEF Order

(* A batch is some of the rows it is cut from. *)
LEMMA BatchOfRows ==
    ASSUME NEW rows PROVE Batch(rows) \in SUBSET rows
<1>1. \E b \in SUBSET rows : b = rows \/ Cardinality(b) = BatchSize
  OBVIOUS
<1>2. QED
  BY <1>1 DEF Batch

LEMMA KnownArePeople == Known \in SUBSET Person
BY CorpusAssumption DEF Known

LEMMA DirectTyped ==
    ASSUME NEW m \in Direct
    PROVE  m \in Mention /\ LexicalTarget(Known, m) \in Known
BY LexicalTargetKnown DEF Direct

LEMMA NodeRowsTyped ==
    ASSUME NEW s PROVE NodeRows(s) \in SUBSET Vertex
BY KnownArePeople, CorpusAssumption DEF NodeRows, MentionNodes, Vertex, Node

LEMMA EdgeRowsTyped ==
    ASSUME NEW s, NEW dec \in Decision
    PROVE  EdgeRows(s, dec) \in SUBSET AnyEdge
<1> USE DEF AnyEdge, EdgeType, Vertex, Node, Edge
<1>1. CASE s = "mentioned_in"
  BY <1>1, CorpusAssumption DEF EdgeRows
<1>2. CASE s = "sent_in"
  BY <1>2, CorpusAssumption DEF EdgeRows
<1>3. CASE s = "resolves"
  BY <1>3, DirectTyped, KnownArePeople DEF EdgeRows, Resolution
<1>4. CASE s = "participated_in"
  BY <1>4, DirectTyped, KnownArePeople, CorpusAssumption DEF EdgeRows
<1>5. CASE s = "graph_resolves"
  BY <1>5 DEF EdgeRows, Resolution, Ambiguous, Decision
<1>6. CASE s = "candidate_for"
  <2>1. \A m \in Ambiguous : CandidatesFor(Known, m) \in SUBSET Person
    BY KnownArePeople DEF CandidatesFor
  <2>2. QED
    BY <1>6, <2>1 DEF EdgeRows, Ambiguous
<1>7. CASE s \notin {"mentioned_in", "sent_in", "resolves", "participated_in",
                     "graph_resolves", "candidate_for"}
  BY <1>7 DEF EdgeRows
<1>8. QED
  BY <1>1, <1>2, <1>3, <1>4, <1>5, <1>6, <1>7

(* A step writes vertices or edges, never both. *)
LEMMA RowsSplit ==
    ASSUME NEW s, NEW dec
    PROVE  /\ s \in NodeSteps => EdgeRows(s, dec) = {}
           /\ s \notin NodeSteps => NodeRows(s) = {}
BY DEF NodeSteps, EdgeRows, NodeRows

(* Only the step that writes the graph's decisions depends on them. *)
LEMMA RowsBeforeDecision ==
    ASSUME NEW s, NEW dec1, NEW dec2, s # "graph_resolves"
    PROVE  Rows(s, dec1) = Rows(s, dec2)
BY DEF Rows, EdgeRows

(* Scoring decides a person for each mention, or nobody. *)
LEMMA DecisionsTyped ==
    ASSUME NEW g PROVE Decisions(g) \in Decision
<1>1. \A m \in Mention : CandidatesFor(Known, m) \in SUBSET Person
  BY KnownArePeople DEF CandidatesFor
<1>2. \A m \in Ambiguous :
          Winner(g, CandidatesFor(Known, m), DocOf[m]) \in Person \cup {NoPerson}
  BY <1>1, WinnerTyped DEF Ambiguous
<1>3. \A m \in Direct : LexicalTarget(Known, m) \in Person
  BY DirectTyped, KnownArePeople
<1>4. QED
  BY <1>2, <1>3 DEF Decisions, Decision, Ambiguous

-----------------------------------------------------------------------------
(* Type correctness. *)

LEMMA TypeInit == Init => TypeOK
<1>1. ~(0 \in 1 .. Len(Order)) /\ 0 \in 0 .. Done /\ 0 \in 0 .. MaxLoads
  BY OrderIs, LoadAssumption DEF Done
<1>2. Undecided \in [Mention -> Person \cup {NoPerson}]
  BY DEF Undecided
<1>3. ASSUME Init PROVE TypeOK
  <2>1. graph \in [nodes : SUBSET Vertex, edges : SUBSET AnyEdge]
    BY <1>3 DEF Init, EmptyGraph
  <2>2. record \in [Mention -> [status : {"absent", "pending", "resolved", "unresolved"},
                                entity : Person \cup {NoPerson}]]
    BY <1>3 DEF Init
  <2>3. ~InProgress
    BY <1>3, <1>1 DEF Init, InProgress
  <2>4. QED
    BY <1>3, <1>1, <1>2, <2>1, <2>2, <2>3 DEF Init, TypeOK
<1>4. QED
  BY <1>3

(* What one batch leaves behind is typed. *)
LEMMA ApplyTyped ==
    ASSUME TypeOK, NEW batch, Apply(batch)
    PROVE  /\ graph' \in [nodes : SUBSET Vertex, edges : SUBSET AnyEdge]
           /\ record' \in [Mention -> [status : {"absent", "pending", "resolved", "unresolved"},
                                       entity : Person \cup {NoPerson}]]
<1>1. NodeRows(Order[at]) \in SUBSET Vertex /\ EdgeRows(Order[at], decided) \in SUBSET AnyEdge
  BY NodeRowsTyped, EdgeRowsTyped DEF TypeOK, Decision
<1>2. graph' \in [nodes : SUBSET Vertex, edges : SUBSET AnyEdge]
  BY <1>1 DEF Apply, UpsertNodes, UpsertEdges, TypeOK
<1>3. record' \in [Mention -> [status : {"absent", "pending", "resolved", "unresolved"},
                               entity : Person \cup {NoPerson}]]
  BY DEF Apply, RecordAfter, TypeOK
<1>4. QED
  BY <1>2, <1>3

LEMMA TypeStep == TypeOK /\ [Next]_vars => TypeOK'
<1> SUFFICES ASSUME TypeOK, [Next]_vars PROVE TypeOK'
  OBVIOUS
<1> USE OrderIs, LoadAssumption
<1>1. CASE Start
  <2>1. Undecided \in Decision
    BY DEF Undecided, Decision
  <2>2. left = {} /\ ~written
    BY <1>1 DEF Start, TypeOK
  <2>3. at' = 1 /\ InProgress' /\ at' \in 0 .. Done
    BY <1>1 DEF Start, InProgress, Done
  <2>4. left' \subseteq Rows(Order[at'], decided') /\ written' = FALSE /\ run' # NoRun
    BY <1>1, <2>2, <2>3 DEF Start, TypeOK
  <2>5. loads' \in 0 .. MaxLoads
    BY <1>1 DEF Start, TypeOK
  <2>6. QED
    BY <1>1, <2>1, <2>3, <2>4, <2>5 DEF Start, TypeOK, Decision
<1>2. CASE SkipBatch
  BY <1>2 DEF SkipBatch, TypeOK, InProgress
<1>3. CASE WriteBatch
  <2>1. Apply(Batch(left))
    BY <1>3 DEF WriteBatch
  <2>2. QED
    BY <1>3, <2>1, ApplyTyped DEF WriteBatch, TypeOK, InProgress
<1>4. CASE MarkBatch
  BY <1>4 DEF MarkBatch, TypeOK, InProgress
<1>5. CASE NextStep
  <2>1. CASE at = Len(Order)
    BY <1>5, <2>1 DEF NextStep, TypeOK, InProgress, Done
  <2>2. CASE at # Len(Order)
    BY <1>5, <2>2 DEF NextStep, TypeOK, InProgress, Done
  <2>3. QED
    BY <2>1, <2>2
<1>6. CASE Decide
  <2>1. decided' \in Decision
    BY <1>6, DecisionsTyped DEF Decide
  <2>2. left = {} /\ ~written
    BY <1>6 DEF Decide, TypeOK, InProgress, Scoring, Rows, NodeRows, EdgeRows
  <2>3. QED
    BY <1>6, <2>1, <2>2 DEF Decide, TypeOK, InProgress, Done, Scoring, Decision
<1>7. CASE Kill
  <2>1. Undecided \in Decision
    BY DEF Undecided, Decision
  <2>2. /\ graph' \in [nodes : SUBSET Vertex, edges : SUBSET AnyEdge]
        /\ record' \in [Mention -> [status : {"absent", "pending", "resolved", "unresolved"},
                                    entity : Person \cup {NoPerson}]]
    BY <1>7, ApplyTyped DEF Kill, TypeOK
  <2>3. at' = 0 /\ ~InProgress' /\ at' \in 0 .. Done
    BY <1>7 DEF Kill, InProgress, Done
  <2>4. run' = NoRun /\ left' = {} /\ written' = FALSE /\ decided' = Undecided
        /\ UNCHANGED loads
    BY <1>7 DEF Kill
  <2>5. QED
    BY <2>1, <2>2, <2>3, <2>4 DEF TypeOK, Decision
<1>8. CASE UNCHANGED vars
  BY <1>8 DEF vars, TypeOK, InProgress
<1>9. QED
  BY <1>1, <1>2, <1>3, <1>4, <1>5, <1>6, <1>7, <1>8 DEF Next

(* Every variable keeps its type, and what a load has left is of the step it is at. *)
THEOREM TypeCorrect == Spec => []TypeOK
<1>1. Init => TypeOK
  BY TypeInit
<1>2. TypeOK /\ [Next]_vars => TypeOK'
  BY TypeStep
<1>3. QED
  BY <1>1, <1>2, PTL DEF Spec

-----------------------------------------------------------------------------
(* Completeness. *)

(* The rows of a step are in the graph. *)
Kept(g, s, rows) == IF s \in NodeSteps THEN rows \subseteq g.nodes ELSE rows \subseteq g.edges

(***************************************************************************)
(* What stands behind a load: a marked batch was written; so was the one   *)
(* that awaits its mark, everything of the step that is no longer left,    *)
(* and everything of the steps before.                                     *)
(***************************************************************************)
MarksStand   == \A k \in marked : Kept(graph, k[2], Batch(k[4]))
HeadStands   == written => Kept(graph, Order[at], Batch(left))
StepStands   == InProgress => Kept(graph, Order[at], Rows(Order[at], decided) \ left)
EarlierStand == \A i \in 1 .. Len(Order) : i < at => Kept(graph, Order[i], Rows(Order[i], decided))

(* Only people the slice names are decided for, and every mention the lexical tiers settle. *)
DecidedKnown ==
    /\ \A m \in Mention : decided[m] \in Known \cup {NoPerson}
    /\ at > Scoring => \A m \in Direct : decided[m] = LexicalTarget(Known, m)

Progress == DecidedKnown /\ MarksStand /\ HeadStands /\ StepStands /\ EarlierStand

(* Nothing but Apply changes the graph, and it takes nothing away. *)
LEMMA ApplyGrows ==
    ASSUME NEW batch, Apply(batch)
    PROVE  graph.nodes \subseteq graph'.nodes /\ graph.edges \subseteq graph'.edges
BY DEF Apply, UpsertNodes, UpsertEdges

LEMMA GraphGrows ==
    ASSUME TypeOK, [Next]_vars
    PROVE  graph.nodes \subseteq graph'.nodes /\ graph.edges \subseteq graph'.edges
<1>1. (\E batch : Apply(batch)) \/ graph' = graph
  BY DEF Next, Start, SkipBatch, WriteBatch, MarkBatch, NextStep, Decide, Kill, vars
<1>2. QED
  BY <1>1, ApplyGrows

(* What a graph keeps, a larger one does. *)
LEMMA KeptGrows ==
    ASSUME NEW g, NEW h, NEW s, NEW rows, Kept(g, s, rows),
           g.nodes \subseteq h.nodes, g.edges \subseteq h.edges
    PROVE  Kept(h, s, rows)
BY DEF Kept

(* Both endpoints of an edge row are vertices of the first four steps. *)
LEMMA EndpointsAreRows ==
    ASSUME DecidedKnown, NEW s, NEW e \in EdgeRows(s, decided)
    PROVE  {e.src, e.dst} \subseteq
              NodeRows("documents") \cup NodeRows("entities") \cup NodeRows("channels")
                  \cup NodeRows("mentions")
<1>1. \A d \in Doc : /\ Node("Document", d) \in NodeRows("documents")
                     /\ ChannelOf[d] # NoChannel =>
                           Node("Channel", ChannelOf[d]) \in NodeRows("channels")
  BY DEF NodeRows
<1>2. \A m \in Mention : Node("Mention", m) \in NodeRows("mentions") /\ DocOf[m] \in Doc
  BY CorpusAssumption DEF NodeRows, MentionNodes
<1>3. \A p \in Known : Node("Entity", p) \in NodeRows("entities")
  BY DEF NodeRows
<1>4. \A m \in Direct : LexicalTarget(Known, m) \in Known /\ m \in Mention
  BY DirectTyped
<1> DEFINE Ends == NodeRows("documents") \cup NodeRows("entities") \cup NodeRows("channels")
                       \cup NodeRows("mentions")
<1>5. {e.src, e.dst} \subseteq Ends
  <2> HIDE DEF Ends
  <2>0. /\ \A d \in Doc : /\ Node("Document", d) \in Ends
                          /\ ChannelOf[d] # NoChannel => Node("Channel", ChannelOf[d]) \in Ends
        /\ \A m \in Mention : Node("Mention", m) \in Ends
        /\ \A p \in Known : Node("Entity", p) \in Ends
    BY <1>1, <1>2, <1>3 DEF Ends
  <2>1. CASE s = "mentioned_in"
    BY <2>0, <2>1, <1>2 DEF EdgeRows, Edge
  <2>2. CASE s = "sent_in"
    BY <2>0, <2>2 DEF EdgeRows, Edge
  <2>3. CASE s = "resolves"
    BY <2>0, <2>3, <1>4 DEF EdgeRows, Edge, Resolution
  <2>4. CASE s = "participated_in"
    BY <2>0, <2>4, <1>2, <1>4 DEF EdgeRows, Edge
  <2>5. CASE s = "graph_resolves"
    BY <2>0, <2>5 DEF EdgeRows, Edge, Resolution, Ambiguous, DecidedKnown
  <2>6. CASE s = "candidate_for"
    BY <2>0, <2>6 DEF EdgeRows, Edge, Ambiguous, CandidatesFor
  <2>7. QED
    BY <2>1, <2>2, <2>3, <2>4, <2>5, <2>6 DEF EdgeRows
<1>6. QED
  BY <1>5

(* A batch written after the steps before it are complete is written whole. *)
LEMMA ApplyWrites ==
    ASSUME TypeOK, Progress, InProgress, Apply(Batch(left))
    PROVE  Kept(graph', Order[at], Batch(left))
<1> DEFINE s == Order[at]
           batch == Batch(left)
<1>1. batch \subseteq Rows(s, decided)
  BY BatchOfRows DEF TypeOK
<1>2. graph' = UpsertEdges(UpsertNodes(graph, batch \cap NodeRows(s)),
                           batch \cap EdgeRows(s, decided))
  BY DEF Apply
<1>3. graph'.nodes = graph.nodes \cup (batch \cap NodeRows(s))
      /\ graph'.edges = graph.edges \cup
            {e \in batch \cap EdgeRows(s, decided) : e.src \in graph'.nodes /\ e.dst \in graph'.nodes}
  BY <1>2 DEF UpsertNodes, UpsertEdges, TypeOK
<1> HIDE DEF batch
<1>4. CASE s \in NodeSteps
  <2>1. batch \subseteq NodeRows(s)
    BY <1>1, <1>4, RowsSplit DEF Rows
  <2>2. QED
    BY <1>3, <1>4, <2>1 DEF Kept, batch
<1>5. CASE s \notin NodeSteps
  <2>1. batch \subseteq EdgeRows(s, decided)
    BY <1>1, <1>5, RowsSplit DEF Rows
  <2>2. at > 4
    BY <1>5, OrderIs DEF NodeSteps, InProgress
  <2>3. \A t \in {"documents", "entities", "channels", "mentions"} :
            NodeRows(t) \subseteq graph.nodes
    <3>1. \A i \in {1, 2, 3, 4} : Kept(graph, Order[i], Rows(Order[i], decided))
      BY <2>2, OrderIs DEF Progress, EarlierStand, InProgress
    <3>2. \A i \in {1, 2, 3, 4} : NodeRows(Order[i]) \subseteq graph.nodes
      BY <3>1, OrderIs DEF Kept, NodeSteps, Rows
    <3>3. QED
      BY <3>2, OrderIs
  <2>4. \A e \in EdgeRows(s, decided) : e.src \in graph.nodes /\ e.dst \in graph.nodes
    BY <2>3, EndpointsAreRows DEF Progress
  <2>5. QED
    BY <1>3, <1>5, <2>1, <2>4 DEF Kept, batch
<1>6. QED
  BY <1>4, <1>5

LEMMA DecidedStep == TypeOK /\ DecidedKnown /\ [Next]_vars => DecidedKnown'
<1> SUFFICES ASSUME TypeOK, DecidedKnown, [Next]_vars PROVE DecidedKnown'
  OBVIOUS
<1> USE OrderIs
<1>1. CASE Start
  BY <1>1 DEF Start, DecidedKnown, Undecided, Scoring
<1>2. CASE SkipBatch \/ WriteBatch \/ MarkBatch \/ UNCHANGED vars
  BY <1>2 DEF SkipBatch, WriteBatch, MarkBatch, vars, DecidedKnown
<1>3. CASE NextStep
  BY <1>3 DEF NextStep, DecidedKnown, Scoring, InProgress
<1>4. CASE Decide
  <2>1. \A m \in Mention : CandidatesFor(Known, m) \in SUBSET Known
    BY DEF CandidatesFor
  <2>2. \A m \in Ambiguous :
            Winner(graph, CandidatesFor(Known, m), DocOf[m]) \in Known \cup {NoPerson}
    BY <2>1, WinnerTyped DEF Ambiguous
  <2>3. \A m \in Direct : LexicalTarget(Known, m) \in Known
    BY DirectTyped
  <2>4. decided' = [m \in Mention |->
                       IF m \in Direct THEN LexicalTarget(Known, m)
                       ELSE Winner(graph, CandidatesFor(Known, m), DocOf[m])]
    BY <1>4 DEF Decide, Decisions
  <2>5. \A m \in Mention : decided'[m] \in Known \cup {NoPerson}
    BY <2>2, <2>3, <2>4 DEF Ambiguous
  <2>6. \A m \in Direct : decided'[m] = LexicalTarget(Known, m)
    BY <2>4 DEF Direct
  <2>7. QED
    BY <2>5, <2>6 DEF DecidedKnown
<1>5. CASE Kill
  BY <1>5 DEF Kill, DecidedKnown, Undecided, Scoring
<1>6. QED
  BY <1>1, <1>2, <1>3, <1>4, <1>5 DEF Next

LEMMA ProgressInit == Init => Progress
<1>1. SUFFICES ASSUME Init PROVE Progress
  OBVIOUS
<1>2. DecidedKnown
  BY <1>1 DEF Init, DecidedKnown, Undecided, Scoring
<1>3. MarksStand /\ HeadStands
  BY <1>1 DEF Init, MarksStand, HeadStands
<1>4. StepStands /\ EarlierStand
  BY <1>1, OrderIs DEF Init, StepStands, EarlierStand, InProgress
<1>5. QED
  BY <1>2, <1>3, <1>4 DEF Progress

LEMMA ProgressStep == TypeOK /\ Progress /\ [Next]_vars => Progress'
<1> SUFFICES ASSUME TypeOK, Progress, [Next]_vars PROVE Progress'
  OBVIOUS
<1> USE OrderIs
<1>0. DecidedKnown'
  BY DecidedStep DEF Progress
<1>a. /\ graph.nodes \subseteq graph'.nodes /\ graph.edges \subseteq graph'.edges
      /\ \A s, rows : Kept(graph, s, rows) => Kept(graph', s, rows)
  BY GraphGrows, KeptGrows
<1>1. CASE Start
  <2>1. MarksStand'
    BY <1>1, <1>a DEF Start, Progress, MarksStand
  <2>2. HeadStands'
    BY <1>1 DEF Start, HeadStands, TypeOK, InProgress
  <2>3. StepStands'
    BY <1>1 DEF Start, StepStands, InProgress, Kept
  <2>4. EarlierStand'
    BY <1>1 DEF Start, EarlierStand
  <2>5. QED
    BY <1>0, <2>1, <2>2, <2>3, <2>4 DEF Progress
<1>2. CASE SkipBatch
  <2>1. Kept(graph, Order[at], Batch(left))
    <3>1. Key \in marked /\ Key[2] = Order[at] /\ Key[4] = left
      BY <1>2 DEF SkipBatch, Key
    <3>2. QED
      BY <3>1 DEF Progress, MarksStand
  <2>2. Kept(graph, Order[at], Rows(Order[at], decided) \ (left \ Batch(left)))
    BY <1>2, <2>1 DEF SkipBatch, Progress, StepStands, Kept
  <2>3. StepStands'
    BY <1>2, <2>2 DEF SkipBatch, StepStands
  <2>4. QED
    BY <1>0, <1>2, <2>3 DEF SkipBatch, Progress, MarksStand, HeadStands, EarlierStand
<1>3. CASE WriteBatch
  <2>1. Kept(graph', Order[at], Batch(left))
    BY <1>3, ApplyWrites DEF WriteBatch
  <2>2. MarksStand' /\ StepStands' /\ EarlierStand'
    BY <1>3, <1>a DEF WriteBatch, Progress, MarksStand, StepStands, EarlierStand, InProgress
  <2>3. HeadStands'
    BY <1>3, <2>1 DEF WriteBatch, HeadStands
  <2>4. QED
    BY <1>0, <2>2, <2>3 DEF Progress
<1>4. CASE MarkBatch
  <2>1. Kept(graph, Order[at], Batch(left))
    BY <1>4 DEF MarkBatch, Progress, HeadStands
  <2>2. MarksStand'
    <3>1. Key[2] = Order[at] /\ Key[4] = left
      BY DEF Key
    <3>2. QED
      BY <1>4, <2>1, <3>1 DEF MarkBatch, Progress, MarksStand
  <2>3. Kept(graph, Order[at], Rows(Order[at], decided) \ (left \ Batch(left))) \/ ~InProgress
    BY <2>1 DEF Progress, StepStands, Kept
  <2>4. StepStands'
    BY <1>4, <2>3 DEF MarkBatch, StepStands, InProgress
  <2>5. QED
    BY <1>0, <1>4, <2>2, <2>4 DEF MarkBatch, Progress, HeadStands, EarlierStand
<1>5. CASE NextStep
  <2>1. Kept(graph, Order[at], Rows(Order[at], decided))
    BY <1>5 DEF NextStep, Progress, StepStands, Kept
  <2>2. EarlierStand'
    BY <1>5, <2>1 DEF NextStep, Progress, EarlierStand, InProgress
  <2>3. MarksStand' /\ HeadStands'
    BY <1>5 DEF NextStep, Progress, MarksStand, HeadStands
  <2>4. StepStands'
    BY <1>5 DEF NextStep, StepStands, InProgress, Kept
  <2>5. QED
    BY <1>0, <2>2, <2>3, <2>4 DEF Progress
<1>6. CASE Decide
  <2>1. at = 9 /\ at' = 10 /\ graph' = graph /\ left' = Rows(Order[at'], decided')
    BY <1>6 DEF Decide, Scoring
  <2>2. MarksStand'
    BY <1>6 DEF Decide, Progress, MarksStand
  <2>3. HeadStands'
    BY <1>6 DEF Decide, HeadStands, TypeOK, InProgress, Scoring, Rows, NodeRows, EdgeRows
  <2>4. StepStands'
    BY <2>1 DEF StepStands, Kept
  <2>5. \A i \in 1 .. 9 : Rows(Order[i], decided') = Rows(Order[i], decided)
    BY RowsBeforeDecision
  <2>6. \A i \in 1 .. 8 : Kept(graph, Order[i], Rows(Order[i], decided))
    BY <2>1 DEF Progress, EarlierStand
  <2>7. Rows(Order[9], decided) = {}
    BY DEF Rows, NodeRows, EdgeRows
  <2>8. Kept(graph, Order[9], {})
    BY DEF Kept
  <2>9. \A i \in 1 .. 9 : Kept(graph', Order[i], Rows(Order[i], decided'))
    BY <2>1, <2>5, <2>6, <2>7, <2>8
  <2>10. EarlierStand'
    BY <2>1, <2>9 DEF EarlierStand
  <2>11. QED
    BY <1>0, <2>2, <2>3, <2>4, <2>10 DEF Progress
<1>7. CASE Kill
  <2>1. MarksStand'
    BY <1>7, <1>a DEF Kill, Progress, MarksStand
  <2>2. HeadStands' /\ StepStands' /\ EarlierStand'
    BY <1>7 DEF Kill, HeadStands, StepStands, EarlierStand, InProgress
  <2>3. QED
    BY <1>0, <2>1, <2>2 DEF Progress
<1>8. CASE UNCHANGED vars
  BY <1>0, <1>8 DEF vars, Progress, MarksStand, HeadStands, StepStands, EarlierStand, InProgress
<1>9. QED
  BY <1>1, <1>2, <1>3, <1>4, <1>5, <1>6, <1>7, <1>8 DEF Next

(* A load that ends has every vertex and edge it set out to write in the graph. *)
THEOREM Complete == Spec => []LoadComplete
<1>1. TypeOK /\ Progress => LoadComplete
  <2>1. SUFFICES ASSUME TypeOK, Progress, at = Done, NEW i \in 1 .. Len(Order)
                 PROVE  Stored(Order[i])
    BY DEF LoadComplete
  <2>2. Kept(graph, Order[i], Rows(Order[i], decided))
    BY <2>1, OrderIs DEF Progress, EarlierStand, Done
  <2>3. QED
    BY <2>2, RowsSplit DEF Stored, Kept, Rows
<1>2. Spec => []TypeOK
  BY TypeCorrect
<1>3. Init => Progress
  BY ProgressInit
<1>4. TypeOK /\ Progress /\ [Next]_vars => Progress'
  BY ProgressStep
<1>5. QED
  BY <1>1, <1>2, <1>3, <1>4, PTL DEF Spec

-----------------------------------------------------------------------------
(* Verdicts and edges. *)

(* When verdicts are written, every decision they record is an edge already. *)
LEMMA DecisionsAreEdges ==
    ASSUME TypeOK, Progress, InProgress, Order[at] = "statuses",
           NEW m \in Mention, decided[m] # NoPerson
    PROVE  Resolution(m, decided[m]) \in graph.edges
<1>1. at = 12
  BY OrderIs DEF InProgress
<1>2. /\ Kept(graph, "resolves", Rows("resolves", decided))
      /\ Kept(graph, "graph_resolves", Rows("graph_resolves", decided))
  BY <1>1, OrderIs DEF Progress, EarlierStand
<1>3. EdgeRows("resolves", decided) \cup EdgeRows("graph_resolves", decided) \subseteq graph.edges
  BY <1>2 DEF Kept, NodeSteps, Rows
<1>4. CASE m \in Direct
  <2>1. decided[m] = LexicalTarget(Known, m)
    BY <1>1, <1>4 DEF Progress, DecidedKnown, Scoring
  <2>2. Resolution(m, LexicalTarget(Known, m)) \in EdgeRows("resolves", decided)
    BY <1>4 DEF EdgeRows
  <2>3. QED
    BY <1>3, <2>1, <2>2
<1>5. CASE m \notin Direct
  <2>1. Resolution(m, decided[m]) \in EdgeRows("graph_resolves", decided)
    BY <1>5 DEF EdgeRows, Ambiguous
  <2>2. QED
    BY <1>3, <2>1
<1>6. QED
  BY <1>4, <1>5

(* A batch leaves a verdict only where its edge is. *)
LEMMA ApplyRecords ==
    ASSUME TypeOK, Progress, InProgress, RecordedIdentityHasEdge, NEW batch, Apply(batch)
    PROVE  RecordedIdentityHasEdge'
<1> SUFFICES ASSUME NEW m \in Mention, record'[m].status = "resolved"
             PROVE  Resolution(m, record'[m].entity) \in graph'.edges
  BY DEF RecordedIdentityHasEdge
<1>1. graph.edges \subseteq graph'.edges
  BY ApplyGrows
<1>2. record'[m] = IF Node("Mention", m) \notin batch THEN record[m]
                   ELSE CASE Order[at] = "mentions" -> [record[m] EXCEPT !.status = "pending"]
                          [] Order[at] = "statuses" ->
                               [status |-> IF decided[m] # NoPerson THEN "resolved" ELSE "unresolved",
                                entity |-> decided[m]]
                          [] OTHER -> record[m]
  BY DEF Apply, RecordAfter
<1>3. CASE record'[m] = record[m]
  BY <1>1, <1>3 DEF RecordedIdentityHasEdge
<1>4. CASE record'[m] # record[m]
  <2>1. record[m] \in [status : {"absent", "pending", "resolved", "unresolved"},
                       entity : Person \cup {NoPerson}]
    BY DEF TypeOK
  <2>2. Order[at] = "statuses" /\ decided[m] # NoPerson /\ record'[m].entity = decided[m]
    BY <1>2, <1>4, <2>1
  <2>3. QED
    BY <1>1, <2>2, DecisionsAreEdges
<1>5. QED
  BY <1>3, <1>4

LEMMA RecordsStep ==
    TypeOK /\ Progress /\ RecordedIdentityHasEdge /\ [Next]_vars => RecordedIdentityHasEdge'
<1> SUFFICES ASSUME TypeOK, Progress, RecordedIdentityHasEdge, [Next]_vars
             PROVE  RecordedIdentityHasEdge'
  OBVIOUS
<1>1. CASE UNCHANGED <<graph, record>>
  BY <1>1 DEF RecordedIdentityHasEdge
<1>2. CASE WriteBatch
  BY <1>2, ApplyRecords DEF WriteBatch
<1>3. CASE Kill
  BY <1>1, <1>3, ApplyRecords DEF Kill
<1>4. QED
  BY <1>1, <1>2, <1>3 DEF Next, Start, SkipBatch, MarkBatch, NextStep, Decide, vars

(* A mention recorded as resolved has the edge to the person it records, in every load. *)
THEOREM RecordsHaveEdges == Spec => []RecordedIdentityHasEdge
<1>1. Init => RecordedIdentityHasEdge
  BY DEF Init, RecordedIdentityHasEdge
<1>2. Spec => []TypeOK
  BY TypeCorrect
<1>3. Init => Progress
  BY ProgressInit
<1>4. TypeOK /\ Progress /\ [Next]_vars => Progress'
  BY ProgressStep
<1>5. QED
  BY <1>1, <1>2, <1>3, <1>4, RecordsStep, PTL DEF Spec

-----------------------------------------------------------------------------
(***************************************************************************)
(* Nothing left pending, where all loads have one run id.  The batches of  *)
(* a step are a chain: the rows left, what is left after the first batch,  *)
(* and so on.  Once a load is past the mentions, every batch of theirs is  *)
(* marked, and no later load writes one pending again.                     *)
(***************************************************************************)
OneRun == \A r, s \in Run : r = s

MentionRows  == Rows("mentions", Undecided)
PendingKey(rows) == <<CHOOSE r \in Run : TRUE, "mentions", MentionRows, rows, Undecided>>

(* Every set of rows the mentions come down to is in chain. *)
Chain(chain) == MentionRows \in chain /\ \A rows \in chain : rows # {} => rows \ Batch(rows) \in chain

Settled ==
    \E chain : Chain(chain) /\ \A rows \in chain : rows # {} => PendingKey(rows) \in marked

(* While a load is at the mentions, it has come down the chain, marking. *)
OnChain ==
    at = 4 =>
        /\ \A chain : Chain(chain) => left \in chain
        /\ \E passed :
            /\ MentionRows \in passed \cup {left}
            /\ \A rows \in passed : PendingKey(rows) \in marked /\ rows \ Batch(rows) \in passed \cup {left}

Passed ==
    /\ at > 4 => Settled
    /\ (\E k \in marked : k[2] = "statuses") => Settled

HasVerdict(m) == record[m].status \in {"resolved", "unresolved"}

VerdictsStand ==
    /\ \A k \in marked : k[2] = "statuses" =>
            \A m \in Mention : Node("Mention", m) \in Batch(k[4]) => HasVerdict(m)
    /\ at = 12 /\ written => \A m \in Mention : Node("Mention", m) \in Batch(left) => HasVerdict(m)
    /\ at = 12 => \A m \in Mention : Node("Mention", m) \notin left => HasVerdict(m)
    /\ at = Done => \A m \in Mention : HasVerdict(m)

SettledInv == OneRun /\ OnChain /\ Passed /\ VerdictsStand

LEMMA KeyOfMentions ==
    ASSUME TypeOK, OneRun, at = 4
    PROVE  Key = PendingKey(left) /\ Order[at] = "mentions"
<1>1. Order[at] = "mentions" /\ InProgress
  BY OrderIs DEF InProgress
<1>2. run = CHOOSE r \in Run : TRUE
  BY <1>1 DEF TypeOK, OneRun
<1>3. Rows("mentions", decided) = MentionRows
  BY RowsBeforeDecision DEF MentionRows
<1>4. QED
  BY <1>1, <1>2, <1>3 DEF Key, PendingKey

(* More marks settle no less. *)
LEMMA SettledStays == Settled /\ marked \subseteq marked' => Settled'
BY DEF Settled, Chain, PendingKey

(* A batch of mentions that is not marked is one no load came past. *)
LEMMA UnmarkedFirst ==
    ASSUME TypeOK, SettledInv, at = 4, left # {}, Key \notin marked
    PROVE  ~ \E k \in marked : k[2] = "statuses"
<1>1. Key = PendingKey(left)
  BY KeyOfMentions DEF SettledInv
<1>2. ~ Settled
  BY <1>1 DEF Settled, SettledInv, OnChain
<1>3. QED
  BY <1>2 DEF SettledInv, Passed

(* What a batch does to verdicts: the mentions take them, the statuses give them. *)
LEMMA ApplyVerdicts ==
    ASSUME TypeOK, InProgress, NEW batch, Apply(batch)
    PROVE  /\ at # 4 => \A m \in Mention : HasVerdict(m) => HasVerdict(m)'
           /\ at = 12 => \A m \in Mention : Node("Mention", m) \in batch => HasVerdict(m)'
<1>1. ASSUME NEW m \in Mention
      PROVE  record'[m] =
                IF Node("Mention", m) \notin batch THEN record[m]
                ELSE CASE Order[at] = "mentions" -> [record[m] EXCEPT !.status = "pending"]
                       [] Order[at] = "statuses" ->
                            [status |-> IF decided[m] # NoPerson THEN "resolved" ELSE "unresolved",
                             entity |-> decided[m]]
                       [] OTHER -> record[m]
  BY DEF Apply, RecordAfter
<1>2. at # 4 => Order[at] # "mentions"
  BY OrderIs DEF InProgress
<1>3. at = 12 => Order[at] = "statuses"
  BY OrderIs
<1>4. ASSUME at # 4, NEW m \in Mention, HasVerdict(m)
      PROVE  HasVerdict(m)'
  <2>1. CASE record'[m] = record[m]
    BY <1>4, <2>1 DEF HasVerdict
  <2>2. CASE record'[m] # record[m]
    <3>1. record'[m] = [status |-> IF decided[m] # NoPerson THEN "resolved" ELSE "unresolved",
                        entity |-> decided[m]]
      BY <1>1, <1>2, <1>4, <2>2
    <3>2. QED
      BY <3>1 DEF HasVerdict
  <2>3. QED
    BY <2>1, <2>2
<1>5. ASSUME at = 12, NEW m \in Mention, Node("Mention", m) \in batch
      PROVE  HasVerdict(m)'
  <2>1. record'[m] = [status |-> IF decided[m] # NoPerson THEN "resolved" ELSE "unresolved",
                      entity |-> decided[m]]
    BY <1>1, <1>3, <1>5
  <2>2. QED
    BY <2>1 DEF HasVerdict
<1>6. QED
  BY <1>4, <1>5

LEMMA SettledInit == Init /\ OneRun => SettledInv
<1>1. SUFFICES ASSUME Init, OneRun PROVE SettledInv
  OBVIOUS
<1>2. at = 0 /\ marked = {}
  BY <1>1 DEF Init
<1>3. QED
  BY <1>1, <1>2 DEF SettledInv, OnChain, Passed, VerdictsStand, Done

(* Going down the chain by a batch that is marked. *)
LEMMA OnChainDown ==
    ASSUME TypeOK, SettledInv, at = 4, left # {}, UNCHANGED at,
           left' = left \ Batch(left), marked \subseteq marked', Key \in marked'
    PROVE  OnChain'
<1>1. Key = PendingKey(left)
  BY KeyOfMentions DEF SettledInv
<1>2. \A chain : Chain(chain)' => left' \in chain
  BY DEF SettledInv, OnChain, Chain, MentionRows
<1>3. PICK passed :
        /\ MentionRows \in passed \cup {left}
        /\ \A rows \in passed : PendingKey(rows) \in marked /\ rows \ Batch(rows) \in passed \cup {left}
  BY DEF SettledInv, OnChain
<1> DEFINE more == passed \cup {left}
<1>4. MentionRows' \in more \cup {left'}
  BY <1>3 DEF MentionRows
<1>5. \A rows \in more : PendingKey(rows)' \in marked' /\ rows \ Batch(rows) \in more \cup {left'}
  BY <1>1, <1>3 DEF PendingKey, MentionRows
<1>6. QED
  BY <1>2, <1>4, <1>5 DEF OnChain

LEMMA SettledStep == TypeOK /\ SettledInv /\ [Next]_vars => SettledInv'
<1> SUFFICES ASSUME TypeOK, SettledInv, [Next]_vars PROVE SettledInv'
  OBVIOUS
<1> USE OrderIs
<1>0. OneRun'
  BY DEF SettledInv, OneRun
<1>1. CASE Start
  <2>1. at' = 1 /\ marked' = marked /\ record' = record
    BY <1>1 DEF Start
  <2>2. OnChain' /\ Passed'
    BY <2>1, SettledStays DEF SettledInv, OnChain, Passed
  <2>3. VerdictsStand'
    BY <2>1 DEF SettledInv, VerdictsStand, Done, HasVerdict
  <2>4. QED
    BY <1>0, <2>2, <2>3 DEF SettledInv
<1>2. CASE SkipBatch
  <2>1. /\ at' = at /\ marked' = marked /\ record' = record /\ left' = left \ Batch(left)
        /\ ~ written /\ written' = written /\ left # {} /\ Key \in marked /\ InProgress
    BY <1>2 DEF SkipBatch
  <2>2. OnChain'
    BY <2>1, OnChainDown DEF OnChain
  <2>3. Passed'
    BY <2>1, SettledStays DEF SettledInv, Passed
  <2>4. at = 12 => \A m \in Mention : Node("Mention", m) \in Batch(left) => HasVerdict(m)
    <3>1. at = 12 => Key[2] = "statuses" /\ Key[4] = left
      BY DEF Key
    <3>2. QED
      BY <2>1, <3>1 DEF SettledInv, VerdictsStand
  <2>5. VerdictsStand'
    BY <2>1, <2>4 DEF SettledInv, VerdictsStand, HasVerdict, Done, InProgress
  <2>6. QED
    BY <1>0, <2>2, <2>3, <2>5 DEF SettledInv
<1>3. CASE WriteBatch
  <2>1. /\ at' = at /\ marked' = marked /\ left' = left /\ left # {} /\ Key \notin marked
        /\ InProgress /\ Apply(Batch(left))
    BY <1>3 DEF WriteBatch
  <2>2. OnChain' /\ Passed'
    BY <2>1, SettledStays DEF SettledInv, OnChain, Passed, Chain, PendingKey, MentionRows
  <2>3. VerdictsStand'
    <3>1. CASE at = 4
      BY <2>1, <3>1, UnmarkedFirst DEF VerdictsStand, Done
    <3>2. CASE at # 4
      BY <2>1, <3>2, ApplyVerdicts DEF SettledInv, VerdictsStand, Done, InProgress
    <3>3. QED
      BY <3>1, <3>2
  <2>4. QED
    BY <1>0, <2>2, <2>3 DEF SettledInv
<1>4. CASE MarkBatch
  <2>1. /\ at' = at /\ marked' = marked \cup {Key} /\ record' = record /\ written /\ written' = FALSE
        /\ left' = left \ Batch(left) /\ left # {}
    BY <1>4 DEF MarkBatch, TypeOK
  <2>2. OnChain'
    BY <2>1, OnChainDown DEF OnChain
  <2>3. Key[2] = Order[at] /\ Key[4] = left /\ InProgress
    BY <2>1 DEF Key, TypeOK
  <2>4. Key[2] = "statuses" => at = 12
    <3>1. at \in 1 .. 12
      BY <2>3 DEF InProgress
    <3>2. \A i \in 1 .. 12 : i # 12 => Order[i] # "statuses"
      OBVIOUS
    <3>3. QED
      BY <2>3, <3>1, <3>2
  <2>5. Passed'
    BY <2>1, <2>4, SettledStays DEF SettledInv, Passed
  <2>6. VerdictsStand'
    BY <2>1, <2>3, <2>4 DEF SettledInv, VerdictsStand, HasVerdict, Done, InProgress
  <2>7. QED
    BY <1>0, <2>2, <2>5, <2>6 DEF SettledInv
<1>5. CASE NextStep
  <2>1. /\ at' = at + 1 /\ marked' = marked /\ record' = record /\ written' = written /\ ~ written
        /\ left = {} /\ InProgress /\ at \in 1 .. 12
    BY <1>5 DEF NextStep, InProgress
  <2>2. at = 4 => Settled
    <3>1. SUFFICES ASSUME at = 4 PROVE Settled
      OBVIOUS
    <3>2. PICK passed :
            /\ MentionRows \in passed \cup {left}
            /\ \A rows \in passed : PendingKey(rows) \in marked /\ rows \ Batch(rows) \in passed \cup {left}
      BY <3>1 DEF SettledInv, OnChain
    <3>3. Chain(passed \cup {{}}) /\ \A rows \in passed \cup {{}} : rows # {} => PendingKey(rows) \in marked
      BY <2>1, <3>2 DEF Chain
    <3>4. QED
      BY <3>3 DEF Settled
  <2>3. Passed'
    BY <2>1, <2>2, SettledStays DEF SettledInv, Passed
  <2>4. OnChain'
    <3>1. CASE at # 3
      BY <2>1, <3>1 DEF OnChain
    <3>2. CASE at = 3
      <4>1. left' = MentionRows
        BY <1>5, <3>2, RowsBeforeDecision DEF NextStep, MentionRows
      <4>2. MentionRows' = MentionRows
        BY DEF MentionRows
      <4>3. \A chain : Chain(chain)' => left' \in chain
        BY <4>1, <4>2 DEF Chain
      <4>4. MentionRows' \in {} \cup {left'}
        BY <4>1, <4>2
      <4>5. QED
        BY <4>3, <4>4 DEF OnChain
    <3>3. QED
      BY <3>1, <3>2
  <2>5. VerdictsStand'
    <3>1. at = 12 => \A m \in Mention : HasVerdict(m)
      BY <2>1 DEF SettledInv, VerdictsStand
    <3>2. at = 11 => left' = MentionNodes
      <4>1. NodeRows("statuses") = MentionNodes
        BY DEF NodeRows
      <4>2. EdgeRows("statuses", decided) = {}
        BY DEF EdgeRows
      <4>3. at = 11 => left' = Rows("statuses", decided)
        BY <1>5 DEF NextStep
      <4>4. QED
        BY <4>1, <4>2, <4>3 DEF Rows
    <3>3. at' = 12 => \A m \in Mention : Node("Mention", m) \in left'
      BY <2>1, <3>2 DEF MentionNodes
    <3>4. QED
      BY <2>1, <3>1, <3>3 DEF SettledInv, VerdictsStand, HasVerdict, Done
  <2>6. QED
    BY <1>0, <2>3, <2>4, <2>5 DEF SettledInv
<1>6. CASE Decide
  <2>1. at = 9 /\ at' = 10 /\ marked' = marked /\ record' = record
    BY <1>6 DEF Decide, Scoring
  <2>2. OnChain' /\ Passed'
    BY <2>1, SettledStays DEF SettledInv, OnChain, Passed
  <2>3. VerdictsStand'
    BY <2>1 DEF SettledInv, VerdictsStand, Done, HasVerdict
  <2>4. QED
    BY <1>0, <2>2, <2>3 DEF SettledInv
<1>7. CASE Kill
  <2>1. at' = 0 /\ marked' = marked /\ InProgress
    BY <1>7 DEF Kill
  <2>2. OnChain' /\ Passed'
    BY <2>1, SettledStays DEF SettledInv, OnChain, Passed
  <2>3. \A k \in marked : k[2] = "statuses" =>
            \A m \in Mention : Node("Mention", m) \in Batch(k[4]) => HasVerdict(m)'
    <3>1. CASE record' = record
      BY <3>1 DEF SettledInv, VerdictsStand, HasVerdict
    <3>2. CASE left # {} /\ Key \notin marked /\ Apply(Batch(left))
      <4>1. CASE at = 4
        BY <3>2, <4>1, UnmarkedFirst
      <4>2. CASE at # 4
        BY <2>1, <3>2, <4>2, ApplyVerdicts DEF SettledInv, VerdictsStand
      <4>3. QED
        BY <4>1, <4>2
    <3>3. QED
      BY <1>7, <3>1, <3>2 DEF Kill
  <2>4. VerdictsStand'
    BY <2>1, <2>3 DEF VerdictsStand, Done
  <2>5. QED
    BY <1>0, <2>2, <2>4 DEF SettledInv
<1>8. CASE UNCHANGED vars
  <2>1. UNCHANGED <<record, marked, at, left, written>>
    BY <1>8 DEF vars
  <2>2. OnChain' /\ Passed'
    BY <2>1, SettledStays DEF SettledInv, OnChain, Passed, Chain, PendingKey, MentionRows
  <2>3. VerdictsStand'
    BY <2>1 DEF SettledInv, VerdictsStand, HasVerdict
  <2>4. QED
    BY <1>0, <2>2, <2>3 DEF SettledInv
<1>9. QED
  BY <1>1, <1>2, <1>3, <1>4, <1>5, <1>6, <1>7, <1>8 DEF Next

(***************************************************************************)
(* Where all loads have one run id, a load that runs to its end leaves no  *)
(* mention pending, however often loads were killed: no batch of pending   *)
(* mentions is applied again over a verdict that is skipped as done.       *)
(***************************************************************************)
THEOREM NothingPending == OneRun /\ Spec => []NothingLeftPending
<1>1. SettledInv => NothingLeftPending
  BY DEF SettledInv, VerdictsStand, NothingLeftPending, HasVerdict
<1>2. Spec => []TypeOK
  BY TypeCorrect
<1>3. Init /\ OneRun => SettledInv
  BY SettledInit
<1>4. TypeOK /\ SettledInv /\ [Next]_vars => SettledInv'
  BY SettledStep
<1>5. QED
  BY <1>1, <1>2, <1>3, <1>4, PTL DEF Spec

=============================================================================
