------------------------------ MODULE BulkLoad ------------------------------
(***************************************************************************)
(* The bulk build of scripts/30_load_slice.py: a slice of the corpus is    *)
(* written as a fixed sequence of steps, each cut into batches, and the    *)
(* graph itself decides the ambiguous mentions half way.  Every batch goes *)
(* through the checkpoint of tracegraph/loader.py: skipped when its key is *)
(* marked, otherwise written, and marked after the write has returned.     *)
(* The process can be killed at any point and started again, under the     *)
(* same run id or another; the graph and the checkpoint survive.           *)
(*                                                                         *)
(* The loads follow one another: nothing else writes the graph meanwhile.  *)
(***************************************************************************)
EXTENDS GraphEvidence, Sequences

CONSTANTS
    Run,            \* the run ids loads are started with
    NoRun,
    BatchSize,      \* rows per statement
    MaxLoads        \* bound of the model

ASSUME LoadAssumption ==
    /\ NoRun \notin Run
    /\ BatchSize \in Nat \ {0}
    /\ MaxLoads \in Nat

VARIABLES
    graph,      \* what HydraDB holds
    record,     \* status and recorded identity of every mention vertex
    marked,     \* the checkpoint: keys of the batches that completed
    run,        \* the run id of the load in progress, or NoRun
    at,         \* the step it is at
    left,       \* the rows of that step not yet written or skipped
    written,    \* whether the batch at their head is written and not yet marked
    decided,    \* whom this load decided each mention to be
    loads       \* how many loads were started

vars == <<graph, record, marked, run, at, left, written, decided, loads>>

-----------------------------------------------------------------------------
(* Mutants: verdicts are written before the graph's decisions; before the mentions. *)
OrderVerdictsEarly ==
    <<"documents", "entities", "channels", "mentions",
      "mentioned_in", "sent_in", "resolves", "participated_in", "decide",
      "statuses", "candidate_for", "graph_resolves">>
OrderVerdictsFirst ==
    <<"documents", "entities", "channels", "statuses",
      "mentioned_in", "sent_in", "resolves", "participated_in", "decide",
      "graph_resolves", "candidate_for", "mentions">>

(* Steps, in the order the script writes them. *)
Order == <<"documents", "entities", "channels", "mentions",
           "mentioned_in", "sent_in", "resolves", "participated_in", "decide",
           "graph_resolves", "candidate_for", "statuses">>

Scoring == 9
Done    == 13

(* Everybody an address of the slice names: observe() of every document. *)
Known == {AddressOf[m] : m \in Mention} \ {NoPerson}

Direct    == {m \in Mention : LexicalTarget(Known, m) # NoPerson}
Ambiguous == Mention \ Direct

Undecided == [m \in Mention |-> NoPerson]

(***************************************************************************)
(* What the graph as it stands makes of the mentions that need it: unlike  *)
(* the ingestor, the bulk build proposes nobody to a mention without       *)
(* candidates.                                                             *)
(***************************************************************************)
Decisions(g) ==
    [m \in Mention |->
        IF m \in Direct THEN LexicalTarget(Known, m)
        ELSE Winner(g, CandidatesFor(Known, m), DocOf[m])]

(* The vertices and the edges of step s, given the decisions taken. *)
MentionNodes == {Node("Mention", m) : m \in Mention}

NodeRows(s) ==
    CASE s = "documents" -> {Node("Document", d) : d \in Doc}
      [] s = "entities"  -> {Node("Entity", p) : p \in Known}
      [] s = "channels"  -> {Node("Channel", ChannelOf[d]) : d \in {k \in Doc : ChannelOf[k] # NoChannel}}
      [] s \in {"mentions", "statuses"} -> MentionNodes
      [] OTHER -> {}

EdgeRows(s, dec) ==
    LET InChannel == {d \in Doc : ChannelOf[d] # NoChannel}
    IN  CASE s = "mentioned_in" ->
                {Edge("MENTIONED_IN", Node("Mention", m), Node("Document", DocOf[m])) : m \in Mention}
          [] s = "sent_in" ->
                {Edge("SENT_IN", Node("Document", d), Node("Channel", ChannelOf[d])) : d \in InChannel}
          [] s = "resolves" -> {Resolution(m, LexicalTarget(Known, m)) : m \in Direct}
          [] s = "participated_in" ->
                {Edge("PARTICIPATED_IN", Node("Entity", LexicalTarget(Known, m)),
                      Node("Channel", ChannelOf[DocOf[m]])) :
                    m \in {k \in Direct : DocOf[k] \in InChannel}}
          [] s = "graph_resolves" ->
                {Resolution(m, dec[m]) : m \in {k \in Ambiguous : dec[k] # NoPerson}}
          [] s = "candidate_for" ->
                UNION {{Edge("CANDIDATE_FOR", Node("Mention", m), Node("Entity", p)) :
                            p \in CandidatesFor(Known, m)} : m \in Ambiguous}
          [] OTHER -> {}

Rows(s, dec) == NodeRows(s) \cup EdgeRows(s, dec)

(* _chunks: the next batch of the rows that are left, cut the same way every time. *)
Batch(rows) == CHOOSE b \in SUBSET rows : b = rows \/ Cardinality(b) = BatchSize

(* Mutant: the job is named by the run and the step, not by what is written. *)
KeyByPosition ==
    <<run, Order[at], Cardinality(left)>>

(***************************************************************************)
(* The key of the batch at the head: the job names the run and carries a   *)
(* fingerprint of all the rows of the step, the properties they set        *)
(* included, and what is left of them tells which batch it is.             *)
(***************************************************************************)
Key ==
    <<run, Order[at], Rows(Order[at], decided), left,
      IF Order[at] = "statuses" THEN decided ELSE Undecided>>

-----------------------------------------------------------------------------
Init ==
    /\ graph = EmptyGraph
    /\ record = [m \in Mention |-> [status |-> "absent", entity |-> NoPerson]]
    /\ marked = {}
    /\ run = NoRun /\ at = 0 /\ left = {} /\ written = FALSE
    /\ decided = Undecided /\ loads = 0

(* The script is started, with a run id of its own or an earlier one's. *)
Start ==
    /\ run = NoRun /\ loads < MaxLoads
    /\ run' \in Run
    /\ loads' = loads + 1
    /\ at' = 1 /\ left' = Rows(Order[1], Undecided)
    /\ decided' = Undecided
    /\ UNCHANGED <<graph, record, marked, written>>

InProgress == at \in 1 .. Len(Order)

(* if checkpointer.done(job, batch_key): continue *)
SkipBatch ==
    /\ InProgress /\ left # {} /\ ~written /\ Key \in marked
    /\ left' = left \ Batch(left)
    /\ UNCHANGED <<graph, record, marked, run, at, written, decided, loads>>

(* What the batch of mentions leaves on them: pending first, the verdict last. *)
RecordAfter(batch) ==
    [m \in Mention |->
        IF Node("Mention", m) \notin batch THEN record[m]
        ELSE CASE Order[at] = "mentions" -> [record[m] EXCEPT !.status = "pending"]
               [] Order[at] = "statuses" ->
                    [status |-> IF decided[m] # NoPerson THEN "resolved" ELSE "unresolved",
                     entity |-> decided[m]]
               [] OTHER -> record[m]]

Apply(batch) ==
    /\ graph' = UpsertEdges(UpsertNodes(graph, batch \cap NodeRows(Order[at])),
                            batch \cap EdgeRows(Order[at], decided))
    /\ record' = RecordAfter(batch)

WriteBatch ==
    /\ InProgress /\ left # {} /\ ~written /\ Key \notin marked
    /\ Apply(Batch(left))
    /\ written' = TRUE
    /\ UNCHANGED <<marked, run, at, left, decided, loads>>

(* Only after the write returns. *)
MarkBatch ==
    /\ written
    /\ marked' = marked \cup {Key}
    /\ left' = left \ Batch(left)
    /\ written' = FALSE
    /\ UNCHANGED <<graph, record, run, at, decided, loads>>

(* The step's rows are all written or skipped. *)
NextStep ==
    /\ InProgress /\ left = {} /\ ~written /\ at # Scoring
    /\ at' = at + 1
    /\ IF at = Len(Order)
       THEN run' = NoRun /\ left' = {}
       ELSE left' = Rows(Order[at + 1], decided) /\ UNCHANGED run
    /\ UNCHANGED <<graph, record, marked, written, decided, loads>>

(* Phase two: every ambiguous mention is scored before any decision is written. *)
Decide ==
    /\ at = Scoring
    /\ decided' = Decisions(graph)
    /\ at' = at + 1 /\ left' = Rows(Order[at + 1], decided')
    /\ UNCHANGED <<graph, record, marked, run, written, loads>>

(* Mutant: a restart takes the rows of the step it was killed in for its own. *)
KillKeepingRows ==
    /\ InProgress
    /\ run' = NoRun /\ at' = 0 /\ written' = FALSE /\ decided' = Undecided
    /\ UNCHANGED <<graph, record, marked, left, loads>>

(* Killed, or a statement failed; one that was being written may be applied. *)
Kill ==
    /\ InProgress
    /\ \/ UNCHANGED <<graph, record>>
       \/ left # {} /\ ~written /\ Key \notin marked /\ Apply(Batch(left))
    /\ run' = NoRun /\ at' = 0 /\ left' = {} /\ written' = FALSE
    /\ decided' = Undecided
    /\ UNCHANGED <<marked, loads>>

Next ==
    \/ Start \/ SkipBatch \/ WriteBatch \/ MarkBatch \/ NextStep \/ Decide \/ Kill

Spec == Init /\ [][Next]_vars

-----------------------------------------------------------------------------
Step == {Order[i] : i \in 1 .. Len(Order)}

Vertex ==
    ({"Document"} \X Doc) \cup ({"Entity"} \X Person) \cup ({"Channel"} \X Channel)
        \cup ({"Mention"} \X Mention)
EdgeType == {"MENTIONED_IN", "SENT_IN", "RESOLVES_TO", "PARTICIPATED_IN", "CANDIDATE_FOR"}
AnyEdge  == [type : EdgeType, src : Vertex, dst : Vertex]

(***************************************************************************)
(* Type correctness; what a load has left to write is of the step it is at,*)
(* and a batch awaits its mark only while there is one.                    *)
(***************************************************************************)
TypeOK ==
    /\ graph \in [nodes : SUBSET Vertex, edges : SUBSET AnyEdge]
    /\ record \in [Mention -> [status : {"absent", "pending", "resolved", "unresolved"},
                              entity : Person \cup {NoPerson}]]
    /\ run \in Run \cup {NoRun}
    /\ at \in 0 .. Done
    /\ run # NoRun <=> InProgress
    /\ IF InProgress THEN left \subseteq Rows(Order[at], decided) ELSE left = {}
    /\ written \in BOOLEAN /\ (written => left # {})
    /\ decided \in [Mention -> Person \cup {NoPerson}]
    /\ loads \in 0 .. MaxLoads

(* Everything a step has to write is in the graph. *)
Stored(s) == NodeRows(s) \subseteq graph.nodes /\ EdgeRows(s, decided) \subseteq graph.edges

(***************************************************************************)
(* A load that runs to its end has every vertex and every edge it set out  *)
(* to write in the graph, whatever was killed, resumed and skipped before: *)
(* no checkpoint stands for rows that are not there, and no edge was       *)
(* dropped for want of an endpoint.                                        *)
(***************************************************************************)
LoadComplete == at = Done => \A i \in 1 .. Len(Order) : Stored(Order[i])

(***************************************************************************)
(* A load that runs to its end leaves no mention pending: the batch that   *)
(* writes them pending is not applied again over a verdict that is skipped.*)
(***************************************************************************)
NothingLeftPending ==
    at = Done => \A m \in Mention : record[m].status \in {"resolved", "unresolved"}

(***************************************************************************)
(* A mention recorded as resolved has the edge to the person it records,   *)
(* at every instant and through every kill and resumption.                 *)
(***************************************************************************)
RecordedIdentityHasEdge ==
    \A m \in Mention :
        record[m].status = "resolved" => Resolution(m, record[m].entity) \in graph.edges

(* However often the build is run, no mention ends with two resolutions. *)
OneResolution ==
    at = Done =>
        \A m \in Mention : Cardinality(Targets(graph, "RESOLVES_TO", Node("Mention", m))) <= 1

=============================================================================
