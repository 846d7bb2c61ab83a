------------------------------- MODULE Ingest -------------------------------
(***************************************************************************)
(* The on-demand ingestor of tracegraph/ingest.py, shared by the worker    *)
(* threads of the API.  Each question in flight runs ingest_many: it asks  *)
(* the graph which of its documents are already enriched, reads and        *)
(* extracts the others, commits them one at a time under the ingestor's    *)
(* lock, and re-adjudicates the facts the batch touched, once, under the   *)
(* lock again.  A commit is a sequence of batches, each one statement; any *)
(* of them can fail after the client's retries, and the process can die    *)
(* between any two.  The graph survives, the memory of the process does    *)
(* not.                                                                    *)
(*                                                                         *)
(* Extraction is a model call: which of a document's claims it returns may *)
(* differ from one call to the next, and it may fail.                      *)
(***************************************************************************)
EXTENDS Adjudication

CONSTANTS
    Asks,           \* worker threads, one question each
    NoAsk,          \* nobody holds the lock
    NoDoc,          \* no document is being committed
    Corpus,         \* the documents the row locator finds
    TicketsOf,      \* the ticket keys a document references
    Budget,         \* documents enriched per question
    MaxQuestions, MaxFaults, MaxCrashes     \* bounds of the model

ASSUME IngestAssumption ==
    /\ NoAsk \notin Asks
    /\ NoDoc \notin Doc
    /\ Corpus \subseteq Doc
    /\ Budget \in Nat \ {0}
    /\ {MaxQuestions, MaxFaults, MaxCrashes} \subseteq Nat

VARIABLES
    graph,      \* what HydraDB holds
    mention,    \* status and recorded identity of every mention vertex
    people,     \* the people the in-memory resolver knows
    built,      \* whether the resolver has been built from the graph
    present,    \* documents the process remembers as enriched
    lock,       \* the thread inside the ingestor's lock
    outcome,    \* identities decided by the commit in progress
    pc,         \* where each thread is
    asked,      \* the documents of its question
    unchecked,  \* those it has yet to look for in the graph
    todo,       \* those it has to enrich
    prepared,   \* what reading and extracting them gave
    doc,        \* the document it is committing
    written,    \* documents it has written claims of
    disputes,   \* the conflict rows it has computed
    questions, faults, crashes

memory == <<people, built, present>>
thread == <<asked, unchecked, todo, prepared, doc, written, disputes>>
bounds == <<questions, faults, crashes>>
vars == <<graph, mention, memory, lock, outcome, pc, thread, bounds>>

-----------------------------------------------------------------------------
(* The batches of a commit, in the order they are written. *)

StructureSteps == {"document", "mentions", "mentioned_in", "tickets", "references"}
IdentitySteps  == {"observe", "entities", "channel", "resolves", "participated_in",
                   "decide", "graph_resolves", "candidate_for", "statuses"}
ClaimSteps     == {"claims", "spans", "asserts", "supported_by", "register"}
CommitSteps    == StructureSteps \cup IdentitySteps \cup ClaimSteps
ReconcileSteps == {"adjudicate", "conflicts_with", "register_conflicts"}
Critical       == CommitSteps \cup ReconcileSteps
Open           == {"idle", "check", "commit", "returned"}

(* Blocks the code enters only when they have rows to write. *)
ClaimStart(a) == IF prepared[a][doc[a]].claims # {} THEN "claims" ELSE "register"

(* Mutant: identities are resolved only in a document that has claims. *)
IdentityStartForClaims(a) == IF prepared[a][doc[a]].claims # {} THEN "observe" ELSE "register"

IdentityStart(a)  == IF MentionsIn(doc[a]) # {} THEN "observe" ELSE ClaimStart(a)
TicketStart(a)    == IF TicketsOf[doc[a]] # {} THEN "tickets" ELSE IdentityStart(a)
StructureStart(a) == IF MentionsIn(doc[a]) # {} THEN "mentions" ELSE TicketStart(a)

(* Mutant: the support edges are written before the spans they lead to. *)
ClaimOrderSpansLast == [claims |-> "asserts", asserts |-> "supported_by",
                        supported_by |-> "spans", spans |-> "register"]

ClaimOrder == [claims |-> "spans", spans |-> "asserts", asserts |-> "supported_by",
               supported_by |-> "register"]

Order(a) ==
    [document |-> StructureStart(a), mentions |-> "mentioned_in", mentioned_in |-> TicketStart(a),
     tickets |-> "references", references |-> IdentityStart(a),
     observe |-> "entities", entities |-> "channel", channel |-> "resolves",
     resolves |-> "participated_in", participated_in |-> "decide", decide |-> "graph_resolves",
     graph_resolves |-> "candidate_for", candidate_for |-> "statuses", statuses |-> ClaimStart(a)]

Following(a) == IF pc[a] \in ClaimSteps THEN ClaimOrder[pc[a]] ELSE Order(a)[pc[a]]

-----------------------------------------------------------------------------
(* The rows of each batch. *)

Settled(d)   == {m \in MentionsIn(d) : LexicalTarget(people, m) # NoPerson}
Ambiguous(d) == MentionsIn(d) \ Settled(d)

(* Mutant: entity rows only for the people this document establishes. *)
TouchedPeopleOwn(d) == PeopleIn(d)

(* Everybody a mention of the document resolved to or might. *)
TouchedPeople(d) ==
    {LexicalTarget(people, m) : m \in Settled(d)}
        \cup UNION {CandidatesFor(people, m) : m \in Ambiguous(d)}

(* Mutant: the test for a channel is dropped. *)
ChannelsOfAny(d) == {ChannelOf[d]}

(* `if channel:` -- a document without one writes no channel vertex. *)
ChannelsOf(d) == {ChannelOf[d]} \ {NoChannel}

(* The rows of one step; no other step writes any. *)
At(a, step, rows) == IF pc[a] = step THEN rows ELSE {}

NodeRows(a) ==
    LET d == doc[a]
        claims == prepared[a][d].claims
    IN  At(a, "document", {Node("Document", d)})
        \cup At(a, "mentions", {Node("Mention", m) : m \in MentionsIn(d)})
        \cup At(a, "tickets",  {Node("Ticket", t) : t \in TicketsOf[d]})
        \cup At(a, "entities", {Node("Entity", p) : p \in TouchedPeople(d)})
        \cup At(a, "channel",  {Node("Channel", ch) : ch \in ChannelsOf(d)})
        \cup At(a, "claims",   {ClaimNode(c) : c \in claims})
        \cup At(a, "spans",    {Node("EvidenceSpan", SpanOf[c]) : c \in claims})

EdgeRows(a) ==
    LET d == doc[a]
        claims == prepared[a][d].claims
        MentionedIn(m) == Edge("MENTIONED_IN", Node("Mention", m), Node("Document", d))
        References(t) == Edge("REFERENCES", Node("Document", d), Node("Ticket", t))
        ParticipatedIn(p, ch) == Edge("PARTICIPATED_IN", Node("Entity", p), Node("Channel", ch))
        CandidateFor(m, p) == Edge("CANDIDATE_FOR", Node("Mention", m), Node("Entity", p))
    IN  At(a, "mentioned_in", {MentionedIn(m) : m \in MentionsIn(d)})
        \cup At(a, "references", {References(t) : t \in TicketsOf[d]})
        \cup At(a, "resolves", {Resolution(m, LexicalTarget(people, m)) : m \in Settled(d)})
        \cup At(a, "participated_in",
                {ParticipatedIn(LexicalTarget(people, m), ch) : m \in Settled(d),
                                                               ch \in ChannelsOf(d)})
        \cup At(a, "graph_resolves",
                {Resolution(m, outcome[m]) : m \in {k \in Ambiguous(d) : outcome[k] # NoPerson}})
        \cup At(a, "candidate_for",
                UNION {{CandidateFor(m, p) : p \in CandidatesFor(people, m)} :
                       m \in Ambiguous(d)})
        \cup At(a, "asserts", {Assertion(c) : c \in claims})
        \cup At(a, "supported_by", {Support(c) : c \in claims})
        \cup At(a, "conflicts_with", disputes[a])

NodeSteps == {"document", "mentions", "tickets", "entities", "channel", "claims", "spans"}
EdgeSteps == {"mentioned_in", "references", "resolves", "participated_in",
              "graph_resolves", "candidate_for", "asserts", "supported_by"}

(* What a mention records of its decision: whom it resolved to, or that it did not. *)
Verdict(m) ==
    IF outcome[m] # NoPerson
    THEN [status |-> "resolved", entity |-> outcome[m]]
    ELSE [status |-> "unresolved", entity |-> NoPerson]

(***************************************************************************)
(* A mention is written pending, and the identity of an earlier decision   *)
(* stays on it; the verdicts come last.                                    *)
(***************************************************************************)
MentionAfter(a) ==
    [m \in Mention |->
        IF pc[a] = "mentions" /\ DocOf[m] = doc[a]
        THEN [mention[m] EXCEPT !.status = "pending"]
        ELSE IF pc[a] = "statuses" /\ DocOf[m] = doc[a] THEN Verdict(m)
        ELSE mention[m]]

GraphAfter(a) == UpsertEdges(UpsertNodes(graph, NodeRows(a)), EdgeRows(a))

(* Mutants: the lock is not waited for; it is not given back. *)
LockFreeAlways == TRUE
LeaveHolding(a) == UNCHANGED lock

(* with self._lock: entered when nobody is inside, left on every path. *)
LockFree == lock = NoAsk
Leave(a) == lock' = IF lock = a THEN NoAsk ELSE lock

-----------------------------------------------------------------------------
NoDecision == [m \in Mention |-> NoPerson]

NothingExtracted == [failed |-> FALSE, claims |-> {}]
NothingPrepared  == [d \in Doc |-> NothingExtracted]

Init ==
    /\ graph = EmptyGraph
    /\ mention = [m \in Mention |-> [status |-> "absent", entity |-> NoPerson]]
    /\ people = {} /\ built = FALSE /\ present = {}
    /\ lock = NoAsk /\ outcome = NoDecision
    /\ pc = [a \in Asks |-> "idle"]
    /\ asked = [a \in Asks |-> {}] /\ unchecked = [a \in Asks |-> {}]
    /\ todo = [a \in Asks |-> {}] /\ prepared = [a \in Asks |-> NothingPrepared]
    /\ doc = [a \in Asks |-> NoDoc] /\ written = [a \in Asks |-> {}]
    /\ disputes = [a \in Asks |-> {}]
    /\ questions = 0 /\ faults = 0 /\ crashes = 0

(* A question arrives with the documents retrieval reached for it. *)
Ask(a) ==
    /\ pc[a] = "idle" /\ questions < MaxQuestions
    /\ \E docs \in SUBSET Doc \ {{}} :
        /\ asked' = [asked EXCEPT ![a] = docs]
        /\ unchecked' = [unchecked EXCEPT ![a] = docs]
    /\ pc' = [pc EXCEPT ![a] = "check"]
    /\ questions' = questions + 1
    /\ UNCHANGED <<graph, mention, memory, lock, outcome, todo, prepared, doc, written,
                   disputes, faults, crashes>>

(* Already enriched: remembered, or a claim of it is in the graph. *)
Enriched(d) ==
    \/ d \in present
    \/ \E c \in Claim : ClaimDoc[c] = d /\ Assertion(c) \in graph.edges

(* is_present, for one document; no lock is held. *)
Check(a) ==
    /\ pc[a] = "check"
    /\ \E d \in unchecked[a] :
        /\ unchecked' = [unchecked EXCEPT ![a] = @ \ {d}]
        /\ IF Enriched(d)
           THEN present' = present \cup {d} /\ UNCHANGED todo
           ELSE todo' = [todo EXCEPT ![a] = @ \cup {d}] /\ UNCHANGED present
    /\ UNCHANGED <<graph, mention, people, built, lock, outcome, pc, asked, prepared, doc,
                   written, disputes, bounds>>

(* What reading a document and calling the model on it may give. *)
Extractions(d) ==
    {[failed |-> TRUE, claims |-> {}]} \cup
    {[failed |-> FALSE, claims |-> s] :
        s \in IF d \in Corpus THEN SUBSET {c \in Claim : ClaimDoc[c] = d} ELSE {}}

(* Read and extract at most Budget documents; nothing shared is touched. *)
Prepare(a) ==
    /\ pc[a] = "check" /\ unchecked[a] = {} /\ todo[a] # {}
    /\ \E batch \in SUBSET todo[a] :
        /\ \/ batch = todo[a] /\ Cardinality(batch) <= Budget
           \/ Cardinality(batch) = Budget
        /\ \E p \in [batch -> UNION {Extractions(d) : d \in batch}] :
            /\ \A d \in batch : p[d] \in Extractions(d)
            /\ prepared' = [prepared EXCEPT ![a] =
                              [d \in Doc |-> IF d \in batch THEN p[d] ELSE NothingExtracted]]
        /\ todo' = [todo EXCEPT ![a] = batch]
    /\ pc' = [pc EXCEPT ![a] = "commit"]
    /\ UNCHANGED <<graph, mention, memory, lock, outcome, asked, unchecked, doc, written,
                   disputes, bounds>>

(* Every document is already enriched. *)
NothingToDo(a) ==
    /\ pc[a] = "check" /\ unchecked[a] = {} /\ todo[a] = {}
    /\ pc' = [pc EXCEPT ![a] = "returned"]
    /\ UNCHANGED <<graph, mention, memory, lock, outcome, thread, bounds>>

(* A failed document that left nothing to write. *)
Hopeless(a, d) ==
    /\ prepared[a][d].failed
    /\ prepared[a][d].claims = {}
    /\ d \notin Corpus \/ MentionsIn(d) = {}

SkipDocument(a) ==
    /\ pc[a] = "commit" /\ LockFree
    /\ \E d \in todo[a] : Hopeless(a, d) /\ todo' = [todo EXCEPT ![a] = @ \ {d}]
    /\ UNCHANGED <<graph, mention, memory, lock, outcome, pc, asked, unchecked, prepared, doc,
                   written, disputes, bounds>>

StartCommit(a) ==
    /\ pc[a] = "commit" /\ LockFree
    /\ \E d \in todo[a] :
        /\ ~Hopeless(a, d)
        /\ todo' = [todo EXCEPT ![a] = @ \ {d}]
        /\ doc' = [doc EXCEPT ![a] = d]
    /\ lock' = a
    /\ pc' = [pc EXCEPT ![a] = "document"]
    /\ UNCHANGED <<graph, mention, memory, outcome, asked, unchecked, prepared, written,
                   disputes, bounds>>

(* One batch of the commit is written. *)
WriteBatch(a) ==
    /\ pc[a] \in NodeSteps \cup EdgeSteps \cup {"statuses"}
    /\ graph' = GraphAfter(a)
    /\ mention' = MentionAfter(a)
    /\ pc' = [pc EXCEPT ![a] = Following(a)]
    /\ UNCHANGED <<memory, lock, outcome, thread, bounds>>

(***************************************************************************)
(* The resolver takes in the document's people.  The first commit of a     *)
(* process builds it, adopting every entity the graph holds.               *)
(***************************************************************************)
Observe(a) ==
    /\ pc[a] = "observe"
    /\ people' = people \cup PeopleIn(doc[a])
                    \cup (IF built THEN {} ELSE {p \in Person : Node("Entity", p) \in graph.nodes})
    /\ built' = TRUE
    /\ pc' = [pc EXCEPT ![a] = Following(a)]
    /\ UNCHANGED <<graph, mention, present, lock, outcome, thread, bounds>>

(* Every mention is decided: in memory where that settles it, else by the graph. *)
Decide(a) ==
    /\ pc[a] = "decide"
    /\ outcome' = [m \in Mention |->
                     IF m \in Settled(doc[a]) THEN LexicalTarget(people, m)
                     ELSE IF m \in Ambiguous(doc[a]) THEN GraphTarget(graph, people, m)
                     ELSE NoPerson]
    /\ pc' = [pc EXCEPT ![a] = Following(a)]
    /\ UNCHANGED <<graph, mention, memory, lock, thread, bounds>>

(* Every id is registered, the document remembered, the lock released. *)
Register(a) ==
    /\ pc[a] = "register"
    /\ present' = present \cup {doc[a]}
    /\ written' = [written EXCEPT ![a] =
                     IF prepared[a][doc[a]].claims # {} THEN @ \cup {doc[a]} ELSE @]
    /\ doc' = [doc EXCEPT ![a] = NoDoc]
    /\ Leave(a) /\ outcome' = NoDecision
    /\ pc' = [pc EXCEPT ![a] = "commit"]
    /\ UNCHANGED <<graph, mention, people, built, asked, unchecked, todo, prepared, disputes,
                   bounds>>

(* The batch is committed and none of it asserted anything. *)
NothingWritten(a) ==
    /\ pc[a] = "commit" /\ todo[a] = {} /\ written[a] = {}
    /\ pc' = [pc EXCEPT ![a] = "returned"]
    /\ UNCHANGED <<graph, mention, memory, lock, outcome, thread, bounds>>

StartReconcile(a) ==
    /\ pc[a] = "commit" /\ todo[a] = {} /\ written[a] # {} /\ LockFree
    /\ lock' = a
    /\ pc' = [pc EXCEPT ![a] = "adjudicate"]
    /\ UNCHANGED <<graph, mention, memory, outcome, thread, bounds>>

Release(a, where) == Leave(a) /\ pc' = [pc EXCEPT ![a] = where]

(* Mutant: the pass does not read whom mentions are recorded as, and groups by name. *)
SubjectsByName == NoDecision

(* load_subject_identity: whom every mention is recorded as, when the pass reads it. *)
Subjects == IdentityOf(mention)

(* The claims about the facts the batch touched are read and compared. *)
Adjudicate(a) ==
    /\ pc[a] = "adjudicate"
    /\ LET claims == Visible(graph)
           identity == Subjects
           rows == ConflictRows(claims, identity, Touched(claims, identity, written[a]))
       IN  /\ disputes' = [disputes EXCEPT ![a] = rows]
           /\ IF rows = {}
              THEN Release(a, "returned")
              ELSE pc' = [pc EXCEPT ![a] = "conflicts_with"] /\ UNCHANGED lock
    /\ UNCHANGED <<graph, mention, memory, outcome, asked, unchecked, todo, prepared, doc,
                   written, bounds>>

WriteConflicts(a) ==
    /\ pc[a] = "conflicts_with"
    /\ graph' = GraphAfter(a)
    /\ pc' = [pc EXCEPT ![a] = "register_conflicts"]
    /\ UNCHANGED <<mention, memory, lock, outcome, thread, bounds>>

RegisterConflicts(a) ==
    /\ pc[a] = "register_conflicts"
    /\ Release(a, "returned")
    /\ UNCHANGED <<graph, mention, memory, outcome, thread, bounds>>

(* What a thread holds of a question goes with it. *)
Forget(a) ==
    /\ asked' = [asked EXCEPT ![a] = {}] /\ unchecked' = [unchecked EXCEPT ![a] = {}]
    /\ todo' = [todo EXCEPT ![a] = {}] /\ prepared' = [prepared EXCEPT ![a] = NothingPrepared]
    /\ doc' = [doc EXCEPT ![a] = NoDoc] /\ written' = [written EXCEPT ![a] = {}]
    /\ disputes' = [disputes EXCEPT ![a] = {}]

(* The controller has the reports; the thread takes another question. *)
Deliver(a) ==
    /\ pc[a] = "returned"
    /\ pc' = [pc EXCEPT ![a] = "idle"]
    /\ Forget(a)
    /\ UNCHANGED <<graph, mention, memory, lock, outcome, bounds>>

-----------------------------------------------------------------------------
(***************************************************************************)
(* A call to the engine or the registry raises after its retries.  The     *)
(* statement may have been applied all the same.                           *)
(***************************************************************************)
Raised(a) ==
    /\ faults < MaxFaults
    /\ faults' = faults + 1
    /\ UNCHANGED <<questions, crashes>>
    /\ \E applied \in BOOLEAN :
        /\ graph' = IF applied THEN GraphAfter(a) ELSE graph
        /\ mention' = IF applied THEN MentionAfter(a) ELSE mention

(* While resolving: recorded in the report, and the commit goes on. *)
ResolutionFails(a) ==
    /\ pc[a] \in IdentitySteps
    /\ pc[a] = "observe" => ~built
    /\ Raised(a)
    /\ pc' = [pc EXCEPT ![a] = ClaimStart(a)]
    /\ UNCHANGED <<memory, lock, outcome, thread>>

(* While reconciling: recorded in the reports, and the question goes on. *)
ReconcileFails(a) ==
    /\ pc[a] \in ReconcileSteps
    /\ Raised(a)
    /\ Release(a, "returned")
    /\ UNCHANGED <<memory, outcome, thread>>

(* Anywhere else: out of ingest_many, and the question is lost. *)
QuestionFails(a) ==
    /\ pc[a] \in {"check"} \cup StructureSteps \cup ClaimSteps
    /\ Raised(a)
    /\ pc' = [pc EXCEPT ![a] = "idle"]
    /\ Leave(a)
    /\ outcome' = IF lock = a THEN NoDecision ELSE outcome
    /\ Forget(a)
    /\ UNCHANGED memory

(* The process dies and is started again. *)
Crash ==
    /\ crashes < MaxCrashes
    /\ crashes' = crashes + 1
    /\ people' = {} /\ built' = FALSE /\ present' = {}
    /\ lock' = NoAsk /\ outcome' = NoDecision
    /\ pc' = [a \in Asks |-> "idle"]
    /\ asked' = [a \in Asks |-> {}] /\ unchecked' = [a \in Asks |-> {}]
    /\ todo' = [a \in Asks |-> {}] /\ prepared' = [a \in Asks |-> NothingPrepared]
    /\ doc' = [a \in Asks |-> NoDoc] /\ written' = [a \in Asks |-> {}]
    /\ disputes' = [a \in Asks |-> {}]
    /\ UNCHANGED <<graph, mention, questions, faults>>

Commit(a) ==
    \/ StartCommit(a) \/ SkipDocument(a) \/ WriteBatch(a) \/ Observe(a) \/ Decide(a)
    \/ Register(a)

Reconcile(a) ==
    \/ StartReconcile(a) \/ Adjudicate(a) \/ WriteConflicts(a) \/ RegisterConflicts(a)

Progress(a) ==
    \/ Check(a) \/ Prepare(a) \/ NothingToDo(a) \/ Commit(a)
    \/ NothingWritten(a) \/ Reconcile(a) \/ Deliver(a)

Next ==
    \/ \E a \in Asks : Ask(a) \/ Progress(a) \/ ResolutionFails(a) \/ ReconcileFails(a)
                          \/ QuestionFails(a)
    \/ Crash

Spec == Init /\ [][Next]_vars

(* A worker thread is scheduled; the model call and the driver's waits are bounded. *)
FairSpec == Spec /\ \A a \in Asks : WF_vars(Progress(a))

-----------------------------------------------------------------------------
(* Every vertex and every edge the ingestor can write. *)
Vertex ==
    ({"Document"} \X Doc) \cup ({"Mention"} \X Mention) \cup ({"Entity"} \X Person)
        \cup ({"Channel"} \X Channel) \cup ({"Ticket"} \X UNION {TicketsOf[d] : d \in Doc})
        \cup ({"Claim"} \X Claim) \cup ({"EvidenceSpan"} \X {SpanOf[c] : c \in Claim})

EdgeType == {"MENTIONED_IN", "REFERENCES", "RESOLVES_TO", "PARTICIPATED_IN", "CANDIDATE_FOR",
             "ASSERTS", "SUPPORTED_BY", "CONFLICTS_WITH"}
AnyEdge  == [type : EdgeType, src : Vertex, dst : Vertex]

Record     == [status : {"absent", "pending", "resolved", "unresolved"},
               entity : Person \cup {NoPerson}]
Extraction == [failed : BOOLEAN, claims : SUBSET Claim]

(* No edge dangles: both its endpoints exist. *)
Anchored(g) == \A e \in g.edges : {e.src, e.dst} \subseteq g.nodes

(***************************************************************************)
(* Type correctness of every variable; the graph has no dangling edge, and *)
(* a thread has a document exactly while it commits one.                   *)
(***************************************************************************)
TypeOK ==
    /\ graph \in [nodes : SUBSET Vertex, edges : SUBSET AnyEdge] /\ Anchored(graph)
    /\ mention \in [Mention -> Record]
    /\ people \subseteq Person /\ built \in BOOLEAN /\ present \subseteq Doc
    /\ lock \in Asks \cup {NoAsk}
    /\ outcome \in [Mention -> Person \cup {NoPerson}]
    /\ pc \in [Asks -> Open \cup Critical]
    /\ asked \in [Asks -> SUBSET Doc] /\ unchecked \in [Asks -> SUBSET Doc]
    /\ todo \in [Asks -> SUBSET Doc] /\ written \in [Asks -> SUBSET Doc]
    /\ prepared \in [Asks -> [Doc -> Extraction]]
    /\ doc \in [Asks -> Doc \cup {NoDoc}]
    /\ \A a \in Asks : doc[a] \in Doc <=> pc[a] \in CommitSteps
    /\ disputes \in [Asks -> SUBSET AnyEdge]
    /\ questions \in 0 .. MaxQuestions /\ faults \in 0 .. MaxFaults
    /\ crashes \in 0 .. MaxCrashes

Clean == faults = 0 /\ crashes = 0
Quiet == \A a \in Asks : pc[a] \in {"idle", "returned"}

(***************************************************************************)
(* Commits and reconciliations are serialised: a thread is inside one      *)
(* exactly when it holds the lock, whatever failed on the way.             *)
(***************************************************************************)
MutualExclusion == \A a \in Asks : pc[a] \in Critical <=> lock = a

(***************************************************************************)
(* A mention recorded as resolved has the RESOLVES_TO edge to the identity *)
(* it records, at every instant and after every failure or crash: the two  *)
(* records of one decision are written in separate batches, and readers    *)
(* of conflicts use one while everything else uses the other.              *)
(***************************************************************************)
RecordedIdentityHasEdge ==
    \A m \in Mention :
        mention[m].status = "resolved" => Resolution(m, mention[m].entity) \in graph.edges

(* The steps by which a commit has written, or decided, each part of the identities. *)
MentionsWritten   == {"mentioned_in", "tickets", "references"} \cup IdentitySteps
EntitiesWritten   == {"channel", "resolves", "participated_in", "decide", "graph_resolves",
                      "candidate_for", "statuses"}
SettledWritten    == {"participated_in", "decide", "graph_resolves", "candidate_for", "statuses"}
DecisionsMade     == {"graph_resolves", "candidate_for", "statuses"}
DecisionsWritten  == {"candidate_for", "statuses"}

(***************************************************************************)
(* How far the commit in progress has come with the identities of its      *)
(* document: the mention and entity vertices an edge needs are written     *)
(* before it, a decision names only people the graph holds, and its edge   *)
(* is written before the mention records it.                               *)
(***************************************************************************)
ResolutionOf(a) ==
    /\ pc[a] \in MentionsWritten =>
          \A m \in MentionsIn(doc[a]) : Node("Mention", m) \in graph.nodes
    /\ pc[a] \in EntitiesWritten =>
          \A p \in TouchedPeople(doc[a]) : Node("Entity", p) \in graph.nodes
    /\ pc[a] \in SettledWritten =>
          \A m \in Settled(doc[a]) : Resolution(m, LexicalTarget(people, m)) \in graph.edges
    /\ pc[a] \in DecisionsMade =>
          /\ \A m \in Settled(doc[a]) : outcome[m] = LexicalTarget(people, m)
          /\ \A m \in Ambiguous(doc[a]) :
                outcome[m] # NoPerson => Node("Entity", outcome[m]) \in graph.nodes
    /\ pc[a] \in DecisionsWritten =>
          \A m \in Ambiguous(doc[a]) :
                outcome[m] # NoPerson => Resolution(m, outcome[m]) \in graph.edges

(***************************************************************************)
(* Every thread's commit keeps those promises, whatever the threads that   *)
(* read, extract and answer at the same time do.                           *)
(***************************************************************************)
ResolutionInProgress == \A a \in Asks : ResolutionOf(a)

(* The edge leads from the lower to the higher of two readable claims with rival values. *)
JoinsRivals(g, e) ==
    \E x, y \in Visible(g) :
        /\ e = Dispute(x, y) /\ x < y
        /\ Object[x] # Object[y] /\ Predicate[x] = Predicate[y]

(***************************************************************************)
(* A CONFLICTS_WITH edge joins two claims a reader can see, with different *)
(* values, whatever batch, failure or crash came between.                  *)
(***************************************************************************)
DisputesJoinRivals == \A e \in Persisted(graph) : JoinsRivals(graph, e)

(***************************************************************************)
(* With no failure, a claim vertex is readable as soon as the commit that  *)
(* wrote it lets go of the lock: no edge batch was skipped for an endpoint *)
(* that did not exist yet.                                                 *)
(***************************************************************************)
EvidenceWhole ==
    Clean /\ lock = NoAsk =>
        \A c \in Claim : ClaimNode(c) \in graph.nodes => c \in Visible(graph)

(***************************************************************************)
(* With no failure, no mention is pending between commits: each one ends   *)
(* resolved or explicitly unresolved.                                      *)
(***************************************************************************)
NothingLeftPending ==
    Clean /\ lock = NoAsk => \A m \in Mention : mention[m].status # "pending"

(***************************************************************************)
(* Between questions, a mention's recorded identity and its RESOLVES_TO    *)
(* edges are one decision told twice: exactly the recorded edge for a      *)
(* resolved mention, and no recorded identity for any other.               *)
(***************************************************************************)
RecordsMatchEdges ==
    Quiet => \A m \in Mention :
        IF mention[m].status = "resolved"
        THEN Targets(graph, "RESOLVES_TO", Node("Mention", m)) = {Node("Entity", mention[m].entity)}
        ELSE mention[m].entity = NoPerson

(***************************************************************************)
(* When ingest_many returns to the answer path, every dispute among the    *)
(* claims of the question's documents is an edge the answer path can walk. *)
(***************************************************************************)
ReturnedAdjudicated ==
    \A a \in Asks : pc[a] = "returned" =>
        \A e \in Detected(Visible(graph), IdentityOf(mention)) :
            (\E x, y \in Claim : e = Dispute(x, y) /\ {ClaimDoc[x], ClaimDoc[y]} \subseteq asked[a])
            => e \in graph.edges

(* A claim its document asserts has its evidence span, once nothing is under way. *)
AssertedIsReadable ==
    Quiet => \A c \in Claim : Assertion(c) \in graph.edges => c \in Visible(graph)

(***************************************************************************)
(* Seen through what a reader of the graph can see, everything the threads,*)
(* their failures and a restart do is one of three things: a document's    *)
(* claims become readable, a document's mentions are decided, or claims    *)
(* that disagree at that instant are recorded as disputing.                *)
(***************************************************************************)
Promised == INSTANCE KnowledgeGraph WITH
    claims   <- Visible(graph),
    identity <- IdentityOf(mention),
    disputes <- Persisted(graph)

ImplementsKnowledgeGraph == Promised!Spec

(* Every question ends: the lock is given back on every path, and nobody waits forever. *)
QuestionsEnd == \A a \in Asks : pc[a] # "idle" ~> pc[a] = "idle"

=============================================================================
