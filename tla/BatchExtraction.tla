-------------------------- MODULE BatchExtraction --------------------------
(***************************************************************************)
(* The bulk extraction of scripts/45_extract_claims.py over the Message    *)
(* Batches half of tracegraph/llm.py: the documents of a run are sent to   *)
(* the model as one batch, the results come back in any order, and what    *)
(* survives the check of its evidence span is registered and written.      *)
(* The process can be killed at any step; a batch that was submitted goes  *)
(* on without it.  Each kind of row of an extraction fits one statement.   *)
(***************************************************************************)
EXTENDS Corpus, IdRegistry, Graph

CONSTANTS
    RunDocument,    \* the documents the run loaded
    Proposal,       \* what the model can propose
    Quotes,         \* the documents that have a proposal's span word for word
    SpanAt,         \* where it is in them
    Replies         \* the proposals the model may make of one document

ASSUME ExtractionAssumption ==
    /\ RunDocument \subseteq Document
    /\ Quotes \in [Proposal -> SUBSET Document]
    /\ DOMAIN SpanAt = Proposal
    /\ Replies \subseteq SUBSET Proposal

VARIABLES
    service,    \* the batches submitted so far
    graph,      \* vertices and edges: labels and types, with their ids
    marked,     \* the checkpoint: the jobs that are done
    extract     \* what the script holds

extraction == <<service, graph, marked, extract>>

NoExtract ==
    [at |-> "off", batch |-> 0, heard |-> {}, accepted |-> {}, step |-> 0,
     written |-> FALSE, fresh |-> FALSE]

ClaimKey(d, c)   == <<"Claim", d, c>>
SpanKey(d, c)    == <<"EvidenceSpan", d, SpanAt[c]>>
AssertsKey(d, c) == <<"ASSERTS", d, c>>
SupportKey(d, c) == <<"SUPPORTED_BY", d, c>>

ClaimVertex(d, c) == Node("Claim", Fold[ClaimKey(d, c)])
SpanVertex(d, c)  == Node("EvidenceSpan", Fold[SpanKey(d, c)])
DocumentVertex(d) == Node("Document", Fold[DocumentKey(d)])

Script(place) == extract.at = place

(* The documents asked for, build_batch_requests and submit_batch. *)
Submit ==
    /\ extract.at \in {"off", "ended"}
    /\ \E docs \in SUBSET (RunDocument \cap {corpus[k] : k \in DOMAIN corpus}) \ {{}} :
            service' = Append(service, [docs |-> docs, ended |-> FALSE, reply |-> <<>>])
    /\ extract' = [NoExtract EXCEPT !.at = "poll", !.batch = Len(service) + 1]
    /\ UNCHANGED <<corpus, ids, graph, marked>>

(* The service ends a batch: for each document a reply, or none. *)
Failed == {"errored"}

EndBatch(b) ==
    /\ ~ service[b].ended
    /\ \E reply \in [service[b].docs -> Replies \cup {Failed}] :
            service' = [service EXCEPT ![b].ended = TRUE, ![b].reply = reply]
    /\ UNCHANGED <<corpus, ids, graph, marked, extract>>

(* poll_batch *)
Poll ==
    /\ Script("poll") /\ service[extract.batch].ended
    /\ extract' = [extract EXCEPT !.at = "collect"]
    /\ UNCHANGED <<corpus, ids, service, graph, marked>>

(* TimeoutError: the script ends and the batch id is lost with it. *)
PollTimesOut ==
    /\ Script("poll") /\ ~ service[extract.batch].ended
    /\ extract' = NoExtract
    /\ UNCHANGED <<corpus, ids, service, graph, marked>>

Asked == service[extract.batch].docs

(* Mutant: a span is taken on trust. *)
GroundedOnTrust(d, c) == TRUE

(* validate_spans: the span is in the document, word for word. *)
Grounded(d, c) == d \in Quotes[c]

(* The next result, whosever it is: custom_id says of which document. *)
Collect ==
    /\ Script("collect")
    /\ \E d \in Asked \ extract.heard :
        LET reply == service[extract.batch].reply[d]
            new   == IF reply = Failed THEN {} ELSE {<<d, c>> : c \in {k \in reply : Grounded(d, k)}}
        IN  extract' = [extract EXCEPT !.heard = @ \cup {d}, !.accepted = @ \cup new]
    /\ UNCHANGED <<corpus, ids, service, graph, marked>>

-----------------------------------------------------------------------------
(* What is written of the accepted claims. *)

(* Mutant: relationships are loaded before the vertices they join. *)
StepsEdgesFirst == <<"asserts", "supported", "claims", "spans">>

Steps == <<"claims", "spans", "asserts", "supported">>

VertexRows(step, accepted) ==
    CASE step = "claims" -> {ClaimVertex(x[1], x[2]) : x \in accepted}
      [] step = "spans"  -> {SpanVertex(x[1], x[2]) : x \in accepted}
      [] OTHER -> {}

EdgeRows(step, accepted) ==
    CASE step = "asserts" ->
            {Edge(Fold[AssertsKey(x[1], x[2])], DocumentVertex(x[1]), ClaimVertex(x[1], x[2])) : x \in accepted}
      [] step = "supported" ->
            {Edge(Fold[SupportKey(x[1], x[2])], ClaimVertex(x[1], x[2]), SpanVertex(x[1], x[2])) : x \in accepted}
      [] OTHER -> {}

Names(accepted) ==
    UNION {{ClaimKey(x[1], x[2]), SpanKey(x[1], x[2]), AssertsKey(x[1], x[2]), SupportKey(x[1], x[2])} :
            x \in accepted}

(* A job is named by the documents its claims are of, as many times as they have claims. *)
Job(n) ==
    <<Steps[n], [d \in {x[1] : x \in extract.accepted} |->
                    Cardinality({x \in extract.accepted : x[1] = d})]>>

(* All results are in: nothing survived, a collision, or on to the writes. *)
RegisterClaims ==
    /\ Script("collect") /\ extract.heard = Asked
    /\ \/ /\ extract.accepted # {}
          /\ RegisterMany(Names(extract.accepted))
          /\ extract' = [extract EXCEPT !.at = "write", !.step = 1,
                            !.fresh = \A n \in DOMAIN Steps : Job(n) \notin marked]
       \/ /\ extract.accepted = {} \/ Collides(Names(extract.accepted))
          /\ extract' = NoExtract /\ UNCHANGED ids
    /\ UNCHANGED <<corpus, service, graph, marked>>

AtStep == Script("write") /\ extract.step <= Len(Steps)

Proceed == extract' = [extract EXCEPT !.step = @ + 1, !.written = FALSE]

(* if checkpointer.done(job, batch_key): continue *)
SkipJob ==
    /\ AtStep /\ ~ extract.written /\ Job(extract.step) \in marked
    /\ Proceed
    /\ UNCHANGED <<corpus, ids, service, graph, marked>>

WriteJob ==
    /\ AtStep /\ ~ extract.written /\ Job(extract.step) \notin marked
    /\ LET s == Steps[extract.step]
       IN  graph' = UpsertEdges(UpsertNodes(graph, VertexRows(s, extract.accepted)),
                                EdgeRows(s, extract.accepted))
    /\ extract' = [extract EXCEPT !.written = TRUE]
    /\ UNCHANGED <<corpus, ids, service, marked>>

(* checkpointer.mark, once the write has returned. *)
MarkJob ==
    /\ AtStep /\ extract.written
    /\ marked' = marked \cup {Job(extract.step)}
    /\ Proceed
    /\ UNCHANGED <<corpus, ids, service, graph>>

FinishExtract ==
    /\ Script("write") /\ extract.step > Len(Steps)
    /\ extract' = [extract EXCEPT !.at = "ended"]
    /\ UNCHANGED <<corpus, ids, service, graph, marked>>

Extracting ==
    \/ Poll \/ Collect \/ RegisterClaims \/ SkipJob \/ WriteJob \/ MarkJob \/ FinishExtract

-----------------------------------------------------------------------------
(* The claims whose vertices are in the graph: the registry says whose an id is. *)
Written ==
    {x \in RunDocument \X Proposal :
        ClaimVertex(x[1], x[2]) \in graph.nodes /\ Registered(ClaimKey(x[1], x[2]))}

(***************************************************************************)
(* A claim in the graph is attributed to a document that has its evidence  *)
(* span word for word and of which the model was told: results arrive in   *)
(* any order, and some of them not at all.                                 *)
(***************************************************************************)
ClaimsLandHome ==
    \A x \in Written :
        /\ x[1] \in Quotes[x[2]]
        /\ \E b \in DOMAIN service :
            service[b].ended /\ x[1] \in service[b].docs /\ x[2] \in service[b].reply[x[1]]

(***************************************************************************)
(* An extraction that ended, and of whose jobs none was marked when it     *)
(* began to write, has left every claim it accepted with the document that *)
(* asserts it and the span that supports it.                               *)
(***************************************************************************)
ExtractionWhole ==
    Script("ended") /\ extract.fresh =>
        \A x \in extract.accepted :
            /\ Joined(graph, Fold[AssertsKey(x[1], x[2])], DocumentVertex(x[1]), ClaimVertex(x[1], x[2]))
            /\ Joined(graph, Fold[SupportKey(x[1], x[2])], ClaimVertex(x[1], x[2]), SpanVertex(x[1], x[2]))

=============================================================================
