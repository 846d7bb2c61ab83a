------------------------------- MODULE Answer -------------------------------
(***************************************************************************)
(* How a question is answered: AnswerController.answer of controller.py,   *)
(* one thread per question, all threads on one client.  The ingestor is    *)
(* here the writes that Ingest has in detail: it commits documents and     *)
(* reconciles the facts they touch, each under its lock.  The model that   *)
(* synthesises the prose is external and may answer anything its schema    *)
(* admits.  Retrieval may return any documents.                            *)
(***************************************************************************)
EXTENDS HydraClient, PagedRead

CONSTANTS
    Thread,
    Linked,                     \* pairs of documents that reference one ticket
    Served,                     \* documents the row locator of the ingestor finds
    Verbatim,                   \* claims whose quote is in the body it finds of their document
    EvidenceWindow,             \* claims the synthesis is shown
    RelatedEvidence,            \* claims reached by ticket that may join them
    DisputePage, DisputeMaxPages,
    Retries,                    \* _TRANSIENT_RETRIES
    Budgets                     \* bounds of the model: what may happen, how often

Kind == {"ask", "conflicts", "status", "synthesis", "failure", "elsewhere"}

ASSUME AnswerAssumption ==
    /\ IsFiniteSet(Doc) /\ IsFiniteSet(Claim) /\ Linked \subseteq Doc \X Doc
    /\ Served \subseteq Doc /\ Verbatim \subseteq {c \in Claim : ClaimDoc[c] \in Served}
    /\ {EvidenceWindow, RelatedEvidence, Retries} \subseteq Nat
    /\ {DisputePage, DisputeMaxPages} \subseteq Nat \ {0}
    /\ Budgets \subseteq [Kind -> Nat]

VARIABLES
    pc,         \* where each thread is
    q,          \* what it holds of the question it answers
    bodies,     \* the documents whose bodies are cached, oldest first
    budget      \* how much more of each kind may happen

controller == <<pc, q, bodies, budget>>

(* A bound of the model. *)
Spend(kind) == budget[kind] > 0 /\ budget' = [budget EXCEPT ![kind] = @ - 1]

NoWrite == [claims |-> {}, disputes |-> {}]

(* What a thread holds before its question. *)
Blank ==
    [candidates |-> {}, committed |-> {}, write |-> NoWrite, tries |-> 0, at |-> 0, since |-> 0,
     doc |-> {}, todo |-> {}, evidence |-> {}, reached |-> {}, extra |-> {}, rejected |-> {},
     cut |-> FALSE, cited |-> {}, used |-> {}, stated |-> {},
     side |-> "out", page |-> 0, seen |-> {}, sure |-> TRUE, truncated |-> FALSE, found |-> {},
     verdict |-> "none"]

Cached == {bodies[i] : i \in 1 .. Len(bodies)}

ClaimsOf(docs) == {c \in Claim : ClaimDoc[c] \in docs}
DocsOf(cs)     == {ClaimDoc[c] : c \in cs}

Goto(t, place) == pc' = [pc EXCEPT ![t] = place]

(* retrieve_documents: the hits that the registry knows as documents. *)
Retrieve(t) ==
    /\ pc[t] = "retrieve"
    /\ \E docs \in SUBSET Doc : q' = [q EXCEPT ![t].candidates = docs]
    /\ Goto(t, "ingest")
    /\ UNCHANGED <<hydra, bodies, budget>>

-----------------------------------------------------------------------------
(* The ingestor's writes, and the retries of _bolt_run. *)

Writing  == {t \in Thread : pc[t] \in {"write", "note"}}

(***************************************************************************)
(* A document of the corpus that nobody has claims of is read by the model *)
(* and committed, with the claims whose quotes are found in its body.      *)
(***************************************************************************)
Commit(t) ==
    /\ pc[t] = "ingest" /\ Writing = {}
    /\ \E d \in (q[t].candidates \cap Served) \ DocsOf(claims) :
       \E new \in SUBSET (ClaimsOf({d}) \cap Verbatim) \ {{}} :
            q' = [q EXCEPT ![t].write = [claims |-> new, disputes |-> {}],
                           ![t].committed = @ \cup {d}]
    /\ Goto(t, "write")
    /\ UNCHANGED <<hydra, bodies, budget>>

(***************************************************************************)
(* The facts the committed documents touch are compared, on a snapshot the *)
(* client reads; where nothing is disputed nothing is written.             *)
(***************************************************************************)
Reconcile(t) ==
    /\ pc[t] = "ingest" /\ q[t].committed # {} /\ Writing = {}
    /\ \E v \in Readable :
            LET seen == log[v]
                rows == ConflictRows(seen.claims, seen.identity,
                                     Touched(seen.claims, seen.identity, q[t].committed))
            IN  /\ q' = [q EXCEPT ![t].write = [claims |-> {}, disputes |-> rows],
                                  ![t].committed = {}]
                /\ IF rows = {} THEN UNCHANGED pc ELSE Goto(t, "write")
    /\ UNCHANGED <<hydra, bodies, budget>>

(* A statement of the reconciliation failed, which an answer survives. *)
ReconcileFails(t) ==
    /\ pc[t] = "ingest" /\ q[t].committed # {} /\ Writing = {} /\ Spend("failure")
    /\ q' = [q EXCEPT ![t].committed = {}]
    /\ UNCHANGED <<hydra, pc, bodies>>

(* A statement that the engine applies and answers. *)
Execute(t) ==
    /\ pc[t] = "write"
    /\ Apply(q[t].write)
    /\ q' = [q EXCEPT ![t].at = Len(log) + 1]
    /\ Goto(t, "note")
    /\ UNCHANGED <<bookmark, overtaken, bodies, budget>>

(***************************************************************************)
(* The connection dies under a statement, applied or not.  It is sent      *)
(* again; after the last retry it raises.  A reconciliation is given up    *)
(* then and the answer goes on; a commit ends the request.                 *)
(***************************************************************************)
Disconnect(t) ==
    /\ pc[t] = "write" /\ Spend("failure")
    /\ Apply(q[t].write) \/ UNCHANGED <<promised, log>>
    /\ \/ /\ q[t].tries < Retries
          /\ q' = [q EXCEPT ![t].tries = @ + 1]
          /\ UNCHANGED pc
       \/ /\ q[t].tries >= Retries /\ q[t].write.claims = {}
          /\ q' = [q EXCEPT ![t].tries = 0, ![t].write = NoWrite]
          /\ Goto(t, "ingest")
       \/ /\ q[t].tries >= Retries /\ q[t].write.claims # {}
          /\ q' = [q EXCEPT ![t] = Blank]
          /\ Goto(t, "idle")
    /\ UNCHANGED <<bookmark, overtaken, bodies>>

(* self._bookmarks = latest *)
Note(t) ==
    /\ pc[t] = "note"
    /\ Remember(q[t].at)
    /\ q' = [q EXCEPT ![t].tries = 0, ![t].write = NoWrite, ![t].at = 0]
    /\ Goto(t, "ingest")
    /\ UNCHANGED <<promised, log, bodies, budget>>

(* ingest_many returns: what it committed is reconciled, or failed to be. *)
Ingested(t) ==
    /\ pc[t] = "ingest" /\ q[t].committed = {}
    /\ q' = [q EXCEPT ![t].todo = q[t].candidates, ![t].candidates = {},
                   ![t].since = bookmark]
    /\ Goto(t, "gather")
    /\ UNCHANGED <<hydra, bodies, budget>>

-----------------------------------------------------------------------------
(* Gathering the evidence. *)

(* Mutant: a full cache takes no more. *)
WithBodyWhileRoom(d) == IF d \in Served /\ bodies = <<>> THEN Append(bodies, d) ELSE bodies

(* A body that is missing is fetched and cached, if the locator finds the document. *)
WithBody(d) == IF d \in Served \ Cached THEN Append(bodies, d) ELSE bodies

(* The claims whose quote is verbatim in a cached body. *)
Checked(rows) == rows \cap Verbatim \cap ClaimsOf(Cached)

(* The next candidate's body is fetched into the cache unless it is there. *)
Fetch(t) ==
    /\ pc[t] = "gather"
    /\ \E d \in q[t].todo :
        /\ q' = [q EXCEPT ![t].doc = {d}, ![t].todo = @ \ {d}]
        /\ bodies' = WithBody(d)
    /\ Goto(t, "claims")
    /\ UNCHANGED <<hydra, budget>>

(* claims_for, and the check of every quote against the cached body. *)
Gather(t) ==
    /\ pc[t] = "claims"
    /\ \E v \in Readable :
        LET rows == log[v].claims \cap ClaimsOf(q[t].doc)
        IN  q' = [q EXCEPT ![t].doc = {},
                           ![t].evidence = @ \cup Checked(rows),
                           ![t].rejected = @ \cup (rows \ Checked(rows))]
    /\ Goto(t, "gather")
    /\ UNCHANGED <<hydra, bodies, budget>>

Reached(docs) == {d \in Doc : \E e \in docs : d # e /\ <<e, d>> \in Linked}

(***************************************************************************)
(* related_by_ticket: some of the claims of documents that share a ticket, *)
(* or none when the traversal fails, which an answer survives.             *)
(***************************************************************************)
Relate(t) ==
    /\ pc[t] = "gather" /\ q[t].todo = {}
    /\ \E v \in Readable :
       \E some \in SUBSET (log[v].claims \cap ClaimsOf(Reached(DocsOf(q[t].evidence)))) :
        /\ Cardinality(some) <= RelatedEvidence
        /\ q' = [q EXCEPT ![t].reached = some]
    /\ Goto(t, "related")
    /\ UNCHANGED <<hydra, bodies, budget>>

(* One of them at a time: its document's body is fetched unless it is cached. *)
FetchRelated(t) ==
    /\ pc[t] = "related"
    /\ \E d \in DocsOf(q[t].reached) :
        /\ q' = [q EXCEPT ![t].doc = {d}]
        /\ bodies' = WithBody(d)
    /\ Goto(t, "quote")
    /\ UNCHANGED <<hydra, budget>>

(* Then its quote is checked as any other. *)
CheckRelated(t) ==
    /\ pc[t] = "quote"
    /\ \E c \in q[t].reached \cap ClaimsOf(q[t].doc) :
            q' = [q EXCEPT ![t].doc = {}, ![t].reached = @ \ {c},
                           ![t].extra = @ \cup Checked({c}),
                           ![t].rejected = @ \cup ({c} \ Checked({c}))]
    /\ Goto(t, "related")
    /\ UNCHANGED <<hydra, bodies, budget>>

(* Every claim that was reached has been looked at. *)
Gathered(t) == pc[t] = "related" /\ q[t].reached = {}

-----------------------------------------------------------------------------
(* Synthesis and its validation. *)

Abstaining(r) == [r EXCEPT !.evidence = {}, !.extra = {}, !.cited = {}, !.used = {}, !.stated = {},
                           !.verdict = "insufficient"]

Abstain(t) ==
    /\ Gathered(t)
    /\ q' = [q EXCEPT ![t] = Abstaining(@)]
    /\ Goto(t, "trace")
    /\ UNCHANGED <<hydra, bodies, budget>>

(* evidence[: evidence_window]: what was retrieved goes first. *)
Windows(r) ==
    {w \in SUBSET (r.evidence \cup r.extra) :
        /\ Cardinality(w) <= EvidenceWindow
        /\ Cardinality(w) < EvidenceWindow => w = r.evidence \cup r.extra
        /\ w \cap (r.extra \ r.evidence) # {} => r.evidence \subseteq w}

(***************************************************************************)
(* The model cites documents it was shown and names claims it was shown;   *)
(* its prose states the values of some of those it names.                  *)
(***************************************************************************)
Synthesise(t) ==
    /\ Gathered(t) /\ q[t].evidence # {} /\ Spend("synthesis")
    /\ \E w \in Windows(q[t]) : \E cited \in SUBSET DocsOf(w), used \in SUBSET w :
       \E stated \in SUBSET {Object[c] : c \in used} :
            q' = [q EXCEPT ![t].cited = cited, ![t].used = used, ![t].stated = stated,
                           ![t].evidence = {}, ![t].extra = {}]
    /\ Goto(t, "validate")
    /\ UNCHANGED <<hydra, bodies>>

(* Mutant: a named claim need not be of a document that survived. *)
RestsOnAny(r, cited) == r.used

(* The claims the answer rests on: those it named in documents that survived validation. *)
RestsOn(r, cited) == r.used \cap ClaimsOf(cited)

Exists(v, d) == d \in DocsOf(log[v].claims)

(***************************************************************************)
(* citation_exists, a statement for each document, of any snapshot; then   *)
(* the answer fails closed when no citation or no named claim is left.     *)
(***************************************************************************)
Validate(t) ==
    /\ pc[t] = "validate"
    /\ \E cited \in SUBSET q[t].cited :
        /\ \A d \in cited : \E v \in Readable : Exists(v, d)
        /\ \A d \in q[t].cited \ cited : \E v \in Readable : ~ Exists(v, d)
        /\ LET used == RestsOn(q[t], cited)
           IN  IF used = {}
               THEN q' = [q EXCEPT ![t] = Abstaining(@)] /\ Goto(t, "trace")
               ELSE /\ q' = [q EXCEPT ![t].cited = cited, ![t].used = used,
                                      ![t].todo = DocsOf(used)]
                    /\ Goto(t, "contest")
    /\ UNCHANGED <<hydra, bodies, budget>>

-----------------------------------------------------------------------------
(* contested(): the disputes the answer stands on. *)

(* Mutant: the edges that come in are not followed. *)
EdgesOutOnly(v, d, side) ==
    {x \in ClaimsOf({d}) \X Claim : Dispute(x[1], x[2]) \in log[v].disputes}

(* Pairs of a claim of d and its rival, over the edges in one direction. *)
Edges(v, d, side) ==
    {x \in ClaimsOf({d}) \X Claim :
        (IF side = "out" THEN Dispute(x[1], x[2]) ELSE Dispute(x[2], x[1])) \in log[v].disputes}

RivalOf == [row \in Claim \X Claim |-> row[2]]

(* A row about a fact the answer used, whose value the answer states. *)
Matters(r, row) ==
    /\ \E u \in r.used : SubjectName[u] = SubjectName[row[1]] /\ Predicate[u] = Predicate[row[1]]
    /\ Object[row[1]] # Object[RivalOf[row]]
    /\ Object[row[1]] \in r.stated

(* The other direction, then the next document. *)
Onward(r, d) ==
    IF r.side = "out" THEN [r EXCEPT !.side = "in", !.page = 0, !.seen = {}]
    ELSE [r EXCEPT !.side = "out", !.page = 0, !.seen = {}, !.todo = @ \ {d}]

(* One page of one direction of one document; the last page allowed leaves a note. *)
ReadDisputes(t) ==
    /\ pc[t] = "contest" /\ q[t].todo # {}
    /\ LET r == q[t]
           d == CHOOSE x \in r.todo : TRUE
       IN  \E v \in Readable :
           LET rows == Edges(v, d, r.side)
           IN  \E page \in Slice(rows, RivalOf, r.page * DisputePage, DisputePage) :
               LET read == [r EXCEPT !.found = @ \cup {x \in page : Matters(r, x)},
                                     !.sure = @ /\ GoesOn(r.seen, rows, RivalOf, page),
                                     !.seen = rows]
               IN  q' = [q EXCEPT ![t] =
                        IF Cardinality(page) < DisputePage THEN Onward(read, d)
                        ELSE IF r.page + 1 < DisputeMaxPages THEN [read EXCEPT !.page = @ + 1]
                        ELSE [Onward(read, d) EXCEPT !.truncated = TRUE]]
    /\ UNCHANGED <<hydra, pc, bodies, budget>>

Conclude(t) ==
    /\ pc[t] = "contest" /\ q[t].todo = {}
    /\ q' = [q EXCEPT ![t].verdict = IF q[t].found = {} THEN "supported" ELSE "conflicting",
                      ![t].found = {}]
    /\ Goto(t, "trace")
    /\ UNCHANGED <<hydra, bodies, budget>>

-----------------------------------------------------------------------------
(* The result is complete but for the probe of _trace, over HTTP: its answer carries a bookmark, and may arrive late. *)
Probe(t) ==
    /\ pc[t] = "trace"
    /\ \E v \in Readable : q' = [q EXCEPT ![t] = [Blank EXCEPT !.at = v]]
    /\ Goto(t, "probe")
    /\ UNCHANGED <<hydra, bodies, budget>>

Probed(t) ==
    /\ pc[t] = "probe"
    /\ Remember(q[t].at)
    /\ Goto(t, "answered")
    /\ UNCHANGED <<promised, log, q, bodies, budget>>

(* A read fails after its retries, or the locator or the synthesis refuses: the request fails. *)
Raise(t) ==
    /\ pc[t] \in {"ingest", "gather", "claims", "related", "validate", "contest", "trace"}
    /\ Spend("failure")
    /\ q' = [q EXCEPT ![t] = Blank]
    /\ Goto(t, "idle")
    /\ UNCHANGED <<hydra, bodies>>

Answering(t) ==
    \/ Retrieve(t) \/ Commit(t) \/ Reconcile(t) \/ ReconcileFails(t)
    \/ Execute(t) \/ Disconnect(t) \/ Note(t) \/ Ingested(t)
    \/ Fetch(t) \/ Gather(t) \/ Relate(t) \/ FetchRelated(t) \/ CheckRelated(t)
    \/ Abstain(t) \/ Synthesise(t)
    \/ Validate(t) \/ ReadDisputes(t) \/ Conclude(t) \/ Probe(t) \/ Probed(t) \/ Raise(t)

=============================================================================
