-------------------------------- MODULE Api --------------------------------
(***************************************************************************)
(* The HTTP API of api.py: worker threads that answer questions (Answer),  *)
(* show the conflict panel and report the status, and what they share: the *)
(* client, the run id and the ingestor, each built by the first thread     *)
(* that needs it, the bodies they cached and the last panel.               *)
(***************************************************************************)
EXTENDS Answer

CONSTANTS
    NoThread,
    SpansOf,            \* how many spans a claim has
    ClaimPage,          \* rows per page of load_claims
    MaxClaimPages,      \* pages after which it gives up
    MaxCachedBodies

ASSUME ApiAssumption ==
    /\ NoThread \notin Thread
    /\ SpansOf \in [Claim -> 1 .. 2]
    /\ {ClaimPage, MaxClaimPages} \subseteq Nat \ {0}
    /\ MaxCachedBodies \in Nat

VARIABLES
    init,       \* _init: the thread that holds it, or NoThread
    want,       \* the instance each thread waits for
    made,       \* how many of each shared instance were made
    shared,     \* those that are published
    request,    \* what each thread serves
    panel,      \* what each thread has read of the panel it shows
    cache       \* _state["conflicts"]

api  == <<init, want, made, shared, request, panel, cache>>
vars == <<hydra, controller, api>>

Instance == {"client", "run", "ingestor"}
Request  == {"ask", "conflicts", "status"}

Needs(kind) == IF kind = "ask" THEN Instance ELSE {"client", "run"}

NoPanel == [epoch |-> 0, found |-> {}, identity |-> [m \in Mention |-> NoPerson], sure |-> FALSE]
Unread  == [claims |-> {}, page |-> 0, seen |-> {}, shown |-> NoPanel]

ApiInit ==
    /\ ClientInit
    /\ pc = [t \in Thread |-> "idle"] /\ q = [t \in Thread |-> Blank]
    /\ bodies = <<>> /\ budget \in Budgets
    /\ init = NoThread /\ want = [t \in Thread |-> "client"] /\ made = [i \in Instance |-> 0] /\ shared = {}
    /\ request = [t \in Thread |-> "none"] /\ panel = [t \in Thread |-> Unread]
    /\ cache = NoPanel

(* A request is given to a worker thread. *)
Accept(t) ==
    /\ pc[t] = "idle"
    /\ \E kind \in Request : Spend(kind) /\ request' = [request EXCEPT ![t] = kind]
    /\ q' = [q EXCEPT ![t] = Blank] /\ panel' = [panel EXCEPT ![t] = Unread]
    /\ Goto(t, "check")
    /\ UNCHANGED <<hydra, bodies, init, want, made, shared, cache>>

-----------------------------------------------------------------------------
(* Double-checked construction of what the request needs. *)

Missing(t) == Needs(request[t]) \ shared

(* AnswerController(client(), run_id(), ingestor=ingestor()): in this order. *)
First(missing) ==
    IF "client" \in missing THEN "client" ELSE IF "run" \in missing THEN "run" ELSE "ingestor"

(* if _state[want] is None, without the lock *)
Check(t) ==
    /\ pc[t] = "check"
    /\ IF Missing(t) # {}
       THEN want' = [want EXCEPT ![t] = First(Missing(t))] /\ Goto(t, "await")
       ELSE /\ want' = want
            /\ CASE request[t] = "conflicts" -> Goto(t, "count")
                 [] request[t] = "status" -> Goto(t, "trace")
                 [] Len(bodies) > MaxCachedBodies -> Goto(t, "trim")
                 [] OTHER -> Goto(t, "retrieve")
    /\ UNCHANGED <<hydra, q, bodies, budget, init, made, shared, request, panel, cache>>

(* with _init *)
Acquire(t) ==
    /\ pc[t] = "await" /\ init = NoThread
    /\ init' = t
    /\ Goto(t, "recheck")
    /\ UNCHANGED <<hydra, q, bodies, budget, want, made, shared, request, panel, cache>>

(* Mutant: nobody looks again under the lock. *)
StillMissingUnchecked(i) == TRUE

(* if _state[want] is None, under the lock *)
StillMissing(i) == i \notin shared

Recheck(t) ==
    /\ pc[t] = "recheck"
    /\ IF StillMissing(want[t])
       THEN /\ made' = [made EXCEPT ![want[t]] = @ + 1]
            /\ Goto(t, "build") /\ UNCHANGED init
       ELSE Goto(t, "check") /\ init' = NoThread /\ UNCHANGED made
    /\ UNCHANGED <<hydra, q, bodies, budget, want, shared, request, panel, cache>>

(* Construction took time: verify(), or a read of the graph. *)
Publish(t) ==
    /\ pc[t] = "build"
    /\ shared' = shared \cup {want[t]}
    /\ init' = NoThread
    /\ Goto(t, "check")
    /\ UNCHANGED <<hydra, q, bodies, budget, want, made, request, panel, cache>>

(* Mutant: the lock is not given back. *)
FailToBuildHolding(t) ==
    /\ pc[t] = "build" /\ Spend("failure")
    /\ made' = [made EXCEPT ![want[t]] = @ - 1]
    /\ Goto(t, "idle")
    /\ UNCHANGED <<hydra, q, bodies, init, want, shared, request, panel, cache>>

(* It failed: the instance is closed or dropped unpublished, and so is the request. *)
FailToBuild(t) ==
    /\ pc[t] = "build" /\ Spend("failure")
    /\ made' = [made EXCEPT ![want[t]] = @ - 1]
    /\ init' = NoThread
    /\ Goto(t, "idle")
    /\ UNCHANGED <<hydra, q, bodies, want, shared, request, panel, cache>>

-----------------------------------------------------------------------------
(* The newer half of the cached bodies, and the documents of the older one. *)
Kept    == SubSeq(bodies, Len(bodies) \div 2 + 1, Len(bodies))
Dropped == {bodies[i] : i \in 1 .. Len(bodies) \div 2}

(***************************************************************************)
(* bodies(): the older half goes, whoever is about to use it.  cut keeps   *)
(* in mind that a question had one of them in hand, fetched or found and   *)
(* not yet checked against.                                                *)
(***************************************************************************)
Trim(t) ==
    /\ pc[t] = "trim" /\ init = NoThread
    /\ bodies' = Kept
    /\ q' = [s \in Thread |-> [q[s] EXCEPT !.cut = @ \/ q[s].doc \cap Dropped # {}]]
    /\ Goto(t, "retrieve")
    /\ UNCHANGED <<hydra, budget, init, want, made, shared, request, panel, cache>>

-----------------------------------------------------------------------------
(* The conflict panel. *)

(* A count over HTTP tells the epoch of the graph, and brings a bookmark. *)
Count(t) ==
    /\ pc[t] = "count"
    /\ \E v \in Readable : q' = [q EXCEPT ![t].at = v]
    /\ Goto(t, "counting")
    /\ UNCHANGED <<hydra, bodies, budget, api>>

(* Mutant: what is cached is shown whatever its epoch. *)
HitAny(epoch) == cache.epoch # 0

Hit(epoch) == cache.epoch = epoch

Counted(t) ==
    /\ pc[t] = "counting"
    /\ Remember(q[t].at)
    /\ IF Hit(q[t].at)
       THEN panel' = [panel EXCEPT ![t].shown = [cache EXCEPT !.epoch = q[t].at]] /\ Goto(t, "answered")
       ELSE /\ panel' = [panel EXCEPT ![t].shown = [NoPanel EXCEPT !.epoch = q[t].at, !.sure = TRUE]]
            /\ Goto(t, "probe_claims")
    /\ UNCHANGED <<promised, log, q, bodies, budget, init, want, made, shared, request, cache>>

(* load_claims: a row for every span of a claim. *)
ClaimId == [row \in Claim \X (1 .. 2) |-> row[1]]
ClaimRows(v) == {r \in log[v].claims \X (1 .. 2) : r[2] <= SpansOf[ClaimId[r]]}

(* _read_all, first unordered and for one row more than a page: that may be everything. *)
ProbeClaims(t) ==
    /\ pc[t] = "probe_claims"
    /\ \E v \in Readable :
        IF Cardinality(ClaimRows(v)) <= ClaimPage
        THEN panel' = [panel EXCEPT ![t].claims = log[v].claims] /\ Goto(t, "identity")
        ELSE Goto(t, "pages") /\ UNCHANGED panel
    /\ UNCHANGED <<hydra, q, bodies, budget, init, want, made, shared, request, cache>>

(* Otherwise a page at a time, by claim id; a read that never ends is an error. *)
ReadClaimPage(t) ==
    /\ pc[t] = "pages"
    /\ \E v \in Readable :
       LET p == panel[t]
           rows == ClaimRows(v)
       IN  \E page \in Slice(rows, ClaimId, p.page * ClaimPage, ClaimPage) :
            /\ panel' = [panel EXCEPT ![t].claims = @ \cup {ClaimId[r] : r \in page},
                                      ![t].page = @ + 1, ![t].seen = rows,
                                      ![t].shown.sure = @ /\ p.seen \subseteq rows]
            /\ CASE Cardinality(page) < ClaimPage -> Goto(t, "identity")
                 [] p.page + 1 = MaxClaimPages -> Goto(t, "idle")
                 [] OTHER -> UNCHANGED pc
    /\ UNCHANGED <<hydra, q, bodies, budget, init, want, made, shared, request, cache>>

(* load_subject_identity, detect_conflicts, and the cache. *)
ReadIdentity(t) ==
    /\ pc[t] = "identity"
    /\ \E v \in Readable :
       LET shown == [panel[t].shown EXCEPT !.identity = log[v].identity,
                                           !.found = Detected(panel[t].claims, log[v].identity)]
       IN  panel' = [panel EXCEPT ![t].shown = shown] /\ cache' = shown
    /\ Goto(t, "answered")
    /\ UNCHANGED <<hydra, q, bodies, budget, init, want, made, shared, request>>

Return(t) ==
    /\ pc[t] = "answered"
    /\ q' = [q EXCEPT ![t] = Blank] /\ panel' = [panel EXCEPT ![t] = Unread]
    /\ request' = [request EXCEPT ![t] = "none"]
    /\ Goto(t, "idle")
    /\ UNCHANGED <<hydra, bodies, budget, init, want, made, shared, cache>>

-----------------------------------------------------------------------------
(* Another process writes. *)
Outside ==
    /\ Spend("elsewhere")
    /\ Elsewhere
    /\ UNCHANGED <<pc, q, bodies, api>>

Serve(t) ==
    \/ Accept(t) \/ Check(t) \/ Acquire(t) \/ Recheck(t) \/ Publish(t) \/ FailToBuild(t) \/ Trim(t)
    \/ Count(t) \/ Counted(t) \/ ProbeClaims(t) \/ ReadClaimPage(t) \/ ReadIdentity(t) \/ Return(t)
    \/ Answering(t) /\ UNCHANGED api

ApiNext == Outside \/ \E t \in Thread : Serve(t)

ApiSpec == ApiInit /\ [][ApiNext]_vars

-----------------------------------------------------------------------------
Place ==
    {"idle", "check", "await", "recheck", "build", "trim", "retrieve", "ingest", "write", "note",
     "gather", "claims", "related", "quote", "validate", "contest", "trace", "probe", "answered",
     "count", "counting", "probe_claims", "pages", "identity"}

(***************************************************************************)
(* Type correctness; the bookmark is of a snapshot there is; _init is held *)
(* exactly by the thread between its check and what it builds.             *)
(***************************************************************************)
ApiTypeOK ==
    /\ pc \in [Thread -> Place]
    /\ claims \subseteq Claim /\ identity \in [Mention -> Person \cup {NoPerson}]
    /\ bookmark \in 1 .. Len(log)
    /\ log[Len(log)] = Snapshot
    /\ init \in Thread \cup {NoThread} /\ want \in [Thread -> Instance]
    /\ made \in [Instance -> Nat] /\ shared \subseteq Instance
    /\ \A t \in Thread : init = t <=> pc[t] \in {"recheck", "build"}
    /\ \A t \in Thread :
        /\ q[t].evidence \cup q[t].reached \cup q[t].extra \subseteq Claim
        /\ q[t].rejected \cup q[t].used \subseteq Claim
        /\ q[t].candidates \cup q[t].doc \cup q[t].todo \cup q[t].cited \subseteq Doc
        /\ q[t].at \in 0 .. Len(log)

(***************************************************************************)
(* There is one client, one run and one ingestor, however many requests    *)
(* arrive together: a second ingestor would bring a second commit lock.    *)
(***************************************************************************)
OneOfEach ==
    \A i \in Instance : made[i] \in {0, 1} /\ (i \in shared => made[i] = 1)

(* The facts an answer states and uses, as claims. *)
StandsOn(t) == {u \in q[t].used : Object[u] \in q[t].stated}

(***************************************************************************)
(* An answer rests on claims that are in the graph, of documents it cites, *)
(* whose quotes are verbatim in those documents, whoever wrote them; an    *)
(* abstention carries neither.                                             *)
(***************************************************************************)
AnswerGrounded ==
    \A t \in Thread :
        /\ q[t].verdict \in {"supported", "conflicting"} =>
            /\ q[t].used # {} /\ q[t].used \subseteq claims \cap Verbatim
            /\ DocsOf(q[t].used) \subseteq q[t].cited
        /\ q[t].verdict = "insufficient" => q[t].used = {} /\ q[t].cited = {}

(***************************************************************************)
(* An answer is not called supported while a fact it states is disputed by *)
(* an edge that was in the graph when its ingestion ended, and still is:   *)
(* unless the trace says that disputes were left unread, an older bookmark *)
(* overtook a newer one, or a page did not go on where the last one ended. *)
(***************************************************************************)
SupportedIsUndisputed ==
    \A t \in Thread :
        q[t].verdict = "supported" /\ q[t].sure /\ ~ q[t].truncated /\ ~ overtaken =>
            \A u \in StandsOn(t) : \A b \in Claim :
                Object[b] # Object[u] =>
                    \E i \in q[t].since .. Len(log) :
                        log[i].disputes \cap {Dispute(u, b), Dispute(b, u)} = {}

(***************************************************************************)
(* A question rejects a quote that is verbatim in its document only if     *)
(* another request dropped that document's body while the question had it  *)
(* in hand, between fetching or finding it and checking against it; a      *)
(* body dropped at any other time is fetched again.                        *)
(***************************************************************************)
EvidenceKept == \A t \in Thread : q[t].rejected \cap Verbatim # {} => q[t].cut

(***************************************************************************)
(* The panel shown under an epoch has every dispute among the claims of    *)
(* that epoch, by identities that are not older, cached or not: unless an  *)
(* older bookmark overtook a newer one, or a page of the claims came from  *)
(* an older snapshot than the page before it.                              *)
(***************************************************************************)
PanelIsCurrent ==
    \A t \in Thread :
        LET shown == panel[t].shown
        IN  pc[t] = "answered" /\ request[t] = "conflicts" /\ shown.sure /\ ~ overtaken =>
                /\ Detected(log[shown.epoch].claims, shown.identity) \subseteq shown.found
                /\ \E i \in shown.epoch .. Len(log) : shown.identity = log[i].identity

=============================================================================
