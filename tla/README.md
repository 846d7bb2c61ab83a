# TraceGraph, specified

TLA+ modules, TLC configurations and TLAPS proofs for TraceGraph, a question
answering system over a document corpus that keeps what it learns in a property
graph (HydraDB). The modules are written from the code in `src/`; the docs and
tests are quoted where the code disagrees with them.

`PROJECT.json` lists every definition with the lines it models (`map`), the
runs, the mutants that show each property can fail, the findings, the hazards
and the theorems.

To check it: `tlc -config MCIngestFaults.cfg MCDecisions.tla` (likewise the other runs of `PROJECT.json`),
`tlapm IngestProofs.tla` (likewise `KnowledgeGraphProofs`, `BulkLoadProofs`,
`SweepProofs`, `ResolverProofs`, `GraphEvidenceProofs`, `PipelineProofs`,
`ApiProofs`).

## The system

A question comes in over HTTP. Retrieval finds documents, the controller asks
the ingestor to enrich those not yet in the graph, and then walks the graph to
assemble an answer and to say whether the sources dispute it. The graph is also
built and repaired by scripts.

| Component | State | Operations | Interacts with | What must hold |
| --- | --- | --- | --- | --- |
| HydraDB (external) | vertices, edges | MERGE/UNWIND statements | everybody, through the client | a statement is atomic; an edge row whose endpoint is absent is silently skipped |
| HydraClient `hydra_client.py` | connection pool, bookmark | `bolt_read`, `bolt_write` with retries, `http_query` | shared by every API thread | a read sees the writes acknowledged before it |
| Loader `loader.py` | checkpoint file | `upsert_nodes`, `upsert_edges`, `Checkpointer` | client | a resumed load ends with the whole plan in the graph |
| Id registry `ids.py` | SQLite table id -> key | `register`, `register_many`, `lookup` | ingestor, scripts | two keys never share an id silently |
| Entity resolver `resolve.py` | people, token index, aliases | `observe`, `resolve_mention`, `merge_same_person`, `adopt` | built from the graph by the ingestor | one identity per person, stable over restarts |
| Graph resolver `graph_resolve.py` | none | `resolve`, `propose` | reads the graph | decides only on strictly better evidence |
| Ingestor `ingest.py` | lock, resolver, present set | `ingest_many`, `ingest`, `repair_pending` | controller, client, resolver, reconcile | commits exclude each other; nothing half-written is taken for complete |
| Conflicts `conflicts.py`, `reconcile.py` | none | `detect_conflicts`, `reconcile`, `prune_superseded` | ingestor, sweep script, API | `CONFLICTS_WITH` is exactly the disputes of the claims |
| Answer controller `controller.py` | none | `answer`, `contested` | ingestor, client, LLM | a disputed fact is not answered as undisputed |
| HTTP API `api.py` | singletons, body cache, conflict cache | handlers in a thread pool | everything | one ingestor, caches never older than what they claim |
| Full-text index `fts.py` | SQLite table, completion records | `build_index`, `search` | scripts 25 and 70, controller | every row once, a resumed build complete |
| LLM, batches `llm.py` | batch id | extraction, synthesis, polling | remote model | spans are verbatim; a batch is paid for once |
| Row locator `parquet_reader.py` | row map on disk | resumable build, `fetch` | script 71, ingestor, controller | a partial map is not taken for complete |
| Bulk and repair scripts `scripts/` | checkpoint file | load, extract, sweep, rebuild, repair | graph | a sweep restores exactly what the incremental path promises |

The hard behaviours: API threads run questions side by side and share the
ingestor, the resolver and the graph; presence is checked and extraction runs
outside the lock; a commit is a dozen separate statements, and the process can
fail or die between any two; the same decision is recorded twice (an edge and a
property); the conflict edges are computed in one statement and written in a
later one; scripts run beside the API and resume after kills. `PROJECT.json`
lists each hazard at its line.

## Modules

| Module | Models |
| --- | --- |
| `Graph` | the graph as two sets; `UpsertNodes`, `UpsertEdges` are one batch of `loader.py` each, with the engine's skip of dangling edge rows |
| `GraphEvidence` | who a mention is: tiers 1 and 2 of `resolve.py` (address, unambiguous token match), tier 3 of `graph_resolve.py` (co-occurrence and participation scores, structural proposal) |
| `Adjudication` | `group_key`, `detect_conflicts`, the rows of `reconcile.py`, and what `load_claims` can see |
| `KnowledgeGraph` | the abstract specification: readable claims, recorded identities, disputes, and the three things that may ever happen to them |
| `Ingest` | `ingest_many` run by several API threads over one graph, with failures and restarts |
| `Decisions` | `Ingest` with a history of whom each mention was decided to be, which the exactness of the disputes depends on and the graph does not keep |
| `IngestProofs` | invariants of `Ingest` for every value of the constants |
| `KnowledgeGraphProofs` | `Ingest` implements `KnowledgeGraph`; the disputes of `Decisions` are exact |
| `MCIngest`, `MCDecisions` | small corpora for the runs |
| `BulkLoad` | the bulk build of `scripts/30_load_slice.py`: twelve steps, cut into checkpointed batches, killed and resumed |
| `Sweep` | the authoritative conflict sweep of `scripts/55_conflicts.py`, composed with `KnowledgeGraph`, whose steps are what the API does meanwhile |
| `Resolver` | the identities of people: `resolve.py` as the API keeps it in memory, the Entity vertices it is rebuilt from after a restart, and what `37_rebuild_resolution.py` does to both |
| `GraphEvidenceProofs`, `BulkLoadProofs`, `SweepProofs`, `ResolverProofs` | lemmas on who a mention can be; invariants of `BulkLoad`, `Sweep` and `Resolver` for every value of the constants |
| `MCBulkLoad`, `MCSweep`, `MCResolver` | a slice, three claims, and four addresses, for their runs |
| `PagedRead` | what a page of an ordered read may hold, and when it goes on where the page before it stopped |
| `HydraClient` | the client all threads share: snapshots, the one bookmark, answers that arrive out of order, over a graph that changes as `KnowledgeGraph` says |
| `Answer` | `AnswerController.answer`: retrieval, ingestion, evidence, synthesis, citations, `contested`, one thread per question |
| `Api` | the worker threads of `api.py`, the instances they build lazily, the body cache and the conflict panel with its cache |
| `MCAnswers` | two threads and three documents for the run `answers` |
| `IdRegistry` | names, their folded ids, and the registry that tells two names with one id apart |
| `Corpus` | the documents file: rows, chunks, growth |
| `TextIndex` | `build_index` of `fts.py` and the scripts 25 and 70 |
| `RowLocator` | the re-chunked copy, the row map and its readers: `parquet_reader.py` and script 71 |
| `BatchExtraction` | `45_extract_claims.py` over the batches half of `llm.py` |
| `Pipeline` | the three side by side over one corpus and one registry, killed and run again |
| `MCPipeline` | a corpus of three documents for the run `pipeline` |
| `ApiProofs`, `PipelineProofs` | invariants of `Api` and `Pipeline` for every value of the constants |

`Ingest` and `BulkLoad` build on `GraphEvidence` and `Graph`; `Ingest` and
`KnowledgeGraph` on `Adjudication`; `Ingest` implements `KnowledgeGraph`, and
`Sweep` runs against it instead of against `Ingest`. `Resolver` stands alone: it
is the part of `Ingest` and of the rebuild that decides who is one person, which
the others take as given.

`HydraClient` extends `KnowledgeGraph` with what a client sees of it; `Answer`
extends that and `PagedRead`; `Api` extends `Answer`. What a question's ingestion
does to the graph is there the two writes that `Ingest` is proved to amount to.
`Pipeline` extends `TextIndex`, `RowLocator` and `BatchExtraction`, which share
`Corpus`, and two of which share `IdRegistry`.

### How `Ingest` follows the code

| In the model | In the code |
| --- | --- |
| `Ask`, `Deliver` | the controller calls `ingest_many` with the documents retrieval reached, and gets the reports |
| `Check` | `is_present`, per document, without a lock |
| `Prepare` | reading and extracting the first `Budget` missing documents in parallel; extraction is a model call and returns any subset of a document's claims, or fails |
| `StartCommit`, `SkipDocument`, `WriteBatch`, `Observe`, `Decide`, `Register` | `_commit` and `_resolve_mentions` under `with self._lock`: one step per statement, in the code's order (`Order`, `ClaimOrder`), blocks without rows left out as the `if`s leave them out |
| `StartReconcile`, `Adjudicate`, `WriteConflicts`, `RegisterConflicts` | `_reconcile`, under the lock again, over the facts the written documents touch |
| `ResolutionFails`, `ReconcileFails` | the two `except` blocks that record an error and go on |
| `QuestionFails` | an exception anywhere else: out of `ingest_many`, the lock given back |
| `Crash` | the process dies and restarts: the graph stays, memory goes |

A failing statement may have been applied all the same: the driver raises after
its retries, which says nothing about the last attempt.

### How `BulkLoad` and `Sweep` follow the code

| In the model | In the code |
| --- | --- |
| `Order`, `NextStep` | the sequence of `upsert_nodes` and `upsert_edges` calls of `30_load_slice.py` |
| `Decide` | phase two: every ambiguous mention scored by the graph before any decision is written |
| `Key`, `SkipBatch`, `WriteBatch`, `MarkBatch` | a batch of the loader: `done` is asked before the statement, `mark` is called after it; two steps, between which the process may be killed |
| `Kill` | the process is killed or a statement raises; graph and checkpoint stay, the next `Start` begins at the first step again |
| `Begin`, `ReadClaims`, `Compare` | `55_conflicts.py` reads claims and identities in two calls and compares them |
| `Superseded`, `ReadEdges`, `DeleteBatch` | `prune_superseded`, whose deletes are not checkpointed |
| `Change` | whatever a question may do to claims, identities and disputes meanwhile |

In both, which rows form a batch is fixed but unknown (`Batch` is a `CHOOSE`):
the scripts generate the rows in one order every time. `fingerprint` is taken as
injective, so a key of `BulkLoad` holds the rows themselves; the job of a sweep
holds their number only, as in the code.

### How `Resolver` follows the code

| In the model | In the code |
| --- | --- |
| `people`, `byEmail`, `adopted` | `Resolver.people`, `Resolver._by_email`, `OnDemandIngestor._adopted`: gone when the process ends |
| `entity`, `merged` | Entity vertices with `name`, `emails`, `domains`; `MERGED_INTO` |
| `StartApi` | `resolver()`, `_adopt_known`, `superseded_keys`, `adopt` |
| `StartCommit`, `Observe`, `Merge`, `WriteEntities`, `WriteResolutions` | `_commit_locked` and `_resolve_mentions`, one mention a step |
| `IsGrouping`, `Survivors`, `Fold`, `Readdressed` | `_by_organisation` over keys in sorted order, and `_merge_group`: the protected member survives, two of them keep their group apart |
| `Packed`, `Row` | `pack`: the first values that fit |
| `StartRebuild`, `RebuildEntities`, `RebuildDecisions`, `RecordCanonical` | `37_rebuild_resolution.py --apply`: everything observed anew and merged with nobody protected, vertices in batches, decisions, `record_canonical` |
| `Fail`, `Stop` | a write that raises, applied or not; the process ends at any point |

The variables `canonical` and `intact` are history, read by properties and by
nothing else: nothing was written since a rebuild ended; since then no write was
applied and failed, and no rebuild was killed before it ended. `target` remembers the identity
mentions of an address were last resolved to.

### How `Answer` and `Api` follow the code

| In the model | In the code |
| --- | --- |
| `log`, `Readable` | the snapshots the engine may serve: none older than the bookmark sent along |
| `Execute`, `Note`; `Probe`, `Probed`; `Count`, `Counted` | the statement takes effect; later its answer arrives and `_bookmarks` is overwritten, by `_bolt_once` after a write, by `http_query` after any query. In between other threads' answers may arrive |
| `Disconnect` | `_bolt_run`: reconnect and send again, applied or not the first time; after the last retry the error is raised: `ingest_many` catches it around a reconciliation and the answer goes on; nothing catches it around a commit, and the request ends |
| `Retrieve`, `Commit`, `Reconcile`, `ReconcileFails`, `Ingested` | `retrieve_documents` and `ingest_many`; one thread commits or reconciles at a time; a document the row locator lacks is not committed (`Served`), and of the others claims with verbatim quotes (`Verbatim`) |
| `Fetch`, `Gather` | per candidate: the body unless it is cached or the locator has none, then `claims_for` and the check of every quote: rejected when no body is cached or the quote is not in it (`Checked`). Another request may trim the cache in between |
| `Relate`, `FetchRelated`, `CheckRelated` | `related_by_ticket`, whose failure an answer survives; then, one reached claim at a time, the body and the same check |
| `Abstain`, `Synthesise` | `evidence[:window]`, and anything the schema lets the model answer: an abstention, documents cited, claims named, values stated |
| `Validate` | `citation_exists` per document and the fail-closed branch |
| `ReadDisputes`, `Onward`, `Conclude` | `contested`: two directions per document, page by page, with the note that disputes were left unread |
| `Raise` | an exception out of the handler |
| `Check`, `Acquire`, `Recheck`, `Publish`, `FailToBuild` | `client()`, `run_id()`, `ingestor()`: look, `with _init`, look again, build, publish |
| `Trim` | `bodies()`: the older half is dropped (`Dropped`), whatever other requests have in hand |
| `Count`, `Counted`, `ProbeClaims`, `ReadClaimPage`, `ReadIdentity` | `conflicts()`: the epoch, the cache, `load_claims` through `_read_all`, `load_subject_identity`, `detect_conflicts` |
| `Outside` | a script, or another process, writes or prunes |

Four parts of a thread's record are history: `since` (the bookmark when its
ingestion ended), `sure` (every page went on where the one before it stopped),
`cut` (another request dropped the body of the document it had in hand, between
fetching or finding it and checking against it), and `overtaken` of the client (an older
bookmark overwrote a newer one).

### How `Pipeline` and its parts follow the code

| In the model | In the code |
| --- | --- |
| `RegisterMany`, `Collides`, `Inserted` | `register_many`: INSERT OR IGNORE, then `_verify`, in one transaction |
| `ReadCorpus`, `RegisterCorpus`; `ReadRun` | script 70, which registers before it indexes; script 25, whose documents script 30 registered |
| `OpenIndex`, `SkipBatch`, `WriteBatch`, `RefuseBatch`, `FinishIndex` | `build_index`: `_completed_batches` once, then per batch `_check_replay` or `_write_batch` |
| `Repartition`, `KeepCopy` | script 71: write the copy beside the target and rename, or keep one whose first row group has the size asked for |
| `CreateMap`, `OpenMap`, `IndexRowGroup`, `FinishMap` | `RowLocator` building: the database, the fingerprint, one transaction per row group |
| `OpenReader`, `Fetch` | `RowLocator(require_complete=True)` and `fetch`, with the comparison of the row read back |
| `Submit`, `EndBatch`, `Poll`, `PollTimesOut`, `Collect` | `submit_batch`, the service, `poll_batch`, `batch_results` by `custom_id`, `validate_spans` |
| `RegisterClaims`, `SkipJob`, `WriteJob`, `MarkJob` | registration of all ids, then four loads under the checkpoint |

A kill resets what the script holds and nothing on disk. A submitted batch goes
on without its script.

### Abstractions

- In `Ingest`, `BulkLoad`, `Sweep` and `Resolver` ids are injective functions of
  natural keys, so a vertex is its key and MERGE is set union. What collisions do
  is in `IdRegistry` and `Pipeline`, where SHA-256 and canonical spelling together
  are a function `Fold` from names to ids, of which nothing is assumed.
- Names and addresses are reduced to what the rules test: `AddressOf`, `MayBe`,
  `ShortFormOf`. A mention of one surface per document: a claim's subject is at
  most one mention (`SubjectMention`).
- Trust scores choose the leading version of a dispute, never whether an edge is
  drawn, and are left out. `Contestable` holds the claims whose predicate aligns
  and can conflict and whose value is not empty.
- The resolver merges people in memory (`merge_same_person`, adoption after a
  restart, its 400-character bound); in `Ingest` the people are those of the
  addresses seen. Merging is in `Resolver`.
- In `Resolver` a key is the address it is made of, addresses and organisation
  roots are numbers in the order their strings sort, a name is its set of
  tokens, and a property holds `EmailCap` addresses instead of 400 characters.
  Addresses are normalised. The candidates of a document's other surfaces are
  any people, so that whose vertices are written is any superset of those its
  addresses name. The 4000 rows of adoption and the 20,000 of
  `superseded_keys` suffice. The rebuild runs while the API does not, and its
  writes to mentions are one step: nothing reads them before it ends.
- In `Ingest` and `Sweep` every read sees every completed write and fits one page;
  `Answer` and `Api` have the bookmark and the pages. Only one API process writes.
- `Answer`: retrieval may return any documents. Bodies and quotes are reduced to
  what is asked of them: which documents the locator finds (`Served`) and which
  quotes are in them (`Verbatim`), both fixed while the API runs. A page may hold rows of one key in
  any order. The prose states values of claims it names and of no others
  (`stated`). The cap of six rivals shown, the confidence, the value of the run id,
  rendering, the evidence graph and the resolution panel are left out;
  `load_subject_identity` is one page.
- `Api`: what may happen how often (`Budgets`) is a set of scenarios, of which every
  behaviour takes one. Without it the product of all of them is out of reach.
- `Pipeline`: each kind of row of one extraction fits one statement (the script's
  batches take 1000). The byte size in the locator's fingerprint is taken to tell
  two layouts of the same rows apart. One process at a time runs script 71, and
  one script 45. `--graph` of script 70 is left out.
- The loads of `BulkLoad` follow one another and nothing else writes meanwhile;
  its people are those of the addresses (merging is in `Resolver`),
  ids are not registered. A load that goes back to an earlier run id after one
  under another id was killed skips both the pending and the verdict batch and
  leaves mentions pending: the passing run therefore has one run id.
- `BatchSize` of `Sweep` stands for the loader's batch of edges and for the
  400 ids of one delete. Near-duplicates and trust decide no edge.
- `ingest` (a single document) and `repair_pending` are not modelled.
- Which documents fall inside the budget is any choice; the code takes the order
  of retrieval.

## Runs

`threads` (`MCIngestThreads.cfg`): two worker threads, two documents that
contradict each other, one of them naming a person, two questions over any of
the documents, one failing call and one crash. 608,657 distinct states. Two threads are what a race
needs, two documents what a dispute needs, and two questions let the second find
the work of the first half done. It checks that commits exclude each other, that
evidence is whole when the lock is free, and that every question
ends. Time goes into the interleavings, so identities are easy here.

`faults` (`MCIngestFaults.cfg`): two threads, two questions, the hard identity
case - a bare name that is a token of one person's name and a plausible short form of
another's, in a shared channel - two claims, one failing call and one crash at
any point. 1,286,764 distinct states, the threads being symmetric. The two questions
may have one document in hand and commit it twice, and the second meets whatever the
first left. The specification is `DecisionsSpec`, which remembers every decision, so
that the disputes can be compared with those of a full pass (`GateExact`).

`bulk_load` (`MCBulkLoad.cfg`): a slice of seven mentions and three people in
which the graph's own decisions are evidence for others, batches of four rows so
that steps take one or two, up to four loads under one run id, so that a load is
killed, resumed, killed again and completed. 3,577 distinct states. A load that
ends has everything in the graph and no pending mention; a recorded identity has
its edge at every instant.

`sweep` (`MCSweep.cfg`): three claims of two documents, one against two, whose
subjects may or may not be the same person, so that zero, one or two disputes
are right depending on the identities; up to three sweeps, four changes by the
API, one edge per statement. 20,779 distinct states. Three sweeps are one that
writes, one that dies, and one that has both to cope with.

`resolver` (`MCResolver.cfg`): four addresses; the domains of two spell one
company in ways that only a third links, the fourth is of another company; two
have one full name, one is a bare address whose local part is that name, and one
has that name in one document and another in the other, so that of two rebuilds
the first may fold it and the second keep it. Three documents in up to four
commits, one failing write, up to four ends of a process, up to two rebuilds,
vertices with room for two addresses out of four, so that adoption meets lists that
were cut. 176,332 distinct states. Within these bounds people are merged directly
and through a third, kept apart because both are adopted, folded by a rebuild,
skipped by the next adoption, and separated again by the next rebuild.

`answers` (`MCAnswers.cfg`): two threads; two documents that share a ticket, the
second of which contradicts the first in two claims, one of these with two spans,
so that the claims take four rows, more than the page of two, and two rows have one
sort key; a third document that the corpus of the API lacks and only another process
writes claims of, and a claim of the first whose quote is not in it, so that quotes
are rejected for each reason the code has; dispute pages of one row, two pages at
most, so that the ceiling is met; room
for one cached body; one retry. Seven scenarios: two questions; a question with an
answer and a status probe, with a writer outside, or with two failures, which use up
the retry; two
panels and two outside writes; a question and a panel; a panel, a probe, a failure
and an outside write. 2,519,913 distinct states, depth 53. Two requests are what
every hazard here needs: one that reads or caches, one that moves what it read.

`pipeline` (`MCPipeline.cfg`): a corpus of three rows, two of one document, which may
grow by a row; batches of two rows, so that the last is short until it grows; two
builders; copies in groups of two and of three rows; one reader; a model that may
propose two claims, one of which only one document has word for word; a document
whose name folds to the id of a claim. Six scenarios of up to three index builds,
three copies, two deletions, two extractions, with a kill and a growth. 228,836
distinct states. Two builders are enough for one to act on records the other has
overtaken; two extractions for the second to meet the marks of the first.

Five runs show a disagreement between the code and what the repository says of
it; `findings` quotes the lines:

- `return_race` (`MCReturnRace.cfg`): a question returns while another thread has
  committed its documents and not reconciled them, so the answer path does not
  find a dispute between the question's own documents. No failure is needed.
- `half_claims` (`MCHalfClaims.cfg`): after a crash between the ASSERTS and the
  SUPPORTED_BY batches the document counts as enriched for ever and its claim
  has no evidence.
- `decided_twice` (`MCDecidedTwice.cfg`): two questions find one document absent and
  both commit it; the second decides a mention differently, and the edge of the
  first decision stays beside the second. No failure is needed. A restart after a
  document was committed without claims does the same.
- `bulk_twice` (`MCBulkLoadTwice.cfg`): the build is run again under another run
  id, scores its mentions on the first run's decisions, and leaves a mention with
  two resolutions.
- `sweep_stale` (`MCSweepStale.cfg`): a sweep finds as many edges as an earlier
  one, but other ones; its write is skipped as done, its prune deletes the old
  edges, and a dispute it detected is not in the graph.

The runs have `CHECK_DEADLOCK FALSE` because the model stops when
`MaxQuestions` questions have been asked, `MaxLoads` loads or `MaxSweeps` sweeps
run, or the bounds of `Resolver` or the budgets of `Api` and `Pipeline` are used up. That no thread waits for ever is
`QuestionsEnd`.

### Properties

| Property | Says | Run |
| --- | --- | --- |
| `MutualExclusion` | a thread is in a commit or reconciliation exactly when it holds the lock, whatever failed | threads |
| `EvidenceWhole` | without failures, a claim vertex is readable as soon as the lock is free | threads |
| `GateExact` | without failures, between questions the disputes in the graph are exactly those a full pass detects, unless a document was committed twice and one of its mentions decided differently | faults |
| `QuestionsEnd` | every question ends | threads |
| `ResolutionInProgress` | at each step of a commit, the vertices and edges later batches depend on are there | faults |
| `RecordedIdentityHasEdge` | a recorded identity has its edge, at every instant | faults |
| `DisputesJoinRivals` | a dispute joins two readable claims with different values | faults |
| `NothingLeftPending` | without failures, no mention stays pending | faults |
| `ImplementsKnowledgeGraph` | the whole refines the abstract specification | faults |
| `LoadComplete` | a load that ends has every row in the graph: no checkpoint stands for rows that are not there, no edge was skipped for want of an endpoint | bulk_load |
| `NothingLeftPending`, `RecordedIdentityHasEdge` of `BulkLoad` | the same promises, kept by the script through kills and reruns | bulk_load |
| `SweepExact` | an undisturbed sweep that skipped no batch leaves exactly the disputes of the claims | sweep |
| `AddressLeadsHome` | an address leads to the one living person who holds it; lost when a failed write was applied after all, or a rebuild was killed (`intact`) | resolver |
| `PersistedStay` | a person whose vertex the API knows is never folded into another | resolver |
| `OneOrganisation` | all addresses of a person, and of a vertex, are of organisations linked to each other: two people of unrelated companies with one name stay two | resolver |
| `OneIdentityPerOrganisation` | after a rebuild a restart adopts one identity per full name and organisation | resolver |
| `DecisionsKept` | an address is resolved to the same identity for ever, merges and restarts included, as long as the vertex lists it and is not marked as folded; only the rebuild changes it | resolver |
| `OneOfEach` | one client, one run id, one ingestor, however many requests arrive together and whatever fails half way | answers |
| `AnswerGrounded` | an answer rests on claims that are in the graph, of documents it cites, with quotes verbatim in them, whoever wrote them; an abstention carries neither | answers |
| `SupportedIsUndisputed` | an answer called supported states no fact that an edge disputed all the while since its ingestion ended, unless it says disputes were left unread, a bookmark was overtaken, or rows shifted between two pages | answers |
| `EvidenceKept` | a question rejects a quote that is verbatim in its document only if another request dropped that document from the cache while the question had it in hand; what was dropped before is fetched again | answers |
| `PanelIsCurrent` | a panel shown under an epoch has every dispute among the claims of that epoch, cached or not, with the same two exceptions | answers |
| `Addressed` | what is addressed by an id is what the id was minted for, though names can fold to one id | pipeline |
| `IndexExact` | the index holds each row of its recorded batches once, through kills, repeats and two builders at once | pipeline |
| `BuiltIsComplete` | a build that ends without an error leaves every row it was given in the index | pipeline |
| `BuildResumes` | of a corpus that stays the same, the index becomes complete however its builds are killed | pipeline |
| `FetchHonest` | a reader's lookup returns the document asked for or says truly that it is absent: no half-built or foreign map | pipeline |
| `ClaimsLandHome` | a claim is attributed to a document that has its span and of which the model proposed it, in whatever order results arrive | pipeline |
| `ExtractionWhole` | an extraction that ended, none of whose jobs was marked before, left every accepted claim with its document and its span | pipeline |

`TypeOK` (`SweepTypeOK`, `ApiTypeOK`, `PipelineTypeOK`) of each module also says which intermediate results may
exist when: a thread has a document only while it commits it, what a load or a
sweep has left to do belongs to the step it is at, `_init` is held exactly by the
thread that builds, the records of the index have no gap.

### What else the model shows

Conditions in the properties above are there because TLC breaks the property
without them. They are no findings, since the code or its docs promise less or
something else, but a reader of the code should know of them:

- Without `Steadfast`, `GateExact` fails: when a document is committed twice
  and the second extraction has no claims, nothing is compared again, although the
  second decision moved the subject of a claim and made it a rival of another. It
  fails in the other direction too: a first commit that left the mention unresolved
  recorded a dispute by name, and it stays when the second commit decides that the
  name is somebody else. Records and edges of mentions (`RecordsMatchEdges`) can
  agree in that state, so only a history tells it apart.
- Without `~ overtaken`, both `SupportedIsUndisputed` and `PanelIsCurrent` fail. The
  bookmark is one field for all threads; a late answer puts an older one back, and
  the next read may miss what this process wrote. The comment at `api.py:382-386`
  calls the cache safe from stale disputes, which holds as far as the bookmark does.
- Without `cut`, `EvidenceKept` fails: a question finds a body in the cache and asks
  for the claims of the document; meanwhile another request trims the cache, and
  good quotes are rejected. The comment in `bodies()` (`api.py:110-111`) says that dropping
  the oldest half is enough because the controller fetches again, which it does for
  the next document and not for the one in hand.
- Without `sure`, `SupportedIsUndisputed` fails: an edge pruned between two pages
  moves a later one onto a page already read.
- Without `extract.fresh`, `ExtractionWhole` fails: an extraction killed after its
  claims were marked, and run again with another reply of as many claims per
  document, skips the writes of claims it never wrote, and their edges have no endpoint. A script
  header (`bootstrap.sh:4-6`) says every stage may be run twice.
- `DecisionsKept` fails of an identity that one rebuild folded and a later one made
  a person again: `MERGED_INTO` stays, so a restart does not adopt its vertex, and the
  next mention of an address it holds starts another identity.
- Appending to a corpus whose last batch was short makes the next build of the
  index raise (`RefuseBatch`), where the docstring of `fts.py` calls appending
  safe. A batch with changed rows between the same first and last one is not noticed.
- A copy of the corpus is kept when the corpus grows: `KeepCopy` compares the size of
  the first row group alone. A copy smaller than one group is refused by the same
  comparison.

Read in the code and not modelled: `batch_id` is only printed, where the doc of
`submit_batch` asks for it to be persisted; the comment at
`45_extract_claims.py:136-137` speaks of a skip the script does not have; of two
versions of a fact, an undated runner-up can lose on recency in the trust scores.

### Fairness

`FairSpec` has weak fairness of `Progress(a)` for each thread: the interpreter
schedules every thread, model calls and driver calls have timeouts, and a thread
that waits for the lock has the thread inside it to wait for, which is itself
fair. Nothing is assumed of failures, crashes or new questions. The lock is free
again and again only because every question gives it back; a waiting thread can
be overtaken as often as there are questions to overtake it, which are finitely
many in the model.

`FairSpec` of `Pipeline` has weak fairness of each builder's steps (a script goes on
while nobody kills it) and of starting script 70 (an operator whose build was
killed runs it again, as often as the budget has builds). Nothing is assumed of
kills. `BuildResumes` is about behaviours in which the corpus stays the same and
only script 70 builds: records of another source rightly stop a build.

## Proofs

For every corpus, any number of threads and any bound, from the assumptions
`SentinelAssumption`, `CorpusAssumption`, `ClaimAssumption`, `IngestAssumption`,
`LoadAssumption`, `SweepAssumption`, `AddressAssumption`, `AnswerAssumption`,
`ApiAssumption`, `RegistryAssumption`, `TextIndexAssumption`,
`RowLocatorAssumption`, `ExtractionAssumption` and `PipelineAssumption` (sentinels
are not members, functions have their domains, claims are natural numbers, budgets,
pages and batches are what they must be to be counted with; `AnswerAssumption`
that the corpus and the claims are finite; `PipelineAssumption`
also has that the loaded documents have ids of their own, which script 30 checked):

| Theorem | Establishes | Argument |
| --- | --- | --- |
| `TypeCorrect` | `TypeOK`, no dangling edge included | inductive as it stands; rows are typed, and `UpsertEdges` drops rows without endpoints |
| `Exclusive` | `MutualExclusion` | inductive with the types: only the thread inside moves the lock |
| `RecordsHaveEdges` | `RecordedIdentityHasEdge` | needs `ResolutionInProgress`: when verdicts are written, every edge they name is already there. That needs the entity vertices written earlier, else the engine would skip the edge; that needs exclusion, since another commit would change `people` or `outcome` |
| `DisputesAreReal` | `DisputesJoinRivals` | needs that the rows a thread has computed still join readable rivals when it writes them (`DisputesInProgress`): claims never stop being readable |
| `IngestProofs!NothingPending` | `NothingLeftPending` of `Ingest` | `PendingInv`: a pending mention is of a document some thread is committing, past its mentions and not past its statuses; a document with mentions passes by all the steps between |
| `EvidenceStands` | `EvidenceWhole` | `EvidenceInv`: how far each commit has come with its vertices and edges (`EvidenceOf`), that extraction gives a document claims of its own (`OwnClaims`), and that every claim vertex is readable or about to be (`CompleteInv`); edges are applied because `ClaimOrder` writes their endpoints first |
| `Implementation` | `ImplementsKnowledgeGraph` | each step is a step or a stutter of `KnowledgeGraph`. Writing conflicts needs `RowsCurrent`: the rows computed in an earlier step are still detected, which holds because identities move only under the lock. `OwnClaims`: the claims a thread writes are those of the document it commits |
| `PromisesKept` | `ResolutionInProgress` | the same induction as `RecordsHaveEdges`: exclusion keeps `people` and `outcome` as the commit found them, and the graph only grows |
| `DisputesAreExact` | `GateExact` | `GateInv`, over the identities the decisions amount to (`Lasting`). `Familiar`: a claim is asserted after its document's mentions were decided, so from then on it is about one fact. `Justified`: every dispute recorded, or computed and not yet written, is one under those identities, which are the ones adjudication reads, since under the lock no mention of a readable claim is pending (`PendingInv`). `Minded`: for every pair that disagrees the dispute is recorded, or some thread owes it (`Owes`): it made a claim of the pair readable, has the document among those it has written, or has the row in hand. Without failures nobody forgets a debt, and between questions nobody has one |
| `BulkLoadProofs!TypeCorrect` | `TypeOK` of `BulkLoad` | inductive as it stands |
| `Complete` | `LoadComplete` | by induction over the steps of the load in progress. `EarlierStand`: what the steps before `at` write is in the graph; `StepStands`: so is what is no longer `left` of this one; `HeadStands`: and the batch awaiting its mark; `MarksStand`: a marked key stands for rows that are in the graph, which holds because a key carries its rows and nothing is deleted; `DecidedKnown`: decisions are about people of the slice. An edge is applied, not skipped, because its endpoints are rows of an earlier step (`EndpointsAreRows`) |
| `BulkLoadProofs!RecordsHaveEdges` | `RecordedIdentityHasEdge` of `BulkLoad` | verdicts come last, when `EarlierStand` gives their edges |
| `BulkLoadProofs!NothingPending` | `NothingLeftPending` of `BulkLoad`, from `OneRun`: all loads have one run id | `SettledInv`: the batches of a step form a chain, so a load that is past the mentions found or left every batch of theirs marked, and no later one writes them pending again; a marked verdict stands for a verdict in the graph. With two run ids a second load writes its mentions again as pending, and one that is killed before the verdicts leaves them so |
| `SweepProofs!TypeCorrect` | `SweepTypeOK` | inductive; what detection finds joins rivals |
| `Exact` | `SweepExact` | `FindingsCurrent`: undisturbed, what was read and found is what is there; `WritesReachGraph`: what was found is in the graph or left to write, and the API deletes nothing; `RestIsDeleted`: what is in the graph was found or is left to delete |
| `ResolverProofs!TypeCorrect` | `TypeOK` of `Resolver`, the bound on what a vertex holds included | needs `Held` (an address that leads to somebody leads to a living person who holds it) and `Observed` (the addresses of the document in hand lead to somebody), since otherwise vertices would be written of people who are gone. `MergeHolds`: a merge keeps `Held`, because survivors survive (`SurvivorsStay`) |
| `PersistedNeverFolded` | `PersistedStay` | the same invariant: a protected member of a group leads to itself, alone or among others |
| `OnePersonPerAddress` | `AddressLeadsHome` | `HomeInv`, which follows an address from memory to the graph and back. `Tidy`: no two vertices a restart would adopt list one address; `Listed`: the API knows every such vertex and all it lists, so that what it writes keeps them apart; `Rebuilt`: the rebuild's people have one address each, are written before anything is recorded, and whatever is not among them leads to one of them, so that it is marked as folded. `MergeHomes`: a merge moves an address with the person who holds it |
| `RebuildMergesAll` | `OneIdentityPerOrganisation` | the same invariant: two firsts of groups are never alike (`FirstsUnlike`), and after `record_canonical` only the rebuild's people can be adopted |
| `CompaniesStayApart` | `OneOrganisation` | `Orgs`: everybody a record names is a colleague of its key, and so is each root. Whoever joins a group is like some member, not like its first, so `GroupOfColleagues` takes the least key for which it were false |
| `DecisionsStand` | `DecisionsKept` | from `HomeInv`: the identity an address was resolved to is one the API knows, with that address, so the address leads to it |
| `AddressedTheorem` | `Addressed` | `Inv` is a conjunction over the parts: `RegistryInv` (an id is held by a name that folds to it, and never given back), `SourceInv` (what a build has read is registered from there on), `IndexInv` (what is entered is registered), `ServiceInv`, `ExtractInv` (what is to be written is registered and grounded), `GraphInv` (a vertex's id is held by a name of its label). Registration before the write is what makes it inductive |
| `ClaimsLandHomeTheorem` | `ClaimsLandHome` | the same invariant: an accepted claim has passed `Grounded` and is in the reply for that document, and a vertex whose id is held by a claim's name was written for that claim |
| `ExtractionWholeTheorem` | `ExtractionWhole` | `WholeInv`: while nothing is skipped, every step before the present one has its rows in the graph; edges are applied because their endpoints are rows of earlier steps, and the documents were loaded before |
| `PipelineProofs!TypeCorrect` | `PipelineTypeOK` | four inductive invariants side by side: `Inv` above; `FoldInv`, an id is kept by a name that folds to it; `RecordInv` and `LocatorInv` below |
| `BuiltIsCompleteTheorem` | `BuiltIsComplete` | `RecordInv`: the records have no gap, and every batch a build has come over is recorded as the build has it, because records are only added and the snapshot a build took of them stays among them. `BuiltCovers` is then arithmetic: the batch of a row is one of those, and long enough to have it (`ChunkCount`, `ChunkShape`) |
| `IndexExactTheorem` | `IndexExact`, from `RecordsTell`: two whole batches of the corpus and of the run that have one record are one batch | `ExactInv`: the index holds one source exactly and every record was made of its rows. A build of the other source that goes on after the records has found all of them to be its own, so that the two agree on every row that is in (`SwitchSource`) and the next batch can be counted with either (`WriteSame`). A corpus that grows adds no row to a recorded batch (`GrowExact`). Without `RecordsTell` two builds whose batches differ between the ends only would mix; of batches of one row or two, as in the run, it holds when no two documents share an id (`SmallBatchesTell`) |
| `FetchHonestTheorem` | `FetchHonest` | `LocatorInv`: the copy, and whatever layout the map's stamp names, is some number of first rows cut into groups of one size (`IsLayout`), and the map has the rows of the groups it is done with. `SameLayout`: two layouts of one corpus with one fingerprint are one, since the fingerprint has the rows and the length of the first group; so a map that passes both checks has every group of the copy, and sends each document to a row it is in |
| `OneOfEachTheorem` | `OneOfEach` | `LockInv`: the instance being made is counted and unpublished exactly while its thread holds `_init`; nobody makes one that is published |
| `AnswerGroundedTheorem` | `AnswerGrounded` | `GroundInv`: every claim a thread holds at any stage was read from a snapshot, snapshots hold only claims the graph still has, only claims that pass the check of their quotes become evidence, and validation leaves claims of surviving citations only |
| `EvidenceKeptTheorem` | `EvidenceKept` | `BodyInv`: from the moment a question has a document in hand until it has checked its quotes, the body is cached if the locator has the document, or the question is marked (`Whole`). A trim keeps every cached body that is not in the older half (`TrimMarks`) and marks whoever has one of those in hand; fetching puts back what is missing (`FetchGrows`); and a verbatim quote passes its check against a cached body (`CheckedWhole`) |
| `ApiProofs!TypeCorrect` | `ApiTypeOK` | `QuestionInv`, with `HistoryInv`: the log of snapshots ends with the graph as it is, claims are never taken back, and edges run from the lower claim to the higher |
| `PanelIsCurrentTheorem` | `PanelIsCurrent` | `PanelInv`: a dispute of the epoch that the panel has not read is still ahead of its walk over the pages, if no bookmark was overtaken and no row shifted. `WalkGoesOn`: a page that was full leaves exactly what sorts after it, by counting the rows of the prefix; `EpochIsSeen`: the snapshot of an epoch has every claim the epoch counts |
| `SupportedIsUndisputedTheorem` | `SupportedIsUndisputed` | `WalkInv`: a dispute that stood all the while is still ahead of the question's walk (`Coming`): its document is to be asked about, or the direction its edge has from there is still to come, or its row is on a page not yet read. As an edge runs from the lower claim to the higher, the direction is known |

Model-checked only: `QuestionsEnd` and `BuildResumes`, since liveness under
fairness and ENABLED are out of the prover's reach. Every other property of a
passing run is a theorem, two of them under a condition the code does not enforce:
`NothingLeftPending` of `BulkLoad` (`OneRun`) and `IndexExact` (`RecordsTell`). The induction theorems of the library take an operator, which this
prover cannot instantiate; where a proof needs induction over data it takes a least
counterexample instead (`LeastMember`).

## Not modelled

- Trust scores, the best version and the margin (`conflicts.py`), and near-duplicate
  clusters (`neardup.py`), which only weigh into them: they label a dispute and
  order a panel; no edge, verdict or abstention depends on them.
- Parsers, the query sanitising of `fts.py` and canonical spelling in `ids.py`: text in,
  records out. The models take the records.
- The single-document `ingest` and `repair_pending` of `ingest.py`, which only scripts
  and tests call, and the evidence tier of `resolve_mention` in `resolve.py`, which
  only tests use.
- `36_repair_graph.py`, and the mention edges and statuses of
  `37_rebuild_resolution.py`: `Resolver` has what the rebuild does to identities.
- `26_backfill_timestamps.py`, `79_backfill_tickets.py` and `40_pilot_batch.py`:
  idempotent passes and a dry run.
- Evaluation scripts, operations scripts, the web page, `demo.py`: they read, start
  services or render.
- HydraDB and the language model are external: the first is what the statements and
  `docs/engine-notes.md` need of it, the second may answer anything.
