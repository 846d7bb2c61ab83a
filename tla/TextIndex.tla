----------------------------- MODULE TextIndex -----------------------------
(***************************************************************************)
(* The lexical index of tracegraph/fts.py and the scripts that fill it:    *)
(* 70_register_corpus.py from the corpus and 25_build_slice_fts.py from    *)
(* the documents of one run.  The table is contentless: a row that was     *)
(* entered twice stays entered twice, and nothing can be taken out.  So    *)
(* rows go in in batches, each in one transaction with its completion      *)
(* record, and a build that is started again skips the recorded batches    *)
(* after checking that they are still the ones it has.                     *)
(*                                                                         *)
(* A process can be killed at any step.  Two may build at once.            *)
(***************************************************************************)
EXTENDS Corpus, IdRegistry

CONSTANTS
    Process,
    CommitEvery,    \* rows of a batch
    RunDocuments    \* the documents of the ingested run, ordered by dsid

ASSUME TextIndexAssumption ==
    /\ CommitEvery \in Nat \ {0}
    /\ RunDocuments \in Seq(Document)
    /\ \A d \in Document : DocumentKey(d) \in Key

VARIABLES
    entered,    \* how often each id was entered into the table
    batches,    \* completion records: batch number -> count, first and last id
    build       \* what each process holds of the build it runs

textIndex == <<entered, batches>>

NoBuild == [at |-> "off", source |-> <<>>, recorded |-> <<>>, n |-> 0]

Rowid(d) == Fold[DocumentKey(d)]

Here(p, place) == build[p].at = place

(* stream(limit) of script 70: the corpus, or so many rows of it. *)
ReadCorpus(p) ==
    /\ build[p].at \in {"off", "built"}
    /\ \E limit \in 1 .. Len(corpus) :
            build' = [build EXCEPT ![p] =
                [NoBuild EXCEPT !.at = "read", !.source = SubSeq(corpus, 1, limit)]]
    /\ UNCHANGED <<corpus, ids, textIndex>>

(* Script 25: the run's documents, which script 30 registered. *)
ReadRun(p) ==
    /\ build[p].at \in {"off", "built"}
    /\ build' = [build EXCEPT ![p] =
            [NoBuild EXCEPT !.at = "registered", !.source = RunDocuments]]
    /\ UNCHANGED <<corpus, ids, textIndex>>

(* registry.register_many(identities): a collision ends the script. *)
RegisterCorpus(p) ==
    /\ Here(p, "read")
    /\ LET names == {DocumentKey(build[p].source[k]) : k \in DOMAIN build[p].source}
       IN  \/ RegisterMany(names) /\ build' = [build EXCEPT ![p].at = "registered"]
           \/ Collides(names) /\ build' = [build EXCEPT ![p] = NoBuild] /\ UNCHANGED ids
    /\ UNCHANGED <<corpus, textIndex>>

-----------------------------------------------------------------------------
(* build_index *)

(* _completed_batches is read once, when the build opens the database. *)
OpenIndex(p) ==
    /\ Here(p, "registered")
    /\ build' = [build EXCEPT ![p].at = "open", ![p].recorded = batches]
    /\ UNCHANGED <<corpus, ids, textIndex>>

(* The batch a build has come to. *)
Batch(p) == Chunk(build[p].source, CommitEvery, build[p].n)

Record(rows) == <<Len(rows), Rowid(rows[1]), Rowid(rows[Len(rows)])>>

AtBatch(p) == Here(p, "open") /\ build[p].n < Chunks(build[p].source, CommitEvery)

(* Mutant: the completion records are not looked at. *)
IsRecordedNever(p) == FALSE

IsRecorded(p) == build[p].n \in DOMAIN build[p].recorded

(* Mutant: a recorded batch is skipped whatever it holds. *)
ReplaysUnchecked(p) == TRUE

(* _check_replay: the batch has the count, the first and the last id of the record. *)
Replays(p) == build[p].recorded[build[p].n] = Record(Batch(p))

SkipBatch(p) ==
    /\ AtBatch(p) /\ IsRecorded(p) /\ Replays(p)
    /\ build' = [build EXCEPT ![p].n = @ + 1]
    /\ UNCHANGED <<corpus, ids, textIndex>>

(* Mutant: the completion record replaces the one of another build. *)
TakenNever(n) == FALSE

(* batch_no is the primary key of the records. *)
Taken(n) == n \in DOMAIN batches

(* _write_batch: the rows and their record, in one transaction. *)
WriteBatch(p) ==
    /\ AtBatch(p) /\ ~ IsRecorded(p) /\ ~ Taken(build[p].n)
    /\ LET rows == Batch(p)
       IN  /\ entered' = [i \in Id |->
                entered[i] + Cardinality({k \in DOMAIN rows : Rowid(rows[k]) = i})]
           /\ batches' = [n \in DOMAIN batches \cup {build[p].n} |->
                IF n = build[p].n THEN Record(rows) ELSE batches[n]]
    /\ build' = [build EXCEPT ![p].n = @ + 1]
    /\ UNCHANGED <<corpus, ids>>

(***************************************************************************)
(* The build raises: a recorded batch is another one now, or the insert of *)
(* a record that another build made meanwhile fails and is rolled back.    *)
(***************************************************************************)
RefuseBatch(p) ==
    /\ AtBatch(p)
    /\ \/ IsRecorded(p) /\ ~ Replays(p)
       \/ ~ IsRecorded(p) /\ Taken(build[p].n)
    /\ build' = [build EXCEPT ![p] = NoBuild]
    /\ UNCHANGED <<corpus, ids, textIndex>>

FinishIndex(p) ==
    /\ Here(p, "open") /\ build[p].n = Chunks(build[p].source, CommitEvery)
    /\ build' = [build EXCEPT ![p].at = "built"]
    /\ UNCHANGED <<corpus, ids, textIndex>>

Indexing(p) ==
    \/ RegisterCorpus(p) \/ OpenIndex(p) \/ SkipBatch(p) \/ WriteBatch(p)
    \/ RefuseBatch(p) \/ FinishIndex(p)

-----------------------------------------------------------------------------
(* The rows of a source that a recorded batch covers. *)
Covered(source) ==
    {k \in DOMAIN source :
        LET n == (k - 1) \div CommitEvery
        IN  n \in DOMAIN batches /\ (k - 1) % CommitEvery < batches[n][1]}

(* The index is what was recorded of a source: each row once, for each time it occurs. *)
HoldsPrefixOf(source) ==
    \A i \in Id : entered[i] = Cardinality({k \in Covered(source) : Rowid(source[k]) = i})

=============================================================================
