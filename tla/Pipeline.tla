------------------------------ MODULE Pipeline ------------------------------
(***************************************************************************)
(* The corpus-wide stages of scripts/bootstrap.sh side by side: the        *)
(* lexical index, the document locator and the bulk extraction share the   *)
(* corpus file and the id registry.  Any of them may be run, killed and    *)
(* run again, in any order, while the corpus grows and readers look up     *)
(* documents.  A run starts after script 30 has loaded and registered the  *)
(* documents of one run.                                                   *)
(***************************************************************************)
EXTENDS TextIndex, RowLocator, BatchExtraction

CONSTANTS
    FirstCorpus,
    Budgets     \* bounds of the model: what may happen, how often

Kind == {"corpus", "run", "rechunk", "extract", "kill", "grow", "delete", "read"}

ASSUME PipelineAssumption ==
    /\ FirstCorpus \in Seq(Document) /\ FirstCorpus # <<>>
    /\ Budgets \subseteq [Kind -> Nat]
    /\ RunDocument = {RunDocuments[k] : k \in DOMAIN RunDocuments}
    /\ \A d, e \in RunDocument : Fold[DocumentKey(d)] = Fold[DocumentKey(e)] => d = e
    /\ \A x \in Document \X Proposal :
        {ClaimKey(x[1], x[2]), SpanKey(x[1], x[2]), AssertsKey(x[1], x[2]), SupportKey(x[1], x[2])}
            \subseteq Key

VARIABLE budget

locator == <<copy, map, work, reader>>
vars == <<corpus, ids, textIndex, build, locator, extraction, budget>>

Spend(kind) == budget[kind] > 0 /\ budget' = [budget EXCEPT ![kind] = @ - 1]

RunKeys == {DocumentKey(d) : d \in RunDocument}

Init ==
    /\ corpus = FirstCorpus
    /\ ids = [i \in Id |-> IF \E k \in RunKeys : Fold[k] = i
                           THEN CHOOSE k \in RunKeys : Fold[k] = i ELSE NoKey]
    /\ entered = [i \in Id |-> 0] /\ batches = <<>>
    /\ build = [p \in Process |-> NoBuild]
    /\ copy = NoFile /\ map = NoMap /\ work = NoWork
    /\ reader = [r \in Reader |-> Closed]
    /\ service = <<>> /\ marked = {} /\ extract = NoExtract
    /\ graph = [nodes |-> {DocumentVertex(d) : d \in RunDocument}, edges |-> {}]
    /\ budget \in Budgets

(* Script 70 is started, or started again. *)
Start(p) == ReadCorpus(p) /\ Spend("corpus") /\ UNCHANGED <<locator, extraction>>

Advance(p) == Indexing(p) /\ UNCHANGED <<locator, extraction, budget>>

TextStep ==
    \E p \in Process :
        \/ Start(p)
        \/ Advance(p)
        \/ ReadRun(p) /\ Spend("run") /\ UNCHANGED <<locator, extraction>>
        \/ /\ build[p].at \notin {"off", "built"} /\ Spend("kill")
           /\ build' = [build EXCEPT ![p] = NoBuild]
           /\ UNCHANGED <<corpus, ids, textIndex, locator, extraction>>

LocatorStep ==
    /\ \/ \E size \in GroupSizes : (Repartition(size) \/ KeepCopy(size)) /\ Spend("rechunk")
       \/ (CreateMap \/ OpenMap \/ IndexRowGroup \/ FinishMap) /\ UNCHANGED budget
       \/ (DeleteCopy \/ DeleteMap) /\ Spend("delete")
       \/ \E r \in Reader : OpenReader(r) /\ Spend("read")
       \/ \E r \in Reader : CloseReader(r) /\ UNCHANGED budget
       \/ /\ work.at \notin {"off", "built"} /\ Spend("kill")
          /\ work' = NoWork /\ UNCHANGED <<corpus, copy, map, reader>>
    /\ UNCHANGED <<ids, textIndex, build, extraction>>

ExtractStep ==
    /\ \/ Submit /\ Spend("extract")
       \/ (Extracting \/ \E b \in DOMAIN service : EndBatch(b)) /\ UNCHANGED budget
       \/ PollTimesOut /\ Spend("kill")
       \/ /\ extract.at \notin {"off", "ended"} /\ Spend("kill")
          /\ extract' = NoExtract /\ UNCHANGED <<corpus, ids, service, graph, marked>>
    /\ UNCHANGED <<textIndex, build, locator>>

CorpusGrows ==
    /\ Spend("grow")
    /\ \E d \in Document : Grow(d)
    /\ UNCHANGED <<ids, textIndex, build, locator, extraction>>

Next == TextStep \/ LocatorStep \/ ExtractStep \/ CorpusGrows

Spec == Init /\ [][Next]_vars

(* A script goes on while it is not killed, and is started again while it may be. *)
FairSpec ==
    /\ Spec
    /\ \A p \in Process : WF_vars(Advance(p))
    /\ WF_vars(\E p \in Process : Start(p))

-----------------------------------------------------------------------------
(***************************************************************************)
(* Type correctness, with what the records of the index and the map of the *)
(* locator always are: batches without a gap, row groups of the copy.      *)
(***************************************************************************)
PipelineTypeOK ==
    /\ corpus \in Seq(Document)
    /\ ids \in [Id -> Key \cup {NoKey}]
    /\ \A i \in Id : ids[i] # NoKey => Fold[ids[i]] = i
    /\ entered \in [Id -> Nat]
    /\ DOMAIN batches = 0 .. Cardinality(DOMAIN batches) - 1
    /\ \A n \in DOMAIN batches : batches[n] \in (1 .. CommitEvery) \X Id \X Id
    /\ \A p \in Process : build[p].n <= Chunks(build[p].source, CommitEvery)
    /\ map.done # {} => map.exists /\ map.stamp # <<>>
    /\ work.at \in {"copied", "created", "open"} => copy # NoFile
    /\ \A d \in DOMAIN map.place : d \in Document /\ map.place[d][1] \in map.done
    /\ extract.accepted \subseteq RunDocument \X Proposal

(***************************************************************************)
(* Whatever is addressed by an id is what the id was minted for: a row of  *)
(* the index is a document's and a vertex has the type of its name, though *)
(* two names can fold to one id.  (register_many before every write)       *)
(***************************************************************************)
Addressed ==
    /\ \A i \in Id : entered[i] > 0 => \E d \in Document : ids[i] = DocumentKey(d)
    /\ \A v \in graph.nodes : ids[v[2]] # NoKey /\ ids[v[2]][1] = v[1]

(***************************************************************************)
(* The index holds every row of its recorded batches once, of the corpus   *)
(* or of the run, however often builds were killed, started again or run   *)
(* beside each other.  (_write_batch: the table cannot be deleted from)    *)
(***************************************************************************)
IndexExact == HoldsPrefixOf(corpus) \/ HoldsPrefixOf(RunDocuments)

(***************************************************************************)
(* A build that ends without an error leaves every row it was given in the *)
(* index: a batch it skipped is the batch it has.  (_check_replay)         *)
(***************************************************************************)
BuiltIsComplete ==
    \A p \in Process : Here(p, "built") => Covered(build[p].source) = DOMAIN build[p].source

(* Only script 70 builds, of the whole corpus, and the corpus stays as it is. *)
OneSource == corpus = FirstCorpus /\ \A p \in Process : build[p].source \in {<<>>, corpus}

(***************************************************************************)
(* Of a corpus that stays the same, a build that came as far as the index  *)
(* leads to a complete one, however it is killed and started again: what   *)
(* is recorded never stands in the way of what is not.  (build_index)      *)
(***************************************************************************)
BuildResumes ==
    []OneSource => ((\E p \in Process : Here(p, "registered")) ~> Covered(corpus) = DOMAIN corpus)

=============================================================================
