--------------------------- MODULE PipelineProofs ---------------------------
(***************************************************************************)
(* Theorems about Pipeline, for every corpus, id scheme, batch size,       *)
(* number of processes and bound.  Whatever is addressed by an id is what  *)
(* the id was minted for, and every claim in the graph is attributed to a  *)
(* document that has its evidence span word for word.  A lookup answers    *)
(* the document asked for, a build that ends is complete, and the index    *)
(* holds each row once as long as the records tell the batches apart.      *)
(***************************************************************************)
EXTENDS Pipeline, TLAPS, FiniteSetTheorems, SequenceTheorems, WellFoundedInduction

(* The registry's rows, and the rows each build has read and registered. *)
RegistryInv == ids \in [Id -> Key \cup {NoKey}]

SourceInv ==
    /\ corpus \in Seq(Document)
    /\ \A d \in RunDocument : Registered(DocumentKey(d))
    /\ DOMAIN build = Process
    /\ \A p \in Process :
        /\ DOMAIN build[p] = {"at", "source", "recorded", "n"}
        /\ build[p].source \in Seq(Document)
        /\ build[p].n \in Nat
        /\ build[p].at \in {"registered", "open", "built"} =>
            \A k \in DOMAIN build[p].source : Registered(DocumentKey(build[p].source[k]))

IndexInv ==
    /\ entered \in [Id -> Nat]
    /\ \A i \in Id : entered[i] > 0 => \E d \in Document : ids[i] = DocumentKey(d)

(* A claim the service proposed of a document that quotes it. *)
Home(x) ==
    /\ x[1] \in Quotes[x[2]]
    /\ \E b \in DOMAIN service :
        service[b].ended /\ x[1] \in service[b].docs /\ x[2] \in service[b].reply[x[1]]

ReplyTo(docs) == [docs -> Replies \cup {Failed}]

Batches ==
    [docs : SUBSET RunDocument, ended : BOOLEAN,
     reply : {<<>>} \cup UNION {ReplyTo(docs) : docs \in SUBSET RunDocument}]

ServiceInv ==
    /\ service \in Seq(Batches)
    /\ \A b \in DOMAIN service :
        service[b].ended => service[b].reply \in ReplyTo(service[b].docs)

ExtractInv ==
    /\ DOMAIN extract = {"at", "batch", "heard", "accepted", "step", "written", "fresh"}
    /\ extract.accepted \in SUBSET (RunDocument \X Proposal)
    /\ extract.at \in {"poll", "collect", "write", "ended"} => extract.batch \in DOMAIN service
    /\ extract.at \in {"collect", "write", "ended"} => service[extract.batch].ended
    /\ \A x \in extract.accepted : Home(x)
    /\ extract.at \in {"write", "ended"} => \A k \in Names(extract.accepted) : Registered(k)

GraphInv ==
    /\ DOMAIN graph = {"nodes", "edges"}
    /\ \A v \in graph.nodes : v[2] \in Id /\ ids[v[2]] # NoKey /\ ids[v[2]][1] = v[1]
    /\ \A x \in Written : Home(x)

Inv == RegistryInv /\ SourceInv /\ IndexInv /\ ServiceInv /\ ExtractInv /\ GraphInv

-----------------------------------------------------------------------------
(* What register_many leaves of the registry. *)
LEMMA Registering ==
    ASSUME RegistryInv, NEW batch \in SUBSET Key, RegisterMany(batch)
    PROVE  /\ RegistryInv'
           /\ \A i \in Id : ids[i] # NoKey => ids'[i] = ids[i]
           /\ \A k \in batch : ids'[Fold[k]] = k
<1> USE RegistryAssumption DEF RegistryInv
<1>1. ids' = [i \in Id |->
                IF ids[i] # NoKey \/ \A k \in batch : Fold[k] # i
                THEN ids[i] ELSE CHOOSE k \in batch : Fold[k] = i]
  BY DEF RegisterMany, Inserted
<1>2. \A i \in Id : (\E k \in batch : Fold[k] = i) =>
            (CHOOSE k \in batch : Fold[k] = i) \in batch
            /\ Fold[CHOOSE k \in batch : Fold[k] = i] = i
  OBVIOUS
<1>3. RegistryInv'
  <2>1. \A i \in Id : ids'[i] \in Key \cup {NoKey}
    BY <1>1, <1>2
  <2>2. QED
    BY <1>1, <2>1
<1>4. \A i \in Id : ids[i] # NoKey => ids'[i] = ids[i]
  BY <1>1
<1>5. ASSUME NEW k \in batch PROVE ids'[Fold[k]] = k
  <2>1. Fold[k] \in Id
    BY DEF Id
  <2>2. ids[Fold[k]] \in {NoKey, k} /\ \A l \in batch : l # k => Fold[l] # Fold[k]
    BY DEF RegisterMany, Collides
  <2>3. CASE ids[Fold[k]] = k
    BY <1>4, <2>1, <2>3, RegistryAssumption
  <2>4. CASE ids[Fold[k]] = NoKey
    <3>1. (CHOOSE l \in batch : Fold[l] = Fold[k]) = k
      BY <2>2
    <3>2. QED
      BY <1>1, <2>1, <2>4, <3>1
  <2>5. QED
    BY <2>2, <2>3, <2>4
<1>6. QED
  BY <1>3, <1>4, <1>5

(* A name that is registered stays registered. *)
LEMMA StaysRegistered ==
    ASSUME RegistryInv, NEW k \in Key, Registered(k),
           \A i \in Id : ids[i] # NoKey => ids'[i] = ids[i]
    PROVE  Registered(k)'
BY RegistryAssumption DEF Registered, Id

(* Nothing but a registration changes the registry. *)
Grown == \A i \in Id : ids[i] # NoKey => ids'[i] = ids[i]

(* What the service has answered it has answered. *)
Answered ==
    \A b \in DOMAIN service : service[b].ended => b \in DOMAIN service' /\ service'[b] = service[b]

(* The names of an extraction are names the id scheme knows. *)
LEMMA NamesAreKeys ==
    ASSUME NEW accepted \in SUBSET (RunDocument \X Proposal)
    PROVE  Names(accepted) \in SUBSET Key
<1>1. \A x \in accepted : x \in Document \X Proposal
  BY ExtractionAssumption
<1>2. QED
  BY <1>1, PipelineAssumption DEF Names

-----------------------------------------------------------------------------
(* What each part keeps when the registry only grows and the part's own    *)
(* variables stay.                                                          *)

LEMMA SourceFrame ==
    ASSUME RegistryInv, SourceInv, Grown, UNCHANGED <<corpus, build>>
    PROVE  SourceInv'
<1>0. \A d \in RunDocument : Registered(DocumentKey(d))'
  BY ExtractionAssumption, TextIndexAssumption, RegistryAssumption
     DEF SourceInv, Registered, Grown, Id, RegistryInv
<1> SUFFICES ASSUME NEW p \in Process, build[p].at \in {"registered", "open", "built"},
                    NEW k \in DOMAIN build[p].source
             PROVE  Registered(DocumentKey(build[p].source[k]))'
  BY <1>0 DEF SourceInv
<1>1. build[p].source[k] \in Document /\ Registered(DocumentKey(build[p].source[k]))
  BY DEF SourceInv
<1>2. DocumentKey(build[p].source[k]) \in Key
  BY <1>1, TextIndexAssumption
<1>3. QED
  BY <1>1, <1>2, RegistryAssumption DEF Registered, Grown, Id, RegistryInv

LEMMA IndexFrame ==
    ASSUME RegistryInv, IndexInv, Grown, UNCHANGED entered
    PROVE  IndexInv'
<1>1. \A d \in Document : DocumentKey(d) # NoKey
  BY TextIndexAssumption, RegistryAssumption
<1>2. QED
  BY <1>1 DEF IndexInv, Grown

LEMMA HomeFrame ==
    ASSUME Answered, NEW x, Home(x)
    PROVE  Home(x)'
BY DEF Home, Answered

(* What a submitted batch is. *)
LEMMA BatchShape ==
    ASSUME ServiceInv, NEW b \in DOMAIN service
    PROVE  /\ DOMAIN service[b] = {"docs", "ended", "reply"}
           /\ service[b].docs \in SUBSET RunDocument
           /\ service[b].ended \in BOOLEAN
<1>1. service[b] \in Batches
  BY DEF ServiceInv
<1>2. QED
  BY <1>1 DEF Batches

LEMMA ServiceFrame ==
    ASSUME ServiceInv, UNCHANGED service
    PROVE  ServiceInv'
BY DEF ServiceInv

LEMMA ExtractFrame ==
    ASSUME RegistryInv, ExtractInv, Grown, UNCHANGED <<service, extract>>
    PROVE  ExtractInv'
<1>1. \A x \in extract.accepted : Home(x)'
  BY HomeFrame DEF ExtractInv, Answered
<1>2. extract.at \in {"write", "ended"} => \A k \in Names(extract.accepted) : Registered(k)'
  <2>1. Names(extract.accepted) \in SUBSET Key
    BY NamesAreKeys DEF ExtractInv
  <2>2. QED
    BY <2>1, StaysRegistered DEF ExtractInv, Grown
<1>3. Names(extract.accepted)' = Names(extract.accepted)
  BY DEF Names
<1>4. QED
  BY <1>1, <1>2, <1>3 DEF ExtractInv

(* What was written is what it was: an id that is used is not minted anew. *)
LEMMA GraphFrame ==
    ASSUME RegistryInv, GraphInv, Grown, Answered, UNCHANGED graph
    PROVE  GraphInv'
<1>1. \A v \in graph.nodes : v[2] \in Id /\ ids'[v[2]] # NoKey /\ ids'[v[2]][1] = v[1]
  BY DEF GraphInv, Grown
<1>2. ASSUME NEW x \in RunDocument \X Proposal,
             ClaimVertex(x[1], x[2]) \in graph.nodes, Registered(ClaimKey(x[1], x[2]))'
      PROVE  Home(x)
  <2>1. Fold[ClaimKey(x[1], x[2])] \in Id /\ ids[Fold[ClaimKey(x[1], x[2])]] # NoKey
    <3>1. ClaimVertex(x[1], x[2])[2] = Fold[ClaimKey(x[1], x[2])]
      BY DEF ClaimVertex, Node
    <3>2. QED
      BY <1>2, <3>1 DEF GraphInv
  <2>2. Registered(ClaimKey(x[1], x[2]))
    BY <1>2, <2>1 DEF Registered, Grown
  <2>3. QED
    BY <1>2, <2>2 DEF GraphInv, Written
<1>3. \A x \in Written' : Home(x)'
  BY <1>2, HomeFrame DEF Written, ClaimVertex, Node
<1>4. QED
  BY <1>1, <1>3 DEF GraphInv

-----------------------------------------------------------------------------
(* The initial state: the documents of the run are registered and loaded. *)
LEMMA Initial == Init => Inv
<1> SUFFICES ASSUME Init PROVE Inv
  OBVIOUS
<1> USE DEF Init
<1>1. RunKeys \in SUBSET Key /\ \A d \in RunDocument : d \in Document /\ DocumentKey(d) \in RunKeys
  BY ExtractionAssumption, TextIndexAssumption DEF RunKeys
<1>2. \A d \in RunDocument : ids[Fold[DocumentKey(d)]] = DocumentKey(d)
  <2> SUFFICES ASSUME NEW d \in RunDocument PROVE ids[Fold[DocumentKey(d)]] = DocumentKey(d)
    OBVIOUS
  <2>1. Fold[DocumentKey(d)] \in Id
    BY <1>1, RegistryAssumption
  <2>2. \A k \in RunKeys : Fold[k] = Fold[DocumentKey(d)] => k = DocumentKey(d)
    BY PipelineAssumption DEF RunKeys
  <2>3. (CHOOSE k \in RunKeys : Fold[k] = Fold[DocumentKey(d)]) = DocumentKey(d)
    BY <1>1, <2>2
  <2>4. QED
    BY <1>1, <2>1, <2>3
<1>3. RegistryInv
  <2>1. \A i \in Id : (\E k \in RunKeys : Fold[k] = i) => (CHOOSE k \in RunKeys : Fold[k] = i) \in Key
    BY <1>1
  <2>2. QED
    BY <2>1 DEF RegistryInv
<1>4. SourceInv
  <2>1. \A p \in Process : build[p] = [at |-> "off", source |-> <<>>, recorded |-> <<>>, n |-> 0]
    BY DEF NoBuild
  <2>2. <<>> \in Seq(Document) /\ corpus \in Seq(Document) /\ DOMAIN build = Process
    BY PipelineAssumption
  <2>3. ASSUME NEW p \in Process
        PROVE  /\ DOMAIN build[p] = {"at", "source", "recorded", "n"}
               /\ build[p].source = <<>> /\ build[p].n = 0 /\ build[p].at = "off"
    BY <2>1
  <2>4. \A d \in RunDocument : Registered(DocumentKey(d))
    BY <1>2 DEF Registered
  <2> HIDE DEF Init
  <2>5. ASSUME NEW p \in Process PROVE build[p].source \in Seq(Document) /\ build[p].n \in Nat
    <3>1. 0 \in Nat
      OBVIOUS
    <3>2. QED
      BY <2>2, <2>3, <3>1, Zenon
  <2>6. ASSUME NEW p \in Process PROVE build[p].at \notin {"registered", "open", "built"}
    BY <2>3
  <2>7. \A p \in Process :
            /\ DOMAIN build[p] = {"at", "source", "recorded", "n"}
            /\ build[p].source \in Seq(Document)
            /\ build[p].n \in Nat
    BY <2>3, <2>5, Zenon
  <2>8. QED
    BY <2>2, <2>4, <2>6, <2>7, Zenon DEF SourceInv
<1>5. IndexInv
  BY DEF IndexInv
<1>6. ServiceInv
  BY DEF ServiceInv
<1>7. ExtractInv
  BY DEF ExtractInv, NoExtract
<1>8. GraphInv
  <2>1. DOMAIN graph = {"nodes", "edges"} /\ graph.nodes = {DocumentVertex(d) : d \in RunDocument}
    OBVIOUS
  <2>2. \A v \in graph.nodes : v[2] \in Id /\ ids[v[2]] # NoKey /\ ids[v[2]][1] = v[1]
    <3>1. ASSUME NEW d \in RunDocument
          PROVE  /\ DocumentVertex(d)[2] = Fold[DocumentKey(d)] /\ DocumentVertex(d)[1] = "Document"
                 /\ Fold[DocumentKey(d)] \in Id /\ DocumentKey(d) # NoKey /\ DocumentKey(d)[1] = "Document"
      BY <1>1, RegistryAssumption DEF DocumentVertex, Node, DocumentKey
    <3>2. ASSUME NEW v \in graph.nodes
          PROVE  v[2] \in Id /\ ids[v[2]] # NoKey /\ ids[v[2]][1] = v[1]
      <4>1. PICK d \in RunDocument : v = DocumentVertex(d)
        BY <2>1
      <4>2. v[2] = Fold[DocumentKey(d)] /\ v[1] = "Document" /\ ids[v[2]] = DocumentKey(d)
        BY <1>2, <3>1, <4>1
      <4>3. QED
        BY <3>1, <4>2
    <3>3. QED
      BY <3>2
  <2>3. Written = {}
    BY <2>1 DEF Written, ClaimVertex, DocumentVertex, Node
  <2>4. QED
    BY <2>1, <2>2, <2>3 DEF GraphInv
<1>9. QED
  BY <1>3, <1>4, <1>5, <1>6, <1>7, <1>8 DEF Inv

-----------------------------------------------------------------------------
(* The lexical index. *)

(* A step of a build that leaves the registry alone. *)
LEMMA ReadCorpusKeeps ==
    ASSUME SourceInv, NEW p \in Process, ReadCorpus(p)
    PROVE  SourceInv'
<1>1. PICK limit \in 1 .. Len(corpus) :
        build' = [build EXCEPT ![p] = [NoBuild EXCEPT !.at = "read", !.source = SubSeq(corpus, 1, limit)]]
  BY DEF ReadCorpus
<1>2. SubSeq(corpus, 1, limit) \in Seq(Document)
  BY <1>1 DEF SourceInv
<1>3. QED
  BY <1>1, <1>2 DEF SourceInv, ReadCorpus, NoBuild, Registered

LEMMA ReadRunKeeps ==
    ASSUME SourceInv, NEW p \in Process, ReadRun(p)
    PROVE  SourceInv'
<1>1. RunDocuments \in Seq(Document) /\ \A k \in DOMAIN RunDocuments : RunDocuments[k] \in RunDocument
  BY TextIndexAssumption, PipelineAssumption
<1>2. QED
  BY <1>1 DEF SourceInv, ReadRun, NoBuild, Registered

LEMMA RegisterCorpusKeeps ==
    ASSUME RegistryInv, SourceInv, NEW p \in Process, RegisterCorpus(p)
    PROVE  RegistryInv' /\ SourceInv' /\ Grown
<1> DEFINE names == {DocumentKey(build[p].source[k]) : k \in DOMAIN build[p].source}
<1>1. names \in SUBSET Key
  BY TextIndexAssumption DEF SourceInv
<1>2. CASE RegisterMany(names) /\ build' = [build EXCEPT ![p].at = "registered"]
  <2>1. RegistryInv' /\ Grown /\ \A k \in names : ids'[Fold[k]] = k
    BY <1>1, <1>2, Registering DEF Grown
  <2>2. \A k \in DOMAIN build[p].source : Registered(DocumentKey(build[p].source[k]))'
    <3>1. \A k \in DOMAIN build[p].source : build'[p].source = build[p].source
      BY <1>2 DEF SourceInv
    <3>2. QED
      BY <2>1, <3>1 DEF Registered
  <2>3. \A k \in Key : Registered(k) => Registered(k)'
    BY <2>1, StaysRegistered DEF Grown
  <2>4. \A d \in Document : DocumentKey(d) \in Key
    BY TextIndexAssumption
  <2>5. \A d \in RunDocument : Registered(DocumentKey(d))'
    BY <2>3, <2>4, ExtractionAssumption DEF SourceInv
  <2>6. ASSUME NEW q \in Process, build'[q].at \in {"registered", "open", "built"},
               NEW k \in DOMAIN build'[q].source
        PROVE  ids'[Fold[DocumentKey(build'[q].source[k])]] = DocumentKey(build'[q].source[k])
    <3> USE DEF Registered
    <3>1. CASE q = p
      BY <2>2, <2>6, <3>1, <1>2 DEF SourceInv
    <3>2. CASE q # p
      <4>1. build'[q] = build[q]
        BY <1>2, <3>2 DEF SourceInv
      <4>2. build[q].source[k] \in Document /\ Registered(DocumentKey(build[q].source[k]))
        BY <2>6, <4>1 DEF SourceInv
      <4>3. QED
        BY <2>3, <2>4, <4>1, <4>2
    <3>3. QED
      BY <3>1, <3>2
  <2>7. QED
    BY <1>2, <2>1, <2>5, <2>6 DEF SourceInv, RegisterCorpus, Registered
<1>3. CASE build' = [build EXCEPT ![p] = NoBuild] /\ UNCHANGED ids
  BY <1>3 DEF SourceInv, RegistryInv, Grown, RegisterCorpus, NoBuild, Registered
<1>4. QED
  BY <1>2, <1>3 DEF RegisterCorpus

LEMMA BuildStepKeeps ==
    ASSUME SourceInv, NEW p \in Process,
           OpenIndex(p) \/ SkipBatch(p) \/ WriteBatch(p) \/ RefuseBatch(p) \/ FinishIndex(p)
    PROVE  SourceInv'
<1> USE DEF SourceInv, Registered, textIndex
<1>1. CASE OpenIndex(p)
  BY <1>1 DEF OpenIndex, Here
<1>2. CASE SkipBatch(p)
  BY <1>2 DEF SkipBatch
<1>3. CASE WriteBatch(p)
  BY <1>3 DEF WriteBatch
<1>4. CASE RefuseBatch(p)
  BY <1>4 DEF RefuseBatch, NoBuild
<1>5. CASE FinishIndex(p)
  BY <1>5 DEF FinishIndex, Here
<1>6. QED
  BY <1>1, <1>2, <1>3, <1>4, <1>5

(* Every row of a batch is a row of the source, and so its document is registered. *)
LEMMA WriteBatchKeeps ==
    ASSUME RegistryInv, SourceInv, IndexInv, NEW p \in Process, WriteBatch(p)
    PROVE  IndexInv'
<1> DEFINE rows == Batch(p)
           Rows(i) == {k \in DOMAIN rows : Rowid(rows[k]) = i}
<1>1. entered' = [i \in Id |-> entered[i] + Cardinality(Rows(i))] /\ UNCHANGED ids
  BY DEF WriteBatch
<1>2. build[p].at = "open" /\ build[p].source \in Seq(Document)
  BY DEF SourceInv, WriteBatch, AtBatch, Here
<1>3. rows \in Seq(Document) /\ \A k \in DOMAIN rows : \E j \in DOMAIN build[p].source : rows[k] = build[p].source[j]
  <2> DEFINE s == build[p].source
             m == build[p].n * CommitEvery + 1
             n == Least((build[p].n + 1) * CommitEvery, Len(s))
  <2>1. rows = SubSeq(s, m, n)
    BY DEF Batch, Chunk
  <2>2. build[p].n * CommitEvery \in Nat /\ (build[p].n + 1) * CommitEvery \in Nat
    BY TextIndexAssumption DEF SourceInv
  <2>3. m \in 1 .. m /\ m \in Nat /\ n \in Nat /\ n <= Len(s)
    BY <1>2, <2>2 DEF Least
  <2> HIDE DEF m, n
  <2>4. QED
    BY <1>2, <2>1, <2>3
<1>4. \A i \in Id : IsFiniteSet(Rows(i))
  <2>1. DOMAIN rows = 1 .. Len(rows) /\ Len(rows) \in Nat
    BY <1>3
  <2>2. IsFiniteSet(1 .. Len(rows))
    BY <2>1, FS_Interval
  <2>3. \A i \in Id : Rows(i) \subseteq 1 .. Len(rows)
    BY <2>1
  <2> HIDE DEF Rows
  <2>4. QED
    BY <2>2, <2>3, FS_Subset
<1>5. \A i \in Id : Cardinality(Rows(i)) \in Nat
  BY <1>4, FS_CardinalityType
<1>6. ASSUME NEW i \in Id, entered'[i] > 0 PROVE \E d \in Document : ids[i] = DocumentKey(d)
  <2>1. CASE Rows(i) = {}
    <3>1. entered'[i] = entered[i]
      BY <1>1, <2>1, FS_EmptySet DEF IndexInv
    <3>2. QED
      BY <1>6, <3>1 DEF IndexInv
  <2>2. CASE Rows(i) # {}
    <3>1. PICK k \in DOMAIN rows : Rowid(rows[k]) = i
      BY <2>2
    <3>2. PICK j \in DOMAIN build[p].source : rows[k] = build[p].source[j]
      BY <1>3
    <3>3. Registered(DocumentKey(build[p].source[j])) /\ build[p].source[j] \in Document
      BY <1>2 DEF SourceInv
    <3>4. QED
      BY <3>1, <3>2, <3>3 DEF Registered, Rowid
  <2>3. QED
    BY <2>1, <2>2
<1>7. entered' \in [Id -> Nat]
  BY <1>1, <1>5 DEF IndexInv
<1>8. QED
  BY <1>1, <1>6, <1>7 DEF IndexInv

(* A build that does not run holds nothing. *)
LEMMA KilledKeeps ==
    ASSUME SourceInv, NEW p \in Process, build' = [build EXCEPT ![p] = NoBuild], UNCHANGED <<corpus, ids>>
    PROVE  SourceInv'
BY DEF SourceInv, NoBuild, Registered

LEMMA CorpusGrowsKeeps ==
    ASSUME SourceInv, NEW d \in Document, Grow(d), UNCHANGED <<ids, build>>
    PROVE  SourceInv'
<1>1. corpus' \in Seq(Document)
  BY DEF SourceInv, Grow
<1>2. QED
  BY <1>1 DEF SourceInv, Registered

-----------------------------------------------------------------------------
(* The bulk extraction. *)

LEMMA SubmitKeeps ==
    ASSUME ServiceInv, ExtractInv, Submit
    PROVE  ServiceInv' /\ ExtractInv' /\ Answered
<1>1. PICK docs \in SUBSET RunDocument :
        service' = Append(service, [docs |-> docs, ended |-> FALSE, reply |-> <<>>])
  BY DEF Submit
<1>2. DOMAIN service' = 1 .. Len(service) + 1 /\ DOMAIN service = 1 .. Len(service)
      /\ Len(service) \in Nat
      /\ service'[Len(service) + 1] = [docs |-> docs, ended |-> FALSE, reply |-> <<>>]
      /\ \A b \in DOMAIN service : service'[b] = service[b]
  BY <1>1 DEF ServiceInv
<1>3. ServiceInv'
  <2>1. [docs |-> docs, ended |-> FALSE, reply |-> <<>>] \in Batches
    BY DEF Batches
  <2>2. \A b \in DOMAIN service' : service'[b].ended => b \in DOMAIN service /\ service'[b] = service[b]
    BY <1>2
  <2>3. service' \in Seq(Batches)
    BY <1>1, <2>1 DEF ServiceInv
  <2>4. QED
    BY <2>2, <2>3 DEF ServiceInv
<1>4. Answered
  BY <1>2 DEF Answered
<1>5. ExtractInv'
  BY <1>2 DEF ExtractInv, Submit, NoExtract
<1>6. QED
  BY <1>3, <1>4, <1>5

LEMMA EndBatchKeeps ==
    ASSUME RegistryInv, ServiceInv, ExtractInv, NEW b \in DOMAIN service, EndBatch(b)
    PROVE  ServiceInv' /\ ExtractInv' /\ Answered
<1>1. PICK reply \in [service[b].docs -> Replies \cup {Failed}] :
        service' = [service EXCEPT ![b].ended = TRUE, ![b].reply = reply]
  BY DEF EndBatch
<1>2. DOMAIN service' = DOMAIN service /\ \A c \in DOMAIN service : c # b => service'[c] = service[c]
  BY <1>1 DEF ServiceInv
<1>3. service'[b] = [docs |-> service[b].docs, ended |-> TRUE, reply |-> reply]
  <2>1. service'[b] = [service[b] EXCEPT !.ended = TRUE, !.reply = reply]
    BY <1>1
  <2>2. DOMAIN service[b] = {"docs", "ended", "reply"}
    BY BatchShape
  <2>3. QED
    BY <2>1, <2>2
<1>4. service[b].docs \in SUBSET RunDocument /\ ~ service[b].ended
  BY BatchShape DEF EndBatch
<1>5. Answered
  BY <1>2, <1>4 DEF Answered
<1>6. ServiceInv'
  <2>1. service'[b] \in Batches
    BY <1>1, <1>3, <1>4 DEF Batches, ReplyTo
  <2>2. service'[b].reply \in ReplyTo(service'[b].docs)
    BY <1>1, <1>3 DEF ReplyTo
  <2>3. service' \in Seq(Batches)
    <3>1. service' = [service EXCEPT ![b] = service'[b]]
      BY <1>1
    <3>2. service' \in [1 .. Len(service) -> Batches] /\ Len(service) \in Nat
      BY <2>1, <3>1 DEF ServiceInv
    <3>3. QED
      BY <3>2
  <2>4. QED
    BY <1>2, <2>2, <2>3 DEF ServiceInv
<1>7. ExtractInv'
  <2>1. \A x \in extract.accepted : Home(x)'
    BY <1>5, HomeFrame DEF ExtractInv
  <2>2. extract.at \in {"collect", "write", "ended"} => service'[extract.batch].ended
    BY <1>2, <1>3, <1>4 DEF ExtractInv
  <2>3. UNCHANGED <<ids, extract>>
    BY DEF EndBatch
  <2>4. QED
    BY <1>2, <2>1, <2>2, <2>3 DEF ExtractInv, Registered, Names
<1>8. QED
  BY <1>5, <1>6, <1>7

(* Waiting, giving up, and being killed. *)
LEMMA WaitingKeeps ==
    ASSUME ExtractInv, UNCHANGED <<ids, service>>,
           Poll \/ extract' = NoExtract
    PROVE  ExtractInv'
<1>1. CASE Poll
  BY <1>1 DEF ExtractInv, Poll, Script, Home, Names, Registered
<1>2. CASE extract' = NoExtract
  BY <1>2 DEF ExtractInv, NoExtract
<1>3. QED
  BY <1>1, <1>2

(* A result is accepted for the document it is of. *)
LEMMA CollectKeeps ==
    ASSUME ServiceInv, ExtractInv, Collect
    PROVE  ExtractInv'
<1>1. PICK d \in Asked :
        LET reply == service[extract.batch].reply[d]
            new   == IF reply = Failed THEN {} ELSE {<<d, c>> : c \in {k \in reply : Grounded(d, k)}}
        IN  extract' = [extract EXCEPT !.heard = @ \cup {d}, !.accepted = @ \cup new]
  BY DEF Collect
<1> DEFINE reply == service[extract.batch].reply[d]
           new   == IF reply = Failed THEN {} ELSE {<<d, c>> : c \in {k \in reply : Grounded(d, k)}}
<1>2. extract.at = "collect" /\ extract.batch \in DOMAIN service /\ service[extract.batch].ended
  BY DEF Collect, Script, ExtractInv
<1>3. d \in RunDocument /\ d \in service[extract.batch].docs /\ reply \in Replies \cup {Failed}
  BY <1>1, <1>2, BatchShape DEF Asked, ServiceInv, ReplyTo
<1>4. ASSUME NEW x \in new
      PROVE  x \in RunDocument \X Proposal /\ Home(x)
  <2>1. reply \in Replies
    BY <1>3
  <2>2. PICK c \in reply : x = <<d, c>> /\ Grounded(d, c)
    OBVIOUS
  <2>3. c \in Proposal
    BY <2>1, ExtractionAssumption
  <2>4. QED
    BY <1>2, <1>3, <2>2, <2>3 DEF Home, Grounded
<1> HIDE DEF new
<1>5. extract' = [extract EXCEPT !.heard = @ \cup {d}, !.accepted = @ \cup new]
  BY <1>1 DEF new
<1>6. /\ extract'.accepted = extract.accepted \cup new /\ extract'.at = "collect"
      /\ extract'.batch = extract.batch /\ DOMAIN extract' = DOMAIN extract
  BY <1>2, <1>5 DEF ExtractInv
<1>7. \A x \in extract'.accepted : x \in RunDocument \X Proposal /\ Home(x)'
  BY <1>4, <1>6 DEF ExtractInv, Home, Collect
<1>8. QED
  BY <1>2, <1>6, <1>7 DEF ExtractInv, Collect

LEMMA RegisterClaimsKeeps ==
    ASSUME RegistryInv, ExtractInv, RegisterClaims
    PROVE  RegistryInv' /\ Grown /\ ExtractInv'
<1>1. CASE UNCHANGED ids /\ extract' = NoExtract
  BY <1>1 DEF RegistryInv, Grown, ExtractInv, NoExtract
<1>2. CASE /\ RegisterMany(Names(extract.accepted))
           /\ extract' = [extract EXCEPT !.at = "write", !.step = 1,
                            !.fresh = \A n \in DOMAIN Steps : Job(n) \notin marked]
  <2>1. Names(extract.accepted) \in SUBSET Key
    BY NamesAreKeys DEF ExtractInv
  <2>2. RegistryInv' /\ Grown /\ \A k \in Names(extract.accepted) : ids'[Fold[k]] = k
    BY <1>2, <2>1, Registering DEF Grown
  <2>3. /\ extract'.accepted = extract.accepted /\ extract'.at = "write"
        /\ extract'.batch = extract.batch /\ DOMAIN extract' = DOMAIN extract
    BY <1>2 DEF ExtractInv
  <2>4. extract.at = "collect" /\ UNCHANGED service
    BY DEF RegisterClaims, Script
  <2>5. \A x \in extract.accepted : Home(x)'
    BY <2>4 DEF ExtractInv, Home
  <2>6. Names(extract.accepted)' = Names(extract.accepted)
    BY <2>3 DEF Names
  <2>7. QED
    BY <2>2, <2>3, <2>4, <2>5, <2>6 DEF ExtractInv, Registered
<1>3. QED
  BY <1>1, <1>2 DEF RegisterClaims

LEMMA JobKeeps ==
    ASSUME ExtractInv, SkipJob \/ WriteJob \/ MarkJob \/ FinishExtract
    PROVE  ExtractInv'
<1>1. UNCHANGED <<ids, service>>
  BY DEF SkipJob, WriteJob, MarkJob, FinishExtract
<1>2. /\ extract'.accepted = extract.accepted /\ extract'.batch = extract.batch
      /\ DOMAIN extract' = DOMAIN extract
      /\ extract.at = "write" /\ extract'.at \in {"write", "ended"}
  BY DEF ExtractInv, SkipJob, WriteJob, MarkJob, FinishExtract, Proceed, AtStep, Script
<1>3. \A x \in extract.accepted : Home(x)'
  BY <1>1 DEF ExtractInv, Home
<1>4. Names(extract.accepted)' = Names(extract.accepted)
  BY <1>2 DEF Names
<1>5. QED
  BY <1>1, <1>2, <1>3, <1>4 DEF ExtractInv, Registered

(* The vertices of accepted claims are the claims': no id of theirs is another's. *)
LEMMA WriteJobKeeps ==
    ASSUME RegistryInv, ExtractInv, GraphInv, WriteJob
    PROVE  GraphInv'
<1> DEFINE s == Steps[extract.step]
           rows == VertexRows(s, extract.accepted)
<1>1. UNCHANGED <<ids, service>> /\ extract.at = "write"
  BY DEF WriteJob, AtStep, Script
<1>2. DOMAIN graph' = {"nodes", "edges"} /\ graph'.nodes = graph.nodes \cup rows
  BY DEF WriteJob, UpsertEdges, UpsertNodes, GraphInv
<1>3. ASSUME NEW x \in extract.accepted
      PROVE  /\ Fold[ClaimKey(x[1], x[2])] \in Id /\ ids[Fold[ClaimKey(x[1], x[2])]] = ClaimKey(x[1], x[2])
             /\ Fold[SpanKey(x[1], x[2])] \in Id /\ ids[Fold[SpanKey(x[1], x[2])]] = SpanKey(x[1], x[2])
             /\ ClaimKey(x[1], x[2]) # NoKey /\ SpanKey(x[1], x[2]) # NoKey
  <2>1. ClaimKey(x[1], x[2]) \in Names(extract.accepted) /\ SpanKey(x[1], x[2]) \in Names(extract.accepted)
    BY DEF Names
  <2>2. ClaimKey(x[1], x[2]) \in Key /\ SpanKey(x[1], x[2]) \in Key
    BY <2>1, NamesAreKeys DEF ExtractInv
  <2>3. Registered(ClaimKey(x[1], x[2])) /\ Registered(SpanKey(x[1], x[2]))
    BY <1>1, <2>1 DEF ExtractInv
  <2>4. QED
    BY <2>2, <2>3, RegistryAssumption DEF Registered
<1>4. ASSUME NEW v \in rows
      PROVE  \E x \in extract.accepted : v = ClaimVertex(x[1], x[2]) \/ v = SpanVertex(x[1], x[2])
  BY DEF VertexRows
<1>5. ASSUME NEW v \in rows
      PROVE  v[2] \in Id /\ ids[v[2]] # NoKey /\ ids[v[2]][1] = v[1]
  <2>1. PICK x \in extract.accepted : v = ClaimVertex(x[1], x[2]) \/ v = SpanVertex(x[1], x[2])
    BY <1>4
  <2>2. CASE v = ClaimVertex(x[1], x[2])
    <3>1. v[1] = "Claim" /\ v[2] = Fold[ClaimKey(x[1], x[2])] /\ ClaimKey(x[1], x[2])[1] = "Claim"
      BY <2>2 DEF ClaimVertex, Node, ClaimKey
    <3>2. QED
      BY <1>3, <3>1
  <2>3. CASE v = SpanVertex(x[1], x[2])
    <3>1. v[1] = "EvidenceSpan" /\ v[2] = Fold[SpanKey(x[1], x[2])]
          /\ SpanKey(x[1], x[2])[1] = "EvidenceSpan"
      BY <2>3 DEF SpanVertex, Node, SpanKey
    <3>2. QED
      BY <1>3, <3>1
  <2>4. QED
    BY <2>1, <2>2, <2>3
<1>6. ASSUME NEW y \in RunDocument \X Proposal,
             ClaimVertex(y[1], y[2]) \in rows, Registered(ClaimKey(y[1], y[2]))
      PROVE  Home(y)
  <2>1. PICK x \in extract.accepted :
            ClaimVertex(y[1], y[2]) = ClaimVertex(x[1], x[2]) \/ ClaimVertex(y[1], y[2]) = SpanVertex(x[1], x[2])
    BY <1>4, <1>6
  <2>2. Fold[ClaimKey(y[1], y[2])] = Fold[ClaimKey(x[1], x[2])]
    BY <2>1 DEF ClaimVertex, SpanVertex, Node
  <2>3. ClaimKey(y[1], y[2]) = ClaimKey(x[1], x[2])
    BY <1>3, <1>6, <2>2 DEF Registered
  <2>4. y[1] = x[1] /\ y[2] = x[2] /\ x \in RunDocument \X Proposal
    BY <2>3 DEF ClaimKey, ExtractInv
  <2>5. y = x
    BY <2>4
  <2>6. QED
    BY <2>5 DEF ExtractInv
<1>7. ASSUME NEW y \in RunDocument \X Proposal,
             ClaimVertex(y[1], y[2]) \in graph'.nodes, Registered(ClaimKey(y[1], y[2]))
      PROVE  Home(y)
  BY <1>2, <1>6, <1>7 DEF GraphInv, Written
<1>8. \A y \in Written' : Home(y)'
  BY <1>1, <1>7 DEF Written, Home, Registered, ClaimVertex, Node
<1>9. QED
  BY <1>1, <1>2, <1>5, <1>8 DEF GraphInv

-----------------------------------------------------------------------------
(* Every step keeps the invariant. *)

(* The steps that touch neither the extraction nor what is registered of it. *)
LEMMA IndexSideKeeps ==
    ASSUME Inv, RegistryInv', Grown, SourceInv', IndexInv', UNCHANGED extraction
    PROVE  Inv'
<1>1. ExtractInv' /\ ServiceInv' /\ GraphInv'
  BY ExtractFrame, ServiceFrame, GraphFrame DEF Inv, extraction, Answered
<1>2. QED
  BY <1>1 DEF Inv

(* The steps that touch neither the index nor its builds. *)
LEMMA ExtractSideKeeps ==
    ASSUME Inv, RegistryInv', Grown, ServiceInv', ExtractInv', GraphInv',
           UNCHANGED <<corpus, build, textIndex>>
    PROVE  Inv'
<1>1. SourceInv' /\ IndexInv'
  BY SourceFrame, IndexFrame DEF Inv, textIndex
<1>2. QED
  BY <1>1 DEF Inv

LEMMA SameIds ==
    ASSUME RegistryInv, UNCHANGED ids
    PROVE  RegistryInv' /\ Grown
BY DEF RegistryInv, Grown

LEMMA TextStepKeeps ==
    ASSUME Inv, TextStep
    PROVE  Inv'
<1>1. PICK p \in Process :
        \/ ReadCorpus(p) /\ UNCHANGED extraction
        \/ Indexing(p) /\ UNCHANGED extraction
        \/ ReadRun(p) /\ UNCHANGED extraction
        \/ build' = [build EXCEPT ![p] = NoBuild] /\ UNCHANGED <<corpus, ids, textIndex, extraction>>
  BY DEF TextStep, Start, Advance
<1>2. UNCHANGED extraction
  BY <1>1
<1>3. RegistryInv' /\ Grown /\ SourceInv' /\ IndexInv'
  <2> USE DEF Inv
  <2>1. CASE ReadCorpus(p)
    <3>1. UNCHANGED <<ids, entered>>
      BY <2>1 DEF ReadCorpus, textIndex
    <3>2. QED
      BY <2>1, <3>1, ReadCorpusKeeps, SameIds, IndexFrame
  <2>2. CASE ReadRun(p)
    <3>1. UNCHANGED <<ids, entered>>
      BY <2>2 DEF ReadRun, textIndex
    <3>2. QED
      BY <2>2, <3>1, ReadRunKeeps, SameIds, IndexFrame
  <2>3. CASE RegisterCorpus(p)
    <3>1. UNCHANGED entered
      BY <2>3 DEF RegisterCorpus, textIndex
    <3>2. QED
      BY <2>3, <3>1, RegisterCorpusKeeps, IndexFrame
  <2>4. CASE WriteBatch(p)
    <3>1. UNCHANGED ids
      BY <2>4 DEF WriteBatch
    <3>2. QED
      BY <2>4, <3>1, BuildStepKeeps, WriteBatchKeeps, SameIds
  <2>5. CASE OpenIndex(p) \/ SkipBatch(p) \/ RefuseBatch(p) \/ FinishIndex(p)
    <3>1. UNCHANGED <<ids, entered>>
      BY <2>5 DEF OpenIndex, SkipBatch, RefuseBatch, FinishIndex, textIndex
    <3>2. QED
      BY <2>5, <3>1, BuildStepKeeps, SameIds, IndexFrame
  <2>6. CASE build' = [build EXCEPT ![p] = NoBuild] /\ UNCHANGED <<corpus, ids, textIndex>>
    BY <2>6, KilledKeeps, SameIds, IndexFrame DEF textIndex
  <2>7. QED
    BY <1>1, <2>1, <2>2, <2>3, <2>4, <2>5, <2>6 DEF Indexing
<1>4. QED
  BY <1>2, <1>3, IndexSideKeeps

LEMMA ExtractStepKeeps ==
    ASSUME Inv, ExtractStep
    PROVE  Inv'
<1> USE DEF Inv
<1>1. UNCHANGED <<corpus, build, textIndex>>
  BY DEF ExtractStep, Submit, Extracting, EndBatch, PollTimesOut, Poll, Collect, RegisterClaims,
         SkipJob, WriteJob, MarkJob, FinishExtract
<1>2. CASE Submit
  <2>1. UNCHANGED <<ids, graph>>
    BY <1>2 DEF Submit
  <2>2. QED
    BY <1>1, <1>2, <2>1, SubmitKeeps, SameIds, GraphFrame, ExtractSideKeeps
<1>3. CASE \E b \in DOMAIN service : EndBatch(b)
  <2>1. UNCHANGED <<ids, graph>>
    BY <1>3 DEF EndBatch
  <2>2. QED
    BY <1>1, <1>3, <2>1, EndBatchKeeps, SameIds, GraphFrame, ExtractSideKeeps
<1>4. CASE Poll \/ PollTimesOut \/ (extract' = NoExtract /\ UNCHANGED <<ids, service, graph>>)
  <2>1. UNCHANGED <<ids, graph, service>> /\ (Poll \/ extract' = NoExtract)
    BY <1>4 DEF Poll, PollTimesOut
  <2>2. Answered
    BY <2>1 DEF Answered
  <2>3. ServiceInv'
    BY <2>1, ServiceFrame
  <2>4. QED
    BY <1>1, <2>1, <2>2, <2>3, WaitingKeeps, SameIds, GraphFrame, ExtractSideKeeps
<1>5. CASE Collect
  <2>1. UNCHANGED <<ids, graph, service>>
    BY <1>5 DEF Collect
  <2>2. Answered
    BY <2>1 DEF Answered
  <2>3. ServiceInv'
    BY <2>1, ServiceFrame
  <2>4. QED
    BY <1>1, <1>5, <2>1, <2>2, <2>3, CollectKeeps, SameIds, GraphFrame, ExtractSideKeeps
<1>6. CASE RegisterClaims
  <2>1. UNCHANGED <<graph, service>>
    BY <1>6 DEF RegisterClaims
  <2>2. Answered
    BY <2>1 DEF Answered
  <2>3. ServiceInv'
    BY <2>1, ServiceFrame
  <2>4. QED
    BY <1>1, <1>6, <2>1, <2>2, <2>3, RegisterClaimsKeeps, GraphFrame, ExtractSideKeeps
<1>7. CASE WriteJob
  <2>1. UNCHANGED <<ids, service>>
    BY <1>7 DEF WriteJob
  <2>2. QED
    BY <1>1, <1>7, <2>1, JobKeeps, WriteJobKeeps, ServiceFrame, SameIds, ExtractSideKeeps
<1>8. CASE SkipJob \/ MarkJob \/ FinishExtract
  <2>1. UNCHANGED <<ids, graph, service>>
    BY <1>8 DEF SkipJob, MarkJob, FinishExtract
  <2>2. Answered
    BY <2>1 DEF Answered
  <2>3. ServiceInv'
    BY <2>1, ServiceFrame
  <2>4. QED
    BY <1>1, <1>8, <2>1, <2>2, <2>3, JobKeeps, GraphFrame, SameIds, ExtractSideKeeps
<1>9. QED
  BY <1>2, <1>3, <1>4, <1>5, <1>6, <1>7, <1>8 DEF ExtractStep, Extracting

LEMMA Inductive ==
    ASSUME Inv, [Next]_vars
    PROVE  Inv'
<1>1. CASE TextStep
  BY <1>1, TextStepKeeps
<1>2. CASE ExtractStep
  BY <1>2, ExtractStepKeeps
<1>3. CASE LocatorStep \/ UNCHANGED vars
  <2>1. UNCHANGED <<corpus, ids, textIndex, build, extraction>>
    BY <1>3 DEF LocatorStep, vars, Repartition, KeepCopy, CreateMap, OpenMap, IndexRowGroup,
                FinishMap, DeleteCopy, DeleteMap, OpenReader, CloseReader
  <2>2. QED
    BY <2>1, SameIds, SourceFrame, IndexFrame, IndexSideKeeps DEF Inv, textIndex
<1>4. CASE CorpusGrows
  <2>1. UNCHANGED <<ids, textIndex, build, extraction>> /\ \E d \in Document : Grow(d)
    BY <1>4 DEF CorpusGrows
  <2>2. QED
    BY <2>1, SameIds, CorpusGrowsKeeps, IndexFrame, IndexSideKeeps DEF Inv, textIndex
<1>5. QED
  BY <1>1, <1>2, <1>3, <1>4 DEF Next

(***************************************************************************)
(* Whatever is addressed by an id is what the id was minted for, for every *)
(* id scheme, however often names collide.                                 *)
(***************************************************************************)
THEOREM AddressedTheorem == Spec => []Addressed
<1>1. Inv => Addressed
  BY DEF Inv, IndexInv, GraphInv, Addressed
<1>2. QED
  BY <1>1, Initial, Inductive, PTL DEF Spec

(***************************************************************************)
(* Every claim in the graph is attributed to a document that has its span  *)
(* word for word and that the model was asked about, in whatever order     *)
(* results come back and whatever names share an id.                       *)
(***************************************************************************)
THEOREM ClaimsLandHomeTheorem == Spec => []ClaimsLandHome
<1>1. Inv => ClaimsLandHome
  BY DEF Inv, GraphInv, ClaimsLandHome, Home
<1>2. QED
  BY <1>1, Initial, Inductive, PTL DEF Spec

-----------------------------------------------------------------------------
(* An extraction none of whose jobs was marked skips none of them. *)

Doing == extract.at \in {"write", "ended"} /\ extract.fresh

(* A job has been written, marked or not. *)
Past(n) == n < extract.step \/ (n = extract.step /\ extract.written)

WholeInv ==
    /\ \A d \in RunDocument : DocumentVertex(d) \in graph.nodes
    /\ extract.fresh \in BOOLEAN /\ extract.written \in BOOLEAN /\ extract.step \in Nat
    /\ extract.at = "write" => extract.step \in 1 .. 5
    /\ extract.at = "ended" => extract.step = 5
    /\ extract.step > Len(Steps) => ~ extract.written
    /\ extract.at \notin {"write", "ended"} => extract.step = 0 /\ ~ extract.written
    /\ Doing => \A n \in DOMAIN Steps : n >= extract.step => Job(n) \notin marked
    /\ Doing => \A x \in extract.accepted :
        /\ Past(1) => ClaimVertex(x[1], x[2]) \in graph.nodes
        /\ Past(2) => SpanVertex(x[1], x[2]) \in graph.nodes
        /\ Past(3) => Joined(graph, Fold[AssertsKey(x[1], x[2])], DocumentVertex(x[1]), ClaimVertex(x[1], x[2]))
        /\ Past(4) => Joined(graph, Fold[SupportKey(x[1], x[2])], ClaimVertex(x[1], x[2]), SpanVertex(x[1], x[2]))

LEMMA TheSteps ==
    /\ Len(Steps) = 4 /\ DOMAIN Steps = 1 .. 4
    /\ Steps[1] = "claims" /\ Steps[2] = "spans" /\ Steps[3] = "asserts" /\ Steps[4] = "supported"
BY DEF Steps

LEMMA WholeInitially == Init => WholeInv
BY DEF Init, NoExtract, WholeInv, Doing

(* Nothing but the script's own steps disturbs it. *)
LEMMA WholeFrame ==
    ASSUME WholeInv, UNCHANGED <<graph, marked>>, UNCHANGED extract \/ extract'.at \notin {"write", "ended"},
           extract'.fresh \in BOOLEAN, extract'.written \in BOOLEAN, extract'.step \in Nat,
           extract'.step > Len(Steps) => ~ extract'.written,
           extract'.at \notin {"write", "ended"} => extract'.step = 0 /\ ~ extract'.written
    PROVE  WholeInv'
BY DEF WholeInv, Doing, Past, Job, DocumentVertex, ClaimVertex, SpanVertex, Node, AssertsKey, SupportKey, Joined, Edge

LEMMA WriteJobWhole ==
    ASSUME ExtractInv, GraphInv, WholeInv, WriteJob
    PROVE  WholeInv'
<1> DEFINE s == Steps[extract.step]
           rows == VertexRows(s, extract.accepted)
           ties == EdgeRows(s, extract.accepted)
<1>1. /\ extract.at = "write" /\ extract.step \in 1 .. 4 /\ UNCHANGED marked
      /\ extract' = [extract EXCEPT !.written = TRUE]
  BY TheSteps DEF WriteJob, AtStep, Script, WholeInv
<1>2. /\ extract'.at = "write" /\ extract'.step = extract.step /\ extract'.fresh = extract.fresh
      /\ extract'.written /\ extract'.accepted = extract.accepted /\ DOMAIN extract' = DOMAIN extract
  BY <1>1 DEF ExtractInv
<1>3. /\ graph'.nodes = graph.nodes \cup rows
      /\ graph'.edges = graph.edges \cup
            {e \in ties : e.src \in graph.nodes \cup rows /\ e.dst \in graph.nodes \cup rows}
  BY DEF WriteJob, UpsertEdges, UpsertNodes, GraphInv
<1> HIDE DEF rows, ties
<1>4. \A n \in DOMAIN Steps : Job(n)' = Job(n)
  BY <1>2 DEF Job
<1>5. ASSUME NEW x \in extract.accepted, Doing
      PROVE  /\ Past(1)' => ClaimVertex(x[1], x[2]) \in graph'.nodes
             /\ Past(2)' => SpanVertex(x[1], x[2]) \in graph'.nodes
             /\ Past(3)' => Joined(graph', Fold[AssertsKey(x[1], x[2])], DocumentVertex(x[1]), ClaimVertex(x[1], x[2]))
             /\ Past(4)' => Joined(graph', Fold[SupportKey(x[1], x[2])], ClaimVertex(x[1], x[2]), SpanVertex(x[1], x[2]))
  <2>1. DocumentVertex(x[1]) \in graph.nodes
    BY DEF WholeInv, ExtractInv
  <2>2. /\ Past(1)' => 1 <= extract.step
        /\ Past(2)' => 2 <= extract.step
        /\ Past(3)' => extract.step = 3 \/ 3 < extract.step
        /\ Past(4)' => extract.step = 4
    BY <1>1, <1>2 DEF Past
  <2>3. /\ 1 < extract.step => ClaimVertex(x[1], x[2]) \in graph.nodes
        /\ 2 < extract.step => SpanVertex(x[1], x[2]) \in graph.nodes
        /\ 3 < extract.step => Joined(graph, Fold[AssertsKey(x[1], x[2])], DocumentVertex(x[1]), ClaimVertex(x[1], x[2]))
    BY <1>5 DEF WholeInv, Past
  <2>4. extract.step = 1 => ClaimVertex(x[1], x[2]) \in rows
    BY TheSteps DEF rows, VertexRows
  <2>5. extract.step = 2 => SpanVertex(x[1], x[2]) \in rows
    BY TheSteps DEF rows, VertexRows
  <2>6. extract.step = 3 =>
            Edge(Fold[AssertsKey(x[1], x[2])], DocumentVertex(x[1]), ClaimVertex(x[1], x[2])) \in ties
    BY TheSteps DEF ties, EdgeRows
  <2>7. extract.step = 4 =>
            Edge(Fold[SupportKey(x[1], x[2])], ClaimVertex(x[1], x[2]), SpanVertex(x[1], x[2])) \in ties
    BY TheSteps DEF ties, EdgeRows
  <2>8. extract.step = 3 =>
            Joined(graph', Fold[AssertsKey(x[1], x[2])], DocumentVertex(x[1]), ClaimVertex(x[1], x[2]))
    BY <1>3, <2>1, <2>3, <2>6 DEF Joined, Edge
  <2>9. extract.step = 4 =>
            Joined(graph', Fold[SupportKey(x[1], x[2])], ClaimVertex(x[1], x[2]), SpanVertex(x[1], x[2]))
    BY <1>3, <2>3, <2>7 DEF Joined, Edge
  <2>10. /\ 1 <= extract.step => ClaimVertex(x[1], x[2]) \in graph'.nodes
         /\ 2 <= extract.step => SpanVertex(x[1], x[2]) \in graph'.nodes
    BY <1>1, <1>3, <2>3, <2>4, <2>5
  <2>11. 3 < extract.step =>
            Joined(graph', Fold[AssertsKey(x[1], x[2])], DocumentVertex(x[1]), ClaimVertex(x[1], x[2]))
    BY <1>3, <2>3 DEF Joined
  <2>12. QED
    BY <2>2, <2>8, <2>9, <2>10, <2>11, Zenon
<1>6. \A d \in RunDocument : DocumentVertex(d) \in graph'.nodes
  BY <1>3 DEF WholeInv
<1>7. Doing' = Doing
  BY <1>1, <1>2 DEF Doing
<1>8. extract.step <= Len(Steps)
  BY <1>1, TheSteps
<1>9. \A x \in extract'.accepted : Doing' =>
        /\ Past(1)' => ClaimVertex(x[1], x[2]) \in graph'.nodes
        /\ Past(2)' => SpanVertex(x[1], x[2]) \in graph'.nodes
        /\ Past(3)' => Joined(graph', Fold[AssertsKey(x[1], x[2])], DocumentVertex(x[1]), ClaimVertex(x[1], x[2]))
        /\ Past(4)' => Joined(graph', Fold[SupportKey(x[1], x[2])], ClaimVertex(x[1], x[2]), SpanVertex(x[1], x[2]))
  BY <1>2, <1>5, <1>7
<1>10. Doing' => \A n \in DOMAIN Steps : n >= extract'.step => Job(n)' \notin marked'
  BY <1>1, <1>2, <1>4, <1>7 DEF WholeInv
<1>11. QED
  BY <1>1, <1>2, <1>6, <1>8, <1>9, <1>10, TheSteps DEF WholeInv

LEMMA OtherJobsWhole ==
    ASSUME ExtractInv, WholeInv, SkipJob \/ MarkJob \/ FinishExtract
    PROVE  WholeInv'
<1>1. UNCHANGED graph /\ extract.at = "write" /\ extract.step \in 1 .. 5
  BY DEF SkipJob, MarkJob, FinishExtract, AtStep, Script, WholeInv
<1>2. /\ extract'.accepted = extract.accepted /\ extract'.fresh = extract.fresh
      /\ DOMAIN extract' = DOMAIN extract /\ extract'.at \in {"write", "ended"}
  BY <1>1 DEF ExtractInv, SkipJob, MarkJob, FinishExtract, Proceed
<1>3. \A n \in DOMAIN Steps : Job(n)' = Job(n)
  BY <1>2 DEF Job
<1>4. Doing' = Doing
  BY <1>1, <1>2 DEF Doing
<1>5. CASE SkipJob
  <2>1. extract.step \in 1 .. 4 /\ Job(extract.step) \in marked
    BY <1>1, <1>5, TheSteps DEF SkipJob, AtStep
  <2>2. ~ Doing
    BY <2>1, TheSteps DEF WholeInv
  <2>3. /\ extract'.step = extract.step + 1 /\ ~ extract'.written /\ extract'.written \in BOOLEAN
        /\ extract'.at = "write"
    BY <1>1, <1>5 DEF SkipJob, Proceed, ExtractInv
  <2>4. QED
    BY <1>1, <1>2, <1>4, <2>1, <2>2, <2>3 DEF WholeInv, DocumentVertex
<1>6. CASE MarkJob
  <2>1. extract.step \in 1 .. 4 /\ extract.written /\ marked' = marked \cup {Job(extract.step)}
    BY <1>1, <1>6, TheSteps DEF MarkJob, AtStep
  <2>2. /\ extract'.step = extract.step + 1 /\ ~ extract'.written /\ extract'.written \in BOOLEAN
        /\ extract'.at = "write"
    BY <1>1, <1>6 DEF MarkJob, Proceed, ExtractInv
  <2>3. \A n \in DOMAIN Steps : n > extract.step => Job(n) # Job(extract.step)
    BY <2>1, TheSteps DEF Job
  <2>4. Doing' => \A n \in DOMAIN Steps : n >= extract'.step => Job(n)' \notin marked'
    BY <1>3, <1>4, <2>1, <2>2, <2>3, TheSteps DEF WholeInv
  <2>5. \A n \in 1 .. 4 : Past(n)' => Past(n)
    BY <2>1, <2>2 DEF Past
  <2>6. \A x \in extract'.accepted : Doing' =>
        /\ Past(1)' => ClaimVertex(x[1], x[2]) \in graph'.nodes
        /\ Past(2)' => SpanVertex(x[1], x[2]) \in graph'.nodes
        /\ Past(3)' => Joined(graph', Fold[AssertsKey(x[1], x[2])], DocumentVertex(x[1]), ClaimVertex(x[1], x[2]))
        /\ Past(4)' => Joined(graph', Fold[SupportKey(x[1], x[2])], ClaimVertex(x[1], x[2]), SpanVertex(x[1], x[2]))
    BY <1>1, <1>2, <1>4, <2>5 DEF WholeInv
  <2>7. QED
    BY <1>1, <1>2, <2>1, <2>2, <2>4, <2>6 DEF WholeInv
<1>7. CASE FinishExtract
  <2>1. /\ extract.step = 5 /\ UNCHANGED marked
        /\ extract'.step = extract.step /\ extract'.written = extract.written /\ extract'.at = "ended"
    BY <1>1, <1>7, TheSteps DEF FinishExtract, ExtractInv
  <2>2. \A n \in 1 .. 4 : Past(n)' = Past(n)
    BY <2>1 DEF Past
  <2>3. QED
    BY <1>1, <1>2, <1>3, <1>4, <2>1, <2>2, TheSteps DEF WholeInv
<1>8. QED
  BY <1>5, <1>6, <1>7

LEMMA RegisterClaimsWhole ==
    ASSUME ExtractInv, WholeInv, RegisterClaims
    PROVE  WholeInv'
<1>1. UNCHANGED <<graph, marked>> /\ ~ extract.written /\ extract.at = "collect"
  BY DEF RegisterClaims, Script, WholeInv
<1>2. CASE extract' = NoExtract
  BY <1>1, <1>2, WholeFrame, TheSteps DEF NoExtract
<1>3. CASE extract' = [extract EXCEPT !.at = "write", !.step = 1,
                            !.fresh = \A n \in DOMAIN Steps : Job(n) \notin marked]
  <2> DEFINE fresh == \A n \in DOMAIN Steps : Job(n) \notin marked
  <2>1. fresh \in BOOLEAN
    OBVIOUS
  <2> HIDE DEF fresh
  <2>2. /\ extract'.at = "write" /\ extract'.step = 1 /\ extract'.fresh = fresh
        /\ extract'.written = extract.written /\ extract'.accepted = extract.accepted
    BY <1>3 DEF ExtractInv, fresh
  <2>3. \A n \in DOMAIN Steps : Job(n)' = Job(n)
    BY <2>2 DEF Job
  <2>4. Doing' => \A n \in DOMAIN Steps : Job(n)' \notin marked'
    BY <1>1, <2>2, <2>3 DEF Doing, fresh
  <2>5. ~ Past(1)' /\ ~ Past(2)' /\ ~ Past(3)' /\ ~ Past(4)'
    BY <1>1, <2>2 DEF Past
  <2>6. QED
    BY <1>1, <2>1, <2>2, <2>4, <2>5, TheSteps DEF WholeInv, DocumentVertex
<1>4. QED
  BY <1>2, <1>3 DEF RegisterClaims

LEMMA WholeStep ==
    ASSUME Inv, WholeInv, [Next]_vars
    PROVE  WholeInv'
<1> USE DEF Inv
<1>1. CASE WriteJob
  BY <1>1, WriteJobWhole
<1>2. CASE SkipJob \/ MarkJob \/ FinishExtract
  BY <1>2, OtherJobsWhole
<1>3. CASE RegisterClaims
  BY <1>3, RegisterClaimsWhole
<1>4. CASE ExtractStep /\ ~ (WriteJob \/ SkipJob \/ MarkJob \/ FinishExtract \/ RegisterClaims)
  <2>1. UNCHANGED <<graph, marked>>
    BY <1>4 DEF ExtractStep, Extracting, Submit, EndBatch, Poll, PollTimesOut, Collect
  <2>2. /\ UNCHANGED extract \/ extract'.at \notin {"write", "ended"}
        /\ extract'.fresh \in BOOLEAN /\ extract'.written \in BOOLEAN /\ extract'.step \in Nat
        /\ extract'.step > Len(Steps) => ~ extract'.written
        /\ extract'.at \notin {"write", "ended"} => extract'.step = 0 /\ ~ extract'.written
    <3>1. CASE \E b \in DOMAIN service : EndBatch(b)
      BY <3>1 DEF EndBatch, WholeInv
    <3>2. CASE Submit \/ PollTimesOut \/ extract' = NoExtract
      <4>1. NoExtract.at = "off" /\ NoExtract.step = 0 /\ NoExtract.fresh = FALSE
            /\ NoExtract.written = FALSE
            /\ DOMAIN NoExtract = {"at", "batch", "heard", "accepted", "step", "written", "fresh"}
        BY DEF NoExtract
      <4>2. /\ extract'.at \in {"off", "poll"} /\ extract'.step = 0
            /\ extract'.fresh = FALSE /\ extract'.written = FALSE
        <5>1. CASE Submit
          <6>1. extract' = [NoExtract EXCEPT !.at = "poll", !.batch = Len(service) + 1]
            BY <5>1 DEF Submit
          <6>2. QED
            BY <4>1, <6>1
        <5>2. CASE extract' = NoExtract
          BY <4>1, <5>2
        <5>3. QED
          BY <3>2, <5>1, <5>2 DEF PollTimesOut
      <4>3. extract'.fresh \in BOOLEAN /\ extract'.written \in BOOLEAN /\ ~ extract'.written
        BY <4>2
      <4>4. extract'.step \in Nat /\ extract'.at \notin {"write", "ended"}
        BY <4>2
      <4>5. QED
        BY <4>2, <4>3, <4>4
    <3>3. CASE Poll \/ Collect
      <4>1. /\ extract'.at = "collect" /\ extract.at \in {"poll", "collect"}
            /\ extract'.fresh = extract.fresh /\ extract'.written = extract.written
            /\ extract'.step = extract.step
        BY <3>3 DEF Poll, Collect, Script, ExtractInv
      <4>2. QED
        BY <4>1 DEF WholeInv
    <3>4. QED
      BY <1>4, <3>1, <3>2, <3>3 DEF ExtractStep, Extracting
  <2>3. QED
    BY <2>1, <2>2, WholeFrame
<1>5. CASE TextStep \/ LocatorStep \/ CorpusGrows \/ UNCHANGED vars
  <2>1. UNCHANGED extraction
    BY <1>5 DEF TextStep, Start, Advance, LocatorStep, CorpusGrows, vars
  <2>2. QED
    BY <2>1, WholeFrame DEF extraction, WholeInv
<1>6. QED
  BY <1>1, <1>2, <1>3, <1>4, <1>5 DEF Next

(***************************************************************************)
(* An extraction that ended, and of whose jobs none was marked before, has *)
(* written every claim it accepted with its document and its span.         *)
(***************************************************************************)
THEOREM ExtractionWholeTheorem == Spec => []ExtractionWhole
<1>1. WholeInv => ExtractionWhole
  <2> SUFFICES ASSUME WholeInv, Script("ended"), extract.fresh, NEW x \in extract.accepted
               PROVE  /\ Joined(graph, Fold[AssertsKey(x[1], x[2])], DocumentVertex(x[1]), ClaimVertex(x[1], x[2]))
                      /\ Joined(graph, Fold[SupportKey(x[1], x[2])], ClaimVertex(x[1], x[2]), SpanVertex(x[1], x[2]))
    BY DEF ExtractionWhole
  <2>1. Doing /\ Past(3) /\ Past(4)
    BY DEF WholeInv, Doing, Past, Script
  <2>2. QED
    BY <2>1 DEF WholeInv
<1>2. QED
  BY <1>1, Initial, Inductive, WholeInitially, WholeStep, PTL DEF Spec

-----------------------------------------------------------------------------
(* Chunks of a sequence, and the layouts a copy of the corpus can have. *)

LEMMA DivMod ==
    ASSUME NEW a \in Nat, NEW b \in Nat \ {0}
    PROVE  /\ a \div b \in Nat /\ (a \div b) * b <= a /\ a < (a \div b) * b + b
           /\ a % b \in 0 .. b - 1 /\ a = (a \div b) * b + (a % b)
BY SMT

LEMMA Products ==
    ASSUME NEW a \in Nat, NEW b \in Nat, NEW c \in Nat, a < b
    PROVE  a * c + c <= b * c
BY SMT

(* A set of natural numbers has a least one: what stands for induction here. *)
LEMMA LeastMember ==
    ASSUME NEW S \in SUBSET Nat, S # {}
    PROVE  \E n \in S : \A m \in S : n <= m
<1> DEFINE Less == {pair \in Nat \X Nat : pair[1] < pair[2]}
<1>1. IsWellFoundedOn(Less, Nat)
  BY NatLessThanWellFounded DEF OpToRel
<1>2. PICK n \in S : \A m \in S : <<m, n>> \notin Less
  <2> HIDE DEF Less
  <2>1. QED
    BY <1>1, WFMin
<1>3. \A m \in S : ~(m < n)
  BY <1>2
<1>4. QED
  BY <1>3

(* There is an n-th chunk as long as there are rows for it. *)
LEMMA ChunkCount ==
    ASSUME NEW rows, Len(rows) \in Nat, NEW size \in Nat \ {0}
    PROVE  /\ Chunks(rows, size) \in Nat
           /\ Len(rows) <= Chunks(rows, size) * size
           /\ \A n \in Nat : n < Chunks(rows, size) <=> n * size < Len(rows)
<1> DEFINE a == Len(rows) + size - 1
           C == a \div size
<1>1. a \in Nat
  OBVIOUS
<1>2. C \in Nat /\ C * size <= a /\ a < C * size + size
  BY <1>1, DivMod
<1>3. Chunks(rows, size) = C
  BY DEF Chunks
<1> HIDE DEF C
<1>4. ASSUME NEW n \in Nat PROVE n < C <=> n * size < Len(rows)
  <2>1. n * size \in Nat /\ C * size \in Nat
    BY <1>2
  <2>2. CASE n < C
    <3>1. n * size + size <= C * size
      BY <1>2, <2>2, Products
    <3>2. QED
      BY <1>2, <2>1, <2>2, <3>1
  <2>3. CASE ~ (n < C)
    <3>1. C * size <= n * size
      BY <1>2, <2>3
    <3>2. QED
      BY <1>2, <2>1, <2>3, <3>1
  <2>4. QED
    BY <2>2, <2>3
<1>5. QED
  BY <1>2, <1>3, <1>4

LEMMA ChunkShape ==
    ASSUME NEW rows \in Seq(Document), NEW size \in Nat \ {0}, NEW n \in Nat,
           n < Chunks(rows, size)
    PROVE  /\ Chunk(rows, size, n) \in Seq(Document)
           /\ Len(Chunk(rows, size, n)) = Least(n * size + size, Len(rows)) - n * size
           /\ Len(Chunk(rows, size, n)) \in 1 .. size
           /\ \A i \in 1 .. Len(Chunk(rows, size, n)) : Chunk(rows, size, n)[i] = rows[n * size + i]
<1> DEFINE upto == Least(n * size + size, Len(rows))
<1>1. Len(rows) \in Nat /\ n * size \in Nat /\ n * size < Len(rows)
  BY ChunkCount
<1>2. (n + 1) * size = n * size + size
  OBVIOUS
<1>3. upto \in Nat /\ n * size < upto /\ upto <= Len(rows) /\ upto <= n * size + size
  BY <1>1 DEF Least
<1>4. Chunk(rows, size, n) = SubSeq(rows, n * size + 1, upto)
  BY <1>2 DEF Chunk
<1> HIDE DEF upto
<1> DEFINE from == n * size + 1
<1>5. from \in 1 .. Len(rows) + 1 /\ upto \in from .. Len(rows)
  BY <1>1, <1>3
<1> HIDE DEF from
<1>6. /\ SubSeq(rows, from, upto) \in Seq(Document)
      /\ Len(SubSeq(rows, from, upto)) = upto - from + 1
      /\ \A i \in 1 .. upto - from + 1 : SubSeq(rows, from, upto)[i] = rows[from + i - 1]
  BY <1>1, <1>5
<1>7. QED
  BY <1>1, <1>3, <1>4, <1>6 DEF from, upto

CutOf(rows, size) == [g \in 1 .. Chunks(rows, size) |-> Chunk(rows, size, g - 1)]

FirstRows(rows, n) == SubSeq(rows, 1, n)

(* Some of the first rows, in groups of one size. *)
IsLayout(file, rows) ==
    \E n \in 1 .. Len(rows), size \in GroupSizes : file = CutOf(FirstRows(rows, n), size)

LEMMA CutShape ==
    ASSUME NEW rows \in Seq(Document), NEW size \in Nat \ {0}
    PROVE  LET file == CutOf(rows, size)
           IN  /\ file \in Seq(Seq(Document)) /\ Len(file) = Chunks(rows, size)
               /\ Len(file) \in Nat
               /\ \A g \in 1 .. Len(file) :
                    /\ file[g] \in Seq(Document)
                    /\ Len(file[g]) = Least(g * size, Len(rows)) - (g - 1) * size
<1> DEFINE C == Chunks(rows, size)
           file == CutOf(rows, size)
<1>1. C \in Nat
  BY ChunkCount
<1> HIDE DEF C
<1>2. ASSUME NEW g \in 1 .. C
      PROVE  /\ file[g] = Chunk(rows, size, g - 1) /\ file[g] \in Seq(Document)
             /\ Len(file[g]) = Least(g * size, Len(rows)) - (g - 1) * size
  <2>1. file[g] = Chunk(rows, size, g - 1)
    BY DEF CutOf, C
  <2> DEFINE n == g - 1
  <2>2. n \in Nat /\ n < C
    BY <1>1
  <2>3. n * size + size = g * size
    BY <1>1
  <2> HIDE DEF n
  <2>4. /\ Chunk(rows, size, n) \in Seq(Document)
        /\ Len(Chunk(rows, size, n)) = Least(n * size + size, Len(rows)) - n * size
    BY <2>2, ChunkShape DEF C
  <2>5. QED
    BY <2>1, <2>3, <2>4 DEF n
<1>3. file = [g \in 1 .. C |-> file[g]]
  BY DEF CutOf, C
<1>4. file \in Seq(Seq(Document)) /\ Len(file) = C
  <2> HIDE DEF file
  <2>1. file \in [1 .. C -> Seq(Document)]
    BY <1>2, <1>3
  <2>2. QED
    BY <1>1, <2>1
<1>5. QED
  BY <1>1, <1>2, <1>4 DEF C

(* How many rows the groups have up to each. *)
CountUpto(file) ==
    CHOOSE f : f = [g \in 0 .. Len(file) |-> IF g = 0 THEN 0 ELSE f[g - 1] + Len(file[g])]

LEMMA CutRows ==
    ASSUME NEW rows \in Seq(Document), NEW size \in Nat \ {0}
    PROVE  RowsOf(CutOf(rows, size)) = Len(rows)
<1> DEFINE file == CutOf(rows, size)
           C == Len(file)
           L == Len(rows)
           F == CountUpto(file)
           H == [g \in 0 .. C |-> Least(g * size, L)]
<1>1. /\ C \in Nat /\ L \in Nat /\ L <= C * size
      /\ \A n \in Nat : n < C => n * size < L
      /\ \A g \in 1 .. C : Len(file[g]) = Least(g * size, L) - (g - 1) * size
  <2>0. L \in Nat
    OBVIOUS
  <2>1. C = Chunks(rows, size) /\ C \in Nat
        /\ \A g \in 1 .. C : Len(file[g]) = Least(g * size, L) - (g - 1) * size
    BY CutShape, Zenon
  <2>2. L <= Chunks(rows, size) * size
        /\ \A n \in Nat : n < Chunks(rows, size) => n * size < Len(rows)
    BY <2>0, ChunkCount, Zenon
  <2>3. QED
    BY <2>0, <2>1, <2>2
<1>2. RowsOf(file) = F[C]
  BY DEF RowsOf, CountUpto
<1> HIDE DEF file
<1>3. H = [g \in 0 .. C |-> IF g = 0 THEN 0 ELSE H[g - 1] + Len(file[g])]
  <2>1. ASSUME NEW g \in 0 .. C
        PROVE  H[g] = IF g = 0 THEN 0 ELSE H[g - 1] + Len(file[g])
    <3>1. CASE g = 0
      BY <1>1, <3>1 DEF Least
    <3>2. CASE g # 0
      <4> DEFINE n == g - 1
      <4>1. n \in Nat /\ n < C /\ n \in 0 .. C /\ g \in 1 .. C
        BY <1>1, <3>2
      <4>2. n * size < L /\ n * size \in Nat
        BY <1>1, <4>1
      <4>3. H[n] = n * size
        BY <1>1, <4>1, <4>2 DEF Least
      <4>4. Len(file[g]) = Least(g * size, L) - n * size /\ H[g] = Least(g * size, L)
        BY <1>1, <4>1
      <4>5. Least(g * size, L) \in Nat
        BY <1>1 DEF Least
      <4> HIDE DEF n, H
      <4>6. H[g] = H[n] + Len(file[g])
        BY <4>2, <4>3, <4>4, <4>5
      <4>7. QED
        BY <3>2, <4>6 DEF n
    <3>3. QED
      BY <3>1, <3>2
  <2>2. DOMAIN H = 0 .. C /\ H = [g \in 0 .. C |-> H[g]]
    OBVIOUS
  <2> HIDE DEF H
  <2>3. QED
    BY <2>1, <2>2
<1>4. F = [g \in 0 .. C |-> IF g = 0 THEN 0 ELSE F[g - 1] + Len(file[g])]
  <2>1. \E f : f = [g \in 0 .. C |-> IF g = 0 THEN 0 ELSE f[g - 1] + Len(file[g])]
    BY <1>3
  <2>2. QED
    BY <2>1, Zenon DEF CountUpto
<1> HIDE DEF F
<1> DEFINE Wrong == {g \in 0 .. C : F[g] # H[g]}
<1>5. ASSUME Wrong # {} PROVE FALSE
  <2>1. Wrong \in SUBSET Nat
    BY <1>1
  <2>2. PICK g \in Wrong : \A k \in Wrong : g <= k
    BY <1>5, <2>1, LeastMember
  <2>3. g \in 0 .. C /\ F[g] # H[g]
    OBVIOUS
  <2>4. g # 0
    BY <1>1, <1>3, <1>4, <2>3
  <2>5. g - 1 \in 0 .. C /\ g - 1 \notin Wrong
    BY <1>1, <2>2, <2>3, <2>4
  <2> HIDE DEF H
  <2>6. F[g - 1] = H[g - 1]
    BY <2>5
  <2>7. H[g] = H[g - 1] + Len(file[g]) /\ F[g] = F[g - 1] + Len(file[g])
    BY <1>3, <1>4, <2>3, <2>4
  <2>8. QED
    BY <2>3, <2>6, <2>7
<1>6. F[C] = H[C]
  <2>1. C \in 0 .. C
    BY <1>1
  <2> HIDE DEF H
  <2>2. QED
    BY <1>5, <2>1
<1>7. H[C] = L
  BY <1>1 DEF Least
<1>8. QED
  BY <1>2, <1>6, <1>7 DEF file

(* A layout is told apart by its rows and by its first group. *)
LEMMA SameLayout ==
    ASSUME NEW all \in Seq(Document), NEW x, IsLayout(x, all), NEW y, IsLayout(y, all),
           Fingerprint(x) = Fingerprint(y)
    PROVE  x = y
<1>1. PICK n \in 1 .. Len(all), s \in GroupSizes : x = CutOf(FirstRows(all, n), s)
  BY DEF IsLayout
<1>2. PICK m \in 1 .. Len(all), u \in GroupSizes : y = CutOf(FirstRows(all, m), u)
  BY DEF IsLayout
<1>3. \A k \in 1 .. Len(all) : FirstRows(all, k) \in Seq(Document) /\ Len(FirstRows(all, k)) = k
  BY DEF FirstRows
<1>4. s \in Nat \ {0} /\ u \in Nat \ {0} /\ n \in Nat \ {0} /\ m \in Nat \ {0}
  BY RowLocatorAssumption
<1>5. n = m
  <2>1. RowsOf(x) = n /\ RowsOf(y) = m
    BY <1>1, <1>2, <1>3, <1>4, CutRows
  <2>2. QED
    BY <2>1 DEF Fingerprint
<1>6. CASE s = u
  BY <1>1, <1>2, <1>5, <1>6
<1> DEFINE rows == FirstRows(all, n)
<1>7. rows \in Seq(Document) /\ Len(rows) = n
  BY <1>3
<1> HIDE DEF rows
<1>8. ASSUME NEW size \in Nat \ {0}
      PROVE  /\ Len(CutOf(rows, size)[1]) = Least(size, n)
             /\ size >= n => CutOf(rows, size) = [g \in 1 .. 1 |-> SubSeq(rows, 1, n)]
  <2>1. /\ Chunks(rows, size) \in Nat
        /\ \A k \in Nat : k < Chunks(rows, size) <=> k * size < n
    <3>1. Len(rows) \in Nat
      BY <1>4, <1>7
    <3>2. /\ Chunks(rows, size) \in Nat
          /\ \A k \in Nat : k < Chunks(rows, size) <=> k * size < Len(rows)
      BY <3>1, ChunkCount, Zenon
    <3>3. QED
      BY <1>7, <3>2, Zenon
  <2>2. 0 < Chunks(rows, size)
    BY <1>4, <2>1
  <2>3. Len(CutOf(rows, size)) = Chunks(rows, size)
        /\ \A g \in 1 .. Len(CutOf(rows, size)) :
             Len(CutOf(rows, size)[g]) = Least(g * size, Len(rows)) - (g - 1) * size
    BY <1>7, CutShape, Zenon
  <2>4. Len(CutOf(rows, size)[1]) = Least(1 * size, Len(rows)) - (1 - 1) * size
    BY <2>1, <2>2, <2>3
  <2>5. Least(1 * size, Len(rows)) - (1 - 1) * size = Least(size, n)
    BY <1>4, <1>7 DEF Least
  <2>6. ASSUME size >= n PROVE CutOf(rows, size) = [g \in 1 .. 1 |-> SubSeq(rows, 1, n)]
    <3>1. ~ (1 * size < n)
      BY <1>4, <2>6
    <3>2. Chunks(rows, size) = 1
      BY <2>1, <2>2, <3>1
    <3>3. Chunk(rows, size, 0) = SubSeq(rows, 1, n)
      <4>1. 0 * size + 1 = 1 /\ Least((0 + 1) * size, Len(rows)) = n
        BY <1>4, <1>7, <2>6 DEF Least
      <4>2. QED
        BY <4>1 DEF Chunk
    <3>4. \A g \in 1 .. 1 : g - 1 = 0
      OBVIOUS
    <3>5. QED
      BY <3>2, <3>3, <3>4 DEF CutOf
  <2>7. QED
    BY <2>4, <2>5, <2>6
<1>9. CASE s # u
  <2>1. x = CutOf(rows, s) /\ y = CutOf(rows, u)
    BY <1>1, <1>2, <1>5 DEF rows
  <2>2. Len(x[1]) = Least(s, n) /\ Len(y[1]) = Least(u, n)
    BY <1>4, <1>8, <2>1
  <2>3. Least(s, n) = Least(u, n)
    BY <2>2 DEF Fingerprint
  <2>4. s >= n /\ u >= n
    BY <1>4, <1>9, <2>3 DEF Least
  <2>5. QED
    BY <1>4, <1>8, <2>1, <2>4
<1>10. QED
  BY <1>6, <1>9

(* Rows that are added leave a layout a layout. *)
LEMMA LayoutStays ==
    ASSUME NEW all \in Seq(Document), NEW file, IsLayout(file, all), NEW d \in Document
    PROVE  IsLayout(file, Append(all, d))
<1> DEFINE more == Append(all, d)
<1>1. PICK n \in 1 .. Len(all), s \in GroupSizes : file = CutOf(FirstRows(all, n), s)
  BY DEF IsLayout
<1>2. more \in Seq(Document) /\ Len(more) = Len(all) + 1 /\ \A i \in 1 .. Len(all) : more[i] = all[i]
  OBVIOUS
<1> HIDE DEF more
<1>3. SubSeq(all, 1, n) = SubSeq(more, 1, n)
  <2>1. SubSeq(all, 1, n) = [i \in 1 .. n |-> all[i]]
    OBVIOUS
  <2>2. SubSeq(more, 1, n) = [i \in 1 .. n |-> more[i]]
    BY <1>2
  <2>3. \A i \in 1 .. n : more[i] = all[i]
    BY <1>2
  <2>4. QED
    BY <2>1, <2>2, <2>3
<1>4. n \in 1 .. Len(more)
  BY <1>2
<1>5. file = CutOf(FirstRows(more, n), s)
  BY <1>1, <1>3 DEF FirstRows
<1>6. QED
  BY <1>4, <1>5 DEF IsLayout, more

-----------------------------------------------------------------------------
(* The map of the locator. *)

(* The map has the documents of the groups it is done with, each at a row it is in. *)
Indexed(file, done, place) ==
    /\ done \subseteq DOMAIN file
    /\ \A d \in DOMAIN place :
        /\ place[d][1] \in done /\ place[d][2] \in DOMAIN file[place[d][1]]
        /\ file[place[d][1]][place[d][2]] = d
    /\ \A g \in done : \A i \in DOMAIN file[g] : file[g][i] \in DOMAIN place

(* A map without a stamp is empty; one with a stamp is about the layout it names. *)
MapOf(m, rows) ==
    /\ DOMAIN m = {"exists", "stamp", "place", "done"}
    /\ m.stamp = <<>> => m.done = {} /\ DOMAIN m.place = {}
    /\ m.stamp # <<>> =>
        /\ m.exists
        /\ \E file : IsLayout(file, rows) /\ m.stamp = Fingerprint(file)
                     /\ Indexed(file, m.done, m.place)

(* What the script's run is about. *)
WorkOf(w, m, file) ==
    /\ DOMAIN w = {"at", "size", "done"}
    /\ w.at \in {"copied", "created", "open"} => file # NoFile
    /\ w.at \in {"created", "open"} => m.exists
    /\ w.at = "open" => m.stamp = Fingerprint(file) /\ w.done = m.done

Honest(r) ==
    r.open =>
        \A d \in Document :
            Fetch(r.file, r.place, d) = IF d \in DocumentsOf(r.file) THEN d ELSE Absent

LocatorInv ==
    /\ corpus \in Seq(Document) /\ corpus # <<>>
    /\ copy = NoFile \/ IsLayout(copy, corpus)
    /\ MapOf(map, corpus)
    /\ WorkOf(work, map, copy)
    /\ DOMAIN reader = Reader
    /\ \A r \in Reader : Honest(reader[r])

LEMMA LayoutShape ==
    ASSUME NEW all \in Seq(Document), NEW file, IsLayout(file, all)
    PROVE  /\ file \in Seq(Seq(Document)) /\ Len(file) \in Nat \ {0} /\ DOMAIN file = 1 .. Len(file)
           /\ \A g \in DOMAIN file : file[g] \in Seq(Document)
           /\ file # NoFile /\ Fingerprint(file) # <<>>
<1>1. PICK n \in 1 .. Len(all), s \in GroupSizes : file = CutOf(FirstRows(all, n), s)
  BY DEF IsLayout
<1>2. FirstRows(all, n) \in Seq(Document) /\ Len(FirstRows(all, n)) = n /\ s \in Nat \ {0} /\ n \in Nat \ {0}
  BY RowLocatorAssumption DEF FirstRows
<1> DEFINE rows == FirstRows(all, n)
<1> HIDE DEF rows
<1>3. rows \in Seq(Document) /\ Len(rows) \in Nat /\ file = CutOf(rows, s)
  BY <1>1, <1>2 DEF rows
<1>4. file \in Seq(Seq(Document)) /\ Len(file) = Chunks(rows, s) /\ Len(file) \in Nat
  BY <1>2, <1>3, CutShape, Zenon
<1>5. 0 < Chunks(rows, s) <=> 0 * s < Len(rows)
  <2>1. \A k \in Nat : k < Chunks(rows, s) <=> k * s < Len(rows)
    BY <1>2, <1>3, ChunkCount, Zenon
  <2>2. QED
    BY <2>1
<1>6. Len(file) # 0
  BY <1>2, <1>4, <1>5 DEF rows
<1>7. Fingerprint(file) # <<>>
  BY DEF Fingerprint
<1>8. QED
  BY <1>4, <1>6, <1>7 DEF NoFile

LEMMA LocatorInitially == Init => LocatorInv
<1> SUFFICES ASSUME Init PROVE LocatorInv
  OBVIOUS
<1>1. corpus \in Seq(Document) /\ corpus # <<>> /\ copy = NoFile /\ map = NoMap /\ work = NoWork
      /\ reader = [r \in Reader |-> Closed]
  BY PipelineAssumption DEF Init
<1>2. MapOf(map, corpus)
  BY <1>1 DEF MapOf, NoMap
<1>3. \A r \in Reader : Honest(reader[r])
  BY <1>1 DEF Honest, Closed
<1>4. WorkOf(work, map, copy) /\ DOMAIN reader = Reader
  BY <1>1 DEF WorkOf, NoWork
<1>5. QED
  BY <1>1, <1>2, <1>3, <1>4 DEF LocatorInv

(* The copy that is made is one of the layouts. *)
LEMMA CopyIsLayout ==
    ASSUME NEW all \in Seq(Document), all # <<>>, NEW size \in GroupSizes
    PROVE  IsLayout(CutOf(all, size), all)
<1>1. Len(all) \in 1 .. Len(all)
  BY EmptySeq
<1>2. FirstRows(all, Len(all)) = all
  <2>1. SubSeq(all, 1, Len(all)) = [i \in 1 .. Len(all) |-> all[i]]
    OBVIOUS
  <2>2. QED
    BY <2>1 DEF FirstRows
<1>3. QED
  BY <1>1, <1>2 DEF IsLayout

(* The corpus stays, or grows. *)
LEMMA LocatorFrame ==
    ASSUME LocatorInv, UNCHANGED locator, UNCHANGED corpus \/ \E d \in Document : Grow(d)
    PROVE  LocatorInv'
<1>1. UNCHANGED <<copy, map, work, reader>>
  BY DEF locator
<1>2. CASE UNCHANGED corpus
  BY <1>1, <1>2 DEF LocatorInv
<1>3. ASSUME NEW d \in Document, corpus' = Append(corpus, d) PROVE LocatorInv'
  <2>1. corpus' \in Seq(Document) /\ corpus' # <<>>
    BY <1>3 DEF LocatorInv
  <2>2. \A file : IsLayout(file, corpus) => IsLayout(file, corpus')
    BY <1>3, LayoutStays DEF LocatorInv
  <2>3. MapOf(map, corpus')
    BY <2>2 DEF LocatorInv, MapOf
  <2>4. QED
    BY <1>1, <2>1, <2>2, <2>3 DEF LocatorInv
<1>4. QED
  BY <1>2, <1>3 DEF Grow

(* A map that belongs to the copy has the documents of the copy's groups. *)
LEMMA MapOfCopy ==
    ASSUME corpus \in Seq(Document), MapOf(map, corpus), IsLayout(copy, corpus), Belongs(copy)
    PROVE  Indexed(copy, map.done, map.place)
<1>1. CASE map.stamp = <<>>
  BY <1>1 DEF MapOf, Indexed
<1>2. CASE map.stamp # <<>>
  <2>1. PICK file : IsLayout(file, corpus) /\ map.stamp = Fingerprint(file)
                    /\ Indexed(file, map.done, map.place)
    BY <1>2 DEF MapOf
  <2>2. Fingerprint(file) = Fingerprint(copy)
    BY <1>2, <2>1 DEF Belongs
  <2>3. file = copy
    BY <2>1, <2>2, SameLayout
  <2>4. QED
    BY <2>1, <2>3
<1>3. QED
  BY <1>1, <1>2

(* The map with the stamp of the copy it belongs to. *)
LEMMA StampedMap ==
    ASSUME corpus \in Seq(Document), MapOf(map, corpus), IsLayout(copy, corpus), Belongs(copy),
           map.exists
    PROVE  MapOf(Stamped(copy), corpus) /\ Stamped(copy).stamp = Fingerprint(copy)
           /\ Stamped(copy).done = map.done /\ Stamped(copy).place = map.place
           /\ Stamped(copy).exists
<1>1. Indexed(copy, map.done, map.place)
  BY MapOfCopy
<1> DEFINE new == Stamped(copy)
<1>2. /\ DOMAIN new = {"exists", "stamp", "place", "done"} /\ new.stamp = Fingerprint(copy)
      /\ new.done = map.done /\ new.place = map.place /\ new.exists
  BY DEF Stamped, MapOf
<1>3. new.stamp # <<>>
  BY <1>2, LayoutShape
<1> HIDE DEF new
<1>4. MapOf(new, corpus)
  BY <1>1, <1>2, <1>3 DEF MapOf
<1>5. QED
  BY <1>2, <1>4 DEF new

(* What a complete map answers. *)
LEMMA CompleteIsHonest ==
    ASSUME NEW file \in Seq(Seq(Document)), NEW done, NEW place, Indexed(file, done, place),
           Cardinality(done) >= Len(file), NEW d \in Document
    PROVE  Fetch(file, place, d) = IF d \in DocumentsOf(file) THEN d ELSE Absent
<1>1. Len(file) \in Nat /\ DOMAIN file = 1 .. Len(file)
  OBVIOUS
<1>2. done = DOMAIN file
  <2>1. IsFiniteSet(1 .. Len(file)) /\ Cardinality(1 .. Len(file)) = Len(file)
    BY <1>1, FS_Interval
  <2>2. done \subseteq 1 .. Len(file)
    BY <1>1 DEF Indexed
  <2>3. IsFiniteSet(done) /\ Cardinality(done) <= Len(file)
        /\ (Cardinality(done) = Len(file) => done = 1 .. Len(file))
    BY <2>1, <2>2, FS_Subset
  <2>4. Cardinality(done) \in Nat
    BY <2>3, FS_CardinalityType
  <2>5. QED
    BY <1>1, <2>3, <2>4
<1>3. CASE d \in DOMAIN place
  <2> DEFINE g == place[d][1]
             i == place[d][2]
  <2>1. g \in DOMAIN file /\ i \in DOMAIN file[g] /\ file[g][i] = d
    BY <1>2, <1>3 DEF Indexed
  <2>2. file[g] \in Seq(Document)
    BY <2>1
  <2>3. i <= Len(file[g])
    BY <2>1, <2>2
  <2>4. d \in DocumentsOf(file)
    BY <2>1 DEF DocumentsOf
  <2>5. QED
    BY <1>3, <2>1, <2>3, <2>4 DEF Fetch
<1>4. CASE d \notin DOMAIN place
  <2>1. d \notin DocumentsOf(file)
    BY <1>2, <1>4 DEF Indexed, DocumentsOf
  <2>2. QED
    BY <1>4, <2>1 DEF Fetch
<1>5. QED
  BY <1>3, <1>4

LEMMA OpenReaderStep ==
    ASSUME LocatorInv, NEW r \in Reader, OpenReader(r)
    PROVE  LocatorInv'
<1>1. IsLayout(copy, corpus) /\ map.exists /\ Belongs(copy) /\ map' = Stamped(copy)
      /\ UNCHANGED <<corpus, copy, work>> /\ corpus \in Seq(Document) /\ MapOf(map, corpus)
  BY DEF OpenReader, LocatorInv
<1>2. MapOf(map', corpus) /\ map'.stamp = Fingerprint(copy) /\ map'.done = map.done /\ map'.exists
  BY <1>1, StampedMap
<1>3. WorkOf(work, map', copy)
  BY <1>2 DEF LocatorInv, WorkOf
<1>4. DOMAIN reader' = Reader /\ \A q \in Reader : Honest(reader'[q])
  <2>1. CASE Complete
    <3>1. reader' = [reader EXCEPT ![r] = [open |-> TRUE, file |-> copy, place |-> map.place]]
      BY <2>1 DEF OpenReader
    <3>2. Indexed(copy, map.done, map.place) /\ copy \in Seq(Seq(Document))
      BY <1>1, MapOfCopy, LayoutShape
    <3>3. \A d \in Document :
            Fetch(copy, map.place, d) = IF d \in DocumentsOf(copy) THEN d ELSE Absent
      BY <2>1, <3>2, CompleteIsHonest DEF Complete
    <3>4. Honest([open |-> TRUE, file |-> copy, place |-> map.place])
      BY <3>3 DEF Honest
    <3>5. QED
      BY <3>1, <3>4 DEF LocatorInv
  <2>2. CASE ~ Complete
    BY <2>2 DEF OpenReader, LocatorInv
  <2>3. QED
    BY <2>1, <2>2
<1>5. QED
  BY <1>1, <1>2, <1>3, <1>4 DEF LocatorInv

LEMMA IndexRowGroupStep ==
    ASSUME LocatorInv, IndexRowGroup
    PROVE  LocatorInv'
<1>1. /\ corpus \in Seq(Document) /\ IsLayout(copy, corpus) /\ MapOf(map, corpus)
      /\ work.at = "open" /\ map.stamp = Fingerprint(copy) /\ work.done = map.done /\ map.exists
      /\ DOMAIN work = {"at", "size", "done"}
      /\ UNCHANGED <<corpus, copy, reader>>
  BY DEF LocatorInv, WorkOf, IndexRowGroup
<1>2. Indexed(copy, map.done, map.place)
  BY <1>1, MapOfCopy DEF Belongs
<1>3. copy \in Seq(Seq(Document)) /\ DOMAIN copy \in SUBSET Nat /\ Fingerprint(copy) # <<>>
  BY <1>1, LayoutShape
<1> DEFINE g == CHOOSE h \in ToIndex : \A k \in ToIndex : h <= k
           here == {copy[g][i] : i \in DOMAIN copy[g]}
           fresh == here \ DOMAIN map.place
           First(d) == CHOOSE i \in DOMAIN copy[g] :
                            copy[g][i] = d /\ \A j \in 1 .. i - 1 : copy[g][j] # d
           place == [d \in DOMAIN map.place \cup fresh |->
                        IF d \in fresh THEN <<g, First(d)>> ELSE map.place[d]]
<1>4. map' = [map EXCEPT !.done = @ \cup {g}, !.place = place]
      /\ work' = [work EXCEPT !.done = @ \cup {g}]
  BY DEF IndexRowGroup
<1>5. g \in DOMAIN copy
  <2>1. ToIndex # {} /\ ToIndex \in SUBSET Nat
    BY <1>3 DEF IndexRowGroup, ToIndex
  <2>2. \E h \in ToIndex : \A k \in ToIndex : h <= k
    BY <2>1, LeastMember
  <2>3. g \in ToIndex
    BY <2>2
  <2>4. QED
    BY <2>3 DEF ToIndex
<1> HIDE DEF g
<1>6. ASSUME NEW d \in here PROVE First(d) \in DOMAIN copy[g] /\ copy[g][First(d)] = d
  <2> DEFINE S == {i \in DOMAIN copy[g] : copy[g][i] = d}
  <2>1. copy[g] \in Seq(Document)
    BY <1>3, <1>5
  <2>2. DOMAIN copy[g] = 1 .. Len(copy[g]) /\ Len(copy[g]) \in Nat
    BY <2>1
  <2>3. S \in SUBSET Nat /\ S # {}
    BY <2>2
  <2>4. PICK i \in S : \A j \in S : i <= j
    BY <2>3, LeastMember
  <2>5. i \in DOMAIN copy[g] /\ copy[g][i] = d
    BY <2>4
  <2>6. \A j \in 1 .. i - 1 : copy[g][j] # d
    BY <2>2, <2>4
  <2>7. QED
    BY <2>5, <2>6
<1>7. DOMAIN place = DOMAIN map.place \cup here
      /\ (\A d \in DOMAIN map.place : place[d] = map.place[d])
      /\ \A d \in here \ DOMAIN map.place : place[d][1] = g /\ place[d][2] = First(d)
  <2> HIDE DEF First, here
  <2>1. QED
    OBVIOUS
<1>8. \A i \in DOMAIN copy[g] : copy[g][i] \in here
  OBVIOUS
<1>9. Indexed(copy, map.done \cup {g}, place)
  <2> HIDE DEF First, here, place
  <2>1. /\ \A i \in DOMAIN copy[g] : copy[g][i] \in DOMAIN place
        /\ DOMAIN map.place \subseteq DOMAIN place
        /\ \A d \in DOMAIN map.place : place[d] = map.place[d]
        /\ \A d \in DOMAIN place \ DOMAIN map.place :
                place[d][1] = g /\ place[d][2] \in DOMAIN copy[g] /\ copy[g][place[d][2]] = d
    BY <1>6, <1>7, <1>8
  <2>2. map.done \cup {g} \subseteq DOMAIN copy
    BY <1>2, <1>5 DEF Indexed
  <2>3. \A d \in DOMAIN place :
        /\ place[d][1] \in map.done \cup {g} /\ place[d][2] \in DOMAIN copy[place[d][1]]
        /\ copy[place[d][1]][place[d][2]] = d
    BY <1>2, <2>1 DEF Indexed
  <2>4. \A h \in map.done \cup {g} : \A i \in DOMAIN copy[h] : copy[h][i] \in DOMAIN place
    BY <1>2, <2>1 DEF Indexed
  <2>5. QED
    BY <2>2, <2>3, <2>4 DEF Indexed
<1> HIDE DEF place, here
<1>10. /\ DOMAIN map' = {"exists", "stamp", "place", "done"} /\ map'.stamp = map.stamp
       /\ map'.exists = map.exists /\ map'.done = map.done \cup {g} /\ map'.place = place
  BY <1>1, <1>4 DEF MapOf
<1>11. MapOf(map', corpus)
  BY <1>1, <1>3, <1>9, <1>10 DEF MapOf
<1>12. WorkOf(work', map', copy)
  BY <1>1, <1>4, <1>10 DEF LocatorInv, WorkOf
<1>13. QED
  BY <1>1, <1>11, <1>12 DEF LocatorInv

(* The other steps of the script, and what its operator does. *)
LEMMA ScriptStep ==
    ASSUME LocatorInv,
           \/ \E size \in GroupSizes : Repartition(size) \/ KeepCopy(size)
           \/ CreateMap \/ OpenMap \/ FinishMap \/ DeleteCopy \/ DeleteMap
           \/ work' = NoWork /\ UNCHANGED <<corpus, copy, map, reader>>
    PROVE  LocatorInv'
<1>1. UNCHANGED <<corpus, reader>>
  BY DEF Repartition, KeepCopy, CreateMap, OpenMap, FinishMap, DeleteCopy, DeleteMap
<1>2. corpus \in Seq(Document) /\ corpus # <<>> /\ (copy = NoFile \/ IsLayout(copy, corpus))
      /\ MapOf(map, corpus) /\ WorkOf(work, map, copy)
  BY DEF LocatorInv
<1>3. NoWork.at = "off" /\ DOMAIN NoWork = {"at", "size", "done"}
  BY DEF NoWork
<1>4. (copy' = NoFile \/ IsLayout(copy', corpus)) /\ MapOf(map', corpus) /\ WorkOf(work', map', copy')
  <2>1. ASSUME NEW size \in GroupSizes, Repartition(size)
        PROVE  IsLayout(copy', corpus) /\ MapOf(map', corpus) /\ WorkOf(work', map', copy')
    <3>1. copy' = CutOf(corpus, size)
      BY <2>1 DEF Repartition, CutOf
    <3>2. IsLayout(copy', corpus)
      BY <1>2, <3>1, CopyIsLayout
    <3>3. copy' # NoFile
      BY <1>2, <3>2, LayoutShape
    <3>4. QED
      BY <1>2, <1>3, <2>1, <3>2, <3>3 DEF Repartition, WorkOf
  <2>2. ASSUME NEW size \in GroupSizes, KeepCopy(size)
        PROVE  UNCHANGED <<copy, map>> /\ WorkOf(work', map', copy')
    BY <1>3, <2>2 DEF KeepCopy, WorkOf
  <2>3. CASE CreateMap
    <3>1. UNCHANGED copy /\ copy # NoFile /\ map' = [map EXCEPT !.exists = TRUE]
          /\ work' = [work EXCEPT !.at = "created"]
      BY <1>2, <2>3 DEF CreateMap, WorkOf
    <3>2. MapOf(map', corpus) /\ map'.exists
      BY <1>2, <3>1 DEF MapOf
    <3>3. WorkOf(work', map', copy')
      BY <1>2, <3>1, <3>2 DEF WorkOf
    <3>4. QED
      BY <1>2, <3>1, <3>2, <3>3
  <2>4. CASE OpenMap /\ Belongs(copy)
    <3>1. UNCHANGED copy /\ copy # NoFile /\ map.exists /\ map' = Stamped(copy)
          /\ work' = [work EXCEPT !.at = "open", !.done = map.done]
      BY <1>2, <2>4 DEF OpenMap, WorkOf
    <3>2. MapOf(map', corpus) /\ map'.stamp = Fingerprint(copy) /\ map'.done = map.done /\ map'.exists
      BY <1>2, <2>4, <3>1, StampedMap
    <3>3. WorkOf(work', map', copy')
      BY <1>2, <3>1, <3>2 DEF WorkOf
    <3>4. QED
      BY <1>2, <3>1, <3>2, <3>3
  <2>5. CASE OpenMap /\ ~ Belongs(copy)
    BY <1>2, <1>3, <2>5 DEF OpenMap, WorkOf
  <2>6. CASE FinishMap
    <3>1. work' = [NoWork EXCEPT !.at = "built"] /\ UNCHANGED <<copy, map>>
      BY <2>6 DEF FinishMap
    <3>2. work'.at = "built" /\ DOMAIN work' = {"at", "size", "done"}
      BY <1>3, <3>1
    <3>3. QED
      BY <1>2, <3>1, <3>2 DEF WorkOf
  <2>7. CASE DeleteCopy
    BY <1>2, <1>3, <2>7 DEF DeleteCopy, WorkOf
  <2>8. CASE DeleteMap
    <3>1. MapOf(NoMap, corpus)
      BY DEF MapOf, NoMap
    <3>2. QED
      BY <1>2, <1>3, <2>8, <3>1 DEF DeleteMap, WorkOf
  <2>9. CASE work' = NoWork /\ UNCHANGED <<corpus, copy, map, reader>>
    BY <1>2, <1>3, <2>9 DEF WorkOf
  <2>10. QED
    BY <1>2, <2>1, <2>2, <2>3, <2>4, <2>5, <2>6, <2>7, <2>8, <2>9
<1>5. QED
  BY <1>1, <1>2, <1>4 DEF LocatorInv

LEMMA LocatorInvStep ==
    ASSUME LocatorInv, [Next]_vars
    PROVE  LocatorInv'
<1>1. CASE LocatorStep
  <2>1. CASE IndexRowGroup
    BY <2>1, IndexRowGroupStep
  <2>2. CASE \E r \in Reader : OpenReader(r)
    BY <2>2, OpenReaderStep
  <2>3. ASSUME NEW r \in Reader, CloseReader(r) PROVE LocatorInv'
    <3>1. Honest(Closed)
      BY DEF Honest, Closed
    <3>2. QED
      BY <2>3, <3>1 DEF CloseReader, LocatorInv
  <2>4. QED
    BY <1>1, <2>1, <2>2, <2>3, ScriptStep DEF LocatorStep
<1>2. CASE TextStep \/ ExtractStep \/ CorpusGrows \/ UNCHANGED vars
  <2>1. UNCHANGED locator
    BY <1>2 DEF TextStep, Start, Advance, ExtractStep, CorpusGrows, vars
  <2>2. UNCHANGED corpus \/ \E d \in Document : Grow(d)
    BY <1>2 DEF TextStep, Start, Advance, ExtractStep, CorpusGrows, vars, ReadCorpus, ReadRun,
       Indexing, RegisterCorpus, OpenIndex, SkipBatch, WriteBatch, RefuseBatch, FinishIndex,
       Submit, Extracting, EndBatch, PollTimesOut, Poll, Collect, RegisterClaims, SkipJob,
       WriteJob, MarkJob, FinishExtract
  <2>3. QED
    BY <2>1, <2>2, LocatorFrame
<1>3. QED
  BY <1>1, <1>2 DEF Next

(***************************************************************************)
(* A lookup answers the document asked for, or that it is absent.          *)
(***************************************************************************)
THEOREM FetchHonestTheorem == Spec => []FetchHonest
<1>1. LocatorInv => FetchHonest
  BY DEF LocatorInv, FetchHonest, Honest
<1>2. QED
  BY <1>1, LocatorInitially, LocatorInvStep, PTL DEF Spec

-----------------------------------------------------------------------------
(* What the completion records say of the builds. *)

(* A build has come over batches that are recorded as it has them. *)
BuildInv(b, records) ==
    /\ b.n <= Chunks(b.source, CommitEvery)
    /\ b.at \notin {"open", "built"} => b.n = 0
    /\ \A k \in 0 .. b.n - 1 :
        k \in DOMAIN records /\ records[k] = Record(Chunk(b.source, CommitEvery, k))
    /\ b.at = "open" =>
        \A k \in DOMAIN b.recorded : k \in DOMAIN records /\ records[k] = b.recorded[k]
    /\ b.at = "built" => b.n = Chunks(b.source, CommitEvery)

RecordInv ==
    /\ \E c \in Nat : DOMAIN batches = 0 .. c - 1
    /\ \A n \in DOMAIN batches : batches[n] \in (1 .. CommitEvery) \X Id \X Id
    /\ \A p \in Process : BuildInv(build[p], batches)

LEMMA NoBuildIsFine ==
    ASSUME NEW records, NEW b, b.n = 0, b.at \notin {"open", "built"}, b.source \in Seq(Document)
    PROVE  BuildInv(b, records)
<1>1. Chunks(b.source, CommitEvery) \in Nat
  <2>1. Len(b.source) \in Nat
    OBVIOUS
  <2>2. QED
    BY <2>1, ChunkCount, TextIndexAssumption
<1>2. QED
  BY <1>1 DEF BuildInv

LEMMA RecordsInitially == Init => RecordInv
<1> SUFFICES ASSUME Init PROVE RecordInv
  OBVIOUS
<1>1. batches = <<>> /\ DOMAIN batches = 0 .. 0 - 1
  BY DEF Init
<1>2. ASSUME NEW p \in Process PROVE BuildInv(build[p], batches)
  <2>1. build[p].n = 0 /\ build[p].at = "off" /\ build[p].source = <<>>
    BY DEF Init, NoBuild
  <2>2. build[p].source \in Seq(Document)
    BY <2>1
  <2>3. QED
    BY <2>1, <2>2, NoBuildIsFine
<1>3. \E c \in Nat : DOMAIN batches = 0 .. c - 1
  BY <1>1
<1>4. \A n \in DOMAIN batches : batches[n] \in (1 .. CommitEvery) \X Id \X Id
  BY <1>1
<1>5. QED
  BY <1>2, <1>3, <1>4 DEF RecordInv

(* Records that stay leave the other builds as they are. *)
LEMMA RecordFrame ==
    ASSUME RecordInv, NEW p \in Process, NEW b, build' = [build EXCEPT ![p] = b],
           DOMAIN build = Process, UNCHANGED batches, BuildInv(b, batches)
    PROVE  RecordInv'
<1>1. \A q \in Process : BuildInv(build'[q], batches)
  BY DEF RecordInv
<1>2. QED
  BY <1>1 DEF RecordInv

(* A batch that is written is recorded as the build has it. *)
LEMMA WriteBatchRecords ==
    ASSUME SourceInv, RecordInv, NEW p \in Process, WriteBatch(p)
    PROVE  RecordInv'
<1> DEFINE b == build[p]
           n == b.n
           rows == Chunk(b.source, CommitEvery, n)
           next == [b EXCEPT !.n = @ + 1]
<1>1. /\ b.at = "open" /\ n < Chunks(b.source, CommitEvery) /\ n \notin DOMAIN batches
      /\ batches' = [k \in DOMAIN batches \cup {n} |-> IF k = n THEN Record(rows) ELSE batches[k]]
      /\ build' = [build EXCEPT ![p] = next]
  BY DEF WriteBatch, AtBatch, Here, Taken, Batch
<1>2. /\ n \in Nat /\ b.source \in Seq(Document) /\ DOMAIN build = Process
      /\ DOMAIN b = {"at", "source", "recorded", "n"}
      /\ BuildInv(b, batches) /\ CommitEvery \in Nat \ {0}
      /\ Chunks(b.source, CommitEvery) \in Nat
  <2>1. /\ n \in Nat /\ b.source \in Seq(Document) /\ DOMAIN build = Process
        /\ DOMAIN b = {"at", "source", "recorded", "n"}
        /\ BuildInv(b, batches) /\ CommitEvery \in Nat \ {0}
    BY TextIndexAssumption DEF SourceInv, RecordInv
  <2> HIDE DEF b
  <2>2. Len(b.source) \in Nat
    BY <2>1
  <2>3. Chunks(b.source, CommitEvery) \in Nat
    BY <2>1, <2>2, ChunkCount
  <2>4. QED
    BY <2>1, <2>3
<1>3. PICK c \in Nat : DOMAIN batches = 0 .. c - 1
  BY DEF RecordInv
<1>4. n = c
  <2>1. n > 0 => n - 1 \in 0 .. c - 1
    BY <1>2, <1>3 DEF BuildInv
  <2>2. QED
    BY <1>1, <1>2, <1>3, <2>1
<1>5. Record(rows) \in (1 .. CommitEvery) \X Id \X Id
  <2>1. rows \in Seq(Document) /\ Len(rows) \in 1 .. CommitEvery
    BY <1>1, <1>2, ChunkShape
  <2>2. rows[1] \in Document /\ rows[Len(rows)] \in Document
    BY <2>1
  <2>3. Rowid(rows[1]) \in Id /\ Rowid(rows[Len(rows)]) \in Id
    BY <2>2, TextIndexAssumption, RegistryAssumption DEF Rowid
  <2>4. QED
    BY <2>1, <2>3 DEF Record
<1>6. next.n = n + 1 /\ next.at = "open" /\ next.source = b.source /\ next.recorded = b.recorded
  BY <1>1, <1>2
<1>7. \A k \in DOMAIN batches : k \in DOMAIN batches' /\ batches'[k] = batches[k]
  BY <1>1
<1>8. n \in DOMAIN batches' /\ batches'[n] = Record(rows)
  BY <1>1
<1>9. DOMAIN batches' = 0 .. (c + 1) - 1
  BY <1>1, <1>3, <1>4
<1> HIDE DEF next
<1>10. BuildInv(next, batches')
  <2>1. next.n <= Chunks(b.source, CommitEvery)
    BY <1>1, <1>2, <1>6
  <2>2. ASSUME NEW k \in 0 .. n
        PROVE  k \in DOMAIN batches' /\ batches'[k] = Record(Chunk(b.source, CommitEvery, k))
    <3>1. CASE k = n
      BY <1>8, <3>1
    <3>2. CASE k # n
      <4>1. k \in 0 .. n - 1
        BY <1>2, <3>2
      <4>2. QED
        BY <1>2, <1>7, <4>1 DEF BuildInv
    <3>3. QED
      BY <3>1, <3>2
  <2>3. \A k \in DOMAIN b.recorded : k \in DOMAIN batches' /\ batches'[k] = b.recorded[k]
    BY <1>1, <1>2, <1>7 DEF BuildInv
  <2>4. 0 .. next.n - 1 = 0 .. n
    BY <1>2, <1>6
  <2>5. QED
    BY <1>6, <2>1, <2>2, <2>3, <2>4 DEF BuildInv
<1>11. ASSUME NEW q \in Process PROVE BuildInv(build'[q], batches')
  <2>1. CASE q = p
    BY <1>1, <1>2, <1>10, <2>1
  <2>2. CASE q # p
    <3>1. build'[q] = build[q] /\ BuildInv(build[q], batches)
      BY <1>1, <1>2, <2>2 DEF RecordInv
    <3>2. QED
      BY <1>7, <3>1 DEF BuildInv
  <2>3. QED
    BY <2>1, <2>2
<1>12. \A k \in DOMAIN batches' : batches'[k] \in (1 .. CommitEvery) \X Id \X Id
  <2>1. \A k \in DOMAIN batches' : k = n \/ k \in DOMAIN batches
    BY <1>1
  <2>2. QED
    BY <1>5, <1>7, <1>8, <2>1 DEF RecordInv
<1>13. \E m \in Nat : DOMAIN batches' = 0 .. m - 1
  BY <1>3, <1>9
<1>14. QED
  BY <1>11, <1>12, <1>13 DEF RecordInv

LEMMA RecordStep ==
    ASSUME SourceInv, RecordInv, [Next]_vars
    PROVE  RecordInv'
<1>0. DOMAIN build = Process /\ \A p \in Process :
        /\ build[p].n \in Nat /\ build[p].source \in Seq(Document) /\ BuildInv(build[p], batches)
        /\ DOMAIN build[p] = {"at", "source", "recorded", "n"}
  BY DEF SourceInv, RecordInv
<1>1. DOMAIN NoBuild = {"at", "source", "recorded", "n"} /\ NoBuild.at = "off"
      /\ NoBuild.source = <<>> /\ NoBuild.n = 0
  BY DEF NoBuild
<1>2. BuildInv(NoBuild, batches)
  <2>1. NoBuild.source \in Seq(Document)
    BY <1>1
  <2>2. QED
    BY <1>1, <2>1, NoBuildIsFine
<1>3. ASSUME NEW p \in Process, build' = [build EXCEPT ![p] = NoBuild], UNCHANGED batches
      PROVE  RecordInv'
  BY <1>0, <1>2, <1>3, RecordFrame
<1>4. ASSUME NEW p \in Process, ReadCorpus(p) PROVE RecordInv'
  <2>1. PICK limit \in 1 .. Len(corpus) :
          build' = [build EXCEPT ![p] = [NoBuild EXCEPT !.at = "read", !.source = SubSeq(corpus, 1, limit)]]
    BY <1>4 DEF ReadCorpus
  <2> DEFINE b == [NoBuild EXCEPT !.at = "read", !.source = SubSeq(corpus, 1, limit)]
  <2>2. SubSeq(corpus, 1, limit) \in Seq(Document)
    BY <2>1 DEF SourceInv
  <2>3. b.n = 0 /\ b.at = "read" /\ b.source \in Seq(Document)
    BY <1>1, <2>2
  <2> HIDE DEF b
  <2>4. BuildInv(b, batches)
    BY <2>3, NoBuildIsFine
  <2>5. QED
    BY <1>0, <1>4, <2>1, <2>4, RecordFrame DEF b, ReadCorpus, textIndex
<1>5. ASSUME NEW p \in Process, ReadRun(p) PROVE RecordInv'
  <2> DEFINE b == [NoBuild EXCEPT !.at = "registered", !.source = RunDocuments]
  <2>1. build' = [build EXCEPT ![p] = b] /\ UNCHANGED batches
    BY <1>5 DEF ReadRun, textIndex
  <2>2. b.n = 0 /\ b.at = "registered" /\ b.source \in Seq(Document)
    BY <1>1, TextIndexAssumption
  <2> HIDE DEF b
  <2>3. BuildInv(b, batches)
    BY <2>2, NoBuildIsFine
  <2>4. QED
    BY <1>0, <2>1, <2>3, RecordFrame
<1>6. ASSUME NEW p \in Process, RegisterCorpus(p) PROVE RecordInv'
  <2> DEFINE b == [build[p] EXCEPT !.at = "registered"]
  <2>1. UNCHANGED batches /\ (build' = [build EXCEPT ![p] = NoBuild] \/ build' = [build EXCEPT ![p] = b])
    BY <1>6 DEF RegisterCorpus, textIndex
  <2>2. b.n = build[p].n /\ b.at = "registered" /\ b.source = build[p].source /\ build[p].at = "read"
    BY <1>0, <1>6 DEF RegisterCorpus, Here
  <2>3. b.n = 0
    BY <1>0, <2>2 DEF BuildInv
  <2> HIDE DEF b
  <2>4. BuildInv(b, batches)
    BY <1>0, <2>2, <2>3, NoBuildIsFine
  <2>5. QED
    BY <1>0, <1>3, <2>1, <2>4, RecordFrame
<1>7. ASSUME NEW p \in Process, OpenIndex(p) PROVE RecordInv'
  <2> DEFINE b == [build[p] EXCEPT !.at = "open", !.recorded = batches]
  <2>1. UNCHANGED batches /\ build' = [build EXCEPT ![p] = b]
    BY <1>0, <1>7 DEF OpenIndex, textIndex
  <2>2. b.n = build[p].n /\ b.at = "open" /\ b.source = build[p].source /\ b.recorded = batches
        /\ build[p].at = "registered"
    BY <1>0, <1>7 DEF OpenIndex, Here
  <2> HIDE DEF b
  <2>3. BuildInv(b, batches)
    BY <1>0, <2>2 DEF BuildInv
  <2>4. QED
    BY <1>0, <2>1, <2>3, RecordFrame
<1>8. ASSUME NEW p \in Process, SkipBatch(p) PROVE RecordInv'
  <2> DEFINE b == [build[p] EXCEPT !.n = @ + 1]
             n == build[p].n
  <2>1. UNCHANGED batches /\ build' = [build EXCEPT ![p] = b]
    BY <1>0, <1>8 DEF SkipBatch, textIndex
  <2>2. /\ n < Chunks(build[p].source, CommitEvery) /\ build[p].at = "open"
        /\ n \in DOMAIN build[p].recorded
        /\ build[p].recorded[n] = Record(Chunk(build[p].source, CommitEvery, n))
    BY <1>8 DEF SkipBatch, AtBatch, Here, IsRecorded, Replays, Batch
  <2>3. b.n = n + 1 /\ b.at = "open" /\ b.source = build[p].source /\ b.recorded = build[p].recorded
    BY <1>0, <2>2
  <2>4. Chunks(build[p].source, CommitEvery) \in Nat
    BY <1>0, ChunkCount, TextIndexAssumption
  <2> HIDE DEF b
  <2>5. BuildInv(b, batches)
    <3>1. b.n <= Chunks(b.source, CommitEvery)
      BY <1>0, <2>2, <2>3, <2>4
    <3>2. n \in DOMAIN batches /\ batches[n] = Record(Chunk(b.source, CommitEvery, n))
      BY <1>0, <2>2, <2>3 DEF BuildInv
    <3>3. \A k \in 0 .. b.n - 1 : k = n \/ k \in 0 .. n - 1
      BY <1>0, <2>3
    <3>4. \A k \in 0 .. n - 1 :
            k \in DOMAIN batches /\ batches[k] = Record(Chunk(b.source, CommitEvery, k))
      BY <1>0, <2>3 DEF BuildInv
    <3>5. \A k \in DOMAIN b.recorded : k \in DOMAIN batches /\ batches[k] = b.recorded[k]
      BY <1>0, <2>2, <2>3 DEF BuildInv
    <3>6. QED
      BY <2>3, <3>1, <3>2, <3>3, <3>4, <3>5 DEF BuildInv
  <2>6. QED
    BY <1>0, <2>1, <2>5, RecordFrame
<1>9. ASSUME NEW p \in Process, FinishIndex(p) PROVE RecordInv'
  <2> DEFINE b == [build[p] EXCEPT !.at = "built"]
  <2>1. UNCHANGED batches /\ build' = [build EXCEPT ![p] = b]
    BY <1>0, <1>9 DEF FinishIndex, textIndex
  <2>2. b.n = build[p].n /\ b.at = "built" /\ b.source = build[p].source
        /\ b.n = Chunks(b.source, CommitEvery)
    BY <1>0, <1>9 DEF FinishIndex
  <2> HIDE DEF b
  <2>3. BuildInv(b, batches)
    <3>1. b.n <= Chunks(b.source, CommitEvery)
      BY <1>0, <2>2 DEF BuildInv
    <3>2. \A k \in 0 .. b.n - 1 :
            k \in DOMAIN batches /\ batches[k] = Record(Chunk(b.source, CommitEvery, k))
      <4>1. \A k \in 0 .. build[p].n - 1 :
              k \in DOMAIN batches /\ batches[k] = Record(Chunk(build[p].source, CommitEvery, k))
        BY <1>0 DEF BuildInv
      <4>2. b.n = build[p].n /\ b.source = build[p].source
        BY <2>2
      <4>3. QED
        BY <4>1, <4>2, Zenon
    <3>3. b.at = "built"
      BY <2>2
    <3>4. QED
      BY <2>2, <3>1, <3>2, <3>3 DEF BuildInv
  <2>4. QED
    BY <1>0, <2>1, <2>3, RecordFrame
<1>10. ASSUME NEW p \in Process, RefuseBatch(p) PROVE RecordInv'
  BY <1>3, <1>10 DEF RefuseBatch, textIndex
<1>11. CASE TextStep
  BY <1>3, <1>4, <1>5, <1>6, <1>7, <1>8, <1>9, <1>10, <1>11, WriteBatchRecords
     DEF TextStep, Start, Advance, Indexing, textIndex
<1>12. CASE LocatorStep \/ ExtractStep \/ CorpusGrows \/ UNCHANGED vars
  <2>1. UNCHANGED <<batches, build>>
    BY <1>12 DEF LocatorStep, ExtractStep, CorpusGrows, vars, textIndex
  <2>2. QED
    BY <2>1 DEF RecordInv
<1>13. QED
  BY <1>11, <1>12 DEF Next

(* Every id is kept by the name it was minted for. *)
FoldInv == \A i \in Id : ids[i] # NoKey => Fold[ids[i]] = i

LEMMA FoldRegistering ==
    ASSUME FoldInv, NEW batch, RegisterMany(batch)
    PROVE  FoldInv'
<1> SUFFICES ASSUME NEW i \in Id, ids'[i] # NoKey PROVE Fold[ids'[i]] = i
  BY DEF FoldInv
<1>1. ids'[i] = IF ids[i] # NoKey \/ \A k \in batch : Fold[k] # i
                THEN ids[i] ELSE CHOOSE k \in batch : Fold[k] = i
  BY DEF RegisterMany, Inserted
<1>2. CASE ids[i] # NoKey \/ \A k \in batch : Fold[k] # i
  BY <1>1, <1>2 DEF FoldInv
<1>3. CASE ~ (ids[i] # NoKey \/ \A k \in batch : Fold[k] # i)
  BY <1>1, <1>3
<1>4. QED
  BY <1>2, <1>3

LEMMA FoldStep ==
    ASSUME FoldInv, [Next]_vars
    PROVE  FoldInv'
<1>1. ASSUME UNCHANGED ids PROVE FoldInv'
  BY <1>1 DEF FoldInv
<1>2. ASSUME NEW p \in Process, RegisterCorpus(p) PROVE FoldInv'
  BY <1>1, <1>2, FoldRegistering DEF RegisterCorpus
<1>3. CASE RegisterClaims
  BY <1>1, <1>3, FoldRegistering DEF RegisterClaims
<1>4. CASE TextStep
  BY <1>1, <1>2, <1>4 DEF TextStep, Start, ReadCorpus, ReadRun, Advance, Indexing, OpenIndex,
     SkipBatch, WriteBatch, RefuseBatch, FinishIndex
<1>5. CASE ExtractStep
  BY <1>1, <1>3, <1>5 DEF ExtractStep, Submit, Extracting, EndBatch, PollTimesOut, Poll, Collect,
     SkipJob, WriteJob, MarkJob, FinishExtract
<1>6. CASE LocatorStep \/ CorpusGrows \/ UNCHANGED vars
  BY <1>1, <1>6 DEF LocatorStep, CorpusGrows, vars
<1>7. QED
  BY <1>4, <1>5, <1>6 DEF Next

LEMMA FoldInitially == Init => FoldInv
<1> SUFFICES ASSUME Init, NEW i \in Id, ids[i] # NoKey PROVE Fold[ids[i]] = i
  BY DEF FoldInv
<1>1. ids[i] = IF \E k \in RunKeys : Fold[k] = i THEN CHOOSE k \in RunKeys : Fold[k] = i ELSE NoKey
  BY DEF Init
<1>2. QED
  BY <1>1

-----------------------------------------------------------------------------
(***************************************************************************)
(* A build that ends without an error has every row it was given in a      *)
(* recorded batch, whoever wrote it and however often it was killed.       *)
(***************************************************************************)
LEMMA BuiltCovers ==
    ASSUME SourceInv, RecordInv
    PROVE  BuiltIsComplete
<1> SUFFICES ASSUME NEW p \in Process, build[p].at = "built", NEW k \in DOMAIN build[p].source
             PROVE  k \in Covered(build[p].source)
  BY DEF BuiltIsComplete, Here, Covered
<1> DEFINE rows == build[p].source
           j == k - 1
           n == j \div CommitEvery
<1>1. rows \in Seq(Document) /\ Len(rows) \in Nat /\ j \in Nat /\ j < Len(rows)
      /\ CommitEvery \in Nat \ {0}
  BY TextIndexAssumption DEF SourceInv
<1>2. BuildInv(build[p], batches) /\ build[p].n = Chunks(rows, CommitEvery)
  BY DEF RecordInv, BuildInv
<1> HIDE DEF rows, j
<1>3. n \in Nat /\ n * CommitEvery <= j /\ j % CommitEvery \in 0 .. CommitEvery - 1
      /\ j = n * CommitEvery + (j % CommitEvery)
  BY <1>1, DivMod
<1> HIDE DEF n
<1>4. n * CommitEvery \in Nat
  BY <1>1, <1>3
<1>5. n < Chunks(rows, CommitEvery) /\ Chunks(rows, CommitEvery) \in Nat
  <2>1. n * CommitEvery < Len(rows)
    BY <1>1, <1>3, <1>4
  <2>2. /\ Chunks(rows, CommitEvery) \in Nat
        /\ \A m \in Nat : m < Chunks(rows, CommitEvery) <=> m * CommitEvery < Len(rows)
    BY <1>1, ChunkCount, Zenon
  <2>3. QED
    BY <1>3, <2>1, <2>2
<1>6. n \in DOMAIN batches /\ batches[n] = Record(Chunk(rows, CommitEvery, n))
  <2>1. \A m \in 0 .. Chunks(rows, CommitEvery) - 1 :
            m \in DOMAIN batches /\ batches[m] = Record(Chunk(rows, CommitEvery, m))
    BY <1>2, Zenon DEF BuildInv, rows
  <2>2. n \in 0 .. Chunks(rows, CommitEvery) - 1
    BY <1>3, <1>5
  <2>3. QED
    BY <2>1, <2>2
<1>7. batches[n][1] = Least(n * CommitEvery + CommitEvery, Len(rows)) - n * CommitEvery
  <2>1. Len(Chunk(rows, CommitEvery, n)) = Least(n * CommitEvery + CommitEvery, Len(rows)) - n * CommitEvery
    BY <1>1, <1>3, <1>5, ChunkShape, Zenon
  <2>2. batches[n][1] = Len(Chunk(rows, CommitEvery, n))
    BY <1>6 DEF Record
  <2>3. QED
    BY <2>1, <2>2
<1>8. j % CommitEvery < batches[n][1]
  <2> DEFINE m == n * CommitEvery
             r == j % CommitEvery
  <2>1. m \in Nat /\ r \in Nat /\ r < CommitEvery /\ j = m + r
        /\ batches[n][1] = Least(m + CommitEvery, Len(rows)) - m
    BY <1>1, <1>3, <1>4, <1>7
  <2> HIDE DEF m, r
  <2>2. r < batches[n][1]
    BY <1>1, <2>1 DEF Least
  <2>3. QED
    BY <2>2 DEF r
<1>9. n \in DOMAIN batches /\ j % CommitEvery < batches[n][1]
  BY <1>6, <1>8
<1>10. QED
  BY <1>9 DEF Covered, n, j, rows

(* What the types say beside the invariants of the parts. *)
LEMMA TypesFollow ==
    ASSUME Inv, FoldInv, RecordInv, LocatorInv
    PROVE  PipelineTypeOK
<1>1. corpus \in Seq(Document) /\ ids \in [Id -> Key \cup {NoKey}] /\ entered \in [Id -> Nat]
  BY DEF Inv, SourceInv, RegistryInv, IndexInv
<1>2. \A i \in Id : ids[i] # NoKey => Fold[ids[i]] = i
  BY DEF FoldInv
<1>3. DOMAIN batches = 0 .. Cardinality(DOMAIN batches) - 1
  <2>1. PICK c \in Nat : DOMAIN batches = 0 .. c - 1
    BY DEF RecordInv
  <2>2. Cardinality(0 .. c - 1) = c
    <3>1. 0 \in Int /\ c - 1 \in Int
      BY <2>1
    <3>2. Cardinality(0 .. c - 1) = IF 0 > c - 1 THEN 0 ELSE c - 1 - 0 + 1
      BY <3>1, FS_Interval, Zenon
    <3>3. QED
      BY <2>1, <3>2
  <2>3. QED
    BY <2>1, <2>2
<1>4. \A n \in DOMAIN batches : batches[n] \in (1 .. CommitEvery) \X Id \X Id
  BY DEF RecordInv
<1>5. \A p \in Process : build[p].n <= Chunks(build[p].source, CommitEvery)
  BY DEF RecordInv, BuildInv
<1>6. map.done # {} => map.exists /\ map.stamp # <<>>
  BY DEF LocatorInv, MapOf
<1>7. work.at \in {"copied", "created", "open"} => copy # NoFile
  BY DEF LocatorInv, WorkOf
<1>8. \A d \in DOMAIN map.place : d \in Document /\ map.place[d][1] \in map.done
  <2> SUFFICES ASSUME NEW d \in DOMAIN map.place PROVE d \in Document /\ map.place[d][1] \in map.done
    OBVIOUS
  <2>1. PICK file : IsLayout(file, corpus) /\ Indexed(file, map.done, map.place)
    BY DEF LocatorInv, MapOf
  <2> DEFINE g == map.place[d][1]
             i == map.place[d][2]
  <2>2. g \in map.done /\ g \in DOMAIN file /\ i \in DOMAIN file[g] /\ file[g][i] = d
    BY <2>1 DEF Indexed
  <2>3. file[g] \in Seq(Document)
    BY <1>1, <2>1, <2>2, LayoutShape
  <2>4. QED
    BY <2>2, <2>3
<1>9. extract.accepted \subseteq RunDocument \X Proposal
  BY DEF Inv, ExtractInv
<1>10. QED
  BY <1>1, <1>2, <1>3, <1>4, <1>5, <1>6, <1>7, <1>8, <1>9 DEF PipelineTypeOK

(* The state, the records of the index and the map of the locator have their types. *)
THEOREM TypeCorrect == Spec => []PipelineTypeOK
<1>1. Init => Inv /\ FoldInv /\ RecordInv /\ LocatorInv
  BY Initial, FoldInitially, RecordsInitially, LocatorInitially
<1>2. Inv /\ FoldInv /\ RecordInv /\ LocatorInv /\ [Next]_vars
        => (Inv /\ FoldInv /\ RecordInv /\ LocatorInv)'
  BY Inductive, FoldStep, RecordStep, LocatorInvStep DEF Inv
<1>3. Inv /\ FoldInv /\ RecordInv /\ LocatorInv => PipelineTypeOK
  BY TypesFollow
<1>4. QED
  BY <1>1, <1>2, <1>3, PTL DEF Spec

(***************************************************************************)
(* A build that ends without an error leaves every row of its source in a  *)
(* recorded batch.                                                         *)
(***************************************************************************)
THEOREM BuiltIsCompleteTheorem == Spec => []BuiltIsComplete
<1>1. Inv /\ RecordInv /\ [Next]_vars => Inv' /\ RecordInv'
  BY Inductive, RecordStep DEF Inv
<1>2. Inv /\ RecordInv => BuiltIsComplete
  BY BuiltCovers DEF Inv
<1>3. QED
  BY <1>1, <1>2, Initial, RecordsInitially, PTL DEF Spec

-----------------------------------------------------------------------------
(***************************************************************************)
(* The index holds the batches of one source.                              *)
(***************************************************************************)

InBatches(source, records) ==
    {k \in DOMAIN source :
        LET n == (k - 1) \div CommitEvery
        IN  n \in DOMAIN records /\ (k - 1) % CommitEvery < records[n][1]}

At(source, records, i) == {k \in InBatches(source, records) : Rowid(source[k]) = i}

(* Every record is of a batch of the source, or of its first rows. *)
MadeOf(source, records) ==
    \A n \in DOMAIN records : \E l \in 1 .. Len(source) :
        /\ n < Chunks(FirstRows(source, l), CommitEvery)
        /\ records[n] = Record(Chunk(FirstRows(source, l), CommitEvery, n))

Exact(source, records, held) ==
    /\ \A i \in Id : held[i] = Cardinality(At(source, records, i))
    /\ MadeOf(source, records)

Counted(records) ==
    DOMAIN records \subseteq Nat /\ \A n \in DOMAIN records : records[n][1] \in 1 .. CommitEvery

(* Two whole batches of the corpus and of the run that have one record are one batch. *)
Tells(one, other) ==
    \A n \in Nat :
        /\ n * CommitEvery + CommitEvery <= Len(one)
        /\ n * CommitEvery + CommitEvery <= Len(other)
        /\ Record(Chunk(one, CommitEvery, n)) = Record(Chunk(other, CommitEvery, n))
        => Chunk(one, CommitEvery, n) = Chunk(other, CommitEvery, n)

(* The batch a row is in. *)
LEMMA BatchOfRow ==
    ASSUME NEW k \in Nat \ {0}, NEW n \in Nat, NEW size \in Nat \ {0}
    PROVE  /\ (k - 1) \div size \in Nat
           /\ (k - 1) \div size = n <=> n * size < k /\ k <= n * size + size
           /\ (k - 1) \div size = n => (k - 1) % size = k - 1 - n * size
<1> DEFINE q == (k - 1) \div size
           r == (k - 1) % size
<1>1. k - 1 \in Nat
  OBVIOUS
<1>2. q \in Nat /\ q * size <= k - 1 /\ k - 1 < q * size + size /\ r \in 0 .. size - 1
      /\ k - 1 = q * size + r
  BY <1>1, DivMod
<1> HIDE DEF q, r
<1>3. q * size \in Nat /\ n * size \in Nat
  BY <1>2
<1>4. q < n => q * size + size <= n * size
  BY <1>2, Products
<1>5. n < q => n * size + size <= q * size
  BY <1>2, Products
<1>6. ASSUME q = n PROVE n * size < k /\ k <= n * size + size /\ r = k - 1 - n * size
  BY <1>2, <1>3, <1>6
<1>7. ASSUME n * size < k, k <= n * size + size PROVE q = n
  <2>1. ~ (q < n)
    BY <1>2, <1>3, <1>4, <1>7
  <2>2. ~ (n < q)
    BY <1>2, <1>3, <1>5, <1>7
  <2>3. QED
    BY <1>2, <2>1, <2>2
<1>8. QED
  BY <1>2, <1>6, <1>7 DEF q, r

LEMMA RowsInBatches ==
    ASSUME NEW source \in Seq(Document), NEW records, Counted(records), NEW k \in 1 .. Len(source)
    PROVE  k \in InBatches(source, records) <=>
                \E n \in DOMAIN records :
                    n * CommitEvery < k /\ k <= n * CommitEvery + records[n][1]
<1> DEFINE q == (k - 1) \div CommitEvery
<1>1. CommitEvery \in Nat \ {0} /\ k \in Nat \ {0} /\ k \in DOMAIN source
  BY TextIndexAssumption
<1>2. \A n \in Nat :
        /\ q \in Nat
        /\ q = n <=> n * CommitEvery < k /\ k <= n * CommitEvery + CommitEvery
        /\ q = n => (k - 1) % CommitEvery = k - 1 - n * CommitEvery
  BY <1>1, BatchOfRow
<1> HIDE DEF q
<1>3. k \in InBatches(source, records) <=> q \in DOMAIN records /\ (k - 1) % CommitEvery < records[q][1]
  BY <1>1 DEF InBatches, q
<1>4. ASSUME q \in DOMAIN records, (k - 1) % CommitEvery < records[q][1]
      PROVE  q * CommitEvery < k /\ k <= q * CommitEvery + records[q][1]
  <2>1. q \in Nat /\ records[q][1] \in Nat
    BY <1>4 DEF Counted
  <2>2. q * CommitEvery < k /\ (k - 1) % CommitEvery = k - 1 - q * CommitEvery
    BY <1>2, <2>1
  <2>3. q * CommitEvery \in Nat
    BY <1>1, <2>1
  <2>4. QED
    BY <1>1, <1>4, <2>1, <2>2, <2>3
<1>5. ASSUME NEW n \in DOMAIN records, n * CommitEvery < k, k <= n * CommitEvery + records[n][1]
      PROVE  q = n /\ (k - 1) % CommitEvery < records[n][1]
  <2>1. n \in Nat /\ records[n][1] \in Nat /\ records[n][1] <= CommitEvery
    BY <1>1 DEF Counted
  <2>2. n * CommitEvery \in Nat
    BY <1>1, <2>1
  <2>3. k <= n * CommitEvery + CommitEvery
    BY <1>1, <1>5, <2>1, <2>2
  <2>4. q = n /\ (k - 1) % CommitEvery = k - 1 - n * CommitEvery
    BY <1>2, <1>5, <2>1, <2>3
  <2>5. k - 1 - n * CommitEvery < records[n][1]
    BY <1>1, <1>5, <2>1, <2>2
  <2>6. QED
    BY <2>4, <2>5
<1>6. QED
  BY <1>3, <1>4, <1>5

(* A batch of the first rows is a batch of the source if it is whole, and has its rows in any case. *)
LEMMA BatchOfFirst ==
    ASSUME NEW source \in Seq(Document), NEW l \in 1 .. Len(source), NEW n \in Nat,
           n < Chunks(FirstRows(source, l), CommitEvery)
    PROVE  LET rows == Chunk(FirstRows(source, l), CommitEvery, n)
               base == n * CommitEvery
           IN  /\ rows \in Seq(Document) /\ Len(rows) \in 1 .. CommitEvery
               /\ base \in Nat /\ base < l
               /\ Len(rows) = Least(base + CommitEvery, l) - base
               /\ base + Len(rows) <= l
               /\ \A j \in 1 .. Len(rows) : rows[j] = source[base + j]
<1> DEFINE first == FirstRows(source, l)
           rows == Chunk(first, CommitEvery, n)
           base == n * CommitEvery
<1>1. first \in Seq(Document) /\ Len(first) = l /\ l \in Nat /\ \A j \in 1 .. l : first[j] = source[j]
  BY DEF FirstRows
<1>2. CommitEvery \in Nat \ {0}
  BY TextIndexAssumption
<1>3. base \in Nat
  BY <1>2
<1> HIDE DEF first
<1>4. n < Chunks(first, CommitEvery)
  BY DEF first
<1>5. /\ rows \in Seq(Document) /\ Len(rows) = Least(base + CommitEvery, Len(first)) - base
      /\ Len(rows) \in 1 .. CommitEvery /\ \A j \in 1 .. Len(rows) : rows[j] = first[base + j]
  BY <1>1, <1>2, <1>4, ChunkShape, Zenon
<1>6. base < l
  <2>1. \A m \in Nat : m < Chunks(first, CommitEvery) <=> m * CommitEvery < Len(first)
    BY <1>1, <1>2, ChunkCount, Zenon
  <2>2. QED
    BY <1>1, <1>4, <2>1
<1> HIDE DEF rows, base
<1>7. base + Len(rows) <= l
  BY <1>1, <1>2, <1>3, <1>5, <1>6 DEF Least
<1>8. \A j \in 1 .. Len(rows) : base + j \in 1 .. l
  BY <1>1, <1>3, <1>5, <1>7
<1>9. QED
  BY <1>1, <1>3, <1>5, <1>6, <1>7, <1>8 DEF rows, base, first

LEMMA WholeBatch ==
    ASSUME NEW source \in Seq(Document), NEW l \in 1 .. Len(source), NEW n \in Nat,
           n * CommitEvery + CommitEvery <= l
    PROVE  /\ Chunk(FirstRows(source, l), CommitEvery, n) = Chunk(source, CommitEvery, n)
           /\ n * CommitEvery + CommitEvery <= Len(source)
           /\ Len(Chunk(source, CommitEvery, n)) = CommitEvery
           /\ \A j \in 1 .. CommitEvery : Chunk(source, CommitEvery, n)[j] = source[n * CommitEvery + j]
<1> DEFINE base == n * CommitEvery
           part == Chunk(FirstRows(source, l), CommitEvery, n)
           whole == Chunk(source, CommitEvery, n)
<1>1. CommitEvery \in Nat \ {0} /\ Len(source) \in Nat /\ l \in Nat /\ l <= Len(source)
      /\ FirstRows(source, l) \in Seq(Document) /\ Len(FirstRows(source, l)) = l
  BY TextIndexAssumption DEF FirstRows
<1>2. base \in Nat
  BY <1>1
<1>3. base < l /\ base < Len(source)
  BY <1>1, <1>2
<1>4. n < Chunks(FirstRows(source, l), CommitEvery)
  <2>1. \A m \in Nat : m < Chunks(FirstRows(source, l), CommitEvery) <=> m * CommitEvery < Len(FirstRows(source, l))
    BY <1>1, ChunkCount, Zenon
  <2>2. QED
    BY <1>1, <1>3, <2>1
<1>5. n < Chunks(source, CommitEvery)
  <2>1. \A m \in Nat : m < Chunks(source, CommitEvery) <=> m * CommitEvery < Len(source)
    BY <1>1, ChunkCount, Zenon
  <2>2. QED
    BY <1>3, <2>1
<1>6. /\ part \in Seq(Document) /\ Len(part) = Least(base + CommitEvery, l) - base
      /\ \A j \in 1 .. Len(part) : part[j] = source[base + j]
  BY <1>4, BatchOfFirst, Zenon
<1>7. /\ whole \in Seq(Document) /\ Len(whole) = Least(base + CommitEvery, Len(source)) - base
      /\ \A j \in 1 .. Len(whole) : whole[j] = source[base + j]
  BY <1>1, <1>5, ChunkShape, Zenon
<1> HIDE DEF part, whole, base
<1>8. base + CommitEvery <= l
  BY DEF base
<1>9. Len(part) = CommitEvery /\ Len(whole) = CommitEvery
  BY <1>1, <1>2, <1>6, <1>7, <1>8 DEF Least
<1>10. \A j \in 1 .. CommitEvery : part[j] = source[base + j] /\ whole[j] = source[base + j]
  BY <1>6, <1>7, <1>9
<1>11. part = whole
  <2>1. part = [j \in 1 .. CommitEvery |-> part[j]] /\ whole = [j \in 1 .. CommitEvery |-> whole[j]]
    BY <1>6, <1>7, <1>9
  <2>2. QED
    BY <1>10, <2>1
<1>12. base + CommitEvery <= Len(source)
  BY <1>1, <1>2, <1>8
<1>13. QED
  BY <1>9, <1>10, <1>11, <1>12 DEF part, whole, base

(* What two sources agree on, the index holds of the one when it holds it of the other. *)
LEMMA SwitchSource ==
    ASSUME NEW one \in Seq(Document), NEW other \in Seq(Document), Tells(one, other),
           NEW records, NEW held, NEW c \in Nat, DOMAIN records = 0 .. c - 1, Counted(records),
           Exact(one, records, held),
           NEW l \in 1 .. Len(other), c < Chunks(FirstRows(other, l), CommitEvery),
           \A k \in 0 .. c - 1 : records[k] = Record(Chunk(FirstRows(other, l), CommitEvery, k))
    PROVE  Exact(other, records, held)
<1>0. CommitEvery \in Nat \ {0} /\ l \in Nat /\ Len(one) \in Nat /\ Len(other) \in Nat /\ l <= Len(other)
  BY TextIndexAssumption
<1>1. c * CommitEvery \in Nat /\ c * CommitEvery < l
  BY BatchOfFirst, Zenon
<1>2. ASSUME NEW k \in 0 .. c - 1
      PROVE  /\ records[k] = Record(Chunk(other, CommitEvery, k))
             /\ records[k][1] = CommitEvery
             /\ k * CommitEvery \in Nat
             /\ k * CommitEvery + CommitEvery <= Len(one)
             /\ k * CommitEvery + CommitEvery <= l
             /\ \A j \in 1 .. CommitEvery : one[k * CommitEvery + j] = other[k * CommitEvery + j]
  <2> DEFINE base == k * CommitEvery
  <2>1. k \in Nat /\ k < c
    OBVIOUS
  <2>2. base \in Nat /\ base + CommitEvery <= c * CommitEvery
    BY <1>0, <2>1, Products
  <2>3. base + CommitEvery <= l
    BY <1>0, <1>1, <2>2
  <2>4. /\ Chunk(FirstRows(other, l), CommitEvery, k) = Chunk(other, CommitEvery, k)
        /\ base + CommitEvery <= Len(other)
        /\ Len(Chunk(other, CommitEvery, k)) = CommitEvery
        /\ \A j \in 1 .. CommitEvery : Chunk(other, CommitEvery, k)[j] = other[base + j]
    BY <2>1, <2>3, WholeBatch, Zenon
  <2>5. records[k] = Record(Chunk(other, CommitEvery, k)) /\ records[k][1] = CommitEvery
    <3>1. records[k] = Record(Chunk(FirstRows(other, l), CommitEvery, k))
      OBVIOUS
    <3>2. records[k] = Record(Chunk(other, CommitEvery, k))
      BY <2>4, <3>1, Zenon
    <3>3. Record(Chunk(other, CommitEvery, k))[1] = Len(Chunk(other, CommitEvery, k))
      BY DEF Record
    <3>4. QED
      BY <2>4, <3>2, <3>3, Zenon
  <2>6. PICK m \in 1 .. Len(one) :
            /\ k < Chunks(FirstRows(one, m), CommitEvery)
            /\ records[k] = Record(Chunk(FirstRows(one, m), CommitEvery, k))
    BY DEF Exact, MadeOf
  <2>7. base < m /\ Len(Chunk(FirstRows(one, m), CommitEvery, k)) = Least(base + CommitEvery, m) - base
    BY <2>1, <2>6, BatchOfFirst, Zenon
  <2>8. Len(Chunk(FirstRows(one, m), CommitEvery, k)) = CommitEvery
    BY <2>5, <2>6 DEF Record
  <2> HIDE DEF base
  <2>9. base + CommitEvery <= m
    BY <1>0, <2>2, <2>7, <2>8 DEF Least
  <2>10. /\ Chunk(FirstRows(one, m), CommitEvery, k) = Chunk(one, CommitEvery, k)
         /\ base + CommitEvery <= Len(one)
         /\ \A j \in 1 .. CommitEvery : Chunk(one, CommitEvery, k)[j] = one[base + j]
    BY <2>1, <2>9, WholeBatch, Zenon DEF base
  <2>11. Chunk(one, CommitEvery, k) = Chunk(other, CommitEvery, k)
    BY <2>1, <2>4, <2>5, <2>6, <2>10 DEF Tells, base
  <2>12. \A j \in 1 .. CommitEvery : one[base + j] = other[base + j]
    BY <2>4, <2>10, <2>11
  <2>13. QED
    BY <2>2, <2>3, <2>5, <2>10, <2>12 DEF base
<1>3. ASSUME NEW k \in Nat \ {0}, NEW n \in 0 .. c - 1,
             n * CommitEvery < k, k <= n * CommitEvery + records[n][1]
      PROVE  k \in 1 .. Len(one) /\ k \in 1 .. Len(other) /\ one[k] = other[k]
  <2> DEFINE base == n * CommitEvery
  <2>1. /\ base \in Nat /\ base < k /\ k <= base + CommitEvery
        /\ base + CommitEvery <= Len(one) /\ base + CommitEvery <= l
        /\ \A j \in 1 .. CommitEvery : one[base + j] = other[base + j]
    BY <1>2, <1>3
  <2> HIDE DEF base
  <2>2. k - base \in 1 .. CommitEvery /\ base + (k - base) = k
    BY <1>0, <2>1
  <2>3. one[base + (k - base)] = other[base + (k - base)]
    BY <2>1, <2>2
  <2>4. QED
    BY <1>0, <2>1, <2>2, <2>3
<1>4. \A k \in 1 .. Len(one) : k \in InBatches(one, records) <=>
            \E n \in 0 .. c - 1 : n * CommitEvery < k /\ k <= n * CommitEvery + records[n][1]
  BY RowsInBatches
<1>5. \A k \in 1 .. Len(other) : k \in InBatches(other, records) <=>
            \E n \in 0 .. c - 1 : n * CommitEvery < k /\ k <= n * CommitEvery + records[n][1]
  BY RowsInBatches
<1>6. InBatches(one, records) \subseteq 1 .. Len(one) /\ InBatches(other, records) \subseteq 1 .. Len(other)
  BY DEF InBatches
<1>7. \A k \in InBatches(one, records) : k \in InBatches(other, records) /\ one[k] = other[k]
  BY <1>0, <1>3, <1>4, <1>5, <1>6
<1>8. \A k \in InBatches(other, records) : k \in InBatches(one, records)
  BY <1>0, <1>3, <1>4, <1>5, <1>6
<1>9. ASSUME NEW i \in Id PROVE At(other, records, i) = At(one, records, i)
  BY <1>7, <1>8 DEF At
<1>10. MadeOf(other, records)
  <2> SUFFICES ASSUME NEW n \in DOMAIN records
               PROVE  /\ n < Chunks(FirstRows(other, l), CommitEvery)
                      /\ records[n] = Record(Chunk(FirstRows(other, l), CommitEvery, n))
    BY DEF MadeOf
  <2>1. n \in 0 .. c - 1
    OBVIOUS
  <2>2. Chunks(FirstRows(other, l), CommitEvery) \in Nat
    <3>1. Len(FirstRows(other, l)) \in Nat
      BY DEF FirstRows
    <3>2. QED
      BY <1>0, <3>1, ChunkCount
  <2>3. QED
    BY <2>1, <2>2
<1>11. QED
  BY <1>9, <1>10 DEF Exact

(* A set of numbers that is moved has as many members. *)
LEMMA Moved ==
    ASSUME NEW base \in Nat, NEW J \in SUBSET Nat, IsFiniteSet(J)
    PROVE  LET K == {base + j : j \in J}
           IN  IsFiniteSet(K) /\ Cardinality(K) = Cardinality(J)
<1> DEFINE K == {base + j : j \in J}
           f == [j \in J |-> base + j]
<1>1. f \in [J -> K]
  OBVIOUS
<1>2. \A a, b \in J : f[a] = f[b] => a = b
  OBVIOUS
<1>3. \A k \in K : \E j \in J : f[j] = k
  OBVIOUS
<1>4. f \in Bijection(J, K)
  BY <1>1, <1>2, <1>3 DEF Bijection, Injection, Surjection, IsInjective
<1>5. ExistsBijection(J, K)
  BY <1>4 DEF ExistsBijection
<1>6. QED
  BY <1>5, FS_Bijection, Zenon

RowsAt(rows, i) == {k \in DOMAIN rows : Rowid(rows[k]) = i}

(* The next batch of the source the index holds. *)
Writes(source, l, c, records, held, more, now) ==
    LET rows == Chunk(FirstRows(source, l), CommitEvery, c)
    IN  /\ c < Chunks(FirstRows(source, l), CommitEvery)
        /\ DOMAIN records = 0 .. c - 1 /\ DOMAIN more = DOMAIN records \cup {c}
        /\ more[c] = Record(rows) /\ \A n \in DOMAIN records : more[n] = records[n]
        /\ \A i \in Id : now[i] = held[i] + Cardinality(RowsAt(rows, i))

LEMMA WriteSame ==
    ASSUME NEW source \in Seq(Document), NEW records, NEW held, NEW c \in Nat,
           Counted(records), Exact(source, records, held), NEW l \in 1 .. Len(source),
           NEW more, NEW now, Writes(source, l, c, records, held, more, now)
    PROVE  Exact(source, more, now)
<1> DEFINE rows == Chunk(FirstRows(source, l), CommitEvery, c)
<1>a. /\ c < Chunks(FirstRows(source, l), CommitEvery)
      /\ DOMAIN records = 0 .. c - 1 /\ DOMAIN more = DOMAIN records \cup {c}
      /\ more[c] = Record(rows) /\ \A n \in DOMAIN records : more[n] = records[n]
      /\ \A i \in Id : now[i] = held[i] + Cardinality(RowsAt(rows, i))
      /\ rows = Chunk(FirstRows(source, l), CommitEvery, c)
  BY DEF Writes
<1> HIDE DEF rows
<1> DEFINE base == c * CommitEvery
           m == Len(rows)
<1>0. CommitEvery \in Nat \ {0} /\ l \in Nat /\ Len(source) \in Nat /\ l <= Len(source)
  BY TextIndexAssumption
<1>1. /\ rows \in Seq(Document) /\ m \in 1 .. CommitEvery /\ base \in Nat /\ base + m <= l
      /\ \A j \in 1 .. m : rows[j] = source[base + j]
  BY <1>a, BatchOfFirst, Zenon
<1>2. more[c][1] = m
  BY <1>a DEF Record
<1>3. Counted(more)
  BY <1>a, <1>1, <1>2 DEF Counted
<1> HIDE DEF m, base
<1>4. \A k \in 1 .. Len(source) : k \in InBatches(source, records) <=>
            \E n \in DOMAIN records : n * CommitEvery < k /\ k <= n * CommitEvery + records[n][1]
  BY RowsInBatches, Zenon
<1>5. \A k \in 1 .. Len(source) : k \in InBatches(source, more) <=>
            \E n \in DOMAIN more : n * CommitEvery < k /\ k <= n * CommitEvery + more[n][1]
  BY <1>3, RowsInBatches, Zenon
<1>6. ASSUME NEW k \in 1 .. Len(source)
      PROVE  k \in InBatches(source, more) <=> k \in InBatches(source, records) \/ k \in base + 1 .. base + m
  <2>1. (\E n \in DOMAIN more : n * CommitEvery < k /\ k <= n * CommitEvery + more[n][1])
        <=> \/ \E n \in DOMAIN records : n * CommitEvery < k /\ k <= n * CommitEvery + records[n][1]
            \/ base < k /\ k <= base + m
    BY <1>a, <1>2 DEF base
  <2>2. base < k /\ k <= base + m <=> k \in base + 1 .. base + m
    BY <1>1
  <2>3. QED
    BY <1>4, <1>5, <2>1, <2>2
<1>7. ASSUME NEW k \in base + 1 .. base + m PROVE k \in 1 .. Len(source) /\ k \notin InBatches(source, records)
  <2>1. k \in 1 .. Len(source) /\ base < k
    BY <1>0, <1>1
  <2>2. ASSUME NEW n \in DOMAIN records, k <= n * CommitEvery + records[n][1] PROVE FALSE
    <3>1. n \in Nat /\ n < c /\ records[n][1] \in Nat /\ records[n][1] <= CommitEvery
      BY <1>a, <1>0 DEF Counted
    <3>2. n * CommitEvery \in Nat
      BY <1>0, <3>1
    <3>3. n * CommitEvery + CommitEvery <= c * CommitEvery
      BY <1>0, <3>1, Products
    <3>4. n * CommitEvery + CommitEvery <= base
      BY <3>3 DEF base
    <3>5. QED
      BY <1>0, <1>1, <2>1, <2>2, <3>1, <3>2, <3>4
  <2>3. QED
    BY <1>4, <2>1, <2>2
<1>8. InBatches(source, records) \subseteq 1 .. Len(source) /\ InBatches(source, more) \subseteq 1 .. Len(source)
  BY DEF InBatches
<1>9. ASSUME NEW i \in Id PROVE now[i] = Cardinality(At(source, more, i))
  <2> DEFINE A == At(source, records, i)
             J == {k \in 1 .. m : Rowid(rows[k]) = i}
             K == {base + j : j \in J}
  <2>1. At(source, more, i) = A \cup K
    <3>1. ASSUME NEW k \in At(source, more, i) PROVE k \in A \cup K
      <4>1. k \in 1 .. Len(source) /\ k \in InBatches(source, more) /\ Rowid(source[k]) = i
        BY <1>8 DEF At
      <4>2. CASE k \in InBatches(source, records)
        BY <4>1, <4>2 DEF At
      <4>3. CASE k \in base + 1 .. base + m
        <5>1. k - base \in 1 .. m /\ base + (k - base) = k
          BY <1>1, <4>3
        <5>2. rows[k - base] = source[k]
          BY <1>1, <5>1 DEF m
        <5>3. k - base \in J
          BY <4>1, <5>1, <5>2
        <5>4. QED
          BY <5>1, <5>3
      <4>4. QED
        BY <1>6, <4>1, <4>2, <4>3
    <3>2. ASSUME NEW k \in A PROVE k \in At(source, more, i)
      BY <1>6, <1>8 DEF At
    <3>3. ASSUME NEW j \in J PROVE base + j \in At(source, more, i)
      <4>1. base + j \in base + 1 .. base + m /\ source[base + j] = rows[j]
        BY <1>1 DEF m
      <4>2. base + j \in 1 .. Len(source)
        BY <1>7, <4>1
      <4>3. QED
        BY <1>6, <4>1, <4>2 DEF At
    <3>4. QED
      BY <3>1, <3>2, <3>3
  <2>2. A \cap K = {}
    <3>1. \A j \in J : base + j \in base + 1 .. base + m
      BY <1>1
    <3>2. QED
      BY <1>7, <3>1 DEF At
  <2>3. IsFiniteSet(A)
    <3>1. IsFiniteSet(1 .. Len(source)) /\ A \subseteq 1 .. Len(source)
      BY <1>0, <1>8, FS_Interval DEF At
    <3>2. QED
      BY <3>1, FS_Subset
  <2>4. IsFiniteSet(J) /\ J \in SUBSET Nat
    <3>1. m \in Nat
      BY <1>1
    <3>2. J \subseteq 1 .. m /\ J \in SUBSET Nat
      BY <3>1
    <3>3. IsFiniteSet(1 .. m)
      BY <3>1, FS_Interval
    <3> HIDE DEF J
    <3>4. QED
      BY <3>2, <3>3, FS_Subset
  <2>5. IsFiniteSet(K) /\ Cardinality(K) = Cardinality(J)
    <3> HIDE DEF J
    <3>1. QED
      BY <1>1, <2>4, Moved, Zenon
  <2>6. Cardinality(A \cup K) = Cardinality(A) + Cardinality(J)
    <3> HIDE DEF A, K, J
    <3>1. Cardinality(A \cup K) = Cardinality(A) + Cardinality(K) - Cardinality(A \cap K)
      BY <2>3, <2>5, FS_Union
    <3>2. Cardinality(A) \in Nat /\ Cardinality(K) \in Nat
      BY <2>3, <2>5, FS_CardinalityType
    <3>3. Cardinality(A \cap K) = 0
      BY <2>2, FS_EmptySet
    <3>4. Cardinality(K) = Cardinality(J)
      BY <2>5
    <3>5. QED
      BY <3>1, <3>2, <3>3, <3>4
  <2>7. held[i] = Cardinality(A)
    BY DEF Exact
  <2>8. RowsAt(rows, i) = J
    BY <1>1 DEF m, RowsAt
  <2>9. now[i] = held[i] + Cardinality(J)
    BY <1>a, <2>8
  <2>10. QED
    BY <2>1, <2>6, <2>7, <2>9
<1>10. MadeOf(source, more)
  BY <1>a DEF Exact, MadeOf
<1>11. QED
  BY <1>9, <1>10 DEF Exact

(* The corpus grows: the batches that are there are of the rows that were there. *)
LEMMA GrowExact ==
    ASSUME NEW all \in Seq(Document), NEW d \in Document, NEW records, Counted(records),
           NEW held, Exact(all, records, held)
    PROVE  Exact(Append(all, d), records, held)
<1> DEFINE more == Append(all, d)
<1>1. more \in Seq(Document) /\ Len(more) = Len(all) + 1 /\ Len(all) \in Nat
      /\ \A i \in 1 .. Len(all) : more[i] = all[i]
  OBVIOUS
<1> HIDE DEF more
<1>2. \A l \in 1 .. Len(all) : FirstRows(more, l) = FirstRows(all, l)
  <2> SUFFICES ASSUME NEW l \in 1 .. Len(all) PROVE SubSeq(more, 1, l) = SubSeq(all, 1, l)
    BY DEF FirstRows
  <2>1. SubSeq(all, 1, l) = [i \in 1 .. l |-> all[i]]
    OBVIOUS
  <2>2. SubSeq(more, 1, l) = [i \in 1 .. l |-> more[i]]
    BY <1>1
  <2>3. \A i \in 1 .. l : more[i] = all[i]
    BY <1>1
  <2>4. QED
    BY <2>1, <2>2, <2>3
<1>3. MadeOf(more, records)
  <2> SUFFICES ASSUME NEW n \in DOMAIN records
               PROVE  \E l \in 1 .. Len(more) :
                            /\ n < Chunks(FirstRows(more, l), CommitEvery)
                            /\ records[n] = Record(Chunk(FirstRows(more, l), CommitEvery, n))
    BY DEF MadeOf
  <2>1. PICK l \in 1 .. Len(all) :
            /\ n < Chunks(FirstRows(all, l), CommitEvery)
            /\ records[n] = Record(Chunk(FirstRows(all, l), CommitEvery, n))
    BY DEF Exact, MadeOf
  <2>2. l \in 1 .. Len(more) /\ FirstRows(more, l) = FirstRows(all, l)
    BY <1>1, <1>2
  <2>3. QED
    BY <2>1, <2>2, Zenon
<1>4. ASSUME NEW k \in 1 .. Len(more), NEW n \in DOMAIN records, k <= n * CommitEvery + records[n][1]
      PROVE  k \in 1 .. Len(all)
  <2>1. PICK l \in 1 .. Len(all) :
            /\ n < Chunks(FirstRows(all, l), CommitEvery)
            /\ records[n] = Record(Chunk(FirstRows(all, l), CommitEvery, n))
    BY DEF Exact, MadeOf
  <2> DEFINE rows == Chunk(FirstRows(all, l), CommitEvery, n)
             base == n * CommitEvery
  <2>2. n \in Nat
    BY DEF Counted
  <2>3. base \in Nat /\ Len(rows) \in 1 .. CommitEvery /\ base + Len(rows) <= l
    BY <2>1, <2>2, BatchOfFirst, Zenon
  <2>4. records[n][1] = Len(rows)
    BY <2>1 DEF Record
  <2> HIDE DEF rows
  <2>5. k <= base + Len(rows)
    BY <1>4, <2>4
  <2> HIDE DEF base
  <2>6. QED
    BY <1>1, <2>3, <2>5, TextIndexAssumption
<1>5. \A k \in 1 .. Len(all) : k \in InBatches(all, records) <=>
            \E n \in DOMAIN records : n * CommitEvery < k /\ k <= n * CommitEvery + records[n][1]
  BY RowsInBatches, Zenon
<1>6. \A k \in 1 .. Len(more) : k \in InBatches(more, records) <=>
            \E n \in DOMAIN records : n * CommitEvery < k /\ k <= n * CommitEvery + records[n][1]
  BY <1>1, RowsInBatches, Zenon
<1>7. InBatches(all, records) \subseteq 1 .. Len(all) /\ InBatches(more, records) \subseteq 1 .. Len(more)
  BY <1>1 DEF InBatches
<1>8. 1 .. Len(all) \subseteq 1 .. Len(more)
  BY <1>1
<1>9. InBatches(more, records) = InBatches(all, records)
  BY <1>4, <1>5, <1>6, <1>7, <1>8
<1>10. \A k \in InBatches(all, records) : more[k] = all[k]
  BY <1>1, <1>7
<1>11. ASSUME NEW i \in Id PROVE At(more, records, i) = At(all, records, i)
  BY <1>9, <1>10 DEF At
<1>12. Exact(more, records, held)
  BY <1>3, <1>11 DEF Exact
<1>13. QED
  BY <1>12 DEF more

(* What a build reads are first rows of the corpus, or the documents of the run. *)
KindInv ==
    \A p \in Process :
        \/ build[p].source \in {<<>>, RunDocuments}
        \/ \E l \in 1 .. Len(corpus) : build[p].source = FirstRows(corpus, l)

ExactInv == Exact(corpus, batches, entered) \/ Exact(RunDocuments, batches, entered)

RecordsTell == Tells(corpus, RunDocuments)

LEMMA FirstStays ==
    ASSUME NEW all \in Seq(Document), NEW d \in Document, NEW l \in 1 .. Len(all)
    PROVE  l \in 1 .. Len(Append(all, d)) /\ FirstRows(Append(all, d), l) = FirstRows(all, l)
<1> DEFINE more == Append(all, d)
<1>1. more \in Seq(Document) /\ Len(more) = Len(all) + 1 /\ \A i \in 1 .. Len(all) : more[i] = all[i]
  OBVIOUS
<1> HIDE DEF more
<1>2. SubSeq(more, 1, l) = SubSeq(all, 1, l)
  <2>1. SubSeq(all, 1, l) = [i \in 1 .. l |-> all[i]]
    OBVIOUS
  <2>2. SubSeq(more, 1, l) = [i \in 1 .. l |-> more[i]]
    BY <1>1
  <2>3. \A i \in 1 .. l : more[i] = all[i]
    BY <1>1
  <2>4. QED
    BY <2>1, <2>2, <2>3
<1>3. l \in 1 .. Len(more)
  BY <1>1
<1>4. FirstRows(more, l) = FirstRows(all, l)
  BY <1>2 DEF FirstRows
<1>5. QED
  BY <1>3, <1>4 DEF more

LEMMA KindStep ==
    ASSUME SourceInv, KindInv, [Next]_vars
    PROVE  KindInv'
<1>0. DOMAIN build = Process /\ \A p \in Process : DOMAIN build[p] = {"at", "source", "recorded", "n"}
  BY DEF SourceInv
<1>1. NoBuild.source = <<>> /\ DOMAIN NoBuild = {"at", "source", "recorded", "n"}
  BY DEF NoBuild
<1>2. ASSUME NEW p \in Process, NEW b, build' = [build EXCEPT ![p] = b], UNCHANGED corpus,
             \/ b.source \in {<<>>, RunDocuments, build[p].source}
             \/ \E l \in 1 .. Len(corpus) : b.source = FirstRows(corpus, l)
      PROVE  KindInv'
  <2>1. \A q \in Process : build'[q] = IF q = p THEN b ELSE build[q]
    BY <1>0, <1>2
  <2>2. QED
    BY <1>2, <2>1 DEF KindInv
<1>3. ASSUME NEW p \in Process, build' = [build EXCEPT ![p] = NoBuild], UNCHANGED corpus
      PROVE  KindInv'
  BY <1>1, <1>2, <1>3
<1>4. ASSUME NEW p \in Process, ReadCorpus(p) PROVE KindInv'
  <2>1. PICK limit \in 1 .. Len(corpus) :
          build' = [build EXCEPT ![p] = [NoBuild EXCEPT !.at = "read", !.source = SubSeq(corpus, 1, limit)]]
    BY <1>4 DEF ReadCorpus
  <2> DEFINE b == [NoBuild EXCEPT !.at = "read", !.source = SubSeq(corpus, 1, limit)]
  <2>2. b.source = FirstRows(corpus, limit)
    BY <1>1 DEF FirstRows
  <2> HIDE DEF b
  <2>3. build' = [build EXCEPT ![p] = b] /\ UNCHANGED corpus
    BY <1>4, <2>1 DEF ReadCorpus, b
  <2>4. QED
    BY <1>2, <2>2, <2>3
<1>5. ASSUME NEW p \in Process, ReadRun(p) PROVE KindInv'
  <2> DEFINE b == [NoBuild EXCEPT !.at = "registered", !.source = RunDocuments]
  <2>1. build' = [build EXCEPT ![p] = b] /\ UNCHANGED corpus /\ b.source = RunDocuments
    BY <1>1, <1>5 DEF ReadRun
  <2> HIDE DEF b
  <2>2. QED
    BY <1>2, <2>1
<1>6. ASSUME UNCHANGED corpus, DOMAIN build' = Process,
             \A q \in Process : build'[q].source = build[q].source
      PROVE  KindInv'
  BY <1>6 DEF KindInv
<1>7. ASSUME NEW p \in Process,
             OpenIndex(p) \/ SkipBatch(p) \/ WriteBatch(p) \/ FinishIndex(p)
      PROVE  KindInv'
  <2>1. UNCHANGED corpus
    BY <1>7 DEF OpenIndex, SkipBatch, WriteBatch, FinishIndex
  <2>2. DOMAIN build' = Process /\ \A q \in Process : build'[q].source = build[q].source
    <3>1. CASE OpenIndex(p)
      BY <1>0, <3>1 DEF OpenIndex
    <3>2. CASE SkipBatch(p) \/ WriteBatch(p)
      BY <1>0, <3>2 DEF SkipBatch, WriteBatch
    <3>3. CASE FinishIndex(p)
      BY <1>0, <3>3 DEF FinishIndex
    <3>4. QED
      BY <1>7, <3>1, <3>2, <3>3
  <2>3. QED
    BY <1>6, <2>1, <2>2
<1>8. ASSUME NEW p \in Process, RegisterCorpus(p) PROVE KindInv'
  <2>1. UNCHANGED corpus
    BY <1>8 DEF RegisterCorpus
  <2>2. CASE build' = [build EXCEPT ![p] = NoBuild]
    BY <1>3, <2>1, <2>2
  <2>3. CASE build' = [build EXCEPT ![p].at = "registered"]
    BY <1>0, <1>6, <2>1, <2>3
  <2>4. QED
    BY <1>8, <2>2, <2>3 DEF RegisterCorpus
<1>9. ASSUME NEW p \in Process, RefuseBatch(p) PROVE KindInv'
  BY <1>3, <1>9 DEF RefuseBatch
<1>10. CASE TextStep
  BY <1>3, <1>4, <1>5, <1>7, <1>8, <1>9, <1>10 DEF TextStep, Start, Advance, Indexing
<1>11. CASE CorpusGrows
  <2>1. PICK d \in Document : corpus' = Append(corpus, d)
    BY <1>11 DEF CorpusGrows, Grow
  <2>2. \A l \in 1 .. Len(corpus) : l \in 1 .. Len(corpus') /\ FirstRows(corpus', l) = FirstRows(corpus, l)
    BY <2>1, FirstStays DEF SourceInv
  <2>3. UNCHANGED build
    BY <1>11 DEF CorpusGrows
  <2>4. QED
    BY <2>2, <2>3 DEF KindInv
<1>12. CASE LocatorStep \/ ExtractStep \/ UNCHANGED vars
  <2>1. UNCHANGED <<corpus, build>>
    BY <1>12 DEF LocatorStep, ExtractStep, vars, Repartition, KeepCopy, CreateMap, OpenMap,
       IndexRowGroup, FinishMap, DeleteCopy, DeleteMap, OpenReader, CloseReader, Submit,
       Extracting, EndBatch, PollTimesOut, Poll, Collect, RegisterClaims, SkipJob, WriteJob,
       MarkJob, FinishExtract
  <2>2. QED
    BY <2>1 DEF KindInv
<1>13. QED
  BY <1>10, <1>11, <1>12 DEF Next

LEMMA KindInitially == Init => KindInv
BY DEF Init, KindInv, NoBuild

LEMMA ExactInitially == Init => ExactInv
<1> SUFFICES ASSUME Init PROVE Exact(corpus, batches, entered)
  BY DEF ExactInv
<1>1. DOMAIN batches = {} /\ entered = [i \in Id |-> 0]
  BY DEF Init
<1>2. \A i \in Id : At(corpus, batches, i) = {}
  BY <1>1 DEF At, InBatches
<1>3. QED
  BY <1>1, <1>2, FS_EmptySet DEF Exact, MadeOf

(* The batch a build writes is the next one. *)
LEMMA NextBatch ==
    ASSUME SourceInv, RecordInv, NEW p \in Process, WriteBatch(p)
    PROVE  build[p].n \in Nat /\ DOMAIN batches = 0 .. build[p].n - 1
<1>1. build[p].n \in Nat /\ BuildInv(build[p], batches) /\ build[p].n \notin DOMAIN batches
  BY DEF SourceInv, RecordInv, WriteBatch, Taken
<1>2. PICK c \in Nat : DOMAIN batches = 0 .. c - 1
  BY DEF RecordInv
<1>3. build[p].n > 0 => build[p].n - 1 \in 0 .. c - 1
  BY <1>1, <1>2 DEF BuildInv
<1>4. build[p].n = c
  BY <1>1, <1>2, <1>3
<1>5. QED
  BY <1>1, <1>2, <1>4

LEMMA CountedRecords ==
    ASSUME RecordInv
    PROVE  Counted(batches)
BY DEF RecordInv, Counted

(* A source that a build has rows of, and that the index holds. *)
LEMMA WriteExact ==
    ASSUME SourceInv, RecordInv, NEW p \in Process, WriteBatch(p),
           NEW one \in Seq(Document), NEW other \in Seq(Document), Tells(one, other),
           Exact(one, batches, entered) \/ Exact(other, batches, entered),
           NEW l \in 1 .. Len(other), build[p].source = FirstRows(other, l)
    PROVE  Exact(other, batches', entered')
<1> DEFINE c == build[p].n
           rows == Chunk(FirstRows(other, l), CommitEvery, c)
<1>1. c \in Nat /\ DOMAIN batches = 0 .. c - 1 /\ Counted(batches)
  BY NextBatch, CountedRecords
<1>2. /\ c < Chunks(FirstRows(other, l), CommitEvery)
      /\ \A k \in 0 .. c - 1 : batches[k] = Record(Chunk(FirstRows(other, l), CommitEvery, k))
  BY DEF WriteBatch, AtBatch, RecordInv, BuildInv
<1>3. /\ entered' = [i \in Id |-> entered[i] + Cardinality({k \in DOMAIN rows : Rowid(rows[k]) = i})]
      /\ batches' = [n \in DOMAIN batches \cup {c} |-> IF n = c THEN Record(rows) ELSE batches[n]]
  BY DEF WriteBatch, Batch
<1> HIDE DEF c
<1>4. Exact(other, batches, entered)
  <2>1. ASSUME Exact(one, batches, entered) PROVE Exact(other, batches, entered)
    BY <1>1, <1>2, <2>1, SwitchSource, Zenon
  <2>2. QED
    BY <2>1
<1> HIDE DEF rows
<1>5. /\ DOMAIN batches' = DOMAIN batches \cup {c} /\ batches'[c] = Record(rows)
      /\ \A n \in DOMAIN batches : batches'[n] = batches[n]
  <2>1. c \notin DOMAIN batches
    BY <1>1
  <2>2. QED
    BY <1>3, <2>1
<1>6. \A i \in Id : entered'[i] = entered[i] + Cardinality(RowsAt(rows, i))
  BY <1>3 DEF RowsAt
<1>7. rows = Chunk(FirstRows(other, l), CommitEvery, c)
  BY DEF rows
<1>8. c < Chunks(FirstRows(other, l), CommitEvery)
  BY <1>2
<1>9. Writes(other, l, c, batches, entered, batches', entered')
  BY <1>1, <1>5, <1>6, <1>7, <1>8 DEF Writes
<1>10. QED
  BY <1>1, <1>4, <1>9, WriteSame

LEMMA TellsBothWays ==
    ASSUME NEW one, NEW other, Tells(one, other)
    PROVE  Tells(other, one)
BY DEF Tells

LEMMA ExactStep ==
    ASSUME SourceInv, RecordInv, KindInv, ExactInv, RecordsTell, [Next]_vars
    PROVE  ExactInv'
<1>0. corpus \in Seq(Document) /\ RunDocuments \in Seq(Document)
  BY TextIndexAssumption DEF SourceInv
<1>1. ASSUME NEW p \in Process, WriteBatch(p) PROVE ExactInv'
  <2>1. UNCHANGED corpus
    BY <1>1 DEF WriteBatch
  <2>2. Tells(corpus, RunDocuments) /\ Tells(RunDocuments, corpus)
    BY TellsBothWays DEF RecordsTell
  <2>3. ASSUME NEW l \in 1 .. Len(corpus), build[p].source = FirstRows(corpus, l)
        PROVE  Exact(corpus, batches', entered')
    BY <1>0, <1>1, <2>2, <2>3, WriteExact, Zenon DEF ExactInv
  <2>4. ASSUME NEW l \in 1 .. Len(RunDocuments), build[p].source = FirstRows(RunDocuments, l)
        PROVE  Exact(RunDocuments, batches', entered')
    BY <1>0, <1>1, <2>2, <2>4, WriteExact, Zenon DEF ExactInv
  <2>5. build[p].source # <<>>
    <3>1. build[p].n \in Nat /\ build[p].n < Chunks(build[p].source, CommitEvery)
      BY <1>1, NextBatch DEF WriteBatch, AtBatch
    <3>2. ASSUME build[p].source = <<>> PROVE FALSE
      <4>1. Len(<<>>) \in Nat /\ Len(<<>>) = 0 /\ CommitEvery \in Nat \ {0}
        BY TextIndexAssumption
      <4>2. \A n \in Nat : n < Chunks(<<>>, CommitEvery) <=> n * CommitEvery < Len(<<>>)
        BY <4>1, ChunkCount, Zenon
      <4>3. build[p].n * CommitEvery < 0
        BY <3>1, <3>2, <4>1, <4>2
      <4>4. build[p].n * CommitEvery \in Nat
        BY <3>1, <4>1
      <4>5. QED
        BY <4>3, <4>4
    <3>3. QED
      BY <3>2
  <2>6. RunDocuments # <<>> =>
            Len(RunDocuments) \in 1 .. Len(RunDocuments)
            /\ RunDocuments = FirstRows(RunDocuments, Len(RunDocuments))
    <3>1. SubSeq(RunDocuments, 1, Len(RunDocuments)) = [i \in 1 .. Len(RunDocuments) |-> RunDocuments[i]]
      BY <1>0
    <3>2. RunDocuments # <<>> => Len(RunDocuments) \in 1 .. Len(RunDocuments)
      BY <1>0, EmptySeq
    <3>3. QED
      BY <1>0, <3>1, <3>2 DEF FirstRows
  <2>7. CASE build[p].source = RunDocuments
    BY <2>4, <2>5, <2>6, <2>7 DEF ExactInv
  <2>8. CASE \E l \in 1 .. Len(corpus) : build[p].source = FirstRows(corpus, l)
    BY <2>1, <2>3, <2>8 DEF ExactInv
  <2>9. QED
    BY <2>5, <2>7, <2>8 DEF KindInv
<1>2. CASE CorpusGrows
  <2>1. PICK d \in Document : corpus' = Append(corpus, d)
    BY <1>2 DEF CorpusGrows, Grow
  <2>2. UNCHANGED <<batches, entered>>
    BY <1>2 DEF CorpusGrows, textIndex
  <2>3. Exact(corpus, batches, entered) => Exact(corpus', batches, entered)
    BY <1>0, <2>1, GrowExact, CountedRecords
  <2>4. QED
    BY <2>2, <2>3 DEF ExactInv
<1>3. CASE UNCHANGED <<corpus, batches, entered>>
  BY <1>3 DEF ExactInv
<1>4. CASE TextStep
  BY <1>1, <1>3, <1>4 DEF TextStep, Start, ReadCorpus, ReadRun, Advance, Indexing, RegisterCorpus,
     OpenIndex, SkipBatch, RefuseBatch, FinishIndex, textIndex
<1>5. CASE LocatorStep \/ ExtractStep \/ UNCHANGED vars
  <2>1. UNCHANGED <<corpus, batches, entered>>
    BY <1>5 DEF LocatorStep, ExtractStep, vars, textIndex, Repartition, KeepCopy, CreateMap, OpenMap,
       IndexRowGroup, FinishMap, DeleteCopy, DeleteMap, OpenReader, CloseReader, Submit,
       Extracting, EndBatch, PollTimesOut, Poll, Collect, RegisterClaims, SkipJob, WriteJob,
       MarkJob, FinishExtract
  <2>2. QED
    BY <1>3, <2>1
<1>6. QED
  BY <1>2, <1>4, <1>5 DEF Next

(* Batches of one row or two are told apart when no two documents share an id. *)
LEMMA SmallBatchesTell ==
    ASSUME CommitEvery \in 1 .. 2, NEW one \in Seq(Document), NEW other \in Seq(Document),
           \A d, e \in Document : Rowid(d) = Rowid(e) => d = e
    PROVE  Tells(one, other)
<1> SUFFICES ASSUME NEW n \in Nat,
                    n * CommitEvery + CommitEvery <= Len(one),
                    n * CommitEvery + CommitEvery <= Len(other),
                    Record(Chunk(one, CommitEvery, n)) = Record(Chunk(other, CommitEvery, n))
             PROVE  Chunk(one, CommitEvery, n) = Chunk(other, CommitEvery, n)
  BY DEF Tells
<1>1. ASSUME NEW all \in Seq(Document), n * CommitEvery + CommitEvery <= Len(all)
      PROVE  /\ Chunk(all, CommitEvery, n) \in Seq(Document)
             /\ Len(Chunk(all, CommitEvery, n)) = CommitEvery
  <2>1. Len(all) \in Nat /\ n * CommitEvery \in Nat /\ CommitEvery \in Nat \ {0}
    OBVIOUS
  <2>2. n * CommitEvery < Len(all)
    BY <1>1, <2>1
  <2>3. n < Chunks(all, CommitEvery)
    <3>1. \A k \in Nat : k < Chunks(all, CommitEvery) <=> k * CommitEvery < Len(all)
      BY <2>1, ChunkCount, Zenon
    <3>2. QED
      BY <2>2, <3>1
  <2>4. /\ Chunk(all, CommitEvery, n) \in Seq(Document)
        /\ Len(Chunk(all, CommitEvery, n)) = Least(n * CommitEvery + CommitEvery, Len(all)) - n * CommitEvery
    BY <2>1, <2>3, ChunkShape, Zenon
  <2>5. Least(n * CommitEvery + CommitEvery, Len(all)) - n * CommitEvery = CommitEvery
    BY <1>1, <2>1 DEF Least
  <2>6. QED
    BY <2>4, <2>5
<1> DEFINE a == Chunk(one, CommitEvery, n)
           b == Chunk(other, CommitEvery, n)
<1>2. a \in Seq(Document) /\ b \in Seq(Document) /\ Len(a) = CommitEvery /\ Len(b) = CommitEvery
  BY <1>1
<1>3. Rowid(a[1]) = Rowid(b[1]) /\ Rowid(a[Len(a)]) = Rowid(b[Len(b)])
  BY DEF Record
<1> HIDE DEF a, b
<1>4. a[1] = b[1] /\ a[CommitEvery] = b[CommitEvery]
  <2>1. a[1] \in Document /\ b[1] \in Document /\ a[CommitEvery] \in Document /\ b[CommitEvery] \in Document
    BY <1>2
  <2>2. Rowid(a[CommitEvery]) = Rowid(b[CommitEvery])
    BY <1>2, <1>3, Zenon
  <2>3. QED
    BY <1>3, <2>1, <2>2, Zenon
<1>5. a = [k \in 1 .. CommitEvery |-> a[k]] /\ b = [k \in 1 .. CommitEvery |-> b[k]]
  BY <1>2
<1>6. \A k \in 1 .. CommitEvery : k = 1 \/ k = CommitEvery
  OBVIOUS
<1>7. a = b
  BY <1>4, <1>5, <1>6
<1>8. QED
  BY <1>7 DEF a, b

(***************************************************************************)
(* The index holds each row of its recorded batches once, of the corpus or *)
(* of the run, as long as no two whole batches of the two that differ have *)
(* one record: the check compares no more than a count and two ids.        *)
(***************************************************************************)
THEOREM IndexExactTheorem == Spec /\ []RecordsTell => []IndexExact
<1>1. ExactInv => IndexExact
  <2>1. Covered(corpus) = InBatches(corpus, batches) /\ Covered(RunDocuments) = InBatches(RunDocuments, batches)
    BY DEF Covered, InBatches
  <2>2. QED
    BY <2>1 DEF ExactInv, Exact, At, IndexExact, HoldsPrefixOf
<1>2. Init => Inv /\ RecordInv /\ KindInv /\ ExactInv
  BY Initial, RecordsInitially, KindInitially, ExactInitially
<1>3. Inv /\ RecordInv /\ KindInv /\ ExactInv /\ RecordsTell /\ [Next]_vars
        => (Inv /\ RecordInv /\ KindInv /\ ExactInv)'
  BY Inductive, RecordStep, KindStep, ExactStep DEF Inv
<1>4. QED
  BY <1>1, <1>2, <1>3, PTL DEF Spec

=============================================================================
