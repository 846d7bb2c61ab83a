----------------------------- MODULE ApiProofs -----------------------------
(***************************************************************************)
(* Theorems about Api, for every number of threads, claims and documents   *)
(* and every bound: the shared client, run and ingestor are each made      *)
(* once; an answer rests on claims that are in the graph and on documents  *)
(* it cites, and what it fetched it finds in the cache again; what a walk  *)
(* over pages reads, while others write, misses nothing unless it says so: *)
(* so the panel has every dispute of its epoch, and a supported answer     *)
(* stands on no disputed claim.                                            *)
(***************************************************************************)
EXTENDS Api, TLAPS, FiniteSetTheorems, WellFoundedInduction

-----------------------------------------------------------------------------
(* Double-checked construction. *)

Locking == {"recheck", "build"}

(* The lock is held between the second check and the publication, and an   *)
(* instance that is made but not published is the one its holder builds.   *)
LockInv ==
    /\ DOMAIN pc = Thread /\ init \in Thread \cup {NoThread}
    /\ want \in [Thread -> Instance] /\ made \in [Instance -> Nat] /\ shared \subseteq Instance
    /\ \A t \in Thread : init = t <=> pc[t] \in Locking
    /\ \A i \in shared : made[i] = 1
    /\ \A i \in Instance \ shared : made[i] = 0 \/ (made[i] = 1 /\ \E t \in Thread : pc[t] = "build" /\ want[t] = i)
    /\ \A t \in Thread : pc[t] = "build" => want[t] \notin shared /\ made[want[t]] = 1

LEMMA LockInitially == ApiInit => LockInv
BY ApiAssumption DEF ApiInit, LockInv, Locking, Instance

(* A thread that moves outside the lock. *)
LEMMA MoveFrame ==
    ASSUME LockInv, UNCHANGED <<init, want, made, shared>>, NEW t \in Thread, NEW place,
           pc[t] \notin Locking, place \notin Locking, pc' = [pc EXCEPT ![t] = place] \/ UNCHANGED pc
    PROVE  LockInv'
<1>1. DOMAIN pc' = Thread /\ \A s \in Thread : pc'[s] = pc[s] \/ (pc[s] \notin Locking /\ pc'[s] \notin Locking)
  BY DEF LockInv
<1>2. \A s \in Thread : (pc'[s] = "build") = (pc[s] = "build") /\ (pc'[s] \in Locking) = (pc[s] \in Locking)
  BY <1>1 DEF Locking
<1>3. QED
  BY <1>1, <1>2 DEF LockInv

(* Answering a question and showing the panel need no construction. *)
LEMMA AnsweringMoves ==
    ASSUME NEW t \in Thread, Answering(t)
    PROVE  /\ pc[t] \notin Locking
           /\ \E place : place \notin Locking /\ (pc' = [pc EXCEPT ![t] = place] \/ UNCHANGED pc)
<1> USE DEF Goto, Locking
<1>1. CASE Retrieve(t) \/ Commit(t) \/ Reconcile(t) \/ ReconcileFails(t) \/ Execute(t)
             \/ Disconnect(t) \/ Note(t)
  BY <1>1 DEF Retrieve, Commit, Reconcile, ReconcileFails, Execute, Disconnect, Note
<1>2. CASE Ingested(t) \/ Fetch(t) \/ Gather(t) \/ Relate(t) \/ FetchRelated(t) \/ CheckRelated(t)
             \/ Abstain(t) \/ Synthesise(t)
  BY <1>2 DEF Ingested, Fetch, Gather, Relate, FetchRelated, CheckRelated, Gathered, Abstain, Synthesise
<1>3. CASE Validate(t) \/ ReadDisputes(t) \/ Conclude(t) \/ Probe(t) \/ Probed(t) \/ Raise(t)
  BY <1>3 DEF Validate, ReadDisputes, Conclude, Probe, Probed, Raise
<1>4. QED
  BY <1>1, <1>2, <1>3 DEF Answering

LEMMA ServingMoves ==
    ASSUME NEW t \in Thread,
           Accept(t) \/ Trim(t) \/ Count(t) \/ Counted(t) \/ ProbeClaims(t)
             \/ ReadClaimPage(t) \/ ReadIdentity(t) \/ Return(t)
    PROVE  /\ pc[t] \notin Locking /\ UNCHANGED <<init, want, made, shared>>
           /\ \E place : place \notin Locking /\ (pc' = [pc EXCEPT ![t] = place] \/ UNCHANGED pc)
<1> USE DEF Goto, Locking
<1>1. CASE Accept(t) \/ Trim(t) \/ Count(t) \/ Counted(t)
  BY <1>1 DEF Accept, Trim, Count, Counted, api
<1>2. CASE ProbeClaims(t) \/ ReadIdentity(t) \/ Return(t)
  BY <1>2 DEF ProbeClaims, ReadIdentity, Return
<1>3. CASE ReadClaimPage(t)
  BY <1>3 DEF ReadClaimPage
<1>4. QED
  BY <1>1, <1>2, <1>3

LEMMA CheckKeeps ==
    ASSUME LockInv, NEW t \in Thread, Check(t)
    PROVE  LockInv'
<1>1. UNCHANGED <<init, made, shared>> /\ pc[t] = "check"
  BY DEF Check
<1>2. PICK place \in {"await", "count", "trace", "trim", "retrieve"} : pc' = [pc EXCEPT ![t] = place]
  BY DEF Check, Goto
<1>3. want' \in [Thread -> Instance] /\ \A s \in Thread : s # t => want'[s] = want[s]
  BY DEF Check, First, Instance, LockInv
<1>4. DOMAIN pc' = Thread /\ pc'[t] = place /\ \A s \in Thread : s # t => pc'[s] = pc[s]
  BY <1>2 DEF LockInv
<1>5. \A s \in Thread : (pc'[s] \in Locking) = (pc[s] \in Locking) /\ (pc'[s] = "build") = (pc[s] = "build")
  BY <1>1, <1>2, <1>4 DEF Locking
<1>6. \A s \in Thread : pc[s] = "build" => want'[s] = want[s]
  BY <1>1, <1>3
<1>7. QED
  BY <1>1, <1>3, <1>4, <1>5, <1>6 DEF LockInv

LEMMA AcquireKeeps ==
    ASSUME LockInv, NEW t \in Thread, Acquire(t)
    PROVE  LockInv'
<1>1. /\ init = NoThread /\ init' = t /\ pc[t] = "await" /\ pc' = [pc EXCEPT ![t] = "recheck"]
      /\ UNCHANGED <<want, made, shared>>
  BY DEF Acquire, Goto
<1>2. \A s \in Thread : pc[s] \notin Locking
  BY <1>1, ApiAssumption DEF LockInv
<1>3. DOMAIN pc' = Thread /\ \A s \in Thread : pc'[s] = IF s = t THEN "recheck" ELSE pc[s]
  BY <1>1 DEF LockInv
<1>4. \A s \in Thread : pc'[s] # "build" /\ pc[s] # "build"
  BY <1>2, <1>3 DEF Locking
<1>5. \A s \in Thread : init' = s <=> pc'[s] \in Locking
  BY <1>1, <1>2, <1>3 DEF Locking
<1>6. QED
  BY <1>1, <1>3, <1>4, <1>5 DEF LockInv

(* What the holder of the lock does is done while nobody builds. *)
LEMMA RecheckKeeps ==
    ASSUME LockInv, NEW t \in Thread, Recheck(t)
    PROVE  LockInv'
<1>1. pc[t] = "recheck" /\ init = t /\ UNCHANGED <<want, shared>> /\ want[t] \in Instance
  BY DEF Recheck, LockInv, Locking
<1>2. \A s \in Thread : s # t => pc[s] \notin Locking
  BY <1>1 DEF LockInv
<1>3. \A s \in Thread : pc[s] # "build"
  BY <1>1, <1>2 DEF Locking
<1>4. CASE want[t] \notin shared
  <2>1. /\ made' = [made EXCEPT ![want[t]] = @ + 1]
        /\ pc' = [pc EXCEPT ![t] = "build"] /\ UNCHANGED init
    BY <1>4 DEF Recheck, StillMissing, Goto
  <2>2. made[want[t]] = 0
    BY <1>1, <1>3, <1>4 DEF LockInv
  <2>3. made' \in [Instance -> Nat] /\ made'[want[t]] = 1 /\ \A i \in Instance : i # want[t] => made'[i] = made[i]
    BY <1>1, <2>1, <2>2 DEF LockInv
  <2>4. DOMAIN pc' = Thread /\ pc'[t] = "build" /\ \A s \in Thread : s # t => pc'[s] = pc[s]
    BY <2>1 DEF LockInv
  <2>5. \A s \in Thread : init' = s <=> pc'[s] \in Locking
    BY <1>1, <1>2, <2>1, <2>4 DEF Locking
  <2>6. \A s \in Thread : pc'[s] = "build" => s = t
    BY <1>3, <2>4
  <2>7. \A i \in Instance \ shared : made'[i] = 0 \/ (made'[i] = 1 /\ \E s \in Thread : pc'[s] = "build" /\ want[s] = i)
    BY <1>3, <2>3, <2>4 DEF LockInv
  <2>8. \A i \in shared : made'[i] = 1
    BY <1>4, <2>3 DEF LockInv
  <2>9. QED
    BY <1>1, <1>4, <2>1, <2>3, <2>4, <2>5, <2>6, <2>7, <2>8 DEF LockInv
<1>5. CASE want[t] \in shared
  <2>1. pc' = [pc EXCEPT ![t] = "check"] /\ init' = NoThread /\ UNCHANGED made
    BY <1>5 DEF Recheck, StillMissing, Goto
  <2>2. DOMAIN pc' = Thread /\ \A s \in Thread : pc'[s] \notin Locking /\ pc'[s] # "build"
    BY <1>2, <2>1 DEF LockInv, Locking
  <2>3. \A s \in Thread : init' = s <=> pc'[s] \in Locking
    BY <2>1, <2>2, ApiAssumption
  <2>4. QED
    BY <1>1, <1>3, <2>1, <2>2, <2>3 DEF LockInv
<1>6. QED
  BY <1>4, <1>5

LEMMA BuiltKeeps ==
    ASSUME LockInv, NEW t \in Thread, Publish(t) \/ FailToBuild(t)
    PROVE  LockInv'
<1>1. pc[t] = "build" /\ init = t /\ init' = NoThread /\ UNCHANGED want /\ want[t] \in Instance
  BY DEF Publish, FailToBuild, LockInv, Locking
<1>2. \A s \in Thread : s # t => pc[s] \notin Locking
  BY <1>1 DEF LockInv
<1>3. PICK place \in {"check", "idle"} : pc' = [pc EXCEPT ![t] = place]
  BY DEF Publish, FailToBuild, Goto
<1>4. DOMAIN pc' = Thread /\ \A s \in Thread : pc'[s] \notin Locking /\ pc'[s] # "build"
  BY <1>2, <1>3 DEF LockInv, Locking
<1>5. \A s \in Thread : init' = s <=> pc'[s] \in Locking
  BY <1>1, <1>4, ApiAssumption
<1>6. \A s \in Thread : pc[s] = "build" => s = t
  BY <1>2 DEF Locking
<1>7. made[want[t]] = 1 /\ want[t] \notin shared
  BY <1>1 DEF LockInv
<1>8. \A i \in Instance \ shared : i # want[t] => made[i] = 0
  BY <1>6 DEF LockInv
<1>9. CASE Publish(t)
  <2>1. shared' = shared \cup {want[t]} /\ UNCHANGED made
    BY <1>9 DEF Publish
  <2>2. QED
    BY <1>1, <1>4, <1>5, <1>7, <1>8, <2>1 DEF LockInv
<1>10. CASE FailToBuild(t)
  <2>1. made' = [made EXCEPT ![want[t]] = @ - 1] /\ UNCHANGED shared
    BY <1>10 DEF FailToBuild
  <2>2. made' \in [Instance -> Nat] /\ made'[want[t]] = 0 /\ \A i \in Instance : i # want[t] => made'[i] = made[i]
    BY <1>1, <1>7, <2>1 DEF LockInv
  <2>3. QED
    BY <1>1, <1>4, <1>5, <1>7, <1>8, <2>1, <2>2 DEF LockInv
<1>11. QED
  BY <1>9, <1>10

LEMMA LockStep ==
    ASSUME LockInv, [ApiNext]_vars
    PROVE  LockInv'
<1>1. CASE UNCHANGED vars
  BY <1>1 DEF vars, api, controller, LockInv
<1>2. CASE Outside
  BY <1>2 DEF Outside, api, LockInv
<1>3. ASSUME NEW t \in Thread, Serve(t) PROVE LockInv'
  <2>1. CASE Answering(t) /\ UNCHANGED api
    <3>1. UNCHANGED <<init, want, made, shared>>
      BY <2>1 DEF api
    <3>2. QED
      BY <2>1, <3>1, AnsweringMoves, MoveFrame
  <2>2. CASE Accept(t) \/ Trim(t) \/ Count(t) \/ Counted(t) \/ ProbeClaims(t)
               \/ ReadClaimPage(t) \/ ReadIdentity(t) \/ Return(t)
    BY <2>2, ServingMoves, MoveFrame
  <2>3. CASE Check(t)
    BY <2>3, CheckKeeps
  <2>4. CASE Acquire(t)
    BY <2>4, AcquireKeeps
  <2>5. CASE Recheck(t)
    BY <2>5, RecheckKeeps
  <2>6. CASE Publish(t) \/ FailToBuild(t)
    BY <2>6, BuiltKeeps
  <2>7. QED
    BY <1>3, <2>1, <2>2, <2>3, <2>4, <2>5, <2>6 DEF Serve
<1>4. QED
  BY <1>1, <1>2, <1>3 DEF ApiNext

(***************************************************************************)
(* There is one client, one run and one ingestor, however many requests    *)
(* arrive together and however often a construction fails.                 *)
(***************************************************************************)
THEOREM OneOfEachTheorem == ApiSpec => []OneOfEach
<1>1. LockInv => OneOfEach
  BY DEF LockInv, OneOfEach
<1>2. QED
  BY <1>1, LockInitially, LockStep, PTL DEF ApiSpec

-----------------------------------------------------------------------------
(* What an answer rests on. *)

Noting == {"note", "probe", "counting"}

(* Every snapshot is of the past, and claims are never taken back. *)
LogInv ==
    /\ \E S : log \in Seq(S)
    /\ \A i \in DOMAIN log : log[i].claims \subseteq claims
    /\ bookmark \in Nat \ {0}

(* Claims of the graph whose quotes are verbatim in their documents. *)
Grounded == claims \cap Verbatim

Rests(r) == r.used # {} /\ DocsOf(r.used) \subseteq r.cited

Holds(t) ==
    /\ DOMAIN q[t] = DOMAIN Blank
    /\ q[t].evidence \subseteq Grounded /\ q[t].extra \subseteq Grounded /\ q[t].used \subseteq Grounded
    /\ q[t].reached \subseteq claims
    /\ q[t].verdict \in {"none", "supported", "conflicting", "insufficient"}
    /\ pc[t] # "trace" => q[t].verdict = "none"
    /\ pc[t] = "contest" \/ q[t].verdict \in {"supported", "conflicting"} => Rests(q[t])
    /\ q[t].verdict = "insufficient" => q[t].used = {} /\ q[t].cited = {}
    /\ pc[t] \in Noting => q[t].at \in Nat \ {0}

GroundInv ==
    /\ LogInv
    /\ DOMAIN pc = Thread /\ DOMAIN q = Thread
    /\ \A t \in Thread : Holds(t)

LEMMA GroundInitially == ApiInit => GroundInv
<1> SUFFICES ASSUME ApiInit PROVE GroundInv
  OBVIOUS
<1>1. DOMAIN pc = Thread /\ DOMAIN q = Thread /\ \A t \in Thread : pc[t] = "idle" /\ q[t] = Blank
  BY DEF ApiInit
<1>2. claims = {} /\ log = <<Snapshot>> /\ bookmark = 1
  BY DEF ApiInit, ClientInit, Init
<1>3. log \in Seq({Snapshot}) /\ DOMAIN log = {1} /\ log[1].claims = claims
  BY <1>2 DEF Snapshot
<1>4. \A t \in Thread : Holds(t)
  BY <1>1 DEF Holds, Blank, Noting
<1>5. LogInv
  <2>1. \E S : log \in Seq(S)
    BY <1>3
  <2>2. \A i \in DOMAIN log : log[i].claims \subseteq claims
    BY <1>3
  <2>3. bookmark \in Nat \ {0}
    BY <1>2
  <2>4. QED
    BY <2>1, <2>2, <2>3 DEF LogInv
<1>6. QED
  BY <1>1, <1>4, <1>5 DEF GroundInv

(* A snapshot more. *)
LEMMA LogGrows ==
    ASSUME LogInv, claims \subseteq claims', log' = Append(log, Snapshot') \/ UNCHANGED log,
           bookmark' \in Nat \ {0}
    PROVE  LogInv'
<1>1. PICK S : log \in Seq(S)
  BY DEF LogInv
<1>2. CASE log' = Append(log, Snapshot')
  <2>1. log' \in Seq(S \cup {Snapshot'})
    BY <1>1, <1>2
  <2>2. DOMAIN log' = 1 .. Len(log) + 1 /\ DOMAIN log = 1 .. Len(log) /\ Len(log) \in Nat
        /\ (\A i \in DOMAIN log : log'[i] = log[i]) /\ log'[Len(log) + 1] = Snapshot'
    BY <1>1, <1>2
  <2>3. Snapshot'.claims = claims'
    BY DEF Snapshot
  <2>4. \A i \in DOMAIN log' : log'[i].claims \subseteq claims'
    BY <2>2, <2>3 DEF LogInv
  <2>5. QED
    BY <2>1, <2>4 DEF LogInv
<1>3. CASE UNCHANGED log
  BY <1>3 DEF LogInv
<1>4. QED
  BY <1>2, <1>3

(* What a statement can see is in the graph now. *)
LEMMA ReadableClaims ==
    ASSUME LogInv, NEW v \in Readable
    PROVE  log[v].claims \subseteq claims /\ v \in Nat \ {0}
<1>1. PICK S : log \in Seq(S)
  BY DEF LogInv
<1>2. DOMAIN log = 1 .. Len(log) /\ Len(log) \in Nat
  BY <1>1
<1>3. v \in 1 .. Len(log)
  BY <1>2 DEF LogInv, Readable
<1>4. QED
  BY <1>2, <1>3 DEF LogInv

(* A thread that goes on without touching what its answer rests on. *)
LEMMA HoldsQuiet ==
    ASSUME NEW t, Holds(t), claims \subseteq claims',
           DOMAIN q'[t] = DOMAIN q[t],
           q'[t].evidence = q[t].evidence, q'[t].extra = q[t].extra, q'[t].used = q[t].used,
           q'[t].reached = q[t].reached, q'[t].cited = q[t].cited, q'[t].verdict = q[t].verdict,
           pc'[t] = "contest" => pc[t] = "contest",
           pc[t] = "trace" => pc'[t] = "trace",
           pc'[t] \in Noting => q'[t].at \in Nat \ {0}
    PROVE  Holds(t)'
BY DEF Holds, Grounded, Rests, Blank

LEMMA HoldsSame ==
    ASSUME NEW t, Holds(t), claims \subseteq claims', q'[t] = q[t], pc'[t] = pc[t]
    PROVE  Holds(t)'
BY DEF Holds, Grounded, Rests, Blank

LEMMA HoldsBlank ==
    ASSUME NEW t, NEW v \in Nat \ {0},
           (q'[t] = Blank /\ pc'[t] \notin Noting) \/ q'[t] = [Blank EXCEPT !.at = v], pc'[t] # "contest"
    PROVE  Holds(t)'
<1>1. Blank.evidence = {} /\ Blank.reached = {} /\ Blank.extra = {} /\ Blank.used = {}
      /\ Blank.verdict = "none"
  BY DEF Blank
<1>2. DOMAIN Blank = DOMAIN [Blank EXCEPT !.at = v] /\ "at" \in DOMAIN Blank
  BY DEF Blank
<1>3. CASE q'[t] = Blank /\ pc'[t] \notin Noting
  <2>1. DOMAIN Blank' = DOMAIN Blank
    BY DEF Blank
  <2>2. QED
    BY <1>1, <1>3, <2>1 DEF Holds
<1>4. CASE q'[t] = [Blank EXCEPT !.at = v]
  <2>1. q'[t].evidence = {} /\ q'[t].reached = {} /\ q'[t].extra = {} /\ q'[t].used = {}
        /\ q'[t].verdict = "none" /\ q'[t].at = v
    BY <1>1, <1>2, <1>4
  <2>2. DOMAIN q'[t] = DOMAIN Blank'
    BY <1>2, <1>4 DEF Blank
  <2>3. QED
    BY <2>1, <2>2 DEF Holds
<1>5. QED
  BY <1>3, <1>4

(* One thread moves, over a graph whose claims stay or grow. *)
LEMMA OneThread ==
    ASSUME GroundInv, NEW t \in Thread, claims \subseteq claims', LogInv', Holds(t)',
           DOMAIN pc' = Thread, DOMAIN q' = Thread,
           \A s \in Thread : s # t => q'[s] = q[s] /\ pc'[s] = pc[s]
    PROVE  GroundInv'
<1>1. ASSUME NEW s \in Thread PROVE Holds(s)'
  <2>1. CASE s = t
    BY <2>1
  <2>2. CASE s # t
    BY <2>2, HoldsSame DEF GroundInv
  <2>3. QED
    BY <2>1, <2>2
<1>2. QED
  BY <1>1 DEF GroundInv

(* The graph and the client as a thread leaves them. *)
LEMMA LogKept ==
    ASSUME LogInv, UNCHANGED <<claims, log, bookmark>>
    PROVE  LogInv'
BY DEF LogInv

LEMMA WritesKeep ==
    ASSUME GroundInv, NEW t \in Thread, Execute(t) \/ Disconnect(t) \/ Note(t)
    PROVE  GroundInv'
<1> USE DEF Goto
<1>1. claims \subseteq claims' /\ (log' = Append(log, Snapshot') \/ UNCHANGED log)
  BY DEF Execute, Disconnect, Note, Apply, promised
<1>2. bookmark' \in Nat \ {0}
  BY DEF Execute, Disconnect, Note, Remember, GroundInv, LogInv, Holds, Noting
<1>3. LogInv'
  BY <1>1, <1>2, LogGrows DEF GroundInv
<1>4. PICK S : log \in Seq(S)
  BY DEF GroundInv, LogInv
<1>5. Len(log) + 1 \in Nat \ {0}
  BY <1>4
<1>6. pc[t] \in {"write", "note"} /\ Holds(t) /\ DOMAIN q[t] = DOMAIN Blank
      /\ DOMAIN pc = Thread /\ DOMAIN q = Thread
  BY DEF Execute, Disconnect, Note, GroundInv, Holds
<1>7. /\ DOMAIN pc' = Thread /\ DOMAIN q' = Thread
      /\ \A s \in Thread : s # t => q'[s] = q[s] /\ pc'[s] = pc[s]
  BY <1>6 DEF Execute, Disconnect, Note
<1> DEFINE Same ==
      /\ pc'[t] \in {"write", "note", "ingest"} /\ DOMAIN q'[t] = DOMAIN q[t]
      /\ q'[t].evidence = q[t].evidence /\ q'[t].extra = q[t].extra /\ q'[t].used = q[t].used
      /\ q'[t].reached = q[t].reached /\ q'[t].cited = q[t].cited /\ q'[t].verdict = q[t].verdict
      /\ pc'[t] \in Noting => q'[t].at \in Nat \ {0}
<1>8. Same \/ (q'[t] = Blank /\ pc'[t] = "idle")
  <2>1. CASE Execute(t)
    BY <1>5, <1>6, <2>1 DEF Execute, Blank
  <2>2. CASE Note(t)
    BY <1>6, <2>2 DEF Note, Noting, Blank
  <2>3. CASE Disconnect(t)
    <3>0. {"tries", "write", "evidence", "reached", "extra", "used", "cited", "verdict"} \subseteq DOMAIN q[t]
      BY <1>6 DEF Blank
    <3>1. CASE q' = [q EXCEPT ![t].tries = @ + 1] /\ pc' = pc
      BY <1>6, <2>3, <3>0, <3>1 DEF Disconnect, Noting
    <3>2. CASE q' = [q EXCEPT ![t].tries = 0, ![t].write = NoWrite] /\ pc' = [pc EXCEPT ![t] = "ingest"]
      BY <1>6, <3>0, <3>2 DEF Noting
    <3>3. CASE q' = [q EXCEPT ![t] = Blank] /\ pc' = [pc EXCEPT ![t] = "idle"]
      BY <1>6, <3>3
    <3>4. QED
      BY <2>3, <3>1, <3>2, <3>3 DEF Disconnect
  <2>4. QED
    BY <2>1, <2>2, <2>3
<1>9. Same => Holds(t)'
  BY <1>1, <1>6, HoldsQuiet
<1>10. Holds(t)'
  <2>1. 1 \in Nat \ {0} /\ "idle" \notin Noting
    BY DEF Noting
  <2>2. QED
    BY <1>8, <1>9, <2>1, HoldsBlank
<1>11. QED
  BY <1>1, <1>3, <1>7, <1>10, OneThread

LEMMA AsksKeep ==
    ASSUME GroundInv, NEW t \in Thread,
           Retrieve(t) \/ Commit(t) \/ Reconcile(t) \/ ReconcileFails(t) \/ Ingested(t)
             \/ Fetch(t) \/ FetchRelated(t)
    PROVE  GroundInv'
<1> USE DEF Goto
<1>1. UNCHANGED <<claims, log, bookmark>>
  BY DEF Retrieve, Commit, Reconcile, ReconcileFails, Ingested, Fetch, FetchRelated, hydra, promised
<1>2. LogInv' /\ claims \subseteq claims'
  BY <1>1, LogKept DEF GroundInv
<1>3. /\ pc[t] \in {"retrieve", "ingest", "gather", "related"} /\ Holds(t) /\ DOMAIN q[t] = DOMAIN Blank
      /\ DOMAIN pc = Thread /\ DOMAIN q = Thread
  BY DEF Retrieve, Commit, Reconcile, ReconcileFails, Ingested, Fetch, FetchRelated, GroundInv, Holds
<1>4. /\ DOMAIN pc' = Thread /\ DOMAIN q' = Thread
      /\ \A s \in Thread : s # t => q'[s] = q[s] /\ pc'[s] = pc[s]
  BY <1>3 DEF Retrieve, Commit, Reconcile, ReconcileFails, Ingested, Fetch, FetchRelated
<1>5. pc'[t] \in {"ingest", "write", "gather", "claims", "quote"}
  BY <1>3 DEF Retrieve, Commit, Reconcile, ReconcileFails, Ingested, Fetch, FetchRelated
<1>6. /\ DOMAIN q'[t] = DOMAIN q[t]
      /\ q'[t].evidence = q[t].evidence /\ q'[t].extra = q[t].extra /\ q'[t].used = q[t].used
      /\ q'[t].reached = q[t].reached /\ q'[t].cited = q[t].cited /\ q'[t].verdict = q[t].verdict
  <2>1. {"candidates", "committed", "write", "doc", "todo", "since", "evidence", "reached", "extra",
         "used", "cited", "verdict"} \subseteq DOMAIN q[t]
    BY <1>3 DEF Blank
  <2>2. CASE Retrieve(t)
    <3>1. PICK docs : q' = [q EXCEPT ![t].candidates = docs]
      BY <2>2 DEF Retrieve
    <3>2. QED
      BY <1>3, <2>1, <3>1
  <2>3. CASE Commit(t)
    <3>1. PICK w, d : q' = [q EXCEPT ![t].write = w, ![t].committed = @ \cup {d}]
      BY <2>3 DEF Commit
    <3>2. QED
      BY <1>3, <2>1, <3>1
  <2>4. CASE Reconcile(t)
    <3>1. PICK w : q' = [q EXCEPT ![t].write = w, ![t].committed = {}]
      BY <2>4 DEF Reconcile
    <3>2. QED
      BY <1>3, <2>1, <3>1
  <2>5. CASE Ingested(t)
    <3>1. q' = [q EXCEPT ![t].todo = q[t].candidates, ![t].candidates = {}, ![t].since = bookmark]
      BY <2>5 DEF Ingested
    <3>2. QED
      BY <1>3, <2>1, <3>1
  <2>6. CASE Fetch(t)
    <3>1. PICK d : q' = [q EXCEPT ![t].doc = {d}, ![t].todo = @ \ {d}]
      BY <2>6 DEF Fetch
    <3>2. QED
      BY <1>3, <2>1, <3>1
  <2>7. CASE ReconcileFails(t)
    <3>1. q' = [q EXCEPT ![t].committed = {}]
      BY <2>7 DEF ReconcileFails
    <3>2. QED
      BY <1>3, <2>1, <3>1
  <2>8. CASE FetchRelated(t)
    <3>1. PICK d : q' = [q EXCEPT ![t].doc = {d}]
      BY <2>8 DEF FetchRelated
    <3>2. QED
      BY <1>3, <2>1, <3>1
  <2>9. QED
    BY <2>2, <2>3, <2>4, <2>5, <2>6, <2>7, <2>8
<1>7. Holds(t)'
  BY <1>2, <1>3, <1>5, <1>6, HoldsQuiet DEF Noting
<1>8. QED
  BY <1>2, <1>4, <1>7, OneThread

(* A thread that leaves the graph alone and changes what it holds, and where it is. *)
LEMMA Turn ==
    ASSUME GroundInv, NEW t \in Thread, UNCHANGED <<claims, log, bookmark>>,
           NEW r, q' = [q EXCEPT ![t] = r],
           NEW place, pc' = [pc EXCEPT ![t] = place] \/ UNCHANGED pc,
           Holds(t)'
    PROVE  GroundInv'
<1>1. LogInv' /\ claims \subseteq claims'
  BY LogKept DEF GroundInv
<1>2. /\ DOMAIN pc' = Thread /\ DOMAIN q' = Thread
      /\ \A s \in Thread : s # t => q'[s] = q[s] /\ pc'[s] = pc[s]
  BY DEF GroundInv
<1>3. QED
  BY <1>1, <1>2, OneThread

Known == {"candidates", "committed", "write", "tries", "at", "since", "doc", "todo", "evidence",
          "reached", "extra", "rejected", "cut", "cited", "used", "stated", "side", "page", "seen", "sure",
          "truncated", "found", "verdict"}

LEMMA KnownFields == DOMAIN Blank = Known /\ DOMAIN Blank' = Known
BY DEF Blank, Known

LEMMA AbstainingHolds ==
    ASSUME NEW t \in Thread, Holds(t), UNCHANGED claims, DOMAIN q' = Thread,
           q'[t] = Abstaining(q[t]), pc'[t] = "trace"
    PROVE  Holds(t)'
<1>1. DOMAIN q[t] = Known
  BY KnownFields DEF Holds
<1>2. /\ DOMAIN q'[t] = Known /\ q'[t].evidence = {} /\ q'[t].extra = {} /\ q'[t].used = {}
      /\ q'[t].reached = q[t].reached /\ q'[t].cited = {} /\ q'[t].verdict = "insufficient"
  BY <1>1 DEF Abstaining, Known
<1>3. QED
  BY <1>2, KnownFields DEF Holds, Noting

LEMMA GatherKeeps ==
    ASSUME GroundInv, NEW t \in Thread, Gather(t) \/ Relate(t) \/ CheckRelated(t) \/ Abstain(t)
    PROVE  GroundInv'
<1> USE DEF Goto
<1>1. UNCHANGED <<claims, log, bookmark>>
  BY DEF Gather, Relate, CheckRelated, Abstain, hydra, promised
<1>2. /\ Holds(t) /\ DOMAIN q[t] = Known /\ DOMAIN pc = Thread /\ DOMAIN q = Thread
  BY KnownFields DEF GroundInv, Holds
<1>3. CASE Gather(t)
  <2> DEFINE Rows(u) == log[u].claims \cap ClaimsOf(q[t].doc)
  <2>0. PICK v \in Readable :
          q' = [q EXCEPT ![t].doc = {}, ![t].evidence = @ \cup Checked(Rows(v)),
                         ![t].rejected = @ \cup (Rows(v) \ Checked(Rows(v)))]
    BY <1>3 DEF Gather
  <2> DEFINE good == Checked(Rows(v))
             refused == Rows(v) \ Checked(Rows(v))
  <2>2. good \subseteq Grounded
    BY ReadableClaims DEF GroundInv, Checked, Grounded
  <2> HIDE DEF good, refused
  <2>1. q' = [q EXCEPT ![t].doc = {}, ![t].evidence = @ \cup good, ![t].rejected = @ \cup refused]
    BY <2>0 DEF good, refused
  <2>3. pc[t] = "claims" /\ pc' = [pc EXCEPT ![t] = "gather"] /\ pc'[t] = "gather"
    BY <1>2, <1>3 DEF Gather
  <2>4. /\ DOMAIN q'[t] = Known /\ q'[t].evidence = q[t].evidence \cup good
        /\ q'[t].reached = q[t].reached /\ q'[t].extra = q[t].extra /\ q'[t].used = q[t].used
        /\ q'[t].verdict = q[t].verdict
    BY <1>2, <2>1 DEF Known
  <2>5. Holds(t)'
    BY <1>1, <1>2, <2>2, <2>3, <2>4, KnownFields DEF Holds, Grounded, Noting
  <2>6. QED
    BY <1>1, <2>1, <2>3, <2>5, Turn
<1>4. CASE Relate(t)
  <2>1. PICK some :
            (\E v \in Readable : some \subseteq log[v].claims) /\ q' = [q EXCEPT ![t].reached = some]
    BY <1>4 DEF Relate
  <2>2. some \subseteq claims
    BY <2>1, ReadableClaims DEF GroundInv
  <2>3. pc[t] = "gather" /\ pc' = [pc EXCEPT ![t] = "related"] /\ pc'[t] = "related"
    BY <1>2, <1>4 DEF Relate
  <2>4. /\ DOMAIN q'[t] = Known /\ q'[t].evidence = q[t].evidence /\ q'[t].reached = some
        /\ q'[t].extra = q[t].extra /\ q'[t].used = q[t].used /\ q'[t].verdict = q[t].verdict
    BY <1>2, <2>1 DEF Known
  <2>5. Holds(t)'
    BY <1>1, <1>2, <2>2, <2>3, <2>4, KnownFields DEF Holds, Grounded, Noting
  <2>6. QED
    BY <1>1, <2>1, <2>3, <2>5, Turn
<1>5. CASE CheckRelated(t)
  <2>0. PICK c \in q[t].reached :
          q' = [q EXCEPT ![t].doc = {}, ![t].reached = @ \ {c}, ![t].extra = @ \cup Checked({c}),
                         ![t].rejected = @ \cup ({c} \ Checked({c}))]
    BY <1>5 DEF CheckRelated
  <2> DEFINE good == Checked({c})
             refused == {c} \ Checked({c})
  <2>2. good \subseteq Grounded
    BY <1>2, <2>0 DEF Holds, Checked, Grounded
  <2> HIDE DEF good, refused
  <2>1. q' = [q EXCEPT ![t].doc = {}, ![t].reached = @ \ {c}, ![t].extra = @ \cup good,
                       ![t].rejected = @ \cup refused]
    BY <2>0 DEF good, refused
  <2>3. pc[t] = "quote" /\ pc' = [pc EXCEPT ![t] = "related"] /\ pc'[t] = "related"
    BY <1>2, <1>5 DEF CheckRelated
  <2>4. /\ DOMAIN q'[t] = Known /\ q'[t].evidence = q[t].evidence
        /\ q'[t].reached = q[t].reached \ {c} /\ q'[t].extra = q[t].extra \cup good
        /\ q'[t].used = q[t].used /\ q'[t].verdict = q[t].verdict
    BY <1>2, <2>1 DEF Known
  <2>5. Holds(t)'
    BY <1>1, <1>2, <2>2, <2>3, <2>4, KnownFields DEF Holds, Grounded, Noting
  <2>6. QED
    BY <1>1, <2>1, <2>3, <2>5, Turn
<1>6. CASE Abstain(t)
  <2>1. /\ q' = [q EXCEPT ![t] = Abstaining(q[t])] /\ q'[t] = Abstaining(q[t]) /\ DOMAIN q' = Thread
        /\ pc' = [pc EXCEPT ![t] = "trace"] /\ pc'[t] = "trace"
    BY <1>2, <1>6 DEF Abstain
  <2>2. Holds(t)'
    BY <1>1, <1>2, <2>1, AbstainingHolds
  <2>3. QED
    BY <1>1, <2>1, <2>2, Turn
<1>7. QED
  BY <1>3, <1>4, <1>5, <1>6

LEMMA SynthesiseKeeps ==
    ASSUME GroundInv, NEW t \in Thread, Synthesise(t)
    PROVE  GroundInv'
<1> USE DEF Goto
<1>1. UNCHANGED <<claims, log, bookmark>>
  BY DEF Synthesise, hydra, promised
<1>2. /\ Holds(t) /\ DOMAIN q[t] = Known /\ DOMAIN pc = Thread /\ DOMAIN q = Thread
  BY KnownFields DEF GroundInv, Holds
<1>0. PICK w \in Windows(q[t]) :
        \E cited \in SUBSET DocsOf(w), used \in SUBSET w :
        \E stated \in SUBSET {Object[c] : c \in used} :
            q' = [q EXCEPT ![t].cited = cited, ![t].used = used, ![t].stated = stated,
                           ![t].evidence = {}, ![t].extra = {}]
  BY DEF Synthesise
<1>3. PICK cited \in SUBSET DocsOf(w), used \in SUBSET w :
        \E stated \in SUBSET {Object[c] : c \in used} :
            q' = [q EXCEPT ![t].cited = cited, ![t].used = used, ![t].stated = stated,
                           ![t].evidence = {}, ![t].extra = {}]
  BY <1>0
<1>4. used \subseteq Grounded
  BY <1>2, <1>3 DEF Windows, Holds
<1>5. pc[t] = "related" /\ pc' = [pc EXCEPT ![t] = "validate"] /\ pc'[t] = "validate"
  BY <1>2 DEF Synthesise, Gathered
<1>6. /\ DOMAIN q'[t] = Known /\ q'[t].evidence = {} /\ q'[t].extra = {} /\ q'[t].used = used
      /\ q'[t].reached = q[t].reached /\ q'[t].verdict = q[t].verdict
  BY <1>2, <1>3 DEF Known
<1>7. Holds(t)'
  BY <1>1, <1>2, <1>4, <1>5, <1>6, KnownFields DEF Holds, Grounded, Noting
<1>8. QED
  BY <1>1, <1>3, <1>5, <1>7, Turn

(* What survives validation is of documents that did. *)
LEMMA ValidateKeeps ==
    ASSUME GroundInv, NEW t \in Thread, Validate(t)
    PROVE  GroundInv'
<1> USE DEF Goto
<1>1. UNCHANGED <<claims, log, bookmark>> /\ pc[t] = "validate"
  BY DEF Validate, hydra, promised
<1>2. /\ Holds(t) /\ DOMAIN q[t] = Known /\ DOMAIN pc = Thread /\ DOMAIN q = Thread
  BY KnownFields DEF GroundInv, Holds
<1>3. PICK cited :
        LET used == RestsOn(q[t], cited)
        IN  IF used = {}
            THEN q' = [q EXCEPT ![t] = Abstaining(@)] /\ Goto(t, "trace")
            ELSE /\ q' = [q EXCEPT ![t].cited = cited, ![t].used = used, ![t].todo = DocsOf(used)]
                 /\ Goto(t, "contest")
  BY DEF Validate
<1>4. CASE RestsOn(q[t], cited) = {}
  <2>1. /\ q' = [q EXCEPT ![t] = Abstaining(q[t])] /\ q'[t] = Abstaining(q[t]) /\ DOMAIN q' = Thread
        /\ pc' = [pc EXCEPT ![t] = "trace"] /\ pc'[t] = "trace"
    BY <1>2, <1>3, <1>4
  <2>2. Holds(t)'
    BY <1>1, <1>2, <2>1, AbstainingHolds
  <2>3. QED
    BY <1>1, <2>1, <2>2, Turn
<1>5. CASE RestsOn(q[t], cited) # {}
  <2> DEFINE used == RestsOn(q[t], cited)
  <2>1. used # {} /\ used \subseteq Grounded /\ DocsOf(used) \subseteq cited
    BY <1>2, <1>5 DEF RestsOn, ClaimsOf, DocsOf, Holds
  <2> HIDE DEF used
  <2>2. q' = [q EXCEPT ![t].cited = cited, ![t].used = used, ![t].todo = DocsOf(used)]
    BY <1>3, <1>5 DEF used
  <2>3. pc' = [pc EXCEPT ![t] = "contest"] /\ pc'[t] = "contest"
    BY <1>2, <1>3, <1>5
  <2>4. /\ DOMAIN q'[t] = Known /\ q'[t].evidence = q[t].evidence /\ q'[t].extra = q[t].extra
        /\ q'[t].reached = q[t].reached /\ q'[t].used = used /\ q'[t].cited = cited
        /\ q'[t].verdict = q[t].verdict
    BY <1>2, <2>2 DEF Known
  <2>5. Rests(q'[t])
    BY <2>1, <2>4 DEF Rests
  <2>6. Holds(t)'
    BY <1>1, <1>2, <2>1, <2>3, <2>4, <2>5, KnownFields DEF Holds, Grounded, Noting, Rests
  <2>7. QED
    BY <1>1, <2>2, <2>3, <2>6, Turn
<1>6. QED
  BY <1>4, <1>5

LEMMA ConcludeKeeps ==
    ASSUME GroundInv, NEW t \in Thread, Conclude(t)
    PROVE  GroundInv'
<1> USE DEF Goto
<1>1. UNCHANGED <<claims, log, bookmark>> /\ pc[t] = "contest"
  BY DEF Conclude, hydra, promised
<1>2. /\ Holds(t) /\ DOMAIN q[t] = Known /\ DOMAIN pc = Thread /\ DOMAIN q = Thread
  BY KnownFields DEF GroundInv, Holds
<1>3. PICK verdict \in {"supported", "conflicting"} :
        q' = [q EXCEPT ![t].verdict = verdict, ![t].found = {}]
  BY DEF Conclude
<1>4. pc' = [pc EXCEPT ![t] = "trace"] /\ pc'[t] = "trace"
  BY <1>2 DEF Conclude
<1>5. /\ DOMAIN q'[t] = Known /\ q'[t].evidence = q[t].evidence /\ q'[t].extra = q[t].extra
      /\ q'[t].reached = q[t].reached /\ q'[t].used = q[t].used /\ q'[t].cited = q[t].cited
      /\ q'[t].verdict = verdict
  BY <1>2, <1>3 DEF Known
<1>6. Rests(q'[t])
  BY <1>1, <1>2, <1>5 DEF Holds, Rests
<1>7. Holds(t)'
  BY <1>1, <1>2, <1>3, <1>4, <1>5, <1>6, KnownFields DEF Holds, Grounded, Noting, Rests
<1>8. QED
  BY <1>1, <1>3, <1>4, <1>7, Turn

(* Looking for disputes changes nothing the answer rests on. *)
LEMMA ReadDisputesKeeps ==
    ASSUME GroundInv, NEW t \in Thread, ReadDisputes(t)
    PROVE  GroundInv'
<1>1. UNCHANGED <<claims, log, bookmark, pc>> /\ pc[t] = "contest"
  BY DEF ReadDisputes, hydra, promised
<1>2. /\ Holds(t) /\ DOMAIN q[t] = Known /\ DOMAIN pc = Thread /\ DOMAIN q = Thread
  BY KnownFields DEF GroundInv, Holds
<1> DEFINE Same(r) ==
             /\ DOMAIN r = Known /\ r.evidence = q[t].evidence /\ r.extra = q[t].extra
             /\ r.reached = q[t].reached /\ r.used = q[t].used /\ r.cited = q[t].cited
             /\ r.verdict = q[t].verdict
<1> DEFINE d == CHOOSE x \in q[t].todo : TRUE
           Rows(v) == Edges(v, d, q[t].side)
           Found(page) == q[t].found \cup {x \in page : Matters(q[t], x)}
           Sure(v, page) == q[t].sure /\ GoesOn(q[t].seen, Rows(v), RivalOf, page)
           Read(v, page) == [q[t] EXCEPT !.found = Found(page), !.sure = Sure(v, page), !.seen = Rows(v)]
<1>3. PICK v \in Readable :
        \E page \in Slice(Rows(v), RivalOf, q[t].page * DisputePage, DisputePage) :
            q' = [q EXCEPT ![t] =
                    IF Cardinality(page) < DisputePage THEN Onward(Read(v, page), d)
                    ELSE IF q[t].page + 1 < DisputeMaxPages THEN [Read(v, page) EXCEPT !.page = @ + 1]
                    ELSE [Onward(Read(v, page), d) EXCEPT !.truncated = TRUE]]
  BY DEF ReadDisputes
<1>31. PICK page :
            q' = [q EXCEPT ![t] =
                    IF Cardinality(page) < DisputePage THEN Onward(Read(v, page), d)
                    ELSE IF q[t].page + 1 < DisputeMaxPages THEN [Read(v, page) EXCEPT !.page = @ + 1]
                    ELSE [Onward(Read(v, page), d) EXCEPT !.truncated = TRUE]]
  BY <1>3
<1> HIDE DEF d, Rows, Found, Sure
<1> DEFINE read == Read(v, page)
<1>4. Same(read)
  BY <1>2 DEF Known
<1>5. \A r : Same(r) => Same(Onward(r, d)) /\ Same([r EXCEPT !.page = @ + 1])
                       /\ Same([r EXCEPT !.truncated = TRUE])
  BY DEF Onward, Known
<1> HIDE DEF Read, Same
<1>6. PICK r : Same(r) /\ q' = [q EXCEPT ![t] = r]
  <2>1. CASE Cardinality(page) < DisputePage
    BY <1>31, <1>4, <1>5, <2>1
  <2>2. CASE ~ (Cardinality(page) < DisputePage) /\ q[t].page + 1 < DisputeMaxPages
    BY <1>31, <1>4, <1>5, <2>2
  <2>3. CASE ~ (Cardinality(page) < DisputePage) /\ ~ (q[t].page + 1 < DisputeMaxPages)
    BY <1>31, <1>4, <1>5, <2>3
  <2>4. QED
    BY <2>1, <2>2, <2>3
<1>7. Same(q'[t])
  BY <1>2, <1>6
<1>8. Holds(t)'
  BY <1>1, <1>2, <1>7, HoldsQuiet DEF Same, Noting
<1>9. QED
  BY <1>1, <1>6, <1>8, Turn

(* What ends an answer, and what begins a request. *)
LEMMA BlankKeeps ==
    ASSUME GroundInv, NEW t \in Thread,
           Probe(t) \/ Raise(t) \/ Accept(t) \/ Return(t)
    PROVE  GroundInv'
<1> USE DEF Goto
<1>1. UNCHANGED <<claims, log, bookmark>> /\ DOMAIN pc = Thread /\ DOMAIN q = Thread
  BY DEF Probe, Raise, Accept, Return, hydra, promised, GroundInv
<1>2. CASE Probe(t)
  <2>1. PICK v \in Readable : q' = [q EXCEPT ![t] = [Blank EXCEPT !.at = v]]
    BY <1>2 DEF Probe
  <2>2. v \in Nat \ {0}
    BY ReadableClaims DEF GroundInv
  <2>3. pc' = [pc EXCEPT ![t] = "probe"] /\ pc'[t] = "probe"
    BY <1>1, <1>2 DEF Probe
  <2>4. q'[t] = [Blank EXCEPT !.at = v]
    BY <1>1, <2>1
  <2>5. Holds(t)'
    BY <2>2, <2>3, <2>4, HoldsBlank
  <2>6. QED
    BY <1>1, <2>1, <2>3, <2>5, Turn
<1>3. CASE Raise(t) \/ Accept(t) \/ Return(t)
  <2>1. q' = [q EXCEPT ![t] = Blank] /\ q'[t] = Blank
    BY <1>1, <1>3 DEF Raise, Accept, Return
  <2>2. PICK place \in {"idle", "check"} : pc' = [pc EXCEPT ![t] = place]
    BY <1>3 DEF Raise, Accept, Return
  <2>3. pc'[t] \notin Noting /\ pc'[t] # "contest"
    BY <1>1, <2>2 DEF Noting
  <2>4. Holds(t)'
    <3>1. 1 \in Nat \ {0}
      OBVIOUS
    <3>2. QED
      BY <2>1, <2>3, <3>1, HoldsBlank
  <2>5. QED
    BY <1>1, <2>1, <2>2, <2>4, Turn
<1>4. QED
  BY <1>2, <1>3

(* The bookmark an answer brings is of a snapshot there is. *)
LEMMA NotedKeeps ==
    ASSUME GroundInv, NEW t \in Thread, Probed(t) \/ Counted(t)
    PROVE  GroundInv'
<1> USE DEF Goto
<1>1. UNCHANGED <<claims, log, q>> /\ pc[t] \in Noting /\ bookmark' = q[t].at
      /\ pc[t] # "trace" /\ DOMAIN pc = Thread
  BY DEF Probed, Counted, Remember, promised, Noting, GroundInv
<1>2. Holds(t) /\ bookmark' \in Nat \ {0}
  BY <1>1 DEF GroundInv, Holds
<1>3. LogInv'
  BY <1>1, <1>2 DEF GroundInv, LogInv
<1>4. PICK place \in {"answered", "probe_claims"} : pc' = [pc EXCEPT ![t] = place]
  BY DEF Probed, Counted
<1>5. DOMAIN pc' = Thread /\ pc'[t] = place /\ \A s \in Thread : s # t => q'[s] = q[s] /\ pc'[s] = pc[s]
  BY <1>1, <1>4
<1>6. Holds(t)'
  BY <1>1, <1>2, <1>4, <1>5, HoldsQuiet DEF Noting
<1>7. QED
  BY <1>1, <1>3, <1>5, <1>6, OneThread DEF GroundInv

(* Steps of a request that is no question, or not one yet. *)
LEMMA ServeKeeps ==
    ASSUME GroundInv, NEW t \in Thread,
           Check(t) \/ Acquire(t) \/ Recheck(t) \/ Publish(t) \/ FailToBuild(t)
             \/ ProbeClaims(t) \/ ReadClaimPage(t) \/ ReadIdentity(t)
    PROVE  GroundInv'
<1> USE DEF Goto
<1>1. /\ UNCHANGED <<claims, log, bookmark, q>> /\ pc[t] # "trace"
      /\ \/ UNCHANGED pc
         \/ \E place : place \notin Noting \cup {"contest"} /\ pc' = [pc EXCEPT ![t] = place]
  <2> USE DEF hydra, promised, Noting
  <2>1. CASE Check(t)
    BY <2>1 DEF Check
  <2>2. CASE Acquire(t) \/ Recheck(t) \/ Publish(t) \/ FailToBuild(t)
    BY <2>2 DEF Acquire, Recheck, Publish, FailToBuild
  <2>3. CASE ProbeClaims(t) \/ ReadIdentity(t)
    BY <2>3 DEF ProbeClaims, ReadIdentity
  <2>4. CASE ReadClaimPage(t)
    BY <2>4 DEF ReadClaimPage
  <2>5. QED
    BY <2>1, <2>2, <2>3, <2>4
<1>2. /\ Holds(t) /\ DOMAIN pc = Thread /\ DOMAIN q = Thread
  BY DEF GroundInv
<1>3. CASE UNCHANGED pc
  <2>1. \A s \in Thread : Holds(s)'
    BY <1>1, <1>3, HoldsSame DEF GroundInv
  <2>2. QED
    BY <1>1, <1>2, <1>3, <2>1, LogKept DEF GroundInv
<1>4. ASSUME NEW place, place \notin Noting \cup {"contest"}, pc' = [pc EXCEPT ![t] = place]
      PROVE  GroundInv'
  <2>1. pc'[t] = place /\ DOMAIN pc' = Thread
        /\ \A s \in Thread : s # t => q'[s] = q[s] /\ pc'[s] = pc[s]
    BY <1>1, <1>2, <1>4
  <2>2. Holds(t)'
    BY <1>1, <1>2, <1>4, <2>1, HoldsQuiet
  <2>3. QED
    BY <1>1, <1>2, <2>1, <2>2, OneThread, LogKept DEF GroundInv
<1>5. QED
  BY <1>1, <1>3, <1>4

LEMMA CountKeeps ==
    ASSUME GroundInv, NEW t \in Thread, Count(t)
    PROVE  GroundInv'
<1>1. UNCHANGED <<claims, log, bookmark>> /\ pc[t] = "count"
  BY DEF Count, hydra, promised
<1>2. /\ Holds(t) /\ DOMAIN q[t] = Known /\ DOMAIN pc = Thread /\ DOMAIN q = Thread
  BY KnownFields DEF GroundInv, Holds
<1>3. PICK v \in Readable : q' = [q EXCEPT ![t].at = v]
  BY DEF Count
<1>4. pc' = [pc EXCEPT ![t] = "counting"] /\ pc'[t] = "counting"
  BY <1>2 DEF Count, Goto
<1>5. /\ DOMAIN q'[t] = DOMAIN q[t] /\ q'[t].at \in Nat \ {0}
      /\ q'[t].evidence = q[t].evidence /\ q'[t].extra = q[t].extra /\ q'[t].used = q[t].used
      /\ q'[t].reached = q[t].reached /\ q'[t].cited = q[t].cited /\ q'[t].verdict = q[t].verdict
  BY <1>2, <1>3, ReadableClaims DEF Known, GroundInv
<1>6. Holds(t)'
  BY <1>1, <1>2, <1>4, <1>5, HoldsQuiet
<1>7. QED
  BY <1>1, <1>3, <1>4, <1>6, Turn

(* Trimming marks threads, and nothing they rest on. *)
LEMMA TrimKeeps ==
    ASSUME GroundInv, NEW t \in Thread, Trim(t)
    PROVE  GroundInv'
<1>1. /\ UNCHANGED <<claims, log, bookmark>> /\ pc[t] = "trim" /\ DOMAIN pc = Thread
      /\ q' = [s \in Thread |-> [q[s] EXCEPT !.cut = @ \/ q[s].doc \cap Dropped # {}]]
      /\ pc' = [pc EXCEPT ![t] = "retrieve"]
  BY DEF Trim, Goto, hydra, promised, GroundInv
<1>2. DOMAIN pc' = Thread /\ pc'[t] = "retrieve" /\ \A s \in Thread : s # t => pc'[s] = pc[s]
  BY <1>1
<1>3. ASSUME NEW s \in Thread PROVE Holds(s)'
  <2>1. Holds(s) /\ DOMAIN q[s] = Known
    BY KnownFields DEF GroundInv, Holds
  <2>2. /\ DOMAIN q'[s] = DOMAIN q[s] /\ q'[s].at = q[s].at
        /\ q'[s].evidence = q[s].evidence /\ q'[s].extra = q[s].extra /\ q'[s].used = q[s].used
        /\ q'[s].reached = q[s].reached /\ q'[s].cited = q[s].cited /\ q'[s].verdict = q[s].verdict
    BY <1>1, <2>1 DEF Known
  <2>3. pc'[s] \in Noting => q'[s].at \in Nat \ {0}
    BY <1>2, <2>1, <2>2 DEF Holds, Noting
  <2>4. /\ pc'[s] = "contest" => pc[s] = "contest"
        /\ pc[s] = "trace" => pc'[s] = "trace"
    BY <1>1, <1>2
  <2>5. QED
    BY <1>1, <2>1, <2>2, <2>3, <2>4, HoldsQuiet
<1>4. QED
  BY <1>1, <1>2, <1>3, LogKept DEF GroundInv

(* Other writers add claims, or take edges away. *)
LEMMA OutsideKeeps ==
    ASSUME GroundInv, Outside
    PROVE  GroundInv'
<1>1. UNCHANGED <<pc, q, bookmark>> /\ log' = Append(log, Snapshot')
  BY DEF Outside, Elsewhere
<1>2. claims \subseteq claims'
  BY DEF Outside, Elsewhere, Next, Contest, Assert, Recognise, Prune
<1>3. LogInv'
  BY <1>1, <1>2, LogGrows DEF GroundInv, LogInv
<1>4. \A t \in Thread : Holds(t)'
  BY <1>1, <1>2, HoldsSame DEF GroundInv
<1>5. QED
  BY <1>1, <1>3, <1>4 DEF GroundInv

LEMMA GroundStep ==
    ASSUME GroundInv, [ApiNext]_vars
    PROVE  GroundInv'
<1>1. CASE UNCHANGED vars
  <2>1. UNCHANGED <<claims, log, bookmark, pc, q>>
    BY <1>1 DEF vars, hydra, promised, controller
  <2>2. \A t \in Thread : Holds(t)'
    BY <2>1, HoldsSame DEF GroundInv
  <2>3. QED
    BY <2>1, <2>2, LogKept DEF GroundInv
<1>2. CASE Outside
  BY <1>2, OutsideKeeps
<1>3. ASSUME NEW t \in Thread, Serve(t) PROVE GroundInv'
  <2>1. CASE Retrieve(t) \/ Commit(t) \/ Reconcile(t) \/ ReconcileFails(t) \/ Ingested(t)
               \/ Fetch(t) \/ FetchRelated(t)
    BY <2>1, AsksKeep
  <2>2. CASE Execute(t) \/ Disconnect(t) \/ Note(t)
    BY <2>2, WritesKeep
  <2>3. CASE Gather(t) \/ Relate(t) \/ CheckRelated(t) \/ Abstain(t)
    BY <2>3, GatherKeeps
  <2>4. CASE Synthesise(t) \/ Validate(t) \/ ReadDisputes(t) \/ Conclude(t)
    BY <2>4, SynthesiseKeeps, ValidateKeeps, ReadDisputesKeeps, ConcludeKeeps
  <2>5. CASE Probe(t) \/ Raise(t) \/ Accept(t) \/ Return(t)
    BY <2>5, BlankKeeps
  <2>6. CASE Probed(t) \/ Counted(t) \/ Count(t) \/ Trim(t)
    BY <2>6, NotedKeeps, CountKeeps, TrimKeeps
  <2>7. CASE Check(t) \/ Acquire(t) \/ Recheck(t) \/ Publish(t) \/ FailToBuild(t)
               \/ ProbeClaims(t) \/ ReadClaimPage(t) \/ ReadIdentity(t)
    BY <2>7, ServeKeeps
  <2>8. QED
    BY <1>3, <2>1, <2>2, <2>3, <2>4, <2>5, <2>6, <2>7 DEF Serve, Answering
<1>4. QED
  BY <1>1, <1>2, <1>3 DEF ApiNext

(***************************************************************************)
(* An answer rests on claims that are in the graph, of documents it cites, *)
(* whose quotes are verbatim in those documents, whatever snapshots its    *)
(* statements saw and whatever another process wrote beside it.            *)
(***************************************************************************)
THEOREM AnswerGroundedTheorem == ApiSpec => []AnswerGrounded
<1>1. GroundInv => AnswerGrounded
  BY DEF GroundInv, Holds, Grounded, Rests, AnswerGrounded
<1>2. QED
  BY <1>1, GroundInitially, GroundStep, PTL DEF ApiSpec

-----------------------------------------------------------------------------
(* What a question has in hand it finds again, unless the cache was trimmed under it. *)

Checking == {"claims", "quote"}

Whole(t) ==
    /\ DOMAIN q[t] = Known
    /\ \/ q[t].cut
       \/ /\ q[t].rejected \cap Verbatim = {}
          /\ pc[t] \in Checking => q[t].doc \cap Served \subseteq Cached

BodyInv ==
    /\ \E S : bodies \in Seq(S)
    /\ DOMAIN pc = Thread /\ DOMAIN q = Thread
    /\ \A t \in Thread : Whole(t)

LEMMA BodiesInitially == ApiInit => BodyInv
<1> SUFFICES ASSUME ApiInit PROVE BodyInv
  OBVIOUS
<1>1. DOMAIN pc = Thread /\ DOMAIN q = Thread /\ \A t \in Thread : pc[t] = "idle" /\ q[t] = Blank
  BY DEF ApiInit
<1>2. bodies \in Seq({})
  BY DEF ApiInit
<1>3. Blank.rejected = {}
  BY DEF Blank
<1>4. QED
  BY <1>1, <1>2, <1>3, KnownFields DEF BodyInv, Whole, Checking

(* A document more, or none; what the locator finds is cached then. *)
LEMMA FetchGrows ==
    ASSUME NEW S, bodies \in Seq(S), NEW d, bodies' = WithBody(d)
    PROVE  (d \in Served => d \in Cached') /\ Cached \subseteq Cached' /\ \E U : bodies' \in Seq(U)
<1>1. CASE d \notin Served \ Cached
  <2>1. bodies' = bodies
    BY <1>1 DEF WithBody
  <2>2. QED
    BY <1>1, <2>1 DEF Cached
<1>2. CASE d \in Served \ Cached
  <2>1. bodies' = Append(bodies, d)
    BY <1>2 DEF WithBody
  <2>2. bodies \in Seq(S \cup {d})
    OBVIOUS
  <2>3. bodies' \in Seq(S \cup {d}) /\ Len(bodies') = Len(bodies) + 1 /\ Len(bodies) \in Nat
        /\ bodies'[Len(bodies) + 1] = d /\ \A i \in 1 .. Len(bodies) : bodies'[i] = bodies[i]
    BY <2>1, <2>2
  <2>4. QED
    BY <2>3 DEF Cached
<1>3. QED
  BY <1>1, <1>2

(* A verbatim quote passes its check while the body of its document is cached. *)
LEMMA CheckedWhole ==
    ASSUME NEW docs, docs \cap Served \subseteq Cached, NEW rows, rows \subseteq ClaimsOf(docs)
    PROVE  (rows \ Checked(rows)) \cap Verbatim = {}
<1> SUFFICES ASSUME NEW c \in rows, c \in Verbatim PROVE c \in Checked(rows)
  OBVIOUS
<1>1. c \in Claim /\ ClaimDoc[c] \in docs
  BY DEF ClaimsOf
<1>2. ClaimDoc[c] \in Served
  BY <1>1, AnswerAssumption
<1>3. QED
  BY <1>1, <1>2 DEF Checked, ClaimsOf

(* A thread that stands still, while the cache does not lose. *)
LEMMA StillWhole ==
    ASSUME NEW t, Whole(t), Cached \subseteq Cached', q'[t] = q[t], pc'[t] = pc[t]
    PROVE  Whole(t)'
BY DEF Whole, Known

(* A thread that moves without rejecting anything, to a place where it does not check. *)
LEMMA MovedWhole ==
    ASSUME NEW t, Whole(t), DOMAIN q'[t] = Known, q'[t].rejected = q[t].rejected,
           q'[t].cut = q[t].cut, pc'[t] \notin Checking
    PROVE  Whole(t)'
BY DEF Whole, Known

LEMMA BlankWhole ==
    ASSUME NEW t, DOMAIN q'[t] = Known, q'[t].rejected = {}, pc'[t] \notin Checking
    PROVE  Whole(t)'
BY DEF Whole, Known

(* One thread moves. *)
LEMMA OneWhole ==
    ASSUME BodyInv, NEW t \in Thread, Whole(t)', Cached \subseteq Cached', \E S : bodies' \in Seq(S),
           DOMAIN pc' = Thread, DOMAIN q' = Thread,
           \A s \in Thread : s # t => q'[s] = q[s] /\ pc'[s] = pc[s]
    PROVE  BodyInv'
<1>1. ASSUME NEW s \in Thread PROVE Whole(s)'
  <2>1. CASE s = t
    BY <2>1
  <2>2. CASE s # t
    BY <2>2, StillWhole DEF BodyInv
  <2>3. QED
    BY <2>1, <2>2
<1>2. QED
  BY <1>1 DEF BodyInv

(* Steps that leave the cache alone and check nothing. *)
Calm(t) ==
    \/ Retrieve(t) \/ Commit(t) \/ Reconcile(t) \/ ReconcileFails(t) \/ Execute(t) \/ Disconnect(t)
    \/ Note(t) \/ Ingested(t) \/ Relate(t) \/ Abstain(t) \/ Synthesise(t) \/ Validate(t)
    \/ Conclude(t) \/ Count(t)

LEMMA CalmKeeps ==
    ASSUME BodyInv, NEW t \in Thread, Calm(t)
    PROVE  BodyInv'
<1> USE DEF Goto
<1>1. /\ Whole(t) /\ DOMAIN q[t] = Known /\ DOMAIN pc = Thread /\ DOMAIN q = Thread
      /\ \E S : bodies \in Seq(S)
  BY DEF BodyInv, Whole
<1> DEFINE Apart == /\ bodies' = bodies /\ DOMAIN pc' = Thread /\ DOMAIN q' = Thread
                    /\ pc'[t] \notin Checking
                    /\ \A s \in Thread : s # t => q'[s] = q[s] /\ pc'[s] = pc[s]
<1>2. Apart
  <2> USE DEF Checking
  <2>1. CASE Retrieve(t) \/ Commit(t)
    BY <1>1, <2>1 DEF Retrieve, Commit
  <2>2. CASE Reconcile(t) \/ ReconcileFails(t) \/ Execute(t)
    BY <1>1, <2>2 DEF Reconcile, ReconcileFails, Execute
  <2>3. CASE Disconnect(t) \/ Note(t)
    BY <1>1, <2>3 DEF Disconnect, Note
  <2>4. CASE Ingested(t) \/ Relate(t) \/ Abstain(t)
    BY <1>1, <2>4 DEF Ingested, Relate, Abstain
  <2>5. CASE Synthesise(t)
    BY <1>1, <2>5 DEF Synthesise
  <2>6. CASE Validate(t)
    BY <1>1, <2>6 DEF Validate
  <2>7. CASE Conclude(t) \/ Count(t)
    BY <1>1, <2>7 DEF Conclude, Count
  <2>8. QED
    BY <2>1, <2>2, <2>3, <2>4, <2>5, <2>6, <2>7 DEF Calm
<1> DEFINE Quiet == DOMAIN q'[t] = Known /\ q'[t].rejected = q[t].rejected /\ q'[t].cut = q[t].cut
           Ended == DOMAIN q'[t] = Known /\ q'[t].rejected = {}
<1>5. Quiet \/ Ended
  <2> DEFINE Abstains == q' = [q EXCEPT ![t] = Abstaining(q[t])]
  <2>1. CASE Retrieve(t)
    <3>1. PICK docs : q' = [q EXCEPT ![t].candidates = docs]
      BY <2>1 DEF Retrieve
    <3>2. QED
      BY <1>1, <3>1 DEF Known
  <2>2. CASE Commit(t)
    <3>1. PICK w, d : q' = [q EXCEPT ![t].write = w, ![t].committed = @ \cup {d}]
      BY <2>2 DEF Commit
    <3>2. QED
      BY <1>1, <3>1 DEF Known
  <2>3. CASE Reconcile(t)
    <3>1. PICK w : q' = [q EXCEPT ![t].write = w, ![t].committed = {}]
      BY <2>3 DEF Reconcile
    <3>2. QED
      BY <1>1, <3>1 DEF Known
  <2>4. CASE Execute(t) \/ Note(t) \/ Ingested(t)
    BY <1>1, <2>4 DEF Execute, Note, Ingested, Known
  <2>5. CASE Disconnect(t)
    <3>1. Blank.rejected = {}
      BY DEF Blank
    <3>2. QED
      BY <1>1, <2>5, <3>1, KnownFields DEF Disconnect, Known
  <2>6. ASSUME Abstains PROVE Quiet
    BY <1>1, <2>6 DEF Abstaining, Known
  <2>7. CASE Abstain(t)
    BY <2>6, <2>7 DEF Abstain
  <2>8. CASE Synthesise(t)
    <3>1. PICK w \in Windows(q[t]) : \E cited \in SUBSET DocsOf(w), used \in SUBSET w :
            \E stated \in SUBSET {Object[c] : c \in used} :
              q' = [q EXCEPT ![t].cited = cited, ![t].used = used, ![t].stated = stated,
                             ![t].evidence = {}, ![t].extra = {}]
      BY <2>8 DEF Synthesise
    <3>2. PICK cited \in SUBSET DocsOf(w), used \in SUBSET w :
            \E stated \in SUBSET {Object[c] : c \in used} :
              q' = [q EXCEPT ![t].cited = cited, ![t].used = used, ![t].stated = stated,
                             ![t].evidence = {}, ![t].extra = {}]
      BY <3>1
    <3>3. PICK stated \in SUBSET {Object[c] : c \in used} :
            q' = [q EXCEPT ![t].cited = cited, ![t].used = used, ![t].stated = stated,
                           ![t].evidence = {}, ![t].extra = {}]
      BY <3>2
    <3>4. QED
      BY <1>1, <3>3 DEF Known
  <2>9. CASE Validate(t)
    <3>1. PICK cited :
            \/ Abstains
            \/ q' = [q EXCEPT ![t].cited = cited, ![t].used = RestsOn(q[t], cited),
                              ![t].todo = DocsOf(RestsOn(q[t], cited))]
      BY <2>9 DEF Validate
    <3>2. CASE Abstains
      BY <2>6, <3>2
    <3>3. CASE q' = [q EXCEPT ![t].cited = cited, ![t].used = RestsOn(q[t], cited),
                              ![t].todo = DocsOf(RestsOn(q[t], cited))]
      BY <1>1, <3>3 DEF Known
    <3>4. QED
      BY <3>1, <3>2, <3>3
  <2>10. CASE Conclude(t)
    <3>1. PICK v : q' = [q EXCEPT ![t].verdict = v, ![t].found = {}]
      BY <2>10 DEF Conclude
    <3>2. QED
      BY <1>1, <3>1 DEF Known
  <2>11. CASE Count(t)
    <3>1. PICK v : q' = [q EXCEPT ![t].at = v]
      BY <2>11 DEF Count
    <3>2. QED
      BY <1>1, <3>1 DEF Known
  <2>12. CASE ReconcileFails(t)
    BY <1>1, <2>12 DEF ReconcileFails, Known
  <2>13. CASE Relate(t)
    <3>1. PICK some : q' = [q EXCEPT ![t].reached = some]
      BY <2>13 DEF Relate
    <3>2. QED
      BY <1>1, <3>1 DEF Known
  <2>14. QED
    BY <2>1, <2>2, <2>3, <2>4, <2>5, <2>7, <2>8, <2>9, <2>10, <2>11, <2>12, <2>13 DEF Calm
<1>6. Whole(t)'
  BY <1>1, <1>2, <1>5, MovedWhole, BlankWhole
<1>7. Cached \subseteq Cached'
  BY <1>2 DEF Cached
<1>8. QED
  BY <1>1, <1>2, <1>6, <1>7, OneWhole

(* A body is fetched. *)
LEMMA FetchingKeeps ==
    ASSUME BodyInv, NEW t \in Thread, Fetch(t) \/ FetchRelated(t)
    PROVE  BodyInv'
<1> USE DEF Goto
<1>1. Whole(t) /\ DOMAIN q[t] = Known /\ DOMAIN pc = Thread /\ DOMAIN q = Thread
  BY DEF BodyInv, Whole
<1>2. PICK S : bodies \in Seq(S)
  BY DEF BodyInv
<1>3. PICK d : /\ bodies' = WithBody(d)
               /\ \/ q' = [q EXCEPT ![t].doc = {d}, ![t].todo = @ \ {d}]
                  \/ q' = [q EXCEPT ![t].doc = {d}]
  BY DEF Fetch, FetchRelated
<1>4. (d \in Served => d \in Cached') /\ Cached \subseteq Cached' /\ \E U : bodies' \in Seq(U)
  BY <1>2, <1>3, FetchGrows
<1>5. /\ DOMAIN q'[t] = Known /\ q'[t].doc = {d} /\ q'[t].rejected = q[t].rejected
      /\ q'[t].cut = q[t].cut
  BY <1>1, <1>3 DEF Known
<1>6. /\ DOMAIN pc' = Thread /\ DOMAIN q' = Thread
      /\ \A s \in Thread : s # t => q'[s] = q[s] /\ pc'[s] = pc[s]
  BY <1>1, <1>3 DEF Fetch, FetchRelated
<1>7. Whole(t)'
  BY <1>1, <1>4, <1>5 DEF Whole, Known
<1>8. QED
  BY <1>4, <1>6, <1>7, OneWhole

(* The quotes of a document are checked against it. *)
LEMMA CheckingKeeps ==
    ASSUME BodyInv, NEW t \in Thread, Gather(t) \/ CheckRelated(t)
    PROVE  BodyInv'
<1> USE DEF Goto
<1>1. Whole(t) /\ DOMAIN q[t] = Known /\ DOMAIN pc = Thread /\ DOMAIN q = Thread
      /\ \E S : bodies \in Seq(S)
  BY DEF BodyInv, Whole
<1>2. PICK rows \in SUBSET ClaimsOf(q[t].doc) :
        /\ DOMAIN q'[t] = Known /\ q'[t].cut = q[t].cut
        /\ q'[t].rejected = q[t].rejected \cup (rows \ Checked(rows))
        /\ DOMAIN q' = Thread /\ \A s \in Thread : s # t => q'[s] = q[s]
  <2>1. CASE Gather(t)
    <3> DEFINE Rows(v) == log[v].claims \cap ClaimsOf(q[t].doc)
    <3>1. PICK v : q' = [q EXCEPT ![t].doc = {}, ![t].evidence = @ \cup Checked(Rows(v)),
                                  ![t].rejected = @ \cup (Rows(v) \ Checked(Rows(v)))]
      BY <2>1 DEF Gather
    <3>2. Rows(v) \in SUBSET ClaimsOf(q[t].doc)
      OBVIOUS
    <3> HIDE DEF Rows
    <3>3. QED
      BY <1>1, <3>1, <3>2 DEF Known
  <2>2. CASE CheckRelated(t)
    <3>1. PICK c \in ClaimsOf(q[t].doc) :
            q' = [q EXCEPT ![t].doc = {}, ![t].reached = @ \ {c}, ![t].extra = @ \cup Checked({c}),
                           ![t].rejected = @ \cup ({c} \ Checked({c}))]
      BY <2>2 DEF CheckRelated
    <3>2. {c} \in SUBSET ClaimsOf(q[t].doc)
      BY <3>1
    <3>3. QED
      BY <1>1, <3>1, <3>2 DEF Known
  <2>3. QED
    BY <2>1, <2>2
<1>3. q[t].doc \cap Served \subseteq Cached => (rows \ Checked(rows)) \cap Verbatim = {}
  BY <1>2, CheckedWhole
<1>4. /\ DOMAIN pc' = Thread /\ pc[t] \in Checking /\ pc'[t] \notin Checking
      /\ \A s \in Thread : s # t => pc'[s] = pc[s]
  BY <1>1 DEF Gather, CheckRelated, Checking
<1>5. Whole(t)'
  BY <1>1, <1>2, <1>3, <1>4 DEF Whole, Known
<1>6. bodies' = bodies /\ Cached \subseteq Cached'
  BY DEF Gather, CheckRelated, Cached
<1>7. QED
  BY <1>1, <1>2, <1>4, <1>5, <1>6, OneWhole

(* What ends a request, and what begins one. *)
LEMMA FreshKeeps ==
    ASSUME BodyInv, NEW t \in Thread, Probe(t) \/ Raise(t) \/ Accept(t) \/ Return(t)
    PROVE  BodyInv'
<1> USE DEF Goto
<1>1. DOMAIN pc = Thread /\ DOMAIN q = Thread /\ \E S : bodies \in Seq(S)
  BY DEF BodyInv
<1>2. PICK r : q' = [q EXCEPT ![t] = r] /\ (r = Blank \/ \E v : r = [Blank EXCEPT !.at = v])
  BY DEF Probe, Raise, Accept, Return
<1>3. DOMAIN q'[t] = Known /\ q'[t].rejected = {}
  <2>1. q'[t] = r
    BY <1>1, <1>2
  <2>2. Blank.rejected = {} /\ \A v : [Blank EXCEPT !.at = v].rejected = {}
    BY DEF Blank
  <2>3. QED
    BY <1>2, <2>1, <2>2, KnownFields
<1>4. bodies' = bodies /\ \E place \in {"probe", "idle", "check"} : pc' = [pc EXCEPT ![t] = place]
  BY DEF Probe, Raise, Accept, Return
<1>5. /\ DOMAIN pc' = Thread /\ DOMAIN q' = Thread /\ pc'[t] \notin Checking
      /\ \A s \in Thread : s # t => q'[s] = q[s] /\ pc'[s] = pc[s]
  BY <1>1, <1>2, <1>4 DEF Checking
<1>6. Whole(t)'
  BY <1>3, <1>5, BlankWhole
<1>7. Cached \subseteq Cached'
  BY <1>4 DEF Cached
<1>8. QED
  BY <1>1, <1>4, <1>5, <1>6, <1>7, OneWhole

LEMMA DisputesReadKeep ==
    ASSUME BodyInv, NEW t \in Thread, ReadDisputes(t)
    PROVE  BodyInv'
<1>1. Whole(t) /\ DOMAIN q[t] = Known /\ DOMAIN pc = Thread /\ DOMAIN q = Thread
      /\ \E S : bodies \in Seq(S)
  BY DEF BodyInv, Whole
<1>2. pc' = pc /\ bodies' = bodies /\ pc[t] = "contest"
  BY DEF ReadDisputes
<1> DEFINE Same(r) == DOMAIN r = Known /\ r.rejected = q[t].rejected /\ r.cut = q[t].cut
           d == CHOOSE x \in q[t].todo : TRUE
           Rows(v) == Edges(v, d, q[t].side)
           Found(page) == q[t].found \cup {x \in page : Matters(q[t], x)}
           Sure(v, page) == q[t].sure /\ GoesOn(q[t].seen, Rows(v), RivalOf, page)
           Read(v, page) == [q[t] EXCEPT !.found = Found(page), !.sure = Sure(v, page), !.seen = Rows(v)]
<1>3. PICK v, page :
            q' = [q EXCEPT ![t] =
                    IF Cardinality(page) < DisputePage THEN Onward(Read(v, page), d)
                    ELSE IF q[t].page + 1 < DisputeMaxPages THEN [Read(v, page) EXCEPT !.page = @ + 1]
                    ELSE [Onward(Read(v, page), d) EXCEPT !.truncated = TRUE]]
  BY DEF ReadDisputes
<1> HIDE DEF d, Rows, Found, Sure
<1>4. Same(Read(v, page))
  BY <1>1 DEF Known
<1>5. \A r : Same(r) => Same(Onward(r, d)) /\ Same([r EXCEPT !.page = @ + 1])
                       /\ Same([r EXCEPT !.truncated = TRUE])
  BY DEF Onward, Known
<1> HIDE DEF Read, Same
<1>6. PICK r : Same(r) /\ q' = [q EXCEPT ![t] = r]
  <2>1. CASE Cardinality(page) < DisputePage
    BY <1>3, <1>4, <1>5, <2>1
  <2>2. CASE ~ (Cardinality(page) < DisputePage) /\ q[t].page + 1 < DisputeMaxPages
    BY <1>3, <1>4, <1>5, <2>2
  <2>3. CASE ~ (Cardinality(page) < DisputePage) /\ ~ (q[t].page + 1 < DisputeMaxPages)
    BY <1>3, <1>4, <1>5, <2>3
  <2>4. QED
    BY <2>1, <2>2, <2>3
<1>7. Same(q'[t]) /\ DOMAIN q' = Thread /\ \A s \in Thread : s # t => q'[s] = q[s]
  BY <1>1, <1>6
<1>8. Whole(t)'
  BY <1>1, <1>2, <1>7, MovedWhole DEF Same, Checking
<1>9. Cached \subseteq Cached'
  BY <1>2 DEF Cached
<1>10. QED
  BY <1>1, <1>2, <1>7, <1>8, <1>9, OneWhole

(* Steps that change nothing a question holds, nor the cache. *)
LEMMA OtherwiseKeeps ==
    ASSUME BodyInv, NEW t \in Thread,
           Probed(t) \/ Counted(t) \/ Check(t) \/ Acquire(t) \/ Recheck(t) \/ Publish(t)
             \/ FailToBuild(t) \/ ProbeClaims(t) \/ ReadClaimPage(t) \/ ReadIdentity(t)
    PROVE  BodyInv'
<1> USE DEF Goto
<1>1. Whole(t) /\ DOMAIN pc = Thread /\ DOMAIN q = Thread /\ \E S : bodies \in Seq(S)
  BY DEF BodyInv
<1>2. /\ UNCHANGED <<q, bodies>>
      /\ UNCHANGED pc \/ \E place : place \notin Checking /\ pc' = [pc EXCEPT ![t] = place]
  <2> USE DEF Checking
  <2>1. CASE Check(t)
    BY <2>1 DEF Check
  <2>2. CASE Acquire(t) \/ Recheck(t) \/ Publish(t) \/ FailToBuild(t) \/ Probed(t) \/ Counted(t)
    BY <2>2 DEF Acquire, Recheck, Publish, FailToBuild, Probed, Counted
  <2>3. CASE ProbeClaims(t) \/ ReadIdentity(t)
    BY <2>3 DEF ProbeClaims, ReadIdentity
  <2>4. CASE ReadClaimPage(t)
    BY <2>4 DEF ReadClaimPage
  <2>5. QED
    BY <2>1, <2>2, <2>3, <2>4
<1>3. Cached \subseteq Cached'
  BY <1>2 DEF Cached
<1>4. CASE UNCHANGED pc
  BY <1>1, <1>2, <1>3, <1>4, StillWhole DEF BodyInv
<1>5. ASSUME NEW place, place \notin Checking, pc' = [pc EXCEPT ![t] = place]
      PROVE  BodyInv'
  <2>1. DOMAIN pc' = Thread /\ pc'[t] \notin Checking /\ \A s \in Thread : s # t => pc'[s] = pc[s]
    BY <1>1, <1>5
  <2>2. Whole(t)'
    BY <1>1, <1>2, <2>1, MovedWhole DEF Whole
  <2>3. QED
    BY <1>1, <1>2, <1>3, <2>1, <2>2, OneWhole
<1>6. QED
  BY <1>2, <1>4, <1>5

(* What a part of a sequence is. *)
LEMMA SubSeqIs ==
    ASSUME NEW s, NEW h \in Nat, NEW n \in Nat, h <= n
    PROVE  SubSeq(s, h + 1, n) = [i \in 1 .. n - h |-> s[h + i]]
OBVIOUS

(* Trimming takes bodies from under some, and says so. *)
LEMMA TrimMarks ==
    ASSUME BodyInv, NEW t \in Thread, Trim(t)
    PROVE  BodyInv'
<1>1. /\ DOMAIN pc = Thread /\ bodies' = Kept
      /\ q' = [s \in Thread |-> [q[s] EXCEPT !.cut = @ \/ q[s].doc \cap Dropped # {}]]
      /\ pc' = [pc EXCEPT ![t] = "retrieve"]
  BY DEF Trim, Goto, BodyInv
<1>2. PICK S : bodies \in Seq(S)
  BY DEF BodyInv
<1> DEFINE n == Len(bodies)
           h == Len(bodies) \div 2
<1>3. n \in Nat /\ h \in Nat /\ h <= n
  BY <1>2
<1>4. Kept \in Seq(S) /\ Len(Kept) = n - h /\ \A i \in 1 .. n - h : Kept[i] = bodies[h + i]
  <2>1. Kept = SubSeq(bodies, h + 1, n)
    BY DEF Kept
  <2>2. n = Len(bodies)
    OBVIOUS
  <2> HIDE DEF n, h
  <2>3. h + 1 \in Nat /\ \A i \in h + 1 .. n : bodies[i] \in S
    BY <1>2, <1>3, <2>2
  <2>4. Kept = [i \in 1 .. n - h |-> bodies[h + i]]
    BY <1>3, <2>1, SubSeqIs
  <2>5. n - h \in Nat /\ \A i \in 1 .. n - h : h + i \in h + 1 .. n
    BY <1>3
  <2>6. QED
    BY <2>3, <2>4, <2>5
<1>5. Cached \ Dropped \subseteq Cached'
  <2> SUFFICES ASSUME NEW i \in 1 .. n, bodies[i] \notin Dropped PROVE bodies[i] \in Cached'
    BY DEF Cached
  <2>1. i > h
    BY <1>3 DEF Dropped
  <2>2. i - h \in 1 .. n - h /\ h + (i - h) = i
    BY <1>3, <2>1
  <2>3. Kept[i - h] = bodies[i]
    BY <1>4, <2>2
  <2>4. QED
    BY <1>1, <1>4, <2>2, <2>3 DEF Cached
<1> HIDE DEF n, h
<1>6. ASSUME NEW s \in Thread PROVE Whole(s)'
  <2>1. Whole(s) /\ DOMAIN q[s] = Known
    BY DEF BodyInv, Whole
  <2>2. /\ DOMAIN q'[s] = Known /\ q'[s].rejected = q[s].rejected /\ q'[s].doc = q[s].doc
        /\ q'[s].cut = (q[s].cut \/ q[s].doc \cap Dropped # {})
    BY <1>1, <2>1 DEF Known
  <2>3. pc'[s] \in Checking => pc[s] \in Checking
    BY <1>1 DEF Checking
  <2>4. q[s].doc \cap Dropped = {} /\ q[s].doc \cap Served \subseteq Cached
          => q[s].doc \cap Served \subseteq Cached'
    BY <1>5
  <2>5. QED
    BY <2>1, <2>2, <2>3, <2>4 DEF Whole, Known
<1>7. QED
  BY <1>1, <1>4, <1>6 DEF BodyInv

LEMMA BodyStep ==
    ASSUME BodyInv, [ApiNext]_vars
    PROVE  BodyInv'
<1>1. CASE UNCHANGED <<pc, q, bodies>>
  BY <1>1, StillWhole DEF BodyInv, Cached
<1>2. CASE UNCHANGED vars \/ Outside
  BY <1>1, <1>2 DEF vars, controller, Outside
<1>3. ASSUME NEW t \in Thread, Serve(t) PROVE BodyInv'
  <2>1. CASE Calm(t)
    BY <2>1, CalmKeeps
  <2>2. CASE Fetch(t) \/ FetchRelated(t) \/ Gather(t) \/ CheckRelated(t)
    BY <2>2, FetchingKeeps, CheckingKeeps
  <2>3. CASE Probe(t) \/ Raise(t) \/ Accept(t) \/ Return(t)
    BY <2>3, FreshKeeps
  <2>4. CASE ReadDisputes(t) \/ Trim(t)
    BY <2>4, DisputesReadKeep, TrimMarks
  <2>5. CASE Probed(t) \/ Counted(t) \/ Check(t) \/ Acquire(t) \/ Recheck(t) \/ Publish(t)
               \/ FailToBuild(t) \/ ProbeClaims(t) \/ ReadClaimPage(t) \/ ReadIdentity(t)
    BY <2>5, OtherwiseKeeps
  <2>6. QED
    BY <1>3, <2>1, <2>2, <2>3, <2>4, <2>5 DEF Serve, Answering, Calm
<1>4. QED
  BY <1>2, <1>3 DEF ApiNext

(***************************************************************************)
(* A question rejects a quote that is verbatim in its document only if     *)
(* another request dropped that document's body while the question had it  *)
(* in hand: whatever is dropped at another time is fetched again, and what *)
(* is fetched is there when the quotes of that document are checked.       *)
(***************************************************************************)
THEOREM EvidenceKeptTheorem == ApiSpec => []EvidenceKept
<1>1. BodyInv => EvidenceKept
  BY DEF BodyInv, Whole, EvidenceKept
<1>2. QED
  BY <1>1, BodiesInitially, BodyStep, PTL DEF ApiSpec

-----------------------------------------------------------------------------
(* What a walk over pages has seen. *)

(* A set of natural numbers has a least one: what stands for induction here. *)
LEMMA LeastMember ==
    ASSUME NEW S \in SUBSET Nat, S # {}
    PROVE  \E n \in S : \A m \in S : n <= m
<1> DEFINE Less == {pair \in Nat \X Nat : pair[1] < pair[2]}
<1>1. IsWellFoundedOn(Less, Nat)
  BY NatLessThanWellFounded DEF OpToRel
<1>2. PICK n \in S : \A m \in S : <<m, n>> \notin Less
  <2> HIDE DEF Less
  <2>1. QED
    BY <1>1, WFMin
<1>3. \A m \in S : ~(m < n)
  BY <1>2
<1>4. QED
  BY <1>3

Under(rows, key, m) == {x \in rows : key[x] < m}

With(rows, key, m) == {x \in rows : key[x] = m}

IsTable(rows, key) == IsFiniteSet(rows) /\ \A r \in rows : key[r] \in Nat

(* The places in the order that a page stands for. *)
PlacesOf(skip, size) == skip .. skip + size - 1

LEMMA SliceDef ==
    ASSUME NEW rows, NEW key, NEW skip, NEW size, NEW p \in Slice(rows, key, skip, size)
    PROVE  /\ p \subseteq rows
           /\ \A r \in rows :
                LET below == Cardinality(Under(rows, key, key[r]))
                IN  Cardinality(With(p, key, key[r])) =
                      Cardinality((below .. below + Cardinality(With(rows, key, key[r])) - 1)
                                  \cap PlacesOf(skip, size))
BY DEF Slice, Under, With, PlacesOf

LEMMA DisjointSum ==
    ASSUME NEW S, NEW T, IsFiniteSet(S), IsFiniteSet(T), S \cap T = {}
    PROVE  IsFiniteSet(S \cup T) /\ Cardinality(S \cup T) = Cardinality(S) + Cardinality(T)
<1>1. Cardinality(S \cap T) = 0
  BY FS_EmptySet
<1>2. Cardinality(S) \in Nat /\ Cardinality(T) \in Nat
  BY FS_CardinalityType
<1>3. /\ IsFiniteSet(S \cup T)
      /\ Cardinality(S \cup T) = Cardinality(S) + Cardinality(T) - Cardinality(S \cap T)
  BY FS_Union
<1>4. QED
  BY <1>1, <1>2, <1>3

LEMMA TablePart ==
    ASSUME NEW rows, NEW key, IsTable(rows, key), NEW p \in SUBSET rows, NEW m \in Nat
    PROVE  /\ IsTable(p, key)
           /\ IsFiniteSet(Under(p, key, m)) /\ Cardinality(Under(p, key, m)) \in Nat
           /\ IsFiniteSet(With(p, key, m)) /\ Cardinality(With(p, key, m)) \in Nat
<1>1. IsTable(p, key)
  BY FS_Subset DEF IsTable
<1>2. Under(p, key, m) \in SUBSET p /\ With(p, key, m) \in SUBSET p
  BY DEF Under, With
<1>3. QED
  BY <1>1, <1>2, FS_Subset, FS_CardinalityType DEF IsTable

(* One key further. *)
LEMMA TableStep ==
    ASSUME NEW rows, NEW key, IsTable(rows, key), NEW p \in SUBSET rows, NEW m \in Nat,
           NEW n, n = m + 1
    PROVE  Cardinality(Under(p, key, n)) = Cardinality(Under(p, key, m)) + Cardinality(With(p, key, m))
<1>1. IsTable(p, key) /\ IsFiniteSet(Under(p, key, m)) /\ IsFiniteSet(With(p, key, m))
  BY TablePart
<1>2. Under(p, key, n) = Under(p, key, m) \cup With(p, key, m)
  BY <1>1 DEF IsTable, Under, With
<1>3. Under(p, key, m) \cap With(p, key, m) = {}
  BY <1>1 DEF IsTable, Under, With
<1>4. QED
  BY <1>1, <1>2, <1>3, DisjointSum

(* Up to any key, a page has as many rows as it has places among theirs. *)
LEMMA SliceCounts ==
    ASSUME NEW rows, NEW key, IsTable(rows, key), NEW skip \in Nat, NEW size \in Nat,
           NEW p \in Slice(rows, key, skip, size), NEW m \in Nat
    PROVE  Cardinality(Under(p, key, m)) =
             Cardinality((0 .. Cardinality(Under(rows, key, m)) - 1) \cap PlacesOf(skip, size))
<1> DEFINE F(k) == Cardinality(Under(rows, key, k))
           P(k) == Cardinality(Under(p, key, k))
           Window == PlacesOf(skip, size)
           Upto(k) == (0 .. F(k) - 1) \cap Window
           Right(k) == P(k) = Cardinality(Upto(k))
           Wrong == {k \in Nat : ~ Right(k)}
<1>0. p \in SUBSET rows /\ rows \in SUBSET rows
  BY SliceDef
<1>1. ASSUME Wrong # {} PROVE FALSE
  <2>1. PICK n \in Wrong : \A k \in Wrong : n <= k
    BY <1>1, LeastMember
  <2>2. CASE n = 0
    <3>1. Under(p, key, 0) = {} /\ Under(rows, key, 0) = {}
      BY <1>0 DEF IsTable, Under
    <3>2. F(0) = 0 /\ P(0) = 0
      BY <3>1, FS_EmptySet
    <3>3. Upto(0) = {}
      BY <3>2
    <3>4. Right(0)
      BY <3>2, <3>3, FS_EmptySet
    <3>5. QED
      BY <2>1, <2>2, <3>4
  <2>3. CASE n # 0
    <3>1. PICK k \in Nat : n = k + 1
      BY <2>1, <2>3
    <3>2. Right(k)
      BY <2>1, <3>1
    <3> DEFINE some == With(rows, key, k)
               Next1 == (F(k) .. F(k) + Cardinality(some) - 1) \cap Window
    <3>3. /\ F(k) \in Nat /\ Cardinality(some) \in Nat /\ F(n) = F(k) + Cardinality(some)
          /\ P(k) \in Nat /\ P(n) = P(k) + Cardinality(With(p, key, k))
          /\ IsFiniteSet(some)
      <4>1. rows \in SUBSET rows
        OBVIOUS
      <4>2. F(n) = F(k) + Cardinality(some)
        BY <3>1, <4>1, TableStep
      <4>3. P(n) = P(k) + Cardinality(With(p, key, k))
        BY <1>0, <3>1, TableStep
      <4>4. F(k) \in Nat /\ Cardinality(some) \in Nat /\ IsFiniteSet(some)
        BY <4>1, TablePart
      <4>5. P(k) \in Nat
        BY <1>0, TablePart
      <4>6. QED
        BY <4>2, <4>3, <4>4, <4>5
    <3>4. Cardinality(With(p, key, k)) = Cardinality(Next1)
      <4>1. CASE some = {}
        <5>1. With(p, key, k) = {} /\ Cardinality(some) = 0
          BY <1>0, <4>1, FS_EmptySet DEF With
        <5>2. Next1 = {}
          BY <3>3, <5>1
        <5>3. QED
          BY <5>1, <5>2
      <4>2. CASE some # {}
        <5>1. PICK r \in some : TRUE
          BY <4>2
        <5>2. r \in rows /\ key[r] = k
          BY <5>1 DEF With
        <5>3. Cardinality(With(p, key, key[r])) =
                Cardinality((Cardinality(Under(rows, key, key[r]))
                               .. Cardinality(Under(rows, key, key[r]))
                                    + Cardinality(With(rows, key, key[r])) - 1)
                            \cap PlacesOf(skip, size))
          <6> HIDE DEF F, P, Window, some, Next1
          <6>1. QED
            BY <5>2, SliceDef
        <5>4. QED
          BY <5>2, <5>3
      <4>3. QED
        BY <4>1, <4>2
    <3>5. Upto(n) = Upto(k) \cup Next1 /\ Upto(k) \cap Next1 = {}
      <4> HIDE DEF F, some, Window
      <4>1. (0 .. F(n) - 1) = (0 .. F(k) - 1) \cup (F(k) .. F(k) + Cardinality(some) - 1)
        BY <3>3
      <4>2. (0 .. F(k) - 1) \cap (F(k) .. F(k) + Cardinality(some) - 1) = {}
        BY <3>3
      <4>3. QED
        BY <4>1, <4>2
    <3>6. IsFiniteSet(Upto(k)) /\ IsFiniteSet(Next1)
      <4>1. IsFiniteSet(Window)
        <5>1. skip \in Int /\ skip + size - 1 \in Int
          OBVIOUS
        <5>2. QED
          BY <5>1, FS_Interval DEF PlacesOf
      <4>2. Upto(k) \in SUBSET Window /\ Next1 \in SUBSET Window
        OBVIOUS
      <4>3. QED
        BY <4>1, <4>2, FS_Subset
    <3>7. Cardinality(Upto(n)) = Cardinality(Upto(k)) + Cardinality(Next1)
      BY <3>5, <3>6, DisjointSum
    <3>8. Right(n)
      BY <3>2, <3>3, <3>4, <3>7
    <3>9. QED
      BY <2>1, <3>8
  <2>4. QED
    BY <2>2, <2>3
<1>2. m \notin Wrong
  BY <1>1
<1>3. QED
  BY <1>2

(* A row whose place a page has is tied with one the page holds, or the same. *)
LEMMA SliceTakes ==
    ASSUME NEW rows, NEW key, IsTable(rows, key), NEW skip \in Nat, NEW size \in Nat,
           NEW p \in Slice(rows, key, skip, size), NEW x \in rows,
           Cardinality(Under(rows, key, key[x])) \in PlacesOf(skip, size)
    PROVE  \E r \in p : key[r] = key[x]
<1> DEFINE below == Cardinality(Under(rows, key, key[x]))
           tied == Cardinality(With(rows, key, key[x]))
           places == (below .. below + tied - 1) \cap PlacesOf(skip, size)
<1>1. key[x] \in Nat /\ p \in SUBSET rows
  BY SliceDef DEF IsTable
<1>2. IsFiniteSet(With(rows, key, key[x])) /\ tied \in Nat /\ x \in With(rows, key, key[x])
  BY <1>1, TablePart DEF With
<1>3. tied # 0
  BY <1>2, FS_EmptySet
<1>4. below \in places
  BY <1>2, <1>3 DEF PlacesOf
<1>5. IsFiniteSet(places)
  <2>1. skip \in Int /\ skip + size - 1 \in Int
    OBVIOUS
  <2>2. IsFiniteSet(PlacesOf(skip, size))
    BY <2>1, FS_Interval DEF PlacesOf
  <2>3. places \in SUBSET PlacesOf(skip, size)
    OBVIOUS
  <2>4. QED
    BY <2>2, <2>3, FS_Subset
<1>6. Cardinality(With(p, key, key[x])) # 0
  <2>1. Cardinality(places) # 0
    BY <1>4, <1>5, FS_EmptySet
  <2>2. QED
    BY <2>1, SliceDef
<1>7. With(p, key, key[x]) # {}
  BY <1>6, FS_EmptySet
<1>8. QED
  BY <1>7 DEF With

(* A page that leaves a row behind its last place is full. *)
LEMMA SliceFull ==
    ASSUME NEW rows, NEW key, IsTable(rows, key), NEW skip \in Nat, NEW size \in Nat,
           NEW p \in Slice(rows, key, skip, size), NEW x \in rows,
           Cardinality(Under(rows, key, key[x])) >= skip + size
    PROVE  Cardinality(p) >= size
<1> DEFINE m == key[x]
           F == Cardinality(Under(rows, key, m))
<1>1. m \in Nat /\ p \in SUBSET rows
  BY SliceDef DEF IsTable
<1>2. F \in Nat
  BY <1>1, TablePart
<1>3. (0 .. F - 1) \cap PlacesOf(skip, size) = PlacesOf(skip, size)
  BY <1>2 DEF PlacesOf
<1>4. Cardinality(PlacesOf(skip, size)) = size
  <2>1. skip \in Int /\ skip + size - 1 \in Int
    OBVIOUS
  <2>2. QED
    BY <2>1, FS_Interval DEF PlacesOf
<1>5. Cardinality(Under(p, key, m)) = size
  BY <1>1, <1>3, <1>4, SliceCounts
<1>6. Under(p, key, m) \in SUBSET p /\ IsFiniteSet(p)
  BY <1>1, TablePart DEF Under, IsTable
<1>7. Cardinality(Under(p, key, m)) <= Cardinality(p) /\ Cardinality(p) \in Nat
  BY <1>6, FS_Subset, FS_CardinalityType
<1>8. QED
  BY <1>5, <1>7

(* A row that an earlier page left behind, in a table that lost no row since. *)
Ahead(rows, key, place, x) == x \in rows /\ Cardinality(Under(rows, key, key[x])) >= place

(***************************************************************************)
(* A walk goes on: a row ahead of it, in a table that has lost none, is    *)
(* tied with a row of the next page, or ahead of the walk after it; and if *)
(* that page is not full, the former.                                      *)
(***************************************************************************)
LEMMA WalkGoesOn ==
    ASSUME NEW rows, NEW key, IsTable(rows, key), NEW seen \in SUBSET rows,
           NEW skip \in Nat, NEW size \in Nat, NEW x \in rows,
           skip = 0 \/ Ahead(seen, key, skip, x),
           NEW p \in Slice(rows, key, skip, size)
    PROVE  \/ \E r \in p : key[r] = key[x]
           \/ Ahead(rows, key, skip + size, x) /\ Cardinality(p) >= size
<1> DEFINE below == Cardinality(Under(rows, key, key[x]))
<1>1. key[x] \in Nat
  BY DEF IsTable
<1>2. below \in Nat /\ IsFiniteSet(Under(rows, key, key[x]))
  BY <1>1, TablePart
<1>3. below >= skip
  <2>1. CASE skip = 0
    BY <1>2, <2>1
  <2>2. CASE Ahead(seen, key, skip, x)
    <3>1. Under(seen, key, key[x]) \in SUBSET Under(rows, key, key[x])
      BY DEF Under
    <3>2. Cardinality(Under(seen, key, key[x])) <= below
          /\ Cardinality(Under(seen, key, key[x])) \in Nat
      BY <1>2, <3>1, FS_Subset, FS_CardinalityType
    <3>3. QED
      BY <1>2, <2>2, <3>2 DEF Ahead
  <2>3. QED
    BY <2>1, <2>2
<1>4. CASE below < skip + size
  <2>1. below \in PlacesOf(skip, size)
    BY <1>2, <1>3, <1>4 DEF PlacesOf
  <2>2. QED
    BY <2>1, SliceTakes
<1>5. CASE below >= skip + size
  BY <1>5, SliceFull DEF Ahead
<1>6. QED
  BY <1>2, <1>4, <1>5

-----------------------------------------------------------------------------
(* The snapshots, and what a question holds. *)

(* Edges run from the lower claim to the higher. *)
Ordered == {Dispute(p[1], p[2]) : p \in {x \in Claim \X Claim : x[1] < x[2]}}

Identities == [Mention -> Person \cup {NoPerson}]
Snapshots  == [claims : SUBSET Claim, identity : Identities, disputes : SUBSET Ordered]

(* The log ends with the graph as it is, and claims are never taken back. *)
HistoryInv ==
    /\ log \in Seq(Snapshots) /\ bookmark \in 1 .. Len(log) /\ overtaken \in BOOLEAN
    /\ log[Len(log)] = Snapshot
    /\ \A i, j \in 1 .. Len(log) : i <= j => log[i].claims \subseteq log[j].claims

(* The log keeps what it had, and unless it is overtaken the bookmark goes forward. *)
Onwards ==
    /\ Len(log) <= Len(log') /\ Len(log') \in Nat /\ bookmark' \in 1 .. Len(log')
    /\ \A i \in 1 .. Len(log) : log'[i] = log[i]
    /\ ~ overtaken' => ~ overtaken /\ bookmark <= bookmark'

LEMMA HistoryGrows ==
    ASSUME HistoryInv, claims \subseteq claims', claims' \subseteq Claim, identity' \in Identities,
           disputes' \subseteq Ordered, log' = Append(log, Snapshot'), UNCHANGED <<bookmark, overtaken>>
    PROVE  HistoryInv' /\ Onwards
<1>1. Snapshot' \in Snapshots /\ Snapshot'.claims = claims'
  BY DEF Snapshot, Snapshots
<1>2. /\ log' \in Seq(Snapshots) /\ Len(log) \in Nat /\ Len(log') = Len(log) + 1
      /\ log'[Len(log) + 1] = Snapshot' /\ \A i \in 1 .. Len(log) : log'[i] = log[i]
  BY <1>1 DEF HistoryInv
<1>3. log[Len(log)].claims = claims
  BY DEF HistoryInv, Snapshot
<1>4. \A i \in 1 .. Len(log) : log[i].claims \subseteq claims
  BY <1>2, <1>3 DEF HistoryInv
<1>5. \A i, j \in 1 .. Len(log') : i <= j => log'[i].claims \subseteq log'[j].claims
  BY <1>1, <1>2, <1>4 DEF HistoryInv
<1>6. bookmark' \in 1 .. Len(log')
  BY <1>2 DEF HistoryInv
<1>7. QED
  BY <1>2, <1>5, <1>6 DEF HistoryInv, Onwards

LEMMA HistoryRemembers ==
    ASSUME HistoryInv, UNCHANGED <<promised, log>>, NEW v \in 1 .. Len(log), Remember(v)
    PROVE  HistoryInv' /\ Onwards
<1>1. bookmark' = v /\ overtaken' = (overtaken \/ v < bookmark) /\ Snapshot' = Snapshot
  BY DEF Remember, promised, Snapshot
<1>2. Len(log) \in Nat /\ UNCHANGED log
  BY DEF HistoryInv
<1>3. overtaken' \in BOOLEAN
  <2>1. (overtaken \/ v < bookmark) \in BOOLEAN
    BY Zenon DEF HistoryInv
  <2>2. QED
    BY <1>1, <2>1, Zenon
<1>4. ~ overtaken' => ~ overtaken /\ ~ (v < bookmark)
  BY <1>1, Zenon
<1>5. ~ (v < bookmark) => bookmark <= v
  BY <1>2 DEF HistoryInv
<1>6. HistoryInv'
  BY <1>1, <1>2, <1>3 DEF HistoryInv
<1>7. ~ overtaken' => ~ overtaken /\ bookmark <= bookmark'
  BY <1>1, <1>4, <1>5
<1>8. QED
  BY <1>1, <1>2, <1>6, <1>7 DEF Onwards

LEMMA HistoryStays ==
    ASSUME HistoryInv, UNCHANGED hydra
    PROVE  HistoryInv' /\ Onwards
<1>1. UNCHANGED <<log, bookmark, overtaken>> /\ Snapshot' = Snapshot
  BY DEF hydra, promised, Snapshot
<1>2. Len(log) \in Nat
  BY DEF HistoryInv
<1>3. QED
  BY <1>1, <1>2 DEF HistoryInv, Onwards

(* What a statement sees. *)
LEMMA ReadableSnapshot ==
    ASSUME HistoryInv, NEW v \in Readable
    PROVE  /\ v \in 1 .. Len(log) /\ bookmark <= v /\ log[v] \in Snapshots
           /\ log[v].claims \subseteq Claim /\ log[v].disputes \subseteq Ordered
           /\ log[v].identity \in Identities
<1>1. Len(log) \in Nat /\ bookmark \in 1 .. Len(log)
  BY DEF HistoryInv
<1>2. v \in 1 .. Len(log) /\ bookmark <= v
  BY <1>1 DEF Readable
<1>3. log[v] \in Snapshots
  BY <1>2 DEF HistoryInv
<1>4. QED
  BY <1>2, <1>3 DEF Snapshots

LEMMA GraphNow ==
    ASSUME HistoryInv
    PROVE  claims \subseteq Claim /\ identity \in Identities /\ disputes \subseteq Ordered
<1>1. Len(log) \in 1 .. Len(log)
  BY DEF HistoryInv
<1>2. Snapshot \in Snapshots
  BY <1>1 DEF HistoryInv
<1>3. QED
  BY <1>2 DEF Snapshot, Snapshots

-----------------------------------------------------------------------------
(* The rows of a pass are the pairs of claims about its facts that disagree. *)
LEMMA RowPairs ==
    ASSUME NEW C \in SUBSET Claim, NEW i, NEW facts, NEW e
    PROVE  e \in ConflictRows(C, i, facts) <=>
             \E x, y \in C :
                 x < y /\ Disagree(i, x, y) /\ e = Dispute(x, y) /\ Fact(i, x) \in facts
<1> DEFINE contested == {c \in C \cap Contestable : Fact(i, c) \in facts}
           Pair(p) == p[1] < p[2] /\ Disagree(i, p[1], p[2])
<1>1. ConflictRows(C, i, facts) =
        {Dispute(p[1], p[2]) : p \in {x \in contested \X contested : Pair(x)}}
  BY DEF ConflictRows
<1>2. ASSUME NEW x \in C, NEW y \in C, Disagree(i, x, y), Fact(i, x) \in facts
      PROVE  x \in contested /\ y \in contested
  BY <1>2 DEF Disagree
<1>3. ASSUME NEW x \in contested, NEW y \in contested, Pair(<<x, y>>)
      PROVE  Dispute(x, y) \in ConflictRows(C, i, facts)
  <2>1. <<x, y>> \in {p \in contested \X contested : Pair(p)}
    BY <1>3
  <2>2. Dispute(<<x, y>>[1], <<x, y>>[2]) \in ConflictRows(C, i, facts)
    BY <1>1, <2>1
  <2>3. QED
    BY <2>2
<1>4. ASSUME e \in ConflictRows(C, i, facts)
      PROVE  \E x, y \in contested : Pair(<<x, y>>) /\ e = Dispute(x, y)
  <2>1. PICK p \in {x \in contested \X contested : Pair(x)} : e = Dispute(p[1], p[2])
    BY <1>1, <1>4
  <2>2. p[1] \in contested /\ p[2] \in contested /\ p = <<p[1], p[2]>>
    BY <2>1
  <2>3. QED
    BY <2>1, <2>2
<1>5. QED
  BY <1>2, <1>3, <1>4

LEMMA RowsOrdered ==
    ASSUME NEW C \in SUBSET Claim, NEW i, NEW facts
    PROVE  ConflictRows(C, i, facts) \subseteq Ordered
<1>1. ASSUME NEW x \in C, NEW y \in C, x < y PROVE Dispute(x, y) \in Ordered
  <2>1. <<x, y>> \in {p \in Claim \X Claim : p[1] < p[2]}
    BY <1>1
  <2>2. Dispute(<<x, y>>[1], <<x, y>>[2]) \in Ordered
    BY <2>1 DEF Ordered
  <2>3. QED
    BY <2>2
<1>2. QED
  BY <1>1, RowPairs

(* More claims, more disputes. *)
LEMMA DetectedGrows ==
    ASSUME NEW D \in SUBSET Claim, NEW C \in SUBSET D, NEW i
    PROVE  Detected(C, i) \subseteq Detected(D, i)
<1>1. \A E \in SUBSET Claim : \A x, y \in E : Disagree(i, x, y) => Fact(i, x) \in {Fact(i, c) : c \in E \cap Contestable}
  BY DEF Disagree
<1>2. ASSUME NEW e \in Detected(C, i) PROVE e \in Detected(D, i)
  <2>1. PICK x, y \in C : x < y /\ Disagree(i, x, y) /\ e = Dispute(x, y)
    BY RowPairs DEF Detected
  <2>2. Fact(i, x) \in {Fact(i, c) : c \in D \cap Contestable}
    BY <1>1, <2>1
  <2>3. QED
    BY <2>1, <2>2, RowPairs DEF Detected
<1>3. QED
  BY <1>2

-----------------------------------------------------------------------------
(* Type correctness. *)

Writes  == [claims : SUBSET Claim, disputes : SUBSET Ordered]
Walking == {"contest", "trace"}

IsQuestion(r, n) ==
    /\ DOMAIN r = Known
    /\ r.evidence \subseteq Claim /\ r.reached \subseteq Claim /\ r.extra \subseteq Claim
    /\ r.rejected \subseteq Claim /\ r.used \subseteq Claim
    /\ r.candidates \subseteq Doc /\ r.doc \subseteq Doc /\ r.todo \subseteq Doc /\ r.cited \subseteq Doc
    /\ r.write \in Writes
    /\ r.at \in 0 .. n /\ r.since \in Nat /\ r.page \in Nat

(* Before it looks for disputes a question is at the first page of the first direction. *)
QuestionOf(t) ==
    /\ IsQuestion(q[t], Len(log))
    /\ ~ overtaken => q[t].since <= bookmark
    /\ pc[t] \notin Walking => q[t].side = "out" /\ q[t].page = 0

QuestionInv ==
    /\ HistoryInv
    /\ pc \in [Thread -> Place] /\ DOMAIN q = Thread
    /\ \A t \in Thread : QuestionOf(t)

LEMMA BlankQuestion ==
    ASSUME NEW n \in Nat, NEW v \in 0 .. n
    PROVE  /\ IsQuestion(Blank, n) /\ Blank.side = "out" /\ Blank.page = 0 /\ Blank.since = 0
           /\ IsQuestion([Blank EXCEPT !.at = v], n)
           /\ LET r == [Blank EXCEPT !.at = v] IN r.side = "out" /\ r.page = 0 /\ r.since = 0
<1>1. NoWrite \in Writes
  BY DEF NoWrite, Writes
<1>2. /\ IsQuestion(Blank, n) /\ Blank.side = "out" /\ Blank.page = 0 /\ Blank.since = 0
  BY <1>1 DEF IsQuestion, Blank, Known
<1> DEFINE r == [Blank EXCEPT !.at = v]
<1>3. /\ DOMAIN r = Known /\ r.evidence = {} /\ r.reached = {} /\ r.extra = {}
      /\ r.rejected = {} /\ r.used = {} /\ r.candidates = {} /\ r.doc = {} /\ r.todo = {}
      /\ r.cited = {} /\ r.write = NoWrite
      /\ r.at = v /\ r.since = 0 /\ r.page = 0 /\ r.side = "out"
  BY DEF Blank, Known
<1> HIDE DEF r
<1>4. IsQuestion(r, n)
  BY <1>1, <1>3 DEF IsQuestion
<1>5. QED
  BY <1>2, <1>3, <1>4 DEF r

LEMMA QuestionsInitially == ApiInit => QuestionInv
<1> SUFFICES ASSUME ApiInit PROVE QuestionInv
  OBVIOUS
<1>1. DOMAIN pc = Thread /\ DOMAIN q = Thread /\ \A t \in Thread : pc[t] = "idle" /\ q[t] = Blank
  BY DEF ApiInit
<1>2. /\ claims = {} /\ identity \in Identities /\ disputes = {}
      /\ log = <<Snapshot>> /\ bookmark = 1 /\ overtaken = FALSE
  BY DEF ApiInit, ClientInit, Init, Identities
<1>3. Snapshot \in Snapshots
  BY <1>2 DEF Snapshot, Snapshots
<1>9. log \in Seq(Snapshots) /\ Len(log) = 1 /\ log[1] = Snapshot
  BY <1>2, <1>3
<1>4. HistoryInv /\ Len(log) = 1
  <2>0. bookmark = 1 /\ overtaken = FALSE
    BY <1>2
  <2>1. bookmark \in 1 .. Len(log) /\ overtaken \in BOOLEAN /\ log[Len(log)] = Snapshot
    <3>1. overtaken \in BOOLEAN
      BY <2>0
    <3>2. QED
      BY <1>9, <2>0, <3>1
  <2>2. \A i, j \in 1 .. Len(log) : i = 1 /\ j = 1
    BY <1>9
  <2>3. QED
    BY <1>9, <2>1, <2>2 DEF HistoryInv
<1>5. 0 \in 0 .. 1 /\ 1 \in Nat
  OBVIOUS
<1>6. IsQuestion(Blank, 1) /\ Blank.side = "out" /\ Blank.page = 0 /\ Blank.since = 0
  BY <1>5, BlankQuestion
<1>7. \A t \in Thread : QuestionOf(t)
  BY <1>1, <1>2, <1>4, <1>6 DEF QuestionOf
<1>8. pc \in [Thread -> Place]
  BY DEF ApiInit, Place
<1>10. QED
  BY <1>1, <1>4, <1>7, <1>8 DEF QuestionInv

(* The documents claims are of. *)
LEMMA DocsKnown == ASSUME NEW C \in SUBSET Claim PROVE DocsOf(C) \subseteq Doc
BY ClaimAssumption DEF DocsOf

LEMMA WritesGrow ==
    ASSUME HistoryInv, NEW w \in Writes, Apply(w), UNCHANGED <<bookmark, overtaken>>
    PROVE  HistoryInv' /\ Onwards
<1>1. /\ claims' = claims \cup w.claims /\ disputes' = disputes \cup w.disputes
      /\ identity' = identity /\ log' = Append(log, Snapshot')
  BY DEF Apply
<1>2. w.claims \subseteq Claim /\ w.disputes \subseteq Ordered
  BY DEF Writes
<1>3. QED
  BY <1>1, <1>2, GraphNow, HistoryGrows

LEMMA OutsideGrows ==
    ASSUME HistoryInv, Outside
    PROVE  HistoryInv' /\ Onwards
<1>1. log' = Append(log, Snapshot') /\ UNCHANGED <<bookmark, overtaken>> /\ (Next \/ Prune)
  BY DEF Outside, Elsewhere
<1>2. claims \subseteq Claim /\ identity \in Identities /\ disputes \subseteq Ordered
  BY GraphNow
<1> DEFINE Fine == /\ claims \subseteq claims' /\ claims' \subseteq Claim /\ identity' \in Identities
                   /\ disputes' \subseteq Ordered
<1>3. Fine
  <2>1. CASE Prune
    BY <1>2, <2>1 DEF Prune
  <2>2. CASE Contest
    <3>1. Detected(claims, identity) \subseteq Ordered
      BY <1>2, RowsOrdered DEF Detected
    <3>2. QED
      BY <1>2, <2>2, <3>1 DEF Contest
  <2>3. ASSUME NEW d \in Doc, Assert(d) \/ Recognise(d) PROVE Fine
    BY <1>2, <2>3 DEF Assert, Recognise, Identities
  <2>4. QED
    BY <1>1, <2>1, <2>2, <2>3 DEF Next
<1>4. QED
  BY <1>1, <1>3, HistoryGrows

(* The bookmark a thread brings is of a snapshot there is. *)
LEMMA NotedIsThere ==
    ASSUME QuestionInv, GroundInv, NEW t \in Thread, pc[t] \in Noting
    PROVE  q[t].at \in 1 .. Len(log)
<1>1. q[t].at \in 0 .. Len(log) /\ q[t].at \in Nat \ {0}
  BY DEF QuestionInv, QuestionOf, IsQuestion, GroundInv, Holds
<1>2. QED
  BY <1>1

LEMMA HistoryStep ==
    ASSUME QuestionInv, GroundInv, [ApiNext]_vars
    PROVE  HistoryInv' /\ Onwards
<1>0. HistoryInv
  BY DEF QuestionInv
<1>1. CASE UNCHANGED vars
  BY <1>0, <1>1, HistoryStays DEF vars
<1>2. CASE Outside
  BY <1>0, <1>2, OutsideGrows
<1>3. ASSUME NEW t \in Thread, Serve(t) PROVE HistoryInv' /\ Onwards
  <2>0. q[t].write \in Writes
    BY DEF QuestionInv, QuestionOf, IsQuestion
  <2>1. CASE Execute(t)
    BY <1>0, <2>0, <2>1, WritesGrow DEF Execute
  <2>2. CASE Disconnect(t)
    <3>1. UNCHANGED <<bookmark, overtaken>> /\ (Apply(q[t].write) \/ UNCHANGED <<promised, log>>)
      BY <2>2 DEF Disconnect
    <3>2. QED
      BY <1>0, <2>0, <3>1, WritesGrow, HistoryStays DEF hydra
  <2>3. CASE Note(t) \/ Probed(t) \/ Counted(t)
    <3>1. pc[t] \in Noting /\ UNCHANGED <<promised, log>> /\ Remember(q[t].at)
      BY <2>3 DEF Note, Probed, Counted, Noting
    <3>2. QED
      BY <1>0, <3>1, NotedIsThere, HistoryRemembers
  <2>4. CASE Retrieve(t) \/ Commit(t) \/ Reconcile(t) \/ ReconcileFails(t) \/ Ingested(t)
               \/ Fetch(t) \/ Gather(t) \/ Relate(t) \/ FetchRelated(t) \/ CheckRelated(t)
               \/ Abstain(t) \/ Synthesise(t) \/ Validate(t) \/ ReadDisputes(t)
               \/ Conclude(t) \/ Probe(t) \/ Raise(t)
    <3>1. UNCHANGED hydra
      BY <2>4 DEF Retrieve, Commit, Reconcile, ReconcileFails, Ingested, Fetch, Gather, Relate,
                  FetchRelated, CheckRelated, Abstain, Synthesise, Validate, ReadDisputes,
                  Conclude, Probe, Raise
    <3>2. QED
      BY <1>0, <3>1, HistoryStays
  <2>5. CASE Accept(t) \/ Check(t) \/ Acquire(t) \/ Recheck(t) \/ Publish(t) \/ FailToBuild(t)
               \/ Trim(t) \/ Count(t) \/ ProbeClaims(t) \/ ReadClaimPage(t) \/ ReadIdentity(t)
               \/ Return(t)
    <3>1. UNCHANGED hydra
      BY <2>5 DEF Accept, Check, Acquire, Recheck, Publish, FailToBuild, Trim, Count,
                  ProbeClaims, ReadClaimPage, ReadIdentity, Return
    <3>2. QED
      BY <1>0, <3>1, HistoryStays
  <2>6. QED
    BY <1>3, <2>1, <2>2, <2>3, <2>4, <2>5 DEF Serve, Answering
<1>4. QED
  BY <1>1, <1>2, <1>3 DEF ApiNext

(* A step of a thread moves that thread alone, unless it trims the cache. *)
Apart(t) ==
    /\ pc' \in [Thread -> Place] /\ DOMAIN q' = Thread
    /\ \A s \in Thread : s # t => q'[s] = q[s] /\ pc'[s] = pc[s]

LEMMA OneMoves ==
    ASSUME QuestionInv, NEW t \in Thread, Serve(t), ~ Trim(t)
    PROVE  Apart(t)
<1> USE DEF Goto, Place, Apart
<1>0. pc \in [Thread -> Place] /\ DOMAIN q = Thread
  BY DEF QuestionInv
<1>1. CASE Retrieve(t) \/ Commit(t) \/ Reconcile(t) \/ ReconcileFails(t)
  BY <1>0, <1>1 DEF Retrieve, Commit, Reconcile, ReconcileFails
<1>2. CASE Execute(t) \/ Disconnect(t) \/ Note(t) \/ Ingested(t)
  BY <1>0, <1>2 DEF Execute, Disconnect, Note, Ingested
<1>3. CASE Fetch(t) \/ Gather(t) \/ Relate(t) \/ FetchRelated(t) \/ CheckRelated(t) \/ Abstain(t)
  BY <1>0, <1>3 DEF Fetch, Gather, Relate, FetchRelated, CheckRelated, Abstain
<1>4. CASE Synthesise(t)
  BY <1>0, <1>4 DEF Synthesise
<1>5. CASE Validate(t)
  BY <1>0, <1>5 DEF Validate
<1>6. CASE ReadDisputes(t)
  BY <1>0, <1>6 DEF ReadDisputes
<1>7. CASE Conclude(t) \/ Probe(t) \/ Probed(t) \/ Raise(t)
  BY <1>0, <1>7 DEF Conclude, Probe, Probed, Raise
<1>8. CASE Accept(t) \/ Check(t) \/ Acquire(t) \/ Recheck(t)
  BY <1>0, <1>8 DEF Accept, Check, Acquire, Recheck
<1>9. CASE Publish(t) \/ FailToBuild(t) \/ Count(t) \/ Counted(t)
  BY <1>0, <1>9 DEF Publish, FailToBuild, Count, Counted
<1>10. CASE ProbeClaims(t) \/ ReadIdentity(t) \/ Return(t)
  BY <1>0, <1>10 DEF ProbeClaims, ReadIdentity, Return
<1>11. CASE ReadClaimPage(t)
  BY <1>0, <1>11 DEF ReadClaimPage
<1>12. QED
  BY <1>1, <1>2, <1>3, <1>4, <1>5, <1>6, <1>7, <1>8, <1>9, <1>10, <1>11 DEF Serve, Answering

LEMMA StillQuestion ==
    ASSUME HistoryInv, Onwards, NEW t, QuestionOf(t), q'[t] = q[t], pc'[t] = pc[t]
    PROVE  QuestionOf(t)'
<1>1. Len(log) \in Nat /\ Len(log') \in Nat /\ Len(log) <= Len(log') /\ bookmark \in Nat
      /\ bookmark' \in Nat
  BY DEF HistoryInv, Onwards
<1>2. IsQuestion(q'[t], Len(log'))
  BY <1>1 DEF QuestionOf, IsQuestion
<1>3. ~ overtaken' => q'[t].since <= bookmark'
  BY <1>1 DEF QuestionOf, IsQuestion, Onwards
<1>4. QED
  BY <1>2, <1>3 DEF QuestionOf

LEMMA OneQuestion ==
    ASSUME QuestionInv, HistoryInv', Onwards, NEW t \in Thread, Apart(t), QuestionOf(t)'
    PROVE  QuestionInv'
<1>1. ASSUME NEW s \in Thread PROVE QuestionOf(s)'
  <2>1. CASE s = t
    BY <2>1
  <2>2. CASE s # t
    BY <2>2, StillQuestion DEF QuestionInv, Apart
  <2>3. QED
    BY <2>1, <2>2
<1>2. QED
  BY <1>1 DEF QuestionInv, Apart

(* What an ingestion holds. *)
LEMMA IngestingTyped ==
    ASSUME QuestionInv, GroundInv, HistoryInv', Onwards, NEW t \in Thread, Apart(t),
           Retrieve(t) \/ Commit(t) \/ Reconcile(t) \/ ReconcileFails(t) \/ Execute(t)
             \/ Disconnect(t) \/ Note(t) \/ Ingested(t)
    PROVE  QuestionOf(t)'
<1> DEFINE r == q[t]
           n == Len(log)
<1>1. /\ HistoryInv /\ IsQuestion(r, n) /\ DOMAIN q = Thread /\ DOMAIN r = Known
      /\ n \in Nat /\ Len(log') \in Nat /\ n <= Len(log')
      /\ bookmark \in Nat /\ bookmark' \in Nat
      /\ ~ overtaken => r.since <= bookmark
  BY DEF QuestionInv, QuestionOf, HistoryInv, Onwards, IsQuestion
<1>2. pc[t] \in {"retrieve", "ingest", "write", "note"}
  BY DEF Retrieve, Commit, Reconcile, ReconcileFails, Execute, Disconnect, Note, Ingested, Goto, QuestionInv
<1>3. r.side = "out" /\ r.page = 0
  BY <1>2 DEF QuestionInv, QuestionOf, Walking
<1>4. /\ IsQuestion(q'[t], Len(log')) /\ q'[t].side = r.side /\ q'[t].page = r.page
      /\ q'[t].since \in {0, r.since, bookmark}
  <2>0. NoWrite \in Writes
    BY DEF NoWrite, Writes
  <2>1. CASE Retrieve(t)
    <3>1. PICK docs \in SUBSET Doc : q' = [q EXCEPT ![t].candidates = docs]
      BY <2>1 DEF Retrieve
    <3>2. QED
      BY <1>1, <3>1 DEF IsQuestion, Known
  <2>2. CASE Commit(t)
    <3>0. PICK d \in (q[t].candidates \cap Served) \ DocsOf(claims) :
            \E new \in SUBSET (ClaimsOf({d}) \cap Verbatim) \ {{}} :
              q' = [q EXCEPT ![t].write = [claims |-> new, disputes |-> {}], ![t].committed = @ \cup {d}]
      BY <2>2 DEF Commit
    <3>1. PICK new \in SUBSET ClaimsOf({d}) :
            q' = [q EXCEPT ![t].write = [claims |-> new, disputes |-> {}], ![t].committed = @ \cup {d}]
      BY <3>0
    <3>2. PICK w \in Writes : q' = [q EXCEPT ![t].write = w, ![t].committed = @ \cup {d}]
      <4>1. [claims |-> new, disputes |-> {}] \in Writes
        BY DEF Writes, ClaimsOf
      <4>2. QED
        BY <3>1, <4>1
    <3>3. QED
      BY <1>1, <3>2 DEF IsQuestion, Known
  <2>3. CASE Reconcile(t)
    <3> DEFINE Rows(u) == ConflictRows(log[u].claims, log[u].identity,
                                       Touched(log[u].claims, log[u].identity, q[t].committed))
    <3>1. PICK v \in Readable :
            q' = [q EXCEPT ![t].write = [claims |-> {}, disputes |-> Rows(v)], ![t].committed = {}]
      BY <2>3 DEF Reconcile
    <3>2. [claims |-> {}, disputes |-> Rows(v)] \in Writes
      <4>1. Rows(v) \subseteq Ordered
        BY <1>1, ReadableSnapshot, RowsOrdered
      <4> HIDE DEF Rows
      <4>2. QED
        BY <4>1 DEF Writes
    <3>3. PICK w \in Writes : q' = [q EXCEPT ![t].write = w, ![t].committed = {}]
      BY <3>1, <3>2
    <3>4. QED
      BY <1>1, <3>3 DEF IsQuestion, Known
  <2>4. CASE Execute(t)
    <3>1. q' = [q EXCEPT ![t].at = n + 1] /\ log' = Append(log, Snapshot')
      BY <2>4 DEF Execute, Apply
    <3>2. Len(log') = n + 1
      BY <3>1 DEF QuestionInv, HistoryInv
    <3>3. QED
      BY <1>1, <3>1, <3>2 DEF IsQuestion, Known
  <2>5. CASE Disconnect(t)
    <3>1. CASE q' = [q EXCEPT ![t].tries = @ + 1]
      BY <1>1, <3>1 DEF IsQuestion, Known
    <3>2. CASE q' = [q EXCEPT ![t].tries = 0, ![t].write = NoWrite]
      BY <1>1, <2>0, <3>2 DEF IsQuestion, Known
    <3>3. CASE q' = [q EXCEPT ![t] = Blank]
      <4>1. q'[t] = Blank /\ 0 \in 0 .. Len(log')
        BY <1>1, <3>3
      <4>2. QED
        BY <1>1, <1>3, <4>1, BlankQuestion
    <3>4. QED
      BY <2>5, <3>1, <3>2, <3>3 DEF Disconnect
  <2>6. CASE Note(t)
    <3>1. q' = [q EXCEPT ![t].tries = 0, ![t].write = NoWrite, ![t].at = 0]
      BY <2>6 DEF Note
    <3>2. QED
      BY <1>1, <2>0, <3>1 DEF IsQuestion, Known
  <2>7. CASE Ingested(t)
    <3>1. q' = [q EXCEPT ![t].todo = q[t].candidates, ![t].candidates = {}, ![t].since = bookmark]
      BY <2>7 DEF Ingested
    <3>2. QED
      BY <1>1, <3>1 DEF IsQuestion, Known
  <2>8. CASE ReconcileFails(t)
    <3>1. q' = [q EXCEPT ![t].committed = {}]
      BY <2>8 DEF ReconcileFails
    <3>2. QED
      BY <1>1, <3>1 DEF IsQuestion, Known
  <2>9. QED
    BY <2>1, <2>2, <2>3, <2>4, <2>5, <2>6, <2>7, <2>8
<1>5. ~ overtaken' => q'[t].since <= bookmark'
  BY <1>1, <1>4 DEF IsQuestion, Onwards
<1>6. QED
  BY <1>3, <1>4, <1>5 DEF QuestionOf, Apart

(* What each lemma below knows of the question a thread steps with. *)
LEMMA QuestionFacts ==
    ASSUME QuestionInv, Onwards, NEW t \in Thread
    PROVE  /\ HistoryInv /\ IsQuestion(q[t], Len(log)) /\ DOMAIN q = Thread /\ DOMAIN q[t] = Known
           /\ Len(log) \in Nat /\ Len(log') \in Nat /\ Len(log) <= Len(log')
           /\ bookmark \in Nat /\ bookmark' \in Nat
           /\ ~ overtaken' => q[t].since <= bookmark'
           /\ pc[t] \notin Walking => q[t].side = "out" /\ q[t].page = 0
BY DEF QuestionInv, QuestionOf, HistoryInv, Onwards, IsQuestion

LEMMA GatheringTyped ==
    ASSUME QuestionInv, Onwards, NEW t \in Thread, Apart(t),
           Fetch(t) \/ Gather(t) \/ Relate(t) \/ FetchRelated(t) \/ CheckRelated(t)
             \/ Abstain(t) \/ Synthesise(t)
    PROVE  QuestionOf(t)'
<1> DEFINE r == q[t]
<1>1. /\ HistoryInv /\ IsQuestion(r, Len(log)) /\ DOMAIN q = Thread /\ DOMAIN r = Known
      /\ Len(log) \in Nat /\ Len(log') \in Nat /\ Len(log) <= Len(log')
      /\ ~ overtaken' => r.since <= bookmark'
  BY QuestionFacts
<1>2. r.side = "out" /\ r.page = 0
  <2>1. pc[t] \in {"gather", "claims", "related", "quote"}
    BY DEF Fetch, Gather, Relate, FetchRelated, CheckRelated, Gathered, Abstain, Synthesise
  <2>2. QED
    BY <2>1, QuestionFacts DEF Walking
<1>3. /\ IsQuestion(q'[t], Len(log')) /\ q'[t].side = r.side /\ q'[t].page = r.page
      /\ q'[t].since = r.since
  <2>1. CASE Fetch(t)
    <3>1. PICK d \in q[t].todo : q' = [q EXCEPT ![t].doc = {d}, ![t].todo = @ \ {d}]
      BY <2>1 DEF Fetch
    <3>2. QED
      BY <1>1, <3>1 DEF IsQuestion, Known
  <2>2. CASE Gather(t)
    <3> DEFINE Rows(v) == log[v].claims \cap ClaimsOf(q[t].doc)
    <3>1. PICK v \in Readable :
            q' = [q EXCEPT ![t].doc = {}, ![t].evidence = @ \cup Checked(Rows(v)),
                           ![t].rejected = @ \cup (Rows(v) \ Checked(Rows(v)))]
      BY <2>2 DEF Gather
    <3>2. Rows(v) \subseteq Claim /\ Checked(Rows(v)) \subseteq Rows(v)
      BY DEF ClaimsOf, Checked
    <3>3. PICK good \in SUBSET Claim, bad \in SUBSET Claim :
            q' = [q EXCEPT ![t].doc = {}, ![t].evidence = @ \cup good, ![t].rejected = @ \cup bad]
      <4> HIDE DEF Rows
      <4>1. QED
        BY <3>1, <3>2
    <3>4. QED
      BY <1>1, <3>3 DEF IsQuestion, Known
  <2>3. CASE Relate(t)
    <3>1. PICK v \in Readable :
            \E some \in SUBSET (log[v].claims \cap ClaimsOf(Reached(DocsOf(q[t].evidence)))) :
              q' = [q EXCEPT ![t].reached = some]
      BY <2>3 DEF Relate
    <3>2. PICK some \in SUBSET Claim : q' = [q EXCEPT ![t].reached = some]
      BY <1>1, <3>1, ReadableSnapshot
    <3>3. QED
      BY <1>1, <3>2 DEF IsQuestion, Known
  <2>4. CASE Abstain(t)
    <3>1. q' = [q EXCEPT ![t] = Abstaining(q[t])]
      BY <2>4 DEF Abstain
    <3>2. QED
      BY <1>1, <3>1 DEF Abstaining, IsQuestion, Known
  <2>5. CASE Synthesise(t)
    <3>1. PICK w \in Windows(q[t]) : \E cited \in SUBSET DocsOf(w), used \in SUBSET w :
            \E stated \in SUBSET {Object[c] : c \in used} :
              q' = [q EXCEPT ![t].cited = cited, ![t].used = used, ![t].stated = stated,
                             ![t].evidence = {}, ![t].extra = {}]
      BY <2>5 DEF Synthesise
    <3>2. w \in SUBSET Claim
      BY <1>1 DEF Windows, IsQuestion
    <3>3. PICK cited \in SUBSET DocsOf(w), used \in SUBSET w :
            \E stated \in SUBSET {Object[c] : c \in used} :
              q' = [q EXCEPT ![t].cited = cited, ![t].used = used, ![t].stated = stated,
                             ![t].evidence = {}, ![t].extra = {}]
      BY <3>1
    <3>4. PICK stated :
              q' = [q EXCEPT ![t].cited = cited, ![t].used = used, ![t].stated = stated,
                             ![t].evidence = {}, ![t].extra = {}]
      BY <3>3
    <3>5. cited \subseteq Doc /\ used \subseteq Claim
      BY <3>2, DocsKnown
    <3>6. QED
      BY <1>1, <3>4, <3>5 DEF IsQuestion, Known
  <2>6. CASE FetchRelated(t)
    <3>1. PICK d \in DocsOf(r.reached) : q' = [q EXCEPT ![t].doc = {d}]
      BY <2>6 DEF FetchRelated
    <3>2. d \in Doc
      BY <1>1, DocsKnown DEF IsQuestion
    <3>3. QED
      BY <1>1, <3>1, <3>2 DEF IsQuestion, Known
  <2>7. CASE CheckRelated(t)
    <3>1. PICK c \in r.reached :
            q' = [q EXCEPT ![t].doc = {}, ![t].reached = @ \ {c}, ![t].extra = @ \cup Checked({c}),
                           ![t].rejected = @ \cup ({c} \ Checked({c}))]
      BY <2>7 DEF CheckRelated
    <3>2. c \in Claim /\ Checked({c}) \subseteq {c}
      BY <1>1 DEF Checked, IsQuestion
    <3>3. PICK good \in SUBSET Claim, bad \in SUBSET Claim :
            q' = [q EXCEPT ![t].doc = {}, ![t].reached = @ \ {c}, ![t].extra = @ \cup good,
                           ![t].rejected = @ \cup bad]
      BY <3>1, <3>2
    <3>4. QED
      BY <1>1, <3>3 DEF IsQuestion, Known
  <2>8. QED
    BY <2>1, <2>2, <2>3, <2>4, <2>5, <2>6, <2>7
<1>4. QED
  BY <1>1, <1>2, <1>3 DEF QuestionOf, Apart

LEMMA ValidateTyped ==
    ASSUME QuestionInv, Onwards, NEW t \in Thread, Apart(t), Validate(t)
    PROVE  QuestionOf(t)'
<1> DEFINE r == q[t]
<1>1. /\ HistoryInv /\ IsQuestion(r, Len(log)) /\ DOMAIN q = Thread /\ DOMAIN r = Known
      /\ Len(log) \in Nat /\ Len(log') \in Nat /\ Len(log) <= Len(log')
      /\ ~ overtaken' => r.since <= bookmark'
  BY QuestionFacts
<1>2. r.side = "out" /\ r.page = 0
  BY QuestionFacts DEF Validate, Walking
<1>3. /\ IsQuestion(q'[t], Len(log')) /\ q'[t].side = r.side /\ q'[t].page = r.page
      /\ q'[t].since = r.since
  <2>1. PICK cited \in SUBSET r.cited :
          LET used == RestsOn(r, cited)
          IN  \/ q' = [q EXCEPT ![t] = Abstaining(q[t])]
              \/ q' = [q EXCEPT ![t].cited = cited, ![t].used = used, ![t].todo = DocsOf(used)]
    BY DEF Validate
  <2>2. CASE q' = [q EXCEPT ![t] = Abstaining(q[t])]
    BY <1>1, <2>2 DEF Abstaining, IsQuestion, Known
  <2>3. CASE q' = [q EXCEPT ![t].cited = cited, ![t].used = RestsOn(r, cited),
                            ![t].todo = DocsOf(RestsOn(r, cited))]
    <3>1. RestsOn(r, cited) \in SUBSET Claim /\ cited \subseteq Doc
      BY <1>1 DEF RestsOn, ClaimsOf, IsQuestion
    <3>2. DocsOf(RestsOn(r, cited)) \subseteq Doc
      BY <3>1, DocsKnown
    <3>3. QED
      BY <1>1, <2>3, <3>1, <3>2 DEF IsQuestion, Known
  <2>4. QED
    BY <2>1, <2>2, <2>3
<1>4. QED
  BY <1>1, <1>2, <1>3 DEF QuestionOf, Apart

(* The document whose disputes are read, and what a page of them makes of a question. *)
Current(r) == CHOOSE d \in r.todo : TRUE

Read(r, rows, page) ==
    [r EXCEPT !.found = @ \cup {x \in page : Matters(r, x)},
              !.sure = @ /\ GoesOn(r.seen, rows, RivalOf, page), !.seen = rows]

(* What a page leaves alone, and what it adds. *)
PageSeen(r, rows, page, s) ==
    /\ DOMAIN s = Known
    /\ s.evidence = r.evidence /\ s.reached = r.reached /\ s.extra = r.extra
    /\ s.rejected = r.rejected /\ s.doc = r.doc
    /\ s.used = r.used /\ s.stated = r.stated /\ s.cited = r.cited /\ s.candidates = r.candidates
    /\ s.write = r.write /\ s.at = r.at /\ s.since = r.since /\ s.verdict = r.verdict
    /\ s.found = r.found \cup {x \in page : Matters(r, x)}
    /\ s.sure = (r.sure /\ GoesOn(r.seen, rows, RivalOf, page))

(* The next page, the other direction, or the next document. *)
Turned(r, s) ==
    /\ s.page = 0
    /\ IF r.side = "out" THEN s.side = "in" /\ s.todo = r.todo
       ELSE s.side = "out" /\ s.todo = r.todo \ {Current(r)}

PageTurned(r, rows, page, s) ==
    \/ Cardinality(page) < DisputePage /\ s.truncated = r.truncated /\ Turned(r, s)
    \/ /\ ~ (Cardinality(page) < DisputePage) /\ s.truncated = r.truncated
       /\ s.page = r.page + 1 /\ s.seen = rows /\ s.side = r.side /\ s.todo = r.todo
    \/ s.truncated = TRUE /\ Turned(r, s)

LEMMA OnwardTurns ==
    ASSUME NEW r, DOMAIN r = Known
    PROVE  LET s == Onward(r, Current(r))
           IN  /\ DOMAIN s = Known /\ Turned(r, s)
               /\ s.evidence = r.evidence /\ s.reached = r.reached /\ s.extra = r.extra
               /\ s.rejected = r.rejected /\ s.doc = r.doc
               /\ s.used = r.used /\ s.stated = r.stated /\ s.cited = r.cited
               /\ s.candidates = r.candidates /\ s.write = r.write /\ s.at = r.at
               /\ s.since = r.since /\ s.verdict = r.verdict /\ s.found = r.found
               /\ s.sure = r.sure /\ s.truncated = r.truncated
<1> DEFINE d == Current(r)
<1> HIDE DEF d
<1>1. CASE r.side = "out"
  <2>1. Onward(r, d) = [r EXCEPT !.side = "in", !.page = 0, !.seen = {}]
    BY <1>1 DEF Onward
  <2>2. QED
    BY <1>1, <2>1 DEF d, Turned, Known
<1>2. CASE r.side # "out"
  <2>1. Onward(r, d) = [r EXCEPT !.side = "out", !.page = 0, !.seen = {}, !.todo = @ \ {d}]
    BY <1>2 DEF Onward
  <2>2. QED
    BY <1>2, <2>1 DEF d, Turned, Known
<1>3. QED
  BY <1>1, <1>2

LEMMA PageRead ==
    ASSUME QuestionInv, NEW t \in Thread, ReadDisputes(t)
    PROVE  /\ q[t].todo # {}
           /\ \E v \in Readable :
                LET rows == Edges(v, Current(q[t]), q[t].side)
                IN  \E page \in Slice(rows, RivalOf, q[t].page * DisputePage, DisputePage) :
                      PageSeen(q[t], rows, page, q'[t]) /\ PageTurned(q[t], rows, page, q'[t])
<1> DEFINE r == q[t]
           Rows(v) == Edges(v, Current(r), r.side)
           After(v, page) ==
             LET read == Read(r, Rows(v), page)
             IN  IF Cardinality(page) < DisputePage THEN Onward(read, Current(r))
                 ELSE IF r.page + 1 < DisputeMaxPages THEN [read EXCEPT !.page = @ + 1]
                 ELSE [Onward(read, Current(r)) EXCEPT !.truncated = TRUE]
<1>1. DOMAIN q = Thread /\ DOMAIN r = Known
  BY DEF QuestionInv, QuestionOf, IsQuestion
<1>2. PICK v \in Readable :
        \E page \in Slice(Rows(v), RivalOf, r.page * DisputePage, DisputePage) :
            q' = [q EXCEPT ![t] = After(v, page)]
  BY DEF ReadDisputes, Read, Current
<1>3. PICK page \in Slice(Rows(v), RivalOf, r.page * DisputePage, DisputePage) :
            q' = [q EXCEPT ![t] = After(v, page)]
  BY <1>2
<1> DEFINE read == Read(r, Rows(v), page)
<1> HIDE DEF Rows
<1>4. /\ DOMAIN read = Known
      /\ read.evidence = r.evidence /\ read.reached = r.reached /\ read.extra = r.extra
      /\ read.rejected = r.rejected /\ read.doc = r.doc
      /\ read.used = r.used /\ read.stated = r.stated /\ read.cited = r.cited
      /\ read.candidates = r.candidates /\ read.write = r.write /\ read.at = r.at
      /\ read.since = r.since /\ read.verdict = r.verdict
      /\ read.truncated = r.truncated /\ read.side = r.side /\ read.page = r.page
      /\ read.todo = r.todo
  BY <1>1 DEF Read, Known
<1>5. /\ read.found = r.found \cup {x \in page : Matters(r, x)} /\ read.seen = Rows(v)
      /\ read.sure = (r.sure /\ GoesOn(r.seen, Rows(v), RivalOf, page))
  BY <1>1 DEF Read, Known
<1> HIDE DEF read
<1>6. PageSeen(r, Rows(v), page, read) /\ Current(read) = Current(r)
  BY <1>4, <1>5 DEF PageSeen, Current
<1> DEFINE on == Onward(read, Current(r))
<1>7. /\ PageSeen(r, Rows(v), page, on) /\ Turned(r, on) /\ on.truncated = r.truncated
      /\ DOMAIN on = Known
  BY <1>4, <1>6, OnwardTurns DEF PageSeen, Turned
<1> HIDE DEF on
<1>8. CASE Cardinality(page) < DisputePage
  <2>1. q'[t] = on
    BY <1>1, <1>3, <1>8 DEF on, read
  <2>2. QED
    BY <1>7, <1>8, <2>1 DEF PageTurned, Rows, ReadDisputes
<1>9. CASE ~ (Cardinality(page) < DisputePage) /\ r.page + 1 < DisputeMaxPages
  <2>1. q'[t] = [read EXCEPT !.page = @ + 1]
    BY <1>1, <1>3, <1>9 DEF read
  <2>2. PageSeen(r, Rows(v), page, q'[t])
    BY <1>4, <1>6, <2>1 DEF PageSeen, Known
  <2>3. PageTurned(r, Rows(v), page, q'[t])
    BY <1>4, <1>5, <1>9, <2>1 DEF PageTurned, Known
  <2>4. QED
    BY <2>2, <2>3 DEF Rows, ReadDisputes
<1>10. CASE ~ (Cardinality(page) < DisputePage) /\ ~ (r.page + 1 < DisputeMaxPages)
  <2>1. q'[t] = [on EXCEPT !.truncated = TRUE]
    BY <1>1, <1>3, <1>10 DEF on, read
  <2>2. PageSeen(r, Rows(v), page, q'[t])
    BY <1>7, <2>1 DEF PageSeen, Known
  <2>3. /\ q'[t].truncated = TRUE /\ q'[t].page = on.page /\ q'[t].side = on.side
        /\ q'[t].todo = on.todo
    BY <1>7, <2>1 DEF Known
  <2>4. Turned(r, q'[t])
    BY <1>7, <2>3 DEF Turned
  <2>5. PageTurned(r, Rows(v), page, q'[t])
    BY <2>3, <2>4 DEF PageTurned
  <2>6. QED
    BY <2>2, <2>5 DEF Rows, ReadDisputes
<1>11. QED
  BY <1>8, <1>9, <1>10

LEMMA ContestingTyped ==
    ASSUME QuestionInv, Onwards, NEW t \in Thread, Apart(t), ReadDisputes(t) \/ Conclude(t)
    PROVE  QuestionOf(t)'
<1> DEFINE r == q[t]
<1>1. /\ HistoryInv /\ IsQuestion(r, Len(log)) /\ DOMAIN q = Thread /\ DOMAIN r = Known
      /\ Len(log) \in Nat /\ Len(log') \in Nat /\ Len(log) <= Len(log')
      /\ ~ overtaken' => r.since <= bookmark'
  BY QuestionFacts
<1>2. pc'[t] \in Walking
  BY DEF ReadDisputes, Conclude, Goto, Walking, QuestionInv
<1>3. IsQuestion(q'[t], Len(log')) /\ q'[t].since = r.since
  <2>1. CASE ReadDisputes(t)
    <3> DEFINE Rows(v) == Edges(v, Current(r), r.side)
    <3>1. PICK v \in Readable :
            \E page \in Slice(Rows(v), RivalOf, r.page * DisputePage, DisputePage) :
              PageSeen(r, Rows(v), page, q'[t]) /\ PageTurned(r, Rows(v), page, q'[t])
      BY <2>1, PageRead
    <3>2. PICK page : PageSeen(r, Rows(v), page, q'[t]) /\ PageTurned(r, Rows(v), page, q'[t])
      BY <3>1
    <3> HIDE DEF Rows
    <3>3. q'[t].page \in Nat /\ q'[t].todo \subseteq r.todo
      BY <1>1, <3>2 DEF PageTurned, Turned, IsQuestion
    <3>4. QED
      BY <1>1, <3>2, <3>3 DEF PageSeen, IsQuestion
  <2>2. CASE Conclude(t)
    <3>1. PICK verdict : q' = [q EXCEPT ![t].verdict = verdict, ![t].found = {}]
      BY <2>2 DEF Conclude
    <3>2. QED
      BY <1>1, <3>1 DEF IsQuestion, Known
  <2>3. QED
    BY <2>1, <2>2
<1>4. QED
  BY <1>1, <1>2, <1>3 DEF QuestionOf, Apart

LEMMA FreshTyped ==
    ASSUME QuestionInv, Onwards, NEW t \in Thread, Apart(t),
           Probe(t) \/ Raise(t) \/ Accept(t) \/ Return(t)
    PROVE  QuestionOf(t)'
<1>1. /\ HistoryInv /\ DOMAIN q = Thread /\ Len(log) \in Nat /\ Len(log') \in Nat
      /\ Len(log) <= Len(log') /\ bookmark' \in Nat
  BY QuestionFacts
<1>2. CASE Probe(t)
  <2>1. PICK v \in Readable : q' = [q EXCEPT ![t] = [Blank EXCEPT !.at = v]]
    BY <1>2 DEF Probe
  <2>2. v \in 0 .. Len(log')
    BY <1>1, ReadableSnapshot
  <2>3. q'[t] = [Blank EXCEPT !.at = v]
    BY <1>1, <2>1
  <2>4. IsQuestion(q'[t], Len(log')) /\ q'[t].side = "out" /\ q'[t].page = 0 /\ q'[t].since = 0
    BY <1>1, <2>2, <2>3, BlankQuestion
  <2>5. QED
    BY <1>1, <2>4 DEF QuestionOf, Apart
<1>3. CASE Raise(t) \/ Accept(t) \/ Return(t)
  <2>1. q'[t] = Blank
    BY <1>1, <1>3 DEF Raise, Accept, Return
  <2>2. 0 \in 0 .. Len(log')
    BY <1>1
  <2>3. IsQuestion(q'[t], Len(log')) /\ q'[t].side = "out" /\ q'[t].page = 0 /\ q'[t].since = 0
    BY <1>1, <2>1, <2>2, BlankQuestion
  <2>4. QED
    BY <1>1, <2>3 DEF QuestionOf, Apart
<1>4. QED
  BY <1>2, <1>3

LEMMA CountTyped ==
    ASSUME QuestionInv, Onwards, NEW t \in Thread, Apart(t), Count(t)
    PROVE  QuestionOf(t)'
<1>1. /\ HistoryInv /\ IsQuestion(q[t], Len(log)) /\ DOMAIN q = Thread /\ DOMAIN q[t] = Known
      /\ Len(log) \in Nat /\ Len(log') \in Nat /\ Len(log) <= Len(log')
      /\ ~ overtaken' => q[t].since <= bookmark'
  BY QuestionFacts
<1>2. q[t].side = "out" /\ q[t].page = 0
  BY QuestionFacts DEF Count, Walking
<1>3. PICK v \in Readable : q' = [q EXCEPT ![t].at = v]
  BY DEF Count
<1>4. v \in 0 .. Len(log')
  BY <1>1, ReadableSnapshot
<1>5. IsQuestion(q'[t], Len(log')) /\ q'[t].side = "out" /\ q'[t].page = 0 /\ q'[t].since = q[t].since
  BY <1>1, <1>2, <1>3, <1>4 DEF IsQuestion, Known
<1>6. QED
  BY <1>1, <1>5 DEF QuestionOf, Apart

LEMMA OtherwiseTyped ==
    ASSUME QuestionInv, Onwards, NEW t \in Thread, Apart(t),
           Probed(t) \/ Counted(t) \/ Check(t) \/ Acquire(t) \/ Recheck(t) \/ Publish(t)
             \/ FailToBuild(t) \/ ProbeClaims(t) \/ ReadClaimPage(t) \/ ReadIdentity(t)
    PROVE  QuestionOf(t)'
<1>1. /\ HistoryInv /\ IsQuestion(q[t], Len(log)) /\ DOMAIN q = Thread
      /\ Len(log) \in Nat /\ Len(log') \in Nat /\ Len(log) <= Len(log')
      /\ ~ overtaken' => q[t].since <= bookmark'
  BY QuestionFacts
<1>2. pc[t] \notin Walking /\ q' = q
  BY DEF Probed, Counted, Check, Acquire, Recheck, Publish, FailToBuild, ProbeClaims,
         ReadClaimPage, ReadIdentity, Walking
<1>3. q[t].side = "out" /\ q[t].page = 0
  BY <1>2, QuestionFacts
<1>4. IsQuestion(q'[t], Len(log'))
  BY <1>1, <1>2 DEF IsQuestion
<1>5. QED
  BY <1>1, <1>2, <1>3, <1>4 DEF QuestionOf, Apart

LEMMA TrimTyped ==
    ASSUME QuestionInv, HistoryInv', Onwards, NEW t \in Thread, Trim(t)
    PROVE  QuestionInv'
<1>1. /\ pc[t] = "trim" /\ pc' = [pc EXCEPT ![t] = "retrieve"]
      /\ q' = [s \in Thread |-> [q[s] EXCEPT !.cut = @ \/ q[s].doc \cap Dropped # {}]]
  BY DEF Trim, Goto
<1>2. pc' \in [Thread -> Place] /\ DOMAIN q' = Thread
  BY <1>1 DEF QuestionInv, Place
<1>3. ASSUME NEW s \in Thread PROVE QuestionOf(s)'
  <2>1. /\ IsQuestion(q[s], Len(log)) /\ DOMAIN q[s] = Known
        /\ Len(log) \in Nat /\ Len(log') \in Nat /\ Len(log) <= Len(log')
        /\ ~ overtaken' => q[s].since <= bookmark'
        /\ pc[s] \notin Walking => q[s].side = "out" /\ q[s].page = 0
    BY QuestionFacts
  <2>2. pc'[s] \notin Walking => pc[s] \notin Walking
    BY <1>1 DEF QuestionInv, Walking
  <2>3. /\ IsQuestion(q'[s], Len(log')) /\ q'[s].side = q[s].side /\ q'[s].page = q[s].page
        /\ q'[s].since = q[s].since
    <3>1. PICK mark : q'[s] = [q[s] EXCEPT !.cut = mark]
      BY <1>1
    <3>2. QED
      BY <2>1, <3>1 DEF IsQuestion, Known
  <2>4. QED
    BY <2>1, <2>2, <2>3 DEF QuestionOf
<1>4. QED
  BY <1>2, <1>3 DEF QuestionInv

LEMMA QuestionStep ==
    ASSUME QuestionInv, GroundInv, [ApiNext]_vars
    PROVE  QuestionInv'
<1>0. HistoryInv /\ HistoryInv' /\ Onwards
  BY HistoryStep DEF QuestionInv
<1>1. CASE UNCHANGED <<pc, q>>
  BY <1>0, <1>1, StillQuestion DEF QuestionInv
<1>2. CASE UNCHANGED vars \/ Outside
  BY <1>1, <1>2 DEF vars, controller, Outside
<1>3. ASSUME NEW t \in Thread, Serve(t), ~ Trim(t) PROVE QuestionInv'
  <2>0. Apart(t)
    BY <1>3, OneMoves
  <2>1. CASE Retrieve(t) \/ Commit(t) \/ Reconcile(t) \/ ReconcileFails(t) \/ Execute(t)
               \/ Disconnect(t) \/ Note(t) \/ Ingested(t)
    BY <1>0, <2>0, <2>1, IngestingTyped, OneQuestion
  <2>2. CASE Fetch(t) \/ Gather(t) \/ Relate(t) \/ FetchRelated(t) \/ CheckRelated(t)
               \/ Abstain(t) \/ Synthesise(t)
    BY <1>0, <2>0, <2>2, GatheringTyped, OneQuestion
  <2>3. CASE Validate(t) \/ ReadDisputes(t) \/ Conclude(t)
    BY <1>0, <2>0, <2>3, ValidateTyped, ContestingTyped, OneQuestion
  <2>4. CASE Probe(t) \/ Raise(t) \/ Accept(t) \/ Return(t) \/ Count(t)
    BY <1>0, <2>0, <2>4, FreshTyped, CountTyped, OneQuestion
  <2>5. CASE Probed(t) \/ Counted(t) \/ Check(t) \/ Acquire(t) \/ Recheck(t) \/ Publish(t)
               \/ FailToBuild(t) \/ ProbeClaims(t) \/ ReadClaimPage(t) \/ ReadIdentity(t)
    BY <1>0, <2>0, <2>5, OtherwiseTyped, OneQuestion
  <2>6. QED
    BY <1>3, <2>1, <2>2, <2>3, <2>4, <2>5 DEF Serve, Answering
<1>4. ASSUME NEW t \in Thread, Trim(t) PROVE QuestionInv'
  BY <1>0, <1>4, TrimTyped
<1>5. QED
  BY <1>2, <1>3, <1>4 DEF ApiNext

(***************************************************************************)
(* Type correctness: the bookmark is of a snapshot there is, the log ends  *)
(* with the graph as it is, and _init is held exactly by the thread        *)
(* between its check and what it builds.                                   *)
(***************************************************************************)
THEOREM TypeCorrect == ApiSpec => []ApiTypeOK
<1>1. QuestionInv /\ LockInv => ApiTypeOK
  <2> SUFFICES ASSUME QuestionInv, LockInv PROVE ApiTypeOK
    OBVIOUS
  <2>1. /\ claims \subseteq Claim /\ identity \in [Mention -> Person \cup {NoPerson}]
        /\ bookmark \in 1 .. Len(log) /\ log[Len(log)] = Snapshot
    BY GraphNow DEF QuestionInv, HistoryInv, Identities
  <2>2. \A t \in Thread : IsQuestion(q[t], Len(log))
    BY DEF QuestionInv, QuestionOf
  <2>3. pc \in [Thread -> Place]
    BY DEF QuestionInv
  <2>4. \A t \in Thread :
          /\ q[t].evidence \cup q[t].reached \cup q[t].extra \subseteq Claim
          /\ q[t].rejected \cup q[t].used \subseteq Claim
          /\ q[t].candidates \cup q[t].doc \cup q[t].todo \cup q[t].cited \subseteq Doc
          /\ q[t].at \in 0 .. Len(log)
    BY <2>2 DEF IsQuestion
  <2>5. QED
    BY <2>1, <2>3, <2>4 DEF ApiTypeOK, LockInv, Locking
<1>2. QED
  BY <1>1, LockInitially, LockStep, GroundInitially, GroundStep, QuestionsInitially, QuestionStep,
     PTL DEF ApiSpec

-----------------------------------------------------------------------------
(* The panel shows what disputes there are. *)

ShownFields == {"epoch", "found", "identity", "sure"}
PanelFields == {"claims", "page", "seen", "shown"}
Showing     == {"probe_claims", "pages", "identity"}

(* Nothing of its epoch is missing from what is shown, over the log of some state. *)
Sound(s, snapshots, over) ==
    s.sure /\ ~ over =>
        /\ s.epoch \in 1 .. Len(snapshots)
        /\ Detected(snapshots[s.epoch].claims, s.identity) \subseteq s.found
        /\ \E i \in s.epoch .. Len(snapshots) : s.identity = snapshots[i].identity

(***************************************************************************)
(* What a thread at some place has read of the claims of its epoch: all of *)
(* them, or all but those that are ahead of its walk over the pages.       *)
(***************************************************************************)
PanelAt(p, place, snapshots, mark, over) ==
    /\ DOMAIN p = PanelFields /\ DOMAIN p.shown = ShownFields
    /\ p.claims \subseteq Claim /\ p.page \in Nat
    /\ place \notin Showing \cup {"answered", "idle"} => p = Unread
    /\ place = "answered" => Sound(p.shown, snapshots, over)
    /\ place = "probe_claims" => p.page = 0
    /\ place \in Showing /\ p.shown.sure /\ ~ over =>
        /\ p.shown.epoch \in 1 .. mark
        /\ place = "pages" =>
             \A c \in snapshots[p.shown.epoch].claims \ p.claims :
                p.page = 0 \/ Ahead(p.seen, ClaimId, p.page * ClaimPage, <<c, 1>>)
        /\ place = "identity" => snapshots[p.shown.epoch].claims \subseteq p.claims

PanelInv ==
    /\ DOMAIN panel = Thread /\ DOMAIN cache = ShownFields
    /\ Sound(cache, log, overtaken)
    /\ \A t \in Thread : PanelAt(panel[t], pc[t], log, bookmark, overtaken)

LEMMA UnreadFields ==
    /\ DOMAIN Unread = PanelFields /\ DOMAIN Unread.shown = ShownFields /\ DOMAIN NoPanel = ShownFields
    /\ Unread.claims = {} /\ Unread.page = 0 /\ Unread.shown = NoPanel /\ NoPanel.sure = FALSE
BY DEF Unread, NoPanel, PanelFields, ShownFields

LEMMA UnreadIsFine ==
    ASSUME NEW place, place \notin Showing, NEW snapshots, NEW mark, NEW over
    PROVE  PanelAt(Unread, place, snapshots, mark, over)
<1>1. Sound(NoPanel, snapshots, over)
  BY UnreadFields DEF Sound
<1>2. place # "probe_claims"
  BY DEF Showing
<1>3. QED
  BY <1>1, <1>2, UnreadFields DEF PanelAt

LEMMA PanelInitially == ApiInit => PanelInv
<1> SUFFICES ASSUME ApiInit PROVE PanelInv
  OBVIOUS
<1>1. /\ DOMAIN panel = Thread /\ cache = NoPanel
      /\ \A t \in Thread : pc[t] = "idle" /\ panel[t] = Unread
  BY DEF ApiInit
<1>2. Sound(cache, log, overtaken)
  BY <1>1, UnreadFields DEF Sound
<1>3. \A t \in Thread : PanelAt(panel[t], pc[t], log, bookmark, overtaken)
  BY <1>1, UnreadIsFine DEF Showing
<1>4. QED
  BY <1>1, <1>2, <1>3, UnreadFields DEF PanelInv

LEMMA SoundStays ==
    ASSUME HistoryInv, Onwards, NEW s, Sound(s, log, overtaken)
    PROVE  Sound(s, log', overtaken')
<1> SUFFICES ASSUME s.sure, ~ overtaken'
             PROVE  /\ s.epoch \in 1 .. Len(log')
                    /\ Detected(log'[s.epoch].claims, s.identity) \subseteq s.found
                    /\ \E i \in s.epoch .. Len(log') : s.identity = log'[i].identity
  BY DEF Sound
<1>1. ~ overtaken /\ Len(log) \in Nat /\ Len(log') \in Nat /\ Len(log) <= Len(log')
      /\ \A i \in 1 .. Len(log) : log'[i] = log[i]
  BY DEF HistoryInv, Onwards
<1>2. /\ s.epoch \in 1 .. Len(log)
      /\ Detected(log[s.epoch].claims, s.identity) \subseteq s.found
      /\ \E i \in s.epoch .. Len(log) : s.identity = log[i].identity
  BY <1>1 DEF Sound
<1>3. PICK i \in s.epoch .. Len(log) : s.identity = log[i].identity
  BY <1>2
<1>4. log'[s.epoch] = log[s.epoch] /\ log'[i] = log[i] /\ i \in s.epoch .. Len(log')
      /\ s.epoch \in 1 .. Len(log')
  BY <1>1, <1>2
<1>5. QED
  BY <1>2, <1>3, <1>4

(* A panel nobody touches, while others write. *)
LEMMA PanelStays ==
    ASSUME HistoryInv, Onwards, NEW p, NEW place, PanelAt(p, place, log, bookmark, overtaken)
    PROVE  PanelAt(p, place, log', bookmark', overtaken')
<1>1. /\ Len(log) \in Nat /\ bookmark \in 1 .. Len(log) /\ bookmark' \in Nat
      /\ \A i \in 1 .. Len(log) : log'[i] = log[i]
      /\ ~ overtaken' => ~ overtaken /\ bookmark <= bookmark'
  BY DEF HistoryInv, Onwards
<1>2. place = "answered" => Sound(p.shown, log', overtaken')
  BY SoundStays DEF PanelAt
<1>3. ASSUME place \in Showing, p.shown.sure, ~ overtaken'
      PROVE  /\ p.shown.epoch \in 1 .. bookmark'
             /\ p.shown.epoch \in 1 .. bookmark
             /\ log'[p.shown.epoch] = log[p.shown.epoch]
  <2>1. p.shown.epoch \in 1 .. bookmark
    BY <1>1, <1>3 DEF PanelAt
  <2>2. p.shown.epoch \in 1 .. bookmark' /\ p.shown.epoch \in 1 .. Len(log)
    BY <1>1, <1>3, <2>1
  <2>3. QED
    BY <1>1, <2>1, <2>2
<1>4. QED
  BY <1>1, <1>2, <1>3 DEF PanelAt

(* A thread that is not showing a panel, before and after. *)
LEMMA PlainPanel ==
    ASSUME NEW p, NEW place, PanelAt(p, place, log, bookmark, overtaken),
           place \notin Showing \cup {"answered", "idle"}, NEW then, then \notin Showing,
           NEW snapshots, NEW mark, NEW over
    PROVE  PanelAt(p, then, snapshots, mark, over)
<1>1. p = Unread
  BY DEF PanelAt
<1>2. QED
  BY <1>1, UnreadIsFine

LEMMA OnePanel ==
    ASSUME QuestionInv, PanelInv, Onwards, NEW t \in Thread, DOMAIN panel' = Thread,
           \A s \in Thread : s # t => pc'[s] = pc[s] /\ panel'[s] = panel[s],
           PanelAt(panel'[t], pc'[t], log', bookmark', overtaken'),
           cache' = cache \/ (DOMAIN cache' = ShownFields /\ Sound(cache', log', overtaken'))
    PROVE  PanelInv'
<1>1. Sound(cache', log', overtaken') /\ DOMAIN cache' = ShownFields
  <2>1. CASE cache' = cache
    <3>1. Sound(cache, log', overtaken')
      BY SoundStays DEF PanelInv, QuestionInv
    <3>2. QED
      BY <2>1, <3>1 DEF PanelInv
  <2>2. QED
    BY <2>1
<1>2. ASSUME NEW s \in Thread PROVE PanelAt(panel'[s], pc'[s], log', bookmark', overtaken')
  <2>1. CASE s = t
    BY <2>1
  <2>2. CASE s # t
    <3>1. PanelAt(panel[s], pc[s], log', bookmark', overtaken')
      BY PanelStays DEF PanelInv, QuestionInv
    <3>2. QED
      BY <2>2, <3>1
  <2>3. QED
    BY <2>1, <2>2
<1>3. QED
  BY <1>1, <1>2 DEF PanelInv, ShownFields

(* Questions, construction and counting touch no panel. *)
LEMMA PlainSteps ==
    ASSUME QuestionInv, PanelInv, Onwards, NEW t \in Thread,
           (Answering(t) /\ UNCHANGED api) \/ Check(t) \/ Acquire(t) \/ Recheck(t) \/ Publish(t)
             \/ FailToBuild(t) \/ Trim(t) \/ Count(t)
    PROVE  PanelInv'
<1> USE DEF Goto, Showing
<1> DEFINE Plain == /\ pc[t] \notin Showing \cup {"answered", "idle"} /\ pc'[t] \notin Showing
                    /\ \A s \in Thread : s # t => pc'[s] = pc[s]
<1>0. pc \in [Thread -> Place]
  BY DEF QuestionInv
<1>1. Plain
  <2>1. CASE Retrieve(t) \/ Commit(t) \/ Reconcile(t) \/ ReconcileFails(t)
    BY <1>0, <2>1 DEF Retrieve, Commit, Reconcile, ReconcileFails
  <2>2. CASE Execute(t) \/ Disconnect(t) \/ Note(t) \/ Ingested(t)
    BY <1>0, <2>2 DEF Execute, Disconnect, Note, Ingested
  <2>3. CASE Fetch(t) \/ Gather(t) \/ Relate(t) \/ FetchRelated(t) \/ CheckRelated(t) \/ Abstain(t)
    BY <1>0, <2>3 DEF Fetch, Gather, Relate, FetchRelated, CheckRelated, Gathered, Abstain
  <2>4. CASE Synthesise(t)
    BY <1>0, <2>4 DEF Synthesise, Gathered
  <2>5. CASE Validate(t)
    BY <1>0, <2>5 DEF Validate
  <2>6. CASE ReadDisputes(t)
    BY <1>0, <2>6 DEF ReadDisputes
  <2>7. CASE Conclude(t) \/ Probe(t) \/ Probed(t) \/ Raise(t)
    BY <1>0, <2>7 DEF Conclude, Probe, Probed, Raise
  <2>8. CASE Check(t) \/ Acquire(t) \/ Recheck(t)
    BY <1>0, <2>8 DEF Check, Acquire, Recheck
  <2>9. CASE Publish(t) \/ FailToBuild(t) \/ Trim(t) \/ Count(t)
    BY <1>0, <2>9 DEF Publish, FailToBuild, Trim, Count
  <2>10. QED
    BY <2>1, <2>2, <2>3, <2>4, <2>5, <2>6, <2>7, <2>8, <2>9 DEF Answering
<1>2. panel' = panel /\ cache' = cache
  BY DEF Check, Acquire, Recheck, Publish, FailToBuild, Trim, Count, api
<1>3. DOMAIN panel = Thread /\ PanelAt(panel[t], pc[t], log, bookmark, overtaken)
  BY DEF PanelInv
<1>4. PanelAt(panel'[t], pc'[t], log', bookmark', overtaken')
  BY <1>1, <1>2, <1>3, PlainPanel
<1>5. QED
  BY <1>1, <1>2, <1>3, <1>4, OnePanel

LEMMA BetweenPanels ==
    ASSUME QuestionInv, PanelInv, Onwards, NEW t \in Thread, Accept(t) \/ Return(t)
    PROVE  PanelInv'
<1>1. /\ panel' = [panel EXCEPT ![t] = Unread] /\ cache' = cache
      /\ \E place \in {"check", "idle"} : pc' = [pc EXCEPT ![t] = place]
  BY DEF Accept, Return, Goto
<1>2. DOMAIN panel = Thread /\ DOMAIN pc = Thread
  BY DEF PanelInv, QuestionInv
<1>3. /\ DOMAIN panel' = Thread /\ panel'[t] = Unread /\ pc'[t] \notin Showing
      /\ \A s \in Thread : s # t => pc'[s] = pc[s] /\ panel'[s] = panel[s]
  BY <1>1, <1>2 DEF Showing
<1>4. QED
  BY <1>1, <1>3, UnreadIsFine, OnePanel

(* What is cached for this epoch is shown; else a walk over its claims begins. *)
LEMMA CountedShows ==
    ASSUME QuestionInv, GroundInv, PanelInv, HistoryInv', Onwards, NEW t \in Thread, Counted(t)
    PROVE  PanelInv'
<1> DEFINE v == q[t].at
<1>1. /\ pc[t] = "counting" /\ bookmark' = v /\ cache' = cache
      /\ pc \in [Thread -> Place] /\ DOMAIN panel = Thread /\ DOMAIN cache = ShownFields
      /\ PanelAt(panel[t], pc[t], log, bookmark, overtaken)
  BY DEF Counted, Remember, QuestionInv, PanelInv
<1>2. panel[t] = Unread
  BY <1>1 DEF PanelAt, Showing
<1>3. v \in 1 .. Len(log) /\ v \in 1 .. bookmark' /\ HistoryInv
  <2>1. v \in 1 .. Len(log)
    BY <1>1, NotedIsThere DEF Noting
  <2>2. QED
    BY <1>1, <2>1 DEF QuestionInv, HistoryInv
<1>4. CASE Hit(v)
  <2>1. /\ panel' = [panel EXCEPT ![t].shown = [cache EXCEPT !.epoch = v]]
        /\ pc' = [pc EXCEPT ![t] = "answered"]
    BY <1>4 DEF Counted, Goto
  <2>2. [cache EXCEPT !.epoch = v].epoch = v /\ [cache EXCEPT !.epoch = v].sure = cache.sure
        /\ [cache EXCEPT !.epoch = v].found = cache.found
        /\ [cache EXCEPT !.epoch = v].identity = cache.identity
        /\ DOMAIN [cache EXCEPT !.epoch = v] = ShownFields
    BY <1>1 DEF ShownFields
  <2>3. cache.epoch = v
    BY <1>4 DEF Hit
  <2> DEFINE shown == [cache EXCEPT !.epoch = v]
  <2>4. Sound(cache, log', overtaken')
    BY <1>3, SoundStays DEF PanelInv
  <2> HIDE DEF shown
  <2>5. /\ DOMAIN shown = ShownFields /\ shown.sure = cache.sure /\ shown.epoch = cache.epoch
        /\ shown.identity = cache.identity /\ shown.found = cache.found
    BY <2>2, <2>3 DEF shown
  <2>6. Sound(shown, log', overtaken')
    BY <2>4, <2>5 DEF Sound
  <2>7. /\ panel'[t] = [panel[t] EXCEPT !.shown = shown] /\ DOMAIN panel' = Thread
        /\ pc'[t] = "answered"
        /\ \A s \in Thread : s # t => pc'[s] = pc[s] /\ panel'[s] = panel[s]
    BY <1>1, <2>1 DEF shown
  <2>8. /\ DOMAIN panel'[t] = PanelFields /\ panel'[t].shown = shown
        /\ panel'[t].claims = {} /\ panel'[t].page = 0
    BY <1>2, <2>7, UnreadFields DEF PanelFields
  <2>9. PanelAt(panel'[t], pc'[t], log', bookmark', overtaken')
    BY <2>5, <2>6, <2>7, <2>8 DEF PanelAt, Showing
  <2>10. QED
    BY <1>1, <2>7, <2>9, OnePanel
<1>5. CASE ~ Hit(v)
  <2> DEFINE shown == [NoPanel EXCEPT !.epoch = v, !.sure = TRUE]
  <2>1. /\ panel' = [panel EXCEPT ![t].shown = shown]
        /\ pc' = [pc EXCEPT ![t] = "probe_claims"]
    BY <1>5 DEF Counted, Goto
  <2>2. DOMAIN shown = ShownFields /\ shown.epoch = v
    BY DEF NoPanel, ShownFields
  <2> HIDE DEF shown
  <2>3. /\ panel'[t] = [panel[t] EXCEPT !.shown = shown] /\ DOMAIN panel' = Thread
        /\ pc'[t] = "probe_claims"
        /\ \A s \in Thread : s # t => pc'[s] = pc[s] /\ panel'[s] = panel[s]
    BY <1>1, <2>1
  <2>4. /\ DOMAIN panel'[t] = PanelFields /\ panel'[t].shown = shown
        /\ panel'[t].claims = {} /\ panel'[t].page = 0
    BY <1>2, <2>3, UnreadFields DEF PanelFields
  <2>5. PanelAt(panel'[t], pc'[t], log', bookmark', overtaken')
    BY <1>3, <2>2, <2>3, <2>4 DEF PanelAt, Showing
  <2>6. QED
    BY <1>1, <2>3, <2>5, OnePanel
<1>6. QED
  BY <1>4, <1>5

(* A statement sees the claims of an epoch that is not after its bookmark. *)
LEMMA EpochIsSeen ==
    ASSUME HistoryInv, NEW e \in 1 .. bookmark, NEW v \in Readable
    PROVE  log[e].claims \subseteq log[v].claims /\ e \in 1 .. v /\ e \in 1 .. Len(log)
<1>1. Len(log) \in Nat /\ bookmark \in 1 .. Len(log) /\ v \in 1 .. Len(log) /\ bookmark <= v
  BY ReadableSnapshot DEF HistoryInv
<1>2. e \in 1 .. Len(log) /\ e <= v
  BY <1>1
<1>3. QED
  BY <1>1, <1>2 DEF HistoryInv

LEMMA ProbeShows ==
    ASSUME QuestionInv, PanelInv, Onwards, NEW t \in Thread, ProbeClaims(t)
    PROVE  PanelInv'
<1> DEFINE p == panel[t]
<1>1. /\ pc[t] = "probe_claims" /\ cache' = cache /\ HistoryInv
      /\ UNCHANGED <<log, bookmark, overtaken>>
      /\ pc \in [Thread -> Place] /\ DOMAIN panel = Thread
      /\ PanelAt(p, pc[t], log, bookmark, overtaken)
  BY DEF ProbeClaims, QuestionInv, PanelInv, hydra
<1>2. /\ DOMAIN p = PanelFields /\ DOMAIN p.shown = ShownFields /\ p.page = 0 /\ p.claims \subseteq Claim
      /\ p.shown.sure /\ ~ overtaken => p.shown.epoch \in 1 .. bookmark
  BY <1>1 DEF PanelAt, Showing
<1>3. PICK v \in Readable :
        \/ panel' = [panel EXCEPT ![t].claims = log[v].claims] /\ pc' = [pc EXCEPT ![t] = "identity"]
        \/ pc' = [pc EXCEPT ![t] = "pages"] /\ UNCHANGED panel
  BY DEF ProbeClaims, Goto
<1>4. CASE panel' = [panel EXCEPT ![t].claims = log[v].claims] /\ pc' = [pc EXCEPT ![t] = "identity"]
  <2>1. /\ DOMAIN panel' = Thread /\ pc'[t] = "identity"
        /\ panel'[t] = [p EXCEPT !.claims = log[v].claims]
        /\ \A s \in Thread : s # t => pc'[s] = pc[s] /\ panel'[s] = panel[s]
    BY <1>1, <1>4
  <2>2. /\ DOMAIN panel'[t] = PanelFields /\ panel'[t].claims = log[v].claims
        /\ panel'[t].shown = p.shown /\ panel'[t].page = p.page
    BY <1>2, <2>1 DEF PanelFields
  <2>3. log[v].claims \subseteq Claim
    BY <1>1, ReadableSnapshot
  <2>4. p.shown.sure /\ ~ overtaken => log[p.shown.epoch].claims \subseteq log[v].claims
    BY <1>1, <1>2, EpochIsSeen
  <2>5. PanelAt(panel'[t], pc'[t], log, bookmark, overtaken)
    BY <1>2, <2>1, <2>2, <2>3, <2>4 DEF PanelAt, Showing
  <2>6. QED
    BY <1>1, <2>1, <2>5, OnePanel
<1>5. CASE pc' = [pc EXCEPT ![t] = "pages"] /\ UNCHANGED panel
  <2>1. pc'[t] = "pages" /\ \A s \in Thread : s # t => pc'[s] = pc[s]
    BY <1>1, <1>5
  <2>2. PanelAt(panel'[t], pc'[t], log, bookmark, overtaken)
    BY <1>2, <1>5, <2>1 DEF PanelAt, Showing
  <2>3. QED
    BY <1>1, <1>5, <2>1, <2>2, OnePanel
<1>6. QED
  BY <1>3, <1>4, <1>5

LEMMA ClaimTable ==
    ASSUME HistoryInv, NEW v \in Readable
    PROVE  /\ IsTable(ClaimRows(v), ClaimId)
           /\ \A r \in ClaimRows(v) : ClaimId[r] \in Claim
           /\ \A c \in log[v].claims : <<c, 1>> \in ClaimRows(v) /\ ClaimId[<<c, 1>>] = c
<1> DEFINE all == Claim \X (1 .. 2)
<1>1. log[v].claims \subseteq Claim
  BY ReadableSnapshot
<1>2. ClaimRows(v) \in SUBSET all
  BY <1>1 DEF ClaimRows
<1>3. \A r \in all : ClaimId[r] = r[1] /\ r[1] \in Claim
  BY DEF ClaimId
<1>4. IsFiniteSet(ClaimRows(v))
  <2>1. IsFiniteSet(1 .. 2)
    <3>1. 1 \in Int /\ 2 \in Int
      OBVIOUS
    <3>2. QED
      BY <3>1, FS_Interval
  <2>2. IsFiniteSet(all)
    BY <2>1, AnswerAssumption, FS_Product
  <2>3. QED
    BY <1>2, <2>2, FS_Subset
<1>5. \A r \in ClaimRows(v) : ClaimId[r] \in Claim /\ ClaimId[r] \in Nat
  BY <1>2, <1>3, ClaimAssumption
<1>6. ASSUME NEW c \in log[v].claims PROVE <<c, 1>> \in ClaimRows(v) /\ ClaimId[<<c, 1>>] = c
  <2>1. c \in Claim /\ <<c, 1>> \in all
    BY <1>1
  <2>2. ClaimId[<<c, 1>>] = c
    BY <1>3, <2>1
  <2>3. SpansOf[c] \in 1 .. 2
    BY <2>1, ApiAssumption
  <2>4. QED
    BY <2>1, <2>2, <2>3 DEF ClaimRows
<1>7. QED
  BY <1>4, <1>5, <1>6 DEF IsTable

(* A page more: what is neither read nor ahead of the walk was never there. *)
LEMMA ClaimPageShows ==
    ASSUME QuestionInv, PanelInv, Onwards, NEW t \in Thread, ReadClaimPage(t)
    PROVE  PanelInv'
<1> DEFINE p == panel[t]
           skip == p.page * ClaimPage
<1>1. /\ pc[t] = "pages" /\ cache' = cache /\ HistoryInv
      /\ UNCHANGED <<log, bookmark, overtaken>>
      /\ pc \in [Thread -> Place] /\ DOMAIN panel = Thread
      /\ PanelAt(p, pc[t], log, bookmark, overtaken)
  BY DEF ReadClaimPage, QuestionInv, PanelInv, hydra
<1>2. /\ DOMAIN p = PanelFields /\ DOMAIN p.shown = ShownFields /\ p.claims \subseteq Claim
      /\ p.page \in Nat
      /\ p.shown.sure /\ ~ overtaken =>
           /\ p.shown.epoch \in 1 .. bookmark
           /\ \A c \in log[p.shown.epoch].claims \ p.claims :
                p.page = 0 \/ Ahead(p.seen, ClaimId, skip, <<c, 1>>)
  BY <1>1 DEF PanelAt, Showing
<1>3. PICK v \in Readable :
        \E page \in Slice(ClaimRows(v), ClaimId, skip, ClaimPage) :
          /\ panel' = [panel EXCEPT ![t].claims = @ \cup {ClaimId[r] : r \in page},
                                    ![t].page = @ + 1, ![t].seen = ClaimRows(v),
                                    ![t].shown.sure = @ /\ p.seen \subseteq ClaimRows(v)]
          /\ CASE Cardinality(page) < ClaimPage -> Goto(t, "identity")
               [] p.page + 1 = MaxClaimPages -> Goto(t, "idle")
               [] OTHER -> UNCHANGED pc
  BY DEF ReadClaimPage
<1> DEFINE rows == ClaimRows(v)
<1>4. PICK page \in Slice(rows, ClaimId, skip, ClaimPage) :
          /\ panel' = [panel EXCEPT ![t].claims = @ \cup {ClaimId[r] : r \in page},
                                    ![t].page = @ + 1, ![t].seen = rows,
                                    ![t].shown.sure = @ /\ p.seen \subseteq rows]
          /\ CASE Cardinality(page) < ClaimPage -> Goto(t, "identity")
               [] p.page + 1 = MaxClaimPages -> Goto(t, "idle")
               [] OTHER -> UNCHANGED pc
  BY <1>3
<1>5. /\ IsTable(rows, ClaimId) /\ (\A r \in rows : ClaimId[r] \in Claim)
      /\ \A c \in log[v].claims : <<c, 1>> \in rows /\ ClaimId[<<c, 1>>] = c
  BY <1>1, ClaimTable
<1> HIDE DEF rows
<1> DEFINE read == {ClaimId[r] : r \in page}
<1>6. page \subseteq rows /\ read \subseteq Claim /\ Cardinality(page) \in Nat
  <2>1. page \in SUBSET rows
    BY SliceDef
  <2>2. IsFiniteSet(page)
    BY <1>5, <2>1, FS_Subset DEF IsTable
  <2>3. QED
    BY <1>5, <2>1, <2>2, FS_CardinalityType
<1>7. /\ DOMAIN panel' = Thread /\ DOMAIN panel'[t] = PanelFields
      /\ panel'[t].claims = p.claims \cup read /\ panel'[t].page = p.page + 1
      /\ panel'[t].seen = rows /\ DOMAIN panel'[t].shown = ShownFields
      /\ panel'[t].shown.epoch = p.shown.epoch
      /\ panel'[t].shown.sure = (p.shown.sure /\ p.seen \subseteq rows)
      /\ \A s \in Thread : s # t => panel'[s] = panel[s]
  <2> HIDE DEF read
  <2> DEFINE on == p.shown.sure /\ p.seen \subseteq rows
  <2>1. panel' = [panel EXCEPT ![t].claims = @ \cup read, ![t].page = @ + 1, ![t].seen = rows,
                               ![t].shown.sure = on]
    BY <1>4 DEF read
  <2> HIDE DEF on
  <2>2. panel'[t] = [p EXCEPT !.claims = @ \cup read, !.page = @ + 1, !.seen = rows, !.shown.sure = on]
        /\ DOMAIN panel' = Thread /\ \A s \in Thread : s # t => panel'[s] = panel[s]
    BY <1>1, <2>1
  <2>3. /\ DOMAIN panel'[t] = PanelFields
        /\ panel'[t].claims = p.claims \cup read /\ panel'[t].page = p.page + 1
        /\ panel'[t].seen = rows /\ panel'[t].shown = [p.shown EXCEPT !.sure = on]
    BY <1>2, <2>2 DEF PanelFields
  <2>4. DOMAIN panel'[t].shown = ShownFields /\ panel'[t].shown.epoch = p.shown.epoch
        /\ panel'[t].shown.sure = on
    BY <1>2, <2>3 DEF ShownFields
  <2>5. QED
    BY <2>2, <2>3, <2>4 DEF on
<1>8. ASSUME panel'[t].shown.sure, ~ overtaken, NEW c \in log[p.shown.epoch].claims,
             c \notin panel'[t].claims
      PROVE  /\ Ahead(rows, ClaimId, (p.page + 1) * ClaimPage, <<c, 1>>)
             /\ ~ (Cardinality(page) < ClaimPage)
  <2>1. p.shown.sure /\ p.seen \subseteq rows
    BY <1>7, <1>8
  <2>2. c \in log[v].claims
    BY <1>1, <1>2, <1>8, <2>1, EpochIsSeen
  <2>3. <<c, 1>> \in rows /\ ClaimId[<<c, 1>>] = c
    BY <1>5, <2>2
  <2>4. skip \in Nat /\ ClaimPage \in Nat /\ skip + ClaimPage = (p.page + 1) * ClaimPage
        /\ (p.page = 0 => skip = 0)
    BY <1>2, ApiAssumption
  <2>5. p.page = 0 \/ Ahead(p.seen, ClaimId, skip, <<c, 1>>)
    BY <1>2, <1>7, <1>8, <2>1
  <2>6. skip = 0 \/ Ahead(p.seen, ClaimId, skip, <<c, 1>>)
    BY <2>4, <2>5
  <2> DEFINE x == <<c, 1>>
  <2>7. x \in rows /\ ClaimId[x] = c /\ p.seen \in SUBSET rows
        /\ page \in Slice(rows, ClaimId, skip, ClaimPage)
        /\ (skip = 0 \/ Ahead(p.seen, ClaimId, skip, x))
    BY <2>1, <2>3, <2>6
  <2> HIDE DEF skip, x
  <2>8. \/ \E r \in page : ClaimId[r] = ClaimId[x]
        \/ Ahead(rows, ClaimId, skip + ClaimPage, x) /\ Cardinality(page) >= ClaimPage
    BY <1>5, <2>4, <2>7, WalkGoesOn
  <2>9. ~ \E r \in page : ClaimId[r] = c
    BY <1>7, <1>8
  <2>10. Ahead(rows, ClaimId, skip + ClaimPage, x) /\ Cardinality(page) >= ClaimPage
    BY <2>7, <2>8, <2>9
  <2>11. QED
    BY <1>6, <2>4, <2>10 DEF x
<1>9. /\ panel'[t].claims \subseteq Claim /\ panel'[t].page \in Nat
      /\ p.page + 1 # 0
      /\ panel'[t].shown.sure /\ ~ overtaken => panel'[t].shown.epoch \in 1 .. bookmark
  <2> HIDE DEF read
  <2>1. panel'[t].shown.sure => p.shown.sure
    BY <1>7, Zenon
  <2>2. panel'[t].claims \subseteq Claim
    BY <1>2, <1>6, <1>7
  <2>3. panel'[t].page \in Nat /\ p.page + 1 # 0
    BY <1>2, <1>7
  <2>4. QED
    BY <1>2, <1>7, <2>1, <2>2, <2>3
<1>10. /\ pc'[t] \in {"pages", "identity", "idle"}
       /\ pc'[t] = "identity" => Cardinality(page) < ClaimPage
       /\ \A s \in Thread : s # t => pc'[s] = pc[s]
  BY <1>1, <1>4 DEF Goto
<1>11. PanelAt(panel'[t], pc'[t], log, bookmark, overtaken)
  BY <1>7, <1>8, <1>9, <1>10 DEF PanelAt, Showing
<1>12. QED
  BY <1>1, <1>7, <1>10, <1>11, OnePanel

LEMMA IdentityShows ==
    ASSUME QuestionInv, PanelInv, Onwards, NEW t \in Thread, ReadIdentity(t)
    PROVE  PanelInv'
<1> DEFINE p == panel[t]
           Shown(v) == [p.shown EXCEPT !.identity = log[v].identity,
                                       !.found = Detected(p.claims, log[v].identity)]
<1>1. /\ pc[t] = "identity" /\ HistoryInv /\ UNCHANGED <<log, bookmark, overtaken>>
      /\ pc \in [Thread -> Place] /\ DOMAIN panel = Thread
      /\ PanelAt(p, pc[t], log, bookmark, overtaken)
  BY DEF ReadIdentity, QuestionInv, PanelInv, hydra
<1>2. /\ DOMAIN p = PanelFields /\ DOMAIN p.shown = ShownFields /\ p.claims \subseteq Claim
      /\ p.page \in Nat
      /\ p.shown.sure /\ ~ overtaken =>
           p.shown.epoch \in 1 .. bookmark /\ log[p.shown.epoch].claims \subseteq p.claims
  BY <1>1 DEF PanelAt, Showing
<1>3. PICK v \in Readable :
        panel' = [panel EXCEPT ![t].shown = Shown(v)] /\ cache' = Shown(v)
  BY DEF ReadIdentity
<1> DEFINE shown == Shown(v)
<1>4. /\ DOMAIN shown = ShownFields /\ shown.epoch = p.shown.epoch /\ shown.sure = p.shown.sure
      /\ shown.identity = log[v].identity /\ shown.found = Detected(p.claims, log[v].identity)
  BY <1>2 DEF ShownFields
<1> HIDE DEF Shown
<1>5. /\ DOMAIN panel' = Thread /\ panel'[t] = [p EXCEPT !.shown = shown] /\ cache' = shown
      /\ pc'[t] = "answered"
      /\ \A s \in Thread : s # t => pc'[s] = pc[s] /\ panel'[s] = panel[s]
  BY <1>1, <1>3 DEF ReadIdentity, Goto
<1> HIDE DEF shown
<1>6. ASSUME shown.sure, ~ overtaken
      PROVE  /\ shown.epoch \in 1 .. Len(log)
             /\ Detected(log[shown.epoch].claims, shown.identity) \subseteq shown.found
             /\ \E i \in shown.epoch .. Len(log) : shown.identity = log[i].identity
  <2>1. p.shown.epoch \in 1 .. bookmark /\ log[p.shown.epoch].claims \subseteq p.claims
    BY <1>2, <1>4, <1>6
  <2>2. p.shown.epoch \in 1 .. v /\ p.shown.epoch \in 1 .. Len(log) /\ v \in 1 .. Len(log)
        /\ Len(log) \in Nat
    BY <1>1, <2>1, EpochIsSeen, ReadableSnapshot DEF HistoryInv
  <2>3. Detected(log[p.shown.epoch].claims, log[v].identity) \subseteq Detected(p.claims, log[v].identity)
    BY <1>2, <2>1, DetectedGrows
  <2>4. v \in shown.epoch .. Len(log)
    BY <1>4, <2>2
  <2>5. QED
    BY <1>4, <2>2, <2>3, <2>4
<1>7. Sound(shown, log, overtaken)
  BY <1>6 DEF Sound
<1>8. /\ DOMAIN panel'[t] = PanelFields /\ panel'[t].shown = shown
      /\ panel'[t].claims = p.claims /\ panel'[t].page = p.page
  BY <1>2, <1>5 DEF PanelFields
<1>9. PanelAt(panel'[t], pc'[t], log, bookmark, overtaken)
  BY <1>2, <1>4, <1>5, <1>7, <1>8 DEF PanelAt, Showing
<1>10. QED
  BY <1>1, <1>4, <1>5, <1>7, <1>9, OnePanel

LEMMA PanelStep ==
    ASSUME QuestionInv, GroundInv, PanelInv, [ApiNext]_vars
    PROVE  PanelInv'
<1>0. HistoryInv /\ HistoryInv' /\ Onwards
  BY HistoryStep DEF QuestionInv
<1>1. CASE UNCHANGED vars \/ Outside
  <2>1. UNCHANGED <<pc, panel, cache>>
    BY <1>1 DEF vars, controller, api, Outside
  <2>2. \A t \in Thread : PanelAt(panel[t], pc[t], log', bookmark', overtaken')
    BY <1>0, PanelStays DEF PanelInv
  <2>3. Sound(cache, log', overtaken')
    BY <1>0, SoundStays DEF PanelInv
  <2>4. QED
    BY <2>1, <2>2, <2>3 DEF PanelInv, ShownFields
<1>2. ASSUME NEW t \in Thread, Serve(t) PROVE PanelInv'
  <2>1. CASE (Answering(t) /\ UNCHANGED api) \/ Check(t) \/ Acquire(t) \/ Recheck(t) \/ Publish(t)
               \/ FailToBuild(t) \/ Trim(t) \/ Count(t)
    BY <1>0, <2>1, PlainSteps
  <2>2. CASE Accept(t) \/ Return(t)
    BY <1>0, <2>2, BetweenPanels
  <2>3. CASE Counted(t)
    BY <1>0, <2>3, CountedShows
  <2>4. CASE ProbeClaims(t) \/ ReadClaimPage(t) \/ ReadIdentity(t)
    BY <1>0, <2>4, ProbeShows, ClaimPageShows, IdentityShows
  <2>5. QED
    BY <1>2, <2>1, <2>2, <2>3, <2>4 DEF Serve
<1>3. QED
  BY <1>1, <1>2 DEF ApiNext

(***************************************************************************)
(* The panel shown under an epoch has every dispute among the claims of    *)
(* that epoch, by identities that are not older, cached or not, however    *)
(* many pages the claims take and whatever is written between them: unless *)
(* a page came from an older snapshot than the one before it, or an older  *)
(* bookmark overtook a newer one.                                          *)
(***************************************************************************)
THEOREM PanelIsCurrentTheorem == ApiSpec => []PanelIsCurrent
<1>1. PanelInv => PanelIsCurrent
  BY DEF PanelInv, PanelAt, Sound, PanelIsCurrent
<1>2. QED
  BY <1>1, GroundInitially, GroundStep, QuestionsInitially, QuestionStep, PanelInitially, PanelStep,
     PTL DEF ApiSpec

-----------------------------------------------------------------------------
(* The walk over the disputes of an answer. *)

(* x[1] is used, its value is stated, and x[2] gives another. *)
Stands(r, x) ==
    /\ x[1] \in r.used /\ Object[x[1]] \in r.stated
    /\ Object[x[2]] # Object[x[1]]

(* In every snapshot since the ingestion ended an edge joins them. *)
Abides(r, x, snapshots) ==
    \A i \in 1 .. Len(snapshots) :
        i >= r.since => Dispute(x[1], x[2]) \in snapshots[i].disputes
                        \/ Dispute(x[2], x[1]) \in snapshots[i].disputes

(* Such an edge leaves the claim with the lower number. *)
Outward(x) == x[1] < x[2]

(* The pages that can still show it are ahead of the walk. *)
StillAhead(r, x) == r.page = 0 \/ Ahead(r.seen, RivalOf, r.page * DisputePage, x)

Coming(r, x) ==
    /\ ClaimDoc[x[1]] \in r.todo
    /\ ClaimDoc[x[1]] = Current(r) =>
         \/ r.side = "out" /\ ~ Outward(x)
         \/ r.side = "out" /\ Outward(x) /\ StillAhead(r, x)
         \/ r.side # "out" /\ ~ Outward(x) /\ StillAhead(r, x)

Pair == Claim \X Claim

(* What the walk has not come to is ahead of it: when it ends, there is nothing. *)
WalkAt(r, place, snapshots, over) ==
    r.sure /\ ~ r.truncated /\ ~ over =>
        /\ place = "contest" /\ r.found = {} =>
             \A x \in Pair : Stands(r, x) /\ Abides(r, x, snapshots) => Coming(r, x)
        /\ place = "trace" /\ r.verdict = "supported" =>
             \A x \in Pair : ~ (Stands(r, x) /\ Abides(r, x, snapshots))

WalkInv == \A t \in Thread : WalkAt(q[t], pc[t], log, overtaken)

LEMMA WalksInitially == ApiInit => WalkInv
BY DEF ApiInit, WalkInv, WalkAt

(* Records that agree on what the walk is about. *)
Alike(r, s) ==
    /\ s.used = r.used /\ s.stated = r.stated /\ s.since = r.since /\ s.todo = r.todo
    /\ s.side = r.side /\ s.page = r.page /\ s.seen = r.seen /\ s.found = r.found
    /\ s.sure = r.sure /\ s.truncated = r.truncated /\ s.verdict = r.verdict

(* What abides in a longer log abides in the log. *)
LEMMA AbidesBefore ==
    ASSUME HistoryInv, Onwards, NEW r, NEW x, Abides(r, x, log')
    PROVE  Abides(r, x, log)
<1>1. Len(log) \in Nat /\ Len(log') \in Nat /\ Len(log) <= Len(log')
  BY DEF HistoryInv, Onwards
<1>2. \A i \in 1 .. Len(log) : i \in 1 .. Len(log') /\ log'[i] = log[i]
  BY <1>1 DEF Onwards
<1>3. QED
  BY <1>2 DEF Abides

LEMMA WalkStays ==
    ASSUME HistoryInv, Onwards, NEW r, NEW s, NEW place,
           Alike(r, s), WalkAt(r, place, log, overtaken)
    PROVE  WalkAt(s, place, log', overtaken')
<1>1. ASSUME s.sure, ~ s.truncated, ~ overtaken'
      PROVE  r.sure /\ ~ r.truncated /\ ~ overtaken
  BY <1>1 DEF Alike, Onwards
<1>2. \A x : Stands(s, x) => Stands(r, x)
  BY DEF Alike, Stands
<1>3. \A x : Abides(s, x, log') => Abides(r, x, log)
  <2>1. \A x : Abides(s, x, log') => Abides(s, x, log)
    BY AbidesBefore
  <2>2. \A x : Abides(s, x, log) => Abides(r, x, log)
    BY DEF Alike, Abides
  <2>3. QED
    BY <2>1, <2>2
<1>4. \A x : Coming(r, x) => Coming(s, x)
  BY DEF Alike, Coming, StillAhead, Current
<1>5. r.found = s.found /\ r.verdict = s.verdict
  BY DEF Alike
<1>6. ASSUME s.sure, ~ s.truncated, ~ overtaken', place = "contest", s.found = {}, NEW x \in Pair,
             Stands(s, x), Abides(s, x, log')
      PROVE  Coming(s, x)
  BY <1>1, <1>2, <1>3, <1>4, <1>5, <1>6 DEF WalkAt
<1>7. ASSUME s.sure, ~ s.truncated, ~ overtaken', place = "trace", s.verdict = "supported", NEW x \in Pair,
             Stands(s, x), Abides(s, x, log')
      PROVE  FALSE
  BY <1>1, <1>2, <1>3, <1>5, <1>7 DEF WalkAt
<1>8. QED
  BY <1>6, <1>7 DEF WalkAt

LEMMA SameAlike == \A r : Alike(r, r)
BY DEF Alike

(* One thread walks on, or none. *)
LEMMA OneWalk ==
    ASSUME HistoryInv, Onwards, WalkInv, NEW t \in Thread, Apart(t),
           WalkAt(q'[t], pc'[t], log', overtaken')
    PROVE  WalkInv'
<1>1. ASSUME NEW s \in Thread, s # t PROVE WalkAt(q'[s], pc'[s], log', overtaken')
  <2>1. q'[s] = q[s] /\ pc'[s] = pc[s]
    BY <1>1 DEF Apart
  <2>2. WalkAt(q[s], pc[s], log', overtaken')
    BY SameAlike, WalkStays DEF WalkInv
  <2>3. QED
    BY <2>1, <2>2
<1>2. \A s \in Thread : WalkAt(q'[s], pc'[s], log', overtaken')
  BY <1>1
<1>3. QED
  BY <1>2 DEF WalkInv

(* The rows of a read of disputes. *)
LEMMA DisputeTable ==
    ASSUME HistoryInv, NEW v \in Readable, NEW d, NEW side
    PROVE  IsTable(Edges(v, d, side), RivalOf) /\ \A x \in Pair : RivalOf[x] = x[2] /\ RivalOf[x] \in Nat
<1>1. \A x \in Pair : RivalOf[x] = x[2] /\ RivalOf[x] \in Nat
  BY ClaimAssumption DEF RivalOf, Pair
<1>2. Edges(v, d, side) \in SUBSET Pair
  BY DEF Edges, Pair, ClaimsOf
<1>3. IsFiniteSet(Pair)
  BY AnswerAssumption, FS_Product DEF Pair
<1>4. IsFiniteSet(Edges(v, d, side))
  BY <1>2, <1>3, FS_Subset
<1>5. QED
  BY <1>1, <1>2, <1>4 DEF IsTable

(* A pair that an edge joins is a row of the direction the edge has. *)
LEMMA RowOf ==
    ASSUME HistoryInv, NEW v \in Readable, NEW side, NEW x \in Pair,
           Dispute(x[1], x[2]) \in log[v].disputes \/ Dispute(x[2], x[1]) \in log[v].disputes,
           (side = "out" /\ Outward(x)) \/ (side # "out" /\ ~ Outward(x))
    PROVE  x \in Edges(v, ClaimDoc[x[1]], side)
<1>1. x[1] \in Claim /\ x[2] \in Claim /\ x[1] \in Nat /\ x[2] \in Nat
  BY ClaimAssumption DEF Pair
<1>2. \A e \in log[v].disputes : \E p \in Pair : p[1] < p[2] /\ e = Dispute(p[1], p[2])
  BY ReadableSnapshot DEF Ordered, Pair
<1>3. \A a, b : Dispute(a, b) \in log[v].disputes => a < b
  BY <1>2 DEF Dispute, Edge, ClaimNode, Node
<1>4. x \in ClaimsOf({ClaimDoc[x[1]]}) \X Claim
  BY <1>1 DEF ClaimsOf, Pair
<1>5. CASE side = "out" /\ Outward(x)
  <2>1. Dispute(x[1], x[2]) \in log[v].disputes
    BY <1>1, <1>3, <1>5 DEF Outward
  <2>2. QED
    BY <1>4, <1>5, <2>1 DEF Edges
<1>6. CASE side # "out" /\ ~ Outward(x)
  <2>1. Dispute(x[2], x[1]) \in log[v].disputes
    BY <1>3, <1>6 DEF Outward
  <2>2. QED
    BY <1>4, <1>6, <2>1 DEF Edges
<1>7. QED
  BY <1>5, <1>6

(* A page more of disputes, for one row. *)
LEMMA NextDisputes ==
    ASSUME NEW rows, IsTable(rows, RivalOf), NEW seen \in SUBSET rows, NEW skip \in Nat,
           NEW x \in rows, skip = 0 \/ Ahead(seen, RivalOf, skip, x),
           NEW page \in Slice(rows, RivalOf, skip, DisputePage),
           ~ \E y \in page : RivalOf[y] = RivalOf[x]
    PROVE  Ahead(rows, RivalOf, skip + DisputePage, x) /\ Cardinality(page) >= DisputePage
<1>1. DisputePage \in Nat
  BY AnswerAssumption
<1>2. QED
  BY <1>1, WalkGoesOn

(* A page more: what is ahead of the walk is found, or still ahead. *)
LEMMA WalkGoesOnReading ==
    ASSUME HistoryInv, NEW r, NEW s, NEW v \in Readable, r.page \in Nat,
           ~ overtaken => r.since <= bookmark, r.since \in Nat,
           NEW rows, rows = Edges(v, Current(r), r.side),
           NEW page \in Slice(rows, RivalOf, r.page * DisputePage, DisputePage),
           PageSeen(r, rows, page, s), PageTurned(r, rows, page, s),
           WalkAt(r, "contest", log, overtaken)
    PROVE  WalkAt(s, "contest", log, overtaken)
<1> SUFFICES ASSUME s.sure, ~ s.truncated, ~ overtaken, s.found = {}, NEW x \in Pair,
                    Stands(s, x), Abides(s, x, log)
             PROVE  Coming(s, x)
  BY DEF WalkAt
<1> DEFINE d == Current(r)
           skip == r.page * DisputePage
<1>1. r.sure /\ GoesOn(r.seen, rows, RivalOf, page)
  BY Zenon DEF PageSeen
<1>2. r.found = {} /\ \A y \in page : ~ Matters(r, y)
  BY DEF PageSeen
<1>3. \/ Cardinality(page) < DisputePage /\ s.truncated = r.truncated /\ Turned(r, s)
      \/ /\ ~ (Cardinality(page) < DisputePage) /\ s.truncated = r.truncated
         /\ s.page = r.page + 1 /\ s.seen = rows /\ s.side = r.side /\ s.todo = r.todo
  BY DEF PageTurned
<1>4. ~ r.truncated
  BY <1>3
<1>5. Stands(r, x) /\ Abides(r, x, log)
  BY DEF Stands, Abides, PageSeen
<1>6. Coming(r, x)
  BY <1>1, <1>2, <1>4, <1>5 DEF WalkAt
<1>7. s.todo = r.todo => Current(s) = d
  BY DEF Current
<1>8. CASE ClaimDoc[x[1]] # d
  <2>1. ClaimDoc[x[1]] \in s.todo
    BY <1>3, <1>6, <1>8 DEF Coming, Turned
  <2>2. CASE s.todo = r.todo
    BY <1>7, <1>8, <2>1, <2>2 DEF Coming
  <2>3. CASE s.todo # r.todo
    BY <1>3, <2>1, <2>3 DEF Coming, Turned, StillAhead
  <2>4. QED
    BY <2>2, <2>3
<1>9. CASE ClaimDoc[x[1]] = d /\ r.side = "out" /\ ~ Outward(x)
  BY <1>3, <1>6, <1>9 DEF Coming, Turned, StillAhead
<1>10. CASE /\ ClaimDoc[x[1]] = d /\ StillAhead(r, x)
            /\ (r.side = "out" /\ Outward(x)) \/ (r.side # "out" /\ ~ Outward(x))
  <2>1. x \in rows
    <3>1. v \in 1 .. Len(log) /\ v >= r.since
      <4>1. v \in 1 .. Len(log) /\ bookmark <= v /\ bookmark \in 1 .. Len(log) /\ Len(log) \in Nat
        BY ReadableSnapshot DEF HistoryInv
      <4>2. QED
        BY <4>1
    <3>2. Dispute(x[1], x[2]) \in log[v].disputes \/ Dispute(x[2], x[1]) \in log[v].disputes
      BY <1>5, <3>1 DEF Abides
    <3>3. x \in Edges(v, ClaimDoc[x[1]], r.side)
      BY <1>10, <3>2, RowOf
    <3>4. QED
      BY <1>10, <3>3
  <2>2. x \notin page
    <3>1. x[1] \in r.used /\ Object[x[1]] \in r.stated /\ Object[x[2]] # Object[x[1]]
      BY <1>5 DEF Stands
    <3>2. RivalOf[x] = x[2]
      BY DisputeTable
    <3>3. Matters(r, x)
      BY <3>1, <3>2 DEF Matters
    <3>4. QED
      BY <1>2, <3>3
  <2>3. ~ \E y \in page : RivalOf[y] = RivalOf[x]
    BY <1>1, <2>1, <2>2 DEF GoesOn
  <2>4. IsTable(rows, RivalOf) /\ r.seen \in SUBSET rows
    BY <1>1, DisputeTable DEF GoesOn
  <2>5. skip \in Nat /\ DisputePage \in Nat /\ skip + DisputePage = (r.page + 1) * DisputePage
        /\ (r.page = 0 => skip = 0)
    BY AnswerAssumption
  <2>6. skip = 0 \/ Ahead(r.seen, RivalOf, skip, x)
    BY <1>10, <2>5 DEF StillAhead
  <2>7. /\ page \in Slice(rows, RivalOf, skip, DisputePage)
        /\ skip \in Nat /\ DisputePage \in Nat
    BY <2>5
  <2> HIDE DEF skip
  <2>8. Ahead(rows, RivalOf, skip + DisputePage, x) /\ Cardinality(page) >= DisputePage
    BY <2>1, <2>3, <2>4, <2>6, <2>7, NextDisputes
  <2>9. Ahead(rows, RivalOf, (r.page + 1) * DisputePage, x) /\ Cardinality(page) >= DisputePage
    BY <2>5, <2>8
  <2>10. ~ (Cardinality(page) < DisputePage)
    <3>1. IsFiniteSet(page)
      BY <2>4, SliceDef, FS_Subset DEF IsTable
    <3>2. Cardinality(page) \in Nat
      BY <3>1, FS_CardinalityType
    <3>3. QED
      BY <2>5, <2>9, <3>2
  <2>11. StillAhead(s, x)
    BY <1>3, <2>9, <2>10 DEF StillAhead
  <2>12. QED
    BY <1>3, <1>6, <1>10, <2>10, <2>11 DEF Coming
<1>11. QED
  BY <1>6, <1>8, <1>9, <1>10 DEF Coming

LEMMA DisputesWalk ==
    ASSUME QuestionInv, WalkInv, Onwards, NEW t \in Thread, Apart(t), ReadDisputes(t)
    PROVE  WalkInv'
<1>1. HistoryInv /\ q[t].page \in Nat /\ q[t].since \in Nat /\ (~ overtaken => q[t].since <= bookmark)
  BY DEF QuestionInv, QuestionOf, IsQuestion
<1>2. pc[t] = "contest" /\ pc'[t] = "contest" /\ UNCHANGED <<log, overtaken>>
  BY DEF ReadDisputes, hydra
<1>3. PICK v \in Readable :
        \E page \in Slice(Edges(v, Current(q[t]), q[t].side), RivalOf,
                          q[t].page * DisputePage, DisputePage) :
           /\ PageSeen(q[t], Edges(v, Current(q[t]), q[t].side), page, q'[t])
           /\ PageTurned(q[t], Edges(v, Current(q[t]), q[t].side), page, q'[t])
  BY PageRead
<1>4. WalkAt(q[t], "contest", log, overtaken)
  BY <1>2 DEF WalkInv
<1> DEFINE r == q[t]
           s == q'[t]
           rows == Edges(v, Current(r), r.side)
<1>5. PICK page \in Slice(rows, RivalOf, r.page * DisputePage, DisputePage) :
        PageSeen(r, rows, page, s) /\ PageTurned(r, rows, page, s)
  BY <1>3
<1>6. rows = Edges(v, Current(r), r.side)
  OBVIOUS
<1> HIDE DEF rows, r, s
<1>7. r.page \in Nat /\ r.since \in Nat /\ (~ overtaken => r.since <= bookmark)
      /\ WalkAt(r, "contest", log, overtaken)
  BY <1>1, <1>4 DEF r
<1>8. WalkAt(s, "contest", log, overtaken)
  BY <1>1, <1>5, <1>6, <1>7, WalkGoesOnReading
<1>9. WalkAt(q'[t], pc'[t], log', overtaken')
  BY <1>2, <1>8 DEF s
<1>10. QED
  BY <1>1, <1>9, OneWalk

(* The walk begins with every document of what is used before it. *)
LEMMA ValidateWalks ==
    ASSUME QuestionInv, GroundInv, WalkInv, Onwards, NEW t \in Thread, Apart(t), Validate(t)
    PROVE  WalkInv'
<1> DEFINE r == q[t]
<1>1. /\ HistoryInv /\ DOMAIN q = Thread /\ DOMAIN r = Known /\ pc[t] = "validate"
      /\ pc \in [Thread -> Place] /\ r.used \subseteq Claim
  BY DEF QuestionInv, QuestionOf, IsQuestion, Validate
<1>2. r.side = "out" /\ r.page = 0
  BY QuestionFacts DEF Validate, Walking
<1>3. PICK cited :
        LET used == RestsOn(r, cited)
        IN  \/ q' = [q EXCEPT ![t] = Abstaining(q[t])] /\ pc' = [pc EXCEPT ![t] = "trace"]
            \/ q' = [q EXCEPT ![t].cited = cited, ![t].used = used, ![t].todo = DocsOf(used)]
               /\ pc' = [pc EXCEPT ![t] = "contest"]
  BY DEF Validate, Goto
<1>4. CASE q' = [q EXCEPT ![t] = Abstaining(q[t])] /\ pc' = [pc EXCEPT ![t] = "trace"]
  <2>1. q'[t].verdict = "insufficient" /\ pc'[t] = "trace"
    BY <1>1, <1>4 DEF Abstaining, Known
  <2>2. WalkAt(q'[t], pc'[t], log', overtaken')
    BY <2>1 DEF WalkAt
  <2>3. QED
    BY <1>1, <2>2, OneWalk
<1>5. CASE /\ q' = [q EXCEPT ![t].cited = cited, ![t].used = RestsOn(r, cited),
                             ![t].todo = DocsOf(RestsOn(r, cited))]
           /\ pc' = [pc EXCEPT ![t] = "contest"]
  <2> DEFINE used == RestsOn(r, cited)
             s == q'[t]
  <2>0. used \subseteq Claim
    BY <1>1 DEF RestsOn
  <2> HIDE DEF used
  <2>1. /\ s.used = used /\ s.todo = DocsOf(used) /\ s.side = "out" /\ s.page = 0
        /\ pc'[t] = "contest"
    BY <1>1, <1>2, <1>5 DEF Known, used
  <2> HIDE DEF s
  <2>2. \A x \in Pair : Stands(s, x) => Coming(s, x)
    BY <2>1 DEF Stands, Coming, DocsOf, StillAhead
  <2>3. WalkAt(s, pc'[t], log', overtaken')
    BY <2>1, <2>2 DEF WalkAt
  <2>4. QED
    BY <1>1, <2>3, OneWalk DEF s
<1>6. QED
  BY <1>3, <1>4, <1>5

(* With nothing left to do nothing is ahead. *)
LEMMA ConcludeWalks ==
    ASSUME QuestionInv, WalkInv, Onwards, NEW t \in Thread, Apart(t), Conclude(t)
    PROVE  WalkInv'
<1> DEFINE r == q[t]
           s == q'[t]
<1>1. /\ HistoryInv /\ DOMAIN q = Thread /\ DOMAIN r = Known /\ pc[t] = "contest" /\ r.todo = {}
      /\ pc'[t] = "trace" /\ UNCHANGED <<log, overtaken>>
  BY DEF QuestionInv, QuestionOf, IsQuestion, Conclude, Goto, hydra
<1>2. /\ s.used = r.used /\ s.stated = r.stated /\ s.since = r.since /\ s.sure = r.sure
      /\ s.truncated = r.truncated
      /\ s.verdict = "supported" => r.found = {}
  BY <1>1 DEF Conclude, Known
<1>3. WalkAt(r, "contest", log, overtaken)
  BY <1>1 DEF WalkInv
<1> HIDE DEF r, s
<1>4. \A x \in Pair : ~ Coming(r, x)
  <2>1. r.todo = {}
    BY <1>1 DEF r
  <2>2. QED
    BY <2>1 DEF Coming
<1>5. \A x : Stands(s, x) /\ Abides(s, x, log) => Stands(r, x) /\ Abides(r, x, log)
  BY <1>2 DEF Stands, Abides
<1>6. WalkAt(s, "trace", log, overtaken)
  BY <1>2, <1>3, <1>4, <1>5 DEF WalkAt
<1>7. WalkAt(q'[t], pc'[t], log', overtaken')
  BY <1>1, <1>6 DEF s
<1>8. QED
  BY <1>1, <1>7, OneWalk

(* Elsewhere nothing is asked of a walk. *)
LEMMA NoWalk ==
    ASSUME HistoryInv, Onwards, WalkInv, NEW t \in Thread, Apart(t),
           pc'[t] # "contest", pc'[t] = "trace" => q'[t].verdict # "supported"
    PROVE  WalkInv'
<1>1. WalkAt(q'[t], pc'[t], log', overtaken')
  BY DEF WalkAt
<1>2. QED
  BY <1>1, OneWalk

LEMMA OutsideTheWalk ==
    ASSUME QuestionInv, GroundInv, WalkInv, Onwards, NEW t \in Thread, Serve(t),
           ~ (Trim(t) \/ Validate(t) \/ ReadDisputes(t) \/ Conclude(t))
    PROVE  WalkInv'
<1> USE DEF Goto, Place
<1>1. /\ HistoryInv /\ DOMAIN q = Thread /\ DOMAIN q[t] = Known /\ DOMAIN pc = Thread
      /\ pc[t] # "trace" => q[t].verdict = "none"
  BY DEF QuestionInv, QuestionOf, IsQuestion, GroundInv, Holds
<1>2. Apart(t)
  BY OneMoves
<1>3. CASE Retrieve(t) \/ Commit(t) \/ Reconcile(t) \/ ReconcileFails(t) \/ Execute(t)
             \/ Disconnect(t) \/ Note(t) \/ Ingested(t) \/ Fetch(t) \/ Gather(t) \/ Relate(t)
             \/ FetchRelated(t) \/ CheckRelated(t) \/ Synthesise(t)
  <2>1. pc'[t] \notin {"contest", "trace"}
    BY <1>1, <1>3 DEF Retrieve, Commit, Reconcile, ReconcileFails, Execute, Disconnect, Note,
                      Ingested, Fetch, Gather, Relate, FetchRelated, CheckRelated, Synthesise
  <2>2. QED
    BY <1>1, <1>2, <2>1, NoWalk
<1>4. CASE Abstain(t)
  <2>1. pc'[t] = "trace" /\ q'[t] = Abstaining(q[t])
    BY <1>1, <1>4 DEF Abstain
  <2>2. q'[t].verdict = "insufficient"
    BY <1>1, <2>1 DEF Abstaining, Known
  <2>3. QED
    BY <1>1, <1>2, <2>1, <2>2, NoWalk
<1>5. CASE Probe(t) \/ Probed(t) \/ Raise(t) \/ Accept(t) \/ Return(t) \/ Count(t) \/ Counted(t)
             \/ ReadIdentity(t)
  <2>1. pc'[t] \notin {"contest", "trace"}
    BY <1>1, <1>5 DEF Probe, Probed, Raise, Accept, Return, Count, Counted, ReadIdentity
  <2>2. QED
    BY <1>1, <1>2, <2>1, NoWalk
<1>6. CASE Acquire(t) \/ Recheck(t) \/ Publish(t) \/ FailToBuild(t) \/ ProbeClaims(t)
             \/ ReadClaimPage(t)
  <2>1. pc'[t] \notin {"contest", "trace"}
    BY <1>1, <1>6 DEF Acquire, Recheck, Publish, FailToBuild, ProbeClaims, ReadClaimPage
  <2>2. QED
    BY <1>1, <1>2, <2>1, NoWalk
<1>7. CASE Check(t)
  <2>1. q'[t].verdict = "none" /\ pc'[t] # "contest"
    BY <1>1, <1>7 DEF Check
  <2>2. QED
    BY <1>1, <1>2, <2>1, NoWalk
<1>8. QED
  BY <1>3, <1>4, <1>5, <1>6, <1>7 DEF Serve, Answering

LEMMA TrimWalks ==
    ASSUME QuestionInv, WalkInv, Onwards, NEW t \in Thread, Trim(t)
    PROVE  WalkInv'
<1>1. /\ pc[t] = "trim" /\ pc' = [pc EXCEPT ![t] = "retrieve"]
      /\ q' = [s \in Thread |-> [q[s] EXCEPT !.cut = @ \/ q[s].doc \cap Dropped # {}]]
  BY DEF Trim, Goto
<1>2. HistoryInv /\ DOMAIN pc = Thread /\ \A s \in Thread : DOMAIN q[s] = Known
  BY DEF QuestionInv, QuestionOf, IsQuestion
<1>3. ASSUME NEW s \in Thread PROVE WalkAt(q'[s], pc'[s], log', overtaken')
  <2>1. Alike(q[s], q'[s])
    <3>1. PICK mark : q'[s] = [q[s] EXCEPT !.cut = mark]
      BY <1>1
    <3>2. QED
      BY <1>2, <3>1 DEF Alike, Known
  <2>2. CASE s = t
    <3>1. pc'[s] = "retrieve"
      BY <1>1, <1>2, <2>2
    <3>2. QED
      BY <3>1 DEF WalkAt
  <2>3. CASE s # t
    <3>1. pc'[s] = pc[s] /\ WalkAt(q[s], pc[s], log, overtaken)
      BY <1>1, <1>2, <2>3 DEF WalkInv
    <3>2. QED
      BY <1>2, <2>1, <3>1, WalkStays
  <2>4. QED
    BY <2>2, <2>3
<1>4. QED
  BY <1>3 DEF WalkInv

LEMMA WalkStep ==
    ASSUME QuestionInv, GroundInv, WalkInv, [ApiNext]_vars
    PROVE  WalkInv'
<1>0. HistoryInv /\ Onwards
  BY HistoryStep DEF QuestionInv
<1>1. CASE UNCHANGED vars \/ Outside
  <2>1. UNCHANGED <<pc, q>>
    BY <1>1 DEF vars, controller, Outside
  <2>2. \A t \in Thread : WalkAt(q[t], pc[t], log', overtaken')
    BY <1>0, SameAlike, WalkStays DEF WalkInv
  <2>3. QED
    BY <2>1, <2>2 DEF WalkInv
<1>2. ASSUME NEW t \in Thread, Serve(t) PROVE WalkInv'
  <2>1. CASE Trim(t)
    BY <1>0, <2>1, TrimWalks
  <2>2. CASE ~ Trim(t) /\ (Validate(t) \/ ReadDisputes(t) \/ Conclude(t))
    <3>1. Apart(t)
      BY <1>2, <2>2, OneMoves
    <3>2. QED
      BY <1>0, <2>2, <3>1, ValidateWalks, DisputesWalk, ConcludeWalks
  <2>3. QED
    BY <1>0, <1>2, <2>1, <2>2, OutsideTheWalk
<1>3. QED
  BY <1>1, <1>2 DEF ApiNext

(***************************************************************************)
(* A supported answer stands on no claim that an edge, in the graph since  *)
(* its ingestion ended, joins to a claim with another value: whatever      *)
(* pages its walk over the disputes was read in, whichever direction the   *)
(* edge has and whatever the other threads and processes wrote meanwhile,  *)
(* unless the trace tells of unread pages, a page did not go on where the  *)
(* last one ended, or an older bookmark overtook a newer one.              *)
(***************************************************************************)
THEOREM SupportedIsUndisputedTheorem == ApiSpec => []SupportedIsUndisputed
<1>1. QuestionInv /\ GroundInv /\ WalkInv => SupportedIsUndisputed
  <2> SUFFICES ASSUME QuestionInv, GroundInv, WalkInv, NEW t \in Thread,
                      q[t].verdict = "supported", q[t].sure, ~ q[t].truncated, ~ overtaken,
                      NEW u \in StandsOn(t), NEW b \in Claim, Object[b] # Object[u]
               PROVE  \E i \in q[t].since .. Len(log) :
                        log[i].disputes \cap {Dispute(u, b), Dispute(b, u)} = {}
    BY DEF SupportedIsUndisputed
  <2>1. pc[t] = "trace" /\ q[t].used \subseteq Claim /\ Len(log) \in Nat /\ q[t].since \in Nat
    BY DEF GroundInv, Holds, QuestionInv, QuestionOf, IsQuestion, HistoryInv
  <2> DEFINE x == <<u, b>>
  <2>2. x \in Pair /\ Stands(q[t], x) /\ x[1] = u /\ x[2] = b
    BY <2>1 DEF Pair, Stands, StandsOn
  <2>3. ~ Abides(q[t], x, log)
    BY <2>1, <2>2 DEF WalkInv, WalkAt
  <2> HIDE DEF x
  <2>4. PICK i \in 1 .. Len(log) :
          /\ i >= q[t].since
          /\ Dispute(u, b) \notin log[i].disputes /\ Dispute(b, u) \notin log[i].disputes
    BY <2>2, <2>3 DEF Abides
  <2>5. i \in q[t].since .. Len(log)
    BY <2>1, <2>4
  <2>6. QED
    BY <2>4, <2>5
<1>2. QED
  BY <1>1, GroundInitially, GroundStep, QuestionsInitially, QuestionStep, WalksInitially, WalkStep,
     PTL DEF ApiSpec
=============================================================================
