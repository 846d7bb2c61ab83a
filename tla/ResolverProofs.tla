--------------------------- MODULE ResolverProofs ---------------------------
(***************************************************************************)
(* Theorems about Resolver, for every set of addresses, names and          *)
(* organisations, every corpus and every number of failures, kills and     *)
(* rebuilds: type correctness, with vertices that hold what fits; one      *)
(* person to an address, one identity to a full name and an organisation   *)
(* after a rebuild, one organisation to a person; a merge never folds away *)
(* a person the graph holds, and decisions stand until a rebuild.          *)
(*                                                                         *)
(* Three invariants, each over the one before: Inv, that an address leads  *)
(* to somebody who holds it; HomeInv, that nobody else does, in memory and *)
(* among the vertices a restart adopts; and Orgs.                          *)
(***************************************************************************)
EXTENDS Resolver, FiniteSetTheorems, WellFoundedInduction, TLAPS

(* An address that leads to a person leads to a living one, who holds it. *)
HeldIn(p, lead) ==
    \A a \in Address :
        lead[a] # NoKey => lead[a] \in DOMAIN p /\ a \in p[lead[a]].emails

Held == HeldIn(people, byEmail)

(* The addresses of a document lead to somebody once they were observed. *)
Observed ==
    /\ pc = "observe" => \A i \in 1 .. Len(Mentions[doc]) :
                            i < at => byEmail[Mentions[doc][i].address] # NoKey
    /\ pc \in {"entities", "resolves"} => \A a \in AddressesIn(doc) : byEmail[a] # NoKey

Inv == TypeOK /\ Held /\ Observed /\ PersistedStay

(* A function from some addresses to records of people. *)
IsPeople(p) == \E keys \in SUBSET Address : p \in [keys -> Record]

Leads == [Address -> Address \cup {NoKey}]

-----------------------------------------------------------------------------
(* Merging. *)

(* A survivor survives. *)
LEMMA SurvivorsStay ==
    ASSUME NEW p, NEW g \in [DOMAIN p -> DOMAIN p], IsGrouping(p, g), NEW protected
    PROVE  LET s == Survivors(g, protected)
           IN  /\ s \in [DOMAIN p -> DOMAIN p]
               /\ \A k \in DOMAIN p : s[s[k]] = s[k]
               /\ \A k \in DOMAIN p \cap protected : s[k] = k
<1> DEFINE s == Survivors(g, protected)
           Anchors(k) == {j \in DOMAIN g : g[j] = g[k]} \cap protected
<1>1. \A k \in DOMAIN p : g[g[k]] = g[k]
  BY DEF IsGrouping
<1>2. \A k \in DOMAIN p :
        s[k] = IF Anchors(k) = {} THEN g[k]
               ELSE IF \E j \in Anchors(k) : Anchors(k) = {j} THEN CHOOSE j \in Anchors(k) : TRUE
               ELSE k
  BY DEF Survivors
<1>3. DOMAIN s = DOMAIN p /\ s = [k \in DOMAIN s |-> s[k]]
  BY DEF Survivors
<1>4. \A k \in DOMAIN p : \A j : Anchors(k) = {j} => s[k] = j
  <2>1. \A S, j : S = {j} => (CHOOSE i \in S : TRUE) = j
    OBVIOUS
  <2>2. QED
    BY <1>2, <2>1
<1>5. \A k \in DOMAIN p : s[k] \in DOMAIN p /\ s[s[k]] = s[k]
  <2> TAKE k \in DOMAIN p
  <2>1. CASE Anchors(k) = {}
    <3>1. Anchors(g[k]) = {} /\ g[k] \in DOMAIN p
      BY <1>1, <2>1
    <3>2. QED
      BY <1>1, <1>2, <2>1, <3>1
  <2>2. CASE \E j \in Anchors(k) : Anchors(k) = {j}
    <3>1. PICK j \in Anchors(k) : Anchors(k) = {j}
      BY <2>2
    <3>2. j \in DOMAIN p /\ Anchors(j) = {j}
      BY <3>1
    <3>3. QED
      BY <1>4, <3>1, <3>2
  <2>3. CASE Anchors(k) # {} /\ ~\E j \in Anchors(k) : Anchors(k) = {j}
    BY <1>2, <2>3
  <2>4. QED
    BY <2>1, <2>2, <2>3
<1>6. \A k \in DOMAIN p \cap protected : s[k] = k
  <2> TAKE k \in DOMAIN p \cap protected
  <2>1. k \in Anchors(k)
    OBVIOUS
  <2>2. CASE \E j \in Anchors(k) : Anchors(k) = {j}
    BY <1>4, <2>1, <2>2
  <2>3. CASE ~\E j \in Anchors(k) : Anchors(k) = {j}
    BY <1>2, <2>1, <2>3
  <2>4. QED
    BY <2>2, <2>3
<1>7. QED
  BY <1>3, <1>5, <1>6

(* Folding keeps records of people. *)
LEMMA FoldTyped ==
    ASSUME NEW p, IsPeople(p), NEW s \in [DOMAIN p -> DOMAIN p]
    PROVE  IsPeople(Fold(p, s))
<1>1. PICK keys \in SUBSET Address : p \in [keys -> Record]
  BY DEF IsPeople
<1>2. DEFINE live == {j \in DOMAIN p : s[j] = j}
<1>3. ASSUME NEW k \in live
      PROVE  [name   |-> p[k].name,
              emails |-> UNION {p[j].emails : j \in {i \in DOMAIN p : s[i] = k}},
              roots  |-> UNION {p[j].roots  : j \in {i \in DOMAIN p : s[i] = k}}] \in Record
  <2>1. \A j \in DOMAIN p : p[j] \in Record
    BY <1>1
  <2>2. UNION {p[j].emails : j \in {i \in DOMAIN p : s[i] = k}} \subseteq Address
    BY <2>1 DEF Record
  <2>3. UNION {p[j].roots : j \in {i \in DOMAIN p : s[i] = k}} \subseteq Root
    BY <2>1 DEF Record
  <2>4. p[k].name \in Surface
    BY <2>1 DEF Record
  <2>5. QED
    BY <2>2, <2>3, <2>4 DEF Record
<1>4. Fold(p, s) \in [live -> Record]
  BY <1>3 DEF Fold
<1>5. live \subseteq Address
  BY <1>1
<1>6. QED
  BY <1>4, <1>5 DEF IsPeople

(* A merge leaves every address it knew with somebody who holds it. *)
LEMMA MergeHolds ==
    ASSUME NEW p, IsPeople(p), NEW lead \in Leads, HeldIn(p, lead),
           NEW g \in [DOMAIN p -> DOMAIN p], IsGrouping(p, g), NEW protected
    PROVE  LET s == Survivors(g, protected)
               to == Readdressed(p, s, lead)
           IN  /\ IsPeople(Fold(p, s))
               /\ to \in Leads
               /\ HeldIn(Fold(p, s), to)
               /\ \A a \in Address : lead[a] # NoKey => to[a] # NoKey
               /\ DOMAIN p \cap protected \subseteq DOMAIN Fold(p, s)
<1> DEFINE s == Survivors(g, protected)
           to == Readdressed(p, s, lead)
           Moved(a) == {j \in DOMAIN p : s[j] # j /\ a \in p[j].emails}
<1>1. /\ s \in [DOMAIN p -> DOMAIN p]
      /\ \A k \in DOMAIN p : s[s[k]] = s[k]
      /\ \A k \in DOMAIN p \cap protected : s[k] = k
  BY SurvivorsStay
<1> HIDE DEF s
<1>2. DOMAIN Fold(p, s) = {j \in DOMAIN p : s[j] = j}
  BY DEF Fold
<1>3. \A j \in DOMAIN p : s[j] \in DOMAIN Fold(p, s) /\ p[j].emails \subseteq Fold(p, s)[s[j]].emails
  BY <1>1 DEF Fold
<1>4. DOMAIN p \subseteq Address
  BY DEF IsPeople
<1>5. ASSUME NEW a \in Address
      PROVE  /\ to[a] \in Address \cup {NoKey}
             /\ lead[a] # NoKey => to[a] # NoKey
             /\ to[a] # NoKey => to[a] \in DOMAIN Fold(p, s) /\ a \in Fold(p, s)[to[a]].emails
  <2>1. CASE Moved(a) # {}
    <3>1. PICK j \in DOMAIN p : a \in p[j].emails /\ to[a] = s[j]
      BY <2>1 DEF Readdressed
    <3>2. to[a] \in DOMAIN Fold(p, s) /\ a \in Fold(p, s)[to[a]].emails
      BY <1>3, <3>1
    <3>3. to[a] \in Address
      BY <1>1, <1>4, <3>1
    <3>4. QED
      BY <3>2, <3>3, AddressAssumption
  <2>2. CASE Moved(a) = {}
    <3>1. to[a] = lead[a]
      BY <2>2 DEF Readdressed
    <3>2. lead[a] # NoKey => s[lead[a]] = lead[a] /\ lead[a] \in DOMAIN p /\ a \in p[lead[a]].emails
      BY <2>2 DEF HeldIn
    <3>3. QED
      BY <1>3, <3>1, <3>2 DEF Leads
  <2>3. QED
    BY <2>1, <2>2
<1>6. to \in Leads
  BY <1>5 DEF Leads, Readdressed
<1>7. DOMAIN p \cap protected \subseteq DOMAIN Fold(p, s)
  BY <1>1, <1>2
<1>8. IsPeople(Fold(p, s))
  BY <1>1, FoldTyped
<1>9. HeldIn(Fold(p, s), to)
  BY <1>5 DEF HeldIn
<1>10. QED
  BY <1>5, <1>6, <1>7, <1>8, <1>9 DEF s

-----------------------------------------------------------------------------
(* Vertices. *)

(* Everything a vertex may hold. *)
Fits(rows) ==
    \A k \in DOMAIN rows : \A a \in rows[k].emails :
        Cardinality({b \in rows[k].emails : b < a}) < EmailCap

(* What is packed fits. *)
LEMMA PackedFits ==
    ASSUME NEW values \in SUBSET Address, NEW a \in Packed(values, EmailCap)
    PROVE  Cardinality({b \in Packed(values, EmailCap) : b < a}) < EmailCap
<1> DEFINE all == {w \in values : w < a}
           kept == {b \in Packed(values, EmailCap) : b < a}
<1>1. kept \subseteq all /\ all \subseteq Address /\ IsFiniteSet(Address)
  BY AddressAssumption DEF Packed
<1>2. IsFiniteSet(all)
  BY <1>1, FS_Subset
<1>3. IsFiniteSet(kept) /\ Cardinality(kept) <= Cardinality(all)
  BY <1>1, <1>2, FS_Subset
<1>4. Cardinality(all) < EmailCap
  BY DEF Packed
<1>5. Cardinality(all) \in Nat /\ Cardinality(kept) \in Nat /\ EmailCap \in Nat
  BY <1>2, <1>3, FS_CardinalityType, AddressAssumption
<1>6. QED
  BY <1>3, <1>4, <1>5

(* The row of a person is a person's record, and fits. *)
LEMMA RowTyped ==
    ASSUME NEW person \in Record
    PROVE  /\ Row(person) \in Record
           /\ \A a \in Row(person).emails :
                Cardinality({b \in Row(person).emails : b < a}) < EmailCap
<1>1. Row(person) \in Record
  BY DEF Row, Record, Packed
<1>2. Row(person).emails = Packed(person.emails, EmailCap) /\ person.emails \in SUBSET Address
  BY DEF Row, Record
<1>3. QED
  BY <1>1, <1>2, PackedFits

(* Writing over the vertices of living people keeps the vertices typed. *)
LEMMA WithRowsTyped ==
    ASSUME IsPeople(entity), Fits(entity), IsPeople(people), NEW keys \in SUBSET DOMAIN people
    PROVE  IsPeople(WithRows(keys)) /\ Fits(WithRows(keys))
<1>1. \A k \in keys : people[k] \in Record /\ k \in Address
  BY DEF IsPeople
<1>2. \A k \in DOMAIN entity : entity[k] \in Record /\ k \in Address
  BY DEF IsPeople
<1>3. \A k \in DOMAIN entity \cup keys :
        /\ WithRows(keys)[k] \in Record
        /\ \A a \in WithRows(keys)[k].emails :
             Cardinality({b \in WithRows(keys)[k].emails : b < a}) < EmailCap
  <2> TAKE k \in DOMAIN entity \cup keys
  <2>1. CASE k \in keys
    <3>1. WithRows(keys)[k] = Row(people[k])
      BY <2>1 DEF WithRows
    <3>2. QED
      BY <1>1, <2>1, <3>1, RowTyped
  <2>2. CASE k \notin keys
    <3>1. WithRows(keys)[k] = entity[k] /\ k \in DOMAIN entity
      BY <2>2 DEF WithRows
    <3>2. QED
      BY <1>2, <3>1 DEF Fits
  <2>3. QED
    BY <2>1, <2>2
<1>4. WithRows(keys) \in [DOMAIN entity \cup keys -> Record]
  BY <1>3 DEF WithRows
<1>5. DOMAIN entity \cup keys \in SUBSET Address
  BY <1>1, <1>2
<1>6. QED
  BY <1>3, <1>4, <1>5 DEF IsPeople, Fits, WithRows

-----------------------------------------------------------------------------
(* The invariant. *)

LEMMA MentionsTyped ==
    ASSUME NEW d \in Doc
    PROVE  /\ Len(Mentions[d]) \in Nat
           /\ \A i \in 1 .. Len(Mentions[d]) :
                /\ Mentions[d][i].address \in Address
                /\ Mentions[d][i].surface \in Surface
           /\ AddressesIn(d) \in SUBSET Address
<1>1. Mentions[d] \in Seq([address : Address, surface : Name \cup {Bare}])
  BY AddressAssumption
<1>2. Len(Mentions[d]) \in Nat
  BY <1>1
<1>3. ASSUME NEW i \in 1 .. Len(Mentions[d])
      PROVE  Mentions[d][i].address \in Address /\ Mentions[d][i].surface \in Surface
  <2> DEFINE Item == [address : Address, surface : Name \cup {Bare}]
  <2>1. Mentions[d][i] \in Item
    <3> HIDE DEF Item
    <3>1. Mentions[d] \in Seq(Item)
      BY <1>1 DEF Item
    <3>2. QED
      BY <3>1
  <2>2. QED
    BY <2>1 DEF Surface
<1>4. QED
  BY <1>2, <1>3 DEF AddressesIn

LEMMA RootsTyped ==
    ASSUME NEW a \in Address PROVE RootsOf(a) \in SUBSET Root
BY AddressAssumption DEF RootsOf

(* TypeOK's parts that speak of functions, by their names here. *)
LEMMA TypesNamed ==
    TypeOK <=>
        /\ proc \in {"none", "api", "script"}
        /\ IsPeople(people) /\ byEmail \in Leads
        /\ adopted \subseteq Address /\ (adopted # {} => proc = "api")
        /\ pc \in {"idle", "observe", "entities", "resolves", "rewrite", "decide", "record"}
        /\ doc \in Doc \cup {NoDoc} /\ at \in Nat \ {0}
        /\ doc # NoDoc <=> pc \in {"observe", "entities", "resolves"}
        /\ doc # NoDoc => proc = "api"
        /\ pc \in {"rewrite", "decide", "record"} => proc = "script"
        /\ IsPeople(entity) /\ Fits(entity)
        /\ merged \subseteq Address \X Address
        /\ target \in Leads
        /\ stored \subseteq Doc /\ canonical \in BOOLEAN /\ intact \in BOOLEAN
BY DEF TypeOK, IsPeople, Leads, Fits

(* While the API writes, the addresses of its document lead to living people. *)
LEMMA TouchedLive ==
    ASSUME Inv, pc \in {"entities", "resolves"}
    PROVE  \A touched \in Touched : touched \subseteq DOMAIN people
<1>1. doc \in Doc
  BY DEF Inv, TypeOK
<1>2. \A a \in AddressesIn(doc) : a \in Address /\ byEmail[a] # NoKey
  BY <1>1, MentionsTyped DEF Inv, Observed
<1>3. QED
  BY <1>2 DEF Inv, Held, HeldIn, Touched

LEMMA DecidedTyped ==
    ASSUME target \in Leads, byEmail \in Leads, NEW addresses
    PROVE  Decided(addresses) \in Leads
BY DEF Decided, Leads

LEMMA Initial == Init => Inv
<1> SUFFICES ASSUME Init PROVE Inv
  OBVIOUS
<1> USE DEF Init
<1>1. IsPeople(NoPeople) /\ Fits(NoPeople) /\ DOMAIN NoPeople = {}
  <2>1. NoPeople \in [{} -> Record]
    BY DEF NoPeople
  <2>2. QED
    BY <2>1 DEF IsPeople, Fits
<1>2. Nobody \in Leads /\ HeldIn(people, Nobody)
  BY DEF Nobody, Leads, HeldIn
<1>3. TypeOK
  <2>1. IsPeople(people) /\ IsPeople(entity) /\ Fits(entity) /\ byEmail \in Leads /\ target \in Leads
    BY <1>1, <1>2
  <2>2. merged \subseteq Address \X Address /\ stored \subseteq Doc /\ at \in Nat \ {0}
    OBVIOUS
  <2>3. doc \in Doc \cup {NoDoc} /\ adopted \subseteq Address /\ canonical \in BOOLEAN /\ intact \in BOOLEAN
    OBVIOUS
  <2>4. /\ doc # NoDoc <=> pc \in {"observe", "entities", "resolves"}
        /\ doc # NoDoc => proc = "api"
        /\ adopted # {} => proc = "api"
        /\ pc \in {"rewrite", "decide", "record"} => proc = "script"
        /\ proc = "none" /\ pc = "idle"
    OBVIOUS
  <2> HIDE DEF Init
  <2>5. QED
    BY <2>1, <2>2, <2>3, <2>4, TypesNamed
<1>4. Held /\ Observed /\ PersistedStay
  BY <1>2 DEF Held, Observed, PersistedStay
<1>5. QED
  BY <1>3, <1>4 DEF Inv

(* Adoption: who lists an address holds it. *)
LEMMA StartApiKeeps ==
    ASSUME Inv, StartApi PROVE Inv'
<1> USE DEF StartApi, graph, noted, count
<1>1. PICK keys \in SUBSET Address : entity \in [keys -> Record]
  BY DEF Inv, TypeOK
<1>2. adopted' \subseteq keys /\ people' \in [adopted' -> Record]
      /\ \A k \in adopted' : people'[k] = entity[k]
  BY <1>1 DEF Adoptable
<1>3. IsPeople(people)'
  BY <1>2 DEF IsPeople
<1>4. byEmail' \in Leads
  BY DEF Leads
<1>5. Held'
  <2> SUFFICES ASSUME NEW a \in Address, byEmail'[a] # NoKey
               PROVE  byEmail'[a] \in DOMAIN people' /\ a \in people'[byEmail'[a]].emails
    BY DEF Held, HeldIn
  <2>1. byEmail'[a] \in {k \in Adoptable : a \in entity[k].emails}
    BY DEF IsLead
  <2>2. QED
    BY <1>2, <2>1
<1>6. TypeOK'
  BY <1>3, <1>4 DEF Inv, TypeOK, IsPeople, Fits, Leads
<1>7. Observed' /\ PersistedStay'
  BY <1>2 DEF Inv, TypeOK, Observed, PersistedStay
<1>8. QED
  BY <1>5, <1>6, <1>7 DEF Inv

LEMMA StartCommitKeeps ==
    ASSUME Inv, NEW d \in Doc, StartCommit(d) PROVE Inv'
<1> USE DEF StartCommit, memory, noted, Inv
<1>1. TypeOK'
  BY AddressAssumption DEF TypeOK
<1>2. Held' /\ PersistedStay'
  BY DEF Held, HeldIn, PersistedStay
<1>3. Observed'
  BY DEF Observed
<1>4. QED
  BY <1>1, <1>2, <1>3

LEMMA ObserveKeeps ==
    ASSUME Inv, Observe PROVE Inv'
<1> USE DEF Observe, graph, noted, count
<1> DEFINE a == Mentions[doc][at].address
           surface == Mentions[doc][at].surface
           k == KeyFor(a)
           old == IF k \in DOMAIN people THEN people[k]
                  ELSE [name |-> surface, emails |-> {}, roots |-> {}]
           new == [name   |-> Labelled(old.name, surface),
                   emails |-> old.emails \cup {a},
                   roots  |-> old.roots \cup RootsOf(a)]
<1>1. doc \in Doc /\ at \in 1 .. Len(Mentions[doc])
  BY MentionsTyped DEF Inv, TypeOK
<1>2. a \in Address /\ surface \in Surface
  BY <1>1, MentionsTyped
<1>3. PICK keys \in SUBSET Address : people \in [keys -> Record]
  BY DEF Inv, TypeOK
<1>4. byEmail \in Leads /\ k \in Address
  BY <1>2, TypesNamed DEF Inv, KeyFor, Leads
<1>5. old \in Record
  BY <1>2, <1>3 DEF Record
<1>6. new \in Record
  BY <1>2, <1>5, RootsTyped DEF Record, Labelled
<1>7. people' = [j \in DOMAIN people \cup {k} |-> IF j = k THEN new ELSE people[j]]
      /\ byEmail' = [byEmail EXCEPT ![a] = k]
  OBVIOUS
<1> HIDE DEF new
<1>8. people' \in [keys \cup {k} -> Record]
  BY <1>3, <1>6, <1>7
<1>9. IsPeople(people)' /\ byEmail' \in Leads
  BY <1>4, <1>7, <1>8 DEF IsPeople, Leads
<1>10. Held'
  <2> SUFFICES ASSUME NEW b \in Address, byEmail'[b] # NoKey
               PROVE  byEmail'[b] \in DOMAIN people' /\ b \in people'[byEmail'[b]].emails
    BY DEF Held, HeldIn
  <2>1. a \in new.emails /\ (k \in DOMAIN people => people[k].emails \subseteq new.emails)
    BY DEF new
  <2>2. CASE b = a
    BY <1>2, <1>4, <1>7, <2>1, <2>2 DEF Leads
  <2>3. CASE b # a
    <3>1. byEmail'[b] = byEmail[b]
      BY <1>4, <1>7, <2>3 DEF Leads
    <3>2. byEmail[b] \in DOMAIN people /\ b \in people[byEmail[b]].emails
      BY <3>1 DEF Inv, Held, HeldIn
    <3>3. QED
      BY <1>7, <2>1, <3>1, <3>2
  <2>4. QED
    BY <2>2, <2>3
<1>11. TypeOK'
  <2>1. at' \in Nat \ {0}
    BY DEF Inv, TypeOK
  <2>2. UNCHANGED <<proc, adopted, pc, doc, entity, merged, target, stored, canonical, intact>>
    OBVIOUS
  <2> HIDE DEF Observe
  <2>3. QED
    BY <1>9, <2>1, <2>2 DEF Inv, TypeOK, IsPeople, Fits, Leads
<1>12. Observed'
  <2>1. pc' = "observe" /\ doc' = doc /\ at' = at + 1
    OBVIOUS
  <2>2. k # NoKey
    BY <1>4, AddressAssumption
  <2>3. ASSUME NEW i \in 1 .. Len(Mentions[doc]), i < at + 1
        PROVE  byEmail'[Mentions[doc][i].address] # NoKey
    <3>1. Mentions[doc][i].address \in Address
      BY <1>1, MentionsTyped
    <3>2. CASE i = at
      BY <1>2, <1>4, <1>7, <2>2, <3>2 DEF Leads
    <3>3. CASE i # at
      <4>1. i < at
        BY <1>1, <2>3, <3>3, MentionsTyped
      <4>2. byEmail[Mentions[doc][i].address] # NoKey
        BY <4>1 DEF Inv, Observed
      <4>3. QED
        BY <1>4, <1>7, <2>2, <3>1, <4>2 DEF Leads
    <3>4. QED
      BY <3>2, <3>3
  <2>4. QED
    BY <2>1, <2>3 DEF Observed
<1>13. PersistedStay'
  BY <1>7 DEF Inv, PersistedStay
<1>14. QED
  BY <1>10, <1>11, <1>12, <1>13 DEF Inv

LEMMA MergeKeeps ==
    ASSUME Inv, Merge PROVE Inv'
<1> USE DEF Merge, graph, noted, count
<1>1. PICK g \in [DOMAIN people -> DOMAIN people] :
        /\ IsGrouping(people, g)
        /\ people' = Fold(people, Survivors(g, adopted))
        /\ byEmail' = Readdressed(people, Survivors(g, adopted), byEmail)
  OBVIOUS
<1>2. IsPeople(people) /\ byEmail \in Leads /\ HeldIn(people, byEmail)
  BY TypesNamed DEF Inv, Held
<1>3. /\ IsPeople(people') /\ byEmail' \in Leads /\ HeldIn(people', byEmail')
      /\ \A a \in Address : byEmail[a] # NoKey => byEmail'[a] # NoKey
      /\ DOMAIN people \cap adopted \subseteq DOMAIN people'
  BY <1>1, <1>2, MergeHolds
<1>4. TypeOK'
  BY <1>3 DEF Inv, TypeOK, IsPeople, Fits, Leads
<1>5. Observed'
  <2>1. doc \in Doc /\ at \in Nat
    BY DEF Inv, TypeOK
  <2>2. \A i \in 1 .. Len(Mentions[doc]) :
            Mentions[doc][i].address \in Address /\ byEmail[Mentions[doc][i].address] # NoKey
    BY <2>1, MentionsTyped DEF Inv, Observed
  <2>3. \A a \in AddressesIn(doc) : byEmail'[a] # NoKey
    BY <1>3, <2>2 DEF AddressesIn
  <2>4. QED
    BY <2>3 DEF Observed, AddressesIn
<1>6. Held' /\ PersistedStay'
  BY <1>3 DEF Inv, Held, HeldIn, PersistedStay
<1>7. QED
  BY <1>4, <1>5, <1>6 DEF Inv

LEMMA WriteEntitiesKeeps ==
    ASSUME Inv, WriteEntities PROVE Inv'
<1> USE DEF WriteEntities, count
<1>1. PICK touched \in Touched : entity' = WithRows(touched) /\ adopted' = adopted \cup touched
  OBVIOUS
<1>2. touched \in SUBSET DOMAIN people
  BY TouchedLive
<1>3. IsPeople(entity) /\ Fits(entity) /\ IsPeople(people)
  BY TypesNamed DEF Inv
<1>4. IsPeople(entity') /\ Fits(entity')
  BY <1>1, <1>2, <1>3, WithRowsTyped
<1>5. TypeOK'
  <2>1. DOMAIN people \subseteq Address /\ adopted' \subseteq Address /\ proc' = "api"
    BY <1>1, <1>2, <1>3 DEF IsPeople, Inv, TypeOK
  <2>2. QED
    BY <1>4, <2>1 DEF Inv, TypeOK, IsPeople, Fits, Leads
<1>6. PersistedStay'
  BY <1>1, <1>2 DEF Inv, PersistedStay
<1>7. Held' /\ Observed'
  BY DEF Inv, Held, HeldIn, Observed, AddressesIn
<1>8. QED
  BY <1>5, <1>6, <1>7 DEF Inv

LEMMA WriteResolutionsKeeps ==
    ASSUME Inv, WriteResolutions PROVE Inv'
<1> USE DEF WriteResolutions, memory, count, Inv
<1>1. target' \in Leads
  BY DecidedTyped, TypesNamed
<1>2. TypeOK'
  <2>1. UNCHANGED <<proc, people, byEmail, adopted, entity, merged, stored, intact>>
    OBVIOUS
  <2>2. canonical' \in BOOLEAN /\ TypeOK
    OBVIOUS
  <2>3. pc' = "idle" /\ doc' = NoDoc /\ at' = 1
    OBVIOUS
  <2> HIDE DEF WriteResolutions, Inv
  <2>4. QED
    BY <1>1, <2>1, <2>2, <2>3 DEF TypeOK, Leads
<1>3. Held' /\ Observed' /\ PersistedStay'
  BY DEF Held, HeldIn, Observed, PersistedStay
<1>4. QED
  BY <1>2, <1>3

LEMMA FailKeeps ==
    ASSUME Inv, Fail PROVE Inv'
<1> USE DEF Fail, memory, noted
<1>1. IsPeople(entity) /\ Fits(entity) /\ IsPeople(people) /\ byEmail \in Leads /\ target \in Leads
  BY TypesNamed DEF Inv
<1>2. IsPeople(entity') /\ Fits(entity') /\ target' \in Leads
  <2>1. CASE UNCHANGED <<entity, target>>
    BY <1>1, <2>1
  <2>2. CASE (\E touched \in Touched : entity' = WithRows(touched)) /\ UNCHANGED target
    BY <1>1, <2>2, TouchedLive, WithRowsTyped
  <2>3. CASE target' = Decided(AddressesIn(doc)) /\ UNCHANGED entity
    BY <1>1, <2>3, DecidedTyped
  <2>4. QED
    BY <2>1, <2>2, <2>3
<1>3. canonical' \in BOOLEAN /\ intact' \in BOOLEAN
  BY DEF Inv, TypeOK
<1>4. TypeOK'
  BY <1>2, <1>3 DEF Inv, TypeOK, IsPeople, Fits, Leads
<1>5. Held' /\ Observed' /\ PersistedStay'
  BY DEF Inv, Held, HeldIn, Observed, PersistedStay
<1>6. QED
  BY <1>4, <1>5 DEF Inv

LEMMA StopKeeps ==
    ASSUME Inv, Stop PROVE Inv'
<1> USE DEF Stop, graph
<1>1. IsPeople(people)' /\ byEmail' \in Leads /\ HeldIn(people, byEmail)'
  <2>1. people' \in [{} -> Record]
    BY DEF NoPeople
  <2>2. QED
    BY <2>1 DEF IsPeople, Nobody, Leads, HeldIn
<1>2. TypeOK'
  BY <1>1 DEF Inv, TypeOK, IsPeople, Fits, Leads
<1>3. Held' /\ Observed' /\ PersistedStay'
  BY <1>1 DEF Held, Observed, PersistedStay
<1>4. QED
  BY <1>2, <1>3 DEF Inv

(* The rebuild starts from everybody apart, each address with its own person. *)
LEMMA StartRebuildKeeps ==
    ASSUME Inv, StartRebuild PROVE Inv'
<1> USE DEF StartRebuild, graph, noted
<1>1. PICK label \in [Named -> Surface] :
        LET seen == [a \in Named |-> [name |-> label[a], emails |-> {a}, roots |-> RootsOf(a)]]
            own  == [a \in Address |-> IF a \in Named THEN a ELSE NoKey]
        IN  \E g \in [Named -> Named] :
                /\ IsGrouping(seen, g)
                /\ people' = Fold(seen, Survivors(g, {}))
                /\ byEmail' = Readdressed(seen, Survivors(g, {}), own)
  OBVIOUS
<1> DEFINE seen == [a \in Named |-> [name |-> label[a], emails |-> {a}, roots |-> RootsOf(a)]]
           own  == [a \in Address |-> IF a \in Named THEN a ELSE NoKey]
<1>2. Named \in SUBSET Address
  BY MentionsTyped DEF Inv, TypeOK, Named
<1>3. seen \in [Named -> Record]
  BY <1>2, RootsTyped DEF Record
<1>4. IsPeople(seen) /\ DOMAIN seen = Named
  BY <1>2, <1>3 DEF IsPeople
<1>5. own \in Leads /\ HeldIn(seen, own)
  BY <1>2 DEF Leads, HeldIn
<1> HIDE DEF seen, own
<1>6. PICK g \in [DOMAIN seen -> DOMAIN seen] :
        /\ IsGrouping(seen, g)
        /\ people' = Fold(seen, Survivors(g, {}))
        /\ byEmail' = Readdressed(seen, Survivors(g, {}), own)
  BY <1>1, <1>4 DEF seen, own
<1>7. IsPeople(people') /\ byEmail' \in Leads /\ HeldIn(people', byEmail')
  BY <1>4, <1>5, <1>6, MergeHolds
<1>8. TypeOK'
  BY <1>7 DEF Inv, TypeOK, IsPeople, Fits, Leads
<1>9. Held' /\ Observed'
  BY <1>7 DEF Held, HeldIn, Observed
<1>10. PersistedStay'
  BY DEF Inv, TypeOK, PersistedStay
<1>11. QED
  BY <1>8, <1>9, <1>10 DEF Inv

LEMMA RebuildEntitiesKeeps ==
    ASSUME Inv, RebuildEntities PROVE Inv'
<1> USE DEF RebuildEntities, memory, count
<1>1. IsPeople(entity) /\ Fits(entity) /\ IsPeople(people)
  BY TypesNamed DEF Inv
<1>2. IsPeople(entity') /\ Fits(entity')
  BY <1>1, WithRowsTyped
<1>3. TypeOK'
  BY <1>2 DEF Inv, TypeOK, IsPeople, Fits, Leads
<1>4. Held' /\ Observed' /\ PersistedStay'
  BY DEF Inv, Held, HeldIn, Observed, PersistedStay
<1>5. QED
  BY <1>3, <1>4 DEF Inv

LEMMA RebuildDecisionsKeeps ==
    ASSUME Inv, RebuildDecisions PROVE Inv'
<1> USE DEF RebuildDecisions, memory, count, Inv
<1>1. target' \in Leads
  BY DecidedTyped, TypesNamed
<1>2. TypeOK'
  BY <1>1 DEF TypeOK, Leads
<1>3. Held' /\ Observed' /\ PersistedStay'
  BY DEF Held, HeldIn, Observed, PersistedStay
<1>4. QED
  BY <1>2, <1>3

LEMMA RecordCanonicalKeeps ==
    ASSUME Inv, RecordCanonical PROVE Inv'
<1> USE DEF RecordCanonical, memory, count, Inv
<1>1. byEmail \in Leads /\ DOMAIN entity \subseteq Address
  BY TypesNamed DEF IsPeople
<1>2. Folded \subseteq Address \X Address
  BY <1>1 DEF Folded, Leads
<1>3. TypeOK'
  BY <1>2 DEF TypeOK
<1>4. Held' /\ Observed' /\ PersistedStay'
  BY DEF Held, HeldIn, Observed, PersistedStay
<1>5. QED
  BY <1>3, <1>4

LEMMA Inductive == Inv /\ [Next]_vars => Inv'
<1> SUFFICES ASSUME Inv, [Next]_vars PROVE Inv'
  OBVIOUS
<1>1. CASE StartApi
  BY <1>1, StartApiKeeps
<1>2. ASSUME NEW d \in Doc, StartCommit(d) PROVE Inv'
  BY <1>2, StartCommitKeeps
<1>3. CASE Observe
  BY <1>3, ObserveKeeps
<1>4. CASE Merge
  BY <1>4, MergeKeeps
<1>5. CASE WriteEntities
  BY <1>5, WriteEntitiesKeeps
<1>6. CASE WriteResolutions
  BY <1>6, WriteResolutionsKeeps
<1>7. CASE Fail
  BY <1>7, FailKeeps
<1>8. CASE Stop
  BY <1>8, StopKeeps
<1>9. CASE StartRebuild
  BY <1>9, StartRebuildKeeps
<1>10. CASE RebuildEntities
  BY <1>10, RebuildEntitiesKeeps
<1>11. CASE RebuildDecisions
  BY <1>11, RebuildDecisionsKeeps
<1>12. CASE RecordCanonical
  BY <1>12, RecordCanonicalKeeps
<1>13. CASE UNCHANGED vars
  BY <1>13 DEF Inv, TypeOK, Held, HeldIn, Observed, PersistedStay, AddressesIn,
               vars, memory, graph, noted, count
<1>14. QED
  BY <1>1, <1>2, <1>3, <1>4, <1>5, <1>6, <1>7, <1>8, <1>9, <1>10, <1>11, <1>12, <1>13 DEF Next

-----------------------------------------------------------------------------
(***************************************************************************)
(* Type correctness: among it that a vertex never holds more addresses     *)
(* than fit.                                                               *)
(***************************************************************************)
THEOREM TypeCorrect == Spec => []TypeOK
<1>1. Inv => TypeOK
  BY DEF Inv
<1>2. QED
  BY <1>1, Initial, Inductive, PTL DEF Spec

(***************************************************************************)
(* No merge of the API folds a person whose vertex it adopted or wrote,    *)
(* whatever else shares the name and the organisation.                     *)
(***************************************************************************)
THEOREM PersistedNeverFolded == Spec => []PersistedStay
<1>1. Inv => PersistedStay
  BY DEF Inv
<1>2. QED
  BY <1>1, Initial, Inductive, PTL DEF Spec

-----------------------------------------------------------------------------
(* One person to an address. *)

(* An address leads to whoever holds it, and nobody else does. *)
HomesIn(p, lead) == \A a \in Address, k \in DOMAIN p : a \in p[k].emails <=> lead[a] = k

(* A merge keeps every address with one person; who was protected lost none. *)
LEMMA MergeHomes ==
    ASSUME NEW p, IsPeople(p), NEW lead \in Leads, HeldIn(p, lead), HomesIn(p, lead),
           NEW g \in [DOMAIN p -> DOMAIN p], IsGrouping(p, g), NEW protected
    PROVE  LET s == Survivors(g, protected)
           IN  /\ HomesIn(Fold(p, s), Readdressed(p, s, lead))
               /\ \A k \in DOMAIN p \cap protected : p[k].emails \subseteq Fold(p, s)[k].emails
<1> DEFINE s == Survivors(g, protected)
           to == Readdressed(p, s, lead)
           Moved(a) == {j \in DOMAIN p : s[j] # j /\ a \in p[j].emails}
<1>1. /\ s \in [DOMAIN p -> DOMAIN p]
      /\ \A k \in DOMAIN p : s[s[k]] = s[k]
      /\ \A k \in DOMAIN p \cap protected : s[k] = k
  BY SurvivorsStay
<1> HIDE DEF s
<1>2. DOMAIN Fold(p, s) = {j \in DOMAIN p : s[j] = j} /\ DOMAIN p \subseteq Address
  BY DEF Fold, IsPeople
<1>3. \A k \in DOMAIN Fold(p, s) : Fold(p, s)[k].emails = UNION {p[j].emails : j \in {i \in DOMAIN p : s[i] = k}}
  BY DEF Fold
<1>4. ASSUME NEW a \in Address
      PROVE  to[a] = IF lead[a] \in DOMAIN p THEN s[lead[a]] ELSE lead[a]
  <2>1. \A j \in DOMAIN p : a \in p[j].emails <=> lead[a] = j
    BY DEF HomesIn
  <2>2. CASE \E j \in DOMAIN p : s[j] # j /\ a \in p[j].emails
    <3>1. PICK j \in DOMAIN p : to[a] = s[j] /\ a \in p[j].emails
      BY <2>2 DEF Readdressed
    <3>2. QED
      BY <2>1, <3>1
  <2>3. CASE ~\E j \in DOMAIN p : s[j] # j /\ a \in p[j].emails
    <3>1. to[a] = lead[a]
      BY <2>3 DEF Readdressed
    <3>2. QED
      BY <2>1, <2>3, <3>1
  <2>4. QED
    BY <2>2, <2>3
<1>5. HomesIn(Fold(p, s), to)
  <2> SUFFICES ASSUME NEW a \in Address, NEW k \in DOMAIN Fold(p, s)
               PROVE  a \in Fold(p, s)[k].emails <=> to[a] = k
    BY DEF HomesIn
  <2>1. a \in Fold(p, s)[k].emails <=> \E j \in DOMAIN p : s[j] = k /\ a \in p[j].emails
    BY <1>3
  <2>2. a \in Fold(p, s)[k].emails <=> lead[a] \in DOMAIN p /\ s[lead[a]] = k
    BY <2>1 DEF HomesIn
  <2>3. QED
    BY <1>2, <1>4, <2>2
<1>6. ASSUME NEW k \in DOMAIN p \cap protected
      PROVE  p[k].emails \subseteq Fold(p, s)[k].emails
  BY <1>1, <1>2, <1>3
<1>7. QED
  BY <1>5, <1>6 DEF s

(* With nobody protected the firsts of the groups survive. *)
LEMMA FirstsSurvive ==
    ASSUME NEW p, NEW g \in [DOMAIN p -> DOMAIN p]
    PROVE  Survivors(g, {}) = g
<1>1. \A k \in DOMAIN g : Survivors(g, {})[k] = g[k]
  BY DEF Survivors
<1>2. QED
  BY <1>1 DEF Survivors

LEMMA AlikeSymmetric ==
    ASSUME NEW p, IsPeople(p), NEW j \in DOMAIN p, NEW k \in DOMAIN p, Alike(p, j, k)
    PROVE  Alike(p, k, j)
<1>1. PICK r \in p[j].roots, s \in p[k].roots : <<r, s>> \in SameOrg
  BY DEF Alike
<1>2. r \in Root /\ s \in Root
  BY <1>1, AddressAssumption
<1>3. <<s, r>> \in SameOrg
  BY <1>1, <1>2, AddressAssumption
<1>4. QED
  BY <1>1, <1>3 DEF Alike

(* The firsts of two groups are not alike. *)
LEMMA FirstsUnlike ==
    ASSUME NEW p, IsPeople(p), NEW g \in [DOMAIN p -> DOMAIN p], IsGrouping(p, g),
           NEW j \in DOMAIN p, NEW k \in DOMAIN p, g[j] = j, g[k] = k, Alike(p, j, k)
    PROVE  j = k
<1>1. DOMAIN p \subseteq Nat
  BY AddressAssumption DEF IsPeople
<1>2. ASSUME NEW l \in DOMAIN p, NEW m \in DOMAIN p, g[l] = l, g[m] = m, l < m, Alike(p, l, m)
      PROVE  FALSE
  <2> DEFINE joinable == {i \in DOMAIN p : i < m /\ g[i] = i
                            /\ \E n \in DOMAIN p : n < m /\ g[n] = i /\ Alike(p, n, m)}
  <2>1. l \in joinable
    BY <1>2
  <2>2. g[m] \in joinable
    BY <2>1 DEF IsGrouping
  <2>3. m < m
    BY <1>2, <2>2
  <2>4. QED
    BY <1>1, <2>3
<1>3. Alike(p, k, j)
  BY AlikeSymmetric
<1>4. j < k \/ k < j \/ j = k
  BY <1>1
<1>5. QED
  BY <1>2, <1>3, <1>4

-----------------------------------------------------------------------------
(***************************************************************************)
(* The invariant behind AddressLeadsHome.  The script and the API do not   *)
(* run together, but each leaves the graph to the other, so its parts say  *)
(* what each leaves and what each starts from.                             *)
(***************************************************************************)

(* Every key is an address that a stored document names. *)
Roster ==
    /\ DOMAIN people \subseteq Named /\ DOMAIN entity \subseteq Named
    /\ pc \in {"observe", "entities", "resolves"} => doc \in stored

(* No two vertices a restart would adopt list one address. *)
Apart == \A j, k \in Adoptable : \A a \in entity[j].emails \cap entity[k].emails : j = k

Tidy == intact /\ (proc = "script" => pc = "idle") => Apart

(* The API knows every such vertex, and every address it lists. *)
Listed ==
    intact /\ proc = "api" =>
        \A k \in Adoptable : k \in adopted /\ entity[k].emails \subseteq people[k].emails

(* People of one full name and one organisation are one. *)
DistinctIn(p) ==
    \A j, k \in DOMAIN p :
        /\ p[j].name = p[k].name /\ p[j].name \in Full
        /\ <<RootOf[j], RootOf[k]>> \in SameOrg
        => j = k

(* The rebuild's people: everybody, apart, and written before anything else is. *)
Rebuilt ==
    proc = "script" =>
        /\ HomesIn(people, byEmail) /\ DistinctIn(people)
        /\ \A a \in Named : byEmail[a] # NoKey
        /\ pc # "rewrite" => \A k \in DOMAIN people : k \in DOMAIN entity /\ entity[k] = Row(people[k])

HomeInv == Roster /\ Tidy /\ Listed /\ Rebuilt /\ AddressLeadsHome /\ OneIdentityPerOrganisation

(* The graph's part of the invariant, where nothing it speaks of changed. *)
LEMMA GraphUntouched ==
    ASSUME UNCHANGED <<entity, merged, canonical>>, OneIdentityPerOrganisation
    PROVE  OneIdentityPerOrganisation' /\ (Apart => Apart') /\ Adoptable' = Adoptable
<1>1. Adoptable' = Adoptable
  BY DEF Adoptable, Superseded
<1>2. QED
  BY <1>1 DEF OneIdentityPerOrganisation, Apart

LEMMA NamedGrows ==
    ASSUME stored \subseteq stored' PROVE Named \subseteq Named'
BY DEF Named, AddressesIn

(* A row holds the name, and some of the addresses. *)
LEMMA RowOf ==
    ASSUME NEW person PROVE Row(person).name = person.name /\ Row(person).emails \subseteq person.emails
BY DEF Row, Packed

LEMMA InitialHome == Init => HomeInv
BY DEF Init, NoPeople, HomeInv, Roster, Tidy, Apart, Listed, Rebuilt, AddressLeadsHome,
       OneIdentityPerOrganisation, Adoptable

(* The vertices list an address once, so it leads to the one that lists it. *)
LEMMA StartApiHome ==
    ASSUME Inv, HomeInv, StartApi PROVE HomeInv'
<1> USE DEF StartApi, graph, noted, count
<1>1. adopted' = Adoptable /\ DOMAIN people' = Adoptable /\ \A k \in Adoptable : people'[k] = entity[k]
  OBVIOUS
<1>2. OneIdentityPerOrganisation' /\ (Apart => Apart') /\ Adoptable' = Adoptable
  BY GraphUntouched DEF HomeInv
<1>3. intact => Apart
  BY DEF HomeInv, Tidy
<1>4. Adoptable \subseteq Address /\ NoKey \notin Adoptable
  BY TypesNamed, AddressAssumption DEF Inv, IsPeople, Adoptable
<1>5. AddressLeadsHome'
  <2> SUFFICES ASSUME intact, NEW a \in Address, NEW k \in Adoptable
               PROVE  a \in entity[k].emails <=> byEmail'[a] = k
    BY <1>1 DEF AddressLeadsHome
  <2> DEFINE holders == {j \in Adoptable : a \in entity[j].emails}
  <2>1. IF holders = {} THEN byEmail'[a] = NoKey ELSE byEmail'[a] \in holders
    BY DEF IsLead
  <2>2. \A i, j \in holders : i = j
    BY <1>3 DEF Apart
  <2>3. CASE a \in entity[k].emails
    BY <2>1, <2>2, <2>3
  <2>4. CASE byEmail'[a] = k
    BY <1>4, <2>1, <2>4
  <2>5. QED
    BY <2>3, <2>4
<1>6. Roster'
  <2>1. Named' = Named
    BY DEF Named, AddressesIn
  <2>2. DOMAIN people' \subseteq DOMAIN entity
    BY <1>1 DEF Adoptable
  <2>3. QED
    BY <2>1, <2>2 DEF HomeInv, Roster
<1>7. Tidy' /\ Listed' /\ Rebuilt'
  BY <1>1, <1>2, <1>3 DEF Tidy, Listed, Rebuilt
<1>8. QED
  BY <1>2, <1>5, <1>6, <1>7 DEF HomeInv

LEMMA StartCommitHome ==
    ASSUME Inv, HomeInv, NEW d \in Doc, StartCommit(d) PROVE HomeInv'
<1> USE DEF StartCommit, memory, noted
<1>1. OneIdentityPerOrganisation' /\ (Apart => Apart') /\ Adoptable' = Adoptable
  BY GraphUntouched DEF HomeInv
<1>2. Named \subseteq Named'
  BY NamedGrows
<1>3. Roster'
  BY <1>2 DEF HomeInv, Roster
<1>4. Tidy' /\ Listed' /\ Rebuilt' /\ AddressLeadsHome'
  BY <1>1 DEF HomeInv, Tidy, Listed, Rebuilt, AddressLeadsHome
<1>5. QED
  BY <1>1, <1>3, <1>4 DEF HomeInv

(* A new address goes to its own person; a known one is already where it leads. *)
LEMMA ObserveHome ==
    ASSUME Inv, HomeInv, Observe PROVE HomeInv'
<1> USE DEF Observe, graph, noted, count
<1> DEFINE a == Mentions[doc][at].address
           k == KeyFor(a)
<1>1. doc \in Doc /\ at \in 1 .. Len(Mentions[doc]) /\ proc = "api"
  BY MentionsTyped DEF Inv, TypeOK
<1>2. a \in Address /\ byEmail \in Leads
  BY <1>1, MentionsTyped, TypesNamed DEF Inv
<1>3. /\ DOMAIN people' = DOMAIN people \cup {k}
      /\ \A j \in DOMAIN people : j # k => people'[j] = people[j]
      /\ k \in DOMAIN people => people'[k].emails = people[k].emails \cup {a}
      /\ k \notin DOMAIN people => people'[k].emails = {a}
      /\ byEmail' = [byEmail EXCEPT ![a] = k]
  OBVIOUS
<1>4. byEmail[a] # NoKey => k = byEmail[a] /\ k \in DOMAIN people /\ a \in people[k].emails
  BY <1>2 DEF KeyFor, Inv, Held, HeldIn
<1>5. byEmail[a] = NoKey => k = a
  BY DEF KeyFor
<1> HIDE DEF a, k, Observe
<1>6. OneIdentityPerOrganisation' /\ (Apart => Apart') /\ Adoptable' = Adoptable
  BY GraphUntouched DEF HomeInv, Observe
<1>7. Roster'
  <2>1. a \in Named
    BY <1>1 DEF HomeInv, Roster, Named, AddressesIn, a, Observe
  <2>2. k \in Named
    BY <1>4, <1>5, <2>1 DEF HomeInv, Roster
  <2>3. Named' = Named
    BY DEF Named, AddressesIn, Observe
  <2>4. QED
    BY <1>3, <2>2, <2>3 DEF HomeInv, Roster, Observe
<1>8. AddressLeadsHome'
  <2> SUFFICES ASSUME intact, NEW b \in Address, NEW j \in DOMAIN people'
               PROVE  b \in people'[j].emails <=> byEmail'[b] = j
    BY DEF AddressLeadsHome, Observe
  <2>1. HomesIn(people, byEmail)
    BY DEF HomeInv, AddressLeadsHome, HomesIn
  <2>2. \A i \in DOMAIN people : i \in Address /\ i # NoKey
    BY TypesNamed, AddressAssumption DEF Inv, IsPeople
  <2>3. CASE b = a
    <3>1. byEmail'[b] = k
      BY <1>2, <1>3, <2>3 DEF Leads
    <3>2. \A i \in DOMAIN people : i # k => a \notin people[i].emails
      BY <1>2, <1>4, <1>5, <2>1, <2>2 DEF HomesIn
    <3>3. a \in people'[k].emails
      BY <1>3
    <3>4. QED
      BY <1>3, <2>3, <3>1, <3>2, <3>3
  <2>4. CASE b # a
    <3>1. byEmail'[b] = byEmail[b]
      BY <1>2, <1>3, <2>4 DEF Leads
    <3>2. CASE j \in DOMAIN people
      BY <1>3, <2>1, <2>4, <3>1, <3>2 DEF HomesIn
    <3>3. CASE j \notin DOMAIN people
      <4>1. j = k /\ b \notin people'[j].emails
        BY <1>3, <2>4, <3>3
      <4>2. byEmail[b] # NoKey => byEmail[b] \in DOMAIN people
        BY DEF Inv, Held, HeldIn
      <4>3. j # NoKey
        BY <1>2, <1>4, <1>5, <4>1, AddressAssumption
      <4>4. QED
        BY <3>1, <3>3, <4>1, <4>2, <4>3
    <3>4. QED
      BY <3>2, <3>3
  <2>5. QED
    BY <2>3, <2>4
<1>9. Listed'
  <2> SUFFICES ASSUME intact, NEW j \in Adoptable
               PROVE  j \in adopted /\ entity[j].emails \subseteq people'[j].emails
    BY <1>6 DEF Listed, Observe
  <2>1. j \in adopted /\ entity[j].emails \subseteq people[j].emails /\ j \in DOMAIN people
    BY <1>1 DEF HomeInv, Listed, Inv, PersistedStay
  <2>2. QED
    BY <1>3, <2>1
<1>10. Tidy' /\ Rebuilt'
  BY <1>1, <1>6 DEF HomeInv, Tidy, Rebuilt, Observe
<1>11. QED
  BY <1>6, <1>7, <1>8, <1>9, <1>10 DEF HomeInv

LEMMA MergeHome ==
    ASSUME Inv, HomeInv, Merge PROVE HomeInv'
<1> USE DEF Merge, graph, noted, count
<1>1. PICK g \in [DOMAIN people -> DOMAIN people] :
        /\ IsGrouping(people, g)
        /\ people' = Fold(people, Survivors(g, adopted))
        /\ byEmail' = Readdressed(people, Survivors(g, adopted), byEmail)
  OBVIOUS
<1>2. IsPeople(people) /\ byEmail \in Leads /\ HeldIn(people, byEmail) /\ proc = "api"
  BY TypesNamed DEF Inv, Held
<1>3. ASSUME HomesIn(people, byEmail)
      PROVE  /\ HomesIn(people', byEmail')
             /\ \A k \in DOMAIN people \cap adopted : people[k].emails \subseteq people'[k].emails
  BY <1>1, <1>2, <1>3, MergeHomes
<1>4. intact => HomesIn(people, byEmail)
  BY DEF HomeInv, AddressLeadsHome, HomesIn
<1>5. OneIdentityPerOrganisation' /\ (Apart => Apart') /\ Adoptable' = Adoptable
  BY GraphUntouched DEF HomeInv
<1>6. AddressLeadsHome'
  BY <1>3, <1>4 DEF AddressLeadsHome, HomesIn
<1>7. Listed'
  BY <1>2, <1>3, <1>4, <1>5 DEF HomeInv, Listed, Inv, PersistedStay
<1>8. Roster'
  <2>1. DOMAIN people' \subseteq DOMAIN people
    BY <1>1 DEF Fold
  <2>2. Named' = Named
    BY DEF Named, AddressesIn
  <2>3. QED
    BY <2>1, <2>2 DEF HomeInv, Roster
<1>9. Tidy' /\ Rebuilt'
  BY <1>2, <1>5 DEF HomeInv, Tidy, Rebuilt
<1>10. QED
  BY <1>5, <1>6, <1>7, <1>8, <1>9 DEF HomeInv

(* What is written of people who hold each address once lists it once. *)
LEMMA WriteEntitiesHome ==
    ASSUME Inv, HomeInv, WriteEntities PROVE HomeInv'
<1> USE DEF WriteEntities, count
<1>1. PICK touched \in Touched : entity' = WithRows(touched) /\ adopted' = adopted \cup touched
  OBVIOUS
<1>2. touched \subseteq DOMAIN people /\ proc = "api"
  BY <1>1, TouchedLive DEF Inv, TypeOK
<1>3. /\ DOMAIN entity' = DOMAIN entity \cup touched
      /\ \A k \in touched : entity'[k].emails \subseteq people[k].emails
      /\ \A k \in DOMAIN entity \ touched : entity'[k] = entity[k]
  BY <1>1 DEF WithRows, Row, Packed
<1>4. Adoptable' \subseteq touched \cup Adoptable
  BY <1>3 DEF Adoptable, Superseded
<1>5. ASSUME intact, NEW k \in Adoptable'
      PROVE  k \in adopted' /\ k \in DOMAIN people /\ entity'[k].emails \subseteq people[k].emails
  <2>1. CASE k \in touched
    BY <1>1, <1>2, <1>3, <2>1
  <2>2. CASE k \notin touched
    <3>1. k \in Adoptable /\ k \in DOMAIN entity
      BY <1>4, <2>2 DEF Adoptable
    <3>2. k \in adopted /\ entity[k].emails \subseteq people[k].emails
      BY <1>2, <1>5, <3>1 DEF HomeInv, Listed
    <3>3. QED
      BY <1>1, <1>3, <2>2, <3>1, <3>2 DEF Inv, PersistedStay
  <2>3. QED
    BY <2>1, <2>2
<1>6. Listed'
  BY <1>5 DEF Listed
<1>7. Tidy'
  <2> SUFFICES ASSUME intact, NEW j \in Adoptable', NEW k \in Adoptable',
                      NEW a \in entity'[j].emails \cap entity'[k].emails
               PROVE  j = k
    BY DEF Tidy, Apart
  <2>1. a \in people[j].emails /\ a \in people[k].emails /\ j \in DOMAIN people /\ k \in DOMAIN people
    BY <1>5
  <2>2. a \in Address
    BY <2>1, TypesNamed DEF Inv, IsPeople, Record
  <2>3. QED
    BY <2>1, <2>2 DEF HomeInv, AddressLeadsHome
<1>8. Roster'
  <2>1. Named' = Named
    BY DEF Named, AddressesIn
  <2>2. QED
    BY <1>2, <1>3, <2>1 DEF HomeInv, Roster
<1>9. Rebuilt' /\ AddressLeadsHome' /\ OneIdentityPerOrganisation'
  BY <1>2 DEF HomeInv, Rebuilt, AddressLeadsHome, OneIdentityPerOrganisation
<1>10. QED
  BY <1>6, <1>7, <1>8, <1>9 DEF HomeInv

(* Decisions say nothing of who holds an address. *)
LEMMA DecisionsHome ==
    ASSUME HomeInv, UNCHANGED <<proc, people, byEmail, adopted, entity, merged, stored, intact>>,
           doc' \in stored' \/ pc' \notin {"observe", "entities", "resolves"},
           proc = "script" => pc \in {"decide"} /\ pc' = "record",
           canonical' => canonical
    PROVE  HomeInv'
<1>1. Adoptable' = Adoptable /\ (Apart => Apart')
  BY DEF Adoptable, Superseded, Apart
<1>2. OneIdentityPerOrganisation'
  BY <1>1 DEF HomeInv, OneIdentityPerOrganisation
<1>3. Roster'
  BY DEF HomeInv, Roster, Named, AddressesIn
<1>4. Tidy'
  BY <1>1 DEF HomeInv, Tidy
<1>5. Listed' /\ AddressLeadsHome'
  BY <1>1 DEF HomeInv, Listed, AddressLeadsHome
<1>6. Rebuilt'
  BY DEF HomeInv, Rebuilt, HomesIn, DistinctIn, Named, AddressesIn, Row
<1>7. QED
  BY <1>2, <1>3, <1>4, <1>5, <1>6 DEF HomeInv

LEMMA WriteResolutionsHome ==
    ASSUME Inv, HomeInv, WriteResolutions PROVE HomeInv'
<1>1. proc = "api"
  BY DEF WriteResolutions, Inv, TypeOK
<1>2. QED
  BY <1>1, DecisionsHome DEF WriteResolutions, memory, count

(* A failed write that was applied is the end of what is promised, until a rebuild. *)
LEMMA FailHome ==
    ASSUME Inv, HomeInv, Fail PROVE HomeInv'
<1> USE DEF Fail, memory
<1>1. CASE UNCHANGED <<entity, intact>> /\ (canonical' => canonical)
  <2>1. UNCHANGED <<proc, people, byEmail, adopted, entity, merged, stored, intact>>
    BY <1>1
  <2>2. proc = "api" /\ pc' = "idle" /\ (canonical' => canonical)
    BY <1>1
  <2> HIDE DEF Fail
  <2>3. QED
    BY <2>1, <2>2, DecisionsHome
<1>2. CASE ~intact' /\ ~canonical' /\ \E touched \in Touched : entity' = WithRows(touched)
  <2>1. pc \in {"entities", "resolves"}
    OBVIOUS
  <2>2. DOMAIN entity' \subseteq DOMAIN entity \cup DOMAIN people
    BY <1>2, <2>1, TouchedLive DEF WithRows
  <2>3. Named' = Named
    BY DEF Named, AddressesIn
  <2>4. Roster'
    BY <2>2, <2>3 DEF HomeInv, Roster
  <2>5. Tidy' /\ Listed' /\ Rebuilt' /\ AddressLeadsHome' /\ OneIdentityPerOrganisation'
    BY <1>2 DEF Tidy, Listed, Rebuilt, AddressLeadsHome, OneIdentityPerOrganisation
  <2>6. QED
    BY <2>4, <2>5 DEF HomeInv
<1>3. QED
  BY <1>1, <1>2 DEF noted

LEMMA StopHome ==
    ASSUME Inv, HomeInv, Stop PROVE HomeInv'
<1> USE DEF Stop, graph
<1>1. OneIdentityPerOrganisation' /\ (Apart => Apart') /\ Adoptable' = Adoptable
  BY GraphUntouched DEF HomeInv
<1>2. DOMAIN people' = {}
  BY DEF NoPeople
<1>3. Roster'
  <2>1. Named' = Named
    BY DEF Named, AddressesIn
  <2>2. QED
    BY <1>2, <2>1 DEF HomeInv, Roster
<1>4. Tidy'
  BY <1>1 DEF HomeInv, Tidy
<1>5. Listed' /\ Rebuilt' /\ AddressLeadsHome'
  BY <1>2 DEF Listed, Rebuilt, AddressLeadsHome
<1>6. QED
  BY <1>1, <1>3, <1>4, <1>5 DEF HomeInv

(* Everybody apart, then merged with nobody protected: no two alike are left. *)
LEMMA StartRebuildHome ==
    ASSUME Inv, HomeInv, StartRebuild PROVE HomeInv'
<1> USE DEF StartRebuild, graph, noted
<1>1. PICK label \in [Named -> Surface] :
        LET seen == [a \in Named |-> [name |-> label[a], emails |-> {a}, roots |-> RootsOf(a)]]
            own  == [a \in Address |-> IF a \in Named THEN a ELSE NoKey]
        IN  \E g \in [Named -> Named] :
                /\ IsGrouping(seen, g)
                /\ people' = Fold(seen, Survivors(g, {}))
                /\ byEmail' = Readdressed(seen, Survivors(g, {}), own)
  OBVIOUS
<1> DEFINE seen == [a \in Named |-> [name |-> label[a], emails |-> {a}, roots |-> RootsOf(a)]]
           own  == [a \in Address |-> IF a \in Named THEN a ELSE NoKey]
<1>2. Named \in SUBSET Address
  BY MentionsTyped DEF Inv, TypeOK, Named
<1>3. seen \in [Named -> Record]
  BY <1>2, RootsTyped DEF Record
<1>4. IsPeople(seen) /\ DOMAIN seen = Named
  BY <1>2, <1>3 DEF IsPeople
<1>5. own \in Leads /\ HeldIn(seen, own) /\ HomesIn(seen, own) /\ \A a \in Named : own[a] = a
  BY <1>2, AddressAssumption DEF Leads, HeldIn, HomesIn
<1>6. \A a \in Named : seen[a].name = label[a] /\ seen[a].roots = RootsOf(a)
  OBVIOUS
<1> HIDE DEF seen, own
<1>7. PICK g \in [DOMAIN seen -> DOMAIN seen] :
        /\ IsGrouping(seen, g)
        /\ people' = Fold(seen, Survivors(g, {}))
        /\ byEmail' = Readdressed(seen, Survivors(g, {}), own)
  BY <1>1, <1>4 DEF seen, own
<1>8. DOMAIN people' = {j \in Named : g[j] = j} /\ \A j \in DOMAIN people' : people'[j].name = label[j]
  <2>1. Survivors(g, {}) = g
    BY FirstsSurvive
  <2>2. people' = Fold(seen, g)
    BY <1>7, <2>1
  <2> HIDE DEF StartRebuild
  <2>3. DOMAIN Fold(seen, g) = {j \in Named : g[j] = j}
        /\ \A j \in DOMAIN Fold(seen, g) : Fold(seen, g)[j].name = seen[j].name
    BY <1>4 DEF Fold
  <2>4. QED
    BY <1>6, <2>2, <2>3
<1>9. HomesIn(people', byEmail')
  BY <1>4, <1>5, <1>7, MergeHomes
<1>10. \A a \in Named : byEmail'[a] # NoKey
  <2>1. \A a \in Address : own[a] # NoKey => byEmail'[a] # NoKey
    BY <1>4, <1>5, <1>7, MergeHolds
  <2>2. QED
    BY <1>2, <1>5, <2>1, AddressAssumption
<1>11. DistinctIn(people')
  <2> SUFFICES ASSUME NEW j \in DOMAIN people', NEW k \in DOMAIN people',
                      people'[j].name = people'[k].name, people'[j].name \in Full,
                      <<RootOf[j], RootOf[k]>> \in SameOrg
               PROVE  j = k
    BY DEF DistinctIn
  <2>1. j \in Named /\ k \in Named /\ label[j] = label[k] /\ label[j] \in Full /\ label[j] # Bare
    BY <1>8, AddressAssumption
  <2>2. Signature(seen, j) = label[j] /\ Signature(seen, k) = label[k]
    BY <1>6, <2>1 DEF Signature
  <2>3. RootOf[j] \in RootsOf(j) /\ RootOf[k] \in RootsOf(k)
    BY AddressAssumption DEF RootsOf
  <2>4. Alike(seen, j, k)
    BY <1>6, <2>1, <2>2, <2>3 DEF Alike
  <2>5. QED
    BY <1>4, <1>7, <1>8, <2>1, <2>4, FirstsUnlike
<1>12. Named' = Named /\ proc' = "script" /\ pc' = "rewrite"
  BY DEF Named, AddressesIn
<1>13. Rebuilt'
  BY <1>9, <1>10, <1>11, <1>12 DEF Rebuilt, HomesIn, DistinctIn
<1>14. AddressLeadsHome'
  BY <1>9 DEF AddressLeadsHome, HomesIn
<1>15. Roster'
  BY <1>8, <1>12 DEF HomeInv, Roster
<1>16. OneIdentityPerOrganisation'
  BY GraphUntouched DEF HomeInv
<1>17. Tidy' /\ Listed'
  BY <1>12 DEF Tidy, Listed
<1>18. QED
  BY <1>13, <1>14, <1>15, <1>16, <1>17 DEF HomeInv

LEMMA RebuildEntitiesHome ==
    ASSUME Inv, HomeInv, RebuildEntities PROVE HomeInv'
<1> USE DEF RebuildEntities, memory, count
<1>1. PICK batch \in SUBSET DOMAIN people :
        entity' = WithRows(batch) /\ pc' = IF batch = DOMAIN people THEN "decide" ELSE "rewrite"
  OBVIOUS
<1>2. DOMAIN entity' = DOMAIN entity \cup batch /\ \A k \in batch : entity'[k] = Row(people[k])
  BY <1>1 DEF WithRows
<1>3. Named' = Named /\ proc = "script" /\ proc' = "script" /\ pc' # "idle"
  BY <1>1 DEF Named, AddressesIn
<1>4. Roster'
  BY <1>1, <1>2, <1>3 DEF HomeInv, Roster
<1>5. Rebuilt'
  BY <1>1, <1>2, <1>3 DEF HomeInv, Rebuilt, HomesIn, DistinctIn, Row
<1>6. Tidy' /\ Listed' /\ AddressLeadsHome' /\ OneIdentityPerOrganisation'
  BY <1>3 DEF HomeInv, Tidy, Listed, AddressLeadsHome, OneIdentityPerOrganisation
<1>7. QED
  BY <1>4, <1>5, <1>6 DEF HomeInv

LEMMA RebuildDecisionsHome ==
    ASSUME Inv, HomeInv, RebuildDecisions PROVE HomeInv'
BY DecisionsHome DEF RebuildDecisions, memory, count

(* Every vertex that is not a living person's is marked as folded. *)
LEMMA RecordCanonicalHome ==
    ASSUME Inv, HomeInv, RecordCanonical PROVE HomeInv'
<1> USE DEF RecordCanonical, memory, count
<1>1. /\ HomesIn(people, byEmail) /\ DistinctIn(people)
      /\ \A k \in DOMAIN people : entity[k] = Row(people[k])
      /\ \A a \in Named : byEmail[a] # NoKey
  BY DEF HomeInv, Rebuilt
<1>2. byEmail \in Leads /\ IsPeople(people) /\ DOMAIN entity \subseteq Address
  BY TypesNamed DEF Inv, IsPeople
<1>3. Adoptable' \subseteq DOMAIN people
  <2> SUFFICES ASSUME NEW k \in DOMAIN entity, k \notin DOMAIN people PROVE k \in Superseded'
    BY DEF Adoptable
  <2>1. byEmail[k] # NoKey /\ k \in Address
    BY <1>1, <1>2 DEF HomeInv, Roster
  <2>2. byEmail[k] \in Address /\ <<k, byEmail[k]>> \in merged'
    BY <1>2, <2>1 DEF Leads, Folded
  <2>3. QED
    BY <2>2 DEF Superseded
<1>4. Tidy'
  <2> SUFFICES ASSUME NEW j \in Adoptable', NEW k \in Adoptable',
                      NEW a \in entity[j].emails \cap entity[k].emails
               PROVE  j = k
    BY DEF Tidy, Apart
  <2>1. a \in people[j].emails /\ a \in people[k].emails /\ j \in DOMAIN people /\ k \in DOMAIN people
    BY <1>1, <1>3, RowOf
  <2>2. a \in Address
    BY <1>2, <2>1 DEF IsPeople, Record
  <2>3. QED
    BY <1>1, <2>1, <2>2 DEF HomesIn
<1>5. OneIdentityPerOrganisation'
  <2>1. \A k \in DOMAIN people : entity[k].name = people[k].name
    BY <1>1, RowOf
  <2>2. QED
    BY <1>1, <1>3, <2>1 DEF OneIdentityPerOrganisation, DistinctIn
<1>6. AddressLeadsHome'
  BY <1>1 DEF AddressLeadsHome, HomesIn
<1>7. Named' = Named
  BY DEF Named, AddressesIn
<1>8. Roster' /\ Listed'
  BY <1>7 DEF HomeInv, Roster, Listed
<1>9. Rebuilt'
  BY <1>7 DEF HomeInv, Rebuilt, HomesIn, DistinctIn, Row
<1>10. QED
  BY <1>4, <1>5, <1>6, <1>8, <1>9 DEF HomeInv

LEMMA HomeInductive == Inv /\ HomeInv /\ [Next]_vars => HomeInv'
<1> SUFFICES ASSUME Inv, HomeInv, [Next]_vars PROVE HomeInv'
  OBVIOUS
<1>1. CASE StartApi
  BY <1>1, StartApiHome
<1>2. ASSUME NEW d \in Doc, StartCommit(d) PROVE HomeInv'
  BY <1>2, StartCommitHome
<1>3. CASE Observe
  BY <1>3, ObserveHome
<1>4. CASE Merge
  BY <1>4, MergeHome
<1>5. CASE WriteEntities
  BY <1>5, WriteEntitiesHome
<1>6. CASE WriteResolutions
  BY <1>6, WriteResolutionsHome
<1>7. CASE Fail
  BY <1>7, FailHome
<1>8. CASE Stop
  BY <1>8, StopHome
<1>9. CASE StartRebuild
  BY <1>9, StartRebuildHome
<1>10. CASE RebuildEntities
  BY <1>10, RebuildEntitiesHome
<1>11. CASE RebuildDecisions
  BY <1>11, RebuildDecisionsHome
<1>12. CASE RecordCanonical
  BY <1>12, RecordCanonicalHome
<1>13. CASE UNCHANGED vars
  <2> USE <1>13 DEF vars, memory, graph, noted, count
  <2>1. OneIdentityPerOrganisation' /\ (Apart => Apart') /\ Adoptable' = Adoptable
    BY GraphUntouched DEF HomeInv
  <2>2. Named' = Named
    BY DEF Named, AddressesIn
  <2>3. Roster' /\ Tidy' /\ Listed' /\ AddressLeadsHome'
    BY <2>1, <2>2 DEF HomeInv, Roster, Tidy, Listed, AddressLeadsHome
  <2>4. Rebuilt'
    BY <2>2 DEF HomeInv, Rebuilt, HomesIn, DistinctIn, Row
  <2>5. QED
    BY <2>1, <2>3, <2>4 DEF HomeInv
<1>14. QED
  BY <1>1, <1>2, <1>3, <1>4, <1>5, <1>6, <1>7, <1>8, <1>9, <1>10, <1>11, <1>12, <1>13 DEF Next

-----------------------------------------------------------------------------
(* Organisations. *)

(* Every nonempty set of naturals has a least member. *)
LEMMA LeastMember ==
    ASSUME NEW S \in SUBSET Nat, S # {}
    PROVE  \E n \in S : \A m \in S : n <= m
<1> DEFINE Less == {pair \in Nat \X Nat : pair[1] < pair[2]}
<1>1. IsWellFoundedOn(Less, Nat)
  BY NatLessThanWellFounded DEF OpToRel
<1>2. PICK n \in S : \A m \in S : <<m, n>> \notin Less
  <2> HIDE DEF Less
  <2>1. QED
    BY <1>1, WFMin
<1>3. \A m \in S : ~(m < n)
  BY <1>2
<1>4. QED
  BY <1>3

(* Sets of roots that no link leaves. *)
IsCompany(company) ==
    company \in SUBSET Root /\ \A pair \in SameOrg : pair[1] \in company => pair[2] \in company

LEMMA CompanyDef ==
    \A a, b \in Address :
        Colleagues(a, b) <=>
            a = b \/ (RootOf[a] \in Root /\ \A C : IsCompany(C) /\ RootOf[a] \in C => RootOf[b] \in C)
BY DEF Colleagues, IsCompany

(* All roots are a company, and what is not in a company is one. *)
LEMMA Companies ==
    /\ IsCompany(Root)
    /\ \A C : IsCompany(C) => IsCompany(Root \ C)
<1>1. \A pair \in SameOrg : pair[1] \in Root /\ pair[2] \in Root /\ pair = <<pair[1], pair[2]>>
                            /\ <<pair[2], pair[1]>> \in SameOrg
  <2> TAKE pair \in SameOrg
  <2>1. PICK r \in Root, s \in Root : pair = <<r, s>>
    <3>1. pair \in Root \X Root
      BY AddressAssumption
    <3>2. QED
      BY <3>1
  <2>2. <<s, r>> \in SameOrg
    BY <2>1, AddressAssumption
  <2>3. QED
    BY <2>1, <2>2
<1>2. IsCompany(Root)
  BY <1>1 DEF IsCompany
<1>3. ASSUME NEW C, IsCompany(C), NEW pair \in SameOrg, pair[1] \in Root \ C
      PROVE  pair[2] \in Root \ C
  <2> DEFINE back == <<pair[2], pair[1]>>
  <2>1. back \in SameOrg /\ back[1] = pair[2] /\ back[2] = pair[1]
    BY <1>1
  <2>2. pair[2] \in C => pair[1] \in C
    BY <1>3, <2>1 DEF IsCompany
  <2>3. QED
    BY <1>1, <1>3, <2>2
<1>4. QED
  BY <1>2, <1>3 DEF IsCompany

(* Being colleagues is an equivalence. *)
LEMMA ColleaguesEquivalence ==
    /\ \A a \in Address : Colleagues(a, a)
    /\ \A a, b \in Address : Colleagues(a, b) => Colleagues(b, a)
    /\ \A a, b, c \in Address : Colleagues(a, b) /\ Colleagues(b, c) => Colleagues(a, c)
<1>1. ASSUME NEW a \in Address, NEW b \in Address, Colleagues(a, b), a # b
      PROVE  Colleagues(b, a)
  <2>1. RootOf[a] \in Root /\ \A C : IsCompany(C) /\ RootOf[a] \in C => RootOf[b] \in C
    BY <1>1, CompanyDef
  <2>2. RootOf[b] \in Root
    BY <2>1, Companies
  <2>3. ASSUME NEW C, IsCompany(C), RootOf[b] \in C, RootOf[a] \notin C PROVE FALSE
    BY <2>1, <2>3, Companies
  <2>4. QED
    BY <2>2, <2>3, CompanyDef
<1>2. ASSUME NEW a \in Address, NEW b \in Address, NEW c \in Address,
             Colleagues(a, b), Colleagues(b, c), a # b, b # c
      PROVE  Colleagues(a, c)
  <2>1. RootOf[a] \in Root /\ \A C : IsCompany(C) /\ RootOf[a] \in C => RootOf[b] \in C
    BY <1>2, CompanyDef
  <2>2. \A C : IsCompany(C) /\ RootOf[b] \in C => RootOf[c] \in C
    BY <1>2, CompanyDef
  <2>3. QED
    BY <2>1, <2>2, CompanyDef
<1>3. \A a \in Address : Colleagues(a, a)
  BY CompanyDef
<1>4. QED
  BY <1>1, <1>2, <1>3

(* Addresses whose roots are linked are colleagues. *)
LEMMA LinkedColleagues ==
    ASSUME NEW a \in Address, NEW b \in Address, <<RootOf[a], RootOf[b]>> \in SameOrg
    PROVE  Colleagues(a, b)
<1> DEFINE link == <<RootOf[a], RootOf[b]>>
<1>1. RootOf[a] \in Root
  BY AddressAssumption
<1>2. link \in SameOrg /\ link[1] = RootOf[a] /\ link[2] = RootOf[b]
  OBVIOUS
<1>3. \A C : IsCompany(C) /\ RootOf[a] \in C => RootOf[b] \in C
  BY <1>2 DEF IsCompany
<1>4. QED
  BY <1>1, <1>3, CompanyDef

(* Whoever is in a record is a colleague of its key, and so is each of its roots. *)
OneOrgIn(p) ==
    \A k \in DOMAIN p :
        /\ \A a \in p[k].emails : Colleagues(k, a)
        /\ \A r \in p[k].roots : \E b \in Address : RootOf[b] = r /\ Colleagues(k, b)

Orgs == OneOrgIn(people) /\ OneOrgIn(entity)

LEMMA AlikeColleagues ==
    ASSUME NEW p, IsPeople(p), OneOrgIn(p), NEW j \in DOMAIN p, NEW k \in DOMAIN p, Alike(p, j, k)
    PROVE  Colleagues(j, k)
<1>1. PICK r \in p[j].roots, s \in p[k].roots : <<r, s>> \in SameOrg
  BY DEF Alike
<1>2. PICK b \in Address : RootOf[b] = r /\ Colleagues(j, b)
  BY <1>1 DEF OneOrgIn
<1>3. PICK c \in Address : RootOf[c] = s /\ Colleagues(k, c)
  BY <1>1 DEF OneOrgIn
<1>4. Colleagues(b, c) /\ j \in Address /\ k \in Address
  BY <1>1, <1>2, <1>3, LinkedColleagues DEF IsPeople
<1>5. QED
  BY <1>2, <1>3, <1>4, ColleaguesEquivalence

(***************************************************************************)
(* The members of a group are colleagues of its first.  Who joins a group  *)
(* is only like some member, perhaps not like the first, so this is by the *)
(* least key of which it were false.                                       *)
(***************************************************************************)
LEMMA GroupOfColleagues ==
    ASSUME NEW p, IsPeople(p), OneOrgIn(p),
           NEW g \in [DOMAIN p -> DOMAIN p], IsGrouping(p, g)
    PROVE  \A k \in DOMAIN p : Colleagues(g[k], k)
<1> DEFINE strangers == {k \in DOMAIN p : ~Colleagues(g[k], k)}
<1>1. DOMAIN p \subseteq Address /\ DOMAIN p \subseteq Nat
  BY AddressAssumption DEF IsPeople
<1>2. SUFFICES ASSUME strangers # {} PROVE FALSE
  OBVIOUS
<1>3. PICK k \in strangers : \A m \in strangers : k <= m
  <2>1. strangers \in SUBSET Nat
    BY <1>1
  <2> HIDE DEF strangers
  <2>2. QED
    BY <1>2, <2>1, LeastMember
<1>4. g[k] # k
  BY <1>1, <1>3, ColleaguesEquivalence
<1>5. PICK j \in DOMAIN p : j < k /\ g[j] = g[k] /\ Alike(p, j, k)
  BY <1>3, <1>4 DEF IsGrouping
<1>6. Colleagues(g[j], j)
  BY <1>1, <1>3, <1>5
<1>7. Colleagues(j, k)
  BY <1>3, <1>5, AlikeColleagues
<1>8. QED
  BY <1>1, <1>3, <1>5, <1>6, <1>7, ColleaguesEquivalence

(* A merge stays within an organisation. *)
LEMMA MergeOrgs ==
    ASSUME NEW p, IsPeople(p), OneOrgIn(p),
           NEW g \in [DOMAIN p -> DOMAIN p], IsGrouping(p, g), NEW protected
    PROVE  OneOrgIn(Fold(p, Survivors(g, protected)))
<1> DEFINE s == Survivors(g, protected)
           Anchors(k) == {j \in DOMAIN g : g[j] = g[k]} \cap protected
<1>1. DOMAIN p \subseteq Address /\ \A k \in DOMAIN p : Colleagues(g[k], k)
  BY GroupOfColleagues DEF IsPeople
<1>2. ASSUME NEW k \in DOMAIN p PROVE s[k] \in DOMAIN p /\ Colleagues(s[k], k)
  <2>1. s[k] \in DOMAIN p
    BY SurvivorsStay
  <2>2. s[k] = IF Anchors(k) = {} THEN g[k]
               ELSE IF \E j \in Anchors(k) : Anchors(k) = {j} THEN CHOOSE j \in Anchors(k) : TRUE
               ELSE k
    BY DEF Survivors
  <2>3. s[k] = k \/ g[s[k]] = g[k] \/ s[k] = g[k]
    <3>1. Anchors(k) # {} => (CHOOSE j \in Anchors(k) : TRUE) \in Anchors(k)
      OBVIOUS
    <3>2. \A j \in Anchors(k) : g[j] = g[k]
      OBVIOUS
    <3> HIDE DEF Anchors
    <3>3. QED
      BY <2>2, <3>1, <3>2
  <2>4. QED
    BY <1>1, <2>1, <2>3, ColleaguesEquivalence
<1> HIDE DEF s
<1>3. ASSUME NEW k \in DOMAIN Fold(p, s), NEW a \in Fold(p, s)[k].emails PROVE Colleagues(k, a)
  <2>1. PICK j \in DOMAIN p : s[j] = k /\ a \in p[j].emails
    BY DEF Fold
  <2>2. Colleagues(k, j) /\ Colleagues(j, a) /\ k \in Address /\ j \in Address /\ a \in Address
    BY <1>1, <1>2, <2>1 DEF OneOrgIn, IsPeople, Record
  <2>3. QED
    BY <2>2, ColleaguesEquivalence
<1>4. ASSUME NEW k \in DOMAIN Fold(p, s), NEW r \in Fold(p, s)[k].roots
      PROVE  \E b \in Address : RootOf[b] = r /\ Colleagues(k, b)
  <2>1. PICK j \in DOMAIN p : s[j] = k /\ r \in p[j].roots
    BY DEF Fold
  <2>2. Colleagues(k, j) /\ k \in Address /\ j \in Address
    BY <1>1, <1>2, <2>1
  <2>3. PICK b \in Address : RootOf[b] = r /\ Colleagues(j, b)
    BY <2>1 DEF OneOrgIn
  <2>4. QED
    BY <2>2, <2>3, ColleaguesEquivalence
<1>5. QED
  BY <1>3, <1>4 DEF OneOrgIn, s

(* Vertices written of such people are such. *)
LEMMA WithRowsOrgs ==
    ASSUME Orgs, NEW keys \in SUBSET DOMAIN people
    PROVE  OneOrgIn(WithRows(keys))
<1>1. \A person : Row(person).emails \subseteq person.emails /\ Row(person).roots \subseteq person.roots
  BY DEF Row, Packed
<1>2. \A k \in DOMAIN WithRows(keys) :
        \/ k \in keys /\ WithRows(keys)[k] = Row(people[k])
        \/ k \in DOMAIN entity /\ WithRows(keys)[k] = entity[k]
  BY DEF WithRows
<1> HIDE DEF Row
<1>3. QED
  BY <1>1, <1>2 DEF Orgs, OneOrgIn

LEMMA ObserveOrgs ==
    ASSUME Inv, Orgs, Observe PROVE OneOrgIn(people')
<1> USE DEF Observe
<1> DEFINE a == Mentions[doc][at].address
           k == KeyFor(a)
           old == IF k \in DOMAIN people THEN people[k]
                  ELSE [name |-> Mentions[doc][at].surface, emails |-> {}, roots |-> {}]
<1>1. doc \in Doc /\ at \in 1 .. Len(Mentions[doc])
  BY MentionsTyped DEF Inv, TypeOK
<1>2. a \in Address
  BY <1>1, MentionsTyped
<1>3. Colleagues(k, a)
  <2>1. CASE byEmail[a] = NoKey
    BY <1>2, <2>1, ColleaguesEquivalence DEF KeyFor
  <2>2. CASE byEmail[a] # NoKey
    <3>1. k = byEmail[a] /\ k \in DOMAIN people /\ a \in people[k].emails
      BY <1>2, <2>2 DEF KeyFor, Inv, Held, HeldIn
    <3>2. QED
      BY <3>1 DEF Orgs, OneOrgIn
  <2>3. QED
    BY <2>1, <2>2
<1>4. /\ \A j \in DOMAIN people' : (j \in DOMAIN people /\ people'[j] = people[j]) \/ j = k
      /\ people'[k].emails = old.emails \cup {a} /\ people'[k].roots = old.roots \cup RootsOf(a)
      /\ k \in DOMAIN people => old = people[k]
      /\ k \notin DOMAIN people => old.emails = {} /\ old.roots = {}
  OBVIOUS
<1> HIDE DEF Observe, a, k, old
<1>5. ASSUME NEW j \in DOMAIN people', NEW b \in people'[j].emails PROVE Colleagues(j, b)
  BY <1>3, <1>4, <1>5 DEF Orgs, OneOrgIn
<1>6. ASSUME NEW j \in DOMAIN people', NEW r \in people'[j].roots
      PROVE  \E b \in Address : RootOf[b] = r /\ Colleagues(j, b)
  <2>1. CASE j = k /\ r \in RootsOf(a)
    BY <1>2, <1>3, <2>1 DEF RootsOf
  <2>2. CASE ~(j = k /\ r \in RootsOf(a))
    BY <1>4, <1>6, <2>2 DEF Orgs, OneOrgIn
  <2>3. QED
    BY <2>1, <2>2
<1>7. QED
  BY <1>5, <1>6 DEF OneOrgIn

LEMMA StartRebuildOrgs ==
    ASSUME Inv, StartRebuild PROVE OneOrgIn(people')
<1>1. PICK label \in [Named -> Surface] :
        LET seen == [a \in Named |-> [name |-> label[a], emails |-> {a}, roots |-> RootsOf(a)]]
        IN  \E g \in [Named -> Named] :
                IsGrouping(seen, g) /\ people' = Fold(seen, Survivors(g, {}))
  BY DEF StartRebuild
<1> DEFINE seen == [a \in Named |-> [name |-> label[a], emails |-> {a}, roots |-> RootsOf(a)]]
<1>2. Named \in SUBSET Address
  BY MentionsTyped DEF Inv, TypeOK, Named
<1>3. seen \in [Named -> Record]
  BY <1>2, RootsTyped DEF Record
<1>4. IsPeople(seen) /\ DOMAIN seen = Named
  BY <1>2, <1>3 DEF IsPeople
<1>5. OneOrgIn(seen)
  <2>1. \A a \in Named : a \in Address /\ Colleagues(a, a)
    BY <1>2, ColleaguesEquivalence
  <2>2. \A a \in Named : \A r \in RootsOf(a) : RootOf[a] = r
    BY DEF RootsOf
  <2>3. QED
    BY <2>1, <2>2 DEF OneOrgIn
<1> HIDE DEF seen
<1>6. PICK g \in [DOMAIN seen -> DOMAIN seen] :
        IsGrouping(seen, g) /\ people' = Fold(seen, Survivors(g, {}))
  BY <1>1, <1>4 DEF seen
<1>7. QED
  BY <1>4, <1>5, <1>6, MergeOrgs

LEMMA OrgsInductive == Inv /\ Orgs /\ [Next]_vars => Orgs'
<1> SUFFICES ASSUME Inv, Orgs, [Next]_vars PROVE Orgs'
  OBVIOUS
<1>1. CASE StartApi
  <2>1. DOMAIN people' \subseteq DOMAIN entity /\ \A k \in DOMAIN people' : people'[k] = entity[k]
    BY <1>1 DEF StartApi, Adoptable
  <2>2. entity' = entity
    BY <1>1 DEF StartApi, graph
  <2>3. QED
    BY <2>1, <2>2 DEF Orgs, OneOrgIn
<1>2. CASE Observe
  BY <1>2, ObserveOrgs DEF Orgs, Observe, graph
<1>3. CASE Merge
  <2>1. OneOrgIn(people')
    BY <1>3, MergeOrgs, TypesNamed DEF Merge, Inv, Orgs
  <2>2. QED
    BY <1>3, <2>1 DEF Orgs, Merge, graph
<1>4. CASE WriteEntities
  BY <1>4, TouchedLive, WithRowsOrgs DEF WriteEntities, Orgs
<1>5. CASE Fail
  <2>1. entity' = entity \/ \E touched \in Touched : entity' = WithRows(touched)
    BY <1>5 DEF Fail
  <2>2. people' = people /\ pc \in {"entities", "resolves"}
    BY <1>5 DEF Fail, memory
  <2>3. QED
    BY <2>1, <2>2, TouchedLive, WithRowsOrgs DEF Orgs
<1>6. CASE Stop
  BY <1>6 DEF Stop, graph, Orgs, OneOrgIn, NoPeople
<1>7. CASE StartRebuild
  BY <1>7, StartRebuildOrgs DEF StartRebuild, graph, Orgs
<1>8. CASE RebuildEntities
  BY <1>8, WithRowsOrgs DEF RebuildEntities, memory, Orgs
<1>9. CASE WriteResolutions \/ RebuildDecisions \/ RecordCanonical \/ UNCHANGED vars
           \/ \E d \in Doc : StartCommit(d)
  <2>1. UNCHANGED <<people, entity>>
    BY <1>9 DEF WriteResolutions, RebuildDecisions, RecordCanonical, StartCommit,
                vars, memory, graph
  <2>2. QED
    BY <2>1 DEF Orgs
<1>10. QED
  BY <1>1, <1>2, <1>3, <1>4, <1>5, <1>6, <1>7, <1>8, <1>9 DEF Next

-----------------------------------------------------------------------------
(***************************************************************************)
(* Every address of the resolver leads to the one person who holds it,     *)
(* through merges, failed writes, restarts and rebuilds.                   *)
(***************************************************************************)
THEOREM OnePersonPerAddress == Spec => []AddressLeadsHome
<1>1. HomeInv => AddressLeadsHome
  BY DEF HomeInv
<1>2. QED
  BY <1>1, Initial, Inductive, InitialHome, HomeInductive, PTL DEF Spec

(***************************************************************************)
(* A rebuild leaves one identity of a full name at an organisation, among  *)
(* those a restart would adopt.                                            *)
(***************************************************************************)
THEOREM RebuildMergesAll == Spec => []OneIdentityPerOrganisation
<1>1. HomeInv => OneIdentityPerOrganisation
  BY DEF HomeInv
<1>2. QED
  BY <1>1, Initial, Inductive, InitialHome, HomeInductive, PTL DEF Spec

(***************************************************************************)
(* Nobody, in memory or in the graph, has addresses of two organisations.  *)
(***************************************************************************)
THEOREM CompaniesStayApart == Spec => []OneOrganisation
<1>1. Init => Orgs
  BY DEF Init, NoPeople, Orgs, OneOrgIn
<1>2. Inv /\ Orgs => OneOrganisation
  <2> SUFFICES ASSUME Inv, Orgs PROVE OneOrganisation
    OBVIOUS
  <2>1. ASSUME NEW p, IsPeople(p), OneOrgIn(p), NEW k \in DOMAIN p,
               NEW a \in p[k].emails \cup {k}, NEW b \in p[k].emails \cup {k}
        PROVE  Colleagues(a, b)
    <3>1. k \in Address /\ a \in Address /\ b \in Address
      BY <2>1 DEF IsPeople, Record
    <3>2. Colleagues(k, a) /\ Colleagues(k, b)
      BY <2>1, <3>1, ColleaguesEquivalence DEF OneOrgIn
    <3>3. QED
      BY <3>1, <3>2, ColleaguesEquivalence
  <2>2. IsPeople(people) /\ IsPeople(entity) /\ OneOrgIn(people) /\ OneOrgIn(entity)
    BY TypesNamed DEF Inv, Orgs
  <2>3. QED
    BY <2>1, <2>2 DEF OneOrganisation
<1>3. QED
  BY <1>1, <1>2, Initial, Inductive, OrgsInductive, PTL DEF Spec

(***************************************************************************)
(* The API never resolves an address otherwise than before while the       *)
(* vertex it was resolved to lists it and was not folded.                  *)
(***************************************************************************)
THEOREM DecisionsStand == Spec => DecisionsKept
<1> DEFINE Kept == \A a \in Address :
               intact /\ proc # "script" /\ target[a] \in Adoptable /\ a \in entity[target[a]].emails
                   => target'[a] = target[a]
<1>1. Inv /\ HomeInv /\ [Next]_vars => [Kept]_vars
  <2> SUFFICES ASSUME Inv, HomeInv, [Next]_vars,
                      NEW a \in Address, intact, proc # "script",
                      target[a] \in Adoptable, a \in entity[target[a]].emails
               PROVE  target'[a] = target[a]
    OBVIOUS
  <2>1. \/ target' = target
        \/ target' = Decided(AddressesIn(doc)) /\ pc = "resolves"
    BY DEF Next, StartApi, StartCommit, Observe, Merge, WriteEntities, WriteResolutions, Fail, Stop,
           StartRebuild, RebuildEntities, RebuildDecisions, RecordCanonical, vars, graph
  <2>2. CASE target' = Decided(AddressesIn(doc)) /\ pc = "resolves"
    <3>1. proc = "api"
      BY <2>2 DEF Inv, TypeOK
    <3>2. target[a] \in DOMAIN people /\ a \in people[target[a]].emails
      BY <3>1 DEF HomeInv, Listed, Inv, PersistedStay
    <3>3. byEmail[a] = target[a]
      BY <3>2 DEF HomeInv, AddressLeadsHome
    <3>4. QED
      BY <2>2, <3>3 DEF Decided
  <2>3. QED
    BY <2>1, <2>2
<1>2. Spec => [](Inv /\ HomeInv)
  BY Initial, Inductive, InitialHome, HomeInductive, PTL DEF Spec
<1>3. Spec => [][Kept]_vars
  BY <1>1, <1>2, PTL DEF Spec
<1>4. QED
  BY <1>3 DEF DecisionsKept

=============================================================================
