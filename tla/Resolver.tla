------------------------------ MODULE Resolver ------------------------------
(***************************************************************************)
(* The identities of people: resolve.py's Resolver as the API keeps it in  *)
(* memory (observe, merge_same_person, adopt), the Entity vertices it is   *)
(* rebuilt from after a restart (ingest.py), and the rebuild of            *)
(* scripts/37_rebuild_resolution.py, which alone folds identities the      *)
(* graph already holds.                                                    *)
(*                                                                         *)
(* A person's key is the address that first named it, so keys are          *)
(* addresses.  Addresses are numbers in the order their keys sort.         *)
(***************************************************************************)
EXTENDS Naturals, FiniteSets, Sequences

CONSTANTS
    Address,
    Doc,
    NoKey, NoDoc,
    Name,           \* token sets a name or a local part can reduce to
    Full,           \* those of two tokens or more
    Bare,           \* the surface is the address itself
    LocalName,      \* what the local part of an address reduces to
    Root,           \* organisation roots, numbers in the order their domains sort
    NoRoot,
    RootOf,         \* the root of an address's domain
    SameOrg,        \* pairs of roots one of which extends the other
    Mentions,       \* of each document: its addresses and their surfaces, in order
    EmailCap,       \* addresses, and domains, that fit in an Entity's property
    DomainCap,
    MaxCommits, MaxFailures, MaxKills, MaxRebuilds      \* bounds of the model

ASSUME AddressAssumption ==
    /\ Address \subseteq Nat /\ IsFiniteSet(Address)
    /\ NoKey \notin Address /\ NoDoc \notin Doc
    /\ Full \subseteq Name /\ Bare \notin Name
    /\ LocalName \in [Address -> Name]
    /\ Root \subseteq Nat /\ NoRoot \notin Root /\ RootOf \in [Address -> Root \cup {NoRoot}]
    /\ SameOrg \subseteq Root \X Root
    /\ \A r, s \in Root : <<r, s>> \in SameOrg => <<s, r>> \in SameOrg
    /\ \A r \in Root : <<r, r>> \in SameOrg
    /\ Mentions \in [Doc -> Seq([address : Address, surface : Name \cup {Bare}])]
    /\ {EmailCap, DomainCap, MaxCommits, MaxFailures, MaxKills, MaxRebuilds} \subseteq Nat

VARIABLES
    proc,       \* which process runs: "none", the "api" or the rebuild "script"
    people,     \* its resolver's people, by key
    byEmail,    \* the key an address leads to
    adopted,    \* keys the API knows to be vertices: never folded away
    pc, doc, at,    \* where it is, the document it commits, the next mention
    entity,     \* the Entity vertices, by key
    merged,     \* MERGED_INTO
    target,     \* the identity mentions of an address were last resolved to
    stored,     \* documents with a vertex
    canonical,  \* nothing was written since a rebuild ended
    intact,     \* since then no write failed and was applied, and no rebuild was killed
    commits, failures, kills, rebuilds

memory == <<people, byEmail, adopted>>
graph  == <<entity, merged, target, stored>>
noted  == <<canonical, intact>>
count  == <<commits, failures, kills, rebuilds>>
vars   == <<proc, memory, pc, doc, at, graph, noted, count>>

Surface == Name \cup {Bare}
Record  == [name : Surface, emails : SUBSET Address, roots : SUBSET Root]

AddressesIn(d) == {Mentions[d][i].address : i \in 1 .. Len(Mentions[d])}

RootsOf(a) == {RootOf[a]} \ {NoRoot}

NoPeople  == [k \in {} |-> k]
Nobody    == [a \in Address |-> NoKey]

-----------------------------------------------------------------------------
(* merge_same_person. *)

(* Who a person is by name. *)
Signature(p, k) == IF p[k].name = Bare THEN LocalName[k] ELSE p[k].name

(* Mutant: a shared full name is enough. *)
AlikeByName(p, j, k) == Signature(p, j) = Signature(p, k) /\ Signature(p, j) \in Full

(* The same full name, at the same organisation. *)
Alike(p, j, k) ==
    /\ Signature(p, j) = Signature(p, k) /\ Signature(p, j) \in Full
    /\ \E r \in p[j].roots, s \in p[k].roots : <<r, s>> \in SameOrg

(***************************************************************************)
(* _by_organisation, over keys in sorted order: a key joins the first      *)
(* group with a member like it, or starts a group; g leads from each key   *)
(* to the first of its group.  There is one such g.                        *)
(***************************************************************************)
IsGrouping(p, g) ==
    \A k \in DOMAIN p :
        LET joinable == {l \in DOMAIN p : l < k /\ g[l] = l /\ \E j \in DOMAIN p : j < k /\ g[j] = l /\ Alike(p, j, k)}
        IN  IF joinable = {} THEN g[k] = k
            ELSE g[k] \in joinable /\ \A l \in joinable : g[k] <= l

(* Mutant: the first key of a group survives, whoever is protected. *)
SurvivorsFirst(g, protected) == g

(* _merge_group: whom each key is folded into; two protected keys keep their group apart. *)
Survivors(g, protected) ==
    [k \in DOMAIN g |->
        LET anchors == {j \in DOMAIN g : g[j] = g[k]} \cap protected
        IN  IF anchors = {} THEN g[k]
            ELSE IF \E j \in anchors : anchors = {j} THEN CHOOSE j \in anchors : TRUE
            ELSE k]

Fold(p, s) ==
    [k \in {j \in DOMAIN p : s[j] = j} |->
        [name   |-> p[k].name,
         emails |-> UNION {p[j].emails : j \in {i \in DOMAIN p : s[i] = k}},
         roots  |-> UNION {p[j].roots  : j \in {i \in DOMAIN p : s[i] = k}}]]

(* Mutant: the addresses of a folded person still lead to it. *)
ReaddressedNot(p, s, lead) == lead

(* Every address of a folded person leads to the survivor. *)
Readdressed(p, s, lead) ==
    [a \in Address |->
        IF \E j \in DOMAIN p : s[j] # j /\ a \in p[j].emails
        THEN s[CHOOSE j \in DOMAIN p : s[j] # j /\ a \in p[j].emails]
        ELSE lead[a]]

-----------------------------------------------------------------------------
(* pack: the first values, in order, that fit. *)
Packed(values, cap) == {v \in values : Cardinality({w \in values : w < v}) < cap}

(* Mutant: everything is written. *)
RowWhole(person) == person

(* What an Entity vertex holds of a person. *)
Row(person) ==
    [name   |-> person.name,
     emails |-> Packed(person.emails, EmailCap),
     roots  |-> Packed(person.roots, DomainCap)]

(* Vertices of some keys are written over, the others stay. *)
WithRows(keys) ==
    [k \in DOMAIN entity \cup keys |-> IF k \in keys THEN Row(people[k]) ELSE entity[k]]

Superseded == {k \in DOMAIN entity : \E into \in Address : <<k, into>> \in merged}

-----------------------------------------------------------------------------
Init ==
    /\ proc = "none" /\ people = NoPeople /\ byEmail = Nobody /\ adopted = {}
    /\ pc = "idle" /\ doc = NoDoc /\ at = 1
    /\ entity = NoPeople /\ merged = {} /\ target = Nobody /\ stored = {}
    /\ canonical = FALSE /\ intact = TRUE
    /\ commits = 0 /\ failures = 0 /\ kills = 0 /\ rebuilds = 0

(* Mutant: identities folded into another are adopted again. *)
AdoptableAll == DOMAIN entity

(* _adopt_known: the vertices that were not folded into another. *)
Adoptable == DOMAIN entity \ Superseded

(* Whom each address leads to: the people are adopted in the order of their keys, the last wins. *)
IsLead(lead) ==
    \A a \in Address :
        LET holders == {k \in Adoptable : a \in entity[k].emails}
        IN  IF holders = {} THEN lead[a] = NoKey
            ELSE lead[a] \in holders /\ \A j \in holders : j <= lead[a]

(* The API starts and builds its resolver. *)
StartApi ==
    /\ proc = "none"
    /\ proc' = "api"
    /\ adopted' = Adoptable
    /\ people' = [k \in adopted' |-> entity[k]]
    /\ byEmail' \in {lead \in [Address -> Address \cup {NoKey}] : IsLead(lead)}
    /\ UNCHANGED <<pc, doc, at, graph, noted, count>>

(* A commit: the document's vertex is written, and its people are observed. *)
StartCommit(d) ==
    /\ proc = "api" /\ pc = "idle" /\ commits < MaxCommits
    /\ commits' = commits + 1
    /\ stored' = stored \cup {d}
    /\ pc' = "observe" /\ doc' = d /\ at' = 1
    /\ UNCHANGED <<proc, memory, entity, merged, target, noted, failures, kills, rebuilds>>

(* The person an address is observed as. *)
KeyFor(a) == IF byEmail[a] # NoKey THEN byEmail[a] ELSE a

(* A name is preferred to a bare address as the label. *)
Labelled(old, surface) == IF old = Bare THEN surface ELSE old

(* _observe_person. *)
Observe ==
    /\ pc = "observe" /\ at <= Len(Mentions[doc])
    /\ LET a == Mentions[doc][at].address
           surface == Mentions[doc][at].surface
           k == KeyFor(a)
           old == IF k \in DOMAIN people THEN people[k]
                  ELSE [name |-> surface, emails |-> {}, roots |-> {}]
       IN  /\ people' = [j \in DOMAIN people \cup {k} |->
                 IF j = k
                 THEN [name   |-> Labelled(old.name, surface),
                       emails |-> old.emails \cup {a},
                       roots  |-> old.roots \cup RootsOf(a)]
                 ELSE people[j]]
           /\ byEmail' = [byEmail EXCEPT ![a] = k]
    /\ at' = at + 1
    /\ UNCHANGED <<proc, adopted, pc, doc, graph, noted, count>>

(* merge_same_person(protected=self._adopted). *)
Merge ==
    /\ pc = "observe" /\ at > Len(Mentions[doc])
    /\ \E g \in [DOMAIN people -> DOMAIN people] :
        /\ IsGrouping(people, g)
        /\ LET s == Survivors(g, adopted)
           IN  /\ people' = Fold(people, s)
               /\ byEmail' = Readdressed(people, s, byEmail)
    /\ pc' = "entities"
    /\ UNCHANGED <<proc, adopted, doc, at, graph, noted, count>>

(* Whom the document touches: those its addresses lead to, and candidates for its other surfaces. *)
Touched == {{byEmail[a] : a \in AddressesIn(doc)} \cup candidates : candidates \in SUBSET DOMAIN people}

WriteEntities ==
    /\ pc = "entities"
    /\ \E touched \in Touched :
        /\ entity' = WithRows(touched)
        /\ adopted' = adopted \cup touched
    /\ canonical' = FALSE
    /\ pc' = "resolves"
    /\ UNCHANGED <<proc, people, byEmail, doc, at, merged, target, stored, intact, count>>

(* Mentions with an address are resolved outright. *)
Decided(addresses) == [a \in Address |-> IF a \in addresses THEN byEmail[a] ELSE target[a]]

WriteResolutions ==
    /\ pc = "resolves"
    /\ target' = Decided(AddressesIn(doc))
    /\ canonical' = FALSE
    /\ pc' = "idle" /\ doc' = NoDoc /\ at' = 1
    /\ UNCHANGED <<proc, memory, entity, merged, stored, intact, count>>

(* A write that raises, applied or not: the commit gives up, the memory stays as it is. *)
Fail ==
    /\ proc = "api" /\ pc \in {"entities", "resolves"} /\ failures < MaxFailures
    /\ failures' = failures + 1
    /\ \/ UNCHANGED <<entity, target, noted>>
       \/ /\ pc = "entities" /\ \E touched \in Touched : entity' = WithRows(touched)
          /\ canonical' = FALSE /\ intact' = FALSE /\ UNCHANGED target
       \/ /\ pc = "resolves" /\ target' = Decided(AddressesIn(doc))
          /\ canonical' = FALSE /\ UNCHANGED <<entity, intact>>
    /\ pc' = "idle" /\ doc' = NoDoc /\ at' = 1
    /\ UNCHANGED <<proc, memory, merged, stored, commits, kills, rebuilds>>

(* The process ends, or is killed: what it had in memory is gone. *)
Stop ==
    /\ proc # "none"
    /\ kills < MaxKills
    /\ kills' = kills + 1
    /\ proc' = "none" /\ people' = NoPeople /\ byEmail' = Nobody /\ adopted' = {}
    /\ pc' = "idle" /\ doc' = NoDoc /\ at' = 1
    /\ intact' = (intact /\ (proc = "script" => pc = "idle"))
    /\ UNCHANGED <<graph, canonical, commits, failures, rebuilds>>

-----------------------------------------------------------------------------
(* The rebuild, run while the API does not. *)

(* Everybody the stored documents name. *)
Named == UNION {AddressesIn(d) : d \in stored}

SurfacesOf(a) ==
    {n \in Surface : \E d \in stored : \E i \in 1 .. Len(Mentions[d]) :
        Mentions[d][i] = [address |-> a, surface |-> n]}

(***************************************************************************)
(* Every document is observed anew, in the order the graph returns them -  *)
(* so a person's label is any of its names - and merged with nobody        *)
(* protected.                                                              *)
(***************************************************************************)
StartRebuild ==
    /\ proc = "none" /\ stored # {} /\ rebuilds < MaxRebuilds
    /\ rebuilds' = rebuilds + 1
    /\ proc' = "script" /\ pc' = "rewrite"
    /\ \E label \in [Named -> Surface] :
        /\ \A a \in Named :
            IF SurfacesOf(a) = {Bare} THEN label[a] = Bare ELSE label[a] \in SurfacesOf(a) \ {Bare}
        /\ LET seen == [a \in Named |-> [name |-> label[a], emails |-> {a}, roots |-> RootsOf(a)]]
               own  == [a \in Address |-> IF a \in Named THEN a ELSE NoKey]
           IN  \E g \in [Named -> Named] :
                /\ IsGrouping(seen, g)
                /\ people' = Fold(seen, Survivors(g, {}))
                /\ byEmail' = Readdressed(seen, Survivors(g, {}), own)
    /\ UNCHANGED <<adopted, doc, at, graph, noted, commits, failures, kills>>

(* The vertices of its people, in batches. *)
RebuildEntities ==
    /\ proc = "script" /\ pc = "rewrite"
    /\ \E batch \in SUBSET DOMAIN people :
        /\ entity' = WithRows(batch)
        /\ pc' = IF batch = DOMAIN people THEN "decide" ELSE "rewrite"
    /\ canonical' = FALSE
    /\ UNCHANGED <<proc, memory, doc, at, merged, target, stored, intact, count>>

(* Old edges deleted, new ones written, statuses, and mentions of folded identities moved. *)
RebuildDecisions ==
    /\ proc = "script" /\ pc = "decide"
    /\ target' = Decided(Named)
    /\ canonical' = FALSE
    /\ pc' = "record"
    /\ UNCHANGED <<proc, memory, doc, at, entity, merged, stored, intact, count>>

(* record_canonical: every vertex that is not a live identity, and whose address leads to one. *)
Folded == {<<k, byEmail[k]>> : k \in {j \in DOMAIN entity \ DOMAIN people : byEmail[j] # NoKey}}

RecordCanonical ==
    /\ proc = "script" /\ pc = "record"
    /\ merged' = merged \cup Folded
    /\ canonical' = TRUE /\ intact' = TRUE
    /\ pc' = "idle"
    /\ UNCHANGED <<proc, memory, doc, at, entity, target, stored, count>>

Next ==
    \/ StartApi \/ Observe \/ Merge \/ WriteEntities \/ WriteResolutions \/ Fail \/ Stop
    \/ StartRebuild \/ RebuildEntities \/ RebuildDecisions \/ RecordCanonical
    \/ \E d \in Doc : StartCommit(d)

Spec == Init /\ [][Next]_vars

-----------------------------------------------------------------------------
(***************************************************************************)
(* Two addresses of one organisation: their roots are linked, perhaps      *)
(* through others.  A root may extend another that a third extends too, so *)
(* SameOrg alone does not say who may be merged.                           *)
(***************************************************************************)
Colleagues(a, b) ==
    \/ a = b
    \/ /\ RootOf[a] \in Root
       /\ \A company \in SUBSET Root :
            (RootOf[a] \in company /\ \A pair \in SameOrg : pair[1] \in company => pair[2] \in company)
                => RootOf[b] \in company

(***************************************************************************)
(* Type correctness; a commit is under way exactly when the API has a      *)
(* document, and a vertex never holds more than fits.                      *)
(***************************************************************************)
TypeOK ==
    /\ proc \in {"none", "api", "script"}
    /\ \E keys \in SUBSET Address : people \in [keys -> Record]
    /\ byEmail \in [Address -> Address \cup {NoKey}]
    /\ adopted \subseteq Address /\ (adopted # {} => proc = "api")
    /\ pc \in {"idle", "observe", "entities", "resolves", "rewrite", "decide", "record"}
    /\ doc \in Doc \cup {NoDoc} /\ at \in Nat \ {0}
    /\ doc # NoDoc <=> pc \in {"observe", "entities", "resolves"}
    /\ doc # NoDoc => proc = "api"
    /\ pc \in {"rewrite", "decide", "record"} => proc = "script"
    /\ \E keys \in SUBSET Address : entity \in [keys -> Record]
    /\ \A k \in DOMAIN entity : \A a \in entity[k].emails :
        Cardinality({b \in entity[k].emails : b < a}) < EmailCap
    /\ merged \subseteq Address \X Address
    /\ target \in [Address -> Address \cup {NoKey}]
    /\ stored \subseteq Doc /\ canonical \in BOOLEAN /\ intact \in BOOLEAN

(***************************************************************************)
(* Unless a failed write was applied or a rebuild killed: an address the   *)
(* resolver knows leads to a living person who holds it,                   *)
(* and nobody else holds it: no merge, adoption or restart leaves an       *)
(* address on two people or on one that was folded away.                   *)
(***************************************************************************)
AddressLeadsHome ==
    intact => \A a \in Address, k \in DOMAIN people :
        a \in people[k].emails <=> byEmail[a] = k

(* What the API adopted or wrote is never folded into somebody else while it runs. *)
PersistedStay == adopted \subseteq DOMAIN people

(***************************************************************************)
(* Everybody's addresses belong to one organisation, in memory and in the  *)
(* graph: people of different companies who share a name stay apart, their *)
(* vertices too.                                                           *)
(***************************************************************************)
OneOrganisation ==
    /\ \A k \in DOMAIN people : \A a, b \in people[k].emails \cup {k} : Colleagues(a, b)
    /\ \A k \in DOMAIN entity : \A a, b \in entity[k].emails \cup {k} : Colleagues(a, b)

(***************************************************************************)
(* After a rebuild, no two identities a restart would adopt have one full  *)
(* name and one organisation.                                              *)
(***************************************************************************)
OneIdentityPerOrganisation ==
    canonical => \A j, k \in Adoptable :
        /\ entity[j].name = entity[k].name /\ entity[j].name \in Full
        /\ <<RootOf[j], RootOf[k]>> \in SameOrg
        => j = k

(***************************************************************************)
(* New mentions of an address are resolved as its earlier ones were,       *)
(* through merges, failures and restarts, as long as the vertex they lead  *)
(* to lists the address and is not marked as folded; only the rebuild      *)
(* changes that.                                                           *)
(***************************************************************************)
DecisionsKept ==
    [][\A a \in Address :
        intact /\ proc # "script" /\ target[a] \in Adoptable /\ a \in entity[target[a]].emails
            => target'[a] = target[a]]_vars

=============================================================================
