--------------------------- MODULE GraphEvidence ---------------------------
(***************************************************************************)
(* Who a mention refers to: the tiers of resolve.py decided in memory, and *)
(* those of graph_resolve.py decided by what the graph already holds.      *)
(*                                                                         *)
(* Names and addresses are abstracted to what the rules tell apart.  For a *)
(* mention m: AddressOf[m] is the person its e-mail address names, or      *)
(* NoPerson; MayBe[m] are the people whose token set contains every token  *)
(* of the surface; ShortFormOf[m] those whose name it plausibly shortens   *)
(* (same initial, a subsequence).                                          *)
(***************************************************************************)
EXTENDS Naturals, FiniteSets, Graph

CONSTANTS
    Doc,            \* the documents of the corpus
    Mention,        \* mentions the parsers find in them
    Person,         \* the people behind the mentions
    Channel,        \* channels documents belong to
    NoPerson,       \* "no identity": entity 0
    NoChannel,      \* the document belongs to no channel
    DocOf,          \* the document a mention stands in
    ChannelOf,      \* the channel of a document
    AddressOf, MayBe, ShortFormOf

ASSUME SentinelAssumption ==
    NoPerson \notin Person /\ NoChannel \notin Channel

ASSUME CorpusAssumption ==
    /\ DocOf \in [Mention -> Doc]
    /\ ChannelOf \in [Doc -> Channel \cup {NoChannel}]
    /\ AddressOf \in [Mention -> Person \cup {NoPerson}]
    /\ MayBe \in [Mention -> SUBSET Person]
    /\ ShortFormOf \in [Mention -> SUBSET Person]

MentionsIn(d) == {m \in Mention : DocOf[m] = d}

(* The people a document establishes: every address in it creates one. *)
PeopleIn(d) == {AddressOf[m] : m \in MentionsIn(d)} \ {NoPerson}

-----------------------------------------------------------------------------
(* Tiers 1 and 2, over the people the resolver knows. *)

CandidatesFor(people, m) == MayBe[m] \cap people

(* The person tiers 1 and 2 settle on, or NoPerson. *)
LexicalTarget(people, m) ==
    IF AddressOf[m] \in people THEN AddressOf[m]
    ELSE IF \E p \in people : CandidatesFor(people, m) = {p}
         THEN CHOOSE p \in people : CandidatesFor(people, m) = {p}
         ELSE NoPerson

-----------------------------------------------------------------------------
(* Tier 3: the evidence the graph holds for a person in a document. *)

Resolution(m, p) == Edge("RESOLVES_TO", Node("Mention", m), Node("Entity", p))

(***************************************************************************)
(* Mentions already resolved to p inside d.  Every RESOLVES_TO edge counts,*)
(* the ones of an earlier decision about the same mention included.        *)
(***************************************************************************)
CoOccurrence(g, p, d) ==
    Cardinality({m \in Mention :
        /\ Resolution(m, p) \in g.edges
        /\ Joined(g, "MENTIONED_IN", Node("Mention", m), Node("Document", d))})

Participation(g, p, d) ==
    IF ChannelOf[d] # NoChannel
       /\ Joined(g, "PARTICIPATED_IN", Node("Entity", p), Node("Channel", ChannelOf[d]))
    THEN 1 ELSE 0

Score(g, p, d) == 3 * CoOccurrence(g, p, d) + Participation(g, p, d)

(* The one candidate that outscores every other; a tie or no evidence decides nothing. *)
Winner(g, candidates, d) ==
    LET Wins(p) == /\ Score(g, p, d) > 0
                   /\ \A q \in candidates \ {p} : Score(g, p, d) > Score(g, q, d)
    IN  IF \E p \in candidates : Wins(p)
        THEN CHOOSE p \in candidates : Wins(p)
        ELSE NoPerson

(* Everyone the graph connects to the document or to its channel. *)
Connected(g, d) ==
    {p \in Person : CoOccurrence(g, p, d) > 0 \/ Participation(g, p, d) > 0}

(* The sole plausible person, sharing no token with the surface, whom the structure proposes. *)
Proposal(g, m) ==
    LET plausible == Connected(g, DocOf[m]) \cap ShortFormOf[m]
    IN  IF \E p \in plausible \ MayBe[m] : plausible = {p}
        THEN CHOOSE p \in plausible \ MayBe[m] : plausible = {p}
        ELSE NoPerson

(* What the graph tier makes of a mention the lexical tiers left open. *)
GraphTarget(g, people, m) ==
    IF CandidatesFor(people, m) = {}
    THEN Proposal(g, m)
    ELSE Winner(g, CandidatesFor(people, m), DocOf[m])

=============================================================================
