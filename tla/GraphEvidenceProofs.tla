------------------------ MODULE GraphEvidenceProofs ------------------------
(***************************************************************************)
(* Whom the tiers of identity resolution can choose: lemmas for the proofs *)
(* about the ingestor and about the bulk build.                            *)
(***************************************************************************)
EXTENDS GraphEvidence, TLAPS

(* The lexical tiers choose among the people they are given. *)
LEMMA LexicalTargetKnown ==
    ASSUME NEW m \in Mention, NEW P, LexicalTarget(P, m) # NoPerson
    PROVE  LexicalTarget(P, m) \in P
<1>1. CASE AddressOf[m] \in P
  BY <1>1 DEF LexicalTarget
<1>2. CASE AddressOf[m] \notin P
  <2>1. \E p \in P : CandidatesFor(P, m) = {p}
    BY <1>2 DEF LexicalTarget
  <2>2. (CHOOSE p \in P : CandidatesFor(P, m) = {p}) \in P
    BY <2>1
  <2>3. QED
    BY <1>2, <2>1, <2>2 DEF LexicalTarget
<1>3. QED
  BY <1>1, <1>2

(* Scoring decides for one of the candidates, if for anybody. *)
LEMMA WinnerTyped ==
    ASSUME NEW g, NEW d, NEW C, Winner(g, C, d) # NoPerson
    PROVE  Winner(g, C, d) \in C
<1> DEFINE Wins(p) == /\ Score(g, p, d) > 0
                      /\ \A q \in C \ {p} : Score(g, p, d) > Score(g, q, d)
<1>1. Winner(g, C, d) = IF \E p \in C : Wins(p) THEN CHOOSE p \in C : Wins(p) ELSE NoPerson
  BY Zenon DEF Winner
<1> HIDE DEF Wins
<1>2. \E p \in C : Wins(p)
  BY <1>1
<1>3. QED
  BY <1>1, <1>2

(* The structure proposes only somebody it connects to the document. *)
LEMMA ProposalTyped ==
    ASSUME NEW g, NEW m, Proposal(g, m) # NoPerson
    PROVE  Proposal(g, m) \in Connected(g, DocOf[m])
<1> DEFINE plausible == Connected(g, DocOf[m]) \cap ShortFormOf[m]
<1>1. Proposal(g, m) = IF \E p \in plausible \ MayBe[m] : plausible = {p}
                       THEN CHOOSE p \in plausible \ MayBe[m] : plausible = {p} ELSE NoPerson
  BY Zenon DEF Proposal
<1>2. \E p \in plausible \ MayBe[m] : plausible = {p}
  BY <1>1
<1>3. Proposal(g, m) \in plausible
  BY <1>1, <1>2
<1>4. QED
  BY <1>3

=============================================================================
