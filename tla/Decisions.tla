----------------------------- MODULE Decisions -----------------------------
(***************************************************************************)
(* Ingest with a history variable: what each mention was ever decided to   *)
(* be.  The graph cannot tell a mention decided once from one decided      *)
(* again, for a decision overwrites the record of the one before it; and   *)
(* whether the disputes of its claims were compared under the identity it  *)
(* has now depends on exactly that.                                        *)
(***************************************************************************)
EXTENDS Ingest

VARIABLE decided    \* whom each mention was ever decided to be; NoPerson for nobody

(* What a mention's record says of its decision, between its pending and its next. *)
Decision(m) ==
    IF mention[m].status \in {"resolved", "unresolved"} THEN {IdentityOf(mention)[m]} ELSE {}

DecisionsInit == Init /\ decided = [m \in Mention |-> {}]

DecisionsNext == Next /\ decided' = [m \in Mention |-> decided[m] \cup Decision(m)']

DecisionsSpec == DecisionsInit /\ [][DecisionsNext]_<<vars, decided>>

(* No mention was decided twice with different outcomes. *)
Steadfast == \A m \in Mention : \A p, q \in decided[m] : p = q

(***************************************************************************)
(* With no failure, once no question is under way the disputes the graph   *)
(* holds are exactly the ones a pass over every claim detects, whatever    *)
(* order the questions' commits and reconciliations interleaved in: unless *)
(* a document two questions had in hand was committed twice and one of its *)
(* mentions decided differently, which its claims are not compared again   *)
(* for.                                                                    *)
(***************************************************************************)
GateExact ==
    Clean /\ Quiet /\ Steadfast =>
        Persisted(graph) = Detected(Visible(graph), IdentityOf(mention))

=============================================================================
