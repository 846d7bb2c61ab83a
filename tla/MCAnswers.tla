----------------------------- MODULE MCAnswers -----------------------------
(***************************************************************************)
(* Two worker threads for Api over two documents that share a ticket: d1   *)
(* says that m1 leads, d2 says of the same name two other things.  Another *)
(* process may know more: claim 5, whose quote is not in d1, and claim 4   *)
(* of d3, which shares the ticket and is not in the corpus the API has.    *)
(***************************************************************************)
EXTENDS Api

CONSTANTS d1, d2, d3, t1, t2, m1, p1

Places     == [m \in Mention |-> d1]
NoChannels == [d \in Doc |-> NoChannel]
NoAddress  == [m \in Mention |-> NoPerson]
Nobody     == [m \in Mention |-> {}]
Origin     == [c \in Claim |-> CASE c \in {1, 5} -> d1 [] c = 4 -> d3 [] OTHER -> d2]
OwnSpan    == [c \in Claim |-> c]
Spans      == [c \in Claim |-> IF c = 2 THEN 2 ELSE 1]
Subject    == [c \in Claim |-> IF c = 1 THEN m1 ELSE NoMention]
SameName   == [c \in Claim |-> "name"]
SamePred   == [c \in Claim |-> "works_as"]
Values     == [c \in Claim |-> CASE c = 1 -> "lead" [] c = 2 -> "engineer" [] OTHER -> "manager"]
Tickets    == {<<d1, d2>>, <<d2, d1>>, <<d1, d3>>, <<d3, d1>>}

(* What each behaviour may hold: so many requests, and so much else beside them. *)
Load(asks, panels, probes, syntheses, faults, others) ==
    [ask |-> asks, conflicts |-> panels, status |-> probes, synthesis |-> syntheses,
     failure |-> faults, elsewhere |-> others]
Loads ==
    {Load(2, 0, 0, 0, 0, 0), Load(1, 0, 1, 1, 0, 0), Load(1, 0, 0, 1, 0, 1), Load(1, 0, 0, 1, 2, 0),
     Load(0, 2, 0, 0, 0, 2), Load(1, 1, 0, 0, 0, 0), Load(0, 1, 1, 0, 1, 1)}

T == INSTANCE TLC
Threads    == T!Permutations({t1, t2})

=============================================================================
