------------------------------ MODULE MCSweep ------------------------------
(***************************************************************************)
(* Three claims of two documents for Sweep: 1 and 3 agree, 2 contradicts   *)
(* both.  Claim 1 is about m1 and the others about m2, so whether 1 is a   *)
(* party to the dispute depends on whom the two mentions are recorded as.  *)
(***************************************************************************)
EXTENDS Sweep

CONSTANTS d1, d2, m1, m2, p1, p2

Places     == [m \in Mention |-> IF m = m1 THEN d1 ELSE d2]
NoChannels == [d \in Doc |-> NoChannel]
NoAddress  == [m \in Mention |-> NoPerson]
Nobody     == [m \in Mention |-> {}]
Origin     == [c \in Claim |-> IF c = 1 THEN d1 ELSE d2]
OwnSpan    == [c \in Claim |-> c]
Subject    == [c \in Claim |-> IF c = 1 THEN m1 ELSE m2]
SameName   == [c \in Claim |-> "name"]
SamePred   == [c \in Claim |-> "works_as"]
Values     == [c \in Claim |-> IF c = 2 THEN "engineer" ELSE "lead"]

=============================================================================
