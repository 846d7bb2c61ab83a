------------------------------ MODULE MCIngest ------------------------------
(***************************************************************************)
(* Small corpora for Ingest.  In the first, two documents disagree about a *)
(* fact and one of them names a person; the second is the hard case of     *)
(* identity: a bare name that belongs to two people, in a channel.         *)
(***************************************************************************)
EXTENDS Ingest, TLC

CONSTANTS d1, d2, m1, m2, m3, p1, p2, ch

(* Claims 1 and 2 give one fact different values. *)
RivalDoc    == [c \in Claim |-> IF c = 1 THEN d1 ELSE d2]
OwnSpan     == [c \in Claim |-> c]
SameName    == [c \in Claim |-> "name"]
SamePred    == [c \in Claim |-> "works_as"]
Values      == [c \in Claim |-> IF c = 2 THEN "engineer" ELSE "lead"]
NoSubject   == [c \in Claim |-> NoMention]
OneTicket   == [d \in Doc |-> IF d = d2 THEN {"T-1"} ELSE {}]

(***************************************************************************)
(* d1 holds m1, an address of p1, and m2, a bare name; d2 holds m3, an     *)
(* address of p2.  Claim 1 is about m2, claim 2 about m3: whether they     *)
(* disagree depends on whom m2 turns out to be.                            *)
(***************************************************************************)
Places      == [m \in Mention |-> IF m = m3 THEN d2 ELSE d1]
Addresses   == [m \in Mention |-> IF m = m1 THEN p1 ELSE IF m = m3 THEN p2 ELSE NoPerson]
NoChannels  == [d \in Doc |-> NoChannel]
OneChannel  == [d \in Doc |-> ch]
BareSubject == [c \in Claim |-> IF c = 1 THEN m2 ELSE m3]
Nobody      == [m \in Mention |-> {}]

(* The bare name is a token of p2's name, and a plausible short form of p1's. *)
TokenOfOne   == [m \in Mention |-> IF m = m2 THEN {p2} ELSE {}]
ShortOfOther == [m \in Mention |-> IF m = m2 THEN {p1} ELSE {}]

(* Threads are interchangeable. *)
Threads == Permutations(Asks)

=============================================================================
