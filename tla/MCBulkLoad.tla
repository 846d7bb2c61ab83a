----------------------------- MODULE MCBulkLoad -----------------------------
(***************************************************************************)
(* A slice for BulkLoad in which the graph's own decisions are evidence.   *)
(* d1 holds m1, an address of p1; m2, a bare name of p1 or p2; and m3, m4, *)
(* m5, one of p2 or p3 each.  Only p1 and p2 take part in d1's channel,    *)
(* through the addresses m1 and, in d2, m6; p3 is known from m7 in d3.     *)
(***************************************************************************)
EXTENDS BulkLoad, TLC

CONSTANTS d1, d2, d3, m1, m2, m3, m4, m5, m6, m7, p1, p2, p3, ch

Places    == [m \in Mention |-> IF m = m6 THEN d2 ELSE IF m = m7 THEN d3 ELSE d1]
Channels  == [d \in Doc |-> IF d = d3 THEN NoChannel ELSE ch]
Addresses == [m \in Mention |->
                IF m = m1 THEN p1 ELSE IF m = m6 THEN p2 ELSE IF m = m7 THEN p3 ELSE NoPerson]
Names     == [m \in Mention |->
                IF m = m2 THEN {p1, p2} ELSE IF m \in {m3, m4, m5} THEN {p2, p3} ELSE {}]
Nobody    == [m \in Mention |-> {}]

=============================================================================
