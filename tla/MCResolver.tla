----------------------------- MODULE MCResolver -----------------------------
(***************************************************************************)
(* Four addresses for Resolver.  The domains of 1 and 3 spell one company  *)
(* in ways only the domain of 2 links; 4 is of another company.  2 is      *)
(* ana.li by its local part and 3 and 4 are called Ana Li; 1 is Ana Li in  *)
(* one document and Ana de Li, other tokens, in another, so that a rebuild *)
(* may fold 1 and a later one find it to be somebody of its own.           *)
(***************************************************************************)
EXTENDS Resolver

CONSTANTS d1, d2, d3

Locals   == [a \in Address |-> IF a = 2 THEN "ana li" ELSE "ana"]
Roots    == [a \in Address |-> CASE a = 1 -> 10 [] a = 2 -> 20 [] a = 3 -> 40 [] a = 4 -> 30]
Spelled  == {<<r, r>> : r \in Root} \cup {<<10, 20>>, <<20, 10>>, <<20, 40>>, <<40, 20>>}
At(a, s) == [address |-> a, surface |-> s]
Letters  == [d \in Doc |->
    CASE d = d1 -> <<At(1, "ana de li"), At(4, "ana li")>>
      [] d = d2 -> <<At(2, Bare), At(1, "ana li")>>
      [] d = d3 -> <<At(3, "ana li")>>]

=============================================================================
