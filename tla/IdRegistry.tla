----------------------------- MODULE IdRegistry -----------------------------
(***************************************************************************)
(* The id scheme and the registry of tracegraph/ids.py.  A vertex or an    *)
(* edge is named by its type and its natural key, in canonical spelling;   *)
(* its id is the digest of that name folded to 63 bits, so two names can   *)
(* have one id.  HydraDB finds a vertex by its id alone: the registry is   *)
(* what tells two names with one id apart, before anything is written.     *)
(***************************************************************************)
CONSTANTS
    Key,        \* names: a type and a canonical key, of vertices and of edges
    Fold,       \* the id of each name
    NoKey

Id == {Fold[k] : k \in Key}

ASSUME RegistryAssumption ==
    /\ Fold \in [Key -> Id]
    /\ NoKey \notin Key

VARIABLE ids    \* the name each id was minted for, or NoKey

(* Mutant: the conflict that INSERT OR IGNORE swallows is not looked for. *)
CollidesUnverified(batch) == FALSE

(***************************************************************************)
(* What _verify finds after the insert: an id that was minted for another  *)
(* name, by an earlier batch or by a row of this one.                      *)
(***************************************************************************)
Collides(batch) ==
    \E k \in batch :
        \/ ids[Fold[k]] \notin {NoKey, k}
        \/ \E l \in batch : l # k /\ Fold[l] = Fold[k]

(* INSERT OR IGNORE: the first name offered for an id keeps it. *)
Inserted(batch) ==
    [i \in Id |->
        IF ids[i] # NoKey \/ \A k \in batch : Fold[k] # i
        THEN ids[i]
        ELSE CHOOSE k \in batch : Fold[k] = i]

(* register_many: one transaction, which a collision rolls back whole. *)
RegisterMany(batch) ==
    /\ ~ Collides(batch)
    /\ ids' = Inserted(batch)

Registered(k) == ids[Fold[k]] = k

=============================================================================
