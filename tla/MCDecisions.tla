---------------------------- MODULE MCDecisions ----------------------------
(***************************************************************************)
(* The corpora of MCIngest for Decisions.                                  *)
(***************************************************************************)
EXTENDS MCIngest, Decisions

=============================================================================
