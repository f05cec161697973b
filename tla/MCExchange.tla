----------------------------- MODULE MCExchange -----------------------------
(* Two repositories, one of which has an issue to submit. *)
EXTENDS Exchange, TLC

CONSTANTS k1, k2, x, y

ClientSymmetry == Permutations(Clients) \cup Permutations(Results)
=============================================================================
