----------------------------- MODULE MCTopology -----------------------------
(* Small instances of Topology for TLC. *)
EXTENDS Topology, TLC

CONSTANTS a, b, g1

(* Two servers of one group. *)
Pair == {<<a, g1>>, <<b, g1>>}
=============================================================================
