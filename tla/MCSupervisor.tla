---------------------------- MODULE MCSupervisor ----------------------------
(* Small instances of Supervisor for TLC. *)
EXTENDS Supervisor, TLC

CONSTANTS a, b, d, g1, g2

(* A group of three, and one of its slugs registered in another group.     *)
ThreeAndShared == {<<a, g1>>, <<b, g1>>, <<d, g1>>, <<a, g2>>}
(* One slug registered in two groups. *)
SharedSlug == {<<a, g1>>, <<a, g2>>}
(* One group of two. *)
Pair == {<<a, g1>>, <<b, g1>>}

(* ThreeAndShared treats b and d alike. *)
PeerSymmetry == Permutations(Streams) \cup Permutations({b, d})
=============================================================================
