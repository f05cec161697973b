------------------------------ MODULE MCSession ------------------------------
(* A peer joins and leaves while two clients come and go. *)
EXTENDS Session, TLC

CONSTANTS k1, k2

(* The slug "b", which makes the shortest payload, and a longer one.       *)
JoinAndLeave ==
    << [variant |-> 0, slugLen |-> 1, firstByte |-> 98],
       [variant |-> 1, slugLen |-> 6, firstByte |-> 115] >>
=============================================================================
