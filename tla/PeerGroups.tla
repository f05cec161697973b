----------------------------- MODULE PeerGroups -----------------------------
(***************************************************************************)
(* What the supervisor promises to repository servers, without streams,    *)
(* tasks, tables or frames: each slug of each group is held by at most one *)
(* member, and every member that is still there sees, at once, exactly the *)
(* other slugs of its group.  Supervisor implements it: the frames on a    *)
(* member's stream, read in order, are its view.                           *)
(***************************************************************************)
CONSTANTS
    Slugs, Groups,
    Members,   \* one per connection of a server
    Nobody     \* a slug that no member holds

VARIABLES
    occupant,  \* group -> slug -> the member that holds it, or Nobody
    view,      \* the slugs each member believes to be its peers
    gone       \* members that have left or died, noticed or not

vars == <<occupant, view, gone>>

Holds(m, g, s) == occupant[g][s] = m
InGroup(m, g) == \E s \in Slugs : Holds(m, g, s)
OtherSlugs(g, s) == {t \in Slugs \ {s} : occupant[g][t] # Nobody}

Init ==
    /\ occupant = [g \in Groups |-> [s \in Slugs |-> Nobody]]
    /\ view = [m \in Members |-> {}]
    /\ gone = {}

(* A free slug is taken; those present learn of it, the newcomer of them.  *)
Join(m, g, s) ==
    /\ occupant[g][s] = Nobody
    /\ m \notin gone
    /\ \A h \in Groups : ~InGroup(m, h)
    /\ view' = [k \in Members |->
                  IF k = m THEN OtherSlugs(g, s)
                  ELSE IF InGroup(k, g) /\ k \notin gone THEN view[k] \cup {s}
                  ELSE view[k]]
    /\ occupant' = [occupant EXCEPT ![g][s] = m]
    /\ UNCHANGED gone

(* The member's process ends, or it closes its stream. *)
Die(m) ==
    /\ m \notin gone
    /\ gone' = gone \cup {m}
    /\ UNCHANGED <<occupant, view>>

(* A slug is freed only when its member is gone. *)
Remove(m, g, s) ==
    /\ Holds(m, g, s)
    /\ m \in gone
    /\ occupant' = [occupant EXCEPT ![g][s] = Nobody]
    /\ view' = [k \in Members |->
                  IF k # m /\ InGroup(k, g) /\ k \notin gone THEN view[k] \ {s}
                  ELSE view[k]]
    /\ UNCHANGED gone

(* The service restarts: all are out and must join again. *)
Reset ==
    /\ occupant' = [g \in Groups |-> [s \in Slugs |-> Nobody]]
    /\ UNCHANGED <<view, gone>>

Next ==
    \/ Reset
    \/ \E m \in Members : Die(m)
    \/ \E m \in Members, g \in Groups, s \in Slugs : Join(m, g, s) \/ Remove(m, g, s)

Spec == Init /\ [][Next]_vars

(* A member that is gone does not keep its slug forever. *)
Fairness ==
    \A m \in Members, g \in Groups, s \in Slugs : WF_vars(Remove(m, g, s))

FairSpec == Spec /\ Fairness
=============================================================================
