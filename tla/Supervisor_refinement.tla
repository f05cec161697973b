------------------------ MODULE Supervisor_refinement ------------------------
(***************************************************************************)
(* Proof that the supervisor implements the safety part of PeerGroups: an  *)
(* accepted registration is a Join, a handled departure a Remove, the end  *)
(* of a server a Die, a crash a Reset, and every other step is invisible.  *)
(***************************************************************************)
EXTENDS Supervisor_proofs

-----------------------------------------------------------------------------
(* The refinement mapping *)

(* An occupant is a connection of that group and slug. *)
LEMMA OccupantIs ==
    ASSUME IInv, NEW m \in Streams, NEW g \in Groups
    PROVE  /\ \A s \in Slugs :
                AbstractOccupant[g][s] = m <=>
                  \E id \in DOMAIN conns :
                     conns[id].stream = m /\ conns[id].group = g /\ conns[id].slug = s
           /\ Abstract!InGroup(m, g) <=>
                \E id \in DOMAIN conns : conns[id].stream = m /\ conns[id].group = g
<1>1. ASSUME NEW s \in Slugs
      PROVE  AbstractOccupant[g][s] = m <=>
               \E id \in DOMAIN conns :
                  conns[id].stream = m /\ conns[id].group = g /\ conns[id].slug = s
  <2>1. AbstractOccupant[g][s] = IF Present(g, s) THEN conns[groups[g][s]].stream ELSE NoId
    BY DEF AbstractOccupant
  <2>2. CASE Present(g, s)
    <3>1. /\ groups[g][s] \in DOMAIN conns
          /\ conns[groups[g][s]].slug = s
          /\ conns[groups[g][s]].group = g
      BY <2>2 DEF IInv, TablesAgree
    <3>2. \A id \in DOMAIN conns :
             conns[id].group = g /\ conns[id].slug = s => id = groups[g][s]
      BY DEF IInv, TablesAgree
    <3> QED
      BY <2>1, <2>2, <3>1, <3>2
  <2>3. CASE ~Present(g, s)
    <3>1. ASSUME NEW id \in DOMAIN conns, conns[id].group = g, conns[id].slug = s
          PROVE  FALSE
      <4>1. groups[g][s] = id /\ id \in Nat
        BY <3>1 DEF IInv, TablesAgree, TypeOK
      <4> QED
        BY <4>1, <2>3 DEF Present, NoId
    <3> QED
      BY <2>1, <2>3, <3>1, StreamsAssumption
  <2> QED
    BY <2>2, <2>3
<1>2. \A id \in DOMAIN conns : conns[id].slug \in Slugs
  BY DEF IInv, TypeOK, ConnRecord
<1> QED
  BY <1>1, <1>2 DEF Abstract!InGroup, Abstract!Holds

(* A slug has no occupant exactly when it is not in the table. *)
LEMMA VacantIs ==
    ASSUME IInv, NEW g \in Groups, NEW s \in Slugs
    PROVE  AbstractOccupant[g][s] = NoId <=> ~Present(g, s)
<1>1. AbstractOccupant[g][s] = IF Present(g, s) THEN conns[groups[g][s]].stream ELSE NoId
  BY DEF AbstractOccupant
<1>2. Present(g, s) => conns[groups[g][s]].stream \in Streams
  BY DEF IInv, TablesAgree, TypeOK, ConnRecord
<1> QED
  BY <1>1, <1>2, StreamsAssumption

(* A connection is of a stream that is open or gone. *)
LEMMA ConnectedOrGone ==
    ASSUME IInv, NEW id \in DOMAIN conns
    PROVE  /\ conns[id].stream \in Streams
           /\ remote[conns[id].stream] = "open" <=> conns[id].stream \notin AbstractGone
<1>1. conns[id].stream \in Streams /\ holder[conns[id].stream] = "conns"
  BY DEF IInv, TypeOK, ConnRecord, StreamsOwned
<1>2. remote[conns[id].stream] \in {"open", "closed"}
  BY <1>1 DEF IInv, TypeOK, StreamsOwned
<1> QED
  BY <1>1, <1>2 DEF AbstractGone

LEMMA ViewIs == AbstractView = [m \in Streams |-> {t \in Slugs : Belief(sent[m], t)}]
  BY DEF AbstractView, Believes, Belief

(* Two tables that differ in one entry. *)
LEMMA OneEntry ==
    ASSUME NEW A, NEW B, NEW old, NEW new, NEW a \in A, NEW b \in B, NEW v,
           old = [x \in A |-> [y \in B |-> old[x][y]]],
           new = [x \in A |-> [y \in B |-> new[x][y]]],
           \A x \in A, y \in B : new[x][y] = IF x = a /\ y = b THEN v ELSE old[x][y]
    PROVE  new = [old EXCEPT ![a][b] = v]
  OBVIOUS

LEMMA OccupantTable ==
    AbstractOccupant = [g \in Groups |-> [s \in Slugs |-> AbstractOccupant[g][s]]]
  BY DEF AbstractOccupant

-----------------------------------------------------------------------------
(* The steps that are visible *)

(* An accepted registration joins its stream to its group. *)
LEMMA AcceptJoins ==
    ASSUME IInv, FramesInv, NEW c \in Streams, HandleRegistration(c),
           NEW s \in Slugs, NEW g \in Groups, ~Duplicate(g, s),
           AcceptRegistration(c, s, g)
    PROVE  Abstract!Join(c, g, s)
<1>1. /\ UNCHANGED remote
      /\ remote[c] = "open"
      /\ groups' = [groups EXCEPT ![g][s] = nextId]
      /\ conns' = [i \in DOMAIN conns \cup {nextId} |->
                     IF i = nextId THEN [slug |-> s, group |-> g, stream |-> c] ELSE conns[i]]
  BY DEF HandleRegistration, AcceptRegistration, FreshId
<1>2. /\ nextId \in Nat /\ nextId \notin DOMAIN conns /\ nextId # NoId
      /\ \A id \in DOMAIN conns : conns[id].stream # c
  BY HandledIsNew DEF HandleRegistration, IInv, TypeOK, NoId
<1>3. AbstractOccupant[g][s] = NoId
  BY VacantIs DEF Duplicate
<1>4. c \notin AbstractGone /\ AbstractGone' = AbstractGone
  BY <1>1 DEF AbstractGone
<1>5. \A h \in Groups : ~Abstract!InGroup(c, h)
  BY <1>2, OccupantIs
<1>6. AbstractOccupant' = [AbstractOccupant EXCEPT ![g][s] = c]
  <2>1. ASSUME NEW h \in Groups, NEW t \in Slugs
        PROVE  AbstractOccupant'[h][t] =
                 IF h = g /\ t = s THEN c ELSE AbstractOccupant[h][t]
    <3>1. /\ AbstractOccupant[h][t] =
               IF groups[h][t] # NoId THEN conns[groups[h][t]].stream ELSE NoId
          /\ AbstractOccupant'[h][t] =
               IF groups'[h][t] # NoId THEN conns'[groups'[h][t]].stream ELSE NoId
      BY DEF AbstractOccupant, Present
    <3>2. groups'[h][t] = IF h = g /\ t = s THEN nextId ELSE groups[h][t]
      BY <1>1 DEF IInv, TypeOK
    <3>3. groups[h][t] # NoId => groups[h][t] \in DOMAIN conns
      BY DEF IInv, TablesAgree, Present
    <3> QED
      BY <3>1, <3>2, <3>3, <1>1, <1>2
  <2>2. AbstractOccupant' = [h \in Groups |-> [t \in Slugs |-> AbstractOccupant'[h][t]]]
    BY DEF AbstractOccupant
  <2> HIDE DEF AbstractOccupant
  <2> QED
    BY <2>1, <2>2, OccupantTable, OneEntry
<1>7. ASSUME NEW k \in Streams
      PROVE  AbstractView'[k] =
               IF k = c THEN Abstract!OtherSlugs(g, s)
               ELSE IF Abstract!InGroup(k, g) /\ k \notin AbstractGone
                    THEN AbstractView[k] \cup {s} ELSE AbstractView[k]
  <2>1. AbstractView'[k] = {t \in Slugs : Belief(sent'[k], t)}
    BY ViewIs DEF AbstractView, Believes, Belief
  <2>2. CASE k = c
    <3>1. sent'[c] = Append(sent[c], Ack(PeersOf(g)))
      BY SentByAccept
    <3>2. sent[c] = <<>> /\ sent[c] \in Seq(Message) /\ Ack(PeersOf(g)) \in Message
      BY HandledIsNew
      DEF HandleRegistration, FramesInv, Early, IInv, TypeOK, Ack, Message, PeersOf
    <3>3. ASSUME NEW t \in Slugs PROVE Belief(sent'[c], t) <=> Present(g, t)
      <4>1. ~Belief(sent[c], t)
        BY <3>2 DEF Belief
      <4>2. Announces(Ack(PeersOf(g)), t) <=> Present(g, t)
        BY DEF Announces, Ack, PeersOf
      <4> QED
        BY <3>1, <3>2, <4>1, <4>2, BeliefAppend
    <3>4. Abstract!OtherSlugs(g, s) = {t \in Slugs \ {s} : AbstractOccupant[g][t] # NoId}
      BY DEF Abstract!OtherSlugs
    <3>5. \A t \in Slugs : AbstractOccupant[g][t] = NoId <=> ~Present(g, t)
      BY VacantIs
    <3> QED
      BY <2>1, <2>2, <3>3, <3>4, <3>5, <1>3
  <2>3. CASE k # c /\ Abstract!InGroup(k, g) /\ k \notin AbstractGone
    <3>1. PICK id \in DOMAIN conns : conns[id].stream = k /\ conns[id].group = g
      BY <2>3, OccupantIs
    <3>2. sent'[k] = Append(sent[k], PeerJoined(s))
      <4>1. remote[conns[id].stream] = "open"
        BY <2>3, <3>1, ConnectedOrGone
      <4>2. sent'[conns[id].stream] = Append(sent[conns[id].stream], PeerJoined(s))
        BY <3>1, <4>1, SentByAccept
      <4> QED
        BY <3>1, <4>2
    <3>3. /\ PeerJoined(s) \in Message
          /\ \A t : Announces(PeerJoined(s), t) <=> t = s
          /\ \A t : ~Withdraws(PeerJoined(s), t)
      BY DEF PeerJoined, Message, Announces, Withdraws
    <3>4. sent[k] \in Seq(Message)
      BY DEF IInv, TypeOK
    <3>5. \A t \in Slugs : Belief(sent'[k], t) <=> t = s \/ Belief(sent[k], t)
      BY <3>2, <3>3, <3>4, BeliefAppend
    <3> QED
      BY <2>1, <2>3, <3>5, ViewIs
  <2>4. CASE k # c /\ ~(Abstract!InGroup(k, g) /\ k \notin AbstractGone)
    <3>1. sent'[k] = sent[k]
      <4>1. CASE \A id \in DOMAIN conns : conns[id].stream # k
        BY <2>4, <4>1, SentByAccept
      <4>2. ASSUME NEW id \in DOMAIN conns, conns[id].stream = k PROVE sent'[k] = sent[k]
        <5>1. ~(conns[id].group = g /\ remote[k] = "open")
          BY <2>4, <4>2, OccupantIs, ConnectedOrGone
        <5> QED
          BY <4>2, <5>1, SentByAccept
      <4> QED
        BY <4>1, <4>2
    <3> QED
      BY <2>1, <2>4, <3>1, ViewIs
  <2> QED
    BY <2>2, <2>3, <2>4
<1>8. AbstractView' = [k \in Streams |-> AbstractView'[k]]
  BY DEF AbstractView
<1> QED
  BY <1>3, <1>4, <1>5, <1>6, <1>7, <1>8 DEF Abstract!Join

(* A handled departure of a record removes its stream. *)
LEMMA RemovalRemoves ==
    ASSUME IInv, NEW gone \in Nat, HandleDeparture(gone), RemoveConnection(gone)
    PROVE  Abstract!Remove(conns[gone].stream, conns[gone].group, conns[gone].slug)
<1> DEFINE s == conns[gone].slug
           g == conns[gone].group
           c == conns[gone].stream
<1>1. /\ UNCHANGED remote
      /\ gone \in DOMAIN conns /\ s \in Slugs /\ g \in Groups /\ c \in Streams
      /\ groups' = [groups EXCEPT ![g][s] = NoId]
      /\ conns' = [i \in DOMAIN conns \ {gone} |-> conns[i]]
      /\ groups[g][s] = gone
  BY DEF HandleDeparture, RemoveConnection, IInv, TypeOK, ConnRecord, TablesAgree
<1>2. \A id \in DOMAIN conns : conns[id].stream = c => id = gone
  BY <1>1 DEF IInv, TablesAgree
<1>3. Abstract!Holds(c, g, s)
  BY <1>1, OccupantIs DEF Abstract!Holds
<1>4. c \in AbstractGone /\ AbstractGone' = AbstractGone
  <2>1. 1 \in DOMAIN events /\ events[1] = Departed(gone)
    BY DEF HandleDeparture, IInv, TypeOK
  <2>2. remote[c] = "closed"
    BY <1>1, <2>1 DEF IInv, DeparturesDue, Departed
  <2> QED
    BY <1>1, <2>2 DEF AbstractGone
<1>5. AbstractOccupant' = [AbstractOccupant EXCEPT ![g][s] = NoId]
  <2>1. ASSUME NEW h \in Groups, NEW t \in Slugs
        PROVE  AbstractOccupant'[h][t] =
                 IF h = g /\ t = s THEN NoId ELSE AbstractOccupant[h][t]
    <3>1. /\ AbstractOccupant[h][t] =
               IF groups[h][t] # NoId THEN conns[groups[h][t]].stream ELSE NoId
          /\ AbstractOccupant'[h][t] =
               IF groups'[h][t] # NoId THEN conns'[groups'[h][t]].stream ELSE NoId
      BY DEF AbstractOccupant, Present
    <3>2. groups'[h][t] = IF h = g /\ t = s THEN NoId ELSE groups[h][t]
      BY <1>1 DEF IInv, TypeOK
    <3>3. /\ groups[h][t] # NoId => groups[h][t] \in DOMAIN conns
          /\ groups[h][t] = gone => h = g /\ t = s
      BY <1>1 DEF IInv, TypeOK, TablesAgree, Present, NoId
    <3> HIDE DEF s, g
    <3> QED
      BY <3>1, <3>2, <3>3, <1>1
  <2>2. AbstractOccupant' = [h \in Groups |-> [t \in Slugs |-> AbstractOccupant'[h][t]]]
    BY DEF AbstractOccupant
  <2> HIDE DEF AbstractOccupant, s, g
  <2> QED
    BY <1>1, <2>1, <2>2, OccupantTable, OneEntry
<1>6. ASSUME NEW k \in Streams
      PROVE  AbstractView'[k] =
               IF k # c /\ Abstract!InGroup(k, g) /\ k \notin AbstractGone
               THEN AbstractView[k] \ {s} ELSE AbstractView[k]
  <2>1. AbstractView'[k] = {t \in Slugs : Belief(sent'[k], t)}
    BY DEF AbstractView, Believes, Belief
  <2>2. CASE k # c /\ Abstract!InGroup(k, g) /\ k \notin AbstractGone
    <3>1. PICK id \in DOMAIN conns : conns[id].stream = k /\ conns[id].group = g
      BY <1>1, <2>2, OccupantIs
    <3>2. sent'[k] = Append(sent[k], PeerLeft(s))
      <4>1. remote[conns[id].stream] = "open" /\ id # gone
        BY <2>2, <3>1, ConnectedOrGone
      <4>2. sent'[conns[id].stream] = Append(sent[conns[id].stream], PeerLeft(s))
        BY <3>1, <4>1, SentByRemove
      <4> QED
        BY <3>1, <4>2
    <3>3. /\ PeerLeft(s) \in Message
          /\ \A t : Withdraws(PeerLeft(s), t) <=> t = s
          /\ \A t : ~Announces(PeerLeft(s), t)
      BY <1>1 DEF PeerLeft, Message, Announces, Withdraws
    <3>4. sent[k] \in Seq(Message)
      BY DEF IInv, TypeOK
    <3>5. \A t \in Slugs : Belief(sent'[k], t) <=> Belief(sent[k], t) /\ t # s
      BY <3>2, <3>3, <3>4, BeliefAppend
    <3> QED
      BY <2>1, <2>2, <3>5, ViewIs
  <2>3. CASE ~(k # c /\ Abstract!InGroup(k, g) /\ k \notin AbstractGone)
    <3>1. sent'[k] = sent[k]
      <4>1. CASE \A id \in DOMAIN conns : conns[id].stream # k
        BY <4>1, SentByRemove
      <4>2. ASSUME NEW id \in DOMAIN conns, conns[id].stream = k PROVE sent'[k] = sent[k]
        <5>1. ~(id # gone /\ conns[id].group = g /\ remote[k] = "open")
          BY <1>1, <1>2, <2>3, <4>2, OccupantIs, ConnectedOrGone
        <5> QED
          BY <4>2, <5>1, SentByRemove
      <4> QED
        BY <4>1, <4>2
    <3> QED
      BY <2>1, <2>3, <3>1, ViewIs
  <2> QED
    BY <2>2, <2>3
<1>7. AbstractView' = [k \in Streams |-> AbstractView'[k]]
  BY DEF AbstractView
<1> HIDE DEF s, g, c
<1>8. Abstract!Remove(c, g, s)
  BY <1>3, <1>4, <1>5, <1>6, <1>7 DEF Abstract!Remove
<1> QED
  BY <1>8 DEF s, g, c

(* A crash puts every member out. *)
LEMMA CrashResets ==
    ASSUME Crash
    PROVE  Abstract!Reset
<1>1. \A g \in Groups, s \in Slugs : groups'[g][s] = NoId
  BY DEF Crash, NoGroups
<1>2. AbstractOccupant' = [g \in Groups |-> [s \in Slugs |-> NoId]]
  BY <1>1 DEF AbstractOccupant, Present
<1>3. UNCHANGED <<AbstractView, AbstractGone>>
  BY DEF Crash, AbstractView, AbstractGone, Believes
<1> QED
  BY <1>2, <1>3 DEF Abstract!Reset

(* A server that exits is gone before the supervisor knows. *)
LEMMA CloseDies ==
    ASSUME IInv, NEW c \in Streams, CloseRemote(c)
    PROVE  Abstract!Die(c)
<1>1. UNCHANGED <<AbstractOccupant, AbstractView>>
  BY DEF CloseRemote, AbstractOccupant, AbstractView, Present, Believes
<1>2. c \notin AbstractGone /\ AbstractGone' = AbstractGone \cup {c}
  BY DEF CloseRemote, AbstractGone, IInv, TypeOK
<1> QED
  BY <1>1, <1>2 DEF Abstract!Die

-----------------------------------------------------------------------------
(* The steps that are invisible *)

LEMMA Invisible ==
    ASSUME UNCHANGED <<groups, conns>>,
           \A m \in Streams : remote'[m] = "closed" <=> remote[m] = "closed",
           \A m \in Streams :
              {t \in Slugs : Belief(sent'[m], t)} = {t \in Slugs : Belief(sent[m], t)}
    PROVE  UNCHANGED Abstract!vars
<1>1. AbstractOccupant' = AbstractOccupant
  BY DEF AbstractOccupant, Present
<1>2. AbstractView' = AbstractView
  BY DEF AbstractView, Believes, Belief
<1>3. AbstractGone' = AbstractGone
  BY DEF AbstractGone
<1> QED
  BY <1>1, <1>2, <1>3 DEF Abstract!vars

(* A Nack changes no view. *)
LEMMA RefusalInvisible ==
    ASSUME IInv, NEW c \in Streams, HandleRegistration(c),
           NEW why \in {"duplicate", "mkdir"}, RefuseRegistration(c, why)
    PROVE  UNCHANGED Abstract!vars
<1>1. UNCHANGED <<remote, groups, conns>>
  BY DEF HandleRegistration, RefuseRegistration
<1>2. /\ Nack(why) \in Message
      /\ \A t : ~Announces(Nack(why), t) /\ ~Withdraws(Nack(why), t)
  BY DEF Nack, Message, Announces, Withdraws
<1>3. ASSUME NEW m \in Streams, NEW t \in Slugs
      PROVE  Belief(sent'[m], t) <=> Belief(sent[m], t)
  <2>1. sent[m] \in Seq(Message)
    BY DEF IInv, TypeOK
  <2>2. sent'[m] = sent[m] \/ sent'[m] = Append(sent[m], Nack(why))
    BY DEF RefuseRegistration, Reply, IInv, TypeOK
  <2>3. Belief(Append(sent[m], Nack(why)), t) <=> Belief(sent[m], t)
    BY <1>2, <2>1, BeliefAppend
  <2> QED
    BY <2>2, <2>3
<1> QED
  BY <1>1, <1>3, Invisible

LEMMA QuietInvisible ==
    ASSUME IInv, Next, ~HandleEvent, ~Crash, \A c \in Streams : ~CloseRemote(c)
    PROVE  UNCHANGED Abstract!vars
<1>1. UNCHANGED <<groups, conns, sent>>
  BY OthersKeep DEF Keeps
<1>2. \A m \in Streams : remote'[m] = "closed" <=> remote[m] = "closed"
  BY DEF Next, Start, Connect, SendRegister, Accept, ReadRegister, ReadRegisterFails,
         EofWatcher, IInv, TypeOK
<1> QED
  BY <1>1, <1>2, Invisible

-----------------------------------------------------------------------------
(* The refinement *)

LEMMA RegistrationRefines ==
    ASSUME IInv, FramesInv, NEW c \in Streams, HandleRegistration(c)
    PROVE  [Abstract!Next]_(Abstract!vars)
<1> DEFINE s == request[c][1]
           g == request[c][2]
<1>1. s \in Slugs /\ g \in Groups
  BY HandledIsNew, RegistersAssumption DEF HandleRegistration
<1>2. CASE RefuseRegistration(c, "duplicate") \/ RefuseRegistration(c, "mkdir")
  BY <1>2, RefusalInvisible
<1>3. CASE AbandonRegistration(c, s)
  BY <1>3, Invisible DEF HandleRegistration, AbandonRegistration
<1>4. CASE ~Duplicate(g, s) /\ AcceptRegistration(c, s, g)
  BY <1>1, <1>4, AcceptJoins DEF Abstract!Next
<1> QED
  BY <1>2, <1>3, <1>4 DEF HandleRegistration

LEMMA DepartureRefines ==
    ASSUME IInv, NEW id \in Nat, HandleDeparture(id)
    PROVE  [Abstract!Next]_(Abstract!vars)
<1>1. CASE StaleDeparture(id)
  BY <1>1, Invisible DEF HandleDeparture, StaleDeparture
<1>2. CASE RemoveConnection(id)
  <2>1. conns[id] \in ConnRecord
    BY <1>2 DEF RemoveConnection, IInv, TypeOK
  <2> QED
    BY <1>2, <2>1, RemovalRemoves DEF Abstract!Next, ConnRecord
<1> QED
  BY <1>1, <1>2 DEF HandleDeparture

LEMMA StepRefines ==
    IInv /\ FramesInv /\ [Next]_vars => [Abstract!Next]_(Abstract!vars)
<1> SUFFICES ASSUME IInv, FramesInv, [Next]_vars
             PROVE  [Abstract!Next]_(Abstract!vars)
  OBVIOUS
<1>1. ASSUME NEW c \in Streams, HandleRegistration(c)
      PROVE  [Abstract!Next]_(Abstract!vars)
  BY <1>1, RegistrationRefines
<1>2. ASSUME NEW id \in 0..nextId, HandleDeparture(id)
      PROVE  [Abstract!Next]_(Abstract!vars)
  BY <1>2, DepartureRefines DEF IInv, TypeOK
<1>3. CASE Crash
  BY <1>3, CrashResets DEF Abstract!Next
<1>4. ASSUME NEW c \in Streams, CloseRemote(c)
      PROVE  [Abstract!Next]_(Abstract!vars)
  BY <1>4, CloseDies DEF Abstract!Next
<1>5. CASE Next /\ ~HandleEvent /\ ~Crash /\ \A c \in Streams : ~CloseRemote(c)
  BY <1>5, QuietInvisible
<1>6. CASE UNCHANGED vars
  BY <1>6, Invisible DEF vars
<1> QED
  BY <1>1, <1>2, <1>3, <1>4, <1>5, <1>6 DEF HandleEvent

(* Every behaviour of the supervisor is one of the membership service: a   *)
(* slug has at most one holder, and those present see, at once, exactly    *)
(* the other slugs of their group (the safety part of                      *)
(* ImplementsPeerGroups).                                                  *)
THEOREM ImplementsService == Spec => Abstract!Spec
<1>1. Init => Abstract!Init
  BY DEF Init, NoGroups, NoConns, Abstract!Init, AbstractOccupant, AbstractView,
         AbstractGone, Present, Believes
<1>2. IInv => TypeOK
  BY DEF IInv
<1> QED
  BY <1>1, <1>2, Invariance, FramesInit, FramesNext, StepRefines, PTL
  DEF Spec, Abstract!Spec

=============================================================================
