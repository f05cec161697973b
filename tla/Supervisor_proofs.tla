-------------------------- MODULE Supervisor_proofs --------------------------
(***************************************************************************)
(* Proofs about Supervisor, for every set of slugs, groups and streams.    *)
(*                                                                         *)
(* The inductive invariant IInv adds to TypeOK and TablesAgree what the    *)
(* event channel may hold: a Registered event owns its stream, so that a   *)
(* stream enters the tables once, and a Departed event names an id that    *)
(* was handed out and whose server, if the id is still registered, has     *)
(* closed its end.  On top of it, in this order: the frames on each stream *)
(* (FramesInv), what they add up to (ViewsExact), the directories          *)
(* (DirsInv), and what records, holders and watchers owe to each other     *)
(* (RecordsInv), which is what Topology_proofs needs.                      *)
(***************************************************************************)
EXTENDS Supervisor, FiniteSetTheorems, TLAPS

(* A stream has one owner at a time, and a server that connected.          *)
StreamsOwned ==
    /\ \A c \in Streams : holder[c] # "none" => remote[c] # "idle"
    /\ \A c \in Streams : holder[c] = "event" => request[c] # NoRequest
    /\ \A id \in DOMAIN conns : holder[conns[id].stream] = "conns"

(* Each queued registration owns its stream and is queued once.            *)
RegistrationsOwned ==
    /\ \A i \in DOMAIN events :
         events[i].type = "Registered" => holder[events[i].stream] = "event"
    /\ \A i, j \in DOMAIN events :
         /\ events[i].type = "Registered"
         /\ events[j].type = "Registered"
         /\ events[i].stream = events[j].stream
         => i = j

(* Each queued departure is of an id already handed out, and is due.       *)
DeparturesDue ==
    \A i \in DOMAIN events :
        events[i].type = "Departed" =>
          /\ events[i].id < nextId
          /\ events[i].id \in DOMAIN conns =>
               remote[conns[events[i].id].stream] = "closed"

IInv == TypeOK /\ TablesAgree /\ StreamsOwned /\ RegistrationsOwned /\ DeparturesDue

-----------------------------------------------------------------------------
(* The event channel *)

(* Live ids are finitely many, so a set of them can be put in an order.    *)
LEMMA LiveIdsFinite ==
    ASSUME TypeOK, NEW ids \in SUBSET DOMAIN conns
    PROVE  IsFiniteSet(ids) /\ Cardinality(ids) \in Nat
<1>1. IsFiniteSet(0..(nextId - 1))
  <2>1. nextId - 1 \in Int /\ 0 \in Int
    BY DEF TypeOK
  <2> QED
    BY <2>1, FS_Interval
<1>2. ids \subseteq 0..(nextId - 1)
  BY DEF TypeOK
<1>3. IsFiniteSet(ids)
  BY <1>1, <1>2, FS_Subset
<1> QED
  BY <1>3, FS_CardinalityType

(* Taking the first event off the channel shifts the others. *)
LEMMA TailFacts ==
    ASSUME NEW S, NEW q \in Seq(S), q # <<>>
    PROVE  /\ Tail(q) \in Seq(S)
           /\ DOMAIN Tail(q) = 1..(Len(q) - 1)
           /\ \A i \in DOMAIN Tail(q) : i + 1 \in DOMAIN q /\ Tail(q)[i] = q[i + 1]
  OBVIOUS

(* After a handler each event on the channel was there before, one place   *)
(* later, or is the departure of a connection it could not write to.       *)
LEMMA QueueFacts ==
    ASSUME TypeOK, events # <<>>,
           NEW ids \in SUBSET DOMAIN conns, QueueDepartures(ids)
    PROVE  /\ events' \in Seq(Event)
           /\ \A i \in DOMAIN events' :
                \/ i + 1 \in DOMAIN events /\ events'[i] = events[i + 1]
                \/ \E id \in ids : events'[i] = Departed(id)
<1>1. PICK order \in SetToSeqs(ids) :
         events' = Tail(events) \o [i \in DOMAIN order |-> Departed(order[i])]
  BY DEF QueueDepartures
<1> DEFINE n == Cardinality(ids)
           new == [i \in DOMAIN order |-> Departed(order[i])]
<1>2. n \in Nat
  BY LiveIdsFinite
<1>3. order \in [1..n -> ids]
  BY DEF SetToSeqs
<1>4. ids \subseteq Nat
  BY DEF TypeOK
<1>5. \A id \in ids : Departed(id) \in Event
  BY <1>4 DEF Departed, Event
<1>6. new \in [1..n -> Event]
  BY <1>3, <1>5
<1>7. new \in Seq(Event) /\ Len(new) = n
  BY <1>2, <1>6
<1>8. events \in Seq(Event)
  BY DEF TypeOK
<1>9. /\ Tail(events) \in Seq(Event)
      /\ Len(Tail(events)) = Len(events) - 1
      /\ \A i \in 1..(Len(events) - 1) : i + 1 \in DOMAIN events /\ Tail(events)[i] = events[i + 1]
  BY <1>8
<1>10. events' = Tail(events) \o new
  BY <1>1
<1>11. events' \in Seq(Event)
  BY <1>7, <1>9, <1>10
<1>12. ASSUME NEW i \in DOMAIN events'
       PROVE  \/ i + 1 \in DOMAIN events /\ events'[i] = events[i + 1]
              \/ \E id \in ids : events'[i] = Departed(id)
  <2> HIDE DEF new, n
  <2>1. i \in 1..(Len(events) - 1 + n)
    BY <1>7, <1>9, <1>10, <1>2, <1>8
  <2>2. CASE i <= Len(events) - 1
    BY <2>1, <2>2, <1>7, <1>8, <1>9, <1>10, <1>2
  <2>3. CASE i > Len(events) - 1
    <3> DEFINE k == i - (Len(events) - 1)
    <3>1. k \in 1..n /\ events'[i] = new[k]
      BY <2>1, <2>3, <1>7, <1>8, <1>9, <1>10, <1>2
    <3>2. new[k] = Departed(order[k]) /\ order[k] \in ids
      BY <3>1, <1>3 DEF new
    <3> QED
      BY <3>1, <3>2
  <2> QED
    BY <2>1, <2>2, <2>3, <1>2, <1>8
<1> QED
  BY <1>11, <1>12

-----------------------------------------------------------------------------
(* The initial state and the steps outside the event loop *)

LEMMA InitInv == Init => IInv
<1> SUFFICES ASSUME Init PROVE IInv
  OBVIOUS
<1> USE DEF Init, NoGroups, NoConns, NoId
<1>1. TypeOK
  BY MaxRestartsAssumption DEF TypeOK, Holder
<1>2. TablesAgree
  BY DEF TablesAgree, Present
<1>3. StreamsOwned /\ RegistrationsOwned /\ DeparturesDue
  BY DEF StreamsOwned, RegistrationsOwned, DeparturesDue
<1> QED
  BY <1>1, <1>2, <1>3 DEF IInv

LEMMA CrashInv == IInv /\ Crash => IInv'
<1> SUFFICES ASSUME IInv, Crash PROVE IInv'
  OBVIOUS
<1> USE DEF Crash, NoGroups, NoConns, NoId, IInv
<1>1. TypeOK'
  <2>1. up' \in BOOLEAN
    OBVIOUS
  <2>5. events' \in Seq(Event) /\ nextId' \in Nat
    OBVIOUS
  <2>4. restarts' \in 0..MaxRestarts
    <3>1. restarts \in 0..MaxRestarts /\ restarts < MaxRestarts /\ restarts' = restarts + 1
      BY DEF TypeOK
    <3> QED
      BY <3>1, MaxRestartsAssumption
  <2>2. holder' \in [Streams -> Holder]
    BY DEF TypeOK, Holder
  <2>3. /\ groups' \in [Groups -> [Slugs -> Nat \cup {NoId}]]
        /\ DOMAIN conns' \subseteq 0..(nextId' - 1)
        /\ conns' \in [DOMAIN conns' -> ConnRecord]
        /\ watching' \subseteq DOMAIN conns'
    OBVIOUS
  <2> QED
    BY <2>1, <2>2, <2>3, <2>4, <2>5 DEF TypeOK
<1>2. TablesAgree'
  BY DEF TablesAgree, Present
<1>3. StreamsOwned'
  BY DEF StreamsOwned, TypeOK
<1>4. RegistrationsOwned' /\ DeparturesDue'
  BY DEF RegistrationsOwned, DeparturesDue
<1> QED
  BY <1>1, <1>2, <1>3, <1>4

(* Steps that leave the tables and the channel alone change no stream that *)
(* the channel or the tables own, except that its server may close it.     *)
QuietStep ==
    \/ Start
    \/ \E c \in Streams :
         \/ Connect(c)
         \/ \E r \in Registers : SendRegister(c, r)
         \/ CloseRemote(c)
         \/ Accept(c)
         \/ ReadRegisterFails(c)

LEMMA QuietInv == IInv /\ QuietStep => IInv'
<1> SUFFICES ASSUME IInv, QuietStep PROVE IInv'
  OBVIOUS
<1> USE DEF IInv
<1>1. TypeOK'
  BY DEF QuietStep, Start, Connect, SendRegister, CloseRemote, Accept, ReadRegisterFails,
         TypeOK, Holder
<1>2. UNCHANGED <<events, groups, conns, nextId, watching>>
  BY DEF QuietStep, Start, Connect, SendRegister, CloseRemote, Accept, ReadRegisterFails
<1>3. \A c \in Streams :
         /\ holder[c] \in {"event", "conns"} => holder'[c] = holder[c]
         /\ holder'[c] = "event" => holder[c] = "event"
         /\ remote[c] = "closed" => remote'[c] = "closed"
         /\ holder'[c] # "none" => remote'[c] # "idle"
         /\ request[c] # NoRequest => request'[c] # NoRequest
  <2>1. CASE Start
    BY <2>1 DEF Start, StreamsOwned
  <2>2. ASSUME NEW d \in Streams, Connect(d) PROVE <1>3
    BY <2>2 DEF Connect, StreamsOwned, TypeOK
  <2>3. ASSUME NEW d \in Streams, NEW r \in Registers, SendRegister(d, r) PROVE <1>3
    BY <2>3, RegistersAssumption DEF SendRegister, StreamsOwned, TypeOK
  <2>4. ASSUME NEW d \in Streams, CloseRemote(d) PROVE <1>3
    BY <2>4 DEF CloseRemote, StreamsOwned, TypeOK
  <2>5. ASSUME NEW d \in Streams, Accept(d) PROVE <1>3
    BY <2>5 DEF Accept, StreamsOwned, TypeOK
  <2>6. ASSUME NEW d \in Streams, ReadRegisterFails(d) PROVE <1>3
    BY <2>6 DEF ReadRegisterFails, StreamsOwned, TypeOK
  <2> QED
    BY <2>1, <2>2, <2>3, <2>4, <2>5, <2>6 DEF QuietStep
<1>4. TablesAgree'
  BY <1>2 DEF TablesAgree, Present
<1>5. StreamsOwned'
  BY <1>2, <1>3 DEF StreamsOwned, TypeOK, ConnRecord
<1>6. RegistrationsOwned'
  <2>1. \A i \in DOMAIN events : events[i] \in Event
    BY DEF TypeOK
  <2> QED
    BY <1>2, <1>3, <2>1 DEF RegistrationsOwned, Event
<1>7. DeparturesDue'
  BY <1>2, <1>3 DEF DeparturesDue, TypeOK, ConnRecord
<1> QED
  BY <1>1, <1>4, <1>5, <1>6, <1>7

LEMMA ReadRegisterInv ==
    ASSUME IInv, NEW c \in Streams, ReadRegister(c)
    PROVE  IInv'
<1> USE DEF ReadRegister, IInv
<1>1. Registered(c) \in Event
  BY DEF Registered, Event
<1>2. /\ DOMAIN events' = 1..(Len(events) + 1)
      /\ events'[Len(events) + 1] = Registered(c)
      /\ \A i \in 1..Len(events) : events'[i] = events[i]
      /\ DOMAIN events = 1..Len(events)
      /\ Len(events) \in Nat
  BY <1>1 DEF TypeOK
<1>3. TypeOK'
  BY <1>1 DEF TypeOK, Holder
<1>4. TablesAgree'
  BY DEF TablesAgree, Present
<1>5. StreamsOwned'
  BY DEF StreamsOwned, TypeOK, ConnRecord
<1>6. RegistrationsOwned'
  BY <1>2 DEF RegistrationsOwned, TypeOK, Event, Registered
<1>7. DeparturesDue'
  BY <1>2 DEF DeparturesDue, Registered
<1> QED
  BY <1>3, <1>4, <1>5, <1>6, <1>7

LEMMA EofWatcherInv ==
    ASSUME IInv, NEW id \in watching, EofWatcher(id)
    PROVE  IInv'
<1> USE DEF EofWatcher, IInv
<1>1. Departed(id) \in Event /\ id < nextId
  BY DEF Departed, Event, TypeOK
<1>2. /\ DOMAIN events' = 1..(Len(events) + 1)
      /\ events'[Len(events) + 1] = Departed(id)
      /\ \A i \in 1..Len(events) : events'[i] = events[i]
      /\ DOMAIN events = 1..Len(events)
      /\ Len(events) \in Nat
  BY <1>1 DEF TypeOK
<1>3. TypeOK'
  BY <1>1 DEF TypeOK
<1>4. TablesAgree'
  BY DEF TablesAgree, Present
<1>5. StreamsOwned'
  BY DEF StreamsOwned
<1>6. RegistrationsOwned'
  BY <1>2 DEF RegistrationsOwned, TypeOK, Event, Departed
<1>7. DeparturesDue'
  BY <1>1, <1>2 DEF DeparturesDue, Departed
<1> QED
  BY <1>3, <1>4, <1>5, <1>6, <1>7

-----------------------------------------------------------------------------
(* The event loop *)

(* A handler takes its event off the channel and may queue departures of   *)
(* connections that it could not write to; nothing else enters.            *)
QueueStep(ids) ==
    /\ events' \in Seq(Event)
    /\ \A i \in DOMAIN events' :
         \/ i + 1 \in DOMAIN events /\ events'[i] = events[i + 1]
         \/ \E id \in ids : events'[i] = Departed(id)

LEMMA TailStep ==
    ASSUME TypeOK, events # <<>>, events' = Tail(events)
    PROVE  QueueStep({})
  BY TailFacts DEF QueueStep, TypeOK

(* The handled registration is nowhere else on the channel. *)
LEMMA HeadLeaves ==
    ASSUME IInv, NEW c \in Streams, events # <<>>, Head(events) = Registered(c),
           NEW ids, QueueStep(ids)
    PROVE  \A i \in DOMAIN events' :
             events'[i].type = "Registered" =>
               /\ i + 1 \in DOMAIN events
               /\ events'[i] = events[i + 1]
               /\ events'[i].stream # c
<1> SUFFICES ASSUME NEW i \in DOMAIN events', events'[i].type = "Registered"
             PROVE  /\ i + 1 \in DOMAIN events
                    /\ events'[i] = events[i + 1]
                    /\ events'[i].stream # c
  OBVIOUS
<1>1. i + 1 \in DOMAIN events /\ events'[i] = events[i + 1]
  BY DEF QueueStep, Departed
<1>2. 1 \in DOMAIN events /\ events[1] = Registered(c) /\ i \in Nat /\ i # 0
  BY DEF IInv, TypeOK, QueueStep
<1>3. i + 1 # 1
  BY <1>2
<1> QED
  BY <1>1, <1>2, <1>3 DEF IInv, RegistrationsOwned, Registered

(* What is left on the channel of registrations keeps its owners when only *)
(* the handled stream changes hands.                                       *)
LEMMA RegistrationsOwnedAfter ==
    ASSUME IInv, NEW c \in Streams, events # <<>>, Head(events) = Registered(c),
           NEW ids, QueueStep(ids),
           \A d \in Streams : d # c => holder'[d] = holder[d]
    PROVE  RegistrationsOwned'
<1>1. \A i \in DOMAIN events' : events'[i] \in Event /\ i \in Nat
  BY DEF QueueStep
<1>2. ASSUME NEW i \in DOMAIN events', events'[i].type = "Registered"
      PROVE  holder'[events'[i].stream] = "event"
  <2>1. /\ i + 1 \in DOMAIN events
        /\ events'[i] = events[i + 1]
        /\ events'[i].stream # c
    BY <1>2, HeadLeaves
  <2>2. events'[i].stream \in Streams
    BY <1>1, <1>2 DEF Event
  <2> QED
    BY <1>2, <2>1, <2>2 DEF IInv, RegistrationsOwned
<1>3. ASSUME NEW i \in DOMAIN events', NEW j \in DOMAIN events',
             events'[i].type = "Registered", events'[j].type = "Registered",
             events'[i].stream = events'[j].stream
      PROVE  i = j
  <2>1. /\ i + 1 \in DOMAIN events /\ events'[i] = events[i + 1]
        /\ j + 1 \in DOMAIN events /\ events'[j] = events[j + 1]
    BY <1>3, HeadLeaves
  <2>2. i + 1 = j + 1
    BY <1>3, <2>1 DEF IInv, RegistrationsOwned
  <2> QED
    BY <1>1, <2>2
<1> QED
  BY <1>2, <1>3 DEF RegistrationsOwned

(* The handled registration's stream is in no record. *)
LEMMA HandledIsNew ==
    ASSUME IInv, NEW c \in Streams, events # <<>>, Head(events) = Registered(c)
    PROVE  /\ holder[c] = "event"
           /\ request[c] \in Registers
           /\ \A id \in DOMAIN conns : conns[id].stream # c
<1>1. 1 \in DOMAIN events /\ events[1] = Registered(c)
  BY DEF IInv, TypeOK
<1>2. holder[c] = "event"
  BY <1>1 DEF IInv, RegistrationsOwned, Registered
<1>3. request[c] \in Registers
  BY <1>2 DEF IInv, StreamsOwned, TypeOK
<1>4. \A id \in DOMAIN conns : conns[id].stream # c
  BY <1>2 DEF IInv, StreamsOwned
<1> QED
  BY <1>2, <1>3, <1>4

(* A registration that is refused or abandoned. *)
LEMMA NotRegisteredInv ==
    ASSUME IInv, NEW c \in Streams, events # <<>>, Head(events) = Registered(c),
           UNCHANGED <<up, restarts, remote, request, groups, conns, nextId, watching>>,
           events' = Tail(events),
           holder' = [holder EXCEPT ![c] = "dropped"],
           dirs' \subseteq Slugs, undeleted' \subseteq Slugs,
           sent' \in [Streams -> Seq(Message)]
    PROVE  IInv'
<1>1. QueueStep({})
  BY TailStep DEF IInv
<1>2. TypeOK'
  BY <1>1 DEF IInv, TypeOK, Holder, QueueStep
<1>3. TablesAgree'
  BY DEF IInv, TablesAgree, Present
<1>4. \A d \in Streams : d # c => holder'[d] = holder[d]
  BY DEF IInv, TypeOK
<1>5. StreamsOwned'
  <2>1. \A id \in DOMAIN conns : conns[id].stream # c /\ conns[id].stream \in Streams
    BY HandledIsNew DEF IInv, TypeOK, ConnRecord
  <2>2. holder[c] = "event" /\ holder'[c] = "dropped"
    BY HandledIsNew DEF IInv, TypeOK
  <2> QED
    BY <1>4, <2>1, <2>2 DEF IInv, StreamsOwned
<1>6. RegistrationsOwned'
  BY <1>1, <1>4, RegistrationsOwnedAfter
<1>7. DeparturesDue'
  <2>1. \A i \in DOMAIN events' : i + 1 \in DOMAIN events /\ events'[i] = events[i + 1]
    BY <1>1 DEF QueueStep
  <2> QED
    BY <2>1 DEF IInv, DeparturesDue
<1> QED
  BY <1>2, <1>3, <1>5, <1>6, <1>7 DEF IInv

LEMMA RefuseInv ==
    ASSUME IInv, NEW c \in Streams, HandleRegistration(c),
           NEW why \in {"duplicate", "mkdir"}, RefuseRegistration(c, why)
    PROVE  IInv'
<1>1. Nack(why) \in Message
  BY DEF Nack, Message
<1>2. sent' \in [Streams -> Seq(Message)]
  BY <1>1 DEF IInv, TypeOK, RefuseRegistration, Reply
<1>3. dirs' \subseteq Slugs /\ undeleted' \subseteq Slugs
  BY DEF IInv, TypeOK, RefuseRegistration
<1> QED
  BY <1>2, <1>3, NotRegisteredInv DEF HandleRegistration, RefuseRegistration

LEMMA AbandonInv ==
    ASSUME IInv, NEW c \in Streams, HandleRegistration(c),
           NEW s \in Slugs, AbandonRegistration(c, s)
    PROVE  IInv'
<1>1. sent' \in [Streams -> Seq(Message)]
  BY DEF IInv, TypeOK, AbandonRegistration
<1>2. dirs' \subseteq Slugs /\ undeleted' \subseteq Slugs
  BY DEF IInv, TypeOK, AbandonRegistration, RemoveDir, RemovalFails
<1> QED
  BY <1>1, <1>2, NotRegisteredInv DEF HandleRegistration, AbandonRegistration

(* The connections a notification is for, and those it cannot reach: the   *)
(* latter have closed their end, so their departure is due.                *)
LEMMA NotifiedFacts ==
    ASSUME IInv, NEW ids \in SUBSET DOMAIN conns, NEW m \in Message
    PROVE  /\ Notified(ids, m) \in [Streams -> Seq(Message)]
           /\ Failed(ids) \in SUBSET DOMAIN conns
           /\ \A id \in Failed(ids) : id \in Nat /\ id < nextId
                                      /\ remote[conns[id].stream] = "closed"
<1>1. Notified(ids, m) \in [Streams -> Seq(Message)]
  BY DEF Notified, IInv, TypeOK
<1>2. Failed(ids) \in SUBSET DOMAIN conns
  BY DEF Failed
<1>3. ASSUME NEW id \in Failed(ids)
      PROVE  id \in Nat /\ id < nextId /\ remote[conns[id].stream] = "closed"
  <2>1. id \in DOMAIN conns /\ remote[conns[id].stream] # "open"
    BY DEF Failed
  <2>2. id \in Nat /\ id < nextId
    BY <2>1 DEF IInv, TypeOK
  <2>3. conns[id].stream \in Streams
    BY <2>1 DEF IInv, TypeOK, ConnRecord
  <2>4. remote[conns[id].stream] \in {"idle", "open", "closed"}
    BY <2>3 DEF IInv, TypeOK
  <2>5. remote[conns[id].stream] # "idle"
    BY <2>1, <2>3 DEF IInv, StreamsOwned
  <2> QED
    BY <2>1, <2>2, <2>4, <2>5
<1> QED
  BY <1>1, <1>2, <1>3

LEMMA AcceptInv ==
    ASSUME IInv, NEW c \in Streams, HandleRegistration(c),
           NEW s \in Slugs, NEW g \in Groups, ~Duplicate(g, s),
           AcceptRegistration(c, s, g)
    PROVE  IInv'
<1> DEFINE peers == PeerIds(g)
           id == nextId
           lost == Failed(peers)
<1>1. /\ UNCHANGED <<up, restarts, remote, request>>
      /\ events # <<>> /\ Head(events) = Registered(c)
      /\ remote[c] = "open"
      /\ dirs' = dirs \cup {s} /\ undeleted' = undeleted \ {s}
      /\ sent' = [Notified(peers, PeerJoined(s)) EXCEPT ![c] = Append(@, Ack(PeersOf(g)))]
      /\ nextId' = nextId + 1
      /\ watching' = watching \cup {id}
      /\ groups' = [groups EXCEPT ![g][s] = id]
      /\ conns' = [i \in DOMAIN conns \cup {id} |->
                     IF i = id THEN [slug |-> s, group |-> g, stream |-> c] ELSE conns[i]]
      /\ holder' = [holder EXCEPT ![c] = "conns"]
      /\ QueueDepartures(lost)
  BY DEF HandleRegistration, AcceptRegistration, FreshId
<1>2. peers \in SUBSET DOMAIN conns
  BY DEF PeerIds
<1>3. PeerJoined(s) \in Message /\ Ack(PeersOf(g)) \in Message
  BY DEF PeerJoined, Ack, PeersOf, Message
<1>4. /\ Notified(peers, PeerJoined(s)) \in [Streams -> Seq(Message)]
      /\ lost \in SUBSET DOMAIN conns
      /\ \A i \in lost : i \in Nat /\ i < nextId /\ remote[conns[i].stream] = "closed"
  BY <1>2, <1>3, NotifiedFacts
<1> HIDE DEF peers, lost
<1>5. QueueStep(lost)
  BY <1>1, <1>4, QueueFacts DEF QueueStep, IInv
<1>6. id \in Nat /\ id \notin DOMAIN conns
  BY DEF IInv, TypeOK
<1>7. /\ DOMAIN conns' = DOMAIN conns \cup {id}
      /\ conns'[id] = [slug |-> s, group |-> g, stream |-> c]
      /\ \A i \in DOMAIN conns : conns'[i] = conns[i]
  BY <1>1, <1>6
<1>8. /\ \A h \in Groups, t \in Slugs :
           groups'[h][t] = IF h = g /\ t = s THEN id ELSE groups[h][t]
      /\ groups' \in [Groups -> [Slugs -> Nat \cup {NoId}]]
  BY <1>1, <1>6 DEF IInv, TypeOK
<1>9. groups[g][s] = NoId
  BY DEF Duplicate, Present
<1>10. \A i \in DOMAIN conns :
         /\ conns[i].stream \in Streams /\ conns[i].stream # c
         /\ conns[i].slug \in Slugs /\ conns[i].group \in Groups
         /\ i \in Nat /\ i < nextId
  BY <1>1, HandledIsNew DEF IInv, TypeOK, ConnRecord
<1>11. TypeOK'
  <2>1. conns' \in [DOMAIN conns' -> ConnRecord]
    BY <1>1, <1>6, <1>7 DEF IInv, TypeOK, ConnRecord
  <2>2. sent' \in [Streams -> Seq(Message)]
    BY <1>1, <1>3, <1>4
  <2>3. DOMAIN conns' \subseteq 0..(nextId' - 1)
    BY <1>1, <1>6, <1>7, <1>10
  <2>4. holder' \in [Streams -> Holder]
    BY <1>1 DEF IInv, TypeOK, Holder
  <2>5. events' \in Seq(Event)
    BY <1>5 DEF QueueStep
  <2>6. watching' \subseteq DOMAIN conns'
    BY <1>1, <1>7 DEF IInv, TypeOK
  <2> QED
    BY <1>1, <1>6, <1>8, <2>1, <2>2, <2>3, <2>4, <2>5, <2>6 DEF IInv, TypeOK
<1>12. TablesAgree'
  <2>1. ASSUME NEW h \in Groups, NEW t \in Slugs, Present(h, t)'
        PROVE  /\ groups'[h][t] \in DOMAIN conns'
               /\ conns'[groups'[h][t]].slug = t
               /\ conns'[groups'[h][t]].group = h
    <3>1. CASE h = g /\ t = s
      BY <3>1, <1>7, <1>8
    <3>2. CASE ~(h = g /\ t = s)
      BY <2>1, <3>2, <1>7, <1>8 DEF IInv, TablesAgree, Present
    <3> QED
      BY <3>1, <3>2
  <2>2. ASSUME NEW i \in DOMAIN conns'
        PROVE  groups'[conns'[i].group][conns'[i].slug] = i
    <3>1. CASE i = id
      BY <3>1, <1>7, <1>8
    <3>2. CASE i # id
      <4>1. i \in DOMAIN conns /\ conns'[i] = conns[i] /\ groups[conns[i].group][conns[i].slug] = i
        BY <3>2, <1>7 DEF IInv, TablesAgree
      <4>2. i # NoId
        BY <4>1, <1>10 DEF NoId
      <4> QED
        BY <4>1, <4>2, <1>8, <1>9, <1>10
    <3> QED
      BY <3>1, <3>2
  <2>3. \A i, j \in DOMAIN conns' : conns'[i].stream = conns'[j].stream => i = j
    BY <1>7, <1>10 DEF IInv, TablesAgree
  <2> QED
    BY <2>1, <2>2, <2>3 DEF TablesAgree
<1>13. holder'[c] = "conns" /\ \A d \in Streams : d # c => holder'[d] = holder[d]
  BY <1>1 DEF IInv, TypeOK
<1>14. StreamsOwned'
  <2>1. \A d \in Streams : holder'[d] # "none" => remote'[d] # "idle"
    BY <1>1, <1>13 DEF IInv, StreamsOwned
  <2>2. \A d \in Streams : holder'[d] = "event" => request'[d] # NoRequest
    BY <1>1, <1>13 DEF IInv, StreamsOwned
  <2>3. \A i \in DOMAIN conns' : holder'[conns'[i].stream] = "conns"
    BY <1>7, <1>10, <1>13 DEF IInv, StreamsOwned
  <2> QED
    BY <2>1, <2>2, <2>3 DEF StreamsOwned
<1>15. RegistrationsOwned'
  BY <1>1, <1>5, <1>13, RegistrationsOwnedAfter
<1>16. DeparturesDue'
  <2> SUFFICES ASSUME NEW i \in DOMAIN events', events'[i].type = "Departed"
               PROVE  /\ events'[i].id < nextId'
                      /\ events'[i].id \in DOMAIN conns' =>
                           remote'[conns'[events'[i].id].stream] = "closed"
    BY DEF DeparturesDue
  <2>1. /\ events'[i].id \in Nat /\ events'[i].id < nextId
        /\ events'[i].id \in DOMAIN conns => remote[conns[events'[i].id].stream] = "closed"
    <3>1. CASE i + 1 \in DOMAIN events /\ events'[i] = events[i + 1]
      <4>1. events[i + 1] \in Event
        BY <3>1 DEF IInv, TypeOK
      <4> QED
        BY <3>1, <4>1 DEF IInv, DeparturesDue, Event
    <3>2. CASE \E k \in lost : events'[i] = Departed(k)
      BY <3>2, <1>4 DEF Departed
    <3> QED
      BY <3>1, <3>2, <1>5 DEF QueueStep
  <2>2. events'[i].id < nextId'
    BY <2>1, <1>1, <1>6
  <2>3. events'[i].id # id
    BY <2>1, <1>6
  <2> QED
    BY <2>1, <2>2, <2>3, <1>1, <1>7
<1> QED
  BY <1>11, <1>12, <1>14, <1>15, <1>16 DEF IInv

LEMMA StaleInv ==
    ASSUME IInv, NEW id \in Nat, HandleDeparture(id), StaleDeparture(id)
    PROVE  IInv'
<1> USE DEF HandleDeparture, StaleDeparture
<1>1. QueueStep({})
  BY TailStep DEF IInv
<1>2. \A i \in DOMAIN events' :
         i \in Nat /\ i + 1 \in DOMAIN events /\ events'[i] = events[i + 1]
  BY <1>1 DEF QueueStep
<1>3. TypeOK'
  BY <1>1 DEF IInv, TypeOK, QueueStep
<1>4. TablesAgree'
  BY DEF IInv, TablesAgree, Present
<1>5. StreamsOwned'
  BY DEF IInv, StreamsOwned
<1>6. RegistrationsOwned'
  <2>1. \A i, j \in Nat : i + 1 = j + 1 => i = j
    OBVIOUS
  <2> QED
    BY <1>2, <2>1 DEF IInv, RegistrationsOwned
<1>7. DeparturesDue'
  BY <1>2 DEF IInv, DeparturesDue
<1> QED
  BY <1>3, <1>4, <1>5, <1>6, <1>7 DEF IInv

LEMMA RemoveInv ==
    ASSUME IInv, NEW id \in Nat, HandleDeparture(id), RemoveConnection(id)
    PROVE  IInv'
<1> DEFINE s == conns[id].slug
           g == conns[id].group
           c == conns[id].stream
           peers == PeerIds(g) \ {groups[g][s]}
           lost == Failed(peers)
<1>1. /\ UNCHANGED <<up, restarts, remote, request, nextId>>
      /\ events # <<>> /\ Head(events) = Departed(id)
      /\ id \in DOMAIN conns
      /\ conns' = [i \in DOMAIN conns \ {id} |-> conns[i]]
      /\ holder' = [holder EXCEPT ![c] = "dropped"]
      /\ watching' = watching \ {id}
      /\ groups' = [groups EXCEPT ![g][s] = NoId]
      /\ RemoveDir(s) \/ RemovalFails(s)
      /\ sent' = Notified(peers, PeerLeft(s))
      /\ QueueDepartures(lost)
  BY DEF HandleDeparture, RemoveConnection
<1>2. s \in Slugs /\ g \in Groups /\ c \in Streams
  BY <1>1 DEF IInv, TypeOK, ConnRecord
<1>3. groups[g][s] = id
  BY <1>1 DEF IInv, TablesAgree
<1>4. peers \in SUBSET DOMAIN conns /\ id \notin peers
  BY <1>3 DEF PeerIds
<1>5. PeerLeft(s) \in Message
  BY <1>2 DEF PeerLeft, Message
<1>6. /\ sent' \in [Streams -> Seq(Message)]
      /\ lost \in SUBSET DOMAIN conns
      /\ \A i \in lost : i \in Nat /\ i < nextId /\ remote[conns[i].stream] = "closed"
  BY <1>1, <1>4, <1>5, NotifiedFacts
<1> HIDE DEF s, g, c, peers, lost
<1>7. QueueStep(lost)
  BY <1>1, <1>6, QueueFacts DEF QueueStep, IInv
<1>8. /\ DOMAIN conns' = DOMAIN conns \ {id}
      /\ \A i \in DOMAIN conns' : conns'[i] = conns[i] /\ i \in DOMAIN conns /\ i # id
  BY <1>1
<1>9. /\ \A h \in Groups, t \in Slugs :
           groups'[h][t] = IF h = g /\ t = s THEN NoId ELSE groups[h][t]
      /\ groups' \in [Groups -> [Slugs -> Nat \cup {NoId}]]
  BY <1>1, <1>2 DEF IInv, TypeOK
<1>10. \A i \in DOMAIN conns' : conns[i].stream \in Streams /\ conns[i].stream # c
  BY <1>1, <1>8 DEF IInv, TypeOK, TablesAgree, ConnRecord, c
<1>11. holder'[c] = "dropped" /\ \A d \in Streams : d # c => holder'[d] = holder[d]
  BY <1>1, <1>2 DEF IInv, TypeOK
<1>12. holder[c] = "conns"
  BY <1>1 DEF IInv, StreamsOwned, c
<1>13. \A i \in DOMAIN events' : events'[i] \in Event /\ i \in Nat
  BY <1>7 DEF QueueStep
<1>14. TypeOK'
  <2>5. dirs' \subseteq Slugs /\ undeleted' \subseteq Slugs
    BY <1>1, <1>2 DEF IInv, TypeOK, RemoveDir, RemovalFails
  <2>1. conns' \in [DOMAIN conns' -> ConnRecord]
    BY <1>1, <1>8 DEF IInv, TypeOK
  <2>2. holder' \in [Streams -> Holder]
    BY <1>1 DEF IInv, TypeOK, Holder
  <2>3. watching' \subseteq DOMAIN conns' /\ DOMAIN conns' \subseteq 0..(nextId' - 1)
    BY <1>1, <1>8 DEF IInv, TypeOK
  <2>4. events' \in Seq(Event)
    BY <1>7 DEF QueueStep
  <2> QED
    BY <1>1, <1>6, <1>9, <2>1, <2>2, <2>3, <2>4, <2>5 DEF IInv, TypeOK
<1>15. TablesAgree'
  <2>1. ASSUME NEW h \in Groups, NEW t \in Slugs, Present(h, t)'
        PROVE  /\ groups'[h][t] \in DOMAIN conns'
               /\ conns'[groups'[h][t]].slug = t
               /\ conns'[groups'[h][t]].group = h
    <3>1. ~(h = g /\ t = s) /\ groups'[h][t] = groups[h][t] /\ Present(h, t)
      BY <2>1, <1>9 DEF Present
    <3>2. /\ groups[h][t] \in DOMAIN conns
          /\ conns[groups[h][t]].slug = t
          /\ conns[groups[h][t]].group = h
      BY <3>1 DEF IInv, TablesAgree
    <3>3. groups[h][t] # id
      BY <3>1, <3>2 DEF s, g
    <3> QED
      BY <3>1, <3>2, <3>3, <1>8
  <2>2. ASSUME NEW i \in DOMAIN conns'
        PROVE  groups'[conns'[i].group][conns'[i].slug] = i
    <3>1. /\ i \in DOMAIN conns /\ i # id /\ conns'[i] = conns[i]
          /\ groups[conns[i].group][conns[i].slug] = i
          /\ conns[i].group \in Groups /\ conns[i].slug \in Slugs
      BY <1>8 DEF IInv, TablesAgree, TypeOK, ConnRecord
    <3> QED
      BY <3>1, <1>3, <1>9
  <2>3. \A i, j \in DOMAIN conns' : conns'[i].stream = conns'[j].stream => i = j
    BY <1>8 DEF IInv, TablesAgree
  <2> QED
    BY <2>1, <2>2, <2>3 DEF TablesAgree
<1>16. StreamsOwned'
  <2>1. \A d \in Streams : holder'[d] # "none" => remote'[d] # "idle"
    BY <1>1, <1>11, <1>12 DEF IInv, StreamsOwned
  <2>2. \A d \in Streams : holder'[d] = "event" => request'[d] # NoRequest
    BY <1>1, <1>11 DEF IInv, StreamsOwned
  <2>3. \A i \in DOMAIN conns' : holder'[conns'[i].stream] = "conns"
    BY <1>8, <1>10, <1>11 DEF IInv, StreamsOwned
  <2> QED
    BY <2>1, <2>2, <2>3 DEF StreamsOwned
<1>17. \A i \in DOMAIN events' :
          events'[i].type = "Registered" =>
            i + 1 \in DOMAIN events /\ events'[i] = events[i + 1]
  BY <1>7 DEF QueueStep, Departed
<1>18. RegistrationsOwned'
  <2>1. ASSUME NEW i \in DOMAIN events', events'[i].type = "Registered"
        PROVE  holder'[events'[i].stream] = "event"
    <3>1. holder[events'[i].stream] = "event" /\ events'[i].stream \in Streams
      BY <2>1, <1>13, <1>17 DEF IInv, RegistrationsOwned, Event
    <3> QED
      BY <3>1, <1>11, <1>12
  <2>2. \A i, j \in Nat : i + 1 = j + 1 => i = j
    OBVIOUS
  <2> QED
    BY <2>1, <2>2, <1>13, <1>17 DEF IInv, RegistrationsOwned
<1>19. DeparturesDue'
  <2> SUFFICES ASSUME NEW i \in DOMAIN events', events'[i].type = "Departed"
               PROVE  /\ events'[i].id < nextId
                      /\ events'[i].id \in DOMAIN conns =>
                           remote[conns[events'[i].id].stream] = "closed"
    BY <1>1, <1>8 DEF DeparturesDue
  <2>1. CASE i + 1 \in DOMAIN events /\ events'[i] = events[i + 1]
    BY <2>1 DEF IInv, DeparturesDue
  <2>2. CASE \E k \in lost : events'[i] = Departed(k)
    BY <2>2, <1>6 DEF Departed
  <2> QED
    BY <2>1, <2>2, <1>7 DEF QueueStep
<1> QED
  BY <1>14, <1>15, <1>16, <1>18, <1>19 DEF IInv

-----------------------------------------------------------------------------
(* Every step keeps the invariant. *)
LEMMA NextInv == IInv /\ [Next]_vars => IInv'
<1> SUFFICES ASSUME IInv, [Next]_vars PROVE IInv'
  OBVIOUS
<1>1. CASE Crash
  BY <1>1, CrashInv
<1>2. CASE QuietStep
  BY <1>2, QuietInv
<1>3. ASSUME NEW c \in Streams, ReadRegister(c) PROVE IInv'
  BY <1>3, ReadRegisterInv
<1>4. ASSUME NEW id \in watching, EofWatcher(id) PROVE IInv'
  BY <1>4, EofWatcherInv
<1>5. ASSUME NEW c \in Streams, HandleRegistration(c) PROVE IInv'
  <2> DEFINE s == request[c][1]
             g == request[c][2]
  <2>1. s \in Slugs /\ g \in Groups
    BY <1>5, HandledIsNew, RegistersAssumption DEF HandleRegistration
  <2>2. CASE RefuseRegistration(c, "duplicate") \/ RefuseRegistration(c, "mkdir")
    BY <1>5, <2>2, RefuseInv
  <2>3. CASE AbandonRegistration(c, s)
    BY <1>5, <2>1, <2>3, AbandonInv
  <2>4. CASE ~Duplicate(g, s) /\ AcceptRegistration(c, s, g)
    BY <1>5, <2>1, <2>4, AcceptInv
  <2> QED
    BY <1>5, <2>2, <2>3, <2>4 DEF HandleRegistration
<1>6. ASSUME NEW id \in 0..nextId, HandleDeparture(id) PROVE IInv'
  BY <1>6, StaleInv, RemoveInv DEF HandleDeparture, IInv, TypeOK
<1>7. CASE UNCHANGED vars
  <2> USE <1>7 DEF vars, IInv
  <2>1. TypeOK'
    BY DEF TypeOK
  <2>2. TablesAgree'
    BY DEF TablesAgree, Present
  <2>3. StreamsOwned' /\ RegistrationsOwned' /\ DeparturesDue'
    BY DEF StreamsOwned, RegistrationsOwned, DeparturesDue
  <2> QED
    BY <2>1, <2>2, <2>3
<1> QED
  BY <1>1, <1>2, <1>3, <1>4, <1>5, <1>6, <1>7 DEF Next, HandleEvent, QuietStep

(* The invariant holds throughout. *)
THEOREM Invariance == Spec => []IInv
  BY InitInv, NextInv, PTL DEF Spec

(* Types are kept, and every id in use was handed out. *)
THEOREM TypeCorrect == Spec => []TypeOK
<1>1. IInv => TypeOK
  BY DEF IInv
<1> QED
  BY <1>1, Invariance, PTL

(* State::groups and State::conns always describe the same registrations.  *)
THEOREM TablesAlwaysAgree == Spec => []TablesAgree
<1>1. IInv => TablesAgree
  BY DEF IInv
<1> QED
  BY <1>1, Invariance, PTL

(* No registration is removed while its server is connected, whichever     *)
(* departures are queued, doubled or late.                                 *)
THEOREM NeverEvicted == Spec => NoEviction
<1> DEFINE Kept == \A id \in DOMAIN conns :
                      remote[conns[id].stream] = "open" /\ up' =>
                        id \in DOMAIN conns' /\ conns'[id] = conns[id]
<1>1. IInv /\ [Next]_vars => [Kept]_vars
  <2> SUFFICES ASSUME IInv, Next, NEW id \in DOMAIN conns,
                      remote[conns[id].stream] = "open", up'
               PROVE  id \in DOMAIN conns' /\ conns'[id] = conns[id]
    OBVIOUS
  <2>1. ASSUME NEW k \in 0..nextId, HandleDeparture(k), RemoveConnection(k)
        PROVE  id \in DOMAIN conns' /\ conns'[id] = conns[id]
    <3>1. 1 \in DOMAIN events /\ events[1] = Departed(k)
      BY <2>1 DEF HandleDeparture, IInv, TypeOK
    <3>2. k \in DOMAIN conns => remote[conns[k].stream] = "closed"
      BY <3>1 DEF IInv, DeparturesDue, Departed
    <3> QED
      BY <2>1, <3>2 DEF RemoveConnection
  <2>2. ASSUME NEW c \in Streams, NEW s, NEW g, AcceptRegistration(c, s, g)
        PROVE  id \in DOMAIN conns' /\ conns'[id] = conns[id]
    BY <2>2 DEF AcceptRegistration, FreshId, IInv, TypeOK
  <2>3. CASE UNCHANGED conns
    BY <2>3
  <2>4. CASE Crash
    BY <2>4 DEF Crash
  <2> QED
    BY <2>1, <2>2, <2>3, <2>4
    DEF Next, HandleEvent, HandleRegistration, HandleDeparture, StaleDeparture,
        RefuseRegistration, AbandonRegistration, Start, Connect, SendRegister,
        CloseRemote, Accept, ReadRegister, ReadRegisterFails, EofWatcher
<1> QED
  BY <1>1, Invariance, PTL DEF Spec, NoEviction

-----------------------------------------------------------------------------
(* What a handler writes *)

(* A group's entries are the connections registered in it. *)
LEMMA PeerIdsAre ==
    ASSUME IInv, NEW g \in Groups
    PROVE  PeerIds(g) = {id \in DOMAIN conns : conns[id].group = g}
<1>1. ASSUME NEW id \in PeerIds(g) PROVE id \in DOMAIN conns /\ conns[id].group = g
  BY <1>1 DEF PeerIds, PeersOf, IInv, TablesAgree
<1>2. ASSUME NEW id \in DOMAIN conns, conns[id].group = g PROVE id \in PeerIds(g)
  <2>1. conns[id].slug \in Slugs /\ groups[g][conns[id].slug] = id /\ id \in Nat
    BY <1>2 DEF IInv, TypeOK, ConnRecord, TablesAgree
  <2>2. Present(g, conns[id].slug)
    BY <2>1 DEF Present, NoId
  <2> QED
    BY <2>1, <2>2 DEF PeerIds, PeersOf
<1> QED
  BY <1>1, <1>2

(* A notification reaches the open streams it is meant for and no others.  *)
LEMMA NotifiedSent ==
    ASSUME IInv, NEW ids \in SUBSET DOMAIN conns, NEW m
    PROVE  /\ \A id \in DOMAIN conns :
                Notified(ids, m)[conns[id].stream] =
                  IF id \in ids /\ remote[conns[id].stream] = "open"
                  THEN Append(sent[conns[id].stream], m) ELSE sent[conns[id].stream]
           /\ \A d \in Streams :
                (\A id \in DOMAIN conns : conns[id].stream # d) =>
                  Notified(ids, m)[d] = sent[d]
<1>1. ASSUME NEW id \in DOMAIN conns
      PROVE  /\ conns[id].stream \in Streams
             /\ conns[id].stream \in Reached(ids) <=>
                  id \in ids /\ remote[conns[id].stream] = "open"
  <2>1. conns[id].stream \in Streams
    BY DEF IInv, TypeOK, ConnRecord
  <2>2. \A k \in ids : conns[k].stream = conns[id].stream => k = id
    BY DEF IInv, TablesAgree
  <2> QED
    BY <2>1, <2>2 DEF Reached
<1>2. ASSUME NEW d \in Streams, \A id \in DOMAIN conns : conns[id].stream # d
      PROVE  d \notin Reached(ids)
  BY <1>2 DEF Reached
<1> QED
  BY <1>1, <1>2 DEF Notified

(* An accepted server gets its Ack, the open members of its group get a    *)
(* PeerJoined.                                                             *)
LEMMA SentByAccept ==
    ASSUME IInv, NEW c \in Streams, HandleRegistration(c),
           NEW s \in Slugs, NEW g \in Groups, AcceptRegistration(c, s, g)
    PROVE  /\ sent'[c] = Append(sent[c], Ack(PeersOf(g)))
           /\ \A id \in DOMAIN conns :
                sent'[conns[id].stream] =
                  IF conns[id].group = g /\ remote[conns[id].stream] = "open"
                  THEN Append(sent[conns[id].stream], PeerJoined(s))
                  ELSE sent[conns[id].stream]
           /\ \A d \in Streams :
                d # c /\ (\A id \in DOMAIN conns : conns[id].stream # d) =>
                  sent'[d] = sent[d]
<1>1. \A id \in DOMAIN conns : conns[id].stream \in Streams /\ conns[id].stream # c
  BY HandledIsNew DEF HandleRegistration, IInv, TypeOK, ConnRecord
<1>2. PeerIds(g) \in SUBSET DOMAIN conns
  BY DEF PeerIds
<1>3. sent' = [Notified(PeerIds(g), PeerJoined(s)) EXCEPT ![c] = Append(@, Ack(PeersOf(g)))]
  BY DEF AcceptRegistration
<1> DEFINE new == Notified(PeerIds(g), PeerJoined(s))
<1>4. /\ \A id \in DOMAIN conns :
           new[conns[id].stream] =
             IF id \in PeerIds(g) /\ remote[conns[id].stream] = "open"
             THEN Append(sent[conns[id].stream], PeerJoined(s))
             ELSE sent[conns[id].stream]
      /\ \A d \in Streams :
           (\A id \in DOMAIN conns : conns[id].stream # d) => new[d] = sent[d]
  BY <1>2, NotifiedSent
<1>5. DOMAIN new = Streams
  BY DEF Notified
<1>6. \A id \in DOMAIN conns : id \in PeerIds(g) <=> conns[id].group = g
  BY PeerIdsAre
<1> HIDE DEF new
<1>7. sent' = [new EXCEPT ![c] = Append(@, Ack(PeersOf(g)))]
  BY <1>3 DEF new
<1>8. sent'[c] = Append(sent[c], Ack(PeersOf(g)))
  BY <1>1, <1>4, <1>5, <1>7
<1>9. \A d \in Streams : d # c => sent'[d] = new[d]
  BY <1>5, <1>7
<1> QED
  BY <1>1, <1>4, <1>6, <1>8, <1>9

(* A departure is told to the open members of the group that remain.       *)
LEMMA SentByRemove ==
    ASSUME IInv, NEW id \in Nat, RemoveConnection(id)
    PROVE  /\ \A k \in DOMAIN conns :
                sent'[conns[k].stream] =
                  IF k # id /\ conns[k].group = conns[id].group
                     /\ remote[conns[k].stream] = "open"
                  THEN Append(sent[conns[k].stream], PeerLeft(conns[id].slug))
                  ELSE sent[conns[k].stream]
           /\ \A d \in Streams :
                (\A k \in DOMAIN conns : conns[k].stream # d) => sent'[d] = sent[d]
<1> DEFINE g == conns[id].group
           peers == PeerIds(g) \ {groups[g][conns[id].slug]}
<1>1. id \in DOMAIN conns /\ g \in Groups /\ groups[g][conns[id].slug] = id
  BY DEF RemoveConnection, IInv, TypeOK, ConnRecord, TablesAgree
<1>2. peers \in SUBSET DOMAIN conns
  BY DEF PeerIds
<1>3. \A k \in DOMAIN conns : k \in peers <=> k # id /\ conns[k].group = g
  BY <1>1, PeerIdsAre
<1>4. sent' = Notified(peers, PeerLeft(conns[id].slug))
  BY DEF RemoveConnection
<1>5. /\ \A k \in DOMAIN conns :
           sent'[conns[k].stream] =
             IF k \in peers /\ remote[conns[k].stream] = "open"
             THEN Append(sent[conns[k].stream], PeerLeft(conns[id].slug))
             ELSE sent[conns[k].stream]
      /\ \A d \in Streams :
           (\A k \in DOMAIN conns : conns[k].stream # d) => sent'[d] = sent[d]
  <2> HIDE DEF peers
  <2> QED
    BY <1>2, <1>4, NotifiedSent
<1> HIDE DEF peers
<1> QED
  BY <1>3, <1>5

-----------------------------------------------------------------------------
(* Steps that write nothing *)

(* Every step but the handlers' keeps frames and tables, opens no stream   *)
(* that a record has, and takes no stream back from a handler.             *)
Early == {"none", "backlog", "reader", "event"}
Keeps ==
    /\ UNCHANGED <<sent, groups, conns>>
    /\ \A c \in Streams : holder'[c] \in Early => holder[c] \in Early
    /\ \A id \in DOMAIN conns :
         remote'[conns[id].stream] = "open" => remote[conns[id].stream] = "open"

LEMMA OthersKeep ==
    ASSUME IInv, Next, ~HandleEvent, ~Crash
    PROVE  Keeps
<1> USE DEF Keeps, IInv, TypeOK, Early
<1>1. CASE Start
  BY <1>1 DEF Start
<1>2. ASSUME NEW c \in Streams, Connect(c) PROVE Keeps
  <2>1. \A id \in DOMAIN conns : conns[id].stream \in Streams /\ conns[id].stream # c
    BY <1>2 DEF Connect, StreamsOwned, ConnRecord
  <2>2. holder[c] = "none"
    BY <1>2 DEF Connect, StreamsOwned
  <2> QED
    BY <1>2, <2>1, <2>2 DEF Connect
<1>3. ASSUME NEW c \in Streams, NEW r \in Registers, SendRegister(c, r) PROVE Keeps
  BY <1>3 DEF SendRegister
<1>4. ASSUME NEW c \in Streams, CloseRemote(c) PROVE Keeps
  BY <1>4 DEF CloseRemote, ConnRecord
<1>5. ASSUME NEW c \in Streams, Accept(c) PROVE Keeps
  BY <1>5 DEF Accept
<1>6. ASSUME NEW c \in Streams, ReadRegister(c) PROVE Keeps
  BY <1>6 DEF ReadRegister
<1>7. ASSUME NEW c \in Streams, ReadRegisterFails(c) PROVE Keeps
  BY <1>7 DEF ReadRegisterFails
<1>8. ASSUME NEW id \in watching, EofWatcher(id) PROVE Keeps
  BY <1>8 DEF EofWatcher
<1> QED
  BY <1>1, <1>2, <1>3, <1>4, <1>5, <1>6, <1>7, <1>8 DEF Next

-----------------------------------------------------------------------------
(* Responses come first *)

(* ResponseFirst of one stream, and of a stream that was acknowledged.     *)
WellFormed(q) ==
    \A i \in DOMAIN q :
        /\ q[i].type \in {"Ack", "Nack"} <=> i = 1
        /\ q[i].type = "Nack" => Len(q) = 1
Acknowledged(q) == q # <<>> /\ q[1].type = "Ack"

(* Nothing is written before the registration is handled, and every record *)
(* was acknowledged.                                                       *)
FramesInv ==
    /\ \A c \in Streams : WellFormed(sent[c])
    /\ \A c \in Streams : holder[c] \in Early => sent[c] = <<>>
    /\ \A id \in DOMAIN conns : Acknowledged(sent[conns[id].stream])

(* A first frame is a response; later ones are notifications. *)
LEMMA FirstFrame ==
    ASSUME NEW m \in Message, m.type \in {"Ack", "Nack"}
    PROVE  WellFormed(Append(<<>>, m))
<1>1. Append(<<>>, m) = <<m>> /\ DOMAIN <<m>> = {1} /\ <<m>>[1] = m /\ Len(<<m>>) = 1
  OBVIOUS
<1> QED
  BY <1>1 DEF WellFormed

LEMMA LaterFrame ==
    ASSUME NEW q \in Seq(Message), WellFormed(q), Acknowledged(q),
           NEW m \in Message, m.type \in {"PeerJoined", "PeerLeft"}
    PROVE  WellFormed(Append(q, m)) /\ Acknowledged(Append(q, m))
<1> DEFINE n == Len(q)
           r == Append(q, m)
<1>1. n \in Nat /\ n # 0 /\ DOMAIN q = 1..n
  BY DEF Acknowledged
<1>2. /\ DOMAIN r = 1..(n + 1)
      /\ r[n + 1] = m
      /\ \A i \in 1..n : r[i] = q[i]
  OBVIOUS
<1>3. r # <<>> /\ r[1].type = "Ack"
  BY <1>1, <1>2 DEF Acknowledged
<1>4. ASSUME NEW i \in DOMAIN r
      PROVE  (r[i].type \in {"Ack", "Nack"} <=> i = 1) /\ r[i].type # "Nack"
  <2>1. CASE i = n + 1
    BY <2>1, <1>1, <1>2
  <2>2. CASE i # n + 1
    <3>1. i \in 1..n /\ r[i] = q[i]
      BY <2>2, <1>1, <1>2
    <3>2. q[i].type \in {"Ack", "Nack"} <=> i = 1
      BY <3>1, <1>1 DEF WellFormed
    <3> QED
      BY <3>1, <3>2, <1>3
  <2> QED
    BY <2>1, <2>2
<1> QED
  BY <1>3, <1>4 DEF WellFormed, Acknowledged

LEMMA FramesInit == Init => FramesInv
  BY DEF Init, NoConns, FramesInv, WellFormed, Early

(* A handler writes to the stream it was handed, and to registered ones.   *)
LEMMA FramesStep ==
    ASSUME IInv, FramesInv, TypeOK', HandleEvent
    PROVE  FramesInv'
<1>1. \A d \in Streams : sent[d] \in Seq(Message)
  BY DEF IInv, TypeOK
<1>2. \A id \in DOMAIN conns : conns[id].stream \in Streams /\ holder[conns[id].stream] = "conns"
  BY DEF IInv, TypeOK, ConnRecord, StreamsOwned
<1>3. ASSUME NEW c \in Streams, HandleRegistration(c), NEW why \in {"duplicate", "mkdir"},
             RefuseRegistration(c, why)
      PROVE  FramesInv'
  <2>1. sent[c] = <<>> /\ \A id \in DOMAIN conns : conns[id].stream # c
    BY <1>3, HandledIsNew DEF HandleRegistration, FramesInv, Early
  <2>2. Nack(why) \in Message /\ Nack(why).type = "Nack"
    BY DEF Nack, Message
  <2>3. sent'[c] = <<>> \/ sent'[c] = Append(<<>>, Nack(why))
    BY <1>3, <2>1 DEF RefuseRegistration, Reply, IInv, TypeOK
  <2>4. WellFormed(sent'[c])
    <3>1. WellFormed(<<>>)
      BY DEF WellFormed
    <3>2. WellFormed(Append(<<>>, Nack(why)))
      BY <2>2, FirstFrame
    <3> QED
      BY <2>3, <3>1, <3>2
  <2>5. \A d \in Streams : d # c => sent'[d] = sent[d] /\ holder'[d] = holder[d]
    BY <1>3 DEF RefuseRegistration, Reply, IInv, TypeOK
  <2>6. holder'[c] = "dropped" /\ conns' = conns
    BY <1>3 DEF RefuseRegistration, IInv, TypeOK
  <2> QED
    BY <1>2, <2>1, <2>4, <2>5, <2>6 DEF FramesInv, Early
<1>4. ASSUME NEW c \in Streams, NEW s, HandleRegistration(c), AbandonRegistration(c, s)
      PROVE  FramesInv'
  <2>1. UNCHANGED <<sent, conns>> /\ \A d \in Streams : holder'[d] \in {holder[d], "dropped"}
    BY <1>4 DEF AbandonRegistration, IInv, TypeOK
  <2> QED
    BY <2>1 DEF FramesInv, Early
<1>5. ASSUME NEW c \in Streams, NEW s \in Slugs, NEW g \in Groups,
             HandleRegistration(c), AcceptRegistration(c, s, g)
      PROVE  FramesInv'
  <2>1. sent[c] = <<>> /\ \A id \in DOMAIN conns : conns[id].stream # c
    BY <1>5, HandledIsNew DEF HandleRegistration, FramesInv, Early
  <2>2. Ack(PeersOf(g)) \in Message /\ Ack(PeersOf(g)).type = "Ack"
    BY DEF Ack, Message, PeersOf
  <2>3. PeerJoined(s) \in Message /\ PeerJoined(s).type = "PeerJoined"
    BY DEF PeerJoined, Message
  <2>4. WellFormed(sent'[c]) /\ Acknowledged(sent'[c])
    <3>1. sent'[c] = Append(<<>>, Ack(PeersOf(g)))
      BY <1>5, <2>1, SentByAccept
    <3> QED
      BY <3>1, <2>2, FirstFrame DEF Acknowledged
  <2>5. ASSUME NEW id \in DOMAIN conns
        PROVE  WellFormed(sent'[conns[id].stream]) /\ Acknowledged(sent'[conns[id].stream])
    <3> DEFINE q == sent[conns[id].stream]
    <3>1. q \in Seq(Message) /\ WellFormed(q) /\ Acknowledged(q)
      BY <1>1, <1>2 DEF FramesInv
    <3>2. sent'[conns[id].stream] = q \/ sent'[conns[id].stream] = Append(q, PeerJoined(s))
      BY <1>5, SentByAccept
    <3> HIDE DEF q
    <3> QED
      BY <3>1, <3>2, <2>3, LaterFrame
  <2>6. ASSUME NEW d \in Streams, d # c, \A id \in DOMAIN conns : conns[id].stream # d
        PROVE  sent'[d] = sent[d]
    BY <1>5, <2>6, SentByAccept
  <2>7. ASSUME NEW id \in DOMAIN conns' PROVE Acknowledged(sent'[conns'[id].stream])
    <3>1. conns'[id].stream = c \/ (id \in DOMAIN conns /\ conns'[id] = conns[id])
      BY <1>5 DEF AcceptRegistration
    <3> QED
      BY <3>1, <2>4, <2>5
  <2>8. ASSUME NEW d \in Streams, holder'[d] \in Early PROVE sent'[d] = <<>>
    <3>1. d # c /\ holder'[d] = holder[d]
      BY <1>5, <2>8 DEF AcceptRegistration, IInv, TypeOK, Early
    <3>2. \A id \in DOMAIN conns : conns[id].stream # d
      BY <1>2, <2>8, <3>1 DEF Early
    <3> QED
      BY <2>6, <2>8, <3>1, <3>2 DEF FramesInv
  <2>9. ASSUME NEW d \in Streams PROVE WellFormed(sent'[d])
    BY <2>4, <2>5, <2>6 DEF FramesInv
  <2> QED
    BY <2>7, <2>8, <2>9 DEF FramesInv
<1>6. ASSUME NEW id \in Nat, HandleDeparture(id), StaleDeparture(id) PROVE FramesInv'
  BY <1>6 DEF StaleDeparture, FramesInv
<1>7. ASSUME NEW id \in Nat, HandleDeparture(id), RemoveConnection(id) PROVE FramesInv'
  <2> DEFINE m == PeerLeft(conns[id].slug)
  <2>1. m \in Message /\ m.type = "PeerLeft"
    BY <1>7 DEF PeerLeft, Message, RemoveConnection, IInv, TypeOK, ConnRecord
  <2>2. ASSUME NEW k \in DOMAIN conns
        PROVE  WellFormed(sent'[conns[k].stream]) /\ Acknowledged(sent'[conns[k].stream])
    <3> DEFINE q == sent[conns[k].stream]
    <3>1. q \in Seq(Message) /\ WellFormed(q) /\ Acknowledged(q)
      BY <1>1, <1>2 DEF FramesInv
    <3>2. sent'[conns[k].stream] = q \/ sent'[conns[k].stream] = Append(q, m)
      BY <1>7, SentByRemove
    <3> HIDE DEF q, m
    <3> QED
      BY <3>1, <3>2, <2>1, LaterFrame
  <2>3. ASSUME NEW d \in Streams, \A k \in DOMAIN conns : conns[k].stream # d
        PROVE  sent'[d] = sent[d]
    BY <1>7, <2>3, SentByRemove
  <2>4. \A k \in DOMAIN conns' : k \in DOMAIN conns /\ conns'[k] = conns[k]
    BY <1>7 DEF RemoveConnection
  <2>5. ASSUME NEW d \in Streams, holder'[d] \in Early PROVE sent'[d] = <<>>
    <3>1. holder'[d] = holder[d]
      BY <1>7, <2>5 DEF RemoveConnection, IInv, TypeOK, Early
    <3>2. \A k \in DOMAIN conns : conns[k].stream # d
      BY <1>2, <2>5, <3>1 DEF Early
    <3> QED
      BY <2>3, <2>5, <3>1, <3>2 DEF FramesInv
  <2>6. ASSUME NEW d \in Streams PROVE WellFormed(sent'[d])
    BY <2>2, <2>3 DEF FramesInv
  <2> QED
    BY <2>2, <2>4, <2>5, <2>6 DEF FramesInv
<1>8. ASSUME NEW c \in Streams, HandleRegistration(c) PROVE FramesInv'
  <2>1. request[c][1] \in Slugs /\ request[c][2] \in Groups
    BY <1>8, HandledIsNew, RegistersAssumption DEF HandleRegistration
  <2> QED
    BY <1>3, <1>4, <1>5, <1>8, <2>1 DEF HandleRegistration
<1>9. ASSUME NEW id \in 0..nextId, HandleDeparture(id) PROVE FramesInv'
  BY <1>6, <1>7, <1>9 DEF HandleDeparture, IInv, TypeOK
<1> QED
  BY <1>8, <1>9 DEF HandleEvent

LEMMA FramesNext == IInv /\ TypeOK' /\ FramesInv /\ [Next]_vars => FramesInv'
<1> SUFFICES ASSUME IInv, TypeOK', FramesInv, [Next]_vars PROVE FramesInv'
  OBVIOUS
<1>1. CASE HandleEvent
  BY <1>1, FramesStep
<1>2. CASE Crash
  BY <1>2 DEF Crash, NoConns, FramesInv, IInv, TypeOK, Early
<1>3. CASE Next /\ ~HandleEvent /\ ~Crash
  BY <1>3, OthersKeep DEF Keeps, FramesInv
<1>4. CASE UNCHANGED vars
  BY <1>4 DEF vars, FramesInv
<1> QED
  BY <1>1, <1>2, <1>3, <1>4

(* Whatever is refused, lost or queued, each stream carries one response,  *)
(* first, as connect_and_register and read_notification require.           *)
THEOREM ResponseAlwaysFirst == Spec => []ResponseFirst
<1>1. IInv => TypeOK
  BY DEF IInv
<1>2. FramesInv => ResponseFirst
  BY DEF FramesInv, WellFormed, ResponseFirst
<1> QED
  BY <1>1, <1>2, Invariance, FramesInit, FramesNext, PTL DEF Spec

-----------------------------------------------------------------------------
(* Frames add up to the group *)

(* Believes, of a sequence of frames. *)
Belief(q, t) ==
    \E i \in DOMAIN q :
        /\ Announces(q[i], t)
        /\ \A j \in DOMAIN q : j > i => ~Withdraws(q[j], t)

(* One more frame announces, withdraws, or changes nothing. *)
LEMMA BeliefAppend ==
    ASSUME NEW q \in Seq(Message), NEW m \in Message, NEW t
    PROVE  Belief(Append(q, m), t) <=>
             Announces(m, t) \/ (Belief(q, t) /\ ~Withdraws(m, t))
<1> DEFINE n == Len(q)
           r == Append(q, m)
<1>1. /\ n \in Nat /\ DOMAIN q = 1..n /\ DOMAIN r = 1..(n + 1)
      /\ r[n + 1] = m
      /\ \A i \in 1..n : r[i] = q[i]
  OBVIOUS
<1> HIDE DEF r, n
<1>2. ASSUME Belief(r, t) PROVE Announces(m, t) \/ (Belief(q, t) /\ ~Withdraws(m, t))
  <2>1. PICK i \in DOMAIN r :
           Announces(r[i], t) /\ \A j \in DOMAIN r : j > i => ~Withdraws(r[j], t)
    BY <1>2 DEF Belief
  <2>2. CASE i = n + 1
    BY <2>1, <2>2, <1>1
  <2>3. CASE i # n + 1
    <3>1. i \in 1..n /\ n + 1 \in DOMAIN r /\ n + 1 > i
      BY <2>3, <1>1
    <3>2. ~Withdraws(m, t)
      BY <2>1, <3>1, <1>1
    <3>3. \A j \in 1..n : j \in DOMAIN r /\ r[j] = q[j]
      BY <1>1
    <3>4. Belief(q, t)
      BY <2>1, <3>1, <3>3, <1>1 DEF Belief
    <3> QED
      BY <3>2, <3>4
  <2> QED
    BY <2>2, <2>3
<1>3. ASSUME Announces(m, t) PROVE Belief(r, t)
  <2>1. n + 1 \in DOMAIN r /\ \A j \in DOMAIN r : ~(j > n + 1)
    BY <1>1
  <2> QED
    BY <1>3, <2>1, <1>1 DEF Belief
<1>4. ASSUME Belief(q, t), ~Withdraws(m, t) PROVE Belief(r, t)
  <2>1. PICK i \in DOMAIN q :
           Announces(q[i], t) /\ \A j \in DOMAIN q : j > i => ~Withdraws(q[j], t)
    BY <1>4 DEF Belief
  <2>2. i \in DOMAIN r /\ r[i] = q[i]
    BY <1>1
  <2>3. ASSUME NEW j \in DOMAIN r, j > i PROVE ~Withdraws(r[j], t)
    <3>1. CASE j = n + 1
      BY <3>1, <1>1, <1>4
    <3>2. CASE j # n + 1
      <4>1. j \in DOMAIN q /\ r[j] = q[j]
        BY <3>2, <1>1
      <4> QED
        BY <4>1, <2>1, <2>3
    <3> QED
      BY <3>1, <3>2
  <2> QED
    BY <2>1, <2>2, <2>3 DEF Belief
<1> QED
  BY <1>2, <1>3, <1>4 DEF r

(* What a server of a group should believe. *)
OtherMember(id, t) == Present(conns[id].group, t) /\ t # conns[id].slug

LEMMA ViewsAre ==
    ViewsExact <=>
      \A id \in DOMAIN conns : remote[conns[id].stream] = "open" =>
        \A t \in Slugs : Belief(sent[conns[id].stream], t) <=> OtherMember(id, t)
  BY DEF ViewsExact, Believes, Belief, OtherMember

LEMMA ViewsAfterAccept ==
    ASSUME IInv, FramesInv, ViewsExact, NEW c \in Streams, HandleRegistration(c),
           NEW s \in Slugs, NEW g \in Groups, ~Duplicate(g, s),
           AcceptRegistration(c, s, g)
    PROVE  ViewsExact'
<1>1. /\ remote' = remote
      /\ groups' = [groups EXCEPT ![g][s] = nextId]
      /\ conns' = [i \in DOMAIN conns \cup {nextId} |->
                     IF i = nextId THEN [slug |-> s, group |-> g, stream |-> c] ELSE conns[i]]
  BY DEF HandleRegistration, AcceptRegistration, FreshId
<1>2. nextId \in Nat /\ nextId \notin DOMAIN conns /\ nextId # NoId
  BY DEF IInv, TypeOK, NoId
<1>3. \A h \in Groups, t \in Slugs :
         groups'[h][t] # NoId <=> (h = g /\ t = s) \/ Present(h, t)
  <2>1. \A h \in Groups, t \in Slugs :
           groups'[h][t] = IF h = g /\ t = s THEN nextId ELSE groups[h][t]
    BY <1>1 DEF IInv, TypeOK
  <2> QED
    BY <2>1, <1>2 DEF Present
<1>4. ~Present(g, s)
  BY DEF Duplicate
<1>5. ASSUME NEW t \in Slugs
      PROVE  Belief(sent'[c], t) <=> groups'[g][t] # NoId /\ t # s
  <2>1. sent[c] = <<>> /\ sent[c] \in Seq(Message)
    BY HandledIsNew DEF HandleRegistration, FramesInv, Early, IInv, TypeOK
  <2>2. Ack(PeersOf(g)) \in Message
    BY DEF Ack, Message, PeersOf
  <2>3. sent'[c] = Append(sent[c], Ack(PeersOf(g)))
    BY SentByAccept
  <2>4. ~Belief(sent[c], t)
    BY <2>1 DEF Belief
  <2>5. Announces(Ack(PeersOf(g)), t) <=> Present(g, t)
    BY DEF Announces, Ack, PeersOf
  <2>6. Belief(sent'[c], t) <=> Present(g, t)
    BY <2>1, <2>2, <2>3, <2>4, <2>5, BeliefAppend
  <2> QED
    BY <2>6, <1>3, <1>4
<1>6. ASSUME NEW id \in DOMAIN conns, remote[conns[id].stream] = "open", NEW t \in Slugs
      PROVE  Belief(sent'[conns[id].stream], t) <=>
               groups'[conns[id].group][t] # NoId /\ t # conns[id].slug
  <2> DEFINE q == sent[conns[id].stream]
  <2>1. Belief(q, t) <=> Present(conns[id].group, t) /\ t # conns[id].slug
    BY <1>6, ViewsAre DEF OtherMember
  <2>2. conns[id] \in ConnRecord /\ q \in Seq(Message)
    BY DEF IInv, TypeOK, ConnRecord
  <2>3. CASE conns[id].group = g
    <3>1. sent'[conns[id].stream] = Append(q, PeerJoined(s))
      BY <1>6, <2>3, SentByAccept
    <3>2. /\ PeerJoined(s) \in Message
          /\ Announces(PeerJoined(s), t) <=> t = s
          /\ ~Withdraws(PeerJoined(s), t)
      BY DEF PeerJoined, Message, Announces, Withdraws
    <3>3. Belief(sent'[conns[id].stream], t) <=> t = s \/ Belief(q, t)
      BY <2>2, <3>1, <3>2, BeliefAppend
    <3>4. conns[id].slug # s
      <4>1. groups[conns[id].group][conns[id].slug] = id /\ id \in Nat
        BY DEF IInv, TablesAgree, TypeOK
      <4> QED
        BY <4>1, <2>3, <1>4 DEF Present, NoId
    <3>5. conns[id].group \in Groups
      BY <2>2 DEF ConnRecord
    <3> QED
      BY <2>1, <2>3, <3>3, <3>4, <3>5, <1>3
  <2>4. CASE conns[id].group # g
    <3>1. sent'[conns[id].stream] = q
      BY <2>4, SentByAccept
    <3>2. conns[id].group \in Groups
      BY <2>2 DEF ConnRecord
    <3> QED
      BY <2>1, <2>4, <3>1, <3>2, <1>3
  <2> QED
    BY <2>3, <2>4
<1>7. ASSUME NEW id \in DOMAIN conns', remote'[conns'[id].stream] = "open", NEW t \in Slugs
      PROVE  Belief(sent'[conns'[id].stream], t) <=>
               groups'[conns'[id].group][t] # NoId /\ t # conns'[id].slug
  <2>1. CASE id = nextId
    BY <2>1, <1>1, <1>5
  <2>2. CASE id # nextId
    <3>1. id \in DOMAIN conns /\ conns'[id] = conns[id]
      BY <2>2, <1>1
    <3> QED
      BY <3>1, <1>1, <1>6, <1>7
  <2> QED
    BY <2>1, <2>2
<1> QED
  BY <1>7 DEF ViewsExact, Believes, Belief, Present

(* The remaining members learn of the departure of rec.slug alone.         *)
LEMMA ViewsAfterRemove ==
    ASSUME IInv, ViewsExact, NEW gone \in Nat, HandleDeparture(gone),
           RemoveConnection(gone)
    PROVE  ViewsExact'
<1> DEFINE s == conns[gone].slug
           g == conns[gone].group
<1>1. /\ remote' = remote
      /\ gone \in DOMAIN conns /\ s \in Slugs /\ g \in Groups
      /\ groups' = [groups EXCEPT ![g][s] = NoId]
      /\ conns' = [i \in DOMAIN conns \ {gone} |-> conns[i]]
  BY DEF HandleDeparture, RemoveConnection, IInv, TypeOK, ConnRecord
<1>2. \A h \in Groups, t \in Slugs :
         groups'[h][t] # NoId <=> Present(h, t) /\ ~(h = g /\ t = s)
  <2>1. \A h \in Groups, t \in Slugs :
           groups'[h][t] = IF h = g /\ t = s THEN NoId ELSE groups[h][t]
    BY <1>1 DEF IInv, TypeOK
  <2> QED
    BY <2>1 DEF Present
<1> HIDE DEF s, g
<1>3. ASSUME NEW id \in DOMAIN conns, id # gone, remote[conns[id].stream] = "open",
             NEW t \in Slugs
      PROVE  Belief(sent'[conns[id].stream], t) <=>
               groups'[conns[id].group][t] # NoId /\ t # conns[id].slug
  <2> DEFINE q == sent[conns[id].stream]
  <2>1. Belief(q, t) <=> Present(conns[id].group, t) /\ t # conns[id].slug
    BY <1>3, ViewsAre DEF OtherMember
  <2>2. q \in Seq(Message) /\ conns[id].group \in Groups
    BY DEF IInv, TypeOK, ConnRecord
  <2>3. CASE conns[id].group = g
    <3>1. sent'[conns[id].stream] = Append(q, PeerLeft(s))
      BY <1>3, <2>3, SentByRemove DEF s, g
    <3>2. /\ PeerLeft(s) \in Message
          /\ ~Announces(PeerLeft(s), t)
          /\ Withdraws(PeerLeft(s), t) <=> t = s
      BY <1>1 DEF PeerLeft, Message, Announces, Withdraws
    <3>3. Belief(sent'[conns[id].stream], t) <=> Belief(q, t) /\ t # s
      BY <2>2, <3>1, <3>2, BeliefAppend
    <3> QED
      BY <2>1, <2>2, <2>3, <3>3, <1>2
  <2>4. CASE conns[id].group # g
    <3>1. sent'[conns[id].stream] = q
      BY <1>3, <2>4, SentByRemove DEF g
    <3> QED
      BY <2>1, <2>2, <2>4, <3>1, <1>2
  <2> QED
    BY <2>3, <2>4
<1>4. ASSUME NEW id \in DOMAIN conns', remote'[conns'[id].stream] = "open", NEW t \in Slugs
      PROVE  Belief(sent'[conns'[id].stream], t) <=>
               groups'[conns'[id].group][t] # NoId /\ t # conns'[id].slug
  <2>1. id \in DOMAIN conns /\ id # gone /\ conns'[id] = conns[id]
    BY <1>1
  <2> QED
    BY <2>1, <1>1, <1>3, <1>4
<1> QED
  BY <1>4 DEF ViewsExact, Believes, Belief, Present

(* Steps that write to no registered stream. *)
LEMMA ViewsKept ==
    ASSUME ViewsExact, UNCHANGED <<groups, conns>>,
           \A id \in DOMAIN conns :
              /\ sent'[conns[id].stream] = sent[conns[id].stream]
              /\ remote'[conns[id].stream] = "open" => remote[conns[id].stream] = "open"
    PROVE  ViewsExact'
  BY DEF ViewsExact, Believes, Present

LEMMA ViewsNext == IInv /\ FramesInv /\ ViewsExact /\ [Next]_vars => ViewsExact'
<1> SUFFICES ASSUME IInv, FramesInv, ViewsExact, [Next]_vars PROVE ViewsExact'
  OBVIOUS
<1>1. ASSUME NEW c \in Streams, HandleRegistration(c) PROVE ViewsExact'
  <2> DEFINE s == request[c][1]
             g == request[c][2]
  <2>1. s \in Slugs /\ g \in Groups
    BY <1>1, HandledIsNew, RegistersAssumption DEF HandleRegistration
  <2>2. \A id \in DOMAIN conns : conns[id].stream # c
    BY <1>1, HandledIsNew DEF HandleRegistration
  <2>3. ASSUME NEW why, RefuseRegistration(c, why) PROVE ViewsExact'
    <3>1. UNCHANGED <<remote, groups, conns>>
      BY <1>1, <2>3 DEF HandleRegistration, RefuseRegistration
    <3>2. \A d \in Streams : d # c => sent'[d] = sent[d]
      BY <2>3 DEF RefuseRegistration, Reply, IInv, TypeOK
    <3>3. \A id \in DOMAIN conns : sent'[conns[id].stream] = sent[conns[id].stream]
      BY <2>2, <3>2 DEF IInv, TypeOK, ConnRecord
    <3> QED
      BY <3>1, <3>3, ViewsKept
  <2>4. CASE AbandonRegistration(c, s)
    BY <1>1, <2>4, ViewsKept DEF HandleRegistration, AbandonRegistration
  <2>5. CASE ~Duplicate(g, s) /\ AcceptRegistration(c, s, g)
    BY <1>1, <2>1, <2>5, ViewsAfterAccept
  <2> QED
    BY <1>1, <2>3, <2>4, <2>5 DEF HandleRegistration
<1>2. ASSUME NEW id \in 0..nextId, HandleDeparture(id) PROVE ViewsExact'
  <2>1. CASE StaleDeparture(id)
    BY <1>2, <2>1, ViewsKept DEF HandleDeparture, StaleDeparture
  <2>2. CASE RemoveConnection(id)
    BY <1>2, <2>2, ViewsAfterRemove DEF IInv, TypeOK
  <2> QED
    BY <1>2, <2>1, <2>2 DEF HandleDeparture
<1>3. CASE Crash
  BY <1>3 DEF Crash, NoConns, ViewsExact
<1>4. CASE Next /\ ~HandleEvent /\ ~Crash
  BY <1>4, OthersKeep, ViewsKept DEF Keeps
<1>5. CASE UNCHANGED vars
  BY <1>5, ViewsKept DEF vars
<1> QED
  BY <1>1, <1>2, <1>3, <1>4, <1>5 DEF HandleEvent

(* The frames of every registered server that can still read them add up   *)
(* to the other members of its group.                                      *)
THEOREM ViewsAlwaysExact == Spec => []ViewsExact
<1>1. Init => ViewsExact
  BY DEF Init, NoConns, ViewsExact
<1>2. IInv => TypeOK
  BY DEF IInv
<1> QED
  BY <1>1, <1>2, Invariance, FramesInit, FramesNext, ViewsNext, PTL DEF Spec

-----------------------------------------------------------------------------
(* Directories are those of the registered servers *)

(* No slug is registered in two groups, as when every repository has one   *)
(* peer group.                                                             *)
OneGroupPerSlug == \A r, q \in Registers : r[1] = q[1] => r = q

(* A supervisor that is down has nothing queued and no connection. *)
DownIsEmpty ==
    ~up => /\ events = <<>>
           /\ DOMAIN conns = {}
           /\ \A c \in Streams : holder[c] \in {"none", "dropped"}
DirsInv ==
    /\ DirsExact
    /\ \A id \in DOMAIN conns : <<conns[id].slug, conns[id].group>> \in Registers
    /\ DownIsEmpty

(* A free slug has no record at all. *)
LEMMA FreeEverywhere ==
    ASSUME IInv, OneGroupPerSlug,
           \A id \in DOMAIN conns : <<conns[id].slug, conns[id].group>> \in Registers,
           NEW s \in Slugs, NEW g \in Groups, <<s, g>> \in Registers, ~Duplicate(g, s)
    PROVE  \A id \in DOMAIN conns : conns[id].slug # s
<1> SUFFICES ASSUME NEW id \in DOMAIN conns, conns[id].slug = s PROVE FALSE
  OBVIOUS
<1>1. <<s, conns[id].group>> \in Registers
  OBVIOUS
<1>2. conns[id].group = g
  BY <1>1 DEF OneGroupPerSlug
<1>3. groups[g][s] = id /\ id \in Nat
  BY <1>2 DEF IInv, TablesAgree, TypeOK
<1> QED
  BY <1>3 DEF Duplicate, Present, NoId

(* Each handler keeps the directories those of the records. *)
LEMMA DirsAfterRegistration ==
    ASSUME IInv, DirsInv, OneGroupPerSlug, NEW c \in Streams, HandleRegistration(c)
    PROVE  DirsInv'
<1> DEFINE s == request[c][1]
           g == request[c][2]
<1>1. request[c] \in Registers /\ s \in Slugs /\ g \in Groups /\ <<s, g>> = request[c]
  BY HandledIsNew, RegistersAssumption DEF HandleRegistration
<1>2. up /\ up'
  BY DEF HandleRegistration, DirsInv, DownIsEmpty
<1> HIDE DEF s, g
<1>3. ASSUME NEW why, RefuseRegistration(c, why) PROVE DirsInv'
  BY <1>2, <1>3 DEF RefuseRegistration, DirsInv, DirsExact, DownIsEmpty
<1>4. CASE ~Duplicate(g, s) /\ AbandonRegistration(c, s)
  <2>1. \A id \in DOMAIN conns : conns[id].slug # s
    BY <1>1, <1>4, FreeEverywhere DEF DirsInv
  <2>2. conns' = conns
    BY <1>4 DEF HandleRegistration, AbandonRegistration
  <2>3. RemoveDir(s) \/ RemovalFails(s)
    BY <1>4 DEF AbandonRegistration
  <2>4. DirsExact'
    BY <1>2, <2>1, <2>2, <2>3 DEF DirsInv, DirsExact, RemoveDir, RemovalFails
  <2> QED
    BY <1>2, <2>2, <2>4 DEF DirsInv, DownIsEmpty
<1>5. CASE AcceptRegistration(c, s, g)
  <2>1. /\ dirs' = dirs \cup {s} /\ undeleted' = undeleted \ {s}
        /\ conns' = [i \in DOMAIN conns \cup {nextId} |->
                       IF i = nextId THEN [slug |-> s, group |-> g, stream |-> c]
                                     ELSE conns[i]]
        /\ nextId \notin DOMAIN conns
    BY <1>5 DEF AcceptRegistration, FreshId, IInv, TypeOK
  <2>2. {conns'[id].slug : id \in DOMAIN conns'} = {conns[id].slug : id \in DOMAIN conns} \cup {s}
    BY <2>1
  <2>3. \A id \in DOMAIN conns' : <<conns'[id].slug, conns'[id].group>> \in Registers
    BY <1>1, <2>1 DEF DirsInv
  <2>4. DirsExact'
    BY <1>2, <2>1, <2>2 DEF DirsInv, DirsExact
  <2> QED
    BY <1>2, <2>3, <2>4 DEF DirsInv, DownIsEmpty
<1> QED
  BY <1>3, <1>4, <1>5 DEF HandleRegistration, s, g

LEMMA DirsAfterDeparture ==
    ASSUME IInv, DirsInv, OneGroupPerSlug, NEW gone \in Nat, HandleDeparture(gone)
    PROVE  DirsInv'
<1>1. up /\ up'
  BY DEF HandleDeparture, DirsInv, DownIsEmpty
<1>2. CASE StaleDeparture(gone)
  BY <1>1, <1>2 DEF StaleDeparture, DirsInv, DirsExact, DownIsEmpty
<1>3. CASE RemoveConnection(gone)
  <2> DEFINE s == conns[gone].slug
  <2>1. /\ gone \in DOMAIN conns
        /\ conns' = [i \in DOMAIN conns \ {gone} |-> conns[i]]
        /\ RemoveDir(s) \/ RemovalFails(s)
    BY <1>3 DEF RemoveConnection
  <2>2. ASSUME NEW id \in DOMAIN conns, conns[id].slug = s PROVE id = gone
    <3>1. <<s, conns[id].group>> = <<s, conns[gone].group>>
      BY <2>1, <2>2 DEF DirsInv, OneGroupPerSlug
    <3> QED
      BY <2>1, <2>2, <3>1 DEF IInv, TablesAgree
  <2>3. {conns'[id].slug : id \in DOMAIN conns'} = {conns[id].slug : id \in DOMAIN conns} \ {s}
    BY <2>1, <2>2
  <2> HIDE DEF s
  <2>4. s \in {conns[id].slug : id \in DOMAIN conns}
    BY <2>1 DEF s
  <2>5. DirsExact'
    BY <1>1, <2>1, <2>3, <2>4 DEF DirsInv, DirsExact, RemoveDir, RemovalFails
  <2> QED
    BY <1>1, <2>1, <2>5 DEF DirsInv, DownIsEmpty
<1> QED
  BY <1>2, <1>3 DEF HandleDeparture

LEMMA DirsNext == OneGroupPerSlug /\ IInv /\ DirsInv /\ [Next]_vars => DirsInv'
<1> SUFFICES ASSUME OneGroupPerSlug, IInv, DirsInv, [Next]_vars PROVE DirsInv'
  OBVIOUS
<1>1. CASE HandleEvent
  BY <1>1, DirsAfterRegistration, DirsAfterDeparture DEF HandleEvent, IInv, TypeOK
<1>2. CASE Crash
  BY <1>2 DEF Crash, NoConns, DirsInv, DirsExact, DownIsEmpty
<1>3. CASE Start
  BY <1>3 DEF Start, DirsInv, DirsExact, DownIsEmpty
<1> USE DEF DirsInv, DirsExact, DownIsEmpty, IInv, TypeOK
<1>4. ASSUME NEW c \in Streams, Connect(c) PROVE DirsInv'
  BY <1>4 DEF Connect
<1>5. ASSUME NEW c \in Streams, NEW r \in Registers, SendRegister(c, r) PROVE DirsInv'
  BY <1>5 DEF SendRegister
<1>6. ASSUME NEW c \in Streams, CloseRemote(c) PROVE DirsInv'
  BY <1>6 DEF CloseRemote
<1>7. ASSUME NEW c \in Streams, Accept(c) PROVE DirsInv'
  BY <1>7 DEF Accept
<1>8. ASSUME NEW c \in Streams, ReadRegister(c) PROVE DirsInv'
  BY <1>8 DEF ReadRegister
<1>9. ASSUME NEW c \in Streams, ReadRegisterFails(c) PROVE DirsInv'
  BY <1>9 DEF ReadRegisterFails
<1>10. ASSUME NEW id \in watching, EofWatcher(id) PROVE DirsInv'
  BY <1>10 DEF EofWatcher
<1>11. CASE UNCHANGED vars
  BY <1>11 DEF vars
<1> QED
  BY <1>1, <1>2, <1>3, <1>4, <1>5, <1>6, <1>7, <1>8, <1>9, <1>10, <1>11 DEF Next

(* Departures, refusals, abandoned registrations and restarts leave no     *)
(* directory behind but those that a failed remove_dir_all left, and take  *)
(* none away, if no slug is in two groups (run supervisor_shared_slug shows*)
(* what happens if one is).                                                *)
THEOREM DirsAlwaysExact ==
    ASSUME OneGroupPerSlug
    PROVE  Spec => []DirsExact
<1>1. Init => DirsInv
  BY DEF Init, NoConns, DirsInv, DirsExact, DownIsEmpty
<1>2. IInv /\ DirsInv /\ [Next]_vars => DirsInv'
  BY DirsNext
<1>3. DirsInv => DirsExact
  BY DEF DirsInv
<1> QED
  BY <1>1, <1>2, <1>3, Invariance, PTL DEF Spec

-----------------------------------------------------------------------------
(* What records, holders and watchers owe to each other                    *)

(* A record holds what its server sent; a stream that is held has a record;*)
(* a stream has an owner as soon as it is connected and a request only     *)
(* then; a refused stream is dropped; a server whose watcher has ended has *)
(* its departure queued.                                                   *)
RecordsMatch ==
    \A id \in DOMAIN conns :
        /\ request[conns[id].stream] \in Registers
        /\ request[conns[id].stream] = <<conns[id].slug, conns[id].group>>
HeldIsRecorded ==
    \A c \in Streams : holder[c] = "conns" => \E id \in DOMAIN conns : conns[id].stream = c
ConnectedIsOwned ==
    \A c \in Streams : /\ remote[c] # "idle" => holder[c] # "none"
                       /\ remote[c] = "idle" => request[c] = NoRequest
RefusedIsDropped ==
    \A c \in Streams : \A i \in DOMAIN sent[c] :
        sent[c][i].type = "Nack" => holder[c] = "dropped"
LossQueued ==
    \A id \in DOMAIN conns \ watching : \E i \in DOMAIN events : events[i] = Departed(id)

RecordsInv ==
    /\ RecordsMatch /\ HeldIsRecorded /\ ConnectedIsOwned
    /\ RefusedIsDropped /\ LossQueued /\ DownIsEmpty

LEMMA RecordsInit == Init => RecordsInv /\ DirOfLiveServer
  BY DEF Init, NoConns, RecordsInv, RecordsMatch, HeldIsRecorded, ConnectedIsOwned,
         RefusedIsDropped, LossQueued, DownIsEmpty, DirOfLiveServer

(* A record's slug and group are a pair that servers send. *)
LEMMA RecordsRegistered ==
    ASSUME IInv, RecordsMatch
    PROVE  \A id \in DOMAIN conns : /\ conns[id].stream \in Streams
                                    /\ conns[id].slug \in Slugs
                                    /\ conns[id].group \in Groups
                                    /\ <<conns[id].slug, conns[id].group>> \in Registers
  BY DEF IInv, TypeOK, ConnRecord, RecordsMatch

LEMMA RecordsOutside ==
    ASSUME IInv, RecordsInv, Next, ~HandleEvent
    PROVE  RecordsInv'
<1> USE DEF RecordsInv, IInv
<1> DEFINE Others == RecordsMatch' /\ HeldIsRecorded' /\ ConnectedIsOwned' /\ RefusedIsDropped'
<1> USE DEF RecordsMatch, HeldIsRecorded, ConnectedIsOwned, RefusedIsDropped
<1>0. /\ holder \in [Streams -> Holder]
      /\ \A id \in DOMAIN conns : conns[id].stream \in Streams
  BY DEF TypeOK, ConnRecord
<1>1. CASE Crash
  <2>1. holder' = [c \in Streams |-> IF holder[c] = "none" THEN "none" ELSE "dropped"]
    BY <1>1 DEF Crash
  <2>2. RefusedIsDropped' /\ HeldIsRecorded'
    BY <1>1, <2>1 DEF Crash
  <2>3. RecordsMatch' /\ ConnectedIsOwned'
    BY <1>1, <2>1 DEF Crash, NoConns
  <2>4. LossQueued' /\ DownIsEmpty'
    BY <1>1, <2>1 DEF Crash, NoConns, LossQueued, DownIsEmpty
  <2>. QED  BY <2>2, <2>3, <2>4
<1>2. CASE Start
  BY <1>2 DEF Start, LossQueued, DownIsEmpty
<1>3. ASSUME NEW c \in Streams, Connect(c) PROVE RecordsInv'
  <2>1. holder[c] = "none" /\ \A id \in DOMAIN conns : conns[id].stream # c
    BY <1>3 DEF Connect, StreamsOwned
  <2>2. Others
    BY <1>3, <2>1 DEF Connect, TypeOK
  <2>. QED  BY <1>3, <2>2 DEF Connect, LossQueued, DownIsEmpty
<1>4. ASSUME NEW c \in Streams, NEW r \in Registers, SendRegister(c, r) PROVE RecordsInv'
  <2>1. Others
    BY <1>4, <1>0, RegistersAssumption DEF SendRegister, TypeOK
  <2>. QED  BY <1>4, <2>1 DEF SendRegister, LossQueued, DownIsEmpty
<1>5. ASSUME NEW c \in Streams, CloseRemote(c) PROVE RecordsInv'
  <2>1. Others
    BY <1>5 DEF CloseRemote, TypeOK
  <2>. QED  BY <1>5, <2>1 DEF CloseRemote, LossQueued, DownIsEmpty
<1>6. ASSUME NEW c \in Streams, Accept(c) PROVE RecordsInv'
  <2>1. Others
    BY <1>6 DEF Accept, TypeOK
  <2>2. LossQueued'
    BY <1>6 DEF Accept, LossQueued
  <2>3. DownIsEmpty'
    BY <1>6, <1>0 DEF Accept, DownIsEmpty
  <2>. QED  BY <2>1, <2>2, <2>3
<1>7. ASSUME NEW c \in Streams, ReadRegister(c) PROVE RecordsInv'
  <2>1. Others
    BY <1>7 DEF ReadRegister, TypeOK
  <2>2. Registered(c) \in Event /\ events \in Seq(Event)
    BY DEF Registered, Event, TypeOK
  <2>3. \A i \in DOMAIN events : i \in DOMAIN events' /\ events'[i] = events[i]
    BY <1>7, <2>2 DEF ReadRegister
  <2>4. LossQueued'
    BY <1>7, <2>3 DEF ReadRegister, LossQueued
  <2>5. DownIsEmpty'
    BY <1>7 DEF ReadRegister, DownIsEmpty, TypeOK
  <2>. QED  BY <2>1, <2>4, <2>5
<1>8. ASSUME NEW c \in Streams, ReadRegisterFails(c) PROVE RecordsInv'
  <2>1. Others
    BY <1>8 DEF ReadRegisterFails, TypeOK
  <2>2. LossQueued'
    BY <1>8 DEF ReadRegisterFails, LossQueued
  <2>3. DownIsEmpty'
    BY <1>8, <1>0 DEF ReadRegisterFails, DownIsEmpty
  <2>. QED  BY <2>1, <2>2, <2>3
<1>9. ASSUME NEW id \in watching, EofWatcher(id) PROVE RecordsInv'
  <2>1. Others
    BY <1>9 DEF EofWatcher
  <2>2. Departed(id) \in Event /\ events \in Seq(Event)
    BY DEF Departed, Event, TypeOK
  <2>3. /\ \A i \in DOMAIN events : i \in DOMAIN events' /\ events'[i] = events[i]
        /\ \E i \in DOMAIN events' : events'[i] = Departed(id)
    BY <1>9, <2>2 DEF EofWatcher
  <2>4. LossQueued'
    BY <1>9, <2>3 DEF EofWatcher, LossQueued
  <2>5. DownIsEmpty'
    BY <1>9 DEF EofWatcher, DownIsEmpty, TypeOK
  <2>. QED  BY <2>1, <2>4, <2>5
<1>. QED
  BY <1>1, <1>2, <1>3, <1>4, <1>5, <1>6, <1>7, <1>8, <1>9 DEF Next

(* Every event but the handled one stays on the channel. *)
KeepsQueue ==
    \A i \in DOMAIN events : i # 1 => \E j \in DOMAIN events' : events'[j] = events[i]

LEMMA TailKeeps ==
    ASSUME TypeOK, events # <<>>, NEW q \in Seq(Event), events' = Tail(events) \o q
    PROVE  KeepsQueue
<1> SUFFICES ASSUME NEW i \in DOMAIN events, i # 1
             PROVE  \E j \in DOMAIN events' : events'[j] = events[i]
  BY DEF KeepsQueue
<1>1. /\ Tail(events) \in Seq(Event) /\ Len(Tail(events)) = Len(events) - 1
      /\ i - 1 \in 1..(Len(events) - 1)
      /\ Tail(events)[i - 1] = events[i]
  BY DEF TypeOK
<1>2. i - 1 \in DOMAIN events' /\ events'[i - 1] = Tail(events)[i - 1]
  BY <1>1
<1>. QED  BY <1>1, <1>2

LEMMA QueueKeeps ==
    ASSUME TypeOK, events # <<>>, NEW ids \in SUBSET DOMAIN conns, QueueDepartures(ids)
    PROVE  KeepsQueue
<1>1. PICK order \in SetToSeqs(ids) :
         events' = Tail(events) \o [i \in DOMAIN order |-> Departed(order[i])]
  BY DEF QueueDepartures
<1>2. Cardinality(ids) \in Nat /\ order \in [1..Cardinality(ids) -> ids]
  BY LiveIdsFinite DEF SetToSeqs
<1>3. \A id \in ids : Departed(id) \in Event
  BY DEF Departed, Event, TypeOK
<1>4. [i \in DOMAIN order |-> Departed(order[i])] \in [1..Cardinality(ids) -> Event]
  BY <1>2, <1>3
<1>5. [i \in DOMAIN order |-> Departed(order[i])] \in Seq(Event)
  BY <1>2, <1>4
<1>. QED  BY <1>1, <1>5, TailKeeps

LEMMA TailKeepsQueue ==
    ASSUME TypeOK, events # <<>>, events' = Tail(events)
    PROVE  KeepsQueue
<1>1. Tail(events) \in Seq(Event) /\ <<>> \in Seq(Event)
  BY DEF TypeOK
<1>2. Tail(events) \o <<>> = Tail(events)
  BY <1>1
<1>. QED  BY <1>1, <1>2, TailKeeps

(* A queued departure of a record is not the event that was handled, so    *)
(* that it stays queued.                                                   *)
LEMMA LossStays ==
    ASSUME IInv, LossQueued, KeepsQueue, events # <<>>,
           \A id \in DOMAIN conns' \ watching' :
             id \in DOMAIN conns \ watching /\ Head(events) # Departed(id)
    PROVE  LossQueued'
<1> SUFFICES ASSUME NEW id \in DOMAIN conns' \ watching'
             PROVE  \E i \in DOMAIN events' : events'[i] = Departed(id)
  BY DEF LossQueued, Departed
<1>1. PICK i \in DOMAIN events : events[i] = Departed(id)
  BY DEF LossQueued
<1>2. i # 1
  BY <1>1 DEF IInv, TypeOK
<1>. QED  BY <1>1, <1>2 DEF KeepsQueue

LEMMA RefusalsAppended ==
    ASSUME NEW q \in Seq(Message), NEW m \in Message, m.type # "Nack",
           NEW i \in DOMAIN Append(q, m), Append(q, m)[i].type = "Nack"
    PROVE  \E j \in DOMAIN q : q[j].type = "Nack"
<1>1. i # Len(q) + 1
  OBVIOUS
<1>2. i \in DOMAIN q /\ Append(q, m)[i] = q[i]
  BY <1>1
<1>. QED  BY <1>2

LEMMA RecordsAfterRefusal ==
    ASSUME IInv, RecordsInv, NEW c \in Streams, events # <<>>, Head(events) = Registered(c),
           events' = Tail(events), holder' = [holder EXCEPT ![c] = "dropped"],
           \A d \in Streams \ {c} : sent'[d] = sent[d],
           UNCHANGED <<up, remote, request, conns, watching>>
    PROVE  RecordsInv'
<1> USE DEF RecordsInv
<1>1. /\ holder \in [Streams -> Holder] /\ holder[c] = "event"
      /\ \A id \in DOMAIN conns : conns[id].stream \in Streams /\ conns[id].stream # c
  BY HandledIsNew DEF IInv, TypeOK, ConnRecord
<1>2. RecordsMatch' /\ HeldIsRecorded' /\ ConnectedIsOwned'
  BY <1>1 DEF RecordsMatch, HeldIsRecorded, ConnectedIsOwned
<1>3. RefusedIsDropped'
  BY <1>1 DEF RefusedIsDropped
<1>4. LossQueued'
  BY TailKeepsQueue, LossStays DEF Registered, Departed, IInv
<1>5. DownIsEmpty'
  BY DEF DownIsEmpty
<1>. QED  BY <1>2, <1>3, <1>4, <1>5

LEMMA RecordsAfterAccept ==
    ASSUME IInv, RecordsInv, NEW c \in Streams, HandleRegistration(c),
           NEW s \in Slugs, NEW g \in Groups, request[c] = <<s, g>>,
           AcceptRegistration(c, s, g)
    PROVE  RecordsInv'
<1> USE DEF RecordsInv
<1>1. /\ events # <<>> /\ Head(events) = Registered(c)
      /\ holder \in [Streams -> Holder] /\ holder[c] = "event" /\ request[c] \in Registers
      /\ \A id \in DOMAIN conns : conns[id].stream \in Streams /\ conns[id].stream # c
  BY HandledIsNew DEF HandleRegistration, IInv, TypeOK, ConnRecord
<1>2. /\ UNCHANGED <<up, remote, request>>
      /\ watching' = watching \cup {nextId}
      /\ conns' = [i \in DOMAIN conns \cup {nextId} |->
                     IF i = nextId THEN [slug |-> s, group |-> g, stream |-> c] ELSE conns[i]]
      /\ holder' = [holder EXCEPT ![c] = "conns"]
      /\ remote[c] = "open"
  BY DEF HandleRegistration, AcceptRegistration, FreshId
<1>3. RecordsMatch' /\ HeldIsRecorded' /\ ConnectedIsOwned'
  <2>1. nextId \notin DOMAIN conns
    BY DEF IInv, TypeOK
  <2>. QED  BY <1>1, <1>2, <2>1 DEF RecordsMatch, HeldIsRecorded, ConnectedIsOwned
<1>4. RefusedIsDropped'
  <2>1. Ack(PeersOf(g)) \in Message /\ PeerJoined(s) \in Message
    BY DEF Ack, PeerJoined, Message, PeersOf
  <2>2. Ack(PeersOf(g)).type # "Nack" /\ PeerJoined(s).type # "Nack"
    BY DEF Ack, PeerJoined
  <2>3. \A d \in Streams : sent[d] \in Seq(Message)
    BY DEF IInv, TypeOK
  <2>4. ASSUME NEW d \in Streams
        PROVE  sent'[d] \in {Append(sent[d], Ack(PeersOf(g))),
                             Append(sent[d], PeerJoined(s)), sent[d]}
    <3>1. CASE d = c
      BY <3>1, SentByAccept
    <3>2. ASSUME NEW id \in DOMAIN conns, conns[id].stream = d
          PROVE  sent'[d] = Append(sent[d], PeerJoined(s)) \/ sent'[d] = sent[d]
      BY <3>2, SentByAccept
    <3>3. CASE d # c /\ \A id \in DOMAIN conns : conns[id].stream # d
      BY <3>3, SentByAccept
    <3>. QED  BY <3>1, <3>2, <3>3
  <2>5. ASSUME NEW d \in Streams, NEW i \in DOMAIN sent'[d], sent'[d][i].type = "Nack"
        PROVE  holder[d] = "dropped"
    <3>1. CASE sent'[d] = Append(sent[d], Ack(PeersOf(g)))
      BY <2>1, <2>2, <2>3, <2>5, <3>1, RefusalsAppended DEF RefusedIsDropped
    <3>2. CASE sent'[d] = Append(sent[d], PeerJoined(s))
      BY <2>1, <2>2, <2>3, <2>5, <3>2, RefusalsAppended DEF RefusedIsDropped
    <3>3. CASE sent'[d] = sent[d]
      BY <2>5, <3>3 DEF RefusedIsDropped
    <3>. QED  BY <2>4, <3>1, <3>2, <3>3
  <2>. QED  BY <1>1, <1>2, <2>5 DEF RefusedIsDropped
<1>5. LossQueued'
  <2>1. Failed(PeerIds(g)) \in SUBSET DOMAIN conns
    BY DEF Failed, PeerIds
  <2>2. KeepsQueue
    BY <1>1, <2>1, QueueKeeps DEF AcceptRegistration, IInv
  <2>. QED  BY <1>1, <1>2, <2>2, LossStays DEF Registered, Departed
<1>6. DownIsEmpty'
  BY <1>1, <1>2 DEF DownIsEmpty
<1>. QED  BY <1>3, <1>4, <1>5, <1>6

LEMMA RecordsAfterDeparture ==
    ASSUME IInv, RecordsInv, NEW gone \in Nat, HandleDeparture(gone)
    PROVE  RecordsInv'
<1> USE DEF RecordsInv
<1>1. /\ events # <<>> /\ Head(events) = Departed(gone) /\ UNCHANGED <<up, remote, request>>
      /\ holder \in [Streams -> Holder]
      /\ \A id \in DOMAIN conns : conns[id].stream \in Streams
  BY DEF HandleDeparture, IInv, TypeOK, ConnRecord
<1>2. CASE StaleDeparture(gone)
  <2>1. LossQueued'
    BY <1>1, <1>2, TailKeepsQueue, LossStays DEF StaleDeparture, Departed, IInv
  <2>. QED
    BY <1>1, <1>2, <2>1 DEF StaleDeparture, RecordsMatch, HeldIsRecorded, ConnectedIsOwned,
                            RefusedIsDropped, DownIsEmpty
<1>3. CASE RemoveConnection(gone)
  <2> DEFINE c == conns[gone].stream
             s == conns[gone].slug
             peers == PeerIds(conns[gone].group) \ {groups[conns[gone].group][s]}
  <2>1. /\ gone \in DOMAIN conns /\ c \in Streams
        /\ conns' = [i \in DOMAIN conns \ {gone} |-> conns[i]]
        /\ holder' = [holder EXCEPT ![c] = "dropped"]
        /\ watching' = watching \ {gone}
        /\ \A id \in DOMAIN conns : conns[id].stream = c => id = gone
    BY <1>1, <1>3 DEF RemoveConnection, IInv, TablesAgree
  <2>2. RecordsMatch' /\ HeldIsRecorded' /\ ConnectedIsOwned'
    BY <1>1, <2>1 DEF RecordsMatch, HeldIsRecorded, ConnectedIsOwned
  <2>3. RefusedIsDropped'
    <3>1. PeerLeft(s) \in Message /\ PeerLeft(s).type # "Nack"
      BY <2>1 DEF PeerLeft, Message, IInv, TypeOK, ConnRecord
    <3>2. \A d \in Streams : sent[d] \in Seq(Message)
      BY DEF IInv, TypeOK
    <3>3. ASSUME NEW d \in Streams PROVE sent'[d] \in {Append(sent[d], PeerLeft(s)), sent[d]}
      BY <1>3, SentByRemove
    <3>4. ASSUME NEW d \in Streams, NEW i \in DOMAIN sent'[d], sent'[d][i].type = "Nack"
          PROVE  holder[d] = "dropped"
      <4>1. CASE sent'[d] = Append(sent[d], PeerLeft(s))
        BY <3>1, <3>2, <3>4, <4>1, RefusalsAppended DEF RefusedIsDropped
      <4>2. CASE sent'[d] = sent[d]
        BY <3>4, <4>2 DEF RefusedIsDropped
      <4>. QED  BY <3>3, <4>1, <4>2
    <3>. QED  BY <1>1, <2>1, <3>4 DEF RefusedIsDropped
  <2>4. LossQueued'
    <3>1. Failed(peers) \in SUBSET DOMAIN conns
      BY DEF Failed, PeerIds
    <3>2. KeepsQueue
      BY <1>1, <1>3, <3>1, QueueKeeps DEF RemoveConnection, IInv
    <3>. QED  BY <1>1, <2>1, <3>2, LossStays DEF Departed
  <2>5. DownIsEmpty'
    BY <1>1 DEF DownIsEmpty
  <2>. QED  BY <2>2, <2>3, <2>4, <2>5
<1>. QED  BY <1>2, <1>3 DEF HandleDeparture

LEMMA RecordsNext == IInv /\ RecordsInv /\ [Next]_vars => RecordsInv'
<1> SUFFICES ASSUME IInv, RecordsInv, [Next]_vars PROVE RecordsInv'
  OBVIOUS
<1>1. ASSUME NEW c \in Streams, HandleRegistration(c) PROVE RecordsInv'
  <2> DEFINE s == request[c][1]
             g == request[c][2]
  <2>1. s \in Slugs /\ g \in Groups /\ request[c] = <<s, g>>
    BY <1>1, HandledIsNew, RegistersAssumption DEF HandleRegistration
  <2>2. CASE AcceptRegistration(c, s, g)
    BY <1>1, <2>1, <2>2, RecordsAfterAccept
  <2>3. ASSUME NEW why, RefuseRegistration(c, why) PROVE RecordsInv'
    <3>1. \A d \in Streams \ {c} : sent'[d] = sent[d]
      BY <2>3 DEF RefuseRegistration, Reply, IInv, TypeOK
    <3>. QED  BY <1>1, <2>3, <3>1, RecordsAfterRefusal DEF HandleRegistration, RefuseRegistration
  <2>4. CASE AbandonRegistration(c, s)
    BY <1>1, <2>4, RecordsAfterRefusal DEF HandleRegistration, AbandonRegistration
  <2>. QED  BY <1>1, <2>2, <2>3, <2>4 DEF HandleRegistration
<1>2. ASSUME NEW id \in 0..nextId, HandleDeparture(id) PROVE RecordsInv'
  BY <1>2, RecordsAfterDeparture DEF IInv, TypeOK
<1>3. CASE Next /\ ~HandleEvent
  BY <1>3, RecordsOutside
<1>4. CASE UNCHANGED vars
  BY <1>4 DEF vars, RecordsInv, RecordsMatch, HeldIsRecorded, ConnectedIsOwned,
              RefusedIsDropped, LossQueued, DownIsEmpty, Departed
<1>. QED  BY <1>1, <1>2, <1>3, <1>4 DEF HandleEvent

(* What the supervisor knows of its servers, through every refusal, loss   *)
(* and crash: a held stream has a record of what its server sent, and a    *)
(* server whose end of file was seen has its departure queued.             *)
THEOREM RecordsAlwaysMatch == Spec => []RecordsInv
  BY Invariance, RecordsInit, RecordsNext, PTL DEF Spec

-----------------------------------------------------------------------------
(* What a server can rely on, whoever else makes directories               *)

(* A handler appends at most one frame to a stream. *)
LEMMA FramesAppended ==
    ASSUME IInv, [Next]_vars, NEW c \in Streams
    PROVE  sent'[c] = sent[c] \/ \E m \in Message : sent'[c] = Append(sent[c], m)
<1> DEFINE Grown == sent'[c] = sent[c] \/ \E m \in Message : sent'[c] = Append(sent[c], m)
<1>1. ASSUME NEW d \in Streams, HandleRegistration(d) PROVE Grown
  <2> DEFINE s == request[d][1]
             g == request[d][2]
  <2>1. s \in Slugs /\ g \in Groups
    BY <1>1, HandledIsNew, RegistersAssumption DEF HandleRegistration
  <2>2. ASSUME NEW why \in {"duplicate", "mkdir"}, RefuseRegistration(d, why) PROVE Grown
    <3>1. Nack(why) \in Message
      BY DEF Nack, Message
    <3>. QED  BY <2>2, <3>1 DEF RefuseRegistration, Reply, IInv, TypeOK
  <2>3. CASE AbandonRegistration(d, s)
    BY <2>3 DEF AbandonRegistration
  <2>4. CASE AcceptRegistration(d, s, g)
    <3>1. Ack(PeersOf(g)) \in Message /\ PeerJoined(s) \in Message
      BY <2>1 DEF Ack, PeerJoined, Message, PeersOf
    <3>2. CASE c = d
      BY <1>1, <2>1, <2>4, <3>1, <3>2, SentByAccept
    <3>3. ASSUME NEW id \in DOMAIN conns, conns[id].stream = c PROVE Grown
      BY <1>1, <2>1, <2>4, <3>1, <3>3, SentByAccept
    <3>4. CASE c # d /\ \A id \in DOMAIN conns : conns[id].stream # c
      BY <1>1, <2>1, <2>4, <3>4, SentByAccept
    <3>. QED  BY <3>2, <3>3, <3>4
  <2>. QED  BY <1>1, <2>2, <2>3, <2>4 DEF HandleRegistration
<1>2. ASSUME NEW gone \in 0..nextId, HandleDeparture(gone) PROVE Grown
  <2>1. CASE StaleDeparture(gone)
    BY <2>1 DEF StaleDeparture
  <2>2. CASE RemoveConnection(gone)
    <3>1. PeerLeft(conns[gone].slug) \in Message
      BY <2>2 DEF RemoveConnection, PeerLeft, Message, IInv, TypeOK, ConnRecord
    <3>0. gone \in Nat
      BY DEF IInv, TypeOK
    <3>2. ASSUME NEW id \in DOMAIN conns, conns[id].stream = c PROVE Grown
      BY <2>2, <3>0, <3>1, <3>2, SentByRemove
    <3>3. CASE \A id \in DOMAIN conns : conns[id].stream # c
      BY <2>2, <3>0, <3>3, SentByRemove
    <3>. QED  BY <3>2, <3>3
  <2>. QED  BY <1>2, <2>1, <2>2 DEF HandleDeparture
<1>3. CASE Next /\ ~HandleEvent
  BY <1>3, OthersKeep DEF Keeps, Crash
<1>4. CASE UNCHANGED vars
  BY <1>4 DEF vars
<1>. QED  BY <1>1, <1>2, <1>3, <1>4 DEF HandleEvent

(* No other registered server has the slug of a record. *)
LEMMA OneRecordPerSlug ==
    ASSUME OneGroupPerSlug, IInv, RecordsMatch, NEW i \in DOMAIN conns, NEW j \in DOMAIN conns,
           conns[i].slug = conns[j].slug
    PROVE  i = j
<1>1. conns[i].group = conns[j].group
  BY RecordsRegistered DEF OneGroupPerSlug
<1>. QED  BY <1>1 DEF IInv, TablesAgree

(* The directory of a registered server is not removed. *)
LEMMA LiveDirsNext ==
    OneGroupPerSlug /\ IInv /\ RecordsInv /\ DirOfLiveServer /\ [Next]_vars => DirOfLiveServer'
<1> SUFFICES ASSUME OneGroupPerSlug, IInv, RecordsInv, DirOfLiveServer, [Next]_vars
             PROVE  DirOfLiveServer'
  OBVIOUS
<1> USE DEF DirOfLiveServer
<1>1. ASSUME NEW c \in Streams, HandleRegistration(c) PROVE DirOfLiveServer'
  <2> DEFINE s == request[c][1]
             g == request[c][2]
  <2>1. s \in Slugs /\ g \in Groups /\ <<s, g>> \in Registers
    BY <1>1, HandledIsNew, RegistersAssumption DEF HandleRegistration
  <2>2. CASE ~Duplicate(g, s) /\ AbandonRegistration(c, s)
    <3>1. \A id \in DOMAIN conns : conns[id].slug # s
      BY <2>1, <2>2, RecordsRegistered, FreeEverywhere DEF RecordsInv
    <3>. QED  BY <1>1, <2>2, <3>1 DEF HandleRegistration, AbandonRegistration, RemoveDir, RemovalFails
  <2>3. CASE AcceptRegistration(c, s, g)
    BY <2>3 DEF AcceptRegistration
  <2>. QED  BY <1>1, <2>2, <2>3 DEF HandleRegistration, RefuseRegistration
<1>2. ASSUME NEW gone \in 0..nextId, HandleDeparture(gone) PROVE DirOfLiveServer'
  <2>1. CASE RemoveConnection(gone)
    BY <2>1, OneRecordPerSlug DEF RemoveConnection, RecordsInv, RemoveDir, RemovalFails
  <2>. QED  BY <1>2, <2>1 DEF HandleDeparture, StaleDeparture
<1>3. CASE Next /\ ~HandleEvent /\ ~Crash /\ ~Start
  BY <1>3 DEF Next, Connect, SendRegister, CloseRemote, Accept, ReadRegister,
              ReadRegisterFails, EofWatcher
<1>4. CASE Crash \/ Start
  BY <1>4 DEF Crash, NoConns, Start, RecordsInv, DownIsEmpty
<1>5. CASE UNCHANGED vars
  BY <1>5 DEF vars
<1>. QED  BY <1>1, <1>2, <1>3, <1>4, <1>5 DEF HandleEvent

(* Only a removal that failed leaves a directory behind, and it does.      *)
LEMMA OnlyFailuresLeave == [Next]_vars => undeleted' \ undeleted \subseteq dirs'
<1> SUFFICES ASSUME [Next]_vars PROVE undeleted' \ undeleted \subseteq dirs'
  OBVIOUS
<1>1. ASSUME NEW c \in Streams, HandleRegistration(c)
      PROVE  undeleted' \ undeleted \subseteq dirs'
  BY <1>1 DEF HandleRegistration, RefuseRegistration, AbandonRegistration, AcceptRegistration,
              RemoveDir, RemovalFails
<1>2. ASSUME NEW gone \in 0..nextId, HandleDeparture(gone)
      PROVE  undeleted' \ undeleted \subseteq dirs'
  BY <1>2 DEF HandleDeparture, StaleDeparture, RemoveConnection, RemoveDir, RemovalFails
<1>3. CASE Next /\ ~HandleEvent
  BY <1>3 DEF Next, Crash, Start, Connect, SendRegister, CloseRemote, Accept,
              ReadRegister, ReadRegisterFails, EofWatcher
<1>. QED  BY <1>1, <1>2, <1>3 DEF HandleEvent, vars

(* A server that is registered and still reads, and believes in a peer, is *)
(* told when the peer's directory is removed, or its removal fails.        *)
LEMMA RemovalTold ==
    ASSUME OneGroupPerSlug, IInv, RecordsInv, ViewsExact, [Next]_vars,
           NEW c \in Streams, remote[c] = "open", holder'[c] = "conns", holder[c] = "conns",
           NEW s \in Slugs, Believes(c, s),
           (s \in dirs /\ s \notin dirs') \/ (s \in undeleted' /\ s \notin undeleted)
    PROVE  sent'[c] = Append(sent[c], PeerLeft(s))
<1>1. PICK id \in DOMAIN conns : conns[id].stream = c
  BY DEF RecordsInv, HeldIsRecorded
<1>2. Present(conns[id].group, s) /\ s # conns[id].slug
  BY <1>1 DEF ViewsExact
<1>3. PICK k \in DOMAIN conns : conns[k].slug = s /\ conns[k].group = conns[id].group
  <2>1. conns[id].group \in Groups
    BY RecordsRegistered DEF RecordsInv
  <2>. QED  BY <1>2, <2>1 DEF IInv, TablesAgree
<1>4. up
  BY DEF RecordsInv, DownIsEmpty
<1>5. ASSUME NEW d \in Streams, HandleRegistration(d) PROVE FALSE
  <2> DEFINE t == request[d][1]
             g == request[d][2]
  <2>1. t \in Slugs /\ g \in Groups /\ <<t, g>> \in Registers
    BY <1>5, HandledIsNew, RegistersAssumption DEF HandleRegistration
  <2>2. ~Duplicate(g, t) /\ AbandonRegistration(d, t) /\ t = s
    BY <1>5 DEF HandleRegistration, RefuseRegistration, AbandonRegistration, AcceptRegistration,
                RemoveDir, RemovalFails
  <2>. QED  BY <1>3, <2>1, <2>2, RecordsRegistered, FreeEverywhere DEF RecordsInv
<1>6. ASSUME NEW gone \in 0..nextId, HandleDeparture(gone)
      PROVE  sent'[c] = Append(sent[c], PeerLeft(s))
  <2>1. RemoveConnection(gone) /\ conns[gone].slug = s /\ gone \in DOMAIN conns
    BY <1>6 DEF HandleDeparture, StaleDeparture, RemoveConnection, RemoveDir, RemovalFails
  <2>2. gone = k /\ gone \in Nat
    BY <1>3, <2>1, OneRecordPerSlug DEF RecordsInv, IInv, TypeOK
  <2>. QED  BY <1>1, <1>2, <1>3, <2>1, <2>2, SentByRemove
<1>7. CASE Next /\ ~HandleEvent
  BY <1>4, <1>7 DEF Next, Crash, Start, Connect, SendRegister, CloseRemote, Accept,
                    ReadRegister, ReadRegisterFails, EofWatcher
<1>. QED  BY <1>5, <1>6, <1>7 DEF HandleEvent, vars

-----------------------------------------------------------------------------
(* What a server may rely on about its own stream                          *)

(* A stream that was dropped stays dropped, and one that is registered is  *)
(* released only by dropping it.                                           *)
LEMMA OwnerMoves ==
    ASSUME IInv, [Next]_vars, NEW c \in Streams
    PROVE  /\ holder[c] = "dropped" => holder'[c] = "dropped"
           /\ holder[c] = "conns" => holder'[c] \in {"conns", "dropped"}
           /\ holder'[c] = "conns" => holder[c] \in {"event", "conns"}
<1> USE DEF IInv, TypeOK
<1>1. ASSUME NEW d \in Streams, HandleRegistration(d)
      PROVE  \/ holder' = [holder EXCEPT ![d] = "dropped"]
             \/ holder' = [holder EXCEPT ![d] = "conns"]
  BY <1>1 DEF HandleRegistration, RefuseRegistration, AbandonRegistration, AcceptRegistration
<1>2. ASSUME NEW d \in Streams, HandleRegistration(d) PROVE holder[d] = "event"
  BY <1>2, HandledIsNew DEF HandleRegistration
<1>3. ASSUME NEW gone \in 0..nextId, HandleDeparture(gone)
      PROVE  \/ holder' = holder
             \/ \E d \in Streams : holder[d] = "conns" /\ holder' = [holder EXCEPT ![d] = "dropped"]
  BY <1>3 DEF HandleDeparture, StaleDeparture, RemoveConnection, StreamsOwned, ConnRecord
<1>4. CASE Next /\ ~HandleEvent
  BY <1>4 DEF Next, Crash, Start, Connect, SendRegister, CloseRemote, Accept, ReadRegister,
              ReadRegisterFails, EofWatcher, StreamsOwned
<1>5. CASE UNCHANGED vars
  BY <1>5 DEF vars
<1>. QED  BY <1>1, <1>2, <1>3, <1>4, <1>5 DEF HandleEvent, Next

(* A registration is refused as a duplicate only while another stream is   *)
(* registered with the same request.                                       *)
LEMMA RefusedForAnother ==
    ASSUME IInv, RecordsInv, [Next]_vars, NEW c \in Streams,
           NEW i \in DOMAIN sent'[c], sent'[c][i] = Nack("duplicate"),
           ~(i \in DOMAIN sent[c] /\ sent[c][i] = Nack("duplicate"))
    PROVE  /\ request[c] \in Registers
           /\ \E d \in Streams \ {c} : holder[d] = "conns" /\ request[d] = request[c]
<1>1. sent'[c] # sent[c]
  OBVIOUS
<1>2. ASSUME NEW d \in Streams, HandleRegistration(d)
      PROVE  /\ request[c] \in Registers
             /\ \E e \in Streams \ {c} : holder[e] = "conns" /\ request[e] = request[c]
  <2> DEFINE s == request[d][1]
             g == request[d][2]
  <2>1. request[d] \in Registers /\ s \in Slugs /\ g \in Groups /\ request[d] = <<s, g>>
    BY <1>2, HandledIsNew, RegistersAssumption DEF HandleRegistration
  <2>2. CASE Duplicate(g, s) /\ RefuseRegistration(d, "duplicate")
    <3>1. d = c
      BY <1>1, <2>2 DEF RefuseRegistration, Reply, IInv, TypeOK
    <3>2. PICK k \in DOMAIN conns : conns[k].slug = s /\ conns[k].group = g
      BY <2>1, <2>2 DEF Duplicate, IInv, TablesAgree
    <3>3. conns[k].stream \in Streams /\ conns[k].stream # d /\ holder[conns[k].stream] = "conns"
      BY <1>2, <3>2, HandledIsNew DEF HandleRegistration, IInv, TypeOK, ConnRecord, StreamsOwned
    <3>. QED  BY <2>1, <3>1, <3>2, <3>3 DEF RecordsInv, RecordsMatch
  <2>3. CASE RefuseRegistration(d, "mkdir")
    <3>1. d = c /\ sent'[c] = Append(sent[c], Nack("mkdir"))
      BY <1>1, <2>3 DEF RefuseRegistration, Reply, IInv, TypeOK
    <3>2. sent[c] \in Seq(Message) /\ Nack("mkdir") \in Message
      BY DEF IInv, TypeOK, Message, Nack
    <3>3. Nack("mkdir") # Nack("duplicate")
      BY DEF Nack
    <3>4. \/ i \in DOMAIN sent[c] /\ sent'[c][i] = sent[c][i]
          \/ sent'[c][i] = Nack("mkdir")
      BY <3>1, <3>2
    <3>. QED  BY <3>3, <3>4
  <2>4. CASE AcceptRegistration(d, s, g)
    <3>1. \E m \in Message : m.type # "Nack" /\ sent'[c] = Append(sent[c], m)
      <4>1. \A m \in {Ack(PeersOf(g)), PeerJoined(s)} : m \in Message /\ m.type # "Nack"
        BY <2>1 DEF Message, Ack, PeerJoined, PeersOf
      <4>2. CASE c = d
        BY <1>2, <2>1, <2>4, <4>1, <4>2, SentByAccept
      <4>3. ASSUME NEW id \in DOMAIN conns, conns[id].stream = c
            PROVE  sent'[c] = Append(sent[c], PeerJoined(s))
        BY <1>1, <1>2, <2>1, <2>4, <4>3, SentByAccept
      <4>4. CASE c # d /\ \A id \in DOMAIN conns : conns[id].stream # c
        BY <1>1, <1>2, <2>1, <2>4, <4>4, SentByAccept
      <4>. QED  BY <4>1, <4>2, <4>3, <4>4
    <3>2. sent[c] \in Seq(Message) /\ Nack("duplicate").type = "Nack"
      BY DEF IInv, TypeOK, Nack
    <3>. QED  BY <3>1, <3>2
  <2>. QED  BY <1>1, <1>2, <2>2, <2>3, <2>4 DEF HandleRegistration, AbandonRegistration
<1>3. ASSUME NEW gone \in 0..nextId, HandleDeparture(gone) PROVE FALSE
  <2>1. RemoveConnection(gone) /\ gone \in DOMAIN conns /\ gone \in Nat
    BY <1>1, <1>3 DEF HandleDeparture, StaleDeparture, RemoveConnection, IInv, TypeOK
  <2>2. sent'[c] = Append(sent[c], PeerLeft(conns[gone].slug))
    BY <1>1, <2>1, SentByRemove
  <2>3. /\ sent[c] \in Seq(Message)
        /\ PeerLeft(conns[gone].slug).type # "Nack" /\ Nack("duplicate").type = "Nack"
    BY DEF IInv, TypeOK, Nack, PeerLeft
  <2>. QED  BY <2>2, <2>3
<1>4. CASE Next /\ ~HandleEvent
  BY <1>1, <1>4 DEF Next, Crash, Start, Connect, SendRegister, CloseRemote, Accept, ReadRegister,
              ReadRegisterFails, EofWatcher
<1>. QED  BY <1>1, <1>2, <1>3, <1>4 DEF HandleEvent, vars

(* A registration is acknowledged only when no other stream is registered  *)
(* with the same request.                                                  *)
LEMMA AcknowledgedAlone ==
    ASSUME IInv, RecordsInv, [Next]_vars, NEW c \in Streams,
           Acknowledged(sent'[c]), ~Acknowledged(sent[c])
    PROVE  /\ request[c] \in Registers
           /\ \A e \in Streams \ {c} : holder[e] = "conns" => request[e] # request[c]
<1>1. sent'[c] # sent[c] /\ sent[c] \in Seq(Message)
  BY DEF IInv, TypeOK
<1>2. ASSUME NEW m \in Message, sent'[c] = Append(sent[c], m) PROVE m.type = "Ack"
  BY <1>1, <1>2 DEF Acknowledged
<1>3. ASSUME NEW d \in Streams, HandleRegistration(d)
      PROVE  /\ request[c] \in Registers
             /\ \A e \in Streams \ {c} : holder[e] = "conns" => request[e] # request[c]
  <2> DEFINE s == request[d][1]
             g == request[d][2]
  <2>1. request[d] \in Registers /\ s \in Slugs /\ g \in Groups /\ request[d] = <<s, g>>
    BY <1>3, HandledIsNew, RegistersAssumption DEF HandleRegistration
  <2>2. ASSUME NEW why \in {"duplicate", "mkdir"}, RefuseRegistration(d, why) PROVE FALSE
    <3>1. sent'[c] = Append(sent[c], Nack(why))
      BY <1>1, <2>2 DEF RefuseRegistration, Reply, IInv, TypeOK
    <3>2. Nack(why) \in Message /\ Nack(why).type = "Nack"
      BY DEF Nack, Message
    <3>. QED  BY <1>2, <3>1, <3>2
  <2>3. CASE ~Duplicate(g, s) /\ AcceptRegistration(d, s, g)
    <3>1. c = d
      <4>1. PeerJoined(s) \in Message /\ PeerJoined(s).type # "Ack"
        BY <2>1 DEF Message, PeerJoined
      <4>2. ASSUME c # d, NEW id \in DOMAIN conns, conns[id].stream = c PROVE FALSE
        BY <1>1, <1>2, <1>3, <2>1, <2>3, <4>1, <4>2, SentByAccept
      <4>. QED  BY <1>1, <1>3, <2>1, <2>3, <4>2, SentByAccept
    <3>2. ASSUME NEW e \in Streams \ {c}, holder[e] = "conns", request[e] = request[c]
          PROVE  FALSE
      <4>1. PICK id \in DOMAIN conns : conns[id].stream = e
        BY <3>2 DEF RecordsInv, HeldIsRecorded
      <4>2. conns[id].slug = s /\ conns[id].group = g
        BY <2>1, <3>1, <3>2, <4>1 DEF RecordsInv, RecordsMatch
      <4>3. groups[g][s] = id /\ id \in Nat
        BY <4>2 DEF IInv, TablesAgree, TypeOK
      <4>. QED  BY <2>3, <4>3 DEF Duplicate, Present, NoId
    <3>. QED  BY <2>1, <3>1, <3>2
  <2>. QED  BY <1>1, <1>3, <2>2, <2>3 DEF HandleRegistration, AbandonRegistration
<1>4. ASSUME NEW gone \in 0..nextId, HandleDeparture(gone) PROVE FALSE
  <2>1. RemoveConnection(gone) /\ gone \in DOMAIN conns /\ gone \in Nat
    BY <1>1, <1>4 DEF HandleDeparture, StaleDeparture, RemoveConnection, IInv, TypeOK
  <2>2. sent'[c] = Append(sent[c], PeerLeft(conns[gone].slug))
    BY <1>1, <2>1, SentByRemove
  <2>3. PeerLeft(conns[gone].slug) \in Message /\ PeerLeft(conns[gone].slug).type # "Ack"
    BY <2>1 DEF Message, PeerLeft, IInv, TypeOK, ConnRecord
  <2>. QED  BY <1>2, <2>2, <2>3
<1>5. CASE Next /\ ~HandleEvent
  BY <1>1, <1>5 DEF Next, Crash, Start, Connect, SendRegister, CloseRemote, Accept, ReadRegister,
              ReadRegisterFails, EofWatcher
<1>. QED  BY <1>1, <1>3, <1>4, <1>5 DEF HandleEvent, vars

=============================================================================
