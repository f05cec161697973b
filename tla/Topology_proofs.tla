--------------------------- MODULE Topology_proofs ---------------------------
(***************************************************************************)
(* Topology, for any servers, streams, crashes, kills and shutdowns.       *)
(***************************************************************************)
EXTENDS Topology, TLAPS

(* The proofs about the supervisor apply to it here: whatever the servers  *)
(* do to it is a step of Supervisor, but for the directories that they     *)
(* make.                                                                   *)
SP == INSTANCE Supervisor_proofs

LEMMA Assumptions ==
    /\ Registers \subseteq Slugs \X Groups /\ NoRequest \notin Registers
    /\ MaxRestarts \in Nat /\ MaxUndeleted \in Nat
    /\ SP!NoId \notin Streams
    /\ SP!OneGroupPerSlug
  BY RegistersAssumption, MaxRestartsAssumption, StreamsAreNumbers, OneGroupPerSlug
     DEF SP!NoId, SP!OneGroupPerSlug

-----------------------------------------------------------------------------
(* Steps of the supervisor *)

LEMMA SameTypes == Sup!TypeOK <=> SP!TypeOK
  BY DEF SP!TypeOK, Sup!TypeOK, SP!Holder, Sup!Holder, SP!Event, Sup!Event, SP!NoId, Sup!NoId, SP!Message, Sup!Message, SP!ConnRecord, Sup!ConnRecord

LEMMA SameTypesNext == (Sup!TypeOK <=> SP!TypeOK)'
  BY SameTypes, PTL

LEMMA SameInit == Sup!Init => SP!Init
  BY DEF SP!Init, Sup!Init, SP!NoGroups, Sup!NoGroups, SP!NoConns, Sup!NoConns, SP!NoId, Sup!NoId

LEMMA SameCrash == Sup!Crash => SP!Crash
  BY DEF SP!Crash, Sup!Crash, SP!NoGroups, Sup!NoGroups, SP!NoConns, Sup!NoConns, SP!NoId, Sup!NoId

LEMMA SameQuiet ==
    ASSUME NEW c, NEW r
    PROVE  /\ Sup!Connect(c) => SP!Connect(c)
           /\ Sup!SendRegister(c, r) => SP!SendRegister(c, r)
           /\ Sup!CloseRemote(c) => SP!CloseRemote(c)
           /\ Sup!Accept(c) => SP!Accept(c)
           /\ Sup!ReadRegister(c) => SP!ReadRegister(c)
           /\ Sup!ReadRegisterFails(c) => SP!ReadRegisterFails(c)
           /\ Sup!EofWatcher(c) => SP!EofWatcher(c)
           /\ Sup!Start => SP!Start
  BY DEF Sup!Connect, SP!Connect, Sup!SendRegister, SP!SendRegister, Sup!CloseRemote,
         SP!CloseRemote, Sup!Accept, SP!Accept, Sup!ReadRegister, SP!ReadRegister,
         Sup!ReadRegisterFails, SP!ReadRegisterFails, Sup!EofWatcher, SP!EofWatcher,
         Sup!Start, SP!Start, Sup!Registered, SP!Registered, Sup!Departed, SP!Departed

LEMMA SameTables ==
    /\ \A g : Sup!PeerIds(g) = SP!PeerIds(g) /\ Sup!PeersOf(g) = SP!PeersOf(g)
    /\ \A g, s : Sup!Duplicate(g, s) <=> SP!Duplicate(g, s)
    /\ \A ids : Sup!Failed(ids) = SP!Failed(ids)
    /\ \A ids, m : Sup!Notified(ids, m) = SP!Notified(ids, m)
    /\ \A ids : Sup!QueueDepartures(ids) <=> SP!QueueDepartures(ids)
    /\ Sup!NoId = SP!NoId /\ Sup!FreshId = SP!FreshId
    /\ \A s : (Sup!RemoveDir(s) <=> SP!RemoveDir(s)) /\ (Sup!RemovalFails(s) <=> SP!RemovalFails(s))
<1>1. Sup!NoId = SP!NoId /\ Sup!FreshId = SP!FreshId
  BY DEF Sup!NoId, SP!NoId, Sup!FreshId, SP!FreshId
<1>2. \A g, s : (Sup!Duplicate(g, s) <=> SP!Duplicate(g, s)) /\ (Sup!Present(g, s) <=> SP!Present(g, s))
  BY <1>1 DEF Sup!Duplicate, SP!Duplicate, Sup!Present, SP!Present
<1>3. \A g : Sup!PeersOf(g) = SP!PeersOf(g)
  BY <1>2 DEF Sup!PeersOf, SP!PeersOf
<1>4. \A g : Sup!PeerIds(g) = SP!PeerIds(g)
  BY <1>3 DEF Sup!PeerIds, SP!PeerIds
<1>5. \A ids : Sup!Failed(ids) = SP!Failed(ids) /\ Sup!Reached(ids) = SP!Reached(ids)
  BY DEF Sup!Failed, SP!Failed, Sup!Reached, SP!Reached
<1>6. \A ids, m : Sup!Notified(ids, m) = SP!Notified(ids, m)
  BY <1>5 DEF Sup!Notified, SP!Notified
<1>7. \A id : Sup!Departed(id) = SP!Departed(id)
  BY DEF Sup!Departed, SP!Departed
<1>8. \A ids : Sup!SetToSeqs(ids) = SP!SetToSeqs(ids)
  BY DEF Sup!SetToSeqs, SP!SetToSeqs, Sup!Cardinality, SP!Cardinality
<1>9. \A ids : Sup!QueueDepartures(ids) <=> SP!QueueDepartures(ids)
  BY <1>7, <1>8 DEF Sup!QueueDepartures, SP!QueueDepartures
<1>10. \A s : (Sup!RemoveDir(s) <=> SP!RemoveDir(s)) /\ (Sup!RemovalFails(s) <=> SP!RemovalFails(s))
  BY DEF Sup!RemoveDir, SP!RemoveDir, Sup!RemovalFails, SP!RemovalFails, Sup!Cardinality, SP!Cardinality
<1> QED
  BY <1>1, <1>2, <1>3, <1>4, <1>5, <1>6, <1>9, <1>10

LEMMA SameRegistration ==
    ASSUME NEW c, Sup!HandleRegistration(c)
    PROVE  SP!HandleRegistration(c)
<1>1. \A d, m : Sup!Reply(d, m) => SP!Reply(d, m)
  BY DEF Sup!Reply, SP!Reply
<1>2. \A d, w : Sup!RefuseRegistration(d, w) => SP!RefuseRegistration(d, w)
  BY <1>1 DEF Sup!RefuseRegistration, SP!RefuseRegistration, Sup!Nack, SP!Nack
<1>3. \A d, s : Sup!AbandonRegistration(d, s) => SP!AbandonRegistration(d, s)
  BY SameTables DEF Sup!AbandonRegistration, SP!AbandonRegistration
<1>4. ASSUME NEW d, NEW s, NEW g, Sup!AcceptRegistration(d, s, g)
      PROVE  SP!AcceptRegistration(d, s, g)
  BY <1>4, SameTables DEF Sup!AcceptRegistration, SP!AcceptRegistration,
     Sup!Ack, SP!Ack, Sup!PeerJoined, SP!PeerJoined
<1> QED
  BY <1>2, <1>3, <1>4, SameTables DEF Sup!HandleRegistration, SP!HandleRegistration,
     Sup!Registered, SP!Registered

LEMMA SameDeparture ==
    ASSUME NEW id, Sup!HandleDeparture(id)
    PROVE  SP!HandleDeparture(id)
<1>1. Sup!StaleDeparture(id) => SP!StaleDeparture(id)
  BY DEF Sup!StaleDeparture, SP!StaleDeparture
<1>2. Sup!RemoveConnection(id) => SP!RemoveConnection(id)
  BY SameTables DEF Sup!RemoveConnection, SP!RemoveConnection, Sup!PeerLeft, SP!PeerLeft
<1> QED
  BY <1>1, <1>2 DEF Sup!HandleDeparture, SP!HandleDeparture, Sup!Departed, SP!Departed

-----------------------------------------------------------------------------
(* Steps of the system *)

Supervised ==
    Supervising(SupervisorTask) \/ Supervising(Sup!Crash) \/ Supervising(Sup!Start)
ServerStep(r) ==
    ServerTask(r) \/ StartServer(r) \/ SessionFails(r) \/ BeginShutdown(r) \/ Kill(r)

LEMMA StepsAre ==
    [Next]_vars => Supervised \/ (\E r \in Registers : ServerStep(r)) \/ UNCHANGED vars
  BY DEF Next, Supervised, ServerStep

(* The supervisor's own steps leave the servers alone, but for the files   *)
(* that go with their directory.                                           *)
LEMMA SupervisedIs ==
    ASSUME Supervised
    PROVE  /\ SP!Next
           /\ files' \subseteq {f \in files : f[1] \in dirs'}
           /\ \A f \in files \ files' : f[1] \notin dirs' \/ HalfRemoved(f[1])
           /\ UNCHANGED <<remote, request, pc, stream, readUpTo, todo, binding, listening,
                          stops, lost>>
<1>1. Sup!HandleEvent => SP!HandleEvent /\ UNCHANGED <<remote, request>>
  BY SameRegistration, SameDeparture DEF Sup!HandleEvent, SP!HandleEvent,
     SP!HandleRegistration, SP!HandleDeparture
<1>2. Sup!Crash => SP!Crash /\ UNCHANGED <<remote, request>>
  BY SameCrash DEF SP!Crash
<1>3. Sup!Start => SP!Start /\ UNCHANGED <<remote, request>>
  BY SameQuiet DEF SP!Start
<1>4. ASSUME NEW c \in Streams, Sup!Accept(c) \/ Sup!ReadRegister(c) \/ Sup!ReadRegisterFails(c)
      PROVE  SP!Next /\ UNCHANGED <<remote, request>>
  <2>1. SP!Accept(c) \/ SP!ReadRegister(c) \/ SP!ReadRegisterFails(c)
    BY <1>4, SameQuiet
  <2>. QED  BY <2>1 DEF SP!Accept, SP!ReadRegister, SP!ReadRegisterFails, SP!Next
<1>5. ASSUME NEW id \in watching, Sup!EofWatcher(id)
      PROVE  SP!Next /\ UNCHANGED <<remote, request>>
  BY <1>5, SameQuiet DEF SP!EofWatcher, SP!Next
<1>6. \/ Sup!Crash \/ Sup!Start \/ Sup!HandleEvent
      \/ \E c \in Streams : Sup!Accept(c) \/ Sup!ReadRegister(c) \/ Sup!ReadRegisterFails(c)
      \/ \E id \in watching : Sup!EofWatcher(id)
  BY DEF Supervised, Supervising, SupervisorTask
<1>7. SP!Next /\ UNCHANGED <<remote, request>>
  BY <1>1, <1>2, <1>3, <1>4, <1>5, <1>6 DEF SP!Next
<1>8. SP!Next => undeleted' \ undeleted \subseteq dirs'
  BY SP!OnlyFailuresLeave, Assumptions
<1>9. PICK left \in SUBSET {f \in files : HalfRemoved(f[1])} :
        files' = left \cup {f \in files : f[1] \in dirs' /\ ~HalfRemoved(f[1])}
  BY DEF Supervised, Supervising
<1>. QED  BY <1>7, <1>8, <1>9 DEF Supervised, Supervising, HalfRemoved

(* The servers' types, as functions.                                       *)
LEMMA Types ==
    ASSUME TypeOK
    PROVE  /\ SP!TypeOK
           /\ pc \in [Registers -> {"down", "connecting", "registering", "session",
                                    "ending", "exiting"}]
           /\ stream \in [Registers -> Streams \cup {NoStream}]
           /\ readUpTo \in [Registers -> Nat]
           /\ todo \in [Registers -> SUBSET Slugs]
           /\ binding \in [Registers -> Slugs \cup {NoSlug}]
           /\ listening \in [Registers -> SUBSET Slugs]
           /\ \A r \in Registers : stream[r] # NoStream => readUpTo[r] <= Len(sent[stream[r]])
  BY SameTypes DEF TypeOK

MakesDir ==
    \E p \in Slugs :
        /\ dirs' = dirs \cup {p}
        /\ UNCHANGED <<up, restarts, remote, request, holder, events, groups, conns,
                       nextId, watching, sent, undeleted>>

(* What each step of a server is to the supervisor. *)
LEMMA ServerStepsAre ==
    ASSUME TypeOK, NEW r \in Registers
    PROVE  /\ ConnectServer(r) => \E c \in Streams : SP!Connect(c) /\ stream' = [stream EXCEPT ![r] = c]
           /\ WriteRegister(r) /\ stream[r] # NoStream => SP!SendRegister(stream[r], r)
           /\ ReadNack(r) \/ RegisterLost(r) \/ SessionEnds(r) \/ SessionFails(r) => SP!CloseRemote(stream[r])
           /\ HangUp(r) => \/ UNCHANGED supervisorVars
                           \/ stream[r] \in Streams /\ SP!CloseRemote(stream[r])
  BY SameQuiet, Types DEF ConnectServer, WriteRegister, ReadNack, RegisterLost, SessionEnds, SessionFails, HangUp

-----------------------------------------------------------------------------
(* Who holds a stream                                                      *)

(* A server has its own stream, writes only its own request to it, holds   *)
(* it open while it registers and in a session, and an open stream is held *)
(* by a server that is running.                                            *)
OwnStream ==
    \A r, q \in Registers : stream[r] = stream[q] /\ stream[r] # NoStream => r = q
OwnRequest ==
    \A r \in Registers : stream[r] # NoStream =>
        remote[stream[r]] # "idle" /\ request[stream[r]] \in {NoRequest, r}
RunningIsOpen ==
    \A r \in Registers : pc[r] \in {"registering", "session"} =>
        stream[r] # NoStream /\ remote[stream[r]] = "open"
OpenIsHeld ==
    \A c \in Streams : remote[c] = "open" =>
        \E r \in Registers : stream[r] = c /\ pc[r] \in {"registering", "session", "exiting"}
Owners == OwnStream /\ OwnRequest /\ RunningIsOpen /\ OpenIsHeld

LEMMA OwnersKept ==
    ASSUME Owners, UNCHANGED <<remote, request, stream>>,
           \A r \in Registers :
             /\ pc'[r] \in {"registering", "session"} => pc[r] \in {"registering", "session"}
             /\ pc[r] \in {"registering", "session", "exiting"} =>
                  pc'[r] \in {"registering", "session", "exiting"}
    PROVE  Owners'
  BY DEF Owners, OwnStream, OwnRequest, RunningIsOpen, OpenIsHeld

LEMMA OwnersAfterClose ==
    ASSUME TypeOK, Owners, NEW r \in Registers, NEW p \in {"down", "connecting", "ending"},
           pc' = [pc EXCEPT ![r] = p], UNCHANGED <<stream, request>>,
           \/ stream[r] \in Streams /\ remote' = [remote EXCEPT ![stream[r]] = "closed"]
           \/ remote' = remote /\ (stream[r] = NoStream \/ remote[stream[r]] # "open")
    PROVE  Owners'
<1> USE Types, NoneAssumption DEF Owners, OwnStream, OwnRequest, RunningIsOpen, OpenIsHeld, SP!TypeOK
<1>1. OwnStream' /\ OwnRequest'
  OBVIOUS
<1>2. RunningIsOpen'
  OBVIOUS
<1>3. OpenIsHeld'
  OBVIOUS
<1>. QED  BY <1>1, <1>2, <1>3

LEMMA OwnersNext ==
    ASSUME TypeOK, SP!IInv, SP!RecordsInv, Owners, [Next]_vars
    PROVE  Owners'
<1> USE Types
<1>1. CASE Supervised
  BY <1>1, SupervisedIs, OwnersKept
<1>2. ASSUME NEW r \in Registers,
             \/ ReadAck(r) \/ (\E p \in Slugs : MakePeerDir(r, p)) \/ Bind(r) \/ ReadJoined(r)
             \/ ReadLeft(r) \/ ClearAfterSession(r) \/ StartServer(r) \/ BeginShutdown(r)
      PROVE  Owners'
  <2>1. /\ UNCHANGED <<remote, request, stream>>
        /\ \A q \in Registers :
             /\ pc'[q] \in {"registering", "session"} => pc[q] \in {"registering", "session"}
             /\ pc[q] \in {"registering", "session", "exiting"} =>
                  pc'[q] \in {"registering", "session", "exiting"}
    BY <1>2 DEF ReadAck, MakePeerDir, Bind, ReadJoined, ReadLeft, ClearAfterSession,
                StartServer, BeginShutdown, supervisorVars
  <2>. QED  BY <2>1, OwnersKept
<1>3. ASSUME NEW r \in Registers, ReadNack(r) \/ RegisterLost(r) \/ SessionEnds(r) \/ SessionFails(r)
      PROVE  Owners'
  <2>1. stream[r] \in Streams
    BY <1>3 DEF Owners, RunningIsOpen, ReadNack, RegisterLost, SessionEnds, SessionFails
  <2>2. SP!CloseRemote(stream[r])
    BY <1>3, ServerStepsAre
  <2>3. /\ UNCHANGED <<stream, request>>
        /\ remote' = [remote EXCEPT ![stream[r]] = "closed"]
        /\ \E p \in {"down", "connecting", "ending"} : pc' = [pc EXCEPT ![r] = p]
    BY <1>3, <2>2 DEF SP!CloseRemote, ReadNack, RegisterLost, SessionEnds, SessionFails
  <2>. QED  BY <2>1, <2>3, OwnersAfterClose
<1>4. ASSUME NEW r \in Registers, FinishShutdown(r) \/ Kill(r)
      PROVE  Owners'
  <2>1. /\ UNCHANGED stream /\ pc' = [pc EXCEPT ![r] = "down"]
        /\ \/ stream[r] \in Streams /\ SP!CloseRemote(stream[r])
           \/ /\ UNCHANGED <<remote, request>>
              /\ stream[r] = NoStream \/ remote[stream[r]] # "open"
    <3>1. HangUp(r) /\ UNCHANGED stream /\ pc' = [pc EXCEPT ![r] = "down"]
      BY <1>4 DEF FinishShutdown, Kill
    <3>2. CASE stream[r] # NoStream /\ remote[stream[r]] = "open"
      BY <3>1, <3>2, SameQuiet DEF HangUp
    <3>3. CASE ~(stream[r] # NoStream /\ remote[stream[r]] = "open")
      BY <3>1, <3>3 DEF HangUp, supervisorVars
    <3>. QED  BY <3>1, <3>2, <3>3
  <2>2. \/ /\ stream[r] \in Streams /\ UNCHANGED request
           /\ remote' = [remote EXCEPT ![stream[r]] = "closed"]
        \/ /\ UNCHANGED <<remote, request>>
           /\ stream[r] = NoStream \/ remote[stream[r]] # "open"
    BY <2>1 DEF SP!CloseRemote
  <2>. QED  BY <2>1, <2>2, OwnersAfterClose
<1>5. ASSUME NEW r \in Registers, ConnectServer(r) PROVE Owners'
  <2>1. PICK c \in Streams : SP!Connect(c) /\ stream' = [stream EXCEPT ![r] = c]
    BY <1>5, ServerStepsAre
  <2>2. /\ remote[c] = "idle" /\ remote' = [remote EXCEPT ![c] = "open"] /\ request' = request
        /\ pc[r] = "connecting" /\ pc' = [pc EXCEPT ![r] = "registering"]
    BY <1>5, <2>1 DEF SP!Connect, ConnectServer
  <2>3. request[c] = NoRequest
    BY <2>2 DEF SP!RecordsInv, SP!ConnectedIsOwned
  <2> USE NoneAssumption DEF Owners, OwnStream, OwnRequest, RunningIsOpen, OpenIsHeld, SP!TypeOK
  <2>4. \A q \in Registers \ {r} : stream'[q] = stream[q] /\ stream[q] # c
    BY <2>1, <2>2
  <2>5. stream'[r] = c /\ c # NoStream /\ remote'[c] = "open"
    BY <2>1, <2>2
  <2>6. OwnStream'
    BY <2>4, <2>5
  <2>7. OwnRequest'
    <3> SUFFICES ASSUME NEW q \in Registers, stream'[q] # NoStream
                 PROVE  remote'[stream'[q]] # "idle" /\ request'[stream'[q]] \in {NoRequest, q}
      OBVIOUS
    <3>1. CASE q = r
      BY <2>2, <2>3, <2>5, <3>1
    <3>2. CASE q # r
      BY <2>2, <2>4, <3>2
    <3>. QED  BY <3>1, <3>2
  <2>8. RunningIsOpen'
    BY <2>2, <2>4, <2>5
  <2>9. OpenIsHeld'
    <3> SUFFICES ASSUME NEW d \in Streams, remote'[d] = "open"
                 PROVE  \E q \in Registers : stream'[q] = d /\ pc'[q] \in {"registering", "session", "exiting"}
      OBVIOUS
    <3>1. CASE d = c
      BY <2>2, <2>5, <3>1
    <3>2. CASE d # c
      <4>1. PICK q \in Registers : stream[q] = d /\ pc[q] \in {"registering", "session", "exiting"}
        BY <2>2, <3>2
      <4>. QED  BY <2>2, <2>4, <4>1
    <3>. QED  BY <3>1, <3>2
  <2>. QED  BY <2>6, <2>7, <2>8, <2>9
<1>6. ASSUME NEW r \in Registers, WriteRegister(r) PROVE Owners'
  <2>1. stream[r] \in Streams
    BY <1>6 DEF Owners, RunningIsOpen, WriteRegister
  <2>2. SP!SendRegister(stream[r], r)
    BY <1>6, <2>1, NoneAssumption, ServerStepsAre
  <2>3. UNCHANGED <<remote, stream, pc>> /\ request' = [request EXCEPT ![stream[r]] = r]
    BY <1>6, <2>2 DEF SP!SendRegister, WriteRegister, serverVars
  <2>. QED  BY <2>1, <2>3 DEF Owners, OwnStream, OwnRequest, RunningIsOpen, OpenIsHeld, SP!TypeOK
<1>7. CASE UNCHANGED vars
  BY <1>7, OwnersKept DEF vars, supervisorVars, serverVars
<1>. QED
  BY <1>1, <1>2, <1>3, <1>4, <1>5, <1>6, <1>7, StepsAre DEF ServerStep, ServerTask

-----------------------------------------------------------------------------
(* What holds of the supervisor                                            *)

SupInv ==
    SP!IInv /\ SP!FramesInv /\ SP!RecordsInv /\ SP!ViewsExact /\ SP!DirOfLiveServer

(* To the supervisor every step is one of its own module, or makes a       *)
(* directory.                                                              *)
LEMMA SupervisorStep ==
    ASSUME TypeOK, Owners, [Next]_vars
    PROVE  [SP!Next]_(SP!vars) \/ MakesDir
<1> USE Types
<1>1. CASE Supervised
  BY <1>1, SupervisedIs
<1>2. ASSUME NEW r \in Registers,
             \/ ReadAck(r) \/ Bind(r) \/ ReadJoined(r) \/ ReadLeft(r) \/ ClearAfterSession(r)
             \/ StartServer(r) \/ BeginShutdown(r)
      PROVE  UNCHANGED SP!vars
  BY <1>2 DEF ReadAck, Bind, ReadJoined, ReadLeft, ClearAfterSession, StartServer,
              BeginShutdown, supervisorVars, SP!vars
<1>3. ASSUME NEW r \in Registers, NEW p \in Slugs, MakePeerDir(r, p) PROVE MakesDir
  BY <1>3 DEF MakePeerDir, MakesDir
<1>4. ASSUME NEW r \in Registers, ReadNack(r) \/ RegisterLost(r) \/ SessionEnds(r) \/ SessionFails(r) \/ WriteRegister(r)
      PROVE  SP!Next
  <2>1. stream[r] \in Streams
    BY <1>4 DEF Owners, RunningIsOpen, ReadNack, RegisterLost, SessionEnds, SessionFails, WriteRegister
  <2>2. SP!CloseRemote(stream[r]) \/ SP!SendRegister(stream[r], r)
    BY <1>4, <2>1, NoneAssumption, ServerStepsAre
  <2>. QED  BY <2>1, <2>2 DEF SP!Next
<1>5. ASSUME NEW r \in Registers, ConnectServer(r) PROVE SP!Next
  BY <1>5, ServerStepsAre DEF SP!Next
<1>6. ASSUME NEW r \in Registers, FinishShutdown(r) \/ Kill(r) PROVE [SP!Next]_(SP!vars)
  <2>1. UNCHANGED supervisorVars \/ (stream[r] \in Streams /\ SP!CloseRemote(stream[r]))
    BY <1>6, ServerStepsAre DEF FinishShutdown, Kill
  <2>. QED  BY <2>1 DEF SP!Next, SP!vars, supervisorVars
<1>7. CASE UNCHANGED vars
  BY <1>7 DEF vars, supervisorVars, SP!vars
<1>. QED
  BY <1>1, <1>2, <1>3, <1>4, <1>5, <1>6, <1>7, StepsAre DEF ServerStep, ServerTask

LEMMA SupInvInit == Init => SupInv
<1> SUFFICES ASSUME SP!Init PROVE SupInv
  BY SameInit DEF Init
<1>1. SP!IInv /\ SP!FramesInv /\ SP!RecordsInv /\ SP!DirOfLiveServer
  BY SP!InitInv, SP!FramesInit, SP!RecordsInit, Assumptions
<1>2. SP!ViewsExact
  BY DEF SP!Init, SP!NoConns, SP!ViewsExact
<1>. QED  BY <1>1, <1>2 DEF SupInv

LEMMA SupInvNext ==
    ASSUME SupInv, [SP!Next]_(SP!vars) \/ MakesDir
    PROVE  SupInv'
<1> USE DEF SupInv
<1>1. CASE [SP!Next]_(SP!vars)
  <2>1. SP!IInv'
    BY <1>1, SP!NextInv, Assumptions
  <2>2. SP!TypeOK'
    BY <2>1 DEF SP!IInv
  <2>3. SP!FramesInv'
    BY <1>1, <2>2, SP!FramesNext, Assumptions
  <2>4. SP!RecordsInv'
    BY <1>1, SP!RecordsNext, Assumptions
  <2>5. SP!ViewsExact'
    BY <1>1, SP!ViewsNext, Assumptions
  <2>6. SP!DirOfLiveServer'
    BY <1>1, SP!LiveDirsNext, Assumptions
  <2>. QED  BY <2>1, <2>3, <2>4, <2>5, <2>6
<1>2. CASE MakesDir
  <2> USE <1>2 DEF MakesDir
  <2>1. SP!IInv'
    BY DEF SP!IInv, SP!TypeOK, SP!TablesAgree, SP!Present, SP!StreamsOwned,
           SP!RegistrationsOwned, SP!DeparturesDue
  <2>2. SP!FramesInv' /\ SP!RecordsInv'
    BY DEF SP!FramesInv, SP!RecordsInv, SP!RecordsMatch, SP!HeldIsRecorded, SP!ConnectedIsOwned,
           SP!RefusedIsDropped, SP!LossQueued, SP!DownIsEmpty
  <2>3. SP!ViewsExact' /\ SP!DirOfLiveServer'
    BY DEF SP!ViewsExact, SP!Believes, SP!Present, SP!DirOfLiveServer
  <2>. QED  BY <2>1, <2>2, <2>3
<1>. QED  BY <1>1, <1>2

(* What was written to a stream stays, and at most one frame is added. *)
LEMMA SentGrows ==
    ASSUME SupInv, [SP!Next]_(SP!vars) \/ MakesDir, NEW c \in Streams
    PROVE  /\ sent[c] \in Seq(SP!Message) /\ sent'[c] \in Seq(SP!Message)
           /\ sent'[c] = sent[c] \/ \E m \in SP!Message : sent'[c] = Append(sent[c], m)
           /\ Len(sent[c]) <= Len(sent'[c])
           /\ \A i \in DOMAIN sent[c] : i \in DOMAIN sent'[c] /\ sent'[c][i] = sent[c][i]
<1>1. sent[c] \in Seq(SP!Message)
  BY DEF SupInv, SP!IInv, SP!TypeOK
<1>2. sent'[c] = sent[c] \/ \E m \in SP!Message : sent'[c] = Append(sent[c], m)
  <2>1. CASE [SP!Next]_(SP!vars)
    BY <2>1, SP!FramesAppended, Assumptions DEF SupInv
  <2>2. CASE MakesDir
    BY <2>2 DEF MakesDir
  <2>. QED  BY <2>1, <2>2
<1>3. CASE sent'[c] = sent[c]
  BY <1>1, <1>3
<1>4. ASSUME NEW m \in SP!Message, sent'[c] = Append(sent[c], m)
      PROVE  /\ sent'[c] \in Seq(SP!Message) /\ Len(sent[c]) <= Len(sent'[c])
             /\ \A i \in DOMAIN sent[c] : i \in DOMAIN sent'[c] /\ sent'[c][i] = sent[c][i]
  BY <1>1, <1>4
<1>. QED  BY <1>1, <1>2, <1>3, <1>4

-----------------------------------------------------------------------------
(* Types *)

LEMMA TypesInit == Init => TypeOK
<1> SUFFICES ASSUME Init PROVE TypeOK
  OBVIOUS
<1>1. SP!TypeOK
  BY SupInvInit DEF SupInv, SP!IInv
<1>. QED  BY <1>1, SameTypes, MaxStopsAssumption DEF Init, TypeOK

(* The frames that were sent bound what was read; every server's step is   *)
(* looked at for the two.                                                  *)
ReadBounded ==
    \A r \in Registers :
        readUpTo[r] <= (IF stream[r] = NoStream THEN 0 ELSE Len(sent[stream[r]]))

LEMMA ReadBoundedKept ==
    ASSUME TypeOK, SupInv, [SP!Next]_(SP!vars) \/ MakesDir, UNCHANGED <<stream, readUpTo>>
    PROVE  ReadBounded'
<1> SUFFICES ASSUME NEW r \in Registers
             PROVE  readUpTo[r] <= (IF stream[r] = NoStream THEN 0 ELSE Len(sent'[stream[r]]))
  BY DEF ReadBounded
<1>1. CASE stream[r] = NoStream
  BY <1>1 DEF TypeOK
<1>2. CASE stream[r] # NoStream
  <2>1. stream[r] \in Streams
    BY <1>2, Types
  <2>2. /\ Len(sent[stream[r]]) <= Len(sent'[stream[r]])
        /\ Len(sent[stream[r]]) \in Nat /\ Len(sent'[stream[r]]) \in Nat
    BY <2>1, SentGrows
  <2>. QED  BY <1>2, <2>2, Types
<1>. QED  BY <1>1, <1>2

(* The frame a server reads is of the type that its stream carries. *)
LEMMA FrameRead ==
    ASSUME TypeOK, SupInv, NEW r \in Registers, stream[r] # NoStream, Unread(r)
    PROVE  /\ stream[r] \in Streams
           /\ readUpTo[r] + 1 \in DOMAIN sent[stream[r]]
           /\ readUpTo[r] + 1 <= Len(sent[stream[r]])
           /\ NextFrame(r) \in SP!Message
  BY Types DEF Unread, NextFrame, SP!TypeOK

LEMMA ServerTypesNext ==
    ASSUME TypeOK, SupInv, Owners, [Next]_vars
    PROVE  /\ pc' \in [Registers -> {"down", "connecting", "registering", "session",
                                     "ending", "exiting"}]
           /\ stream' \in [Registers -> Streams \cup {NoStream}]
           /\ readUpTo' \in [Registers -> Nat] /\ ReadBounded'
           /\ stops' \in Seq(Registers \X {"kill", "shutdown", "failure"})
<1> DEFINE Goal ==
           /\ pc' \in [Registers -> {"down", "connecting", "registering", "session",
                                     "ending", "exiting"}]
           /\ stream' \in [Registers -> Streams \cup {NoStream}]
           /\ readUpTo' \in [Registers -> Nat] /\ ReadBounded'
           /\ stops' \in Seq(Registers \X {"kill", "shutdown", "failure"})
<1>0. [SP!Next]_(SP!vars) \/ MakesDir
  BY SupervisorStep
<1>1. CASE Supervised \/ UNCHANGED vars
  <2>1. UNCHANGED <<pc, stream, readUpTo, stops>>
    BY <1>1, SupervisedIs DEF vars, serverVars
  <2>. QED  BY <1>0, <2>1, ReadBoundedKept DEF TypeOK
<1>2. ASSUME NEW r \in Registers,
             \/ WriteRegister(r) \/ ReadNack(r) \/ RegisterLost(r) \/ SessionEnds(r)
             \/ (\E p \in Slugs : MakePeerDir(r, p)) \/ Bind(r)
             \/ ClearAfterSession(r) \/ StartServer(r) \/ FinishShutdown(r)
      PROVE  Goal
  <2>1. /\ UNCHANGED <<stream, readUpTo, stops>>
        /\ pc' = pc \/ \E p \in {"down", "connecting", "ending"} : pc' = [pc EXCEPT ![r] = p]
    BY <1>2 DEF WriteRegister, ReadNack, RegisterLost, SessionEnds, MakePeerDir, Bind,
                ClearAfterSession, StartServer, FinishShutdown, serverVars
  <2>2. ReadBounded'
    BY <1>0, <2>1, ReadBoundedKept
  <2>3. pc' \in [Registers -> {"down", "connecting", "registering", "session", "ending", "exiting"}]
    BY <2>1, Types
  <2>. QED  BY <2>1, <2>2, <2>3 DEF TypeOK
<1>3. ASSUME NEW r \in Registers, BeginShutdown(r) \/ Kill(r) \/ SessionFails(r) PROVE Goal
  <2>1. /\ UNCHANGED <<stream, readUpTo>>
        /\ \E p \in {"down", "exiting", "ending"} : pc' = [pc EXCEPT ![r] = p]
        /\ \E how \in {"kill", "shutdown", "failure"} : stops' = Append(stops, <<r, how>>)
    BY <1>3 DEF BeginShutdown, Kill, SessionFails
  <2>2. ReadBounded'
    BY <1>0, <2>1, ReadBoundedKept
  <2>. QED  BY <2>1, <2>2 DEF TypeOK
<1>4. ASSUME NEW r \in Registers, ReadAck(r) \/ ReadJoined(r) \/ ReadLeft(r) PROVE Goal
  <2>1. /\ UNCHANGED <<stream, sent, stops>> /\ stream[r] # NoStream /\ Unread(r)
        /\ pc' = pc \/ pc' = [pc EXCEPT ![r] = "session"]
        /\ readUpTo' = [readUpTo EXCEPT ![r] = @ + 1]
    BY <1>4 DEF ReadAck, ReadJoined, ReadLeft, supervisorVars, Owners, RunningIsOpen
  <2>2. readUpTo[r] + 1 <= Len(sent[stream[r]])
    BY <2>1, FrameRead
  <2>3. readUpTo' \in [Registers -> Nat]
    BY <2>1 DEF TypeOK
  <2>4. ReadBounded'
    BY <2>1, <2>2 DEF ReadBounded, TypeOK
  <2>. QED  BY <2>1, <2>3, <2>4 DEF TypeOK
<1>5. ASSUME NEW r \in Registers, ConnectServer(r) PROVE Goal
  <2>1. PICK c \in Streams : SP!Connect(c) /\ stream' = [stream EXCEPT ![r] = c]
    BY <1>5, ServerStepsAre, Types
  <2>2. /\ readUpTo' = [readUpTo EXCEPT ![r] = 0] /\ UNCHANGED <<stops, sent>>
        /\ pc' = [pc EXCEPT ![r] = "registering"]
    BY <1>5, <2>1 DEF ConnectServer, NewReader, SP!Connect
  <2>3. Len(sent[c]) \in Nat /\ c # NoStream
    BY <2>1, NoneAssumption, Types DEF SP!TypeOK
  <2>4. stream' \in [Registers -> Streams \cup {NoStream}] /\ readUpTo' \in [Registers -> Nat]
    BY <2>1, <2>2 DEF TypeOK
  <2>5. ReadBounded'
    BY <2>1, <2>2, <2>3 DEF ReadBounded, TypeOK
  <2>. QED  BY <2>2, <2>4, <2>5 DEF TypeOK
<1>. QED
  BY <1>1, <1>2, <1>3, <1>4, <1>5, StepsAre DEF ServerStep, ServerTask

(* A failed session is remembered until the next Ack. *)
LEMMA LostNext ==
    ASSUME TypeOK, [Next]_vars
    PROVE  lost' \subseteq Registers
<1>0. lost \subseteq Registers
  BY DEF TypeOK
<1>1. CASE Supervised \/ UNCHANGED vars
  BY <1>0, <1>1, SupervisedIs DEF vars, serverVars
<1>2. ASSUME NEW r \in Registers, StartServer(r) PROVE lost' = lost
  BY <1>0, <1>2 DEF StartServer
<1>3. ASSUME NEW r \in Registers, ServerTask(r) \/ SessionFails(r) \/ BeginShutdown(r) \/ Kill(r)
      PROVE  lost' \subseteq lost \cup {r}
  BY <1>3 DEF ServerTask, ConnectServer, WriteRegister, ReadAck, ReadNack, RegisterLost,
     MakePeerDir, Bind, ReadJoined, ReadLeft, SessionEnds, ClearAfterSession, FinishShutdown,
     SessionFails, BeginShutdown, Kill, serverVars
<1>. QED  BY <1>0, <1>1, <1>2, <1>3, StepsAre DEF ServerStep

LEMMA ListenerTypesNext ==
    ASSUME TypeOK, SupInv, Owners, [Next]_vars
    PROVE  /\ todo' \in [Registers -> SUBSET Slugs]
           /\ binding' \in [Registers -> Slugs \cup {NoSlug}]
           /\ listening' \in [Registers -> SUBSET Slugs]
<1> DEFINE Goal ==
           /\ todo' \in [Registers -> SUBSET Slugs]
           /\ binding' \in [Registers -> Slugs \cup {NoSlug}]
           /\ listening' \in [Registers -> SUBSET Slugs]
<1> USE Types
<1>1. CASE Supervised \/ UNCHANGED vars
  BY <1>1, SupervisedIs DEF vars, serverVars
<1>2. ASSUME NEW r \in Registers,
             \/ ConnectServer(r) \/ WriteRegister(r) \/ ReadNack(r) \/ RegisterLost(r)
             \/ SessionEnds(r) \/ SessionFails(r) \/ StartServer(r) \/ FinishShutdown(r)
      PROVE  Goal
  BY <1>2 DEF ConnectServer, WriteRegister, ReadNack, RegisterLost, SessionEnds, SessionFails, StartServer,
              FinishShutdown, serverVars
<1>3. ASSUME NEW r \in Registers, ReadAck(r) PROVE Goal
  <2>1. NextFrame(r) \in SP!Message /\ NextFrame(r).type = "Ack"
    BY <1>3, FrameRead DEF ReadAck, Owners, RunningIsOpen
  <2>2. NextFrame(r).peers \in SUBSET Slugs
    BY <2>1 DEF SP!Message
  <2>. QED  BY <1>3, <2>2 DEF ReadAck
<1>4. ASSUME NEW r \in Registers, ReadJoined(r) PROVE Goal
  <2>1. NextFrame(r) \in SP!Message /\ NextFrame(r).type = "PeerJoined"
    BY <1>4, FrameRead DEF ReadJoined, Owners, RunningIsOpen
  <2>2. NextFrame(r).slug \in Slugs
    BY <2>1 DEF SP!Message
  <2>. QED  BY <1>4, <2>2 DEF ReadJoined
<1>5. ASSUME NEW r \in Registers, NEW p \in Slugs, MakePeerDir(r, p) PROVE Goal
  BY <1>5 DEF MakePeerDir
<1>6. ASSUME NEW r \in Registers, Bind(r) PROVE Goal
  <2>1. binding[r] \in Slugs /\ todo' = todo /\ binding' = [binding EXCEPT ![r] = NoSlug]
    BY <1>6 DEF Bind
  <2>2. \/ listening' = [listening EXCEPT ![r] = @ \cup {binding[r]}]
        \/ listening' = [listening EXCEPT ![r] = @ \ {binding[r]}]
    BY <1>6 DEF Bind
  <2>3. listening' \in [Registers -> SUBSET Slugs]
    BY <2>1, <2>2
  <2>. QED  BY <2>1, <2>3
<1>7. ASSUME NEW r \in Registers,
             ReadLeft(r) \/ ClearAfterSession(r) \/ BeginShutdown(r) \/ Kill(r)
      PROVE  Goal
  <2>1. (\E peers : listening' = [listening EXCEPT ![r] = @ \ peers])
          \/ listening' = [listening EXCEPT ![r] = {}]
    BY <1>7 DEF ReadLeft, ClearAfterSession, BeginShutdown, Kill, ClearAll, RemoveListeners
  <2>2. listening' \in [Registers -> SUBSET Slugs]
    BY <2>1
  <2>3. /\ todo' = todo \/ todo' = [todo EXCEPT ![r] = {}]
        /\ binding' = binding \/ binding' = [binding EXCEPT ![r] = NoSlug]
    BY <1>7 DEF ReadLeft, ClearAfterSession, BeginShutdown, Kill
  <2>. QED  BY <2>2, <2>3
<1>. QED
  BY <1>1, <1>2, <1>3, <1>4, <1>5, <1>6, <1>7, StepsAre DEF ServerStep, ServerTask

(* Only the supervisor removes directories. *)
LEMMA DirsKept ==
    ASSUME TypeOK, Owners, NEW r \in Registers, ServerStep(r)
    PROVE  dirs \subseteq dirs'
<1>1. CASE \E p \in Slugs : MakePeerDir(r, p)
  BY <1>1 DEF MakePeerDir
<1>2. CASE ConnectServer(r) \/ WriteRegister(r) \/ ReadNack(r) \/ RegisterLost(r) \/ SessionEnds(r) \/ SessionFails(r)
  BY <1>2 DEF ConnectServer, WriteRegister, ReadNack, RegisterLost, SessionEnds, SessionFails,
              Sup!Connect, Sup!SendRegister, Sup!CloseRemote
<1>3. CASE FinishShutdown(r) \/ Kill(r)
  BY <1>3 DEF FinishShutdown, Kill, HangUp, Sup!CloseRemote, supervisorVars
<1>. QED
  BY <1>1, <1>2, <1>3 DEF ServerStep, ServerTask, ReadAck, Bind, ReadJoined, ReadLeft,
     ClearAfterSession, StartServer, BeginShutdown, supervisorVars

(* What a step of a server does to the files: it binds one, where the      *)
(* directory is, removes those of the listeners it drops, or neither.      *)
LEMMA FilesAfter ==
    ASSUME NEW r \in Registers, ServerStep(r)
    PROVE  \/ UNCHANGED files
           \/ /\ binding[r] \in dirs /\ files' = files \cup {Socket(r, binding[r])}
              /\ listening' = [listening EXCEPT ![r] = @ \cup {binding[r]}]
              /\ UNCHANGED <<dirs, pc, stops>>
           \/ \E peers : RemoveListeners(r, peers)
<1>1. CASE Bind(r)
  BY <1>1 DEF Bind, supervisorVars
<1>2. CASE ReadLeft(r) \/ ClearAfterSession(r) \/ BeginShutdown(r)
  BY <1>2 DEF ReadLeft, ClearAfterSession, BeginShutdown, ClearAll
<1>. QED
  BY <1>1, <1>2 DEF ServerStep, ServerTask, ConnectServer, WriteRegister, ReadAck, ReadNack,
     RegisterLost, MakePeerDir, ReadJoined, SessionEnds, SessionFails, FinishShutdown,
     StartServer, Kill, serverVars

LEMMA FileTypesNext ==
    ASSUME TypeOK, Owners, [Next]_vars
    PROVE  files' \subseteq {Socket(r, p) : r \in Registers, p \in dirs'}
<1>0. files \subseteq {Socket(r, p) : r \in Registers, p \in dirs}
  BY DEF TypeOK
<1>1. CASE Supervised
  <2>1. files' \subseteq {f \in files : f[1] \in dirs'}
    BY <1>1, SupervisedIs
  <2>. QED  BY <1>0, <2>1 DEF Socket
<1>2. ASSUME NEW r \in Registers, ServerStep(r)
      PROVE  files' \subseteq {Socket(q, p) : q \in Registers, p \in dirs'}
  <2>1. files' \subseteq {Socket(q, p) : q \in Registers, p \in dirs}
    BY <1>0, <1>2, FilesAfter DEF RemoveListeners
  <2>. QED  BY <1>2, <2>1, DirsKept
<1>3. CASE UNCHANGED vars
  BY <1>0, <1>3 DEF vars, serverVars, supervisorVars
<1>. QED  BY <1>1, <1>2, <1>3, StepsAre

LEMMA TypesNext == TypeOK /\ SupInv /\ Owners /\ [Next]_vars => TypeOK'
<1> SUFFICES ASSUME TypeOK, SupInv, Owners, [Next]_vars PROVE TypeOK'
  OBVIOUS
<1>1. SP!TypeOK'
  BY SupervisorStep, SupInvNext DEF SupInv, SP!IInv
<1>2. Sup!TypeOK'
  BY <1>1, SameTypesNext
<1>. QED
  BY <1>2, ServerTypesNext, ListenerTypesNext, FileTypesNext, LostNext DEF TypeOK, ReadBounded

-----------------------------------------------------------------------------
(* Where a server is in its loop                                           *)

(* A step of one server is no business of another one. *)
Still(q) ==
    /\ pc'[q] = pc[q] /\ stream'[q] = stream[q] /\ readUpTo'[q] = readUpTo[q]
    /\ todo'[q] = todo[q] /\ binding'[q] = binding[q] /\ listening'[q] = listening[q]
    /\ q \in lost' <=> q \in lost

LEMMA OthersStill ==
    ASSUME TypeOK, NEW r \in Registers, ServerStep(r), NEW q \in Registers \ {r}
    PROVE  Still(q)
<1> USE Types DEF Still
<1>1. CASE \/ ConnectServer(r) \/ WriteRegister(r) \/ ReadAck(r) \/ ReadNack(r) \/ RegisterLost(r)
  BY <1>1 DEF ConnectServer, WriteRegister, ReadAck, ReadNack, RegisterLost, NewReader, serverVars
<1>2. CASE (\E p \in Slugs : MakePeerDir(r, p)) \/ Bind(r) \/ ReadJoined(r) \/ ReadLeft(r)
  BY <1>2 DEF MakePeerDir, Bind, ReadJoined, ReadLeft, RemoveListeners
<1>3. CASE SessionEnds(r) \/ SessionFails(r) \/ ClearAfterSession(r) \/ FinishShutdown(r) \/ StartServer(r)
  BY <1>3 DEF SessionEnds, SessionFails, ClearAfterSession, FinishShutdown, StartServer, ClearAll, RemoveListeners
<1>4. CASE BeginShutdown(r) \/ Kill(r)
  BY <1>4 DEF BeginShutdown, Kill, ClearAll, RemoveListeners
<1>. QED  BY <1>1, <1>2, <1>3, <1>4 DEF ServerStep, ServerTask

(* A step of the system is a step of one server, or of none. *)
LEMMA WhoMoves ==
    ASSUME TypeOK, [Next]_vars, NEW q \in Registers
    PROVE  \/ ServerStep(q)
           \/ Still(q)
  BY StepsAre, OthersStill, SupervisedIs DEF vars, serverVars, Still

(* Who was stopped, or killed, stays so. *)
LEMMA StopsKept ==
    ASSUME TypeOK, [Next]_vars, NEW r \in Registers
    PROVE  (Stopped(r) => Stopped(r)') /\ (Killed(r) => Killed(r)')
<1>0. stops \in Seq(Registers \X {"kill", "shutdown", "failure"})
  BY DEF TypeOK
<1>1. stops' = stops \/ \E s \in Registers \X {"kill", "shutdown", "failure"} : stops' = Append(stops, s)
  <2>1. ASSUME NEW q \in Registers, BeginShutdown(q) \/ Kill(q) \/ SessionFails(q)
        PROVE  \E s \in Registers \X {"kill", "shutdown", "failure"} : stops' = Append(stops, s)
    BY <2>1 DEF BeginShutdown, Kill, SessionFails
  <2>2. ASSUME NEW q \in Registers, ServerTask(q) \/ StartServer(q) PROVE stops' = stops
    BY <2>2 DEF ServerTask, ConnectServer, WriteRegister, ReadAck, ReadNack, RegisterLost,
       MakePeerDir, Bind, ReadJoined, ReadLeft, SessionEnds, ClearAfterSession, FinishShutdown,
       StartServer, serverVars
  <2>3. Supervised \/ UNCHANGED vars => stops' = stops
    BY SupervisedIs DEF vars, serverVars
  <2>. QED
    BY <2>1, <2>2, <2>3, StepsAre DEF ServerStep
<1>2. \A i \in DOMAIN stops : i \in DOMAIN stops' /\ stops'[i] = stops[i]
  <2>1. ASSUME NEW s \in Registers \X {"kill", "shutdown", "failure"}, stops' = Append(stops, s)
        PROVE  \A i \in DOMAIN stops : i \in DOMAIN stops' /\ stops'[i] = stops[i]
    <3> DEFINE S == Registers \X {"kill", "shutdown", "failure"}
    <3>1. s \in S /\ stops \in Seq(S)
      BY <1>0
    <3> HIDE DEF S
    <3>. QED  BY <2>1, <3>1
  <2>. QED  BY <1>1, <2>1
<1>. QED  BY <1>2 DEF Stopped, Killed

(* The steps that stop a server are recorded. *)
LEMMA StopRecorded ==
    ASSUME TypeOK, NEW r \in Registers
    PROVE  (BeginShutdown(r) => Stopped(r)') /\ (Kill(r) => Stopped(r)' /\ Killed(r)')
<1> SUFFICES ASSUME NEW how \in {"kill", "shutdown"}, stops' = Append(stops, <<r, how>>)
             PROVE  Stopped(r)' /\ <<r, how>> \in {stops'[i] : i \in DOMAIN stops'}
  BY DEF BeginShutdown, Kill, Killed
<1>1. Len(stops) + 1 \in DOMAIN stops' /\ stops'[Len(stops) + 1] = <<r, how>>
  BY DEF TypeOK
<1>. QED  BY <1>1 DEF Stopped

(* What a server has read and what it has to do, by where it is.           *)
PlaceOf(r) ==
    /\ pc[r] = "registering" => readUpTo[r] = 0
    /\ pc[r] = "session" => readUpTo[r] # 0 /\ r \notin lost
    /\ pc[r] # "session" => Idle(r)
    /\ pc[r] \notin {"session", "ending"} => listening[r] = {}
    /\ pc[r] = "exiting" => Stopped(r)
Places == \A r \in Registers : PlaceOf(r)

LEMMA PlacesNext ==
    ASSUME TypeOK, Places, [Next]_vars
    PROVE  Places'
<1> SUFFICES ASSUME NEW r \in Registers PROVE PlaceOf(r)'
  BY DEF Places
<1> USE Types DEF PlaceOf, Idle
<1>0. PlaceOf(r) /\ (Stopped(r) => Stopped(r)')
  BY StopsKept DEF Places
<1>1. CASE Still(r)
  BY <1>0, <1>1 DEF Still
<1>2. CASE \/ ConnectServer(r) \/ WriteRegister(r) \/ ReadAck(r) \/ ReadNack(r) \/ RegisterLost(r)
  BY <1>0, <1>2 DEF ConnectServer, WriteRegister, ReadAck, ReadNack, RegisterLost, NewReader, serverVars
<1>3. CASE (\E p \in Slugs : MakePeerDir(r, p)) \/ Bind(r)
  BY <1>0, <1>3 DEF MakePeerDir, Bind
<1>4. CASE ReadJoined(r) \/ ReadLeft(r)
  BY <1>0, <1>4 DEF ReadJoined, ReadLeft, RemoveListeners
<1>5. CASE SessionEnds(r) \/ SessionFails(r) \/ ClearAfterSession(r) \/ FinishShutdown(r) \/ StartServer(r)
  BY <1>0, <1>5 DEF SessionEnds, SessionFails, ClearAfterSession, FinishShutdown, StartServer, ClearAll, RemoveListeners
<1>6. CASE BeginShutdown(r) \/ Kill(r)
  BY <1>0, <1>6, StopRecorded DEF BeginShutdown, Kill, ClearAll, RemoveListeners
<1>. QED  BY <1>1, <1>2, <1>3, <1>4, <1>5, <1>6, WhoMoves DEF ServerStep, ServerTask

-----------------------------------------------------------------------------
(* Socket files *)

(* Files of two servers differ. *)
LEMMA SocketsDiffer ==
    ASSUME NEW r \in Registers, NEW q \in Registers, NEW s, NEW t, Socket(r, s) = Socket(q, t)
    PROVE  r = q /\ s = t
  BY OneGroupPerSlug DEF Socket, SlugOf

LEMMA StaleNext ==
    ASSUME TypeOK, Owners, StaleSocketsOfKilledOnly, [Next]_vars
    PROVE  StaleSocketsOfKilledOnly'
<1> SUFFICES ASSUME NEW r \in Registers, NEW p \in Slugs, Socket(r, p) \in files'
             PROVE  p \in listening'[r] \/ Killed(r)'
  BY DEF StaleSocketsOfKilledOnly, Socket, SlugOf
<1> USE Types DEF StaleSocketsOfKilledOnly
<1>0. Killed(r) => Killed(r)'
  BY StopsKept
<1>1. CASE Supervised
  BY <1>0, <1>1, SupervisedIs
<1>2. ASSUME NEW q \in Registers \ {r}, ServerStep(q) PROVE p \in listening'[r] \/ Killed(r)'
  <2>0. \A s : Socket(r, p) # Socket(q, s)
    BY SocketsDiffer
  <2>1. Socket(r, p) \in files
    BY <1>2, <2>0, FilesAfter DEF RemoveListeners
  <2>. QED  BY <1>0, <1>2, <2>1, OthersStill DEF Still
<1>3. CASE Bind(r)
  <2>1. CASE binding[r] \in dirs
    <3>1. /\ files' = files \cup {Socket(r, binding[r])}
          /\ listening'[r] = listening[r] \cup {binding[r]}
      BY <1>3, <2>1 DEF Bind
    <3>. QED  BY <1>0, <3>1, SocketsDiffer
  <2>2. CASE binding[r] \notin dirs
    <3>1. files' = files /\ listening'[r] = listening[r] \ {binding[r]}
      BY <1>3, <2>2 DEF Bind
    <3>2. p \in dirs
      BY <3>1, SocketsDiffer DEF TypeOK
    <3>. QED  BY <1>0, <2>2, <3>1, <3>2
  <2>. QED  BY <2>1, <2>2
<1>4. ASSUME NEW peers, RemoveListeners(r, peers) PROVE p \in listening'[r] \/ Killed(r)'
  BY <1>0, <1>4, SocketsDiffer DEF RemoveListeners
<1>5. CASE Kill(r)
  BY <1>5, StopRecorded
<1>6. CASE \/ ConnectServer(r) \/ WriteRegister(r) \/ ReadAck(r) \/ ReadNack(r) \/ RegisterLost(r)
           \/ (\E s \in Slugs : MakePeerDir(r, s)) \/ ReadJoined(r) \/ SessionEnds(r) \/ SessionFails(r)
           \/ FinishShutdown(r) \/ StartServer(r)
  <2>1. UNCHANGED <<files, listening>>
    BY <1>6 DEF ConnectServer, WriteRegister, ReadAck, ReadNack, RegisterLost, MakePeerDir,
       ReadJoined, SessionEnds, SessionFails, FinishShutdown, StartServer, serverVars
  <2>. QED  BY <1>0, <2>1
<1>7. CASE UNCHANGED vars
  BY <1>0, <1>7 DEF vars, serverVars
<1>8. ReadLeft(r) \/ ClearAfterSession(r) \/ BeginShutdown(r) => \E peers : RemoveListeners(r, peers)
  BY DEF ReadLeft, ClearAfterSession, BeginShutdown, ClearAll
<1>. QED
  BY <1>1, <1>2, <1>3, <1>4, <1>5, <1>6, <1>7, <1>8, StepsAre DEF ServerStep, ServerTask

-----------------------------------------------------------------------------
(* Sessions                                                                *)

Base == TypeOK /\ SupInv /\ Owners /\ Places

(* The stream of a session was acknowledged, so it is registered or has    *)
(* been dropped.                                                           *)
LEMMA SessionStream ==
    ASSUME Base, NEW r \in Registers, pc[r] = "session"
    PROVE  /\ stream[r] \in Streams /\ remote[stream[r]] = "open"
           /\ sent[stream[r]] \in Seq(SP!Message)
           /\ readUpTo[r] \in 1..Len(sent[stream[r]])
           /\ holder[stream[r]] \in {"conns", "dropped"}
<1>1. stream[r] \in Streams /\ remote[stream[r]] = "open"
  BY Types DEF Base, Owners, RunningIsOpen
<1>2. sent[stream[r]] \in Seq(SP!Message) /\ holder[stream[r]] \in SP!Holder
  BY <1>1, Types DEF Base, SP!TypeOK
<1>3. readUpTo[r] \in Nat /\ readUpTo[r] # 0 /\ readUpTo[r] <= Len(sent[stream[r]])
  BY <1>1, NoneAssumption, Types DEF Base, Places, PlaceOf
<1>4. sent[stream[r]] # <<>>
  BY <1>2, <1>3
<1>5. holder[stream[r]] \notin SP!Early
  BY <1>1, <1>4 DEF Base, SupInv, SP!FramesInv
<1>. QED  BY <1>1, <1>2, <1>3, <1>5 DEF SP!Early, SP!Holder

-----------------------------------------------------------------------------
(* Reconnections                                                           *)

(* A server that nobody stopped leaves a stream once the supervisor has    *)
(* dropped it, or when its session failed.  In the first case no stream of *)
(* its own stands in its way when it registers; in the second one may,     *)
(* until an Ack says that it does not.                                     *)
Away == {"down", "connecting", "ending"}
Gone(r) == IF r \in lost THEN {"conns", "dropped"} ELSE {"dropped"}
OldStreamsGone(r) ==
    /\ pc[r] \in Away /\ stream[r] # NoStream => holder[stream[r]] \in Gone(r)
    /\ \A c \in Streams \ {stream[r]} : request[c] = r => holder[c] \in Gone(r)
OnceAcknowledged(r) ==
    stream[r] # NoStream /\ SP!Acknowledged(sent[stream[r]]) =>
        \A c \in Streams \ {stream[r]} : request[c] = r => holder[c] = "dropped"
NotDuplicate(r) ==
    stream[r] # NoStream =>
        \A i \in DOMAIN sent[stream[r]] : sent[stream[r]][i] # SP!Nack("duplicate")
Left ==
    \A r \in Registers : ~Stopped(r) =>
        OldStreamsGone(r) /\ OnceAcknowledged(r) /\ (r \notin lost => NotDuplicate(r))

LEMMA DroppedStays ==
    ASSUME SupInv, [SP!Next]_(SP!vars) \/ MakesDir, NEW c \in Streams, holder[c] = "dropped"
    PROVE  holder'[c] = "dropped"
<1>1. CASE [SP!Next]_(SP!vars)
  BY <1>1, SP!OwnerMoves, Assumptions DEF SupInv
<1>. QED  BY <1>1 DEF MakesDir

LEMMA GoneStays ==
    ASSUME SupInv, [SP!Next]_(SP!vars) \/ MakesDir, NEW c \in Streams,
           holder[c] \in {"conns", "dropped"}
    PROVE  holder'[c] \in {"conns", "dropped"}
<1>1. CASE [SP!Next]_(SP!vars)
  BY <1>1, SP!OwnerMoves, Assumptions DEF SupInv
<1>. QED  BY <1>1 DEF MakesDir

(* A request is written to a server's stream by that server. *)
LEMMA RequestsWritten ==
    ASSUME TypeOK, Owners, [Next]_vars, NEW c \in Streams, NEW r \in Registers,
           request'[c] = r
    PROVE  request[c] = r \/ c = stream[r]
<1> USE Types DEF SP!TypeOK
<1>1. CASE Supervised \/ UNCHANGED vars
  BY <1>1, SupervisedIs DEF vars, supervisorVars
<1>2. ASSUME NEW q \in Registers, WriteRegister(q) PROVE request[c] = r \/ c = stream[r]
  <2>1. stream[q] \in Streams
    BY <1>2 DEF Owners, RunningIsOpen, WriteRegister
  <2>2. request' = [request EXCEPT ![stream[q]] = q]
    BY <1>2, <2>1, NoneAssumption, ServerStepsAre DEF SP!SendRegister
  <2>. QED  BY <2>1, <2>2
<1>3. ASSUME NEW q \in Registers, ServerStep(q), ~WriteRegister(q) PROVE request' = request
  <2>1. CASE ConnectServer(q) \/ ReadNack(q) \/ RegisterLost(q) \/ SessionEnds(q) \/ SessionFails(q)
    BY <2>1, ServerStepsAre DEF SP!Connect, SP!CloseRemote
  <2>2. CASE FinishShutdown(q) \/ Kill(q)
    BY <2>2, ServerStepsAre DEF FinishShutdown, Kill, SP!CloseRemote, supervisorVars
  <2>. QED
    BY <1>3, <2>1, <2>2 DEF ServerStep, ServerTask, ReadAck, MakePeerDir, Bind, ReadJoined,
       ReadLeft, ClearAfterSession, StartServer, BeginShutdown, supervisorVars
<1>. QED  BY <1>1, <1>2, <1>3, StepsAre

(* A server that leaves its stream unstopped was told to, or found it at   *)
(* its end, or its session failed.                                         *)
LEMMA LeavesGone ==
    ASSUME Base, NEW r \in Registers,
           ReadNack(r) \/ RegisterLost(r) \/ SessionEnds(r) \/ SessionFails(r)
    PROVE  /\ stream'[r] = stream[r] /\ (r \in lost => r \in lost')
           /\ holder[stream[r]] \in Gone(r)'
<1> USE DEF Base, Gone
<1>1. CASE ReadNack(r)
  <2>1. holder[stream[r]] = "dropped"
    BY <1>1, FrameRead DEF ReadNack, NextFrame, Owners, RunningIsOpen, SupInv, SP!RecordsInv,
       SP!RefusedIsDropped
  <2>. QED  BY <1>1, <2>1 DEF ReadNack
<1>2. CASE RegisterLost(r) \/ SessionEnds(r)
  BY <1>2 DEF RegisterLost, SessionEnds, StreamEnded, AtEof
<1>3. CASE SessionFails(r)
  BY <1>3, SessionStream DEF SessionFails
<1>. QED  BY <1>1, <1>2, <1>3

(* What Left says of a server is kept while it does not read an Ack or go  *)
(* on to another stream.                                                   *)
LEMMA LeftKept ==
    ASSUME Base, Left, [Next]_vars, NEW r \in Registers, ~Stopped(r),
           stream'[r] = stream[r], r \in lost => r \in lost',
           pc'[r] \in Away => pc[r] \in Away \/ holder[stream[r]] \in Gone(r)'
    PROVE  OldStreamsGone(r)' /\ OnceAcknowledged(r)' /\ (r \notin lost' => NotDuplicate(r)')
<1> USE Types DEF Base
<1> DEFINE c == stream[r]
<1>0. [SP!Next]_(SP!vars) \/ MakesDir
  BY SupervisorStep
<1>1. /\ OldStreamsGone(r) /\ OnceAcknowledged(r) /\ (r \notin lost => NotDuplicate(r))
      /\ Gone(r) \subseteq Gone(r)'
  BY DEF Left, Gone
<1>2. ASSUME NEW d \in Streams, holder[d] \in Gone(r)' PROVE holder'[d] \in Gone(r)'
  BY <1>0, <1>2, DroppedStays, GoneStays DEF Gone
<1>3. \A d \in Streams \ {c} : request'[d] = r => request[d] = r
  BY RequestsWritten
<1>4. OldStreamsGone(r)'
  <2>1. pc'[r] \in Away /\ c # NoStream => holder'[c] \in Gone(r)'
    BY <1>1, <1>2 DEF OldStreamsGone
  <2>2. \A d \in Streams \ {c} : request'[d] = r => holder'[d] \in Gone(r)'
    BY <1>1, <1>2, <1>3 DEF OldStreamsGone
  <2>. QED  BY <2>1, <2>2 DEF OldStreamsGone
<1>5. OnceAcknowledged(r)'
  <2> SUFFICES ASSUME c # NoStream, SP!Acknowledged(sent'[c]),
                      NEW d \in Streams \ {c}, request'[d] = r
               PROVE  holder'[d] = "dropped"
    BY DEF OnceAcknowledged, SP!Acknowledged
  <2>0. c \in Streams /\ request[d] = r
    BY <1>3
  <2>1. CASE SP!Acknowledged(sent[c])
    BY <1>0, <1>1, <2>0, <2>1, DroppedStays DEF OnceAcknowledged
  <2>2. CASE ~SP!Acknowledged(sent[c])
    <3>1. ~MakesDir
      BY <2>2 DEF MakesDir
    <3>2. /\ request[c] \in Registers
          /\ \A e \in Streams \ {c} : holder[e] = "conns" => request[e] # request[c]
      <4> HIDE DEF c
      <4>. QED  BY <1>0, <2>0, <2>2, <3>1, SP!AcknowledgedAlone, Assumptions DEF SupInv
    <3>3. request[c] = r
      BY <3>2, Assumptions DEF Owners, OwnRequest
    <3>4. holder[d] = "dropped"
      BY <1>1, <2>0, <3>2, <3>3 DEF OldStreamsGone, Gone
    <3>. QED  BY <1>0, <3>4, DroppedStays
  <2>. QED  BY <2>1, <2>2
<1>6. ASSUME r \notin lost', c # NoStream, NEW i \in DOMAIN sent'[c],
             sent'[c][i] = SP!Nack("duplicate")
      PROVE  FALSE
  <2>1. c \in Streams /\ ~(i \in DOMAIN sent[c] /\ sent[c][i] = SP!Nack("duplicate"))
    BY <1>1, <1>6 DEF NotDuplicate
  <2>2. ~MakesDir
    BY <1>6, <2>1 DEF MakesDir
  <2>3. /\ request[c] \in Registers
        /\ \E d \in Streams \ {c} : holder[d] = "conns" /\ request[d] = request[c]
    <3> HIDE DEF c
    <3>. QED  BY <1>0, <1>6, <2>1, <2>2, SP!RefusedForAnother, Assumptions DEF SupInv
  <2>4. request[c] = r
    BY <1>6, <2>3, Assumptions DEF Owners, OwnRequest
  <2>. QED  BY <1>1, <1>6, <2>3, <2>4 DEF OldStreamsGone, Gone
<1>. QED  BY <1>4, <1>5, <1>6 DEF NotDuplicate

(* An Ack tells the server that no earlier stream of its own is registered.*)
LEMMA LeftAfterAck ==
    ASSUME Base, Left, NEW r \in Registers, ~Stopped(r), ReadAck(r)
    PROVE  OldStreamsGone(r)' /\ OnceAcknowledged(r)' /\ NotDuplicate(r)'
<1> USE Types DEF Base
<1> DEFINE c == stream[r]
<1>1. /\ c # NoStream /\ Unread(r) /\ readUpTo[r] = 0 /\ NextFrame(r).type = "Ack"
      /\ UNCHANGED <<stream, sent, holder, request>> /\ pc'[r] = "session"
  BY DEF ReadAck, supervisorVars, Places, PlaceOf, Owners, RunningIsOpen
<1>2. /\ c \in Streams /\ 1 \in DOMAIN sent[c] /\ sent[c][1].type = "Ack"
      /\ sent[c] \in Seq(SP!Message) /\ SP!WellFormed(sent[c])
  BY <1>1, FrameRead DEF NextFrame, SupInv, SP!FramesInv, SP!TypeOK
<1>3. SP!Acknowledged(sent[c])
  BY <1>2 DEF SP!Acknowledged
<1>4. \A d \in Streams \ {c} : request[d] = r => holder[d] = "dropped"
  BY <1>1, <1>3 DEF Left, OnceAcknowledged
<1>5. \A i \in DOMAIN sent[c] : sent[c][i].type # "Nack"
  BY <1>2 DEF SP!WellFormed
<1>6. SP!Nack("duplicate").type = "Nack"
  BY DEF SP!Nack
<1>. QED  BY <1>1, <1>4, <1>5, <1>6 DEF OldStreamsGone, OnceAcknowledged, NotDuplicate, Gone, Away

LEMMA LeftNext ==
    ASSUME Base, Left, [Next]_vars
    PROVE  Left'
<1> SUFFICES ASSUME NEW r \in Registers, ~Stopped(r)'
             PROVE  OldStreamsGone(r)' /\ OnceAcknowledged(r)' /\ (r \notin lost' => NotDuplicate(r)')
  BY DEF Left
<1> USE Types DEF Base
<1>1. ~Stopped(r) /\ OldStreamsGone(r)
  BY StopsKept DEF Left
<1>2. CASE ReadAck(r)
  BY <1>1, <1>2, LeftAfterAck
<1>3. CASE ConnectServer(r)
  <2>1. PICK c \in Streams : SP!Connect(c) /\ stream' = [stream EXCEPT ![r] = c]
    BY <1>3, ServerStepsAre
  <2>2. /\ stream'[r] = c /\ pc[r] = "connecting" /\ pc'[r] = "registering"
        /\ remote[c] = "idle" /\ UNCHANGED <<request, sent, lost>>
        /\ \A d \in Streams \ {c} : holder'[d] = holder[d]
    BY <1>3, <2>1 DEF ConnectServer, SP!Connect, SP!TypeOK
  <2>3. holder[c] = "none" /\ sent[c] = <<>>
    BY <2>2 DEF SupInv, SP!IInv, SP!StreamsOwned, SP!FramesInv, SP!Early
  <2>4. ASSUME NEW d \in Streams \ {c}, request'[d] = r PROVE holder'[d] \in Gone(r)'
    <3>1. holder[d] \in Gone(r)
      BY <1>1, <2>2, <2>4, NoneAssumption DEF OldStreamsGone, Away
    <3>. QED  BY <2>2, <3>1 DEF Gone
  <2>. QED
    BY <2>2, <2>3, <2>4 DEF OldStreamsGone, OnceAcknowledged, SP!Acknowledged, NotDuplicate, Away
<1>4. CASE ReadNack(r) \/ RegisterLost(r) \/ SessionEnds(r) \/ SessionFails(r)
  BY <1>1, <1>4, LeavesGone, LeftKept
<1>5. CASE /\ ServerStep(r) /\ ~ConnectServer(r) /\ ~ReadAck(r)
           /\ ~(ReadNack(r) \/ RegisterLost(r) \/ SessionEnds(r) \/ SessionFails(r))
  <2>1. ~Kill(r) /\ ~FinishShutdown(r)
    BY <1>1, StopRecorded DEF FinishShutdown, Places, PlaceOf
  <2>2. /\ UNCHANGED <<stream, lost>>
        /\ pc'[r] \in Away => pc[r] \in Away
    BY <1>5, <2>1 DEF ServerStep, ServerTask, WriteRegister, MakePeerDir, Bind, ReadJoined,
       ReadLeft, ClearAfterSession, StartServer, BeginShutdown, serverVars, Away
  <2>. QED  BY <1>1, <2>2, LeftKept
<1>6. CASE Still(r)
  BY <1>1, <1>6, LeftKept DEF Still
<1>. QED  BY <1>2, <1>3, <1>4, <1>5, <1>6, WhoMoves

-----------------------------------------------------------------------------
(* What a session has made of the frames that it read                      *)

(* The last of the first n frames of a stream that mention a peer says     *)
(* that it is there; a frame that is still unread says that it has left.   *)
HeardUpTo(c, n, s) ==
    \E i \in 1..n :
        /\ SP!Announces(sent[c][i], s)
        /\ \A j \in 1..n : j > i => ~SP!Withdraws(sent[c][j], s)
Heard(r, s) == HeardUpTo(stream[r], readUpTo[r], s)
Due(r, s) ==
    \E i \in DOMAIN sent[stream[r]] :
        i > readUpTo[r] /\ SP!Withdraws(sent[stream[r]][i], s)
Adding(r, s) == s \in todo[r] \/ s = binding[r]

(* A session listens, or is about to, only for peers that it heard of, and,*)
(* as long as it is registered, for all of them, and with their files in   *)
(* place, but for those it has still to read the departure of.             *)
ListensForHeard(r) ==
    \A s \in Slugs : s \in listening[r] \/ Adding(r, s) => Heard(r, s)
HeardIsListened(r) ==
    \A s \in Slugs :
        /\ Heard(r, s) => s \in listening[r] \/ Adding(r, s) \/ Due(r, s)
        /\ s \in listening[r] => Socket(r, s) \in files \/ Due(r, s)
ViewOf(r) ==
    /\ ListensForHeard(r)
    /\ holder[stream[r]] = "conns" => HeardIsListened(r)
Views == \A r \in Registers : pc[r] = "session" => ViewOf(r)

LEMMA StaysRegistered ==
    ASSUME Base, [Next]_vars, NEW r \in Registers, pc[r] = "session",
           holder'[stream[r]] = "conns"
    PROVE  holder[stream[r]] = "conns"
  BY SessionStream, SupervisorStep, DroppedStays DEF Base

(* Frames that arrive do not change what was heard. *)
LEMMA HeardKept ==
    ASSUME Base, [Next]_vars, NEW r \in Registers, pc[r] = "session",
           stream'[r] = stream[r], readUpTo'[r] = readUpTo[r], NEW s
    PROVE  (Heard(r, s)' <=> Heard(r, s)) /\ (Due(r, s) => Due(r, s)')
<1> DEFINE c == stream[r]
<1>1. /\ c \in Streams /\ sent[c] \in Seq(SP!Message) /\ readUpTo[r] \in 1..Len(sent[c])
  BY SessionStream
<1>2. \A i \in DOMAIN sent[c] : i \in DOMAIN sent'[c] /\ sent'[c][i] = sent[c][i]
  BY <1>1, SupervisorStep, SentGrows DEF Base
<1>3. \A i \in 1..readUpTo[r] : sent'[c][i] = sent[c][i]
  BY <1>1, <1>2
<1>4. Heard(r, s)' <=> Heard(r, s)
  BY <1>3 DEF Heard, HeardUpTo
<1>5. Due(r, s) => Due(r, s)'
  BY <1>2 DEF Due
<1>. QED  BY <1>4, <1>5

(* A peer that was heard of, and whose departure is not on its way, is one *)
(* that the frames announce; and all of them once everything is read.      *)
LEMMA HeardIsBelieved ==
    ASSUME Base, NEW r \in Registers, pc[r] = "session", NEW s
    PROVE  /\ Heard(r, s) /\ ~Due(r, s) => SP!Believes(stream[r], s)
           /\ ~Unread(r) => (Heard(r, s) <=> SP!Believes(stream[r], s)) /\ ~Due(r, s)
<1> DEFINE c == stream[r]
<1>1. sent[c] \in Seq(SP!Message) /\ readUpTo[r] \in 1..Len(sent[c])
  BY SessionStream
<1>2. ASSUME Heard(r, s), ~Due(r, s) PROVE SP!Believes(c, s)
  BY <1>1, <1>2 DEF Heard, HeardUpTo, Due, SP!Believes
<1>3. ASSUME ~Unread(r) PROVE (Heard(r, s) <=> SP!Believes(c, s)) /\ ~Due(r, s)
  <2>1. readUpTo[r] = Len(sent[c])
    BY <1>1, <1>3 DEF Unread
  <2>. QED  BY <1>1, <2>1 DEF Heard, HeardUpTo, Due, SP!Believes
<1>. QED  BY <1>2, <1>3

(* A registered session's peer has a directory until its departure is on   *)
(* its way.                                                                *)
LEMMA HeardHasDir ==
    ASSUME Base, NEW r \in Registers, pc[r] = "session", holder[stream[r]] = "conns",
           NEW s \in Slugs, Heard(r, s), ~Due(r, s)
    PROVE  s \in dirs
<1>1. SP!Believes(stream[r], s)
  BY HeardIsBelieved
<1>2. PICK id \in DOMAIN conns : conns[id].stream = stream[r]
  BY SessionStream DEF Base, SupInv, SP!RecordsInv, SP!HeldIsRecorded
<1>3. SP!Present(conns[id].group, s)
  BY <1>1, <1>2, SessionStream DEF Base, SupInv, SP!ViewsExact
<1>4. conns[id].group \in Groups
  BY Types DEF Base, SP!TypeOK, SP!ConnRecord
<1>5. \E k \in DOMAIN conns : conns[k].slug = s
  BY <1>3, <1>4 DEF Base, SupInv, SP!IInv, SP!TablesAgree
<1>. QED  BY <1>5 DEF Base, SupInv, SP!DirOfLiveServer

(* A file goes only with its directory, or when the removal of that fails, *)
(* unless its server takes it away.                                        *)
LEMMA FileLost ==
    ASSUME TypeOK, [Next]_vars, NEW r \in Registers, ~ServerStep(r),
           NEW s, Socket(r, s) \in files, Socket(r, s) \notin files'
    PROVE  Supervised /\ s \in dirs /\ (s \notin dirs' \/ HalfRemoved(s))
<1>1. ASSUME NEW q \in Registers \ {r}, ServerStep(q) PROVE FALSE
  <2>1. \A t : Socket(r, s) # Socket(q, t)
    BY SocketsDiffer
  <2>. QED  BY <1>1, <2>1, FilesAfter DEF RemoveListeners
<1>2. Supervised
  BY <1>1, StepsAre DEF vars, serverVars
<1>3. \A f \in files \ files' : f[1] \notin dirs' \/ HalfRemoved(f[1])
  BY <1>2, SupervisedIs
<1>4. s \in dirs
  BY SocketsDiffer DEF TypeOK
<1>. QED  BY <1>2, <1>3, <1>4 DEF Socket

(* When the supervisor removes a peer's directory under a session's        *)
(* listener, or fails to, the departure is on the session's stream.        *)
LEMMA RemovalIsDue ==
    ASSUME Base, [Next]_vars, Supervised, NEW r \in Registers, pc[r] = "session",
           holder[stream[r]] = "conns", holder'[stream[r]] = "conns",
           NEW s \in Slugs, Heard(r, s), ~Due(r, s),
           s \in dirs, s \notin dirs' \/ HalfRemoved(s)
    PROVE  Due(r, s)'
<1> DEFINE c == stream[r]
<1>1. c \in Streams /\ remote[c] = "open" /\ sent[c] \in Seq(SP!Message) /\ readUpTo[r] \in 1..Len(sent[c])
  BY SessionStream
<1>2. SP!Believes(c, s) /\ [SP!Next]_(SP!vars)
  BY HeardIsBelieved, SupervisedIs
<1>3. sent'[c] = Append(sent[c], SP!PeerLeft(s))
  <2> HIDE DEF c
  <2>1. c = stream[r]
    BY DEF c
  <2>2. (s \in dirs /\ s \notin dirs') \/ (s \in undeleted' /\ s \notin undeleted)
    BY DEF HalfRemoved
  <2>. QED  BY <1>1, <1>2, <2>1, <2>2, SP!RemovalTold, Assumptions DEF Base, SupInv
<1>4. SP!PeerLeft(s) \in SP!Message /\ SP!Withdraws(SP!PeerLeft(s), s)
  BY DEF SP!PeerLeft, SP!Message, SP!Withdraws
<1>5. Len(sent[c]) + 1 \in DOMAIN sent'[c] /\ sent'[c][Len(sent[c]) + 1] = SP!PeerLeft(s)
  BY <1>1, <1>3, <1>4
<1>6. readUpTo'[r] = readUpTo[r] /\ stream'[r] = c
  BY SupervisedIs
<1>. QED  BY <1>1, <1>4, <1>5, <1>6 DEF Due

LEMMA ViewWhileStill ==
    ASSUME Base, [Next]_vars, NEW r \in Registers, pc[r] = "session", ViewOf(r),
           Still(r), ~ServerStep(r)
    PROVE  ViewOf(r)'
<1>1. \A s : (Heard(r, s)' <=> Heard(r, s)) /\ (Due(r, s) => Due(r, s)')
  BY HeardKept DEF Still
<1>2. \A s : Adding(r, s)' <=> Adding(r, s)
  BY DEF Still, Adding
<1>3. ListensForHeard(r)'
  BY <1>1, <1>2 DEF Still, ViewOf, ListensForHeard
<1>4. ASSUME holder'[stream'[r]] = "conns" PROVE HeardIsListened(r)'
  <2>1. holder'[stream[r]] = "conns" /\ holder[stream[r]] = "conns"
    BY <1>4, StaysRegistered DEF Still
  <2>2. ASSUME NEW s \in Slugs, s \in listening'[r], Socket(r, s) \notin files'
        PROVE  Due(r, s)'
    <3>1. s \in listening[r] /\ Heard(r, s)
      BY <2>2 DEF Still, ViewOf, ListensForHeard
    <3>2. CASE Due(r, s)
      BY <1>1, <3>2
    <3>3. CASE ~Due(r, s)
      <4>1. Socket(r, s) \in files
        BY <2>1, <3>1, <3>3 DEF ViewOf, HeardIsListened
      <4>2. Supervised /\ s \in dirs /\ (s \notin dirs' \/ HalfRemoved(s))
        BY <2>2, <4>1, FileLost DEF Base
      <4>. QED  BY <2>1, <3>1, <3>3, <4>2, RemovalIsDue
    <3>. QED  BY <3>2, <3>3
  <2>3. ASSUME NEW s \in Slugs, Heard(r, s)'
        PROVE  s \in listening'[r] \/ Adding(r, s)' \/ Due(r, s)'
    BY <1>1, <1>2, <2>1, <2>3 DEF Still, ViewOf, HeardIsListened
  <2>. QED  BY <2>2, <2>3 DEF HeardIsListened, Socket
<1>. QED  BY <1>3, <1>4 DEF ViewOf

(* Listeners are made in two steps; a bind fails only where the departure  *)
(* is on its way.                                                          *)
LEMMA ViewWhileAdding ==
    ASSUME Base, [Next]_vars, NEW r \in Registers, pc[r] = "session", ViewOf(r),
           (\E p \in Slugs : MakePeerDir(r, p)) \/ Bind(r)
    PROVE  ViewOf(r)'
<1> USE Types DEF Base
<1>1. /\ pc'[r] = pc[r] /\ stream'[r] = stream[r] /\ readUpTo'[r] = readUpTo[r]
      /\ holder' = holder
  BY DEF MakePeerDir, Bind, supervisorVars
<1>2. \A s : (Heard(r, s)' <=> Heard(r, s)) /\ (Due(r, s) => Due(r, s)')
  BY <1>1, HeardKept
<1>3. ASSUME NEW p \in Slugs, MakePeerDir(r, p) PROVE ViewOf(r)'
  <2>1. /\ files' = files /\ listening' = listening
        /\ \A s \in Slugs : Adding(r, s)' <=> Adding(r, s)
    BY <1>3, NoneAssumption DEF MakePeerDir, Adding
  <2>. QED  BY <1>1, <1>2, <2>1 DEF ViewOf, ListensForHeard, HeardIsListened, Socket
<1>4. CASE Bind(r)
  <2> DEFINE p == binding[r]
  <2>1. p \in Slugs /\ Adding(r, p) /\ Heard(r, p)
    BY <1>4, NoneAssumption DEF Bind, Adding, ViewOf, ListensForHeard
  <2>2. \A s \in Slugs : Adding(r, s) <=> Adding(r, s)' \/ s = p
    BY <1>4, NoneAssumption DEF Bind, Adding
  <2>3. CASE p \in dirs
    <3>1. files' = files \cup {Socket(r, p)} /\ listening'[r] = listening[r] \cup {p}
      BY <1>4, <2>3 DEF Bind
    <3>. QED
      BY <1>1, <1>2, <2>1, <2>2, <3>1 DEF ViewOf, ListensForHeard, HeardIsListened, Socket
  <2>4. CASE p \notin dirs
    <3>1. files' = files /\ listening'[r] = listening[r] \ {p}
      BY <1>4, <2>4 DEF Bind
    <3>2. holder[stream[r]] = "conns" => Due(r, p)
      BY <2>1, <2>4, HeardHasDir
    <3>. QED
      BY <1>1, <1>2, <2>1, <2>2, <3>1, <3>2 DEF ViewOf, ListensForHeard, HeardIsListened, Socket
  <2>. QED  BY <2>3, <2>4
<1>. QED  BY <1>3, <1>4

(* Reading one more frame hears of a peer, or no longer.                   *)
LEMMA HeardNext ==
    ASSUME Base, NEW r \in Registers, pc[r] = "session", Unread(r),
           stream'[r] = stream[r], readUpTo'[r] = readUpTo[r] + 1, sent' = sent, NEW s
    PROVE  /\ Heard(r, s)' <=> \/ SP!Announces(NextFrame(r), s)
                               \/ Heard(r, s) /\ ~SP!Withdraws(NextFrame(r), s)
           /\ Due(r, s) => Due(r, s)' \/ SP!Withdraws(NextFrame(r), s)
<1> DEFINE q == sent[stream[r]]
           n == readUpTo[r]
<1>1. q \in Seq(SP!Message) /\ n \in 1..Len(q) /\ n < Len(q)
  BY SessionStream DEF Unread
<1>2. NextFrame(r) = q[n + 1]
  BY DEF NextFrame
<1>3. Heard(r, s)' <=> \E i \in 1..(n + 1) : /\ SP!Announces(q[i], s)
                                             /\ \A j \in 1..(n + 1) : j > i => ~SP!Withdraws(q[j], s)
  BY DEF Heard, HeardUpTo
<1>4. Heard(r, s) <=> \E i \in 1..n : /\ SP!Announces(q[i], s)
                                      /\ \A j \in 1..n : j > i => ~SP!Withdraws(q[j], s)
  BY DEF Heard, HeardUpTo
<1>5. Due(r, s) => Due(r, s)' \/ SP!Withdraws(NextFrame(r), s)
  BY <1>1, <1>2 DEF Due
<1> HIDE DEF q, n
<1>6. 1..(n + 1) = 1..n \cup {n + 1} /\ \A j \in 1..n : j < n + 1
  BY <1>1
<1>7. Heard(r, s)' <=> \/ SP!Announces(NextFrame(r), s)
                       \/ Heard(r, s) /\ ~SP!Withdraws(NextFrame(r), s)
  BY <1>1, <1>2, <1>3, <1>4, <1>6
<1>. QED  BY <1>5, <1>7

LEMMA ViewAfterFrame ==
    ASSUME Base, [Next]_vars, NEW r \in Registers, pc[r] = "session", ViewOf(r),
           ReadJoined(r) \/ ReadLeft(r)
    PROVE  ViewOf(r)'
<1> USE Types DEF Base
<1>0. /\ Unread(r) /\ Idle(r) /\ stream'[r] = stream[r] /\ UNCHANGED <<sent, holder, binding>>
      /\ readUpTo'[r] = readUpTo[r] + 1
  BY DEF ReadJoined, ReadLeft, supervisorVars
<1>1. \A s : /\ Heard(r, s)' <=> \/ SP!Announces(NextFrame(r), s)
                                 \/ Heard(r, s) /\ ~SP!Withdraws(NextFrame(r), s)
             /\ Due(r, s) => Due(r, s)' \/ SP!Withdraws(NextFrame(r), s)
  BY <1>0, HeardNext
<1>2. \A s \in Slugs : ~Adding(r, s)
  BY <1>0, NoneAssumption DEF Idle, Adding
<1> DEFINE p == NextFrame(r).slug
<1>3. CASE ReadJoined(r)
  <2>1. \A s : ~SP!Withdraws(NextFrame(r), s) /\ (SP!Announces(NextFrame(r), s) <=> s = p)
    BY <1>3 DEF ReadJoined, SP!Withdraws, SP!Announces
  <2>2. /\ files' = files /\ listening' = listening
        /\ \A s \in Slugs : Adding(r, s)' <=> s = p
    BY <1>0, <1>3, NoneAssumption DEF ReadJoined, Idle, Adding
  <2>. QED
    BY <1>0, <1>1, <1>2, <2>1, <2>2 DEF ViewOf, ListensForHeard, HeardIsListened, Socket
<1>4. CASE ReadLeft(r)
  <2>1. \A s : ~SP!Announces(NextFrame(r), s) /\ (SP!Withdraws(NextFrame(r), s) <=> s = p)
    BY <1>4 DEF ReadLeft, SP!Withdraws, SP!Announces
  <2>2. /\ listening'[r] = listening[r] \ {p}
        /\ files' = files \ {Socket(r, s) : s \in {p} \cap listening[r]}
        /\ \A s \in Slugs : ~Adding(r, s)'
    BY <1>0, <1>4, NoneAssumption DEF ReadLeft, RemoveListeners, Idle, Adding
  <2>3. \A s \in Slugs \ {p} : Socket(r, s) \in files => Socket(r, s) \in files'
    BY <2>2, SocketsDiffer
  <2>. QED
    BY <1>0, <1>1, <1>2, <2>1, <2>2, <2>3 DEF ViewOf, ListensForHeard, HeardIsListened, Socket
<1>. QED  BY <1>3, <1>4

(* A session begins with the peers of its Ack to add. *)
LEMMA ViewAfterAck ==
    ASSUME Base, NEW r \in Registers, ReadAck(r)
    PROVE  ViewOf(r)'
<1> USE Types DEF Base
<1>1. /\ readUpTo[r] = 0 /\ readUpTo'[r] = 1 /\ stream'[r] = stream[r] /\ sent' = sent
      /\ listening'[r] = {} /\ todo'[r] = NextFrame(r).peers /\ binding'[r] = NoSlug
  BY DEF ReadAck, Places, PlaceOf, Idle, supervisorVars
<1>2. NextFrame(r) = sent[stream[r]][1] /\ NextFrame(r).type = "Ack"
  BY <1>1 DEF NextFrame, ReadAck
<1>3. \A s : Heard(r, s)' <=> s \in NextFrame(r).peers
  BY <1>1, <1>2 DEF Heard, HeardUpTo, SP!Announces
<1>4. \A s \in Slugs : Adding(r, s)' <=> s \in NextFrame(r).peers
  BY <1>1, NoneAssumption DEF Adding
<1>. QED  BY <1>1, <1>3, <1>4 DEF ViewOf, ListensForHeard, HeardIsListened

LEMMA ViewsNext == Base /\ Views /\ [Next]_vars => Views'
<1> SUFFICES ASSUME Base, Views, [Next]_vars, NEW r \in Registers, pc'[r] = "session"
             PROVE  ViewOf(r)'
  BY DEF Views
<1> USE Types DEF Base
<1>1. CASE ~ServerStep(r)
  <2>1. Still(r) /\ pc[r] = "session"
    BY <1>1, WhoMoves DEF Still
  <2>. QED  BY <1>1, <2>1, ViewWhileStill DEF Views
<1>2. CASE ReadAck(r)
  BY <1>2, ViewAfterAck
<1>3. CASE (\E p \in Slugs : MakePeerDir(r, p)) \/ Bind(r)
  <2>1. pc[r] = "session"
    BY <1>3 DEF MakePeerDir, Bind
  <2>. QED  BY <1>3, <2>1, ViewWhileAdding DEF Views
<1>4. CASE ReadJoined(r) \/ ReadLeft(r)
  <2>1. pc[r] = "session"
    BY <1>4 DEF ReadJoined, ReadLeft
  <2>. QED  BY <1>4, <2>1, ViewAfterFrame DEF Views
<1>5. CASE \/ ConnectServer(r) \/ WriteRegister(r) \/ ReadNack(r) \/ RegisterLost(r)
           \/ SessionEnds(r) \/ SessionFails(r) \/ ClearAfterSession(r) \/ FinishShutdown(r)
           \/ StartServer(r) \/ BeginShutdown(r) \/ Kill(r)
  BY <1>5 DEF ConnectServer, WriteRegister, ReadNack, RegisterLost, SessionEnds, SessionFails,
     ClearAfterSession, FinishShutdown, StartServer, BeginShutdown, Kill, serverVars
<1>. QED  BY <1>1, <1>2, <1>3, <1>4, <1>5 DEF ServerStep, ServerTask

-----------------------------------------------------------------------------
(* The theorems                                                            *)

Inv == Base /\ Left /\ Views /\ StaleSocketsOfKilledOnly

LEMMA InitIsInv == Init => Inv
<1> SUFFICES ASSUME Init PROVE Inv
  OBVIOUS
<1>1. TypeOK /\ SupInv
  BY TypesInit, SupInvInit
<1>2. Owners /\ Places
  BY NoneAssumption DEF Init, Sup!Init, Owners, OwnStream, OwnRequest, RunningIsOpen, OpenIsHeld,
     Places, PlaceOf, Idle
<1>3. Left
  BY RegistersAssumption DEF Init, Sup!Init, Left, OldStreamsGone, OnceAcknowledged, NotDuplicate
<1>4. Views /\ StaleSocketsOfKilledOnly
  BY DEF Init, Views, StaleSocketsOfKilledOnly
<1>. QED  BY <1>1, <1>2, <1>3, <1>4 DEF Inv, Base

LEMMA InvNext == Inv /\ [Next]_vars => Inv'
<1> SUFFICES ASSUME Inv, [Next]_vars PROVE Inv'
  OBVIOUS
<1> USE DEF Inv
<1>1. TypeOK'
  BY TypesNext DEF Base
<1>2. SupInv'
  BY SupervisorStep, SupInvNext DEF Base
<1>3. Owners'
  BY OwnersNext DEF Base, SupInv
<1>4. Places'
  BY PlacesNext DEF Base
<1>5. Left'
  BY LeftNext DEF Base
<1>6. Views'
  BY ViewsNext
<1>7. StaleSocketsOfKilledOnly'
  BY StaleNext DEF Base
<1>. QED  BY <1>1, <1>2, <1>3, <1>4, <1>5, <1>6, <1>7 DEF Base

THEOREM Invariance == Spec => []Inv
  BY InitIsInv, InvNext, PTL DEF Spec

(* Every variable of the servers and of the supervisor keeps its type, and *)
(* no server has read more than was written.                               *)
THEOREM TypeCorrect == Spec => []TypeOK
<1>1. Inv => TypeOK
  BY DEF Inv, Base
<1>. QED  BY <1>1, Invariance, PTL

(* A file that no listener serves was left by a server that was killed,    *)
(* however directories are removed, lost and made again under the servers. *)
THEOREM StaleSocketsAlwaysOfKilled == Spec => []StaleSocketsOfKilledOnly
<1>1. Inv => StaleSocketsOfKilledOnly
  BY DEF Inv
<1>. QED  BY <1>1, Invariance, PTL

(* A server that nobody stopped is never refused for its own earlier       *)
(* registration, unless its session failed and no Ack came since.          *)
THEOREM ReconnectionNeverRefused == Spec => ReconnectionNotRefused
<1>1. ASSUME Inv, [Next]_vars, NEW r \in Registers,
             r \notin lost, pc[r] = "registering", pc'[r] = "down", ~Stopped(r)'
      PROVE  NextFrame(r) = Sup!Nack("mkdir")
  <2>1. ServerStep(r)
    BY <1>1, WhoMoves DEF Inv, Base, Still
  <2>2. ReadNack(r)
    BY <1>1, <2>1, StopRecorded, Types DEF Inv, Base, ServerStep, ServerTask, ConnectServer,
       WriteRegister, ReadAck, RegisterLost, MakePeerDir, Bind, ReadJoined, ReadLeft,
       SessionEnds, SessionFails, ClearAfterSession, FinishShutdown, StartServer, BeginShutdown, serverVars
  <2>3. /\ stream[r] # NoStream /\ stream[r] \in Streams
        /\ NextFrame(r) \in SP!Message /\ NextFrame(r).type = "Nack"
        /\ readUpTo[r] + 1 \in DOMAIN sent[stream[r]]
    BY <1>1, <2>2, FrameRead DEF Inv, Base, ReadNack, Owners, RunningIsOpen
  <2>4. NotDuplicate(r)
    BY <1>1, StopsKept DEF Inv, Base, Left
  <2>5. NextFrame(r) # SP!Nack("duplicate")
    BY <2>3, <2>4 DEF NotDuplicate, NextFrame
  <2>. QED  BY <2>3, <2>5 DEF SP!Message, SP!Nack, Sup!Nack
<1>2. Inv /\ [Next]_vars =>
        [\A r \in Registers \ lost :
           pc[r] = "registering" /\ pc'[r] = "down" /\ ~Stopped(r)' =>
             NextFrame(r) = Sup!Nack("mkdir")]_vars
  BY <1>1
<1>. QED  BY <1>2, Invariance, PTL DEF Spec, ReconnectionNotRefused

-----------------------------------------------------------------------------
(* Settled states                                                          *)

(* Where nothing is on its way each session has a record of its own and    *)
(* has read all its frames.                                                *)
LEMMA SettledSession ==
    ASSUME Inv, Settled, NEW r \in Registers, InSession(r)
    PROVE  /\ holder[stream[r]] = "conns" /\ ~Unread(r) /\ Idle(r)
           /\ \E id \in DOMAIN conns :
                conns[id].stream = stream[r] /\ conns[id].slug = r[1] /\ conns[id].group = r[2]
<1>1. ~Unread(r) /\ ~AtEof(r) /\ Idle(r)
  BY DEF Settled, InSession
<1>2. holder[stream[r]] = "conns" /\ stream[r] \in Streams /\ stream[r] # NoStream
  BY <1>1, SessionStream, NoneAssumption DEF InSession, AtEof, Inv
<1>3. PICK id \in DOMAIN conns : conns[id].stream = stream[r]
  BY <1>2 DEF Inv, Base, SupInv, SP!RecordsInv, SP!HeldIsRecorded
<1>4. /\ request[stream[r]] \in Registers
      /\ request[stream[r]] = <<conns[id].slug, conns[id].group>>
  BY <1>3 DEF Inv, Base, SupInv, SP!RecordsInv, SP!RecordsMatch
<1>5. request[stream[r]] = r
  BY <1>2, <1>4, Assumptions DEF Inv, Base, Owners, OwnRequest
<1>. QED  BY <1>1, <1>2, <1>3, <1>4, <1>5

(* And each record is that of a session.                                   *)
LEMMA SettledRecord ==
    ASSUME Inv, Settled, NEW id \in DOMAIN conns
    PROVE  <<conns[id].slug, conns[id].group>> \in {r \in Registers : InSession(r)}
<1>1. id \in watching
  BY DEF Settled, Inv, Base, SupInv, SP!RecordsInv, SP!LossQueued
<1>2. remote[conns[id].stream] = "open" /\ conns[id].stream \in Streams
  BY <1>1, Types DEF Settled, Inv, Base, SP!TypeOK, SP!ConnRecord
<1>3. PICK r \in Registers : stream[r] = conns[id].stream /\ pc[r] \in {"registering", "session", "exiting"}
  BY <1>2 DEF Inv, Base, Owners, OpenIsHeld
<1>4. pc[r] = "session"
  BY <1>3 DEF Settled
<1>5. /\ request[conns[id].stream] \in Registers
      /\ request[conns[id].stream] = <<conns[id].slug, conns[id].group>>
  BY DEF Inv, Base, SupInv, SP!RecordsInv, SP!RecordsMatch
<1>6. request[stream[r]] = r
  BY <1>2, <1>3, <1>5, NoneAssumption, Assumptions DEF Inv, Base, Owners, OwnRequest
<1>. QED  BY <1>3, <1>4, <1>5, <1>6 DEF InSession

Peers(r) ==
    {SlugOf(q) : q \in {k \in Registers \ {r} : InSession(k) /\ GroupOf(k) = GroupOf(r)}}

LEMMA SettledListeners ==
    ASSUME Inv, Settled, NEW r \in Registers, InSession(r)
    PROVE  /\ listening[r] = Peers(r)
           /\ \A p \in listening[r] : Socket(r, p) \in files
<1> USE DEF InSession
<1>0. pc[r] = "session" /\ Base /\ ViewOf(r) /\ listening[r] \subseteq Slugs
  BY Types DEF Inv, Views, Base
<1>1. holder[stream[r]] = "conns" /\ ~Unread(r) /\ Idle(r)
  BY SettledSession
<1>2. PICK id \in DOMAIN conns :
        conns[id].stream = stream[r] /\ conns[id].slug = r[1] /\ conns[id].group = r[2]
  BY SettledSession
<1>3. \A s \in Slugs : ~Adding(r, s)
  BY <1>1, NoneAssumption DEF Idle, Adding
<1>4. \A s \in Slugs : s \in listening[r] <=> Heard(r, s)
  BY <1>0, <1>1, <1>3, HeardIsBelieved DEF ViewOf, ListensForHeard, HeardIsListened
<1>5. \A s \in Slugs : Heard(r, s) <=> SP!Present(r[2], s) /\ s # r[1]
  <2>1. \A s \in Slugs : Heard(r, s) <=> SP!Believes(stream[r], s)
    BY <1>0, <1>1, HeardIsBelieved
  <2>2. \A s \in Slugs : SP!Believes(stream[r], s) <=> SP!Present(r[2], s) /\ s # r[1]
    BY <1>0, <1>2, SessionStream DEF Base, SupInv, SP!ViewsExact
  <2>. QED  BY <2>1, <2>2
<1>6. r \in Slugs \X Groups
  BY Assumptions
<1>7. ASSUME NEW s \in Slugs, SP!Present(r[2], s), s # r[1] PROVE s \in Peers(r)
  <2>1. PICK k \in DOMAIN conns : conns[k].slug = s /\ conns[k].group = r[2]
    BY <1>0, <1>6, <1>7 DEF Base, SupInv, SP!IInv, SP!TablesAgree
  <2>2. <<s, r[2]>> \in Registers /\ InSession(<<s, r[2]>>) /\ <<s, r[2]>> # r
    BY <1>7, <2>1, SettledRecord
  <2>. QED  BY <2>2 DEF Peers, SlugOf, GroupOf
<1>8. ASSUME NEW q \in Registers \ {r}, InSession(q), GroupOf(q) = GroupOf(r)
      PROVE  q[1] \in Slugs /\ SP!Present(r[2], q[1]) /\ q[1] # r[1]
  <2>1. PICK k \in DOMAIN conns : conns[k].slug = q[1] /\ conns[k].group = q[2]
    BY <1>8, SettledSession
  <2>2. groups[q[2]][q[1]] = k /\ k # SP!NoId
    BY <1>0, <2>1, Types DEF Base, SupInv, SP!IInv, SP!TablesAgree, SP!TypeOK, SP!NoId
  <2>. QED  BY <1>8, <2>2, OneGroupPerSlug, Assumptions DEF SP!Present, GroupOf
<1>9. listening[r] = Peers(r)
  BY <1>0, <1>4, <1>5, <1>7, <1>8 DEF Peers, SlugOf
<1>10. \A p \in listening[r] : Socket(r, p) \in files
  BY <1>0, <1>1, HeardIsBelieved DEF ViewOf, HeardIsListened
<1>. QED  BY <1>9, <1>10

(* Wherever everything has settled, a server listens for exactly the other *)
(* servers of its group that run, clients find each of them, and beside    *)
(* them only sockets of killed servers.                                    *)
THEOREM ListenersAlwaysMatchGroup == Spec => []ListenersMatchGroup
<1>1. ASSUME Inv, Settled, NEW r \in Registers, InSession(r)
      PROVE  /\ listening[r] = Peers(r)
             /\ ~NotRegistered(SlugOf(r))
             /\ Peers(r) \subseteq list_peers(SlugOf(r))
             /\ list_peers(SlugOf(r)) \subseteq
                  Peers(r) \cup {SlugOf(q) : q \in {k \in Registers : Killed(k)}}
  <2>1. listening[r] = Peers(r)
    BY <1>1, SettledListeners
  <2>2. ~NotRegistered(SlugOf(r))
    BY <1>1, SettledSession DEF Inv, Base, SupInv, SP!DirOfLiveServer, NotRegistered, SlugOf
  <2>3. ASSUME NEW q \in Registers \ {r}, InSession(q), GroupOf(q) = GroupOf(r)
        PROVE  SlugOf(q) \in list_peers(SlugOf(r))
    <3>1. SlugOf(r) \in listening[q]
      BY <1>1, <2>3, SettledListeners DEF Peers
    <3>2. Socket(q, SlugOf(r)) \in files
      BY <1>1, <2>3, <3>1, SettledListeners
    <3>. QED  BY <3>2 DEF list_peers, Socket
  <2>4. ASSUME NEW f \in files, f[1] = SlugOf(r), NEW q \in Registers, NEW p, f = Socket(q, p), ~Killed(q)
        PROVE  SlugOf(q) \in Peers(r)
    <3>1. p = SlugOf(r) /\ p \in Slugs
      BY <2>4, Assumptions DEF Socket, SlugOf
    <3>2. p \in listening[q]
      BY <1>1, <2>4, <3>1 DEF Inv, StaleSocketsOfKilledOnly
    <3>3. InSession(q)
      BY <1>1, <3>2 DEF Settled, InSession, Inv, Base, Places, PlaceOf
    <3>4. p \in Peers(q)
      BY <1>1, <3>2, <3>3, SettledListeners
    <3>5. r # q /\ GroupOf(r) = GroupOf(q)
      BY <3>1, <3>4, OneGroupPerSlug DEF Peers, SlugOf
    <3>. QED  BY <3>3, <3>5 DEF Peers
  <2>5. ASSUME NEW n \in list_peers(SlugOf(r))
        PROVE  n \in Peers(r) \cup {SlugOf(q) : q \in {k \in Registers : Killed(k)}}
    <3>1. PICK f \in files : f[1] = SlugOf(r) /\ n = f[2]
      BY <2>5 DEF list_peers
    <3>2. PICK q \in Registers, p \in dirs : f = Socket(q, p)
      BY <1>1, <3>1 DEF Inv, Base, TypeOK
    <3>3. n = SlugOf(q)
      BY <3>1, <3>2 DEF Socket
    <3>. QED  BY <2>4, <3>1, <3>2, <3>3
  <2>6. Peers(r) \subseteq list_peers(SlugOf(r))
    BY <2>3 DEF Peers
  <2>. QED  BY <2>1, <2>2, <2>5, <2>6
<1>2. Inv => ListenersMatchGroup
  BY <1>1 DEF ListenersMatchGroup, Peers
<1>. QED  BY <1>2, Invariance, PTL

=============================================================================
