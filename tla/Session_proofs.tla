--------------------------- MODULE Session_proofs ---------------------------
(***************************************************************************)
(* Session, for any notifications, clients, deaths and buffer: the server  *)
(* never acts on bytes that it misread.                                    *)
(***************************************************************************)
EXTENDS Session, SequenceTheorems, TLAPS

ClientStates == {"away", "backlog", "connected", "sent", "closed", "dropped"}
Received == {Notifications[i] : i \in DOMAIN Notifications}

(* Of every two pieces that are consumed one notification was delivered;   *)
(* a session in which a payload was taken for a length is lost.            *)
InStep == session # "lost" => Len(delivered) = consumed \div 2
Faithful ==
    /\ Len(delivered) <= consumed \div 2
    /\ \A i \in DOMAIN delivered : delivered[i] = Notifications[i]

IInv == TypeOK /\ InStep /\ Faithful

-----------------------------------------------------------------------------
(* Numbers *)

(* A length is accepted, and four bytes of a payload never are: this is    *)
(* what the prefix property hangs on (framing.rs:13, 26-34).               *)
LEMMA LengthsApart ==
    ASSUME NEW n \in Notification
    PROVE  /\ PayloadLength(n) \in Nat /\ PayloadLength(n) <= MaxFrameSize
           /\ BigEndian(FirstFourBytes(n)) \in Nat
           /\ BigEndian(FirstFourBytes(n)) > MaxFrameSize
<1>1. n.variant \in {0, 1} /\ n.slugLen \in 1..127 /\ n.firstByte \in 0..255
  BY DEF Notification
<1>2. BigEndian(FirstFourBytes(n))
        = ((1 * 256 + n.variant) * 256 + n.slugLen) * 256 + n.firstByte
  BY DEF BigEndian, FirstFourBytes
<1>3. MaxFrameSize = 256 * 256 * 256
  BY SMT DEF MaxFrameSize
<1>4. PayloadLength(n) \in Nat /\ PayloadLength(n) <= MaxFrameSize
  <2>1. PayloadLength(n) \in 4..130
    BY <1>1, SMT DEF PayloadLength
  <2>2. 130 <= 256 * 256 * 256
    BY SMT
  <2>. QED  BY <1>3, <2>1, <2>2, SMT
<1>5. PICK v \in {0, 1}, l \in 1..127, f \in 0..255 :
        v = n.variant /\ l = n.slugLen /\ f = n.firstByte
  BY <1>1
<1>6. /\ ((1 * 256 + v) * 256 + l) * 256 + f \in Nat
      /\ ((1 * 256 + v) * 256 + l) * 256 + f > 256 * 256 * 256
  <2>1. v \in {0, 1} /\ l \in 1..127 /\ f \in 0..255
    OBVIOUS
  <2>. QED  BY ONLY <2>1, SMT
<1>. QED  BY <1>2, <1>3, <1>4, <1>5, <1>6, SMT

LEMMA PieceFacts ==
    ASSUME NEW p \in 1..Pieces
    PROVE  /\ (p + 1) \div 2 \in DOMAIN Notifications
           /\ NotificationOf(p) \in Notification
           /\ AsLength(p) \in Nat
           /\ AsLength(p) <= MaxFrameSize <=> IsLength(p)
           /\ IsLength(p) => p \div 2 = (p - 1) \div 2
           /\ ~IsLength(p) => (p + 1) \div 2 = p \div 2 /\ p \div 2 = ((p - 1) \div 2) + 1
<1>1. Len(Notifications) \in Nat /\ DOMAIN Notifications = 1..Len(Notifications)
  BY NotificationsAssumption, LenProperties
<1>2. (p + 1) \div 2 \in 1..Len(Notifications)
  BY <1>1 DEF Pieces
<1>3. NotificationOf(p) \in Notification
  <2>1. \A i \in 1..Len(Notifications) :
          Notifications[i] \in Notification
    BY NotificationsAssumption, ElementOfSeq
  <2>. QED  BY <1>2, <2>1 DEF NotificationOf
<1>4. /\ PayloadLength(NotificationOf(p)) \in Nat
      /\ PayloadLength(NotificationOf(p)) <= MaxFrameSize
      /\ BigEndian(FirstFourBytes(NotificationOf(p))) \in Nat
      /\ BigEndian(FirstFourBytes(NotificationOf(p))) > MaxFrameSize
  BY <1>3, LengthsApart
<1>5. AsLength(p) \in Nat /\ (AsLength(p) <= MaxFrameSize <=> IsLength(p))
  <2>1. MaxFrameSize \in Nat
    BY SMT DEF MaxFrameSize
  <2>2. CASE IsLength(p)
    BY <1>4, <2>2 DEF AsLength
  <2>3. CASE ~IsLength(p)
    <3>1. AsLength(p) = BigEndian(FirstFourBytes(NotificationOf(p)))
      BY <2>3 DEF AsLength
    <3> HIDE DEF MaxFrameSize
    <3>. QED  BY <1>4, <2>1, <2>3, <3>1
  <2>. QED  BY <2>2, <2>3
<1>6. p \in Nat /\ p >= 1
  BY <1>1 DEF Pieces
<1>7. IsLength(p) => p \div 2 = (p - 1) \div 2
  BY <1>6 DEF IsLength
<1>8. ~IsLength(p) => (p + 1) \div 2 = p \div 2 /\ p \div 2 = ((p - 1) \div 2) + 1
  BY <1>6 DEF IsLength
<1>. QED  BY <1>1, <1>2, <1>3, <1>5, <1>7, <1>8

-----------------------------------------------------------------------------
(* The invariant *)

LEMMA InitInvariant == Init => IInv
<1> SUFFICES ASSUME Init PROVE IInv
  OBVIOUS
<1> USE DEF Init
<1>1. <<>> \in Seq(Received) /\ <<>> \in Seq(Clients) /\ Len(<<>>) = 0
  BY EmptySeq
<1>2. Len(Notifications) \in Nat
  BY NotificationsAssumption, LenProperties
<1>3. TypeOK
  BY <1>1, <1>2, BoundsAssumption DEF TypeOK, Pieces, Received
<1>4. InStep /\ Faithful
  BY <1>1 DEF InStep, Faithful
<1>. QED  BY <1>3, <1>4 DEF IInv

(* The next piece is one of the stream. *)
LEMMA NextPiece ==
    ASSUME IInv, Unread
    PROVE  consumed + 1 \in 1..Pieces /\ consumed + 1 \in 0..written /\ consumed \in Nat
<1>1. Len(Notifications) \in Nat
  BY NotificationsAssumption, LenProperties
<1>. QED  BY <1>1 DEF IInv, TypeOK, Unread, Pieces

LEMMA LengthStep ==
    ASSUME IInv, ReadLength
    PROVE  IInv'
<1> DEFINE p == consumed + 1
<1>1. /\ p \in 1..Pieces /\ p \in 0..written /\ consumed \in Nat
      /\ consumed' = p /\ delivered' = delivered /\ p - 1 = consumed
  BY NextPiece DEF ReadLength
<1>2. /\ AsLength(p) \in Nat
      /\ AsLength(p) <= MaxFrameSize <=> IsLength(p)
      /\ IsLength(p) => p \div 2 = (p - 1) \div 2
      /\ ~IsLength(p) => p \div 2 = ((p - 1) \div 2) + 1
  BY <1>1, PieceFacts
<1>3. MaxFrameSize \in Nat
  BY SMT DEF MaxFrameSize
<1> HIDE DEF p
<1>4. \/ IsLength(p) /\ expecting' = AsLength(p) /\ session' = session
      \/ ~IsLength(p) /\ session' = "lost" /\ expecting' = expecting
  <2>1. CASE AsLength(p) > MaxFrameSize
    BY <1>2, <1>3, <2>1 DEF ReadLength, CheckIncomingLength, p
  <2>2. CASE ~(AsLength(p) > MaxFrameSize)
    BY <1>2, <1>3, <2>2 DEF ReadLength, CheckIncomingLength, p
  <2>. QED  BY <2>1, <2>2
<1>5. /\ session = "selecting" /\ UNCHANGED <<deaths, written, streamOpen, listening, accepted, client, serving>>
  BY DEF ReadLength, Reading, streamVars, clientVars
<1>6. TypeOK'
  BY <1>1, <1>2, <1>4, <1>5 DEF IInv, TypeOK, Pieces
<1>7. Len(delivered) = consumed \div 2
  BY <1>5 DEF IInv, InStep
<1>8. \A i \in DOMAIN delivered : delivered[i] = Notifications[i]
  BY DEF IInv, Faithful
<1>9. CASE IsLength(p)
  <2>1. p \div 2 = consumed \div 2 /\ consumed \div 2 \in Nat
    BY <1>1, <1>2, <1>9
  <2>. QED  BY <1>1, <1>6, <1>7, <1>8, <2>1 DEF IInv, InStep, Faithful
<1>10. CASE ~IsLength(p)
  <2>1. consumed \div 2 <= p \div 2 /\ consumed \div 2 \in Nat
    BY <1>1, <1>2, <1>10
  <2>2. session' = "lost"
    BY <1>4, <1>10
  <2>. QED  BY <1>1, <1>6, <1>7, <1>8, <2>1, <2>2 DEF IInv, InStep, Faithful
<1>. QED  BY <1>9, <1>10

LEMMA BacklogResetType ==
    ASSUME TypeOK, NEW peers
    PROVE  BacklogReset(peers) \in [Clients -> ClientStates]
  BY DEF TypeOK, BacklogReset, ClientStates

LEMMA PayloadStep ==
    ASSUME IInv, ReadPayload
    PROVE  IInv'
<1> DEFINE p == consumed + 1
           n == NotificationOf(p)
<1>1. /\ p \in 1..Pieces /\ p \in 0..written /\ consumed \in Nat
      /\ consumed' = p /\ p - 1 = consumed /\ ~IsLength(p)
      /\ delivered' = Append(delivered, n) /\ session = "selecting"
      /\ UNCHANGED <<deaths, written, streamOpen, session, accepted, serving>>
      /\ expecting' = NoLength /\ UpdateListener(n)
  BY NextPiece DEF ReadPayload, PayloadReady, Reading, streamVars
<1>2. /\ (p + 1) \div 2 \in DOMAIN Notifications
      /\ (p + 1) \div 2 = p \div 2 /\ p \div 2 = (consumed \div 2) + 1
  BY <1>1, PieceFacts
<1>3. n \in Received /\ n = Notifications[p \div 2]
  BY <1>2 DEF NotificationOf, Received
<1>4. Len(delivered) = consumed \div 2 /\ delivered \in Seq(Received)
  BY <1>1 DEF IInv, InStep, TypeOK, Received
<1>5. \A i \in DOMAIN delivered : delivered[i] = Notifications[i]
  BY DEF IInv, Faithful
<1> HIDE DEF p, n
<1>12. listening' \subseteq Clients /\ client' \in [Clients -> ClientStates]
  BY <1>1, BacklogResetType DEF IInv, TypeOK, UpdateListener
<1>6. /\ delivered' \in Seq(Received) /\ Len(delivered') = Len(delivered) + 1
      /\ \A i \in 1..Len(delivered) : delivered'[i] = delivered[i]
      /\ delivered'[Len(delivered) + 1] = n
  BY <1>1, <1>3, <1>4, AppendProperties
<1>7. /\ Len(delivered) \in Nat /\ DOMAIN delivered = 1..Len(delivered)
      /\ DOMAIN delivered' = 1..Len(delivered')
  BY <1>4, <1>6, LenProperties
<1>8. TypeOK'
  BY <1>1, <1>6, <1>12 DEF IInv, TypeOK, Received, ClientStates
<1>9. Len(delivered') = p \div 2
  BY <1>2, <1>4, <1>6
<1>10. \A i \in DOMAIN delivered' : delivered'[i] = Notifications[i]
  <2> SUFFICES ASSUME NEW i \in 1..(Len(delivered) + 1) PROVE delivered'[i] = Notifications[i]
    BY <1>6, <1>7
  <2>1. CASE i \in 1..Len(delivered)
    BY <1>5, <1>6, <1>7, <2>1
  <2>2. CASE i = Len(delivered) + 1
    BY <1>3, <1>6, <1>9, <2>2
  <2>. QED  BY <1>7, <2>1, <2>2
<1>11. Len(delivered') <= consumed' \div 2
  BY <1>1, <1>6, <1>7, <1>9
<1>. QED  BY <1>1, <1>8, <1>9, <1>10, <1>11 DEF IInv, InStep, Faithful

(* What the supervisor does. *)
LEMMA SupervisorStep ==
    ASSUME IInv, WritePiece \/ SupervisorDies
    PROVE  IInv'
<1>1. Pieces \in Nat
  BY NotificationsAssumption, LenProperties DEF Pieces
<1>2. UNCHANGED <<consumed, expecting, delivered, session, listening, accepted, client, serving>>
  BY DEF WritePiece, SupervisorDies, readVars, clientVars
<1>3. InStep' /\ Faithful'
  BY <1>2 DEF IInv, InStep, Faithful
<1>4. CASE WritePiece
  <2>1. /\ written' = written + 1 /\ written < Pieces
        /\ UNCHANGED <<deaths, streamOpen>>
    BY <1>4 DEF WritePiece, HasMore
  <2>2. TypeOK'
    BY <1>1, <1>2, <2>1 DEF IInv, TypeOK, Pieces
  <2>. QED  BY <1>3, <2>2 DEF IInv
<1>5. CASE SupervisorDies
  <2>1. /\ deaths' = deaths + 1 /\ deaths < MaxDeaths /\ streamOpen' = FALSE
        /\ UNCHANGED written
    BY <1>5 DEF SupervisorDies
  <2>2. deaths' \in 0..MaxDeaths
    BY <2>1, BoundsAssumption DEF IInv, TypeOK
  <2>3. written \in 0..Pieces /\ consumed \in 0..written
    BY DEF IInv, TypeOK
  <2>4. TypeOK'
    BY <1>2, <2>1, <2>2, <2>3 DEF IInv, TypeOK, Pieces
  <2>. QED  BY <1>3, <2>4 DEF IInv
<1>. QED  BY <1>4, <1>5

(* What the clients and the listener tasks do. *)
LEMMA ClientStep ==
    ASSUME IInv, NEW k \in Clients,
           \/ ConnectClient(k) \/ ListenLoop(k) \/ AcceptFails(k)
           \/ SendRequest(k) \/ HangUpClient(k)
    PROVE  IInv'
<1>1. /\ UNCHANGED <<deaths, written, streamOpen, consumed, expecting, delivered, session, serving>>
      /\ accepted' \in {accepted, Append(accepted, k)}
      /\ listening' \subseteq listening
      /\ \E a \in {"backlog", "connected", "sent", "closed", "dropped"} :
            client' = [client EXCEPT ![k] = a]
  BY DEF ConnectClient, ListenLoop, AcceptFails, SendRequest, HangUpClient, streamVars, readVars
<1>2. accepted' \in Seq(Clients)
  BY <1>1, AppendProperties DEF IInv, TypeOK
<1>3. client' \in [Clients -> ClientStates]
  BY <1>1 DEF IInv, TypeOK, ClientStates
<1>4. TypeOK'
  BY <1>1, <1>2, <1>3 DEF IInv, TypeOK, Pieces, ClientStates
<1>5. InStep' /\ Faithful'
  BY <1>1 DEF IInv, InStep, Faithful
<1>. QED  BY <1>4, <1>5 DEF IInv

(* Dropping a read loses a length and nothing else: the next payload is    *)
(* taken for a length.                                                     *)
LEMMA TakeStep ==
    ASSUME IInv, TakeConnection
    PROVE  IInv'
<1>1. /\ UNCHANGED <<deaths, written, streamOpen, consumed, delivered, listening, client>>
      /\ expecting' = NoLength /\ session = "selecting" /\ session' = "handling"
      /\ accepted # <<>> /\ serving' = Head(accepted) /\ accepted' = Tail(accepted)
  BY DEF TakeConnection, Reading, streamVars
<1>2. accepted' \in Seq(Clients) /\ serving' \in Clients
  BY <1>1, HeadTailProperties DEF IInv, TypeOK
<1>3. TypeOK'
  BY <1>1, <1>2 DEF IInv, TypeOK, Pieces
<1>4. InStep' /\ Faithful'
  BY <1>1 DEF IInv, InStep, Faithful
<1>. QED  BY <1>3, <1>4 DEF IInv

LEMMA HandleStep ==
    ASSUME IInv, HandleRequest
    PROVE  IInv'
<1>1. /\ UNCHANGED <<deaths, written, streamOpen, consumed, expecting, delivered, listening, accepted>>
      /\ session = "handling" /\ session' = "selecting" /\ serving' = NoClient
      /\ client' = [client EXCEPT ![serving] = "away"]
  BY DEF HandleRequest, streamVars, readVars
<1>2. client' \in [Clients -> ClientStates]
  BY <1>1 DEF IInv, TypeOK, ClientStates
<1>3. TypeOK'
  BY <1>1, <1>2 DEF IInv, TypeOK, Pieces, ClientStates
<1>4. InStep' /\ Faithful'
  BY <1>1 DEF IInv, InStep, Faithful
<1>. QED  BY <1>3, <1>4 DEF IInv

LEMMA EofStep ==
    ASSUME IInv, ReadEof
    PROVE  IInv'
<1>1. /\ UNCHANGED <<deaths, written, streamOpen, consumed, expecting, delivered,
                     listening, accepted, client, serving>>
      /\ session = "selecting" /\ session' = "ended"
  BY DEF ReadEof, Reading, streamVars, readVars, clientVars
<1>2. TypeOK'
  BY <1>1 DEF IInv, TypeOK, Pieces
<1>3. InStep' /\ Faithful'
  BY <1>1 DEF IInv, InStep, Faithful
<1>. QED  BY <1>2, <1>3 DEF IInv

(* A new stream is read from its start, and so is that of a new process.   *)
LEMMA NewStreamStep ==
    ASSUME IInv, Reconnect \/ RegistrationRefused \/ StartServer
    PROVE  IInv'
<1>1. Pieces \in Nat
  BY NotificationsAssumption, LenProperties DEF Pieces
<1>2. /\ written' = 0 /\ streamOpen' \in BOOLEAN /\ consumed' = 0
      /\ expecting' = NoLength /\ delivered' = <<>> /\ session' \in {"selecting", "exited"}
      /\ UNCHANGED <<deaths, serving>> /\ accepted' \in {accepted, <<>>}
      /\ listening' \in {Clients, {}}
  BY DEF Reconnect, RegistrationRefused, StartServer, NewStream, KeepChannel
<1>3. client' \in [Clients -> ClientStates]
  <2>1. CASE Reconnect
    BY <2>1, BacklogResetType DEF IInv, Reconnect
  <2>2. CASE RegistrationRefused
    BY <2>2 DEF RegistrationRefused, ClientStates
  <2>3. CASE StartServer
    BY <2>3 DEF IInv, TypeOK, StartServer, ClientStates
  <2>. QED  BY <2>1, <2>2, <2>3
<1>4. <<>> \in Seq(Received) /\ <<>> \in Seq(Clients) /\ Len(<<>>) = 0
  BY EmptySeq
<1>5. TypeOK'
  <2>1. written' \in 0..Pieces /\ consumed' \in 0..written' /\ deaths' \in 0..MaxDeaths
    BY <1>1, <1>2 DEF IInv, TypeOK
  <2>2. delivered' \in Seq(Received) /\ accepted' \in Seq(Clients)
    BY <1>2, <1>4 DEF IInv, TypeOK
  <2>3. listening' \subseteq Clients /\ serving' \in Clients \cup {NoClient}
    BY <1>2 DEF IInv, TypeOK
  <2>. QED  BY <1>2, <1>3, <2>1, <2>2, <2>3 DEF TypeOK, Pieces, Received, ClientStates
<1>6. InStep' /\ Faithful'
  BY <1>2, <1>4 DEF InStep, Faithful
<1>. QED  BY <1>5, <1>6 DEF IInv

LEMMA Invariance == Spec => []IInv
<1>1. IInv /\ UNCHANGED vars => IInv'
  BY DEF vars, IInv, InStep, Faithful, TypeOK, Pieces
<1>2. ASSUME IInv, Next
      PROVE  IInv'
  BY <1>2, SupervisorStep, LengthStep, PayloadStep, EofStep, ClientStep, TakeStep,
     HandleStep, NewStreamStep DEF Next
<1>. QED  BY <1>1, <1>2, InitInvariant, PTL DEF Spec

-----------------------------------------------------------------------------
(* Theorems *)

(* Whatever is written and whoever connects, the loop's state is well      *)
(* typed, and the server reads no more than the supervisor has written.    *)
THEOREM TypeCorrect == Spec => []TypeOK
<1>1. IInv => TypeOK
  BY DEF IInv
<1>. QED  BY <1>1, Invariance, PTL

(* However often a client's connection cancels a read half way, what       *)
(* read_notification has returned is a prefix of what the supervisor wrote *)
(* on this stream: no notification is misread, skipped or repeated         *)
(* (run.rs's select over framing.rs's read_message).                       *)
THEOREM NothingMisread == Spec => []DeliveredIsPrefix
<1>1. ASSUME IInv
      PROVE  DeliveredIsPrefix
  <2>1. Len(Notifications) \in Nat /\ DOMAIN Notifications = 1..Len(Notifications)
    BY NotificationsAssumption, LenProperties
  <2>2. delivered \in Seq(Received) /\ consumed \in 0..(2 * Len(Notifications))
    BY <1>1, <2>1 DEF IInv, TypeOK, Received, Pieces
  <2>3. Len(delivered) \in Nat /\ DOMAIN delivered = 1..Len(delivered)
    BY <2>2, LenProperties
  <2>4. Len(delivered) <= Len(Notifications)
    <3>1. consumed \div 2 <= Len(Notifications) /\ consumed \div 2 \in Nat
      BY <2>1, <2>2
    <3>2. Len(delivered) <= consumed \div 2
      BY <1>1 DEF IInv, Faithful
    <3>. QED  BY <2>1, <2>3, <3>1, <3>2
  <2>5. SubSeq(delivered, 1, Len(delivered)) = SubSeq(Notifications, 1, Len(delivered))
    <3>1. \A i \in 1..Len(delivered) : delivered[i] = Notifications[i]
      BY <1>1, <2>3 DEF IInv, Faithful
    <3>. QED  BY <2>2, <2>3, <2>4, <3>1, NotificationsAssumption, SubSeqProperties
  <2>. QED  BY <2>4, <2>5 DEF DeliveredIsPrefix, IsPrefix
<1>. QED  BY <1>1, Invariance, PTL
=============================================================================
