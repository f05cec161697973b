------------------------------- MODULE Session -------------------------------
(***************************************************************************)
(* One repository server between the supervisor's stream and its clients:  *)
(* serve_one_session's select loop (crossbridge-server/src/run.rs) over    *)
(* the length-prefixed frames of crossbridge-protocol/src/framing.rs.      *)
(*                                                                         *)
(* A frame is written, and read, in two pieces: four bytes of length, then *)
(* the payload.  The loop polls the supervisor's stream first; when it is  *)
(* not ready and a client's connection is, the unfinished read is dropped  *)
(* together with the length it may have consumed, and the next read takes  *)
(* four bytes of payload for a length.  A lost session is followed by a    *)
(* new one on a new stream, with the channel of accepted connections kept, *)
(* or by the end of the process where the supervisor refuses the server.   *)
(* Each client belongs to a peer of its own and so has its own listener.   *)
(***************************************************************************)
EXTENDS Naturals, Sequences, FiniteSets, SequencesExt

CONSTANTS
    Notifications,  \* what the supervisor writes on a stream, in order
    Clients,
    MaxDeaths,      \* bound on how often the supervisor dies
    Capacity,       \* pieces that the stream's buffer takes
    NoLength, NoClient

(* A notification: PeerJoined is variant 0 and PeerLeft 1; the slug has a  *)
(* length and a first byte.                                                *)
Notification == [variant : {0, 1}, slugLen : 1..127, firstByte : 0..255]
ASSUME NotificationsAssumption == Notifications \in Seq(Notification)

ASSUME BoundsAssumption == MaxDeaths \in Nat /\ Capacity \in Nat \ {0}

VARIABLES
    deaths,     \* of the supervisor, so far
    written,    \* pieces the supervisor has written: lengths and payloads
    streamOpen, \* is the supervisor's end of the stream open?
    consumed,   \* pieces of which the server has read (from) the start
    expecting,  \* the length read so far by the pending read_message
    delivered,  \* the notifications that read_notification returned
    session,    \* "selecting", "handling", "lost" (error), "ended" (EOF),
                \* or "exited" with the process
    listening,  \* clients whose peer has a listener
    accepted,   \* the channel of accepted connections
    client,     \* what each client does
    serving     \* the client of the connection being handled

vars == <<deaths, written, streamOpen, consumed, expecting, delivered, session,
          listening, accepted, client, serving>>
streamVars == <<deaths, written, streamOpen>>
readVars == <<consumed, expecting, delivered>>
clientVars == <<listening, accepted, client, serving>>

MaxFrameSize == 16 * 1024 * 1024

(* The postcard payload: the envelope's variant (1 for Notification), the  *)
(* notification's, and the slug with its length.                           *)
PayloadLength(n) == 3 + n.slugLen
FirstFourBytes(n) == <<1, n.variant, n.slugLen, n.firstByte>>
BigEndian(b) == ((b[1] * 256 + b[2]) * 256 + b[3]) * 256 + b[4]

(* Piece 2i-1 is the length of notification i, piece 2i its payload.       *)
Pieces == 2 * Len(Notifications)
NotificationOf(p) == Notifications[(p + 1) \div 2]
IsLength(p) == p % 2 = 1
AsLength(p) ==
    IF IsLength(p) THEN PayloadLength(NotificationOf(p))
                   ELSE BigEndian(FirstFourBytes(NotificationOf(p)))

Init ==
    /\ deaths = 0
    /\ written = 0
    /\ streamOpen = TRUE
    /\ consumed = 0
    /\ expecting = NoLength
    /\ delivered = <<>>
    /\ session = "selecting"
    /\ listening = Clients
    /\ accepted = <<>>
    /\ client = [k \in Clients |-> "away"]
    /\ serving = NoClient

-----------------------------------------------------------------------------
(* The supervisor *)

(* send_to writes inside the supervisor's event loop, which stands still   *)
(* while the buffer is full.                                               *)
HasMore == streamOpen /\ written < Pieces
BufferFull == written - consumed >= Capacity

WritePiece ==
    /\ HasMore /\ ~BufferFull
    /\ written' = written + 1
    /\ UNCHANGED <<deaths, streamOpen, readVars, session, clientVars>>

SupervisorDies ==
    /\ streamOpen
    /\ deaths < MaxDeaths
    /\ deaths' = deaths + 1
    /\ streamOpen' = FALSE
    /\ UNCHANGED <<written, readVars, session, clientVars>>

-----------------------------------------------------------------------------
(* Reading a notification *)

Unread == consumed < written
Reading == session = "selecting"

(* Mutants: the incoming length is not checked; a frame that is too large  *)
(* is logged and skipped.                                                  *)
NoCheck(p) == expecting' = AsLength(p) /\ UNCHANGED session
SkipFrame(p) ==
    /\ expecting' = IF AsLength(p) > MaxFrameSize THEN NoLength ELSE AsLength(p)
    /\ UNCHANGED session
CheckIncomingLength(p) ==
    IF AsLength(p) > MaxFrameSize
    THEN session' = "lost" /\ UNCHANGED expecting
    ELSE expecting' = AsLength(p) /\ UNCHANGED session

ReadLength ==
    /\ Reading /\ Unread /\ expecting = NoLength
    /\ consumed' = consumed + 1
    /\ CheckIncomingLength(consumed + 1)
    /\ UNCHANGED <<streamVars, delivered, clientVars>>

(* The payload completes when as many bytes as were announced are there;   *)
(* a length that came from payload bytes announces more than ever come.    *)
PayloadReady ==
    /\ Unread /\ expecting # NoLength
    /\ ~IsLength(consumed + 1)
    /\ expecting = PayloadLength(NotificationOf(consumed + 1))

(* Closing a listener resets the connections still in its backlog.         *)
BacklogReset(peers) ==
    [k \in Clients |-> IF k \in peers /\ client[k] = "backlog" THEN "dropped" ELSE client[k]]

(* The listener of the peer that the notification names, if it is that of  *)
(* one of the clients, goes; PeerJoined makes a new one.                   *)
UpdateListener(n) ==
    \E peers \in {{}} \cup {{k} : k \in Clients} :
        /\ client' = BacklogReset(peers)
        /\ listening' = IF n.variant = 0 THEN listening \cup peers ELSE listening \ peers

ReadPayload ==
    /\ Reading /\ PayloadReady
    /\ consumed' = consumed + 1
    /\ expecting' = NoLength
    /\ delivered' = Append(delivered, NotificationOf(consumed + 1))
    /\ UpdateListener(NotificationOf(consumed + 1))
    /\ UNCHANGED <<streamVars, session, accepted, serving>>

(* End of file, between frames or inside one, ends the session cleanly.    *)
ReadEof ==
    /\ Reading /\ ~streamOpen
    /\ ~PayloadReady /\ ~(Unread /\ expecting = NoLength)
    /\ session' = "ended"
    /\ UNCHANGED <<streamVars, readVars, clientVars>>

(* Mutant: connections are polled before the stream. *)
AlwaysPending == TRUE
(* The select has found the stream not ready: neither a piece of a frame   *)
(* nor its end has arrived.                                                *)
StreamPending ==
    /\ streamOpen
    /\ ~PayloadReady
    /\ ~(Unread /\ expecting = NoLength)

-----------------------------------------------------------------------------
(* Clients, the listener tasks and the handler *)

InSession == session \in {"selecting", "handling"}

ConnectClient(k) ==
    /\ client[k] \in {"away", "dropped"} /\ InSession
    /\ k \in listening
    /\ client' = [client EXCEPT ![k] = "backlog"]
    /\ UNCHANGED <<streamVars, readVars, session, listening, accepted, serving>>

(* listen_loop accepts and forwards the connection; where accept fails it  *)
(* ends, and the listener is gone.                                         *)
ListenLoop(k) ==
    /\ client[k] = "backlog" /\ InSession
    /\ client' = [client EXCEPT ![k] = "connected"]
    /\ accepted' = Append(accepted, k)
    /\ UNCHANGED <<streamVars, readVars, session, listening, serving>>

AcceptFails(k) ==
    /\ client[k] = "backlog" /\ InSession
    /\ client' = [client EXCEPT ![k] = "dropped"]
    /\ listening' = listening \ {k}
    /\ UNCHANGED <<streamVars, readVars, session, accepted, serving>>

SendRequest(k) ==
    /\ client[k] = "connected"
    /\ client' = [client EXCEPT ![k] = "sent"]
    /\ UNCHANGED <<streamVars, readVars, session, listening, accepted, serving>>

(* A client may also be interrupted before it sends anything. *)
HangUpClient(k) ==
    /\ client[k] = "connected"
    /\ client' = [client EXCEPT ![k] = "closed"]
    /\ UNCHANGED <<streamVars, readVars, session, listening, accepted, serving>>

(* The select takes the connection and drops the pending read. *)
TakeConnection ==
    /\ Reading /\ StreamPending
    /\ accepted # <<>>
    /\ serving' = Head(accepted)
    /\ accepted' = Tail(accepted)
    /\ session' = "handling"
    /\ expecting' = NoLength
    /\ UNCHANGED <<streamVars, consumed, delivered, listening, client>>

(* handle_connection waits, without a timeout, for the request or the end  *)
(* of the connection; after either it returns and the loop goes on.        *)
(* Mutant: it waits for a request.                                         *)
RequestOnly(k) == client[k] = "sent"
RequestOrEnd(k) == client[k] \in {"sent", "closed"}
HandleRequest ==
    /\ session = "handling"
    /\ RequestOrEnd(serving)
    /\ client' = [client EXCEPT ![serving] = "away"]
    /\ serving' = NoClient
    /\ session' = "selecting"
    /\ UNCHANGED <<streamVars, readVars, listening, accepted>>

(* Mutants: what was read of the old stream is kept; each session has a    *)
(* channel of its own.                                                     *)
KeepPosition ==
    /\ written' = 0 /\ streamOpen' = TRUE
    /\ delivered' = <<>>
    /\ UNCHANGED <<consumed, expecting>>
NewStream ==
    /\ written' = 0 /\ streamOpen' = TRUE
    /\ consumed' = 0 /\ expecting' = NoLength /\ delivered' = <<>>
NewChannel == accepted' = <<>>
KeepChannel == UNCHANGED accepted

(* run() clears the listeners, registers again on a new stream, and adds   *)
(* the listeners of the peers that the Ack names.                          *)
Reconnect ==
    /\ session \in {"lost", "ended"}
    /\ session' = "selecting"
    /\ NewStream
    /\ listening' = Clients
    /\ client' = BacklogReset(Clients)
    /\ KeepChannel
    /\ UNCHANGED <<deaths, serving>>

(* The answer may be a Nack: a supervisor that lives has not noticed the   *)
(* loss yet (module Topology), or it cannot make the directory.  run()     *)
(* returns it, and with the process go the connections that were accepted  *)
(* and not yet served.                                                     *)
RegistrationRefused ==
    /\ session \in {"lost", "ended"}
    /\ session' = "exited"
    /\ written' = 0 /\ streamOpen' = FALSE
    /\ consumed' = 0 /\ expecting' = NoLength /\ delivered' = <<>>
    /\ listening' = {}
    /\ accepted' = <<>>
    /\ client' = [k \in Clients |->
                    IF client[k] \in {"away", "closed"} THEN "away" ELSE "dropped"]
    /\ UNCHANGED <<deaths, serving>>

(* Somebody starts the server again. *)
StartServer ==
    /\ session = "exited"
    /\ session' = "selecting"
    /\ NewStream
    /\ listening' = Clients
    /\ UNCHANGED <<deaths, accepted, client, serving>>

-----------------------------------------------------------------------------
Next ==
    \/ WritePiece \/ SupervisorDies
    \/ ReadLength \/ ReadPayload \/ ReadEof
    \/ \E k \in Clients : ConnectClient(k) \/ ListenLoop(k) \/ AcceptFails(k)
                          \/ SendRequest(k) \/ HangUpClient(k)
    \/ TakeConnection \/ HandleRequest
    \/ Reconnect \/ RegistrationRefused \/ StartServer

Spec == Init /\ [][Next]_vars

(* The supervisor finishes a frame it has begun, clients that connected    *)
(* send their request or hang up, and the server runs: a lost session is   *)
(* followed by a Reconnect, unless the registration is refused.  Nobody    *)
(* has to connect, to die or to start the server again.                    *)
Fairness ==
    /\ WF_vars(~IsLength(written + 1) /\ WritePiece)
    /\ WF_vars(ReadLength) /\ WF_vars(ReadPayload) /\ WF_vars(ReadEof)
    /\ WF_vars(TakeConnection) /\ WF_vars(HandleRequest) /\ WF_vars(Reconnect)
    /\ \A k \in Clients : /\ WF_vars(ListenLoop(k))
                          /\ WF_vars(SendRequest(k) \/ HangUpClient(k))

FairSpec == Spec /\ Fairness

-----------------------------------------------------------------------------
(* Properties *)

(* Types, and: no more is consumed than was written. *)
TypeOK ==
    /\ deaths \in 0..MaxDeaths
    /\ written \in 0..Pieces
    /\ consumed \in 0..written
    /\ streamOpen \in BOOLEAN
    /\ expecting = NoLength \/ expecting \in Nat
    /\ delivered \in Seq({Notifications[i] : i \in DOMAIN Notifications})
    /\ session \in {"selecting", "handling", "lost", "ended", "exited"}
    /\ listening \subseteq Clients
    /\ accepted \in Seq(Clients)
    /\ client \in [Clients -> {"away", "backlog", "connected", "sent", "closed", "dropped"}]
    /\ serving \in Clients \cup {NoClient}

(* However reads are dropped half way, the server never acts on bytes it   *)
(* misread and never skips a membership change: it has seen a prefix of    *)
(* what was written, or the session is over.                               *)
DeliveredIsPrefix == IsPrefix(delivered, Notifications)

(* Every client that sent a request is answered, even if its connection    *)
(* was accepted in a session that was lost (the supervisor dying finitely  *)
(* often: between sessions nobody is served), or else the process has      *)
(* ended; and no client waits in a backlog for ever.                       *)
RequestAnswered ==
    \A k \in Clients :
        /\ client[k] = "sent" ~>
             client[k] = "away" \/ (client[k] = "dropped" /\ session = "exited")
        /\ client[k] = "backlog" ~> client[k] # "backlog"

(* A notification that was written whole reaches the server, or the        *)
(* session is over; busy clients do not keep it away for ever.             *)
NotificationsArrive ==
    \A i \in DOMAIN Notifications :
        written >= 2 * i ~> Len(delivered) >= i \/ session \in {"lost", "ended"}

(* The supervisor, which writes to one server at a time and reads no event *)
(* meanwhile, is not held up for ever by a server that waits for a client, *)
(* as long as clients send what they connected to send or hang up.         *)
SupervisorNotHeldUp ==
    HasMore /\ BufferFull ~> ~(HasMore /\ BufferFull)

(* run.rs:97-98: the session goes on "until either the supervisor stream   *)
(* dies or `shutdown` is cancelled".                                       *)
LostOnlyWithStream == session = "lost" => ~streamOpen
=============================================================================
