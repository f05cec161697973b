------------------------------ MODULE Topology ------------------------------
(***************************************************************************)
(* The supervisor, the repository servers and the directory tree they      *)
(* share: crossbridge-server's run.rs (the outer loop and one session),    *)
(* supervisor.rs (connect, register, read notifications) and listeners.rs  *)
(* (one socket <root>/<peer>/<own>.socket per peer), composed with         *)
(* Supervisor.                                                             *)
(*                                                                         *)
(* A server is named by the <<slug, group>> it registers; here no slug is  *)
(* in two groups.  Adding a listener is two steps, the mkdir and the bind, *)
(* because the supervisor may remove the directory in between; a file is   *)
(* bound to its listener while the owner still lists the peer.             *)
(***************************************************************************)
EXTENDS Integers, Sequences, FiniteSets, SequencesExt

CONSTANTS
    Slugs, Groups, Streams, Registers, MaxRestarts, MaxUndeleted,
    NoRequest,  \* these are Supervisor's
    MaxStops,   \* bound on how often they are stopped or their session fails
    NoStream, NoSlug

ASSUME StreamsAreNumbers == Streams \subseteq Nat
ASSUME RegistersAssumption ==
    /\ Registers \subseteq Slugs \X Groups
    /\ NoRequest \notin Registers
ASSUME MaxRestartsAssumption == MaxRestarts \in Nat /\ MaxUndeleted \in Nat
ASSUME NoneAssumption == NoStream \notin Streams /\ NoSlug \notin Slugs
ASSUME OneGroupPerSlug ==
    \A r, q \in Registers : r[1] = q[1] => r = q
ASSUME MaxStopsAssumption == MaxStops \in Nat

VARIABLES up, restarts, remote, request, holder, events, groups, conns,
          nextId, watching, sent, dirs, undeleted   \* Supervisor's

VARIABLES
    pc,        \* where each server is in run()
    stream,    \* its connection to the supervisor
    readUpTo,  \* how many frames of it the server has read
    todo,      \* peers it has still to add a listener for
    binding,   \* the peer whose directory it has just made, or NoSlug
    listening, \* ListenerSet::entries: the peers it has a listener for
    files,     \* the socket files that exist, as <<peer, own>>
    stops,     \* <<server, how>> for each kill, shutdown and failed session
    lost       \* servers whose session failed and that have not registered
               \* again since (history)

supervisorVars == <<up, restarts, remote, request, holder, events, groups,
                    conns, nextId, watching, sent, dirs, undeleted>>
sessionVars == <<pc, stream, readUpTo, todo, binding>>
serverVars == <<pc, stream, readUpTo, todo, binding, listening, files, stops, lost>>
vars == <<supervisorVars, serverVars>>

Sup == INSTANCE Supervisor

SlugOf(r) == r[1]
GroupOf(r) == r[2]
Socket(r, p) == <<p, SlugOf(r)>>

Init ==
    /\ Sup!Init
    /\ pc = [r \in Registers |-> "down"]
    /\ stream = [r \in Registers |-> NoStream]
    /\ readUpTo = [r \in Registers |-> 0]
    /\ todo = [r \in Registers |-> {}]
    /\ binding = [r \in Registers |-> NoSlug]
    /\ listening = [r \in Registers |-> {}]
    /\ files = {}
    /\ stops = <<>>
    /\ lost = {}

-----------------------------------------------------------------------------
(* The supervisor's own steps.  The files of a directory go with it, and   *)
(* any of them may be gone when its removal fails half-way.                *)
SupervisorTask ==
    \/ \E c \in Streams : Sup!Accept(c) \/ Sup!ReadRegister(c) \/ Sup!ReadRegisterFails(c)
    \/ \E id \in watching : Sup!EofWatcher(id)
    \/ Sup!HandleEvent

HalfRemoved(s) == s \in undeleted' \ undeleted

Supervising(step) ==
    /\ step
    /\ \E left \in SUBSET {f \in files : HalfRemoved(f[1])} :
         files' = left \cup {f \in files : f[1] \in dirs' /\ ~HalfRemoved(f[1])}
    /\ UNCHANGED <<pc, stream, readUpTo, todo, binding, listening, stops, lost>>

-----------------------------------------------------------------------------
(* Connecting and registering *)

Idle(r) == todo[r] = {} /\ binding[r] = NoSlug
Unread(r) == readUpTo[r] < Len(sent[stream[r]])
NextFrame(r) == sent[stream[r]][readUpTo[r] + 1]
AtEof(r) == holder[stream[r]] = "dropped" /\ ~Unread(r)

(* Streams bounds the model: each is good for one attempt to register, and *)
(* a server starts, loses its session or sees the supervisor crash only    *)
(* while there is one left for every server that has to register then.     *)
MustRegister(r) ==
    \/ pc[r] \in {"connecting", "ending"}
    \/ pc[r] \in {"registering", "session"} /\ holder[stream[r]] = "dropped"
StreamsFor(servers) ==
    Cardinality(servers \cup {r \in Registers : MustRegister(r)})
        <= Cardinality({c \in Streams : remote[c] = "idle"})

StartServer(r) ==
    /\ pc[r] = "down"
    /\ StreamsFor({r})
    /\ pc' = [pc EXCEPT ![r] = "connecting"]
    /\ UNCHANGED <<supervisorVars, stream, readUpTo, todo, binding, listening, files, stops, lost>>

(* Mutant: what was read of the old stream counts for the new one. *)
KeepReader(r) == UNCHANGED readUpTo
NewReader(r) == readUpTo' = [readUpTo EXCEPT ![r] = 0]

(* The next attempt after a backoff: it fails while the socket is not bound*)
ConnectServer(r) ==
    /\ pc[r] = "connecting"
    /\ \E c \in Streams :
         /\ \A d \in Streams : remote[d] = "idle" => c <= d
         /\ Sup!Connect(c)
         /\ stream' = [stream EXCEPT ![r] = c]
    /\ pc' = [pc EXCEPT ![r] = "registering"]
    /\ NewReader(r)
    /\ UNCHANGED <<todo, binding, listening, files, stops, lost>>

WriteRegister(r) ==
    /\ pc[r] = "registering"
    /\ Sup!SendRegister(stream[r], r)
    /\ UNCHANGED serverVars

ReadAck(r) ==
    /\ pc[r] = "registering"
    /\ Unread(r) /\ NextFrame(r).type = "Ack"
    /\ pc' = [pc EXCEPT ![r] = "session"]
    /\ readUpTo' = [readUpTo EXCEPT ![r] = @ + 1]
    /\ todo' = [todo EXCEPT ![r] = NextFrame(r).peers]
    /\ lost' = lost \ {r}
    /\ UNCHANGED <<supervisorVars, stream, binding, listening, files, stops>>

(* run() returns the Nack as its error and the process exits. *)
ReadNack(r) ==
    /\ pc[r] = "registering"
    /\ Unread(r) /\ NextFrame(r).type = "Nack"
    /\ pc' = [pc EXCEPT ![r] = "down"]
    /\ Sup!CloseRemote(stream[r])
    /\ UNCHANGED <<stream, readUpTo, todo, binding, listening, files, stops, lost>>

(* Any other failure to register is retried. *)
RegisterLost(r) ==
    /\ pc[r] = "registering"
    /\ AtEof(r)
    /\ pc' = [pc EXCEPT ![r] = "connecting"]
    /\ Sup!CloseRemote(stream[r])
    /\ UNCHANGED <<stream, readUpTo, todo, binding, listening, files, stops, lost>>

-----------------------------------------------------------------------------
(* ListenerSet *)

MakePeerDir(r, p) ==
    /\ p \in todo[r] /\ binding[r] = NoSlug
    /\ todo' = [todo EXCEPT ![r] = @ \ {p}]
    /\ binding' = [binding EXCEPT ![r] = p]
    /\ dirs' = dirs \cup {p}
    /\ UNCHANGED <<up, restarts, remote, request, holder, events, groups, conns,
                   nextId, watching, sent, undeleted, pc, stream, readUpTo, listening, files,
                   stops, lost>>

(* The old listener of the peer goes, a stale file is unlinked, and the    *)
(* bind fails if the directory is gone (other failures of mkdir and bind   *)
(* are left out); the error is only logged.                                *)
Bind(r) ==
    /\ binding[r] # NoSlug
    /\ binding' = [binding EXCEPT ![r] = NoSlug]
    /\ LET p == binding[r] IN
         IF p \in dirs
         THEN /\ listening' = [listening EXCEPT ![r] = @ \cup {p}]
              /\ files' = files \cup {Socket(r, p)}
         ELSE /\ listening' = [listening EXCEPT ![r] = @ \ {p}]
              /\ UNCHANGED files
    /\ UNCHANGED <<supervisorVars, pc, stream, readUpTo, todo, stops, lost>>

RemoveListeners(r, peers) ==
    /\ listening' = [listening EXCEPT ![r] = @ \ peers]
    /\ files' = files \ {Socket(r, p) : p \in peers \cap listening[r]}

(* Mutant: the listeners of a dead session are kept. *)
KeepAll(r) == UNCHANGED <<listening, files>>
ClearAll(r) == RemoveListeners(r, listening[r])

-----------------------------------------------------------------------------
(* One session *)

ReadJoined(r) ==
    /\ pc[r] = "session" /\ Idle(r)
    /\ Unread(r) /\ NextFrame(r).type = "PeerJoined"
    /\ readUpTo' = [readUpTo EXCEPT ![r] = @ + 1]
    /\ todo' = [todo EXCEPT ![r] = {NextFrame(r).slug}]
    /\ UNCHANGED <<supervisorVars, pc, stream, binding, listening, files, stops, lost>>

ReadLeft(r) ==
    /\ pc[r] = "session" /\ Idle(r)
    /\ Unread(r) /\ NextFrame(r).type = "PeerLeft"
    /\ readUpTo' = [readUpTo EXCEPT ![r] = @ + 1]
    /\ RemoveListeners(r, {NextFrame(r).slug})
    /\ UNCHANGED <<supervisorVars, pc, stream, todo, binding, stops, lost>>

(* Mutants: a silent supervisor is taken for a dead one; the end of an     *)
(* earlier stream is taken for the end of this one.                        *)
SilenceIsEof(r) == ~Unread(r)
OldEofKept(r) ==
    \/ AtEof(r)
    \/ ~Unread(r) /\ \E c \in Streams \ {stream[r]} : request[c] = r /\ holder[c] = "dropped"
StreamEnded(r) == AtEof(r)

(* The session returns, dropping the stream, before run() clears the       *)
(* listeners and goes round its loop.                                      *)
SessionEnds(r) ==
    /\ pc[r] = "session" /\ Idle(r)
    /\ StreamEnded(r)
    /\ pc' = [pc EXCEPT ![r] = "ending"]
    /\ Sup!CloseRemote(stream[r])
    /\ UNCHANGED <<stream, readUpTo, todo, binding, listening, files, stops, lost>>

(* The other way for a session to end: what is read is no frame, because a *)
(* cancelled read has left the middle of one (module Session).  The        *)
(* supervisor is alive, and learns of it when its watcher sees the end of  *)
(* the stream.                                                             *)
SessionFails(r) ==
    /\ pc[r] = "session" /\ Idle(r)
    /\ Unread(r)
    /\ Len(stops) < MaxStops /\ StreamsFor({r})
    /\ stops' = Append(stops, <<r, "failure">>)
    /\ lost' = lost \cup {r}
    /\ pc' = [pc EXCEPT ![r] = "ending"]
    /\ Sup!CloseRemote(stream[r])
    /\ UNCHANGED <<stream, readUpTo, todo, binding, listening, files>>

ClearAfterSession(r) ==
    /\ pc[r] = "ending"
    /\ pc' = [pc EXCEPT ![r] = "connecting"]
    /\ ClearAll(r)
    /\ UNCHANGED <<supervisorVars, stream, readUpTo, todo, binding, stops, lost>>

-----------------------------------------------------------------------------
(* Stopping *)

HangUp(r) ==
    IF stream[r] # NoStream /\ remote[stream[r]] = "open"
    THEN Sup!CloseRemote(stream[r]) ELSE UNCHANGED supervisorVars

(* Mutant: shutdown leaves the socket files. *)
ShutdownWithoutClear(r) ==
    /\ pc[r] \in {"connecting", "registering", "session"} /\ Idle(r)
    /\ Len(stops) < MaxStops
    /\ stops' = Append(stops, <<r, "shutdown">>)
    /\ pc' = [pc EXCEPT ![r] = "exiting"]
    /\ listening' = [listening EXCEPT ![r] = {}]
    /\ UNCHANGED <<supervisorVars, stream, readUpTo, todo, binding, files, lost>>

(* Shutdown is seen between awaits; the session clears its listeners       *)
(* before it drops the stream.                                             *)
BeginShutdown(r) ==
    /\ pc[r] \in {"connecting", "registering", "session"} /\ Idle(r)
    /\ Len(stops) < MaxStops
    /\ stops' = Append(stops, <<r, "shutdown">>)
    /\ pc' = [pc EXCEPT ![r] = "exiting"]
    /\ ClearAll(r)
    /\ UNCHANGED <<supervisorVars, stream, readUpTo, todo, binding, lost>>

FinishShutdown(r) ==
    /\ pc[r] = "exiting"
    /\ pc' = [pc EXCEPT ![r] = "down"]
    /\ HangUp(r)
    /\ UNCHANGED <<stream, readUpTo, todo, binding, listening, files, stops, lost>>

(* A kill leaves the socket files behind. *)
Kill(r) ==
    /\ pc[r] \notin {"down", "exiting"}
    /\ Len(stops) < MaxStops
    /\ stops' = Append(stops, <<r, "kill">>)
    /\ pc' = [pc EXCEPT ![r] = "down"]
    /\ HangUp(r)
    /\ todo' = [todo EXCEPT ![r] = {}]
    /\ binding' = [binding EXCEPT ![r] = NoSlug]
    /\ listening' = [listening EXCEPT ![r] = {}]
    /\ UNCHANGED <<stream, readUpTo, files, lost>>

-----------------------------------------------------------------------------
ServerTask(r) ==
    \/ ConnectServer(r)
    \/ WriteRegister(r)
    \/ ReadAck(r)
    \/ ReadNack(r)
    \/ RegisterLost(r)
    \/ \E p \in Slugs : MakePeerDir(r, p)
    \/ Bind(r)
    \/ ReadJoined(r)
    \/ ReadLeft(r)
    \/ SessionEnds(r)
    \/ ClearAfterSession(r)
    \/ FinishShutdown(r)

Next ==
    \/ Supervising(SupervisorTask)
    \/ /\ StreamsFor({r \in Registers : pc[r] \in {"registering", "session"}})
       /\ Supervising(Sup!Crash)
    \/ Supervising(Sup!Start)
    \/ \E r \in Registers :
          \/ ServerTask(r)
          \/ StartServer(r) \/ SessionFails(r) \/ BeginShutdown(r) \/ Kill(r)

Spec == Init /\ [][Next]_vars

(* Every task of a running process runs when it can; nobody has to start,  *)
(* stop or kill a process, and no session has to fail.                     *)
Fairness ==
    /\ WF_vars(Supervising(SupervisorTask))
    /\ \A r \in Registers : WF_vars(ServerTask(r))

FairSpec == Spec /\ Fairness

-----------------------------------------------------------------------------
(* Properties *)

(* The servers' variables have their types. *)
TypeOK ==
    /\ Sup!TypeOK
    /\ pc \in [Registers -> {"down", "connecting", "registering", "session",
                             "ending", "exiting"}]
    /\ stream \in [Registers -> Streams \cup {NoStream}]
    /\ readUpTo \in [Registers -> Nat]
    /\ \A r \in Registers :
         readUpTo[r] <= (IF stream[r] = NoStream THEN 0 ELSE Len(sent[stream[r]]))
    /\ todo \in [Registers -> SUBSET Slugs]
    /\ binding \in [Registers -> Slugs \cup {NoSlug}]
    /\ listening \in [Registers -> SUBSET Slugs]
    /\ files \subseteq {Socket(r, p) : r \in Registers, p \in dirs}
    /\ stops \in Seq(Registers \X {"kill", "shutdown", "failure"})
    /\ lost \subseteq Registers

(* Nothing is on its way: no task of the supervisor or of a server can run.*)
Settled ==
    /\ up
    /\ events = <<>>
    /\ \A c \in Streams : holder[c] \notin {"backlog", "reader", "event"}
    /\ \A id \in watching : remote[conns[id].stream] = "open"
    /\ \A r \in Registers :
         /\ pc[r] \in {"down", "session"}
         /\ Idle(r)
         /\ pc[r] = "session" => ~Unread(r) /\ ~AtEof(r)

InSession(r) == pc[r] = "session"
Stopped(r) == \E i \in DOMAIN stops : stops[i][1] = r /\ stops[i][2] # "failure"
Killed(r) == <<r, "kill">> \in {stops[i] : i \in DOMAIN stops}

(* What the client command `peers` prints in the repository of slug s, and *)
(* whether it reports instead that there is no socket directory.           *)
list_peers(s) == {f[2] : f \in {g \in files : g[1] = s}}
NotRegistered(s) == s \notin dirs

(* Once everything is settled each server listens for exactly the other    *)
(* servers of its group, and a client finds all of them, and besides only  *)
(* what killed servers left: no order of joins, deaths, restarts,          *)
(* directory removals and late frames leaves a peer unreachable or a       *)
(* listener too many.                                                      *)
ListenersMatchGroup ==
    Settled =>
      \A r \in Registers : InSession(r) =>
        LET peers == {SlugOf(q) : q \in {k \in Registers \ {r} :
                                            InSession(k) /\ GroupOf(k) = GroupOf(r)}}
        IN  /\ listening[r] = peers
            /\ ~NotRegistered(SlugOf(r))
            /\ peers \subseteq list_peers(SlugOf(r))
            /\ list_peers(SlugOf(r)) \subseteq peers \cup {SlugOf(q) : q \in {k \in Registers : Killed(k)}}

(* A socket file that no listener serves belongs to a server that was      *)
(* killed: a lost session, a refusal, a Ctrl-C and a bind that failed      *)
(* leave none (.design/server.md:41).                                      *)
StaleSocketsOfKilledOnly ==
    \A r \in Registers, p \in Slugs :
        Socket(r, p) \in files => p \in listening[r] \/ Killed(r)

(* .design/supervisor.md:32 and 86-89: when a registered server is gone    *)
(* its directory is removed, even if another server has not cleaned up.    *)
DeadDirectoriesRemoved ==
    Settled => \A s \in dirs : \E r \in Registers : InSession(r) /\ SlugOf(r) = s

(* What ends a server that nobody stopped, while it registers, is never    *)
(* its own earlier registration: however supervisor crashes and its own    *)
(* reconnections interleave, that registration is gone before it registers *)
(* again (.design/server.md:40, "no manual intervention required").  Only  *)
(* after a session that failed, until it is registered again, may the      *)
(* supervisor not know yet that the old stream has ended.                  *)
ReconnectionNotRefused ==
    [][\A r \in Registers \ lost :
         pc[r] = "registering" /\ pc'[r] = "down" /\ ~Stopped(r)' =>
           NextFrame(r) = Sup!Nack("mkdir")]_vars

(* .design/server.md:27: "Reconnect to the supervisor on stream loss [...] *)
(* On reconnect, re-register": no server that nobody stopped is refused as *)
(* a duplicate, a failed session or not.                                   *)
StreamLossReconnects ==
    [][\A r \in Registers :
         pc[r] = "registering" /\ pc'[r] = "down" /\ ~Stopped(r)' =>
           NextFrame(r) = Sup!Nack("mkdir")]_vars

(* Starts, stops, failures and crashes being finitely many, the system     *)
(* settles, unless the supervisor stays down: servers do not connect, lose *)
(* and clear for ever.  Each of them comes with the streams that it calls  *)
(* for (StreamsFor); a server that used more would be left without one.    *)
Converges == <>[](Settled \/ ~up)
=============================================================================
