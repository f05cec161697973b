----------------------------- MODULE Supervisor -----------------------------
(***************************************************************************)
(* The per-user supervisor, crossbridge-supervisor/src/lib.rs: one event   *)
(* loop that owns the membership tables, one task per new connection that  *)
(* reads its Register frame, and one task per registered connection that   *)
(* waits for its end of file.  The tasks talk to the loop through one      *)
(* unbounded channel of events.                                            *)
(*                                                                         *)
(* A handler of the event loop is one action: the runtime has one thread,  *)
(* the tables belong to the loop alone, and what other processes may do    *)
(* meanwhile (close a stream, queue an event) commutes with its writes.    *)
(* A write to a stream fails exactly when the other end is closed; socket  *)
(* buffers do not fill up (frames are tiny, and a server that stops reading*)
(* is the subject of another module).                                      *)
(***************************************************************************)
EXTENDS Integers, Sequences, FiniteSets, SequencesExt

CONSTANTS
    Slugs,        \* repository names a server may register
    Groups,       \* peer groups
    Streams,      \* connection attempts to the register socket, each used once
    Registers,    \* the <<slug, group>> pairs that servers send
    MaxRestarts,  \* bound on the number of supervisor crashes
    MaxUndeleted, \* bound on the directories that fail to be removed
    NoRequest     \* the Register frame of a stream has not been sent

ASSUME RegistersAssumption ==
    /\ Registers \subseteq Slugs \X Groups
    /\ NoRequest \notin Registers
ASSUME MaxRestartsAssumption == MaxRestarts \in Nat
ASSUME MaxUndeletedAssumption == MaxUndeleted \in Nat

VARIABLES
    up,        \* is the supervisor process running and bound?
    restarts,  \* how many times it has crashed (bounded by MaxRestarts)
    remote,    \* the server's end of each stream: "idle", "open" or "closed"
    request,   \* the Register frame the server wrote to each stream
    holder,    \* what owns the supervisor's end of each stream
    events,    \* the mpsc channel into the event loop
    groups,    \* State::groups: group -> slug -> connection id
    conns,     \* State::conns: connection id -> record, defined for live ids
    nextId,    \* State::next_id
    watching,  \* connection ids whose EOF watcher task is running
    sent,      \* frames the supervisor wrote to each stream
    dirs,      \* slugs whose directory exists under the base directory
    undeleted  \* those of them that a failed remove_dir_all left (history)

vars == <<up, restarts, remote, request, holder, events, groups, conns,
          nextId, watching, sent, dirs, undeleted>>

NoId == -1
ASSUME StreamsAssumption == NoId \notin Streams

Ack(peers)   == [type |-> "Ack", peers |-> peers]
Nack(why)    == [type |-> "Nack", reason |-> why]
PeerJoined(s) == [type |-> "PeerJoined", slug |-> s]
PeerLeft(s)   == [type |-> "PeerLeft", slug |-> s]
Message ==
    [type : {"Ack"}, peers : SUBSET Slugs]
      \cup [type : {"Nack"}, reason : {"duplicate", "mkdir"}]
      \cup [type : {"PeerJoined", "PeerLeft"}, slug : Slugs]

Registered(c) == [type |-> "Registered", stream |-> c]
Departed(id)  == [type |-> "Departed", id |-> id]
Event == [type : {"Registered"}, stream : Streams]
           \cup [type : {"Departed"}, id : Nat]

ConnRecord == [slug : Slugs, group : Groups, stream : Streams]

(* Who owns the supervisor's end: nobody yet, the listen backlog, the      *)
(* registration reader, a queued Registered event, State::conns, or nobody *)
(* any more (dropped, so the server reads end of file after the frames).   *)
Holder == {"none", "backlog", "reader", "event", "conns", "dropped"}

-----------------------------------------------------------------------------
(* Startup and crash *)

NoGroups == [g \in Groups |-> [s \in Slugs |-> NoId]]
NoConns == [id \in {} |-> NoId]

Init ==
    /\ up = TRUE
    /\ restarts = 0
    /\ remote = [c \in Streams |-> "idle"]
    /\ request = [c \in Streams |-> NoRequest]
    /\ holder = [c \in Streams |-> "none"]
    /\ events = <<>>
    /\ groups = NoGroups
    /\ conns = NoConns
    /\ nextId = 0
    /\ watching = {}
    /\ sent = [c \in Streams |-> <<>>]
    /\ dirs = {}
    /\ undeleted = {}

(* The process dies: its memory is lost and every stream it held is closed;*)
(* the directories stay until the next start.                              *)
Crash ==
    /\ up
    /\ restarts < MaxRestarts
    /\ up' = FALSE
    /\ restarts' = restarts + 1
    /\ holder' = [c \in Streams |->
                    IF holder[c] = "none" THEN "none" ELSE "dropped"]
    /\ events' = <<>>
    /\ groups' = NoGroups
    /\ conns' = NoConns
    /\ nextId' = 0
    /\ watching' = {}
    /\ UNCHANGED <<remote, request, sent, dirs, undeleted>>

(* prepare_base_dir wipes the base directory before the socket is bound;   *)
(* where it fails the process ends, and the unit is started again.         *)
Start ==
    /\ ~up
    /\ up' = TRUE
    /\ dirs' = {}
    /\ undeleted' = {}
    /\ UNCHANGED <<restarts, remote, request, holder, events, groups, conns,
                   nextId, watching, sent>>

-----------------------------------------------------------------------------
(* The servers' side of a stream *)

Connect(c) ==
    /\ up
    /\ remote[c] = "idle"
    /\ remote' = [remote EXCEPT ![c] = "open"]
    /\ holder' = [holder EXCEPT ![c] = "backlog"]
    /\ UNCHANGED <<up, restarts, request, events, groups, conns, nextId,
                   watching, sent, dirs, undeleted>>

SendRegister(c, r) ==
    /\ remote[c] = "open" /\ holder[c] # "dropped"
    /\ request[c] = NoRequest
    /\ request' = [request EXCEPT ![c] = r]
    /\ UNCHANGED <<up, restarts, remote, holder, events, groups, conns,
                   nextId, watching, sent, dirs, undeleted>>

(* The server exits, is killed, or drops the stream. *)
CloseRemote(c) ==
    /\ remote[c] = "open"
    /\ remote' = [remote EXCEPT ![c] = "closed"]
    /\ UNCHANGED <<up, restarts, request, holder, events, groups, conns,
                   nextId, watching, sent, dirs, undeleted>>

-----------------------------------------------------------------------------
(* The supervisor's tasks *)

Accept(c) ==
    /\ holder[c] = "backlog"
    /\ holder' = [holder EXCEPT ![c] = "reader"]
    /\ UNCHANGED <<up, restarts, remote, request, events, groups, conns,
                   nextId, watching, sent, dirs, undeleted>>

(* Mutant: a reader that gives up on a stream whose writer has closed.     *)
ReadRegisterOfOpenStream(c) ==
    /\ holder[c] = "reader"
    /\ request[c] # NoRequest
    /\ remote[c] = "open"
    /\ holder' = [holder EXCEPT ![c] = "event"]
    /\ events' = Append(events, Registered(c))
    /\ UNCHANGED <<up, restarts, remote, request, groups, conns, nextId,
                   watching, sent, dirs, undeleted>>

(* A frame that was written is read even if the writer has closed since.   *)
ReadRegister(c) ==
    /\ holder[c] = "reader"
    /\ request[c] # NoRequest
    /\ holder' = [holder EXCEPT ![c] = "event"]
    /\ events' = Append(events, Registered(c))
    /\ UNCHANGED <<up, restarts, remote, request, groups, conns, nextId,
                   watching, sent, dirs, undeleted>>

(* End of file before a whole Register frame: the connection is dropped.   *)
ReadRegisterFails(c) ==
    /\ holder[c] = "reader"
    /\ request[c] = NoRequest
    /\ remote[c] = "closed"
    /\ holder' = [holder EXCEPT ![c] = "dropped"]
    /\ UNCHANGED <<up, restarts, remote, request, events, groups, conns,
                   nextId, watching, sent, dirs, undeleted>>

(* Mutant: the watcher ends without telling the event loop. *)
SilentWatcher(id) ==
    /\ id \in watching
    /\ remote[conns[id].stream] = "closed"
    /\ watching' = watching \ {id}
    /\ UNCHANGED <<up, restarts, remote, request, holder, events, groups, conns,
                   nextId, sent, dirs, undeleted>>

EofWatcher(id) ==
    /\ id \in watching
    /\ remote[conns[id].stream] = "closed"
    /\ watching' = watching \ {id}
    /\ events' = Append(events, Departed(id))
    /\ UNCHANGED <<up, restarts, remote, request, holder, groups, conns,
                   nextId, sent, dirs, undeleted>>

-----------------------------------------------------------------------------
(* The event loop *)

Present(g, s) == groups[g][s] # NoId
PeersOf(g) == {s \in Slugs : Present(g, s)}
(* Mutant: the duplicate check is missing. *)
NeverDuplicate(g, s) == FALSE
Duplicate(g, s) == Present(g, s)
(* Mutant: notifications go to every connection, whatever its group. *)
AllIds(g) == DOMAIN conns
PeerIds(g) == {groups[g][s] : s \in PeersOf(g)} \cap DOMAIN conns

(* Writing one notification to each of a set of connections: a write to a  *)
(* closed stream fails, and each failure is queued as a departure after    *)
(* the handler, in the order the HashMap happened to yield the peers.      *)
Reached(ids) == {conns[id].stream : id \in {i \in ids : remote[conns[i].stream] = "open"}}
Failed(ids) == {id \in ids : remote[conns[id].stream] # "open"}
Notified(ids, m) ==
    [c \in Streams |-> IF c \in Reached(ids) THEN Append(sent[c], m) ELSE sent[c]]
QueueDepartures(ids) ==
    \E order \in SetToSeqs(ids) :
        events' = Tail(events) \o [i \in DOMAIN order |-> Departed(order[i])]

(* Mutants: the id of a departed connection is used again; the counter is  *)
(* incremented before it is read.                                          *)
RecycledId == CHOOSE n \in 0..nextId :
                 n \notin DOMAIN conns /\ \A m \in 0..(n - 1) : m \in DOMAIN conns
PreIncrementedId == nextId + 1
FreshId == nextId

Reply(c, m) ==
    sent' = IF remote[c] = "open" THEN [sent EXCEPT ![c] = Append(@, m)] ELSE sent

(* Mutants: a refused registration is queued again; it removes the         *)
(* directory of its slug.                                                  *)
RefuseAndRequeue(c, why) ==
    /\ Reply(c, Nack(why))
    /\ events' = Append(Tail(events), Head(events))
    /\ UNCHANGED <<holder, groups, conns, nextId, watching, dirs, undeleted>>
RefuseAndCleanUp(c, why) ==
    /\ Reply(c, Nack(why))
    /\ holder' = [holder EXCEPT ![c] = "dropped"]
    /\ events' = Tail(events)
    /\ dirs' = dirs \ {request[c][1]}
    /\ undeleted' = undeleted \ {request[c][1]}
    /\ UNCHANGED <<groups, conns, nextId, watching>>

(* The two refusals drop the stream after writing the Nack. *)
RefuseRegistration(c, why) ==
    /\ Reply(c, Nack(why))
    /\ holder' = [holder EXCEPT ![c] = "dropped"]
    /\ events' = Tail(events)
    /\ UNCHANGED <<groups, conns, nextId, watching, dirs, undeleted>>

(* remove_dir_all, whose failure (a socket bound while it runs, a file of  *)
(* another user) is only logged or ignored: the directory stays.           *)
RemoveDir(s) ==
    /\ dirs' = dirs \ {s}
    /\ undeleted' = undeleted \ {s}
RemovalFails(s) ==
    /\ Cardinality(undeleted \cup {s}) <= MaxUndeleted
    /\ dirs' = dirs \cup {s}
    /\ undeleted' = undeleted \cup {s}

(* The Ack could not be written: the directory just made is removed again. *)
AbandonRegistration(c, s) ==
    /\ remote[c] # "open"
    /\ RemoveDir(s) \/ RemovalFails(s)
    /\ holder' = [holder EXCEPT ![c] = "dropped"]
    /\ events' = Tail(events)
    /\ UNCHANGED <<groups, conns, nextId, watching, sent>>

AcceptRegistration(c, s, g) ==
    LET peers == PeerIds(g)
        id == FreshId
    IN  /\ remote[c] = "open"
        /\ dirs' = dirs \cup {s}
        /\ undeleted' = undeleted \ {s}
        /\ sent' = [Notified(peers, PeerJoined(s)) EXCEPT ![c] = Append(@, Ack(PeersOf(g)))]
        /\ nextId' = nextId + 1
        /\ watching' = watching \cup {id}
        /\ groups' = [groups EXCEPT ![g][s] = id]
        /\ conns' = [i \in DOMAIN conns \cup {id} |->
                       IF i = id THEN [slug |-> s, group |-> g, stream |-> c]
                                 ELSE conns[i]]
        /\ holder' = [holder EXCEPT ![c] = "conns"]
        /\ QueueDepartures(Failed(peers))

HandleRegistration(c) ==
    /\ events # <<>>
    /\ Head(events) = Registered(c)
    /\ LET s == request[c][1]
           g == request[c][2]
       IN  \/ Duplicate(g, s) /\ RefuseRegistration(c, "duplicate")
           \/ ~Duplicate(g, s) /\ RefuseRegistration(c, "mkdir")
           \/ ~Duplicate(g, s) /\ AbandonRegistration(c, s)
           \/ ~Duplicate(g, s) /\ AcceptRegistration(c, s, g)
    /\ UNCHANGED <<up, restarts, remote, request>>

(* A departure that was already handled, by the watcher's event or by a    *)
(* failed write, is ignored.                                               *)
StaleDeparture(id) ==
    /\ id \notin DOMAIN conns
    /\ events' = Tail(events)
    /\ UNCHANGED <<groups, conns, watching, holder, dirs, undeleted, sent>>

(* Dropping the write half and aborting the reader closes the stream.  A   *)
(* directory that is gone already is no failure.                           *)
RemoveConnection(id) ==
    LET rec == conns[id]
        peers == PeerIds(rec.group) \ {groups[rec.group][rec.slug]}
    IN  /\ id \in DOMAIN conns
        /\ conns' = [i \in DOMAIN conns \ {id} |-> conns[i]]
        /\ holder' = [holder EXCEPT ![rec.stream] = "dropped"]
        /\ watching' = watching \ {id}
        /\ groups' = [groups EXCEPT ![rec.group][rec.slug] = NoId]
        /\ \/ RemoveDir(rec.slug)
           \/ rec.slug \in dirs /\ RemovalFails(rec.slug)
        /\ sent' = Notified(peers, PeerLeft(rec.slug))
        /\ QueueDepartures(Failed(peers))

HandleDeparture(id) ==
    /\ events # <<>>
    /\ Head(events) = Departed(id)
    /\ StaleDeparture(id) \/ RemoveConnection(id)
    /\ UNCHANGED <<up, restarts, remote, request, nextId>>

HandleEvent ==
    \/ \E c \in Streams : HandleRegistration(c)
    \/ \E id \in 0..nextId : HandleDeparture(id)

-----------------------------------------------------------------------------
Next ==
    \/ Crash
    \/ Start
    \/ \E c \in Streams :
          \/ Connect(c)
          \/ \E r \in Registers : SendRegister(c, r)
          \/ CloseRemote(c)
          \/ Accept(c)
          \/ ReadRegister(c)
          \/ ReadRegisterFails(c)
    \/ \E id \in watching : EofWatcher(id)
    \/ HandleEvent

Spec == Init /\ [][Next]_vars

(* The runtime polls every task that can run: the accept loop, each reader *)
(* and watcher, and the event loop.  Servers, crashes and restarts are not *)
(* fair.                                                                   *)
Fairness ==
    /\ \A c \in Streams : /\ WF_vars(Accept(c))
                          /\ WF_vars(ReadRegister(c))
                          /\ WF_vars(ReadRegisterFails(c))
    /\ \A id \in 0..Cardinality(Streams) : WF_vars(EofWatcher(id))
    /\ WF_vars(HandleEvent)

FairSpec == Spec /\ Fairness

-----------------------------------------------------------------------------
(* Properties *)

(* Every variable has its type, and ids in use are below next_id. *)
TypeOK ==
    /\ up \in BOOLEAN
    /\ restarts \in 0..MaxRestarts
    /\ remote \in [Streams -> {"idle", "open", "closed"}]
    /\ request \in [Streams -> Registers \cup {NoRequest}]
    /\ holder \in [Streams -> Holder]
    /\ events \in Seq(Event)
    /\ groups \in [Groups -> [Slugs -> Nat \cup {NoId}]]
    /\ nextId \in Nat
    /\ DOMAIN conns \subseteq 0..(nextId - 1)
    /\ conns \in [DOMAIN conns -> ConnRecord]
    /\ watching \subseteq DOMAIN conns
    /\ sent \in [Streams -> Seq(Message)]
    /\ dirs \subseteq Slugs
    /\ undeleted \subseteq Slugs

(* The two maps of State, updated by hand at four places, agree: a group   *)
(* entry names a record of that slug and group, every record is reachable  *)
(* from its group entry, and two records never share a stream.             *)
TablesAgree ==
    /\ \A g \in Groups, s \in Slugs :
         Present(g, s) =>
           /\ groups[g][s] \in DOMAIN conns
           /\ conns[groups[g][s]].slug = s
           /\ conns[groups[g][s]].group = g
    /\ \A id \in DOMAIN conns : groups[conns[id].group][conns[id].slug] = id
    /\ \A i, j \in DOMAIN conns : conns[i].stream = conns[j].stream => i = j

(* What a server that reads its stream in order believes: a peer is present*)
(* when the last frame that mentions it is an Ack or a PeerJoined.         *)
Announces(m, s) ==
    \/ m.type = "Ack" /\ s \in m.peers
    \/ m.type = "PeerJoined" /\ m.slug = s
Withdraws(m, s) == m.type = "PeerLeft" /\ m.slug = s
Believes(c, s) ==
    \E i \in DOMAIN sent[c] :
        /\ Announces(sent[c][i], s)
        /\ \A j \in DOMAIN sent[c] : j > i => ~Withdraws(sent[c][j], s)

(* The frames on the stream of each registered server that can still read  *)
(* them add up to its group's other members: no join or leave is lost or   *)
(* crosses a group, whatever was queued, closed or failed.                 *)
ViewsExact ==
    \A id \in DOMAIN conns :
        LET c == conns[id].stream IN
        remote[c] = "open" =>
          \A s \in Slugs :
            Believes(c, s) <=> Present(conns[id].group, s) /\ s # conns[id].slug

(* connect_and_register fails on a Notification as the first frame and     *)
(* read_notification on a RegisterResponse later: each stream carries one  *)
(* response, first, and nothing after a Nack.                              *)
ResponseFirst ==
    \A c \in Streams : \A i \in DOMAIN sent[c] :
        /\ sent[c][i].type \in {"Ack", "Nack"} <=> i = 1
        /\ sent[c][i].type = "Nack" => Len(sent[c]) = 1

(* The directory of every registered server exists: clients of that        *)
(* repository look for sockets there.  .design/supervisor.md:18-19 allow   *)
(* one slug in several groups and create the directory for each.           *)
DirOfLiveServer == \A id \in DOMAIN conns : conns[id].slug \in dirs

(* Where no slug is in two groups, the directories are those of the        *)
(* registered servers and those that a failed remove_dir_all left, which   *)
(* are nobody's: departures, abandoned and refused registrations and       *)
(* restarts leave nothing else behind and take nothing away, and a server  *)
(* that registers again takes over a directory that was left.              *)
DirsExact ==
    LET live == {conns[id].slug : id \in DOMAIN conns}
    IN  up => dirs = live \cup undeleted /\ live \cap undeleted = {}

(* While the supervisor runs it removes a registration only after the      *)
(* server's end has closed: a late or doubled Departed never evicts a      *)
(* server that is still connected.                                         *)
NoEviction ==
    [][\A id \in DOMAIN conns :
         remote[conns[id].stream] = "open" /\ up' =>
           id \in DOMAIN conns' /\ conns'[id] = conns[id]]_vars

(* A server whose Register frame was written gets its answer, or the       *)
(* supervisor has closed the stream.                                       *)
RegisterAnswered ==
    \A c \in Streams :
        (request[c] # NoRequest /\ holder[c] \in {"backlog", "reader", "event"})
          ~> holder[c] \in {"conns", "dropped"}

(* A registered server that died is eventually removed from its group.     *)
DeathNoticed ==
    \A c \in Streams :
        (holder[c] = "conns" /\ remote[c] = "closed") ~> holder[c] = "dropped"

-----------------------------------------------------------------------------
(* The abstract specification: the occupant of a slug is the stream of its *)
(* record, and a member's view is what its frames make it believe.         *)
AbstractOccupant ==
    [g \in Groups |-> [s \in Slugs |->
        IF Present(g, s) THEN conns[groups[g][s]].stream ELSE NoId]]
AbstractView == [c \in Streams |-> {s \in Slugs : Believes(c, s)}]
AbstractGone == {c \in Streams : remote[c] = "closed"}

Abstract == INSTANCE PeerGroups WITH
    Members <- Streams, Nobody <- NoId,
    occupant <- AbstractOccupant, view <- AbstractView, gone <- AbstractGone

(* The supervisor provides the membership service of PeerGroups: every     *)
(* handler is a join, a removal or invisible, and every dead member is     *)
(* eventually removed.                                                     *)
ImplementsPeerGroups == Abstract!FairSpec
=============================================================================
