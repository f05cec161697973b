# Crossbridge in TLA+

Crossbridge lets the repositories of one user put questions to each other. This
directory holds TLA+ modules of its supervisor, repository servers and clients,
TLC runs that check them on small instances, and TLAPS proofs for instances of
any size. Everything is translated from the Rust and shell source; where a
document of the repository promises something else, a run shows the difference.

## The system

| part | source | state it keeps | operations |
|---|---|---|---|
| supervisor | `crossbridge-supervisor/src/lib.rs` | `State::groups`, `State::conns`, `next_id`, one event channel, one watcher task per connection, one directory per slug | accept, read `Register`, `handle_registration`, `handle_departure`, wipe on start |
| repository server: registration | `crossbridge-server/src/supervisor.rs` | the stream, the backoff | connect, register, retry, `read_notification` |
| repository server: session | `crossbridge-server/src/run.rs` | the session loop, the channel of accepted connections | `select!` over shutdown, notifications, connections |
| repository server: listeners | `crossbridge-server/src/listeners.rs` | `ListenerSet::entries`, socket files `<root>/<peer>/<own>.socket` | `add`, `remove`, `clear`, `listen_loop` |
| request handlers | `crossbridge-server/src/handler.rs` | the crosslink database | `handle_submit`, `handle_answer` |
| attachments | `crossbridge-server/src/attachment.rs` | a temporary jj workspace | `materialize` |
| client | `crossbridge-client/src/main.rs`, `labels.rs` | the labels of its own issues | `submit`, `answer`, list peers |
| framing, wire types | `crossbridge-protocol/src/` | none | frames of four length bytes and a payload |
| slugs, paths | `slug.rs` of server and client, `paths.rs`, `crossbridge-client/src/lib.rs` | none | derive the repository's name, resolve the socket root |
| shell integration | `nix/direnvrc.sh`, `nix/module.nix` | a lock file, processes, the exported slug | start a server once per repository |

Servers talk to the supervisor over one persistent stream each: `Register`, then
`Ack` or `Nack`, then `PeerJoined` and `PeerLeft`. Supervisor and servers share
the directory tree: the supervisor makes and removes a directory per slug, the
servers of a group put one socket into the directory of every other. A client in
repository *p* finds there the sockets of *p*'s peers, sends one request, waits
for one response and then updates its own database.

Hard to test are: deaths and reconnections crossing queued events; notifications
handled after the facts have changed; two processes changing one directory tree;
the cancellation of a half-finished read; a process dying between two database
writes or two jj commands; retries of what was already done; two programs and a
shell function that must come to the same name and the same directory; shells
that start servers at the same time. `PROJECT.json` lists each of these hazards
at its line.

What makes each part correct: *supervisor* - the two tables agree, the frames on
each stream add up to the group, no live server is evicted, directories match
registrations; *server* - once nothing is moving, it listens for exactly its
peers; it gets back after any crash; *session* - no notification is misread or
skipped unnoticed, no client is forgotten; *exchange* - an `Ok` is true and stays
true, answers are copied once, labels are consistent; *attachments* - committed
once, notes are true, no workspace is left behind by a failure; *slugs and paths* -
a client looks where its server's peers put their sockets; *shell integration* -
one server per repository, and one for each shell that has entered.

## Modules

| module | models | properties in |
|---|---|---|
| `PeerGroups` | abstract: what the supervisor promises its servers | |
| `Supervisor` | the supervisor; implements `PeerGroups` | itself |
| `Topology` | supervisor, servers' sessions and listeners, the directory tree; composes `Supervisor` | itself |
| `Session` | one server's select loop, frames in pieces, a bounded buffer, clients | itself |
| `Exchange` | clients, request handlers and databases | itself |
| `Attachment` | a submission's attachments, command by command | itself |
| `Slug` | the three ways to a slug, and the paths; operators only | |
| `Setup` | shells, servers and clients of a user; uses `Slug` | itself |
| `Supervisor_proofs`, `Supervisor_refinement` | proofs about `Supervisor` | |
| `Topology_proofs`, `Exchange_proofs`, `Session_proofs`, `Attachment_proofs`, `Slug_proofs`, `Setup_proofs` | proofs about these | |
| `MC...` | constants for TLC | |

### Supervisor

`groups`, `conns`, `nextId` are the fields of `State`; a group entry that is
absent is `NoId`, so the removal of an empty inner map needs no state. `events`
is the channel. `holder[c]` says what owns the supervisor's end of stream `c`: the
backlog, the registration reader's task, a queued `Event::Registered`, `conns`, or
nobody, which is when the server reads end of file. `sent[c]` is everything
written to the stream. `watching` is the set of running watcher tasks, `dirs` the
directories, and `undeleted` those of them that a failed `remove_dir_all` left: the
code logs or ignores the error (`lib.rs:219`, `287`), which a server can cause by
binding a socket while the directory is being removed. A `Register` of the slug takes
such a directory over.

A handler of the event loop is one action. It is sound to take it as one because
the runtime has one thread (`new_current_thread` in `main.rs`), the tables belong
to the loop's task alone, and the steps that other tasks and processes can take
at its awaits - queue an event, close a stream, connect - do not read what the
handler writes. Closing a stream during the fan-out is the same as closing it
before or after the write to that stream. `handle_registration` has four
outcomes: `RefuseRegistration` for a duplicate, or for a directory that cannot be
made; `AbandonRegistration`, the `Ack` that cannot be written; and
`AcceptRegistration`. The directory of an abandoned registration or of a departed
server goes (`RemoveDir`) or stays (`RemovalFails`). Failed writes queue departures in any order
(`QueueDepartures`), since the peers come out of a `HashMap`. Tasks that are
ready run in any order; tokio promises none.

Bytes a registered server sends after `Register` are read and ignored by the
watcher and are left out. Socket buffers do not fill up here; a server that stops
reading, and the event loop that then waits for it, are in `Session`.

### Topology

A server is named by what it registers; `pc` is its place in `run`:
`connecting`, `registering`, `session`, `ending` (the session has returned and the
listeners are not yet cleared), `exiting`, `down`. It reads `sent` of its stream
frame by frame, so it may lag behind the supervisor by any number of frames.
`ListenerSet::add` is two steps, `MakePeerDir` and `Bind`, since the supervisor, a
different process, may remove the directory in between. `Supervising` takes a
step of the supervisor and deletes the socket files of removed directories; where a
removal fails half-way, any of the files may be gone (`HalfRemoved`). A session ends
with its stream (`SessionEnds`) or with an error while the supervisor lives
(`SessionFails`, `run.rs:147-149`), because a cancelled read has left the middle of a
frame, as `Session` shows. After that a server may register before the supervisor has
noticed, and be refused as its own duplicate, upon which it exits; `lost` remembers
whom this may hit.
Backoff is not timed: an attempt may be made at any time.
A kill leaves the socket files, a shutdown (the cancelled token) clears them.
`list_peers` is what `crossbridge-client list-peers` reads from the tree, and
`ListenersMatchGroup` says that it is the group once nothing is moving.

### Exchange

A repository's `issues` are rows with labels, a list of result comments and a
closed flag. crosslink is external and is used through `create_issue`, label and
comment calls and `transaction`, which is applied whole. A request passes through
`stage`: `queued`, `looked`, `created` or `applied`, `ok` or `error`; the client
through `phase`. Between any two stages the server can fail, the client can be
interrupted, and other clients write. Handlers run one at a time per server
because the session loop awaits each. The comments to copy are computed when the
answer is looked up, and written in a later step. A comment is the pair of who it
is marked to be from and its text; what a user writes is from `Nobody`.

A client may submit any issue of its repository: one that was submitted before,
or one that came from somebody else, whose labels - `xb-ref` and `xb-source` among
them - then travel with it (`main.rs:112`). `resubmitted` and `passedOn` remember the
uuids to which that has happened. For these, and only for these, `StatusExclusive`,
`RefIsUnique` and `AnsweredIsResolved` promise less: submitting again makes an
answered issue pending once more (`main.rs:130`), and two issues may carry one
reference. Without these exemptions TLC finds the three violated.
`AcknowledgedIsDone` and `CopiedOnce` hold for all of them.

### Session

`written` and `consumed` count pieces: a frame is its length and then its payload,
as in `write_message` and `read_message`; each is a few bytes written by one call,
so a piece arrives whole. `TakeConnection` drops the pending read
and whatever length it has consumed, as `select!` does; then a payload is read as
a length. `FirstFourBytes` are those of the postcard encoding, since what saves
the server is that they exceed `MAX_FRAME_SIZE`: the first is 1, the envelope's
variant, and 2^24 is the limit. Slugs are shorter than 128 bytes
(`NotificationsAssumption`), so that their length is one byte. After a session the
listeners are cleared, which resets the connections in their backlogs
(`BacklogReset`), and the channel of accepted connections is kept. What follows is a
`Reconnect` or a `Nack`, with which the process ends (`RegistrationRefused`): then
accepted connections that were not served go with it, and their clients are
`dropped`. Within a session a notification may take away, or make again, the listener
that a client uses, and so does an `accept` that fails (`AcceptFails`). Shutdown is in
`Topology`.

The stream holds `Capacity` pieces that were written and not read. When it is full
the supervisor's event loop waits inside `write_message`; when a client has
connected and not yet sent anything, the server waits inside `handle_connection`.
`SupervisorNotHeldUp` says that the two together never wait for ever, provided
that clients send or hang up.

### Attachment

`pc` walks through `handle_submit` and the jj commands of `materialize`: `add`,
`write` for every file, `log` after `describe`, then `forget` and `remove`. An error
anywhere goes to the cleanup, whose own errors are ignored; `Die` may strike
anywhere and a later `Receive` is the retry. `workspace` counts the unique names of
the temporary directories, and a commit carries the number of the workspace that
made it. `abandoned`, `unnoted` and `cut` remember where something went wrong that no
code repairs: a cleanup command that failed or a death over a workspace, a note that
could not be written, a death between the labels and the note. The two properties
that use them say that nothing *else* loses a workspace or a note. The last of the
three loses the attachments for good, since the retry finds the issue and answers
`Ok` (`handler.rs:97`), although `.design/server.md:39` promises a commit and a note.

### Slug

A string is a sequence of tokens: the characters that the parsers test for, `://`,
`.git`, and whole words for what lies between. `<<>>` is at once the empty string,
`None` and an error, which all callers treat alike. `parse_slug` (server),
`parse_origin_url` (client) and `ShellParse` are the three parsers, each with its own
way to find the URL. They differ: on a trailing slash, on a query or fragment, on
a colon in the last path segment, on a host without a path, and under jj on blanks
and on a URL that is missing (only client and shell fall back to git). `IsPlain`
describes the URLs that the code's comments list as supported, and on those they
agree. An environment is the two variables that decide the root; paths are
sequences of components.

### Setup

A shell that enters a repository computes its slug, takes the lock of that name,
looks for a process, starts one if there is none and polls for it (`pc`). A server
process is there before it has executed its binary (`seen`), which is when `pgrep`
finds it and when its slug is resolved. The lock is given up after 30 seconds of
waiting, the poll after three; a start that so goes on unprotected counts as a
`lapse`. Servers may exit and be started by hand, and under running shells the
remote may be changed (`ChangeOrigin`) and so may the argument in the `.envrc`
(`ChangeArgument`). `pgrep` matches a path as a substring, so that a server of
`/src/ab` is taken for one of `/src/a` (`direnvrc.sh:119`): `Extensions` says of
which repositories the path begins with this one's, and the properties exempt
such a repository.

Two limits are those of the code. A running server keeps its slug when remote or
argument change, and new shells export the new one: `OneServerPerRepo`,
`PinnedClientFindsServer` and, where there is no argument, `DerivedClientFindsServer`
are about repositories of which neither was changed. For the others `direnvrc.sh:10-12`
promises too much: a shell that finds the server running (`direnvrc.sh:119`) exports
the slug of the new argument, which that server does not have. And the supervisor's unit sets the socket root
whatever the login has (`UnitEnv`, `module.nix:60`): a run starts from every pair of
login and unit, and `Meet` promises that servers and clients meet each other for all
of them, but that they meet the supervisor only where the roots are the same.
`SharesRoot` is what `module.nix:30-32` asks of the user.

## Runs

| run | question | states, time |
|---|---|---|
| `supervisor_tables` | do tables, streams and registrations agree, with 4 connections and a slug in two groups? | 1.8 M, 60 s |
| `supervisor_live` | is every registration answered, every death noticed, `PeerGroups` implemented; do the directories match across a restart and a failed removal? | 0.24 M, 130 s |
| `supervisor_shared_slug` | is the directory of every live server there? **no** | |
| `topology` | does the system settle, with servers that listen for their peers; are files and refusals right? | 1.0 M, 110 s |
| `topology_dead_dir` | are the directories of dead servers removed? **no** | |
| `topology_refused` | does a server that lost its session get back? **no** | |
| `exchange` | does `Ok` stay true, with retries, failures, repeated and passed on submissions? | 60 s |
| `exchange_orphan` | does submitting again make no second row? **no** | |
| `session` | are notifications and requests all handled, with a full buffer, failing accepts and refusals? | 12 k, 4 s |
| `session_cancelled_read` | does a session end only with its stream? **no** | |
| `attachment` | are attachments committed once, noted truly and cleaned up? | 0.6 M, 5 s |
| `setup` | is there one server, and do clients find it, for 460 URLs, three logins and two units? | 0.7 M, 60 s |

Each property of a passing run has a mutant in `PROJECT.json`, a definition such as
`NeverDuplicate` next to the one it stands in for, under which TLC finds that
property violated.

### What the five violations show

1. `DirOfLiveServer`. Directories are named by the slug, registrations by slug and
   group. With one slug in two groups, allowed by `.design/supervisor.md:18`, the
   departure of one removes the directory of the other. `Topology` and `DirsExact`
   therefore assume distinct slugs.
2. `DeadDirectoriesRemoved`. A server that handles its `Ack` or a `PeerJoined` after
   the peer is gone makes the peer's directory again (`listeners.rs:81`).
   `PeerLeft` removes the socket only; the directory stays until the supervisor
   restarts. Once settled no listener is left over, which `ListenersMatchGroup`
   shows.
3. `OneRowPerRequest`. The row is committed before its labels; a failure in between
   leaves a row that the next lookup does not find.
4. `LostOnlyWithStream`. The select loop drops a half-read notification when a
   client connects. `DeliveredIsPrefix` shows that this never goes unnoticed: the
   session ends, and the server tries to register again, upon which it is told the
   peers anew or
5. `StreamLossReconnects`: is refused. The supervisor lives, and may read the new
   `Register` before its watcher has reported the end of the old stream. The answer is
   a `Nack` for a duplicate, and the process exits (`run.rs:76`).
   `ReconnectionNotRefused` shows that this happens after a failed session only.

### Bounds

*Streams* (4 in `supervisor_tables`, 3 in `supervisor_live`) are connection attempts,
each used once. Four allow a group of three, a notification to two peers of which
one or both have failed, and a slug that is registered again while a departure of
its former id is still queued. They are symmetric where no temporal property is
checked; in `Topology` they are numbers and taken in order, which keeps the states
apart that matter. *Restarts*: one, enough for servers connected before and after.
*Undeleted*: one directory at a time may be left by a failed removal. *Stops*: one kill,
shutdown or failed session, on top of the crash.

In `Topology` the streams bound the starts of servers too. What makes a server register
- its start, a failed session, a crash of the supervisor - happens only while there is
a stream for every server that has to register then (`StreamsFor`), so that no server
lacks one, and a server that connected, lost and cleared for ever would use them up
and be left in `connecting`, which `Settled` excludes. Four streams allow two servers
that live through a crash, a killed server that comes back after a crash, and one
that is refused after a failed session and started again.

`Exchange`: four *commands* allow a submission, an answer, a second answer with a
result added in between and a retry of any, or a submission, one that passes it on
or repeats it, and the answers to both; the one *failure* can strike in any step of
any command, and `MaxIrregular` allows one uuid that is submitted again or passed
on. *Two notifications, two clients, two deaths* in `Session`: a client can be
taken between any two pieces while another waits from an earlier session;
*Capacity* 3 is less than the four pieces there are. `Attachment`: three requests,
of which one has two files, one a name that is refused and one none; *five*
arrivals and *two deaths* allow a retry of each and a death over a retry.

`Setup` starts from every URL made of a beginning, an optional name and at most two
further tokens, under jj or git, and from the environments that `Logins` lists, each
with a supervisor of the login's environment or of a unit with one of two `Roots`;
there `Bounded`, a state constraint, leaves one shell and one server at a time, since
slugs and paths are what is asked. Two setups (`Crowd`) have two repositories, two
shells and three servers that meet freely, with one root, one lapse and one change of
remote or argument.

Only `setup` checks deadlock. The runs of `Supervisor`, `Topology`, `Exchange` and
`Attachment` stop when their streams, commands or requests are used up. A `session`
rests when the supervisor has died as often as it may or has nothing left to say,
and no listener is left to connect to.

### Fairness

The tokio runtime polls every task that is ready: accept loop, readers, watchers
and event loop are weakly fair in `Supervisor`, every task of a running server in
`Topology`. Nobody has to connect, register, crash or restart. `Session` assumes
more, and needs it: the supervisor finishes a frame it has begun (`write_message`
writes both parts in one call), and a client that connected sends its request or
hangs up - `handle_connection` reads without a timeout, so a client that does
neither holds up everything. A lost session is followed by a `Reconnect` unless the
registration is refused; `Reconnect` is weakly fair, a refusal and the start of the
server by somebody else are not. A supervisor that dies for ever would leave nobody
to reconnect to; `MaxDeaths` bounds it, and `Converges` allows that the supervisor is
down. Nothing else is excepted there: no session has to fail and no server to start.

## Proofs

Proved for all values of the constants, from the assumptions that the modules
state: the constants have their types, `NoId`, `Failed`, `NoRepo` and `NoFlag` are none
of the values they stand beside, `Nobody` is no repository, and
(`LiteralsAssumption`) the strings that occur in `Setup` are strings, which the
prover does not know. In `Topology` the streams are numbers and a slug is in one
group only, without which violation 1 would break the rest. TLC evaluates all of
them.

| theorem | statement | module |
|---|---|---|
| `TypeCorrect` | `Spec => []TypeOK` | `Supervisor_proofs` |
| `TablesAlwaysAgree` | `Spec => []TablesAgree` | |
| `NeverEvicted` | `Spec => NoEviction` | |
| `Invariance` | `Spec => []IInv`, the inductive invariant | |
| `ResponseAlwaysFirst` | `Spec => []ResponseFirst` | |
| `ViewsAlwaysExact` | `Spec => []ViewsExact` | |
| `DirsAlwaysExact` | `Spec => []DirsExact`, given `OneGroupPerSlug` | |
| `RecordsAlwaysMatch` | `Spec => []RecordsInv` | |
| `ImplementsService` | `Spec => Abstract!Spec` | `Supervisor_refinement` |
| `TypeCorrect` | `Spec => []TypeOK` | `Topology_proofs` |
| `StaleSocketsAlwaysOfKilled` | `Spec => []StaleSocketsOfKilledOnly` | |
| `ReconnectionNeverRefused` | `Spec => ReconnectionNotRefused` | |
| `ListenersAlwaysMatchGroup` | `Spec => []ListenersMatchGroup` | |
| `TypeCorrect` | `Spec => []TypeOK` | `Exchange_proofs` |
| `ReferencesUnique` | `Spec => []RefIsUnique` | |
| `StatusAlwaysExclusive` | `Spec => []StatusExclusive` | |
| `AnsweredAlwaysResolved` | `Spec => []AnsweredIsResolved` | |
| `AcknowledgedStaysDone` | `Spec => []AcknowledgedIsDone` | |
| `CopiedAtMostOnce` | `Spec => []CopiedOnce` | |
| `TypeCorrect` | `Spec => []TypeOK` | `Session_proofs` |
| `NothingMisread` | `Spec => []DeliveredIsPrefix` | |
| `TypesCorrect` | `Spec => []TypeOK` | `Attachment_proofs` |
| `AttachedOnce` | `Spec => []CommittedOnce` | |
| `NotesCorrect` | `Spec => []NotesAreTrue` | |
| `NothingLeftOver` | `Spec => []LeftoversExplained` | |
| `AcknowledgedHasNote` | `Spec => []AcknowledgedIsNoted` | |
| `DerivedSlugsAgree` | server, client and shell agree on a plain URL | `Slug_proofs` |
| `TypesCorrect` | `Spec => []TypeOK` | `Setup_proofs` |
| `OneServerAlways` | `Spec => []OneServerPerRepo` | |
| `EnteringServes` | `Spec => []EnteredIsServed` | |
| `PinnedClientsMeet` | `Spec => []PinnedClientFindsServer` | |
| `DerivedClientsMeet` | `Spec => []DerivedClientFindsServer` | |

*Supervisor.* `TablesAgree` is not inductive. A second `Registered` event for the same stream
would put one stream under two ids, and an `Event::Departed` that names an id not
yet handed out could remove a future registration. `IInv` adds what excludes
these: `StreamsOwned` (a stream has one owner, and one that was handed over had
connected), `RegistrationsOwned` (a queued registration owns its stream and is
queued once) and `DeparturesDue` (a queued departure names an old id, and if that
id is still registered its server has closed). `DeparturesDue` is also why
`NoEviction` holds: an id is never used twice (`FreshId`), so a late departure
finds its own connection or none. There is one lemma per action; `QueueFacts`
describes the channel after a handler, `NotifiedFacts` the streams.

`ResponseFirst` needs `FramesInv` with it: nothing is written to a stream before its
registration is handled, and every record's stream begins with an `Ack`, so that a
notification never comes first. `ViewsExact` is inductive given `IInv` and `FramesInv`;
its proof turns on `BeliefAppend` (what one more frame does to what a reader
believes) and on `SentByAccept` and `SentByRemove` (which streams a handler writes
to). `DirsExact` counts the directories that failed removals left apart from those of
registered servers; `DirsInv` adds that every record's slug and group were sent by a
server, so that a slug free in one group has no record in another, and that a
supervisor that is down has nothing queued: else it would start with directories
owed to records that are gone. `ImplementsService` has one lemma per visible step:
`AcceptJoins`, `RemovalRemoves`, `CrashResets`, `CloseDies`; the rest stutter.

*Topology.* The supervisor inside `Topology` makes the steps of `Supervisor`, and
beside them only directories appear that servers make (`SupervisorStep`). So what is
proved in `Supervisor_proofs` is used here through an instance of that module, all
but `DirsExact`, which servers break; `DirOfLiveServer` is what remains of it.
`RecordsInv` is what the servers need of the supervisor in addition: each held
stream has a record of what was sent on it, and a watcher that has ended has left
its departure in the queue. `Owners` says which server uses which stream,
`Left` that the streams a server has given up are dropped by the supervisor too,
unless somebody stopped the server or its session failed: this gives
`ReconnectionNotRefused`. After a failed session the old stream may still have its
record; an `Ack` says that it has not (`OnceAcknowledged`, `LeftAfterAck`), so that the
exception lasts until then and no longer.
`Views` compares what a session has read with its listeners and files: it listens
only for whom it has heard of, and, while it is registered, for all of them with
their files in place, but for those whose departure it has still to read (`Due`).
In a settled state nothing is left to read, and with `ViewsExact` of the supervisor that is
`ListenersMatchGroup`.

*Exchange.* Whether an issue may be labelled depends on what a client or a server
looked up some steps before, so `IInv` relates the issues to every command on its
way. `Rows` explains the labels of each issue: a reference is the uuid the issue was
made for (`RefsExplained`), a received issue has one (`ReceivedHasRef`), and what
`xb-source` names has an issue to answer (`SourceExplained`). `Commands` says what a
client's command still relies on; `Servers`, that one request is in progress per
repository (`OneInProgress`) and that what was looked up in vain is still not there
(`NotThere`), which makes the check before `CreateIssue` sound and gives
`RefIsUnique`. `Submissions` gives `StatusExclusive`: the client writes the reference
after `xb-status:pending` (`NotYetReferred`), so an answer cannot find the issue, and
resolve it, before. Issues whose uuid was passed on or submitted twice are exempt
(`Exempt`) exactly as in the properties. There is one lemma per action, and
`Assemble` puts a step's effects on the five parts together; the answers turn on
`ClosedIsReferred` and `ResolvedIsExempt`. TLC checked `IInv` first, with two and
with three repositories.

The results are a second invariant, `RInv`, on top of `IInv`. `Effect` is what
every step does to them: lists only grow, new issues have none. What a client
took from its own issue is still at its beginning (`Sent`), what was acknowledged
is there (`Delivered`), and what the server has looked up is all that is missing
(`AllThere`), only that (`OnlyMissing`) and nothing more often than it was sent
(`NoMoreThanSent`). It stays so until it is written, because one request is in
progress per repository, and what users write meanwhile never looks like a copy
(`WrittenFacts`). `CopiesWritten` bounds the copies of a comment in an issue by the
comments it answers, which is `CopiedOnce`. The filter is written with
`Selected`, by positions, since `SelectSeq` of the standard module is recursive;
`Rank` numbers the positions, and counting lemmas compare lists through the
cardinality of the positions of a value.

*Session.* What the server has delivered must be compared with where it stands in
the stream. `InStep`: while the session is not lost, one notification was delivered
for every two pieces consumed; `Faithful`: no more than that, and the right ones.
A cancelled read breaks the pairing of pieces with what the server expects, not
`InStep`; the next piece is then a payload taken for a length, and `LengthsApart`
shows that `check_incoming_len` refuses the first four bytes of any payload and
accepts any true length.

*Attachment.* `CommittedOnce` needs to know why a request with a commit is never
materialized again: its issue is labelled (`CommitsLabelled`), and a labelled issue
is only replied to. `NotesAreTrue` needs `ResultMade`: what `materialize` is about to
return names a commit of this very request, with all its files.
`LeftoversExplained` needs `ForgottenFirst`, and `AcknowledgedIsNoted` needs that a
labelled issue with attachments has a note, an ongoing run or an entry in
`unnoted` or `cut`.

*Slug and Setup.* `DerivedSlugsAgree` compares the three parsers on strings of any
length, through lemmas about first and last occurrences of tokens. The invariants of
`Setup` say of every shell and every server which slug it holds as long as
remote and argument are unchanged (`ShellsPinned`, `StartedPinned`, `ByHandPinned`) and
that under `SharesRoot` both environments lead to one root (`SameRoot`); `Served`
gives a server to every shell that polls or has entered. For `OneServerPerRepo`, `Counted` adds the servers that
were started to those that a shell without the lock may yet start: together they
are at most one more than the lapses, and no more than the lapses while
the lock's holder still has to start its own, or nobody runs and nobody polls.
The property is about repositories whose remote and argument are unchanged, because no
bound by the number of changes holds: a change renames the lock, and every shell that looks
before a server can be seen may then start one.

Only model-checked: liveness and whatever needs fairness, which is out of the
prover's reach - `RegisterAnswered`, `DeathNoticed`, `Converges`, `RequestAnswered`,
`NotificationsArrive`, `SupervisorNotHeldUp`, and `Abstract!FairSpec`, of which the
safety part is `ImplementsService` - and the five properties that do not hold. Every
other property of a passing run is a theorem.

## Not modelled

- Argument parsing, logging, the wording of messages and comments, titles, bodies
  and priorities.
- The length of backoff delays. An attempt may come at any time in `Topology`.
- A `mkdir` in `ListenerSet::add` that fails, and a `bind` that fails though the
  directory is there, for want of space or permission, or because the path is too
  long: that peer would have no listener until it registers again.
- A wipe or a `bind` that fails when the supervisor starts: the process ends.
- A shell that is interrupted in `crossbridge_up`. Its lock is freed with it, and its
  server, if it had started one, is late for the next shell, as after a lapse.
- The length check when a message is encoded, and the encodings of messages other
  than notifications.
- In `crossbridge_up`, the checks for programs and for the database, which do nothing
  but refuse; of `module.nix`, all but the unit's environment.
- Attachments sent by the client: it has no option for them and always sends none
  (`main.rs:115`). The server's side is modelled.
- A client that connects and neither sends nor hangs up. It holds up its server, and
  through a full buffer the supervisor, for as long as it lives; the fairness of
  `Session` excludes it.
- The tests and the end-to-end virtual machine.
