------------------------------ MODULE Attachment ------------------------------
(***************************************************************************)
(* A submission with attachments, from handle_submit of                    *)
(* crossbridge-server/src/handler.rs through materialize of                *)
(* crossbridge-server/src/attachment.rs: the files are written into a      *)
(* temporary jj workspace, committed, and named in a note on the issue;    *)
(* the workspace is forgotten and its directory removed.                   *)
(*                                                                         *)
(* Every command of materialize can fail, and the server can die between   *)
(* any two.  jj and crosslink are external.  A server handles one request  *)
(* at a time, so one materialization runs at a time.                       *)
(***************************************************************************)
EXTENDS Naturals, Sequences, FiniteSets

CONSTANTS
    Requests,     \* the submissions, by source_uuid
    Attached,     \* the filenames that each sends
    BadNames,     \* empty, or with a path separator
    MaxReceived,  \* bound on how often requests arrive, retries included
    MaxDeaths,
    Failed, NoRequest

ASSUME AttachedAssumption == \A u \in Requests : Attached[u] \in Seq(STRING)
ASSUME BoundsAssumption == MaxReceived \in Nat /\ MaxDeaths \in Nat
ASSUME FailedAssumption == Failed \notin Nat /\ NoRequest \notin Requests

VARIABLES
    issue,      \* "none", "row" (created) or "labelled", for each request
    notes,      \* the notes on its issue
    acked,      \* requests that were answered with Ok
    pc, request,\* where handle_submit is, and for which request
    workspace,  \* the unique name it has drawn last; 0 at first
    written,    \* how many files it has written
    result,     \* what materialize will return: a commit or Failed
    commits,    \* the commits: [id, request, files], the id being the
                \* workspace's, which has one commit
    registered, \* workspaces that jj knows of
    onDisk,     \* workspaces whose directory exists
    received, deaths,
    abandoned,  \* workspaces whose server died or whose cleanup failed
    unnoted,    \* requests whose note could not be written
    cut         \* requests whose server died between labels and note

vars == <<issue, notes, acked, pc, request, workspace, written, result, commits,
          registered, onDisk, received, deaths, abandoned, unnoted, cut>>
(* Groups of variables that most steps leave alone. *)
rowVars == <<issue, notes, acked, commits, unnoted, cut>>
boundVars == <<received, deaths>>
diskVars == <<registered, onDisk, abandoned>>
runVars == <<request, workspace, written, result>>

Init ==
    /\ issue = [u \in Requests |-> "none"]
    /\ notes = [u \in Requests |-> <<>>]
    /\ acked = {}
    /\ pc = "idle" /\ request = NoRequest
    /\ workspace = 0 /\ written = 0 /\ result = Failed
    /\ commits = {}
    /\ registered = {} /\ onDisk = {}
    /\ received = 0 /\ deaths = 0
    /\ abandoned = {} /\ unnoted = {} /\ cut = {}

-----------------------------------------------------------------------------
(* handle_submit, up to the attachments *)

Files == Attached[request]

(* Mutant: a submission is known by its note. *)
HasNote(u) == notes[u] # <<>>
IsKnown(u) == issue[u] = "labelled"

Receive(u) ==
    /\ pc = "idle" /\ received < MaxReceived
    /\ received' = received + 1
    /\ request' = u
    /\ pc' = IF IsKnown(u) THEN "reply" ELSE "create"
    /\ UNCHANGED <<rowVars, workspace, written, result, diskVars, deaths>>

CreateIssue ==
    /\ pc = "create"
    /\ issue' = [issue EXCEPT ![request] = "row"]
    /\ pc' = "label"
    /\ UNCHANGED <<notes, acked, commits, unnoted, cut, runVars, diskVars, boundVars>>

ApplyLabels ==
    /\ pc = "label"
    /\ issue' = [issue EXCEPT ![request] = "labelled"]
    /\ pc' = IF Files = <<>> THEN "reply" ELSE "prepare"
    /\ UNCHANGED <<notes, acked, commits, unnoted, cut, runVars, diskVars, boundVars>>

(* Creating or labelling the issue fails: an Error response. *)
SubmitFails ==
    /\ pc \in {"create", "label"}
    /\ pc' = "idle"
    /\ UNCHANGED <<rowVars, runVars, diskVars, boundVars>>

-----------------------------------------------------------------------------
(* materialize *)

(* The repository is one, .crossbridge-tmp is made, a name is drawn.       *)
(* Mutant: the loop goes on where an earlier request left it.              *)
GoOn == UNCHANGED written
StartFiles == written' = 0
Prepare ==
    /\ pc = "prepare"
    /\ pc' = "add"
    /\ workspace' = workspace + 1
    /\ StartFiles
    /\ UNCHANGED <<rowVars, request, result, diskVars, boundVars>>

(* Else it returns before there is anything to clean up.  Mutant: handle_  *)
(* submit passes the error on.                                             *)
ErrorReply == pc' = "reply"
NoteFailure == pc' = "note"
PrepareFails ==
    /\ pc = "prepare"
    /\ result' = Failed
    /\ NoteFailure
    /\ UNCHANGED <<rowVars, request, workspace, written, diskVars, boundVars>>

AddWorkspace ==
    /\ pc = "add"
    /\ registered' = registered \cup {workspace}
    /\ onDisk' = onDisk \cup {workspace}
    /\ pc' = "write"
    /\ UNCHANGED <<rowVars, runVars, abandoned, boundVars>>

WriteFile ==
    /\ pc = "write" /\ written < Len(Files)
    /\ Files[written + 1] \notin BadNames
    /\ written' = written + 1
    /\ UNCHANGED <<rowVars, pc, request, workspace, result, diskVars, boundVars>>

(* jj describe snapshots the files and makes the commit. *)
Describe ==
    /\ pc = "write" /\ written = Len(Files)
    /\ commits' = commits \cup {[id |-> workspace, request |-> request,
                                 files |-> {Files[i] : i \in 1..written}]}
    /\ pc' = "log"
    /\ UNCHANGED <<issue, notes, acked, unnoted, cut, runVars, diskVars, boundVars>>

ReadCommitId ==
    /\ pc = "log"
    /\ result' = workspace
    /\ pc' = "forget"
    /\ UNCHANGED <<rowVars, request, workspace, written, diskVars, boundVars>>

(* Mutant: an error returns at once. *)
ReturnEarly == pc' = "note"
CleanUp == pc' = "forget"

(* A command, a write or a filename check fails; a workspace that jj could *)
(* not add may be there in part.                                           *)
CommandFails ==
    /\ pc \in {"add", "write", "log"}
    /\ result' = Failed
    /\ CleanUp
    /\ \/ UNCHANGED <<registered, onDisk>>
       \/ /\ pc = "add"
          /\ onDisk' = onDisk \cup {workspace}
          /\ registered' \in {registered, registered \cup {workspace}}
    /\ UNCHANGED <<rowVars, request, workspace, written, abandoned, boundVars>>

(* The results of both cleanup commands are ignored. *)
ForgetWorkspace ==
    /\ pc = "forget"
    /\ pc' = "remove"
    /\ \/ registered' = registered \ {workspace} /\ UNCHANGED abandoned
       \/ abandoned' = abandoned \cup {workspace} /\ UNCHANGED registered
    /\ UNCHANGED <<rowVars, runVars, onDisk, boundVars>>

RemoveDir ==
    /\ pc = "remove"
    /\ pc' = "note"
    /\ \/ onDisk' = onDisk \ {workspace} /\ UNCHANGED abandoned
       \/ abandoned' = abandoned \cup {workspace} /\ UNCHANGED onDisk
    /\ UNCHANGED <<rowVars, runVars, registered, boundVars>>

-----------------------------------------------------------------------------
(* The note, the response, and death *)

(* format_comment, or the failure.  Mutant: a failed log is overlooked.    *)
AnyCommit == [commit |-> workspace, files |-> Files]
Note == [commit |-> result, files |-> Files]

(* A comment that cannot be added is logged. *)
AddNote ==
    /\ pc = "note"
    /\ pc' = "reply"
    /\ \/ notes' = [notes EXCEPT ![request] = Append(@, Note)] /\ UNCHANGED unnoted
       \/ unnoted' = unnoted \cup {request} /\ UNCHANGED notes
    /\ UNCHANGED <<issue, acked, commits, cut, runVars, diskVars, boundVars>>

Reply ==
    /\ pc = "reply"
    /\ acked' = acked \cup {request}
    /\ pc' = "idle"
    /\ UNCHANGED <<issue, notes, commits, unnoted, cut, runVars, diskVars, boundVars>>

Working == pc \in {"add", "write", "log", "forget", "remove"}

(* The process ends and starts again; the client may retry. *)
Die ==
    /\ pc # "idle" /\ deaths < MaxDeaths
    /\ deaths' = deaths + 1
    /\ pc' = "idle"
    /\ abandoned' = IF Working THEN abandoned \cup {workspace} ELSE abandoned
    /\ cut' = IF Working \/ pc \in {"prepare", "note"} THEN cut \cup {request} ELSE cut
    /\ UNCHANGED <<issue, notes, acked, commits, unnoted, runVars, registered, onDisk, received>>

-----------------------------------------------------------------------------
Next ==
    \/ \E u \in Requests : Receive(u)
    \/ CreateIssue \/ ApplyLabels \/ SubmitFails
    \/ Prepare \/ PrepareFails \/ AddWorkspace \/ WriteFile \/ Describe \/ ReadCommitId
    \/ CommandFails \/ ForgetWorkspace \/ RemoveDir
    \/ AddNote \/ Reply \/ Die

Spec == Init /\ [][Next]_vars

-----------------------------------------------------------------------------
(* Properties *)

FileSet(u) == {Attached[u][i] : i \in DOMAIN Attached[u]}

NoteRecord == [commit : Nat \cup {Failed}, files : Seq(STRING)]

(* Types, and: no more files are written than were sent, a request has an  *)
(* issue before it gets attachments.                                       *)
TypeOK ==
    /\ issue \in [Requests -> {"none", "row", "labelled"}]
    /\ notes \in [Requests -> Seq(NoteRecord)]
    /\ acked \subseteq Requests /\ unnoted \cup cut \subseteq Requests
    /\ pc \in {"idle", "create", "label", "prepare", "add", "write", "log", "forget",
               "remove", "note", "reply"}
    /\ pc # "idle" => request \in Requests
    /\ workspace \in Nat /\ written \in Nat
    /\ pc \in {"add", "write"} => written <= Len(Files)
    /\ pc \in {"prepare", "note"} \/ Working => issue[request] = "labelled"
    /\ result \in Nat \cup {Failed}
    /\ received \in 0..MaxReceived /\ deaths \in 0..MaxDeaths

(* A workspace or its directory outlives a request only if the server died *)
(* or a cleanup command itself failed: no other failure leaks one          *)
(* (attachment.rs:12-13, .design/server.md:39).                            *)
LeftoversExplained ==
    registered \cup onDisk \subseteq abandoned \cup (IF Working THEN {workspace} ELSE {})

(* A note that names a commit is right: the commit exists, was made for    *)
(* this issue's submission and holds every file that was sent.             *)
NotesAreTrue ==
    \A u \in Requests : \A n \in {notes[u][i] : i \in DOMAIN notes[u]} :
        n.commit # Failed =>
          [id |-> n.commit, request |-> u, files |-> FileSet(u)] \in commits

(* However often a submission is repeated, also after a death at any       *)
(* point, its attachments are committed once (handler.rs:82-84).           *)
CommittedOnce ==
    \A c, d \in commits : c.request = d.request => c = d

(* An Ok for attachments means that the issue says what became of them -   *)
(* a commit or a failure - wherever the server died, before the labels or  *)
(* after the note, and whatever else failed; the exceptions are a death    *)
(* between labels and note, and a note that cannot be written              *)
(* (handler.rs:133-147).                                                   *)
AcknowledgedIsNoted ==
    \A u \in acked \ (unnoted \cup cut) : Attached[u] # <<>> => notes[u] # <<>>
=============================================================================
