------------------------------ MODULE Exchange ------------------------------
(***************************************************************************)
(* Submitting an issue to another repository and answering it: the client  *)
(* commands of crossbridge-client/src/main.rs and the request handlers of  *)
(* crossbridge-server/src/handler.rs, over the crosslink databases of the  *)
(* repositories.                                                           *)
(*                                                                         *)
(* The databases are external; of their interface the code uses rows that  *)
(* are created with the next id, labels as sets, comments as lists, and a  *)
(* transaction that is applied whole.  Every call between two of which a   *)
(* process may die, or another process may write, is a step of its own.    *)
(* A server handles one connection at a time.  Titles, bodies and priority *)
(* are left out; an issue remembers the request it was created for.        *)
(***************************************************************************)
EXTENDS Naturals, Sequences, FiniteSets, SequencesExt

CONSTANTS
    Repos,        \* repositories, by slug; each has a server
    Asker,        \* the repository that has an issue to submit
    Clients,      \* client processes
    Results,      \* contents of result comments
    MaxCommands,  \* bound on the commands that are run
    MaxFailures,  \* bound on deaths of clients, servers and connections
    MaxResults,   \* bound on the results that a user writes on an issue
    MaxIrregular, \* bound on the uuids that are resubmitted or passed on
    Nobody

ASSUME AskerAssumption == Asker \in Repos
ASSUME NobodyAssumption == Nobody \notin Repos
ASSUME BoundsAssumption ==
    /\ MaxCommands \in Nat
    /\ MaxFailures \in Nat
    /\ MaxResults \in Nat
    /\ MaxIrregular \in Nat

VARIABLES
    issues,    \* each repository's issues, by id
    command,   \* what each client process runs
    phase,     \* where it is: "idle", "waiting", "updating" or "dead"
    updates,   \* changes it has still to make to its own database
    stage,     \* how far the server has got with its request
    found,     \* the issue the server works on, 0 for none
    toCopy,    \* the comments it has found to be missing
    commands, failures,
    resubmitted, \* uuids that were submitted more than once
    passedOn     \* uuids whose inbound issue was submitted to somebody else

vars == <<issues, command, phase, updates, stage, found, toCopy, commands, failures,
          resubmitted, passedOn>>
history == <<resubmitted, passedOn>>

Uuid(r, i) == <<r, i>>
SourceLabel(r) == <<"xb-source", r>>
RefLabel(u) == <<"xb-ref", u>>
Inbound == <<"xb:inbound">>
Outbound == <<"xb:outbound">>
Status(s) == <<"xb-status", s>>
Close == <<"close">>                 \* among the updates, not a label
FromPeer(p, c) == <<p, c>>           \* "[from <peer>] <content>"
Written(c) == <<Nobody, c>>          \* a user's own, which does not begin so

NewIssue(u) == [for |-> u, labels |-> {}, closed |-> FALSE, results |-> <<>>]

(* The label of the right kind; which one, if there are several, is up to  *)
(* the order in which the database returns them.                           *)
SourcesOf(issue) == {r \in Repos : SourceLabel(r) \in issue.labels}
Uuids == UNION {{Uuid(r, i) : i \in DOMAIN issues[r]} : r \in Repos}
RefsOf(issue) == {u \in Uuids : RefLabel(u) \in issue.labels}
Related(issue) == RefsOf(issue) \cup {issue.for}

Init ==
    /\ issues = [r \in Repos |-> IF r = Asker THEN <<NewIssue(Uuid(r, 1))>> ELSE <<>>]
    /\ command = [k \in Clients |-> Nobody]
    /\ phase = [k \in Clients |-> "idle"]
    /\ updates = [k \in Clients |-> <<>>]
    /\ stage = [k \in Clients |-> "none"]
    /\ found = [k \in Clients |-> 0]
    /\ toCopy = [k \in Clients |-> <<>>]
    /\ commands = 0
    /\ failures = 0
    /\ resubmitted = {} /\ passedOn = {}

-----------------------------------------------------------------------------
(* The client: read the issue, connect, send, wait *)

Own(k) == command[k].at
OwnIssue(k) == issues[Own(k)][command[k].issue]

(* Has a client submitted it, or a server received it?                     *)
SubmittedBefore(u) ==
    \/ \E r \in Repos : \E i \in DOMAIN issues[r] : RefLabel(u) \in issues[r][i].labels
    \/ \E k \in Clients : /\ stage[k] # "none" \/ phase[k] # "idle"
                          /\ command[k].kind = "submit" /\ command[k].ref = u

Run(k, cmd) ==
    /\ phase[k] = "idle" /\ stage[k] = "none"
    /\ commands < MaxCommands
    /\ commands' = commands + 1
    /\ command' = [command EXCEPT ![k] = cmd]
    /\ phase' = [phase EXCEPT ![k] = "waiting"]
    /\ stage' = [stage EXCEPT ![k] = "queued"]
    /\ UNCHANGED <<issues, updates, found, toCopy, failures>>

(* All local labels go with the request, also those of an issue that came  *)
(* from another repository and is passed on.  Nobody has a socket to reach *)
(* itself.                                                                 *)
RunSubmit(k, r, i, t) ==
    /\ i \in DOMAIN issues[r] /\ t # r
    /\ resubmitted' = resubmitted \cup (IF SubmittedBefore(Uuid(r, i)) THEN {Uuid(r, i)} ELSE {})
    /\ passedOn' = passedOn \cup (Related(issues[r][i]) \ {Uuid(r, i)})
    /\ Cardinality(resubmitted' \cup passedOn') <= MaxIrregular
    /\ Run(k, [kind |-> "submit", at |-> r, issue |-> i, to |-> t,
               ref |-> Uuid(r, i), labels |-> issues[r][i].labels])

RunAnswer(k, r, i) ==
    /\ i \in DOMAIN issues[r]
    /\ Inbound \in issues[r][i].labels
    /\ UNCHANGED history
    /\ \E t \in SourcesOf(issues[r][i]) \ {r}, u \in RefsOf(issues[r][i]) :
         Run(k, [kind |-> "answer", at |-> r, issue |-> i, to |-> t, ref |-> u,
                 results |-> issues[r][i].results])

(* Mutant: the reference is written first. *)
SubmitUpdatesRefFirst(k) ==
    <<RefLabel(command[k].ref), Outbound, Status("pending")>>
SubmitUpdates(k) ==
    <<Outbound, Status("pending"), RefLabel(command[k].ref)>>
AnswerUpdates(k) == <<Status("answered"), Close>>

(* The handler's variables end with the request, the client's with its     *)
(* process. *)
EndRequest(k) ==
    /\ found' = [found EXCEPT ![k] = 0]
    /\ toCopy' = [toCopy EXCEPT ![k] = <<>>]
EndProcess(k) ==
    /\ phase' = [phase EXCEPT ![k] = "idle"]
    /\ command' = [command EXCEPT ![k] = Nobody]

ReadOk(k) ==
    /\ phase[k] = "waiting" /\ stage[k] = "ok"
    /\ EndRequest(k)
    /\ stage' = [stage EXCEPT ![k] = "none"]
    /\ phase' = [phase EXCEPT ![k] = "updating"]
    /\ updates' = [updates EXCEPT ![k] =
                     IF command[k].kind = "submit" THEN SubmitUpdates(k) ELSE AnswerUpdates(k)]
    /\ UNCHANGED <<issues, command, commands, failures, history>>

(* An Error response, or a connection that ended without one. *)
ReadError(k) ==
    /\ phase[k] \in {"waiting", "dead"}
    /\ stage[k] = "error" \/ (phase[k] = "dead" /\ stage[k] = "ok")
    /\ stage' = [stage EXCEPT ![k] = "none"]
    /\ EndRequest(k)
    /\ EndProcess(k)
    /\ UNCHANGED <<issues, updates, commands, failures, history>>

Updated(issue, change) ==
    IF change = Close THEN [issue EXCEPT !.closed = TRUE]
                      ELSE [issue EXCEPT !.labels = @ \cup {change}]

(* Each change to the client's own database is a write of its own. *)
UpdateOwnIssue(k) ==
    /\ phase[k] = "updating"
    /\ issues' = [issues EXCEPT ![Own(k)][command[k].issue] = Updated(@, Head(updates[k]))]
    /\ updates' = [updates EXCEPT ![k] = Tail(@)]
    /\ IF Len(updates[k]) = 1 THEN EndProcess(k) ELSE UNCHANGED <<phase, command>>
    /\ UNCHANGED <<stage, found, toCopy, commands, failures, history>>

(* The user interrupts the client; the server goes on with the request.    *)
ClientDies(k) ==
    /\ phase[k] \in {"waiting", "updating"}
    /\ failures < MaxFailures
    /\ failures' = failures + 1
    /\ IF stage[k] = "none" THEN EndProcess(k)
       ELSE phase' = [phase EXCEPT ![k] = "dead"] /\ UNCHANGED command
    /\ updates' = [updates EXCEPT ![k] = <<>>]
    /\ UNCHANGED <<issues, stage, found, toCopy, commands, history>>

-----------------------------------------------------------------------------
(* The server: one request at a time *)

InProgress == {"looked", "created", "applied"}
Serves(k) ==
    /\ stage[k] = "queued"
    /\ \A j \in Clients : stage[j] \in InProgress => command[j].to # command[k].to

Server(k) == command[k].to
FoundIssue(k) == issues[Server(k)][found[k]]

(* find_issue_with_label: an open issue, else a closed one. *)
WithRef(k, isClosed) ==
    {i \in DOMAIN issues[Server(k)] :
        /\ RefLabel(command[k].ref) \in issues[Server(k)][i].labels
        /\ issues[Server(k)][i].closed = isClosed}
(* Mutant: closed issues are not searched. *)
OpenMatches(k) == WithRef(k, FALSE)
Matches(k) == IF WithRef(k, FALSE) # {} THEN WithRef(k, FALSE) ELSE WithRef(k, TRUE)

SetStage(k, s) == stage' = [stage EXCEPT ![k] = s]
UpdateFound(k, issue) == issues' = [issues EXCEPT ![Server(k)][found[k]] = issue]

LookUpSubmit(k) ==
    /\ Serves(k) /\ command[k].kind = "submit"
    /\ SetStage(k, IF Matches(k) = {} THEN "looked" ELSE "ok")
    /\ UNCHANGED <<issues, command, phase, updates, found, toCopy, commands, failures, history>>

(* Mutant: the id is taken before the row is there. *)
LastId(r) == Len(issues[r])
NewId(r) == Len(issues[r]) + 1

CreateIssue(k) ==
    /\ stage[k] = "looked" /\ command[k].kind = "submit"
    /\ issues' = [issues EXCEPT ![Server(k)] = Append(@, NewIssue(command[k].ref))]
    /\ found' = [found EXCEPT ![k] = NewId(Server(k))]
    /\ SetStage(k, "created")
    /\ UNCHANGED <<command, phase, updates, toCopy, commands, failures, history>>

LabelIssue(k) ==
    /\ stage[k] = "created"
    /\ UpdateFound(k, [FoundIssue(k) EXCEPT !.labels = @ \cup command[k].labels \cup
           {Inbound, Status("open"), SourceLabel(command[k].at), RefLabel(command[k].ref)}])
    /\ SetStage(k, "ok")
    /\ UNCHANGED <<command, phase, updates, found, toCopy, commands, failures, history>>

(* Mutant: an answer to an unknown request is taken for a repeated one. *)
UnknownIsDone(k) == SetStage(k, "ok")
UnknownRequest(k) == SetStage(k, "error")

Copies(k) ==
    [i \in DOMAIN command[k].results |-> FromPeer(command[k].at, command[k].results[i])]

(* What a filter keeps of s: the elements at these positions, in order.    *)
Rank(i, positions) == Cardinality({j \in positions : j <= i})
Selected(s, positions) ==
    [n \in 1..Cardinality(positions) |-> s[CHOOSE i \in positions : Rank(i, positions) = n]]

(* Mutant: comments that were copied before are copied again. *)
AllComments(k, issue) == Copies(k)
MissingComments(k, issue) ==
    Selected(Copies(k), {i \in DOMAIN Copies(k) :
        \A n \in DOMAIN issue.results : issue.results[n] # Copies(k)[i]})

LookUpAnswer(k) ==
    /\ Serves(k) /\ command[k].kind = "answer"
    /\ \/ /\ Matches(k) = {}
          /\ UnknownRequest(k)
          /\ UNCHANGED <<found, toCopy>>
       \/ \E i \in Matches(k) :
            /\ found' = [found EXCEPT ![k] = i]
            /\ toCopy' = [toCopy EXCEPT ![k] = MissingComments(k, issues[Server(k)][i])]
            /\ SetStage(k, "looked")
    /\ UNCHANGED <<issues, command, phase, updates, commands, failures, history>>

(* The transaction: comments and labels together. *)
ApplyAnswer(k) ==
    /\ stage[k] = "looked" /\ command[k].kind = "answer"
    /\ UpdateFound(k, [FoundIssue(k) EXCEPT
           !.results = @ \o toCopy[k],
           !.labels = (@ \ {Status("pending")}) \cup {Status("resolved")}])
    /\ SetStage(k, "applied")
    /\ UNCHANGED <<command, phase, updates, found, toCopy, commands, failures, history>>

(* Mutant: the issue stays open. *)
LeaveOpen(k) ==
    /\ stage[k] = "applied"
    /\ SetStage(k, "ok")
    /\ UNCHANGED <<issues, command, phase, updates, found, toCopy, commands, failures, history>>

CloseAnswered(k) ==
    /\ stage[k] = "applied"
    /\ UpdateFound(k, [FoundIssue(k) EXCEPT !.closed = TRUE])
    /\ SetStage(k, "ok")
    /\ UNCHANGED <<command, phase, updates, found, toCopy, commands, failures, history>>

(* The server dies, a database call fails, or the response is lost. *)
RequestFails(k) ==
    /\ stage[k] \in {"queued", "looked", "created", "applied", "ok"}
    /\ failures < MaxFailures
    /\ failures' = failures + 1
    /\ SetStage(k, "error")
    /\ EndRequest(k)
    /\ UNCHANGED <<issues, command, phase, updates, commands, history>>

-----------------------------------------------------------------------------
(* A user of the answering repository writes a result on an inbound issue. *)
AddResult(r, i, c) ==
    /\ i \in DOMAIN issues[r] /\ Inbound \in issues[r][i].labels
    /\ Len(issues[r][i].results) < MaxResults
    /\ issues' = [issues EXCEPT ![r][i].results = Append(@, Written(c))]
    /\ UNCHANGED <<command, phase, updates, stage, found, toCopy, commands, failures, history>>

Next ==
    \/ \E k \in Clients :
          \/ \E r \in Repos : \E i \in DOMAIN issues[r] :
                \/ \E t \in Repos : RunSubmit(k, r, i, t)
                \/ RunAnswer(k, r, i)
          \/ ReadOk(k) \/ ReadError(k) \/ UpdateOwnIssue(k) \/ ClientDies(k)
          \/ LookUpSubmit(k) \/ CreateIssue(k) \/ LabelIssue(k)
          \/ LookUpAnswer(k) \/ ApplyAnswer(k) \/ CloseAnswered(k)
          \/ RequestFails(k)
    \/ \E r \in Repos : \E i \in DOMAIN issues[r], c \in Results : AddResult(r, i, c)

Spec == Init /\ [][Next]_vars

-----------------------------------------------------------------------------
(* Properties *)

Label ==
    {Inbound, Outbound} \cup {Status(s) : s \in {"pending", "open", "answered", "resolved"}}
      \cup {SourceLabel(r) : r \in Repos} \cup {RefLabel(u) : u \in Uuids}

(* Types, and: the server's issue exists, and a client that updates has    *)
(* something to update.                                                    *)
TypeOK ==
    /\ \A r \in Repos : \A i \in DOMAIN issues[r] :
         /\ issues[r][i].for \in Uuids
         /\ issues[r][i].labels \subseteq Label
         /\ issues[r][i].closed \in BOOLEAN
    /\ phase \in [Clients -> {"idle", "waiting", "updating", "dead"}]
    /\ stage \in [Clients -> {"none", "queued", "ok", "error"} \cup InProgress]
    /\ \A k \in Clients :
         /\ phase[k] = "updating" => updates[k] # <<>>
         /\ stage[k] \in {"created", "applied"} => found[k] \in DOMAIN issues[Server(k)]
    /\ commands \in 0..MaxCommands
    /\ failures \in 0..MaxFailures
    /\ resubmitted \subseteq Uuids /\ passedOn \subseteq Uuids

(* What a client is told is done, as long as it works on its own issue     *)
(* after: after Ok to a submission the target has an issue for it, and     *)
(* after Ok to an answer every result that was sent is in the asker's      *)
(* issue, resolved and closed, whatever died, was retried or ran at the    *)
(* same time.                                                              *)
AcknowledgedIsDone ==
    \A k \in Clients : phase[k] = "updating" =>
        \E i \in DOMAIN issues[Server(k)] :
            LET issue == issues[Server(k)][i] IN
            /\ RefLabel(command[k].ref) \in issue.labels
            /\ command[k].kind = "submit" =>
                 {Inbound, SourceLabel(command[k].at)} \subseteq issue.labels
            /\ command[k].kind = "answer" =>
                 /\ issue.closed
                 /\ Status("resolved") \in issue.labels
                 /\ \A j \in DOMAIN command[k].results :
                      \E n \in DOMAIN issue.results :
                        issue.results[n] = FromPeer(command[k].at, command[k].results[j])

(* An inbound issue marked answered has reached the asker: its source's    *)
(* issue is resolved and closed (.design/client.md:102-103), unless the    *)
(* issue was passed on and a lookup found the wrong one of two.            *)
AnsweredIsResolved ==
    \A r \in Repos : \A i \in DOMAIN issues[r] :
        Status("answered") \in issues[r][i].labels /\ Related(issues[r][i]) \cap passedOn = {} =>
          \E u \in RefsOf(issues[r][i]) :
            /\ Status("resolved") \in issues[u[1]][u[2]].labels
            /\ issues[u[1]][u[2]].closed

Times(issue, c) == Cardinality({n \in DOMAIN issue.results : issue.results[n] = c})

(* A result is copied into the asker's issue as often as its author wrote  *)
(* it or less, however often and by how many clients the answer is sent    *)
(* (.design/server.md:37).                                                 *)
CopiedOnce ==
    \A r, p \in Repos : \A i \in DOMAIN issues[r] :
        \A c \in UNION {ToSet(issues[p][j].results) : j \in DOMAIN issues[p]} :
          LET copies == Times(issues[r][i], FromPeer(p, c)) IN
          copies > 0 => \E j \in DOMAIN issues[p] :
                            /\ RefsOf(issues[p][j]) \cap RefsOf(issues[r][i]) # {}
                            /\ copies <= Times(issues[p][j], c)

(* The submitting client writes three labels one by one and the answer     *)
(* may arrive between any two: the issue never ends up pending and         *)
(* resolved at once, unless it was submitted again or passed on            *)
(* (crossbridge-client/src/main.rs:130, 112).                              *)
StatusExclusive ==
    \A r \in Repos : \A i \in DOMAIN issues[r] :
        Related(issues[r][i]) \cap (resubmitted \cup passedOn) = {}
          => ~({Status("pending"), Status("resolved")} \subseteq issues[r][i].labels)

(* At most one issue of a repository can be found by a request's uuid, so  *)
(* that lookups are not ambiguous, unless the label went out with another  *)
(* issue's submission.                                                     *)
RefIsUnique ==
    \A r \in Repos : \A i, j \in DOMAIN issues[r], u \in Uuids \ passedOn :
        RefLabel(u) \in issues[r][i].labels \cap issues[r][j].labels => i = j

(* .design/server.md:36: submitting again makes no second row. *)
OneRowPerRequest ==
    \A r \in Repos : \A i, j \in DOMAIN issues[r] :
        issues[r][i].for = issues[r][j].for => i = j
=============================================================================
