--------------------------- MODULE Exchange_proofs ---------------------------
(***************************************************************************)
(* Exchange, for any repositories, clients, commands, failures and passed  *)
(* on issues: lookups by reference are unambiguous, an issue is not both   *)
(* pending and resolved, an answered issue is resolved at its asker, what  *)
(* is acknowledged stays done, and no result is copied twice.              *)
(*                                                                         *)
(* IInv is about references, labels and who works on what; RInv, which is  *)
(* proved on top of it, about the lists of results.                        *)
(***************************************************************************)
EXTENDS Exchange, SequenceTheorems, FiniteSetTheorems, FunctionTheorems, TLAPS

-----------------------------------------------------------------------------
(* The inductive invariant *)

RowIds(r) == DOMAIN issues[r]
IsIssue(x) ==
    x \in [for : Uuids, labels : SUBSET Label, closed : BOOLEAN, results : {x.results}]
ByRepo == issues = [r \in Repos |-> issues[r]]
IsTable(r) == issues[r] \in Seq({issues[r][i] : i \in RowIds(r)})

Types ==
    /\ ByRepo
    /\ command = [k \in Clients |-> command[k]]
    /\ updates = [k \in Clients |-> updates[k]]
    /\ found = [k \in Clients |-> found[k]]
    /\ \A r \in Repos : IsTable(r) /\ \A i \in RowIds(r) : IsIssue(issues[r][i])

(* Some issue carries the reference; an issue whose uuid or reference was  *)
(* passed on; and one of which less is promised on either ground.          *)
Known(u) == \E r \in Repos : \E i \in RowIds(r) : RefLabel(u) \in issues[r][i].labels
Refs(r, i) == RefsOf(issues[r][i])
Passed(r, i) == Related(issues[r][i]) \cap passedOn # {}
Exempt(r, i) == Related(issues[r][i]) \cap (resubmitted \cup passedOn) # {}

(* Labels that only an issue from another repository has; labels that tell *)
(* that an issue was submitted.                                            *)
IsReceived(labels) ==
    Inbound \in labels \/ Status("answered") \in labels \/ \E r \in Repos : SourceLabel(r) \in labels
HasStatus(labels) == Status("pending") \in labels \/ Status("resolved") \in labels

(* What holds of every issue. *)
RefsExplained(r, i) ==
    \A u \in Refs(r, i) : u = issues[r][i].for \/ u \in passedOn \/ issues[r][i].for \in passedOn
ReceivedHasRef(r, i) ==
    IsReceived(issues[r][i].labels) =>
        RefLabel(issues[r][i].for) \in issues[r][i].labels /\ issues[r][i].for # Uuid(r, i)
SourceExplained(r, i) ==
    \A s \in Repos : SourceLabel(s) \in issues[r][i].labels => s = issues[r][i].for[1] \/ Passed(r, i)
OwnRef(r, i) == \A u \in Refs(r, i) : u[1] = r => u[2] = i \/ u \in passedOn
StatusExplained(r, i) ==
    HasStatus(issues[r][i].labels) => Known(Uuid(r, i)) \/ Refs(r, i) \ {Uuid(r, i)} # {}

RowOK(r, i) ==
    /\ RefsExplained(r, i) /\ ReceivedHasRef(r, i) /\ SourceExplained(r, i)
    /\ OwnRef(r, i) /\ StatusExplained(r, i)

(* What holds of a command while it is run. *)
Submits(k) == phase[k] # "idle" /\ command[k].kind = "submit"
Answers(k) == phase[k] # "idle" /\ command[k].kind = "answer"
Id(k) == command[k].issue
PassedLabel(labels) == \E v \in passedOn : RefLabel(v) \in labels

WellFormed(k) ==
    phase[k] # "idle" =>
        /\ command[k].kind \in {"submit", "answer"}
        /\ Own(k) \in Repos /\ Server(k) \in Repos /\ Own(k) # Server(k)
        /\ Id(k) \in RowIds(Own(k)) /\ command[k].ref \in Uuids
InStep(k) == stage[k] = "none" <=> phase[k] \in {"idle", "updating"}
SubmissionOK(k) ==
    Submits(k) =>
        /\ command[k].ref = Uuid(Own(k), Id(k))
        /\ OwnIssue(k).for = command[k].ref \/ OwnIssue(k).for \in passedOn
        /\ command[k].labels \subseteq Label
        /\ \A u \in Uuids : RefLabel(u) \in command[k].labels => u = command[k].ref \/ u \in passedOn
        /\ IsReceived(command[k].labels) => PassedLabel(command[k].labels)
        /\ HasStatus(command[k].labels) =>
             command[k].ref \in resubmitted \/ PassedLabel(command[k].labels)
AnswerOK(k) ==
    Answers(k) => /\ RefLabel(command[k].ref) \in OwnIssue(k).labels
                  /\ SourceLabel(Server(k)) \in OwnIssue(k).labels

(* How far it has got. *)
IsDone(u) ==
    Status("resolved") \in issues[u[1]][u[2]].labels /\ issues[u[1]][u[2]].closed
SubmitProgress(k) ==
    Submits(k) =>
        /\ phase[k] = "updating" \/ stage[k] = "ok" => Known(command[k].ref)
        /\ phase[k] = "updating" =>
             updates[k] \in {SubmitUpdates(k), Tail(SubmitUpdates(k)), Tail(Tail(SubmitUpdates(k)))}
AnswerProgress(k) ==
    Answers(k) =>
        /\ phase[k] = "updating" => updates[k] \in {AnswerUpdates(k), Tail(AnswerUpdates(k))}
        /\ phase[k] = "updating" \/ stage[k] = "ok" =>
             Passed(Own(k), Id(k)) \/ IsDone(command[k].ref)

(* How far the server is with it. *)
FoundOK(k) ==
    /\ stage[k] = "created" =>
         command[k].kind = "submit" /\ found[k] \in RowIds(Server(k))
           /\ FoundIssue(k).for = command[k].ref
    /\ stage[k] = "applied" =>
         command[k].kind = "answer" /\ Status("resolved") \in FoundIssue(k).labels
    /\ stage[k] \in {"looked", "applied"} /\ command[k].kind = "answer" =>
         found[k] \in RowIds(Server(k)) /\ RefLabel(command[k].ref) \in FoundIssue(k).labels

Static(k) == WellFormed(k) /\ SubmissionOK(k) /\ AnswerOK(k)
Progress(k) == InStep(k) /\ SubmitProgress(k) /\ AnswerProgress(k) /\ FoundOK(k)

(* A server works on one request at a time, and a reference that it has    *)
(* looked up in vain is still not there.                                   *)
OneInProgress ==
    \A j, k \in Clients :
        stage[j] \in InProgress /\ stage[k] \in InProgress /\ Server(j) = Server(k) => j = k
NotThere(k) ==
    stage[k] \in {"looked", "created"} /\ command[k].kind = "submit" =>
        \A i \in RowIds(Server(k)) : RefLabel(command[k].ref) \notin issues[Server(k)][i].labels

(* A submission that has not yet written "pending" meets no "resolved",    *)
(* since the reference by which an answer finds the issue comes after it.  *)
PendingAhead(k) ==
    Submits(k) /\ (phase[k] = "updating" => updates[k] # Tail(Tail(SubmitUpdates(k))))
NotYetResolved(k) ==
    PendingAhead(k) => Status("resolved") \notin OwnIssue(k).labels \/ Exempt(Own(k), Id(k))
NotYetReferred(k) ==
    Submits(k) /\ RefLabel(command[k].ref) \in OwnIssue(k).labels =>
        command[k].ref \in resubmitted \cup passedOn
SubmittedOnce ==
    \A j, k \in Clients :
        Submits(j) /\ Submits(k) /\ command[j].ref = command[k].ref /\ j # k =>
            command[k].ref \in resubmitted

Rows == \A r \in Repos : \A i \in RowIds(r) : RowOK(r, i)
Commands == \A k \in Clients : Static(k) /\ Progress(k)
Servers == OneInProgress /\ \A k \in Clients : NotThere(k)
Submissions == SubmittedOnce /\ \A k \in Clients : NotYetResolved(k) /\ NotYetReferred(k)

IInv ==
    /\ TypeOK /\ Types
    /\ Rows /\ Commands /\ Servers /\ Submissions
    /\ RefIsUnique /\ StatusExclusive /\ AnsweredIsResolved

-----------------------------------------------------------------------------
(* Labels and rows *)

LEMMA RefLabelFacts ==
    /\ \A u, v : RefLabel(u) = RefLabel(v) => u = v
    /\ \A u : RefLabel(u) # Inbound /\ RefLabel(u) # Outbound /\ RefLabel(u) # Close
    /\ \A u : \A s \in {"pending", "open", "answered", "resolved"} : RefLabel(u) # Status(s)
    /\ \A u, r : RefLabel(u) # SourceLabel(r)
  BY DEF RefLabel, Inbound, Outbound, Close, Status, SourceLabel

LEMMA OtherLabelFacts ==
    /\ \A r, s : SourceLabel(r) = SourceLabel(s) => r = s
    /\ \A r : SourceLabel(r) # Inbound /\ SourceLabel(r) # Outbound /\ SourceLabel(r) # Close
    /\ \A r : \A s \in {"pending", "open", "answered", "resolved"} : SourceLabel(r) # Status(s)
    /\ \A s \in {"pending", "open", "answered", "resolved"} :
          Status(s) # Inbound /\ Status(s) # Outbound /\ Status(s) # Close
    /\ Inbound # Outbound /\ Inbound # Close /\ Outbound # Close
    /\ Status("pending") # Status("resolved") /\ Status("pending") # Status("answered")
    /\ Status("pending") # Status("open") /\ Status("resolved") # Status("answered")
    /\ Status("resolved") # Status("open") /\ Status("answered") # Status("open")
  BY DEF Inbound, Outbound, Close, Status, SourceLabel

LEMMA LabelFacts ==
    /\ \A u : RefLabel(u) \in Label <=> u \in Uuids
    /\ \A r \in Repos : SourceLabel(r) \in Label
    /\ Inbound \in Label /\ Outbound \in Label /\ Close \notin Label
    /\ \A s \in {"pending", "open", "answered", "resolved"} : Status(s) \in Label
  BY RefLabelFacts, OtherLabelFacts DEF Label

LEMMA UuidFacts ==
    /\ \A r \in Repos : \A i \in RowIds(r) : Uuid(r, i) \in Uuids
    /\ \A u \in Uuids : /\ u[1] \in Repos /\ u[2] \in RowIds(u[1])
                        /\ u = Uuid(u[1], u[2])
    /\ \A r, i, p, j : Uuid(r, i) = Uuid(p, j) => r = p /\ i = j
    /\ \A r, i : Uuid(r, i)[1] = r /\ Uuid(r, i)[2] = i
  BY DEF Uuids, Uuid, RowIds

LEMMA SeqWiden ==
    ASSUME NEW S, NEW s \in Seq(S), NEW y
    PROVE  s \in Seq(S \cup {y})
<1>1. S \subseteq S \cup {y}
  OBVIOUS
<1>. QED  BY <1>1, SeqMonotonic

LEMMA SeqOfOwn ==
    ASSUME NEW S, NEW s \in Seq(S)
    PROVE  s \in Seq({s[j] : j \in DOMAIN s})
<1>1. Len(s) \in Nat /\ DOMAIN s = 1..Len(s) /\ s = [j \in DOMAIN s |-> s[j]]
  BY LenProperties
<1>2. s \in [1..Len(s) -> {s[j] : j \in DOMAIN s}]
  BY <1>1
<1>. QED  BY <1>1, <1>2, SeqDef

(* What a sequence's rows are after one is replaced, and after one is      *)
(* appended.                                                               *)
LEMMA RowChanged ==
    ASSUME Types, NEW r \in Repos, NEW i \in RowIds(r), NEW y,
           issues' = [issues EXCEPT ![r][i] = y]
    PROVE  /\ ByRepo'
           /\ \A p \in Repos : /\ RowIds(p)' = RowIds(p)
                               /\ IsTable(p)'
           /\ issues'[r][i] = y
           /\ \A p \in Repos : \A j \in RowIds(p) :
                 p # r \/ j # i => issues'[p][j] = issues[p][j]
<1> DEFINE S(p) == {issues[p][j] : j \in RowIds(p)}
           T(p) == {issues'[p][j] : j \in RowIds(p)'}
<1>1. issues = [p \in Repos |-> issues[p]] /\ \A p \in Repos : issues[p] \in Seq(S(p))
  BY DEF Types, ByRepo, IsTable
<1>2. \A p \in Repos : p # r => issues'[p] = issues[p]
  BY <1>1
<1>3. issues'[r] = [issues[r] EXCEPT ![i] = y]
  BY <1>1
<1>4. ByRepo'
  BY <1>1 DEF ByRepo
<1>5. \A p \in Repos : DOMAIN issues[p] = 1..Len(issues[p]) /\ Len(issues[p]) \in Nat
  BY <1>1, LenProperties
<1>6. /\ RowIds(r)' = RowIds(r) /\ issues'[r][i] = y
      /\ \A j \in RowIds(r) : j # i => issues'[r][j] = issues[r][j]
  BY <1>3 DEF RowIds
<1>7. issues'[r] \in Seq(T(r))
  <2>1. issues[r] \in Seq(S(r) \cup {y})
    <3> HIDE DEF S
    <3>. QED  BY <1>1, SeqWiden
  <2>2. issues'[r] \in Seq(S(r) \cup {y})
    BY <2>1, <1>3, <1>5, ExceptSeq DEF RowIds
  <2>. QED  BY <2>2, SeqOfOwn DEF RowIds
<1>8. ASSUME NEW p \in Repos, p # r
      PROVE  issues'[p] \in Seq(T(p))
  <2>1. issues[p] \in Seq(S(p))
    BY <1>1
  <2>. QED  BY <1>2, <1>8, <2>1, SeqOfOwn DEF RowIds
<1>9. \A p \in Repos : IsTable(p)'
  BY <1>7, <1>8 DEF IsTable
<1>. QED  BY <1>2, <1>4, <1>6, <1>9 DEF RowIds

LEMMA RowAppended ==
    ASSUME Types, NEW r \in Repos, NEW y,
           issues' = [issues EXCEPT ![r] = Append(@, y)]
    PROVE  /\ ByRepo'
           /\ \A p \in Repos : /\ RowIds(p) \subseteq RowIds(p)'
                               /\ IsTable(p)'
                               /\ p # r => RowIds(p)' = RowIds(p)
           /\ RowIds(r)' = RowIds(r) \cup {Len(issues[r]) + 1}
           /\ Len(issues[r]) + 1 \notin RowIds(r)
           /\ issues'[r][Len(issues[r]) + 1] = y
           /\ \A p \in Repos : \A j \in RowIds(p) : issues'[p][j] = issues[p][j]
<1> DEFINE S(p) == {issues[p][j] : j \in RowIds(p)}
           T(p) == {issues'[p][j] : j \in RowIds(p)'}
           n == Len(issues[r]) + 1
<1>1. issues = [p \in Repos |-> issues[p]] /\ \A p \in Repos : issues[p] \in Seq(S(p))
  BY DEF Types, ByRepo, IsTable
<1>2. \A p \in Repos : p # r => issues'[p] = issues[p]
  BY <1>1
<1>3. issues'[r] = Append(issues[r], y)
  BY <1>1
<1>4. ByRepo'
  BY <1>1 DEF ByRepo
<1>5. DOMAIN issues[r] = 1..Len(issues[r]) /\ Len(issues[r]) \in Nat
  BY <1>1, LenProperties
<1>6. issues[r] \in Seq(S(r) \cup {y})
  <2> HIDE DEF S
  <2>. QED  BY <1>1, SeqWiden
<1>7. /\ issues'[r] \in Seq(S(r) \cup {y}) /\ Len(issues'[r]) = n
      /\ \A j \in 1..Len(issues[r]) : issues'[r][j] = issues[r][j]
      /\ issues'[r][n] = y
  BY <1>3, <1>6, AppendProperties
<1>8. RowIds(r)' = RowIds(r) \cup {n} /\ n \notin RowIds(r)
  <2>1. DOMAIN issues'[r] = 1..n
    BY <1>7, LenProperties
  <2>. QED  BY <1>5, <2>1 DEF RowIds
<1>9. issues'[r] \in Seq(T(r))
  BY <1>7, SeqOfOwn DEF RowIds
<1>10. ASSUME NEW p \in Repos, p # r
       PROVE  issues'[p] \in Seq(T(p))
  <2>1. issues[p] \in Seq(S(p))
    BY <1>1
  <2>. QED  BY <1>2, <1>10, <2>1, SeqOfOwn DEF RowIds
<1>11. \A p \in Repos : p # r => RowIds(p)' = RowIds(p)
  BY <1>2 DEF RowIds
<1>12. \A p \in Repos : \A j \in RowIds(p) : issues'[p][j] = issues[p][j]
  BY <1>2, <1>5, <1>7 DEF RowIds
<1>13. \A p \in Repos : IsTable(p)' /\ RowIds(p) \subseteq RowIds(p)'
  BY <1>8, <1>9, <1>10, <1>11 DEF IsTable
<1> HIDE DEF S
<1>. QED  BY <1>4, <1>7, <1>8, <1>11, <1>12, <1>13

-----------------------------------------------------------------------------
(* What any step does to the rows: it adds rows, and labels but "pending"  *)
(* stay, as does what is closed.                                           *)
Grows ==
    /\ \A r \in Repos : RowIds(r) \subseteq RowIds(r)'
    /\ \A r \in Repos : \A i \in RowIds(r) :
          /\ issues'[r][i].for = issues[r][i].for
          /\ \A l \in issues[r][i].labels : l # Status("pending") => l \in issues'[r][i].labels
          /\ issues[r][i].closed => issues'[r][i].closed
    /\ passedOn \subseteq passedOn' /\ resubmitted \subseteq resubmitted'

LEMMA NamesGrow ==
    ASSUME Grows
    PROVE  Uuids \subseteq Uuids' /\ Label \subseteq Label'
<1>1. Uuids \subseteq Uuids'
  BY DEF Grows, Uuids, RowIds, Uuid
<1>2. Label \subseteq Label'
  BY <1>1 DEF Label
<1>. QED  BY <1>1, <1>2

(* What issues say remains so. *)
LEMMA FactsGrow ==
    ASSUME Grows
    PROVE  /\ \A r \in Repos : \A i \in RowIds(r) :
                 /\ \A u : RefLabel(u) \in issues[r][i].labels => RefLabel(u) \in issues'[r][i].labels
                 /\ Refs(r, i) \subseteq Refs(r, i)'
                 /\ Related(issues[r][i]) \subseteq Related(issues[r][i])'
                 /\ Passed(r, i) => Passed(r, i)'
                 /\ Exempt(r, i) => Exempt(r, i)'
           /\ \A u : Known(u) => Known(u)'
           /\ \A u \in Uuids : IsDone(u) => IsDone(u)'
<1>1. ASSUME NEW r \in Repos, NEW i \in RowIds(r)
      PROVE  /\ \A u : RefLabel(u) \in issues[r][i].labels => RefLabel(u) \in issues'[r][i].labels
             /\ Refs(r, i) \subseteq Refs(r, i)'
             /\ Related(issues[r][i]) \subseteq Related(issues[r][i])'
             /\ Passed(r, i) => Passed(r, i)'
             /\ Exempt(r, i) => Exempt(r, i)'
  <2>1. \A u : RefLabel(u) \in issues[r][i].labels => RefLabel(u) \in issues'[r][i].labels
    BY RefLabelFacts DEF Grows
  <2>2. Refs(r, i) \subseteq Refs(r, i)'
    BY <2>1, NamesGrow DEF Refs, RefsOf
  <2>3. Related(issues[r][i]) \subseteq Related(issues[r][i])'
    BY <2>2 DEF Related, Refs, Grows
  <2>4. passedOn \subseteq passedOn' /\ resubmitted \subseteq resubmitted'
    BY DEF Grows
  <2>. QED  BY <2>1, <2>2, <2>3, <2>4 DEF Passed, Exempt
<1>2. \A u : Known(u) => Known(u)'
  BY <1>1 DEF Known, Grows
<1>3. \A u \in Uuids : IsDone(u) => IsDone(u)'
  BY UuidFacts, OtherLabelFacts DEF IsDone, Grows
<1>. QED  BY <1>1, <1>2, <1>3

(* The references of a row are its labels that name one. *)
LabelledRefs ==
    \A r \in Repos : \A i \in RowIds(r) :
        /\ issues[r][i].labels \subseteq Label
        /\ issues[r][i].for \in Uuids
        /\ \A u : RefLabel(u) \in issues[r][i].labels <=> u \in Refs(r, i)
        /\ Related(issues[r][i]) = Refs(r, i) \cup {issues[r][i].for}
        /\ Refs(r, i) \subseteq Uuids

LEMMA RefsAreLabels == Types => LabelledRefs
<1> SUFFICES ASSUME Types, NEW r \in Repos, NEW i \in RowIds(r)
             PROVE  /\ issues[r][i].labels \subseteq Label
                    /\ issues[r][i].for \in Uuids
                    /\ \A u : RefLabel(u) \in issues[r][i].labels <=> u \in Refs(r, i)
                    /\ Related(issues[r][i]) = Refs(r, i) \cup {issues[r][i].for}
                    /\ Refs(r, i) \subseteq Uuids
  BY DEF LabelledRefs
<1>1. issues[r][i].labels \subseteq Label /\ issues[r][i].for \in Uuids
  BY DEF Types, IsIssue
<1>2. \A u : RefLabel(u) \in issues[r][i].labels => u \in Uuids
  BY <1>1, LabelFacts
<1>. QED  BY <1>1, <1>2 DEF Refs, RefsOf, Related

LEMMA RefsAreLabelsNext == Types' => LabelledRefs'
  BY RefsAreLabels, PTL

(* The properties, row by row. *)
StatusOK(r, i) ==
    {Status("pending"), Status("resolved")} \subseteq issues[r][i].labels => Exempt(r, i)
AnsweredOK(r, i) ==
    Status("answered") \in issues[r][i].labels /\ ~Passed(r, i) => \E u \in Refs(r, i) : IsDone(u)

LEMMA RowByRow ==
    /\ StatusExclusive <=> \A r \in Repos : \A i \in RowIds(r) : StatusOK(r, i)
    /\ AnsweredIsResolved <=> \A r \in Repos : \A i \in RowIds(r) : AnsweredOK(r, i)
<1>1. StatusExclusive <=> \A r \in Repos : \A i \in RowIds(r) : StatusOK(r, i)
  BY DEF StatusExclusive, StatusOK, Exempt, RowIds
<1>2. AnsweredIsResolved <=> \A r \in Repos : \A i \in RowIds(r) : AnsweredOK(r, i)
  BY DEF AnsweredIsResolved, AnsweredOK, Passed, Refs, IsDone, RowIds
<1>. QED  BY <1>1, <1>2

(* A row that gets no reference and no source stays in order, if there is  *)
(* a reason for a status that it gets.                                     *)
LEMMA RowRelabelled ==
    ASSUME IInv, Grows, Types', NEW r \in Repos, NEW i \in RowIds(r),
           issues'[r][i].labels \subseteq issues[r][i].labels
              \cup {Outbound, Status("pending"), Status("answered"), Status("resolved")},
           IsReceived(issues'[r][i].labels) => IsReceived(issues[r][i].labels),
           HasStatus(issues'[r][i].labels) =>
              \/ HasStatus(issues[r][i].labels)
              \/ Known(Uuid(r, i)) \/ Refs(r, i) \ {Uuid(r, i)} # {}
    PROVE  RowOK(r, i)' /\ Refs(r, i)' = Refs(r, i)
<1>1. RowOK(r, i) /\ Types
  BY DEF IInv, Rows
<1>2. /\ Refs(r, i)' = Refs(r, i) /\ i \in RowIds(r)'
      /\ issues'[r][i].for = issues[r][i].for /\ passedOn \subseteq passedOn'
  <2>1. i \in RowIds(r)'
    BY DEF Grows
  <2>2. \A u : RefLabel(u) \in issues'[r][i].labels <=> u \in Refs(r, i)'
    BY <2>1, RefsAreLabelsNext DEF LabelledRefs
  <2>3. \A u : RefLabel(u) \in issues[r][i].labels <=> u \in Refs(r, i)
    BY <1>1, RefsAreLabels DEF LabelledRefs
  <2>4. Refs(r, i) \subseteq Refs(r, i)'
    BY FactsGrow
  <2>5. \A u : RefLabel(u) \in issues'[r][i].labels => RefLabel(u) \in issues[r][i].labels
    BY RefLabelFacts
  <2>. QED  BY <2>1, <2>2, <2>3, <2>4, <2>5 DEF Grows
<1>3. /\ \A u : Known(u) => Known(u)'
      /\ Passed(r, i) => Passed(r, i)'
      /\ \A u : RefLabel(u) \in issues[r][i].labels => RefLabel(u) \in issues'[r][i].labels
  BY FactsGrow
<1>4. \A p \in Repos : SourceLabel(p) \in issues'[r][i].labels => SourceLabel(p) \in issues[r][i].labels
  BY OtherLabelFacts
<1>5. RefsExplained(r, i)'
  BY <1>1, <1>2 DEF RowOK, RefsExplained
<1>6. ReceivedHasRef(r, i)'
  BY <1>1, <1>2, <1>3 DEF RowOK, ReceivedHasRef
<1>7. SourceExplained(r, i)'
  BY <1>1, <1>2, <1>3, <1>4 DEF RowOK, SourceExplained
<1>8. OwnRef(r, i)'
  BY <1>1, <1>2 DEF RowOK, OwnRef
<1>9. StatusExplained(r, i)'
  BY <1>1, <1>2, <1>3 DEF RowOK, StatusExplained
<1>. QED  BY <1>2, <1>5, <1>6, <1>7, <1>8, <1>9 DEF RowOK

LEMMA RowKept ==
    ASSUME IInv, Grows, Types', NEW r \in Repos, NEW i \in RowIds(r),
           issues'[r][i].labels \subseteq issues[r][i].labels \cup {Outbound}
    PROVE  RowOK(r, i)' /\ StatusOK(r, i)' /\ AnsweredOK(r, i)'
<1>1. StatusOK(r, i) /\ AnsweredOK(r, i)
  BY RowByRow DEF IInv
<1>2. /\ \A p \in {"pending", "answered", "resolved"} :
            Status(p) \in issues'[r][i].labels => Status(p) \in issues[r][i].labels
      /\ IsReceived(issues'[r][i].labels) => IsReceived(issues[r][i].labels)
      /\ HasStatus(issues'[r][i].labels) => HasStatus(issues[r][i].labels)
  BY OtherLabelFacts DEF IsReceived, HasStatus
<1>3. RowOK(r, i)' /\ Refs(r, i)' = Refs(r, i)
  <2>1. issues'[r][i].labels \subseteq issues[r][i].labels
              \cup {Outbound, Status("pending"), Status("answered"), Status("resolved")}
    OBVIOUS
  <2>. QED  BY <1>2, <2>1, RowRelabelled
<1>4. /\ \A u \in Uuids : IsDone(u) => IsDone(u)'
      /\ Passed(r, i) => Passed(r, i)'
      /\ Exempt(r, i) => Exempt(r, i)'
  BY FactsGrow
<1>5. StatusOK(r, i)'
  BY <1>1, <1>2, <1>4 DEF StatusOK
<1>6. AnsweredOK(r, i)'
  <2>1. Refs(r, i) \subseteq Uuids
    BY DEF Refs, RefsOf
  <2>. QED  BY <1>1, <1>2, <1>3, <1>4, <2>1 DEF AnsweredOK
<1>. QED  BY <1>3, <1>5, <1>6

-----------------------------------------------------------------------------
(* Commands that do not move stay in order while issues grow. *)
LEMMA StaticKept ==
    ASSUME IInv, Grows, NEW j \in Clients,
           command'[j] = command[j], phase'[j] # "idle" => phase[j] # "idle"
    PROVE  Static(j)'
<1>1. Static(j) /\ Types
  BY DEF IInv, Commands
<1>2. CASE phase'[j] = "idle"
  BY <1>2 DEF Static, WellFormed, SubmissionOK, AnswerOK, Submits, Answers
<1>3. CASE phase'[j] # "idle"
  <2>1. PICK c : c = command[j]
    OBVIOUS
  <2> DEFINE r == c.at  i == c.issue  t == c.to
  <2>2. command[j] = c /\ command'[j] = c /\ phase[j] # "idle"
    BY <1>3, <2>1
  <2>3. /\ c.kind \in {"submit", "answer"} /\ r \in Repos /\ t \in Repos /\ r # t
        /\ i \in RowIds(r) /\ c.ref \in Uuids
    BY <1>1, <2>2 DEF Static, WellFormed, Own, Server, Id
  <2>4. /\ i \in RowIds(r)'
        /\ issues'[r][i].for = issues[r][i].for
        /\ passedOn \subseteq passedOn' /\ resubmitted \subseteq resubmitted'
        /\ Uuids \subseteq Uuids' /\ Label \subseteq Label'
        /\ \A l \in issues[r][i].labels : l # Status("pending") => l \in issues'[r][i].labels
    BY <2>3, NamesGrow DEF Grows
  <2>5. WellFormed(j)'
    BY <2>2, <2>3, <2>4 DEF WellFormed, Own, Server, Id
  <2>6. ASSUME c.kind = "submit"
        PROVE  SubmissionOK(j)'
    <3>1. Submits(j)
      BY <2>2, <2>6 DEF Submits
    <3>2. /\ c.ref = Uuid(r, i)
          /\ (issues[r][i].for = c.ref \/ issues[r][i].for \in passedOn)
          /\ c.labels \subseteq Label
          /\ \A u \in Uuids : RefLabel(u) \in c.labels => u = c.ref \/ u \in passedOn
          /\ IsReceived(c.labels) => PassedLabel(c.labels)
          /\ HasStatus(c.labels) => c.ref \in resubmitted \/ PassedLabel(c.labels)
      BY <1>1, <2>2, <3>1 DEF Static, SubmissionOK, OwnIssue, Own, Id
    <3>3. PassedLabel(c.labels) => PassedLabel(c.labels)'
      BY <2>4 DEF PassedLabel
    <3>4. \A u \in Uuids' : RefLabel(u) \in c.labels => u = c.ref \/ u \in passedOn'
      BY <2>4, <3>2, LabelFacts
    <3>. QED  BY <2>2, <2>4, <3>2, <3>3, <3>4 DEF SubmissionOK, OwnIssue, Own, Id
  <2>7. ASSUME c.kind = "answer"
        PROVE  AnswerOK(j)'
    <3>1. RefLabel(c.ref) \in issues[r][i].labels /\ SourceLabel(t) \in issues[r][i].labels
      BY <1>1, <2>2, <2>7 DEF Static, AnswerOK, Answers, OwnIssue, Own, Id, Server
    <3>2. RefLabel(c.ref) \in issues'[r][i].labels /\ SourceLabel(t) \in issues'[r][i].labels
      BY <2>4, <3>1, RefLabelFacts, OtherLabelFacts
    <3>. QED  BY <2>2, <3>2 DEF AnswerOK, OwnIssue, Own, Id, Server
  <2>8. SubmissionOK(j)' /\ AnswerOK(j)'
    BY <2>2, <2>3, <2>6, <2>7 DEF SubmissionOK, AnswerOK, Submits, Answers
  <2>. QED  BY <2>5, <2>8 DEF Static
<1>. QED  BY <1>2, <1>3

LEMMA ProgressKept ==
    ASSUME IInv, Grows, NEW j \in Clients,
           command'[j] = command[j], phase'[j] = phase[j], stage'[j] = stage[j],
           updates'[j] = updates[j], found'[j] = found[j]
    PROVE  Progress(j)'
<1>1. Progress(j) /\ Static(j) /\ Types
  BY DEF IInv, Commands
<1>2. PICK c, f : c = command[j] /\ f = found[j]
  OBVIOUS
<1> DEFINE r == c.at  i == c.issue  t == c.to
<1>3. /\ command[j] = c /\ command'[j] = c /\ found[j] = f /\ found'[j] = f
      /\ SubmitUpdates(j)' = SubmitUpdates(j) /\ AnswerUpdates(j)' = AnswerUpdates(j)
  BY <1>2 DEF SubmitUpdates, AnswerUpdates
<1>4. InStep(j)'
  BY <1>1 DEF Progress, InStep
<1>5. /\ phase[j] # "idle" => r \in Repos /\ t \in Repos /\ i \in RowIds(r) /\ c.ref \in Uuids
      /\ stage[j] # "none" => phase[j] # "idle"
  BY <1>1, <1>3 DEF Static, WellFormed, Own, Server, Id, Progress, InStep
<1>6. SubmitProgress(j)'
  <2>1. Known(c.ref) => Known(c.ref)'
    BY FactsGrow
  <2>. QED  BY <1>1, <1>3, <2>1 DEF Progress, SubmitProgress, Submits
<1>7. AnswerProgress(j)'
  <2> SUFFICES ASSUME phase[j] # "idle" PROVE AnswerProgress(j)'
    BY DEF AnswerProgress, Answers
  <2>1. IsDone(c.ref) => IsDone(c.ref)'
    BY <1>5, FactsGrow
  <2>2. Passed(r, i) => Passed(r, i)'
    BY <1>5, FactsGrow
  <2>. QED  BY <1>1, <1>3, <2>1, <2>2 DEF Progress, AnswerProgress, Answers, Own, Id
<1>8. FoundOK(j)'
  <2> SUFFICES ASSUME stage[j] \in {"created", "looked", "applied"} PROVE FoundOK(j)'
    BY DEF FoundOK
  <2>1. FoundOK(j) /\ t \in Repos
    BY <1>1, <1>5 DEF Progress
  <2>2. f \in RowIds(t) => /\ f \in RowIds(t)'
                           /\ issues'[t][f].for = issues[t][f].for
                           /\ \A l \in issues[t][f].labels :
                                 l # Status("pending") => l \in issues'[t][f].labels
    BY <2>1 DEF Grows
  <2>3. RefLabel(c.ref) # Status("pending") /\ Status("resolved") # Status("pending")
    BY RefLabelFacts, OtherLabelFacts
  <2>. QED  BY <1>3, <2>1, <2>2, <2>3 DEF FoundOK, FoundIssue, Server
<1>. QED  BY <1>4, <1>6, <1>7, <1>8 DEF Progress

-----------------------------------------------------------------------------
(* Steps of a client, or of a server for it *)

OthersKept(k) ==
    \A j \in Clients \ {k} :
        /\ command'[j] = command[j] /\ phase'[j] = phase[j] /\ stage'[j] = stage[j]
        /\ updates'[j] = updates[j] /\ found'[j] = found[j]
RowsOK == \A r \in Repos : \A i \in RowIds(r) : RowOK(r, i) /\ StatusOK(r, i) /\ AnsweredOK(r, i)
Ahead(j) == NotThere(j) /\ NotYetResolved(j) /\ NotYetReferred(j)

LEMMA RowsOKFacts == RowsOK => Rows /\ StatusExclusive /\ AnsweredIsResolved
  BY RowByRow DEF RowsOK, Rows
LEMMA RowsOKNext == RowsOK' => Rows' /\ StatusExclusive' /\ AnsweredIsResolved'
  BY RowsOKFacts, PTL

(* A step is safe if what it does to issues and to one client is.          *)
LEMMA Assemble ==
    ASSUME IInv, TypeOK', Types', Grows, NEW k \in Clients, OthersKept(k),
           RowsOK', RefIsUnique', Static(k)', Progress(k)',
           \A j \in Clients : Ahead(j)',
           stage'[k] \in InProgress =>
               \A j \in Clients \ {k} : stage[j] \in InProgress => command[j].to # command'[k].to,
           Submits(k)' => \A j \in Clients \ {k} :
               Submits(j) /\ command[j].ref = command'[k].ref => command'[k].ref \in resubmitted'
    PROVE  IInv'
<1>1. Rows' /\ StatusExclusive' /\ AnsweredIsResolved'
  BY RowsOKNext
<1>2. Commands'
  <2>1. ASSUME NEW j \in Clients, j # k
        PROVE  Static(j)' /\ Progress(j)'
    <3>1. /\ command'[j] = command[j] /\ phase'[j] = phase[j] /\ stage'[j] = stage[j]
          /\ updates'[j] = updates[j] /\ found'[j] = found[j]
      BY <2>1 DEF OthersKept
    <3>. QED  BY <3>1, StaticKept, ProgressKept
  <2>. QED  BY <2>1 DEF Commands
<1>3. OneInProgress'
  <2> SUFFICES ASSUME NEW i \in Clients, NEW j \in Clients, stage'[i] \in InProgress,
                      stage'[j] \in InProgress, command'[i].to = command'[j].to, i # j
               PROVE  FALSE
    BY DEF OneInProgress, Server, InProgress
  <2>1. CASE i # k /\ j # k
    BY <2>1 DEF OthersKept, IInv, Servers, OneInProgress, Server, InProgress
  <2>2. CASE i = k \/ j = k
    BY <2>2 DEF OthersKept
  <2>. QED  BY <2>1, <2>2
<1>4. SubmittedOnce'
  <2> SUFFICES ASSUME NEW i \in Clients, NEW j \in Clients, Submits(i)', Submits(j)',
                      command'[i].ref = command'[j].ref, i # j
               PROVE  command'[j].ref \in resubmitted'
    BY DEF SubmittedOnce
  <2>1. \A x \in Clients \ {k} : Submits(x)' = Submits(x) /\ command'[x] = command[x]
    BY DEF OthersKept, Submits
  <2>2. CASE i # k /\ j # k
    BY <2>1, <2>2 DEF IInv, Submissions, SubmittedOnce, Grows
  <2>3. CASE i = k
    BY <2>1, <2>3
  <2>4. CASE j = k
    BY <2>1, <2>4
  <2>. QED  BY <2>2, <2>3, <2>4
<1>5. Servers' /\ Submissions'
  BY <1>3, <1>4 DEF Servers, Submissions, Ahead
<1>. QED  BY <1>1, <1>2, <1>5 DEF IInv

(* A command meets nothing new if its issue and its target get no label    *)
(* that matters to it.                                                     *)
LEMMA AheadKept ==
    ASSUME IInv, Grows, NEW j \in Clients, NEW c, command[j] = c, command'[j] = c,
           phase'[j] # "idle" => phase[j] # "idle",
           stage'[j] \in {"looked", "created"} => stage[j] \in {"looked", "created"},
           PendingAhead(j)' => PendingAhead(j),
           Submits(j) =>
             /\ stage'[j] \in {"looked", "created"} => \A i \in RowIds(c.to)' :
                  RefLabel(c.ref) \in issues'[c.to][i].labels =>
                    i \in RowIds(c.to) /\ RefLabel(c.ref) \in issues[c.to][i].labels
             /\ Status("resolved") \in issues'[c.at][c.issue].labels =>
                  Status("resolved") \in issues[c.at][c.issue].labels \/ Exempt(c.at, c.issue)'
             /\ RefLabel(c.ref) \in issues'[c.at][c.issue].labels =>
                  \/ RefLabel(c.ref) \in issues[c.at][c.issue].labels
                  \/ c.ref \in resubmitted' \cup passedOn'
    PROVE  Ahead(j)'
<1>1. /\ NotThere(j) /\ NotYetResolved(j) /\ NotYetReferred(j)
      /\ Static(j) /\ Progress(j)
  BY DEF IInv, Servers, Submissions, Commands
<1>2. /\ phase[j] # "idle" => c.at \in Repos /\ c.issue \in RowIds(c.at)
      /\ stage[j] # "none" => phase[j] # "idle"
      /\ passedOn \subseteq passedOn' /\ resubmitted \subseteq resubmitted'
  BY <1>1 DEF Static, WellFormed, Own, Id, Progress, InStep, Grows
<1>3. NotThere(j)'
  BY <1>1, <1>2 DEF NotThere, Server, Submits
<1>4. NotYetReferred(j)'
  BY <1>1, <1>2 DEF NotYetReferred, Submits, OwnIssue, Own, Id
<1>5. NotYetResolved(j)'
  <2> SUFFICES ASSUME PendingAhead(j)', Status("resolved") \in issues'[c.at][c.issue].labels
               PROVE  Exempt(c.at, c.issue)'
    BY DEF NotYetResolved, OwnIssue, Own, Id
  <2>1. phase[j] # "idle" /\ PendingAhead(j) /\ Submits(j)
    BY DEF PendingAhead, Submits
  <2>2. Exempt(c.at, c.issue) => Exempt(c.at, c.issue)'
    BY <1>2, <2>1, FactsGrow
  <2>. QED  BY <1>1, <2>1, <2>2 DEF NotYetResolved, OwnIssue, Own, Id
<1>. QED  BY <1>3, <1>4, <1>5 DEF Ahead

(* Steps that write to no issue. *)
LEMMA QuietRows ==
    ASSUME IInv, Grows, Types', issues' = issues
    PROVE  RowsOK' /\ RefIsUnique'
<1>1. \A r \in Repos : \A i \in RowIds(r) : RowOK(r, i)' /\ StatusOK(r, i)' /\ AnsweredOK(r, i)'
  BY RowKept
<1>2. RowsOK'
  BY <1>1 DEF RowsOK, RowIds
<1>3. RefIsUnique'
  <2>1. Uuids' = Uuids /\ passedOn \subseteq passedOn'
    BY DEF Uuids, Grows
  <2>. QED  BY <2>1 DEF IInv, RefIsUnique
<1>. QED  BY <1>2, <1>3

LEMMA QuietAhead ==
    ASSUME IInv, Grows, issues' = issues, NEW j \in Clients, command'[j] = command[j],
           phase'[j] # "idle" => phase[j] # "idle",
           stage'[j] \in {"looked", "created"} => stage[j] \in {"looked", "created"},
           PendingAhead(j)' => PendingAhead(j)
    PROVE  Ahead(j)'
<1>1. PICK c : c = command[j]
  OBVIOUS
<1>. QED  BY <1>1, AheadKept DEF RowIds

(* A client that has ended, and whose request has, has no obligations.     *)
LEMMA IdleIsSafe ==
    ASSUME NEW k, phase'[k] = "idle", stage'[k] = "none"
    PROVE  Static(k)' /\ Progress(k)' /\ Ahead(k)' /\ ~Submits(k)'
<1>1. ~Submits(k)' /\ ~Answers(k)' /\ ~PendingAhead(k)'
  BY DEF Submits, Answers, PendingAhead
<1>2. Static(k)'
  BY <1>1 DEF Static, WellFormed, SubmissionOK, AnswerOK
<1>3. Progress(k)'
  BY <1>1 DEF Progress, InStep, SubmitProgress, AnswerProgress, FoundOK
<1>4. Ahead(k)'
  BY <1>1 DEF Ahead, NotThere, NotYetResolved, NotYetReferred
<1>. QED  BY <1>1, <1>2, <1>3, <1>4

(* A quiet step of a client that was active before it.                     *)
LEMMA QuietStep ==
    ASSUME IInv, TypeOK', Types', issues' = issues, UNCHANGED history,
           NEW k \in Clients, OthersKept(k),
           stage'[k] \in InProgress => stage[k] \in InProgress,
           \/ phase'[k] = "idle" /\ stage'[k] = "none"
           \/ /\ command'[k] = command[k] /\ phase[k] # "idle" /\ Progress(k)'
              /\ stage'[k] \in {"looked", "created"} => stage[k] \in {"looked", "created"}
              /\ PendingAhead(k)' => PendingAhead(k)
    PROVE  IInv'
<1>1. Grows
  BY DEF Grows, history, RowIds
<1>2. RowsOK' /\ RefIsUnique'
  BY <1>1, QuietRows
<1>3. \A j \in Clients \ {k} : Ahead(j)'
  <2> SUFFICES ASSUME NEW j \in Clients, j # k PROVE Ahead(j)'
    OBVIOUS
  <2>1. /\ command'[j] = command[j] /\ phase'[j] = phase[j] /\ stage'[j] = stage[j]
        /\ updates'[j] = updates[j]
    BY DEF OthersKept
  <2>2. PendingAhead(j)' => PendingAhead(j)
    BY <2>1 DEF PendingAhead, Submits, SubmitUpdates
  <2>. QED  BY <1>1, <2>1, <2>2, QuietAhead
<1>4. CASE phase'[k] = "idle" /\ stage'[k] = "none"
  <2>1. Static(k)' /\ Progress(k)' /\ Ahead(k)' /\ ~Submits(k)' /\ stage'[k] \notin InProgress
    BY <1>4, IdleIsSafe DEF InProgress
  <2>. QED  BY <1>1, <1>2, <1>3, <2>1, Assemble
<1>5. CASE /\ command'[k] = command[k] /\ phase[k] # "idle" /\ Progress(k)'
           /\ stage'[k] \in {"looked", "created"} => stage[k] \in {"looked", "created"}
           /\ PendingAhead(k)' => PendingAhead(k)
  <2>1. Static(k)'
    BY <1>1, <1>5, StaticKept
  <2>2. Ahead(k)'
    BY <1>1, <1>5, QuietAhead
  <2>3. \A j \in Clients \ {k} :
          stage'[k] \in InProgress /\ stage[j] \in InProgress => command[j].to # command'[k].to
    BY <1>5 DEF IInv, Servers, OneInProgress, Server
  <2>4. Submits(k)' => \A j \in Clients \ {k} :
          Submits(j) /\ command[j].ref = command'[k].ref => command'[k].ref \in resubmitted'
    BY <1>1, <1>5 DEF IInv, Submissions, SubmittedOnce, Submits, Grows
  <2>. QED  BY <1>1, <1>2, <1>3, <1>5, <2>1, <2>2, <2>3, <2>4, Assemble
<1>. QED  BY <1>4, <1>5

-----------------------------------------------------------------------------
(* The quiet actions *)

Functions ==
    /\ command = [k \in Clients |-> command[k]]
    /\ updates = [k \in Clients |-> updates[k]]
    /\ found = [k \in Clients |-> found[k]]
    /\ phase \in [Clients -> {"idle", "waiting", "updating", "dead"}]
    /\ stage \in [Clients -> {"none", "queued", "ok", "error"} \cup InProgress]
Numbers ==
    /\ commands \in 0..MaxCommands /\ failures \in 0..MaxFailures
    /\ resubmitted \subseteq Uuids /\ passedOn \subseteq Uuids

LEMMA QuietTypes ==
    ASSUME IInv, issues' = issues, Functions', Numbers', NEW k \in Clients, OthersKept(k),
           phase'[k] = "updating" => updates'[k] # <<>>,
           stage'[k] \in {"created", "applied"} =>
               stage'[k] = stage[k] /\ command'[k] = command[k] /\ found'[k] = found[k]
    PROVE  Types' /\ TypeOK'
<1>1. Types /\ TypeOK
  BY DEF IInv
<1>2. Uuids' = Uuids /\ Label' = Label
  BY DEF Uuids, Label
<1>3. Types'
  BY <1>1, <1>2 DEF Types, Functions, RowIds, IsIssue, ByRepo, IsTable
<1>4. \A j \in Clients :
        /\ phase'[j] = "updating" => updates'[j] # <<>>
        /\ stage'[j] \in {"created", "applied"} => found'[j] \in DOMAIN issues'[command'[j].to]
  BY <1>1 DEF OthersKept, TypeOK, Server
<1>5. \A r \in Repos : \A i \in DOMAIN issues'[r] :
        /\ issues'[r][i].for \in Uuids'
        /\ issues'[r][i].labels \subseteq Label'
        /\ issues'[r][i].closed \in BOOLEAN
  BY <1>1, <1>2 DEF TypeOK
<1>. QED  BY <1>3, <1>4, <1>5 DEF TypeOK, Functions, Numbers, Server

LEMMA Begun ==
    ASSUME IInv
    PROVE  /\ Functions /\ Numbers
           /\ \A k \in Clients : /\ Static(k) /\ Progress(k) /\ Ahead(k)
                                 /\ stage[k] = "none" <=> phase[k] \in {"idle", "updating"}
  BY DEF IInv, Types, TypeOK, Functions, Numbers, Commands, Servers, Submissions, Ahead,
         Progress, InStep

LEMMA UpdateFacts ==
    ASSUME NEW k
    PROVE  /\ SubmitUpdates(k) # <<>> /\ AnswerUpdates(k) # <<>>
           /\ Tail(SubmitUpdates(k)) # <<>> /\ Tail(Tail(SubmitUpdates(k))) # <<>>
           /\ Tail(AnswerUpdates(k)) # <<>>
           /\ SubmitUpdates(k) # Tail(Tail(SubmitUpdates(k)))
           /\ Tail(SubmitUpdates(k)) # Tail(Tail(SubmitUpdates(k)))
           /\ Head(SubmitUpdates(k)) = Outbound
           /\ Head(Tail(SubmitUpdates(k))) = Status("pending")
           /\ Head(Tail(Tail(SubmitUpdates(k)))) = RefLabel(command[k].ref)
           /\ Len(SubmitUpdates(k)) = 3 /\ Len(Tail(SubmitUpdates(k))) = 2
           /\ Len(Tail(Tail(SubmitUpdates(k)))) = 1
           /\ Head(AnswerUpdates(k)) = Status("answered") /\ Len(AnswerUpdates(k)) = 2
           /\ Head(Tail(AnswerUpdates(k))) = Close /\ Len(Tail(AnswerUpdates(k))) = 1
<1>1. ASSUME NEW a, NEW b, NEW c
      PROVE  /\ <<a, b, c>> # <<>> /\ <<a, b>> # <<>> /\ <<c>> # <<>>
             /\ Tail(<<a, b, c>>) = <<b, c>> /\ Tail(<<b, c>>) = <<c>>
             /\ Head(<<a, b, c>>) = a /\ Head(<<b, c>>) = b /\ Head(<<c>>) = c
             /\ Len(<<a, b, c>>) = 3 /\ Len(<<b, c>>) = 2 /\ Len(<<c>>) = 1
             /\ <<a, b, c>> # <<c>> /\ <<b, c>> # <<c>>
  OBVIOUS
<1>. QED  BY <1>1 DEF SubmitUpdates, AnswerUpdates

LEMMA ReadOkStep ==
    ASSUME IInv, NEW k \in Clients, ReadOk(k)
    PROVE  IInv'
<1>1. /\ Functions /\ Numbers /\ Static(k) /\ Progress(k)
      /\ phase[k] = "waiting" /\ stage[k] = "ok"
  BY Begun DEF ReadOk
<1>2. /\ issues' = issues /\ UNCHANGED history /\ command' = command
      /\ commands' = commands /\ failures' = failures
      /\ stage' = [stage EXCEPT ![k] = "none"]
      /\ phase' = [phase EXCEPT ![k] = "updating"]
      /\ found' = [found EXCEPT ![k] = 0]
      /\ updates' = [updates EXCEPT ![k] =
            IF command[k].kind = "submit" THEN SubmitUpdates(k) ELSE AnswerUpdates(k)]
  BY DEF ReadOk, EndRequest
<1>3. Functions' /\ Numbers' /\ OthersKept(k)
  <2>1. Functions'
    BY <1>1, <1>2 DEF Functions
  <2>2. Numbers'
    BY <1>1, <1>2 DEF Numbers, history, Uuids
  <2>3. OthersKept(k)
    BY <1>1, <1>2 DEF Functions, OthersKept
  <2>. QED  BY <2>1, <2>2, <2>3
<1>4. /\ stage'[k] = "none" /\ phase'[k] = "updating" /\ command'[k] = command[k]
      /\ updates'[k] = IF command[k].kind = "submit" THEN SubmitUpdates(k) ELSE AnswerUpdates(k)
  BY <1>1, <1>2 DEF Functions
<1>5. Types' /\ TypeOK'
  BY <1>2, <1>3, <1>4, QuietTypes, UpdateFacts
<1>6. Progress(k)'
  <2>1. InStep(k)' /\ FoundOK(k)'
    BY <1>4 DEF InStep, FoundOK
  <2>2. SubmitProgress(k)'
    <3>1. SubmitUpdates(k)' = SubmitUpdates(k)
      BY <1>4 DEF SubmitUpdates
    <3>2. Submits(k)' => Known(command[k].ref)
      BY <1>1, <1>4 DEF Progress, SubmitProgress, Submits
    <3>3. Known(command[k].ref)' = Known(command[k].ref)
      BY <1>2 DEF Known, RowIds
    <3>. QED  BY <1>4, <3>1, <3>2, <3>3 DEF SubmitProgress, Submits
  <2>3. AnswerProgress(k)'
    <3>1. AnswerUpdates(k)' = AnswerUpdates(k)
      BY DEF AnswerUpdates
    <3>2. Answers(k)' => Passed(Own(k), Id(k)) \/ IsDone(command[k].ref)
      BY <1>1, <1>4 DEF Progress, AnswerProgress, Answers
    <3>3. (Passed(Own(k), Id(k)))' = Passed(Own(k), Id(k)) /\ IsDone(command[k].ref)' = IsDone(command[k].ref)
      BY <1>2 DEF Passed, IsDone, Related, RefsOf, Uuids, history, Own, Id
    <3>. QED  BY <1>4, <3>1, <3>2, <3>3 DEF AnswerProgress, Answers
  <2>. QED  BY <2>1, <2>2, <2>3 DEF Progress
<1>7. PendingAhead(k)' => PendingAhead(k)
  BY <1>1, <1>4 DEF PendingAhead, Submits
<1>. QED  BY <1>1, <1>2, <1>3, <1>4, <1>5, <1>6, <1>7, QuietStep DEF InProgress

LEMMA ReadErrorStep ==
    ASSUME IInv, NEW k \in Clients, ReadError(k)
    PROVE  IInv'
<1>1. Functions /\ Numbers
  BY Begun
<1>2. /\ issues' = issues /\ UNCHANGED history
      /\ commands' = commands /\ failures' = failures /\ updates' = updates
      /\ stage' = [stage EXCEPT ![k] = "none"]
      /\ phase' = [phase EXCEPT ![k] = "idle"]
      /\ found' = [found EXCEPT ![k] = 0]
      /\ command' = [command EXCEPT ![k] = Nobody]
  BY DEF ReadError, EndRequest, EndProcess
<1>3. Functions' /\ Numbers' /\ OthersKept(k)
  <2>1. Functions'
    BY <1>1, <1>2 DEF Functions
  <2>2. Numbers'
    BY <1>1, <1>2 DEF Numbers, history, Uuids
  <2>3. OthersKept(k)
    BY <1>1, <1>2 DEF Functions, OthersKept
  <2>. QED  BY <2>1, <2>2, <2>3
<1>4. stage'[k] = "none" /\ phase'[k] = "idle"
  BY <1>1, <1>2 DEF Functions
<1>5. Types' /\ TypeOK'
  BY <1>2, <1>3, <1>4, QuietTypes
<1>. QED  BY <1>2, <1>3, <1>4, <1>5, QuietStep DEF InProgress

(* The request may go on without its client. *)
LEMMA ClientDiesStep ==
    ASSUME IInv, NEW k \in Clients, ClientDies(k)
    PROVE  IInv'
<1>1. /\ Functions /\ Numbers /\ Progress(k) /\ phase[k] \in {"waiting", "updating"}
      /\ stage[k] = "none" <=> phase[k] \in {"idle", "updating"}
  BY Begun DEF ClientDies
<1>2. /\ issues' = issues /\ UNCHANGED history /\ commands' = commands
      /\ failures' = failures + 1 /\ failures < MaxFailures
      /\ updates' = [updates EXCEPT ![k] = <<>>]
      /\ stage' = stage /\ found' = found
  BY DEF ClientDies
<1>3. \/ /\ stage[k] = "none" /\ phase' = [phase EXCEPT ![k] = "idle"]
         /\ command' = [command EXCEPT ![k] = Nobody]
      \/ /\ stage[k] # "none" /\ phase' = [phase EXCEPT ![k] = "dead"]
         /\ command' = command
  BY DEF ClientDies, EndProcess
<1>4. Functions' /\ Numbers' /\ OthersKept(k)
  <2>1. Functions'
    BY <1>1, <1>2, <1>3 DEF Functions
  <2>2. Numbers'
    BY <1>1, <1>2, BoundsAssumption DEF Numbers, history, Uuids
  <2>3. OthersKept(k)
    BY <1>1, <1>2, <1>3 DEF Functions, OthersKept
  <2>. QED  BY <2>1, <2>2, <2>3
<1>5. stage'[k] = stage[k] /\ found'[k] = found[k]
  BY <1>2
<1>6. CASE stage[k] = "none"
  <2>1. phase'[k] = "idle"
    BY <1>1, <1>3, <1>6 DEF Functions
  <2>2. Types' /\ TypeOK'
    BY <1>2, <1>4, <1>5, <1>6, <2>1, QuietTypes
  <2>. QED  BY <1>2, <1>4, <1>5, <1>6, <2>1, <2>2, QuietStep DEF InProgress
<1>7. CASE stage[k] # "none"
  <2>1. phase'[k] = "dead" /\ command'[k] = command[k] /\ phase[k] = "waiting"
    BY <1>1, <1>3, <1>7 DEF Functions
  <2>2. Types' /\ TypeOK'
    BY <1>2, <1>4, <1>5, <2>1, QuietTypes
  <2>3. Progress(k)'
    <3>1. InStep(k)'
      BY <1>5, <1>7, <2>1 DEF InStep
    <3>2. FoundOK(k)'
      BY <1>1, <1>2, <1>5, <2>1 DEF Progress, FoundOK, FoundIssue, Server, RowIds
    <3>3. SubmitProgress(k)'
      <4>1. Known(command[k].ref)' = Known(command[k].ref)
        BY <1>2, <2>1 DEF Known, RowIds
      <4>. QED  BY <1>1, <1>5, <2>1, <4>1 DEF Progress, SubmitProgress, Submits
    <3>4. AnswerProgress(k)'
      <4>1. /\ (Passed(Own(k), Id(k)))' = Passed(Own(k), Id(k))
            /\ IsDone(command[k].ref)' = IsDone(command[k].ref)
        BY <1>2, <2>1 DEF Passed, IsDone, Related, RefsOf, Uuids, history, Own, Id
      <4>. QED  BY <1>1, <1>5, <2>1, <4>1 DEF Progress, AnswerProgress, Answers
    <3>. QED  BY <3>1, <3>2, <3>3, <3>4 DEF Progress
  <2>4. PendingAhead(k)' => PendingAhead(k)
    BY <2>1 DEF PendingAhead, Submits
  <2>. QED  BY <1>2, <1>4, <1>5, <2>1, <2>2, <2>3, <2>4, QuietStep
<1>. QED  BY <1>6, <1>7

(* What a request's steps leave alone. *)
LEMMA ServerFrame ==
    ASSUME IInv, NEW k \in Clients, stage[k] # "none", command' = command, phase' = phase,
           updates' = updates, commands' = commands, failures' \in 0..MaxFailures,
           UNCHANGED history, NEW s \in {"ok", "error"} \cup InProgress,
           stage' = [stage EXCEPT ![k] = s], NEW f,
           found' = [found EXCEPT ![k] = f] \/ (found' = found /\ f = found[k])
    PROVE  /\ Functions' /\ commands' \in 0..MaxCommands /\ OthersKept(k)
           /\ stage'[k] = s /\ found'[k] = f
           /\ phase[k] # "idle" /\ phase[k] # "updating" /\ InStep(k)'
           /\ PendingAhead(k)' => PendingAhead(k)
<1>1. /\ Functions /\ Numbers
      /\ stage[k] = "none" <=> phase[k] \in {"idle", "updating"}
  BY Begun
<1>2. Functions'
  <2>1. found' = [j \in Clients |-> found'[j]]
    BY <1>1 DEF Functions
  <2>2. stage' \in [Clients -> {"none", "queued", "ok", "error"} \cup InProgress]
    BY <1>1 DEF Functions
  <2>. QED  BY <1>1, <2>1, <2>2 DEF Functions
<1>3. OthersKept(k) /\ stage'[k] = s /\ found'[k] = f
  BY <1>1 DEF Functions, OthersKept
<1>4. phase[k] # "idle" /\ phase[k] # "updating" /\ s # "none"
  BY <1>1 DEF InProgress
<1>5. InStep(k)'
  BY <1>3, <1>4 DEF InStep
<1>6. PendingAhead(k)' => PendingAhead(k)
  BY <1>4 DEF PendingAhead, Submits
<1>. QED  BY <1>1, <1>2, <1>3, <1>4, <1>5, <1>6 DEF Numbers

LEMMA RequestFailsStep ==
    ASSUME IInv, NEW k \in Clients, RequestFails(k)
    PROVE  IInv'
<1>1. /\ issues' = issues /\ UNCHANGED history /\ command' = command /\ phase' = phase
      /\ updates' = updates /\ commands' = commands /\ failures' = failures + 1
      /\ failures < MaxFailures /\ stage[k] # "none"
      /\ stage' = [stage EXCEPT ![k] = "error"] /\ found' = [found EXCEPT ![k] = 0]
  BY DEF RequestFails, SetStage, EndRequest
<1>2. failures' \in 0..MaxFailures /\ Numbers
  BY <1>1, Begun, BoundsAssumption DEF Numbers
<1>3. /\ Functions' /\ commands' \in 0..MaxCommands /\ OthersKept(k)
      /\ stage'[k] = "error" /\ phase[k] # "idle" /\ phase[k] # "updating" /\ InStep(k)'
      /\ PendingAhead(k)' => PendingAhead(k)
  BY <1>1, <1>2, ServerFrame
<1>4. Numbers'
  BY <1>1, <1>2, <1>3 DEF Numbers, history, Uuids
<1>5. Types' /\ TypeOK'
  BY <1>1, <1>3, <1>4, QuietTypes
<1>6. Progress(k)'
  BY <1>1, <1>3 DEF Progress, SubmitProgress, AnswerProgress, FoundOK
<1>. QED  BY <1>1, <1>3, <1>5, <1>6, QuietStep DEF InProgress

(* Steps that write to no issue but begin something. *)
LEMMA QuietMove ==
    ASSUME IInv, TypeOK', Types', issues' = issues, Grows, NEW k \in Clients, OthersKept(k),
           Static(k)', Progress(k)', Ahead(k)',
           stage'[k] \in InProgress =>
               \A j \in Clients \ {k} : stage[j] \in InProgress => command[j].to # command'[k].to,
           Submits(k)' => \A j \in Clients \ {k} :
               Submits(j) /\ command[j].ref = command'[k].ref => command'[k].ref \in resubmitted'
    PROVE  IInv'
<1>1. RowsOK' /\ RefIsUnique'
  BY QuietRows
<1>2. ASSUME NEW j \in Clients, j # k
      PROVE  Ahead(j)'
  <2>1. /\ command'[j] = command[j] /\ phase'[j] = phase[j] /\ stage'[j] = stage[j]
        /\ updates'[j] = updates[j]
    BY <1>2 DEF OthersKept
  <2>2. PendingAhead(j)' => PendingAhead(j)
    BY <2>1 DEF PendingAhead, Submits, SubmitUpdates
  <2>. QED  BY <2>1, <2>2, QuietAhead
<1>. QED  BY <1>1, <1>2, Assemble

LEMMA LookUpFrame ==
    ASSUME IInv, NEW k \in Clients, Serves(k), issues' = issues, UNCHANGED history,
           command' = command, phase' = phase, updates' = updates,
           commands' = commands, failures' = failures,
           NEW s \in {"ok", "error", "looked"}, stage' = [stage EXCEPT ![k] = s],
           NEW f, found' = [found EXCEPT ![k] = f] \/ (found' = found /\ f = found[k]),
           Progress(k)', NotThere(k)'
    PROVE  IInv'
<1>1. Functions /\ Numbers /\ Static(k) /\ Ahead(k) /\ stage[k] = "queued"
  BY Begun DEF Serves
<1>2. failures' \in 0..MaxFailures
  BY <1>1 DEF Numbers
<1>3. s \in {"ok", "error"} \cup InProgress
  BY DEF InProgress
<1>4. /\ Functions' /\ commands' \in 0..MaxCommands /\ OthersKept(k)
      /\ stage'[k] = s /\ found'[k] = f /\ phase[k] # "idle"
      /\ PendingAhead(k)' => PendingAhead(k)
  BY <1>1, <1>2, <1>3, ServerFrame
<1>5. Numbers'
  BY <1>1, <1>2, <1>4 DEF Numbers, history, Uuids
<1>6. Types' /\ TypeOK'
  <2>1. phase'[k] # "updating"
    BY <1>1, Begun
  <2>. QED  BY <1>4, <1>5, <2>1, QuietTypes
<1>7. Grows
  BY DEF Grows, history, RowIds
<1>8. Static(k)'
  BY <1>7, StaticKept
<1>9. Ahead(k)'
  <2>1. NotYetResolved(k)'
    BY <1>1, <1>4 DEF Ahead, NotYetResolved, OwnIssue, Own, Id, Exempt, Related, RefsOf, Uuids, history
  <2>2. NotYetReferred(k)'
    BY <1>1, <1>4 DEF Ahead, NotYetReferred, Submits, OwnIssue, Own, Id, history
  <2>. QED  BY <2>1, <2>2 DEF Ahead
<1>10. \A j \in Clients \ {k} : stage[j] \in InProgress => command[j].to # command'[k].to
  BY DEF Serves
<1>11. Submits(k)' => \A j \in Clients \ {k} :
          Submits(j) /\ command[j].ref = command'[k].ref => command'[k].ref \in resubmitted'
  BY DEF IInv, Submissions, SubmittedOnce, Submits, history
<1>. QED  BY <1>4, <1>6, <1>7, <1>8, <1>9, <1>10, <1>11, QuietMove

LEMMA LookUpSubmitStep ==
    ASSUME IInv, NEW k \in Clients, LookUpSubmit(k)
    PROVE  IInv'
<1>1. PICK c : c = command[k]
  OBVIOUS
<1> DEFINE s == IF Matches(k) = {} THEN "looked" ELSE "ok"
<1>2. /\ Serves(k) /\ c.kind = "submit" /\ command[k] = c /\ command'[k] = c
      /\ issues' = issues /\ UNCHANGED history /\ command' = command /\ phase' = phase
      /\ updates' = updates /\ commands' = commands /\ failures' = failures /\ found' = found
      /\ stage' = [stage EXCEPT ![k] = s]
  BY <1>1 DEF LookUpSubmit, SetStage
<1>3. /\ Functions /\ Static(k) /\ stage[k] = "queued" /\ phase[k] \notin {"idle", "updating"}
  BY Begun DEF LookUpSubmit, Serves
<1>4. stage'[k] = s /\ c.to \in Repos /\ c.ref \in Uuids
  BY <1>2, <1>3 DEF Functions, Static, WellFormed, Server
<1>5. Matches(k) = {} => \A i \in RowIds(c.to) : RefLabel(c.ref) \notin issues[c.to][i].labels
  <2>1. \A i \in RowIds(c.to) : issues[c.to][i].closed \in BOOLEAN
    BY <1>4 DEF IInv, TypeOK, RowIds
  <2>. QED  BY <1>2, <2>1 DEF Matches, WithRef, Server, RowIds
<1>6. Matches(k) # {} => Known(c.ref)
  BY <1>2, <1>4 DEF Matches, WithRef, Server, RowIds, Known
<1>7. NotThere(k)'
  BY <1>2, <1>4, <1>5 DEF NotThere, Server, RowIds
<1>8. Progress(k)'
  <2>1. InStep(k)' /\ FoundOK(k)' /\ AnswerProgress(k)'
    BY <1>2, <1>3, <1>4 DEF InStep, FoundOK, AnswerProgress, Answers
  <2>2. Known(c.ref)' = Known(c.ref)
    BY <1>2 DEF Known, RowIds
  <2>3. SubmitProgress(k)'
    BY <1>2, <1>3, <1>4, <1>6, <2>2 DEF SubmitProgress, Submits
  <2>. QED  BY <2>1, <2>3 DEF Progress
<1>9. s \in {"ok", "error", "looked"}
  OBVIOUS
<1> HIDE DEF s
<1>10. PICK t : t = s
  OBVIOUS
<1>. QED  BY <1>2, <1>7, <1>8, <1>9, <1>10, LookUpFrame

LEMMA LookUpAnswerStep ==
    ASSUME IInv, NEW k \in Clients, LookUpAnswer(k)
    PROVE  IInv'
<1>1. PICK c : c = command[k]
  OBVIOUS
<1>2. /\ Serves(k) /\ c.kind = "answer" /\ command[k] = c /\ command'[k] = c
      /\ issues' = issues /\ UNCHANGED history /\ command' = command /\ phase' = phase
      /\ updates' = updates /\ commands' = commands /\ failures' = failures
  BY <1>1 DEF LookUpAnswer
<1>3. /\ Functions /\ stage[k] = "queued" /\ phase[k] \notin {"idle", "updating"}
  BY Begun DEF LookUpAnswer, Serves
<1>4. NotThere(k)' /\ ~Submits(k)'
  BY <1>2 DEF NotThere, Submits
<1>5. CASE found' = found /\ stage' = [stage EXCEPT ![k] = "error"]
  <2>1. stage'[k] = "error"
    BY <1>3, <1>5 DEF Functions
  <2>2. Progress(k)'
    BY <1>2, <1>3, <1>4, <2>1 DEF Progress, InStep, FoundOK, AnswerProgress, SubmitProgress
  <2>3. PICK f : f = found[k]
    OBVIOUS
  <2>. QED  BY <1>2, <1>4, <1>5, <2>2, <2>3, LookUpFrame
<1>6. ASSUME NEW i \in Matches(k), found' = [found EXCEPT ![k] = i],
             stage' = [stage EXCEPT ![k] = "looked"]
      PROVE  IInv'
  <2>1. stage'[k] = "looked" /\ found'[k] = i
    BY <1>3, <1>6 DEF Functions
  <2>2. i \in RowIds(c.to) /\ RefLabel(c.ref) \in issues[c.to][i].labels
    BY <1>2 DEF Matches, WithRef, Server, RowIds
  <2>3. FoundOK(k)'
    BY <1>2, <2>1, <2>2 DEF FoundOK, FoundIssue, Server, RowIds
  <2>4. Progress(k)'
    BY <1>2, <1>3, <1>4, <2>1, <2>3 DEF Progress, InStep, AnswerProgress, SubmitProgress
  <2>. QED  BY <1>2, <1>4, <1>6, <2>4, LookUpFrame
<1>. QED  BY <1>5, <1>6 DEF LookUpAnswer, SetStage, UnknownRequest

-----------------------------------------------------------------------------
(* A command that begins *)

LEMMA RunFrame ==
    ASSUME IInv, NEW k \in Clients, NEW c, Run(k, c),
           passedOn \subseteq passedOn', resubmitted \subseteq resubmitted',
           passedOn' \subseteq Uuids, resubmitted' \subseteq Uuids
    PROVE  /\ issues' = issues /\ Grows /\ OthersKept(k) /\ Types' /\ TypeOK'
           /\ command'[k] = c /\ phase'[k] = "waiting" /\ stage'[k] = "queued"
           /\ Progress(k)' /\ NotThere(k)'
<1>1. Functions /\ Numbers
  BY Begun
<1>2. /\ issues' = issues /\ updates' = updates /\ found' = found /\ failures' = failures
      /\ commands' = commands + 1 /\ commands < MaxCommands
      /\ command' = [command EXCEPT ![k] = c]
      /\ phase' = [phase EXCEPT ![k] = "waiting"]
      /\ stage' = [stage EXCEPT ![k] = "queued"]
  BY DEF Run
<1>3. /\ command'[k] = c /\ phase'[k] = "waiting" /\ stage'[k] = "queued"
  BY <1>1, <1>2 DEF Functions
<1>4. Functions'
  BY <1>1, <1>2 DEF Functions
<1>5. Numbers'
  BY <1>1, <1>2, BoundsAssumption DEF Numbers, Uuids
<1>6. OthersKept(k)
  BY <1>1, <1>2 DEF Functions, OthersKept
<1>7. Types' /\ TypeOK'
  BY <1>2, <1>3, <1>4, <1>5, <1>6, QuietTypes
<1>8. Grows
  BY <1>2 DEF Grows, RowIds
<1>9. Progress(k)'
  BY <1>3 DEF Progress, InStep, SubmitProgress, AnswerProgress, FoundOK
<1>10. NotThere(k)'
  BY <1>3 DEF NotThere
<1>. QED  BY <1>2, <1>3, <1>6, <1>7, <1>8, <1>9, <1>10

LEMMA RunAnswerStep ==
    ASSUME IInv, NEW k \in Clients, NEW r \in Repos, NEW i \in RowIds(r), RunAnswer(k, r, i)
    PROVE  IInv'
<1>1. PICK t \in SourcesOf(issues[r][i]) \ {r}, u \in RefsOf(issues[r][i]) :
          Run(k, [kind |-> "answer", at |-> r, issue |-> i, to |-> t, ref |-> u,
                  results |-> issues[r][i].results])
  BY DEF RunAnswer
<1>2. PICK c : c = [kind |-> "answer", at |-> r, issue |-> i, to |-> t, ref |-> u,
                    results |-> issues[r][i].results]
  OBVIOUS
<1>3. /\ c.kind = "answer" /\ c.at = r /\ c.issue = i /\ c.to = t /\ c.ref = u
      /\ t \in Repos /\ t # r /\ u \in Uuids /\ UNCHANGED history
      /\ SourceLabel(t) \in issues[r][i].labels /\ RefLabel(u) \in issues[r][i].labels
  BY <1>1, <1>2 DEF SourcesOf, RefsOf, RunAnswer
<1>4. Run(k, c) /\ Numbers
  BY <1>1, <1>2, Begun
<1>5. /\ passedOn \subseteq passedOn' /\ resubmitted \subseteq resubmitted'
      /\ passedOn' \subseteq Uuids /\ resubmitted' \subseteq Uuids
  BY <1>3, <1>4 DEF Numbers, history
<1>6. /\ issues' = issues /\ Grows /\ OthersKept(k) /\ Types' /\ TypeOK'
      /\ command'[k] = c /\ phase'[k] = "waiting" /\ stage'[k] = "queued"
      /\ Progress(k)' /\ NotThere(k)'
  BY <1>4, <1>5, RunFrame
<1>7. ~Submits(k)' /\ Uuids' = Uuids /\ RowIds(r)' = RowIds(r)
  BY <1>3, <1>6 DEF Submits, Uuids, RowIds
<1>8. Static(k)'
  <2>1. WellFormed(k)'
    BY <1>3, <1>6, <1>7 DEF WellFormed, Own, Server, Id
  <2>2. AnswerOK(k)'
    BY <1>3, <1>6 DEF AnswerOK, OwnIssue, Own, Server
  <2>. QED  BY <1>7, <2>1, <2>2 DEF Static, SubmissionOK
<1>9. Ahead(k)'
  BY <1>6, <1>7 DEF Ahead, NotYetResolved, PendingAhead, NotYetReferred
<1>. QED  BY <1>6, <1>7, <1>8, <1>9, QuietMove DEF InProgress

(* An issue that was submitted before is marked so, and the uuids that go  *)
(* out with another's submission are.                                      *)
LEMMA RunSubmitStep ==
    ASSUME IInv, NEW k \in Clients, NEW r \in Repos, NEW i \in RowIds(r), NEW t \in Repos,
           RunSubmit(k, r, i, t)
    PROVE  IInv'
<1>1. PICK c : c = [kind |-> "submit", at |-> r, issue |-> i, to |-> t, ref |-> Uuid(r, i),
                    labels |-> issues[r][i].labels]
  OBVIOUS
<1>2. PICK u : u = Uuid(r, i)
  OBVIOUS
<1>3. /\ c.kind = "submit" /\ c.at = r /\ c.issue = i /\ c.to = t /\ t # r /\ c.ref = u
      /\ c.labels = issues[r][i].labels /\ Run(k, c)
      /\ resubmitted' = resubmitted \cup (IF SubmittedBefore(u) THEN {u} ELSE {})
      /\ passedOn' = passedOn \cup (Related(issues[r][i]) \ {u})
  BY <1>1, <1>2 DEF RunSubmit
<1>4. Types /\ LabelledRefs /\ Numbers /\ u \in Uuids
  BY <1>2, RefsAreLabels, Begun, UuidFacts DEF IInv
<1>5. PICK labels, for : labels = issues[r][i].labels /\ for = issues[r][i].for
  OBVIOUS
<1>6. /\ labels \subseteq Label /\ for \in Uuids
      /\ \A v : RefLabel(v) \in labels <=> v \in Refs(r, i)
      /\ Related(issues[r][i]) = Refs(r, i) \cup {for}
      /\ Refs(r, i) \subseteq Uuids
  BY <1>4, <1>5 DEF LabelledRefs
<1>7. /\ passedOn \subseteq passedOn' /\ resubmitted \subseteq resubmitted'
      /\ passedOn' \subseteq Uuids /\ resubmitted' \subseteq Uuids
  BY <1>3, <1>4, <1>6 DEF Numbers
<1>8. /\ issues' = issues /\ Grows /\ OthersKept(k) /\ Types' /\ TypeOK'
      /\ command'[k] = c /\ phase'[k] = "waiting" /\ stage'[k] = "queued"
      /\ Progress(k)' /\ NotThere(k)'
  BY <1>3, <1>7, RunFrame
<1>9. /\ Uuids' = Uuids /\ Label' = Label /\ RowIds(r)' = RowIds(r)
      /\ issues'[r][i].labels = labels /\ issues'[r][i].for = for
  BY <1>5, <1>8 DEF Uuids, Label, RowIds
<1>10. /\ ReceivedHasRef(r, i) /\ StatusExplained(r, i)
  BY DEF IInv, Rows, RowOK
<1>11. /\ for # u => for \in passedOn'
       /\ \A v : RefLabel(v) \in labels => v = u \/ v \in passedOn'
  BY <1>3, <1>6
<1>12. Known(u) => u \in resubmitted'
  BY <1>3 DEF Known, SubmittedBefore, RowIds
<1>13. IsReceived(labels) => RefLabel(for) \in labels /\ for # u
  BY <1>2, <1>5, <1>10 DEF ReceivedHasRef
<1>14. HasStatus(labels) => Known(u) \/ \E v : v # u /\ RefLabel(v) \in labels
  BY <1>2, <1>5, <1>6, <1>10 DEF StatusExplained
<1>15. Static(k)'
  <2>1. WellFormed(k)'
    BY <1>3, <1>4, <1>8, <1>9 DEF WellFormed, Own, Server, Id
  <2>2. IsReceived(labels) => PassedLabel(labels)'
    BY <1>11, <1>13 DEF PassedLabel
  <2>3. HasStatus(labels) => u \in resubmitted' \/ PassedLabel(labels)'
    BY <1>11, <1>12, <1>14 DEF PassedLabel
  <2>4. SubmissionOK(k)'
    BY <1>2, <1>3, <1>5, <1>6, <1>8, <1>9, <1>11, <2>2, <2>3
       DEF SubmissionOK, OwnIssue, Own, Id
  <2>. QED  BY <1>3, <1>8, <2>1, <2>4 DEF Static, AnswerOK, Answers
<1>16. Ahead(k)'
  <2>1. /\ for \in (Related(issues[r][i]))'
        /\ \A v \in Uuids : RefLabel(v) \in labels => v \in (Related(issues[r][i]))'
    BY <1>9 DEF Related, RefsOf
  <2>2. Status("resolved") \in labels => Exempt(r, i)'
    <3> SUFFICES ASSUME Status("resolved") \in labels PROVE Exempt(r, i)'
      OBVIOUS
    <3>1. Known(u) \/ \E v : v # u /\ RefLabel(v) \in labels
      BY <1>14 DEF HasStatus
    <3>2. CASE Known(u)
      BY <1>11, <1>12, <2>1, <3>2 DEF Exempt
    <3>3. CASE \E v : v # u /\ RefLabel(v) \in labels
      BY <1>6, <1>11, <2>1, <3>3 DEF Exempt
    <3>. QED  BY <3>1, <3>2, <3>3
  <2>3. NotYetResolved(k)'
    BY <1>3, <1>8, <1>9, <2>2 DEF NotYetResolved, OwnIssue, Own, Id
  <2>4. RefLabel(u) \in labels => u \in resubmitted'
    BY <1>5, <1>12 DEF Known
  <2>5. NotYetReferred(k)'
    BY <1>3, <1>8, <1>9, <2>4 DEF NotYetReferred, OwnIssue, Own
  <2>. QED  BY <1>8, <2>3, <2>5 DEF Ahead
<1>17. \A j \in Clients \ {k} : Submits(j) /\ command[j].ref = c.ref => c.ref \in resubmitted'
  BY <1>3 DEF Submits, SubmittedBefore
<1>. QED  BY <1>8, <1>15, <1>16, <1>17, QuietMove DEF InProgress

-----------------------------------------------------------------------------
(* Steps that write to an issue *)

IssueTypes ==
    /\ ByRepo
    /\ \A r \in Repos : IsTable(r) /\ \A i \in RowIds(r) : IsIssue(issues[r][i])

LEMMA WriteTypes ==
    ASSUME IInv, Grows, IssueTypes', Functions', Numbers', NEW k \in Clients, OthersKept(k),
           phase'[k] = "updating" => updates'[k] # <<>>,
           stage'[k] \in {"created", "applied"} => found'[k] \in DOMAIN issues'[command'[k].to]
    PROVE  Types' /\ TypeOK'
<1>1. Types'
  BY DEF Types, Functions, IssueTypes
<1>2. \A j \in Clients \ {k} :
        /\ phase'[j] = "updating" => updates'[j] # <<>>
        /\ stage'[j] \in {"created", "applied"} => found'[j] \in DOMAIN issues'[command'[j].to]
  <2> SUFFICES ASSUME NEW j \in Clients, j # k
               PROVE  /\ phase'[j] = "updating" => updates'[j] # <<>>
                      /\ stage'[j] \in {"created", "applied"} =>
                            found'[j] \in DOMAIN issues'[command'[j].to]
    OBVIOUS
  <2>1. PICK t : t = command[j].to
    OBVIOUS
  <2>2. /\ command'[j].to = t /\ phase'[j] = phase[j] /\ stage'[j] = stage[j]
        /\ updates'[j] = updates[j] /\ found'[j] = found[j]
    BY <2>1 DEF OthersKept
  <2>3. stage[j] \in {"created", "applied"} => t \in Repos
    BY <2>1, Begun DEF Static, WellFormed, Server
  <2>4. stage[j] \in {"created", "applied"} => found[j] \in RowIds(t)
    BY <2>1 DEF IInv, TypeOK, Server, RowIds
  <2>5. phase[j] = "updating" => updates[j] # <<>>
    BY DEF IInv, TypeOK
  <2>. QED  BY <2>2, <2>3, <2>4, <2>5 DEF Grows, RowIds
<1>3. \A r \in Repos : \A i \in DOMAIN issues'[r] :
        /\ issues'[r][i].for \in Uuids'
        /\ issues'[r][i].labels \subseteq Label'
        /\ issues'[r][i].closed \in BOOLEAN
  BY DEF IssueTypes, IsIssue, RowIds
<1>4. \A j \in Clients :
        /\ phase'[j] = "updating" => updates'[j] # <<>>
        /\ stage'[j] \in {"created", "applied"} => found'[j] \in DOMAIN issues'[command'[j].to]
  BY <1>2 DEF RowIds
<1>. QED  BY <1>1, <1>3, <1>4 DEF TypeOK, Functions, Numbers, Server

(* One row replaced by one that says at least as much. *)
Extends(new, old) ==
    /\ new.for = old.for
    /\ \A l \in old.labels : l # Status("pending") => l \in new.labels
    /\ old.closed => new.closed

LEMMA RowWritten ==
    ASSUME IInv, UNCHANGED history, NEW r \in Repos, NEW i \in RowIds(r), NEW y,
           IsIssue(y), Extends(y, issues[r][i]), issues' = [issues EXCEPT ![r][i] = y]
    PROVE  /\ Grows /\ IssueTypes' /\ Uuids' = Uuids /\ Label' = Label
           /\ issues'[r][i] = y
           /\ \A p \in Repos : RowIds(p)' = RowIds(p)
           /\ \A p \in Repos : \A j \in RowIds(p) :
                 p # r \/ j # i => issues'[p][j] = issues[p][j]
<1>1. Types
  BY DEF IInv
<1>2. /\ ByRepo'
      /\ \A p \in Repos : /\ RowIds(p)' = RowIds(p)
                          /\ IsTable(p)'
      /\ issues'[r][i] = y
      /\ \A p \in Repos : \A j \in RowIds(p) :
            p # r \/ j # i => issues'[p][j] = issues[p][j]
  BY <1>1, RowChanged
<1>3. Uuids' = Uuids
  BY <1>2 DEF Uuids, RowIds
<1>4. Label' = Label
  BY <1>3 DEF Label
<1>5. \A p \in Repos : \A j \in RowIds(p) : IsIssue(issues'[p][j])
  BY <1>1, <1>2 DEF Types
<1>6. IssueTypes'
  BY <1>2, <1>3, <1>4, <1>5 DEF IssueTypes, IsIssue
<1>7. Grows
  BY <1>2 DEF Grows, Extends, history
<1>. QED  BY <1>2, <1>3, <1>4, <1>6, <1>7

(* The other rows get no label, so that only the one written to matters.   *)
LEMMA WrittenRows ==
    ASSUME IInv, Grows, Types', NEW r \in Repos, NEW i,
           \A p \in Repos : \A j \in RowIds(p)' :
              p # r \/ j # i => j \in RowIds(p) /\ issues'[p][j] = issues[p][j],
           RowOK(r, i)', StatusOK(r, i)', AnsweredOK(r, i)'
    PROVE  RowsOK'
<1> SUFFICES ASSUME NEW p \in Repos, NEW j \in RowIds(p)'
             PROVE  RowOK(p, j)' /\ StatusOK(p, j)' /\ AnsweredOK(p, j)'
  BY DEF RowsOK
<1>1. CASE p = r /\ j = i
  BY <1>1
<1>2. CASE p # r \/ j # i
  BY <1>2, RowKept
<1>. QED  BY <1>1, <1>2

LEMMA NoNewLabels ==
    ASSUME IInv, Grows, Types', \A p \in Repos : RowIds(p)' = RowIds(p),
           \A p \in Repos : \A j \in RowIds(p) :
              issues'[p][j].labels \subseteq issues[p][j].labels \cup {Outbound}
    PROVE  RowsOK'
  BY RowKept DEF RowsOK

(* No issue gets a label that a lookup or a command minds. *)
LEMMA NoNewRefs ==
    ASSUME IInv, Grows, Types', Uuids' = Uuids, \A p \in Repos : RowIds(p)' = RowIds(p),
           \A p \in Repos : \A j \in RowIds(p) :
              issues'[p][j].labels \subseteq
                 issues[p][j].labels \cup {Outbound, Status("pending"), Status("answered")}
    PROVE  /\ RefIsUnique'
           /\ \A j \in Clients :
                 /\ command'[j] = command[j]
                 /\ phase'[j] # "idle" => phase[j] # "idle"
                 /\ stage'[j] \in {"looked", "created"} => stage[j] \in {"looked", "created"}
                 /\ PendingAhead(j)' => PendingAhead(j)
                 => Ahead(j)'
<1>1. \A p \in Repos : \A j \in RowIds(p) : \A u :
        RefLabel(u) \in issues'[p][j].labels => RefLabel(u) \in issues[p][j].labels
  BY RefLabelFacts
<1>2. RefIsUnique'
  BY <1>1 DEF IInv, RefIsUnique, RowIds, Grows
<1>3. ASSUME NEW j \in Clients, command'[j] = command[j],
             phase'[j] # "idle" => phase[j] # "idle",
             stage'[j] \in {"looked", "created"} => stage[j] \in {"looked", "created"},
             PendingAhead(j)' => PendingAhead(j)
      PROVE  Ahead(j)'
  <2>1. PICK c : c = command[j]
    OBVIOUS
  <2>2. phase[j] # "idle" => c.at \in Repos /\ c.to \in Repos /\ c.issue \in RowIds(c.at)
    BY <2>1, Begun DEF Static, WellFormed, Own, Server, Id
  <2>3. \A p \in Repos : \A i \in RowIds(p) :
          Status("resolved") \in issues'[p][i].labels => Status("resolved") \in issues[p][i].labels
    BY OtherLabelFacts
  <2>. QED  BY <1>1, <1>3, <2>1, <2>2, <2>3, AheadKept DEF Submits
<1>. QED  BY <1>2, <1>3

-----------------------------------------------------------------------------
(* The changes that a client makes to its own issue *)

LEMMA UpdatedFacts ==
    ASSUME NEW x, IsIssue(x), NEW change, change = Close \/ change \in Label
    PROVE  /\ IsIssue(Updated(x, change)) /\ Extends(Updated(x, change), x)
           /\ change = Close => /\ Updated(x, change).labels = x.labels
                                /\ Updated(x, change).closed = TRUE
           /\ change # Close => Updated(x, change).labels = x.labels \cup {change}
  BY DEF IsIssue, Updated, Extends

(* Client k makes change x to its issue <<r, i>> and has others to make,   *)
(* or not: the step, and what follows from it.                             *)
OwnChange(k, r, i, x, others) ==
    /\ r \in Repos /\ i \in RowIds(r) /\ x \in Label \cup {Close} /\ others \in BOOLEAN
    /\ phase[k] = "updating"
    /\ others => Tail(updates[k]) # <<>>
    /\ UNCHANGED history /\ stage' = stage /\ found' = found
    /\ commands' = commands /\ failures' = failures
    /\ issues' = [issues EXCEPT ![r][i] = Updated(issues[r][i], x)]
    /\ updates' = [updates EXCEPT ![k] = Tail(updates[k])]
    /\ ~others => /\ phase' = [phase EXCEPT ![k] = "idle"]
                  /\ command' = [command EXCEPT ![k] = Nobody]
    /\ others => phase' = phase /\ command' = command

OwnWritten(k, r, i, x, others) ==
    /\ Grows /\ Types' /\ TypeOK' /\ OthersKept(k) /\ UNCHANGED history
    /\ Uuids' = Uuids /\ Label' = Label
    /\ \A p \in Repos : RowIds(p)' = RowIds(p)
    /\ r \in Repos /\ i \in RowIds(r)
    /\ x # Close => issues'[r][i].labels = issues[r][i].labels \cup {x}
    /\ x = Close => issues'[r][i].labels = issues[r][i].labels
    /\ \A p \in Repos : \A j \in RowIds(p) :
          p # r \/ j # i => issues'[p][j] = issues[p][j]
    /\ phase[k] = "updating" /\ stage[k] = "none" /\ stage'[k] = "none"
    /\ ~others => phase'[k] = "idle"
    /\ others => /\ phase'[k] = "updating" /\ command'[k] = command[k]
                 /\ updates'[k] = Tail(updates[k])

LEMMA OwnWrite ==
    ASSUME IInv, NEW k \in Clients, NEW r, NEW i, NEW x, NEW others,
           OwnChange(k, r, i, x, others)
    PROVE  OwnWritten(k, r, i, x, others)
<1>1. /\ Functions /\ Numbers /\ phase[k] = "updating" /\ stage[k] = "none"
  BY Begun DEF OwnChange
<1>2. PICK y : y = Updated(issues[r][i], x)
  OBVIOUS
<1>3. r \in Repos /\ i \in RowIds(r) /\ x \in Label \cup {Close} /\ UNCHANGED history
  BY DEF OwnChange
<1>4. IsIssue(issues[r][i])
  BY <1>3 DEF IInv, Types
<1>5. issues' = [issues EXCEPT ![r][i] = y]
  BY <1>2 DEF OwnChange
<1>6. IsIssue(y) /\ Extends(y, issues[r][i])
  BY <1>2, <1>3, <1>4, UpdatedFacts
<1>7. /\ x # Close => y.labels = issues[r][i].labels \cup {x}
      /\ x = Close => y.labels = issues[r][i].labels
  BY <1>2, <1>3, <1>4, UpdatedFacts
<1>8. /\ Grows /\ IssueTypes' /\ Uuids' = Uuids /\ Label' = Label
      /\ issues'[r][i] = y
      /\ \A p \in Repos : RowIds(p)' = RowIds(p)
      /\ \A p \in Repos : \A j \in RowIds(p) :
            p # r \/ j # i => issues'[p][j] = issues[p][j]
  BY <1>3, <1>5, <1>6, RowWritten
<1>9. Functions'
  BY <1>1 DEF Functions, OwnChange
<1>10. Numbers'
  BY <1>1, <1>8 DEF Numbers, history, OwnChange
<1>11. OthersKept(k)
  BY <1>1 DEF Functions, OthersKept, OwnChange
<1>12. /\ stage'[k] = "none"
       /\ ~others => phase'[k] = "idle"
       /\ others => /\ phase'[k] = "updating" /\ command'[k] = command[k]
                    /\ updates'[k] = Tail(updates[k]) /\ updates'[k] # <<>>
  BY <1>1 DEF Functions, OwnChange
<1>13. Types' /\ TypeOK'
  <2>1. others \/ ~others
    OBVIOUS
  <2>. QED  BY <1>8, <1>9, <1>10, <1>11, <1>12, <2>1, WriteTypes
<1>. QED  BY <1>1, <1>3, <1>7, <1>8, <1>11, <1>12, <1>13 DEF OwnWritten

(* Client k writes to its issue and goes on, or ends. *)
LEMMA OwnWriteSafe ==
    ASSUME IInv, TypeOK', Types', Grows, NEW k \in Clients, OthersKept(k),
           stage[k] = "none", stage'[k] = "none", phase[k] = "updating",
           RowsOK', RefIsUnique',
           \A j \in Clients : (phase'[j] # "idle" \/ stage'[j] # "none") => Ahead(j)',
           phase'[k] # "idle" => command'[k] = command[k] /\ Progress(k)'
    PROVE  IInv'
<1>1. \A j \in Clients : Ahead(j)'
  BY IdleIsSafe
<1>2. CASE phase'[k] = "idle"
  <2>1. Static(k)' /\ Progress(k)' /\ ~Submits(k)'
    BY <1>2, IdleIsSafe
  <2>. QED  BY <1>1, <2>1, Assemble DEF InProgress
<1>3. CASE phase'[k] # "idle"
  <2>1. Static(k)' /\ Progress(k)'
    BY <1>3, StaticKept
  <2>2. Submits(k)' => \A j \in Clients \ {k} :
          Submits(j) /\ command[j].ref = command'[k].ref => command'[k].ref \in resubmitted'
    BY <1>3 DEF IInv, Submissions, SubmittedOnce, Submits, Grows
  <2>. QED  BY <1>1, <2>1, <2>2, Assemble DEF InProgress
<1>. QED  BY <1>2, <1>3

LEMMA WriteOutbound ==
    ASSUME IInv, NEW k \in Clients, NEW c, c = command[k], NEW r, NEW i,
           c.kind = "submit", updates[k] = SubmitUpdates(k),
           OwnWritten(k, r, i, Outbound, TRUE)
    PROVE  IInv'
<1>1. /\ Grows /\ Types' /\ TypeOK' /\ OthersKept(k)
      /\ Uuids' = Uuids /\ \A p \in Repos : RowIds(p)' = RowIds(p)
      /\ phase[k] = "updating" /\ stage[k] = "none" /\ stage'[k] = "none"
      /\ phase'[k] = "updating" /\ command'[k] = c /\ updates'[k] = Tail(updates[k])
  BY DEF OwnWritten
<1>2. \A p \in Repos : \A j \in RowIds(p) :
         issues'[p][j].labels \subseteq issues[p][j].labels \cup {Outbound}
  BY OtherLabelFacts DEF OwnWritten
<1>3. RowsOK'
  BY <1>1, <1>2, NoNewLabels
<1>4. RefIsUnique' /\ \A j \in Clients : Ahead(j)'
  <2>1. \A p \in Repos : \A j \in RowIds(p) :
          issues'[p][j].labels \subseteq
             issues[p][j].labels \cup {Outbound, Status("pending"), Status("answered")}
    BY <1>2
  <2>2. PendingAhead(k)
    BY <1>1, UpdateFacts DEF PendingAhead, Submits
  <2>3. Ahead(k)'
    BY <1>1, <2>1, <2>2, NoNewRefs
  <2>4. \A j \in Clients \ {k} :
          /\ command'[j] = command[j] /\ phase'[j] = phase[j] /\ stage'[j] = stage[j]
          /\ PendingAhead(j)' => PendingAhead(j)
    BY <1>1 DEF OthersKept, PendingAhead, Submits, SubmitUpdates
  <2>5. \A j \in Clients \ {k} : Ahead(j)'
    BY <1>1, <2>1, <2>4, NoNewRefs
  <2>. QED  BY <1>1, <2>1, <2>3, <2>5, NoNewRefs
<1>5. Progress(k)'
  <2>1. Progress(k) /\ SubmitUpdates(k)' = SubmitUpdates(k)
    BY <1>1, Begun DEF SubmitUpdates
  <2>2. Known(c.ref) => Known(c.ref)'
    BY <1>1, FactsGrow
  <2>3. SubmitProgress(k)'
    BY <1>1, <2>1, <2>2 DEF Progress, SubmitProgress, Submits
  <2>. QED  BY <1>1, <2>3 DEF Progress, InStep, AnswerProgress, Answers, FoundOK
<1>. QED  BY <1>1, <1>3, <1>4, <1>5, OwnWriteSafe

(* The request has been received, so that the reference is known; and no   *)
(* answer has arrived, unless an earlier submission's has.                 *)
LEMMA WritePending ==
    ASSUME IInv, NEW k \in Clients, NEW c, c = command[k],
           c.kind = "submit", updates[k] = Tail(SubmitUpdates(k)),
           NEW r, NEW i, c.at = r, c.issue = i,
           OwnWritten(k, r, i, Status("pending"), TRUE)
    PROVE  IInv'
<1>1. /\ Grows /\ Types' /\ TypeOK' /\ OthersKept(k)
      /\ Uuids' = Uuids /\ \A p \in Repos : RowIds(p)' = RowIds(p)
      /\ r \in Repos /\ i \in RowIds(r)
      /\ phase[k] = "updating" /\ stage[k] = "none" /\ stage'[k] = "none"
      /\ phase'[k] = "updating" /\ command'[k] = c /\ updates'[k] = Tail(updates[k])
  BY DEF OwnWritten
<1>2. /\ issues'[r][i].labels = issues[r][i].labels \cup {Status("pending")}
      /\ \A p \in Repos : \A j \in RowIds(p) :
            p # r \/ j # i => issues'[p][j] = issues[p][j]
  BY OtherLabelFacts DEF OwnWritten
<1>3. /\ StatusOK(r, i) /\ AnsweredOK(r, i) /\ Static(k) /\ Progress(k) /\ Ahead(k)
  BY <1>1, RowByRow, Begun DEF IInv
<1>4. c.ref = Uuid(r, i) /\ Known(c.ref) /\ PendingAhead(k)
  BY <1>1, <1>3, UpdateFacts
     DEF Static, SubmissionOK, Progress, SubmitProgress, Submits, PendingAhead, Own, Id
<1>5. RowOK(r, i)' /\ Refs(r, i)' = Refs(r, i)
  <2>1. IsReceived(issues'[r][i].labels) => IsReceived(issues[r][i].labels)
    BY <1>2, OtherLabelFacts DEF IsReceived
  <2>2. issues'[r][i].labels \subseteq issues[r][i].labels
           \cup {Outbound, Status("pending"), Status("answered"), Status("resolved")}
    BY <1>2
  <2>. QED  BY <1>1, <1>4, <2>1, <2>2, RowRelabelled
<1>6. StatusOK(r, i)'
  <2>1. Status("resolved") \in issues'[r][i].labels => Status("resolved") \in issues[r][i].labels
    BY <1>2, OtherLabelFacts
  <2>2. Exempt(r, i) => Exempt(r, i)'
    BY <1>1, FactsGrow
  <2>3. Status("resolved") \notin issues[r][i].labels \/ Exempt(r, i)
    BY <1>3, <1>4 DEF Ahead, NotYetResolved, OwnIssue, Own, Id
  <2>. QED  BY <2>1, <2>2, <2>3 DEF StatusOK
<1>7. AnsweredOK(r, i)'
  <2>1. Status("answered") \in issues'[r][i].labels => Status("answered") \in issues[r][i].labels
    BY <1>2, OtherLabelFacts
  <2>2. /\ Refs(r, i) \subseteq Uuids
        /\ \A u \in Uuids : IsDone(u) => IsDone(u)'
    BY <1>1, FactsGrow DEF Refs, RefsOf
  <2>3. Passed(r, i) => Passed(r, i)'
    BY <1>1, FactsGrow
  <2>. QED  BY <1>3, <1>5, <2>1, <2>2, <2>3 DEF AnsweredOK
<1>8. RowsOK'
  BY <1>1, <1>2, <1>5, <1>6, <1>7, WrittenRows
<1>9. RefIsUnique' /\ \A j \in Clients : Ahead(j)'
  <2>1. \A p \in Repos : \A j \in RowIds(p) :
          issues'[p][j].labels \subseteq
             issues[p][j].labels \cup {Outbound, Status("pending"), Status("answered")}
    BY <1>2
  <2>2. Ahead(k)'
    BY <1>1, <1>4, <2>1, NoNewRefs
  <2>3. \A j \in Clients \ {k} :
          /\ command'[j] = command[j] /\ phase'[j] = phase[j] /\ stage'[j] = stage[j]
          /\ PendingAhead(j)' => PendingAhead(j)
    BY <1>1 DEF OthersKept, PendingAhead, Submits, SubmitUpdates
  <2>4. \A j \in Clients \ {k} : Ahead(j)'
    BY <1>1, <2>1, <2>3, NoNewRefs
  <2>. QED  BY <1>1, <2>1, <2>2, <2>4, NoNewRefs
<1>10. Progress(k)'
  <2>1. SubmitUpdates(k)' = SubmitUpdates(k)
    BY <1>1 DEF SubmitUpdates
  <2>2. Known(c.ref)'
    BY <1>1, <1>4, FactsGrow
  <2>3. SubmitProgress(k)'
    BY <1>1, <2>1, <2>2 DEF SubmitProgress, Submits
  <2>. QED  BY <1>1, <2>3 DEF Progress, InStep, AnswerProgress, Answers, FoundOK
<1>. QED  BY <1>1, <1>8, <1>9, <1>10, OwnWriteSafe

(* What is answered came from another repository; the server has said that *)
(* its issue is done.                                                      *)
LEMMA WriteAnswered ==
    ASSUME IInv, NEW k \in Clients, NEW c, c = command[k],
           c.kind = "answer", updates[k] = AnswerUpdates(k),
           NEW r, NEW i, c.at = r, c.issue = i,
           OwnWritten(k, r, i, Status("answered"), TRUE)
    PROVE  IInv'
<1>1. /\ Grows /\ Types' /\ TypeOK' /\ OthersKept(k)
      /\ Uuids' = Uuids /\ \A p \in Repos : RowIds(p)' = RowIds(p)
      /\ r \in Repos /\ i \in RowIds(r)
      /\ phase[k] = "updating" /\ stage[k] = "none" /\ stage'[k] = "none"
      /\ phase'[k] = "updating" /\ command'[k] = c /\ updates'[k] = Tail(updates[k])
  BY DEF OwnWritten
<1>2. /\ issues'[r][i].labels = issues[r][i].labels \cup {Status("answered")}
      /\ \A p \in Repos : \A j \in RowIds(p) :
            p # r \/ j # i => issues'[p][j] = issues[p][j]
  BY OtherLabelFacts DEF OwnWritten
<1>3. /\ StatusOK(r, i) /\ Static(k) /\ Progress(k)
  BY <1>1, RowByRow, Begun DEF IInv
<1>4. /\ RefLabel(c.ref) \in issues[r][i].labels /\ c.ref \in Uuids
      /\ c.to \in Repos /\ SourceLabel(c.to) \in issues[r][i].labels
      /\ Passed(r, i) \/ IsDone(c.ref)
  BY <1>1, <1>3 DEF Static, WellFormed, AnswerOK, Progress, AnswerProgress, Answers,
                    OwnIssue, Own, Id, Server
<1>5. RowOK(r, i)' /\ Refs(r, i)' = Refs(r, i)
  <2>1. IsReceived(issues[r][i].labels)
    BY <1>4 DEF IsReceived
  <2>2. HasStatus(issues'[r][i].labels) => HasStatus(issues[r][i].labels)
    BY <1>2, OtherLabelFacts DEF HasStatus
  <2>3. issues'[r][i].labels \subseteq issues[r][i].labels
           \cup {Outbound, Status("pending"), Status("answered"), Status("resolved")}
    BY <1>2
  <2>. QED  BY <1>1, <2>1, <2>2, <2>3, RowRelabelled
<1>6. /\ Passed(r, i) => Passed(r, i)'
      /\ Exempt(r, i) => Exempt(r, i)'
      /\ IsDone(c.ref) => IsDone(c.ref)'
  BY <1>1, <1>4, FactsGrow
<1>7. StatusOK(r, i)'
  <2>1. \A s \in {"pending", "resolved"} :
          Status(s) \in issues'[r][i].labels => Status(s) \in issues[r][i].labels
    BY <1>2, OtherLabelFacts
  <2>. QED  BY <1>3, <1>6, <2>1 DEF StatusOK
<1>8. AnsweredOK(r, i)'
  <2>1. c.ref \in Refs(r, i)
    BY <1>4 DEF Refs, RefsOf
  <2>. QED  BY <1>4, <1>5, <1>6, <2>1 DEF AnsweredOK
<1>9. RowsOK'
  BY <1>1, <1>2, <1>5, <1>7, <1>8, WrittenRows
<1>10. RefIsUnique' /\ \A j \in Clients : Ahead(j)'
  <2>1. \A p \in Repos : \A j \in RowIds(p) :
          issues'[p][j].labels \subseteq
             issues[p][j].labels \cup {Outbound, Status("pending"), Status("answered")}
    BY <1>2
  <2>2. ~Submits(k)'
    BY <1>1 DEF Submits
  <2>3. \A j \in Clients \ {k} :
          /\ command'[j] = command[j] /\ phase'[j] = phase[j] /\ stage'[j] = stage[j]
          /\ PendingAhead(j)' => PendingAhead(j)
    BY <1>1 DEF OthersKept, PendingAhead, Submits, SubmitUpdates
  <2>4. \A j \in Clients \ {k} : Ahead(j)'
    BY <1>1, <2>1, <2>3, NoNewRefs
  <2>5. Ahead(k)'
    BY <1>1, <2>2 DEF Ahead, NotThere, NotYetResolved, NotYetReferred, PendingAhead
  <2>. QED  BY <1>1, <2>1, <2>4, <2>5, NoNewRefs
<1>11. Progress(k)'
  <2>1. AnswerUpdates(k)' = AnswerUpdates(k)
    BY DEF AnswerUpdates
  <2>2. AnswerProgress(k)'
    BY <1>1, <1>4, <1>6, <2>1 DEF AnswerProgress, Answers, Own, Id
  <2>. QED  BY <1>1, <2>2 DEF Progress, InStep, SubmitProgress, Submits, FoundOK
<1>. QED  BY <1>1, <1>9, <1>10, <1>11, OwnWriteSafe

LEMMA WriteClose ==
    ASSUME IInv, NEW k \in Clients, NEW r, NEW i, OwnWritten(k, r, i, Close, FALSE)
    PROVE  IInv'
<1>1. /\ Grows /\ Types' /\ TypeOK' /\ OthersKept(k)
      /\ Uuids' = Uuids /\ \A p \in Repos : RowIds(p)' = RowIds(p)
      /\ phase[k] = "updating" /\ stage[k] = "none" /\ stage'[k] = "none"
      /\ phase'[k] = "idle"
  BY DEF OwnWritten
<1>2. \A p \in Repos : \A j \in RowIds(p) :
         issues'[p][j].labels \subseteq issues[p][j].labels
  BY DEF OwnWritten
<1>3. RowsOK'
  <2>1. \A p \in Repos : \A j \in RowIds(p) :
           issues'[p][j].labels \subseteq issues[p][j].labels \cup {Outbound}
    BY <1>2
  <2>. QED  BY <1>1, <2>1, NoNewLabels
<1>4. RefIsUnique' /\ \A j \in Clients \ {k} : Ahead(j)'
  <2>1. \A p \in Repos : \A j \in RowIds(p) :
          issues'[p][j].labels \subseteq
             issues[p][j].labels \cup {Outbound, Status("pending"), Status("answered")}
    BY <1>2
  <2>2. \A j \in Clients \ {k} :
          /\ command'[j] = command[j] /\ phase'[j] = phase[j] /\ stage'[j] = stage[j]
          /\ PendingAhead(j)' => PendingAhead(j)
    BY <1>1 DEF OthersKept, PendingAhead, Submits, SubmitUpdates
  <2>. QED  BY <1>1, <2>1, <2>2, NoNewRefs
<1>. QED  BY <1>1, <1>3, <1>4, OwnWriteSafe

(* The reference is the issue's own uuid, which no other issue of its      *)
(* repository has; another client that submits the issue does so again.    *)
LEMMA WriteRef ==
    ASSUME IInv, NEW k \in Clients, NEW c, c = command[k], c.kind = "submit",
           NEW r, NEW i, c.at = r, c.issue = i, NEW u, c.ref = u,
           OwnWritten(k, r, i, RefLabel(u), FALSE)
    PROVE  IInv'
<1>1. /\ Grows /\ Types' /\ TypeOK' /\ OthersKept(k) /\ UNCHANGED history
      /\ Uuids' = Uuids /\ \A p \in Repos : RowIds(p)' = RowIds(p)
      /\ r \in Repos /\ i \in RowIds(r)
      /\ phase[k] = "updating" /\ stage[k] = "none" /\ stage'[k] = "none"
      /\ phase'[k] = "idle"
  BY DEF OwnWritten
<1>2. /\ issues'[r][i].labels = issues[r][i].labels \cup {RefLabel(u)}
      /\ \A p \in Repos : \A j \in RowIds(p) :
            p # r \/ j # i => issues'[p][j] = issues[p][j]
  BY RefLabelFacts DEF OwnWritten
<1>3. /\ RowOK(r, i) /\ StatusOK(r, i) /\ AnsweredOK(r, i) /\ Submits(k) /\ Static(k)
      /\ issues'[r][i].for = issues[r][i].for
  BY <1>1, RowByRow, Begun DEF IInv, Rows, Submits, Grows
<1>4. /\ u \in Uuids /\ u = Uuid(r, i) /\ u[1] = r /\ u[2] = i
      /\ issues[r][i].for = u \/ issues[r][i].for \in passedOn
  BY <1>3, UuidFacts
     DEF Static, WellFormed, SubmissionOK, Submits, OwnIssue, Own, Id
<1>5. /\ \A w : RefLabel(w) \in issues'[r][i].labels => w = u \/ RefLabel(w) \in issues[r][i].labels
      /\ \A p \in Repos : SourceLabel(p) \in issues'[r][i].labels => SourceLabel(p) \in issues[r][i].labels
      /\ \A s \in {"pending", "answered", "resolved"} :
            Status(s) \in issues'[r][i].labels => Status(s) \in issues[r][i].labels
      /\ Inbound \in issues'[r][i].labels => Inbound \in issues[r][i].labels
  BY <1>2, RefLabelFacts
<1>6. /\ IsReceived(issues'[r][i].labels) => IsReceived(issues[r][i].labels)
      /\ HasStatus(issues'[r][i].labels) => HasStatus(issues[r][i].labels)
  BY <1>5 DEF IsReceived, HasStatus
<1>7. /\ Refs(r, i) \subseteq Refs(r, i)' /\ Refs(r, i) \subseteq Uuids
      /\ Refs(r, i)' \subseteq Refs(r, i) \cup {u}
  <2>1. Refs(r, i) \subseteq Refs(r, i)'
    BY <1>1, FactsGrow
  <2>2. Refs(r, i)' \subseteq Refs(r, i) \cup {u}
    BY <1>1, <1>5 DEF Refs, RefsOf
  <2>3. Refs(r, i) \subseteq Uuids
    BY DEF Refs, RefsOf
  <2>. QED  BY <2>1, <2>2, <2>3
<1>8. /\ \A w : Known(w) => Known(w)'
      /\ Passed(r, i) => Passed(r, i)'
      /\ Exempt(r, i) => Exempt(r, i)'
      /\ \A w \in Uuids : IsDone(w) => IsDone(w)'
      /\ \A w : RefLabel(w) \in issues[r][i].labels => RefLabel(w) \in issues'[r][i].labels
  BY <1>1, FactsGrow
<1>9. passedOn' = passedOn /\ resubmitted' = resubmitted
  BY <1>1 DEF history
<1>10. RowOK(r, i)'
  <2>1. RefsExplained(r, i)'
    BY <1>3, <1>4, <1>7, <1>9 DEF RowOK, RefsExplained
  <2>2. ReceivedHasRef(r, i)'
    BY <1>3, <1>6, <1>8 DEF RowOK, ReceivedHasRef
  <2>3. SourceExplained(r, i)'
    BY <1>3, <1>5, <1>8 DEF RowOK, SourceExplained
  <2>4. OwnRef(r, i)'
    BY <1>3, <1>4, <1>7, <1>9 DEF RowOK, OwnRef
  <2>5. StatusExplained(r, i)'
    BY <1>3, <1>6, <1>7, <1>8 DEF RowOK, StatusExplained
  <2>. QED  BY <2>1, <2>2, <2>3, <2>4, <2>5 DEF RowOK
<1>11. StatusOK(r, i)'
  BY <1>3, <1>5, <1>8 DEF StatusOK
<1>12. AnsweredOK(r, i)'
  BY <1>3, <1>5, <1>7, <1>8 DEF AnsweredOK
<1>13. RowsOK'
  BY <1>1, <1>2, <1>10, <1>11, <1>12, WrittenRows
<1>14. RefIsUnique'
  <2> SUFFICES ASSUME NEW p \in Repos, NEW a \in RowIds(p), NEW b \in RowIds(p),
                      NEW w \in Uuids, w \notin passedOn,
                      RefLabel(w) \in issues'[p][a].labels, RefLabel(w) \in issues'[p][b].labels
               PROVE  a = b
    BY <1>1, <1>9 DEF RefIsUnique, RowIds
  <2>1. CASE p = r /\ w = u
    <3>1. \A d \in RowIds(r) : w \in Refs(r, d) => d = i
      BY <1>4, <2>1 DEF IInv, Rows, RowOK, OwnRef
    <3>2. \A d \in RowIds(r) : d # i /\ RefLabel(w) \in issues'[r][d].labels => w \in Refs(r, d)
      BY <1>1, <1>2 DEF Refs, RefsOf
    <3>. QED  BY <2>1, <3>1, <3>2
  <2>2. CASE p # r \/ w # u
    <3>1. RefLabel(w) \in issues[p][a].labels /\ RefLabel(w) \in issues[p][b].labels
      BY <1>2, <1>5, <2>2
    <3>. QED  BY <3>1 DEF IInv, RefIsUnique, RowIds
  <2>. QED  BY <2>1, <2>2
<1>15. ASSUME NEW j \in Clients, j # k
       PROVE  Ahead(j)'
  <2>1. PICK d : d = command[j]
    OBVIOUS
  <2>2. /\ command[j] = d /\ command'[j] = d /\ phase'[j] = phase[j] /\ stage'[j] = stage[j]
        /\ PendingAhead(j)' => PendingAhead(j)
    BY <1>1, <1>15, <2>1 DEF OthersKept, PendingAhead, Submits, SubmitUpdates
  <2> SUFFICES ASSUME Submits(j)
               PROVE  /\ \A b \in RowIds(d.to)' :
                           RefLabel(d.ref) \in issues'[d.to][b].labels =>
                             b \in RowIds(d.to) /\ RefLabel(d.ref) \in issues[d.to][b].labels
                      /\ Status("resolved") \in issues'[d.at][d.issue].labels =>
                           Status("resolved") \in issues[d.at][d.issue].labels
                      /\ RefLabel(d.ref) \in issues'[d.at][d.issue].labels =>
                           \/ RefLabel(d.ref) \in issues[d.at][d.issue].labels
                           \/ d.ref \in resubmitted' \cup passedOn'
    BY <1>1, <2>2, AheadKept
  <2>3. /\ d.at \in Repos /\ d.to \in Repos /\ d.at # d.to /\ d.issue \in RowIds(d.at)
        /\ d.ref = Uuid(d.at, d.issue)
    BY <2>1, Begun DEF Static, WellFormed, SubmissionOK, Submits, Own, Server, Id
  <2>4. d.ref = u => d.at = r /\ d.ref \in resubmitted
    <3>1. d.ref = u => d.at = r
      BY <1>4, <2>3 DEF Uuid
    <3>2. d.ref = u => d.ref \in resubmitted
      BY <1>3, <1>15, <2>1 DEF IInv, Submissions, SubmittedOnce
    <3>. QED  BY <3>1, <3>2
  <2>5. \A p \in Repos : \A b \in RowIds(p) :
           /\ Status("resolved") \in issues'[p][b].labels => Status("resolved") \in issues[p][b].labels
           /\ RefLabel(d.ref) \in issues'[p][b].labels =>
                 RefLabel(d.ref) \in issues[p][b].labels \/ (d.ref = u /\ p = r)
    BY <1>2, <1>5
  <2>. QED  BY <1>1, <1>9, <2>3, <2>4, <2>5
<1>. QED  BY <1>1, <1>13, <1>14, <1>15, OwnWriteSafe

LEMMA UpdateOwnIssueStep ==
    ASSUME IInv, NEW k \in Clients, UpdateOwnIssue(k)
    PROVE  IInv'
<1>1. PICK c : c = command[k]
  OBVIOUS
<1>2. PICK r, i, u : r = c.at /\ i = c.issue /\ u = c.ref
  OBVIOUS
<1>3. /\ Static(k) /\ Progress(k) /\ phase[k] = "updating"
  BY Begun DEF UpdateOwnIssue
<1>4. /\ r \in Repos /\ i \in RowIds(r) /\ u \in Uuids /\ c.kind \in {"submit", "answer"}
  BY <1>1, <1>2, <1>3 DEF Static, WellFormed, Own, Id
<1>5. ASSUME NEW x \in Label \cup {Close}, x = Head(updates[k]), NEW others \in BOOLEAN,
             others <=> Len(updates[k]) # 1, others => Tail(updates[k]) # <<>>
      PROVE  OwnWritten(k, r, i, x, others)
  <2>1. /\ UNCHANGED history /\ stage' = stage /\ found' = found
        /\ commands' = commands /\ failures' = failures
        /\ updates' = [updates EXCEPT ![k] = Tail(updates[k])]
    BY DEF UpdateOwnIssue
  <2>2. issues' = [issues EXCEPT ![r][i] = Updated(issues[r][i], x)]
    BY <1>1, <1>2, <1>5 DEF UpdateOwnIssue, Own
  <2>3. /\ ~others => /\ phase' = [phase EXCEPT ![k] = "idle"]
                      /\ command' = [command EXCEPT ![k] = Nobody]
        /\ others => phase' = phase /\ command' = command
    BY <1>5 DEF UpdateOwnIssue, EndProcess
  <2>4. OwnChange(k, r, i, x, others)
    BY <1>3, <1>4, <1>5, <2>1, <2>2, <2>3 DEF OwnChange
  <2>. QED  BY <2>4, OwnWrite
<1>6. CASE c.kind = "submit"
  <2>1. updates[k] \in {SubmitUpdates(k), Tail(SubmitUpdates(k)), Tail(Tail(SubmitUpdates(k)))}
    BY <1>1, <1>3, <1>6 DEF Progress, SubmitProgress, Submits
  <2>2. CASE updates[k] = SubmitUpdates(k)
    <3>1. Outbound \in Label \cup {Close}
      BY LabelFacts
    <3>2. /\ Outbound = Head(updates[k]) /\ Tail(updates[k]) # <<>>
          /\ TRUE <=> Len(updates[k]) # 1
      BY <2>2, UpdateFacts
    <3>3. OwnWritten(k, r, i, Outbound, TRUE)
      BY <1>5, <3>1, <3>2
    <3>. QED  BY <1>1, <1>6, <2>2, <3>3, WriteOutbound
  <2>3. CASE updates[k] = Tail(SubmitUpdates(k))
    <3>1. Status("pending") \in Label \cup {Close}
      BY LabelFacts
    <3>2. /\ Status("pending") = Head(updates[k]) /\ Tail(updates[k]) # <<>>
          /\ TRUE <=> Len(updates[k]) # 1
      <4>1. /\ Head(Tail(SubmitUpdates(k))) = Status("pending")
            /\ Len(Tail(SubmitUpdates(k))) = 2 /\ Tail(Tail(SubmitUpdates(k))) # <<>>
        BY UpdateFacts
      <4>. QED  BY <2>3, <4>1
    <3>3. OwnWritten(k, r, i, Status("pending"), TRUE)
      BY <1>5, <3>1, <3>2
    <3>. QED  BY <1>1, <1>2, <1>6, <2>3, <3>3, WritePending
  <2>4. CASE updates[k] = Tail(Tail(SubmitUpdates(k)))
    <3>1. /\ RefLabel(u) \in Label \cup {Close} /\ RefLabel(u) = Head(updates[k])
          /\ FALSE <=> Len(updates[k]) # 1
      BY <1>1, <1>2, <1>4, <2>4, UpdateFacts, LabelFacts
    <3>2. OwnWritten(k, r, i, RefLabel(u), FALSE)
      BY <1>5, <3>1
    <3>. QED  BY <1>1, <1>2, <1>6, <3>2, WriteRef
  <2>. QED  BY <2>1, <2>2, <2>3, <2>4
<1>7. CASE c.kind = "answer"
  <2>1. updates[k] \in {AnswerUpdates(k), Tail(AnswerUpdates(k))}
    BY <1>1, <1>3, <1>7 DEF Progress, AnswerProgress, Answers
  <2>2. CASE updates[k] = AnswerUpdates(k)
    <3>1. Status("answered") \in Label \cup {Close}
      BY LabelFacts
    <3>2. /\ Status("answered") = Head(updates[k]) /\ Tail(updates[k]) # <<>>
          /\ TRUE <=> Len(updates[k]) # 1
      BY <2>2, UpdateFacts
    <3>3. OwnWritten(k, r, i, Status("answered"), TRUE)
      BY <1>5, <3>1, <3>2
    <3>. QED  BY <1>1, <1>2, <1>7, <2>2, <3>3, WriteAnswered
  <2>3. CASE updates[k] = Tail(AnswerUpdates(k))
    <3>1. /\ Close \in Label \cup {Close} /\ Close = Head(updates[k])
          /\ FALSE <=> Len(updates[k]) # 1
      BY <2>3, UpdateFacts
    <3>2. OwnWritten(k, r, i, Close, FALSE)
      BY <1>5, <3>1
    <3>. QED  BY <3>2, WriteClose
  <2>. QED  BY <2>1, <2>2, <2>3
<1>. QED  BY <1>4, <1>6, <1>7

-----------------------------------------------------------------------------
(* The changes that a server makes *)

(* The server writes y for the issue that it works on for client k: the    *)
(* step, and what follows from it.                                         *)
ServerChange(k, t, f, y, s) ==
    /\ t \in Repos /\ f \in RowIds(t) /\ s \in {"ok"} \cup InProgress
    /\ stage[k] \in InProgress /\ found[k] = f /\ command[k].to = t
    /\ IsIssue(y) /\ Extends(y, issues[t][f])
    /\ UNCHANGED history /\ command' = command /\ phase' = phase /\ updates' = updates
    /\ found' = found /\ commands' = commands /\ failures' = failures
    /\ issues' = [issues EXCEPT ![t][f] = y]
    /\ stage' = [stage EXCEPT ![k] = s]

Moved(k, s) ==
    /\ Grows /\ Types' /\ TypeOK' /\ OthersKept(k)
    /\ command'[k] = command[k] /\ phase'[k] = phase[k] /\ phase[k] \notin {"idle", "updating"}
    /\ stage[k] \in InProgress /\ stage'[k] = s /\ InStep(k)'
    /\ \A j \in Clients : PendingAhead(j)' => PendingAhead(j)

ServerWritten(k, t, f, y, s) ==
    /\ Moved(k, s) /\ found'[k] = f /\ UNCHANGED history
    /\ Uuids' = Uuids /\ Label' = Label
    /\ \A p \in Repos : RowIds(p)' = RowIds(p)
    /\ t \in Repos /\ f \in RowIds(t) /\ issues'[t][f] = y
    /\ \A p \in Repos : \A j \in RowIds(p) :
          p # t \/ j # f => issues'[p][j] = issues[p][j]

LEMMA ServerWrite ==
    ASSUME IInv, NEW k \in Clients, NEW t, NEW f, NEW y, NEW s, ServerChange(k, t, f, y, s)
    PROVE  ServerWritten(k, t, f, y, s)
<1>1. /\ t \in Repos /\ f \in RowIds(t) /\ s \in {"ok", "error"} \cup InProgress
      /\ stage[k] \in InProgress /\ stage[k] # "none"
      /\ UNCHANGED history /\ command' = command /\ phase' = phase /\ updates' = updates
      /\ commands' = commands /\ found' = found /\ f = found[k]
      /\ stage' = [stage EXCEPT ![k] = s]
  BY DEF ServerChange, InProgress
<1>2. Numbers /\ failures' = failures
  BY Begun DEF ServerChange
<1>3. /\ Functions' /\ commands' \in 0..MaxCommands /\ OthersKept(k)
      /\ stage'[k] = s /\ found'[k] = f
      /\ phase[k] # "idle" /\ phase[k] # "updating" /\ InStep(k)'
      /\ PendingAhead(k)' => PendingAhead(k)
  <2>1. failures' \in 0..MaxFailures
    BY <1>2 DEF Numbers
  <2>. QED  BY <1>1, <2>1, ServerFrame
<1>4. /\ Grows /\ IssueTypes' /\ Uuids' = Uuids /\ Label' = Label
      /\ issues'[t][f] = y
      /\ \A p \in Repos : RowIds(p)' = RowIds(p)
      /\ \A p \in Repos : \A j \in RowIds(p) :
            p # t \/ j # f => issues'[p][j] = issues[p][j]
  <2>1. /\ UNCHANGED history /\ t \in Repos /\ f \in RowIds(t)
        /\ IsIssue(y) /\ Extends(y, issues[t][f])
        /\ issues' = [issues EXCEPT ![t][f] = y]
    BY DEF ServerChange
  <2>. QED  BY <2>1, RowWritten
<1>5. Numbers'
  BY <1>1, <1>2, <1>4 DEF Numbers, history
<1>6. /\ phase'[k] # "updating" /\ command'[k] = command[k] /\ phase'[k] = phase[k]
      /\ command'[k].to = t
  BY <1>1, <1>3 DEF ServerChange
<1>7. Types' /\ TypeOK'
  <2>1. found'[k] \in DOMAIN issues'[command'[k].to]
    BY <1>1, <1>3, <1>4, <1>6 DEF RowIds
  <2>. QED  BY <1>3, <1>4, <1>5, <1>6, <2>1, WriteTypes
<1>8. \A j \in Clients : PendingAhead(j)' => PendingAhead(j)
  BY <1>1 DEF PendingAhead, Submits, SubmitUpdates
<1>9. Moved(k, s)
  BY <1>1, <1>3, <1>4, <1>6, <1>7, <1>8 DEF Moved
<1>10. UNCHANGED history
  BY <1>1
<1>. QED  BY <1>1, <1>3, <1>4, <1>9, <1>10 DEF ServerWritten

LEMMA MoveSafe ==
    ASSUME IInv, NEW k \in Clients, NEW s, Moved(k, s),
           RowsOK', RefIsUnique', \A j \in Clients : Ahead(j)', Progress(k)'
    PROVE  IInv'
<1>1. /\ Grows /\ Types' /\ TypeOK' /\ OthersKept(k)
      /\ command'[k] = command[k] /\ phase'[k] = phase[k] /\ phase[k] \notin {"idle", "updating"}
      /\ stage[k] \in InProgress
  BY DEF Moved
<1>2. Static(k)'
  BY <1>1, StaticKept
<1>3. \A j \in Clients \ {k} : stage[j] \in InProgress => command[j].to # command'[k].to
  BY <1>1 DEF IInv, Servers, OneInProgress, Server
<1>4. Submits(k)' => \A j \in Clients \ {k} :
          Submits(j) /\ command[j].ref = command'[k].ref => command'[k].ref \in resubmitted'
  BY <1>1 DEF IInv, Submissions, SubmittedOnce, Submits, Grows
<1>. QED  BY <1>1, <1>2, <1>3, <1>4, Assemble

(* What the others see of a server's step. *)
LEMMA OthersMoved ==
    ASSUME NEW k \in Clients, NEW s, Moved(k, s)
    PROVE  \A j \in Clients : /\ command'[j] = command[j] /\ phase'[j] = phase[j]
                              /\ j # k => stage'[j] = stage[j]
                              /\ PendingAhead(j)' => PendingAhead(j)
  BY DEF Moved, OthersKept

(* What closes is the issue whose reference was sent: its own, or the      *)
(* reference is a passed on one.                                           *)
LEMMA ClosedIsReferred ==
    ASSUME IInv, NEW k \in Clients, stage[k] = "applied",
           NEW c, command[k] = c, NEW f, found[k] = f, ~Passed(c.at, c.issue)
    PROVE  c.ref = Uuid(c.to, f)
<1>1. Static(k) /\ Progress(k) /\ Types
  BY Begun DEF IInv
<1>2. /\ phase[k] # "idle" /\ c.kind = "answer" /\ f \in RowIds(c.to)
      /\ RefLabel(c.ref) \in issues[c.to][f].labels
  BY <1>1 DEF Progress, InStep, FoundOK, FoundIssue, Server
<1>3. /\ c.at \in Repos /\ c.to \in Repos /\ c.issue \in RowIds(c.at) /\ c.ref \in Uuids
      /\ RefLabel(c.ref) \in issues[c.at][c.issue].labels
      /\ SourceLabel(c.to) \in issues[c.at][c.issue].labels
  BY <1>1, <1>2 DEF Static, WellFormed, AnswerOK, Answers, OwnIssue, Own, Id, Server
<1>4. PICK r, i, t, u : r = c.at /\ i = c.issue /\ t = c.to /\ u = c.ref
  OBVIOUS
<1>5. /\ r \in Repos /\ t \in Repos /\ i \in RowIds(r) /\ f \in RowIds(t) /\ u \in Uuids
      /\ u \in Refs(r, i) /\ u \in Refs(t, f) /\ SourceLabel(t) \in issues[r][i].labels
  BY <1>2, <1>3, <1>4 DEF Refs, RefsOf
<1>6. RefsExplained(r, i) /\ SourceExplained(r, i) /\ OwnRef(t, f)
  BY <1>5 DEF IInv, Rows, RowOK
<1>7. ~Passed(r, i) /\ Related(issues[r][i]) = Refs(r, i) \cup {issues[r][i].for}
  BY <1>4 DEF Related, Refs
<1>8. u \notin passedOn /\ issues[r][i].for \notin passedOn
  BY <1>5, <1>7 DEF Passed
<1>9. u = issues[r][i].for
  BY <1>5, <1>6, <1>8 DEF RefsExplained
<1>10. u[1] = t
  BY <1>5, <1>6, <1>7, <1>9 DEF SourceExplained
<1>11. u[2] = f
  BY <1>5, <1>6, <1>8, <1>10 DEF OwnRef
<1>. QED  BY <1>4, <1>5, <1>10, <1>11, UuidFacts

LEMMA CloseAnsweredStep ==
    ASSUME IInv, NEW k \in Clients, CloseAnswered(k)
    PROVE  IInv'
<1>1. PICK c : command[k] = c
  OBVIOUS
<1>2. PICK f, t : found[k] = f /\ c.to = t
  OBVIOUS
<1>3. PICK y : y = [issues[t][f] EXCEPT !.closed = TRUE]
  OBVIOUS
<1>4. /\ Static(k) /\ Progress(k) /\ stage[k] = "applied" /\ Types
  BY Begun DEF CloseAnswered, IInv
<1>5. /\ phase[k] # "idle" /\ c.kind = "answer"
      /\ t \in Repos /\ f \in RowIds(t)
      /\ Status("resolved") \in issues[t][f].labels
  BY <1>1, <1>2, <1>4
     DEF Static, WellFormed, Progress, InStep, FoundOK, FoundIssue, Server
<1>6. IsIssue(issues[t][f])
  BY <1>4, <1>5 DEF Types
<1>7. /\ IsIssue(y) /\ Extends(y, issues[t][f])
      /\ y.labels = issues[t][f].labels /\ y.closed = TRUE
  BY <1>3, <1>6 DEF IsIssue, Extends
<1>8. ServerChange(k, t, f, y, "ok")
  <2>1. issues' = [issues EXCEPT ![t][f] = y]
    BY <1>1, <1>2, <1>3 DEF CloseAnswered, UpdateFound, Server, FoundIssue
  <2>. QED  BY <1>1, <1>2, <1>4, <1>5, <1>7, <2>1
            DEF ServerChange, CloseAnswered, SetStage, InProgress
<1>9. ServerWritten(k, t, f, y, "ok")
  BY <1>8, ServerWrite
<1>10. /\ Moved(k, "ok") /\ Uuids' = Uuids /\ \A p \in Repos : RowIds(p)' = RowIds(p)
       /\ issues'[t][f] = y
       /\ \A p \in Repos : \A j \in RowIds(p) : issues'[p][j].labels = issues[p][j].labels
       /\ Grows /\ Types' /\ stage'[k] = "ok" /\ phase'[k] = phase[k] /\ command'[k] = command[k]
       /\ InStep(k)' /\ phase[k] # "updating"
  BY <1>7, <1>9 DEF ServerWritten, Moved
<1>11. RowsOK'
  BY <1>10, NoNewLabels
<1>12. RefIsUnique' /\ \A j \in Clients : Ahead(j)'
  <2>1. \A p \in Repos : \A j \in RowIds(p) :
          issues'[p][j].labels \subseteq
             issues[p][j].labels \cup {Outbound, Status("pending"), Status("answered")}
    BY <1>10
  <2>2. \A j \in Clients :
          /\ command'[j] = command[j] /\ phase'[j] = phase[j]
          /\ stage'[j] \in {"looked", "created"} => stage[j] \in {"looked", "created"}
          /\ PendingAhead(j)' => PendingAhead(j)
    BY <1>10, OthersMoved
  <2>. QED  BY <1>10, <2>1, <2>2, NoNewRefs
<1>13. Progress(k)'
  <2>1. Passed(c.at, c.issue) => Passed(c.at, c.issue)'
    <3>1. c.at \in Repos /\ c.issue \in RowIds(c.at)
      BY <1>1, <1>4, <1>5 DEF Static, WellFormed, Own, Id
    <3>. QED  BY <1>10, <3>1, FactsGrow
  <2>2. ~Passed(c.at, c.issue) => IsDone(c.ref)'
    <3> SUFFICES ASSUME ~Passed(c.at, c.issue) PROVE IsDone(c.ref)'
      OBVIOUS
    <3>1. c.ref = Uuid(t, f)
      BY <1>1, <1>2, <1>4, ClosedIsReferred
    <3>2. c.ref[1] = t /\ c.ref[2] = f
      BY <3>1, UuidFacts
    <3>. QED  BY <1>5, <1>7, <1>10, <3>2 DEF IsDone
  <2>3. AnswerProgress(k)'
    BY <1>1, <1>10, <2>1, <2>2 DEF AnswerProgress, Answers, Own, Id
  <2>. QED  BY <1>1, <1>5, <1>10, <2>3 DEF Progress, SubmitProgress, Submits, FoundOK
<1>. QED  BY <1>10, <1>11, <1>12, <1>13, MoveSafe

(* A submission that has still to write "pending" on the issue that is     *)
(* resolved is of an issue that was submitted again or passed on.          *)
LEMMA ResolvedIsExempt ==
    ASSUME IInv, NEW j \in Clients, NEW d, command[j] = d, Submits(j),
           NEW u, RefLabel(u) \in issues[d.at][d.issue].labels
    PROVE  Exempt(d.at, d.issue)
<1>1. Static(j) /\ Ahead(j) /\ LabelledRefs
  BY Begun, RefsAreLabels DEF IInv
<1>2. PICK p, b : p = d.at /\ b = d.issue
  OBVIOUS
<1>3. /\ p \in Repos /\ b \in RowIds(p) /\ d.ref \in Uuids
      /\ issues[p][b].for = d.ref \/ issues[p][b].for \in passedOn
      /\ RefLabel(d.ref) \in issues[p][b].labels => d.ref \in resubmitted \cup passedOn
  BY <1>1, <1>2 DEF Static, WellFormed, SubmissionOK, Submits, Ahead, NotYetReferred,
                    OwnIssue, Own, Id
<1>4. /\ RefsExplained(p, b) /\ RefLabel(u) \in issues[p][b].labels
      /\ u \in Refs(p, b) /\ Related(issues[p][b]) = Refs(p, b) \cup {issues[p][b].for}
  BY <1>1, <1>2, <1>3 DEF IInv, Rows, RowOK, LabelledRefs
<1>5. CASE issues[p][b].for \in passedOn
  BY <1>2, <1>4, <1>5 DEF Exempt
<1>6. CASE u \in passedOn
  BY <1>2, <1>4, <1>6 DEF Exempt
<1>7. CASE u = issues[p][b].for /\ issues[p][b].for = d.ref
  BY <1>2, <1>3, <1>4, <1>7 DEF Exempt
<1>. QED  BY <1>3, <1>4, <1>5, <1>6, <1>7 DEF RefsExplained

LEMMA ApplyAnswerStep ==
    ASSUME IInv, NEW k \in Clients, ApplyAnswer(k)
    PROVE  IInv'
<1>1. PICK c : command[k] = c
  OBVIOUS
<1>2. PICK f, t, u : found[k] = f /\ c.to = t /\ c.ref = u
  OBVIOUS
<1>3. PICK y : y = [issues[t][f] EXCEPT !.results = @ \o toCopy[k],
                        !.labels = (@ \ {Status("pending")}) \cup {Status("resolved")}]
  OBVIOUS
<1>4. /\ Static(k) /\ Progress(k) /\ stage[k] = "looked" /\ Types /\ c.kind = "answer"
  BY <1>1, Begun DEF ApplyAnswer, IInv
<1>5. /\ phase[k] # "idle" /\ t \in Repos /\ f \in RowIds(t)
      /\ RefLabel(u) \in issues[t][f].labels
  BY <1>1, <1>2, <1>4
     DEF Static, WellFormed, Progress, InStep, FoundOK, FoundIssue, Server
<1>6. IsIssue(issues[t][f])
  BY <1>4, <1>5 DEF Types
<1>7. /\ IsIssue(y) /\ Extends(y, issues[t][f])
      /\ y.labels = (issues[t][f].labels \ {Status("pending")}) \cup {Status("resolved")}
  <2>1. y.labels = (issues[t][f].labels \ {Status("pending")}) \cup {Status("resolved")}
    BY <1>3, <1>6 DEF IsIssue
  <2>2. y.labels \subseteq Label
    BY <1>6, <2>1, LabelFacts DEF IsIssue
  <2>3. IsIssue(y)
    BY <1>3, <1>6, <2>2 DEF IsIssue
  <2>4. y.for = issues[t][f].for /\ y.closed = issues[t][f].closed
    BY <1>3, <1>6 DEF IsIssue
  <2>. QED  BY <2>1, <2>3, <2>4 DEF Extends
<1>8. ServerChange(k, t, f, y, "applied")
  <2>1. issues' = [issues EXCEPT ![t][f] = y]
    BY <1>1, <1>2, <1>3 DEF ApplyAnswer, UpdateFound, Server, FoundIssue
  <2>. QED  BY <1>1, <1>2, <1>4, <1>5, <1>7, <2>1
            DEF ServerChange, ApplyAnswer, SetStage, InProgress
<1>9. ServerWritten(k, t, f, y, "applied")
  BY <1>8, ServerWrite
<1>10. /\ Moved(k, "applied") /\ Uuids' = Uuids /\ \A p \in Repos : RowIds(p)' = RowIds(p)
       /\ issues'[t][f] = y /\ found'[k] = f
       /\ \A p \in Repos : \A j \in RowIds(p) :
             p # t \/ j # f => issues'[p][j] = issues[p][j]
       /\ Grows /\ Types' /\ stage'[k] = "applied" /\ phase'[k] = phase[k] /\ command'[k] = c
       /\ InStep(k)' /\ phase[k] # "updating" /\ UNCHANGED history
  BY <1>1, <1>9 DEF ServerWritten, Moved
<1>11. /\ \A w : RefLabel(w) \in issues'[t][f].labels <=> RefLabel(w) \in issues[t][f].labels
       /\ Status("pending") \notin issues'[t][f].labels
       /\ Status("answered") \in issues'[t][f].labels => Status("answered") \in issues[t][f].labels
       /\ Status("resolved") \in issues'[t][f].labels
       /\ IsReceived(issues'[t][f].labels) => IsReceived(issues[t][f].labels)
  BY <1>7, <1>10, RefLabelFacts, OtherLabelFacts DEF IsReceived
<1>12. RowOK(t, f)' /\ Refs(t, f)' = Refs(t, f)
  <2>1. Known(Uuid(t, f)) \/ Refs(t, f) \ {Uuid(t, f)} # {}
    <3>1. Known(u) /\ u \in Refs(t, f)
      BY <1>4, <1>5, RefsAreLabels DEF Known, LabelledRefs
    <3>. QED  BY <3>1
  <2>2. issues'[t][f].labels \subseteq issues[t][f].labels
           \cup {Outbound, Status("pending"), Status("answered"), Status("resolved")}
    BY <1>7, <1>10
  <2>. QED  BY <1>5, <1>10, <1>11, <2>1, <2>2, RowRelabelled
<1>13. StatusOK(t, f)'
  BY <1>11 DEF StatusOK
<1>14. AnsweredOK(t, f)'
  <2>1. /\ AnsweredOK(t, f) /\ Refs(t, f) \subseteq Uuids
    BY <1>5, RowByRow DEF IInv, Refs, RefsOf
  <2>2. /\ \A w \in Uuids : IsDone(w) => IsDone(w)'
        /\ Passed(t, f) => Passed(t, f)'
    BY <1>5, <1>10, FactsGrow
  <2>. QED  BY <1>11, <1>12, <2>1, <2>2 DEF AnsweredOK
<1>15. RowsOK'
  BY <1>5, <1>10, <1>12, <1>13, <1>14, WrittenRows
<1>16. \A p \in Repos : \A b \in RowIds(p) : \A w :
          RefLabel(w) \in issues'[p][b].labels <=> RefLabel(w) \in issues[p][b].labels
  BY <1>10, <1>11
<1>17. RefIsUnique'
  BY <1>10, <1>16 DEF IInv, RefIsUnique, RowIds, Grows
<1>18. ASSUME NEW j \in Clients
       PROVE  Ahead(j)'
  <2>1. PICK d : command[j] = d
    OBVIOUS
  <2>2. /\ command'[j] = d /\ phase'[j] = phase[j]
        /\ stage'[j] \in {"looked", "created"} => stage[j] \in {"looked", "created"}
        /\ PendingAhead(j)' => PendingAhead(j)
    BY <1>10, <2>1, OthersMoved
  <2>3. Submits(j) =>
          /\ d.at \in Repos /\ d.to \in Repos /\ d.issue \in RowIds(d.at)
    BY <2>1, Begun DEF Static, WellFormed, Submits, Own, Server, Id
  <2>4. Submits(j) /\ Status("resolved") \in issues'[d.at][d.issue].labels =>
          Status("resolved") \in issues[d.at][d.issue].labels \/ Exempt(d.at, d.issue)'
    <3> SUFFICES ASSUME Submits(j), d.at = t, d.issue = f
                 PROVE  Exempt(d.at, d.issue)'
      BY <1>10, <2>3
    <3>1. Exempt(d.at, d.issue)
      BY <1>5, <2>1, ResolvedIsExempt
    <3>. QED  BY <1>10, <2>3, <3>1, FactsGrow
  <2>. QED  BY <1>10, <1>16, <2>1, <2>2, <2>3, <2>4, AheadKept
<1>19. Progress(k)'
  <2>1. FoundOK(k)'
    BY <1>2, <1>4, <1>5, <1>10, <1>11 DEF FoundOK, FoundIssue, Server
  <2>. QED  BY <1>4, <1>10, <2>1 DEF Progress, AnswerProgress, SubmitProgress, Submits
<1>. QED  BY <1>10, <1>15, <1>17, <1>18, <1>19, MoveSafe

LEMMA CreateIssueStep ==
    ASSUME IInv, NEW k \in Clients, CreateIssue(k)
    PROVE  IInv'
<1>1. PICK c : command[k] = c
  OBVIOUS
<1>2. PICK t, u, n, y : t = c.to /\ u = c.ref /\ n = Len(issues[t]) + 1 /\ y = NewIssue(u)
  OBVIOUS
<1>3. /\ Functions /\ Numbers /\ Static(k) /\ Progress(k) /\ stage[k] = "looked" /\ Types
      /\ c.kind = "submit"
  BY <1>1, Begun DEF CreateIssue, IInv
<1>4. phase[k] # "idle" /\ t \in Repos /\ u \in Uuids
  BY <1>1, <1>2, <1>3 DEF Static, WellFormed, Progress, InStep, Server
<1>5. /\ y.for = u /\ y.labels = {} /\ y.closed = FALSE
      /\ y \in [for : {u}, labels : {{}}, closed : BOOLEAN, results : {y.results}]
  BY <1>2 DEF NewIssue
<1>6. /\ issues' = [issues EXCEPT ![t] = Append(@, y)]
      /\ found' = [found EXCEPT ![k] = n] /\ stage' = [stage EXCEPT ![k] = "created"]
      /\ UNCHANGED history /\ command' = command /\ phase' = phase /\ updates' = updates
      /\ commands' = commands /\ failures' = failures
  BY <1>1, <1>2 DEF CreateIssue, SetStage, Server, NewId
<1>7. /\ ByRepo'
      /\ \A p \in Repos : /\ RowIds(p) \subseteq RowIds(p)' /\ IsTable(p)'
                          /\ p # t => RowIds(p)' = RowIds(p)
      /\ RowIds(t)' = RowIds(t) \cup {n} /\ n \notin RowIds(t) /\ issues'[t][n] = y
      /\ \A p \in Repos : \A j \in RowIds(p) : issues'[p][j] = issues[p][j]
  <2>1. issues' = [issues EXCEPT ![t] = Append(@, y)]
    BY <1>6
  <2>2. /\ ByRepo'
        /\ \A p \in Repos : /\ RowIds(p) \subseteq RowIds(p)' /\ IsTable(p)'
                            /\ p # t => RowIds(p)' = RowIds(p)
        /\ RowIds(t)' = RowIds(t) \cup {Len(issues[t]) + 1}
        /\ Len(issues[t]) + 1 \notin RowIds(t)
        /\ issues'[t][Len(issues[t]) + 1] = y
        /\ \A p \in Repos : \A j \in RowIds(p) : issues'[p][j] = issues[p][j]
    BY <1>3, <1>4, <2>1, RowAppended
  <2>. QED  BY <1>2, <2>2
<1>8. Grows
  BY <1>6, <1>7 DEF Grows, history
<1>9. Uuids \subseteq Uuids' /\ Label \subseteq Label'
  BY <1>8, NamesGrow
<1>10. IssueTypes'
  <2>1. ASSUME NEW p \in Repos, NEW j \in RowIds(p)'
        PROVE  issues'[p][j] \in [for : Uuids', labels : SUBSET (Label'), closed : BOOLEAN,
                                  results : {issues'[p][j].results}]
    <3>1. CASE p = t /\ j = n
      BY <1>4, <1>5, <1>7, <1>9, <3>1
    <3>2. CASE ~(p = t /\ j = n)
      <4>1. j \in RowIds(p) /\ issues'[p][j] = issues[p][j]
        BY <1>7, <3>2
      <4>2. issues[p][j] \in [for : Uuids, labels : SUBSET Label, closed : BOOLEAN,
                              results : {issues[p][j].results}]
        BY <1>3, <4>1 DEF Types, IsIssue
      <4>. QED  BY <1>9, <4>1, <4>2
    <3>. QED  BY <3>1, <3>2
  <2>. QED  BY <1>7, <2>1 DEF IssueTypes, IsIssue
<1>11. /\ Functions' /\ OthersKept(k) /\ stage'[k] = "created" /\ found'[k] = n
       /\ phase[k] \notin {"idle", "updating"} /\ InStep(k)'
       /\ commands' \in 0..MaxCommands
  <2>1. failures' \in 0..MaxFailures /\ stage[k] # "none" /\ "created" \in {"ok", "error"} \cup InProgress
    BY <1>3, <1>6 DEF Numbers, InProgress
  <2>. QED  BY <1>6, <2>1, ServerFrame
<1>12. Numbers'
  BY <1>3, <1>6, <1>9 DEF Numbers, history
<1>13. /\ command'[k] = c /\ phase'[k] = phase[k]
  BY <1>1, <1>6
<1>14. Types' /\ TypeOK'
  <2>1. found'[k] \in DOMAIN issues'[command'[k].to]
    BY <1>2, <1>7, <1>11, <1>13 DEF RowIds
  <2>2. phase'[k] # "updating"
    BY <1>11, <1>13
  <2>. QED  BY <1>8, <1>10, <1>11, <1>12, <2>1, <2>2, WriteTypes
<1>15. Moved(k, "created")
  <2>1. \A j \in Clients : PendingAhead(j)' => PendingAhead(j)
    BY <1>6 DEF PendingAhead, Submits, SubmitUpdates
  <2>. QED  BY <1>1, <1>3, <1>8, <1>11, <1>13, <1>14, <2>1 DEF Moved, InProgress
<1>16. \A w, l : l \in issues'[t][n].labels => FALSE
  BY <1>5, <1>7
<1>17. Refs(t, n)' = {}
  BY <1>5, <1>7 DEF Refs, RefsOf
<1>18. RowOK(t, n)' /\ StatusOK(t, n)' /\ AnsweredOK(t, n)'
  BY <1>16, <1>17 DEF RowOK, RefsExplained, ReceivedHasRef, SourceExplained, OwnRef,
     StatusExplained, IsReceived, HasStatus, StatusOK, AnsweredOK
<1>19. RowsOK'
  BY <1>4, <1>7, <1>8, <1>14, <1>18, WrittenRows
<1>20. \A p \in Repos : \A b \in RowIds(p)' : \A w :
          RefLabel(w) \in issues'[p][b].labels =>
             b \in RowIds(p) /\ w \in Uuids /\ RefLabel(w) \in issues[p][b].labels
  <2> SUFFICES ASSUME NEW p \in Repos, NEW b \in RowIds(p)', NEW w,
                      RefLabel(w) \in issues'[p][b].labels
               PROVE  b \in RowIds(p) /\ w \in Uuids /\ RefLabel(w) \in issues[p][b].labels
    OBVIOUS
  <2>1. b \in RowIds(p) /\ issues'[p][b] = issues[p][b]
    BY <1>7, <1>16
  <2>2. issues[p][b].labels \subseteq Label
    BY <1>3, <2>1, RefsAreLabels DEF LabelledRefs
  <2>. QED  BY <2>1, <2>2, LabelFacts
<1>21. RefIsUnique'
  BY <1>8, <1>20 DEF IInv, RefIsUnique, RowIds, Grows
<1>22. ASSUME NEW j \in Clients
       PROVE  Ahead(j)'
  <2>1. PICK d : command[j] = d
    OBVIOUS
  <2>2. /\ command'[j] = d /\ phase'[j] = phase[j]
        /\ stage'[j] \in {"looked", "created"} => stage[j] \in {"looked", "created"}
        /\ PendingAhead(j)' => PendingAhead(j)
    BY <1>3, <1>15, <2>1, OthersMoved
  <2>3. Submits(j) => d.at \in Repos /\ d.to \in Repos /\ d.issue \in RowIds(d.at)
    BY <2>1, Begun DEF Static, WellFormed, Submits, Own, Server, Id
  <2>. QED  BY <1>7, <1>8, <1>20, <2>1, <2>2, <2>3, AheadKept
<1>23. Progress(k)'
  <2>1. FoundOK(k)'
    BY <1>2, <1>3, <1>5, <1>7, <1>11, <1>13 DEF FoundOK, FoundIssue, Server
  <2>. QED  BY <1>3, <1>11, <1>13, <2>1
            DEF Progress, SubmitProgress, Submits, AnswerProgress, Answers
<1>. QED  BY <1>15, <1>19, <1>21, <1>22, <1>23, MoveSafe

(* The new issue gets the labels of the submitted one with its own.  What  *)
(* they say that the new ones do not is due to a passed on reference.      *)
LEMMA LabelIssueStep ==
    ASSUME IInv, NEW k \in Clients, LabelIssue(k)
    PROVE  IInv'
<1>1. PICK c : command[k] = c
  OBVIOUS
<1>2. PICK f, t, u, r, cl : found[k] = f /\ c.to = t /\ c.ref = u /\ c.at = r /\ c.labels = cl
  OBVIOUS
<1>3. PICK y : y = [issues[t][f] EXCEPT !.labels =
                        @ \cup cl \cup {Inbound, Status("open"), SourceLabel(r), RefLabel(u)}]
  OBVIOUS
<1>4. /\ Static(k) /\ Progress(k) /\ stage[k] = "created" /\ Types /\ LabelledRefs /\ Ahead(k)
  BY Begun, RefsAreLabels DEF LabelIssue, IInv
<1>5. /\ phase[k] # "idle" /\ c.kind = "submit" /\ t \in Repos /\ r \in Repos /\ r # t
      /\ f \in RowIds(t) /\ u \in Uuids /\ issues[t][f].for = u
  BY <1>1, <1>2, <1>4
     DEF Static, WellFormed, Progress, InStep, FoundOK, FoundIssue, Server, Own
<1>6. /\ u = Uuid(r, c.issue) /\ cl \subseteq Label
      /\ \A v \in Uuids : RefLabel(v) \in cl => v = u \/ v \in passedOn
      /\ IsReceived(cl) => PassedLabel(cl)
      /\ HasStatus(cl) => u \in resubmitted \/ PassedLabel(cl)
  BY <1>1, <1>2, <1>4, <1>5 DEF Static, SubmissionOK, Submits, Own, Id
<1>7. u[1] = r /\ u # Uuid(t, f)
  BY <1>5, <1>6 DEF Uuid
<1>8. IsIssue(issues[t][f])
  BY <1>4, <1>5 DEF Types
<1>9. /\ IsIssue(y) /\ Extends(y, issues[t][f])
      /\ y.labels = issues[t][f].labels \cup cl
            \cup {Inbound, Status("open"), SourceLabel(r), RefLabel(u)}
  <2>1. y.labels = issues[t][f].labels \cup cl
            \cup {Inbound, Status("open"), SourceLabel(r), RefLabel(u)}
    BY <1>3, <1>8 DEF IsIssue
  <2>2. {Inbound, Status("open"), SourceLabel(r), RefLabel(u)} \subseteq Label
    BY <1>5, LabelFacts
  <2>3. y.labels \subseteq Label
    BY <1>6, <1>8, <2>1, <2>2 DEF IsIssue
  <2>4. IsIssue(y)
    BY <1>3, <1>8, <2>3 DEF IsIssue
  <2>5. y.for = issues[t][f].for /\ y.closed = issues[t][f].closed
    BY <1>3, <1>8 DEF IsIssue
  <2>. QED  BY <2>1, <2>4, <2>5 DEF Extends
<1>10. ServerChange(k, t, f, y, "ok")
  <2>1. issues' = [issues EXCEPT ![t][f] = y]
    BY <1>1, <1>2, <1>3 DEF LabelIssue, UpdateFound, Server, FoundIssue
  <2>. QED  BY <1>1, <1>2, <1>4, <1>5, <1>9, <2>1
            DEF ServerChange, LabelIssue, SetStage, InProgress
<1>11. ServerWritten(k, t, f, y, "ok")
  BY <1>10, ServerWrite
<1>12. /\ Moved(k, "ok") /\ Uuids' = Uuids /\ \A p \in Repos : RowIds(p)' = RowIds(p)
       /\ issues'[t][f] = y
       /\ \A p \in Repos : \A j \in RowIds(p) :
             p # t \/ j # f => issues'[p][j] = issues[p][j]
       /\ Grows /\ Types' /\ stage'[k] = "ok" /\ phase'[k] = phase[k] /\ command'[k] = c
       /\ InStep(k)' /\ phase[k] # "updating"
       /\ passedOn' = passedOn /\ resubmitted' = resubmitted
  BY <1>1, <1>11 DEF ServerWritten, Moved, history
<1>13. PICK old, new : old = issues[t][f].labels /\ new = issues'[t][f].labels
  OBVIOUS
<1>14. /\ new = old \cup cl \cup {Inbound, Status("open"), SourceLabel(r), RefLabel(u)}
       /\ issues'[t][f].for = u
       /\ \A v \in Uuids : RefLabel(v) \in new => RefLabel(v) \in old \/ v = u \/ v \in passedOn
       /\ \A p \in Repos : SourceLabel(p) \in new =>
             SourceLabel(p) \in old \/ p = r \/ IsReceived(cl)
       /\ Status("answered") \in new => Status("answered") \in old \/ IsReceived(cl)
       /\ \A s \in {"pending", "resolved"} : Status(s) \in new => Status(s) \in old \/ HasStatus(cl)
       /\ RefLabel(u) \in new
  <2>1. new = old \cup cl \cup {Inbound, Status("open"), SourceLabel(r), RefLabel(u)}
    BY <1>9, <1>12, <1>13
  <2>2. issues'[t][f].for = u
    BY <1>5, <1>12 DEF Grows
  <2>3. \A v \in Uuids : RefLabel(v) \in new => RefLabel(v) \in old \/ v = u \/ v \in passedOn
    BY <1>6, <2>1, RefLabelFacts
  <2>4. \A p \in Repos : SourceLabel(p) \in new =>
             SourceLabel(p) \in old \/ p = r \/ IsReceived(cl)
    BY <2>1, RefLabelFacts, OtherLabelFacts DEF IsReceived
  <2>5. Status("answered") \in new => Status("answered") \in old \/ IsReceived(cl)
    BY <2>1, RefLabelFacts, OtherLabelFacts DEF IsReceived
  <2>6. \A s \in {"pending", "resolved"} : Status(s) \in new => Status(s) \in old \/ HasStatus(cl)
    BY <2>1, RefLabelFacts, OtherLabelFacts DEF HasStatus
  <2>. QED  BY <2>1, <2>2, <2>3, <2>4, <2>5, <2>6
<1>15. /\ RowOK(t, f) /\ StatusOK(t, f) /\ AnsweredOK(t, f)
  BY <1>5, RowByRow DEF IInv, Rows
<1>16. /\ u \in Refs(t, f)' /\ Refs(t, f) \subseteq Uuids
       /\ \A v \in Refs(t, f)' : v \in Refs(t, f) \/ v = u \/ v \in passedOn
       /\ (Related(issues[t][f]))' = Refs(t, f)' \cup {u}
  <2>1. u \in Refs(t, f)' /\ Refs(t, f) \subseteq Uuids
    BY <1>5, <1>12, <1>13, <1>14 DEF Refs, RefsOf
  <2>2. \A v \in Refs(t, f)' : v \in Refs(t, f) \/ v = u \/ v \in passedOn
    BY <1>12, <1>13, <1>14 DEF Refs, RefsOf
  <2>3. (Related(issues[t][f]))' = Refs(t, f)' \cup {u}
    BY <1>14 DEF Related, Refs
  <2>. QED  BY <2>1, <2>2, <2>3
<1>17. /\ Passed(t, f) => Passed(t, f)'
       /\ Exempt(t, f) => Exempt(t, f)'
       /\ \A w \in Uuids : IsDone(w) => IsDone(w)'
       /\ Refs(t, f) \subseteq Refs(t, f)'
  BY <1>5, <1>12, FactsGrow
<1>18. PassedLabel(cl) => Passed(t, f)' /\ Exempt(t, f)'
  <2> SUFFICES ASSUME NEW v \in passedOn, RefLabel(v) \in cl
               PROVE  Passed(t, f)' /\ Exempt(t, f)'
    BY DEF PassedLabel
  <2>1. v \in Uuids
    BY <1>6, LabelFacts
  <2>2. v \in Refs(t, f)'
    BY <1>12, <1>13, <1>14, <2>1 DEF Refs, RefsOf
  <2>. QED  BY <1>12, <1>16, <2>2 DEF Passed, Exempt
<1>19. HasStatus(cl) => Exempt(t, f)'
  BY <1>6, <1>12, <1>16, <1>18 DEF Exempt
<1>20. RowOK(t, f)'
  <2>1. RefsExplained(t, f)'
    BY <1>5, <1>12, <1>14, <1>15, <1>16 DEF RowOK, RefsExplained
  <2>2. ReceivedHasRef(t, f)'
    BY <1>7, <1>13, <1>14 DEF ReceivedHasRef
  <2>3. SourceExplained(t, f)'
    BY <1>5, <1>6, <1>7, <1>13, <1>14, <1>15, <1>17, <1>18 DEF RowOK, SourceExplained
  <2>4. OwnRef(t, f)'
    BY <1>5, <1>7, <1>12, <1>15, <1>16 DEF RowOK, OwnRef
  <2>5. StatusExplained(t, f)'
    BY <1>7, <1>16 DEF StatusExplained
  <2>. QED  BY <2>1, <2>2, <2>3, <2>4, <2>5 DEF RowOK
<1>21. StatusOK(t, f)'
  BY <1>13, <1>14, <1>15, <1>17, <1>19 DEF StatusOK
<1>22. AnsweredOK(t, f)'
  BY <1>6, <1>13, <1>14, <1>15, <1>16, <1>17, <1>18 DEF AnsweredOK
<1>23. RowsOK'
  BY <1>5, <1>12, <1>20, <1>21, <1>22, WrittenRows
<1>24. \A i \in RowIds(t) : RefLabel(u) \notin issues[t][i].labels
  BY <1>1, <1>2, <1>4, <1>5 DEF Ahead, NotThere, Server
<1>25. RefIsUnique'
  <2> SUFFICES ASSUME NEW p \in Repos, NEW a \in RowIds(p), NEW b \in RowIds(p),
                      NEW w \in Uuids, w \notin passedOn,
                      RefLabel(w) \in issues'[p][a].labels, RefLabel(w) \in issues'[p][b].labels
               PROVE  a = b
    BY <1>12 DEF RefIsUnique, RowIds
  <2>1. CASE p = t /\ w = u
    BY <1>12, <1>24, <2>1
  <2>2. CASE p # t \/ w # u
    <3>1. RefLabel(w) \in issues[p][a].labels /\ RefLabel(w) \in issues[p][b].labels
      BY <1>12, <1>13, <1>14, <2>2
    <3>. QED  BY <3>1 DEF IInv, RefIsUnique, RowIds
  <2>. QED  BY <2>1, <2>2
<1>26. ASSUME NEW j \in Clients
       PROVE  Ahead(j)'
  <2>1. PICK d : command[j] = d
    OBVIOUS
  <2>2. /\ command'[j] = d /\ phase'[j] = phase[j]
        /\ j # k => stage'[j] = stage[j]
        /\ stage'[j] \in {"looked", "created"} => stage[j] \in {"looked", "created"} /\ j # k
        /\ PendingAhead(j)' => PendingAhead(j)
    BY <1>12, <2>1, OthersMoved
  <2> SUFFICES ASSUME Submits(j)
               PROVE  /\ stage'[j] \in {"looked", "created"} => \A b \in RowIds(d.to)' :
                           RefLabel(d.ref) \in issues'[d.to][b].labels =>
                             b \in RowIds(d.to) /\ RefLabel(d.ref) \in issues[d.to][b].labels
                      /\ Status("resolved") \in issues'[d.at][d.issue].labels =>
                           \/ Status("resolved") \in issues[d.at][d.issue].labels
                           \/ Exempt(d.at, d.issue)'
                      /\ RefLabel(d.ref) \in issues'[d.at][d.issue].labels =>
                           \/ RefLabel(d.ref) \in issues[d.at][d.issue].labels
                           \/ d.ref \in resubmitted' \cup passedOn'
    BY <1>12, <2>1, <2>2, AheadKept
  <2>3. /\ d.at \in Repos /\ d.to \in Repos /\ d.issue \in RowIds(d.at)
        /\ d.ref = Uuid(d.at, d.issue) /\ d.ref \in Uuids
    BY <2>1, Begun DEF Static, WellFormed, SubmissionOK, Submits, Own, Server, Id
  <2>4. stage'[j] \in {"looked", "created"} => d.to # t
    BY <1>1, <1>2, <1>4, <2>1, <2>2 DEF IInv, Servers, OneInProgress, Server, InProgress
  <2>5. CASE d.at = t /\ d.issue = f
    <3>1. d.ref # u
      BY <1>7, <2>3, <2>5
    <3>2. RefLabel(d.ref) \in new => RefLabel(d.ref) \in old \/ d.ref \in passedOn
      BY <1>14, <2>3, <3>1
    <3>3. Status("resolved") \in new => Status("resolved") \in old \/ Exempt(t, f)'
      BY <1>14, <1>19
    <3>. QED  BY <1>12, <1>13, <2>3, <2>4, <2>5, <3>2, <3>3
  <2>6. CASE ~(d.at = t /\ d.issue = f)
    BY <1>12, <2>3, <2>4, <2>6
  <2>. QED  BY <2>5, <2>6
<1>27. Progress(k)'
  <2>1. Known(c.ref)'
    BY <1>2, <1>5, <1>12, <1>13, <1>14 DEF Known
  <2>. QED  BY <1>5, <1>12, <2>1
            DEF Progress, SubmitProgress, Submits, AnswerProgress, Answers, FoundOK
<1>. QED  BY <1>12, <1>23, <1>25, <1>26, <1>27, MoveSafe

-----------------------------------------------------------------------------
(* Steps of no client, and of nobody *)

LEMMA StillSafe ==
    ASSUME IInv, Grows, Types', TypeOK', RowsOK', RefIsUnique',
           \A j \in Clients :
              /\ command'[j] = command[j] /\ phase'[j] = phase[j] /\ stage'[j] = stage[j]
              /\ updates'[j] = updates[j] /\ found'[j] = found[j]
              /\ Ahead(j)'
    PROVE  IInv'
<1>1. CASE \E k \in Clients : TRUE
  <2>1. PICK k \in Clients : TRUE
    BY <1>1
  <2>2. OthersKept(k)
    BY DEF OthersKept
  <2>3. Static(k)' /\ Progress(k)'
    BY <2>1, StaticKept, ProgressKept
  <2>4. stage'[k] \in InProgress =>
          \A j \in Clients \ {k} : stage[j] \in InProgress => command[j].to # command'[k].to
    BY <2>1 DEF IInv, Servers, OneInProgress, Server
  <2>5. Submits(k)' => \A j \in Clients \ {k} :
          Submits(j) /\ command[j].ref = command'[k].ref => command'[k].ref \in resubmitted'
    BY <2>1 DEF IInv, Submissions, SubmittedOnce, Submits, Grows
  <2>. QED  BY <2>1, <2>2, <2>3, <2>4, <2>5, Assemble
<1>2. CASE ~ \E k \in Clients : TRUE
  <2>1. Rows' /\ StatusExclusive' /\ AnsweredIsResolved'
    BY RowsOKNext
  <2>2. Commands' /\ Servers' /\ Submissions'
    BY <1>2 DEF Commands, Servers, OneInProgress, Submissions, SubmittedOnce
  <2>. QED  BY <2>1, <2>2 DEF IInv
<1>. QED  BY <1>1, <1>2

LEMMA AddResultStep ==
    ASSUME IInv, NEW r \in Repos, NEW i \in RowIds(r), NEW c, AddResult(r, i, c)
    PROVE  IInv'
<1>1. PICK y : y = [issues[r][i] EXCEPT !.results = Append(@, Written(c))]
  OBVIOUS
<1>2. /\ Types /\ Functions /\ Numbers /\ TypeOK
  BY Begun DEF IInv
<1>3. /\ command' = command /\ phase' = phase /\ updates' = updates /\ stage' = stage
      /\ found' = found /\ commands' = commands /\ failures' = failures /\ UNCHANGED history
      /\ issues' = [issues EXCEPT ![r][i] = y]
  BY <1>1 DEF AddResult
<1>4. IsIssue(issues[r][i])
  BY <1>2 DEF Types
<1>5. /\ IsIssue(y) /\ Extends(y, issues[r][i]) /\ y.labels = issues[r][i].labels
  BY <1>1, <1>4 DEF IsIssue, Extends
<1>6. /\ Grows /\ IssueTypes' /\ Uuids' = Uuids /\ Label' = Label
      /\ issues'[r][i] = y
      /\ \A p \in Repos : RowIds(p)' = RowIds(p)
      /\ \A p \in Repos : \A j \in RowIds(p) :
            p # r \/ j # i => issues'[p][j] = issues[p][j]
  <2>1. UNCHANGED history /\ issues' = [issues EXCEPT ![r][i] = y]
    BY <1>3
  <2>. QED  BY <1>5, <2>1, RowWritten
<1>7. Types' /\ TypeOK'
  <2>1. Types'
    BY <1>2, <1>3, <1>6 DEF Types, IssueTypes
  <2>2. \A p \in Repos : \A j \in DOMAIN issues'[p] :
          /\ issues'[p][j].for \in Uuids'
          /\ issues'[p][j].labels \subseteq Label'
          /\ issues'[p][j].closed \in BOOLEAN
    BY <1>6 DEF IssueTypes, IsIssue, RowIds
  <2>3. \A k \in Clients :
          /\ phase'[k] = "updating" => updates'[k] # <<>>
          /\ stage'[k] \in {"created", "applied"} => found'[k] \in DOMAIN issues'[command'[k].to]
    <3> SUFFICES ASSUME NEW k \in Clients, stage[k] \in {"created", "applied"}
                 PROVE  found[k] \in DOMAIN issues'[command[k].to]
      BY <1>2, <1>3 DEF TypeOK
    <3>1. command[k].to \in Repos /\ found[k] \in DOMAIN issues[command[k].to]
      BY <1>2, Begun DEF Static, WellFormed, Server, TypeOK
    <3>. QED  BY <1>6, <3>1 DEF RowIds
  <2>. QED  BY <1>2, <1>3, <1>6, <2>1, <2>2, <2>3 DEF TypeOK, Functions, Numbers, Server, history
<1>8. \A p \in Repos : \A j \in RowIds(p) : issues'[p][j].labels = issues[p][j].labels
  BY <1>5, <1>6
<1>9. RowsOK'
  BY <1>6, <1>7, <1>8, NoNewLabels
<1>10. RefIsUnique' /\ \A j \in Clients : Ahead(j)'
  <2>1. \A p \in Repos : \A j \in RowIds(p) :
          issues'[p][j].labels \subseteq
             issues[p][j].labels \cup {Outbound, Status("pending"), Status("answered")}
    BY <1>8
  <2>2. \A j \in Clients : PendingAhead(j)' => PendingAhead(j)
    BY <1>3 DEF PendingAhead, Submits, SubmitUpdates
  <2>. QED  BY <1>3, <1>6, <1>7, <2>1, <2>2, NoNewRefs
<1>. QED  BY <1>3, <1>6, <1>7, <1>9, <1>10, StillSafe

LEMMA StutterStep ==
    ASSUME IInv, UNCHANGED vars
    PROVE  IInv'
<1>1. /\ issues' = issues /\ command' = command /\ phase' = phase /\ updates' = updates
      /\ stage' = stage /\ found' = found /\ commands' = commands /\ failures' = failures
      /\ resubmitted' = resubmitted /\ passedOn' = passedOn
  BY DEF vars
<1>2. Grows /\ Uuids' = Uuids /\ Label' = Label
  BY <1>1 DEF Grows, RowIds, Uuids, Label
<1>3. Types' /\ TypeOK'
  <2>1. Types'
    <3>1. Types
      BY DEF IInv
    <3>2. ByRepo' /\ \A r \in Repos : IsTable(r)'
      BY <1>1, <3>1 DEF Types, ByRepo, IsTable, RowIds
    <3>3. \A r \in Repos : \A i \in RowIds(r)' : IsIssue(issues[r][i])'
      BY <1>1, <1>2, <3>1 DEF Types, RowIds, IsIssue
    <3>. QED  BY <1>1, <3>1, <3>2, <3>3 DEF Types
  <2>2. TypeOK'
    BY <1>1, <1>2 DEF IInv, TypeOK, Server
  <2>. QED  BY <2>1, <2>2
<1>4. RowsOK' /\ RefIsUnique'
  BY <1>1, <1>2, <1>3, QuietRows
<1>5. \A j \in Clients : Ahead(j)'
  <2>1. \A j \in Clients : PendingAhead(j)' => PendingAhead(j)
    BY <1>1 DEF PendingAhead, Submits, SubmitUpdates
  <2>. QED  BY <1>1, <1>2, <2>1, QuietAhead
<1>. QED  BY <1>1, <1>2, <1>3, <1>4, <1>5, StillSafe

-----------------------------------------------------------------------------
(* The invariant *)

LEMMA InitInvariant == Init => IInv
<1> SUFFICES ASSUME Init PROVE IInv
  OBVIOUS
<1>1. PICK u, y : u = Uuid(Asker, 1) /\ y = NewIssue(u)
  OBVIOUS
<1>2. /\ issues = [r \in Repos |-> IF r = Asker THEN <<y>> ELSE <<>>]
      /\ command = [k \in Clients |-> Nobody] /\ phase = [k \in Clients |-> "idle"]
      /\ updates = [k \in Clients |-> <<>>] /\ stage = [k \in Clients |-> "none"]
      /\ found = [k \in Clients |-> 0] /\ commands = 0 /\ failures = 0
      /\ resubmitted = {} /\ passedOn = {}
  BY <1>1 DEF Init
<1>3. /\ y.for = u /\ y.labels = {} /\ y.closed = FALSE
      /\ y \in [for : {u}, labels : {{}}, closed : BOOLEAN, results : {y.results}]
  BY <1>1 DEF NewIssue
<1>4. /\ DOMAIN <<y>> = {1} /\ <<y>>[1] = y /\ <<y>> \in Seq({y})
      /\ DOMAIN <<>> = {} /\ \A S : <<>> \in Seq(S)
  <2>1. Len(<<y>>) = 1 /\ <<y>> \in Seq({y}) /\ <<y>>[1] = y
    OBVIOUS
  <2>2. DOMAIN <<y>> = 1..1 /\ 1..1 = {1}
    BY <2>1, LenProperties
  <2>. QED  BY <2>1, <2>2
<1>5. \A r \in Repos : /\ RowIds(r) = IF r = Asker THEN {1} ELSE {}
                       /\ \A i \in RowIds(r) : issues[r][i] = y
  BY <1>2, <1>4 DEF RowIds
<1>6. u \in Uuids
  <2>1. Asker \in Repos /\ 1 \in RowIds(Asker)
    BY <1>5, AskerAssumption
  <2>. QED  BY <1>1, <2>1, UuidFacts
<1>7. \A r \in Repos : \A i \in RowIds(r) : IsIssue(issues[r][i])
  BY <1>3, <1>5, <1>6 DEF IsIssue
<1>8. \A r \in Repos : IsTable(r)
  <2> SUFFICES ASSUME NEW r \in Repos PROVE issues[r] \in Seq({issues[r][i] : i \in RowIds(r)})
    BY DEF IsTable
  <2>1. CASE r = Asker
    <3>1. issues[r] = <<y>> /\ issues[r] \in Seq({y})
      BY <1>2, <1>4, <2>1
    <3>. QED  BY <3>1, SeqOfOwn DEF RowIds
  <2>2. CASE r # Asker
    <3>1. issues[r] = <<>>
      BY <1>2, <2>2
    <3>. QED  BY <1>4, <3>1
  <2>. QED  BY <2>1, <2>2
<1>9. Types
  <2>1. ByRepo
    BY <1>2 DEF ByRepo
  <2>. QED  BY <1>2, <1>7, <1>8, <2>1 DEF Types
<1>10. TypeOK
  <2>1. \A r \in Repos : \A i \in DOMAIN issues[r] :
           /\ issues[r][i].for \in Uuids /\ issues[r][i].labels \subseteq Label
           /\ issues[r][i].closed \in BOOLEAN
    BY <1>7 DEF IsIssue, RowIds
  <2>2. /\ phase \in [Clients -> {"idle", "waiting", "updating", "dead"}]
        /\ stage \in [Clients -> {"none", "queued", "ok", "error"} \cup InProgress]
    BY <1>2
  <2>3. commands \in 0..MaxCommands /\ failures \in 0..MaxFailures
    BY <1>2, BoundsAssumption
  <2>. QED  BY <1>2, <2>1, <2>2, <2>3 DEF TypeOK
<1>11. \A r \in Repos : \A i \in RowIds(r) : issues[r][i].labels = {} /\ Refs(r, i) = {}
  BY <1>3, <1>5 DEF Refs, RefsOf
<1>12. RowsOK
  <2>1. \A r \in Repos : \A i \in RowIds(r) : \A l : l \notin issues[r][i].labels
    BY <1>11
  <2>. QED  BY <1>11, <2>1
            DEF RowsOK, RowOK, RefsExplained, ReceivedHasRef, SourceExplained, OwnRef,
                StatusExplained, IsReceived, HasStatus, StatusOK, AnsweredOK
<1>13. RefIsUnique
  BY <1>11 DEF RefIsUnique, RowIds
<1>14. \A k \in Clients : phase[k] = "idle" /\ stage[k] = "none"
  BY <1>2
<1>15. Commands
  BY <1>14 DEF Commands, Static, WellFormed, SubmissionOK, AnswerOK, Submits, Answers,
               Progress, InStep, SubmitProgress, AnswerProgress, FoundOK
<1>16. Servers /\ Submissions
  BY <1>14 DEF Servers, OneInProgress, NotThere, InProgress, Submissions, SubmittedOnce,
               NotYetResolved, NotYetReferred, PendingAhead, Submits
<1>. QED  BY <1>9, <1>10, <1>12, <1>13, <1>15, <1>16, RowsOKFacts DEF IInv

LEMMA NextInvariant == IInv /\ [Next]_vars => IInv'
<1> SUFFICES ASSUME IInv, [Next]_vars PROVE IInv'
  OBVIOUS
<1>1. CASE UNCHANGED vars
  BY <1>1, StutterStep
<1>2. ASSUME NEW k \in Clients, NEW r \in Repos, NEW i \in RowIds(r), NEW t \in Repos,
             RunSubmit(k, r, i, t)
      PROVE  IInv'
  BY <1>2, RunSubmitStep
<1>3. ASSUME NEW k \in Clients, NEW r \in Repos, NEW i \in RowIds(r), RunAnswer(k, r, i)
      PROVE  IInv'
  BY <1>3, RunAnswerStep
<1>4. ASSUME NEW k \in Clients,
             ReadOk(k) \/ ReadError(k) \/ UpdateOwnIssue(k) \/ ClientDies(k)
      PROVE  IInv'
  BY <1>4, ReadOkStep, ReadErrorStep, UpdateOwnIssueStep, ClientDiesStep
<1>5. ASSUME NEW k \in Clients, LookUpSubmit(k) \/ CreateIssue(k) \/ LabelIssue(k)
      PROVE  IInv'
  BY <1>5, LookUpSubmitStep, CreateIssueStep, LabelIssueStep
<1>6. ASSUME NEW k \in Clients, LookUpAnswer(k) \/ ApplyAnswer(k) \/ CloseAnswered(k)
      PROVE  IInv'
  BY <1>6, LookUpAnswerStep, ApplyAnswerStep, CloseAnsweredStep
<1>7. ASSUME NEW k \in Clients, RequestFails(k)
      PROVE  IInv'
  BY <1>7, RequestFailsStep
<1>8. ASSUME NEW r \in Repos, NEW i \in RowIds(r), NEW c \in Results, AddResult(r, i, c)
      PROVE  IInv'
  BY <1>8, AddResultStep
<1>. QED  BY <1>1, <1>2, <1>3, <1>4, <1>5, <1>6, <1>7, <1>8 DEF Next, RowIds

LEMMA Invariance == Spec => []IInv
  BY InitInvariant, NextInvariant, PTL DEF Spec

(* The issues, commands and requests are what the handlers and the client  *)
(* take them for: the issue that a server works on exists, and a client    *)
(* that updates has something to update.                                   *)
THEOREM TypeCorrect == Spec => []TypeOK
<1>1. IInv => TypeOK
  BY DEF IInv
<1>. QED  BY <1>1, Invariance, PTL

(* find_issue_with_label has one candidate at most: a repository never has *)
(* two issues with the reference of a request that was not passed on.      *)
THEOREM ReferencesUnique == Spec => []RefIsUnique
<1>1. IInv => RefIsUnique
  BY DEF IInv
<1>. QED  BY <1>1, Invariance, PTL

(* However the submitting client's labels and the answer are interleaved,  *)
(* an issue that was submitted once is not pending and resolved at once.   *)
THEOREM StatusAlwaysExclusive == Spec => []StatusExclusive
<1>1. IInv => StatusExclusive
  BY DEF IInv
<1>. QED  BY <1>1, Invariance, PTL

(* Whatever dies or is retried, an inbound issue that is marked answered   *)
(* has been resolved and closed at its source.                             *)
THEOREM AnsweredAlwaysResolved == Spec => []AnsweredIsResolved
<1>1. IInv => AnsweredIsResolved
  BY DEF IInv
<1>. QED  BY <1>1, Invariance, PTL

-----------------------------------------------------------------------------
(* Lists of results *)

IsList(s) == s \in Seq({s[n] : n \in DOMAIN s})
Prefix(s, t) == DOMAIN s \subseteq DOMAIN t /\ \A n \in DOMAIN s : t[n] = s[n]
Count(s, x) == Cardinality({n \in DOMAIN s : s[n] = x})

LEMMA ListFacts ==
    ASSUME NEW s, IsList(s)
    PROVE  /\ Len(s) \in Nat /\ DOMAIN s = 1..Len(s) /\ IsFiniteSet(DOMAIN s)
           /\ \A x : /\ IsFiniteSet({n \in DOMAIN s : s[n] = x}) /\ Count(s, x) \in Nat
                     /\ Count(s, x) = 0 <=> \A n \in DOMAIN s : s[n] # x
<1>1. Len(s) \in Nat /\ DOMAIN s = 1..Len(s)
  BY LenProperties DEF IsList
<1>2. IsFiniteSet(DOMAIN s)
  BY <1>1, FS_Interval
<1>3. ASSUME NEW x
      PROVE  /\ IsFiniteSet({n \in DOMAIN s : s[n] = x}) /\ Count(s, x) \in Nat
             /\ Count(s, x) = 0 <=> \A n \in DOMAIN s : s[n] # x
  <2> DEFINE X == {n \in DOMAIN s : s[n] = x}
  <2>1. X \in SUBSET (DOMAIN s)
    OBVIOUS
  <2> HIDE DEF X
  <2>2. IsFiniteSet(X)
    BY <1>2, <2>1, FS_Subset
  <2>3. Cardinality(X) \in Nat
    BY <2>2, FS_CardinalityType
  <2>4. Cardinality(X) = 0 <=> X = {}
    BY <2>2, FS_EmptySet
  <2>5. Count(s, x) = Cardinality(X)
    BY DEF Count, X
  <2>6. X = {} <=> \A n \in DOMAIN s : s[n] # x
    BY DEF X
  <2>. QED  BY <2>2, <2>3, <2>4, <2>5, <2>6 DEF X
<1>. QED  BY <1>1, <1>2, <1>3

LEMMA EmptyList == IsList(<<>>) /\ DOMAIN <<>> = {}
<1>1. \A S : <<>> \in Seq(S)
  OBVIOUS
<1>2. Len(<<>>) = 0 /\ DOMAIN <<>> = 1..0
  BY <1>1, LenProperties
<1>. QED  BY <1>1, <1>2 DEF IsList

(* A longer list has an element as often, or more often. *)
LEMMA PrefixCounts ==
    ASSUME NEW s, NEW t, IsList(s), IsList(t), Prefix(s, t), NEW x
    PROVE  /\ Count(s, x) <= Count(t, x)
           /\ (\A n \in DOMAIN t \ DOMAIN s : t[n] # x) => Count(t, x) = Count(s, x)
<1> DEFINE X == {n \in DOMAIN s : s[n] = x}
           Y == {n \in DOMAIN t : t[n] = x}
<1>1. IsFiniteSet(Y)
  BY ListFacts
<1>2. X \in SUBSET Y
  BY DEF Prefix
<1>3. (\A n \in DOMAIN t \ DOMAIN s : t[n] # x) => X = Y
  BY DEF Prefix
<1> HIDE DEF X, Y
<1>4. Cardinality(X) <= Cardinality(Y)
  BY <1>1, <1>2, FS_Subset
<1>. QED  BY <1>3, <1>4 DEF Count, X, Y

LEMMA AppendedList ==
    ASSUME NEW s, IsList(s), NEW e
    PROVE  /\ IsList(Append(s, e)) /\ Prefix(s, Append(s, e))
           /\ \A n \in DOMAIN Append(s, e) \ DOMAIN s : Append(s, e)[n] = e
<1> DEFINE S == {s[n] : n \in DOMAIN s} \cup {e}
           t == Append(s, e)
<1>1. s \in Seq(S) /\ e \in S
  BY SeqWiden DEF IsList
<1> HIDE DEF S
<1>2. /\ t \in Seq(S) /\ Len(t) = Len(s) + 1 /\ t[Len(s) + 1] = e
      /\ \A n \in 1..Len(s) : t[n] = s[n]
  BY <1>1, AppendProperties
<1>3. Len(s) \in Nat /\ DOMAIN s = 1..Len(s) /\ DOMAIN t = 1..Len(t)
  BY <1>1, <1>2, LenProperties
<1>4. IsList(t)
  BY <1>2, SeqOfOwn DEF IsList
<1> HIDE DEF t
<1>5. Prefix(s, t) /\ \A n \in DOMAIN t \ DOMAIN s : t[n] = e
  BY <1>2, <1>3 DEF Prefix
<1>. QED  BY <1>4, <1>5 DEF t

LEMMA JoinedList ==
    ASSUME NEW s, NEW t, IsList(s), IsList(t)
    PROVE  /\ IsList(s \o t) /\ Prefix(s, s \o t)
           /\ \A n \in DOMAIN t : \E m \in DOMAIN (s \o t) : (s \o t)[m] = t[n]
           /\ \A m \in DOMAIN (s \o t) \ DOMAIN s :
                 m - Len(s) \in DOMAIN t /\ (s \o t)[m] = t[m - Len(s)]
<1> DEFINE S == {s[n] : n \in DOMAIN s} \cup {t[n] : n \in DOMAIN t}
           j == s \o t
<1>1. s \in Seq(S) /\ t \in Seq(S)
  <2>1. s \in Seq({s[n] : n \in DOMAIN s}) /\ t \in Seq({t[n] : n \in DOMAIN t})
    BY DEF IsList
  <2>2. {s[n] : n \in DOMAIN s} \subseteq S /\ {t[n] : n \in DOMAIN t} \subseteq S
    OBVIOUS
  <2> HIDE DEF S
  <2>. QED  BY <2>1, <2>2, SeqMonotonic
<1> HIDE DEF S
<1>2. /\ j \in Seq(S) /\ Len(j) = Len(s) + Len(t)
      /\ \A n \in 1..Len(s) + Len(t) : j[n] = IF n <= Len(s) THEN s[n] ELSE t[n - Len(s)]
  BY <1>1, ConcatProperties
<1>3. /\ Len(s) \in Nat /\ DOMAIN s = 1..Len(s) /\ Len(t) \in Nat /\ DOMAIN t = 1..Len(t)
      /\ DOMAIN j = 1..Len(j)
  BY <1>1, <1>2, LenProperties
<1>4. IsList(j)
  BY <1>2, SeqOfOwn DEF IsList
<1> HIDE DEF j
<1>5. Prefix(s, j)
  BY <1>2, <1>3 DEF Prefix
<1>6. ASSUME NEW n \in DOMAIN t
      PROVE  \E m \in DOMAIN j : j[m] = t[n]
  <2>1. n \in Nat /\ n + Len(s) \in 1..Len(s) + Len(t) /\ ~(n + Len(s) <= Len(s))
        /\ (n + Len(s)) - Len(s) = n
    BY <1>3
  <2>2. j[n + Len(s)] = t[n]
    BY <1>2, <2>1
  <2>. QED  BY <1>2, <1>3, <2>1, <2>2
<1>7. \A m \in DOMAIN j \ DOMAIN s : m - Len(s) \in DOMAIN t /\ j[m] = t[m - Len(s)]
  BY <1>2, <1>3
<1>. QED  BY <1>4, <1>5, <1>6, <1>7 DEF j

(* What is new in a joined list comes from the second one. *)
LEMMA JoinedCounts ==
    ASSUME NEW s, NEW t, IsList(s), IsList(t), NEW x
    PROVE  /\ Count(t, x) = 0 => Count(s \o t, x) = Count(s, x)
           /\ Count(s, x) = 0 => Count(s \o t, x) <= Count(t, x)
<1> DEFINE j == s \o t
           J == {m \in DOMAIN j : j[m] = x}
           T == {n \in DOMAIN t : t[n] = x}
<1>1. /\ IsList(j) /\ Prefix(s, j)
      /\ \A m \in DOMAIN j \ DOMAIN s : m - Len(s) \in DOMAIN t /\ j[m] = t[m - Len(s)]
  BY JoinedList
<1> HIDE DEF j
<1>2. Count(t, x) = 0 => Count(j, x) = Count(s, x)
  <2> SUFFICES ASSUME Count(t, x) = 0 PROVE Count(j, x) = Count(s, x)
    OBVIOUS
  <2>1. \A n \in DOMAIN t : t[n] # x
    BY ListFacts
  <2>2. \A m \in DOMAIN j \ DOMAIN s : j[m] # x
    BY <1>1, <2>1
  <2>. QED  BY <1>1, <2>2, PrefixCounts
<1>3. ASSUME Count(s, x) = 0
      PROVE  Count(j, x) <= Count(t, x)
  <2>1. \A n \in DOMAIN s : s[n] # x
    BY <1>3, ListFacts
  <2>2. \A m \in J : m \in DOMAIN j \ DOMAIN s
    BY <1>1, <2>1 DEF Prefix
  <2>3. \A m \in J : m - Len(s) \in T /\ m \in Int
    <3>1. DOMAIN j = 1..Len(j) /\ Len(j) \in Nat
      BY <1>1, ListFacts
    <3>. QED  BY <1>1, <2>2, <3>1
  <2> DEFINE f == [m \in J |-> m - Len(s)]
  <2>4. Len(s) \in Nat
    BY ListFacts
  <2>5. f \in [J -> T] /\ \A a, b \in J : f[a] = f[b] => a = b
    <3> HIDE DEF J, T
    <3>. QED  BY <2>3, <2>4
  <2> HIDE DEF f
  <2>6. f \in Injection(J, T)
    BY <2>5, Fun_IsInj
  <2>7. IsFiniteSet(T)
    BY ListFacts
  <2> HIDE DEF J, T
  <2>8. Cardinality(J) <= Cardinality(T)
    BY <2>6, <2>7, FS_Injection
  <2>. QED  BY <2>8 DEF Count, J, T
<1>. QED  BY <1>2, <1>3 DEF j

-----------------------------------------------------------------------------
(* Filters *)

(* The ranks of finitely many positions are 1, 2, ... *)
LEMMA RankFacts ==
    ASSUME NEW P, P \subseteq Nat, IsFiniteSet(P)
    PROVE  /\ Cardinality(P) \in Nat
           /\ \A i \in P : Rank(i, P) \in 1..Cardinality(P)
           /\ \A i, j \in P : Rank(i, P) = Rank(j, P) => i = j
           /\ \A n \in 1..Cardinality(P) : \E i \in P : Rank(i, P) = n
<1> DEFINE N == Cardinality(P)
           f == [i \in P |-> Rank(i, P)]
           Below(i) == {j \in P : j <= i}
<1>1. N \in Nat
  BY FS_CardinalityType
<1>2. ASSUME NEW i \in P
      PROVE  /\ IsFiniteSet(Below(i)) /\ Rank(i, P) = Cardinality(Below(i))
             /\ Rank(i, P) \in 1..N
  <2>1. Below(i) \in SUBSET P /\ Below(i) # {} /\ Rank(i, P) = Cardinality(Below(i))
    BY DEF Rank
  <2> HIDE DEF Below
  <2>2. IsFiniteSet(Below(i)) /\ Cardinality(Below(i)) <= N
    BY <2>1, FS_Subset
  <2>3. Cardinality(Below(i)) \in Nat /\ Cardinality(Below(i)) # 0
    BY <2>1, <2>2, FS_CardinalityType, FS_EmptySet
  <2>. QED  BY <1>1, <2>1, <2>2, <2>3
<1>3. ASSUME NEW i \in P, NEW j \in P, i < j
      PROVE  Rank(i, P) # Rank(j, P)
  <2>1. i \in Nat /\ j \in Nat /\ \A a \in P : a \in Nat
    OBVIOUS
  <2>2. j \in Below(j) /\ j \notin Below(i)
    BY <1>3, <2>1
  <2>3. Below(i) \in SUBSET Below(j)
    <3>1. \A a \in P : a <= i => a <= j
      BY <1>3, <2>1
    <3>. QED  BY <3>1
  <2> HIDE DEF Below
  <2>. QED  BY <1>2, <2>2, <2>3, FS_Subset
<1>4. \A i, j \in P : Rank(i, P) = Rank(j, P) => i = j
  <2> SUFFICES ASSUME NEW i \in P, NEW j \in P, Rank(i, P) = Rank(j, P), i # j PROVE FALSE
    OBVIOUS
  <2>1. i < j \/ j < i
    OBVIOUS
  <2>. QED  BY <1>3, <2>1
<1>5. f \in Injection(P, 1..N)
  <2>1. f \in [P -> 1..N] /\ \A i, j \in P : f[i] = f[j] => i = j
    BY <1>2, <1>4
  <2> HIDE DEF f, N
  <2>. QED  BY <2>1, Fun_IsInj
<1>6. IsFiniteSet(1..N) /\ Cardinality(1..N) = N
  BY <1>1, FS_Interval
<1>7. \A m \in 1..N : \E i \in P : f[i] = m
  <2> HIDE DEF f
  <2>1. f \in Injection(P, 1..N) /\ Cardinality(P) = Cardinality(1..N)
    BY <1>5, <1>6
  <2>2. f \in Surjection(P, 1..N)
    BY <1>6, <2>1, FS_Injection
  <2>. QED  BY <2>2, Fun_SurjectionProperties
<1>. QED  BY <1>1, <1>2, <1>4, <1>7

(* A filter keeps what it selects, once.                                   *)
LEMMA SelectedFacts ==
    ASSUME NEW s, IsList(s), NEW P, P \subseteq DOMAIN s
    PROVE  /\ IsList(Selected(s, P))
           /\ \A n \in DOMAIN Selected(s, P) : \E i \in P : Selected(s, P)[n] = s[i]
           /\ \A i \in P : \E n \in DOMAIN Selected(s, P) : Selected(s, P)[n] = s[i]
           /\ \A x : Count(Selected(s, P), x) <= Count(s, x)
<1> DEFINE N == Cardinality(P)
           pos(n) == CHOOSE i \in P : Rank(i, P) = n
           t == Selected(s, P)
<1>1. /\ Len(s) \in Nat /\ DOMAIN s = 1..Len(s) /\ IsFiniteSet(DOMAIN s) /\ P \in SUBSET (DOMAIN s)
      /\ \A x : IsFiniteSet({n \in DOMAIN s : s[n] = x})
  BY ListFacts
<1>2. P \subseteq Nat /\ IsFiniteSet(P)
  BY <1>1, FS_Subset
<1>3. /\ N \in Nat
      /\ \A i \in P : Rank(i, P) \in 1..N
      /\ \A i, j \in P : Rank(i, P) = Rank(j, P) => i = j
      /\ \A n \in 1..N : \E i \in P : Rank(i, P) = n
  BY <1>2, RankFacts
<1>4. \A n \in 1..N : pos(n) \in P /\ Rank(pos(n), P) = n
  BY <1>3
<1>5. DOMAIN t = 1..N /\ \A n \in 1..N : t[n] = s[pos(n)]
  BY DEF Selected
<1>6. t = [n \in 1..N |-> t[n]]
  BY DEF Selected
<1> HIDE DEF pos, t, N
<1>7. IsList(t)
  <2>1. t \in [1..N -> {t[n] : n \in DOMAIN t}]
    BY <1>5, <1>6
  <2> DEFINE X == {t[n] : n \in DOMAIN t}
  <2> HIDE DEF X
  <2>2. t \in Seq(X)
    BY <1>3, <2>1, SeqDef DEF X
  <2>. QED  BY <2>2 DEF IsList, X
<1>8. \A n \in DOMAIN t : \E i \in P : t[n] = s[i]
  BY <1>4, <1>5
<1>9. ASSUME NEW i \in P
      PROVE  \E n \in DOMAIN t : t[n] = s[i]
  <2>1. Rank(i, P) \in 1..N /\ pos(Rank(i, P)) = i
    BY <1>3, <1>4
  <2>. QED  BY <1>5, <2>1
<1>10. ASSUME NEW x
       PROVE  Count(t, x) <= Count(s, x)
  <2> DEFINE T == {n \in DOMAIN t : t[n] = x}
             S == {n \in DOMAIN s : s[n] = x}
             f == [n \in T |-> pos(n)]
  <2>1. f \in [T -> S] /\ \A a, b \in T : f[a] = f[b] => a = b
    BY <1>4, <1>5
  <2>2. IsFiniteSet(S)
    BY <1>1
  <2>3. f \in Injection(T, S)
    <3> HIDE DEF f, T, S
    <3>. QED  BY <2>1, Fun_IsInj
  <2> HIDE DEF f, T, S
  <2>4. Cardinality(T) <= Cardinality(S)
    BY <2>2, <2>3, FS_Injection
  <2>. QED  BY <2>4 DEF Count, T, S
<1>. QED  BY <1>7, <1>8, <1>9, <1>10 DEF t

-----------------------------------------------------------------------------
(* The invariant of results *)

Res(r, i) == issues[r][i].results
CopyOf(k, j) == FromPeer(Own(k), command[k].results[j])
FoundResults(k) == Res(Server(k), found[k])
HasCopies(k, results) ==
    \A j \in DOMAIN command[k].results : \E n \in DOMAIN results : results[n] = CopyOf(k, j)

(* An issue with a reference of another repository says so; and the copies *)
(* of a comment are not more than the comments of some issue they answer.  *)
SourceNamed(r, i) ==
    \A u \in Refs(r, i) : u[1] # r => {Inbound, SourceLabel(u[1])} \subseteq issues[r][i].labels
CopiesWritten(r, i) ==
    \A p \in Repos : \A c : Count(Res(r, i), FromPeer(p, c)) # 0 =>
        \E j \in RowIds(p) : /\ Refs(p, j) \cap Refs(r, i) # {}
                             /\ Count(Res(r, i), FromPeer(p, c)) <= Count(Res(p, j), c)
ResultsOK(r, i) == IsList(Res(r, i)) /\ SourceNamed(r, i) /\ CopiesWritten(r, i)

(* What a client has sent is still there ... *)
Sent(k) ==
    /\ Submits(k) => \A u : RefLabel(u) \in command[k].labels /\ u[1] # Own(k) =>
          {Inbound, SourceLabel(u[1])} \subseteq command[k].labels
    /\ Answers(k) => IsList(command[k].results) /\ Prefix(command[k].results, Res(Own(k), Id(k)))

(* ... and what the server has acknowledged, or is about to. *)
Acknowledged(k) == phase[k] = "updating" \/ (phase[k] # "idle" /\ stage[k] = "ok")
Delivered(k) ==
    Acknowledged(k) => \E i \in RowIds(Server(k)) :
        /\ RefLabel(command[k].ref) \in issues[Server(k)][i].labels
        /\ Answers(k) => /\ issues[Server(k)][i].closed
                         /\ Status("resolved") \in issues[Server(k)][i].labels
                         /\ HasCopies(k, Res(Server(k), i))

(* What the server has looked up is all that is missing, and only that,    *)
(* until it has written it.                                                *)
AllThere(k) ==
    \A j \in DOMAIN command[k].results :
        \/ \E n \in DOMAIN FoundResults(k) : FoundResults(k)[n] = CopyOf(k, j)
        \/ \E n \in DOMAIN toCopy[k] : toCopy[k][n] = CopyOf(k, j)
OnlyMissing(k) ==
    \A n \in DOMAIN toCopy[k] :
        /\ \E j \in DOMAIN command[k].results : toCopy[k][n] = CopyOf(k, j)
        /\ \A m \in DOMAIN FoundResults(k) : FoundResults(k)[m] # toCopy[k][n]
NoMoreThanSent(k) ==
    \A c : Count(toCopy[k], FromPeer(Own(k), c)) <= Count(command[k].results, c)
Copying(k) ==
    Answers(k) =>
        /\ stage[k] = "looked" =>
             IsList(toCopy[k]) /\ AllThere(k) /\ OnlyMissing(k) /\ NoMoreThanSent(k)
        /\ stage[k] = "applied" => HasCopies(k, FoundResults(k))

ClientOK(k) == Sent(k) /\ Delivered(k) /\ Copying(k)

RInv ==
    /\ toCopy = [k \in Clients |-> toCopy[k]]
    /\ \A r \in Repos : \A i \in RowIds(r) : ResultsOK(r, i)
    /\ \A k \in Clients : ClientOK(k)

LEMMA FromPeerFacts ==
    \A p, c, q, d : FromPeer(p, c) = FromPeer(q, d) <=> p = q /\ c = d
  BY DEF FromPeer

LEMMA WrittenFacts == \A p \in Repos : \A c, d : Written(d) # FromPeer(p, c)
  BY NobodyAssumption DEF Written, FromPeer

-----------------------------------------------------------------------------
(* What a step does to the results: lists grow, new issues have none, and  *)
(* a reference comes with its source.                                      *)
Effect ==
    /\ Grows
    /\ \A r \in Repos : \A i \in RowIds(r) :
         /\ IsList(issues'[r][i].results) /\ Prefix(issues[r][i].results, issues'[r][i].results)
         /\ \A u \in Refs(r, i)' \ Refs(r, i) :
              u[1] = r \/ {Inbound, SourceLabel(u[1])} \subseteq issues'[r][i].labels
    /\ \A r \in Repos : \A i \in RowIds(r)' \ RowIds(r) :
         issues'[r][i].labels = {} /\ issues'[r][i].results = <<>>
NoNewCopies(r, i) ==
    \A n \in DOMAIN issues'[r][i].results \ DOMAIN issues[r][i].results :
        \A p \in Repos : \A c : issues'[r][i].results[n] # FromPeer(p, c)

(* The written copies of an issue stay explained while others grow.        *)
LEMMA CopiesKept ==
    ASSUME IInv, RInv, Effect, NEW r \in Repos, NEW i \in RowIds(r), NEW p \in Repos, NEW c,
           Count(issues'[r][i].results, FromPeer(p, c)) = Count(Res(r, i), FromPeer(p, c)),
           Count(Res(r, i), FromPeer(p, c)) # 0
    PROVE  \E j \in RowIds(p)' :
               /\ Refs(p, j)' \cap Refs(r, i)' # {}
               /\ Count(issues'[r][i].results, FromPeer(p, c)) <= Count(issues'[p][j].results, c)
<1>1. PICK j \in RowIds(p) : /\ Refs(p, j) \cap Refs(r, i) # {}
                             /\ Count(Res(r, i), FromPeer(p, c)) <= Count(Res(p, j), c)
  BY DEF RInv, ResultsOK, CopiesWritten
<1>2. Refs(p, j) \subseteq Refs(p, j)' /\ Refs(r, i) \subseteq Refs(r, i)' /\ j \in RowIds(p)'
  BY FactsGrow DEF Effect, Grows
<1>3. /\ IsList(issues[r][i].results) /\ IsList(issues[p][j].results)
      /\ IsList(issues'[p][j].results) /\ Prefix(issues[p][j].results, issues'[p][j].results)
  BY DEF RInv, ResultsOK, Effect, Res
<1>4. Count(issues[p][j].results, c) <= Count(issues'[p][j].results, c)
  BY <1>3, PrefixCounts
<1>5. /\ Count(issues[r][i].results, FromPeer(p, c)) \in Nat
      /\ Count(issues[p][j].results, c) \in Nat /\ Count(issues'[p][j].results, c) \in Nat
  BY <1>3, ListFacts
<1>6. Count(issues'[r][i].results, FromPeer(p, c)) <= Count(issues'[p][j].results, c)
  BY <1>1, <1>4, <1>5 DEF Res
<1>. QED  BY <1>1, <1>2, <1>6

LEMMA SourceKept ==
    ASSUME IInv, RInv, Effect, NEW r \in Repos, NEW i \in RowIds(r)
    PROVE  SourceNamed(r, i)'
<1> SUFFICES ASSUME NEW u \in Refs(r, i)', u[1] # r
             PROVE  {Inbound, SourceLabel(u[1])} \subseteq issues'[r][i].labels
  BY DEF SourceNamed
<1>1. CASE u \in Refs(r, i)
  <2>1. {Inbound, SourceLabel(u[1])} \subseteq issues[r][i].labels
    BY <1>1 DEF RInv, ResultsOK, SourceNamed
  <2>2. Inbound # Status("pending") /\ SourceLabel(u[1]) # Status("pending")
    BY OtherLabelFacts
  <2>. QED  BY <2>1, <2>2 DEF Effect, Grows
<1>2. CASE u \notin Refs(r, i)
  BY <1>2 DEF Effect
<1>. QED  BY <1>1, <1>2

LEMMA ResultsKept ==
    ASSUME IInv, RInv, Effect, NEW r \in Repos, NEW i \in RowIds(r)',
           i \in RowIds(r) => NoNewCopies(r, i)
    PROVE  ResultsOK(r, i)'
<1>1. CASE i \in RowIds(r)
  <2>1. IsList(Res(r, i)')
    BY <1>1 DEF Effect, Res
  <2>2. CopiesWritten(r, i)'
    <3> SUFFICES ASSUME NEW p \in Repos, NEW c,
                        Count(issues'[r][i].results, FromPeer(p, c)) # 0
                 PROVE  \E j \in RowIds(p)' :
                          /\ Refs(p, j)' \cap Refs(r, i)' # {}
                          /\ Count(issues'[r][i].results, FromPeer(p, c))
                               <= Count(issues'[p][j].results, c)
      BY DEF CopiesWritten, Res
    <3>1. /\ IsList(issues[r][i].results) /\ IsList(issues'[r][i].results)
          /\ Prefix(issues[r][i].results, issues'[r][i].results)
      BY <1>1 DEF RInv, ResultsOK, Effect, Res
    <3>2. Count(issues'[r][i].results, FromPeer(p, c)) = Count(Res(r, i), FromPeer(p, c))
      BY <1>1, <3>1, PrefixCounts DEF NoNewCopies, Res
    <3>. QED  BY <1>1, <3>2, CopiesKept
  <2>. QED  BY <1>1, <2>1, <2>2, SourceKept DEF ResultsOK
<1>2. CASE i \notin RowIds(r)
  <2>1. issues'[r][i].labels = {} /\ issues'[r][i].results = <<>>
    BY <1>2 DEF Effect
  <2>2. Refs(r, i)' = {}
    BY <2>1 DEF Refs, RefsOf
  <2>3. IsList(<<>>) /\ \A x : Count(<<>>, x) = 0
    BY EmptyList, ListFacts
  <2>. QED  BY <2>1, <2>2, <2>3 DEF ResultsOK, SourceNamed, CopiesWritten, Res
<1>. QED  BY <1>1, <1>2

-----------------------------------------------------------------------------
(* What a step does to the clients *)

(* What was sent is still there, and what was acknowledged is still done,  *)
(* while issues grow.                                                      *)
LEMMA ClientKept ==
    ASSUME IInv, RInv, Effect, NEW j \in Clients, command'[j] = command[j],
           phase'[j] # "idle" => phase[j] # "idle", Acknowledged(j)' => Acknowledged(j)
    PROVE  Sent(j)' /\ Delivered(j)'
<1>1. PICK c : command[j] = c
  OBVIOUS
<1>2. command'[j] = c /\ Sent(j) /\ Delivered(j) /\ Static(j)
  BY <1>1, Begun DEF RInv, ClientOK
<1>3. phase[j] # "idle" => c.at \in Repos /\ c.to \in Repos /\ c.issue \in RowIds(c.at)
  BY <1>1, <1>2 DEF Static, WellFormed, Own, Server, Id
<1>4. Sent(j)'
  <2>1. Submits(j)' => \A u : RefLabel(u) \in c.labels /\ u[1] # c.at =>
                          {Inbound, SourceLabel(u[1])} \subseteq c.labels
    BY <1>1, <1>2 DEF Sent, Submits, Own
  <2>2. Answers(j)' => IsList(c.results) /\ Prefix(c.results, issues'[c.at][c.issue].results)
    <3> SUFFICES ASSUME Answers(j)'
                 PROVE  IsList(c.results) /\ Prefix(c.results, issues'[c.at][c.issue].results)
      OBVIOUS
    <3>1. phase[j] # "idle" /\ Answers(j)
      BY DEF Answers
    <3>2. IsList(c.results) /\ Prefix(c.results, issues[c.at][c.issue].results)
      BY <1>1, <1>2, <3>1 DEF Sent, Res, Own, Id
    <3>3. Prefix(issues[c.at][c.issue].results, issues'[c.at][c.issue].results)
      BY <1>3, <3>1 DEF Effect
    <3>. QED  BY <3>2, <3>3 DEF Prefix
  <2>. QED  BY <1>2, <2>1, <2>2 DEF Sent, Res, Own, Id
<1>5. Delivered(j)'
  <2> SUFFICES ASSUME Acknowledged(j)' PROVE Delivered(j)'
    BY DEF Delivered
  <2>1. Acknowledged(j) /\ phase[j] # "idle"
    BY DEF Acknowledged
  <2>2. PICK i \in RowIds(c.to) :
          /\ RefLabel(c.ref) \in issues[c.to][i].labels
          /\ c.kind = "answer" =>
               /\ issues[c.to][i].closed /\ Status("resolved") \in issues[c.to][i].labels
               /\ \A m \in DOMAIN c.results : \E n \in DOMAIN issues[c.to][i].results :
                     issues[c.to][i].results[n] = FromPeer(c.at, c.results[m])
    BY <1>1, <1>2, <2>1 DEF Delivered, Server, Answers, HasCopies, Res, CopyOf, Own
  <2>3. /\ i \in RowIds(c.to)'
        /\ issues[c.to][i].closed => issues'[c.to][i].closed
        /\ \A l \in issues[c.to][i].labels : l # Status("pending") => l \in issues'[c.to][i].labels
        /\ Prefix(issues[c.to][i].results, issues'[c.to][i].results)
    BY <1>3, <2>1, <2>2 DEF Effect, Grows
  <2>4. RefLabel(c.ref) \in issues'[c.to][i].labels
    BY <2>2, <2>3, RefLabelFacts
  <2>5. c.kind = "answer" =>
          /\ issues'[c.to][i].closed /\ Status("resolved") \in issues'[c.to][i].labels
          /\ \A m \in DOMAIN c.results : \E n \in DOMAIN issues'[c.to][i].results :
                issues'[c.to][i].results[n] = FromPeer(c.at, c.results[m])
    BY <2>2, <2>3, OtherLabelFacts DEF Prefix
  <2>. QED  BY <1>2, <2>3, <2>4, <2>5 DEF Delivered, Server, Answers, HasCopies, Res, CopyOf, Own
<1>. QED  BY <1>4, <1>5

(* What was looked up for a request stays right while its issue gets no    *)
(* copies.                                                                 *)
LEMMA CopyingKept ==
    ASSUME IInv, RInv, Effect, NEW j \in Clients, command'[j] = command[j],
           phase'[j] # "idle" => phase[j] # "idle",
           stage'[j] = stage[j], found'[j] = found[j], toCopy'[j] = toCopy[j],
           Answers(j) /\ stage[j] = "looked" => NoNewCopies(Server(j), found[j])
    PROVE  Copying(j)'
<1>1. PICK c, f, s : command[j] = c /\ found[j] = f /\ toCopy[j] = s
  OBVIOUS
<1>2. /\ command'[j] = c /\ found'[j] = f /\ toCopy'[j] = s
      /\ Copying(j) /\ Static(j) /\ Progress(j)
  BY <1>1, Begun DEF RInv, ClientOK
<1> SUFFICES ASSUME Answers(j)', stage[j] \in {"looked", "applied"}
             PROVE  Copying(j)'
  BY DEF Copying
<1>3. PICK t : c.to = t
  OBVIOUS
<1>4. phase[j] # "idle" /\ Answers(j) /\ c.kind = "answer"
  BY <1>1, <1>2 DEF Answers
<1>5. t \in Repos /\ c.at \in Repos /\ f \in RowIds(t)
  BY <1>1, <1>2, <1>3, <1>4 DEF Static, WellFormed, Own, Server, Progress, FoundOK
<1>6. PICK old, new : old = issues[t][f].results /\ new = issues'[t][f].results
  OBVIOUS
<1>7. Prefix(old, new)
  BY <1>5, <1>6 DEF Effect
<1>8. /\ FoundResults(j) = old /\ (FoundResults(j))' = new
      /\ \A m : CopyOf(j, m) = FromPeer(c.at, c.results[m])
      /\ \A m : CopyOf(j, m)' = FromPeer(c.at, c.results[m])
      /\ Own(j) = c.at /\ Own(j)' = c.at
  BY <1>1, <1>2, <1>3, <1>6 DEF FoundResults, Res, Server, CopyOf, Own
<1>9. CASE stage[j] = "looked"
  <2>1. IsList(s) /\ AllThere(j) /\ OnlyMissing(j) /\ NoMoreThanSent(j)
    BY <1>1, <1>2, <1>4, <1>9 DEF Copying
  <2>2. AllThere(j)'
    <3>1. \A m \in DOMAIN c.results :
            \/ \E n \in DOMAIN old : old[n] = FromPeer(c.at, c.results[m])
            \/ \E n \in DOMAIN s : s[n] = FromPeer(c.at, c.results[m])
      BY <1>1, <1>8, <2>1 DEF AllThere
    <3>. QED  BY <1>2, <1>7, <1>8, <3>1 DEF AllThere, Prefix
  <2>3. OnlyMissing(j)'
    <3>1. \A n \in DOMAIN s :
            /\ \E m \in DOMAIN c.results : s[n] = FromPeer(c.at, c.results[m])
            /\ \A m \in DOMAIN old : old[m] # s[n]
      BY <1>1, <1>8, <2>1 DEF OnlyMissing
    <3>2. \A m \in DOMAIN new \ DOMAIN old : \A x : new[m] # FromPeer(c.at, x)
      BY <1>1, <1>3, <1>4, <1>5, <1>6, <1>9 DEF NoNewCopies, Server
    <3>3. \A n \in DOMAIN s : \A m \in DOMAIN new : new[m] # s[n]
      BY <1>7, <3>1, <3>2 DEF Prefix
    <3>. QED  BY <1>2, <1>8, <3>1, <3>3 DEF OnlyMissing
  <2>4. NoMoreThanSent(j)'
    BY <1>1, <1>2, <1>8, <2>1 DEF NoMoreThanSent
  <2>. QED  BY <1>2, <1>9, <2>1, <2>2, <2>3, <2>4 DEF Copying
<1>10. CASE stage[j] = "applied"
  <2>1. \A m \in DOMAIN c.results : \E n \in DOMAIN old : old[n] = FromPeer(c.at, c.results[m])
    BY <1>1, <1>2, <1>4, <1>8, <1>10 DEF Copying, HasCopies
  <2>2. HasCopies(j, FoundResults(j))'
    BY <1>2, <1>7, <1>8, <2>1 DEF HasCopies, Prefix
  <2>. QED  BY <1>10, <2>2 DEF Copying
<1>. QED  BY <1>9, <1>10

LEMMA IdleClient ==
    ASSUME NEW k, phase'[k] = "idle"
    PROVE  ClientOK(k)'
<1>1. ~Submits(k)' /\ ~Answers(k)' /\ ~Acknowledged(k)'
  BY DEF Submits, Answers, Acknowledged
<1>. QED  BY <1>1 DEF ClientOK, Sent, Delivered, Copying

(* A step keeps the invariant if what it writes and what it does to one    *)
(* client does.                                                            *)
LEMMA RAssemble ==
    ASSUME IInv, RInv, Effect, NEW k, OthersKept(k),
           toCopy' = [j \in Clients |-> toCopy'[j]],
           \A j \in Clients \ {k} : toCopy'[j] = toCopy[j],
           \A r \in Repos : \A i \in RowIds(r)' :
               (i \in RowIds(r) => NoNewCopies(r, i)) \/ ResultsOK(r, i)',
           \A j \in Clients \ {k} :
               Answers(j) /\ stage[j] = "looked" => NoNewCopies(Server(j), found[j]),
           k \in Clients => ClientOK(k)'
    PROVE  RInv'
<1>1. \A r \in Repos : \A i \in RowIds(r)' : ResultsOK(r, i)'
  BY ResultsKept
<1>2. ASSUME NEW j \in Clients, j # k
      PROVE  ClientOK(j)'
  <2>1. /\ command'[j] = command[j] /\ phase'[j] = phase[j] /\ stage'[j] = stage[j]
        /\ found'[j] = found[j] /\ toCopy'[j] = toCopy[j]
    BY <1>2 DEF OthersKept
  <2>2. Acknowledged(j)' => Acknowledged(j)
    BY <2>1 DEF Acknowledged
  <2>. QED  BY <1>2, <2>1, <2>2, ClientKept, CopyingKept DEF ClientOK
<1>. QED  BY <1>1, <1>2 DEF RInv

-----------------------------------------------------------------------------
(* Steps that write to no issue *)

LEMMA QuietEffect ==
    ASSUME IInv, RInv, issues' = issues,
           passedOn \subseteq passedOn', resubmitted \subseteq resubmitted'
    PROVE  Effect /\ \A r, i : NoNewCopies(r, i)
<1>1. Grows
  BY DEF Grows, RowIds
<1>2. \A r, i : Refs(r, i)' = Refs(r, i)
  BY DEF Refs, RefsOf, Uuids
<1>3. \A r \in Repos : \A i \in RowIds(r) :
        IsList(issues'[r][i].results) /\ Prefix(issues[r][i].results, issues'[r][i].results)
  BY DEF RInv, ResultsOK, Res, Prefix
<1>4. \A r, i : NoNewCopies(r, i)
  BY DEF NoNewCopies
<1>. QED  BY <1>1, <1>2, <1>3, <1>4 DEF Effect, RowIds

LEMMA QuietResults ==
    ASSUME IInv, RInv, issues' = issues,
           passedOn \subseteq passedOn', resubmitted \subseteq resubmitted',
           NEW k \in Clients, OthersKept(k),
           NEW v, toCopy' = toCopy \/ toCopy' = [toCopy EXCEPT ![k] = v],
           ClientOK(k)'
    PROVE  RInv'
<1>1. Effect /\ \A r, i : NoNewCopies(r, i)
  BY QuietEffect
<1>2. /\ toCopy' = [j \in Clients |-> toCopy'[j]]
      /\ \A j \in Clients \ {k} : toCopy'[j] = toCopy[j]
  BY DEF RInv
<1>. QED  BY <1>1, <1>2, RAssemble

LEMMA RunSubmitResults ==
    ASSUME IInv, RInv, NEW k \in Clients, NEW r \in Repos, NEW i \in RowIds(r), NEW t \in Repos,
           RunSubmit(k, r, i, t)
    PROVE  RInv'
<1>1. PICK c : c = [kind |-> "submit", at |-> r, issue |-> i, to |-> t, ref |-> Uuid(r, i),
                    labels |-> issues[r][i].labels]
  OBVIOUS
<1>2. /\ c.kind = "submit" /\ c.at = r /\ c.labels = issues[r][i].labels /\ Run(k, c)
      /\ passedOn \subseteq passedOn' /\ resubmitted \subseteq resubmitted'
  BY <1>1 DEF RunSubmit
<1>3. issues' = issues /\ toCopy' = toCopy
  BY <1>2, Zenon DEF Run, RunSubmit
<1>4. /\ OthersKept(k) /\ command'[k] = c /\ phase'[k] = "waiting" /\ stage'[k] = "queued"
  BY <1>2, Begun DEF Run, Functions, OthersKept
<1>5. Sent(k)'
  <2>1. LabelledRefs /\ SourceNamed(r, i)
    BY RefsAreLabels DEF IInv, RInv, ResultsOK
  <2>2. \A u : RefLabel(u) \in c.labels /\ u[1] # r =>
                  {Inbound, SourceLabel(u[1])} \subseteq c.labels
    BY <1>2, <2>1 DEF LabelledRefs, SourceNamed
  <2>. QED  BY <1>2, <1>4, <2>2 DEF Sent, Submits, Answers, Own
<1>6. ClientOK(k)'
  BY <1>4, <1>5 DEF ClientOK, Delivered, Acknowledged, Copying
<1>. QED  BY <1>2, <1>3, <1>4, <1>6, QuietResults

LEMMA RunAnswerResults ==
    ASSUME IInv, RInv, NEW k \in Clients, NEW r \in Repos, NEW i \in RowIds(r), RunAnswer(k, r, i)
    PROVE  RInv'
<1>1. PICK t, u, c :
        /\ c = [kind |-> "answer", at |-> r, issue |-> i, to |-> t, ref |-> u,
                results |-> issues[r][i].results]
        /\ Run(k, c)
  BY DEF RunAnswer
<1>2. /\ c.kind = "answer" /\ c.at = r /\ c.issue = i /\ c.results = issues[r][i].results
      /\ passedOn' = passedOn /\ resubmitted' = resubmitted
  BY <1>1 DEF RunAnswer, history
<1>3. issues' = issues /\ toCopy' = toCopy
  BY <1>1 DEF Run
<1>4. /\ OthersKept(k) /\ command'[k] = c /\ phase'[k] = "waiting" /\ stage'[k] = "queued"
  BY <1>1, Begun DEF Run, Functions, OthersKept
<1>5. Sent(k)'
  <2>1. IsList(c.results) /\ Prefix(c.results, issues[r][i].results)
    BY <1>2 DEF RInv, ResultsOK, Res, Prefix
  <2>. QED  BY <1>2, <1>3, <1>4, <2>1 DEF Sent, Submits, Answers, Own, Id, Res
<1>6. ClientOK(k)'
  BY <1>4, <1>5 DEF ClientOK, Delivered, Acknowledged, Copying
<1>. QED  BY <1>2, <1>3, <1>4, <1>6, QuietResults

LEMMA ReadOkResults ==
    ASSUME IInv, RInv, NEW k \in Clients, ReadOk(k)
    PROVE  RInv'
<1>1. /\ issues' = issues /\ passedOn' = passedOn /\ resubmitted' = resubmitted
      /\ toCopy' = [toCopy EXCEPT ![k] = <<>>]
  BY DEF ReadOk, EndRequest, history
<1>2. /\ OthersKept(k) /\ command'[k] = command[k] /\ phase'[k] = "updating" /\ stage'[k] = "none"
      /\ phase[k] = "waiting" /\ stage[k] = "ok"
  BY Begun DEF ReadOk, EndRequest, Functions, OthersKept
<1>3. Effect /\ Acknowledged(k)
  BY <1>1, <1>2, QuietEffect DEF Acknowledged
<1>4. ClientOK(k)'
  BY <1>2, <1>3, ClientKept DEF ClientOK, Copying
<1>. QED  BY <1>1, <1>2, <1>4, QuietResults

LEMMA ReadErrorResults ==
    ASSUME IInv, RInv, NEW k \in Clients, ReadError(k)
    PROVE  RInv'
<1>1. /\ issues' = issues /\ passedOn' = passedOn /\ resubmitted' = resubmitted
      /\ toCopy' = [toCopy EXCEPT ![k] = <<>>]
  BY DEF ReadError, EndRequest, history
<1>2. OthersKept(k) /\ phase'[k] = "idle"
  BY Begun DEF ReadError, EndRequest, EndProcess, Functions, OthersKept
<1>. QED  BY <1>1, <1>2, IdleClient, QuietResults

LEMMA ClientDiesResults ==
    ASSUME IInv, RInv, NEW k \in Clients, ClientDies(k)
    PROVE  RInv'
<1>1. /\ issues' = issues /\ passedOn' = passedOn /\ resubmitted' = resubmitted
      /\ toCopy' = toCopy /\ stage' = stage /\ found' = found
      /\ phase[k] \in {"waiting", "updating"}
  BY DEF ClientDies, history
<1>2. /\ OthersKept(k)
      /\ \/ phase'[k] = "idle"
         \/ phase'[k] = "dead" /\ command'[k] = command[k]
  BY Begun DEF ClientDies, EndProcess, Functions, OthersKept
<1>3. ClientOK(k)'
  <2>1. CASE phase'[k] = "dead" /\ command'[k] = command[k]
    <3>1. Effect /\ NoNewCopies(Server(k), found[k])
      BY <1>1, QuietEffect
    <3>2. Acknowledged(k)' => Acknowledged(k)
      BY <1>1, <2>1 DEF Acknowledged
    <3>. QED  BY <1>1, <2>1, <3>1, <3>2, ClientKept, CopyingKept DEF ClientOK
  <2>. QED  BY <1>2, <2>1, IdleClient
<1>. QED  BY <1>1, <1>2, <1>3, QuietResults

LEMMA RequestFailsResults ==
    ASSUME IInv, RInv, NEW k \in Clients, RequestFails(k)
    PROVE  RInv'
<1>1. /\ issues' = issues /\ passedOn' = passedOn /\ resubmitted' = resubmitted
      /\ toCopy' = [toCopy EXCEPT ![k] = <<>>] /\ stage[k] # "none"
  BY DEF RequestFails, EndRequest, history
<1>2. /\ OthersKept(k) /\ command'[k] = command[k] /\ phase'[k] = phase[k] /\ stage'[k] = "error"
      /\ phase[k] \notin {"idle", "updating"}
  BY <1>1, Begun DEF RequestFails, EndRequest, SetStage, Functions, OthersKept
<1>3. Effect
  BY <1>1, QuietEffect
<1>4. ClientOK(k)'
  BY <1>2, <1>3, ClientKept DEF ClientOK, Copying, Acknowledged
<1>. QED  BY <1>1, <1>2, <1>4, QuietResults

LEMMA LookUpSubmitResults ==
    ASSUME IInv, RInv, NEW k \in Clients, LookUpSubmit(k)
    PROVE  RInv'
<1>1. PICK c : command[k] = c
  OBVIOUS
<1>2. /\ issues' = issues /\ passedOn' = passedOn /\ resubmitted' = resubmitted
      /\ toCopy' = toCopy /\ stage[k] = "queued" /\ c.kind = "submit"
  BY <1>1 DEF LookUpSubmit, Serves, history
<1>3. /\ OthersKept(k) /\ command'[k] = c /\ phase'[k] = phase[k]
      /\ stage'[k] = IF Matches(k) = {} THEN "looked" ELSE "ok"
      /\ phase[k] \notin {"idle", "updating"}
  BY <1>1, <1>2, Begun DEF LookUpSubmit, SetStage, Functions, OthersKept
<1>4. Effect
  BY <1>2, QuietEffect
<1>5. CASE Matches(k) = {}
  <2>1. ~Acknowledged(k)'
    BY <1>3, <1>5 DEF Acknowledged
  <2>. QED  BY <1>1, <1>2, <1>3, <1>4, <2>1, ClientKept, QuietResults
            DEF ClientOK, Copying, Answers
<1>6. CASE Matches(k) # {}
  <2>1. PICK i \in RowIds(c.to) : RefLabel(c.ref) \in issues[c.to][i].labels
    BY <1>1, <1>6 DEF Matches, WithRef, Server, RowIds
  <2>2. Delivered(k)'
    BY <1>2, <1>3, <2>1 DEF Delivered, Server, Answers, RowIds
  <2>3. Sent(k)'
    BY <1>1, <1>2, <1>3 DEF RInv, ClientOK, Sent, Submits, Answers, Own
  <2>4. ClientOK(k)'
    BY <1>2, <1>3, <2>2, <2>3 DEF ClientOK, Copying, Answers
  <2>. QED  BY <1>2, <1>3, <2>4, QuietResults
<1>. QED  BY <1>5, <1>6

(* The filter keeps what the found issue lacks, and no more often than it  *)
(* was sent.                                                               *)
LEMMA MissingFacts ==
    ASSUME NEW k, NEW issue, IsList(command[k].results)
    PROVE  LET s == MissingComments(k, issue) IN
           /\ IsList(s)
           /\ \A j \in DOMAIN command[k].results :
                 \/ \E n \in DOMAIN issue.results : issue.results[n] = CopyOf(k, j)
                 \/ \E n \in DOMAIN s : s[n] = CopyOf(k, j)
           /\ \A n \in DOMAIN s :
                 /\ \E j \in DOMAIN command[k].results : s[n] = CopyOf(k, j)
                 /\ \A m \in DOMAIN issue.results : issue.results[m] # s[n]
           /\ \A c : Count(s, FromPeer(Own(k), c)) <= Count(command[k].results, c)
<1>1. PICK a, r : r = command[k].results /\ a = Copies(k)
  OBVIOUS
<1>2. /\ a = [i \in DOMAIN r |-> FromPeer(Own(k), r[i])]
      /\ \A j : CopyOf(k, j) = FromPeer(Own(k), r[j])
  BY <1>1 DEF Copies, CopyOf, Own
<1>3. IsList(a)
  <2>1. DOMAIN r = 1..Len(r) /\ Len(r) \in Nat
    BY <1>1, ListFacts
  <2> DEFINE X == {a[n] : n \in DOMAIN a}
  <2>2. a \in [1..Len(r) -> X]
    BY <1>2, <2>1
  <2> HIDE DEF X
  <2>3. a \in Seq(X)
    BY <2>1, <2>2, SeqDef
  <2>. QED  BY <2>3 DEF IsList, X
<1>4. PICK P : P = {i \in DOMAIN a : \A n \in DOMAIN issue.results : issue.results[n] # a[i]}
  OBVIOUS
<1>5. PICK s : s = Selected(a, P)
  OBVIOUS
<1>6. MissingComments(k, issue) = s
  BY <1>1, <1>4, <1>5 DEF MissingComments
<1>7. /\ IsList(s)
      /\ \A n \in DOMAIN s : \E i \in P : s[n] = a[i]
      /\ \A i \in P : \E n \in DOMAIN s : s[n] = a[i]
      /\ \A x : Count(s, x) <= Count(a, x)
  <2>1. P \subseteq DOMAIN a
    BY <1>4
  <2>2. /\ IsList(Selected(a, P))
        /\ \A n \in DOMAIN Selected(a, P) : \E i \in P : Selected(a, P)[n] = a[i]
        /\ \A i \in P : \E n \in DOMAIN Selected(a, P) : Selected(a, P)[n] = a[i]
        /\ \A x : Count(Selected(a, P), x) <= Count(a, x)
    BY <1>3, <2>1, SelectedFacts
  <2>. QED  BY <1>5, <2>2
<1>8. \A c : Count(a, FromPeer(Own(k), c)) = Count(r, c)
  <2> SUFFICES ASSUME NEW c PROVE Count(a, FromPeer(Own(k), c)) = Count(r, c)
    OBVIOUS
  <2>1. {n \in DOMAIN a : a[n] = FromPeer(Own(k), c)} = {n \in DOMAIN r : r[n] = c}
    BY <1>2, FromPeerFacts
  <2>. QED  BY <2>1 DEF Count
<1>9. ASSUME NEW j \in DOMAIN r
      PROVE  \/ \E n \in DOMAIN issue.results : issue.results[n] = CopyOf(k, j)
             \/ \E n \in DOMAIN s : s[n] = CopyOf(k, j)
  <2>1. j \in DOMAIN a /\ a[j] = CopyOf(k, j)
    BY <1>2
  <2>. QED  BY <1>4, <1>7, <2>1
<1>10. ASSUME NEW n \in DOMAIN s
       PROVE  /\ \E j \in DOMAIN r : s[n] = CopyOf(k, j)
              /\ \A m \in DOMAIN issue.results : issue.results[m] # s[n]
  <2>1. PICK i \in P : s[n] = a[i]
    BY <1>7
  <2>2. i \in DOMAIN r /\ a[i] = CopyOf(k, i)
    BY <1>2, <1>4
  <2>. QED  BY <1>4, <2>1, <2>2
<1>. QED  BY <1>1, <1>6, <1>7, <1>8, <1>9, <1>10

LEMMA LookUpAnswerResults ==
    ASSUME IInv, RInv, NEW k \in Clients, LookUpAnswer(k)
    PROVE  RInv'
<1>1. PICK c : command[k] = c
  OBVIOUS
<1>2. /\ issues' = issues /\ passedOn' = passedOn /\ resubmitted' = resubmitted
      /\ stage[k] = "queued" /\ c.kind = "answer" /\ command' = command /\ phase' = phase
      /\ phase[k] \notin {"idle", "updating"}
  BY <1>1, Begun DEF LookUpAnswer, Serves, history
<1>3. Effect
  BY <1>2, QuietEffect
<1>4. CASE toCopy' = toCopy /\ found' = found /\ stage' = [stage EXCEPT ![k] = "error"]
  <2>1. OthersKept(k) /\ command'[k] = c /\ phase'[k] = phase[k] /\ stage'[k] = "error"
    BY <1>1, <1>2, <1>4, Begun DEF LookUpAnswer, Functions, OthersKept
  <2>2. ClientOK(k)'
    BY <1>1, <1>2, <1>3, <2>1, ClientKept DEF ClientOK, Copying, Acknowledged
  <2>. QED  BY <1>2, <1>4, <2>1, <2>2, QuietResults
<1>5. ASSUME NEW i \in Matches(k), found' = [found EXCEPT ![k] = i],
             toCopy' = [toCopy EXCEPT ![k] = MissingComments(k, issues[Server(k)][i])],
             stage' = [stage EXCEPT ![k] = "looked"]
      PROVE  RInv'
  <2>1. PICK s : s = MissingComments(k, issues[Server(k)][i])
    OBVIOUS
  <2>2. /\ OthersKept(k) /\ command'[k] = c /\ phase'[k] = phase[k] /\ stage'[k] = "looked"
        /\ found'[k] = i
    BY <1>1, <1>2, <1>5, Begun DEF LookUpAnswer, Functions, OthersKept
  <2>3. toCopy' = [toCopy EXCEPT ![k] = s] /\ toCopy'[k] = s
    BY <1>5, <2>1 DEF RInv
  <2>4. Sent(k)' /\ Delivered(k)'
    BY <1>1, <1>2, <1>3, <2>2, ClientKept DEF Acknowledged
  <2>5. IsList(c.results)
    BY <1>1, <1>2 DEF RInv, ClientOK, Sent, Answers
  <2>6. PICK old : old = issues[c.to][i].results
    OBVIOUS
  <2>7. /\ \A j : CopyOf(k, j) = FromPeer(c.at, c.results[j])
        /\ \A j : CopyOf(k, j)' = FromPeer(c.at, c.results[j])
        /\ (FoundResults(k))' = old /\ Own(k) = c.at /\ Own(k)' = c.at
    BY <1>1, <1>2, <2>2, <2>6 DEF CopyOf, Own, FoundResults, Res, Server
  <2>8. /\ IsList(s)
        /\ \A j \in DOMAIN c.results :
              \/ \E n \in DOMAIN old : old[n] = FromPeer(c.at, c.results[j])
              \/ \E n \in DOMAIN s : s[n] = FromPeer(c.at, c.results[j])
        /\ \A n \in DOMAIN s :
              /\ \E j \in DOMAIN c.results : s[n] = FromPeer(c.at, c.results[j])
              /\ \A m \in DOMAIN old : old[m] # s[n]
        /\ \A x : Count(s, FromPeer(c.at, x)) <= Count(c.results, x)
    <3>1. issues[Server(k)][i].results = old
      BY <1>1, <2>6 DEF Server
    <3>. QED  BY <1>1, <2>1, <2>5, <2>7, <3>1, MissingFacts
  <2>9. AllThere(k)' /\ OnlyMissing(k)' /\ NoMoreThanSent(k)'
    BY <2>2, <2>3, <2>7, <2>8 DEF AllThere, OnlyMissing, NoMoreThanSent
  <2>10. Copying(k)'
    BY <2>2, <2>3, <2>8, <2>9 DEF Copying
  <2>. QED  BY <1>2, <2>2, <2>3, <2>4, <2>10, QuietResults DEF ClientOK
<1>. QED  BY <1>4, <1>5 DEF LookUpAnswer, SetStage, UnknownRequest

-----------------------------------------------------------------------------
(* Steps that write to an issue *)

(* The labels that issue <<r, i>> gets name references with their source. *)
NewRefsNamed(r, i, labels) ==
    \A u : RefLabel(u) \in labels =>
        \/ RefLabel(u) \in issues[r][i].labels \/ u[1] = r
        \/ {Inbound, SourceLabel(u[1])} \subseteq labels

RowReplaced(r, i, y) ==
    /\ Grows /\ issues'[r][i] = y /\ Uuids' = Uuids
    /\ \A p \in Repos : RowIds(p)' = RowIds(p)
    /\ \A p \in Repos : \A j \in RowIds(p) :
          p # r \/ j # i => issues'[p][j] = issues[p][j]

LEMMA RowReplacedBy ==
    ASSUME IInv, UNCHANGED history, NEW r \in Repos, NEW i \in RowIds(r), NEW y,
           IsIssue(y), Extends(y, issues[r][i]), issues' = [issues EXCEPT ![r][i] = y]
    PROVE  RowReplaced(r, i, y)
<1>1. /\ Grows /\ IssueTypes' /\ Uuids' = Uuids /\ Label' = Label
      /\ issues'[r][i] = y
      /\ \A p \in Repos : RowIds(p)' = RowIds(p)
      /\ \A p \in Repos : \A j \in RowIds(p) :
            p # r \/ j # i => issues'[p][j] = issues[p][j]
  BY RowWritten
<1>. QED  BY <1>1 DEF RowReplaced

LEMMA WriteEffect ==
    ASSUME IInv, RInv, NEW r \in Repos, NEW i \in RowIds(r), NEW y, RowReplaced(r, i, y),
           IsList(y.results), Prefix(issues[r][i].results, y.results),
           NewRefsNamed(r, i, y.labels)
    PROVE  /\ Effect
           /\ \A p \in Repos : \A j \in RowIds(p) : p # r \/ j # i => NoNewCopies(p, j)
           /\ y.results = issues[r][i].results => NoNewCopies(r, i)
<1>1. /\ Grows /\ issues'[r][i] = y /\ Uuids' = Uuids
      /\ \A p \in Repos : RowIds(p)' = RowIds(p)
      /\ \A p \in Repos : \A j \in RowIds(p) :
            p # r \/ j # i => issues'[p][j] = issues[p][j]
  BY DEF RowReplaced
<1>2. \A p \in Repos : \A j \in RowIds(p) :
        IsList(issues[p][j].results) /\ Prefix(issues[p][j].results, issues[p][j].results)
  BY DEF RInv, ResultsOK, Res, Prefix
<1>3. \A p \in Repos : \A j \in RowIds(p) :
        IsList(issues'[p][j].results) /\ Prefix(issues[p][j].results, issues'[p][j].results)
  BY <1>1, <1>2
<1>4. ASSUME NEW p \in Repos, NEW j \in RowIds(p), NEW u \in Refs(p, j)' \ Refs(p, j)
      PROVE  u[1] = p \/ {Inbound, SourceLabel(u[1])} \subseteq issues'[p][j].labels
  <2>1. RefLabel(u) \in issues'[p][j].labels /\ RefLabel(u) \notin issues[p][j].labels
    BY <1>1 DEF Refs, RefsOf
  <2>. QED  BY <1>1, <2>1 DEF NewRefsNamed
<1>5. Effect
  BY <1>1, <1>3, <1>4 DEF Effect
<1>. QED  BY <1>1, <1>5 DEF NoNewCopies

(* Such a step adds no results, or adds them only to the issue that client *)
(* k's server works on.                                                    *)
LEMMA WriteResults ==
    ASSUME IInv, RInv, Effect, NEW k \in Clients, OthersKept(k), toCopy' = toCopy, ClientOK(k)',
           NEW r \in Repos, NEW i,
           \A p \in Repos : \A j \in RowIds(p) : p # r \/ j # i => NoNewCopies(p, j),
           \/ i \in RowIds(r) /\ NoNewCopies(r, i)
           \/ i \notin RowIds(r)
           \/ ResultsOK(r, i)' /\ stage[k] \in InProgress /\ Server(k) = r
    PROVE  RInv'
<1>1. \A j \in Clients \ {k} : Answers(j) /\ stage[j] = "looked" => NoNewCopies(Server(j), found[j])
  <2> SUFFICES ASSUME NEW j \in Clients, j # k, Answers(j), stage[j] = "looked"
               PROVE  NoNewCopies(Server(j), found[j])
    OBVIOUS
  <2>1. Server(j) \in Repos /\ found[j] \in RowIds(Server(j))
    BY Begun DEF Static, WellFormed, Answers, Progress, FoundOK
  <2>2. stage[k] \in InProgress /\ Server(k) = r => Server(j) # r
    BY DEF IInv, Servers, OneInProgress, InProgress
  <2>. QED  BY <2>1, <2>2
<1>2. \A p \in Repos : \A j \in RowIds(p)' :
        (j \in RowIds(p) => NoNewCopies(p, j)) \/ ResultsOK(p, j)'
  OBVIOUS
<1>3. toCopy' = [j \in Clients |-> toCopy'[j]] /\ \A j \in Clients \ {k} : toCopy'[j] = toCopy[j]
  BY DEF RInv
<1>. QED  BY <1>1, <1>2, <1>3, RAssemble

(* The client names its own reference only, and no results. *)
LEMMA UpdateOwnIssueResults ==
    ASSUME IInv, RInv, NEW k \in Clients, UpdateOwnIssue(k)
    PROVE  RInv'
<1>1. PICK c, r, i, x : command[k] = c /\ c.at = r /\ c.issue = i /\ x = Head(updates[k])
  OBVIOUS
<1>2. PICK y : y = Updated(issues[r][i], x)
  OBVIOUS
<1>3. /\ UNCHANGED history /\ issues' = [issues EXCEPT ![r][i] = y] /\ toCopy' = toCopy
  BY <1>1, <1>2 DEF UpdateOwnIssue, Own
<1>4. /\ Static(k) /\ Progress(k) /\ phase[k] = "updating" /\ stage[k] = "none"
  BY Begun DEF UpdateOwnIssue
<1>5. /\ r \in Repos /\ i \in RowIds(r) /\ c.ref \in Uuids /\ c.kind \in {"submit", "answer"}
  BY <1>1, <1>4 DEF Static, WellFormed, Own, Id
<1>6. /\ x \in Label \cup {Close}
      /\ \A u : x = RefLabel(u) => u[1] = r
  <2>1. CASE c.kind = "submit"
    <3>1. x \in {Outbound, Status("pending"), RefLabel(c.ref)}
      BY <1>1, <1>4, <2>1, UpdateFacts DEF Progress, SubmitProgress, Submits
    <3>2. c.ref[1] = r
      BY <1>1, <1>4, <2>1, UuidFacts DEF Static, SubmissionOK, Submits, Own
    <3>3. \A u : x = RefLabel(u) => u = c.ref
      BY <3>1, RefLabelFacts
    <3>. QED  BY <1>5, <3>1, <3>2, <3>3, LabelFacts
  <2>2. CASE c.kind = "answer"
    <3>1. x \in {Status("answered"), Close}
      BY <1>1, <1>4, <2>2, UpdateFacts DEF Progress, AnswerProgress, Answers
    <3>. QED  BY <3>1, LabelFacts, RefLabelFacts
  <2>. QED  BY <1>5, <2>1, <2>2
<1>7. IsIssue(issues[r][i])
  BY <1>5 DEF IInv, Types
<1>8. /\ IsIssue(y) /\ Extends(y, issues[r][i])
      /\ y.labels = issues[r][i].labels \/ y.labels = issues[r][i].labels \cup {x}
      /\ y.results = issues[r][i].results
  <2>1. y.results = issues[r][i].results
    BY <1>2, <1>7 DEF IsIssue, Updated
  <2>. QED  BY <1>2, <1>6, <1>7, <2>1, UpdatedFacts
<1>9. RowReplaced(r, i, y)
  BY <1>3, <1>5, <1>8, RowReplacedBy
<1>10. /\ Effect /\ NoNewCopies(r, i)
       /\ \A p \in Repos : \A j \in RowIds(p) : p # r \/ j # i => NoNewCopies(p, j)
  <2>1. IsList(y.results) /\ Prefix(issues[r][i].results, y.results)
    BY <1>5, <1>8 DEF RInv, ResultsOK, Res, Prefix
  <2>2. NewRefsNamed(r, i, y.labels)
    BY <1>6, <1>8 DEF NewRefsNamed
  <2>. QED  BY <1>5, <1>8, <1>9, <2>1, <2>2, WriteEffect
<1>11. /\ OthersKept(k) /\ stage'[k] = "none"
       /\ \/ phase'[k] = "idle"
          \/ phase'[k] = phase[k] /\ command'[k] = command[k]
  BY <1>4, Begun DEF UpdateOwnIssue, EndProcess, Functions, OthersKept
<1>12. ClientOK(k)'
  <2>1. CASE phase'[k] = phase[k] /\ command'[k] = command[k]
    <3>1. Acknowledged(k)' => Acknowledged(k)
      BY <1>4, <2>1 DEF Acknowledged
    <3>. QED  BY <1>10, <1>11, <2>1, <3>1, ClientKept DEF ClientOK, Copying
  <2>. QED  BY <1>11, <2>1, IdleClient
<1>. QED  BY <1>3, <1>5, <1>10, <1>11, <1>12, WriteResults

LEMMA CreateIssueResults ==
    ASSUME IInv, RInv, NEW k \in Clients, CreateIssue(k)
    PROVE  RInv'
<1>1. PICK c, t, n, y : /\ command[k] = c /\ t = c.to
                        /\ n = Len(issues[t]) + 1 /\ y = NewIssue(c.ref)
  OBVIOUS
<1>2. /\ Static(k) /\ Progress(k) /\ stage[k] = "looked" /\ Types /\ c.kind = "submit"
      /\ phase[k] \notin {"idle", "updating"}
  BY <1>1, Begun DEF CreateIssue, IInv
<1>3. t \in Repos
  BY <1>1, <1>2 DEF Static, WellFormed, Server
<1>4. /\ issues' = [issues EXCEPT ![t] = Append(@, y)] /\ UNCHANGED history /\ toCopy' = toCopy
  BY <1>1 DEF CreateIssue, Server
<1>5. /\ \A p \in Repos : RowIds(p) \subseteq RowIds(p)' /\ (p # t => RowIds(p)' = RowIds(p))
      /\ RowIds(t)' = RowIds(t) \cup {n} /\ n \notin RowIds(t) /\ issues'[t][n] = y
      /\ \A p \in Repos : \A j \in RowIds(p) : issues'[p][j] = issues[p][j]
  <2>1. issues' = [issues EXCEPT ![t] = Append(@, y)]
    BY <1>4
  <2>2. /\ ByRepo'
        /\ \A p \in Repos : /\ RowIds(p) \subseteq RowIds(p)' /\ IsTable(p)'
                            /\ p # t => RowIds(p)' = RowIds(p)
        /\ RowIds(t)' = RowIds(t) \cup {Len(issues[t]) + 1}
        /\ Len(issues[t]) + 1 \notin RowIds(t)
        /\ issues'[t][Len(issues[t]) + 1] = y
        /\ \A p \in Repos : \A j \in RowIds(p) : issues'[p][j] = issues[p][j]
    BY <1>2, <1>3, <2>1, RowAppended
  <2>. QED  BY <1>1, <2>2
<1>6. y.labels = {} /\ y.results = <<>>
  BY <1>1 DEF NewIssue
<1>7. Grows
  BY <1>4, <1>5 DEF Grows, history
<1>8. Effect
  <2>1. \A p \in Repos : \A j \in RowIds(p) :
          /\ IsList(issues'[p][j].results) /\ Prefix(issues[p][j].results, issues'[p][j].results)
          /\ \A u \in Refs(p, j)' \ Refs(p, j) :
               u[1] = p \/ {Inbound, SourceLabel(u[1])} \subseteq issues'[p][j].labels
    <3> SUFFICES ASSUME NEW p \in Repos, NEW j \in RowIds(p)
                 PROVE  /\ IsList(issues'[p][j].results)
                        /\ Prefix(issues[p][j].results, issues'[p][j].results)
                        /\ \A u \in Refs(p, j)' \ Refs(p, j) :
                             {Inbound, SourceLabel(u[1])} \subseteq issues'[p][j].labels
      OBVIOUS
    <3>1. IsList(issues'[p][j].results) /\ Prefix(issues[p][j].results, issues'[p][j].results)
      BY <1>5 DEF RInv, ResultsOK, Res, Prefix
    <3>2. \A u \in Refs(p, j)' : u \in Refs(p, j)
      <4>1. LabelledRefs
        BY RefsAreLabels DEF IInv
      <4>2. \A u \in Refs(p, j)' : RefLabel(u) \in issues[p][j].labels
        BY <1>5 DEF Refs, RefsOf
      <4>. QED  BY <4>1, <4>2 DEF LabelledRefs
    <3>. QED  BY <3>1, <3>2
  <2>. QED  BY <1>5, <1>6, <1>7, <2>1 DEF Effect
<1>9. /\ OthersKept(k) /\ stage'[k] = "created" /\ phase'[k] = phase[k] /\ command'[k] = c
  BY <1>1, Begun DEF CreateIssue, SetStage, Functions, OthersKept
<1>10. ClientOK(k)'
  <2>1. ~Acknowledged(k)' /\ ~Answers(k)'
    BY <1>2, <1>9 DEF Acknowledged, Answers
  <2>. QED  BY <1>1, <1>8, <1>9, <2>1, ClientKept DEF ClientOK, Copying
<1>11. \A p \in Repos : \A j \in RowIds(p) : NoNewCopies(p, j)
  BY <1>5 DEF NoNewCopies
<1>. QED  BY <1>3, <1>4, <1>5, <1>8, <1>9, <1>10, <1>11, WriteResults

(* The labels that go with a submission name the sources of the references *)
(* among them.                                                             *)
LEMMA LabelIssueResults ==
    ASSUME IInv, RInv, NEW k \in Clients, LabelIssue(k)
    PROVE  RInv'
<1>1. PICK c : command[k] = c
  OBVIOUS
<1>2. PICK f, t, u, r, cl : found[k] = f /\ c.to = t /\ c.ref = u /\ c.at = r /\ c.labels = cl
  OBVIOUS
<1>3. PICK y : y = [issues[t][f] EXCEPT !.labels =
                        @ \cup cl \cup {Inbound, Status("open"), SourceLabel(r), RefLabel(u)}]
  OBVIOUS
<1>4. /\ Static(k) /\ Progress(k) /\ stage[k] = "created" /\ Types
      /\ phase[k] \notin {"idle", "updating"}
  BY Begun DEF LabelIssue, IInv
<1>5. /\ c.kind = "submit" /\ t \in Repos /\ r \in Repos /\ f \in RowIds(t) /\ u \in Uuids
  BY <1>1, <1>2, <1>4
     DEF Static, WellFormed, Progress, FoundOK, Server, Own
<1>6. /\ u[1] = r /\ cl \subseteq Label
      /\ \A v : RefLabel(v) \in cl /\ v[1] # r => {Inbound, SourceLabel(v[1])} \subseteq cl
  <2>1. u = Uuid(r, c.issue) /\ cl \subseteq Label
    BY <1>1, <1>2, <1>4, <1>5 DEF Static, SubmissionOK, Submits, Own, Id
  <2>2. \A v : RefLabel(v) \in cl /\ v[1] # r => {Inbound, SourceLabel(v[1])} \subseteq cl
    BY <1>1, <1>2, <1>4, <1>5 DEF RInv, ClientOK, Sent, Submits, Own
  <2>. QED  BY <2>1, <2>2, UuidFacts
<1>7. /\ UNCHANGED history /\ issues' = [issues EXCEPT ![t][f] = y] /\ toCopy' = toCopy
  BY <1>1, <1>2, <1>3 DEF LabelIssue, UpdateFound, Server, FoundIssue
<1>8. IsIssue(issues[t][f])
  BY <1>4, <1>5 DEF Types
<1>9. /\ IsIssue(y) /\ Extends(y, issues[t][f]) /\ y.results = issues[t][f].results
      /\ y.labels = issues[t][f].labels \cup cl
            \cup {Inbound, Status("open"), SourceLabel(r), RefLabel(u)}
  <2>1. y.labels = issues[t][f].labels \cup cl
            \cup {Inbound, Status("open"), SourceLabel(r), RefLabel(u)}
    BY <1>3, <1>8 DEF IsIssue
  <2>2. {Inbound, Status("open"), SourceLabel(r), RefLabel(u)} \subseteq Label
    BY <1>5, LabelFacts
  <2>3. y.labels \subseteq Label
    BY <1>6, <1>8, <2>1, <2>2 DEF IsIssue
  <2>4. IsIssue(y)
    BY <1>3, <1>8, <2>3 DEF IsIssue
  <2>5. /\ y.for = issues[t][f].for /\ y.closed = issues[t][f].closed
        /\ y.results = issues[t][f].results
    BY <1>3, <1>8 DEF IsIssue
  <2>. QED  BY <2>1, <2>4, <2>5 DEF Extends
<1>10. RowReplaced(t, f, y)
  BY <1>5, <1>7, <1>9, RowReplacedBy
<1>11. NewRefsNamed(t, f, y.labels)
  <2> SUFFICES ASSUME NEW v, RefLabel(v) \in y.labels, RefLabel(v) \notin issues[t][f].labels
               PROVE  {Inbound, SourceLabel(v[1])} \subseteq y.labels
    BY DEF NewRefsNamed
  <2>1. RefLabel(v) \in cl \/ v = u
    BY <1>9, RefLabelFacts
  <2>. QED  BY <1>6, <1>9, <2>1
<1>12. /\ Effect /\ NoNewCopies(t, f)
       /\ \A p \in Repos : \A j \in RowIds(p) : p # t \/ j # f => NoNewCopies(p, j)
  <2>1. IsList(y.results) /\ Prefix(issues[t][f].results, y.results)
    BY <1>5, <1>9 DEF RInv, ResultsOK, Res, Prefix
  <2>. QED  BY <1>5, <1>9, <1>10, <1>11, <2>1, WriteEffect
<1>13. /\ OthersKept(k) /\ stage'[k] = "ok" /\ phase'[k] = phase[k] /\ command'[k] = c
  BY <1>1, Begun DEF LabelIssue, SetStage, Functions, OthersKept
<1>14. ClientOK(k)'
  <2>1. Sent(k)'
    BY <1>1, <1>5, <1>13 DEF RInv, ClientOK, Sent, Submits, Answers, Own
  <2>2. RefLabel(u) \in issues'[t][f].labels /\ f \in RowIds(t)'
    BY <1>5, <1>9, <1>10 DEF RowReplaced
  <2>3. ~Answers(k)'
    BY <1>5, <1>13 DEF Answers
  <2>4. Delivered(k)'
    BY <1>2, <1>13, <2>2, <2>3 DEF Delivered, Server
  <2>. QED  BY <2>1, <2>3, <2>4 DEF ClientOK, Copying
<1>. QED  BY <1>5, <1>7, <1>12, <1>13, <1>14, WriteResults

LEMMA CloseAnsweredResults ==
    ASSUME IInv, RInv, NEW k \in Clients, CloseAnswered(k)
    PROVE  RInv'
<1>1. PICK c, f, t : command[k] = c /\ found[k] = f /\ c.to = t
  OBVIOUS
<1>2. PICK y : y = [issues[t][f] EXCEPT !.closed = TRUE]
  OBVIOUS
<1>3. /\ Static(k) /\ Progress(k) /\ stage[k] = "applied" /\ Types
      /\ phase[k] \notin {"idle", "updating"}
  BY Begun DEF CloseAnswered, IInv
<1>4. /\ c.kind = "answer" /\ t \in Repos /\ f \in RowIds(t)
      /\ Status("resolved") \in issues[t][f].labels /\ RefLabel(c.ref) \in issues[t][f].labels
  BY <1>1, <1>3 DEF Static, WellFormed, Progress, FoundOK, FoundIssue, Server
<1>5. /\ UNCHANGED history /\ issues' = [issues EXCEPT ![t][f] = y] /\ toCopy' = toCopy
  BY <1>1, <1>2 DEF CloseAnswered, UpdateFound, Server, FoundIssue
<1>6. IsIssue(issues[t][f])
  BY <1>3, <1>4 DEF Types
<1>7. /\ IsIssue(y) /\ Extends(y, issues[t][f]) /\ y.closed = TRUE
      /\ y.labels = issues[t][f].labels /\ y.results = issues[t][f].results
  BY <1>2, <1>6 DEF IsIssue, Extends
<1>8. RowReplaced(t, f, y)
  BY <1>4, <1>5, <1>7, RowReplacedBy
<1>9. /\ Effect /\ NoNewCopies(t, f)
      /\ \A p \in Repos : \A j \in RowIds(p) : p # t \/ j # f => NoNewCopies(p, j)
  <2>1. IsList(y.results) /\ Prefix(issues[t][f].results, y.results)
    BY <1>4, <1>7 DEF RInv, ResultsOK, Res, Prefix
  <2>2. NewRefsNamed(t, f, y.labels)
    BY <1>7 DEF NewRefsNamed
  <2>. QED  BY <1>4, <1>7, <1>8, <2>1, <2>2, WriteEffect
<1>10. /\ OthersKept(k) /\ stage'[k] = "ok" /\ phase'[k] = phase[k] /\ command'[k] = c
  BY <1>1, Begun DEF CloseAnswered, SetStage, Functions, OthersKept
<1>11. Sent(k)'
  <2>1. c.at \in Repos /\ c.issue \in RowIds(c.at)
    BY <1>1, <1>3 DEF Static, WellFormed, Own, Id
  <2>2. IsList(c.results) /\ Prefix(c.results, issues[c.at][c.issue].results)
    BY <1>1, <1>3, <1>4 DEF RInv, ClientOK, Sent, Answers, Res, Own, Id
  <2>3. Prefix(issues[c.at][c.issue].results, issues'[c.at][c.issue].results)
    BY <1>9, <2>1 DEF Effect
  <2>4. Prefix(c.results, issues'[c.at][c.issue].results)
    BY <2>2, <2>3 DEF Prefix
  <2>. QED  BY <1>4, <1>10, <2>2, <2>4 DEF Sent, Submits, Res, Own, Id
<1>12. Delivered(k)'
  <2>1. \A m \in DOMAIN c.results : \E n \in DOMAIN issues[t][f].results :
            issues[t][f].results[n] = FromPeer(c.at, c.results[m])
    BY <1>1, <1>3, <1>4
       DEF RInv, ClientOK, Copying, Answers, HasCopies, FoundResults, Res, Server, CopyOf, Own
  <2>2. /\ f \in RowIds(t)' /\ issues'[t][f].closed
        /\ issues'[t][f].labels = issues[t][f].labels
        /\ issues'[t][f].results = issues[t][f].results
    BY <1>4, <1>7, <1>8 DEF RowReplaced
  <2>. QED  BY <1>1, <1>4, <1>10, <2>1, <2>2
            DEF Delivered, Server, HasCopies, CopyOf, Own, Res
<1>13. ClientOK(k)'
  BY <1>10, <1>11, <1>12 DEF ClientOK, Copying
<1>. QED  BY <1>4, <1>5, <1>9, <1>10, <1>13, WriteResults

(* What the transaction adds is what was missing when it was looked up,    *)
(* and is still missing: nobody else writes copies to the server's issues  *)
(* meanwhile.                                                              *)
LEMMA ApplyAnswerResults ==
    ASSUME IInv, RInv, NEW k \in Clients, ApplyAnswer(k)
    PROVE  RInv'
<1>1. PICK c, f, t, u, s :
         command[k] = c /\ found[k] = f /\ c.to = t /\ c.ref = u /\ toCopy[k] = s
  OBVIOUS
<1>2. PICK old, new, r, i : /\ old = issues[t][f].results /\ new = old \o s
                            /\ r = c.at /\ i = c.issue
  OBVIOUS
<1>3. PICK y : y = [issues[t][f] EXCEPT !.results = @ \o s,
                        !.labels = (@ \ {Status("pending")}) \cup {Status("resolved")}]
  OBVIOUS
<1>4. /\ Static(k) /\ Progress(k) /\ stage[k] = "looked" /\ Types /\ c.kind = "answer"
      /\ phase[k] \notin {"idle", "updating"}
  BY <1>1, Begun DEF ApplyAnswer, IInv
<1>5. /\ t \in Repos /\ f \in RowIds(t) /\ r \in Repos /\ i \in RowIds(r) /\ r # t
      /\ RefLabel(u) \in issues[t][f].labels /\ RefLabel(u) \in issues[r][i].labels
      /\ u \in Uuids
  BY <1>1, <1>2, <1>4
     DEF Static, WellFormed, AnswerOK, Answers, Progress, FoundOK, FoundIssue, Server, Own,
         OwnIssue, Id
<1>6. /\ UNCHANGED history /\ issues' = [issues EXCEPT ![t][f] = y] /\ toCopy' = toCopy
  BY <1>1, <1>3 DEF ApplyAnswer, UpdateFound, Server, FoundIssue
<1>7. IsIssue(issues[t][f])
  BY <1>4, <1>5 DEF Types
<1>8. /\ IsIssue(y) /\ Extends(y, issues[t][f]) /\ y.results = new
      /\ y.labels = (issues[t][f].labels \ {Status("pending")}) \cup {Status("resolved")}
  <2>1. /\ y.labels = (issues[t][f].labels \ {Status("pending")}) \cup {Status("resolved")}
        /\ y.results = new
    BY <1>2, <1>3, <1>7 DEF IsIssue
  <2>2. y.labels \subseteq Label
    BY <1>7, <2>1, LabelFacts DEF IsIssue
  <2>3. IsIssue(y)
    BY <1>3, <1>7, <2>2 DEF IsIssue
  <2>4. y.for = issues[t][f].for /\ y.closed = issues[t][f].closed
    BY <1>3, <1>7 DEF IsIssue
  <2>. QED  BY <2>1, <2>3, <2>4 DEF Extends
<1>9. RowReplaced(t, f, y)
  BY <1>5, <1>6, <1>8, RowReplacedBy
<1>10. /\ \A m : CopyOf(k, m) = FromPeer(r, c.results[m])
       /\ FoundResults(k) = old /\ Own(k) = r
  BY <1>1, <1>2 DEF CopyOf, Own, FoundResults, Res, Server
<1>11. /\ IsList(old) /\ IsList(s) /\ IsList(c.results)
       /\ Prefix(c.results, issues[r][i].results) /\ IsList(issues[r][i].results)
  BY <1>1, <1>2, <1>4, <1>5
     DEF RInv, ResultsOK, Res, ClientOK, Sent, Copying, Answers, Own, Id
<1>12. /\ \A m \in DOMAIN c.results :
             \/ \E n \in DOMAIN old : old[n] = FromPeer(r, c.results[m])
             \/ \E n \in DOMAIN s : s[n] = FromPeer(r, c.results[m])
       /\ \A n \in DOMAIN s :
             /\ \E m \in DOMAIN c.results : s[n] = FromPeer(r, c.results[m])
             /\ \A m \in DOMAIN old : old[m] # s[n]
       /\ \A x : Count(s, FromPeer(r, x)) <= Count(c.results, x)
  <2>1. AllThere(k) /\ OnlyMissing(k) /\ NoMoreThanSent(k)
    BY <1>1, <1>4 DEF RInv, ClientOK, Copying, Answers
  <2>. QED  BY <1>1, <1>10, <2>1 DEF AllThere, OnlyMissing, NoMoreThanSent
<1>13. /\ IsList(new) /\ Prefix(old, new)
       /\ \A n \in DOMAIN s : \E m \in DOMAIN new : new[m] = s[n]
       /\ \A x : /\ Count(s, x) = 0 => Count(new, x) = Count(old, x)
                 /\ Count(old, x) = 0 => Count(new, x) <= Count(s, x)
  <2>1. /\ IsList(old \o s) /\ Prefix(old, old \o s)
        /\ \A n \in DOMAIN s : \E m \in DOMAIN (old \o s) : (old \o s)[m] = s[n]
        /\ \A m \in DOMAIN (old \o s) \ DOMAIN old :
              m - Len(old) \in DOMAIN s /\ (old \o s)[m] = s[m - Len(old)]
    BY <1>11, JoinedList
  <2>2. \A x : /\ Count(s, x) = 0 => Count(old \o s, x) = Count(old, x)
               /\ Count(old, x) = 0 => Count(old \o s, x) <= Count(s, x)
    BY <1>11, JoinedCounts
  <2>. QED  BY <1>2, <2>1, <2>2
<1>14. /\ Effect
       /\ \A p \in Repos : \A j \in RowIds(p) : p # t \/ j # f => NoNewCopies(p, j)
  <2>1. Prefix(issues[t][f].results, y.results) /\ IsList(y.results)
    BY <1>2, <1>8, <1>13
  <2>2. NewRefsNamed(t, f, y.labels)
    BY <1>8, RefLabelFacts DEF NewRefsNamed
  <2>. QED  BY <1>5, <1>9, <2>1, <2>2, WriteEffect
<1>15. /\ f \in RowIds(t)' /\ issues'[t][f].results = new
       /\ i \in RowIds(r)' /\ issues'[r][i] = issues[r][i]
  BY <1>5, <1>8, <1>9 DEF RowReplaced
<1>16. CopiesWritten(t, f)'
  <2> SUFFICES ASSUME NEW p \in Repos, NEW x, Count(new, FromPeer(p, x)) # 0
               PROVE  \E j \in RowIds(p)' :
                        /\ Refs(p, j)' \cap Refs(t, f)' # {}
                        /\ Count(new, FromPeer(p, x)) <= Count(issues'[p][j].results, x)
    BY <1>15 DEF CopiesWritten, Res
  <2>1. PICK z : z = FromPeer(p, x)
    OBVIOUS
  <2>2. /\ Count(new, z) \in Nat /\ Count(s, z) \in Nat /\ Count(old, z) \in Nat
        /\ Count(s, z) = 0 <=> \A n \in DOMAIN s : s[n] # z
        /\ Count(old, z) = 0 <=> \A n \in DOMAIN old : old[n] # z
    BY <1>11, <1>13, ListFacts
  <2>3. CASE Count(old, z) = 0
    <3>1. Count(new, z) <= Count(s, z) /\ Count(s, z) # 0
      BY <1>13, <2>1, <2>2, <2>3
    <3>2. PICK n \in DOMAIN s : s[n] = z
      BY <2>2, <3>1
    <3>3. p = r
      BY <1>12, <2>1, <3>2, FromPeerFacts
    <3>4. Count(s, z) <= Count(c.results, x)
      BY <1>12, <2>1, <3>3
    <3>5. Count(c.results, x) <= Count(issues[r][i].results, x)
      BY <1>11, PrefixCounts
    <3>6. Count(c.results, x) \in Nat /\ Count(issues[r][i].results, x) \in Nat
      BY <1>11, ListFacts
    <3>7. Count(new, z) <= Count(issues'[r][i].results, x)
      BY <1>15, <2>2, <3>1, <3>4, <3>5, <3>6
    <3>8. u \in Refs(r, i)' /\ u \in Refs(t, f)'
      <4>1. u \in Refs(r, i) /\ u \in Refs(t, f)
        BY <1>5 DEF Refs, RefsOf
      <4>. QED  BY <1>5, <1>14, <4>1, FactsGrow DEF Effect
    <3>. QED  BY <1>15, <2>1, <3>3, <3>7, <3>8
  <2>4. CASE Count(old, z) # 0
    <3>1. PICK m \in DOMAIN old : old[m] = z
      BY <2>2, <2>4
    <3>2. Count(s, z) = 0
      BY <1>12, <2>2, <3>1
    <3>3. Count(new, z) = Count(old, z)
      BY <1>13, <3>2
    <3>4. /\ Count(issues'[t][f].results, z) = Count(Res(t, f), z)
          /\ Count(Res(t, f), z) # 0
      BY <1>2, <1>15, <2>4, <3>3 DEF Res
    <3>5. \E j \in RowIds(p)' :
             /\ Refs(p, j)' \cap Refs(t, f)' # {}
             /\ Count(issues'[t][f].results, z) <= Count(issues'[p][j].results, x)
      BY <1>5, <1>14, <2>1, <3>4, CopiesKept
    <3>. QED  BY <1>15, <2>1, <3>5
  <2>. QED  BY <2>3, <2>4
<1>17. ResultsOK(t, f)'
  <2>1. SourceNamed(t, f)'
    BY <1>5, <1>14, SourceKept
  <2>. QED  BY <1>13, <1>15, <1>16, <2>1 DEF ResultsOK, Res
<1>18. /\ OthersKept(k) /\ stage'[k] = "applied" /\ phase'[k] = phase[k] /\ command'[k] = c
       /\ found'[k] = f
  BY <1>1, Begun DEF ApplyAnswer, SetStage, Functions, OthersKept
<1>19. ClientOK(k)'
  <2>1. Sent(k)' /\ Delivered(k)'
    BY <1>1, <1>4, <1>14, <1>18, ClientKept DEF Acknowledged
  <2>2. \A m \in DOMAIN c.results : \E n \in DOMAIN new : new[n] = FromPeer(r, c.results[m])
    BY <1>12, <1>13 DEF Prefix
  <2>3. Copying(k)'
    BY <1>1, <1>2, <1>15, <1>18, <2>2
       DEF Copying, HasCopies, FoundResults, Res, Server, CopyOf, Own
  <2>. QED  BY <2>1, <2>3 DEF ClientOK
<1>20. stage[k] \in InProgress /\ Server(k) = t
  BY <1>1, <1>4 DEF InProgress, Server
<1>. QED  BY <1>5, <1>6, <1>14, <1>17, <1>18, <1>19, <1>20, WriteResults

(* What a user writes is nobody's copy. *)
LEMMA AddResultResults ==
    ASSUME IInv, RInv, NEW r \in Repos, NEW i \in RowIds(r), NEW c, AddResult(r, i, c)
    PROVE  RInv'
<1>1. PICK old, new, y : /\ old = issues[r][i].results /\ new = Append(old, Written(c))
                         /\ y = [issues[r][i] EXCEPT !.results = Append(@, Written(c))]
  OBVIOUS
<1>2. IsIssue(issues[r][i]) /\ IsList(old)
  BY <1>1 DEF IInv, Types, RInv, ResultsOK, Res
<1>3. /\ IsIssue(y) /\ Extends(y, issues[r][i]) /\ y.labels = issues[r][i].labels
      /\ y.results = new
  BY <1>1, <1>2 DEF IsIssue, Extends
<1>4. /\ UNCHANGED history /\ issues' = [issues EXCEPT ![r][i] = y] /\ toCopy' = toCopy
      /\ command' = command /\ phase' = phase /\ updates' = updates /\ stage' = stage
      /\ found' = found
  BY <1>1 DEF AddResult
<1>5. RowReplaced(r, i, y)
  BY <1>3, <1>4, RowReplacedBy
<1>6. IsList(new) /\ Prefix(old, new) /\ \A n \in DOMAIN new \ DOMAIN old : new[n] = Written(c)
  BY <1>1, <1>2, AppendedList
<1>7. /\ Effect
      /\ \A p \in Repos : \A j \in RowIds(p) : p # r \/ j # i => NoNewCopies(p, j)
  <2>1. NewRefsNamed(r, i, y.labels)
    BY <1>3 DEF NewRefsNamed
  <2>2. IsList(y.results) /\ Prefix(issues[r][i].results, y.results)
    BY <1>1, <1>3, <1>6
  <2>. QED  BY <1>5, <2>1, <2>2, WriteEffect
<1>8. NoNewCopies(r, i)
  <2>1. issues'[r][i].results = new
    BY <1>3, <1>5 DEF RowReplaced
  <2>. QED  BY <1>1, <1>6, <2>1, WrittenFacts DEF NoNewCopies
<1>9. \A p \in Repos : \A j \in RowIds(p)' : NoNewCopies(p, j)
  BY <1>5, <1>7, <1>8 DEF RowReplaced
<1>10. ASSUME NEW k \in Clients
       PROVE  Answers(k) /\ stage[k] = "looked" => NoNewCopies(Server(k), found[k])
  <2>1. Answers(k) /\ stage[k] = "looked" =>
            Server(k) \in Repos /\ found[k] \in RowIds(Server(k))
    BY Begun DEF Static, WellFormed, Answers, Progress, FoundOK
  <2>. QED  BY <1>7, <1>8, <2>1
<1>11. /\ toCopy' = [k \in Clients |-> toCopy'[k]]
       /\ \A k : OthersKept(k)
  BY <1>4 DEF RInv, OthersKept
<1>12. PICK k : k \notin Clients
  BY NoSetContainsEverything
<1>. QED  BY <1>4, <1>7, <1>9, <1>10, <1>11, <1>12, RAssemble

-----------------------------------------------------------------------------
(* The invariant of results holds throughout *)

LEMMA InitResults == Init => RInv
<1> SUFFICES ASSUME Init PROVE RInv
  OBVIOUS
<1>1. PICK y : y = NewIssue(Uuid(Asker, 1))
  OBVIOUS
<1>2. y.labels = {} /\ y.results = <<>>
  BY <1>1 DEF NewIssue
<1>3. /\ issues = [r \in Repos |-> IF r = Asker THEN <<y>> ELSE <<>>]
      /\ phase = [k \in Clients |-> "idle"] /\ toCopy = [k \in Clients |-> <<>>]
  BY <1>1 DEF Init
<1>4. \A r \in Repos : \A i \in RowIds(r) : issues[r][i] = y
  <2>1. Len(<<y>>) = 1 /\ <<y>> \in Seq({y}) /\ <<y>>[1] = y
    OBVIOUS
  <2>2. DOMAIN <<y>> = 1..1 /\ 1..1 = {1} /\ DOMAIN <<>> = {}
    BY <2>1, LenProperties, EmptyList
  <2>. QED  BY <1>3, <2>1, <2>2 DEF RowIds
<1>5. ASSUME NEW r \in Repos, NEW i \in RowIds(r)
      PROVE  ResultsOK(r, i)
  <2>1. Res(r, i) = <<>> /\ Refs(r, i) = {}
    BY <1>2, <1>4 DEF Res, Refs, RefsOf
  <2>2. IsList(<<>>) /\ \A x : Count(<<>>, x) = 0
    BY EmptyList, ListFacts
  <2>. QED  BY <2>1, <2>2 DEF ResultsOK, SourceNamed, CopiesWritten
<1>6. ASSUME NEW k \in Clients
      PROVE  ClientOK(k)
  <2>1. ~Submits(k) /\ ~Answers(k) /\ ~Acknowledged(k)
    BY <1>3 DEF Submits, Answers, Acknowledged
  <2>. QED  BY <2>1 DEF ClientOK, Sent, Delivered, Copying
<1>. QED  BY <1>3, <1>5, <1>6 DEF RInv

LEMMA StutterResults ==
    ASSUME IInv, RInv, UNCHANGED vars
    PROVE  RInv'
<1>1. /\ issues' = issues /\ command' = command /\ phase' = phase /\ updates' = updates
      /\ stage' = stage /\ found' = found /\ toCopy' = toCopy
      /\ resubmitted' = resubmitted /\ passedOn' = passedOn
  BY DEF vars
<1>2. Effect /\ \A r, i : NoNewCopies(r, i)
  BY <1>1, QuietEffect
<1>3. /\ toCopy' = [k \in Clients |-> toCopy'[k]]
      /\ \A k : OthersKept(k)
  BY <1>1 DEF RInv, OthersKept
<1>4. PICK k : k \notin Clients
  BY NoSetContainsEverything
<1>. QED  BY <1>1, <1>2, <1>3, <1>4, RAssemble

LEMMA NextResults == IInv /\ RInv /\ [Next]_vars => RInv'
<1> SUFFICES ASSUME IInv, RInv, [Next]_vars PROVE RInv'
  OBVIOUS
<1>1. CASE UNCHANGED vars
  BY <1>1, StutterResults
<1>2. ASSUME NEW k \in Clients, NEW r \in Repos, NEW i \in RowIds(r), NEW t \in Repos,
             RunSubmit(k, r, i, t)
      PROVE  RInv'
  BY <1>2, RunSubmitResults
<1>3. ASSUME NEW k \in Clients, NEW r \in Repos, NEW i \in RowIds(r), RunAnswer(k, r, i)
      PROVE  RInv'
  BY <1>3, RunAnswerResults
<1>4. ASSUME NEW k \in Clients,
             ReadOk(k) \/ ReadError(k) \/ UpdateOwnIssue(k) \/ ClientDies(k)
      PROVE  RInv'
  BY <1>4, ReadOkResults, ReadErrorResults, UpdateOwnIssueResults, ClientDiesResults
<1>5. ASSUME NEW k \in Clients, LookUpSubmit(k) \/ CreateIssue(k) \/ LabelIssue(k)
      PROVE  RInv'
  BY <1>5, LookUpSubmitResults, CreateIssueResults, LabelIssueResults
<1>6. ASSUME NEW k \in Clients, LookUpAnswer(k) \/ ApplyAnswer(k) \/ CloseAnswered(k)
      PROVE  RInv'
  BY <1>6, LookUpAnswerResults, ApplyAnswerResults, CloseAnsweredResults
<1>7. ASSUME NEW k \in Clients, RequestFails(k)
      PROVE  RInv'
  BY <1>7, RequestFailsResults
<1>8. ASSUME NEW r \in Repos, NEW i \in RowIds(r), NEW c \in Results, AddResult(r, i, c)
      PROVE  RInv'
  BY <1>8, AddResultResults
<1>. QED  BY <1>1, <1>2, <1>3, <1>4, <1>5, <1>6, <1>7, <1>8 DEF Next, RowIds

LEMMA ResultsInvariance == Spec => [](IInv /\ RInv)
<1>1. Init => IInv /\ RInv
  BY InitInvariant, InitResults
<1>2. (IInv /\ RInv) /\ [Next]_vars => (IInv /\ RInv)'
  BY NextInvariant, NextResults
<1>. QED  BY <1>1, <1>2, PTL DEF Spec

(* Ok is sent, and received, for what is done, and it stays done: the      *)
(* target of a submission has an issue for it that names its source, and   *)
(* every result of an answer is in the asker's issue, which is resolved    *)
(* and closed, whatever died, was retried or ran at the same time.         *)
THEOREM AcknowledgedStaysDone == Spec => []AcknowledgedIsDone
<1>1. IInv /\ RInv => AcknowledgedIsDone
  <2> SUFFICES ASSUME IInv, RInv, NEW k \in Clients, phase[k] = "updating", NEW c, command[k] = c
               PROVE  \E i \in DOMAIN issues[c.to] :
                        /\ RefLabel(c.ref) \in issues[c.to][i].labels
                        /\ c.kind = "submit" =>
                             {Inbound, SourceLabel(c.at)} \subseteq issues[c.to][i].labels
                        /\ c.kind = "answer" =>
                             /\ issues[c.to][i].closed
                             /\ Status("resolved") \in issues[c.to][i].labels
                             /\ \A j \in DOMAIN c.results :
                                  \E n \in DOMAIN issues[c.to][i].results :
                                    issues[c.to][i].results[n] = FromPeer(c.at, c.results[j])
    BY DEF AcknowledgedIsDone, Server
  <2>1. PICK i \in RowIds(c.to) :
          /\ RefLabel(c.ref) \in issues[c.to][i].labels
          /\ c.kind = "answer" =>
               /\ issues[c.to][i].closed /\ Status("resolved") \in issues[c.to][i].labels
               /\ \A m \in DOMAIN c.results : \E n \in DOMAIN issues[c.to][i].results :
                     issues[c.to][i].results[n] = FromPeer(c.at, c.results[m])
    BY DEF RInv, ClientOK, Delivered, Acknowledged, Server, Answers, HasCopies, Res, CopyOf, Own
  <2>2. c.at \in Repos /\ c.to \in Repos /\ c.at # c.to /\ Static(k)
    BY Begun DEF Static, WellFormed, Own, Server
  <2>3. c.kind = "submit" => {Inbound, SourceLabel(c.at)} \subseteq issues[c.to][i].labels
    <3> SUFFICES ASSUME c.kind = "submit"
                 PROVE  {Inbound, SourceLabel(c.at)} \subseteq issues[c.to][i].labels
      OBVIOUS
    <3>1. c.ref[1] = c.at
      BY <2>2, UuidFacts DEF Static, SubmissionOK, Submits, Own
    <3>2. c.ref \in Refs(c.to, i)
      BY <2>1, <2>2, RefsAreLabels DEF IInv, LabelledRefs
    <3>3. SourceNamed(c.to, i)
      BY <2>1, <2>2 DEF RInv, ResultsOK
    <3>. QED  BY <2>2, <3>1, <3>2, <3>3 DEF SourceNamed
  <2>. QED  BY <2>1, <2>3 DEF RowIds
<1>. QED  BY <1>1, ResultsInvariance, PTL

(* However often and by however many clients an answer is sent, a result   *)
(* is in the asker's issue no more often than in the one it was written    *)
(* on.                                                                     *)
THEOREM CopiedAtMostOnce == Spec => []CopiedOnce
<1>1. IInv /\ RInv => CopiedOnce
  <2> SUFFICES ASSUME RInv, NEW r \in Repos, NEW p \in Repos, NEW i \in RowIds(r), NEW c,
                      Times(issues[r][i], FromPeer(p, c)) > 0
               PROVE  \E j \in RowIds(p) :
                        /\ RefsOf(issues[p][j]) \cap RefsOf(issues[r][i]) # {}
                        /\ Times(issues[r][i], FromPeer(p, c)) <= Times(issues[p][j], c)
    BY DEF CopiedOnce, RowIds
  <2>1. \A q, j, x : Times(issues[q][j], x) = Count(Res(q, j), x)
    BY DEF Times, Count, Res
  <2>2. Count(Res(r, i), FromPeer(p, c)) # 0
    BY <2>1
  <2>3. PICK j \in RowIds(p) : /\ Refs(p, j) \cap Refs(r, i) # {}
                               /\ Count(Res(r, i), FromPeer(p, c)) <= Count(Res(p, j), c)
    BY <2>2 DEF RInv, ResultsOK, CopiesWritten
  <2>. QED  BY <2>1, <2>3 DEF Refs
<1>. QED  BY <1>1, ResultsInvariance, PTL
=============================================================================
