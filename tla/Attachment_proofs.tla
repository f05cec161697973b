--------------------------- MODULE Attachment_proofs ---------------------------
(***************************************************************************)
(* Proofs about Attachment, for any submissions and any bounds.            *)
(***************************************************************************)
EXTENDS Attachment, SequenceTheorems, TLAPS

(* A commit is of an issue that has its labels; until the request at hand  *)
(* makes its commit there is none for it.                                  *)
CommitsLabelled ==
    /\ \A c \in commits : c.request \in Requests /\ issue[c.request] = "labelled"
    /\ pc \in {"create", "label"} => issue[request] # "labelled"
    /\ pc \in {"prepare", "add", "write"} => \A c \in commits : c.request # request

(* From describe on the workspace's commit is there, and a result that is  *)
(* not a failure is that commit.                                           *)
Made(w, u) == [id |-> w, request |-> u, files |-> FileSet(u)] \in commits
ResultMade ==
    /\ pc = "log" => Made(workspace, request)
    /\ pc \in {"forget", "remove", "note"} /\ result # Failed =>
         result = workspace /\ Made(workspace, request)

(* What is answered has its labels; what has its labels, and attachments,  *)
(* has a note, or is being worked on, and is answered after that.          *)
LabelledIsNoted ==
    /\ Working \/ pc \in {"create", "label", "prepare", "note"} => request \notin acked
    /\ \A u \in acked : issue[u] = "labelled"
    /\ pc = "reply" => issue[request] = "labelled"
    /\ \A u \in Requests \ (unnoted \cup cut) :
         issue[u] = "labelled" /\ Attached[u] # <<>> /\ notes[u] = <<>> =>
           request = u /\ (Working \/ pc \in {"prepare", "note"})

(* A workspace that is still registered when its directory goes could not  *)
(* be forgotten.                                                           *)
ForgottenFirst == pc = "remove" /\ workspace \in registered => workspace \in abandoned

IInv ==
    /\ TypeOK
    /\ CommitsLabelled /\ CommittedOnce
    /\ ResultMade /\ NotesAreTrue
    /\ LabelledIsNoted
    /\ ForgottenFirst /\ LeftoversExplained

-----------------------------------------------------------------------------
(* Types *)

(* What AddNote writes, and where. *)
LEMMA NoteAppended ==
    ASSUME TypeOK, pc = "note"
    PROVE  /\ request \in Requests /\ notes[request] \in Seq(NoteRecord)
           /\ Append(notes[request], Note) \in Seq(NoteRecord)
           /\ Append(notes[request], Note) # <<>>
           /\ Len(Append(notes[request], Note)) = Len(notes[request]) + 1
           /\ \A i \in 1..Len(notes[request]) : Append(notes[request], Note)[i] = notes[request][i]
           /\ Append(notes[request], Note)[Len(notes[request]) + 1] = Note
<1>1. request \in Requests /\ notes[request] \in Seq(NoteRecord)
  BY DEF TypeOK
<1>2. Note \in NoteRecord
  BY <1>1, AttachedAssumption DEF TypeOK, Note, NoteRecord, Files
<1>3. Note \in NoteRecord => Append(notes[request], Note) \in Seq(NoteRecord)
  BY <1>1, AppendProperties
<1>. QED  BY <1>1, <1>2, <1>3, AppendProperties

(* TypeOK is inductive: a step keeps the types, writes no more files than  *)
(* there are, and labels an issue before it gets attachments.              *)
LEMMA TypeStep ==
    ASSUME TypeOK, [Next]_vars
    PROVE  TypeOK'
<1> USE AttachedAssumption, BoundsAssumption DEF TypeOK, Working
<1>1. ASSUME NEW u \in Requests, Receive(u) PROVE TypeOK'
  BY <1>1 DEF Receive, IsKnown, rowVars, diskVars, Files
<1>2. CASE CreateIssue
  BY <1>2 DEF CreateIssue, runVars, diskVars, boundVars, Files
<1>3. CASE ApplyLabels
  BY <1>3 DEF ApplyLabels, runVars, diskVars, boundVars, Files
<1>4. CASE SubmitFails
  BY <1>4 DEF SubmitFails, rowVars, runVars, diskVars, boundVars
<1>5. CASE Prepare
  <2>1. Len(Files) \in Nat
    BY <1>5 DEF Prepare, Files
  <2>. QED  BY <1>5, <2>1 DEF Prepare, StartFiles, rowVars, diskVars, boundVars, Files
<1>6. CASE PrepareFails
  BY <1>6 DEF PrepareFails, NoteFailure, rowVars, diskVars, boundVars
<1>7. CASE AddWorkspace
  BY <1>7 DEF AddWorkspace, rowVars, runVars, boundVars, Files
<1>8. CASE WriteFile
  BY <1>8 DEF WriteFile, rowVars, diskVars, boundVars, Files
<1>9. CASE Describe
  BY <1>9 DEF Describe, runVars, diskVars, boundVars, Files
<1>10. CASE ReadCommitId
  BY <1>10 DEF ReadCommitId, rowVars, diskVars, boundVars
<1>11. CASE CommandFails
  BY <1>11 DEF CommandFails, CleanUp, rowVars, boundVars
<1>12. CASE ForgetWorkspace
  BY <1>12 DEF ForgetWorkspace, rowVars, runVars, boundVars
<1>13. CASE RemoveDir
  BY <1>13 DEF RemoveDir, rowVars, runVars, boundVars
<1>14. CASE AddNote
  <2>1. Append(notes[request], Note) \in Seq(NoteRecord)
    BY <1>14, NoteAppended DEF AddNote
  <2>. QED  BY <1>14, <2>1 DEF AddNote, runVars, diskVars, boundVars
<1>15. CASE Reply
  BY <1>15 DEF Reply, runVars, diskVars, boundVars
<1>16. CASE Die
  BY <1>16 DEF Die, runVars
<1>17. CASE UNCHANGED vars
  BY <1>17 DEF vars, Files
<1>. QED
  BY <1>1, <1>2, <1>3, <1>4, <1>5, <1>6, <1>7, <1>8, <1>9, <1>10, <1>11, <1>12,
     <1>13, <1>14, <1>15, <1>16, <1>17 DEF Next

-----------------------------------------------------------------------------
(* Commits and notes *)

LEMMA CommitsStep ==
    ASSUME IInv, [Next]_vars
    PROVE  (CommitsLabelled /\ CommittedOnce)'
<1> USE DEF IInv, TypeOK, Working, CommitsLabelled, CommittedOnce
<1>1. ASSUME NEW u \in Requests, Receive(u) PROVE (CommitsLabelled /\ CommittedOnce)'
  BY <1>1 DEF Receive, IsKnown, rowVars
<1>2. CASE CreateIssue
  BY <1>2 DEF CreateIssue, runVars
<1>3. CASE ApplyLabels
  BY <1>3 DEF ApplyLabels, runVars
<1>4. CASE SubmitFails
  BY <1>4 DEF SubmitFails, rowVars
<1>5. CASE Prepare
  BY <1>5 DEF Prepare, rowVars
<1>6. CASE PrepareFails
  BY <1>6 DEF PrepareFails, NoteFailure, rowVars
<1>7. CASE AddWorkspace
  BY <1>7 DEF AddWorkspace, rowVars, runVars
<1>8. CASE WriteFile
  BY <1>8 DEF WriteFile, rowVars
<1>9. CASE Describe
  <2> DEFINE new == [id |-> workspace, request |-> request,
                     files |-> {Files[i] : i \in 1..written}]
  <2>1. commits' = commits \cup {new} /\ UNCHANGED <<issue, request>> /\ pc' = "log"
    BY <1>9 DEF Describe, runVars
  <2>2. new.request = request /\ request \in Requests /\ issue[request] = "labelled"
    BY <1>9 DEF Describe
  <2>3. \A c \in commits : c.request # request
    BY <1>9 DEF Describe
  <2> HIDE DEF new
  <2>. QED  BY <2>1, <2>2, <2>3
<1>10. CASE ReadCommitId
  BY <1>10 DEF ReadCommitId, rowVars
<1>11. CASE CommandFails
  BY <1>11 DEF CommandFails, CleanUp, rowVars
<1>12. CASE ForgetWorkspace
  BY <1>12 DEF ForgetWorkspace, rowVars
<1>13. CASE RemoveDir
  BY <1>13 DEF RemoveDir, rowVars
<1>14. CASE AddNote
  BY <1>14 DEF AddNote
<1>15. CASE Reply
  BY <1>15 DEF Reply
<1>16. CASE Die
  BY <1>16 DEF Die
<1>17. CASE UNCHANGED vars
  BY <1>17 DEF vars
<1>. QED
  BY <1>1, <1>2, <1>3, <1>4, <1>5, <1>6, <1>7, <1>8, <1>9, <1>10, <1>11, <1>12,
     <1>13, <1>14, <1>15, <1>16, <1>17 DEF Next

LEMMA ResultStep ==
    ASSUME IInv, [Next]_vars
    PROVE  ResultMade'
<1> USE FailedAssumption DEF IInv, TypeOK, Working, ResultMade, Made, FileSet
<1>1. ASSUME NEW u \in Requests, Receive(u) PROVE ResultMade'
  BY <1>1 DEF Receive, rowVars
<1>2. CASE CreateIssue
  BY <1>2 DEF CreateIssue
<1>3. CASE ApplyLabels
  BY <1>3 DEF ApplyLabels
<1>4. CASE SubmitFails
  BY <1>4 DEF SubmitFails
<1>5. CASE Prepare
  BY <1>5 DEF Prepare
<1>6. CASE PrepareFails
  BY <1>6 DEF PrepareFails, NoteFailure
<1>7. CASE AddWorkspace
  BY <1>7 DEF AddWorkspace
<1>8. CASE WriteFile
  BY <1>8 DEF WriteFile
<1>9. CASE Describe
  <2>1. {Files[i] : i \in 1..written} = FileSet(request)
    BY <1>9, AttachedAssumption DEF Describe, Files
  <2>2. Made(workspace, request)'
    <3>1. [id |-> workspace, request |-> request, files |-> FileSet(request)] \in commits'
      BY <1>9, <2>1 DEF Describe
    <3>. QED  BY <1>9, <3>1 DEF Describe, runVars
  <2>. QED  BY <1>9, <2>2 DEF Describe, runVars
<1>10. CASE ReadCommitId
  BY <1>10 DEF ReadCommitId, rowVars
<1>11. CASE CommandFails
  BY <1>11 DEF CommandFails, CleanUp
<1>12. CASE ForgetWorkspace
  BY <1>12 DEF ForgetWorkspace, rowVars, runVars
<1>13. CASE RemoveDir
  BY <1>13 DEF RemoveDir, rowVars, runVars
<1>14. CASE AddNote
  BY <1>14 DEF AddNote
<1>15. CASE Reply
  BY <1>15 DEF Reply
<1>16. CASE Die
  BY <1>16 DEF Die
<1>17. CASE UNCHANGED vars
  BY <1>17 DEF vars
<1>. QED
  BY <1>1, <1>2, <1>3, <1>4, <1>5, <1>6, <1>7, <1>8, <1>9, <1>10, <1>11, <1>12,
     <1>13, <1>14, <1>15, <1>16, <1>17 DEF Next

(* Every step but AddNote leaves the notes alone, and no step takes a      *)
(* commit back.                                                            *)
LEMMA OnlyAddNote ==
    ASSUME IInv, [Next]_vars
    PROVE  commits \subseteq commits' /\ (UNCHANGED notes \/ AddNote)
<1> USE DEF rowVars
<1>1. ASSUME NEW u \in Requests, Receive(u) PROVE UNCHANGED <<notes, commits>>
  BY <1>1 DEF Receive
<1>2. SubmitFails \/ Prepare \/ PrepareFails \/ AddWorkspace \/ WriteFile \/ ReadCommitId
        => UNCHANGED <<notes, commits>>
  BY DEF SubmitFails, Prepare, PrepareFails, AddWorkspace, WriteFile, ReadCommitId
<1>3. CommandFails \/ ForgetWorkspace \/ RemoveDir => UNCHANGED <<notes, commits>>
  BY DEF CommandFails, ForgetWorkspace, RemoveDir
<1>4. CreateIssue \/ ApplyLabels \/ Reply \/ Die \/ UNCHANGED vars => UNCHANGED <<notes, commits>>
  BY DEF CreateIssue, ApplyLabels, Reply, Die, vars
<1>5. Describe => UNCHANGED notes /\ commits \subseteq commits'
  BY DEF Describe
<1>6. AddNote => UNCHANGED commits
  BY DEF AddNote
<1>. QED
  BY <1>1, <1>2, <1>3, <1>4, <1>5, <1>6 DEF Next

LEMMA NotesStep ==
    ASSUME IInv, [Next]_vars
    PROVE  NotesAreTrue'
<1> USE DEF IInv, NotesAreTrue, FileSet
<1>1. commits \subseteq commits' /\ (UNCHANGED notes \/ AddNote)
  BY OnlyAddNote
<1>2. CASE UNCHANGED notes
  BY <1>1, <1>2
<1>3. CASE notes' = [notes EXCEPT ![request] = Append(@, Note)] /\ pc = "note"
  <2> SUFFICES ASSUME NEW u \in Requests, NEW i \in DOMAIN notes'[u],
                      notes'[u][i].commit # Failed
               PROVE  [id |-> notes'[u][i].commit, request |-> u,
                       files |-> FileSet(u)] \in commits'
    OBVIOUS
  <2>1. CASE u # request \/ i \in DOMAIN notes[u]
    <3>1. i \in DOMAIN notes[u] /\ notes'[u][i] = notes[u][i]
      BY <1>3, <2>1, NoteAppended DEF TypeOK
    <3>. QED  BY <1>1, <3>1
  <2>2. CASE u = request /\ i \notin DOMAIN notes[u]
    <3>1. notes'[u][i] = Note
      BY <1>3, <2>2, NoteAppended DEF TypeOK
    <3>2. result # Failed /\ result = notes'[u][i].commit
      BY <3>1 DEF Note
    <3>3. result = workspace /\ Made(workspace, request)
      BY <1>3, <3>2 DEF ResultMade
    <3>. QED  BY <1>1, <2>2, <3>2, <3>3 DEF Made
  <2>. QED  BY <2>1, <2>2
<1>. QED
  BY <1>1, <1>2, <1>3 DEF AddNote

-----------------------------------------------------------------------------
(* Answers and leftovers *)

LEMMA NotedStep ==
    ASSUME IInv, [Next]_vars
    PROVE  LabelledIsNoted'
<1> USE DEF IInv, TypeOK, Working, LabelledIsNoted, CommitsLabelled
<1>1. ASSUME NEW u \in Requests, Receive(u) PROVE LabelledIsNoted'
  BY <1>1 DEF Receive, IsKnown, rowVars
<1>2. CASE CreateIssue
  BY <1>2 DEF CreateIssue, runVars
<1>3. CASE ApplyLabels
  BY <1>3 DEF ApplyLabels, runVars, Files
<1>4. CASE SubmitFails
  BY <1>4 DEF SubmitFails, rowVars
<1>5. CASE Prepare
  BY <1>5 DEF Prepare, rowVars
<1>6. CASE PrepareFails
  BY <1>6 DEF PrepareFails, NoteFailure, rowVars
<1>7. CASE AddWorkspace
  BY <1>7 DEF AddWorkspace, rowVars, runVars
<1>8. CASE WriteFile
  BY <1>8 DEF WriteFile, rowVars
<1>9. CASE Describe
  BY <1>9 DEF Describe, runVars
<1>10. CASE ReadCommitId
  BY <1>10 DEF ReadCommitId, rowVars
<1>11. CASE CommandFails
  BY <1>11 DEF CommandFails, CleanUp, rowVars
<1>12. CASE ForgetWorkspace
  BY <1>12 DEF ForgetWorkspace, rowVars, runVars
<1>13. CASE RemoveDir
  BY <1>13 DEF RemoveDir, rowVars, runVars
<1>14. CASE AddNote
  <2>1. issue[request] = "labelled" /\ UNCHANGED <<issue, acked>> /\ pc' = "reply"
    BY <1>14 DEF AddNote
  <2>2. Append(notes[request], Note) # <<>>
    BY <1>14, NoteAppended DEF AddNote
  <2>. QED  BY <1>14, <2>1, <2>2 DEF AddNote, runVars
<1>15. CASE Reply
  BY <1>15 DEF Reply, runVars
<1>16. CASE Die
  BY <1>16 DEF Die, runVars
<1>17. CASE UNCHANGED vars
  BY <1>17 DEF vars
<1>. QED
  BY <1>1, <1>2, <1>3, <1>4, <1>5, <1>6, <1>7, <1>8, <1>9, <1>10, <1>11, <1>12,
     <1>13, <1>14, <1>15, <1>16, <1>17 DEF Next

LEMMA LeftoversStep ==
    ASSUME IInv, [Next]_vars
    PROVE  (ForgottenFirst /\ LeftoversExplained)'
<1> USE DEF IInv, TypeOK, Working, ForgottenFirst, LeftoversExplained
<1>1. ASSUME NEW u \in Requests, Receive(u) PROVE (ForgottenFirst /\ LeftoversExplained)'
  BY <1>1 DEF Receive, IsKnown, diskVars
<1>2. CASE CreateIssue
  BY <1>2 DEF CreateIssue, diskVars
<1>3. CASE ApplyLabels
  BY <1>3 DEF ApplyLabels, diskVars
<1>4. CASE SubmitFails
  BY <1>4 DEF SubmitFails, diskVars
<1>5. CASE Prepare
  BY <1>5 DEF Prepare, diskVars
<1>6. CASE PrepareFails
  BY <1>6 DEF PrepareFails, NoteFailure, diskVars
<1>7. CASE AddWorkspace
  BY <1>7 DEF AddWorkspace, runVars
<1>8. CASE WriteFile
  BY <1>8 DEF WriteFile, diskVars
<1>9. CASE Describe
  BY <1>9 DEF Describe, runVars, diskVars
<1>10. CASE ReadCommitId
  BY <1>10 DEF ReadCommitId, diskVars
<1>11. CASE CommandFails
  BY <1>11 DEF CommandFails, CleanUp
<1>12. CASE ForgetWorkspace
  BY <1>12 DEF ForgetWorkspace, runVars
<1>13. CASE RemoveDir
  BY <1>13 DEF RemoveDir, runVars
<1>14. CASE AddNote
  BY <1>14 DEF AddNote, diskVars
<1>15. CASE Reply
  BY <1>15 DEF Reply, diskVars
<1>16. CASE Die
  BY <1>16 DEF Die, runVars
<1>17. CASE UNCHANGED vars
  BY <1>17 DEF vars
<1>. QED
  BY <1>1, <1>2, <1>3, <1>4, <1>5, <1>6, <1>7, <1>8, <1>9, <1>10, <1>11, <1>12,
     <1>13, <1>14, <1>15, <1>16, <1>17 DEF Next

-----------------------------------------------------------------------------
(* The invariants *)

LEMMA Invariant == Spec => []IInv
<1>1. Init => IInv
  BY BoundsAssumption, FailedAssumption
  DEF Init, IInv, TypeOK, CommitsLabelled, CommittedOnce, ResultMade, NotesAreTrue,
      LabelledIsNoted, ForgottenFirst, LeftoversExplained, Working
<1>2. IInv /\ [Next]_vars => IInv'
  <2> SUFFICES ASSUME IInv, [Next]_vars PROVE IInv'
    OBVIOUS
  <2>1. TypeOK'
    BY TypeStep DEF IInv
  <2>. QED
    BY <2>1, CommitsStep, ResultStep, NotesStep, NotedStep, LeftoversStep DEF IInv
<1>. QED
  BY <1>1, <1>2, PTL DEF Spec

(* The types are right in every reachable state. *)
THEOREM TypesCorrect == Spec => []TypeOK
  BY Invariant, PTL DEF IInv

(* A submission's attachments are committed once, however often it is      *)
(* repeated and wherever the server dies (handler.rs:97-105).              *)
THEOREM AttachedOnce == Spec => []CommittedOnce
  BY Invariant, PTL DEF IInv

(* A commit that a note names exists, is of this submission and holds all  *)
(* its files.                                                              *)
THEOREM NotesCorrect == Spec => []NotesAreTrue
  BY Invariant, PTL DEF IInv

(* Only a death or a failed cleanup leaves a workspace behind.             *)
THEOREM NothingLeftOver == Spec => []LeftoversExplained
  BY Invariant, PTL DEF IInv

(* An Ok for attachments has a note, but for deaths between labels and     *)
(* note and for notes that cannot be written (handler.rs:133-147).         *)
THEOREM AcknowledgedHasNote == Spec => []AcknowledgedIsNoted
<1>1. IInv => AcknowledgedIsNoted
  BY DEF IInv, TypeOK, LabelledIsNoted, AcknowledgedIsNoted
<1>. QED
  BY <1>1, Invariant, PTL
=============================================================================
