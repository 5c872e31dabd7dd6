--------------------------- MODULE PublishSync_proofs ---------------------------
(***************************************************************************)
(* Theorems about PublishSync for any set of files and any contents: the   *)
(* inductive invariant, what "Published" and "Sync complete" mean, and     *)
(* that no gitboard command destroys an edit or a teammate's commit.       *)
(***************************************************************************)
EXTENDS PublishSync, TLAPS

\* Every merge of two snapshots is a snapshot.
LEMMA OverlayType ==
  ASSUME NEW s \in Snapshots, NEW t \in Snapshots, NEW F
  PROVE  Overlay(s, F, t) \in Snapshots
BY DEF Overlay, Snapshots

LEMMA ConflictedType ==
  ASSUME head \in Snapshots, remote \in Snapshots
  PROVE  Conflicted \in Snapshots
BY DEF Conflicted, Snapshots, Contents

LEMMA InitIInv == Init => IInv
<1> SUFFICES ASSUME Init PROVE IInv
  OBVIOUS
<1>1. head \in Snapshots
  BY DEF Init, Snapshots, Contents
<1>2. /\ work \in Snapshots /\ index \in Snapshots /\ base \in Snapshots
      /\ tracking \in Snapshots /\ remote \in Snapshots
  BY <1>1 DEF Init
<1>3. /\ NoReport \in [added : SUBSET TaskFiles, modified : SUBSET TaskFiles,
                      deleted : SUBSET TaskFiles]
  BY DEF NoReport
<1>4. 0 \in 0..MaxMoves
  BY MovesAssumption
<1>5. TypeOK
  BY <1>1, <1>2, <1>3, <1>4 DEF Init, TypeOK, Points, Results
<1> QED BY <1>5 DEF Init, IInv, Bookkeeping, Undisturbed, CleanAfterPublish, SyncedMeansShared

\* What a pull does to the clone, whoever runs it.
LEMMA PullTypes ==
  ASSUME TypeOK, PullSucceeds \/ PullFails
  PROVE  /\ work' \in Snapshots /\ index' \in Snapshots /\ head' \in Snapshots
         /\ base' \in Snapshots /\ tracking' \in Snapshots /\ remote' \in Snapshots
         /\ unmerged' \subseteq Files
         /\ merging' \in BOOLEAN /\ ahead' \in BOOLEAN /\ behind' \in BOOLEAN
         /\ moved' \in BOOLEAN
<1> USE DEF TypeOK
<1>1. CASE PullNothing \/ UNCHANGED <<clone, upstream>>
  BY <1>1 DEF PullNothing, clone, upstream
<1>0. /\ Overlay(work, Incoming, remote) \in Snapshots
      /\ Overlay(index, Incoming, remote) \in Snapshots
      /\ Overlay(head, Incoming, remote) \in Snapshots
      /\ Overlay(index, Incoming \ Conflicts, remote) \in Snapshots
  BY OverlayType
<1>2. CASE FastForward
  BY <1>0, <1>2 DEF FastForward, CatchUp
<1>3. CASE MergeClean
  BY <1>0, <1>3 DEF MergeClean, CatchUp
<1>4. CASE MergeConflict
  <2>1. Overlay(Overlay(work, Incoming, remote), Conflicts, Conflicted) \in Snapshots
    BY <1>0, OverlayType, ConflictedType
  <2>2. Conflicts \subseteq Files
    BY DEF Conflicts, Incoming
  <2> QED BY <1>0, <1>4, <2>1, <2>2 DEF MergeConflict, CatchUp
<1>5. CASE Fetch /\ UNCHANGED clone
  BY <1>5 DEF Fetch, clone
<1> QED BY <1>1, <1>2, <1>3, <1>4, <1>5 DEF PullSucceeds, PullFails

LEMMA PullBookkeeping ==
  ASSUME TypeOK, Bookkeeping, PullSucceeds \/ PullFails
  PROVE  Bookkeeping'
<1> USE DEF Bookkeeping
<1>1. CASE PullNothing \/ UNCHANGED <<clone, upstream>>
  BY <1>1 DEF PullNothing, clone, upstream
<1>2. CASE FastForward
  BY <1>2 DEF FastForward, CatchUp
<1>3. CASE MergeClean \/ MergeConflict
  BY <1>3 DEF MergeClean, MergeConflict, CanMerge, CatchUp
<1>4. CASE Fetch /\ UNCHANGED clone
  BY <1>4 DEF Fetch, clone, TypeOK
<1> QED BY <1>1, <1>2, <1>3, <1>4 DEF PullSucceeds, PullFails

\* A pull that succeeds leaves unchanged task files unchanged.
LEMMA PullClean ==
  ASSUME TypeOK, Bookkeeping, PullSucceeds, ChangedTasks = {}
  PROVE  ChangedTasks' = {}
<1>1. \A f \in TaskFiles : f \notin unmerged /\ index[f] = head[f] /\ work[f] = index[f]
  BY DEF ChangedTasks, Changed
<1>2. CASE PullNothing
  BY <1>2 DEF PullNothing, clone, ChangedTasks, Changed
<1>3. CASE FastForward
  <2>1. \A f \in Files \ Incoming : head'[f] = head[f]
    BY <1>3 DEF FastForward, Incoming, Bookkeeping
  <2> QED BY <1>1, <1>3, <2>1 DEF FastForward, Overlay, ChangedTasks, Changed, Files
<1>4. CASE MergeClean
  BY <1>1, <1>4 DEF MergeClean, Overlay, ChangedTasks, Changed, Files
<1> QED BY <1>2, <1>3, <1>4 DEF PullSucceeds

LEMMA StepType == TypeOK /\ [Next]_vars => TypeOK'
<1> SUFFICES ASSUME TypeOK, [Next]_vars PROVE TypeOK'
  OBVIOUS
<1> USE DEF TypeOK
<1>1. CASE UNCHANGED vars
  BY <1>1 DEF vars, clone, upstream, command, outside
<1>2. CASE PublishStatus
  BY <1>2 DEF PublishStatus, ChangedTasks, End, clone, upstream, Points, Results
<1>3. CASE PublishAdd
  BY <1>3, OverlayType DEF PublishAdd, End, clone, upstream, outside, Points, Results
<1>4. CASE PublishCommit \/ PublishCommitFails
  BY <1>4 DEF PublishCommit, PublishCommitFails, End, clone, upstream, outside, Points, Results
<1>5. CASE SyncStatus \/ SyncCheck
  BY <1>5 DEF SyncStatus, SyncCheck, End, clone, upstream, outside, Points, Results
<1>6. CASE SyncPull
  <2>1. pc' \in Points /\ result' \in Results /\ UNCHANGED <<listed, report, outside>>
    BY <1>6 DEF SyncPull, End, Points, Results
  <2> QED BY <1>6, <2>1, PullTypes DEF SyncPull, outside
<1>7. CASE SyncPush \/ SyncPushFails
  BY <1>7 DEF SyncPush, SyncPushFails, End, clone, upstream, outside, Points, Results
<1>8. CASE RemoteFetch
  <2>1. /\ NoReport \in [added : SUBSET TaskFiles, modified : SUBSET TaskFiles,
                        deleted : SUBSET TaskFiles]
    BY DEF NoReport
  <2> QED BY <1>8, <2>1 DEF RemoteFetch, Fetch, End, clone, upstream, Points, Results
<1>9. CASE RemoteDiff \/ RemoteDiffThrows \/ GitFails
  BY <1>9 DEF RemoteDiff, RemoteDiffThrows, GitFails, Differ, End, clone, upstream, outside, Points,
              Results
<1>13. CASE RemoteDiffFails
  <2>1. /\ NoReport \in [added : SUBSET TaskFiles, modified : SUBSET TaskFiles,
                        deleted : SUBSET TaskFiles]
    BY DEF NoReport
  <2> QED BY <1>13, <2>1 DEF RemoteDiffFails, End, clone, upstream, outside, Points, Results
<1>10. CASE \E f \in Files, v \in Versions \union {Absent} : Edit(f, v) \/ TeammatePushes(f, v)
  <2>1. PICK f \in Files, v \in Versions \union {Absent} : Edit(f, v) \/ TeammatePushes(f, v)
    BY <1>10
  <2>2. moves' \in 0..MaxMoves /\ alone' = FALSE /\ UNCHANGED command
    BY <2>1, MovesAssumption DEF Edit, TeammatePushes, Outside
  <2>3. /\ [work EXCEPT ![f] = v] \in Snapshots
        /\ [remote EXCEPT ![f] = v] \in Snapshots
    BY DEF Snapshots, Contents
  <2> QED BY <2>1, <2>2, <2>3 DEF Edit, TeammatePushes, clone, upstream, command
<1>11. CASE \E f \in Files : Stage(f)
  <2>1. PICK f \in Files : Stage(f)
    BY <1>11
  <2>2. moves' \in 0..MaxMoves /\ alone' = FALSE /\ UNCHANGED command
    BY <2>1, MovesAssumption DEF Stage, Outside
  <2>3. [index EXCEPT ![f] = work[f]] \in Snapshots
    BY DEF Snapshots
  <2> QED BY <2>1, <2>2, <2>3 DEF Stage, upstream, command
<1>12. CASE UserPulls
  <2>1. moves' \in 0..MaxMoves /\ alone' = FALSE /\ UNCHANGED command
    BY <1>12, MovesAssumption DEF UserPulls, Outside
  <2> QED BY <1>12, <2>1, PullTypes DEF UserPulls, PullFails, command
<1> QED BY <1>1, <1>2, <1>3, <1>4, <1>5, <1>6, <1>7, <1>8, <1>9, <1>10, <1>11, <1>12, <1>13
        DEF Next, Gitboard, Others

LEMMA StepBookkeeping == TypeOK /\ Bookkeeping /\ [Next]_vars => Bookkeeping'
<1> SUFFICES ASSUME TypeOK, Bookkeeping, [Next]_vars PROVE Bookkeeping'
  OBVIOUS
<1>1. CASE SyncPull \/ UserPulls
  BY <1>1, PullBookkeeping DEF SyncPull, UserPulls, PullFails
<1>2. CASE UNCHANGED vars
  BY <1>2 DEF Bookkeeping, vars, clone, upstream
<1>3. CASE PublishStatus \/ PublishAdd \/ PublishCommit \/ PublishCommitFails
  BY <1>3 DEF Bookkeeping, PublishStatus, PublishAdd, PublishCommit, PublishCommitFails, clone, upstream
<1>4. CASE SyncStatus \/ SyncCheck \/ SyncPush \/ SyncPushFails
  BY <1>4 DEF Bookkeeping, SyncStatus, SyncCheck, SyncPush, SyncPushFails, clone, upstream
<1>5. CASE RemoteFetch \/ RemoteDiff \/ RemoteDiffThrows \/ RemoteDiffFails \/ GitFails
  BY <1>5 DEF Bookkeeping, TypeOK, RemoteFetch, Fetch, RemoteDiff, RemoteDiffThrows,
              RemoteDiffFails, GitFails, clone, upstream
<1>6. CASE \/ \E f \in Files, v \in Versions \union {Absent} : Edit(f, v) \/ TeammatePushes(f, v)
           \/ \E f \in Files : Stage(f)
  BY <1>6 DEF Bookkeeping, Edit, TeammatePushes, Stage, clone, upstream
<1> QED BY <1>1, <1>2, <1>3, <1>4, <1>5, <1>6 DEF Next, Gitboard, Others

\* An undisturbed command keeps its view of the task files up to its end.
LEMMA StepCommand ==
  ASSUME IInv, [Next]_vars
  PROVE  Undisturbed' /\ CleanAfterPublish' /\ SyncedMeansShared'
<1> DEFINE Goal == Undisturbed' /\ CleanAfterPublish' /\ SyncedMeansShared'
<1> USE DEF Undisturbed, CleanAfterPublish, SyncedMeansShared
<1>0. TypeOK /\ Bookkeeping
  BY DEF IInv
<1>1. CASE UNCHANGED vars
  BY <1>1 DEF IInv, vars, clone, upstream, command, outside, ChangedTasks, Changed
<1>2. CASE Others
  BY <1>2 DEF Others, Edit, TeammatePushes, Stage, UserPulls, Outside
<1>3. CASE PublishStatus
  <2>1. UNCHANGED ChangedTasks
    BY <1>3 DEF PublishStatus, clone, ChangedTasks, Changed
  <2> QED BY <1>3, <2>1 DEF PublishStatus, End
<1>4. CASE PublishAdd
  <2>1. CASE End("failed")
    BY <1>4, <2>1 DEF PublishAdd, End, clone, outside, ChangedTasks, Changed
  <2>2. CASE ~End("failed")
    <3>1. index' = Overlay(index, listed, work) /\ unmerged' = unmerged \ listed /\ work' = work
      BY <1>4, <2>2 DEF PublishAdd
    <3>2. pc = "add" /\ pc' = "commit" /\ UNCHANGED <<listed, outside, result>>
      BY <1>4, <2>2 DEF PublishAdd
    <3>3. alone => \A f \in TaskFiles : work'[f] = index'[f] /\ f \notin unmerged'
      BY <1>0, <3>1, <3>2 DEF IInv, Overlay, ChangedTasks, Changed, Files, TypeOK
    <3> QED BY <3>2, <3>3 DEF outside
  <2> QED BY <2>1, <2>2
<1>5. CASE PublishCommit
  BY <1>5 DEF IInv, PublishCommit, End, outside, ChangedTasks, Changed
<1>6. CASE \/ PublishCommitFails \/ SyncPushFails \/ GitFails
           \/ RemoteDiff \/ RemoteDiffThrows \/ RemoteDiffFails \/ RemoteFetch
  BY <1>6 DEF PublishCommitFails, SyncPushFails, GitFails, RemoteDiff, RemoteDiffThrows,
              RemoteDiffFails, RemoteFetch, End
<1>7. CASE SyncStatus \/ SyncCheck
  <2>1. UNCHANGED ChangedTasks
    BY <1>7 DEF SyncStatus, SyncCheck, clone, ChangedTasks, Changed
  <2> QED BY <1>7, <2>1 DEF IInv, SyncStatus, SyncCheck, End, outside
<1>8. CASE SyncPull
  BY <1>0, <1>8, PullClean DEF IInv, SyncPull, End, outside
<1>9. CASE SyncPush
  BY <1>9 DEF IInv, SyncPush, End, outside, ChangedTasks, Changed
<1> QED BY <1>1, <1>2, <1>3, <1>4, <1>5, <1>6, <1>7, <1>8, <1>9 DEF Next, Gitboard

\* The inductive invariant holds of every behaviour.
THEOREM Invariant == Spec => []IInv
<1>1. IInv /\ [Next]_vars => IInv'
  BY StepType, StepBookkeeping, StepCommand DEF IInv
<1> QED BY InitIInv, <1>1, PTL DEF Spec

\* Snapshots, commits and the commands' own state are well-formed.
THEOREM TypeCorrect == Spec => []TypeOK
BY Invariant, PTL DEF IInv

\* After an undisturbed publish that says "Published", no task file is listed
\* by dbstatus.
THEOREM PublishedIsClean == Spec => []CleanAfterPublish
BY Invariant, PTL DEF IInv

\* After an undisturbed sync that says "Sync complete", upstream, HEAD and the
\* task files on disk agree.
THEOREM SyncedIsShared == Spec => []SyncedMeansShared
BY Invariant, PTL DEF IInv

\* publish, sync and remotestatus destroy no uncommitted edit of any file.
THEOREM EditsKept == Spec => EditsSurvive
<1>1. [Next]_vars => [Gitboard => \A f \in Files : work'[f] # work[f] => work[f] = head[f]]_vars
  <2> SUFFICES ASSUME Gitboard, NEW f \in Files, work'[f] # work[f] PROVE work[f] = head[f]
    OBVIOUS
  <2>1. SyncPull
    BY DEF Gitboard, PublishStatus, PublishAdd, PublishCommit, PublishCommitFails, SyncStatus,
           SyncCheck, SyncPush, SyncPushFails, RemoteFetch, RemoteDiff, RemoteDiffThrows,
           RemoteDiffFails, GitFails, clone
  <2>2. FastForward \/ MergeClean \/ MergeConflict
    BY <2>1 DEF SyncPull, PullSucceeds, PullFails, PullNothing, clone
  <2>3. f \in Incoming
    BY <2>2 DEF FastForward, MergeClean, MergeConflict, Overlay, Conflicts
  <2> QED BY <2>2, <2>3 DEF FastForward, Changed, MergeClean, MergeConflict, CanMerge
<1> QED BY <1>1, PTL DEF Spec, EditsSurvive

\* A push replaces only an upstream that HEAD contains.
THEOREM TeammatesKept == Spec => TeammatesSurvive
<1>1. IInv /\ [Next]_vars => [Gitboard /\ remote' # remote => base = remote]_vars
  <2> SUFFICES ASSUME IInv, Gitboard, remote' # remote PROVE base = remote
    OBVIOUS
  <2>1. SyncPush
    BY DEF Gitboard, PublishStatus, PublishAdd, PublishCommit, PublishCommitFails, SyncStatus,
           SyncPull, PullSucceeds, PullFails, PullNothing, FastForward, MergeClean, MergeConflict,
           CatchUp, Fetch, SyncCheck, SyncPushFails, RemoteFetch, RemoteDiff, RemoteDiffThrows,
           RemoteDiffFails, GitFails, upstream
  <2> QED BY <2>1 DEF SyncPush, IInv, Bookkeeping
<1> QED BY <1>1, Invariant, PTL DEF Spec, TeammatesSurvive
=============================================================================
