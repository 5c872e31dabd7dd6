------------------------------ MODULE PublishSync ------------------------------
(***************************************************************************)
(* gitboard publish, sync and remotestatus: sequences of git commands on a *)
(* clone that its user also edits, stages and pulls in, and whose upstream *)
(* a teammate pushes to.  A snapshot gives each file its content; commits  *)
(* are abstracted to snapshots and to who has commits the other lacks.     *)
(***************************************************************************)
EXTENDS Naturals

CONSTANTS TaskFiles,  \* .md and .json files under tasks/
          OtherFiles, \* everything else in the work tree
          Versions,   \* contents of files
          Absent,     \* the file does not exist
          Markers,    \* a content with git's conflict markers
          MaxMoves    \* bound: steps of the user and the teammate

ASSUME FilesAssumption == TaskFiles \intersect OtherFiles = {}
ASSUME ContentAssumption == Absent # Markers /\ Absent \notin Versions /\ Markers \notin Versions
ASSUME MovesAssumption == MaxMoves \in Nat

VARIABLES work,     \* snapshot of the work tree
          index,    \* snapshot staged for the next commit
          unmerged, \* files whose index entry is in conflict
          merging,  \* a merge waits for its commit
          head,     \* snapshot of HEAD
          ahead,    \* HEAD has commits the upstream does not
          base,     \* snapshot of the last upstream commit merged into HEAD, or being merged
          tracking, \* snapshot of @{u}, as last fetched
          behind,   \* @{u} has commits after base
          remote,   \* snapshot of the upstream branch itself
          moved,    \* the upstream branch has commits that were not fetched
          pc,       \* the next git command of the running gitboard command
          listed,   \* publish: the changed task files of its git status
          result,   \* how the last gitboard command ended
          report,   \* what the last remotestatus printed
          alone,    \* nobody else did anything since that command began
          moves     \* steps of the user and the teammate so far

clone == <<work, index, unmerged, merging, head, ahead>>
upstream == <<base, tracking, behind, remote, moved>>
command == <<pc, listed, result, report>>
outside == <<alone, moves>>
vars == <<clone, upstream, command, outside>>

-----------------------------------------------------------------------------
Files == TaskFiles \union OtherFiles
Contents == Versions \union {Absent, Markers}
Snapshots == [Files -> Contents]
Points == {"idle", "add", "commit", "pull", "check", "push", "diff"}
Results == {"none", "nothing", "published", "refused", "synced", "reported", "unavailable",
            "failed"}
NoReport == [added |-> {}, modified |-> {}, deleted |-> {}]

\* A line of git status --porcelain -uall.
Changed(f) == f \in unmerged \/ index[f] # head[f] \/ work[f] # index[f]
ChangedTasks == {f \in TaskFiles : Changed(f)}

Init == /\ head \in [Files -> Versions \union {Absent}]
        /\ work = head /\ index = head /\ unmerged = {} /\ merging = FALSE /\ ahead = FALSE
        /\ base = head /\ tracking = head /\ behind = FALSE /\ remote = head /\ moved = FALSE
        /\ pc = "idle" /\ listed = {} /\ result = "none" /\ report = NoReport
        /\ alone = TRUE /\ moves = 0

End(how) == pc' = "idle" /\ result' = how

-----------------------------------------------------------------------------
(* What the git commands do.                                               *)

Overlay(snapshot, files, other) ==
  [f \in Files |-> IF f \in files THEN other[f] ELSE snapshot[f]]

\* git fetch, when the network answers.
Fetch == /\ tracking' = remote
         /\ behind' = (behind \/ moved)
         /\ moved' = FALSE
         /\ UNCHANGED <<base, remote>>

\* After a fetch @{u} is remote: what the upstream changed since base, what
\* both sides changed, and how git leaves such a file in the work tree.
Incoming == {f \in Files : remote[f] # base[f]}
Conflicts == {f \in Incoming : head[f] # base[f] /\ head[f] # remote[f]}
Conflicted == [f \in Files |-> IF head[f] = Absent THEN remote[f]
                               ELSE IF remote[f] = Absent THEN head[f] ELSE Markers]

CatchUp == /\ base' = remote /\ tracking' = remote /\ behind' = FALSE /\ moved' = FALSE
           /\ UNCHANGED remote

PullNothing == ~merging /\ ~moved /\ ~behind /\ UNCHANGED <<clone, upstream>>

FastForward ==
  /\ ~merging /\ (moved \/ behind) /\ ~ahead
  /\ \A f \in Incoming : ~Changed(f)
  /\ work' = Overlay(work, Incoming, remote)
  /\ index' = Overlay(index, Incoming, remote)
  /\ head' = remote
  /\ CatchUp
  /\ UNCHANGED <<unmerged, merging, ahead>>

\* A merge needs a clean index, and a clean work tree where it writes.
CanMerge == /\ ~merging /\ (moved \/ behind) /\ ahead
            /\ index = head
            /\ \A f \in Incoming : work[f] = head[f]

MergeClean ==
  /\ CanMerge /\ Conflicts = {}
  /\ work' = Overlay(work, Incoming, remote)
  /\ index' = Overlay(index, Incoming, remote)
  /\ head' = Overlay(head, Incoming, remote)
  /\ CatchUp
  /\ UNCHANGED <<unmerged, merging, ahead>>

MergeConflict ==
  /\ CanMerge /\ Conflicts # {}
  /\ work' = Overlay(Overlay(work, Incoming, remote), Conflicts, Conflicted)
  /\ index' = Overlay(index, Incoming \ Conflicts, remote)
  /\ unmerged' = Conflicts
  /\ merging' = TRUE
  /\ CatchUp
  /\ UNCHANGED <<head, ahead>>

\* Beside a conflict, a pull can fail before its fetch or after it.
PullSucceeds == PullNothing \/ FastForward \/ MergeClean
PullFails == \/ MergeConflict
             \/ UNCHANGED <<clone, upstream>>
             \/ ~merging /\ Fetch /\ UNCHANGED clone

-----------------------------------------------------------------------------
(* gitboard publish: git status, git add, git commit.                      *)

\* Mutant: every changed path is listed, not only the task database.
PublishStatusAll ==
  /\ pc = "idle"
  /\ listed' = {f \in Files : Changed(f)}
  /\ IF listed' = {} THEN End("nothing") ELSE pc' = "add" /\ UNCHANGED result
  /\ alone' = TRUE
  /\ UNCHANGED <<clone, upstream, report, moves>>

PublishStatus ==
  /\ pc = "idle"
  /\ listed' = ChangedTasks
  /\ IF listed' = {} THEN End("nothing") ELSE pc' = "add" /\ UNCHANGED result
  /\ alone' = TRUE
  /\ UNCHANGED <<clone, upstream, report, moves>>

\* git add fails as a whole on a path that is neither in the work tree nor in
\* the index, the line of a deletion that was already staged, or when it cannot
\* lock or write the index.
NoSuchPath == \E f \in listed : work[f] = Absent /\ index[f] = Absent /\ f \notin unmerged

\* Mutant: git add -u, which leaves new files alone.
PublishAddTracked ==
  /\ pc = "add"
  /\ IF NoSuchPath
     THEN End("failed") /\ UNCHANGED clone
     ELSE /\ index' = Overlay(index, {f \in listed : index[f] # Absent}, work)
          /\ unmerged' = unmerged \ listed
          /\ pc' = "commit"
          /\ UNCHANGED <<work, merging, head, ahead, result>>
  /\ UNCHANGED <<upstream, listed, report, outside>>

PublishAdd ==
  /\ pc = "add"
  /\ IF NoSuchPath
     THEN End("failed") /\ UNCHANGED clone
     ELSE \/ /\ index' = Overlay(index, listed, work)
             /\ unmerged' = unmerged \ listed
             /\ pc' = "commit"
             /\ UNCHANGED <<work, merging, head, ahead, result>>
          \/ End("failed") /\ UNCHANGED clone
  /\ UNCHANGED <<upstream, listed, report, outside>>

\* git commit takes the whole index, and ends a merge.
PublishCommit ==
  /\ pc = "commit"
  /\ unmerged = {} /\ (index # head \/ merging)
  /\ head' = index
  /\ ahead' = TRUE
  /\ merging' = FALSE
  /\ End("published")
  /\ UNCHANGED <<work, index, unmerged, upstream, listed, report, outside>>

\* Nothing to commit, another file in conflict, no identity, a hook.
PublishCommitFails ==
  /\ pc = "commit"
  /\ End("failed")
  /\ UNCHANGED <<clone, upstream, listed, report, outside>>

-----------------------------------------------------------------------------
(* gitboard sync: git status, git pull, the conflict check, git push.      *)

\* Mutant: sync does not look at uncommitted task changes.
SyncStatusUnchecked ==
  /\ pc = "idle"
  /\ pc' = "pull"
  /\ alone' = TRUE
  /\ UNCHANGED <<clone, upstream, listed, result, report, moves>>

SyncStatus ==
  /\ pc = "idle"
  /\ IF ChangedTasks # {} THEN End("refused") ELSE pc' = "pull" /\ UNCHANGED result
  /\ alone' = TRUE
  /\ UNCHANGED <<clone, upstream, listed, report, moves>>

\* Mutant: the pull is a fetch and a hard reset.
SyncPullHard ==
  /\ pc = "pull"
  /\ CatchUp
  /\ work' = remote /\ index' = remote /\ head' = remote
  /\ unmerged' = {} /\ merging' = FALSE /\ ahead' = FALSE
  /\ pc' = "check"
  /\ UNCHANGED <<listed, result, report, outside>>

SyncPull ==
  /\ pc = "pull"
  /\ \/ PullSucceeds /\ pc' = "check" /\ UNCHANGED result
     \/ PullFails /\ End("failed")
  /\ UNCHANGED <<listed, report, outside>>

SyncCheck ==
  /\ pc = "check"
  /\ IF unmerged # {} THEN End("failed") ELSE pc' = "push" /\ UNCHANGED result
  /\ UNCHANGED <<clone, upstream, listed, report, outside>>

\* Mutant: git push --force.
SyncPushForce ==
  /\ pc = "push"
  /\ remote' = head /\ tracking' = head /\ base' = head
  /\ ahead' = FALSE /\ behind' = FALSE /\ moved' = FALSE
  /\ End("synced")
  /\ UNCHANGED <<work, index, unmerged, merging, head, listed, report, outside>>

\* The upstream only takes a HEAD that contains all of it.
SyncPush ==
  /\ pc = "push"
  /\ ~moved /\ ~behind /\ ~merging
  /\ remote' = head /\ tracking' = head /\ base' = head
  /\ ahead' = FALSE
  /\ End("synced")
  /\ UNCHANGED <<work, index, unmerged, merging, head, behind, moved, listed, report, outside>>

SyncPushFails ==
  /\ pc = "push"
  /\ End("failed")
  /\ UNCHANGED <<clone, upstream, listed, report, outside>>

-----------------------------------------------------------------------------
(* gitboard remotestatus: git fetch, git diff --name-status HEAD..@{u}.    *)

RemoteFetch ==
  /\ pc = "idle"
  /\ \/ Fetch /\ pc' = "diff" /\ UNCHANGED <<result, report>>
     \/ End("unavailable") /\ report' = NoReport /\ UNCHANGED upstream
  /\ alone' = TRUE
  /\ UNCHANGED <<clone, listed, moves>>

Differ == {f \in TaskFiles : head[f] # tracking[f]}

RemoteDiff ==
  /\ pc = "diff"
  /\ report' = [added    |-> {f \in Differ : head[f] = Absent},
                deleted  |-> {f \in Differ : tracking[f] = Absent},
                modified |-> {f \in Differ : head[f] # Absent /\ tracking[f] # Absent}]
  /\ End("reported")
  /\ UNCHANGED <<clone, upstream, listed, outside>>

\* The id of a modified file is read from its front matter, which conflict
\* markers may break.
RemoteDiffThrows ==
  /\ pc = "diff"
  /\ \E f \in Differ : head[f] # Absent /\ tracking[f] # Absent /\ work[f] = Markers
  /\ End("failed")
  /\ UNCHANGED <<clone, upstream, listed, report, outside>>

RemoteDiffFails ==
  /\ pc = "diff"
  /\ End("unavailable")
  /\ report' = NoReport
  /\ UNCHANGED <<clone, upstream, listed, outside>>

\* Not a work tree, git status fails, or the conflict check of sync does.
GitFails ==
  /\ pc \in {"idle", "check"}
  /\ End("failed")
  /\ UNCHANGED <<clone, upstream, listed, report, outside>>

-----------------------------------------------------------------------------
(* The user of the clone and a teammate.                                   *)

Outside == /\ moves < MaxMoves
           /\ moves' = moves + 1
           /\ alone' = FALSE
           /\ UNCHANGED command

\* A task command, an editor, rm.
Edit(f, content) == /\ Outside
                    /\ content # work[f]
                    /\ work' = [work EXCEPT ![f] = content]
                    /\ UNCHANGED <<index, unmerged, merging, head, ahead, upstream>>

Stage(f) == /\ Outside
            /\ Changed(f)
            /\ index' = [index EXCEPT ![f] = work[f]]
            /\ unmerged' = unmerged \ {f}
            /\ UNCHANGED <<work, merging, head, ahead, upstream>>

UserPulls == Outside /\ (PullSucceeds \/ MergeConflict)

TeammatePushes(f, content) == /\ Outside
                              /\ content # remote[f]
                              /\ remote' = [remote EXCEPT ![f] = content]
                              /\ moved' = TRUE
                              /\ UNCHANGED <<clone, base, tracking, behind>>

-----------------------------------------------------------------------------
Gitboard == \/ PublishStatus \/ PublishAdd \/ PublishCommit \/ PublishCommitFails
            \/ SyncStatus \/ SyncPull \/ SyncCheck \/ SyncPush \/ SyncPushFails
            \/ RemoteFetch \/ RemoteDiff \/ RemoteDiffThrows \/ RemoteDiffFails \/ GitFails

Others == \/ \E f \in Files, v \in Versions \union {Absent} : Edit(f, v) \/ TeammatePushes(f, v)
          \/ \E f \in Files : Stage(f)
          \/ UserPulls

Next == Gitboard \/ Others

Spec == Init /\ [][Next]_vars

-----------------------------------------------------------------------------
(* Properties.                                                             *)

TypeOK == /\ work \in Snapshots /\ index \in Snapshots /\ head \in Snapshots
          /\ base \in Snapshots /\ tracking \in Snapshots /\ remote \in Snapshots
          /\ unmerged \subseteq Files
          /\ merging \in BOOLEAN /\ ahead \in BOOLEAN /\ behind \in BOOLEAN
          /\ moved \in BOOLEAN /\ alone \in BOOLEAN
          /\ pc \in Points /\ result \in Results
          /\ listed \subseteq TaskFiles
          /\ report \in [added : SUBSET TaskFiles, modified : SUBSET TaskFiles,
                         deleted : SUBSET TaskFiles]
          /\ moves \in 0..MaxMoves

\* publish leaves nothing behind: unless somebody else stepped in, dbstatus
\* lists no task file after publish says "Published".
CleanAfterPublish == pc = "idle" /\ result = "published" /\ alone => ChangedTasks = {}

\* sync shares everything: when it says "Sync complete" and nobody stepped in,
\* the upstream, HEAD and the task files on disk are the same.
SyncedMeansShared ==
  pc = "idle" /\ result = "synced" /\ alone =>
    remote = head /\ \A f \in TaskFiles : work[f] = remote[f]

\* No gitboard command destroys an edit that is not in a commit, not even one
\* made after its own look at git status.
EditsSurvive == [][Gitboard => \A f \in Files : work'[f] # work[f] => work[f] = head[f]]_vars

\* Nor does it take a teammate's commits from the upstream: what a push
\* replaces was merged into the HEAD that replaces it.
TeammatesSurvive == [][Gitboard /\ remote' # remote => base = remote]_vars

\* The inductive invariant: the bookkeeping of commits agrees with the
\* snapshots, and an undisturbed command still knows what it saw.
Bookkeeping == /\ ~ahead => head = base
               /\ ~moved => tracking = remote
               /\ ~behind => tracking = base
               /\ merging => ahead

Undisturbed ==
  alone => /\ pc = "add" => listed = ChangedTasks
           /\ pc = "commit" => \A f \in TaskFiles : work[f] = index[f] /\ f \notin unmerged
           /\ pc \in {"pull", "check", "push"} => ChangedTasks = {}

IInv == TypeOK /\ Bookkeeping /\ Undisturbed /\ CleanAfterPublish /\ SyncedMeansShared

\* spec.md, gitboard publish: "Non-task changes are left unstaged"; plan.md
\* wants it to stage and commit "only task Markdown files".
OnlyTasksPublished == [][PublishCommit /\ alone => \A f \in OtherFiles : head'[f] = head[f]]_vars

\* spec.md, gitboard sync: it checks for "unresolved merge conflicts", and "if
\* conflicts exist" stops before its push: conflict markers stay local.
MarkersStayLocal == \A f \in Files : remote[f] # Markers

\* spec.md, gitboard remotestatus: "deleted: local task ids whose files were
\* deleted upstream", "modified: ... changed upstream".
OnlyUpstreamChanges ==
  pc = "idle" /\ result = "reported" /\ alone =>
    \A f \in report.deleted \union report.modified : tracking[f] # base[f]
=============================================================================
