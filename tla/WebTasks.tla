------------------------------ MODULE WebTasks ------------------------------
(***************************************************************************)
(* The task part of the web page (server/assets/app.js): selecting a       *)
(* repository, loading its tasks in pages, the periodic refresh, moves and *)
(* assignments shown before they are stored, the edit pane, creating a     *)
(* task and publishing.  JavaScript runs one piece of a function at a time;*)
(* between the request of a function and its answer anything else of the   *)
(* page may run, and answers come back in any order.                       *)
(*                                                                         *)
(* A flight is one asynchronous function waiting for POST /batch.  The     *)
(* server handles the requests one at a time (ServerApi); here a request   *)
(* takes effect at one instant, or fails, or takes effect and its answer   *)
(* is an error (a later command of the batch failed, or the connection).   *)
(*                                                                         *)
(* Abstractions: a task is the value of one field, so that moveTask and    *)
(* assignTask are one action; a search shows every task; team and statuses *)
(* are left out; loadToken is the slot of the newest load, which is all    *)
(* that comparing tokens can tell.  Tasks are not deleted.                 *)
(***************************************************************************)
EXTENDS Naturals, FiniteSets

CONSTANTS
  Repos,        \* registered repositories
  NoRepo,       \* selectedRepoId = null
  Tasks,        \* task ids, existing or to be created
  NoTask,       \* editTaskId = null
  Home,         \* the repository of each task id
  Values,       \* values of a task's field
  Created,      \* the value `gitboard create` gives
  Absent,       \* no such task
  Slots,        \* numbers: asynchronous functions that can be waiting at once
  NoSlot,       \* before the first load
  PageSize,     \* taskPageSize
  MaxActs,      \* bound on what the user, other programs and Pip do
  MaxFailures,  \* bound on requests that fail
  Starts        \* the repositories before the page is opened, and acts used up

ASSUME ConstantsAssumption ==
  /\ NoRepo \notin Repos
  /\ NoTask \notin Tasks
  /\ Absent \notin Values
  /\ Slots \subseteq Nat
  /\ NoSlot \notin Slots
  /\ Created \in Values
  /\ Home \in [Tasks -> Repos]
  /\ PageSize \in Nat \ {0}
  /\ MaxActs \in Nat
  /\ MaxFailures \in Nat
  /\ Starts \subseteq [server : [Tasks -> Values \union {Absent}],
                      dirty : SUBSET Tasks, acts : 0 .. MaxActs]

VARIABLES
  view,            \* state.view
  selectedRepoId,
  tasks,           \* state.tasks
  taskEdit,        \* state.taskEdit: the task it was filled from, form and original
  creating,        \* state.taskCreate.saving
  flight,          \* what each asynchronous function waits for
  server,          \* the task files
  dirty,           \* tasks changed since the last publish
  ahead,           \* tasks that differ upstream, as remotestatus lists them
  acts, failures   \* counted against the bounds

pageVars == <<view, selectedRepoId, tasks, taskEdit, creating>>
serverVars == <<server, dirty, ahead>>
vars == <<pageVars, flight, serverVars, acts, failures>>

-----------------------------------------------------------------------------
(* Types.                                                                  *)

Optional == Values \union {Absent}
Boards == [Tasks -> Optional]
Ops == {"none", "index", "details", "change", "publish", "save", "fetch",
        "create", "update"}

\* A waiting function: its local variables and, once served, the answer.
Flights ==
  [op : Ops,
   repo : Repos \union {NoRepo},     \* the repoId it sent
   task : Tasks \union {NoTask},
   value : Optional,                 \* the value it asks for
   prev : Optional,                  \* previousStatus, previousAssignee
   live : BOOLEAN,                   \* the card or form it holds is still shown
   keep : BOOLEAN,                   \* preserveExisting
   ids : SUBSET Tasks,               \* the index, then
   todo : SUBSET Tasks,              \*   the ids not loaded yet,
   page : SUBSET Tasks,              \*   the ids asked for,
   next : Boards,                    \*   nextTasksById
   dirt : SUBSET Tasks,              \* answer of dbstatus
   far : SUBSET Tasks,               \* answer of remotestatus
   reply : {"wait", "ok", "error"}]

\* state.tasks.
Pages == [token : Slots \union {NoSlot},       \* loadToken
          loading : BOOLEAN,
          loaded : BOOLEAN,
          order : SUBSET Tasks,                 \* taskOrder
          byId : Boards,                        \* tasksById
          moving : SUBSET Tasks,                \* movingTaskIds, assigningTaskIds
          publishing : BOOLEAN,
          publishStatus : SUBSET Tasks,
          stale : BOOLEAN,                      \* publishStatusStale
          remote : SUBSET Tasks,                \* remoteStatus
          editTaskId : Tasks \union {NoTask},
          paneMode : {"none", "inspect", "edit"},
          savingEdit : BOOLEAN]

Nothing == [t \in Tasks |-> Absent]

Idle == [op |-> "none", repo |-> NoRepo, task |-> NoTask, value |-> Absent,
         prev |-> Absent, live |-> FALSE, keep |-> FALSE, ids |-> {},
         todo |-> {}, page |-> {}, next |-> Nothing, dirt |-> {}, far |-> {},
         reply |-> "wait"]

\* state.taskEdit, null when the pane has no form.
Edits == [of : Tasks \union {NoTask}, form : Optional, original : Optional]

NoEdit == [of |-> NoTask, form |-> Absent, original |-> Absent]

TypeOK ==
  /\ view \in {"start", "settings", "repo", "create-task"}
  /\ selectedRepoId \in Repos \union {NoRepo}
  /\ tasks \in Pages
  /\ taskEdit \in Edits
  /\ creating \in BOOLEAN
  /\ flight \in [Slots -> Flights]
  /\ server \in Boards
  /\ dirty \in SUBSET Tasks
  /\ ahead \in SUBSET Tasks
  /\ acts \in 0 .. MaxActs
  /\ failures \in 0 .. MaxFailures

In(r) == {t \in Tasks : Home[t] = r}
Stored(r) == {t \in In(r) : server[t] # Absent}

NewPage == [token |-> NoSlot, loading |-> FALSE, loaded |-> FALSE,
            order |-> {}, byId |-> Nothing, moving |-> {}, publishing |-> FALSE,
            publishStatus |-> {}, stale |-> FALSE, remote |-> {},
            editTaskId |-> NoTask, paneMode |-> "none", savingEdit |-> FALSE]

Init == /\ view = "start"
        /\ selectedRepoId = NoRepo
        /\ tasks = NewPage
        /\ taskEdit = NoEdit
        /\ creating = FALSE
        /\ flight = [s \in Slots |-> Idle]
        /\ \E b \in Starts : server = b.server /\ dirty = b.dirty /\ acts = b.acts
        /\ ahead = {}
        /\ failures = 0

-----------------------------------------------------------------------------
(* Helpers of app.js.                                                      *)

\* A function that starts takes the first free slot: slots have no other meaning.
Free(s) == flight[s] = Idle /\ \A x \in Slots : x < s => flight[x] # Idle

Acts == acts < MaxActs /\ acts' = acts + 1

MutationsDisabled == tasks.publishing \/ tasks.remote # {}

ResetTasks == [NewPage EXCEPT !.token = tasks.token]

\* The edit form differs from what it was filled with.
EditFormDirty == taskEdit.form # taskEdit.original

\* The cards the user can click.
Cards == IF view = "repo" /\ selectedRepoId # NoRepo /\ tasks.loaded
         THEN {t \in tasks.order : tasks.byId[t] # Absent} ELSE {}

\* The pane is shown, with its form.
PaneOpen == /\ view = "repo" /\ selectedRepoId # NoRepo /\ tasks.loaded
            /\ tasks.editTaskId # NoTask /\ taskEdit # NoEdit

PaneClosed == [tasks EXCEPT !.editTaskId = NoTask, !.paneMode = "none"]

ApplyDbstatus(page, answer) ==
  [page EXCEPT !.publishStatus = answer.dirt, !.stale = FALSE]

\* Objects that moves and assignments hold and the page shows no more.
Detached(shown, T) ==
  [s \in Slots |-> IF shown[s].op = "change" /\ shown[s].task \in T
                   THEN [shown[s] EXCEPT !.live = FALSE] ELSE shown[s]]

\* The create form is replaced: a function that holds it changes nothing shown.
NewForm(shown) ==
  [s \in Slots |-> IF shown[s].op \in {"create", "update"}
                   THEN [shown[s] EXCEPT !.live = FALSE] ELSE shown[s]]

Answer(s) == flight' = [flight EXCEPT ![s] = Idle]

-----------------------------------------------------------------------------
(* loadTasks.                                                              *)

\* What it does before its first await.
Loading(page, s, keep) ==
  [page EXCEPT !.token = s, !.loading = TRUE, !.loaded = keep,
               !.order = IF keep THEN @ ELSE {},
               !.byId = IF keep THEN @ ELSE Nothing]

LoadFlight(repo, keep) == [Idle EXCEPT !.op = "index", !.repo = repo, !.keep = keep]

LoadTasks(s, page, preserve) ==
  LET keep == preserve /\ tasks.loaded
  IN /\ Free(s)
     /\ tasks' = Loading(page, s, keep)
     /\ flight' = [IF keep THEN flight ELSE Detached(flight, Tasks)
                     EXCEPT ![s] = LoadFlight(selectedRepoId, keep)]
     /\ UNCHANGED <<view, selectedRepoId, creating, serverVars, failures>>

\* Waiting for the next page, or done.
Page(f, todo) == {p \in SUBSET todo : \/ p = todo /\ Cardinality(p) <= PageSize
                                      \/ Cardinality(p) = PageSize}

\* Mutant: a refresh adds what is new and keeps the cards it has.
FinishKeeping(page, f) ==
  [page EXCEPT !.order = f.ids, !.loading = FALSE, !.loaded = TRUE,
               !.byId = [t \in Tasks |-> IF @[t] # Absent THEN @[t] ELSE f.next[t]]]

\* The end of the load: the model is replaced by the one that was built.
Finish(page, f) ==
  [page EXCEPT !.order = f.ids, !.byId = f.next, !.loading = FALSE, !.loaded = TRUE]

NextPage(s, page, f, todo) ==
  IF todo = {}
  THEN /\ tasks' = Finish(page, f)
       /\ flight' = [Detached(flight, Tasks) EXCEPT ![s] = Idle]
  ELSE /\ tasks' = page
       /\ \E p \in Page(f, todo) :
            flight' = [flight EXCEPT ![s] = [f EXCEPT !.op = "details", !.todo = todo,
                                                      !.page = p, !.reply = "wait"]]

IndexAnswered(s) ==
  LET f == flight[s]
      listed == [ApplyDbstatus(tasks, f) EXCEPT
                   !.remote = f.far, !.order = IF f.keep THEN @ ELSE f.ids]
  IN /\ f.op = "index" /\ f.reply = "ok" /\ tasks.token = s
     /\ NextPage(s, listed, f, f.ids)
     /\ UNCHANGED <<view, selectedRepoId, taskEdit, creating, serverVars, acts, failures>>

\* Mutant: the token is not compared after the await.
DetailsAnsweredUnchecked(s) ==
  LET f == flight[s]
      shown == [t \in Tasks |-> IF t \in f.page /\ ~f.keep
                                THEN f.next[t] ELSE tasks.byId[t]]
  IN /\ f.op = "details" /\ f.reply = "ok"
     /\ NextPage(s, [tasks EXCEPT !.byId = shown], f, f.todo \ f.page)
     /\ UNCHANGED <<view, selectedRepoId, taskEdit, creating, serverVars, acts, failures>>

DetailsAnswered(s) ==
  LET f == flight[s]
      shown == [t \in Tasks |-> IF t \in f.page /\ ~f.keep
                                THEN f.next[t] ELSE tasks.byId[t]]
  IN /\ f.op = "details" /\ f.reply = "ok" /\ tasks.token = s
     /\ NextPage(s, [tasks EXCEPT !.byId = shown], f, f.todo \ f.page)
     /\ UNCHANGED <<view, selectedRepoId, taskEdit, creating, serverVars, acts, failures>>

\* Mutant: the error path leaves the loading flag set.
LoadFailedSpinning(s) ==
  LET f == flight[s]
  IN /\ f.op \in {"index", "details"} /\ f.reply = "error" /\ tasks.token = s
     /\ tasks' = [tasks EXCEPT !.stale = TRUE, !.loaded = f.keep]
     /\ Answer(s)
     /\ UNCHANGED <<view, selectedRepoId, taskEdit, creating, serverVars, acts, failures>>

LoadFailed(s) ==
  LET f == flight[s]
  IN /\ f.op \in {"index", "details"} /\ f.reply = "error" /\ tasks.token = s
     /\ tasks' = [tasks EXCEPT !.stale = TRUE, !.loading = FALSE, !.loaded = f.keep]
     /\ Answer(s)
     /\ UNCHANGED <<view, selectedRepoId, taskEdit, creating, serverVars, acts, failures>>

\* A newer load has begun: this one stops at its next answer.
LoadSuperseded(s) ==
  /\ flight[s].op \in {"index", "details"} /\ flight[s].reply # "wait"
  /\ tasks.token # s
  /\ Answer(s)
  /\ UNCHANGED <<pageVars, serverVars, acts, failures>>

\* refreshTasks: the Refresh button, the focus event and the timer.
Refresh(s) ==
  /\ view = "repo" /\ selectedRepoId # NoRepo
  /\ ~tasks.loading /\ ~tasks.publishing /\ tasks.loaded
  /\ LoadTasks(s, tasks, TRUE)
  /\ UNCHANGED <<taskEdit, acts>>

\* runTaskSearch and clearTaskSearch, which close the pane.
SearchTasks(s) ==
  /\ Acts
  /\ view = "repo" /\ selectedRepoId # NoRepo
  /\ ~tasks.loading /\ ~tasks.publishing /\ tasks.loaded
  /\ LoadTasks(s, PaneClosed, TRUE)
  /\ taskEdit' = NoEdit

\* The Retry button of the failure panel, and Load tasks.
Retry(s) ==
  /\ Acts
  /\ view = "repo" /\ selectedRepoId # NoRepo
  /\ ~tasks.loading /\ ~tasks.loaded
  /\ LoadTasks(s, tasks, FALSE)
  /\ UNCHANGED taskEdit

\* Pip changed tasks during a chat, or selected actions were applied: the page
\* loads them whatever it shows and is doing.
AgentReload(s) ==
  /\ Acts
  /\ \/ selectedRepoId # NoRepo /\ LoadTasks(s, tasks, TRUE)
     \/ LoadTasks(s, tasks, FALSE)
  /\ UNCHANGED taskEdit

\* Selected actions could not be applied.
AgentFails ==
  /\ Acts
  /\ tasks' = [tasks EXCEPT !.stale = TRUE]
  /\ UNCHANGED <<view, selectedRepoId, taskEdit, creating, flight, serverVars, failures>>

-----------------------------------------------------------------------------
(* Navigation.                                                             *)

\* Mutant: the state of the repository shown before is kept until the load.
SelectRepoKeeping(s, r) ==
  /\ Acts
  /\ Free(s)
  /\ view' = "repo"
  /\ selectedRepoId' = r
  /\ tasks' = Loading([tasks EXCEPT !.editTaskId = NoTask], s, tasks.loaded)
  /\ taskEdit' = NoEdit
  /\ flight' = [flight EXCEPT ![s] = LoadFlight(r, tasks.loaded)]
  /\ UNCHANGED <<creating, serverVars, failures>>

SelectRepo(s, r) ==
  /\ Acts
  /\ Free(s)
  /\ view' = "repo"
  /\ selectedRepoId' = r
  /\ tasks' = Loading(ResetTasks, s, FALSE)
  /\ taskEdit' = NoEdit
  /\ flight' = [Detached(flight, Tasks) EXCEPT ![s] = LoadFlight(r, FALSE)]
  /\ UNCHANGED <<creating, serverVars, failures>>

\* Start and Settings; the other views are left to Start.
SetView(v) ==
  /\ view' = v
  /\ selectedRepoId' = IF v = "settings" THEN selectedRepoId ELSE NoRepo
  /\ tasks' = PaneClosed
  /\ taskEdit' = NoEdit
  /\ UNCHANGED <<creating, flight, serverVars, acts, failures>>

-----------------------------------------------------------------------------
(* moveTask and assignTask.                                                *)

ChangeTask(s, t, v) ==
  /\ Acts
  /\ Free(s)
  /\ t \in Cards /\ tasks.byId[t] # v
  /\ t \notin tasks.moving /\ ~MutationsDisabled
  /\ tasks' = [tasks EXCEPT !.moving = @ \union {t}, !.byId[t] = v]
  /\ flight' = [flight EXCEPT ![s] =
                  [Idle EXCEPT !.op = "change", !.repo = selectedRepoId, !.task = t,
                               !.value = v, !.prev = tasks.byId[t], !.live = TRUE]]
  /\ UNCHANGED <<view, selectedRepoId, taskEdit, creating, serverVars, failures>>

\* The failure is rolled back on the card object the function holds.
ChangeAnswered(s) ==
  LET f == flight[s]
      unlocked == [tasks EXCEPT !.moving = @ \ {f.task}]
  IN /\ f.op = "change" /\ f.reply # "wait"
     /\ tasks' = IF f.reply = "ok"
                 THEN ApplyDbstatus(unlocked, f)
                 ELSE [unlocked EXCEPT !.stale = TRUE,
                                       !.byId[f.task] = IF f.live THEN f.prev ELSE @]
     /\ Answer(s)
     /\ UNCHANGED <<view, selectedRepoId, taskEdit, creating, serverVars, acts, failures>>

-----------------------------------------------------------------------------
(* publishTasks.                                                           *)

PublishTasks(s) ==
  /\ Acts
  /\ Free(s)
  /\ view = "repo" /\ selectedRepoId # NoRepo /\ tasks.paneMode # "edit"
  /\ tasks.publishStatus # {} /\ ~tasks.publishing
  /\ ~tasks.loading /\ tasks.loaded
  /\ tasks' = [tasks EXCEPT !.publishing = TRUE]
  /\ flight' = [flight EXCEPT ![s] =
                  [Idle EXCEPT !.op = "publish", !.repo = selectedRepoId]]
  /\ UNCHANGED <<view, selectedRepoId, taskEdit, creating, serverVars, failures>>

PublishAnswered(s) ==
  LET f == flight[s]
      after == [tasks EXCEPT !.publishing = FALSE]
  IN /\ f.op = "publish" /\ f.reply # "wait"
     /\ tasks' = IF f.reply = "ok" THEN ApplyDbstatus(after, f)
                 ELSE [after EXCEPT !.stale = TRUE]
     /\ Answer(s)
     /\ UNCHANGED <<view, selectedRepoId, taskEdit, creating, serverVars, acts, failures>>

-----------------------------------------------------------------------------
(* The inspect and edit pane.                                              *)

Filled(t, v) == [of |-> t, form |-> v, original |-> v]

\* openTaskInspect and openTaskEdit, from a card or, to edit, from the pane;
\* unsaved changes go when the user agrees.
OpenPane(t, mode) ==
  /\ \/ t \in Cards \ tasks.remote
     \/ /\ PaneOpen /\ t = tasks.editTaskId
        /\ tasks.byId[t] # Absent /\ tasks.paneMode = "inspect" /\ mode = "edit"
  /\ <<tasks.editTaskId, tasks.paneMode>> # <<t, mode>>
  /\ tasks' = [tasks EXCEPT !.editTaskId = t, !.paneMode = mode]
  /\ taskEdit' = Filled(t, tasks.byId[t])
  /\ UNCHANGED <<view, selectedRepoId, creating, flight, serverVars, acts, failures>>

\* Mutant: the two nulls are swapped.
ClosePaneSwapped ==
  /\ PaneOpen
  /\ tasks.paneMode = "edit" => ~tasks.savingEdit
  /\ tasks' = [tasks EXCEPT !.editTaskId = "none", !.paneMode = NoTask]
  /\ taskEdit' = NoEdit
  /\ UNCHANGED <<view, selectedRepoId, creating, flight, serverVars, acts, failures>>

ClosePane ==
  /\ PaneOpen
  /\ tasks.paneMode = "edit" => ~tasks.savingEdit
  /\ tasks' = PaneClosed
  /\ taskEdit' = NoEdit
  /\ UNCHANGED <<view, selectedRepoId, creating, flight, serverVars, acts, failures>>

\* The user changes a field of the form, also while it is being saved.
EditField(v) ==
  /\ PaneOpen
  /\ tasks.paneMode = "edit" /\ taskEdit.form # v
  /\ taskEdit' = [taskEdit EXCEPT !.form = v]
  /\ UNCHANGED <<view, selectedRepoId, tasks, creating, flight, serverVars, acts, failures>>

SaveTaskEdit(s) ==
  /\ Acts
  /\ Free(s)
  /\ PaneOpen
  /\ tasks.paneMode = "edit" /\ EditFormDirty
  /\ ~tasks.savingEdit /\ ~MutationsDisabled
  /\ tasks' = [tasks EXCEPT !.savingEdit = TRUE]
  /\ flight' = [flight EXCEPT ![s] =
                  [Idle EXCEPT !.op = "save", !.repo = selectedRepoId,
                               !.task = tasks.editTaskId, !.value = taskEdit.form]]
  /\ UNCHANGED <<view, selectedRepoId, taskEdit, creating, serverVars, failures>>

SaveFailed(s) ==
  /\ flight[s].op \in {"save", "fetch"} /\ flight[s].reply = "error"
  /\ tasks' = [tasks EXCEPT !.stale = TRUE, !.savingEdit = FALSE]
  /\ Answer(s)
  /\ UNCHANGED <<view, selectedRepoId, taskEdit, creating, serverVars, acts, failures>>

\* The task is read again, from the repository selected by now.
SaveAnswered(s) ==
  LET f == flight[s]
  IN /\ f.op = "save" /\ f.reply = "ok"
     /\ tasks' = ApplyDbstatus(tasks, f)
     /\ flight' = [flight EXCEPT ![s] =
                     [Idle EXCEPT !.op = "fetch", !.repo = selectedRepoId,
                                  !.task = f.task, !.page = {f.task}]]
     /\ UNCHANGED <<view, selectedRepoId, taskEdit, creating, serverVars, acts, failures>>

\* The answer fills the form, whichever task the pane shows by now.
FetchAnswered(s) ==
  LET f == flight[s]
  IN /\ f.op = "fetch" /\ f.reply = "ok"
     /\ tasks' = [tasks EXCEPT !.byId[f.task] = f.next[f.task], !.savingEdit = FALSE]
     /\ taskEdit' = Filled(f.task, f.next[f.task])
     /\ flight' = [Detached(flight, {f.task}) EXCEPT ![s] = Idle]
     /\ UNCHANGED <<view, selectedRepoId, creating, serverVars, acts, failures>>

-----------------------------------------------------------------------------
(* Creating a task.                                                        *)

\* The header button, or the one shown instead of the cards; tasks added upstream
\* are cards too.
OpenCreateTask ==
  /\ Acts
  /\ view = "repo" /\ selectedRepoId # NoRepo /\ tasks.loaded
  /\ \/ tasks.paneMode # "edit" /\ ~tasks.loading /\ ~MutationsDisabled
     \/ Cards \union tasks.remote = {}
  /\ view' = "create-task"
  /\ tasks' = [tasks EXCEPT !.editTaskId = NoTask]
  /\ taskEdit' = NoEdit
  /\ creating' = FALSE
  /\ flight' = NewForm(flight)
  /\ UNCHANGED <<selectedRepoId, serverVars, failures>>

CloseCreateTask ==
  /\ view = "create-task"
  /\ view' = "repo"
  /\ creating' = FALSE
  /\ flight' = NewForm(flight)
  /\ UNCHANGED <<selectedRepoId, tasks, taskEdit, serverVars, acts, failures>>

CreateTask(s, v) ==
  /\ Acts
  /\ Free(s)
  /\ view = "create-task" /\ selectedRepoId # NoRepo
  /\ ~creating /\ ~MutationsDisabled
  /\ creating' = TRUE
  /\ flight' = [flight EXCEPT ![s] =
                  [Idle EXCEPT !.op = "create", !.repo = selectedRepoId,
                               !.value = v, !.live = TRUE]]
  /\ UNCHANGED <<view, selectedRepoId, tasks, taskEdit, serverVars, failures>>

\* The other fields are sent to the repository selected by now.
CreateAnswered(s) ==
  LET f == flight[s]
  IN /\ f.op = "create" /\ f.reply = "ok"
     /\ tasks' = ApplyDbstatus(tasks, f)
     /\ flight' = [flight EXCEPT ![s] =
                     [f EXCEPT !.op = "update", !.repo = selectedRepoId,
                               !.dirt = {}, !.reply = "wait"]]
     /\ UNCHANGED <<view, selectedRepoId, taskEdit, creating, serverVars, acts, failures>>

CreateFailed(s) ==
  LET f == flight[s]
  IN /\ f.op \in {"create", "update"} /\ f.reply = "error"
     /\ tasks' = [tasks EXCEPT !.stale = TRUE]
     /\ creating' = IF f.live THEN FALSE ELSE creating
     /\ Answer(s)
     /\ UNCHANGED <<view, selectedRepoId, taskEdit, serverVars, acts, failures>>

\* Back to the list, which is loaded again by the same function.
UpdateAnswered(s) ==
  LET f == flight[s]
  IN /\ f.op = "update" /\ f.reply = "ok"
     /\ view' = "repo"
     /\ creating' = FALSE
     /\ tasks' = Loading(ApplyDbstatus(tasks, f), s, FALSE)
     /\ flight' = [NewForm(Detached(flight, Tasks)) EXCEPT
                     ![s] = LoadFlight(selectedRepoId, FALSE)]
     /\ UNCHANGED <<selectedRepoId, taskEdit, serverVars, acts, failures>>

-----------------------------------------------------------------------------
(* The server, and whoever else works on the repositories.                 *)

\* Ids of tasks that can still be created: finitely many, in the model.
NewIds(r) == In(r) \ (Stored(r) \union ahead)

\* The request can succeed: the repository and the tasks it names exist.
Valid(f) ==
  /\ f.repo # NoRepo
  /\ f.op = "create" => NewIds(f.repo) # {}
  /\ f.task # NoTask => Home[f.task] = f.repo
  /\ f.page \subseteq Stored(f.repo)

Replied(s, f, reply) ==
  flight' = [flight EXCEPT ![s] = [f EXCEPT !.reply = reply]]

FailureCounted == failures < MaxFailures /\ failures' = failures + 1

\* The commands took effect; the last one, dbstatus, or the answer may still fail.
Outcome(s, f) ==
  \/ Replied(s, [f EXCEPT !.dirt = dirty' \intersect In(f.repo)], "ok") /\ UNCHANGED failures
  \/ Replied(s, f, "error") /\ FailureCounted

\* The remotestatus of an index says nothing when git fetch failed.
ServeRead(s) ==
  LET f == flight[s]
      read == [t \in Tasks |-> IF t \in f.page THEN server[t] ELSE f.next[t]]
      Listed(far) == [f EXCEPT !.ids = Stored(f.repo),
                               !.dirt = dirty \intersect In(f.repo), !.far = far]
  IN /\ f.op \in {"index", "details", "fetch"} /\ f.reply = "wait" /\ Valid(f)
     /\ \/ /\ f.op = "index" /\ UNCHANGED failures
           /\ Replied(s, Listed(ahead \intersect In(f.repo)), "ok")
        \/ f.op = "index" /\ FailureCounted /\ Replied(s, Listed({}), "ok")
        \/ f.op # "index" /\ UNCHANGED failures /\ Replied(s, [f EXCEPT !.next = read], "ok")
     /\ UNCHANGED <<pageVars, serverVars, acts>>

ServeWrite(s) ==
  LET f == flight[s]
  IN /\ f.op \in {"change", "save", "update"} /\ f.reply = "wait" /\ Valid(f)
     /\ server' = [server EXCEPT ![f.task] = f.value]
     /\ dirty' = dirty \union {f.task}
     /\ Outcome(s, f)
     /\ UNCHANGED <<pageVars, ahead, acts>>

ServeCreate(s) ==
  LET f == flight[s]
  IN /\ f.op = "create" /\ f.reply = "wait" /\ Valid(f)
     /\ \E t \in NewIds(f.repo) :
          /\ server' = [server EXCEPT ![t] = Created]
          /\ dirty' = dirty \union {t}
          /\ Outcome(s, [f EXCEPT !.task = t])
     /\ UNCHANGED <<pageVars, ahead, acts>>

\* publish, then sync, which pulls what is upstream, unless it fails: then the
\* tasks that were committed differ from upstream too.
ServePublish(s) ==
  LET f == flight[s]
      differing == ahead \intersect In(f.repo)
  IN /\ f.op = "publish" /\ f.reply = "wait" /\ Valid(f)
     /\ dirty' = dirty \ In(f.repo)
     /\ \/ /\ \E v \in Values, pulled \in SUBSET differing :
                server' = [t \in Tasks |-> IF t \in pulled THEN v ELSE server[t]]
           /\ ahead' = ahead \ differing
           /\ Outcome(s, f)
        \/ /\ Replied(s, f, "error") /\ FailureCounted
           /\ ahead' = ahead \union (dirty \intersect In(f.repo))
           /\ UNCHANGED server
     /\ UNCHANGED <<pageVars, acts>>

\* Nothing took effect; a request that names something unknown always fails.
ServeFails(s) ==
  LET f == flight[s]
  IN /\ f.op # "none" /\ f.reply = "wait"
     /\ Replied(s, f, "error")
     /\ IF Valid(f) THEN FailureCounted ELSE UNCHANGED failures
     /\ UNCHANGED <<pageVars, serverVars, acts>>

\* gitboard in a shell, an editor, git, or Pip on the server.
OthersEdit(t, v) ==
  /\ Acts
  /\ server[t] \notin {Absent, v}
  /\ server' = [server EXCEPT ![t] = v]
  /\ dirty' = dirty \union {t}
  /\ UNCHANGED <<pageVars, flight, ahead, failures>>

TeammatePushes(t) ==
  /\ Acts
  /\ t \notin ahead
  /\ ahead' = ahead \union {t}
  /\ UNCHANGED <<pageVars, flight, server, dirty, failures>>

-----------------------------------------------------------------------------
Serve(s) == ServeRead(s) \/ ServeWrite(s) \/ ServeCreate(s) \/ ServePublish(s) \/ ServeFails(s)

Continue(s) ==
  \/ IndexAnswered(s) \/ DetailsAnswered(s) \/ LoadFailed(s) \/ LoadSuperseded(s)
  \/ ChangeAnswered(s) \/ PublishAnswered(s)
  \/ SaveAnswered(s) \/ FetchAnswered(s) \/ SaveFailed(s)
  \/ CreateAnswered(s) \/ UpdateAnswered(s) \/ CreateFailed(s)

Start(s) ==
  \/ Refresh(s) \/ SearchTasks(s) \/ Retry(s) \/ AgentReload(s)
  \/ PublishTasks(s) \/ SaveTaskEdit(s)
  \/ \E r \in Repos : SelectRepo(s, r)
  \/ \E t \in Tasks, v \in Values : ChangeTask(s, t, v)
  \/ \E v \in Values : CreateTask(s, v)

Browse ==
  \/ SetView("start") \/ SetView("settings")
  \/ \E t \in Tasks, mode \in {"inspect", "edit"} : OpenPane(t, mode)
  \/ ClosePane \/ \E v \in Values : EditField(v)
  \/ OpenCreateTask \/ CloseCreateTask \/ AgentFails

Others == \E t \in Tasks : TeammatePushes(t) \/ \E v \in Values : OthersEdit(t, v)

Next == \/ \E s \in Slots : Serve(s) \/ Continue(s) \/ Start(s)
        \/ Browse
        \/ Others

Spec == Init /\ [][Next]_vars

\* The server answers (ServerApi), the event loop resumes what was answered and
\* the interval timer fires again and again.
FairSpec ==
  /\ Spec
  /\ \A s \in Slots : WF_vars(Serve(s)) /\ WF_vars(Continue(s))
  /\ WF_vars(\E s \in Slots : Refresh(s))

-----------------------------------------------------------------------------
(* Properties.                                                             *)

\* Every flag that disables a control belongs to a function that is still
\* waiting and will clear it, across repository switches and superseded loads:
\* the page is never left spinning, publishing, or with a locked card.
NothingStuck ==
  /\ tasks.loading => tasks.token \in Slots /\ flight[tasks.token].op \in {"index", "details"}
  /\ tasks.publishing => \E s \in Slots : flight[s].op = "publish"
  /\ tasks.savingEdit => \E s \in Slots : flight[s].op \in {"save", "fetch"}
  /\ \A t \in tasks.moving : \E s \in Slots : flight[s].op = "change" /\ flight[s].task = t
  /\ creating => \E s \in Slots : flight[s].op \in {"create", "update"} /\ flight[s].live

\* A late answer never shows tasks of a repository the user has left.
CardsAreSelected == \A t \in Cards : Home[t] = selectedRepoId

\* A move, an assignment or an edit is sent to the repository of its task,
\* although it is the selected repository that is sent with it.
ChangesReachHome ==
  \A s \in Slots : flight[s].op \in {"change", "save"} => Home[flight[s].task] = flight[s].repo

\* What the page shows and waits for is of the selected repository.
SelectionInv ==
  /\ selectedRepoId # NoRepo => tasks.order \subseteq In(selectedRepoId)
  /\ tasks.editTaskId # NoTask => Home[tasks.editTaskId] = selectedRepoId
  /\ \A s \in Slots : flight[s].op \in {"index", "details"} =>
       /\ flight[s].ids \subseteq In(flight[s].repo)
       /\ tasks.token = s /\ selectedRepoId # NoRepo => flight[s].repo = selectedRepoId

\* A function that changes or reads one task knows which.
TaskKnown ==
  \A s \in Slots : \/ flight[s].op \in {"change", "save", "fetch", "update"}
                   \/ flight[s].op = "create" /\ flight[s].reply = "ok"
                   => flight[s].task # NoTask

\* The inductive invariant.
IInv == TypeOK /\ TaskKnown /\ NothingStuck /\ SelectionInv /\ ChangesReachHome

\* What a loaded page shows is what the repository holds.
UpToDate ==
  /\ tasks.order = Stored(selectedRepoId)
  /\ \A t \in tasks.order : tasks.byId[t] = server[t]
  /\ tasks.publishStatus = dirty \intersect In(selectedRepoId)
  /\ tasks.remote = ahead \intersect In(selectedRepoId)
  /\ ~tasks.stale

\* Once users, other programs and failures come to rest, a page left open on a
\* loaded repository becomes up to date and stays so, whatever was overwritten,
\* rolled back, superseded or applied to the wrong repository on the way.
Converges == <>[](view = "repo" /\ selectedRepoId # NoRepo /\ tasks.loaded => UpToDate)

\* doc/web_ui.md, Edit Task View: the pane is filled with the data of the task
\* it is open for.
PaneShowsItsTask ==
  tasks.editTaskId # NoTask /\ taskEdit # NoEdit => taskEdit.of = tasks.editTaskId
=============================================================================
