-------------------------- MODULE WebTasks_proofs --------------------------
(***************************************************************************)
(* Proofs about WebTasks.                                                  *)
(***************************************************************************)
EXTENDS WebTasks, TLAPS

-----------------------------------------------------------------------------
(* The helpers keep the types, and change nothing but what they say.       *)

LEMMA NullTypes == Nothing \in Boards /\ Idle \in Flights /\ NoEdit \in Edits
BY DEF Nothing, Boards, Optional, Idle, Flights, Ops, NoEdit, Edits

LEMMA NewPageType == NewPage \in Pages
BY NullTypes DEF NewPage, Pages

LEMMA NotLiveShape == ASSUME NEW f \in Flights PROVE [f EXCEPT !.live = FALSE] \in Flights
  BY DEF Flights

\* Detached and NewForm only set live to FALSE.
LEMMA DetachedShape ==
  ASSUME NEW shown \in [Slots -> Flights], NEW T
  PROVE  /\ Detached(shown, T) \in [Slots -> Flights]
         /\ \A s \in Slots :
              /\ Detached(shown, T)[s].op = shown[s].op
              /\ Detached(shown, T)[s].task = shown[s].task
              /\ Detached(shown, T)[s].repo = shown[s].repo
              /\ Detached(shown, T)[s].ids = shown[s].ids
              /\ shown[s].op # "change" => Detached(shown, T)[s] = shown[s]
<1>1. \A s \in Slots : [shown[s] EXCEPT !.live = FALSE] \in Flights
  BY NotLiveShape
<1>2. \A s \in Slots : /\ [shown[s] EXCEPT !.live = FALSE].op = shown[s].op
                       /\ [shown[s] EXCEPT !.live = FALSE].task = shown[s].task
                       /\ [shown[s] EXCEPT !.live = FALSE].repo = shown[s].repo
                       /\ [shown[s] EXCEPT !.live = FALSE].ids = shown[s].ids
  BY DEF Flights
<1> QED
  BY <1>1, <1>2 DEF Detached

LEMMA NewFormShape ==
  ASSUME NEW shown \in [Slots -> Flights]
  PROVE  /\ NewForm(shown) \in [Slots -> Flights]
         /\ \A s \in Slots :
              /\ NewForm(shown)[s].op = shown[s].op
              /\ NewForm(shown)[s].task = shown[s].task
              /\ NewForm(shown)[s].repo = shown[s].repo
              /\ NewForm(shown)[s].ids = shown[s].ids
              /\ NewForm(shown)[s].reply = shown[s].reply
              /\ shown[s].op \notin {"create", "update"} => NewForm(shown)[s] = shown[s]
<1>1. \A s \in Slots : [shown[s] EXCEPT !.live = FALSE] \in Flights
  BY NotLiveShape
<1>2. \A s \in Slots : /\ [shown[s] EXCEPT !.live = FALSE].op = shown[s].op
                       /\ [shown[s] EXCEPT !.live = FALSE].task = shown[s].task
                       /\ [shown[s] EXCEPT !.live = FALSE].repo = shown[s].repo
                       /\ [shown[s] EXCEPT !.live = FALSE].ids = shown[s].ids
                       /\ [shown[s] EXCEPT !.live = FALSE].reply = shown[s].reply
  BY DEF Flights
<1> QED
  BY <1>1, <1>2 DEF NewForm

\* A load starts with an empty answer, whatever it replaces.
LEMMA LoadFlightShape ==
  ASSUME NEW repo \in Repos \union {NoRepo}, NEW keep \in BOOLEAN
  PROVE  /\ LoadFlight(repo, keep) \in Flights
         /\ LoadFlight(repo, keep).op = "index"
         /\ LoadFlight(repo, keep).repo = repo
         /\ LoadFlight(repo, keep).ids = {}
BY NullTypes DEF LoadFlight, Flights, Idle, Ops

LEMMA LoadingShape ==
  ASSUME NEW page \in Pages, NEW s \in Slots, NEW keep \in BOOLEAN
  PROVE  /\ Loading(page, s, keep) \in Pages
         /\ Loading(page, s, keep).token = s
         /\ Loading(page, s, keep).order \subseteq page.order
         /\ Loading(page, s, keep).moving = page.moving
         /\ Loading(page, s, keep).publishing = page.publishing
         /\ Loading(page, s, keep).savingEdit = page.savingEdit
         /\ Loading(page, s, keep).editTaskId = page.editTaskId
BY NullTypes DEF Loading, Pages

\* The end of an answered load request: the next page is asked for, or the
\* model is replaced and the function has ended.
LEMMA NextPageShape ==
  ASSUME TypeOK, NEW s \in Slots, NEW page \in Pages, NEW f \in Flights,
         NEW todo \in SUBSET Tasks, NextPage(s, page, f, todo)
  PROVE  /\ tasks' \in Pages /\ flight' \in [Slots -> Flights]
         /\ tasks'.token = page.token /\ tasks'.moving = page.moving
         /\ tasks'.publishing = page.publishing
         /\ tasks'.savingEdit = page.savingEdit
         /\ tasks'.editTaskId = page.editTaskId
         /\ tasks'.order \in {page.order, f.ids}
         /\ \A x \in Slots \ {s} :
              /\ flight'[x].op = flight[x].op
              /\ flight'[x].task = flight[x].task
              /\ flight'[x].repo = flight[x].repo
              /\ flight'[x].ids = flight[x].ids
              /\ flight[x].op # "change" => flight'[x] = flight[x]
         /\ \/ tasks'.loading = FALSE /\ flight'[s] = Idle
            \/ /\ flight'[s].op = "details"
               /\ flight'[s].repo = f.repo
               /\ flight'[s].ids = f.ids
<1>1. flight \in [Slots -> Flights]
  BY DEF TypeOK
<1>2. CASE todo = {}
  <2>1. /\ tasks' = Finish(page, f)
        /\ flight' = [Detached(flight, Tasks) EXCEPT ![s] = Idle]
    BY <1>2 DEF NextPage
  <2>2. /\ Finish(page, f) \in Pages /\ Finish(page, f).order = f.ids
        /\ Finish(page, f).loading = FALSE
        /\ Finish(page, f).token = page.token /\ Finish(page, f).moving = page.moving
        /\ Finish(page, f).publishing = page.publishing
        /\ Finish(page, f).savingEdit = page.savingEdit
        /\ Finish(page, f).editTaskId = page.editTaskId
    BY DEF Finish, Pages, Flights
  <2> QED
    BY <1>1, <2>1, <2>2, DetachedShape, NullTypes
<1>3. CASE todo # {}
  <2>1. tasks' = page
    BY <1>3 DEF NextPage
  <2>2. PICK p \in Page(f, todo) :
          flight' = [flight EXCEPT ![s] = [f EXCEPT !.op = "details", !.todo = todo,
                                                    !.page = p, !.reply = "wait"]]
    BY <1>3 DEF NextPage
  <2>3. p \in SUBSET Tasks
    BY DEF Page
  <2> DEFINE g == [f EXCEPT !.op = "details", !.todo = todo, !.page = p, !.reply = "wait"]
  <2>4. g \in Flights /\ g.op = "details" /\ g.repo = f.repo /\ g.ids = f.ids
    BY <2>3 DEF Flights, Ops
  <2> HIDE DEF g
  <2>5. flight' = [flight EXCEPT ![s] = g]
    BY <2>2 DEF g
  <2> QED
    BY <1>1, <2>1, <2>4, <2>5
<1> QED
  BY <1>2, <1>3

-----------------------------------------------------------------------------
(* Types.                                                                  *)

LEMMA TypeInit == Init => TypeOK
<1> SUFFICES ASSUME Init PROVE TypeOK
  OBVIOUS
<1>1. tasks \in Pages /\ taskEdit \in Edits /\ flight \in [Slots -> Flights]
  BY NullTypes, NewPageType DEF Init
<1>2. /\ server \in Boards /\ dirty \in SUBSET Tasks /\ ahead \in SUBSET Tasks
      /\ acts \in 0 .. MaxActs /\ failures \in 0 .. MaxFailures
  BY ConstantsAssumption DEF Init, Boards, Optional
<1> QED
  BY <1>1, <1>2 DEF Init, TypeOK

\* The actions of the server and of other programs.
LEMMA TypeServe ==
  ASSUME TypeOK, TaskKnown, NEW s \in Slots, Serve(s)
  PROVE  TypeOK'
<1> DEFINE f == flight[s]
<1>1. f \in Flights /\ f.page \subseteq Tasks /\ f.ids \subseteq Tasks
  BY DEF TypeOK, Flights
<1>2. \A reply \in {"ok", "error"}, g \in Flights :
        Replied(s, g, reply) => flight' \in [Slots -> Flights]
  <2> SUFFICES ASSUME NEW reply \in {"ok", "error"}, NEW g \in Flights, Replied(s, g, reply)
               PROVE  flight' \in [Slots -> Flights]
    OBVIOUS
  <2>1. [g EXCEPT !.reply = reply] \in Flights
    BY DEF Flights
  <2> QED
    BY <2>1 DEF Replied, TypeOK
<1>3. FailureCounted => failures' \in 0 .. MaxFailures
  BY ConstantsAssumption DEF FailureCounted, TypeOK
<1>4. \A g \in Flights : Outcome(s, g) => /\ flight' \in [Slots -> Flights]
                                          /\ failures' \in 0 .. MaxFailures
  <2> SUFFICES ASSUME NEW g \in Flights, Outcome(s, g)
               PROVE  flight' \in [Slots -> Flights] /\ failures' \in 0 .. MaxFailures
    OBVIOUS
  <2>1. [g EXCEPT !.dirt = dirty' \intersect In(g.repo)] \in Flights
    BY DEF Flights, In
  <2> QED
    BY <1>2, <1>3, <2>1 DEF Outcome, TypeOK
<1>5. CASE ServeRead(s)
  <2> DEFINE read == [t \in Tasks |-> IF t \in f.page THEN server[t] ELSE f.next[t]]
             Listed(far) == [f EXCEPT !.ids = Stored(f.repo),
                                      !.dirt = dirty \intersect In(f.repo), !.far = far]
  <2>1. Listed(ahead \intersect In(f.repo)) \in Flights /\ Listed({}) \in Flights
    BY <1>1 DEF Flights, Stored, In
  <2>2. read \in Boards
    BY <1>1 DEF TypeOK, Flights, Boards
  <2>3. [f EXCEPT !.next = read] \in Flights
    BY <1>1, <2>2 DEF Flights
  <2>4. /\ \/ Replied(s, Listed(ahead \intersect In(f.repo)), "ok")
           \/ Replied(s, Listed({}), "ok")
           \/ Replied(s, [f EXCEPT !.next = read], "ok")
        /\ UNCHANGED failures \/ FailureCounted
    BY <1>5 DEF ServeRead
  <2>5. flight' \in [Slots -> Flights]
    BY <1>2, <2>1, <2>3, <2>4
  <2>6. failures' \in 0 .. MaxFailures
    BY <1>3, <2>4 DEF TypeOK
  <2> QED
    BY <1>5, <2>5, <2>6 DEF ServeRead, TypeOK, pageVars, serverVars
<1>6. CASE ServeWrite(s)
  <2>1. f.op \in {"change", "save", "update"} /\ Outcome(s, f)
    BY <1>6 DEF ServeWrite
  <2>2. server' \in Boards
    BY <1>1, <1>6 DEF ServeWrite, TypeOK, Flights, Boards
  <2>3. f.task \in Tasks
    BY <1>1, <2>1 DEF TaskKnown, Flights
  <2> QED
    BY <1>1, <1>4, <1>6, <2>1, <2>2, <2>3 DEF ServeWrite, TypeOK, pageVars
<1>7. CASE ServeCreate(s)
  <2>1. PICK t \in NewIds(f.repo) :
          /\ server' = [server EXCEPT ![t] = Created]
          /\ dirty' = dirty \union {t}
          /\ Outcome(s, [f EXCEPT !.task = t])
    BY <1>7 DEF ServeCreate
  <2>2. t \in Tasks
    BY DEF NewIds, In
  <2>3. [f EXCEPT !.task = t] \in Flights
    BY <1>1, <2>2 DEF Flights
  <2>4. server' \in Boards /\ dirty' \in SUBSET Tasks
    BY <2>1, <2>2, ConstantsAssumption DEF TypeOK, Boards, Optional
  <2> QED
    BY <1>4, <1>7, <2>1, <2>3, <2>4 DEF ServeCreate, TypeOK, pageVars
<1>8. CASE ServePublish(s)
  <2>1. server' \in Boards /\ ahead' \in SUBSET Tasks /\ dirty' \in SUBSET Tasks
    BY <1>8 DEF ServePublish, TypeOK, Boards, Optional
  <2>2. flight' \in [Slots -> Flights] /\ failures' \in 0 .. MaxFailures
    BY <1>1, <1>2, <1>3, <1>4, <1>8 DEF ServePublish
  <2> QED
    BY <1>8, <2>1, <2>2 DEF ServePublish, TypeOK, pageVars
<1>9. CASE ServeFails(s)
  BY <1>1, <1>2, <1>3, <1>9 DEF ServeFails, TypeOK, pageVars, serverVars
<1> QED
  BY <1>5, <1>6, <1>7, <1>8, <1>9 DEF Serve

LEMMA TypeOthers == TypeOK /\ Others => TypeOK'
<1> SUFFICES ASSUME TypeOK, Others PROVE TypeOK'
  OBVIOUS
<1>1. Acts => acts' \in 0 .. MaxActs
  BY ConstantsAssumption DEF Acts, TypeOK
<1>2. ASSUME NEW t \in Tasks, TeammatePushes(t) PROVE TypeOK'
  BY <1>1, <1>2 DEF TeammatePushes, TypeOK, pageVars
<1>3. ASSUME NEW t \in Tasks, NEW v \in Values, OthersEdit(t, v) PROVE TypeOK'
  BY <1>1, <1>3 DEF OthersEdit, TypeOK, pageVars, Boards, Optional
<1> QED
  BY <1>2, <1>3 DEF Others

\* The functions of the page that an answer resumes.
LEMMA TypeContinue ==
  ASSUME TypeOK, TaskKnown, NEW s \in Slots, Continue(s)
  PROVE  TypeOK'
<1> DEFINE f == flight[s]
<1> USE DEF pageVars, serverVars
<1>1. f \in Flights /\ tasks \in Pages /\ flight \in [Slots -> Flights]
  BY DEF TypeOK
<1>2. ApplyDbstatus(tasks, f) \in Pages
  BY <1>1 DEF ApplyDbstatus, Pages, Flights
<1>3. Answer(s) => flight' \in [Slots -> Flights]
  BY <1>1, NullTypes DEF Answer
<1>4. CASE IndexAnswered(s)
  <2> DEFINE listed == [ApplyDbstatus(tasks, f) EXCEPT
                          !.remote = f.far, !.order = IF f.keep THEN @ ELSE f.ids]
  <2>1. listed \in Pages /\ f.ids \in SUBSET Tasks
    BY <1>1, <1>2 DEF Pages, Flights
  <2>2. NextPage(s, listed, f, f.ids)
    BY <1>4 DEF IndexAnswered
  <2>3. tasks' \in Pages /\ flight' \in [Slots -> Flights]
    BY <1>1, <2>1, <2>2, NextPageShape
  <2> QED
    BY <1>4, <2>3 DEF IndexAnswered, TypeOK
<1>5. CASE DetailsAnswered(s)
  <2> DEFINE shown == [t \in Tasks |-> IF t \in f.page /\ ~f.keep
                                      THEN f.next[t] ELSE tasks.byId[t]]
  <2>1. shown \in Boards
    BY <1>1 DEF Flights, Pages, Boards
  <2>2. [tasks EXCEPT !.byId = shown] \in Pages /\ f.todo \ f.page \in SUBSET Tasks
    BY <1>1, <2>1 DEF Pages, Flights
  <2>3. NextPage(s, [tasks EXCEPT !.byId = shown], f, f.todo \ f.page)
    BY <1>5 DEF DetailsAnswered
  <2>4. tasks' \in Pages /\ flight' \in [Slots -> Flights]
    BY <1>1, <2>2, <2>3, NextPageShape
  <2> QED
    BY <1>5, <2>4 DEF DetailsAnswered, TypeOK
<1>6. CASE LoadFailed(s)
  <2>1. [tasks EXCEPT !.stale = TRUE, !.loading = FALSE, !.loaded = f.keep] \in Pages
    BY <1>1 DEF Pages, Flights
  <2> QED
    BY <1>3, <1>6, <2>1 DEF LoadFailed, TypeOK
<1>7. CASE LoadSuperseded(s)
  BY <1>3, <1>7 DEF LoadSuperseded, TypeOK
<1>8. CASE ChangeAnswered(s)
  <2>1. f.task \in Tasks
    BY <1>1, <1>8 DEF ChangeAnswered, TaskKnown, Flights
  <2> DEFINE unlocked == [tasks EXCEPT !.moving = @ \ {f.task}]
  <2>2. unlocked \in Pages
    BY <1>1 DEF Pages
  <2>3. ApplyDbstatus(unlocked, f) \in Pages
    BY <1>1, <2>2 DEF ApplyDbstatus, Pages, Flights
  <2>4. [unlocked EXCEPT !.stale = TRUE,
                         !.byId[f.task] = IF f.live THEN f.prev ELSE @] \in Pages
    BY <1>1, <2>1, <2>2 DEF Pages, Boards, Flights
  <2>5. tasks' \in Pages
    BY <1>8, <2>3, <2>4 DEF ChangeAnswered
  <2> QED
    BY <1>3, <1>8, <2>5 DEF ChangeAnswered, TypeOK
<1>9. CASE PublishAnswered(s)
  <2> DEFINE after == [tasks EXCEPT !.publishing = FALSE]
  <2>1. after \in Pages
    BY <1>1 DEF Pages
  <2>2. ApplyDbstatus(after, f) \in Pages /\ [after EXCEPT !.stale = TRUE] \in Pages
    BY <1>1, <2>1 DEF ApplyDbstatus, Pages, Flights
  <2>3. tasks' \in Pages
    BY <1>9, <2>2 DEF PublishAnswered
  <2> QED
    BY <1>3, <1>9, <2>3 DEF PublishAnswered, TypeOK
<1>10. CASE SaveAnswered(s)
  <2>1. f.task \in Tasks
    BY <1>1, <1>10 DEF SaveAnswered, TaskKnown, Flights
  <2> DEFINE g == [Idle EXCEPT !.op = "fetch", !.repo = selectedRepoId,
                               !.task = f.task, !.page = {f.task}]
  <2>2. g \in Flights
    BY <2>1, NullTypes DEF Flights, Ops, TypeOK
  <2>3. flight' \in [Slots -> Flights]
    BY <1>1, <1>10, <2>2 DEF SaveAnswered
  <2> QED
    BY <1>2, <1>10, <2>3 DEF SaveAnswered, TypeOK
<1>11. CASE FetchAnswered(s)
  <2>1. f.task \in Tasks /\ f.next[f.task] \in Optional
    BY <1>1, <1>11 DEF FetchAnswered, TaskKnown, Flights, Boards
  <2>2. [tasks EXCEPT !.byId[f.task] = f.next[f.task], !.savingEdit = FALSE] \in Pages
    BY <1>1, <2>1 DEF Pages, Boards
  <2>3. Filled(f.task, f.next[f.task]) \in Edits
    BY <2>1 DEF Filled, Edits
  <2>4. flight' \in [Slots -> Flights]
    BY <1>1, <1>11, DetachedShape, NullTypes DEF FetchAnswered
  <2> QED
    BY <1>11, <2>2, <2>3, <2>4 DEF FetchAnswered, TypeOK
<1>12. CASE SaveFailed(s)
  <2>1. [tasks EXCEPT !.stale = TRUE, !.savingEdit = FALSE] \in Pages
    BY <1>1 DEF Pages
  <2> QED
    BY <1>3, <1>12, <2>1 DEF SaveFailed, TypeOK
<1>13. CASE CreateAnswered(s)
  <2> DEFINE g == [f EXCEPT !.op = "update", !.repo = selectedRepoId,
                            !.dirt = {}, !.reply = "wait"]
  <2>1. g \in Flights
    BY <1>1 DEF Flights, Ops, TypeOK
  <2>2. flight' \in [Slots -> Flights]
    BY <1>1, <1>13, <2>1 DEF CreateAnswered
  <2> QED
    BY <1>2, <1>13, <2>2 DEF CreateAnswered, TypeOK
<1>14. CASE UpdateAnswered(s)
  <2>1. tasks' \in Pages
    BY <1>2, <1>14, LoadingShape DEF UpdateAnswered
  <2>2. /\ Detached(flight, Tasks) \in [Slots -> Flights]
        /\ NewForm(Detached(flight, Tasks)) \in [Slots -> Flights]
    BY <1>1, DetachedShape, NewFormShape
  <2>3. LoadFlight(selectedRepoId, FALSE) \in Flights
    BY LoadFlightShape DEF TypeOK
  <2>4. flight' \in [Slots -> Flights]
    BY <1>14, <2>2, <2>3 DEF UpdateAnswered
  <2> QED
    BY <1>14, <2>1, <2>4 DEF UpdateAnswered, TypeOK
<1>15. CASE CreateFailed(s)
  <2>1. [tasks EXCEPT !.stale = TRUE] \in Pages
    BY <1>1 DEF Pages
  <2> QED
    BY <1>3, <1>15, <2>1 DEF CreateFailed, TypeOK
<1> QED
  BY <1>4, <1>5, <1>6, <1>7, <1>8, <1>9, <1>10, <1>11, <1>12, <1>13, <1>14, <1>15 DEF Continue

LEMMA PaneClosedShape ==
  ASSUME tasks \in Pages
  PROVE  /\ PaneClosed \in Pages /\ PaneClosed.editTaskId = NoTask
         /\ PaneClosed.order = tasks.order /\ PaneClosed.token = tasks.token
         /\ PaneClosed.moving = tasks.moving /\ PaneClosed.loading = tasks.loading
         /\ PaneClosed.publishing = tasks.publishing
         /\ PaneClosed.savingEdit = tasks.savingEdit
BY DEF PaneClosed, Pages

\* loadTasks up to its first await.
LEMMA LoadTasksShape ==
  ASSUME TypeOK, NEW s \in Slots, NEW page \in Pages, NEW preserve \in BOOLEAN,
         LoadTasks(s, page, preserve)
  PROVE  /\ tasks' \in Pages /\ flight' \in [Slots -> Flights]
         /\ tasks'.token = s /\ tasks'.order \subseteq page.order
         /\ tasks'.moving = page.moving /\ tasks'.publishing = page.publishing
         /\ tasks'.savingEdit = page.savingEdit
         /\ tasks'.editTaskId = page.editTaskId
         /\ flight[s] = Idle
         /\ flight'[s].op = "index" /\ flight'[s].repo = selectedRepoId
         /\ flight'[s].ids = {}
         /\ \A x \in Slots \ {s} :
              /\ flight'[x].op = flight[x].op
              /\ flight'[x].task = flight[x].task
              /\ flight'[x].repo = flight[x].repo
              /\ flight'[x].ids = flight[x].ids
              /\ flight[x].op # "change" => flight'[x] = flight[x]
<1> DEFINE keep == preserve /\ tasks.loaded
           shown == IF keep THEN flight ELSE Detached(flight, Tasks)
<1>1. keep \in BOOLEAN /\ tasks \in Pages /\ flight \in [Slots -> Flights]
  BY DEF TypeOK, Pages
<1>2. /\ flight[s] = Idle
      /\ tasks' = Loading(page, s, keep)
      /\ flight' = [shown EXCEPT ![s] = LoadFlight(selectedRepoId, keep)]
  BY DEF LoadTasks, Free
<1>3. /\ shown \in [Slots -> Flights]
      /\ \A x \in Slots :
           /\ shown[x].op = flight[x].op /\ shown[x].task = flight[x].task
           /\ shown[x].repo = flight[x].repo /\ shown[x].ids = flight[x].ids
           /\ flight[x].op # "change" => shown[x] = flight[x]
  BY <1>1, DetachedShape
<1>4. /\ LoadFlight(selectedRepoId, keep) \in Flights
      /\ LoadFlight(selectedRepoId, keep).op = "index"
      /\ LoadFlight(selectedRepoId, keep).repo = selectedRepoId
      /\ LoadFlight(selectedRepoId, keep).ids = {}
  BY <1>1, LoadFlightShape DEF TypeOK
<1> HIDE DEF keep, shown
<1> QED
  BY <1>1, <1>2, <1>3, <1>4, LoadingShape

\* The functions the user, the timer and Pip start.
LEMMA TypeStart ==
  ASSUME TypeOK, NEW s \in Slots, Start(s)
  PROVE  TypeOK'
<1> USE DEF pageVars, serverVars
<1>1. tasks \in Pages /\ flight \in [Slots -> Flights]
  BY DEF TypeOK
<1>2. Acts => acts' \in 0 .. MaxActs
  BY ConstantsAssumption DEF Acts, TypeOK
<1>3. \A page \in Pages, preserve \in BOOLEAN :
        LoadTasks(s, page, preserve) /\ taskEdit' \in Edits /\ acts' \in 0 .. MaxActs => TypeOK'
  <2> SUFFICES ASSUME NEW page \in Pages, NEW preserve \in BOOLEAN,
                      LoadTasks(s, page, preserve), taskEdit' \in Edits, acts' \in 0 .. MaxActs
               PROVE  TypeOK'
    OBVIOUS
  <2>1. tasks' \in Pages /\ flight' \in [Slots -> Flights]
    BY LoadTasksShape
  <2> QED
    BY <2>1 DEF LoadTasks, TypeOK
<1>4. CASE Refresh(s)
  BY <1>1, <1>3, <1>4 DEF Refresh, TypeOK
<1>5. CASE Retry(s)
  BY <1>1, <1>2, <1>3, <1>5 DEF Retry, TypeOK
<1>6. CASE AgentReload(s)
  BY <1>1, <1>2, <1>3, <1>6 DEF AgentReload, TypeOK
<1>7. CASE PublishTasks(s)
  <2>1. [tasks EXCEPT !.publishing = TRUE] \in Pages
    BY <1>1 DEF Pages
  <2>2. [Idle EXCEPT !.op = "publish", !.repo = selectedRepoId] \in Flights
    BY NullTypes DEF Flights, Ops, TypeOK
  <2> QED
    BY <1>1, <1>2, <1>7, <2>1, <2>2 DEF PublishTasks, TypeOK
<1>8. CASE SaveTaskEdit(s)
  <2>1. [tasks EXCEPT !.savingEdit = TRUE] \in Pages
    BY <1>1 DEF Pages
  <2>2. [Idle EXCEPT !.op = "save", !.repo = selectedRepoId,
                     !.task = tasks.editTaskId, !.value = taskEdit.form] \in Flights
    BY <1>1, NullTypes DEF Flights, Ops, TypeOK, Pages, Edits
  <2> QED
    BY <1>1, <1>2, <1>8, <2>1, <2>2 DEF SaveTaskEdit, TypeOK
<1>9. ASSUME NEW r \in Repos, SelectRepo(s, r) PROVE TypeOK'
  <2>1. ResetTasks \in Pages
    BY <1>1, NewPageType DEF ResetTasks, Pages
  <2>2. tasks' \in Pages
    BY <1>9, <2>1, LoadingShape DEF SelectRepo
  <2>3. flight' \in [Slots -> Flights]
    BY <1>1, <1>9, DetachedShape, LoadFlightShape DEF SelectRepo
  <2> QED
    BY <1>2, <1>9, <2>2, <2>3, NullTypes DEF SelectRepo, TypeOK
<1>10. ASSUME NEW t \in Tasks, NEW v \in Values, ChangeTask(s, t, v) PROVE TypeOK'
  <2>1. [tasks EXCEPT !.moving = @ \union {t}, !.byId[t] = v] \in Pages
    BY <1>1 DEF Pages, Boards, Optional
  <2>2. [Idle EXCEPT !.op = "change", !.repo = selectedRepoId, !.task = t,
                     !.value = v, !.prev = tasks.byId[t], !.live = TRUE] \in Flights
    BY <1>1, NullTypes DEF Flights, Ops, TypeOK, Pages, Boards, Optional
  <2> QED
    BY <1>1, <1>2, <1>10, <2>1, <2>2 DEF ChangeTask, TypeOK
<1>11. ASSUME NEW v \in Values, CreateTask(s, v) PROVE TypeOK'
  <2>1. [Idle EXCEPT !.op = "create", !.repo = selectedRepoId,
                     !.value = v, !.live = TRUE] \in Flights
    BY NullTypes DEF Flights, Ops, TypeOK, Optional
  <2> QED
    BY <1>1, <1>2, <1>11, <2>1 DEF CreateTask, TypeOK
<1>12. CASE SearchTasks(s)
  BY <1>1, <1>2, <1>3, <1>12, PaneClosedShape, NullTypes DEF SearchTasks
<1> QED
  BY <1>4, <1>5, <1>6, <1>7, <1>8, <1>9, <1>10, <1>11, <1>12 DEF Start

\* Navigation and panes.
LEMMA TypeBrowse == TypeOK /\ Browse => TypeOK'
<1> SUFFICES ASSUME TypeOK, Browse PROVE TypeOK'
  OBVIOUS
<1> USE DEF pageVars, serverVars
<1>1. tasks \in Pages /\ flight \in [Slots -> Flights] /\ NewForm(flight) \in [Slots -> Flights]
  BY NewFormShape DEF TypeOK
<1>2. \A t \in Tasks \union {NoTask}, mode \in {"none", "inspect", "edit"} :
        [tasks EXCEPT !.editTaskId = t, !.paneMode = mode] \in Pages
  BY <1>1 DEF Pages
<1>3. ASSUME NEW v \in {"start", "settings"}, SetView(v) PROVE TypeOK'
  BY <1>1, <1>3, PaneClosedShape, NullTypes DEF SetView, TypeOK
<1>4. ASSUME NEW t \in Tasks, NEW mode \in {"inspect", "edit"}, OpenPane(t, mode) PROVE TypeOK'
  <2>1. Filled(t, tasks.byId[t]) \in Edits
    BY <1>1 DEF Filled, Edits, Pages, Boards
  <2> QED
    BY <1>2, <1>4, <2>1 DEF OpenPane, TypeOK
<1>5. CASE ClosePane
  BY <1>1, <1>5, PaneClosedShape, NullTypes DEF ClosePane, TypeOK
<1>6. ASSUME NEW v \in Values, EditField(v) PROVE TypeOK'
  <2>1. [taskEdit EXCEPT !.form = v] \in Edits
    BY DEF TypeOK, Edits, Optional
  <2> QED
    BY <1>6, <2>1 DEF EditField, TypeOK
<1>7. CASE OpenCreateTask
  <2>1. [tasks EXCEPT !.editTaskId = NoTask] \in Pages
    BY <1>1 DEF Pages
  <2>2. acts' \in 0 .. MaxActs
    BY <1>7, ConstantsAssumption DEF OpenCreateTask, Acts, TypeOK
  <2> QED
    BY <1>1, <1>7, <2>1, <2>2, NullTypes DEF OpenCreateTask, TypeOK
<1>8. CASE CloseCreateTask
  BY <1>1, <1>8 DEF CloseCreateTask, TypeOK
<1>9. CASE AgentFails
  <2>1. [tasks EXCEPT !.stale = TRUE] \in Pages
    BY <1>1 DEF Pages
  <2>2. acts' \in 0 .. MaxActs
    BY <1>9, ConstantsAssumption DEF AgentFails, Acts, TypeOK
  <2> QED
    BY <1>1, <1>9, <2>1, <2>2 DEF AgentFails, TypeOK
<1> QED
  BY <1>3, <1>4, <1>5, <1>6, <1>7, <1>8, <1>9 DEF Browse

-----------------------------------------------------------------------------
(* What a step on one slot leaves of the invariant.                        *)

\* The other slots are as they were, but for cards and forms that are gone.
Keeps(s) ==
  \A x \in Slots \ {s} :
    /\ flight'[x].op = flight[x].op
    /\ flight'[x].task = flight[x].task
    /\ flight'[x].repo = flight[x].repo
    /\ flight'[x].ids = flight[x].ids
    /\ flight[x].op # "change" => flight'[x] = flight[x]

LEMMA HomeKept ==
  ASSUME ChangesReachHome, NEW s \in Slots, Keeps(s),
         flight'[s].op \notin {"change", "save"}
  PROVE  ChangesReachHome'
BY DEF ChangesReachHome, Keeps

LEMMA TaskKept ==
  ASSUME TaskKnown, NEW s \in Slots, Keeps(s),
         flight'[s].op \in {"change", "save", "fetch", "update", "create"} =>
           flight'[s].task # NoTask
  PROVE  TaskKnown'
BY DEF TaskKnown, Keeps

LEMMA SelectionKept ==
  ASSUME SelectionInv, NEW s \in Slots, Keeps(s),
         flight'[s].op \notin {"index", "details"},
         selectedRepoId' = selectedRepoId, tasks'.token = tasks.token,
         tasks'.order \subseteq tasks.order, tasks'.editTaskId = tasks.editTaskId
  PROVE  SelectionInv'
BY DEF SelectionInv, Keeps, In

\* No flag appears, and those whose function ended or changed its request are
\* cleared or still have one.
LEMMA StuckKept ==
  ASSUME TypeOK, NothingStuck, NEW s \in Slots, Keeps(s),
         tasks'.loading => /\ tasks.loading /\ tasks'.token = tasks.token
                           /\ tasks.token = s => flight'[s].op \in {"index", "details"},
         tasks'.publishing => /\ tasks.publishing
                              /\ flight[s].op # "publish",
         tasks'.savingEdit => /\ tasks.savingEdit
                              /\ flight[s].op \in {"save", "fetch"} =>
                                 flight'[s].op \in {"save", "fetch"},
         tasks'.moving \subseteq tasks.moving,
         flight[s].op = "change" => flight[s].task \notin tasks'.moving,
         creating' => /\ creating
                      /\ flight[s].op \in {"create", "update"} /\ flight[s].live =>
                         flight'[s].op \in {"create", "update"} /\ flight'[s].live
  PROVE  NothingStuck'
<1>1. tasks'.loading => tasks'.token \in Slots /\ flight'[tasks'.token].op \in {"index", "details"}
  BY DEF NothingStuck, Keeps
<1>2. tasks'.publishing => \E x \in Slots : flight'[x].op = "publish"
  BY DEF NothingStuck, Keeps
<1>3. tasks'.savingEdit => \E x \in Slots : flight'[x].op \in {"save", "fetch"}
  BY DEF NothingStuck, Keeps
<1>4. \A t \in tasks'.moving : \E x \in Slots : flight'[x].op = "change" /\ flight'[x].task = t
  BY DEF NothingStuck, Keeps
<1>5. creating' => \E x \in Slots : flight'[x].op \in {"create", "update"} /\ flight'[x].live
  BY DEF NothingStuck, Keeps
<1> QED
  BY <1>1, <1>2, <1>3, <1>4, <1>5 DEF NothingStuck

\* A function ends: nothing of the selection depends on it.
LEMMA EndedKeeps ==
  ASSUME TypeOK, TaskKnown, SelectionInv, ChangesReachHome, NEW s \in Slots,
         Keeps(s), flight'[s] = Idle,
         selectedRepoId' = selectedRepoId, tasks'.token = tasks.token,
         tasks'.order = tasks.order, tasks'.editTaskId = tasks.editTaskId
  PROVE  TaskKnown' /\ SelectionInv' /\ ChangesReachHome'
<1>1. Idle.op = "none"
  BY DEF Idle
<1> QED
  BY <1>1, HomeKept, TaskKept, SelectionKept

-----------------------------------------------------------------------------
(* The rest of the invariant.                                              *)

LEMMA InvInit == Init => TaskKnown /\ NothingStuck /\ SelectionInv /\ ChangesReachHome
<1> SUFFICES ASSUME Init PROVE TaskKnown /\ NothingStuck /\ SelectionInv /\ ChangesReachHome
  OBVIOUS
<1>1. \A s \in Slots : flight[s].op = "none"
  BY DEF Init, Idle
<1>2. /\ ~tasks.loading /\ ~tasks.publishing /\ ~tasks.savingEdit /\ ~creating
      /\ tasks.moving = {} /\ tasks.order = {} /\ tasks.editTaskId = NoTask
  BY DEF Init, NewPage
<1> QED
  BY <1>1, <1>2 DEF TaskKnown, NothingStuck, SelectionInv, ChangesReachHome

LEMMA InvServe ==
  ASSUME IInv, NEW s \in Slots, Serve(s)
  PROVE  TaskKnown' /\ NothingStuck' /\ SelectionInv' /\ ChangesReachHome'
<1> DEFINE f == flight[s]
<1>1. /\ TypeOK /\ TaskKnown /\ NothingStuck /\ SelectionInv /\ ChangesReachHome
      /\ f \in Flights /\ flight \in [Slots -> Flights]
  BY DEF IInv, TypeOK
<1>2. UNCHANGED pageVars
  BY DEF Serve, ServeRead, ServeWrite, ServeCreate, ServePublish, ServeFails
<1>3. \A g \in Flights, reply \in {"ok", "error"} : Replied(s, g, reply) =>
        /\ Keeps(s)
        /\ flight'[s].op = g.op /\ flight'[s].repo = g.repo /\ flight'[s].task = g.task
        /\ flight'[s].ids = g.ids /\ flight'[s].live = g.live /\ flight'[s].reply = reply
  BY <1>1 DEF Replied, Keeps, Flights
<1>4. \A g \in Flights : Outcome(s, g) =>
        /\ Keeps(s)
        /\ flight'[s].op = g.op /\ flight'[s].repo = g.repo /\ flight'[s].task = g.task
        /\ flight'[s].ids = g.ids /\ flight'[s].live = g.live
  <2> SUFFICES ASSUME NEW g \in Flights, Outcome(s, g)
               PROVE  /\ Keeps(s)
                      /\ flight'[s].op = g.op /\ flight'[s].repo = g.repo
                      /\ flight'[s].task = g.task /\ flight'[s].ids = g.ids
                      /\ flight'[s].live = g.live
    OBVIOUS
  <2> DEFINE h == [g EXCEPT !.dirt = dirty' \intersect In(g.repo)]
  <2>1. /\ h \in Flights /\ h.op = g.op /\ h.repo = g.repo /\ h.task = g.task
        /\ h.ids = g.ids /\ h.live = g.live
    BY DEF Flights, In
  <2>2. Replied(s, h, "ok") \/ Replied(s, g, "error")
    BY DEF Outcome
  <2> HIDE DEF h
  <2> QED
    BY <1>3, <2>1, <2>2
<1>5. /\ Keeps(s) /\ flight'[s].op = f.op /\ flight'[s].repo = f.repo
      /\ flight'[s].live = f.live
      /\ f.op # "create" => flight'[s].task = f.task
      /\ f.op = "create" /\ flight'[s].reply = "ok" => flight'[s].task # NoTask
      /\ flight'[s].ids = f.ids \/ flight'[s].ids \subseteq In(f.repo)
  <2>1. CASE ServeRead(s)
    <3> DEFINE read == [t \in Tasks |-> IF t \in f.page THEN server[t] ELSE f.next[t]]
               full == ahead \intersect In(f.repo)
               Listed(far) == [f EXCEPT !.ids = Stored(f.repo),
                                        !.dirt = dirty \intersect In(f.repo), !.far = far]
               filled == [f EXCEPT !.next = read]
    <3>1. \A far \in {full, {}} :
            /\ Listed(far) \in Flights /\ Listed(far).op = f.op /\ Listed(far).repo = f.repo
            /\ Listed(far).task = f.task /\ Listed(far).live = f.live
            /\ Listed(far).ids \subseteq In(f.repo)
      BY <1>1 DEF Flights, Stored, In
    <3>2. read \in Boards
      BY <1>1 DEF TypeOK, Flights, Boards
    <3>3. /\ filled \in Flights /\ filled.op = f.op /\ filled.repo = f.repo
          /\ filled.task = f.task /\ filled.live = f.live /\ filled.ids = f.ids
      BY <1>1, <3>2 DEF Flights
    <3>4. \/ \E far \in {full, {}} : Replied(s, Listed(far), "ok")
          \/ Replied(s, filled, "ok")
      BY <2>1 DEF ServeRead
    <3>5. f.op # "create"
      BY <2>1 DEF ServeRead
    <3> HIDE DEF full, Listed, filled
    <3> QED
      BY <1>3, <3>1, <3>3, <3>4, <3>5
  <2>2. CASE ServeWrite(s)
    BY <1>1, <1>4, <2>2 DEF ServeWrite
  <2>3. CASE ServeCreate(s)
    <3>1. PICK t \in In(f.repo) : Outcome(s, [f EXCEPT !.task = t])
      BY <2>3 DEF ServeCreate, NewIds
    <3>2. t \in Tasks /\ t # NoTask
      BY ConstantsAssumption DEF In
    <3> DEFINE g == [f EXCEPT !.task = t]
    <3>3. /\ g \in Flights /\ g.op = f.op /\ g.repo = f.repo /\ g.live = f.live
          /\ g.task = t /\ g.ids = f.ids
      BY <1>1, <3>2 DEF Flights
    <3>4. f.op = "create"
      BY <2>3 DEF ServeCreate
    <3> HIDE DEF g
    <3> QED
      BY <1>4, <3>1, <3>2, <3>3, <3>4 DEF g
  <2>4. CASE ServePublish(s)
    <3>1. f.op = "publish" /\ (Outcome(s, f) \/ Replied(s, f, "error"))
      BY <2>4 DEF ServePublish
    <3> QED
      BY <1>1, <1>3, <1>4, <3>1
  <2>5. CASE ServeFails(s)
    BY <1>1, <1>3, <2>5 DEF ServeFails
  <2> QED
    BY <2>1, <2>2, <2>3, <2>4, <2>5 DEF Serve
<1>6. NothingStuck'
  <2>1. tasks'.loading => tasks'.token \in Slots /\ flight'[tasks'.token].op \in {"index", "details"}
    BY <1>1, <1>2, <1>5 DEF NothingStuck, Keeps, pageVars
  <2>2. tasks'.publishing => \E x \in Slots : flight'[x].op = "publish"
    BY <1>1, <1>2, <1>5 DEF NothingStuck, Keeps, pageVars
  <2>3. tasks'.savingEdit => \E x \in Slots : flight'[x].op \in {"save", "fetch"}
    BY <1>1, <1>2, <1>5 DEF NothingStuck, Keeps, pageVars
  <2>4. \A t \in tasks'.moving : \E x \in Slots : flight'[x].op = "change" /\ flight'[x].task = t
    BY <1>1, <1>2, <1>5 DEF NothingStuck, Keeps, pageVars
  <2>5. creating' => \E x \in Slots : flight'[x].op \in {"create", "update"} /\ flight'[x].live
    BY <1>1, <1>2, <1>5 DEF NothingStuck, Keeps, pageVars
  <2> QED
    BY <2>1, <2>2, <2>3, <2>4, <2>5 DEF NothingStuck
<1>7. SelectionInv'
  <2>1. /\ selectedRepoId' # NoRepo => tasks'.order \subseteq In(selectedRepoId')
        /\ tasks'.editTaskId # NoTask => Home[tasks'.editTaskId] = selectedRepoId'
    BY <1>1, <1>2 DEF SelectionInv, pageVars, In
  <2>2. ASSUME NEW x \in Slots, flight'[x].op \in {"index", "details"}
        PROVE  /\ flight'[x].ids \subseteq In(flight'[x].repo)
               /\ tasks'.token = x /\ selectedRepoId' # NoRepo => flight'[x].repo = selectedRepoId'
    BY <1>1, <1>2, <1>5, <2>2 DEF SelectionInv, Keeps, pageVars
  <2> QED
    BY <2>1, <2>2 DEF SelectionInv, In
<1>8. TaskKnown' /\ ChangesReachHome'
  BY <1>1, <1>5 DEF TaskKnown, ChangesReachHome, Keeps
<1> QED
  BY <1>6, <1>7, <1>8

\* A load asks for its next page or ends; what it shows is of its repository,
\* which is the selected one as long as it holds the token.
LEMMA InvNextPage ==
  ASSUME IInv, NEW s \in Slots, flight[s].op \in {"index", "details"}, tasks.token = s,
         NEW page \in Pages, NEW todo \in SUBSET Tasks, NextPage(s, page, flight[s], todo),
         page.token = tasks.token, page.moving = tasks.moving,
         page.publishing = tasks.publishing, page.savingEdit = tasks.savingEdit,
         page.editTaskId = tasks.editTaskId,
         page.order \in {tasks.order, flight[s].ids},
         UNCHANGED <<selectedRepoId, creating>>
  PROVE  TaskKnown' /\ NothingStuck' /\ SelectionInv' /\ ChangesReachHome'
<1> DEFINE f == flight[s]
<1>1. /\ TypeOK /\ TaskKnown /\ NothingStuck /\ SelectionInv /\ ChangesReachHome /\ f \in Flights
  BY DEF IInv, TypeOK
<1>2. /\ tasks'.token = s /\ tasks'.moving = tasks.moving
      /\ tasks'.publishing = tasks.publishing /\ tasks'.savingEdit = tasks.savingEdit
      /\ tasks'.editTaskId = tasks.editTaskId
      /\ tasks'.order \in {tasks.order, f.ids}
      /\ Keeps(s)
      /\ \/ tasks'.loading = FALSE /\ flight'[s] = Idle
         \/ flight'[s].op = "details" /\ flight'[s].repo = f.repo /\ flight'[s].ids = f.ids
  BY <1>1, NextPageShape, ZenonT(30) DEF Keeps
<1>3. Idle.op = "none"
  BY DEF Idle
<1>4. f.ids \subseteq In(f.repo) /\ (selectedRepoId # NoRepo => f.repo = selectedRepoId)
  BY <1>1 DEF SelectionInv
<1>5. TaskKnown' /\ ChangesReachHome'
  BY <1>1, <1>2, <1>3, TaskKept, HomeKept
<1>6. SelectionInv'
  <2>1. /\ selectedRepoId' # NoRepo => tasks'.order \subseteq In(selectedRepoId')
        /\ tasks'.editTaskId # NoTask => Home[tasks'.editTaskId] = selectedRepoId'
    BY <1>1, <1>2, <1>4 DEF SelectionInv, In
  <2>2. ASSUME NEW x \in Slots, flight'[x].op \in {"index", "details"}
        PROVE  /\ flight'[x].ids \subseteq In(flight'[x].repo)
               /\ tasks'.token = x /\ selectedRepoId' # NoRepo => flight'[x].repo = selectedRepoId'
    BY <1>1, <1>2, <1>3, <1>4, <2>2 DEF SelectionInv, Keeps
  <2> QED
    BY <2>1, <2>2 DEF SelectionInv, In
<1>7. NothingStuck'
  <2>1. tasks'.loading => tasks'.token \in Slots /\ flight'[tasks'.token].op \in {"index", "details"}
    BY <1>2
  <2>2. tasks'.publishing => \E x \in Slots : flight'[x].op = "publish"
    BY <1>1, <1>2 DEF NothingStuck, Keeps
  <2>3. tasks'.savingEdit => \E x \in Slots : flight'[x].op \in {"save", "fetch"}
    BY <1>1, <1>2 DEF NothingStuck, Keeps
  <2>4. \A t \in tasks'.moving : \E x \in Slots : flight'[x].op = "change" /\ flight'[x].task = t
    BY <1>1, <1>2 DEF NothingStuck, Keeps
  <2>5. creating' => \E x \in Slots : flight'[x].op \in {"create", "update"} /\ flight'[x].live
    BY <1>1, <1>2 DEF NothingStuck, Keeps
  <2> QED
    BY <2>1, <2>2, <2>3, <2>4, <2>5 DEF NothingStuck
<1> QED
  BY <1>5, <1>6, <1>7

\* The other functions wait for what they waited for.
OthersWait(s) ==
  \A x \in Slots \ {s} :
    /\ flight'[x].op = flight[x].op /\ flight'[x].task = flight[x].task
    /\ flight'[x].repo = flight[x].repo /\ flight'[x].ids = flight[x].ids
    /\ flight[x].op = "create" => flight'[x].reply = flight[x].reply

\* The functions that hold the create form still do.
FormsKept(s) ==
  \A x \in Slots \ {s} :
    flight[x].op \in {"create", "update"} => flight'[x].live = flight[x].live

\* What the page shows is of the selected repository.
ShownSelected ==
  /\ selectedRepoId # NoRepo => tasks.order \subseteq In(selectedRepoId)
  /\ tasks.editTaskId # NoTask => Home[tasks.editTaskId] = selectedRepoId

LEMMA ShownKept ==
  ASSUME SelectionInv, selectedRepoId' = selectedRepoId,
         tasks'.order \subseteq tasks.order, tasks'.editTaskId \in {tasks.editTaskId, NoTask}
  PROVE  ShownSelected'
BY DEF SelectionInv, ShownSelected, In

LEMMA KeepsWaits ==
  ASSUME NEW s \in Slots, Keeps(s)
  PROVE  OthersWait(s) /\ FormsKept(s)
BY DEF Keeps, OthersWait, FormsKept

\* A load takes a free slot, or goes on in the function that created a task:
\* it asks the selected repository and takes the token.
LEMMA LoadStarts ==
  ASSUME IInv, NEW s \in Slots, flight[s].op \in {"none", "update"},
         OthersWait(s),
         flight'[s].op = "index", flight'[s].repo = selectedRepoId', flight'[s].ids = {},
         tasks'.token = s,
         tasks'.publishing => tasks.publishing, tasks'.savingEdit => tasks.savingEdit,
         tasks'.moving \subseteq tasks.moving,
         creating' => creating /\ flight[s].op = "none" /\ FormsKept(s),
         ShownSelected'
  PROVE  TaskKnown' /\ NothingStuck' /\ SelectionInv' /\ ChangesReachHome'
<1>1. TypeOK /\ TaskKnown /\ NothingStuck /\ SelectionInv /\ ChangesReachHome
  BY DEF IInv
<1>2. NothingStuck'
  <2>1. tasks'.loading => tasks'.token \in Slots /\ flight'[tasks'.token].op \in {"index", "details"}
    OBVIOUS
  <2>2. tasks'.publishing => \E x \in Slots : flight'[x].op = "publish"
    BY <1>1 DEF NothingStuck, OthersWait, FormsKept
  <2>3. tasks'.savingEdit => \E x \in Slots : flight'[x].op \in {"save", "fetch"}
    BY <1>1 DEF NothingStuck, OthersWait, FormsKept
  <2>4. \A t \in tasks'.moving : \E x \in Slots : flight'[x].op = "change" /\ flight'[x].task = t
    BY <1>1 DEF NothingStuck, OthersWait, FormsKept
  <2>5. creating' => \E x \in Slots : flight'[x].op \in {"create", "update"} /\ flight'[x].live
    BY <1>1 DEF NothingStuck, OthersWait, FormsKept
  <2> QED
    BY <2>1, <2>2, <2>3, <2>4, <2>5 DEF NothingStuck
<1>3. SelectionInv'
  <2>1. /\ selectedRepoId' # NoRepo => tasks'.order \subseteq In(selectedRepoId')
        /\ tasks'.editTaskId # NoTask => Home[tasks'.editTaskId] = selectedRepoId'
    BY DEF ShownSelected, In
  <2>2. ASSUME NEW x \in Slots, flight'[x].op \in {"index", "details"}
        PROVE  /\ flight'[x].ids \subseteq In(flight'[x].repo)
               /\ tasks'.token = x /\ selectedRepoId' # NoRepo => flight'[x].repo = selectedRepoId'
    BY <1>1, <2>2 DEF SelectionInv, OthersWait
  <2> QED
    BY <2>1, <2>2 DEF SelectionInv, In
<1>4. TaskKnown' /\ ChangesReachHome'
  BY <1>1 DEF TaskKnown, ChangesReachHome, OthersWait
<1> QED
  BY <1>2, <1>3, <1>4

LEMMA InvContinue ==
  ASSUME IInv, NEW s \in Slots, Continue(s)
  PROVE  TaskKnown' /\ NothingStuck' /\ SelectionInv' /\ ChangesReachHome'
<1> DEFINE f == flight[s]
<1> USE DEF pageVars, serverVars
<1>1. /\ TypeOK /\ TaskKnown /\ NothingStuck /\ SelectionInv /\ ChangesReachHome
      /\ f \in Flights /\ tasks \in Pages /\ flight \in [Slots -> Flights]
  BY DEF IInv, TypeOK
<1>2. Idle.op = "none"
  BY DEF Idle
<1>3. Answer(s) => Keeps(s) /\ flight'[s] = Idle
  BY <1>1 DEF Answer, Keeps
<1>4. CASE IndexAnswered(s)
  <2> DEFINE listed == [ApplyDbstatus(tasks, f) EXCEPT
                          !.remote = f.far, !.order = IF f.keep THEN @ ELSE f.ids]
  <2>1. /\ listed \in Pages /\ f.ids \in SUBSET Tasks
        /\ listed.token = tasks.token /\ listed.moving = tasks.moving
        /\ listed.publishing = tasks.publishing /\ listed.savingEdit = tasks.savingEdit
        /\ listed.editTaskId = tasks.editTaskId /\ listed.order \in {tasks.order, f.ids}
    BY <1>1 DEF ApplyDbstatus, Pages, Flights
  <2>2. NextPage(s, listed, f, f.ids)
    BY <1>4 DEF IndexAnswered
  <2> HIDE DEF listed
  <2> QED
    BY <1>4, <2>1, <2>2, InvNextPage DEF IndexAnswered
<1>5. CASE DetailsAnswered(s)
  <2> DEFINE shown == [t \in Tasks |-> IF t \in f.page /\ ~f.keep
                                      THEN f.next[t] ELSE tasks.byId[t]]
             page == [tasks EXCEPT !.byId = shown]
  <2>1. shown \in Boards /\ f.todo \ f.page \in SUBSET Tasks
    BY <1>1 DEF Flights, Pages, Boards
  <2>2. /\ page \in Pages
        /\ page.token = tasks.token /\ page.moving = tasks.moving
        /\ page.publishing = tasks.publishing /\ page.savingEdit = tasks.savingEdit
        /\ page.editTaskId = tasks.editTaskId /\ page.order = tasks.order
    BY <1>1, <2>1 DEF Pages
  <2>3. NextPage(s, page, f, f.todo \ f.page)
    BY <1>5 DEF DetailsAnswered
  <2> HIDE DEF page
  <2> QED
    BY <1>5, <2>1, <2>2, <2>3, InvNextPage DEF DetailsAnswered
<1>6. CASE LoadFailed(s)
  <2>1. /\ Keeps(s) /\ flight'[s] = Idle /\ UNCHANGED <<selectedRepoId, creating>>
        /\ f.op \in {"index", "details"}
    BY <1>3, <1>6 DEF LoadFailed
  <2>2. /\ tasks'.token = tasks.token /\ tasks'.order = tasks.order
        /\ tasks'.editTaskId = tasks.editTaskId /\ tasks'.loading = FALSE
        /\ tasks'.publishing = tasks.publishing /\ tasks'.savingEdit = tasks.savingEdit
        /\ tasks'.moving = tasks.moving
    BY <1>1, <1>6 DEF LoadFailed, Pages
  <2> QED
    BY <1>1, <2>1, <2>2, EndedKeeps, StuckKept
<1>7. CASE LoadSuperseded(s)
  <2>1. /\ Keeps(s) /\ flight'[s] = Idle /\ UNCHANGED <<selectedRepoId, creating, tasks>>
        /\ f.op \in {"index", "details"} /\ tasks.token # s
    BY <1>3, <1>7 DEF LoadSuperseded
  <2> QED
    BY <1>1, <2>1, EndedKeeps, StuckKept
<1>8. CASE ChangeAnswered(s)
  <2>1. /\ Keeps(s) /\ flight'[s] = Idle /\ UNCHANGED <<selectedRepoId, creating>>
        /\ f.op = "change"
    BY <1>3, <1>8 DEF ChangeAnswered
  <2>2. /\ tasks'.token = tasks.token /\ tasks'.order = tasks.order
        /\ tasks'.editTaskId = tasks.editTaskId /\ tasks'.loading = tasks.loading
        /\ tasks'.publishing = tasks.publishing /\ tasks'.savingEdit = tasks.savingEdit
        /\ tasks'.moving = tasks.moving \ {f.task}
    BY <1>1, <1>8 DEF ChangeAnswered, ApplyDbstatus, Pages
  <2>3. tasks.loading => tasks.token # s
    BY <1>1, <2>1 DEF NothingStuck
  <2> QED
    BY <1>1, <2>1, <2>2, <2>3, EndedKeeps, StuckKept
<1>9. CASE PublishAnswered(s)
  <2>1. /\ Keeps(s) /\ flight'[s] = Idle /\ UNCHANGED <<selectedRepoId, creating>>
        /\ f.op = "publish"
    BY <1>3, <1>9 DEF PublishAnswered
  <2>2. /\ tasks'.token = tasks.token /\ tasks'.order = tasks.order
        /\ tasks'.editTaskId = tasks.editTaskId /\ tasks'.loading = tasks.loading
        /\ tasks'.publishing = FALSE /\ tasks'.savingEdit = tasks.savingEdit
        /\ tasks'.moving = tasks.moving
    BY <1>1, <1>9 DEF PublishAnswered, ApplyDbstatus, Pages
  <2>3. tasks.loading => tasks.token # s
    BY <1>1, <2>1 DEF NothingStuck
  <2> QED
    BY <1>1, <2>1, <2>2, <2>3, EndedKeeps, StuckKept
<1>10. CASE SaveAnswered(s)
  <2> DEFINE g == [Idle EXCEPT !.op = "fetch", !.repo = selectedRepoId,
                               !.task = f.task, !.page = {f.task}]
  <2>1. g.op = "fetch" /\ g.task = f.task
    BY DEF Idle
  <2>2. flight' = [flight EXCEPT ![s] = g]
    BY <1>10 DEF SaveAnswered
  <2> HIDE DEF g
  <2>3. /\ Keeps(s) /\ flight'[s].op = "fetch" /\ flight'[s].task = f.task
        /\ UNCHANGED <<selectedRepoId, creating>> /\ f.op = "save"
    BY <1>1, <1>10, <2>1, <2>2 DEF SaveAnswered, Keeps
  <2>4. /\ tasks'.token = tasks.token /\ tasks'.order = tasks.order
        /\ tasks'.editTaskId = tasks.editTaskId /\ tasks'.loading = tasks.loading
        /\ tasks'.publishing = tasks.publishing /\ tasks'.savingEdit = tasks.savingEdit
        /\ tasks'.moving = tasks.moving
    BY <1>1, <1>10 DEF SaveAnswered, ApplyDbstatus, Pages
  <2>5. (tasks.loading => tasks.token # s) /\ f.task # NoTask
    BY <1>1, <2>3 DEF NothingStuck, TaskKnown
  <2>6. NothingStuck'
    BY <1>1, <2>3, <2>4, <2>5, StuckKept
  <2>7. TaskKnown' /\ SelectionInv' /\ ChangesReachHome'
    BY <1>1, <2>3, <2>4, <2>5, TaskKept, SelectionKept, HomeKept
  <2> QED
    BY <2>6, <2>7
<1>11. CASE FetchAnswered(s)
  <2>1. /\ Keeps(s) /\ flight'[s] = Idle /\ UNCHANGED <<selectedRepoId, creating>>
        /\ f.op = "fetch"
    BY <1>1, <1>11, DetachedShape DEF FetchAnswered, Keeps
  <2>2. /\ tasks'.token = tasks.token /\ tasks'.order = tasks.order
        /\ tasks'.editTaskId = tasks.editTaskId /\ tasks'.loading = tasks.loading
        /\ tasks'.publishing = tasks.publishing /\ tasks'.savingEdit = FALSE
        /\ tasks'.moving = tasks.moving
    BY <1>1, <1>11 DEF FetchAnswered, Pages
  <2>3. tasks.loading => tasks.token # s
    BY <1>1, <2>1 DEF NothingStuck
  <2> QED
    BY <1>1, <2>1, <2>2, <2>3, EndedKeeps, StuckKept
<1>12. CASE SaveFailed(s)
  <2>1. /\ Keeps(s) /\ flight'[s] = Idle /\ UNCHANGED <<selectedRepoId, creating>>
        /\ f.op \in {"save", "fetch"}
    BY <1>3, <1>12 DEF SaveFailed
  <2>2. /\ tasks'.token = tasks.token /\ tasks'.order = tasks.order
        /\ tasks'.editTaskId = tasks.editTaskId /\ tasks'.loading = tasks.loading
        /\ tasks'.publishing = tasks.publishing /\ tasks'.savingEdit = FALSE
        /\ tasks'.moving = tasks.moving
    BY <1>1, <1>12 DEF SaveFailed, Pages
  <2>3. tasks.loading => tasks.token # s
    BY <1>1, <2>1 DEF NothingStuck
  <2> QED
    BY <1>1, <2>1, <2>2, <2>3, EndedKeeps, StuckKept
<1>13. CASE CreateAnswered(s)
  <2> DEFINE g == [f EXCEPT !.op = "update", !.repo = selectedRepoId,
                            !.dirt = {}, !.reply = "wait"]
  <2>1. g.op = "update" /\ g.task = f.task /\ g.live = f.live
    BY <1>1 DEF Flights
  <2>2. flight' = [flight EXCEPT ![s] = g]
    BY <1>13 DEF CreateAnswered
  <2> HIDE DEF g
  <2>3. /\ Keeps(s) /\ flight'[s].op = "update" /\ flight'[s].task = f.task
        /\ flight'[s].live = f.live
        /\ UNCHANGED <<selectedRepoId, creating>> /\ f.op = "create" /\ f.reply = "ok"
    BY <1>1, <1>13, <2>1, <2>2 DEF CreateAnswered, Keeps
  <2>4. /\ tasks'.token = tasks.token /\ tasks'.order = tasks.order
        /\ tasks'.editTaskId = tasks.editTaskId /\ tasks'.loading = tasks.loading
        /\ tasks'.publishing = tasks.publishing /\ tasks'.savingEdit = tasks.savingEdit
        /\ tasks'.moving = tasks.moving
    BY <1>1, <1>13 DEF CreateAnswered, ApplyDbstatus, Pages
  <2>5. (tasks.loading => tasks.token # s) /\ f.task # NoTask
    BY <1>1, <2>3 DEF NothingStuck, TaskKnown
  <2>6. NothingStuck'
    BY <1>1, <2>3, <2>4, <2>5, StuckKept
  <2>7. TaskKnown' /\ SelectionInv' /\ ChangesReachHome'
    BY <1>1, <2>3, <2>4, <2>5, TaskKept, SelectionKept, HomeKept
  <2> QED
    BY <2>6, <2>7
<1>14. CASE CreateFailed(s)
  <2>1. /\ Keeps(s) /\ flight'[s] = Idle /\ selectedRepoId' = selectedRepoId
        /\ f.op \in {"create", "update"}
        /\ creating' = IF f.live THEN FALSE ELSE creating
    BY <1>3, <1>14 DEF CreateFailed
  <2>2. /\ tasks'.token = tasks.token /\ tasks'.order = tasks.order
        /\ tasks'.editTaskId = tasks.editTaskId /\ tasks'.loading = tasks.loading
        /\ tasks'.publishing = tasks.publishing /\ tasks'.savingEdit = tasks.savingEdit
        /\ tasks'.moving = tasks.moving
    BY <1>1, <1>14 DEF CreateFailed, Pages
  <2>3. tasks.loading => tasks.token # s
    BY <1>1, <2>1 DEF NothingStuck
  <2> QED
    BY <1>1, <2>1, <2>2, <2>3, EndedKeeps, StuckKept
<1>15. CASE UpdateAnswered(s)
  <2> DEFINE shown == NewForm(Detached(flight, Tasks))
             page == ApplyDbstatus(tasks, f)
  <2>1. Detached(flight, Tasks) \in [Slots -> Flights] /\ shown \in [Slots -> Flights]
    BY <1>1, DetachedShape, NewFormShape
  <2>2. \A x \in Slots : /\ shown[x].op = flight[x].op /\ shown[x].task = flight[x].task
                         /\ shown[x].repo = flight[x].repo /\ shown[x].ids = flight[x].ids
                         /\ flight[x].op = "create" => shown[x].reply = flight[x].reply
    <3> DEFINE cards == Detached(flight, Tasks)
    <3>1. \A x \in Slots : /\ cards[x].op = flight[x].op /\ cards[x].task = flight[x].task
                           /\ cards[x].repo = flight[x].repo /\ cards[x].ids = flight[x].ids
                           /\ flight[x].op = "create" => cards[x] = flight[x]
      BY <1>1, DetachedShape
    <3>2. \A x \in Slots : /\ shown[x].op = cards[x].op /\ shown[x].task = cards[x].task
                           /\ shown[x].repo = cards[x].repo /\ shown[x].ids = cards[x].ids
                           /\ shown[x].reply = cards[x].reply
      BY <2>1, NewFormShape
    <3> HIDE DEF cards, shown
    <3> QED
      BY <3>1, <3>2
  <2>3. /\ page \in Pages /\ page.order = tasks.order /\ page.moving = tasks.moving
        /\ page.publishing = tasks.publishing /\ page.savingEdit = tasks.savingEdit
        /\ page.editTaskId = tasks.editTaskId
    BY <1>1 DEF ApplyDbstatus, Pages, Flights
  <2>4. /\ tasks' = Loading(page, s, FALSE) /\ ~creating' /\ selectedRepoId' = selectedRepoId
        /\ flight' = [shown EXCEPT ![s] = LoadFlight(selectedRepoId, FALSE)]
        /\ f.op = "update"
    BY <1>15 DEF UpdateAnswered
  <2>5. /\ LoadFlight(selectedRepoId, FALSE).op = "index"
        /\ LoadFlight(selectedRepoId, FALSE).repo = selectedRepoId
        /\ LoadFlight(selectedRepoId, FALSE).ids = {}
    BY <1>1, LoadFlightShape DEF TypeOK
  <2> HIDE DEF shown, page
  <2>6. /\ tasks'.token = s /\ tasks'.order \subseteq tasks.order /\ tasks'.moving = tasks.moving
        /\ tasks'.publishing = tasks.publishing /\ tasks'.savingEdit = tasks.savingEdit
        /\ tasks'.editTaskId = tasks.editTaskId
    BY <2>3, <2>4, LoadingShape
  <2>7. flight'[s] = LoadFlight(selectedRepoId, FALSE) /\ \A x \in Slots \ {s} : flight'[x] = shown[x]
    BY <2>1, <2>4
  <2>8. OthersWait(s)
    BY <2>2, <2>7 DEF OthersWait
  <2>9. flight'[s].op = "index" /\ flight'[s].repo = selectedRepoId' /\ flight'[s].ids = {}
    BY <2>4, <2>5, <2>7
  <2>10. ShownSelected'
    BY <1>1, <2>4, <2>6, ShownKept
  <2> QED
    BY <2>4, <2>6, <2>8, <2>9, <2>10, LoadStarts
<1> QED
  BY <1>4, <1>5, <1>6, <1>7, <1>8, <1>9, <1>10, <1>11, <1>12, <1>13, <1>14, <1>15 DEF Continue

\* Another function takes a free slot: the flag it sets has it for an owner, and
\* the task it names is of the repository it sends.
LEMMA CallStarts ==
  ASSUME IInv, NEW s \in Slots, NEW call \in Flights,
         flight[s].op = "none", flight' = [flight EXCEPT ![s] = call],
         call.op \in {"change", "publish", "save", "create"}, call.live \/ call.op # "create",
         call.op \in {"change", "save"} =>
           call.task # NoTask /\ Home[call.task] = call.repo,
         call.op = "create" => call.reply = "wait",
         selectedRepoId' = selectedRepoId,
         tasks'.token = tasks.token, tasks'.order = tasks.order,
         tasks'.editTaskId = tasks.editTaskId, tasks'.loading = tasks.loading,
         tasks'.publishing => tasks.publishing \/ call.op = "publish",
         tasks'.savingEdit => tasks.savingEdit \/ call.op = "save",
         \A t \in tasks'.moving : t \in tasks.moving \/ (call.op = "change" /\ call.task = t),
         creating' => creating \/ call.op = "create"
  PROVE  TaskKnown' /\ NothingStuck' /\ SelectionInv' /\ ChangesReachHome'
<1>1. /\ TypeOK /\ TaskKnown /\ NothingStuck /\ SelectionInv /\ ChangesReachHome
      /\ flight \in [Slots -> Flights]
  BY DEF IInv, TypeOK
<1>2. Keeps(s) /\ flight'[s] = call
  BY <1>1 DEF Keeps
<1>3. NothingStuck'
  <2>1. tasks'.loading => tasks'.token \in Slots /\ flight'[tasks'.token].op \in {"index", "details"}
    BY <1>1, <1>2 DEF NothingStuck, Keeps
  <2>2. tasks'.publishing => \E x \in Slots : flight'[x].op = "publish"
    BY <1>1, <1>2 DEF NothingStuck, Keeps
  <2>3. tasks'.savingEdit => \E x \in Slots : flight'[x].op \in {"save", "fetch"}
    BY <1>1, <1>2 DEF NothingStuck, Keeps
  <2>4. \A t \in tasks'.moving : \E x \in Slots : flight'[x].op = "change" /\ flight'[x].task = t
    BY <1>1, <1>2 DEF NothingStuck, Keeps
  <2>5. creating' => \E x \in Slots : flight'[x].op \in {"create", "update"} /\ flight'[x].live
    BY <1>1, <1>2 DEF NothingStuck, Keeps
  <2> QED
    BY <2>1, <2>2, <2>3, <2>4, <2>5 DEF NothingStuck
<1>4. ChangesReachHome'
  BY <1>1, <1>2 DEF ChangesReachHome, Keeps
<1>5. TaskKnown'
  BY <1>1, <1>2 DEF TaskKnown, Keeps
<1> QED
  BY <1>1, <1>2, <1>3, <1>4, <1>5, SelectionKept

LEMMA InvStart ==
  ASSUME IInv, NEW s \in Slots, Start(s)
  PROVE  TaskKnown' /\ NothingStuck' /\ SelectionInv' /\ ChangesReachHome'
<1> USE DEF pageVars, serverVars
<1>1. /\ TypeOK /\ SelectionInv
      /\ tasks \in Pages /\ flight \in [Slots -> Flights]
  BY DEF IInv, TypeOK
<1>2. Free(s) => flight[s] = Idle /\ flight[s].op = "none"
  BY DEF Free, Idle
<1>3. ASSUME NEW page \in {tasks, PaneClosed}, NEW preserve \in BOOLEAN,
             LoadTasks(s, page, preserve)
      PROVE  TaskKnown' /\ NothingStuck' /\ SelectionInv' /\ ChangesReachHome'
  <2>1. selectedRepoId' = selectedRepoId /\ creating' = creating /\ Free(s)
    BY <1>3 DEF LoadTasks
  <2>2. /\ tasks'.token = s /\ tasks'.order \subseteq tasks.order
        /\ tasks'.moving = tasks.moving /\ tasks'.publishing = tasks.publishing
        /\ tasks'.savingEdit = tasks.savingEdit
        /\ tasks'.editTaskId \in {tasks.editTaskId, NoTask}
        /\ flight'[s].op = "index" /\ flight'[s].repo = selectedRepoId'
        /\ flight'[s].ids = {} /\ Keeps(s)
    <3>1. /\ page \in Pages /\ page.editTaskId \in {tasks.editTaskId, NoTask}
          /\ page.order = tasks.order /\ page.moving = tasks.moving
          /\ page.publishing = tasks.publishing /\ page.savingEdit = tasks.savingEdit
      BY <1>1, PaneClosedShape
    <3> QED
      BY <1>1, <1>3, <2>1, <3>1, LoadTasksShape DEF Keeps
  <2>3. OthersWait(s) /\ FormsKept(s)
    BY <2>2, KeepsWaits
  <2>4. ShownSelected'
    BY <1>1, <2>1, <2>2, ShownKept
  <2> QED
    BY <1>2, <2>1, <2>2, <2>3, <2>4, LoadStarts
<1>4. CASE Refresh(s)
  BY <1>3, <1>4 DEF Refresh
<1>5. CASE Retry(s)
  BY <1>3, <1>5 DEF Retry
<1>6. CASE AgentReload(s)
  BY <1>3, <1>6 DEF AgentReload
<1>7. CASE PublishTasks(s)
  <2> DEFINE call == [Idle EXCEPT !.op = "publish", !.repo = selectedRepoId]
  <2>1. call \in Flights /\ call.op = "publish"
    BY NullTypes, <1>1 DEF Flights, Ops, TypeOK
  <2>2. flight' = [flight EXCEPT ![s] = call] /\ Free(s)
    BY <1>7 DEF PublishTasks
  <2>3. /\ tasks'.token = tasks.token /\ tasks'.order = tasks.order
        /\ tasks'.editTaskId = tasks.editTaskId /\ tasks'.loading = tasks.loading
        /\ tasks'.savingEdit = tasks.savingEdit /\ tasks'.moving = tasks.moving
        /\ UNCHANGED <<selectedRepoId, creating>>
    BY <1>1, <1>7 DEF PublishTasks, Pages
  <2> HIDE DEF call
  <2> QED
    BY <1>2, <2>1, <2>2, <2>3, CallStarts
<1>8. CASE SaveTaskEdit(s)
  <2> DEFINE call == [Idle EXCEPT !.op = "save", !.repo = selectedRepoId,
                                  !.task = tasks.editTaskId, !.value = taskEdit.form]
  <2>1. /\ call \in Flights /\ call.op = "save" /\ call.repo = selectedRepoId
        /\ call.task = tasks.editTaskId
    BY NullTypes, <1>1 DEF Flights, Ops, TypeOK, Pages, Edits
  <2>2. flight' = [flight EXCEPT ![s] = call] /\ Free(s)
    BY <1>8 DEF SaveTaskEdit
  <2>3. /\ tasks'.token = tasks.token /\ tasks'.order = tasks.order
        /\ tasks'.editTaskId = tasks.editTaskId /\ tasks'.loading = tasks.loading
        /\ tasks'.publishing = tasks.publishing /\ tasks'.moving = tasks.moving
        /\ UNCHANGED <<selectedRepoId, creating>>
    BY <1>1, <1>8 DEF SaveTaskEdit, Pages
  <2>4. tasks.editTaskId # NoTask /\ Home[tasks.editTaskId] = selectedRepoId
    BY <1>1, <1>8 DEF SaveTaskEdit, PaneOpen, SelectionInv
  <2> HIDE DEF call
  <2> QED
    BY <1>2, <2>1, <2>2, <2>3, <2>4, CallStarts
<1>9. ASSUME NEW r \in Repos, SelectRepo(s, r)
      PROVE  TaskKnown' /\ NothingStuck' /\ SelectionInv' /\ ChangesReachHome'
  <2>1. /\ ResetTasks \in Pages /\ ResetTasks.order = {} /\ ResetTasks.moving = {}
        /\ ResetTasks.publishing = FALSE /\ ResetTasks.savingEdit = FALSE
        /\ ResetTasks.editTaskId = NoTask
    BY <1>1, NewPageType DEF ResetTasks, NewPage, Pages
  <2>2. /\ tasks' = Loading(ResetTasks, s, FALSE) /\ Free(s)
        /\ selectedRepoId' = r /\ creating' = creating
        /\ flight' = [Detached(flight, Tasks) EXCEPT ![s] = LoadFlight(r, FALSE)]
    BY <1>9 DEF SelectRepo
  <2>3. /\ tasks'.token = s /\ tasks'.order = {} /\ tasks'.moving = {}
        /\ tasks'.publishing = FALSE /\ tasks'.savingEdit = FALSE /\ tasks'.editTaskId = NoTask
    BY <2>1, <2>2, LoadingShape, ZenonT(30)
  <2>4. flight'[s].op = "index" /\ flight'[s].repo = selectedRepoId' /\ flight'[s].ids = {}
    BY <1>1, <2>2, DetachedShape, LoadFlightShape
  <2>5. Keeps(s)
    BY <1>1, <2>2, DetachedShape DEF Keeps
  <2>6. OthersWait(s) /\ FormsKept(s)
    BY <2>5, KeepsWaits
  <2>7. /\ tasks'.publishing => tasks.publishing
        /\ tasks'.savingEdit => tasks.savingEdit
        /\ tasks'.moving \subseteq tasks.moving
        /\ tasks'.token = s
    BY <2>3
  <2>8. flight[s].op = "none" /\ (creating' => creating)
    BY <1>2, <2>2
  <2>9. ShownSelected'
    BY <2>3 DEF ShownSelected
  <2> QED
    BY <2>4, <2>6, <2>7, <2>8, <2>9, LoadStarts
<1>10. ASSUME NEW t \in Tasks, NEW v \in Values, ChangeTask(s, t, v)
       PROVE  TaskKnown' /\ NothingStuck' /\ SelectionInv' /\ ChangesReachHome'
  <2> DEFINE call == [Idle EXCEPT !.op = "change", !.repo = selectedRepoId, !.task = t,
                                  !.value = v, !.prev = tasks.byId[t], !.live = TRUE]
  <2>1. /\ call \in Flights /\ call.op = "change" /\ call.repo = selectedRepoId
        /\ call.task = t
    BY NullTypes, <1>1 DEF Flights, Ops, TypeOK, Pages, Boards, Optional
  <2>2. flight' = [flight EXCEPT ![s] = call] /\ Free(s)
    BY <1>10 DEF ChangeTask
  <2>3. /\ tasks'.token = tasks.token /\ tasks'.order = tasks.order
        /\ tasks'.editTaskId = tasks.editTaskId /\ tasks'.loading = tasks.loading
        /\ tasks'.publishing = tasks.publishing /\ tasks'.savingEdit = tasks.savingEdit
        /\ tasks'.moving = tasks.moving \union {t}
        /\ UNCHANGED <<selectedRepoId, creating>>
    BY <1>1, <1>10 DEF ChangeTask, Pages
  <2>4. t # NoTask /\ Home[t] = selectedRepoId
    BY <1>1, <1>10, ConstantsAssumption DEF ChangeTask, Cards, SelectionInv, In
  <2> HIDE DEF call
  <2> QED
    BY <1>2, <2>1, <2>2, <2>3, <2>4, CallStarts
<1>11. ASSUME NEW v \in Values, CreateTask(s, v)
       PROVE  TaskKnown' /\ NothingStuck' /\ SelectionInv' /\ ChangesReachHome'
  <2> DEFINE call == [Idle EXCEPT !.op = "create", !.repo = selectedRepoId,
                                  !.value = v, !.live = TRUE]
  <2>1. call \in Flights /\ call.op = "create" /\ call.live /\ call.reply = "wait"
    BY NullTypes, <1>1 DEF Flights, Ops, TypeOK, Optional, Idle
  <2>2. /\ flight' = [flight EXCEPT ![s] = call] /\ Free(s)
        /\ UNCHANGED <<selectedRepoId, tasks>>
    BY <1>11 DEF CreateTask
  <2> HIDE DEF call
  <2> QED
    BY <1>2, <2>1, <2>2, CallStarts
<1>12. CASE SearchTasks(s)
  BY <1>3, <1>12 DEF SearchTasks
<1> QED
  BY <1>4, <1>5, <1>6, <1>7, <1>8, <1>9, <1>10, <1>11, <1>12 DEF Start

\* Navigation clears what belongs to the selection; a new form has no owner and
\* is not being saved.
LEMMA InvBrowse ==
  ASSUME IInv, Browse
  PROVE  TaskKnown' /\ NothingStuck' /\ SelectionInv' /\ ChangesReachHome'
<1> USE DEF pageVars, serverVars
<1>1. /\ TypeOK /\ TaskKnown /\ NothingStuck /\ SelectionInv /\ ChangesReachHome
      /\ tasks \in Pages /\ flight \in [Slots -> Flights]
  BY DEF IInv, TypeOK
<1>2. ASSUME UNCHANGED <<flight, creating>>,
             tasks'.token = tasks.token, tasks'.order = tasks.order,
             tasks'.loading = tasks.loading, tasks'.publishing = tasks.publishing,
             tasks'.savingEdit = tasks.savingEdit, tasks'.moving = tasks.moving,
             selectedRepoId' \in {selectedRepoId, NoRepo},
             tasks'.editTaskId # NoTask => /\ Home[tasks'.editTaskId] = selectedRepoId
                                           /\ selectedRepoId' = selectedRepoId
      PROVE  TaskKnown' /\ NothingStuck' /\ SelectionInv' /\ ChangesReachHome'
  <2>1. NothingStuck'
    BY <1>1, <1>2 DEF NothingStuck
  <2>2. SelectionInv'
    BY <1>1, <1>2 DEF SelectionInv, In
  <2>3. TaskKnown' /\ ChangesReachHome'
    BY <1>1, <1>2 DEF TaskKnown, ChangesReachHome
  <2> QED
    BY <2>1, <2>2, <2>3
<1>3. ASSUME flight' = NewForm(flight), creating' = FALSE, selectedRepoId' = selectedRepoId,
             tasks'.token = tasks.token, tasks'.order = tasks.order,
             tasks'.loading = tasks.loading, tasks'.publishing = tasks.publishing,
             tasks'.savingEdit = tasks.savingEdit, tasks'.moving = tasks.moving,
             tasks'.editTaskId \in {tasks.editTaskId, NoTask}
      PROVE  TaskKnown' /\ NothingStuck' /\ SelectionInv' /\ ChangesReachHome'
  <2>1. \A x \in Slots :
          /\ flight'[x].op = flight[x].op /\ flight'[x].task = flight[x].task
          /\ flight'[x].repo = flight[x].repo /\ flight'[x].ids = flight[x].ids
          /\ flight'[x].reply = flight[x].reply
    BY <1>1, <1>3, NewFormShape
  <2>2. NothingStuck'
    <3>1. tasks'.loading => /\ tasks'.token \in Slots
                            /\ flight'[tasks'.token].op \in {"index", "details"}
      BY <1>1, <1>3, <2>1 DEF NothingStuck
    <3>2. tasks'.publishing => \E x \in Slots : flight'[x].op = "publish"
      BY <1>1, <1>3, <2>1 DEF NothingStuck
    <3>3. tasks'.savingEdit => \E x \in Slots : flight'[x].op \in {"save", "fetch"}
      BY <1>1, <1>3, <2>1 DEF NothingStuck
    <3>4. \A t \in tasks'.moving :
            \E x \in Slots : flight'[x].op = "change" /\ flight'[x].task = t
      BY <1>1, <1>3, <2>1 DEF NothingStuck
    <3> QED
      BY <1>3, <3>1, <3>2, <3>3, <3>4 DEF NothingStuck
  <2>3. SelectionInv'
    BY <1>1, <1>3, <2>1 DEF SelectionInv, In
  <2>4. TaskKnown' /\ ChangesReachHome'
    BY <1>1, <2>1 DEF TaskKnown, ChangesReachHome
  <2> QED
    BY <2>2, <2>3, <2>4
<1>4. ASSUME NEW v \in {"start", "settings"}, SetView(v)
      PROVE  TaskKnown' /\ NothingStuck' /\ SelectionInv' /\ ChangesReachHome'
  BY <1>1, <1>2, <1>4, PaneClosedShape DEF SetView
<1>5. ASSUME NEW t \in Tasks, NEW mode \in {"inspect", "edit"}, OpenPane(t, mode)
      PROVE  TaskKnown' /\ NothingStuck' /\ SelectionInv' /\ ChangesReachHome'
  <2>1. Home[t] = selectedRepoId
    BY <1>1, <1>5 DEF OpenPane, PaneOpen, Cards, SelectionInv, In
  <2> QED
    BY <1>1, <1>2, <1>5, <2>1 DEF OpenPane, Pages
<1>6. CASE ClosePane
  BY <1>1, <1>2, <1>6, PaneClosedShape DEF ClosePane
<1>7. ASSUME NEW v \in Values, EditField(v)
      PROVE  TaskKnown' /\ NothingStuck' /\ SelectionInv' /\ ChangesReachHome'
  BY <1>1, <1>2, <1>7 DEF EditField, SelectionInv
<1>8. CASE OpenCreateTask
  BY <1>1, <1>3, <1>8 DEF OpenCreateTask, Pages
<1>9. CASE CloseCreateTask
  BY <1>3, <1>9 DEF CloseCreateTask
<1>10. CASE AgentFails
  BY <1>1, <1>2, <1>10 DEF AgentFails, Pages, SelectionInv
<1> QED
  BY <1>4, <1>5, <1>6, <1>7, <1>8, <1>9, <1>10 DEF Browse

LEMMA InvUnchanged ==
  ASSUME IInv, UNCHANGED <<selectedRepoId, tasks, creating, flight>>
  PROVE  TaskKnown' /\ NothingStuck' /\ SelectionInv' /\ ChangesReachHome'
BY DEF IInv, TaskKnown, NothingStuck, SelectionInv, ChangesReachHome, In

LEMMA InvNext == IInv /\ [Next]_vars => IInv'
<1> SUFFICES ASSUME IInv, [Next]_vars PROVE IInv'
  OBVIOUS
<1>1. TypeOK /\ TaskKnown
  BY DEF IInv
<1>2. ASSUME NEW s \in Slots, Serve(s) PROVE IInv'
  BY <1>1, <1>2, TypeServe, InvServe DEF IInv
<1>3. ASSUME NEW s \in Slots, Continue(s) PROVE IInv'
  BY <1>1, <1>3, TypeContinue, InvContinue DEF IInv
<1>4. ASSUME NEW s \in Slots, Start(s) PROVE IInv'
  BY <1>1, <1>4, TypeStart, InvStart DEF IInv
<1>5. CASE Browse
  BY <1>1, <1>5, TypeBrowse, InvBrowse DEF IInv
<1>6. CASE Others
  <2>1. UNCHANGED <<selectedRepoId, tasks, creating, flight>>
    BY <1>6 DEF Others, TeammatePushes, OthersEdit, pageVars
  <2> QED
    BY <1>1, <1>6, <2>1, TypeOthers, InvUnchanged DEF IInv
<1>7. CASE UNCHANGED vars
  <2>1. UNCHANGED <<selectedRepoId, tasks, creating, flight>>
    BY <1>7 DEF vars, pageVars
  <2>2. TypeOK'
    BY <1>1, <1>7 DEF vars, pageVars, serverVars, TypeOK
  <2> QED
    BY <2>1, <2>2, InvUnchanged DEF IInv
<1> QED
  BY <1>2, <1>3, <1>4, <1>5, <1>6, <1>7 DEF Next

-----------------------------------------------------------------------------
(* Theorems.                                                               *)

\* The inductive invariant of the page holds in every reachable state, for any
\* number of repositories, tasks and functions waiting at once.
THEOREM Invariant == Spec => []IInv
<1>1. Init => IInv
  BY TypeInit, InvInit DEF IInv
<1> QED
  BY <1>1, InvNext, PTL DEF Spec

\* state.tasks and what the functions of the page hold keep their types.
THEOREM TypeCorrect == Spec => []TypeOK
<1>1. IInv => TypeOK
  BY DEF IInv
<1> QED
  BY <1>1, Invariant, PTL

\* A flag that disables a control of the page always has a function that is still
\* waiting and clears it, whatever was selected, loaded or replaced meanwhile.
THEOREM NeverStuck == Spec => []NothingStuck
<1>1. IInv => NothingStuck
  BY DEF IInv
<1> QED
  BY <1>1, Invariant, PTL

\* No answer, however late, makes the page show a card of another repository.
THEOREM CardsSelected == Spec => []CardsAreSelected
<1>1. IInv => CardsAreSelected
  BY DEF IInv, SelectionInv, CardsAreSelected, Cards, In
<1> QED
  BY <1>1, Invariant, PTL

\* The repository that a move, an assignment or an edit is sent to is the one its
\* task is stored in.
THEOREM ChangesHome == Spec => []ChangesReachHome
<1>1. IInv => ChangesReachHome
  BY DEF IInv
<1> QED
  BY <1>1, Invariant, PTL
=============================================================================
