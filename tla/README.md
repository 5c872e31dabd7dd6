# Barnaby (gitboard): TLA+ models and proofs

Barnaby keeps a task board as Markdown files inside a Git repository. The
command-line program `gitboard` reads and changes those files and runs `git`;
the local HTTP server `gitboard-server` runs `gitboard` as a child process for
every task operation; the web page served from `app.js` talks to the server;
desktop wrappers start the server and show the page. This directory models the
parts of that system whose correctness depends on order, interleaving or
partial failure, checks them with TLC and proves theorems about them with
TLAPS. Paths below are relative to `src/src/` of the repository unless they
begin with `doc/`.

## Inventory

| component | sources | state it keeps | operations | hard behaviour |
|---|---|---|---|---|
| server process | `server/main.cc`, `http.cc`, `app.cc`, `process.cc` | lock file, listening socket, one detached thread per connection, process-wide API mutex, child processes | start, accept, read, route, handle, answer, run child | two servers, kill while a child runs, accept error, client that leaves |
| configuration store | `server/config.cc` | `config.json`: repositories, file access rules, AI settings; AI keys in the keyring of the operating system, and a cache of them in the server | load, save, add, delete, PUT settings | three stores changed in turn, keyring locked or missing, crash between |
| task commands | `main.cc`, `commands/commands.cc`, `core/task*.cc`, `core/filesystem.cc`, `core/status_config.cc` | task Markdown files, `statuses.json`, `team.json` | list, query, create, field updates, move, points, comment, batch | read-modify-write by several processes, crash between temporary file and rename, one bad file |
| publish and sync | `commands/commands.cc`, `core/subprocess.cc` | Git work tree, index, HEAD, upstream | publish, sync, dbstatus, remotestatus | add and commit are two steps, others stage and edit, pull conflict, failed push |
| server engine | `server/engine.cc` | none of its own; task batches, the team, project files | batch, agent tools, apply-actions, file read, search and write | one step of several fails, file changed between the reading of its content and of its revision, or before it is replaced |
| AI agent | `server/ai_agent*.cc`, `server/ai_http_client.cc` | one conversation turn: staged actions, rounds, the exchange with the provider | chat loop, retries, repair, summary, settings | bounded rounds, posts that are repeated or fail, results that must match calls, others who change the repository meanwhile |
| web page | `server/assets/app.js` | selected repository, task cache, publish state, Pip conversation | load, move, assign, edit, create, publish, chat, apply | answers of one repository applied to another, optimistic update and rollback, stale page |
| desktop wrappers | `linux/BarnabyCef.cc`, `windows/BarnabyWin.cc`, `macos/BarnabyApp.mm` | child server process, URL | start the server, wait for the URL, stop it | server dies before the URL, killed with work in progress |
| formats and helpers | `core/json.cc`, `base64.cc`, `strings.cc`, `time.cc`, `user.cc` | none | parse, print | sequential |

How they interact. The page calls the server over HTTP; every API request runs
in a thread of its own and, but for static assets, under one mutex
(`app.cc:437`). Handlers load `config.json`, change and save it, or start
`gitboard batch` on a repository and wait for it. `gitboard` processes share
nothing but the file system and the Git repository: the server's mutex
serialises its own, a shell on the same repository is not serialised with them.
`gitboard` runs `git` as a child and waits for it. The agent posts to the
provider's endpoint, holding the same mutex, and the page sends back the actions
it chose from the answer. The wrappers start and kill the server.

What makes each part correct:

- server: one instance per lock file, one `gitboard` per instance, requests
  that behave as if handled one at a time, and every one that was read answered;
- task commands: a batch is a sequence of atomic commands; no torn file, no
  leftovers; no sequence of commands leads to an unreadable task;
- publish and sync: the success messages are true; no edit of the user and no
  commit of a teammate is lost; what is not asked for is not shared;
- configuration: key and settings agree after any failure, and a key goes only
  where its user sent it;
- agent: the model changes nothing by itself, what it is told is staged reaches
  the user, its calls are answered as its protocol wants, and the turn ends;
- engine: what apply-actions says was applied was applied, and nothing else; a
  file is not replaced over a change its client has not seen;
- page: each answer is applied to the repository and the task it was asked for;
- wrappers: the page appears or an error does; no server is left behind.

`PROJECT.json` lists the hazards line by line, with the properties that watch
them, or why none does.

## Modules

| module | what it is |
|---|---|
| `RepoRegistry` | abstract: the repository registry with atomic add, remove and batch |
| `ServerApi` | server instances, threads, mutex, lock file, children |
| `MCServerApi` | small instances of `ServerApi` |
| `ServerApi_proofs` | theorems about `ServerApi` |
| `TaskRules` | the data of a task database and what a command does to one task |
| `Board` | abstract: the commands of a batch as atomic steps, cut at the first failure |
| `TaskDb` | `gitboard` processes as reads, temporary files and renames |
| `MCTaskDb` | small instances of `TaskDb` |
| `TaskDb_proofs` | theorems about `TaskDb` |
| `PublishSync` | publish, sync, remotestatus and git on one clone |
| `MCPublishSync` | small instances of `PublishSync` |
| `PublishSync_proofs` | theorems about `PublishSync` |
| `WebTasks` | the task part of the web page, with answers in any order |
| `MCWebTasks` | small instances of `WebTasks` |
| `WebTasks_proofs` | theorems about `WebTasks` |
| `AgentTools` | the data of Agent Pip: calls, proposed actions, commands, the messages of both providers |
| `AgentPip` | the chat turn, the summary and apply-actions |
| `MCAgentPip` | small instances of `AgentPip` |
| `AgentPip_proofs` | theorems about `AgentPip` |
| `ProjectFiles` | reading, searching and replacing project files under revisions |
| `MCProjectFiles` | a small instance of `ProjectFiles` |
| `ProjectFiles_proofs` | theorems about `ProjectFiles` |
| `AiSettings` | AI settings, keyring and cache of keys |
| `MCAiSettings` | a small instance of `AiSettings` |
| `AiSettings_proofs` | theorems about `AiSettings` |
| `DesktopWrapper` | the wrappers of three platforms and the servers they start (the run `desktop` checks it as it is) |
| `DesktopWrapper_proofs` | theorems about `DesktopWrapper` |

### ServerApi

State: per instance its `phase`, the `mutex` and whom it serves; the holder of
the lock file; per client its connection, the `stage` of its thread, what it
asks and what it loaded; the `children`; the saved `repos`. An action is a
stretch of code without a blocking call: `TryLock`, `Listen`, `OpenerReturns`,
`Unwind` (accept throws), `Kill` and `Exit` for the process; `Accept`,
`ReadRequest`, `AcquireMutex`, `LoadConfig`, `AddRepo`, `DeleteRepo`,
`UnknownRepo`, `LaunchBatch`, `LaunchPicker`, `ReapChild`, `HandlerThrows`,
`SendResponse` for a thread; `ChildExits` for a child; `Connect` and
`Disconnect` for a browser. `Posix` selects the platform: on POSIX a child
inherits the `flock` descriptor (it is opened without `O_CLOEXEC`) and so keeps
the lock of a killed parent, and a `send` to a closed connection raises SIGPIPE;
on Windows neither happens. `AcceptErrors` allows `accept` to fail, which
releases the lock by `LOCK_UN` while threads still run: such an instance has
`Unwound`, and a successor may serve next to what is left of it. An instance is
`AtWork` while it is past its lock, while a thread of it serves, or, on POSIX,
while a child of it runs; `InstancesExclude` is about those, and excuses only
instances that have unwound. `recv` and `send` have no timeout (`http.cc:66`,
`:95`): a client may stay connected and send nothing, or read nothing, for ever,
and its thread waits for it. A choice of a directory tries zenity and then
kdialog (`app.cc:224-243`), so `LaunchPicker` may happen twice in one request.
`run_process` is taken to wait for its child until the child ends; should the
reading of its output or `waitpid` fail (`process.cc:179-191`), the handler would
throw and release the mutex beside a living child, and `OneGitboardPerInstance`
would not hold through that.

`RepoRegistry` is implemented by `ServerApi` with the identity mapping: each
request's effect on `repos` happens in one step, on the registry as it then is,
although the code loads, changes and saves a file in separate steps.

### TaskDb

State: the directory, its two configuration files, the task `files`, the
temporary files, and per process where it is in its batch (`script`, `ran`,
`pc`), the file it will replace (`target`) and the content it computed
(`draft`). `Load` is everything a field update, move or comment does before its
save (`find_task_path`, parse, checks, change in memory); `EnsureDir`,
`MakeDir`, `WriteStatuses`, `WriteTeam` and `Choose` are `create` up to its
save; `CreateTemp`, `WriteTemp` and `Rename` are `write_file_atomic`;
`WriteFails` is any of its errors, with the clean-up of its catch block; `Crash`
is the death of the process anywhere. Texts are abstracted to the command that
wrote them, titles to empty or not, because only an empty one makes a file
unreadable. `Choose` takes any id that no file has yet, as `create` does
(`commands.cc:318`), and another process may be about to save the same: the
second rename then replaces the first task. Only the 122 random bits of an id
keep that from happening, and no property claims more.

`Exclusive` says that processes run one at a time. The server makes this true
for its own children: that is the theorem `GitboardExclusive` of `ServerApi`
(and `LockProtects` for a restarted server on POSIX). Under it, `TaskDb`
implements `Board`: `outcome` is computed from `pc`, `rules` from
`statuses`, everything else is the same variable. Without it, as for two shells,
updates of one task are lost; processes that are `Apart`, with no task in common
and creates in at most one of them, still implement `Board` step by step
(`ApartBatches`), whatever they share: the directory, its configuration files,
the listing, each other's failures and deaths.

### PublishSync

State: snapshots (a content for each file) of the work tree, the index, HEAD,
the last upstream commit merged, the fetched upstream and the upstream itself,
the unmerged files, and booleans that say which side has commits the other
lacks. The commands are modelled one `git` call per action; git is modelled as
the code uses it (external in the map): `add` fails as a whole on an unknown
path or when the index cannot be locked or written, `commit` takes the whole
index and refuses unmerged files, `pull` fast-forwards, merges, stops in a
conflict, or fails before or after its fetch (network, settings, files in the
way), `push` is accepted only when HEAD contains the upstream. The user edits,
stages and pulls, and a teammate pushes, between any two of those calls. `alone`
records that nobody did since the command began; it appears only in properties
about an undisturbed command. Not modelled: `git merge --abort`, a commit made
by hand, renames, and the initialisation of a missing task directory (it is in
`TaskDb`).

### WebTasks

State: what `app.js` keeps in `state`: the `view`, `selectedRepoId`, `tasks`
(one record with the fields of `state.tasks`), `taskEdit` and whether a task is
being created; and `flight`, for each asynchronous function that is waiting the
local variables it will use after its `await`, and its answer once there is one.
Behind them stand the task files (`server`), the tasks changed since the last
publish (`dirty`) and those that differ upstream (`ahead`). That list is `git
diff HEAD..@{u}` of both tips: a publish whose sync fails puts the committed
tasks on it, a sync that succeeds takes them off. A fetch that fails is answered
as ok with empty lists (`commands.cc:602-615`), so that `ServeRead` may find
nothing ahead. JavaScript runs a function without interruption from one `await`
to the next, so an action is such a piece: `SelectRepo`, `Refresh`,
`SearchTasks`, `Retry`, `AgentReload`, `ChangeTask`, `PublishTasks`,
`SaveTaskEdit`, `CreateTask` begin a function, the actions named `...Answered`,
`...Failed` and `LoadSuperseded` continue one, `SetView`, `OpenPane`,
`ClosePane`, `EditField`, `OpenCreateTask`, `CloseCreateTask` have no `await`.
The `Serve...` actions are the server: a request takes effect at one instant
(`ServerApi` handles one request at a time), fails without effect, or takes
effect and answers with an error. Waiting functions are answered and resumed in
any order.

A task is one field, so that moves and assignments are one action, and
`movingTaskIds` and `assigningTaskIds` one set; a search shows every task; the
load token is the slot of the newest load, which is all that comparing tokens
can tell. JavaScript's object identity matters in two places and is kept: a
rollback writes to the card object its function holds, which a reload may have
replaced (`Detached`), and a form that was closed is not the form of the function
that still fills it (`NewForm`). Left out: adding and deleting repositories,
statuses and team, settings, and the conversation with Agent Pip, of which only
the reload it causes is here (`AgentReload`, `AgentFails`).

### AgentPip and AgentTools

State: the repository as far as tools and actions touch it (status, assignee and
number of comments of each task, the team), where the running handler is
(`phase`, `kind`), the local variables of the turn (`round`, `attempt`, `reply`,
`calls`, `results`, `staged`, `messages`) and of apply-actions (`sent`, `next`,
`commands`, `ran`), and the last `answer`. `told` and `offered` record what the
provider was told is staged and what answers to the page proposed; `before` and
`alone` let a property speak of an undisturbed request. One handler runs at a
time: that is `OneGitboardPerInstance` and `EveryRequestAnswered` of `ServerApi`,
where the handler is one stage.

The actions follow `handle_agent_chat`: `ChatArrives` is its checks in their
order (`Verdict`), `BuildContext` and `ContextFails` its two reading batches,
`PostSucceeds`, `PostRetries` and `PostFails` are `post_ai_http_json`;
`ReplyUnreadable`, `CallsRequested`, `LimitReached` and `NoMoreCalls` one pass of
its loop; `Duplicate`, `Stage`, `Reject` and `RunTool` one call; `FollowUp` the
next post; `Finish`, `NothingToRepair`, `Repair` and `Repaired` its end.
`SummarizeArrives` and `Summarized` are the summary. `ApplyArrives`,
`SkipAction`, `AddTeamMember`, `Collect`, `ActionThrows`, `LoopEnds`,
`RunCommand`, `CommandFails` and `BatchEnds` are `handle_agent_apply_actions`
with the child's commands one by one, as `Board` has them.

A reply of the model is a sequence of tool calls, a text that is prose, drafts
or absent, and whether it was cut off; prompts and texts are left out, but not
the ids of calls, because each provider refuses a conversation whose results do
not match (`CallsAnswered` builds the messages as `ai_agent_openai.cc` and
`ai_agent_anthropic.cc` do). `Changes` is what a call may ask of a task or of
the team; `Calls` says which tool asks for what: `add_team_member` whose
arguments parse names one member to join, and no other tool joins anybody.
`Outcome` is what a sequence of orders makes of a repository, `Steps` the orders
of an action as the user meant it, `Commands` those that the server sends to the
child, which end with a `Reading` of the task. A tool that only reads has no
effect; the branches of `execute_agent_tool` that would change the repository
are kept in `RunTool`, so that `OnlyChosenActions` depends on
`is_mutating_agent_tool`. The key by which a repeated action is recognised
(`ai_agent.cc:551-571`) is made of the words of the call and comes before the
validation, so that the same change in other words is staged twice: `Stage` may
do so, and the properties count both.

### ProjectFiles

State: what is at each path (`files`), the `access` rule of the directory, the
clock of the file system (`now`), the running request with what it has read so
far (`req`), and for each client what it was told of a file last (`known`).
`named` records which contents a revision ever stood for. A content is the
sequence of its lines, and its length stands for the size: a revision is size
and time (`Revision`, `engine.cc` `file_revision`). Content and revision are read
in two actions, since the code makes two calls; in the read tool's expression
the compiler may choose their order. `Compare`, `WriteTemp`, `Rename` and
`AnswerWrite` are the write; `SearchFile` looks at one file, and finds its `Hits`:
the lines that match, or none when the file is above the limit of 512 KB
(`engine.cc:874`); `OthersChange` is an
editor or git, between any two of those steps, and the clock may stand still
between two changes. A write without `expectedRevision` replaces whatever is
there, and a file that vanished before its revision was read has the revision
"": both are in the model, and the properties speak of a client that sent a
revision. The requests that list paths only read and are left out.

`SearchLoses` is what a search passes over on an error: a file that cannot be
opened, or all that is left when the iteration of the directory fails
(`engine.cc:913`). Neither that nor a file above the limit is told: the answer says
`truncated: false` and the lines are missing. `LimitIsTold` therefore claims less
than a complete search: an answer that does not say `truncated` has every line
of the files within the limit, unless an error lost one or another program changed
files meanwhile. A symbolic link that leads nowhere (`dangling`) passes the check of
a write (`engine.cc:114`), and the rename replaces the link.

The properties about revisions are limited by what a revision can tell. A change by
others between the reading of the content and of the revision, or between the
comparison and the rename, is in the model and is not noticed by the code;
`PiecesAreOneFile` and `NoLostUpdate` do not speak of requests during which that
happened.

### AiSettings

State: the AI section of `config.json` (`saved`), the keyring's entries (`store`)
and how it answers (`keyring`: ok, missing, failing), the server's `cache`, the
running request (`req`). A target is a pair of model and endpoint URL, and the
reference under which its key is kept is that target; settings without an
endpoint have the bare prefix as reference, which `NoTarget` stands for. PUT
goes through `PutArrives` (load, parse, check), `PutSavesKey`, `PutClearsOld`,
`PutClears`, `PutSavesConfig` and `PutResponds`, any of which may fail and answer
400 or 500 with the earlier ones done. `AskModel`, `LoadKey` and `Posted` are a
chat or a summary as far as the key is concerned; `RewriteConfig` is any other
request that loads and saves the configuration. `KeyringChanges`, `OwnerEdits`
and `Dies` happen between any two steps. `given` is the property's own record: the
pairs of target and key that a user gave, less those withdrawn by a PUT that was
answered 200 with the keyring at hand. `calm` says that nobody touched the
keyring since the PUT arrived.

What the code does and the model has, without a document that says otherwise: a
PUT that is refused for a malformed `clearApiKey`, or because `config.json` cannot
be written, may have saved the new key and cleared the old one; a PUT may answer
500 after everything was saved; clearing the key while another, unsaved target is
in the form clears that target's key. On Linux and macOS a clear without a keyring
returns as if done, and `app.js:1376` then shows "AI API key cleared."; that is
why the properties about cleared keys ask for an undisturbed keyring.

### DesktopWrapper

State: the `platform`, where the wrapper is (`app`), the `server` of each launch,
the lines in its `pipe`, the `page`, and who holds the instance `lock`.
`ReadLine` and `ReadNothing` are `read_line` and its loop, `Open` the browser and
its window, `Loaded`, `LoadFails` and `LoadGivenUp` the page, `StopServer`,
`StopLooks`, `StopKills` and `StopEnds` the stop of the server (SIGTERM, fifty
looks, SIGKILL on Linux; TerminateProcess and a wait on Windows; a signal and no
wait on macOS). A page is `Commits`ed when its answer begins to arrive, and may
fail after that. The wrapper on macOS chooses a port, closes it and hands it to
the server (`BarnabyChooseLoopbackPort`): `LoadsElsewhere` is a program that took it
meanwhile. `Serve` and `Refused` are `TryLock` and `Listen` of `ServerApi`
seen from outside; the lock is the same lock, which another server may hold.

`child` says whether a `gitboard` command or a dialog of a server runs (`Forks`,
`ChildEnds`). On Linux and macOS such a child has inherited the descriptor of
the lock (`main.cc:85` opens it without `O_CLOEXEC`, `process.cc:134-167` closes
nothing) and keeps the lock when its server dies (`Unlock`), unless the server
unwound. A window that is closed during a batch, or with a directory dialog
still open, leaves no server behind, but the next launch is refused until that
child has ended; on Windows it is not. `NoServerLeft` says just that.

What the model shows besides its properties: a wrapper that is killed leaves its
server behind, and later launches are refused until it ends; on Linux and
Windows a page that failed to load stays broken, and a server that dies later is
not noticed. An empty line before the URL line would end the loop of
`read_line`; the server prints none. `stop_server` may signal a process number
that `read_line` has already reaped.

## Runs

| run | instance | what it shows |
|---|---|---|
| `api_locks` | 2 instances, 2 clients | `TypeOK`, `InstancesExclude`, `OneGitboardPerInstance`, `InheritedLockProtects` |
| `api_registry` | 2 instances, 2 clients, fair threads and children | `RegistrySpec`: `RepoRegistry` is implemented, `EveryRequestAnswered`, `LockComesBack` |
| `taskdb_concurrent` | 2 processes at once, 3 ids, kills and write errors | `TypeOK`, `NoTornFile`, `NoLeftovers`, `ApartBatches` |
| `taskdb_serial` | 2 processes one at a time, kills and write errors | `BoardSpec`: `Board` is implemented |
| `publish_clone` | 1 task file, 1 other file, 4 outside steps | `TypeOK`, `CleanAfterPublish`, `SyncedMeansShared`, `EditsSurvive`, `TeammatesSurvive` |
| `page_tasks` | 2 repositories, 2 tasks, 2 functions at once, 1 failure, fair server and timer | `TypeOK`, `NothingStuck`, `CardsAreSelected`, `ChangesReachHome`, `Converges` |
| `page_pane` | the same | violates `PaneShowsItsTask` |
| `agent_turn` | 1 task, 2 statuses, 1 member, 2 rounds, 2 attempts, 2 actions, 1 step of others, fair handler | `TypeOK`, `CallsAnswered`, `ToldIsOffered`, `AppliedAsAsked`, `OnlyChosenActions`, `RequestsAnswered` |
| `agent_partial` | 1 round, nobody else | violates `RefusedChangedNothing` |
| `project_files` | 2 clients, 2 files, 3 requests, 1 act of others | `TypeOK`, `PiecesAreOneFile`, `NoLostUpdate`, `NoFalseConflict`, `LimitIsTold` |
| `ai_settings` | 3 targets, 2 keys, 2 PUTs, 2 acts of others, 3 platforms | `TypeOK`, `KeyIsCurrent`, `PutDone`, `CacheIsStored` |
| `desktop` | 3 launches, 3 acts, 3 platforms, fair wrapper and servers | `TypeOK`, `NoServerLeft`, `LaunchSettles` |

Bounds. `MaxRuns` limits how often an instance is started: two starts suffice
for a predecessor, its orphan and a successor. Two clients let one wait for the
mutex, or leave, while the other holds it. In `MCTaskDb` each script pairs
commands that meet on one task, but for the last two, which are `Apart`; two
commands of a batch reach every command boundary, three ids let two creates meet
an existing task. In `MCPublishSync` one task file and one other file reach
every combination of outcomes of the git commands (a second task file adds only
files that behave like the first); four outside steps let both sides change a
file, resolve it and change it again. In `MCWebTasks` two slots let any two
functions overlap, a page size of 1 makes a load of two tasks wait three times,
one repository is empty so that every card in it would be a foreign one, and
three acts of the user, Pip or others reach, for example, a move overtaken by a
switch and back; navigation, the pane and the refresh timer are not counted.
`SmallStarts` are boards with one changed task and either room for a new one or
a second task and one act fewer.

In `MCAgentPip` two rounds let a call of the second repeat one of the first and
the limit be reached with something staged; two calls in a reply mix a
duplicate, a rejected and an accepted one, with and without ids and names; two
actions let the second fail after the first. One request to the model and one
apply request meet one change by others. In `MCProjectFiles` three requests are
a read in two pieces, or by two clients, and a write; contents of equal size
with the clock standing still make revisions ambiguous, one content is larger
than the limit, and a search of two files passes its limit inside the second. In
`MCAiSettings` two PUTs replace, move and clear a key, and two acts lock the
keyring and unlock it, or edit an entry, or end the server and change something;
the bodies are every mixture of key and `clearApiKey` on one target, moves to
others, and the malformed ones. In `DesktopWrapper` three launches are an
orphan, a refused one and one that works; two looks stand for fifty.

Deadlock is not checked (`CHECK_DEADLOCK FALSE`) because every system here may
stop: all processes have ended, or the bound on outside steps is used up and no
command is started.

Fairness in `api_registry`: weak fairness of `accept`, of the opener's return, of
a thread's wait for the mutex and of its handler, of the exit of an unwound
instance, and of the exit of a child. The operating system schedules runnable
threads; a `gitboard` child ends because it only reads and writes files and runs git
commands; a dialog is assumed to be answered. Reading a request and sending an
answer are fair only for clients that left, whose sockets are closed: nothing is
assumed of one that stays, which may keep its thread in `recv` or `send` for
ever. `EveryRequestAnswered` therefore begins where the request has been read, and
ends where the answer is there to be sent; that an idle client, which holds
no mutex, cannot keep the others from that is a part of what it shows.

Fairness in `page_tasks`: weak fairness of the answer to each request
(`EveryRequestAnswered` of `ServerApi` is the reason, with a browser that sends its
whole request and reads its answer), of the resumption of each
answered function (the event loop), and of `Refresh`, which a timer repeats every 60
seconds. Nothing is assumed of users, teammates and other programs: the bounds on
them and on failures let them come to rest, and `Converges` says what holds then.

Fairness in `agent_turn`: weak fairness of the running handler's next step. The
thread and its child are scheduled, and a post ends because curl has a timeout;
which way each step goes is not assumed.

Fairness in `desktop`: weak fairness of the wrapper's own steps and of each
server's start, end of start and death by a signal. Users, crashes, other
servers and children owe nothing.

## What the runs found

Recorded in `PROJECT.json` with the line of code and the sentence it disagrees
with, each with a run that finds it:

- a saved edit is filled into the pane of the task opened meanwhile
  (`PaneShowsItsTask`);
- apply-actions answers an error after it changed the team or some tasks, and
  the page says that no changes were applied (`RefusedChangedNothing`).

Other disagreements have a property in the modules and no run of their own.
TLC refutes each when the property is added to the configuration named:

| property | configuration | what happens | against |
|---|---|---|---|
| `OneInstance` of `ServerApi` (invariant) | `MCServerApi_locks.cfg` | an error of `accept` unwinds `run_server` (`server/main.cc:299`), whose `instance_lock` unlocks (`main.cc:97-103`) while detached threads still serve; a successor starts and serves next to them | `doc/server_spec.md:37`: "Only one `gitboard-server` instance may run for the same user configuration at a time" |
| `NeverTwoGitboards` of `ServerApi` (invariant) | `MCServerApi_locks.cfg` with `Posix = FALSE` | the Windows wrapper ends the server with TerminateProcess (`windows/BarnabyWin.cc:189`) while its `gitboard` child lives on; the lock handle is not inherited there, so the next server starts and runs a `gitboard` next to it | `doc/server_spec.md:90`: "the server must never launch multiple `gitboard` child processes concurrently" |
| `TasksStayLoadable` of `TaskDb` (invariant) | `MCTaskDb_concurrent.cfg` | `title` saves an empty title (`commands.cc:359`), after which `task.cc:206` rejects the file and no command can read or repair it | `commands.cc:315`: "task title cannot be empty" |
| `OnlyTasksPublished` of `PublishSync` (action property) | `MCPublishSync_clone.cfg` | `git commit` without paths takes the whole index (`commands.cc:543`): a file outside `tasks/` staged earlier is published | `doc/spec.md:533`: "Non-task changes are left unstaged." |
| `MarkersStayLocal` of `PublishSync` (invariant) | `MCPublishSync_clone.cfg` | after a sync that ended in a conflict, `publish` marks the files as resolved and concludes the merge (`commands.cc:533`); the next sync pushes the markers | `doc/spec.md:553-555`: "Check for unresolved merge conflicts" before the push |
| `OnlyUpstreamChanges` of `PublishSync` (invariant) | `MCPublishSync_clone.cfg` | `git diff HEAD..@{u}` compares the two tips (`commands.cc:621`): a task published here and not pushed counts as deleted or modified upstream | `doc/spec.md:645`: "`deleted`: local task ids whose files were deleted upstream" |

And some were met while reading: a search passes over files above 512 KB and
what an error of the iteration leaves out, with `truncated` false
(`engine.cc:874`, `:913`; the model has both); on POSIX a client that leaves
before its answer ends the server by SIGPIPE (`server/http.cc:71`, against
`doc/server_spec.md:33`; the model has it); selecting a repository again while
it publishes clears the publishing state (`server/assets/app.js:776`, against
`doc/web_ui.md:404`; the model has it); `move` refuses a destination that the
rules permit but `statuses.json` lacks (`commands.cc:385`, against
`doc/spec.md:482`); a malformed batch entry discards the results of the commands
executed before it (`commands.cc:722`, against `doc/spec.md:694`); after a
failed first initialisation nobody writes `statuses.json` or `team.json`
(`commands.cc:146`, against `doc/spec.md:23-27`).

## Proofs

All theorems hold for every value of the constants that satisfies the named
assumptions of the modules (sets are disjoint, placeholders are not members,
bounds are naturals). Each proof module has one inductive invariant `IInv`, and for
some theorems a further one on top of it; TLC checked them on the instances above
before they were proved, and the runs check the properties they imply.

Every safety property of a run that is expected to pass, each action property and
each refinement is a theorem. What the liveness properties say follows from
fairness and from a measure that the steps lower; the measures are theorems too
(`RequestsAdvance`, `HandlersEnd`, `LaunchesEnd`): lexicographic, natural, and
lowered by each step that fairness is assumed of, so that no run of the program
takes for ever by taking steps. That an enabled step is there until the end is
left to TLC.

- `ServerApi_proofs`: `Invariant`, then `TypeCorrect`, `Exclusive`,
  `GitboardExclusive`, `LockProtects`; `Serialized` (the refinement of
  `RepoRegistry`, assuming `~AcceptErrors`). Mutual exclusion alone is not
  inductive: `IInv` adds that an active instance owns the lock, that a thread
  past the mutex owns it and its instance lives, that a `gitboard` child of a
  live instance has a thread waiting for it, and that on POSIX every child's
  instance is the lock's owner unless it has unwound; `Exclusive` is
  `InstancesExclude` for what is left of an instance, its threads and
  children included. `RequestsAdvance` orders the stages of a thread,
  and then the children it still has to launch; `NoThreadIsStuck` needs the
  converse of `MutexHeld`, that whoever the mutex names is inside its handler
  (`MutexOwned`), and so excludes a mutex left locked.
- `TaskDb_proofs`: `Invariant`, `TypeCorrect`, `NeverTorn`, `Leftovers`,
  `ApartIsSerial`; `SerialBatches` (the refinement of `Board`, assuming
  `Exclusive`). `IInv` says what a process that is about to save knows: its
  command and its target. Serial execution, or processes that are `Apart`, add
  `SerialInv`: the draft is the command applied to the file as it still is.
- `PublishSync_proofs`: `Invariant`, `TypeCorrect`, `PublishedIsClean`,
  `SyncedIsShared`, `EditsKept`, `TeammatesKept`. `IInv` ties the booleans about
  commits to the snapshots (`Bookkeeping`) and carries what an undisturbed
  command saw from one git call to the next (`Undisturbed`).
- `WebTasks_proofs`: `Invariant`, `TypeCorrect`, `NeverStuck`, `CardsSelected`,
  `ChangesHome`. The page checks a load's answer only against its token, so that
  no foreign card is shown needs `SelectionInv`: the newest load asks for the
  selected repository, what it collected is of the repository it asked for, and
  the order shown is of the selected one. `TaskKnown` says which task a
  waiting change or save is about.
- `AiSettings_proofs`: `Inductive`, `TypeCorrect`, `KeysAreCurrent`,
  `PutsAreDone`, `CacheAgrees`. That a posted key is current needs that every key
  in the keyring and in the cache was given for its target (`Given`), and that a
  loaded reference is that of its target (`OwnRef`); that a withdrawal leaves none
  behind needs `Progress`: what an undisturbed PUT has put into both stores after
  each of its steps.
- `DesktopWrapper_proofs`: `TypeCorrect`, `NoneLeft`, `LaunchesEnd`. `Control`
  says where the wrapper can be while its server lives, that launches to come
  have no server and no child, and that the lock in the name of a launch is held
  by a server that serves or dies or, but on Windows, by a child of it.
  `LaunchesEnd` orders where the wrapper is, then what can become of its server,
  then the lines to read and the looks to take.
- `ProjectFiles_proofs`: `Inductive`, `UpdatesAreKept`, `ConflictsAreReal`,
  `WholePieces`, `TypeCorrect`, `LimitsAreTold`. `Sent` says that a revision in
  a request is the one its client was told, `Seen` that what a request has read,
  or compared, is there still as long as nobody else changed a file, `Fresh`
  that a client that missed no change knows the file's revision, `Named` that
  the revision of every file names its content, and `Pieces` that the lines a
  client put together begin a content that their revision named. If the revision
  names one content only, that is the one being replaced. The last two theorems
  have an invariant on top of it, `Limits`: `Written` and `Asking` say what
  contents, stamps and finds can be there, and `Searched` that a search has
  found every line of the files it is done with and may read, in whatever order,
  unless it reached its limit or an error lost a file.
- `AgentPip_proofs`: `Inductive`, `TypeCorrect`, `CallsAreAnswered`,
  `ToldActionsReachThePage`, `AppliedMeansAsked`, `OnlyChosen`, `HandlersEnd`.
  `Told` says that what was announced to the provider, or will be with the results
  so far, is staged; `Chosen` that each command of the batch reads or is a change
  of a selected action that was offered; `Exchange` and `Round` that the messages
  kept answer each call under its id, in order and at once, and which calls of the
  round still wait. `Accounted` is the reason for `AppliedMeansAsked`:
  while nobody else interferes, the repository followed by the commands that wait
  comes to what the actions so far mean; members are added before the batch runs,
  so that it needs that joining changes place with every other command
  (`JoinedOutcome`). The folds over sequences (`Outcome`, `FlattenSeq`, the
  renumbered ids) are reasoned about by the set of the lengths, or sequences, for
  which the lemma holds (`SetInduction`, `SequenceInduction`): it contains the
  first and is closed under one more, and whatever is not in it has a least
  element.

Only model-checked: the liveness properties `EveryRequestAnswered` and
`LockComesBack` of `api_registry`, `Converges` of `page_tasks`,
`RequestsAnswered` of `agent_turn` and `LaunchSettles` of `desktop` (temporal
reasoning with fairness and ENABLED is out of the prover's reach; for three of
them the measure behind it is proved, see above), and the two runs that expect a
violation.

## Not modelled, and the plan

Not modelled for good: parsing and printing of JSON, base64 and front matter
texts beyond their verdicts (sequential, unit-tested), loss of power (a rename
without `fsync` may be lost), packaging and assets, `linux/BarnabyGtk.cc` (in no
build target), the pipes of `core/subprocess.cc` (both are read before the wait,
by `select` or by a thread each, so that neither side can block the other).

Not modelled yet, in order of importance:

1. the page's side of the conversation with Agent Pip (`app.js` 1560-1625 and
   2990-3100): an answer for a repository that was left, drafts, the summary;
   composed with `AgentPip`;
2. comments that are added again when an edit is saved after a failure in its middle;
3. the settings dialog of the page, composed with `AiSettings`;
4. the front matter round trip as a pure algorithm against a reference definition;
5. compositions: `TaskDb` with `Exclusive` discharged by `ServerApi`, `WebTasks` with
   the server's steps in place of the `Serve...` actions, `DesktopWrapper` with
   the servers of `ServerApi`.

A hand-written `apiKeyRef` in `config.json` that names another entry than the
one of its model and endpoint is not modelled: the server never writes one.
