------------------------------ MODULE ServerApi ------------------------------
(***************************************************************************)
(* gitboard-server: start-up under the inter-process lock, the accept      *)
(* loop with one detached thread per connection, the process-wide mutex    *)
(* around every API handler, and the child processes the handlers wait     *)
(* for.  Several instances share one configuration directory; an instance  *)
(* may be killed or leave its accept loop on an error at any moment.       *)
(***************************************************************************)
EXTENDS Naturals, FiniteSets

CONSTANTS Instances,    \* server processes started over time, same config dir
          Clients,      \* HTTP requests, one connection each
          Repos,        \* repository ids
          NoInstance, Nobody,
          Workloads,    \* the requests each client may send
          MaxRuns,      \* bound: gitboard children one handler launches
          Posix,        \* flock descriptors are inherited and SIGPIPE is fatal
          AcceptErrors  \* accept() may fail with an error other than EINTR

ASSUME NoneAssumption == NoInstance \notin Instances /\ Nobody \notin Clients
ASSUME WorkloadAssumption ==
  Workloads \subseteq [Clients -> [kind : {"add", "delete", "batch", "dialog",
                                           "unlocked"}, repo : Repos]]
ASSUME MaxRunsAssumption == MaxRuns \in Nat \ {0}
ASSUME PlatformAssumption == Posix \in BOOLEAN /\ AcceptErrors \in BOOLEAN

VARIABLES phase,      \* [Instances -> Phases]
          lockOwner,  \* the instance whose open file description holds the flock
          mutex,      \* [Instances -> Clients or Nobody], api_request_mutex()
          children,   \* processes started by run_process and still running
          conn,       \* [Clients -> Instances or NoInstance]
          stage,      \* [Clients -> Stages], where the request's thread is
          gone,       \* clients that closed their end of the connection
          request,    \* [Clients -> Requests]
          loaded,     \* [Clients -> SUBSET Repos], the handler's server_config
          left,       \* [Clients -> 0..MaxRuns], children still to launch
          repos,      \* repositories of config.json
          answer      \* [Clients -> Answers], the response the handler returned

procVars == <<phase, lockOwner, mutex, children>>
clientVars == <<conn, stage, gone, request, loaded, left>>
vars == <<procVars, clientVars, repos, answer>>

-----------------------------------------------------------------------------
\* "opening": listening, waiting for the browser opener.  "exiting": the lock
\* is already released by ~instance_lock, the process has not ended yet.
Active == {"locked", "opening", "accepting"}
Stopped == {"refused", "killed", "sigpiped", "exited"}
Phases == {"off", "exiting"} \union Active \union Stopped

Holding == {"handling", "loaded", "child"}            \* inside the lock_guard
InThread == {"reading", "waiting", "reply"} \union Holding
Stages == {"idle", "backlog", "closed", "lost"} \union InThread

\* "batch": any handler that launches gitboard children (/batch, Agent Pip);
\* "dialog": the folder picker; "unlocked": assets and rejected requests.
Requests == [kind : {"add", "delete", "batch", "dialog", "unlocked"}, repo : Repos]
Answers == {"none", "201", "409", "200", "404", "500", "ran", "other"}

Child(i, c, prog) == [inst |-> i, client |-> c, prog |-> prog]
ChildrenOf(i) == {k \in children : k.inst = i}
Gitboards == {k \in children : k.prog = "gitboard"}

Init == /\ phase = [i \in Instances |-> "off"]
        /\ lockOwner = NoInstance
        /\ mutex = [i \in Instances |-> Nobody]
        /\ children = {}
        /\ conn = [c \in Clients |-> NoInstance]
        /\ stage = [c \in Clients |-> "idle"]
        /\ gone = {}
        /\ request \in Workloads
        /\ loaded = [c \in Clients |-> {}]
        /\ left = [c \in Clients |-> 0]
        /\ repos \in SUBSET Repos
        /\ answer = [c \in Clients |-> "none"]

-----------------------------------------------------------------------------
(* Start-up: run_server.                                                   *)

\* Mutant: the lock file is opened but never locked.
TryLockUnchecked(i) ==
  /\ phase[i] = "off"
  /\ lockOwner' = i
  /\ phase' = [phase EXCEPT ![i] = "locked"]
  /\ UNCHANGED <<mutex, children, clientVars, repos, answer>>

\* flock(LOCK_EX | LOCK_NB): fails while any process holds the description.
TryLock(i) ==
  /\ phase[i] = "off"
  /\ IF lockOwner = NoInstance
     THEN /\ lockOwner' = i
          /\ phase' = [phase EXCEPT ![i] = "locked"]
     ELSE /\ phase' = [phase EXCEPT ![i] = "refused"]
          /\ UNCHANGED lockOwner
  /\ UNCHANGED <<mutex, children, clientVars, repos, answer>>

\* listen_socket succeeds; with open_browser the opener inherits the lock.
Listen(i) ==
  /\ phase[i] = "locked"
  /\ \/ /\ phase' = [phase EXCEPT ![i] = "opening"]
        /\ children' = children \union {Child(i, Nobody, "opener")}
     \/ /\ phase' = [phase EXCEPT ![i] = "accepting"]
        /\ UNCHANGED children
  /\ UNCHANGED <<lockOwner, mutex, clientVars, repos, answer>>

\* run_process returned from the opener: the accept loop starts.
OpenerReturns(i) ==
  /\ phase[i] = "opening"
  /\ ChildrenOf(i) = {}
  /\ phase' = [phase EXCEPT ![i] = "accepting"]
  /\ UNCHANGED <<lockOwner, mutex, children, clientVars, repos, answer>>

\* An exception leaves run_server: bind or listen failed, or accept did.
\* Unwinding runs ~instance_lock, which unlocks whoever else has the file open.
Unwind(i) ==
  /\ \/ phase[i] = "locked"
     \/ phase[i] = "accepting" /\ AcceptErrors
  /\ phase' = [phase EXCEPT ![i] = "exiting"]
  /\ lockOwner' = NoInstance
  /\ UNCHANGED <<mutex, children, clientVars, repos, answer>>

-----------------------------------------------------------------------------
\* Mutant: the descriptor is close-on-exec, so no child keeps the lock.
EndsFreesLock(i, how) ==
  /\ phase' = [phase EXCEPT ![i] = how]
  /\ lockOwner' = IF lockOwner = i THEN NoInstance ELSE lockOwner
  /\ mutex' = [mutex EXCEPT ![i] = Nobody]
  /\ stage' = [c \in Clients |->
                 IF conn[c] = i /\ stage[c] \in InThread \union {"backlog"}
                 THEN "lost" ELSE stage[c]]
  /\ UNCHANGED <<children, conn, gone, request, loaded, left, repos, answer>>

(* The end of an instance: its threads, its mutex and its sockets go with  *)
(* it, the children it launched do not.  The flock stays with the open     *)
(* file description as long as a child that inherited it runs.             *)
Ends(i, how) ==
  /\ phase' = [phase EXCEPT ![i] = how]
  /\ lockOwner' = IF lockOwner = i /\ ~(Posix /\ ChildrenOf(i) # {})
                  THEN NoInstance ELSE lockOwner
  /\ mutex' = [mutex EXCEPT ![i] = Nobody]
  /\ stage' = [c \in Clients |->
                 IF conn[c] = i /\ stage[c] \in InThread \union {"backlog"}
                 THEN "lost" ELSE stage[c]]
  /\ UNCHANGED <<children, conn, gone, request, loaded, left, repos, answer>>

Kill(i) == phase[i] \in Active /\ Ends(i, "killed")

\* main returns after the exception: exit() ends the detached threads.
Exit(i) == phase[i] = "exiting" /\ Ends(i, "exited")

\* Mutant: the description outlives the last process that had it open.
ChildExitsKeepsLock(k) ==
  /\ k \in children
  /\ children' = children \ {k}
  /\ UNCHANGED <<phase, lockOwner, mutex, clientVars, repos, answer>>

\* A child ends; the last one that inherited a dead instance's lock frees it.
ChildExits(k) ==
  /\ k \in children
  /\ children' = children \ {k}
  /\ lockOwner' = IF /\ lockOwner = k.inst
                     /\ phase[k.inst] \in Stopped
                     /\ ChildrenOf(k.inst) = {k}
                  THEN NoInstance ELSE lockOwner
  /\ UNCHANGED <<phase, mutex, clientVars, repos, answer>>

-----------------------------------------------------------------------------
(* One connection: the client, the accept loop and handle_client.          *)

Goto(c, s) == stage' = [stage EXCEPT ![c] = s]

\* The kernel completes the connection as soon as the socket listens.
Connect(c, i) ==
  /\ stage[c] = "idle"
  /\ phase[i] \in {"opening", "accepting"}
  /\ conn' = [conn EXCEPT ![c] = i]
  /\ Goto(c, "backlog")
  /\ UNCHANGED <<procVars, gone, request, loaded, left, repos, answer>>

\* The browser tab is closed or reloaded while the request is pending.
Disconnect(c) ==
  /\ stage[c] \in InThread \union {"backlog"}
  /\ c \notin gone
  /\ gone' = gone \union {c}
  /\ UNCHANGED <<procVars, conn, stage, request, loaded, left, repos, answer>>

Accept(c) ==
  /\ stage[c] = "backlog"
  /\ phase[conn[c]] = "accepting"
  /\ Goto(c, "reading")
  /\ UNCHANGED <<procVars, conn, gone, request, loaded, left, repos, answer>>

\* read_request, then the routing of handle_request: assets and rejected
\* requests are answered without the lock; a client that left before the end
\* of its headers gets nothing, one that left within its body a 500.
ReadRequest(c) ==
  /\ stage[c] = "reading"
  /\ \/ c \in gone /\ Goto(c, "closed") /\ UNCHANGED answer
     \/ /\ c \in gone \/ request[c].kind = "unlocked"
        /\ Goto(c, "reply")
        /\ answer' = [answer EXCEPT ![c] = "other"]
     \/ request[c].kind # "unlocked" /\ Goto(c, "waiting") /\ UNCHANGED answer
  /\ UNCHANGED <<procVars, conn, gone, request, loaded, left, repos>>

\* send_response and close.  On POSIX, send() to a peer that has closed raises
\* SIGPIPE, which nothing in the server ignores.
SendResponse(c) ==
  /\ stage[c] = "reply"
  /\ \/ /\ Goto(c, "closed")
        /\ UNCHANGED <<procVars, conn, gone, request, loaded, left, repos, answer>>
     \/ /\ Posix
        /\ c \in gone
        /\ Ends(conn[c], IF phase[conn[c]] = "exiting" THEN "exited" ELSE "sigpiped")

-----------------------------------------------------------------------------
(* The API handlers, run with api_request_mutex() held.                    *)

\* Mutant: handle_request without its lock_guard.
AcquireMutexUnchecked(c) ==
  /\ stage[c] = "waiting"
  /\ mutex' = [mutex EXCEPT ![conn[c]] = c]
  /\ Goto(c, "handling")
  /\ UNCHANGED <<phase, lockOwner, children, conn, gone, request, loaded, left,
                 repos, answer>>

AcquireMutex(c) ==
  /\ stage[c] = "waiting"
  /\ mutex[conn[c]] = Nobody
  /\ mutex' = [mutex EXCEPT ![conn[c]] = c]
  /\ Goto(c, "handling")
  /\ UNCHANGED <<phase, lockOwner, children, conn, gone, request, loaded, left,
                 repos, answer>>

\* Mutant: a manual lock() without unlock() on the way out.
ReturnLocked(c, status) ==
  /\ answer' = [answer EXCEPT ![c] = status]
  /\ Goto(c, "reply")
  /\ UNCHANGED <<phase, lockOwner, mutex, conn, gone, request, loaded, left>>

\* The handler has its response: the lock_guard's scope ends.
Return(c, status) ==
  /\ answer' = [answer EXCEPT ![c] = status]
  /\ mutex' = [mutex EXCEPT ![conn[c]] = Nobody]
  /\ Goto(c, "reply")
  /\ UNCHANGED <<phase, lockOwner, conn, gone, request, loaded, left>>

LoadConfig(c) ==
  /\ stage[c] = "handling"
  /\ request[c].kind \in {"add", "delete", "batch"}
  /\ loaded' = [loaded EXCEPT ![c] = repos]
  /\ Goto(c, "loaded")
  /\ UNCHANGED <<procVars, conn, gone, request, left, repos, answer>>

\* save_config writes the whole loaded configuration back.
AddRepo(c) ==
  /\ stage[c] = "loaded"
  /\ request[c].kind = "add"
  /\ \/ /\ request[c].repo \in loaded[c]
        /\ UNCHANGED repos
        /\ Return(c, "409")
     \/ /\ request[c].repo \notin loaded[c]
        /\ repos' = loaded[c] \union {request[c].repo}
        /\ Return(c, "201")
  /\ UNCHANGED children

DeleteRepo(c) ==
  /\ stage[c] = "loaded"
  /\ request[c].kind = "delete"
  /\ \/ /\ request[c].repo \notin loaded[c]
        /\ UNCHANGED repos
        /\ Return(c, "404")
     \/ /\ request[c].repo \in loaded[c]
        /\ repos' = loaded[c] \ {request[c].repo}
        /\ Return(c, "200")
  /\ UNCHANGED children

UnknownRepo(c) ==
  /\ stage[c] = "loaded"
  /\ request[c].kind = "batch"
  /\ request[c].repo \notin loaded[c]
  /\ Return(c, "404")
  /\ UNCHANGED <<children, repos>>

\* run_process: fork and exec, then wait for the pipe to close.
Launch(c, prog) ==
  /\ children' = children \union {Child(conn[c], c, prog)}
  /\ Goto(c, "child")
  /\ UNCHANGED <<phase, lockOwner, mutex, conn, gone, request, loaded, repos, answer>>

LaunchBatch(c) ==
  /\ stage[c] = "loaded"
  /\ request[c].kind = "batch"
  /\ request[c].repo \in loaded[c]
  /\ \E n \in 0..(MaxRuns - 1) : left' = [left EXCEPT ![c] = n]
  /\ Launch(c, "gitboard")

\* zenity with kdialog in reserve, or the one dialog macOS has.
LaunchPicker(c) ==
  /\ stage[c] = "handling"
  /\ request[c].kind = "dialog"
  /\ \E n \in {0, 1} : left' = [left EXCEPT ![c] = n]
  /\ Launch(c, "picker")

\* load_config, save_config, a temporary file or fork throws: the lock_guard is
\* unwound and handle_client answers 500.
HandlerThrows(c) ==
  /\ stage[c] \in {"handling", "loaded"}
  /\ Return(c, "500")
  /\ UNCHANGED <<children, repos>>

ChildOf(c) == {k \in children : k.inst = conn[c] /\ k.client = c}

\* Mutant: one child too many.
ReapChildOffByOne(c) ==
  /\ stage[c] = "child"
  /\ ChildOf(c) = {}
  /\ left' = [left EXCEPT ![c] = @ - 1]
  /\ Launch(c, "gitboard")

\* The child has ended: launch the next one, or answer when none is left, the
\* next one cannot be launched, or the first picker had its dialog answered.
ReapChild(c) ==
  /\ stage[c] = "child"
  /\ ChildOf(c) = {}
  /\ \/ /\ left[c] > 0
        /\ left' = [left EXCEPT ![c] = @ - 1]
        /\ Launch(c, IF request[c].kind = "batch" THEN "gitboard" ELSE "picker")
     \/ /\ left[c] > 0
        /\ Return(c, "500")
        /\ UNCHANGED <<children, repos>>
     \/ /\ left[c] = 0 \/ request[c].kind # "batch"
        /\ Return(c, IF request[c].kind = "batch" THEN "ran" ELSE "other")
        /\ UNCHANGED <<children, repos>>

-----------------------------------------------------------------------------
Handle(c) == \/ LoadConfig(c) \/ AddRepo(c) \/ DeleteRepo(c) \/ UnknownRepo(c)
             \/ LaunchBatch(c) \/ LaunchPicker(c) \/ ReapChild(c)
             \/ HandlerThrows(c)

Thread(c) == ReadRequest(c) \/ AcquireMutex(c) \/ Handle(c) \/ SendResponse(c)

Next == \/ \E i \in Instances : \/ TryLock(i) \/ Listen(i) \/ OpenerReturns(i)
                                \/ Unwind(i) \/ Exit(i) \/ Kill(i)
        \/ \E k \in children : ChildExits(k)
        \/ \E c \in Clients, i \in Instances : Connect(c, i)
        \/ \E c \in Clients : Disconnect(c) \/ Accept(c) \/ Thread(c)

Spec == Init /\ [][Next]_vars

\* Threads are scheduled, children end and dialogs are answered.  recv and send
\* wait for the client without a timeout: they are sure to return only when it
\* has closed its end.  Nothing is assumed of clients that stay: they may send
\* nothing, or read nothing.
Fairness == /\ \A c \in Clients :
                 /\ WF_vars(Accept(c))
                 /\ WF_vars(AcquireMutex(c))
                 /\ WF_vars(Handle(c))
                 /\ WF_vars(c \in gone /\ (ReadRequest(c) \/ SendResponse(c)))
            /\ \A i \in Instances : WF_vars(OpenerReturns(i)) /\ WF_vars(Exit(i))
            /\ WF_vars(\E k \in children : ChildExits(k))

FairSpec == Spec /\ Fairness

-----------------------------------------------------------------------------
(* Properties.                                                             *)

TypeOK == /\ phase \in [Instances -> Phases]
          /\ lockOwner \in Instances \union {NoInstance}
          /\ mutex \in [Instances -> Clients \union {Nobody}]
          /\ children \subseteq [inst : Instances, client : Clients \union {Nobody},
                                 prog : {"gitboard", "picker", "opener"}]
          /\ conn \in [Clients -> Instances \union {NoInstance}]
          /\ stage \in [Clients -> Stages]
          /\ gone \subseteq Clients
          /\ request \in [Clients -> Requests]
          /\ loaded \in [Clients -> SUBSET Repos]
          /\ left \in [Clients -> Nat]
          /\ repos \subseteq Repos
          /\ answer \in [Clients -> Answers]

\* The inductive invariant behind the safety properties: an instance serves
\* only with the lock, a thread exists only in a live instance, a handler runs
\* only with its instance's mutex, a live instance's gitboard child has a
\* handler waiting for it, and (POSIX) the children of an instance keep the
\* lock unless the instance has unwound.
Unwound(i) == phase[i] \in {"exiting", "exited"}
NoUnwinding == \A i \in Instances : ~Unwound(i)

LockHeld == \A i \in Instances : phase[i] \in Active => lockOwner = i

ThreadsLive == \A c \in Clients :
                 stage[c] \in InThread \union {"backlog"} =>
                   conn[c] \in Instances /\ phase[conn[c]] \in Active \union {"exiting"}

MutexHeld == \A c \in Clients : stage[c] \in Holding => mutex[conn[c]] = c

ChildrenWaited == \A k \in Gitboards :
                    \/ phase[k.inst] \in Stopped
                    \/ k.client \in Clients /\ stage[k.client] = "child" /\ conn[k.client] = k.inst

LockInherited == Posix => \A k \in children :
                            ~Unwound(k.inst) => lockOwner = k.inst

\* An instance is at work when it is past its lock, when a detached thread of it
\* still serves a request, or (POSIX) when a child it launched still runs.
AtWork(i) == \/ phase[i] \in Active
             \/ \E c \in Clients : conn[c] = i /\ stage[c] \in InThread
             \/ Posix /\ ChildrenOf(i) # {}

\* Two instances are never at work together, through kills, failed starts and
\* orphaned children, unless one of them has unwound: an error of accept()
\* releases the lock while the instance's threads still serve (main.cc), and
\* nothing keeps a successor from serving next to them.
InstancesExclude == \A i, j \in Instances :
                      AtWork(i) /\ AtWork(j) => i = j \/ Unwound(i) \/ Unwound(j)

\* "Only one gitboard-server instance may run for the same user configuration
\* at a time" (server_spec.md) as it stands: refuted by an instance that has
\* unwound and still serves.
OneInstance == \A i, j \in Instances : AtWork(i) /\ AtWork(j) => i = j

\* The mutex of app.cc makes the gitboard processes of one instance exclusive,
\* the orphans it leaves when it dies included.
OneGitboardPerInstance == \A k, m \in Gitboards : k.inst = m.inst => k = m

\* Across restarts only the inherited flock can keep gitboard exclusive: it
\* does on POSIX as long as no instance has released it by unwinding.
InheritedLockProtects ==
  Posix /\ NoUnwinding => \A k, m \in Gitboards : k = m

IInv == /\ TypeOK
        /\ LockHeld
        /\ ThreadsLive
        /\ MutexHeld
        /\ ChildrenWaited
        /\ LockInherited
        /\ OneGitboardPerInstance

\* server_spec.md, Request Serialization: "the server must never launch
\* multiple `gitboard` child processes concurrently".
NeverTwoGitboards == \A k, m \in Gitboards : k = m

\* Every request is decided at one instant, and no configuration change falls
\* between the resolution of a batch's repository and the end of its commands.
Registry == INSTANCE RepoRegistry
              WITH batches <- {c \in Clients : /\ stage[c] = "child"
                                               /\ request[c].kind = "batch"}
RegistrySpec == Registry!Spec

\* What serialises the requests as long as accept() does not fail: threads run
\* only in the one instance that serves, a request inside a handler is not
\* decided, and the configuration it loaded is still the one on disk.
SerializedInv ==
  /\ \A c \in Clients : stage[c] \in InThread \union {"backlog"} =>
                        phase[conn[c]] \in {"opening", "accepting"}
  /\ \A c \in Clients : stage[c] \in {"idle", "backlog", "reading", "waiting"} \union Holding =>
                        answer[c] = "none"
  /\ \A c \in Clients : stage[c] = "loaded" => loaded[c] = repos

\* Whatever other clients do, stay idle or read nothing included: a connection
\* in the backlog gets its thread, a request that was read gets its answer, for
\* no thread keeps the mutex for ever, and the thread of a client that left ends.
\* (Or all of these end with their instance.)
EveryRequestAnswered ==
  \A c \in Clients :
    /\ stage[c] = "backlog" ~> stage[c] # "backlog"
    /\ stage[c] = "waiting" ~> stage[c] \in {"reply", "closed", "lost"}
    /\ c \in gone ~> stage[c] \in {"closed", "lost"}

\* After an instance has stopped its lock becomes available to a next one.
LockComesBack ==
  \A i \in Instances :
    (phase[i] \in Stopped /\ lockOwner = i) ~> (lockOwner # i)
=============================================================================
