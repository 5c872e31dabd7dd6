---------------------------- MODULE DesktopWrapper ----------------------------
(***************************************************************************)
(* The desktop wrappers of Linux, Windows and macOS: each starts           *)
(* gitboard-server, waits until its page can be opened, shows it in a      *)
(* window, and stops the server at the end.  The server takes the instance *)
(* lock of the user's configuration (see ServerApi), which a server of an  *)
(* earlier launch, or one started by hand, may hold.                       *)
(***************************************************************************)
EXTENDS Naturals, Sequences

CONSTANTS Platforms,   \* "linux", "windows" or "macos"
          MaxLaunches, \* bound: launches of the wrapper
          MaxLooks,    \* times stop_server looks after SIGTERM (50 in the code)
          MaxActs      \* bound: acts of the user, kills, failures

ASSUME WrapperAssumption == /\ Platforms \subseteq {"linux", "windows", "macos"}
                            /\ MaxLaunches \in Nat /\ MaxLooks \in Nat /\ MaxActs \in Nat

VARIABLES platform, \* the operating system
          app,      \* where the wrapper is
          server,   \* the server of each launch
          pipe,     \* lines of the server the wrapper has not read
          page,     \* what the window shows
          told,     \* the launch failed, and the error is or will be shown
          looks,    \* times stop_server has looked
          child,    \* whether a gitboard command or a dialog of each server runs
          lock,     \* the launch whose server took the instance lock, Free or Stranger
          launch,   \* the number of the launch
          ended,    \* how each launch ended
          acts      \* acts so far

vars == <<platform, app, server, pipe, page, told, looks, child, lock, launch, ended, acts>>

-----------------------------------------------------------------------------
Launches == 1..MaxLaunches
Lines == {"greeting", "url", "base", "token", "message"}
Phases == {"off", "reading", "opening", "window", "stopping", "waiting", "alert"}
Alive == {"starting", "serving", "dying"}
Free == 0
Stranger == MaxLaunches + 1
Servers == Alive \union {"none", "dead", "reaped"}

Init == /\ platform \in Platforms
        /\ app = "off" /\ pipe = <<>> /\ page = "none" /\ told = FALSE
        /\ server = [n \in Launches |-> "none"]
        /\ ended = [n \in Launches |-> "not"]
        /\ child = [n \in Launches |-> FALSE]
        /\ looks = 0 /\ lock \in {Free, Stranger}
        /\ launch = 0 /\ acts = 0

Act == acts < MaxActs /\ acts' = acts + 1

Becomes(n, s) == server' = [server EXCEPT ![n] = s]

\* The lock goes with the last descriptor of its file, and on Linux and macOS
\* the server's children have inherited it.
Unlock(n) == lock' = IF lock = n /\ (platform = "windows" \/ ~child[n]) THEN Free ELSE lock
Finish(how) == /\ app' = "off" /\ page' = "none" /\ pipe' = <<>>
               /\ ended' = [ended EXCEPT ![launch] = how]

-----------------------------------------------------------------------------
(* Starting.                                                               *)

\* The helpers are there and the process is created.  The wrapper on macOS
\* chooses port and token itself and does not read the server's lines.
Start ==
  /\ app = "off" /\ launch < MaxLaunches
  /\ launch' = launch + 1
  /\ Becomes(launch + 1, "starting") /\ pipe' = <<>> /\ told' = FALSE /\ looks' = 0
  /\ IF platform = "macos" THEN app' = "window" /\ page' = "loading"
     ELSE app' = "reading" /\ page' = "none"
  /\ UNCHANGED <<platform, child, lock, ended, acts>>

\* Something that is needed before the server starts is missing.
StartFails ==
  /\ app = "off" /\ launch < MaxLaunches /\ Act
  /\ launch' = launch + 1
  /\ app' = "alert" /\ told' = TRUE
  /\ UNCHANGED <<platform, server, pipe, page, looks, child, lock, ended>>

\* read_line: the line that names the URL ends the loop.
ReadLine ==
  /\ app = "reading" /\ pipe # <<>>
  /\ pipe' = Tail(pipe)
  /\ app' = IF Head(pipe) = "url" THEN "opening" ELSE app
  /\ UNCHANGED <<platform, server, page, told, looks, child, lock, launch, ended, acts>>

\* Mutant: the end of the output is taken for a line without the URL.
ReadNothingReadsOn ==
  /\ app = "reading" /\ pipe = <<>> /\ server[launch] = "dead"
  /\ UNCHANGED vars

\* The output or the process has ended; on Linux waitpid may have reaped it.
ReadNothing ==
  /\ app = "reading" /\ pipe = <<>> /\ server[launch] = "dead"
  /\ \/ platform = "linux" /\ Becomes(launch, "reaped")
     \/ UNCHANGED server
  /\ app' = "stopping" /\ told' = TRUE
  /\ UNCHANGED <<platform, pipe, page, looks, child, lock, launch, ended, acts>>

\* The browser and the window are created and the page begins to load.
Open ==
  /\ app = "opening"
  /\ app' = "window" /\ page' = "loading" /\ pipe' = <<>>
  /\ UNCHANGED <<platform, server, told, looks, child, lock, launch, ended, acts>>

\* Mutant: the error is shown and the server stays.
OpenFailsLeaving ==
  /\ app = "opening" /\ Act
  /\ app' = "alert" /\ told' = TRUE
  /\ UNCHANGED <<platform, server, pipe, page, looks, child, lock, launch, ended>>

OpenFails ==
  /\ app = "opening" /\ Act
  /\ app' = "stopping" /\ told' = TRUE
  /\ UNCHANGED <<platform, server, pipe, page, looks, child, lock, launch, ended>>

-----------------------------------------------------------------------------
(* The page.                                                               *)

\* The answer of the server begins to arrive.
Commits ==
  /\ app = "window" /\ page = "loading" /\ server[launch] = "serving"
  /\ page' = "arriving"
  /\ UNCHANGED <<platform, app, server, pipe, told, looks, child, lock, launch, ended, acts>>

Loaded ==
  /\ app = "window" /\ page = "arriving" /\ server[launch] = "serving"
  /\ page' = "loaded"
  /\ UNCHANGED <<platform, app, server, pipe, told, looks, child, lock, launch, ended, acts>>

\* BarnabyChooseLoopbackPort had closed the port: somebody else serves there.
LoadsElsewhere ==
  /\ platform = "macos" /\ Act
  /\ app = "window" /\ page = "loading" /\ server[launch] # "serving"
  /\ page' = "loaded"
  /\ UNCHANGED <<platform, app, server, pipe, told, looks, child, lock, launch, ended>>

\* Linux and Windows do not look at a load that failed, macOS only at one that
\* failed before the answer arrived.
LoadFails ==
  /\ app = "window" /\ server[launch] # "serving"
  /\ page = "arriving" \/ (page = "loading" /\ platform # "macos")
  /\ page' = "broken"
  /\ UNCHANGED <<platform, app, server, pipe, told, looks, child, lock, launch, ended, acts>>

\* macOS tries again while the server runs, and ends when it does not.
LoadGivenUp ==
  /\ platform = "macos"
  /\ app = "window" /\ page = "loading" /\ server[launch] \notin Alive
  /\ app' = "stopping" /\ page' = "none" /\ told' = TRUE
  /\ UNCHANGED <<platform, server, pipe, looks, child, lock, launch, ended, acts>>

\* The user closes the window, or quits.
Close ==
  /\ app = "window" /\ Act
  /\ app' = "stopping" /\ page' = "none"
  /\ UNCHANGED <<platform, server, pipe, told, looks, child, lock, launch, ended>>

-----------------------------------------------------------------------------
(* Stopping.                                                               *)

\* SIGTERM, or TerminateProcess.  The wrapper on macOS does not wait.
StopServer ==
  /\ app = "stopping"
  /\ IF server[launch] \in {"starting", "serving"} THEN Becomes(launch, "dying")
     ELSE UNCHANGED server
  /\ IF platform = "macos" THEN Finish("itself")
     ELSE app' = "waiting" /\ UNCHANGED <<page, pipe, ended>>
  /\ UNCHANGED <<platform, told, looks, child, lock, launch, acts>>

\* The wait finds the process ended, or no such child.
StopEnds ==
  /\ app = "waiting" /\ server[launch] \notin Alive
  /\ Becomes(launch, "reaped")
  /\ IF told THEN app' = "alert" /\ UNCHANGED <<page, pipe, ended>>
     ELSE Finish("itself")
  /\ UNCHANGED <<platform, told, looks, child, lock, launch, acts>>

\* Mutant: a look too many.
StopLooksAgain ==
  /\ app = "waiting" /\ platform = "linux" /\ server[launch] = "dying"
  /\ looks <= MaxLooks
  /\ looks' = looks + 1
  /\ UNCHANGED <<platform, app, server, pipe, page, told, child, lock, launch, ended, acts>>

\* A look every 20 milliseconds.
StopLooks ==
  /\ app = "waiting" /\ platform = "linux" /\ server[launch] = "dying"
  /\ looks < MaxLooks
  /\ looks' = looks + 1
  /\ UNCHANGED <<platform, app, server, pipe, page, told, child, lock, launch, ended, acts>>

\* SIGKILL after the last one.
StopKills ==
  /\ app = "waiting" /\ platform = "linux" /\ server[launch] = "dying"
  /\ looks = MaxLooks
  /\ Becomes(launch, "dead") /\ Unlock(launch)
  /\ UNCHANGED <<platform, app, pipe, page, told, looks, child, launch, ended, acts>>

\* The error was shown and the program returns.
Dismiss ==
  /\ app = "alert"
  /\ Finish("itself")
  /\ UNCHANGED <<platform, server, told, looks, child, lock, launch, acts>>

\* The wrapper is killed, or crashes: nothing stops its server.
Killed ==
  /\ app # "off" /\ Act
  /\ Finish("killed")
  /\ UNCHANGED <<platform, server, told, looks, child, lock, launch>>

-----------------------------------------------------------------------------
(* The servers.                                                            *)

Prints(n, lines) == pipe' = IF n = launch /\ app = "reading" THEN pipe \o lines ELSE pipe

\* run_server prints its lines at once, when it has the lock and listens.
Serve(n) ==
  /\ server[n] = "starting" /\ lock = Free
  /\ Becomes(n, "serving") /\ lock' = n
  /\ Prints(n, <<"greeting", "url", "base", "token">>)
  /\ UNCHANGED <<platform, app, page, told, looks, child, launch, ended, acts>>

\* It does not get the lock, or cannot start for another reason.
Refused(n) ==
  /\ server[n] = "starting"
  /\ IF lock = Free THEN Act ELSE UNCHANGED acts
  /\ Becomes(n, "dead")
  /\ Prints(n, <<"message">>)
  /\ UNCHANGED <<platform, app, page, told, looks, child, lock, launch, ended>>

\* An error, whose unwinding unlocks, or a signal of someone else ends it.
Crashes(n) ==
  /\ server[n] = "serving" /\ Act
  /\ Becomes(n, "dead") /\ (Unlock(n) \/ lock' = IF lock = n THEN Free ELSE lock)
  /\ UNCHANGED <<platform, app, pipe, page, told, looks, child, launch, ended>>

\* The wrapper's signal takes effect.
Dies(n) ==
  /\ server[n] = "dying"
  /\ Becomes(n, "dead") /\ Unlock(n)
  /\ UNCHANGED <<platform, app, pipe, page, told, looks, child, launch, ended, acts>>

\* A request runs a gitboard command or shows a dialog.
Forks(n) ==
  /\ server[n] \in {"serving", "dying"} /\ ~child[n]
  /\ child' = [child EXCEPT ![n] = TRUE]
  /\ UNCHANGED <<platform, app, server, pipe, page, told, looks, lock, launch, ended, acts>>

\* The child ends, perhaps after its server.
ChildEnds(n) ==
  /\ child[n]
  /\ child' = [child EXCEPT ![n] = FALSE]
  /\ lock' = IF lock = n /\ server[n] \notin Alive THEN Free ELSE lock
  /\ UNCHANGED <<platform, app, server, pipe, page, told, looks, launch, ended, acts>>

\* A server that was started by hand ends.
StrangerEnds ==
  /\ lock = Stranger /\ Act
  /\ lock' = Free
  /\ UNCHANGED <<platform, app, server, pipe, page, told, looks, child, launch, ended>>

Wrapper == \/ ReadLine \/ ReadNothing \/ Open \/ Commits \/ Loaded \/ LoadFails
           \/ LoadGivenUp \/ StopServer \/ StopEnds \/ StopLooks \/ StopKills \/ Dismiss
Server(n) == Serve(n) \/ Refused(n) \/ Dies(n)

Next == \/ Start \/ StartFails \/ OpenFails \/ LoadsElsewhere \/ Close \/ Killed \/ StrangerEnds
        \/ Wrapper
        \/ \E n \in Launches : Server(n) \/ Crashes(n) \/ Forks(n) \/ ChildEnds(n)

Spec == Init /\ [][Next]_vars

\* A wrapper that was not killed goes on, a server that started gets as far as
\* its lines or its end, and a signal reaches it.  The user, crashes,
\* children and strangers owe nothing.
FairSpec == Spec /\ WF_vars(Wrapper) /\ \A n \in Launches : WF_vars(Server(n))

-----------------------------------------------------------------------------
\* Every variable holds a value of its kind.
TypeOK ==
  /\ platform \in Platforms /\ app \in Phases
  /\ server \in [Launches -> Servers]
  /\ pipe \in Seq(Lines)
  /\ page \in {"none", "loading", "arriving", "loaded", "broken"} /\ told \in BOOLEAN
  /\ looks \in 0..MaxLooks /\ child \in [Launches -> BOOLEAN]
  /\ lock \in 0..MaxLaunches + 1
  /\ launch \in 0..MaxLaunches /\ ended \in [Launches -> {"not", "itself", "killed"}]
  /\ acts \in 0..MaxActs

\* doc/linux_app.md:94, windows_app.md:31, macos_app.md:19: a launch that ended
\* by itself, after whatever went wrong, leaves no server behind.  What can still
\* refuse the next launch is a child of that server which has inherited the lock,
\* on Linux and macOS (main.cc 85, process.cc 134-167), and nothing on Windows.
\* On macOS the server has only been signalled by then; a wrapper that was killed
\* leaves its server running (BarnabyCef.cc 192-209, BarnabyWin.cc 187-194,
\* BarnabyApp.mm 51-54).
NoServerLeft ==
  \A n \in Launches :
    ended[n] = "itself" =>
      IF platform = "macos" THEN server[n] \notin {"starting", "serving"}
      ELSE /\ server[n] \notin Alive
           /\ lock = n => platform = "linux" /\ child[n]

\* A launch does not hang: it comes to a page that loaded, to the end, or to
\* the error, and to the error or its end, not to a window, when its server
\* ended before it named its URL.  A page that broke stays (see README).
Settled == app \in {"off", "alert"} \/ page \in {"loaded", "broken"}
LaunchSettles == /\ \A n \in Launches : launch = n ~> launch > n \/ Settled
                 /\ app = "reading" /\ server[launch] = "dead" /\ pipe = <<>>
                      ~> app = "alert" \/ app = "off"
=============================================================================
