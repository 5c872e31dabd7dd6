------------------------- MODULE DesktopWrapper_proofs -------------------------
(***************************************************************************)
(* For every number of launches: no launch that ended by itself leaves a   *)
(* server behind.  The invariant says where the wrapper can be while its   *)
(* server is alive, and that the lock taken in the name of a launch is     *)
(* held by its server, while that serves or dies, or by a child of it.     *)
(***************************************************************************)
EXTENDS DesktopWrapper, SequenceTheorems, TLAPS

\* An alert is only shown once the server is gone; launches to come have no
\* server and have not ended, those before the running one have.
Control ==
  /\ app # "off" => launch \in Launches /\ ended[launch] = "not"
  /\ app = "alert" => server[launch] \notin Alive
  /\ app = "waiting" => platform # "macos" /\ server[launch] \notin {"starting", "serving"}
  /\ platform = "macos" => app \notin {"reading", "opening", "waiting"}
  /\ \A n \in Launches : n > launch => server[n] = "none" /\ ended[n] = "not"
  /\ \A n \in Launches : n = lock => \/ server[n] \in {"serving", "dying"}
                                     \/ platform # "windows" /\ child[n]
  /\ \A n \in Launches : child[n] => server[n] \notin {"none", "starting"}
  /\ \A n \in Launches : ended[n] = "itself" => server[n] \notin {"starting", "serving"}
  /\ \A n \in Launches : ended[n] = "itself" /\ platform # "macos" => server[n] \notin Alive

IInv == TypeOK /\ Control

LEMMA LaunchesAreNumbers == /\ Launches \subseteq Nat /\ Free \notin Launches
                            /\ Stranger \notin Launches
                            /\ \A n \in Launches : n <= MaxLaunches
                            /\ \A n \in 0..MaxLaunches : n + 1 <= MaxLaunches => n + 1 \in Launches
  BY WrapperAssumption DEF Launches, Stranger, Free

LEMMA PrintedLines ==
  /\ <<>> \in Seq(Lines) /\ <<"message">> \in Seq(Lines)
  /\ <<"greeting", "url", "base", "token">> \in Seq(Lines)
<1>1. /\ "greeting" \in Lines /\ "url" \in Lines /\ "base" \in Lines /\ "token" \in Lines
      /\ "message" \in Lines
  BY DEF Lines
<1> QED BY <1>1

LEMMA InitIInv == Init => IInv
<1> SUFFICES ASSUME Init PROVE IInv
  OBVIOUS
<1>1. TypeOK
  <2>1. pipe \in Seq(Lines)
    BY PrintedLines DEF Init
  <2>2. lock \in 0..MaxLaunches + 1 /\ 0 \in 0..MaxLooks /\ 0 \in 0..MaxActs
        /\ 0 \in 0..MaxLaunches
    BY WrapperAssumption DEF Init, Free, Stranger
  <2> QED BY <2>1, <2>2 DEF Init, TypeOK, Phases, Servers
<1>2. Control
  BY LaunchesAreNumbers DEF Init, Control, Free, Stranger
<1> QED BY <1>1, <1>2 DEF IInv

\* Types: what is read, then the counters, then the rest.
LEMMA NextPipe == TypeOK /\ [Next]_vars => pipe' \in Seq(Lines)
<1> SUFFICES ASSUME TypeOK, [Next]_vars PROVE pipe' \in Seq(Lines)
  OBVIOUS
<1>1. pipe \in Seq(Lines)
  BY DEF TypeOK
<1>2. CASE UNCHANGED pipe
  BY <1>1, <1>2
<1>3. CASE pipe' = <<>>
  BY <1>3, PrintedLines
<1>4. CASE ReadLine
  BY <1>1, <1>4 DEF ReadLine
<1>5. ASSUME NEW n \in Launches, Serve(n) \/ Refused(n)
      PROVE  pipe' \in Seq(Lines)
  <2>1. pipe \o <<"message">> \in Seq(Lines)
        /\ pipe \o <<"greeting", "url", "base", "token">> \in Seq(Lines)
    BY <1>1, PrintedLines, ConcatProperties
  <2> QED BY <1>1, <1>5, <2>1 DEF Serve, Refused, Prints
<1>6. CASE UNCHANGED vars
  BY <1>1, <1>6 DEF vars
<1> QED
  BY <1>2, <1>3, <1>4, <1>5, <1>6
  DEF Next, Wrapper, Server, Start, StartFails, ReadNothing, Open, OpenFails, Loaded, LoadFails,
      LoadGivenUp, Close, StopServer, StopEnds, StopLooks, StopKills, Dismiss, Killed, Crashes,
      Dies, Forks, ChildEnds, LoadsElsewhere, Commits, StrangerEnds, Finish

LEMMA NextCounters ==
  TypeOK /\ [Next]_vars => /\ acts' \in 0..MaxActs /\ launch' \in 0..MaxLaunches
                           /\ looks' \in 0..MaxLooks
<1> SUFFICES ASSUME TypeOK, [Next]_vars
             PROVE  /\ acts' \in 0..MaxActs /\ launch' \in 0..MaxLaunches
                    /\ looks' \in 0..MaxLooks
  OBVIOUS
<1>1. acts \in 0..MaxActs /\ launch \in 0..MaxLaunches /\ looks \in 0..MaxLooks
  BY DEF TypeOK
<1>2. acts' \in 0..MaxActs
  <2>1. Act => acts' \in 0..MaxActs
    BY <1>1, WrapperAssumption DEF Act
  <2>2. Act \/ acts' = acts
    BY DEF Next, Wrapper, Server, Start, StartFails, ReadLine, ReadNothing, Open, OpenFails,
           Loaded, LoadFails, LoadGivenUp, Close, StopServer, StopEnds, StopLooks, StopKills,
           Dismiss, Killed, Serve, Refused, Crashes, Dies, Forks, ChildEnds,
           LoadsElsewhere, Commits, StrangerEnds, vars
  <2> QED BY <1>1, <2>1, <2>2
<1>3. launch' \in 0..MaxLaunches
  <2>1. launch' = launch \/ (launch < MaxLaunches /\ launch' = launch + 1)
    BY DEF Next, Wrapper, Server, Start, StartFails, ReadLine, ReadNothing, Open, OpenFails,
           Loaded, LoadFails, LoadGivenUp, Close, StopServer, StopEnds, StopLooks, StopKills,
           Dismiss, Killed, Serve, Refused, Crashes, Dies, Forks, ChildEnds,
           LoadsElsewhere, Commits, StrangerEnds, vars
  <2> QED BY <1>1, <2>1, WrapperAssumption
<1>4. looks' \in 0..MaxLooks
  <2>1. looks' = looks \/ looks' = 0 \/ (looks < MaxLooks /\ looks' = looks + 1)
    BY DEF Next, Wrapper, Server, Start, StartFails, ReadLine, ReadNothing, Open, OpenFails,
           Loaded, LoadFails, LoadGivenUp, Close, StopServer, StopEnds, StopLooks, StopKills,
           Dismiss, Killed, Serve, Refused, Crashes, Dies, Forks, ChildEnds,
           LoadsElsewhere, Commits, StrangerEnds, vars
  <2> QED BY <1>1, <2>1, WrapperAssumption
<1> QED BY <1>2, <1>3, <1>4

LEMMA NextTypes == IInv /\ [Next]_vars => TypeOK'
<1> SUFFICES ASSUME TypeOK, [Next]_vars PROVE TypeOK'
  BY DEF IInv
<1>0. /\ pipe' \in Seq(Lines) /\ acts' \in 0..MaxActs /\ launch' \in 0..MaxLaunches
      /\ looks' \in 0..MaxLooks
  BY NextPipe, NextCounters
<1> DEFINE Kinds ==
      /\ platform \in Platforms /\ app \in Phases
      /\ server \in [Launches -> Servers]
      /\ page \in {"none", "loading", "arriving", "loaded", "broken"} /\ told \in BOOLEAN
      /\ child \in [Launches -> BOOLEAN]
      /\ lock \in 0..MaxLaunches + 1
      /\ ended \in [Launches -> {"not", "itself", "killed"}]
<1>1. Kinds
  BY DEF TypeOK
<1> SUFFICES Kinds'
  BY <1>0 DEF TypeOK
<1> USE <1>1 DEF Phases, Servers, Alive, Becomes, Unlock, Finish
<1>2. Free \in 0..MaxLaunches + 1 /\ Launches \subseteq 0..MaxLaunches + 1
  BY WrapperAssumption DEF Free, Launches
<1>3. CASE Start \/ StartFails
  BY <1>3 DEF Start, StartFails
<1>4. CASE ReadLine \/ ReadNothing \/ Open \/ OpenFails
  BY <1>4 DEF ReadLine, ReadNothing, Open, OpenFails
<1>5. CASE Commits \/ Loaded \/ LoadsElsewhere \/ LoadFails \/ LoadGivenUp \/ Close
  BY <1>5 DEF Commits, Loaded, LoadsElsewhere, LoadFails, LoadGivenUp, Close
<1>6. CASE StopServer \/ StopEnds \/ StopLooks
  BY <1>6 DEF StopServer, StopEnds, StopLooks
<1>7. CASE StopKills \/ Dismiss \/ Killed
  BY <1>2, <1>7 DEF StopKills, Dismiss, Killed
<1>8. ASSUME NEW n \in Launches, Serve(n) \/ Refused(n) \/ Crashes(n) \/ Dies(n)
      PROVE  Kinds'
  BY <1>2, <1>8 DEF Serve, Refused, Crashes, Dies
<1>9. CASE StrangerEnds \/ UNCHANGED vars
  BY <1>2, <1>9 DEF StrangerEnds, vars
<1>10. ASSUME NEW n \in Launches, Forks(n) \/ ChildEnds(n)
       PROVE  Kinds'
  BY <1>2, <1>10 DEF Forks, ChildEnds
<1> QED
  BY <1>3, <1>4, <1>5, <1>6, <1>7, <1>8, <1>9, <1>10 DEF Next, Wrapper, Server

\* What the wrapper knows of its server; the lines it reads play no part.
LEMMA NextControl == IInv /\ [Next]_vars => Control'
<1> SUFFICES ASSUME IInv, [Next]_vars PROVE Control'
  OBVIOUS
<1>0. /\ server \in [Launches -> Servers] /\ ended \in [Launches -> {"not", "itself", "killed"}]
      /\ launch \in 0..MaxLaunches /\ platform \in {"linux", "windows", "macos"}
      /\ Control /\ child \in [Launches -> BOOLEAN]
  BY WrapperAssumption DEF IInv, TypeOK
<1> HIDE DEF IInv
<1> USE <1>0, LaunchesAreNumbers DEF Control, Alive, Servers, Free, Becomes, Unlock, Finish
<1>1. CASE Start
  <2>1. launch + 1 \in Launches /\ launch' = launch + 1 /\ launch \in Nat
    BY <1>1, WrapperAssumption DEF Start
  <2>2. server' = [server EXCEPT ![launch + 1] = "starting"] /\ app = "off"
        /\ UNCHANGED <<platform, child, lock, ended>>
    BY <1>1 DEF Start
  <2>3. app' = IF platform = "macos" THEN "window" ELSE "reading"
    BY <1>1 DEF Start
  <2>4. \A n \in Launches : n > launch + 1 => n > launch /\ n # launch + 1
    BY <2>1
  <2> QED BY <2>1, <2>2, <2>3, <2>4
<1>2. CASE StartFails
  <2>1. launch + 1 \in Launches /\ launch' = launch + 1 /\ launch \in Nat
    BY <1>2, WrapperAssumption DEF StartFails
  <2>2. \A n \in Launches : n > launch + 1 => n > launch /\ n # launch + 1
    BY <2>1
  <2> QED BY <1>2, <2>1, <2>2 DEF StartFails
<1>3. CASE ReadLine
  BY <1>3 DEF ReadLine
<1>4. CASE ReadNothing
  BY <1>4 DEF ReadNothing
<1>5. CASE Open \/ OpenFails
  BY <1>5 DEF Open, OpenFails
<1>7. CASE Commits \/ Loaded \/ LoadsElsewhere \/ LoadFails \/ LoadGivenUp \/ Close
  BY <1>7 DEF Commits, Loaded, LoadsElsewhere, LoadFails, LoadGivenUp, Close
<1>8. CASE StopServer
  BY <1>8 DEF StopServer
<1>9. CASE StopEnds
  BY <1>9 DEF StopEnds
<1>10. CASE StopLooks
  BY <1>10 DEF StopLooks
<1>11. CASE StopKills
  BY <1>11 DEF StopKills
<1>12. CASE Dismiss
  BY <1>12 DEF Dismiss
<1>13. CASE Killed
  BY <1>13 DEF Killed
<1>14. ASSUME NEW n \in Launches, Serve(n) \/ Refused(n)
       PROVE  Control'
  <2>1. CASE Serve(n)
    <3>1. /\ server[n] = "starting" /\ server' = [server EXCEPT ![n] = "serving"]
          /\ lock' = n /\ UNCHANGED <<platform, app, child, launch, ended>>
      BY <2>1 DEF Serve
    <3>2. \A m \in Launches : server'[m] = IF m = n THEN "serving" ELSE server[m]
      BY <3>1
    <3> QED BY <3>1, <3>2
  <2>2. CASE Refused(n)
    BY <2>2 DEF Refused
  <2> QED BY <1>14, <2>1, <2>2
<1>16. ASSUME NEW n \in Launches, Crashes(n) \/ Dies(n)
       PROVE  Control'
  BY <1>16 DEF Crashes, Dies
<1>17. CASE StrangerEnds
  BY <1>17 DEF StrangerEnds
<1>18. CASE UNCHANGED vars
  BY <1>18 DEF vars
<1>19. ASSUME NEW n \in Launches, Forks(n) \/ ChildEnds(n)
       PROVE  Control'
  <2>1. UNCHANGED <<platform, app, server, launch, ended>> /\ server[n] \notin {"none", "starting"}
    BY <1>19 DEF Forks, ChildEnds
  <2>2. CASE Forks(n)
    BY <2>1, <2>2 DEF Forks
  <2>3. CASE ChildEnds(n)
    <3>1. /\ child[n] /\ child' = [child EXCEPT ![n] = FALSE]
          /\ lock' = IF lock = n /\ server[n] \notin {"starting", "serving", "dying"} THEN 0
                     ELSE lock
      BY <2>3 DEF ChildEnds
    <3>2. /\ \A m \in Launches : child'[m] = (m # n /\ child[m])
          /\ \A m \in Launches : m = lock' => m = lock
      BY <3>1
    <3>3. lock' = n => server[n] \in {"serving", "dying"}
      BY <2>1, <3>1
    <3> QED BY <2>1, <3>2, <3>3
  <2> QED BY <1>19, <2>2, <2>3
<1> QED
  BY <1>1, <1>2, <1>3, <1>4, <1>5, <1>7, <1>8, <1>9, <1>10, <1>11, <1>12, <1>13,
     <1>14, <1>16, <1>17, <1>18, <1>19 DEF Next, Wrapper, Server

LEMMA NextIInv == IInv /\ [Next]_vars => IInv'
  BY NextTypes, NextControl DEF IInv

LEMMA Implied == IInv => TypeOK /\ NoServerLeft
  BY WrapperAssumption DEF TypeOK, IInv, Control, NoServerLeft, Alive

\* Every variable of the wrapper and its servers keeps its type.
THEOREM TypeCorrect == Spec => []TypeOK
  BY InitIInv, NextIInv, Implied, PTL DEF Spec

\* Whatever failed in between, a launch that ended by itself leaves no server
\* that runs (on macOS: none that was not signalled), and the lock only to a
\* child which inherited it, on no other platform than the code lets inherit it.
THEOREM NoneLeft == Spec => []NoServerLeft
  BY InitIInv, NextIInv, Implied, PTL DEF Spec

-----------------------------------------------------------------------------
(* Why a launch comes to an end.                                           *)

\* What is left of a launch: where the wrapper is, then what can become of its
\* server, then lines to read and looks to take.
AppRank == CASE app = "reading" -> 8
             [] app = "opening" -> 7
             [] app = "window" -> IF page = "loading" THEN 6
                                  ELSE IF page = "arriving" THEN 5 ELSE 4
             [] app = "stopping" -> 3
             [] app = "waiting" -> 2
             [] app = "alert" -> 1
             [] OTHER -> 0
ServerRank == CASE server[launch] = "starting" -> 3
                [] server[launch] = "serving" -> 2
                [] server[launch] = "dying" -> 1
                [] OTHER -> 0
Rank == <<AppRank, ServerRank, Len(pipe) + (MaxLooks - looks)>>
Lower(a, b) == \/ a[1] < b[1]
               \/ a[1] = b[1] /\ a[2] < b[2]
               \/ a[1] = b[1] /\ a[2] = b[2] /\ a[3] < b[3]

LEMMA RankType == ASSUME TypeOK PROVE Rank \in Nat \X Nat \X Nat
<1>1. AppRank \in Nat /\ ServerRank \in Nat
  BY DEF AppRank, ServerRank
<1>2. Len(pipe) \in Nat
  BY LenProperties DEF TypeOK
<1>3. Len(pipe) + (MaxLooks - looks) \in Nat
  BY <1>2, WrapperAssumption DEF TypeOK
<1> QED BY <1>1, <1>3 DEF Rank

LEMMA WrapperLowers ==
  ASSUME IInv, Wrapper
  PROVE  app' = "off" \/ Lower(Rank', Rank)
<1>1. CASE ReadLine /\ Head(pipe) = "url"
  <2>1. AppRank' < AppRank
    BY <1>1 DEF ReadLine, AppRank
  <2> QED BY <2>1 DEF Lower, Rank
<1>2. CASE ReadLine /\ Head(pipe) # "url"
  <2>1. AppRank' = AppRank /\ ServerRank' = ServerRank /\ looks' = looks
    BY <1>2 DEF ReadLine, AppRank, ServerRank
  <2>2. Len(pipe) \in Nat /\ Len(pipe') = Len(pipe) - 1
    <3>1. pipe \in Seq(Lines)
      BY DEF IInv, TypeOK
    <3> QED BY <1>2, <3>1, HeadTailProperties, LenProperties DEF ReadLine
  <2>3. MaxLooks - looks \in Nat
    BY WrapperAssumption DEF IInv, TypeOK
  <2> QED BY <2>1, <2>2, <2>3 DEF Lower, Rank
<1>3. CASE StopLooks
  <2>1. AppRank' = AppRank /\ ServerRank' = ServerRank
    BY <1>3 DEF StopLooks, AppRank, ServerRank
  <2>2. Len(pipe) \in Nat /\ pipe' = pipe
    BY <1>3, LenProperties DEF StopLooks, IInv, TypeOK
  <2>3. looks \in Nat /\ looks < MaxLooks /\ MaxLooks \in Nat /\ looks' = looks + 1
    BY <1>3, WrapperAssumption DEF StopLooks, IInv, TypeOK
  <2> QED BY <2>1, <2>2, <2>3 DEF Lower, Rank
<1>4. CASE StopKills
  <2>1. app # "off" /\ launch \in Launches /\ server \in [Launches -> Servers]
    BY <1>4 DEF StopKills, IInv, Control, TypeOK
  <2>2. AppRank' = AppRank /\ ServerRank' < ServerRank
    BY <1>4, <2>1 DEF StopKills, AppRank, ServerRank, Becomes
  <2> QED BY <2>2 DEF Lower, Rank
<1>5. CASE \/ ReadNothing \/ Open \/ Commits \/ Loaded \/ LoadFails \/ LoadGivenUp
           \/ StopServer \/ StopEnds \/ Dismiss
  <2>1. app' = "off" \/ AppRank' < AppRank
    BY <1>5 DEF ReadNothing, Open, Commits, Loaded, LoadFails, LoadGivenUp, StopServer, StopEnds,
                Dismiss, Finish, AppRank
  <2> QED BY <2>1 DEF Lower, Rank
<1> QED BY <1>1, <1>2, <1>3, <1>4, <1>5 DEF Wrapper

\* Others can only leave less of it: its own server starts, or ends, once.
LEMMA NothingRaises ==
  ASSUME IInv, [Next]_vars, app # "off"
  PROVE  app' = "off" \/ Lower(Rank', Rank) \/ Rank' = Rank
<1>0. launch \in Launches /\ server \in [Launches -> Servers]
  BY DEF IInv, Control, TypeOK
<1>1. CASE Wrapper
  BY <1>1, WrapperLowers
<1>2. CASE OpenFails \/ LoadsElsewhere \/ Close \/ Killed
  <2>1. app' = "off" \/ AppRank' < AppRank
    BY <1>2 DEF OpenFails, LoadsElsewhere, Close, Killed, Finish, AppRank
  <2> QED BY <2>1 DEF Lower, Rank
<1>3. ASSUME NEW n \in Launches, Server(n) \/ Crashes(n), n = launch
      PROVE  Lower(Rank', Rank)
  <2>1. AppRank' = AppRank
    BY <1>3 DEF Server, Serve, Refused, Dies, Crashes, AppRank
  <2>2. ServerRank' < ServerRank
    BY <1>0, <1>3 DEF Server, Serve, Refused, Dies, Crashes, Becomes, ServerRank
  <2> QED BY <2>1, <2>2 DEF Lower, Rank
<1>4. ASSUME NEW n \in Launches, Server(n) \/ Crashes(n), n # launch
      PROVE  Rank' = Rank
  BY <1>0, <1>4 DEF Server, Serve, Refused, Dies, Crashes, Becomes, Prints, AppRank, ServerRank,
                    Rank
<1>5. CASE \/ StrangerEnds \/ UNCHANGED vars
           \/ \E n \in Launches : Forks(n) \/ ChildEnds(n)
  BY <1>5 DEF StrangerEnds, Forks, ChildEnds, vars, Rank, AppRank, ServerRank
<1> QED BY <1>1, <1>2, <1>3, <1>4, <1>5 DEF Next, Start, StartFails

\* No launch goes on for ever: every step of the wrapper leaves less of it to
\* do, and no step of the user, of a server or of anybody else more, whatever
\* is printed and however often it looks.
THEOREM LaunchesEnd ==
  Spec => /\ [](Rank \in Nat \X Nat \X Nat)
          /\ [][Wrapper => app' = "off" \/ Lower(Rank', Rank)]_vars
          /\ [][app # "off" => app' = "off" \/ Lower(Rank', Rank) \/ Rank' = Rank]_vars
<1>1. IInv => Rank \in Nat \X Nat \X Nat
  BY RankType DEF IInv
<1>2. IInv /\ [Next]_vars => [Wrapper => app' = "off" \/ Lower(Rank', Rank)]_vars
  BY WrapperLowers
<1>3. IInv /\ [Next]_vars =>
        [app # "off" => app' = "off" \/ Lower(Rank', Rank) \/ Rank' = Rank]_vars
  BY NothingRaises
<1> QED BY <1>1, <1>2, <1>3, InitIInv, NextIInv, PTL DEF Spec
===============================================================================
