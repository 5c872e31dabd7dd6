----------------------------- MODULE TaskDb_proofs -----------------------------
(***************************************************************************)
(* Theorems about TaskDb for any number of processes, ids and commands:    *)
(* types, no leftover and no torn files, and, when processes run one at a  *)
(* time or work on different tasks, that batches are sequences of the      *)
(* atomic commands of Board.                                               *)
(***************************************************************************)
EXTENDS TaskDb, TLAPS

USE DEF Initialising

\* Every command turns a task into a task.
LEMMA UpdatedType ==
  ASSUME NEW t \in Tasks, NEW c \in Commands, c.cmd \in Updates, NEW m \in Marks
  PROVE  Updated(t, c, m) \in Tasks
BY DEF Updated, Tasks, Commands, Updates

LEMMA NewTaskType == NewTask \in Tasks /\ NewTask # NoTask
<1>1. NewTask \in Tasks
  BY StatusAssumption DEF NewTask, Tasks
<1> QED BY <1>1, NoneAssumption

\* The command a process is at is one of its script.
LEMMA AtCommand ==
  ASSUME TypeOK, NEW p \in Procs, ran[p] < Len(script[p])
  PROVE  /\ Command(p) \in Commands
         /\ Mark(p) \in Marks
<1>1. script[p] \in Seq(Commands) /\ Len(script[p]) <= MaxLen /\ ran[p] \in Nat /\ MaxLen \in Nat
  BY ScriptAssumption DEF TypeOK
<1>2. ran[p] + 1 \in 1..Len(script[p]) /\ ran[p] + 1 \in 1..MaxLen
  BY <1>1
<1> QED BY <1>1, <1>2 DEF Command, Mark, Marks

LEMMA InitIInv == Init => IInv
<1> SUFFICES ASSUME Init PROVE IInv
  OBVIOUS
<1> USE NewTaskType, ScriptAssumption DEF Init
<1>1. TypeOK
  <2>1. files \in [Ids -> Tasks \union {NoTask}] /\ draft \in [Procs -> Tasks]
    OBVIOUS
  <2>2. \A p \in Procs : script[p] \in Seq(Commands)
    OBVIOUS
  <2>3. ran \in [Procs -> Nat] /\ \A p \in Procs : ran[p] <= Len(script[p])
    BY <2>2
  <2>4. pc \in [Procs -> Points]
    BY DEF Points
  <2> QED BY <2>1, <2>3, <2>4 DEF TypeOK
<1>2. TempsOwned
  BY DEF TempsOwned
<1>3. \A p \in Procs : pc[p] \notin InCreate \union Saving
  BY DEF InCreate, Saving
<1> QED BY <1>1, <1>2, <1>3 DEF IInv

\* A step that writes no task file and leaves the saving processes alone.
LEMMA Quiet ==
  ASSUME IInv, TypeOK', NEW p \in Procs, NEW point \in Points, Goto(p, point),
         UNCHANGED <<script, files, ran, target>>,
         point \in InCreate => ran[p] < Len(script[p]) /\ Command(p).cmd = "create",
         point \in Saving => pc[p] \in Saving,
         TempsOwned'
  PROVE  IInv'
<1>1. \A q \in Procs : pc'[q] \in InCreate => ran[q] < Len(script[q]) /\ Command(q).cmd = "create"
  BY DEF IInv, TypeOK, Goto
<1>2. \A q \in Procs : pc'[q] \in Saving => pc[q] \in Saving
  BY DEF IInv, TypeOK, Goto
<1>3. ASSUME NEW q \in Procs, pc'[q] \in Saving PROVE Knows(q)'
  <2>1. pc[q] \in Saving /\ Knows(q)
    BY <1>2, <1>3 DEF IInv
  <2> QED BY <1>2, <2>1 DEF Knows, Command
<1> QED BY <1>1, <1>3 DEF IInv, Command

LEMMA StepIInv == IInv /\ [Next]_vars => IInv'
<1> SUFFICES ASSUME IInv, [Next]_vars PROVE IInv'
  OBVIOUS
<1> USE NewTaskType DEF boardVars
<1>1. ASSUME NEW p \in Procs, Start(p) PROVE IInv'
  <2>1. TypeOK' /\ TempsOwned'
    BY <1>1 DEF Start, Goto, IInv, TypeOK, TempsOwned, Mark, Points, Running, Saving
  <2> QED BY <1>1, <2>1, Quiet DEF Start, Points, Running, InCreate, Saving
<1>2. ASSUME NEW p \in Procs, Done(p) \/ Malformed(p) \/ Refuse(p) PROVE IInv'
  <2>0. PICK point \in {"done", "thrown", "refused"} : Goto(p, point)
    BY <1>2 DEF Done, Malformed, Refuse, Finish
  <2>1. TypeOK'
    BY <1>2, <2>0 DEF Done, Malformed, Refuse, Finish, Goto, IInv, TypeOK, Points, Ended
  <2>3. pc[p] \in {"next", "choose"} /\ UNCHANGED <<temps, ran>>
    BY <1>2 DEF Done, Malformed, Refuse, Finish
  <2>4. TempsOwned'
    BY <2>0, <2>3 DEF Goto, IInv, TypeOK, TempsOwned, Mark, Marks
  <2>2. UNCHANGED <<script, files, ran, target>>
    BY <1>2 DEF Done, Malformed, Refuse, Finish
  <2> QED BY <2>0, <2>1, <2>2, <2>4, Quiet DEF Points, Ended, InCreate, Saving
<1>3. ASSUME NEW p \in Procs, EnsureDir(p) \/ MakeDir(p) \/ WriteStatuses(p) \/ WriteTeam(p) PROVE IInv'
  <2>0. PICK point \in InCreate : Goto(p, point)
    BY <1>3 DEF EnsureDir, MakeDir, WriteStatuses, WriteTeam, InCreate
  <2>1. TypeOK'
    BY <1>3, <2>0 DEF EnsureDir, MakeDir, WriteStatuses, WriteTeam, Goto, IInv, TypeOK,
                      Points, Running, InCreate
  <2>3. pc[p] \notin {"crashed", "write", "rename"} /\ UNCHANGED <<temps, ran>>
    BY <1>3 DEF EnsureDir, MakeDir, WriteStatuses, WriteTeam
  <2>4. TempsOwned'
    BY <2>0, <2>3 DEF Goto, IInv, TypeOK, TempsOwned, Mark, Marks
  <2>2. /\ UNCHANGED <<script, files, ran, target>>
        /\ ran[p] < Len(script[p]) /\ Command(p).cmd = "create"
    BY <1>3 DEF EnsureDir, MakeDir, WriteStatuses, WriteTeam, IInv, InCreate
  <2> QED BY <2>0, <2>1, <2>2, <2>4, Quiet DEF Points, Running, InCreate, Saving
<1>4. ASSUME NEW p \in Procs, CreateTemp(p) \/ WriteTemp(p) PROVE IInv'
  <2>0. PICK point \in {"write", "rename"} : Goto(p, point) /\ pc[p] \in Saving
    BY <1>4 DEF CreateTemp, WriteTemp, Saving
  <2>1. Mark(p) \in Marks
    BY <2>0, AtCommand DEF IInv, Knows
  <2>2. TypeOK'
    BY <1>4, <2>0, <2>1 DEF CreateTemp, WriteTemp, Goto, IInv, TypeOK, Points, Running, Saving
  <2>3. TempsOwned'
    BY <1>4, <2>0 DEF CreateTemp, WriteTemp, Goto, IInv, TypeOK, TempsOwned, Mark, Marks
  <2>4. UNCHANGED <<script, files, ran, target>>
    BY <1>4 DEF CreateTemp, WriteTemp
  <2> QED BY <2>0, <2>2, <2>3, <2>4, Quiet DEF Points, Running, InCreate, Saving
<1>5. ASSUME NEW p \in Procs, WriteFails(p) \/ Crash(p) PROVE IInv'
  <2>0. PICK point \in {"ioerror", "crashed"} : Goto(p, point)
    BY <1>5 DEF WriteFails, Finish, Crash
  <2>1. TypeOK'
    <3>1. CASE WriteFails(p)
      BY <3>1 DEF WriteFails, Finish, Goto, IInv, TypeOK, Points, Ended
    <3>2. CASE Crash(p)
      BY <3>2 DEF Crash, Goto, IInv, TypeOK, Points, Ended
    <3> QED BY <1>5, <3>1, <3>2
  <2>5. TempsOwned'
    <3> SUFFICES ASSUME NEW m \in temps'
                 PROVE  pc'[m[1]] = "crashed" \/ (pc'[m[1]] \in {"write", "rename"} /\ m = Mark(m[1])')
      BY DEF TempsOwned
    <3>1. m \in temps /\ m[1] \in Procs /\ Mark(m[1])' = Mark(m[1])
      BY <1>5 DEF WriteFails, Finish, Crash, IInv, TypeOK, Mark, Marks
    <3>2. CASE m[1] = p
      BY <1>5, <3>1, <3>2 DEF WriteFails, Finish, Crash, Goto, IInv, TypeOK, TempsOwned, Running, Saving
    <3>3. CASE m[1] # p
      <4>1. pc'[m[1]] = pc[m[1]]
        BY <2>0, <3>1, <3>3 DEF Goto, IInv, TypeOK
      <4> QED BY <3>1, <4>1 DEF IInv, TempsOwned
    <3> QED BY <3>2, <3>3
  <2>2. UNCHANGED <<script, files, ran, target>>
    BY <1>5 DEF WriteFails, Finish, Crash
  <2> QED BY <2>0, <2>1, <2>2, <2>5, Quiet DEF Points, Ended, InCreate, Saving
<1>6. ASSUME NEW p \in Procs, List(p) PROVE IInv'
  <2>1. TypeOK' /\ TempsOwned'
    BY <1>6, ScriptAssumption DEF List, IInv, TypeOK, TempsOwned, Mark
  <2>2. \A q \in Procs : pc[q] \in InCreate \union Saving => q # p
    BY <1>6 DEF List, InCreate, Saving
  <2>3. \A q \in Procs : q # p => ran'[q] = ran[q]
    BY <1>6 DEF List, IInv, TypeOK
  <2> QED BY <1>6, <2>1, <2>2, <2>3 DEF List, IInv, Knows, Command
<1>7. ASSUME NEW p \in Procs, Load(p) PROVE IInv'
  <2>1. Command(p) \in Commands /\ Mark(p) \in Marks /\ Command(p).cmd \in Updates
    BY <1>7, AtCommand DEF Load, IInv
  <2>2. Command(p).task \in Ids /\ files[Command(p).task] # NoTask
    BY <1>7, <2>1 DEF Load, Refused, Loadable, Commands
  <2>3. files[Command(p).task] \in Tasks
    BY <2>2 DEF IInv, TypeOK
  <2>4. TypeOK'
    BY <1>7, <2>1, <2>2, <2>3, UpdatedType DEF Load, Goto, IInv, TypeOK, Points, Running, Saving
  <2>5. TempsOwned'
    BY <1>7 DEF Load, Goto, IInv, TypeOK, TempsOwned, Mark
  <2>6. \A q \in Procs : q # p => pc'[q] = pc[q] /\ target'[q] = target[q]
    BY <1>7 DEF Load, Goto, IInv, TypeOK
  <2>7. pc'[p] = "save" /\ target'[p] = Command(p).task
    BY <1>7 DEF Load, Goto, IInv, TypeOK
  <2>8. Knows(p)'
    BY <1>7, <2>1, <2>2, <2>7 DEF Load, Knows, Command
  <2>9. ASSUME NEW q \in Procs, q # p, pc'[q] \in Saving PROVE Knows(q)'
    <3>1. Knows(q)
      BY <2>6, <2>9 DEF IInv
    <3> QED BY <1>7, <2>2, <2>6, <2>7, <3>1 DEF Load, Knows, Command
  <2> QED BY <1>7, <2>4, <2>5, <2>6, <2>7, <2>8, <2>9 DEF Load, IInv, InCreate, Command
<1>8. ASSUME NEW p \in Procs, NEW id \in Ids, Choose(p, id) PROVE IInv'
  <2>1. TypeOK' /\ TempsOwned'
    BY <1>8 DEF Choose, Goto, IInv, TypeOK, TempsOwned, Mark, Points, Running, Saving
  <2>2. /\ \A q \in Procs : q # p => pc'[q] = pc[q] /\ target'[q] = target[q]
        /\ pc'[p] = "save" /\ target'[p] = id
    BY <1>8 DEF Choose, Goto, IInv, TypeOK
  <2>3. ran[p] < Len(script[p]) /\ Command(p).cmd = "create"
    BY <1>8 DEF Choose, IInv, InCreate
  <2>4. Knows(p)'
    BY <1>8, <2>2, <2>3 DEF Choose, Knows, Command
  <2>5. ASSUME NEW q \in Procs, q # p, pc'[q] \in Saving PROVE Knows(q)'
    <3>1. Knows(q)
      BY <2>2, <2>5 DEF IInv
    <3>2. UNCHANGED <<script, files, ran>>
      BY <1>8 DEF Choose, boardVars
    <3> QED BY <2>2, <2>5, <3>1, <3>2 DEF Knows, Command
  <2> QED BY <1>8, <2>1, <2>2, <2>4, <2>5 DEF Choose, IInv, InCreate, Command
<1>9. ASSUME NEW p \in Procs, Rename(p) PROVE IInv'
  <2>0. Knows(p)
    BY <1>9 DEF Rename, IInv, Saving
  <2>1. TypeOK'
    <3>1. target[p] \in Ids /\ draft[p] \in Tasks
      BY <2>0, AtCommand DEF IInv, TypeOK, Knows, Commands
    <3>2. files' \in [Ids -> Tasks \union {NoTask}] /\ temps' \subseteq Marks
      BY <1>9, <3>1 DEF Rename, IInv, TypeOK
    <3>3. ran' \in [Procs -> Nat] /\ \A q \in Procs : ran'[q] <= Len(script[q])
      BY <1>9, <2>0, ScriptAssumption DEF Rename, IInv, TypeOK, Knows
    <3> QED BY <1>9, <3>2, <3>3 DEF Rename, Goto, IInv, TypeOK, Points, Running
  <2>2. /\ \A q \in Procs : q # p => pc'[q] = pc[q] /\ ran'[q] = ran[q]
        /\ pc'[p] = "next"
    BY <1>9 DEF Rename, Goto, IInv, TypeOK
  <2>3. TempsOwned'
    BY <1>9, <2>2 DEF Rename, IInv, TypeOK, TempsOwned, Mark, Marks
  <2>4. draft[p] \in Tasks /\ draft[p] # NoTask
    BY NoneAssumption DEF IInv, TypeOK
  <2>5. ASSUME NEW q \in Procs, pc'[q] \in Saving PROVE Knows(q)'
    <3>1. q # p /\ pc[q] \in Saving /\ Knows(q)
      BY <2>2, <2>5 DEF IInv, Saving
    <3>2. CASE Command(q).cmd \in Updates
      BY <1>9, <2>2, <2>4, <3>1, <3>2 DEF Rename, Knows, Command, IInv, TypeOK, Updates
    <3>3. CASE Command(q).cmd = "create"
      BY <1>9, <2>2, <3>1, <3>3 DEF Rename, Knows, Command, Updates
    <3> QED BY <3>1, <3>2, <3>3 DEF Knows
  <2> QED BY <1>9, <2>1, <2>2, <2>3, <2>5 DEF Rename, IInv, InCreate, Command
<1>10. CASE UNCHANGED vars
  BY <1>10 DEF vars, procVars, IInv, TypeOK, TempsOwned, Mark, Knows, Command
<1> QED
  BY <1>1, <1>2, <1>3, <1>4, <1>5, <1>6, <1>7, <1>8, <1>9, <1>10 DEF Next, Step
THEOREM Invariant == Spec => []IInv
BY InitIInv, StepIInv, PTL DEF Spec

\* The variables keep their types.
THEOREM TypeCorrect == Spec => []TypeOK
<1>1. IInv => TypeOK
  BY DEF IInv
<1> QED BY <1>1, Invariant, PTL

\* Only a process that died leaves a temporary file behind.
THEOREM Leftovers == Spec => []NoLeftovers
<1>1. IInv => NoLeftovers
  BY DEF IInv, TempsOwned, NoLeftovers
<1> QED BY <1>1, Invariant, PTL

-----------------------------------------------------------------------------
(* No torn file: an empty title comes from the command that asked for it.  *)

Asked(id) == \E p \in Procs, k \in 1..MaxLen :
               /\ k <= Len(script[p])
               /\ script[p][k].cmd = "title" /\ script[p][k].title = "" /\ script[p][k].task = id

DraftsAsked == \A p \in Procs : pc[p] \in Saving /\ draft[p].title = "" => Asked(target[p])

LEMMA StepAsked ==
  ASSUME IInv, [Next]_vars, DraftsAsked, NoTornFile
  PROVE  DraftsAsked' /\ NoTornFile'
<1>0. script' = script
  BY DEF Next, Step, vars, Start, Done, Malformed, Load, Refuse, List, EnsureDir, MakeDir, WriteStatuses,
         WriteTeam, Choose, CreateTemp, WriteTemp, Rename, WriteFails, Crash, Finish
<1>1. \A id : Asked(id)' <=> Asked(id)
  BY <1>0 DEF Asked
<1>2. ASSUME NEW p \in Procs, Load(p) PROVE DraftsAsked' /\ NoTornFile'
  <2>1. /\ Command(p) \in Commands /\ Command(p).cmd \in Updates
        /\ ran[p] + 1 \in 1..MaxLen /\ ran[p] + 1 <= Len(script[p])
    BY <1>2, AtCommand DEF Load, IInv, Mark, Marks, TypeOK
  <2>2. Loadable(files[Command(p).task]) /\ files[Command(p).task] \in Tasks
    BY <1>2, <2>1 DEF Load, Refused, IInv, TypeOK, Loadable, Commands
  <2>3. Updated(files[Command(p).task], Command(p), Mark(p)).title = "" =>
          Command(p).cmd = "title" /\ Command(p).title = ""
    BY <2>1, <2>2 DEF Updated, Loadable, Updates, Tasks
  <2>4. draft'[p].title = "" => Asked(Command(p).task)
    <3>1. draft'[p] = Updated(files[Command(p).task], Command(p), Mark(p))
      BY <1>2 DEF Load, IInv, TypeOK
    <3> QED BY <2>1, <2>3, <3>1 DEF Asked, Command
  <2>5. /\ target'[p] = Command(p).task
        /\ \A q \in Procs : q # p => UNCHANGED <<pc[q], draft[q], target[q]>>
    BY <1>2 DEF Load, Goto, IInv, TypeOK
  <2>7. files' = files
    BY <1>2 DEF Load, boardVars
  <2>6. NoTornFile'
    BY <1>1, <2>7 DEF NoTornFile, Asked, Loadable
  <2> QED BY <1>1, <2>4, <2>5, <2>6 DEF DraftsAsked
<1>3. ASSUME NEW p \in Procs, NEW id \in Ids, Choose(p, id) PROVE DraftsAsked' /\ NoTornFile'
  <2>1. /\ draft'[p].title = "ok"
        /\ \A q \in Procs : q # p => UNCHANGED <<pc[q], draft[q], target[q]>>
    BY <1>3 DEF Choose, Goto, IInv, TypeOK, NewTask
  <2>7. files' = files
    BY <1>3 DEF Choose, boardVars
  <2>2. NoTornFile'
    BY <1>1, <2>7 DEF NoTornFile, Asked, Loadable
  <2> QED BY <1>1, <2>1, <2>2 DEF DraftsAsked
<1>4. ASSUME NEW p \in Procs, Rename(p) PROVE DraftsAsked' /\ NoTornFile'
  <2>1. \A q \in Procs : pc'[q] \in Saving => pc[q] \in Saving
    BY <1>4 DEF Rename, Goto, IInv, TypeOK, Saving
  <2>2. DraftsAsked'
    BY <1>1, <1>4, <2>1 DEF Rename, DraftsAsked
  <2>3. ASSUME NEW id \in Ids, files'[id] # NoTask, ~Loadable(files'[id]) PROVE Asked(id)
    <3>1. CASE id = target[p]
      <4>1. files'[id] = draft[p]
        BY <1>4, <3>1 DEF Rename, IInv, TypeOK
      <4> QED BY <1>4, <2>3, <3>1, <4>1 DEF Rename, Loadable, DraftsAsked, Saving
    <3>2. CASE id # target[p]
      <4>1. files'[id] = files[id]
        BY <1>4, <3>2 DEF Rename, IInv, TypeOK
      <4> QED BY <2>3, <4>1 DEF NoTornFile, Asked
    <3> QED BY <3>1, <3>2
  <2> QED BY <1>0, <2>2, <2>3 DEF NoTornFile, Asked
<1>5. ASSUME UNCHANGED <<files, draft, target>>,
             \A q \in Procs : pc'[q] \in Saving => pc[q] \in Saving
      PROVE  DraftsAsked' /\ NoTornFile'
  BY <1>0, <1>1, <1>5 DEF DraftsAsked, NoTornFile
<1>6. ASSUME NEW p \in Procs, \/ Start(p) \/ Done(p) \/ Malformed(p) \/ Refuse(p) \/ List(p)
                              \/ EnsureDir(p) \/ MakeDir(p) \/ WriteStatuses(p) \/ WriteTeam(p)
                              \/ CreateTemp(p) \/ WriteTemp(p) \/ WriteFails(p) \/ Crash(p)
      PROVE  DraftsAsked' /\ NoTornFile'
  <2>1. UNCHANGED <<files, draft, target>>
    BY <1>6 DEF Start, Done, Malformed, Refuse, List, EnsureDir, MakeDir, WriteStatuses, WriteTeam,
                CreateTemp, WriteTemp, WriteFails, Crash, Finish, boardVars
  <2>2. \A q \in Procs : pc'[q] \in Saving => pc[q] \in Saving
    BY <1>6 DEF Start, Done, Malformed, Refuse, List, EnsureDir, MakeDir, WriteStatuses, WriteTeam,
                CreateTemp, WriteTemp, WriteFails, Crash, Finish, Goto, IInv, TypeOK, Saving
  <2> QED BY <1>5, <2>1, <2>2
<1>7. CASE UNCHANGED vars
  BY <1>5, <1>7 DEF vars, boardVars, procVars
<1> QED BY <1>2, <1>3, <1>4, <1>6, <1>7 DEF Next, Step

\* No crash, failed write or concurrent process makes a task file unreadable.
THEOREM NeverTorn == Spec => []NoTornFile
<1>1. Init => DraftsAsked /\ NoTornFile
  <2> SUFFICES ASSUME Init PROVE DraftsAsked /\ NoTornFile
    OBVIOUS
  <2>1. \A id \in Ids : files[id] \in {NoTask, NewTask}
    BY DEF Init
  <2>2. Loadable(NewTask)
    BY NewTaskType DEF Loadable, NewTask
  <2>3. DraftsAsked
    BY DEF Init, DraftsAsked, Saving
  <2> QED BY <2>1, <2>2, <2>3 DEF NoTornFile
<1>2. IInv /\ [Next]_vars /\ DraftsAsked /\ NoTornFile => DraftsAsked' /\ NoTornFile'
  BY StepAsked
<1> QED BY <1>1, <1>2, Invariant, PTL DEF Spec
-----------------------------------------------------------------------------
(* One process at a time, or each on tasks of its own: the reads and       *)
(* writes of a command are atomic.                                         *)

LEMMA InitSerial == Init => SerialInv
BY DEF Init, SerialInv, Alone, Running, Saving

LEMMA CommandAt ==
  ASSUME TypeOK, NEW p \in Procs, ran[p] < Len(script[p])
  PROVE  Command(p) \in CommandsOf(p)
<1>1. Len(script[p]) \in Nat /\ ran[p] \in Nat
  BY ScriptAssumption DEF TypeOK
<1>2. ran[p] + 1 \in 1..Len(script[p])
  BY <1>1
<1> QED BY <1>2 DEF Command, CommandsOf

\* Processes whose commands cannot meet never save to one file.
LEMMA TargetsApart ==
  ASSUME IInv, Apart, NEW p \in Procs, NEW q \in Procs, p # q,
         pc[p] \in Saving, pc[q] \in Saving, UpToDate(p), UpToDate(q)
  PROVE  target[p] # target[q]
<1>1. Knows(p) /\ Knows(q)
  BY DEF IInv
<1>2. Command(p) \in CommandsOf(p) /\ Command(q) \in CommandsOf(q)
  BY <1>1, CommandAt DEF IInv, Knows
<1>3. ~(Command(p).cmd = "create" /\ Command(q).cmd = "create")
  BY <1>2 DEF Apart
<1>4. Command(p).cmd \in Updates /\ Command(q).cmd \in Updates =>
        Command(p).task # Command(q).task
  BY <1>2 DEF Apart
<1> QED BY <1>1, <1>3, <1>4 DEF Knows, UpToDate, Updates

\* What is up to date stays so while its file, its command and the rules do.
LEMMA StaysUpToDate ==
  ASSUME NEW q \in Procs, Knows(q), UpToDate(q),
         UNCHANGED <<script, ran[q], target[q], draft[q]>>,
         RulesOf(statuses') = RulesOf(statuses),
         files'[target[q]] = files[target[q]]
  PROVE  UpToDate(q)'
<1>1. Command(q)' = Command(q) /\ Mark(q)' = Mark(q)
  BY DEF Command, Mark
<1>2. CASE Command(q).cmd = "create"
  BY <1>1, <1>2 DEF UpToDate, Refused, Updates
<1>3. CASE Command(q).cmd \in Updates
  <2>1. target[q] = Command(q).task
    BY <1>3 DEF Knows, Updates
  <2>2. ~Refused(files', RulesOf(statuses'), Command(q))
    BY <1>3, <2>1 DEF UpToDate, Refused, Updates
  <2> QED BY <1>1, <1>3, <2>2 DEF UpToDate, Updates
<1> QED BY <1>2, <1>3 DEF Knows

LEMMA StepSerial ==
  ASSUME IInv, [Next]_vars, SerialInv
  PROVE  SerialInv'
<1>0. SUFFICES ASSUME Next PROVE SerialInv'
  <2> SUFFICES ASSUME UNCHANGED vars PROVE SerialInv'
    OBVIOUS
  <2>1. UNCHANGED <<script, pc, ran, target, draft, files, statuses>>
    BY DEF vars, boardVars, procVars
  <2>2. (Exclusive => Alone') /\ (Apart' => Apart)
    BY <2>1 DEF SerialInv, Alone, Apart, CommandsOf
  <2>3. ASSUME NEW q \in Procs, pc[q] \in Saving, UpToDate(q) PROVE UpToDate(q)'
    BY <2>1, <2>3, StaysUpToDate DEF IInv
  <2> QED BY <2>1, <2>2, <2>3 DEF SerialInv
<1>1. PICK p \in Procs : Step(p)
  BY <1>0 DEF Next
<1>2. \A q \in Procs : q # p => pc'[q] = pc[q]
  BY <1>1 DEF Step, Start, Done, Malformed, Load, Refuse, List, EnsureDir, MakeDir, WriteStatuses,
              WriteTeam, Choose, CreateTemp, WriteTemp, Rename, WriteFails, Crash, Finish, Goto,
              IInv, TypeOK
<1>3. Exclusive => \A q \in Procs : q # p => pc[q] \notin Running
  <2>1. CASE pc[p] \in Running
    BY <2>1 DEF SerialInv, Alone
  <2>2. CASE Start(p)
    BY <2>2 DEF Start
  <2> QED BY <1>1, <2>1, <2>2 DEF Step, Done, Malformed, Load, Refuse, List, EnsureDir, MakeDir,
             WriteStatuses, WriteTeam, Choose, CreateTemp, WriteTemp, Rename, WriteFails, Crash,
             Running, Saving
<1>4. Exclusive => Alone'
  BY <1>2, <1>3 DEF Alone
<1>5. script' = script /\ (Apart' => Apart)
  <2>1. script' = script
    BY <1>1 DEF Step, Start, Done, Malformed, Load, Refuse, List, EnsureDir, MakeDir, WriteStatuses,
              WriteTeam, Choose, CreateTemp, WriteTemp, Rename, WriteFails, Crash, Finish
  <2> QED BY <2>1 DEF Apart, CommandsOf
<1>6. SUFFICES ASSUME Exclusive \/ Apart, NEW q \in Procs, pc'[q] \in Saving PROVE UpToDate(q)'
  BY <1>4, <1>5 DEF SerialInv
<1>7. CASE q # p
  <2>1. /\ pc[q] \in Saving
        /\ UpToDate(q) /\ Knows(q)
        /\ Apart
    BY <1>2, <1>3, <1>6, <1>7 DEF SerialInv, IInv, Running
  <2>2. UNCHANGED <<ran[q], target[q], draft[q]>>
    BY <1>1, <1>7 DEF Step, Start, Done, Malformed, Load, Refuse, List, EnsureDir, MakeDir,
       WriteStatuses, WriteTeam, Choose, CreateTemp, WriteTemp, Rename, WriteFails, Crash, Finish,
       IInv, TypeOK
  <2>3. RulesOf(statuses') = RulesOf(statuses)
    BY <1>1 DEF Step, Start, Done, Malformed, Load, Refuse, List, EnsureDir, MakeDir,
       WriteStatuses, WriteTeam, Choose, CreateTemp, WriteTemp, Rename, WriteFails, Crash, Finish,
       boardVars, RulesOf
  <2>4. CASE Rename(p)
    <3>1. pc[p] \in Saving
      BY <2>4 DEF Rename, Saving
    <3>2. UpToDate(p)
      BY <2>1, <3>1 DEF SerialInv
    <3>3. target[p] # target[q]
      BY <1>7, <2>1, <3>1, <3>2, TargetsApart
    <3>4. files'[target[q]] = files[target[q]]
      BY <2>4, <3>3 DEF Rename
    <3> QED BY <1>5, <2>1, <2>2, <2>3, <3>4, StaysUpToDate
  <2>5. CASE ~Rename(p)
    <3>1. files' = files
      BY <1>1, <2>5 DEF Step, Start, Done, Malformed, Load, Refuse, List, EnsureDir, MakeDir,
         WriteStatuses, WriteTeam, Choose, CreateTemp, WriteTemp, WriteFails, Crash, Finish, boardVars
    <3> QED BY <1>5, <2>1, <2>2, <2>3, <3>1, StaysUpToDate
  <2> QED BY <2>4, <2>5
<1>8. CASE q = p /\ Load(p)
  <2>1. Command(p).cmd \in Updates /\ UNCHANGED <<script, ran, files, statuses>>
    BY <1>8 DEF Load, boardVars
  <2>2. target'[p] = Command(p).task /\
        draft'[p] = Updated(files[Command(p).task], Command(p), Mark(p))
    BY <1>8 DEF Load, IInv, TypeOK
  <2>3. ~Refused(files, RulesOf(statuses), Command(p))
    BY <1>8 DEF Load
  <2> QED BY <1>8, <2>1, <2>2, <2>3 DEF UpToDate, Command, Mark, Updates
<1>9. CASE q = p /\ \E id \in Ids : Choose(p, id)
  <2>1. PICK id \in Ids : Choose(p, id)
    BY <1>9
  <2>2. Command(p).cmd = "create" /\ UNCHANGED <<script, ran, files, statuses>>
    BY <2>1 DEF Choose, boardVars, IInv, InCreate
  <2>3. /\ target'[p] = id /\ draft'[p] = NewTask /\ files[id] = NoTask
        /\ ~Refused(files, RulesOf(statuses), Command(p))
    BY <2>1 DEF Choose, IInv, TypeOK
  <2> QED BY <1>9, <2>2, <2>3 DEF UpToDate, Command
<1>10. CASE q = p /\ (CreateTemp(p) \/ WriteTemp(p))
  <2>1. pc[p] \in Saving /\ UNCHANGED <<script, ran, files, statuses, draft, target>>
    BY <1>10 DEF CreateTemp, WriteTemp, Saving, boardVars
  <2>2. UpToDate(p)
    BY <1>6, <2>1 DEF SerialInv
  <2> QED BY <1>10, <2>1, <2>2 DEF UpToDate, Command, Mark
<1>11. CASE q = p /\ \/ Start(p) \/ Done(p) \/ Malformed(p) \/ Refuse(p) \/ List(p) \/ EnsureDir(p)
                     \/ MakeDir(p) \/ WriteStatuses(p) \/ WriteTeam(p) \/ Rename(p) \/ WriteFails(p)
                     \/ Crash(p)
  <2>1. pc'[p] \notin Saving
    BY <1>11 DEF Start, Done, Malformed, Refuse, List, EnsureDir, MakeDir, WriteStatuses, WriteTeam, Rename,
                WriteFails, Crash, Finish, Goto, IInv, TypeOK, Saving
  <2> QED BY <1>6, <1>11, <2>1
<1> QED BY <1>1, <1>7, <1>8, <1>9, <1>10, <1>11 DEF Step

\* Board sees the same data and the same rules.
LEMMA SameRules ==
  /\ \A f, r, c : Abstract!Refused(f, r, c) = Refused(f, r, c)
  /\ \A t, c, m : Abstract!Updated(t, c, m) = Updated(t, c, m)
  /\ Abstract!NewTask = NewTask /\ Abstract!Updates = Updates /\ Abstract!Tasks = Tasks
BY DEF Abstract!Refused, Abstract!Updated, Abstract!NewTask, Abstract!Updates, Abstract!Tasks,
       Abstract!Loadable, Abstract!CanTransition, Abstract!Marks,
       Refused, Updated, NewTask, Updates, Tasks, Loadable, CanTransition, Marks

LEMMA InitBoard == Init => Abstract!Init
<1> SUFFICES ASSUME Init PROVE Abstract!Init
  OBVIOUS
<1>1. files \in [Ids -> Tasks \union {NoTask}]
  BY NewTaskType DEF Init
<1>2. [p \in Procs |-> Outcome(p)] = [p \in Procs |-> "running"]
  BY DEF Init, Outcome
<1> QED BY <1>1, <1>2, SameRules DEF Init, Abstract!Init, RulesOf

\* Every step of a process is a step of its batch on the board, or none.
LEMMA StepBoard ==
  ASSUME IInv, [Next]_vars, SerialInv, Exclusive \/ Apart
  PROVE  [Abstract!Next]_(Abstract!vars)
<1> DEFINE O == [q \in Procs |-> Outcome(q)]
           G == Abstract!Next \/ UNCHANGED Abstract!vars
<1> USE DEF Abstract!vars
<1>0. pc \in [Procs -> Points] /\ ran \in [Procs -> Nat]
  BY DEF IInv, TypeOK
<1>1. CASE UNCHANGED vars
  BY <1>1 DEF vars, boardVars, procVars, Outcome
<1>2. ASSUME NEW p \in Procs, NEW point, Goto(p, point), pc[p] \notin Ended,
             UNCHANGED <<script, files, ran>>, RulesOf(statuses') = RulesOf(statuses)
      PROVE  /\ point \notin Ended \/ point = "done" => UNCHANGED Abstract!vars
             /\ point \in {"thrown", "ioerror", "crashed"} => Abstract!Stop(p)
             /\ point = "refused" => O[p] = "running" /\ O' = [O EXCEPT ![p] = "refused"]
  <2>1. pc'[p] = point /\ \A q \in Procs \ {p} : pc'[q] = pc[q]
    BY <1>0, <1>2 DEF Goto
  <2>2. Outcome(p) = "running" /\ \A q \in Procs \ {p} : Outcome(q)' = Outcome(q)
    BY <1>2, <2>1 DEF Outcome, Ended
  <2>3. O[p] = "running" /\ O' = [O EXCEPT ![p] = Outcome(p)']
    BY <2>2
  <2>4. ASSUME point \notin Ended \/ point = "done" PROVE UNCHANGED Abstract!vars
    <3>1. Outcome(p)' = "running"
      BY <2>1, <2>4 DEF Outcome, Ended
    <3>2. O' = O
      BY <2>2, <3>1
    <3> QED BY <1>2, <3>2
  <2>5. ASSUME point \in {"thrown", "ioerror", "crashed"} PROVE Abstract!Stop(p)
    <3>1. Outcome(p)' = "stopped"
      BY <2>1, <2>5 DEF Outcome
    <3> QED BY <1>2, <2>3, <3>1 DEF Abstract!Stop
  <2>6. ASSUME point = "refused" PROVE Outcome(p)' = "refused"
    BY <2>1, <2>6 DEF Outcome
  <2> QED BY <2>3, <2>4, <2>5, <2>6
<1>3. ASSUME NEW p \in Procs, \/ Start(p) \/ Done(p) \/ Load(p) \/ EnsureDir(p) \/ MakeDir(p) \/ WriteTeam(p)
                              \/ (\E id \in Ids : Choose(p, id)) \/ CreateTemp(p) \/ WriteTemp(p)
      PROVE  G
  <2>1. PICK point \in Running \union {"done"} : Goto(p, point)
    BY <1>3 DEF Start, Done, Load, EnsureDir, MakeDir, WriteTeam, Choose, CreateTemp, WriteTemp, Finish,
                Running, Saving
  <2>2. pc[p] \notin Ended /\ UNCHANGED <<script, files, ran, statuses>>
    BY <1>3 DEF Start, Done, Load, EnsureDir, MakeDir, WriteTeam, Choose, CreateTemp, WriteTemp, Finish,
                boardVars, Ended
  <2>3. point \notin Ended \/ point = "done"
    BY DEF Running, Saving, Ended
  <2> QED BY <1>2, <2>1, <2>2, <2>3
<1>4. ASSUME NEW p \in Procs, WriteStatuses(p) PROVE G
  <2>1. /\ Goto(p, "init_team") /\ pc[p] \notin Ended
        /\ UNCHANGED <<script, files, ran>> /\ RulesOf(statuses') = RulesOf(statuses)
    BY <1>4 DEF WriteStatuses, RulesOf, Ended
  <2>2. "init_team" \notin Ended
    BY DEF Ended
  <2> QED BY <1>2, <2>1, <2>2
<1>5. ASSUME NEW p \in Procs, Malformed(p) \/ WriteFails(p) \/ Crash(p) PROVE G
  <2>1. PICK point \in {"thrown", "ioerror", "crashed"} : Goto(p, point)
    BY <1>5 DEF Malformed, WriteFails, Crash, Finish
  <2>2. pc[p] \notin Ended /\ UNCHANGED <<script, files, ran, statuses>>
    BY <1>5 DEF Malformed, WriteFails, Crash, Finish, boardVars, Ended, Running, Saving
  <2>3. Abstract!Stop(p)
    BY <1>2, <2>1, <2>2
  <2> QED BY <2>3 DEF Abstract!Next
<1>6. ASSUME NEW p \in Procs, Refuse(p) PROVE G
  <2>1. /\ Goto(p, "refused") /\ pc[p] \notin Ended /\ UNCHANGED <<script, files, ran, statuses>>
        /\ Refused(files, RulesOf(statuses), Command(p))
        /\ ran[p] < Len(script[p])
    BY <1>6 DEF Refuse, Finish, boardVars, Ended, IInv, InCreate
  <2>2. O[p] = "running" /\ O' = [O EXCEPT ![p] = "refused"]
    BY <1>2, <2>1
  <2>3. Abstract!Refuse(p)
    BY <2>1, <2>2, SameRules DEF Abstract!Refuse, Abstract!Pending, Abstract!Command, Command
  <2> QED BY <2>3 DEF Abstract!Next
<1>7. ASSUME NEW p \in Procs, List(p) PROVE G
  <2>1. Command(p).task \in Ids
    BY <1>7, AtCommand DEF List, IInv, Commands
  <2>2. O[p] = "running" /\ O' = O
    BY <1>7 DEF List, Outcome
  <2>3. Abstract!Execute(p, Command(p).task)
    BY <1>7, <2>2, SameRules DEF List, boardVars, Abstract!Execute, Abstract!Pending,
       Abstract!Command, Command
  <2> QED BY <2>1, <2>3 DEF Abstract!Next
<1>8. ASSUME NEW p \in Procs, Rename(p) PROVE G
  <2>1. Knows(p) /\ UpToDate(p)
    BY <1>8 DEF Rename, IInv, SerialInv, Saving
  <2>2. O[p] = "running" /\ O' = O
    BY <1>0, <1>8 DEF Rename, Goto, Outcome
  <2>3. target[p] \in Ids
    BY <2>1, AtCommand DEF IInv, Knows, Commands
  <2>4. Abstract!Pending(p) /\ ~Abstract!Refused(files, RulesOf(statuses), Command(p))
    BY <2>1, <2>2, SameRules DEF Abstract!Pending, Knows, UpToDate
  <2>7. UNCHANGED <<script, RulesOf(statuses), O>> /\ ran' = [ran EXCEPT ![p] = @ + 1]
    BY <1>8, <2>2 DEF Rename, RulesOf
  <2>5. CASE Command(p).cmd \in Updates
    <3>1. files' = [files EXCEPT ![target[p]] = Updated(files[target[p]], Command(p), <<p, ran[p] + 1>>)]
      BY <1>8, <2>1, <2>5 DEF Rename, UpToDate, Mark, Updates
    <3>2. target[p] = Command(p).task
      BY <2>1, <2>5 DEF Knows, Updates
    <3>3. Abstract!Updated(files[target[p]], Command(p), <<p, ran[p] + 1>>)
            = Updated(files[target[p]], Command(p), <<p, ran[p] + 1>>)
      BY SameRules
    <3>4. Abstract!Command(p).cmd \in Abstract!Updates /\ Abstract!Command(p) = Command(p)
      BY <2>5, SameRules DEF Abstract!Command, Command
    <3>5. /\ Abstract!Pending(p)
          /\ ~Abstract!Refused(files, RulesOf(statuses), Abstract!Command(p))
          /\ target[p] = Abstract!Command(p).task
          /\ files' = [files EXCEPT ![target[p]] =
                         Abstract!Updated(@, Abstract!Command(p), <<p, ran[p] + 1>>)]
      BY <2>4, <3>1, <3>2, <3>3, <3>4
    <3>6. Abstract!Execute(p, target[p])
      BY <2>7, <3>4, <3>5 DEF Abstract!Execute
    <3> QED BY <2>3, <3>6 DEF Abstract!Next
  <2>6. CASE Command(p).cmd = "create"
    <3>1. files' = [files EXCEPT ![target[p]] = NewTask] /\ files[target[p]] = NoTask
      BY <1>8, <2>1, <2>6 DEF Rename, UpToDate, Knows, Updates
    <3>2. Abstract!Command(p) = Command(p) /\ Abstract!NewTask = NewTask
      BY SameRules DEF Abstract!Command, Command
    <3>3. /\ Abstract!Command(p).cmd = "create" /\ files[target[p]] = NoTask
          /\ files' = [files EXCEPT ![target[p]] = Abstract!NewTask]
          /\ ~Abstract!Refused(files, RulesOf(statuses), Abstract!Command(p))
      BY <2>4, <2>6, <3>1, <3>2
    <3>4. Abstract!Execute(p, target[p])
      BY <2>4, <2>7, <3>3 DEF Abstract!Execute
    <3> QED BY <2>3, <3>4 DEF Abstract!Next
  <2> QED BY <2>1, <2>3, <2>5, <2>6 DEF Knows
<1> QED
  BY <1>1, <1>3, <1>4, <1>5, <1>6, <1>7, <1>8 DEF Next, Step

\* With one process at a time, batches implement Board: atomic commands, in
\* order, cut at the first failure, whatever process dies and whatever write fails.
THEOREM SerialBatches == ASSUME Exclusive PROVE Spec => BoardSpec
<1>1. Init => IInv /\ SerialInv /\ Abstract!Init
  BY InitIInv, InitSerial, InitBoard
<1>2. IInv /\ SerialInv /\ [Next]_vars => IInv' /\ SerialInv'
  BY StepIInv, StepSerial
<1>3. IInv /\ SerialInv /\ [Next]_vars => [Abstract!Next]_(Abstract!vars)
  BY StepBoard
<1> QED BY <1>1, <1>2, <1>3, PTL DEF Spec, BoardSpec, Abstract!Spec

\* Processes that run at the same time implement Board too, as long as no two of
\* them work on one task or create tasks.
THEOREM ApartIsSerial == Spec => ApartBatches
<1>1. Init => IInv /\ SerialInv
  BY InitIInv, InitSerial
<1>2. IInv /\ SerialInv /\ [Next]_vars => IInv' /\ SerialInv'
  BY StepIInv, StepSerial
<1>3. IInv /\ SerialInv /\ [Next]_vars => [Apart => Abstract!Next]_(Abstract!vars)
  BY StepBoard
<1> QED BY <1>1, <1>2, <1>3, PTL DEF Spec, ApartBatches
=============================================================================
