-------------------------------- MODULE TaskDb --------------------------------
(***************************************************************************)
(* gitboard processes working on one tasks/ directory.  Every command is a *)
(* read of a task file and, later, a temporary file renamed over it; there *)
(* is no lock between processes; a process may be killed, and a write may  *)
(* fail, at any point.                                                     *)
(***************************************************************************)
EXTENDS TaskRules

CONSTANTS Exclusive,  \* one process at a time, as gitboard-server arranges
          Crashes,    \* processes may be killed
          WriteErrors \* writes may fail (full disk, permissions)

ASSUME ModeAssumption == Exclusive \in BOOLEAN /\ Crashes \in BOOLEAN /\ WriteErrors \in BOOLEAN

VARIABLES script,   \* [Procs -> Seq(Commands)], the batch file of each process
          dir,      \* tasks/ exists
          statuses, \* tasks/statuses.json: "absent", "bundled" or "custom"
          team,     \* tasks/team.json exists
          files,    \* [Ids -> Tasks or NoTask], what the .md files hold
          temps,    \* temporary files, named by the mark of their command
          pc,       \* [Procs -> Points]
          ran,      \* [Procs -> 0..MaxLen], commands executed
          target,   \* [Procs -> Ids or NoTask], the file the current command will replace
          draft     \* [Procs -> Tasks], the content computed for it

boardVars == <<dir, statuses, team, files, temps>>
procVars == <<pc, ran, target, draft>>
vars == <<script, boardVars, procVars>>

-----------------------------------------------------------------------------
Saving == {"save", "write", "rename"}
Initialising == {"make_dir", "init_statuses", "init_team"}
Running == {"next", "choose"} \union Initialising \union Saving
Ended == {"done", "refused", "ioerror", "thrown", "crashed"}
Points == {"off"} \union Running \union Ended

RulesOf(s) == IF s = "custom" THEN CustomRules ELSE BundledRules

Command(p) == script[p][ran[p] + 1]
Mark(p) == <<p, ran[p] + 1>>

Init == /\ script \in Scripts
        /\ \/ dir = FALSE /\ statuses = "absent" /\ team = FALSE /\ files = [id \in Ids |-> NoTask]
           \/ /\ dir = TRUE /\ statuses \in {"bundled", "custom"} /\ team = TRUE
              /\ files \in [Ids -> {NoTask, NewTask}]
        /\ temps = {}
        /\ pc = [p \in Procs |-> "off"]
        /\ ran = [p \in Procs |-> 0]
        /\ target = [p \in Procs |-> NoTask]
        /\ draft = [p \in Procs |-> NewTask]

Goto(p, point) == pc' = [pc EXCEPT ![p] = point]

Start(p) == /\ pc[p] = "off"
            /\ Exclusive => \A q \in Procs : pc[q] \notin Running
            /\ Goto(p, "next")
            /\ UNCHANGED <<script, boardVars, ran, target, draft>>

\* cmd_batch returns, or throws after the command that failed.
Finish(p, point) == Goto(p, point) /\ UNCHANGED <<script, ran, target, draft>>

Done(p) == /\ pc[p] = "next"
           /\ ran[p] = Len(script[p])
           /\ Finish(p, "done")
           /\ UNCHANGED boardVars

\* A malformed entry throws out of cmd_batch.
Malformed(p) == /\ pc[p] = "next"
                /\ ran[p] < Len(script[p])
                /\ Command(p).cmd = "malformed"
                /\ Finish(p, "thrown")
                /\ UNCHANGED boardVars

-----------------------------------------------------------------------------
(* Commands that change an existing task, and list.                        *)

\* Mutant: the move command saves without its transition check.
LoadUnchecked(p) == /\ pc[p] = "next"
                    /\ ran[p] < Len(script[p])
                    /\ Command(p).cmd \in Updates
                    /\ Loadable(files[Command(p).task])
                    /\ target' = [target EXCEPT ![p] = Command(p).task]
                    /\ draft' = [draft EXCEPT ![p] = Updated(files[Command(p).task], Command(p), Mark(p))]
                    /\ Goto(p, "save")
                    /\ UNCHANGED <<script, boardVars, ran>>

\* find_task_path, read_file, task_from_content, the checks of the command.
Load(p) == /\ pc[p] = "next"
           /\ ran[p] < Len(script[p])
           /\ Command(p).cmd \in Updates
           /\ ~Refused(files, RulesOf(statuses), Command(p))
           /\ target' = [target EXCEPT ![p] = Command(p).task]
           /\ draft' = [draft EXCEPT ![p] = Updated(files[Command(p).task], Command(p), Mark(p))]
           /\ Goto(p, "save")
           /\ UNCHANGED <<script, boardVars, ran>>

Refuse(p) == /\ \/ pc[p] = "next" /\ ran[p] < Len(script[p]) /\ Command(p).cmd # "create"
                \/ pc[p] = "choose"
             /\ Refused(files, RulesOf(statuses), Command(p))
             /\ Finish(p, "refused")
             /\ UNCHANGED boardVars

List(p) == /\ pc[p] = "next"
           /\ ran[p] < Len(script[p])
           /\ Command(p).cmd = "list"
           /\ ~Refused(files, RulesOf(statuses), Command(p))
           /\ ran' = [ran EXCEPT ![p] = @ + 1]
           /\ UNCHANGED <<script, boardVars, pc, target, draft>>

-----------------------------------------------------------------------------
(* create: the directory and its two configuration files come first, and   *)
(* only the process that found no directory writes them.                   *)

EnsureDir(p) == /\ pc[p] = "next"
                /\ ran[p] < Len(script[p])
                /\ Command(p).cmd = "create"
                /\ Goto(p, IF dir THEN "choose" ELSE "make_dir")
                /\ UNCHANGED <<script, boardVars, ran, target, draft>>

MakeDir(p) == /\ pc[p] = "make_dir"
              /\ dir' = TRUE
              /\ Goto(p, "init_statuses")
              /\ UNCHANGED <<script, statuses, team, files, temps, ran, target, draft>>

WriteStatuses(p) == /\ pc[p] = "init_statuses"
                    /\ statuses' = IF statuses = "absent" THEN "bundled" ELSE statuses
                    /\ Goto(p, "init_team")
                    /\ UNCHANGED <<script, dir, team, files, temps, ran, target, draft>>

WriteTeam(p) == /\ pc[p] = "init_team"
                /\ team' = TRUE
                /\ Goto(p, "choose")
                /\ UNCHANGED <<script, dir, statuses, files, temps, ran, target, draft>>

\* Mutant: the first id that is generated, whether or not a file has it.
ChooseUnchecked(p, id) == /\ pc[p] = "choose"
                          /\ ~Refused(files, RulesOf(statuses), Command(p))
                          /\ target' = [target EXCEPT ![p] = id]
                          /\ draft' = [draft EXCEPT ![p] = NewTask]
                          /\ Goto(p, "save")
                          /\ UNCHANGED <<script, boardVars, ran>>

\* guid_task_id until no file has the id.  Nothing reserves it: another process
\* may draw the same one before this task is saved.
Choose(p, id) == /\ pc[p] = "choose"
                 /\ ~Refused(files, RulesOf(statuses), Command(p))
                 /\ files[id] = NoTask
                 /\ target' = [target EXCEPT ![p] = id]
                 /\ draft' = [draft EXCEPT ![p] = NewTask]
                 /\ Goto(p, "save")
                 /\ UNCHANGED <<script, boardVars, ran>>

-----------------------------------------------------------------------------
(* task_store::save: write_file_atomic.                                    *)

CreateTemp(p) == /\ pc[p] = "save"
                 /\ temps' = temps \union {Mark(p)}
                 /\ Goto(p, "write")
                 /\ UNCHANGED <<script, dir, statuses, team, files, ran, target, draft>>

\* Mutant: the task file is truncated and written in place.
WriteInPlace(p) == /\ pc[p] = "write"
                   /\ files' = [files EXCEPT ![target[p]] = [draft[p] EXCEPT !.title = ""]]
                   /\ Goto(p, "rename")
                   /\ UNCHANGED <<script, dir, statuses, team, temps, ran, target, draft>>

WriteTemp(p) == /\ pc[p] = "write"
                /\ Goto(p, "rename")
                /\ UNCHANGED <<script, boardVars, ran, target, draft>>

\* Mutant: the loop over the batch and its command both advance the index.
RenameCountsTwice(p) == /\ pc[p] = "rename"
                        /\ files' = [files EXCEPT ![target[p]] = draft[p]]
                        /\ temps' = temps \ {Mark(p)}
                        /\ ran' = [ran EXCEPT ![p] = @ + 2]
                        /\ Goto(p, "next")
                        /\ UNCHANGED <<script, dir, statuses, team, target, draft>>

Rename(p) == /\ pc[p] = "rename"
             /\ files' = [files EXCEPT ![target[p]] = draft[p]]
             /\ temps' = temps \ {Mark(p)}
             /\ ran' = [ran EXCEPT ![p] = @ + 1]
             /\ Goto(p, "next")
             /\ UNCHANGED <<script, dir, statuses, team, target, draft>>

\* Mutant: the catch block of write_file_atomic does not remove the file.
WriteFailsLeaving(p) == /\ WriteErrors
                        /\ pc[p] \in Initialising \union Saving
                        /\ Finish(p, "ioerror")
                        /\ UNCHANGED boardVars

\* A file operation throws: the temporary file is removed, the command fails.
WriteFails(p) == /\ WriteErrors
                 /\ pc[p] \in Initialising \union Saving
                 /\ temps' = temps \ {Mark(p)}
                 /\ Finish(p, "ioerror")
                 /\ UNCHANGED <<dir, statuses, team, files>>

Crash(p) == /\ Crashes
            /\ pc[p] \in Running
            /\ Goto(p, "crashed")
            /\ UNCHANGED <<script, boardVars, ran, target, draft>>

-----------------------------------------------------------------------------
Step(p) == \/ Start(p) \/ Done(p) \/ Malformed(p) \/ Load(p) \/ Refuse(p) \/ List(p)
           \/ EnsureDir(p) \/ MakeDir(p) \/ WriteStatuses(p) \/ WriteTeam(p)
           \/ (\E id \in Ids : Choose(p, id))
           \/ CreateTemp(p) \/ WriteTemp(p) \/ Rename(p) \/ WriteFails(p) \/ Crash(p)

Next == \E p \in Procs : Step(p)

Spec == Init /\ [][Next]_vars

-----------------------------------------------------------------------------
(* Properties.                                                             *)

TypeOK == /\ script \in Scripts
          /\ dir \in BOOLEAN /\ team \in BOOLEAN
          /\ statuses \in {"absent", "bundled", "custom"}
          /\ files \in [Ids -> Tasks \union {NoTask}]
          /\ temps \subseteq Marks
          /\ pc \in [Procs -> Points]
          /\ ran \in [Procs -> Nat]
          /\ \A p \in Procs : ran[p] <= Len(script[p])
          /\ target \in [Procs -> Ids \union {NoTask}]
          /\ draft \in [Procs -> Tasks]

\* A crash or a failed write never leaves half a task: only a command that
\* asked for an empty title makes a file unreadable.
NoTornFile ==
  \A id \in Ids :
    files[id] # NoTask /\ ~Loadable(files[id]) =>
      \E p \in Procs, k \in 1..MaxLen :
        /\ k <= Len(script[p])
        /\ script[p][k].cmd = "title" /\ script[p][k].title = "" /\ script[p][k].task = id

\* Temporary files are removed on every path but the death of the process.
NoLeftovers == \A m \in temps : pc[m[1]] \in {"write", "rename", "crashed"}

\* The inductive invariant: what a process that is about to save knows of its
\* command and its target.
InCreate == Initialising \union {"choose"}

Knows(p) ==
  /\ ran[p] < Len(script[p])
  /\ \/ /\ Command(p).cmd \in Updates
        /\ target[p] = Command(p).task
        /\ files[target[p]] # NoTask
     \/ Command(p).cmd = "create" /\ target[p] \in Ids

TempsOwned == \A m \in temps :
                \/ pc[m[1]] = "crashed"
                \/ pc[m[1]] \in {"write", "rename"} /\ m = Mark(m[1])

IInv == /\ TypeOK
        /\ TempsOwned
        /\ \A p \in Procs : pc[p] \in InCreate =>
                            ran[p] < Len(script[p]) /\ Command(p).cmd = "create"
        /\ \A p \in Procs : pc[p] \in Saving => Knows(p)

Alone == \A p, q \in Procs : pc[p] \in Running /\ pc[q] \in Running => p = q

CommandsOf(p) == {script[p][k] : k \in 1..Len(script[p])}

\* No two processes are given commands on one task, and no two of them creates.
Apart == \A p, q \in Procs : p # q =>
           \A c \in CommandsOf(p), d \in CommandsOf(q) :
             /\ ~(c.cmd = "create" /\ d.cmd = "create")
             /\ c.cmd \in Updates /\ d.cmd \in Updates => c.task # d.task

\* What a process that is about to save still knows when it runs alone, or when
\* no other process has a command that could meet its own.
UpToDate(p) ==
  /\ ~Refused(files, RulesOf(statuses), Command(p))
  /\ \/ /\ Command(p).cmd = "create"
        /\ files[target[p]] = NoTask
        /\ draft[p] = NewTask
     \/ /\ Command(p).cmd \in Updates
        /\ draft[p] = Updated(files[target[p]], Command(p), Mark(p))

SerialInv == /\ Exclusive => Alone
             /\ Exclusive \/ Apart => \A p \in Procs : pc[p] \in Saving => UpToDate(p)

\* With one process at a time, as under gitboard-server, a batch is a sequence
\* of atomic commands cut at its first failure, whatever crashes.
Outcome(p) == CASE pc[p] = "refused" -> "refused"
                [] pc[p] \in {"ioerror", "thrown", "crashed"} -> "stopped"
                [] OTHER -> "running"

Abstract == INSTANCE Board WITH rules <- RulesOf(statuses),
                                outcome <- [p \in Procs |-> Outcome(p)]
BoardSpec == Abstract!Spec

\* Processes that run at the same time, as from several shells, do the same as
\* long as no two of them work on one task or create tasks: initialisation,
\* id generation, lists, failures and crashes of one disturb no other.
ApartBatches == [][Apart => Abstract!Next]_(Abstract!vars)

\* commands.cc and task.cc refuse an empty title when a task is created or
\* loaded: no sequence of accepted commands leaves a task nobody can load.
TasksStayLoadable == \A id \in Ids : files[id] # NoTask => Loadable(files[id])
=============================================================================
