-------------------------------- MODULE Board --------------------------------
(***************************************************************************)
(* What a task database promises to the batches run on it: the commands of *)
(* a batch take effect one at a time, in order, each on the task as it is, *)
(* and a batch stops at its first failure.                                 *)
(***************************************************************************)
EXTENDS TaskRules

VARIABLES script,   \* [Procs -> Seq(Commands)], fixed
          files,    \* [Ids -> Tasks or NoTask]
          rules,    \* the workflow in force, fixed
          ran,      \* [Procs -> Nat], commands executed
          outcome   \* [Procs -> {"running", "refused", "stopped"}]

vars == <<script, files, rules, ran, outcome>>

Init == /\ script \in Scripts
        /\ files \in [Ids -> Tasks \union {NoTask}]
        /\ rules \in {BundledRules, CustomRules}
        /\ ran = [p \in Procs |-> 0]
        /\ outcome = [p \in Procs |-> "running"]

Command(p) == script[p][ran[p] + 1]

Pending(p) == outcome[p] = "running" /\ ran[p] < Len(script[p])

Execute(p, id) ==
  /\ Pending(p)
  /\ ~Refused(files, rules, Command(p))
  /\ \/ /\ Command(p).cmd \in Updates /\ id = Command(p).task
        /\ files' = [files EXCEPT ![id] = Updated(@, Command(p), <<p, ran[p] + 1>>)]
     \/ /\ Command(p).cmd = "create" /\ files[id] = NoTask
        /\ files' = [files EXCEPT ![id] = NewTask]
     \/ Command(p).cmd = "list" /\ UNCHANGED files
  /\ ran' = [ran EXCEPT ![p] = @ + 1]
  /\ UNCHANGED <<script, rules, outcome>>

Refuse(p) == /\ Pending(p)
             /\ Refused(files, rules, Command(p))
             /\ outcome' = [outcome EXCEPT ![p] = "refused"]
             /\ UNCHANGED <<script, files, rules, ran>>

\* An I/O error, a malformed entry or the death of the process.
Stop(p) == /\ outcome[p] = "running"
           /\ outcome' = [outcome EXCEPT ![p] = "stopped"]
           /\ UNCHANGED <<script, files, rules, ran>>

Next == \E p \in Procs : Stop(p) \/ Refuse(p) \/ (\E id \in Ids : Execute(p, id))

Spec == Init /\ [][Next]_vars
=============================================================================
