------------------------------ MODULE TaskRules ------------------------------
(***************************************************************************)
(* The data of a task database and what each gitboard command does to one  *)
(* task: shared by Board (commands as atomic steps) and TaskDb (commands   *)
(* as reads and writes of files).  Texts are abstracted to the command     *)
(* that wrote them: a mark <<p, k>> is the k-th command of process p.      *)
(***************************************************************************)
EXTENDS Naturals, Sequences

CONSTANTS Procs,     \* gitboard processes
          Ids,       \* task ids, the ones still to be generated included
          Statuses,  \* status keys that occur in files and commands
          NoTask, NoMark,
          BundledRules, CustomRules,  \* the bundled and the repository's own workflow
          Scripts,   \* the batches each process may be given
          MaxLen     \* bound: commands in a batch

Marks == Procs \X (1..MaxLen)

\* title "": the front matter of the file is rejected by task_from_content.
Tasks == [title : {"ok", ""}, status : Statuses, assignee : Marks \union {NoMark},
          text : Marks \union {NoMark}, comments : SUBSET Marks]

Updates == {"title", "assignee", "body", "move", "comment"}
Commands == [cmd : Updates \union {"create", "list", "malformed"}, task : Ids,
             title : {"ok", ""}, status : Statuses]

Rules == [known : SUBSET Statuses, to : [Statuses -> SUBSET Statuses]]

ASSUME NoneAssumption == NoTask \notin Tasks /\ NoMark \notin Marks
ASSUME RulesAssumption == BundledRules \in Rules /\ CustomRules \in Rules
ASSUME StatusAssumption == "todo" \in Statuses
ASSUME ScriptAssumption ==
  /\ MaxLen \in Nat
  /\ \A s \in Scripts : s \in [Procs -> Seq(Commands)] /\ \A p \in Procs : Len(s[p]) <= MaxLen

-----------------------------------------------------------------------------
\* status_config::can_transition: an undefined source or an empty list allows
\* every destination.
CanTransition(rules, from, to) ==
  from \notin rules.known \/ rules.to[from] = {} \/ to \in rules.to[from]

Loadable(t) == t # NoTask /\ t.title # ""

\* A command that find_task_path, the loader or its own checks refuse.  The
\* strict list command fails on any file it cannot parse.
Refused(files, rules, c) ==
  \/ c.cmd \in Updates /\ ~Loadable(files[c.task])
  \/ /\ c.cmd = "move" /\ Loadable(files[c.task])
     /\ \/ c.status \notin rules.known
        \/ ~CanTransition(rules, files[c.task].status, c.status)
  \/ c.cmd = "list" /\ \E id \in Ids : files[id] # NoTask /\ ~Loadable(files[id])
  \/ c.cmd = "create" /\ c.title = ""

NewTask == [title |-> "ok", status |-> "todo", assignee |-> NoMark, text |-> NoMark,
            comments |-> {}]

\* cmd_update, cmd_move and cmd_comment on the loaded task: body replaces the
\* whole body, its comments included.
Updated(t, c, mark) ==
  CASE c.cmd = "title"    -> [t EXCEPT !.title = c.title]
    [] c.cmd = "assignee" -> [t EXCEPT !.assignee = mark]
    [] c.cmd = "body"     -> [t EXCEPT !.text = mark, !.comments = {}]
    [] c.cmd = "move"     -> [t EXCEPT !.status = c.status]
    [] c.cmd = "comment"  -> [t EXCEPT !.comments = @ \union {mark}]
=============================================================================
