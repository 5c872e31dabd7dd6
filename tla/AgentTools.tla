------------------------------ MODULE AgentTools ------------------------------
(***************************************************************************)
(* The data of Agent Pip's tools: the tasks and the team of a repository,  *)
(* the calls a model may make, when a call becomes a proposed action, the  *)
(* gitboard commands of an action and what each of them does.  A call and  *)
(* the action made from it carry the same changes: pairs of a field (or    *)
(* "move", "comment", "join") and a value.  Texts are their values.        *)
(***************************************************************************)
EXTENDS Naturals, SequencesExt

CONSTANTS Tasks,     \* task ids
          Statuses,  \* statuses of statuses.json
          Leads,     \* the pairs of statuses a move may join
          Members,   \* aliases that may be in team.json
          Gone,      \* the status of a task without a file
          Nobody,    \* no assignee
          Malformed, \* a value that is not of the type its field needs
          Changes    \* what a call may ask for

ASSUME ToolsAssumption == /\ Leads \subseteq Statuses \X Statuses
                          /\ Gone \notin Statuses /\ Nobody \notin Members
                          /\ \A change \in Changes : change[1] = "join" => change[2] \in Members

Repositories == [status   : [Tasks -> Statuses \union {Gone}],
                 assignee : [Tasks -> Members \union {Nobody}],
                 comments : [Tasks -> Nat],
                 team     : SUBSET Members]

Exists(r, t) == r.status[t] # Gone
KnownAssignee(r, m) == m = Nobody \/ m \in r.team

-----------------------------------------------------------------------------
(* Commands of a batch, and add_team_member.                               *)

Accepts(r, t, change) ==
  /\ Exists(r, t)
  /\ change[1] = "move" => <<r.status[t], change[2]>> \in Leads

\* A member whose alias is there already is not added again.
Joined(r, m) == [r EXCEPT !.team = @ \union {m}]

Changed(r, t, change) ==
  CASE change[1] = "move"     -> [r EXCEPT !.status[t] = change[2]]
    [] change[1] = "assignee" -> [r EXCEPT !.assignee[t] = change[2]]
    [] change[1] = "comment"  -> [r EXCEPT !.comments[t] = @ + 1]
    [] change[1] = "join"     -> Joined(r, change[2])
    [] OTHER                  -> r

\* Commands one after the other.
Outcome(r, commands) ==
  LET after[n \in 0..Len(commands)] ==
        IF n = 0 THEN r
        ELSE Changed(after[n - 1], commands[n].task, commands[n].change)
  IN after[Len(commands)]

-----------------------------------------------------------------------------
(* Tool calls and proposed actions: records with tool, task, changes and,  *)
(* for a call, whether its arguments parse.                                *)

\* add_team_member names an alias; the other tools add nobody to the team.
JoinsOne(c) == \E m \in Members : c.changes = <<<<"join", m>>>>
JoinsNobody(c) == \A i \in DOMAIN c.changes : c.changes[i][1] # "join"

Calls == {c \in [tool : STRING, task : Tasks, changes : Seq(Changes), parses : BOOLEAN, id : Nat] :
            IF c.tool = "add_team_member" THEN c.parses => JoinsOne(c) ELSE JoinsNobody(c)}

IsMutatingTask(c) == c.tool \in {"update_task", "move_task", "comment_task"}

IsMutating(c) == c.tool \in {"update_task", "move_task", "comment_task", "add_team_member"}

\* What the key is made of, as far as the model tells calls apart (see Stage).
DedupeKey(c) == <<c.tool, c.task, c.changes>>

\* The assignee an update sets must be in team.json, both when the action is
\* proposed and when it is applied.
AssigneesKnown(r, c) ==
  \A i \in DOMAIN c.changes : c.changes[i][1] = "assignee" => KnownAssignee(r, c.changes[i][2])

\* proposed_action_from_tool_call does not throw.
Stageable(r, c) ==
  /\ c.parses
  /\ c.tool # "add_team_member" => Exists(r, c.task) /\ c.changes # <<>> /\ AssigneesKnown(r, c)

\* The loop of apply-actions does not throw for this action; the entries of
\* a list are looked at only here.
Applicable(r, a) ==
  /\ Exists(r, a.task) /\ a.changes # <<>>
  /\ AssigneesKnown(r, a)
  /\ \A i \in DOMAIN a.changes : a.changes[i][2] # Malformed

\* The commands of an action: its changes in the order of the JSON object,
\* and a task command that reads the result.
Steps(a) == [i \in DOMAIN a.changes |-> [task |-> a.task, change |-> a.changes[i]]]
Reading(a) == [task |-> a.task, change |-> <<"task", Nobody>>]
Commands(a) == Append(Steps(a), Reading(a))

\* execute_agent_tool has branches that change the repository at once; the
\* other tools only read.
Executed(r, c) ==
  IF c.tool \in {"update_task", "move_task", "comment_task", "add_team_member"}
  THEN Outcome(r, Steps(c)) ELSE r

-----------------------------------------------------------------------------
(* A chat completion of the provider: calls with an ending.                *)

Chats == [calls : Seq(Calls), text : {"none", "prose", "drafts"}, cut : BOOLEAN,
          reasoning : BOOLEAN]

\* A call without an id gets one that counts the calls without; a call
\* without a name is dropped.
CallId(calls, i) == IF calls[i].id # 0 THEN calls[i].id
                    ELSE 0 - Cardinality({j \in 1..i : calls[j].id = 0})
Called(calls) ==
  FlattenSeq([i \in DOMAIN calls |->
                IF calls[i].tool = "" THEN <<>>
                ELSE <<[calls[i] EXCEPT !.id = CallId(calls, i)]>>])

\* What the answer to the page can use: visible text that was not cut off,
\* or task drafts.
Usable(resp, staged) ==
  /\ resp.text # "none"
  /\ ~(resp.cut /\ staged = <<>> /\ resp.text # "drafts")

\* Something to repair the answer from: visible text or, for an OpenAI
\* compatible provider, the model's reasoning.
Repairable(resp, provider) ==
  resp.text # "none" \/ (provider = "openai" /\ resp.reasoning)

-----------------------------------------------------------------------------
(* The messages of a request: their role, the calls of an assistant's      *)
(* message and the ids of the calls a message answers.                     *)

Text(role) == [role |-> role, calls |-> <<>>, ids |-> <<>>]
Again(round) == IF round = 0 THEN <<>> ELSE <<Text("user")>>

\* The system prompt is a message, or a field of its own.  The last message
\* of a later round repeats the user's request.
OpenaiRequest(round, exchange) == <<Text("system"), Text("user")>> \o exchange \o Again(round)
AnthropicRequest(round, exchange) == <<Text("user")>> \o exchange \o Again(round)

\* The results of a round: a message for each call, or one for all of them.
OpenaiResults(ids) == [i \in DOMAIN ids |-> [Text("tool") EXCEPT !.ids = <<ids[i]>>]]
AnthropicResults(ids) == <<[Text("user") EXCEPT !.ids = ids]>>

ResultMessages(provider, ids) ==
  IF provider = "anthropic" THEN AnthropicResults(ids) ELSE OpenaiResults(ids)
=============================================================================
