------------------------------- MODULE AgentPip -------------------------------
(***************************************************************************)
(* Agent Pip in gitboard-server: a chat turn with its rounds of tool calls *)
(* and its posts to the provider, the summary of old messages, and         *)
(* apply-actions, which changes the tasks and the team.  The API mutex     *)
(* admits one of them at a time; the user's shell and editor change the    *)
(* same repository between any two of their steps.                         *)
(***************************************************************************)
EXTENDS AgentTools

CONSTANTS Boards,      \* repositories to begin with
          Providers,   \* the protocols the settings may name: "openai", "anthropic"
          Replies,     \* chat completions of the provider that are JSON
          NotJson,     \* an answer of the provider that is not JSON
          Queries,     \* what a request and the settings fulfil (see Verdict)
          MaxRounds,   \* kMaxAgentToolRounds
          MaxAttempts, \* retry_attempts + 1
          MaxActions,  \* bound: actions of one apply request
          MaxRequests, \* bound: requests to the model, and apply requests
          MaxActs      \* bound: steps of others

ASSUME PipAssumption == /\ Boards \subseteq Repositories /\ Boards # {}
                        /\ Providers \subseteq {"openai", "anthropic"}
                        /\ Replies \subseteq Chats /\ NotJson \notin Replies
                        /\ MaxRounds \in Nat /\ MaxAttempts \in Nat \ {0}
                        /\ MaxActions \in Nat /\ MaxRequests \in Nat /\ MaxActs \in Nat

VARIABLES repo,     \* the repository's tasks and team
          phase,    \* where the running handler is
          kind,     \* what it handles
          provider, \* the protocol it speaks with the model
          round,    \* rounds of tool calls so far
          attempt,  \* attempts of the post that is running
          reply,    \* the provider's last answer
          calls,    \* tool calls of this round that wait
          results,  \* what this round's calls came to
          staged,   \* proposed_actions
          messages, \* provider_messages_json
          told,     \* actions the provider was told are staged
          sent,     \* the actions of the apply request
          next,     \* index of the action apply looks at
          commands, \* commands of its batch that wait
          ran,      \* commands of its batch that took effect, and members added
          answer,   \* the last answer to the page
          offered,  \* actions that answers to the page proposed
          before,   \* the repository when the request arrived
          alone,    \* nobody else changed it since
          count,    \* requests to the model and apply requests so far
          acts      \* steps of others so far

chat == <<provider, round, attempt, reply, calls, results, staged, messages, told>>
job == <<sent, next, commands, ran>>
past == <<before, alone, count, acts>>
vars == <<repo, phase, kind, chat, job, answer, offered, past>>

-----------------------------------------------------------------------------
Kinds == {"chat", "repair", "summarize", "apply"}
Phases == {"idle", "context", "post", "reply", "calls", "final", "actions", "batch"}
NoAnswer == [kind |-> "chat", code |-> 0, actions |-> <<>>]

\* The first check that fails decides the answer.
Verdict(q) ==
  IF ~q.wellformed \/ ~q.enabled THEN 400
  ELSE IF ~q.registered THEN 404
  ELSE IF ~q.complete \/ ~q.history THEN 400
  ELSE IF ~q.key THEN 500 ELSE 200

\* The local variables of a turn and of apply-actions begin empty.
ClearChat == /\ provider' = "none" /\ round' = 0 /\ attempt' = 0
             /\ reply' = NotJson /\ calls' = <<>> /\ results' = <<>>
             /\ staged' = <<>> /\ messages' = <<>> /\ told' = {}
ClearJob(actions) == sent' = actions /\ next' = 1 /\ commands' = <<>> /\ ran' = <<>>

Init == /\ repo \in Boards
        /\ phase = "idle" /\ kind = "chat"
        /\ provider = "none" /\ round = 0 /\ attempt = 0
        /\ reply = NotJson /\ calls = <<>> /\ results = <<>>
        /\ staged = <<>> /\ messages = <<>> /\ told = {}
        /\ sent = <<>> /\ next = 1 /\ commands = <<>> /\ ran = <<>>
        /\ answer = NoAnswer /\ offered = {}
        /\ before = repo /\ alone = TRUE /\ count = [model |-> 0, apply |-> 0] /\ acts = 0

Enter(p) == phase' = p

\* The handler returns; its local variables are gone.
Answer(k, code, actions) ==
  /\ phase' = "idle"
  /\ answer' = [kind |-> k, code |-> code, actions |-> actions]
  /\ offered' = IF code = 200 THEN offered \union ToSet(actions) ELSE offered
  /\ ClearChat /\ kind' = k

Arrive(k, counter) ==
  /\ phase = "idle" /\ count[counter] < MaxRequests
  /\ count' = [count EXCEPT ![counter] = @ + 1]
  /\ before' = repo /\ alone' = TRUE
  /\ kind' = k
  /\ UNCHANGED <<repo, acts, offered>>

\* A request that needs the model: the first failing check answers it, or
\* the handler goes on with the protocol of the settings it loaded.
ModelRequest(k, q, first) ==
  /\ Arrive(k, "model")
  /\ ClearJob(<<>>)
  /\ IF Verdict(q) = 200
     THEN /\ provider' \in Providers
          /\ Enter(first) /\ attempt' = 1 /\ answer' = NoAnswer
          /\ UNCHANGED <<round, reply, calls, results, staged, messages, told>>
     ELSE /\ Enter("idle") /\ answer' = [kind |-> k, code |-> Verdict(q), actions |-> <<>>]
          /\ UNCHANGED chat

-----------------------------------------------------------------------------
(* The chat turn.                                                          *)

ChatArrives(q) == ModelRequest("chat", q, "context")

\* Two gitboard batches that only read: the second asks for tasks the first
\* listed, which may be gone.
BuildContext ==
  /\ phase = "context"
  /\ Enter("post")
  /\ UNCHANGED <<repo, kind, chat, job, answer, offered, past>>

ContextFails ==
  /\ phase = "context"
  /\ Answer("chat", 500, <<>>)
  /\ UNCHANGED <<repo, job, past>>

\* curl_easy_perform ends with an answer below 400.
PostSucceeds(r) ==
  /\ phase = "post"
  /\ Enter("reply") /\ reply' = r
  /\ UNCHANGED <<repo, kind, provider, round, attempt, calls, results, staged, messages, told,
                 job, answer, offered, past>>

PostRetriesForever ==
  /\ phase = "post"
  /\ attempt' = attempt + 1
  /\ UNCHANGED <<repo, phase, kind, provider, round, reply, calls, results, staged, messages, told,
                 job, answer, offered, past>>

\* No connection, a timeout, 429, 5xx: the same payload is posted again.
PostRetries ==
  /\ phase = "post" /\ attempt < MaxAttempts
  /\ attempt' = attempt + 1
  /\ UNCHANGED <<repo, phase, kind, provider, round, reply, calls, results, staged, messages, told,
                 job, answer, offered, past>>

\* The last attempt, or an error that is not repeated.  A failed repair is
\* answered with a fixed text.
PostFails ==
  /\ phase = "post"
  /\ IF kind = "repair" THEN Answer("chat", 200, staged) ELSE Answer(kind, 502, <<>>)
  /\ UNCHANGED <<repo, job, past>>

\* parse_agent_tool_calls throws.
ReplyUnreadable ==
  /\ phase = "reply" /\ kind = "chat" /\ reply = NotJson
  /\ Answer("chat", 502, <<>>)
  /\ UNCHANGED <<repo, job, past>>

\* The assistant's message goes into the exchange as it came.
CallsRequested ==
  /\ phase = "reply" /\ kind = "chat" /\ reply # NotJson
  /\ Called(reply.calls) # <<>> /\ round < MaxRounds
  /\ Enter("calls")
  /\ calls' = Called(reply.calls) /\ results' = <<>>
  /\ messages' = Append(messages, [Text("assistant") EXCEPT !.calls = reply.calls])
  /\ UNCHANGED <<repo, kind, provider, round, attempt, reply, staged, told,
                 job, answer, offered, past>>

LimitReachedDropping ==
  /\ phase = "reply" /\ kind = "chat" /\ reply # NotJson
  /\ Called(reply.calls) # <<>> /\ round = MaxRounds
  /\ Answer("chat", 200, <<>>)
  /\ UNCHANGED <<repo, job, past>>

\* The round limit: what was staged is offered, the pending calls are not run.
LimitReached ==
  /\ phase = "reply" /\ kind = "chat" /\ reply # NotJson
  /\ Called(reply.calls) # <<>> /\ round = MaxRounds
  /\ IF staged = <<>> THEN Answer("chat", 502, <<>>) ELSE Answer("chat", 200, staged)
  /\ UNCHANGED <<repo, job, past>>

NoMoreCalls ==
  /\ phase = "reply" /\ kind = "chat" /\ reply # NotJson /\ Called(reply.calls) = <<>>
  /\ Enter("final")
  /\ UNCHANGED <<repo, kind, chat, job, answer, offered, past>>

-----------------------------------------------------------------------------
(* One tool call of a round.                                               *)

ActionOf(c) == [tool |-> c.tool, task |-> c.task, changes |-> c.changes]
IsStaged(c) == \E i \in DOMAIN staged : DedupeKey(staged[i]) = DedupeKey(c)

Handled(verdict) ==
  /\ calls' = Tail(calls)
  /\ results' = Append(results, [id |-> Head(calls).id, verdict |-> verdict,
                                 action |-> ActionOf(Head(calls))])
  /\ UNCHANGED <<phase, kind, provider, round, attempt, reply, messages, told,
                 job, answer, offered, past>>

DuplicateUnanswered ==
  /\ phase = "calls" /\ calls # <<>> /\ IsMutating(Head(calls))
  /\ Head(calls).parses /\ IsStaged(Head(calls))
  /\ calls' = Tail(calls)
  /\ UNCHANGED <<repo, phase, kind, provider, round, attempt, reply, results, staged, messages,
                 told, job, answer, offered, past>>

Duplicate ==
  /\ phase = "calls" /\ calls # <<>> /\ IsMutating(Head(calls))
  /\ Head(calls).parses /\ IsStaged(Head(calls))
  /\ Handled("staged")
  /\ UNCHANGED <<repo, staged>>

\* The key is made of the words of the call: the same changes said otherwise, with
\* spaces or another e-mail, are staged again.
Stage ==
  /\ phase = "calls" /\ calls # <<>> /\ IsMutating(Head(calls))
  /\ Stageable(repo, Head(calls))
  /\ staged' = Append(staged, ActionOf(Head(calls)))
  /\ Handled("staged")
  /\ UNCHANGED repo

Reject ==
  /\ phase = "calls" /\ calls # <<>> /\ IsMutating(Head(calls))
  /\ ~Stageable(repo, Head(calls))
  /\ Handled("error")
  /\ UNCHANGED <<repo, staged>>

\* execute_agent_tool: the reading tools, and branches that would change the
\* repository at once.
RunTool ==
  /\ phase = "calls" /\ calls # <<>> /\ ~IsMutating(Head(calls))
  /\ \/ /\ Handled("result")
        /\ repo' = Executed(repo, Head(calls))
     \/ /\ Handled("error")
        /\ UNCHANGED repo
  /\ UNCHANGED staged

FollowUp ==
  /\ phase = "calls" /\ calls = <<>>
  /\ Enter("post") /\ attempt' = 1 /\ round' = round + 1
  /\ messages' = messages \o ResultMessages(provider, [i \in DOMAIN results |-> results[i].id])
  /\ told' = told \union {results[i].action : i \in {j \in DOMAIN results :
                                                     results[j].verdict = "staged"}}
  /\ UNCHANGED <<repo, kind, provider, reply, calls, results, staged, job, answer, offered, past>>

Finish ==
  /\ phase = "final"
  /\ Usable(reply, staged) \/ staged # <<>>
  /\ Answer("chat", 200, staged)
  /\ UNCHANGED <<repo, job, past>>

NothingToRepairAsksAgain ==
  /\ phase = "final" /\ ~Usable(reply, staged) /\ staged = <<>> /\ ~Repairable(reply, provider)
  /\ Enter("post") /\ attempt' = 1
  /\ UNCHANGED <<repo, kind, provider, round, reply, calls, results, staged, messages, told,
                 job, answer, offered, past>>

NothingToRepair ==
  /\ phase = "final" /\ ~Usable(reply, staged) /\ staged = <<>> /\ ~Repairable(reply, provider)
  /\ Answer("chat", 502, <<>>)
  /\ UNCHANGED <<repo, job, past>>

Repair ==
  /\ phase = "final" /\ ~Usable(reply, staged) /\ staged = <<>> /\ Repairable(reply, provider)
  /\ Enter("post") /\ kind' = "repair" /\ attempt' = 1
  /\ UNCHANGED <<repo, provider, round, reply, calls, results, staged, messages, told,
                 job, answer, offered, past>>

\* Whatever the repair brought, there is a text to answer with.
Repaired ==
  /\ phase = "reply" /\ kind = "repair"
  /\ Answer("chat", 200, staged)
  /\ UNCHANGED <<repo, job, past>>

-----------------------------------------------------------------------------
(* The summary of old messages.                                            *)

SummarizeArrives(q) == ModelRequest("summarize", q, "post")

Summarized ==
  /\ phase = "reply" /\ kind = "summarize"
  /\ Answer("summarize", IF reply # NotJson /\ reply.text # "none" THEN 200 ELSE 502, <<>>)
  /\ UNCHANGED <<repo, job, past>>

-----------------------------------------------------------------------------
(* apply-actions.                                                          *)

ApplyArrives(actions) ==
  /\ Arrive("apply", "apply")
  /\ ClearJob(actions)
  /\ Enter("actions") /\ answer' = NoAnswer
  /\ UNCHANGED chat

ApplyRefused(code) ==
  /\ Arrive("apply", "apply")
  /\ ClearJob(<<>>)
  /\ Enter("idle") /\ answer' = [kind |-> "apply", code |-> code, actions |-> <<>>]
  /\ UNCHANGED chat

Looking == phase = "actions" /\ next <= Len(sent)
Current == sent[next]

SkipAction ==
  /\ Looking /\ ~Current.selected
  /\ next' = next + 1
  /\ UNCHANGED <<repo, phase, kind, chat, sent, commands, ran, answer, offered, past>>

\* The team is written before the other actions are looked at.
AddTeamMember ==
  /\ Looking /\ Current.selected /\ Current.action.tool = "add_team_member"
  /\ repo' = Changed(repo, Current.action.task, Current.action.changes[1])
  /\ ran' = Append(ran, [task |-> Current.action.task, change |-> Current.action.changes[1]])
  /\ next' = next + 1
  /\ UNCHANGED <<phase, kind, chat, sent, commands, answer, offered, past>>

Collect ==
  /\ Looking /\ Current.selected /\ Current.action.tool # "add_team_member"
  /\ Applicable(repo, Current.action)
  /\ commands' = commands \o Commands(Current.action)
  /\ next' = next + 1
  /\ UNCHANGED <<repo, phase, kind, chat, sent, ran, answer, offered, past>>

\* A throw in the loop, with members already added; also a team.json that
\* does not parse, and a failed write of it.
ActionThrows ==
  /\ Looking /\ Current.selected
  /\ Current.action.tool = "add_team_member" \/ ~Applicable(repo, Current.action)
  /\ Answer("apply", 400, <<>>)
  /\ UNCHANGED <<repo, job, past>>

LoopEnds ==
  /\ phase = "actions" /\ next > Len(sent)
  /\ IF \A i \in DOMAIN sent : ~sent[i].selected
     THEN Answer("apply", 400, <<>>)
     ELSE IF commands = <<>> THEN Answer("apply", 200, <<>>)
     ELSE Enter("batch") /\ UNCHANGED <<kind, chat, answer, offered>>
  /\ UNCHANGED <<repo, job, past>>

\* The gitboard child executes one command of the batch (see TaskDb).
RunCommand ==
  /\ phase = "batch" /\ commands # <<>>
  /\ Accepts(repo, Head(commands).task, Head(commands).change)
  /\ repo' = Changed(repo, Head(commands).task, Head(commands).change)
  /\ ran' = Append(ran, Head(commands))
  /\ commands' = Tail(commands)
  /\ UNCHANGED <<phase, kind, chat, sent, next, answer, offered, past>>

CommandFailsSkipped ==
  /\ phase = "batch" /\ commands # <<>>
  /\ commands' = Tail(commands)
  /\ UNCHANGED <<repo, phase, kind, chat, sent, next, ran, answer, offered, past>>

\* The batch stops at the first command that fails, or at its final dbstatus.
CommandFails ==
  /\ phase = "batch"
  /\ Answer("apply", 400, <<>>)
  /\ UNCHANGED <<repo, job, past>>

BatchEnds ==
  /\ phase = "batch" /\ commands = <<>>
  /\ Answer("apply", 200, <<>>)
  /\ UNCHANGED <<repo, job, past>>

-----------------------------------------------------------------------------
(* Others: a gitboard or an editor outside the server.                     *)

OthersChange ==
  /\ acts < MaxActs
  /\ acts' = acts + 1
  /\ alone' = FALSE
  /\ repo' \in {r \in {[repo EXCEPT !.status[t] = s] : t \in Tasks, s \in Statuses \union {Gone}}
                      \union {[repo EXCEPT !.team = m] : m \in SUBSET Members} : r # repo}
  /\ UNCHANGED <<phase, kind, chat, job, answer, offered, before, count>>

Handler ==
  \/ BuildContext \/ ContextFails \/ (\E r \in Replies \union {NotJson} : PostSucceeds(r))
  \/ PostRetries \/ PostFails \/ ReplyUnreadable \/ CallsRequested \/ LimitReached \/ NoMoreCalls
  \/ Duplicate \/ Stage \/ Reject \/ RunTool \/ FollowUp
  \/ Finish \/ NothingToRepair \/ Repair \/ Repaired \/ Summarized
  \/ SkipAction \/ AddTeamMember \/ Collect \/ ActionThrows \/ LoopEnds
  \/ RunCommand \/ CommandFails \/ BatchEnds

\* The page sends actions of its answers, the user's choice among them selected.
Requests == UNION {[1..n -> [action : offered, selected : BOOLEAN]] : n \in 1..MaxActions}

Page ==
  \/ \E q \in Queries : ChatArrives(q) \/ SummarizeArrives(q)
  \/ \E actions \in Requests : ApplyArrives(actions)
  \/ \E code \in {400, 404, 500} : ApplyRefused(code)

Next == Handler \/ Page \/ OthersChange

\* The thread, its child and the provider (curl has a timeout) go on.
Spec == Init /\ [][Next]_vars /\ WF_vars(Handler)

-----------------------------------------------------------------------------
(* Properties.                                                             *)

\* Every variable has its type.
TypeOK ==
  /\ repo \in Repositories /\ before \in Repositories
  /\ phase \in Phases /\ kind \in Kinds
  /\ provider \in Providers \union {"none"}
  /\ round \in 0..MaxRounds /\ attempt \in 0..MaxAttempts
  /\ reply \in Replies \union {NotJson}
  /\ next \in 1..(Len(sent) + 1)
  /\ answer.code \in {0, 200, 400, 404, 500, 502}
  /\ alone \in BOOLEAN /\ acts \in 0..MaxActs
  /\ count \in [{"model", "apply"} -> 0..MaxRequests]

Returns(k) == kind = k /\ phase # "idle" /\ phase' = "idle"

\* An action the provider was told is staged for review is in the answer to
\* the page, whichever way the turn ends, unless the turn ends in an error.
ToldIsOffered ==
  [][(Returns("chat") \/ Returns("repair")) /\ answer'.code = 200 =>
       told \subseteq ToSet(answer'.actions)]_vars

\* What the provider is sent answers every call that has a name and an id
\* once, under that id, in the order of the calls and before anything else
\* is said: providers refuse a conversation that does not.
Posted == IF provider = "anthropic" THEN AnthropicRequest(round, messages)
          ELSE OpenaiRequest(round, messages)
Ids(cs) == [i \in DOMAIN cs |-> cs[i].id]
Given(ids) == FlattenSeq([k \in DOMAIN ids |-> IF ids[k] > 0 THEN <<ids[k]>> ELSE <<>>])
Expected(cs) ==
  FlattenSeq([k \in DOMAIN cs |-> IF cs[k].tool # "" /\ cs[k].id # 0 THEN <<cs[k].id>> ELSE <<>>])
Answered(i) ==
  LET Results(n) == \A k \in (i + 1)..(i + n) : k \in DOMAIN Posted /\ Posted[k].ids # <<>>
      n == CHOOSE m \in 0..Len(Posted) : Results(m) /\ ~Results(m + 1)
  IN FlattenSeq([k \in 1..n |-> Posted[i + k].ids])
CallsAnswered ==
  phase = "post" => \A i \in {j \in DOMAIN Posted : Posted[j].calls # <<>>} :
    Given(Answered(i)) = Expected(Posted[i].calls)

\* What the selected actions mean, one after the other.
Meant(actions) ==
  FlattenSeq([i \in DOMAIN actions |->
                IF actions[i].selected THEN Steps(actions[i].action) ELSE <<>>])
Intended(r, actions) == Outcome(r, Meant(actions))

\* When apply-actions answers that it applied the actions, and nobody else
\* changed the repository meanwhile, the repository is what the selected
\* actions mean: each took effect once, in order, whole.
AppliedAsAsked ==
  [][Returns("apply") /\ answer'.code = 200 /\ alone => repo' = Intended(before, sent)]_vars

\* The server changes the repository only by a change of an action that an
\* answer offered and the user selected: nothing a model asks for in a chat
\* takes effect by itself.
OnlyChosenActions ==
  [][repo' # repo /\ acts' = acts =>
       \E i \in DOMAIN sent : /\ sent[i].selected /\ sent[i].action \in offered
                             /\ \E j \in DOMAIN sent[i].action.changes :
                                  repo' = Changed(repo, sent[i].action.task,
                                                  sent[i].action.changes[j])]_vars

\* Every request is answered, however the provider answers, fails or asks
\* for tools.
RequestsAnswered == phase # "idle" ~> phase = "idle"

\* app.js tells the user of an answer with an error: "No changes were
\* applied."
RefusedChangedNothing ==
  [][Returns("apply") /\ answer'.code # 200 => ran = <<>>]_vars
=============================================================================
