------------------------------ MODULE MCAgentPip ------------------------------
(***************************************************************************)
(* Small instances of AgentPip.                                            *)
(***************************************************************************)
EXTENDS AgentPip, TLC

MCLeads == {<<"todo", "doing">>, <<"doing", "todo">>}

Call(tool, changes) == [tool |-> tool, task |-> "t1", changes |-> changes, parses |-> TRUE]
Move == Call("move_task", <<<<"move", "doing">>>>)
Update == Call("update_task", <<<<"assignee", "pip">>, <<"move", "doing">>>>)
BadTags == Call("update_task", <<<<"tags", Malformed>>>>)
Comment == Call("comment_task", <<<<"comment", "hello">>>>)
Join == Call("add_team_member", <<<<"join", "pip">>>>)
List == Call("list_tasks", <<>>)
Nameless == Call("", <<>>)
Broken == [Move EXCEPT !.parses = FALSE]

MCChanges == UNION {ToSet(c.changes) : c \in {Move, Update, BadTags, Comment, Join}}

With(c, i) == [id |-> i] @@ c
Chat(asked) == [calls |-> asked, text |-> "prose", cut |-> FALSE, reasoning |-> FALSE]
MCReplies ==
  {Chat(<<With(Move, 1)>>), Chat(<<With(List, 0)>>), Chat(<<With(Broken, 1)>>),
   Chat(<<With(Nameless, 0), With(Move, 0), With(Move, 2)>>)}
  \union {Chat(<<With(c, 1), With(d, 2)>>) : c \in {Update, BadTags}, d \in {Comment, Join}}
  \union {[Chat(<<>>) EXCEPT !.text = t, !.cut = c] : t \in {"prose", "drafts"}, c \in BOOLEAN}
  \union {[Chat(<<>>) EXCEPT !.text = "none", !.reasoning = r] : r \in BOOLEAN}

\* The task in its first status and nobody in the team, or in its second
\* and Pip in the team.
Board(s, team) == [status |-> "t1" :> s, assignee |-> "t1" :> Nobody, comments |-> "t1" :> 0,
                   team |-> team]
MCBoards == {Board("todo", {}), Board("doing", {"pip"})}

Query == [wellformed |-> TRUE, enabled |-> TRUE, registered |-> TRUE, complete |-> TRUE,
          history |-> TRUE, key |-> TRUE]
MCQueries == {Query} \union {[Query EXCEPT ![f] = FALSE] : f \in DOMAIN Query}
=============================================================================
