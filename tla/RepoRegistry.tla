---------------------------- MODULE RepoRegistry ----------------------------
(***************************************************************************)
(* What doc/server_spec.md ("Request Serialization") promises of the HTTP  *)
(* API, without threads, locks or processes: every API request takes       *)
(* effect at one instant, and no configuration change happens while the    *)
(* gitboard commands of a batch are running.  ServerApi implements it.     *)
(***************************************************************************)
CONSTANTS Clients,   \* one HTTP request each
          Repos      \* repository ids

VARIABLES repos,     \* the ids registered in config.json
          answer,    \* the status decided for each request, "none" before
          batches    \* the batch requests whose commands are running

vars == <<repos, answer, batches>>

Init == /\ repos \in SUBSET Repos
        /\ answer = [c \in Clients |-> "none"]
        /\ batches = {}

Decide(c, status) == /\ answer[c] = "none"
                     /\ answer' = [answer EXCEPT ![c] = status]

\* POST /api/repos: a known id is a conflict, a new one is registered.
Add(c, r) == /\ batches = {}
             /\ \/ r \in repos /\ Decide(c, "409") /\ UNCHANGED repos
                \/ r \notin repos /\ Decide(c, "201") /\ repos' = repos \union {r}
             /\ UNCHANGED batches

\* DELETE /api/repos/<id>.
Remove(c, r) == /\ batches = {}
                /\ \/ r \notin repos /\ Decide(c, "404") /\ UNCHANGED repos
                   \/ r \in repos /\ Decide(c, "200") /\ repos' = repos \ {r}
                /\ UNCHANGED batches

\* POST /batch: resolved against the registry the commands will run on.
RefuseBatch(c, r) == /\ batches = {}
                     /\ r \notin repos
                     /\ Decide(c, "404")
                     /\ UNCHANGED <<repos, batches>>

BeginBatch(c, r) == /\ batches = {}
                    /\ r \in repos
                    /\ answer[c] = "none"
                    /\ batches' = {c}
                    /\ UNCHANGED <<repos, answer>>

EndBatch(c) == /\ batches = {c}
               /\ Decide(c, "ran") \/ Decide(c, "500")
               /\ batches' = {}
               /\ UNCHANGED repos

\* A request that touches neither the registry nor a repository, or fails.
Other(c) == /\ Decide(c, "other") \/ Decide(c, "500")
            /\ UNCHANGED <<repos, batches>>

\* The server stops: a batch it was waiting for is never answered.
Abandon == /\ batches # {}
           /\ batches' = {}
           /\ UNCHANGED <<repos, answer>>

Next == \/ \E c \in Clients : EndBatch(c) \/ Other(c)
        \/ \E c \in Clients, r \in Repos :
              Add(c, r) \/ Remove(c, r) \/ RefuseBatch(c, r) \/ BeginBatch(c, r)
        \/ Abandon

Spec == Init /\ [][Next]_vars
=============================================================================
