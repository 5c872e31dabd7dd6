------------------------------ MODULE AiSettings ------------------------------
(***************************************************************************)
(* The AI settings of gitboard-server: the section "ai" of config.json,    *)
(* the API keys in the keyring of the operating system, and the server's   *)
(* cache of keys.  A key is found by a reference made of the model and the *)
(* endpoint URL; PUT /api/ai/config changes the three stores one after the *)
(* other.  One request runs at a time (the API mutex, see ServerApi); the  *)
(* keyring locks and fails, its owner edits it and the server dies between *)
(* any two steps.                                                          *)
(***************************************************************************)
EXTENDS Naturals

CONSTANTS Targets,    \* pairs of model and endpoint URL, and URLs without a model
          Complete,   \* those with both
          NoTarget,   \* no endpoint URL
          Keys,       \* API keys
          NoKey,      \* no key
          Platforms,  \* operating systems the server may run on
          Bodies,     \* bodies of PUT /api/ai/config
          Handwritten, \* settings of configuration files to begin with
          MaxPuts,    \* bound: requests that change the settings
          MaxActs     \* bound: acts of others

ASSUME SettingsAssumption == /\ Complete \subseteq Targets /\ NoTarget \notin Targets
                             /\ NoKey \notin Keys /\ "bad" \notin Keys \union {NoKey}
                             /\ "empty" \notin Targets
                             /\ MaxPuts \in Nat /\ MaxActs \in Nat

ASSUME BodiesAssumption ==
  \A b \in Bodies : b \in [valid : BOOLEAN, target : Targets \union {NoTarget},
                          enabled : BOOLEAN, key : Keys \union {NoKey, "bad"},
                          clear : {"no", "yes", "bad"}]

ASSUME HandwrittenAssumption ==
  \A s \in Handwritten : s \in [file : {TRUE}, target : Targets \union {NoTarget},
                               enabled : BOOLEAN, ref : {NoTarget, "empty"}]

VARIABLES platform, \* the operating system
          saved,    \* the settings in config.json
          store,    \* the keyring's entries
          cache,    \* ai_api_key_cache
          keyring,  \* how the keyring answers
          req,      \* the running request
          answer,   \* the last answer
          edited,   \* entries that others changed since the server cached them
          given,    \* pairs of target and key the user gave and did not withdraw
          puts,     \* PUT requests so far
          acts      \* acts of others so far

vars == <<platform, saved, store, cache, keyring, req, answer, edited, given, puts, acts>>

-----------------------------------------------------------------------------
Refs == Targets \union {NoTarget, "empty"}

\* The reference of a target names it; without an endpoint URL it is the bare
\* name of the platform's store (the mutant: the bare prefix).  parse_ai_config_update computes a bare or an
\* empty reference anew.
RefOfPrefix(target) == IF target = NoTarget THEN "prefix" ELSE target
RefOf(target) == target
Recomputed(s) == IF s.ref \in {NoTarget, "empty"} THEN [s EXCEPT !.ref = RefOf(s.target)] ELSE s

Defaults == [file |-> FALSE, target |-> NoTarget, enabled |-> FALSE, ref |-> "empty"]

\* Enabled settings need an endpoint URL and a model.
Parses(s) == s.enabled => s.target \in Complete

\* load_config: a missing file means the defaults, and is not parsed.
Loads == saved.file => Parses(saved)
Loaded == IF saved.file THEN Recomputed(saved) ELSE Defaults

\* What a call of the keyring meets.  Windows has no test for a missing store.
Reach == IF platform = "windows" /\ keyring = "missing" THEN "failing" ELSE keyring

Entry(ref) == IF ref \in Targets THEN store[ref] ELSE NoKey
Cached(ref) == IF ref \in Targets THEN cache[ref] ELSE NoKey

\* ai_api_key_configured and load_ai_api_key, for a reference that is not empty.
Configured(ref) ==
  IF Cached(ref) # NoKey THEN "yes"
  ELSE IF ref \in Targets /\ Reach = "failing" THEN "error"
  ELSE IF Reach = "ok" /\ Entry(ref) # NoKey THEN "yes" ELSE "no"
KeyFor(ref) ==
  IF Cached(ref) # NoKey THEN Cached(ref) ELSE IF Reach = "ok" THEN Entry(ref) ELSE NoKey

NoBody == [valid |-> FALSE, target |-> NoTarget, enabled |-> FALSE, key |-> NoKey, clear |-> "no"]
Idle == [op |-> "none", step |-> "idle", body |-> NoBody, old |-> Defaults, new |-> Defaults,
         key |-> NoKey, before |-> NoKey, calm |-> TRUE]

Init == /\ platform \in Platforms
        /\ saved \in Handwritten \union {Defaults}
        /\ store = [t \in Targets |-> NoKey] /\ cache = [t \in Targets |-> NoKey]
        /\ keyring = "ok" /\ req = Idle /\ answer = 0
        /\ edited = {} /\ given = {} /\ puts = 0 /\ acts = 0

Enter(step) == req' = [req EXCEPT !.step = step] /\ UNCHANGED answer
Answer(code) == req' = Idle /\ answer' = code

-----------------------------------------------------------------------------
(* PUT /api/ai/config.                                                     *)

\* Mutant: the reference of the settings before.
UpdatedKeepingRef(b) == [file |-> TRUE, target |-> b.target, enabled |-> b.enabled,
                         ref |-> Loaded.ref]

Updated(b) == [file |-> TRUE, target |-> b.target, enabled |-> b.enabled,
               ref |-> RefOf(b.target)]

PutArrives(b) ==
  /\ req.step = "idle" /\ puts < MaxPuts
  /\ puts' = puts + 1
  /\ IF Loads /\ b.valid /\ Parses(Updated(b))
     THEN /\ req' = [op |-> "put", step |-> "key", body |-> b, old |-> Loaded,
                     new |-> Updated(b), key |-> NoKey,
                     before |-> Entry(RefOf(b.target)), calm |-> keyring = "ok"]
          /\ answer' = 0
          /\ given' = given \union ({<<b.target, b.key>>} \intersect (Targets \X Keys))
     ELSE Answer(500) /\ UNCHANGED given
  /\ UNCHANGED <<platform, saved, store, cache, keyring, edited, acts>>

PutKeyOfWrongType ==
  /\ req.step = "key" /\ req.body.key = "bad"
  /\ Answer(400)
  /\ UNCHANGED <<platform, saved, store, cache, keyring, edited, given, puts, acts>>

PutNoKey ==
  /\ req.step = "key" /\ req.body.key = NoKey
  /\ Enter("clear")
  /\ UNCHANGED <<platform, saved, store, cache, keyring, edited, given, puts, acts>>

\* save_ai_api_key: the keyring first, then the cache.
PutSavesKey ==
  /\ req.step = "key" /\ req.body.key \in Keys
  /\ IF RefOf(req.new.target) \in Targets /\ Reach = "ok"
     THEN /\ store' = [store EXCEPT ![RefOf(req.new.target)] = req.body.key]
          /\ cache' = [cache EXCEPT ![RefOf(req.new.target)] = req.body.key]
          /\ edited' = edited \ {RefOf(req.new.target)}
          /\ Enter("old")
     ELSE Answer(500) /\ UNCHANGED <<store, cache, edited>>
  /\ UNCHANGED <<platform, saved, keyring, given, puts, acts>>

\* Mutant: the cached key stays.
ClearKeepingCache(s, step) ==
  IF s.ref \notin Targets THEN Enter(step) /\ UNCHANGED <<store, cache>>
  ELSE /\ store' = IF Reach = "ok" THEN [store EXCEPT ![s.ref] = NoKey] ELSE store
       /\ IF Reach = "failing" THEN Answer(500) ELSE Enter(step)
       /\ UNCHANGED cache

\* clear_ai_api_key forgets the cached key before it asks the keyring, and
\* returns as if done when the keyring is missing.
Clear(s, step) ==
  IF s.ref \notin Targets THEN Enter(step) /\ UNCHANGED <<store, cache>>
  ELSE /\ cache' = [cache EXCEPT ![s.ref] = NoKey]
       /\ store' = IF Reach = "ok" THEN [store EXCEPT ![s.ref] = NoKey] ELSE store
       /\ IF Reach = "failing" THEN Answer(500) ELSE Enter(step)

\* Mutant: the key of the new settings goes with the old one.
PutClearsOldByNew ==
  /\ req.step = "old"
  /\ IF req.old.ref # "empty" /\ req.old.ref # req.new.ref
     THEN Clear(req.new, "clear")
     ELSE Enter("clear") /\ UNCHANGED <<store, cache>>
  /\ UNCHANGED <<platform, saved, keyring, edited, given, puts, acts>>

\* The key of the settings before goes when a new key came with a new target.
PutClearsOld ==
  /\ req.step = "old"
  /\ IF req.old.ref # "empty" /\ req.old.ref # req.new.ref
     THEN Clear(req.old, "clear")
     ELSE Enter("clear") /\ UNCHANGED <<store, cache>>
  /\ UNCHANGED <<platform, saved, keyring, edited, given, puts, acts>>

PutClearOfWrongType ==
  /\ req.step = "clear" /\ req.body.clear = "bad"
  /\ Answer(400)
  /\ UNCHANGED <<platform, saved, store, cache, keyring, edited, given, puts, acts>>

PutClears ==
  /\ req.step = "clear" /\ req.body.clear # "bad"
  /\ IF req.body.clear = "yes" THEN Clear(req.new, "save")
     ELSE Enter("save") /\ UNCHANGED <<store, cache>>
  /\ UNCHANGED <<platform, saved, keyring, edited, given, puts, acts>>

\* save_config replaces config.json, or throws and leaves it.
PutSavesConfig ==
  /\ req.step = "save"
  /\ saved' = req.new /\ Enter("respond")
  /\ UNCHANGED <<platform, store, cache, keyring, edited, given, puts, acts>>

PutSaveFails ==
  /\ req.step = "save"
  /\ Answer(500)
  /\ UNCHANGED <<platform, saved, store, cache, keyring, edited, given, puts, acts>>

\* What the user withdrew by a PUT that was answered 200 with the keyring at
\* hand: the key that was cleared or replaced, and the one of the old target.
Withdrawn ==
  LET b == req.body
      new == IF b.clear = "yes" THEN {<<b.target, k>> : k \in Keys}
             ELSE IF b.key \in Keys THEN {<<b.target, k>> : k \in Keys \ {b.key}} ELSE {}
      old == IF b.key \in Keys /\ req.old.ref \in Targets \ {b.target}
             THEN {<<req.old.ref, k>> : k \in Keys} ELSE {}
  IN  IF req.calm THEN new \union old ELSE {}

\* The answer says whether a key is configured, and throws with the keyring.
PutResponds ==
  /\ req.step = "respond"
  /\ IF Configured(req.new.ref) = "error" THEN Answer(500) /\ UNCHANGED given
     ELSE Answer(200) /\ given' = given \ Withdrawn
  /\ UNCHANGED <<platform, saved, store, cache, keyring, edited, puts, acts>>

-----------------------------------------------------------------------------
(* The other requests.                                                     *)

\* GET /api/ai/config.
GetSettings ==
  /\ req.step = "idle"
  /\ Answer(IF ~Loads \/ (Loaded.ref # "empty" /\ Configured(Loaded.ref) = "error")
            THEN 500 ELSE 200)
  /\ UNCHANGED <<platform, saved, store, cache, keyring, edited, given, puts, acts>>

\* The checks of POST /api/ai/test, the chat and the summary.
Ready == IF ~Loads THEN 500
         ELSE IF ~Loaded.enabled \/ Loaded.target \notin Complete THEN 400
         ELSE CASE Configured(Loaded.ref) = "error" -> 500
                [] Configured(Loaded.ref) = "no"    -> 400
                [] OTHER                            -> 200

TestSettings ==
  /\ req.step = "idle"
  /\ Answer(Ready)
  /\ UNCHANGED <<platform, saved, store, cache, keyring, edited, given, puts, acts>>

AskModel ==
  /\ req.step = "idle"
  /\ IF Ready = 200
     THEN req' = [Idle EXCEPT !.op = "chat", !.step = "load", !.old = Loaded] /\ answer' = 0
     ELSE Answer(Ready)
  /\ UNCHANGED <<platform, saved, store, cache, keyring, edited, given, puts, acts>>

\* load_ai_api_key: the cache, or the keyring and then the cache.
LoadKey ==
  /\ req.step = "load"
  /\ LET ref == req.old.ref
         key == KeyFor(ref)
     IN  IF key = NoKey THEN Answer(500) /\ UNCHANGED <<cache, edited>>
         ELSE /\ req' = [req EXCEPT !.step = "post", !.key = key] /\ UNCHANGED answer
              /\ cache' = [cache EXCEPT ![ref] = key]
              /\ edited' = IF Cached(ref) = NoKey THEN edited \ {ref} ELSE edited
  /\ UNCHANGED <<platform, saved, store, keyring, given, puts, acts>>

\* The posts of the request, with the settings and the key it loaded.
Posted ==
  /\ req.step = "post"
  /\ \E code \in {200, 502} : Answer(code)
  /\ UNCHANGED <<platform, saved, store, cache, keyring, edited, given, puts, acts>>

\* Adding or deleting a repository, or its file access, loads the whole
\* configuration and saves it again.
RewriteConfig ==
  /\ req.step = "idle" /\ Loads
  /\ saved' = [Loaded EXCEPT !.file = TRUE]
  /\ UNCHANGED <<platform, store, cache, keyring, req, answer, edited, given, puts, acts>>

-----------------------------------------------------------------------------
(* The surroundings.                                                       *)

Act == acts < MaxActs /\ acts' = acts + 1

Dies == /\ Act
        /\ req' = Idle /\ answer' = 0 /\ edited' = {}
        /\ cache' = [t \in Targets |-> NoKey]
        /\ UNCHANGED <<platform, saved, store, keyring, given, puts>>

Disturb == req' = [req EXCEPT !.calm = FALSE]

\* The keyring is unlocked, locked, or not there at all.
KeyringChanges ==
  /\ Act /\ Disturb
  /\ keyring' \in {"ok", "missing", "failing"} \ {keyring}
  /\ UNCHANGED <<platform, saved, store, cache, answer, edited, given, puts>>

\* The user changes an entry with the keyring's own program.
OwnerEdits(t, k) ==
  /\ Act /\ Disturb
  /\ store[t] # k
  /\ store' = [store EXCEPT ![t] = k] /\ edited' = edited \union {t}
  /\ given' = IF k = NoKey THEN given ELSE given \union {<<t, k>>}
  /\ UNCHANGED <<platform, saved, cache, keyring, answer, puts>>

Next == \/ \E b \in Bodies : PutArrives(b)
        \/ PutKeyOfWrongType \/ PutNoKey \/ PutSavesKey
        \/ PutClearsOld \/ PutClearOfWrongType \/ PutClears
        \/ PutSavesConfig \/ PutSaveFails \/ PutResponds
        \/ GetSettings \/ TestSettings \/ AskModel \/ LoadKey \/ Posted
        \/ RewriteConfig
        \/ Dies \/ KeyringChanges
        \/ \E t \in Targets, k \in Keys \union {NoKey} : OwnerEdits(t, k)

Spec == Init /\ [][Next]_vars

-----------------------------------------------------------------------------
MaybeKey == Keys \union {NoKey}
Settings == [file : BOOLEAN, target : Targets \union {NoTarget}, enabled : BOOLEAN, ref : Refs]
Steps == {"idle", "key", "old", "clear", "save", "respond", "load", "post"}
Requests == [op : {"none", "put", "chat"}, step : Steps, body : Bodies \union {NoBody},
             old : Settings, new : Settings, key : MaybeKey, before : MaybeKey,
             calm : BOOLEAN]

\* Every variable holds a value of its kind.
TypeOK ==
  /\ platform \in Platforms /\ saved \in Settings
  /\ store \in [Targets -> MaybeKey] /\ cache \in [Targets -> MaybeKey]
  /\ keyring \in {"ok", "missing", "failing"}
  /\ req \in Requests
  /\ answer \in {0, 200, 400, 500, 502}
  /\ edited \subseteq Targets /\ given \subseteq Targets \X Keys
  /\ puts \in 0..MaxPuts /\ acts \in 0..MaxActs

\* A key goes only to the model and endpoint the user gave it for, and no
\* longer once the user replaced or cleared it, or moved on with a new key for
\* another endpoint (ai_agent.cc 607-638, 716-731).
KeyIsCurrent == req.step = "post" => <<req.old.target, req.key>> \in given

\* When PUT /api/ai/config reaches its answer and nobody touched the keyring,
\* the new settings are saved and find the key the request asked for: the
\* given one, none after clearApiKey, or the one that was there for this
\* target before; a new key for a new target leaves no key with the old one.
PutDone ==
  req.step = "respond" /\ req.calm =>
    LET b == req.body
    IN  /\ saved = Updated(b)
        /\ Entry(saved.ref) = IF b.clear = "yes" THEN NoKey
                              ELSE IF b.key \in Keys THEN b.key ELSE req.before
        /\ b.key \in Keys /\ req.old.ref # saved.ref => Entry(req.old.ref) = NoKey

\* A cached key is the keyring's, unless its owner edited the entry there
\* since: what was cleared or replaced is not used again.
CacheIsStored == \A t \in Targets : cache[t] # NoKey /\ t \notin edited => cache[t] = store[t]
=============================================================================
