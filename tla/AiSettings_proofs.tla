--------------------------- MODULE AiSettings_proofs ---------------------------
(***************************************************************************)
(* For any targets, keys and request bodies, on every platform: a key goes *)
(* only where the user gave it for, PUT does what it answers, and the      *)
(* cache never outlives the keyring.  The inductive invariant says what    *)
(* each step of PUT has put into the two stores so far, if nobody touched  *)
(* the keyring since it arrived.                                           *)
(***************************************************************************)
EXTENDS AiSettings, TLAPS

PutSteps == {"key", "old", "clear", "save", "respond"}

\* A stored reference is that of its target, or will be recomputed.
OwnRef(s) == s.ref = s.target \/ s.ref \in {NoTarget, "empty"}

\* Every key in the two stores was given for its target.
Given == \A t \in Targets : /\ store[t] \in Keys => <<t, store[t]>> \in given
                            /\ cache[t] \in Keys => <<t, cache[t]>> \in given

Holds(t, k) == t \in Targets => store[t] = k /\ cache[t] = k
OldGone == req.old.ref # req.body.target => Holds(req.old.ref, NoKey)

\* What PUT has come to.
Progress ==
  LET b == req.body
      t == req.body.target
  IN  /\ req.step = "key" => Entry(t) = req.before
      /\ req.step = "old" => Holds(t, b.key)
      /\ req.step = "clear" => IF b.key \in Keys THEN Holds(t, b.key) /\ OldGone
                               ELSE Entry(t) = req.before
      /\ req.step \in {"save", "respond"} =>
           /\ b.key \in Keys => OldGone
           /\ IF b.clear = "yes" THEN Holds(t, NoKey)
              ELSE IF b.key \in Keys THEN Holds(t, b.key) ELSE Entry(t) = req.before

Put ==
  req.step \in PutSteps =>
    /\ req.body \in Bodies /\ req.new = Updated(req.body)
    /\ req.body.key \in Keys => <<req.body.target, req.body.key>> \in given
                                \/ req.body.target \notin Targets
    /\ req.step = "old" => req.body.key \in Keys
    /\ req.step \in PutSteps \ {"key"} /\ req.body.key \in Keys => req.body.target \in Targets
    /\ req.step = "respond" => saved = req.new
    /\ req.calm => keyring = "ok" /\ Progress

Chat == /\ req.step \in {"load", "post"} => req.old.ref = req.old.target
                                             /\ req.old.target \in Targets
        /\ KeyIsCurrent

IInv == TypeOK /\ OwnRef(saved) /\ Given /\ Put /\ Chat /\ CacheIsStored

-----------------------------------------------------------------------------
LEMMA BodyFields ==
  ASSUME NEW b \in Bodies
  PROVE  /\ b.valid \in BOOLEAN /\ b.target \in Targets \union {NoTarget}
         /\ b.enabled \in BOOLEAN /\ b.key \in Keys \union {NoKey, "bad"}
         /\ b.clear \in {"no", "yes", "bad"}
         /\ Updated(b) \in Settings /\ Updated(b).ref = b.target
         /\ Updated(b).target = b.target
  BY BodiesAssumption DEF Updated, Settings, Refs, RefOf

LEMMA DefaultsFields ==
  /\ Defaults \in Settings /\ OwnRef(Defaults) /\ Defaults.file = FALSE
  /\ Defaults.enabled = FALSE /\ Defaults.ref = "empty" /\ Defaults.target = NoTarget
  BY DEF Defaults, Settings, Refs, OwnRef

LEMMA IdleFields ==
  /\ Idle \in Requests /\ Idle.step = "idle" /\ Idle.op = "none"
  BY DefaultsFields DEF Idle, Requests, Steps, MaybeKey

\* A loaded reference is that of its target, unless there is no file.
LEMMA LoadedFields ==
  ASSUME TypeOK, OwnRef(saved)
  PROVE  /\ Loaded \in Settings /\ OwnRef(Loaded)
         /\ Loaded.target \in Complete => Loaded.ref = Loaded.target
<1>1. saved \in Settings
  BY DEF TypeOK
<1>2. CASE saved.file
  <2>1. CASE saved.ref \in {NoTarget, "empty"}
    <3>1. Loaded = [saved EXCEPT !.ref = saved.target]
      BY <1>2, <2>1 DEF Loaded, Recomputed, RefOf
    <3>2. saved.target \in Refs
      BY <1>1 DEF Settings, Refs
    <3> QED BY <1>1, <3>1, <3>2 DEF OwnRef, Settings
  <2>2. CASE saved.ref \notin {NoTarget, "empty"}
    BY <1>1, <1>2, <2>2 DEF Loaded, Recomputed, OwnRef
  <2> QED BY <2>1, <2>2
<1>3. CASE ~saved.file
  BY <1>3, DefaultsFields, SettingsAssumption DEF Loaded
<1> QED BY <1>2, <1>3

\* A step of a request changes nothing else in its record.
LEMMA EnterFields ==
  ASSUME TypeOK, NEW step \in Steps, Enter(step)
  PROVE  /\ req' \in Requests /\ req'.step = step /\ answer' = answer
         /\ req'.op = req.op /\ req'.body = req.body /\ req'.old = req.old
         /\ req'.new = req.new /\ req'.key = req.key /\ req'.before = req.before
         /\ req'.calm = req.calm
<1>1. req \in Requests /\ req' = [req EXCEPT !.step = step] /\ answer' = answer
  BY DEF TypeOK, Enter
<1> QED BY <1>1 DEF Requests

LEMMA AnswerFields ==
  ASSUME NEW code, Answer(code)
  PROVE  req' \in Requests /\ req'.step = "idle" /\ req'.op = "none" /\ answer' = code
  BY IdleFields DEF Answer

LEMMA DisturbFields ==
  ASSUME TypeOK, Disturb
  PROVE  /\ req' \in Requests /\ req'.calm = FALSE /\ req'.step = req.step
         /\ req'.op = req.op /\ req'.body = req.body /\ req'.old = req.old
         /\ req'.new = req.new /\ req'.key = req.key /\ req'.before = req.before
<1>1. req \in Requests /\ req' = [req EXCEPT !.calm = FALSE]
  BY DEF TypeOK, Disturb
<1> QED BY <1>1 DEF Requests

\* clear_ai_api_key touches one entry, and with the keyring at hand removes it.
LEMMA ClearEffect ==
  ASSUME TypeOK, NEW s \in Settings, NEW step \in Steps, Clear(s, step)
  PROVE  /\ store' \in [Targets -> MaybeKey] /\ cache' \in [Targets -> MaybeKey]
         /\ \A t \in Targets : t # s.ref => store'[t] = store[t] /\ cache'[t] = cache[t]
         /\ s.ref \in Targets => cache'[s.ref] = NoKey /\ store'[s.ref] \in {store[s.ref], NoKey}
         /\ Enter(step) \/ Answer(500)
         /\ keyring = "ok" => /\ Enter(step)
                              /\ s.ref \in Targets => store'[s.ref] = NoKey
<1>1. store \in [Targets -> MaybeKey] /\ cache \in [Targets -> MaybeKey]
  BY DEF TypeOK
<1>2. CASE s.ref \notin Targets
  BY <1>1, <1>2 DEF Clear
<1>3. CASE s.ref \in Targets
  <2>1. cache' = [cache EXCEPT ![s.ref] = NoKey]
        /\ store' = IF Reach = "ok" THEN [store EXCEPT ![s.ref] = NoKey] ELSE store
    BY <1>3 DEF Clear
  <2>2. Enter(step) \/ Answer(500)
    BY <1>3 DEF Clear
  <2>3. keyring = "ok" => Enter(step) /\ Reach = "ok"
    BY <1>3 DEF Clear, Reach
  <2> QED BY <1>1, <1>3, <2>1, <2>2, <2>3 DEF MaybeKey
<1> QED BY <1>2, <1>3

\* What the actions of PUT do to the stores, with the keys at hand.
LEMMA SaveEffect ==
  ASSUME TypeOK, Put, PutSavesKey
  PROVE  \/ Answer(500) /\ UNCHANGED <<store, cache, edited>>
         \/ /\ req.body.target \in Targets /\ req.new.target = req.body.target /\ Enter("old")
            /\ store' = [store EXCEPT ![req.body.target] = req.body.key]
            /\ cache' = [cache EXCEPT ![req.body.target] = req.body.key]
            /\ edited' = edited \ {req.body.target}
<1>1. req.body \in Bodies /\ req.new = Updated(req.body)
  BY DEF Put, PutSavesKey, PutSteps
<1>2. req.new.target = req.body.target
  BY <1>1, BodyFields
<1> QED BY <1>2 DEF PutSavesKey, RefOf

LEMMA LoadEffect ==
  ASSUME TypeOK, Chat, Given, LoadKey
  PROVE  \/ Answer(500) /\ UNCHANGED <<cache, edited>>
         \/ LET t == req.old.target
                key == KeyFor(t)
            IN  /\ t \in Targets /\ req.old.ref = t
                /\ key \in Keys /\ <<t, key>> \in given
                /\ key = IF cache[t] # NoKey THEN cache[t] ELSE store[t]
                /\ req' = [req EXCEPT !.step = "post", !.key = key]
                /\ UNCHANGED answer
                /\ cache' = [cache EXCEPT ![t] = key]
                /\ edited' = IF cache[t] = NoKey THEN edited \ {t} ELSE edited
<1>1. req.old.ref = req.old.target /\ req.old.target \in Targets
  BY DEF Chat, LoadKey
<1> DEFINE t == req.old.target
<1> DEFINE key == KeyFor(t)
<1>2. store[t] \in MaybeKey /\ cache[t] \in MaybeKey /\ Cached(t) = cache[t] /\ Entry(t) = store[t]
  BY <1>1 DEF TypeOK, Cached, Entry
<1>3. key # NoKey => key = IF cache[t] # NoKey THEN cache[t] ELSE store[t]
  BY <1>2 DEF KeyFor
<1>4. key # NoKey => key \in Keys /\ <<t, key>> \in given
  BY <1>1, <1>2, <1>3 DEF MaybeKey, Given
<1>5. CASE key = NoKey
  BY <1>1, <1>5 DEF LoadKey
<1>6. CASE key # NoKey
  BY <1>1, <1>2, <1>3, <1>4, <1>6 DEF LoadKey
<1> QED BY <1>5, <1>6

-----------------------------------------------------------------------------
LEMMA InitIInv == Init => IInv
<1> SUFFICES ASSUME Init PROVE IInv
  OBVIOUS
<1>1. saved \in Settings /\ OwnRef(saved)
  BY HandwrittenAssumption, DefaultsFields DEF Init, Settings, Refs, OwnRef
<1>2. TypeOK
  BY <1>1, IdleFields, SettingsAssumption DEF Init, TypeOK, MaybeKey
<1>3. Given /\ CacheIsStored
  BY SettingsAssumption DEF Init, Given, CacheIsStored
<1>4. Put /\ Chat
  BY IdleFields DEF Init, Put, Chat, PutSteps, KeyIsCurrent
<1> QED BY <1>1, <1>2, <1>3, <1>4 DEF IInv

\* The bounds and the answer.
LEMMA NextCounters ==
  ASSUME TypeOK, [Next]_vars
  PROVE  puts' \in 0..MaxPuts /\ acts' \in 0..MaxActs /\ platform' \in Platforms
<1>1. puts \in 0..MaxPuts /\ acts \in 0..MaxActs /\ platform \in Platforms
  BY DEF TypeOK
<1>2. puts' = puts \/ (puts < MaxPuts /\ puts' = puts + 1)
  BY DEF Next, vars, PutArrives, PutKeyOfWrongType, PutNoKey, PutSavesKey, PutClearsOld,
         PutClearOfWrongType, PutClears, PutSavesConfig, PutSaveFails, PutResponds, GetSettings,
         TestSettings, AskModel, LoadKey, Posted, RewriteConfig, Dies, KeyringChanges, OwnerEdits
<1>3. acts' = acts \/ (acts < MaxActs /\ acts' = acts + 1)
  BY DEF Next, vars, PutArrives, PutKeyOfWrongType, PutNoKey, PutSavesKey, PutClearsOld,
         PutClearOfWrongType, PutClears, PutSavesConfig, PutSaveFails, PutResponds, GetSettings,
         TestSettings, AskModel, LoadKey, Posted, RewriteConfig, Dies, KeyringChanges, OwnerEdits,
         Act
<1>4. platform' = platform
  BY DEF Next, vars, PutArrives, PutKeyOfWrongType, PutNoKey, PutSavesKey, PutClearsOld,
         PutClearOfWrongType, PutClears, PutSavesConfig, PutSaveFails, PutResponds, GetSettings,
         TestSettings, AskModel, LoadKey, Posted, RewriteConfig, Dies, KeyringChanges, OwnerEdits
<1> QED BY <1>1, <1>2, <1>3, <1>4, SettingsAssumption

Stores == /\ store \in [Targets -> MaybeKey] /\ cache \in [Targets -> MaybeKey]
          /\ edited \subseteq Targets /\ given \subseteq Targets \X Keys
          /\ Given /\ CacheIsStored

\* The keyring, the cache and what the user gave.
LEMMA NextStores ==
  ASSUME IInv, [Next]_vars
  PROVE  Stores'
<1>0. TypeOK /\ Given /\ Put /\ Chat /\ CacheIsStored
  BY DEF IInv
<1>1. Stores
  BY <1>0 DEF Stores, TypeOK
<1>2. ASSUME UNCHANGED <<store, cache, edited, given>> PROVE Stores'
  BY <1>1, <1>2 DEF Stores, Given, CacheIsStored
<1>3. ASSUME NEW b \in Bodies, PutArrives(b) PROVE Stores'
  <2>1. given' = given \/ given' = given \union ({<<b.target, b.key>>} \intersect (Targets \X Keys))
    BY <1>3 DEF PutArrives
  <2>2. UNCHANGED <<store, cache, edited>>
    BY <1>3 DEF PutArrives
  <2> QED BY <1>1, <2>1, <2>2 DEF Stores, Given, CacheIsStored
<1>4. ASSUME PutSavesKey PROVE Stores'
  <2>1. given' = given /\ req.body.key \in Keys
    BY <1>4 DEF PutSavesKey
  <2>2. CASE UNCHANGED <<store, cache, edited>>
    BY <1>2, <2>1, <2>2
  <2>3. CASE ~UNCHANGED <<store, cache, edited>>
    <3>1. /\ req.body.target \in Targets
          /\ store' = [store EXCEPT ![req.body.target] = req.body.key]
          /\ cache' = [cache EXCEPT ![req.body.target] = req.body.key]
          /\ edited' = edited \ {req.body.target}
      BY <1>0, <1>4, <2>3, SaveEffect
    <3>2. <<req.body.target, req.body.key>> \in given
      BY <1>0, <1>4, <2>1, <3>1 DEF Put, PutSavesKey, PutSteps
    <3> QED BY <1>1, <2>1, <3>1, <3>2 DEF Stores, Given, CacheIsStored, MaybeKey
  <2> QED BY <2>2, <2>3
<1>5. ASSUME NEW s \in Settings, NEW step \in Steps, Clear(s, step), UNCHANGED <<edited, given>>
      PROVE  Stores'
  <2>1. /\ store' \in [Targets -> MaybeKey] /\ cache' \in [Targets -> MaybeKey]
        /\ \A t \in Targets : t # s.ref => store'[t] = store[t] /\ cache'[t] = cache[t]
        /\ s.ref \in Targets => cache'[s.ref] = NoKey /\ store'[s.ref] \in {store[s.ref], NoKey}
    BY <1>0, <1>5, ClearEffect
  <2>2. Given'
    <3> SUFFICES ASSUME NEW t \in Targets
                 PROVE  /\ store'[t] \in Keys => <<t, store'[t]>> \in given
                        /\ cache'[t] \in Keys => <<t, cache'[t]>> \in given
      BY <1>5 DEF Given
    <3>1. /\ store[t] \in Keys => <<t, store[t]>> \in given
          /\ cache[t] \in Keys => <<t, cache[t]>> \in given
      BY <1>1 DEF Stores, Given
    <3> QED BY <2>1, <3>1, SettingsAssumption
  <2>3. CacheIsStored'
    BY <1>1, <1>5, <2>1 DEF Stores, CacheIsStored
  <2> QED BY <1>1, <1>5, <2>1, <2>2, <2>3 DEF Stores
<1>6. ASSUME PutClearsOld PROVE Stores'
  <2>1. req.old \in Settings /\ "clear" \in Steps /\ UNCHANGED <<edited, given>>
    BY <1>0, <1>6 DEF TypeOK, Requests, Steps, PutClearsOld
  <2>2. Clear(req.old, "clear") \/ UNCHANGED <<store, cache>>
    BY <1>6 DEF PutClearsOld
  <2> QED BY <1>2, <1>5, <2>1, <2>2
<1>7. ASSUME PutClears PROVE Stores'
  <2>1. req.new \in Settings /\ "save" \in Steps /\ UNCHANGED <<edited, given>>
    BY <1>0, <1>7 DEF TypeOK, Requests, Steps, PutClears
  <2>2. Clear(req.new, "save") \/ UNCHANGED <<store, cache>>
    BY <1>7 DEF PutClears
  <2> QED BY <1>2, <1>5, <2>1, <2>2
<1>8. ASSUME PutResponds PROVE Stores'
  <2>1. UNCHANGED <<store, cache, edited>> /\ req.step = "respond"
        /\ (given' = given \/ given' = given \ Withdrawn)
    BY <1>8 DEF PutResponds
  <2>2. ASSUME req.calm, NEW t \in Targets, NEW k \in {store[t], cache[t]}, k \in Keys
        PROVE  <<t, k>> \notin Withdrawn
    <3>1. /\ req.body.key \in Keys => OldGone
          /\ IF req.body.clear = "yes" THEN Holds(req.body.target, NoKey)
             ELSE req.body.key \in Keys => Holds(req.body.target, req.body.key)
      BY <1>0, <2>1, <2>2 DEF Put, PutSteps, Progress
    <3>2. k # NoKey
      BY <2>2, SettingsAssumption
    <3> QED BY <2>2, <3>1, <3>2 DEF Withdrawn, OldGone, Holds
  <2>3. ~req.calm => Withdrawn = {}
    BY DEF Withdrawn
  <2>4. Given'
    BY <1>1, <2>1, <2>2, <2>3 DEF Stores, Given
  <2> QED BY <1>1, <2>1, <2>4 DEF Stores, CacheIsStored
<1>9. ASSUME LoadKey PROVE Stores'
  <2>1. UNCHANGED <<store, given>>
    BY <1>9 DEF LoadKey
  <2>2. CASE UNCHANGED <<cache, edited>>
    BY <1>2, <2>1, <2>2
  <2>3. CASE ~UNCHANGED <<cache, edited>>
    <3> DEFINE t == req.old.target
    <3> DEFINE k == KeyFor(t)
    <3>1. /\ t \in Targets /\ k \in Keys /\ <<t, k>> \in given
          /\ k = IF cache[t] # NoKey THEN cache[t] ELSE store[t]
          /\ cache' = [cache EXCEPT ![t] = k]
          /\ edited' = IF cache[t] = NoKey THEN edited \ {t} ELSE edited
      BY <1>0, <1>9, <2>3, LoadEffect
    <3> HIDE DEF k, t
    <3> QED BY <1>1, <2>1, <3>1 DEF Stores, Given, CacheIsStored, MaybeKey
  <2> QED BY <2>2, <2>3
<1>10. ASSUME Dies PROVE Stores'
  <2>1. /\ cache' = [t \in Targets |-> NoKey] /\ edited' = {}
        /\ UNCHANGED <<store, given>>
    BY <1>10 DEF Dies
  <2> QED BY <1>1, <2>1, SettingsAssumption DEF Stores, Given, CacheIsStored, MaybeKey
<1>11. ASSUME NEW t \in Targets, NEW k \in Keys \union {NoKey}, OwnerEdits(t, k) PROVE Stores'
  <2>1. /\ store' = [store EXCEPT ![t] = k] /\ edited' = edited \union {t} /\ cache' = cache
        /\ given' = IF k = NoKey THEN given ELSE given \union {<<t, k>>}
    BY <1>11 DEF OwnerEdits
  <2>2. store' \in [Targets -> MaybeKey] /\ edited' \subseteq Targets
        /\ given \subseteq given' /\ (k \in Keys => <<t, k>> \in given')
    BY <1>1, <1>11, <2>1, SettingsAssumption DEF Stores, MaybeKey
  <2>3. \A u \in Targets : store'[u] = IF u = t THEN k ELSE store[u]
    BY <1>1, <2>1 DEF Stores
  <2>4. given' \subseteq Targets \X Keys
    BY <1>1, <1>11, <2>1 DEF Stores
  <2>5. Given'
    BY <1>1, <2>1, <2>2, <2>3 DEF Stores, Given
  <2>6. CacheIsStored'
    BY <1>1, <2>1, <2>3 DEF Stores, CacheIsStored
  <2> QED BY <1>1, <2>1, <2>2, <2>4, <2>5, <2>6 DEF Stores
<1>12. ASSUME \/ PutKeyOfWrongType \/ PutNoKey \/ PutClearOfWrongType \/ PutSavesConfig
              \/ PutSaveFails \/ GetSettings \/ TestSettings \/ AskModel \/ Posted
              \/ RewriteConfig \/ KeyringChanges \/ UNCHANGED vars
       PROVE  Stores'
  BY <1>2, <1>12 DEF PutKeyOfWrongType, PutNoKey, PutClearOfWrongType, PutSavesConfig,
     PutSaveFails, GetSettings, TestSettings, AskModel, Posted, RewriteConfig, KeyringChanges, vars
<1> QED BY <1>3, <1>4, <1>6, <1>7, <1>8, <1>9, <1>10, <1>11, <1>12 DEF Next

\* The settings in config.json.
LEMMA NextSaved ==
  ASSUME IInv, [Next]_vars
  PROVE  /\ saved' \in Settings /\ OwnRef(saved')
         /\ keyring' \in {"ok", "missing", "failing"}
<1>0. TypeOK /\ OwnRef(saved) /\ Put /\ saved \in Settings
      /\ keyring \in {"ok", "missing", "failing"}
  BY DEF IInv, TypeOK
<1>1. ASSUME PutSavesConfig PROVE saved' \in Settings /\ OwnRef(saved') /\ keyring' = keyring
  <2>1. saved' = Updated(req.body) /\ req.body \in Bodies /\ keyring' = keyring
    BY <1>0, <1>1 DEF PutSavesConfig, Put, PutSteps
  <2> QED BY <2>1, BodyFields DEF OwnRef
<1>2. ASSUME RewriteConfig PROVE saved' \in Settings /\ OwnRef(saved') /\ keyring' = keyring
  <2>1. saved' = [Loaded EXCEPT !.file = TRUE] /\ keyring' = keyring
    BY <1>2 DEF RewriteConfig
  <2>2. Loaded \in Settings /\ OwnRef(Loaded)
    BY <1>0, LoadedFields
  <2>3. saved' \in Settings /\ saved'.ref = Loaded.ref /\ saved'.target = Loaded.target
    BY <2>1, <2>2 DEF Settings
  <2> QED BY <2>1, <2>2, <2>3 DEF OwnRef
<1>3. ASSUME \/ \E b \in Bodies : PutArrives(b)
             \/ PutKeyOfWrongType \/ PutNoKey \/ PutSavesKey \/ PutClearsOld
             \/ PutClearOfWrongType \/ PutClears \/ PutSaveFails \/ PutResponds
             \/ GetSettings \/ TestSettings \/ AskModel \/ LoadKey \/ Posted \/ Dies
             \/ \E t \in Targets, k \in Keys \union {NoKey} : OwnerEdits(t, k)
             \/ UNCHANGED vars
       PROVE  saved' = saved /\ keyring' = keyring
  BY <1>3 DEF PutArrives, PutKeyOfWrongType, PutNoKey, PutSavesKey, PutClearsOld,
     PutClearOfWrongType, PutClears, PutSaveFails, PutResponds, GetSettings, TestSettings,
     AskModel, LoadKey, Posted, Dies, OwnerEdits, vars
<1>4. ASSUME KeyringChanges PROVE saved' = saved /\ keyring' \in {"ok", "missing", "failing"}
  BY <1>4 DEF KeyringChanges
<1> QED BY <1>0, <1>1, <1>2, <1>3, <1>4 DEF Next

\* An answered request leaves nothing to keep.
LEMMA Answered ==
  ASSUME NEW code \in {0, 200, 400, 500, 502}, Answer(code)
  PROVE  req' \in Requests /\ answer' \in {0, 200, 400, 500, 502} /\ Put' /\ Chat'
<1>1. req' \in Requests /\ req'.step = "idle" /\ answer' = code
  BY AnswerFields
<1> QED BY <1>1 DEF Put, Chat, PutSteps, KeyIsCurrent

\* One step of a request to the next, with what PUT has come to by then.
LEMMA Entered ==
  ASSUME IInv, NEW step \in PutSteps, req.step \in PutSteps, Enter(step),
         given' = given, step = "old" => req.body.key \in Keys,
         step # "key", req.step = "key" /\ req.body.key \in Keys => req.body.target \in Targets,
         step = "respond" => saved' = req.new,
         req.calm => keyring' = keyring /\ Progress'
  PROVE  req' \in Requests /\ answer' \in {0, 200, 400, 500, 502} /\ Put' /\ Chat'
<1>0. TypeOK /\ Put /\ answer \in {0, 200, 400, 500, 502}
  BY DEF IInv, TypeOK
<1>1. step \in Steps
  BY DEF PutSteps, Steps
<1>2. /\ req' \in Requests /\ req'.step = step /\ answer' = answer
      /\ req'.body = req.body /\ req'.old = req.old
      /\ req'.new = req.new /\ req'.key = req.key /\ req'.calm = req.calm
  BY <1>0, <1>1, EnterFields
<1>3. Chat'
  BY <1>2 DEF Chat, KeyIsCurrent, PutSteps
<1>4. Updated(req.body)' = Updated(req.body)
  BY <1>2 DEF Updated, RefOf
<1>5. Put'
  BY <1>0, <1>2, <1>4 DEF Put, PutSteps
<1> QED BY <1>0, <1>2, <1>3, <1>5

Request == req \in Requests /\ answer \in {0, 200, 400, 500, 502} /\ Put /\ Chat

\* The steps of PUT.
LEMMA NextOfPut ==
  ASSUME IInv,
         \/ PutKeyOfWrongType \/ PutNoKey \/ PutSavesKey \/ PutClearsOld \/ PutClearOfWrongType
         \/ PutClears \/ PutSavesConfig \/ PutSaveFails \/ PutResponds
  PROVE  Request'
<1>0. TypeOK /\ Put /\ Chat
  BY DEF IInv
<1> USE DEF Request
<1>1. CASE PutKeyOfWrongType \/ PutClearOfWrongType \/ PutSaveFails \/ PutResponds
  <2>1. \E code \in {0, 200, 400, 500, 502} : Answer(code)
    BY <1>1 DEF PutKeyOfWrongType, PutClearOfWrongType, PutSaveFails, PutResponds
  <2> QED BY <2>1, Answered
<1>2. CASE PutNoKey
  <2>1. /\ req.step = "key" /\ req.body.key = NoKey /\ Enter("clear")
        /\ UNCHANGED <<saved, store, cache, keyring, given>>
    BY <1>2 DEF PutNoKey
  <2>2. req'.step = "clear" /\ req'.body = req.body /\ req'.old = req.old /\ req'.before = req.before
    BY <1>0, <2>1, EnterFields DEF Steps
  <2>3. req.calm => Progress'
    BY <1>0, <2>1, <2>2, SettingsAssumption DEF Put, PutSteps, Progress, Entry
  <2> QED BY <1>0, <2>1, <2>3, SettingsAssumption, Entered DEF PutSteps
<1>3. CASE PutSavesKey
  <2>1. req.step = "key" /\ req.body.key \in Keys /\ UNCHANGED <<saved, keyring, given>>
    BY <1>3 DEF PutSavesKey
  <2>2. CASE Answer(500)
    BY <2>2, Answered
  <2>3. CASE ~Answer(500)
    <3>1. /\ req.body.target \in Targets /\ Enter("old")
          /\ store' = [store EXCEPT ![req.body.target] = req.body.key]
          /\ cache' = [cache EXCEPT ![req.body.target] = req.body.key]
      BY <1>0, <1>3, <2>3, SaveEffect
    <3>2. req'.step = "old" /\ req'.body = req.body
      BY <1>0, <3>1, EnterFields DEF Steps
    <3>3. Progress'
      BY <1>0, <3>1, <3>2 DEF Progress, Holds, TypeOK
    <3> QED BY <2>1, <3>1, <3>3, Entered DEF PutSteps
  <2> QED BY <2>2, <2>3
<1>4. CASE PutClearsOld
  <2>1. req.step = "old" /\ UNCHANGED <<saved, keyring, given>> /\ req.old \in Settings
        /\ "clear" \in Steps /\ req.new.ref = req.body.target /\ req.body.key \in Keys
        /\ req.body \in Bodies
    BY <1>0, <1>4, BodyFields DEF PutClearsOld, TypeOK, Requests, Steps, Put, PutSteps
  <2>2. CASE Answer(500)
    BY <2>2, Answered
  <2>3. CASE ~Answer(500)
    <3>1. Enter("clear")
      BY <1>0, <1>4, <2>1, <2>3, ClearEffect DEF PutClearsOld
    <3>2. /\ req'.step = "clear" /\ req'.body = req.body /\ req'.old = req.old
      BY <1>0, <3>1, EnterFields DEF Steps
    <3>3. ASSUME req.calm PROVE Progress'
      <4>1. keyring = "ok" /\ Holds(req.body.target, req.body.key)
        BY <1>0, <2>1, <3>3 DEF Put, PutSteps, Progress
      <4>2. Holds(req.body.target, req.body.key)'
        BY <1>0, <1>4, <2>1, <3>2, <4>1, ClearEffect DEF PutClearsOld, Holds
      <4>3. OldGone'
        BY <1>0, <1>4, <2>1, <3>2, <4>1, ClearEffect, SettingsAssumption
        DEF PutClearsOld, Holds, OldGone
      <4> QED BY <2>1, <3>2, <4>2, <4>3 DEF Progress
    <3> QED BY <2>1, <3>1, <3>3, Entered DEF PutSteps
  <2> QED BY <2>2, <2>3
<1>5. CASE PutClears
  <2>1. req.step = "clear" /\ UNCHANGED <<saved, keyring, given>> /\ req.new \in Settings
        /\ "save" \in Steps /\ req.new.ref = req.body.target /\ req.body.clear # "bad"
    BY <1>0, <1>5, BodyFields DEF PutClears, TypeOK, Requests, Steps, Put, PutSteps
  <2>2. CASE Answer(500)
    BY <2>2, Answered
  <2>3. CASE ~Answer(500)
    <3>1. Enter("save")
      BY <1>0, <1>5, <2>1, <2>3, ClearEffect DEF PutClears
    <3>2. /\ req'.step = "save" /\ req'.body = req.body /\ req'.old = req.old
          /\ req'.before = req.before
      BY <1>0, <3>1, EnterFields DEF Steps
    <3>3. ASSUME req.calm PROVE Progress'
      <4>1. /\ keyring = "ok"
            /\ IF req.body.key \in Keys THEN Holds(req.body.target, req.body.key) /\ OldGone
               ELSE Entry(req.body.target) = req.before
        BY <1>0, <2>1, <3>3 DEF Put, PutSteps, Progress
      <4>2. CASE req.body.clear = "yes"
        <5>1. /\ \A t \in Targets : t # req.body.target => store'[t] = store[t]
                                                        /\ cache'[t] = cache[t]
              /\ req.body.target \in Targets => /\ cache'[req.body.target] = NoKey
                                                /\ store'[req.body.target] = NoKey
          BY <1>0, <1>5, <2>1, <4>1, <4>2, ClearEffect DEF PutClears
        <5>2. Holds(req.body.target, NoKey)'
          BY <3>2, <5>1 DEF Holds
        <5>3. req.body.key \in Keys => OldGone'
          BY <3>2, <4>1, <5>1 DEF OldGone, Holds
        <5> QED BY <3>2, <4>2, <5>2, <5>3 DEF Progress
      <4>3. CASE req.body.clear # "yes"
        <5>1. UNCHANGED <<store, cache>>
          BY <1>5, <4>3 DEF PutClears
        <5> QED BY <3>2, <4>1, <4>3, <5>1 DEF Progress, Holds, OldGone, Entry
      <4> QED BY <4>2, <4>3
    <3> QED BY <2>1, <3>1, <3>3, Entered DEF PutSteps
  <2> QED BY <2>2, <2>3
<1>6. CASE PutSavesConfig
  <2>1. /\ req.step = "save" /\ saved' = req.new /\ Enter("respond")
        /\ UNCHANGED <<store, cache, keyring, given>>
    BY <1>6 DEF PutSavesConfig
  <2>2. req'.step = "respond" /\ req'.body = req.body /\ req'.old = req.old /\ req'.before = req.before
    BY <1>0, <2>1, EnterFields DEF Steps
  <2>3. req.calm => Progress'
    BY <1>0, <2>1, <2>2 DEF Put, PutSteps, Progress, Holds, OldGone, Entry
  <2> QED BY <2>1, <2>3, Entered DEF PutSteps
<1> QED BY <1>1, <1>2, <1>3, <1>4, <1>5, <1>6

\* A PUT arrives, the other requests run, and the surroundings change.
LEMMA NextOfOthers ==
  ASSUME IInv,
         \/ \E b \in Bodies : PutArrives(b)
         \/ GetSettings \/ TestSettings \/ AskModel \/ LoadKey \/ Posted \/ RewriteConfig
         \/ Dies \/ KeyringChanges
         \/ \E t \in Targets, k \in Keys \union {NoKey} : OwnerEdits(t, k)
         \/ UNCHANGED vars
  PROVE  Request'
<1>0. TypeOK /\ Given /\ Put /\ Chat /\ OwnRef(saved) /\ req \in Requests
      /\ answer \in {0, 200, 400, 500, 502}
  BY DEF IInv, TypeOK
<1> USE DEF Request
<1>1. ASSUME NEW b \in Bodies, PutArrives(b) PROVE Request'
  <2>1. CASE Answer(500)
    BY <2>1, Answered
  <2>2. CASE ~Answer(500)
    <3>1. /\ req' = [op |-> "put", step |-> "key", body |-> b, old |-> Loaded,
                     new |-> Updated(b), key |-> NoKey,
                     before |-> Entry(RefOf(b.target)), calm |-> keyring = "ok"]
          /\ answer' = 0 /\ UNCHANGED <<store, keyring>>
          /\ given' = given \union ({<<b.target, b.key>>} \intersect (Targets \X Keys))
      BY <1>1, <2>2 DEF PutArrives
    <3>2. Loaded \in Settings /\ Updated(b) \in Settings
      BY <1>0, LoadedFields, BodyFields
    <3>3. Entry(b.target) \in MaybeKey /\ Entry(RefOf(b.target)) = Entry(b.target)
      BY <1>0 DEF Entry, MaybeKey, TypeOK, RefOf
    <3>4. req' \in Requests
      BY <3>1, <3>2, <3>3 DEF Requests, Steps, MaybeKey
    <3>5. req'.step = "key" /\ req'.body = b /\ req'.new = Updated(b)
          /\ req'.before = Entry(b.target) /\ (req'.calm => keyring = "ok")
      BY <3>1, <3>3
    <3>6. b.key \in Keys => <<b.target, b.key>> \in given' \/ b.target \notin Targets
      BY <3>1
    <3>7. Entry(b.target)' = Entry(b.target)
      BY <3>1 DEF Entry
    <3>8. Progress'
      BY <3>5, <3>7 DEF Progress, Entry
    <3>9. Put'
      <4>1. Updated(req.body)' = req'.new
        BY <3>5 DEF Updated, RefOf
      <4> QED BY <3>1, <3>5, <3>6, <3>8, <4>1 DEF Put, PutSteps
    <3> QED BY <3>1, <3>4, <3>5, <3>9 DEF Chat, KeyIsCurrent
  <2> QED BY <2>1, <2>2
<1>2. CASE GetSettings
  <2>1. Answer(200) \/ Answer(500)
    BY <1>2 DEF GetSettings
  <2> QED BY <2>1, Answered
<1>3. Ready \in {200, 400, 500}
  BY DEF Ready
<1>4. CASE TestSettings
  BY <1>3, <1>4, Answered DEF TestSettings
<1>5. CASE AskModel
  <2>1. CASE Ready # 200
    BY <1>3, <1>5, <2>1, Answered DEF AskModel
  <2>2. CASE Ready = 200
    <3>1. req' = [Idle EXCEPT !.op = "chat", !.step = "load", !.old = Loaded] /\ answer' = 0
      BY <1>5, <2>2 DEF AskModel
    <3>2. Loaded \in Settings /\ Loaded.target \in Complete /\ Loaded.ref = Loaded.target
      BY <1>0, <2>2, LoadedFields DEF Ready
    <3>3. req' \in Requests /\ req'.step = "load" /\ req'.old = Loaded
      BY <3>1, <3>2, IdleFields DEF Requests, Steps
    <3> QED BY <3>1, <3>2, <3>3, SettingsAssumption DEF Put, PutSteps, Chat, KeyIsCurrent
  <2> QED BY <2>1, <2>2
<1>6. CASE LoadKey
  <2>1. CASE Answer(500)
    BY <2>1, Answered
  <2>2. CASE ~Answer(500)
    <3> DEFINE t == req.old.target
    <3> DEFINE k == KeyFor(t)
    <3>1. /\ t \in Targets /\ req.old.ref = t /\ k \in Keys /\ <<t, k>> \in given
          /\ req' = [req EXCEPT !.step = "post", !.key = k] /\ answer' = answer
      BY <1>0, <1>6, <2>2, LoadEffect
    <3>2. given' = given
      BY <1>6 DEF LoadKey
    <3> HIDE DEF k
    <3>3. req' \in Requests /\ req'.step = "post" /\ req'.old = req.old /\ req'.key = k
      BY <1>0, <3>1 DEF Requests, Steps, MaybeKey
    <3> QED BY <1>0, <3>1, <3>2, <3>3 DEF Put, PutSteps, Chat, KeyIsCurrent
  <2> QED BY <2>1, <2>2
<1>7. CASE Posted
  BY <1>7, Answered DEF Posted
<1>8. CASE RewriteConfig
  <2>1. req.step = "idle" /\ req' = req /\ answer' = answer
    BY <1>8 DEF RewriteConfig
  <2> QED BY <1>0, <2>1 DEF Put, PutSteps, Chat, KeyIsCurrent
<1>9. CASE Dies
  <2>1. Answer(0)
    BY <1>9 DEF Dies, Answer
  <2> QED BY <2>1, Answered
<1>10. ASSUME Disturb, given \subseteq given', UNCHANGED <<saved, answer>> PROVE Request'
  <2>1. /\ req' \in Requests /\ req'.calm = FALSE /\ req'.step = req.step
        /\ req'.body = req.body /\ req'.old = req.old /\ req'.new = req.new /\ req'.key = req.key
    BY <1>0, <1>10, DisturbFields
  <2>2. Updated(req.body)' = Updated(req.body)
    BY <2>1 DEF Updated, RefOf
  <2>3. Put'
    BY <1>0, <1>10, <2>1, <2>2 DEF Put
  <2> QED BY <1>0, <1>10, <2>1, <2>3 DEF Chat, KeyIsCurrent
<1>11. CASE KeyringChanges
  BY <1>10, <1>11 DEF KeyringChanges
<1>12. ASSUME NEW t \in Targets, NEW k \in Keys \union {NoKey}, OwnerEdits(t, k) PROVE Request'
  BY <1>10, <1>12 DEF OwnerEdits
<1>13. CASE UNCHANGED vars
  <2>1. UNCHANGED <<req, answer, given, saved, store, cache, keyring>>
    BY <1>13 DEF vars
  <2>2. Updated(req.body)' = Updated(req.body)
    BY <2>1 DEF Updated, RefOf
  <2>3. Progress' = Progress
    BY <2>1 DEF Progress, OldGone, Holds, Entry
  <2>4. Put'
    BY <1>0, <2>1, <2>2, <2>3 DEF Put
  <2> QED BY <1>0, <2>1, <2>4 DEF Chat, KeyIsCurrent
<1> QED BY <1>1, <1>2, <1>4, <1>5, <1>6, <1>7, <1>8, <1>9, <1>11, <1>12, <1>13

LEMMA NextIInv == IInv /\ [Next]_vars => IInv'
<1> SUFFICES ASSUME IInv, [Next]_vars PROVE IInv'
  OBVIOUS
<1>1. TypeOK
  BY DEF IInv
<1>2. puts' \in 0..MaxPuts /\ acts' \in 0..MaxActs /\ platform' \in Platforms
  BY <1>1, NextCounters
<1>3. Request'
  BY NextOfPut, NextOfOthers DEF Next
<1>4. Stores' /\ saved' \in Settings /\ OwnRef(saved') /\ keyring' \in {"ok", "missing", "failing"}
  BY NextStores, NextSaved
<1>5. TypeOK'
  BY <1>2, <1>3, <1>4 DEF TypeOK, Request, Stores
<1>6. OwnRef(saved)'
  BY <1>4 DEF OwnRef
<1> QED BY <1>3, <1>4, <1>5, <1>6 DEF IInv, Request, Stores

LEMMA Implied == IInv => TypeOK /\ KeyIsCurrent /\ PutDone /\ CacheIsStored
<1> SUFFICES ASSUME IInv PROVE PutDone
  BY DEF IInv, Chat
<1> SUFFICES ASSUME req.step = "respond", req.calm
             PROVE  LET b == req.body
                    IN  /\ saved = Updated(b)
                        /\ Entry(saved.ref) = IF b.clear = "yes" THEN NoKey
                                              ELSE IF b.key \in Keys THEN b.key ELSE req.before
                        /\ b.key \in Keys /\ req.old.ref # saved.ref => Entry(req.old.ref) = NoKey
  BY DEF PutDone
<1>1. /\ req.body \in Bodies /\ saved = Updated(req.body) /\ Progress
      /\ req.body.key \in Keys => req.body.target \in Targets
  BY DEF IInv, Put, PutSteps
<1>2. saved.ref = req.body.target
  BY <1>1, BodyFields
<1>3. /\ req.body.key \in Keys => OldGone
      /\ IF req.body.clear = "yes" THEN Holds(req.body.target, NoKey)
         ELSE IF req.body.key \in Keys THEN Holds(req.body.target, req.body.key)
         ELSE Entry(req.body.target) = req.before
  BY <1>1 DEF Progress
<1> QED BY <1>1, <1>2, <1>3 DEF Entry, Holds, OldGone

-----------------------------------------------------------------------------
\* The inductive invariant holds in every reachable state.
THEOREM Inductive == Spec => []IInv
  BY InitIInv, NextIInv, PTL DEF Spec

\* Every variable of the AI settings keeps its kind: no request leaves a
\* malformed setting, entry or answer behind.
THEOREM TypeCorrect == Spec => []TypeOK
  BY Inductive, Implied, PTL

\* A key is sent only to the model and endpoint its user gave it for, however
\* PUT, the keyring's failures, its owner's edits and restarts interleave.
THEOREM KeysAreCurrent == Spec => []KeyIsCurrent
  BY Inductive, Implied, PTL

\* PUT /api/ai/config answers only when the settings and the keys are the ones
\* it was asked for.
THEOREM PutsAreDone == Spec => []PutDone
  BY Inductive, Implied, PTL

\* The server's cache of keys agrees with the keyring wherever its owner did
\* not edit the entry.
THEOREM CacheAgrees == Spec => []CacheIsStored
  BY Inductive, Implied, PTL
===============================================================================
