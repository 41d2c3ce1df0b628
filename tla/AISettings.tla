----------------------------- MODULE AISettings -----------------------------
(* The AI configuration and what is built from it.  Administrators edit       *)
(* providers, agents and the review policy under one revision that every      *)
(* write compares and advances; connection tests run outside the transaction. *)
(* A worker assembles its runtime from three short reads, and an              *)
(* administrator's review profile is captured in four: both are used only     *)
(* when the revisions they started from are still the current ones.           *)
EXTENDS Integers

CONSTANTS Providers, Agents,
          Urls,          \* base URLs, and the agents' own providers with them
          Models,        \* the fields that a change of requires a new test
          Windows,       \* context window and batch size, in fingerprints only
          Keys,          \* API keys
          Policies,      \* review planning limits
          Readers,       \* threads of one worker process, they share a cache
          MaxRevision,   \* bound on writes of the AI configuration
          MaxLibrary,    \* bound on writes of the knowledge library
          None

VARIABLES settings,    \* ai_settings: revision, active provider, policy
          providers,   \* ai_provider_configs and their secrets
          agents,      \* ai_agent_configs and their secrets
          test,        \* the connection test in flight
          library,     \* revision of the knowledge library, each with its own chunks
          cache,       \* the runtime the worker process holds
          readers,     \* the calls of current() in progress, .was is history: what their revision held
          lock,        \* who holds the lock of the cache
          capture,     \* the profile that is being captured, .was is history
          profiles,    \* review_profiles
          proven       \* history: connections that answered a test

configVars == <<settings, providers, agents>>
runtimeVars == <<cache, readers, lock>>
profileVars == <<capture, profiles>>
aiVars == <<configVars, test, library, runtimeVars, profileVars, proven>>

Least(S) == CHOOSE x \in S : \A y \in S : x <= y
Targets == Providers \cup Agents
NoReader == [pc |-> "idle", observed |-> 0, tries |-> 0, active |-> None, view |-> None, models |-> {},
             was |-> None]
NoCapture == [pc |-> "idle", stamp |-> None, models |-> {}, policy |-> None, chunks |-> None,
              was |-> None]

---------------------------------------------------------------------------
(* What a configuration amounts to.  A connection is everything that its      *)
(* fingerprint covers.                                                        *)
Connection(p, row) ==
    [provider |-> p, url |-> row.url, model |-> row.model, window |-> row.window, key |-> row.key]

\* The provider that shared agents use: active, with its key.
Shared(s, ps) == IF s.active = None \/ ps[s.active] = None THEN None ELSE ps[s.active]

(* The connection an agent's requests would use, None when there is none: a   *)
(* shared one needs the active provider's key and passed test.                *)
EffectiveModelSettings(s, ps, row) ==
    LET shared == Shared(s, ps) IN
    IF row.shared
    THEN IF shared = None \/ shared.key = None \/ shared.test # "succeeded" THEN None
         ELSE [Connection(s.active, shared) EXCEPT !.model = IF row.model = None THEN @ ELSE row.model]
    ELSE IF row.key = None THEN None ELSE Connection(None, row)

\* Defect: the view reports what the row says, whatever became of the provider.
ViewReadyStored(s, ps, row) ==
    /\ row # None /\ row.enabled /\ row.test = "succeeded"
    /\ EffectiveModelSettings(s, ps, row) # None

(* An agent is shown, and used, as ready when it is enabled and tested; a     *)
(* shared one only while its fingerprint is that of its test.                 *)
ViewReady(s, ps, row) ==
    /\ row # None /\ row.enabled /\ row.test = "succeeded"
    /\ LET effective == EffectiveModelSettings(s, ps, row) IN
       effective # None /\ (row.shared => row.tested = effective)

Ready(s, ps, as) == {a \in Agents : ViewReady(s, ps, as[a])}
Configured(as) == {a \in Agents : as[a] # None}

\* The batch read of the agents' connections: enabled, tested, and available.
ModelSettings(s, ps, as) ==
    {<<a, EffectiveModelSettings(s, ps, as[a])>> :
        a \in {b \in Configured(as) :
                 /\ as[b].enabled /\ as[b].test = "succeeded"
                 /\ EffectiveModelSettings(s, ps, as[b]) # None}}

\* The active provider's connection, and the policy read with it.
ActiveSettings(s, ps) ==
    LET p == Shared(s, ps) IN
    IF p = None \/ p.key = None THEN None
    ELSE [revision |-> s.revision, connection |-> Connection(s.active, p), policy |-> s.policy]

\* The runtime that the configuration of this moment stands for.
RuntimeNow ==
    LET active == ActiveSettings(settings, providers)
        configured == Configured(agents) # {}
    IN  [policy |-> settings.policy,
         reviewer |-> IF configured \/ active = None THEN None ELSE active.connection,
         agents |-> IF configured
                    THEN {m \in ModelSettings(settings, providers, agents) :
                            m[1] \in Ready(settings, providers, agents)}
                    ELSE {}]

---------------------------------------------------------------------------
NewProvider == [url |-> None, model |-> None, window |-> None, key |-> None, test |-> None, tested |-> None]
NewAgent == [shared |-> FALSE, url |-> None, model |-> None, window |-> None, key |-> None,
             enabled |-> FALSE, test |-> None, tested |-> None]

(* Nothing is configured, or the first provider is active and tested and every *)
(* agent shares it, tested and enabled: revisions are counted from there.     *)
AIInit ==
    /\ \/ /\ settings = [revision |-> 0, active |-> None, policy |-> Least(Policies)]
          /\ providers = [p \in Providers |-> None] /\ agents = [a \in Agents |-> None]
          /\ proven = {}
       \/ \E p \in Providers, url \in Urls, key \in Keys :
            LET row == [url |-> url, model |-> Least(Models), window |-> Least(Windows), key |-> key]
                c == Connection(p, row)
            IN  /\ settings = [revision |-> 0, active |-> p, policy |-> Least(Policies)]
                /\ providers = [q \in Providers |-> IF q = p
                     THEN [NewProvider EXCEPT !.url = url, !.model = row.model, !.window = row.window,
                                              !.key = key, !.test = "succeeded", !.tested = c]
                     ELSE None]
                /\ agents = [a \in Agents |-> [NewAgent EXCEPT !.shared = TRUE, !.enabled = TRUE,
                                                 !.test = "succeeded", !.tested = c]]
                /\ proven = {c}
    /\ test = None
    /\ library = 0 /\ cache = None /\ lock = None
    /\ readers = [r \in Readers |-> NoReader]
    /\ capture = NoCapture /\ profiles = {}

---------------------------------------------------------------------------
(* Writes.  Each compares the revision the administrator saw under the row's  *)
(* lock and leaves the next one, with an audit record: a save that saw an     *)
(* older revision changes nothing and is not a step here.                     *)
Commit(s, ps, as) ==
    /\ settings' = [s EXCEPT !.revision = @ + 1]
    /\ providers' = ps /\ agents' = as

MayWrite == settings.revision < MaxRevision

\* A new key, the old one kept, or the old one removed.
KeyAfter(old, given) == IF given = "kept" THEN old ELSE IF given = "cleared" THEN None ELSE given

\* Fields whose change makes the last test void.
TestedFields(row) == <<row.url, row.model>>

Void(row) == [row EXCEPT !.test = None, !.tested = None]

(* A provider's parameters and key.  Another URL takes another key; what the  *)
(* test covered voids it when it changes, and deactivates the provider.       *)
UpdateProvider(p) ==
    /\ MayWrite
    /\ \E draft \in [url : Urls, model : Models, window : Windows], given \in Keys \cup {"kept", "cleared"} :
         LET old == providers[p]
             was0 == IF old = None THEN NewProvider ELSE old
             key == KeyAfter(was0.key, given)
             rekeyed == given \in Keys \/ key # was0.key
             row == [was0 EXCEPT !.url = draft.url, !.model = draft.model,
                                 !.window = draft.window, !.key = key]
             void == rekeyed \/ TestedFields(row) # TestedFields(was0)
         IN  /\ ~(old # None /\ row.url # old.url /\ old.key # None /\ given = "kept")
             /\ ~(row = was0 /\ ~rekeyed)
             /\ Commit([settings EXCEPT !.active = IF void /\ @ = p THEN None ELSE @],
                       [providers EXCEPT ![p] = IF void THEN Void(row) ELSE row], agents)
    /\ UNCHANGED <<test, library, runtimeVars, profileVars, proven>>

UpdateReviewPolicy ==
    /\ MayWrite
    /\ \E policy \in Policies \ {settings.policy} :
         Commit([settings EXCEPT !.policy = policy], providers, agents)
    /\ UNCHANGED <<test, library, runtimeVars, profileVars, proven>>

ActivateProvider(p) ==
    /\ MayWrite
    /\ providers[p] # None /\ providers[p].key # None /\ settings.active # p
    /\ providers[p].test = "succeeded" /\ providers[p].tested = Connection(p, providers[p])
    /\ Commit([settings EXCEPT !.active = p], providers, agents)
    /\ UNCHANGED <<test, library, runtimeVars, profileVars, proven>>

AgentDrafts ==
    [shared : {FALSE}, url : Urls, model : Models, window : Windows]
        \cup [shared : {TRUE}, url : {None}, model : Models \cup {None}, window : {None}]

(* An agent's parameters: a connection of its own, or the shared one with a   *)
(* model of its own at most.  Only a connection equal to the tested one keeps *)
(* its validation; any other is disabled.                                     *)
UpdateAgent(a) ==
    /\ MayWrite
    /\ \E draft \in AgentDrafts, given \in Keys \cup {"kept", "cleared"} :
         LET old == IF agents[a] = None THEN NewAgent ELSE agents[a]
             row == [old EXCEPT !.shared = draft.shared, !.url = draft.url, !.model = draft.model,
                                !.window = draft.window,
                                !.key = IF draft.shared THEN None ELSE KeyAfter(@, given)]
             retained == /\ old.tested # None /\ given = "kept"
                         /\ EffectiveModelSettings(settings, providers, row) = old.tested
         IN  /\ draft.shared => given \notin Keys
             /\ ~(row.url # old.url /\ ~draft.shared /\ given = "kept" /\ old.key # None)
             /\ Commit(settings, providers,
                       [agents EXCEPT ![a] =
                          IF retained THEN row ELSE [Void(row) EXCEPT !.enabled = FALSE]])
    /\ UNCHANGED <<test, library, runtimeVars, profileVars, proven>>

SetEnabled(a, enabled) ==
    /\ MayWrite /\ agents[a] # None
    /\ enabled =>
         LET effective == EffectiveModelSettings(settings, providers, agents[a]) IN
         /\ agents[a].test = "succeeded" /\ effective # None
         /\ agents[a].tested = effective
    /\ Commit(settings, providers, [agents EXCEPT ![a].enabled = enabled])
    /\ UNCHANGED <<test, library, runtimeVars, profileVars, proven>>

---------------------------------------------------------------------------
(* Connection tests.  The request is sent between two transactions; its       *)
(* answer is recorded only for the revision and the connection it was made    *)
(* for.                                                                       *)
Tested(t) ==
    IF t \in Providers
    THEN IF providers[t] = None \/ providers[t].key = None THEN None ELSE Connection(t, providers[t])
    ELSE IF agents[t] = None THEN None ELSE EffectiveModelSettings(settings, providers, agents[t])

PrepareTest(t) ==
    /\ MayWrite /\ test = None /\ Tested(t) # None
    /\ test' = [target |-> t, revision |-> settings.revision, connection |-> Tested(t)]
    /\ UNCHANGED <<configVars, library, runtimeVars, profileVars, proven>>

\* A failed test leaves a provider's fingerprint and takes an agent's.
Recorded(row, ok) ==
    [row EXCEPT !.test = IF ok THEN "succeeded" ELSE "failed",
                !.tested = IF ok \/ test.target \in Providers THEN test.connection ELSE None]

RecordTest ==
    /\ test # None
    /\ test' = None
    /\ \E ok \in BOOLEAN :
         LET t == test.target IN
         /\ proven' = IF ok THEN proven \cup {test.connection} ELSE proven
         /\ IF settings.revision # test.revision \/ Tested(t) # test.connection
            THEN UNCHANGED configVars
            ELSE IF t \in Providers
            THEN Commit(settings, [providers EXCEPT ![t] = Recorded(@, ok)], agents)
            ELSE Commit(settings, providers, [agents EXCEPT ![t] = Recorded(@, ok)])
    /\ UNCHANGED <<library, runtimeVars, profileVars>>

---------------------------------------------------------------------------
(* The worker's runtime.  Several threads may call current(): each compares   *)
(* the cached revision, reads the configuration in transactions of its own,   *)
(* and takes the cache's lock to build from it.                               *)
At(r, pc) == readers[r].pc = pc
Step(r, values) == readers' = [readers EXCEPT ![r] = values]
Idle(r) == Step(r, NoReader)
Publish(r, runtime) ==
    /\ cache' = [revision |-> readers[r].observed, runtime |-> runtime, was |-> IF runtime = None THEN None ELSE readers[r].was]
    /\ Idle(r) /\ lock' = None
Leave(r) == Idle(r) /\ lock' = None /\ UNCHANGED cache

Observe(r) ==
    /\ At(r, "idle") /\ ~(cache # None /\ cache.revision = settings.revision)
    /\ Step(r, [NoReader EXCEPT !.pc = "settings", !.observed = settings.revision,
                               !.was = RuntimeNow])
    /\ UNCHANGED <<configVars, test, library, cache, lock, profileVars, proven>>

ReadSettings(r) ==
    /\ At(r, "settings")
    /\ Step(r, [readers[r] EXCEPT !.pc = "agents", !.active = ActiveSettings(settings, providers)])
    /\ UNCHANGED <<configVars, test, library, cache, lock, profileVars, proven>>

ReadAgents(r) ==
    /\ At(r, "agents")
    /\ Step(r, [readers[r] EXCEPT !.pc = "compare",
                  !.view = [revision |-> settings.revision, configured |-> Configured(agents) # {},
                            ready |-> Ready(settings, providers, agents)]])
    /\ UNCHANGED <<configVars, test, library, cache, lock, profileVars, proven>>

(* All three reads are of one revision, or they are repeated, three times at  *)
(* most.                                                                      *)
Compare(r) ==
    LET it == readers[r]
        same == /\ it.observed = settings.revision /\ it.view.revision = it.observed
                /\ it.active = None \/ it.active.revision = it.observed
    IN  /\ At(r, "compare")
        /\ Step(r, IF same THEN [it EXCEPT !.pc = "build"]
                   ELSE IF it.tries = 2 THEN NoReader
                   ELSE [it EXCEPT !.pc = "settings", !.tries = @ + 1, !.observed = settings.revision,
                                  !.was = RuntimeNow])
        /\ UNCHANGED <<configVars, test, library, cache, lock, profileVars, proven>>

(* Under the lock: a later runtime is never replaced, and without a           *)
(* connection, or without an agent that is ready, there is none.              *)
Build(r) ==
    /\ At(r, "build") /\ lock = None
    /\ LET it == readers[r] IN
       IF cache # None /\ cache.revision >= it.observed THEN Leave(r)
       ELSE IF (it.active = None /\ ~it.view.configured) \/ (it.view.configured /\ it.view.ready = {})
       THEN Publish(r, None)
       ELSE /\ lock' = r /\ UNCHANGED cache
            /\ Step(r, [it EXCEPT !.pc = IF it.active = None THEN "policy"
                                         ELSE IF it.view.configured THEN "models" ELSE "publish"])
    /\ UNCHANGED <<configVars, test, library, profileVars, proven>>

\* Without an active provider the policy takes a read of its own.
ReadPolicy(r) ==
    /\ At(r, "policy")
    /\ Step(r, [readers[r] EXCEPT !.pc = "models", !.active =
                  [revision |-> settings.revision, connection |-> None, policy |-> settings.policy]])
    /\ UNCHANGED <<configVars, test, library, cache, lock, profileVars, proven>>

(* The agents' connections are decrypted in one more transaction and kept for *)
(* the agents that were ready.                                                *)
ReadModels(r) ==
    /\ At(r, "models")
    /\ LET it == readers[r]
           models == {m \in ModelSettings(settings, providers, agents) : m[1] \in it.view.ready}
       IN  IF it.active.revision # it.observed THEN Leave(r)
           ELSE IF models = {} THEN Publish(r, None)
           ELSE /\ Step(r, [it EXCEPT !.pc = "publish", !.models = models])
                /\ UNCHANGED <<cache, lock>>
    /\ UNCHANGED <<configVars, test, library, profileVars, proven>>

\* Defect: what was built is published although the configuration moved on.
PublishBuiltUnchecked(r) ==
    /\ At(r, "publish")
    /\ LET it == readers[r] IN
       Publish(r, [policy |-> it.active.policy,
                   reviewer |-> IF it.view.configured THEN None ELSE it.active.connection,
                   agents |-> it.models])
    /\ UNCHANGED <<configVars, test, library, profileVars, proven>>

\* The last check comes after the clients exist.
PublishBuilt(r) ==
    /\ At(r, "publish")
    /\ LET it == readers[r] IN
       IF settings.revision # it.observed THEN Leave(r)
       ELSE Publish(r, [policy |-> it.active.policy,
                        reviewer |-> IF it.view.configured THEN None ELSE it.active.connection,
                        agents |-> it.models])
    /\ UNCHANGED <<configVars, test, library, profileVars, proven>>

---------------------------------------------------------------------------
(* Review profiles.  The library stands for the knowledge library, the        *)
(* retrieval settings and the repository's policy: each has a revision and    *)
(* its reads come after the stamp.                                            *)
EditLibrary ==
    /\ library < MaxLibrary
    /\ library' = library + 1
    /\ UNCHANGED <<configVars, test, runtimeVars, profileVars, proven>>

Stamp == [ai |-> settings.revision, library |-> library]

TakeStamp ==
    /\ capture.pc = "idle"
    /\ capture' = [NoCapture EXCEPT !.pc = "models", !.stamp = Stamp,
                                   !.was = <<ModelSettings(settings, providers, agents), settings.policy>>]
    /\ UNCHANGED <<configVars, test, library, runtimeVars, profiles, proven>>

\* A profile needs a connection for every agent.
CaptureModels ==
    /\ capture.pc = "models"
    /\ LET models == ModelSettings(settings, providers, agents) IN
       capture' = IF {m[1] : m \in models} # Agents THEN NoCapture
                  ELSE [capture EXCEPT !.pc = "policy", !.models = models]
    /\ UNCHANGED <<configVars, test, library, runtimeVars, profiles, proven>>

CapturePolicy ==
    /\ capture.pc = "policy"
    /\ capture' = [capture EXCEPT !.pc = "chunks", !.policy = settings.policy]
    /\ UNCHANGED <<configVars, test, library, runtimeVars, profiles, proven>>

CaptureChunks ==
    /\ capture.pc = "chunks"
    /\ capture' = [capture EXCEPT !.pc = "save", !.chunks = library]
    /\ UNCHANGED <<configVars, test, library, runtimeVars, profiles, proven>>

\* Defect: only the knowledge is compared, as if agents were captured with it.
SaveProfileAnyway ==
    /\ capture.pc = "save"
    /\ capture' = NoCapture
    /\ profiles' = IF capture.stamp.library = library
                   THEN profiles \cup {[capture EXCEPT !.pc = "saved"]} ELSE profiles
    /\ UNCHANGED <<configVars, test, library, runtimeVars, proven>>

SaveProfile ==
    /\ capture.pc = "save"
    /\ capture' = NoCapture
    /\ profiles' = IF capture.stamp = Stamp
                   THEN profiles \cup {[capture EXCEPT !.pc = "saved"]} ELSE profiles
    /\ UNCHANGED <<configVars, test, library, runtimeVars, proven>>

---------------------------------------------------------------------------
Administer ==
    \/ \E p \in Providers : UpdateProvider(p) \/ ActivateProvider(p)
    \/ UpdateReviewPolicy
    \/ \E a \in Agents : UpdateAgent(a) \/ (\E enabled \in BOOLEAN : SetEnabled(a, enabled))
    \/ RecordTest \/ \E t \in Targets : PrepareTest(t)

Current(r) ==
    \/ Observe(r) \/ ReadSettings(r) \/ ReadAgents(r) \/ Compare(r)
    \/ Build(r) \/ ReadPolicy(r) \/ ReadModels(r) \/ PublishBuilt(r)

CaptureProfile ==
    EditLibrary \/ TakeStamp \/ CaptureModels \/ CapturePolicy \/ CaptureChunks \/ SaveProfile

AINext == Administer \/ CaptureProfile \/ \E r \in Readers : Current(r)

AISpec == AIInit /\ [][AINext]_aiVars

---------------------------------------------------------------------------
(* What the worker runs with is one revision's configuration: the policy, the *)
(* active provider and the agents of a cached runtime are those that the      *)
(* database held at the revision it is labelled with, although they are read  *)
(* in four transactions while administrators write.                           *)
RuntimeUnmixed ==
    cache # None /\ cache.runtime # None =>
        cache.runtime = cache.was

(* No agent of a runtime sends a review's code over a connection that never   *)
(* answered a test in exactly that form: URL, model, limits and key.          *)
RuntimeTested ==
    cache # None /\ cache.runtime # None =>
        \A m \in cache.runtime.agents : m[2] \in proven

(* What a worker works with is one configuration, and a tested one, however   *)
(* saves, tests and disabling fall between its reads.                         *)
RuntimeSound == RuntimeUnmixed /\ RuntimeTested

(* A saved profile, on which later reviews depend for good, is one moment of  *)
(* the configuration: its agents, its policy and its knowledge belong to the  *)
(* revisions of its stamp.                                                    *)
ProfileUnmixed ==
    \A profile \in profiles :
        /\ <<profile.models, profile.policy>> = profile.was
        /\ profile.chunks = profile.stamp.library
=============================================================================
