---------------------------- MODULE ConfigCaches ----------------------------
(***************************************************************************)
(* The settings an admin saves in master-config and the two services that  *)
(* keep a copy in memory.  The genai service builds its model provider and *)
(* its embedder once and is told to reload when the LLM settings are saved *)
(* (genai main.py, master_config main.py).  The tagging service keeps what *)
(* it fetched for a time-to-live (tagging main.py).  Handlers run in       *)
(* threads of the service; a fetch is a call of another service, so others *)
(* run between its answer and the use of it.                               *)
(*                                                                         *)
(* Settings are known by their version; version 0 is what the environment  *)
(* or the code gives.  X_Slip is X with a plausible slip.                  *)
(***************************************************************************)
EXTENDS Naturals, FiniteSets, Sequences

CONSTANTS
  Threads,   \* threads of the genai service that serve callers
  Lookups,   \* threads of the tagging service
  Admins,    \* who saves settings
  Unset,     \* None
  Ttl,       \* CAM_TAGGING_CACHE_TTL_SECONDS, in ticks
  MaxLlmVersions, MaxVersions,  \* bounds on the versions of the two kinds of settings
  MaxTime    \* bound on the clock

ASSUME CachesAssumption ==
  /\ {Ttl, MaxLlmVersions, MaxVersions, MaxTime} \subseteq Nat
  /\ Unset \notin Nat

VARIABLES
  saved,      \* master-config: version of the LLM settings
  reload,     \* what is left of each admin's save of them
  overrides,  \* genai: _overrides
  built,      \* genai: _provider and _embedder, by the settings they were built from
  thread,     \* genai: its threads
  clock,      \* time, as tagging sees it
  since,      \* master-config: when each version of the tagging settings was saved
  cache,      \* tagging: _cache of one key
  lookup,     \* tagging: its threads
  excused     \* GHOST: a reload that did not do its work, see ReloadedSettingsAreUsed

vars == <<saved, reload, overrides, built, thread, clock, since, cache, lookup,
          excused>>
genai == <<saved, reload, overrides, built, thread, excused>>
tagging == <<clock, since, cache, lookup>>

-----------------------------------------------------------------------------
Parts == {"provider", "embedder"}

IdleThread == [at |-> "idle", part |-> "provider", conf |-> 0, old |-> FALSE]

IdleLookup == [at |-> "idle", stamp |-> 0, conf |-> 0]

NoReload == [at |-> "none", conf |-> 0]

Init ==
  /\ saved = 1
  /\ reload = [a \in Admins |-> NoReload]
  /\ overrides = Unset
  /\ built = [p \in Parts |-> Unset]
  /\ thread = [t \in Threads |-> IdleThread]
  /\ clock = 0
  /\ since = <<0>>
  /\ cache = Unset
  /\ lookup = [l \in Lookups |-> IdleLookup]
  /\ excused = FALSE

-----------------------------------------------------------------------------
(* Saving and reloading the LLM settings *)

Busy == {a \in Admins : reload[a].at # "none"}

\* put_llm_config: the transaction
Save(a) ==
  /\ a \notin Busy
  /\ saved < MaxLlmVersions
  /\ saved' = saved + 1
  /\ reload' = [reload EXCEPT ![a].at = "push"]
  /\ excused' = (Busy # {})
  /\ UNCHANGED <<overrides, built, thread, tagging>>

\* _reload_genai fails, which is logged
PushLost(a) ==
  /\ reload[a].at = "push"
  /\ reload' = [reload EXCEPT ![a] = NoReload]
  /\ excused' = TRUE
  /\ UNCHANGED <<saved, overrides, built, thread, tagging>>

\* reload_provider, _load_overrides: {} if it fails
ReloadFetch(a) ==
  /\ reload[a].at = "push"
  /\ \E conf \in {saved, 0} :
       /\ reload' = [reload EXCEPT ![a] = [at |-> "fetched", conf |-> conf]]
       /\ excused' = (excused \/ conf = 0)
  /\ UNCHANGED <<saved, overrides, built, thread, tagging>>

\* threads that hold settings they read before the reload
MarkOld == thread' = [t \in Threads |->
  [thread[t] EXCEPT !.old = @ \/ thread[t].at \in {"loaded", "building"}]]

ReloadAssign(a) ==
  /\ reload[a].at = "fetched"
  /\ overrides' = reload[a].conf
  /\ reload' = [reload EXCEPT ![a] = [at |-> "assigned", conf |-> 0]]
  /\ MarkOld
  /\ UNCHANGED <<saved, built, tagging, excused>>

Resets_ProviderOnly == <<"provider", "provider">>
\* what the reload drops, in this order
Resets == <<"provider", "embedder">>

Outlasted(p) == \E t \in Threads : thread[t].old /\ thread[t].part = p

ReloadReset(a) ==
  \/ /\ reload[a].at = "assigned"
     /\ built' = [built EXCEPT ![Resets[1]] = Unset]
     /\ reload' = [reload EXCEPT ![a].at = "reset"]
     /\ excused' = (excused \/ Outlasted("provider"))
     /\ UNCHANGED <<saved, overrides, thread, tagging>>
  \/ /\ reload[a].at = "reset"
     /\ built' = [built EXCEPT ![Resets[2]] = Unset]
     /\ reload' = [reload EXCEPT ![a] = NoReload]
     /\ excused' = (excused \/ Outlasted("embedder"))
     /\ UNCHANGED <<saved, overrides, thread, tagging>>

-----------------------------------------------------------------------------
(* An agent call needs the provider or the embedder *)

Step(t, at) == thread' = [thread EXCEPT ![t].at = at]

\* get_provider, get_embedder: nothing happens if it is there
Get(t, p) ==
  /\ thread[t].at = "idle"
  /\ built[p] = Unset
  /\ thread' = [thread EXCEPT ![t] = IF overrides = Unset
       THEN [IdleThread EXCEPT !.at = "load", !.part = p]
       ELSE [IdleThread EXCEPT !.at = "building", !.part = p, !.conf = overrides]]
  /\ UNCHANGED <<saved, reload, overrides, built, tagging, excused>>

\* _effective_settings, the first time: _load_overrides ...
Load(t) ==
  /\ thread[t].at = "load"
  /\ \E conf \in {saved, 0} :
       /\ thread' = [thread EXCEPT ![t].at = "loaded", ![t].conf = conf]
       /\ excused' = (excused \/ conf = 0)
  /\ UNCHANGED <<saved, reload, overrides, built, tagging>>

\* ... kept for the process
AssignLoaded(t) ==
  /\ thread[t].at = "loaded"
  /\ overrides' = thread[t].conf
  /\ Step(t, "building")
  /\ excused' = (excused \/ thread[t].old)
  /\ UNCHANGED <<saved, reload, built, tagging>>

\* make_provider, make_embedder, kept for the process
Build(t) ==
  /\ thread[t].at = "building"
  /\ built' = [built EXCEPT ![thread[t].part] = thread[t].conf]
  /\ thread' = [thread EXCEPT ![t] = IdleThread]
  /\ UNCHANGED <<saved, reload, overrides, tagging, excused>>

\* the genai process restarts and forgets
RestartGenai ==
  /\ overrides' = Unset
  /\ built' = [p \in Parts |-> Unset]
  /\ thread' = [t \in Threads |-> IdleThread]
  /\ reload' = [a \in Admins |-> IF reload[a].at = "push" THEN reload[a] ELSE NoReload]
  /\ excused' = FALSE
  /\ UNCHANGED <<saved, tagging>>

-----------------------------------------------------------------------------
(* Tagging *)

\* put_settings: nobody is told
SaveSettings ==
  /\ Len(since) < MaxVersions
  /\ since' = Append(since, clock)
  /\ UNCHANGED <<genai, clock, cache, lookup>>

Fresh == cache # Unset /\ clock - cache.stamp < Ttl

Stamp_AtStore(l) == clock
\* an entry counts from before its fetch
Stamp(l) == lookup[l].stamp

\* _cached: nothing happens if the entry is fresh
Lookup(l) ==
  /\ lookup[l].at = "idle"
  /\ ~Fresh
  /\ lookup' = [lookup EXCEPT ![l] = [IdleLookup EXCEPT !.at = "fetch", !.stamp = clock]]
  /\ UNCHANGED <<genai, clock, since, cache>>

\* fetch_threshold, fetch_mode: the default if it fails
Fetch(l) ==
  /\ lookup[l].at = "fetch"
  /\ \E conf \in {Len(since), 0} :
       lookup' = [lookup EXCEPT ![l].at = "fetched", ![l].conf = conf]
  /\ UNCHANGED <<genai, clock, since, cache>>

Keep(l) ==
  /\ lookup[l].at = "fetched"
  /\ cache' = [stamp |-> Stamp(l), conf |-> lookup[l].conf]
  /\ lookup' = [lookup EXCEPT ![l] = IdleLookup]
  /\ UNCHANGED <<genai, clock, since>>

Tick ==
  /\ clock < MaxTime
  /\ clock' = clock + 1
  /\ UNCHANGED <<genai, since, cache, lookup>>

-----------------------------------------------------------------------------
Next ==
  \/ \E a \in Admins :
       Save(a) \/ PushLost(a) \/ ReloadFetch(a) \/ ReloadAssign(a) \/ ReloadReset(a)
  \/ \E t \in Threads :
       \/ \E p \in Parts : Get(t, p)
       \/ Load(t) \/ AssignLoaded(t) \/ Build(t)
  \/ \E l \in Lookups : Lookup(l) \/ Fetch(l) \/ Keep(l)
  \/ RestartGenai \/ SaveSettings \/ Tick

Spec == Init /\ [][Next]_vars

-----------------------------------------------------------------------------
\* Saved LLM settings apply without a restart: when no save is under way, the provider and
\* the embedder in memory are those of the last settings saved, whoever was building one
\* while they were reloaded.  Excused, until the next save or restart, is a reload that
\* was lost or could not fetch (both are fail-open), that overlapped with another, or that
\* a thread outlasted with settings it had read before (it puts them back).
ReloadedSettingsAreUsed ==
  Busy = {} /\ ~excused =>
    \A p \in Parts : built[p] # Unset => built[p] = saved

\* A tag is never decided by settings that were replaced a whole time-to-live ago, however
\* long a fetch takes and whichever of two fetches is stored last; the default of the code
\* stands in if master-config did not answer.
TaggingSettingsAreRecent ==
  Fresh /\ cache.conf # 0 =>
    cache.conf = Len(since) \/ since[cache.conf + 1] > clock - Ttl
=============================================================================
