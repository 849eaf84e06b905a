---------------------------- MODULE CachesProofs ----------------------------
(***************************************************************************)
(* What is in force after a save: in the genai service the settings it was *)
(* told to reload, unless the reload was lost or overtaken, and in the     *)
(* tagging service settings that were not replaced a whole time-to-live    *)
(* ago; for any threads, admins and time-to-live.                          *)
(***************************************************************************)
EXTENDS ConfigCaches, TLAPS

VersionOrNone == Nat \cup {Unset}
ReloadRecord == [at : {"none", "push", "fetched", "assigned", "reset"}, conf : Nat]
ThreadRecord ==
  [at : {"idle", "load", "loaded", "building"}, part : Parts, conf : Nat, old : BOOLEAN]
LookupRecord == [at : {"idle", "fetch", "fetched"}, stamp : Nat, conf : Nat]
CacheEntry == [stamp : Nat, conf : Nat]

GenaiTypes ==
  /\ saved \in Nat /\ overrides \in VersionOrNone /\ excused \in BOOLEAN
  /\ reload \in [Admins -> ReloadRecord]
  /\ built \in [Parts -> VersionOrNone]
  /\ thread \in [Threads -> ThreadRecord]

-----------------------------------------------------------------------------
(* The genai service *)

\* some reload is still to replace the overrides, or to drop the part p
ToAssign   == \E a \in Admins : reload[a].at \in {"push", "fetched"}
ToReset(p) == \E a \in Admins : reload[a].at = "assigned"
                                \/ (reload[a].at = "reset" /\ p = "embedder")

\* Once no reload is before its assignment, whatever is in memory comes from the last save:
\* the overrides, what the threads that began since then hold, and, when its turn to be
\* dropped is over, each part, which no older thread is about to build again.
Applied ==
  /\ overrides \in {Unset, saved}
  /\ \A t \in Threads : thread[t].at \in {"loaded", "building"} /\ ~thread[t].old =>
       thread[t].conf = saved
  /\ \A p \in Parts : ~ToReset(p) => built[p] \in {Unset, saved} /\ ~Outlasted(p)

GenaiInv ==
  /\ GenaiTypes
  /\ ~excused => /\ \A a \in Admins : reload[a].at = "fetched" => reload[a].conf = saved
                 /\ ~ToAssign => Applied

LEMMA GenaiInit == Init => GenaiInv
<1> SUFFICES ASSUME Init PROVE GenaiInv
  OBVIOUS
<1>1. GenaiTypes
  <2>1. NoReload \in ReloadRecord /\ IdleThread \in ThreadRecord
    BY DEF NoReload, IdleThread, ReloadRecord, ThreadRecord, Parts
  <2> QED
    BY <2>1 DEF Init, GenaiTypes, VersionOrNone
<1>2. Applied
  BY DEF Init, Applied, Outlasted, IdleThread
<1>3. \A a \in Admins : reload[a].at # "fetched"
  BY DEF Init, NoReload
<1> QED
  BY <1>1, <1>2, <1>3 DEF GenaiInv

\* a save begins only where it leaves its own reload to be done
LEMMA SaveKeeps ==
  ASSUME GenaiInv, NEW a \in Admins, Save(a)
  PROVE  GenaiInv'
<1>1. /\ saved' = saved + 1 /\ a \notin Busy
      /\ reload' = [reload EXCEPT ![a].at = "push"]
      /\ excused' = (Busy # {})
      /\ UNCHANGED <<overrides, built, thread>>
  BY DEF Save
<1>2. GenaiTypes'
  <2>1. [reload[a] EXCEPT !.at = "push"] \in ReloadRecord
    BY DEF GenaiInv, GenaiTypes, ReloadRecord
  <2>2. (Busy # {}) \in BOOLEAN
    BY Zenon
  <2> QED
    BY <1>1, <2>1, <2>2 DEF GenaiInv, GenaiTypes
<1>3. reload'[a].at = "push"
  BY <1>1 DEF GenaiInv, GenaiTypes, ReloadRecord
<1>4. ToAssign'
  BY <1>3 DEF ToAssign
<1>5. Busy = {} => \A b \in Admins : reload'[b].at # "fetched"
  BY <1>1, <1>3 DEF Busy, GenaiInv, GenaiTypes
<1> QED
  BY <1>1, <1>2, <1>4, <1>5 DEF GenaiInv

LEMMA PushLostKeeps ==
  ASSUME GenaiInv, NEW a \in Admins, PushLost(a)
  PROVE  GenaiInv'
<1>1. NoReload \in ReloadRecord
  BY DEF NoReload, ReloadRecord
<1> QED
  BY <1>1 DEF PushLost, GenaiInv, GenaiTypes

LEMMA ReloadFetchKeeps ==
  ASSUME GenaiInv, NEW a \in Admins, ReloadFetch(a)
  PROVE  GenaiInv'
<1>1. PICK conf \in {saved, 0} :
        /\ reload' = [reload EXCEPT ![a] = [at |-> "fetched", conf |-> conf]]
        /\ excused' = (excused \/ conf = 0)
  BY DEF ReloadFetch
<1>2. UNCHANGED <<saved, overrides, built, thread>>
  BY DEF ReloadFetch
<1>3. GenaiTypes'
  <2>1. [at |-> "fetched", conf |-> conf] \in ReloadRecord
    BY DEF GenaiInv, GenaiTypes, ReloadRecord
  <2>2. (excused \/ conf = 0) \in BOOLEAN
    BY Zenon DEF GenaiInv, GenaiTypes
  <2> QED
    BY <1>1, <1>2, <2>1, <2>2 DEF GenaiInv, GenaiTypes
<1>4. reload'[a] = [at |-> "fetched", conf |-> conf] /\ ToAssign'
  BY <1>1 DEF GenaiInv, GenaiTypes, ToAssign
<1>5. ~excused' => \A b \in Admins : reload'[b].at = "fetched" => reload'[b].conf = saved
  BY <1>1, <1>4 DEF GenaiInv, GenaiTypes
<1> QED
  BY <1>2, <1>3, <1>4, <1>5 DEF GenaiInv

LEMMA ReloadAssignKeeps ==
  ASSUME GenaiInv, NEW a \in Admins, ReloadAssign(a)
  PROVE  GenaiInv'
<1>1. /\ reload[a].at = "fetched" /\ overrides' = reload[a].conf
      /\ reload' = [reload EXCEPT ![a] = [at |-> "assigned", conf |-> 0]]
      /\ thread' = [t \in Threads |-> [thread[t] EXCEPT !.old =
                      thread[t].old \/ thread[t].at \in {"loaded", "building"}]]
      /\ UNCHANGED <<saved, built, excused>>
  BY DEF ReloadAssign, MarkOld
<1>2. GenaiTypes'
  <2>1. [at |-> "assigned", conf |-> 0] \in ReloadRecord
    BY DEF ReloadRecord
  <2>2. reload[a].conf \in VersionOrNone
    BY DEF GenaiInv, GenaiTypes, ReloadRecord, VersionOrNone
  <2>3. ASSUME NEW t \in Threads
        PROVE  [thread[t] EXCEPT !.old =
                  thread[t].old \/ thread[t].at \in {"loaded", "building"}] \in ThreadRecord
    BY DEF GenaiInv, GenaiTypes, ThreadRecord
  <2> QED
    BY <1>1, <2>1, <2>2, <2>3 DEF GenaiInv, GenaiTypes
<1>3. reload'[a].at = "assigned" /\ \A p : ToReset(p)'
  BY <1>1 DEF GenaiInv, GenaiTypes, ToReset
<1>4. ASSUME NEW t \in Threads, thread'[t].at \in {"loaded", "building"}
      PROVE  thread'[t].old
  BY <1>1, <1>4 DEF GenaiInv, GenaiTypes, ThreadRecord
<1>5. ~excused => overrides' = saved
  BY <1>1 DEF GenaiInv
<1>6. ~excused => Applied'
  BY <1>1, <1>3, <1>4, <1>5 DEF Applied
<1>7. ~excused => \A b \in Admins : reload'[b].at = "fetched" => reload'[b].conf = saved
  BY <1>1, <1>3 DEF GenaiInv, GenaiTypes
<1> QED
  BY <1>1, <1>2, <1>6, <1>7 DEF GenaiInv

LEMMA ReloadResetKeeps ==
  ASSUME GenaiInv, NEW a \in Admins, ReloadReset(a)
  PROVE  GenaiInv'
<1>1. PICK p \in Parts, at \in {"reset", "none"} :
        /\ built' = [built EXCEPT ![p] = Unset]
        /\ excused' = (excused \/ Outlasted(p))
        /\ reload'[a].at = at /\ reload'[a] \in ReloadRecord
        /\ reload' = [reload EXCEPT ![a] = reload'[a]]
        /\ IF p = "provider" THEN reload[a].at = "assigned" /\ at = "reset"
                             ELSE reload[a].at = "reset" /\ at = "none"
  <2>1. CASE reload[a].at = "assigned"
    <3>1. /\ built' = [built EXCEPT !["provider"] = Unset]
          /\ reload' = [reload EXCEPT ![a].at = "reset"]
          /\ excused' = (excused \/ Outlasted("provider"))
      BY <2>1 DEF ReloadReset, Resets
    <3>2. reload'[a] = [reload[a] EXCEPT !.at = "reset"]
      BY <3>1 DEF GenaiInv, GenaiTypes
    <3>3. reload'[a].at = "reset" /\ reload'[a] \in ReloadRecord
      BY <3>2 DEF GenaiInv, GenaiTypes, ReloadRecord
    <3> QED
      BY <2>1, <3>1, <3>2, <3>3 DEF Parts
  <2>2. CASE reload[a].at = "reset"
    <3>1. /\ built' = [built EXCEPT !["embedder"] = Unset]
          /\ reload' = [reload EXCEPT ![a] = NoReload]
          /\ excused' = (excused \/ Outlasted("embedder"))
      BY <2>2 DEF ReloadReset, Resets
    <3>2. reload'[a] = NoReload /\ NoReload.at = "none" /\ NoReload \in ReloadRecord
      BY <3>1 DEF GenaiInv, GenaiTypes, NoReload, ReloadRecord
    <3> QED
      BY <2>2, <3>1, <3>2 DEF Parts
  <2> QED
    BY <2>1, <2>2 DEF ReloadReset
<1>2. UNCHANGED <<saved, overrides, thread>>
  BY DEF ReloadReset
<1>3. GenaiTypes'
  <2>1. (excused \/ Outlasted(p)) \in BOOLEAN
    BY Zenon
  <2>2. excused' \in BOOLEAN
    BY <1>1, <2>1
  <2>3. built' \in [Parts -> VersionOrNone]
    BY <1>1 DEF GenaiInv, GenaiTypes, VersionOrNone
  <2>4. reload' \in [Admins -> ReloadRecord]
    BY <1>1 DEF GenaiInv, GenaiTypes
  <2> QED
    BY <1>2, <2>2, <2>3, <2>4 DEF GenaiInv, GenaiTypes
<1>4. \A b \in Admins \ {a} : reload'[b] = reload[b]
  BY <1>1 DEF GenaiInv, GenaiTypes
<1>5. ~excused' => \A b \in Admins : reload'[b].at = "fetched" => reload'[b].conf = saved
  BY <1>1, <1>4 DEF GenaiInv
<1>6. ASSUME ~excused', ~ToAssign'
      PROVE  Applied'
  <2>1. ~excused /\ ~Outlasted(p)
    BY <1>1, <1>6
  <2>2. ~ToAssign
    BY <1>1, <1>4, <1>6 DEF ToAssign
  <2>3. Applied
    BY <2>1, <2>2 DEF GenaiInv
  <2>4. \A q \in Parts : Outlasted(q)' <=> Outlasted(q)
    BY <1>2 DEF Outlasted
  <2>5. ASSUME NEW q \in Parts, q # p, ~ToReset(q)'
        PROVE  ~ToReset(q) /\ built'[q] = built[q]
    BY <1>1, <1>4, <2>5 DEF ToReset, Parts, GenaiInv, GenaiTypes
  <2>6. built'[p] = Unset
    BY <1>1 DEF GenaiInv, GenaiTypes
  <2> QED
    BY <1>2, <2>1, <2>3, <2>4, <2>5, <2>6 DEF Applied
<1> QED
  BY <1>2, <1>3, <1>5, <1>6 DEF GenaiInv

\* a step of a thread that leaves the reloads alone and follows the last save, or is excused
LEMMA ThreadMoves ==
  ASSUME GenaiInv, NEW t \in Threads, UNCHANGED <<saved, reload>>,
         GenaiTypes', excused => excused',
         \A u \in Threads \ {t} : thread'[u] = thread[u],
         ~excused' /\ ~ToAssign =>
           /\ overrides' \in {Unset, saved}
           /\ thread'[t].at \in {"loaded", "building"} /\ ~thread'[t].old =>
                thread'[t].conf = saved
           /\ thread'[t].old => thread[t].old /\ thread'[t].part = thread[t].part
           /\ \A p \in Parts : ~ToReset(p) => built'[p] \in {built[p], saved}
  PROVE  GenaiInv'
<1>1. saved' = saved /\ reload' = reload
  OBVIOUS
<1>2. ASSUME ~excused', ~ToAssign'
      PROVE  Applied'
  <2>1. ~excused /\ ~ToAssign
    BY <1>1, <1>2 DEF ToAssign
  <2>2. Applied
    BY <2>1 DEF GenaiInv
  <2>3. \A p : ToReset(p)' <=> ToReset(p)
    BY <1>1 DEF ToReset
  <2>4. ASSUME NEW p \in Parts, Outlasted(p)'
        PROVE  Outlasted(p)
    <3>1. PICK u \in Threads : thread'[u].old /\ thread'[u].part = p
      BY <2>4 DEF Outlasted
    <3>2. thread[u].old /\ thread[u].part = p
      BY <1>2, <2>1, <3>1
    <3> QED
      BY <3>2 DEF Outlasted
  <2>5. \A p \in Parts : ~ToReset(p) => built'[p] \in {Unset, saved}
    BY <1>2, <2>1, <2>2 DEF Applied
  <2>6. \A u \in Threads : thread'[u].at \in {"loaded", "building"} /\ ~thread'[u].old =>
          thread'[u].conf = saved
    BY <1>2, <2>1, <2>2 DEF Applied
  <2> QED
    BY <1>1, <1>2, <2>1, <2>2, <2>3, <2>4, <2>5, <2>6 DEF Applied
<1> QED
  BY <1>1, <1>2 DEF GenaiInv

LEMMA GetKeeps ==
  ASSUME GenaiInv, NEW t \in Threads, NEW p \in Parts, Get(t, p)
  PROVE  GenaiInv'
<1> DEFINE load  == [IdleThread EXCEPT !.at = "load", !.part = p]
           build == [IdleThread EXCEPT !.at = "building", !.part = p, !.conf = overrides]
<1>1. /\ thread' = [thread EXCEPT ![t] = IF overrides = Unset THEN load ELSE build]
      /\ UNCHANGED <<saved, reload, overrides, built, excused>>
  BY DEF Get
<1>2. /\ load \in ThreadRecord /\ load.at = "load" /\ ~load.old
      /\ build.at = "building" /\ build.conf = overrides /\ ~build.old
      /\ overrides # Unset => build \in ThreadRecord
  BY DEF IdleThread, ThreadRecord, Parts, GenaiInv, GenaiTypes, VersionOrNone
<1> HIDE DEF load, build
<1>3. thread' \in [Threads -> ThreadRecord]
  BY <1>1, <1>2 DEF GenaiInv, GenaiTypes
<1>4. thread'[t] = IF overrides = Unset THEN load ELSE build
  BY <1>1 DEF GenaiInv, GenaiTypes
<1>5. \A u \in Threads \ {t} : thread'[u] = thread[u]
  BY <1>1 DEF GenaiInv, GenaiTypes
<1>6. /\ ~thread'[t].old
      /\ thread'[t].at \in {"loaded", "building"} => thread'[t].conf = overrides
      /\ thread'[t].at \in {"loaded", "building"} => overrides # Unset
  BY <1>2, <1>4
<1>7. GenaiTypes'
  BY <1>1, <1>3 DEF GenaiInv, GenaiTypes
<1>8. ~excused /\ ~ToAssign => overrides \in {Unset, saved}
  BY DEF GenaiInv, Applied
<1> QED
  BY <1>1, <1>5, <1>6, <1>7, <1>8, ThreadMoves

LEMMA LoadKeeps ==
  ASSUME GenaiInv, NEW t \in Threads, Load(t)
  PROVE  GenaiInv'
<1>1. PICK conf \in {saved, 0} :
        /\ thread' = [thread EXCEPT ![t].at = "loaded", ![t].conf = conf]
        /\ excused' = (excused \/ conf = 0)
  BY DEF Load
<1>2. UNCHANGED <<saved, reload, overrides, built>>
  BY DEF Load
<1>3. thread[t] \in ThreadRecord /\ conf \in Nat
  BY DEF GenaiInv, GenaiTypes
<1>4. thread'[t] = [thread[t] EXCEPT !.at = "loaded", !.conf = conf]
  BY <1>1 DEF GenaiInv, GenaiTypes
<1>5. /\ thread'[t] \in ThreadRecord /\ thread'[t].conf = conf
      /\ thread'[t].old = thread[t].old /\ thread'[t].part = thread[t].part
  BY <1>3, <1>4 DEF ThreadRecord
<1>6. GenaiTypes'
  <2>1. (excused \/ conf = 0) \in BOOLEAN
    BY Zenon
  <2> QED
    BY <1>1, <1>2, <1>5, <2>1 DEF GenaiInv, GenaiTypes
<1>7. \A u \in Threads \ {t} : thread'[u] = thread[u]
  BY <1>1 DEF GenaiInv, GenaiTypes
<1>8. ~excused /\ ~ToAssign => overrides \in {Unset, saved}
  BY DEF GenaiInv, Applied
<1> QED
  BY <1>1, <1>2, <1>5, <1>6, <1>7, <1>8, ThreadMoves

LEMMA AssignLoadedKeeps ==
  ASSUME GenaiInv, NEW t \in Threads, AssignLoaded(t)
  PROVE  GenaiInv'
<1>1. /\ thread[t].at = "loaded" /\ overrides' = thread[t].conf
      /\ thread' = [thread EXCEPT ![t].at = "building"]
      /\ excused' = (excused \/ thread[t].old)
      /\ UNCHANGED <<saved, reload, built>>
  BY DEF AssignLoaded, Step
<1>2. thread[t] \in ThreadRecord
  BY DEF GenaiInv, GenaiTypes
<1>3. thread'[t] = [thread[t] EXCEPT !.at = "building"]
  BY <1>1 DEF GenaiInv, GenaiTypes
<1>4. /\ thread'[t] \in ThreadRecord /\ thread'[t].conf = thread[t].conf
      /\ thread'[t].old = thread[t].old /\ thread'[t].part = thread[t].part
      /\ thread[t].conf \in VersionOrNone
  BY <1>2, <1>3 DEF ThreadRecord, VersionOrNone
<1>5. GenaiTypes'
  <2>1. (excused \/ thread[t].old) \in BOOLEAN
    BY Zenon
  <2> QED
    BY <1>1, <1>4, <2>1 DEF GenaiInv, GenaiTypes
<1>6. \A u \in Threads \ {t} : thread'[u] = thread[u]
  BY <1>1 DEF GenaiInv, GenaiTypes
<1>7. ~excused' /\ ~ToAssign => thread[t].conf = saved
  BY <1>1 DEF GenaiInv, Applied
<1> QED
  BY <1>1, <1>4, <1>5, <1>6, <1>7, ThreadMoves

LEMMA BuildKeeps ==
  ASSUME GenaiInv, NEW t \in Threads, Build(t)
  PROVE  GenaiInv'
<1>1. /\ thread[t].at = "building"
      /\ built' = [built EXCEPT ![thread[t].part] = thread[t].conf]
      /\ thread' = [thread EXCEPT ![t] = IdleThread]
      /\ UNCHANGED <<saved, reload, overrides, excused>>
  BY DEF Build
<1>2. thread[t] \in ThreadRecord
  BY DEF GenaiInv, GenaiTypes
<1>3. IdleThread \in ThreadRecord /\ IdleThread.at = "idle" /\ ~IdleThread.old
  BY DEF IdleThread, ThreadRecord, Parts
<1>4. GenaiTypes'
  <2>1. thread[t].part \in Parts /\ thread[t].conf \in VersionOrNone
    BY <1>2 DEF ThreadRecord, VersionOrNone
  <2> QED
    BY <1>1, <1>3, <2>1 DEF GenaiInv, GenaiTypes
<1>5. thread'[t] = IdleThread /\ \A u \in Threads \ {t} : thread'[u] = thread[u]
  BY <1>1 DEF GenaiInv, GenaiTypes
<1>6. ASSUME ~excused, ~ToAssign, NEW p \in Parts, ~ToReset(p)
      PROVE  built'[p] \in {built[p], saved}
  <2>1. Applied
    BY <1>6 DEF GenaiInv
  <2>2. thread[t].part = p => thread[t].conf = saved
    BY <1>1, <1>6, <2>1 DEF Applied, Outlasted
  <2> QED
    BY <1>1, <2>2 DEF GenaiInv, GenaiTypes
<1>7. ~excused /\ ~ToAssign => overrides \in {Unset, saved}
  BY DEF GenaiInv, Applied
<1> QED
  BY <1>1, <1>3, <1>4, <1>5, <1>6, <1>7, ThreadMoves

LEMMA RestartGenaiKeeps ==
  ASSUME GenaiInv, RestartGenai
  PROVE  GenaiInv'
<1>1. /\ overrides' = Unset /\ built' = [p \in Parts |-> Unset]
      /\ thread' = [t \in Threads |-> IdleThread]
      /\ reload' = [a \in Admins |-> IF reload[a].at = "push" THEN reload[a] ELSE NoReload]
      /\ excused' = FALSE /\ saved' = saved
  BY DEF RestartGenai
<1>2. GenaiTypes'
  <2>1. NoReload \in ReloadRecord /\ IdleThread \in ThreadRecord
    BY DEF NoReload, IdleThread, ReloadRecord, ThreadRecord, Parts
  <2> QED
    BY <1>1, <2>1 DEF GenaiInv, GenaiTypes, VersionOrNone
<1>3. Applied'
  BY <1>1 DEF Applied, Outlasted, IdleThread
<1>4. \A a \in Admins : reload'[a].at # "fetched"
  BY <1>1 DEF NoReload
<1> QED
  BY <1>2, <1>3, <1>4 DEF GenaiInv

\* the tagging service has no part in it
LEMMA OthersKeepGenai ==
  ASSUME GenaiInv, UNCHANGED genai
  PROVE  GenaiInv'
<1>1. /\ saved' = saved /\ reload' = reload /\ overrides' = overrides /\ built' = built
      /\ thread' = thread /\ excused' = excused
  BY DEF genai
<1>2. GenaiTypes' /\ (ToAssign' <=> ToAssign) /\ (Applied' <=> Applied)
  BY <1>1 DEF GenaiInv, GenaiTypes, ToAssign, Applied, ToReset, Outlasted
<1> QED
  BY <1>1, <1>2 DEF GenaiInv

LEMMA GenaiNext == GenaiInv /\ [Next]_vars => GenaiInv'
<1> SUFFICES ASSUME GenaiInv, [Next]_vars PROVE GenaiInv'
  OBVIOUS
<1>1. ASSUME NEW a \in Admins, Save(a) PROVE GenaiInv'
  BY <1>1, SaveKeeps
<1>2. ASSUME NEW a \in Admins, PushLost(a) PROVE GenaiInv'
  BY <1>2, PushLostKeeps
<1>3. ASSUME NEW a \in Admins, ReloadFetch(a) PROVE GenaiInv'
  BY <1>3, ReloadFetchKeeps
<1>4. ASSUME NEW a \in Admins, ReloadAssign(a) PROVE GenaiInv'
  BY <1>4, ReloadAssignKeeps
<1>5. ASSUME NEW a \in Admins, ReloadReset(a) PROVE GenaiInv'
  BY <1>5, ReloadResetKeeps
<1>6. ASSUME NEW t \in Threads, NEW p \in Parts, Get(t, p) PROVE GenaiInv'
  BY <1>6, GetKeeps
<1>7. ASSUME NEW t \in Threads, Load(t) PROVE GenaiInv'
  BY <1>7, LoadKeeps
<1>8. ASSUME NEW t \in Threads, AssignLoaded(t) PROVE GenaiInv'
  BY <1>8, AssignLoadedKeeps
<1>9. ASSUME NEW t \in Threads, Build(t) PROVE GenaiInv'
  BY <1>9, BuildKeeps
<1>10. CASE RestartGenai
  BY <1>10, RestartGenaiKeeps
<1>11. ASSUME NEW l \in Lookups, Lookup(l) \/ Fetch(l) \/ Keep(l) PROVE GenaiInv'
  BY <1>11, OthersKeepGenai DEF Lookup, Fetch, Keep
<1>12. CASE SaveSettings \/ Tick
  BY <1>12, OthersKeepGenai DEF SaveSettings, Tick
<1>13. CASE UNCHANGED vars
  BY <1>13, OthersKeepGenai DEF vars, genai
<1> QED
  BY <1>1, <1>2, <1>3, <1>4, <1>5, <1>6, <1>7, <1>8, <1>9, <1>10, <1>11, <1>12, <1>13 DEF Next

\* Once nobody is saving, the provider and the embedder in memory are those of the last LLM
\* settings saved, whoever was building one while they were reloaded (reload_provider,
\* get_provider), but for the reloads that the property excuses.
THEOREM SavedSettingsApply == Spec => []ReloadedSettingsAreUsed
<1>1. GenaiInv => ReloadedSettingsAreUsed
  <2> SUFFICES ASSUME GenaiInv, Busy = {}, ~excused, NEW p \in Parts, built[p] # Unset
               PROVE  built[p] = saved
    BY DEF ReloadedSettingsAreUsed
  <2>1. \A a \in Admins : reload[a].at = "none"
    BY DEF Busy
  <2>2. ~ToAssign /\ ~ToReset(p)
    BY <2>1 DEF ToAssign, ToReset
  <2> QED
    BY <2>2 DEF GenaiInv, Applied
<1> QED
  BY <1>1, GenaiInit, GenaiNext, PTL DEF Spec

-----------------------------------------------------------------------------
(* The tagging service *)

\* what was fetched under a stamp was in force then, or is the default of the code
InForceAt(conf, stamp) ==
  conf = 0 \/ (conf \in 1..Len(since) /\ (conf = Len(since) \/ since[conf + 1] >= stamp))

TaggingInv ==
  /\ clock \in Nat /\ since \in Seq(Nat) /\ since # <<>>
  /\ lookup \in [Lookups -> LookupRecord]
  /\ cache \in CacheEntry \cup {Unset}
  /\ \A l \in Lookups : lookup[l].at # "idle" => lookup[l].stamp <= clock
  /\ \A l \in Lookups : lookup[l].at = "fetched" =>
       InForceAt(lookup[l].conf, lookup[l].stamp)
  /\ cache # Unset => cache.stamp <= clock /\ InForceAt(cache.conf, cache.stamp)

LEMMA TaggingInit == Init => TaggingInv
<1> SUFFICES ASSUME Init PROVE TaggingInv
  OBVIOUS
<1>1. IdleLookup \in LookupRecord /\ IdleLookup.at = "idle"
  BY DEF IdleLookup, LookupRecord
<1> QED
  BY <1>1 DEF Init, TaggingInv

\* a save comes after every stamp taken before it
LEMMA SaveSettingsKeeps ==
  ASSUME TaggingInv, SaveSettings
  PROVE  TaggingInv'
<1>1. since' = Append(since, clock) /\ UNCHANGED <<clock, cache, lookup>>
  BY DEF SaveSettings
<1>2. /\ since' \in Seq(Nat) /\ since' # <<>> /\ Len(since') = Len(since) + 1
      /\ Len(since) \in Nat
      /\ \A i \in 1..Len(since) : since'[i] = since[i]
      /\ since'[Len(since) + 1] = clock
  BY <1>1 DEF TaggingInv
<1>3. ASSUME NEW conf \in Nat, NEW stamp \in Nat, stamp <= clock, InForceAt(conf, stamp)
      PROVE  InForceAt(conf, stamp)'
  <2>1. CASE conf = 0
    BY <2>1 DEF InForceAt
  <2>2. CASE conf = Len(since) /\ conf # 0
    BY <1>2, <1>3, <2>2 DEF InForceAt
  <2>3. CASE conf \in 1..Len(since) /\ conf # Len(since) /\ since[conf + 1] >= stamp
    <3>1. conf + 1 \in 1..Len(since)
      BY <1>2, <2>3
    <3> QED
      BY <1>2, <2>3, <3>1 DEF InForceAt
  <2> QED
    BY <1>3, <2>1, <2>2, <2>3 DEF InForceAt
<1>4. \A l \in Lookups : lookup[l].at = "fetched" =>
        InForceAt(lookup[l].conf, lookup[l].stamp)'
  <2> SUFFICES ASSUME NEW l \in Lookups, lookup[l].at = "fetched"
               PROVE  InForceAt(lookup[l].conf, lookup[l].stamp)'
    OBVIOUS
  <2>1. lookup[l].conf \in Nat /\ lookup[l].stamp \in Nat /\ lookup[l].stamp <= clock
    BY DEF TaggingInv, LookupRecord
  <2>2. \A c \in Nat, st \in Nat : st <= clock /\ InForceAt(c, st) => InForceAt(c, st)'
    BY <1>3
  <2> QED
    BY <1>1, <2>1, <2>2 DEF TaggingInv
<1>5. cache # Unset => InForceAt(cache.conf, cache.stamp)'
  <2> SUFFICES ASSUME cache # Unset
               PROVE  InForceAt(cache.conf, cache.stamp)'
    OBVIOUS
  <2>1. cache.conf \in Nat /\ cache.stamp \in Nat /\ cache.stamp <= clock
    BY DEF TaggingInv, CacheEntry
  <2>2. \A c \in Nat, st \in Nat : st <= clock /\ InForceAt(c, st) => InForceAt(c, st)'
    BY <1>3
  <2> QED
    BY <1>1, <2>1, <2>2 DEF TaggingInv
<1> QED
  BY <1>1, <1>2, <1>4, <1>5 DEF TaggingInv

\* a lookup takes its stamp before it fetches, and the entry keeps it
LEMMA LookupKeeps ==
  ASSUME TaggingInv, NEW l \in Lookups, Lookup(l) \/ Fetch(l) \/ Keep(l)
  PROVE  TaggingInv'
<1>1. CASE Lookup(l)
  <2> DEFINE new == [IdleLookup EXCEPT !.at = "fetch", !.stamp = clock]
  <2>1. /\ lookup' = [lookup EXCEPT ![l] = new]
        /\ UNCHANGED <<clock, since, cache>>
    BY <1>1 DEF Lookup
  <2>2. new \in LookupRecord /\ new.at = "fetch" /\ new.stamp = clock /\ clock <= clock
    <3>1. clock \in Nat /\ clock <= clock
      BY DEF TaggingInv
    <3>2. IdleLookup \in LookupRecord
      BY DEF IdleLookup, LookupRecord
    <3> QED
      BY <3>1, <3>2 DEF LookupRecord
  <2> HIDE DEF new
  <2> QED
    BY <2>1, <2>2 DEF TaggingInv, InForceAt
<1>2. CASE Fetch(l)
  <2>1. PICK conf \in {Len(since), 0} :
          lookup' = [lookup EXCEPT ![l].at = "fetched", ![l].conf = conf]
    BY <1>2 DEF Fetch
  <2>2. lookup[l].at = "fetch" /\ UNCHANGED <<clock, since, cache>>
    BY <1>2 DEF Fetch
  <2>3. Len(since) \in Nat /\ Len(since) > 0
    BY DEF TaggingInv
  <2> DEFINE new == [lookup[l] EXCEPT !.at = "fetched", !.conf = conf]
  <2>4. /\ new \in LookupRecord /\ new.conf = conf /\ new.stamp = lookup[l].stamp
        /\ InForceAt(conf, lookup[l].stamp) /\ lookup[l].stamp <= clock
    <3>1. lookup[l] \in LookupRecord /\ conf \in Nat
      BY <2>3 DEF TaggingInv
    <3>2. new \in LookupRecord /\ new.conf = conf /\ new.stamp = lookup[l].stamp
      BY <3>1 DEF LookupRecord
    <3>3. InForceAt(conf, lookup[l].stamp)
      BY <2>3 DEF InForceAt
    <3>4. lookup[l].stamp <= clock
      BY <2>2 DEF TaggingInv
    <3> QED
      BY <3>2, <3>3, <3>4
  <2>5. lookup' = [lookup EXCEPT ![l] = new]
    BY <2>1
  <2> HIDE DEF new
  <2> QED
    BY <2>2, <2>4, <2>5 DEF TaggingInv, InForceAt
<1>3. CASE Keep(l)
  <2> DEFINE entry == [stamp |-> lookup[l].stamp, conf |-> lookup[l].conf]
  <2>1. /\ lookup[l].at = "fetched" /\ cache' = entry
        /\ lookup' = [lookup EXCEPT ![l] = IdleLookup]
        /\ UNCHANGED <<clock, since>>
    BY <1>3 DEF Keep, Stamp
  <2>2. entry \in CacheEntry /\ entry.stamp <= clock /\ InForceAt(entry.conf, entry.stamp)
    BY <2>1 DEF CacheEntry, LookupRecord, TaggingInv
  <2>3. IdleLookup \in LookupRecord /\ IdleLookup.at = "idle"
    BY DEF IdleLookup, LookupRecord
  <2> HIDE DEF entry
  <2> QED
    BY <2>1, <2>2, <2>3 DEF TaggingInv, InForceAt
<1> QED
  BY <1>1, <1>2, <1>3

LEMMA TickKeeps ==
  ASSUME TaggingInv, Tick
  PROVE  TaggingInv'
<1>1. clock' = clock + 1 /\ UNCHANGED <<since, cache, lookup>>
  BY DEF Tick
<1>2. \A l \in Lookups : lookup[l].at # "idle" => lookup[l].stamp <= clock'
  BY <1>1 DEF TaggingInv, LookupRecord
<1>3. cache # Unset => cache.stamp <= clock'
  BY <1>1 DEF TaggingInv, CacheEntry
<1> QED
  BY <1>1, <1>2, <1>3 DEF TaggingInv, InForceAt

LEMMA OthersKeepTagging ==
  ASSUME TaggingInv, UNCHANGED tagging
  PROVE  TaggingInv'
  BY DEF TaggingInv, tagging, InForceAt

LEMMA TaggingNext == TaggingInv /\ [Next]_vars => TaggingInv'
<1> SUFFICES ASSUME TaggingInv, [Next]_vars PROVE TaggingInv'
  OBVIOUS
<1>1. ASSUME NEW a \in Admins,
             Save(a) \/ PushLost(a) \/ ReloadFetch(a) \/ ReloadAssign(a) \/ ReloadReset(a)
      PROVE  TaggingInv'
  <2>1. UNCHANGED tagging
    BY <1>1 DEF Save, PushLost, ReloadFetch, ReloadAssign, ReloadReset
  <2> QED
    BY <2>1, OthersKeepTagging
<1>2. ASSUME NEW t \in Threads,
             (\E p \in Parts : Get(t, p)) \/ Load(t) \/ AssignLoaded(t) \/ Build(t)
      PROVE  TaggingInv'
  <2>1. UNCHANGED tagging
    BY <1>2 DEF Get, Load, AssignLoaded, Build
  <2> QED
    BY <2>1, OthersKeepTagging
<1>3. ASSUME NEW l \in Lookups, Lookup(l) \/ Fetch(l) \/ Keep(l) PROVE TaggingInv'
  BY <1>3, LookupKeeps
<1>4. CASE RestartGenai
  BY <1>4, OthersKeepTagging DEF RestartGenai
<1>5. CASE SaveSettings
  BY <1>5, SaveSettingsKeeps
<1>6. CASE Tick
  BY <1>6, TickKeeps
<1>7. CASE UNCHANGED vars
  BY <1>7, OthersKeepTagging DEF vars, tagging
<1> QED
  BY <1>1, <1>2, <1>3, <1>4, <1>5, <1>6, <1>7 DEF Next

\* No tag is decided by tagging settings that were replaced a whole time-to-live ago,
\* however long a fetch takes and whichever of several fetches is stored last: an entry
\* counts from before its fetch (_cached).
THEOREM TagsUseRecentSettings == Spec => []TaggingSettingsAreRecent
<1>1. TaggingInv => TaggingSettingsAreRecent
  <2> SUFFICES ASSUME TaggingInv, Fresh, cache.conf # 0, cache.conf # Len(since)
               PROVE  since[cache.conf + 1] > clock - Ttl
    BY DEF TaggingSettingsAreRecent
  <2>1. /\ cache # Unset /\ clock - cache.stamp < Ttl
        /\ cache.stamp \in Nat /\ clock \in Nat /\ Ttl \in Nat
    BY CachesAssumption DEF Fresh, TaggingInv, CacheEntry
  <2>2. /\ since[cache.conf + 1] >= cache.stamp
        /\ cache.conf + 1 \in 1..Len(since) /\ since \in Seq(Nat)
    <3>1. since \in Seq(Nat) /\ Len(since) \in Nat /\ InForceAt(cache.conf, cache.stamp)
      BY <2>1 DEF TaggingInv
    <3>2. cache.conf \in 1..Len(since) /\ since[cache.conf + 1] >= cache.stamp
      BY <3>1 DEF InForceAt
    <3> QED
      BY <3>1, <3>2
  <2>3. since[cache.conf + 1] \in Nat
    BY <2>2
  <2> QED
    BY <2>1, <2>2, <2>3
<1> QED
  BY <1>1, TaggingInit, TaggingNext, PTL DEF Spec
=============================================================================
