------------------------------ MODULE MCCaches ------------------------------
(* Two interchangeable threads in each service and two interchangeable admins. *)
EXTENDS ConfigCaches, TLC

CachesSymmetry == Permutations(Threads) \cup Permutations(Lookups) \cup Permutations(Admins)

GenaiAtRest == /\ saved = 1 /\ overrides = Unset
               /\ \A t \in Threads : thread[t] = IdleThread
TaggingAtRest == clock = 0 /\ Len(since) = 1 /\ \A l \in Lookups : lookup[l] = IdleLookup

\* The two services share nothing, so it is enough to let one of them move.
OneService == GenaiAtRest \/ TaggingAtRest
=============================================================================
