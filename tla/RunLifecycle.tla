---------------------------- MODULE RunLifecycle ----------------------------
(***************************************************************************)
(* What the orchestration service promises about a generation run, with no *)
(* sections, workers, locks or leases in sight: a submitted run is queued, *)
(* admitted, and settles as complete, partial or failed; a run that        *)
(* settles with any section drafted has its CAM, the CAM and the terminal  *)
(* status become visible in the same step, the CAM is never taken away,    *)
(* and only a partial or failed run is ever reopened.                      *)
(*                                                                         *)
(* Orchestration.tla is shown to implement this module.                    *)
(***************************************************************************)
CONSTANT Runs        \* identities of the runs that may be submitted

VARIABLES stage,     \* stage[r]: the status column of run r
          hasCam     \* hasCam[r]: run r carries a cam_id

vars == <<stage, hasCam>>

Settled == {"complete", "partial", "failed"}
Stages  == {"none", "queued", "running"} \cup Settled

TypeOK == /\ stage \in [Runs -> Stages]
          /\ hasCam \in [Runs -> BOOLEAN]
-----------------------------------------------------------------------------
Init == /\ stage = [r \in Runs |-> "none"]
        /\ hasCam = [r \in Runs |-> FALSE]

\* POST /api/runs accepts the run; it is never refused for load.
Submit(r) == /\ stage[r] = "none"
             /\ stage' = [stage EXCEPT ![r] = "queued"]
             /\ UNCHANGED hasCam

\* Admission promotes a batch of queued runs.
Admit(A) == /\ A # {}
            /\ \A r \in A : stage[r] = "queued"
            /\ stage' = [r \in Runs |-> IF r \in A THEN "running" ELSE stage[r]]
            /\ UNCHANGED hasCam

\* The run settles; with something drafted it settles together with its CAM.
Settle(r) == /\ stage[r] = "running"
             /\ \/ /\ stage' = [stage EXCEPT ![r] = "failed"]
                   /\ ~hasCam[r]
                   /\ UNCHANGED hasCam
                \/ \E s \in {"complete", "partial"} :
                      /\ stage' = [stage EXCEPT ![r] = s]
                      /\ hasCam' = [hasCam EXCEPT ![r] = TRUE]

\* A failed section is retried: the run generates again.
Reopen(r) == /\ stage[r] \in {"partial", "failed"}
             /\ stage' = [stage EXCEPT ![r] = "running"]
             /\ UNCHANGED hasCam

Next == \/ \E r \in Runs : Submit(r) \/ Settle(r) \/ Reopen(r)
        \/ \E A \in SUBSET Runs : Admit(A)

\* A running run settles, and a queued one is admitted, without help.
Fairness == \A r \in Runs :
               /\ WF_vars(Settle(r))
               /\ WF_vars(\E A \in SUBSET Runs : r \in A /\ Admit(A))

SafeSpec == Init /\ [][Next]_vars
Spec     == SafeSpec /\ Fairness
=============================================================================
