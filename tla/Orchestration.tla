---------------------------- MODULE Orchestration ---------------------------
(***************************************************************************)
(* The CAM generation queue: runs, their section jobs, the worker pool     *)
(* that drains them, the reaper, the memo-level reconcile phase and the    *)
(* hand-off of the finished CAM to the output service                      *)
(* (cam/services/orchestration/main.py and worker.py).                     *)
(*                                                                         *)
(* Every database transaction is one step.  Whatever the code does between *)
(* two transactions -- a language-model call, a call to the output         *)
(* service, the wait for a lock -- separates two steps, so that any other  *)
(* worker, request or crash may come in between.  _claim_lock is held for  *)
(* a single transaction and needs no state of its own; _finalize_lock is   *)
(* held across the hand-off and is FinalizeLocked below.                   *)
(*                                                                         *)
(* An operator X_Slip next to X is X as a plausible slip in that code      *)
(* would have it.  It is no part of the specification: the mutants of      *)
(* PROJECT.json put it in the place of X and expect a property to break.   *)
(***************************************************************************)
EXTENDS Integers, FiniteSets

CONSTANTS
  Runs,                  \* runs that may be submitted
  Codes,                 \* section codes of the template
  Owner,                 \* Owner[r]: the analyst who submits r (created_by)
  OrderNo,               \* OrderNo[c]: display order of a section
  DependsOn,             \* DependsOn[c]: sections whose output feeds c
  Skippable,             \* conditional sections (include_if_doctype)
  Regenerable,           \* BOUND: sections regenerated, once per run
  Workers,               \* threads of the worker pool
  WorkerZero,            \* the one that reaps and is always active
  NoJob,                 \* an idle worker's job
  MaxConcurrentRuns,     \* master setting max_concurrent_runs
  MaxActiveRunsPerUser,  \* CAM_MAX_ACTIVE_RUNS_PER_USER
  MaxSectionAttempts,    \* CAM_MAX_SECTION_ATTEMPTS
  WantsReconcile,        \* agents_consistency_enabled /\ post_generation
  SlowWorkers,           \* a live worker may hold a job past its lease
  EagerRetry,            \* a section may be retried before its run settles
  CamFaults,             \* how POST /api/cams may fail: see Deliver
  CallFaults,            \* a call whose failure is only logged may fail
  MaxRetries,            \* BOUND: retries requested by analysts
  MaxCrashes             \* BOUND: crashes of the service

Reconcile == "_reconcile"       \* section_code of the reconcile job

InitialJobs   == [run : Runs, code : Codes, kind : {"initial"}]
RegenJobs     == [run : Runs, code : Regenerable, kind : {"regeneration"}]
ReconcileJobs == [run : Runs, code : {Reconcile}, kind : {"reconcile"}]
Jobs          == InitialJobs \cup RegenJobs \cup ReconcileJobs

Initial(r, c)   == [run |-> r, code |-> c, kind |-> "initial"]
Regen(r, c)     == [run |-> r, code |-> c, kind |-> "regeneration"]
ReconcileOf(r)  == [run |-> r, code |-> Reconcile, kind |-> "reconcile"]

RunsAssumption == IsFiniteSet(Runs)
SectionsAssumption ==
  /\ Reconcile \notin Codes
  /\ OrderNo \in [Codes -> Nat]
  /\ DependsOn \in [Codes -> SUBSET Codes]
  /\ Skippable \subseteq Codes
  /\ Regenerable \subseteq Codes
PoolAssumption ==
  /\ WorkerZero \in Workers
  /\ NoJob \notin Jobs
LimitsAssumption ==
  /\ MaxConcurrentRuns \in Nat \ {0}
  /\ MaxActiveRunsPerUser \in Nat \ {0}
  /\ MaxSectionAttempts \in Nat \ {0}
EnvironmentAssumption ==
  /\ {WantsReconcile, SlowWorkers, EagerRetry, CallFaults} \subseteq BOOLEAN
  /\ CamFaults \subseteq {"refused", "reply_lost"}
  /\ MaxRetries \in Nat
  /\ MaxCrashes \in Nat

ASSUME OrchestrationAssumption ==
  /\ RunsAssumption
  /\ SectionsAssumption
  /\ PoolAssumption
  /\ LimitsAssumption
  /\ EnvironmentAssumption

TerminalRun == {"complete", "partial", "failed"}
RunStates   == {"none", "queued", "running"} \cup TerminalRun
Terminal    == {"complete", "failed", "skipped"}
JobStates   == {"absent", "queued", "running"} \cup Terminal
\* What a draft is worth telling apart: nothing yet, the pipeline's draft, the
\* reconcile phase's re-draft, a regeneration.
Drafts      == {"none", "draft", "reconciled", "regenerated"}

VARIABLES
  runStatus,   \* Run.status ("none": not submitted yet)
  camId,       \* Run.cam_id: 0, or the number of the CAM it refers to
  arrival,     \* position of Run.created_at among the submitted runs
  status,      \* SectionJob.status ("absent": no such row)
  attempts,    \* SectionJob.attempts
  content,     \* SectionJob.content
  pc,          \* where each worker thread is
  job,         \* the job it works for
  todo,        \* jobs the reaper failed and has still to settle
  input,       \* what its prompt was built from: section outputs
  handoff,     \* the hand-off prepared under _finalize_lock
  cams,        \* output service: number of CAMs created for the run
  cam,         \* output service: the sections of the run's latest CAM
  announcing,  \* POST /api/runs calls that have still to report "generating"
  caseStatus,  \* document service: the status of the run's case
  notice,      \* Notification.kind last written for the run
  retries, crashes   \* counters of the two BOUNDs

dbVars   == <<runStatus, camId, arrival, status, attempts, content>>
poolVars == <<pc, job, todo, input, handoff>>
outVars  == <<cams, cam, announcing, caseStatus, notice>>
vars     == <<dbVars, poolVars, outVars, retries, crashes>>

-----------------------------------------------------------------------------
(* Queries *)

RunsIn(s)  == {r \in Runs : runStatus[r] = s}
SectionsIn(r, s) == {c \in Codes : status[Initial(r, c)] = s}

\* the test of _maybe_finalize: a section is still to be drafted
InFlight(r) == \E c \in Codes : status[Initial(r, c)] \in {"queued", "running"}

Verdict(r) == IF SectionsIn(r, "complete") = {} THEN "failed"
              ELSE IF SectionsIn(r, "failed") # {} THEN "partial"
              ELSE "complete"

NoDrafts == [c \in Codes |-> "none"]
\* the sections that go into the CAM, with their text
CamSections(r) == [c \in Codes |-> IF c \in SectionsIn(r, "complete")
                                   THEN content[Initial(r, c)] ELSE "none"]

NoHandoff == [verdict |-> "failed", drafts |-> NoDrafts, cam |-> 0]

Finalizing == {"deliver", "settle", "conclude", "notify"}
\* _finalize_lock is held by a worker in the middle of _maybe_finalize
FinalizeLocked_NoLock == FALSE
FinalizeLocked == \E w \in Workers : pc[w] \in Finalizing

\* a worker is executing the job it claimed
Executing  == {"claimed", "drafting", "reviewing"}
Holders(j) == {w \in Workers : job[w] = j /\ pc[w] \in Executing}

Labels == {"idle", "after", "push", "finalize"} \cup Executing \cup Finalizing

-----------------------------------------------------------------------------
(* Submission (main.py) *)

Init ==
  /\ runStatus  = [r \in Runs |-> "none"]
  /\ camId      = [r \in Runs |-> 0]
  /\ arrival    = [r \in Runs |-> 0]
  /\ status     = [j \in Jobs |-> "absent"]
  /\ attempts   = [j \in Jobs |-> 0]
  /\ content    = [j \in Jobs |-> "none"]
  /\ pc         = [w \in Workers |-> "idle"]
  /\ job        = [w \in Workers |-> NoJob]
  /\ todo       = [w \in Workers |-> {}]
  /\ input      = [w \in Workers |-> {}]
  /\ handoff    = NoHandoff
  /\ cams       = [r \in Runs |-> 0]
  /\ cam        = [r \in Runs |-> NoDrafts]
  /\ announcing = {}
  /\ caseStatus = [r \in Runs |-> "open"]
  /\ notice     = [r \in Runs |-> "none"]
  /\ retries = 0
  /\ crashes = 0

\* POST /api/runs: the run row and one job per section, in one transaction.
\* Conditional sections whose document the case lacks start out skipped.
CreateRun(r) ==
  /\ runStatus[r] = "none"
  /\ \E skipped \in SUBSET Skippable :
       status' = [j \in Jobs |-> IF j \in InitialJobs /\ j.run = r
                                 THEN IF j.code \in skipped THEN "skipped" ELSE "queued"
                                 ELSE status[j]]
  /\ runStatus' = [runStatus EXCEPT ![r] = "queued"]
  /\ arrival' = [arrival EXCEPT ![r] = 1 + Cardinality({q \in Runs : arrival[q] > 0})]
  /\ announcing' = announcing \cup {r}
  /\ UNCHANGED <<camId, attempts, content, poolVars, cams, cam, caseStatus, notice,
                 retries, crashes>>

\* ... and, after the commit, the same request reports the case "generating".
Announce(r) ==
  /\ r \in announcing
  /\ announcing' = announcing \ {r}
  /\ \/ caseStatus' = [caseStatus EXCEPT ![r] = "generating"]
     \/ CallFaults /\ UNCHANGED caseStatus
  /\ UNCHANGED <<dbVars, poolVars, cams, cam, notice, retries, crashes>>

-----------------------------------------------------------------------------
(* Admission and claim: _claim_next, one transaction under _claim_lock *)

Ahead_Lifo(A, r) == {q \in A : arrival[q] > arrival[r]}
Ahead(A, r) == {q \in A : arrival[q] < arrival[r]}
OwnedLike(S, r) == {q \in S : Owner[q] = Owner[r]}

IsAdmission_SlotsNotConsumed(A) ==
  \A r \in RunsIn("queued") :
     r \in A <=>
       /\ Cardinality(RunsIn("running")) < MaxConcurrentRuns
       /\ Cardinality(OwnedLike(RunsIn("running") \cup Ahead(A, r), r)) < MaxActiveRunsPerUser

IsAdmission_ShareNotCounted(A) ==
  \A r \in RunsIn("queued") :
     r \in A <=>
       /\ Cardinality(RunsIn("running") \cup Ahead(A, r)) < MaxConcurrentRuns
       /\ Cardinality(OwnedLike(Ahead(A, r), r)) < MaxActiveRunsPerUser

\* A is what the FIFO pass of _admit_pending_runs promotes: a queued run is in
\* A exactly when a slot is left after those promoted before it, and its owner
\* is below the per-user cap by then.
IsAdmission(A) ==
  \A r \in RunsIn("queued") :
     r \in A <=>
       LET active == RunsIn("running") \cup Ahead(A, r) IN
       /\ Cardinality(active) < MaxConcurrentRuns
       /\ Cardinality(OwnedLike(active, r)) < MaxActiveRunsPerUser

\* a regeneration clone is created without depends_on
DepsOf(j) == IF j.kind = "initial" THEN DependsOn[j.code] ELSE {}

DepsSatisfied_StartedSuffices(j) ==
  \A c \in DepsOf(j) : status[Initial(j.run, c)] # "queued"
DepsSatisfied(j) == \A c \in DepsOf(j) : status[Initial(j.run, c)] \in Terminal

\* the jobs _claim_next may take once the runs in A are admitted
Ready(A) ==
  {j \in Jobs :
     /\ status[j] = "queued"
     /\ j.kind = "regeneration" \/ runStatus[j.run] = "running" \/ j.run \in A
     /\ IF j.kind = "reconcile" THEN ~InFlight(j.run) ELSE DepsSatisfied(j)}

\* order_no, by which candidates are tried; _maybe_finalize gives the reconcile
\* job 9998
ReconcileOrderNo == 9998
OrderOf(j) == IF j.kind = "reconcile" THEN ReconcileOrderNo ELSE OrderNo[j.code]

\* Admissions are committed whether or not a job can be claimed.
Claim(w) ==
  /\ pc[w] = "idle"
  /\ \E A \in SUBSET RunsIn("queued") :
       /\ IsAdmission(A)
       /\ runStatus' = [r \in Runs |-> IF r \in A THEN "running" ELSE runStatus[r]]
       /\ \/ /\ Ready(A) = {} /\ A # {}
             /\ UNCHANGED <<status, attempts, pc, job>>
          \/ \E j \in Ready(A) :
               /\ \A k \in Ready(A) : OrderOf(j) <= OrderOf(k)
               /\ status' = [status EXCEPT ![j] = "running"]
               /\ attempts' = [attempts EXCEPT ![j] = @ + 1]
               /\ pc' = [pc EXCEPT ![w] = "claimed"]
               /\ job' = [job EXCEPT ![w] = j]
  /\ UNCHANGED <<camId, arrival, content, todo, input, handoff, outVars, retries, crashes>>

-----------------------------------------------------------------------------
(* Drafting: process_job *)

ReadInputs_AnyOutcome(w) ==
  /\ pc[w] = "claimed"
  /\ job[w].kind # "reconcile"
  /\ pc' = [pc EXCEPT ![w] = "drafting"]
  /\ input' = [input EXCEPT ![w] = DepsOf(job[w])]
  /\ UNCHANGED <<dbVars, job, todo, handoff, outVars, retries, crashes>>

\* _section_payload reads the outputs of the sections this one depends on,
\* after the calls that fetch its documents.
ReadInputs(w) ==
  /\ pc[w] = "claimed"
  /\ job[w].kind # "reconcile"
  /\ pc' = [pc EXCEPT ![w] = "drafting"]
  /\ input' = [input EXCEPT ![w] =
                 {c \in DepsOf(job[w]) : c \in SectionsIn(job[w].run, "complete")}]
  /\ UNCHANGED <<dbVars, job, todo, handoff, outVars, retries, crashes>>

\* The pipeline ends: the outcome is committed without looking at the row.
DraftDone(w) ==
  /\ pc[w] = "drafting"
  /\ status' = [status EXCEPT ![job[w]] = "complete"]
  /\ content' = [content EXCEPT ![job[w]] =
                   IF job[w].kind = "regeneration" THEN "regenerated" ELSE "draft"]
  /\ pc' = [pc EXCEPT ![w] = "after"]
  /\ input' = [input EXCEPT ![w] = {}]
  /\ UNCHANGED <<runStatus, camId, arrival, attempts, job, todo, handoff, outVars,
                 retries, crashes>>

\* An exception anywhere in between fails the job; it is retried by nobody but
\* the analyst.
JobFailed(w) ==
  /\ pc[w] \in Executing
  /\ status' = [status EXCEPT ![job[w]] = "failed"]
  /\ pc' = [pc EXCEPT ![w] = "after"]
  /\ input' = [input EXCEPT ![w] = {}]
  /\ UNCHANGED <<runStatus, camId, arrival, attempts, content, job, todo, handoff,
                 outVars, retries, crashes>>

(* The memo-level consistency phase: _run_reconcile *)

\* the completed sections are read together ...
ReconcileRead(w) ==
  /\ pc[w] = "claimed"
  /\ job[w].kind = "reconcile"
  /\ pc' = [pc EXCEPT ![w] = "reviewing"]
  /\ input' = [input EXCEPT ![w] = SectionsIn(job[w].run, "complete")]
  /\ UNCHANGED <<dbVars, job, todo, handoff, outVars, retries, crashes>>

\* ... those the agent flags are re-drafted, each in a transaction of its own
ReviseSection(w) ==
  /\ pc[w] = "reviewing"
  /\ \E c \in input[w] :
       /\ content' = [content EXCEPT ![Initial(job[w].run, c)] = "reconciled"]
       /\ input' = [input EXCEPT ![w] = @ \ {c}]
  /\ UNCHANGED <<runStatus, camId, arrival, status, attempts, pc, job, todo, handoff,
                 outVars, retries, crashes>>

ReconcileDone(w) ==
  /\ pc[w] = "reviewing"
  /\ status' = [status EXCEPT ![job[w]] = "complete"]
  /\ pc' = [pc EXCEPT ![w] = "after"]
  /\ input' = [input EXCEPT ![w] = {}]
  /\ UNCHANGED <<runStatus, camId, arrival, attempts, content, job, todo, handoff,
                 outVars, retries, crashes>>
-----------------------------------------------------------------------------
(* After a section: _after_section *)

\* The worker has nothing more to do for its job: the reaper goes on with the
\* next job it failed, anyone else returns to the pool.
Release_KeepsJob(w) ==
  /\ pc' = [pc EXCEPT ![w] = "idle"]
  /\ UNCHANGED <<job, todo>>

Release(w) ==
  \/ /\ todo[w] = {}
     /\ pc' = [pc EXCEPT ![w] = "idle"]
     /\ job' = [job EXCEPT ![w] = NoJob]
     /\ UNCHANGED todo
  \/ \E j \in todo[w] :
       /\ pc' = [pc EXCEPT ![w] = "after"]
       /\ job' = [job EXCEPT ![w] = j]
       /\ todo' = [todo EXCEPT ![w] = @ \ {j}]

Goto(w, label) == /\ pc' = [pc EXCEPT ![w] = label]
                  /\ UNCHANGED <<job, todo>>

\* the fresh draft joins a CAM that has been handed over already
JoinsCam_OnlyRegenerations(j) == /\ j.kind = "regeneration"
                                 /\ camId[j.run] # 0
                                 /\ status[j] = "complete"
JoinsCam(j) == /\ j.kind # "reconcile"
               /\ camId[j.run] # 0
               /\ status[j] = "complete"

AfterSection(w) ==
  /\ pc[w] = "after"
  /\ \/ JoinsCam(job[w]) /\ Goto(w, "push")
     \/ ~JoinsCam(job[w]) /\ job[w].kind = "regeneration" /\ Release(w)
     \/ ~JoinsCam(job[w]) /\ job[w].kind # "regeneration" /\ Goto(w, "finalize")
  /\ UNCHANGED <<dbVars, input, handoff, outVars, retries, crashes>>

\* a retried section still settles its run once it has joined the CAM
SettlesItsRun_Never(j) == FALSE
SettlesItsRun(j) == j.kind = "initial"

\* As a new version of the section, or as a late section.  A push that fails is
\* logged and forgotten.
Push(w) ==
  /\ pc[w] = "push"
  /\ \/ cam' = [cam EXCEPT ![job[w].run][job[w].code] = content[job[w]]]
     \/ CallFaults /\ UNCHANGED cam
  /\ \/ SettlesItsRun(job[w]) /\ Goto(w, "finalize")
     \/ ~SettlesItsRun(job[w]) /\ Release(w)
  /\ UNCHANGED <<dbVars, input, handoff, cams, announcing, caseStatus, notice,
                 retries, crashes>>

-----------------------------------------------------------------------------
(* Settling the run: _maybe_finalize, under _finalize_lock *)

Settleable_IgnoresQueued(r) ==
  /\ runStatus[r] \in {"queued", "running"}
  /\ SectionsIn(r, "running") = {}
Settleable(r) == runStatus[r] \in {"queued", "running"} /\ ~InFlight(r)

ReconcileDue_NoWait(r) ==
  /\ WantsReconcile
  /\ camId[r] = 0
  /\ \E c, d \in SectionsIn(r, "complete") : c # d
  /\ status[ReconcileOf(r)] = "absent"

\* the memo-level phase comes first: two sections drafted, no CAM yet
ReconcileDue(r) ==
  /\ WantsReconcile
  /\ camId[r] = 0
  /\ \E c, d \in SectionsIn(r, "complete") : c # d
  /\ status[ReconcileOf(r)] \notin Terminal

\* not the last section, or the run has been settled already
NotLast(w) ==
  /\ ~Settleable(job[w].run)
  /\ Release(w)
  /\ UNCHANGED <<runStatus, status, handoff>>

\* the first to find every section settled enqueues the reconcile job; the
\* others leave while it is in flight
DeferToReconcile(w) ==
  LET r == job[w].run IN
  /\ Settleable(r) /\ ReconcileDue(r)
  /\ status' = [status EXCEPT ![ReconcileOf(r)] = IF @ = "absent" THEN "queued" ELSE @]
  /\ Release(w)
  /\ UNCHANGED <<runStatus, handoff>>

SettleWithoutCam_Concludes(w) ==
  LET r == job[w].run IN
  /\ Settleable(r) /\ ~ReconcileDue(r)
  /\ Verdict(r) = "failed" \/ camId[r] # 0
  /\ runStatus' = [runStatus EXCEPT ![r] = Verdict(r)]
  /\ Goto(w, "conclude")
  /\ UNCHANGED <<status, handoff>>

\* no CAM to hand over: nothing was drafted, or it was handed over before
SettleWithoutCam(w) ==
  LET r == job[w].run IN
  /\ Settleable(r) /\ ~ReconcileDue(r)
  /\ Verdict(r) = "failed" \/ camId[r] # 0
  /\ runStatus' = [runStatus EXCEPT ![r] = Verdict(r)]
  /\ \/ Verdict(r) = "failed" /\ Goto(w, "conclude")
     \/ Verdict(r) # "failed" /\ Release(w)
  /\ UNCHANGED <<status, handoff>>

PrepareHandoff_StatusFirst(w) ==
  LET r == job[w].run IN
  /\ Settleable(r) /\ ~ReconcileDue(r)
  /\ Verdict(r) # "failed" /\ camId[r] = 0
  /\ handoff' = [verdict |-> Verdict(r), drafts |-> CamSections(r), cam |-> 0]
  /\ runStatus' = [runStatus EXCEPT ![r] = Verdict(r)]
  /\ Goto(w, "deliver")
  /\ UNCHANGED status

\* the CAM is put together from what the sections hold now
PrepareHandoff(w) ==
  LET r == job[w].run IN
  /\ Settleable(r) /\ ~ReconcileDue(r)
  /\ Verdict(r) # "failed" /\ camId[r] = 0
  /\ handoff' = [verdict |-> Verdict(r), drafts |-> CamSections(r), cam |-> 0]
  /\ Goto(w, "deliver")
  /\ UNCHANGED <<runStatus, status>>

Finalize(w) ==
  /\ pc[w] = "finalize"
  /\ ~FinalizeLocked
  /\ NotLast(w) \/ DeferToReconcile(w) \/ SettleWithoutCam(w) \/ PrepareHandoff(w)
  /\ UNCHANGED <<camId, arrival, attempts, content, input, outVars, retries, crashes>>

Deliver_NotifiesFirst(w) ==
  LET r == job[w].run IN
  /\ pc[w] = "deliver"
  /\ cams' = [cams EXCEPT ![r] = @ + 1]
  /\ cam' = [cam EXCEPT ![r] = handoff.drafts]
  /\ handoff' = [handoff EXCEPT !.cam = cams[r] + 1]
  /\ notice' = [notice EXCEPT ![r] = handoff.verdict]
  /\ Goto(w, "settle")
  /\ UNCHANGED <<dbVars, input, announcing, caseStatus, retries, crashes>>

\* POST /api/cams: the CAM is created and its id comes back; it is refused; or
\* it is created and the reply is lost.  The worker goes on in every case.
Deliver(w) ==
  LET r == job[w].run IN
  /\ pc[w] = "deliver"
  /\ \/ /\ cams' = [cams EXCEPT ![r] = @ + 1]
        /\ cam' = [cam EXCEPT ![r] = handoff.drafts]
        /\ \/ handoff' = [handoff EXCEPT !.cam = cams[r] + 1]
           \/ "reply_lost" \in CamFaults /\ UNCHANGED handoff
     \/ "refused" \in CamFaults /\ UNCHANGED <<cams, cam, handoff>>
  /\ Goto(w, "settle")
  /\ UNCHANGED <<dbVars, input, announcing, caseStatus, notice, retries, crashes>>

\* cam_id is written if the output service returned one
RecordedCam_Forgotten(r) == camId[r]
RecordedCam(r) == IF handoff.cam # 0 THEN handoff.cam ELSE camId[r]

\* status and cam_id are committed together
Settle(w) ==
  LET r == job[w].run IN
  /\ pc[w] = "settle"
  /\ runStatus' = [runStatus EXCEPT ![r] = handoff.verdict]
  /\ camId' = [camId EXCEPT ![r] = RecordedCam(r)]
  /\ Goto(w, "conclude")
  /\ UNCHANGED <<arrival, status, attempts, content, input, handoff, outVars,
                 retries, crashes>>

\* the case shows the outcome ...
Conclude(w) ==
  LET r == job[w].run IN
  /\ pc[w] = "conclude"
  /\ \/ caseStatus' = [caseStatus EXCEPT ![r] =
                         IF handoff.verdict = "failed" THEN "open"
                         ELSE IF handoff.cam # 0 THEN "drafted" ELSE @]
     \/ CallFaults /\ UNCHANGED caseStatus
  /\ Goto(w, "notify")
  /\ UNCHANGED <<dbVars, input, handoff, cams, cam, announcing, notice, retries, crashes>>

\* ... and the creator is told
Notify(w) ==
  LET r == job[w].run IN
  /\ pc[w] = "notify"
  /\ \/ notice' = [notice EXCEPT ![r] = handoff.verdict]
     \/ CallFaults /\ UNCHANGED notice
  /\ handoff' = NoHandoff
  /\ Release(w)
  /\ UNCHANGED <<dbVars, input, cams, cam, announcing, caseStatus, retries, crashes>>

-----------------------------------------------------------------------------
(* Recovery and the analyst's requests *)

\* a claim whose lease can have run out
Expirable_AnyClaim(j) == status[j] = "running"
Expirable_FirstClaimOnly(j) ==
  /\ status[j] = "running" /\ attempts[j] = 1
  /\ SlowWorkers \/ Holders(j) = {}
Expirable(j) == status[j] = "running" /\ (SlowWorkers \/ Holders(j) = {})

Expired == {j \in Jobs : Expirable(j)}

GivesUp(j) == attempts[j] >= MaxSectionAttempts

\* reap_stuck_jobs: requeue, or give up at the attempt cap and settle the runs
Reap(S) ==
  LET GivenUp == {j \in S : GivesUp(j)} IN
  /\ pc[WorkerZero] = "idle"
  /\ S # {}
  /\ status' = [j \in Jobs |-> IF j \in GivenUp THEN "failed"
                               ELSE IF j \in S THEN "queued" ELSE status[j]]
  /\ \/ GivenUp = {} /\ UNCHANGED <<pc, job, todo>>
     \/ \E j \in GivenUp :
          /\ pc' = [pc EXCEPT ![WorkerZero] = "after"]
          /\ job' = [job EXCEPT ![WorkerZero] = j]
          /\ todo' = [todo EXCEPT ![WorkerZero] = GivenUp \ {j}]
  /\ UNCHANGED <<runStatus, camId, arrival, attempts, content, input, handoff,
                 outVars, retries, crashes>>

\* POST .../sections/{code}/retry
RetrySection(r, c) ==
  /\ retries < MaxRetries
  /\ status[Initial(r, c)] = "failed"
  /\ EagerRetry \/ runStatus[r] \in TerminalRun
  /\ status' = [status EXCEPT ![Initial(r, c)] = "queued"]
  /\ runStatus' = [runStatus EXCEPT ![r] =
                     IF @ \in {"partial", "failed"} THEN "running" ELSE @]
  /\ retries' = retries + 1
  /\ UNCHANGED <<camId, arrival, attempts, content, poolVars, outVars, crashes>>

\* POST .../sections/{code}/regenerate
RegenerateSection(r, c) ==
  /\ camId[r] # 0
  /\ status[Regen(r, c)] = "absent"
  /\ status' = [status EXCEPT ![Regen(r, c)] = "queued"]
  /\ UNCHANGED <<runStatus, camId, arrival, attempts, content, poolVars, outVars,
                 retries, crashes>>

\* The process dies and is restarted: rows survive; threads, locks and requests
\* do not.
Crash ==
  /\ crashes < MaxCrashes
  /\ crashes' = crashes + 1
  /\ pc'    = [w \in Workers |-> "idle"]
  /\ job'   = [w \in Workers |-> NoJob]
  /\ todo'  = [w \in Workers |-> {}]
  /\ input' = [w \in Workers |-> {}]
  /\ handoff' = NoHandoff
  /\ announcing' = {}
  /\ UNCHANGED <<dbVars, cams, cam, caseStatus, notice, retries>>

-----------------------------------------------------------------------------
(* Specification *)

\* a worker goes on with the job it has
WorkerStep(w) ==
  \/ ReadInputs(w) \/ DraftDone(w) \/ JobFailed(w)
  \/ ReconcileRead(w) \/ ReviseSection(w) \/ ReconcileDone(w)
  \/ AfterSection(w) \/ Push(w)
  \/ Finalize(w) \/ Deliver(w) \/ Settle(w) \/ Conclude(w) \/ Notify(w)

Request(r) == \/ CreateRun(r) \/ Announce(r)
              \/ \E c \in Codes : RetrySection(r, c)
              \/ \E c \in Regenerable : RegenerateSection(r, c)

\* everything submitted is settled and the pool polls an empty queue
Rest == /\ \A r \in Runs : runStatus[r] \in TerminalRun
        /\ \A w \in Workers : pc[w] = "idle"
        /\ \A j \in Jobs : status[j] \notin {"queued", "running"}
        /\ UNCHANGED vars

Next == \/ \E w \in Workers : Claim(w) \/ WorkerStep(w)
        \/ \E S \in SUBSET Expired : Reap(S)
        \/ \E r \in Runs : Request(r)
        \/ Crash
        \/ Rest

\* Threads that have a job go on; worker 0 is active whatever the
\* worker_concurrency setting says, so it keeps claiming and reaping; no
\* fairness is assumed of the other idle workers, of analysts or of crashes.
Fairness ==
  /\ \A w \in Workers : WF_vars(WorkerStep(w))
  /\ WF_vars(Claim(WorkerZero))
  /\ \A j \in Jobs : WF_vars(\E S \in SUBSET Expired : j \in S /\ Reap(S))
  /\ \A r \in Runs : WF_vars(Announce(r))

SafeSpec == Init /\ [][Next]_vars
Spec     == SafeSpec /\ Fairness
-----------------------------------------------------------------------------
(* Safety *)

\* Every variable keeps its type.
TypeOK ==
  /\ runStatus \in [Runs -> RunStates]
  /\ camId \in [Runs -> Nat]
  /\ arrival \in [Runs -> Nat]
  /\ status \in [Jobs -> JobStates]
  /\ attempts \in [Jobs -> Nat]
  /\ content \in [Jobs -> Drafts]
  /\ pc \in [Workers -> Labels]
  /\ job \in [Workers -> Jobs \cup {NoJob}]
  /\ \A w \in Workers : job[w] = NoJob <=> pc[w] = "idle"
  /\ todo \in [Workers -> SUBSET Jobs]
  /\ input \in [Workers -> SUBSET Codes]
  /\ handoff \in [verdict : TerminalRun, drafts : [Codes -> Drafts], cam : Nat]
  /\ cams \in [Runs -> Nat]
  /\ cam \in [Runs -> [Codes -> Drafts]]
  /\ announcing \in SUBSET Runs
  /\ caseStatus \in [Runs -> {"open", "generating", "drafted"}]
  /\ notice \in [Runs -> {"none"} \cup TerminalRun]
  /\ retries \in Nat
  /\ crashes \in Nat

\* No section is processed by two workers at a time (worker.py:1-6), whatever
\* is claimed, reaped, retried or lost in a crash meanwhile.
NeverDoubleProcessed ==
  \A v, w \in Workers :
     pc[v] \in Executing /\ pc[w] \in Executing /\ job[v] = job[w] => v = w

\* A settled run shows what became of its sections: none is still to be drafted
\* and the status is the verdict over them.
SettledRunAgreesWithSections ==
  \A r \in Runs : runStatus[r] \in TerminalRun =>
     /\ ~InFlight(r)
     /\ runStatus[r] = Verdict(r)

\* A run is handed to the output service exactly once, over any number of
\* retries and finalisers (docstring of _maybe_finalize).
HandedOverOnce == \A r \in Runs : cams[r] <= 1

\* A poller that sees complete or partial finds the CAM (worker.py, the comment
\* before the hand-off).
TerminalRunHasCam ==
  \A r \in Runs : runStatus[r] \in {"complete", "partial"} => camId[r] # 0

\* What the creator is told is true: "ready" means that there is a CAM.
NoticeIsTrue ==
  \A r \in Runs : notice[r] \in {"complete", "partial"} => camId[r] # 0

Busy(r) == \E w \in Workers : \/ pc[w] # "idle" /\ job[w].run = r
                              \/ \E j \in todo[w] : j.run = r

\* When a run rests with its CAM, the CAM holds every completed section with the
\* section's last text or a regeneration of it, and nothing that was not drafted:
\* no reconciled re-draft, retried or regenerated section is lost on the way.
CamHoldsEverySection ==
  \A r \in Runs : runStatus[r] \in TerminalRun /\ camId[r] # 0 /\ ~Busy(r) =>
     \A c \in Codes :
        LET regenerated == c \in Regenerable /\ status[Regen(r, c)] = "complete" IN
        /\ regenerated => cam[r][c] \in {"regenerated", content[Initial(r, c)]}
        /\ ~regenerated /\ status[Initial(r, c)] = "complete"
              => cam[r][c] = content[Initial(r, c)]
        /\ ~regenerated /\ status[Initial(r, c)] # "complete" => cam[r][c] = "none"

\* No more runs generate at once than max_concurrent_runs.
RunningCapRespected == Cardinality(RunsIn("running")) <= MaxConcurrentRuns

\* One user's burst does not take every slot.
UserCapRespected ==
  \A r \in RunsIn("running") :
     Cardinality(OwnedLike(RunsIn("running"), r)) <= MaxActiveRunsPerUser

-----------------------------------------------------------------------------
(* Action properties *)

\* A section's prompt is built when every section it depends on is terminal
\* (worker.py, comment in _section_payload).
DependenciesSettledAtDraft ==
  [][\A w \in Workers : ReadInputs(w) /\ job[w].kind = "initial" =>
       \A c \in DependsOn[job[w].code] : status[Initial(job[w].run, c)] \in Terminal]_vars

\* A draft rests on final inputs: when it is committed, the outputs it was built
\* from are still those of the completed sections it depends on -- none has been
\* drafted, lost or re-opened since they were read (contracts.md:355).
DraftRestsOnFinalOutputs ==
  [][\A w \in Workers : DraftDone(w) /\ job[w].kind = "initial" =>
       input[w] = DependsOn[job[w].code] \cap SectionsIn(job[w].run, "complete")]_vars

\* The status of a case never falls back from "drafted" to "open": a run that
\* handed over a CAM is not reported as failed later on, however it is retried.
CaseNeverReopens ==
  [][\A r \in Runs : caseStatus[r] = "drafted" => caseStatus'[r] # "open"]_vars

\* First come first served up to the fairness cap: a run that was submitted
\* before one just admitted is left waiting only if its owner then holds a full
\* share of the slots.
FifoAdmission ==
  [][\A q, r \in Runs :
       (/\ runStatus[q] = "queued" /\ runStatus'[q] = "queued"
        /\ runStatus[r] = "queued" /\ runStatus'[r] = "running"
        /\ arrival[q] < arrival[r])
         => Cardinality(OwnedLike(RunsIn("running")', q)) >= MaxActiveRunsPerUser]_vars

\* The memo-level phase precedes the hand-off: a CAM with two drafted sections is
\* created only when the run's one reconcile job has ended.
ReconciledBeforeHandoff ==
  [][\A r \in Runs : cams'[r] > cams[r] /\ WantsReconcile =>
       \/ status[ReconcileOf(r)] \in Terminal
       \/ \A c, d \in Codes :
            handoff.drafts[c] # "none" /\ handoff.drafts[d] # "none" => c = d]_vars

-----------------------------------------------------------------------------
(* Liveness *)

\* Every accepted run reaches a terminal state (tests/test_orchestration.py).
EveryRunSettles ==
  \A r \in Runs : runStatus[r] \in {"queued", "running"} ~> runStatus[r] \in TerminalRun

\* A section of an admitted run is drafted, failed or given up in the end, even
\* if the worker that claimed it died.
EverySectionSettles ==
  \A r \in Runs, c \in Codes :
     runStatus[r] = "running" /\ status[Initial(r, c)] \in {"queued", "running"}
        ~> status[Initial(r, c)] \in Terminal

\* The abstract lifecycle, seen through the two columns a client polls.
Lifecycle == INSTANCE RunLifecycle WITH
               stage <- runStatus, hasCam <- [r \in Runs |-> camId[r] # 0]

ImplementsLifecycle == Lifecycle!Spec
=============================================================================
