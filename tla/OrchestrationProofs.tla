------------------------- MODULE OrchestrationProofs ------------------------
(***************************************************************************)
(* Theorems about Orchestration, for every set of runs, sections and       *)
(* workers and every value of the limits: first its types, the pool of     *)
(* workers and the life of a job, then how a run settles -- its CAM comes  *)
(* before its terminal status, that status agrees with its sections, and a *)
(* section is drafted from settled dependencies.                           *)
(***************************************************************************)
EXTENDS Orchestration, FiniteSetTheorems, WellFoundedInduction, TLAPS

USE OrchestrationAssumption

-----------------------------------------------------------------------------
(* Jobs *)

\* Where the rows of a run live among the jobs.
LEMMA RowsAreJobs ==
  ASSUME NEW r \in Runs
  PROVE  /\ \A c \in Codes : Initial(r, c) \in Jobs
         /\ \A c \in Regenerable : Regen(r, c) \in Jobs
         /\ ReconcileOf(r) \in Jobs
BY DEF Initial, Regen, ReconcileOf, Jobs, InitialJobs, RegenJobs, ReconcileJobs

\* A job belongs to a run; all but the reconcile job draft a section of it.
LEMMA JobFields ==
  ASSUME NEW j \in Jobs
  PROVE  /\ j.run \in Runs
         /\ j.kind \in {"initial", "regeneration", "reconcile"}
         /\ j.kind # "reconcile" => j.code \in Codes
         /\ j.kind = "initial" => j = Initial(j.run, j.code)
         /\ j # NoJob
BY DEF Initial, Jobs, InitialJobs, RegenJobs, ReconcileJobs, SectionsAssumption, PoolAssumption

\* A thread that is somewhere in its loop has a job.
LEMMA WorkersJob ==
  ASSUME TypeOK, NEW w \in Workers, pc[w] # "idle"
  PROVE  job[w] \in Jobs
BY DEF TypeOK

-----------------------------------------------------------------------------
(* Type correctness *)

LEMMA CountIsNat == ASSUME NEW S \in SUBSET Runs PROVE Cardinality(S) \in Nat
BY FS_Subset, FS_CardinalityType DEF RunsAssumption

LEMMA ReleaseType ==
  ASSUME TypeOK, NEW w \in Workers, pc[w] # "idle", Release(w)
  PROVE  /\ pc' \in [Workers -> Labels]
         /\ job' \in [Workers -> Jobs \cup {NoJob}]
         /\ todo' \in [Workers -> SUBSET Jobs]
         /\ \A v \in Workers : job'[v] = NoJob <=> pc'[v] = "idle"
<1>1. CASE todo[w] = {} /\ pc' = [pc EXCEPT ![w] = "idle"]
           /\ job' = [job EXCEPT ![w] = NoJob] /\ UNCHANGED todo
  BY <1>1 DEF TypeOK, Labels
<1>2. ASSUME NEW j \in todo[w],
             pc' = [pc EXCEPT ![w] = "after"],
             job' = [job EXCEPT ![w] = j],
             todo' = [todo EXCEPT ![w] = @ \ {j}]
      PROVE  /\ pc' \in [Workers -> Labels]
             /\ job' \in [Workers -> Jobs \cup {NoJob}]
             /\ todo' \in [Workers -> SUBSET Jobs]
             /\ \A v \in Workers : job'[v] = NoJob <=> pc'[v] = "idle"
  <2>1. j \in Jobs /\ j # NoJob
    BY <1>2 DEF TypeOK, PoolAssumption
  <2>2. QED
    BY <1>2, <2>1 DEF TypeOK, Labels
<1>3. QED
  BY <1>1, <1>2 DEF Release

LEMMA GotoType ==
  ASSUME TypeOK, NEW w \in Workers, pc[w] # "idle",
         NEW l \in Labels \ {"idle"}, Goto(w, l)
  PROVE  /\ pc' \in [Workers -> Labels]
         /\ job' \in [Workers -> Jobs \cup {NoJob}]
         /\ todo' \in [Workers -> SUBSET Jobs]
         /\ \A v \in Workers : job'[v] = NoJob <=> pc'[v] = "idle"
BY DEF Goto, TypeOK, Labels

LEMMA CamSectionsType ==
  ASSUME TypeOK, NEW r \in Runs
  PROVE  CamSections(r) \in [Codes -> Drafts]
BY RowsAreJobs DEF CamSections, SectionsIn, TypeOK, Drafts

\* One section of one CAM is overwritten.
LEMMA CamEntryType ==
  ASSUME NEW f \in [Runs -> [Codes -> Drafts]], NEW r \in Runs, NEW c, NEW d \in Drafts
  PROVE  [f EXCEPT ![r][c] = d] \in [Runs -> [Codes -> Drafts]]
<1>1. [f[r] EXCEPT ![c] = d] \in [Codes -> Drafts]
  OBVIOUS
<1>2. QED
  BY <1>1

LEMMA VerdictType == ASSUME NEW r \in Runs PROVE Verdict(r) \in TerminalRun
BY DEF Verdict, TerminalRun

LEMMA InitType == Init => TypeOK
BY DEF Init, TypeOK, RunStates, JobStates, Drafts, Labels, NoHandoff, NoDrafts, TerminalRun

LEMMA RequestType ==
  ASSUME TypeOK, NEW r \in Runs, Request(r)
  PROVE  TypeOK'
<1>1. CASE CreateRun(r)
  <2>1. arrival' \in [Runs -> Nat]
    <3>1. Cardinality({q \in Runs : arrival[q] > 0}) \in Nat
      BY CountIsNat
    <3> QED
      BY <1>1, <3>1 DEF CreateRun, TypeOK
  <2>2. runStatus' \in [Runs -> RunStates] /\ announcing' \in SUBSET Runs
    BY <1>1 DEF CreateRun, TypeOK, RunStates
  <2>3. status' \in [Jobs -> JobStates]
    BY <1>1 DEF CreateRun, TypeOK, JobStates, Terminal
  <2>4. QED
    BY <1>1, <2>1, <2>2, <2>3 DEF CreateRun, TypeOK, poolVars
<1>2. CASE Announce(r)
  BY <1>2 DEF Announce, TypeOK, dbVars, poolVars
<1>3. CASE \E c \in Codes : RetrySection(r, c)
  <2>1. PICK c \in Codes : RetrySection(r, c)
    BY <1>3
  <2>2. status' \in [Jobs -> JobStates]
    BY <2>1 DEF RetrySection, TypeOK, JobStates
  <2>3. runStatus' \in [Runs -> RunStates]
    BY <2>1 DEF RetrySection, TypeOK, RunStates
  <2>4. QED
    BY <2>1, <2>2, <2>3 DEF RetrySection, TypeOK, poolVars, outVars
<1>4. CASE \E c \in Regenerable : RegenerateSection(r, c)
  <2>1. PICK c \in Regenerable : RegenerateSection(r, c)
    BY <1>4
  <2>2. status' \in [Jobs -> JobStates]
    BY <2>1 DEF RegenerateSection, TypeOK, JobStates
  <2>3. QED
    BY <2>1, <2>2 DEF RegenerateSection, TypeOK, poolVars, outVars
<1>5. QED
  BY <1>1, <1>2, <1>3, <1>4 DEF Request

LEMMA ClaimType ==
  ASSUME TypeOK, NEW w \in Workers, Claim(w)
  PROVE  TypeOK'
<1>1. runStatus' \in [Runs -> RunStates]
  BY DEF Claim, TypeOK, RunStates
<1>2. /\ status' \in [Jobs -> JobStates]
      /\ attempts' \in [Jobs -> Nat]
      /\ pc' \in [Workers -> Labels]
      /\ job' \in [Workers -> Jobs \cup {NoJob}]
      /\ \A v \in Workers : job'[v] = NoJob <=> pc'[v] = "idle"
  <2>1. CASE UNCHANGED <<status, attempts, pc, job>>
    BY <2>1 DEF TypeOK
  <2>2. ASSUME NEW j \in Jobs,
               status' = [status EXCEPT ![j] = "running"],
               attempts' = [attempts EXCEPT ![j] = @ + 1],
               pc' = [pc EXCEPT ![w] = "claimed"],
               job' = [job EXCEPT ![w] = j]
        PROVE  <1>2
    BY <2>2, JobFields DEF TypeOK, JobStates, Labels, Executing
  <2>3. QED
    BY <2>1, <2>2 DEF Claim, Ready
<1>3. QED
  BY <1>1, <1>2 DEF Claim, TypeOK, outVars

LEMMA DraftingType ==
  ASSUME TypeOK, NEW w \in Workers,
         ReadInputs(w) \/ DraftDone(w) \/ JobFailed(w)
           \/ ReconcileRead(w) \/ ReviseSection(w) \/ ReconcileDone(w)
  PROVE  TypeOK'
<1>1. pc[w] \in Executing
  BY DEF ReadInputs, DraftDone, JobFailed, ReconcileRead, ReviseSection, ReconcileDone, Executing
<1>2. job[w] \in Jobs /\ job[w].run \in Runs
  BY <1>1, WorkersJob, JobFields DEF Executing
<1>3. CASE ReadInputs(w)
  BY <1>3 DEF ReadInputs, SectionsIn, TypeOK, Labels, Executing, dbVars, outVars
<1>4. CASE DraftDone(w)
  BY <1>4 DEF DraftDone, TypeOK, Labels, JobStates, Terminal, Drafts, outVars
<1>5. CASE JobFailed(w)
  BY <1>1, <1>5, <1>2 DEF JobFailed, TypeOK, Labels, Executing, JobStates, Terminal, outVars
<1>6. CASE ReconcileRead(w)
  BY <1>6 DEF ReconcileRead, SectionsIn, TypeOK, Labels, Executing, dbVars, outVars
<1>7. CASE ReviseSection(w)
  <2>1. PICK c \in input[w] :
             /\ content' = [content EXCEPT ![Initial(job[w].run, c)] = "reconciled"]
             /\ input' = [input EXCEPT ![w] = @ \ {c}]
    BY <1>7 DEF ReviseSection
  <2>2. content' \in [Jobs -> Drafts] /\ input' \in [Workers -> SUBSET Codes]
    BY <2>1 DEF TypeOK, Drafts
  <2>3. QED
    BY <1>7, <2>2 DEF ReviseSection, TypeOK, outVars
<1>8. CASE ReconcileDone(w)
  BY <1>8 DEF ReconcileDone, TypeOK, Labels, JobStates, Terminal, outVars
<1>9. QED
  BY <1>3, <1>4, <1>5, <1>6, <1>7, <1>8

LEMMA SettlingType ==
  ASSUME TypeOK, NEW w \in Workers,
         AfterSection(w) \/ Push(w) \/ Finalize(w)
           \/ Deliver(w) \/ Settle(w) \/ Conclude(w) \/ Notify(w)
  PROVE  TypeOK'
<1>1. job[w] \in Jobs /\ pc[w] # "idle"
  BY WorkersJob DEF AfterSection, Push, Finalize, Deliver, Settle, Conclude, Notify
<1>2. job[w].run \in Runs
  BY <1>1, JobFields
<1> DEFINE PoolTyped == /\ pc' \in [Workers -> Labels]
                        /\ job' \in [Workers -> Jobs \cup {NoJob}]
                        /\ todo' \in [Workers -> SUBSET Jobs]
                        /\ \A v \in Workers : job'[v] = NoJob <=> pc'[v] = "idle"
<1>3. Release(w) => PoolTyped
  BY <1>1, ReleaseType
<1>4. \A l \in {"push", "finalize", "deliver", "settle", "conclude", "notify"} :
         Goto(w, l) => PoolTyped
  BY <1>1, GotoType DEF Labels, Executing, Finalizing
<1>5. CASE AfterSection(w)
  <2>1. PoolTyped
    BY <1>3, <1>4, <1>5 DEF AfterSection
  <2>2. QED
    BY <1>5, <2>1 DEF AfterSection, TypeOK, dbVars, outVars
<1>6. CASE Push(w)
  <2>1. PoolTyped
    BY <1>3, <1>4, <1>6 DEF Push
  <2>2. cam' \in [Runs -> [Codes -> Drafts]]
    <3>1. content[job[w]] \in Drafts
      BY <1>1 DEF TypeOK
    <3>2. CASE cam' = [cam EXCEPT ![job[w].run][job[w].code] = content[job[w]]]
      BY <1>2, <3>1, <3>2, CamEntryType DEF TypeOK
    <3>3. QED
      BY <1>6, <3>2 DEF Push, TypeOK
  <2>3. QED
    BY <1>6, <2>1, <2>2 DEF Push, TypeOK, dbVars
<1>7. CASE Finalize(w)
  <2>1. PoolTyped
    BY <1>3, <1>4, <1>7
    DEF Finalize, NotLast, DeferToReconcile, SettleWithoutCam, PrepareHandoff
  <2>2. runStatus' \in [Runs -> RunStates]
    BY <1>2, <1>7, VerdictType
    DEF Finalize, NotLast, DeferToReconcile, SettleWithoutCam, PrepareHandoff, TypeOK, RunStates
  <2>3. status' \in [Jobs -> JobStates]
    BY <1>7
    DEF Finalize, NotLast, DeferToReconcile, SettleWithoutCam, PrepareHandoff, TypeOK, JobStates
  <2>4. handoff' \in [verdict : TerminalRun, drafts : [Codes -> Drafts], cam : Nat]
    BY <1>2, <1>7, VerdictType, CamSectionsType
    DEF Finalize, NotLast, DeferToReconcile, SettleWithoutCam, PrepareHandoff, TypeOK
  <2>5. QED
    BY <1>7, <2>1, <2>2, <2>3, <2>4 DEF Finalize, TypeOK, outVars
<1>8. CASE Deliver(w)
  <2>1. PoolTyped
    BY <1>4, <1>8 DEF Deliver
  <2>2. cams' \in [Runs -> Nat]
    <3>1. UNCHANGED cams \/ cams' = [cams EXCEPT ![job[w].run] = @ + 1]
      BY <1>8 DEF Deliver
    <3>2. cams \in [Runs -> Nat]
      BY DEF TypeOK
    <3>3. QED
      BY <1>2, <3>1, <3>2
  <2>3. cam' \in [Runs -> [Codes -> Drafts]]
    <3>1. handoff.drafts \in [Codes -> Drafts]
      BY DEF TypeOK
    <3>2. UNCHANGED cam \/ cam' = [cam EXCEPT ![job[w].run] = handoff.drafts]
      BY <1>8 DEF Deliver
    <3>3. QED
      BY <3>1, <3>2 DEF TypeOK
  <2>4. handoff' \in [verdict : TerminalRun, drafts : [Codes -> Drafts], cam : Nat]
    <3>1. cams[job[w].run] + 1 \in Nat
      BY <1>2 DEF TypeOK
    <3>2. \/ UNCHANGED handoff
          \/ handoff' = [handoff EXCEPT !.cam = cams[job[w].run] + 1]
      BY <1>8 DEF Deliver
    <3>3. QED
      BY <3>1, <3>2 DEF TypeOK
  <2>5. QED
    BY <1>8, <2>1, <2>2, <2>3, <2>4 DEF Deliver, TypeOK, dbVars
<1>9. CASE Settle(w)
  <2>1. PoolTyped
    BY <1>4, <1>9 DEF Settle
  <2>2. runStatus' \in [Runs -> RunStates] /\ camId' \in [Runs -> Nat]
    BY <1>2, <1>9 DEF Settle, RecordedCam, TypeOK, RunStates
  <2>3. QED
    BY <1>9, <2>1, <2>2 DEF Settle, TypeOK, outVars
<1>10. CASE Conclude(w)
  <2>1. PoolTyped
    BY <1>4, <1>10 DEF Conclude
  <2>2. caseStatus' \in [Runs -> {"open", "generating", "drafted"}]
    BY <1>10 DEF Conclude, TypeOK
  <2>3. QED
    BY <1>10, <2>1, <2>2 DEF Conclude, TypeOK, dbVars
<1>11. CASE Notify(w)
  <2>1. PoolTyped
    BY <1>3, <1>11 DEF Notify
  <2>2. notice' \in [Runs -> {"none"} \cup TerminalRun]
    BY <1>11 DEF Notify, TypeOK
  <2>3. handoff' \in [verdict : TerminalRun, drafts : [Codes -> Drafts], cam : Nat]
    BY <1>11 DEF Notify, NoHandoff, NoDrafts, Drafts, TerminalRun
  <2>4. QED
    BY <1>11, <2>1, <2>2, <2>3 DEF Notify, TypeOK, dbVars
<1>12. QED
  BY <1>5, <1>6, <1>7, <1>8, <1>9, <1>10, <1>11

LEMMA ReapType ==
  ASSUME TypeOK, NEW S \in SUBSET Expired, Reap(S)
  PROVE  TypeOK'
<1>1. status' \in [Jobs -> JobStates]
  BY DEF Reap, TypeOK, JobStates, Terminal
<1>2. /\ pc' \in [Workers -> Labels]
      /\ job' \in [Workers -> Jobs \cup {NoJob}]
      /\ todo' \in [Workers -> SUBSET Jobs]
      /\ \A v \in Workers : job'[v] = NoJob <=> pc'[v] = "idle"
  <2>1. CASE UNCHANGED <<pc, job, todo>>
    BY <2>1 DEF TypeOK
  <2>2. ASSUME NEW j \in S,
               pc' = [pc EXCEPT ![WorkerZero] = "after"],
               job' = [job EXCEPT ![WorkerZero] = j],
               todo' = [todo EXCEPT ![WorkerZero] = {k \in S : GivesUp(k)} \ {j}]
        PROVE  <1>2
    <3>1. S \subseteq Jobs
      BY DEF Expired
    <3>2. QED
      BY <2>2, <3>1, JobFields DEF TypeOK, Labels
  <2>3. QED
    BY <2>1, <2>2 DEF Reap
<1>3. QED
  BY <1>1, <1>2 DEF Reap, TypeOK, outVars

LEMMA CrashType == ASSUME TypeOK, Crash PROVE TypeOK'
<1>1. handoff' \in [verdict : TerminalRun, drafts : [Codes -> Drafts], cam : Nat]
  BY DEF Crash, NoHandoff, NoDrafts, Drafts, TerminalRun
<1>2. QED
  BY <1>1 DEF Crash, TypeOK, Labels, dbVars

LEMMA NextType == TypeOK /\ [Next]_vars => TypeOK'
<1> SUFFICES ASSUME TypeOK, [Next]_vars PROVE TypeOK'
  OBVIOUS
<1>1. ASSUME NEW w \in Workers, Claim(w) PROVE TypeOK'
  BY <1>1, ClaimType
<1>2. ASSUME NEW w \in Workers, WorkerStep(w) PROVE TypeOK'
  BY <1>2, DraftingType, SettlingType DEF WorkerStep
<1>3. ASSUME NEW S \in SUBSET Expired, Reap(S) PROVE TypeOK'
  BY <1>3, ReapType
<1>4. ASSUME NEW r \in Runs, Request(r) PROVE TypeOK'
  BY <1>4, RequestType
<1>5. CASE Crash
  BY <1>5, CrashType
<1>6. CASE Rest \/ UNCHANGED vars
  BY <1>6 DEF Rest, vars, dbVars, poolVars, outVars, TypeOK
<1>7. QED
  BY <1>1, <1>2, <1>3, <1>4, <1>5, <1>6 DEF Next

\* Every variable keeps its type, in every behaviour of the queue.
THEOREM TypeCorrect == SafeSpec => []TypeOK
BY InitType, NextType, PTL DEF SafeSpec

-----------------------------------------------------------------------------
(* One worker per job *)

\* A job somebody executes is marked running, ...
HeldIsRunning == \A w \in Workers : pc[w] \in Executing => status[job[w]] = "running"

\* ... and a run that was not submitted has no section rows to claim.
UnsubmittedHasNoRows ==
  \A r \in Runs, c \in Codes : runStatus[r] = "none" => status[Initial(r, c)] = "absent"

ExclusiveInv == /\ TypeOK
                /\ HeldIsRunning
                /\ NeverDoubleProcessed
                /\ UnsubmittedHasNoRows

\* Nobody starts to execute anything.
NoNewHolder ==
  \A v \in Workers : pc'[v] \in Executing => pc[v] \in Executing /\ job'[v] = job[v]

\* What the steps that claim nothing have to keep.
LEMMA ExclusiveStep ==
  ASSUME ExclusiveInv, TypeOK', NoNewHolder,
         \A v \in Workers : pc'[v] \in Executing => status'[job[v]] = "running",
         \A r \in Runs, c \in Codes :
            runStatus'[r] = "none" => /\ runStatus[r] = "none"
                                      /\ status'[Initial(r, c)] = status[Initial(r, c)]
  PROVE  ExclusiveInv'
<1>1. HeldIsRunning'
  BY DEF HeldIsRunning, NoNewHolder, Executing
<1>2. NeverDoubleProcessed'
  BY DEF ExclusiveInv, NeverDoubleProcessed, NoNewHolder, Executing
<1>3. UnsubmittedHasNoRows'
  BY DEF ExclusiveInv, UnsubmittedHasNoRows, Initial
<1>4. QED
  BY <1>1, <1>2, <1>3 DEF ExclusiveInv

LEMMA ExclusiveInit == Init => ExclusiveInv
<1>1. Init => HeldIsRunning /\ NeverDoubleProcessed
  BY DEF Init, HeldIsRunning, NeverDoubleProcessed, Executing
<1>2. Init => UnsubmittedHasNoRows
  BY RowsAreJobs DEF Init, UnsubmittedHasNoRows
<1>3. QED
  BY <1>1, <1>2, InitType DEF ExclusiveInv

LEMMA ExclusiveClaim ==
  ASSUME ExclusiveInv, TypeOK', NEW w \in Workers, Claim(w)
  PROVE  ExclusiveInv'
<1>1. \A r \in Runs : runStatus'[r] = "none" => runStatus[r] = "none"
  BY DEF Claim, ExclusiveInv, TypeOK
<1>2. CASE UNCHANGED <<status, attempts, pc, job>>
  BY <1>1, <1>2, ExclusiveStep DEF NoNewHolder, ExclusiveInv, HeldIsRunning
<1>3. ASSUME NEW j \in Jobs, status[j] = "queued",
             status' = [status EXCEPT ![j] = "running"],
             pc' = [pc EXCEPT ![w] = "claimed"],
             job' = [job EXCEPT ![w] = j]
      PROVE  ExclusiveInv'
  <2>1. \A v \in Workers : pc[v] \in Executing => job[v] # j /\ job[v] \in Jobs
    BY <1>3, WorkersJob DEF ExclusiveInv, HeldIsRunning, Executing
  <2>2. \A v \in Workers \ {w} : pc'[v] = pc[v] /\ job'[v] = job[v]
    BY <1>3 DEF ExclusiveInv, TypeOK
  <2>3. job'[w] = j /\ status'[j] = "running"
    BY <1>3 DEF ExclusiveInv, TypeOK
  <2>4. HeldIsRunning'
    BY <1>3, <2>1, <2>2, <2>3 DEF ExclusiveInv, TypeOK, HeldIsRunning
  <2>5. NeverDoubleProcessed'
    BY <2>1, <2>2, <2>3 DEF ExclusiveInv, NeverDoubleProcessed
  <2>6. UnsubmittedHasNoRows'
    BY <1>1, <1>3, RowsAreJobs DEF ExclusiveInv, TypeOK, UnsubmittedHasNoRows, Initial
  <2>7. QED
    BY <2>4, <2>5, <2>6 DEF ExclusiveInv
<1>4. QED
  BY <1>2, <1>3 DEF Claim, Ready

\* The outcome of a job is written by its only holder, who lets go of it.
LEMMA ExclusiveOutcome ==
  ASSUME ExclusiveInv, TypeOK', NEW w \in Workers, pc[w] \in Executing,
         NEW s, status' = [status EXCEPT ![job[w]] = s],
         pc' = [pc EXCEPT ![w] = "after"], UNCHANGED <<job, runStatus>>
  PROVE  ExclusiveInv'
<1>1. job[w] \in Jobs /\ status[job[w]] = "running"
  BY WorkersJob DEF ExclusiveInv, HeldIsRunning, Executing
<1>2. NoNewHolder
  BY DEF NoNewHolder, Executing, ExclusiveInv, TypeOK
<1>3. \A v \in Workers : pc'[v] \in Executing => status'[job[v]] = "running"
  <2> SUFFICES ASSUME NEW v \in Workers, pc'[v] \in Executing
               PROVE  status'[job[v]] = "running"
    OBVIOUS
  <2>1. v # w
    BY DEF Executing, ExclusiveInv, TypeOK
  <2>2. pc[v] \in Executing /\ job[v] # job[w]
    BY <2>1, <1>2 DEF NoNewHolder, ExclusiveInv, NeverDoubleProcessed
  <2>3. QED
    BY <2>2 DEF ExclusiveInv, HeldIsRunning, TypeOK
<1>4. \A r \in Runs, c \in Codes :
         runStatus'[r] = "none" => /\ runStatus[r] = "none"
                                   /\ status'[Initial(r, c)] = status[Initial(r, c)]
  BY <1>1, RowsAreJobs DEF ExclusiveInv, UnsubmittedHasNoRows, TypeOK
<1>5. QED
  BY <1>2, <1>3, <1>4, ExclusiveStep
LEMMA ExclusiveWorker ==
  ASSUME ExclusiveInv, TypeOK', NEW w \in Workers, WorkerStep(w)
  PROVE  ExclusiveInv'
<1> DEFINE Quiet == /\ NoNewHolder /\ UNCHANGED status
                    /\ \A r \in Runs : runStatus'[r] = "none" => runStatus[r] = "none"
<1>1. Quiet => ExclusiveInv'
  BY ExclusiveStep DEF NoNewHolder, ExclusiveInv, HeldIsRunning
<1>2. Release(w) \/ (\E l \in {"push", "finalize", "deliver", "settle", "conclude", "notify"} : Goto(w, l))
        => NoNewHolder
  BY DEF Release, Goto, NoNewHolder, Executing, ExclusiveInv, TypeOK
<1>3. pc[w] # "idle" => job[w].run \in Runs
  BY WorkersJob, JobFields DEF ExclusiveInv
<1>4. CASE ReadInputs(w) \/ ReconcileRead(w)
  BY <1>1, <1>4 DEF ReadInputs, ReconcileRead, NoNewHolder, Executing, ExclusiveInv, TypeOK, dbVars
<1>5. CASE ReviseSection(w)
  BY <1>1, <1>5 DEF ReviseSection, NoNewHolder
<1>6. CASE DraftDone(w)
  BY <1>6, ExclusiveOutcome DEF DraftDone, Executing
<1>7. CASE JobFailed(w)
  BY <1>7, ExclusiveOutcome DEF JobFailed, Executing
<1>8. CASE ReconcileDone(w)
  BY <1>8, ExclusiveOutcome DEF ReconcileDone, Executing
<1>9. CASE AfterSection(w) \/ Push(w) \/ Deliver(w) \/ Conclude(w) \/ Notify(w)
  BY <1>1, <1>2, <1>9 DEF AfterSection, Push, Deliver, Conclude, Notify, dbVars
<1>10. CASE Settle(w)
  <2>1. handoff.verdict # "none" /\ runStatus' = [runStatus EXCEPT ![job[w].run] = handoff.verdict]
    BY <1>10 DEF Settle, ExclusiveInv, TypeOK, TerminalRun
  <2>2. \A r \in Runs : runStatus'[r] = "none" => runStatus[r] = "none"
    BY <2>1 DEF ExclusiveInv, TypeOK
  <2>3. QED
    BY <1>1, <1>2, <1>10, <2>2 DEF Settle
<1>11. CASE Finalize(w)
  <2>1. NoNewHolder
    BY <1>2, <1>11
    DEF Finalize, NotLast, DeferToReconcile, SettleWithoutCam, PrepareHandoff
  <2>2. CASE DeferToReconcile(w)
    <3>1. \A j \in Jobs : status[j] = "running" \/ j \in InitialJobs => status'[j] = status[j]
      BY <2>2 DEF DeferToReconcile, ExclusiveInv, TypeOK, InitialJobs, ReconcileOf
    <3>2. \A v \in Workers : pc'[v] \in Executing => status'[job[v]] = "running"
      BY <2>1, <3>1, WorkersJob DEF NoNewHolder, ExclusiveInv, HeldIsRunning, Executing
    <3>3. \A r \in Runs, c \in Codes : Initial(r, c) \in Jobs \cap InitialJobs
      BY RowsAreJobs DEF Initial, InitialJobs
    <3>4. QED
      BY <2>1, <2>2, <3>1, <3>2, <3>3, ExclusiveStep DEF DeferToReconcile
  <2>3. CASE SettleWithoutCam(w)
    <3>1. Verdict(job[w].run) # "none"
      BY DEF Verdict
    <3>2. \A r \in Runs : runStatus'[r] = "none" => runStatus[r] = "none"
      BY <2>3, <3>1 DEF SettleWithoutCam, ExclusiveInv, TypeOK
    <3>3. QED
      BY <1>1, <2>1, <2>3, <3>2 DEF SettleWithoutCam
  <2>4. CASE NotLast(w) \/ PrepareHandoff(w)
    BY <1>1, <2>1, <2>4 DEF NotLast, PrepareHandoff
  <2>5. QED
    BY <1>11, <2>2, <2>3, <2>4 DEF Finalize
<1>12. QED
  BY <1>4, <1>5, <1>6, <1>7, <1>8, <1>9, <1>10, <1>11 DEF WorkerStep

\* A worker that may not outlive its lease is never robbed of its job.
LEMMA ExclusiveReap ==
  ASSUME ~SlowWorkers, ExclusiveInv, TypeOK', NEW S \in SUBSET Expired, Reap(S)
  PROVE  ExclusiveInv'
<1>1. \A j \in Jobs : j \notin S => status'[j] = status[j]
  BY DEF Reap
<1>2. \A v \in Workers : pc[v] \in Executing => job[v] \in Jobs \ S
  BY WorkersJob DEF Expired, Expirable, Holders, ExclusiveInv, Executing
<1>3. \A r \in Runs, c \in Codes : runStatus[r] = "none" => Initial(r, c) \in Jobs \ S
  BY RowsAreJobs DEF Expired, Expirable, ExclusiveInv, UnsubmittedHasNoRows
<1>4. NoNewHolder
  BY DEF Reap, NoNewHolder, Executing, ExclusiveInv, TypeOK
<1>5. \A v \in Workers : pc'[v] \in Executing => status'[job[v]] = "running"
  BY <1>1, <1>2, <1>4 DEF NoNewHolder, ExclusiveInv, HeldIsRunning
<1>6. runStatus' = runStatus
  BY DEF Reap
<1>7. QED
  BY <1>1, <1>3, <1>4, <1>5, <1>6, ExclusiveStep

LEMMA ExclusiveRequest ==
  ASSUME ExclusiveInv, TypeOK', NEW r \in Runs, Request(r)
  PROVE  ExclusiveInv'
<1>1. UNCHANGED <<pc, job>>
  BY DEF Request, CreateRun, Announce, RetrySection, RegenerateSection, poolVars
<1>2. NoNewHolder
  BY <1>1 DEF NoNewHolder
<1>3. \A q \in Runs : runStatus'[q] = "none" => runStatus[q] = "none"
  BY DEF Request, CreateRun, Announce, RetrySection, RegenerateSection, dbVars, ExclusiveInv, TypeOK
<1>4. \A j \in Jobs : status[j] = "running" => status'[j] = "running"
  <2>1. CASE CreateRun(r)
    <3>1. \A j \in InitialJobs : j.run = r => status[j] = "absent"
      BY <2>1 DEF CreateRun, ExclusiveInv, UnsubmittedHasNoRows, Initial, InitialJobs
    <3>2. QED
      BY <2>1, <3>1 DEF CreateRun
  <2>2. CASE Announce(r)
    BY <2>2 DEF Announce, dbVars
  <2>3. CASE \E c \in Codes : RetrySection(r, c)
    BY <2>3 DEF RetrySection, ExclusiveInv, TypeOK
  <2>4. CASE \E c \in Regenerable : RegenerateSection(r, c)
    BY <2>4 DEF RegenerateSection, ExclusiveInv, TypeOK
  <2>5. QED
    BY <2>1, <2>2, <2>3, <2>4 DEF Request
<1>5. \A v \in Workers : pc'[v] \in Executing => status'[job[v]] = "running"
  BY <1>1, <1>4, WorkersJob DEF ExclusiveInv, HeldIsRunning, Executing
<1>6. \A q \in Runs, c \in Codes :
         runStatus'[q] = "none" => status'[Initial(q, c)] = status[Initial(q, c)]
  <2> SUFFICES ASSUME NEW q \in Runs, NEW c \in Codes, runStatus'[q] = "none"
               PROVE  status'[Initial(q, c)] = status[Initial(q, c)]
    OBVIOUS
  <2>1. status[Initial(q, c)] = "absent" /\ Initial(q, c) \in Jobs /\ Initial(q, c).run = q
    BY <1>3, RowsAreJobs DEF ExclusiveInv, UnsubmittedHasNoRows, Initial
  <2>2. CASE CreateRun(r)
    <3>1. q # r
      BY <2>2 DEF CreateRun, ExclusiveInv, TypeOK
    <3>2. QED
      BY <2>1, <2>2, <3>1 DEF CreateRun
  <2>3. CASE Announce(r)
    BY <2>3 DEF Announce, dbVars
  <2>4. CASE \E d \in Codes : RetrySection(r, d)
    BY <2>1, <2>4 DEF RetrySection, ExclusiveInv, TypeOK
  <2>5. CASE \E d \in Regenerable : RegenerateSection(r, d)
    BY <2>5, <2>1 DEF RegenerateSection, ExclusiveInv, TypeOK, Initial, Regen
  <2>6. QED
    BY <2>2, <2>3, <2>4, <2>5 DEF Request
<1>7. QED
  BY <1>2, <1>3, <1>5, <1>6, ExclusiveStep

LEMMA ExclusiveNext == ~SlowWorkers /\ ExclusiveInv /\ [Next]_vars => ExclusiveInv'
<1> SUFFICES ASSUME ~SlowWorkers, ExclusiveInv, [Next]_vars PROVE ExclusiveInv'
  OBVIOUS
<1>1. TypeOK'
  BY NextType DEF ExclusiveInv
<1>2. ASSUME NEW w \in Workers, Claim(w) \/ WorkerStep(w) PROVE ExclusiveInv'
  BY <1>1, <1>2, ExclusiveClaim, ExclusiveWorker
<1>3. ASSUME NEW S \in SUBSET Expired, Reap(S) PROVE ExclusiveInv'
  BY <1>1, <1>3, ExclusiveReap
<1>4. ASSUME NEW r \in Runs, Request(r) PROVE ExclusiveInv'
  BY <1>1, <1>4, ExclusiveRequest
<1>5. CASE Crash
  <2>1. NoNewHolder /\ \A v \in Workers : pc'[v] \notin Executing
    BY <1>5 DEF Crash, NoNewHolder, Executing
  <2>2. QED
    BY <1>1, <1>5, <2>1, ExclusiveStep DEF Crash, dbVars
<1>6. CASE Rest \/ UNCHANGED vars
  BY <1>1, <1>6, ExclusiveStep
  DEF Rest, vars, dbVars, poolVars, NoNewHolder, ExclusiveInv, HeldIsRunning
<1>7. QED
  BY <1>2, <1>3, <1>4, <1>5, <1>6 DEF Next

\* As long as no live worker outlives its lease, no two workers ever execute the
\* same job: not after a crash, a reaped claim or a retry, whatever the number of
\* runs, sections and workers (worker.py, "never double-process a job").
THEOREM NeverTwoWorkers == ~SlowWorkers => (SafeSpec => []NeverDoubleProcessed)
<1> SUFFICES ASSUME ~SlowWorkers PROVE SafeSpec => []NeverDoubleProcessed
  OBVIOUS
<1>1. ExclusiveInv /\ [Next]_vars => ExclusiveInv'
  BY ExclusiveNext
<1>2. ExclusiveInv => NeverDoubleProcessed
  BY DEF ExclusiveInv
<1>3. QED
  BY <1>1, <1>2, ExclusiveInit, PTL DEF SafeSpec
-----------------------------------------------------------------------------
(* One CAM per run *)

\* _finalize_lock excludes.
OneFinalizer ==
  \A v, w \in Workers : pc[v] \in Finalizing /\ pc[w] \in Finalizing => v = w

\* Before the call the run has no CAM; after it, the CAM is the one in hand.
HandoffAgrees ==
  \A w \in Workers :
     LET r == job[w].run IN
     /\ pc[w] = "deliver" => camId[r] = 0 /\ cams[r] = 0 /\ handoff.cam = 0
     /\ pc[w] = "settle" => camId[r] = 0 /\ cams[r] = handoff.cam /\ handoff.cam <= 1

\* Between hand-offs a run knows of every CAM created for it.
CamsAreRecorded ==
  \A r \in Runs : /\ camId[r] <= 1
                  /\ \/ cams[r] = camId[r]
                     \/ \E w \in Workers : pc[w] = "settle" /\ job[w].run = r

HandoverInv == TypeOK /\ OneFinalizer /\ HandoffAgrees /\ CamsAreRecorded

\* The steps in which no hand-off starts, goes on or ends.
LEMMA HandoverStep ==
  ASSUME HandoverInv, TypeOK',
         \A v \in Workers : pc'[v] \in Finalizing => pc[v] = pc'[v] \/ pc'[v] \in {"conclude", "notify"},
         \A v \in Workers : pc[v] = "settle" => pc'[v] = "settle" /\ job'[v] = job[v],
         \A v \in Workers : pc'[v] = "deliver" => pc[v] = "deliver" /\ job'[v] = job[v],
         OneFinalizer', UNCHANGED <<camId, cams, handoff>>
  PROVE  HandoverInv'
<1>1. \A v \in Workers : pc'[v] = "settle" => pc[v] = "settle" /\ job'[v] = job[v]
  BY DEF Finalizing
<1>2. HandoffAgrees'
  BY <1>1 DEF HandoverInv, HandoffAgrees
<1>3. CamsAreRecorded'
  BY DEF HandoverInv, CamsAreRecorded
<1>4. QED
  BY <1>2, <1>3 DEF HandoverInv

LEMMA HandoverInit == Init => HandoverInv
<1>1. Init => OneFinalizer /\ HandoffAgrees /\ CamsAreRecorded
  BY DEF Init, OneFinalizer, HandoffAgrees, CamsAreRecorded, Finalizing
<1>2. QED
  BY <1>1, InitType DEF HandoverInv

\* A step of one worker that neither enters nor leaves _maybe_finalize.
LEMMA HandoverElsewhere ==
  ASSUME HandoverInv, TypeOK', NEW w \in Workers,
         pc[w] \notin Finalizing, pc'[w] \notin Finalizing,
         \A v \in Workers \ {w} : pc'[v] = pc[v] /\ job'[v] = job[v],
         UNCHANGED <<camId, cams, handoff>>
  PROVE  HandoverInv'
<1>1. OneFinalizer'
  BY DEF HandoverInv, OneFinalizer
<1>2. \A v \in Workers : pc[v] \in Finalizing \/ pc'[v] \in Finalizing
         => pc'[v] = pc[v] /\ job'[v] = job[v]
  OBVIOUS
<1>3. QED
  BY <1>1, <1>2, HandoverStep DEF Finalizing

LEMMA HandoverDrafting ==
  ASSUME HandoverInv, TypeOK', NEW w \in Workers,
         \/ Claim(w) \/ ReadInputs(w) \/ DraftDone(w) \/ JobFailed(w)
         \/ ReconcileRead(w) \/ ReviseSection(w) \/ ReconcileDone(w)
         \/ AfterSection(w) \/ Push(w)
  PROVE  HandoverInv'
<1>1. pc[w] \notin Finalizing
  BY DEF Claim, ReadInputs, DraftDone, JobFailed, ReconcileRead, ReviseSection, ReconcileDone,
         AfterSection, Push, Finalizing, Executing
<1>2. pc'[w] \notin Finalizing
  BY <1>1 DEF Claim, ReadInputs, DraftDone, JobFailed, ReconcileRead, ReviseSection,
         ReconcileDone, AfterSection, Push, Finalizing, Goto, Release, HandoverInv, TypeOK
<1>3. \A v \in Workers \ {w} : pc'[v] = pc[v] /\ job'[v] = job[v]
  BY DEF Claim, ReadInputs, DraftDone, JobFailed, ReconcileRead, ReviseSection,
         ReconcileDone, AfterSection, Push, Goto, Release, HandoverInv, TypeOK
<1>4. UNCHANGED <<camId, cams, handoff>>
  BY DEF Claim, ReadInputs, DraftDone, JobFailed, ReconcileRead, ReviseSection,
         ReconcileDone, AfterSection, Push, dbVars, outVars
<1>5. QED
  BY <1>1, <1>2, <1>3, <1>4, HandoverElsewhere

LEMMA HandoverFinalize ==
  ASSUME HandoverInv, TypeOK', NEW w \in Workers, Finalize(w)
  PROVE  HandoverInv'
<1>1. /\ \A v \in Workers : pc[v] \notin Finalizing
      /\ UNCHANGED <<camId, cams>>
      /\ job[w].run \in Runs
  BY WorkersJob, JobFields DEF Finalize, FinalizeLocked, outVars, HandoverInv
<1>2. \A v \in Workers \ {w} : pc'[v] = pc[v] /\ job'[v] = job[v]
  BY DEF Finalize, NotLast, DeferToReconcile, SettleWithoutCam, PrepareHandoff, Goto, Release,
         HandoverInv, TypeOK
<1>3. OneFinalizer'
  BY <1>1, <1>2 DEF OneFinalizer
<1>4. CASE PrepareHandoff(w)
  <2>1. /\ pc'[w] = "deliver" /\ job' = job
        /\ camId[job[w].run] = 0
        /\ handoff'.cam = 0
    BY <1>4 DEF PrepareHandoff, Goto, HandoverInv, TypeOK
  <2>2. \A r \in Runs : cams[r] = camId[r] /\ camId[r] <= 1
    BY <1>1 DEF HandoverInv, CamsAreRecorded, Finalizing
  <2>3. HandoffAgrees'
    BY <1>1, <1>2, <2>1, <2>2 DEF HandoffAgrees, Finalizing
  <2>4. CamsAreRecorded'
    BY <1>1, <2>2 DEF CamsAreRecorded
  <2>5. QED
    BY <1>3, <2>3, <2>4 DEF HandoverInv
<1>5. CASE NotLast(w) \/ DeferToReconcile(w) \/ SettleWithoutCam(w)
  <2>1. pc'[w] \notin {"deliver", "settle"} /\ UNCHANGED handoff
    BY <1>5 DEF NotLast, DeferToReconcile, SettleWithoutCam, Goto, Release, HandoverInv, TypeOK
  <2>2. QED
    BY <1>1, <1>2, <1>3, <2>1, HandoverStep DEF Finalizing
<1>6. QED
  BY <1>4, <1>5 DEF Finalize

LEMMA HandoverDeliver ==
  ASSUME "reply_lost" \notin CamFaults,
         HandoverInv, TypeOK', NEW w \in Workers, Deliver(w)
  PROVE  HandoverInv'
<1> DEFINE r == job[w].run
<1>1. r \in Runs /\ pc[w] = "deliver" /\ camId[r] = 0 /\ cams[r] = 0 /\ handoff.cam = 0
  BY WorkersJob, JobFields DEF Deliver, HandoverInv, HandoffAgrees
<1>2. pc'[w] = "settle" /\ job' = job /\ camId' = camId
  BY DEF Deliver, Goto, dbVars, HandoverInv, TypeOK
<1>3. \A v \in Workers \ {w} : pc'[v] = pc[v] /\ pc[v] \notin Finalizing
  BY <1>1 DEF Deliver, Goto, HandoverInv, TypeOK, OneFinalizer, Finalizing
<1>4. cams'[r] = handoff'.cam /\ handoff'.cam \in {0, 1}
  BY <1>1 DEF Deliver, HandoverInv, TypeOK
<1>5. \A q \in Runs \ {r} : cams'[q] = cams[q]
  BY DEF Deliver, HandoverInv, TypeOK
<1>6. OneFinalizer'
  BY <1>3 DEF OneFinalizer
<1>7. HandoffAgrees'
  BY <1>1, <1>2, <1>3, <1>4 DEF HandoffAgrees, Finalizing
<1>8. CamsAreRecorded'
  <2>1. \A q \in Runs : cams[q] = camId[q]
    BY <1>1, <1>3 DEF HandoverInv, CamsAreRecorded, Finalizing
  <2>2. QED
    BY <1>2, <1>5, <2>1 DEF HandoverInv, CamsAreRecorded
<1>9. QED
  BY <1>6, <1>7, <1>8 DEF HandoverInv

LEMMA HandoverSettle ==
  ASSUME HandoverInv, TypeOK', NEW w \in Workers, Settle(w)
  PROVE  HandoverInv'
<1> DEFINE r == job[w].run
<1>1. r \in Runs /\ camId[r] = 0 /\ cams[r] = handoff.cam /\ handoff.cam <= 1
  BY WorkersJob, JobFields DEF Settle, HandoverInv, HandoffAgrees
<1>2. pc'[w] = "conclude" /\ job' = job /\ UNCHANGED <<cams, handoff>>
  BY DEF Settle, Goto, outVars, HandoverInv, TypeOK
<1>3. \A v \in Workers \ {w} : pc'[v] = pc[v] /\ pc[v] \notin Finalizing
  BY DEF Settle, Goto, HandoverInv, TypeOK, OneFinalizer, Finalizing
<1>4. camId'[r] = handoff.cam /\ \A q \in Runs \ {r} : camId'[q] = camId[q]
  BY <1>1 DEF Settle, RecordedCam, HandoverInv, TypeOK
<1>5. OneFinalizer' /\ HandoffAgrees'
  BY <1>2, <1>3 DEF OneFinalizer, HandoffAgrees, Finalizing
<1>6. CamsAreRecorded'
  <2>1. \A q \in Runs \ {r} : cams[q] = camId[q]
    BY <1>3 DEF HandoverInv, CamsAreRecorded, Finalizing
  <2>2. QED
    BY <1>1, <1>2, <1>4, <2>1 DEF HandoverInv, CamsAreRecorded
<1>7. QED
  BY <1>5, <1>6 DEF HandoverInv

LEMMA HandoverConclude ==
  ASSUME HandoverInv, TypeOK', NEW w \in Workers, Conclude(w) \/ Notify(w)
  PROVE  HandoverInv'
<1>1. pc[w] \in {"conclude", "notify"} /\ UNCHANGED <<camId, cams>>
  BY DEF Conclude, Notify, dbVars
<1>2. pc'[w] \notin {"deliver", "settle"}
  BY DEF Conclude, Notify, Goto, Release, HandoverInv, TypeOK
<1>3. \A v \in Workers \ {w} : pc'[v] = pc[v] /\ pc[v] \notin Finalizing
  BY <1>1 DEF Conclude, Notify, Goto, Release, HandoverInv, TypeOK, OneFinalizer, Finalizing
<1>4. OneFinalizer' /\ HandoffAgrees'
  BY <1>2, <1>3 DEF OneFinalizer, HandoffAgrees, Finalizing
<1>5. CamsAreRecorded'
  BY <1>1, <1>3 DEF HandoverInv, CamsAreRecorded, Finalizing
<1>6. QED
  BY <1>4, <1>5 DEF HandoverInv

LEMMA HandoverNext ==
  MaxCrashes = 0 /\ "reply_lost" \notin CamFaults /\ HandoverInv /\ [Next]_vars => HandoverInv'
<1> SUFFICES ASSUME MaxCrashes = 0, "reply_lost" \notin CamFaults, HandoverInv, [Next]_vars
             PROVE  HandoverInv'
  OBVIOUS
<1>1. TypeOK'
  BY NextType DEF HandoverInv
<1>2. ASSUME NEW w \in Workers, Claim(w) \/ WorkerStep(w) PROVE HandoverInv'
  BY <1>1, <1>2, HandoverDrafting, HandoverFinalize, HandoverDeliver, HandoverSettle,
     HandoverConclude DEF WorkerStep
<1>3. ASSUME NEW S \in SUBSET Expired, Reap(S) PROVE HandoverInv'
  <2>1. pc[WorkerZero] = "idle" /\ pc'[WorkerZero] \notin Finalizing
    BY <1>3 DEF Reap, Finalizing, PoolAssumption, HandoverInv, TypeOK
  <2>2. \A v \in Workers \ {WorkerZero} : pc'[v] = pc[v] /\ job'[v] = job[v]
    BY <1>3 DEF Reap, HandoverInv, TypeOK
  <2>3. UNCHANGED <<camId, cams, handoff>>
    BY <1>3 DEF Reap, outVars
  <2>4. QED
    BY <1>1, <2>1, <2>2, <2>3, HandoverElsewhere DEF PoolAssumption, Finalizing
<1>4. ASSUME NEW r \in Runs, Request(r) PROVE HandoverInv'
  <2>1. UNCHANGED <<pc, job, camId, cams, handoff>>
    BY <1>4 DEF Request, CreateRun, Announce, RetrySection, RegenerateSection, poolVars,
                dbVars, outVars
  <2>2. QED
    BY <1>1, <2>1 DEF HandoverInv, OneFinalizer, HandoffAgrees, CamsAreRecorded
<1>5. ~Crash
  BY DEF Crash, HandoverInv, TypeOK
<1>6. CASE Rest \/ UNCHANGED vars
  <2>1. UNCHANGED <<pc, job, camId, cams, handoff>>
    BY <1>6 DEF Rest, vars, dbVars, poolVars, outVars
  <2>2. QED
    BY <1>1, <2>1 DEF HandoverInv, OneFinalizer, HandoffAgrees, CamsAreRecorded
<1>7. QED
  BY <1>2, <1>3, <1>4, <1>5, <1>6 DEF Next

\* A run gets one CAM at most, however often its sections are retried and however
\* many workers try to settle it, as long as the service does not crash and the
\* reply to a hand-off is not lost (docstring of _maybe_finalize).
THEOREM OneCamPerRun ==
  MaxCrashes = 0 /\ "reply_lost" \notin CamFaults => (SafeSpec => []HandedOverOnce)
<1> SUFFICES ASSUME MaxCrashes = 0, "reply_lost" \notin CamFaults
             PROVE  SafeSpec => []HandedOverOnce
  OBVIOUS
<1>1. HandoverInv /\ [Next]_vars => HandoverInv'
  BY HandoverNext
<1>2. HandoverInv => HandedOverOnce
  <2> SUFFICES ASSUME HandoverInv, NEW r \in Runs PROVE cams[r] <= 1
    BY DEF HandedOverOnce
  <2>1. camId[r] \in Nat /\ camId[r] <= 1 /\ handoff.cam \in Nat
    BY DEF HandoverInv, TypeOK, CamsAreRecorded
  <2>2. CASE \E w \in Workers : pc[w] = "settle" /\ job[w].run = r
    BY <2>2 DEF HandoverInv, HandoffAgrees
  <2>3. CASE cams[r] = camId[r]
    BY <2>1, <2>3
  <2> QED
    BY <2>2, <2>3 DEF HandoverInv, CamsAreRecorded
<1>3. QED
  BY <1>1, <1>2, HandoverInit, PTL DEF SafeSpec
-----------------------------------------------------------------------------
(* Every CAM too many has its cause *)

ReplyLost == "reply_lost" \in CamFaults

\* What may have cost a run a second CAM: a crash between the hand-off and the
\* settlement, or a retry of a run whose CAM the queue never heard of.
Causes == crashes + (IF ReplyLost THEN retries ELSE 0)

\* The run is not handed over again until one more of them happens.
Spent(r) ==
  \/ camId[r] # 0
  \/ \E w \in Workers : pc[w] = "settle" /\ job[w].run = r /\ (handoff.cam # 0 \/ ReplyLost)
  \/ ReplyLost /\ runStatus[r] \in TerminalRun

\* No run has more CAMs than one and the causes for another.
ExtraCamsHaveCauses == \A r \in Runs : cams[r] <= 1 + Causes

\* A run about to be handed over has neither a CAM nor a final status.
DeliverIsOpen ==
  \A w \in Workers : pc[w] = "deliver" =>
     /\ camId[job[w].run] = 0
     /\ runStatus[job[w].run] \notin TerminalRun

CausesInv ==
  /\ TypeOK
  /\ OneFinalizer
  /\ DeliverIsOpen
  /\ ExtraCamsHaveCauses
  /\ \A r \in Runs : ~Spent(r) => cams[r] <= Causes

LEMMA CausesType == ASSUME TypeOK PROVE Causes \in Nat
BY DEF TypeOK, Causes

\* The steps that hand nothing over and give nobody a new chance to.
LEMMA CausesStep ==
  ASSUME CausesInv, TypeOK', OneFinalizer', DeliverIsOpen',
         UNCHANGED <<cams, crashes, retries>>,
         \A r \in Runs : Spent(r) => Spent(r)'
  PROVE  CausesInv'
<1>1. Causes' = Causes
  BY DEF Causes
<1>2. ExtraCamsHaveCauses'
  BY <1>1 DEF CausesInv, ExtraCamsHaveCauses
<1>3. \A r \in Runs : ~Spent(r)' => cams'[r] <= Causes'
  BY <1>1 DEF CausesInv
<1>4. QED
  BY <1>2, <1>3 DEF CausesInv

LEMMA CausesInit == Init => CausesInv
<1> SUFFICES ASSUME Init PROVE CausesInv
  OBVIOUS
<1>1. TypeOK /\ Causes = 0
  BY InitType DEF Init, Causes
<1>2. OneFinalizer /\ DeliverIsOpen
  BY DEF Init, OneFinalizer, DeliverIsOpen, Finalizing
<1>3. \A r \in Runs : cams[r] = 0
  BY DEF Init
<1>4. QED
  BY <1>1, <1>2, <1>3 DEF CausesInv, ExtraCamsHaveCauses

\* A step of one worker outside _maybe_finalize.
LEMMA CausesElsewhere ==
  ASSUME CausesInv, TypeOK', NEW w \in Workers,
         pc[w] \notin Finalizing, pc'[w] \notin Finalizing,
         \A v \in Workers \ {w} : pc'[v] = pc[v] /\ job'[v] = job[v],
         UNCHANGED <<camId, cams, handoff, crashes, retries>>,
         \A r \in Runs : runStatus'[r] \in TerminalRun <=> runStatus[r] \in TerminalRun
  PROVE  CausesInv'
<1>1. OneFinalizer'
  BY DEF CausesInv, OneFinalizer
<1>2. \A v \in Workers : pc'[v] = "deliver" => pc[v] = "deliver" /\ job'[v] = job[v]
                                               /\ job[v].run \in Runs
  BY WorkersJob, JobFields DEF Finalizing, CausesInv
<1>3. DeliverIsOpen'
  BY <1>2 DEF CausesInv, DeliverIsOpen
<1>4. \A v \in Workers : pc[v] = "settle" => pc'[v] = "settle" /\ job'[v] = job[v]
  BY DEF Finalizing
<1>5. \A r \in Runs : Spent(r) => Spent(r)'
  BY <1>4 DEF Spent
<1>6. QED
  BY <1>1, <1>3, <1>5, CausesStep

LEMMA CausesDrafting ==
  ASSUME CausesInv, TypeOK', NEW w \in Workers,
         \/ Claim(w) \/ ReadInputs(w) \/ DraftDone(w) \/ JobFailed(w)
         \/ ReconcileRead(w) \/ ReviseSection(w) \/ ReconcileDone(w)
         \/ AfterSection(w) \/ Push(w)
  PROVE  CausesInv'
<1>1. pc[w] \notin Finalizing
  BY DEF Claim, ReadInputs, DraftDone, JobFailed, ReconcileRead, ReviseSection, ReconcileDone,
         AfterSection, Push, Finalizing, Executing
<1>2. pc'[w] \notin Finalizing
  BY <1>1 DEF Claim, ReadInputs, DraftDone, JobFailed, ReconcileRead, ReviseSection,
         ReconcileDone, AfterSection, Push, Finalizing, Goto, Release, CausesInv, TypeOK
<1>3. \A v \in Workers \ {w} : pc'[v] = pc[v] /\ job'[v] = job[v]
  BY DEF Claim, ReadInputs, DraftDone, JobFailed, ReconcileRead, ReviseSection,
         ReconcileDone, AfterSection, Push, Goto, Release, CausesInv, TypeOK
<1>4. UNCHANGED <<camId, cams, handoff, crashes, retries>>
  BY DEF Claim, ReadInputs, DraftDone, JobFailed, ReconcileRead, ReviseSection, ReconcileDone,
         AfterSection, Push, dbVars, outVars
<1>5. \A r \in Runs : runStatus'[r] \in TerminalRun <=> runStatus[r] \in TerminalRun
  <2>1. CASE Claim(w)
    BY <2>1 DEF Claim, RunsIn, TerminalRun
  <2>2. CASE ~Claim(w)
    BY <2>2 DEF ReadInputs, DraftDone, JobFailed, ReconcileRead, ReviseSection, ReconcileDone,
                AfterSection, Push, dbVars
  <2> QED
    BY <2>1, <2>2
<1>6. QED
  BY <1>1, <1>2, <1>3, <1>4, <1>5, CausesElsewhere

LEMMA CausesFinalize ==
  ASSUME CausesInv, TypeOK', NEW w \in Workers, Finalize(w)
  PROVE  CausesInv'
<1>1. /\ \A v \in Workers : pc[v] \notin Finalizing
      /\ UNCHANGED <<camId, cams, crashes, retries>>
      /\ job[w].run \in Runs
  BY WorkersJob, JobFields DEF Finalize, FinalizeLocked, outVars, CausesInv
<1>2. \A v \in Workers \ {w} : pc'[v] = pc[v] /\ job'[v] = job[v]
  BY DEF Finalize, NotLast, DeferToReconcile, SettleWithoutCam, PrepareHandoff, Goto, Release,
         CausesInv, TypeOK
<1>3. OneFinalizer'
  BY <1>1, <1>2 DEF OneFinalizer
<1>4. DeliverIsOpen'
  <2>1. CASE PrepareHandoff(w)
    <3>1. job' = job /\ runStatus' = runStatus /\ camId[job[w].run] = 0
      BY <2>1 DEF PrepareHandoff, Goto
    <3>2. runStatus[job[w].run] \notin TerminalRun
      BY <2>1 DEF PrepareHandoff, Settleable, TerminalRun
    <3>3. QED
      BY <1>1, <1>2, <3>1, <3>2 DEF DeliverIsOpen, Finalizing
  <2>2. CASE NotLast(w) \/ DeferToReconcile(w) \/ SettleWithoutCam(w)
    <3>1. pc'[w] # "deliver"
      BY <2>2 DEF NotLast, DeferToReconcile, SettleWithoutCam, Goto, Release, CausesInv, TypeOK
    <3>2. QED
      BY <1>1, <1>2, <3>1 DEF DeliverIsOpen, Finalizing
  <2> QED
    BY <2>1, <2>2 DEF Finalize
<1>5. \A r \in Runs : runStatus[r] \in TerminalRun => runStatus'[r] \in TerminalRun
  <2>1. CASE SettleWithoutCam(w)
    BY <1>1, <2>1 DEF SettleWithoutCam, Verdict, TerminalRun, CausesInv, TypeOK
  <2>2. CASE ~SettleWithoutCam(w)
    BY <2>2 DEF Finalize, NotLast, DeferToReconcile, PrepareHandoff
  <2> QED
    BY <2>1, <2>2
<1>6. \A r \in Runs : Spent(r) => Spent(r)'
  BY <1>1, <1>5 DEF Spent, Finalizing
<1>7. QED
  BY <1>1, <1>3, <1>4, <1>6, CausesStep

LEMMA CausesDeliver ==
  ASSUME CausesInv, TypeOK', NEW w \in Workers, Deliver(w)
  PROVE  CausesInv'
<1>1. PICK r \in Runs : r = job[w].run
  BY WorkersJob, JobFields DEF Deliver, CausesInv
<1>2. /\ pc[w] = "deliver" /\ pc'[w] = "settle" /\ job' = job
      /\ camId' = camId /\ runStatus' = runStatus /\ Causes' = Causes
  BY DEF Deliver, Goto, dbVars, CausesInv, TypeOK, Causes
<1>3. \A v \in Workers \ {w} : pc'[v] = pc[v] /\ pc[v] \notin Finalizing
  BY <1>2 DEF Deliver, Goto, CausesInv, TypeOK, OneFinalizer, Finalizing
<1>4. OneFinalizer' /\ DeliverIsOpen'
  BY <1>2, <1>3 DEF OneFinalizer, DeliverIsOpen, Finalizing
<1>5. cams[r] <= Causes
  <2>1. ~Spent(r)
    BY <1>1, <1>2, <1>3 DEF Spent, CausesInv, DeliverIsOpen, Finalizing
  <2>2. QED
    BY <2>1 DEF CausesInv
<1>6. /\ \A q \in Runs \ {r} : cams'[q] = cams[q]
      /\ \/ cams'[r] = cams[r]
         \/ cams'[r] = cams[r] + 1 /\ (handoff'.cam # 0 \/ ReplyLost)
  BY <1>1 DEF Deliver, CausesInv, TypeOK, ReplyLost
<1>7. cams[r] \in Nat /\ Causes \in Nat
  BY CausesType DEF CausesInv, TypeOK
<1>8. ExtraCamsHaveCauses'
  <2>1. cams'[r] <= 1 + Causes
    BY <1>5, <1>6, <1>7
  <2>2. QED
    BY <1>2, <1>6, <2>1 DEF CausesInv, ExtraCamsHaveCauses
<1>9. ASSUME NEW q \in Runs, ~Spent(q)' PROVE cams'[q] <= Causes'
  <2>1. CASE q = r
    <3>1. ~(handoff'.cam # 0 \/ ReplyLost)
      BY <1>1, <1>2, <1>9, <2>1 DEF Spent
    <3>2. QED
      BY <1>2, <1>5, <1>6, <2>1, <3>1
  <2>2. CASE q # r
    <3>1. ~Spent(q)
      BY <1>1, <1>2, <1>3, <1>9, <2>2 DEF Spent, Finalizing
    <3>2. QED
      BY <1>2, <1>6, <2>2, <3>1 DEF CausesInv
  <2> QED
    BY <2>1, <2>2
<1>10. QED
  BY <1>4, <1>8, <1>9 DEF CausesInv

LEMMA CausesSettle ==
  ASSUME CausesInv, TypeOK', NEW w \in Workers, Settle(w)
  PROVE  CausesInv'
<1>1. PICK r \in Runs : r = job[w].run
  BY WorkersJob, JobFields DEF Settle, CausesInv
<1>2. /\ pc[w] = "settle" /\ pc'[w] = "conclude" /\ job' = job
      /\ UNCHANGED <<cams, handoff, crashes, retries>>
  BY DEF Settle, Goto, outVars, CausesInv, TypeOK
<1>3. \A v \in Workers \ {w} : pc'[v] = pc[v] /\ pc[v] \notin Finalizing
  BY <1>2 DEF Settle, Goto, CausesInv, TypeOK, OneFinalizer, Finalizing
<1>4. OneFinalizer' /\ DeliverIsOpen'
  BY <1>2, <1>3 DEF OneFinalizer, DeliverIsOpen, Finalizing
<1>5. handoff.verdict \in TerminalRun
  BY DEF CausesInv, TypeOK
<1>6. /\ runStatus'[r] \in TerminalRun
      /\ camId'[r] = IF handoff.cam # 0 THEN handoff.cam ELSE camId[r]
      /\ \A q \in Runs \ {r} : runStatus'[q] = runStatus[q] /\ camId'[q] = camId[q]
  BY <1>1, <1>5 DEF Settle, RecordedCam, CausesInv, TypeOK
<1>7. ASSUME NEW q \in Runs, Spent(q) PROVE Spent(q)'
  <2>1. CASE q = r
    <3>1. camId[r] # 0 \/ handoff.cam # 0 \/ ReplyLost
      BY <1>7, <2>1 DEF Spent
    <3>2. QED
      BY <1>6, <2>1, <3>1 DEF Spent
  <2>2. CASE q # r
    BY <1>1, <1>2, <1>3, <1>6, <1>7, <2>2 DEF Spent, Finalizing
  <2> QED
    BY <2>1, <2>2
<1>8. QED
  BY <1>2, <1>4, <1>7, CausesStep

LEMMA CausesConclude ==
  ASSUME CausesInv, TypeOK', NEW w \in Workers, Conclude(w) \/ Notify(w)
  PROVE  CausesInv'
<1>1. /\ pc[w] \in {"conclude", "notify"}
      /\ UNCHANGED <<runStatus, camId, cams, crashes, retries>>
  BY DEF Conclude, Notify, dbVars
<1>2. pc'[w] \notin {"deliver", "settle"}
  BY DEF Conclude, Notify, Goto, Release, CausesInv, TypeOK
<1>3. \A v \in Workers \ {w} : pc'[v] = pc[v] /\ pc[v] \notin Finalizing
  BY <1>1 DEF Conclude, Notify, Goto, Release, CausesInv, TypeOK, OneFinalizer, Finalizing
<1>4. OneFinalizer' /\ DeliverIsOpen'
  BY <1>2, <1>3 DEF OneFinalizer, DeliverIsOpen, Finalizing
<1>5. \A r \in Runs : Spent(r) => Spent(r)'
  BY <1>1, <1>3 DEF Spent, Finalizing
<1>6. QED
  BY <1>1, <1>4, <1>5, CausesStep

LEMMA CausesRetry ==
  ASSUME CausesInv, TypeOK', NEW r \in Runs, NEW c \in Codes, RetrySection(r, c)
  PROVE  CausesInv'
<1>1. UNCHANGED <<pc, job, handoff, camId, cams, crashes>> /\ retries' = retries + 1
  BY DEF RetrySection, poolVars, outVars
<1>2. \A q \in Runs : runStatus'[q] \in TerminalRun => runStatus[q] \in TerminalRun
  BY DEF RetrySection, TerminalRun, CausesInv, TypeOK
<1>3. OneFinalizer' /\ DeliverIsOpen'
  <2>1. \A v \in Workers : pc[v] = "deliver" => job[v].run \in Runs
    BY WorkersJob, JobFields DEF CausesInv
  <2>2. QED
    BY <1>1, <1>2, <2>1 DEF CausesInv, OneFinalizer, DeliverIsOpen
<1>4. Causes' = IF ReplyLost THEN Causes + 1 ELSE Causes
  BY <1>1 DEF Causes, CausesInv, TypeOK
<1>5. \A q \in Runs : cams[q] \in Nat /\ Causes \in Nat /\ cams[q] <= 1 + Causes
  BY CausesType DEF CausesInv, ExtraCamsHaveCauses, TypeOK
<1>6. ExtraCamsHaveCauses'
  BY <1>1, <1>4, <1>5 DEF ExtraCamsHaveCauses
<1>7. ASSUME NEW q \in Runs, ~Spent(q)' PROVE cams'[q] <= Causes'
  <2>1. CASE ReplyLost
    BY <1>1, <1>4, <1>5, <2>1
  <2>2. CASE ~ReplyLost
    <3>1. ~Spent(q)
      BY <1>1, <1>7, <2>2 DEF Spent
    <3>2. QED
      BY <1>1, <1>4, <2>2, <3>1 DEF CausesInv
  <2> QED
    BY <2>1, <2>2
<1>8. QED
  BY <1>3, <1>6, <1>7 DEF CausesInv

LEMMA CausesCrash ==
  ASSUME CausesInv, TypeOK', Crash
  PROVE  CausesInv'
<1>1. \A w \in Workers : pc'[w] = "idle"
  BY DEF Crash
<1>2. OneFinalizer' /\ DeliverIsOpen'
  BY <1>1 DEF OneFinalizer, DeliverIsOpen, Finalizing
<1>3. cams' = cams /\ Causes' = Causes + 1
  BY DEF Crash, Causes, CausesInv, TypeOK
<1>4. \A r \in Runs : cams[r] \in Nat /\ Causes \in Nat /\ cams[r] <= 1 + Causes
  BY CausesType DEF CausesInv, ExtraCamsHaveCauses, TypeOK
<1>5. QED
  BY <1>2, <1>3, <1>4 DEF CausesInv, ExtraCamsHaveCauses

LEMMA CausesNext == CausesInv /\ [Next]_vars => CausesInv'
<1> SUFFICES ASSUME CausesInv, [Next]_vars PROVE CausesInv'
  OBVIOUS
<1>1. TypeOK'
  BY NextType DEF CausesInv
<1>2. ASSUME NEW w \in Workers, Claim(w) \/ WorkerStep(w) PROVE CausesInv'
  BY <1>1, <1>2, CausesDrafting, CausesFinalize, CausesDeliver, CausesSettle,
     CausesConclude DEF WorkerStep
<1>3. ASSUME NEW S \in SUBSET Expired, Reap(S) PROVE CausesInv'
  <2>1. pc[WorkerZero] = "idle" /\ pc'[WorkerZero] \notin Finalizing
    BY <1>3 DEF Reap, Finalizing, PoolAssumption, CausesInv, TypeOK
  <2>2. \A v \in Workers \ {WorkerZero} : pc'[v] = pc[v] /\ job'[v] = job[v]
    BY <1>3 DEF Reap, CausesInv, TypeOK
  <2>3. UNCHANGED <<runStatus, camId, cams, handoff, crashes, retries>>
    BY <1>3 DEF Reap, outVars
  <2>4. QED
    BY <1>1, <2>1, <2>2, <2>3, CausesElsewhere DEF PoolAssumption, Finalizing
<1>4. ASSUME NEW r \in Runs, CreateRun(r) PROVE CausesInv'
  <2>1. UNCHANGED <<pc, job, handoff, camId, cams, crashes, retries>>
    BY <1>4 DEF CreateRun, poolVars
  <2>2. \A q \in Runs : runStatus'[q] \in TerminalRun <=> runStatus[q] \in TerminalRun
    BY <1>4 DEF CreateRun, TerminalRun, CausesInv, TypeOK
  <2>3. \A v \in Workers : pc[v] = "deliver" => job[v].run \in Runs
    BY WorkersJob, JobFields DEF CausesInv
  <2>4. OneFinalizer' /\ DeliverIsOpen'
    BY <2>1, <2>2, <2>3 DEF CausesInv, OneFinalizer, DeliverIsOpen
  <2>5. \A q \in Runs : Spent(q) => Spent(q)'
    BY <2>1, <2>2 DEF Spent
  <2>6. QED
    BY <1>1, <2>1, <2>4, <2>5, CausesStep
<1>5. ASSUME NEW r \in Runs, NEW c \in Codes, RetrySection(r, c) PROVE CausesInv'
  BY <1>1, <1>5, CausesRetry
<1>6. ASSUME UNCHANGED <<runStatus, pc, job, handoff, camId, cams, crashes, retries>>
      PROVE  CausesInv'
  <2>1. OneFinalizer' /\ DeliverIsOpen'
    BY <1>6 DEF CausesInv, OneFinalizer, DeliverIsOpen
  <2>2. \A q \in Runs : Spent(q) => Spent(q)'
    BY <1>6 DEF Spent
  <2>3. QED
    BY <1>1, <1>6, <2>1, <2>2, CausesStep
<1>7. ASSUME NEW r \in Runs, Request(r) PROVE CausesInv'
  <2>1. CASE Announce(r)
    BY <1>6, <2>1 DEF Announce, dbVars, poolVars
  <2>2. ASSUME NEW c \in Regenerable, RegenerateSection(r, c) PROVE CausesInv'
    BY <1>6, <2>2 DEF RegenerateSection, poolVars, outVars
  <2> QED
    BY <1>4, <1>5, <1>7, <2>1, <2>2 DEF Request
<1>8. CASE Crash
  BY <1>1, <1>8, CausesCrash
<1>9. CASE Rest \/ UNCHANGED vars
  BY <1>6, <1>9 DEF Rest, vars, dbVars, poolVars, outVars
<1>10. QED
  BY <1>2, <1>3, <1>7, <1>8, <1>9 DEF Next

\* A run has at most one CAM more than there were crashes, and, where the reply
\* to a hand-off can be lost, retries: no interleaving of finalisers, reaped
\* claims and refused hand-offs makes another.  With no proviso.
THEOREM TwoCamsTakeACause == SafeSpec => []ExtraCamsHaveCauses
<1>1. CausesInv /\ [Next]_vars => CausesInv'
  BY CausesNext
<1>2. CausesInv => ExtraCamsHaveCauses
  BY DEF CausesInv
<1>3. QED
  BY <1>1, <1>2, CausesInit, PTL DEF SafeSpec
-----------------------------------------------------------------------------
(* Admission *)

\* Of finitely many runs one was submitted last.
LEMMA LastArrival ==
  ASSUME TypeOK, NEW A \in SUBSET Runs, A # {}
  PROVE  \E r \in A : \A q \in A : arrival[q] <= arrival[r]
<1> DEFINE Later(r) == {q \in A : arrival[q] > arrival[r]}
           Laters == {Later(r) : r \in A}
<1>1. IsFiniteSet(A)
  BY FS_Subset DEF RunsAssumption
<1>2. Laters \subseteq FiniteSubsetsOf(A) /\ Laters # {}
  <2>1. \A T \in SUBSET A : T \in FiniteSubsetsOf(A)
    BY <1>1, FS_Subset DEF FiniteSubsetsOf
  <2> QED
    BY <2>1
<1>3. PICK least \in Laters : \A other \in Laters : <<other, least>> \notin StrictSubsetOrdering(A)
  <2>1. IsWellFoundedOn(StrictSubsetOrdering(A), FiniteSubsetsOf(A))
    BY FS_StrictSubsetOrderingWellFounded
  <2> HIDE DEF Laters
  <2> QED
    BY <1>2, <2>1, WFMin
<1>4. PICK r \in A : least = Later(r)
  BY <1>3
<1>5. \A q \in A : arrival[q] \in Nat
  BY DEF TypeOK
<1>6. ASSUME NEW q \in A, arrival[q] > arrival[r]
      PROVE  FALSE
  <2>1. Later(q) \subseteq Later(r)
    BY <1>5, <1>6
  <2>2. q \in Later(r) /\ q \notin Later(q)
    BY <1>5, <1>6
  <2>3. <<Later(q), Later(r)>> \in StrictSubsetOrdering(A)
    BY <2>1, <2>2 DEF StrictSubsetOrdering
  <2>4. Later(q) \in Laters
    OBVIOUS
  <2> QED
    BY <1>3, <1>4, <2>3, <2>4
<1> QED
  BY <1>5, <1>6

\* ... and one first.
LEMMA FirstArrival ==
  ASSUME TypeOK, NEW A \in SUBSET Runs, A # {}
  PROVE  \E r \in A : \A q \in A : arrival[r] <= arrival[q]
<1> DEFINE Earlier(r) == {q \in A : arrival[q] < arrival[r]}
           Earliers == {Earlier(r) : r \in A}
<1>1. IsFiniteSet(A)
  BY FS_Subset DEF RunsAssumption
<1>2. Earliers \subseteq FiniteSubsetsOf(A) /\ Earliers # {}
  <2>1. \A T \in SUBSET A : T \in FiniteSubsetsOf(A)
    BY <1>1, FS_Subset DEF FiniteSubsetsOf
  <2> QED
    BY <2>1
<1>3. PICK least \in Earliers : \A other \in Earliers : <<other, least>> \notin StrictSubsetOrdering(A)
  <2>1. IsWellFoundedOn(StrictSubsetOrdering(A), FiniteSubsetsOf(A))
    BY FS_StrictSubsetOrderingWellFounded
  <2> HIDE DEF Earliers
  <2> QED
    BY <1>2, <2>1, WFMin
<1>4. PICK r \in A : least = Earlier(r)
  BY <1>3
<1>5. \A q \in A : arrival[q] \in Nat
  BY DEF TypeOK
<1>6. ASSUME NEW q \in A, arrival[q] < arrival[r]
      PROVE  FALSE
  <2>1. Earlier(q) \subseteq Earlier(r)
    BY <1>5, <1>6
  <2>2. q \in Earlier(r) /\ q \notin Earlier(q)
    BY <1>5, <1>6
  <2>3. <<Earlier(q), Earlier(r)>> \in StrictSubsetOrdering(A)
    BY <2>1, <2>2 DEF StrictSubsetOrdering
  <2>4. Earlier(q) \in Earliers
    OBVIOUS
  <2> QED
    BY <1>3, <1>4, <2>3, <2>4
<1> QED
  BY <1>5, <1>6

\* No two runs were submitted at the same place, and the next place is free.
ArrivalsAreOnce ==
  /\ \A r \in Runs : /\ runStatus[r] = "none" => arrival[r] = 0
                     /\ runStatus[r] = "queued" => arrival[r] > 0
                     /\ arrival[r] <= Cardinality({q \in Runs : arrival[q] > 0})
  /\ \A q, r \in Runs : arrival[q] = arrival[r] /\ arrival[q] > 0 => q = r

\* what the pass of _admit_pending_runs reads, and the caps
ArrivalInv   == TypeOK /\ ArrivalsAreOnce
AdmissionInv == ArrivalInv /\ RunningCapRespected /\ UserCapRespected

\* Whoever is admitted last among some of the runs that are admitted was still
\* within the limits, and with it nobody else of them is missing.
LEMMA LastOneFits ==
  ASSUME ArrivalInv, NEW A \in SUBSET RunsIn("queued"), IsAdmission(A),
         NEW B \in SUBSET A, B # {}
  PROVE  \E r \in B :
            /\ B \subseteq Ahead(A, r) \cup {r}
            /\ Cardinality(RunsIn("running") \cup Ahead(A, r)) < MaxConcurrentRuns
            /\ Cardinality(OwnedLike(RunsIn("running") \cup Ahead(A, r), r))
                 < MaxActiveRunsPerUser
<1>1. PICK r \in B : \A q \in B : arrival[q] <= arrival[r]
  BY LastArrival DEF RunsIn, ArrivalInv
<1>2. B \subseteq Ahead(A, r) \cup {r}
  <2> SUFFICES ASSUME NEW q \in B, q # r PROVE arrival[q] < arrival[r]
    BY DEF Ahead
  <2>1. q \in Runs /\ r \in Runs /\ runStatus[q] = "queued"
    BY DEF RunsIn
  <2>2. arrival[q] # arrival[r] /\ arrival[q] \in Nat /\ arrival[r] \in Nat
    BY <2>1 DEF ArrivalInv, ArrivalsAreOnce, TypeOK
  <2> QED
    BY <1>1, <2>2
<1> QED
  BY <1>1, <1>2 DEF IsAdmission

LEMMA OneMore ==
  ASSUME NEW S \in SUBSET Runs, NEW T \in SUBSET Runs, NEW r \in Runs, NEW n \in Nat,
         T \subseteq S \cup {r}, Cardinality(S) < n
  PROVE  Cardinality(T) <= n
<1>1. IsFiniteSet(S)
  BY FS_Subset DEF RunsAssumption
<1>2. IsFiniteSet(S \cup {r}) /\ Cardinality(S \cup {r}) <= Cardinality(S) + 1
  BY <1>1, FS_AddElement, FS_CardinalityType
<1>3. Cardinality(T) <= Cardinality(S \cup {r})
  BY <1>2, FS_Subset
<1>4. Cardinality(S) \in Nat /\ Cardinality(S \cup {r}) \in Nat /\ Cardinality(T) \in Nat
  BY CountIsNat
<1> QED
  BY <1>2, <1>3, <1>4

LEMMA FewerRuns ==
  ASSUME NEW S \in SUBSET Runs, NEW T \in SUBSET S
  PROVE  Cardinality(T) <= Cardinality(S)
BY FS_Subset DEF RunsAssumption

\* The pass fills what is free and no more, also when more is running already: then it
\* admits nobody.
LEMMA AdmittedFit ==
  ASSUME ArrivalInv, NEW A \in SUBSET RunsIn("queued"), IsAdmission(A), NEW r \in A
  PROVE  /\ Cardinality(RunsIn("running") \cup A) <= MaxConcurrentRuns
         /\ Cardinality(OwnedLike(RunsIn("running") \cup A, r)) <= MaxActiveRunsPerUser
<1> DEFINE running == RunsIn("running")
           active == running \cup A
           own == OwnedLike(A, r)
<1>1. A \subseteq Runs /\ running \subseteq Runs
  BY DEF RunsIn
<1>2. Cardinality(active) <= MaxConcurrentRuns
  <2>1. PICK s \in A : /\ A \subseteq Ahead(A, s) \cup {s}
                       /\ Cardinality(running \cup Ahead(A, s)) < MaxConcurrentRuns
    BY LastOneFits
  <2>2. active \subseteq (running \cup Ahead(A, s)) \cup {s}
    BY <2>1
  <2> QED
    BY <1>1, <2>1, <2>2, OneMore DEF LimitsAssumption, Ahead
<1>3. Cardinality(OwnedLike(active, r)) <= MaxActiveRunsPerUser
  <2>1. PICK s \in own :
             /\ own \subseteq Ahead(A, s) \cup {s}
             /\ Cardinality(OwnedLike(running \cup Ahead(A, s), s)) < MaxActiveRunsPerUser
    <3>1. own \in SUBSET A /\ own # {}
      BY DEF OwnedLike
    <3> QED
      BY <3>1, LastOneFits
  <2>2. OwnedLike(active, r) \subseteq OwnedLike(running \cup Ahead(A, s), s) \cup {s}
    BY <2>1 DEF OwnedLike
  <2>3. s \in Runs /\ OwnedLike(active, r) \subseteq Runs
        /\ OwnedLike(running \cup Ahead(A, s), s) \subseteq Runs
    BY <1>1, <2>1 DEF OwnedLike, Ahead
  <2> DEFINE T == OwnedLike(active, r)
             U == OwnedLike(running \cup Ahead(A, s), s)
  <2>4. T \in SUBSET Runs /\ U \in SUBSET Runs /\ T \subseteq U \cup {s}
        /\ Cardinality(U) < MaxActiveRunsPerUser
    BY <2>1, <2>2, <2>3
  <2> HIDE DEF T, U
  <2>5. Cardinality(T) <= MaxActiveRunsPerUser
    BY <2>3, <2>4, OneMore DEF LimitsAssumption
  <2> QED
    BY <2>5 DEF T
<1> QED
  BY <1>2, <1>3

LEMMA ArrivalInit == Init => ArrivalInv
<1> SUFFICES ASSUME Init PROVE ArrivalsAreOnce
  BY InitType DEF ArrivalInv
<1>1. \A r \in Runs : runStatus[r] = "none" /\ arrival[r] = 0
  BY DEF Init
<1>2. Cardinality({q \in Runs : arrival[q] > 0}) \in Nat
  BY CountIsNat
<1> QED
  BY <1>1, <1>2 DEF ArrivalsAreOnce

LEMMA AdmissionInit == Init => AdmissionInv
<1> SUFFICES ASSUME Init PROVE AdmissionInv
  OBVIOUS
<1>1. RunsIn("running") = {}
  BY DEF Init, RunsIn
<1>2. RunningCapRespected /\ UserCapRespected
  BY <1>1, FS_EmptySet DEF RunningCapRespected, UserCapRespected, LimitsAssumption
<1> QED
  BY <1>2, ArrivalInit DEF AdmissionInv

\* No run is admitted or reopened in this step.
LEMMA AdmissionStep ==
  ASSUME AdmissionInv, ArrivalInv', RunsIn("running")' \subseteq RunsIn("running")
  PROVE  AdmissionInv'
<1>1. RunsIn("running") \subseteq Runs
  BY DEF RunsIn
<1>2. RunningCapRespected'
  <2>1. Cardinality(RunsIn("running")') <= Cardinality(RunsIn("running"))
    BY <1>1, FewerRuns
  <2>2. Cardinality(RunsIn("running")') \in Nat /\ Cardinality(RunsIn("running")) \in Nat
    BY <1>1, CountIsNat
  <2> QED
    BY <2>1, <2>2 DEF AdmissionInv, RunningCapRespected, LimitsAssumption
<1>3. UserCapRespected'
  <2> SUFFICES ASSUME NEW r \in RunsIn("running")'
               PROVE  Cardinality(OwnedLike(RunsIn("running")', r)) <= MaxActiveRunsPerUser
    BY DEF UserCapRespected, OwnedLike
  <2> DEFINE now == OwnedLike(RunsIn("running")', r)
             before == OwnedLike(RunsIn("running"), r)
  <2>1. now \subseteq before /\ before \subseteq Runs /\ r \in RunsIn("running")
    BY <1>1 DEF OwnedLike
  <2>2. Cardinality(now) <= Cardinality(before)
    BY <2>1, FewerRuns
  <2>3. Cardinality(now) \in Nat /\ Cardinality(before) \in Nat
    BY <2>1, CountIsNat
  <2>4. Cardinality(before) <= MaxActiveRunsPerUser
    BY <2>1 DEF AdmissionInv, UserCapRespected
  <2> QED
    BY <2>2, <2>3, <2>4 DEF LimitsAssumption
<1> QED
  BY <1>2, <1>3 DEF AdmissionInv

\* the runs that a claim admits
LEMMA ClaimAdmits ==
  ASSUME TypeOK, NEW w \in Workers, Claim(w)
  PROVE  \E A \in SUBSET RunsIn("queued") :
            /\ IsAdmission(A)
            /\ runStatus' = [r \in Runs |-> IF r \in A THEN "running" ELSE runStatus[r]]
            /\ RunsIn("running")' = RunsIn("running") \cup A
<1>1. PICK A \in SUBSET RunsIn("queued") :
           /\ IsAdmission(A)
           /\ runStatus' = [r \in Runs |-> IF r \in A THEN "running" ELSE runStatus[r]]
  BY DEF Claim
<1>2. RunsIn("running")' = RunsIn("running") \cup A
  BY <1>1 DEF RunsIn, TypeOK
<1> QED
  BY <1>1, <1>2

LEMMA AdmissionClaim ==
  ASSUME AdmissionInv, ArrivalInv', NEW w \in Workers, Claim(w)
  PROVE  AdmissionInv'
<1>1. PICK A \in SUBSET RunsIn("queued") :
           IsAdmission(A) /\ RunsIn("running")' = RunsIn("running") \cup A
  BY ClaimAdmits DEF AdmissionInv, ArrivalInv
<1>2. CASE A = {}
  BY <1>1, <1>2, AdmissionStep
<1>3. CASE A # {}
  <2>1. RunningCapRespected'
    BY <1>1, <1>3, AdmittedFit DEF RunningCapRespected, AdmissionInv
  <2>2. ASSUME NEW r \in RunsIn("running")'
        PROVE  Cardinality(OwnedLike(RunsIn("running")', r)) <= MaxActiveRunsPerUser
    <3>1. CASE \E q \in A : Owner[q] = Owner[r]
      <4>1. PICK q \in A : Owner[q] = Owner[r]
        BY <3>1
      <4>2. OwnedLike(RunsIn("running")', r) = OwnedLike(RunsIn("running") \cup A, q)
        BY <1>1, <4>1 DEF OwnedLike
      <4> QED
        BY <1>1, <4>2, AdmittedFit DEF AdmissionInv
    <3>2. CASE \A q \in A : Owner[q] # Owner[r]
      <4>1. r \in RunsIn("running")
            /\ OwnedLike(RunsIn("running")', r) = OwnedLike(RunsIn("running"), r)
        BY <1>1, <3>2 DEF OwnedLike
      <4> QED
        BY <4>1 DEF AdmissionInv, UserCapRespected
    <3> QED
      BY <3>1, <3>2
  <2> QED
    BY <2>1, <2>2 DEF AdmissionInv, UserCapRespected, OwnedLike
<1> QED
  BY <1>2, <1>3

LEMMA ArrivalCreate ==
  ASSUME ArrivalInv, TypeOK', NEW r \in Runs, CreateRun(r)
  PROVE  ArrivalInv'
<1> DEFINE placed == {q \in Runs : arrival[q] > 0}
           n == Cardinality(placed)
<1>1. /\ runStatus[r] = "none" /\ arrival[r] = 0
      /\ runStatus' = [runStatus EXCEPT ![r] = "queued"]
      /\ arrival' = [arrival EXCEPT ![r] = 1 + n]
  BY DEF CreateRun, ArrivalInv, ArrivalsAreOnce
<1>2. n \in Nat /\ \A q \in Runs : arrival[q] \in Nat /\ arrival[q] <= n
  BY CountIsNat DEF ArrivalInv, ArrivalsAreOnce, TypeOK
<1>3. {q \in Runs : arrival'[q] > 0} = placed \cup {r} /\ r \notin placed
  <2>1. arrival \in [Runs -> Nat]
    BY DEF ArrivalInv, TypeOK
  <2> HIDE DEF n
  <2>2. \A q \in Runs : arrival'[q] > 0 <=> arrival[q] > 0 \/ q = r
    BY <1>1, <1>2, <2>1
  <2> QED
    BY <1>1, <2>2
<1>4. Cardinality({q \in Runs : arrival'[q] > 0}) = n + 1
  <2>1. IsFiniteSet(placed)
    BY FS_Subset DEF RunsAssumption
  <2>2. Cardinality(placed \cup {r}) = n + 1
    BY <1>3, <2>1, FS_AddElement
  <2> QED
    BY <1>3, <2>2
<1>5. ArrivalsAreOnce'
  <2>1. \A q \in Runs \ {r} : arrival'[q] = arrival[q] /\ runStatus'[q] = runStatus[q]
    BY <1>1 DEF ArrivalInv, TypeOK
  <2>2. arrival'[r] = n + 1 /\ runStatus'[r] = "queued"
    <3>1. arrival \in [Runs -> Nat] /\ runStatus \in [Runs -> RunStates]
      BY DEF ArrivalInv, TypeOK
    <3> HIDE DEF n, placed
    <3> QED
      BY <1>1, <1>2, <3>1
  <2> HIDE DEF n, placed
  <2>3. \A q \in Runs : /\ runStatus'[q] = "none" => arrival'[q] = 0
                        /\ runStatus'[q] = "queued" => arrival'[q] > 0
                        /\ arrival'[q] <= n + 1
    <3>1. \A q \in Runs : /\ runStatus[q] = "none" => arrival[q] = 0
                          /\ runStatus[q] = "queued" => arrival[q] > 0
      BY DEF ArrivalInv, ArrivalsAreOnce
    <3> QED
      BY <1>2, <2>1, <2>2, <3>1
  <2>4. \A p, q \in Runs : arrival'[p] = arrival'[q] /\ arrival'[p] > 0 => p = q
    BY <1>2, <2>1, <2>2 DEF ArrivalInv, ArrivalsAreOnce
  <2> QED
    BY <1>4, <2>3, <2>4 DEF ArrivalsAreOnce
<1> QED
  BY <1>5 DEF ArrivalInv

\* Which steps move the status of a run.
LEMMA StatusMoves ==
  ASSUME TypeOK, [Next]_vars, NEW r \in Runs, runStatus'[r] # runStatus[r]
  PROVE  \/ \E w \in Workers : Claim(w)
         \/ CreateRun(r)
         \/ \E c \in Codes : RetrySection(r, c)
         \/ \E w \in Workers : /\ (Finalize(w) /\ SettleWithoutCam(w)) \/ Settle(w)
                               /\ job[w].run = r
                               /\ runStatus'[r] \in TerminalRun
<1>1. ASSUME NEW w \in Workers, WorkerStep(w)
      PROVE  /\ (Finalize(w) /\ SettleWithoutCam(w)) \/ Settle(w)
             /\ job[w].run = r
             /\ runStatus'[r] \in TerminalRun
  <2>1. CASE Finalize(w)
    <3>1. SettleWithoutCam(w)
      BY <2>1 DEF Finalize, NotLast, DeferToReconcile, PrepareHandoff
    <3>2. /\ runStatus' = [runStatus EXCEPT ![job[w].run] = Verdict(job[w].run)]
          /\ Verdict(job[w].run) \in TerminalRun
      BY <3>1 DEF SettleWithoutCam, Verdict, TerminalRun
    <3> QED
      BY <2>1, <3>1, <3>2 DEF TypeOK
  <2>2. CASE Settle(w)
    BY <2>2 DEF Settle, TypeOK
  <2>3. ~(ReadInputs(w) \/ DraftDone(w) \/ JobFailed(w) \/ ReconcileRead(w) \/ ReviseSection(w)
            \/ ReconcileDone(w) \/ AfterSection(w) \/ Push(w) \/ Deliver(w) \/ Conclude(w)
            \/ Notify(w))
    BY DEF ReadInputs, DraftDone, JobFailed, ReconcileRead, ReviseSection, ReconcileDone,
           AfterSection, Push, Deliver, Conclude, Notify, dbVars
  <2> QED
    BY <1>1, <2>1, <2>2, <2>3 DEF WorkerStep
<1>2. ASSUME NEW q \in Runs, Request(q)
      PROVE  CreateRun(r) \/ \E c \in Codes : RetrySection(r, c)
  <2>1. CASE CreateRun(q)
    <3>1. q = r
      BY <2>1 DEF CreateRun, TypeOK
    <3> QED
      BY <2>1, <3>1
  <2>2. CASE \E c \in Codes : RetrySection(q, c)
    <3>1. PICK c \in Codes : RetrySection(q, c)
      BY <2>2
    <3>2. q = r
      BY <3>1 DEF RetrySection, TypeOK
    <3> QED
      BY <3>1, <3>2
  <2>3. ~Announce(q) /\ ~\E c \in Regenerable : RegenerateSection(q, c)
    BY DEF Announce, RegenerateSection, dbVars
  <2> QED
    BY <1>2, <2>1, <2>2, <2>3 DEF Request
<1>3. ~(\E S \in SUBSET Expired : Reap(S)) /\ ~Crash /\ ~Rest /\ ~UNCHANGED vars
  BY DEF Reap, Crash, Rest, vars, dbVars
<1> QED
  BY <1>1, <1>2, <1>3 DEF Next

LEMMA ArrivalMoves ==
  ASSUME [Next]_vars, arrival' # arrival
  PROVE  \E r \in Runs : CreateRun(r)
<1>1. ~(\E w \in Workers : Claim(w) \/ WorkerStep(w))
  BY DEF Claim, WorkerStep, ReadInputs, DraftDone, JobFailed, ReconcileRead, ReviseSection,
         ReconcileDone, AfterSection, Push, Finalize, Deliver, Settle, Conclude, Notify, dbVars
<1>2. ~(\E S \in SUBSET Expired : Reap(S)) /\ ~Crash /\ ~Rest /\ ~UNCHANGED vars
  BY DEF Reap, Crash, Rest, vars, dbVars
<1>3. \A r \in Runs : Request(r) => CreateRun(r)
  BY DEF Request, Announce, RetrySection, RegenerateSection, dbVars
<1> QED
  BY <1>1, <1>2, <1>3 DEF Next

LEMMA ArrivalNext == ArrivalInv /\ [Next]_vars => ArrivalInv'
<1> SUFFICES ASSUME ArrivalInv, [Next]_vars PROVE ArrivalInv'
  OBVIOUS
<1>1. TypeOK /\ TypeOK'
  BY NextType DEF ArrivalInv
<1>2. CASE \E r \in Runs : CreateRun(r)
  BY <1>1, <1>2, ArrivalCreate
<1>3. CASE ~(\E r \in Runs : CreateRun(r))
  <2>1. arrival' = arrival
    BY <1>3, ArrivalMoves
  <2>2. \A r \in Runs : runStatus'[r] = runStatus[r] \/ runStatus'[r] \notin {"none", "queued"}
    <3> SUFFICES ASSUME NEW r \in Runs, runStatus'[r] # runStatus[r]
                 PROVE  runStatus'[r] \notin {"none", "queued"}
      OBVIOUS
    <3>1. CASE \E w \in Workers : Claim(w)
      BY <1>1, <3>1, ClaimAdmits DEF TypeOK
    <3>2. CASE \E c \in Codes : RetrySection(r, c)
      BY <1>1, <3>2 DEF RetrySection, TypeOK
    <3>3. CASE runStatus'[r] \in TerminalRun
      BY <3>3 DEF TerminalRun
    <3> QED
      BY <1>1, <1>3, <3>1, <3>2, <3>3, StatusMoves
  <2> QED
    BY <1>1, <2>1, <2>2 DEF ArrivalInv, ArrivalsAreOnce
<1> QED
  BY <1>2, <1>3

LEMMA AdmissionNext == MaxRetries = 0 /\ AdmissionInv /\ [Next]_vars => AdmissionInv'
<1> SUFFICES ASSUME MaxRetries = 0, AdmissionInv, [Next]_vars PROVE AdmissionInv'
  OBVIOUS
<1>1. TypeOK /\ ArrivalInv'
  BY ArrivalNext DEF AdmissionInv, ArrivalInv
<1>2. CASE \E w \in Workers : Claim(w)
  BY <1>1, <1>2, AdmissionClaim
<1>3. CASE ~(\E w \in Workers : Claim(w))
  <2>1. ASSUME NEW r \in Runs, runStatus'[r] = "running" PROVE runStatus[r] = "running"
    <3>1. \A c \in Codes : ~RetrySection(r, c)
      BY <1>1 DEF RetrySection, TypeOK
    <3>2. CreateRun(r) => runStatus'[r] = "queued"
      BY <1>1 DEF CreateRun, TypeOK
    <3> QED
      BY <1>1, <1>3, <2>1, <3>1, <3>2, StatusMoves DEF TerminalRun
  <2>2. RunsIn("running")' \subseteq RunsIn("running")
    BY <2>1 DEF RunsIn
  <2> QED
    BY <1>1, <2>2, AdmissionStep
<1> QED
  BY <1>2, <1>3

\* No more runs generate at once than max_concurrent_runs, whatever the number of
\* workers that admit and of runs that settle, as long as no section is retried: a
\* retry puts its run back to running past the admission (_admit_pending_runs).
THEOREM RunningCapHolds == MaxRetries = 0 => (SafeSpec => []RunningCapRespected)
<1> SUFFICES ASSUME MaxRetries = 0 PROVE SafeSpec => []RunningCapRespected
  OBVIOUS
<1>1. AdmissionInv /\ [Next]_vars => AdmissionInv'
  BY AdmissionNext
<1>2. AdmissionInv => RunningCapRespected
  BY DEF AdmissionInv
<1> QED
  BY <1>1, <1>2, AdmissionInit, PTL DEF SafeSpec

\* On the same proviso nobody's runs take more slots than max_active_runs_per_user.
THEOREM UserCapHolds == MaxRetries = 0 => (SafeSpec => []UserCapRespected)
<1> SUFFICES ASSUME MaxRetries = 0 PROVE SafeSpec => []UserCapRespected
  OBVIOUS
<1>1. AdmissionInv /\ [Next]_vars => AdmissionInv'
  BY AdmissionNext
<1>2. AdmissionInv => UserCapRespected
  BY DEF AdmissionInv
<1> QED
  BY <1>1, <1>2, AdmissionInit, PTL DEF SafeSpec

\* Only a claim takes a run from the queue.
LEMMA LeavingIsClaiming ==
  ASSUME TypeOK, [Next]_vars, NEW r \in Runs,
         runStatus[r] = "queued", runStatus'[r] = "running"
  PROVE  \E w \in Workers : Claim(w)
<1>1. ~CreateRun(r)
  BY DEF CreateRun
<1>2. \A c \in Codes : ~RetrySection(r, c)
  BY DEF RetrySection, TypeOK
<1>3. runStatus'[r] # runStatus[r] /\ runStatus'[r] \notin TerminalRun
  BY DEF TerminalRun
<1> QED
  BY <1>1, <1>2, <1>3, StatusMoves

\* Admission keeps the caps, also while runs that were reopened by retries hold more than
\* their share: whenever a run leaves the queue, the runs that generate then are within
\* max_concurrent_runs, and those of its owner within max_active_runs_per_user.
AdmissionKeepsCaps ==
  [][\A r \in Runs : runStatus[r] = "queued" /\ runStatus'[r] = "running" =>
       /\ Cardinality(RunsIn("running")') <= MaxConcurrentRuns
       /\ Cardinality(OwnedLike(RunsIn("running")', r)) <= MaxActiveRunsPerUser]_vars

\* The caps hold at every admission, whatever was retried, lost in a crash or reaped before
\* (_admit_pending_runs).
THEOREM CapsHoldAtAdmission == SafeSpec => AdmissionKeepsCaps
<1> DEFINE Fits == \A r \in Runs : runStatus[r] = "queued" /\ runStatus'[r] = "running" =>
                     /\ Cardinality(RunsIn("running")') <= MaxConcurrentRuns
                     /\ Cardinality(OwnedLike(RunsIn("running")', r)) <= MaxActiveRunsPerUser
<1>1. ArrivalInv /\ [Next]_vars => [Fits]_vars
  <2> SUFFICES ASSUME ArrivalInv, [Next]_vars, NEW r \in Runs,
                      runStatus[r] = "queued", runStatus'[r] = "running"
               PROVE  /\ Cardinality(RunsIn("running")') <= MaxConcurrentRuns
                      /\ Cardinality(OwnedLike(RunsIn("running")', r)) <= MaxActiveRunsPerUser
    OBVIOUS
  <2>1. PICK w \in Workers : Claim(w)
    BY LeavingIsClaiming DEF ArrivalInv
  <2>2. PICK A \in SUBSET RunsIn("queued") :
             /\ IsAdmission(A)
             /\ runStatus' = [s \in Runs |-> IF s \in A THEN "running" ELSE runStatus[s]]
             /\ RunsIn("running")' = RunsIn("running") \cup A
    BY <2>1, ClaimAdmits DEF ArrivalInv
  <2>3. r \in A
    BY <2>2
  <2> QED
    BY <2>2, <2>3, AdmittedFit
<1> QED
  BY <1>1, ArrivalInit, ArrivalNext, PTL DEF SafeSpec, AdmissionKeepsCaps

\* A run is overtaken in the queue only if its owner then holds a full share of the
\* slots, whatever else is retried, lost or settled meanwhile (_admit_pending_runs).
THEOREM AdmittedInOrder == SafeSpec => FifoAdmission
<1> DEFINE Fair == \A q, r \in Runs :
                     (/\ runStatus[q] = "queued" /\ runStatus'[q] = "queued"
                      /\ runStatus[r] = "queued" /\ runStatus'[r] = "running"
                      /\ arrival[q] < arrival[r])
                       => Cardinality(OwnedLike(RunsIn("running")', q)) >= MaxActiveRunsPerUser
<1>1. TypeOK /\ [Next]_vars => [Fair]_vars
  <2> SUFFICES ASSUME TypeOK, [Next]_vars, NEW q \in Runs, NEW r \in Runs,
                      runStatus[q] = "queued", runStatus'[q] = "queued",
                      runStatus[r] = "queued", runStatus'[r] = "running",
                      arrival[q] < arrival[r]
               PROVE  Cardinality(OwnedLike(RunsIn("running")', q)) >= MaxActiveRunsPerUser
    OBVIOUS
  <2>1. PICK w \in Workers : Claim(w)
    BY LeavingIsClaiming
  <2>2. PICK A \in SUBSET RunsIn("queued") :
             /\ IsAdmission(A)
             /\ runStatus' = [s \in Runs |-> IF s \in A THEN "running" ELSE runStatus[s]]
    BY <2>1 DEF Claim
  <2>3. q \in RunsIn("queued") /\ q \notin A /\ r \in RunsIn("queued") /\ r \in A
    BY <2>2 DEF RunsIn
  <2> DEFINE before(s) == RunsIn("running") \cup Ahead(A, s)
  <2>4. before(q) \subseteq before(r) /\ before(r) \subseteq Runs /\ before(q) \subseteq Runs
    BY <2>2 DEF Ahead, RunsIn, TypeOK
  <2>5. Cardinality(before(r)) < MaxConcurrentRuns
    BY <2>2, <2>3 DEF IsAdmission
  <2>6. Cardinality(before(q)) < MaxConcurrentRuns
    <3>1. Cardinality(before(q)) <= Cardinality(before(r))
      BY <2>4, FewerRuns
    <3>2. Cardinality(before(q)) \in Nat /\ Cardinality(before(r)) \in Nat
      BY <2>4, CountIsNat
    <3> QED
      BY <2>5, <3>1, <3>2 DEF LimitsAssumption
  <2>7. ~(Cardinality(OwnedLike(before(q), q)) < MaxActiveRunsPerUser)
    BY <2>2, <2>3, <2>6 DEF IsAdmission
  <2>8. OwnedLike(before(q), q) \subseteq OwnedLike(RunsIn("running")', q)
        /\ OwnedLike(RunsIn("running")', q) \subseteq Runs
    BY <2>2 DEF OwnedLike, Ahead, RunsIn, TypeOK
  <2>9. Cardinality(OwnedLike(before(q), q)) <= Cardinality(OwnedLike(RunsIn("running")', q))
    BY <2>8, FewerRuns
  <2>10. /\ Cardinality(OwnedLike(before(q), q)) \in Nat
         /\ Cardinality(OwnedLike(RunsIn("running")', q)) \in Nat
    BY <2>8, CountIsNat
  <2> QED
    BY <2>7, <2>9, <2>10 DEF LimitsAssumption
<1> QED
  BY <1>1, InitType, NextType, PTL DEF SafeSpec, FifoAdmission
-----------------------------------------------------------------------------
(* Somebody always settles the run *)

Unsettled  == {r \in Runs : runStatus[r] \in {"queued", "running"}}
\* not a run all of whose sections were skipped when it was created
HasWork(r) == \E c \in Codes : status[Initial(r, c)] # "skipped"

\* A worker on its way to _maybe_finalize, or in it, for the run.
Tends(w, r) == /\ pc[w] \in {"after", "push", "finalize", "deliver", "settle"}
               /\ job[w].run = r /\ job[w].kind # "regeneration"
\* A job that the reaper gave up and has still to settle.
Listed(r)   == \E w \in Workers : \E j \in todo[w] : j.run = r /\ j.kind # "regeneration"
Tended(r)   == \/ status[ReconcileOf(r)] \in {"queued", "running"}
               \/ \E w \in Workers : Tends(w, r)
               \/ Listed(r)

\* Until the first crash a run that has nothing left to draft and is not settled is
\* in the hands of somebody who will come to settle it.
SettlementIsOwed ==
  crashes = 0 => \A r \in Unsettled : HasWork(r) => InFlight(r) \/ Tended(r)

PushesAreSections == \A w \in Workers : pc[w] = "push" => job[w].kind # "reconcile"
IdleHaveNoList    == \A w \in Workers : pc[w] = "idle" => todo[w] = {}
OwedInv == /\ TypeOK
           /\ PushesAreSections
           /\ IdleHaveNoList
           /\ SettlementIsOwed

SameRows(r) == /\ \A c \in Codes : status'[Initial(r, c)] = status[Initial(r, c)]
               /\ status'[ReconcileOf(r)] = status[ReconcileOf(r)]
Carried(r)  == /\ \A w \in Workers : Tends(w, r) => Tended(r)'
               /\ Listed(r) => Tended(r)'

LEMMA OwedStep ==
  ASSUME SettlementIsOwed, crashes' = crashes,
         \A r \in Unsettled' : \/ InFlight(r)' \/ Tended(r)' \/ ~HasWork(r)'
                               \/ SameRows(r) /\ Carried(r) /\ r \in Unsettled
  PROVE  SettlementIsOwed'
<1> SUFFICES ASSUME crashes = 0, NEW r \in Unsettled', HasWork(r)'
             PROVE  InFlight(r)' \/ Tended(r)'
  BY DEF SettlementIsOwed
<1>1. CASE SameRows(r) /\ Carried(r) /\ r \in Unsettled
  <2>1. HasWork(r) /\ InFlight(r)' = InFlight(r)
    BY <1>1 DEF HasWork, InFlight, SameRows, Initial
  <2>2. InFlight(r) \/ Tended(r)
    BY <1>1, <2>1 DEF SettlementIsOwed
  <2>3. status[ReconcileOf(r)] \in {"queued", "running"} => Tended(r)'
    BY <1>1 DEF SameRows, Tended, ReconcileOf
  <2> QED
    BY <1>1, <2>1, <2>2, <2>3 DEF Tended, Carried
<1> QED
  BY <1>1

\* A worker that lets its job go still settles what the reaper has listed.
LEMMA CarriedByRelease ==
  ASSUME TypeOK, NEW w \in Workers, Release(w), NEW r \in Runs, ~Tends(w, r)
  PROVE  Carried(r)
<1>1. ASSUME NEW v \in Workers, Tends(v, r)
      PROVE  Tended(r)'
  <2>1. v # w
    BY <1>1
  <2>2. pc'[v] = pc[v] /\ job'[v] = job[v]
    BY <2>1 DEF Release, TypeOK
  <2> QED
    BY <1>1, <2>2 DEF Tends, Tended
<1>2. ASSUME NEW v \in Workers, NEW j \in todo[v], j.run = r, j.kind # "regeneration"
      PROVE  Tended(r)'
  <2>1. CASE j \in todo'[v]
    BY <1>2, <2>1 DEF Tended, Listed
  <2>2. CASE j \notin todo'[v]
    <3>1. v = w /\ pc'[w] = "after" /\ job'[w] = j
      BY <1>2, <2>2 DEF Release, TypeOK
    <3> QED
      BY <1>2, <3>1 DEF Tended, Tends
  <2> QED
    BY <2>1, <2>2
<1> QED
  BY <1>1, <1>2 DEF Carried, Listed

LEMMA CarriedByGoto ==
  ASSUME TypeOK, NEW w \in Workers, NEW l \in Labels, Goto(w, l), NEW r \in Runs,
         Tends(w, r) => l \in {"after", "push", "finalize", "deliver", "settle"}
  PROVE  Carried(r)
<1>1. ASSUME NEW v \in Workers, Tends(v, r)
      PROVE  Tends(v, r)'
  BY <1>1 DEF Tends, Goto, TypeOK
<1> QED
  BY <1>1 DEF Carried, Tended, Listed, Goto

LEMMA OwedDrafting ==
  ASSUME OwedInv, NEW w \in Workers,
         ReadInputs(w) \/ ReconcileRead(w) \/ ReviseSection(w)
  PROVE  SettlementIsOwed'
<1>1. UNCHANGED <<runStatus, status, job, todo, crashes>>
  BY DEF ReadInputs, ReconcileRead, ReviseSection, dbVars
<1>2. \A v \in Workers, r \in Runs : Tends(v, r) => Tends(v, r)'
  BY DEF ReadInputs, ReconcileRead, ReviseSection, Tends, OwedInv, TypeOK
<1>3. \A r \in Runs : SameRows(r) /\ Carried(r)
  BY <1>1, <1>2 DEF SameRows, Carried, Tended, Listed
<1> QED
  BY <1>1, <1>3, OwedStep DEF OwedInv, Unsettled

LEMMA OwedOutcome ==
  ASSUME OwedInv, NEW w \in Workers, DraftDone(w) \/ JobFailed(w) \/ ReconcileDone(w)
  PROVE  SettlementIsOwed'
<1>1. PICK k \in Jobs : k = job[w]
  BY WorkersJob DEF DraftDone, JobFailed, ReconcileDone, Executing, OwedInv
<1>2. /\ pc[w] \in Executing /\ pc' = [pc EXCEPT ![w] = "after"]
      /\ \A j \in Jobs \ {k} : status'[j] = status[j]
      /\ UNCHANGED <<runStatus, job, todo, crashes>>
  BY <1>1 DEF DraftDone, JobFailed, ReconcileDone, Executing, OwedInv, TypeOK
<1>3. ASSUME NEW r \in Runs
      PROVE  Tended(r)' \/ (SameRows(r) /\ Carried(r))
  <2>1. CASE k.run = r /\ k.kind # "regeneration"
    BY <1>1, <1>2, <2>1 DEF Tended, Tends, OwedInv, TypeOK
  <2>2. CASE k.run # r \/ k.kind = "regeneration"
    <3>1. SameRows(r)
      BY <1>2, <2>2, RowsAreJobs DEF SameRows, Initial, ReconcileOf
    <3>2. \A v \in Workers : Tends(v, r) => Tends(v, r)'
      BY <1>2 DEF Tends, Executing, OwedInv, TypeOK
    <3> QED
      BY <1>2, <3>1, <3>2 DEF Carried, Tended, Listed
  <2> QED
    BY <2>1, <2>2
<1> QED
  BY <1>2, <1>3, OwedStep DEF OwedInv, Unsettled

LEMMA OwedAfter ==
  ASSUME OwedInv, NEW w \in Workers, AfterSection(w) \/ Push(w)
  PROVE  SettlementIsOwed'
<1>1. UNCHANGED <<runStatus, status, crashes>>
  BY DEF AfterSection, Push, dbVars
<1>2. job[w] \in Jobs
  BY WorkersJob DEF AfterSection, Push, OwedInv
<1>3. \/ Goto(w, "push") \/ Goto(w, "finalize")
      \/ Release(w) /\ job[w].kind = "regeneration"
  BY <1>2, JobFields DEF AfterSection, Push, SettlesItsRun, OwedInv, PushesAreSections
<1>4. \A r \in Runs : SameRows(r) /\ Carried(r)
  BY <1>1, <1>3, CarriedByRelease, CarriedByGoto DEF SameRows, Tends, Labels, OwedInv
<1> QED
  BY <1>1, <1>4, OwedStep DEF OwedInv, Unsettled

LEMMA OwedFinalize ==
  ASSUME OwedInv, NEW w \in Workers, Finalize(w)
  PROVE  SettlementIsOwed'
<1>1. PICK r \in Runs : r = job[w].run
  BY WorkersJob, JobFields DEF Finalize, OwedInv
<1>2. TypeOK /\ SettlementIsOwed /\ crashes' = crashes /\ pc[w] = "finalize"
  BY DEF Finalize, OwedInv
<1>3. \A q \in Runs \ {r} : ~Tends(w, q)
  BY <1>1 DEF Tends
<1>4. CASE NotLast(w)
  <2>1. UNCHANGED <<runStatus, status>> /\ Release(w)
    BY <1>4 DEF NotLast
  <2>2. r \in Unsettled' => InFlight(r)'
    BY <1>1, <1>4, <2>1 DEF NotLast, Settleable, Unsettled, InFlight
  <2>3. \A q \in Runs \ {r} : SameRows(q) /\ Carried(q)
    BY <1>2, <1>3, <2>1, CarriedByRelease DEF SameRows
  <2> QED
    BY <1>2, <2>1, <2>2, <2>3, OwedStep DEF Unsettled
<1>5. CASE DeferToReconcile(w)
  <2>1. runStatus' = runStatus /\ Release(w)
    BY <1>5 DEF DeferToReconcile
  <2>2. Tended(r)'
    <3>1. /\ status[ReconcileOf(r)] \in {"absent", "queued", "running"}
          /\ status' = [status EXCEPT ![ReconcileOf(r)] = IF @ = "absent" THEN "queued" ELSE @]
      BY <1>1, <1>2, <1>5, RowsAreJobs
      DEF DeferToReconcile, ReconcileDue, Terminal, TypeOK, JobStates
    <3>2. status'[ReconcileOf(r)] \in {"queued", "running"}
      BY <1>2, <3>1, RowsAreJobs DEF TypeOK
    <3> QED
      BY <3>2 DEF Tended, ReconcileOf
  <2>3. \A q \in Runs \ {r} : SameRows(q) /\ Carried(q)
    <3>1. \A j \in Jobs \ {ReconcileOf(r)} : status'[j] = status[j]
      BY <1>1, <1>2, <1>5 DEF DeferToReconcile, TypeOK
    <3>2. \A q \in Runs \ {r} : SameRows(q)
      BY <3>1, RowsAreJobs DEF SameRows, Initial, ReconcileOf
    <3> QED
      BY <1>2, <1>3, <2>1, <3>2, CarriedByRelease
  <2> QED
    BY <1>2, <2>1, <2>2, <2>3, OwedStep DEF Unsettled
<1>6. CASE SettleWithoutCam(w)
  <2>1. status' = status /\ runStatus' = [runStatus EXCEPT ![r] = Verdict(r)]
    BY <1>1, <1>6 DEF SettleWithoutCam
  <2>2. r \notin Unsettled'
    BY <1>2, <2>1, VerdictType DEF Unsettled, TerminalRun, TypeOK
  <2>3. \A q \in Runs \ {r} : runStatus'[q] = runStatus[q]
    BY <1>2, <2>1 DEF TypeOK
  <2>4. Goto(w, "conclude") \/ Release(w)
    BY <1>6 DEF SettleWithoutCam
  <2>5. \A q \in Runs \ {r} : SameRows(q) /\ Carried(q)
    BY <1>2, <1>3, <2>1, <2>4, CarriedByRelease, CarriedByGoto DEF SameRows, Labels, Finalizing
  <2> QED
    BY <1>2, <2>2, <2>3, <2>5, OwedStep DEF Unsettled
<1>7. CASE PrepareHandoff(w)
  <2>1. UNCHANGED <<runStatus, status>> /\ Goto(w, "deliver")
    BY <1>7 DEF PrepareHandoff
  <2>2. \A q \in Runs : SameRows(q) /\ Carried(q)
    BY <1>2, <2>1, CarriedByGoto DEF SameRows, Labels, Finalizing
  <2> QED
    BY <1>2, <2>1, <2>2, OwedStep DEF Unsettled
<1> QED
  BY <1>4, <1>5, <1>6, <1>7 DEF Finalize

LEMMA OwedHandoff ==
  ASSUME OwedInv, NEW w \in Workers, Deliver(w) \/ Settle(w) \/ Conclude(w) \/ Notify(w)
  PROVE  SettlementIsOwed'
<1>1. PICK r \in Runs : r = job[w].run
  BY WorkersJob, JobFields DEF Deliver, Settle, Conclude, Notify, OwedInv
<1>2. /\ TypeOK /\ SettlementIsOwed
      /\ UNCHANGED <<status, crashes>>
  BY DEF Deliver, Settle, Conclude, Notify, dbVars, OwedInv
<1>3. CASE Settle(w)
  <2>1. runStatus' = [runStatus EXCEPT ![r] = handoff.verdict] /\ Goto(w, "conclude")
    BY <1>1, <1>3 DEF Settle
  <2>2. r \notin Unsettled' /\ \A q \in Runs \ {r} : runStatus'[q] = runStatus[q]
    <3>1. handoff.verdict \in TerminalRun
      BY <1>2 DEF TypeOK
    <3> QED
      BY <1>2, <2>1, <3>1 DEF Unsettled, TerminalRun, TypeOK
  <2>3. \A q \in Runs \ {r} : SameRows(q) /\ Carried(q)
    BY <1>1, <1>2, <2>1, CarriedByGoto DEF SameRows, Tends, Labels, Finalizing
  <2> QED
    BY <1>2, <2>2, <2>3, OwedStep DEF Unsettled
<1>4. CASE Deliver(w) \/ Conclude(w) \/ Notify(w)
  <2>1. runStatus' = runStatus
    BY <1>4 DEF Deliver, Conclude, Notify, dbVars
  <2>2. \/ Goto(w, "settle")
        \/ pc[w] \in {"conclude", "notify"} /\ (Goto(w, "notify") \/ Release(w))
    BY <1>4 DEF Deliver, Conclude, Notify
  <2>3. \A q \in Runs : SameRows(q) /\ Carried(q)
    BY <1>2, <2>2, CarriedByGoto, CarriedByRelease DEF SameRows, Tends, Labels, Finalizing
  <2> QED
    BY <1>2, <2>1, <2>3, OwedStep DEF Unsettled
<1> QED
  BY <1>3, <1>4

LEMMA OwedClaim ==
  ASSUME OwedInv, TypeOK', NEW w \in Workers, Claim(w)
  PROVE  SettlementIsOwed'
<1>1. TypeOK /\ SettlementIsOwed /\ crashes' = crashes /\ pc[w] = "idle"
  BY DEF Claim, OwedInv
<1>2. Unsettled' = Unsettled
  <2>1. PICK A \in SUBSET RunsIn("queued") :
           runStatus' = [r \in Runs |-> IF r \in A THEN "running" ELSE runStatus[r]]
    BY DEF Claim
  <2> QED
    BY <2>1 DEF Unsettled, RunsIn
<1>3. \A j \in Jobs : status'[j] = status[j] \/ (status[j] = "queued" /\ status'[j] = "running")
  BY <1>1 DEF Claim, Ready, TypeOK
<1>4. ASSUME crashes = 0, NEW r \in Unsettled, HasWork(r)'
      PROVE  InFlight(r)' \/ Tended(r)'
  <2>1. r \in Runs /\ HasWork(r)
    BY <1>3, <1>4, RowsAreJobs DEF Unsettled, HasWork, Initial
  <2>2. InFlight(r) => InFlight(r)'
    BY <1>3, <2>1, RowsAreJobs DEF InFlight, Initial
  <2>3. status[ReconcileOf(r)] \in {"queued", "running"} => Tended(r)'
    BY <1>3, <2>1, RowsAreJobs DEF Tended, ReconcileOf
  <2>4. \A v \in Workers : Tends(v, r) => Tends(v, r)'
    <3>1. \A v \in Workers \ {w} : pc'[v] = pc[v] /\ job'[v] = job[v]
      BY <1>1 DEF Claim, TypeOK
    <3> QED
      BY <1>1, <3>1 DEF Tends
  <2>5. Listed(r) => Listed(r)'
    BY DEF Claim, Listed
  <2> QED
    BY <1>1, <1>4, <2>1, <2>2, <2>3, <2>4, <2>5 DEF SettlementIsOwed, Tended
<1> QED
  BY <1>1, <1>2, <1>4 DEF SettlementIsOwed

LEMMA OwedReap ==
  ASSUME OwedInv, NEW S \in SUBSET Expired, Reap(S)
  PROVE  SettlementIsOwed'
<1> DEFINE GivenUp == {j \in S : GivesUp(j)}
<1>1. /\ TypeOK /\ SettlementIsOwed
      /\ pc[WorkerZero] = "idle" /\ todo[WorkerZero] = {} /\ WorkerZero \in Workers
      /\ UNCHANGED <<runStatus, crashes>>
  BY DEF Reap, OwedInv, IdleHaveNoList, PoolAssumption
<1>2. \A j \in Jobs : IF j \in GivenUp THEN status'[j] = "failed"
                      ELSE status'[j] = status[j] \/ (status[j] = "running" /\ status'[j] = "queued")
  BY DEF Reap, Expired, Expirable
<1>3. GivenUp # {} => \E j \in GivenUp :
         /\ pc'[WorkerZero] = "after" /\ job'[WorkerZero] = j
         /\ todo'[WorkerZero] = GivenUp \ {j}
  BY <1>1 DEF Reap, TypeOK
<1>4. \A v \in Workers \ {WorkerZero} : UNCHANGED <<pc[v], job[v], todo[v]>>
  BY <1>1 DEF Reap, TypeOK
<1> HIDE DEF GivenUp
<1>5. ASSUME NEW r \in Runs, NEW k \in GivenUp, k.run = r, k.kind # "regeneration"
      PROVE  Tended(r)'
  BY <1>1, <1>3, <1>5 DEF Tended, Tends, Listed
<1>6. ASSUME NEW r \in Unsettled, HasWork(r)', crashes = 0,
             \A k \in GivenUp : k.run = r => k.kind = "regeneration"
      PROVE  InFlight(r)' \/ Tended(r)'
  <2>1. /\ r \in Runs
        /\ \A c \in Codes : Initial(r, c) \in Jobs \ GivenUp
        /\ ReconcileOf(r) \in Jobs \ GivenUp
    BY <1>6, RowsAreJobs DEF Unsettled, Initial, ReconcileOf
  <2>2. HasWork(r)
    BY <1>2, <1>6, <2>1 DEF HasWork, Initial
  <2>3. InFlight(r) => InFlight(r)'
    BY <1>2, <2>1 DEF InFlight, Initial
  <2>4. status[ReconcileOf(r)] \in {"queued", "running"} => Tended(r)'
    BY <1>2, <2>1 DEF Tended, ReconcileOf
  <2>5. \A v \in Workers : Tends(v, r) => Tends(v, r)'
    BY <1>1, <1>4 DEF Tends
  <2>6. Listed(r) => Listed(r)'
    BY <1>1, <1>4 DEF Listed
  <2> QED
    BY <1>1, <1>6, <2>2, <2>3, <2>4, <2>5, <2>6 DEF SettlementIsOwed, Tended
<1>7. Unsettled' = Unsettled
  BY <1>1 DEF Unsettled
<1> QED
  BY <1>1, <1>5, <1>6, <1>7 DEF SettlementIsOwed, Unsettled

LEMMA OwedRequest ==
  ASSUME OwedInv, NEW r \in Runs, Request(r)
  PROVE  SettlementIsOwed'
<1>1. /\ TypeOK /\ SettlementIsOwed
      /\ UNCHANGED <<pc, job, todo, crashes>>
  BY DEF Request, CreateRun, Announce, RetrySection, RegenerateSection, poolVars, OwedInv
<1>2. \A q \in Runs : SameRows(q) => Carried(q)
  BY <1>1 DEF Carried, Tended, Tends, Listed
<1>3. CASE CreateRun(r)
  <2>1. ASSUME HasWork(r)' PROVE InFlight(r)'
    <3>1. PICK c \in Codes : status'[Initial(r, c)] # "skipped"
      BY <2>1 DEF HasWork, Initial
    <3>2. Initial(r, c) \in InitialJobs /\ Initial(r, c) \in Jobs /\ Initial(r, c).run = r
      BY RowsAreJobs DEF Initial, InitialJobs
    <3>3. status'[Initial(r, c)] = "queued"
      BY <1>3, <3>1, <3>2 DEF CreateRun
    <3> QED
      BY <3>3 DEF InFlight, Initial
  <2>2. \A q \in Runs \ {r} : SameRows(q) /\ runStatus'[q] = runStatus[q]
    <3>1. \A j \in Jobs : j.run # r => status'[j] = status[j]
      BY <1>3 DEF CreateRun
    <3> QED
      BY <1>1, <1>3, <3>1, RowsAreJobs DEF CreateRun, SameRows, Initial, ReconcileOf, TypeOK
  <2> QED
    BY <1>1, <1>2, <2>1, <2>2, OwedStep DEF Unsettled
<1>4. CASE Announce(r)
  <2>1. UNCHANGED <<runStatus, status>>
    BY <1>4 DEF Announce, dbVars
  <2>2. \A q \in Runs : SameRows(q)
    BY <2>1 DEF SameRows
  <2> QED
    BY <1>1, <1>2, <2>1, <2>2, OwedStep DEF Unsettled
<1>5. ASSUME NEW c \in Codes, RetrySection(r, c) PROVE SettlementIsOwed'
  <2>1. status' = [status EXCEPT ![Initial(r, c)] = "queued"]
    BY <1>5 DEF RetrySection
  <2>2. InFlight(r)'
    <3>1. status'[Initial(r, c)] = "queued"
      BY <1>1, <2>1, RowsAreJobs DEF TypeOK
    <3> QED
      BY <3>1 DEF InFlight, Initial
  <2>3. \A q \in Runs \ {r} : SameRows(q) /\ runStatus'[q] = runStatus[q]
    <3>1. \A j \in Jobs : j.run # r => status'[j] = status[j]
      BY <1>1, <2>1 DEF Initial, TypeOK
    <3> QED
      BY <1>1, <1>5, <3>1, RowsAreJobs DEF RetrySection, SameRows, Initial, ReconcileOf, TypeOK
  <2> QED
    BY <1>1, <1>2, <2>2, <2>3, OwedStep DEF Unsettled
<1>6. ASSUME NEW c \in Regenerable, RegenerateSection(r, c) PROVE SettlementIsOwed'
  <2>1. runStatus' = runStatus /\ \A j \in Jobs \ {Regen(r, c)} : status'[j] = status[j]
    BY <1>1, <1>6 DEF RegenerateSection, TypeOK
  <2>2. \A q \in Runs : SameRows(q)
    BY <2>1, RowsAreJobs DEF SameRows, Initial, ReconcileOf, Regen
  <2> QED
    BY <1>1, <1>2, <2>1, <2>2, OwedStep DEF Unsettled
<1> QED
  BY <1>3, <1>4, <1>5, <1>6 DEF Request

\* What a worker is about to push is a section, and who is idle has listed nothing.
LEMMA ListsNext ==
  ASSUME TypeOK, PushesAreSections, IdleHaveNoList, [Next]_vars
  PROVE  PushesAreSections' /\ IdleHaveNoList'
<1>1. ASSUME NEW w \in Workers, Claim(w) \/ WorkerStep(w)
      PROVE  PushesAreSections' /\ IdleHaveNoList'
  <2>1. CASE Claim(w) \/ ReadInputs(w) \/ DraftDone(w) \/ JobFailed(w) \/ ReconcileRead(w)
             \/ ReviseSection(w) \/ ReconcileDone(w)
    <3>1. /\ \A v \in Workers \ {w} : pc'[v] = pc[v] /\ job'[v] = job[v]
          /\ pc'[w] \in {"claimed", "drafting", "reviewing", "after"}
               \/ (pc[w] = "idle" /\ pc'[w] = "idle")
          /\ todo' = todo
      <4>1. CASE Claim(w)
        BY <4>1 DEF Claim, TypeOK
      <4>2. CASE ReviseSection(w)
        BY <4>2 DEF ReviseSection, TypeOK
      <4>3. CASE ReadInputs(w) \/ DraftDone(w) \/ JobFailed(w) \/ ReconcileRead(w) \/ ReconcileDone(w)
        <5>1. PICK l \in {"drafting", "reviewing", "after"} : pc' = [pc EXCEPT ![w] = l]
          BY <4>3 DEF ReadInputs, DraftDone, JobFailed, ReconcileRead, ReconcileDone
        <5>2. UNCHANGED <<job, todo>>
          BY <4>3 DEF ReadInputs, DraftDone, JobFailed, ReconcileRead, ReconcileDone
        <5> QED
          BY <5>1, <5>2 DEF TypeOK
      <4> QED
        BY <2>1, <4>1, <4>2, <4>3
    <3> QED
      BY <3>1 DEF PushesAreSections, IdleHaveNoList
  <2>2. CASE AfterSection(w)
    BY <2>2 DEF AfterSection, JoinsCam, Goto, Release, TypeOK, PushesAreSections, IdleHaveNoList
  <2>3. CASE Release(w) \/ \E l \in Labels \ {"idle", "push"} : Goto(w, l)
    BY <2>3 DEF Goto, Release, TypeOK, PushesAreSections, IdleHaveNoList
  <2> QED
    BY <1>1, <2>1, <2>2, <2>3
    DEF WorkerStep, Push, Finalize, NotLast, DeferToReconcile, SettleWithoutCam, PrepareHandoff,
        Deliver, Settle, Conclude, Notify, Labels, Finalizing
<1>2. ASSUME NEW S \in SUBSET Expired, Reap(S)
      PROVE  PushesAreSections' /\ IdleHaveNoList'
  BY <1>2 DEF Reap, TypeOK, PushesAreSections, IdleHaveNoList, PoolAssumption
<1>3. ASSUME NEW r \in Runs, Request(r)
      PROVE  UNCHANGED <<pc, job, todo>>
  BY <1>3 DEF Request, CreateRun, Announce, RetrySection, RegenerateSection, poolVars
<1>4. CASE Crash
  BY <1>4 DEF Crash, PushesAreSections, IdleHaveNoList
<1>5. CASE Rest \/ UNCHANGED vars
  BY <1>5 DEF Rest, vars, poolVars, PushesAreSections, IdleHaveNoList
<1> QED
  BY <1>1, <1>2, <1>3, <1>4, <1>5 DEF Next, PushesAreSections, IdleHaveNoList

LEMMA OwedInit == Init => OwedInv
<1> SUFFICES ASSUME Init PROVE OwedInv
  OBVIOUS
<1>1. PushesAreSections /\ IdleHaveNoList /\ Unsettled = {}
  BY DEF Init, PushesAreSections, IdleHaveNoList, Unsettled
<1> QED
  BY <1>1, InitType DEF OwedInv, SettlementIsOwed

LEMMA OwedNext == OwedInv /\ [Next]_vars => OwedInv'
<1> SUFFICES ASSUME OwedInv, [Next]_vars PROVE OwedInv'
  OBVIOUS
<1>1. TypeOK' /\ PushesAreSections' /\ IdleHaveNoList'
  BY NextType, ListsNext DEF OwedInv
<1>2. ASSUME NEW w \in Workers, Claim(w) \/ WorkerStep(w) PROVE SettlementIsOwed'
  BY <1>1, <1>2, OwedClaim, OwedDrafting, OwedOutcome, OwedAfter, OwedFinalize, OwedHandoff
  DEF WorkerStep
<1>3. ASSUME Crash PROVE SettlementIsOwed'
  <2>1. crashes' # 0
    BY <1>3 DEF Crash, OwedInv, TypeOK
  <2> QED
    BY <2>1 DEF SettlementIsOwed
<1>4. ASSUME Rest \/ UNCHANGED vars PROVE SettlementIsOwed'
  <2>1. UNCHANGED <<runStatus, status, pc, job, todo, crashes>>
    BY <1>4 DEF Rest, vars, dbVars, poolVars
  <2>2. \A r \in Runs : SameRows(r) /\ Carried(r)
    BY <2>1 DEF SameRows, Carried, Tended, Tends, Listed
  <2> QED
    BY <2>1, <2>2, OwedStep DEF OwedInv, Unsettled
<1> QED
  BY <1>1, <1>2, <1>3, <1>4, OwedReap, OwedRequest DEF Next, OwedInv

\* No run is forgotten: as long as the service has not crashed, a run that has nothing
\* left to draft is settled, or its reconcile job is open, or a worker is on its way to
\* settle it -- however the last outcomes, reaped claims, early retries, late commits and
\* failed calls interleave (_after_section, _maybe_finalize).
THEOREM NoRunIsForgotten == SafeSpec => []SettlementIsOwed
<1>1. OwedInv => SettlementIsOwed
  BY DEF OwedInv
<1> QED
  BY <1>1, OwedInit, OwedNext, PTL DEF SafeSpec
-----------------------------------------------------------------------------
(* The pool is never stuck *)

\* The template has no cycle of dependencies, which master-config checks.
NoCycle == \A S \in SUBSET Codes : S # {} => \E c \in S : DependsOn[c] \cap S = {}

\* The guards of WorkerStep, Claim and Reap.
CanStep(w) == pc[w] # "idle" /\ (pc[w] = "finalize" => ~FinalizeLocked)
CanClaim ==
  \E A \in SUBSET RunsIn("queued") :
     /\ IsAdmission(A)
     /\ \/ Ready(A) = {} /\ A # {}
        \/ \E j \in Ready(A) : \A k \in Ready(A) : OrderOf(j) <= OrderOf(k)

\* While a run is to be settled somebody can go on: a worker with its job, worker 0 with
\* a lease that has run out, or a claim.  A run all of whose sections were skipped is
\* excepted, which nobody settles (main.py:198).
PoolIsNeverStuck ==
  (crashes = 0 /\ Unsettled # {} /\ \A r \in Unsettled : HasWork(r))
    => \/ \E w \in Workers : CanStep(w)
       \/ pc[WorkerZero] = "idle" /\ (Expired # {} \/ CanClaim)

\* A worker's job is a row, and the rows of a run were written together.
RowsAreWhole ==
  /\ \A w \in Workers : /\ pc[w] # "idle" => status[job[w]] # "absent"
                        /\ \A j \in todo[w] : status[j] # "absent"
  /\ \A r \in Runs, c, d \in Codes :
        status[Initial(r, c)] # "absent" => status[Initial(r, d)] # "absent"

\* The pass of _admit_pending_runs has a result: what it promotes of the runs up to
\* some arrival determines whether it promotes the next.
LEMMA AdmissionExists ==
  ASSUME ArrivalInv
  PROVE  \E A \in SUBSET RunsIn("queued") : IsAdmission(A)
<1> DEFINE queued == RunsIn("queued")
           Fits(A, r) == /\ Cardinality(RunsIn("running") \cup Ahead(A, r)) < MaxConcurrentRuns
                         /\ Cardinality(OwnedLike(RunsIn("running") \cup Ahead(A, r), r))
                              < MaxActiveRunsPerUser
           Passes(A, T) == \A r \in T : r \in A <=> Fits(A, r)
           Prefix(T) == \A r \in T, q \in queued : arrival[q] < arrival[r] => q \in T
           Rests == {R \in SUBSET queued :
                       Prefix(queued \ R) /\ \E A \in SUBSET (queued \ R) : Passes(A, queued \ R)}
<1>1. queued \subseteq Runs /\ IsFiniteSet(queued)
  BY FS_Subset DEF RunsIn, RunsAssumption
<1>2. queued \in Rests
  <2>1. Prefix({}) /\ Passes({}, {}) /\ queued \ queued = {}
    OBVIOUS
  <2> QED
    BY <2>1
<1>3. PICK R \in Rests : \A other \in Rests : <<other, R>> \notin StrictSubsetOrdering(queued)
  <2>1. IsWellFoundedOn(StrictSubsetOrdering(queued), FiniteSubsetsOf(queued))
    BY <1>1, FS_StrictSubsetOrderingWellFounded
  <2>2. Rests \subseteq FiniteSubsetsOf(queued)
    <3>1. \A T \in SUBSET queued : T \in FiniteSubsetsOf(queued)
      BY <1>1, FS_Subset DEF FiniteSubsetsOf
    <3> QED
      BY <3>1
  <2> HIDE DEF Rests
  <2> QED
    BY <1>2, <2>1, <2>2, WFMin
<1> DEFINE T == queued \ R
<1>4. R \subseteq queued /\ Prefix(T)
  BY <1>3
<1>5. PICK A \in SUBSET T : Passes(A, T)
  BY <1>3
<1>6. R = {}
  <2> SUFFICES ASSUME R # {} PROVE FALSE
    OBVIOUS
  <2>1. PICK r \in R : \A q \in R : arrival[r] <= arrival[q]
    BY <1>1, <1>4, FirstArrival DEF ArrivalInv
  <2>2. \A q \in queued : arrival[q] \in Nat /\ (arrival[q] = arrival[r] => q = r)
    BY <1>1, <1>4 DEF ArrivalInv, ArrivalsAreOnce, TypeOK, RunsIn
  <2>3. /\ r \in queued /\ r \notin T
        /\ \A q \in T : arrival[q] < arrival[r]
    <3>1. ASSUME NEW q \in T PROVE arrival[q] < arrival[r]
      <4>1. arrival[q] # arrival[r] /\ ~(arrival[r] < arrival[q])
        BY <1>4, <2>2
      <4> QED
        BY <1>4, <2>2, <4>1
    <3> QED
      BY <1>4, <3>1
  <2> DEFINE B == IF Fits(A, r) THEN A \cup {r} ELSE A
  <2>4. \A q \in T \cup {r} : Ahead(B, q) = Ahead(A, q)
    BY <1>5, <2>2, <2>3 DEF Ahead
  <2>5. Passes(B, T \cup {r})
    <3>1. \A q \in T \cup {r} : Fits(B, q) <=> Fits(A, q)
      BY <2>4
    <3>2. \A q \in T : q \in B <=> q \in A
      BY <2>3
    <3>3. r \in B <=> Fits(A, r)
      BY <1>5, <2>3
    <3> HIDE DEF B, Fits
    <3> QED
      BY <1>5, <3>1, <3>2, <3>3
  <2>6. T \cup {r} = queued \ (R \ {r}) /\ B \subseteq T \cup {r}
    BY <1>4, <1>5
  <2>7. Prefix(T \cup {r})
    BY <1>4, <2>1, <2>2
  <2>8. R \ {r} \in Rests
    <3> HIDE DEF B, Passes, Prefix, T
    <3> QED
      BY <1>4, <2>5, <2>6, <2>7
  <2>9. <<R \ {r}, R>> \in StrictSubsetOrdering(queued)
    BY <1>4 DEF StrictSubsetOrdering
  <2> QED
    BY <1>3, <2>8, <2>9
<1>7. T = queued
  BY <1>6
<1> QED
  BY <1>5, <1>7 DEF IsAdmission

LEMMA LeastOrder ==
  ASSUME NEW S \in SUBSET Jobs, S # {}
  PROVE  \E j \in S : \A k \in S : OrderOf(j) <= OrderOf(k)
<1> DEFINE Orders == {OrderOf(j) : j \in S}
<1>1. \A j \in S : OrderOf(j) \in Nat
  BY JobFields DEF OrderOf, ReconcileOrderNo, SectionsAssumption
<1>2. Orders \subseteq Nat /\ Orders # {}
  BY <1>1
<1>3. PICK n \in Orders : \A m \in Orders : <<m, n>> \notin OpToRel(<, Nat)
  <2> HIDE DEF Orders
  <2> QED
    BY <1>2, NatLessThanWellFounded, WFMin
<1>4. \A m \in Orders : ~(m < n)
  BY <1>2, <1>3 DEF OpToRel
<1>5. PICK j \in S : n = OrderOf(j)
  OBVIOUS
<1> QED
  BY <1>1, <1>4, <1>5

\* The earliest of the queued runs finds a slot when nothing is running.
LEMMA EarliestIsAdmitted ==
  ASSUME ArrivalInv, RunsIn("running") = {}, RunsIn("queued") # {},
         NEW A \in SUBSET RunsIn("queued"), IsAdmission(A)
  PROVE  A # {}
<1>1. PICK r \in RunsIn("queued") : \A q \in RunsIn("queued") : arrival[r] <= arrival[q]
  BY FirstArrival DEF ArrivalInv, RunsIn
<1>2. Ahead(A, r) = {}
  <2>1. \A q \in A : arrival[q] \in Nat /\ arrival[r] \in Nat
    BY DEF ArrivalInv, TypeOK, RunsIn
  <2> QED
    BY <1>1, <2>1 DEF Ahead
<1>3. RunsIn("running") \cup Ahead(A, r) = {} /\ OwnedLike({}, r) = {} /\ Cardinality({}) = 0
  BY <1>2, FS_EmptySet DEF OwnedLike
<1> QED
  BY <1>3 DEF IsAdmission, LimitsAssumption

\* A run whose sections are open has one whose dependencies have ended.
LEMMA OpenSectionIsReady ==
  ASSUME NoCycle, TypeOK, RowsAreWhole, NEW r \in RunsIn("running"), InFlight(r),
         \A c \in Codes : status[Initial(r, c)] # "running",
         NEW A \in SUBSET RunsIn("queued")
  PROVE  Ready(A) # {}
<1> DEFINE Open == SectionsIn(r, "queued")
<1>1. r \in Runs /\ runStatus[r] = "running"
  BY DEF RunsIn
<1>2. Open # {} /\ Open \subseteq Codes
  BY DEF InFlight, SectionsIn
<1>3. PICK c \in Open : DependsOn[c] \cap Open = {}
  BY <1>2 DEF NoCycle
<1>4. Initial(r, c) \in Jobs /\ status[Initial(r, c)] = "queued" /\ c \in Codes
  BY <1>1, <1>3, RowsAreJobs DEF SectionsIn
<1>5. DepsOf(Initial(r, c)) = DependsOn[c] /\ DependsOn[c] \subseteq Codes
  BY <1>4 DEF DepsOf, Initial, SectionsAssumption
<1>6. ASSUME NEW d \in DependsOn[c]
      PROVE  status[Initial(r, d)] \in Terminal
  <2>1. d \in Codes /\ Initial(r, d) \in Jobs /\ status[Initial(r, d)] \in JobStates
    BY <1>1, <1>5, RowsAreJobs DEF TypeOK
  <2>2. status[Initial(r, d)] \notin {"absent", "queued", "running"}
    BY <1>1, <1>3, <1>4, <2>1 DEF RowsAreWhole, SectionsIn
  <2> QED
    BY <2>1, <2>2 DEF JobStates
<1>7. DepsSatisfied(Initial(r, c))
  BY <1>5, <1>6 DEF DepsSatisfied, Initial
<1>8. Initial(r, c).run = r /\ Initial(r, c).kind = "initial"
  BY DEF Initial
<1> QED
  BY <1>1, <1>4, <1>7, <1>8 DEF Ready

LEMMA RowsInit == Init => RowsAreWhole
BY RowsAreJobs DEF Init, RowsAreWhole

\* Rows of sections come with their run and stay.
LEMMA RowsStep ==
  ASSUME RowsAreWhole,
         \A j \in Jobs : status[j] # "absent" => status'[j] # "absent",
         \A j \in InitialJobs : status[j] = "absent" => status'[j] = "absent",
         \A w \in Workers : /\ pc'[w] # "idle" => status'[job'[w]] # "absent"
                            /\ \A j \in todo'[w] : status'[j] # "absent"
  PROVE  RowsAreWhole'
<1>1. \A r \in Runs, c \in Codes : status'[Initial(r, c)] = "absent" <=> status[Initial(r, c)] = "absent"
  <2>1. \A r \in Runs, c \in Codes : Initial(r, c) \in Jobs /\ Initial(r, c) \in InitialJobs
    BY RowsAreJobs DEF Initial, InitialJobs
  <2> QED
    BY <2>1
<1> QED
  BY <1>1 DEF RowsAreWhole, Initial

\* a worker that commits, passes on or lets go
LEMMA RowsMove ==
  ASSUME TypeOK, RowsAreWhole, NEW w \in Workers, Release(w) \/ \E l \in Labels : Goto(w, l),
         pc[w] # "idle",
         \A j \in Jobs : status[j] # "absent" => status'[j] # "absent",
         \A j \in InitialJobs : status[j] = "absent" => status'[j] = "absent"
  PROVE  RowsAreWhole'
<1>1. ASSUME NEW v \in Workers
      PROVE  /\ pc'[v] # "idle" => /\ job'[v] \in Jobs
                                   /\ pc[v] # "idle" /\ job'[v] \in todo[v] \cup {job[v]}
             /\ todo'[v] \subseteq todo[v]
             /\ todo[v] \subseteq Jobs
  <2>1. CASE Release(w)
    <3>1. CASE v = w
      BY <2>1, <3>1, WorkersJob DEF Release, TypeOK
    <3>2. CASE v # w
      <4>1. pc'[v] = pc[v] /\ job'[v] = job[v] /\ todo'[v] = todo[v]
        BY <2>1, <3>2 DEF Release, TypeOK
      <4> QED
        BY <4>1, WorkersJob DEF TypeOK
    <3> QED
      BY <3>1, <3>2
  <2>2. CASE \E l \in Labels : Goto(w, l)
    BY <2>2, WorkersJob DEF Goto, TypeOK
  <2> QED
    BY <2>1, <2>2
<1>2. ASSUME NEW v \in Workers
      PROVE  /\ pc'[v] # "idle" => status'[job'[v]] # "absent"
             /\ \A j \in todo'[v] : status'[j] # "absent"
  <2>1. \A j \in todo[v] : status'[j] # "absent"
    BY <1>1 DEF RowsAreWhole
  <2>2. pc[v] # "idle" => status'[job[v]] # "absent"
    BY WorkersJob DEF RowsAreWhole
  <2> QED
    BY <1>1, <2>1, <2>2
<1> QED
  BY <1>2, RowsStep

LEMMA RowsNext == TypeOK /\ RowsAreWhole /\ [Next]_vars => RowsAreWhole'
<1> SUFFICES ASSUME TypeOK, RowsAreWhole, [Next]_vars PROVE RowsAreWhole'
  OBVIOUS
<1>1. ASSUME NEW w \in Workers, Claim(w) PROVE RowsAreWhole'
  <2>1. PICK A \in SUBSET RunsIn("queued") :
          \/ UNCHANGED <<status, pc, job, todo>>
          \/ \E j \in Ready(A) : /\ status' = [status EXCEPT ![j] = "running"]
                                 /\ pc' = [pc EXCEPT ![w] = "claimed"]
                                 /\ job' = [job EXCEPT ![w] = j]
                                 /\ todo' = todo
    BY <1>1 DEF Claim
  <2>2. CASE UNCHANGED <<status, pc, job, todo>>
    BY <2>2 DEF RowsAreWhole
  <2>3. ASSUME NEW j \in Ready(A), status' = [status EXCEPT ![j] = "running"],
               pc' = [pc EXCEPT ![w] = "claimed"], job' = [job EXCEPT ![w] = j], todo' = todo
        PROVE  RowsAreWhole'
    <3>1. j \in Jobs /\ status[j] = "queued"
      BY DEF Ready
    <3>2. \A k \in Jobs : status[k] = "absent" <=> status'[k] = "absent"
      BY <2>3, <3>1 DEF TypeOK
    <3>3. \A v \in Workers : pc'[v] # "idle" => status'[job'[v]] # "absent"
      BY <2>3, <3>1, <3>2, WorkersJob DEF TypeOK, RowsAreWhole
    <3>4. ASSUME NEW v \in Workers, NEW k \in todo'[v]
          PROVE  status'[k] # "absent"
      <4>1. k \in Jobs /\ status[k] # "absent"
        BY <2>3 DEF TypeOK, RowsAreWhole
      <4> QED
        BY <3>2, <4>1
    <3>5. InitialJobs \subseteq Jobs
      BY DEF Jobs
    <3> QED
      BY <3>2, <3>3, <3>4, <3>5, RowsStep
  <2> QED
    BY <2>1, <2>2, <2>3
<1>2. ASSUME NEW w \in Workers, WorkerStep(w) PROVE RowsAreWhole'
  <2>1. pc[w] # "idle" /\ job[w] \in Jobs /\ status[job[w]] # "absent"
    BY <1>2, WorkersJob
    DEF WorkerStep, ReadInputs, DraftDone, JobFailed, ReconcileRead, ReviseSection, ReconcileDone,
        AfterSection, Push, Finalize, Deliver, Settle, Conclude, Notify, Executing, RowsAreWhole
  <2>2. CASE ReviseSection(w)
    BY <2>2 DEF ReviseSection, RowsAreWhole
  <2>3. ~ReviseSection(w) => Release(w) \/ \E l \in Labels : Goto(w, l)
    <3>1. ReadInputs(w) \/ ReconcileRead(w) \/ DraftDone(w) \/ JobFailed(w) \/ ReconcileDone(w)
             => \E l \in {"drafting", "reviewing", "after"} : Goto(w, l)
      BY DEF ReadInputs, ReconcileRead, DraftDone, JobFailed, ReconcileDone, Goto
    <3>2. AfterSection(w) \/ Push(w) \/ Finalize(w) \/ Deliver(w) \/ Settle(w) \/ Conclude(w) \/ Notify(w)
             => Release(w) \/ \E l \in Labels : Goto(w, l)
      BY DEF AfterSection, Push, Finalize, NotLast, DeferToReconcile, SettleWithoutCam,
             PrepareHandoff, Deliver, Settle, Conclude, Notify, Labels, Finalizing
    <3> QED
      BY <1>2, <3>1, <3>2 DEF WorkerStep, Labels, Executing
  <2>4. /\ \A j \in Jobs : status[j] # "absent" => status'[j] # "absent"
        /\ \A j \in InitialJobs : status[j] = "absent" => status'[j] = "absent"
    <3>1. CASE Finalize(w)
      <4>1. job[w].run \in Runs
        BY <2>1, JobFields
      <4>2. \/ status' = status
            \/ status' = [status EXCEPT ![ReconcileOf(job[w].run)] = IF @ = "absent" THEN "queued" ELSE @]
        BY <3>1 DEF Finalize, NotLast, DeferToReconcile, SettleWithoutCam, PrepareHandoff
      <4>3. ReconcileOf(job[w].run) \notin InitialJobs
        BY DEF ReconcileOf, InitialJobs
      <4> QED
        BY <4>1, <4>2, <4>3 DEF TypeOK, Jobs
    <3>2. CASE DraftDone(w) \/ JobFailed(w) \/ ReconcileDone(w)
      <4>1. PICK o \in {"complete", "failed"} : status' = [status EXCEPT ![job[w]] = o]
        BY <3>2 DEF DraftDone, JobFailed, ReconcileDone
      <4> QED
        BY <2>1, <4>1 DEF TypeOK, Jobs
    <3>3. CASE ~(Finalize(w) \/ DraftDone(w) \/ JobFailed(w) \/ ReconcileDone(w))
      BY <1>2, <3>3 DEF WorkerStep, ReadInputs, ReconcileRead, ReviseSection, AfterSection, Push,
                        Deliver, Settle, Conclude, Notify, dbVars
    <3> QED
      BY <3>1, <3>2, <3>3
  <2> QED
    BY <2>1, <2>2, <2>3, <2>4, RowsMove
<1>3. ASSUME NEW S \in SUBSET Expired, Reap(S) PROVE RowsAreWhole'
  <2>1. \A j \in S : j \in Jobs /\ status[j] = "running"
    BY DEF Expired, Expirable
  <2>2. \A j \in Jobs : status[j] = "absent" <=> status'[j] = "absent"
    BY <1>3, <2>1 DEF Reap
  <2>3. \A v \in Workers : /\ pc'[v] # "idle" => \/ job'[v] \in S
                                                 \/ pc[v] # "idle" /\ job'[v] = job[v]
                           /\ todo'[v] \subseteq todo[v] \cup S
                           /\ todo[v] \subseteq Jobs
    BY <1>3 DEF Reap, TypeOK
  <2>4. \A v \in Workers : /\ pc'[v] # "idle" => status'[job'[v]] # "absent"
                           /\ \A j \in todo'[v] : status'[j] # "absent"
    <3>1. \A j \in S : status'[j] # "absent"
      BY <2>1, <2>2
    <3>2. ASSUME NEW v \in Workers
          PROVE  /\ pc[v] # "idle" => status'[job[v]] # "absent"
                 /\ \A j \in todo[v] : status'[j] # "absent"
      <4>1. pc[v] # "idle" => job[v] \in Jobs /\ status[job[v]] # "absent"
        BY WorkersJob DEF RowsAreWhole
      <4>2. \A j \in todo[v] : j \in Jobs /\ status[j] # "absent"
        BY <2>3 DEF RowsAreWhole
      <4> QED
        BY <2>2, <4>1, <4>2
    <3> QED
      BY <2>3, <3>1, <3>2
  <2>5. InitialJobs \subseteq Jobs
    BY DEF Jobs
  <2> QED
    BY <2>2, <2>4, <2>5, RowsStep
<1>4. ASSUME NEW r \in Runs, Request(r) PROVE RowsAreWhole'
  <2>1. UNCHANGED <<pc, job, todo>>
    BY <1>4 DEF Request, CreateRun, Announce, RetrySection, RegenerateSection, poolVars
  <2>2. \A j \in Jobs : status[j] # "absent" => status'[j] # "absent"
    <3>1. CASE CreateRun(r)
      BY <3>1 DEF CreateRun
    <3>2. CASE ~CreateRun(r)
      BY <1>4, <3>2 DEF Request, Announce, RetrySection, RegenerateSection, dbVars, TypeOK
    <3> QED
      BY <3>1, <3>2
  <2>3. \A v \in Workers : /\ pc'[v] # "idle" => status'[job'[v]] # "absent"
                           /\ \A j \in todo'[v] : status'[j] # "absent"
    <3>1. ASSUME NEW v \in Workers
          PROVE  /\ pc[v] # "idle" => status'[job[v]] # "absent"
                 /\ \A j \in todo[v] : status'[j] # "absent"
      <4>1. pc[v] # "idle" => job[v] \in Jobs /\ status[job[v]] # "absent"
        BY WorkersJob DEF RowsAreWhole
      <4>2. \A j \in todo[v] : j \in Jobs /\ status[j] # "absent"
        BY DEF TypeOK, RowsAreWhole
      <4> QED
        BY <2>2, <4>1, <4>2
    <3> QED
      BY <2>1, <3>1
  <2>4. CASE CreateRun(r)
    <3>1. ASSUME NEW q \in Runs, NEW c \in Codes
          PROVE  IF q = r THEN status'[Initial(q, c)] # "absent"
                 ELSE status'[Initial(q, c)] = status[Initial(q, c)]
      <4>1. Initial(q, c) \in Jobs /\ Initial(q, c) \in InitialJobs /\ Initial(q, c).run = q
        BY RowsAreJobs DEF Initial, InitialJobs
      <4> QED
        BY <2>4, <4>1 DEF CreateRun
    <3> QED
      BY <2>3, <3>1 DEF RowsAreWhole, Initial
  <2>5. CASE ~CreateRun(r)
    <3>1. \A j \in InitialJobs : status[j] = "absent" => status'[j] = "absent"
      <4>1. CASE Announce(r)
        BY <4>1 DEF Announce, dbVars
      <4>2. ASSUME NEW c \in Codes, RetrySection(r, c)
            PROVE  \A j \in InitialJobs : status[j] = "absent" => status'[j] = "absent"
        BY <4>2, RowsAreJobs DEF RetrySection, TypeOK, Jobs
      <4>3. ASSUME NEW c \in Regenerable, RegenerateSection(r, c)
            PROVE  \A j \in InitialJobs : status[j] = "absent" => status'[j] = "absent"
        <5>1. Regen(r, c) \notin InitialJobs
          BY DEF Regen, InitialJobs
        <5> QED
          BY <4>3, <5>1 DEF RegenerateSection, TypeOK, Jobs
      <4> QED
        BY <1>4, <2>5, <4>1, <4>2, <4>3 DEF Request
    <3> QED
      BY <2>2, <2>3, <3>1, RowsStep
  <2> QED
    BY <2>4, <2>5
<1>5. CASE Crash
  BY <1>5 DEF Crash, dbVars, RowsAreWhole, Initial
<1>6. CASE Rest \/ UNCHANGED vars
  BY <1>6 DEF Rest, vars, dbVars, poolVars, RowsAreWhole, Initial
<1> QED
  BY <1>1, <1>2, <1>3, <1>4, <1>5, <1>6 DEF Next

\* If nobody has a job, a running job has lost its worker and its lease runs out; if
\* no job is running, a section or the reconcile job of a running run can be claimed,
\* or the earliest queued run be admitted.
LEMMA SomebodyGoesOn ==
  ASSUME NoCycle, OwedInv, ArrivalInv, RowsAreWhole
  PROVE  PoolIsNeverStuck
<1> SUFFICES ASSUME crashes = 0, Unsettled # {}, \A r \in Unsettled : HasWork(r),
                    ~\E w \in Workers : CanStep(w)
             PROVE  pc[WorkerZero] = "idle" /\ (Expired # {} \/ CanClaim)
  BY DEF PoolIsNeverStuck
<1>1. ASSUME NEW w \in Workers, pc[w] # "idle"
      PROVE  FALSE
  <2>1. FinalizeLocked
    BY <1>1 DEF CanStep
  <2>2. PICK v \in Workers : pc[v] \in Finalizing
    BY <2>1 DEF FinalizeLocked
  <2>3. CanStep(v)
    BY <2>2 DEF CanStep, Finalizing
  <2> QED
    BY <2>3
<1>2. pc[WorkerZero] = "idle"
  BY <1>1 DEF PoolAssumption
<1>3. CASE \E j \in Jobs : status[j] = "running"
  BY <1>1, <1>2, <1>3 DEF Expired, Expirable, Holders, Executing
<1>4. CASE ~\E j \in Jobs : status[j] = "running"
  <2>1. PICK A \in SUBSET RunsIn("queued") : IsAdmission(A)
    BY AdmissionExists
  <2>2. CASE RunsIn("running") = {}
    <3>1. RunsIn("queued") # {}
      BY <2>2 DEF Unsettled, RunsIn
    <3>2. A # {}
      BY <2>1, <2>2, <3>1, EarliestIsAdmitted
    <3>3. Ready(A) # {} => \E j \in Ready(A) : \A k \in Ready(A) : OrderOf(j) <= OrderOf(k)
      <4>1. Ready(A) \in SUBSET Jobs
        BY DEF Ready
      <4> QED
        BY <4>1, LeastOrder
    <3> QED
      BY <1>2, <2>1, <3>2, <3>3 DEF CanClaim
  <2>3. CASE RunsIn("running") # {}
    <3>1. PICK r \in RunsIn("running") : TRUE
      BY <2>3
    <3>2. r \in Runs /\ runStatus[r] = "running" /\ r \in Unsettled /\ HasWork(r)
      BY <3>1 DEF RunsIn, Unsettled
    <3>3. InFlight(r) \/ Tended(r)
      BY <3>2 DEF OwedInv, SettlementIsOwed
    <3>4. \A w \in Workers : ~Tends(w, r) /\ todo[w] = {}
      BY <1>1 DEF Tends, OwedInv, IdleHaveNoList
    <3>5. InFlight(r) \/ status[ReconcileOf(r)] = "queued"
      BY <1>4, <3>2, <3>3, <3>4, RowsAreJobs DEF Tended, Listed
    <3>6. ASSUME InFlight(r) PROVE Ready(A) # {}
      <4>1. \A c \in Codes : status[Initial(r, c)] # "running"
        BY <1>4, <3>2, RowsAreJobs
      <4> QED
        BY <3>1, <3>6, <4>1, OpenSectionIsReady DEF OwedInv
    <3>7. ASSUME ~InFlight(r), status[ReconcileOf(r)] = "queued" PROVE Ready(A) # {}
      <4>1. ReconcileOf(r).kind = "reconcile" /\ ReconcileOf(r).run = r /\ ReconcileOf(r) \in Jobs
        BY <3>2, RowsAreJobs DEF ReconcileOf
      <4>2. ReconcileOf(r) \in Ready(A)
        BY <3>2, <3>7, <4>1 DEF Ready
      <4> QED
        BY <4>2
    <3>8. Ready(A) # {}
      BY <3>5, <3>6, <3>7
    <3>9. \E j \in Ready(A) : \A k \in Ready(A) : OrderOf(j) <= OrderOf(k)
      <4>1. Ready(A) \in SUBSET Jobs
        BY DEF Ready
      <4> QED
        BY <3>8, <4>1, LeastOrder
    <3> QED
      BY <1>2, <2>1, <3>9 DEF CanClaim
  <2> QED
    BY <2>2, <2>3
<1> QED
  BY <1>3, <1>4

\* The pool never stalls: until the first crash, while a submitted run is not settled,
\* a worker can go on with its job, or worker 0 can reap or claim -- no dependency, cap,
\* lock, lost claim or waiting reconcile job blocks everybody (_claim_next,
\* _admit_pending_runs, reap_stuck_jobs, _maybe_finalize).
THEOREM PoolNeverStalls == NoCycle => (SafeSpec => []PoolIsNeverStuck)
<1> SUFFICES ASSUME NoCycle PROVE SafeSpec => []PoolIsNeverStuck
  OBVIOUS
<1> DEFINE Inv == OwedInv /\ ArrivalInv /\ RowsAreWhole
<1>1. Init => Inv
  BY OwedInit, ArrivalInit, RowsInit
<1>2. Inv /\ [Next]_vars => Inv'
  BY OwedNext, ArrivalNext, RowsNext DEF OwedInv
<1>3. Inv => PoolIsNeverStuck
  BY SomebodyGoesOn
<1> QED
  BY <1>1, <1>2, <1>3, PTL DEF SafeSpec

-----------------------------------------------------------------------------
(* The lock *)

\* Only one thread moves at a time, and none enters the hand-off while another
\* is in it.
LEMMA OneThreadMoves ==
  ASSUME TypeOK, NEW w \in Workers, Claim(w) \/ WorkerStep(w)
  PROVE  \A v \in Workers \ {w} : pc'[v] = pc[v] /\ job'[v] = job[v]
<1>1. (\E l \in Labels : Goto(w, l)) \/ Release(w)
         => \A v \in Workers \ {w} : pc'[v] = pc[v] /\ job'[v] = job[v]
  BY DEF Goto, Release, TypeOK
<1>2. CASE Claim(w)
  BY <1>2 DEF Claim, TypeOK
<1>3. CASE ReadInputs(w) \/ DraftDone(w) \/ JobFailed(w)
           \/ ReconcileRead(w) \/ ReviseSection(w) \/ ReconcileDone(w)
  BY <1>3 DEF ReadInputs, DraftDone, JobFailed, ReconcileRead, ReviseSection, ReconcileDone, TypeOK
<1>4. CASE AfterSection(w) \/ Push(w) \/ Finalize(w) \/ Deliver(w) \/ Settle(w)
           \/ Conclude(w) \/ Notify(w)
  BY <1>1, <1>4
  DEF AfterSection, Push, Finalize, Deliver, Settle, Conclude, Notify, Labels, Finalizing,
      NotLast, DeferToReconcile, SettleWithoutCam, PrepareHandoff
<1>5. QED
  BY <1>2, <1>3, <1>4 DEF WorkerStep

LEMMA LockIsTaken ==
  ASSUME TypeOK, NEW w \in Workers, Claim(w) \/ WorkerStep(w), pc'[w] \in Finalizing
  PROVE  pc[w] \in Finalizing \/ \A v \in Workers : pc[v] \notin Finalizing
<1>1. CASE Claim(w)
  BY <1>1 DEF Claim, TypeOK, Finalizing
<1>2. CASE ReadInputs(w) \/ DraftDone(w) \/ JobFailed(w)
           \/ ReconcileRead(w) \/ ReviseSection(w) \/ ReconcileDone(w)
  BY <1>2 DEF ReadInputs, DraftDone, JobFailed, ReconcileRead, ReviseSection, ReconcileDone,
              TypeOK, Finalizing
<1>3. CASE AfterSection(w) \/ Push(w)
  BY <1>3 DEF AfterSection, Push, Goto, Release, TypeOK, Finalizing
<1>4. CASE Finalize(w)
  BY <1>4 DEF Finalize, FinalizeLocked
<1>5. CASE Deliver(w) \/ Settle(w) \/ Conclude(w) \/ Notify(w)
  BY <1>5 DEF Deliver, Settle, Conclude, Notify, Finalizing
<1>6. QED
  BY <1>1, <1>2, <1>3, <1>4, <1>5 DEF WorkerStep

\* _finalize_lock excludes, crash or no crash.
LEMMA LockNext == ASSUME TypeOK, OneFinalizer, [Next]_vars PROVE OneFinalizer'
<1>1. ASSUME NEW w \in Workers, Claim(w) \/ WorkerStep(w) PROVE OneFinalizer'
  BY <1>1, OneThreadMoves, LockIsTaken DEF OneFinalizer
<1>2. ASSUME NEW S \in SUBSET Expired, Reap(S) PROVE OneFinalizer'
  BY <1>2 DEF Reap, OneFinalizer, Finalizing, TypeOK
<1>3. ASSUME NEW r \in Runs, Request(r) PROVE OneFinalizer'
  BY <1>3 DEF Request, CreateRun, Announce, RetrySection, RegenerateSection, poolVars, OneFinalizer
<1>4. CASE Crash
  BY <1>4 DEF Crash, OneFinalizer, Finalizing
<1>5. CASE Rest \/ UNCHANGED vars
  BY <1>5 DEF Rest, vars, poolVars, OneFinalizer
<1>6. QED
  BY <1>1, <1>2, <1>3, <1>4, <1>5 DEF Next
-----------------------------------------------------------------------------
(* The CAM comes first *)

\* While nobody hands over, no verdict is pending; a pending one is backed by the
\* CAM in hand, and later by the CAM of the run.
VerdictIsBacked ==
  /\ (\A w \in Workers : pc[w] \notin Finalizing) => handoff.verdict = "failed"
  /\ \A w \in Workers :
        /\ pc[w] = "settle" => handoff.cam # 0
        /\ pc[w] \in {"conclude", "notify"}
              => handoff.verdict = "failed" \/ camId[job[w].run] # 0

CamFirstInv == /\ TypeOK
               /\ OneFinalizer
               /\ TerminalRunHasCam
               /\ NoticeIsTrue
               /\ VerdictIsBacked

LEMMA CamFirstInit == Init => CamFirstInv
<1>1. Init => OneFinalizer /\ TerminalRunHasCam /\ NoticeIsTrue /\ VerdictIsBacked
  BY DEF Init, OneFinalizer, TerminalRunHasCam, NoticeIsTrue, VerdictIsBacked, NoHandoff, Finalizing
<1>2. QED
  BY <1>1, InitType DEF CamFirstInv

\* Nothing is settled, handed over or told in this step.
LEMMA CamFirstStep ==
  ASSUME CamFirstInv, TypeOK', OneFinalizer', UNCHANGED <<camId, notice>>,
         \A r \in Runs : runStatus'[r] \in {"complete", "partial"} => runStatus'[r] = runStatus[r],
         \/ /\ UNCHANGED handoff
            /\ \A w \in Workers : pc[w] \in Finalizing \/ pc'[w] \in Finalizing
                                     => pc'[w] = pc[w] /\ job'[w] = job[w]
         \/ handoff' = NoHandoff /\ \A w \in Workers : pc'[w] \notin Finalizing
  PROVE  CamFirstInv'
<1>1. TerminalRunHasCam' /\ NoticeIsTrue'
  BY DEF CamFirstInv, TerminalRunHasCam, NoticeIsTrue
<1>2. VerdictIsBacked'
  BY DEF CamFirstInv, VerdictIsBacked, NoHandoff, Finalizing
<1>3. QED
  BY <1>1, <1>2 DEF CamFirstInv

LEMMA CamFirstDrafting ==
  ASSUME CamFirstInv, TypeOK', OneFinalizer', NEW w \in Workers,
         \/ Claim(w) \/ ReadInputs(w) \/ DraftDone(w) \/ JobFailed(w)
         \/ ReconcileRead(w) \/ ReviseSection(w) \/ ReconcileDone(w)
         \/ AfterSection(w) \/ Push(w)
  PROVE  CamFirstInv'
<1>1. pc[w] \notin Finalizing
  BY DEF Claim, ReadInputs, DraftDone, JobFailed, ReconcileRead, ReviseSection, ReconcileDone,
         AfterSection, Push, Finalizing, Executing
<1>2. pc'[w] \notin Finalizing
  BY <1>1, LockIsTaken
  DEF Claim, ReadInputs, DraftDone, JobFailed, ReconcileRead, ReviseSection,
      ReconcileDone, AfterSection, Push, Finalizing, Goto, Release, CamFirstInv, TypeOK
<1>3. \A v \in Workers \ {w} : pc'[v] = pc[v] /\ job'[v] = job[v]
  BY OneThreadMoves DEF CamFirstInv, WorkerStep
<1>4. /\ UNCHANGED <<camId, notice, handoff>>
      /\ \A r \in Runs : runStatus'[r] \in {"complete", "partial"} => runStatus'[r] = runStatus[r]
  BY DEF Claim, ReadInputs, DraftDone, JobFailed, ReconcileRead, ReviseSection,
         ReconcileDone, AfterSection, Push, dbVars, outVars
<1>5. QED
  BY <1>1, <1>2, <1>3, <1>4, CamFirstStep

LEMMA CamFirstFinalize ==
  ASSUME CamFirstInv, TypeOK', OneFinalizer', NEW w \in Workers, Finalize(w)
  PROVE  CamFirstInv'
<1> DEFINE r == job[w].run
<1>1. /\ r \in Runs
      /\ \A v \in Workers : pc[v] \notin Finalizing
      /\ \A v \in Workers \ {w} : pc'[v] = pc[v] /\ job'[v] = job[v]
      /\ handoff.verdict = "failed"
      /\ UNCHANGED <<camId, notice>>
  BY WorkersJob, JobFields, OneThreadMoves
  DEF Finalize, FinalizeLocked, WorkerStep, outVars, CamFirstInv, VerdictIsBacked
<1>2. CASE NotLast(w) \/ DeferToReconcile(w)
  <2>1. pc'[w] \notin Finalizing /\ UNCHANGED <<runStatus, handoff>>
    BY <1>2 DEF NotLast, DeferToReconcile, Release, CamFirstInv, TypeOK, Finalizing
  <2>2. QED
    BY <1>1, <2>1, CamFirstStep
<1>3. CASE PrepareHandoff(w)
  <2>1. pc'[w] = "deliver" /\ UNCHANGED runStatus
    BY <1>3 DEF PrepareHandoff, Goto, CamFirstInv, TypeOK
  <2>2. QED
    BY <1>1, <2>1 DEF CamFirstInv, TerminalRunHasCam, NoticeIsTrue, VerdictIsBacked, Finalizing
<1>4. CASE SettleWithoutCam(w)
  <2>1. UNCHANGED handoff /\ pc'[w] \notin {"settle", "deliver"}
    BY <1>4 DEF SettleWithoutCam, Goto, Release, CamFirstInv, TypeOK
  <2>2. \A q \in Runs : runStatus'[q] \in {"complete", "partial"} => camId[q] # 0
    <3>1. Verdict(r) \in {"complete", "partial"} => camId[r] # 0
      BY <1>4 DEF SettleWithoutCam
    <3>2. runStatus' = [runStatus EXCEPT ![r] = Verdict(r)]
      BY <1>4 DEF SettleWithoutCam
    <3>3. QED
      BY <3>1, <3>2 DEF CamFirstInv, TypeOK, TerminalRunHasCam
  <2>3. VerdictIsBacked'
    BY <1>1, <2>1 DEF VerdictIsBacked, Finalizing
  <2>4. QED
    BY <1>1, <2>2, <2>3 DEF CamFirstInv, TerminalRunHasCam, NoticeIsTrue
<1>5. QED
  BY <1>2, <1>3, <1>4 DEF Finalize

LEMMA CamFirstHandoff ==
  ASSUME CamFaults = {}, CamFirstInv, TypeOK', OneFinalizer', NEW w \in Workers,
         Deliver(w) \/ Settle(w) \/ Conclude(w) \/ Notify(w)
  PROVE  CamFirstInv'
<1> DEFINE r == job[w].run
<1>1. /\ r \in Runs /\ pc[w] \in Finalizing
      /\ \A v \in Workers \ {w} : pc'[v] = pc[v] /\ pc[v] \notin Finalizing
  BY WorkersJob, JobFields, OneThreadMoves
  DEF Deliver, Settle, Conclude, Notify, WorkerStep, CamFirstInv, OneFinalizer, Finalizing
<1>2. CASE Deliver(w)
  <2>1. handoff'.cam # 0
    <3>1. cams[r] + 1 # 0
      BY <1>1 DEF CamFirstInv, TypeOK
    <3>2. handoff' = [handoff EXCEPT !.cam = cams[r] + 1]
      BY <1>2 DEF Deliver
    <3>3. QED
      BY <3>1, <3>2 DEF CamFirstInv, TypeOK
  <2>2. pc'[w] = "settle" /\ UNCHANGED <<runStatus, camId, notice>>
    BY <1>2 DEF Deliver, Goto, dbVars, CamFirstInv, TypeOK
  <2>3. QED
    BY <1>1, <2>1, <2>2 DEF CamFirstInv, TerminalRunHasCam, NoticeIsTrue, VerdictIsBacked, Finalizing
<1>3. CASE Settle(w)
  <2>1. /\ camId' = [camId EXCEPT ![r] = handoff.cam] /\ handoff.cam # 0
        /\ runStatus' = [runStatus EXCEPT ![r] = handoff.verdict]
        /\ pc'[w] = "conclude" /\ job' = job
        /\ UNCHANGED <<handoff, notice>>
    BY <1>3 DEF Settle, RecordedCam, Goto, outVars, CamFirstInv, VerdictIsBacked, TypeOK
  <2>2. \A q \in Runs : camId[q] # 0 \/ q = r => camId'[q] # 0
    BY <2>1 DEF CamFirstInv, TypeOK
  <2>3. TerminalRunHasCam' /\ NoticeIsTrue'
    BY <2>1, <2>2 DEF CamFirstInv, TypeOK, TerminalRunHasCam, NoticeIsTrue
  <2>4. VerdictIsBacked'
    BY <1>1, <2>1, <2>2 DEF VerdictIsBacked, Finalizing
  <2>5. QED
    BY <2>3, <2>4 DEF CamFirstInv
<1>4. CASE Conclude(w)
  <2>1. pc'[w] = "notify" /\ job' = job /\ UNCHANGED <<runStatus, camId, notice, handoff>>
    BY <1>4 DEF Conclude, Goto, dbVars, CamFirstInv, TypeOK
  <2>2. pc[w] = "conclude"
    BY <1>4 DEF Conclude
  <2>3. QED
    BY <1>1, <2>1, <2>2
    DEF CamFirstInv, TerminalRunHasCam, NoticeIsTrue, VerdictIsBacked, Finalizing
<1>5. CASE Notify(w)
  <2>1. pc'[w] \notin Finalizing /\ handoff' = NoHandoff /\ UNCHANGED <<runStatus, camId>>
    BY <1>5 DEF Notify, Release, dbVars, CamFirstInv, TypeOK, Finalizing
  <2>2. \A q \in Runs : notice'[q] \in {"complete", "partial"} => camId[q] # 0
    <3>1. handoff.verdict = "failed" \/ camId[r] # 0
      BY <1>5 DEF Notify, CamFirstInv, VerdictIsBacked
    <3>2. UNCHANGED notice \/ notice' = [notice EXCEPT ![r] = handoff.verdict]
      BY <1>5 DEF Notify
    <3>3. QED
      BY <3>1, <3>2 DEF CamFirstInv, TypeOK, NoticeIsTrue
  <2>3. VerdictIsBacked'
    BY <1>1, <2>1 DEF VerdictIsBacked, NoHandoff, Finalizing
  <2>4. QED
    BY <2>1, <2>2, <2>3 DEF CamFirstInv, TerminalRunHasCam, NoticeIsTrue
<1>6. QED
  BY <1>2, <1>3, <1>4, <1>5

LEMMA CamFirstNext == CamFaults = {} /\ CamFirstInv /\ [Next]_vars => CamFirstInv'
<1> SUFFICES ASSUME CamFaults = {}, CamFirstInv, [Next]_vars PROVE CamFirstInv'
  OBVIOUS
<1>1. TypeOK' /\ OneFinalizer'
  BY NextType, LockNext DEF CamFirstInv
<1>2. ASSUME NEW w \in Workers, Claim(w) \/ WorkerStep(w) PROVE CamFirstInv'
  BY <1>1, <1>2, CamFirstDrafting, CamFirstFinalize, CamFirstHandoff DEF WorkerStep
<1>3. ASSUME NEW S \in SUBSET Expired, Reap(S) PROVE CamFirstInv'
  <2>1. \A v \in Workers : pc[v] \in Finalizing \/ pc'[v] \in Finalizing
                             => pc'[v] = pc[v] /\ job'[v] = job[v]
    BY <1>3 DEF Reap, Finalizing, CamFirstInv, TypeOK
  <2>2. UNCHANGED <<runStatus, camId, notice, handoff>>
    BY <1>3 DEF Reap, outVars
  <2>3. QED
    BY <1>1, <2>1, <2>2, CamFirstStep
<1>4. ASSUME NEW r \in Runs, Request(r) PROVE CamFirstInv'
  <2>1. UNCHANGED <<pc, job, camId, notice, handoff>>
    BY <1>4 DEF Request, CreateRun, Announce, RetrySection, RegenerateSection, poolVars,
                dbVars, outVars
  <2>2. \A q \in Runs : runStatus'[q] \in {"complete", "partial"} => runStatus'[q] = runStatus[q]
    BY <1>4 DEF Request, CreateRun, Announce, RetrySection, RegenerateSection, dbVars,
                CamFirstInv, TypeOK
  <2>3. QED
    BY <1>1, <2>1, <2>2, CamFirstStep
<1>5. CASE Crash
  BY <1>1, <1>5, CamFirstStep DEF Crash, dbVars, Finalizing
<1>6. CASE Rest \/ UNCHANGED vars
  BY <1>1, <1>6, CamFirstStep DEF Rest, vars, dbVars, poolVars, outVars
<1>7. QED
  BY <1>2, <1>3, <1>4, <1>5, <1>6 DEF Next

\* A poller that sees a run complete or partial finds its CAM, and so does the
\* creator who is told so, through crashes, retries and slow workers alike -- as
\* long as the output service takes the CAM (worker.py, comment before the hand-off).
THEOREM CamBeforeStatus ==
  CamFaults = {} => (SafeSpec => [](TerminalRunHasCam /\ NoticeIsTrue))
<1> SUFFICES ASSUME CamFaults = {} PROVE SafeSpec => [](TerminalRunHasCam /\ NoticeIsTrue)
  OBVIOUS
<1>1. CamFirstInv /\ [Next]_vars => CamFirstInv'
  BY CamFirstNext
<1>2. CamFirstInv => TerminalRunHasCam /\ NoticeIsTrue
  BY DEF CamFirstInv
<1>3. QED
  BY <1>1, <1>2, CamFirstInit, PTL DEF SafeSpec

\* Under the same proviso the creator who is told that the memo is ready finds it.
THEOREM NoticesAreTrue == CamFaults = {} => (SafeSpec => []NoticeIsTrue)
BY CamBeforeStatus, PTL
-----------------------------------------------------------------------------
(* The status of a settled run *)

\* A verdict in hand is still the verdict, and nothing is left to draft.
VerdictStands ==
  \A w \in Workers :
     LET r == job[w].run IN
     pc[w] \in {"deliver", "settle"} =>
        /\ runStatus[r] \in {"queued", "running"}
        /\ ~InFlight(r)
        /\ handoff.verdict = Verdict(r)

SettledInv == /\ ExclusiveInv
              /\ OneFinalizer
              /\ SettledRunAgreesWithSections
              /\ VerdictStands

LEMMA SettledInit == Init => SettledInv
<1>1. Init => OneFinalizer /\ SettledRunAgreesWithSections /\ VerdictStands
  BY DEF Init, OneFinalizer, SettledRunAgreesWithSections, VerdictStands, Finalizing, TerminalRun
<1>2. QED
  BY <1>1, ExclusiveInit DEF SettledInv

SameSections(r) == \A c \in Codes : status'[Initial(r, c)] = status[Initial(r, c)]

LEMMA SameVerdict ==
  ASSUME NEW r \in Runs, SameSections(r)
  PROVE  InFlight(r)' = InFlight(r) /\ Verdict(r)' = Verdict(r)
<1>1. \A s : SectionsIn(r, s)' = SectionsIn(r, s)
  BY DEF SameSections, SectionsIn, Initial
<1>2. InFlight(r)' = InFlight(r)
  BY DEF SameSections, InFlight, Initial
<1>3. QED
  BY <1>1, <1>2 DEF Verdict

\* A section changes only while its run is in flight or reopened, and nobody
\* settles anything in this step.
LEMMA SettledStep ==
  ASSUME SettledInv, ExclusiveInv', OneFinalizer',
         \A r \in Runs : runStatus'[r] \in TerminalRun => runStatus'[r] = runStatus[r],
         \A r \in Runs : runStatus[r] \in {"queued", "running"}
                            => runStatus'[r] \in {"queued", "running"},
         \A r \in Runs : \/ SameSections(r)
                         \/ InFlight(r)
                         \/ /\ runStatus[r] \notin {"queued", "running"}
                            /\ runStatus'[r] \notin TerminalRun,
         \A w \in Workers : pc'[w] \in {"deliver", "settle"} =>
            /\ pc[w] \in {"deliver", "settle"}
            /\ job'[w] = job[w] /\ handoff'.verdict = handoff.verdict
  PROVE  SettledInv'
<1>1. SettledRunAgreesWithSections'
  <2> SUFFICES ASSUME NEW r \in Runs, runStatus'[r] \in TerminalRun
               PROVE  ~InFlight(r)' /\ runStatus'[r] = Verdict(r)'
    BY DEF SettledRunAgreesWithSections
  <2>1. ~InFlight(r) /\ runStatus[r] = Verdict(r)
    BY DEF SettledInv, SettledRunAgreesWithSections
  <2>2. SameSections(r)
    BY <2>1
  <2>3. QED
    BY <2>1, <2>2, SameVerdict
<1>2. VerdictStands'
  <2> SUFFICES ASSUME NEW w \in Workers, pc'[w] \in {"deliver", "settle"}
               PROVE  /\ runStatus'[job'[w].run] \in {"queued", "running"}
                      /\ ~InFlight(job[w].run)'
                      /\ handoff'.verdict = Verdict(job[w].run)'
    BY DEF VerdictStands
  <2>1. job'[w] = job[w] /\ handoff'.verdict = handoff.verdict /\ pc[w] \in {"deliver", "settle"}
    OBVIOUS
  <2>2. PICK r \in Runs : r = job[w].run
    BY <2>1, WorkersJob, JobFields DEF SettledInv, ExclusiveInv
  <2>3. runStatus[r] \in {"queued", "running"} /\ ~InFlight(r) /\ handoff.verdict = Verdict(r)
    BY <2>1, <2>2 DEF SettledInv, VerdictStands
  <2>4. SameSections(r)
    BY <2>3
  <2>5. ~InFlight(r)' /\ handoff'.verdict = Verdict(r)'
    BY <2>1, <2>3, <2>4, SameVerdict
  <2>6. runStatus'[r] \in {"queued", "running"}
    BY <2>3
  <2>7. QED
    BY <2>1, <2>2, <2>5, <2>6 DEF InFlight, Verdict, SectionsIn
<1>3. QED
  BY <1>1, <1>2 DEF SettledInv

\* What changes a section of a run that is not being retried.
LEMMA SectionChanges ==
  ASSUME ~SlowWorkers, ExclusiveInv, [Next]_vars, NEW r \in Runs, NEW c \in Codes,
         status'[Initial(r, c)] # status[Initial(r, c)]
  PROVE  \/ status[Initial(r, c)] \in {"queued", "running"}
         \/ status[Initial(r, c)] = "absent" /\ CreateRun(r)
         \/ RetrySection(r, c)
<1> DEFINE j == Initial(r, c)
<1>1. j \in Jobs /\ j \in InitialJobs /\ j.run = r /\ j.code = c /\ j.kind = "initial"
  BY RowsAreJobs DEF Initial, InitialJobs
<1>2. ASSUME NEW w \in Workers, Claim(w)
      PROVE  status[j] = "queued"
  BY <1>1, <1>2 DEF Claim, Ready, ExclusiveInv, TypeOK
<1>3. ASSUME NEW w \in Workers, WorkerStep(w)
      PROVE  status[j] = "running"
  <2>1. CASE DraftDone(w) \/ JobFailed(w) \/ ReconcileDone(w)
    <3>1. job[w] \in Jobs /\ status[job[w]] = "running"
      BY <2>1, WorkersJob DEF DraftDone, JobFailed, ReconcileDone, Executing, ExclusiveInv, HeldIsRunning
    <3>2. job[w] = j
      BY <1>1, <2>1, <3>1 DEF DraftDone, JobFailed, ReconcileDone, ExclusiveInv, TypeOK
    <3>3. QED
      BY <3>1, <3>2
  <2>2. CASE Finalize(w)
    BY <1>1, <2>2
    DEF Finalize, NotLast, DeferToReconcile, SettleWithoutCam, PrepareHandoff, ReconcileOf,
        ExclusiveInv, TypeOK
  <2>3. CASE ReadInputs(w) \/ ReconcileRead(w) \/ ReviseSection(w) \/ AfterSection(w) \/ Push(w)
             \/ Deliver(w) \/ Settle(w) \/ Conclude(w) \/ Notify(w)
    BY <2>3 DEF ReadInputs, ReconcileRead, ReviseSection, AfterSection, Push, Deliver, Settle,
                Conclude, Notify, dbVars
  <2>4. QED
    BY <1>3, <2>1, <2>2, <2>3 DEF WorkerStep
<1>4. ASSUME NEW S \in SUBSET Expired, Reap(S)
      PROVE  status[j] = "running"
  BY <1>1, <1>4 DEF Reap, Expired, Expirable
<1>5. ASSUME NEW q \in Runs, Request(q)
      PROVE  (status[j] = "absent" /\ CreateRun(r)) \/ RetrySection(r, c)
  <2>1. CASE CreateRun(q)
    <3>1. q = r
      BY <1>1, <2>1 DEF CreateRun
    <3>2. QED
      BY <2>1, <3>1 DEF CreateRun, ExclusiveInv, UnsubmittedHasNoRows
  <2>2. CASE Announce(q)
    BY <2>2 DEF Announce, dbVars
  <2>3. ASSUME NEW d \in Codes, RetrySection(q, d) PROVE RetrySection(r, c)
    <3>1. Initial(q, d) = j
      BY <1>1, <2>3 DEF RetrySection, ExclusiveInv, TypeOK
    <3>2. q = r /\ d = c
      BY <3>1 DEF Initial
    <3>3. QED
      BY <2>3, <3>2
  <2>4. CASE \E d \in Regenerable : RegenerateSection(q, d)
    BY <1>1, <2>4 DEF RegenerateSection, Regen, ExclusiveInv, TypeOK
  <2>5. QED
    BY <1>5, <2>1, <2>2, <2>3, <2>4 DEF Request
<1>6. ~Crash /\ ~Rest /\ ~UNCHANGED vars
  BY DEF Crash, Rest, vars, dbVars
<1>7. QED
  BY <1>2, <1>3, <1>4, <1>5, <1>6 DEF Next

\* The outcome of a job is committed by the worker that holds it; what is complete is
\* final.
LEMMA CompletionMoves ==
  ASSUME ~SlowWorkers, ExclusiveInv, [Next]_vars, NEW j \in Jobs,
         (status'[j] = "complete") # (status[j] = "complete")
  PROVE  \E w \in Workers : (DraftDone(w) \/ ReconcileDone(w)) /\ job[w] = j
<1>1. TypeOK
  BY DEF ExclusiveInv
<1>2. ASSUME NEW w \in Workers, Claim(w)
      PROVE  FALSE
  BY <1>1, <1>2 DEF Claim, Ready, TypeOK
<1>3. ASSUME NEW w \in Workers, WorkerStep(w)
      PROVE  (DraftDone(w) \/ ReconcileDone(w)) /\ job[w] = j
  <2>1. CASE DraftDone(w) \/ ReconcileDone(w)
    BY <1>1, <2>1 DEF DraftDone, ReconcileDone, TypeOK
  <2>2. ~JobFailed(w)
    <3>1. JobFailed(w) => status[job[w]] = "running"
      BY DEF JobFailed, ExclusiveInv, HeldIsRunning
    <3> QED
      BY <1>1, <3>1 DEF JobFailed, TypeOK
  <2>3. ~Finalize(w)
    BY <1>1
    DEF Finalize, NotLast, DeferToReconcile, SettleWithoutCam, PrepareHandoff, TypeOK
  <2>4. ~(ReadInputs(w) \/ ReconcileRead(w) \/ ReviseSection(w) \/ AfterSection(w) \/ Push(w)
            \/ Deliver(w) \/ Settle(w) \/ Conclude(w) \/ Notify(w))
    BY DEF ReadInputs, ReconcileRead, ReviseSection, AfterSection, Push, Deliver, Settle,
           Conclude, Notify, dbVars
  <2> QED
    BY <1>3, <2>1, <2>2, <2>3, <2>4 DEF WorkerStep
<1>4. ~(\E S \in SUBSET Expired : Reap(S))
  BY DEF Reap, Expired, Expirable
<1>5. ASSUME NEW r \in Runs, Request(r)
      PROVE  FALSE
  <2>1. ~CreateRun(r)
    <3>1. j \in InitialJobs /\ j.run = r => j = Initial(r, j.code) /\ j.code \in Codes
      BY DEF InitialJobs, Initial
    <3>2. CreateRun(r) /\ j \in InitialJobs /\ j.run = r => status[j] = "absent"
      BY <3>1 DEF CreateRun, ExclusiveInv, UnsubmittedHasNoRows
    <3> QED
      BY <3>2 DEF CreateRun
  <2>2. ~Announce(r)
    BY DEF Announce, dbVars
  <2>3. \A c \in Codes : ~RetrySection(r, c)
    BY <1>1 DEF RetrySection, TypeOK
  <2>4. \A c \in Regenerable : ~RegenerateSection(r, c)
    BY <1>1 DEF RegenerateSection, TypeOK
  <2> QED
    BY <1>5, <2>1, <2>2, <2>3, <2>4 DEF Request
<1>6. ~Crash /\ ~Rest /\ ~UNCHANGED vars
  BY DEF Crash, Rest, vars, dbVars
<1> QED
  BY <1>2, <1>3, <1>4, <1>5, <1>6 DEF Next

LEMMA CompletedStays ==
  ASSUME ~SlowWorkers, ExclusiveInv, [Next]_vars, NEW j \in Jobs, status[j] = "complete"
  PROVE  status'[j] = "complete"
<1>1. \A w \in Workers : (DraftDone(w) \/ ReconcileDone(w)) /\ job[w] = j => FALSE
  BY DEF DraftDone, ReconcileDone, Executing, ExclusiveInv, HeldIsRunning
<1> QED
  BY <1>1, CompletionMoves

LEMMA SettledNext ==
  ~SlowWorkers /\ ~EagerRetry /\ SettledInv /\ [Next]_vars => SettledInv'
<1> SUFFICES ASSUME ~SlowWorkers, ~EagerRetry, SettledInv, [Next]_vars PROVE SettledInv'
  OBVIOUS
<1>1. TypeOK /\ ExclusiveInv' /\ OneFinalizer'
  BY ExclusiveNext, LockNext DEF SettledInv, ExclusiveInv
<1> DEFINE Open(r) == runStatus[r] \in {"queued", "running"}
           NoneSettles == /\ \A r \in Runs : runStatus'[r] \in TerminalRun
                                                => runStatus'[r] = runStatus[r]
                          /\ \A r \in Runs : Open(r) => Open(r)'
           NoneDelivers == \A w \in Workers : pc'[w] \in {"deliver", "settle"} =>
                              /\ pc[w] \in {"deliver", "settle"}
                              /\ job'[w] = job[w] /\ handoff'.verdict = handoff.verdict
\* a section that is retried belongs to a partial or failed run, which reopens
<1>2. ASSUME NEW r \in Runs, NEW c \in Codes, RetrySection(r, c)
      PROVE  ~Open(r) /\ runStatus'[r] \notin TerminalRun
  <2>1. runStatus[r] \in TerminalRun /\ c \in SectionsIn(r, "failed")
    BY <1>2 DEF RetrySection, SectionsIn
  <2>2. runStatus[r] = Verdict(r)
    BY <2>1 DEF SettledInv, SettledRunAgreesWithSections
  <2>3. runStatus[r] \in {"partial", "failed"}
    BY <2>1, <2>2 DEF Verdict
  <2>4. QED
    BY <1>1, <1>2, <2>3 DEF RetrySection, TypeOK, TerminalRun
<1>3. \A r \in Runs : \/ SameSections(r) \/ InFlight(r)
                      \/ ~Open(r) /\ runStatus'[r] \notin TerminalRun
  <2> SUFFICES ASSUME NEW r \in Runs, NEW c \in Codes,
                      status'[Initial(r, c)] # status[Initial(r, c)]
               PROVE  InFlight(r) \/ (~Open(r) /\ runStatus'[r] \notin TerminalRun)
    BY DEF SameSections
  <2>1. CASE status[Initial(r, c)] \in {"queued", "running"}
    <3>1. \E d \in Codes : status[Initial(r, d)] \in {"queued", "running"}
      BY <2>1
    <3>2. QED
      BY <3>1 DEF InFlight
  <2>2. CASE CreateRun(r)
    BY <1>1, <2>2 DEF CreateRun, TypeOK, TerminalRun
  <2>3. CASE RetrySection(r, c)
    BY <1>2, <2>3
  <2>4. QED
    BY <2>1, <2>2, <2>3, SectionChanges DEF SettledInv
<1>4. NoneSettles /\ NoneDelivers => SettledInv'
  BY <1>1, <1>3, SettledStep
<1>5. ASSUME NEW w \in Workers, Claim(w) PROVE SettledInv'
  <2>1. NoneSettles
    BY <1>1, <1>5 DEF Claim, TypeOK, TerminalRun
  <2>2. NoneDelivers
    BY <1>1, <1>5 DEF Claim, TypeOK
  <2>3. QED
    BY <1>4, <2>1, <2>2
<1>6. ASSUME NEW w \in Workers, WorkerStep(w) PROVE SettledInv'
  <2>1. \A v \in Workers \ {w} : pc'[v] = pc[v] /\ job'[v] = job[v]
    BY <1>1, <1>6, OneThreadMoves
  <2> DEFINE r == job[w].run
  <2>2. CASE ReadInputs(w) \/ DraftDone(w) \/ JobFailed(w) \/ ReconcileRead(w)
             \/ ReviseSection(w) \/ ReconcileDone(w) \/ AfterSection(w) \/ Push(w)
    <3>1. UNCHANGED <<runStatus, handoff>> /\ pc'[w] \notin {"deliver", "settle"}
      BY <1>1, <2>2 DEF ReadInputs, DraftDone, JobFailed, ReconcileRead, ReviseSection,
                        ReconcileDone, AfterSection, Push, Goto, Release, dbVars, TypeOK
    <3>2. QED
      BY <1>4, <2>1, <3>1
  <2>3. CASE Conclude(w)
    <3>1. UNCHANGED <<runStatus, handoff>> /\ pc'[w] \notin {"deliver", "settle"}
      BY <1>1, <2>3 DEF Conclude, Goto, dbVars, TypeOK
    <3>2. QED
      BY <1>4, <2>1, <3>1
  <2>4. CASE Notify(w)
    <3>1. UNCHANGED runStatus /\ pc[w] = "notify" /\ pc'[w] \notin {"deliver", "settle"}
      BY <1>1, <2>4 DEF Notify, Release, dbVars, TypeOK
    <3>2. \A v \in Workers : pc'[v] \notin {"deliver", "settle"}
      BY <2>1, <3>1 DEF SettledInv, OneFinalizer, Finalizing
    <3>3. QED
      BY <1>4, <3>1, <3>2
  <2>5. CASE Deliver(w)
    <3>1. UNCHANGED runStatus /\ pc[w] = "deliver" /\ job' = job
      BY <2>5 DEF Deliver, Goto, dbVars
    <3>2. handoff'.verdict = handoff.verdict
      BY <1>1, <2>5 DEF Deliver, TypeOK
    <3>3. QED
      BY <1>4, <2>1, <3>1, <3>2
  <2>6. CASE Settle(w)
    <3>1. r \in Runs /\ ~InFlight(r) /\ handoff.verdict = Verdict(r) /\ handoff.verdict \in TerminalRun
      BY <1>1, <2>6, WorkersJob, JobFields DEF Settle, SettledInv, VerdictStands, TypeOK
    <3>2. /\ runStatus' = [runStatus EXCEPT ![r] = handoff.verdict]
          /\ pc[w] = "settle" /\ pc'[w] = "conclude" /\ UNCHANGED status
      BY <1>1, <2>6 DEF Settle, Goto, TypeOK
    <3>3. \A q \in Runs : SameSections(q)
      BY <3>2 DEF SameSections
    <3>4. SettledRunAgreesWithSections'
      <4> SUFFICES ASSUME NEW q \in Runs, runStatus'[q] \in TerminalRun
                   PROVE  ~InFlight(q)' /\ runStatus'[q] = Verdict(q)'
        BY DEF SettledRunAgreesWithSections
      <4>1. ~InFlight(q) /\ runStatus'[q] = Verdict(q)
        BY <1>1, <3>1, <3>2 DEF SettledInv, SettledRunAgreesWithSections, TypeOK
      <4>2. QED
        BY <3>3, <4>1, SameVerdict
    <3>5. VerdictStands'
      BY <2>1, <3>2 DEF SettledInv, OneFinalizer, VerdictStands, Finalizing
    <3>6. QED
      BY <1>1, <3>4, <3>5 DEF SettledInv
  <2>7. CASE Finalize(w)
    <3>1. /\ r \in Runs
          /\ \A v \in Workers : pc[v] \notin Finalizing
      BY <1>1, <2>7, WorkersJob, JobFields DEF Finalize, FinalizeLocked
    <3>2. CASE NotLast(w) \/ DeferToReconcile(w)
      <4>1. UNCHANGED <<runStatus, handoff>> /\ pc'[w] \notin {"deliver", "settle"}
        BY <1>1, <3>2 DEF NotLast, DeferToReconcile, Release, TypeOK
      <4>2. QED
        BY <1>4, <2>1, <4>1
    <3>3. CASE SettleWithoutCam(w)
      <4>1. /\ runStatus' = [runStatus EXCEPT ![r] = Verdict(r)] /\ ~InFlight(r)
            /\ UNCHANGED status /\ pc'[w] \notin {"deliver", "settle"}
        BY <1>1, <3>3 DEF SettleWithoutCam, Settleable, Goto, Release, TypeOK
      <4>2. \A q \in Runs : SameSections(q)
        BY <4>1 DEF SameSections
      <4>3. SettledRunAgreesWithSections'
        <5> SUFFICES ASSUME NEW q \in Runs, runStatus'[q] \in TerminalRun
                     PROVE  ~InFlight(q)' /\ runStatus'[q] = Verdict(q)'
          BY DEF SettledRunAgreesWithSections
        <5>1. ~InFlight(q) /\ runStatus'[q] = Verdict(q)
          BY <1>1, <4>1 DEF SettledInv, SettledRunAgreesWithSections, TypeOK
        <5>2. QED
          BY <4>2, <5>1, SameVerdict
      <4>4. VerdictStands'
        BY <2>1, <3>1, <4>1 DEF VerdictStands, Finalizing
      <4>5. QED
        BY <1>1, <4>3, <4>4 DEF SettledInv
    <3>4. CASE PrepareHandoff(w)
      <4>1. /\ Open(r) /\ ~InFlight(r) /\ handoff'.verdict = Verdict(r)
            /\ job' = job /\ UNCHANGED <<runStatus, status>>
        BY <3>4 DEF PrepareHandoff, Settleable, Goto
      <4>2. \A q \in Runs : InFlight(q)' = InFlight(q) /\ Verdict(q)' = Verdict(q)
        BY <4>1, SameVerdict DEF SameSections
      <4>3. SettledRunAgreesWithSections'
        BY <4>1, <4>2 DEF SettledInv, SettledRunAgreesWithSections
      <4>4. r = job'[w].run /\ ~InFlight(r)' /\ handoff'.verdict = Verdict(r)' /\ Open(r)'
        BY <4>1 DEF InFlight, Verdict, SectionsIn
      <4>5. VerdictStands'
        BY <2>1, <3>1, <4>4 DEF VerdictStands, Finalizing
      <4>6. QED
        BY <1>1, <4>3, <4>5 DEF SettledInv
    <3>5. QED
      BY <2>7, <3>2, <3>3, <3>4 DEF Finalize
  <2>8. QED
    BY <1>6, <2>2, <2>3, <2>4, <2>5, <2>6, <2>7 DEF WorkerStep
<1>7. ASSUME NEW S \in SUBSET Expired, Reap(S) PROVE SettledInv'
  <2>1. \A v \in Workers : pc'[v] \in {"deliver", "settle"} => pc'[v] = pc[v] /\ job'[v] = job[v]
    BY <1>1, <1>7 DEF Reap, TypeOK
  <2>2. UNCHANGED <<runStatus, handoff>>
    BY <1>7 DEF Reap
  <2>3. QED
    BY <1>4, <2>1, <2>2
<1>8. ASSUME NEW r \in Runs, Request(r) PROVE SettledInv'
  <2>1. UNCHANGED <<pc, job, handoff>>
    BY <1>8 DEF Request, CreateRun, Announce, RetrySection, RegenerateSection, poolVars
  <2>2. NoneSettles
    BY <1>1, <1>8 DEF Request, CreateRun, Announce, RetrySection, RegenerateSection, dbVars,
                      TypeOK, TerminalRun
  <2>3. QED
    BY <1>4, <2>1, <2>2
<1>9. CASE Crash
  BY <1>4, <1>9 DEF Crash, dbVars
<1>10. CASE Rest \/ UNCHANGED vars
  BY <1>4, <1>10 DEF Rest, vars, dbVars, poolVars
<1>11. QED
  BY <1>5, <1>6, <1>7, <1>8, <1>9, <1>10 DEF Next

\* When a run is settled, nothing of it is left to draft, and its status is the
\* verdict over its sections, through crashes, lost and refused hand-offs and any
\* number of retries of settled runs.
THEOREM StatusAgrees ==
  ~SlowWorkers /\ ~EagerRetry => (SafeSpec => []SettledRunAgreesWithSections)
<1> SUFFICES ASSUME ~SlowWorkers, ~EagerRetry PROVE SafeSpec => []SettledRunAgreesWithSections
  OBVIOUS
<1>1. SettledInv /\ [Next]_vars => SettledInv'
  BY SettledNext
<1>2. SettledInv => SettledRunAgreesWithSections
  BY DEF SettledInv
<1>3. QED
  BY <1>1, <1>2, SettledInit, PTL DEF SafeSpec
-----------------------------------------------------------------------------
(* The dependency gate *)

\* What the gate saw at the claim still holds when the prompt is built.
GateStillHolds ==
  \A w \in Workers : pc[w] = "claimed" /\ job[w].kind = "initial" => DepsSatisfied(job[w])

GateInv == SettledInv /\ GateStillHolds

LEMMA SettledDependencyStays ==
  ASSUME ~SlowWorkers, ~EagerRetry, SettledInv, [Next]_vars,
         NEW w \in Workers, pc[w] \in {"claimed", "drafting"}, job[w].kind = "initial",
         NEW c \in Codes, status[Initial(job[w].run, c)] \in Terminal
  PROVE  status'[Initial(job[w].run, c)] = status[Initial(job[w].run, c)]
<1>1. /\ job[w].run \in Runs /\ job[w].code \in Codes
      /\ job[w] = Initial(job[w].run, job[w].code)
      /\ status[job[w]] = "running"
  BY WorkersJob, JobFields DEF SettledInv, ExclusiveInv, HeldIsRunning, Executing
<1>2. PICK r \in Runs : r = job[w].run
  BY <1>1
<1>3. InFlight(r)
  BY <1>1, <1>2 DEF InFlight
<1>4. runStatus[r] \notin TerminalRun
  BY <1>3 DEF SettledInv, SettledRunAgreesWithSections
<1>5. CASE status'[Initial(r, c)] # status[Initial(r, c)]
  <2>1. RetrySection(r, c)
    BY <1>2, <1>5, SectionChanges DEF SettledInv, Terminal
  <2>2. EagerRetry \/ runStatus[r] \in TerminalRun
    BY <2>1 DEF RetrySection
  <2>3. QED
    BY <1>4, <2>2
<1>6. QED
  BY <1>2, <1>5

LEMMA GateNext == ~SlowWorkers /\ ~EagerRetry /\ GateInv /\ [Next]_vars => GateInv'
<1> SUFFICES ASSUME ~SlowWorkers, ~EagerRetry, GateInv, [Next]_vars PROVE GateInv'
  OBVIOUS
<1>1. TypeOK /\ SettledInv'
  BY SettledNext DEF GateInv, SettledInv, ExclusiveInv
<1>2. ASSUME NEW w \in Workers, pc'[w] = "claimed", job'[w].kind = "initial"
      PROVE  DepsSatisfied(job[w])'
  <2>1. CASE pc[w] = "claimed" /\ job'[w] = job[w]
    <3>1. DepsSatisfied(job[w])
      BY <1>2, <2>1 DEF GateInv, GateStillHolds
    <3>2. \A c \in DependsOn[job[w].code] : c \in Codes
      <4>1. job[w].code \in Codes
        BY <1>1, <1>2, <2>1, WorkersJob, JobFields
      <4>2. DependsOn \in [Codes -> SUBSET Codes]
        BY OrchestrationAssumption DEF SectionsAssumption
      <4>3. QED
        BY <4>1, <4>2
    <3>3. \A c \in DependsOn[job[w].code] :
             status'[Initial(job[w].run, c)] = status[Initial(job[w].run, c)]
      BY <1>2, <2>1, <3>1, <3>2, SettledDependencyStays DEF GateInv, DepsSatisfied, DepsOf
    <3>4. QED
      BY <1>2, <2>1, <3>1, <3>3 DEF DepsSatisfied, DepsOf, Initial
  <2>2. CASE ~(pc[w] = "claimed" /\ job'[w] = job[w])
    <3>1. Claim(w)
      <4>1. ASSUME NEW v \in Workers, Claim(v) \/ WorkerStep(v), v # w PROVE FALSE
        BY <1>1, <1>2, <2>2, <4>1, OneThreadMoves
      <4>2. ~WorkerStep(w)
        <5>1. CASE ReadInputs(w) \/ DraftDone(w) \/ JobFailed(w) \/ ReconcileRead(w)
                   \/ ReconcileDone(w)
          BY <1>1, <1>2, <5>1 DEF ReadInputs, DraftDone, JobFailed, ReconcileRead, ReconcileDone, TypeOK
        <5>2. CASE ReviseSection(w)
          BY <1>2, <5>2 DEF ReviseSection
        <5>3. CASE AfterSection(w) \/ Push(w) \/ Deliver(w) \/ Settle(w) \/ Conclude(w) \/ Notify(w)
          BY <1>1, <1>2, <5>3
          DEF AfterSection, Push, Deliver, Settle, Conclude, Notify, Goto, Release, TypeOK
        <5>4. CASE Finalize(w)
          BY <1>1, <1>2, <5>4
          DEF Finalize, NotLast, DeferToReconcile, SettleWithoutCam, PrepareHandoff, Goto,
              Release, TypeOK
        <5>5. QED
          BY <5>1, <5>2, <5>3, <5>4 DEF WorkerStep
      <4>3. ~(\E S \in SUBSET Expired : Reap(S))
        BY <1>1, <1>2, <2>2 DEF Reap, TypeOK
      <4>4. ~(\E r \in Runs : Request(r))
        BY <1>2, <2>2 DEF Request, CreateRun, Announce, RetrySection, RegenerateSection, poolVars
      <4>5. ~Crash /\ ~Rest /\ ~UNCHANGED vars
        BY <1>2, <2>2 DEF Crash, Rest, vars, poolVars
      <4>6. QED
        BY <4>1, <4>2, <4>3, <4>4, <4>5 DEF Next
    <3>2. PICK j \in Jobs : /\ job' = [job EXCEPT ![w] = j]
                            /\ status' = [status EXCEPT ![j] = "running"]
                            /\ status[j] = "queued"
                            /\ j.kind # "reconcile" => DepsSatisfied(j)
      BY <1>1, <1>2, <2>2, <3>1 DEF Claim, Ready, TypeOK
    <3>3. job'[w] = j /\ DepsSatisfied(j)
      BY <1>1, <1>2, <3>2 DEF TypeOK
    <3>4. \A c \in DepsOf(j) : status'[Initial(j.run, c)] \in Terminal
      BY <3>2, <3>3, <1>1 DEF DepsSatisfied, TypeOK, Terminal
    <3>5. QED
      BY <3>3, <3>4 DEF DepsSatisfied, DepsOf, Initial
  <2>3. QED
    BY <2>1, <2>2
<1>3. GateStillHolds'
  BY <1>2 DEF GateStillHolds
<1>4. QED
  BY <1>1, <1>3 DEF GateInv

\* A section's prompt is built when every section it depends on is terminal, as
\* long as sections are retried only once their run has settled (worker.py,
\* comment in _section_payload).
THEOREM DraftsFromSettledDependencies ==
  ~SlowWorkers /\ ~EagerRetry => (SafeSpec => DependenciesSettledAtDraft)
<1> SUFFICES ASSUME ~SlowWorkers, ~EagerRetry PROVE SafeSpec => DependenciesSettledAtDraft
  OBVIOUS
<1> DEFINE Gated == \A w \in Workers : ReadInputs(w) /\ job[w].kind = "initial" =>
                      \A c \in DependsOn[job[w].code] :
                         status[Initial(job[w].run, c)] \in Terminal
<1>1. Init => GateInv
  BY SettledInit DEF Init, GateInv, GateStillHolds
<1>2. GateInv /\ [Next]_vars => GateInv'
  BY GateNext
<1>3. GateInv => [Gated]_vars
  BY DEF GateInv, GateStillHolds, ReadInputs, DepsSatisfied, DepsOf
<1>4. QED
  BY <1>1, <1>2, <1>3, PTL DEF SafeSpec, DependenciesSettledAtDraft
-----------------------------------------------------------------------------
(* The inputs of a draft *)

\* What a prompt was built from is still the output of the same sections.
InputsAreFinal ==
  \A w \in Workers : pc[w] = "drafting" /\ job[w].kind = "initial" =>
     /\ DepsSatisfied(job[w])
     /\ input[w] = DependsOn[job[w].code] \cap SectionsIn(job[w].run, "complete")

FinalInputsInv == GateInv /\ InputsAreFinal

LEMMA DraftingGoesOn ==
  ASSUME TypeOK, [Next]_vars, NEW w \in Workers, pc'[w] = "drafting"
  PROVE  \/ ReadInputs(w)
         \/ pc[w] = "drafting" /\ job'[w] = job[w] /\ input'[w] = input[w]
<1>1. ASSUME NEW v \in Workers, Claim(v) \/ WorkerStep(v), v # w
      PROVE  pc[w] = "drafting" /\ job'[w] = job[w] /\ input'[w] = input[w]
  <2>1. pc'[w] = pc[w] /\ job'[w] = job[w]
    BY <1>1, OneThreadMoves
  <2>2. input'[w] = input[w]
    BY <1>1 DEF Claim, WorkerStep, ReadInputs, DraftDone, JobFailed, ReconcileRead,
                ReviseSection, ReconcileDone, AfterSection, Push, Finalize, Deliver, Settle,
                Conclude, Notify, TypeOK
  <2> QED
    BY <2>1, <2>2
<1>2. CASE Claim(w)
  BY <1>2 DEF Claim, TypeOK
<1>3. CASE WorkerStep(w)
  <2>1. ~(DraftDone(w) \/ JobFailed(w) \/ ReconcileRead(w) \/ ReviseSection(w) \/ ReconcileDone(w))
    BY DEF DraftDone, JobFailed, ReconcileRead, ReviseSection, ReconcileDone, TypeOK
  <2>2. ~(AfterSection(w) \/ Push(w) \/ Finalize(w) \/ Deliver(w) \/ Settle(w) \/ Conclude(w)
            \/ Notify(w))
    <3>1. ~Release(w) /\ \A l \in Labels \ {"drafting"} : ~Goto(w, l)
      BY DEF Release, Goto, TypeOK
    <3> QED
      BY <3>1 DEF AfterSection, Push, Finalize, NotLast, DeferToReconcile, SettleWithoutCam,
                  PrepareHandoff, Deliver, Settle, Conclude, Notify, Labels, Finalizing
  <2> QED
    BY <1>3, <2>1, <2>2 DEF WorkerStep
<1>4. ASSUME NEW S \in SUBSET Expired, Reap(S)
      PROVE  pc[w] = "drafting" /\ job'[w] = job[w] /\ input'[w] = input[w]
  BY <1>4 DEF Reap, TypeOK
<1>5. ASSUME NEW r \in Runs, Request(r)
      PROVE  pc[w] = "drafting" /\ job'[w] = job[w] /\ input'[w] = input[w]
  BY <1>5 DEF Request, CreateRun, Announce, RetrySection, RegenerateSection, poolVars
<1>6. ~Crash
  BY DEF Crash
<1>7. CASE Rest \/ UNCHANGED vars
  BY <1>7 DEF Rest, vars, poolVars
<1> QED
  BY <1>1, <1>2, <1>3, <1>4, <1>5, <1>6, <1>7 DEF Next

LEMMA FinalInputsNext ==
  ~SlowWorkers /\ ~EagerRetry /\ FinalInputsInv /\ [Next]_vars => FinalInputsInv'
<1> SUFFICES ASSUME ~SlowWorkers, ~EagerRetry, FinalInputsInv, [Next]_vars PROVE InputsAreFinal'
  BY GateNext DEF FinalInputsInv
<1>1. TypeOK /\ SettledInv
  BY DEF FinalInputsInv, GateInv, SettledInv, ExclusiveInv
<1> SUFFICES ASSUME NEW w \in Workers, pc'[w] = "drafting", job'[w].kind = "initial"
             PROVE  /\ DepsSatisfied(job[w])'
                    /\ input'[w] = DependsOn[job'[w].code] \cap SectionsIn(job[w].run, "complete")'
  BY DEF InputsAreFinal
<1>2. CASE ReadInputs(w)
  <2>1. /\ pc[w] = "claimed" /\ job' = job /\ status' = status
        /\ input'[w] = {c \in DepsOf(job[w]) : c \in SectionsIn(job[w].run, "complete")}
    BY <1>1, <1>2 DEF ReadInputs, dbVars, TypeOK
  <2>2. DepsSatisfied(job[w])
    BY <2>1 DEF FinalInputsInv, GateInv, GateStillHolds
  <2> QED
    BY <2>1, <2>2 DEF DepsSatisfied, DepsOf, SectionsIn
<1>3. CASE pc[w] = "drafting" /\ job'[w] = job[w] /\ input'[w] = input[w]
  <2>1. PICK j \in Jobs : j = job[w]
    BY <1>1, <1>3, WorkersJob
  <2>2. PICK r \in Runs : r = j.run
    BY <2>1, JobFields
  <2>3. DependsOn[j.code] \subseteq Codes
    <3>1. j.code \in Codes
      BY <1>3, <2>1, JobFields
    <3> QED
      BY <3>1, OrchestrationAssumption DEF SectionsAssumption
  <2>4. /\ \A c \in DependsOn[j.code] : status[Initial(r, c)] \in Terminal
        /\ input[w] = DependsOn[j.code] \cap SectionsIn(r, "complete")
    BY <1>3, <2>1, <2>2 DEF FinalInputsInv, InputsAreFinal, DepsSatisfied, DepsOf
  <2>5. \A c \in DependsOn[j.code] : status'[Initial(r, c)] = status[Initial(r, c)]
    BY <1>1, <1>3, <2>1, <2>2, <2>3, <2>4, SettledDependencyStays
  <2>6. \A c \in DependsOn[j.code] : status'[Initial(r, c)] \in Terminal
    BY <2>4, <2>5
  <2>7. input'[w] = DependsOn[j.code] \cap SectionsIn(r, "complete")'
    BY <1>3, <2>4, <2>5 DEF SectionsIn, Initial
  <2>8. job'[w] = j
    BY <1>3, <2>1
  <2> QED
    BY <2>2, <2>6, <2>7, <2>8 DEF DepsSatisfied, DepsOf, SectionsIn, Initial
<1> QED
  BY <1>1, <1>2, <1>3, DraftingGoesOn

\* Under the same provisos the outputs a draft was built from are, when the draft is
\* committed, still those of the completed sections it depends on (contracts.md:355).
THEOREM DraftsRestOnFinalOutputs ==
  ~SlowWorkers /\ ~EagerRetry => (SafeSpec => DraftRestsOnFinalOutputs)
<1> SUFFICES ASSUME ~SlowWorkers, ~EagerRetry PROVE SafeSpec => DraftRestsOnFinalOutputs
  OBVIOUS
<1> DEFINE Rests == \A w \in Workers : DraftDone(w) /\ job[w].kind = "initial" =>
                      input[w] = DependsOn[job[w].code] \cap SectionsIn(job[w].run, "complete")
<1>1. Init => FinalInputsInv
  BY SettledInit DEF Init, FinalInputsInv, GateInv, GateStillHolds, InputsAreFinal
<1>2. FinalInputsInv /\ [Next]_vars => FinalInputsInv'
  BY FinalInputsNext
<1>3. FinalInputsInv => [Rests]_vars
  BY DEF FinalInputsInv, InputsAreFinal, DraftDone
<1> QED
  BY <1>1, <1>2, <1>3, PTL DEF SafeSpec, DraftRestsOnFinalOutputs
-----------------------------------------------------------------------------
(* The hand-off, step by step *)

\* The thread in the middle of _maybe_finalize waits, and nobody else settles a run,
\* hands over or reports a case.
HandoffWaits(w) ==
  /\ pc'[w] = pc[w] /\ job'[w] = job[w]
  /\ UNCHANGED <<handoff, camId, cams>>
  /\ \A r \in Runs : runStatus'[r] \in TerminalRun => runStatus'[r] = runStatus[r]
  /\ \A r \in Runs : caseStatus'[r] \in {caseStatus[r], "generating"}

LEMMA HandoffMoves ==
  ASSUME TypeOK, OneFinalizer, [Next]_vars, NEW w \in Workers, pc'[w] \in Finalizing
  PROVE  \/ Finalize(w) /\ PrepareHandoff(w) /\ pc'[w] = "deliver"
         \/ /\ Finalize(w) /\ SettleWithoutCam(w) /\ pc'[w] = "conclude"
            /\ Verdict(job[w].run) = "failed"
         \/ Deliver(w) /\ pc'[w] = "settle"
         \/ Settle(w) /\ pc'[w] = "conclude"
         \/ Conclude(w) /\ pc'[w] = "notify"
         \/ HandoffWaits(w)
<1>1. ASSUME NEW v \in Workers \ {w}, Claim(v) \/ WorkerStep(v)
      PROVE  HandoffWaits(w)
  <2>1. pc'[w] = pc[w] /\ job'[w] = job[w] /\ pc[v] \notin Finalizing
    BY <1>1, OneThreadMoves DEF OneFinalizer
  <2>2. ~Finalize(v) /\ ~Deliver(v) /\ ~Settle(v) /\ ~Conclude(v) /\ ~Notify(v)
    BY <2>1 DEF Finalize, FinalizeLocked, Deliver, Settle, Conclude, Notify, Finalizing
  <2>3. \A r \in Runs : runStatus'[r] \in TerminalRun => runStatus'[r] = runStatus[r]
    BY <1>1, <2>2 DEF WorkerStep, Claim, ReadInputs, DraftDone, JobFailed, ReconcileRead,
                      ReviseSection, ReconcileDone, AfterSection, Push, dbVars, TypeOK, TerminalRun
  <2>4. UNCHANGED <<handoff, camId, cams, caseStatus>>
    BY <1>1, <2>2 DEF WorkerStep, Claim, ReadInputs, DraftDone, JobFailed, ReconcileRead,
                      ReviseSection, ReconcileDone, AfterSection, Push, dbVars, outVars
  <2> QED
    BY <2>1, <2>3, <2>4 DEF HandoffWaits
<1>2. ~Claim(w)
  BY DEF Claim, TypeOK, Finalizing
<1>3. ASSUME WorkerStep(w)
      PROVE  \/ Finalize(w) /\ PrepareHandoff(w) /\ pc'[w] = "deliver"
             \/ /\ Finalize(w) /\ SettleWithoutCam(w) /\ pc'[w] = "conclude"
                /\ Verdict(job[w].run) = "failed"
             \/ Deliver(w) /\ pc'[w] = "settle"
             \/ Settle(w) /\ pc'[w] = "conclude"
             \/ Conclude(w) /\ pc'[w] = "notify"
  <2>1. ~Release(w)
    BY DEF Release, TypeOK, Finalizing
  <2>2. \A l \in Labels : Goto(w, l) => pc'[w] = l
    BY DEF Goto, TypeOK
  <2>3. ~(ReadInputs(w) \/ DraftDone(w) \/ JobFailed(w) \/ ReconcileRead(w) \/ ReconcileDone(w))
    BY DEF ReadInputs, DraftDone, JobFailed, ReconcileRead, ReconcileDone, TypeOK, Finalizing
  <2>4. ~ReviseSection(w)
    BY DEF ReviseSection, Finalizing
  <2>5. ~(AfterSection(w) \/ Push(w) \/ Notify(w))
    BY <2>1, <2>2 DEF AfterSection, Push, Notify, Labels, Finalizing
  <2>6. CASE Finalize(w)
    BY <2>1, <2>2, <2>6
    DEF Finalize, NotLast, DeferToReconcile, SettleWithoutCam, PrepareHandoff, Labels, Finalizing
  <2>7. CASE Deliver(w) \/ Settle(w) \/ Conclude(w)
    BY <2>2, <2>7 DEF Deliver, Settle, Conclude, Labels, Finalizing
  <2> QED
    BY <1>3, <2>3, <2>4, <2>5, <2>6, <2>7 DEF WorkerStep
<1>4. ASSUME NEW S \in SUBSET Expired, Reap(S)
      PROVE  HandoffWaits(w)
  BY <1>4 DEF Reap, HandoffWaits, outVars, Finalizing, TypeOK
<1>5. ASSUME NEW r \in Runs, Request(r)
      PROVE  HandoffWaits(w)
  <2>1. UNCHANGED <<pc, job, handoff, camId, cams>>
    BY <1>5 DEF Request, CreateRun, Announce, RetrySection, RegenerateSection, poolVars,
                dbVars, outVars
  <2>2. \A q \in Runs : runStatus'[q] \in TerminalRun => runStatus'[q] = runStatus[q]
    BY <1>5 DEF Request, CreateRun, Announce, RetrySection, RegenerateSection, dbVars,
                TypeOK, TerminalRun
  <2>3. \A q \in Runs : caseStatus'[q] \in {caseStatus[q], "generating"}
    BY <1>5 DEF Request, CreateRun, Announce, RetrySection, RegenerateSection, outVars, TypeOK
  <2> QED
    BY <2>1, <2>2, <2>3 DEF HandoffWaits
<1>6. ~Crash
  BY DEF Crash, Finalizing
<1>7. CASE Rest \/ UNCHANGED vars
  BY <1>7 DEF Rest, vars, dbVars, poolVars, outVars, HandoffWaits
<1> QED
  BY <1>1, <1>2, <1>3, <1>4, <1>5, <1>6, <1>7 DEF Next

\* When the lock is free again, nothing is left in hand.
LEMMA HandoffEnds ==
  ASSUME TypeOK, [Next]_vars, \A w \in Workers : pc'[w] \notin Finalizing
  PROVE  \/ handoff' = NoHandoff
         \/ UNCHANGED handoff /\ \A w \in Workers : pc[w] \notin Finalizing
<1>1. ASSUME NEW v \in Workers, Claim(v) \/ WorkerStep(v)
      PROVE  \/ handoff' = NoHandoff
             \/ UNCHANGED handoff /\ \A w \in Workers : pc[w] \notin Finalizing
  <2>1. \A w \in Workers \ {v} : pc[w] \notin Finalizing
    BY <1>1, OneThreadMoves
  <2>2. CASE \/ Claim(v) \/ ReadInputs(v) \/ DraftDone(v) \/ JobFailed(v) \/ ReconcileRead(v)
             \/ ReviseSection(v) \/ ReconcileDone(v) \/ AfterSection(v) \/ Push(v)
    <3>1. pc[v] \notin Finalizing /\ UNCHANGED handoff
      BY <2>2 DEF Claim, ReadInputs, DraftDone, JobFailed, ReconcileRead, ReviseSection,
                  ReconcileDone, AfterSection, Push, Finalizing, Executing
    <3> QED
      BY <2>1, <3>1
  <2>3. CASE Finalize(v)
    <3>1. ~PrepareHandoff(v)
      BY DEF PrepareHandoff, Goto, Finalizing, TypeOK
    <3> QED
      BY <2>3, <3>1 DEF Finalize, FinalizeLocked, NotLast, DeferToReconcile, SettleWithoutCam
  <2>4. ~Deliver(v) /\ ~Settle(v) /\ ~Conclude(v)
    BY DEF Deliver, Settle, Conclude, Goto, Finalizing, TypeOK
  <2>5. CASE Notify(v)
    BY <2>5 DEF Notify
  <2> QED
    BY <1>1, <2>2, <2>3, <2>4, <2>5 DEF WorkerStep
<1>2. ASSUME NEW S \in SUBSET Expired, Reap(S)
      PROVE  UNCHANGED handoff /\ \A w \in Workers : pc[w] \notin Finalizing
  BY <1>2 DEF Reap, Finalizing, TypeOK
<1>3. ASSUME NEW r \in Runs, Request(r)
      PROVE  UNCHANGED <<handoff, pc>>
  BY <1>3 DEF Request, CreateRun, Announce, RetrySection, RegenerateSection, poolVars
<1>4. CASE Crash
  BY <1>4 DEF Crash
<1>5. CASE Rest \/ UNCHANGED vars
  BY <1>5 DEF Rest, vars, poolVars
<1> QED
  BY <1>1, <1>2, <1>3, <1>4, <1>5 DEF Next
-----------------------------------------------------------------------------
(* The memo-level phase comes before the hand-off *)

\* What is about to be handed over was reconciled, or is one section at most.
HandoffIsReviewed ==
  \A w \in Workers : pc[w] = "deliver" /\ WantsReconcile =>
     \/ status[ReconcileOf(job[w].run)] \in Terminal
     \/ \A c, d \in Codes : handoff.drafts[c] # "none" /\ handoff.drafts[d] # "none" => c = d

ReviewInv == TypeOK /\ OneFinalizer /\ HandoffIsReviewed

\* A job that has ended stays ended, unless an analyst retries it; with slow workers its
\* outcome may still change.
LEMMA EndedStaysEnded ==
  ASSUME TypeOK, [Next]_vars, NEW j \in Jobs, j.kind # "initial", status[j] \in Terminal
  PROVE  status'[j] \in Terminal
<1>1. j \notin InitialJobs
  BY DEF InitialJobs
<1>2. ASSUME NEW w \in Workers, Claim(w)
      PROVE  status'[j] \in Terminal
  BY <1>2 DEF Claim, Ready, TypeOK, Terminal
<1>3. ASSUME NEW w \in Workers, WorkerStep(w)
      PROVE  status'[j] \in Terminal
  <2>1. CASE DraftDone(w) \/ JobFailed(w) \/ ReconcileDone(w)
    BY <2>1 DEF DraftDone, JobFailed, ReconcileDone, TypeOK, Terminal
  <2>2. CASE Finalize(w)
    BY <2>2 DEF Finalize, NotLast, DeferToReconcile, SettleWithoutCam, PrepareHandoff, TypeOK,
                Terminal
  <2>3. CASE ReadInputs(w) \/ ReconcileRead(w) \/ ReviseSection(w) \/ AfterSection(w) \/ Push(w)
             \/ Deliver(w) \/ Settle(w) \/ Conclude(w) \/ Notify(w)
    BY <2>3 DEF ReadInputs, ReconcileRead, ReviseSection, AfterSection, Push, Deliver, Settle,
                Conclude, Notify, dbVars
  <2> QED
    BY <1>3, <2>1, <2>2, <2>3 DEF WorkerStep
<1>4. ASSUME NEW S \in SUBSET Expired, Reap(S)
      PROVE  status'[j] \in Terminal
  BY <1>4 DEF Reap, Expired, Expirable, Terminal
<1>5. ASSUME NEW r \in Runs, Request(r)
      PROVE  status'[j] \in Terminal
  <2>1. CASE CreateRun(r)
    BY <1>1, <2>1 DEF CreateRun
  <2>2. CASE Announce(r)
    BY <2>2 DEF Announce, dbVars
  <2>3. CASE \E c \in Codes : RetrySection(r, c)
    BY <2>3 DEF RetrySection, Initial, TypeOK
  <2>4. CASE \E c \in Regenerable : RegenerateSection(r, c)
    BY <2>4 DEF RegenerateSection, TypeOK, Terminal
  <2> QED
    BY <1>5, <2>1, <2>2, <2>3, <2>4 DEF Request
<1>6. CASE Crash \/ Rest \/ UNCHANGED vars
  BY <1>6 DEF Crash, Rest, vars, dbVars
<1> QED
  BY <1>2, <1>3, <1>4, <1>5, <1>6 DEF Next

\* Only the thread that posts the CAM of a run creates one.
LEMMA CamCreated ==
  ASSUME TypeOK, [Next]_vars, NEW r \in Runs, cams'[r] # cams[r]
  PROVE  \E w \in Workers : Deliver(w) /\ job[w].run = r
<1>1. ASSUME NEW w \in Workers, Claim(w) \/ WorkerStep(w)
      PROVE  Deliver(w)
  BY <1>1 DEF Claim, WorkerStep, ReadInputs, DraftDone, JobFailed, ReconcileRead, ReviseSection,
              ReconcileDone, AfterSection, Push, Finalize, Settle, Conclude, Notify, outVars
<1>2. ~(\E S \in SUBSET Expired : Reap(S))
  BY DEF Reap, outVars
<1>3. ~(\E q \in Runs : Request(q))
  BY DEF Request, CreateRun, Announce, RetrySection, RegenerateSection, outVars
<1>4. ~Crash /\ ~Rest /\ ~UNCHANGED vars
  BY DEF Crash, Rest, vars, outVars
<1>5. PICK w \in Workers : Deliver(w)
  BY <1>1, <1>2, <1>3, <1>4 DEF Next
<1>6. job[w].run = r
  BY <1>5 DEF Deliver, TypeOK
<1> QED
  BY <1>5, <1>6

LEMMA ReviewNext == ReviewInv /\ [Next]_vars => ReviewInv'
<1> SUFFICES ASSUME ReviewInv, [Next]_vars PROVE HandoffIsReviewed'
  BY NextType, LockNext DEF ReviewInv
<1>1. TypeOK /\ OneFinalizer
  BY DEF ReviewInv
<1> SUFFICES ASSUME NEW w \in Workers, pc'[w] = "deliver", WantsReconcile
             PROVE  \/ status'[ReconcileOf(job'[w].run)] \in Terminal
                    \/ \A c, d \in Codes :
                          handoff'.drafts[c] # "none" /\ handoff'.drafts[d] # "none" => c = d
  BY DEF HandoffIsReviewed, ReconcileOf
<1>2. CASE Finalize(w) /\ PrepareHandoff(w)
  <2>1. PICK r \in Runs : r = job[w].run
    BY <1>1, <1>2, WorkersJob, JobFields DEF Finalize
  <2>2. /\ ~ReconcileDue(r) /\ camId[r] = 0
        /\ handoff' = [verdict |-> Verdict(r), drafts |-> CamSections(r), cam |-> 0]
        /\ UNCHANGED <<status, job>>
    BY <1>2, <2>1 DEF PrepareHandoff, Goto
  <2>3. handoff'.drafts = CamSections(r)
    BY <2>2
  <2>4. \A c \in Codes : handoff'.drafts[c] # "none" => c \in SectionsIn(r, "complete")
    BY <2>3 DEF CamSections
  <2>5. \/ status[ReconcileOf(r)] \in Terminal
        \/ \A c, d \in SectionsIn(r, "complete") : c = d
    BY <2>2 DEF ReconcileDue
  <2> QED
    BY <2>1, <2>2, <2>4, <2>5 DEF ReconcileOf
<1>3. CASE pc[w] = "deliver" /\ HandoffWaits(w)
  <2>1. PICK r \in Runs : r = job[w].run
    BY <1>1, <1>3, WorkersJob, JobFields
  <2>2. job'[w].run = r /\ handoff' = handoff
    BY <1>3, <2>1 DEF HandoffWaits
  <2>3. ReconcileOf(r) \in Jobs /\ ReconcileOf(r).kind # "initial"
    BY RowsAreJobs DEF ReconcileOf
  <2>4. status[ReconcileOf(r)] \in Terminal => status'[ReconcileOf(r)] \in Terminal
    BY <1>1, <2>3, EndedStaysEnded
  <2> QED
    BY <1>3, <2>1, <2>2, <2>4 DEF ReviewInv, HandoffIsReviewed
<1> QED
  BY <1>1, <1>2, <1>3, HandoffMoves DEF Finalizing, HandoffWaits

\* A CAM with two drafted sections is created only when the run's one reconcile job has
\* ended, whatever crashes, retries and slow workers do meanwhile (_maybe_finalize).
THEOREM ReconcileComesFirst == SafeSpec => ReconciledBeforeHandoff
<1> DEFINE Reviewed == \A r \in Runs : cams'[r] > cams[r] /\ WantsReconcile =>
                         \/ status[ReconcileOf(r)] \in Terminal
                         \/ \A c, d \in Codes :
                              handoff.drafts[c] # "none" /\ handoff.drafts[d] # "none" => c = d
<1>1. Init => ReviewInv
  BY InitType DEF Init, ReviewInv, OneFinalizer, HandoffIsReviewed, Finalizing
<1>2. ReviewInv /\ [Next]_vars => ReviewInv'
  BY ReviewNext
<1>3. ReviewInv /\ [Next]_vars => [Reviewed]_vars
  <2> SUFFICES ASSUME ReviewInv, [Next]_vars, NEW r \in Runs, cams'[r] > cams[r], WantsReconcile
               PROVE  \/ status[ReconcileOf(r)] \in Terminal
                      \/ \A c, d \in Codes :
                           handoff.drafts[c] # "none" /\ handoff.drafts[d] # "none" => c = d
    OBVIOUS
  <2>1. cams'[r] # cams[r]
    BY DEF ReviewInv, TypeOK
  <2>2. PICK w \in Workers : Deliver(w) /\ job[w].run = r
    BY <2>1, CamCreated DEF ReviewInv
  <2> QED
    BY <2>2 DEF Deliver, ReviewInv, HandoffIsReviewed
<1> QED
  BY <1>1, <1>2, <1>3, PTL DEF SafeSpec, ReconciledBeforeHandoff
-----------------------------------------------------------------------------
(* The status of the case *)

Drafted(r) == SectionsIn(r, "complete") # {}

\* A case that shows a memo has a drafted section, and so has a verdict other than
\* "failed" that is on its way; a "failed" one is never on its way to such a case.
CaseIsEarned ==
  /\ (\A w \in Workers : pc[w] \notin Finalizing) => handoff.verdict = "failed"
  /\ \A r \in Runs : caseStatus[r] = "drafted" => Drafted(r)
  /\ \A w \in Workers :
        /\ pc[w] \in {"deliver", "settle"}
              => handoff.verdict # "failed" /\ Drafted(job[w].run)
        /\ pc[w] = "conclude"
              => IF handoff.verdict = "failed" THEN caseStatus[job[w].run] # "drafted"
                 ELSE Drafted(job[w].run)

CaseInv == ExclusiveInv /\ OneFinalizer /\ CaseIsEarned

LEMMA CaseInit == Init => CaseInv
<1>1. Init => OneFinalizer /\ CaseIsEarned
  BY DEF Init, OneFinalizer, CaseIsEarned, NoHandoff, Finalizing
<1> QED
  BY <1>1, ExclusiveInit DEF CaseInv

\* A section that is drafted stays drafted, so that its run never fails again.
LEMMA DraftedStays ==
  ASSUME ~SlowWorkers, ExclusiveInv, [Next]_vars, NEW r \in Runs, Drafted(r)
  PROVE  Drafted(r)'
<1>1. PICK c \in Codes : status[Initial(r, c)] = "complete"
  BY DEF Drafted, SectionsIn
<1>2. status'[Initial(r, c)] = "complete"
  BY <1>1, CompletedStays, RowsAreJobs
<1> QED
  BY <1>2 DEF Drafted, SectionsIn, Initial

LEMMA CaseMoves ==
  ASSUME TypeOK, [Next]_vars, NEW r \in Runs,
         caseStatus'[r] # caseStatus[r], caseStatus'[r] # "generating"
  PROVE  \E w \in Workers :
            /\ Conclude(w) /\ job[w].run = r
            /\ caseStatus'[r] = "open" => handoff.verdict = "failed"
            /\ caseStatus'[r] = "drafted" => handoff.verdict # "failed"
<1>1. ASSUME NEW w \in Workers, Claim(w) \/ WorkerStep(w)
      PROVE  Conclude(w)
  BY <1>1 DEF Claim, WorkerStep, ReadInputs, DraftDone, JobFailed, ReconcileRead, ReviseSection,
              ReconcileDone, AfterSection, Push, Finalize, Deliver, Settle, Notify, outVars
<1>2. ~(\E S \in SUBSET Expired : Reap(S))
  BY DEF Reap, outVars
<1>3. ~(\E q \in Runs : Request(q))
  BY DEF Request, CreateRun, Announce, RetrySection, RegenerateSection, outVars, TypeOK
<1>4. ~Crash /\ ~Rest /\ ~UNCHANGED vars
  BY DEF Crash, Rest, vars, outVars
<1>5. PICK w \in Workers : Conclude(w)
  BY <1>1, <1>2, <1>3, <1>4 DEF Next
<1>6. caseStatus' = [caseStatus EXCEPT ![job[w].run] =
                       IF handoff.verdict = "failed" THEN "open"
                       ELSE IF handoff.cam # 0 THEN "drafted" ELSE @]
  BY <1>5 DEF Conclude
<1> QED
  BY <1>5, <1>6 DEF TypeOK

LEMMA CaseNext == ~SlowWorkers /\ CaseInv /\ [Next]_vars => CaseInv'
<1> SUFFICES ASSUME ~SlowWorkers, CaseInv, [Next]_vars PROVE CaseIsEarned'
  BY ExclusiveNext, LockNext DEF CaseInv, ExclusiveInv
<1>1. TypeOK /\ OneFinalizer /\ ExclusiveInv /\ CaseIsEarned
  BY DEF CaseInv, ExclusiveInv
<1>2. (\A w \in Workers : pc'[w] \notin Finalizing) => handoff'.verdict = "failed"
  BY <1>1, HandoffEnds DEF CaseIsEarned, NoHandoff
<1>3. ASSUME NEW r \in Runs, caseStatus'[r] = "drafted"
      PROVE  Drafted(r)'
  <2>1. Drafted(r)
    BY <1>1, <1>3, CaseMoves DEF CaseIsEarned, Conclude
  <2> QED
    BY <1>1, <2>1, DraftedStays
<1>4. ASSUME NEW w \in Workers, pc'[w] \in {"deliver", "settle"}
      PROVE  handoff'.verdict # "failed" /\ Drafted(job[w].run)'
  <2>1. PICK r \in Runs : r = job[w].run
    BY <1>1, <1>4, HandoffMoves, WorkersJob, JobFields
    DEF HandoffWaits, Finalizing, Finalize, Deliver
  <2>2. CASE Finalize(w) /\ PrepareHandoff(w)
    <3>1. handoff'.verdict # "failed" /\ Drafted(r) /\ job' = job
      BY <2>1, <2>2 DEF PrepareHandoff, Verdict, Drafted, Goto
    <3>2. Drafted(r)'
      BY <1>1, <3>1, DraftedStays
    <3> QED
      BY <2>1, <3>1, <3>2 DEF Drafted, SectionsIn
  <2>3. CASE Deliver(w) \/ HandoffWaits(w)
    <3>1. /\ pc[w] \in {"deliver", "settle"} /\ job'[w] = job[w]
          /\ handoff'.verdict = handoff.verdict
      BY <1>1, <1>4, <2>3 DEF Deliver, Goto, HandoffWaits, TypeOK
    <3>2. handoff.verdict # "failed" /\ Drafted(r)
      BY <1>1, <2>1, <3>1 DEF CaseIsEarned
    <3>3. Drafted(r)'
      BY <1>1, <3>2, DraftedStays
    <3> QED
      BY <2>1, <3>1, <3>2, <3>3 DEF Drafted, SectionsIn
  <2> QED
    BY <1>1, <1>4, <2>2, <2>3, HandoffMoves DEF Finalizing
<1>5. ASSUME NEW w \in Workers, pc'[w] = "conclude"
      PROVE  IF handoff'.verdict = "failed" THEN caseStatus'[job'[w].run] # "drafted"
             ELSE Drafted(job[w].run)'
  <2>1. PICK r \in Runs : r = job[w].run
    BY <1>1, <1>5, HandoffMoves, WorkersJob, JobFields
    DEF HandoffWaits, Finalizing, Finalize, Settle
  <2>2. CASE Finalize(w) /\ SettleWithoutCam(w) /\ Verdict(job[w].run) = "failed"
    <3>1. /\ \A v \in Workers : pc[v] \notin Finalizing
          /\ UNCHANGED <<handoff, caseStatus, job>>
      BY <1>5, <2>2 DEF Finalize, FinalizeLocked, SettleWithoutCam, Goto, Release, outVars, TypeOK
    <3>2. handoff.verdict = "failed" /\ ~Drafted(r)
      BY <1>1, <2>1, <2>2, <3>1 DEF CaseIsEarned, Verdict, Drafted
    <3> QED
      BY <1>1, <2>1, <3>1, <3>2 DEF CaseIsEarned
  <2>3. CASE Settle(w)
    <3>1. pc[w] = "settle" /\ UNCHANGED <<handoff, job>>
      BY <2>3 DEF Settle, Goto
    <3>2. handoff.verdict # "failed" /\ Drafted(r)
      BY <1>1, <2>1, <3>1 DEF CaseIsEarned
    <3>3. Drafted(r)'
      BY <1>1, <3>2, DraftedStays
    <3> QED
      BY <2>1, <3>1, <3>2, <3>3 DEF Drafted, SectionsIn
  <2>4. CASE HandoffWaits(w)
    <3>1. pc[w] = "conclude" /\ job'[w] = job[w] /\ handoff' = handoff
          /\ caseStatus'[r] \in {caseStatus[r], "generating"}
      BY <1>5, <2>4 DEF HandoffWaits
    <3>2. IF handoff.verdict = "failed" THEN caseStatus[r] # "drafted" ELSE Drafted(r)
      BY <1>1, <2>1, <3>1 DEF CaseIsEarned
    <3>3. Drafted(r) => Drafted(r)'
      BY <1>1, DraftedStays
    <3> QED
      BY <2>1, <3>1, <3>2, <3>3 DEF Drafted, SectionsIn
  <2> QED
    BY <1>1, <1>5, <2>2, <2>3, <2>4, HandoffMoves DEF Finalizing
<1> QED
  BY <1>2, <1>3, <1>4, <1>5 DEF CaseIsEarned

\* The case of a run that showed a memo is never reported open again, whatever is
\* retried, lost in a crash or announced late (_maybe_finalize, the PUT of the status).
THEOREM CaseStaysDrafted == ~SlowWorkers => (SafeSpec => CaseNeverReopens)
<1> SUFFICES ASSUME ~SlowWorkers PROVE SafeSpec => CaseNeverReopens
  OBVIOUS
<1> DEFINE Stays == \A r \in Runs : caseStatus[r] = "drafted" => caseStatus'[r] # "open"
<1>1. CaseInv /\ [Next]_vars => CaseInv'
  BY CaseNext
<1>2. CaseInv /\ [Next]_vars => [Stays]_vars
  <2> SUFFICES ASSUME CaseInv, [Next]_vars, NEW r \in Runs,
                      caseStatus[r] = "drafted", caseStatus'[r] = "open"
               PROVE  FALSE
    OBVIOUS
  <2>1. PICK w \in Workers : Conclude(w) /\ job[w].run = r /\ handoff.verdict = "failed"
    BY CaseMoves DEF CaseInv, ExclusiveInv
  <2> QED
    BY <2>1 DEF Conclude, CaseInv, CaseIsEarned
<1> QED
  BY <1>1, <1>2, CaseInit, PTL DEF SafeSpec, CaseNeverReopens
-----------------------------------------------------------------------------
(* The abstract lifecycle *)

\* The run was admitted at some time.
Begun(r) == runStatus[r] \notin {"none", "queued"}

\* Nothing is executed, regenerated or handed over for a run that was not admitted.
OnlyBegunRuns ==
  /\ \A j \in Jobs : status[j] = "running" => Begun(j.run)
  /\ \A r \in Runs, c \in Regenerable : status[Regen(r, c)] # "absent" => Begun(r)
  /\ \A r \in Runs : camId[r] # 0 => Begun(r)
  /\ \A w \in Workers : /\ pc[w] # "idle" => Begun(job[w].run)
                        /\ \A j \in todo[w] : Begun(j.run)

BegunInv == ExclusiveInv /\ OnlyBegunRuns

LEMMA BegunInit == Init => BegunInv
<1>1. Init => OnlyBegunRuns
  BY RowsAreJobs DEF Init, OnlyBegunRuns
<1> QED
  BY <1>1, ExclusiveInit DEF BegunInv

LEMMA BegunStays ==
  ASSUME TypeOK, [Next]_vars, NEW r \in Runs, Begun(r)
  PROVE  Begun(r)'
<1>1. ASSUME NEW w \in Workers, Claim(w)
      PROVE  Begun(r)'
  BY <1>1 DEF Claim, Begun
<1>2. ASSUME NEW c \in Codes, RetrySection(r, c)
      PROVE  Begun(r)'
  BY <1>2 DEF RetrySection, Begun, TypeOK
<1>3. ~CreateRun(r)
  BY DEF CreateRun, Begun
<1>4. CASE runStatus'[r] = runStatus[r] \/ runStatus'[r] \in TerminalRun
  BY <1>4 DEF Begun, TerminalRun
<1> QED
  BY <1>1, <1>2, <1>3, <1>4, StatusMoves

\* The id of a CAM is written by the hand-off alone.
LEMMA CamIdMoves ==
  ASSUME TypeOK, [Next]_vars, NEW r \in Runs, camId'[r] # camId[r]
  PROVE  \E w \in Workers : Settle(w) /\ job[w].run = r
<1>1. ASSUME NEW w \in Workers, Claim(w) \/ WorkerStep(w)
      PROVE  Settle(w)
  BY <1>1 DEF Claim, WorkerStep, ReadInputs, DraftDone, JobFailed, ReconcileRead, ReviseSection,
              ReconcileDone, AfterSection, Push, Finalize, Deliver, Conclude, Notify, dbVars
<1>2. ~(\E S \in SUBSET Expired : Reap(S)) /\ ~Crash /\ ~Rest /\ ~UNCHANGED vars
  BY DEF Reap, Crash, Rest, vars, dbVars
<1>3. ~(\E q \in Runs : Request(q))
  BY DEF Request, CreateRun, Announce, RetrySection, RegenerateSection, dbVars
<1>4. PICK w \in Workers : Settle(w)
  BY <1>1, <1>2, <1>3 DEF Next
<1>5. job[w].run = r
  BY <1>4 DEF Settle, TypeOK
<1> QED
  BY <1>4, <1>5

\* A job starts by being claimed: it was queued, and its run is admitted or the job is a
\* regeneration.
LEMMA RunningMoves ==
  ASSUME TypeOK, [Next]_vars, NEW j \in Jobs, status[j] # "running", status'[j] = "running"
  PROVE  /\ status[j] = "queued"
         /\ j.kind = "regeneration" \/ runStatus'[j.run] = "running"
<1>1. ASSUME NEW w \in Workers, WorkerStep(w)
      PROVE  FALSE
  BY <1>1 DEF WorkerStep, ReadInputs, DraftDone, JobFailed, ReconcileRead, ReviseSection,
              ReconcileDone, AfterSection, Push, Finalize, NotLast, DeferToReconcile,
              SettleWithoutCam, PrepareHandoff, Deliver, Settle, Conclude, Notify, dbVars, TypeOK
<1>2. ~(\E S \in SUBSET Expired : Reap(S)) /\ ~Crash /\ ~Rest /\ ~UNCHANGED vars
  BY DEF Reap, Crash, Rest, vars, dbVars
<1>3. ~(\E q \in Runs : Request(q))
  <2>1. \A q \in Runs : ~CreateRun(q) /\ ~Announce(q)
    BY DEF CreateRun, Announce, dbVars
  <2>2. \A q \in Runs, c \in Codes : ~RetrySection(q, c)
    BY DEF RetrySection, TypeOK
  <2>3. \A q \in Runs, c \in Regenerable : ~RegenerateSection(q, c)
    BY DEF RegenerateSection, TypeOK
  <2> QED
    BY <2>1, <2>2, <2>3 DEF Request
<1>4. PICK w \in Workers : Claim(w)
  BY <1>1, <1>2, <1>3 DEF Next
<1>5. PICK A \in SUBSET RunsIn("queued") :
         /\ runStatus' = [r \in Runs |-> IF r \in A THEN "running" ELSE runStatus[r]]
         /\ \/ UNCHANGED status
            \/ \E k \in Ready(A) : status' = [status EXCEPT ![k] = "running"]
  BY <1>4 DEF Claim
<1>6. j \in Ready(A)
  BY <1>5 DEF TypeOK
<1>7. /\ status[j] = "queued"
      /\ j.kind = "regeneration" \/ runStatus[j.run] = "running" \/ j.run \in A
  BY <1>6 DEF Ready
<1>8. j.run \in Runs
  BY JobFields
<1> QED
  BY <1>5, <1>7, <1>8

\* A regeneration row is created for a run that has its CAM.
LEMMA RegenMoves ==
  ASSUME ExclusiveInv, [Next]_vars, NEW r \in Runs, NEW c \in Regenerable,
         status[Regen(r, c)] = "absent", status'[Regen(r, c)] # "absent"
  PROVE  RegenerateSection(r, c)
<1> DEFINE j == Regen(r, c)
<1>1. j \in Jobs /\ j.kind = "regeneration" /\ TypeOK
  BY RowsAreJobs DEF Regen, ExclusiveInv
<1>2. ASSUME NEW w \in Workers, Claim(w)
      PROVE  FALSE
  BY <1>1, <1>2 DEF Claim, Ready, TypeOK
<1>3. ASSUME NEW w \in Workers, WorkerStep(w)
      PROVE  FALSE
  <2>1. CASE DraftDone(w) \/ JobFailed(w) \/ ReconcileDone(w)
    <3>1. job[w] \in Jobs /\ status[job[w]] = "running"
      BY <1>1, <2>1, WorkersJob DEF DraftDone, JobFailed, ReconcileDone, Executing, ExclusiveInv,
                                    HeldIsRunning
    <3>2. job[w] = j
      BY <1>1, <2>1, <3>1 DEF DraftDone, JobFailed, ReconcileDone, TypeOK
    <3> QED
      BY <3>1, <3>2
  <2>2. CASE Finalize(w)
    BY <1>1, <2>2
    DEF Finalize, NotLast, DeferToReconcile, SettleWithoutCam, PrepareHandoff, ReconcileOf, TypeOK
  <2>3. ~(ReadInputs(w) \/ ReconcileRead(w) \/ ReviseSection(w) \/ AfterSection(w) \/ Push(w)
            \/ Deliver(w) \/ Settle(w) \/ Conclude(w) \/ Notify(w))
    BY DEF ReadInputs, ReconcileRead, ReviseSection, AfterSection, Push, Deliver, Settle,
           Conclude, Notify, dbVars
  <2> QED
    BY <1>3, <2>1, <2>2, <2>3 DEF WorkerStep
<1>4. ASSUME NEW S \in SUBSET Expired, Reap(S)
      PROVE  FALSE
  BY <1>1, <1>4 DEF Reap, Expired, Expirable
<1>5. ASSUME NEW q \in Runs, Request(q)
      PROVE  RegenerateSection(r, c)
  <2>1. ~CreateRun(q) /\ ~Announce(q)
    BY <1>1 DEF CreateRun, Announce, InitialJobs, dbVars
  <2>2. ~\E d \in Codes : RetrySection(q, d)
    BY <1>1 DEF RetrySection, Initial, TypeOK
  <2>3. PICK d \in Regenerable : RegenerateSection(q, d)
    BY <1>5, <2>1, <2>2 DEF Request
  <2>4. Regen(q, d) = Regen(r, c)
    BY <1>1, <2>3 DEF RegenerateSection, TypeOK
  <2>5. q = r /\ d = c
    BY <2>4 DEF Regen
  <2> QED
    BY <2>3, <2>5
<1>6. ~Crash /\ ~Rest /\ ~UNCHANGED vars
  BY DEF Crash, Rest, vars, dbVars
<1> QED
  BY <1>2, <1>3, <1>4, <1>5, <1>6 DEF Next

\* Where a worker's job and the reaper's list come from.
LEMMA WorkMoves ==
  ASSUME TypeOK, [Next]_vars, NEW w \in Workers
  PROVE  /\ pc'[w] # "idle" => \/ pc[w] # "idle" /\ job'[w] = job[w]
                               \/ job'[w] \in todo[w]
                               \/ job'[w] \in Jobs /\ status[job'[w]] = "running"
                               \/ job'[w] \in Jobs /\ status'[job'[w]] = "running"
         /\ \A j \in todo'[w] : j \in todo[w] \/ (j \in Jobs /\ status[j] = "running")
<1>1. ASSUME NEW v \in Workers, WorkerStep(v)
      PROVE  /\ pc'[w] # "idle" => pc[w] # "idle" /\ (job'[w] = job[w] \/ job'[w] \in todo[w])
             /\ todo'[w] \subseteq todo[w]
  <2>1. CASE Release(v) /\ pc[v] # "idle"
    BY <2>1 DEF Release, TypeOK
  <2>2. CASE pc[v] # "idle" /\ \E l \in Labels : Goto(v, l)
    BY <2>2 DEF Goto, TypeOK
  <2>3. CASE ReadInputs(v) \/ DraftDone(v) \/ JobFailed(v)
             \/ ReconcileRead(v) \/ ReviseSection(v) \/ ReconcileDone(v)
    BY <2>3 DEF ReadInputs, DraftDone, JobFailed, ReconcileRead, ReviseSection, ReconcileDone,
                Executing, TypeOK
  <2> QED
    BY <1>1, <2>1, <2>2, <2>3
    DEF WorkerStep, AfterSection, Push, Finalize, NotLast, DeferToReconcile, SettleWithoutCam,
        PrepareHandoff, Deliver, Settle, Conclude, Notify, Labels, Finalizing
<1>2. ASSUME NEW v \in Workers, Claim(v)
      PROVE  /\ pc'[w] # "idle" => \/ pc[w] # "idle" /\ job'[w] = job[w]
                                   \/ job'[w] \in Jobs /\ status'[job'[w]] = "running"
             /\ todo'[w] = todo[w]
  BY <1>2 DEF Claim, Ready, TypeOK
<1>3. ASSUME NEW S \in SUBSET Expired, Reap(S)
      PROVE  /\ pc'[w] # "idle" => \/ pc[w] # "idle" /\ job'[w] = job[w]
                                   \/ job'[w] \in Jobs /\ status[job'[w]] = "running"
             /\ \A j \in todo'[w] : j \in todo[w] \/ (j \in Jobs /\ status[j] = "running")
  BY <1>3 DEF Reap, Expired, Expirable, TypeOK
<1>4. ASSUME NEW r \in Runs, Request(r)
      PROVE  UNCHANGED <<pc, job, todo>>
  BY <1>4 DEF Request, CreateRun, Announce, RetrySection, RegenerateSection, poolVars
<1>5. CASE Crash
  BY <1>5 DEF Crash
<1>6. CASE Rest \/ UNCHANGED vars
  BY <1>6 DEF Rest, vars, poolVars
<1> QED
  BY <1>1, <1>2, <1>3, <1>4, <1>5, <1>6 DEF Next

LEMMA BegunNext == ~SlowWorkers /\ BegunInv /\ [Next]_vars => BegunInv'
<1> SUFFICES ASSUME ~SlowWorkers, BegunInv, [Next]_vars PROVE OnlyBegunRuns'
  BY ExclusiveNext DEF BegunInv
<1>1. TypeOK /\ TypeOK' /\ ExclusiveInv /\ OnlyBegunRuns
  BY NextType DEF BegunInv, ExclusiveInv
<1>2. \A r \in Runs : Begun(r) => Begun(r)'
  BY <1>1, BegunStays
<1>3. ASSUME NEW j \in Jobs, status'[j] = "running"
      PROVE  Begun(j.run)'
  <2>1. PICK r \in Runs : r = j.run
    BY JobFields
  <2>2. CASE Begun(r)
    BY <1>2, <2>1, <2>2 DEF Begun
  <2>3. CASE runStatus'[r] = "running"
    BY <2>1, <2>3 DEF Begun
  <2>4. CASE status[j] = "queued" /\ j.kind = "regeneration"
    <3>1. PICK c \in Regenerable : j = Regen(r, c)
      BY <2>1, <2>4 DEF Jobs, InitialJobs, RegenJobs, ReconcileJobs, Regen
    <3>2. Begun(r)
      BY <1>1, <2>4, <3>1 DEF OnlyBegunRuns
    <3> QED
      BY <2>2, <3>2
  <2> QED
    BY <1>1, <1>3, <2>1, <2>2, <2>3, <2>4, RunningMoves DEF OnlyBegunRuns
<1>4. ASSUME NEW r \in Runs, NEW c \in Regenerable, status'[Regen(r, c)] # "absent"
      PROVE  Begun(r)'
  <2>1. RegenerateSection(r, c) => Begun(r)
    BY <1>1 DEF RegenerateSection, OnlyBegunRuns
  <2> QED
    BY <1>1, <1>2, <1>4, <2>1, RegenMoves DEF OnlyBegunRuns
<1>5. ASSUME NEW r \in Runs, camId'[r] # 0
      PROVE  Begun(r)'
  <2>1. \A w \in Workers : Settle(w) /\ job[w].run = r => Begun(r)
    BY <1>1 DEF Settle, OnlyBegunRuns
  <2> QED
    BY <1>1, <1>2, <1>5, <2>1, CamIdMoves DEF OnlyBegunRuns
<1>6. ASSUME NEW w \in Workers, pc'[w] # "idle"
      PROVE  Begun(job[w].run)'
  <2>1. PICK j \in Jobs : j = job'[w]
    BY <1>1, <1>6 DEF TypeOK
  <2>2. Begun(j.run) \/ status'[j] = "running"
    BY <1>1, <1>6, <2>1, WorkMoves DEF OnlyBegunRuns
  <2>3. Begun(j.run)'
    BY <1>2, <1>3, <2>2, JobFields DEF Begun
  <2> QED
    BY <2>1, <2>3 DEF Begun
<1>7. ASSUME NEW w \in Workers, NEW j \in todo'[w]
      PROVE  Begun(j.run)'
  <2>1. j \in Jobs
    BY <1>1 DEF TypeOK
  <2>2. Begun(j.run)
    BY <1>1, <2>1, WorkMoves DEF OnlyBegunRuns
  <2> QED
    BY <1>2, <2>1, <2>2, JobFields DEF Begun
<1> QED
  BY <1>3, <1>4, <1>5, <1>6, <1>7 DEF OnlyBegunRuns

\* A hand-off is for a run that was drafted and is not settled; a CAM, for a run that was
\* drafted.
HandoffIsDue ==
  /\ \A r \in Runs : camId[r] # 0 => Drafted(r)
  /\ \A w \in Workers : pc[w] \in {"deliver", "settle"} => runStatus[job[w].run] \notin TerminalRun

LifecycleInv == CaseInv /\ CamFirstInv /\ BegunInv /\ HandoffIsDue

LEMMA LifecycleInit == Init => LifecycleInv
<1>1. Init => HandoffIsDue
  BY DEF Init, HandoffIsDue
<1> QED
  BY <1>1, CaseInit, CamFirstInit, BegunInit DEF LifecycleInv

LEMMA LifecycleNext ==
  ~SlowWorkers /\ CamFaults = {} /\ LifecycleInv /\ [Next]_vars => LifecycleInv'
<1> SUFFICES ASSUME ~SlowWorkers, CamFaults = {}, LifecycleInv, [Next]_vars PROVE HandoffIsDue'
  BY CaseNext, CamFirstNext, BegunNext DEF LifecycleInv
<1>1. TypeOK /\ OneFinalizer /\ ExclusiveInv /\ CaseIsEarned /\ HandoffIsDue
  BY DEF LifecycleInv, CaseInv, ExclusiveInv
<1>2. ASSUME NEW r \in Runs, camId'[r] # 0
      PROVE  Drafted(r)'
  <2>1. \A w \in Workers : Settle(w) /\ job[w].run = r => Drafted(r)
    BY <1>1 DEF Settle, CaseIsEarned
  <2>2. Drafted(r)
    BY <1>1, <1>2, <2>1, CamIdMoves DEF HandoffIsDue
  <2> QED
    BY <1>1, <2>2, DraftedStays
<1>3. ASSUME NEW w \in Workers, pc'[w] \in {"deliver", "settle"}
      PROVE  runStatus'[job'[w].run] \notin TerminalRun
  <2>1. CASE Finalize(w) /\ PrepareHandoff(w)
    BY <2>1 DEF PrepareHandoff, Settleable, Goto, TerminalRun
  <2>2. CASE Deliver(w)
    BY <1>1, <2>2 DEF Deliver, Goto, dbVars, HandoffIsDue
  <2>3. CASE HandoffWaits(w)
    <3>1. PICK r \in Runs : r = job[w].run
      BY <1>1, <1>3, <2>3, WorkersJob, JobFields DEF HandoffWaits
    <3>2. job'[w].run = r /\ runStatus[r] \notin TerminalRun
      BY <1>1, <1>3, <2>3, <3>1 DEF HandoffWaits, HandoffIsDue
    <3> QED
      BY <2>3, <3>2 DEF HandoffWaits
  <2> QED
    BY <1>1, <1>3, <2>1, <2>2, <2>3, HandoffMoves DEF Finalizing
<1> QED
  BY <1>2, <1>3 DEF HandoffIsDue

\* A run settles as the lifecycle has it: from "running", and with its CAM unless it failed.
LEMMA SettlesAsPromised ==
  ASSUME CamFaults = {}, LifecycleInv, NEW w \in Workers, NEW r \in Runs, r = job[w].run,
         (Finalize(w) /\ SettleWithoutCam(w)) \/ Settle(w)
  PROVE  Lifecycle!Settle(r)
<1> DEFINE hasCam == [q \in Runs |-> camId[q] # 0]
<1>1. TypeOK /\ CaseIsEarned /\ HandoffIsDue /\ OnlyBegunRuns /\ VerdictIsBacked
  BY DEF LifecycleInv, CaseInv, CamFirstInv, BegunInv, ExclusiveInv
<1>2. pc[w] # "idle" /\ Begun(r)
  BY <1>1 DEF Finalize, Settle, OnlyBegunRuns
<1>3. CASE Finalize(w) /\ SettleWithoutCam(w)
  <2>1. /\ runStatus[r] = "running" /\ UNCHANGED camId
        /\ runStatus' = [runStatus EXCEPT ![r] = Verdict(r)]
        /\ Verdict(r) = "failed" \/ camId[r] # 0
    BY <1>2, <1>3 DEF Finalize, SettleWithoutCam, Settleable, Begun
  <2>2. CASE Verdict(r) = "failed"
    <3>1. camId[r] = 0
      BY <1>1, <2>2 DEF HandoffIsDue, Verdict, Drafted
    <3> QED
      BY <2>1, <2>2, <3>1, Zenon DEF Lifecycle!Settle
  <2>3. CASE Verdict(r) # "failed"
    <3>1. Verdict(r) \in {"complete", "partial"}
      BY <2>3 DEF Verdict
    <3>2. hasCam[r] = TRUE
      BY <2>1, <2>3
    <3>3. hasCam' = [hasCam EXCEPT ![r] = TRUE]
      BY <2>1, <3>2, Zenon
    <3> QED
      BY <2>1, <3>1, <3>3, Zenon DEF Lifecycle!Settle
  <2> QED
    BY <2>2, <2>3
<1>4. CASE Settle(w)
  <2>1. /\ runStatus' = [runStatus EXCEPT ![r] = handoff.verdict]
        /\ camId' = [camId EXCEPT ![r] = handoff.cam]
        /\ handoff.cam # 0 /\ handoff.verdict # "failed"
        /\ runStatus[r] \notin TerminalRun
    BY <1>1, <1>4 DEF Settle, RecordedCam, VerdictIsBacked, CaseIsEarned, HandoffIsDue
  <2>2. runStatus[r] = "running"
    BY <1>1, <1>2, <2>1 DEF Begun, TypeOK, RunStates
  <2>3. handoff.verdict \in {"complete", "partial"}
    BY <1>1, <2>1 DEF TypeOK, TerminalRun
  <2>4. camId'[r] # 0 /\ \A q \in Runs \ {r} : camId'[q] = camId[q]
    BY <1>1, <2>1 DEF TypeOK
  <2>5. hasCam' = [hasCam EXCEPT ![r] = TRUE]
    BY <2>4, Zenon
  <2> QED
    BY <2>1, <2>2, <2>3, <2>5, Zenon DEF Lifecycle!Settle
<1> QED
  BY <1>3, <1>4

LEMMA LifecycleStep ==
  CamFaults = {} /\ LifecycleInv /\ [Next]_vars => [Lifecycle!Next]_(Lifecycle!vars)
<1> SUFFICES ASSUME CamFaults = {}, LifecycleInv, [Next]_vars
             PROVE  Lifecycle!Next \/ UNCHANGED <<runStatus, camId>>
  BY DEF Lifecycle!vars
<1>1. TypeOK /\ TypeOK'
  BY NextType DEF LifecycleInv, CaseInv, ExclusiveInv
<1>2. ASSUME NEW r \in Runs, NEW w \in Workers, job[w].run = r,
             (Finalize(w) /\ SettleWithoutCam(w)) \/ Settle(w)
      PROVE  Lifecycle!Next
  BY <1>2, SettlesAsPromised, Zenon DEF Lifecycle!Next
<1>3. ASSUME NEW w \in Workers, Claim(w)
      PROVE  Lifecycle!Next \/ UNCHANGED <<runStatus, camId>>
  <2>1. PICK A \in SUBSET RunsIn("queued") :
           runStatus' = [r \in Runs |-> IF r \in A THEN "running" ELSE runStatus[r]]
    BY <1>3 DEF Claim
  <2>2. UNCHANGED camId
    BY <1>3 DEF Claim
  <2>3. CASE A = {}
    BY <1>1, <2>1, <2>2, <2>3 DEF TypeOK
  <2>4. CASE A # {}
    <3>1. A \in SUBSET Runs /\ \A r \in A : runStatus[r] = "queued"
      BY DEF RunsIn
    <3>2. Lifecycle!Admit(A)
      BY <2>1, <2>2, <2>4, <3>1, Zenon DEF Lifecycle!Admit
    <3> QED
      BY <3>1, <3>2, Zenon DEF Lifecycle!Next
  <2> QED
    BY <2>3, <2>4
<1>4. ASSUME NEW r \in Runs, CreateRun(r)
      PROVE  Lifecycle!Next
  <2>1. Lifecycle!Submit(r)
    BY <1>4, Zenon DEF CreateRun, Lifecycle!Submit
  <2> QED
    BY <2>1, Zenon DEF Lifecycle!Next
<1>5. ASSUME NEW r \in Runs, runStatus'[r] # runStatus[r], NEW c \in Codes, RetrySection(r, c)
      PROVE  Lifecycle!Next
  <2>1. /\ runStatus[r] \in {"partial", "failed"} /\ UNCHANGED camId
        /\ runStatus' = [runStatus EXCEPT ![r] = "running"]
    BY <1>1, <1>5 DEF RetrySection, TypeOK
  <2>2. Lifecycle!Reopen(r)
    BY <2>1, Zenon DEF Lifecycle!Reopen
  <2> QED
    BY <2>2, Zenon DEF Lifecycle!Next
<1>6. ASSUME NEW r \in Runs, runStatus'[r] # runStatus[r]
      PROVE  Lifecycle!Next \/ UNCHANGED <<runStatus, camId>>
  BY <1>1, <1>2, <1>3, <1>4, <1>5, <1>6, StatusMoves
<1>7. ASSUME NEW r \in Runs, camId'[r] # camId[r]
      PROVE  Lifecycle!Next
  BY <1>1, <1>2, <1>7, CamIdMoves
<1>8. CASE \A r \in Runs : runStatus'[r] = runStatus[r] /\ camId'[r] = camId[r]
  BY <1>1, <1>8 DEF TypeOK
<1> QED
  BY <1>6, <1>7, <1>8

\* What a client sees of the status and the CAM of its runs is a behaviour of the abstract
\* lifecycle, step by step: crashes, reaped claims, eager retries and several finalisers
\* add nothing to it, as long as no worker outlives its lease and the output service
\* takes the CAM (worker.py, _maybe_finalize).
THEOREM RefinesLifecycle ==
  ~SlowWorkers /\ CamFaults = {} => (SafeSpec => Lifecycle!SafeSpec)
<1> SUFFICES ASSUME ~SlowWorkers, CamFaults = {} PROVE SafeSpec => Lifecycle!SafeSpec
  OBVIOUS
<1>1. Init => Lifecycle!Init
  <2> SUFFICES ASSUME Init PROVE Lifecycle!Init
    OBVIOUS
  <2>1. \A r \in Runs : camId[r] = 0
    BY DEF Init
  <2>2. [r \in Runs |-> camId[r] # 0] = [r \in Runs |-> FALSE]
    BY <2>1, Zenon
  <2>3. runStatus = [r \in Runs |-> "none"]
    BY DEF Init
  <2> QED
    BY <2>2, <2>3, Zenon DEF Lifecycle!Init
<1>2. LifecycleInv /\ [Next]_vars => LifecycleInv'
  BY LifecycleNext
<1>3. LifecycleInv /\ [Next]_vars => [Lifecycle!Next]_(Lifecycle!vars)
  BY LifecycleStep
<1> QED
  BY <1>1, <1>2, <1>3, LifecycleInit, PTL DEF SafeSpec, Lifecycle!SafeSpec
-----------------------------------------------------------------------------
(* What moves the rows and the CAM *)

LEMMA ReviewingGoesOn ==
  ASSUME TypeOK, [Next]_vars, NEW w \in Workers, pc'[w] = "reviewing"
  PROVE  ReconcileRead(w) \/ (pc[w] = "reviewing" /\ job'[w] = job[w])
<1>1. ASSUME NEW v \in Workers \ {w}, Claim(v) \/ WorkerStep(v)
      PROVE  pc[w] = "reviewing" /\ job'[w] = job[w]
  BY <1>1, OneThreadMoves
<1>2. ~Claim(w)
  BY DEF Claim, TypeOK
<1>3. CASE WorkerStep(w)
  <2>1. ~Release(w) /\ \A l \in Labels \ {"reviewing"} : ~Goto(w, l)
    BY DEF Release, Goto, TypeOK
  <2>2. ~(AfterSection(w) \/ Push(w) \/ Finalize(w) \/ Deliver(w) \/ Settle(w) \/ Conclude(w)
            \/ Notify(w))
    BY <2>1 DEF AfterSection, Push, Finalize, NotLast, DeferToReconcile, SettleWithoutCam,
                PrepareHandoff, Deliver, Settle, Conclude, Notify, Labels, Finalizing
  <2>3. ~(ReadInputs(w) \/ DraftDone(w) \/ JobFailed(w) \/ ReconcileDone(w))
    BY DEF ReadInputs, DraftDone, JobFailed, ReconcileDone, TypeOK
  <2> QED
    BY <1>3, <2>2, <2>3 DEF WorkerStep, ReviseSection
<1>4. ASSUME NEW S \in SUBSET Expired, Reap(S)
      PROVE  pc[w] = "reviewing" /\ job'[w] = job[w]
  BY <1>4 DEF Reap, TypeOK
<1>5. ASSUME NEW r \in Runs, Request(r)
      PROVE  UNCHANGED <<pc, job>>
  BY <1>5 DEF Request, CreateRun, Announce, RetrySection, RegenerateSection, poolVars
<1>6. ~Crash
  BY DEF Crash
<1>7. CASE Rest \/ UNCHANGED vars
  BY <1>7 DEF Rest, vars, poolVars
<1> QED
  BY <1>1, <1>2, <1>3, <1>4, <1>5, <1>6, <1>7 DEF Next

\* A draft is written by the worker that drafts it, or by the memo-level phase.
LEMMA ContentMoves ==
  ASSUME TypeOK, [Next]_vars, NEW j \in Jobs, content'[j] # content[j]
  PROVE  \E w \in Workers :
            \/ DraftDone(w) /\ job[w] = j
            \/ ReviseSection(w) /\ \E c \in input[w] : j = Initial(job[w].run, c)
<1>1. ASSUME NEW w \in Workers, Claim(w) \/ WorkerStep(w)
      PROVE  DraftDone(w) \/ ReviseSection(w)
  BY <1>1 DEF Claim, WorkerStep, ReadInputs, JobFailed, ReconcileRead, ReconcileDone,
              AfterSection, Push, Finalize, Deliver, Settle, Conclude, Notify, dbVars
<1>2. ~(\E S \in SUBSET Expired : Reap(S)) /\ ~Crash /\ ~Rest /\ ~UNCHANGED vars
  BY DEF Reap, Crash, Rest, vars, dbVars
<1>3. ~(\E q \in Runs : Request(q))
  BY DEF Request, CreateRun, Announce, RetrySection, RegenerateSection, dbVars
<1>4. PICK w \in Workers : DraftDone(w) \/ ReviseSection(w)
  BY <1>1, <1>2, <1>3 DEF Next
<1>5. CASE DraftDone(w)
  BY <1>5 DEF DraftDone, TypeOK
<1>6. CASE ReviseSection(w)
  <2>1. PICK c \in input[w] : content' = [content EXCEPT ![Initial(job[w].run, c)] = "reconciled"]
    BY <1>6 DEF ReviseSection
  <2>2. j = Initial(job[w].run, c)
    BY <2>1 DEF TypeOK
  <2> QED
    BY <1>6, <2>2
<1> QED
  BY <1>4, <1>5, <1>6

\* A CAM is written as a whole when it is handed over, and section by section afterwards.
LEMMA CamMoves ==
  ASSUME TypeOK, [Next]_vars, NEW r \in Runs, NEW c \in Codes, cam'[r][c] # cam[r][c]
  PROVE  \E w \in Workers :
            /\ job[w].run = r
            /\ Deliver(w) \/ (Push(w) /\ job[w].code = c /\ cam'[r][c] = content[job[w]])
<1>1. ASSUME NEW w \in Workers, Claim(w) \/ WorkerStep(w)
      PROVE  Deliver(w) \/ Push(w)
  BY <1>1 DEF Claim, WorkerStep, ReadInputs, DraftDone, JobFailed, ReconcileRead, ReviseSection,
              ReconcileDone, AfterSection, Finalize, Settle, Conclude, Notify, outVars
<1>2. ~(\E S \in SUBSET Expired : Reap(S)) /\ ~Crash /\ ~Rest /\ ~UNCHANGED vars
  BY DEF Reap, Crash, Rest, vars, outVars
<1>3. ~(\E q \in Runs : Request(q))
  BY DEF Request, CreateRun, Announce, RetrySection, RegenerateSection, outVars
<1>4. PICK w \in Workers : Deliver(w) \/ Push(w)
  BY <1>1, <1>2, <1>3 DEF Next
<1>5. CASE Deliver(w)
  BY <1>5 DEF Deliver, TypeOK
<1>6. CASE Push(w)
  <2>1. cam' = [cam EXCEPT ![job[w].run][job[w].code] = content[job[w]]]
    BY <1>6 DEF Push
  <2>2. job[w].run = r
    BY <2>1 DEF TypeOK
  <2>3. cam'[r] = [cam[r] EXCEPT ![job[w].code] = content[job[w]]] /\ cam[r] \in [Codes -> Drafts]
    BY <2>1, <2>2 DEF TypeOK
  <2>4. job[w].code = c /\ cam'[r][c] = content[job[w]]
    BY <2>3
  <2> QED
    BY <1>6, <2>2, <2>4
<1> QED
  BY <1>4, <1>5, <1>6

\* The reconcile row starts when the last section has settled, and once.
LEMMA ReconcileMoves ==
  ASSUME ExclusiveInv, ~SlowWorkers, [Next]_vars, NEW r \in Runs,
         status[ReconcileOf(r)] \notin {"queued", "running"},
         status'[ReconcileOf(r)] # status[ReconcileOf(r)]
  PROVE  \E w \in Workers : Finalize(w) /\ DeferToReconcile(w) /\ job[w].run = r
<1> DEFINE j == ReconcileOf(r)
<1>1. j \in Jobs /\ j.kind = "reconcile" /\ TypeOK
  BY RowsAreJobs DEF ReconcileOf, ExclusiveInv
<1>2. ASSUME NEW w \in Workers, Claim(w)
      PROVE  FALSE
  BY <1>1, <1>2 DEF Claim, Ready, TypeOK
<1>3. ASSUME NEW w \in Workers, WorkerStep(w)
      PROVE  Finalize(w) /\ DeferToReconcile(w) /\ job[w].run = r
  <2>1. ~(DraftDone(w) \/ JobFailed(w) \/ ReconcileDone(w))
    <3>1. DraftDone(w) \/ JobFailed(w) \/ ReconcileDone(w) => status[job[w]] = "running"
      BY DEF DraftDone, JobFailed, ReconcileDone, Executing, ExclusiveInv, HeldIsRunning
    <3> QED
      BY <1>1, <3>1 DEF DraftDone, JobFailed, ReconcileDone, TypeOK
  <2>2. CASE Finalize(w)
    <3>1. DeferToReconcile(w)
      BY <2>2 DEF Finalize, NotLast, SettleWithoutCam, PrepareHandoff
    <3>2. ReconcileOf(job[w].run) = j
      BY <1>1, <3>1 DEF DeferToReconcile, TypeOK
    <3>3. job[w].run = r
      BY <3>2 DEF ReconcileOf
    <3> QED
      BY <2>2, <3>1, <3>3
  <2>3. ~(ReadInputs(w) \/ ReconcileRead(w) \/ ReviseSection(w) \/ AfterSection(w) \/ Push(w)
            \/ Deliver(w) \/ Settle(w) \/ Conclude(w) \/ Notify(w))
    BY DEF ReadInputs, ReconcileRead, ReviseSection, AfterSection, Push, Deliver, Settle,
           Conclude, Notify, dbVars
  <2> QED
    BY <1>3, <2>1, <2>2, <2>3 DEF WorkerStep
<1>4. ~(\E S \in SUBSET Expired : Reap(S))
  BY <1>1 DEF Reap, Expired, Expirable
<1>5. ASSUME NEW q \in Runs, Request(q)
      PROVE  FALSE
  <2>1. ~CreateRun(q) /\ ~Announce(q)
    BY <1>1 DEF CreateRun, Announce, InitialJobs, dbVars
  <2>2. \A c \in Codes : ~RetrySection(q, c)
    BY <1>1 DEF RetrySection, Initial, TypeOK
  <2>3. \A c \in Regenerable : ~RegenerateSection(q, c)
    BY <1>1 DEF RegenerateSection, Regen, TypeOK
  <2> QED
    BY <1>5, <2>1, <2>2, <2>3 DEF Request
<1>6. ~Crash /\ ~Rest /\ ~UNCHANGED vars
  BY DEF Crash, Rest, vars, dbVars
<1> QED
  BY <1>2, <1>3, <1>4, <1>5, <1>6 DEF Next
-----------------------------------------------------------------------------
(* The CAM holds every section *)

\* No CAM is lost between the calls: nobody crashes, no push fails and the output service
\* answers; sections are retried once their run has settled.
CarefulPool == /\ ~SlowWorkers /\ ~EagerRetry /\ ~CallFaults
               /\ MaxCrashes = 0 /\ "reply_lost" \notin CamFaults

\* The memo-level phase is entered by its own job, for two drafted sections, and is over
\* when the hand-off starts.
PhaseInOrder ==
  /\ \A w \in Workers : pc[w] = "reviewing" => job[w].kind = "reconcile"
  /\ \A r \in Runs :
        /\ status[ReconcileOf(r)] # "absent"
              => WantsReconcile /\ \E c, d \in SectionsIn(r, "complete") : c # d
        /\ camId[r] # 0 => status[ReconcileOf(r)] \notin {"queued", "running"}
  /\ \A w \in Workers : pc[w] \in {"deliver", "settle"}
                           => status[ReconcileOf(job[w].run)] \notin {"queued", "running"}

\* Only finished drafts are pushed, and only regenerations of a memo with a CAM exist.
PushesAreDrafts ==
  /\ \A w \in Workers : pc[w] = "push" => JoinsCam(job[w])
  /\ \A r \in Runs, c \in Regenerable :
        /\ camId[r] = 0 => status[Regen(r, c)] = "absent"
        /\ status[Regen(r, c)] = "complete" => content[Regen(r, c)] = "regenerated"

LEMMA CamIdStays ==
  ASSUME TypeOK, [Next]_vars, NEW r \in Runs, camId[r] # 0
  PROVE  camId'[r] # 0
<1>1. \A w \in Workers : Settle(w) /\ job[w].run = r => camId'[r] # 0
  BY DEF Settle, RecordedCam, TypeOK
<1> QED
  BY <1>1, CamIdMoves

LEMMA PhaseNext ==
  ASSUME ~SlowWorkers, SettledInv, PhaseInOrder, [Next]_vars
  PROVE  PhaseInOrder'
<1>1. TypeOK /\ OneFinalizer /\ ExclusiveInv
  BY DEF SettledInv, ExclusiveInv
<1>2. ASSUME NEW w \in Workers, pc'[w] = "reviewing"
      PROVE  job'[w].kind = "reconcile"
  BY <1>1, <1>2, ReviewingGoesOn DEF ReconcileRead, PhaseInOrder
<1>3. ASSUME NEW r \in Runs, status'[ReconcileOf(r)] # "absent"
      PROVE  WantsReconcile /\ \E c, d \in SectionsIn(r, "complete")' : c # d
  <2>1. WantsReconcile /\ \E c, d \in SectionsIn(r, "complete") : c # d
    <3>1. \A w \in Workers : DeferToReconcile(w) /\ job[w].run = r
             => WantsReconcile /\ \E c, d \in SectionsIn(r, "complete") : c # d
      BY DEF DeferToReconcile, ReconcileDue
    <3>2. CASE status[ReconcileOf(r)] = "absent"
      BY <1>1, <1>3, <3>1, <3>2, ReconcileMoves
    <3> QED
      BY <3>2 DEF PhaseInOrder
  <2>2. PICK c \in Codes, d \in Codes :
           c # d /\ status[Initial(r, c)] = "complete" /\ status[Initial(r, d)] = "complete"
    BY <2>1 DEF SectionsIn
  <2>3. status'[Initial(r, c)] = "complete" /\ status'[Initial(r, d)] = "complete"
    BY <1>1, <2>2, CompletedStays, RowsAreJobs
  <2> QED
    BY <2>1, <2>2, <2>3 DEF SectionsIn, Initial
<1>4. ASSUME NEW r \in Runs, status[ReconcileOf(r)] \notin {"queued", "running"},
             camId[r] # 0 \/ \E w \in Workers : pc[w] \in {"deliver", "settle"}
      PROVE  status'[ReconcileOf(r)] = status[ReconcileOf(r)]
  <2>1. \A w \in Workers : ~(Finalize(w) /\ DeferToReconcile(w) /\ job[w].run = r)
    BY <1>4 DEF Finalize, FinalizeLocked, Finalizing, DeferToReconcile, ReconcileDue
  <2> QED
    BY <1>1, <1>4, <2>1, ReconcileMoves
<1>5. ASSUME NEW r \in Runs, camId'[r] # 0
      PROVE  status'[ReconcileOf(r)] \notin {"queued", "running"}
  <2>1. CASE camId[r] # 0
    BY <1>4, <2>1 DEF PhaseInOrder
  <2>2. CASE camId[r] = 0
    <3>1. PICK w \in Workers : Settle(w) /\ job[w].run = r
      BY <1>1, <1>5, <2>2, CamIdMoves
    <3>2. pc[w] = "settle"
      BY <3>1 DEF Settle
    <3> QED
      BY <1>4, <3>1, <3>2 DEF PhaseInOrder
  <2> QED
    BY <2>1, <2>2
<1>6. ASSUME NEW w \in Workers, pc'[w] \in {"deliver", "settle"}
      PROVE  status'[ReconcileOf(job'[w].run)] \notin {"queued", "running"}
  <2>1. PICK r \in Runs : r = job[w].run
    BY <1>1, <1>6, HandoffMoves, WorkersJob, JobFields
    DEF HandoffWaits, Finalizing, Finalize, Deliver
  <2>2. CASE Finalize(w) /\ PrepareHandoff(w)
    <3>1. ~ReconcileDue(r) /\ camId[r] = 0 /\ UNCHANGED <<status, job>>
      BY <2>1, <2>2 DEF PrepareHandoff, Goto
    <3>2. status[ReconcileOf(r)] = "absent" \/ status[ReconcileOf(r)] \in Terminal
      BY <3>1 DEF PhaseInOrder, ReconcileDue
    <3> QED
      BY <2>1, <3>1, <3>2 DEF Terminal, ReconcileOf
  <2>3. CASE Deliver(w) \/ HandoffWaits(w)
    <3>1. pc[w] \in {"deliver", "settle"} /\ job'[w] = job[w]
      BY <1>6, <2>3 DEF Deliver, Goto, HandoffWaits
    <3>2. status[ReconcileOf(r)] \notin {"queued", "running"}
      BY <2>1, <3>1 DEF PhaseInOrder
    <3>3. status'[ReconcileOf(r)] = status[ReconcileOf(r)]
      BY <1>4, <3>1, <3>2
    <3> QED
      BY <2>1, <3>1, <3>2, <3>3 DEF ReconcileOf
  <2> QED
    BY <1>1, <1>6, <2>2, <2>3, HandoffMoves DEF Finalizing
<1> QED
  BY <1>2, <1>3, <1>5, <1>6 DEF PhaseInOrder, SectionsIn, Initial, ReconcileOf

\* A thread that pushes goes through _after_section.
LEMMA PushMoves ==
  ASSUME TypeOK, [Next]_vars, NEW w \in Workers, pc'[w] = "push"
  PROVE  \/ AfterSection(w) /\ JoinsCam(job[w]) /\ job'[w] = job[w]
         \/ pc[w] = "push" /\ job'[w] = job[w]
<1>1. ASSUME NEW v \in Workers \ {w}, Claim(v) \/ WorkerStep(v)
      PROVE  pc[w] = "push" /\ job'[w] = job[w]
  BY <1>1, OneThreadMoves
<1>2. ~Claim(w)
  BY DEF Claim, TypeOK
<1>3. CASE WorkerStep(w)
  <2>1. ~Release(w) /\ \A l \in Labels \ {"push"} : ~Goto(w, l)
    BY DEF Release, Goto, TypeOK
  <2>2. ~(Push(w) \/ Finalize(w) \/ Deliver(w) \/ Settle(w) \/ Conclude(w) \/ Notify(w))
    BY <2>1 DEF Push, Finalize, NotLast, DeferToReconcile, SettleWithoutCam, PrepareHandoff,
                Deliver, Settle, Conclude, Notify, Labels, Finalizing
  <2>3. ~(ReadInputs(w) \/ DraftDone(w) \/ JobFailed(w) \/ ReconcileRead(w) \/ ReconcileDone(w))
    BY DEF ReadInputs, DraftDone, JobFailed, ReconcileRead, ReconcileDone, TypeOK
  <2>4. ~ReviseSection(w)
    BY DEF ReviseSection
  <2>5. AfterSection(w)
    BY <1>3, <2>2, <2>3, <2>4 DEF WorkerStep
  <2> QED
    BY <2>1, <2>5 DEF AfterSection, Goto, Labels
<1>4. ASSUME NEW S \in SUBSET Expired, Reap(S)
      PROVE  pc[w] = "push" /\ job'[w] = job[w]
  BY <1>4 DEF Reap, TypeOK
<1>5. ASSUME NEW r \in Runs, Request(r)
      PROVE  UNCHANGED <<pc, job>>
  BY <1>5 DEF Request, CreateRun, Announce, RetrySection, RegenerateSection, poolVars
<1>6. ~Crash
  BY DEF Crash
<1>7. CASE Rest \/ UNCHANGED vars
  BY <1>7 DEF Rest, vars, poolVars
<1> QED
  BY <1>1, <1>2, <1>3, <1>4, <1>5, <1>6, <1>7 DEF Next

LEMMA PushNext ==
  ASSUME ~SlowWorkers, ExclusiveInv, PhaseInOrder, PushesAreDrafts, [Next]_vars
  PROVE  PushesAreDrafts'
<1>1. TypeOK
  BY DEF ExclusiveInv
<1>2. ASSUME NEW w \in Workers, pc'[w] = "push"
      PROVE  JoinsCam(job[w])'
  <2>1. JoinsCam(job[w]) /\ job'[w] = job[w] /\ pc[w] # "idle"
    BY <1>1, <1>2, PushMoves DEF PushesAreDrafts, AfterSection
  <2>2. PICK j \in Jobs : j = job[w]
    BY <1>1, <2>1, WorkersJob
  <2>3. status'[j] = "complete" /\ camId'[j.run] # 0
    BY <1>1, <2>1, <2>2, CompletedStays, CamIdStays, JobFields DEF JoinsCam
  <2> QED
    BY <2>1, <2>2, <2>3 DEF JoinsCam
<1>3. ASSUME NEW r \in Runs, NEW c \in Regenerable, camId'[r] = 0
      PROVE  status'[Regen(r, c)] = "absent"
  <2>1. camId[r] = 0
    BY <1>1, <1>3, CamIdStays
  <2>2. ~RegenerateSection(r, c)
    BY <2>1 DEF RegenerateSection
  <2> QED
    BY <2>1, <2>2, RegenMoves DEF PushesAreDrafts
<1>4. ASSUME NEW r \in Runs, NEW c \in Regenerable, status'[Regen(r, c)] = "complete"
      PROVE  content'[Regen(r, c)] = "regenerated"
  <2> DEFINE j == Regen(r, c)
  <2>1. j \in Jobs /\ j.kind = "regeneration"
    BY RowsAreJobs DEF Regen
  <2>2. \A w \in Workers : DraftDone(w) /\ job[w] = j => content'[j] = "regenerated"
    BY <1>1, <2>1 DEF DraftDone, TypeOK
  <2>3. \A w \in Workers : ReconcileDone(w) => job[w] # j
    BY <2>1 DEF ReconcileDone, PhaseInOrder
  <2>4. CASE \E w \in Workers : DraftDone(w) /\ job[w] = j
    BY <2>2, <2>4
  <2>5. CASE status[j] = "complete"
    <3>1. content[j] = "regenerated"
      BY <2>5 DEF PushesAreDrafts
    <3>2. \A w \in Workers : ReviseSection(w) => \A d \in input[w] : j # Initial(job[w].run, d)
      BY <2>1 DEF Initial
    <3> QED
      BY <1>1, <2>1, <2>2, <3>1, <3>2, ContentMoves
  <2> QED
    BY <1>4, <2>1, <2>3, <2>4, <2>5, CompletionMoves
<1> QED
  BY <1>2, <1>3, <1>4 DEF PushesAreDrafts, Regen, Initial

\* What is handed over is what the sections hold until the run has settled.
HandedOver ==
  \A w \in Workers :
     LET r == job[w].run IN
     /\ pc[w] = "deliver" => handoff.drafts = CamSections(r)
     /\ pc[w] = "settle" /\ handoff.cam # 0 => cam[r] = CamSections(r)

\* The draft of j is finished and on its way to the CAM.
Arrives(j) == /\ status[j] = "complete"
              /\ \E w \in Workers : job[w] = j /\ pc[w] \in {"after", "push"}

Regenerated(r, c) == c \in Regenerable /\ status[Regen(r, c)] = "complete"

\* Nothing of a memo is missing from its CAM but what is on its way.
NothingIsLost(r, c) ==
  LET Kept == status[Initial(r, c)] = "complete" /\ cam[r][c] = content[Initial(r, c)] IN
  /\ Regenerated(r, c) => Arrives(Regen(r, c)) \/ cam[r][c] = "regenerated" \/ Kept
  /\ ~Regenerated(r, c) =>
        IF status[Initial(r, c)] = "complete" THEN Kept \/ Arrives(Initial(r, c))
        ELSE cam[r][c] = "none"

CamIsKept == \A r \in Runs : camId[r] # 0 => \A c \in Codes : NothingIsLost(r, c)

CamKeptInv == /\ SettledInv
              /\ HandoverInv
              /\ PhaseInOrder
              /\ PushesAreDrafts
              /\ HandedOver
              /\ CamIsKept

LEMMA CamKeptInit == Init => CamKeptInv
<1> SUFFICES ASSUME Init PROVE PhaseInOrder /\ PushesAreDrafts /\ HandedOver /\ CamIsKept
  BY SettledInit, HandoverInit DEF CamKeptInv
<1>1. \A r \in Runs : camId[r] = 0 /\ status[ReconcileOf(r)] = "absent"
  BY RowsAreJobs DEF Init
<1>2. \A r \in Runs, c \in Regenerable : status[Regen(r, c)] = "absent"
  BY RowsAreJobs DEF Init
<1>3. \A w \in Workers : pc[w] = "idle"
  BY DEF Init
<1> QED
  BY <1>1, <1>2, <1>3 DEF PhaseInOrder, PushesAreDrafts, HandedOver, CamIsKept

\* The text of a section of a run changes only while the section is drafted, once the
\* memo-level phase is over.
LEMMA TextStays ==
  ASSUME SettledInv, PhaseInOrder, [Next]_vars, NEW r \in Runs, NEW c \in Codes,
         status[ReconcileOf(r)] # "running",
         content'[Initial(r, c)] # content[Initial(r, c)]
  PROVE  /\ status[Initial(r, c)] = "running"
         /\ \E w \in Workers : DraftDone(w) /\ job[w] = Initial(r, c)
<1> DEFINE j == Initial(r, c)
<1>1. j \in Jobs /\ j.run = r /\ TypeOK /\ HeldIsRunning
  BY RowsAreJobs DEF Initial, SettledInv, ExclusiveInv
<1>2. ASSUME NEW w \in Workers, ReviseSection(w), job[w].run = r
      PROVE  FALSE
  <2>1. pc[w] = "reviewing"
    BY <1>2 DEF ReviseSection
  <2>2. PICK k \in Jobs : k = job[w]
    BY <1>1, <2>1, WorkersJob
  <2>3. k.kind = "reconcile" /\ k.run = r
    BY <1>2, <2>1, <2>2 DEF PhaseInOrder
  <2>4. k = ReconcileOf(r)
    BY <2>3 DEF Jobs, InitialJobs, RegenJobs, ReconcileJobs, ReconcileOf
  <2>5. status[k] = "running"
    BY <1>1, <2>1, <2>2 DEF HeldIsRunning, Executing
  <2> QED
    BY <2>4, <2>5
<1>3. \A w \in Workers : ReviseSection(w) => \A d \in input[w] : j # Initial(job[w].run, d)
  BY <1>1, <1>2 DEF Initial
<1>4. PICK w \in Workers : DraftDone(w) /\ job[w] = j
  BY <1>1, <1>3, ContentMoves
<1>5. status[j] = "running"
  BY <1>1, <1>4 DEF DraftDone, HeldIsRunning, Executing
<1> QED
  BY <1>4, <1>5

\* Nothing is drafted or revised for a run while its CAM is handed over.
LEMMA SectionsWait ==
  ASSUME ~SlowWorkers, SettledInv, PhaseInOrder, [Next]_vars,
         NEW w \in Workers, pc[w] \in {"deliver", "settle"}, NEW r \in Runs, r = job[w].run
  PROVE  CamSections(r)' = CamSections(r)
<1>1. ExclusiveInv /\ ~InFlight(r) /\ status[ReconcileOf(r)] # "running"
  BY DEF SettledInv, VerdictStands, PhaseInOrder
<1>2. ASSUME NEW c \in Codes
      PROVE  /\ content'[Initial(r, c)] = content[Initial(r, c)]
             /\ (status'[Initial(r, c)] = "complete") = (status[Initial(r, c)] = "complete")
  <2>1. status[Initial(r, c)] # "running" /\ Initial(r, c) \in Jobs
    BY <1>1, RowsAreJobs DEF InFlight
  <2>2. \A v \in Workers : (DraftDone(v) \/ ReconcileDone(v)) => job[v] # Initial(r, c)
    BY <1>1, <2>1 DEF DraftDone, ReconcileDone, Executing, ExclusiveInv, HeldIsRunning
  <2>3. content'[Initial(r, c)] = content[Initial(r, c)]
    BY <1>1, <2>1, TextStays
  <2>4. (status'[Initial(r, c)] = "complete") = (status[Initial(r, c)] = "complete")
    BY <1>1, <2>1, <2>2, CompletionMoves
  <2> QED
    BY <2>3, <2>4
<1> QED
  BY <1>2 DEF CamSections, SectionsIn, Initial

LEMMA HandedOverNext ==
  ASSUME CarefulPool, CamKeptInv, [Next]_vars
  PROVE  HandedOver'
<1>1. TypeOK /\ OneFinalizer /\ SettledInv /\ PhaseInOrder /\ PushesAreDrafts /\ HandoffAgrees
      /\ HandedOver /\ ~SlowWorkers /\ "reply_lost" \notin CamFaults
  BY DEF CamKeptInv, SettledInv, ExclusiveInv, HandoverInv, CarefulPool
<1>2. ASSUME NEW w \in Workers, pc'[w] \in {"deliver", "settle"}
      PROVE  /\ pc'[w] = "deliver" => handoff'.drafts = CamSections(job[w].run)'
             /\ pc'[w] = "settle" /\ handoff'.cam # 0
                  => cam'[job'[w].run] = CamSections(job[w].run)'
  <2>1. PICK r \in Runs : r = job[w].run
    BY <1>1, <1>2, HandoffMoves, WorkersJob, JobFields
    DEF HandoffWaits, Finalizing, Finalize, Deliver
  <2>2. CASE Finalize(w) /\ PrepareHandoff(w) /\ pc'[w] = "deliver"
    <3>1. /\ handoff' = [verdict |-> Verdict(r), drafts |-> CamSections(r), cam |-> 0]
          /\ UNCHANGED <<status, content, job>>
      BY <2>1, <2>2 DEF Finalize, PrepareHandoff, Goto
    <3>2. CamSections(r)' = CamSections(r)
      BY <3>1 DEF CamSections, SectionsIn
    <3> QED
      BY <2>1, <2>2, <3>1, <3>2 DEF CamSections, SectionsIn
  <2>3. CASE Deliver(w) /\ pc'[w] = "settle"
    <3>1. /\ pc[w] = "deliver" /\ job' = job
          /\ handoff' = handoff \/ cam' = [cam EXCEPT ![r] = handoff.drafts]
      BY <1>1, <2>1, <2>3 DEF Deliver, Goto
    <3>2. handoff.drafts = CamSections(r) /\ handoff.cam = 0
      BY <1>1, <2>1, <3>1 DEF HandedOver, HandoffAgrees
    <3>3. handoff'.cam # 0 => cam'[r] = CamSections(r)
      BY <1>1, <3>1, <3>2 DEF TypeOK
    <3>4. CamSections(r)' = CamSections(r)
      BY <1>1, <2>1, <3>1, SectionsWait
    <3> QED
      BY <2>1, <2>3, <3>1, <3>3, <3>4 DEF CamSections, SectionsIn
  <2>4. CASE HandoffWaits(w)
    <3>1. pc'[w] = pc[w] /\ job'[w] = job[w] /\ handoff' = handoff
      BY <2>4 DEF HandoffWaits
    <3>2. CamSections(r)' = CamSections(r)
      BY <1>1, <1>2, <2>1, <3>1, SectionsWait
    <3>3. pc[w] = "settle" => cam'[r] = cam[r]
      <4> SUFFICES ASSUME pc[w] = "settle", NEW c \in Codes, cam'[r][c] # cam[r][c]
                   PROVE  FALSE
        <5>1. cam[r] \in [Codes -> Drafts] /\ cam'[r] \in [Codes -> Drafts]
          BY <1>1, NextType DEF TypeOK
        <5> QED
          BY <5>1
      <4>1. camId[r] = 0
        BY <1>1, <2>1 DEF HandoffAgrees
      <4>2. \A v \in Workers : ~Deliver(v)
        BY <1>1, <3>1 DEF Deliver, OneFinalizer, Finalizing
      <4>3. \A v \in Workers : Push(v) => job[v].run # r
        BY <1>1, <4>1 DEF Push, PushesAreDrafts, JoinsCam
      <4> QED
        BY <1>1, <4>2, <4>3, CamMoves
    <3>4. pc[w] = "deliver" => handoff.drafts = CamSections(r)
      BY <1>1, <2>1 DEF HandedOver
    <3>5. pc[w] = "settle" /\ handoff.cam # 0 => cam[r] = CamSections(r)
      BY <1>1, <2>1 DEF HandedOver
    <3>6. job'[w].run = r
      BY <2>1, <3>1
    <3>7. CamSections(job[w].run)' = CamSections(r)'
      BY <3>6 DEF CamSections, SectionsIn
    <3> QED
      BY <3>1, <3>2, <3>3, <3>4, <3>5, <3>6, <3>7
  <2> QED
    BY <1>1, <1>2, <2>2, <2>3, <2>4, HandoffMoves DEF Finalizing
<1> QED
  BY <1>2 DEF HandedOver, CamSections, SectionsIn

\* A draft on its way stays on its way until it is pushed.
LEMMA ArrivalGoesOn ==
  ASSUME CarefulPool, ExclusiveInv, [Next]_vars,
         NEW j \in Jobs, j.kind # "reconcile", camId[j.run] # 0, Arrives(j)
  PROVE  Arrives(j)' \/ \E w \in Workers : Push(w) /\ job[w] = j
<1>1. /\ TypeOK /\ status'[j] = "complete" /\ MaxCrashes = 0 /\ crashes \in Nat
  BY CompletedStays DEF CarefulPool, ExclusiveInv, TypeOK, Arrives
<1>2. PICK w \in Workers : job[w] = j /\ pc[w] \in {"after", "push"}
  BY DEF Arrives
<1>3. CASE pc'[w] \in {"after", "push"} /\ job'[w] = job[w]
  BY <1>1, <1>2, <1>3 DEF Arrives
<1>4. ASSUME NEW v \in Workers \ {w}, Claim(v) \/ WorkerStep(v)
      PROVE  pc'[w] = pc[w] /\ job'[w] = job[w]
  BY <1>1, <1>4, OneThreadMoves
<1>5. ~Claim(w)
  BY <1>2 DEF Claim
<1>6. CASE WorkerStep(w)
  <2>1. CASE AfterSection(w)
    <3>1. JoinsCam(job[w])
      BY <1>2 DEF JoinsCam, Arrives
    <3>2. pc'[w] = "push" /\ job' = job
      BY <1>1, <2>1, <3>1 DEF AfterSection, Goto, TypeOK
    <3> QED
      BY <1>3, <3>2
  <2>2. CASE Push(w)
    BY <1>2, <2>2
  <2> QED
    BY <1>2, <1>6, <2>1, <2>2
    DEF WorkerStep, ReadInputs, DraftDone, JobFailed, ReconcileRead, ReviseSection,
        ReconcileDone, Finalize, Deliver, Settle, Conclude, Notify, Executing
<1>7. ASSUME NEW S \in SUBSET Expired, Reap(S)
      PROVE  pc'[w] = pc[w] /\ job'[w] = job[w]
  BY <1>1, <1>2, <1>7 DEF Reap, TypeOK
<1>8. ASSUME NEW r \in Runs, Request(r)
      PROVE  UNCHANGED <<pc, job>>
  BY <1>8 DEF Request, CreateRun, Announce, RetrySection, RegenerateSection, poolVars
<1>9. ~Crash
  BY <1>1 DEF Crash
<1>10. CASE Rest \/ UNCHANGED vars
  BY <1>2, <1>3, <1>10 DEF Rest, vars, poolVars
<1> QED
  BY <1>2, <1>3, <1>4, <1>5, <1>6, <1>7, <1>8, <1>9, <1>10 DEF Next

\* The run gets its CAM: it holds the sections as they are.
LEMMA KeptAtHandover ==
  ASSUME CamKeptInv, [Next]_vars, NEW r \in Runs, camId[r] = 0, camId'[r] # 0, NEW c \in Codes
  PROVE  NothingIsLost(r, c)'
<1>1. TypeOK /\ PushesAreDrafts /\ HandedOver
  BY DEF CamKeptInv, SettledInv, ExclusiveInv
<1>2. PICK w \in Workers : Settle(w) /\ job[w].run = r
  BY <1>1, CamIdMoves
<1>3. pc[w] = "settle" /\ handoff.cam # 0 /\ UNCHANGED <<status, content, cam>>
  BY <1>1, <1>2 DEF Settle, RecordedCam, outVars, TypeOK
<1>4. cam[r] = CamSections(r)
  BY <1>1, <1>2, <1>3 DEF HandedOver
<1>5. ~Regenerated(r, c)
  BY <1>1 DEF Regenerated, PushesAreDrafts
<1>6. cam[r][c] = IF status[Initial(r, c)] = "complete" THEN content[Initial(r, c)] ELSE "none"
  BY <1>4 DEF CamSections, SectionsIn
<1>7. cam'[r][c] = IF status'[Initial(r, c)] = "complete" THEN content'[Initial(r, c)] ELSE "none"
  BY <1>3, <1>6
<1>8. ~Regenerated(r, c)'
  BY <1>3, <1>5 DEF Regenerated
<1> QED
  BY <1>7, <1>8 DEF NothingIsLost

\* A push brings a finished draft into the CAM.
LEMMA KeptByPush ==
  ASSUME CarefulPool, CamKeptInv, NEW r \in Runs, NEW c \in Codes, NEW w \in Workers,
         Push(w), job[w].run = r, job[w].code = c
  PROVE  NothingIsLost(r, c)'
<1>1. TypeOK /\ PushesAreDrafts /\ ~CallFaults
  BY DEF CamKeptInv, SettledInv, ExclusiveInv, CarefulPool
<1>2. PICK j \in Jobs : j = job[w]
  BY <1>1, WorkersJob DEF Push
<1>3. j.run = r /\ j.code = c /\ j.kind # "reconcile" /\ status[j] = "complete"
  BY <1>1, <1>2 DEF Push, PushesAreDrafts, JoinsCam
<1>4. cam' = [cam EXCEPT ![r][c] = content[j]] /\ UNCHANGED <<status, content>>
  BY <1>1, <1>2 DEF Push, dbVars
<1>5. cam'[r][c] = content[j]
  <2>1. cam[r] \in [Codes -> Drafts] /\ cam \in [Runs -> [Codes -> Drafts]]
    BY <1>1 DEF TypeOK
  <2>2. cam'[r] = [cam[r] EXCEPT ![c] = content[j]]
    BY <1>4, <2>1
  <2> QED
    BY <2>1, <2>2
<1>6. CASE j = Initial(r, c)
  BY <1>3, <1>4, <1>5, <1>6 DEF NothingIsLost, Initial
<1>7. CASE c \in Regenerable /\ j = Regen(r, c)
  <2>1. content[j] = "regenerated"
    BY <1>1, <1>3, <1>7 DEF PushesAreDrafts
  <2>2. cam'[r][c] = "regenerated" /\ Regenerated(r, c)'
    BY <1>3, <1>4, <1>5, <1>7, <2>1 DEF Regenerated, Regen
  <2> QED
    BY <2>2 DEF NothingIsLost
<1>8. j = Initial(r, c) \/ (c \in Regenerable /\ j = Regen(r, c))
  BY <1>3 DEF Jobs, InitialJobs, RegenJobs, ReconcileJobs, Initial, Regen
<1> QED
  BY <1>6, <1>7, <1>8

\* A draft that ends is on its way.
LEMMA KeptByDraft ==
  ASSUME ExclusiveInv, NEW j \in Jobs, NEW w \in Workers, DraftDone(w), job[w] = j
  PROVE  /\ Arrives(j)' /\ status[j] = "running"
         /\ UNCHANGED cam
         /\ \A k \in Jobs \ {j} : status'[k] = status[k] /\ content'[k] = content[k]
<1>1. /\ status[j] = "running" /\ TypeOK
  BY DEF ExclusiveInv, HeldIsRunning, DraftDone, Executing
<1>2. status'[j] = "complete" /\ pc'[w] = "after" /\ job'[w] = j
  BY <1>1 DEF DraftDone, TypeOK
<1> QED
  BY <1>1, <1>2 DEF Arrives, DraftDone, outVars, TypeOK

LEMMA CamIsKeptNext ==
  ASSUME CarefulPool, CamKeptInv, [Next]_vars
  PROVE  CamIsKept'
<1>1. /\ TypeOK /\ OneFinalizer /\ ExclusiveInv /\ SettledInv /\ PhaseInOrder /\ HandoffAgrees
      /\ CamIsKept /\ ~SlowWorkers
  BY DEF CamKeptInv, SettledInv, ExclusiveInv, HandoverInv, CarefulPool
<1> SUFFICES ASSUME NEW r \in Runs, camId'[r] # 0, NEW c \in Codes
             PROVE  NothingIsLost(r, c)'
  BY DEF CamIsKept
<1> DEFINE Section == Initial(r, c)
           Pushes(w) == Push(w) /\ job[w].run = r /\ job[w].code = c
<1>2. CASE camId[r] = 0
  BY <1>2, KeptAtHandover
<1>3. CASE \E w \in Workers : Pushes(w)
  BY <1>3, KeptByPush
<1>4. CASE camId[r] # 0 /\ \A w \in Workers : ~Pushes(w)
  <2>1. NothingIsLost(r, c)
    BY <1>1, <1>4 DEF CamIsKept
  <2>2. cam'[r][c] = cam[r][c]
    <3>1. \A w \in Workers : Deliver(w) => job[w].run # r
      BY <1>1, <1>4 DEF Deliver, HandoffAgrees
    <3> QED
      BY <1>1, <1>4, <3>1, CamMoves
  <2>3. ASSUME NEW j \in Jobs, j.run = r, j.code = c, j.kind # "reconcile", Arrives(j)
        PROVE  Arrives(j)'
    BY <1>1, <1>4, <2>3, ArrivalGoesOn
  <2>4. Section \in Jobs /\ Section.run = r /\ Section.code = c /\ Section.kind = "initial"
    BY RowsAreJobs DEF Initial
  <2>5. ASSUME c \in Regenerable
        PROVE  /\ Regen(r, c) \in Jobs /\ Regen(r, c).run = r /\ Regen(r, c).code = c
               /\ Regen(r, c).kind = "regeneration"
    BY <2>5, RowsAreJobs DEF Regen
  <2>6. Arrives(Section) => Arrives(Section)'
    BY <2>3, <2>4
  <2>7. c \in Regenerable /\ Arrives(Regen(r, c)) => Arrives(Regen(r, c))'
    BY <2>3, <2>5
  \* the section itself is drafted
  <2>8. CASE \E w \in Workers : DraftDone(w) /\ job[w] = Section
    <3>1. PICK w \in Workers : DraftDone(w) /\ job[w] = Section
      BY <2>8
    <3>2. /\ Arrives(Section)' /\ status[Section] = "running"
          /\ \A k \in Jobs \ {Section} : status'[k] = status[k]
      BY <1>1, <2>4, <3>1, KeptByDraft
    <3>3. c \in Regenerable => status'[Regen(r, c)] = status[Regen(r, c)]
      BY <2>4, <2>5, <3>2
    <3>4. Regenerated(r, c)' = Regenerated(r, c)
      BY <3>3 DEF Regenerated, Regen
    <3>5. CASE Regenerated(r, c)
      <4>1. Arrives(Regen(r, c)) \/ cam[r][c] = "regenerated"
        BY <2>1, <3>2, <3>5 DEF NothingIsLost
      <4>2. Arrives(Regen(r, c))' \/ cam'[r][c] = "regenerated"
        BY <2>2, <2>7, <3>5, <4>1 DEF Regenerated
      <4> QED
        BY <3>4, <3>5, <4>2 DEF NothingIsLost, Regenerated
    <3>6. CASE ~Regenerated(r, c)
      <4>1. status'[Section] = "complete"
        BY <3>2 DEF Arrives, Initial
      <4> QED
        BY <3>2, <3>4, <3>6, <4>1 DEF NothingIsLost
    <3> QED
      BY <3>5, <3>6
  \* its regeneration is drafted
  <2>9. CASE c \in Regenerable /\ \E w \in Workers : DraftDone(w) /\ job[w] = Regen(r, c)
    <3>1. Arrives(Regen(r, c))'
      BY <1>1, <2>5, <2>9, KeptByDraft
    <3>2. Regenerated(r, c)'
      BY <2>9, <3>1 DEF Arrives, Regenerated, Regen
    <3> QED
      BY <3>1, <3>2 DEF NothingIsLost
  \* neither
  <2>10. CASE /\ \A w \in Workers : ~(DraftDone(w) /\ job[w] = Section)
              /\ c \in Regenerable => \A w \in Workers : ~(DraftDone(w) /\ job[w] = Regen(r, c))
    <3>1. \A w \in Workers : ReconcileDone(w) => job[w].kind = "reconcile"
      BY <1>1 DEF ReconcileDone, PhaseInOrder
    <3>2. (status'[Section] = "complete") = (status[Section] = "complete")
      BY <1>1, <2>4, <2>10, <3>1, CompletionMoves
    <3>3. c \in Regenerable =>
             (status'[Regen(r, c)] = "complete") = (status[Regen(r, c)] = "complete")
      BY <1>1, <2>5, <2>10, <3>1, CompletionMoves
    <3>4. Regenerated(r, c)' = Regenerated(r, c)
      BY <3>3 DEF Regenerated, Regen
    <3>5. content'[Section] = content[Section]
      <4>1. status[ReconcileOf(r)] # "running"
        BY <1>1, <1>4 DEF PhaseInOrder
      <4> QED
        BY <1>1, <2>10, <4>1, TextStays
    <3>6. CASE Regenerated(r, c)
      <4>1. \/ Arrives(Regen(r, c)) \/ cam[r][c] = "regenerated"
            \/ status[Section] = "complete" /\ cam[r][c] = content[Section]
        BY <2>1, <3>6 DEF NothingIsLost
      <4>2. \/ Arrives(Regen(r, c))' \/ cam'[r][c] = "regenerated"
            \/ status'[Section] = "complete" /\ cam'[r][c] = content'[Section]
        BY <2>2, <2>7, <3>2, <3>5, <3>6, <4>1 DEF Regenerated
      <4> QED
        BY <3>4, <3>6, <4>2 DEF NothingIsLost
    <3>7. CASE ~Regenerated(r, c)
      <4>1. IF status[Section] = "complete"
            THEN cam[r][c] = content[Section] \/ Arrives(Section)
            ELSE cam[r][c] = "none"
        BY <2>1, <3>7 DEF NothingIsLost
      <4>2. IF status'[Section] = "complete"
            THEN cam'[r][c] = content'[Section] \/ Arrives(Section)'
            ELSE cam'[r][c] = "none"
        BY <2>2, <2>6, <3>2, <3>5, <4>1
      <4> QED
        BY <3>4, <3>7, <4>2 DEF NothingIsLost
    <3> QED
      BY <3>6, <3>7
  <2> QED
    BY <2>8, <2>9, <2>10
<1> QED
  BY <1>2, <1>3, <1>4

LEMMA CamKeptNext == CarefulPool /\ CamKeptInv /\ [Next]_vars => CamKeptInv'
<1> SUFFICES ASSUME CarefulPool, CamKeptInv, [Next]_vars PROVE CamKeptInv'
  OBVIOUS
<1>1. SettledInv' /\ HandoverInv'
  BY SettledNext, HandoverNext DEF CarefulPool, CamKeptInv
<1>2. PhaseInOrder' /\ PushesAreDrafts'
  BY PhaseNext, PushNext DEF CarefulPool, CamKeptInv, SettledInv
<1> QED
  BY <1>1, <1>2, HandedOverNext, CamIsKeptNext DEF CamKeptInv

\* When a run rests with its CAM, the CAM holds every completed section with its last text
\* or a regeneration of it and nothing else, however sections are retried, regenerated,
\* reconciled and pushed by different workers (worker.py, _after_section and
\* _maybe_finalize) -- as long as no crash, lost reply or failed push comes in between.
THEOREM CamIsComplete == CarefulPool => (SafeSpec => []CamHoldsEverySection)
<1> SUFFICES ASSUME CarefulPool PROVE SafeSpec => []CamHoldsEverySection
  OBVIOUS
<1>1. CamKeptInv => CamHoldsEverySection
  <2> SUFFICES ASSUME CamIsKept, NEW r \in Runs, camId[r] # 0, ~Busy(r), NEW c \in Codes
               PROVE  /\ Regenerated(r, c) => cam[r][c] \in {"regenerated", content[Initial(r, c)]}
                      /\ ~Regenerated(r, c) /\ status[Initial(r, c)] = "complete"
                            => cam[r][c] = content[Initial(r, c)]
                      /\ ~Regenerated(r, c) /\ status[Initial(r, c)] # "complete"
                            => cam[r][c] = "none"
    BY DEF CamKeptInv, CamHoldsEverySection, Regenerated
  <2>1. ~Arrives(Initial(r, c)) /\ ~Arrives(Regen(r, c))
    BY DEF Arrives, Busy, Initial, Regen
  <2> QED
    BY <2>1 DEF CamIsKept, NothingIsLost
<1>2. CamKeptInv /\ [Next]_vars => CamKeptInv'
  BY CamKeptNext
<1> QED
  BY <1>1, <1>2, CamKeptInit, PTL DEF SafeSpec
=============================================================================
