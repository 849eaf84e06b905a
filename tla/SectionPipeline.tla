--------------------------- MODULE SectionPipeline --------------------------
(***************************************************************************)
(* What happens inside the drafts of one run (orchestration worker.py,     *)
(* genai main.py): the agents that write a section and check it, with      *)
(* bounded revisions, and the agent that reconciles the finished sections  *)
(* of the memo.  Each call of an agent is a step; its reply may be         *)
(* anything, or the call fails.  How sections are queued, claimed, handed  *)
(* over and regenerated is in Orchestration.                               *)
(*                                                                         *)
(* A text is known by what the agents say of it, so a few texts do.        *)
(* X_Slip is X with a plausible slip.                                      *)
(***************************************************************************)
EXTENDS Naturals, FiniteSets

CONSTANTS
  Sections,            \* sections of the template that are not skipped
  Texts,               \* what the summarisation agent may write
  NoText,              \* nothing yet
  RevisionLimits,      \* values of agent_revision_limit, 0 to 3
  MaxSectionAttempts   \* attempts of the reconcile job before it is given up

ASSUME PipelineAssumption ==
  /\ NoText \notin Texts
  /\ RevisionLimits \subseteq 0..3
  /\ MaxSectionAttempts \in Nat \ {0}

VARIABLES
  setting,  \* the settings frozen in the run
  job,      \* the section's draft, checks and where its pipeline is
  recon,    \* the reconcile job
  opinion   \* GHOST: the last verdict of the consistency agents, and on what text

vars == <<setting, job, recon, opinion>>

-----------------------------------------------------------------------------
Agents == {"materiality", "consistency"}

\* "unknown": the reply could not be used (parse_agent_json); nothing was checked
Verdicts == {"yes", "no", "unknown"}

NoCheck == [passed |-> "unchecked", of |-> NoText, revisions |-> 0]

NewJob == [status |-> "running", step |-> "extract", rejected |-> FALSE,
           text |-> NoText, flags |-> NoText, drafts |-> 0, checks |-> [g \in Agents |-> NoCheck]]

NoOpinion == [of |-> NoText, said |-> "unchecked"]

NoRecon == [status |-> "none", attempts |-> 0, seen |-> {}, flagged |-> {}, todo |-> {}]

Init ==
  /\ setting \in [limit : RevisionLimits, materiality : BOOLEAN, consistency : BOOLEAN,
                  scope : {"per_section", "post_generation"}]
  /\ job = [s \in Sections |-> NewJob]
  /\ recon = NoRecon
  /\ opinion = [s \in Sections |-> NoOpinion]

\* the checks that run within the section
InPipeline(g) == CASE g = "materiality" -> setting.materiality
                   [] g = "consistency" -> setting.consistency /\ setting.scope = "per_section"

WantsReconcile == setting.consistency /\ setting.scope = "post_generation"

\* the step after an agent is done
After(g) == IF g = "draft" /\ InPipeline("materiality") THEN "materiality"
            ELSE IF g # "consistency" /\ InPipeline("consistency") THEN "consistency"
            ELSE "commit"

-----------------------------------------------------------------------------
(* One section: _run_agent_pipeline *)

At(s, step) == job[s].status = "running" /\ job[s].step = step /\ ~job[s].rejected

Extract(s) ==
  /\ At(s, "extract")
  /\ job' = [job EXCEPT ![s].step = "draft"]
  /\ UNCHANGED <<setting, recon, opinion>>

Flags_OfFirst(j, t) == IF j.drafts = 0 THEN t ELSE j.flags
\* the figures found untraceable are those of the last reply
Flags(j, t) == t

\* a reply of the summarisation agent
Written(j, t) == [j EXCEPT !.text = t, !.flags = Flags(j, t), !.drafts = @ + 1]

Draft(s) ==
  /\ At(s, "draft")
  /\ \E t \in Texts :
       job' = [job EXCEPT ![s] = [Written(job[s], t) EXCEPT !.step = After("draft")]]
  /\ UNCHANGED <<setting, recon, opinion>>

MayRevise_OffByOne(check) == check.passed = "no" /\ check.revisions <= setting.limit
MayRevise(check) == check.passed = "no" /\ check.revisions < setting.limit

Submitted_FirstDraft(s, g) ==
  IF job[s].checks[g].revisions > 0 THEN job[s].checks[g].of ELSE job[s].text
\* the draft a check is asked about
Submitted(s, g) == job[s].text

\* check and recheck: the loop goes on while the verdict is a clear no
Check(s, g) ==
  /\ At(s, g)
  /\ \E v \in Verdicts :
       LET t     == Submitted(s, g)
           check == [job[s].checks[g] EXCEPT !.passed = v, !.of = t]
       IN /\ job' = [job EXCEPT
                ![s].checks[g] = check,
                ![s].rejected = MayRevise(check),
                ![s].step = IF MayRevise(check) THEN g ELSE After(g)]
          /\ opinion' = IF g = "consistency" THEN [opinion EXCEPT ![s] = [of |-> t, said |-> v]]
                                             ELSE opinion
  /\ UNCHANGED <<setting, recon>>

Revise(s, g) ==
  /\ job[s].status = "running" /\ job[s].step = g /\ job[s].rejected
  /\ \E t \in Texts :
       LET check == [job[s].checks[g] EXCEPT !.revisions = @ + 1] IN
       job' = [job EXCEPT ![s] =
                 [Written(job[s], t) EXCEPT !.rejected = FALSE, !.checks[g] = check]]
  /\ UNCHANGED <<setting, recon, opinion>>

\* process_job: the outcome is written
Complete(s) ==
  /\ At(s, "commit")
  /\ job' = [job EXCEPT ![s].status = "complete"]
  /\ UNCHANGED <<setting, recon, opinion>>

\* a call fails: nothing of the attempt is kept
Fail(s) ==
  /\ job[s].status = "running"
  /\ job' = [job EXCEPT ![s] = [NewJob EXCEPT !.status = "failed"]]
  /\ UNCHANGED <<setting, recon, opinion>>

\* retry_section
Retry(s) ==
  /\ job[s].status = "failed"
  /\ job' = [job EXCEPT ![s] = NewJob]
  /\ opinion' = [opinion EXCEPT ![s] = NoOpinion]
  /\ UNCHANGED <<setting, recon>>

-----------------------------------------------------------------------------
(* The memo: _run_reconcile *)

Drafted == {s \in Sections : job[s].status = "complete"}

\* the last section settles, or the job is claimed again after a crash
BeginReconcile ==
  /\ WantsReconcile
  /\ \/ /\ recon.status = "none"
        /\ \A s \in Sections : job[s].status # "running"
        /\ Cardinality(Drafted) >= 2
     \/ recon.status = "queued"
  /\ recon' = [NoRecon EXCEPT !.status = "judging", !.attempts = recon.attempts + 1,
                              !.seen = Drafted]
  /\ UNCHANGED <<setting, job, opinion>>

\* One reply on all drafts.  What it does not mention, or flags without saying why, is
\* taken as consistent, and so is everything if the reply cannot be used.
Judge ==
  /\ recon.status = "judging"
  /\ \E flagged \in SUBSET recon.seen :
       /\ recon' = [recon EXCEPT !.status = "revising", !.flagged = flagged, !.todo = flagged]
       /\ opinion' = [s \in Sections |-> IF s \in recon.seen
                        THEN [of |-> job[s].text, said |-> IF s \in flagged THEN "no" ELSE "yes"]
                        ELSE opinion[s]]
  /\ UNCHANGED <<setting, job>>

Resolved_Always(before, t) == "yes"
\* a new text counts as consistent, it is not judged again
Resolved(before, t) == IF t # before THEN "yes" ELSE "no"

\* _revise_section_for_consistency: one re-draft, none if the limit is 0
Redraft(s) ==
  LET j == job[s]
      \* one more draft, the same text as before or another
      Redrafted(t) == IF t # j.text THEN Written(j, t) ELSE [j EXCEPT !.drafts = @ + 1]
      Judged(t)    == [passed |-> Resolved(j.text, t), of |-> t,
                       revisions |-> IF t # j.text THEN 1 ELSE 0]
  IN
  /\ recon.status = "revising"
  /\ s \in recon.todo
  /\ recon' = [recon EXCEPT !.todo = @ \ {s}]
  /\ IF setting.limit = 0
     THEN job' = [job EXCEPT ![s].checks["consistency"] =
                    [passed |-> "no", of |-> j.text, revisions |-> 0]]
     ELSE \E t \in Texts :
            job' = [job EXCEPT ![s] =
                      [Redrafted(t) EXCEPT !.checks["consistency"] = Judged(t)]]
  /\ UNCHANGED <<setting, opinion>>

\* the others get a clean verdict ...
RecordClean ==
  /\ recon.status = "revising"
  /\ recon.todo = {}
  /\ recon' = [recon EXCEPT !.status = "recorded"]
  /\ job' = [s \in Sections |-> IF s \in recon.seen \ recon.flagged
       THEN [job[s] EXCEPT !.checks["consistency"] =
               [passed |-> "yes", of |-> job[s].checks["consistency"].of, revisions |-> 0]]
       ELSE job[s]]
  /\ UNCHANGED <<setting, opinion>>

\* ... and a commit of its own ends the phase
FinishReconcile ==
  /\ recon.status = "recorded"
  /\ recon' = [recon EXCEPT !.status = "complete"]
  /\ UNCHANGED <<setting, job, opinion>>

Reconciling == recon.status \in {"judging", "revising", "recorded"}

\* a call fails: what was re-drafted stays
ReconcileFails ==
  /\ Reconciling
  /\ recon' = [recon EXCEPT !.status = "failed"]
  /\ UNCHANGED <<setting, job, opinion>>

\* the process dies in the middle: the reaper queues the job again or gives it up
ReconcileReaped ==
  /\ Reconciling
  /\ recon' = [recon EXCEPT !.status =
                 IF recon.attempts < MaxSectionAttempts THEN "queued" ELSE "failed"]
  /\ UNCHANGED <<setting, job, opinion>>

-----------------------------------------------------------------------------
Next ==
  \/ \E s \in Sections :
       \/ Extract(s) \/ Draft(s) \/ Complete(s) \/ Fail(s) \/ Retry(s) \/ Redraft(s)
       \/ \E g \in Agents : Check(s, g) \/ Revise(s, g)
  \/ BeginReconcile \/ Judge \/ RecordClean \/ FinishReconcile
  \/ ReconcileFails \/ ReconcileReaped

Spec == Init /\ [][Next]_vars

-----------------------------------------------------------------------------
PipelineChecks == {g \in Agents : InPipeline(g)}

\* Revisions are bounded and used (FR-D04): the model writes a section once, once more
\* per permitted revision of each check that runs, and once per attempt to reconcile; a
\* limit of 0 means a single draft; and a section is completed with a check that says
\* no only when the limit is used up.
RevisionsBounded ==
  \A s \in Sections :
    LET j == job[s] IN
    /\ j.drafts <= 1 + setting.limit * Cardinality(PipelineChecks)
                     + (IF setting.limit > 0 THEN recon.attempts ELSE 0)
    /\ j.status = "complete" => \A g \in PipelineChecks :
         j.checks[g].passed = "no" => j.checks[g].revisions = setting.limit

\* What the record says of a finished section is true of its text (the audit event and
\* the data-gap trailer rest on it): the untraceable figures are those of this text; a
\* check recorded as passed did not end with this text rejected, whatever was revised in
\* between by either phase, and also when the reconcile phase ran twice (if it fails
\* half-way, its last objections are lost with it); and a verdict of the pipeline is about
\* this text unless a later check had it rewritten.
ChecksDescribeTheText ==
  \A s \in Drafted :
    LET j == job[s]
        m == j.checks["materiality"]
        c == j.checks["consistency"]
    IN /\ j.flags = j.text
       /\ recon.status \in {"none", "complete"} /\ c.passed = "yes" =>
            opinion[s] # [of |-> j.text, said |-> "no"]
       /\ InPipeline("consistency") => c.of = j.text
       /\ InPipeline("materiality") =>
            m.of = j.text \/ c.revisions > 0 \/ recon.attempts > 0
=============================================================================
