# Formal models of the CAM platform

The CAM platform drafts *credit assessment memos* (CAMs): an analyst opens a case,
uploads documents, starts a *run*, and a pool of workers drafts the memo section by
section with a language model; the result is edited by people, finalised and
exported.  This directory holds TLA+ models of the parts of it where the order of
steps matters, the TLC configurations that check them on small instances, and proofs
that the TLA+ proof system checks for every value of the constants.

Paths below are relative to `src/cam-platform/src/cam/`; `docs/` and `tests/` stand
for `src/cam-platform/docs/` and `src/cam-platform/tests/`.

## 1. Inventory

The platform is a set of FastAPI services behind one gateway.  Each owns a database
and calls the others over HTTP.  Request handlers are plain functions that FastAPI
runs in a thread pool; production runs them on PostgreSQL (`common/db.py`), whose
default isolation lets the transactions of two requests interleave.

| component | state it keeps | operations | what makes it hard | what makes it correct |
|---|---|---|---|---|
| **orchestration** `services/orchestration/{main,worker,resolver,models}.py` | `runs`, `section_jobs`, `notifications`; two in-process locks; one reaper clock | submit, admit, claim, draft, reconcile, settle, hand over, join late, reap, retry, regenerate | threads race for jobs, leases expire, the process dies between two commits, calls to other services fail | no job is done twice, caps and FIFO admission hold, status and `cam_id` agree with the sections, one CAM per run, every run settles |
| agent pipeline of a section `worker.py:470-587`, agents `genai/main.py` | none of its own; the draft and the checks recorded with it | extract, summarise, materiality, consistency, reconcile, bounded revisions | agents fail or answer nonsense, three loops add up on one draft, the memo-level phase repeats after a failure | a bounded number of revisions, all of them used before a rejected draft is kept; what is recorded of a section is about its text |
| **output: CAM editor** `services/output/{main,models}.py` | `cams`, `cam_sections`, `section_versions`, `suggestions`, `chat_messages` | create, late section, edit with autosave, regenerate, chat, accept, reject, finalise | several editors and the pipeline write the same section; a chat takes seconds | no blind overwrite, numbered history, suggestions only by acceptance, nothing changes after finalisation |
| output: exports `exports.py` | none | DOCX, PDF | two renderers for one text, ragged tables | both show everything, in the same order and shape |
| **master configuration** `services/master_config/{main,engine,models}.py` | `master_items`, `master_versions` | draft, edit, submit, approve, reject, retire, roll back, resolve | four-eyes rule, effective dates, two approvers at once | at most one published version, an approver who is neither author nor submitter, published versions never change |
| template dependencies `schemas.py` | none | cycle check | two services resolve dependencies, each with its own code | an accepted template has acyclic dependencies, hence a run never waits on itself |
| bulk import `main.py:530-640`, `xlsx_io.py`, `csv_io.py` | none | order a bundle, parse workbooks and CSV files | references in any order; a bad row in a good file | everything importable lands; no row gets lost unreported |
| prompt store `prompt_store.py` | texts in a Git repository | publish, fetch | written before the decision commits | a published version gets the text that was approved |
| **document** `services/document/{main,vaf,storage,models}.py` | `cases`, `documents`, `document_chunks`, files | upload pipeline (format, size, scan, extract, duplicate check, store, index), tag, override, delete, re-index, case status | one file system and one database without a common transaction; duplicates race | quarantined documents are never readable, no two stored copies, no row without its file |
| chunking, retrieval `chunking.py`, `retrieval.py` | none | split, rank | boundaries | chunks cover the text, overlap as configured, the loop ends |
| extraction, OCR, embedding, search | external | library calls | - | - |
| tagging `services/tagging/{main,scorer}.py` | a 60 s cache of the masters | classify in three modes, with fallbacks | stale cache; two opinions that disagree or are missing | a tag nobody reviews is beyond doubt; settings in use are at most one time-to-live old |
| genai `services/genai/*` | provider and embedder, built once | generate, edit, the agents, reload | the settings are replaced while a thread builds from them | saved settings apply without a restart |
| rules `services/rules/main.py`, `common/rules_engine.py` | none | compose prompt layers | stateless | layers keep their order |
| **audit** `services/audit/main.py`, `common/audit.py` | `audit_events`, a hash chain; a per-process lock | append, verify | two writer processes fork the chain; emission is fail-open | the chain verifies, appended events are never altered |
| auth, access control `services/auth/main.py`, `common/{security,rbac}.py` | `users`; signed tokens | log in, manage accounts | tokens outlive the rights they carry | rights outlive a change of the user by less than a token life |
| gateway `gateway/main.py` | sliding windows of request times | route, throttle | window boundaries, one event loop | at most the quota in any window |
| common infrastructure `common/*` | - | HTTP, configuration, mail | - | - |
| frontend `frontend/` | browser state | polls runs, edits CAMs | - | - |

How they interact: the analyst's browser reaches every service through the gateway.
Orchestration resolves published masters from master configuration when a run is
created, and freezes what it resolved in the run.  Its workers call document
(retrieval), rules (prompt), genai (drafts) and output (`POST /api/cams`,
`POST /api/cams/{id}/sections`), and report the state of the case to document
(`PATCH /api/cases/{id}/status`).  Output calls genai for chat edits.  Every service
posts to audit and goes on if audit is down.

## 2. Plan

Order of work, the most important behaviour first.

1. `Orchestration` (done): the run and its sections, workers, reaper, hand-off;
   `RunLifecycle` (done): what a client that polls a run may see, implemented by it;
   `OrchestrationProofs` (done: every safety property of the runs, the safety part of the
   refinement, and that the pool never stalls).
2. `CamEditor`, `CamEditorProofs` (done): concurrent requests on one CAM; `CamDocument`
   (done): what one CAM promises, implemented by it when short requests do not overlap.
3. `Masters`, `MastersProofs` (done): versions with effective dates, decisions of
   several admins, rollback, import, the prompt store.  `TemplateRules`, `Workbook`
   (done): what is validated and how files are taken in.
4. `DocumentIntake` (done): upload, quarantine, duplicates, index, deletion; `Chunking`
   (done) as a pure algorithm; `IntakeProofs` (done).
5. `SectionPipeline`, `PipelineProofs` (done): the agents inside a draft and the
   reconcile phase.
6. `Platform`, `PlatformProofs` (done): rate limit, tokens and roles, the audit trail.
   `ConfigCaches`, `CachesProofs` (done): settings kept in memory by two services.
7. `Tagging`, `Export` and `Algorithms` (done): the remaining pure algorithms, and one
   module that runs each of them on every small input.  `AlgorithmsProofs` (done): the
   same for inputs of any size.
8. Left, composition: `Orchestration` with `CamEditor` in place of its abstract output
   service (retry and regeneration against a finalised CAM), and with `SectionPipeline`
   in place of the step from `drafting` to `after`.

Not stated as a theorem: the completeness of the CAM with failing pushes, for the sections
whose push did not fail; it would take a record of the pushes that failed, which the code
does not keep (`worker.py:819`).

## 3. The modules

### Orchestration

One row of `runs` is `runStatus[r]`, `camId[r]` and `arrival[r]` (the order of
`created_at`); one row of `section_jobs` is `status[j]`, `attempts[j]`, `content[j]`
for a job `j = [run, code, kind]`.  A worker thread is `pc[w]`, `job[w]` and what it
has read (`input[w]`); `handoff` is the local state of the one thread in the middle of
`_maybe_finalize`, and `todo` the list `reap_stuck_jobs` works through.  `cams`, `cam`,
`caseStatus` and `notice` are what the rest of the platform has been told: CAMs created
in the output service, the latest one's sections, the status of the case in the
document service, and the creator's notification.

Every database transaction is one step and every call or wait between two of them
separates two steps:

| label | the thread is about to | code |
|---|---|---|
| `idle` | claim (`Claim`) or, worker 0, reap (`Reap`) | `_claim_next`, `reap_stuck_jobs` |
| `claimed` | read its inputs (`ReadInputs`, `ReconcileRead`) | `_section_payload`, `_run_reconcile` |
| `drafting`, `reviewing` | commit its outcome, or the next re-drafted section | `process_job`, `_run_reconcile` |
| `after`, `push` | look whether the draft joins a CAM that exists, and push it | `_after_section` |
| `finalize` | take `_finalize_lock` and settle | `_maybe_finalize` |
| `deliver`, `settle`, `conclude`, `notify` | call the output service, commit status and `cam_id`, report | `_maybe_finalize`, lock held |

`_claim_lock` spans one transaction, so the transaction is the step and the lock needs
no variable; `_finalize_lock` spans the hand-off and is the predicate `FinalizeLocked`.
Admission is part of `Claim`, as in the code, and commits even if no job is ready:
`IsAdmission(A)` characterises the set that the code's first-come-first-served loop
promotes.  Analysts submit (`CreateRun`, `Announce`), retry a failed section and
regenerate a section; `Crash` loses threads, locks, requests and in-memory data and
keeps the rows.  What a draft says is abstracted to which phase wrote it.

Five constants describe the environment, so that each run says under which
circumstances a property holds: `SlowWorkers` (a live thread may outlast the lease),
`EagerRetry` (an analyst may retry while the run still generates), `CamFaults` (the
hand-off may be refused, or succeed and lose its reply), `CallFaults` (a call whose
failure is only logged may fail) and `WantsReconcile` (the memo-level phase is on).

### RunLifecycle

The abstract specification of a run, over the two columns a client polls: no sections,
workers, locks or leases.  `Orchestration!Lifecycle` instantiates it with
`stage <- runStatus` and `hasCam <- camId # 0`.

### CamEditor

One CAM.  `current[c]` is `cam_sections.current_version_no` and `rows[c]` the
`section_versions` of the section in order of insertion; `suggestions` the table of
that name.  `request[a]` is the request an editor or the pipeline has in progress,
`view[e]` what the browser of `e` has loaded (`frontend/` sends the number it loaded
as `base_version_no`), `saved[e]` the last save that was confirmed.

The request handlers hold no lock, no row is selected for update, and PostgreSQL runs
them at READ COMMITTED.  So a request is two steps: `Begin...` reads and checks,
`Commit...` writes what follows from what was read.  A request that is refused changes
nothing and is no step; `Abandon` rolls one back.  With `Serialised` the short requests
of different actors do not overlap each other, as with SQLite's single writer or one
request at a time; a chat, which waits seconds for the language model, overlaps with
everything in either case.  A text is the number it was written under.

### CamDocument

The abstract specification of a CAM, with one writer at a time and nothing in progress:
the versions of each section, the proposals, the sign-off.  `CamEditor!CamDoc`
instantiates it with `history <- rows`, `proposals <- suggestions` and
`signedOff <- (status = "final")`; requests, browsers and version numbers vanish.  What it
allows is what the service promises: versions are added, the last one may be rewritten
(`Amend`) by the analyst who has just written it by hand and not named it, each text is
new, a proposal is decided once and enters its section by that decision, and after the
sign-off only proposals may come and be rejected.

### Masters

`versions[i]` holds the rows of `master_versions` of the item `i`, the position being
`version_no`; a row has its status, payload (`text`), effective date, maker, submitter,
decider and the reference that approval stamps on it (`commit`, 0 for a local one).
`store[i]` are the texts that were published to the prompt store, `today` is the date
that `published_version` compares with.

Inserting drafts (`CreateItem`, `CreateVersion`, `Rollback`, `Import`) is one step,
because payloads never change and the unique constraint on the number decides between
two inserts.  A decision (submit, approve, reject) is two, `Begin...` and `Commit...`:
`engine.py` checks the status of a row that it read and writes it without looking again,
and between the two of an approval lies a call of the store.  Decisions of different
admins overlap; those of one admin do not, since the page disables its buttons
(`frontend/`, `busyAction`).  `undisturbed` is a history variable: it remembers for
which items decisions overlapped or were made for a later date.

### DocumentIntake

One case.  A row of `documents` is `row[d]`; `uploaded_at`, by which the duplicate check
and the list of the case are ordered, is the number of rows inserted by then (`added`).
The file system is `blob` and `extract`, the index `cuts`: for every indexing that left
something behind, who did it, with or without vectors, in how many passages.  `managed` says which of the
two backends is deployed.  An upload is `StoreBlob`, `WriteExtract`, `InsertRow`, then
`StartIndex` and `CommitIndex` (or `SkipIndex`) and `AutoTag`, a step for every write to
a store of its own; a deletion is `RemoveFiles` and `DeleteRow`; `Abandon` stops any of
them anywhere.  What a run gets is `CaseTags`, `Ranked` and `FullText`, and `Grounding`
what a section may rest on.  `doomed`, `doubled` and `raced` are history variables, see
4.3.

### SectionPipeline

The drafts of one run from within: `job[s]` has the text, the text that the untraceable
figures were computed for (`flags`), the checks that are recorded and where the pipeline
is; `recon` is the reconcile job.  Each call of an agent is a step with any reply or a
failure.  `Check` and `Revise` are the loop of `_run_agent_pipeline` for either check,
`Judge`, `Redraft` and `RecordClean` are `_run_reconcile`, which commits after every
section and may be given up or repeated in the middle.  `opinion` remembers what the
consistency agents said last, and of which text.

### Platform

What every call passes: `Arrive` is the gateway (throttle and token), `Serve`,
`PatchUser`, `Login` and `Forbid` the service, which decodes the token a second time,
`Emit` the audit client, which comes back through the gateway under the name of the
service, `ReadLast` and `AppendEvent` the audit service under its lock.  `hits` is the
dictionary of the throttle: for every principal the admissions it remembers, each with
its time and the call it was for, since several may fall on one moment.  `token[u]` is
what a user holds, `trail` the table of the audit service; a hash is the chain it was
computed from, which is what a collision-free hash amounts to.  `held` remembers when a
user was last entitled to a role.

### ConfigCaches

Two services that keep settings in memory.  In genai `overrides` and `built` are the
module variables `_overrides`, `_provider`, `_embedder`; threads read them without a
lock, and `POST /internal/reload` replaces one after the other (`ReloadAssign`,
`ReloadReset`).  In tagging `cache` is one entry of `_cached`.  Settings are known by
their version.  `excused` remembers a reload that could not do its work.

### Pure algorithms

| module | code | as |
|---|---|---|
| `TemplateRules` | `schemas.py` (sections, references, cycle check), `_import_entries`, the dependency part of `create_run` and of the claim | errors of a template; what a run of it drafts, and when |
| `Workbook` | `parse_workbook` and its sheets, `parse_kpi_csv` | entries and errors of a file, which are built row by row |
| `Chunking` | `chunk_text` | the chunks that follow a position of the window |
| `Tagging` | `scorer.py`, `classify_document` | scores in thousandths, the three modes and their fallbacks |
| `Export` | `parse_blocks` and the DOCX and PDF renderers | runs of lines of one class, the blocks they make, what each renderer shows of them |
| `Sorting` | Python's `sorted`, used by the importer, the workbooks and the scorer | the members of a set in an order; by a key, ties in the order of the input; numbers, the smallest first (how a workbook and a text are read) |

`Algorithms` applies each to an input and compares the answer with a definition that
says what it should be without computing it the same way.  It is a state machine only
as far as a template goes: once accepted, its sections are drafted in any order their
dependencies allow.

What the code computes by recursion or in a loop is a recursive function here, over
positions or, for the depth-first search of the cycle check (`Walk`), over the colours of
the nodes together with the nodes still to look at.  The search goes through a set of
dependencies in some order; which one does not matter to what is proved of it.  Of a
bundle's references those are modelled that are always checked: the segment and the
relationship of a template are checked only once a code list for them has been filled.

### Module layout

The `MC` modules give the instances of the next section.  The theorems of a component
are in the module of its name with `Proofs`: `OrchestrationProofs` (types, exclusive
claims, one CAM, admission, the pool; then everything that a run is told and handed over,
and `RunLifecycle`), `CamEditorProofs`, `MastersProofs`, `IntakeProofs`, `PipelineProofs`,
`PlatformProofs`, `CachesProofs` and `AlgorithmsProofs`.  An operator `X_Slip` beside a
definition `X` is `X` with a plausible slip of the programmer; PROJECT.json lists, for
every property, the slip that must break it.

## 4. What is model-checked

### 4.1 Runs that pass

| run | question | instance |
|---|---|---|
| `orch_settle` | do run, sections, CAM, case and notification stay consistent over every interleaving? | 1 run of 3 sections (a summary on top of the two others, one of them conditional), 2 workers, 1 regeneration, 2 retries; no faults; 403 000 states |
| `orch_progress` | does every run settle, and is what a poller sees a behaviour of `RunLifecycle`? | 1 run of 2 dependent sections, 2 workers, 1 retry, fairness; 5 000 states |
| `orch_burst` | are the caps and the order of admission kept? | 4 runs of 3 analysts over 2 slots, at most 1 each; 1.04 million states |
| `orch_crash` | does recovery keep claims exclusive and sections moving? | 1 run of 2 dependent sections, 2 workers, 1 regeneration, 2 crashes, every call may fail; 135 000 states |
| `cam_edit` | are the history, the saves, the suggestions and the sign-off sound, and is the CAM the abstract document? | 2 sections, one of them late; 2 interchangeable editors and the pipeline; 3 texts; chats overlap; 184 000 states |
| `masters` | is what is in force approved by four eyes, and is it always there? | 1 section prompt of 2 versions, 3 admins, 2 overlapping decisions that may fail, 1 effective date; 1.92 million states |
| `intake` | do the stores, the rows and the index agree on what a run may use? | 2 documents, 2 requests at a time; a report, its copy under a refused name, a scan; both index backends; 2.01 million states |
| `pipeline` | are revisions bounded, and are the recorded checks about the text? | 2 sections, 3 texts, every setting, limits 0 to 3, 2 attempts to reconcile; 726 000 states |
| `platform` | are admission and rights bounded, is the trail sound? | an administrator and an analyst, 3 calls, limit 1 per window; 1.04 million states |
| `caches` | do saved settings come into use? | 2 admins, 2 threads in each service, 3 versions; 455 000 states |
| `algorithms` | do the pure algorithms do what they should on every small input? | see below; 96 000 states |

What they show:

- `NeverDoubleProcessed` (`orch_crash`): no job is executed by two workers, with crashes
  and reaping.
- `SettledRunAgreesWithSections`, `TerminalRunHasCam`, `NoticeIsTrue`,
  `HandedOverOnce`: a settled run has nothing to draft, its status is the verdict over
  its sections, it has exactly the one CAM, and nobody is told otherwise.
- `CamHoldsEverySection`: at rest the CAM has the last text of each drafted section -
  no reconciled, retried or regenerated draft is lost on the way.
- `DependenciesSettledAtDraft`, `DraftRestsOnFinalOutputs`: the prompt of a section is
  built from settled dependencies, and these are still what they were when the draft
  is committed.
- `ReconciledBeforeHandoff`: the memo-level phase precedes the CAM.
- `CaseNeverReopens`: a case that shows a draft is never reported open again.
- `RunningCapRespected`, `UserCapRespected`, `FifoAdmission`: admission.
- `EverySectionSettles`: a section lost in crashes is drafted or given up in the end.
- `EveryRunSettles`, `ImplementsLifecycle`: liveness and refinement.
- `NumberedHistory`, `SavesAreRetrievable`, `SuggestionsLeaveOneTrace`,
  `FinalIsFrozen`: see `CamEditor`.  `ImplementsDocument`: all that overlapping chats,
  editors and the pipeline write is a behaviour of `CamDocument`.
- `FourEyes`, `ServedTextWasApproved`: what is in force was approved by an admin who
  neither made nor submitted it, and is served with the text that was approved, however
  decisions overlap, fail or come late.  `OnePublished`, `ServiceNeverLost`: decisions
  that neither overlap nor look ahead leave one version in force.
- `SourcesNeverSilentlyLost`: a document that reads ready grounds a section in every
  mode, one that is deleted or refused never does.  `ContentCountsOnce`: duplicates are
  told and used once.
- `RevisionsBounded`: three loops on one draft stay within what the setting allows, and
  use it.  `ChecksDescribeTheText`: figures and verdicts are those of the last text.
- `AdmissionIsBounded`: no window lets more than the limit through; rights outlive a
  change of the user by less than a token life.  `TrailIsSound`: the chain verifies at
  every moment and names who acted.
- `ReloadedSettingsAreUsed`, `TaggingSettingsAreRecent`: no stale settings, except where
  4.3 says so.
- `TemplatesDrain` (validation and queue read dependencies alike), `BundlesImport`
  (everything importable lands, in any order), `UploadsLoseNoRow`,
  `ExportsShowEverything` (two formats, one content), `ChunksCover` and
  `UnreviewedTagsAgree` (`algorithms`).

### 4.2 The run that shows a disagreement

`dev_crash` checks a statement of the documentation and TLC finds a behaviour of the
code that violates it; `findings` in PROJECT.json quotes the statement.  The process
dies after the last section is committed and before its run is settled: no queued or
claimed job is left that would lead anyone back to `_maybe_finalize`, so the run stays
running and keeps its slot, against "the queue drains automatically — every accepted run
reaches a terminal state" (`tests/test_orchestration.py:289`).

### 4.3 Seen while modelling

Behaviours of the code that a stronger property would have to exclude.  The first group
is reproduced by changing a constant of an existing instance, or by checking a property
that the module defines and no run uses:

- the lease of a live worker expires, the reaper gives its job to a second one and both
  commit (`SlowWorkers`, `NeverDoubleProcessed`; `worker.py:744`);
- a section retried while the hand-off is on its way leaves a run that settles with a
  section queued (`EagerRetry`, `SettledRunAgreesWithSections`), may be missing in the
  CAM (`CamHoldsEverySection`) and may have dependents that are drafted while it is being
  retried (`DependenciesSettledAtDraft`);
- the reply to the hand-off is lost and the retry of a failed section hands over again,
  so that a run has two CAMs (`CamFaults = {"reply_lost"}`, `HandedOverOnce`);
- after a refused hand-off a run reads complete and has no CAM (`CamFaults =
  {"refused"}`, `TerminalRunHasCam`; `worker.py:991`), and the creator is told so;
- a run whose sections are all skipped at creation has no job, so no worker ever
  settles it (`Skippable` = all sections, `EveryRunSettles`; `main.py:198`);
- a retry puts a run back to running without admission, beyond `max_concurrent_runs`
  (`MaxRetries = 1` in the burst, `RunningCapRespected`; `main.py:318`);
- an autosave rewrites a version under its number, and an editor who loaded it earlier
  saves over a text never seen (`NoBlindOverwrite`; `output/main.py:331`);
- a chat begun before the sign-off leaves a pending suggestion on the final CAM
  (`FinalHasNoPending`; `output/main.py:425`);
- two overlapping requests append a version of the same number (`Serialised = FALSE`,
  `NumberedHistory`; `output/main.py:320`).

The second group is part of the models and excused by history variables, which say
exactly when a property is given up:

- masters (`undisturbed`): two approvals that overlap leave two published versions; a
  submission that comes late puts a published version back in review; approving a
  version for a later date retires the current one at once, so that nothing resolves
  until then;
- intake (`doubled`): two overlapping re-indexings of one document each delete the
  passages they saw and add their own; the managed index merges by position and keeps
  the tail of a longer former cut, against "existing chunks are replaced"
  (`vaf.py:84`), which is true of the local index;
- intake (`raced`): two uploads of one content at the same time are nobody's duplicate;
- intake (`doomed`): a deletion removes the files first, and if it stops there the row
  still reads ready;
- caches (`excused`): a thread that read the settings before a reload and builds after
  it puts the old provider back, against "apply without a restart" (genai
  `main.py:35`); a lost push keeps the old settings; of two overlapping reloads the
  slower one wins.

The third group no property is about:

- a regenerated section is drafted without the outputs it depended on at first: the
  clone is created without `depends_on` (`main.py:354`, modelled by `DepsOf`);
- the report "generating" of a request thread may arrive after the workers' "drafted"
  (`main.py:211`);
- rejecting has no maker check (`engine.py`, `reject`);
- a reconcile reply that cannot be parsed records all sections as consistent (genai
  `main.py:304`), where the rule of `parse_agent_json` is that an unusable reply checks
  nothing; a section re-drafted in that phase counts as consistent without being judged
  again; if the phase fails half-way, its remaining objections are lost; and the verdict
  on materiality may then be about an older draft;
- rows of a workbook without a key, or under the example key, are skipped without
  notice; a repeated key makes two entries, which the parser does not report;
- a table row that consists of dashes only is taken for the separator and left out of
  both exports; the PDF replaces characters that its fonts lack;
- the lock of the audit chain is that of one process; events are sent once, under the
  rate limit of the service that sends them, and their loss is only logged;
- `put_llm_config` validates what it read, so that two overlapping saves of different
  fields may combine to settings nobody validated.

### 4.4 Bounds, and why they are enough

- `MaxRetries`: a second retry is needed for a run that goes partial, running, partial
  again with its CAM already there; further retries repeat that cycle.
- `MaxCrashes`: the second crash hits the recovery from the first, and with
  `MaxSectionAttempts = 2` is the one at which the reaper gives up.
- `Regenerable`: one section, once per run; a regeneration touches only its own job and
  that section of the CAM, so that a second one of another section meets no new state.
- Two workers: every race of the code is between two of them - two claims, two
  finishers, a finisher and the reconcile job; the proofs do not bound them.
- Three sections: the least at which a dependent and an independent section remain
  when one is conditional, and at which the reconcile phase has two others to read.
- Four runs: two slots filled, one run that has to wait for its owner's share and one
  behind it.
- `MaxTexts`: three texts, written by any of pipeline, editors and model, in addition to
  the generated draft: enough for a save, a regeneration over it and an accepted
  proposal over both.
- `masters`: two versions, a predecessor and its successor; three admins, so that one
  who neither made nor submitted a version remains beside the two who did; two
  overlapping decisions, since each conflict is between two; one date after today.
- `intake`: two documents, an original and its duplicate; two requests, the least that
  race; cuts of one and two passages, so that a later one can be shorter.
- `pipeline`: all settings; sections meet only in the reconcile phase, for which two are
  the least the code accepts; three texts distinguish the text a verdict was about, the
  one it led to and the one after it.
- `platform`: with a limit of 1 and a window of 1 the times 1 to 3 hold a full window,
  its end and the moment after; a token of life 2 expires within them; three calls make
  a sign-in, a change of the user and a use.
- `caches`: three versions give two reloads that may overlap; `OneService` lets one of
  the two services move at a time, which loses nothing as they share no variable; five
  ticks are two times-to-live and one.
- `algorithms`: all templates of three sections with every dependency among them, every
  condition, and two with mistakes; all parts of a bundle of five masters in every
  order; workbooks with any content of up to two rows on one sheet (three for sections)
  and full others; CSV files of two rows; texts of up to seven characters with windows
  of 1 to 5 and overlaps below, at and above half of them; up to three lines of a
  section; keyword hits below, at and above the threshold with every reply and mode.

Deadlock is checked in the fault-free orchestration runs: `Rest` is the only way to
stop, and only with everything settled.  It is off in `orch_crash` and `dev_crash`
because the code really stops there (a crash can leave a run that nobody settles), in
`cam_edit` because a final CAM whose texts are used up has no requests left, in
`masters`, `platform`, `caches`, `pipeline` and `intake` because bounded versions,
calls, clocks and drafts run out, and in `algorithms` because a function that has
answered is done.

### 4.5 Fairness

`Spec` of `Orchestration` assumes that a thread that has a job goes on (each call
ends with an answer or a timeout and the thread is never suspended for good), that
worker 0 keeps polling and reaping (`_active_concurrency` never drops below one,
`worker.py:58`, and the pool loop runs as long as the process), and that a submitted
request gets to its last call.  Nothing is assumed of the other idle workers, of
analysts or of crashes.  `RunLifecycle` assumes that a queued run is admitted and a
running one settles; `orch_progress` shows that the former gives the latter.  Only
weak fairness is used.  The other modules have no fairness: nobody has to edit, upload,
decide or call, and what they promise is safety.

## 5. What is proved

All theorems hold for every value of the constants that satisfies the named assumption of
the component's module (`OrchestrationAssumption`, `EditorAssumption`,
`MastersAssumption`, `IntakeAssumption`, `PipelineAssumption`, `PlatformAssumption`,
`CachesAssumption`, `InputsAssumption`): any number of runs, sections, workers, editors,
texts, admins, items, versions, files, requests, calls and threads, inputs of any size, any
dependencies, limits and bounds.  The assumptions say of what kind a constant is and what the code ensures of it (a limit is
positive, a dependency is a section of the template, the tables are finite); TLC evaluates
them in every run.

| theorem | statement | provisos | inductive invariant |
|---|---|---|---|
| *queue* | | | |
| `TypeCorrect` | `[]TypeOK` | none | `TypeOK` itself: a worker has a job exactly when it is not idle |
| `NeverTwoWorkers` | `[]NeverDoubleProcessed` | leases hold | `ExclusiveInv` |
| `OneCamPerRun` | `[]HandedOverOnce` | no crash, no reply lost | `HandoverInv` |
| `TwoCamsTakeACause` | `[]ExtraCamsHaveCauses` | none | `CausesInv` |
| `RunningCapHolds` | `[]RunningCapRespected` | no retries | `AdmissionInv` |
| `UserCapHolds` | `[]UserCapRespected` | no retries | the same |
| `CapsHoldAtAdmission` | `AdmissionKeepsCaps` | none | `ArrivalInv` |
| `AdmittedInOrder` | `FifoAdmission` | none | `TypeOK` |
| `NoRunIsForgotten` | `[]SettlementIsOwed` | speaks of the time before the first crash | `OwedInv` |
| `PoolNeverStalls` | `[]PoolIsNeverStuck` | no cycle of dependencies; the same | `OwedInv`, `RowsAreWhole` |
| *settlement* | | | |
| `CamBeforeStatus`, `NoticesAreTrue` | `[](TerminalRunHasCam /\ NoticeIsTrue)` | the output service takes the CAM | `CamFirstInv` |
| `StatusAgrees` | `[]SettledRunAgreesWithSections` | leases hold, retries wait for the settlement | `SettledInv` |
| `DraftsFromSettledDependencies` | `DependenciesSettledAtDraft` | the same | `GateInv` |
| `DraftsRestOnFinalOutputs` | `DraftRestsOnFinalOutputs` | the same | `FinalInputsInv` |
| `ReconcileComesFirst` | `ReconciledBeforeHandoff` | none | `ReviewInv` |
| `CaseStaysDrafted` | `CaseNeverReopens` | leases hold | `CaseInv` |
| `RefinesLifecycle` | `Lifecycle!SafeSpec` | leases hold, the output service takes the CAM | `LifecycleInv` |
| `CamIsComplete` | `[]CamHoldsEverySection` | `CarefulPool` | `CamKeptInv` |
| *editor* | | | |
| `EditorTypeCorrect` | `[]TypeOK` | none | `Inv` |
| `HistoryNumbered` | `[]NumberedHistory` | short requests do not overlap | `SerialInv` |
| `FinalCamIsFrozen` | `FinalIsFrozen` | the same | `SerialInv` |
| `SavesStayRetrievable` | `[]SavesAreRetrievable` | the same | `SerialInv`, `HistoryInv` |
| `SuggestionsLeaveTheirTrace` | `[]SuggestionsLeaveOneTrace` | the same | the same |
| `EditorImplementsDocument` | `ImplementsDocument` | the same | `DocumentInv` |
| *masters* | | | |
| `FourEyesAlways` | `[]FourEyes` | none | `Inv` |
| `ServedTextAlways` | `[]ServedTextWasApproved` | none | the same |
| `OnePublishedAlways` | `[]OnePublished` | none | `Inv`, `ServiceInv` |
| `ServiceIsNeverLost` | `ServiceNeverLost` | none | the same |
| *documents* | | | |
| `SourcesAreNeverSilentlyLost` | `[]SourcesNeverSilentlyLost` | none | `Inv` |
| `ContentAlwaysCountsOnce` | `[]ContentCountsOnce` | none | `CountInv` |
| *agents of a section* | | | |
| `RevisionsAreBounded` | `[]RevisionsBounded` | none | `Inv` |
| `ChecksAreOfTheText` | `[]ChecksDescribeTheText` | none | the same |
| *platform* | | | |
| `AdmissionStaysBounded` | `[]AdmissionIsBounded` | none | `RateInv`, `RightsInv` |
| `TrailStaysSound` | `[]TrailIsSound` | none | `TrailInv` |
| *caches* | | | |
| `SavedSettingsApply` | `[]ReloadedSettingsAreUsed` | none | `GenaiInv` |
| `TagsUseRecentSettings` | `[]TaggingSettingsAreRecent` | none | `TaggingInv` |
| *algorithms* | | | |
| `TemplatesAlwaysDrain` | `[]TemplatesDrain` | none | `AnswerIsComputed` |
| `BundlesAlwaysImport` | `[]BundlesImport` | none | the same |
| `UploadsNeverLoseARow` | `[]UploadsLoseNoRow` | none | the same |
| `ChunksAlwaysCover` | `[]ChunksCover` | none | the same |
| `UnreviewedTagsAlwaysAgree` | `[]UnreviewedTagsAgree` | none | the same |
| `ExportsAlwaysShowEverything` | `[]ExportsShowEverything` | none | the same |

"None" means that the theorem has no hypothesis beyond the constants; where the property
itself excuses something by a history variable (`undisturbed`, `raced`, `doomed`,
`doubled`, `excused`) 4.3 says what.

The provisos are constants of the model, and each is needed:

- *Leases hold* (`~SlowWorkers`): no live worker outlasts its lease.  Otherwise two
  workers commit the same job in any order, and a section that read complete may read
  failed again.
- *Retries wait for the settlement* (`~EagerRetry`): otherwise a verdict that was computed
  is no longer true when it is committed.
- *No retries* (`MaxRetries = 0`): `retry_section` sets a run back to running without
  admission (`main.py:318`), beyond the caps.  Admission itself keeps them with retries
  too: a step that lets runs leave the queue ends within both caps, the reopened runs
  counted (`AdmissionKeepsCaps`).  That admission is first come, first served needs no
  proviso either.
- *The output service takes the CAM* (`CamFaults = {}`), *no reply lost*, *no crash*: after
  a refusal a run settles without its CAM; after a lost reply or a crash between the call
  and the commit a second CAM is made.  These are the only causes: each CAM too many has a
  crash or, after a lost reply, a retry of its own (`ExtraCamsHaveCauses`).
- `CarefulPool`: all of these but a refusal, and no failing push (`~CallFaults`), since a
  push that fails is only logged (`worker.py:819`).  A refused CAM leaves the run without
  one, of which the property does not speak.

4.3 has the instances at which TLC finds statements false without them.

Why the invariants are what they are:

- `ExclusiveInv`: that nobody else holds a job follows at a claim from the row being
  queued, so a held job must read running (`HeldIsRunning`) - after a crash, nobody
  holds what is still marked running.  `CreateRun` writes rows and must not touch a
  held one (`UnsubmittedHasNoRows`).
- `HandoverInv`: one finaliser at a time (`OneFinalizer`), which knows before the call
  that there is no CAM and after it which one there is (`HandoffAgrees`); when none is
  about to settle, the run knows of its CAM (`CamsAreRecorded`).
- `CausesInv`: a run that is `Spent` - its CAM is on record or about to be, or it was
  settled after a reply that was lost - is not handed over again before another crash or
  retry; one that is not has at most as many CAMs as there were causes.
- `AdmissionInv`: the two caps are kept by a pass that admits a whole set of runs, the
  earliest first. What the pass does is characterised by `IsAdmission`; that its runs are
  well ordered takes distinct arrivals, and that the next arrival is free (`ArrivalInv`,
  which is all that `AdmissionKeepsCaps` needs). The latest of a user's runs in the set
  is the one at which the cap would have been exceeded (`LastArrival`, by well-founded
  induction on finite sets).
- `OwedInv`: the outcome that ends the last open section of a run leads its worker to
  `_maybe_finalize`, and so does everything that ends a job without a worker (the reaper
  keeps what it gave up in its list until it has settled it); `_maybe_finalize` leaves a
  run alone only if a job is open again or the reconcile job is, which leads there in turn.
  That chain breaks at a crash only (4.2).
- `RowsAreWhole`: with it, nobody waits for ever on anybody.  If no worker can take a step,
  all are idle, so a run that is not settled has a section open (`OwedInv`); an open one is
  claimed under a lease, which runs out, or queued; without a cycle one of the queued ones
  has only ended dependencies (`OpenSectionIsReady`), and a run that waits for admission
  waits for a running one or is admitted (`EarliestIsAdmitted`).  `PoolIsNeverStuck` speaks
  of the guards, not of `ENABLED`; that somebody then does go on is fairness, and
  `EveryRunSettles` stays with TLC.  A run all of whose sections were skipped is
  excepted (4.3).
- `CamFirstInv`: what is told to the creator is decided three steps earlier, so the
  verdict carried along must be backed by a CAM in hand and then by the row
  (`VerdictIsBacked`).
- `SettledInv`: the verdict is computed before the hand-off and committed after it; it
  still stands then (`VerdictStands`) because no section of a run that is not settled
  leaves a terminal state, for which claims must be exclusive.
- `GateInv`: the gate is passed at the claim and the prompt is built later
  (`GateStillHolds`).  `FinalInputsInv` carries that over the call of the language model:
  what the prompt was built from is still what the completed dependencies hold
  (`InputsAreFinal`).
- `ReviewInv`: a hand-off in progress is for a run whose reconcile job has ended, or for
  at most one draft (`HandoffIsReviewed`).  A late outcome of a reaped worker may change
  an ended job, but only to another end, so that slow workers do no harm here.
- `CaseInv`: the status of the case is reported two calls after the verdict; a verdict
  other than failed is carried only for a run with a drafted section, a failed one only
  to a case that shows no draft (`CaseIsEarned`).  It cannot be outdated because a section
  that is drafted stays drafted.
- `LifecycleInv`: for the refinement a run must be seen to settle once, from running, and
  with its CAM.  Besides `CaseInv` and `CamFirstInv` that takes that nothing is executed
  or handed over for a run that was not admitted (`OnlyBegunRuns`) and that who is about to
  settle a run is the first to do so (`HandoffIsDue`).  Each step of the queue then is
  a step of `RunLifecycle` or leaves status and CAM alone, one lemma for each kind of step.
- `CamKeptInv`: between its commit and its push the last draft of a section is in nobody's
  row of the CAM.  `NothingIsLost` says where it is: in the CAM, or with a worker that is
  about to look or to push (`Arrives`); and what is handed over agrees with the sections
  until the run has settled (`HandedOver`), because the memo-level phase ends before
  (`PhaseInOrder`) and a regeneration exists only once there is a CAM (`PushesAreDrafts`).
- `Inv` of the editor: a request in progress stays anchored to rows that exist
  (`Anchored`).  `SerialInv`: at most one short request is in progress (`OneWriter`), so
  that the number and the status it read are still right when it commits (`ReadsHold`).
- `HistoryInv`: an accepted proposal stays in the document although autosaves rewrite rows
  in place, because they rewrite rows of a manual source by the same author only, and a
  proposal enters under another source (`ProposalsKeepTheirSource`, `WritesArePrepared`).
  That it enters once takes that no text is proposed twice (`TextsAreNew`).
- `DocumentInv`: for the refinement, a request in progress must be about to do what the
  document allows: the row that an autosave will rewrite is still the last one and still
  unnamed, and what will be written is in no version yet (`WillKeep`).  Each commit is then
  one action of `CamDocument`, and every other step leaves it alone.
- `Inv` of the masters: a late submission may change the submitter between the check of
  an approver and the approval, so that the check does not simply last.  What does:
  an approver in progress neither made the version nor is its submitter *by now*
  (`CheckersAreClean`), because an admin has one decision in progress at a time and
  whoever becomes the submitter meanwhile is another one.  For the served text, the
  request in progress must hold the position at which its own text lies
  (`SentIsStored`), however many others are appended behind it, and every stamp must
  lead to the text of its version (`StampsLeadToTheText`).
- `ServiceInv`: of an undisturbed item at most one version is published and its date has
  come (`Alone`); what an approver found is still the version in force when it is retired
  (`FoundIsStillSo`).
- `Inv` of the intake: an id is given out once, so that nobody indexes or deletes what is
  still being uploaded (`IdsAreOnce`); the files are there before the row that promises
  them (`UploadsStoreFirst`); of a document that is not `doubled` at most one request is
  writing passages, and it replaces all there are (`IndexedApart`).
- `CountInv`: the duplicate check and the insertion of the row are far apart.  An upload
  that found no copy is still the first of its content (`FirstsAreFirst`), because whoever
  uploads that content meanwhile makes it `raced` (`RacesAreSeen`).  The original of a
  duplicate may be deleted but is never quarantined later (`TwinsWereUsable`), and of the
  tagged documents of a content there is a first one, since the dates of the rows differ
  (`DatesAreOnce`, `EarliestExists`).
- `Inv` of the pipeline, one formula for each section (`SectionInv`): where the pipeline
  is agrees with the checks (`Staged`), every draft is paid for by a revision or an attempt
  to reconcile (`Counted`), and what is recorded is about the text at every moment at which
  a reader relies on it (`Recorded`), which includes the middle of a reconcile phase that
  may be given up; `PhaseOrdered` says how far that phase is.
- `RateInv`: no window that ever was holds too many admissions, and those that a window
  ending now contains are all remembered.  `RightsInv`: a token expires within a token
  life of the moment its user was last entitled to the roles in it, also the copy that
  a call on its way carries.  `TrailInv`: who is writing holds the lock and knows the last
  row.
- `GenaiInv`: unless excused, from the moment at which no reload is before its assignment
  everything that a thread holds or will store comes from the last save (`Applied`).
- `TaggingInv`: settings are cached under the time at which their fetch began, so that
  what is stored late is not taken for recent (`InForceAt`).

The algorithms have a trivial invariant, `AnswerIsComputed` (the answer is what the
algorithm makes of the input), and the work is in the lemmas about what they compute for
an input of any size.  Where that takes an induction, it is by a least counterexample: a
recursive function is a `CHOOSE` of a function that satisfies its equation, so first one
is shown to exist up to every length (`ImportIsDefined`, `WalkIsDefined`), then
what holds of its values, since of the arguments for which it fails there would be a least
one (`LeastNumber`).

- *Sorting*: a finite set with a total order can be listed in that order (`Orders` grow by
  one member), hence `Sorted` returns each position once, ordered by key.
- *Bundles*: the types are imported in an order in which a reference never leads forward
  (`BundleIsOrdered`), so that what an importable entry refers to has landed before it.
- *Files*: good rows are those without an error, an entry is made of good rows and each
  good row is in the entries of its key; for sections the key may be in several.
- *Chunks*: each pass starts later than the one before and no later than its end, so that
  the chunks from a position cover what follows it.
- *Exports*: a run of lines ends before the next one starts (`RunsDoNotMeet`) and every
  line is in a run (`LinesAreInRuns`), so that the blocks show each visible line once and
  in order (`BlocksAreRuns`).  Each renderer makes of a block pieces that show just its
  lines (`BlocksArePages`), and putting pages one behind the other (`PagesFlatten`, by
  induction over the definition of `FlattenSeq`) keeps that, since what is shown on one
  precedes what is shown on the next.  The names of sections have a size that no heading
  of a text gets (`HeadingSizes`).
- *The cycle check*: the search does not follow the structure of the graph, so its
  measure is lexical, the white nodes first and then the nodes still to look at in this
  call (`Measure`, `WalkNarrows`).  A search that returns without a back edge has coloured
  all it was asked for black, has left the nodes on its stack grey, and has extended a
  ranking of the black nodes to all of them (`WalkFinishes`).  If the nodes can be ranked,
  what is looked at ranks below the stack, so that no back edge is met
  (`RankedGraphsHaveNoBackEdge`).  Of the sections that are left, one of the lowest rank
  is ready (`SomeSectionIsReady`).

`InputsAssumption` says what the schemas and the parsers ensure of inputs: sections are
finitely many, the codes of published document types differ, an entry of a bundle refers
to masters of the types that its schema names, sizes are not negative, a heading has a
level and a row of a table a cell.

Only model-checked:

- `EveryRunSettles`, `EverySectionSettles` and the fairness part of
  `ImplementsLifecycle` (its safety part is `RefinesLifecycle`): liveness under fairness
  and `ENABLED` are out of reach of the proof system used here.

Everything else that a passing run checks is a theorem.

## 6. What is not modelled

- Several worker processes on one database: the locks are those of one process, and
  the architecture document lists the guard across processes as deferred.
- The 200-row limit of the claim query (`worker.py:250`).
- A database that fails in the middle of a transaction: the worker loop logs the
  exception and goes on, which for the rows is the effect of a crash.
- The text of the data-gap trailer, usage figures, and the state of notifications once
  written.
- Document-level chats and the chat transcript: they change no text of the CAM.
- Masters: sandbox tests, listings, exports and diffs, which read only; field formats,
  placeholders and the payload rules of types other than templates.
- Documents: the numbers behind a ranking, the attributes of a case, the completeness
  report, and the cap on the passages of one document (`vaf.py:91`), of which only its
  content could tell whether it matters.
- Tagging: how a text is split into words and phrases; a document is given by its hits.
- Exports: bold spans, fonts and page breaks; the workbooks offered for download.
- genai: the assembly of prompts, the detection of untraceable figures, which are text
  processing, and the vendors' clients with their retries and traces, which are I/O.
- Platform: routing tables, headers, the creation of users, preference profiles; lineage
  and sampling of the trail, which read only.
- `rules` (a stateless composition of prompt layers), the common infrastructure
  (configuration, HTTP plumbing, mail), the frontend and the scripts.

Everything marked `not_modelled` or `partly` in PROJECT.json has its reason there.
