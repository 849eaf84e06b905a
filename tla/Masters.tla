------------------------------- MODULE Masters ------------------------------
(***************************************************************************)
(* The masters (cam/services/master_config): items -- prompts, templates,  *)
(* document types, ... -- whose content lives in numbered versions, the    *)
(* maker-checker lifecycle of a version (engine.py), effective dates, and  *)
(* the external store that holds the text of approved section prompts      *)
(* (prompt_store.py).                                                      *)
(*                                                                         *)
(* A decision is two steps: Begin... reads the rows, passes the checks and *)
(* calls the store, Commit writes the columns it changes.  Requests of     *)
(* different admins overlap (thread pool, no row is locked); the pages     *)
(* disable their buttons while a request of the same admin is running      *)
(* (frontend MasterDetail.tsx, busyAction).  A refused request changes     *)
(* nothing and is no step.  Payloads are the texts that pass validation,   *)
(* whose rules are in TemplateRules.  An operator X_Slip is X with a       *)
(* plausible slip; no specification uses it.                               *)
(***************************************************************************)
EXTENDS Integers, Sequences, FiniteSets

CONSTANTS
  Items,         \* (type, key) pairs that may come to exist
  Prompts,       \* those that are section prompts
  Admins,        \* business admins
  Nobody,        \* no submitter, no decision yet
  MaxVersions,   \* BOUND: versions of one item, and texts stored for one
  MaxOverlap,    \* BOUND: decisions in progress at the same time
  MaxDate        \* BOUND: dates; 0 stands for "no date" and for the past

ASSUME MastersAssumption ==
  /\ Prompts \subseteq Items
  /\ Nobody \notin Admins
  /\ MaxVersions \in Nat
  /\ MaxOverlap \in Nat
  /\ MaxDate \in Nat

VARIABLES
  versions,   \* MasterVersion rows of an item; version_no is the position
  today,      \* the clock that effective dates are compared with
  store,      \* texts published to the prompt store; a commit is a position
  request,    \* what each admin's request in progress is about to write
  undisturbed \* GHOST: no two decisions on the item overlapped and none of
              \* them approved a version for a later date

vars == <<versions, today, store, request, undisturbed>>

-----------------------------------------------------------------------------
Statuses == {"draft", "in_review", "published", "retired", "rejected"}

InForce(i) == {n \in DOMAIN versions[i] : /\ versions[i][n].status = "published"
                                          /\ versions[i][n].date <= today}

\* the latest version or nothing
Published_LatestOnly(i) == IF Len(versions[i]) \in InForce(i) THEN Len(versions[i]) ELSE 0
\* published_version: what resolves at runtime (0: nothing does)
Published(i) ==
  IF InForce(i) = {} THEN 0 ELSE CHOOSE n \in InForce(i) : \A m \in InForce(i) : m <= n

NoRequest == [op |-> "none"]

Init ==
  /\ versions = [i \in Items |-> <<>>]
  /\ today = 0
  /\ store = [i \in Prompts |-> <<>>]
  /\ request = [a \in Admins |-> NoRequest]
  /\ undisturbed = [i \in Items |-> TRUE]

-----------------------------------------------------------------------------
(* Drafts.  An insert is one step: payloads never change, and of two inserts of  *)
(* the same number the second violates uq_master_version and fails as a whole.   *)

NewRow(a, t, date) == [status |-> "draft", text |-> t, maker |-> a, date |-> date,
                       submitter |-> Nobody, decider |-> Nobody, commit |-> 0]

\* a payload that no version of the item has yet
Fresh(i) == Len(versions[i]) + 1

Insert(rows) ==
  /\ \A i \in DOMAIN rows : Len(versions[i]) < MaxVersions
  /\ versions' = [i \in Items |-> IF i \in DOMAIN rows THEN Append(versions[i], rows[i])
                                                       ELSE versions[i]]
  /\ UNCHANGED <<today, store, request, undisturbed>>

\* POST a new item
CreateItem(a, i) == versions[i] = <<>> /\ Insert([j \in {i} |-> NewRow(a, Fresh(i), 0)])

\* POST a new version, with or without a date
CreateVersion(a, i, date) ==
  versions[i] # <<>> /\ Insert([j \in {i} |-> NewRow(a, Fresh(i), date)])

\* POST .../rollback: a draft with the payload of an older version
Rollback(a, i, n) ==
  /\ n \in DOMAIN versions[i]
  /\ Insert([j \in {i} |-> NewRow(a, versions[i][n].text, 0)])

\* what differs from the published payload, or is not published
Changed(bundle) ==
  {i \in DOMAIN bundle : Published(i) = 0 \/ versions[i][Published(i)].text # bundle[i]}

\* a bundle or a workbook: drafts, in one transaction.  (The CSV of KPI sets drafts what
\* is equal, too: for each item what CreateItem, CreateVersion or Rollback does.)
Import(a, bundle) == Insert([i \in Changed(bundle) |-> NewRow(a, bundle[i], 0)])

-----------------------------------------------------------------------------
(* Decisions: the part before the first write *)

Begin(a, r) ==
  /\ request[a] = NoRequest
  /\ Cardinality({b \in Admins : request[b] # NoRequest}) < MaxOverlap
  /\ request' = [request EXCEPT ![a] = r]
  /\ UNCHANGED <<versions, today, undisturbed>>

BeginSubmit(a, i, n) ==
  /\ n \in DOMAIN versions[i]
  /\ versions[i][n].status = "draft"
  /\ Begin(a, [op |-> "submit", item |-> i, no |-> n])
  /\ UNCHANGED store

MayApprove_NotMaker(a, i, n) ==
  /\ n \in DOMAIN versions[i]
  /\ versions[i][n].status = "in_review"
  /\ a # versions[i][n].maker
\* maker-checker (FR-A03)
MayApprove(a, i, n) ==
  /\ n \in DOMAIN versions[i]
  /\ versions[i][n].status = "in_review"
  /\ a \notin {versions[i][n].maker, versions[i][n].submitter}

Approval(i, n, commit) ==
  [op |-> "approve", item |-> i, no |-> n, retires |-> Published(i), commit |-> commit]

\* POST .../approve; the store is off or out of reach, or the item is no section
\* prompt: the reference stamped on the version is local
BeginApprove(a, i, n) ==
  /\ MayApprove(a, i, n)
  /\ Begin(a, Approval(i, n, 0))
  /\ UNCHANGED store

\* POST .../approve of a section prompt: its text goes to the store first
BeginApproveStored(a, i, n) ==
  /\ i \in Prompts
  /\ MayApprove(a, i, n)
  /\ Len(store[i]) < MaxVersions
  /\ store' = [store EXCEPT ![i] = Append(@, versions[i][n].text)]
  /\ Begin(a, Approval(i, n, Len(store[i]) + 1))

\* POST .../reject, the maker's own version included
BeginReject(a, i, n) ==
  /\ n \in DOMAIN versions[i]
  /\ versions[i][n].status = "in_review"
  /\ Begin(a, [op |-> "reject", item |-> i, no |-> n])
  /\ UNCHANGED store

-----------------------------------------------------------------------------
(* Decisions: what is written and committed *)

Done(a) == request' = [request EXCEPT ![a] = NoRequest]

Deciding(b, i) == request[b] # NoRequest /\ request[b].item = i

\* the GHOST after a decision on item i
Decided(a, i, later) ==
  /\ Done(a)
  /\ undisturbed' = [undisturbed EXCEPT
       ![i] = @ /\ ~later /\ \A b \in Admins \ {a} : ~Deciding(b, i)]
  /\ UNCHANGED <<today, store>>

CommitSubmit(a) ==
  LET i == request[a].item IN
  /\ request[a].op = "submit"
  /\ versions' = [versions EXCEPT ![i][request[a].no] =
                    [@ EXCEPT !.status = "in_review", !.submitter = a]]
  /\ Decided(a, i, FALSE)

Stamp_Latest(r) == IF r.item \in Prompts THEN Len(store[r.item]) ELSE 0
\* the reference publish returned
Stamp(r) == r.commit

Retire_Skipped(rows, n) == rows
Retire(rows, n) == IF n = 0 THEN rows ELSE [rows EXCEPT ![n].status = "retired"]

\* the predecessor that was read is retired, whatever it is by now, also when
\* the version approved takes effect at a later date
CommitApprove(a) ==
  LET r    == request[a]
      rows == Retire(versions[r.item], r.retires)
  IN
  /\ r.op = "approve"
  /\ versions' = [versions EXCEPT ![r.item] =
       [rows EXCEPT ![r.no] =
         [rows[r.no] EXCEPT !.status = "published", !.decider = a, !.commit = Stamp(r)]]]
  /\ Decided(a, r.item, versions[r.item][r.no].date > today)

CommitReject(a) ==
  LET i == request[a].item IN
  /\ request[a].op = "reject"
  /\ versions' = [versions EXCEPT ![i][request[a].no] =
                    [@ EXCEPT !.status = "rejected", !.decider = a]]
  /\ Decided(a, i, FALSE)

\* A decision fails -- a lost connection, a restart -- and is rolled back; what it sent
\* to the store stays there.
Abandon(a) ==
  /\ request[a] # NoRequest
  /\ Done(a)
  /\ UNCHANGED <<versions, today, store, undisturbed>>

Tick ==
  /\ today < MaxDate
  /\ today' = today + 1
  /\ UNCHANGED <<versions, store, request, undisturbed>>

-----------------------------------------------------------------------------
(* What a run gets *)

\* fetch: the stored text of the reference on a version, none if the reference is local
Fetched(i, n) == {store[i][c] : c \in {versions[i][n].commit} \ {0}}

\* resolve_template: the fetched text or, when the store is off or out of reach, the snapshot
Served(i, n) == {versions[i][n].text} \cup Fetched(i, n)

-----------------------------------------------------------------------------
\* entries of a bundle repeat a payload the item already had, or bring a new one
Bundles == {b \in UNION {[s -> 1..MaxVersions] : s \in SUBSET Items \ {{}}} :
              \A i \in DOMAIN b : b[i] <= Fresh(i)}

Next ==
  \/ \E a \in Admins :
       \/ \E i \in Items : CreateItem(a, i)
       \/ \E i \in Items, date \in 0..MaxDate : CreateVersion(a, i, date)
       \/ \E b \in Bundles : Import(a, b)
       \/ \E i \in Items, n \in 1..MaxVersions :
            \/ Rollback(a, i, n) \/ BeginSubmit(a, i, n)
            \/ BeginApprove(a, i, n) \/ BeginApproveStored(a, i, n)
            \/ BeginReject(a, i, n)
       \/ CommitSubmit(a) \/ CommitApprove(a) \/ CommitReject(a) \/ Abandon(a)
  \/ Tick

Spec == Init /\ [][Next]_vars

-----------------------------------------------------------------------------
(* Safety *)

Version == [status : Statuses, text : Nat, maker : Admins, date : 0..MaxDate,
            submitter : Admins \cup {Nobody}, decider : Admins \cup {Nobody}, commit : Nat]

\* What the four eyes rest on: what is in force was approved by an admin who
\* neither made nor submitted it (FR-A03, engine.approve) -- however the
\* submissions, approvals and rejections of several admins overlap.
FourEyes ==
  \A i \in Items : \A n \in DOMAIN versions[i] :
     LET v == versions[i][n] IN
     v.status = "published" => v.decider \in Admins \ {v.maker, v.submitter}

\* Publishing retires the predecessor (models.py, MasterVersion): no two versions
\* of an item are published at the same time, unless decisions on the item
\* overlapped or a version was approved for a later date.
OnePublished ==
  \A i \in Items : undisturbed[i] =>
     Cardinality({n \in DOMAIN versions[i] : versions[i][n].status = "published"}) <= 1

\* What a run resolves to once it resolves forever: submitting, rejecting,
\* rolling back or importing never takes an item out of service, and approving
\* only exchanges it -- with the exceptions of OnePublished.
ServiceNeverLost ==
  [][\A i \in Items : undisturbed'[i] /\ Published(i) # 0 => Published(i)' # 0]_vars

\* The text the store returns for a version's reference is the text that was
\* approved, also when several versions of the prompt were sent to the store at
\* the same time or a request that had sent one failed (resolve_template).
ServedTextWasApproved ==
  \A i \in Prompts : \A n \in DOMAIN versions[i] :
     versions[i][n].status = "published" => Served(i, n) = {versions[i][n].text}
=============================================================================
