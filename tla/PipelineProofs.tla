---------------------------- MODULE PipelineProofs --------------------------
(***************************************************************************)
(* The revisions of a section are bounded and used, and what is recorded   *)
(* of it is about its text, for any sections, texts and limits, whatever   *)
(* the agents reply, and however often the reconcile phase fails, dies and *)
(* begins again.  The invariant speaks of one section at a time and of the *)
(* reconcile job, which is all that sections share.                        *)
(***************************************************************************)
EXTENDS SectionPipeline, FiniteSetTheorems, TLAPS

TextOrNone == Texts \cup {NoText}
Findings   == Verdicts \cup {"unchecked"}
Steps      == Agents \cup {"extract", "draft", "commit"}

Setting == [limit : Nat, materiality : BOOLEAN, consistency : BOOLEAN,
            scope : {"per_section", "post_generation"}]
CheckRecord == [passed : Findings, of : TextOrNone, revisions : Nat]
JobRecord ==
  [status : {"running", "complete", "failed"}, step : Steps, rejected : BOOLEAN,
   text : TextOrNone, flags : TextOrNone, drafts : Nat, checks : [Agents -> CheckRecord]]
ReconRecord ==
  [status : {"none", "judging", "revising", "recorded", "complete", "failed", "queued"},
   attempts : Nat, seen : SUBSET Sections, flagged : SUBSET Sections, todo : SUBSET Sections]
Opinion == [of : TextOrNone, said : Findings]

TypeInv ==
  /\ setting \in Setting
  /\ job \in [Sections -> JobRecord]
  /\ recon \in ReconRecord
  /\ opinion \in [Sections -> Opinion]

\* The reconcile phase is about finished sections; it has begun only if it is wanted.
PhaseOrdered ==
  /\ recon.seen \subseteq Drafted
  /\ recon.todo \subseteq recon.flagged
  /\ recon.flagged \subseteq recon.seen
  /\ recon.status = "none" => recon.attempts = 0 /\ recon.seen = {}
  /\ recon.status # "none" => recon.attempts > 0 /\ WantsReconcile
  /\ recon.status \in {"judging", "recorded", "complete"} => recon.todo = {}

-----------------------------------------------------------------------------
(* One section, given by its job j and the last opinion o on it *)

\* the check g is still to come, or has ended
Ahead(j, g)  == j.step \in {"extract", "draft"} \/ (g = "consistency" /\ j.step = "materiality")
Behind(j, g) == j.step = "commit" \/ (g = "materiality" /\ j.step = "consistency")

\* where the pipeline is agrees with its checks: a rejected draft has a revision left, and
\* a check that ended with a no has none
Staged(j) ==
  /\ j.status = "complete" => j.step = "commit"
  /\ j.rejected => /\ j.status = "running"
                   /\ j.step \in Agents
                   /\ MayRevise(j.checks[j.step])
  /\ \A g \in Agents :
       /\ j.step = g => InPipeline(g)
       /\ Ahead(j, g) => j.checks[g] = NoCheck
       /\ InPipeline(g) => j.checks[g].revisions <= setting.limit
       /\ InPipeline(g) /\ Behind(j, g) /\ j.checks[g].passed = "no" =>
            j.checks[g].revisions = setting.limit

Revisions(j, g) == IF InPipeline(g) THEN j.checks[g].revisions ELSE 0

\* attempts of the reconcile phase that may have re-drafted the section by now
Redrafts(s) ==
  IF setting.limit = 0 THEN 0
  ELSE IF recon.status = "judging" \/ (recon.status = "revising" /\ s \in recon.todo)
       THEN recon.attempts - 1
       ELSE recon.attempts

\* every draft is accounted for
Counted(s, j) ==
  IF j.step \in {"extract", "draft"} THEN j.drafts = 0
  ELSE j.drafts <= 1 + Revisions(j, "materiality") + Revisions(j, "consistency") + Redrafts(s)

\* what the record says is about the text, at every moment that some reader relies on it
Recorded(s, j, o) ==
  LET m == j.checks["materiality"]
      c == j.checks["consistency"]
  IN /\ j.flags = j.text
     /\ recon.status \notin {"judging", "failed", "queued"} /\ s \notin recon.todo
          /\ c.passed = "yes" => o # [of |-> j.text, said |-> "no"]
     /\ recon.status = "revising" /\ s \in recon.seen \ recon.flagged => o.said = "yes"
     /\ recon.status = "revising" /\ s \in recon.todo => o.of = j.text
     /\ InPipeline("consistency") /\ c.passed = "yes" => o.said = "yes"
     /\ ~InPipeline("consistency") /\ s \notin recon.seen => c.passed = "unchecked"
     /\ InPipeline("consistency") /\ j.step = "commit" => c.of = j.text
     /\ InPipeline("materiality") /\ Behind(j, "materiality") =>
          m.of = j.text \/ c.revisions > 0 \/ recon.attempts > 0

SectionInv(s, j, o) == Staged(j) /\ Counted(s, j) /\ Recorded(s, j, o)

Inv ==
  /\ TypeInv
  /\ PhaseOrdered
  /\ \A s \in Sections : SectionInv(s, job[s], opinion[s])

-----------------------------------------------------------------------------
LEMMA InitInv == Init => Inv
<1> SUFFICES ASSUME Init PROVE Inv
  OBVIOUS
<1>1. NewJob \in JobRecord /\ NoOpinion \in Opinion
  BY DEF NewJob, NoCheck, NoOpinion, JobRecord, CheckRecord, Opinion, Findings, Steps, Agents,
     TextOrNone
<1>2. TypeInv
  <2>1. setting \in Setting
    <3>1. RevisionLimits \subseteq Nat
      BY PipelineAssumption
    <3> QED
      BY <3>1 DEF Init, Setting
  <2>2. recon \in ReconRecord
    BY DEF Init, NoRecon, ReconRecord
  <2> QED
    BY <1>1, <2>1, <2>2 DEF Init, TypeInv
<1>3. PhaseOrdered
  BY DEF Init, PhaseOrdered, NoRecon
<1>4. ASSUME NEW s \in Sections
      PROVE  SectionInv(s, NewJob, NoOpinion)
  <2>1. Staged(NewJob)
    BY <1>2 DEF Staged, NewJob, NoCheck, Agents, Ahead, Behind, TypeInv, Setting
  <2>2. Counted(s, NewJob)
    BY DEF Counted, NewJob
  <2>3. Recorded(s, NewJob, NoOpinion)
    BY DEF Recorded, NewJob, NoCheck, NoOpinion, Agents, Behind, Init, NoRecon
  <2> QED
    BY <2>1, <2>2, <2>3 DEF SectionInv
<1>5. \A s \in Sections : job[s] = NewJob /\ opinion[s] = NoOpinion
  BY DEF Init
<1> QED
  BY <1>2, <1>3, <1>4, <1>5 DEF Inv

-----------------------------------------------------------------------------
(* The pipeline of a section *)

\* while its pipeline runs, a section is no concern of the others or of the phase
LEMMA OneSectionMoves ==
  ASSUME Inv, NEW s \in Sections, job[s].status # "complete",
         UNCHANGED <<setting, recon>>,
         job' \in [Sections -> JobRecord], opinion' \in [Sections -> Opinion],
         \A r \in Sections \ {s} : job'[r] = job[r] /\ opinion'[r] = opinion[r],
         SectionInv(s, job'[s], opinion'[s])
  PROVE  Inv'
<1>1. TypeInv'
  BY DEF Inv, TypeInv
<1>2. recon' = recon /\ setting' = setting
  OBVIOUS
<1>3. s \notin recon.seen
  BY DEF Inv, PhaseOrdered, Drafted
<1>4. recon.seen \subseteq Drafted'
  BY <1>3 DEF Inv, PhaseOrdered, Drafted
<1>5. PhaseOrdered'
  BY <1>2, <1>4 DEF Inv, PhaseOrdered, WantsReconcile
<1>6. \A r \in Sections : SectionInv(r, job'[r], opinion'[r])
  BY DEF Inv
<1>7. \A r, j, o : SectionInv(r, j, o)' <=> SectionInv(r, j, o)
  BY <1>2 DEF SectionInv, Staged, Counted, Recorded, Revisions, Redrafts, Behind, Ahead,
     InPipeline, MayRevise, NewJob, NoCheck
<1> QED
  BY <1>1, <1>5, <1>6, <1>7 DEF Inv

LEMMA ExtractKeepsInv ==
  ASSUME Inv, NEW s \in Sections, Extract(s)
  PROVE  Inv'
<1> DEFINE j == job'[s]
<1>1. /\ job' = [job EXCEPT ![s].step = "draft"]
      /\ UNCHANGED <<setting, recon, opinion>>
      /\ job[s].status = "running" /\ job[s].step = "extract" /\ ~job[s].rejected
  BY DEF Extract, At
<1>2. job[s] \in JobRecord /\ SectionInv(s, job[s], opinion[s])
  BY DEF Inv, TypeInv
<1>3. j = [job[s] EXCEPT !.step = "draft"]
  BY <1>1 DEF Inv, TypeInv
<1>4. j \in JobRecord
  BY <1>2, <1>3 DEF JobRecord, Steps
<1>5. SectionInv(s, j, opinion[s])
  BY <1>1, <1>2, <1>3 DEF SectionInv, Staged, Counted, Recorded, JobRecord, Agents, Ahead, Behind
<1>6. /\ job' \in [Sections -> JobRecord]
      /\ \A r \in Sections \ {s} : job'[r] = job[r]
  BY <1>1, <1>4 DEF Inv, TypeInv
<1>7. opinion' = opinion /\ opinion \in [Sections -> Opinion]
  BY <1>1 DEF Inv, TypeInv
<1> HIDE DEF j
<1> QED
  BY <1>1, <1>5, <1>6, <1>7, OneSectionMoves DEF j

\* a reply of the summarisation agent replaces the text and its flags, and nothing else
LEMMA WrittenText ==
  ASSUME NEW j \in JobRecord, NEW t \in Texts
  PROVE  /\ Written(j, t) \in JobRecord
         /\ Written(j, t).text = t /\ Written(j, t).flags = t
         /\ Written(j, t).drafts = j.drafts + 1
         /\ Written(j, t).status = j.status /\ Written(j, t).step = j.step
         /\ Written(j, t).rejected = j.rejected /\ Written(j, t).checks = j.checks
<1> DEFINE w == Written(j, t)
<1>1. w = [j EXCEPT !.text = t, !.flags = t, !.drafts = j.drafts + 1]
  BY DEF Written, Flags
<1>2. /\ w.text = t /\ w.flags = t /\ w.drafts = j.drafts + 1 /\ w.status = j.status
      /\ w.step = j.step /\ w.rejected = j.rejected /\ w.checks = j.checks
  BY <1>1 DEF JobRecord
<1>3. w \in JobRecord
  <2>1. t \in TextOrNone /\ j.drafts + 1 \in Nat
    BY DEF TextOrNone, JobRecord
  <2> QED
    BY <1>1, <2>1 DEF JobRecord
<1> QED
  BY <1>2, <1>3

LEMMA DraftKeepsInv ==
  ASSUME Inv, NEW s \in Sections, Draft(s)
  PROVE  Inv'
<1>1. PICK t \in Texts :
        job' = [job EXCEPT ![s] = [Written(job[s], t) EXCEPT !.step = After("draft")]]
  BY DEF Draft
<1>2. /\ UNCHANGED <<setting, recon, opinion>>
      /\ job[s].status = "running" /\ job[s].step = "draft" /\ ~job[s].rejected
  BY DEF Draft, At
<1>3. job[s] \in JobRecord /\ SectionInv(s, job[s], opinion[s])
  BY DEF Inv, TypeInv
<1> DEFINE w == Written(job[s], t)  j == job'[s]
<1>4. j = [w EXCEPT !.step = After("draft")]
  BY <1>1 DEF Inv, TypeInv
<1>5. /\ After("draft") \in {"materiality", "consistency", "commit"}
      /\ After("draft") = "materiality" => InPipeline("materiality")
      /\ After("draft") = "consistency" => InPipeline("consistency") /\ ~InPipeline("materiality")
      /\ After("draft") = "commit" => ~InPipeline("consistency") /\ ~InPipeline("materiality")
  BY DEF After
<1>6. /\ w \in JobRecord /\ w.text = t /\ w.flags = t /\ w.drafts = job[s].drafts + 1
      /\ w.status = "running" /\ ~w.rejected /\ w.checks = job[s].checks
  BY <1>2, <1>3, WrittenText
<1> HIDE DEF w
<1>7. /\ j \in JobRecord /\ j.step = After("draft")
      /\ j.text = t /\ j.flags = t /\ j.drafts = job[s].drafts + 1
      /\ j.status = "running" /\ ~j.rejected /\ j.checks = job[s].checks
  BY <1>4, <1>5, <1>6 DEF JobRecord, Steps, Agents
<1>8. \A g \in Agents : j.checks[g] = NoCheck
  BY <1>2, <1>3, <1>7 DEF SectionInv, Staged, Ahead
<1> HIDE DEF j
<1>9. Staged(j)
  BY <1>3, <1>5, <1>7, <1>8 DEF Staged, Ahead, Behind, Agents, NoCheck, Inv, TypeInv, Setting
<1>10. Counted(s, j)
  BY <1>2, <1>3, <1>5, <1>7, <1>8 DEF SectionInv, Counted, Revisions, Redrafts, NoCheck, Agents,
     Inv, TypeInv, ReconRecord, PhaseOrdered
<1>11. Recorded(s, j, opinion[s])
  <2>1. s \notin recon.seen /\ s \notin recon.todo
    BY <1>2 DEF Inv, PhaseOrdered, Drafted
  <2>2. j.checks["consistency"].passed = "unchecked"
    BY <1>8 DEF NoCheck, Agents
  <2> QED
    BY <1>5, <1>7, <2>1, <2>2 DEF Recorded, Behind
<1>12. /\ job' \in [Sections -> JobRecord]
       /\ \A r \in Sections \ {s} : job'[r] = job[r]
  BY <1>1, <1>7 DEF Inv, TypeInv, j
<1>13. opinion' = opinion /\ opinion \in [Sections -> Opinion]
  BY <1>2 DEF Inv, TypeInv
<1> QED
  BY <1>2, <1>9, <1>10, <1>11, <1>12, <1>13, OneSectionMoves DEF j, SectionInv

\* the step that follows an agent runs in the pipeline, and none in between does
LEMMA WhatFollows ==
  ASSUME NEW g \in Agents
  PROVE  /\ After(g) \in {"consistency", "commit"}
         /\ g = "consistency" => After(g) = "commit"
         /\ After(g) = "consistency" => InPipeline("consistency")
         /\ After(g) = "commit" /\ g = "materiality" => ~InPipeline("consistency")
  BY DEF After, Agents

LEMMA CheckKeepsInv ==
  ASSUME Inv, NEW s \in Sections, NEW g \in Agents, Check(s, g)
  PROVE  Inv'
<1> DEFINE old == job[s]  t == old.text  j == job'[s]
           check(v) == [old.checks[g] EXCEPT !.passed = v, !.of = t]
<1>1. PICK v \in Verdicts :
        /\ job' = [job EXCEPT ![s].checks[g] = check(v),
                              ![s].rejected = MayRevise(check(v)),
                              ![s].step = IF MayRevise(check(v)) THEN g ELSE After(g)]
        /\ opinion' = IF g = "consistency" THEN [opinion EXCEPT ![s] = [of |-> t, said |-> v]]
                                           ELSE opinion
  BY DEF Check, Submitted
<1>2. /\ UNCHANGED <<setting, recon>>
      /\ old.status = "running" /\ old.step = g /\ ~old.rejected
  BY DEF Check, At
<1>3. old \in JobRecord /\ SectionInv(s, old, opinion[s]) /\ opinion[s] \in Opinion
  BY DEF Inv, TypeInv
<1> DEFINE c == check(v)
<1>4. /\ c \in CheckRecord
      /\ c.passed = v /\ c.of = t /\ c.revisions = old.checks[g].revisions
  BY <1>3 DEF JobRecord, CheckRecord, Findings
<1> HIDE DEF c
<1>5. j = [old EXCEPT !.checks[g] = c, !.rejected = MayRevise(c),
                      !.step = IF MayRevise(c) THEN g ELSE After(g)]
  BY <1>1 DEF Inv, TypeInv, c
<1>6. /\ j \in JobRecord
      /\ j.status = "running" /\ j.text = t /\ j.flags = old.flags /\ j.drafts = old.drafts
      /\ j.rejected = MayRevise(c)
      /\ j.step = IF MayRevise(c) THEN g ELSE After(g)
      /\ j.checks[g] = c
      /\ \A h \in Agents \ {g} : j.checks[h] = old.checks[h]
  <2>1. MayRevise(c) \in BOOLEAN
    BY Zenon DEF MayRevise
  <2>2. After(g) \in Steps /\ g \in Steps
    <3>1. After(g) \in {"consistency", "commit"}
      BY WhatFollows
    <3> QED
      BY <3>1 DEF Steps, Agents
  <2> DEFINE rejected == MayRevise(c)
             step     == IF rejected THEN g ELSE After(g)
             checks   == [old.checks EXCEPT ![g] = c]
  <2>3. step \in Steps /\ rejected \in BOOLEAN
    BY <2>1, <2>2
  <2>4. /\ checks \in [Agents -> CheckRecord] /\ checks[g] = c
        /\ \A h \in Agents \ {g} : checks[h] = old.checks[h]
    BY <1>3, <1>4 DEF JobRecord
  <2>5. j = [old EXCEPT !.checks = checks, !.rejected = rejected, !.step = step]
    BY <1>5
  <2> HIDE DEF rejected, step, checks, j
  <2>6. /\ j \in JobRecord
        /\ j.status = old.status /\ j.text = old.text /\ j.flags = old.flags
        /\ j.drafts = old.drafts /\ j.rejected = rejected /\ j.step = step /\ j.checks = checks
    BY <1>3, <2>3, <2>4, <2>5 DEF JobRecord
  <2> QED
    BY <1>2, <2>4, <2>6 DEF rejected, step
<1>7. InPipeline(g) /\ (Ahead(j, "consistency") => g = "materiality" /\ old.step = "materiality")
  BY <1>2, <1>3, <1>6, WhatFollows DEF SectionInv, Staged, Ahead, Agents
<1>8. setting.limit \in Nat /\ c.revisions \in Nat
  BY <1>4 DEF Inv, TypeInv, Setting, CheckRecord
<1> HIDE DEF j, old, t
<1>9. Staged(j)
  <2>1. j.rejected => j.status = "running" /\ j.step = g /\ MayRevise(j.checks[g])
    BY <1>6
  <2>2. ASSUME NEW h \in Agents
        PROVE  /\ j.step = h => InPipeline(h)
               /\ Ahead(j, h) => j.checks[h] = NoCheck
               /\ InPipeline(h) => j.checks[h].revisions <= setting.limit
               /\ InPipeline(h) /\ Behind(j, h) /\ j.checks[h].passed = "no" =>
                    j.checks[h].revisions = setting.limit
    <3>1. CASE h = g
      <4>1. ~Ahead(j, g) /\ (Behind(j, g) => ~MayRevise(c))
        BY <1>6, WhatFollows DEF Ahead, Behind, Agents
      <4>2. c.revisions <= setting.limit
        BY <1>3, <1>4, <1>7 DEF SectionInv, Staged
      <4> QED
        BY <3>1, <4>1, <4>2, <1>6, <1>7, <1>8 DEF MayRevise
    <3>2. CASE h # g
      <4>1. j.checks[h] = old.checks[h]
        BY <3>2, <1>6
      <4>2. /\ j.step = h => InPipeline(h)
            /\ Ahead(j, h) => Ahead(old, h)
        BY <3>2, <1>2, <1>6, WhatFollows DEF Ahead, Agents
      <4>3. Behind(j, h) /\ InPipeline(h) => Behind(old, h)
        BY <3>2, <1>2, <1>6, WhatFollows DEF Behind, Agents
      <4> QED
        BY <4>1, <4>2, <4>3, <1>3 DEF SectionInv, Staged
    <3> QED
      BY <3>1, <3>2
  <2> QED
    BY <2>1, <2>2, <1>6 DEF Staged
<1>10. Counted(s, j)
  <2>1. \A h \in Agents : Revisions(j, h) = Revisions(old, h)
    BY <1>4, <1>6 DEF Revisions
  <2>2. j.step \notin {"extract", "draft"} /\ old.step \notin {"extract", "draft"}
    BY <1>2, <1>6, WhatFollows DEF Agents
  <2> QED
    BY <2>1, <2>2, <1>3, <1>6 DEF SectionInv, Counted, Agents
<1>11. opinion' \in [Sections -> Opinion] /\ \A r \in Sections \ {s} : opinion'[r] = opinion[r]
  <2>1. [of |-> t, said |-> v] \in Opinion
    BY <1>3 DEF Opinion, JobRecord, Findings, t
  <2> QED
    BY <2>1, <1>1 DEF Inv, TypeInv
<1>12. Recorded(s, j, opinion'[s])
  <2>1. s \notin recon.seen /\ s \notin recon.todo
    BY <1>2 DEF Inv, PhaseOrdered, Drafted, old
  <2>2. CASE g = "consistency"
    <3>1. opinion'[s] = [of |-> t, said |-> v]
      BY <1>1, <2>2 DEF Inv, TypeInv
    <3>2. /\ j.flags = j.text /\ c.of = j.text /\ c.passed = v
          /\ j.checks["consistency"] = c
          /\ j.checks["materiality"] = old.checks["materiality"]
      BY <1>3, <1>4, <1>6, <2>2 DEF SectionInv, Recorded, Agents, t
    <3>3. InPipeline("materiality") =>
            \/ old.checks["materiality"].of = j.text
            \/ c.revisions > 0 \/ recon.attempts > 0
      BY <1>2, <1>3, <1>4, <1>6, <2>2 DEF SectionInv, Recorded, Behind, t
    <3> QED
      BY <2>1, <2>2, <3>1, <3>2, <3>3, <1>7 DEF Recorded
  <2>3. CASE g = "materiality"
    <3>1. opinion'[s] = opinion[s]
      BY <1>1, <2>3
    <3>2. /\ j.flags = j.text
          /\ j.checks["consistency"] = NoCheck
          /\ j.checks["materiality"].of = j.text
      BY <1>2, <1>3, <1>4, <1>6, <2>3 DEF SectionInv, Recorded, Staged, Ahead, Agents, t
    <3>3. j.step = "commit" => ~InPipeline("consistency")
      BY <1>6, <2>3, WhatFollows
    <3> QED
      BY <2>1, <3>1, <3>2, <3>3 DEF Recorded, NoCheck
  <2> QED
    BY <2>2, <2>3 DEF Agents
<1>13. /\ job' \in [Sections -> JobRecord]
       /\ \A r \in Sections \ {s} : job'[r] = job[r]
  BY <1>1, <1>6 DEF Inv, TypeInv, j
<1> QED
  BY <1>2, <1>9, <1>10, <1>11, <1>12, <1>13, OneSectionMoves DEF j, old, SectionInv

LEMMA ReviseKeepsInv ==
  ASSUME Inv, NEW s \in Sections, NEW g \in Agents, Revise(s, g)
  PROVE  Inv'
<1> DEFINE old == job[s]  j == job'[s]
           c == [old.checks[g] EXCEPT !.revisions = old.checks[g].revisions + 1]
<1>1. PICK t \in Texts :
        job' = [job EXCEPT ![s] =
                  [Written(old, t) EXCEPT !.rejected = FALSE, !.checks[g] = c]]
  BY DEF Revise
<1>2. /\ UNCHANGED <<setting, recon, opinion>>
      /\ old.status = "running" /\ old.step = g /\ old.rejected
  BY DEF Revise
<1>3. /\ old \in JobRecord /\ SectionInv(s, old, opinion[s])
      /\ setting.limit \in Nat /\ recon.attempts \in Nat
  BY DEF Inv, TypeInv, Setting, ReconRecord
<1>4. /\ c \in CheckRecord
      /\ c.passed = old.checks[g].passed /\ c.revisions = old.checks[g].revisions + 1
      /\ old.checks[g].revisions \in Nat
  BY <1>3 DEF JobRecord, CheckRecord
<1> DEFINE w == Written(old, t)
<1>5. /\ w \in JobRecord /\ w.text = t /\ w.flags = t /\ w.drafts = old.drafts + 1
      /\ w.status = "running" /\ w.step = g /\ w.checks = old.checks
  BY <1>2, <1>3, WrittenText
<1>6. j = [w EXCEPT !.rejected = FALSE, !.checks[g] = c]
  BY <1>1 DEF Inv, TypeInv
<1>7. MayRevise(old.checks[g])
  BY <1>2, <1>3 DEF SectionInv, Staged
<1>8. InPipeline(g) /\ c.revisions <= setting.limit
  BY <1>2, <1>3, <1>4, <1>7 DEF SectionInv, Staged, MayRevise
<1> HIDE DEF w, c
<1>9. /\ j \in JobRecord
      /\ j.status = "running" /\ j.step = g /\ ~j.rejected
      /\ j.text = t /\ j.flags = t /\ j.drafts = old.drafts + 1
      /\ j.checks[g] = c
      /\ \A h \in Agents \ {g} : j.checks[h] = old.checks[h]
  <2> DEFINE checks == [old.checks EXCEPT ![g] = c]
  <2>1. /\ checks \in [Agents -> CheckRecord] /\ checks[g] = c
        /\ \A h \in Agents \ {g} : checks[h] = old.checks[h]
    BY <1>3, <1>4 DEF JobRecord
  <2>2. j = [w EXCEPT !.rejected = FALSE, !.checks = checks]
    BY <1>5, <1>6
  <2> HIDE DEF checks, j
  <2> QED
    BY <1>5, <2>1, <2>2 DEF JobRecord
<1> HIDE DEF j, old
<1>10. Staged(j)
  <2>1. ASSUME NEW h \in Agents
        PROVE  /\ j.step = h => InPipeline(h)
               /\ Ahead(j, h) => j.checks[h] = NoCheck
               /\ InPipeline(h) => j.checks[h].revisions <= setting.limit
               /\ InPipeline(h) /\ Behind(j, h) /\ j.checks[h].passed = "no" =>
                    j.checks[h].revisions = setting.limit
    <3>1. CASE h = g
      <4>1. ~Ahead(j, g) /\ ~Behind(j, g)
        BY <1>9 DEF Ahead, Behind, Agents
      <4> QED
        BY <3>1, <4>1, <1>8, <1>9
    <3>2. CASE h # g
      <4>1. (Ahead(j, h) => Ahead(old, h)) /\ (Behind(j, h) => Behind(old, h))
        BY <1>2, <1>9 DEF Ahead, Behind
      <4> QED
        BY <3>2, <4>1, <1>3, <1>9 DEF SectionInv, Staged
    <3> QED
      BY <3>1, <3>2
  <2> QED
    BY <2>1, <1>9 DEF Staged
<1>11. Counted(s, j)
  <2>1. old.drafts <= 1 + Revisions(old, "materiality") + Revisions(old, "consistency")
                        + Redrafts(s)
    BY <1>2, <1>3 DEF SectionInv, Counted, Agents
  <2>2. Revisions(j, g) = Revisions(old, g) + 1
    BY <1>4, <1>8, <1>9 DEF Revisions
  <2>3. \A h \in Agents \ {g} : Revisions(j, h) = Revisions(old, h)
    BY <1>9 DEF Revisions
  <2>4. /\ Revisions(j, "materiality") + Revisions(j, "consistency")
           = Revisions(old, "materiality") + Revisions(old, "consistency") + 1
        /\ old.drafts \in Nat /\ Redrafts(s) \in Int
        /\ \A h \in Agents : Revisions(old, h) \in Nat
    <3>1. \A h \in Agents : Revisions(old, h) \in Nat
      BY <1>3 DEF Revisions, JobRecord, CheckRecord
    <3>2. old.drafts \in Nat /\ Redrafts(s) \in Int
      BY <1>3 DEF JobRecord, Redrafts
    <3> QED
      BY <2>2, <2>3, <3>1, <3>2 DEF Agents
  <2> HIDE DEF Revisions, Redrafts
  <2>5. j.drafts <= 1 + Revisions(j, "materiality") + Revisions(j, "consistency") + Redrafts(s)
    <3>1. \A h \in Agents : Revisions(j, h) \in Nat
      BY <1>9 DEF Revisions, JobRecord, CheckRecord
    <3> QED
      BY <1>9, <2>1, <2>4, <3>1 DEF Agents
  <2> QED
    BY <1>9, <2>5 DEF Counted, Agents
<1>12. Recorded(s, j, opinion[s])
  <2>1. s \notin recon.seen /\ s \notin recon.todo
    BY <1>2 DEF Inv, PhaseOrdered, Drafted, old
  <2>2. CASE g = "consistency"
    <3>1. j.checks["consistency"].passed = "no" /\ j.checks["consistency"].revisions > 0
      BY <1>4, <1>7, <1>9, <2>2 DEF MayRevise
    <3> QED
      BY <2>1, <2>2, <3>1, <1>8, <1>9 DEF Recorded
  <2>3. CASE g = "materiality"
    <3>1. j.checks["consistency"] = NoCheck
      BY <1>2, <1>3, <1>9, <2>3 DEF SectionInv, Staged, Ahead, Agents
    <3> QED
      BY <2>1, <2>3, <3>1, <1>9 DEF Recorded, NoCheck, Behind
  <2> QED
    BY <2>2, <2>3 DEF Agents
<1>13. /\ job' \in [Sections -> JobRecord]
       /\ \A r \in Sections \ {s} : job'[r] = job[r]
  BY <1>1, <1>9 DEF Inv, TypeInv, j
<1>14. opinion' = opinion /\ opinion \in [Sections -> Opinion]
  BY <1>2 DEF Inv, TypeInv
<1> QED
  BY <1>2, <1>10, <1>11, <1>12, <1>13, <1>14, OneSectionMoves DEF j, old, SectionInv

\* the three steps that leave the draft or put a new job in its place
LEMMA CompleteKeepsInv ==
  ASSUME Inv, NEW s \in Sections, Complete(s)
  PROVE  Inv'
<1> DEFINE old == job[s]  j == job'[s]
<1>1. /\ job' = [job EXCEPT ![s].status = "complete"]
      /\ UNCHANGED <<setting, recon, opinion>>
      /\ old.status = "running" /\ old.step = "commit" /\ ~old.rejected
  BY DEF Complete, At
<1>2. old \in JobRecord /\ SectionInv(s, old, opinion[s])
  BY DEF Inv, TypeInv
<1>3. j = [old EXCEPT !.status = "complete"]
  BY <1>1 DEF Inv, TypeInv
<1>4. /\ j \in JobRecord
      /\ j.step = "commit" /\ ~j.rejected /\ j.text = old.text /\ j.flags = old.flags
      /\ j.drafts = old.drafts /\ j.checks = old.checks
  BY <1>1, <1>2, <1>3 DEF JobRecord
<1> HIDE DEF j
<1>5. Staged(j)
  BY <1>1, <1>2, <1>4 DEF SectionInv, Staged, Ahead, Behind
<1>6. Counted(s, j) /\ Recorded(s, j, opinion[s])
  BY <1>1, <1>2, <1>4 DEF SectionInv, Counted, Revisions, Recorded, Behind
<1>7. /\ job' \in [Sections -> JobRecord]
      /\ \A r \in Sections \ {s} : job'[r] = job[r]
  BY <1>1, <1>4 DEF Inv, TypeInv, j
<1>8. opinion' = opinion /\ opinion \in [Sections -> Opinion]
  BY <1>1 DEF Inv, TypeInv
<1> QED
  BY <1>1, <1>5, <1>6, <1>7, <1>8, OneSectionMoves DEF j, SectionInv

\* a job with nothing written satisfies all that is asked of one, running or failed
LEMMA FreshJob ==
  ASSUME Inv, NEW s \in Sections, job[s].status # "complete",
         NEW j \in {NewJob, [NewJob EXCEPT !.status = "failed"]},
         NEW o \in {NoOpinion, opinion[s]}
  PROVE  j \in JobRecord /\ o \in Opinion /\ SectionInv(s, j, o)
<1>1. s \notin recon.seen /\ s \notin recon.todo
  BY DEF Inv, PhaseOrdered, Drafted
<1>2. /\ j.status \in {"running", "failed"} /\ j.step = "extract" /\ j.rejected = FALSE
      /\ j.text = NoText /\ j.flags = NoText /\ j.drafts = 0
      /\ \A g \in Agents : j.checks[g] = NoCheck
  BY DEF NewJob
<1>3. j \in JobRecord
  <2>1. NoCheck \in CheckRecord
    BY DEF NoCheck, CheckRecord, Findings, TextOrNone
  <2>2. NewJob \in JobRecord
    BY <2>1 DEF NewJob, JobRecord, Steps, TextOrNone
  <2>3. [NewJob EXCEPT !.status = "failed"] \in JobRecord
    BY <2>2 DEF JobRecord
  <2> QED
    BY <2>2, <2>3
<1>4. o \in Opinion
  BY DEF Inv, TypeInv, NoOpinion, Opinion, Findings, TextOrNone
<1>5. Staged(j)
  BY <1>2 DEF Staged, NoCheck, Ahead, Behind, Agents, Inv, TypeInv, Setting
<1>6. Counted(s, j)
  BY <1>2 DEF Counted
<1>7. Recorded(s, j, o)
  <2>1. j.checks["consistency"] = NoCheck
    BY <1>2 DEF Agents
  <2> QED
    BY <1>1, <1>2, <2>1 DEF Recorded, NoCheck, Behind
<1> QED
  BY <1>3, <1>4, <1>5, <1>6, <1>7 DEF SectionInv

LEMMA FailKeepsInv ==
  ASSUME Inv, NEW s \in Sections, Fail(s)
  PROVE  Inv'
<1> DEFINE j == [NewJob EXCEPT !.status = "failed"]
<1>1. /\ job' = [job EXCEPT ![s] = j] /\ job[s].status = "running"
      /\ UNCHANGED <<setting, recon, opinion>>
  BY DEF Fail
<1>2. j \in JobRecord /\ SectionInv(s, j, opinion[s])
  BY <1>1, FreshJob
<1> HIDE DEF j
<1>3. /\ job' \in [Sections -> JobRecord] /\ job'[s] = j
      /\ \A r \in Sections \ {s} : job'[r] = job[r]
  BY <1>1, <1>2 DEF Inv, TypeInv
<1>4. opinion' = opinion /\ opinion \in [Sections -> Opinion]
  BY <1>1 DEF Inv, TypeInv
<1> QED
  BY <1>1, <1>2, <1>3, <1>4, OneSectionMoves

LEMMA RetryKeepsInv ==
  ASSUME Inv, NEW s \in Sections, Retry(s)
  PROVE  Inv'
<1>1. /\ job' = [job EXCEPT ![s] = NewJob] /\ job[s].status = "failed"
      /\ opinion' = [opinion EXCEPT ![s] = NoOpinion]
      /\ UNCHANGED <<setting, recon>>
  BY DEF Retry
<1>2. NewJob \in JobRecord /\ NoOpinion \in Opinion /\ SectionInv(s, NewJob, NoOpinion)
  BY <1>1, FreshJob
<1>3. /\ job' \in [Sections -> JobRecord] /\ job'[s] = NewJob
      /\ opinion' \in [Sections -> Opinion] /\ opinion'[s] = NoOpinion
      /\ \A r \in Sections \ {s} : job'[r] = job[r] /\ opinion'[r] = opinion[r]
  BY <1>1, <1>2 DEF Inv, TypeInv
<1> QED
  BY <1>1, <1>2, <1>3, OneSectionMoves

-----------------------------------------------------------------------------
(* The reconcile phase *)

\* a step of the phase that leaves the drafts alone
LEMMA PhaseMoves ==
  ASSUME Inv, UNCHANGED <<setting, job>>,
         recon' \in ReconRecord, opinion' \in [Sections -> Opinion], PhaseOrdered',
         \A s \in Sections : /\ Redrafts(s) <= Redrafts(s)'
                             /\ Recorded(s, job[s], opinion[s])'
  PROVE  Inv'
<1>1. TypeInv' /\ job' = job /\ setting' = setting
  BY DEF Inv, TypeInv
<1>2. \A j : (Staged(j)' <=> Staged(j)) /\ \A g \in Agents : Revisions(j, g)' = Revisions(j, g)
  BY <1>1 DEF Staged, Behind, Ahead, InPipeline, MayRevise, NoCheck, Revisions
<1>3. ASSUME NEW s \in Sections
      PROVE  SectionInv(s, job[s], opinion[s])'
  <2>1. job[s] \in JobRecord /\ SectionInv(s, job[s], opinion[s])
    BY DEF Inv, TypeInv
  <2>2. /\ job[s].drafts \in Nat /\ Redrafts(s) \in Int /\ Redrafts(s)' \in Int
        /\ \A g \in Agents : Revisions(job[s], g) \in Nat
    BY <2>1, <1>1 DEF JobRecord, CheckRecord, Redrafts, Revisions, Inv, TypeInv, ReconRecord
  <2> HIDE DEF Redrafts, Revisions
  <2>3. Counted(s, job[s])'
    <3>1. /\ Revisions(job[s], "materiality")' = Revisions(job[s], "materiality")
          /\ Revisions(job[s], "consistency")' = Revisions(job[s], "consistency")
          /\ Revisions(job[s], "materiality") \in Nat
          /\ Revisions(job[s], "consistency") \in Nat
      BY <1>1, <1>2, <2>2 DEF Agents
    <3> QED
      BY <1>1, <2>1, <2>2, <3>1 DEF SectionInv, Counted
  <2>4. Staged(job[s])'
    BY <1>1, <1>2, <2>1 DEF SectionInv
  <2> QED
    BY <2>3, <2>4 DEF SectionInv
<1> QED
  BY <1>1, <1>3 DEF Inv

LEMMA BeginReconcileKeepsInv ==
  ASSUME Inv, BeginReconcile
  PROVE  Inv'
<1>1. /\ UNCHANGED <<setting, job, opinion>> /\ WantsReconcile
      /\ recon.status \in {"none", "queued"}
      /\ recon' = [status |-> "judging", attempts |-> recon.attempts + 1,
                   seen |-> Drafted, flagged |-> {}, todo |-> {}]
  BY DEF BeginReconcile, NoRecon
<1>2. recon.attempts \in Nat
  BY DEF Inv, TypeInv, ReconRecord
<1>3. recon' \in ReconRecord
  BY <1>1, <1>2 DEF ReconRecord, Drafted
<1>4. PhaseOrdered'
  BY <1>1, <1>2 DEF PhaseOrdered, Drafted, WantsReconcile
<1>5. ASSUME NEW s \in Sections
      PROVE  /\ Redrafts(s) <= Redrafts(s)'
             /\ Recorded(s, job[s], opinion[s])'
  <2>1. Redrafts(s) <= Redrafts(s)'
    BY <1>1, <1>2 DEF Redrafts
  <2>2. Recorded(s, job[s], opinion[s]) /\ recon.seen \subseteq Drafted
    BY DEF Inv, SectionInv, PhaseOrdered
  <2>3. Recorded(s, job[s], opinion[s])'
    BY <1>1, <1>2, <2>2 DEF Recorded, InPipeline, Behind
  <2> QED
    BY <2>1, <2>3
<1>6. opinion' \in [Sections -> Opinion]
  BY <1>1 DEF Inv, TypeInv
<1> QED
  BY <1>1, <1>3, <1>4, <1>5, <1>6, PhaseMoves

\* where the phase runs, the consistency check is not one of the pipeline
LEMMA JudgedInOnePlace == WantsReconcile => ~InPipeline("consistency")
  BY DEF WantsReconcile, InPipeline

LEMMA JudgeKeepsInv ==
  ASSUME Inv, Judge
  PROVE  Inv'
<1>1. PICK flagged \in SUBSET recon.seen :
        /\ recon' = [recon EXCEPT !.status = "revising", !.flagged = flagged, !.todo = flagged]
        /\ opinion' = [s \in Sections |-> IF s \in recon.seen
             THEN [of |-> job[s].text, said |-> IF s \in flagged THEN "no" ELSE "yes"]
             ELSE opinion[s]]
  BY DEF Judge
<1>2. UNCHANGED <<setting, job>> /\ recon.status = "judging" /\ recon \in ReconRecord
  BY DEF Judge, Inv, TypeInv
<1>3. /\ recon' \in ReconRecord
      /\ recon'.status = "revising" /\ recon'.flagged = flagged /\ recon'.todo = flagged
      /\ recon'.attempts = recon.attempts /\ recon'.seen = recon.seen
  BY <1>1, <1>2 DEF ReconRecord
<1>4. opinion' \in [Sections -> Opinion]
  <2>1. ASSUME NEW s \in Sections PROVE job[s].text \in TextOrNone /\ opinion[s] \in Opinion
    BY DEF Inv, TypeInv, JobRecord
  <2> QED
    BY <1>1, <2>1 DEF Opinion, Findings, Verdicts
<1>5. WantsReconcile /\ ~InPipeline("consistency") /\ ~InPipeline("consistency")'
  BY <1>2, JudgedInOnePlace DEF Inv, PhaseOrdered, InPipeline
<1>6. PhaseOrdered'
  BY <1>2, <1>3, <1>5 DEF Inv, PhaseOrdered, Drafted, WantsReconcile
<1>7. ASSUME NEW s \in Sections
      PROVE  /\ Redrafts(s) <= Redrafts(s)'
             /\ Recorded(s, job[s], opinion[s])'
  <2>1. Redrafts(s) <= Redrafts(s)'
    BY <1>2, <1>3 DEF Redrafts, ReconRecord
  <2>2. Recorded(s, job[s], opinion[s]) /\ job' = job /\ setting' = setting
    BY <1>2 DEF Inv, SectionInv
  <2>3. s \in recon.seen =>
          opinion'[s] = [of |-> job[s].text, said |-> IF s \in flagged THEN "no" ELSE "yes"]
    BY <1>1
  <2>4. s \notin recon.seen =>
          s \notin flagged /\ job[s].checks["consistency"].passed = "unchecked"
    BY <1>5, <2>2 DEF Recorded
  <2>5. s \notin flagged /\ job[s].checks["consistency"].passed = "yes" =>
          opinion'[s].said = "yes"
    BY <2>3, <2>4
  <2>6. s \in flagged => opinion'[s].of = job[s].text
    BY <2>3
  <2>7. s \in recon.seen \ flagged => opinion'[s].said = "yes"
    BY <2>3
  <2>8. /\ job[s].flags = job[s].text
        /\ InPipeline("materiality")' /\ Behind(job[s], "materiality") =>
             \/ job[s].checks["materiality"].of = job[s].text
             \/ job[s].checks["consistency"].revisions > 0 \/ recon'.attempts > 0
        /\ s \notin recon.seen => job[s].checks["consistency"].passed = "unchecked"
    BY <1>3, <1>5, <2>2 DEF Recorded, InPipeline
  <2>9. Recorded(s, job[s], opinion[s])'
    BY <1>3, <1>5, <2>2, <2>5, <2>6, <2>7, <2>8 DEF Recorded, Behind
  <2> QED
    BY <2>1, <2>9
<1> QED
  BY <1>2, <1>3, <1>4, <1>6, <1>7, PhaseMoves

\* what a re-draft makes of the record of a section, changed or not
LEMMA RedraftedSection ==
  ASSUME Inv, NEW s \in Sections, Redraft(s)
  PROVE  /\ job' \in [Sections -> JobRecord]
         /\ \A r \in Sections \ {s} : job'[r] = job[r]
         /\ job'[s].status = job[s].status /\ job'[s].step = job[s].step
         /\ job'[s].rejected = job[s].rejected
         /\ job'[s].checks["materiality"] = job[s].checks["materiality"]
         /\ job[s].flags = job[s].text => job'[s].flags = job'[s].text
         /\ job'[s].drafts \in {job[s].drafts, job[s].drafts + 1}
         /\ setting.limit = 0 => job'[s].drafts = job[s].drafts
         /\ job'[s].checks["consistency"].passed = "yes" => job'[s].text # job[s].text
<1> DEFINE j == job[s]
<1>1. j \in JobRecord /\ job \in [Sections -> JobRecord]
  BY DEF Inv, TypeInv
<1>2. CASE setting.limit = 0
  <2> DEFINE c == [passed |-> "no", of |-> j.text, revisions |-> 0]
             checks == [j.checks EXCEPT !["consistency"] = c]
  <2>1. job' = [job EXCEPT ![s] = [j EXCEPT !.checks = checks]]
    BY <1>1, <1>2 DEF Redraft
  <2>2. c \in CheckRecord /\ c.passed = "no"
    BY <1>1 DEF CheckRecord, JobRecord, Findings, Verdicts
  <2> HIDE DEF c
  <2>3. /\ checks \in [Agents -> CheckRecord] /\ checks["consistency"] = c
        /\ checks["materiality"] = j.checks["materiality"]
    BY <1>1, <2>2 DEF JobRecord, Agents
  <2> HIDE DEF checks
  <2>4. [j EXCEPT !.checks = checks] \in JobRecord
    BY <1>1, <2>3 DEF JobRecord
  <2>5. /\ job' \in [Sections -> JobRecord] /\ job'[s] = [j EXCEPT !.checks = checks]
        /\ \A r \in Sections \ {s} : job'[r] = job[r]
    BY <1>1, <2>1, <2>4
  <2> QED
    BY <1>1, <2>2, <2>3, <2>5 DEF JobRecord
<1>3. CASE setting.limit # 0
  <2> DEFINE Redrafted(t) == IF t # j.text THEN Written(j, t)
                                           ELSE [j EXCEPT !.drafts = j.drafts + 1]
             Judged(t) == [passed |-> Resolved(j.text, t), of |-> t,
                           revisions |-> IF t # j.text THEN 1 ELSE 0]
  <2>1. PICK t \in Texts :
          job' = [job EXCEPT ![s] = [Redrafted(t) EXCEPT !.checks["consistency"] = Judged(t)]]
    BY <1>3 DEF Redraft
  <2> DEFINE w == Redrafted(t)
             c == Judged(t)
             checks == [j.checks EXCEPT !["consistency"] = c]
  <2>2. /\ w \in JobRecord
        /\ w.status = j.status /\ w.step = j.step /\ w.rejected = j.rejected
        /\ w.checks = j.checks /\ w.drafts = j.drafts + 1
        /\ IF t # j.text THEN w.text = t /\ w.flags = t
                         ELSE w.text = j.text /\ w.flags = j.flags
    <3>1. CASE t # j.text
      <4>1. /\ Written(j, t) \in JobRecord
            /\ Written(j, t).text = t /\ Written(j, t).flags = t
            /\ Written(j, t).drafts = j.drafts + 1
            /\ Written(j, t).status = j.status /\ Written(j, t).step = j.step
            /\ Written(j, t).rejected = j.rejected /\ Written(j, t).checks = j.checks
        BY <1>1, WrittenText
      <4>2. w = Written(j, t)
        BY <3>1
      <4> HIDE DEF w, j
      <4> QED
        BY <3>1, <4>1, <4>2
    <3>2. CASE t = j.text
      <4>1. w = [j EXCEPT !.drafts = j.drafts + 1]
        BY <3>2
      <4>2. j.drafts + 1 \in Nat
        BY <1>1 DEF JobRecord
      <4> HIDE DEF w, j
      <4> QED
        BY <1>1, <3>2, <4>1, <4>2 DEF JobRecord
    <3> QED
      BY <3>1, <3>2
  <2>3. c \in CheckRecord /\ (c.passed = "yes" => t # j.text)
    BY DEF CheckRecord, Findings, Verdicts, TextOrNone, Resolved
  <2> HIDE DEF c
  <2>4. /\ checks \in [Agents -> CheckRecord] /\ checks["consistency"] = c
        /\ checks["materiality"] = j.checks["materiality"]
    BY <1>1, <2>3 DEF JobRecord, Agents
  <2>5. [w EXCEPT !.checks["consistency"] = c] = [w EXCEPT !.checks = checks]
    BY <2>2
  <2> HIDE DEF checks, w
  <2>6. [w EXCEPT !.checks = checks] \in JobRecord
    BY <2>2, <2>4 DEF JobRecord
  <2>7. job' = [job EXCEPT ![s] = [w EXCEPT !.checks = checks]]
    BY <2>1, <2>5 DEF w, c
  <2>8. /\ job' \in [Sections -> JobRecord] /\ job'[s] = [w EXCEPT !.checks = checks]
        /\ \A r \in Sections \ {s} : job'[r] = job[r]
    BY <1>1, <2>6, <2>7
  <2>9. /\ job'[s].status = w.status /\ job'[s].step = w.step
        /\ job'[s].rejected = w.rejected /\ job'[s].checks = checks
        /\ job'[s].text = w.text /\ job'[s].flags = w.flags /\ job'[s].drafts = w.drafts
    BY <2>2, <2>8 DEF JobRecord
  <2> QED
    BY <1>3, <2>2, <2>3, <2>4, <2>8, <2>9
<1> QED
  BY <1>2, <1>3

LEMMA RedraftKeepsInv ==
  ASSUME Inv, NEW s \in Sections, Redraft(s)
  PROVE  Inv'
<1>1. /\ UNCHANGED <<setting, opinion>>
      /\ recon.status = "revising" /\ s \in recon.todo
      /\ recon' = [recon EXCEPT !.todo = recon.todo \ {s}]
  BY DEF Redraft
<1>2. /\ recon \in ReconRecord /\ recon.attempts \in Nat /\ recon.attempts > 0
      /\ setting.limit \in Nat
  BY <1>1 DEF Inv, TypeInv, ReconRecord, PhaseOrdered, Setting
<1>3. /\ recon' \in ReconRecord
      /\ recon'.status = "revising" /\ recon'.todo = recon.todo \ {s}
      /\ recon'.attempts = recon.attempts /\ recon'.seen = recon.seen
      /\ recon'.flagged = recon.flagged
  BY <1>1, <1>2 DEF ReconRecord
<1>4. /\ WantsReconcile /\ ~InPipeline("consistency")
      /\ \A g : InPipeline(g)' = InPipeline(g)
  BY <1>1, JudgedInOnePlace DEF Inv, PhaseOrdered, InPipeline
<1>5. /\ s \in recon.seen /\ s \in recon.flagged
      /\ job[s].status = "complete" /\ job[s].step = "commit" /\ ~job[s].rejected
  <2>1. s \in recon.seen /\ s \in recon.flagged /\ s \in Drafted
    BY <1>1 DEF Inv, PhaseOrdered
  <2>2. Staged(job[s])
    BY DEF Inv, SectionInv
  <2> QED
    BY <2>1, <2>2 DEF Drafted, Staged
<1> DEFINE old == job[s]  j == job'[s]
<1>6. /\ job' \in [Sections -> JobRecord]
      /\ \A r \in Sections \ {s} : job'[r] = job[r]
      /\ j.status = "complete" /\ j.step = "commit" /\ ~j.rejected
      /\ j.checks["materiality"] = old.checks["materiality"]
      /\ old.flags = old.text => j.flags = j.text
      /\ j.drafts \in {old.drafts, old.drafts + 1}
      /\ setting.limit = 0 => j.drafts = old.drafts
      /\ j.checks["consistency"].passed = "yes" => j.text # old.text
  BY <1>5, RedraftedSection
<1>7. old \in JobRecord /\ SectionInv(s, old, opinion[s])
  BY DEF Inv, TypeInv
<1>8. TypeInv'
  BY <1>1, <1>3, <1>6 DEF Inv, TypeInv
<1>9. PhaseOrdered'
  <2>1. Drafted' = Drafted
    BY <1>5, <1>6 DEF Drafted
  <2> QED
    BY <1>1, <1>3, <2>1 DEF Inv, PhaseOrdered, WantsReconcile
<1>10. SectionInv(s, job[s], opinion[s])'
  <2>1. Staged(job[s])'
    <3>1. \A g \in Agents : ~Ahead(j, g) /\ (InPipeline(g)' => g = "materiality")
      BY <1>4, <1>6 DEF Ahead, Agents
    <3>2. InPipeline("materiality") =>
            /\ old.checks["materiality"].revisions <= setting.limit
            /\ old.checks["materiality"].passed = "no" =>
                 old.checks["materiality"].revisions = setting.limit
      BY <1>5, <1>7 DEF SectionInv, Staged, Behind, Agents
    <3> QED
      BY <1>1, <1>4, <1>6, <3>1, <3>2 DEF Staged, Ahead, Agents
  <2>2. Counted(s, job[s])'
    <3>1. /\ Revisions(old, "consistency") = 0 /\ Revisions(job[s], "consistency")' = 0
          /\ Revisions(job[s], "materiality")' = Revisions(old, "materiality")
          /\ Revisions(old, "materiality") \in Nat
      BY <1>4, <1>6, <1>7 DEF Revisions, JobRecord, CheckRecord, Agents
    <3>2. old.drafts \in Nat
      BY <1>7 DEF JobRecord
    <3>3. Redrafts(s)' = IF setting.limit = 0 THEN Redrafts(s) ELSE Redrafts(s) + 1
      BY <1>1, <1>2, <1>3 DEF Redrafts
    <3>4. Redrafts(s) \in Int
      BY <1>2 DEF Redrafts
    <3>5. old.drafts <= 1 + Revisions(old, "materiality") + Revisions(old, "consistency")
                          + Redrafts(s)
      BY <1>5, <1>7 DEF SectionInv, Counted
    <3> HIDE DEF Redrafts, Revisions
    <3>6. j.drafts <= 1 + Revisions(job[s], "materiality")' + Revisions(job[s], "consistency")'
                        + Redrafts(s)'
      BY <1>6, <3>1, <3>2, <3>3, <3>4, <3>5
    <3> QED
      BY <1>6, <3>6 DEF Counted
  <2>3. Recorded(s, job[s], opinion[s])'
    <3>1. opinion[s].of = old.text /\ j.flags = j.text
      BY <1>1, <1>6, <1>7 DEF SectionInv, Recorded
    <3> QED
      BY <1>1, <1>2, <1>3, <1>4, <1>5, <1>6, <3>1 DEF Recorded
  <2> QED
    BY <2>1, <2>2, <2>3 DEF SectionInv
<1>11. ASSUME NEW r \in Sections \ {s}
       PROVE  SectionInv(r, job[r], opinion[r])'
  <2>1. job'[r] = job[r] /\ opinion'[r] = opinion[r] /\ setting' = setting
    BY <1>1, <1>6
  <2>2. SectionInv(r, job[r], opinion[r])
    BY DEF Inv
  <2>3. Staged(job[r])'
    BY <2>1, <2>2 DEF SectionInv, Staged, Behind, Ahead, InPipeline, MayRevise, NoCheck
  <2>4. Counted(r, job[r])'
    BY <1>1, <1>3, <2>1, <2>2 DEF SectionInv, Counted, Revisions, Redrafts, InPipeline
  <2>5. Recorded(r, job[r], opinion[r])'
    BY <1>1, <1>3, <1>4, <2>1, <2>2 DEF SectionInv, Recorded, Behind
  <2> QED
    BY <2>3, <2>4, <2>5 DEF SectionInv
<1> QED
  BY <1>8, <1>9, <1>10, <1>11 DEF Inv

LEMMA RecordCleanKeepsInv ==
  ASSUME Inv, RecordClean
  PROVE  Inv'
<1> DEFINE clean == recon.seen \ recon.flagged
           c(s) == [passed |-> "yes", of |-> job[s].checks["consistency"].of, revisions |-> 0]
           checks(s) == [job[s].checks EXCEPT !["consistency"] = c(s)]
<1>1. /\ UNCHANGED <<setting, opinion>>
      /\ recon.status = "revising" /\ recon.todo = {}
      /\ recon' = [recon EXCEPT !.status = "recorded"]
  BY DEF RecordClean
<1>2. recon \in ReconRecord /\ setting.limit \in Nat
  BY DEF Inv, TypeInv, Setting
<1>3. /\ recon' \in ReconRecord
      /\ recon'.status = "recorded" /\ recon'.todo = {}
      /\ recon'.attempts = recon.attempts /\ recon'.seen = recon.seen
      /\ recon'.flagged = recon.flagged
  BY <1>1, <1>2 DEF ReconRecord
<1>4. /\ WantsReconcile /\ ~InPipeline("consistency")
      /\ \A g : InPipeline(g)' = InPipeline(g)
  BY <1>1, JudgedInOnePlace DEF Inv, PhaseOrdered, InPipeline
<1>5. ASSUME NEW s \in clean
      PROVE  /\ s \in Sections /\ job[s].status = "complete" /\ job[s].step = "commit"
             /\ ~job[s].rejected
  <2>1. s \in Drafted
    BY DEF Inv, PhaseOrdered
  <2>2. s \in Sections /\ job[s].status = "complete"
    BY <2>1 DEF Drafted
  <2>3. Staged(job[s])
    BY <2>2 DEF Inv, SectionInv
  <2> QED
    BY <2>2, <2>3 DEF Staged
<1>6. ASSUME NEW s \in clean
      PROVE  /\ job'[s] \in JobRecord
             /\ job'[s].status = "complete" /\ job'[s].step = "commit"
             /\ job'[s].rejected = job[s].rejected
             /\ job'[s].text = job[s].text /\ job'[s].flags = job[s].flags
             /\ job'[s].drafts = job[s].drafts
             /\ job'[s].checks["materiality"] = job[s].checks["materiality"]
  <2>1. s \in Sections /\ job[s] \in JobRecord
    BY <1>5 DEF Inv, TypeInv
  <2>2. job'[s] = [job[s] EXCEPT !.checks = checks(s)]
    BY <2>1 DEF RecordClean
  <2>3. c(s) \in CheckRecord
    <3>1. job[s].checks["consistency"].of \in TextOrNone
      BY <2>1 DEF JobRecord, CheckRecord, Agents
    <3> QED
      BY <3>1 DEF CheckRecord, Findings, Verdicts
  <2> HIDE DEF c
  <2>4. /\ checks(s) \in [Agents -> CheckRecord]
        /\ checks(s)["materiality"] = job[s].checks["materiality"]
    BY <2>1, <2>3 DEF JobRecord, Agents
  <2> HIDE DEF checks
  <2> QED
    BY <1>5, <2>1, <2>2, <2>4 DEF JobRecord
<1>7. ASSUME NEW s \in Sections \ clean PROVE job'[s] = job[s] /\ job[s] \in JobRecord
  BY DEF RecordClean, Inv, TypeInv
<1>8. job' \in [Sections -> JobRecord]
  <2>1. job' = [s \in Sections |-> job'[s]]
    BY DEF RecordClean
  <2> QED
    BY <1>6, <1>7, <2>1
<1> HIDE DEF clean
<1>9. TypeInv'
  BY <1>1, <1>3, <1>8 DEF Inv, TypeInv
<1>10. PhaseOrdered'
  <2>1. Drafted' = Drafted
    BY <1>5, <1>6, <1>7 DEF Drafted
  <2> QED
    BY <1>1, <1>3, <2>1 DEF Inv, PhaseOrdered, WantsReconcile
<1>11. ASSUME NEW s \in Sections
       PROVE  SectionInv(s, job[s], opinion[s])'
  <2>1. SectionInv(s, job[s], opinion[s]) /\ opinion'[s] = opinion[s] /\ setting' = setting
    BY <1>1 DEF Inv
  <2>2. /\ job'[s].text = job[s].text /\ job'[s].flags = job[s].flags
        /\ job'[s].drafts = job[s].drafts /\ job'[s].step = job[s].step
        /\ job'[s].status = job[s].status /\ job'[s].rejected = job[s].rejected
        /\ job'[s].checks["materiality"] = job[s].checks["materiality"]
    <3>1. CASE s \in clean
      BY <1>5, <1>6, <3>1
    <3>2. CASE s \notin clean
      BY <1>7, <3>2
    <3> QED
      BY <3>1, <3>2
  <2>3. s \in clean => job'[s].step = "commit" /\ ~job'[s].rejected
    BY <1>5, <1>6
  <2>4. Staged(job[s])'
    <3>1. CASE s \in clean
      <4>1. \A g \in Agents : ~Ahead(job'[s], g) /\ (InPipeline(g)' => g = "materiality")
        BY <1>4, <2>3, <3>1 DEF Ahead, Agents
      <4>2. InPipeline("materiality") =>
              /\ job[s].checks["materiality"].revisions <= setting.limit
              /\ job[s].checks["materiality"].passed = "no" =>
                   job[s].checks["materiality"].revisions = setting.limit
        BY <1>5, <2>1, <3>1 DEF SectionInv, Staged, Behind, Agents
      <4> QED
        BY <1>4, <2>1, <2>2, <2>3, <3>1, <4>1, <4>2 DEF Staged, Ahead, Agents
    <3>2. CASE s \notin clean
      <4>1. job'[s] = job[s]
        BY <1>7, <3>2
      <4> QED
        BY <2>1, <4>1 DEF SectionInv, Staged, Behind, Ahead, InPipeline, MayRevise, NoCheck
    <3> QED
      BY <3>1, <3>2
  <2>5. Counted(s, job[s])'
    <3>1. /\ Revisions(job[s], "consistency") = 0 /\ Revisions(job[s], "consistency")' = 0
          /\ Revisions(job[s], "materiality")' = Revisions(job[s], "materiality")
      BY <1>4, <2>2 DEF Revisions
    <3>2. Redrafts(s)' = Redrafts(s)
      BY <1>1, <1>3, <2>1 DEF Redrafts
    <3> QED
      BY <2>1, <2>2, <3>1, <3>2 DEF SectionInv, Counted
  <2>6. Recorded(s, job[s], opinion[s])'
    <3>1. s \in clean => opinion[s].said = "yes"
      BY <1>1, <2>1 DEF SectionInv, Recorded, clean
    <3>2. s \notin clean /\ job[s].checks["consistency"].passed = "yes" =>
            opinion[s] # [of |-> job[s].text, said |-> "no"]
      BY <1>1, <2>1 DEF SectionInv, Recorded
    <3>3. recon.attempts > 0
      BY <1>1 DEF Inv, PhaseOrdered
    <3>4. /\ s \notin recon.seen => s \notin clean
          /\ s \notin clean => job'[s].checks = job[s].checks
      BY <1>7 DEF clean
    <3> QED
      BY <1>3, <1>4, <2>1, <2>2, <3>1, <3>2, <3>3, <3>4 DEF SectionInv, Recorded
  <2> QED
    BY <2>4, <2>5, <2>6 DEF SectionInv
<1> QED
  BY <1>9, <1>10, <1>11 DEF Inv

\* the end of the phase, good or bad, changes its status only
LEMMA PhaseEndsKeepsInv ==
  ASSUME Inv, FinishReconcile \/ ReconcileFails \/ ReconcileReaped
  PROVE  Inv'
<1>1. /\ UNCHANGED <<setting, job, opinion>>
      /\ recon.status \in {"judging", "revising", "recorded"}
      /\ \E st \in {"complete", "failed", "queued"} :
           /\ recon' = [recon EXCEPT !.status = st]
           /\ st = "complete" => recon.status = "recorded"
  BY DEF FinishReconcile, ReconcileFails, ReconcileReaped, Reconciling
<1>2. PICK st \in {"complete", "failed", "queued"} :
        /\ recon' = [recon EXCEPT !.status = st]
        /\ st = "complete" => recon.status = "recorded"
  BY <1>1
<1>3. recon \in ReconRecord /\ opinion' = opinion /\ opinion \in [Sections -> Opinion]
  BY <1>1 DEF Inv, TypeInv
<1>4. /\ recon' \in ReconRecord
      /\ recon'.status = st /\ recon'.todo = recon.todo /\ recon'.seen = recon.seen
      /\ recon'.attempts = recon.attempts /\ recon'.flagged = recon.flagged
      /\ recon.attempts \in Nat
  BY <1>2, <1>3 DEF ReconRecord
<1>5. PhaseOrdered'
  BY <1>1, <1>2, <1>4 DEF Inv, PhaseOrdered, WantsReconcile, Drafted
<1>6. ASSUME NEW s \in Sections
      PROVE  /\ Redrafts(s) <= Redrafts(s)'
             /\ Recorded(s, job[s], opinion[s])'
  <2>1. Redrafts(s) <= Redrafts(s)'
    BY <1>1, <1>4 DEF Redrafts
  <2>2. Recorded(s, job[s], opinion[s])
    BY DEF Inv, SectionInv
  <2>3. /\ job' = job /\ opinion' = opinion
        /\ \A g : InPipeline(g)' = InPipeline(g)
    BY <1>1 DEF InPipeline
  <2>4. Recorded(s, job[s], opinion[s])'
    BY <1>1, <1>2, <1>4, <2>2, <2>3 DEF Recorded, Behind
  <2> QED
    BY <2>1, <2>4
<1> QED
  BY <1>1, <1>3, <1>4, <1>5, <1>6, PhaseMoves

-----------------------------------------------------------------------------
LEMMA NextKeepsInv == Inv /\ [Next]_vars => Inv'
<1> SUFFICES ASSUME Inv, [Next]_vars PROVE Inv'
  OBVIOUS
<1>1. ASSUME NEW s \in Sections, Extract(s) PROVE Inv'
  BY <1>1, ExtractKeepsInv
<1>2. ASSUME NEW s \in Sections, Draft(s) PROVE Inv'
  BY <1>2, DraftKeepsInv
<1>3. ASSUME NEW s \in Sections, Complete(s) PROVE Inv'
  BY <1>3, CompleteKeepsInv
<1>4. ASSUME NEW s \in Sections, Fail(s) PROVE Inv'
  BY <1>4, FailKeepsInv
<1>5. ASSUME NEW s \in Sections, Retry(s) PROVE Inv'
  BY <1>5, RetryKeepsInv
<1>6. ASSUME NEW s \in Sections, Redraft(s) PROVE Inv'
  BY <1>6, RedraftKeepsInv
<1>7. ASSUME NEW s \in Sections, NEW g \in Agents, Check(s, g) PROVE Inv'
  BY <1>7, CheckKeepsInv
<1>8. ASSUME NEW s \in Sections, NEW g \in Agents, Revise(s, g) PROVE Inv'
  BY <1>8, ReviseKeepsInv
<1>9. CASE BeginReconcile
  BY <1>9, BeginReconcileKeepsInv
<1>10. CASE Judge
  BY <1>10, JudgeKeepsInv
<1>11. CASE RecordClean
  BY <1>11, RecordCleanKeepsInv
<1>12. CASE FinishReconcile \/ ReconcileFails \/ ReconcileReaped
  BY <1>12, PhaseEndsKeepsInv
<1>13. CASE UNCHANGED vars
  <2>1. setting' = setting /\ job' = job /\ recon' = recon /\ opinion' = opinion
    BY <1>13 DEF vars
  <2>2. TypeInv' /\ PhaseOrdered'
    BY <2>1 DEF Inv, TypeInv, PhaseOrdered, WantsReconcile, Drafted
  <2>3. \A s, j, o : SectionInv(s, j, o)' <=> SectionInv(s, j, o)
    BY <2>1 DEF SectionInv, Staged, Counted, Recorded, Revisions, Redrafts, Behind, Ahead,
       InPipeline, MayRevise, NoCheck
  <2> QED
    BY <2>1, <2>2, <2>3 DEF Inv
<1> QED
  BY <1>1, <1>2, <1>3, <1>4, <1>5, <1>6, <1>7, <1>8, <1>9, <1>10, <1>11, <1>12, <1>13 DEF Next

LEMMA InvHolds == Spec => []Inv
  BY InitInv, NextKeepsInv, PTL DEF Spec

LEMMA HowManyChecks ==
  Cardinality(PipelineChecks) = (IF InPipeline("materiality") THEN 1 ELSE 0)
                                + (IF InPipeline("consistency") THEN 1 ELSE 0)
<1>1. CASE InPipeline("materiality") /\ InPipeline("consistency")
  <2>1. PipelineChecks = {"materiality"} \cup {"consistency"}
    BY <1>1 DEF PipelineChecks, Agents
  <2>2. IsFiniteSet({"materiality"}) /\ Cardinality({"materiality"}) = 1
    BY FS_Singleton
  <2>3. Cardinality({"materiality"} \cup {"consistency"}) = Cardinality({"materiality"}) + 1
    BY <2>2, FS_AddElement
  <2> QED
    BY <1>1, <2>1, <2>2, <2>3
<1>2. CASE InPipeline("materiality") /\ ~InPipeline("consistency")
  <2>1. PipelineChecks = {"materiality"}
    BY <1>2 DEF PipelineChecks, Agents
  <2> QED
    BY <1>2, <2>1, FS_Singleton
<1>3. CASE ~InPipeline("materiality") /\ InPipeline("consistency")
  <2>1. PipelineChecks = {"consistency"}
    BY <1>3 DEF PipelineChecks, Agents
  <2> QED
    BY <1>3, <2>1, FS_Singleton
<1>4. CASE ~InPipeline("materiality") /\ ~InPipeline("consistency")
  <2>1. PipelineChecks = {}
    BY <1>4 DEF PipelineChecks, Agents
  <2> QED
    BY <1>4, <2>1, FS_EmptySet
<1> QED
  BY <1>1, <1>2, <1>3, <1>4

\* A section is written once, once more per permitted revision of each check that runs and
\* once per attempt to reconcile, and is completed over the objection of a check only when
\* that check has no revision left: whatever the agents reply, and however often calls
\* fail, sections are retried and the reconcile phase dies and begins again
\* (_run_agent_pipeline, _run_reconcile).
THEOREM RevisionsAreBounded == Spec => []RevisionsBounded
<1>1. Inv => RevisionsBounded
  <2> SUFFICES ASSUME Inv, NEW s \in Sections
               PROVE  /\ job[s].drafts <= 1 + setting.limit * Cardinality(PipelineChecks)
                                + (IF setting.limit > 0 THEN recon.attempts ELSE 0)
                      /\ job[s].status = "complete" => \A g \in PipelineChecks :
                           job[s].checks[g].passed = "no" =>
                             job[s].checks[g].revisions = setting.limit
    BY DEF RevisionsBounded
  <2> DEFINE j == job[s]
             most(g) == IF InPipeline(g) THEN setting.limit ELSE 0
  <2>1. /\ j \in JobRecord /\ SectionInv(s, j, opinion[s])
        /\ setting.limit \in Nat /\ recon.attempts \in Nat
    BY DEF Inv, TypeInv, Setting, ReconRecord
  <2>2. \A g \in Agents : Revisions(j, g) \in Nat /\ Revisions(j, g) <= most(g)
    BY <2>1 DEF SectionInv, Staged, Revisions, JobRecord, CheckRecord
  <2>3. /\ Redrafts(s) \in Int
        /\ Redrafts(s) <= IF setting.limit > 0 THEN recon.attempts ELSE 0
    BY <2>1 DEF Redrafts
  <2>4. j.drafts <= 1 + most("materiality") + most("consistency")
                      + (IF setting.limit > 0 THEN recon.attempts ELSE 0)
    <3>1. CASE j.step \in {"extract", "draft"}
      BY <2>1, <3>1 DEF SectionInv, Counted
    <3>2. CASE j.step \notin {"extract", "draft"}
      <4>1. j.drafts <= 1 + Revisions(j, "materiality") + Revisions(j, "consistency")
                          + Redrafts(s)
        BY <2>1, <3>2 DEF SectionInv, Counted
      <4>2. j.drafts \in Nat
        BY <2>1 DEF JobRecord
      <4> HIDE DEF j, most
      <4>3. /\ Revisions(j, "materiality") \in Nat /\ Revisions(j, "consistency") \in Nat
            /\ Revisions(j, "materiality") <= most("materiality")
            /\ Revisions(j, "consistency") <= most("consistency")
            /\ most("materiality") \in Nat /\ most("consistency") \in Nat
        BY <2>1, <2>2 DEF Agents, most
      <4> QED
        BY <2>1, <2>3, <4>1, <4>2, <4>3
    <3> QED
      BY <3>1, <3>2
  <2>5. most("materiality") + most("consistency") = setting.limit * Cardinality(PipelineChecks)
    <3>1. /\ setting.limit * 0 = 0 /\ setting.limit * 1 = setting.limit
          /\ setting.limit * 2 = setting.limit + setting.limit
      BY <2>1
    <3> QED
      BY <2>1, <3>1, HowManyChecks
  <2>6. j.status = "complete" => \A g \in PipelineChecks :
          j.checks[g].passed = "no" => j.checks[g].revisions = setting.limit
    BY <2>1 DEF SectionInv, Staged, Behind, PipelineChecks
  <2> HIDE DEF most
  <2>7. j.drafts \in Nat /\ most("materiality") \in Nat /\ most("consistency") \in Nat
    BY <2>1 DEF JobRecord, most
  <2> QED
    BY <2>1, <2>4, <2>5, <2>6, <2>7
<1> QED
  BY <1>1, InvHolds, PTL

\* What the trail and the data-gap trailer say of a finished section is about its text, and
\* a check recorded as passed did not end with that text rejected, through every revision of
\* the pipeline and of the reconcile phase, which may fail or die half-way and run again.
THEOREM ChecksAreOfTheText == Spec => []ChecksDescribeTheText
<1>1. Inv => ChecksDescribeTheText
  <2> SUFFICES ASSUME Inv, NEW s \in Drafted
               PROVE  LET j == job[s]
                          m == j.checks["materiality"]
                          c == j.checks["consistency"]
                      IN /\ j.flags = j.text
                         /\ recon.status \in {"none", "complete"} /\ c.passed = "yes" =>
                              opinion[s] # [of |-> j.text, said |-> "no"]
                         /\ InPipeline("consistency") => c.of = j.text
                         /\ InPipeline("materiality") =>
                              m.of = j.text \/ c.revisions > 0 \/ recon.attempts > 0
    BY DEF ChecksDescribeTheText
  <2>1. s \in Sections /\ job[s].status = "complete"
    BY DEF Drafted
  <2>2. Recorded(s, job[s], opinion[s]) /\ job[s].step = "commit"
    BY <2>1 DEF Inv, SectionInv, Staged
  <2>3. recon.status \in {"none", "complete"} => s \notin recon.todo
    BY DEF Inv, PhaseOrdered
  <2> QED
    BY <2>2, <2>3 DEF Recorded, Behind
<1> QED
  BY <1>1, InvHolds, PTL
=============================================================================
