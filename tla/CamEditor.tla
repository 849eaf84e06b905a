------------------------------ MODULE CamEditor -----------------------------
(***************************************************************************)
(* One CAM in the output service (cam/services/output/main.py): its        *)
(* sections with their version history, the suggestions of the chat, and   *)
(* the requests of several editors and of the generation pipeline.         *)
(*                                                                         *)
(* A request is two steps: Begin... reads the rows and passes the checks,  *)
(* Commit writes what follows from what was read.  Between the two other   *)
(* requests may be served -- the handlers run in a thread pool, nothing    *)
(* locks a row, and PostgreSQL's READ COMMITTED lets both commit.  A       *)
(* request that is refused changes nothing and is no step.  The data-gap   *)
(* trailer, which edits and chats refuse, is not among the sections.       *)
(*                                                                         *)
(* An operator X_Slip next to X is X as a plausible slip would have it and *)
(* no part of the specification: see PROJECT.json, "mutants".              *)
(***************************************************************************)
EXTENDS Integers, Sequences, FiniteSets

CONSTANTS
  Sections,      \* sections of the template
  Late,          \* those that failed when the CAM was created
  Editors,       \* browser sessions, each of a different user
  Pipeline,      \* the orchestration service
  Serialised,    \* requests other than chats do not overlap
  MaxTexts       \* BOUND: texts written by editors, pipeline and model

Actors == Editors \cup {Pipeline}

ASSUME EditorAssumption ==
  /\ Late \subseteq Sections
  /\ Pipeline \notin Editors
  /\ Serialised \in BOOLEAN
  /\ MaxTexts \in Nat

Sources == {"generated", "manual", "chat_suggestion", "regeneration"}

\* A text is the number it was written under; 0 is the generated draft.
Row == [no : Nat \ {0}, text : Nat, source : Sources, author : Actors, named : BOOLEAN]

Suggestion == [section : Sections, text : Nat,
               status : {"pending", "accepted", "rejected"}]

VARIABLES
  status,       \* Cam.status
  current,      \* CamSection.current_version_no (0: no such section yet)
  rows,         \* SectionVersion rows of a section, in order of insertion
  suggestions,  \* Suggestion rows: the section, the text proposed, the status
  request,      \* what each actor's request in progress is about to write
  view,         \* the section open in an editor: version and text it was
                \* loaded with or saved as
  saved,        \* the last save of an editor that was confirmed
  texts         \* texts written so far (BOUND)

vars == <<status, current, rows, suggestions, request, view, saved, texts>>

-----------------------------------------------------------------------------
Present == {c \in Sections : current[c] # 0}

\* the rows _head_version may return
Heads(c) == {i \in DOMAIN rows[c] : rows[c][i].no = current[c]}

Pending == {g \in DOMAIN suggestions : suggestions[g].status = "pending"}

NoRequest == [op |-> "none"]
NoView    == [no |-> 0]

Init ==
  /\ status = "draft"
  /\ current = [c \in Sections |-> IF c \in Late THEN 0 ELSE 1]
  /\ rows = [c \in Sections |->
               IF c \in Late THEN <<>>
               ELSE <<[no |-> 1, text |-> 0, source |-> "generated",
                       author |-> Pipeline, named |-> FALSE]>>]
  /\ suggestions = <<>>
  /\ request = [a \in Actors |-> NoRequest]
  /\ view = [e \in Editors |-> NoView]
  /\ saved = [e \in Editors |-> NoView]
  /\ texts = 0

\* GET the CAM and start to edit a section, or reload after a conflict
Open(e, c) ==
  /\ request[e] = NoRequest
  /\ \E i \in Heads(c) :
       view' = [view EXCEPT ![e] = [section |-> c, no |-> current[c],
                                    text |-> rows[c][i].text]]
  /\ UNCHANGED <<status, current, rows, suggestions, request, saved, texts>>

-----------------------------------------------------------------------------
(* Requests: the part before the first write *)

Idle(a) == request[a] = NoRequest /\ (Serialised => \A b \in Actors :
                                         request[b].op \in {"none", "chat"})
Editable == status # "final"

Begin(a, r) == /\ Idle(a)
               /\ request' = [request EXCEPT ![a] = r]
               /\ UNCHANGED <<status, current, rows, suggestions, view, saved>>

WriteText == texts < MaxTexts /\ texts' = texts + 1

Autosaves_AnyAuthor(row, e, named) ==
  row.source = "manual" /\ ~row.named /\ ~named
Autosaves_NamedToo(row, e, named) ==
  row.source = "manual" /\ row.author = e /\ ~named
\* the head is overwritten in place: an unnamed manual version of the same user
Autosaves(row, e, named) ==
  row.source = "manual" /\ ~row.named /\ row.author = e /\ ~named

\* PUT .../sections/{id}, based on the version the editor has open
BeginEdit(e, named) ==
  /\ Editable
  /\ view[e].no # 0
  /\ LET c == view[e].section IN
     /\ view[e].no = current[c]
     /\ \E i \in Heads(c) :
          IF Autosaves(rows[c][i], e, named)
          THEN Begin(e, [op |-> "autosave", section |-> c, row |-> i, text |-> texts + 1])
          ELSE Begin(e, [op |-> "append", section |-> c, no |-> current[c] + 1,
                         source |-> "manual", named |-> named, text |-> texts + 1])
  /\ WriteText

\* POST .../sections/{id}/versions, and POST .../sections for a section that
\* exists by now: a regenerated, retried or reconciled draft
BeginRegenerate(c) ==
  /\ Editable
  /\ c \in Present
  /\ Begin(Pipeline, [op |-> "append", section |-> c, no |-> current[c] + 1,
                      source |-> "regeneration", named |-> FALSE, text |-> texts + 1])
  /\ WriteText

\* POST .../sections for a section that the CAM lacks
BeginAdd(c) ==
  /\ Editable
  /\ c \notin Present
  /\ Begin(Pipeline, [op |-> "add", section |-> c, text |-> texts + 1])
  /\ WriteText

\* POST .../chat about a section: the model works on the text read here
BeginChat(e, c) ==
  /\ Editable
  /\ c \in Present
  /\ Begin(e, [op |-> "chat", section |-> c])
  /\ UNCHANGED texts

\* the version an accepted proposal becomes
Proposal(g) ==
  LET c == suggestions[g].section IN
  [op |-> "accept", suggestion |-> g, section |-> c, no |-> current[c] + 1,
   source |-> "chat_suggestion", named |-> FALSE, text |-> suggestions[g].text]

BeginAccept_Again(e, g)   == Editable /\ Begin(e, Proposal(g)) /\ UNCHANGED texts
BeginAccept_OnFinal(e, g) == g \in Pending /\ Begin(e, Proposal(g)) /\ UNCHANGED texts

\* POST .../suggestions/{id}/accept, whatever the section holds by now
BeginAccept(e, g) ==
  /\ Editable
  /\ g \in Pending
  /\ Begin(e, Proposal(g))
  /\ UNCHANGED texts

\* POST .../suggestions/{id}/reject, on a final CAM too
BeginReject(e, g) ==
  /\ g \in Pending
  /\ Begin(e, [op |-> "reject", suggestion |-> g])
  /\ UNCHANGED texts

\* POST .../finalise: no proposal of the model may be undecided
BeginFinalise(e) ==
  /\ Editable
  /\ Pending = {}
  /\ Begin(e, [op |-> "finalise"])
  /\ UNCHANGED texts

-----------------------------------------------------------------------------
(* Requests: what is written and committed *)

\* A chat is in no-one's way while the model works; short requests do not
\* overlap with what it writes either when they are Serialised.
MayCommit(a) == Serialised => \A b \in Actors \ {a} : request[b].op \in {"none", "chat"}

Done(a) == request' = [request EXCEPT ![a] = NoRequest]

NewRow(a) == [no |-> request[a].no, text |-> request[a].text,
              source |-> request[a].source, author |-> a, named |-> request[a].named]

AppendVersion_KeepsCurrent(a) ==
  LET c == request[a].section IN
  /\ rows' = [rows EXCEPT ![c] = Append(@, NewRow(a))]
  /\ UNCHANGED current

\* _append_version: numbered after the version that was current when read
AppendVersion(a) ==
  LET c == request[a].section IN
  /\ rows' = [rows EXCEPT ![c] = Append(@, NewRow(a))]
  /\ current' = [current EXCEPT ![c] = request[a].no]

\* the response confirms the save to the editor
Confirm(a, c, no, text) ==
  IF a \in Editors
  THEN /\ view' = [view EXCEPT ![a] = [section |-> c, no |-> no, text |-> text]]
       /\ saved' = [saved EXCEPT ![a] = [section |-> c, no |-> no, text |-> text]]
  ELSE UNCHANGED <<view, saved>>

CommitAppend(a) ==
  /\ request[a].op = "append"
  /\ AppendVersion(a)
  /\ Confirm(a, request[a].section, request[a].no, request[a].text)
  /\ UNCHANGED <<status, suggestions>>

\* autosave coalescing: only the text of the row is written
CommitAutosave(e) ==
  LET c == request[e].section IN
  /\ request[e].op = "autosave"
  /\ rows' = [rows EXCEPT ![c][request[e].row].text = request[e].text]
  /\ Confirm(e, c, rows[c][request[e].row].no, request[e].text)
  /\ UNCHANGED <<status, current, suggestions>>

CommitAdd(a) ==
  LET c == request[a].section IN
  /\ request[a].op = "add"
  /\ rows' = [rows EXCEPT ![c] =
                <<[no |-> 1, text |-> request[a].text, source |-> "generated",
                   author |-> a, named |-> FALSE]>>]
  /\ current' = [current EXCEPT ![c] = 1]
  /\ UNCHANGED <<status, suggestions, view, saved>>

CommitAccept(e) ==
  /\ request[e].op = "accept"
  /\ AppendVersion(e)
  /\ suggestions' = [suggestions EXCEPT ![request[e].suggestion].status = "accepted"]
  /\ UNCHANGED <<status, view, saved>>

CommitReject(e) ==
  /\ request[e].op = "reject"
  /\ suggestions' = [suggestions EXCEPT ![request[e].suggestion].status = "rejected"]
  /\ UNCHANGED <<status, current, rows, view, saved>>

CommitFinalise(e) ==
  /\ request[e].op = "finalise"
  /\ status' = "final"
  /\ UNCHANGED <<current, rows, suggestions, view, saved>>

Commit(a) ==
  /\ MayCommit(a)
  /\ \/ CommitAppend(a) \/ CommitAutosave(a) \/ CommitAdd(a)
     \/ CommitAccept(a) \/ CommitReject(a) \/ CommitFinalise(a)
  /\ Done(a)
  /\ UNCHANGED texts

\* the model has answered: its proposal lands as a pending suggestion, without
\* another look at the CAM
CommitChat(e) ==
  /\ MayCommit(e)
  /\ request[e].op = "chat"
  /\ WriteText
  /\ suggestions' = Append(suggestions, [section |-> request[e].section,
                                         text |-> texts + 1, status |-> "pending"])
  /\ Done(e)
  /\ UNCHANGED <<status, current, rows, view, saved>>

\* A request fails before it commits -- the model or a document cannot be
\* reached, the process dies -- and is rolled back.
Abandon(a) ==
  /\ request[a] # NoRequest
  /\ Done(a)
  /\ UNCHANGED <<status, current, rows, suggestions, view, saved, texts>>

-----------------------------------------------------------------------------
Next ==
  \/ \E e \in Editors :
       \/ \E c \in Present : Open(e, c) \/ BeginChat(e, c)
       \/ \E named \in BOOLEAN : BeginEdit(e, named)
       \/ \E g \in DOMAIN suggestions : BeginAccept(e, g) \/ BeginReject(e, g)
       \/ BeginFinalise(e)
       \/ CommitChat(e)
  \/ \E c \in Sections : BeginRegenerate(c) \/ BeginAdd(c)
  \/ \E a \in Actors : Commit(a) \/ Abandon(a)

Spec == Init /\ [][Next]_vars

-----------------------------------------------------------------------------
(* Safety *)

Document == [section : Sections, no : Nat \ {0}, text : Nat]
Requests ==
  {NoRequest}
    \cup [op : {"append"}, section : Sections, no : Nat \ {0}, source : Sources,
          named : BOOLEAN, text : Nat]
    \cup [op : {"autosave"}, section : Sections, row : Nat, text : Nat]
    \cup [op : {"add"}, section : Sections, text : Nat]
    \cup [op : {"chat"}, section : Sections]
    \cup [op : {"accept"}, suggestion : Nat, section : Sections, no : Nat \ {0},
          source : Sources, named : BOOLEAN, text : Nat]
    \cup [op : {"reject"}, suggestion : Nat]
    \cup [op : {"finalise"}]

\* Every variable keeps its type.
TypeOK ==
  /\ status \in {"draft", "final"}
  /\ current \in [Sections -> Nat]
  /\ rows \in [Sections -> Seq(Row)]
  /\ suggestions \in Seq(Suggestion)
  /\ request \in [Actors -> Requests]
  /\ view \in [Editors -> {NoView} \cup Document]
  /\ saved \in [Editors -> {NoView} \cup Document]
  /\ texts \in Nat

\* The history of a section is numbered 1, 2, 3, ... without gaps or duplicates
\* and ends with the current version, so that GET .../versions/{n}, the diff and
\* the rendered head each find the one row they mean.
NumberedHistory ==
  \A c \in Sections :
     /\ Len(rows[c]) = current[c]
     /\ \A i \in DOMAIN rows[c] : rows[c][i].no = i

\* What an analyst last saved under a version number is what that number still
\* stands for, whoever edits, regenerates or accepts meanwhile.
SavesAreRetrievable ==
  \A e \in Editors : saved[e] # NoView =>
     \A i \in DOMAIN rows[saved[e].section] :
        rows[saved[e].section][i].no = saved[e].no
          => rows[saved[e].section][i].text = saved[e].text

\* the versions that hold a text
Traces(text) == UNION {{<<c, i>> : i \in {j \in DOMAIN rows[c] : rows[c][j].text = text}}
                         : c \in Sections}

\* A proposal of the model is in the document once if it was accepted, and
\* nowhere otherwise (FR-E06, models.py on Suggestion).
SuggestionsLeaveOneTrace ==
  \A g \in DOMAIN suggestions :
     Cardinality(Traces(suggestions[g].text))
       = IF suggestions[g].status = "accepted" THEN 1 ELSE 0

\* No text of a final CAM changes any more, and no section joins it
\* (_ensure_editable).
FinalIsFrozen ==
  [][status = "final" => status' = "final" /\ UNCHANGED <<rows, current>>]_vars

\* An edit replaces the text its author has seen: optimistic locking (FR-E09,
\* contracts.md:488).  The code breaks it: an autosave changes a text in place (README 4.3).
NoBlindOverwrite ==
  [][\A e \in Editors : saved'[e] # saved[e] =>
       \E i \in Heads(view[e].section) : rows[view[e].section][i].text = view[e].text]_vars

\* The abstract document, read from the version and suggestion rows.
CamDoc == INSTANCE CamDocument WITH
            history <- rows, proposals <- suggestions, signedOff <- (status = "final"),
            Texts <- 0..MaxTexts

\* Whatever several editors, chats and the pipeline write together is the work of one
\* writer at a time: only the last version is ever rewritten, by the analyst who has
\* just written it and not named it, a proposal enters its section once, and nothing is
\* written after the sign-off (edit_section, accept_suggestion, _ensure_editable).
ImplementsDocument == CamDoc!Spec

\* Every proposal of the model is decided before the CAM is signed off (comment
\* in finalise).  The code breaks it: a chat may outlast the sign-off (README 4.3).
FinalHasNoPending == status = "final" => Pending = {}
=============================================================================
