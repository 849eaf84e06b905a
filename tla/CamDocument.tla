----------------------------- MODULE CamDocument ----------------------------
(***************************************************************************)
(* What the output service promises about the text of one CAM, with no     *)
(* requests in progress, open editors or transactions in sight: a section  *)
(* is a history of versions that only grows, except that the last one may  *)
(* be rewritten by the analyst who has just written it by hand and has not *)
(* named it; every text that is written is new; a proposal of the model is *)
(* decided once and enters the history of its section by that decision;    *)
(* after the sign-off nothing is written, and proposals that still arrive  *)
(* can only be rejected.                                                   *)
(*                                                                         *)
(* CamEditor.tla is shown to implement this module when short requests do  *)
(* not overlap.                                                            *)
(***************************************************************************)
EXTENDS Naturals, Sequences

CONSTANTS Sections,   \* sections of the template
          Late,       \* those the CAM starts without
          Editors,    \* analysts
          Pipeline,   \* the orchestration service
          Texts       \* texts that may be written; 0 is the generated draft

VARIABLES history,    \* history[c]: the versions of section c, oldest first
          proposals,  \* proposals of the model, in the order they were made
          signedOff   \* the CAM is final

vars == <<history, proposals, signedOff>>

Version(n, t, s, a, named) ==
  [no |-> n, text |-> t, source |-> s, author |-> a, named |-> named]

Exists(c) == history[c] # <<>>
LastOf(c) == history[c][Len(history[c])]

\* a text that neither a version nor a proposal holds
IsNew(t) == /\ \A c \in Sections : \A i \in DOMAIN history[c] : history[c][i].text # t
            /\ \A g \in DOMAIN proposals : proposals[g].text # t
-----------------------------------------------------------------------------
Init == /\ history = [c \in Sections |->
                        IF c \in Late THEN <<>>
                        ELSE <<Version(1, 0, "generated", Pipeline, FALSE)>>]
        /\ proposals = <<>>
        /\ signedOff = FALSE

\* The version becomes the last of its section.
Extend(c, t, s, a, named) ==
  /\ ~signedOff
  /\ history' = [history EXCEPT
                   ![c] = Append(@, Version(Len(history[c]) + 1, t, s, a, named))]
  /\ UNCHANGED signedOff

\* An analyst saves a version ...
Save(e, c, t, named) == /\ Exists(c)
                        /\ IsNew(t)
                        /\ Extend(c, t, "manual", e, named)
                        /\ UNCHANGED proposals

\* ... or goes on with the one just saved.
Amend(e, c, t) ==
  /\ ~signedOff
  /\ Exists(c)
  /\ LastOf(c).source = "manual" /\ LastOf(c).author = e /\ ~LastOf(c).named
  /\ IsNew(t)
  /\ history' = [history EXCEPT ![c][Len(history[c])].text = t]
  /\ UNCHANGED <<proposals, signedOff>>

\* The pipeline drafts a section again, or one that was missing.
Redraft(c, t) == /\ IsNew(t)
                 /\ Extend(c, t, IF Exists(c) THEN "regeneration" ELSE "generated",
                           Pipeline, FALSE)
                 /\ UNCHANGED proposals

\* The model proposes a text, even if the CAM has been signed off meanwhile.
Propose(c, t) ==
  /\ Exists(c)
  /\ IsNew(t)
  /\ proposals' = Append(proposals, [section |-> c, text |-> t, status |-> "pending"])
  /\ UNCHANGED <<history, signedOff>>

\* A proposal is decided, for good.
Decide(g, verdict) ==
  /\ proposals[g].status = "pending"
  /\ proposals' = [proposals EXCEPT ![g].status = verdict]

Accept(e, g) ==
  /\ Decide(g, "accepted")
  /\ Extend(proposals[g].section, proposals[g].text, "chat_suggestion", e, FALSE)

Reject(g) == Decide(g, "rejected") /\ UNCHANGED <<history, signedOff>>

SignOff == /\ ~signedOff
           /\ signedOff' = TRUE
           /\ UNCHANGED <<history, proposals>>

Next ==
  \/ \E e \in Editors, c \in Sections, t \in Texts :
        Amend(e, c, t) \/ \E named \in BOOLEAN : Save(e, c, t, named)
  \/ \E c \in Sections, t \in Texts : Redraft(c, t) \/ Propose(c, t)
  \/ \E g \in DOMAIN proposals : Reject(g) \/ \E e \in Editors : Accept(e, g)
  \/ SignOff

Spec == Init /\ [][Next]_vars
=============================================================================
