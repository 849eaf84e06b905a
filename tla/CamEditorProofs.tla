-------------------------- MODULE CamEditorProofs ---------------------------
(***************************************************************************)
(* Proofs about CamEditor, for any number of sections, editors and texts:  *)
(* type correctness and, when short requests do not overlap, the numbering *)
(* of the history, the freezing of a final CAM, what saves and proposals   *)
(* leave behind, and that the editor implements CamDocument.               *)
(***************************************************************************)
EXTENDS CamEditor, FiniteSetTheorems, TLAPS

(***************************************************************************)
(* What a request in progress knows of its section stays true: a section   *)
(* that exists does not vanish, one to be added is still missing (only the *)
(* pipeline adds sections), and rows are never removed.                    *)
(***************************************************************************)
Anchored ==
  /\ \A a \in Actors :
       /\ request[a].op \in {"append", "accept", "autosave", "chat"}
            => current[request[a].section] # 0
       /\ request[a].op = "add" => a = Pipeline /\ current[request[a].section] = 0
       /\ request[a].op = "autosave"
            => a \in Editors /\ request[a].row \in DOMAIN rows[request[a].section]
       /\ request[a].op \in {"accept", "reject"}
            => request[a].suggestion \in DOMAIN suggestions
  /\ \A g \in DOMAIN suggestions : current[suggestions[g].section] # 0

Inv == TypeOK /\ Anchored

\* What each kind of request carries.
LEMMA RequestFields ==
  ASSUME NEW r \in Requests
  PROVE  /\ r.op \in {"none", "append", "autosave", "add", "chat", "accept",
                      "reject", "finalise"}
         /\ r.op \in {"append", "accept"} =>
              /\ r.section \in Sections /\ r.no \in Nat \ {0} /\ r.source \in Sources
              /\ r.named \in BOOLEAN /\ r.text \in Nat
         /\ r.op \in {"autosave", "add", "chat"} => r.section \in Sections
         /\ r.op = "autosave" => r.row \in Nat
         /\ r.op \in {"autosave", "add"} => r.text \in Nat
         /\ r.op \in {"accept", "reject"} => r.suggestion \in Nat
<1>1. CASE r = NoRequest
  BY <1>1 DEF NoRequest
<1>2. CASE r \in [op : {"append"}, section : Sections, no : Nat \ {0}, source : Sources,
                  named : BOOLEAN, text : Nat]
  BY <1>2
<1>3. CASE r \in [op : {"autosave"}, section : Sections, row : Nat, text : Nat]
  BY <1>3
<1>4. CASE r \in [op : {"add"}, section : Sections, text : Nat]
  BY <1>4
<1>5. CASE r \in [op : {"chat"}, section : Sections]
  BY <1>5
<1>6. CASE r \in [op : {"accept"}, suggestion : Nat, section : Sections, no : Nat \ {0},
                  source : Sources, named : BOOLEAN, text : Nat]
  BY <1>6
<1>7. CASE r \in [op : {"reject"}, suggestion : Nat]
  BY <1>7
<1>8. CASE r \in [op : {"finalise"}]
  BY <1>8
<1> QED
  BY <1>1, <1>2, <1>3, <1>4, <1>5, <1>6, <1>7, <1>8 DEF Requests

LEMMA InitInv == Init => Inv
<1> SUFFICES ASSUME Init PROVE Inv
  OBVIOUS
<1>1. NoRequest \in Requests
  BY DEF Requests
<1>2. rows \in [Sections -> Seq(Row)]
  <2>1. [no |-> 1, text |-> 0, source |-> "generated", author |-> Pipeline, named |-> FALSE]
          \in Row
    BY DEF Row, Sources, Actors
  <2> QED
    BY <2>1 DEF Init
<1>3. TypeOK
  <2>1. suggestions \in Seq(Suggestion)
    BY DEF Init
  <2>2. request \in [Actors -> Requests]
    BY <1>1 DEF Init
  <2> QED
    BY <1>2, <2>1, <2>2 DEF Init, TypeOK
<1>4. Anchored
  BY DEF Init, Anchored, NoRequest
<1> QED
  BY <1>3, <1>4 DEF Inv

LEMMA SuggestionFields ==
  ASSUME Inv, NEW g \in DOMAIN suggestions
  PROVE  /\ g \in Nat /\ suggestions[g] \in Suggestion
         /\ suggestions[g].section \in Sections /\ suggestions[g].text \in Nat
         /\ current[suggestions[g].section] \in Nat
         /\ current[suggestions[g].section] # 0
<1>1. g \in Nat /\ suggestions[g] \in Suggestion
  BY DEF Inv, TypeOK
<1> QED
  BY <1>1 DEF Inv, TypeOK, Anchored, Suggestion

\* A request that begins disturbs nothing but itself.
LEMMA BeginInv ==
  ASSUME Inv, NEW a \in Actors, NEW r \in Requests, Begin(a, r), texts' \in Nat,
         r.op \in {"append", "accept", "autosave", "chat"} => current[r.section] # 0,
         r.op = "add" => a = Pipeline /\ current[r.section] = 0,
         r.op = "autosave" => a \in Editors /\ r.row \in DOMAIN rows[r.section],
         r.op \in {"accept", "reject"} => r.suggestion \in DOMAIN suggestions
  PROVE  Inv'
<1>1. TypeOK'
  BY DEF Inv, TypeOK, Begin
<1>2. /\ request' = [request EXCEPT ![a] = r]
      /\ UNCHANGED <<current, rows, suggestions>>
      /\ request \in [Actors -> Requests]
  BY DEF Inv, TypeOK, Begin
<1>3. Anchored'
  <2>1. \A b \in Actors : request'[b] = IF b = a THEN r ELSE request[b]
    BY <1>2
  <2> QED
    BY <1>2, <2>1 DEF Inv, Anchored
<1> QED
  BY <1>1, <1>3 DEF Inv

\* One that ends without writing anything neither.
LEMMA AbandonInv ==
  ASSUME Inv, NEW a \in Actors, Abandon(a)
  PROVE  Inv'
<1>1. NoRequest \in Requests
  BY DEF Requests
<1>2. TypeOK'
  BY <1>1 DEF Inv, TypeOK, Abandon, Done
<1>3. \A b \in Actors : request'[b] = IF b = a THEN NoRequest ELSE request[b]
  BY DEF Inv, TypeOK, Abandon, Done
<1>4. Anchored'
  BY <1>3 DEF Inv, Anchored, Abandon, NoRequest
<1> QED
  BY <1>2, <1>4 DEF Inv

LEMMA BeginEditInv ==
  ASSUME Inv, NEW e \in Editors, NEW named \in BOOLEAN, BeginEdit(e, named)
  PROVE  Inv'
<1> DEFINE c == view[e].section
           autosave(i) == [op |-> "autosave", section |-> c, row |-> i, text |-> texts + 1]
           append == [op |-> "append", section |-> c, no |-> current[c] + 1,
                      source |-> "manual", named |-> named, text |-> texts + 1]
<1>1. view[e] \in Document /\ c \in Sections /\ current[c] \in Nat /\ current[c] # 0
  BY DEF Inv, TypeOK, BeginEdit, NoView, Document
<1>2. texts \in Nat /\ texts' = texts + 1 /\ texts' \in Nat
  BY DEF Inv, TypeOK, BeginEdit, WriteText
<1>3. e \in Actors
  BY DEF Actors
<1>4. PICK i \in Heads(c) : Begin(e, autosave(i)) \/ Begin(e, append)
  BY DEF BeginEdit
<1>5. i \in DOMAIN rows[c] /\ i \in Nat
  BY <1>1 DEF Heads, Inv, TypeOK
<1>6. CASE Begin(e, autosave(i))
  <2>1. autosave(i) \in Requests
    BY <1>1, <1>2, <1>5 DEF Requests
  <2> QED
    BY <1>1, <1>2, <1>3, <1>5, <1>6, <2>1, BeginInv
<1>7. CASE Begin(e, append)
  <2>1. append \in Requests
    BY <1>1, <1>2 DEF Requests, Sources
  <2> QED
    BY <1>1, <1>2, <1>3, <1>7, <2>1, BeginInv
<1> QED
  BY <1>4, <1>6, <1>7

LEMMA BeginPipelineInv ==
  ASSUME Inv, NEW c \in Sections, BeginRegenerate(c) \/ BeginAdd(c)
  PROVE  Inv'
<1> DEFINE append == [op |-> "append", section |-> c, no |-> current[c] + 1,
                      source |-> "regeneration", named |-> FALSE, text |-> texts + 1]
           add == [op |-> "add", section |-> c, text |-> texts + 1]
<1>1. texts \in Nat /\ texts' = texts + 1 /\ texts' \in Nat /\ current[c] \in Nat
  BY DEF Inv, TypeOK, BeginRegenerate, BeginAdd, WriteText
<1>2. Pipeline \in Actors
  BY DEF Actors
<1>3. CASE BeginRegenerate(c)
  <2>1. append \in Requests
    BY <1>1 DEF Requests, Sources
  <2>2. Begin(Pipeline, append) /\ current[c] # 0
    BY <1>3 DEF BeginRegenerate, Present
  <2> QED
    BY <1>1, <1>2, <2>1, <2>2, BeginInv
<1>4. CASE BeginAdd(c)
  <2>1. add \in Requests
    BY <1>1 DEF Requests
  <2>2. Begin(Pipeline, add) /\ current[c] = 0
    BY <1>4 DEF BeginAdd, Present
  <2> QED
    BY <1>1, <1>2, <2>1, <2>2, BeginInv
<1> QED
  BY <1>3, <1>4

LEMMA BeginChatInv ==
  ASSUME Inv, NEW e \in Editors, NEW c \in Present, BeginChat(e, c)
  PROVE  Inv'
<1> DEFINE r == [op |-> "chat", section |-> c]
<1>1. c \in Sections /\ current[c] # 0
  BY DEF Present
<1>2. r \in Requests
  BY <1>1 DEF Requests
<1>3. e \in Actors /\ Begin(e, r) /\ texts' \in Nat
  BY DEF BeginChat, Actors, Inv, TypeOK
<1> QED
  BY <1>1, <1>2, <1>3, BeginInv

LEMMA BeginDecisionInv ==
  ASSUME Inv, NEW e \in Editors, NEW g \in DOMAIN suggestions,
         BeginAccept(e, g) \/ BeginReject(e, g)
  PROVE  Inv'
<1> DEFINE c == suggestions[g].section
           reject == [op |-> "reject", suggestion |-> g]
<1>1. g \in Nat
  BY SuggestionFields
<1>2. c \in Sections /\ suggestions[g].text \in Nat /\ current[c] \in Nat /\ current[c] # 0
  BY SuggestionFields
<1>3. e \in Actors /\ texts' \in Nat
  BY DEF BeginAccept, BeginReject, Actors, Inv, TypeOK
<1>4. CASE BeginAccept(e, g)
  <2>1. Proposal(g) \in Requests
    BY <1>1, <1>2 DEF Proposal, Requests, Sources
  <2>2. /\ Proposal(g).op = "accept"
        /\ Proposal(g).section = c
        /\ Proposal(g).suggestion = g
    BY DEF Proposal
  <2>3. Begin(e, Proposal(g))
    BY <1>4 DEF BeginAccept
  <2> HIDE DEF c
  <2> QED
    BY <1>2, <1>3, <2>1, <2>2, <2>3, BeginInv
<1>5. CASE BeginReject(e, g)
  <2>1. reject \in Requests
    BY <1>1 DEF Requests
  <2>2. Begin(e, reject)
    BY <1>5 DEF BeginReject
  <2> QED
    BY <1>3, <2>1, <2>2, BeginInv
<1> QED
  BY <1>4, <1>5

LEMMA BeginFinaliseInv ==
  ASSUME Inv, NEW e \in Editors, BeginFinalise(e)
  PROVE  Inv'
<1> DEFINE r == [op |-> "finalise"]
<1>1. r \in Requests
  BY DEF Requests
<1>2. e \in Actors /\ Begin(e, r) /\ texts' \in Nat
  BY DEF BeginFinalise, Actors, Inv, TypeOK
<1> QED
  BY <1>1, <1>2, BeginInv
-----------------------------------------------------------------------------
(* Steps that write *)

\* A request that ends keeps the others anchored if no section and no row
\* disappears and only the pipeline adds sections.
LEMMA AnchorsHold ==
  ASSUME Inv, NEW a \in Actors, Done(a),
         \A d \in Sections : current[d] # 0 =>
            current'[d] # 0 /\ DOMAIN rows[d] \subseteq DOMAIN rows'[d],
         a # Pipeline => \A d \in Sections : current[d] = 0 => current'[d] = 0,
         DOMAIN suggestions \subseteq DOMAIN suggestions',
         \A g \in DOMAIN suggestions' : current'[suggestions'[g].section] # 0
  PROVE  request' \in [Actors -> Requests] /\ Anchored'
<1>1. NoRequest \in Requests /\ NoRequest.op = "none"
  BY DEF Requests, NoRequest
<1>2. request \in [Actors -> Requests]
  BY DEF Inv, TypeOK
<1>3. \A b \in Actors : request'[b] = IF b = a THEN NoRequest ELSE request[b]
  BY <1>2 DEF Done
<1>4. request' \in [Actors -> Requests]
  BY <1>1, <1>2 DEF Done
<1>5. ASSUME NEW b \in Actors
      PROVE  /\ request'[b].op \in {"append", "accept", "autosave", "chat"}
                  => current'[request'[b].section] # 0
             /\ request'[b].op = "add"
                  => b = Pipeline /\ current'[request'[b].section] = 0
             /\ request'[b].op = "autosave"
                  => b \in Editors /\ request'[b].row \in DOMAIN rows'[request'[b].section]
             /\ request'[b].op \in {"accept", "reject"}
                  => request'[b].suggestion \in DOMAIN suggestions'
  <2>1. CASE b = a
    BY <1>1, <1>3, <2>1
  <2>2. CASE b # a
    <3>1. request'[b] = request[b] /\ request[b] \in Requests
      BY <1>2, <1>3, <2>2
    <3>2. request[b].op \in {"append", "accept", "autosave", "add", "chat"}
            => request[b].section \in Sections
      BY <3>1, RequestFields
    <3>3. CASE request[b].op = "add"
      <4>1. b = Pipeline /\ current[request[b].section] = 0
        BY <3>3 DEF Inv, Anchored
      <4> QED
        BY <2>2, <3>1, <3>2, <3>3, <4>1
    <3>4. CASE request[b].op \in {"append", "accept", "autosave", "chat"}
      <4>1. current[request[b].section] # 0
        BY <3>4 DEF Inv, Anchored
      <4>2. /\ current'[request[b].section] # 0
            /\ DOMAIN rows[request[b].section] \subseteq DOMAIN rows'[request[b].section]
        BY <3>2, <3>4, <4>1
      <4>3. /\ request[b].op = "autosave"
                 => b \in Editors /\ request[b].row \in DOMAIN rows[request[b].section]
            /\ request[b].op = "accept" => request[b].suggestion \in DOMAIN suggestions
        BY DEF Inv, Anchored
      <4> QED
        BY <3>1, <3>4, <4>2, <4>3
    <3>5. CASE request[b].op \notin {"append", "accept", "autosave", "chat", "add"}
      <4>1. request[b].op = "reject" => request[b].suggestion \in DOMAIN suggestions
        BY DEF Inv, Anchored
      <4> QED
        BY <3>1, <3>5, <4>1
    <3> QED
      BY <3>3, <3>4, <3>5
  <2> QED
    BY <2>1, <2>2
<1> QED
  BY <1>4, <1>5 DEF Anchored

\* What _append_version does to the history.
LEMMA AppendVersionRows ==
  ASSUME Inv, NEW a \in Actors, request[a].op \in {"append", "accept"}, AppendVersion(a)
  PROVE  LET c == request[a].section IN
         /\ c \in Sections /\ current[c] # 0
         /\ NewRow(a) \in Row /\ NewRow(a).no = request[a].no
         /\ rows' \in [Sections -> Seq(Row)]
         /\ current' \in [Sections -> Nat]
         /\ rows'[c] = Append(rows[c], NewRow(a)) /\ current'[c] = request[a].no
         /\ \A d \in Sections \ {c} : rows'[d] = rows[d] /\ current'[d] = current[d]
         /\ \A d \in Sections :
               (current[d] = 0 <=> current'[d] = 0)
                 /\ DOMAIN rows[d] \subseteq DOMAIN rows'[d]
<1> DEFINE c == request[a].section
<1>1. request[a] \in Requests
  BY DEF Inv, TypeOK
<1>2. /\ c \in Sections /\ request[a].no \in Nat \ {0} /\ request[a].source \in Sources
      /\ request[a].named \in BOOLEAN /\ request[a].text \in Nat
  BY <1>1, RequestFields
<1>3. current[c] # 0
  BY DEF Inv, Anchored
<1>4. NewRow(a) \in Row /\ NewRow(a).no = request[a].no
  BY <1>2 DEF NewRow, Row
<1>5. /\ rows \in [Sections -> Seq(Row)]
      /\ rows' = [rows EXCEPT ![c] = Append(rows[c], NewRow(a))]
      /\ current \in [Sections -> Nat]
      /\ current' = [current EXCEPT ![c] = request[a].no]
  BY DEF Inv, TypeOK, AppendVersion
<1> HIDE DEF c
<1>6. /\ Append(rows[c], NewRow(a)) \in Seq(Row)
      /\ DOMAIN rows[c] \subseteq DOMAIN Append(rows[c], NewRow(a))
  BY <1>2, <1>4, <1>5
<1>7. /\ rows' \in [Sections -> Seq(Row)]
      /\ current' \in [Sections -> Nat]
      /\ rows'[c] = Append(rows[c], NewRow(a)) /\ current'[c] = request[a].no
      /\ \A d \in Sections \ {c} : rows'[d] = rows[d] /\ current'[d] = current[d]
  BY <1>2, <1>5, <1>6
<1>8. \A d \in Sections : (current[d] = 0 <=> current'[d] = 0)
                            /\ DOMAIN rows[d] \subseteq DOMAIN rows'[d]
  BY <1>2, <1>3, <1>6, <1>7
<1> QED
  BY <1>2, <1>3, <1>4, <1>7, <1>8 DEF c

\* The view of an editor keeps its type when a save is confirmed.
LEMMA ConfirmType ==
  ASSUME Inv, NEW a \in Actors, NEW c \in Sections, NEW no \in Nat \ {0}, NEW text \in Nat,
         Confirm(a, c, no, text)
  PROVE  /\ view' \in [Editors -> {NoView} \cup Document]
         /\ saved' \in [Editors -> {NoView} \cup Document]
<1>1. [section |-> c, no |-> no, text |-> text] \in Document
  BY DEF Document
<1> QED
  BY <1>1 DEF Confirm, Inv, TypeOK

LEMMA CommitAppendInv ==
  ASSUME Inv, NEW a \in Actors, CommitAppend(a), Done(a), UNCHANGED texts
  PROVE  Inv'
<1>1. request[a].op = "append" /\ AppendVersion(a) /\ UNCHANGED <<status, suggestions>>
  BY DEF CommitAppend
<1>2. /\ rows' \in [Sections -> Seq(Row)]
      /\ current' \in [Sections -> Nat]
      /\ \A d \in Sections : (current[d] = 0 <=> current'[d] = 0)
                               /\ DOMAIN rows[d] \subseteq DOMAIN rows'[d]
  BY <1>1, AppendVersionRows
<1>3. \A g \in DOMAIN suggestions' : current'[suggestions'[g].section] # 0
  BY <1>1, <1>2, SuggestionFields
<1>4. request' \in [Actors -> Requests] /\ Anchored'
  BY <1>1, <1>2, <1>3, AnchorsHold
<1>5. request[a] \in Requests
  BY DEF Inv, TypeOK
<1>6. /\ view' \in [Editors -> {NoView} \cup Document]
      /\ saved' \in [Editors -> {NoView} \cup Document]
  BY <1>1, <1>5, RequestFields, ConfirmType DEF CommitAppend
<1> QED
  BY <1>1, <1>2, <1>4, <1>6 DEF Inv, TypeOK

\* What coalescing an autosave does to the history: one text changes.
LEMMA AutosavedRows ==
  ASSUME Inv, NEW e \in Actors, CommitAutosave(e),
         NEW c, c = request[e].section, NEW i, i = request[e].row
  PROVE  /\ c \in Sections /\ i \in DOMAIN rows[c] /\ rows[c][i].no \in Nat \ {0}
         /\ e \in Editors /\ request[e].text \in Nat
         /\ rows' \in [Sections -> Seq(Row)]
         /\ \A d \in Sections : DOMAIN rows'[d] = DOMAIN rows[d] /\ Len(rows'[d]) = Len(rows[d])
         /\ \A d \in Sections : \A k \in DOMAIN rows[d] :
              d # c \/ k # i => rows'[d][k] = rows[d][k]
         /\ rows'[c][i] = [rows[c][i] EXCEPT !.text = request[e].text]
         /\ rows[c][i] \in Row
<1> DEFINE row == [rows[c][i] EXCEPT !.text = request[e].text]
<1>1. request[e] \in Requests /\ request[e].op = "autosave"
  BY DEF Inv, TypeOK, CommitAutosave
<1>2. c \in Sections /\ i \in Nat /\ request[e].text \in Nat
  BY <1>1, RequestFields
<1>3. e \in Editors /\ i \in DOMAIN rows[c] /\ current[c] # 0
  BY <1>1 DEF Inv, Anchored
<1>4. rows \in [Sections -> Seq(Row)] /\ rows[c] \in Seq(Row) /\ rows[c][i] \in Row
  BY <1>2, <1>3 DEF Inv, TypeOK
<1>5. row \in Row /\ rows[c][i].no \in Nat \ {0}
  BY <1>2, <1>4 DEF Row
<1>6. rows' = [rows EXCEPT ![c] = [rows[c] EXCEPT ![i] = row]]
  BY <1>2, <1>4 DEF CommitAutosave
<1> HIDE DEF row
<1>7. /\ [rows[c] EXCEPT ![i] = row] \in Seq(Row)
      /\ DOMAIN [rows[c] EXCEPT ![i] = row] = DOMAIN rows[c]
      /\ Len([rows[c] EXCEPT ![i] = row]) = Len(rows[c])
  BY <1>3, <1>4, <1>5
<1>8. /\ rows' \in [Sections -> Seq(Row)]
      /\ \A d \in Sections : DOMAIN rows'[d] = DOMAIN rows[d] /\ Len(rows'[d]) = Len(rows[d])
  BY <1>2, <1>4, <1>6, <1>7
<1>9. \A d \in Sections : \A k \in DOMAIN rows[d] :
        rows'[d][k] = IF d = c /\ k = i THEN row ELSE rows[d][k]
  BY <1>2, <1>3, <1>4, <1>6
<1>10. rows'[c][i] = row
  BY <1>2, <1>3, <1>9
<1>11. \A d \in Sections : \A k \in DOMAIN rows[d] :
         d # c \/ k # i => rows'[d][k] = rows[d][k]
  BY <1>9
<1>12. rows'[c][i] = [rows[c][i] EXCEPT !.text = request[e].text]
  BY <1>10 DEF row
<1> QED
  BY <1>2, <1>3, <1>4, <1>5, <1>8, <1>11, <1>12

LEMMA CommitAutosaveInv ==
  ASSUME Inv, NEW e \in Actors, CommitAutosave(e), Done(e), UNCHANGED texts
  PROVE  /\ Inv'
         /\ \A d \in Sections : Len(rows'[d]) = Len(rows[d])
         /\ \A d \in Sections : \A k \in DOMAIN rows[d] : rows'[d][k].no = rows[d][k].no
<1>0. PICK c \in Sections, i \in Nat : c = request[e].section /\ i = request[e].row
  BY RequestFields DEF Inv, TypeOK, CommitAutosave
<1>1. /\ i \in DOMAIN rows[c] /\ rows[c][i].no \in Nat \ {0}
      /\ e \in Editors /\ request[e].text \in Nat
      /\ rows' \in [Sections -> Seq(Row)]
      /\ \A d \in Sections : DOMAIN rows'[d] = DOMAIN rows[d] /\ Len(rows'[d]) = Len(rows[d])
      /\ \A d \in Sections : \A k \in DOMAIN rows[d] :
           d # c \/ k # i => rows'[d][k] = rows[d][k]
      /\ rows'[c][i] = [rows[c][i] EXCEPT !.text = request[e].text]
      /\ rows[c][i] \in Row
  BY <1>0, AutosavedRows
<1>2. rows'[c][i].no = rows[c][i].no
  BY <1>1 DEF Row
<1>3. \A d \in Sections : \A k \in DOMAIN rows[d] : rows'[d][k].no = rows[d][k].no
  BY <1>1, <1>2
<1>4. UNCHANGED <<status, current, suggestions>>
  BY DEF CommitAutosave
<1>5. request' \in [Actors -> Requests] /\ Anchored'
  <2>1. \A g \in DOMAIN suggestions' : current'[suggestions'[g].section] # 0
    BY <1>4, SuggestionFields
  <2> QED
    BY <1>1, <1>4, <2>1, AnchorsHold
<1>6. /\ view' \in [Editors -> {NoView} \cup Document]
      /\ saved' \in [Editors -> {NoView} \cup Document]
  BY <1>0, <1>1, ConfirmType DEF CommitAutosave
<1>7. TypeOK'
  BY <1>1, <1>4, <1>5, <1>6 DEF Inv, TypeOK
<1> QED
  BY <1>1, <1>3, <1>5, <1>7 DEF Inv

LEMMA CommitAddInv ==
  ASSUME Inv, NEW a \in Actors, CommitAdd(a), Done(a), UNCHANGED texts
  PROVE  LET c == request[a].section IN
         /\ Inv'
         /\ c \in Sections /\ current[c] = 0 /\ current'[c] = 1
         /\ Len(rows'[c]) = 1 /\ rows'[c][1].no = 1
         /\ \A d \in Sections \ {c} : rows'[d] = rows[d] /\ current'[d] = current[d]
<1> DEFINE c == request[a].section
           row == [no |-> 1, text |-> request[a].text, source |-> "generated",
                   author |-> a, named |-> FALSE]
<1>1. request[a] \in Requests /\ request[a].op = "add"
  BY DEF Inv, TypeOK, CommitAdd
<1>2. c \in Sections /\ request[a].text \in Nat
  BY <1>1, RequestFields
<1>3. a = Pipeline /\ current[c] = 0
  BY <1>1 DEF Inv, Anchored
<1>4. row \in Row /\ row.no = 1
  BY <1>2 DEF Row, Sources
<1>5. /\ rows \in [Sections -> Seq(Row)] /\ rows' = [rows EXCEPT ![c] = <<row>>]
      /\ current \in [Sections -> Nat] /\ current' = [current EXCEPT ![c] = 1]
  BY DEF Inv, TypeOK, CommitAdd
<1> HIDE DEF row, c
<1>6. <<row>> \in Seq(Row) /\ Len(<<row>>) = 1 /\ <<row>>[1] = row
  BY <1>4
<1>7. /\ rows' \in [Sections -> Seq(Row)] /\ current' \in [Sections -> Nat]
      /\ rows'[c] = <<row>> /\ current'[c] = 1
      /\ \A d \in Sections \ {c} : rows'[d] = rows[d] /\ current'[d] = current[d]
  BY <1>2, <1>5, <1>6
<1>8. UNCHANGED <<status, suggestions, view, saved>>
  BY DEF CommitAdd
<1>9. request' \in [Actors -> Requests] /\ Anchored'
  <2>1. \A d \in Sections : current[d] # 0 =>
           current'[d] # 0 /\ DOMAIN rows[d] \subseteq DOMAIN rows'[d]
    BY <1>3, <1>7
  <2>2. \A g \in DOMAIN suggestions' : current'[suggestions'[g].section] # 0
    BY <1>8, <2>1, SuggestionFields
  <2> QED
    BY <1>3, <1>8, <2>1, <2>2, AnchorsHold
<1>10. TypeOK'
  BY <1>7, <1>8, <1>9 DEF Inv, TypeOK
<1> QED
  BY <1>2, <1>3, <1>4, <1>6, <1>7, <1>9, <1>10 DEF Inv, c

\* The status of a suggestion changes; the section and the text stay.
LEMMA DecideSuggestion ==
  ASSUME Inv, NEW g \in DOMAIN suggestions, NEW s \in {"accepted", "rejected"},
         suggestions' = [suggestions EXCEPT ![g].status = s]
  PROVE  /\ suggestions' \in Seq(Suggestion)
         /\ DOMAIN suggestions' = DOMAIN suggestions
         /\ \A h \in DOMAIN suggestions : suggestions'[h].section = suggestions[h].section
<1> DEFINE decided == [suggestions[g] EXCEPT !.status = s]
<1>1. suggestions \in Seq(Suggestion) /\ suggestions[g] \in Suggestion
  BY SuggestionFields DEF Inv, TypeOK
<1>2. decided \in Suggestion /\ decided.section = suggestions[g].section
  BY <1>1 DEF Suggestion
<1>3. suggestions' = [suggestions EXCEPT ![g] = decided]
  BY <1>1
<1> HIDE DEF decided
<1> QED
  BY <1>1, <1>2, <1>3

LEMMA CommitDecisionInv ==
  ASSUME Inv, NEW a \in Actors, CommitAccept(a) \/ CommitReject(a), Done(a), UNCHANGED texts
  PROVE  Inv'
<1>1. request[a] \in Requests /\ request[a].op \in {"accept", "reject"}
  BY DEF Inv, TypeOK, CommitAccept, CommitReject
<1>2. request[a].suggestion \in DOMAIN suggestions
  BY <1>1 DEF Inv, Anchored
<1>3. PICK s \in {"accepted", "rejected"} :
        suggestions' = [suggestions EXCEPT ![request[a].suggestion].status = s]
  BY DEF CommitAccept, CommitReject
<1>4. /\ suggestions' \in Seq(Suggestion)
      /\ DOMAIN suggestions' = DOMAIN suggestions
      /\ \A h \in DOMAIN suggestions : suggestions'[h].section = suggestions[h].section
  BY <1>2, <1>3, DecideSuggestion
<1>5. /\ rows' \in [Sections -> Seq(Row)]
      /\ current' \in [Sections -> Nat]
      /\ \A d \in Sections : (current[d] = 0 <=> current'[d] = 0)
                               /\ DOMAIN rows[d] \subseteq DOMAIN rows'[d]
  <2>1. CASE CommitAccept(a)
    BY <2>1, AppendVersionRows DEF CommitAccept
  <2>2. CASE CommitReject(a)
    BY <2>2 DEF CommitReject, Inv, TypeOK
  <2> QED
    BY <2>1, <2>2
<1>6. \A g \in DOMAIN suggestions' : current'[suggestions'[g].section] # 0
  BY <1>4, <1>5, SuggestionFields
<1>7. request' \in [Actors -> Requests] /\ Anchored'
  BY <1>4, <1>5, <1>6, AnchorsHold
<1>8. UNCHANGED <<status, view, saved, texts>>
  BY DEF CommitAccept, CommitReject
<1> QED
  BY <1>4, <1>5, <1>7, <1>8 DEF Inv, TypeOK

LEMMA CommitFinaliseInv ==
  ASSUME Inv, NEW a \in Actors, CommitFinalise(a), Done(a), UNCHANGED texts
  PROVE  Inv'
<1>1. status' = "final" /\ UNCHANGED <<current, rows, suggestions, view, saved>>
  BY DEF CommitFinalise
<1>2. request' \in [Actors -> Requests] /\ Anchored'
  BY <1>1, SuggestionFields, AnchorsHold
<1> QED
  BY <1>1, <1>2 DEF Inv, TypeOK

LEMMA CommitChatInv ==
  ASSUME Inv, NEW e \in Editors, CommitChat(e)
  PROVE  Inv'
<1> DEFINE g == [section |-> request[e].section, text |-> texts + 1, status |-> "pending"]
<1>1. e \in Actors /\ request[e] \in Requests /\ request[e].op = "chat"
  BY DEF Inv, TypeOK, CommitChat, Actors
<1>2. request[e].section \in Sections /\ current[request[e].section] # 0
  BY <1>1, RequestFields DEF Inv, Anchored
<1>3. texts \in Nat /\ texts' \in Nat
  BY DEF Inv, TypeOK, CommitChat, WriteText
<1>4. g \in Suggestion /\ g.section = request[e].section
  BY <1>2, <1>3 DEF Suggestion
<1>5. /\ suggestions \in Seq(Suggestion)
      /\ suggestions' = Append(suggestions, g)
      /\ UNCHANGED <<status, current, rows, view, saved>>
      /\ Done(e)
  BY DEF CommitChat, Inv, TypeOK
<1> HIDE DEF g
<1>6. /\ suggestions' \in Seq(Suggestion)
      /\ DOMAIN suggestions \subseteq DOMAIN suggestions'
      /\ \A h \in DOMAIN suggestions' : \/ h \in DOMAIN suggestions /\ suggestions'[h] = suggestions[h]
                                        \/ suggestions'[h] = g
  BY <1>4, <1>5
<1>7. \A h \in DOMAIN suggestions' : current'[suggestions'[h].section] # 0
  BY <1>2, <1>4, <1>5, <1>6, SuggestionFields
<1>8. request' \in [Actors -> Requests] /\ Anchored'
  BY <1>1, <1>5, <1>6, <1>7, AnchorsHold
<1> QED
  BY <1>3, <1>5, <1>6, <1>8 DEF Inv, TypeOK
LEMMA InvStep == Inv /\ [Next]_vars => Inv'
<1> SUFFICES ASSUME Inv, [Next]_vars PROVE Inv'
  OBVIOUS
<1>1. CASE UNCHANGED vars
  BY <1>1 DEF Inv, TypeOK, Anchored, vars
<1>2. CASE \E e \in Editors : \E c \in Present : Open(e, c)
  <2>1. PICK e \in Editors, c \in Present : Open(e, c)
    BY <1>2
  <2>2. PICK i \in Heads(c) :
          view' = [view EXCEPT ![e] = [section |-> c, no |-> current[c],
                                       text |-> rows[c][i].text]]
    BY <2>1 DEF Open
  <2>3. c \in Sections /\ current[c] \in Nat \ {0} /\ i \in DOMAIN rows[c]
    BY DEF Present, Heads, Inv, TypeOK
  <2>4. rows[c][i] \in Row
    BY <2>3 DEF Inv, TypeOK
  <2>5. [section |-> c, no |-> current[c], text |-> rows[c][i].text] \in Document
    BY <2>3, <2>4 DEF Document, Row
  <2>6. view' \in [Editors -> {NoView} \cup Document]
    BY <2>2, <2>5 DEF Inv, TypeOK
  <2> QED
    BY <2>1, <2>6 DEF Open, Inv, TypeOK, Anchored
<1>3. CASE \E e \in Editors : \E c \in Present : BeginChat(e, c)
  BY <1>3, BeginChatInv
<1>4. CASE \E e \in Editors : \E named \in BOOLEAN : BeginEdit(e, named)
  BY <1>4, BeginEditInv
<1>5. CASE \E e \in Editors : \E g \in DOMAIN suggestions : BeginAccept(e, g) \/ BeginReject(e, g)
  BY <1>5, BeginDecisionInv
<1>6. CASE \E e \in Editors : BeginFinalise(e)
  BY <1>6, BeginFinaliseInv
<1>7. CASE \E e \in Editors : CommitChat(e)
  BY <1>7, CommitChatInv
<1>8. CASE \E c \in Sections : BeginRegenerate(c) \/ BeginAdd(c)
  BY <1>8, BeginPipelineInv
<1>9. CASE \E a \in Actors : Commit(a)
  BY <1>9, CommitAppendInv, CommitAutosaveInv, CommitAddInv, CommitDecisionInv,
     CommitFinaliseInv DEF Commit
<1>10. CASE \E a \in Actors : Abandon(a)
  BY <1>10, AbandonInv
<1> QED
  BY <1>1, <1>2, <1>3, <1>4, <1>5, <1>6, <1>7, <1>8, <1>9, <1>10 DEF Next

\* Every variable of the editor keeps its type, with requests that overlap too.
THEOREM EditorTypeCorrect == Spec => []TypeOK
<1>1. Inv => TypeOK
  BY DEF Inv
<1> QED
  BY <1>1, InitInv, InvStep, PTL DEF Spec

-----------------------------------------------------------------------------
(* When short requests do not overlap *)

Writing(a) == request[a].op \notin {"none", "chat"}

\* One short request is in progress at a time; what it read when it began is
\* still so when it commits.
OneWriter ==
  \A a, b \in Actors : Writing(a) /\ Writing(b) => a = b

ReadsHold ==
  \A a \in Actors :
     /\ request[a].op \in {"append", "accept", "autosave", "add", "finalise"}
          => status = "draft"
     /\ request[a].op \in {"append", "accept"}
          => request[a].no = current[request[a].section] + 1

SerialInv == Inv /\ OneWriter /\ ReadsHold /\ NumberedHistory

LEMMA SerialInit == Init => SerialInv
<1> SUFFICES ASSUME Init PROVE SerialInv
  OBVIOUS
<1>1. OneWriter /\ ReadsHold
  BY DEF Init, OneWriter, ReadsHold, Writing, NoRequest
<1>2. NumberedHistory
  BY DEF Init, NumberedHistory
<1> QED
  BY <1>1, <1>2, InitInv DEF SerialInv

\* A request begins only while no other short one is in progress.
LEMMA BeginSerial ==
  ASSUME SerialInv, Serialised, NEW a \in Actors, NEW r, Begin(a, r),
         r.op \in {"append", "accept", "autosave", "add", "finalise"} => status = "draft",
         r.op \in {"append", "accept"} => r.no = current[r.section] + 1
  PROVE  OneWriter' /\ ReadsHold' /\ NumberedHistory' /\ UNCHANGED <<status, rows, current>>
<1>1. /\ request \in [Actors -> Requests]
      /\ request' = [request EXCEPT ![a] = r]
      /\ \A b \in Actors : ~Writing(b)
      /\ UNCHANGED <<status, current, rows>>
  BY DEF SerialInv, Inv, TypeOK, Begin, Idle, Writing
<1>2. \A b \in Actors : request'[b] = IF b = a THEN r ELSE request[b]
  BY <1>1
<1>3. OneWriter'
  BY <1>1, <1>2 DEF OneWriter, Writing
<1>4. ReadsHold'
  BY <1>1, <1>2 DEF SerialInv, ReadsHold
<1>5. NumberedHistory'
  BY <1>1 DEF SerialInv, NumberedHistory
<1> QED
  BY <1>1, <1>3, <1>4, <1>5

\* When a short request commits, the only one in progress ends.
LEMMA DoneSerial ==
  ASSUME SerialInv, NEW a \in Actors, Done(a), Writing(a)
  PROVE  OneWriter' /\ ReadsHold'
<1>1. request \in [Actors -> Requests] /\ NoRequest.op = "none"
  BY DEF SerialInv, Inv, TypeOK, NoRequest
<1>2. \A b \in Actors : request'[b] = IF b = a THEN NoRequest ELSE request[b]
  BY <1>1 DEF Done
<1>3. \A b \in Actors : request'[b].op \in {"none", "chat"}
  BY <1>1, <1>2 DEF SerialInv, OneWriter, Writing
<1> QED
  BY <1>3 DEF OneWriter, ReadsHold, Writing
Frozen == status = "final" => status' = "final" /\ UNCHANGED <<rows, current>>

LEMMA AppendSerial ==
  ASSUME SerialInv, NEW a \in Actors, CommitAppend(a) \/ CommitAccept(a), Done(a)
  PROVE  OneWriter' /\ ReadsHold' /\ NumberedHistory' /\ Frozen
<1> DEFINE c == request[a].section
<1>1. request[a].op \in {"append", "accept"} /\ AppendVersion(a) /\ Inv
  BY DEF CommitAppend, CommitAccept, SerialInv
<1>2. OneWriter' /\ ReadsHold'
  BY <1>1, DoneSerial DEF Writing
<1>3. status = "draft" /\ request[a].no = current[c] + 1
  BY <1>1 DEF SerialInv, ReadsHold
<1>4. /\ c \in Sections
      /\ NewRow(a) \in Row /\ NewRow(a).no = request[a].no
      /\ rows'[c] = Append(rows[c], NewRow(a)) /\ current'[c] = request[a].no
      /\ \A d \in Sections \ {c} : rows'[d] = rows[d] /\ current'[d] = current[d]
  BY <1>1, AppendVersionRows
<1>5. /\ rows[c] \in Seq(Row) /\ current[c] \in Nat
      /\ Len(rows[c]) = current[c]
      /\ \A i \in DOMAIN rows[c] : rows[c][i].no = i
  BY <1>4 DEF SerialInv, NumberedHistory, Inv, TypeOK
<1> HIDE DEF c
<1>6. Len(rows'[c]) = current'[c] /\ \A i \in DOMAIN rows'[c] : rows'[c][i].no = i
  <2>1. Len(rows'[c]) = Len(rows[c]) + 1 /\ DOMAIN rows'[c] = 1..(Len(rows[c]) + 1)
    BY <1>4, <1>5
  <2>2. \A i \in 1..Len(rows[c]) : rows'[c][i] = rows[c][i]
    BY <1>4, <1>5
  <2>3. rows'[c][Len(rows[c]) + 1] = NewRow(a)
    BY <1>4, <1>5
  <2> QED
    BY <1>3, <1>4, <1>5, <2>1, <2>2, <2>3
<1>7. NumberedHistory'
  BY <1>4, <1>6 DEF SerialInv, NumberedHistory
<1> QED
  BY <1>2, <1>3, <1>7 DEF Frozen

LEMMA AutosaveSerial ==
  ASSUME SerialInv, NEW a \in Actors, CommitAutosave(a), Done(a), UNCHANGED texts
  PROVE  OneWriter' /\ ReadsHold' /\ NumberedHistory' /\ Frozen
<1>1. request[a].op = "autosave" /\ UNCHANGED current /\ Inv
  BY DEF CommitAutosave, SerialInv
<1>2. OneWriter' /\ ReadsHold'
  BY <1>1, DoneSerial DEF Writing
<1>3. Frozen
  BY <1>1 DEF SerialInv, ReadsHold, Frozen
<1>4. /\ Inv'
      /\ \A d \in Sections : Len(rows'[d]) = Len(rows[d])
      /\ \A d \in Sections : \A i \in DOMAIN rows[d] : rows'[d][i].no = rows[d][i].no
  BY <1>1, CommitAutosaveInv
<1>5. \A d \in Sections : DOMAIN rows'[d] = DOMAIN rows[d]
  <2> SUFFICES ASSUME NEW d \in Sections PROVE DOMAIN rows'[d] = DOMAIN rows[d]
    OBVIOUS
  <2>1. rows[d] \in Seq(Row) /\ rows'[d] \in Seq(Row) /\ Len(rows'[d]) = Len(rows[d])
    BY <1>1, <1>4 DEF Inv, TypeOK
  <2> QED
    BY <2>1
<1>6. NumberedHistory'
  BY <1>1, <1>4, <1>5 DEF SerialInv, NumberedHistory
<1> QED
  BY <1>2, <1>3, <1>6

LEMMA AddSerial ==
  ASSUME SerialInv, NEW a \in Actors, CommitAdd(a), Done(a), UNCHANGED texts
  PROVE  OneWriter' /\ ReadsHold' /\ NumberedHistory' /\ Frozen
<1> DEFINE c == request[a].section
<1>1. request[a].op = "add" /\ Inv
  BY DEF CommitAdd, SerialInv
<1>2. OneWriter' /\ ReadsHold'
  BY <1>1, DoneSerial DEF Writing
<1>3. Frozen
  BY <1>1 DEF SerialInv, ReadsHold, Frozen
<1>4. /\ Inv' /\ c \in Sections /\ current'[c] = 1
      /\ Len(rows'[c]) = 1 /\ rows'[c][1].no = 1
      /\ \A d \in Sections \ {c} : rows'[d] = rows[d] /\ current'[d] = current[d]
  BY <1>1, CommitAddInv
<1>5. rows'[c] \in Seq(Row)
  BY <1>4 DEF Inv, TypeOK
<1> HIDE DEF c
<1>6. DOMAIN rows'[c] = {1}
  BY <1>4, <1>5
<1>7. NumberedHistory'
  BY <1>4, <1>6 DEF SerialInv, NumberedHistory
<1> QED
  BY <1>2, <1>3, <1>7

LEMMA RejectOrFinaliseSerial ==
  ASSUME SerialInv, NEW a \in Actors, CommitReject(a) \/ CommitFinalise(a), Done(a)
  PROVE  OneWriter' /\ ReadsHold' /\ NumberedHistory' /\ Frozen
<1>1. request[a].op \in {"reject", "finalise"} /\ UNCHANGED <<rows, current>>
  BY DEF CommitReject, CommitFinalise
<1>2. OneWriter' /\ ReadsHold'
  BY <1>1, DoneSerial DEF Writing
<1>3. NumberedHistory'
  BY <1>1 DEF SerialInv, NumberedHistory
<1>4. Frozen
  BY <1>1 DEF CommitReject, CommitFinalise, Frozen
<1> QED
  BY <1>2, <1>3, <1>4

\* Steps after which nobody is writing who was not before.
LEMMA ReadOnlySerial ==
  ASSUME SerialInv, NEW a \in Actors, UNCHANGED <<status, current, rows>>,
         UNCHANGED request \/ Done(a)
  PROVE  OneWriter' /\ ReadsHold' /\ NumberedHistory' /\ Frozen
<1>1. request \in [Actors -> Requests] /\ NoRequest.op = "none"
  BY DEF SerialInv, Inv, TypeOK, NoRequest
<1>2. \A b \in Actors : request'[b] = request[b] \/ request'[b].op = "none"
  BY <1>1 DEF Done
<1>3. OneWriter'
  BY <1>2 DEF SerialInv, OneWriter, Writing
<1>4. ReadsHold'
  BY <1>2 DEF SerialInv, ReadsHold
<1>5. NumberedHistory' /\ Frozen
  BY DEF SerialInv, NumberedHistory, Frozen
<1> QED
  BY <1>3, <1>4, <1>5

LEMMA SerialStep ==
  ASSUME Serialised, SerialInv, [Next]_vars
  PROVE  SerialInv' /\ Frozen
<1>1. Inv'
  BY InvStep DEF SerialInv
<1>2. OneWriter' /\ ReadsHold' /\ NumberedHistory' /\ Frozen
  <2>1. CASE UNCHANGED vars
    BY <2>1 DEF vars, SerialInv, OneWriter, ReadsHold, NumberedHistory, Writing, Frozen
  <2>2. CASE \E e \in Editors : \E c \in Present : Open(e, c)
    BY <2>2, ReadOnlySerial DEF Open, Actors
  <2>3. CASE \E e \in Editors : \E c \in Present : BeginChat(e, c)
    BY <2>3, BeginSerial DEF BeginChat, Actors, Frozen
  <2>4. CASE \E e \in Editors : \E named \in BOOLEAN : BeginEdit(e, named)
    <3>1. PICK e \in Editors, named \in BOOLEAN : BeginEdit(e, named)
      BY <2>4
    <3>2. e \in Actors /\ status = "draft"
      BY <3>1 DEF BeginEdit, Editable, Actors, SerialInv, Inv, TypeOK
    <3>3. PICK r : /\ Begin(e, r)
                   /\ r.op \in {"append", "autosave"}
                   /\ r.op = "append" => r.no = current[r.section] + 1
      BY <3>1 DEF BeginEdit
    <3> QED
      BY <3>2, <3>3, BeginSerial DEF Frozen
  <2>5. CASE \E e \in Editors : \E g \in DOMAIN suggestions : BeginAccept(e, g)
    <3>1. PICK e \in Editors, g \in DOMAIN suggestions : BeginAccept(e, g)
      BY <2>5
    <3>2. e \in Actors /\ status = "draft" /\ Begin(e, Proposal(g))
      BY <3>1 DEF BeginAccept, Editable, Actors, SerialInv, Inv, TypeOK
    <3>3. Proposal(g).op = "accept" /\ Proposal(g).no = current[Proposal(g).section] + 1
      BY DEF Proposal
    <3> QED
      BY <3>2, <3>3, BeginSerial DEF Frozen
  <2>6. CASE \E e \in Editors : \E g \in DOMAIN suggestions : BeginReject(e, g)
    BY <2>6, BeginSerial DEF BeginReject, Actors, Frozen
  <2>7. CASE \E e \in Editors : BeginFinalise(e)
    <3>1. PICK e \in Editors : BeginFinalise(e)
      BY <2>7
    <3>2. e \in Actors /\ status = "draft" /\ Begin(e, [op |-> "finalise"])
      BY <3>1 DEF BeginFinalise, Editable, Actors, SerialInv, Inv, TypeOK
    <3> QED
      BY <3>2, BeginSerial DEF Frozen
  <2>8. CASE \E e \in Editors : CommitChat(e)
    BY <2>8, ReadOnlySerial DEF CommitChat, Actors
  <2>9. CASE \E c \in Sections : BeginRegenerate(c) \/ BeginAdd(c)
    <3>1. PICK c \in Sections : BeginRegenerate(c) \/ BeginAdd(c)
      BY <2>9
    <3>2. Pipeline \in Actors /\ status = "draft"
      BY <3>1 DEF BeginRegenerate, BeginAdd, Editable, Actors, SerialInv, Inv, TypeOK
    <3>3. PICK r : /\ Begin(Pipeline, r)
                   /\ r.op \in {"append", "add"}
                   /\ r.op = "append" => r.no = current[r.section] + 1
      BY <3>1 DEF BeginRegenerate, BeginAdd
    <3> QED
      BY <3>2, <3>3, BeginSerial DEF Frozen
  <2>10. CASE \E a \in Actors : Commit(a)
    BY <2>10, AppendSerial, AutosaveSerial, AddSerial, RejectOrFinaliseSerial DEF Commit
  <2>11. CASE \E a \in Actors : Abandon(a)
    BY <2>11, ReadOnlySerial DEF Abandon
  <2> QED
    BY <2>1, <2>2, <2>3, <2>4, <2>5, <2>6, <2>7, <2>8, <2>9, <2>10, <2>11 DEF Next
<1> QED
  BY <1>1, <1>2 DEF SerialInv

\* As long as short requests do not overlap, the history of every section is
\* numbered without gaps and duplicates, whatever chats are in progress.
THEOREM HistoryNumbered == Serialised => (Spec => []NumberedHistory)
<1> SUFFICES ASSUME Serialised PROVE Spec => []NumberedHistory
  OBVIOUS
<1>1. SerialInv /\ [Next]_vars => SerialInv'
  BY SerialStep
<1>2. SerialInv => NumberedHistory
  BY DEF SerialInv
<1> QED
  BY <1>1, <1>2, SerialInit, PTL DEF Spec

\* Under the same proviso the text of a final CAM never changes, also when a
\* chat that began before the sign-off ends after it.
THEOREM FinalCamIsFrozen == Serialised => (Spec => FinalIsFrozen)
<1> SUFFICES ASSUME Serialised PROVE Spec => FinalIsFrozen
  OBVIOUS
<1>1. SerialInv /\ [Next]_vars => SerialInv'
  BY SerialStep
<1>2. SerialInv /\ [Next]_vars
        => [status = "final" => status' = "final" /\ UNCHANGED <<rows, current>>]_vars
  BY SerialStep DEF Frozen
<1> QED
  BY <1>1, <1>2, SerialInit, PTL DEF Spec, FinalIsFrozen

-----------------------------------------------------------------------------
(* What the history holds, when short requests do not overlap *)

\* what an editor saved last is a row of its own, with the text it was saved with
SavesStand ==
  \A e \in Editors : saved[e] # NoView =>
    LET c == saved[e].section
        n == saved[e].no
    IN /\ n \in DOMAIN rows[c]
       /\ rows[c][n].author = e
       /\ rows[c][n].text = saved[e].text

Proposed(t) == \E g \in DOMAIN suggestions : suggestions[g].text = t

\* texts are numbered as they are written: no proposal is made twice
TextsAreNew ==
  /\ \A c \in Sections : \A i \in DOMAIN rows[c] : rows[c][i].text <= texts
  /\ \A g \in DOMAIN suggestions : 0 < suggestions[g].text /\ suggestions[g].text <= texts
  /\ \A g, h \in DOMAIN suggestions : suggestions[g].text = suggestions[h].text => g = h

\* a proposal is in the history only as a version that an acceptance made, never as one that
\* an autosave may overwrite
ProposalsKeepTheirSource ==
  \A c \in Sections : \A i \in DOMAIN rows[c] :
    Proposed(rows[c][i].text) => rows[c][i].source = "chat_suggestion"

\* version i of section c is the one that holds the text
HoldsOnly(c, i, t) ==
  /\ i \in DOMAIN rows[c]
  /\ rows[c][i].text = t
  /\ \A d \in Sections : \A k \in DOMAIN rows[d] : rows[d][k].text = t => d = c /\ k = i

HoldsNowhere(t) == \A c \in Sections : \A i \in DOMAIN rows[c] : rows[c][i].text # t

AcceptedOnce ==
  \A g \in DOMAIN suggestions :
    IF suggestions[g].status = "accepted"
    THEN \E c \in Sections : \E i \in Nat : HoldsOnly(c, i, suggestions[g].text)
    ELSE HoldsNowhere(suggestions[g].text)

\* what a request in progress is going to write: an autosave overwrites a row of its editor,
\* a new text is no proposal, and what is decided is still pending
WillWrite(a, r) ==
  /\ r.op = "autosave" => /\ rows[r.section][r.row].author = a
                          /\ rows[r.section][r.row].source = "manual"
  /\ r.op \in {"append", "autosave", "add"} => r.text <= texts /\ ~Proposed(r.text)
  /\ r.op \in {"accept", "reject"} => suggestions[r.suggestion].status = "pending"
  /\ r.op = "accept" => /\ r.text = suggestions[r.suggestion].text
                        /\ r.source = "chat_suggestion"

WritesArePrepared == \A a \in Actors : WillWrite(a, request[a])

HistoryInv ==
  /\ SavesStand
  /\ TextsAreNew
  /\ ProposalsKeepTheirSource
  /\ AcceptedOnce
  /\ WritesArePrepared

LEMMA HistoryInit == Init => HistoryInv
<1> SUFFICES ASSUME Init PROVE HistoryInv
  OBVIOUS
<1>1. SavesStand
  BY DEF Init, SavesStand
<1>2. DOMAIN suggestions = {}
  BY DEF Init
<1>3. \A c \in Sections : \A i \in DOMAIN rows[c] : rows[c][i].text = 0
  BY DEF Init
<1>4. TextsAreNew
  BY <1>2, <1>3 DEF Init, TextsAreNew
<1>5. ProposalsKeepTheirSource /\ AcceptedOnce
  BY <1>2 DEF ProposalsKeepTheirSource, Proposed, AcceptedOnce
<1>6. WritesArePrepared
  BY DEF Init, WritesArePrepared, WillWrite, NoRequest
<1> QED
  BY <1>1, <1>4, <1>5, <1>6 DEF HistoryInv

\* the types of what the invariant compares
LEMMA HistoryTypes ==
  ASSUME Inv
  PROVE  /\ texts \in Nat
         /\ \A c \in Sections :
              /\ rows[c] \in Seq(Row)
              /\ DOMAIN rows[c] = 1..Len(rows[c]) /\ Len(rows[c]) \in Nat
              /\ \A i \in DOMAIN rows[c] : rows[c][i] \in Row /\ rows[c][i].text \in Nat
         /\ \A g \in DOMAIN suggestions :
              suggestions[g] \in Suggestion /\ suggestions[g].text \in Nat
<1>1. texts \in Nat /\ rows \in [Sections -> Seq(Row)] /\ suggestions \in Seq(Suggestion)
  BY DEF Inv, TypeOK
<1>2. ASSUME NEW c \in Sections
      PROVE  /\ rows[c] \in Seq(Row)
             /\ DOMAIN rows[c] = 1..Len(rows[c]) /\ Len(rows[c]) \in Nat
             /\ \A i \in DOMAIN rows[c] : rows[c][i] \in Row /\ rows[c][i].text \in Nat
  <2>1. /\ rows[c] \in Seq(Row)
        /\ DOMAIN rows[c] = 1..Len(rows[c]) /\ Len(rows[c]) \in Nat
        /\ \A i \in DOMAIN rows[c] : rows[c][i] \in Row
    BY <1>1
  <2>2. \A r \in Row : r.text \in Nat
    BY DEF Row
  <2> QED
    BY <2>1, <2>2
<1> QED
  BY <1>1, <1>2, SuggestionFields

\* A request that begins, or ends without writing, leaves the history and the proposals.
LEMMA QuietHistory ==
  ASSUME Inv, HistoryInv, UNCHANGED <<rows, suggestions, saved>>,
         texts' \in Nat, texts <= texts',
         \A a \in Actors : \/ request'[a] = request[a]
                           \/ request'[a].op \in {"none", "chat", "finalise"}
                           \/ WillWrite(a, request[a])'
  PROVE  HistoryInv'
<1>1. \A t : Proposed(t)' <=> Proposed(t)
  BY DEF Proposed
<1>2. SavesStand' /\ ProposalsKeepTheirSource' /\ AcceptedOnce'
  BY <1>1 DEF HistoryInv, SavesStand, ProposalsKeepTheirSource, AcceptedOnce, HoldsOnly,
     HoldsNowhere
<1>3. TextsAreNew'
  BY HistoryTypes DEF HistoryInv, TextsAreNew
<1>4. ASSUME NEW a \in Actors, request'[a] = request[a] PROVE WillWrite(a, request[a])'
  <2>1. WillWrite(a, request[a])
    BY DEF HistoryInv, WritesArePrepared
  <2>2. request[a].op \in {"append", "autosave", "add"} => request[a].text \in Nat
    BY RequestFields DEF Inv, TypeOK
  <2>3. request[a].op \in {"append", "autosave", "add"} => request[a].text <= texts'
    BY <2>1, <2>2, HistoryTypes DEF WillWrite
  <2> QED
    BY <1>1, <1>4, <2>1, <2>3 DEF WillWrite
<1>5. WritesArePrepared'
  BY <1>4 DEF WritesArePrepared, WillWrite
<1> QED
  BY <1>2, <1>3, <1>5 DEF HistoryInv

\* When a short request commits, or a chat does, nothing is being written.
LEMMA NothingToWrite ==
  ASSUME \A a \in Actors : request'[a].op \in {"none", "chat"}
  PROVE  WritesArePrepared'
  BY DEF WritesArePrepared, WillWrite

LEMMA DoneIsQuiet ==
  ASSUME SerialInv, NEW a \in Actors, Done(a), Writing(a)
  PROVE  \A b \in Actors : request'[b].op \in {"none", "chat"}
<1>1. request \in [Actors -> Requests] /\ NoRequest.op = "none"
  BY DEF SerialInv, Inv, TypeOK, NoRequest
<1>2. \A b \in Actors : request'[b] = IF b = a THEN NoRequest ELSE request[b]
  BY <1>1 DEF Done
<1> QED
  BY <1>1, <1>2 DEF SerialInv, OneWriter, Writing

\* A version joins the history of a section: a new text, or a pending proposal that is
\* accepted by it.
LEMMA AppendedHistory ==
  ASSUME Inv, HistoryInv, NEW c \in Sections, NEW r \in Row,
         rows' = [rows EXCEPT ![c] = Append(rows[c], r)], UNCHANGED texts,
         r.text <= texts,
         \A e \in Editors : \/ saved'[e] = saved[e]
                            \/ /\ saved'[e] = [section |-> c, no |-> Len(rows[c]) + 1,
                                               text |-> r.text]
                               /\ r.author = e,
         \/ UNCHANGED suggestions /\ ~Proposed(r.text)
         \/ \E g \in DOMAIN suggestions :
              /\ suggestions[g].status = "pending"
              /\ r.text = suggestions[g].text /\ r.source = "chat_suggestion"
              /\ suggestions' = [suggestions EXCEPT ![g].status = "accepted"],
         WritesArePrepared'
  PROVE  HistoryInv'
<1>0. PICK n \in Nat : n = Len(rows[c]) + 1
  BY HistoryTypes
<1>1. /\ rows \in [Sections -> Seq(Row)] /\ rows[c] \in Seq(Row)
      /\ DOMAIN rows[c] = 1..Len(rows[c]) /\ Len(rows[c]) \in Nat
  BY HistoryTypes DEF Inv, TypeOK
<1>2. /\ Append(rows[c], r) \in Seq(Row)
      /\ DOMAIN Append(rows[c], r) = 1..n
      /\ \A i \in 1..Len(rows[c]) : Append(rows[c], r)[i] = rows[c][i]
      /\ Append(rows[c], r)[n] = r
  BY <1>0, <1>1
<1>3. rows'[c] = Append(rows[c], r) /\ \A d \in Sections \ {c} : rows'[d] = rows[d]
  BY <1>1
<1>4. /\ n \notin DOMAIN rows[c] /\ n \in DOMAIN rows'[c] /\ rows'[c][n] = r /\ n \in Nat
      /\ \A i \in 1..n : i \in 1..Len(rows[c]) \/ i = n
  BY <1>0, <1>1, <1>2, <1>3
<1>5. \A d \in Sections : \A k \in DOMAIN rows[d] :
        k \in DOMAIN rows'[d] /\ rows'[d][k] = rows[d][k]
  BY <1>0, <1>1, <1>2, <1>3
<1>6. \A d \in Sections : \A k \in DOMAIN rows'[d] :
        \/ k \in DOMAIN rows[d] /\ rows'[d][k] = rows[d][k]
        \/ d = c /\ k = n /\ rows'[d][k] = r
  BY <1>1, <1>2, <1>3, <1>4
<1>7. SavesStand'
  <2> SUFFICES ASSUME NEW e \in Editors, saved'[e] # NoView
               PROVE  /\ saved'[e].no \in DOMAIN rows'[saved'[e].section]
                      /\ rows'[saved'[e].section][saved'[e].no].author = e
                      /\ rows'[saved'[e].section][saved'[e].no].text = saved'[e].text
    BY DEF SavesStand
  <2>1. CASE saved'[e] = saved[e]
    <3>1. saved[e].section \in Sections
      BY <2>1 DEF Inv, TypeOK, Document
    <3>2. /\ saved[e].no \in DOMAIN rows[saved[e].section]
          /\ rows[saved[e].section][saved[e].no].author = e
          /\ rows[saved[e].section][saved[e].no].text = saved[e].text
      BY <2>1 DEF HistoryInv, SavesStand
    <3> QED
      BY <1>5, <2>1, <3>1, <3>2
  <2>2. CASE saved'[e] # saved[e]
    <3>1. /\ saved'[e] = [section |-> c, no |-> n, text |-> r.text]
          /\ r.author = e
      BY <1>0, <2>2
    <3> QED
      BY <1>4, <3>1
  <2> QED
    BY <2>1, <2>2
<1>8. /\ DOMAIN suggestions' = DOMAIN suggestions
      /\ \A h \in DOMAIN suggestions : suggestions'[h].text = suggestions[h].text
      /\ \A h \in DOMAIN suggestions :
           \/ suggestions'[h].status = suggestions[h].status /\ suggestions[h].text # r.text
           \/ /\ suggestions[h].status = "pending" /\ suggestions'[h].status = "accepted"
              /\ suggestions[h].text = r.text
      /\ Proposed(r.text) => r.source = "chat_suggestion"
  <2>1. CASE UNCHANGED suggestions /\ ~Proposed(r.text)
    BY <2>1 DEF Proposed
  <2>2. CASE ~(UNCHANGED suggestions /\ ~Proposed(r.text))
    <3>1. PICK g \in DOMAIN suggestions :
            /\ suggestions[g].status = "pending"
            /\ r.text = suggestions[g].text /\ r.source = "chat_suggestion"
            /\ suggestions' = [suggestions EXCEPT ![g].status = "accepted"]
      BY <2>2
    <3>2. /\ suggestions \in Seq(Suggestion)
          /\ suggestions[g] \in Suggestion
      BY SuggestionFields DEF Inv, TypeOK
    <3> DEFINE v == [suggestions[g] EXCEPT !.status = "accepted"]
    <3>3. v.status = "accepted" /\ v.text = suggestions[g].text
      BY <3>2 DEF Suggestion
    <3>4. suggestions' = [suggestions EXCEPT ![g] = v]
      BY <3>1
    <3> HIDE DEF v
    <3>5. /\ DOMAIN suggestions' = DOMAIN suggestions
          /\ \A h \in DOMAIN suggestions :
               suggestions'[h] = IF h = g THEN v ELSE suggestions[h]
      BY <3>2, <3>4
    <3>6. \A h \in DOMAIN suggestions : suggestions[h].text = suggestions[g].text => h = g
      BY DEF HistoryInv, TextsAreNew
    <3> QED
      BY <3>1, <3>3, <3>5, <3>6
  <2> QED
    BY <2>1, <2>2
<1>9. TextsAreNew'
  BY <1>6, <1>8 DEF HistoryInv, TextsAreNew
<1>10. \A t : Proposed(t)' <=> Proposed(t)
  BY <1>8 DEF Proposed
<1>11. ProposalsKeepTheirSource'
  BY <1>6, <1>8, <1>10 DEF HistoryInv, ProposalsKeepTheirSource
<1>12. AcceptedOnce'
  <2>1. ASSUME NEW h \in DOMAIN suggestions, NEW t, t = suggestions[h].text
        PROVE  IF suggestions'[h].status = "accepted"
               THEN \E d \in Sections : \E k \in Nat : HoldsOnly(d, k, t)'
               ELSE HoldsNowhere(t)'
    <3>1. IF suggestions[h].status = "accepted"
          THEN \E d \in Sections : \E k \in Nat : HoldsOnly(d, k, t)
          ELSE HoldsNowhere(t)
      BY <2>1 DEF HistoryInv, AcceptedOnce
    <3>2. CASE suggestions'[h].status = suggestions[h].status /\ t # r.text
      <4>1. ASSUME NEW d \in Sections, NEW k \in Nat, HoldsOnly(d, k, t)
            PROVE  HoldsOnly(d, k, t)'
        BY <1>5, <1>6, <3>2, <4>1 DEF HoldsOnly
      <4>2. HoldsNowhere(t) => HoldsNowhere(t)'
        BY <1>6, <3>2 DEF HoldsNowhere
      <4> QED
        BY <3>1, <3>2, <4>1, <4>2
    <3>3. CASE /\ suggestions[h].status = "pending" /\ suggestions'[h].status = "accepted"
               /\ t = r.text
      <4>1. HoldsNowhere(t)
        BY <3>1, <3>3
      <4>2. HoldsOnly(c, n, t)'
        BY <1>4, <1>6, <3>3, <4>1 DEF HoldsOnly, HoldsNowhere
      <4> QED
        BY <1>4, <3>3, <4>2
    <3> QED
      BY <1>8, <2>1, <3>2, <3>3
  <2> QED
    BY <1>8, <2>1 DEF AcceptedOnce
<1> QED
  BY <1>7, <1>9, <1>11, <1>12 DEF HistoryInv

\* Coalescing an autosave changes the text of a row of the editor who saves, from one text
\* that is no proposal to another.
LEMMA AutosavedHistory ==
  ASSUME SerialInv, HistoryInv, NEW a \in Actors, CommitAutosave(a), Done(a), UNCHANGED texts
  PROVE  HistoryInv'
<1>0. Inv /\ request[a] \in Requests /\ request[a].op = "autosave"
  BY DEF SerialInv, Inv, TypeOK, CommitAutosave
<1>1. PICK c \in Sections, i \in Nat : c = request[a].section /\ i = request[a].row
  BY <1>0, RequestFields
<1>2. PICK text \in Nat : text = request[a].text
  BY <1>0, RequestFields
<1>3. /\ i \in DOMAIN rows[c] /\ a \in Editors
      /\ \A d \in Sections : DOMAIN rows'[d] = DOMAIN rows[d]
      /\ \A d \in Sections : \A k \in DOMAIN rows[d] :
           d # c \/ k # i => rows'[d][k] = rows[d][k]
      /\ rows'[c][i] = [rows[c][i] EXCEPT !.text = text]
      /\ rows[c][i] \in Row
  BY <1>0, <1>1, <1>2, AutosavedRows
<1>4. /\ rows[c][i].author = a /\ rows[c][i].source = "manual"
      /\ text <= texts /\ ~Proposed(text)
  BY <1>0, <1>1, <1>2 DEF HistoryInv, WritesArePrepared, WillWrite
<1>5. rows[c][i].no = i
  BY <1>3 DEF SerialInv, NumberedHistory
<1>6. /\ rows'[c][i].author = a /\ rows'[c][i].text = text
      /\ rows'[c][i].source = "manual"
  BY <1>3, <1>4 DEF Row
<1>7. ~Proposed(rows[c][i].text)
  BY <1>3, <1>4 DEF HistoryInv, ProposalsKeepTheirSource
<1>8. /\ UNCHANGED suggestions
      /\ saved' = [saved EXCEPT ![a] = [section |-> c, no |-> i, text |-> text]]
  BY <1>1, <1>2, <1>3, <1>5 DEF CommitAutosave, Confirm
<1>9. \A t : Proposed(t)' <=> Proposed(t)
  BY <1>8 DEF Proposed
<1>10. SavesStand'
  <2> SUFFICES ASSUME NEW e \in Editors, saved'[e] # NoView
               PROVE  /\ saved'[e].no \in DOMAIN rows'[saved'[e].section]
                      /\ rows'[saved'[e].section][saved'[e].no].author = e
                      /\ rows'[saved'[e].section][saved'[e].no].text = saved'[e].text
    BY DEF SavesStand
  <2>0. saved \in [Editors -> {NoView} \cup Document]
    BY <1>0 DEF Inv, TypeOK
  <2>1. CASE e = a
    <3>1. saved'[e] = [section |-> c, no |-> i, text |-> text]
      BY <1>8, <2>0, <2>1
    <3>2. saved'[e].section = c /\ saved'[e].no = i /\ saved'[e].text = text
      BY <3>1
    <3>3. i \in DOMAIN rows'[c] /\ rows'[c][i].author = e /\ rows'[c][i].text = text
      BY <1>3, <1>6, <2>1
    <3> QED
      BY <3>2, <3>3
  <2>2. CASE e # a
    <3>1. saved'[e] = saved[e]
      BY <1>8, <2>0, <2>2
    <3>2. saved[e].section \in Sections
      BY <2>0, <3>1 DEF Document
    <3>3. /\ saved[e].no \in DOMAIN rows[saved[e].section]
          /\ rows[saved[e].section][saved[e].no].author = e
          /\ rows[saved[e].section][saved[e].no].text = saved[e].text
      BY <3>1 DEF HistoryInv, SavesStand
    <3>4. PICK d \in Sections : d = saved[e].section
      BY <3>2
    <3>5. PICK k \in DOMAIN rows[d] : k = saved[e].no
      BY <3>3, <3>4
    <3>6. rows[d][k].author = e /\ rows[d][k].text = saved[e].text
      BY <3>3, <3>4, <3>5
    <3>7. d # c \/ k # i
      BY <1>4, <2>2, <3>6
    <3>8. k \in DOMAIN rows'[d] /\ rows'[d][k] = rows[d][k]
      BY <1>3, <3>7
    <3> QED
      BY <3>1, <3>4, <3>5, <3>6, <3>8
  <2> QED
    BY <2>1, <2>2
<1>11. TextsAreNew'
  <2>1. ASSUME NEW d \in Sections, NEW k \in DOMAIN rows[d] PROVE rows'[d][k].text <= texts
    <3>1. CASE d = c /\ k = i
      BY <1>4, <1>6, <3>1
    <3>2. CASE d # c \/ k # i
      BY <1>3, <3>2 DEF HistoryInv, TextsAreNew
    <3> QED
      BY <3>1, <3>2
  <2> QED
    BY <1>3, <1>8, <2>1 DEF HistoryInv, TextsAreNew
<1>12. ProposalsKeepTheirSource'
  <2> SUFFICES ASSUME NEW d \in Sections, NEW k \in DOMAIN rows[d], Proposed(rows'[d][k].text)
               PROVE  rows'[d][k].source = "chat_suggestion"
    BY <1>3, <1>9 DEF ProposalsKeepTheirSource
  <2>1. d # c \/ k # i
    BY <1>4, <1>6
  <2>2. rows'[d][k] = rows[d][k]
    BY <1>3, <2>1
  <2> QED
    BY <2>2 DEF HistoryInv, ProposalsKeepTheirSource
<1>13. \A t : Proposed(t) =>
         /\ HoldsNowhere(t) => HoldsNowhere(t)'
         /\ \A d \in Sections : \A k \in Nat : HoldsOnly(d, k, t) => HoldsOnly(d, k, t)'
  <2> SUFFICES ASSUME NEW t, Proposed(t)
               PROVE  /\ HoldsNowhere(t) => HoldsNowhere(t)'
                      /\ \A d \in Sections : \A k \in Nat :
                           HoldsOnly(d, k, t) => HoldsOnly(d, k, t)'
    OBVIOUS
  <2>1. t # text /\ t # rows[c][i].text
    BY <1>4, <1>7
  <2>2. \A d \in Sections : \A k \in DOMAIN rows[d] : rows'[d][k].text = t <=> rows[d][k].text = t
    BY <1>3, <1>6, <2>1
  <2> QED
    BY <1>3, <2>2 DEF HoldsNowhere, HoldsOnly
<1>14. AcceptedOnce'
  BY <1>8, <1>13 DEF HistoryInv, AcceptedOnce, Proposed
<1>15. WritesArePrepared'
  BY <1>0, DoneIsQuiet, NothingToWrite DEF Writing
<1> QED
  BY <1>10, <1>11, <1>12, <1>14, <1>15 DEF HistoryInv

\* A proposal that arrives is new; one that is rejected was pending.
LEMMA ProposedHistory ==
  ASSUME SerialInv, HistoryInv, Serialised, NEW e \in Editors, CommitChat(e)
  PROVE  HistoryInv'
<1> DEFINE g == [section |-> request[e].section, text |-> texts + 1, status |-> "pending"]
           n == Len(suggestions) + 1
<1>0. Inv /\ texts \in Nat /\ suggestions \in Seq(Suggestion)
  BY DEF SerialInv, Inv, TypeOK
<1>1. /\ texts' = texts + 1 /\ suggestions' = Append(suggestions, g)
      /\ UNCHANGED <<rows, saved>> /\ Done(e)
  BY DEF CommitChat, WriteText
<1>2. g.text = texts + 1 /\ g.status = "pending"
  OBVIOUS
<1> HIDE DEF g
<1>3. /\ DOMAIN suggestions' = 1..n /\ DOMAIN suggestions = 1..Len(suggestions)
      /\ \A h \in DOMAIN suggestions : suggestions'[h] = suggestions[h]
      /\ suggestions'[n] = g /\ n \in Nat
      /\ \A h \in 1..n : h \in 1..Len(suggestions) \/ h = n
      /\ \A h \in DOMAIN suggestions : h \in DOMAIN suggestions'
  BY <1>0, <1>1
<1> HIDE DEF n
<1>4. /\ \A c \in Sections : \A i \in DOMAIN rows[c] :
           rows[c][i].text \in Nat /\ rows[c][i].text <= texts
      /\ \A h \in DOMAIN suggestions :
           /\ suggestions[h].text \in Nat
           /\ 0 < suggestions[h].text /\ suggestions[h].text <= texts
      /\ \A h, k \in DOMAIN suggestions : suggestions[h].text = suggestions[k].text => h = k
  BY <1>0, HistoryTypes DEF HistoryInv, TextsAreNew
<1>5. SavesStand'
  BY <1>1 DEF HistoryInv, SavesStand
<1>6. TextsAreNew'
  <2>1. \A h \in DOMAIN suggestions' :
          \/ h \in DOMAIN suggestions /\ suggestions'[h] = suggestions[h]
          \/ h = n /\ suggestions'[h].text = texts + 1
    BY <1>2, <1>3
  <2>2. \A c \in Sections : \A i \in DOMAIN rows'[c] : rows'[c][i].text <= texts'
    BY <1>0, <1>1, <1>4
  <2>3. \A h \in DOMAIN suggestions' : 0 < suggestions'[h].text /\ suggestions'[h].text <= texts'
    BY <1>0, <1>1, <1>4, <2>1
  <2>4. \A h, k \in DOMAIN suggestions' : suggestions'[h].text = suggestions'[k].text => h = k
    BY <1>0, <1>4, <2>1
  <2> QED
    BY <2>2, <2>3, <2>4 DEF TextsAreNew
<1>7. HoldsNowhere(texts + 1)
  BY <1>0, <1>4 DEF HoldsNowhere
<1>8. \A t : Proposed(t)' => Proposed(t) \/ t = texts + 1
  BY <1>2, <1>3 DEF Proposed
<1>9. ProposalsKeepTheirSource'
  BY <1>1, <1>7, <1>8 DEF HistoryInv, ProposalsKeepTheirSource, HoldsNowhere
<1>10. /\ \A t : HoldsNowhere(t)' <=> HoldsNowhere(t)
       /\ \A c, i, t : HoldsOnly(c, i, t)' <=> HoldsOnly(c, i, t)
  BY <1>1 DEF HoldsNowhere, HoldsOnly
<1>11. AcceptedOnce'
  <2>1. ASSUME NEW h \in DOMAIN suggestions', NEW t, t = suggestions'[h].text
        PROVE  IF suggestions'[h].status = "accepted"
               THEN \E c \in Sections : \E i \in Nat : HoldsOnly(c, i, t)'
               ELSE HoldsNowhere(t)'
    <3>1. CASE h \in DOMAIN suggestions
      BY <1>3, <1>10, <2>1, <3>1 DEF HistoryInv, AcceptedOnce
    <3>2. CASE h = n
      BY <1>2, <1>3, <1>7, <1>10, <2>1, <3>2
    <3> QED
      BY <1>3, <3>1, <3>2
  <2> QED
    BY <2>1 DEF AcceptedOnce
<1>12. WritesArePrepared'
  <2>1. \A b \in Actors \ {e} : request[b].op \in {"none", "chat"}
    BY DEF CommitChat, MayCommit
  <2>2. request \in [Actors -> Requests] /\ e \in Actors /\ NoRequest.op = "none"
    BY <1>0 DEF Inv, TypeOK, Actors, NoRequest
  <2>3. \A b \in Actors : request'[b].op \in {"none", "chat"}
    BY <1>1, <2>1, <2>2 DEF Done
  <2> QED
    BY <2>3, NothingToWrite
<1> QED
  BY <1>5, <1>6, <1>9, <1>11, <1>12 DEF HistoryInv

LEMMA RejectedHistory ==
  ASSUME SerialInv, HistoryInv, NEW a \in Actors, CommitReject(a), Done(a), UNCHANGED texts
  PROVE  HistoryInv'
<1>0. Inv /\ request[a].op = "reject"
  BY DEF SerialInv, CommitReject
<1>1. PICK g \in DOMAIN suggestions : g = request[a].suggestion
  BY <1>0 DEF Inv, Anchored
<1>2. suggestions[g].status = "pending"
  BY <1>0, <1>1 DEF HistoryInv, WritesArePrepared, WillWrite
<1>3. /\ suggestions' = [suggestions EXCEPT ![g].status = "rejected"]
      /\ UNCHANGED <<rows, saved>>
  BY <1>1 DEF CommitReject
<1>4. /\ DOMAIN suggestions' = DOMAIN suggestions
      /\ \A h \in DOMAIN suggestions :
           /\ suggestions'[h].text = suggestions[h].text
           /\ suggestions'[h].status = "accepted" <=> suggestions[h].status = "accepted"
  <2> DEFINE v == [suggestions[g] EXCEPT !.status = "rejected"]
  <2>1. suggestions \in Seq(Suggestion) /\ suggestions[g] \in Suggestion
    BY <1>0, SuggestionFields DEF Inv, TypeOK
  <2>2. v.status = "rejected" /\ v.text = suggestions[g].text
    BY <2>1 DEF Suggestion
  <2>3. suggestions' = [suggestions EXCEPT ![g] = v]
    BY <1>3
  <2> HIDE DEF v
  <2>4. \A h \in DOMAIN suggestions : suggestions'[h] = IF h = g THEN v ELSE suggestions[h]
    BY <2>1, <2>3
  <2> QED
    BY <1>2, <2>1, <2>2, <2>3, <2>4
<1>5. \A t : Proposed(t)' <=> Proposed(t)
  BY <1>4 DEF Proposed
<1>6. /\ \A t : HoldsNowhere(t)' <=> HoldsNowhere(t)
      /\ \A c, i, t : HoldsOnly(c, i, t)' <=> HoldsOnly(c, i, t)
  BY <1>3 DEF HoldsNowhere, HoldsOnly
<1>7. SavesStand' /\ ProposalsKeepTheirSource'
  BY <1>3, <1>5 DEF HistoryInv, SavesStand, ProposalsKeepTheirSource
<1>8. TextsAreNew'
  BY <1>3, <1>4 DEF HistoryInv, TextsAreNew
<1>9. AcceptedOnce'
  BY <1>4, <1>6 DEF HistoryInv, AcceptedOnce
<1>10. WritesArePrepared'
  BY <1>0, DoneIsQuiet, NothingToWrite DEF Writing
<1> QED
  BY <1>7, <1>8, <1>9, <1>10 DEF HistoryInv

LEMMA AppendStep ==
  ASSUME SerialInv, HistoryInv, NEW a \in Actors, CommitAppend(a) \/ CommitAccept(a),
         Done(a), UNCHANGED texts
  PROVE  HistoryInv'
<1>0. /\ request[a].op \in {"append", "accept"} /\ AppendVersion(a) /\ Inv
      /\ request[a] \in Requests /\ saved \in [Editors -> {NoView} \cup Document]
  BY DEF CommitAppend, CommitAccept, SerialInv, Inv, TypeOK
<1>1. PICK c \in Sections : c = request[a].section
  BY <1>0, RequestFields
<1>2. PICK r \in Row : r = NewRow(a)
  BY <1>0, AppendVersionRows
<1>3. /\ rows' = [rows EXCEPT ![c] = Append(rows[c], r)]
      /\ r.text = request[a].text /\ r.author = a /\ r.source = request[a].source
  BY <1>0, <1>1, <1>2 DEF AppendVersion, NewRow
<1>4. request[a].no = Len(rows[c]) + 1
  BY <1>0, <1>1 DEF SerialInv, ReadsHold, NumberedHistory
<1>5. WritesArePrepared'
  BY <1>0, DoneIsQuiet, NothingToWrite DEF Writing
<1>6. WillWrite(a, request[a])
  BY DEF HistoryInv, WritesArePrepared
<1>7. CASE CommitAppend(a)
  <2>1. request[a].op = "append" /\ UNCHANGED suggestions
    BY <1>7 DEF CommitAppend
  <2>2. r.text <= texts /\ ~Proposed(r.text)
    BY <1>3, <1>6, <2>1 DEF WillWrite
  <2>3. \A e \in Editors : \/ saved'[e] = saved[e]
                           \/ /\ saved'[e] = [section |-> c, no |-> Len(rows[c]) + 1,
                                              text |-> r.text]
                              /\ r.author = e
    BY <1>0, <1>1, <1>3, <1>4, <1>7 DEF CommitAppend, Confirm
  <2> QED
    BY <1>0, <1>3, <1>5, <2>1, <2>2, <2>3, AppendedHistory
<1>8. CASE CommitAccept(a)
  <2>1. request[a].op = "accept" /\ UNCHANGED saved
    BY <1>8 DEF CommitAccept
  <2>2. PICK g \in DOMAIN suggestions : g = request[a].suggestion
    BY <1>0, <2>1 DEF Inv, Anchored
  <2>3. /\ suggestions[g].status = "pending"
        /\ r.text = suggestions[g].text /\ r.source = "chat_suggestion"
    BY <1>3, <1>6, <2>1, <2>2 DEF WillWrite
  <2>4. suggestions' = [suggestions EXCEPT ![g].status = "accepted"]
    BY <1>8, <2>2 DEF CommitAccept
  <2>5. r.text <= texts
    BY <2>3 DEF HistoryInv, TextsAreNew
  <2> QED
    BY <1>0, <1>3, <1>5, <2>1, <2>3, <2>4, <2>5, AppendedHistory
<1> QED
  BY <1>7, <1>8

LEMMA AddStep ==
  ASSUME SerialInv, HistoryInv, NEW a \in Actors, CommitAdd(a), Done(a), UNCHANGED texts
  PROVE  HistoryInv'
<1>0. /\ request[a].op = "add" /\ Inv /\ request[a] \in Requests
      /\ rows \in [Sections -> Seq(Row)]
  BY DEF CommitAdd, SerialInv, Inv, TypeOK
<1>1. PICK c \in Sections : c = request[a].section
  BY <1>0, RequestFields
<1>2. PICK text \in Nat : text = request[a].text
  BY <1>0, RequestFields
<1> DEFINE r == [no |-> 1, text |-> text, source |-> "generated", author |-> a,
                 named |-> FALSE]
<1>3. r \in Row /\ r.text = text
  BY DEF Row, Sources
<1>4. rows' = [rows EXCEPT ![c] = <<r>>] /\ UNCHANGED <<suggestions, saved>>
  BY <1>1, <1>2 DEF CommitAdd
<1>5. current[c] = 0
  BY <1>0, <1>1 DEF Inv, Anchored
<1>6. rows[c] \in Seq(Row) /\ Len(rows[c]) = 0
  BY <1>0, <1>5 DEF SerialInv, NumberedHistory
<1> HIDE DEF r
<1>7. Append(rows[c], r) = <<r>>
  <2>1. rows[c] = << >>
    BY <1>6
  <2>2. Append(<< >>, r) = <<r>>
    OBVIOUS
  <2> QED
    BY <2>1, <2>2
<1>8. rows' = [rows EXCEPT ![c] = Append(rows[c], r)]
  BY <1>4, <1>7
<1>9. WillWrite(a, request[a])
  BY DEF HistoryInv, WritesArePrepared
<1>10. r.text <= texts /\ ~Proposed(r.text)
  BY <1>0, <1>2, <1>3, <1>9 DEF WillWrite
<1>11. WritesArePrepared'
  BY <1>0, DoneIsQuiet, NothingToWrite DEF Writing
<1> QED
  BY <1>0, <1>3, <1>4, <1>8, <1>10, <1>11, AppendedHistory

\* A request that begins is prepared for what it is going to write.
LEMMA BegunHistory ==
  ASSUME Inv, HistoryInv, NEW a \in Actors, NEW r, Begin(a, r),
         texts' \in Nat, texts <= texts',
         \/ r.op \in {"none", "chat", "finalise"}
         \/ /\ r.op = "autosave" => /\ rows[r.section][r.row].author = a
                                    /\ rows[r.section][r.row].source = "manual"
            /\ r.op \in {"append", "autosave", "add"} => r.text = texts' /\ texts' = texts + 1
            /\ r.op \in {"accept", "reject"} => r.suggestion \in Pending
            /\ r.op = "accept" => /\ r.text = suggestions[r.suggestion].text
                                  /\ r.source = "chat_suggestion"
  PROVE  HistoryInv'
<1>1. /\ UNCHANGED <<rows, suggestions, saved>>
      /\ \A b \in Actors : request'[b] = IF b = a THEN r ELSE request[b]
  BY DEF Begin, Inv, TypeOK
<1>2. ~Proposed(texts + 1)
  BY HistoryTypes DEF HistoryInv, TextsAreNew, Proposed
<1>3. \A t : Proposed(t)' <=> Proposed(t)
  BY <1>1 DEF Proposed
<1>4. r.op \in {"none", "chat", "finalise"} \/ WillWrite(a, request[a])'
  BY <1>1, <1>2, <1>3 DEF WillWrite, Pending
<1> QED
  BY <1>1, <1>4, QuietHistory

LEMMA HistoryStep ==
  ASSUME Serialised, SerialInv, HistoryInv, [Next]_vars
  PROVE  HistoryInv'
<1>0. Inv /\ texts \in Nat /\ request \in [Actors -> Requests]
  BY DEF SerialInv, Inv, TypeOK
<1>1. CASE UNCHANGED vars
  BY <1>0, <1>1, QuietHistory DEF vars
<1>2. CASE \E e \in Editors : \E c \in Present : Open(e, c)
  BY <1>0, <1>2, QuietHistory DEF Open
<1>3. CASE \E e \in Editors : \E c \in Present : BeginChat(e, c)
  BY <1>0, <1>3, BegunHistory DEF BeginChat, Actors
<1>4. CASE \E e \in Editors : \E named \in BOOLEAN : BeginEdit(e, named)
  <2>1. PICK e \in Editors, named \in BOOLEAN : BeginEdit(e, named)
    BY <1>4
  <2>2. e \in Actors /\ texts' = texts + 1 /\ texts' \in Nat /\ texts <= texts'
    BY <1>0, <2>1 DEF Actors, BeginEdit, WriteText
  <2>3. PICK r : /\ Begin(e, r)
                 /\ r.op \in {"append", "autosave"} /\ r.text = texts + 1
                 /\ r.op = "autosave" => /\ rows[r.section][r.row].author = e
                                         /\ rows[r.section][r.row].source = "manual"
    BY <2>1 DEF BeginEdit, Autosaves
  <2> QED
    BY <1>0, <2>2, <2>3, BegunHistory
<1>5. CASE \E e \in Editors : \E g \in DOMAIN suggestions : BeginAccept(e, g)
  <2>1. PICK e \in Editors, g \in DOMAIN suggestions : BeginAccept(e, g)
    BY <1>5
  <2>2. e \in Actors /\ texts' = texts /\ texts <= texts'
    BY <1>0, <2>1 DEF Actors, BeginAccept
  <2>3. Begin(e, Proposal(g)) /\ g \in Pending
    BY <2>1 DEF BeginAccept
  <2>4. /\ Proposal(g).op = "accept" /\ Proposal(g).suggestion = g
        /\ Proposal(g).text = suggestions[g].text /\ Proposal(g).source = "chat_suggestion"
    BY DEF Proposal
  <2> QED
    BY <1>0, <2>2, <2>3, <2>4, BegunHistory
<1>6. CASE \E e \in Editors : \E g \in DOMAIN suggestions : BeginReject(e, g)
  <2>1. PICK e \in Editors, g \in DOMAIN suggestions : BeginReject(e, g)
    BY <1>6
  <2>2. e \in Actors /\ texts' = texts /\ texts <= texts'
    BY <1>0, <2>1 DEF Actors, BeginReject
  <2>3. Begin(e, [op |-> "reject", suggestion |-> g]) /\ g \in Pending
    BY <2>1 DEF BeginReject
  <2> QED
    BY <1>0, <2>2, <2>3, BegunHistory
<1>7. CASE \E e \in Editors : BeginFinalise(e)
  BY <1>0, <1>7, BegunHistory DEF BeginFinalise, Actors
<1>8. CASE \E e \in Editors : CommitChat(e)
  BY <1>8, ProposedHistory
<1>9. CASE \E c \in Sections : BeginRegenerate(c) \/ BeginAdd(c)
  <2>1. PICK c \in Sections : BeginRegenerate(c) \/ BeginAdd(c)
    BY <1>9
  <2>2. Pipeline \in Actors /\ texts' = texts + 1 /\ texts' \in Nat /\ texts <= texts'
    BY <1>0, <2>1 DEF Actors, BeginRegenerate, BeginAdd, WriteText
  <2>3. PICK r : /\ Begin(Pipeline, r)
                 /\ r.op \in {"append", "add"} /\ r.text = texts + 1
    BY <2>1 DEF BeginRegenerate, BeginAdd
  <2> QED
    BY <1>0, <2>2, <2>3, BegunHistory
<1>10. CASE \E a \in Actors : Commit(a)
  <2>1. PICK a \in Actors : Commit(a)
    BY <1>10
  <2>2. Done(a) /\ UNCHANGED texts
    BY <2>1 DEF Commit
  <2>3. CASE CommitFinalise(a)
    <3>1. UNCHANGED <<rows, suggestions, saved>>
      BY <2>3 DEF CommitFinalise
    <3>2. \A b \in Actors : request'[b] = request[b] \/ request'[b].op = "none"
      BY <1>0, <2>2 DEF Done, NoRequest
    <3> QED
      BY <1>0, <2>2, <3>1, <3>2, QuietHistory
  <2> QED
    BY <2>1, <2>2, <2>3, AppendStep, AutosavedHistory, AddStep, RejectedHistory DEF Commit
<1>11. CASE \E a \in Actors : Abandon(a)
  <2>1. PICK a \in Actors : Abandon(a)
    BY <1>11
  <2>2. UNCHANGED <<rows, suggestions, saved, texts>>
    BY <2>1 DEF Abandon
  <2>3. \A b \in Actors : request'[b] = request[b] \/ request'[b].op = "none"
    BY <1>0, <2>1 DEF Abandon, Done, NoRequest
  <2> QED
    BY <1>0, <2>2, <2>3, QuietHistory
<1> QED
  BY <1>1, <1>2, <1>3, <1>4, <1>5, <1>6, <1>7, <1>8, <1>9, <1>10, <1>11 DEF Next

LEMMA HistoryHolds == Serialised => (Spec => [](SerialInv /\ HistoryInv))
<1> SUFFICES ASSUME Serialised PROVE Spec => [](SerialInv /\ HistoryInv)
  OBVIOUS
<1>1. SerialInv /\ HistoryInv /\ [Next]_vars => SerialInv' /\ HistoryInv'
  BY SerialStep, HistoryStep
<1> QED
  BY <1>1, SerialInit, HistoryInit, PTL DEF Spec

\* When short requests do not overlap, what an editor last saved under a version number is
\* what that number stands for, whoever edits, regenerates or accepts meanwhile: an autosave
\* overwrites only rows of the editor who saves (edit_section).
THEOREM SavesStayRetrievable == Serialised => (Spec => []SavesAreRetrievable)
<1> SUFFICES ASSUME Serialised PROVE Spec => []SavesAreRetrievable
  OBVIOUS
<1>1. ASSUME SerialInv, HistoryInv PROVE SavesAreRetrievable
  <2> SUFFICES ASSUME NEW e \in Editors, saved[e] # NoView,
                      NEW i \in DOMAIN rows[saved[e].section],
                      rows[saved[e].section][i].no = saved[e].no
               PROVE  rows[saved[e].section][i].text = saved[e].text
    BY DEF SavesAreRetrievable
  <2>1. saved[e].section \in Sections
    BY <1>1 DEF SerialInv, Inv, TypeOK, Document
  <2>2. i = saved[e].no
    BY <1>1, <2>1 DEF SerialInv, NumberedHistory
  <2> QED
    BY <1>1, <2>2 DEF HistoryInv, SavesStand
<1> QED
  BY <1>1, HistoryHolds, PTL

\* On the same proviso a proposal of the model is in the document once if it was accepted and
\* nowhere otherwise, also after edits of the section it is about (accept_suggestion).
THEOREM SuggestionsLeaveTheirTrace == Serialised => (Spec => []SuggestionsLeaveOneTrace)
<1> SUFFICES ASSUME Serialised PROVE Spec => []SuggestionsLeaveOneTrace
  OBVIOUS
<1>1. ASSUME SerialInv, HistoryInv PROVE SuggestionsLeaveOneTrace
  <2> SUFFICES ASSUME NEW g \in DOMAIN suggestions
               PROVE  Cardinality(Traces(suggestions[g].text))
                        = IF suggestions[g].status = "accepted" THEN 1 ELSE 0
    BY DEF SuggestionsLeaveOneTrace
  <2> DEFINE t == suggestions[g].text
  <2>1. CASE suggestions[g].status = "accepted"
    <3>1. PICK c \in Sections, i \in Nat : HoldsOnly(c, i, t)
      BY <1>1, <2>1 DEF HistoryInv, AcceptedOnce
    <3>2. Traces(t) = {<<c, i>>}
      BY <3>1 DEF Traces, HoldsOnly
    <3> QED
      BY <2>1, <3>2, FS_Singleton
  <2>2. CASE suggestions[g].status # "accepted"
    <3>1. HoldsNowhere(t)
      BY <1>1, <2>2 DEF HistoryInv, AcceptedOnce
    <3>2. Traces(t) = {}
      BY <3>1 DEF Traces, HoldsNowhere
    <3> QED
      BY <2>2, <3>2, FS_EmptySet
  <2> QED
    BY <2>1, <2>2
<1> QED
  BY <1>1, HistoryHolds, PTL
-----------------------------------------------------------------------------
(* The abstract document *)

\* what a request in progress is going to do to the document: who writes, that the row
\* an autosave rewrites is still the last one and unnamed, and that a text is new
WillKeep(a, r) ==
  /\ r.op = "append" => \/ r.source = "manual" /\ a \in Editors
                        \/ r.source = "regeneration" /\ a = Pipeline /\ r.named = FALSE
  /\ r.op = "accept" => /\ a \in Editors /\ r.named = FALSE
                        /\ r.section = suggestions[r.suggestion].section
  /\ r.op = "autosave" => /\ r.row = Len(rows[r.section])
                          /\ ~rows[r.section][r.row].named
  /\ r.op \in {"append", "autosave", "add"} => HoldsNowhere(r.text)

KeepInv == texts <= MaxTexts /\ \A a \in Actors : WillKeep(a, request[a])

DocumentInv == SerialInv /\ HistoryInv /\ KeepInv

LEMMA KeepInit == Init => KeepInv
<1> SUFFICES ASSUME Init PROVE KeepInv
  OBVIOUS
<1>1. texts <= MaxTexts
  BY EditorAssumption DEF Init
<1>2. \A a \in Actors : request[a].op = "none"
  BY DEF Init, NoRequest
<1> QED
  BY <1>1, <1>2 DEF KeepInv, WillKeep

\* A request that begins, or ends without writing a version.
LEMMA QuietKeep ==
  ASSUME Inv, KeepInv, UNCHANGED <<rows, suggestions>>, texts' <= MaxTexts,
         \A a \in Actors : \/ request'[a] = request[a]
                           \/ request'[a].op \in {"none", "chat", "finalise", "reject"}
                           \/ WillKeep(a, request'[a])
  PROVE  KeepInv'
<1>1. ASSUME NEW a \in Actors PROVE WillKeep(a, request[a])'
  <2>1. CASE request'[a] = request[a]
    <3>1. WillKeep(a, request[a])
      BY DEF KeepInv
    <3> QED
      BY <2>1, <3>1 DEF WillKeep, HoldsNowhere
  <2>2. CASE request'[a].op \in {"none", "chat", "finalise", "reject"}
    BY <2>2 DEF WillKeep
  <2>3. CASE WillKeep(a, request'[a])
    BY <2>3 DEF WillKeep, HoldsNowhere
  <2> QED
    BY <1>1, <2>1, <2>2, <2>3
<1> QED
  BY <1>1 DEF KeepInv

LEMMA BegunKeep ==
  ASSUME Inv, KeepInv, NEW a \in Actors, NEW r, Begin(a, r), texts' <= MaxTexts,
         r.op \in {"none", "chat", "finalise", "reject"} \/ WillKeep(a, r)
  PROVE  KeepInv'
<1>1. /\ UNCHANGED <<rows, suggestions>>
      /\ \A b \in Actors : request'[b] = IF b = a THEN r ELSE request[b]
  BY DEF Begin, Inv, TypeOK
<1> QED
  BY <1>1, QuietKeep

\* Nobody prepares a write any more.
LEMMA NothingToKeep ==
  ASSUME KeepInv, UNCHANGED texts \/ texts' <= MaxTexts,
         \A a \in Actors : request'[a].op \in {"none", "chat"}
  PROVE  KeepInv'
  BY DEF KeepInv, WillKeep

\* A text that is written next is in no version.
LEMMA NextTextIsNew ==
  ASSUME Inv, HistoryInv
  PROVE  /\ HoldsNowhere(texts + 1)
         /\ \A g \in DOMAIN suggestions : suggestions[g].text # texts + 1
<1>1. /\ texts \in Nat
      /\ \A c \in Sections : \A i \in DOMAIN rows[c] :
           rows[c][i].text \in Nat /\ rows[c][i].text <= texts
      /\ \A g \in DOMAIN suggestions :
           suggestions[g].text \in Nat /\ suggestions[g].text <= texts
  BY HistoryTypes DEF HistoryInv, TextsAreNew
<1>2. \A t \in Nat : t <= texts => t # texts + 1
  BY <1>1
<1>3. HoldsNowhere(texts + 1)
  BY <1>1, <1>2 DEF HoldsNowhere
<1> QED
  BY <1>1, <1>2, <1>3

LEMMA KeepStep ==
  ASSUME Serialised, DocumentInv, [Next]_vars
  PROVE  KeepInv'
<1>0. /\ SerialInv /\ HistoryInv /\ KeepInv /\ Inv
      /\ texts \in Nat /\ texts <= MaxTexts /\ MaxTexts \in Nat
      /\ request \in [Actors -> Requests]
  BY EditorAssumption DEF DocumentInv, SerialInv, Inv, TypeOK, KeepInv
<1>1. CASE UNCHANGED vars
  BY <1>0, <1>1, QuietKeep DEF vars
<1>2. CASE \E e \in Editors : \E c \in Present : Open(e, c)
  BY <1>0, <1>2, QuietKeep DEF Open
<1>3. CASE \E e \in Editors : \E c \in Present : BeginChat(e, c)
  BY <1>0, <1>3, BegunKeep DEF BeginChat, Actors
<1>4. CASE \E e \in Editors : \E named \in BOOLEAN : BeginEdit(e, named)
  <2>1. PICK e \in Editors, named \in BOOLEAN : BeginEdit(e, named)
    BY <1>4
  <2>2. e \in Actors /\ texts' <= MaxTexts /\ HoldsNowhere(texts + 1)
    BY <1>0, <2>1, NextTextIsNew DEF Actors, BeginEdit, WriteText
  <2>3. view[e].no # 0 => view[e].section \in Sections
    BY <1>0 DEF Inv, TypeOK, NoView, Document
  <2>4. PICK c \in Sections : \E i \in Heads(c) :
          IF Autosaves(rows[c][i], e, named)
          THEN Begin(e, [op |-> "autosave", section |-> c, row |-> i, text |-> texts + 1])
          ELSE Begin(e, [op |-> "append", section |-> c, no |-> current[c] + 1,
                         source |-> "manual", named |-> named, text |-> texts + 1])
    BY <2>1, <2>3 DEF BeginEdit
  <2>5. PICK i \in Heads(c) :
          IF Autosaves(rows[c][i], e, named)
          THEN Begin(e, [op |-> "autosave", section |-> c, row |-> i, text |-> texts + 1])
          ELSE Begin(e, [op |-> "append", section |-> c, no |-> current[c] + 1,
                         source |-> "manual", named |-> named, text |-> texts + 1])
    BY <2>4
  <2>6. i = Len(rows[c])
    BY <1>0 DEF Heads, SerialInv, NumberedHistory
  <2>7. CASE Autosaves(rows[c][i], e, named)
    <3>1. ~rows[c][i].named
      BY <2>7 DEF Autosaves
    <3>2. WillKeep(e, [op |-> "autosave", section |-> c, row |-> i, text |-> texts + 1])
      BY <2>2, <2>6, <3>1 DEF WillKeep
    <3> QED
      BY <1>0, <2>2, <2>5, <2>7, <3>2, BegunKeep
  <2>8. CASE ~Autosaves(rows[c][i], e, named)
    <3>1. WillKeep(e, [op |-> "append", section |-> c, no |-> current[c] + 1,
                       source |-> "manual", named |-> named, text |-> texts + 1])
      BY <2>2 DEF WillKeep
    <3> QED
      BY <1>0, <2>2, <2>5, <2>8, <3>1, BegunKeep
  <2> QED
    BY <2>7, <2>8
<1>5. CASE \E e \in Editors : \E g \in DOMAIN suggestions : BeginAccept(e, g)
  <2>1. PICK e \in Editors, g \in DOMAIN suggestions : BeginAccept(e, g)
    BY <1>5
  <2>2. e \in Actors /\ texts' <= MaxTexts /\ Begin(e, Proposal(g))
    BY <1>0, <2>1 DEF Actors, BeginAccept
  <2>3. WillKeep(e, Proposal(g))
    BY <2>1 DEF WillKeep, Proposal
  <2> QED
    BY <1>0, <2>2, <2>3, BegunKeep
<1>6. CASE \E e \in Editors : \E g \in DOMAIN suggestions : BeginReject(e, g)
  BY <1>0, <1>6, BegunKeep DEF BeginReject, Actors
<1>7. CASE \E e \in Editors : BeginFinalise(e)
  BY <1>0, <1>7, BegunKeep DEF BeginFinalise, Actors
<1>8. CASE \E e \in Editors : CommitChat(e)
  <2>1. PICK e \in Editors : CommitChat(e)
    BY <1>8
  <2>2. \A b \in Actors \ {e} : request[b].op \in {"none", "chat"}
    BY <2>1 DEF CommitChat, MayCommit
  <2>3. e \in Actors /\ NoRequest.op = "none"
    BY DEF Actors, NoRequest
  <2>4. \A b \in Actors : request'[b].op \in {"none", "chat"}
    BY <1>0, <2>1, <2>2, <2>3 DEF CommitChat, Done
  <2>5. texts' <= MaxTexts
    BY <1>0, <2>1 DEF CommitChat, WriteText
  <2> QED
    BY <1>0, <2>4, <2>5, NothingToKeep
<1>9. CASE \E c \in Sections : BeginRegenerate(c) \/ BeginAdd(c)
  <2>1. PICK c \in Sections : BeginRegenerate(c) \/ BeginAdd(c)
    BY <1>9
  <2>2. Pipeline \in Actors /\ texts' <= MaxTexts /\ HoldsNowhere(texts + 1)
    BY <1>0, <2>1, NextTextIsNew DEF Actors, BeginRegenerate, BeginAdd, WriteText
  <2>3. WillKeep(Pipeline, [op |-> "append", section |-> c, no |-> current[c] + 1,
                            source |-> "regeneration", named |-> FALSE, text |-> texts + 1])
    BY <2>2 DEF WillKeep
  <2>4. WillKeep(Pipeline, [op |-> "add", section |-> c, text |-> texts + 1])
    BY <2>2 DEF WillKeep
  <2> QED
    BY <1>0, <2>1, <2>2, <2>3, <2>4, BegunKeep DEF BeginRegenerate, BeginAdd
<1>10. CASE \E a \in Actors : Commit(a)
  <2>1. PICK a \in Actors : Commit(a)
    BY <1>10
  <2>2. Done(a) /\ texts' = texts /\ Writing(a)
    BY <2>1 DEF Commit, Writing, CommitAppend, CommitAutosave, CommitAdd, CommitAccept,
                CommitReject, CommitFinalise
  <2>3. \A b \in Actors : request'[b].op \in {"none", "chat"}
    BY <1>0, <2>2, DoneIsQuiet
  <2> QED
    BY <1>0, <2>2, <2>3, NothingToKeep
<1>11. CASE \E a \in Actors : Abandon(a)
  <2>1. PICK a \in Actors : Abandon(a)
    BY <1>11
  <2>2. UNCHANGED <<rows, suggestions, texts>>
    BY <2>1 DEF Abandon
  <2>3. \A b \in Actors : request'[b] = request[b] \/ request'[b].op = "none"
    BY <1>0, <2>1 DEF Abandon, Done, NoRequest
  <2> QED
    BY <1>0, <2>2, <2>3, QuietKeep
<1> QED
  BY <1>1, <1>2, <1>3, <1>4, <1>5, <1>6, <1>7, <1>8, <1>9, <1>10, <1>11 DEF Next

\* A text that is written now is new to the document.
LEMMA WrittenTextIsNew ==
  ASSUME DocumentInv, NEW a \in Actors, request[a].op \in {"append", "autosave", "add"}
  PROVE  /\ CamDoc!IsNew(request[a].text)
         /\ request[a].text \in 0..MaxTexts
<1>1. /\ WillWrite(a, request[a]) /\ WillKeep(a, request[a]) /\ Inv
      /\ texts \in Nat /\ texts <= MaxTexts /\ MaxTexts \in Nat
      /\ request[a] \in Requests
  BY EditorAssumption
  DEF DocumentInv, HistoryInv, WritesArePrepared, KeepInv, SerialInv, Inv, TypeOK
<1>2. request[a].text \in Nat /\ request[a].text <= texts
  BY <1>1, RequestFields DEF WillWrite
<1>3. HoldsNowhere(request[a].text) /\ ~Proposed(request[a].text)
  BY <1>1 DEF WillWrite, WillKeep
<1> QED
  BY <1>1, <1>2, <1>3 DEF CamDoc!IsNew, HoldsNowhere, Proposed

\* The section that a request writes to exists, and its last version is the current one.
LEMMA WrittenSectionExists ==
  ASSUME DocumentInv, NEW a \in Actors, request[a].op \in {"append", "autosave", "chat", "accept"}
  PROVE  /\ request[a].section \in Sections
         /\ rows[request[a].section] # <<>>
         /\ CamDoc!Exists(request[a].section)
<1>1. Inv /\ request[a] \in Requests /\ rows \in [Sections -> Seq(Row)]
  BY DEF DocumentInv, SerialInv, Inv, TypeOK
<1>2. PICK c \in Sections : c = request[a].section
  BY <1>1, RequestFields
<1>3. current[c] # 0
  BY <1>1, <1>2 DEF Inv, Anchored
<1>4. Len(rows[c]) # 0
  BY <1>3 DEF DocumentInv, SerialInv, NumberedHistory
<1>5. Len(<< >>) = 0
  OBVIOUS
<1>6. rows[c] # << >>
  BY <1>4, <1>5
<1> QED
  BY <1>2, <1>6 DEF CamDoc!Exists

LEMMA AppendKeepsDocument ==
  ASSUME DocumentInv, NEW a \in Actors, CommitAppend(a) \/ CommitAccept(a)
  PROVE  CamDoc!Next
<1> DEFINE c == request[a].section
<1>1. /\ request[a].op \in {"append", "accept"} /\ AppendVersion(a) /\ UNCHANGED status /\ Inv
      /\ request[a] \in Requests
  BY DEF CommitAppend, CommitAccept, DocumentInv, SerialInv, Inv, TypeOK
<1>2. /\ c \in Sections /\ CamDoc!Exists(c)
      /\ status = "draft"
      /\ request[a].no = Len(rows[c]) + 1
      /\ request[a].named \in BOOLEAN
  BY <1>1, WrittenSectionExists, RequestFields
  DEF DocumentInv, SerialInv, ReadsHold, NumberedHistory
<1>3. NewRow(a) = CamDoc!Version(Len(rows[c]) + 1, request[a].text, request[a].source, a,
                                 request[a].named)
  BY <1>2 DEF NewRow, CamDoc!Version
<1>4. CamDoc!Extend(c, request[a].text, request[a].source, a, request[a].named)
  BY <1>1, <1>2, <1>3 DEF AppendVersion, CamDoc!Extend
<1>5. WillKeep(a, request[a]) /\ WillWrite(a, request[a])
  BY DEF DocumentInv, KeepInv, HistoryInv, WritesArePrepared
<1> HIDE DEF c
<1>6. CASE CommitAppend(a)
  <2>1. request[a].op = "append" /\ UNCHANGED suggestions
    BY <1>6 DEF CommitAppend
  <2>2. CamDoc!IsNew(request[a].text) /\ request[a].text \in 0..MaxTexts
    BY <2>1, WrittenTextIsNew
  <2>3. CASE request[a].source = "manual" /\ a \in Editors
    <3>1. CamDoc!Save(a, c, request[a].text, request[a].named)
      BY <1>2, <1>4, <2>1, <2>2, <2>3 DEF CamDoc!Save
    <3> QED
      BY <1>2, <2>2, <2>3, <3>1 DEF CamDoc!Next
  <2>4. CASE request[a].source = "regeneration" /\ a = Pipeline /\ request[a].named = FALSE
    <3>1. CamDoc!Redraft(c, request[a].text)
      BY <1>2, <1>4, <2>1, <2>2, <2>4 DEF CamDoc!Redraft
    <3> QED
      BY <1>2, <2>2, <3>1 DEF CamDoc!Next
  <2> QED
    BY <1>5, <2>1, <2>3, <2>4 DEF WillKeep
<1>7. CASE CommitAccept(a)
  <2>1. request[a].op = "accept"
    BY <1>7 DEF CommitAccept
  <2>2. PICK g \in DOMAIN suggestions : g = request[a].suggestion
    BY <1>1, <2>1 DEF Inv, Anchored
  <2>3. /\ suggestions[g].status = "pending"
        /\ request[a].text = suggestions[g].text /\ request[a].source = "chat_suggestion"
        /\ a \in Editors /\ request[a].named = FALSE
        /\ request[a].section = suggestions[g].section
    BY <1>5, <2>1, <2>2 DEF WillWrite, WillKeep
  <2>4. CamDoc!Decide(g, "accepted")
    BY <1>7, <2>2, <2>3 DEF CommitAccept, CamDoc!Decide
  <2>5. CamDoc!Accept(a, g)
    BY <1>4, <2>3, <2>4 DEF CamDoc!Accept, c
  <2> QED
    BY <2>3, <2>5 DEF CamDoc!Next
<1> QED
  BY <1>6, <1>7

LEMMA AutosaveKeepsDocument ==
  ASSUME DocumentInv, NEW a \in Actors, CommitAutosave(a)
  PROVE  CamDoc!Next
<1> DEFINE c == request[a].section
           t == request[a].text
<1>1. /\ request[a].op = "autosave" /\ UNCHANGED <<status, suggestions>> /\ Inv
      /\ rows' = [rows EXCEPT ![c][request[a].row].text = t]
  BY DEF CommitAutosave, DocumentInv, SerialInv
<1>2. /\ c \in Sections /\ CamDoc!Exists(c) /\ status = "draft" /\ a \in Editors
      /\ CamDoc!IsNew(t) /\ t \in 0..MaxTexts
  BY <1>1, WrittenSectionExists, WrittenTextIsNew
  DEF DocumentInv, SerialInv, ReadsHold, Inv, Anchored
<1>3. WillKeep(a, request[a]) /\ WillWrite(a, request[a])
  BY DEF DocumentInv, KeepInv, HistoryInv, WritesArePrepared
<1>4. /\ request[a].row = Len(rows[c])
      /\ ~rows[c][Len(rows[c])].named
      /\ rows[c][Len(rows[c])].author = a /\ rows[c][Len(rows[c])].source = "manual"
  BY <1>1, <1>3 DEF WillKeep, WillWrite
<1> HIDE DEF c, t
<1>5. CamDoc!Amend(a, c, t)
  BY <1>1, <1>2, <1>4 DEF CamDoc!Amend, CamDoc!LastOf
<1> QED
  BY <1>2, <1>5 DEF CamDoc!Next

LEMMA AddKeepsDocument ==
  ASSUME DocumentInv, NEW a \in Actors, CommitAdd(a)
  PROVE  CamDoc!Next
<1> DEFINE c == request[a].section
           t == request[a].text
           r == [no |-> 1, text |-> t, source |-> "generated", author |-> a, named |-> FALSE]
<1>1. /\ request[a].op = "add" /\ UNCHANGED <<status, suggestions>> /\ Inv
      /\ rows' = [rows EXCEPT ![c] = <<r>>]
      /\ request[a] \in Requests
  BY DEF CommitAdd, DocumentInv, SerialInv, Inv, TypeOK
<1>2. /\ c \in Sections /\ status = "draft" /\ a = Pipeline /\ current[c] = 0
      /\ CamDoc!IsNew(t) /\ t \in 0..MaxTexts
  BY <1>1, RequestFields, WrittenTextIsNew
  DEF DocumentInv, SerialInv, ReadsHold, Inv, Anchored
<1>3. rows[c] = << >>
  BY <1>1, <1>2 DEF DocumentInv, SerialInv, NumberedHistory, Inv, TypeOK
<1>4. r = CamDoc!Version(Len(rows[c]) + 1, t, "generated", Pipeline, FALSE)
  BY <1>2, <1>3 DEF CamDoc!Version
<1> HIDE DEF c, t, r
<1>5. <<r>> = Append(rows[c], r)
  BY <1>3
<1>6. CamDoc!Extend(c, t, "generated", Pipeline, FALSE)
  BY <1>1, <1>2, <1>4, <1>5 DEF CamDoc!Extend
<1>7. CamDoc!Redraft(c, t)
  BY <1>1, <1>2, <1>3, <1>6 DEF CamDoc!Redraft, CamDoc!Exists
<1> QED
  BY <1>2, <1>7 DEF CamDoc!Next

LEMMA DecisionKeepsDocument ==
  ASSUME DocumentInv, NEW a \in Actors, CommitReject(a) \/ CommitFinalise(a)
  PROVE  CamDoc!Next
<1>1. CASE CommitReject(a)
  <2>1. request[a].op = "reject" /\ UNCHANGED <<rows, status>> /\ Inv
    BY <1>1 DEF CommitReject, DocumentInv, SerialInv
  <2>2. PICK g \in DOMAIN suggestions : g = request[a].suggestion
    BY <2>1 DEF Inv, Anchored
  <2>3. WillWrite(a, request[a])
    BY DEF DocumentInv, HistoryInv, WritesArePrepared
  <2>4. CamDoc!Reject(g)
    BY <1>1, <2>1, <2>2, <2>3 DEF WillWrite, CommitReject, CamDoc!Reject, CamDoc!Decide
  <2> QED
    BY <2>4 DEF CamDoc!Next
<1>2. CASE CommitFinalise(a)
  <2>1. status = "draft" /\ status' = "final" /\ UNCHANGED <<rows, suggestions>>
    BY <1>2 DEF CommitFinalise, DocumentInv, SerialInv, ReadsHold
  <2>2. CamDoc!SignOff
    BY <2>1 DEF CamDoc!SignOff
  <2> QED
    BY <2>2 DEF CamDoc!Next
<1> QED
  BY <1>1, <1>2

LEMMA ChatKeepsDocument ==
  ASSUME DocumentInv, NEW e \in Editors, CommitChat(e)
  PROVE  CamDoc!Next
<1>1. e \in Actors /\ request[e].op = "chat" /\ Inv /\ HistoryInv /\ texts \in Nat
  BY DEF Actors, CommitChat, DocumentInv, SerialInv, Inv, TypeOK
<1>2. PICK c \in Sections : c = request[e].section
  BY <1>1, WrittenSectionExists
<1>3. CamDoc!Exists(c)
  BY <1>1, <1>2, WrittenSectionExists
<1>4. texts + 1 \in 0..MaxTexts
  BY <1>1, EditorAssumption DEF CommitChat, WriteText
<1>5. CamDoc!IsNew(texts + 1)
  BY <1>1, NextTextIsNew DEF CamDoc!IsNew, HoldsNowhere
<1>6. CamDoc!Propose(c, texts + 1)
  BY <1>2, <1>3, <1>5 DEF CommitChat, CamDoc!Propose
<1> QED
  BY <1>4, <1>6 DEF CamDoc!Next

LEMMA DocumentStep ==
  ASSUME DocumentInv, [Next]_vars
  PROVE  [CamDoc!Next]_(CamDoc!vars)
<1>1. CASE \/ UNCHANGED vars
           \/ \E e \in Editors :
                \/ \E c \in Present : Open(e, c) \/ BeginChat(e, c)
                \/ \E named \in BOOLEAN : BeginEdit(e, named)
                \/ \E g \in DOMAIN suggestions : BeginAccept(e, g) \/ BeginReject(e, g)
                \/ BeginFinalise(e)
           \/ \E c \in Sections : BeginRegenerate(c) \/ BeginAdd(c)
           \/ \E a \in Actors : Abandon(a)
  <2>1. UNCHANGED <<status, rows, suggestions>>
    BY <1>1 DEF vars, Open, BeginChat, BeginEdit, BeginAccept, BeginReject, BeginFinalise,
                BeginRegenerate, BeginAdd, Abandon, Begin
  <2> QED
    BY <2>1 DEF CamDoc!vars
<1>2. CASE \E e \in Editors : CommitChat(e)
  BY <1>2, ChatKeepsDocument
<1>3. CASE \E a \in Actors : Commit(a)
  BY <1>3, AppendKeepsDocument, AutosaveKeepsDocument, AddKeepsDocument,
     DecisionKeepsDocument DEF Commit
<1> QED
  BY <1>1, <1>2, <1>3 DEF Next

\* When short requests do not overlap, whatever editors, chats in progress and the
\* pipeline do is a behaviour of the abstract document: versions are only added, except
\* that an unnamed manual one is rewritten by its author while it is the last; a proposal
\* is decided once; nothing is written after the sign-off (cam/services/output/main.py).
THEOREM EditorImplementsDocument == Serialised => (Spec => ImplementsDocument)
<1> SUFFICES ASSUME Serialised PROVE Spec => CamDoc!Spec
  BY DEF ImplementsDocument
<1>1. Init => CamDoc!Init
  BY DEF Init, CamDoc!Init, CamDoc!Version
<1>2. Init => DocumentInv
  BY SerialInit, HistoryInit, KeepInit DEF DocumentInv
<1>3. DocumentInv /\ [Next]_vars => DocumentInv'
  BY SerialStep, HistoryStep, KeepStep DEF DocumentInv
<1>4. DocumentInv /\ [Next]_vars => [CamDoc!Next]_(CamDoc!vars)
  BY DocumentStep
<1> QED
  BY <1>1, <1>2, <1>3, <1>4, PTL DEF Spec, CamDoc!Spec
=============================================================================
