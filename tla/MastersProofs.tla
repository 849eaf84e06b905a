---------------------------- MODULE MastersProofs ---------------------------
(***************************************************************************)
(* Four eyes on what is in force, and the text that is served for it, for  *)
(* any items, admins and bounds and however decisions overlap.  A decision *)
(* writes what it checked earlier, so the invariant carries what a request *)
(* in progress found at its check until it commits.                        *)
(***************************************************************************)
EXTENDS Masters, SequenceTheorems, FiniteSetTheorems, TLAPS

Row(i, n) == versions[i][n]

Rows == Seq(Version)

TypeInv ==
  /\ versions \in [Items -> Rows]
  /\ store \in [Prompts -> Seq(Nat)]
  /\ request = [a \in Admins |-> request[a]]

\* a request in progress is about a version that exists
Anchored ==
  \A a \in Admins : request[a].op # "none" =>
    /\ request[a].item \in Items
    /\ request[a].no \in DOMAIN versions[request[a].item]

\* who is about to approve a version neither made nor submitted it, by now
CheckersAreClean ==
  \A a \in Admins : request[a].op = "approve" =>
    a \notin {Row(request[a].item, request[a].no).maker,
              Row(request[a].item, request[a].no).submitter}

\* a reference is local or leads to the text
Backed(i, c, t) == c = 0 \/ (i \in Prompts /\ c \in DOMAIN store[i] /\ store[i][c] = t)

SentIsStored ==
  \A a \in Admins : request[a].op = "approve" =>
    Backed(request[a].item, request[a].commit, Row(request[a].item, request[a].no).text)

StampsLeadToTheText ==
  \A i \in Items : \A n \in DOMAIN versions[i] : Backed(i, Row(i, n).commit, Row(i, n).text)

\* the rows of an item that are published, whatever their date
PublishedRows(i) == {n \in DOMAIN versions[i] : versions[i][n].status = "published"}

\* at most one row of the item is published, and its date has come
OneInForce(i) ==
  \A n \in PublishedRows(i) :
    versions[i][n].date <= today /\ \A m \in PublishedRows(i) : m = n

Alone == \A i \in Items : undisturbed[i] => OneInForce(i)

\* while the decisions on an item do not disturb one another, what a request found when it
\* began is still so: its row is not published, and the predecessor that it is going to
\* retire is the one in force
FoundIsStillSo ==
  \A a \in Admins : request[a].op # "none" /\ undisturbed[request[a].item] =>
    /\ request[a].no \notin PublishedRows(request[a].item)
    /\ request[a].op = "approve" => request[a].retires = Published(request[a].item)

ServiceInv ==
  /\ today \in Nat
  /\ undisturbed \in [Items -> BOOLEAN]
  /\ \A a \in Admins : request[a].op = "none" => request[a] = NoRequest
  /\ Alone
  /\ FoundIsStillSo

Inv ==
  /\ TypeInv
  /\ Anchored
  /\ CheckersAreClean
  /\ SentIsStored
  /\ StampsLeadToTheText
  /\ FourEyes

-----------------------------------------------------------------------------
(* Rows of an item *)

LEMMA RowsAreVersions ==
  ASSUME TypeInv, NEW i \in Items
  PROVE  /\ versions[i] \in Seq(Version)
         /\ Len(versions[i]) \in Nat
         /\ DOMAIN versions[i] = 1..Len(versions[i])
         /\ \A n \in DOMAIN versions[i] : versions[i][n] \in Version
<1>1. versions[i] \in Seq(Version)
  BY DEF TypeInv, Rows
<1> HIDE DEF Version
<1> QED
  BY <1>1

LEMMA InitInv == Init => Inv
<1> SUFFICES ASSUME Init PROVE Inv
  OBVIOUS
<1>1. TypeInv
  BY DEF Init, TypeInv, Rows
<1>2. \A a \in Admins : request[a].op = "none"
  BY DEF Init, NoRequest
<1>3. \A i \in Items : DOMAIN versions[i] = {}
  BY DEF Init
<1> QED
  BY <1>1, <1>2, <1>3 DEF Inv, Anchored, CheckersAreClean, SentIsStored,
     StampsLeadToTheText, FourEyes

-----------------------------------------------------------------------------
(* Drafts *)

\* an inserted row is a draft without a reference; the rows that were there stay
LEMMA InsertedRows ==
  ASSUME TypeInv, NEW rows, Insert(rows),
         \A i \in Items : i \in DOMAIN rows =>
           rows[i] \in Version /\ rows[i].status = "draft" /\ rows[i].commit = 0
  PROVE  \A i \in Items :
           /\ versions'[i] \in Seq(Version)
           /\ DOMAIN versions[i] \subseteq DOMAIN versions'[i]
           /\ \A n \in DOMAIN versions[i] : versions'[i][n] = versions[i][n]
           /\ \A n \in DOMAIN versions'[i] \ DOMAIN versions[i] :
                versions'[i][n].status = "draft" /\ versions'[i][n].commit = 0
<1>1. versions' = [i \in Items |-> IF i \in DOMAIN rows THEN Append(versions[i], rows[i])
                                                       ELSE versions[i]]
  BY DEF Insert
<1>2. ASSUME NEW i \in Items
      PROVE  /\ versions'[i] \in Seq(Version)
             /\ DOMAIN versions[i] \subseteq DOMAIN versions'[i]
             /\ \A n \in DOMAIN versions[i] : versions'[i][n] = versions[i][n]
             /\ \A n \in DOMAIN versions'[i] \ DOMAIN versions[i] :
                  versions'[i][n].status = "draft" /\ versions'[i][n].commit = 0
  <2>1. versions[i] \in Seq(Version) /\ DOMAIN versions[i] = 1..Len(versions[i])
    BY RowsAreVersions
  <2>2. CASE i \notin DOMAIN rows
    BY <2>1, <2>2, <1>1
  <2>3. CASE i \in DOMAIN rows
    <3>1. rows[i] \in Version /\ rows[i].status = "draft" /\ rows[i].commit = 0
      BY <2>3
    <3>2. versions'[i] = Append(versions[i], rows[i])
      BY <2>3, <1>1
    <3> DEFINE V == Version  s == versions[i]  r == rows[i]
    <3>3. s \in Seq(V) /\ r \in V
      BY <2>1, <3>1
    <3> HIDE DEF V, s, r
    <3>4. /\ Append(s, r) \in Seq(V)
          /\ DOMAIN s = 1..Len(s)
          /\ DOMAIN Append(s, r) = 1..(Len(s) + 1)
          /\ \A n \in 1..Len(s) : Append(s, r)[n] = s[n]
          /\ Append(s, r)[Len(s) + 1] = r
          /\ Len(s) \in Nat
      BY <3>3
    <3>5. \A n \in (1..(Len(s) + 1)) \ (1..Len(s)) : n = Len(s) + 1
      BY <3>4
    <3> USE DEF V, s, r
    <3> QED
      BY <3>1, <3>2, <3>4, <3>5
  <2> QED
    BY <2>2, <2>3
<1> QED
  BY <1>2

LEMMA InsertKeepsInv ==
  ASSUME Inv, NEW rows, Insert(rows),
         \A i \in Items : i \in DOMAIN rows =>
           rows[i] \in Version /\ rows[i].status = "draft" /\ rows[i].commit = 0
  PROVE  Inv'
<1>1. /\ versions' = [i \in Items |-> IF i \in DOMAIN rows THEN Append(versions[i], rows[i])
                                                          ELSE versions[i]]
      /\ store' = store /\ request' = request
  BY DEF Insert
<1>2. \A i \in Items :
           /\ versions'[i] \in Seq(Version)
           /\ DOMAIN versions[i] \subseteq DOMAIN versions'[i]
           /\ \A n \in DOMAIN versions[i] : versions'[i][n] = versions[i][n]
           /\ \A n \in DOMAIN versions'[i] \ DOMAIN versions[i] :
                versions'[i][n].status = "draft" /\ versions'[i][n].commit = 0
  BY InsertedRows DEF Inv
<1>3. TypeInv'
  <2>1. versions' \in [Items -> Rows]
    BY <1>1, <1>2 DEF Rows
  <2> QED
    BY <2>1, <1>1 DEF Inv, TypeInv
<1>4. Anchored'
  BY <1>1, <1>2 DEF Inv, Anchored
<1>5. CheckersAreClean'
  BY <1>1, <1>2 DEF Inv, Anchored, CheckersAreClean, Row
<1>6. SentIsStored'
  BY <1>1, <1>2 DEF Inv, Anchored, SentIsStored, Backed, Row
<1>7. StampsLeadToTheText'
  <2> SUFFICES ASSUME NEW i \in Items, NEW n \in DOMAIN versions'[i]
               PROVE  Backed(i, Row(i, n).commit, Row(i, n).text)'
    BY DEF StampsLeadToTheText
  <2>1. CASE n \in DOMAIN versions[i]
    BY <2>1, <1>1, <1>2 DEF Inv, StampsLeadToTheText, Backed, Row
  <2>2. CASE n \notin DOMAIN versions[i]
    BY <2>2, <1>2 DEF Backed, Row
  <2> QED
    BY <2>1, <2>2
<1>8. FourEyes'
  <2> SUFFICES ASSUME NEW i \in Items, NEW n \in DOMAIN versions'[i],
                      versions'[i][n].status = "published"
               PROVE  versions'[i][n].decider \in
                        Admins \ {versions'[i][n].maker, versions'[i][n].submitter}
    BY DEF FourEyes
  <2>1. n \in DOMAIN versions[i]
    BY <1>2
  <2> QED
    BY <2>1, <1>2 DEF Inv, FourEyes
<1> QED
  BY <1>3, <1>4, <1>5, <1>6, <1>7, <1>8 DEF Inv

LEMMA DraftIsVersion ==
  ASSUME NEW a \in Admins, NEW t \in Nat, NEW date \in 0..MaxDate
  PROVE  /\ NewRow(a, t, date) \in Version
         /\ NewRow(a, t, date).status = "draft"
         /\ NewRow(a, t, date).commit = 0
  BY DEF NewRow, Version, Statuses

\* creating an item or a version, rolling back and importing insert drafts, nothing else
LEMMA DraftsAreInserted ==
  ASSUME Inv, NEW a \in Admins,
         \/ \E i \in Items : CreateItem(a, i)
         \/ \E i \in Items, date \in 0..MaxDate : CreateVersion(a, i, date)
         \/ \E b \in Bundles : Import(a, b)
         \/ \E i \in Items, n \in 1..MaxVersions : Rollback(a, i, n)
  PROVE  \E rows : /\ Insert(rows)
                   /\ \A i \in Items : i \in DOMAIN rows =>
                        rows[i] \in Version /\ rows[i].status = "draft" /\ rows[i].commit = 0
<1> DEFINE Inserted == \E rows : /\ Insert(rows)
                                 /\ \A i \in Items : i \in DOMAIN rows =>
                                      /\ rows[i] \in Version
                                      /\ rows[i].status = "draft"
                                      /\ rows[i].commit = 0
<1>0. 0 \in 0..MaxDate
  BY MastersAssumption
<1>1. ASSUME NEW i \in Items, CreateItem(a, i) PROVE Inserted
  <2> DEFINE rows == [j \in {i} |-> NewRow(a, Fresh(i), 0)]
  <2>1. Fresh(i) \in Nat
    BY RowsAreVersions DEF Inv, Fresh
  <2>2. \A j \in Items : j \in DOMAIN rows =>
          rows[j] \in Version /\ rows[j].status = "draft" /\ rows[j].commit = 0
    BY <1>0, <2>1, DraftIsVersion
  <2>3. Insert(rows)
    BY <1>1 DEF CreateItem
  <2> HIDE DEF rows
  <2> QED
    BY <2>2, <2>3
<1>2. ASSUME NEW i \in Items, NEW date \in 0..MaxDate, CreateVersion(a, i, date) PROVE Inserted
  <2> DEFINE rows == [j \in {i} |-> NewRow(a, Fresh(i), date)]
  <2>1. Fresh(i) \in Nat
    BY RowsAreVersions DEF Inv, Fresh
  <2>2. \A j \in Items : j \in DOMAIN rows =>
          rows[j] \in Version /\ rows[j].status = "draft" /\ rows[j].commit = 0
    BY <2>1, DraftIsVersion
  <2>3. Insert(rows)
    BY <1>2 DEF CreateVersion
  <2> HIDE DEF rows
  <2> QED
    BY <2>2, <2>3
<1>3. ASSUME NEW b \in Bundles, Import(a, b) PROVE Inserted
  <2> DEFINE rows == [j \in Changed(b) |-> NewRow(a, b[j], 0)]
  <2>1. \A j \in DOMAIN b : b[j] \in Nat
    BY MastersAssumption DEF Bundles
  <2>2. \A j \in Items : j \in DOMAIN rows =>
          rows[j] \in Version /\ rows[j].status = "draft" /\ rows[j].commit = 0
    BY <1>0, <2>1, DraftIsVersion DEF Changed
  <2>3. Insert(rows)
    BY <1>3 DEF Import
  <2> HIDE DEF rows
  <2> QED
    BY <2>2, <2>3
<1>4. ASSUME NEW i \in Items, NEW n \in 1..MaxVersions, Rollback(a, i, n) PROVE Inserted
  <2> DEFINE rows == [j \in {i} |-> NewRow(a, versions[i][n].text, 0)]
  <2>1. versions[i][n].text \in Nat
    BY <1>4, RowsAreVersions DEF Inv, Rollback, Version
  <2>2. \A j \in Items : j \in DOMAIN rows =>
          rows[j] \in Version /\ rows[j].status = "draft" /\ rows[j].commit = 0
    BY <1>0, <2>1, DraftIsVersion
  <2>3. Insert(rows)
    BY <1>4 DEF Rollback
  <2> HIDE DEF rows
  <2> QED
    BY <2>2, <2>3
<1> QED
  BY <1>1, <1>2, <1>3, <1>4

LEMMA DraftsKeepInv ==
  ASSUME Inv, NEW a \in Admins,
         \/ \E i \in Items : CreateItem(a, i)
         \/ \E i \in Items, date \in 0..MaxDate : CreateVersion(a, i, date)
         \/ \E b \in Bundles : Import(a, b)
         \/ \E i \in Items, n \in 1..MaxVersions : Rollback(a, i, n)
  PROVE  Inv'
<1>1. PICK rows : /\ Insert(rows)
                  /\ \A i \in Items : i \in DOMAIN rows =>
                       rows[i] \in Version /\ rows[i].status = "draft" /\ rows[i].commit = 0
  BY DraftsAreInserted
<1> QED
  BY <1>1, InsertKeepsInv

-----------------------------------------------------------------------------
(* Decisions: the checks *)

\* a request that begins found its version; an approval found it clean and its text stored
LEMMA BeginKeepsInv ==
  ASSUME Inv, NEW a \in Admins, NEW r, Begin(a, r),
         r.item \in Items, r.no \in DOMAIN versions[r.item],
         store' \in [Prompts -> Seq(Nat)],
         \A i \in Prompts : /\ DOMAIN store[i] \subseteq DOMAIN store'[i]
                            /\ \A c \in DOMAIN store[i] : store'[i][c] = store[i][c],
         r.op = "approve" =>
           /\ a \notin {Row(r.item, r.no).maker, Row(r.item, r.no).submitter}
           /\ \/ r.commit = 0
              \/ /\ r.item \in Prompts
                 /\ r.commit \in DOMAIN store'[r.item]
                 /\ store'[r.item][r.commit] = Row(r.item, r.no).text
  PROVE  Inv'
<1>1. /\ versions' = versions
      /\ request' = [request EXCEPT ![a] = r]
  BY DEF Begin
<1>2. request' = [b \in Admins |-> request'[b]]
  BY <1>1 DEF Inv, TypeInv
<1>3. \A b \in Admins : request'[b] = IF b = a THEN r ELSE request[b]
  BY <1>1 DEF Inv, TypeInv
<1>4. TypeInv'
  BY <1>1, <1>2 DEF Inv, TypeInv
<1>5. Anchored'
  BY <1>1, <1>3 DEF Inv, Anchored
<1>6. CheckersAreClean'
  BY <1>1, <1>3 DEF Inv, CheckersAreClean, Row
<1>7. SentIsStored'
  BY <1>1, <1>3 DEF Inv, SentIsStored, Backed, Row
<1>8. StampsLeadToTheText'
  <2> SUFFICES ASSUME NEW i \in Items, NEW n \in DOMAIN versions[i]
               PROVE  Backed(i, versions[i][n].commit, versions[i][n].text)'
    BY <1>1 DEF StampsLeadToTheText, Row
  <2>1. Backed(i, versions[i][n].commit, versions[i][n].text)
    BY DEF Inv, StampsLeadToTheText, Row
  <2> QED
    BY <1>1, <2>1 DEF Backed
<1>9. FourEyes'
  BY <1>1 DEF Inv, FourEyes
<1> QED
  BY <1>4, <1>5, <1>6, <1>7, <1>8, <1>9 DEF Inv

LEMMA ChecksKeepInv ==
  ASSUME Inv, NEW a \in Admins, NEW i \in Items, NEW n \in 1..MaxVersions,
         \/ BeginSubmit(a, i, n) \/ BeginReject(a, i, n)
         \/ BeginApprove(a, i, n) \/ BeginApproveStored(a, i, n)
  PROVE  Inv'
<1>0. store \in [Prompts -> Seq(Nat)]
  BY DEF Inv, TypeInv
<1>1. CASE BeginSubmit(a, i, n)
  <2> DEFINE r == [op |-> "submit", item |-> i, no |-> n]
  <2>1. r.op = "submit" /\ r.item = i /\ r.no = n
    OBVIOUS
  <2>2. Begin(a, r) /\ n \in DOMAIN versions[i] /\ store' = store
    BY <1>1 DEF BeginSubmit
  <2> HIDE DEF r
  <2> QED
    BY <1>0, <2>1, <2>2, BeginKeepsInv
<1>2. CASE BeginReject(a, i, n)
  <2> DEFINE r == [op |-> "reject", item |-> i, no |-> n]
  <2>1. r.op = "reject" /\ r.item = i /\ r.no = n
    OBVIOUS
  <2>2. Begin(a, r) /\ n \in DOMAIN versions[i] /\ store' = store
    BY <1>2 DEF BeginReject
  <2> HIDE DEF r
  <2> QED
    BY <1>0, <2>1, <2>2, BeginKeepsInv
<1>3. CASE BeginApprove(a, i, n)
  <2> DEFINE r == Approval(i, n, 0)
  <2>1. r.op = "approve" /\ r.item = i /\ r.no = n /\ r.commit = 0
    BY DEF Approval
  <2>2. Begin(a, r) /\ MayApprove(a, i, n) /\ store' = store
    BY <1>3 DEF BeginApprove
  <2>3. /\ n \in DOMAIN versions[i]
        /\ a \notin {Row(i, n).maker, Row(i, n).submitter}
    BY <2>2 DEF MayApprove, Row
  <2> HIDE DEF r
  <2> QED
    BY <1>0, <2>1, <2>2, <2>3, BeginKeepsInv
<1>4. CASE BeginApproveStored(a, i, n)
  <2> DEFINE r == Approval(i, n, Len(store[i]) + 1)
  <2>1. r.op = "approve" /\ r.item = i /\ r.no = n /\ r.commit = Len(store[i]) + 1
    BY DEF Approval
  <2>2. Begin(a, r) /\ MayApprove(a, i, n) /\ i \in Prompts
    BY <1>4 DEF BeginApproveStored
  <2>3. /\ n \in DOMAIN versions[i]
        /\ a \notin {Row(i, n).maker, Row(i, n).submitter}
    BY <2>2 DEF MayApprove, Row
  <2>4. Row(i, n).text \in Nat
    BY <2>3, RowsAreVersions DEF Inv, Row, Version
  <2>5. store' = [store EXCEPT ![i] = Append(store[i], Row(i, n).text)]
    BY <1>4 DEF BeginApproveStored, Row
  <2>6. /\ Append(store[i], Row(i, n).text) \in Seq(Nat)
        /\ DOMAIN store[i] = 1..Len(store[i])
        /\ DOMAIN Append(store[i], Row(i, n).text) = 1..(Len(store[i]) + 1)
        /\ \A c \in 1..Len(store[i]) : Append(store[i], Row(i, n).text)[c] = store[i][c]
        /\ Append(store[i], Row(i, n).text)[Len(store[i]) + 1] = Row(i, n).text
        /\ Len(store[i]) \in Nat
    BY <1>0, <2>2, <2>4
  <2>7. store' \in [Prompts -> Seq(Nat)]
    BY <1>0, <2>2, <2>5, <2>6
  <2>8. \A j \in Prompts : /\ DOMAIN store[j] \subseteq DOMAIN store'[j]
                           /\ \A c \in DOMAIN store[j] : store'[j][c] = store[j][c]
    BY <1>0, <2>5, <2>6
  <2>9. /\ r.commit \in DOMAIN store'[i]
        /\ store'[i][r.commit] = Row(i, n).text
    BY <1>0, <2>1, <2>2, <2>5, <2>6
  <2> HIDE DEF r
  <2> QED
    BY <2>1, <2>2, <2>3, <2>7, <2>8, <2>9, BeginKeepsInv
<1> QED
  BY <1>1, <1>2, <1>3, <1>4

-----------------------------------------------------------------------------
(* Decisions: the writes *)

\* A decision of a rewrites rows of one item: it keeps who made them and their texts, names
\* at most a as the submitter, and what is published then has had four eyes and a
\* reference that leads to its text.
LEMMA RewriteKeepsInv ==
  ASSUME Inv, NEW a \in Admins, NEW i \in Items, NEW s \in Seq(Version),
         Len(s) = Len(versions[i]),
         \A n \in DOMAIN versions[i] :
           /\ s[n].maker = versions[i][n].maker
           /\ s[n].text = versions[i][n].text
           /\ s[n].submitter \in {versions[i][n].submitter, a}
           /\ Backed(i, s[n].commit, s[n].text)
           /\ s[n].status = "published" => s[n].decider \in Admins \ {s[n].maker, s[n].submitter},
         versions' = [versions EXCEPT ![i] = s],
         Done(a), UNCHANGED store
  PROVE  Inv'
<1>1. request' = [b \in Admins |-> request'[b]]
  BY DEF Inv, TypeInv, Done
<1>2. /\ request'[a].op = "none"
      /\ \A b \in Admins \ {a} : request'[b] = request[b]
  BY DEF Inv, TypeInv, Done, NoRequest
<1>3. versions \in [Items -> Rows] /\ s \in Rows
  BY DEF Inv, TypeInv, Rows
<1>4. /\ DOMAIN s = DOMAIN versions[i]
      /\ versions'[i] = s
      /\ \A j \in Items \ {i} : versions'[j] = versions[j]
  BY <1>3, RowsAreVersions DEF Inv
<1>5. versions' \in [Items -> Rows]
  BY <1>3
<1>6. TypeInv'
  BY <1>1, <1>5 DEF Inv, TypeInv
<1>7. \A j \in Items : DOMAIN versions'[j] = DOMAIN versions[j]
  BY <1>4
<1>8. Anchored'
  BY <1>2, <1>7 DEF Inv, Anchored
<1>9. \A j \in Items : \A n \in DOMAIN versions[j] :
        /\ versions'[j][n].maker = versions[j][n].maker
        /\ versions'[j][n].text = versions[j][n].text
        /\ versions'[j][n].submitter \in {versions[j][n].submitter, a}
  BY <1>4
<1>10. CheckersAreClean'
  BY <1>2, <1>9 DEF Inv, Anchored, CheckersAreClean, Row
<1>11. SentIsStored'
  BY <1>2, <1>9 DEF Inv, Anchored, SentIsStored, Backed, Row
<1>12. StampsLeadToTheText'
  BY <1>4 DEF Inv, StampsLeadToTheText, Backed, Row
<1>13. FourEyes'
  BY <1>4 DEF Inv, FourEyes
<1> QED
  BY <1>6, <1>8, <1>10, <1>11, <1>12, <1>13 DEF Inv

LEMMA SubmitKeepsInv ==
  ASSUME Inv, NEW a \in Admins, CommitSubmit(a)
  PROVE  Inv'
<1> DEFINE i == request[a].item
           m == request[a].no
           v == [versions[i][m] EXCEPT !.status = "in_review", !.submitter = a]
           s == [versions[i] EXCEPT ![m] = v]
<1>1. i \in Items /\ m \in DOMAIN versions[i]
  BY DEF Inv, Anchored, CommitSubmit
<1>2. /\ versions[i] \in Seq(Version) /\ versions[i][m] \in Version
      /\ DOMAIN versions[i] = 1..Len(versions[i])
  BY <1>1, RowsAreVersions DEF Inv
<1>3. /\ v \in Version /\ v.status = "in_review" /\ v.submitter = a
      /\ v.maker = versions[i][m].maker /\ v.text = versions[i][m].text
      /\ v.commit = versions[i][m].commit
  BY <1>2 DEF Version, Statuses
<1>4. versions' = [versions EXCEPT ![i] = s]
  BY <1>1 DEF CommitSubmit
<1>5. Done(a) /\ UNCHANGED store
  BY DEF CommitSubmit, Decided
<1> HIDE DEF v
<1>6. s \in Seq(Version) /\ Len(s) = Len(versions[i])
  BY <1>1, <1>2, <1>3
<1>7. \A n \in DOMAIN versions[i] : s[n] = IF n = m THEN v ELSE versions[i][n]
  BY <1>2
<1>8. \A n \in DOMAIN versions[i] : Backed(i, versions[i][n].commit, versions[i][n].text)
  BY <1>1 DEF Inv, StampsLeadToTheText, Row
<1>9. \A n \in DOMAIN versions[i] : versions[i][n].status = "published" =>
        versions[i][n].decider \in Admins \ {versions[i][n].maker, versions[i][n].submitter}
  BY <1>1 DEF Inv, FourEyes
<1> HIDE DEF i, m, s
<1>10. \A n \in DOMAIN versions[i] :
         /\ s[n].maker = versions[i][n].maker
         /\ s[n].text = versions[i][n].text
         /\ s[n].submitter \in {versions[i][n].submitter, a}
         /\ Backed(i, s[n].commit, s[n].text)
         /\ s[n].status = "published" => s[n].decider \in Admins \ {s[n].maker, s[n].submitter}
  <2> SUFFICES ASSUME NEW n \in DOMAIN versions[i]
               PROVE  /\ s[n].maker = versions[i][n].maker
                      /\ s[n].text = versions[i][n].text
                      /\ s[n].submitter \in {versions[i][n].submitter, a}
                      /\ Backed(i, s[n].commit, s[n].text)
                      /\ s[n].status = "published" =>
                           s[n].decider \in Admins \ {s[n].maker, s[n].submitter}
    OBVIOUS
  <2>1. CASE n = m
    BY <2>1, <1>1, <1>3, <1>7, <1>8
  <2>2. CASE n # m
    BY <2>2, <1>7, <1>8, <1>9
  <2> QED
    BY <2>1, <2>2
<1> QED
  BY <1>1, <1>4, <1>5, <1>6, <1>10, RewriteKeepsInv

LEMMA RejectKeepsInv ==
  ASSUME Inv, NEW a \in Admins, CommitReject(a)
  PROVE  Inv'
<1> DEFINE i == request[a].item
           m == request[a].no
           v == [versions[i][m] EXCEPT !.status = "rejected", !.decider = a]
           s == [versions[i] EXCEPT ![m] = v]
<1>1. i \in Items /\ m \in DOMAIN versions[i]
  BY DEF Inv, Anchored, CommitReject
<1>2. /\ versions[i] \in Seq(Version) /\ versions[i][m] \in Version
      /\ DOMAIN versions[i] = 1..Len(versions[i])
  BY <1>1, RowsAreVersions DEF Inv
<1>3. /\ v \in Version /\ v.status = "rejected" /\ v.submitter = versions[i][m].submitter
      /\ v.maker = versions[i][m].maker /\ v.text = versions[i][m].text
      /\ v.commit = versions[i][m].commit
  BY <1>2 DEF Version, Statuses
<1>4. versions' = [versions EXCEPT ![i] = s]
  BY <1>1 DEF CommitReject
<1>5. Done(a) /\ UNCHANGED store
  BY DEF CommitReject, Decided
<1> HIDE DEF v
<1>6. s \in Seq(Version) /\ Len(s) = Len(versions[i])
  BY <1>1, <1>2, <1>3
<1>7. \A n \in DOMAIN versions[i] : s[n] = IF n = m THEN v ELSE versions[i][n]
  BY <1>2
<1>8. \A n \in DOMAIN versions[i] : Backed(i, versions[i][n].commit, versions[i][n].text)
  BY <1>1 DEF Inv, StampsLeadToTheText, Row
<1>9. \A n \in DOMAIN versions[i] : versions[i][n].status = "published" =>
        versions[i][n].decider \in Admins \ {versions[i][n].maker, versions[i][n].submitter}
  BY <1>1 DEF Inv, FourEyes
<1> HIDE DEF i, m, s
<1> QED
  BY <1>1, <1>3, <1>4, <1>5, <1>6, <1>7, <1>8, <1>9, RewriteKeepsInv

\* retiring a version changes nothing but its status
LEMMA RetireKeepsRows ==
  ASSUME NEW rows \in Seq(Version), NEW p
  PROVE  /\ Retire(rows, p) \in Seq(Version)
         /\ Len(Retire(rows, p)) = Len(rows)
         /\ \A n \in DOMAIN rows :
              /\ Retire(rows, p)[n].maker = rows[n].maker
              /\ Retire(rows, p)[n].text = rows[n].text
              /\ Retire(rows, p)[n].submitter = rows[n].submitter
              /\ Retire(rows, p)[n].decider = rows[n].decider
              /\ Retire(rows, p)[n].date = rows[n].date
              /\ Retire(rows, p)[n].commit = rows[n].commit
              /\ Retire(rows, p)[n].status = "published" => rows[n].status = "published"
<1>1. CASE p = 0 \/ p \notin DOMAIN rows
  <2>1. Retire(rows, p) = rows
    BY <1>1 DEF Retire
  <2> QED
    BY <2>1
<1>2. CASE p # 0 /\ p \in DOMAIN rows
  <2> DEFINE v == [rows[p] EXCEPT !.status = "retired"]
  <2>1. rows[p] \in Version
    BY <1>2
  <2>2. /\ v \in Version /\ v.status = "retired"
        /\ v.maker = rows[p].maker /\ v.text = rows[p].text
        /\ v.submitter = rows[p].submitter /\ v.decider = rows[p].decider
        /\ v.commit = rows[p].commit /\ v.date = rows[p].date
    BY <2>1 DEF Version, Statuses
  <2>3. Retire(rows, p) = [rows EXCEPT ![p] = v]
    BY <1>2 DEF Retire
  <2> HIDE DEF v
  <2>4. /\ Retire(rows, p) \in Seq(Version)
        /\ Len(Retire(rows, p)) = Len(rows)
        /\ \A n \in DOMAIN rows : Retire(rows, p)[n] = IF n = p THEN v ELSE rows[n]
    BY <1>2, <2>2, <2>3
  <2> QED
    BY <2>2, <2>4
<1> QED
  BY <1>1, <1>2

LEMMA ApproveKeepsInv ==
  ASSUME Inv, NEW a \in Admins, CommitApprove(a)
  PROVE  Inv'
<1> DEFINE r == request[a]
           i == r.item
           m == r.no
           t == Retire(versions[i], r.retires)
           v == [t[m] EXCEPT !.status = "published", !.decider = a, !.commit = Stamp(r)]
           s == [t EXCEPT ![m] = v]
<1>1. i \in Items /\ m \in DOMAIN versions[i] /\ r.op = "approve"
  BY DEF Inv, Anchored, CommitApprove
<1>2. /\ versions[i] \in Seq(Version)
      /\ DOMAIN versions[i] = 1..Len(versions[i])
  BY <1>1, RowsAreVersions DEF Inv
<1>3. /\ t \in Seq(Version) /\ Len(t) = Len(versions[i])
      /\ \A n \in DOMAIN versions[i] :
           /\ t[n].maker = versions[i][n].maker
           /\ t[n].text = versions[i][n].text
           /\ t[n].submitter = versions[i][n].submitter
           /\ t[n].decider = versions[i][n].decider
           /\ t[n].commit = versions[i][n].commit
           /\ t[n].status = "published" => versions[i][n].status = "published"
  BY <1>2, RetireKeepsRows
<1>4. versions' = [versions EXCEPT ![i] = s]
  BY <1>1 DEF CommitApprove
<1>5. Done(a) /\ UNCHANGED store
  BY DEF CommitApprove, Decided
<1>6. Backed(i, Stamp(r), versions[i][m].text)
  BY <1>1 DEF Inv, SentIsStored, Stamp, Row
<1>7. Stamp(r) \in Nat
  <2>1. CASE Stamp(r) = 0
    BY <2>1
  <2>2. CASE Stamp(r) # 0
    <3>1. i \in Prompts /\ Stamp(r) \in DOMAIN store[i]
      BY <1>6, <2>2 DEF Backed
    <3>2. store[i] \in Seq(Nat)
      BY <3>1 DEF Inv, TypeInv
    <3> QED
      BY <3>1, <3>2
  <2> QED
    BY <2>1, <2>2
<1>8. a \notin {versions[i][m].maker, versions[i][m].submitter}
  BY <1>1 DEF Inv, CheckersAreClean, Row
<1>9. t[m] \in Version
  <2> DEFINE rows == t  V == Version
  <2>1. rows \in Seq(V) /\ m \in 1..Len(rows)
    BY <1>1, <1>2, <1>3
  <2> HIDE DEF rows, V, m
  <2>2. rows[m] \in V
    BY <2>1
  <2> QED
    BY <2>2 DEF rows, V
<1> DEFINE c == Stamp(r)
<1> HIDE DEF c
<1>10. c \in Nat /\ c = Stamp(r)
  BY <1>7 DEF c
<1> HIDE DEF t
<1>11. /\ v \in Version /\ v.status = "published" /\ v.decider = a /\ v.commit = c
       /\ v.maker = t[m].maker /\ v.text = t[m].text /\ v.submitter = t[m].submitter
  BY <1>9, <1>10 DEF Version, Statuses
<1> HIDE DEF v
<1>12. /\ s \in Seq(Version) /\ Len(s) = Len(versions[i])
       /\ \A n \in DOMAIN versions[i] : s[n] = IF n = m THEN v ELSE t[n]
  BY <1>1, <1>2, <1>3, <1>11
<1>13. \A n \in DOMAIN versions[i] : Backed(i, versions[i][n].commit, versions[i][n].text)
  BY <1>1 DEF Inv, StampsLeadToTheText, Row
<1>14. \A n \in DOMAIN versions[i] : versions[i][n].status = "published" =>
         versions[i][n].decider \in Admins \ {versions[i][n].maker, versions[i][n].submitter}
  BY <1>1 DEF Inv, FourEyes
<1> HIDE DEF r, i, m, s
<1>15. \A n \in DOMAIN versions[i] :
         /\ s[n].maker = versions[i][n].maker
         /\ s[n].text = versions[i][n].text
         /\ s[n].submitter \in {versions[i][n].submitter, a}
         /\ Backed(i, s[n].commit, s[n].text)
         /\ s[n].status = "published" => s[n].decider \in Admins \ {s[n].maker, s[n].submitter}
  <2> SUFFICES ASSUME NEW n \in DOMAIN versions[i]
               PROVE  /\ s[n].maker = versions[i][n].maker
                      /\ s[n].text = versions[i][n].text
                      /\ s[n].submitter \in {versions[i][n].submitter, a}
                      /\ Backed(i, s[n].commit, s[n].text)
                      /\ s[n].status = "published" =>
                           s[n].decider \in Admins \ {s[n].maker, s[n].submitter}
    OBVIOUS
  <2>1. CASE n = m
    BY <2>1, <1>1, <1>3, <1>6, <1>8, <1>10, <1>11, <1>12
  <2>2. CASE n # m
    BY <2>2, <1>3, <1>12, <1>13, <1>14
  <2> QED
    BY <2>1, <2>2
<1> QED
  BY <1>1, <1>4, <1>5, <1>12, <1>15, RewriteKeepsInv

LEMMA AbandonKeepsInv ==
  ASSUME Inv, NEW a \in Admins, Abandon(a)
  PROVE  Inv'
<1>1. versions' = versions /\ store' = store /\ Done(a)
  BY DEF Abandon
<1>2. request' = [b \in Admins |-> request'[b]]
  BY <1>1 DEF Inv, TypeInv, Done
<1>3. /\ request'[a].op = "none"
      /\ \A b \in Admins \ {a} : request'[b] = request[b]
  BY <1>1 DEF Inv, TypeInv, Done, NoRequest
<1>4. /\ \A b \in Admins : request'[b] # request[b] => request'[b].op = "none"
      /\ \A i, n : Row(i, n)' = Row(i, n)
      /\ \A i, c, t : Backed(i, c, t)' <=> Backed(i, c, t)
  BY <1>1, <1>3 DEF Row, Backed
<1>5. TypeInv'
  BY <1>1, <1>2, <1>3 DEF Inv, TypeInv
<1>6. Anchored'
  BY <1>1, <1>4 DEF Inv, Anchored
<1>7. CheckersAreClean'
  BY <1>1, <1>4 DEF Inv, CheckersAreClean
<1>8. SentIsStored'
  BY <1>4 DEF Inv, SentIsStored
<1>9. StampsLeadToTheText' /\ FourEyes'
  BY <1>1, <1>4 DEF Inv, StampsLeadToTheText, FourEyes
<1> QED
  BY <1>5, <1>6, <1>7, <1>8, <1>9 DEF Inv

-----------------------------------------------------------------------------
LEMMA SameRowsKeepInv ==
  ASSUME Inv, UNCHANGED <<versions, store, request>>
  PROVE  Inv'
  BY DEF Inv, TypeInv, Anchored, CheckersAreClean, SentIsStored, StampsLeadToTheText,
     FourEyes, Backed, Row

LEMMA NextKeepsInv == Inv /\ [Next]_vars => Inv'
<1> SUFFICES ASSUME Inv, [Next]_vars PROVE Inv'
  OBVIOUS
<1>1. ASSUME NEW a \in Admins,
             \/ \E i \in Items : CreateItem(a, i)
             \/ \E i \in Items, date \in 0..MaxDate : CreateVersion(a, i, date)
             \/ \E b \in Bundles : Import(a, b)
             \/ \E i \in Items, n \in 1..MaxVersions : Rollback(a, i, n)
      PROVE  Inv'
  BY <1>1, DraftsKeepInv
<1>2. ASSUME NEW a \in Admins, NEW i \in Items, NEW n \in 1..MaxVersions,
             \/ BeginSubmit(a, i, n) \/ BeginReject(a, i, n)
             \/ BeginApprove(a, i, n) \/ BeginApproveStored(a, i, n)
      PROVE  Inv'
  BY <1>2, ChecksKeepInv
<1>3. ASSUME NEW a \in Admins, CommitSubmit(a) PROVE Inv'
  BY <1>3, SubmitKeepsInv
<1>4. ASSUME NEW a \in Admins, CommitApprove(a) PROVE Inv'
  BY <1>4, ApproveKeepsInv
<1>5. ASSUME NEW a \in Admins, CommitReject(a) PROVE Inv'
  BY <1>5, RejectKeepsInv
<1>6. ASSUME NEW a \in Admins, Abandon(a) PROVE Inv'
  BY <1>6, AbandonKeepsInv
<1>7. CASE Tick
  BY <1>7, SameRowsKeepInv DEF Tick
<1>8. CASE UNCHANGED vars
  BY <1>8, SameRowsKeepInv DEF vars
<1> QED
  BY <1>1, <1>2, <1>3, <1>4, <1>5, <1>6, <1>7, <1>8 DEF Next

LEMMA InvHolds == Spec => []Inv
  BY InitInv, NextKeepsInv, PTL DEF Spec

-----------------------------------------------------------------------------
(* What is in force while the decisions on an item do not disturb one another *)

\* then published and in force are the same
LEMMA PublishedIsInForce ==
  TypeInv => \A i \in Items : OneInForce(i) =>
               /\ PublishedRows(i) = {} => Published(i) = 0
               /\ \A n \in PublishedRows(i) : Published(i) = n /\ n # 0
<1> SUFFICES ASSUME TypeInv, NEW i \in Items, OneInForce(i)
             PROVE  /\ PublishedRows(i) = {} => Published(i) = 0
                    /\ \A n \in PublishedRows(i) : Published(i) = n /\ n # 0
  OBVIOUS
<1>1. InForce(i) = PublishedRows(i)
  BY DEF InForce, PublishedRows, OneInForce
<1>2. PublishedRows(i) = {} => Published(i) = 0
  BY <1>1 DEF Published
<1>3. ASSUME NEW n \in PublishedRows(i) PROVE Published(i) = n /\ n # 0
  <2>1. n \in Nat /\ n # 0
    BY RowsAreVersions DEF PublishedRows
  <2>2. InForce(i) = {n}
    BY <1>1, <1>3 DEF OneInForce
  <2> QED
    BY <2>1, <2>2 DEF Published
<1> QED
  BY <1>2, <1>3

LEMMA PublishedIsInForceLater ==
  TypeInv' => \A i \in Items : OneInForce(i)' =>
                /\ PublishedRows(i)' = {} => Published(i)' = 0
                /\ \A n \in PublishedRows(i)' : Published(i)' = n /\ n # 0
<1>1. (TypeInv => \A i \in Items : OneInForce(i) =>
                    /\ PublishedRows(i) = {} => Published(i) = 0
                    /\ \A n \in PublishedRows(i) : Published(i) = n /\ n # 0)'
  BY PublishedIsInForce, PTL
<1> QED
  BY <1>1

\* a step that publishes nothing of an item and retires nothing leaves in force what was
LEMMA SameInForce ==
  ASSUME Inv, TypeInv', NEW i \in Items, OneInForce(i),
         today \in Nat, today' \in Nat, today <= today',
         PublishedRows(i)' = PublishedRows(i),
         \A n \in PublishedRows(i) : versions'[i][n].date = versions[i][n].date
  PROVE  OneInForce(i)' /\ Published(i)' = Published(i)
<1>1. ASSUME NEW n \in PublishedRows(i) PROVE versions'[i][n].date <= today'
  <2>1. versions[i][n].date \in Int /\ versions[i][n].date <= today
    BY RowsAreVersions, MastersAssumption DEF Inv, OneInForce, PublishedRows, Version
  <2> QED
    BY <2>1
<1>2. OneInForce(i)'
  BY <1>1 DEF OneInForce
<1>3. /\ PublishedRows(i) = {} => Published(i) = 0
      /\ \A n \in PublishedRows(i) : Published(i) = n
  BY PublishedIsInForce DEF Inv
<1>4. /\ PublishedRows(i)' = {} => Published(i)' = 0
      /\ \A n \in PublishedRows(i)' : Published(i)' = n
  BY <1>2, PublishedIsInForceLater
<1> QED
  BY <1>2, <1>3, <1>4

\* of an item that stays undisturbed, the step takes nothing out of service
StaysInService == \A i \in Items : undisturbed'[i] /\ Published(i) # 0 => Published(i)' # 0

\* if that is so of every item, and the requests after the step have found what is so now,
\* all of ServiceInv holds after it
LEMMA SameServiceKept ==
  ASSUME Inv, Inv', ServiceInv,
         undisturbed' \in [Items -> BOOLEAN],
         \A i \in Items : undisturbed'[i] => undisturbed[i],
         today' \in Nat, today <= today',
         \A i \in Items : undisturbed'[i] =>
           /\ PublishedRows(i)' = PublishedRows(i)
           /\ \A n \in PublishedRows(i) : versions'[i][n].date = versions[i][n].date,
         \A a \in Admins : request'[a].op = "none" => request'[a] = NoRequest,
         \A a \in Admins : request'[a].op # "none" /\ undisturbed'[request'[a].item] =>
           /\ request'[a].no \notin PublishedRows(request'[a].item)
           /\ request'[a].op = "approve" => request'[a].retires = Published(request'[a].item)
  PROVE  ServiceInv' /\ StaysInService
<1>1. \A i \in Items : undisturbed'[i] => OneInForce(i)' /\ Published(i)' = Published(i)
  BY SameInForce DEF Inv, ServiceInv, Alone
<1>2. Alone'
  BY <1>1 DEF Alone
<1>3. \A a \in Admins : request'[a].op # "none" => request'[a].item \in Items
  BY DEF Inv, Anchored
<1>4. FoundIsStillSo'
  BY <1>1, <1>3 DEF FoundIsStillSo
<1>5. StaysInService
  BY <1>1 DEF StaysInService
<1> QED
  BY <1>2, <1>4, <1>5 DEF ServiceInv

LEMMA InsertKeepsService ==
  ASSUME Inv, Inv', ServiceInv, NEW rows, Insert(rows),
         \A i \in Items : i \in DOMAIN rows =>
           rows[i] \in Version /\ rows[i].status = "draft" /\ rows[i].commit = 0
  PROVE  ServiceInv' /\ StaysInService
<1>1. UNCHANGED <<today, request, undisturbed>>
  BY DEF Insert
<1>2. \A i \in Items :
        /\ DOMAIN versions[i] \subseteq DOMAIN versions'[i]
        /\ \A n \in DOMAIN versions[i] : versions'[i][n] = versions[i][n]
        /\ \A n \in DOMAIN versions'[i] \ DOMAIN versions[i] :
             versions'[i][n].status = "draft"
  BY InsertedRows DEF Inv
<1>3. \A i \in Items : /\ PublishedRows(i)' = PublishedRows(i)
                       /\ \A n \in PublishedRows(i) :
                            versions'[i][n].date = versions[i][n].date
  BY <1>2 DEF PublishedRows
<1>4. \A a \in Admins : request[a].op # "none" /\ undisturbed[request[a].item] =>
        /\ request[a].no \notin PublishedRows(request[a].item)
        /\ request[a].op = "approve" => request[a].retires = Published(request[a].item)
  BY DEF ServiceInv, FoundIsStillSo
<1> QED
  BY <1>1, <1>3, <1>4, SameServiceKept DEF ServiceInv

LEMMA BeginKeepsService ==
  ASSUME Inv, Inv', ServiceInv, NEW a \in Admins, NEW r, Begin(a, r),
         r.op # "none", r.no \notin PublishedRows(r.item),
         r.op = "approve" => r.retires = Published(r.item)
  PROVE  ServiceInv' /\ StaysInService
<1>1. UNCHANGED <<versions, today, undisturbed>> /\ request' = [request EXCEPT ![a] = r]
  BY DEF Begin
<1>2. \A b \in Admins : request'[b] = IF b = a THEN r ELSE request[b]
  BY <1>1 DEF Inv, TypeInv
<1>3. \A i \in Items : /\ PublishedRows(i)' = PublishedRows(i)
                       /\ \A n \in PublishedRows(i) :
                            versions'[i][n].date = versions[i][n].date
  BY <1>1 DEF PublishedRows
<1>4. \A b \in Admins : request'[b].op # "none" /\ undisturbed[request'[b].item] =>
        /\ request'[b].no \notin PublishedRows(request'[b].item)
        /\ request'[b].op = "approve" => request'[b].retires = Published(request'[b].item)
  BY <1>2 DEF ServiceInv, FoundIsStillSo
<1>5. \A b \in Admins : request'[b].op = "none" => request'[b] = NoRequest
  BY <1>2 DEF ServiceInv
<1> QED
  BY <1>1, <1>3, <1>4, <1>5, SameServiceKept DEF ServiceInv

LEMMA ChecksKeepService ==
  ASSUME Inv, Inv', ServiceInv, NEW a \in Admins, NEW i \in Items, NEW n \in 1..MaxVersions,
         \/ BeginSubmit(a, i, n) \/ BeginReject(a, i, n)
         \/ BeginApprove(a, i, n) \/ BeginApproveStored(a, i, n)
  PROVE  ServiceInv' /\ StaysInService
<1>1. n \notin PublishedRows(i)
  BY DEF BeginSubmit, BeginReject, BeginApprove, BeginApproveStored, MayApprove, PublishedRows
<1>2. CASE BeginSubmit(a, i, n)
  BY <1>1, <1>2, BeginKeepsService DEF BeginSubmit
<1>3. CASE BeginReject(a, i, n)
  BY <1>1, <1>3, BeginKeepsService DEF BeginReject
<1>4. CASE BeginApprove(a, i, n)
  BY <1>1, <1>4, BeginKeepsService DEF BeginApprove, Approval
<1>5. CASE BeginApproveStored(a, i, n)
  BY <1>1, <1>5, BeginKeepsService DEF BeginApproveStored, Approval
<1> QED
  BY <1>2, <1>3, <1>4, <1>5

\* a decision leaves its item undisturbed only if it was the only one on it
LEMMA DecidedAlone ==
  ASSUME Inv, ServiceInv, NEW a \in Admins, NEW i \in Items, NEW later, Decided(a, i, later)
  PROVE  /\ undisturbed' \in [Items -> BOOLEAN]
         /\ \A j \in Items : undisturbed'[j] => undisturbed[j]
         /\ undisturbed'[i] => ~later
         /\ undisturbed'[i] =>
              \A b \in Admins \ {a} : request[b].op # "none" => request[b].item # i
         /\ request'[a] = NoRequest
         /\ \A b \in Admins \ {a} : request'[b] = request[b]
<1>1. undisturbed \in [Items -> BOOLEAN]
  BY DEF ServiceInv
<1>2. PICK quiet \in BOOLEAN :
        /\ quiet <=> undisturbed[i] /\ ~later /\ \A b \in Admins \ {a} : ~Deciding(b, i)
        /\ undisturbed' = [undisturbed EXCEPT ![i] = quiet]
  <2> DEFINE q == undisturbed[i] /\ ~later /\ \A b \in Admins \ {a} : ~Deciding(b, i)
  <2>1. q \in BOOLEAN
    BY Zenon
  <2>2. undisturbed' = [undisturbed EXCEPT ![i] = q]
    BY DEF Decided
  <2> QED
    BY <2>1, <2>2, Zenon
<1>3. undisturbed' \in [Items -> BOOLEAN]
  BY <1>1, <1>2
<1>4. \A j \in Items : undisturbed'[j] => undisturbed[j]
  BY <1>1, <1>2
<1>5. undisturbed'[i] => quiet
  BY <1>1, <1>2
<1>6. \A b \in Admins \ {a} : request[b].op # "none" /\ request[b].item = i => Deciding(b, i)
  BY DEF Deciding, NoRequest
<1>7. /\ request'[a] = NoRequest
      /\ \A b \in Admins \ {a} : request'[b] = request[b]
  BY DEF Decided, Done, Inv, TypeInv
<1> QED
  BY <1>2, <1>3, <1>4, <1>5, <1>6, <1>7

\* submitting and rejecting change a row that is not published into one that is not
LEMMA MarkKeepsService ==
  ASSUME Inv, Inv', ServiceInv, NEW a \in Admins,
         CommitSubmit(a) \/ CommitReject(a)
  PROVE  ServiceInv' /\ StaysInService
<1> DEFINE i == request[a].item
           m == request[a].no
<1>1. i \in Items /\ m \in DOMAIN versions[i] /\ request[a].op # "none"
  BY DEF Inv, Anchored, CommitSubmit, CommitReject
<1>2. Decided(a, i, FALSE)
  BY DEF CommitSubmit, CommitReject
<1>3. PICK v : /\ versions' = [versions EXCEPT ![i] = [versions[i] EXCEPT ![m] = v]]
               /\ v.status # "published"
  <2>1. versions[i][m] \in Version
    BY <1>1, RowsAreVersions DEF Inv
  <2>2. CASE CommitSubmit(a)
    <3> DEFINE w == [versions[i][m] EXCEPT !.status = "in_review", !.submitter = a]
    <3>1. w.status = "in_review"
      BY <2>1 DEF Version
    <3>2. versions' = [versions EXCEPT ![i] = [versions[i] EXCEPT ![m] = w]]
      BY <1>1, <2>2 DEF CommitSubmit
    <3> HIDE DEF w
    <3> QED
      BY <3>1, <3>2
  <2>3. CASE CommitReject(a)
    <3> DEFINE w == [versions[i][m] EXCEPT !.status = "rejected", !.decider = a]
    <3>1. w.status = "rejected"
      BY <2>1 DEF Version
    <3>2. versions' = [versions EXCEPT ![i] = [versions[i] EXCEPT ![m] = w]]
      BY <1>1, <2>3 DEF CommitReject
    <3> HIDE DEF w
    <3> QED
      BY <3>1, <3>2
  <2> QED
    BY <2>2, <2>3
<1>4. undisturbed[i] => m \notin PublishedRows(i)
  BY <1>1 DEF ServiceInv, FoundIsStillSo
<1>5. /\ undisturbed' \in [Items -> BOOLEAN]
      /\ \A j \in Items : undisturbed'[j] => undisturbed[j]
      /\ request'[a] = NoRequest
      /\ \A b \in Admins \ {a} : request'[b] = request[b]
  BY <1>1, <1>2, DecidedAlone
<1>6. today' = today
  BY <1>2 DEF Decided
<1>7. versions \in [Items -> Rows] /\ versions[i] = [n \in DOMAIN versions[i] |-> versions[i][n]]
  BY <1>1, RowsAreVersions DEF Inv, TypeInv
<1>8. /\ \A j \in Items \ {i} : versions'[j] = versions[j]
      /\ DOMAIN versions'[i] = DOMAIN versions[i]
      /\ \A n \in DOMAIN versions[i] : versions'[i][n] = IF n = m THEN v ELSE versions[i][n]
  BY <1>1, <1>3, <1>7
<1> HIDE DEF i, m
<1>9. ASSUME NEW j \in Items, undisturbed'[j]
      PROVE  /\ PublishedRows(j)' = PublishedRows(j)
             /\ \A n \in PublishedRows(j) : versions'[j][n].date = versions[j][n].date
  <2>1. CASE j # i
    BY <2>1, <1>8 DEF PublishedRows
  <2>2. CASE j = i
    BY <2>2, <1>3, <1>4, <1>5, <1>8, <1>9 DEF PublishedRows
  <2> QED
    BY <2>1, <2>2
<1>10. \A b \in Admins : request'[b].op # "none" =>
         request'[b] = request[b]
  BY <1>5 DEF NoRequest
<1>11. \A b \in Admins : request'[b].op # "none" /\ undisturbed'[request'[b].item] =>
         /\ request'[b].no \notin PublishedRows(request'[b].item)
         /\ request'[b].op = "approve" => request'[b].retires = Published(request'[b].item)
  BY <1>5, <1>10 DEF ServiceInv, FoundIsStillSo, Inv, Anchored
<1>12. \A b \in Admins : request'[b].op = "none" => request'[b] = NoRequest
  BY <1>5 DEF ServiceInv
<1>13. today \in Nat
  BY DEF ServiceInv
<1> QED
  BY <1>5, <1>6, <1>9, <1>11, <1>12, <1>13, SameServiceKept

\* what approving makes of the rows of an item
LEMMA ApprovedRows ==
  ASSUME Inv, NEW a \in Admins, CommitApprove(a)
  PROVE  LET i == request[a].item
             m == request[a].no
         IN /\ \A j \in Items \ {i} : versions'[j] = versions[j]
            /\ DOMAIN versions'[i] = DOMAIN versions[i]
            /\ versions'[i][m].status = "published"
            /\ versions'[i][m].date = versions[i][m].date
            /\ \A n \in DOMAIN versions[i] \ {m} :
                 versions'[i][n] = Retire(versions[i], request[a].retires)[n]
<1> DEFINE i == request[a].item
           m == request[a].no
           t == Retire(versions[i], request[a].retires)
           c == Stamp(request[a])
           v == [t[m] EXCEPT !.status = "published", !.decider = a, !.commit = c]
<1>1. i \in Items /\ m \in DOMAIN versions[i]
  BY DEF Inv, Anchored, CommitApprove
<1>2. versions[i] \in Seq(Version) /\ versions \in [Items -> Rows]
  BY <1>1, RowsAreVersions DEF Inv, TypeInv
<1>3. t \in Seq(Version) /\ Len(t) = Len(versions[i])
  BY <1>2, RetireKeepsRows
<1>4. m \in DOMAIN t /\ DOMAIN t = DOMAIN versions[i] /\ t[m] \in Version
  BY <1>1, <1>2, <1>3
<1>5. t[m].date = versions[i][m].date
  BY <1>1, <1>2, RetireKeepsRows
<1>6. versions' = [versions EXCEPT ![i] = [t EXCEPT ![m] = v]]
  BY DEF CommitApprove
<1> HIDE DEF t, c
<1>7. v.status = "published" /\ v.date = t[m].date
  BY <1>4 DEF Version
<1> HIDE DEF v
<1>8. versions'[i] = [t EXCEPT ![m] = v] /\ \A j \in Items \ {i} : versions'[j] = versions[j]
  BY <1>1, <1>2, <1>6
<1>9. /\ DOMAIN versions'[i] = DOMAIN t
      /\ versions'[i][m] = v
      /\ \A n \in DOMAIN t \ {m} : versions'[i][n] = t[n]
  BY <1>3, <1>4, <1>8
<1> QED
  BY <1>4, <1>5, <1>7, <1>8, <1>9 DEF t

\* approving puts the version in the place of the one that was in force
LEMMA ApproveKeepsService ==
  ASSUME Inv, Inv', ServiceInv, NEW a \in Admins, CommitApprove(a)
  PROVE  ServiceInv' /\ StaysInService
<1>0. PICK i \in Items : i = request[a].item
  BY DEF Inv, Anchored, CommitApprove
<1>1. PICK m \in DOMAIN versions[i] : m = request[a].no
  BY <1>0 DEF Inv, Anchored, CommitApprove
<1>2. request[a].op = "approve" /\ Decided(a, i, versions[i][m].date > today)
  BY <1>0, <1>1 DEF CommitApprove
<1>3. /\ undisturbed' \in [Items -> BOOLEAN]
      /\ \A j \in Items : undisturbed'[j] => undisturbed[j]
      /\ undisturbed'[i] => ~(versions[i][m].date > today)
      /\ undisturbed'[i] =>
           \A b \in Admins \ {a} : request[b].op # "none" => request[b].item # i
      /\ request'[a] = NoRequest
      /\ \A b \in Admins \ {a} : request'[b] = request[b]
  BY <1>2, DecidedAlone
<1>4. today' = today /\ today \in Nat
  BY <1>2 DEF Decided, ServiceInv
<1>5. /\ \A j \in Items \ {i} : versions'[j] = versions[j]
      /\ DOMAIN versions'[i] = DOMAIN versions[i]
      /\ versions'[i][m].status = "published"
      /\ versions'[i][m].date = versions[i][m].date
      /\ \A n \in DOMAIN versions[i] \ {m} :
           versions'[i][n] = Retire(versions[i], request[a].retires)[n]
  BY <1>0, <1>1, ApprovedRows
<1>6. ASSUME NEW j \in Items \ {i}, undisturbed'[j]
      PROVE  OneInForce(j)' /\ Published(j)' = Published(j) /\ PublishedRows(j)' = PublishedRows(j)
  <2>1. OneInForce(j) /\ versions'[j] = versions[j]
    BY <1>3, <1>5, <1>6 DEF ServiceInv, Alone
  <2>2. PublishedRows(j)' = PublishedRows(j)
    BY <2>1 DEF PublishedRows
  <2> QED
    BY <1>4, <2>1, <2>2, SameInForce DEF Inv
<1>7. ASSUME undisturbed'[i] PROVE OneInForce(i)' /\ Published(i)' # 0
  <2>1. /\ OneInForce(i) /\ request[a].retires = Published(i) /\ m \notin PublishedRows(i)
    BY <1>0, <1>1, <1>2, <1>3, <1>7 DEF ServiceInv, Alone, FoundIsStillSo
  <2>2. \A n \in PublishedRows(i) : Published(i) = n /\ n # 0
    BY <2>1, PublishedIsInForce DEF Inv
  <2>3. ASSUME NEW n \in DOMAIN versions[i] \ {m} PROVE versions'[i][n].status # "published"
    <3>1. versions'[i][n] = Retire(versions[i], Published(i))[n]
      BY <1>5, <2>1
    <3>2. versions[i] \in Seq(Version) /\ versions[i][n] \in Version
      BY RowsAreVersions DEF Inv
    <3>3. CASE n \in PublishedRows(i)
      <4>1. Retire(versions[i], Published(i)) = [versions[i] EXCEPT ![n].status = "retired"]
        BY <2>2, <3>3 DEF Retire
      <4>2. Retire(versions[i], Published(i))[n] = [versions[i][n] EXCEPT !.status = "retired"]
        BY <3>2, <4>1
      <4> QED
        BY <3>1, <3>2, <4>2 DEF Version
    <3>4. CASE n \notin PublishedRows(i)
      BY <3>1, <3>2, <3>4, RetireKeepsRows DEF PublishedRows
    <3> QED
      BY <3>3, <3>4
  <2>4. PublishedRows(i)' = {m}
    BY <1>5, <2>3 DEF PublishedRows
  <2>5. versions'[i][m].date <= today'
    <3>1. versions[i][m].date \in Int
      BY RowsAreVersions, MastersAssumption DEF Inv, Version
    <3> QED
      BY <1>3, <1>4, <1>5, <1>7, <3>1
  <2>6. OneInForce(i)'
    BY <2>4, <2>5 DEF OneInForce
  <2> QED
    BY <2>4, <2>6, PublishedIsInForceLater DEF Inv
<1>8. Alone'
  BY <1>6, <1>7 DEF Alone
<1>9. \A b \in Admins : request'[b].op # "none" => b # a /\ request'[b] = request[b]
  BY <1>3 DEF NoRequest
<1>10. FoundIsStillSo'
  <2> SUFFICES ASSUME NEW b \in Admins, request'[b].op # "none",
                      undisturbed'[request'[b].item]
               PROVE  (/\ request[b].no \notin PublishedRows(request[b].item)
                       /\ request[b].op = "approve" =>
                            request[b].retires = Published(request[b].item))'
    BY DEF FoundIsStillSo
  <2>1. b # a /\ request'[b] = request[b]
    BY <1>9
  <2>2. PICK j \in Items : j = request[b].item
    BY <2>1 DEF Inv, Anchored
  <2>3. j # i
    BY <1>3, <2>1, <2>2
  <2>4. Published(j)' = Published(j) /\ PublishedRows(j)' = PublishedRows(j)
    BY <1>6, <2>1, <2>2, <2>3
  <2>5. /\ request[b].no \notin PublishedRows(j)
        /\ request[b].op = "approve" => request[b].retires = Published(j)
    BY <1>3, <2>1, <2>2 DEF ServiceInv, FoundIsStillSo
  <2>6. /\ request[b].no \notin PublishedRows(j)'
        /\ request[b].op = "approve" => request[b].retires = Published(j)'
    BY <2>4, <2>5
  <2> QED
    BY <2>1, <2>2, <2>6
<1>11. \A b \in Admins : request'[b].op = "none" => request'[b] = NoRequest
  BY <1>3 DEF ServiceInv
<1>12. StaysInService
  BY <1>6, <1>7 DEF StaysInService
<1> QED
  BY <1>3, <1>4, <1>8, <1>10, <1>11, <1>12 DEF ServiceInv

LEMMA OthersKeepService ==
  ASSUME Inv, Inv', ServiceInv,
         (\E a \in Admins : Abandon(a)) \/ Tick \/ UNCHANGED vars
  PROVE  ServiceInv' /\ StaysInService
<1>1. versions' = versions /\ undisturbed' = undisturbed
  BY DEF Abandon, Tick, vars
<1>2. today' \in Nat /\ today <= today' /\ today \in Nat
  BY DEF ServiceInv, Abandon, Tick, vars
<1>3. \A b \in Admins : request'[b] = request[b] \/ request'[b] = NoRequest
  BY DEF Abandon, Done, Tick, vars, Inv, TypeInv
<1>4. \A i \in Items : /\ PublishedRows(i)' = PublishedRows(i)
                       /\ \A n \in PublishedRows(i) :
                            versions'[i][n].date = versions[i][n].date
  BY <1>1 DEF PublishedRows
<1>5. \A b \in Admins : request'[b].op # "none" /\ undisturbed'[request'[b].item] =>
        /\ request'[b].no \notin PublishedRows(request'[b].item)
        /\ request'[b].op = "approve" => request'[b].retires = Published(request'[b].item)
  BY <1>1, <1>3 DEF ServiceInv, FoundIsStillSo, NoRequest
<1>6. \A b \in Admins : request'[b].op = "none" => request'[b] = NoRequest
  BY <1>3 DEF ServiceInv
<1> QED
  BY <1>1, <1>2, <1>4, <1>5, <1>6, SameServiceKept DEF ServiceInv

LEMMA NextKeepsService == Inv /\ Inv' /\ ServiceInv /\ [Next]_vars => ServiceInv' /\ StaysInService
<1> SUFFICES ASSUME Inv, Inv', ServiceInv, [Next]_vars PROVE ServiceInv' /\ StaysInService
  OBVIOUS
<1>1. ASSUME NEW a \in Admins,
             \/ \E i \in Items : CreateItem(a, i)
             \/ \E i \in Items, date \in 0..MaxDate : CreateVersion(a, i, date)
             \/ \E b \in Bundles : Import(a, b)
             \/ \E i \in Items, n \in 1..MaxVersions : Rollback(a, i, n)
      PROVE  ServiceInv' /\ StaysInService
  <2>1. PICK rows : /\ Insert(rows)
                    /\ \A i \in Items : i \in DOMAIN rows =>
                         rows[i] \in Version /\ rows[i].status = "draft" /\ rows[i].commit = 0
    BY <1>1, DraftsAreInserted
  <2> QED
    BY <2>1, InsertKeepsService
<1>2. ASSUME NEW a \in Admins, NEW i \in Items, NEW n \in 1..MaxVersions,
             \/ BeginSubmit(a, i, n) \/ BeginReject(a, i, n)
             \/ BeginApprove(a, i, n) \/ BeginApproveStored(a, i, n)
      PROVE  ServiceInv' /\ StaysInService
  BY <1>2, ChecksKeepService
<1>3. ASSUME NEW a \in Admins, CommitSubmit(a) \/ CommitReject(a)
      PROVE  ServiceInv' /\ StaysInService
  BY <1>3, MarkKeepsService
<1>4. ASSUME NEW a \in Admins, CommitApprove(a) PROVE ServiceInv' /\ StaysInService
  BY <1>4, ApproveKeepsService
<1>5. CASE (\E a \in Admins : Abandon(a)) \/ Tick \/ UNCHANGED vars
  BY <1>5, OthersKeepService
<1> QED
  BY <1>1, <1>2, <1>3, <1>4, <1>5 DEF Next

LEMMA ServiceInvHolds == Spec => []ServiceInv
<1>1. Init => ServiceInv
  <2> SUFFICES ASSUME Init PROVE ServiceInv
    OBVIOUS
  <2>1. today \in Nat /\ undisturbed \in [Items -> BOOLEAN]
    BY DEF Init
  <2>2. \A a \in Admins : request[a] = NoRequest
    BY DEF Init
  <2>3. \A i \in Items : PublishedRows(i) = {}
    BY DEF Init, PublishedRows
  <2>4. Alone
    BY <2>3 DEF Alone, OneInForce
  <2> QED
    BY <2>1, <2>2, <2>4 DEF ServiceInv, FoundIsStillSo, NoRequest
<1> QED
  BY <1>1, InvHolds, NextKeepsService, PTL DEF Spec

\* While no two decisions on an item overlap and none of them approves a version for a later
\* date, at most one version of the item is published: approving retires its predecessor
\* (engine.approve).
THEOREM OnePublishedAlways == Spec => []OnePublished
<1>1. ASSUME Inv, ServiceInv PROVE OnePublished
  <2> SUFFICES ASSUME NEW i \in Items, undisturbed[i]
               PROVE  Cardinality(PublishedRows(i)) <= 1
    BY DEF OnePublished, PublishedRows
  <2>1. \A n, m \in PublishedRows(i) : m = n
    BY <1>1 DEF ServiceInv, Alone, OneInForce
  <2>2. CASE PublishedRows(i) = {}
    BY <2>2, FS_EmptySet
  <2>3. CASE PublishedRows(i) # {}
    <3>1. PICK n : PublishedRows(i) = {n}
      BY <2>1, <2>3
    <3> QED
      BY <3>1, FS_Singleton
  <2> QED
    BY <2>2, <2>3
<1> QED
  BY <1>1, InvHolds, ServiceInvHolds, PTL

\* On the same proviso no step takes an item out of service: submitting, rejecting, rolling
\* back and importing leave in force what is, approving exchanges it (engine.approve, .reject).
THEOREM ServiceIsNeverLost == Spec => ServiceNeverLost
<1>1. ASSUME Inv, Inv', ServiceInv, [Next]_vars
      PROVE  [\A i \in Items : undisturbed'[i] /\ Published(i) # 0 => Published(i)' # 0]_vars
  BY <1>1, NextKeepsService DEF StaysInService
<1> QED
  BY <1>1, InvHolds, ServiceInvHolds, PTL DEF Spec, ServiceNeverLost

\* What is in force was approved by an admin who neither made nor submitted it, for any
\* number of admins, items and versions and with any decisions overlapping (engine.approve).
THEOREM FourEyesAlways == Spec => []FourEyes
<1>1. Inv => FourEyes
  BY DEF Inv
<1> QED
  BY <1>1, InvHolds, PTL

\* The store returns the approved text for the reference on a published version, however
\* many versions were sent to it and whichever of their decisions failed (resolve_template).
THEOREM ServedTextAlways == Spec => []ServedTextWasApproved
<1>1. Inv => ServedTextWasApproved
  <2> SUFFICES ASSUME Inv, NEW i \in Prompts, NEW n \in DOMAIN versions[i]
               PROVE  Served(i, n) = {versions[i][n].text}
    BY DEF ServedTextWasApproved
  <2>1. Backed(i, versions[i][n].commit, versions[i][n].text)
    BY MastersAssumption DEF Inv, StampsLeadToTheText, Row
  <2> QED
    BY <2>1 DEF Served, Fetched, Backed
<1> QED
  BY <1>1, InvHolds, PTL
=============================================================================
