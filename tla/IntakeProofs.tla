---------------------------- MODULE IntakeProofs ----------------------------
(***************************************************************************)
(* No source is lost without notice, for any files, requests and documents *)
(* and wherever a request fails: a ready document keeps its blob and its   *)
(* text until its deletion begins, one that is gone or quarantined is      *)
(* refused, and the index holds one cut of a document unless two           *)
(* indexings of it overlapped.                                             *)
(* And each content counts once: an upload that finds no copy stays the    *)
(* first of its content, because nobody else uploads that content by then. *)
(***************************************************************************)
EXTENDS DocumentIntake, FiniteSetTheorems, WellFoundedInduction, TLAPS

TypeInv ==
  /\ used \in 0..MaxDocs
  /\ managed \in BOOLEAN
  /\ row = [d \in Docs |-> row[d]]
  /\ extract = [d \in Docs |-> extract[d]]
  /\ cuts = [d \in Docs |-> cuts[d]]
  /\ request = [a \in Actors |-> request[a]]
  /\ \A a \in Actors : Uploads(a) => {"op", "step", "doc", "file", "twin"} \subseteq DOMAIN request[a]

(***************************************************************************)
(* An id is given out once: what a request is about has been given out, a  *)
(* document is uploaded by one request and has no row before that inserts  *)
(* it, so that no other request indexes it by then.                        *)
(***************************************************************************)
IdsAreOnce ==
  /\ \A d \in Docs : d > used => ~Exists(d)
  /\ \A a \in Actors : request[a].op \in {"upload", "index", "delete"}
       => request[a].doc \in 1..used
  /\ \A a \in Actors : Uploads(a) => ~Exists(request[a].doc)
  /\ \A a, b \in Actors : Uploads(a) /\ a # b /\ (Uploads(b) \/ request[b].op = "index")
       => request[a].doc # request[b].doc

\* the blob is there before the row is, and so is the text of one that will read "ready"
UploadsStoreFirst ==
  \A a \in Actors : Uploads(a) =>
    /\ request[a].doc \in blob
    /\ request[a].step = "ready" => extract[request[a].doc] = "text"

ReadyIsStored ==
  \A d \in Docs : row[d].status = "ready" /\ d \notin doomed =>
    d \in blob /\ extract[d] = "text"

WritesCuts(a, d) == Indexes(a, d) /\ request[a].step = "write"

\* two requests write the cuts of a document at the same time only if it is doubled; one that
\* does not share it replaces all that is there
IndexedApart ==
  \A d \in Docs \ doubled :
    /\ \A x, y \in cuts[d] : x = y
    /\ \A a, b \in Actors : WritesCuts(a, d) /\ WritesCuts(b, d) => a = b
    /\ \A a \in Actors : WritesCuts(a, d) /\ ~managed /\ Exists(d)
         => request[a].replaced = cuts[d]

Inv ==
  /\ TypeInv
  /\ IdsAreOnce
  /\ UploadsStoreFirst
  /\ ReadyIsStored
  /\ IndexedApart

-----------------------------------------------------------------------------
LEMMA InitInv == Init => Inv
<1> SUFFICES ASSUME Init PROVE Inv
  OBVIOUS
<1>1. \A a \in Actors : request[a].op = "none"
  BY DEF Init, Idle
<1>2. \A d \in Docs : row[d].status = "gone" /\ cuts[d] = {}
  BY DEF Init, Gone
<1>3. TypeInv
  BY <1>1, IntakeAssumption DEF Init, TypeInv, Uploads
<1>4. IdsAreOnce
  BY <1>1, <1>2 DEF IdsAreOnce, Exists, Uploads
<1>5. UploadsStoreFirst /\ ReadyIsStored /\ IndexedApart
  BY <1>1, <1>2 DEF UploadsStoreFirst, Uploads, ReadyIsStored, IndexedApart, WritesCuts, Indexes
<1> QED
  BY <1>3, <1>4, <1>5 DEF Inv

\* the request of one actor moves
LEMMA Moves ==
  ASSUME TypeInv, NEW a \in Actors, NEW r, Goes(a, r)
  PROVE  /\ request' = [b \in Actors |-> request'[b]]
         /\ request'[a] = r
         /\ \A b \in Actors \ {a} : request'[b] = request[b]
  BY DEF TypeInv, Goes

LEMMA IdsAreDocs ==
  ASSUME TypeInv
  PROVE  used \in Nat /\ 1..used \subseteq Docs
  BY IntakeAssumption DEF TypeInv, Docs

\* A request takes up or drops work that touches no document: it ends, goes on to tag, or is
\* about to index a document that has a row or that it was going to index.
LEMMA MoveKeepsInv ==
  ASSUME Inv, NEW a \in Actors, NEW r, Goes(a, r),
         UNCHANGED <<managed, used, row, blob, extract, cuts, doomed, doubled>>,
         \/ r.op \in {"none", "tag"}
         \/ /\ r.op = "index" /\ r.step = "start" /\ r.doc \in 1..used
            /\ Exists(r.doc) \/ Indexes(a, r.doc)
  PROVE  Inv'
<1>1. /\ request' = [b \in Actors |-> request'[b]]
      /\ request'[a] = r
      /\ \A b \in Actors \ {a} : request'[b] = request[b]
  BY Moves DEF Inv
<1>2. \A d : Exists(d)' <=> Exists(d)
  BY DEF Exists
<1>3. \A b \in Actors : Uploads(b)' => b # a /\ Uploads(b) /\ request'[b] = request[b]
  BY <1>1 DEF Uploads
<1>4. TypeInv'
  BY <1>1, <1>3 DEF Inv, TypeInv
<1>5. IdsAreOnce'
  <2>1. \A b \in Actors : request'[b].op \in {"upload", "index", "delete"}
          => request'[b].doc \in 1..used
    BY <1>1 DEF Inv, IdsAreOnce
  <2>2. ASSUME NEW b, NEW c \in Actors, b \in Actors, Uploads(b)', b # c,
               Uploads(c)' \/ request'[c].op = "index"
        PROVE  request'[b].doc # request'[c].doc
    <3>1. CASE c # a
      BY <1>1, <1>3, <2>2, <3>1 DEF Inv, IdsAreOnce
    <3>2. CASE c = a
      <4>1. r.op = "index" /\ (Exists(r.doc) \/ Indexes(a, r.doc))
        BY <1>1, <2>2, <3>2 DEF Uploads
      <4>2. Uploads(b) /\ request'[b] = request[b] /\ b # a /\ ~Exists(request[b].doc)
        BY <1>3, <2>2 DEF Inv, IdsAreOnce
      <4>3. Indexes(a, r.doc) => request[b].doc # r.doc
        BY <2>2, <4>2 DEF Inv, IdsAreOnce, Indexes
      <4> QED
        BY <1>1, <3>2, <4>1, <4>2, <4>3
    <3> QED
      BY <3>1, <3>2
  <2> QED
    BY <1>2, <1>3, <2>1, <2>2 DEF Inv, IdsAreOnce
<1>6. UploadsStoreFirst'
  BY <1>3 DEF Inv, UploadsStoreFirst
<1>7. ReadyIsStored'
  BY DEF Inv, ReadyIsStored
<1>8. \A b \in Actors, d \in Docs : WritesCuts(b, d)' => WritesCuts(b, d) /\ request'[b] = request[b]
  BY <1>1 DEF WritesCuts, Indexes
<1>9. IndexedApart'
  BY <1>2, <1>8 DEF Inv, IndexedApart
<1> QED
  BY <1>4, <1>5, <1>6, <1>7, <1>9 DEF Inv

LEMMA QuarantineKeepsInv ==
  ASSUME Inv, NEW a \in Actors, NEW f \in Files, Quarantine(a, f)
  PROVE  Inv'
<1>1. /\ used \in Nat /\ used < MaxDocs /\ used' = used + 1
      /\ row' = [row EXCEPT ![used + 1] =
                   [status |-> "quarantined", file |-> f, twin |-> NoDoc, at |-> added + 1]]
      /\ UNCHANGED <<managed, blob, extract, cuts, request, doomed, doubled>>
  BY IdsAreDocs DEF Inv, Quarantine, files, ghosts
<1>2. /\ row' = [d \in Docs |-> row'[d]]
      /\ \A d \in Docs : d # used + 1 => row'[d] = row[d]
      /\ used + 1 \in Docs => row'[used + 1].status = "quarantined"
      /\ used' \in 0..MaxDocs
  BY <1>1, IntakeAssumption DEF Inv, TypeInv
<1>3. \A d \in 1..used : d # used + 1 /\ d \in Docs /\ d \in 1..used'
  BY <1>1, IdsAreDocs DEF Inv
<1>4. TypeInv'
  BY <1>1, <1>2 DEF Inv, TypeInv, Uploads
<1>5. \A b \in Actors : request[b].op \in {"upload", "index", "delete"} =>
        request[b].doc \in 1..used /\ row'[request[b].doc] = row[request[b].doc]
  BY <1>2, <1>3 DEF Inv, IdsAreOnce
<1>6. IdsAreOnce'
  <2>1. \A d \in Docs : d > used' => ~Exists(d)'
    BY <1>1, <1>2 DEF Inv, IdsAreOnce, Exists, Docs
  <2> QED
    BY <1>1, <1>3, <1>5, <2>1 DEF Inv, IdsAreOnce, Exists, Uploads
<1>7. UploadsStoreFirst'
  BY <1>1 DEF Inv, UploadsStoreFirst, Uploads
<1>8. ReadyIsStored'
  BY <1>1, <1>2 DEF Inv, ReadyIsStored
<1>9. IndexedApart'
  <2>1. \A b \in Actors, d \in Docs : WritesCuts(b, d) => (Exists(d)' <=> Exists(d))
    BY <1>5 DEF WritesCuts, Indexes, Exists
  <2> QED
    BY <1>1, <2>1 DEF Inv, IndexedApart, WritesCuts, Indexes
<1> QED
  BY <1>4, <1>6, <1>7, <1>8, <1>9 DEF Inv

LEMMA StoreBlobKeepsInv ==
  ASSUME Inv, NEW a \in Actors, NEW f \in Files, StoreBlob(a, f)
  PROVE  Inv'
<1>0. PICK r : /\ Goes(a, r) /\ r.op = "upload" /\ r.step = "extract" /\ r.doc = used + 1
               /\ {"op", "step", "doc", "file", "twin"} \subseteq DOMAIN r
  BY DEF StoreBlob
<1>1. /\ used \in Nat /\ used < MaxDocs /\ used' = used + 1
      /\ blob' = blob \cup {used + 1}
      /\ UNCHANGED <<managed, row, extract, cuts, doomed, doubled>>
  BY IdsAreDocs DEF Inv, StoreBlob, rows
<1>2. /\ request' = [b \in Actors |-> request'[b]]
      /\ request'[a] = r
      /\ \A b \in Actors \ {a} : request'[b] = request[b]
  BY <1>0, Moves DEF Inv
<1>3. /\ used' \in 0..MaxDocs /\ used + 1 \in Docs /\ used + 1 \in 1..used'
      /\ \A d \in 1..used : d # used + 1 /\ d \in 1..used'
  BY <1>1, IntakeAssumption DEF Docs
<1>4. TypeInv'
  BY <1>0, <1>1, <1>2, <1>3 DEF Inv, TypeInv, Uploads
<1>5. \A b \in Actors \ {a} : request[b].op \in {"upload", "index", "delete"} =>
        request[b].doc # used + 1 /\ request[b].doc \in 1..used'
  BY <1>3 DEF Inv, IdsAreOnce
<1>6. \A d \in Docs : d > used => ~Exists(d)
  BY DEF Inv, IdsAreOnce
<1>7. \A d : Exists(d)' <=> Exists(d)
  BY <1>1 DEF Exists
<1>8. IdsAreOnce'
  <2>1. \A d \in Docs : d > used' => ~Exists(d)'
    BY <1>1, <1>6, <1>7 DEF Docs
  <2>2. \A b \in Actors : request'[b].op \in {"upload", "index", "delete"}
          => request'[b].doc \in 1..used'
    BY <1>0, <1>2, <1>3, <1>5
  <2>3. ASSUME NEW b \in Actors, Uploads(b)' PROVE ~Exists(request'[b].doc)
    <3>1. CASE b = a
      BY <1>0, <1>1, <1>2, <1>3, <1>6, <3>1
    <3>2. CASE b # a
      BY <1>2, <2>3, <3>2 DEF Inv, IdsAreOnce, Uploads
    <3> QED
      BY <3>1, <3>2
  <2>4. ASSUME NEW b \in Actors, NEW c \in Actors, Uploads(b)', b # c,
               Uploads(c)' \/ request'[c].op = "index"
        PROVE  request'[b].doc # request'[c].doc
    <3>1. CASE b = a
      BY <1>0, <1>2, <1>5, <2>4, <3>1 DEF Uploads
    <3>2. CASE c = a
      BY <1>0, <1>2, <1>5, <2>4, <3>2 DEF Uploads
    <3>3. CASE b # a /\ c # a
      BY <1>2, <2>4, <3>3 DEF Inv, IdsAreOnce, Uploads
    <3> QED
      BY <3>1, <3>2, <3>3
  <2> QED
    BY <1>7, <2>1, <2>2, <2>3, <2>4 DEF IdsAreOnce
<1>9. UploadsStoreFirst'
  BY <1>0, <1>1, <1>2 DEF Inv, UploadsStoreFirst, Uploads
<1>10. ReadyIsStored'
  BY <1>1 DEF Inv, ReadyIsStored
<1>11. IndexedApart'
  <2>1. \A b \in Actors, d \in Docs : WritesCuts(b, d)' =>
          WritesCuts(b, d) /\ request'[b] = request[b]
    BY <1>0, <1>2 DEF WritesCuts, Indexes
  <2> QED
    BY <1>1, <1>7, <2>1 DEF Inv, IndexedApart
<1> QED
  BY <1>4, <1>8, <1>9, <1>10, <1>11 DEF Inv

LEMMA WriteExtractKeepsInv ==
  ASSUME Inv, NEW a \in Actors, WriteExtract(a)
  PROVE  Inv'
<1>1. PICK text :
        /\ extract' = [extract EXCEPT ![request[a].doc] = text]
        /\ Goes(a, [request[a] EXCEPT !.step = IF text = "text" THEN "ready" ELSE "no_text"])
  BY DEF WriteExtract, Written
<1>2. Uploads(a) /\ UNCHANGED <<managed, used, blob, cuts, row, doomed, doubled>>
  BY DEF WriteExtract, rows, ghosts
<1>3. {"op", "step", "doc", "file", "twin"} \subseteq DOMAIN request[a]
  BY <1>2 DEF Inv, TypeInv
<1> DEFINE r == [request[a] EXCEPT !.step = IF text = "text" THEN "ready" ELSE "no_text"]
<1>4. /\ r.op = "upload" /\ r.doc = request[a].doc
      /\ r.step = "ready" => text = "text"
      /\ {"op", "step", "doc", "file", "twin"} \subseteq DOMAIN r
  BY <1>2, <1>3 DEF Uploads
<1> HIDE DEF r
<1>5. /\ request' = [b \in Actors |-> request'[b]]
      /\ request'[a] = r
      /\ \A b \in Actors \ {a} : request'[b] = request[b]
  BY <1>1, Moves DEF Inv, r
<1>6. PICK doc \in Docs : doc = request[a].doc
  BY <1>2, IdsAreDocs DEF Inv, IdsAreOnce, Uploads
<1>7. /\ extract' = [d \in Docs |-> extract'[d]]
      /\ extract'[doc] = text
      /\ \A d \in Docs \ {doc} : extract'[d] = extract[d]
  BY <1>1, <1>6 DEF Inv, TypeInv
<1>8. /\ \A b \in Actors : request'[b].op = request[b].op /\ request'[b].doc = request[b].doc
      /\ \A b \in Actors : Uploads(b)' <=> Uploads(b)
      /\ \A d : Exists(d)' <=> Exists(d)
  BY <1>2, <1>4, <1>5 DEF Uploads, Exists
<1>9. TypeInv'
  BY <1>2, <1>4, <1>5, <1>7, <1>8 DEF Inv, TypeInv
<1>10. IdsAreOnce'
  BY <1>2, <1>8 DEF Inv, IdsAreOnce
<1>11. UploadsStoreFirst'
  <2> SUFFICES ASSUME NEW b \in Actors, Uploads(b)
               PROVE  /\ request'[b].doc \in blob'
                      /\ request'[b].step = "ready" => extract'[request'[b].doc] = "text"
    BY <1>8 DEF UploadsStoreFirst
  <2>1. request'[b].doc = request[b].doc /\ request[b].doc \in blob
    BY <1>8 DEF Inv, UploadsStoreFirst
  <2>2. CASE b = a
    BY <1>2, <1>4, <1>5, <1>6, <1>7, <2>1, <2>2
  <2>3. CASE b # a
    <3>1. request[b].doc # doc /\ request[b].doc \in Docs
      BY <1>2, <1>6, <2>3, IdsAreDocs DEF Inv, IdsAreOnce, Uploads
    <3> QED
      BY <1>2, <1>5, <1>7, <2>1, <2>3, <3>1 DEF Inv, UploadsStoreFirst
  <2> QED
    BY <2>2, <2>3
<1>12. ReadyIsStored'
  <2>1. row[doc].status = "gone"
    BY <1>2, <1>6 DEF Inv, IdsAreOnce, Exists
  <2> QED
    BY <1>2, <1>7, <2>1 DEF Inv, ReadyIsStored
<1>13. IndexedApart'
  <2>1. \A b \in Actors, d \in Docs : WritesCuts(b, d)' =>
          WritesCuts(b, d) /\ request'[b] = request[b]
    BY <1>4, <1>5 DEF WritesCuts, Indexes
  <2> QED
    BY <1>2, <1>8, <2>1 DEF Inv, IndexedApart
<1> QED
  BY <1>9, <1>10, <1>11, <1>12, <1>13 DEF Inv

LEMMA InsertRowKeepsInv ==
  ASSUME Inv, NEW a \in Actors, InsertRow(a)
  PROVE  Inv'
<1>0. PICK doc \in Docs : doc = request[a].doc
  BY IdsAreDocs DEF Inv, IdsAreOnce, Uploads, InsertRow
<1>1. PICK r : /\ Goes(a, r)
               /\ r.op = "index" /\ r.step = "start" /\ r.doc = doc
  BY <1>0 DEF InsertRow
<1>2. /\ Uploads(a)
      /\ UNCHANGED <<managed, used, blob, extract, cuts, doomed, doubled>>
  BY DEF InsertRow, files, ghosts
<1>3. PICK v : /\ row' = [row EXCEPT ![doc] = v]
               /\ v.status = request[a].step /\ v.status \in {"ready", "no_text"}
  <2> DEFINE w == [status |-> request[a].step, file |-> request[a].file,
                   twin |-> request[a].twin, at |-> added + 1]
  <2>1. row' = [row EXCEPT ![doc] = w]
    BY <1>0 DEF InsertRow
  <2>2. w.status = request[a].step /\ w.status \in {"ready", "no_text"}
    BY DEF InsertRow
  <2> HIDE DEF w
  <2> QED
    BY <2>1, <2>2
<1>4. /\ request' = [b \in Actors |-> request'[b]]
      /\ request'[a] = r
      /\ \A b \in Actors \ {a} : request'[b] = request[b]
  BY <1>1, Moves DEF Inv
<1>5. /\ row' = [d \in Docs |-> row'[d]]
      /\ row'[doc] = v
      /\ \A d \in Docs \ {doc} : row'[d] = row[d]
  BY <1>3 DEF Inv, TypeInv
<1>6. /\ \A d \in Docs \ {doc} : Exists(d)' <=> Exists(d)
      /\ ~Exists(doc)
      /\ doc \in 1..used
      /\ \A b \in Actors : Uploads(b)' => b # a /\ Uploads(b) /\ request[b].doc # doc
      /\ \A b \in Actors : request[b].op = "index" => request[b].doc # doc
  BY <1>0, <1>1, <1>2, <1>4, <1>5 DEF Inv, IdsAreOnce, Uploads, Exists
<1>7. TypeInv'
  BY <1>2, <1>4, <1>5, <1>6 DEF Inv, TypeInv
<1>8. IdsAreOnce'
  <2>1. \A d \in Docs : d > used' => ~Exists(d)'
    BY <1>2, <1>6, IdsAreDocs DEF Inv, IdsAreOnce
  <2>2. \A b \in Actors : request'[b].op \in {"upload", "index", "delete"}
          => request'[b].doc \in 1..used'
    BY <1>1, <1>2, <1>4, <1>6 DEF Inv, IdsAreOnce
  <2>3. \A b \in Actors : Uploads(b)' => row'[request'[b].doc].status = "gone"
    <3> SUFFICES ASSUME NEW b \in Actors, Uploads(b)'
                 PROVE  row'[request'[b].doc].status = "gone"
      OBVIOUS
    <3>1. b # a /\ Uploads(b) /\ request'[b] = request[b]
      BY <1>4, <1>6
    <3>2. PICK d \in Docs : d = request[b].doc
      BY <3>1, IdsAreDocs DEF Inv, IdsAreOnce, Uploads
    <3>3. d # doc /\ ~Exists(d)
      BY <1>6, <3>1, <3>2 DEF Inv, IdsAreOnce
    <3>4. row'[d].status = "gone"
      BY <1>5, <3>3 DEF Exists
    <3> QED
      BY <3>1, <3>2, <3>4
  <2>4. ASSUME NEW b \in Actors, NEW c \in Actors, Uploads(b)', b # c,
               Uploads(c)' \/ request'[c].op = "index"
        PROVE  request'[b].doc # request'[c].doc
    <3>1. b # a /\ Uploads(b) /\ request'[b] = request[b] /\ request[b].doc # doc
      BY <1>4, <1>6, <2>4
    <3>2. CASE c = a
      BY <1>1, <1>4, <3>1, <3>2
    <3>3. CASE c # a
      BY <1>4, <2>4, <3>1, <3>3 DEF Inv, IdsAreOnce, Uploads
    <3> QED
      BY <3>2, <3>3
  <2> QED
    BY <2>1, <2>2, <2>3, <2>4 DEF IdsAreOnce, Exists
<1>9. UploadsStoreFirst'
  BY <1>2, <1>4, <1>6 DEF Inv, UploadsStoreFirst
<1>10. ReadyIsStored'
  <2>1. row'[doc].status = "ready" => doc \in blob /\ extract[doc] = "text"
    BY <1>0, <1>2, <1>3, <1>5 DEF Inv, UploadsStoreFirst
  <2> QED
    BY <1>2, <1>5, <2>1 DEF Inv, ReadyIsStored
<1>11. IndexedApart'
  <2>1. \A b \in Actors, d \in Docs : WritesCuts(b, d)' =>
          WritesCuts(b, d) /\ request'[b] = request[b] /\ (Exists(d)' <=> Exists(d))
    BY <1>1, <1>4, <1>6 DEF WritesCuts, Indexes
  <2> QED
    BY <1>2, <2>1 DEF Inv, IndexedApart
<1> QED
  BY <1>7, <1>8, <1>9, <1>10, <1>11 DEF Inv

\* a request that indexes goes on, or ends: the documents that others upload stay others
LEMMA IndexingKeepsIds ==
  ASSUME Inv, NEW a \in Actors, NEW r, Goes(a, r), request[a].op = "index",
         r.op = "none" \/ r.op = "tag" \/ (r.op = "index" /\ r.doc = request[a].doc),
         UNCHANGED <<managed, used, row, blob, extract, doomed>>,
         cuts' = [d \in Docs |-> cuts'[d]]
  PROVE  TypeInv' /\ IdsAreOnce' /\ UploadsStoreFirst' /\ ReadyIsStored'
<1>1. /\ request' = [b \in Actors |-> request'[b]]
      /\ request'[a] = r
      /\ \A b \in Actors \ {a} : request'[b] = request[b]
  BY Moves DEF Inv
<1>2. \A d : Exists(d)' <=> Exists(d)
  BY DEF Exists
<1>3. \A b \in Actors : Uploads(b)' => b # a /\ Uploads(b) /\ request'[b] = request[b]
  BY <1>1 DEF Uploads
<1>4. TypeInv'
  BY <1>1, <1>3 DEF Inv, TypeInv
<1>5. \A b \in Actors : request'[b].op \in {"upload", "index", "delete"} =>
        request'[b].op = request[b].op /\ request'[b].doc = request[b].doc
  BY <1>1
<1>6. IdsAreOnce'
  BY <1>2, <1>3, <1>5 DEF Inv, IdsAreOnce, Uploads
<1>7. UploadsStoreFirst' /\ ReadyIsStored'
  BY <1>3 DEF Inv, UploadsStoreFirst, ReadyIsStored
<1> QED
  BY <1>4, <1>6, <1>7

LEMMA StartIndexKeepsInv ==
  ASSUME Inv, NEW a \in Actors, StartIndex(a)
  PROVE  Inv'
<1>0. PICK doc \in Docs : doc = request[a].doc
  BY IdsAreDocs DEF Inv, IdsAreOnce, StartIndex
<1>1. PICK r : /\ Goes(a, r)
               /\ r.op = "index" /\ r.step = "write" /\ r.doc = doc
               /\ r.replaced = Replaced(doc)
  BY <1>0 DEF StartIndex
<1>2. /\ request[a].op = "index"
      /\ UNCHANGED <<managed, used, row, blob, extract, cuts, doomed>>
      /\ doubled \subseteq doubled'
      /\ (\E b \in Actors \ {a} : WritesCuts(b, doc)) => doc \in doubled'
  BY <1>0 DEF StartIndex, files, rows, WritesCuts
<1>3. /\ request'[a] = r
      /\ \A b \in Actors \ {a} : request'[b] = request[b]
  BY <1>1, Moves DEF Inv
<1>4. TypeInv' /\ IdsAreOnce' /\ UploadsStoreFirst' /\ ReadyIsStored'
  BY <1>0, <1>1, <1>2, IndexingKeepsIds DEF Inv, TypeInv
<1>5. /\ \A b \in Actors, d \in Docs : WritesCuts(b, d)' =>
           \/ b # a /\ WritesCuts(b, d) /\ request'[b] = request[b]
           \/ b = a /\ d = doc
      /\ \A d : Exists(d)' <=> Exists(d)
  BY <1>1, <1>2, <1>3 DEF WritesCuts, Indexes, Exists
<1>6. ~managed => r.replaced = cuts[doc]
  BY <1>1 DEF Replaced
<1>7. IndexedApart'
  <2> SUFFICES ASSUME NEW d \in Docs, d \notin doubled'
               PROVE  /\ \A x, y \in cuts[d] : x = y
                      /\ \A b, c \in Actors : WritesCuts(b, d)' /\ WritesCuts(c, d)' => b = c
                      /\ \A b \in Actors : WritesCuts(b, d)' /\ ~managed /\ Exists(d)
                           => request'[b].replaced = cuts[d]
    BY <1>2, <1>5 DEF IndexedApart
  <2>1. d \notin doubled
    BY <1>2
  <2> QED
    BY <1>2, <1>3, <1>5, <1>6, <2>1 DEF Inv, IndexedApart
<1> QED
  BY <1>4, <1>7 DEF Inv

LEMMA CommitIndexKeepsInv ==
  ASSUME Inv, NEW a \in Actors, NEW cut, CommitIndex(a, cut)
  PROVE  Inv'
<1>0. PICK doc \in Docs : doc = request[a].doc
  BY IdsAreDocs DEF Inv, IdsAreOnce, CommitIndex
<1>1. PICK r : Goes(a, r) /\ r.op \in {"none", "tag"}
  BY DEF CommitIndex, After, Idle
<1>2. PICK new : /\ cuts' = [cuts EXCEPT ![doc] = new]
                 /\ new = IF managed THEN Upserted(doc, cut)
                                     ELSE Inserted(doc, cut, request[a].replaced)
  BY <1>0 DEF CommitIndex
<1>3. /\ request[a].op = "index" /\ WritesCuts(a, doc)
      /\ UNCHANGED <<managed, used, row, blob, extract, doomed>>
      /\ doubled \subseteq doubled'
      /\ managed /\ Left(doc, cut) # {} => doc \in doubled'
  BY <1>0 DEF CommitIndex, files, rows, WritesCuts, Indexes
<1>4. /\ cuts' = [d \in Docs |-> cuts'[d]]
      /\ cuts'[doc] = new
      /\ \A d \in Docs \ {doc} : cuts'[d] = cuts[d]
  BY <1>2 DEF Inv, TypeInv
<1>5. TypeInv' /\ IdsAreOnce' /\ UploadsStoreFirst' /\ ReadyIsStored'
  BY <1>1, <1>3, <1>4, IndexingKeepsIds
<1>6. /\ \A b \in Actors, d \in Docs : WritesCuts(b, d)' =>
           b # a /\ WritesCuts(b, d) /\ request'[b] = request[b]
      /\ \A d : Exists(d)' <=> Exists(d)
  <2>1. request'[a] = r /\ \A b \in Actors \ {a} : request'[b] = request[b]
    BY <1>1, Moves DEF Inv
  <2> QED
    BY <1>1, <1>3, <2>1 DEF WritesCuts, Indexes, Exists
<1>7. IndexedApart'
  <2> SUFFICES ASSUME NEW d \in Docs, d \notin doubled'
               PROVE  /\ \A x, y \in cuts'[d] : x = y
                      /\ \A b, c \in Actors : WritesCuts(b, d)' /\ WritesCuts(c, d)' => b = c
                      /\ \A b \in Actors : WritesCuts(b, d)' /\ ~managed /\ Exists(d)
                           => request'[b].replaced = cuts'[d]
    BY <1>3, <1>6 DEF IndexedApart
  <2>1. d \notin doubled
    BY <1>3
  <2>2. CASE d # doc
    BY <1>4, <1>6, <2>1, <2>2 DEF Inv, IndexedApart
  <2>3. CASE d = doc
    <3>1. \A b \in Actors : ~WritesCuts(b, d)'
      BY <1>3, <1>6, <2>1, <2>3 DEF Inv, IndexedApart
    <3>2. \A x, y \in new : x = y
      <4>1. CASE managed
        BY <1>2, <1>3, <2>3, <4>1 DEF Upserted
      <4>2. CASE ~managed /\ Exists(doc)
        <5>1. request[a].replaced = cuts[doc]
          BY <1>3, <2>1, <2>3, <4>2 DEF Inv, IndexedApart
        <5> QED
          BY <1>2, <4>2, <5>1 DEF Inserted
      <4>3. CASE ~managed /\ ~Exists(doc)
        BY <1>2, <2>1, <2>3, <4>3 DEF Inserted, Inv, IndexedApart
      <4> QED
        BY <4>1, <4>2, <4>3
    <3> QED
      BY <1>4, <2>3, <3>1, <3>2
  <2> QED
    BY <2>2, <2>3
<1> QED
  BY <1>5, <1>7 DEF Inv

-----------------------------------------------------------------------------
(* Deletion *)

LEMMA RemoveFilesKeepsInv ==
  ASSUME Inv, NEW a \in Actors, NEW doc \in Docs, RemoveFiles(a, doc)
  PROVE  Inv'
<1>1. PICK r : Goes(a, r) /\ r.op = "delete" /\ r.doc = doc
  BY DEF RemoveFiles
<1>2. /\ Exists(doc)
      /\ blob' = blob \ {doc} /\ extract' = [extract EXCEPT ![doc] = "none"]
      /\ doomed' = doomed \cup {doc}
      /\ UNCHANGED <<managed, used, row, cuts, doubled>>
  BY DEF RemoveFiles, rows
<1>3. /\ request' = [b \in Actors |-> request'[b]]
      /\ request'[a] = r
      /\ \A b \in Actors \ {a} : request'[b] = request[b]
  BY <1>1, Moves DEF Inv
<1>4. /\ \A b \in Actors : Uploads(b)' => b # a /\ Uploads(b) /\ request'[b] = request[b]
      /\ \A d : Exists(d)' <=> Exists(d)
      /\ \A b \in Actors, d \in Docs : WritesCuts(b, d)' =>
           WritesCuts(b, d) /\ request'[b] = request[b]
  BY <1>1, <1>2, <1>3 DEF Uploads, Exists, WritesCuts, Indexes
<1>5. /\ extract' = [d \in Docs |-> extract'[d]]
      /\ \A d \in Docs \ {doc} : extract'[d] = extract[d]
  BY <1>2 DEF Inv, TypeInv
<1>6. TypeInv'
  BY <1>2, <1>3, <1>4, <1>5 DEF Inv, TypeInv
<1>7. doc \in 1..used
  BY <1>2, IdsAreDocs DEF Inv, IdsAreOnce, Docs
<1>8. IdsAreOnce'
  <2>1. \A b \in Actors : request'[b].op \in {"upload", "index", "delete"}
          => request'[b].doc \in 1..used
    BY <1>1, <1>3, <1>7 DEF Inv, IdsAreOnce
  <2>2. \A b, c \in Actors : Uploads(b)' /\ b # c /\ (Uploads(c)' \/ request'[c].op = "index")
          => request'[b].doc # request'[c].doc
    BY <1>1, <1>3, <1>4 DEF Inv, IdsAreOnce
  <2> QED
    BY <1>2, <1>4, <2>1, <2>2 DEF Inv, IdsAreOnce
<1>9. UploadsStoreFirst'
  <2> SUFFICES ASSUME NEW b \in Actors, Uploads(b)'
               PROVE  /\ request'[b].doc \in blob'
                      /\ request'[b].step = "ready" => extract'[request'[b].doc] = "text"
    BY DEF UploadsStoreFirst
  <2>1. Uploads(b) /\ request'[b] = request[b]
    BY <1>4
  <2>2. request[b].doc # doc /\ request[b].doc \in Docs
    BY <1>2, <2>1, IdsAreDocs DEF Inv, IdsAreOnce, Uploads
  <2> QED
    BY <1>2, <1>5, <2>1, <2>2 DEF Inv, UploadsStoreFirst
<1>10. ReadyIsStored'
  BY <1>2, <1>5 DEF Inv, ReadyIsStored
<1>11. IndexedApart'
  BY <1>2, <1>4 DEF Inv, IndexedApart
<1> QED
  BY <1>6, <1>8, <1>9, <1>10, <1>11 DEF Inv

LEMMA DeleteRowKeepsInv ==
  ASSUME Inv, NEW a \in Actors, DeleteRow(a)
  PROVE  Inv'
<1>0. PICK doc \in Docs : doc = request[a].doc
  BY IdsAreDocs DEF Inv, IdsAreOnce, DeleteRow
<1>1. Goes(a, Idle) /\ Idle.op = "none"
  BY DEF DeleteRow, Idle
<1>2. PICK left : /\ cuts' = [cuts EXCEPT ![doc] = left]
                  /\ left = {} \/ left = cuts[doc]
  BY <1>0 DEF DeleteRow, Purged
<1>3. /\ request[a].op = "delete"
      /\ row' = [row EXCEPT ![doc] = Gone]
      /\ UNCHANGED <<managed, used, blob, extract, doomed, doubled>>
  BY <1>0 DEF DeleteRow, files, ghosts
<1>4. /\ request' = [b \in Actors |-> request'[b]]
      /\ request'[a] = Idle
      /\ \A b \in Actors \ {a} : request'[b] = request[b]
  BY <1>1, Moves DEF Inv
<1>5. /\ row' = [d \in Docs |-> row'[d]] /\ cuts' = [d \in Docs |-> cuts'[d]]
      /\ row'[doc].status = "gone" /\ cuts'[doc] = left
      /\ \A d \in Docs \ {doc} : row'[d] = row[d] /\ cuts'[d] = cuts[d]
  BY <1>2, <1>3 DEF Inv, TypeInv, Gone
<1>6. /\ \A b \in Actors : Uploads(b)' => b # a /\ Uploads(b) /\ request'[b] = request[b]
      /\ \A d \in Docs : Exists(d)' => d # doc /\ Exists(d)
      /\ \A b \in Actors, d \in Docs : WritesCuts(b, d)' =>
           WritesCuts(b, d) /\ request'[b] = request[b]
      /\ \A b \in Actors : request'[b].op = "none" \/ request'[b] = request[b]
  BY <1>1, <1>4, <1>5 DEF Uploads, Exists, WritesCuts, Indexes
<1>7. TypeInv'
  BY <1>3, <1>4, <1>5, <1>6 DEF Inv, TypeInv
<1>8. IdsAreOnce'
  <2>1. \A b \in Actors : Uploads(b)' => row'[request'[b].doc].status = "gone"
    <3> SUFFICES ASSUME NEW b \in Actors, Uploads(b)'
                 PROVE  row'[request'[b].doc].status = "gone"
      OBVIOUS
    <3>1. Uploads(b) /\ request'[b] = request[b]
      BY <1>6
    <3>2. PICK d \in Docs : d = request[b].doc
      BY <3>1, IdsAreDocs DEF Inv, IdsAreOnce, Uploads
    <3>3. row[d].status = "gone"
      BY <3>1, <3>2 DEF Inv, IdsAreOnce, Exists
    <3> QED
      BY <1>5, <3>1, <3>2, <3>3
  <2>2. \A d \in Docs : d > used' => ~Exists(d)'
    BY <1>3, <1>6 DEF Inv, IdsAreOnce
  <2>3. \A b \in Actors : request'[b].op \in {"upload", "index", "delete"}
          => request'[b].doc \in 1..used'
    BY <1>3, <1>6 DEF Inv, IdsAreOnce
  <2>4. \A b, c \in Actors : Uploads(b)' /\ b # c /\ (Uploads(c)' \/ request'[c].op = "index")
          => request'[b].doc # request'[c].doc
    BY <1>6 DEF Inv, IdsAreOnce, Uploads
  <2> QED
    BY <2>1, <2>2, <2>3, <2>4 DEF IdsAreOnce, Exists
<1>9. UploadsStoreFirst'
  BY <1>3, <1>6 DEF Inv, UploadsStoreFirst
<1>10. ReadyIsStored'
  BY <1>3, <1>5 DEF Inv, ReadyIsStored
<1>11. IndexedApart'
  <2> SUFFICES ASSUME NEW d \in Docs \ doubled
               PROVE  /\ \A x, y \in cuts'[d] : x = y
                      /\ \A b, c \in Actors : WritesCuts(b, d)' /\ WritesCuts(c, d)' => b = c
                      /\ \A b \in Actors : WritesCuts(b, d)' /\ ~managed /\ Exists(d)'
                           => request'[b].replaced = cuts'[d]
    BY <1>3 DEF IndexedApart
  <2>1. \A x, y \in cuts'[d] : x = y
    BY <1>2, <1>5 DEF Inv, IndexedApart
  <2>2. \A b, c \in Actors : WritesCuts(b, d)' /\ WritesCuts(c, d)' => b = c
    BY <1>6 DEF Inv, IndexedApart
  <2>3. \A b \in Actors : WritesCuts(b, d)' /\ ~managed /\ Exists(d)'
          => request'[b].replaced = cuts'[d]
    BY <1>5, <1>6 DEF Inv, IndexedApart
  <2> QED
    BY <2>1, <2>2, <2>3
<1> QED
  BY <1>7, <1>8, <1>9, <1>10, <1>11 DEF Inv

-----------------------------------------------------------------------------
LEMMA MovesKeepInv ==
  ASSUME Inv, NEW a \in Actors,
         \/ SkipIndex(a) \/ AutoTag(a) \/ Abandon(a)
         \/ \E d \in Docs : Reindex(a, d)
  PROVE  Inv'
<1>0. Idle.op = "none"
  BY DEF Idle
<1>1. CASE SkipIndex(a)
  <2>1. /\ Goes(a, After(a)) /\ After(a).op \in {"none", "tag"}
        /\ UNCHANGED <<managed, used, row, blob, extract, cuts, doomed, doubled>>
    BY <1>0, <1>1 DEF SkipIndex, After, files, rows, ghosts
  <2> QED
    BY <2>1, MoveKeepsInv
<1>2. CASE AutoTag(a)
  <2>1. /\ Goes(a, Idle)
        /\ UNCHANGED <<managed, used, row, blob, extract, cuts, doomed, doubled>>
    BY <1>2 DEF AutoTag, files, ghosts
  <2> QED
    BY <1>0, <2>1, MoveKeepsInv
<1>3. CASE Abandon(a)
  <2>1. /\ Goes(a, Idle)
        /\ UNCHANGED <<managed, used, row, blob, extract, cuts, doomed, doubled>>
    BY <1>3 DEF Abandon, files, rows, ghosts
  <2> QED
    BY <1>0, <2>1, MoveKeepsInv
<1>4. ASSUME NEW d \in Docs, Reindex(a, d) PROVE Inv'
  <2>1. PICK r : /\ Goes(a, r)
                 /\ r.op = "index" /\ r.step = "start" /\ r.doc = d
    BY <1>4 DEF Reindex
  <2>2. /\ Exists(d)
        /\ UNCHANGED <<managed, used, row, blob, extract, cuts, doomed, doubled>>
    BY <1>4 DEF Reindex, Exists, files, rows, ghosts
  <2>3. d \in 1..used
    BY <2>2, IdsAreDocs DEF Inv, IdsAreOnce, Docs
  <2> QED
    BY <2>1, <2>2, <2>3, MoveKeepsInv
<1> QED
  BY <1>1, <1>2, <1>3, <1>4

LEMMA SameKeepsInv ==
  ASSUME Inv, UNCHANGED <<managed, used, row, blob, extract, cuts, request, doomed, doubled>>
  PROVE  Inv'
  BY DEF Inv, TypeInv, IdsAreOnce, UploadsStoreFirst, ReadyIsStored, IndexedApart, Uploads,
     Exists, WritesCuts, Indexes

LEMMA NextKeepsInv == Inv /\ [Next]_vars => Inv'
<1> SUFFICES ASSUME Inv, [Next]_vars PROVE Inv'
  OBVIOUS
<1>1. ASSUME NEW a \in Actors, NEW f \in Files, Quarantine(a, f) \/ StoreBlob(a, f)
      PROVE  Inv'
  BY <1>1, QuarantineKeepsInv, StoreBlobKeepsInv
<1>2. ASSUME NEW a \in Actors, WriteExtract(a) \/ InsertRow(a) PROVE Inv'
  BY <1>2, WriteExtractKeepsInv, InsertRowKeepsInv
<1>3. ASSUME NEW a \in Actors, StartIndex(a) \/ \E cut \in Cuts(a) : CommitIndex(a, cut)
      PROVE  Inv'
  BY <1>3, StartIndexKeepsInv, CommitIndexKeepsInv
<1>4. ASSUME NEW a \in Actors,
             SkipIndex(a) \/ AutoTag(a) \/ Abandon(a) \/ \E d \in Docs : Reindex(a, d)
      PROVE  Inv'
  BY <1>4, MovesKeepInv
<1>5. ASSUME NEW a \in Actors, DeleteRow(a) \/ \E d \in Docs : RemoveFiles(a, d) PROVE Inv'
  BY <1>5, DeleteRowKeepsInv, RemoveFilesKeepsInv
<1>6. ASSUME NEW d \in Docs, SetTag(d) PROVE Inv'
  BY <1>6, SameKeepsInv DEF SetTag, files, ghosts
<1>7. CASE UNCHANGED vars
  BY <1>7, SameKeepsInv DEF vars
<1> QED
  BY <1>1, <1>2, <1>3, <1>4, <1>5, <1>6, <1>7 DEF Next

LEMMA InvHolds == Spec => []Inv
  BY InitInv, NextKeepsInv, PTL DEF Spec

\* what is ranked is a part of what the index holds
LEMMA RankedOnce ==
  ASSUME Inv, NEW d \in Docs \ doubled, NEW mode \in Modes
  PROVE  Cardinality(Ranked(d, mode)) <= 1
<1>1. Ranked(d, mode) \subseteq cuts[d]
  BY DEF Ranked, Searched, Local, Inv, TypeInv
<1>2. \A x, y \in Ranked(d, mode) : x = y
  BY <1>1 DEF Inv, IndexedApart
<1>3. CASE Ranked(d, mode) = {}
  BY <1>3, FS_EmptySet
<1>4. CASE Ranked(d, mode) # {}
  <2>1. PICK x : Ranked(d, mode) = {x}
    BY <1>2, <1>4
  <2>2. Cardinality({x}) = 1
    BY FS_Singleton, Zenon
  <2> QED
    BY <2>1, <2>2
<1> QED
  BY <1>3, <1>4

\* For any number of files, requests and documents and wherever a request fails, a ready
\* document grounds a section on its passages or its text until its deletion begins, one that
\* is gone or quarantined is refused, and no passage is served twice unless two indexings of
\* the document overlapped or the managed index held more of it (vaf.py, retrieval.py).
THEOREM SourcesAreNeverSilentlyLost == Spec => []SourcesNeverSilentlyLost
<1>1. ASSUME Inv PROVE SourcesNeverSilentlyLost
  <2> SUFFICES ASSUME NEW d \in Docs, NEW mode \in Modes
               PROVE  /\ row[d].status = "ready" /\ d \notin doomed =>
                           d \in blob /\ Grounding(d, mode) \subseteq {"passages", "text"}
                      /\ row[d].status \in {"gone", "quarantined"} =>
                           Grounding(d, mode) = {"refused"}
                      /\ d \notin doubled => Cardinality(Ranked(d, mode)) <= 1
    BY DEF SourcesNeverSilentlyLost
  <2>1. ASSUME row[d].status = "ready", d \notin doomed
        PROVE  d \in blob /\ Grounding(d, mode) \subseteq {"passages", "text"}
    <3>1. d \in blob /\ extract[d] = "text"
      BY <1>1, <2>1 DEF Inv, ReadyIsStored
    <3>2. FullText(d) = "text"
      BY <2>1, <3>1 DEF FullText, Refused, ReadExtract
    <3> QED
      BY <3>1, <3>2 DEF Grounding
  <2>2. ASSUME row[d].status \in {"gone", "quarantined"}
        PROVE  Grounding(d, mode) = {"refused"}
    <3>1. FullText(d) = "refused" /\ Ranked(d, mode) = {}
      BY <2>2 DEF FullText, Ranked, Refused
    <3> QED
      BY <3>1 DEF Grounding
  <2>3. d \notin doubled => Cardinality(Ranked(d, mode)) <= 1
    BY <1>1, RankedOnce
  <2> QED
    BY <2>1, <2>2, <2>3
<1> QED
  BY <1>1, InvHolds, PTL
-----------------------------------------------------------------------------
(* Each content counts once *)

FilesAreGiven == \A a \in Actors : Uploads(a) => request[a].file \in Files

\* uploaded_at orders the rows
DatesAreOnce ==
  /\ added \in Nat
  /\ \A d \in Docs : Exists(d) => row[d].at \in 1..added
  /\ \A d, e \in Docs : Exists(d) /\ Exists(e) /\ row[d].at = row[e].at => d = e

RacesAreSeen ==
  \A a, b \in Actors :
    Uploads(a) /\ Uploads(b) /\ a # b /\ request[a].file.sha = request[b].file.sha
      => request[a].file.sha \in raced

\* an upload that found no copy is still the first of its content, and so is its row
FirstsAreFirst ==
  /\ \A a \in Actors : Uploads(a) /\ request[a].twin = NoDoc /\ request[a].file.sha \notin raced
       => \A d \in Docs : Usable(d) => row[d].file.sha # request[a].file.sha
  /\ \A d, e \in Docs :
       Usable(d) /\ Usable(e) /\ d # e /\ row[d].file.sha = row[e].file.sha
         => row[d].file.sha \in raced \/ row[d].twin # NoDoc \/ row[e].twin # NoDoc

\* the original of a duplicate may go, but never turns into a quarantined one
WasUsable(d) == d \in 1..used /\ row[d].status # "quarantined"

TwinsWereUsable ==
  /\ \A a \in Actors : Uploads(a) /\ request[a].twin # NoDoc => WasUsable(request[a].twin)
  /\ \A d \in Docs : Usable(d) /\ row[d].twin # NoDoc => WasUsable(row[d].twin)

CountInv ==
  /\ Inv
  /\ FilesAreGiven
  /\ DatesAreOnce
  /\ RacesAreSeen
  /\ FirstsAreFirst
  /\ TwinsWereUsable

\* a set of documents has an earliest one
LEMMA EarliestExists ==
  ASSUME DatesAreOnce, NEW S \in SUBSET {d \in Docs : Exists(d)}, S # {}
  PROVE  \E d \in S : \A e \in S : row[d].at <= row[e].at
<1> DEFINE Sooner(d) == {e \in S : row[e].at < row[d].at}
           Sooners == {Sooner(d) : d \in S}
<1>1. IsFiniteSet(S)
  <2>1. IsFiniteSet(Docs)
    BY FS_Interval, IntakeAssumption DEF Docs
  <2>2. S \subseteq Docs
    OBVIOUS
  <2> QED
    BY <2>1, <2>2, FS_Subset
<1>2. Sooners \subseteq FiniteSubsetsOf(S) /\ Sooners # {}
  <2>1. \A T \in SUBSET S : T \in FiniteSubsetsOf(S)
    BY <1>1, FS_Subset DEF FiniteSubsetsOf
  <2> QED
    BY <2>1
<1>3. PICK least \in Sooners :
        \A other \in Sooners : <<other, least>> \notin StrictSubsetOrdering(S)
  <2>1. IsWellFoundedOn(StrictSubsetOrdering(S), FiniteSubsetsOf(S))
    BY FS_StrictSubsetOrderingWellFounded
  <2> HIDE DEF Sooners
  <2> QED
    BY <1>2, <2>1, WFMin
<1>4. PICK d \in S : least = Sooner(d)
  BY <1>3
<1>5. \A e \in S : row[e].at \in Nat
  BY DEF DatesAreOnce
<1>6. ASSUME NEW e \in S, row[e].at < row[d].at
      PROVE  FALSE
  <2>1. Sooner(e) \subseteq Sooner(d)
    BY <1>5, <1>6
  <2>2. e \in Sooner(d) /\ e \notin Sooner(e)
    BY <1>5, <1>6
  <2>3. <<Sooner(e), Sooner(d)>> \in StrictSubsetOrdering(S)
    BY <2>1, <2>2 DEF StrictSubsetOrdering
  <2>4. Sooner(e) \in Sooners
    OBVIOUS
  <2> QED
    BY <1>3, <1>4, <2>3, <2>4
<1> QED
  BY <1>5, <1>6

\* A step that inserts no row and begins no upload.
LEMMA LessKeepsCount ==
  ASSUME CountInv, Inv', UNCHANGED <<used, added, raced>>,
         \A d \in Docs : row'[d] = row[d] \/ row'[d] = Gone,
         \A a \in Actors : Uploads(a)' =>
           Uploads(a) /\ request'[a].file = request[a].file /\ request'[a].twin = request[a].twin
  PROVE  CountInv'
<1>1. \A d \in Docs : /\ Exists(d)' => Exists(d) /\ row'[d] = row[d]
                      /\ Usable(d)' => Usable(d) /\ row'[d] = row[d]
                      /\ row'[d].status = "quarantined" => row[d].status = "quarantined"
  BY DEF Exists, Usable, Gone
<1>2. FilesAreGiven'
  BY DEF CountInv, FilesAreGiven
<1>3. DatesAreOnce'
  BY <1>1 DEF CountInv, DatesAreOnce
<1>4. RacesAreSeen'
  BY DEF CountInv, RacesAreSeen
<1>5. FirstsAreFirst'
  BY <1>1 DEF CountInv, FirstsAreFirst
<1>6. \A d : WasUsable(d) => WasUsable(d)'
  BY <1>1, IdsAreDocs DEF WasUsable, CountInv, Inv
<1>7. TwinsWereUsable'
  BY <1>1, <1>6 DEF CountInv, TwinsWereUsable
<1> QED
  BY <1>2, <1>3, <1>4, <1>5, <1>7 DEF CountInv

LEMMA QuarantineKeepsCount ==
  ASSUME CountInv, Inv', NEW a \in Actors, NEW f \in Files, Quarantine(a, f)
  PROVE  CountInv'
<1>1. PICK v : /\ row' = [row EXCEPT ![used + 1] = v]
               /\ v.status = "quarantined" /\ v.at = added + 1
  <2> DEFINE w == [status |-> "quarantined", file |-> f, twin |-> NoDoc, at |-> added + 1]
  <2>1. row' = [row EXCEPT ![used + 1] = w]
    BY DEF Quarantine
  <2>2. w.status = "quarantined" /\ w.at = added + 1
    OBVIOUS
  <2> HIDE DEF w
  <2> QED
    BY <2>1, <2>2
<1>2. used' = used + 1 /\ added' = added + 1 /\ UNCHANGED <<request, raced>>
  BY DEF Quarantine, ghosts
<1>3. PICK new \in Docs : new = used + 1 /\ used \in Nat /\ 1..used \subseteq Docs \ {new}
  <2>1. used < MaxDocs
    BY DEF Quarantine
  <2> QED
    BY <2>1, IdsAreDocs, IntakeAssumption DEF CountInv, Inv, Docs
<1>4. row'[new] = v /\ \A d \in Docs \ {new} : row'[d] = row[d]
  BY <1>1, <1>3 DEF CountInv, Inv, TypeInv
<1>5. /\ \A d \in Docs : Exists(d)' => d = new \/ Exists(d)
      /\ \A d \in Docs : Usable(d)' => Usable(d) /\ row'[d] = row[d]
  BY <1>1, <1>4 DEF Exists, Usable
<1>6. FilesAreGiven' /\ RacesAreSeen'
  BY <1>2 DEF CountInv, FilesAreGiven, RacesAreSeen, Uploads
<1>7. DatesAreOnce'
  BY <1>1, <1>2, <1>4, <1>5 DEF CountInv, DatesAreOnce
<1>8. FirstsAreFirst'
  BY <1>2, <1>5 DEF CountInv, FirstsAreFirst, Uploads
<1>9. \A d : WasUsable(d) => WasUsable(d)'
  BY <1>2, <1>3, <1>4 DEF WasUsable
<1>10. TwinsWereUsable'
  BY <1>2, <1>5, <1>9 DEF CountInv, TwinsWereUsable, Uploads
<1> QED
  BY <1>6, <1>7, <1>8, <1>10 DEF CountInv

LEMMA StoreBlobKeepsCount ==
  ASSUME CountInv, Inv', NEW a \in Actors, NEW f \in Files, StoreBlob(a, f)
  PROVE  CountInv'
<1>1. PICK twin : twin = IF Copies(f) = {} THEN NoDoc ELSE Earliest(Copies(f))
  OBVIOUS
<1>2. PICK r : Goes(a, r) /\ r.op = "upload" /\ r.file = f /\ r.twin = twin
  BY <1>1 DEF StoreBlob
<1>3. /\ request'[a] = r
      /\ \A b \in Actors \ {a} : request'[b] = request[b]
  BY <1>2, Moves DEF CountInv, Inv
<1>4. /\ used \in Nat /\ used' = used + 1 /\ UNCHANGED <<row, added>>
      /\ raced \subseteq raced'
      /\ (\E b \in Actors : Uploads(b) /\ request[b].file.sha = f.sha) => f.sha \in raced'
  <2>1. ASSUME NEW b \in Actors, Uploads(b), request[b].file.sha = f.sha
        PROVE  f.sha \in raced'
    <3>1. request[b].file \in Files
      BY <2>1 DEF CountInv, FilesAreGiven
    <3>2. request[b].file \in {request[c].file : c \in {c \in Actors : Uploads(c)}} \cap
                              {g \in Files : g.sha = f.sha}
      BY <2>1, <3>1
    <3> QED
      BY <2>1, <3>2 DEF StoreBlob
  <2> QED
    BY <2>1, IdsAreDocs DEF StoreBlob, rows, CountInv, Inv
<1>5. \A b \in Actors : Uploads(b)' => b = a \/ (Uploads(b) /\ request'[b] = request[b])
  BY <1>3 DEF Uploads
<1>6. /\ \A d : Exists(d)' <=> Exists(d)
      /\ \A d : Usable(d)' <=> Usable(d)
  BY <1>4 DEF Exists, Usable
<1>7. FilesAreGiven'
  BY <1>2, <1>3, <1>5 DEF CountInv, FilesAreGiven
<1>8. DatesAreOnce'
  BY <1>4, <1>6 DEF CountInv, DatesAreOnce
<1>9. RacesAreSeen'
  <2> SUFFICES ASSUME NEW b \in Actors, NEW c \in Actors, Uploads(b)', Uploads(c)', b # c,
                      request'[b].file.sha = request'[c].file.sha
               PROVE  request'[b].file.sha \in raced'
    BY DEF RacesAreSeen
  <2>1. CASE b = a
    BY <1>2, <1>3, <1>4, <1>5, <2>1
  <2>2. CASE c = a
    BY <1>2, <1>3, <1>4, <1>5, <2>2
  <2>3. CASE b # a /\ c # a
    BY <1>4, <1>5, <2>3 DEF CountInv, RacesAreSeen
  <2> QED
    BY <2>1, <2>2, <2>3
<1>10. FirstsAreFirst'
  <2>1. ASSUME twin = NoDoc, NEW d \in Docs, Usable(d)
        PROVE  row[d].file.sha # f.sha
    <3>1. CASE Copies(f) = {}
      BY <2>1, <3>1 DEF Copies
    <3>2. CASE Copies(f) # {}
      <4>1. Earliest(Copies(f)) \in Docs
        BY <3>2, EarliestExists DEF Earliest, Copies, Usable, CountInv
      <4> QED
        BY <1>1, <2>1, <3>2, <4>1 DEF NoDoc, Docs
    <3> QED
      BY <3>1, <3>2
  <2>2. ASSUME NEW b \in Actors, Uploads(b)', request'[b].twin = NoDoc,
               request'[b].file.sha \notin raced', NEW d \in Docs, Usable(d)
        PROVE  row[d].file.sha # request'[b].file.sha
    <3>1. CASE b = a
      BY <1>2, <1>3, <2>1, <2>2, <3>1
    <3>2. CASE b # a
      BY <1>4, <1>5, <2>2, <3>2 DEF CountInv, FirstsAreFirst
    <3> QED
      BY <3>1, <3>2
  <2>3. \A d, e \in Docs :
          Usable(d) /\ Usable(e) /\ d # e /\ row[d].file.sha = row[e].file.sha
            => row[d].file.sha \in raced' \/ row[d].twin # NoDoc \/ row[e].twin # NoDoc
    BY <1>4 DEF CountInv, FirstsAreFirst
  <2> QED
    BY <1>4, <1>6, <2>2, <2>3 DEF FirstsAreFirst
<1>11. TwinsWereUsable'
  <2>1. \A d : WasUsable(d) => WasUsable(d)'
    BY <1>4 DEF WasUsable
  <2>2. twin # NoDoc => WasUsable(twin)
    <3>1. ASSUME Copies(f) # {} PROVE Earliest(Copies(f)) \in Copies(f)
      BY <3>1, EarliestExists DEF Earliest, Copies, Usable, CountInv
    <3>2. \A d \in Docs : Usable(d) => WasUsable(d)
      BY <1>4 DEF Usable, WasUsable, CountInv, Inv, IdsAreOnce, Docs
    <3> QED
      BY <1>1, <3>1, <3>2 DEF Copies
  <2>3. \A b \in Actors : Uploads(b)' /\ request'[b].twin # NoDoc
          => WasUsable(request'[b].twin)
    BY <1>2, <1>3, <1>5, <2>2 DEF CountInv, TwinsWereUsable
  <2>4. \A d \in Docs : Usable(d) /\ row[d].twin # NoDoc => WasUsable(row[d].twin)
    BY DEF CountInv, TwinsWereUsable
  <2> QED
    BY <1>4, <1>6, <2>1, <2>3, <2>4 DEF TwinsWereUsable
<1> QED
  BY <1>7, <1>8, <1>9, <1>10, <1>11 DEF CountInv
LEMMA InsertRowKeepsCount ==
  ASSUME CountInv, Inv', NEW a \in Actors, InsertRow(a)
  PROVE  CountInv'
<1>1. Uploads(a)
  BY DEF InsertRow
<1>2. PICK doc \in Docs : doc = request[a].doc /\ doc \in 1..used /\ ~Exists(doc)
  BY <1>1, IdsAreDocs DEF CountInv, Inv, IdsAreOnce, Uploads
<1>3. PICK v : /\ row' = [row EXCEPT ![doc] = v]
               /\ v.status \in {"ready", "no_text"} /\ v.at = added + 1
               /\ v.file = request[a].file /\ v.twin = request[a].twin
  <2> DEFINE w == [status |-> request[a].step, file |-> request[a].file,
                   twin |-> request[a].twin, at |-> added + 1]
  <2>1. row' = [row EXCEPT ![doc] = w]
    BY <1>2 DEF InsertRow
  <2>2. /\ w.status \in {"ready", "no_text"} /\ w.at = added + 1
        /\ w.file = request[a].file /\ w.twin = request[a].twin
    BY DEF InsertRow
  <2> HIDE DEF w
  <2> QED
    BY <2>1, <2>2
<1>4. added' = added + 1 /\ UNCHANGED <<used, raced>>
  BY DEF InsertRow, ghosts
<1>5. \A b \in Actors : Uploads(b)' => b # a /\ Uploads(b) /\ request'[b] = request[b]
  <2>1. PICK r : Goes(a, r) /\ r.op = "index"
    BY DEF InsertRow
  <2>2. request'[a] = r /\ \A b \in Actors \ {a} : request'[b] = request[b]
    BY <2>1, Moves DEF CountInv, Inv
  <2> QED
    BY <2>1, <2>2 DEF Uploads
<1>6. row'[doc] = v /\ \A d \in Docs \ {doc} : row'[d] = row[d]
  BY <1>3 DEF CountInv, Inv, TypeInv
<1>7. /\ \A d \in Docs \ {doc} : (Exists(d)' <=> Exists(d)) /\ (Usable(d)' <=> Usable(d))
      /\ ~Usable(doc)
  BY <1>2, <1>6 DEF Exists, Usable
<1>8. FilesAreGiven'
  BY <1>5 DEF CountInv, FilesAreGiven
<1>9. DatesAreOnce'
  <2>1. \A d \in Docs \ {doc} : Exists(d)' => row'[d].at = row[d].at /\ row[d].at \in 1..added
    BY <1>6, <1>7 DEF CountInv, DatesAreOnce
  <2>2. added \in Nat /\ row'[doc].at = added + 1
    BY <1>3, <1>6 DEF CountInv, DatesAreOnce
  <2>3. \A d \in Docs : Exists(d)' => row'[d].at \in 1..added'
    BY <1>4, <2>1, <2>2
  <2>4. ASSUME NEW d \in Docs, NEW e \in Docs, Exists(d)', Exists(e)', row'[d].at = row'[e].at
        PROVE  d = e
    <3>1. CASE d = doc \/ e = doc
      BY <2>1, <2>2, <2>4, <3>1
    <3>2. CASE d # doc /\ e # doc
      BY <1>7, <2>1, <2>4, <3>2 DEF CountInv, DatesAreOnce
    <3> QED
      BY <3>1, <3>2
  <2> QED
    BY <1>4, <2>2, <2>3, <2>4 DEF DatesAreOnce
<1>10. RacesAreSeen'
  BY <1>4, <1>5 DEF CountInv, RacesAreSeen
<1>11. FirstsAreFirst'
  <2>1. ASSUME NEW b \in Actors, Uploads(b)', request'[b].twin = NoDoc,
               request'[b].file.sha \notin raced, NEW d \in Docs, Usable(d)'
        PROVE  row'[d].file.sha # request'[b].file.sha
    <3>1. CASE d = doc
      BY <1>1, <1>3, <1>5, <1>6, <2>1, <3>1 DEF CountInv, RacesAreSeen
    <3>2. CASE d # doc
      BY <1>5, <1>6, <1>7, <2>1, <3>2 DEF CountInv, FirstsAreFirst
    <3> QED
      BY <3>1, <3>2
  <2>2. ASSUME NEW d \in Docs, Usable(d), d # doc, row[d].file.sha = v.file.sha
        PROVE  v.file.sha \in raced \/ v.twin # NoDoc
    BY <1>1, <1>3, <2>2 DEF CountInv, FirstsAreFirst
  <2>3. ASSUME NEW d \in Docs, NEW e \in Docs, Usable(d)', Usable(e)', d # e,
               row'[d].file.sha = row'[e].file.sha
        PROVE  row'[d].file.sha \in raced \/ row'[d].twin # NoDoc \/ row'[e].twin # NoDoc
    <3>1. CASE d = doc
      BY <1>6, <1>7, <2>2, <2>3, <3>1
    <3>2. CASE e = doc
      BY <1>6, <1>7, <2>2, <2>3, <3>2
    <3>3. CASE d # doc /\ e # doc
      BY <1>6, <1>7, <2>3, <3>3 DEF CountInv, FirstsAreFirst
    <3> QED
      BY <3>1, <3>2, <3>3
  <2> QED
    BY <1>4, <2>1, <2>3 DEF FirstsAreFirst
<1>12. TwinsWereUsable'
  <2>1. \A d : WasUsable(d) => WasUsable(d)'
    BY <1>3, <1>4, <1>6, IdsAreDocs DEF WasUsable, CountInv, Inv
  <2>2. \A b \in Actors : Uploads(b)' /\ request'[b].twin # NoDoc => WasUsable(request'[b].twin)
    BY <1>5 DEF CountInv, TwinsWereUsable
  <2>3. \A d \in Docs : Usable(d)' /\ row'[d].twin # NoDoc => WasUsable(row'[d].twin)
    BY <1>1, <1>3, <1>6, <1>7 DEF CountInv, TwinsWereUsable
  <2> QED
    BY <2>1, <2>2, <2>3 DEF TwinsWereUsable
<1> QED
  BY <1>8, <1>9, <1>10, <1>11, <1>12 DEF CountInv

LEMMA DeleteRowKeepsCount ==
  ASSUME CountInv, Inv', NEW a \in Actors, DeleteRow(a)
  PROVE  CountInv'
<1>1. Goes(a, Idle) /\ UNCHANGED <<used, added, raced>>
  BY DEF DeleteRow, ghosts
<1>2. PICK doc \in Docs : row' = [row EXCEPT ![doc] = Gone]
  BY IdsAreDocs DEF CountInv, Inv, IdsAreOnce, DeleteRow
<1>3. \A d \in Docs : row'[d] = row[d] \/ row'[d] = Gone
  BY <1>2 DEF CountInv, Inv, TypeInv
<1>4. \A b \in Actors : Uploads(b)' => Uploads(b) /\ request'[b] = request[b]
  <2>1. request'[a] = Idle /\ \A b \in Actors \ {a} : request'[b] = request[b]
    BY <1>1, Moves DEF CountInv, Inv
  <2> QED
    BY <2>1 DEF Uploads, Idle
<1> QED
  BY <1>1, <1>3, <1>4, LessKeepsCount

LEMMA WriteExtractKeepsCount ==
  ASSUME CountInv, Inv', NEW a \in Actors, WriteExtract(a)
  PROVE  CountInv'
<1>1. PICK step : Goes(a, [request[a] EXCEPT !.step = step])
  BY DEF WriteExtract
<1>2. Uploads(a) /\ UNCHANGED <<used, row, added, raced>>
  BY DEF WriteExtract, rows, ghosts
<1>3. {"op", "step", "doc", "file", "twin"} \subseteq DOMAIN request[a]
  BY <1>2 DEF CountInv, Inv, TypeInv
<1>4. PICK r : /\ Goes(a, r)
               /\ r.file = request[a].file /\ r.twin = request[a].twin
  BY <1>1, <1>3
<1>5. request'[a] = r /\ \A b \in Actors \ {a} : request'[b] = request[b]
  BY <1>4, Moves DEF CountInv, Inv
<1>6. \A b \in Actors : Uploads(b)' =>
        Uploads(b) /\ request'[b].file = request[b].file /\ request'[b].twin = request[b].twin
  BY <1>2, <1>4, <1>5 DEF Uploads
<1> QED
  BY <1>2, <1>6, LessKeepsCount

\* the requests that upload nothing
LEMMA OthersKeepCount ==
  ASSUME CountInv, Inv', NEW a \in Actors,
         \/ SkipIndex(a) \/ StartIndex(a) \/ \E cut \in Cuts(a) : CommitIndex(a, cut)
         \/ AutoTag(a) \/ Abandon(a)
         \/ \E d \in Docs : Reindex(a, d) \/ RemoveFiles(a, d)
  PROVE  CountInv'
<1> DEFINE Frame == UNCHANGED <<used, row, added, raced>> /\ \E r : Goes(a, r) /\ r.op # "upload"
<1>1. SkipIndex(a) => Frame
  BY DEF SkipIndex, After, Idle, rows, ghosts
<1>2. StartIndex(a) => Frame
  BY DEF StartIndex, rows
<1>3. (\E cut \in Cuts(a) : CommitIndex(a, cut)) => Frame
  BY DEF CommitIndex, After, Idle, rows
<1>4. AutoTag(a) => Frame
  BY DEF AutoTag, Idle, ghosts
<1>5. Abandon(a) => Frame
  BY DEF Abandon, Idle, rows, ghosts
<1>6. (\E d \in Docs : Reindex(a, d) \/ RemoveFiles(a, d)) => Frame
  BY DEF Reindex, RemoveFiles, rows, ghosts
<1>7. PICK r : UNCHANGED <<used, row, added, raced>> /\ Goes(a, r) /\ r.op # "upload"
  BY <1>1, <1>2, <1>3, <1>4, <1>5, <1>6
<1>8. request'[a] = r /\ \A b \in Actors \ {a} : request'[b] = request[b]
  BY <1>7, Moves DEF CountInv, Inv
<1>9. \A b \in Actors : Uploads(b)' => Uploads(b) /\ request'[b] = request[b]
  BY <1>7, <1>8 DEF Uploads
<1> QED
  BY <1>7, <1>9, LessKeepsCount

LEMMA InitCount == Init => CountInv
<1> SUFFICES ASSUME Init PROVE CountInv
  OBVIOUS
<1>1. \A a \in Actors : ~Uploads(a)
  BY DEF Init, Idle, Uploads
<1>2. \A d \in Docs : ~Exists(d)
  BY DEF Init, Gone, Exists
<1>3. added = 0
  BY DEF Init
<1> QED
  BY <1>1, <1>2, <1>3, InitInv DEF CountInv, FilesAreGiven, DatesAreOnce, RacesAreSeen,
     FirstsAreFirst, TwinsWereUsable, Usable

LEMMA NextKeepsCount == CountInv /\ [Next]_vars => CountInv'
<1> SUFFICES ASSUME CountInv, [Next]_vars PROVE CountInv'
  OBVIOUS
<1>0. Inv'
  BY NextKeepsInv DEF CountInv
<1>1. ASSUME NEW a \in Actors, NEW f \in Files, Quarantine(a, f) \/ StoreBlob(a, f)
      PROVE  CountInv'
  BY <1>0, <1>1, QuarantineKeepsCount, StoreBlobKeepsCount
<1>2. ASSUME NEW a \in Actors, WriteExtract(a) \/ InsertRow(a) PROVE CountInv'
  BY <1>0, <1>2, WriteExtractKeepsCount, InsertRowKeepsCount
<1>3. ASSUME NEW a \in Actors, DeleteRow(a) PROVE CountInv'
  BY <1>0, <1>3, DeleteRowKeepsCount
<1>4. ASSUME NEW a \in Actors,
             \/ SkipIndex(a) \/ StartIndex(a) \/ \E cut \in Cuts(a) : CommitIndex(a, cut)
             \/ AutoTag(a) \/ Abandon(a)
             \/ \E d \in Docs : Reindex(a, d) \/ RemoveFiles(a, d)
      PROVE  CountInv'
  BY <1>0, <1>4, OthersKeepCount
<1>5. ASSUME UNCHANGED <<row, added, used, request, raced>> PROVE CountInv'
  BY <1>0, <1>5, LessKeepsCount DEF Uploads
<1>6. ASSUME NEW d \in Docs, SetTag(d) PROVE CountInv'
  BY <1>5, <1>6 DEF SetTag, ghosts
<1>7. CASE UNCHANGED vars
  BY <1>5, <1>7 DEF vars
<1> QED
  BY <1>1, <1>2, <1>3, <1>4, <1>6, <1>7 DEF Next

\* For any number of files, requests and documents and wherever a request fails: of the usable
\* documents of one content at most one is nobody's duplicate unless two were uploaded at the
\* same time, a duplicate points to a document that was usable, and a section grounds once on
\* every content that is tagged (duplicate check of vaf.py, _case_tags of orchestration).
THEOREM ContentAlwaysCountsOnce == Spec => []ContentCountsOnce
<1>1. ASSUME CountInv PROVE ContentCountsOnce
  <2>1. \A d, e \in Docs :
          Usable(d) /\ Usable(e) /\ d # e /\ row[d].file.sha = row[e].file.sha
            /\ row[d].file.sha \notin raced => row[d].twin # NoDoc \/ row[e].twin # NoDoc
    BY <1>1 DEF CountInv, FirstsAreFirst
  <2>2. \A d \in Docs : Usable(d) /\ row[d].twin # NoDoc =>
          ~Exists(row[d].twin) \/ (row[d].twin \in Docs /\ Usable(row[d].twin))
    BY <1>1, IdsAreDocs DEF CountInv, Inv, TwinsWereUsable, WasUsable, Usable
  <2> DEFINE usable == {d \in Docs : d \in tagged /\ Usable(d)}
  <2>3. CaseTags = {d \in usable : \A e \in usable :
                      row[e].file.sha = row[d].file.sha => row[d].at <= row[e].at}
    BY DEF CaseTags
  <2>4. ASSUME NEW d \in CaseTags, NEW e \in CaseTags, row[d].file.sha = row[e].file.sha
        PROVE  d = e
    <3>1. row[d].at \in Nat /\ row[e].at \in Nat /\ Exists(d) /\ Exists(e)
      BY <1>1, <2>3 DEF CountInv, DatesAreOnce, Usable
    <3>2. row[d].at <= row[e].at /\ row[e].at <= row[d].at
      BY <2>3, <2>4
    <3> QED
      BY <1>1, <2>3, <3>1, <3>2 DEF CountInv, DatesAreOnce
  <2>5. ASSUME NEW d \in usable PROVE \E e \in CaseTags : row[e].file.sha = row[d].file.sha
    <3> DEFINE same == {e \in usable : row[e].file.sha = row[d].file.sha}
    <3>1. same \in SUBSET {e \in Docs : Exists(e)} /\ same # {}
      BY DEF Usable
    <3>2. PICK e \in same : \A g \in same : row[e].at <= row[g].at
      <4> HIDE DEF same
      <4> QED
        BY <1>1, <3>1, EarliestExists DEF CountInv
    <3>3. e \in CaseTags
      BY <2>3, <3>2
    <3> QED
      BY <3>2, <3>3
  <2>6. {row[d].file.sha : d \in CaseTags}
          = {row[d].file.sha : d \in {e \in Docs : Usable(e)} \cap tagged}
    BY <2>3, <2>5
  <2> QED
    BY <2>1, <2>2, <2>4, <2>6 DEF ContentCountsOnce
<1>2. Spec => []CountInv
  BY InitCount, NextKeepsCount, PTL DEF Spec
<1> QED
  BY <1>1, <1>2, PTL
=============================================================================
