--------------------------- MODULE DocumentIntake ---------------------------
(***************************************************************************)
(* The document service (cam/services/document) on one case: the intake    *)
(* pipeline of an upload (vaf.py), re-indexing, deletion, tags, and what   *)
(* a run of the case gets from it (retrieval, full text).  The rows are in *)
(* a database, blobs and extracts in a store of their own, and the index   *)
(* in the database or in a managed service: nothing spans two of them.     *)
(*                                                                         *)
(* Every write to one of them is a step.  A request may fail or its        *)
(* process stop between any two steps; what it has written stays.          *)
(*                                                                         *)
(* A file is [sha, allowed, text]: its content, whether it passes          *)
(* validation and the scan, and its text layer ("text", "blank", or "none" *)
(* when nothing can be parsed).  X_Slip is X with a plausible slip.        *)
(***************************************************************************)
EXTENDS Naturals, FiniteSets

CONSTANTS
  Files,       \* files that analysts have or the repository holds
  Actors,      \* requests that may be in progress at the same time
  MaxDocs,     \* BOUND: rows ever created
  OcrEnabled,  \* a scan without text layer is sent to OCR
  Counts       \* numbers of passages a text is cut into, as rag_chunk_size is deployed

ASSUME IntakeAssumption ==
  /\ Files \subseteq [sha : STRING, allowed : BOOLEAN, text : {"text", "blank", "none"}]
  /\ MaxDocs \in Nat
  /\ OcrEnabled \in BOOLEAN
  /\ Counts \subseteq Nat \ {0}

Docs   == 1..MaxDocs
Modes  == {"keyword", "embedding"}
NoDoc  == 0

VARIABLES
  managed,    \* the index is the managed service (retrieval_backend)
  row,        \* documents: [file, status, twin, at], for duplicate_of and uploaded_at
  added,      \* rows ever inserted, the time that uploaded_at shows
  used,       \* ids given out; new_id never repeats one
  blob,       \* ids with a stored blob
  extract,    \* the stored extract of an id, "none" if there is none
  cuts,       \* what the index holds of an id: a set of [by, mode, count]
  tagged,     \* documents with a tag of the type that a section draws on
  request,    \* what each actor's request is about to do
  doomed,     \* GHOST: ids whose deletion has begun
  doubled,    \* GHOST: ids indexed by two requests at the same time, or cut into fewer
              \* passages than the managed index held of them
  raced       \* GHOST: contents uploaded by two requests at the same time

vars == <<managed, row, added, used, blob, extract, cuts, tagged, request, doomed,
          doubled, raced>>

files  == <<blob, extract>>
rows   == <<row, added, tagged>>
ghosts == <<doomed, doubled, raced>>

Idle == [op |-> "none"]

Gone == [status |-> "gone"]

Init ==
  /\ managed \in BOOLEAN
  /\ row = [d \in Docs |-> Gone]
  /\ added = 0
  /\ used = 0
  /\ blob = {}
  /\ extract = [d \in Docs |-> "none"]
  /\ cuts = [d \in Docs |-> {}]
  /\ tagged = {}
  /\ request = [a \in Actors |-> Idle]
  /\ doomed = {}
  /\ doubled = {}
  /\ raced = {}

Exists(d)  == row[d].status # "gone"
Uploads(a) == request[a].op = "upload"

-----------------------------------------------------------------------------
(* Upload: process_file *)

Goes(a, r) == request' = [request EXCEPT ![a] = r]

\* refused by validation or scan: the row says why, nothing is stored
Quarantine(a, f) ==
  /\ request[a] = Idle /\ used < MaxDocs /\ ~f.allowed
  /\ used' = used + 1
  /\ row' = [row EXCEPT ![used + 1] =
                [status |-> "quarantined", file |-> f, twin |-> NoDoc, at |-> added + 1]]
  /\ added' = added + 1
  /\ UNCHANGED <<managed, cuts, tagged, request, files, ghosts>>

Usable(d) == Exists(d) /\ row[d].status # "quarantined"

Copies_AnyStatus(f) == {d \in Docs : Exists(d) /\ row[d].file.sha = f.sha}
\* usable documents of the same content
Copies(f) == {d \in Docs : Usable(d) /\ row[d].file.sha = f.sha}

Earliest(S) == CHOOSE d \in S : \A e \in S : row[d].at <= row[e].at

\* the duplicate check, then write_blob
StoreBlob(a, f) ==
  /\ request[a] = Idle /\ used < MaxDocs /\ f.allowed
  /\ used' = used + 1
  /\ blob' = blob \cup {used + 1}
  /\ Goes(a, [op |-> "upload", step |-> "extract", doc |-> used + 1, file |-> f,
              twin |-> IF Copies(f) = {} THEN NoDoc ELSE Earliest(Copies(f))])
  /\ raced' = raced \cup
       {g.sha : g \in {request[b].file : b \in {c \in Actors : Uploads(c)}} \cap
                      {g \in Files : g.sha = f.sha}}
  /\ UNCHANGED <<managed, extract, cuts, doomed, doubled, rows>>

\* ocr_text: what comes back if it does not fail
OcrText == IF OcrEnabled THEN {"text"} ELSE {}

\* only a file without a text layer is sent to OCR
Recovered(f) == {f.text} \cup (IF f.text # "text" THEN OcrText ELSE {})

Written_LayerOnly(f, text) == f.text
\* write_extract: the text that was found, by OCR too
Written(f, text) == text

WriteExtract(a) ==
  /\ Uploads(a) /\ request[a].step = "extract"
  /\ \E text \in Recovered(request[a].file) :
       /\ extract' = [extract EXCEPT ![request[a].doc] = Written(request[a].file, text)]
       /\ Goes(a, [request[a] EXCEPT !.step = IF text = "text" THEN "ready" ELSE "no_text"])
  /\ UNCHANGED <<managed, used, blob, cuts, rows, ghosts>>

InsertRow(a) ==
  LET r == request[a] IN
  /\ Uploads(a) /\ r.step \in {"ready", "no_text"}
  /\ row' = [row EXCEPT ![r.doc] =
                [status |-> r.step, file |-> r.file, twin |-> r.twin, at |-> added + 1]]
  /\ added' = added + 1
  /\ Goes(a, [op |-> "index", doc |-> r.doc, step |-> "start", next |-> "tag"])
  /\ UNCHANGED <<managed, used, cuts, tagged, files, ghosts>>

-----------------------------------------------------------------------------
(* Indexing: index_document_chunks, on upload and on demand *)

\* POST .../reindex of a document with text
Reindex(a, d) ==
  /\ request[a] = Idle
  /\ row[d].status = "ready"
  /\ Goes(a, [op |-> "index", doc |-> d, step |-> "start", next |-> "done"])
  /\ UNCHANGED <<managed, used, cuts, files, rows, ghosts>>

Indexes(a, d) == request[a].op = "index" /\ request[a].doc = d

After(a) == IF request[a].next = "done" THEN Idle ELSE [op |-> "tag", doc |-> request[a].doc]

\* nothing to index -- retrieval is off, the text is blank or its extract gone -- or
\* no vectors: what the index holds is left alone
SkipIndex(a) ==
  /\ request[a].op = "index" /\ request[a].step = "start"
  /\ Goes(a, After(a))
  /\ UNCHANGED <<managed, used, cuts, files, rows, ghosts>>

\* the rows that DELETE sees; nothing is deleted from the managed index
Replaced(d) == IF managed THEN {} ELSE cuts[d]

\* What an indexing may bring: with or without vectors, which makes a difference only for
\* the local ranking, and in how many passages, which only the managed index remembers.
Cuts(a) == IF managed THEN {[by |-> "index", mode |-> "keyword", count |-> n] : n \in Counts}
                      ELSE {[by |-> a, mode |-> m, count |-> 1] : m \in Modes}

\* the text is cut and embedded -- how, shows when it is written -- and the transaction
\* deletes the cuts it sees
StartIndex(a) ==
  LET d == request[a].doc IN
  /\ request[a].op = "index" /\ request[a].step = "start"
  /\ extract[d] = "text"
  /\ Goes(a, [op |-> "index", doc |-> d, step |-> "write", next |-> request[a].next,
              replaced |-> Replaced(d)])
  /\ doubled' = doubled \cup
       (IF \E b \in Actors \ {a} : Indexes(b, d) /\ request[b].step = "write" THEN {d} ELSE {})
  /\ UNCHANGED <<managed, used, cuts, doomed, raced, files, rows>>

\* upsert_chunks: the managed service merges by document and position, whether the row
\* exists or not, so that what is beyond the new passages stays
Left(d, cut)     == {c \in cuts[d] : c.count > cut.count}
Upserted(d, cut) == {cut} \cup Left(d, cut)

\* the rows are replaced; an insert for a document that is gone fails
Inserted(d, cut, replaced) ==
  IF Exists(d) THEN (cuts[d] \ replaced) \cup {cut} ELSE cuts[d]

\* the new cuts are written and committed
CommitIndex(a, cut) ==
  LET r == request[a] IN
  /\ r.op = "index" /\ r.step = "write"
  /\ cuts' = [cuts EXCEPT ![r.doc] = IF managed THEN Upserted(r.doc, cut)
                                                ELSE Inserted(r.doc, cut, r.replaced)]
  /\ doubled' = doubled \cup (IF managed /\ Left(r.doc, cut) # {} THEN {r.doc} ELSE {})
  /\ Goes(a, After(a))
  /\ UNCHANGED <<managed, used, doomed, raced, files, rows>>

-----------------------------------------------------------------------------
(* Tags *)

\* the end of an upload: classification finds the type, or another or none
AutoTag(a) ==
  /\ request[a].op = "tag"
  /\ Exists(request[a].doc)
  /\ tagged' \in {tagged, tagged \cup {request[a].doc}}
  /\ Goes(a, Idle)
  /\ UNCHANGED <<managed, row, added, used, cuts, files, ghosts>>

\* add, change or remove a tag by hand, of a quarantined document, too
SetTag(d) ==
  /\ Exists(d)
  /\ tagged' \in {tagged \cup {d}, tagged \ {d}} \ {tagged}
  /\ UNCHANGED <<managed, row, added, used, cuts, request, files, ghosts>>

-----------------------------------------------------------------------------
(* Deletion: files, then row, then the managed index *)

RemoveFiles(a, d) ==
  /\ request[a] = Idle
  /\ Exists(d)
  /\ blob' = blob \ {d}
  /\ extract' = [extract EXCEPT ![d] = "none"]
  /\ doomed' = doomed \cup {d}
  /\ Goes(a, [op |-> "delete", doc |-> d])
  /\ UNCHANGED <<managed, used, cuts, doubled, raced, rows>>

\* delete_document of the managed index; the service may be out of reach
Purged(d) == {{}, cuts[d]}

\* with its tags and local cuts
DeleteRow(a) ==
  LET d == request[a].doc IN
  /\ request[a].op = "delete"
  /\ Exists(d)
  /\ row' = [row EXCEPT ![d] = Gone]
  /\ tagged' = tagged \ {d}
  /\ \E left \in IF managed THEN Purged(d) ELSE {{}} : cuts' = [cuts EXCEPT ![d] = left]
  /\ Goes(a, Idle)
  /\ UNCHANGED <<managed, added, used, files, ghosts>>

\* a request fails or stops
Abandon(a) ==
  /\ request[a] # Idle
  /\ Goes(a, Idle)
  /\ UNCHANGED <<managed, used, cuts, files, rows, ghosts>>

-----------------------------------------------------------------------------
(* What a run of the case gets *)

\* _case_tags of orchestration: the documents that ground the section, the first one of each
\* content in the order of the case's list
CaseTags ==
  LET usable == {d \in Docs : d \in tagged /\ Usable(d)}
  IN {d \in usable : \A e \in usable :
        row[e].file.sha = row[d].file.sha => row[d].at <= row[e].at}

\* an extract that is absent reads as blank
ReadExtract(d) == IF extract[d] = "none" THEN "blank" ELSE extract[d]

Refused(d) == row[d].status \in {"gone", "quarantined"}

\* get_document_text
FullText(d) == IF Refused(d) THEN "refused" ELSE ReadExtract(d)

\* rank, rank_keyword: a passage without a vector is no candidate in embedding mode
Local(d, mode) == {c \in cuts[d] : mode = "keyword" \/ c.mode = "embedding"}

\* search_one: a query by text and, in embedding mode, vector
Searched(d) == cuts[d]

\* retrieve: the passages that may be returned; without a vector for the query, none
Ranked(d, mode) ==
  CASE Refused(d)               -> {}
    [] ~Refused(d) /\ managed   -> Searched(d)
    [] ~Refused(d) /\ ~managed  -> Local(d, mode)

\* what _section_payload may ground the section on: passages, or else the full text
Grounding(d, mode) ==
  {FullText(d)} \cup (IF Ranked(d, mode) = {} THEN {} ELSE {"passages"})

-----------------------------------------------------------------------------
Next ==
  \/ \E a \in Actors :
       \/ \E f \in Files : Quarantine(a, f) \/ StoreBlob(a, f)
       \/ WriteExtract(a) \/ InsertRow(a)
       \/ SkipIndex(a) \/ StartIndex(a) \/ \E cut \in Cuts(a) : CommitIndex(a, cut)
       \/ AutoTag(a)
       \/ \E d \in Docs : Reindex(a, d) \/ RemoveFiles(a, d)
       \/ DeleteRow(a) \/ Abandon(a)
  \/ \E d \in Docs : SetTag(d)

Spec == Init /\ [][Next]_vars

-----------------------------------------------------------------------------
\* A source is never lost without notice, whatever fails or stops between the store, the
\* rows and the index: a document that reads "ready" grounds a section on its passages or
\* its text in every retrieval mode, unless its deletion has begun; one that is deleted
\* or quarantined is refused, also when the index still holds it; and no passage is
\* served twice unless two indexings of the document overlapped or the managed index
\* held more of it than it is cut into now.
SourcesNeverSilentlyLost ==
  \A d \in Docs, mode \in Modes :
    /\ row[d].status = "ready" /\ d \notin doomed =>
         d \in blob /\ Grounding(d, mode) \subseteq {"passages", "text"}
    /\ row[d].status \in {"gone", "quarantined"} => Grounding(d, mode) = {"refused"}
    /\ d \notin doubled => Cardinality(Ranked(d, mode)) <= 1

\* Duplicates are warned of and used once (FR-C07, _case_tags): of the usable documents
\* of one content at most one is nobody's duplicate, unless two were uploaded at the same
\* time; a duplicate points to a document that was usable; a section grounds on a
\* content once, and on every content that is tagged.
ContentCountsOnce ==
  LET usable == {d \in Docs : Usable(d)}
      Sha(d) == row[d].file.sha
  IN /\ \A d, e \in usable :
          d # e /\ Sha(d) = Sha(e) /\ Sha(d) \notin raced =>
            row[d].twin # NoDoc \/ row[e].twin # NoDoc
     /\ \A d \in usable : row[d].twin # NoDoc =>
          ~Exists(row[d].twin) \/ row[d].twin \in usable
     /\ \A d, e \in CaseTags : d # e => Sha(d) # Sha(e)
     /\ {Sha(d) : d \in CaseTags} = {Sha(d) : d \in usable \cap tagged}
=============================================================================
