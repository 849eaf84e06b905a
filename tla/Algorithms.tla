----------------------------- MODULE Algorithms -----------------------------
(***************************************************************************)
(* The services' pure algorithms at work on one input each: master-config  *)
(* validates a template, whose sections orchestration then drafts in the   *)
(* order their dependencies allow; master-config imports a bundle, or      *)
(* parses a workbook or a CSV file; document splits a text into chunks;    *)
(* tagging classifies a document; output exports a CAM.                    *)
(***************************************************************************)
EXTENDS TemplateRules, Workbook, Chunking, Tagging, Export

CONSTANTS
  Templates,   \* templates offered to master-config
  PromptKeys,  \* section prompts that exist
  DocTypes,    \* document types that exist
  Uploads,     \* bundles: [known : what exists already, entries : a sequence]
  Books,       \* workbooks of masters
  CsvFiles,    \* files of KPIs
  Texts,       \* texts with a window: [text, size, overlap]
  Cases,       \* classifications: [mode, catalogue, reply, threshold]
  Cams         \* CAMs to export

CONSTANT CodeOrder  \* how the codes of document types compare

Listed(s) == Len(s) \in Nat /\ DOMAIN s = 1..Len(s)

\* What the schemas of the requests and of the masters ensure.  Published document types
\* have different codes, and what a payload refers to is of another type.
ASSUME InputsAssumption ==
  /\ CodeOrder \in [DOMAIN CodeOrder -> Nat]
  /\ \A c \in Cases :
       /\ c.mode \in {"ai_first", "keyword_first", "keyword_only"}
       /\ c.threshold \in Nat
       /\ c.catalogue \in Seq([code : DOMAIN CodeOrder, names : Nat, texts : Seq(Nat)])
       /\ \A i, j \in DOMAIN c.catalogue :
            CodeOrder[c.catalogue[i].code] = CodeOrder[c.catalogue[j].code] => i = j
       /\ c.reply.code # NoCode => c.reply.confidence \in Nat
  /\ \A b \in Books : \A sheet \in DOMAIN b :
       /\ b[sheet].keyed \in BOOLEAN
       /\ Listed(b[sheet].rows)
       /\ \A n \in DOMAIN b[sheet].rows : b[sheet].rows[n].order \in Int
  /\ \A t \in Templates : IsFiniteSet(DOMAIN t) /\ \A c \in DOMAIN t : t[c].all \in BOOLEAN
  /\ \A u \in Uploads :
       /\ Listed(u.entries)
       /\ \A n \in DOMAIN u.entries :
            /\ u.entries[n].mtype \in DOMAIN RefersTo
            /\ \A r \in u.entries[n].refs : r[1] \in RefersTo[u.entries[n].mtype]
  /\ \A x \in Texts : Listed(x.text) /\ x.size \in Nat /\ x.overlap \in Nat
  /\ \A f \in CsvFiles : f.header \in BOOLEAN /\ Listed(f.rows)
  /\ \A c \in Cams :
       /\ c.draft \in BOOLEAN /\ c.gaps \in BOOLEAN /\ Listed(c.text)
       /\ \A i \in DOMAIN c.text :
            /\ c.text[i].kind \in {"blank", "text", "bullet", "heading", "row", "rule"}
            /\ c.text[i].n \in Nat
            /\ c.text[i].kind \in {"heading", "row"} => c.text[i].n # 0

VARIABLES
  input,   \* [kind, value]: what the algorithm is run on
  answer,  \* [kind, value]: what it returned, once it has
  drafted  \* sections of the accepted template drafted so far

vars == <<input, answer, drafted>>

Asked(kind, values) == {[kind |-> kind, value |-> v] : v \in values}

Init ==
  /\ \/ input \in Asked("template", Templates) \/ input \in Asked("bundle", Uploads)
     \/ input \in Asked("book", Books)         \/ input \in Asked("csv", CsvFiles)
     \/ input \in Asked("text", Texts)         \/ input \in Asked("case", Cases)
     \/ input \in Asked("cam", Cams)
  /\ answer = [kind |-> "none"]
  /\ drafted = {}

Answer(kind, value) ==
  /\ input.kind = kind
  /\ answer.kind = "none"
  /\ answer' = [kind |-> kind, value |-> value]
  /\ UNCHANGED <<input, drafted>>

ValidateTemplate == Answer("template", TemplateErrors(input.value, PromptKeys, DocTypes))
ImportBundle     == Answer("bundle", Landed(input.value.known, input.value.entries))
UploadWorkbook   == Answer("book", ParseWorkbook(input.value))
UploadCsv        == Answer("csv", ParseCsv(input.value))
SplitText        == Answer("text", Chunks(input.value.text, input.value.size,
                                          input.value.overlap))
Classify         == Answer("case", Tag(input.value.mode, input.value.catalogue, CodeOrder,
                                       input.value.reply, input.value.threshold))
ExportCam        == Answer("cam", [docx |-> Docx(input.value), pdf |-> Pdf(input.value)])

Accepted == answer.kind = "template" /\ answer.value = {}

\* a run of the template on a case without tagged documents drafts a section
DraftSection(c) ==
  /\ Accepted
  /\ c \in ToDraft(input.value, {}, drafted)
  /\ ReadyToDraft(input.value, {}, drafted, c)
  /\ drafted' = drafted \cup {c}
  /\ UNCHANGED <<input, answer>>

Next ==
  \/ ValidateTemplate \/ ImportBundle \/ UploadWorkbook \/ UploadCsv
  \/ SplitText \/ Classify \/ ExportCam
  \/ \E c \in PromptKeys : DraftSection(c)

Spec == Init /\ [][Next]_vars

-----------------------------------------------------------------------------
\* Master-config and orchestration read dependencies alike (FR-D08, FR-D13): a cycle is
\* reported exactly if the jobs a run of the template would have cannot be ranked, and
\* the run of an accepted template always has a section to draft until all are drafted
\* or skipped, also when the skipped ones are depended on.
TemplatesDrain ==
  /\ answer.kind = "template" /\ drafted = {} =>
       LET jobs == [c \in DOMAIN input.value |-> JobDeps(input.value, c)] IN
       "cycle" \in answer.value <=> ~Acyclic(jobs)
  /\ Accepted /\ ToDraft(input.value, {}, drafted) # {} =>
       \E c \in DOMAIN input.value : ReadyToDraft(input.value, {}, drafted, c)

\* The largest part of a bundle whose references stay within it and what exists.
Importable(known, entries) ==
  LET Keys(es) == {<<e.mtype, e.key>> : e \in es}
      Closed   == {es \in SUBSET ToSet(entries) :
                     \A e \in es : e.refs \subseteq known \cup Keys(es)}
  IN known \cup Keys(UNION Closed)

\* Whatever the order in which a bundle lists its entries, everything lands whose
\* references exist or are in the bundle and land themselves (_import_entries).
BundlesImport ==
  answer.kind = "bundle" =>
    answer.value = Importable(input.value.known, input.value.entries)

\* a row is reported by its number, or with its sheet
Told(errors, sheet, n) == <<sheet, 1>> \in errors \/ <<sheet, n + 1>> \in errors

At(entries, mtype, key) == {e \in entries : e.mtype = mtype /\ e.key = key}
MadeOf(entries, n) == {e \in entries : n \in ToSet(e.items)}

\* a row that has a key ends in one entry under that key, or is reported
RowsAreKept(book, entries, errors) ==
  \A m \in DOMAIN SheetOf : SheetOf[m] \in DOMAIN book =>
    LET s == SheetOf[m] IN
    \A n \in DOMAIN book[s].rows : book[s].rows[n].key # Skip =>
      LET es == At(entries, m, book[s].rows[n].key) IN
      IF m = "template" THEN Told(errors, s, n) <=> ~\E e \in es : e.row = n
      ELSE Cardinality(MadeOf(es, n)) = IF Told(errors, s, n) THEN 0 ELSE 1

\* a section is in every template of its key, and reported if there is none
SectionsAreKept(book, entries, errors) ==
  "template_sections" \in DOMAIN book =>
    LET s == "template_sections" IN
    \A n \in DOMAIN book[s].rows : book[s].rows[n].key # Skip =>
      LET key == book[s].rows[n].key
          es  == At(entries, "template", key)
      IN /\ MadeOf(es, n) = IF Told(errors, s, n) THEN {} ELSE es
         /\ ~Told(errors, s, n) => (es = {} <=> <<"orphan", key>> \in errors)

\* an entry has no row twice, and a template has its sections in their order
ItemsAreOrdered(book, entries) ==
  \A e \in entries : \A j, k \in DOMAIN e.items : j < k =>
    /\ e.items[j] # e.items[k]
    /\ e.mtype = "template" =>
         LET rows == book["template_sections"].rows IN
         OrderOf(rows[e.items[j]]) <= OrderOf(rows[e.items[k]])

GroupsAreWhole(entries) ==
  \A m \in {"codelist", "kpi_set"} : \A e, f \in entries :
    e.mtype = m /\ f.mtype = m /\ e.key = f.key => e = f

CsvRowsAreKept(file, entries, errors) ==
  \A n \in DOMAIN file.rows :
    Cardinality({e \in entries : e.key = file.rows[n].key /\ n \in ToSet(e.items)})
      = IF <<"csv", 0>> \in errors \/ <<"csv", n + 1>> \in errors THEN 0 ELSE 1

\* No row of an uploaded file gets lost (parse_workbook, parse_kpi_csv): one that has a key
\* ends in exactly one entry, under that key, or is reported -- by its number, with its
\* sheet or, for a section, with its template -- and never both; a section is in every
\* template of its key, in the order of the sections; grouped rows make one entry per key.
UploadsLoseNoRow ==
  LET book    == input.value
      entries == answer.value.entries
      errors  == answer.value.errors
  IN /\ answer.kind = "book" =>
          /\ RowsAreKept(book, entries, errors)
          /\ SectionsAreKept(book, entries, errors)
          /\ ItemsAreOrdered(book, entries)
          /\ GroupsAreWhole(entries)
     /\ answer.kind = "csv" => CsvRowsAreKept(input.value, entries, errors)

\* Retrieval cannot miss text for want of a chunk: every character that is not blank is
\* in one, no chunk exceeds the window, and both ends move forward from chunk to chunk,
\* the right one as long as the overlap is at most half the window (chunk_text).  Only a
\* window of no characters makes no chunks.
ChunksCover ==
  answer.kind = "text" =>
    LET text   == input.value.text
        chunks == answer.value
    IN /\ \A p \in DOMAIN text : text[p] = "word" /\ input.value.size > 0 =>
            \E k \in DOMAIN chunks : chunks[k].start < p /\ p <= chunks[k].end
       /\ \A k \in DOMAIN chunks : chunks[k].end - chunks[k].start \in 1..input.value.size
       /\ \A j, k \in DOMAIN chunks : j < k =>
            /\ chunks[j].start < chunks[k].start
            /\ 2 * input.value.overlap <= input.value.size => chunks[j].end < chunks[k].end

\* what a document's tag is to the classification it is the result of
TagAgrees(c, tag, keyword) ==
  IF tag = Nothing
  THEN /\ keyword = Nothing
       /\ c.mode # "keyword_only" => ~Names(Verdict(c.reply, c.catalogue))
  ELSE /\ tag.code \in Codes(c.catalogue)
       /\ ~tag.review =>
            /\ tag.confidence >= c.threshold
            /\ c.mode = "ai_first" /\ keyword # Nothing => keyword.code = tag.code

\* What nobody is asked to look at is beyond doubt: a tag that is not flagged for review
\* is a published type, confident enough, and when the model decides not contradicted by
\* the keywords; a document stays without a tag only if the keywords find nothing and
\* the model, if asked, names nothing that is published (classify_document).
UnreviewedTagsAgree ==
  LET c == input.value IN
  answer.kind = "case" =>
    TagAgrees(c, answer.value, Keyword(c.catalogue, CodeOrder, c.threshold))

\* the lines of the text that a piece of a page shows
LinesOf(p) ==
  IF p.style = "table" THEN [r \in DOMAIN p.shows |-> p.shows[r][1][1]] ELSE p.shows

\* the pieces show each of the lines once and in order
ShowsInOrder(body, lines) ==
  /\ UNION {ToSet(LinesOf(body[k])) : k \in DOMAIN body} = lines
  /\ \A k, l \in DOMAIN body :
       \A m \in DOMAIN LinesOf(body[k]), n \in DOMAIN LinesOf(body[l]) :
         k < l \/ (k = l /\ m < n) => LinesOf(body[k])[m] < LinesOf(body[l])[n]

\* the rows of a table are equally long and have all cells of their lines
TablesAreWhole(text, body) ==
  \A k \in DOMAIN body : body[k].style = "table" =>
    \A r \in DOMAIN body[k].shows :
      LET row == body[k].shows[r]
          i   == row[1][1]
      IN /\ Len(row) = Len(body[k].shows[1])
         /\ \A c \in 1..text[i].n : c \in DOMAIN row /\ row[c] = <<i, c>>

\* An export shows the whole section (exports.py, "the two formats stay in lockstep"): each
\* line of the text, and each cell of a row, once and in order, the same in both formats,
\* with tables of equal rows; no heading of the text passes for the name of a section; the
\* watermark is there as long as the CAM is a draft (FR-E08), the note on gaps with them.
ExportsShowEverything ==
  answer.kind = "cam" =>
    LET cam   == input.value
        docx  == answer.value.docx
        pdf   == answer.value.pdf
        lines == {i \in DOMAIN cam.text : cam.text[i].kind \notin {"blank", "rule"}}
    IN /\ \A page \in {docx, pdf} :
            /\ ShowsInOrder(page.body, lines)
            /\ TablesAreWhole(cam.text, page.body)
            /\ \A k \in DOMAIN page.body : page.body[k].size = page.body[1].size => k = 1
            /\ page.marks # {} <=> cam.draft
            /\ (\E k \in DOMAIN page.body : page.body[k].style = "gaps") <=> cam.gaps
       /\ Len(docx.body) = Len(pdf.body)
       /\ \A k \in DOMAIN docx.body :
            docx.body[k].style = pdf.body[k].style /\ docx.body[k].shows = pdf.body[k].shows
=============================================================================
