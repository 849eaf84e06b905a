------------------------------ MODULE Workbook ------------------------------
(***************************************************************************)
(* How a filled-in workbook (xlsx_io.py) or a CSV file of KPIs (csv_io.py) *)
(* becomes entries for the import and a report of what is wrong with it.   *)
(*                                                                         *)
(* A book maps the sheets it has to [keyed : the header names the key      *)
(* column, rows].  A row that is not empty is [key, code, order]: its key  *)
(* (Skip: left out, "#..." or "example..."), whether a required code is    *)
(* there, and its number: None if left out, Bad if it is none.  An entry   *)
(* is [mtype, key, row, items]; items are the rows its payload is made of. *)
(* The payloads' texts and flags play no part here.                        *)
(***************************************************************************)
EXTENDS Integers, Sequences, Sorting

Skip    == "skip"
NoOrder == -1
Bad     == -2

\* the sheet that holds the rows of a type
SheetOf == [codelist |-> "codelists", doctype |-> "doctypes", industry |-> "industries",
            prompt |-> "prompts", kpi_set |-> "kpi_sets", template |-> "templates"]

\* _sheet_rows: the rows in sight; none if the sheet is missing or its key column is
Rows(book, sheet) ==
  IF sheet \notin DOMAIN book \/ ~book[sheet].keyed THEN <<>> ELSE book[sheet].rows

\* a sheet with rows but without its key column is reported as a whole
HeaderErrors(book, sheet) ==
  IF sheet \in DOMAIN book /\ ~book[sheet].keyed /\ book[sheet].rows # <<>>
  THEN {<<sheet, 1>>} ELSE {}

\* _skip_key
Meant(book, sheet) == {n \in DOMAIN Rows(book, sheet) : Rows(book, sheet)[n].key # Skip}

\* what a parser cannot shape: a missing code, a number that is none (_num)
Faulty(sheet, row) ==
  \/ sheet \in {"codelists", "kpi_sets"} /\ ~row.code
  \/ sheet \in {"codelists", "doctypes", "prompts", "template_sections"} /\ row.order = Bad

Good(book, sheet) == {n \in Meant(book, sheet) : ~Faulty(sheet, Rows(book, sheet)[n])}

\* reported under the number the spreadsheet shows, the header being row 1
RowErrors(book, sheet) == {<<sheet, n + 1>> : n \in Meant(book, sheet) \ Good(book, sheet)}

-----------------------------------------------------------------------------
(* The entries of a type, with the errors of its sheets *)

Parsed(entries, errors) == [entries |-> entries, errors |-> errors]

SheetErrors(book, sheet) == HeaderErrors(book, sheet) \cup RowErrors(book, sheet)

ByRow(ns) == Ascending(ns)

\* doctypes, industries, prompts: a row is an entry
ParseRows(book, mtype) ==
  LET sheet == SheetOf[mtype] IN
  Parsed({[mtype |-> mtype, key |-> Rows(book, sheet)[n].key, row |-> n, items |-> <<n>>] :
            n \in Good(book, sheet)},
         SheetErrors(book, sheet))

\* codelists, kpi_sets: the rows of a key make up one entry
ParseGroups(book, mtype) ==
  LET sheet   == SheetOf[mtype]
      Of(key) == {n \in Good(book, sheet) : Rows(book, sheet)[n].key = key}
  IN Parsed({[mtype |-> mtype, key |-> Rows(book, sheet)[n].key, row |-> 0,
              items |-> ByRow(Of(Rows(book, sheet)[n].key))] : n \in Good(book, sheet)},
            SheetErrors(book, sheet))

\* a number that is left out counts as 1
OrderOf(row) == IF row.order = NoOrder THEN 1 ELSE row.order

\* the sections of a template, by their order and then as they are listed
SectionsOf(book, key) ==
  LET rows == Rows(book, "template_sections")
      ns   == {n \in Good(book, "template_sections") : rows[n].key = key}
  IN Sorted(ns, [n \in ns |-> OrderOf(rows[n])])

Orphans_Dropped(book) == {}
\* keys of sections without a row in the sheet of templates
Orphans(book) ==
  {Rows(book, "template_sections")[n].key : n \in Good(book, "template_sections")} \
  {Rows(book, "templates")[n].key : n \in Meant(book, "templates")}

ParseTemplates(book) ==
  LET rows == Rows(book, "templates") IN
  Parsed({[mtype |-> "template", key |-> rows[n].key, row |-> n,
           items |-> SectionsOf(book, rows[n].key)] : n \in Meant(book, "templates")},
         SheetErrors(book, "templates") \cup SheetErrors(book, "template_sections")
           \cup {<<"orphan", key>> : key \in Orphans(book)})

\* parse_type_workbook
ParseType(book, mtype) ==
  CASE mtype \in {"doctype", "industry", "prompt"} -> ParseRows(book, mtype)
    [] mtype \in {"codelist", "kpi_set"}           -> ParseGroups(book, mtype)
    [] mtype = "template"                          -> ParseTemplates(book)

\* parse_workbook
ParseWorkbook(book) ==
  LET parts == {ParseType(book, m) : m \in DOMAIN SheetOf} IN
  Parsed(UNION {p.entries : p \in parts}, UNION {p.errors : p \in parts})

-----------------------------------------------------------------------------
(* The CSV of KPIs: [header : BOOLEAN, rows], a row being                        *)
(* [key : industry or Skip, code, name, polarity : BOOLEAN]                      *)

Complete(row) == row.key # Skip /\ row.code /\ row.name /\ row.polarity

\* parse_kpi_csv; an unreadable file or another header is reported as row 0
ParseCsv(file) ==
  LET good    == {n \in DOMAIN file.rows : Complete(file.rows[n])}
      Of(key) == {n \in good : file.rows[n].key = key}
  IN IF ~file.header THEN Parsed({}, {<<"csv", 0>>})
     ELSE Parsed({[mtype |-> "kpi_set", key |-> file.rows[n].key, row |-> 0,
                   items |-> ByRow(Of(file.rows[n].key))] : n \in good},
                 {<<"csv", n + 1>> : n \in DOMAIN file.rows \ good})
=============================================================================
