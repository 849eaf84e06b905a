---------------------------- MODULE MCAlgorithms ----------------------------
(* Small inputs of every shape for the pure algorithms. *)
EXTENDS Algorithms

MCPrompts == {"kpi", "risk", "sum"}

\* unconditional, conditional, and conditional but mandatory sections
Conditions == {<<None, FALSE>>, <<"bs", FALSE>>, <<"bs", TRUE>>}

Sections(deps, conditions) ==
  {[deps |-> d, all |-> a, needs |-> c[1], mandatory |-> c[2]] :
     d \in SUBSET deps, a \in BOOLEAN, c \in conditions}

\* three sections that depend on each other in every way, and two with mistakes
MCTemplates ==
  {t \in [MCPrompts -> Sections(MCPrompts, Conditions)] : \A c \in MCPrompts : c \notin t[c].deps}
  \cup [{"risk", "ghost"} -> Sections({"risk", "ghost", "lost"}, {<<None, FALSE>>, <<"x", FALSE>>})]

Entry(mtype, key, refs) == [mtype |-> mtype, key |-> key, refs |-> refs]

Entries == {Entry("doctype", "bs", {}), Entry("industry", "retail", {}),
            Entry("prompt", "risk", {<<"doctype", "bs">>}),
            Entry("kpi_set", "retail", {<<"industry", "retail">>}),
            Entry("template", "cam", {<<"prompt", "risk">>, <<"doctype", "bs">>})}

\* every subset of the entries in every order, into an empty catalogue or one with a type
MCUploads ==
  {[known |-> k, entries |-> es] :
     k \in {{}, {<<"doctype", "bs">>}},
     es \in UNION {SetToSeqs(s) : s \in SUBSET Entries}}

UpTo(n, S) == UNION {[1..k -> S] : k \in 0..n}

Row(key, code, order) == [key |-> key, code |-> code, order |-> order]

\* what matters of a row of a sheet
RowsOf(sheet) ==
  {Row(k, c, o) : k \in {Skip, "a", "b"},
     c \in IF sheet \in {"codelists", "kpi_sets"} THEN BOOLEAN ELSE {TRUE},
     o \in CASE sheet \in {"codelists", "doctypes", "prompts"} -> {1, Bad}
            [] sheet = "template_sections" -> {NoOrder, 0, 2, Bad} [] OTHER -> {NoOrder}}

Sheet(keyed, rows) == [keyed |-> keyed, rows |-> rows]

\* a workbook with a good row on each sheet, for the others to stand beside
FullBook ==
  [s \in {SheetOf[m] : m \in DOMAIN SheetOf} \cup {"template_sections"} |->
     Sheet(TRUE, <<Row("a", TRUE, 1)>>)]

\* every content of one sheet in an otherwise full workbook, and every content of the two
\* sheets that make up the templates
MCBooks ==
  UNION {{[FullBook EXCEPT ![s] = Sheet(k, r)] : k \in BOOLEAN,
          r \in UpTo(IF s = "template_sections" THEN 3 ELSE 2, RowsOf(s))} :
           s \in DOMAIN FullBook}
  \cup {[templates |-> Sheet(k, t), template_sections |-> Sheet(TRUE, r)] :
          k \in BOOLEAN, t \in UpTo(2, RowsOf("templates")),
          r \in UpTo(2, RowsOf("template_sections"))}
  \cup {[templates |-> Sheet(TRUE, t)] : t \in UpTo(2, RowsOf("templates"))}
  \cup {[template_sections |-> Sheet(TRUE, r)] : r \in UpTo(2, RowsOf("template_sections"))}

MCCsvFiles ==
  {[header |-> h, rows |-> r] : h \in BOOLEAN,
     r \in UpTo(2, [key : {Skip, "a", "b"}, code : BOOLEAN, name : BOOLEAN, polarity : BOOLEAN])}

Line(kind, n) == [kind |-> kind, n |-> n]

\* texts of up to three lines, in a draft and a final CAM
MCCams ==
  {[draft |-> d, gaps |-> g, text |-> t] : d \in BOOLEAN, g \in BOOLEAN,
     t \in UpTo(3, {Line("blank", 0), Line("text", 0), Line("bullet", 0), Line("heading", 1),
                    Line("heading", 5), Line("row", 1), Line("row", 2), Line("rule", 2)})}

\* texts of up to seven characters in which a stop follows a word
MCTexts ==
  {[text |-> t, size |-> s, overlap |-> o] :
     t \in {u \in UNION {[1..n -> {"word", "newline", "stop"}] : n \in 0..7} :
              \A p \in DOMAIN u : u[p] = "stop" => p > 1 /\ u[p - 1] = "word"},
     s \in 0..5, o \in {0, 1, 2, 6}}

Hits == {[names |-> n, texts |-> ts] : n \in 0..1, ts \in {<<>>, <<1>>, <<1, 3>>, <<9>>}}

Catalogues ==
  {<<>>} \cup
  {<<[code |-> "bs", names |-> g.names, texts |-> g.texts],
     [code |-> "pl", names |-> h.names, texts |-> h.texts]>> : g \in Hits, h \in Hits}

Replies == {Nothing} \cup
  {[code |-> c, confidence |-> k] : c \in {"bs", "ghost", NoCode}, k \in {0, 500, 900}}

MCCases ==
  {[mode |-> m, catalogue |-> c, reply |-> r, threshold |-> 550] :
     m \in {"ai_first", "keyword_first", "keyword_only"}, c \in Catalogues, r \in Replies}

MCCodeOrder == [c \in {"bs", "pl"} |-> IF c = "bs" THEN 1 ELSE 2]
=============================================================================
