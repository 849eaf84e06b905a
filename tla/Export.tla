------------------------------- MODULE Export -------------------------------
(***************************************************************************)
(* The exports of a CAM: how a section's markdown is taken apart           *)
(* (cam/common/markdownish.py) and put on the page by the two renderers    *)
(* (cam/services/output/exports.py).                                       *)
(*                                                                         *)
(* A line is [kind, n]: "blank", "text", "bullet", "heading" of level n,   *)
(* "row" of n cells, or "rule" -- a row whose cells are all dashes and     *)
(* colons.  An export is a sequence of pieces of a page, each naming the   *)
(* lines or cells it shows; wording, fonts and the replacement of          *)
(* characters that the PDF fonts lack are left out.                        *)
(***************************************************************************)
EXTENDS Naturals, Sequences, SequencesExt, FiniteSetsExt, Sorting

Block(kind, lines) == [kind |-> kind, lines |-> lines]

\* table rows and rules are collected together
Class(line) == IF line.kind \in {"row", "rule"} THEN "table" ELSE line.kind

\* the last of the lines that are collected from i on; a heading stands alone
RunEnd(text, i) ==
  IF Class(text[i]) = "heading" THEN i
  ELSE Max({j \in i..Len(text) : \A k \in i..j : Class(text[k]) = Class(text[i])})

\* where lines of another class, or a heading, begin
Starts(text) ==
  {i \in DOMAIN text : i = 1 \/ Class(text[i]) = "heading" \/ Class(text[i - 1]) # Class(text[i])}

\* blank lines separate, and rules are left out
Visible(text, S) == {i \in S : text[i].kind \notin {"rule", "blank"}}

\* parse_blocks: what is collected makes a block, unless nothing of it is left
Blocks(text) ==
  LET lines(i) == Visible(text, i..RunEnd(text, i))
      starts   == Ascending({i \in Starts(text) : lines(i) # {}})
  IN [k \in DOMAIN starts |-> Block(Class(text[starts[k]]), Ascending(lines(starts[k])))]

-----------------------------------------------------------------------------
(* Pages *)

\* size is that of a heading
Piece(style, size, shows) == [style |-> style, size |-> size, shows |-> shows]

\* a level above 4 is read as 4, and the first is left to the names of the sections
HeadingLevel(line) == LET parsed == Min({line.n, 4}) IN Min({parsed + 1, 4})

Width_OfHeader(text, lines) == text[Head(lines)].n
\* the columns of a table: the longest row decides
Width(text, lines) == Max({text[k].n : k \in ToSet(lines)})

\* short rows are filled up with empty cells
Cells(text, lines) ==
  [r \in DOMAIN lines |->
     [c \in 1..Width(text, lines) |-> IF c <= text[lines[r]].n THEN <<lines[r], c>> ELSE <<>>]]

\* _docx_block
DocxBlock(text, b) ==
  CASE b.kind = "heading" ->
         <<Piece("heading", HeadingLevel(text[Head(b.lines)]), b.lines)>>
    [] b.kind = "bullet"  -> [k \in DOMAIN b.lines |-> Piece("bullet", 0, <<b.lines[k]>>)]
    [] b.kind = "table"   -> <<Piece("table", 0, Cells(text, b.lines))>>
    [] b.kind = "text"    -> <<Piece("paragraph", 0, b.lines)>>

\* _pdf_heading: below the section's name, a second size and a third for the rest
PdfSize(level) == CASE level = 1 -> 16 [] level = 2 -> 13 [] OTHER -> 11

\* _pdf_block
PdfBlock(text, b) ==
  CASE b.kind = "heading" ->
         <<Piece("heading", PdfSize(HeadingLevel(text[Head(b.lines)])), b.lines)>>
    [] b.kind = "bullet"  -> [k \in DOMAIN b.lines |-> Piece("bullet", 0, <<b.lines[k]>>)]
    [] b.kind = "table"   -> <<Piece("table", 0, Cells(text, b.lines))>>
    [] b.kind = "text"    -> <<Piece("paragraph", 0, b.lines)>>

-----------------------------------------------------------------------------
(* A CAM: [draft : BOOLEAN, gaps : whether the section is the data-gap trailer, text] *)

\* an export: where the watermark is, and the pieces of the page

Watermark(cam, places) == IF cam.draft THEN places ELSE {}
GapsIntro == Piece("gaps", 0, <<>>)

\* the name of the section, and what introduces the gaps
Intro(cam, size) ==
  <<Piece("heading", size, <<>>)>> \o (IF cam.gaps THEN <<GapsIntro>> ELSE <<>>)

\* render_docx
Docx(cam) ==
  LET blocks == Blocks(cam.text) IN
  [marks |-> Watermark(cam, {"header", "banner"}),
   body  |-> Intro(cam, 1)
               \o FlattenSeq([k \in DOMAIN blocks |-> DocxBlock(cam.text, blocks[k])])]

\* render_pdf
Pdf(cam) ==
  LET blocks == Blocks(cam.text) IN
  [marks |-> Watermark(cam, {"header"}),
   body  |-> Intro(cam, PdfSize(1))
               \o FlattenSeq([k \in DOMAIN blocks |-> PdfBlock(cam.text, blocks[k])])]
=============================================================================
