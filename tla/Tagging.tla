------------------------------- MODULE Tagging ------------------------------
(***************************************************************************)
(* The tag a document gets: the keyword scorer (cam/services/tagging/      *)
(* scorer.py), the verdict of the language model as the genai gateway      *)
(* passes it on, and how the tagging service combines them by mode.        *)
(* Confidences and the threshold are in thousandths, as round(x, 3) makes  *)
(* them.  The catalogue is the list of published doctypes as master-config *)
(* returns it; a doctype hits a document with some of its phrases:         *)
(*   [code, names : phrases in the filename,                               *)
(*    texts : occurrences in the text, one number per phrase].             *)
(***************************************************************************)
EXTENDS Naturals, Sequences, Sorting

NoCode  == "none"
Nothing == [code |-> NoCode]   \* no tag, no verdict, no answer

\* score_doctype: 3 for a phrase in the filename, 1 for each of the first 5 in the text
Score(d) ==
  3 * d.names + Cardinality({h \in (DOMAIN d.texts) \X (1..5) : h[2] <= d.texts[h[1]]})

\* confidence_for: score / (score + 4), rounded
Confidence(d) == LET s == Score(d) IN (2000 * s + s + 4) \div (2 * (s + 4))

\* d comes before e in scored.sort: by score, then by the place of the code in CodeOrder
Leads(d, e, CodeOrder) ==
  \/ Score(d) > Score(e)
  \/ Score(d) = Score(e) /\ CodeOrder[d.code] < CodeOrder[e.code]

\* the positions of the doctypes that score, the best first
Ranked(catalogue, CodeOrder) ==
  LET hits == {i \in DOMAIN catalogue : Score(catalogue[i]) > 0} IN
  InOrder(hits, {p \in hits \X hits : Leads(catalogue[p[1]], catalogue[p[2]], CodeOrder)})

\* classify: the best candidate of the keyword scorer
Keyword(catalogue, CodeOrder, threshold) ==
  IF \A i \in DOMAIN catalogue : Score(catalogue[i]) = 0 THEN Nothing
  ELSE LET d == catalogue[Ranked(catalogue, CodeOrder)[1]] IN
       [code |-> d.code, confidence |-> Confidence(d), method |-> "keyword",
        review |-> Confidence(d) < threshold]

Codes(catalogue) == {catalogue[i].code : i \in DOMAIN catalogue}

\* what POST /api/genai/classify makes of the model's reply: a code outside the
\* catalogue becomes none
Verdict(reply, catalogue) == IF reply.code \in Codes(catalogue) THEN reply ELSE Nothing

Names(verdict) == verdict.code # NoCode

\* adopt_llm
Adopted(verdict, threshold, disputed) ==
  [code |-> verdict.code, confidence |-> verdict.confidence, method |-> "llm",
   review |-> verdict.confidence < threshold \/ disputed]

AiFirst_Trusted(keyword, verdict, threshold) ==
  IF Names(verdict) THEN Adopted(verdict, threshold, FALSE) ELSE keyword
\* the model decides; a keyword result that disagrees flags the tag
AiFirst(keyword, verdict, threshold) ==
  IF Names(verdict)
  THEN Adopted(verdict, threshold, keyword # Nothing /\ keyword.code # verdict.code)
  ELSE keyword

\* the model is asked when the keywords reveal nothing usable
KeywordFirst(keyword, verdict, threshold) ==
  IF /\ keyword = Nothing \/ keyword.confidence < threshold
     /\ Names(verdict)
     /\ keyword = Nothing \/ verdict.confidence > keyword.confidence
  THEN Adopted(verdict, threshold, FALSE)
  ELSE keyword

\* classify_document
Tag(mode, catalogue, CodeOrder, reply, threshold) ==
  LET keyword == Keyword(catalogue, CodeOrder, threshold)
      verdict == Verdict(reply, catalogue)
  IN CASE mode = "ai_first"      -> AiFirst(keyword, verdict, threshold)
       [] mode = "keyword_first" -> KeywordFirst(keyword, verdict, threshold)
       [] mode = "keyword_only"  -> keyword
=============================================================================
