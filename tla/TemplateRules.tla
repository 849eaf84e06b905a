---------------------------- MODULE TemplateRules ---------------------------
(***************************************************************************)
(* What master-config accepts (schemas.validate_payload, and the import of *)
(* a bundle in main.py) and what a run makes of an accepted template       *)
(* (orchestration create_run and the readiness of a section).  Pure        *)
(* operators; MCAlgorithms evaluates them on enumerated inputs.            *)
(*                                                                         *)
(* A template is a function from its section codes to                      *)
(*   [deps : section codes, all : BOOLEAN, needs : document type or None,  *)
(*    mandatory : BOOLEAN].                                                *)
(***************************************************************************)
EXTENDS Naturals, Sequences, Sorting

None == "none"

-----------------------------------------------------------------------------
(* The dependency graph of a template *)

ResolvedDeps_ExplicitOnly(t, c) == t[c].deps \cap (DOMAIN t \ {c})
\* _resolved_deps
ResolvedDeps(t, c) ==
  IF t[c].all THEN DOMAIN t \ {c} ELSE t[c].deps \cap (DOMAIN t \ {c})

Graph(t) == [c \in DOMAIN t |-> ResolvedDeps(t, c)]

\* visit, for nodes still to look at and the colours there are by now: <<colours, back edge
\* found>>.  A grey node is on the stack; the walk stops at the first back edge and leaves
\* the nodes on its stack grey.  A set is walked through in any order.
Walk(graph) ==
  LET Colours == [DOMAIN graph -> {"white", "grey", "black"}]
      walk[at \in Colours \X SUBSET DOMAIN graph] ==
        LET colour == at[1]
            nodes  == at[2]
            node   == CHOOSE n \in nodes : TRUE
            below  == walk[<<[colour EXCEPT ![node] = "grey"], graph[node]>>]
        IN IF nodes = {} THEN <<colour, FALSE>>
           ELSE CASE colour[node] = "grey"  -> <<colour, TRUE>>
                  [] colour[node] = "black" -> walk[<<colour, nodes \ {node}>>]
                  [] colour[node] = "white" ->
                       IF below[2] THEN below
                       ELSE walk[<<[below[1] EXCEPT ![node] = "black"], nodes \ {node}>>]
  IN walk

\* the outer loop visits every node that is still white
HasCycle(t) == Walk(Graph(t))[<<[c \in DOMAIN t |-> "white"], DOMAIN t>>][2]

\* validate_payload for a template, against the keys that exist
TemplateErrors(t, promptKeys, doctypeCodes) ==
  {e \in {"prompt", "include_if", "self", "unknown", "cycle"} :
     CASE e = "prompt"     -> ~(DOMAIN t \subseteq promptKeys)
       [] e = "include_if" -> \E c \in DOMAIN t : t[c].needs \notin doctypeCodes \cup {None}
       [] e = "self"       -> \E c \in DOMAIN t : c \in t[c].deps
       [] e = "unknown"    -> \E c \in DOMAIN t : ~(t[c].deps \subseteq DOMAIN t)
       [] e = "cycle"      -> HasCycle(t)}

-----------------------------------------------------------------------------
(* The run of a template on a case with some document types tagged *)

\* a conditional section without its document is skipped unless mandatory
Skipped(t, tags) == {c \in DOMAIN t : t[c].needs \notin tags \cup {None} /\ ~t[c].mandatory}

\* depends_on of the section's job: every other section, or the listed ones
JobDeps(t, c) == IF t[c].all THEN DOMAIN t \ {c} ELSE t[c].deps \cap (DOMAIN t \ {c})

ReadyToDraft_IgnoresSkipped(t, tags, done, c) ==
  c \notin done /\ c \notin Skipped(t, tags) /\ JobDeps(t, c) \subseteq done
\* _deps_satisfied: every dependency is terminal, and skipped is terminal
ReadyToDraft(t, tags, done, c) ==
  c \notin done /\ c \notin Skipped(t, tags)
    /\ JobDeps(t, c) \subseteq done \cup Skipped(t, tags)

ToDraft(t, tags, done) == DOMAIN t \ (done \cup Skipped(t, tags))

\* The reference: a graph is acyclic if its nodes can be ranked.
Acyclic(graph) ==
  \E rank \in [DOMAIN graph -> 1..Cardinality(DOMAIN graph)] :
     \A c \in DOMAIN graph : \A d \in graph[c] : rank[d] < rank[c]

-----------------------------------------------------------------------------
(* Import of a bundle: entries [mtype, key, refs], refs being the <<mtype, key>>  *)
(* pairs a payload names                                                          *)

ImportOrder_PromptsFirst == [prompt |-> 0, codelist |-> 1, doctype |-> 2, industry |-> 3,
                             kpi_set |-> 4, template |-> 5]
\* _IMPORT_ORDER
ImportOrder == [codelist |-> 0, doctype |-> 1, industry |-> 2, prompt |-> 3,
                kpi_set |-> 4, template |-> 5]

\* the types of what the payload of a type refers to
RefersTo == [codelist |-> {}, doctype |-> {}, industry |-> {}, prompt |-> {"doctype"},
             kpi_set |-> {"industry"}, template |-> {"prompt", "doctype"}]

\* sorted() by type; the sort is stable
Ordered(entries) ==
  Sorted(DOMAIN entries, [n \in DOMAIN entries |-> ImportOrder[entries[n].mtype]])

\* _import_entries: the catalogue grows with each entry that lands; an entry with
\* an unknown reference is reported and skipped
Landed(catalogue, entries) ==
  LET known[n \in 0..Len(entries)] ==
        IF n = 0 THEN catalogue
        ELSE LET e == entries[Ordered(entries)[n]] IN
             IF e.refs \subseteq known[n - 1] THEN known[n - 1] \cup {<<e.mtype, e.key>>}
             ELSE known[n - 1]
  IN known[Len(entries)]
=============================================================================
