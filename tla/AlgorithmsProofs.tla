------------------------- MODULE AlgorithmsProofs ---------------------------
(***************************************************************************)
(* Proofs about the pure algorithms, for inputs of any size.  Where they   *)
(* recurse, the induction is by least counterexample.                      *)
(***************************************************************************)
EXTENDS Algorithms, FiniteSetTheorems, WellFoundedInduction, TLAPS

(* Least numbers *)

LEMMA LeastNumber ==
  ASSUME NEW S \in SUBSET Nat, S # {}
  PROVE  \E n \in S : \A m \in S : n <= m
<1>1. PICK n \in S : \A m \in S : <<m, n>> \notin OpToRel(<, Nat)
  BY NatLessThanWellFounded, WFMin
<1>2. \A m \in S : ~(m < n)
  BY <1>1 DEF OpToRel
<1> QED
  BY <1>2

-----------------------------------------------------------------------------
(* Sorting *)

\* a strict total order of the set
Orders(before, S) ==
  /\ \A x, y \in S : x # y => <<x, y>> \in before \/ <<y, x>> \in before
  /\ \A x \in S : <<x, x>> \notin before
  /\ \A x, y, z \in S : <<x, y>> \in before /\ <<y, z>> \in before => <<x, z>> \in before

IsLast(m, T, before) == m \in T /\ \A x \in T \ {m} : <<x, m>> \in before

LEMMA LastExists ==
  ASSUME NEW S, IsFiniteSet(S), NEW before, Orders(before, S), NEW U \in SUBSET S, U # {}
  PROVE  \E m : IsLast(m, U, before)
<1> DEFINE Lastless(n) == \E T \in SUBSET S : /\ Cardinality(T) = n /\ T # {}
                                              /\ ~ \E m : IsLast(m, T, before)
           N == {n \in Nat : Lastless(n)}
<1> SUFFICES ASSUME ~ \E m : IsLast(m, U, before) PROVE FALSE
  OBVIOUS
<1>1. \A T \in SUBSET S : IsFiniteSet(T) /\ Cardinality(T) \in Nat
  BY FS_Subset, FS_CardinalityType
<1>2. Cardinality(U) \in N
  BY <1>1
<1>3. PICK n \in N : \A m \in N : n <= m
  <2>1. N \in SUBSET Nat /\ N # {}
    BY <1>2
  <2> HIDE DEF N
  <2> QED
    BY <2>1, LeastNumber
<1>4. PICK T \in SUBSET S : Cardinality(T) = n /\ T # {} /\ ~ \E m : IsLast(m, T, before)
  BY <1>3
<1>5. PICK x \in T : TRUE
  BY <1>4
<1>6. IsFiniteSet(T \ {x}) /\ Cardinality(T \ {x}) = n - 1 /\ n \in Nat /\ T \ {x} \in SUBSET S
  BY <1>1, <1>3, <1>4, <1>5, FS_RemoveElement
<1>7. CASE T \ {x} = {}
  <2>1. IsLast(x, T, before)
    BY <1>5, <1>7 DEF IsLast
  <2> QED
    BY <1>4, <2>1
<1>8. CASE T \ {x} # {}
  <2>1. Cardinality(T \ {x}) \in Nat
    BY <1>1, <1>6
  <2>2. Cardinality(T \ {x}) \notin N
    BY <1>3, <1>6, <2>1
  <2>3. PICK m : IsLast(m, T \ {x}, before)
    BY <1>6, <1>8, <2>1, <2>2
  <2>4. m \in S /\ x \in S /\ m # x /\ T \subseteq S
    BY <1>4, <1>5, <2>3 DEF IsLast
  <2>5. CASE <<x, m>> \in before
    <3>1. IsLast(m, T, before)
      BY <2>3, <2>4, <2>5 DEF IsLast
    <3> QED
      BY <1>4, <3>1
  <2>6. CASE <<m, x>> \in before
    <3>1. \A y \in T \ {x} : y # m => <<y, m>> \in before
      BY <2>3 DEF IsLast
    <3>2. \A y \in T \ {x} : <<y, x>> \in before
      BY <2>4, <2>6, <3>1 DEF Orders
    <3>3. IsLast(x, T, before)
      BY <1>5, <3>2 DEF IsLast
    <3> QED
      BY <1>4, <3>3
  <2> QED
    BY <2>4, <2>5, <2>6 DEF Orders
<1> QED
  BY <1>7, <1>8

IsInOrder(s, T, before) ==
  /\ s \in [1..Cardinality(T) -> T]
  /\ \A i, j \in 1..Cardinality(T) : i < j => <<s[i], s[j]>> \in before

LEMMA OrderExists ==
  ASSUME NEW S, IsFiniteSet(S), NEW before, Orders(before, S)
  PROVE  \E s : IsInOrder(s, S, before)
<1> DEFINE N == {n \in Nat : \E T \in SUBSET S : /\ Cardinality(T) = n
                                                 /\ ~ \E s : IsInOrder(s, T, before)}
<1> SUFFICES ASSUME ~ \E s : IsInOrder(s, S, before) PROVE FALSE
  OBVIOUS
<1>1. \A T \in SUBSET S : IsFiniteSet(T) /\ Cardinality(T) \in Nat
  BY FS_Subset, FS_CardinalityType
<1>2. Cardinality(S) \in N
  BY <1>1
<1>3. PICK n \in N : \A m \in N : n <= m
  <2>1. N \in SUBSET Nat /\ N # {}
    BY <1>2
  <2> HIDE DEF N
  <2> QED
    BY <2>1, LeastNumber
<1>4. PICK T \in SUBSET S : Cardinality(T) = n /\ ~ \E s : IsInOrder(s, T, before)
  BY <1>3
<1>5. n \in Nat
  BY <1>3
<1>6. CASE T = {}
  <2>1. n = 0
    BY <1>4, <1>6, FS_EmptySet
  <2>2. IsInOrder([i \in 1..0 |-> 0], T, before)
    BY <1>4, <2>1 DEF IsInOrder
  <2> QED
    BY <1>4, <2>2
<1>7. CASE T # {}
  <2>1. PICK m : IsLast(m, T, before)
    BY <1>7, LastExists
  <2>2. m \in T /\ T \ {m} \in SUBSET S /\ Cardinality(T \ {m}) = n - 1
    BY <1>1, <1>4, <2>1, FS_RemoveElement DEF IsLast
  <2>3. n - 1 \in Nat
    BY <1>1, <2>2
  <2>4. n - 1 \notin N
    BY <1>3, <1>5, <2>3
  <2>5. PICK s : IsInOrder(s, T \ {m}, before)
    BY <2>2, <2>3, <2>4
  <2> DEFINE t == [i \in 1..n |-> IF i = n THEN m ELSE s[i]]
  <2>6. s \in [1..(n - 1) -> T \ {m}]
        /\ \A i, j \in 1..(n - 1) : i < j => <<s[i], s[j]>> \in before
    BY <2>2, <2>5 DEF IsInOrder
  <2>7. t \in [1..n -> T]
    BY <1>5, <2>2, <2>6
  <2>8. ASSUME NEW i \in 1..n, NEW j \in 1..n, i < j PROVE <<t[i], t[j]>> \in before
    <3>1. i \in 1..(n - 1) /\ t[i] = s[i] /\ s[i] \in T \ {m}
      BY <1>5, <2>6, <2>8
    <3>2. CASE j = n
      BY <2>1, <3>1, <3>2 DEF IsLast
    <3>3. CASE j # n
      BY <1>5, <2>6, <2>8, <3>1, <3>3
    <3> QED
      BY <3>2, <3>3
  <2> HIDE DEF t
  <2>9. IsInOrder(t, T, before)
    BY <1>4, <2>7, <2>8 DEF IsInOrder
  <2> QED
    BY <1>4, <2>9
<1> QED
  BY <1>6, <1>7

\* Sorting a finite set lists each member once, in order.
LEMMA InOrderSorts ==
  ASSUME NEW S, IsFiniteSet(S), NEW before, Orders(before, S)
  PROVE  LET s == InOrder(S, before)
             n == Cardinality(S)
         IN /\ n \in Nat
            /\ s \in [1..n -> S]
            /\ \A i, j \in 1..n : i < j => <<s[i], s[j]>> \in before
            /\ \A i, j \in 1..n : s[i] = s[j] => i = j
            /\ \A x \in S : \E i \in 1..n : s[i] = x
<1> DEFINE n == Cardinality(S)
           s == InOrder(S, before)
<1>1. n \in Nat /\ IsFiniteSet(1..n) /\ Cardinality(1..n) = n
  BY FS_CardinalityType, FS_Interval
<1>2. s \in [1..n -> S] /\ \A i, j \in 1..n : i < j => <<s[i], s[j]>> \in before
  BY OrderExists DEF InOrder, IsInOrder
<1> HIDE DEF n, s
<1>3. ASSUME NEW i \in 1..n, NEW j \in 1..n, s[i] = s[j] PROVE i = j
  <2>1. s[i] \in S /\ <<s[i], s[i]>> \notin before
    BY <1>2 DEF Orders
  <2>2. ~(i < j) /\ ~(j < i)
    BY <1>2, <1>3, <2>1
  <2> QED
    BY <1>1, <2>2
<1>4. s \in Injection(1..n, S)
  BY <1>2, <1>3 DEF Injection, IsInjective
<1>5. s \in Surjection(1..n, S)
  BY <1>1, <1>4, FS_Injection DEF n
<1>6. \A x \in S : \E i \in 1..n : s[i] = x
  BY <1>5 DEF Surjection
<1> QED
  BY <1>1, <1>2, <1>3, <1>6 DEF n, s

\* Positions sorted by a key: ties stay in order.
LEMMA SortedSorts ==
  ASSUME NEW S \in SUBSET Int, IsFiniteSet(S), NEW key \in [S -> Int]
  PROVE  LET s == Sorted(S, key)
             n == Cardinality(S)
         IN /\ n \in Nat
            /\ s \in [1..n -> S]
            /\ \A i, j \in 1..n : i < j =>
                 \/ key[s[i]] < key[s[j]]
                 \/ key[s[i]] = key[s[j]] /\ s[i] < s[j]
            /\ \A i, j \in 1..n : s[i] = s[j] => i = j
            /\ \A x \in S : \E i \in 1..n : s[i] = x
<1> DEFINE R == {p \in S \X S : \/ key[p[1]] < key[p[2]]
                                \/ key[p[1]] = key[p[2]] /\ p[1] < p[2]}
<1>1. \A x, y \in S : <<x, y>> \in R <=> key[x] < key[y] \/ (key[x] = key[y] /\ x < y)
  OBVIOUS
<1>2. Sorted(S, key) = InOrder(S, R)
  BY DEF Sorted
<1>3. \A x \in S : x \in Int /\ key[x] \in Int
  OBVIOUS
<1> HIDE DEF R
<1>4. Orders(R, S)
  BY <1>1, <1>3 DEF Orders
<1>5. /\ Cardinality(S) \in Nat
      /\ InOrder(S, R) \in [1..Cardinality(S) -> S]
      /\ \A i, j \in 1..Cardinality(S) : i < j => <<InOrder(S, R)[i], InOrder(S, R)[j]>> \in R
      /\ \A i, j \in 1..Cardinality(S) : InOrder(S, R)[i] = InOrder(S, R)[j] => i = j
      /\ \A x \in S : \E i \in 1..Cardinality(S) : InOrder(S, R)[i] = x
  BY <1>4, InOrderSorts
<1> QED
  BY <1>1, <1>2, <1>5

-----------------------------------------------------------------------------
(* Sequences *)

LEMMA SeqElement ==
  ASSUME NEW T, NEW s \in Seq(T), NEW i \in DOMAIN s
  PROVE  s[i] \in T
OBVIOUS

LEMMA PositionsAreFinite ==
  ASSUME NEW T, NEW s \in Seq(T)
  PROVE  DOMAIN s = 1..Len(s) /\ Len(s) \in Nat /\ IsFiniteSet(DOMAIN s)
<1>1. DOMAIN s = 1..Len(s) /\ Len(s) \in Nat
  OBVIOUS
<1>2. IsFiniteSet(1..Len(s))
  BY <1>1, FS_Interval
<1> QED
  BY <1>1, <1>2

-----------------------------------------------------------------------------
(* Tagging *)

LEMMA OneToFiveIsFinite == IsFiniteSet(1..5)
<1>1. 1 \in Int /\ 5 \in Int
  OBVIOUS
<1> QED
  BY <1>1, FS_Interval, Zenon

LEMMA ScoreIsANumber ==
  ASSUME NEW d, d.names \in Nat, d.texts \in Seq(Nat)
  PROVE  Score(d) \in Nat
<1> DEFINE All == (DOMAIN d.texts) \X (1..5)
           H == {h \in All : h[2] <= d.texts[h[1]]}
<1>1. IsFiniteSet(DOMAIN d.texts) /\ IsFiniteSet(1..5)
  <2>1. IsFiniteSet(DOMAIN d.texts)
    BY PositionsAreFinite, Zenon
  <2>2. IsFiniteSet(1..5)
    BY OneToFiveIsFinite, Zenon
  <2> QED
    BY <2>1, <2>2
<1>2. IsFiniteSet(All)
  BY <1>1, FS_Product
<1>3. Cardinality(H) \in Nat
  BY <1>2, FS_Subset, FS_CardinalityType
<1>4. Score(d) = 3 * d.names + Cardinality(H)
  BY DEF Score
<1> HIDE DEF H
<1> QED
  BY <1>3, <1>4

\* What the keyword scorer finds is in the catalogue, and flagged if it is not confident.
LEMMA KeywordIsPublished ==
  ASSUME NEW c \in Cases, Keyword(c.catalogue, CodeOrder, c.threshold) # Nothing
  PROVE  LET keyword == Keyword(c.catalogue, CodeOrder, c.threshold)
         IN /\ keyword.code \in Codes(c.catalogue)
            /\ keyword.confidence \in Int
            /\ keyword.review = (keyword.confidence < c.threshold)
<1> DEFINE cat == c.catalogue
           hits == {i \in DOMAIN cat : Score(cat[i]) > 0}
           R == {p \in hits \X hits : Leads(cat[p[1]], cat[p[2]], CodeOrder)}
<1>1. /\ cat \in Seq([code : DOMAIN CodeOrder, names : Nat, texts : Seq(Nat)])
      /\ CodeOrder \in [DOMAIN CodeOrder -> Nat]
      /\ \A i, j \in DOMAIN cat : CodeOrder[cat[i].code] = CodeOrder[cat[j].code] => i = j
  BY InputsAssumption
<1>2. ASSUME NEW i \in DOMAIN cat
      PROVE  cat[i].names \in Nat /\ cat[i].texts \in Seq(Nat) /\ CodeOrder[cat[i].code] \in Nat
  <2>1. cat[i] \in [code : DOMAIN CodeOrder, names : Nat, texts : Seq(Nat)]
    BY <1>1, SeqElement
  <2> QED
    BY <1>1, <2>1
<1>3. \A i \in DOMAIN cat : Score(cat[i]) \in Nat
  BY <1>2, ScoreIsANumber
<1>4. IsFiniteSet(hits)
  <2>1. IsFiniteSet(DOMAIN cat) /\ hits \in SUBSET DOMAIN cat
    BY <1>1, PositionsAreFinite
  <2> QED
    BY <2>1, FS_Subset
<1>5. ASSUME NEW i \in hits, NEW j \in hits
      PROVE  <<i, j>> \in R <=>
                \/ Score(cat[j]) < Score(cat[i])
                \/ /\ Score(cat[i]) = Score(cat[j])
                   /\ CodeOrder[cat[i].code] < CodeOrder[cat[j].code]
  BY DEF Leads
<1>6. Ranked(cat, CodeOrder) = InOrder(hits, R)
  BY DEF Ranked
<1>7. hits # {}
  BY <1>3 DEF Keyword
<1>8. \A i \in hits : i \in DOMAIN cat
  OBVIOUS
<1> HIDE DEF hits, R
<1>9. Orders(R, hits)
  <2> DEFINE sc(i) == Score(cat[i])
             pl(i) == CodeOrder[cat[i].code]
  <2>1. \A i, j \in hits : <<i, j>> \in R <=> sc(j) < sc(i) \/ (sc(i) = sc(j) /\ pl(i) < pl(j))
    BY <1>5
  <2>2. \A i \in hits : sc(i) \in Nat /\ pl(i) \in Nat
    BY <1>2, <1>3, <1>8
  <2>3. \A i, j \in hits : pl(i) = pl(j) => i = j
    BY <1>1, <1>8
  <2> HIDE DEF sc, pl
  <2> QED
    BY <2>1, <2>2, <2>3 DEF Orders
<1>10. PICK i \in hits : Ranked(cat, CodeOrder)[1] = i
  <2>1. Cardinality(hits) # 0 /\ Cardinality(hits) \in Nat
    BY <1>4, <1>7, FS_EmptySet, FS_CardinalityType
  <2>2. InOrder(hits, R) \in [1..Cardinality(hits) -> hits]
    BY <1>4, <1>9, InOrderSorts
  <2> QED
    BY <1>6, <2>1, <2>2
<1>11. Score(cat[i]) \in Nat /\ i \in DOMAIN cat
  BY <1>3, <1>8, <1>10
<1>12. Confidence(cat[i]) \in Int
  BY <1>11 DEF Confidence
<1>13. Keyword(cat, CodeOrder, c.threshold)
         = [code |-> cat[i].code, confidence |-> Confidence(cat[i]), method |-> "keyword",
            review |-> Confidence(cat[i]) < c.threshold]
  BY <1>10 DEF Keyword
<1> QED
  BY <1>11, <1>12, <1>13 DEF Codes

LEMMA TagsAgree ==
  ASSUME NEW c \in Cases
  PROVE  TagAgrees(c, Tag(c.mode, c.catalogue, CodeOrder, c.reply, c.threshold),
                   Keyword(c.catalogue, CodeOrder, c.threshold))
<1> DEFINE keyword == Keyword(c.catalogue, CodeOrder, c.threshold)
           verdict == Verdict(c.reply, c.catalogue)
           tag == Tag(c.mode, c.catalogue, CodeOrder, c.reply, c.threshold)
<1>1. c.mode \in {"ai_first", "keyword_first", "keyword_only"} /\ c.threshold \in Nat
  BY InputsAssumption
<1>2. keyword # Nothing => /\ keyword.code \in Codes(c.catalogue)
                           /\ keyword.confidence \in Int
                           /\ keyword.review = (keyword.confidence < c.threshold)
  BY KeywordIsPublished
<1>3. Names(verdict) => /\ verdict.code \in Codes(c.catalogue)
                        /\ verdict.confidence \in Nat
                        /\ verdict.code # NoCode
  BY InputsAssumption DEF Verdict, Names, Nothing
<1>4. /\ c.mode = "ai_first" => tag = AiFirst(keyword, verdict, c.threshold)
      /\ c.mode = "keyword_first" => tag = KeywordFirst(keyword, verdict, c.threshold)
      /\ c.mode = "keyword_only" => tag = keyword
  BY <1>1 DEF Tag
<1>5. ASSUME NEW disputed \in BOOLEAN, Names(verdict)
      PROVE  LET a == Adopted(verdict, c.threshold, disputed)
             IN /\ a # Nothing /\ a.code = verdict.code /\ a.confidence = verdict.confidence
                /\ a.review <=> a.confidence < c.threshold \/ disputed
  BY <1>3, <1>5 DEF Adopted, Nothing
<1> HIDE DEF keyword, verdict, tag
<1> SUFFICES TagAgrees(c, tag, keyword)
  BY DEF keyword, tag
<1>v. verdict = Verdict(c.reply, c.catalogue)
  BY DEF verdict
<1>6. ASSUME tag = keyword, c.mode # "keyword_only" /\ keyword = Nothing => ~Names(verdict)
      PROVE  TagAgrees(c, tag, keyword)
  <2>1. keyword # Nothing /\ ~keyword.review => ~(keyword.confidence < c.threshold)
    BY <1>2, Zenon
  <2>2. keyword # Nothing /\ ~keyword.review => keyword.confidence >= c.threshold
    BY <1>1, <1>2, <2>1
  <2>3. keyword # Nothing => keyword.code \in Codes(c.catalogue)
    BY <1>2
  <2> QED
    BY <1>6, <1>v, <2>2, <2>3, Zenon DEF TagAgrees
<1>7. ASSUME NEW disputed \in BOOLEAN, Names(verdict),
             tag = Adopted(verdict, c.threshold, disputed),
             ~disputed => (c.mode = "ai_first" /\ keyword # Nothing => keyword.code = verdict.code)
      PROVE  TagAgrees(c, tag, keyword)
  <2>1. /\ tag # Nothing /\ tag.code = verdict.code /\ tag.confidence = verdict.confidence
        /\ tag.review <=> tag.confidence < c.threshold \/ disputed
    BY <1>5, <1>7
  <2> QED
    BY <1>1, <1>3, <1>7, <2>1 DEF TagAgrees
<1>8. CASE c.mode = "ai_first"
  <2> DEFINE disputed == keyword # Nothing /\ keyword.code # verdict.code
  <2>1. Names(verdict) => tag = Adopted(verdict, c.threshold, disputed)
    BY <1>4, <1>8 DEF AiFirst
  <2>2. ~Names(verdict) => tag = keyword
    BY <1>4, <1>8 DEF AiFirst
  <2>3. disputed \in BOOLEAN
    OBVIOUS
  <2>4. ~disputed => (c.mode = "ai_first" /\ keyword # Nothing => keyword.code = verdict.code)
    OBVIOUS
  <2> HIDE DEF disputed
  <2> QED
    BY <1>6, <1>7, <2>1, <2>2, <2>3, <2>4
<1>9. CASE c.mode = "keyword_first"
  <2>1. \/ tag = keyword /\ (keyword = Nothing => ~Names(verdict))
        \/ Names(verdict) /\ tag = Adopted(verdict, c.threshold, FALSE)
    BY <1>4, <1>9 DEF KeywordFirst
  <2> QED
    BY <1>6, <1>7, <1>9, <2>1
<1>10. CASE c.mode = "keyword_only"
  BY <1>4, <1>6, <1>10
<1> QED
  BY <1>1, <1>8, <1>9, <1>10

-----------------------------------------------------------------------------
(* Workbooks and CSV files *)

\* what a list of positions is to its entry: all of a set, each once
Lists(items, S) ==
  /\ ToSet(items) = S
  /\ \A j, k \in DOMAIN items : j < k => items[j] # items[k]

LEMMA ByRowLists ==
  ASSUME NEW S \in SUBSET Int, IsFiniteSet(S)
  PROVE  Lists(ByRow(S), S)
<1> DEFINE key == [n \in S |-> n]
           s == Sorted(S, key)
           n == Cardinality(S)
<1>1. key \in [S -> Int]
  OBVIOUS
<1> HIDE DEF key
<1>2. /\ n \in Nat
      /\ s \in [1..n -> S]
      /\ \A i, j \in 1..n : s[i] = s[j] => i = j
      /\ \A x \in S : \E i \in 1..n : s[i] = x
  BY <1>1, SortedSorts
<1>3. ByRow(S) = s
  BY DEF ByRow, Ascending, key
<1> HIDE DEF n, s
<1>4. Lists(s, S)
  <2>1. DOMAIN s = 1..n /\ \A i \in 1..n : i \in Int /\ s[i] \in S
    BY <1>2
  <2>2. \A j, k \in DOMAIN s : j < k => s[j] # s[k]
    BY <1>2, <2>1
  <2>3. \A x \in S : \E i \in DOMAIN s : s[i] = x
    BY <1>2, <2>1, Zenon
  <2>4. \A i \in DOMAIN s : s[i] \in S
    BY <2>1, Zenon
  <2>5. {s[i] : i \in DOMAIN s} = S
    BY <2>3, <2>4, Zenon
  <2> QED
    BY <2>2, <2>5 DEF Lists, ToSet
<1> QED
  BY <1>3, <1>4

\* the entries that rows of a key make up together
Grouped(rows, S, mtype) ==
  {[mtype |-> mtype, key |-> rows[n].key, row |-> 0,
    items |-> ByRow({k \in S : rows[k].key = rows[n].key})] : n \in S}

\* Rows that are grouped by their keys end in one entry each; there is one per key.
LEMMA GroupsLoseNoRow ==
  ASSUME NEW rows, NEW S \in SUBSET Int, IsFiniteSet(S), NEW mtype
  PROVE  /\ \A n : n \notin S => {e \in Grouped(rows, S, mtype) : n \in ToSet(e.items)} = {}
         /\ \A n \in S : \E e \in Grouped(rows, S, mtype) :
               /\ e.key = rows[n].key /\ n \in ToSet(e.items)
               /\ \A f \in Grouped(rows, S, mtype) : f.key = rows[n].key => f = e
         /\ \A e \in Grouped(rows, S, mtype) :
               /\ e.mtype = mtype
               /\ \A j, k \in DOMAIN e.items : j < k => e.items[j] # e.items[k]
         /\ \A e, f \in Grouped(rows, S, mtype) : e.key = f.key => e = f
<1> DEFINE Of(x) == {k \in S : rows[k].key = x}
           Group(x) == [mtype |-> mtype, key |-> x, row |-> 0, items |-> ByRow(Of(x))]
<1>1. ASSUME NEW x PROVE Lists(ByRow(Of(x)), Of(x))
  <2>1. Of(x) \in SUBSET Int /\ IsFiniteSet(Of(x))
    BY FS_Subset
  <2> QED
    BY <2>1, ByRowLists
<1>2. Grouped(rows, S, mtype) = {Group(rows[n].key) : n \in S}
  BY DEF Grouped
<1>3. ASSUME NEW x
      PROVE  /\ Group(x).key = x /\ Group(x).mtype = mtype
             /\ ToSet(Group(x).items) = Of(x)
             /\ \A j, k \in DOMAIN Group(x).items : j < k => Group(x).items[j] # Group(x).items[k]
  BY <1>1 DEF Lists
<1>4. \A n \in S : n \in Of(rows[n].key)
  OBVIOUS
<1>5. \A x, n : n \in Of(x) => n \in S
  OBVIOUS
<1> HIDE DEF Group, Of
<1> QED
  BY <1>2, <1>3, <1>4, <1>5

\* No complete row of a CSV file gets lost, and every other is reported.
LEMMA CsvLosesNoRow ==
  ASSUME NEW f \in CsvFiles, NEW n \in DOMAIN f.rows
  PROVE  LET entries == ParseCsv(f).entries
             errors  == ParseCsv(f).errors
         IN Cardinality({e \in entries : e.key = f.rows[n].key /\ n \in ToSet(e.items)})
              = IF <<"csv", 0>> \in errors \/ <<"csv", n + 1>> \in errors THEN 0 ELSE 1
<1> DEFINE S == {k \in DOMAIN f.rows : Complete(f.rows[k])}
           In == {e \in ParseCsv(f).entries : e.key = f.rows[n].key /\ n \in ToSet(e.items)}
<1>1. Len(f.rows) \in Nat /\ DOMAIN f.rows = 1..Len(f.rows)
  BY InputsAssumption DEF Listed
<1>2. IsFiniteSet(DOMAIN f.rows)
  <2>1. 1 \in Int /\ Len(f.rows) \in Int
    BY <1>1
  <2> QED
    BY <1>1, <2>1, FS_Interval, Zenon
<1>3. S \in SUBSET Int /\ IsFiniteSet(S) /\ DOMAIN f.rows \subseteq Nat \ {0}
  BY <1>1, <1>2, FS_Subset
<1>4. CASE ~f.header
  <2>1. ParseCsv(f) = [entries |-> {}, errors |-> {<<"csv", 0>>}]
    BY <1>4 DEF ParseCsv, Parsed
  <2>2. In = {} /\ <<"csv", 0>> \in ParseCsv(f).errors
    BY <2>1
  <2> QED
    BY <2>2, FS_EmptySet
<1>5. CASE f.header
  <2>1. ParseCsv(f) = [entries |-> Grouped(f.rows, S, "kpi_set"),
                       errors |-> {<<"csv", k + 1>> : k \in DOMAIN f.rows \ S}]
    BY <1>5 DEF ParseCsv, Parsed, Grouped
  <2>2. /\ ParseCsv(f).entries = Grouped(f.rows, S, "kpi_set")
        /\ ParseCsv(f).errors = {<<"csv", k + 1>> : k \in DOMAIN f.rows \ S}
    BY <2>1
  <2>3. <<"csv", 0>> \notin ParseCsv(f).errors
    BY <1>3, <2>2
  <2>4. <<"csv", n + 1>> \in ParseCsv(f).errors <=> n \notin S
    BY <1>3, <2>2
  <2> HIDE DEF S
  <2>5. CASE n \in S
    <3>1. PICK e \in Grouped(f.rows, S, "kpi_set") :
             /\ e.key = f.rows[n].key /\ n \in ToSet(e.items)
             /\ \A g \in Grouped(f.rows, S, "kpi_set") : g.key = f.rows[n].key => g = e
      BY <1>3, <2>5, GroupsLoseNoRow, Zenon
    <3>2. In = {e}
      BY <2>2, <3>1
    <3> HIDE DEF In
    <3>3. Cardinality(In) = 1
      BY <3>2, FS_Singleton
    <3> QED
      BY <2>3, <2>4, <2>5, <3>3 DEF In
  <2>6. CASE n \notin S
    <3>1. In = {}
      BY <1>3, <2>2, <2>6, GroupsLoseNoRow
    <3> QED
      BY <2>4, <2>6, <3>1, FS_EmptySet
  <2> QED
    BY <2>5, <2>6
<1> QED
  BY <1>4, <1>5

Types == {"codelist", "doctype", "industry", "prompt", "kpi_set", "template"}
Single == {"doctype", "industry", "prompt"}
Multiple == {"codelist", "kpi_set"}

LEMMA SheetsOfTypes ==
  /\ DOMAIN SheetOf = Types
  /\ SheetOf["codelist"] = "codelists" /\ SheetOf["doctype"] = "doctypes"
  /\ SheetOf["industry"] = "industries" /\ SheetOf["prompt"] = "prompts"
  /\ SheetOf["kpi_set"] = "kpi_sets" /\ SheetOf["template"] = "templates"
BY DEF SheetOf, Types

\* The rows that are read, and which of them are reported.
LEMMA RowsOfSheet ==
  ASSUME NEW b \in Books, NEW s
  PROVE  /\ Good(b, s) \subseteq Meant(b, s)
         /\ Meant(b, s) \subseteq DOMAIN Rows(b, s)
         /\ Meant(b, s) \in SUBSET Int /\ IsFiniteSet(Meant(b, s))
         /\ Meant(b, s) # {} => s \in DOMAIN b /\ Rows(b, s) = b[s].rows
<1>1. CASE s \notin DOMAIN b \/ ~b[s].keyed
  <2>1. Rows(b, s) = << >> /\ DOMAIN << >> = {}
    BY <1>1 DEF Rows
  <2>2. Meant(b, s) = {} /\ Good(b, s) = {}
    BY <2>1 DEF Meant, Good
  <2> QED
    BY <2>2, FS_EmptySet
<1>2. CASE s \in DOMAIN b /\ b[s].keyed
  <2>1. Rows(b, s) = b[s].rows
    BY <1>2 DEF Rows
  <2>2. Len(b[s].rows) \in Nat /\ DOMAIN b[s].rows = 1..Len(b[s].rows)
    BY <1>2, InputsAssumption DEF Listed
  <2>3. IsFiniteSet(DOMAIN b[s].rows)
    <3>1. 1 \in Int /\ Len(b[s].rows) \in Int
      BY <2>2
    <3> QED
      BY <2>2, <3>1, FS_Interval, Zenon
  <2>4. Meant(b, s) \subseteq DOMAIN Rows(b, s) /\ Good(b, s) \subseteq Meant(b, s)
    BY DEF Meant, Good
  <2>5. Meant(b, s) \in SUBSET Int
    BY <2>1, <2>2, <2>4
  <2>6. IsFiniteSet(Meant(b, s))
    BY <2>1, <2>3, <2>4, FS_Subset, Zenon
  <2> QED
    BY <1>2, <2>1, <2>4, <2>5, <2>6
<1> QED
  BY <1>1, <1>2

LEMMA RowsAreReported ==
  ASSUME NEW b \in Books, NEW s \in DOMAIN b, NEW n \in DOMAIN b[s].rows,
         b[s].rows[n].key # Skip
  PROVE  /\ Told(SheetErrors(b, s), s, n) <=> n \notin Good(b, s)
         /\ n \in Meant(b, s) <=> b[s].keyed
         /\ n \in Good(b, s) => Rows(b, s) = b[s].rows
<1>1. Len(b[s].rows) \in Nat /\ DOMAIN b[s].rows = 1..Len(b[s].rows)
  BY InputsAssumption DEF Listed
<1>2. n \in Nat \ {0} /\ b[s].rows # << >>
  BY <1>1
<1>3. CASE ~b[s].keyed
  <2>1. <<s, 1>> \in SheetErrors(b, s)
    BY <1>2, <1>3 DEF SheetErrors, HeaderErrors
  <2>2. n \notin Meant(b, s)
    BY <1>3 DEF Meant, Rows
  <2>3. n \notin Good(b, s)
    BY <2>2 DEF Good
  <2> QED
    BY <1>3, <2>1, <2>2, <2>3 DEF Told
<1>4. CASE b[s].keyed
  <2>1. Rows(b, s) = b[s].rows /\ HeaderErrors(b, s) = {}
    BY <1>4 DEF Rows, HeaderErrors
  <2>2. n \in Meant(b, s)
    BY <2>1 DEF Meant
  <2>3. Meant(b, s) \subseteq Nat \ {0}
    BY <1>1, <2>1 DEF Meant
  <2>4. SheetErrors(b, s) = {<<s, k + 1>> : k \in Meant(b, s) \ Good(b, s)}
    BY <2>1 DEF SheetErrors, RowErrors
  <2>5. <<s, 1>> \notin SheetErrors(b, s)
    BY <2>3, <2>4
  <2>6. <<s, n + 1>> \in SheetErrors(b, s) <=> n \notin Good(b, s)
    BY <1>2, <2>2, <2>3, <2>4
  <2> QED
    BY <1>4, <2>1, <2>2, <2>5, <2>6 DEF Told
<1> QED
  BY <1>3, <1>4

LEMMA ErrorsNameTheirSheet ==
  ASSUME NEW b, NEW s, NEW s2, NEW x, <<s, x>> \in SheetErrors(b, s2)
  PROVE  s = s2
BY DEF SheetErrors, HeaderErrors, RowErrors

\* The entries and the errors of each type of master.
LEMMA PartsOfWorkbook ==
  ASSUME NEW b
  PROVE  /\ \A m \in Single :
              /\ ParseType(b, m).errors = SheetErrors(b, SheetOf[m])
              /\ ParseType(b, m).entries =
                   {[mtype |-> m, key |-> Rows(b, SheetOf[m])[n].key, row |-> n,
                     items |-> <<n>>] : n \in Good(b, SheetOf[m])}
         /\ \A m \in Multiple :
              /\ ParseType(b, m).errors = SheetErrors(b, SheetOf[m])
              /\ ParseType(b, m).entries =
                   Grouped(Rows(b, SheetOf[m]), Good(b, SheetOf[m]), m)
         /\ ParseType(b, "template").errors =
              SheetErrors(b, "templates") \cup SheetErrors(b, "template_sections")
                \cup {<<"orphan", key>> : key \in Orphans(b)}
         /\ ParseType(b, "template").entries =
              {[mtype |-> "template", key |-> Rows(b, "templates")[n].key, row |-> n,
                items |-> SectionsOf(b, Rows(b, "templates")[n].key)] :
                 n \in Meant(b, "templates")}
<1>1. ASSUME NEW m \in Single
      PROVE  ParseType(b, m) = ParseRows(b, m)
  BY <1>1 DEF ParseType, Single
<1>2. ASSUME NEW m \in Multiple
      PROVE  ParseType(b, m) = ParseGroups(b, m)
  BY <1>2 DEF ParseType, Multiple
<1>3. ParseType(b, "template") = ParseTemplates(b)
  BY DEF ParseType
<1>4. ASSUME NEW x, NEW y PROVE Parsed(x, y).entries = x /\ Parsed(x, y).errors = y
  BY DEF Parsed
<1>5. ASSUME NEW m
      PROVE  /\ ParseRows(b, m).errors = SheetErrors(b, SheetOf[m])
             /\ ParseRows(b, m).entries =
                  {[mtype |-> m, key |-> Rows(b, SheetOf[m])[n].key, row |-> n,
                    items |-> <<n>>] : n \in Good(b, SheetOf[m])}
  BY <1>4, Zenon DEF ParseRows
<1>6. ASSUME NEW m
      PROVE  /\ ParseGroups(b, m).errors = SheetErrors(b, SheetOf[m])
             /\ ParseGroups(b, m).entries =
                  Grouped(Rows(b, SheetOf[m]), Good(b, SheetOf[m]), m)
  BY <1>4, Zenon DEF ParseGroups, Grouped
<1>7. /\ ParseTemplates(b).errors =
           SheetErrors(b, "templates") \cup SheetErrors(b, "template_sections")
             \cup {<<"orphan", key>> : key \in Orphans(b)}
      /\ ParseTemplates(b).entries =
           {[mtype |-> "template", key |-> Rows(b, "templates")[n].key, row |-> n,
             items |-> SectionsOf(b, Rows(b, "templates")[n].key)] :
              n \in Meant(b, "templates")}
  BY <1>4, Zenon DEF ParseTemplates
<1> QED
  BY <1>1, <1>2, <1>3, <1>5, <1>6, <1>7, Zenon

LEMMA GroupsHaveTheirType ==
  ASSUME NEW rows, NEW S, NEW mtype, NEW e \in Grouped(rows, S, mtype)
  PROVE  e.mtype = mtype
<1>1. PICK n \in S : e = [mtype |-> mtype, key |-> rows[n].key, row |-> 0,
                          items |-> ByRow({k \in S : rows[k].key = rows[n].key})]
  BY DEF Grouped
<1> DEFINE key == rows[n].key
           items == ByRow({k \in S : rows[k].key = rows[n].key})
<1> HIDE DEF key, items
<1>2. e = [mtype |-> mtype, key |-> key, row |-> 0, items |-> items]
  BY <1>1, Zenon DEF key, items
<1> QED
  BY <1>2

LEMMA EntriesOfType ==
  ASSUME NEW b, NEW m \in Types
  PROVE  \A e : e \in ParseWorkbook(b).entries /\ e.mtype = m <=> e \in ParseType(b, m).entries
<1> DEFINE parts == {ParseType(b, k) : k \in DOMAIN SheetOf}
<1>1. ParseWorkbook(b).entries = UNION {p.entries : p \in parts}
  BY DEF ParseWorkbook, Parsed
<1>2. \A e : e \in ParseWorkbook(b).entries <=> \E k \in Types : e \in ParseType(b, k).entries
  BY <1>1, SheetsOfTypes, Zenon
<1>3. Types = Single \cup Multiple \cup {"template"}
  BY DEF Types, Single, Multiple
<1>4. ASSUME NEW k \in Types, NEW e \in ParseType(b, k).entries PROVE e.mtype = k
  <2>1. CASE k \in Single
    BY <2>1, <1>4, PartsOfWorkbook
  <2>2. CASE k \in Multiple
    <3>1. e \in Grouped(Rows(b, SheetOf[k]), Good(b, SheetOf[k]), k)
      BY <1>4, <2>2, PartsOfWorkbook
    <3> QED
      BY <3>1, GroupsHaveTheirType
  <2>3. CASE k = "template"
    BY <2>3, <1>4, PartsOfWorkbook
  <2> QED
    BY <1>3, <2>1, <2>2, <2>3
<1> QED
  BY <1>2, <1>4, Zenon

LEMMA ErrorsOfSheet ==
  ASSUME NEW b, NEW s \in {SheetOf[m] : m \in Types} \cup {"template_sections"}, NEW n
  PROVE  Told(ParseWorkbook(b).errors, s, n) <=> Told(SheetErrors(b, s), s, n)
<1> DEFINE parts == {ParseType(b, k) : k \in DOMAIN SheetOf}
<1>1. ParseWorkbook(b).errors = UNION {p.errors : p \in parts}
  BY DEF ParseWorkbook, Parsed
<1>2. \A e : e \in ParseWorkbook(b).errors <=> \E k \in Types : e \in ParseType(b, k).errors
  BY <1>1, SheetsOfTypes, Zenon
<1>3. Types = Single \cup Multiple \cup {"template"}
  BY DEF Types, Single, Multiple
<1>4. s # "orphan"
  BY SheetsOfTypes DEF Types
<1>5. ASSUME NEW x, <<s, x>> \in ParseWorkbook(b).errors PROVE <<s, x>> \in SheetErrors(b, s)
  <2>1. PICK k \in Types : <<s, x>> \in ParseType(b, k).errors
    BY <1>2, <1>5
  <2>2. CASE k \in Single \cup Multiple
    BY <2>1, <2>2, PartsOfWorkbook, ErrorsNameTheirSheet
  <2>3. CASE k = "template"
    <3>1. <<s, x>> \notin {<<"orphan", key>> : key \in Orphans(b)}
      BY <1>4
    <3> QED
      BY <2>1, <2>3, <3>1, PartsOfWorkbook, ErrorsNameTheirSheet
  <2> QED
    BY <1>3, <2>2, <2>3
<1>6. ASSUME NEW x, <<s, x>> \in SheetErrors(b, s) PROVE <<s, x>> \in ParseWorkbook(b).errors
  <2>1. "template" \in Types /\ SheetOf["template"] = "templates"
    BY SheetsOfTypes DEF Types
  <2>2. CASE s \in {"templates", "template_sections"}
    <3>1. <<s, x>> \in ParseType(b, "template").errors
      BY <1>6, <2>2, PartsOfWorkbook
    <3> QED
      BY <1>2, <2>1, <3>1
  <2>3. CASE \E m \in Single \cup Multiple : s = SheetOf[m]
    <3>1. PICK m \in Single \cup Multiple : s = SheetOf[m]
      BY <2>3
    <3>2. <<s, x>> \in ParseType(b, m).errors /\ m \in Types
      BY <1>3, <1>6, <3>1, PartsOfWorkbook
    <3> QED
      BY <1>2, <3>2
  <2> QED
    BY <1>3, <2>1, <2>2, <2>3
<1> QED
  BY <1>5, <1>6 DEF Told

\* The sections of a template: every good row of its key once, in their order.
LEMMA SectionsAreListed ==
  ASSUME NEW b \in Books, NEW key
  PROVE  LET rows  == Rows(b, "template_sections")
             items == SectionsOf(b, key)
         IN /\ Lists(items, {n \in Good(b, "template_sections") : rows[n].key = key})
            /\ \A j, k \in DOMAIN items :
                 j < k => OrderOf(rows[items[j]]) <= OrderOf(rows[items[k]])
<1> DEFINE rows == Rows(b, "template_sections")
           S == {n \in Good(b, "template_sections") : rows[n].key = key}
           by == [n \in S |-> OrderOf(rows[n])]
           s == Sorted(S, by)
           m == Cardinality(S)
<1>1. S \in SUBSET Int /\ IsFiniteSet(S)
  BY RowsOfSheet, FS_Subset
<1>2. SectionsOf(b, key) = s
  BY DEF SectionsOf
<1>3. ASSUME NEW n \in S PROVE OrderOf(rows[n]) \in Int
  <2>1. n \in Meant(b, "template_sections") /\ n \in DOMAIN rows
    BY RowsOfSheet
  <2>2. "template_sections" \in DOMAIN b /\ rows = b["template_sections"].rows
    BY <2>1, RowsOfSheet
  <2>3. rows[n].order \in Int
    BY <2>1, <2>2, InputsAssumption
  <2> QED
    BY <2>3 DEF OrderOf
<1>4. by \in [S -> Int] /\ \A n \in S : by[n] = OrderOf(rows[n])
  BY <1>3
<1> HIDE DEF S, by
<1>5. /\ m \in Nat
      /\ s \in [1..m -> S]
      /\ \A i, j \in 1..m : i < j => \/ by[s[i]] < by[s[j]]
                                     \/ by[s[i]] = by[s[j]] /\ s[i] < s[j]
      /\ \A i, j \in 1..m : s[i] = s[j] => i = j
      /\ \A x \in S : \E i \in 1..m : s[i] = x
  BY <1>1, <1>4, SortedSorts
<1> HIDE DEF s, m
<1>6. DOMAIN s = 1..m /\ \A i \in 1..m : i \in Int /\ s[i] \in S /\ by[s[i]] \in Int
  BY <1>4, <1>5
<1>7. Lists(s, S)
  <2>1. \A j, k \in DOMAIN s : j < k => s[j] # s[k]
    BY <1>5, <1>6
  <2>2. \A x \in S : \E i \in DOMAIN s : s[i] = x
    BY <1>5, <1>6, Zenon
  <2>3. \A i \in DOMAIN s : s[i] \in S
    BY <1>6, Zenon
  <2>4. {s[i] : i \in DOMAIN s} = S
    BY <2>2, <2>3, Zenon
  <2> QED
    BY <2>1, <2>4 DEF Lists, ToSet
<1>8. ASSUME NEW j \in DOMAIN s, NEW k \in DOMAIN s, j < k
      PROVE  OrderOf(rows[s[j]]) <= OrderOf(rows[s[k]])
  <2>1. by[s[j]] <= by[s[k]]
    BY <1>5, <1>6, <1>8
  <2>2. by[s[j]] = OrderOf(rows[s[j]]) /\ by[s[k]] = OrderOf(rows[s[k]])
    BY <1>4, <1>6
  <2> QED
    BY <2>1, <2>2
<1> QED
  BY <1>2, <1>7, <1>8 DEF S

\* A row with a key makes an entry under its key or is reported.
LEMMA RowsEndInEntries ==
  ASSUME NEW b \in Books
  PROVE  RowsAreKept(b, ParseWorkbook(b).entries, ParseWorkbook(b).errors)
<1> DEFINE E == ParseWorkbook(b).entries
           R == ParseWorkbook(b).errors
<1> SUFFICES ASSUME NEW m \in Types, SheetOf[m] \in DOMAIN b,
                    NEW n \in DOMAIN b[SheetOf[m]].rows, b[SheetOf[m]].rows[n].key # Skip
             PROVE  LET s  == SheetOf[m]
                        es == At(E, m, b[s].rows[n].key)
                    IN IF m = "template" THEN Told(R, s, n) <=> ~ \E e \in es : e.row = n
                       ELSE Cardinality(MadeOf(es, n)) = IF Told(R, s, n) THEN 0 ELSE 1
  BY SheetsOfTypes, Zenon DEF RowsAreKept
<1> DEFINE s == SheetOf[m]
           key == b[s].rows[n].key
           es == At(E, m, key)
           good == Good(b, s)
           rows == Rows(b, s)
<1>1. Told(R, s, n) <=> n \notin good
  <2>1. Told(R, s, n) <=> Told(SheetErrors(b, s), s, n)
    BY ErrorsOfSheet
  <2> QED
    BY <2>1, RowsAreReported
<1>2. n \in good => rows[n].key = key
  BY RowsAreReported
<1>3. \A e : e \in es <=> e \in ParseType(b, m).entries /\ e.key = key
  BY EntriesOfType DEF At
<1>4. good \in SUBSET Int /\ IsFiniteSet(good)
  BY RowsOfSheet, FS_Subset
<1> HIDE DEF E, R
<1>5. CASE m \in Single
  <2> DEFINE Entry(k) == [mtype |-> m, key |-> rows[k].key, row |-> k, items |-> <<k>>]
  <2>1. ParseType(b, m).entries = {Entry(k) : k \in good}
    BY <1>5, PartsOfWorkbook
  <2>2. \A k : Entry(k).key = rows[k].key /\ ToSet(Entry(k).items) = {k}
    BY DEF ToSet
  <2> HIDE DEF Entry, es, good, rows, key
  <2>3. MadeOf(es, n) = IF n \in good THEN {Entry(n)} ELSE {}
    <3>1. ASSUME NEW e \in MadeOf(es, n) PROVE n \in good /\ e = Entry(n)
      <4>1. e \in es /\ n \in ToSet(e.items)
        BY <3>1 DEF MadeOf
      <4>2. PICK k \in good : e = Entry(k)
        BY <1>3, <2>1, <4>1
      <4>3. n = k
        BY <2>2, <4>1, <4>2
      <4> QED
        BY <4>2, <4>3
    <3>2. ASSUME n \in good PROVE Entry(n) \in MadeOf(es, n)
      <4>1. Entry(n) \in es
        BY <1>2, <1>3, <2>1, <2>2, <3>2
      <4>2. n \in ToSet(Entry(n).items)
        BY <2>2
      <4> QED
        BY <4>1, <4>2 DEF MadeOf
    <3> QED
      BY <3>1, <3>2
  <2>4. Cardinality(MadeOf(es, n)) = IF n \in good THEN 1 ELSE 0
    BY <2>3, FS_Singleton, FS_EmptySet
  <2>5. m # "template"
    BY <1>5 DEF Single
  <2> QED
    BY <1>1, <2>4, <2>5 DEF es, key
<1>6. CASE m \in Multiple
  <2>1. ParseType(b, m).entries = Grouped(rows, good, m)
    BY <1>6, PartsOfWorkbook
  <2> HIDE DEF es, good, rows, key
  <2>2. ASSUME n \in good PROVE Cardinality(MadeOf(es, n)) = 1
    <3>1. PICK e \in Grouped(rows, good, m) :
             /\ e.key = rows[n].key /\ n \in ToSet(e.items)
             /\ \A f \in Grouped(rows, good, m) : f.key = rows[n].key => f = e
      BY <1>4, <2>2, GroupsLoseNoRow, Zenon
    <3>2. MadeOf(es, n) = {e}
      <4>1. ASSUME NEW f \in MadeOf(es, n) PROVE f = e
        <5>1. f \in es
          BY <4>1 DEF MadeOf
        <5> QED
          BY <1>2, <1>3, <2>1, <2>2, <3>1, <5>1
      <4>2. e \in es
        BY <1>2, <1>3, <2>1, <2>2, <3>1
      <4>3. e \in MadeOf(es, n)
        BY <3>1, <4>2 DEF MadeOf
      <4> QED
        BY <4>1, <4>3
    <3> QED
      BY <3>2, FS_Singleton
  <2>3. ASSUME n \notin good PROVE Cardinality(MadeOf(es, n)) = 0
    <3>1. {e \in Grouped(rows, good, m) : n \in ToSet(e.items)} = {}
      BY <1>4, <2>3, GroupsLoseNoRow, Zenon
    <3>2. MadeOf(es, n) = {}
      <4>1. \A e \in es : e \in Grouped(rows, good, m)
        BY <1>3, <2>1
      <4>2. \A e \in Grouped(rows, good, m) : n \notin ToSet(e.items)
        BY <3>1
      <4> QED
        BY <4>1, <4>2 DEF MadeOf
    <3> QED
      BY <3>2, FS_EmptySet
  <2>4. Cardinality(MadeOf(es, n)) = IF n \in good THEN 1 ELSE 0
    BY <2>2, <2>3
  <2>5. m # "template"
    BY <1>6 DEF Multiple
  <2> QED
    BY <1>1, <2>4, <2>5 DEF es, key
<1>7. CASE m = "template"
  <2> DEFINE Entry(k) == [mtype |-> "template", key |-> rows[k].key, row |-> k,
                          items |-> SectionsOf(b, rows[k].key)]
  <2>1. s = "templates"
    BY <1>7, SheetsOfTypes
  <2>2. Good(b, "templates") = Meant(b, "templates")
    BY DEF Good, Faulty
  <2>3. ParseType(b, m).entries = {Entry(k) : k \in good}
    BY <1>7, <2>1, <2>2, PartsOfWorkbook
  <2>4. \A k : Entry(k).key = rows[k].key /\ Entry(k).row = k
    OBVIOUS
  <2> HIDE DEF Entry, es, good, rows, key
  <2>5. (\E e \in es : e.row = n) <=> n \in good
    BY <1>2, <1>3, <2>3, <2>4
  <2> QED
    BY <1>1, <1>7, <2>5 DEF es, key
<1>8. Types = Single \cup Multiple \cup {"template"}
  BY DEF Types, Single, Multiple
<1> QED
  BY <1>5, <1>6, <1>7, <1>8

\* A section is in every template of its key, or reported.
LEMMA SectionsEndInTemplates ==
  ASSUME NEW b \in Books
  PROVE  SectionsAreKept(b, ParseWorkbook(b).entries, ParseWorkbook(b).errors)
<1> DEFINE E == ParseWorkbook(b).entries
           R == ParseWorkbook(b).errors
           s == "template_sections"
<1> SUFFICES ASSUME s \in DOMAIN b, NEW n \in DOMAIN b[s].rows, b[s].rows[n].key # Skip
             PROVE  LET key == b[s].rows[n].key
                        es  == At(E, "template", key)
                    IN /\ MadeOf(es, n) = IF Told(R, s, n) THEN {} ELSE es
                       /\ ~Told(R, s, n) => (es = {} <=> <<"orphan", key>> \in R)
  BY Zenon DEF SectionsAreKept
<1> DEFINE key == b[s].rows[n].key
           es == At(E, "template", key)
           good == Good(b, s)
           rows == Rows(b, s)
           trows == Rows(b, "templates")
           tmeant == Meant(b, "templates")
           Entry(k) == [mtype |-> "template", key |-> trows[k].key, row |-> k,
                        items |-> SectionsOf(b, trows[k].key)]
<1>1. Told(R, s, n) <=> n \notin good
  <2>1. Told(R, s, n) <=> Told(SheetErrors(b, s), s, n)
    BY ErrorsOfSheet
  <2> QED
    BY <2>1, RowsAreReported
<1>2. n \in good => rows[n].key = key
  BY RowsAreReported
<1>3. "template" \in Types
  BY DEF Types
<1>4. \A e : e \in es <=> e \in ParseType(b, "template").entries /\ e.key = key
  BY <1>3, EntriesOfType DEF At
<1>5. ParseType(b, "template").entries = {Entry(k) : k \in tmeant}
  BY PartsOfWorkbook
<1>6. ASSUME NEW k
      PROVE  /\ Entry(k).key = trows[k].key
             /\ ToSet(Entry(k).items) = {i \in good : rows[i].key = trows[k].key}
  <2>1. ToSet(SectionsOf(b, trows[k].key)) = {i \in good : rows[i].key = trows[k].key}
    BY SectionsAreListed DEF Lists
  <2> QED
    BY <2>1
<1>7. Orphans(b) = {rows[i].key : i \in good} \ {trows[k].key : k \in tmeant}
  BY DEF Orphans
<1>8. <<"orphan", key>> \in R <=> key \in Orphans(b)
  <2> DEFINE parts == {ParseType(b, k) : k \in DOMAIN SheetOf}
             orphans == {<<"orphan", x>> : x \in Orphans(b)}
  <2>1. R = UNION {p.errors : p \in parts}
    BY DEF ParseWorkbook, Parsed
  <2>2. \A e : e \in R <=> \E k \in Types : e \in ParseType(b, k).errors
    BY <2>1, SheetsOfTypes, Zenon
  <2>3. \A sheet : <<"orphan", key>> \in SheetErrors(b, sheet) => sheet = "orphan"
    BY ErrorsNameTheirSheet
  <2>4. \A m \in Types : SheetOf[m] # "orphan"
    BY SheetsOfTypes DEF Types
  <2>5. Types = Single \cup Multiple \cup {"template"}
    BY DEF Types, Single, Multiple
  <2>6. <<"orphan", key>> \in orphans <=> key \in Orphans(b)
    OBVIOUS
  <2>7. ParseType(b, "template").errors =
          SheetErrors(b, "templates") \cup SheetErrors(b, "template_sections") \cup orphans
    BY PartsOfWorkbook
  <2>8. \A m \in Single \cup Multiple : ParseType(b, m).errors = SheetErrors(b, SheetOf[m])
    BY PartsOfWorkbook
  <2> HIDE DEF orphans, R, key
  <2>9. <<"orphan", key>> \in R => key \in Orphans(b)
    BY <2>2, <2>3, <2>4, <2>5, <2>6, <2>7, <2>8
  <2> QED
    BY <1>3, <2>2, <2>6, <2>7, <2>9
<1> HIDE DEF E, R, Entry, es, good, rows, trows, tmeant, key
<1>9. ASSUME NEW e \in es PROVE n \in ToSet(e.items) <=> n \in good
  <2>1. PICK k \in tmeant : e = Entry(k)
    BY <1>4, <1>5, <1>9
  <2>2. trows[k].key = key
    BY <1>4, <1>6, <1>9, <2>1
  <2> QED
    BY <1>2, <1>6, <2>1, <2>2
<1>10. MadeOf(es, n) = IF n \in good THEN es ELSE {}
  BY <1>9 DEF MadeOf
<1>11. es = {} <=> \A k \in tmeant : trows[k].key # key
  BY <1>4, <1>5, <1>6
<1>12. n \in good => (es = {} <=> key \in Orphans(b))
  BY <1>2, <1>7, <1>11
<1> QED
  BY <1>1, <1>8, <1>10, <1>12 DEF es, key

\* No entry has a row twice, and a template has its sections in their order.
LEMMA ItemsOfEntries ==
  ASSUME NEW b \in Books
  PROVE  ItemsAreOrdered(b, ParseWorkbook(b).entries)
<1> SUFFICES ASSUME NEW e \in ParseWorkbook(b).entries
             PROVE  \A j, k \in DOMAIN e.items : j < k =>
                      /\ e.items[j] # e.items[k]
                      /\ e.mtype = "template" =>
                           LET rows == b["template_sections"].rows IN
                           OrderOf(rows[e.items[j]]) <= OrderOf(rows[e.items[k]])
  BY Zenon DEF ItemsAreOrdered
<1> DEFINE parts == {ParseType(b, k) : k \in DOMAIN SheetOf}
<1>1. ParseWorkbook(b).entries = UNION {p.entries : p \in parts}
  BY DEF ParseWorkbook, Parsed
<1>2. PICK m \in Types : e \in ParseType(b, m).entries
  BY <1>1, SheetsOfTypes, Zenon
<1>3. e.mtype = m
  BY <1>2, EntriesOfType
<1>4. CASE m \in Single
  <2>1. PICK n : e.items = <<n>>
    BY <1>2, <1>4, PartsOfWorkbook
  <2>2. \A j, k \in DOMAIN e.items : ~(j < k)
    BY <2>1
  <2> QED
    BY <2>2
<1>5. CASE m \in Multiple
  <2> DEFINE rows == Rows(b, SheetOf[m])
             good == Good(b, SheetOf[m])
  <2>1. good \in SUBSET Int /\ IsFiniteSet(good)
    BY RowsOfSheet, FS_Subset
  <2>2. e \in Grouped(rows, good, m)
    BY <1>2, <1>5, PartsOfWorkbook
  <2>3. m # "template"
    BY <1>5 DEF Multiple
  <2> HIDE DEF rows, good
  <2>4. \A f \in Grouped(rows, good, m) :
          \A j, k \in DOMAIN f.items : j < k => f.items[j] # f.items[k]
    BY <2>1, GroupsLoseNoRow, Zenon
  <2>5. \A j, k \in DOMAIN e.items : j < k => e.items[j] # e.items[k]
    BY <2>2, <2>4, Zenon
  <2> QED
    BY <1>3, <2>3, <2>5, Zenon
<1>6. CASE m = "template"
  <2>1. PICK x : e.items = SectionsOf(b, x)
    BY <1>2, <1>6, PartsOfWorkbook
  <2> DEFINE rows == Rows(b, "template_sections")
             S == {n \in Good(b, "template_sections") : rows[n].key = x}
  <2>2. /\ Lists(e.items, S)
        /\ \A j, k \in DOMAIN e.items :
             j < k => OrderOf(rows[e.items[j]]) <= OrderOf(rows[e.items[k]])
    BY <2>1, SectionsAreListed
  <2>3. \A j \in DOMAIN e.items : e.items[j] \in S
    BY <2>2 DEF Lists, ToSet
  <2>4. S # {} => rows = b["template_sections"].rows
    <3>1. S \subseteq Meant(b, "template_sections")
      BY RowsOfSheet
    <3> QED
      BY <3>1, RowsOfSheet
  <2> HIDE DEF rows, S
  <2>5. \A j, k \in DOMAIN e.items : j < k => e.items[j] # e.items[k]
    BY <2>2 DEF Lists
  <2>6. DOMAIN e.items # {} => rows = b["template_sections"].rows
    BY <2>3, <2>4
  <2> QED
    BY <2>2, <2>5, <2>6
<1>7. Types = Single \cup Multiple \cup {"template"}
  BY DEF Types, Single, Multiple
<1> QED
  BY <1>4, <1>5, <1>6, <1>7

\* Grouped rows make one entry for each key.
LEMMA OneEntryPerGroup ==
  ASSUME NEW b \in Books
  PROVE  GroupsAreWhole(ParseWorkbook(b).entries)
<1> SUFFICES ASSUME NEW m \in Multiple,
                    NEW e \in ParseWorkbook(b).entries, NEW f \in ParseWorkbook(b).entries,
                    e.mtype = m, f.mtype = m, e.key = f.key
             PROVE  e = f
  BY Zenon DEF GroupsAreWhole, Multiple
<1> DEFINE rows == Rows(b, SheetOf[m])
           good == Good(b, SheetOf[m])
<1>1. good \in SUBSET Int /\ IsFiniteSet(good)
  BY RowsOfSheet, FS_Subset
<1>2. m \in Types
  BY DEF Types, Multiple
<1>3. e \in Grouped(rows, good, m) /\ f \in Grouped(rows, good, m)
  <2>1. e \in ParseType(b, m).entries /\ f \in ParseType(b, m).entries
    BY <1>2, EntriesOfType
  <2> QED
    BY <2>1, PartsOfWorkbook, Zenon
<1> HIDE DEF rows, good
<1> QED
  BY <1>1, <1>3, GroupsLoseNoRow, Zenon

-----------------------------------------------------------------------------
(* Import of a bundle *)

LEMMA ReferencesComeFirst ==
  \A m \in DOMAIN RefersTo : /\ ImportOrder[m] \in Int
                             /\ \A r \in RefersTo[m] : r \in DOMAIN RefersTo
                             /\ \A r \in RefersTo[m] : ImportOrder[r] < ImportOrder[m]
BY DEF RefersTo, ImportOrder

\* The entries in the order of the import: all of them, what is referred to first.
LEMMA BundleIsOrdered ==
  ASSUME NEW u \in Uploads
  PROVE  LET n == Len(u.entries)
             o == Ordered(u.entries)
         IN /\ n \in Nat /\ DOMAIN u.entries = 1..n
            /\ o \in [1..n -> 1..n]
            /\ \A p \in 1..n : \E i \in 1..n : o[i] = p
            /\ \A i, j \in 1..n :
                 u.entries[o[i]].mtype \in RefersTo[u.entries[o[j]].mtype] => i < j
<1> DEFINE n == Len(u.entries)
           E == u.entries
           o == Ordered(E)
           by == [p \in DOMAIN E |-> ImportOrder[E[p].mtype]]
<1>1. n \in Nat /\ DOMAIN E = 1..n
  BY InputsAssumption DEF Listed
<1>2. \A p \in 1..n : E[p].mtype \in DOMAIN RefersTo
  BY <1>1, InputsAssumption
<1>3. IsFiniteSet(1..n) /\ Cardinality(1..n) = n
  <2>1. 1 \in Int /\ n \in Int
    BY <1>1
  <2>2. IsFiniteSet(1..n) /\ Cardinality(1..n) = IF 1 > n THEN 0 ELSE n - 1 + 1
    BY <2>1, FS_Interval, Zenon
  <2> HIDE DEF n
  <2> QED
    BY <1>1, <2>2
<1>4. o = Sorted(1..n, by)
  BY <1>1 DEF Ordered
<1>5. by \in [1..n -> Int] /\ \A p \in 1..n : by[p] = ImportOrder[E[p].mtype]
  BY <1>1, <1>2, ReferencesComeFirst
<1> HIDE DEF by, n, E
<1>6. 1..n \in SUBSET Int
  BY <1>1
<1>7. /\ o \in [1..n -> 1..n]
      /\ \A i, j \in 1..n : i < j => \/ by[o[i]] < by[o[j]]
                                     \/ by[o[i]] = by[o[j]] /\ o[i] < o[j]
      /\ \A p \in 1..n : \E i \in 1..n : o[i] = p
  <2> DEFINE T == 1..n
  <2>1. T \in SUBSET Int /\ IsFiniteSet(T) /\ by \in [T -> Int] /\ Cardinality(T) = n
    BY <1>3, <1>5, <1>6
  <2>2. o = Sorted(T, by)
    BY <1>4
  <2> HIDE DEF T, o
  <2>3. /\ o \in [1..Cardinality(T) -> T]
        /\ \A i, j \in 1..Cardinality(T) :
             i < j => \/ by[o[i]] < by[o[j]]
                      \/ by[o[i]] = by[o[j]] /\ o[i] < o[j]
        /\ \A p \in T : \E i \in 1..Cardinality(T) : o[i] = p
    BY <2>1, <2>2, SortedSorts
  <2> QED
    BY <2>1, <2>3 DEF T
<1> HIDE DEF o
<1>8. ASSUME NEW i \in 1..n, NEW j \in 1..n, E[o[i]].mtype \in RefersTo[E[o[j]].mtype]
      PROVE  i < j
  <2>1. o[i] \in 1..n /\ o[j] \in 1..n
    BY <1>7
  <2>2. by[o[i]] \in Int /\ by[o[j]] \in Int
    BY <1>5, <2>1
  <2>3. by[o[i]] < by[o[j]]
    BY <1>2, <1>5, <1>8, <2>1, ReferencesComeFirst
  <2>4. i # j
    BY <2>2, <2>3
  <2>5. j < i => by[o[j]] < by[o[i]] \/ by[o[j]] = by[o[i]]
    BY <1>7
  <2>6. ~(j < i)
    BY <2>2, <2>3, <2>5
  <2> QED
    BY <1>1, <2>4, <2>6
<1> QED
  BY <1>1, <1>7, <1>8 DEF o, n, E

\* what is known after n entries, from what is known before
Learns(u, n, known) ==
  LET e == u.entries[Ordered(u.entries)[n]] IN
  IF e.refs \subseteq known THEN known \cup {<<e.mtype, e.key>>} ELSE known

IsLearnt(u, N, k) ==
  k = [n \in 0..N |-> IF n = 0 THEN u.known ELSE Learns(u, n, k[n - 1])]

LEMMA LearntStepwise ==
  ASSUME NEW u, NEW N \in Nat, NEW k, IsLearnt(u, N, k)
  PROVE  k[0] = u.known /\ \A n \in 1..N : k[n] = Learns(u, n, k[n - 1])
<1>1. \A n \in 0..N : k[n] = IF n = 0 THEN u.known ELSE Learns(u, n, k[n - 1])
  BY DEF IsLearnt
<1>2. 0 \in 0..N /\ \A n \in 1..N : n \in 0..N /\ n # 0
  OBVIOUS
<1> QED
  BY <1>1, <1>2

LEMMA ImportIsDefined ==
  ASSUME NEW u, NEW N \in Nat
  PROVE  \E k : IsLearnt(u, N, k)
<1> DEFINE S == {n \in Nat : ~ \E k : IsLearnt(u, n, k)}
<1> SUFFICES ASSUME S # {} PROVE FALSE
  OBVIOUS
<1>1. PICK n \in S : \A m \in S : n <= m
  <2>1. S \in SUBSET Nat
    OBVIOUS
  <2> HIDE DEF S
  <2> QED
    BY <2>1, LeastNumber
<1>2. n \in Nat
  BY <1>1
<1>3. CASE n = 0
  <2>1. IsLearnt(u, 0, [i \in 0..0 |-> u.known])
    BY DEF IsLearnt
  <2> QED
    BY <1>1, <1>3, <2>1
<1>4. CASE n # 0
  <2>1. n - 1 \in Nat /\ n - 1 \notin S
    BY <1>1, <1>2, <1>4
  <2>2. PICK k : IsLearnt(u, n - 1, k)
    BY <2>1
  <2> DEFINE l == [i \in 0..n |-> IF i = n THEN Learns(u, n, k[n - 1]) ELSE k[i]]
  <2>3. \A i \in 0..(n - 1) : k[i] = IF i = 0 THEN u.known ELSE Learns(u, i, k[i - 1])
    BY <2>2 DEF IsLearnt
  <2>4. ASSUME NEW i \in 0..n
        PROVE  l[i] = IF i = 0 THEN u.known ELSE Learns(u, i, l[i - 1])
    <3>1. CASE i = n
      <4>1. l[i] = Learns(u, n, k[n - 1]) /\ l[n - 1] = k[n - 1]
        BY <1>2, <1>4, <3>1
      <4> HIDE DEF l
      <4> QED
        BY <1>4, <3>1, <4>1
    <3>2. CASE i # n
      <4>1. l[i] = k[i] /\ i \in 0..(n - 1) /\ (i # 0 => l[i - 1] = k[i - 1])
        BY <1>2, <3>2
      <4> HIDE DEF l
      <4> QED
        BY <2>3, <4>1
    <3> QED
      BY <3>1, <3>2
  <2>5. l = [i \in 0..n |-> l[i]]
    OBVIOUS
  <2>6. l = [i \in 0..n |-> IF i = 0 THEN u.known ELSE Learns(u, i, l[i - 1])]
    <3> HIDE DEF l
    <3> QED
      BY <2>4, <2>5
  <2>7. IsLearnt(u, n, l)
    BY <2>6, Zenon DEF IsLearnt
  <2> QED
    BY <1>1, <2>7
<1> QED
  BY <1>3, <1>4

\* Everything lands whose references exist, or are in the bundle and land themselves.
LEMMA ImportableLands ==
  ASSUME NEW u \in Uploads
  PROVE  Landed(u.known, u.entries) = Importable(u.known, u.entries)
<1> DEFINE N == Len(u.entries)
           E == u.entries
           o == Ordered(E)
           at(i) == E[o[i]]
           pair(e) == <<e.mtype, e.key>>
<1>1. /\ N \in Nat /\ DOMAIN E = 1..N
      /\ o \in [1..N -> 1..N]
      /\ \A p \in 1..N : \E i \in 1..N : o[i] = p
      /\ \A i, j \in 1..N : at(i).mtype \in RefersTo[at(j).mtype] => i < j
  BY BundleIsOrdered
<1>2. PICK k : IsLearnt(u, N, k) /\ Landed(u.known, E) = k[N]
  <2> DEFINE f == CHOOSE f : IsLearnt(u, N, f)
  <2>1. Landed(u.known, E) = f[N]
    BY Zenon DEF Landed, IsLearnt, Learns
  <2>2. IsLearnt(u, N, f)
    BY <1>1, ImportIsDefined
  <2> QED
    BY <2>1, <2>2
<1>3. k[0] = u.known /\ \A n \in 1..N : k[n] = Learns(u, n, k[n - 1])
  <2>1. N \in Nat /\ IsLearnt(u, N, k)
    BY <1>1, <1>2
  <2> HIDE DEF N
  <2> QED
    BY <2>1, LearntStepwise
<1> DEFINE lands(i) == at(i).refs \subseteq k[i - 1]
<1>4. \A n \in 1..N : k[n] = IF lands(n) THEN k[n - 1] \cup {pair(at(n))} ELSE k[n - 1]
  BY <1>3 DEF Learns
<1>5. \A i \in 1..N : at(i) \in ToSet(E)
  BY <1>1 DEF ToSet
<1>6. \A e \in ToSet(E) : \E i \in 1..N : e = at(i)
  <2>1. \A e \in ToSet(E) : \E p \in 1..N : e = E[p]
    BY <1>1 DEF ToSet
  <2> TAKE e \in ToSet(E)
  <2>2. PICK p \in 1..N : e = E[p]
    BY <2>1
  <2>3. PICK i \in 1..N : o[i] = p
    BY <1>1
  <2>4. e = at(i)
    BY <2>2, <2>3
  <2> HIDE DEF at, N
  <2> QED
    BY <2>4
<1>7. \A i \in 1..N : at(i).refs \subseteq {r \in at(i).refs : r[1] \in RefersTo[at(i).mtype]}
  BY <1>1, InputsAssumption
<1> HIDE DEF E, o, at, lands, N
<1> DEFINE gained(n) == {pair(at(i)) : i \in {j \in 1..n : lands(j)}}
<1>8. \A n \in 0..N : k[n] = u.known \cup gained(n)
  <2> DEFINE S == {n \in 0..N : k[n] # u.known \cup gained(n)}
  <2>1. gained(0) = {}
    OBVIOUS
  <2>2. ASSUME NEW n \in 1..N
        PROVE  gained(n) = IF lands(n) THEN gained(n - 1) \cup {pair(at(n))} ELSE gained(n - 1)
    <3>1. \A j : j \in 1..n <=> j \in 1..(n - 1) \/ j = n
      BY <1>1
    <3> HIDE DEF pair
    <3> QED
      BY <3>1
  <2> HIDE DEF gained, pair
  <2> SUFFICES ASSUME S # {} PROVE FALSE
    OBVIOUS
  <2>3. PICK n \in S : \A m \in S : n <= m
    <3>1. S \in SUBSET Nat
      OBVIOUS
    <3> HIDE DEF S
    <3> QED
      BY <3>1, LeastNumber
  <2>4. n \in 0..N /\ k[n] # u.known \cup gained(n)
    BY <2>3
  <2>5. n # 0
    BY <1>3, <2>1, <2>4
  <2>6. n - 1 \in 0..N /\ n \in 1..N /\ ~(n <= n - 1)
    BY <1>1, <2>4, <2>5
  <2>7. n - 1 \notin S
    <3> HIDE DEF S
    <3> QED
      BY <2>3, <2>6
  <2>8. k[n - 1] = u.known \cup gained(n - 1)
    BY <2>6, <2>7
  <2>9. k[n] = u.known \cup gained(n)
    BY <1>4, <2>2, <2>6, <2>8
  <2> QED
    BY <2>4, <2>9
<1>9. \A m, n \in 0..N : m <= n => k[m] \subseteq k[n]
  <2> SUFFICES ASSUME NEW m \in 0..N, NEW n \in 0..N, m <= n PROVE gained(m) \subseteq gained(n)
    BY <1>8
  <2>1. \A j \in 1..m : j \in 1..n
    BY <1>1
  <2> HIDE DEF pair
  <2> QED
    BY <2>1
<1> DEFINE Keys(es) == {pair(e) : e \in es}
           Closed == {es \in SUBSET ToSet(E) : \A e \in es : e.refs \subseteq u.known \cup Keys(es)}
           landed == {at(i) : i \in {j \in 1..N : lands(j)}}
<1>10. Importable(u.known, E) = u.known \cup Keys(UNION Closed)
  BY DEF Importable
<1>11. k[N] = u.known \cup Keys(landed)
  <2>1. N \in 0..N
    BY <1>1
  <2>2. k[N] = u.known \cup gained(N)
    <3> HIDE DEF gained
    <3> QED
      BY <1>8, <2>1
  <2>3. gained(N) = Keys(landed)
    OBVIOUS
  <2> QED
    BY <2>2, <2>3
<1>12. landed \in Closed
  <2>1. landed \in SUBSET ToSet(E)
    BY <1>5
  <2>2. ASSUME NEW i \in 1..N, lands(i) PROVE at(i).refs \subseteq k[N]
    <3>1. i - 1 \in 0..N /\ N \in 0..N /\ i - 1 <= N
      BY <1>1
    <3>2. k[i - 1] \subseteq k[N]
      BY <1>9, <3>1
    <3> QED
      BY <2>2, <3>2 DEF lands
  <2>3. \A e \in landed : e.refs \subseteq k[N]
    BY <2>2
  <2> HIDE DEF landed, Keys
  <2> QED
    BY <1>11, <2>1, <2>3
<1>13. ASSUME NEW es \in Closed, NEW i \in 1..N, at(i) \in es PROVE lands(i)
  <2> DEFINE S == {j \in 1..N : at(j) \in es /\ ~lands(j)}
  <2> SUFFICES ASSUME S # {} PROVE FALSE
    BY <1>13
  <2>1. PICK j \in S : \A m \in S : j <= m
    <3>1. S \in SUBSET Nat
      OBVIOUS
    <3> HIDE DEF S
    <3> QED
      BY <3>1, LeastNumber
  <2>2. j \in 1..N /\ at(j) \in es /\ ~lands(j)
    BY <2>1
  <2>3. ASSUME NEW r \in at(j).refs PROVE r \in k[j - 1]
    <3>1. r \in u.known \/ r \in Keys(es)
      BY <2>2, <2>3
    <3>2. j - 1 \in 0..N /\ 0 \in 0..N /\ 0 <= j - 1
      BY <1>1, <2>2
    <3>3. CASE r \in u.known
      <4>1. k[0] \subseteq k[j - 1]
        BY <1>9, <3>2
      <4> QED
        BY <1>3, <3>3, <4>1
    <3>4. CASE r \in Keys(es)
      <4>1. PICK e \in es : r = pair(e)
        BY <3>4
      <4>2. PICK m \in 1..N : e = at(m)
        BY <1>6, <4>1
      <4>3. r[1] = at(m).mtype
        BY <4>1, <4>2
      <4>4. m < j
        BY <1>1, <1>7, <2>2, <2>3, <4>2, <4>3 DEF at
      <4>5. lands(m)
        BY <1>1, <2>1, <2>2, <4>1, <4>2, <4>4
      <4>6. m \in 1..(j - 1) /\ j - 1 \in 0..N
        <5>1. N \in Nat /\ j \in 1..N /\ m \in 1..N /\ m < j
          BY <1>1, <2>2, <4>2, <4>4
        <5> HIDE DEF N
        <5> QED
          BY <5>1
      <4>7. k[j - 1] = u.known \cup gained(j - 1)
        <5> HIDE DEF gained
        <5> QED
          BY <1>8, <4>6
      <4> HIDE DEF pair
      <4> QED
        BY <4>1, <4>2, <4>5, <4>6, <4>7
    <3> QED
      BY <3>1, <3>3, <3>4
  <2> QED
    BY <2>2, <2>3 DEF lands
<1>14. UNION Closed \subseteq landed
  <2>1. ASSUME NEW es \in Closed, NEW e \in es PROVE e \in landed
    <3>1. PICK i \in 1..N : e = at(i)
      BY <1>6, <2>1
    <3> QED
      BY <1>13, <2>1, <3>1
  <2> QED
    BY <2>1
<1>15. Keys(UNION Closed) = Keys(landed)
  <2>1. UNION Closed = landed
    BY <1>12, <1>14
  <2> QED
    BY <2>1
<1> QED
  BY <1>2, <1>10, <1>11, <1>15 DEF E

-----------------------------------------------------------------------------
(* Chunks of a text *)

LEMMA MaxIsGreatest ==
  ASSUME NEW b \in Int, NEW S \in SUBSET (0..b), S # {}
  PROVE  Max(S) \in S /\ \A x \in S : x <= Max(S)
<1> DEFINE T == {y \in 0..b : b - y \in S}
<1>1. T \in SUBSET Nat
  OBVIOUS
<1>2. T # {}
  <2>1. PICK x \in S : TRUE
    OBVIOUS
  <2>2. b - x \in 0..b /\ b - (b - x) = x
    BY <2>1
  <2>3. b - x \in T
    BY <2>1, <2>2
  <2> QED
    BY <2>3
<1>3. PICK y \in T : \A z \in T : y <= z
  <2> HIDE DEF T
  <2> QED
    BY <1>1, <1>2, LeastNumber
<1>4. b - y \in S /\ y \in 0..b
  BY <1>3
<1>5. \A x \in S : x <= b - y
  <2> TAKE x \in S
  <2>1. x \in 0..b /\ b - x \in 0..b /\ b - (b - x) = x
    OBVIOUS
  <2>2. b - x \in T
    BY <2>1
  <2>3. y <= b - x
    BY <1>3, <2>2
  <2> QED
    BY <1>4, <2>1, <2>3
<1>6. \E m \in S : \A x \in S : m >= x
  BY <1>4, <1>5
<1>7. Max(S) \in S /\ \A x \in S : Max(S) >= x
  BY <1>6 DEF Max
<1>8. \A x \in S : x \in Int
  OBVIOUS
<1> QED
  BY <1>7, <1>8

\* A window that does not end the text is cut in its second half, if it is cut.
LEMMA WindowsAreBounded ==
  ASSUME NEW text, Len(text) \in Nat, NEW size \in Nat \ {0}, NEW start \in 0..(Len(text) - 1)
  PROVE  LET end == WindowEnd(text, start, size)
         IN /\ end \in (start + 1)..Len(text)
            /\ end - start \in 1..size
            /\ end < Len(text) => 2 * (end - start) > size
<1> DEFINE n == Len(text)
           last == IF start + size < n THEN start + size ELSE n
           lines == {p \in Cuts(text, start, last, "newline") : 2 * p >= size}
           stops == {p \in Cuts(text, start, last, "stop") : 2 * p >= size}
           snap == IF lines # {} THEN Max(lines) ELSE Max(stops)
           end == WindowEnd(text, start, size)
<1>1. end = IF last < n /\ lines \cup stops # {} THEN start + snap + 1 ELSE last
  BY DEF WindowEnd
<1>2. lines \in SUBSET (0..(last - start - 1)) /\ stops \in SUBSET (0..(last - start - 1))
  BY DEF Cuts
<1>3. /\ n \in Nat /\ start \in Nat /\ start < n
      /\ last \in Nat /\ start < last /\ last <= n /\ last - start <= size
      /\ last < n => last = start + size
  OBVIOUS
<1>4. \A p \in lines \cup stops : 2 * p >= size
  OBVIOUS
<1> HIDE DEF last, lines, stops, n
<1>5. lines \cup stops # {} => snap \in 0..(last - start - 1) /\ 2 * snap >= size
  <2>1. last - start - 1 \in Int
    BY <1>3
  <2>2. lines # {} => Max(lines) \in lines
    BY <1>2, <2>1, MaxIsGreatest
  <2>3. stops # {} => Max(stops) \in stops
    BY <1>2, <2>1, MaxIsGreatest
  <2>4. lines \cup stops # {} => snap \in lines \cup stops
    BY <2>2, <2>3
  <2> HIDE DEF snap
  <2> QED
    BY <1>2, <1>4, <2>4
<1> HIDE DEF snap, end
<1>6. CASE last < n /\ lines \cup stops # {}
  <2>1. end = start + snap + 1 /\ snap \in 0..(last - start - 1) /\ 2 * snap >= size
    BY <1>1, <1>5, <1>6
  <2>2. /\ end \in (start + 1)..n
        /\ end - start \in 1..size
        /\ 2 * (end - start) > size
    BY <1>3, <2>1
  <2> QED
    BY <2>2 DEF end, n
<1>7. CASE ~(last < n /\ lines \cup stops # {})
  <2>1. end = last
    BY <1>1, <1>7
  <2>2. /\ end \in (start + 1)..n
        /\ end - start \in 1..size
        /\ end < n => 2 * (end - start) > size
    BY <1>3, <2>1
  <2> QED
    BY <2>2 DEF end, n
<1> QED
  BY <1>6, <1>7

\* The next window starts after this one, and within it or where it ends.
LEMMA WindowsAdvance ==
  ASSUME NEW start \in Nat, NEW end \in Nat, NEW overlap \in Nat, start < end
  PROVE  LET next == Advance(start, end, overlap)
         IN next \in Nat /\ start < next /\ next <= end /\ end - overlap <= next
BY DEF Advance

\* chunks from a position on, given those from later positions on
Rest(text, size, overlap, start, from) ==
  IF start = Len(text) THEN << >>
  ELSE LET end   == WindowEnd(text, start, size)
           piece == IF Blank(text, start, end) THEN << >>
                    ELSE <<[start |-> start, end |-> end]>>
       IN IF end >= Len(text) THEN piece
          ELSE piece \o from[Advance(start, end, overlap)]

IsChunking(text, size, overlap, first, from) ==
  from = [start \in first..Len(text) |-> Rest(text, size, overlap, start, from)]

LEMMA RestLooksAhead ==
  ASSUME NEW text, Len(text) \in Nat, NEW size \in Nat \ {0}, NEW overlap \in Nat,
         NEW start \in 0..Len(text), NEW f, NEW g,
         \A s \in (start + 1)..Len(text) : f[s] = g[s]
  PROVE  Rest(text, size, overlap, start, f) = Rest(text, size, overlap, start, g)
<1> DEFINE end == WindowEnd(text, start, size)
<1>1. CASE start = Len(text)
  BY <1>1 DEF Rest
<1>2. CASE start # Len(text)
  <2>1. start \in 0..(Len(text) - 1)
    BY <1>2
  <2>2. Advance(start, end, overlap) \in (start + 1)..Len(text)
    <3>1. end \in (start + 1)..Len(text)
      BY <2>1, WindowsAreBounded, Zenon
    <3> HIDE DEF end
    <3>2. start \in Nat /\ end \in Nat /\ start < end
      BY <3>1
    <3> DEFINE next == Advance(start, end, overlap)
    <3>3. next \in Nat /\ start < next /\ next <= end
      BY <3>2, WindowsAdvance
    <3> HIDE DEF next
    <3>4. next \in (start + 1)..Len(text)
      BY <3>1, <3>2, <3>3
    <3> QED
      BY <3>4 DEF next
  <2>3. f[Advance(start, end, overlap)] = g[Advance(start, end, overlap)]
    BY <2>2
  <2> QED
    BY <2>3, Zenon DEF Rest
<1> QED
  BY <1>1, <1>2

LEMMA ChunkingIsDefined ==
  ASSUME NEW text, Len(text) \in Nat, NEW size \in Nat \ {0}, NEW overlap \in Nat
  PROVE  \E from : IsChunking(text, size, overlap, 0, from)
<1> DEFINE n == Len(text)
           S == {k \in 0..n : ~ \E from : IsChunking(text, size, overlap, n - k, from)}
<1>1. n \in Nat
  OBVIOUS
<1> HIDE DEF n
<1>2. S = {}
  <2> SUFFICES ASSUME S # {} PROVE FALSE
    OBVIOUS
  <2>1. PICK k \in S : \A j \in S : k <= j
    <3>1. S \in SUBSET Nat
      OBVIOUS
    <3> HIDE DEF S
    <3> QED
      BY <3>1, LeastNumber
  <2> DEFINE m == n - k
  <2>2. k \in 0..n /\ m \in 0..n
    BY <1>1, <2>1
  <2>3. ~ \E from : IsChunking(text, size, overlap, m, from)
    BY <2>1
  <2>4. \E g : \A s \in (m + 1)..n :
           g[s] = Rest(text, size, overlap, s, g)
    <3>1. CASE k = 0
      <4>1. (m + 1)..n = {}
        BY <1>1, <3>1
      <4> QED
        BY <4>1
    <3>2. CASE k # 0
      <4>1. k - 1 \in 0..n /\ ~(k <= k - 1) /\ n - (k - 1) = m + 1
        BY <1>1, <2>2, <3>2
      <4>2. k - 1 \notin S
        <5> HIDE DEF S
        <5> QED
          BY <2>1, <4>1
      <4>3. PICK g : IsChunking(text, size, overlap, m + 1, g)
        BY <4>1, <4>2
      <4> QED
        BY <4>3 DEF IsChunking, n
    <3> QED
      BY <3>1, <3>2
  <2>5. PICK g : \A s \in (m + 1)..n : g[s] = Rest(text, size, overlap, s, g)
    BY <2>4
  <2> DEFINE h == [s \in m..n |-> IF s = m THEN Rest(text, size, overlap, m, g) ELSE g[s]]
  <2> HIDE DEF m
  <2>6. ASSUME NEW s \in m..n PROVE h[s] = Rest(text, size, overlap, s, h)
    <3>1. \A t \in (s + 1)..n : h[t] = g[t]
      <4>1. \A t \in (s + 1)..n : t \in m..n /\ t # m
        BY <1>1, <2>2
      <4> QED
        BY <4>1
    <3> HIDE DEF h
    <3>2. s \in 0..n
      BY <1>1, <2>2
    <3>3. Rest(text, size, overlap, s, h) = Rest(text, size, overlap, s, g)
      BY <3>1, <3>2, RestLooksAhead DEF n
    <3>4. h[s] = Rest(text, size, overlap, s, g)
      <4>1. CASE s = m
        BY <4>1 DEF h
      <4>2. CASE s # m
        <5>1. h[s] = g[s]
          BY <4>2 DEF h
        <5>2. s \in (m + 1)..n
          BY <1>1, <2>2, <4>2
        <5> QED
          BY <2>5, <5>1, <5>2
      <4> QED
        BY <4>1, <4>2
    <3> QED
      BY <3>3, <3>4
  <2>7. h = [s \in m..n |-> h[s]]
    OBVIOUS
  <2> HIDE DEF h
  <2>8. h = [s \in m..n |-> Rest(text, size, overlap, s, h)]
    BY <2>6, <2>7
  <2>9. IsChunking(text, size, overlap, m, h)
    BY <2>8, Zenon DEF IsChunking, n
  <2> QED
    BY <2>3, <2>9
<1>3. n \in 0..n /\ n - n = 0
  BY <1>1
<1> QED
  BY <1>2, <1>3

\* what the chunks from a position on are
AreChunks(text, size, overlap, from, chunks) ==
  /\ chunks \in Seq([start : Nat, end : Nat])
  /\ \A k \in DOMAIN chunks :
       /\ from <= chunks[k].start
       /\ chunks[k].end - chunks[k].start \in 1..size
       /\ 2 * overlap <= size => WindowEnd(text, from, size) <= chunks[k].end
  /\ \A j, k \in DOMAIN chunks : j < k =>
       /\ chunks[j].start < chunks[k].start
       /\ 2 * overlap <= size => chunks[j].end < chunks[k].end
  /\ \A p \in (from + 1)..Len(text) : text[p] = "word" =>
       \E k \in DOMAIN chunks : chunks[k].start < p /\ p <= chunks[k].end

LEMMA ChunksGoOn ==
  ASSUME NEW text, Len(text) \in Nat, NEW size \in Nat \ {0}, NEW overlap \in Nat,
         overlap < size, NEW start \in 0..(Len(text) - 1), NEW from,
         \A t \in (start + 1)..Len(text) : AreChunks(text, size, overlap, t, from[t])
  PROVE  AreChunks(text, size, overlap, start, Rest(text, size, overlap, start, from))
<1> DEFINE n == Len(text)
           end == WindowEnd(text, start, size)
           next == Advance(start, end, overlap)
           chunk == [start |-> start, end |-> end]
           piece == IF Blank(text, start, end) THEN << >> ELSE <<chunk>>
           later == IF end >= n THEN << >> ELSE from[next]
           all == Rest(text, size, overlap, start, from)
           C == [start : Nat, end : Nat]
<1>1. n \in Nat /\ start \in Nat /\ start < n
  OBVIOUS
<1>2. end \in (start + 1)..n /\ end - start \in 1..size /\ (end < n => 2 * (end - start) > size)
  BY WindowsAreBounded, Zenon
<1>3. end \in Nat /\ start < end /\ end <= n
  BY <1>1, <1>2
<1>4. next \in Nat /\ start < next /\ next <= end /\ end - overlap <= next
  <2> HIDE DEF end
  <2> QED
    BY <1>1, <1>3, WindowsAdvance
<1>5. end < n => AreChunks(text, size, overlap, next, from[next])
  BY <1>3, <1>4
<1>6. 2 * overlap <= size /\ end < n => end < WindowEnd(text, next, size)
  <2> SUFFICES ASSUME 2 * overlap <= size, end < n PROVE end < WindowEnd(text, next, size)
    OBVIOUS
  <2> DEFINE e == WindowEnd(text, next, size)
  <2>1. next \in 0..(n - 1)
    BY <1>1, <1>3, <1>4
  <2>2. e \in (next + 1)..n /\ e - next \in 1..size /\ (e < n => 2 * (e - next) > size)
    BY <2>1, WindowsAreBounded, Zenon
  <2> HIDE DEF e, next, end, n
  <2>3. CASE e = n
    BY <2>3 DEF e
  <2>4. CASE e # n
    <3>1. 2 * (e - next) > size
      BY <1>1, <1>4, <2>2, <2>4
    <3>2. e > end
      BY <1>1, <1>3, <1>4, <2>2, <3>1
    <3> QED
      BY <3>2 DEF e
  <2> QED
    BY <2>3, <2>4
<1>7. /\ later \in Seq(C)
      /\ \A k \in DOMAIN later :
           /\ start < later[k].start
           /\ later[k].end - later[k].start \in 1..size
           /\ 2 * overlap <= size => end < later[k].end
      /\ \A j, k \in DOMAIN later : j < k =>
           /\ later[j].start < later[k].start
           /\ 2 * overlap <= size => later[j].end < later[k].end
      /\ \A p \in (end + 1)..n : text[p] = "word" =>
           \E k \in DOMAIN later : later[k].start < p /\ p <= later[k].end
  <2>1. CASE end >= n
    <3>1. later = << >> /\ DOMAIN later = {} /\ (end + 1)..n = {}
      BY <1>1, <1>3, <2>1
    <3> HIDE DEF later, C, end, n
    <3> QED
      BY <3>1
  <2>2. CASE ~(end >= n)
    <3>1. later = from[next] /\ AreChunks(text, size, overlap, next, later) /\ end < n
      BY <1>1, <1>3, <1>5, <2>2
    <3> HIDE DEF later, end, n, next
    <3>2. /\ later \in Seq(C)
          /\ \A k \in DOMAIN later :
               /\ next <= later[k].start
               /\ later[k].end - later[k].start \in 1..size
               /\ 2 * overlap <= size => WindowEnd(text, next, size) <= later[k].end
          /\ \A j, k \in DOMAIN later : j < k =>
               /\ later[j].start < later[k].start
               /\ 2 * overlap <= size => later[j].end < later[k].end
          /\ \A p \in (next + 1)..n : text[p] = "word" =>
               \E k \in DOMAIN later : later[k].start < p /\ p <= later[k].end
      BY <3>1, Zenon DEF AreChunks, n
    <3>3. ASSUME NEW k \in DOMAIN later
          PROVE  start < later[k].start /\ (2 * overlap <= size => end < later[k].end)
      <4>1. later[k] \in C
        BY <3>2, SeqElement
      <4>2. later[k].start \in Nat /\ later[k].end \in Nat
        BY <4>1
      <4>3. start < later[k].start
        BY <1>1, <1>4, <3>2, <4>2
      <4>4. WindowEnd(text, next, size) \in Int
        <5>1. next \in 0..(n - 1)
          BY <1>1, <1>3, <1>4, <3>1
        <5>2. WindowEnd(text, next, size) \in (next + 1)..n
          BY <5>1, WindowsAreBounded, Zenon DEF n
        <5> QED
          BY <1>1, <1>4, <5>2
      <4>5. 2 * overlap <= size => end < later[k].end
        <5> DEFINE e == WindowEnd(text, next, size)
        <5>1. 2 * overlap <= size => e <= later[k].end
          BY <3>2, Zenon
        <5>2. 2 * overlap <= size => end < e
          BY <1>6, <3>1
        <5>3. e \in Int
          BY <4>4
        <5> HIDE DEF e
        <5> QED
          BY <1>3, <4>2, <5>1, <5>2, <5>3
      <4> QED
        BY <4>3, <4>5
    <3>4. \A p \in (end + 1)..n : p \in (next + 1)..n
      BY <1>1, <1>3, <1>4
    <3> QED
      BY <3>2, <3>3, <3>4
  <2> QED
    BY <2>1, <2>2
<1>8. all = piece \o later
  <2>1. start # n
    BY <1>1
  <2>2. CASE end >= n
    <3>1. all = piece /\ later = << >>
      BY <2>1, <2>2 DEF Rest
    <3>2. piece \in Seq(C)
      <4>1. chunk \in C
        BY <1>1, <1>3
      <4> HIDE DEF chunk, C
      <4> QED
        BY <4>1
    <3> HIDE DEF piece, later, all
    <3> QED
      BY <3>1, <3>2
  <2>3. CASE ~(end >= n)
    BY <2>1, <2>3, Zenon DEF Rest
  <2> QED
    BY <2>2, <2>3
<1>9. chunk \in C /\ chunk.start = start /\ chunk.end = end
  BY <1>1, <1>3
<1>10. Blank(text, start, end) => \A p \in (start + 1)..end : text[p] # "word"
  BY DEF Blank
<1>11. \A p \in (start + 1)..n : p \in Int /\ (p \in (start + 1)..end \/ p \in (end + 1)..n)
  BY <1>1, <1>3
<1>12. /\ Blank(text, start, end) => all = later
       /\ ~Blank(text, start, end) => /\ all = <<chunk>> \o later
  <2>1. << >> \o later = later
    <3> HIDE DEF later, C
    <3> QED
      BY <1>7
  <2> HIDE DEF later, all, chunk, end
  <2> QED
    BY <1>8, <2>1
<1> HIDE DEF n, end, next, chunk, later, all, C
<1>13. \A k \in DOMAIN later : later[k].start \in Nat /\ later[k].end \in Nat
  <2> TAKE k \in DOMAIN later
  <2>1. later[k] \in C
    BY <1>7, SeqElement
  <2> QED
    BY <2>1 DEF C
<1>14. CASE Blank(text, start, end)
  <2>1. all = later
    BY <1>12, <1>14
  <2>2. \A k \in DOMAIN all : /\ start <= all[k].start
                              /\ all[k].end - all[k].start \in 1..size
                              /\ 2 * overlap <= size => end <= all[k].end
    BY <1>1, <1>3, <1>7, <1>13, <2>1
  <2>3. \A p \in (start + 1)..n : text[p] = "word" =>
           \E k \in DOMAIN all : all[k].start < p /\ p <= all[k].end
    BY <1>7, <1>10, <1>11, <1>14, <2>1
  <2>4. AreChunks(text, size, overlap, start, all)
    BY <1>7, <2>1, <2>2, <2>3, Zenon DEF AreChunks, C, n, end
  <2> QED
    BY <2>4 DEF all
<1>15. CASE ~Blank(text, start, end)
  <2>1. all = <<chunk>> \o later
    BY <1>12, <1>15
  <2>2. /\ all \in Seq(C) /\ DOMAIN all = 1..(Len(later) + 1)
        /\ DOMAIN later = 1..Len(later) /\ Len(later) \in Nat
        /\ all[1] = chunk
        /\ \A k \in DOMAIN later : k \in Int /\ k + 1 \in DOMAIN all /\ all[k + 1] = later[k]
    BY <1>7, <1>9, <2>1
  <2>3. ASSUME NEW k \in DOMAIN all, k # 1
        PROVE  k - 1 \in DOMAIN later /\ all[k] = later[k - 1]
    <3>1. k - 1 \in DOMAIN later /\ k - 1 + 1 = k
      BY <2>2, <2>3
    <3> QED
      BY <2>2, <3>1
  <2>4. ASSUME NEW k \in DOMAIN all
        PROVE  /\ start <= all[k].start
               /\ all[k].end - all[k].start \in 1..size
               /\ 2 * overlap <= size => end <= all[k].end
    <3>1. CASE k = 1
      BY <1>1, <1>2, <1>3, <1>9, <2>2, <3>1
    <3>2. CASE k # 1
      <4>1. k - 1 \in DOMAIN later /\ all[k] = later[k - 1]
        BY <2>3, <3>2
      <4> QED
        BY <1>1, <1>3, <1>7, <1>13, <4>1
    <3> QED
      BY <3>1, <3>2
  <2>5. ASSUME NEW j \in DOMAIN all, NEW k \in DOMAIN all, j < k
        PROVE  /\ all[j].start < all[k].start
               /\ 2 * overlap <= size => all[j].end < all[k].end
    <3>1. k # 1 /\ j \in Int /\ k \in Int
      BY <2>2, <2>5
    <3>2. k - 1 \in DOMAIN later /\ all[k] = later[k - 1]
      BY <2>3, <3>1
    <3>3. CASE j = 1
      BY <1>7, <1>9, <2>2, <3>2, <3>3
    <3>4. CASE j # 1
      <4>1. j - 1 \in DOMAIN later /\ all[j] = later[j - 1]
        BY <2>3, <3>4
      <4>2. j - 1 < k - 1
        BY <2>5, <3>1
      <4> QED
        BY <1>7, <3>2, <4>1, <4>2
    <3> QED
      BY <3>3, <3>4
  <2>6. ASSUME NEW p \in (start + 1)..n, text[p] = "word"
        PROVE  \E k \in DOMAIN all : all[k].start < p /\ p <= all[k].end
    <3>1. CASE p \in (start + 1)..end
      <4>1. 1 \in DOMAIN all
        BY <2>2
      <4>2. start < p /\ p <= end
        BY <1>1, <1>3, <3>1
      <4> QED
        BY <1>9, <2>2, <4>1, <4>2
    <3>2. CASE p \in (end + 1)..n
      <4>1. PICK k \in DOMAIN later : later[k].start < p /\ p <= later[k].end
        BY <1>7, <2>6, <3>2
      <4> QED
        BY <2>2, <4>1
    <3> QED
      BY <1>11, <3>1, <3>2
  <2>7. AreChunks(text, size, overlap, start, all)
    BY <2>2, <2>4, <2>5, <2>6, Zenon DEF AreChunks, C, n, end
  <2> QED
    BY <2>7 DEF all
<1> QED
  BY <1>14, <1>15

\* The chunks of a text cover it, stay within the window and move forward.
LEMMA ChunksCoverText ==
  ASSUME NEW text, Len(text) \in Nat, NEW size \in Nat \ {0}, NEW overlap \in Nat
  PROVE  AreChunks(text, size, Clamp(overlap, size), 0, Chunks(text, size, overlap))
<1> DEFINE n == Len(text)
           o == Clamp(overlap, size)
           f == CHOOSE from : IsChunking(text, size, o, 0, from)
           S == {k \in 0..n : ~ AreChunks(text, size, o, n - k, f[n - k])}
<1>1. o \in Nat /\ o < size
  BY DEF Clamp
<1>2. Chunks(text, size, overlap) = f[0]
  BY Zenon DEF Chunks, ChunksFrom, IsChunking, Rest
<1>3. IsChunking(text, size, o, 0, f)
  <2> HIDE DEF o
  <2>1. \E from : IsChunking(text, size, o, 0, from)
    BY <1>1, ChunkingIsDefined
  <2> QED
    BY <2>1
<1> HIDE DEF o, f
<1>4. \A s \in 0..n : f[s] = Rest(text, size, o, s, f)
  BY <1>3, Zenon DEF IsChunking
<1>5. n \in Nat
  OBVIOUS
<1>6. S = {}
  <2> SUFFICES ASSUME S # {} PROVE FALSE
    OBVIOUS
  <2>1. PICK k \in S : \A j \in S : k <= j
    <3>1. S \in SUBSET Nat
      OBVIOUS
    <3> HIDE DEF S
    <3> QED
      BY <3>1, LeastNumber
  <2> DEFINE s == n - k
  <2>2. k \in 0..n /\ s \in 0..n
    BY <1>5, <2>1
  <2>3. ~ AreChunks(text, size, o, s, f[s])
    BY <2>1
  <2>4. CASE k = 0
    <3>1. s = n
      BY <1>5, <2>4
    <3>2. f[n] = << >>
      <4>1. n \in 0..n
        BY <1>5
      <4> QED
        BY <1>4, <4>1 DEF Rest
    <3>3. (n + 1)..n = {}
      BY <1>5
    <3>4. AreChunks(text, size, o, n, << >>)
      BY <3>3 DEF AreChunks
    <3> HIDE DEF s, n
    <3> QED
      BY <2>3, <3>1, <3>2, <3>4
  <2>5. CASE k # 0
    <3>1. s \in 0..(n - 1)
      BY <1>5, <2>2, <2>5
    <3>2. ASSUME NEW t \in (s + 1)..n PROVE AreChunks(text, size, o, t, f[t])
      <4>1. n - t \in 0..n /\ n - t < k /\ n - (n - t) = t
        BY <1>5, <2>2, <3>2
      <4>2. n - t \notin S
        <5> HIDE DEF S
        <5>1. ~(k <= n - t)
          BY <1>5, <2>2, <4>1
        <5> QED
          BY <2>1, <5>1
      <4> QED
        BY <4>1, <4>2
    <3> HIDE DEF s, S
    <3>3. AreChunks(text, size, o, s, Rest(text, size, o, s, f))
      BY <1>1, <3>1, <3>2, ChunksGoOn
    <3> QED
      BY <1>4, <2>2, <2>3, <3>3
  <2> QED
    BY <2>4, <2>5
<1>7. n \in 0..n /\ n - n = 0
  BY <1>5
<1> QED
  BY <1>2, <1>6, <1>7 DEF o

-----------------------------------------------------------------------------
(* The walk through the dependencies of a template *)

IsGraph(graph) ==
  /\ IsFiniteSet(DOMAIN graph)
  /\ graph \in [DOMAIN graph -> SUBSET DOMAIN graph]

Colours == {"white", "grey", "black"}
Colourings(graph) == [DOMAIN graph -> Colours]
Places(graph) == Colourings(graph) \X SUBSET DOMAIN graph

Those(colour, c) == {n \in DOMAIN c : c[n] = colour}

\* the node that is looked at next, and where the walk goes from there
First(x) == CHOOSE n \in x[2] : TRUE
Below(graph, x) == <<[x[1] EXCEPT ![First(x)] = "grey"], graph[First(x)]>>
Passed(x) == <<x[1], x[2] \ {First(x)}>>
After(c, x) == <<[c EXCEPT ![First(x)] = "black"], x[2] \ {First(x)}>>

\* a step of the walk, given where it leads from the places after it
Visit(graph, x, f) ==
  IF x[2] = {} THEN <<x[1], FALSE>>
  ELSE CASE x[1][First(x)] = "grey"  -> <<x[1], TRUE>>
         [] x[1][First(x)] = "black" -> f[Passed(x)]
         [] x[1][First(x)] = "white" ->
              IF f[Below(graph, x)][2] THEN f[Below(graph, x)]
              ELSE f[After(f[Below(graph, x)][1], x)]

\* how far the walk can still go
Measure(graph, x) ==
  (Cardinality(DOMAIN graph) + 1) * Cardinality(Those("white", x[1])) + Cardinality(x[2])

LEMMA MeasureIsLexical ==
  ASSUME NEW K \in Nat, NEW w \in Nat, NEW v \in Nat, NEW l \in Nat, NEW m \in Nat,
         \/ v < w /\ m < K
         \/ v <= w /\ m < l
  PROVE  K * v + m < K * w + l /\ K * v + m \in Nat
<1> DEFINE d == w - v
<1>1. d \in Nat /\ w = v + d
  OBVIOUS
<1> HIDE DEF d
<1>2. K * w = K * v + K * d /\ K * v \in Nat /\ K * d \in Nat
  BY <1>1
<1>3. d # 0 => K * d >= K
  <2> SUFFICES ASSUME d # 0 PROVE K * d >= K
    OBVIOUS
  <2> DEFINE e == d - 1
  <2>1. e \in Nat /\ d = e + 1
    BY <1>1
  <2> HIDE DEF e
  <2>2. K * d = K * e + K /\ K * e \in Nat
    BY <2>1
  <2> QED
    BY <2>2
<1>4. v < w => d # 0
  BY <1>1
<1> DEFINE a == K * v
           b == K * d
           c == K * w
<1>5. c = a + b /\ a \in Nat /\ b \in Nat /\ (d # 0 => b >= K)
  BY <1>2, <1>3
<1> HIDE DEF a, b, c
<1>6. a + m < c + l /\ a + m \in Nat
  BY <1>4, <1>5
<1> QED
  BY <1>6 DEF a, c

LEMMA PlaceParts ==
  ASSUME NEW graph, IsGraph(graph), NEW x \in Places(graph)
  PROVE  /\ x[1] \in Colourings(graph) /\ x[2] \in SUBSET DOMAIN graph
         /\ DOMAIN x[1] = DOMAIN graph
         /\ \A colour : IsFiniteSet(Those(colour, x[1]))
                        /\ Cardinality(Those(colour, x[1])) \in Nat
                        /\ Cardinality(Those(colour, x[1])) <= Cardinality(DOMAIN graph)
         /\ IsFiniteSet(x[2]) /\ Cardinality(x[2]) \in Nat
         /\ Cardinality(x[2]) < Cardinality(DOMAIN graph) + 1
         /\ Cardinality(DOMAIN graph) \in Nat
         /\ Measure(graph, x) \in Nat
         /\ x[2] # {} => First(x) \in x[2] /\ First(x) \in DOMAIN graph
                         /\ x[1][First(x)] \in Colours
<1> DEFINE N == DOMAIN graph
<1>1. x[1] \in Colourings(graph) /\ x[2] \in SUBSET N /\ DOMAIN x[1] = N
  BY DEF Places, Colourings
<1>2. IsFiniteSet(N)
  BY DEF IsGraph
<1> HIDE DEF N
<1>3. \A T \in SUBSET N : IsFiniteSet(T) /\ Cardinality(T) \in Nat /\ Cardinality(T) <= Cardinality(N)
  BY <1>2, FS_Subset, FS_CardinalityType
<1>4. \A colour : Those(colour, x[1]) \in SUBSET N
  BY <1>1 DEF Those
<1>5. Cardinality(N) \in Nat
  BY <1>2, FS_CardinalityType
<1>6. Cardinality(x[2]) < Cardinality(N) + 1
  BY <1>1, <1>3, <1>5
<1>7. Measure(graph, x) \in Nat
  <2> DEFINE K == Cardinality(N) + 1
             w == Cardinality(Those("white", x[1]))
             l == Cardinality(x[2])
  <2>1. K \in Nat /\ w \in Nat /\ l \in Nat
    BY <1>1, <1>3, <1>4, <1>5
  <2>2. Measure(graph, x) = K * w + l
    BY DEF Measure, N
  <2> HIDE DEF K, w, l
  <2> QED
    BY <2>1, <2>2
<1>8. x[2] # {} => First(x) \in x[2] /\ First(x) \in N /\ x[1][First(x)] \in Colours
  BY <1>1 DEF First, Colourings, N
<1>9. \A colour : IsFiniteSet(Those(colour, x[1]))
                   /\ Cardinality(Those(colour, x[1])) \in Nat
                   /\ Cardinality(Those(colour, x[1])) <= Cardinality(N)
  BY <1>3, <1>4
<1>10. IsFiniteSet(x[2]) /\ Cardinality(x[2]) \in Nat
  BY <1>1, <1>3
<1> QED
  BY <1>1, <1>5, <1>6, <1>7, <1>8, <1>9, <1>10, Zenon DEF N

\* Every step of the walk goes to a place from which it cannot go as far.
LEMMA WalkNarrows ==
  ASSUME NEW graph, IsGraph(graph), NEW x \in Places(graph), x[2] # {}
  PROVE  /\ Passed(x) \in Places(graph) /\ Measure(graph, Passed(x)) < Measure(graph, x)
         /\ x[1][First(x)] = "white" =>
              /\ Below(graph, x) \in Places(graph)
              /\ Measure(graph, Below(graph, x)) < Measure(graph, x)
              /\ Those("white", Below(graph, x)[1]) \subseteq Those("white", x[1])
         /\ \A c \in Colourings(graph) : Those("white", c) \subseteq Those("white", x[1]) =>
              /\ After(c, x) \in Places(graph)
              /\ Measure(graph, After(c, x)) < Measure(graph, x)
              /\ Those("white", After(c, x)[1]) \subseteq Those("white", x[1])
<1> DEFINE N == DOMAIN graph
           K == Cardinality(N) + 1
           n == First(x)
           W(y) == Those("white", y[1])
           L(y) == Cardinality(y[2])
<1>1. /\ x[1] \in Colourings(graph) /\ x[2] \in SUBSET N /\ DOMAIN x[1] = N
      /\ IsFiniteSet(x[2]) /\ n \in x[2] /\ n \in N
      /\ K \in Nat
  <2>1. /\ x[1] \in Colourings(graph) /\ x[2] \in SUBSET N /\ DOMAIN x[1] = N
        /\ IsFiniteSet(x[2]) /\ n \in x[2] /\ n \in N
        /\ Cardinality(N) \in Nat
    BY PlaceParts
  <2> HIDE DEF N, n
  <2> QED
    BY <2>1
<1>2. \A y \in Places(graph) : Cardinality(W(y)) \in Nat /\ L(y) \in Nat /\ L(y) < K
                               /\ IsFiniteSet(W(y))
  BY PlaceParts
<1>3. \A y : Measure(graph, y) = K * Cardinality(W(y)) + L(y)
  BY DEF Measure
<1>4. L(Passed(x)) < L(x) /\ \A c : L(After(c, x)) < L(x)
  <2>1. Cardinality(x[2] \ {n}) = Cardinality(x[2]) - 1 /\ Cardinality(x[2]) \in Nat
    BY <1>1, FS_RemoveElement, FS_CardinalityType
  <2>2. Passed(x)[2] = x[2] \ {n} /\ \A c : After(c, x)[2] = x[2] \ {n}
    BY DEF Passed, After
  <2> DEFINE a == Cardinality(x[2] \ {n})
             b == Cardinality(x[2])
  <2>3. a = b - 1 /\ b \in Nat
    BY <2>1
  <2>4. L(Passed(x)) = a /\ L(x) = b /\ \A c : L(After(c, x)) = a
    BY <2>2
  <2> HIDE DEF a, b, L
  <2> QED
    BY <2>3, <2>4
<1>5. ASSUME NEW y \in Places(graph), \/ Cardinality(W(y)) < Cardinality(W(x))
                                      \/ Cardinality(W(y)) <= Cardinality(W(x)) /\ L(y) < L(x)
      PROVE  Measure(graph, y) < Measure(graph, x)
  <2> DEFINE w == Cardinality(W(x))
             v == Cardinality(W(y))
             l == L(x)
             m == L(y)
  <2>1. w \in Nat /\ v \in Nat /\ l \in Nat /\ m \in Nat /\ m < K /\ K \in Nat
    BY <1>1, <1>2
  <2>2. v < w \/ (v <= w /\ m < l)
    BY <1>5
  <2>3. Measure(graph, x) = K * w + l /\ Measure(graph, y) = K * v + m
    BY <1>3
  <2> HIDE DEF w, v, l, m, K
  <2>4. K * v + m < K * w + l
    BY <2>1, <2>2, MeasureIsLexical
  <2> QED
    BY <2>3, <2>4
<1> HIDE DEF K, L
<1>6. Passed(x) \in Places(graph) /\ Measure(graph, Passed(x)) < Measure(graph, x)
  <2>1. Passed(x) \in Places(graph) /\ W(Passed(x)) = W(x)
    BY <1>1 DEF Passed, Places
  <2> HIDE DEF W
  <2>2. Cardinality(W(Passed(x))) <= Cardinality(W(x))
    BY <1>2, <2>1
  <2> QED
    BY <1>4, <1>5, <2>1, <2>2
<1>7. ASSUME x[1][n] = "white"
      PROVE  /\ Below(graph, x) \in Places(graph)
             /\ Measure(graph, Below(graph, x)) < Measure(graph, x)
             /\ W(Below(graph, x)) \subseteq W(x)
  <2> DEFINE c == [x[1] EXCEPT ![n] = "grey"]
  <2>1. c \in Colourings(graph)
    BY <1>1 DEF Colourings, Colours
  <2>2. graph[n] \in SUBSET N
    BY <1>1 DEF IsGraph
  <2>3. Below(graph, x) = <<c, graph[n]>>
    BY DEF Below
  <2>4. Those("white", c) = Those("white", x[1]) \ {n} /\ n \in Those("white", x[1])
    BY <1>1, <1>7 DEF Those, Colourings
  <2> HIDE DEF c, N, n
  <2>5. Below(graph, x) \in Places(graph)
    BY <2>1, <2>2, <2>3 DEF Places, N
  <2>6. W(Below(graph, x)) = W(x) \ {n} /\ n \in W(x)
    BY <2>3, <2>4
  <2> HIDE DEF W
  <2>7. Cardinality(W(Below(graph, x))) = Cardinality(W(x)) - 1
    BY <1>2, <2>6, FS_RemoveElement
  <2>8. Cardinality(W(Below(graph, x))) < Cardinality(W(x))
    BY <1>2, <2>7
  <2> QED
    BY <1>5, <2>5, <2>6, <2>8
<1>8. ASSUME NEW c \in Colourings(graph), Those("white", c) \subseteq Those("white", x[1])
      PROVE  /\ After(c, x) \in Places(graph)
             /\ Measure(graph, After(c, x)) < Measure(graph, x)
             /\ W(After(c, x)) \subseteq W(x)
  <2> DEFINE e == [c EXCEPT ![n] = "black"]
  <2>1. e \in Colourings(graph)
    BY <1>1 DEF Colourings, Colours
  <2>2. After(c, x) = <<e, x[2] \ {n}>>
    BY DEF After
  <2>3. Those("white", e) \subseteq Those("white", c)
    <3>1. ASSUME NEW m \in Those("white", e) PROVE m \in Those("white", c)
      <4>1. m \in DOMAIN c /\ e[m] = "white"
        BY <3>1 DEF Those
      <4>2. c[m] = "white"
        BY <4>1
      <4> QED
        BY <4>1, <4>2 DEF Those
    <3> QED
      BY <3>1
  <2>4. After(c, x) \in Places(graph)
    <3>1. x[2] \ {n} \in SUBSET N
      BY <1>1
    <3> HIDE DEF e, n
    <3> QED
      BY <2>1, <2>2, <3>1 DEF Places
  <2>5. W(After(c, x)) \subseteq W(x)
    <3>1. After(c, x)[1] = e
      BY <2>2
    <3> HIDE DEF e
    <3> QED
      BY <1>8, <2>3, <3>1
  <2> HIDE DEF W, e
  <2>6. Cardinality(W(After(c, x))) <= Cardinality(W(x))
    BY <1>2, <2>5, FS_Subset
  <2> QED
    BY <1>4, <1>5, <2>4, <2>5, <2>6
<1> QED
  BY <1>6, <1>7, <1>8

LEMMA LeastPlace ==
  ASSUME NEW graph, IsGraph(graph), NEW S \in SUBSET Places(graph), S # {}
  PROVE  \E x \in S : \A y \in Places(graph) : Measure(graph, y) < Measure(graph, x) => y \notin S
<1> DEFINE M == {Measure(graph, x) : x \in S}
<1>1. \A x \in Places(graph) : Measure(graph, x) \in Nat
  BY PlaceParts
<1>2. M \in SUBSET Nat /\ M # {}
  BY <1>1
<1>3. PICK k \in M : \A l \in M : k <= l
  <2> HIDE DEF M
  <2> QED
    BY <1>2, LeastNumber
<1>4. PICK x \in S : Measure(graph, x) = k
  BY <1>3
<1>5. ASSUME NEW y \in Places(graph), Measure(graph, y) < Measure(graph, x) PROVE y \notin S
  <2> SUFFICES ASSUME y \in S PROVE FALSE
    OBVIOUS
  <2>1. Measure(graph, y) \in M /\ k \in Nat /\ Measure(graph, y) \in Nat
    BY <1>1, <1>2, <1>3
  <2> HIDE DEF M
  <2> QED
    BY <1>3, <1>4, <1>5, <2>1
<1> QED
  BY <1>5

\* the walk from the places that are not too far from its end
IsWalk(graph, m, f) ==
  \A x \in Places(graph) : Measure(graph, x) < m => f[x] = Visit(graph, x, f)

Narrows(graph, f, x) ==
  f[x][1] \in Colourings(graph) /\ Those("white", f[x][1]) \subseteq Those("white", x[1])

LEMMA VisitCases ==
  ASSUME NEW graph, IsGraph(graph), NEW x \in Places(graph), NEW f
  PROVE  \/ x[2] = {} /\ Visit(graph, x, f) = <<x[1], FALSE>>
         \/ /\ x[2] # {} /\ x[1][First(x)] = "grey"
            /\ Visit(graph, x, f) = <<x[1], TRUE>>
         \/ /\ x[2] # {} /\ x[1][First(x)] = "black"
            /\ Visit(graph, x, f) = f[Passed(x)]
         \/ /\ x[2] # {} /\ x[1][First(x)] = "white"
            /\ Visit(graph, x, f) = IF f[Below(graph, x)][2] THEN f[Below(graph, x)]
                                    ELSE f[After(f[Below(graph, x)][1], x)]
<1>1. x[2] # {} => x[1][First(x)] \in {"white", "grey", "black"}
  BY PlaceParts DEF Colours
<1> DEFINE colour == x[1][First(x)]
<1>2. x[2] # {} => colour \in {"white", "grey", "black"}
  BY <1>1
<1>3. Visit(graph, x, f) =
        IF x[2] = {} THEN <<x[1], FALSE>>
        ELSE CASE colour = "grey"  -> <<x[1], TRUE>>
               [] colour = "black" -> f[Passed(x)]
               [] colour = "white" ->
                    IF f[Below(graph, x)][2] THEN f[Below(graph, x)]
                    ELSE f[After(f[Below(graph, x)][1], x)]
  BY DEF Visit
<1> DEFINE inner == IF f[Below(graph, x)][2] THEN f[Below(graph, x)]
                    ELSE f[After(f[Below(graph, x)][1], x)]
<1>4. Visit(graph, x, f) =
        IF x[2] = {} THEN <<x[1], FALSE>>
        ELSE CASE colour = "grey"  -> <<x[1], TRUE>>
               [] colour = "black" -> f[Passed(x)]
               [] colour = "white" -> inner
  BY <1>3
<1> HIDE DEF inner, colour
<1>5. \/ x[2] = {} /\ Visit(graph, x, f) = <<x[1], FALSE>>
      \/ x[2] # {} /\ colour = "grey" /\ Visit(graph, x, f) = <<x[1], TRUE>>
      \/ x[2] # {} /\ colour = "black" /\ Visit(graph, x, f) = f[Passed(x)]
      \/ x[2] # {} /\ colour = "white" /\ Visit(graph, x, f) = inner
  BY <1>2, <1>4
<1> QED
  BY <1>5 DEF inner, colour

LEMMA VisitByColour ==
  ASSUME NEW graph, IsGraph(graph), NEW x \in Places(graph), NEW f
  PROVE  LET colour == x[1][First(x)]
             below  == f[Below(graph, x)]
             visit  == Visit(graph, x, f)
         IN /\ x[2] = {} => visit = <<x[1], FALSE>>
            /\ x[2] # {} =>
                 /\ colour \in {"white", "grey", "black"}
                 /\ colour = "grey"  => visit = <<x[1], TRUE>>
                 /\ colour = "black" => visit = f[Passed(x)]
                 /\ colour = "white" =>
                      /\ below[2] => visit = below
                      /\ ~below[2] => visit = f[After(below[1], x)]
<1> DEFINE colour == x[1][First(x)]
           below  == f[Below(graph, x)]
           after  == f[After(below[1], x)]
           visit  == Visit(graph, x, f)
<1>1. \/ x[2] = {} /\ visit = <<x[1], FALSE>>
      \/ x[2] # {} /\ colour = "grey" /\ visit = <<x[1], TRUE>>
      \/ x[2] # {} /\ colour = "black" /\ visit = f[Passed(x)]
      \/ x[2] # {} /\ colour = "white" /\ visit = IF below[2] THEN below ELSE after
  BY VisitCases, Zenon
<1> HIDE DEF colour, below, after, visit
<1>2. /\ x[2] = {} => visit = <<x[1], FALSE>>
      /\ x[2] # {} =>
           /\ colour \in {"white", "grey", "black"}
           /\ colour = "grey"  => visit = <<x[1], TRUE>>
           /\ colour = "black" => visit = f[Passed(x)]
           /\ colour = "white" => /\ below[2] => visit = below
                                  /\ ~below[2] => visit = after
  BY <1>1
<1> QED
  BY <1>2, Zenon DEF colour, below, after, visit

\* The walk leaves no node white that was not.
LEMMA WalkColoursNodes ==
  ASSUME NEW graph, IsGraph(graph), NEW m \in Nat, NEW f, IsWalk(graph, m, f)
  PROVE  \A x \in Places(graph) : Measure(graph, x) < m => Narrows(graph, f, x)
<1> DEFINE S == {x \in Places(graph) : Measure(graph, x) < m /\ ~Narrows(graph, f, x)}
<1> SUFFICES ASSUME S # {} PROVE FALSE
  OBVIOUS
<1>1. PICK x \in S : \A y \in Places(graph) : Measure(graph, y) < Measure(graph, x) => y \notin S
  <2>1. S \in SUBSET Places(graph)
    OBVIOUS
  <2> HIDE DEF S
  <2> QED
    BY <2>1, LeastPlace
<1>2. x \in Places(graph) /\ Measure(graph, x) < m /\ ~Narrows(graph, f, x)
  BY <1>1
<1>3. \A y \in Places(graph) : Measure(graph, y) \in Nat
  BY PlaceParts
<1>4. ASSUME NEW y \in Places(graph), Measure(graph, y) < Measure(graph, x)
      PROVE  Narrows(graph, f, y)
  <2>1. Measure(graph, y) < m
    BY <1>2, <1>3, <1>4
  <2>2. y \notin S
    BY <1>1, <1>4
  <2> QED
    BY <2>1, <2>2
<1> HIDE DEF S
<1>5. f[x] = Visit(graph, x, f)
  BY <1>2 DEF IsWalk
<1>6. x[1] \in Colourings(graph)
  BY <1>2, PlaceParts
<1>7. CASE f[x][1] = x[1]
  BY <1>2, <1>6, <1>7 DEF Narrows
<1>8. CASE x[2] # {} /\ f[x] = f[Passed(x)]
  <2>1. Passed(x) \in Places(graph) /\ Measure(graph, Passed(x)) < Measure(graph, x)
    BY <1>2, <1>8, WalkNarrows
  <2>2. Narrows(graph, f, Passed(x)) /\ Passed(x)[1] = x[1]
    BY <1>4, <2>1 DEF Passed
  <2> QED
    BY <1>2, <1>8, <2>2 DEF Narrows
<1>9. CASE /\ x[2] # {} /\ x[1][First(x)] = "white"
           /\ f[x] = f[Below(graph, x)] \/ f[x] = f[After(f[Below(graph, x)][1], x)]
  <2> DEFINE y == Below(graph, x)
             c == f[y][1]
             z == After(c, x)
  <2>1. /\ y \in Places(graph) /\ Measure(graph, y) < Measure(graph, x)
        /\ Those("white", y[1]) \subseteq Those("white", x[1])
    BY <1>2, <1>9, WalkNarrows
  <2>2. Narrows(graph, f, y)
    BY <1>4, <2>1
  <2>3. c \in Colourings(graph) /\ Those("white", c) \subseteq Those("white", x[1])
    BY <2>1, <2>2 DEF Narrows
  <2> HIDE DEF y, c
  <2>4. /\ z \in Places(graph) /\ Measure(graph, z) < Measure(graph, x)
        /\ Those("white", z[1]) \subseteq Those("white", x[1])
    BY <1>2, <1>9, <2>3, WalkNarrows
  <2>5. Narrows(graph, f, z)
    BY <1>4, <2>4
  <2> HIDE DEF z
  <2>6. f[x] = f[y] \/ f[x] = f[z]
    BY <1>9 DEF y, c, z
  <2> QED
    BY <1>2, <2>1, <2>2, <2>4, <2>5, <2>6 DEF Narrows
<1>10. f[x][1] = x[1] \/ (x[2] # {} /\ f[x] = f[Passed(x)])
       \/ /\ x[2] # {} /\ x[1][First(x)] = "white"
          /\ f[x] = f[Below(graph, x)] \/ f[x] = f[After(f[Below(graph, x)][1], x)]
  <2> DEFINE colour == x[1][First(x)]
             b == f[Below(graph, x)]
             a == f[After(b[1], x)]
             here == x[1]
  <2>1. /\ x[2] = {} => f[x] = <<here, FALSE>>
        /\ x[2] # {} =>
             /\ colour \in {"white", "grey", "black"}
             /\ colour = "grey"  => f[x] = <<here, TRUE>>
             /\ colour = "black" => f[x] = f[Passed(x)]
             /\ colour = "white" => (b[2] => f[x] = b) /\ (~b[2] => f[x] = a)
    BY <1>2, <1>5, VisitByColour, Zenon
  <2> HIDE DEF colour, b, a, here
  <2>2. f[x] = <<here, FALSE>> \/ f[x] = <<here, TRUE>> => f[x][1] = here
    <3>1. <<here, FALSE>>[1] = here /\ <<here, TRUE>>[1] = here
      OBVIOUS
    <3> QED
      BY <3>1, Zenon
  <2>3. \/ f[x][1] = here
        \/ x[2] # {} /\ f[x] = f[Passed(x)]
        \/ x[2] # {} /\ colour = "white" /\ (f[x] = b \/ f[x] = a)
    BY <2>1, <2>2
  <2> QED
    BY <2>3, Zenon DEF colour, b, a, here
<1> QED
  BY <1>7, <1>8, <1>9, <1>10

\* A step of the walk depends on where it leads from the places after it.
LEMMA VisitLooksAhead ==
  ASSUME NEW graph, IsGraph(graph), NEW x \in Places(graph), NEW f, NEW g,
         \A y \in Places(graph) : Measure(graph, y) < Measure(graph, x) =>
            f[y] = g[y] /\ Narrows(graph, f, y)
  PROVE  Visit(graph, x, f) = Visit(graph, x, g)
<1>1. CASE x[2] = {}
  BY <1>1 DEF Visit
<1>2. CASE x[2] # {}
  <2>1. f[Passed(x)] = g[Passed(x)]
    BY <1>2, WalkNarrows
  <2>2. x[1][First(x)] = "white" =>
          /\ f[Below(graph, x)] = g[Below(graph, x)]
          /\ f[After(f[Below(graph, x)][1], x)] = g[After(f[Below(graph, x)][1], x)]
    <3> SUFFICES ASSUME x[1][First(x)] = "white"
                 PROVE  /\ f[Below(graph, x)] = g[Below(graph, x)]
                        /\ f[After(f[Below(graph, x)][1], x)] = g[After(f[Below(graph, x)][1], x)]
      OBVIOUS
    <3> DEFINE y == Below(graph, x)
               c == f[y][1]
               z == After(c, x)
    <3>1. /\ y \in Places(graph) /\ Measure(graph, y) < Measure(graph, x)
          /\ Those("white", y[1]) \subseteq Those("white", x[1])
      BY <1>2, WalkNarrows
    <3>2. f[y] = g[y] /\ Narrows(graph, f, y)
      BY <3>1
    <3>3. c \in Colourings(graph) /\ Those("white", c) \subseteq Those("white", x[1])
      BY <3>1, <3>2 DEF Narrows
    <3> HIDE DEF y, c
    <3>4. z \in Places(graph) /\ Measure(graph, z) < Measure(graph, x)
      BY <1>2, <3>3, WalkNarrows
    <3>5. f[z] = g[z]
      BY <3>4
    <3> QED
      BY <3>2, <3>5 DEF y, c, z
  <2> DEFINE colour == x[1][First(x)]
             b(k) == k[Below(graph, x)]
             a(k) == k[After(b(k)[1], x)]
  <2>3. ASSUME NEW k
        PROVE  /\ colour \in {"white", "grey", "black"}
               /\ colour = "grey"  => Visit(graph, x, k) = <<x[1], TRUE>>
               /\ colour = "black" => Visit(graph, x, k) = k[Passed(x)]
               /\ colour = "white" => /\ b(k)[2] => Visit(graph, x, k) = b(k)
                                      /\ ~b(k)[2] => Visit(graph, x, k) = a(k)
    BY <1>2, VisitByColour, Zenon
  <2>4. CASE colour = "grey"
    BY <2>3, <2>4, Zenon
  <2>5. CASE colour = "black"
    BY <2>1, <2>3, <2>5, Zenon
  <2>6. CASE colour = "white"
    <3>1. b(f) = b(g) /\ a(f) = a(g)
      BY <2>2, <2>6, Zenon
    <3>2. /\ b(f)[2] => Visit(graph, x, f) = b(f)
          /\ ~b(f)[2] => Visit(graph, x, f) = a(f)
          /\ b(g)[2] => Visit(graph, x, g) = b(g)
          /\ ~b(g)[2] => Visit(graph, x, g) = a(g)
      BY <2>3, <2>6, Zenon
    <3> HIDE DEF a, b
    <3> QED
      BY <3>1, <3>2, Zenon
  <2>7. colour \in {"white", "grey", "black"}
    BY <2>3
  <2> HIDE DEF colour
  <2> QED
    BY <2>4, <2>5, <2>6, <2>7
<1> QED
  BY <1>1, <1>2

LEMMA WalkIsDefinedTo ==
  ASSUME NEW graph, IsGraph(graph), NEW M \in Nat
  PROVE  \E f : DOMAIN f = Places(graph) /\ IsWalk(graph, M, f)
<1> DEFINE S == {m \in Nat : ~ \E f : DOMAIN f = Places(graph) /\ IsWalk(graph, m, f)}
<1> SUFFICES ASSUME S # {} PROVE FALSE
  OBVIOUS
<1>1. PICK m \in S : \A k \in S : m <= k
  <2>1. S \in SUBSET Nat
    OBVIOUS
  <2> HIDE DEF S
  <2> QED
    BY <2>1, LeastNumber
<1>2. m \in Nat /\ ~ \E f : DOMAIN f = Places(graph) /\ IsWalk(graph, m, f)
  BY <1>1
<1>3. \A y \in Places(graph) : Measure(graph, y) \in Nat
  BY PlaceParts
<1>4. m # 0
  <2> SUFFICES ASSUME m = 0 PROVE FALSE
    OBVIOUS
  <2>1. \A x \in Places(graph) : ~(Measure(graph, x) < 0)
    BY <1>3
  <2>2. IsWalk(graph, 0, [x \in Places(graph) |-> 0])
    BY <2>1, Zenon DEF IsWalk
  <2> QED
    BY <1>2, <2>2
<1>5. m - 1 \in Nat /\ m - 1 \notin S
  <2>1. m - 1 \in Nat /\ ~(m <= m - 1)
    BY <1>2, <1>4
  <2> HIDE DEF S
  <2> QED
    BY <1>1, <2>1
<1>6. PICK g : IsWalk(graph, m - 1, g)
  BY <1>5
<1> HIDE DEF S
<1>7. \A x \in Places(graph) : Measure(graph, x) < m - 1 => Narrows(graph, g, x)
  BY <1>5, <1>6, WalkColoursNodes
<1> DEFINE h == [x \in Places(graph) |-> Visit(graph, x, g)]
<1>8. \A x \in Places(graph) : h[x] = Visit(graph, x, g)
  OBVIOUS
<1>9. DOMAIN h = Places(graph)
  OBVIOUS
<1> HIDE DEF h
<1>10. ASSUME NEW x \in Places(graph), Measure(graph, x) < m
       PROVE  h[x] = Visit(graph, x, h)
  <2>1. ASSUME NEW y \in Places(graph), Measure(graph, y) < Measure(graph, x)
        PROVE  g[y] = h[y] /\ Narrows(graph, g, y)
    <3>1. Measure(graph, y) < m - 1
      BY <1>2, <1>3, <1>10, <2>1
    <3>2. g[y] = Visit(graph, y, g)
      BY <1>6, <3>1 DEF IsWalk
    <3> QED
      BY <1>7, <1>8, <3>1, <3>2
  <2>2. Visit(graph, x, g) = Visit(graph, x, h)
    BY <2>1, VisitLooksAhead
  <2> QED
    BY <1>8, <2>2
<1>11. IsWalk(graph, m, h)
  BY <1>10 DEF IsWalk
<1> QED
  BY <1>2, <1>9, <1>11

LEMMA MeasureIsBounded ==
  ASSUME NEW graph, IsGraph(graph)
  PROVE  \E M \in Nat : \A x \in Places(graph) : Measure(graph, x) < M
<1> DEFINE n == Cardinality(DOMAIN graph)
           K == n + 1
<1>1. n \in Nat
  BY FS_CardinalityType DEF IsGraph
<1>2. ASSUME NEW x \in Places(graph)
      PROVE  Measure(graph, x) < K * n + K
  <2> DEFINE v == Cardinality(Those("white", x[1]))
             m == Cardinality(x[2])
  <2>1. v \in Nat /\ m \in Nat /\ v <= n /\ m < K /\ Measure(graph, x) = K * v + m
    BY PlaceParts DEF Measure
  <2>2. K \in Nat
    BY <1>1
  <2> HIDE DEF K, n, v, m
  <2>3. K * v + m < K * n + K
    BY <1>1, <2>1, <2>2, MeasureIsLexical
  <2> QED
    BY <2>1, <2>3
<1>3. K * n + K \in Nat
  <2>1. K \in Nat
    BY <1>1
  <2> HIDE DEF K, n
  <2>2. K * n \in Nat
    BY <1>1, <2>1
  <2> DEFINE p == K * n
  <2>3. p \in Nat
    BY <2>2
  <2> HIDE DEF p
  <2>4. p + K \in Nat
    BY <2>1, <2>3
  <2> QED
    BY <2>4 DEF p
<1> QED
  BY <1>2, <1>3

LEMMA WalkIsDefined ==
  ASSUME NEW graph, IsGraph(graph)
  PROVE  \A x \in Places(graph) :
            /\ Walk(graph)[x] = Visit(graph, x, Walk(graph))
            /\ Narrows(graph, Walk(graph), x)
<1>1. Walk(graph) = CHOOSE f : f = [x \in Places(graph) |-> Visit(graph, x, f)]
  BY Zenon DEF Walk, Places, Colourings, Colours, Visit, Below, Passed, After, First
<1>2. PICK M \in Nat : \A x \in Places(graph) : Measure(graph, x) < M
  BY MeasureIsBounded
<1>3. PICK g : DOMAIN g = Places(graph) /\ IsWalk(graph, M, g)
  BY WalkIsDefinedTo
<1> DEFINE h == [x \in Places(graph) |-> g[x]]
<1>4. h = [x \in Places(graph) |-> Visit(graph, x, h)]
  <2>1. \A x \in Places(graph) : g[x] = Visit(graph, x, g) /\ Narrows(graph, g, x)
    BY <1>2, <1>3, WalkColoursNodes DEF IsWalk
  <2>2. \A x \in Places(graph) : g[x] = h[x]
    OBVIOUS
  <2> HIDE DEF h
  <2>3. \A x \in Places(graph) : Visit(graph, x, g) = Visit(graph, x, h)
    BY <2>1, <2>2, VisitLooksAhead
  <2>4. \A x \in Places(graph) : g[x] = Visit(graph, x, h)
    BY <2>1, <2>3
  <2> QED
    BY <2>4 DEF h
<1> HIDE DEF h
<1>5. Walk(graph) = [x \in Places(graph) |-> Visit(graph, x, Walk(graph))]
  BY <1>1, <1>4
<1>6. \A x \in Places(graph) : Walk(graph)[x] = Visit(graph, x, Walk(graph))
  BY <1>5, Zenon
<1>7. IsWalk(graph, M, Walk(graph))
  BY <1>6 DEF IsWalk
<1>8. \A x \in Places(graph) : Narrows(graph, Walk(graph), x)
  BY <1>2, <1>7, WalkColoursNodes
<1> QED
  BY <1>6, <1>8

\* the nodes that are done, each after all it depends on
RanksDone(graph, c, rank) ==
  /\ rank \in [Those("black", c) -> 1..Cardinality(Those("black", c))]
  /\ \A n \in Those("black", c) : \A d \in graph[n] :
        d \in Those("black", c) /\ rank[d] < rank[n]

Rankable(graph, c) == \E rank : RanksDone(graph, c, rank)

LEMMA NodesAreRanked ==
  ASSUME NEW graph, IsGraph(graph), NEW c \in Colourings(graph), Rankable(graph, c),
         NEW n \in DOMAIN graph, c[n] # "black", graph[n] \subseteq Those("black", c)
  PROVE  Rankable(graph, [c EXCEPT ![n] = "black"])
<1> DEFINE e == [c EXCEPT ![n] = "black"]
           B == Those("black", c)
           k == Cardinality(B)
<1>1. PICK rank : RanksDone(graph, c, rank)
  BY DEF Rankable
<1>2. DOMAIN c = DOMAIN graph
  BY DEF Colourings
<1>3. Those("black", e) = B \cup {n} /\ n \notin B
  BY <1>2 DEF Those
<1>4. IsFiniteSet(B) /\ k \in Nat
  <2>1. B \in SUBSET DOMAIN graph
    BY <1>2 DEF Those
  <2> HIDE DEF B
  <2> QED
    BY <2>1, FS_Subset, FS_CardinalityType DEF IsGraph
<1> DEFINE next == [m \in B \cup {n} |-> IF m = n THEN k + 1 ELSE rank[m]]
<1> HIDE DEF B, e
<1>5. Cardinality(Those("black", e)) = k + 1
  BY <1>3, <1>4, FS_AddElement
<1>6. /\ rank \in [B -> 1..k]
      /\ \A m \in B : \A d \in graph[m] : d \in B /\ rank[d] < rank[m]
  BY <1>1 DEF RanksDone, B
<1> HIDE DEF k
<1>7. next \in [B \cup {n} -> 1..(k + 1)]
  BY <1>3, <1>4, <1>6
<1>8. next[n] = k + 1 /\ \A m \in B : next[m] = rank[m] /\ rank[m] \in 1..k
  BY <1>3, <1>6
<1> HIDE DEF next
<1>9. ASSUME NEW m \in B \cup {n}, NEW d \in graph[m]
      PROVE  d \in B \cup {n} /\ next[d] < next[m]
  <2>1. CASE m = n
    <3>1. d \in B
      BY <1>9, <2>1 DEF B
    <3>2. next[d] \in 1..k
      BY <1>8, <3>1
    <3> QED
      BY <1>4, <1>8, <2>1, <3>1, <3>2
  <2>2. CASE m # n
    BY <1>6, <1>8, <1>9, <2>2
  <2> QED
    BY <2>1, <2>2
<1>10. RanksDone(graph, e, next)
  BY <1>3, <1>5, <1>7, <1>9 DEF RanksDone
<1> QED
  BY <1>10 DEF Rankable, e

\* what the walk has done when it returns without a back edge
Finishes(graph, x, result) ==
  /\ Those("grey", result[1]) = Those("grey", x[1])
  /\ Those("black", x[1]) \cup x[2] \subseteq Those("black", result[1])
  /\ Rankable(graph, x[1]) => Rankable(graph, result[1])

\* Without a back edge all nodes are done in the end.
LEMMA WalkFinishes ==
  ASSUME NEW graph, IsGraph(graph)
  PROVE  \A x \in Places(graph) :
            ~Walk(graph)[x][2] => Finishes(graph, x, Walk(graph)[x])
<1> DEFINE f == Walk(graph)
           S == {x \in Places(graph) : ~f[x][2] /\ ~Finishes(graph, x, f[x])}
<1> SUFFICES ASSUME S # {} PROVE FALSE
  OBVIOUS
<1>1. PICK x \in S : \A y \in Places(graph) : Measure(graph, y) < Measure(graph, x) => y \notin S
  <2>1. S \in SUBSET Places(graph)
    OBVIOUS
  <2> HIDE DEF S
  <2> QED
    BY <2>1, LeastPlace
<1>2. x \in Places(graph) /\ ~f[x][2] /\ ~Finishes(graph, x, f[x])
  BY <1>1
<1>3. ASSUME NEW y \in Places(graph), Measure(graph, y) < Measure(graph, x), ~f[y][2]
      PROVE  Finishes(graph, y, f[y])
  BY <1>1, <1>3
<1> HIDE DEF S
<1>4. f[x] = Visit(graph, x, f)
  BY <1>2, WalkIsDefined
<1>5. \A y \in Places(graph) : Narrows(graph, f, y)
  BY WalkIsDefined
<1> HIDE DEF f
<1>6. CASE x[2] = {}
  <2>1. f[x][1] = x[1]
    BY <1>4, <1>6 DEF Visit
  <2> QED
    BY <1>2, <1>6, <2>1 DEF Finishes
<1>7. CASE x[2] # {}
  <2> DEFINE n == First(x)
  <2>1. /\ n \in x[2] /\ n \in DOMAIN graph /\ x[1] \in Colourings(graph)
        /\ DOMAIN x[1] = DOMAIN graph
    BY <1>2, <1>7, PlaceParts
  <2>2. CASE x[1][n] = "grey"
    <3>1. f[x] = <<x[1], TRUE>>
      BY <1>2, <1>4, <1>7, <2>2, VisitByColour, Zenon
    <3> QED
      BY <1>2, <3>1
  <2>3. CASE x[1][n] = "black"
    <3>1. f[x] = f[Passed(x)]
      BY <1>2, <1>4, <1>7, <2>3, VisitByColour, Zenon
    <3>2. Finishes(graph, Passed(x), f[x])
      BY <1>2, <1>3, <1>7, <3>1, WalkNarrows
    <3>3. Passed(x)[1] = x[1] /\ Passed(x)[2] = x[2] \ {n}
      BY DEF Passed
    <3>4. n \in Those("black", x[1])
      BY <2>1, <2>3 DEF Those
    <3> HIDE DEF n
    <3>5. x[2] \subseteq Those("black", x[1]) \cup (x[2] \ {n})
      BY <3>4
    <3> QED
      BY <1>2, <3>2, <3>3, <3>5 DEF Finishes
  <2>4. CASE x[1][n] = "white"
    <3> DEFINE y == Below(graph, x)
               c == f[y][1]
               z == After(c, x)
    <3>1. (f[y][2] => f[x] = f[y]) /\ (~f[y][2] => f[x] = f[z])
      BY <1>2, <1>4, <1>7, <2>4, VisitByColour, Zenon
    <3>2. /\ y \in Places(graph) /\ Measure(graph, y) < Measure(graph, x)
          /\ Those("white", y[1]) \subseteq Those("white", x[1])
      BY <1>2, <1>7, <2>4, WalkNarrows
    <3>3. c \in Colourings(graph) /\ Those("white", c) \subseteq Those("white", x[1])
      BY <1>5, <3>2 DEF Narrows
    <3> HIDE DEF y, c
    <3>4. z \in Places(graph) /\ Measure(graph, z) < Measure(graph, x)
      BY <1>2, <1>7, <3>3, WalkNarrows
    <3> HIDE DEF z
    <3>5. ~f[y][2] /\ f[x] = f[z]
      <4>1. f[y][2] => f[x] = f[y]
        BY <3>1
      <4>2. ~f[y][2]
        BY <1>2, <4>1
      <4> QED
        BY <3>1, <4>2
    <3>6. Finishes(graph, y, f[y]) /\ Finishes(graph, z, f[x])
      BY <1>2, <1>3, <3>2, <3>4, <3>5
    <3>7. y[1] = [x[1] EXCEPT ![n] = "grey"] /\ y[2] = graph[n]
      BY DEF y, Below
    <3>8. z[1] = [c EXCEPT ![n] = "black"] /\ z[2] = x[2] \ {n}
      BY DEF z, After
    <3> HIDE DEF n
    <3>9. /\ Those("grey", y[1]) = Those("grey", x[1]) \cup {n}
          /\ Those("black", y[1]) = Those("black", x[1])
          /\ n \notin Those("grey", x[1])
      BY <2>1, <2>4, <3>7 DEF Those
    <3>10. /\ Those("grey", c) = Those("grey", x[1]) \cup {n}
           /\ Those("black", x[1]) \cup graph[n] \subseteq Those("black", c)
           /\ Rankable(graph, y[1]) => Rankable(graph, c)
      BY <3>6, <3>7, <3>9, Zenon DEF Finishes, c
    <3>11. DOMAIN c = DOMAIN graph /\ c[n] = "grey"
      <4>1. DOMAIN c = DOMAIN graph
        BY <3>3 DEF Colourings
      <4>2. n \in Those("grey", c)
        BY <3>10
      <4> QED
        BY <4>1, <4>2 DEF Those
    <3>12. /\ Those("grey", z[1]) = Those("grey", x[1])
           /\ Those("black", z[1]) = Those("black", c) \cup {n}
      <4>1. /\ Those("grey", z[1]) = Those("grey", c) \ {n}
            /\ Those("black", z[1]) = Those("black", c) \cup {n}
        BY <2>1, <3>8, <3>11 DEF Those
      <4> QED
        BY <3>9, <3>10, <4>1
    <3>13. Rankable(graph, x[1]) => Rankable(graph, y[1])
      <4> SUFFICES ASSUME NEW rank, RanksDone(graph, x[1], rank) PROVE Rankable(graph, y[1])
        BY DEF Rankable
      <4>1. RanksDone(graph, y[1], rank)
        BY <3>9 DEF RanksDone
      <4> QED
        BY <4>1 DEF Rankable
    <3>14. Rankable(graph, x[1]) => Rankable(graph, z[1])
      <4> SUFFICES ASSUME Rankable(graph, x[1]) PROVE Rankable(graph, z[1])
        OBVIOUS
      <4>1. Rankable(graph, c) /\ graph[n] \subseteq Those("black", c) /\ c[n] # "black"
        BY <3>10, <3>11, <3>13
      <4>2. Rankable(graph, [c EXCEPT ![n] = "black"])
        BY <2>1, <3>3, <4>1, NodesAreRanked
      <4> QED
        BY <3>8, <4>2
    <3>15. /\ Those("grey", f[x][1]) = Those("grey", z[1])
           /\ Those("black", z[1]) \cup z[2] \subseteq Those("black", f[x][1])
           /\ Rankable(graph, z[1]) => Rankable(graph, f[x][1])
      BY <3>6 DEF Finishes
    <3>16. Those("black", x[1]) \cup x[2] \subseteq Those("black", z[1]) \cup z[2]
      BY <3>8, <3>10, <3>12
    <3>17. Finishes(graph, x, f[x])
      BY <3>12, <3>14, <3>15, <3>16 DEF Finishes
    <3> QED
      BY <1>2, <3>17
  <2>5. x[1][n] \in {"white", "grey", "black"}
    BY <2>1 DEF Colourings, Colours
  <2> QED
    BY <2>2, <2>3, <2>4, <2>5
<1> QED
  BY <1>6, <1>7

\* In a graph whose nodes can be ranked the walk finds no back edge: what it still looks
\* at ranks below all nodes on the stack.
LEMMA RankedGraphsHaveNoBackEdge ==
  ASSUME NEW graph, IsGraph(graph), NEW rank \in [DOMAIN graph -> Int],
         \A n \in DOMAIN graph : \A d \in graph[n] : rank[d] < rank[n]
  PROVE  \A x \in Places(graph) :
            (\A g \in Those("grey", x[1]) : \A s \in x[2] : rank[s] < rank[g])
               => ~Walk(graph)[x][2]
<1> DEFINE f == Walk(graph)
           Lower(x) == \A g \in Those("grey", x[1]) : \A s \in x[2] : rank[s] < rank[g]
           S == {x \in Places(graph) : Lower(x) /\ f[x][2]}
<1> SUFFICES ASSUME S # {} PROVE FALSE
  BY Zenon
<1>1. PICK x \in S : \A y \in Places(graph) : Measure(graph, y) < Measure(graph, x) => y \notin S
  <2>1. S \in SUBSET Places(graph)
    OBVIOUS
  <2> HIDE DEF S
  <2> QED
    BY <2>1, LeastPlace
<1>2. x \in Places(graph) /\ Lower(x) /\ f[x][2]
  BY <1>1
<1>3. ASSUME NEW y \in Places(graph), Measure(graph, y) < Measure(graph, x), Lower(y)
      PROVE  ~f[y][2]
  BY <1>1, <1>3
<1> HIDE DEF S
<1>4. f[x] = Visit(graph, x, f)
  BY <1>2, WalkIsDefined
<1>5. \A y \in Places(graph) : Narrows(graph, f, y) /\ (~f[y][2] => Finishes(graph, y, f[y]))
  BY WalkIsDefined, WalkFinishes
<1> HIDE DEF f
<1>6. CASE x[2] = {}
  <2>1. f[x] = <<x[1], FALSE>>
    BY <1>4, <1>6 DEF Visit
  <2> QED
    BY <1>2, <2>1
<1>7. CASE x[2] # {}
  <2> DEFINE n == First(x)
  <2>1. /\ n \in x[2] /\ n \in DOMAIN graph /\ x[1] \in Colourings(graph)
        /\ DOMAIN x[1] = DOMAIN graph /\ x[2] \subseteq DOMAIN graph
    BY <1>2, <1>7, PlaceParts
  <2>2. CASE x[1][n] = "grey"
    <3>1. n \in Those("grey", x[1])
      BY <2>1, <2>2 DEF Those
    <3> HIDE DEF n
    <3>2. rank[n] < rank[n] /\ rank[n] \in Int
      BY <1>2, <2>1, <3>1
    <3> QED
      BY <3>2
  <2>3. CASE x[1][n] = "black"
    <3>1. f[x] = f[Passed(x)]
      BY <1>2, <1>4, <1>7, <2>3, VisitByColour, Zenon
    <3>2. Passed(x) \in Places(graph) /\ Measure(graph, Passed(x)) < Measure(graph, x)
      BY <1>2, <1>7, WalkNarrows
    <3>3. Lower(Passed(x))
      BY <1>2 DEF Passed
    <3> QED
      BY <1>2, <1>3, <3>1, <3>2, <3>3
  <2>4. CASE x[1][n] = "white"
    <3> DEFINE y == Below(graph, x)
               c == f[y][1]
               z == After(c, x)
    <3>1. (f[y][2] => f[x] = f[y]) /\ (~f[y][2] => f[x] = f[z])
      BY <1>2, <1>4, <1>7, <2>4, VisitByColour, Zenon
    <3>2. /\ y \in Places(graph) /\ Measure(graph, y) < Measure(graph, x)
          /\ Those("white", y[1]) \subseteq Those("white", x[1])
      BY <1>2, <1>7, <2>4, WalkNarrows
    <3>3. c \in Colourings(graph) /\ Those("white", c) \subseteq Those("white", x[1])
      BY <1>5, <3>2 DEF Narrows
    <3> HIDE DEF y, c
    <3>4. z \in Places(graph) /\ Measure(graph, z) < Measure(graph, x)
      BY <1>2, <1>7, <3>3, WalkNarrows
    <3> HIDE DEF z
    <3>5. y[1] = [x[1] EXCEPT ![n] = "grey"] /\ y[2] = graph[n]
      BY DEF y, Below
    <3>6. z[1] = [c EXCEPT ![n] = "black"] /\ z[2] = x[2] \ {n}
      BY DEF z, After
    <3> HIDE DEF n
    <3>7. Those("grey", y[1]) = Those("grey", x[1]) \cup {n}
      BY <2>1, <2>4, <3>5 DEF Those
    <3>8. Lower(y)
      <4> SUFFICES ASSUME NEW g \in Those("grey", x[1]) \cup {n}, NEW s \in graph[n]
                   PROVE  rank[s] < rank[g]
        BY <3>5, <3>7
      <4>1. rank[s] < rank[n] /\ s \in DOMAIN graph
        BY <2>1 DEF IsGraph
      <4>2. CASE g = n
        BY <4>1, <4>2
      <4>3. CASE g # n
        <5>1. rank[n] < rank[g] /\ g \in DOMAIN graph
          BY <1>2, <2>1, <4>3 DEF Those
        <5>2. rank[s] \in Int /\ rank[n] \in Int /\ rank[g] \in Int
          BY <2>1, <4>1, <5>1
        <5> QED
          BY <4>1, <5>1, <5>2
      <4> QED
        BY <4>2, <4>3
    <3>9. ~f[y][2]
      BY <1>3, <3>2, <3>8
    <3>10. f[x] = f[z]
      BY <3>1, <3>9
    <3>11. Those("grey", c) = Those("grey", x[1]) \cup {n}
      BY <1>5, <3>2, <3>7, <3>9 DEF Finishes, c
    <3>12. Those("grey", z[1]) \subseteq Those("grey", x[1])
      <4>1. DOMAIN c = DOMAIN graph
        BY <3>3 DEF Colourings
      <4>2. Those("grey", z[1]) = Those("grey", c) \ {n}
        BY <2>1, <3>6, <4>1 DEF Those
      <4> QED
        BY <3>11, <4>2
    <3>13. Lower(z)
      BY <1>2, <3>6, <3>12
    <3> QED
      BY <1>2, <1>3, <3>4, <3>10, <3>13
  <2>5. x[1][n] \in {"white", "grey", "black"}
    BY <2>1 DEF Colourings, Colours
  <2> QED
    BY <2>2, <2>3, <2>4, <2>5
<1> QED
  BY <1>6, <1>7

\* The walk from all nodes finds a back edge exactly if the nodes cannot be ranked.
LEMMA WalkFindsCycles ==
  ASSUME NEW graph, IsGraph(graph)
  PROVE  Walk(graph)[<<[n \in DOMAIN graph |-> "white"], DOMAIN graph>>][2] <=> ~Acyclic(graph)
<1> DEFINE N == DOMAIN graph
           c == [n \in N |-> "white"]
           x == <<c, N>>
           r == Walk(graph)[x]
<1>1. x \in Places(graph)
  BY DEF Places, Colourings, Colours
<1>2. x[1] = c /\ x[2] = N /\ Those("grey", c) = {} /\ Those("black", c) = {}
  BY DEF Those
<1>3. Rankable(graph, c)
  <2>1. RanksDone(graph, c, [n \in {} |-> 0])
    BY <1>2 DEF RanksDone
  <2> QED
    BY <2>1 DEF Rankable
<1> HIDE DEF c
<1>4. ASSUME ~r[2] PROVE Acyclic(graph)
  <2>1. Finishes(graph, x, r)
    BY <1>1, <1>4, WalkFinishes
  <2>2. N \subseteq Those("black", r[1]) /\ Rankable(graph, r[1])
    BY <1>2, <1>3, <2>1 DEF Finishes
  <2>3. Those("black", r[1]) = N
    <3>1. r[1] \in Colourings(graph)
      BY <1>1, WalkIsDefined DEF Narrows
    <3> HIDE DEF r
    <3>2. DOMAIN r[1] = N
      BY <3>1 DEF Colourings
    <3> QED
      BY <2>2, <3>2 DEF Those
  <2>4. PICK rank : RanksDone(graph, r[1], rank)
    BY <2>2 DEF Rankable
  <2> HIDE DEF r
  <2>5. rank \in [N -> 1..Cardinality(N)] /\ \A n \in N : \A d \in graph[n] : rank[d] < rank[n]
    BY <2>3, <2>4 DEF RanksDone
  <2> QED
    BY <2>5 DEF Acyclic
<1>5. ASSUME Acyclic(graph) PROVE ~r[2]
  <2>1. PICK rank \in [N -> 1..Cardinality(N)] : \A n \in N : \A d \in graph[n] : rank[d] < rank[n]
    BY <1>5 DEF Acyclic
  <2>2. rank \in [N -> Int]
    <3>1. \A k \in 1..Cardinality(N) : k \in Int
      OBVIOUS
    <3> QED
      BY <2>1, <3>1
  <2>3. \A g \in Those("grey", x[1]) : \A s \in x[2] : rank[s] < rank[g]
    BY <1>2
  <2> HIDE DEF x
  <2> QED
    BY <1>1, <2>1, <2>2, <2>3, RankedGraphsHaveNoBackEdge
<1> QED
  BY <1>4, <1>5 DEF c

LEMMA TemplateGraph ==
  ASSUME NEW t \in Templates
  PROVE  /\ IsGraph(Graph(t)) /\ DOMAIN Graph(t) = DOMAIN t
         /\ Graph(t) = [c \in DOMAIN t |-> JobDeps(t, c)]
         /\ \A c \in DOMAIN t : Graph(t)[c] = JobDeps(t, c)
<1>1. IsFiniteSet(DOMAIN t)
  BY InputsAssumption
<1>2. \A c \in DOMAIN t : ResolvedDeps(t, c) = JobDeps(t, c)
  BY DEF ResolvedDeps, JobDeps
<1>3. \A c \in DOMAIN t : JobDeps(t, c) \in SUBSET DOMAIN t
  BY DEF JobDeps
<1>4. DOMAIN Graph(t) = DOMAIN t /\ \A c \in DOMAIN t : Graph(t)[c] = JobDeps(t, c)
  BY <1>2 DEF Graph
<1>5. Graph(t) = [c \in DOMAIN t |-> JobDeps(t, c)]
  BY <1>2 DEF Graph
<1>6. Graph(t) \in [DOMAIN t -> SUBSET DOMAIN t]
  BY <1>3, <1>5
<1> QED
  BY <1>1, <1>4, <1>5, <1>6 DEF IsGraph

\* Validation reports a cycle exactly if the nodes cannot be ranked.
LEMMA CyclesAreReported ==
  ASSUME NEW t \in Templates
  PROVE  "cycle" \in TemplateErrors(t, PromptKeys, DocTypes) <=> ~Acyclic(Graph(t))
<1>1. HasCycle(t) <=> ~Acyclic(Graph(t))
  BY TemplateGraph, WalkFindsCycles, Zenon DEF HasCycle
<1>2. "cycle" \in TemplateErrors(t, PromptKeys, DocTypes) <=> HasCycle(t)
  <2> DEFINE Found(e) ==
        CASE e = "prompt"     -> ~(DOMAIN t \subseteq PromptKeys)
          [] e = "include_if" -> \E c \in DOMAIN t : t[c].needs \notin DocTypes \cup {None}
          [] e = "self"       -> \E c \in DOMAIN t : c \in t[c].deps
          [] e = "unknown"    -> \E c \in DOMAIN t : ~(t[c].deps \subseteq DOMAIN t)
          [] e = "cycle"      -> HasCycle(t)
  <2>1. TemplateErrors(t, PromptKeys, DocTypes)
          = {e \in {"prompt", "include_if", "self", "unknown", "cycle"} : Found(e)}
    BY DEF TemplateErrors
  <2>2. Found("cycle") = HasCycle(t)
    OBVIOUS
  <2> HIDE DEF Found
  <2> QED
    BY <2>1, <2>2
<1> QED
  BY <1>1, <1>2

\* In an acyclic graph a section of the lowest rank among those to draft is ready.
LEMMA SomeSectionIsReady ==
  ASSUME NEW t \in Templates, Acyclic(Graph(t)), NEW tags, NEW done,
         ToDraft(t, tags, done) # {}
  PROVE  \E c \in DOMAIN t : ReadyToDraft(t, tags, done, c)
<1> DEFINE N == DOMAIN t
           todo == ToDraft(t, tags, done)
<1>1. PICK rank \in [N -> 1..Cardinality(N)] :
             \A c \in N : \A d \in Graph(t)[c] : rank[d] < rank[c]
  BY TemplateGraph DEF Acyclic
<1> DEFINE ranks == {rank[c] : c \in todo}
<1>2. todo \subseteq N
  BY DEF ToDraft
<1>3. \A c \in N : rank[c] \in Nat
  <2>1. \A k \in 1..Cardinality(N) : k \in Nat
    OBVIOUS
  <2> HIDE DEF N
  <2> QED
    BY <1>1, <2>1
<1> HIDE DEF N, todo
<1>4. ranks \in SUBSET Nat /\ ranks # {}
  BY <1>2, <1>3 DEF todo
<1>5. PICK least \in ranks : \A r \in ranks : least <= r
  <2> HIDE DEF ranks
  <2> QED
    BY <1>4, LeastNumber
<1>6. PICK c \in todo : rank[c] = least
  BY <1>5
<1>7. \A d \in todo : rank[c] <= rank[d]
  BY <1>5, <1>6
<1>8. ASSUME NEW d \in Graph(t)[c] PROVE d \in done \cup Skipped(t, tags)
  <2>1. d \in N /\ rank[d] < rank[c]
    BY <1>1, <1>2, <1>6, TemplateGraph DEF IsGraph, N
  <2>2. d \notin todo
    BY <1>2, <1>3, <1>6, <1>7, <2>1
  <2> QED
    BY <2>1, <2>2 DEF ToDraft, todo, N
<1>9. c \in DOMAIN t /\ c \notin done /\ c \notin Skipped(t, tags)
  BY <1>6 DEF todo, ToDraft
<1>10. Graph(t)[c] = JobDeps(t, c)
  BY <1>9, TemplateGraph
<1> QED
  BY <1>8, <1>9, <1>10 DEF ReadyToDraft

-----------------------------------------------------------------------------
(* Sequences that are put one behind the other *)

IsList(s) == Len(s) \in Nat /\ s = [i \in 1..Len(s) |-> s[i]]

LEMMA ListsConcatenate ==
  ASSUME NEW s, NEW t, IsList(s), IsList(t)
  PROVE  /\ IsList(s \o t) /\ Len(s \o t) = Len(s) + Len(t)
         /\ \A i \in 1..Len(s) : (s \o t)[i] = s[i]
         /\ \A i \in 1..Len(t) : (s \o t)[Len(s) + i] = t[i]
<1> DEFINE T == {s[i] : i \in 1..Len(s)} \cup {t[i] : i \in 1..Len(t)}
           u == s \o t
<1>1. s \in Seq(T) /\ t \in Seq(T)
  BY DEF IsList
<1> HIDE DEF T
<1>2. u \in Seq(T) /\ Len(u) = Len(s) + Len(t)
  BY <1>1
<1>3. /\ \A i \in 1..Len(s) : u[i] = s[i]
      /\ \A i \in 1..Len(t) : u[Len(s) + i] = t[i]
  BY <1>1 DEF IsList
<1>4. IsList(u)
  <2> HIDE DEF u
  <2> QED
    BY <1>2 DEF IsList
<1> QED
  BY <1>2, <1>3, <1>4

\* the first n of some sequences, put together
Builds(f, seqs, n) ==
  f = [i \in 1..n |-> IF i = 1 THEN seqs[i] ELSE f[i - 1] \o seqs[i]]

LEMMA BuildingIsDefined ==
  ASSUME NEW seqs, NEW N \in Nat
  PROVE  \E f : Builds(f, seqs, N)
<1> DEFINE S == {n \in Nat : ~ \E f : Builds(f, seqs, n)}
<1> SUFFICES ASSUME S # {} PROVE FALSE
  OBVIOUS
<1>1. PICK n \in S : \A m \in S : n <= m
  <2>1. S \in SUBSET Nat
    OBVIOUS
  <2> HIDE DEF S
  <2> QED
    BY <2>1, LeastNumber
<1>2. n \in Nat /\ ~ \E f : Builds(f, seqs, n)
  BY <1>1
<1>3. CASE n = 0
  <2>1. Builds([i \in 1..0 |-> 0], seqs, 0)
    BY DEF Builds
  <2> QED
    BY <1>2, <1>3, <2>1
<1>4. CASE n # 0
  <2>1. n - 1 \in Nat /\ ~(n <= n - 1)
    BY <1>2, <1>4
  <2>2. n - 1 \notin S
    <3> HIDE DEF S
    <3> QED
      BY <1>1, <2>1
  <2>3. PICK f : Builds(f, seqs, n - 1)
    BY <2>1, <2>2
  <2> DEFINE g == [i \in 1..n |-> IF i = n THEN IF n = 1 THEN seqs[n] ELSE f[n - 1] \o seqs[n]
                                 ELSE f[i]]
  <2>4. \A i \in 1..(n - 1) : f[i] = IF i = 1 THEN seqs[i] ELSE f[i - 1] \o seqs[i]
    BY <2>3, Zenon DEF Builds
  <2>5. ASSUME NEW i \in 1..n PROVE g[i] = IF i = 1 THEN seqs[i] ELSE g[i - 1] \o seqs[i]
    <3>1. i # 1 => g[i - 1] = f[i - 1]
      <4>1. i # 1 => i - 1 \in 1..n /\ i - 1 # n
        BY <1>2
      <4> QED
        BY <4>1
    <3>2. CASE i = n
      BY <3>1, <3>2
    <3>3. CASE i # n
      <4>1. i \in 1..(n - 1)
        BY <1>2, <3>3
      <4>2. g[i] = f[i]
        BY <3>3
      <4> QED
        BY <2>4, <3>1, <4>1, <4>2
    <3> QED
      BY <3>2, <3>3
  <2>6. g = [i \in 1..n |-> g[i]]
    OBVIOUS
  <2> HIDE DEF g
  <2>7. Builds(g, seqs, n)
    BY <2>5, <2>6 DEF Builds
  <2> QED
    BY <1>2, <2>7
<1> QED
  BY <1>3, <1>4

\* FlattenSeq adds one sequence after the other.
LEMMA FlattenBuilds ==
  ASSUME NEW seqs, IsList(seqs), \A k \in 1..Len(seqs) : IsList(seqs[k])
  PROVE  \E f : /\ f[0] = << >> /\ FlattenSeq(seqs) = f[Len(seqs)]
                /\ \A n \in 1..Len(seqs) : f[n] = f[n - 1] \o seqs[n]
<1> DEFINE N == Len(seqs)
<1>1. N \in Nat
  BY DEF IsList
<1>2. CASE N = 0
  <2>1. seqs = << >>
    BY <1>2 DEF IsList
  <2>2. FlattenSeq(seqs) = << >>
    BY <1>2, <2>1 DEF FlattenSeq
  <2> DEFINE f == [i \in {0} |-> << >>]
  <2>3. f[0] = << >> /\ FlattenSeq(seqs) = f[N] /\ \A n \in 1..N : f[n] = f[n - 1] \o seqs[n]
    BY <1>2, <2>2
  <2> QED
    BY <2>3
<1>3. CASE N # 0
  <2> DEFINE g == CHOOSE g : Builds(g, seqs, N)
             f == [i \in 0..N |-> IF i = 0 THEN << >> ELSE g[i]]
  <2>1. FlattenSeq(seqs) = g[N]
    BY <1>3, Zenon DEF FlattenSeq, Builds
  <2>2. Builds(g, seqs, N)
    BY <1>1, BuildingIsDefined
  <2> HIDE DEF g, N
  <2>3. \A i \in 1..N : g[i] = IF i = 1 THEN seqs[i] ELSE g[i - 1] \o seqs[i]
    BY <2>2, Zenon DEF Builds
  <2>4. f[0] = << >> /\ f[N] = g[N] /\ \A i \in 1..N : f[i] = g[i]
    BY <1>1, <1>3
  <2>5. \A i \in 1..N : i # 1 => i - 1 \in 1..N /\ f[i - 1] = g[i - 1]
    BY <1>1
  <2>6. 1 \in 1..N /\ 1 - 1 = 0
    BY <1>1, <1>3
  <2> HIDE DEF f
  <2>7. << >> \o seqs[1] = seqs[1]
    <3>1. IsList(seqs[1])
      BY <2>6 DEF N
    <3> DEFINE s == seqs[1]
               T == {s[i] : i \in 1..Len(s)}
    <3>2. s \in Seq(T)
      BY <3>1 DEF IsList
    <3> HIDE DEF s, T
    <3>3. << >> \o s = s
      BY <3>2
    <3> QED
      BY <3>3 DEF s
  <2>8. ASSUME NEW n \in 1..N PROVE f[n] = f[n - 1] \o seqs[n]
    <3>1. CASE n = 1
      BY <2>3, <2>4, <2>6, <2>7, <3>1
    <3>2. CASE n # 1
      BY <2>3, <2>4, <2>5, <3>2
    <3> QED
      BY <3>1, <3>2
  <2> QED
    BY <2>1, <2>4, <2>8 DEF N
<1> QED
  BY <1>2, <1>3

-----------------------------------------------------------------------------
(* Pages *)

LEMMA ShownLines ==
  ASSUME NEW x, NEW I, ShowsInOrder(x, I)
  PROVE  /\ \A k \in DOMAIN x : \A m \in DOMAIN LinesOf(x[k]) : LinesOf(x[k])[m] \in I
         /\ \A i \in I : \E k \in DOMAIN x : i \in ToSet(LinesOf(x[k]))
<1>1. UNION {ToSet(LinesOf(x[k])) : k \in DOMAIN x} = I
  BY DEF ShowsInOrder
<1>2. ASSUME NEW k \in DOMAIN x, NEW m \in DOMAIN LinesOf(x[k]) PROVE LinesOf(x[k])[m] \in I
  <2>1. LinesOf(x[k])[m] \in ToSet(LinesOf(x[k]))
    BY DEF ToSet
  <2> QED
    BY <1>1, <2>1
<1>3. \A i \in I : \E k \in DOMAIN x : i \in ToSet(LinesOf(x[k]))
  BY <1>1
<1> QED
  BY <1>2, <1>3

LEMMA PagesConcatenate ==
  ASSUME NEW x, NEW y, IsList(x), IsList(y),
         NEW I \in SUBSET Int, NEW J \in SUBSET Int, \A i \in I, j \in J : i < j,
         ShowsInOrder(x, I), ShowsInOrder(y, J)
  PROVE  ShowsInOrder(x \o y, I \cup J)
<1> DEFINE z == x \o y
           N == Len(x)
           shown(k) == LinesOf(z[k])
<1>1. /\ N \in Nat /\ Len(y) \in Nat /\ DOMAIN x = 1..N /\ DOMAIN y = 1..Len(y)
      /\ DOMAIN z = 1..(N + Len(y))
      /\ \A k \in 1..N : z[k] = x[k]
      /\ \A k \in 1..Len(y) : z[N + k] = y[k]
  <2>1. IsList(z) /\ Len(z) = N + Len(y)
    BY ListsConcatenate
  <2>2. DOMAIN z = 1..Len(z)
    <3> HIDE DEF z
    <3> QED
      BY <2>1 DEF IsList
  <2> QED
    BY <2>1, <2>2, ListsConcatenate DEF IsList
<1> HIDE DEF z, N
<1>2. \A k \in DOMAIN z : \/ k \in DOMAIN x /\ z[k] = x[k]
                          \/ /\ k - N \in DOMAIN y /\ z[k] = y[k - N]
                             /\ k \notin DOMAIN x
  <2> TAKE k \in DOMAIN z
  <2>1. CASE k \in 1..N
    BY <1>1, <2>1
  <2>2. CASE k \notin 1..N
    <3>1. k - N \in 1..Len(y) /\ N + (k - N) = k
      BY <1>1, <2>2
    <3>2. z[N + (k - N)] = y[k - N]
      BY <1>1, <3>1
    <3> QED
      BY <1>1, <2>2, <3>1, <3>2
  <2> QED
    BY <2>1, <2>2
<1>3. /\ \A k \in DOMAIN x : k \in DOMAIN z /\ z[k] = x[k]
      /\ \A k \in DOMAIN y : N + k \in DOMAIN z /\ z[N + k] = y[k]
  <2>1. \A k \in 1..N : k \in 1..(N + Len(y))
    BY <1>1
  <2>2. \A k \in 1..Len(y) : N + k \in 1..(N + Len(y))
    BY <1>1
  <2> QED
    BY <1>1, <2>1, <2>2
<1>4. /\ \A k \in DOMAIN x : \A m \in DOMAIN LinesOf(x[k]) : LinesOf(x[k])[m] \in I
      /\ \A k \in DOMAIN y : \A m \in DOMAIN LinesOf(y[k]) : LinesOf(y[k])[m] \in J
      /\ \A i \in I : \E k \in DOMAIN x : i \in ToSet(LinesOf(x[k]))
      /\ \A i \in J : \E k \in DOMAIN y : i \in ToSet(LinesOf(y[k]))
  BY ShownLines
<1>5. UNION {ToSet(LinesOf(z[k])) : k \in DOMAIN z} = I \cup J
  <2>1. ASSUME NEW k \in DOMAIN z, NEW i \in ToSet(LinesOf(z[k])) PROVE i \in I \cup J
    <3>1. PICK m \in DOMAIN LinesOf(z[k]) : i = LinesOf(z[k])[m]
      BY <2>1 DEF ToSet
    <3>2. CASE k \in DOMAIN x /\ z[k] = x[k]
      BY <1>4, <3>1, <3>2
    <3>3. CASE k - N \in DOMAIN y /\ z[k] = y[k - N]
      BY <1>4, <3>1, <3>3
    <3> QED
      BY <1>2, <3>2, <3>3
  <2>2. ASSUME NEW i \in I PROVE \E k \in DOMAIN z : i \in ToSet(LinesOf(z[k]))
    BY <1>3, <1>4, Zenon
  <2>3. ASSUME NEW i \in J PROVE \E k \in DOMAIN z : i \in ToSet(LinesOf(z[k]))
    BY <1>3, <1>4, Zenon
  <2> QED
    BY <2>1, <2>2, <2>3, Zenon
<1>6. ASSUME NEW k \in DOMAIN z, NEW l \in DOMAIN z,
             NEW m \in DOMAIN LinesOf(z[k]), NEW n \in DOMAIN LinesOf(z[l]),
             k < l \/ (k = l /\ m < n)
      PROVE  LinesOf(z[k])[m] < LinesOf(z[l])[n]
  <2>1. k \in Int /\ l \in Int /\ N \in Int
    BY <1>1
  <2>2. CASE k \in DOMAIN x /\ l \in DOMAIN x
    <3>1. z[k] = x[k] /\ z[l] = x[l]
      BY <1>3, <2>2
    <3> QED
      BY <1>6, <2>2, <3>1 DEF ShowsInOrder
  <2>3. CASE k \in DOMAIN x /\ l \notin DOMAIN x
    <3>1. z[k] = x[k] /\ l - N \in DOMAIN y /\ z[l] = y[l - N]
      BY <1>2, <2>3
    <3>2. LinesOf(z[k])[m] \in I /\ LinesOf(z[l])[n] \in J
      BY <1>4, <1>6, <2>3, <3>1
    <3> QED
      BY <3>2
  <2>4. CASE k \notin DOMAIN x
    <3>1. l \notin DOMAIN x
      BY <1>1, <1>6, <2>1, <2>4
    <3>2. k - N \in DOMAIN y /\ z[k] = y[k - N] /\ l - N \in DOMAIN y /\ z[l] = y[l - N]
      BY <1>2, <2>4, <3>1
    <3>3. k - N < l - N \/ (k - N = l - N /\ m < n)
      BY <1>6, <2>1
    <3> QED
      BY <1>6, <3>2, <3>3, Zenon DEF ShowsInOrder
  <2> QED
    BY <2>2, <2>3, <2>4
<1>7. ShowsInOrder(z, I \cup J)
  BY <1>5, <1>6 DEF ShowsInOrder
<1> QED
  BY <1>7 DEF z

\* what holds of every piece of two pages holds of every piece when they are put together
LEMMA PiecesConcatenate ==
  ASSUME NEW x, NEW y, IsList(x), IsList(y)
  PROVE  \A k \in DOMAIN (x \o y) :
            \/ k \in DOMAIN x /\ (x \o y)[k] = x[k]
            \/ k - Len(x) \in DOMAIN y /\ (x \o y)[k] = y[k - Len(x)]
<1> DEFINE z == x \o y
           N == Len(x)
<1>1. /\ N \in Nat /\ Len(y) \in Nat /\ DOMAIN x = 1..N /\ DOMAIN y = 1..Len(y)
      /\ IsList(z) /\ Len(z) = N + Len(y)
      /\ \A k \in 1..N : z[k] = x[k]
      /\ \A k \in 1..Len(y) : z[N + k] = y[k]
  BY ListsConcatenate DEF IsList
<1> HIDE DEF z
<1>2. DOMAIN z = 1..(N + Len(y))
  BY <1>1 DEF IsList
<1> HIDE DEF N
<1>3. ASSUME NEW k \in DOMAIN z
      PROVE  \/ k \in DOMAIN x /\ z[k] = x[k]
             \/ k - N \in DOMAIN y /\ z[k] = y[k - N]
  <2>1. CASE k \in 1..N
    BY <1>1, <2>1
  <2>2. CASE k \notin 1..N
    <3>1. k - N \in 1..Len(y) /\ N + (k - N) = k
      BY <1>1, <1>2, <2>2
    <3>2. z[N + (k - N)] = y[k - N]
      BY <1>1, <3>1
    <3> QED
      BY <1>1, <3>1, <3>2
  <2> QED
    BY <2>1, <2>2
<1> QED
  BY <1>3 DEF z, N

\* two pages that differ in nothing but sizes
Alike(x, y) ==
  /\ Len(x) = Len(y)
  /\ \A k \in DOMAIN x : x[k].style = y[k].style /\ x[k].shows = y[k].shows

LEMMA LikePagesConcatenate ==
  ASSUME NEW x, NEW y, NEW u, NEW v, IsList(x), IsList(y), IsList(u), IsList(v),
         Alike(x, u), Alike(y, v)
  PROVE  Alike(x \o y, u \o v)
<1> DEFINE N == Len(x)
           M == Len(y)
           z == x \o y
           w == u \o v
<1>1. /\ N \in Nat /\ M \in Nat /\ DOMAIN x = 1..N /\ DOMAIN y = 1..M
      /\ Len(u) = N /\ Len(v) = M
  BY DEF IsList, Alike
<1>2. /\ Len(z) = N + M /\ DOMAIN z = 1..Len(z)
      /\ \A k \in 1..N : z[k] = x[k]
      /\ \A k \in 1..M : z[N + k] = y[k]
  <2>1. /\ Len(z) = N + M /\ IsList(z)
        /\ \A k \in 1..N : z[k] = x[k]
        /\ \A k \in 1..M : z[N + k] = y[k]
    BY ListsConcatenate
  <2> HIDE DEF z
  <2>2. DOMAIN z = 1..Len(z)
    BY <2>1 DEF IsList
  <2> QED
    BY <2>1, <2>2
<1>3. /\ Len(w) = N + M
      /\ \A k \in 1..N : w[k] = u[k]
      /\ \A k \in 1..M : w[N + k] = v[k]
  BY <1>1, ListsConcatenate
<1> HIDE DEF N, M, z, w
<1>4. ASSUME NEW k \in 1..(N + M) PROVE z[k].style = w[k].style /\ z[k].shows = w[k].shows
  <2>1. CASE k \in 1..N
    BY <1>1, <1>2, <1>3, <2>1 DEF Alike
  <2>2. CASE k \notin 1..N
    <3>1. k - N \in 1..M /\ N + (k - N) = k
      BY <1>1, <2>2
    <3>2. z[N + (k - N)] = y[k - N] /\ w[N + (k - N)] = v[k - N]
      BY <1>2, <1>3, <3>1
    <3>3. z[k] = y[k - N] /\ w[k] = v[k - N] /\ k - N \in DOMAIN y
      BY <1>1, <3>1, <3>2
    <3> QED
      BY <3>3, Zenon DEF Alike
  <2> QED
    BY <2>1, <2>2
<1> QED
  BY <1>2, <1>3, <1>4 DEF Alike, z, w

-----------------------------------------------------------------------------
(* The blocks of a text *)

IsText(text) ==
  /\ Listed(text)
  /\ \A i \in DOMAIN text :
       /\ text[i].kind \in {"blank", "text", "bullet", "heading", "row", "rule"}
       /\ text[i].n \in Nat
       /\ text[i].kind \in {"heading", "row"} => text[i].n # 0

\* A run ends before a line of another class, and a heading is a run of its own.
LEMMA RunsAreUniform ==
  ASSUME NEW text, IsText(text), NEW i \in DOMAIN text
  PROVE  /\ RunEnd(text, i) \in i..Len(text)
         /\ \A k \in i..RunEnd(text, i) : Class(text[k]) = Class(text[i])
         /\ Class(text[i]) = "heading" => RunEnd(text, i) = i
         /\ Class(text[i]) # "heading" =>
              \A j \in i..Len(text) :
                (\A k \in i..j : Class(text[k]) = Class(text[i])) => j <= RunEnd(text, i)
<1> DEFINE N == Len(text)
           S == {j \in i..N : \A k \in i..j : Class(text[k]) = Class(text[i])}
<1>1. N \in Nat /\ i \in 1..N
  BY DEF IsText, Listed
<1>2. CASE Class(text[i]) = "heading"
  <2>1. RunEnd(text, i) = i
    BY <1>2 DEF RunEnd
  <2> HIDE DEF N
  <2>2. i \in i..N /\ \A k \in i..i : k = i
    BY <1>1
  <2>3. \A k \in i..i : Class(text[k]) = Class(text[i])
    BY <2>2
  <2> QED
    BY <1>2, <2>1, <2>2, <2>3 DEF N
<1>3. CASE Class(text[i]) # "heading"
  <2>1. RunEnd(text, i) = Max(S)
    BY <1>3 DEF RunEnd
  <2> HIDE DEF N
  <2>2. S \in SUBSET (0..N)
    BY <1>1
  <2>3. i \in S
    <3>1. i \in i..N /\ \A k \in i..i : k = i
      BY <1>1
    <3> QED
      BY <3>1
  <2>4. Max(S) \in S /\ \A j \in S : j <= Max(S)
    <3> HIDE DEF S
    <3>1. S # {} /\ N \in Int
      BY <1>1, <2>3
    <3> QED
      BY <2>2, <3>1, MaxIsGreatest
  <2>5. /\ Max(S) \in i..N
        /\ \A k \in i..Max(S) : Class(text[k]) = Class(text[i])
        /\ \A j \in i..N : (\A k \in i..j : Class(text[k]) = Class(text[i])) => j <= Max(S)
    BY <2>4, Zenon DEF S
  <2> HIDE DEF S
  <2> QED
    BY <1>3, <2>1, <2>5, Zenon DEF N
<1> QED
  BY <1>2, <1>3

LEMMA RunsDoNotMeet ==
  ASSUME NEW text, IsText(text), NEW i \in Starts(text), NEW s \in Starts(text), i < s
  PROVE  RunEnd(text, i) < s
<1> DEFINE N == Len(text)
           j == RunEnd(text, i)
<1>1. /\ N \in Nat /\ DOMAIN text = 1..N /\ i \in DOMAIN text /\ s \in DOMAIN text
      /\ s = 1 \/ Class(text[s]) = "heading" \/ Class(text[s - 1]) # Class(text[s])
  BY DEF IsText, Listed, Starts
<1>2. /\ j \in i..N
      /\ \A k \in i..j : Class(text[k]) = Class(text[i])
      /\ Class(text[i]) = "heading" => j = i
  BY <1>1, RunsAreUniform
<1> HIDE DEF N, j
<1> SUFFICES ASSUME s <= j PROVE FALSE
  BY <1>1, <1>2 DEF j
<1>3. s \in i..j /\ s - 1 \in i..j /\ s # 1
  BY <1>1, <1>2
<1>4. Class(text[s]) = Class(text[i]) /\ Class(text[s - 1]) = Class(text[i])
  BY <1>2, <1>3
<1>5. j = i
  BY <1>1, <1>2, <1>3, <1>4
<1> QED
  BY <1>1, <1>5

LEMMA LinesAreInRuns ==
  ASSUME NEW text, IsText(text), NEW p \in DOMAIN text
  PROVE  \E s \in Starts(text) : p \in s..RunEnd(text, s)
<1> DEFINE N == Len(text)
           S == {s \in Starts(text) : s <= p}
<1>1. N \in Nat /\ DOMAIN text = 1..N /\ p \in 1..N
  BY DEF IsText, Listed
<1>2. Starts(text) \in SUBSET (1..N)
  BY <1>1 DEF Starts
<1> HIDE DEF N
<1>3. 1 \in Starts(text) /\ 1 <= p
  BY <1>1 DEF Starts
<1>4. PICK s \in S : \A x \in S : x <= s
  <2>1. S \in SUBSET (0..N) /\ S # {} /\ N \in Int
    BY <1>1, <1>2, <1>3
  <2>2. Max(S) \in S /\ \A x \in S : x <= Max(S)
    <3> HIDE DEF S
    <3> QED
      BY <2>1, MaxIsGreatest
  <2> QED
    BY <2>2
<1>5. s \in Starts(text) /\ s <= p /\ s \in 1..N
  BY <1>2, <1>4
\* no run starts between s and p
<1>6. \A x \in (s + 1)..p : x \notin Starts(text)
  <2> SUFFICES ASSUME NEW x \in (s + 1)..p, x \in Starts(text) PROVE FALSE
    OBVIOUS
  <2>1. x \in S /\ ~(x <= s)
    BY <1>1, <1>5
  <2> HIDE DEF S
  <2> QED
    BY <1>4, <2>1
<1>7. \A x \in (s + 1)..p : Class(text[x]) # "heading" /\ Class(text[x - 1]) = Class(text[x])
  <2> TAKE x \in (s + 1)..p
  <2>1. x \in DOMAIN text /\ x \notin Starts(text)
    BY <1>1, <1>5, <1>6
  <2> QED
    BY <2>1 DEF Starts
<1>8. \A k \in s..p : Class(text[k]) = Class(text[s])
  <2> DEFINE B == {k \in s..p : Class(text[k]) # Class(text[s])}
  <2> SUFFICES ASSUME B # {} PROVE FALSE
    OBVIOUS
  <2>1. B \in SUBSET Nat
    BY <1>5
  <2>2. PICK k \in B : \A l \in B : k <= l
    <3> HIDE DEF B
    <3> QED
      BY <2>1, LeastNumber
  <2>3. k \in s..p /\ Class(text[k]) # Class(text[s])
    BY <2>2
  <2>4. k # s
    BY <2>3
  <2>5. k \in (s + 1)..p /\ k - 1 \in s..p /\ ~(k <= k - 1)
    BY <1>1, <1>5, <2>3, <2>4
  <2>6. k - 1 \notin B
    <3> HIDE DEF B
    <3> QED
      BY <2>2, <2>5
  <2>7. Class(text[k - 1]) = Class(text[s])
    BY <2>5, <2>6
  <2> QED
    BY <1>7, <2>3, <2>5, <2>7
<1>9. p <= RunEnd(text, s) /\ RunEnd(text, s) \in Int
  <2>1. s \in DOMAIN text /\ p \in s..N
    BY <1>1, <1>5
  <2>2. RunEnd(text, s) \in s..N
    BY <2>1, RunsAreUniform DEF N
  <2>3. CASE Class(text[s]) # "heading"
    BY <1>8, <2>1, <2>2, <2>3, RunsAreUniform DEF N
  <2>4. CASE Class(text[s]) = "heading"
    <3>1. Class(text[p]) = "heading"
      BY <1>1, <1>5, <1>8, <2>4
    <3>2. p \notin (s + 1)..p
      BY <1>7, <3>1
    <3>3. p = s
      BY <1>1, <1>5, <3>2
    <3> QED
      BY <1>1, <2>2, <3>3
  <2> QED
    BY <2>3, <2>4
<1> QED
  BY <1>1, <1>5, <1>9

LEMMA FunctionsAreLists ==
  ASSUME NEW n \in Nat, NEW s, s = [i \in 1..n |-> s[i]]
  PROVE  IsList(s) /\ Len(s) = n /\ DOMAIN s = 1..n
<1> DEFINE T == {s[i] : i \in 1..n}
<1>1. s \in [1..n -> T]
  OBVIOUS
<1> HIDE DEF T
<1>2. s \in Seq(T)
  BY <1>1
<1>3. Len(s) = n
  BY <1>1, <1>2
<1> QED
  BY <1>3 DEF IsList

LEMMA AscendingLists ==
  ASSUME NEW S \in SUBSET Int, IsFiniteSet(S)
  PROVE  LET s == Ascending(S) IN
         /\ IsList(s) /\ Len(s) = Cardinality(S) /\ DOMAIN s = 1..Len(s)
         /\ \A j \in DOMAIN s : s[j] \in S
         /\ \A j, k \in DOMAIN s : j < k => s[j] < s[k]
         /\ ToSet(s) = S
<1> DEFINE s == Ascending(S)
           id == [x \in S |-> x]
           n == Cardinality(S)
<1>1. s = Sorted(S, id) /\ id \in [S -> Int] /\ \A x \in S : id[x] = x
  BY DEF Ascending
<1> HIDE DEF s, id
<1>2. /\ n \in Nat
      /\ s \in [1..n -> S]
      /\ \A i, j \in 1..n : i < j =>
           \/ id[s[i]] < id[s[j]]
           \/ id[s[i]] = id[s[j]] /\ s[i] < s[j]
      /\ \A x \in S : \E i \in 1..n : s[i] = x
  BY <1>1, SortedSorts
<1> HIDE DEF n
<1>3. \A i, j \in 1..n : i < j => s[i] < s[j]
  BY <1>1, <1>2
<1>4. IsList(s) /\ Len(s) = n /\ DOMAIN s = 1..n
  <2>1. s = [i \in 1..n |-> s[i]]
    BY <1>2
  <2> QED
    BY <1>2, <2>1, FunctionsAreLists
<1>5. \A j \in 1..n : s[j] \in S
  BY <1>2
<1>6. ToSet(s) = S
  <2>1. \A x \in ToSet(s) : x \in S
    BY <1>4, <1>5 DEF ToSet
  <2>2. \A x \in S : x \in ToSet(s)
    BY <1>2, <1>4 DEF ToSet
  <2> QED
    BY <2>1, <2>2
<1> QED
  BY <1>3, <1>4, <1>5, <1>6 DEF s, n

\* a block shows lines of one class, and at least one of them
IsBlock(text, b) ==
  /\ b.kind \in {"text", "bullet", "heading", "table"}
  /\ IsList(b.lines) /\ Len(b.lines) # 0
  /\ \A k \in DOMAIN b.lines :
       /\ b.lines[k] \in DOMAIN text
       /\ Class(text[b.lines[k]]) = b.kind /\ text[b.lines[k]].kind # "rule"
  /\ \A j, k \in DOMAIN b.lines : j < k => b.lines[j] < b.lines[k]
  /\ b.kind = "heading" => Len(b.lines) = 1

\* what the run that starts at i makes
BlockOf(text, i) == Block(Class(text[i]), Ascending(Visible(text, i..RunEnd(text, i))))

LEMMA RunsMakeBlocks ==
  ASSUME NEW text, IsText(text), NEW i \in DOMAIN text, Visible(text, i..RunEnd(text, i)) # {}
  PROVE  /\ IsBlock(text, BlockOf(text, i))
         /\ ToSet(BlockOf(text, i).lines) = Visible(text, i..RunEnd(text, i))
<1> DEFINE N == Len(text)
           e == RunEnd(text, i)
           V == Visible(text, i..e)
           s == Ascending(V)
<1>1. N \in Nat /\ DOMAIN text = 1..N /\ i \in 1..N
  BY DEF IsText, Listed
<1>2. /\ e \in i..N
      /\ \A k \in i..e : Class(text[k]) = Class(text[i])
      /\ Class(text[i]) = "heading" => e = i
  BY RunsAreUniform
<1> HIDE DEF N, e
<1>3. V \in SUBSET (i..e) /\ \A k \in V : text[k].kind \notin {"rule", "blank"}
  BY DEF Visible
<1>4. i..e \in SUBSET (1..N) /\ i \in Int /\ e \in Int
  BY <1>1, <1>2
<1>5. V \in SUBSET Int /\ IsFiniteSet(V) /\ Cardinality(V) \in Nat
  <2> DEFINE I == i..e
  <2>1. IsFiniteSet(I) /\ I \in SUBSET Int /\ V \in SUBSET I
    BY <1>3, <1>4, FS_Interval
  <2> HIDE DEF V, I
  <2>2. IsFiniteSet(V)
    BY <2>1, FS_Subset
  <2> QED
    BY <2>1, <2>2, FS_CardinalityType
<1>6. /\ IsList(s) /\ Len(s) = Cardinality(V) /\ DOMAIN s = 1..Len(s)
      /\ \A j \in DOMAIN s : s[j] \in V
      /\ \A j, k \in DOMAIN s : j < k => s[j] < s[k]
      /\ ToSet(s) = V
  <2> HIDE DEF V
  <2> QED
    BY <1>5, AscendingLists
<1>7. V # {} /\ BlockOf(text, i) = [kind |-> Class(text[i]), lines |-> s]
  BY DEF BlockOf, Block, e
<1> HIDE DEF s
<1>8. Class(text[i]) \in {"text", "bullet", "heading", "table"}
  <2>1. PICK k \in V : TRUE
    BY <1>7
  <2>2. k \in DOMAIN text /\ text[k].kind \notin {"rule", "blank"} /\ Class(text[k]) = Class(text[i])
    BY <1>1, <1>2, <1>3, <1>4, <2>1
  <2>3. text[k].kind \in {"blank", "text", "bullet", "heading", "row", "rule"}
    BY <2>2 DEF IsText
  <2> QED
    BY <2>2, <2>3 DEF Class
<1>9. \A j \in DOMAIN s : /\ s[j] \in DOMAIN text /\ Class(text[s[j]]) = Class(text[i])
                          /\ text[s[j]].kind # "rule"
  <2> HIDE DEF V
  <2> QED
    BY <1>1, <1>2, <1>3, <1>4, <1>6
<1>10. Len(s) # 0
  <2> HIDE DEF V
  <2> QED
    BY <1>5, <1>6, <1>7, FS_EmptySet
<1>11. ASSUME Class(text[i]) = "heading" PROVE Len(s) = 1
  <2>1. ASSUME NEW k \in V PROVE k = i
    <3>1. k \in i..e /\ e = i
      BY <1>2, <1>3, <1>11
    <3> QED
      BY <1>4, <3>1
  <2>2. V = {i}
    BY <1>7, <2>1
  <2> HIDE DEF V
  <2> QED
    BY <1>6, <2>2, FS_Singleton
<1> DEFINE b == BlockOf(text, i)
<1>12. b.kind = Class(text[i]) /\ b.lines = s
  BY <1>7
<1> HIDE DEF V, b
<1>13. IsBlock(text, b)
  BY <1>6, <1>8, <1>9, <1>10, <1>11, <1>12 DEF IsBlock
<1> QED
  BY <1>6, <1>12, <1>13 DEF b, V, e

\* The blocks show every line that is to be seen, the earlier ones first.
LEMMA BlocksAreRuns ==
  ASSUME NEW text, IsText(text)
  PROVE  LET blocks == Blocks(text) IN
         /\ IsList(blocks) /\ DOMAIN blocks = 1..Len(blocks)
         /\ \A k \in DOMAIN blocks : IsBlock(text, blocks[k])
         /\ \A j, k \in DOMAIN blocks : j < k =>
              \A i \in ToSet(blocks[j].lines), l \in ToSet(blocks[k].lines) : i < l
         /\ UNION {ToSet(blocks[k].lines) : k \in DOMAIN blocks} = Visible(text, DOMAIN text)
<1> DEFINE N == Len(text)
           run(i) == i..RunEnd(text, i)
           lines(i) == Visible(text, run(i))
           T == {i \in Starts(text) : lines(i) # {}}
           starts == Ascending(T)
           blocks == Blocks(text)
<1>1. N \in Nat /\ DOMAIN text = 1..N
  BY DEF IsText, Listed
<1>2. T \in SUBSET (1..N) /\ T \in SUBSET Starts(text)
  BY <1>1 DEF Starts
<1>3. T \in SUBSET Int /\ IsFiniteSet(T) /\ Cardinality(T) \in Nat
  <2>1. IsFiniteSet(1..N) /\ 1..N \in SUBSET Int
    BY <1>1, FS_Interval
  <2> HIDE DEF T
  <2> QED
    BY <1>2, <2>1, FS_Subset, FS_CardinalityType
<1>4. /\ IsList(starts) /\ Len(starts) \in Nat /\ DOMAIN starts = 1..Len(starts)
      /\ \A j \in DOMAIN starts : starts[j] \in T
      /\ \A j, k \in DOMAIN starts : j < k => starts[j] < starts[k]
      /\ ToSet(starts) = T
  <2> HIDE DEF T
  <2> QED
    BY <1>3, AscendingLists
<1>5. blocks = [k \in DOMAIN starts |-> BlockOf(text, starts[k])]
  BY DEF Blocks, BlockOf
<1> HIDE DEF blocks, starts
<1>6. /\ IsList(blocks) /\ DOMAIN blocks = 1..Len(blocks) /\ Len(blocks) = Len(starts)
      /\ DOMAIN blocks = DOMAIN starts
      /\ \A k \in DOMAIN starts : blocks[k] = BlockOf(text, starts[k])
  <2>1. blocks = [k \in 1..Len(starts) |-> blocks[k]]
    BY <1>4, <1>5
  <2>2. \A k \in DOMAIN starts : blocks[k] = BlockOf(text, starts[k])
    BY <1>5
  <2> QED
    BY <1>4, <2>1, <2>2, FunctionsAreLists
<1>7. ASSUME NEW k \in DOMAIN blocks
      PROVE  /\ IsBlock(text, blocks[k]) /\ ToSet(blocks[k].lines) = lines(starts[k])
             /\ starts[k] \in Starts(text)
  <2>1. starts[k] \in T /\ starts[k] \in DOMAIN text
    <3> HIDE DEF T
    <3> QED
      BY <1>1, <1>2, <1>4, <1>6
  <2> QED
    BY <1>6, <2>1, RunsMakeBlocks
<1>8. ASSUME NEW j \in DOMAIN blocks, NEW k \in DOMAIN blocks, j < k,
             NEW i \in ToSet(blocks[j].lines), NEW l \in ToSet(blocks[k].lines)
      PROVE  i < l
  <2>1. starts[j] < starts[k]
    BY <1>4, <1>6, <1>8
  <2>2. RunEnd(text, starts[j]) < starts[k]
    BY <1>7, <2>1, RunsDoNotMeet
  <2>3. i \in run(starts[j]) /\ l \in run(starts[k])
    BY <1>7 DEF Visible
  <2>4. /\ starts[j] \in Int /\ starts[k] \in Int
        /\ RunEnd(text, starts[j]) \in Int
    <3>1. starts[j] \in DOMAIN text /\ starts[k] \in DOMAIN text
      BY <1>7 DEF Starts
    <3>2. RunEnd(text, starts[j]) \in starts[j]..N
      BY <3>1, RunsAreUniform
    <3> HIDE DEF N
    <3> QED
      BY <1>1, <3>1, <3>2
  <2> QED
    BY <2>2, <2>3, <2>4
<1>9. ASSUME NEW k \in DOMAIN blocks PROVE ToSet(blocks[k].lines) \subseteq Visible(text, DOMAIN text)
  <2>1. starts[k] \in DOMAIN text
    BY <1>7 DEF Starts
  <2>2. RunEnd(text, starts[k]) \in starts[k]..N
    BY <2>1, RunsAreUniform
  <2>3. run(starts[k]) \subseteq DOMAIN text
    <3> HIDE DEF N
    <3> QED
      BY <1>1, <2>1, <2>2
  <2> QED
    BY <1>7, <2>3 DEF Visible
<1>10. ASSUME NEW p \in Visible(text, DOMAIN text)
       PROVE  \E k \in DOMAIN blocks : p \in ToSet(blocks[k].lines)
  <2>1. p \in DOMAIN text /\ text[p].kind \notin {"rule", "blank"}
    BY DEF Visible
  <2>2. PICK s \in Starts(text) : p \in run(s)
    BY <2>1, LinesAreInRuns
  <2>3. p \in lines(s)
    BY <2>1, <2>2 DEF Visible
  <2>4. s \in T
    BY <2>3
  <2>5. PICK k \in DOMAIN starts : starts[k] = s
    BY <1>4, <2>4 DEF ToSet
  <2> QED
    BY <1>6, <1>7, <2>3, <2>5
<1>11. UNION {ToSet(blocks[k].lines) : k \in DOMAIN blocks} = Visible(text, DOMAIN text)
  BY <1>9, <1>10, Zenon
<1> QED
  BY <1>6, <1>7, <1>8, <1>11 DEF blocks

-----------------------------------------------------------------------------
(* What an export shows *)

\* pieces that show the lines, in the sizes
IsPage(text, x, lines, sizes) ==
  /\ IsList(x) /\ DOMAIN x = 1..Len(x)
  /\ ShowsInOrder(x, lines)
  /\ TablesAreWhole(text, x)
  /\ \A k \in DOMAIN x : x[k].style # "gaps" /\ x[k].size \in sizes

LEMMA EmptyPages ==
  ASSUME NEW text, NEW sizes
  PROVE  IsPage(text, << >>, {}, sizes) /\ Alike(<< >>, << >>)
<1> DEFINE x == << >>
<1>1. DOMAIN x = {} /\ Len(x) = 0 /\ x = [i \in 1..0 |-> x[i]] /\ {} = 1..0
  OBVIOUS
<1> HIDE DEF x
<1>2. IsList(x) /\ DOMAIN x = 1..Len(x)
  BY <1>1 DEF IsList
<1>3. UNION {ToSet(LinesOf(x[k])) : k \in DOMAIN x} = {}
  BY <1>1
<1> QED
  BY <1>1, <1>2, <1>3, Zenon DEF IsPage, ShowsInOrder, TablesAreWhole, Alike, x

LEMMA WholePagesConcatenate ==
  ASSUME NEW text, NEW sizes, NEW x, NEW y,
         NEW I \in SUBSET Int, NEW J \in SUBSET Int, \A i \in I, j \in J : i < j,
         IsPage(text, x, I, sizes), IsPage(text, y, J, sizes)
  PROVE  IsPage(text, x \o y, I \cup J, sizes)
<1> DEFINE z == x \o y
<1>1. IsList(x) /\ IsList(y) /\ ShowsInOrder(x, I) /\ ShowsInOrder(y, J)
  BY DEF IsPage
<1>2. ShowsInOrder(z, I \cup J)
  BY <1>1, PagesConcatenate
<1>3. IsList(z)
  BY <1>1, ListsConcatenate
<1>4. \A k \in DOMAIN z : \/ k \in DOMAIN x /\ z[k] = x[k]
                          \/ k - Len(x) \in DOMAIN y /\ z[k] = y[k - Len(x)]
  BY <1>1, PiecesConcatenate
<1> HIDE DEF z
<1>5. DOMAIN z = 1..Len(z)
  BY <1>3 DEF IsList
<1>6. TablesAreWhole(text, z)
  <2> SUFFICES ASSUME NEW k \in DOMAIN z, z[k].style = "table",
                      NEW r \in DOMAIN z[k].shows
               PROVE  /\ Len(z[k].shows[r]) = Len(z[k].shows[1])
                      /\ \A c \in 1..text[z[k].shows[r][1][1]].n :
                           /\ c \in DOMAIN z[k].shows[r]
                           /\ z[k].shows[r][c] = <<z[k].shows[r][1][1], c>>
    BY DEF TablesAreWhole
  <2>1. CASE k \in DOMAIN x /\ z[k] = x[k]
    BY <2>1 DEF IsPage, TablesAreWhole
  <2>2. CASE k - Len(x) \in DOMAIN y /\ z[k] = y[k - Len(x)]
    BY <2>2 DEF IsPage, TablesAreWhole
  <2> QED
    BY <1>4, <2>1, <2>2
<1>7. \A k \in DOMAIN z : z[k].style # "gaps" /\ z[k].size \in sizes
  BY <1>4, Zenon DEF IsPage
<1> QED
  BY <1>2, <1>3, <1>5, <1>6, <1>7 DEF IsPage, z

\* the pieces of a block, with the size of its heading
Pieces(text, b, size) ==
  CASE b.kind = "heading" -> <<Piece("heading", size, b.lines)>>
    [] b.kind = "bullet"  -> [k \in DOMAIN b.lines |-> Piece("bullet", 0, <<b.lines[k]>>)]
    [] b.kind = "table"   -> <<Piece("table", 0, Cells(text, b.lines))>>
    [] b.kind = "text"    -> <<Piece("paragraph", 0, b.lines)>>

LEMMA FiniteMaxIsGreatest ==
  ASSUME NEW S \in SUBSET Int, IsFiniteSet(S), S # {}
  PROVE  Max(S) \in S /\ \A x \in S : x <= Max(S)
<1> DEFINE s == Ascending(S)
           n == Len(s)
<1>1. /\ n \in Nat /\ DOMAIN s = 1..n
      /\ \A j \in DOMAIN s : s[j] \in S
      /\ \A j, k \in DOMAIN s : j < k => s[j] < s[k]
      /\ \A x \in S : \E j \in DOMAIN s : s[j] = x
  <2>1. ToSet(s) = S
    BY AscendingLists
  <2> QED
    BY <2>1, AscendingLists DEF IsList, ToSet
<1> HIDE DEF s, n
<1>2. n \in 1..n
  <2>1. PICK x \in S : TRUE
    OBVIOUS
  <2>2. PICK j \in 1..n : s[j] = x
    BY <1>1, <2>1
  <2> QED
    BY <1>1, <2>2
<1>3. \A x \in S : x <= s[n]
  <2> TAKE x \in S
  <2>1. PICK j \in 1..n : s[j] = x
    BY <1>1
  <2>2. j = n \/ j < n
    BY <1>1
  <2>3. s[n] \in Int /\ x \in Int
    BY <1>1, <1>2
  <2> QED
    BY <1>1, <1>2, <2>1, <2>2, <2>3
<1>4. s[n] \in S /\ \A x \in S : s[n] >= x
  BY <1>1, <1>2, <1>3
<1>5. Max(S) \in S /\ \A x \in S : Max(S) >= x
  BY <1>4, Zenon DEF Max
<1>6. \A x \in S : x \in Int
  OBVIOUS
<1> QED
  BY <1>5, <1>6

LEMMA WidestRow ==
  ASSUME NEW text, IsText(text), NEW b, IsBlock(text, b), b.kind = "table"
  PROVE  LET w == Width(text, b.lines) IN
         w \in Nat /\ \A r \in DOMAIN b.lines : text[b.lines[r]].n \in 1..w
<1> DEFINE L == b.lines
           W == {text[k].n : k \in ToSet(L)}
           N == Len(text)
<1>1. IsList(L) /\ DOMAIN L = 1..Len(L) /\ Len(L) \in Nat /\ Len(L) # 0
  BY DEF IsBlock, IsList
<1>2. \A r \in DOMAIN L : L[r] \in DOMAIN text /\ text[L[r]].n \in Nat /\ text[L[r]].n # 0
  <2> TAKE r \in DOMAIN L
  <2>1. /\ L[r] \in DOMAIN text /\ Class(text[L[r]]) = "table" /\ text[L[r]].kind # "rule"
    BY DEF IsBlock
  <2>2. text[L[r]].kind = "row"
    BY <2>1 DEF Class, IsText
  <2> QED
    BY <2>1, <2>2 DEF IsText
<1>3. W = {text[L[r]].n : r \in DOMAIN L}
  BY DEF ToSet
<1> HIDE DEF L
<1>4. W \in SUBSET Nat /\ W # {} /\ IsFiniteSet(W)
  <2>1. W \in SUBSET Nat
    BY <1>2, <1>3
  <2>2. 1 \in DOMAIN L
    BY <1>1
  <2>3. text[L[1]].n \in W
    BY <1>3, <2>2
  <2>4. IsFiniteSet(DOMAIN L)
    BY <1>1, FS_Interval
  <2> DEFINE f == [r \in DOMAIN L |-> text[L[r]].n]
  <2>5. f \in Surjection(DOMAIN L, W)
    BY <1>3 DEF Surjection
  <2>6. IsFiniteSet(W)
    BY <2>4, <2>5, FS_Surjection
  <2> QED
    BY <2>1, <2>3, <2>6
<1>5. Max(W) \in W /\ \A m \in W : m <= Max(W)
  <2> HIDE DEF W
  <2> QED
    BY <1>4, FiniteMaxIsGreatest
<1>6. \A r \in DOMAIN L : text[L[r]].n \in W
  BY <1>3
<1>7. Max(W) = Width(text, L)
  BY DEF Width
<1> DEFINE w == Width(text, L)
<1> HIDE DEF W, w
<1>8. w \in Nat /\ \A r \in DOMAIN L : text[L[r]].n <= w
  BY <1>4, <1>5, <1>6, <1>7 DEF w
<1>9. \A r \in DOMAIN L : text[L[r]].n \in 1..w
  BY <1>2, <1>8
<1> QED
  BY <1>8, <1>9 DEF L, w

LEMMA OnePieceShows ==
  ASSUME NEW p, IsList(LinesOf(p)),
         \A j, k \in DOMAIN LinesOf(p) : j < k => LinesOf(p)[j] < LinesOf(p)[k]
  PROVE  /\ ShowsInOrder(<<p>>, ToSet(LinesOf(p)))
         /\ IsList(<<p>>) /\ DOMAIN <<p>> = 1..Len(<<p>>)
<1> DEFINE x == <<p>>
<1>1. DOMAIN x = {1} /\ Len(x) = 1 /\ x[1] = p /\ x = [i \in 1..1 |-> x[i]] /\ 1..1 = {1}
  OBVIOUS
<1> HIDE DEF x
<1>2. IsList(x) /\ DOMAIN x = 1..Len(x)
  BY <1>1 DEF IsList
<1>3. UNION {ToSet(LinesOf(x[k])) : k \in DOMAIN x} = ToSet(LinesOf(p))
  BY <1>1
<1>4. ASSUME NEW k \in DOMAIN x, NEW l \in DOMAIN x,
             NEW m \in DOMAIN LinesOf(x[k]), NEW n \in DOMAIN LinesOf(x[l]),
             k < l \/ (k = l /\ m < n)
      PROVE  LinesOf(x[k])[m] < LinesOf(x[l])[n]
  <2>1. k = 1 /\ l = 1 /\ ~(k < l)
    BY <1>1
  <2> QED
    BY <1>1, <1>4, <2>1
<1> QED
  BY <1>2, <1>3, <1>4 DEF ShowsInOrder, x

LEMMA BlocksArePages ==
  ASSUME NEW text, IsText(text), NEW b, IsBlock(text, b),
         NEW sizes, 0 \in sizes, NEW size, b.kind = "heading" => size \in sizes
  PROVE  IsPage(text, Pieces(text, b, size), ToSet(b.lines), sizes)
<1> DEFINE L == b.lines
           N == Len(L)
           x == Pieces(text, b, size)
<1>1. /\ IsList(L) /\ N \in Nat /\ DOMAIN L = 1..N /\ N # 0
      /\ \A j, k \in DOMAIN L : j < k => L[j] < L[k]
      /\ b.kind \in {"text", "bullet", "heading", "table"}
  BY DEF IsBlock, IsList
<1> HIDE DEF L, N
\* one piece that shows the lines as they are
<1>2. ASSUME NEW style \in {"heading", "paragraph"}, NEW z \in sizes
      PROVE  IsPage(text, <<Piece(style, z, L)>>, ToSet(L), sizes)
  <2> DEFINE p == Piece(style, z, L)
             y == <<p>>
  <2>1. p.style = style /\ p.size = z /\ p.shows = L
    BY DEF Piece
  <2> HIDE DEF p
  <2>2. LinesOf(p) = L
    BY <2>1 DEF LinesOf
  <2>3. ShowsInOrder(y, ToSet(L)) /\ IsList(y) /\ DOMAIN y = 1..Len(y)
    BY <1>1, <2>2, OnePieceShows
  <2>4. \A k \in DOMAIN y : y[k] = p
    OBVIOUS
  <2> HIDE DEF y
  <2>5. TablesAreWhole(text, y)
    BY <2>1, <2>4 DEF TablesAreWhole
  <2>6. \A k \in DOMAIN y : y[k].style # "gaps" /\ y[k].size \in sizes
    BY <2>1, <2>4
  <2> QED
    BY <2>3, <2>5, <2>6 DEF IsPage, y, p
<1>3. CASE b.kind = "heading"
  <2>1. x = <<Piece("heading", size, L)>>
    BY <1>3 DEF Pieces, L
  <2> HIDE DEF x
  <2> QED
    BY <1>2, <1>3, <2>1 DEF x, L
<1>4. CASE b.kind = "text"
  <2>1. x = <<Piece("paragraph", 0, L)>>
    BY <1>4 DEF Pieces, L
  <2> HIDE DEF x
  <2> QED
    BY <1>2, <2>1 DEF x, L
<1>5. CASE b.kind = "bullet"
  <2>1. x = [k \in DOMAIN L |-> Piece("bullet", 0, <<L[k]>>)]
    BY <1>5 DEF Pieces, L
  <2> HIDE DEF x
  <2>2. IsList(x) /\ DOMAIN x = 1..Len(x) /\ DOMAIN x = DOMAIN L
    <3>1. x = [k \in 1..N |-> x[k]]
      BY <1>1, <2>1
    <3> QED
      BY <1>1, <3>1, FunctionsAreLists
  <2>3. \A k \in DOMAIN x : x[k].style = "bullet" /\ x[k].size = 0 /\ x[k].shows = <<L[k]>>
    BY <2>1, <2>2 DEF Piece
  <2>4. \A k \in DOMAIN x : LinesOf(x[k]) = <<L[k]>>
    BY <2>3 DEF LinesOf
  <2>5. \A k \in DOMAIN x : /\ DOMAIN LinesOf(x[k]) = {1} /\ LinesOf(x[k])[1] = L[k]
                            /\ ToSet(LinesOf(x[k])) = {L[k]}
    <3> TAKE k \in DOMAIN x
    <3> DEFINE s == <<L[k]>>
    <3>1. DOMAIN s = {1} /\ s[1] = L[k]
      OBVIOUS
    <3> HIDE DEF s
    <3>2. ToSet(s) = {L[k]}
      BY <3>1 DEF ToSet
    <3> QED
      BY <2>4, <3>1, <3>2 DEF s
  <2>6. UNION {ToSet(LinesOf(x[k])) : k \in DOMAIN x} = ToSet(L)
    <3>1. ToSet(L) = {L[k] : k \in DOMAIN L}
      BY DEF ToSet
    <3> QED
      BY <2>2, <2>5, <3>1
  <2>7. ASSUME NEW k \in DOMAIN x, NEW l \in DOMAIN x,
               NEW m \in DOMAIN LinesOf(x[k]), NEW n \in DOMAIN LinesOf(x[l]),
               k < l \/ (k = l /\ m < n)
        PROVE  LinesOf(x[k])[m] < LinesOf(x[l])[n]
    <3>1. m = 1 /\ n = 1
      BY <2>5, <2>7
    <3>2. k < l
      BY <2>7, <3>1
    <3> QED
      BY <1>1, <2>2, <2>5, <3>1, <3>2
  <2>8. ShowsInOrder(x, ToSet(L))
    BY <2>6, <2>7 DEF ShowsInOrder
  <2>9. TablesAreWhole(text, x)
    BY <2>3 DEF TablesAreWhole
  <2> QED
    BY <2>2, <2>3, <2>8, <2>9 DEF IsPage, x, L
<1>6. CASE b.kind = "table"
  <2> DEFINE W == Width(text, L)
             rows == Cells(text, L)
             p == Piece("table", 0, rows)
             y == <<p>>
  <2>1. W \in Nat /\ \A r \in DOMAIN L : text[L[r]].n \in 1..W
    BY <1>6, WidestRow DEF L
  <2> HIDE DEF W
  <2>2. /\ DOMAIN rows = DOMAIN L
        /\ \A r \in DOMAIN L :
             rows[r] = [c \in 1..W |-> IF c <= text[L[r]].n THEN <<L[r], c>> ELSE << >>]
    BY DEF Cells, W
  <2> HIDE DEF rows
  <2>3. ASSUME NEW r \in DOMAIN L
        PROVE  /\ Len(rows[r]) = W /\ DOMAIN rows[r] = 1..W
               /\ \A c \in 1..text[L[r]].n : c \in 1..W /\ rows[r][c] = <<L[r], c>>
               /\ 1 \in 1..text[L[r]].n
    <3>1. rows[r] = [c \in 1..W |-> rows[r][c]]
      BY <2>2
    <3>2. Len(rows[r]) = W /\ DOMAIN rows[r] = 1..W
      BY <2>1, <3>1, FunctionsAreLists
    <3>3. \A c \in 1..text[L[r]].n : c \in 1..W /\ c <= text[L[r]].n
      BY <2>1
    <3>4. 1 \in 1..text[L[r]].n
      BY <2>1
    <3> QED
      BY <2>2, <3>2, <3>3, <3>4
  <2>4. \A r \in DOMAIN L : rows[r][1] = <<L[r], 1>>
    BY <2>3
  <2>5. \A r \in DOMAIN L : rows[r][1][1] = L[r]
    BY <2>4
  <2>6. p.style = "table" /\ p.size = 0 /\ p.shows = rows
    BY DEF Piece
  <2> HIDE DEF p
  <2>7. LinesOf(p) = L
    <3>1. LinesOf(p) = [r \in DOMAIN L |-> rows[r][1][1]]
      BY <2>2, <2>6 DEF LinesOf
    <3>2. L = [r \in DOMAIN L |-> L[r]]
      BY <1>1 DEF IsList
    <3> QED
      BY <2>5, <3>1, <3>2
  <2>8. ShowsInOrder(y, ToSet(L)) /\ IsList(y) /\ DOMAIN y = 1..Len(y)
    BY <1>1, <2>7, OnePieceShows
  <2>9. \A k \in DOMAIN y : y[k] = p
    OBVIOUS
  <2> HIDE DEF y
  <2>10. TablesAreWhole(text, y)
    <3> SUFFICES ASSUME NEW k \in DOMAIN y, NEW r \in DOMAIN y[k].shows
                 PROVE  /\ Len(y[k].shows[r]) = Len(y[k].shows[1])
                        /\ \A c \in 1..text[y[k].shows[r][1][1]].n :
                             /\ c \in DOMAIN y[k].shows[r]
                             /\ y[k].shows[r][c] = <<y[k].shows[r][1][1], c>>
      BY DEF TablesAreWhole
    <3>1. y[k].shows = rows /\ r \in DOMAIN L
      BY <2>2, <2>6, <2>9
    <3>2. 1 \in DOMAIN L
      BY <1>1
    <3> QED
      BY <2>3, <2>5, <3>1, <3>2
  <2>11. \A k \in DOMAIN y : y[k].style # "gaps" /\ y[k].size \in sizes
    BY <2>6, <2>9
  <2>12. x = y
    BY <1>6 DEF Pieces, L, y, p, rows
  <2> HIDE DEF x
  <2> QED
    BY <2>8, <2>10, <2>11, <2>12 DEF IsPage, x, L
<1> QED
  BY <1>1, <1>3, <1>4, <1>5, <1>6

LEMMA LikePieces ==
  ASSUME NEW text, NEW b, IsBlock(text, b), NEW size, NEW other
  PROVE  Alike(Pieces(text, b, size), Pieces(text, b, other))
<1>1. CASE b.kind = "heading"
  <2> DEFINE x == <<Piece("heading", size, b.lines)>>
             y == <<Piece("heading", other, b.lines)>>
  <2>1. Len(x) = Len(y) /\ \A k \in DOMAIN x : x[k].style = y[k].style /\ x[k].shows = y[k].shows
    BY DEF Piece
  <2>2. Pieces(text, b, size) = x /\ Pieces(text, b, other) = y
    BY <1>1 DEF Pieces
  <2> QED
    BY <2>1, <2>2 DEF Alike
<1>2. CASE b.kind # "heading"
  <2>1. b.kind \in {"text", "bullet", "heading", "table"}
    BY DEF IsBlock
  <2>2. Pieces(text, b, size) = Pieces(text, b, other)
    BY <1>2, <2>1 DEF Pieces
  <2> QED
    BY <2>2 DEF Alike
<1> QED
  BY <1>1, <1>2

LEMMA PagesFlatten ==
  ASSUME NEW text, NEW sizes, NEW seqs, IsList(seqs), NEW lines,
         \A k \in 1..Len(seqs) : lines[k] \in SUBSET Int /\ IsPage(text, seqs[k], lines[k], sizes),
         \A j, k \in 1..Len(seqs) : j < k => \A i \in lines[j], l \in lines[k] : i < l
  PROVE  IsPage(text, FlattenSeq(seqs), UNION {lines[k] : k \in 1..Len(seqs)}, sizes)
<1> DEFINE N == Len(seqs)
           shown(n) == UNION {lines[k] : k \in 1..n}
<1>1. N \in Nat
  BY DEF IsList
<1>2. PICK f : /\ f[0] = << >> /\ FlattenSeq(seqs) = f[N]
               /\ \A n \in 1..N : f[n] = f[n - 1] \o seqs[n]
  <2>1. \A k \in 1..Len(seqs) : IsList(seqs[k])
    BY DEF IsPage
  <2> QED
    BY <2>1, FlattenBuilds
<1> DEFINE S == {n \in 0..N : ~IsPage(text, f[n], shown(n), sizes)}
<1>3. S = {}
  <2> SUFFICES ASSUME S # {} PROVE FALSE
    OBVIOUS
  <2>1. S \in SUBSET Nat
    BY <1>1
  <2>2. PICK n \in S : \A m \in S : n <= m
    <3> HIDE DEF S
    <3> QED
      BY <2>1, LeastNumber
  <2>3. n \in 0..N /\ ~IsPage(text, f[n], shown(n), sizes)
    BY <2>2
  <2>4. CASE n = 0
    <3>1. shown(0) = {}
      OBVIOUS
    <3> HIDE DEF shown
    <3>2. IsPage(text, f[0], shown(0), sizes)
      BY <1>2, <3>1, EmptyPages
    <3> QED
      BY <2>3, <2>4, <3>2
  <2>5. CASE n # 0
    <3>1. n - 1 \in 0..N /\ ~(n <= n - 1) /\ n \in 1..N
      BY <1>1, <2>3, <2>5
    <3>2. n - 1 \notin S
      <4> HIDE DEF S
      <4> QED
        BY <2>2, <3>1
    <3>3. IsPage(text, f[n - 1], shown(n - 1), sizes)
      BY <3>1, <3>2
    <3>4. \A k \in 1..(n - 1) : k \in 1..N /\ k < n
      BY <1>1, <3>1
    <3>5. shown(n - 1) \in SUBSET Int /\ \A i \in shown(n - 1), l \in lines[n] : i < l
      BY <3>1, <3>4
    <3>6. shown(n) = shown(n - 1) \cup lines[n]
      <4>1. \A k : k \in 1..n <=> k \in 1..(n - 1) \/ k = n
        BY <3>1
      <4> QED
        BY <4>1
    <3> HIDE DEF shown
    <3>7. IsPage(text, f[n - 1] \o seqs[n], shown(n - 1) \cup lines[n], sizes)
      BY <3>1, <3>3, <3>5, WholePagesConcatenate
    <3> QED
      BY <1>2, <2>3, <3>1, <3>6, <3>7
  <2> QED
    BY <2>4, <2>5
<1>4. IsPage(text, f[N], shown(N), sizes)
  <2>1. N \in 0..N /\ N \notin S
    <3> HIDE DEF S
    <3> QED
      BY <1>1, <1>3
  <2> HIDE DEF shown
  <2> QED
    BY <2>1
<1> QED
  BY <1>2, <1>4

LEMMA LikePagesFlatten ==
  ASSUME NEW xs, NEW ys, IsList(xs), IsList(ys), Len(xs) = Len(ys),
         \A k \in 1..Len(xs) : IsList(xs[k]) /\ IsList(ys[k]) /\ Alike(xs[k], ys[k])
  PROVE  Alike(FlattenSeq(xs), FlattenSeq(ys))
<1> DEFINE N == Len(xs)
<1>1. N \in Nat
  BY DEF IsList
<1>2. PICK f : /\ f[0] = << >> /\ FlattenSeq(xs) = f[N]
               /\ \A n \in 1..N : f[n] = f[n - 1] \o xs[n]
  BY FlattenBuilds
<1>3. PICK g : /\ g[0] = << >> /\ FlattenSeq(ys) = g[N]
               /\ \A n \in 1..N : g[n] = g[n - 1] \o ys[n]
  BY FlattenBuilds
<1> DEFINE AsFar(n) == IsList(f[n]) /\ IsList(g[n]) /\ Alike(f[n], g[n])
           S == {n \in 0..N : ~AsFar(n)}
<1>4. S = {}
  <2> SUFFICES ASSUME S # {} PROVE FALSE
    OBVIOUS
  <2>1. S \in SUBSET Nat
    BY <1>1
  <2>2. PICK n \in S : \A m \in S : n <= m
    <3> HIDE DEF S
    <3> QED
      BY <2>1, LeastNumber
  <2>3. n \in 0..N /\ ~AsFar(n)
    BY <2>2
  <2>4. CASE n = 0
    <3>1. IsList(<< >>) /\ Alike(<< >>, << >>)
      BY EmptyPages DEF IsPage
    <3> QED
      BY <1>2, <1>3, <2>3, <2>4, <3>1
  <2>5. CASE n # 0
    <3>1. n - 1 \in 0..N /\ ~(n <= n - 1) /\ n \in 1..N
      BY <1>1, <2>3, <2>5
    <3>2. n - 1 \notin S
      <4> HIDE DEF S
      <4> QED
        BY <2>2, <3>1
    <3>3. AsFar(n - 1)
      BY <3>1, <3>2
    <3>4. /\ IsList(f[n - 1] \o xs[n]) /\ IsList(g[n - 1] \o ys[n])
          /\ Alike(f[n - 1] \o xs[n], g[n - 1] \o ys[n])
      BY <3>1, <3>3, ListsConcatenate, LikePagesConcatenate
    <3> QED
      BY <1>2, <1>3, <2>3, <3>1, <3>4
  <2> QED
    BY <2>4, <2>5
<1>5. AsFar(N)
  <2>1. N \in 0..N /\ N \notin S
    <3> HIDE DEF S
    <3> QED
      BY <1>1, <1>4
  <2> QED
    BY <2>1
<1> QED
  BY <1>2, <1>3, <1>5

\* The sizes of the headings of a text are not those of the names of sections.
LEMMA HeadingSizes ==
  ASSUME NEW line, line.n \in Nat \ {0}
  PROVE  HeadingLevel(line) \in {2, 3, 4} /\ PdfSize(HeadingLevel(line)) \in {11, 13}
<1> DEFINE A == {line.n, 4}
           p == Min(A)
           B == {p + 1, 4}
<1>1. \E x \in A : \A y \in A : x <= y
  OBVIOUS
<1>2. p \in A /\ \A y \in A : p <= y
  BY <1>1, Zenon DEF Min
<1>3. p \in {1, 2, 3, 4}
  BY <1>2
<1> HIDE DEF p
<1>4. \E x \in B : \A y \in B : x <= y
  BY <1>3
<1>5. Min(B) \in B /\ \A y \in B : Min(B) <= y
  BY <1>4, Zenon DEF Min
<1>6. Min(B) \in {2, 3, 4}
  BY <1>3, <1>5
<1>7. HeadingLevel(line) = Min(B)
  BY DEF HeadingLevel, p
<1> HIDE DEF B
<1> QED
  BY <1>6, <1>7 DEF PdfSize

\* what is told of an export in either format
ShowsCam(cam, body, lines) ==
  /\ ShowsInOrder(body, lines)
  /\ TablesAreWhole(cam.text, body)
  /\ \A k \in DOMAIN body : body[k].size = body[1].size => k = 1
  /\ (\E k \in DOMAIN body : body[k].style = "gaps") <=> cam.gaps

\* an export: the name of the section and what introduces the gaps, then its text
LEMMA IntroducedPages ==
  ASSUME NEW cam, cam.gaps \in BOOLEAN, NEW size, NEW sizes, size \notin sizes, size # 0,
         NEW x, NEW lines \in SUBSET Int, IsPage(cam.text, x, lines, sizes)
  PROVE  ShowsCam(cam, Intro(cam, size) \o x, lines)
<1> DEFINE intro == Intro(cam, size)
           title == Piece("heading", size, << >>)
           M == Len(intro)
           body == intro \o x
<1>1. /\ M \in {1, 2} /\ IsList(intro) /\ intro[1] = title
      /\ M = 2 => intro[2] = GapsIntro
      /\ cam.gaps <=> M = 2
  <2>1. CASE cam.gaps
    <3> DEFINE s == <<title>>
               u == <<GapsIntro>>
    <3>1. intro = s \o u
      BY <2>1 DEF Intro
    <3>2. /\ s = [k \in 1..1 |-> s[k]] /\ s[1] = title /\ Len(s) = 1
          /\ u = [k \in 1..1 |-> u[k]] /\ u[1] = GapsIntro /\ Len(u) = 1
      OBVIOUS
    <3> HIDE DEF s, u, intro, title
    <3>3. IsList(s) /\ IsList(u)
      BY <3>2 DEF IsList
    <3>4. IsList(intro) /\ Len(intro) = 2 /\ intro[1] = title /\ intro[1 + 1] = GapsIntro
      BY <3>1, <3>2, <3>3, ListsConcatenate
    <3> QED
      BY <2>1, <3>4
  <2>2. CASE ~cam.gaps
    <3> DEFINE s == <<title>>
    <3>1. intro = <<title>> \o << >>
      BY <2>2 DEF Intro
    <3>2. intro = s
      BY <3>1
    <3>3. s = [k \in 1..1 |-> s[k]] /\ s[1] = title /\ Len(s) = 1
      OBVIOUS
    <3> HIDE DEF s, intro
    <3>4. IsList(s)
      BY <3>3 DEF IsList
    <3> QED
      BY <2>2, <3>2, <3>3, <3>4
  <2> QED
    BY <2>1, <2>2
<1>2. IsList(x) /\ DOMAIN x = 1..Len(x) /\ ShowsInOrder(x, lines)
  BY DEF IsPage
<1>3. /\ title.style = "heading" /\ title.shows = << >> /\ title.size = size
      /\ GapsIntro.style = "gaps" /\ GapsIntro.shows = << >> /\ GapsIntro.size = 0
  BY DEF Piece, GapsIntro
<1> HIDE DEF intro, title
<1>4. /\ DOMAIN intro = 1..M
      /\ \A k \in DOMAIN intro :
           /\ intro[k].style \in {"heading", "gaps"} /\ intro[k].shows = << >>
           /\ intro[k].style = "gaps" => cam.gaps
           /\ intro[k].size = size => k = 1
  <2>1. DOMAIN intro = 1..M
    BY <1>1 DEF IsList
  <2> HIDE DEF M
  <2>2. \A k \in 1..M : k = 1 \/ (k = 2 /\ M = 2)
    BY <1>1
  <2> QED
    BY <1>1, <1>3, <2>1, <2>2
<1>5. ShowsInOrder(intro, {})
  <2>1. \A k \in DOMAIN intro : LinesOf(intro[k]) = << >>
    BY <1>4 DEF LinesOf
  <2>2. DOMAIN << >> = {}
    OBVIOUS
  <2>3. \A k \in DOMAIN intro : ToSet(LinesOf(intro[k])) = {} /\ DOMAIN LinesOf(intro[k]) = {}
    BY <2>1, <2>2 DEF ToSet
  <2> QED
    BY <2>3, Zenon DEF ShowsInOrder
<1>6. ShowsInOrder(body, lines)
  <2>1. {} \cup lines = lines /\ {} \in SUBSET Int /\ \A i \in {}, j \in lines : i < j
    OBVIOUS
  <2>2. ShowsInOrder(body, {} \cup lines)
    BY <1>1, <1>2, <1>5, <2>1, PagesConcatenate
  <2> QED
    BY <2>1, <2>2
<1>7. /\ DOMAIN body = 1..(M + Len(x)) /\ Len(x) \in Nat
      /\ \A k \in 1..M : body[k] = intro[k]
  <2>1. /\ IsList(body) /\ Len(body) = M + Len(x)
        /\ \A k \in 1..M : body[k] = intro[k]
    BY <1>1, <1>2, ListsConcatenate
  <2> HIDE DEF body
  <2> QED
    BY <1>2, <2>1 DEF IsList
<1>8. \A k \in DOMAIN body : \/ k \in DOMAIN intro /\ body[k] = intro[k]
                             \/ k - M \in DOMAIN x /\ body[k] = x[k - M]
  BY <1>1, <1>2, PiecesConcatenate
<1> HIDE DEF body, M
<1>9. \A k \in DOMAIN x : x[k].style # "gaps" /\ x[k].size \in sizes
  BY DEF IsPage
<1>10. TablesAreWhole(cam.text, body)
  <2> SUFFICES ASSUME NEW k \in DOMAIN body, body[k].style = "table",
                      NEW r \in DOMAIN body[k].shows
               PROVE  /\ Len(body[k].shows[r]) = Len(body[k].shows[1])
                      /\ \A c \in 1..cam.text[body[k].shows[r][1][1]].n :
                           /\ c \in DOMAIN body[k].shows[r]
                           /\ body[k].shows[r][c] = <<body[k].shows[r][1][1], c>>
    BY DEF TablesAreWhole
  <2>1. k - M \in DOMAIN x /\ body[k] = x[k - M]
    BY <1>4, <1>8
  <2> QED
    BY <2>1 DEF IsPage, TablesAreWhole
<1>11. 1 \in DOMAIN body /\ body[1].size = size
  <2>1. 1 \in 1..M /\ 1 \in 1..(M + Len(x))
    BY <1>1, <1>7
  <2> QED
    BY <1>1, <1>3, <1>7, <2>1
<1>12. \A k \in DOMAIN body : body[k].size = body[1].size => k = 1
  BY <1>4, <1>8, <1>9, <1>11
<1>13. (\E k \in DOMAIN body : body[k].style = "gaps") <=> cam.gaps
  <2>1. ASSUME NEW k \in DOMAIN body, body[k].style = "gaps" PROVE cam.gaps
    BY <1>4, <1>8, <1>9, <2>1
  <2>2. ASSUME cam.gaps PROVE \E k \in DOMAIN body : body[k].style = "gaps"
    <3>1. 2 \in 1..M /\ 2 \in DOMAIN body
      BY <1>1, <1>7, <2>2
    <3>2. body[2].style = "gaps"
      BY <1>1, <1>3, <1>7, <2>2, <3>1
    <3> QED
      BY <3>1, <3>2
  <2> QED
    BY <2>1, <2>2
<1> QED
  BY <1>6, <1>10, <1>12, <1>13 DEF ShowsCam, body, intro

LEMMA FirstOfList ==
  ASSUME NEW s, IsList(s), Len(s) # 0
  PROVE  Head(s) = s[1] /\ 1 \in DOMAIN s
<1> DEFINE n == Len(s)
           T == {s[i] : i \in 1..n}
<1>1. n \in Nat /\ n # 0 /\ s = [i \in 1..n |-> s[i]]
  BY DEF IsList
<1> HIDE DEF n
<1>2. s \in [1..n -> T] /\ 1 \in 1..n
  BY <1>1
<1> HIDE DEF T
<1>3. s \in Seq(T)
  BY <1>1, <1>2
<1> QED
  BY <1>1, <1>2, <1>3 DEF n

LEMMA BlocksInFormats ==
  ASSUME NEW text, IsText(text), NEW b, IsBlock(text, b)
  PROVE  LET level == HeadingLevel(text[Head(b.lines)]) IN
         /\ DocxBlock(text, b) = Pieces(text, b, level)
         /\ PdfBlock(text, b) = Pieces(text, b, PdfSize(level))
         /\ b.kind = "heading" => level \in {0, 2, 3, 4} /\ PdfSize(level) \in {0, 11, 13}
<1> DEFINE L == b.lines
           line == text[Head(L)]
           level == HeadingLevel(line)
<1>1. DocxBlock(text, b) = Pieces(text, b, level) /\ PdfBlock(text, b) = Pieces(text, b, PdfSize(level))
  BY DEF DocxBlock, PdfBlock, Pieces
<1>2. ASSUME b.kind = "heading" PROVE level \in {0, 2, 3, 4} /\ PdfSize(level) \in {0, 11, 13}
  <2>1. IsList(L) /\ Len(L) = 1
    BY <1>2 DEF IsBlock
  <2>2. Head(L) = L[1] /\ 1 \in DOMAIN L
    BY <2>1, FirstOfList
  <2>3. /\ L[1] \in DOMAIN text /\ Class(text[L[1]]) = "heading"
    BY <1>2, <2>2 DEF IsBlock
  <2>4. text[L[1]].kind = "heading"
    BY <2>3 DEF Class
  <2>5. text[L[1]].n \in Nat \ {0}
    BY <2>3, <2>4 DEF IsText
  <2>6. line.n \in Nat \ {0}
    BY <2>2, <2>5
  <2> HIDE DEF line
  <2> QED
    BY <2>6, HeadingSizes
<1> QED
  BY <1>1, <1>2

\* Both formats show the whole section, in the same pieces.
LEMMA FormatsShowEverything ==
  ASSUME NEW cam, IsText(cam.text), cam.gaps \in BOOLEAN
  PROVE  LET docx  == Docx(cam).body
             pdf   == Pdf(cam).body
             lines == Visible(cam.text, DOMAIN cam.text)
         IN ShowsCam(cam, docx, lines) /\ ShowsCam(cam, pdf, lines) /\ Alike(docx, pdf)
<1> DEFINE text == cam.text
           blocks == Blocks(text)
           N == Len(blocks)
           lines == Visible(text, DOMAIN text)
           shown == [k \in 1..N |-> ToSet(blocks[k].lines)]
           xs == [k \in DOMAIN blocks |-> DocxBlock(text, blocks[k])]
           ys == [k \in DOMAIN blocks |-> PdfBlock(text, blocks[k])]
           Level(k) == HeadingLevel(text[Head(blocks[k].lines)])
           docxSizes == {0, 2, 3, 4}
           pdfSizes == {0, 11, 13}
<1>1. /\ N \in Nat /\ DOMAIN blocks = 1..N
      /\ \A k \in 1..N : IsBlock(text, blocks[k])
      /\ \A j, k \in 1..N : j < k => \A i \in shown[j], l \in shown[k] : i < l
      /\ UNION {ToSet(blocks[k].lines) : k \in 1..N} = lines
  <2>1. IsList(blocks) /\ DOMAIN blocks = 1..Len(blocks)
    BY BlocksAreRuns
  <2>2. \A k \in DOMAIN blocks : IsBlock(text, blocks[k])
    BY BlocksAreRuns
  <2>3. \A j, k \in DOMAIN blocks : j < k =>
          \A i \in ToSet(blocks[j].lines), l \in ToSet(blocks[k].lines) : i < l
    BY BlocksAreRuns
  <2>4. UNION {ToSet(blocks[k].lines) : k \in DOMAIN blocks} = lines
    BY BlocksAreRuns
  <2> HIDE DEF blocks, lines
  <2> QED
    BY <2>1, <2>2, <2>3, <2>4 DEF IsList
<1> HIDE DEF blocks, N, lines
<1>2. lines \in SUBSET Int
  BY DEF lines, Visible, IsText, Listed
<1>3. \A k \in 1..N : shown[k] = ToSet(blocks[k].lines)
  OBVIOUS
<1> HIDE DEF shown
<1>4. \A k \in 1..N : shown[k] \in SUBSET Int
  BY <1>1, <1>2, <1>3
<1>5. UNION {shown[k] : k \in 1..N} = lines
  BY <1>1, <1>3
<1>6. /\ \A k \in 1..N : xs[k] = Pieces(text, blocks[k], Level(k))
      /\ \A k \in 1..N : ys[k] = Pieces(text, blocks[k], PdfSize(Level(k)))
      /\ \A k \in 1..N : blocks[k].kind = "heading" =>
           Level(k) \in docxSizes /\ PdfSize(Level(k)) \in pdfSizes
  BY <1>1, BlocksInFormats
<1>7. IsList(xs) /\ Len(xs) = N /\ IsList(ys) /\ Len(ys) = N
  <2>1. xs = [k \in 1..N |-> xs[k]] /\ ys = [k \in 1..N |-> ys[k]]
    BY <1>1
  <2> HIDE DEF xs, ys
  <2> QED
    BY <1>1, <2>1, FunctionsAreLists
<1> DEFINE x == FlattenSeq(xs)
           y == FlattenSeq(ys)
<1>8. Docx(cam).body = Intro(cam, 1) \o x /\ Pdf(cam).body = Intro(cam, 16) \o y
  BY DEF Docx, Pdf, PdfSize, blocks
<1>15. 0 \in docxSizes /\ 1 \notin docxSizes /\ 0 \in pdfSizes /\ 16 \notin pdfSizes
  OBVIOUS
<1> HIDE DEF xs, ys, Level, docxSizes, pdfSizes
<1>9. \A k \in 1..N : /\ IsPage(text, xs[k], shown[k], docxSizes)
                      /\ IsPage(text, ys[k], shown[k], pdfSizes)
  <2> TAKE k \in 1..N
  <2>1. IsPage(text, Pieces(text, blocks[k], Level(k)), ToSet(blocks[k].lines), docxSizes)
    BY <1>1, <1>6, <1>15, BlocksArePages
  <2>2. IsPage(text, Pieces(text, blocks[k], PdfSize(Level(k))), ToSet(blocks[k].lines), pdfSizes)
    BY <1>1, <1>6, <1>15, BlocksArePages
  <2> QED
    BY <1>3, <1>6, <2>1, <2>2
<1>10. \A k \in 1..N : Alike(xs[k], ys[k])
  BY <1>1, <1>6, LikePieces
<1>11. IsPage(text, x, lines, docxSizes) /\ IsPage(text, y, lines, pdfSizes)
  <2>1. IsPage(text, x, UNION {shown[k] : k \in 1..Len(xs)}, docxSizes)
    BY <1>1, <1>4, <1>7, <1>9, PagesFlatten
  <2>2. IsPage(text, y, UNION {shown[k] : k \in 1..Len(ys)}, pdfSizes)
    BY <1>1, <1>4, <1>7, <1>9, PagesFlatten
  <2> QED
    BY <1>5, <1>7, <2>1, <2>2
<1>12. Alike(x, y)
  BY <1>7, <1>9, <1>10, LikePagesFlatten DEF IsPage
<1> HIDE DEF x, y
<1>13. ShowsCam(cam, Docx(cam).body, lines) /\ ShowsCam(cam, Pdf(cam).body, lines)
  <2>1. 1 # 0 /\ 16 # 0
    OBVIOUS
  <2>2. ShowsCam(cam, Intro(cam, 1) \o x, lines)
    BY <1>2, <1>11, <1>15, <2>1, IntroducedPages
  <2>3. ShowsCam(cam, Intro(cam, 16) \o y, lines)
    BY <1>2, <1>11, <1>15, <2>1, IntroducedPages
  <2> QED
    BY <1>8, <2>2, <2>3
<1>14. Alike(Docx(cam).body, Pdf(cam).body)
  <2> DEFINE u == Intro(cam, 1)
             v == Intro(cam, 16)
             g == IF cam.gaps THEN <<GapsIntro>> ELSE << >>
             s == <<Piece("heading", 1, << >>)>>
             t == <<Piece("heading", 16, << >>)>>
  <2>1. u = s \o g /\ v = t \o g
    BY DEF Intro
  <2>2. Alike(s, t)
    BY DEF Alike, Piece
  <2>3. IsList(s) /\ IsList(t)
    BY DEF IsList
  <2>4. IsList(g)
    BY DEF IsList
  <2>5. Alike(g, g)
    BY DEF Alike
  <2> HIDE DEF s, t, g
  <2>6. Alike(s \o g, t \o g) /\ IsList(s \o g) /\ IsList(t \o g)
    BY <2>2, <2>3, <2>4, <2>5, LikePagesConcatenate, ListsConcatenate
  <2>7. IsList(x) /\ IsList(y)
    BY <1>11 DEF IsPage
  <2> HIDE DEF u, v
  <2>8. Alike(u \o x, v \o y)
    BY <1>12, <2>1, <2>6, <2>7, LikePagesConcatenate
  <2> QED
    BY <1>8, <2>8 DEF u, v
<1> QED
  BY <1>13, <1>14 DEF lines

-----------------------------------------------------------------------------
(* The specification: what an algorithm is asked, and what it answered *)

AnswerIsComputed ==
  /\ input.kind = "template" => input.value \in Templates
  /\ input.kind = "bundle" => input.value \in Uploads
  /\ input.kind = "book" => input.value \in Books
  /\ input.kind = "csv" => input.value \in CsvFiles
  /\ input.kind = "text" => input.value \in Texts
  /\ input.kind = "case" => input.value \in Cases
  /\ input.kind = "cam" => input.value \in Cams
  /\ answer.kind # "none" => answer.kind = input.kind
  /\ answer.kind = "template" =>
       answer.value = TemplateErrors(input.value, PromptKeys, DocTypes)
  /\ answer.kind = "bundle" => answer.value = Landed(input.value.known, input.value.entries)
  /\ answer.kind = "book" => answer.value = ParseWorkbook(input.value)
  /\ answer.kind = "csv" => answer.value = ParseCsv(input.value)
  /\ answer.kind = "text" =>
       answer.value = Chunks(input.value.text, input.value.size, input.value.overlap)
  /\ answer.kind = "case" =>
       answer.value = Tag(input.value.mode, input.value.catalogue, CodeOrder,
                          input.value.reply, input.value.threshold)
  /\ answer.kind = "cam" => answer.value = [docx |-> Docx(input.value), pdf |-> Pdf(input.value)]

LEMMA InitIsComputed == Init => AnswerIsComputed
<1> SUFFICES ASSUME Init PROVE AnswerIsComputed
  OBVIOUS
<1>1. answer.kind = "none"
  BY DEF Init
<1>2. /\ input.kind = "template" => input.value \in Templates
      /\ input.kind = "bundle" => input.value \in Uploads
      /\ input.kind = "book" => input.value \in Books
      /\ input.kind = "csv" => input.value \in CsvFiles
      /\ input.kind = "text" => input.value \in Texts
      /\ input.kind = "case" => input.value \in Cases
      /\ input.kind = "cam" => input.value \in Cams
  BY DEF Init, Asked
<1> QED
  BY <1>1, <1>2 DEF AnswerIsComputed

LEMMA StepIsComputed == AnswerIsComputed /\ [Next]_vars => AnswerIsComputed'
<1> SUFFICES ASSUME AnswerIsComputed, [Next]_vars PROVE AnswerIsComputed'
  OBVIOUS
<1>1. ASSUME UNCHANGED <<input, answer>> PROVE AnswerIsComputed'
  BY <1>1 DEF AnswerIsComputed
<1>2. CASE UNCHANGED vars
  BY <1>1, <1>2 DEF vars
<1>3. CASE \E c \in PromptKeys : DraftSection(c)
  BY <1>1, <1>3 DEF DraftSection
<1>4. ASSUME NEW kind \in {"template", "bundle", "book", "csv", "text", "case", "cam"},
             NEW value, Answer(kind, value)
      PROVE  input' = input /\ answer' = [kind |-> kind, value |-> value] /\ input.kind = kind
  BY <1>4 DEF Answer
<1>5. CASE ValidateTemplate
  BY <1>4, <1>5 DEF ValidateTemplate, AnswerIsComputed
<1>6. CASE ImportBundle
  BY <1>4, <1>6 DEF ImportBundle, AnswerIsComputed
<1>7. CASE UploadWorkbook
  BY <1>4, <1>7 DEF UploadWorkbook, AnswerIsComputed
<1>8. CASE UploadCsv
  BY <1>4, <1>8 DEF UploadCsv, AnswerIsComputed
<1>9. CASE SplitText
  BY <1>4, <1>9 DEF SplitText, AnswerIsComputed
<1>10. CASE Classify
  BY <1>4, <1>10 DEF Classify, AnswerIsComputed
<1>11. CASE ExportCam
  BY <1>4, <1>11 DEF ExportCam, AnswerIsComputed
<1> QED
  BY <1>2, <1>3, <1>5, <1>6, <1>7, <1>8, <1>9, <1>10, <1>11 DEF Next

\* Every answer is the algorithm's, of an input that was asked.
THEOREM AnswersAreComputed == Spec => []AnswerIsComputed
<1> QED
  BY InitIsComputed, StepIsComputed, PTL DEF Spec

\* A tag that nobody is asked to review is a published type, confident enough and, when
\* the model decides, not contradicted by the keywords (classify_document).
THEOREM UnreviewedTagsAlwaysAgree == Spec => []UnreviewedTagsAgree
<1>1. AnswerIsComputed => UnreviewedTagsAgree
  BY TagsAgree DEF AnswerIsComputed, UnreviewedTagsAgree
<1> QED
  BY <1>1, AnswersAreComputed, PTL

\* No row of an uploaded workbook or CSV file gets lost: one that has a key ends in exactly
\* one entry or is reported (parse_workbook, parse_kpi_csv).
THEOREM UploadsNeverLoseARow == Spec => []UploadsLoseNoRow
<1>1. AnswerIsComputed => UploadsLoseNoRow
  BY RowsEndInEntries, SectionsEndInTemplates, ItemsOfEntries, OneEntryPerGroup,
     CsvLosesNoRow, Zenon DEF AnswerIsComputed, UploadsLoseNoRow, CsvRowsAreKept
<1> QED
  BY <1>1, AnswersAreComputed, PTL

\* Whatever the order in which a bundle lists its entries, everything lands whose
\* references exist or are in the bundle and land themselves (_import_entries).
THEOREM BundlesAlwaysImport == Spec => []BundlesImport
<1>1. AnswerIsComputed => BundlesImport
  BY ImportableLands DEF AnswerIsComputed, BundlesImport
<1> QED
  BY <1>1, AnswersAreComputed, PTL

\* Retrieval cannot miss text for want of a chunk: the chunks of a text cover it, none
\* exceeds the window, and both ends move forward from chunk to chunk (chunk_text).
THEOREM ChunksAlwaysCover == Spec => []ChunksCover
<1>1. AnswerIsComputed => ChunksCover
  <2> SUFFICES ASSUME AnswerIsComputed, answer.kind = "text" PROVE ChunksCover
    BY DEF ChunksCover
  <2> DEFINE x == input.value
             chunks == Chunks(x.text, x.size, x.overlap)
             o == Clamp(x.overlap, x.size)
  <2>1. x \in Texts /\ answer.value = chunks
    BY DEF AnswerIsComputed
  <2>2. Len(x.text) \in Nat /\ DOMAIN x.text = 1..Len(x.text) /\ x.size \in Nat /\ x.overlap \in Nat
    BY <2>1, InputsAssumption DEF Listed
  <2>3. CASE x.size # 0
    <3>1. AreChunks(x.text, x.size, o, 0, chunks)
      BY <2>2, <2>3, ChunksCoverText
    <3>2. 2 * x.overlap <= x.size => o = x.overlap
      BY <2>2, <2>3 DEF Clamp
    <3>3. \A p \in DOMAIN x.text : p \in (0 + 1)..Len(x.text)
      BY <2>2
    <3> HIDE DEF x, chunks, o
    <3>4. /\ \A p \in DOMAIN x.text : x.text[p] = "word" /\ x.size > 0 =>
               \E k \in DOMAIN chunks : chunks[k].start < p /\ p <= chunks[k].end
          /\ \A k \in DOMAIN chunks : chunks[k].end - chunks[k].start \in 1..x.size
      BY <3>1, <3>3, Zenon DEF AreChunks
    <3>5. \A j, k \in DOMAIN chunks : j < k =>
            /\ chunks[j].start < chunks[k].start
            /\ 2 * x.overlap <= x.size => chunks[j].end < chunks[k].end
      BY <3>1, <3>2, Zenon DEF AreChunks
    <3> QED
      BY <2>1, <3>4, <3>5, Zenon DEF ChunksCover, x
  <2>4. CASE x.size = 0
    <3>1. chunks = << >> /\ DOMAIN chunks = {} /\ ~(x.size > 0)
      BY <2>4 DEF Chunks
    <3> HIDE DEF chunks, x
    <3> QED
      BY <2>1, <3>1, Zenon DEF ChunksCover, x
  <2> QED
    BY <2>3, <2>4
<1> QED
  BY <1>1, AnswersAreComputed, PTL

\* A cycle is reported exactly if the jobs of a run of the template cannot be ranked, and
\* the run of an accepted template always has a section to draft until all are drafted or
\* skipped (validate_payload, _resolved_deps, _deps_satisfied).
THEOREM TemplatesAlwaysDrain == Spec => []TemplatesDrain
<1>1. AnswerIsComputed => TemplatesDrain
  <2> SUFFICES ASSUME AnswerIsComputed, answer.kind = "template" PROVE TemplatesDrain
    BY DEF TemplatesDrain, Accepted
  <2> DEFINE t == input.value
             jobs == [c \in DOMAIN t |-> JobDeps(t, c)]
  <2>1. t \in Templates /\ answer.value = TemplateErrors(t, PromptKeys, DocTypes)
    BY DEF AnswerIsComputed
  <2>2. "cycle" \in answer.value <=> ~Acyclic(Graph(t))
    BY <2>1, CyclesAreReported
  <2>3. Graph(t) = jobs
    BY <2>1, TemplateGraph
  <2>4. "cycle" \in answer.value <=> ~Acyclic(jobs)
    BY <2>2, <2>3
  <2>5. ASSUME Accepted, ToDraft(t, {}, drafted) # {}
        PROVE  \E c \in DOMAIN t : ReadyToDraft(t, {}, drafted, c)
    <3>1. Acyclic(Graph(t))
      BY <2>2, <2>5 DEF Accepted
    <3> QED
      BY <2>1, <2>5, <3>1, SomeSectionIsReady
  <2> QED
    BY <2>4, <2>5, Zenon DEF TemplatesDrain
<1> QED
  BY <1>1, AnswersAreComputed, PTL

\* An export shows each line of the text, and each cell of a row, once and in order, alike in
\* both formats; no heading passes for the name of a section; the watermark is there as long
\* as the CAM is a draft, and the note on gaps with them (render_docx, render_pdf).
THEOREM ExportsAlwaysShowEverything == Spec => []ExportsShowEverything
<1>1. AnswerIsComputed => ExportsShowEverything
  <2> SUFFICES ASSUME AnswerIsComputed, answer.kind = "cam" PROVE ExportsShowEverything
    BY DEF ExportsShowEverything
  <2> DEFINE cam == input.value
             docx == Docx(cam)
             pdf == Pdf(cam)
             lines == Visible(cam.text, DOMAIN cam.text)
  <2>1. cam \in Cams /\ answer.value = [docx |-> docx, pdf |-> pdf]
    BY DEF AnswerIsComputed
  <2>2. IsText(cam.text) /\ cam.gaps \in BOOLEAN /\ cam.draft \in BOOLEAN
    BY <2>1, InputsAssumption DEF IsText
  <2>3. lines = {i \in DOMAIN cam.text : cam.text[i].kind \notin {"blank", "rule"}}
    BY DEF Visible
  <2>4. ShowsCam(cam, docx.body, lines) /\ ShowsCam(cam, pdf.body, lines) /\ Alike(docx.body, pdf.body)
    BY <2>2, FormatsShowEverything
  <2>5. docx.marks # {} <=> cam.draft
    BY <2>2 DEF Docx, Watermark
  <2>6. pdf.marks # {} <=> cam.draft
    BY <2>2 DEF Pdf, Watermark
  <2>7. answer.value.docx = docx /\ answer.value.pdf = pdf
    BY <2>1
  <2> HIDE DEF cam, docx, pdf, lines
  <2>8. \A page \in {docx, pdf} :
          /\ ShowsInOrder(page.body, lines)
          /\ TablesAreWhole(cam.text, page.body)
          /\ \A k \in DOMAIN page.body : page.body[k].size = page.body[1].size => k = 1
          /\ page.marks # {} <=> cam.draft
          /\ (\E k \in DOMAIN page.body : page.body[k].style = "gaps") <=> cam.gaps
    BY <2>4, <2>5, <2>6 DEF ShowsCam
  <2>9. /\ Len(docx.body) = Len(pdf.body)
        /\ \A k \in DOMAIN docx.body :
             docx.body[k].style = pdf.body[k].style /\ docx.body[k].shows = pdf.body[k].shows
    BY <2>4, Zenon DEF Alike
  <2> QED
    BY <2>3, <2>7, <2>8, <2>9 DEF ExportsShowEverything, cam
<1> QED
  BY <1>1, AnswersAreComputed, PTL
=============================================================================
