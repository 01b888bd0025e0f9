---------------------------- MODULE HybridSearch ----------------------------
(***************************************************************************)
(* A search for text and for nearest neighbours (KNN requests) over a tree *)
(* of index aliases.  The first phase gathers the neighbours and the       *)
(* number of documents of every index; the alias at the root keeps the     *)
(* best of all, sends each hit back along the path it came by, and the     *)
(* second phase runs the text query.  Scores are added, or the root fuses  *)
(* them (rescorer.go, fusion/).  Between two steps an index may lose a     *)
(* document, compact its document numbers, and a nested alias may swap its *)
(* children; searches of children may fail.                                *)
(*                                                                         *)
(* Scores are given as numbers, different for different documents; a       *)
(* vector index, a text query and a filter are modelled by what they find. *)
(***************************************************************************)
EXTENDS Integers, FiniteSets, Sequences, FiniteSetsExt

CONSTANTS
  Leaves, Aliases, Root,  \* the nodes of the tree; Root may be a leaf
  Kids,                   \* [Aliases -> SUBSET nodes]: its shape at first
  Swaps,                  \* what a nested alias may get as new children
  Docs, Numbered,         \* [Leaves -> Seq(Docs)]: by document number at first
  Requests,               \* the searches: see req below
  NumKNN,                 \* number of KNN requests
  K,                      \* [1..NumKNN -> Nat]
  Weight,                 \* [0..NumKNN -> Nat]: boosts, of the text query at 0
  RankConstant,
  MayFail,                \* the nodes whose search may fail
  MaxChanges,             \* bound on what others do meanwhile
  Scale,                  \* scores are multiples of 1/Scale
  NoReply

VARIABLES
  req,      \* the request, with what its queries find; it does not change
  kids,     \* children of every alias
  stored,   \* [Leaves -> Seq([doc, live])]: by document number
  changes,  \* deletions, compactions and swaps so far
  at,       \* "ready", "first", "second", "done"
  asked,    \* [nodes -> the children it asked in this phase, or NoReply]
  first,    \* replies of the first phase
  given,    \* pre-search data sent to a node: [hits, count], or NoReply
  second,   \* replies of the second phase
  answer

vars == <<req, kids, stored, changes, at, asked, first, given, second, answer>>

MatchNone == req.none      \* the text query is a match_none query
Text == req.text           \* [Docs -> Nat]: its score, 0 for no match
Near == req.near           \* [1..NumKNN -> [Docs -> Nat]], 0: no such vector
Filter == req.filter       \* [1..NumKNN -> SUBSET Docs]; Docs: no filter
Operator == req.operator   \* "or" or "and"
Score == req.score         \* "add" (the default), "rrf" or "rsf"
Window == req.window       \* ScoreWindowSize of the fusion
From == req.from
Size == req.size
Facets == req.facets       \* whether there are facets

Nodes == Leaves \union Aliases
KNN == 1..NumKNN
Fused == Score \in {"rrf", "rsf"}
IsAsked(n) == \E a \in Aliases : asked[a] # NoReply /\ n \in asked[a]

-----------------------------------------------------------------------------
(* Documents of an index.                                                  *)

Live(l) == {i \in DOMAIN stored[l] : stored[l][i].live}
LiveDocs(l) == {stored[l][i].doc : i \in Live(l)}

\* prepareSearchRequest sets boosts to 1 when the scores are fused later
Boost(q) == IF Fused THEN 1 ELSE Weight[q]

\* createKNNQuery leaves out a request whose filter matches nothing here
SubQueries(l) ==
  LET Runs(q) == Filter[q] = Docs \/ Filter[q] \intersect LiveDocs(l) # {}
  IN  SelectSeq([q \in KNN |-> q], Runs)

TopBy(S, n, v) == {x \in S : Cardinality({y \in S : v[y] > v[x]}) < n}

\* collectStoreKNN: for every position of the score breakdown the best k hits,
\* which keep the scores of the positions where they are among them
BestHits(hits, ks) ==
  LET Has(p) == {h \in hits : p \in DOMAIN h.by}
      Best(p) == TopBy(Has(p), ks[p], [h \in Has(p) |-> h.by[p]])
      Kept(h) == {p \in DOMAIN h.by \intersect DOMAIN ks : h \in Best(p)}
  IN  {[h EXCEPT !.by = [p \in Kept(h) |-> h.by[p]]] :
        h \in {x \in hits : Kept(x) # {}}}

\* The neighbours an index finds; by: from position to score
NeighboursIn(l) ==
  LET subs == SubQueries(l)
      Found(i) == {p \in DOMAIN subs : /\ Near[subs[p]][stored[l][i].doc] > 0
                                       /\ stored[l][i].doc \in Filter[subs[p]]}
  IN  BestHits({[doc |-> stored[l][i].doc, num |-> i, path |-> <<>>,
                 by |-> [p \in Found(i) |->
                          Boost(subs[p]) * Near[subs[p]][stored[l][i].doc]]] :
                  i \in {j \in Live(l) : Found(j) # {}}},
               [p \in DOMAIN subs |-> K[subs[p]]])

\* finalizeKNNResults: with "and" a hit needs every request
Finalized(hits) ==
  IF Operator = "and"
  THEN {h \in hits : Cardinality(DOMAIN h.by) = NumKNN} ELSE hits

ScoreOf(by) == MapThenSumSet(LAMBDA p : by[p], DOMAIN by)

-----------------------------------------------------------------------------
(* Results: hits with scores, cut to pages; equal scores in any order.     *)

Tops(hits, n) ==
  {A \in SUBSET hits :
     /\ Cardinality(A) = IF n < Cardinality(hits) THEN n ELSE Cardinality(hits)
     /\ \A x \in A, y \in hits \ A : x.score >= y.score}

\* hitsInCurrentPage
Pages(hits, from, size) ==
  {A \ B : <<A, B>> \in {c \in Tops(hits, from + size) \X Tops(hits, from) :
                           c[2] \subseteq c[1]}}

Result(hits, matched, total, failed, counted) ==
  [error |-> FALSE, hits |-> hits, matched |-> matched,
   total |-> total, failed |-> failed, counted |-> counted]

Error == [error |-> TRUE, hits |-> {}, matched |-> 0, total |-> 0,
          failed |-> 0, counted |-> {}]

\* the first hit has rank 0
RankFromZero(S, x, v) == Cardinality({y \in S : v[y] > v[x]})

\* The scores of fusion: weights[p] * rank or scaled score at position p,
\* of the first Window hits there
Rank(S, x, v) == 1 + Cardinality({y \in S : v[y] > v[x]})

RankScore(S, x, v, w) ==
  LET r == Rank(S, x, v)
  IN  IF r <= Window THEN (w * Scale) \div (RankConstant + r) ELSE 0

RelativeScore(S, x, v, w) ==
  LET best == TopBy(S, Window, v)
      low == CHOOSE y \in best : \A z \in best : v[y] <= v[z]
      high == CHOOSE y \in best : \A z \in best : v[y] >= v[z]
  IN  IF x \notin best THEN 0
      ELSE IF v[high] > v[low]
           THEN (w * Scale * (v[x] - v[low])) \div (v[high] - v[low])
           ELSE w * Scale

Part(S, x, v, w) ==
  IF Score = "rrf" THEN RankScore(S, x, v, w) ELSE RelativeScore(S, x, v, w)

\* rescorer.mergeDocs: text hits get the breakdown of the neighbour with
\* their id, the other neighbours are added with score 0
Merged(texts, near) ==
  LET By(d) == IF \E h \in near : h.doc = d
               THEN (CHOOSE h \in near : h.doc = d).by ELSE <<>>
  IN  {[doc |-> t.doc, score |-> t.score, by |-> By(t.doc)] : t \in texts}
      \union {[doc |-> h.doc, score |-> 0, by |-> h.by] :
                h \in {x \in near : \A t \in texts : t.doc # x.doc}}

\* ReciprocalRankFusion, RelativeScoreFusion
Rescored(texts, near) ==
  LET hits == Merged(texts, near)
      InText == {h \in hits : h.score # 0}
      At(p) == {h \in hits : p \in DOMAIN h.by}
      OfText(h) == IF h \in InText
                   THEN Part(InText, h, [x \in InText |-> x.score], Weight[0]) ELSE 0
      OfNear(h, p) == Part(At(p), h, [x \in At(p) |-> x.by[p]], Weight[p])
  IN  {[doc |-> h.doc,
        score |-> OfText(h) + MapThenSumSet(LAMBDA p : OfNear(h, p), DOMAIN h.by)] :
          h \in hits}

-----------------------------------------------------------------------------
Init ==
  /\ req \in Requests
  /\ kids = Kids
  /\ stored = [l \in Leaves |-> [i \in DOMAIN Numbered[l] |->
                                  [doc |-> Numbered[l][i], live |-> TRUE]]]
  /\ changes = 0
  /\ at = "ready"
  /\ asked = [n \in Aliases |-> NoReply]
  /\ first = [n \in Nodes |-> NoReply]
  /\ given = [n \in Nodes |-> NoReply]
  /\ second = [n \in Nodes |-> NoReply]
  /\ answer = NoReply

world == <<req, kids, stored, changes>>

Begin ==
  /\ at = "ready" /\ Root \in Aliases
  /\ at' = "first"
  /\ asked' = [asked EXCEPT ![Root] = kids[Root]]
  /\ UNCHANGED <<world, first, given, second, answer>>

-----------------------------------------------------------------------------
(* The first phase.                                                        *)

Found(hits, total, failed, count) ==
  [error |-> FALSE, hits |-> hits, total |-> total, failed |-> failed, count |-> count]

NotFound == [error |-> TRUE, hits |-> {}, total |-> 0, failed |-> 0, count |-> 0]

\* a nested alias: SearchInContext with the PreSearchKey
AskFirst(a) ==
  /\ at = "first" /\ IsAsked(a) /\ asked[a] = NoReply /\ first[a] = NoReply
  /\ \/ /\ asked' = [asked EXCEPT ![a] = kids[a]]
        /\ UNCHANGED first
     \/ /\ a \in MayFail
        /\ first' = [first EXCEPT ![a] = NotFound]
        /\ UNCHANGED asked
  /\ UNCHANGED <<world, at, given, second, answer>>

\* an index: preSearch
Find(l) ==
  /\ at = "first" /\ IsAsked(l) /\ first[l] = NoReply
  /\ \/ first' = [first EXCEPT ![l] =
           Found(NeighboursIn(l), 1, 0, IF MatchNone THEN 0 ELSE Cardinality(Live(l)))]
     \/ /\ l \in MayFail
        /\ first' = [first EXCEPT ![l] = NotFound]
  /\ UNCHANGED <<world, at, asked, given, second, answer>>

AllReplied(replies, a) ==
  asked[a] # NoReply /\ \A c \in asked[a] : replies[c] # NoReply

Failed1(a) ==
  \E c \in asked[a] : first[c].error \/ first[c].failed > 0

SumOf(a, v) == MapThenSumSet(LAMBDA c : v[c], asked[a])

Stats(a) == SumOf(a, [c \in asked[a] |-> first[c].count])

\* preSearchDataSearch: partial results are not allowed
Combined(a) ==
  LET total == SumOf(a, [c \in asked[a] |-> IF first[c].error THEN 1 ELSE first[c].total])
      hits == UNION {{[h EXCEPT !.path = Append(@, c)] : h \in first[c].hits} :
                       c \in asked[a]}
  IN  IF Failed1(a) THEN Found({}, total, total, 0)
                    ELSE Found(BestHits(hits, K), total, 0, Stats(a))

GatherFirst(a) ==
  /\ at = "first" /\ a # Root /\ first[a] = NoReply /\ AllReplied(first, a)
  /\ first' = [first EXCEPT ![a] = Combined(a)]
  /\ UNCHANGED <<world, at, asked, given, second, answer>>

-----------------------------------------------------------------------------
(* Between the phases.                                                     *)

Top(h) == h.path[Len(h.path)]
Popped(h) == [h EXCEPT !.path = SubSeq(@, 1, Len(@) - 1)]

\* every child gets every hit
HitsToAll(hits, c) == {Popped(h) : h \in hits}

\* validateAndDistributeKNNHits for one child
HitsOf(hits, c) == {Popped(h) : h \in {x \in hits : Top(x) = c}}

\* constructPreSearchData, redistributePreSearchData
Handed(hits, count, children) ==
  [n \in Nodes |-> IF n \in children
                   THEN [hits |-> HitsOf(hits, n), count |-> count] ELSE given[n]]

Rescore(texts, near) ==
  {[hits |-> page, matched |-> Cardinality(w)] :
     <<w, page>> \in UNION {{<<w, p>> : p \in Pages(w, From, Size)} :
                              w \in Tops(Rescored(texts, near), Window)}}

\* Decide at the root what the pre-search leads to
Decide ==
  /\ at = "first" /\ Root \in Aliases /\ AllReplied(first, Root)
  /\ LET r == Combined(Root)
         near == Finalized(r.hits)
         simple == {[doc |-> h.doc, score |-> ScoreOf(h.by)] : h \in near}
     IN  \/ /\ r.failed > 0
            /\ at' = "done"
            /\ answer' = Result({}, 0, r.total, r.failed, {})
            /\ UNCHANGED <<asked, given>>
         \/ /\ r.failed = 0 /\ MatchNone /\ ~Facets /\ ~Fused
            /\ \E page \in Pages(simple, From, Size) :
                 answer' = Result(page, Cardinality(simple), r.total, 0, {})
            /\ at' = "done"
            /\ UNCHANGED <<asked, given>>
         \/ /\ r.failed = 0 /\ MatchNone /\ ~Facets /\ Fused
            /\ \E s \in Rescore({}, near) :
                 answer' = Result(s.hits, s.matched, r.total, 0, {})
            /\ at' = "done"
            /\ UNCHANGED <<asked, given>>
         \/ /\ r.failed = 0 /\ (~MatchNone \/ Facets)
            /\ at' = "second"
            /\ asked' = [n \in Aliases |-> IF n = Root THEN asked[n] ELSE NoReply]
            /\ given' = [Handed(IF Fused THEN {} ELSE near, r.count, asked[Root])
                           EXCEPT ![Root] = [hits |-> near, count |-> r.count]]
            /\ UNCHANGED answer
  /\ UNCHANGED <<world, first, second>>

-----------------------------------------------------------------------------
(* The second phase.                                                       *)

\* a nested alias gets pre-search data and sends it on, unless a hit came
\* from a child that it no longer has
AskSecond(a) ==
  /\ at = "second" /\ IsAsked(a) /\ asked[a] = NoReply /\ second[a] = NoReply
  /\ \/ /\ \A h \in given[a].hits : Top(h) \in kids[a]
        /\ asked' = [asked EXCEPT ![a] = kids[a]]
        /\ given' = Handed(given[a].hits, given[a].count, kids[a])
        /\ UNCHANGED second
     \/ /\ a \in MayFail \/ \E h \in given[a].hits : Top(h) \notin kids[a]
        /\ second' = [second EXCEPT ![a] = Error]
        /\ UNCHANGED <<asked, given>>
  /\ UNCHANGED <<world, at, first, answer>>

Wide == IF Fused THEN Window ELSE From + Size

\* TopNCollector.Collect: text hits with the score of the neighbour of the
\* same id, then the neighbours that are left, in no fused search
Collected(l, near) ==
  LET docs == {d \in LiveDocs(l) : Text[d] > 0}
      used == IF Fused THEN {} ELSE near
      left == {h \in used : h.doc \notin docs}
      Extra(d) == MapThenSumSet(LAMBDA h : ScoreOf(h.by), {h \in used : h.doc = d})
      Visits(h) == h.num <= Len(stored[l])
  IN  [hits |-> {[doc |-> d, score |-> Boost(0) * Text[d] + Extra(d)] : d \in docs}
                \union {[doc |-> h.doc, score |-> ScoreOf(h.by)] : h \in left},
       counted |-> IF ~Facets THEN {}
                   ELSE {<<d, d>> : d \in docs}
                        \union {<<h.doc, stored[l][h.num].doc>> :
                                  h \in {x \in left : Visits(x)}}]

Answer(l) ==
  /\ at = "second" /\ IsAsked(l) /\ second[l] = NoReply
  /\ LET c == Collected(l, given[l].hits)
     IN  \/ \E page \in Tops(c.hits, Wide) :
              second' = [second EXCEPT ![l] =
                           Result(page, Cardinality(c.hits), 1, 0, c.counted)]
         \/ /\ l \in MayFail
            /\ second' = [second EXCEPT ![l] = Error]
  /\ UNCHANGED <<world, at, asked, first, given, answer>>

\* MultiSearch without its cut
Together(a) ==
  LET one(c) == IF second[c].error THEN 1 ELSE 0
  IN  Result(UNION {second[c].hits : c \in asked[a]},
             SumOf(a, [c \in asked[a] |-> second[c].matched]),
             SumOf(a, [c \in asked[a] |-> second[c].total + one(c)]),
             SumOf(a, [c \in asked[a] |-> second[c].failed + one(c)]),
             UNION {second[c].counted : c \in asked[a]})

\* an alias of one index hands its answer through
GatherSecond(a) ==
  /\ at = "second" /\ a # Root /\ second[a] = NoReply /\ AllReplied(second, a)
  /\ \/ /\ Cardinality(asked[a]) = 1
        /\ \E c \in asked[a] : second' = [second EXCEPT ![a] = second[c]]
     \/ /\ Cardinality(asked[a]) > 1
        /\ \E page \in Tops(Together(a).hits, Wide) :
             second' = [second EXCEPT ![a] = [Together(a) EXCEPT !.hits = page]]
  /\ UNCHANGED <<world, at, asked, first, given, answer>>

Finish ==
  /\ at = "second" /\ AllReplied(second, Root)
  /\ at' = "done"
  /\ LET t == Together(Root)
     IN  \/ /\ ~Fused
            /\ \E page \in Pages(t.hits, From, Size) :
                 answer' = [t EXCEPT !.hits = page]
         \/ /\ Fused
            /\ \E s \in Rescore(t.hits, given[Root].hits) :
                 answer' = [t EXCEPT !.hits = s.hits, !.matched = s.matched]
  /\ UNCHANGED <<world, asked, first, given, second>>

\* A search of a single index; with fusion an error of the neighbours is lost
Direct ==
  /\ at = "ready" /\ Root \in Leaves
  /\ at' = "done"
  /\ \E fails \in {FALSE} \union {Root \in MayFail} :
       LET near == IF fails THEN {} ELSE Finalized(NeighboursIn(Root))
           c == Collected(Root, near)
       IN  \/ /\ fails /\ ~Fused
              /\ answer' = Error
           \/ /\ ~fails /\ ~Fused
              /\ \E page \in Pages(c.hits, From, Size) :
                   answer' = Result(page, Cardinality(c.hits), 1, 0, c.counted)
           \/ /\ Fused
              /\ \E texts \in Tops(c.hits, Window) : \E s \in Rescore(texts, near) :
                   answer' = Result(s.hits, s.matched, 1, 0, c.counted)
  /\ UNCHANGED <<world, asked, first, given, second>>

-----------------------------------------------------------------------------
(* Meanwhile: a document is deleted, a merge compacts an index, a nested   *)
(* alias that is not in a search gets other children.                      *)

search == <<at, asked, first, given, second, answer>>

Change == changes < MaxChanges /\ changes' = changes + 1

Delete(l) ==
  /\ Change
  /\ \E i \in Live(l) : stored' = [stored EXCEPT ![l][i].live = FALSE]
  /\ UNCHANGED <<req, kids, search>>

Compact(l) ==
  /\ Change
  /\ Live(l) # DOMAIN stored[l]
  /\ stored' = [stored EXCEPT ![l] = SelectSeq(@, LAMBDA x : x.live)]
  /\ UNCHANGED <<req, kids, search>>

InSearch(a) ==
  /\ asked[a] # NoReply
  /\ IF at = "first" THEN first[a] = NoReply ELSE at = "second" /\ second[a] = NoReply

Swap(a) ==
  /\ Change /\ a # Root /\ ~InSearch(a)
  /\ \E s \in Swaps \ {kids[a]} : kids' = [kids EXCEPT ![a] = s]
  /\ UNCHANGED <<req, stored, search>>

Others == \/ \E l \in Leaves : Delete(l) \/ Compact(l)
          \/ \E a \in Aliases : Swap(a)

Steps ==
  \/ Begin \/ Decide \/ Finish \/ Direct
  \/ \E a \in Aliases : AskFirst(a) \/ GatherFirst(a) \/ AskSecond(a) \/ GatherSecond(a)
  \/ \E l \in Leaves : Find(l) \/ Answer(l)

Next == Steps \/ (at # "done" /\ Others)

Spec == Init /\ [][Next]_vars

\* Every goroutine of a search goes on; nobody else needs to.
FairSpec == Spec /\ WF_vars(Steps)

-----------------------------------------------------------------------------
(* What a search of all documents at once would answer.                    *)

Reached == IF Root \in Leaves THEN {Root} ELSE Leaves \intersect UNION {kids[a] : a \in Aliases}

Everywhere == UNION {LiveDocs(l) : l \in Reached}

Nearest(q) ==
  TopBy({d \in Everywhere \intersect Filter[q] : Near[q][d] > 0}, K[q], Near[q])

Neighbours ==
  LET all == UNION {Nearest(q) : q \in KNN}
      both == {d \in all : \A q \in KNN : d \in Nearest(q)}
  IN  IF Operator = "and" THEN both ELSE all

TextDocs == {d \in Everywhere : Text[d] > 0}

\* for each of the lists, the text list and those of the requests
Whole(d) ==
  LET texts == TopBy(TextDocs, Window, Text)
      near(q) == Neighbours \intersect Nearest(q)
      ofText == IF d \in texts THEN Part(texts, d, Text, Weight[0]) ELSE 0
      ofNear(q) == IF d \in near(q)
                   THEN Part(near(q), d, Near[q], Weight[q]) ELSE 0
      plain(q) == IF d \in near(q) THEN Weight[q] * Near[q][d] ELSE 0
  IN  IF Fused THEN ofText + MapThenSumSet(ofNear, KNN)
               ELSE Weight[0] * Text[d] + MapThenSumSet(plain, KNN)

WholeHits == {[doc |-> d, score |-> Whole(d)] : d \in TextDocs \union Neighbours}

-----------------------------------------------------------------------------
(* Properties.                                                             *)

\* Types of the replies and of the answer, and what is asked is a child.
TypeOK ==
  /\ at \in {"ready", "first", "second", "done"}
  /\ \A a \in Aliases : asked[a] = NoReply \/ asked[a] \subseteq Nodes \ {Root}
  /\ \A l \in Leaves : \A i \in DOMAIN stored[l] : stored[l][i].doc \in Docs
  /\ (answer = NoReply) <=> (at # "done")
  /\ \A n \in Nodes : second[n] # NoReply => \A h \in second[n].hits : h.doc \in Docs

\* While nothing changes and nothing fails, a search of the tree answers what
\* one search of all the documents would: the same hits and scores, page for
\* page (index_alias_impl.go SearchInContext, MultiSearch, rescorer).
AnswersAsOne ==
  (at = "done" /\ changes = 0 /\ ~answer.error /\ answer.failed = 0) =>
    IF Fused
    THEN \E w \in Tops(WholeHits, Window) : answer.hits \in Pages(w, From, Size)
    ELSE /\ answer.hits \in Pages(WholeHits, From, Size)
         /\ answer.matched = Cardinality(WholeHits)

\* The root keeps the best K neighbours of all indexes for each KNN request,
\* with the scores they have for the request (collectStoreKNN).
BestOfAll ==
  (at = "second" /\ changes = 0) =>
    LET near == given[Root].hits
    IN  /\ {h.doc : h \in near} = Neighbours
        /\ \A h \in near : h.by = [q \in {x \in KNN : h.doc \in Nearest(x)} |->
                                     Boost(q) * Near[q][h.doc]]

\* A neighbour returns only to the index that found it, whatever children the
\* aliases on its way got between the phases (validateAndDistributeKNNHits).
HitsComeHome ==
  \A l \in Leaves : given[l] # NoReply =>
    /\ given[l].hits # {} => first[l] # NoReply
    /\ \A h \in given[l].hits : \E f \in first[l].hits : f.doc = h.doc /\ f.num = h.num

\* When the first phase failed anywhere, the answer has no hits and counts
\* every index as failed (preSearchDataSearch: partial results are not allowed).
AllOrNothing ==
  (at = "done" /\ \E n \in Nodes : first[n] # NoReply /\ first[n].error) =>
    /\ answer.hits = {}
    /\ answer.failed = answer.total
    /\ answer.failed > 0

\* An answer whose status shows no failure holds what every index answered.
FailuresShow ==
  (at = "done" /\ ~answer.error) =>
    /\ answer.failed <= answer.total
    /\ (answer.failed = 0) => \A n \in Nodes : second[n] # NoReply => ~second[n].error

\* With global scoring every index scores with the number of documents of all
\* indexes (constructBM25PreSearchData).
GlobalStats ==
  \A l \in Leaves : (given[l] # NoReply /\ changes = 0) =>
    given[l].count = IF MatchNone THEN 0 ELSE Cardinality(Everywhere)

\* Facets count each hit by its own terms (TopNCollector.prepareDocumentMatch).
FacetsOfHits ==
  (at = "done" /\ ~answer.error) => \A p \in answer.counted : p[1] = p[2]

\* A search ends: nobody waits for a child that was never asked.
Answered == <>(at = "done")

=============================================================================
