----------------------------- MODULE Searchers -----------------------------
(***************************************************************************)
(* The tree of searchers a query is turned into (search/query/boolean.go,  *)
(* conjunction.go, disjunction.go; search/searcher): every node hands out  *)
(* the documents it matches in the order of their numbers, by Next or, from *)
(* a number on, by Advance.  A node that has children holds the hit each of *)
(* them is at, and has asked them for the next one before it returns its   *)
(* own.  A hit carries the clauses it is scored by.                        *)
(***************************************************************************)
EXTENDS Integers, FiniteSets, Sequences, FiniteSetsExt

CONSTANTS MaxDoc,    \* bound: the documents are 0 .. MaxDoc
          Names,     \* the names of terms, phrases and sets of identifiers
          Queries,   \* the queries over them
          Scored,    \* FALSE: SearcherOptions.Score is "none"
          Advancing  \* the searcher is within another, that advances it

\* What is assumed of the constants.
SearchersAssumption == MaxDoc \in Nat /\ {Scored, Advancing} \subseteq BOOLEAN

VARIABLES query, searcher,
          docs,    \* the documents of each name
          asked,   \* the number the last call asked from; -1 before the first
          hit      \* what it returned

vars == <<query, searcher, docs, asked, hit>>

AllDocs == 0 .. MaxDoc
End == MaxDoc + 1
NoHit == [id |-> End, by |-> {}]
NoSearcher == [op |-> "nil"]

Larger(a, b) == IF a > b THEN a ELSE b

---------------------------------------------------------------------------
(* Building the tree *)

Leaf(op, by, ids) == [op |-> op, by |-> by, docs |-> ids, at |-> 0, curr |-> -1]

\* Without scores the terms below a conjunction, or a disjunction of min 0 or
\* 1, become the postings of one term.
Optimizable(kids, scored) ==
  Len(kids) > 1 /\ ~scored /\ \A i \in DOMAIN kids : kids[i].op = "term"

InAll(kids) == {d \in AllDocs : \A i \in DOMAIN kids : d \in kids[i].docs}
InAny(kids) == UNION {kids[i].docs : i \in DOMAIN kids}

Composite(op, kids, min, heap) ==
  [op |-> op, kids |-> kids, min |-> min, heap |-> heap, ready |-> FALSE,
   currs |-> [i \in DOMAIN kids |-> NoHit]]

Conjunction(kids, scored) ==
  IF Optimizable(kids, scored) THEN Leaf("term", {}, InAll(kids))
                               ELSE Composite("and", kids, 0, FALSE)

Disjunction(kids, min, heap, scored) ==
  IF min <= 1 /\ Optimizable(kids, scored)
  THEN Leaf("term", {}, InAny(kids)) ELSE Composite("or", kids, min, heap)

Filtering(kid, filter) == [op |-> "filter", kid |-> kid, filter |-> filter]

MatchAll == Leaf("all", {}, AllDocs)

\* A single clause needs no boolean searcher, except below a filter.
Boolean(must, should, mustNot, filtered) ==
  LET nothing == must = NoSearcher /\ should = NoSearcher
      base == IF nothing THEN MatchAll ELSE must
      alone == mustNot = NoSearcher /\ NoSearcher \in {must, should}
  IN  IF alone /\ (nothing <=> filtered)
      THEN IF should = NoSearcher THEN base ELSE should
      ELSE [op |-> "bool", must |-> base, should |-> should,
            mustNot |-> mustNot, currMust |-> NoHit, currShould |-> NoHit,
            currMustNot |-> NoHit, ready |-> FALSE, done |-> FALSE]

RECURSIVE Searcher(_, _)
Searcher(q, scored) ==
  CASE q.op = "nil"  -> NoSearcher
    [] q.op \in {"term", "docid"} -> Leaf(q.op, {q.name}, docs[q.name])
    [] q.op = "and"  ->
         Conjunction([i \in DOMAIN q.of |-> Searcher(q.of[i], scored)], scored)
    [] q.op = "or"   ->
         Disjunction([i \in DOMAIN q.of |-> Searcher(q.of[i], scored)],
                     q.min, q.heap, scored)
    [] q.op = "phrase" ->
         [op |-> "phrase", must |-> Searcher(q.of, TRUE), docs |-> docs[q.name],
          curr |-> NoHit, ready |-> FALSE]
    [] q.op = "bool" ->
         LET filtered == q.filter # NoSearcher
             s == Boolean(Searcher(q.must, scored), Searcher(q.should, scored),
                          Searcher(q.mustNot, scored), filtered)
         IN  IF ~filtered THEN s ELSE Filtering(s, Searcher(q.filter, FALSE))

\* What a boolean searcher asks of its should searcher.
RECURSIVE Min0(_)
Min0(s) == CASE s.op = "or" -> s.min = 0
             [] s.op = "filter" -> Min0(s.kid)
             [] OTHER -> TRUE

---------------------------------------------------------------------------
(* Next and Advance.  Both return the searcher as it is then and the hit.  *)

RECURSIVE Next(_), Advance(_, _)

Returns(s, h) == [s |-> s, hit |-> h]

\* A reader of postings: the first document from that number on.
LeafFrom(s, from) ==
  LET ids == {d \in s.docs : d >= from}
  IN  IF ids = {} THEN Returns([s EXCEPT !.at = End], NoHit)
      ELSE Returns([s EXCEPT !.at = Min(ids) + 1, !.curr = Min(ids)],
                   [id |-> Min(ids), by |-> s.by])

\* A reader of document numbers goes on from where it is.
DocIDAdvance(s, id) == LeafFrom(s, Larger(s.at, id))

\* A reader of a term seeks backwards, by starting again.
TermAdvance(s, id) == LeafFrom(s, IF s.curr >= id THEN id ELSE Larger(s.at, id))

\* The children of those numbers are moved by Next or by Advance.
Moved(s, is, to) ==
  LET r == [i \in is |-> IF to = -1 THEN Next(s.kids[i])
                                    ELSE Advance(s.kids[i], to)]
  IN  [s EXCEPT !.kids = [i \in DOMAIN @ |-> IF i \in is THEN r[i].s ELSE @[i]],
                !.currs = [i \in DOMAIN @ |-> IF i \in is THEN r[i].hit ELSE @[i]]]

InitSearchers(s) ==
  IF s.ready THEN s ELSE [Moved(s, DOMAIN s.kids, -1) EXCEPT !.ready = TRUE]

CurrIDs(s) == {s.currs[i].id : i \in DOMAIN s.currs}
HitOf(s, is) == [id |-> Min(CurrIDs(s)), by |-> UNION {s.currs[i].by : i \in is}]

\* A conjunction moves the children that are behind until all are at the same
\* document.  The numbers maxIDIdx takes on the way to the largest are left
\* out.
RECURSIVE AndNext(_)
AndNext(s) ==
  LET maxID == Max(CurrIDs(s))
      behind == {i \in DOMAIN s.currs : s.currs[i].id < maxID}
  IN  IF maxID = End THEN Returns(s, NoHit)
      ELSE IF behind # {} THEN AndNext(Moved(s, behind, maxID))
      ELSE Returns(Moved(s, DOMAIN s.kids, -1), HitOf(s, DOMAIN s.kids))

AndAdvance(s, id) ==
  AndNext(Moved(s, {i \in DOMAIN s.currs : s.currs[i].id \notin id .. MaxDoc}, id))

\* The children at the smallest document.
Matching(s) ==
  {i \in DOMAIN s.currs : s.currs[i].id = Min(CurrIDs(s)) /\ s.currs[i].id # End}

\* A disjunction skips the documents fewer than min children match.
RECURSIVE OrNext(_)
OrNext(s) ==
  LET is == Matching(s)
      moved == Moved(s, is, -1)
  IN  IF is = {} THEN Returns(s, NoHit)
      ELSE IF Cardinality(is) >= s.min THEN Returns(moved, HitOf(s, is))
      ELSE OrNext(moved)

\* The children that are at their end have left the heap; the slice asks them
\* again.
OrAdvance(s, id) ==
  OrNext(Moved(s, {i \in DOMAIN s.currs :
                     \/ s.currs[i].id < id
                     \/ ~s.heap /\ s.currs[i].id = End}, id))

RECURSIVE PhraseNext(_)
PhraseNext(s) ==
  LET r == Next(s.must)
      moved == [s EXCEPT !.must = r.s, !.curr = r.hit, !.ready = TRUE]
  IN  IF ~s.ready THEN PhraseNext(moved)
      ELSE IF s.curr.id = End THEN Returns(s, NoHit)
      ELSE IF s.curr.id \in s.docs THEN Returns(moved, s.curr)
      ELSE PhraseNext(moved)

PhraseAdvance(s0, id) ==
  LET first == Next(s0.must)
      s == IF s0.ready THEN s0
           ELSE [s0 EXCEPT !.must = first.s, !.curr = first.hit, !.ready = TRUE]
      r == Advance(s.must, id)
  IN  IF s.curr.id >= id THEN PhraseNext(s)
      ELSE PhraseNext([s EXCEPT !.must = r.s, !.curr = r.hit])

\* The filter keeps the hit if its own searcher, advanced to it, returns it.
RECURSIVE FilterFrom(_, _)
FilterFrom(s, r) ==
  LET f == Advance(s.filter, r.hit.id)
      kept == [s EXCEPT !.kid = r.s, !.filter = f.s]
  IN  IF r.hit.id = End THEN Returns([s EXCEPT !.kid = r.s], NoHit)
      ELSE IF f.hit.id = r.hit.id THEN Returns(kept, r.hit)
      ELSE FilterFrom(kept, Next(kept.kid))

(* The boolean searcher.  currentID is the document of the must searcher, or of
   the should searcher when there is no must.                              *)

CurrentID(s) == IF s.must = NoSearcher THEN s.currShould.id ELSE s.currMust.id

MustBy(s, r) == [s EXCEPT !.must = r.s, !.currMust = r.hit]
ShouldBy(s, r) == [s EXCEPT !.should = r.s, !.currShould = r.hit]
MustNotBy(s, r) == [s EXCEPT !.mustNot = r.s, !.currMustNot = r.hit]

AdvanceNextMust(s) == IF s.must = NoSearcher THEN ShouldBy(s, Next(s.should))
                                             ELSE MustBy(s, Next(s.must))

BoolInit(s) ==
  IF s.ready THEN s
  ELSE [MustNotBy(ShouldBy(MustBy(s, Next(s.must)), Next(s.should)),
                  Next(s.mustNot)) EXCEPT !.ready = TRUE]

ShouldAtCurrent(s) ==
  IF s.currShould.id < CurrentID(s)
  THEN ShouldBy(s, Advance(s.should, CurrentID(s))) ELSE s

MustNotAtCurrent(s) ==
  IF s.currMustNot.id < CurrentID(s)
  THEN MustNotBy(s, Advance(s.mustNot, CurrentID(s))) ELSE s

RECURSIVE BoolNext(_)
BoolNext(s) ==
  LET s1 == MustNotAtCurrent(s)
      s2 == ShouldAtCurrent(s1)
      bonus == s2.currShould.id = CurrentID(s)
      by == s2.currMust.by \cup IF bonus THEN s2.currShould.by ELSE {}
  IN  IF s.done \/ CurrentID(s) = End THEN Returns([s EXCEPT !.done = TRUE], NoHit)
      ELSE IF s1.currMustNot.id = CurrentID(s) THEN BoolNext(AdvanceNextMust(s1))
      ELSE IF bonus \/ Min0(s2.should)
      THEN Returns(AdvanceNextMust(s2), [id |-> CurrentID(s), by |-> by])
      ELSE BoolNext(AdvanceNextMust(s2))

\* Mutant: the must-not searcher is advanced also when it is ahead.
MustNotTo(s, id) == MustNotBy(s, Advance(s.mustNot, id))

MustNotFrom(s, id) ==
  IF s.currMustNot.id \in id .. MaxDoc THEN s
  ELSE MustNotBy(s, Advance(s.mustNot, id))

BoolAdvance(s, id) ==
  IF s.done \/ CurrentID(s) \in id .. MaxDoc THEN BoolNext(s)
  ELSE BoolNext(MustNotFrom(ShouldBy(MustBy(s, Advance(s.must, id)),
                                     Advance(s.should, id)), id))

Next(s) ==
  CASE s.op = "nil" -> Returns(s, NoHit)
    [] s.op \in {"term", "docid", "all"} -> LeafFrom(s, s.at)
    [] s.op = "and" -> AndNext(InitSearchers(s))
    [] s.op = "or" -> OrNext(InitSearchers(s))
    [] s.op = "phrase" -> PhraseNext(s)
    [] s.op = "filter" -> FilterFrom(s, Next(s.kid))
    [] s.op = "bool" -> BoolNext(BoolInit(s))

Advance(s, id) ==
  CASE s.op = "nil" -> Returns(s, NoHit)
    [] s.op = "term" -> TermAdvance(s, id)
    [] s.op \in {"docid", "all"} -> DocIDAdvance(s, id)
    [] s.op = "and" -> AndAdvance(InitSearchers(s), id)
    [] s.op = "or" -> OrAdvance(InitSearchers(s), id)
    [] s.op = "phrase" -> PhraseAdvance(s, id)
    [] s.op = "filter" -> FilterFrom(s, Advance(s.kid, id))
    [] s.op = "bool" -> BoolAdvance(BoolInit(s), id)

---------------------------------------------------------------------------
(* A query is searched: the calls ask for ever larger documents. *)

Init == /\ query \in Queries /\ docs \in [Names -> SUBSET AllDocs]
        /\ searcher = Searcher(query, Scored)
        /\ asked = -1 /\ hit = NoHit

From == IF asked = -1 THEN 0 ELSE hit.id + 1

Reply(r, id) == /\ searcher' = r.s /\ hit' = r.hit /\ asked' = id
                /\ UNCHANGED <<query, docs>>

CallNext == From <= End /\ Reply(Next(searcher), From)

CallAdvance(id) == Advancing /\ id >= From /\ Reply(Advance(searcher, id), id)

Step == CallNext \/ \E id \in AllDocs : CallAdvance(id)

Spec == Init /\ [][Step]_vars

---------------------------------------------------------------------------
(* What a query means: the documents it matches, and the clauses of each.  *)

RECURSIVE Meaning(_)
Meaning(q) ==
  CASE q.op \in {"term", "docid"} -> docs[q.name]
    [] q.op = "and" -> {d \in AllDocs : \A i \in DOMAIN q.of : d \in Meaning(q.of[i])}
    [] q.op = "or" -> {d \in AllDocs : LET is == {i \in DOMAIN q.of : d \in Meaning(q.of[i])}
                                       IN  is # {} /\ Cardinality(is) >= q.min}
    [] q.op = "phrase" -> Meaning(q.of) \cap docs[q.name]
    [] q.op = "bool" ->
         LET Of(c) == IF c = NoSearcher THEN AllDocs ELSE Meaning(c)
             optional == q.must # NoSearcher /\ Min0(q.should)
         IN  (Of(q.must) \cap Of(q.filter) \cap IF optional THEN AllDocs ELSE Of(q.should))
               \ (IF q.mustNot = NoSearcher THEN {} ELSE Meaning(q.mustNot))

RECURSIVE Clauses(_, _)
Clauses(q, d) ==
  CASE q.op = "nil" -> {}
    [] d \notin Meaning(q) -> {}
    [] q.op \in {"term", "docid"} -> {q.name}
    [] q.op \in {"and", "or"} -> UNION {Clauses(q.of[i], d) : i \in DOMAIN q.of}
    [] q.op = "phrase" -> Clauses(q.of, d)
    [] q.op = "bool" -> Clauses(q.must, d) \cup Clauses(q.should, d)

---------------------------------------------------------------------------
(* Properties *)

\* A call returns the first document the query matches from the number asked
\* on: none is lost, repeated or returned though the query excludes it.
ResultsExact ==
  asked # -1 => hit.id = Min({d \in Meaning(query) : d >= asked} \cup {End})

\* A document is scored by all the clauses that match it, whichever calls led
\* to it.
ScoresComplete == asked # -1 /\ hit # NoHit => hit.by = Clauses(query, hit.id)
=============================================================================
