------------------------------- MODULE Facets -------------------------------
(* The counts of one facet of a search: the builders that count the values   *)
(* of the hits of one index (search/facet), and the merge of the results of  *)
(* several indexes into one (search/facets_builder.go), as MultiSearch does  *)
(* in the order in which they arrive.  A facet counts terms, or numbers in   *)
(* named ranges; dates are counted like numbers.                             *)
EXTENDS Naturals, Sequences, FiniteSets, SequencesExt, FiniteSetsExt, Functions

CONSTANTS
  Docs,     \* the matching documents
  Values,   \* numbers that stand for terms, or that are in ranges
  Indexes,  \* the indexes the documents are in
  Ranges,   \* names (numbers) of ranges to records [min, max]; empty: a facet of terms
  Size      \* how many terms or ranges the request asks for

NoBound == 1000   \* a range without this bound

\* What is assumed of the constants.
FacetsAssumption ==
  /\ Docs \subseteq Nat /\ Values \subseteq 0..(NoBound - 1) /\ Size \in Nat
  /\ \A n \in DOMAIN Ranges : Ranges[n] \in [min : 0..NoBound, max : 0..NoBound]

VARIABLES
  values,   \* the values of the facet's field in every document
  home,     \* the index of every document
  pending,  \* the indexes whose result has not arrived
  facet,    \* the facet result merged so far, or NoFacet
  done      \* whether Fixup has trimmed the merged result

vars == <<values, home, pending, facet, done>>

OfTerms == Ranges = <<>>
NoFacet == [total |-> 0, missing |-> 0, other |-> 0, listed |-> <<>>, counts |-> <<>>]

SumOver(counts, S) == FoldFunctionOnSet(+, 0, counts, S)

(***************************************************************************)
(* Building.  counts is the builder's termsCount.                          *)
(***************************************************************************)
(* What a builder does with a value: a term counts for itself, a number for  *)
(* every range it is in.                                                     *)
TermsOf(v) == {v}

InRange(v, r) == (r.min = NoBound \/ v >= r.min) /\ (r.max = NoBound \/ v < r.max)

RangesOf(v) == {n \in DOMAIN Ranges : InRange(v, Ranges[n])}

(* The visitor gets a number once for each precision it is indexed with, and *)
(* only counts the value with shift 0.                                       *)
Shifts == {0, 4}

UpdateVisitor(b, v, shift) ==
  LET hit == IF OfTerms THEN TermsOf(v) ELSE IF shift = 0 THEN RangesOf(v) ELSE {}
  IN  [b EXCEPT !.sawValue = TRUE,
                !.total = @ + Cardinality(hit),
                !.counts = [x \in DOMAIN @ \cup hit |->
                              (IF x \in DOMAIN @ THEN @[x] ELSE 0) + (IF x \in hit THEN 1 ELSE 0)]]

(* Mutant: the value seen in the document before still counts. *)
StartDocKeeps(b) == b

StartDoc(b) == [b EXCEPT !.sawValue = FALSE]
EndDoc(b) == [b EXCEPT !.missing = IF b.sawValue THEN @ ELSE @ + 1]

VisitDoc(b, d) ==
  LET visits == IF OfTerms THEN values[d] \X {0} ELSE values[d] \X Shifts
  IN  EndDoc(FoldSet(LAMBDA v, acc : UpdateVisitor(acc, v[1], v[2]), StartDoc(b), visits))

(* Less of the results: the larger count first, then the smaller name. *)
Less(counts, x, y) == counts[x] > counts[y] \/ (counts[x] = counts[y] /\ x < y)

Ordered(counts, S) == SetToSortSeq(S, LAMBDA x, y : Less(counts, x, y))

TopN(list) == SubSeq(list, 1, IF Size < Len(list) THEN Size ELSE Len(list))

(* Result.  TrimToTopN shortens the list of terms and leaves them all in     *)
(* termLookup; a list of ranges has no lookup.                               *)
Result(b) ==
  LET listed == TopN(Ordered(b.counts, DOMAIN b.counts))
  IN  [total   |-> b.total,
       missing |-> b.missing,
       other   |-> b.total - SumOver(b.counts, ToSet(listed)),
       listed  |-> listed,
       counts  |-> IF OfTerms THEN b.counts ELSE Restrict(b.counts, ToSet(listed))]

FacetOf(i) ==
  LET builder == [total |-> 0, missing |-> 0, sawValue |-> FALSE, counts |-> <<>>]
  IN  Result(FoldSet(LAMBDA d, b : VisitDoc(b, d), builder, {d \in Docs : home[d] = i}))

(***************************************************************************)
(* Merging.  The result of the first index to answer is the one the others *)
(* are added to.                                                           *)
(***************************************************************************)
(* The entry that an added one is the same as: of a term, what termLookup    *)
(* has for it; of a range, one with the same bounds.                         *)
SameEntry(f, x) ==
  IF OfTerms THEN {x} \cap DOMAIN f.counts
  ELSE {y \in DOMAIN f.counts : Ranges[y] = Ranges[x]}

AddEntry(f, x, n) ==
  IF SameEntry(f, x) # {}
  THEN LET first == SelectInSeq(f.listed, LAMBDA y : y \in SameEntry(f, x))
           same  == IF first = 0 THEN x ELSE f.listed[first]
       IN  [f EXCEPT !.counts[same] = @ + n]
  ELSE [f EXCEPT !.listed = Append(@, x),
                 !.counts = [y \in DOMAIN @ \cup {x} |-> IF y = x THEN n ELSE @[y]]]

Merge(f, other) ==
  FoldLeft(LAMBDA acc, x : AddEntry(acc, x, other.counts[x]),
           [f EXCEPT !.total = @ + other.total,
                     !.missing = @ + other.missing,
                     !.other = @ + other.other],
           other.listed)

(* Fixup sorts the merged entries and moves what is beyond the size to other. *)
Fixup(f) ==
  LET listed == TopN(Ordered(f.counts, ToSet(f.listed)))
  IN  [f EXCEPT !.listed = listed,
                !.other = @ + SumOver(f.counts, ToSet(f.listed) \ ToSet(listed))]

Init ==
  /\ values \in [Docs -> {S \in SUBSET Values : Cardinality(S) <= 2}]
  /\ home \in [Docs -> Indexes]
  /\ pending = Indexes /\ facet = NoFacet /\ done = FALSE

(* The result of an index arrives at MultiSearch. *)
Arrive(i) ==
  /\ i \in pending
  /\ pending' = pending \ {i}
  /\ facet' = IF pending = Indexes THEN FacetOf(i) ELSE Merge(facet, FacetOf(i))
  /\ UNCHANGED <<values, home, done>>

(* All results are in: each facet of the request is trimmed to its size. *)
FixupFacets ==
  /\ pending = {} /\ ~done
  /\ done' = TRUE
  /\ facet' = Fixup(facet)
  /\ UNCHANGED <<values, home, pending>>

Next == (\E i \in Indexes : Arrive(i)) \/ FixupFacets

Spec == Init /\ [][Next]_vars

(***************************************************************************)
(* What the counts must be, from the documents.                            *)
(***************************************************************************)
Names == IF OfTerms THEN Values ELSE DOMAIN Ranges
IsIn(v, x) == IF OfTerms THEN v = x ELSE InRange(v, Ranges[x])
TrueCount(x) == SumOver([d \in Docs |-> Cardinality({v \in values[d] : IsIn(v, x)})], Docs)
AllArrived == pending = {}

(* Whatever the order in which the indexes answer, every value that was      *)
(* counted is in a listed entry or among the others (the sum that Result and *)
(* Fixup keep with every trim, search/facets_builder.go).                    *)
CountsAddUp ==
  done => facet.total = SumOver(facet.counts, ToSet(facet.listed)) + facet.other

(* The total and the number of documents without a value are those of all    *)
(* the documents, and no entry counts more than there is.                    *)
TotalsExact ==
  AllArrived =>
    /\ facet.total = SumOver([x \in Names |-> TrueCount(x)], Names)
    /\ facet.missing = Cardinality({d \in Docs : values[d] = {}})
    /\ \A x \in ToSet(facet.listed) : facet.counts[x] <= TrueCount(x)

(* When Size has room for every entry the merged facet is the facet of one   *)
(* index with all the documents, entry by entry and in the same order.       *)
AsOneIndex ==
  done /\ Size >= Cardinality(Names) =>
    LET seen == {x \in Names : TrueCount(x) > 0}
    IN  /\ facet.listed = Ordered([x \in Names |-> TrueCount(x)], seen)
        /\ \A x \in seen : facet.counts[x] = TrueCount(x)
        /\ facet.other = 0
=============================================================================
