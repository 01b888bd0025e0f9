------------------------------ MODULE MCAnswers ------------------------------
(* What a search answers: pages, facets, and hybrid searches of aliases.  A *)
(* behaviour is about one subject: a client that pages, the merge of one    *)
(* facet, or one hybrid search.                                              *)
EXTENDS Integers, Sequences, FiniteSets, TLC

CONSTANT Subjects \* the instances a run is about
CONSTANT NoReply  \* nobody has replied
VARIABLE subject   \* the one a behaviour is about

\* The value of the variables of the other components.
Unused == "unused"

------------------------------------------------------------------------------
(* Paging: first, next and previous pages of an index and of an alias.     *)
VARIABLES
  key, inIndex, pageReq, page, toPage, merged, failed, reply
Turning == <<key, inIndex, pageReq, page, toPage, merged, failed, reply>>
NoTurning ==
  /\ key = Unused /\ inIndex = Unused /\ pageReq = Unused /\ page = Unused
  /\ toPage = Unused /\ merged = Unused /\ failed = Unused /\ reply = Unused

ByKeyAndID == <<"key", "_id">>
ByScoreAndID == <<"score", "_id">>
DownUp == <<TRUE, FALSE>>
UpUp == <<FALSE, FALSE>>

Single == INSTANCE Paging WITH
  Docs <- {1, 2, 3, 4}, Keys <- {1, 2, 3}, Indexes <- {"i1"},
  Fields <- ByKeyAndID, Descending <- DownUp, Sizes <- {0, 1, 2},
  Froms <- {0, 1, 2}, Heap <- TRUE, MayFail <- FALSE, home <- inIndex,
  req <- pageReq, asked <- page, pending <- toPage
Through == INSTANCE Paging WITH
  Docs <- {1, 2, 3, 4}, Keys <- {1, 2}, Indexes <- {"i1", "i2"},
  Fields <- ByKeyAndID, Descending <- UpUp, Sizes <- {1, 2}, Froms <- {0, 1},
  Heap <- FALSE, MayFail <- TRUE, home <- inIndex, req <- pageReq,
  asked <- page, pending <- toPage

------------------------------------------------------------------------------
(* Facets: terms, and ranges that overlap, have a gap and have no bound on *)
(* one side.                                                                *)
VARIABLES
  values, home, pending, facet, done
Counting == <<values, home, pending, facet, done>>
NoCounting ==
  /\ values = Unused /\ home = Unused /\ pending = Unused /\ facet = Unused
  /\ done = Unused

Overlapping ==
  <<[min |-> 1000, max |-> 1], [min |-> 1, max |-> 3], [min |-> 2, max |-> 1000]>>

OfTerms == INSTANCE Facets WITH
  Docs <- {1, 2, 3, 4}, Values <- {1, 2, 3}, Indexes <- {"i1", "i2"},
  Ranges <- <<>>, Size <- 3
OfRanges == INSTANCE Facets WITH
  Docs <- {1, 2, 3}, Values <- {0, 1, 2, 3}, Indexes <- {"i1", "i2", "i3"},
  Ranges <- Overlapping, Size <- 2

------------------------------------------------------------------------------
(* HybridSearch: text and nearest neighbours over a tree of aliases.        *)
VARIABLES
  req, kids, stored, changes, at, asked, first, given, second, answer
Fusing ==
  <<req, kids, stored, changes, at, asked, first, given, second, answer>>
NoFusing ==
  /\ req = Unused /\ kids = Unused /\ stored = Unused /\ changes = Unused
  /\ at = Unused /\ asked = Unused /\ first = Unused /\ given = Unused
  /\ second = Unused /\ answer = Unused

\* Two indexes below a nested alias, a third beside it, a fourth to swap in.
LeavesOf == {"i1", "i2", "i3", "i4"}
OneLeaf == {"i1"}
AliasesOf == {"top", "sub"}
OneAlias == {"top"}
Tree == ("top" :> {"sub", "i3"}) @@ ("sub" :> {"i1", "i2"})
NoKids == ("top" :> {"i1"})
Exchanges == {{"i1"}, {"i1", "i4"}, {"i4"}}
NoSwaps == {}

AllDocs == {"d1", "d2", "d3", "d4", "d5", "d6"}
Spread == ("i1" :> <<"d1", "d2">>) @@ ("i2" :> <<"d3", "d4">>) @@ ("i3" :> <<"d5">>) @@ ("i4" :> <<"d6">>)
InOne == ("i1" :> <<"d1", "d2", "d3", "d4">>)

Scores(s1, s2, s3, s4, s5, s6) ==
  ("d1" :> s1) @@ ("d2" :> s2) @@ ("d3" :> s3) @@ ("d4" :> s4) @@ ("d5" :> s5) @@ ("d6" :> s6)
WithoutText == Scores(0, 0, 0, 0, 0, 0)
SomeTexts == {Scores(3, 0, 5, 0, 4, 0), Scores(0, 3, 4, 0, 0, 5), Scores(1, 2, 3, 4, 5, 6)}
Nears == {<<Scores(2, 9, 7, 0, 0, 0), Scores(0, 10, 4, 13, 6, 0)>>,
          <<Scores(9, 0, 7, 1, 5, 0), Scores(8, 0, 4, 0, 6, 2)>>}
Unfiltered == {<<AllDocs, AllDocs>>}
SomeFiltered == {<<AllDocs, {"d2", "d3", "d5"}>>, <<{"d3", "d4"}, AllDocs>>}

Ask(texts, nears, filters, operators, scores, windows, pages, facets) ==
  {r \in [none : BOOLEAN, text : texts \union {WithoutText}, near : nears, filter : filters,
          operator : operators, score : scores, window : windows,
          from : {p[1] : p \in pages}, size : {p[2] : p \in pages}, facets : facets] :
     /\ r.none <=> r.text = WithoutText
     /\ <<r.from, r.size>> \in pages}

Sums == Ask(SomeTexts, Nears, Unfiltered, {"or", "and"}, {"add"}, {3},
            {<<0, 2>>, <<1, 2>>, <<3, 3>>}, BOOLEAN)
Fusions == Ask(SomeTexts, Nears, Unfiltered, {"or", "and"}, {"rrf", "rsf"}, {3, 5},
               {<<0, 2>>, <<1, 2>>}, {FALSE})
Few == Ask({Scores(3, 0, 5, 0, 4, 0)}, Nears, Unfiltered, {"or"}, {"add", "rrf"}, {3},
           {<<0, 3>>}, {FALSE})
Filtered == Ask(SomeTexts, Nears, SomeFiltered, {"or"}, {"add", "rrf"}, {3}, {<<0, 4>>}, {FALSE})
Faceted == Ask(SomeTexts, Nears, Unfiltered, {"or"}, {"add"}, {3}, {<<0, 4>>}, {TRUE})
Ks == <<2, 2>>
Weights == (0 :> 1) @@ (1 :> 2) @@ (2 :> 3)
Nobody == {}
AnyOne == {"i1", "i3", "sub"}
TheOne == {"i1"}

Summed == INSTANCE HybridSearch WITH
  Docs <- AllDocs, RankConstant <- 1, Scale <- 60, NumKNN <- 2, K <- Ks,
  Weight <- Weights, Leaves <- LeavesOf, Aliases <- AliasesOf, Root <- "top",
  Kids <- Tree, Numbered <- Spread, Swaps <- Exchanges, Requests <- Sums,
  MayFail <- Nobody, MaxChanges <- 0
ByRank == INSTANCE HybridSearch WITH
  Docs <- AllDocs, RankConstant <- 1, Scale <- 60, NumKNN <- 2, K <- Ks,
  Weight <- Weights, Leaves <- LeavesOf, Aliases <- AliasesOf, Root <- "top",
  Kids <- Tree, Numbered <- Spread, Swaps <- Exchanges, Requests <- Fusions,
  MayFail <- Nobody, MaxChanges <- 0
Direct == INSTANCE HybridSearch WITH
  Docs <- AllDocs, RankConstant <- 1, Scale <- 60, NumKNN <- 2, K <- Ks,
  Weight <- Weights, Leaves <- OneLeaf, Aliases <- OneAlias, Root <- "i1",
  Kids <- NoKids, Numbered <- InOne, Swaps <- NoSwaps, Requests <- Fusions,
  MayFail <- Nobody, MaxChanges <- 0
Failing == INSTANCE HybridSearch WITH
  Docs <- AllDocs, RankConstant <- 1, Scale <- 60, NumKNN <- 2, K <- Ks,
  Weight <- Weights, Leaves <- LeavesOf, Aliases <- AliasesOf, Root <- "top",
  Kids <- Tree, Numbered <- Spread, Swaps <- Exchanges, Requests <- Few,
  MayFail <- AnyOne, MaxChanges <- 2

------------------------------------------------------------------------------
\* What the components assume of their constants holds of these instances.
ASSUME InstancesAssumption ==
  /\ Single!PagingAssumption /\ Through!PagingAssumption
  /\ OfTerms!FacetsAssumption /\ OfRanges!FacetsAssumption

------------------------------------------------------------------------------
\* A behaviour is about one subject.
Is(s) == s \in Subjects /\ subject = s

Init ==
  \/ /\ Is("pages") /\ Single!Init
     /\ NoCounting /\ NoFusing
  \/ /\ Is("alias") /\ Through!Init
     /\ NoCounting /\ NoFusing
  \/ /\ Is("terms") /\ OfTerms!Init
     /\ NoTurning /\ NoFusing
  \/ /\ Is("ranges") /\ OfRanges!Init
     /\ NoTurning /\ NoFusing
  \/ /\ Is("sums") /\ Summed!Init
     /\ NoTurning /\ NoCounting
  \/ /\ Is("fusion") /\ ByRank!Init
     /\ NoTurning /\ NoCounting
  \/ /\ Is("direct") /\ Direct!Init
     /\ NoTurning /\ NoCounting
  \/ /\ Is("fails") /\ Failing!Init
     /\ NoTurning /\ NoCounting

Next ==
  \/ subject = "pages" /\ Single!Next
     /\ UNCHANGED <<subject, Counting, Fusing>>
  \/ subject = "alias" /\ Through!Next
     /\ UNCHANGED <<subject, Counting, Fusing>>
  \/ subject = "terms" /\ OfTerms!Next
     /\ UNCHANGED <<subject, Turning, Fusing>>
  \/ subject = "ranges" /\ OfRanges!Next
     /\ UNCHANGED <<subject, Turning, Fusing>>
  \/ subject = "sums" /\ Summed!Next
     /\ UNCHANGED <<subject, Turning, Counting>>
  \/ subject = "fusion" /\ ByRank!Next
     /\ UNCHANGED <<subject, Turning, Counting>>
  \/ subject = "direct" /\ Direct!Next
     /\ UNCHANGED <<subject, Turning, Counting>>
  \/ subject = "fails" /\ Failing!Next
     /\ UNCHANGED <<subject, Turning, Counting>>

vars == <<subject, Turning, Counting, Fusing>>

Spec == Init /\ [][Next]_vars

------------------------------------------------------------------------------
\* The page that is asked for is returned, of all documents of the indexes
\* that answer, whatever the order of their answers; and a search gives the
\* request back as it was, so that the next page is asked for with the order
\* the client chose.
PageExact ==
  /\ subject = "pages" => Single!PageExact /\ Single!RequestRestored
  /\ subject = "alias" => Through!PageExact /\ Through!RequestRestored

\* The facets merged from several indexes, in any order, are those of one
\* index with all the documents; trimmed, entries and others still add up.
FacetsAsOneIndex ==
  /\ subject = "terms" => OfTerms!TotalsExact /\ OfTerms!AsOneIndex
  /\ subject = "ranges" => OfRanges!TotalsExact /\ OfRanges!CountsAddUp

\* A hybrid search of a tree of aliases answers as one index with all the
\* documents would: the neighbours kept are the best of all, all indexes score
\* with the same statistics, and facets count each hit by its own terms.
AnswersAsOne ==
  /\ subject = "sums" => /\ Summed!AnswersAsOne /\ Summed!BestOfAll
                         /\ Summed!GlobalStats /\ Summed!FacetsOfHits
  /\ subject = "fusion" => ByRank!AnswersAsOne /\ ByRank!BestOfAll
  /\ subject = "direct" => Direct!AnswersAsOne

\* When indexes fail, lose documents or are swapped between the two phases, a
\* neighbour still goes back to the index that found it alone, and an answer
\* that has no failures has the hits of every index.
FailuresShow ==
  subject = "fails" =>
    Failing!HitsComeHome /\ Failing!AllOrNothing /\ Failing!FailuresShow
==============================================================================
