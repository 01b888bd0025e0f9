------------------------------ MODULE MCQueries ------------------------------
(* How queries are searched: searchers within one another, phrases, ranges  *)
(* of numbers and dates, and the terms of prefixes and ranges.  A behaviour *)
(* is one search of one subject.                                            *)
EXTENDS FieldDicts, Integers

CONSTANT Subjects \* the instances a run is about
VARIABLE subject   \* the one a behaviour is about

\* The value of the variables of the other components.
Unused == "unused"

------------------------------------------------------------------------------
(* Searchers: nested searchers over every set of four documents.           *)
VARIABLES
  query, searcher, docs, asked, hit
Searching == <<query, searcher, docs, asked, hit>>
NoSearching ==
  /\ query = Unused /\ searcher = Unused /\ docs = Unused /\ asked = Unused
  /\ hit = Unused

Named(n) == [op |-> "term", name |-> n]
DocIDs(n) == [op |-> "docid", name |-> n]
And(p, q) == [op |-> "and", of |-> <<p, q>>]
Or(min, heap, p, q) ==
  [op |-> "or", of |-> <<p, q>>, min |-> min, heap |-> heap]
Or1(min, p) == [op |-> "or", of |-> <<p>>, min |-> min, heap |-> FALSE]
Phrase(p, q, n) == [op |-> "phrase", of |-> And(p, q), name |-> n]
Bool(must, should, mustNot, filter) ==
  [op |-> "bool", must |-> must, should |-> should, mustNot |-> mustNot,
   filter |-> filter]

None == [op |-> "nil"]
a == Named("a")
b == Named("b")
c == Named("c")

TwoNames == {"a", "b"}
ThreeNames == {"a", "b", "c"}

\* Searchers within one another, without should clauses.
NestedQueries ==
  {And(Or(1, TRUE, a, b), c), And(Or(2, FALSE, a, b), c),
   Or(0, FALSE, And(a, b), c), Or(2, TRUE, Or(1, FALSE, a, b), c),
   And(Bool(a, None, b, None), c), Or(1, TRUE, Bool(a, None, b, None), c),
   Bool(c, None, And(a, b), None), And(Bool(c, None, Or(1, TRUE, a, b), None), b),
   And(Phrase(a, b, "c"), b), Bool(c, None, Phrase(a, b, "c"), None),
   And(a, DocIDs("b")), And(Or(1, FALSE, DocIDs("a"), b), c)}

\* must, should and must-not together, and a term as the filter.
BooleanQueries ==
  UNION {{Bool(c, Or(m, FALSE, a, b), None, None),
          Bool(c, Or1(m, a), b, None), Bool(c, None, a, b),
          Bool(None, Or(m, TRUE, a, b), c, None),
          Bool(Or(1, FALSE, a, b), Or1(m, c), None, None),
          Bool(None, Or(m, FALSE, a, b), None, c),
          Bool(None, None, Or(m, FALSE, a, b), c)} : m \in {0, 1, 2}}

\* A filter whose searcher has returned a document beyond the one it was asked
\* for.
FilterQueries == {Bool(a, None, None, DocIDs("b"))}

\* A should clause that is required, in a searcher that is advanced.
AdvancedQueries == {Bool(a, Or1(1, b), None, None)}

\* A should clause that is required, without scores.
UnscoredQueries == {Bool(a, Or(1, FALSE, b, c), None, None)}

Nested == INSTANCE Searchers WITH
  MaxDoc <- 3, Names <- ThreeNames, Queries <- NestedQueries, Scored <- TRUE,
  Advancing <- TRUE
Boolean == INSTANCE Searchers WITH
  MaxDoc <- 3, Names <- ThreeNames, Queries <- BooleanQueries, Scored <- TRUE,
  Advancing <- FALSE

------------------------------------------------------------------------------
(* PhraseSearch: phrases over documents of a few words.                     *)
VARIABLES
  phrase, texts, opened, parts, kept, at, currMust, reply, last, step, calls
Phrases ==
  <<phrase, texts, opened, parts, kept, at, currMust, reply, last, step, calls>>
NoPhrases ==
  /\ phrase = Unused /\ texts = Unused /\ opened = Unused /\ parts = Unused
  /\ kept = Unused /\ at = Unused /\ currMust = Unused /\ reply = Unused
  /\ last = Unused /\ step = Unused /\ calls = Unused

\* Texts and phrases; b and x are other words.
w == "w"
x == "x"
y == "y"
z == "z"
Loc(t, e, p) == [term |-> t, elem |-> e, pos |-> p]
Text(e, ts) == {Loc(ts[i], e, i) : i \in 1..Len(ts)}
SomeTexts == {{}, Text(1, <<x, y>>), Text(1, <<y, x>>), Text(1, <<x>>) \cup {Loc(y, 2, 2)},
              Text(1, <<x, y, x, y>>), Text(1, <<x, z, y>>), Text(1, <<w, y>>) \cup Text(2, <<z, x>>)}
FewTexts == {{}, Text(1, <<x, y>>), Text(1, <<x, w>>), Text(1, <<z, y>>), Text(1, <<w, x, y>>),
             Text(1, <<x, y, z, y>>)}

TwoTerms == <<{x}, {y}>>
PlainPhrases == {TwoTerms, <<{x}>>, <<{x}, {}, {y}>>, <<{}, {x}, {y}>>, <<{x, w}, {y}>>,
                 <<{x}, {y}, {x}>>, <<{x}, {y}, {}>>}
OfSeveral == {<<{x}, {y, w}>>}

NoTerms(t) == {}
LikeX(t) == IF t = x THEN {x, z} ELSE {t}
OfX(t) == IF t = x THEN {w} ELSE {}
OfBoth(t) == CASE t = x -> {z} [] t = y -> {w} [] OTHER -> {}

Exactly == INSTANCE PhraseSearch WITH
  NumDocs <- 3, Texts <- SomeTexts, Phrases <- PlainPhrases,
  Similar <- NoTerms, Fuzzy <- FALSE, Synonyms <- NoTerms, MayFail <- TRUE,
  MaxCalls <- 3, phase <- step
Fuzzily == INSTANCE PhraseSearch WITH
  NumDocs <- 3, Texts <- FewTexts, Phrases <- PlainPhrases, Similar <- LikeX,
  Fuzzy <- TRUE, Synonyms <- OfBoth, MayFail <- FALSE, MaxCalls <- 3,
  phase <- step
WithSynonyms == INSTANCE PhraseSearch WITH
  NumDocs <- 3, Texts <- FewTexts, Phrases <- {TwoTerms}, Similar <- NoTerms,
  Fuzzy <- FALSE, Synonyms <- OfBoth, MayFail <- FALSE, MaxCalls <- 3,
  phase <- step

------------------------------------------------------------------------------
(* NumericRanges: ranges of numbers and of dates over indexed values.       *)
VARIABLES
  range, values, contains, lo, hi, shift, ranges, codes, splitting
Splitting ==
  <<range, values, contains, lo, hi, shift, ranges, codes, splitting>>
NoSplitting ==
  /\ range = Unused /\ values = Unused /\ contains = Unused /\ lo = Unused
  /\ hi = Unused /\ shift = Unused /\ ranges = Unused /\ codes = Unused
  /\ splitting = Unused

\* Numbers and dates of 4 bits: without -0 and the infinities, and the dates
\* between them.  The bits of +Inf are 5, those of -Inf 13.
NoEnd == 99
Asked(kind, ends, flags) ==
  {[kind |-> kind, min |-> i, max |-> j, incMin |-> f[1], incMax |-> f[2]] :
     i \in ends, j \in ends, f \in flags}
AllFlags == BOOLEAN \X BOOLEAN
Default == {<<TRUE, FALSE>>}
Numbers == (0..4) \cup (9..12)
Dates == -5..4
Values(kind) == IF kind = "number" THEN Numbers ELSE Dates
NumbersAndDates == Asked("number", Numbers \cup {NoEnd}, AllFlags)
                   \cup Asked("date", Dates \cup {NoEnd}, AllFlags)

\* Dates of 6 bits, at the edges of the steps.
SomeDates(kind) == {-17, -16, -5, -4, -1, 0, 3, 4, 15, 16}
Edges == {-26, -17, -16, -15, -5, -4, -1, 0, 1, 3, 4, 15, 16, 26}
DateRanges == Asked("date", Edges \cup {NoEnd}, Default)

\* All numbers, -0 among them; all dates, those later than +Inf among them.
SignedZeros(kind) == Numbers \cup {8}
FromZero == Asked("number", {0}, Default \cup {<<TRUE, TRUE>>})
            \cup {[kind |-> "number", min |-> 0, max |-> NoEnd, incMin |-> TRUE, incMax |-> FALSE]}
AllDates(kind) == -8..7
FromDates == {q \in Asked("date", Dates \cup {NoEnd}, Default) : q.min # NoEnd /\ q.max = NoEnd}

Numeric == INSTANCE NumericRanges WITH
  W <- 4, P <- 2, C <- 3, Infinity <- 5, None <- NoEnd,
  Queries <- NumbersAndDates, Docs <- Values, MaxDocs <- 1, query <- range,
  docs <- values, terms <- codes, phase <- splitting
Wide == INSTANCE NumericRanges WITH
  W <- 6, P <- 2, C <- 3, Infinity <- 27, None <- NoEnd,
  Queries <- DateRanges, Docs <- SomeDates, MaxDocs <- 2, query <- range,
  docs <- values, terms <- codes, phase <- splitting

------------------------------------------------------------------------------
(* FieldDicts: the terms of prefixes and ranges over two segments.  It is   *)
(* extended, with the constants for prefixes; the rest are instances.       *)
Dicts == dictVars

\* Terms of bytes; <<4>> is beyond all of bytes 0..3.
TermPool == {<<1>>, <<1, 1>>, <<2>>, <<2, 1>>}
NulBytes == {<<1>>, <<1, 0>>, <<1, 0, 1>>, <<1, 1>>, <<2>>, <<1, 2>>}
Few == {<<1>>, <<1, 1>>}
CarryingBytes == {<<1, 3>>, <<1, 3, 1>>, <<2>>, <<2, 0>>, <<3, 3>>}
Ends == {<<>>, <<1>>, <<1, 1>>, <<2>>, <<2, 1>>}

Req(kind, from, to, incMin, incMax) ==
  [kind |-> kind, a |-> from, b |-> to, incMin |-> incMin, incMax |-> incMax]
PrefixRequests(P) == {Req("prefix", p, p, TRUE, TRUE) : p \in P}
Ranges(A, B) == {Req("range", i, j, TRUE, TRUE) : i \in A, j \in B}
TermRanges(A, B) ==
  {Req("termrange", i, j, min, max) :
     i \in A, j \in B, min \in BOOLEAN, max \in BOOLEAN}
AllTerms == {Req("all", <<>>, <<4>>, TRUE, TRUE)}

TextPrefixes == AllTerms \cup PrefixRequests({<<>>, <<1>>, <<1, 1>>, <<2, 1>>, <<1, 1, 1>>})
LongPrefixes == AllTerms \cup PrefixRequests({<<1>>, <<1, 1>>, <<2, 1>>, <<1, 1, 1>>})
TextRanges == TermRanges(Ends, (Ends \ {<<>>}) \cup {<<4>>})
DictRanges == Ranges(Ends, (Ends \ {<<>>}) \cup {<<4>>})
SomeOfEach == AllTerms \cup PrefixRequests({<<1>>, <<1, 1>>}) \cup Ranges({<<1>>}, {<<1, 1>>})
NulRanges == TermRanges({<<>>}, {<<1>>})
ByteRanges == Ranges({<<>>}, {<<1>>})
Carrying == PrefixRequests({<<>>, <<1, 3>>, <<3>>, <<3, 3>>})
            \cup TermRanges({<<1, 3>>, <<2>>}, {<<1, 3>>, <<2>>, <<3, 3>>})
HighPrefixes == PrefixRequests({<<1, 2>>})
EmptyPrefix == PrefixRequests({<<>>})

Ranged == INSTANCE FieldDicts WITH
  Requests <- TextRanges, MaxClauses <- 3, Optimize <- TRUE
Listed == INSTANCE FieldDicts WITH Requests <- DictRanges, MayFail <- TRUE
Bytewise == INSTANCE FieldDicts WITH
  Pool <- CarryingBytes, Requests <- Carrying, MaxClauses <- 3, Optimize <- TRUE
Batched == INSTANCE FieldDicts WITH
  Requests <- LongPrefixes, MaxClauses <- 2, Optimize <- TRUE

NoDicts ==
  /\ request = Req("prefix", <<1>>, <<1>>, TRUE, TRUE) /\ terms = [s \in SegmentIds |-> {}]
  /\ DictInit

------------------------------------------------------------------------------
\* What the components assume of their constants holds of these instances.
ASSUME InstancesAssumption ==
  /\ Nested!SearchersAssumption /\ Boolean!SearchersAssumption
  /\ Exactly!PhraseAssumption /\ Fuzzily!PhraseAssumption
  /\ WithSynonyms!PhraseAssumption
  /\ Numeric!NumericAssumption /\ Wide!NumericAssumption
  /\ DictAssumption /\ Ranged!DictAssumption /\ Listed!DictAssumption
  /\ Batched!DictAssumption /\ Bytewise!DictAssumption

------------------------------------------------------------------------------
\* A behaviour is about one subject.
Is(s) == s \in Subjects /\ subject = s

Init ==
  \/ /\ Is("nested") /\ Nested!Init
     /\ NoPhrases /\ NoSplitting /\ NoDicts
  \/ /\ Is("boolean") /\ Boolean!Init
     /\ NoPhrases /\ NoSplitting /\ NoDicts
  \/ /\ Is("phrase") /\ Exactly!Init
     /\ NoSearching /\ NoSplitting /\ NoDicts
  \/ /\ Is("fuzzy") /\ Fuzzily!Init
     /\ NoSearching /\ NoSplitting /\ NoDicts
  \/ /\ Is("synonyms") /\ WithSynonyms!Init
     /\ NoSearching /\ NoSplitting /\ NoDicts
  \/ /\ Is("numbers") /\ Numeric!Init
     /\ NoSearching /\ NoPhrases /\ NoDicts
  \/ /\ Is("dates") /\ Wide!Init
     /\ NoSearching /\ NoPhrases /\ NoDicts
  \/ /\ Is("prefixes") /\ DictInit
     /\ NoSearching /\ NoPhrases /\ NoSplitting
  \/ /\ Is("ranges") /\ Ranged!DictInit
     /\ NoSearching /\ NoPhrases /\ NoSplitting
  \/ /\ Is("dict") /\ Listed!DictInit
     /\ NoSearching /\ NoPhrases /\ NoSplitting
  \/ /\ Is("bytes") /\ Bytewise!DictInit
     /\ NoSearching /\ NoPhrases /\ NoSplitting
  \/ /\ Is("batches") /\ Batched!DictInit
     /\ NoSearching /\ NoPhrases /\ NoSplitting

Next ==
  \/ subject = "nested" /\ Nested!Step
     /\ UNCHANGED <<subject, Phrases, Splitting, Dicts>>
  \/ subject = "boolean" /\ Boolean!Step
     /\ UNCHANGED <<subject, Phrases, Splitting, Dicts>>
  \/ subject = "phrase" /\ Exactly!Next
     /\ UNCHANGED <<subject, Searching, Splitting, Dicts>>
  \/ subject = "fuzzy" /\ Fuzzily!Next
     /\ UNCHANGED <<subject, Searching, Splitting, Dicts>>
  \/ subject = "synonyms" /\ WithSynonyms!Next
     /\ UNCHANGED <<subject, Searching, Splitting, Dicts>>
  \/ subject = "numbers" /\ Numeric!Next
     /\ UNCHANGED <<subject, Searching, Phrases, Dicts>>
  \/ subject = "dates" /\ Wide!Next
     /\ UNCHANGED <<subject, Searching, Phrases, Dicts>>
  \/ subject = "prefixes" /\ DictNext
     /\ UNCHANGED <<subject, Searching, Phrases, Splitting>>
  \/ subject = "ranges" /\ Ranged!DictNext
     /\ UNCHANGED <<subject, Searching, Phrases, Splitting>>
  \/ subject = "dict" /\ Listed!DictNext
     /\ UNCHANGED <<subject, Searching, Phrases, Splitting>>
  \/ subject = "bytes" /\ Bytewise!DictNext
     /\ UNCHANGED <<subject, Searching, Phrases, Splitting>>
  \/ subject = "batches" /\ Batched!DictNext
     /\ UNCHANGED <<subject, Searching, Phrases, Splitting>>

vars == <<subject, Searching, Phrases, Splitting, Dicts>>

Spec == Init /\ [][Next]_vars

------------------------------------------------------------------------------
\* Each call of Next and Advance returns the first document the query matches
\* from the number asked on, with all the clauses that match it and all the
\* places where a phrase is found, however the searchers are nested and
\* whichever calls came before.
ResultsExact ==
  /\ subject = "nested" => Nested!ResultsExact /\ Nested!ScoresComplete
  /\ subject = "boolean" => Boolean!ResultsExact /\ Boolean!ScoresComplete
  /\ subject = "phrase" => Exactly!AnswersExact /\ Exactly!LocationsExact
  /\ subject = "fuzzy" => Fuzzily!AnswersExact /\ Fuzzily!LocationsExact
  /\ subject = "synonyms" => WithSynonyms!AnswersExact

\* A range finds exactly the numbers and dates in it, each by one of the terms
\* it was split into, and these come in the order the binary search of
\* upsidedown needs.
RangesExact ==
  /\ subject = "numbers" => Numeric!MatchExact /\ Numeric!FoundOnce
  /\ subject = "dates" => Wide!MatchExact /\ Wide!FoundOnce /\ Wide!TermsInOrder
==============================================================================
