---------------------------- MODULE NumericRanges ----------------------------
(***************************************************************************)
(* Ranges of numbers and of dates: a value is indexed as a 64 bit integer  *)
(* in one term for every precision, the bits that are left in characters   *)
(* of 7 bits (numeric/prefix_coded.go, document/field_numeric.go); a range *)
(* is split into ranges of terms of growing precision, whose terms are     *)
(* enumerated and looked up (search_numeric_range.go).  Here the integers  *)
(* have W bits, a precision step P of them and a character C of them; a    *)
(* byte has a bit more than a character.                                   *)
(***************************************************************************)
EXTENDS Integers, SequencesExt, FiniteSetsExt

CONSTANTS W, P, C,
          Infinity,   \* the bits of +Inf: greater ones are not numbers
          Queries, Docs(_), \* what is asked for, and the values of a kind
          MaxDocs,
          None        \* the end of a range that has no end

\* What is assumed of the constants.
NumericAssumption ==
    /\ {W, P, C} \subseteq Nat \ {0} /\ W % P = 0
    /\ Infinity \in 1..(2^(W - 1) - 1)
    /\ MaxDocs \in Nat

VARIABLES query,
          docs,          \* the values that are indexed
          contains,      \* whether the index can look up a term: scorch can
          lo, hi, shift, \* the range still to split, and its precision
          ranges,        \* ranges of terms
          terms, phase

vars == <<query, docs, contains, lo, hi, shift, ranges, terms, phase>>

-----------------------------------------------------------------------------
MinInt == -(2^(W - 1))
MaxInt == 2^(W - 1) - 1
Wrap(i) == ((i - MinInt) % 2^W) + MinInt

\* A float is its bits, 0..2^W - 1, the greatest of them its sign.
Negative(f) == f > MaxInt
Float64ToInt64(f) == IF Negative(f) THEN MaxInt - f ELSE f
Int64ToFloat64(i) == IF i < 0 THEN MaxInt - i ELSE i
NegInf == MaxInt + 1 + Infinity

\* A term is its precision and the number its characters make when they are
\* read as bytes, which is how terms are compared and incremented.
CharsOf(s) == ((W - 1 - s) \div C) + 1
CodeUnsigned(i, s) == LET bits == (i % 2^W) \div 2^s
    IN MapThenSumSet(LAMBDA n : ((bits \div 2^(C * n)) % 2^C) * 2^((C + 1) * n), 0..(CharsOf(s) - 1))
Code(i, s) == LET bits == (i - MinInt) \div 2^s
    IN MapThenSumSet(LAMBDA n : ((bits \div 2^(C * n)) % 2^C) * 2^((C + 1) * n), 0..(CharsOf(s) - 1))
Term(i, s) == [shift |-> s, code |-> Code(i, s)]
IsBefore(s, t) == s.shift < t.shift \/ (s.shift = t.shift /\ s.code < t.code)

\* The terms of a value that is indexed.
Shifts == {s \in 0..(W - 1) : s % P = 0}
Analyze(i) == {Term(i, s) : s \in Shifts}
IntOf(v) == IF query.kind = "number" THEN Float64ToInt64(v) ELSE v
Dictionary == UNION {Analyze(IntOf(v)) : v \in docs}

\* The ends as floats: those of a date are its integer's.
MinEnd == CASE query.min = None -> NegInf
            [] query.kind = "date" /\ query.min # None -> Int64ToFloat64(query.min)
            [] OTHER -> query.min
MaxEnd == CASE query.max = None -> Infinity
            [] query.kind = "date" /\ query.max # None -> Int64ToFloat64(query.max)
            [] OTHER -> query.max

TypeOK ==
    /\ query.kind \in {"number", "date"} /\ contains \in BOOLEAN
    /\ docs \subseteq Docs(query.kind)
    /\ {lo, hi} \subseteq MinInt..MaxInt /\ shift \in Shifts
    /\ \A i \in 1..Len(ranges) : ranges[i].from.shift = ranges[i].to.shift
    /\ \A i \in 1..Len(terms) : terms[i].shift \in Shifts
    /\ phase \in {"bounds", "split", "enumerate", "filter", "done"}

Init ==
    /\ query \in Queries
    /\ docs \in UNION {kSubset(n, Docs(query.kind)) : n \in 0..MaxDocs}
    /\ contains \in BOOLEAN
    /\ lo = 0 /\ hi = 0 /\ shift = 0
    /\ ranges = <<>> /\ terms = <<>>
    /\ phase = "bounds"

-----------------------------------------------------------------------------
\* NewNumericRangeSearcher: an end that is not included is moved by one.
Bounds ==
    /\ phase = "bounds"
    /\ LET min == Float64ToInt64(MinEnd)
           max == Float64ToInt64(MaxEnd)
       IN /\ lo' = IF ~query.incMin /\ min # MaxInt THEN min + 1 ELSE min
          /\ hi' = IF ~query.incMax /\ max # MinInt THEN max - 1 ELSE max
    /\ phase' = IF lo' > hi' THEN "enumerate" ELSE "split"
    /\ UNCHANGED <<query, docs, contains, shift, ranges, terms>>

\* x with the bits of the precision's step cleared, or set.
StepBits(x) == ((x \div 2^shift) % 2^P) * 2^shift
Clear(x) == Wrap(x - StepBits(x))
SetBits(x) == Wrap(x - StepBits(x) + (2^P - 1) * 2^shift)
NewRange(min, max) == \* sets the bits of max below the precision: none of them is coded
    [from |-> Term(min, shift), to |-> Term(max, shift)]

\* splitInt64Range, one precision.
NextMin == IF StepBits(lo) # 0 THEN Clear(Wrap(lo + 2^(shift + P))) ELSE Clear(lo)
NextMax == IF StepBits(hi) # (2^P - 1) * 2^shift THEN Clear(Wrap(hi - 2^(shift + P))) ELSE Clear(hi)
IsLast ==
    \/ shift + P >= W
    \/ NextMin > NextMax
    \/ NextMin < lo \/ NextMax > hi

SplitLast ==
    /\ phase = "split" /\ IsLast
    /\ ranges' = Append(ranges, NewRange(lo, hi))
    /\ phase' = "enumerate"
    /\ UNCHANGED <<query, docs, contains, lo, hi, shift, terms>>

Split ==
    /\ phase = "split" /\ ~IsLast
    /\ LET lower == IF StepBits(lo) # 0 THEN <<NewRange(lo, SetBits(lo))>> ELSE <<>>
           upper == IF StepBits(hi) # (2^P - 1) * 2^shift THEN <<NewRange(Clear(hi), hi)>> ELSE <<>>
       IN ranges' = ranges \o lower \o upper
    /\ lo' = NextMin /\ hi' = NextMax /\ shift' = shift + P
    /\ UNCHANGED <<query, docs, contains, terms, phase>>

\* Enumerate: from the first term of a range to its last one, each the
\* increment of the one before, kept if the index can tell that it has it.
Enumerate(r) == [i \in 1..(r.to.code - r.from.code + 1) |->
                    [shift |-> r.from.shift, code |-> r.from.code + i - 1]]

EnumerateAll ==
    /\ phase = "enumerate"
    /\ LET all == FlattenSeq([i \in 1..Len(ranges) |-> Enumerate(ranges[i])])
       IN terms' = IF contains THEN SelectSeq(all, LAMBDA t : t \in Dictionary) ELSE all
    /\ phase' = IF ~contains /\ terms' # <<>> THEN "filter" ELSE "done"
    /\ UNCHANGED <<query, docs, contains, lo, hi, shift, ranges>>

\* filterCandidateTerms: for every term of the index from the first to the
\* last of the terms, a binary search of those that are left.
At(ts, t) == SelectInSeq(ts, LAMBDA x : ~IsBefore(x, t))
FilterStep(acc, t) ==
    LET i == At(acc.left, t)
    IN IF i = 0 THEN [acc EXCEPT !.left = <<>>]
       ELSE [rv |-> IF acc.left[i] = t THEN Append(acc.rv, t) ELSE acc.rv,
             left |-> SubSeq(acc.left, i, Len(acc.left))]

InOrder ==
    LET T == {t \in Dictionary : ~IsBefore(t, Head(terms)) /\ ~IsBefore(Last(terms), t)}
    IN [n \in 1..Cardinality(T) |-> CHOOSE t \in T : Cardinality({u \in T : IsBefore(u, t)}) = n - 1]
Filter ==
    /\ phase = "filter"
    /\ terms' = FoldLeft(FilterStep, [rv |-> <<>>, left |-> terms], InOrder).rv
    /\ phase' = "done"
    /\ UNCHANGED <<query, docs, contains, lo, hi, shift, ranges>>

Next == Bounds \/ Split \/ SplitLast \/ EnumerateAll \/ Filter

Spec == Init /\ [][Next]_vars

-----------------------------------------------------------------------------
\* What the query asks for, in numbers.
Number(v) == IF query.kind = "number" /\ Negative(v) THEN -(v - (MaxInt + 1)) ELSE v
Wanted(v) ==
    /\ query.min # None => IF query.incMin THEN Number(query.min) <= Number(v) ELSE Number(query.min) < Number(v)
    /\ query.max # None => IF query.incMax THEN Number(v) <= Number(query.max) ELSE Number(v) < Number(query.max)
Found(v) == Analyze(IntOf(v)) \cap ToSet(terms)

\* The searcher finds exactly the values in the range.
MatchExact == phase = "done" => \A v \in docs : (Found(v) # {}) <=> Wanted(v)

\* It finds each by one of its terms, so that none counts more than once in
\* a score.
FoundOnce == phase = "done" => \A v \in docs : Cardinality(Found(v)) <= 1

\* The ranges come in the order of the terms, which the binary search needs.
TermsInOrder == \A i \in 2..Len(terms) : IsBefore(terms[i - 1], terms[i])

\* Only sequences of characters are enumerated, which have 7 bits.
Codes(s) == {Code(i, s) : i \in MinInt..MaxInt}
OnlyCodes ==
    phase = "enumerate" =>
        \A i \in 1..Len(ranges) : \A t \in ToSet(Enumerate(ranges[i])) : t.code \in Codes(t.shift)
=============================================================================
