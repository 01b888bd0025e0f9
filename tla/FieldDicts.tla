----------------------------- MODULE FieldDicts -----------------------------
(***************************************************************************)
(* Enumerating the terms of a field: a snapshot of scorch asks every       *)
(* segment in a goroutine of its own and merges the sorted terms with a    *)
(* heap (snapshot_index.go, snapshot_index_dict.go); upsidedown reads a    *)
(* range of rows (field_dict.go).  On top of them the searchers for        *)
(* prefixes, ranges and many terms choose the terms they look for          *)
(* (search_term_prefix.go, search_term_range.go, search_multi_term.go).    *)
(* A term is a sequence of bytes 0..MaxByte, compared as memcmp does.      *)
(***************************************************************************)
EXTENDS Naturals, SequencesExt, FiniteSetsExt

CONSTANTS MaxByte,
          Pool,       \* the terms that may be in a segment
          SegmentIds,
          Requests,   \* what is asked for
          MayFail,    \* the dictionary of a segment may fail to load
          MaxClauses, \* DisjunctionMaxClauseCount, 0 for no limit
          Optimize    \* whether a disjunction can be optimized: no scores

Unbounded == <<MaxByte + 1>> \* no end: after every term

\* A range ends with a term, or it has no end.
IsRequest(r) ==
    /\ r.kind \in {"all", "prefix", "range", "termrange"} /\ {r.incMin, r.incMax} \subseteq BOOLEAN
    /\ r.a \in Seq(0..MaxByte)
    /\ r.kind \in {"range", "termrange"} =>
         r.b = Unbounded \/ (r.b \in Seq(0..MaxByte) /\ r.b # <<>>)

\* What is assumed of the constants.
DictAssumption ==
    /\ MaxByte \in Nat \ {0} /\ MaxClauses \in Nat
    /\ Pool \subseteq Seq(0..MaxByte) /\ IsFiniteSet(Pool)
    /\ {MayFail, Optimize} \subseteq BOOLEAN
    /\ \A r \in Requests : IsRequest(r)

VARIABLES request, terms, \* terms[s]: the terms of segment s
          pending,        \* segments that have not answered yet
          failed,         \* the first error
          cursors,        \* segment -> its terms not yet taken by the heap
          out,            \* the entries that Next has returned: term, count
          clauses,        \* the terms the searcher has not looked up yet
          searched,       \* the terms its searchers look for
          reading

dictVars == <<request, terms, pending, failed, cursors, out, clauses, searched, reading>>

-----------------------------------------------------------------------------
IsBefore(s, t) ==
    \/ IsStrictPrefix(s, t)
    \/ \E i \in 1..Len(s) : /\ i <= Len(t) /\ s[i] < t[i]
                            /\ \A j \in 1..(i - 1) : s[j] = t[j]
First(T) == CHOOSE s \in T : \A t \in T \ {s} : IsBefore(s, t)

\* The end of a range of terms that is to contain its last term.
ExclusiveEnd(t) ==
    IF t = Unbounded THEN Unbounded
    ELSE IF Last(t) < MaxByte THEN [t EXCEPT ![Len(t)] = @ + 1] ELSE Append(t, 0)

\* Mutant: a byte that is the greatest does not carry.
PrefixEndWithoutCarry(p) ==
    IF p = <<>> THEN Unbounded ELSE [p EXCEPT ![Len(p)] = (@ + 1) % (MaxByte + 1)]

\* The end of the terms with a prefix: the last byte that is not the
\* greatest goes up, those behind it become 0.
PrefixEnd(p) ==
    LET up == {i \in 1..Len(p) : p[i] < MaxByte}
    IN IF up = {} THEN Unbounded
       ELSE [i \in 1..Len(p) |-> IF i < Max(up) THEN p[i] ELSE IF i = Max(up) THEN p[i] + 1 ELSE 0]

\* What each kind of request asks the dictionary of a segment for.
Start(r) == IF r.kind = "all" THEN <<>> ELSE r.a
EndOf(r) == CASE r.kind = "all" -> Unbounded
              [] r.kind = "prefix" -> PrefixEnd(r.a)
              [] r.kind = "range" -> ExclusiveEnd(r.b)
              [] r.kind = "termrange" -> ExclusiveEnd(IF r.b = Unbounded THEN r.b ELSE Append(r.b, 0))
InSegment(r, T) == {t \in T : ~IsBefore(t, Start(r)) /\ IsBefore(t, EndOf(r))}

All == UNION {terms[s] : s \in SegmentIds}
Terms(o) == {o[i].term : i \in 1..Len(o)}

DictTypeOK ==
    /\ request \in Requests
    /\ terms \in [SegmentIds -> SUBSET Pool]
    /\ pending \subseteq SegmentIds
    /\ failed \in BOOLEAN
    /\ \A s \in SegmentIds : cursors[s] \subseteq terms[s]
    /\ \A i \in 1..Len(out) : out[i].term \in Pool /\ out[i].count \in 1..Cardinality(SegmentIds)
    /\ searched \subseteq Pool \cup {request.a}
    /\ reading \in {"collect", "failed", "panic", "read", "search", "too many", "done"}

DictInit ==
    /\ request \in Requests
    /\ terms \in [SegmentIds -> SUBSET Pool]
    /\ pending = SegmentIds
    /\ failed = FALSE
    /\ cursors = [s \in SegmentIds |-> {}]
    /\ out = <<>>
    /\ clauses = <<>>
    /\ searched = {}
    /\ reading = "collect"

-----------------------------------------------------------------------------
(* newIndexSnapshotFieldDict: the answers arrive in any order.  After the  *)
(* first error a second one is taken for an answer, which it is not.       *)
Answer(s) ==
    /\ reading = "collect" /\ s \in pending
    /\ pending' = pending \ {s}
    /\ cursors' = [cursors EXCEPT ![s] = InSegment(request, terms[s])]
    /\ UNCHANGED <<request, terms, failed, out, clauses, searched, reading>>

AnswerFails(s) ==
    /\ reading = "collect" /\ s \in pending /\ MayFail
    /\ pending' = pending \ {s}
    /\ failed' = TRUE
    /\ reading' = IF failed THEN "panic" ELSE reading
    /\ UNCHANGED <<request, terms, cursors, out, clauses, searched>>

Collected ==
    /\ reading = "collect" /\ pending = {}
    /\ reading' = IF failed THEN "failed" ELSE "read"
    /\ UNCHANGED <<request, terms, pending, failed, cursors, out, clauses, searched>>

TooMany(n) == MaxClauses # 0 /\ n > MaxClauses

\* Next takes the least term of all cursors, from every cursor that has it.
\* A prefix searcher gives up when it has read too many terms.
Take ==
    LET rest == UNION {cursors[s] : s \in SegmentIds}
        t == First(rest)
    IN /\ out' = Append(out, [term |-> t, count |-> Cardinality({s \in SegmentIds : t \in cursors[s]})])
       /\ cursors' = [s \in SegmentIds |-> cursors[s] \ {t}]

ReadNext ==
    /\ reading = "read"
    /\ \E s \in SegmentIds : cursors[s] # {}
    /\ Take
    /\ reading' = IF request.kind = "prefix" /\ TooMany(Len(out')) THEN "too many" ELSE "read"
    /\ UNCHANGED <<request, terms, pending, failed, clauses, searched>>

-----------------------------------------------------------------------------
(* The terms a searcher looks for.                                         *)
TermList(o) == [i \in 1..Len(o) |-> o[i].term]
DropFirst(ts, cond) == IF cond /\ ts # <<>> THEN Tail(ts) ELSE ts
DropLast(ts, cond) == IF cond /\ ts # <<>> THEN Front(ts) ELSE ts

RangeTerms(r, ts) ==
    LET from == DropFirst(ts, ts # <<>> /\ ~r.incMin /\ Head(ts) = r.a)
    IN DropLast(from, from # <<>> /\ ~r.incMax /\ Last(from) = r.b)

\* A prefix without terms is searched for as a term.
Chosen == CASE request.kind = "termrange" -> RangeTerms(request, TermList(out))
            [] request.kind = "prefix" /\ out = <<>> -> <<request.a>>
            [] OTHER -> TermList(out)

ReadAll ==
    /\ reading = "read"
    /\ \A s \in SegmentIds : cursors[s] = {}
    /\ clauses' = Chosen
    /\ reading' = IF TooMany(Len(Chosen)) /\ ~Optimize THEN "too many" ELSE "search"
    /\ UNCHANGED <<request, terms, pending, failed, cursors, out, searched>>

\* Too many terms are searched for in batches when no score is wanted; the
\* searcher of the batches so far is a member of the next one, and a batch
\* of one searcher cannot be optimized.
BatchOf(ts) == SubSeq(ts, 1, Min({MaxClauses, Len(ts)}))
BatchNext ==
    /\ searched' = searched \cup ToSet(BatchOf(clauses))
    /\ clauses' = SubSeq(clauses, MaxClauses + 1, Len(clauses))

Search ==
    /\ reading = "search"
    /\ IF TooMany(Len(clauses)) \/ searched # {}
       THEN IF searched = {} /\ Len(BatchOf(clauses)) = 1
            THEN reading' = "too many" /\ UNCHANGED <<clauses, searched>>
            ELSE BatchNext /\ reading' = IF Len(clauses) <= MaxClauses THEN "done" ELSE "search"
       ELSE searched' = ToSet(clauses) /\ clauses' = <<>> /\ reading' = "done"
    /\ UNCHANGED <<request, terms, pending, failed, cursors, out>>

DictNext == (\E s \in SegmentIds : Answer(s) \/ AnswerFails(s)) \/ Collected \/ ReadNext \/ ReadAll \/ Search

DictSpec == DictInit /\ [][DictNext]_dictVars

-----------------------------------------------------------------------------
(* What is asked for, in the words of the queries.                         *)
Wanted(r, T) ==
    CASE r.kind = "all" -> T
      [] r.kind = "prefix" -> {t \in T : IsPrefix(r.a, t)}
      [] r.kind = "range" -> {t \in T : ~IsBefore(t, r.a) /\ ~IsBefore(r.b, t)}
      [] r.kind = "termrange" -> {t \in T : /\ IF r.incMin THEN ~IsBefore(t, r.a) ELSE IsBefore(r.a, t)
                                            /\ IF r.incMax THEN ~IsBefore(r.b, t) ELSE IsBefore(t, r.b)}

\* Upsidedown: the rows from one term to the increment of another.
IncrementBytes(b) ==
    LET up == {i \in 1..Len(b) : b[i] < MaxByte}
    IN [i \in 1..Len(b) |-> IF up = {} \/ i > Max(up) THEN 0 ELSE IF i = Max(up) THEN b[i] + 1 ELSE b[i]]
UdRange(a, b, T) ==
    LET end == IF b = Unbounded THEN <<MaxByte>> ELSE IncrementBytes(b)
    IN {t \in T : ~IsBefore(t, a) /\ IsBefore(t, end)}
UdTerms(r, T) == CASE r.kind = "all" -> UdRange(<<>>, Unbounded, T)
                   [] r.kind = "prefix" -> UdRange(r.a, r.a, T)
                   [] r.kind = "range" -> UdRange(r.a, r.b, T)
                   [] r.kind = "termrange" ->
                        UdRange(r.a, IF r.b = Unbounded THEN r.b ELSE Append(r.b, 0), T)

\* The terms come in order and each of them once, with the documents of all
\* segments: the searchers read on only when a term is new, so that one that
\* came twice would keep them in their loop for ever.
EachOnceInOrder ==
    \A i \in 1..Len(out) :
        /\ i > 1 => IsBefore(out[i - 1].term, out[i].term)
        /\ out[i].count = Cardinality({s \in SegmentIds : out[i].term \in terms[s]})

\* A search that is built looks for the terms the query describes, and for
\* all of them: for a prefix, the terms that have it, for a range, the terms
\* between its ends with the ends it includes.
SearchExact ==
    (reading = "done" /\ request.kind \in {"all", "prefix", "termrange"}) =>
        \/ searched = Wanted(request, All)
        \/ request.kind = "prefix" /\ Wanted(request, All) = {} /\ searched = {request.a}

\* A dictionary of a range has every term of it, from the start on.
RangeComplete ==
    (reading \in {"search", "done"} /\ request.kind = "range") =>
        /\ Wanted(request, All) \subseteq Terms(out)
        /\ \A t \in Terms(out) : ~IsBefore(t, request.a)

\* A dictionary of a range ends with the last term of the range.
RangeEnds ==
    (reading \in {"search", "done"} /\ request.kind = "range") => Terms(out) = Wanted(request, All)

\* Both index types enumerate the same terms.
EnginesAgree == reading \in {"search", "done"} => Terms(out) = UdTerms(request, All)

\* All answers are read and the first error is returned.
NoPanic == reading # "panic"

\* The bytes of words in UTF-8: 255 is none of them, and 0 is no letter.
IsText(t) == ToSet(t) \subseteq 1..(MaxByte - 1)
OfText == \A t \in All \cup {request.a, request.b} : t = Unbounded \/ IsText(t)

\* Whatever the bytes, those that carry among them, no term of the prefix or
\* the range is left out of the search.
SearchComplete ==
    (reading = "done" /\ request.kind \in {"all", "prefix", "termrange"}) =>
        Wanted(request, All) \subseteq searched

\* The dictionaries of the segments are merged into one with each term once
\* and in order, and one of a range has the whole range; a prefix or a range of
\* terms searches for all its terms, and over texts for no others, in batches
\* too, and upsidedown enumerates the same terms (snapshot_index_dict.go Next).
DictionariesExact ==
    /\ EachOnceInOrder /\ RangeComplete /\ SearchComplete
    /\ OfText => SearchExact
    /\ OfText /\ ~(request.kind = "prefix" /\ request.a = <<>>) => EnginesAgree
=============================================================================
