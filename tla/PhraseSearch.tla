----------------------------- MODULE PhraseSearch -----------------------------
(***************************************************************************)
(* The phrase searcher (search_phrase.go): a conjunction finds the         *)
(* documents that have a term for every position of the phrase, and their  *)
(* locations are then searched for paths of adjacent positions.  A term    *)
(* may stand for terms like it, when the search is fuzzy, and for its      *)
(* synonyms.  A position without terms matches anything.                   *)
(***************************************************************************)
EXTENDS Integers, SequencesExt, FiniteSetsExt

CONSTANTS NumDocs,
          Texts,      \* a text: the set of its locations, with their terms
          Phrases,    \* a phrase: a sequence of sets of terms
          Similar(_), \* the terms that a fuzzy search takes for a term
          Fuzzy,      \* whether the search is fuzzy
          Synonyms(_),
          MayFail,    \* a searcher may fail to open
          MaxCalls

\* What is assumed of the constants.
PhraseAssumption ==
    /\ NumDocs \in Nat \ {0} /\ MaxCalls \in Nat
    /\ {Fuzzy, MayFail} \subseteq BOOLEAN
    /\ \A p \in Phrases : \E i \in 1..Len(p) : p[i] # {}

VARIABLES phrase, texts,
          opened,   \* searchers that are open: position and term
          parts,    \* those of the position that is being opened
          kept,     \* those of the positions before it
          at,       \* the position that is being opened
          currMust, \* the document that the conjunction has found
          reply,    \* the last answer, and from where it was asked for
          last,     \* the document answered last
          phase, calls

vars == <<phrase, texts, opened, parts, kept, at, currMust, reply, last, phase, calls>>
building == <<opened, parts, kept, at>>

Docs == 0..(NumDocs - 1)
End == NumDocs \* no document, after all others
Nothing == [doc |-> End, locs |-> {}, from |-> 0]

-----------------------------------------------------------------------------
\* fuzzyTermMatches: what a term of the phrase stands for.  Without a fuzzy
\* search only the terms that have synonyms are in it.
Terms == UNION ToSet(phrase)
Candidates(t) == IF Fuzzy /\ Similar(t) # {} THEN Similar(t) ELSE {t}
WithSynonyms(T) == T \cup UNION {Synonyms(t) : t \in T}
MatchedTerms == IF Fuzzy THEN Terms ELSE {t \in Terms : Synonyms(t) # {}}
StandsFor(t) == WithSynonyms(Candidates(t) \cup {t})

\* expandFuzzyMatches: the locations of every term, if there is no such map.
LocationsAt(d, T) == {[elem |-> l.elem, pos |-> l.pos] : l \in {x \in texts[d] : x.term \in T}}
LocationsOf(d, t) ==
    IF MatchedTerms = {} THEN LocationsAt(d, {t})
    ELSE IF t \in MatchedTerms THEN LocationsAt(d, StandsFor(t)) ELSE {}

\* findPhrasePaths, for the positions one after the other: each path goes on
\* at the next position of the same element of an array.
StartPath == [prev |-> 0, elem |-> 0, parts |-> {}]
Follows(p, l) == p.prev = 0 \/ (l.elem = p.elem /\ l.pos = p.prev + 1)
Pass(p) == [p EXCEPT !.prev = IF @ = 0 THEN 0 ELSE @ + 1]
With(p, t, l) == [prev |-> l.pos, elem |-> l.elem, parts |-> p.parts \cup {[term |-> t, loc |-> l]}]
Extend(d, paths, car) ==
    IF car = {} THEN {Pass(p) : p \in paths}
    ELSE UNION {UNION {{With(p, t, l) : l \in {x \in LocationsOf(d, t) : Follows(p, x)}} :
                       t \in car} : p \in paths}
Paths(d) == FoldLeft(LAMBDA paths, car : Extend(d, paths, car), {StartPath}, phrase)

\* The conjunction over the positions that have terms.
Has(d, car) == \E l \in texts[d] : \E t \in car : l.term \in WithSynonyms(Candidates(t))
Must == {d \in Docs : \A i \in 1..Len(phrase) : phrase[i] # {} => Has(d, phrase[i])}
MustFrom(d) == Min({x \in Must : x >= d} \cup {End})

TypeOK ==
    /\ phrase \in Phrases /\ texts \in [Docs -> Texts]
    /\ parts \subseteq opened /\ kept \subseteq opened
    /\ at \in 1..(Len(phrase) + 1)
    /\ currMust \in Docs \cup {End} /\ last \in -1..End
    /\ reply.doc \in Docs \cup {End} /\ reply.from \in Docs \cup {End}
    /\ phase \in {"open", "failed", "new", "idle", "check"}
    /\ calls \in 0..MaxCalls

Init ==
    /\ phrase \in Phrases /\ texts \in [Docs -> Texts]
    /\ opened = {} /\ parts = {} /\ kept = {} /\ at = 1
    /\ currMust = End /\ reply = Nothing /\ last = -1
    /\ phase = "open" /\ calls = 0

-----------------------------------------------------------------------------
(* NewMultiPhraseSearcher: a searcher for every term, a disjunction for a  *)
(* position of several.                                                    *)
OpenTerm ==
    /\ phase = "open" /\ at <= Len(phrase)
    /\ \E t \in phrase[at] :
          /\ <<at, t>> \notin parts
          /\ opened' = opened \cup {<<at, t>>}
          /\ parts' = parts \cup {<<at, t>>}
    /\ UNCHANGED <<phrase, texts, kept, at, currMust, reply, last, phase, calls>>

OpenPosition ==
    /\ phase = "open" /\ at <= Len(phrase)
    /\ Cardinality(parts) = Cardinality(phrase[at])
    /\ kept' = kept \cup parts /\ parts' = {} /\ at' = at + 1
    /\ UNCHANGED <<phrase, texts, opened, currMust, reply, last, phase, calls>>

\* A term or a disjunction fails, or at last the conjunction.
OpenFails ==
    /\ phase = "open" /\ MayFail
    /\ at <= Len(phrase) => (parts = {} /\ phrase[at] # {}) \/ Cardinality(phrase[at]) > 1
    /\ opened' = opened \ kept
    /\ kept' = {} /\ phase' = "failed"
    /\ UNCHANGED <<phrase, texts, parts, at, currMust, reply, last, calls>>

Built ==
    /\ phase = "open" /\ at > Len(phrase)
    /\ phase' = "new"
    /\ UNCHANGED <<phrase, texts, building, currMust, reply, last, calls>>

-----------------------------------------------------------------------------
\* The first call makes the conjunction find its first document.
First(from) == IF phase = "new" THEN MustFrom(0) ELSE from

CallNext ==
    /\ phase \in {"new", "idle"} /\ calls < MaxCalls
    /\ calls' = calls + 1
    /\ currMust' = First(currMust)
    /\ reply' = [Nothing EXCEPT !.from = Min({last + 1, End})]
    /\ phase' = "check"
    /\ UNCHANGED <<phrase, texts, building, last>>

\* Advance: the conjunction advances only if its document is before.
SkipTo(id) == \* and is left where it is otherwise
    currMust' = IF First(currMust) = End \/ First(currMust) >= id THEN First(currMust) ELSE MustFrom(id)

CallAdvance ==
    /\ phase \in {"new", "idle"} /\ calls < MaxCalls
    /\ calls' = calls + 1
    /\ \E id \in Docs :
          /\ id > last
          /\ SkipTo(id)
          /\ reply' = [Nothing EXCEPT !.from = id]
    /\ phase' = "check"
    /\ UNCHANGED <<phrase, texts, building, last>>

\* The loop of Next: whether the document satisfies the phrase, it goes on
\* to the next one, and answers it.
CheckCurrMust ==
    /\ phase = "check" /\ currMust # End
    /\ LET found == Paths(currMust)
       IN IF found = {} THEN UNCHANGED <<reply, last, phase>>
          ELSE /\ reply' = [reply EXCEPT !.doc = currMust,
                                         !.locs = {x.loc : x \in UNION {p.parts : p \in found}}]
               /\ last' = currMust /\ phase' = "idle"
    /\ currMust' = MustFrom(currMust + 1)
    /\ UNCHANGED <<phrase, texts, building, calls>>

NoMore ==
    /\ phase = "check" /\ currMust = End
    /\ phase' = "idle" /\ last' = End
    /\ UNCHANGED <<phrase, texts, building, currMust, reply, calls>>

Next == OpenTerm \/ OpenPosition \/ OpenFails \/ Built \/ CallNext \/ CallAdvance \/ CheckCurrMust \/ NoMore

Spec == Init /\ [][Next]_vars

-----------------------------------------------------------------------------
(* A phrase as the queries describe it: at one of the positions of an      *)
(* element the first of its terms, or a term it stands for, and each other *)
(* one as far behind it as in the phrase.                                  *)
FirstTerm == Min({i \in 1..Len(phrase) : phrase[i] # {}})
Occurrences(d) ==
    {at0 \in LocationsAt(d, UNION {StandsFor(t) : t \in phrase[FirstTerm]}) :
        \A i \in (FirstTerm + 1)..Len(phrase) :
            phrase[i] # {} =>
                [at0 EXCEPT !.pos = @ + i - FirstTerm]
                    \in LocationsAt(d, UNION {StandsFor(t) : t \in phrase[i]})}
HasPhrase(d) == Occurrences(d) # {}

\* Next and Advance answer the first document behind the last one, or from
\* the one that is asked for, that has the phrase, in any order of calls.
AnswersExact ==
    (phase = "idle" /\ calls > 0) =>
        reply.doc = Min({d \in Docs : d >= reply.from /\ HasPhrase(d)} \cup {End})

\* The locations of an answer are those of the phrase's occurrences, all of
\* them and none besides, so that the fragments show the phrase.
LocationsExact ==
    (phase = "idle" /\ reply.doc # End) =>
        reply.locs = UNION {{[o EXCEPT !.pos = @ + i - FirstTerm] :
                                i \in {j \in FirstTerm..Len(phrase) : phrase[j] # {}}} :
                                o \in Occurrences(reply.doc)}

\* When a searcher fails to open, those opened before it are closed; those of
\* the position it belongs to are not.
NothingLeaks == phase = "failed" => opened = {}
=============================================================================
