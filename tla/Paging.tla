------------------------------- MODULE Paging -------------------------------
(* A search request and its pages: the top-N collector of one index          *)
(* (search/collector/topn.go), the request that SearchInContext of           *)
(* index_impl.go reverses for a page before a hit, and MultiSearch of        *)
(* index_alias_impl.go, which asks several indexes for the first hits of     *)
(* each and merges what they answer.  A client walks through the pages with  *)
(* From, SearchAfter and SearchBefore and uses one request object for all of *)
(* them, as docs/pagination.md proposes.                                     *)
EXTENDS Naturals, Sequences, FiniteSets, SequencesExt, Functions

CONSTANTS
  Docs,        \* the matching documents: numbers, in the order of their indexes
  Keys,        \* values of the field "key" and scores: positive numbers
  Indexes,     \* one index: searched directly; several: searched as an alias
  Fields,      \* the request's Sort: a sequence over {"key", "score", "_id"}
  Descending,  \* the direction of each of Fields
  Sizes,       \* the page sizes a client asks for
  Froms,       \* the offsets a client asks for
  Heap,        \* whether the collector keeps its hits in a heap or in a slice
  MayFail      \* whether searches of an index may return an error

\* What is assumed of the constants.
PagingAssumption ==
  /\ Docs \subseteq Nat /\ Keys \subseteq Nat \ {0} /\ Sizes \subseteq Nat /\ Froms \subseteq Nat
  /\ Fields \in Seq({"key", "score", "_id"}) /\ Descending \in [DOMAIN Fields -> BOOLEAN]
  /\ Heap \in BOOLEAN /\ MayFail \in BOOLEAN

VARIABLES
  key,      \* the field "key", and the score, of every document
  home,     \* the index of every document
  req,      \* the client's request object
  asked,    \* what the client wants of the search under way or done last
  pending,  \* the indexes whose answer has not arrived
  merged,   \* the hits that have arrived, in the order of their arrival
  failed,   \* the indexes whose search returned an error
  reply     \* what the last search returned, or NoResult

docs == <<key, home>>
vars == <<key, home, req, asked, pending, merged, failed, reply>>

None == [none |-> TRUE]
NoResult == [hits |-> <<>>, total |-> 0, status |-> "none"]
Idle == [running |-> FALSE, after |-> 0, before |-> 0, from |-> 0, size |-> 0]

Alias == Cardinality(Indexes) > 1

(***************************************************************************)
(* Sorting.  A hit carries the values that are compared, the strings that  *)
(* the client sees in hit.Sort, and the number of the hit in its index.    *)
(* Identifiers grow against the order of the index.                        *)
(***************************************************************************)
Compared(d, f) == IF f = "_id" THEN 100 - d ELSE key[d]

(* SortScore.Value is the constant "_score", which createSearchAfterDocument *)
(* cannot parse as a number: the document to compare with has score 0.       *)
Shown(d, f) == IF f = "score" THEN 0 ELSE Compared(d, f)

HitOf(d, n) ==
  [doc |-> d, num |-> n,
   values |-> [x \in DOMAIN Fields |-> Compared(d, Fields[x])],
   sort |-> [x \in DOMAIN Fields |-> Shown(d, Fields[x])]]

(* Compare(a, b) < 0. *)
Precedes(desc, a, b) ==
  \/ \E x \in DOMAIN Fields :
       /\ \A y \in 1..(x - 1) : a.values[y] = b.values[y]
       /\ IF desc[x] THEN a.values[x] > b.values[x] ELSE a.values[x] < b.values[x]
  \/ a.values = b.values /\ a.num < b.num

Sorted(desc, hits) ==
  SortSeq(hits, LAMBDA a, b : Precedes(desc, a, b))

OtherWay(desc) == [x \in DOMAIN desc |-> ~desc[x]]

(***************************************************************************)
(* The collector.  coll.store is a sorted sequence (the slice) or a set    *)
(* whose worst hit is at the top (the heap).                               *)
(***************************************************************************)
Worst(desc, S) == CHOOSE a \in S : \A b \in S \ {a} : Precedes(desc, b, a)

SliceAdd(desc, slice, hit) ==
  LET i == Cardinality({j \in DOMAIN slice : ~Precedes(desc, hit, slice[j])})
  IN  InsertAt(slice, i + 1, hit)

AddToSlice(desc, slice, hit, size) ==
  LET longer == SliceAdd(desc, slice, hit)
  IN  IF Len(longer) > size THEN <<Front(longer), Last(longer)>> ELSE <<longer, None>>

AddToHeap(desc, heap, hit, size) ==
  LET larger == heap \cup {hit}
      worst  == Worst(desc, larger)
  IN  IF Cardinality(larger) > size THEN <<larger \ {worst}, worst>> ELSE <<larger, None>>

AddNotExceedingSize(desc, store, hit, size) ==
  IF Heap THEN AddToHeap(desc, store, hit, size) ELSE AddToSlice(desc, store, hit, size)

FinalSlice(slice, skip) ==
  IF skip <= Len(slice) THEN SubSeq(slice, skip + 1, Len(slice)) ELSE <<>>

(* Pops the worst hit first and fills the result from its end. *)
FinalHeap(desc, heap, skip) ==
  LET n == Cardinality(heap)
      popped[i \in 0..n] == IF i = 0 THEN heap ELSE popped[i - 1] \ {Worst(desc, popped[i - 1])}
  IN  IF n <= skip THEN <<>>
      ELSE [i \in 1..(n - skip) |-> Worst(desc, popped[n - skip - i])]

Final(desc, store, skip) ==
  IF Heap THEN FinalHeap(desc, store, skip) ELSE FinalSlice(store, skip)

(* Mutant: the skipped hits are not counted into what is kept. *)
KeepSizeOnly(desc, coll, hit, r) ==
  LET added == AddNotExceedingSize(desc, coll.store, hit, r.size)
  IN  [coll EXCEPT !.store = added[1]]

(* What MakeTopNDocumentMatchHandler does with a hit: not beyond the hit to  *)
(* search after; not better than the best hit that was removed before; added *)
(* to the store, which then removes its worst.                               *)
Handle(desc, coll, hit, r) ==
  LET after  == [hit EXCEPT !.values = r.after]
      added  == AddNotExceedingSize(desc, coll.store, hit, r.size + r.from)
      better == coll.lowest = None \/ Precedes(desc, added[2], coll.lowest)
  IN  IF r.after # <<>> /\ ~Precedes(desc, after, hit) THEN coll
      ELSE IF coll.lowest # None /\ ~Precedes(desc, hit, coll.lowest) THEN coll
      ELSE [store  |-> added[1],
            lowest |-> IF added[2] = None THEN coll.lowest
                       ELSE IF better THEN added[2] ELSE coll.lowest]

(* Collect: the hits of an index in its order, numbered from 1. *)
HitsOf(i) ==
  LET mine == SetToSortSeq({d \in Docs : home[d] = i}, <)
  IN  [n \in DOMAIN mine |-> HitOf(mine[n], n)]

Collect(i, r) ==
  LET empty == [store |-> IF Heap THEN {} ELSE <<>>, lowest |-> None]
      coll  == FoldLeft(LAMBDA c, hit : Handle(r.desc, c, hit, r), empty, HitsOf(i))
  IN  Final(r.desc, coll.store, r.from)

(***************************************************************************)
(* The request.  after and before hold the strings of a hit's Sort, <<>>   *)
(* when they are not set; createSearchAfterDocument turns them into values *)
(* to compare.                                                             *)
(***************************************************************************)
(* createChildSearchRequest: every index must answer with the hits of the    *)
(* pages before, too.                                                        *)
Child(r) == [r EXCEPT !.size = r.size + r.from, !.from = 0]

Reversed(r) ==
  IF r.before = <<>> THEN r
  ELSE [r EXCEPT !.desc = OtherWay(@), !.after = r.before, !.before = <<>>]

(* Mutant: the direction stays reversed after a page before a hit. *)
RestoreBoundsOnly(r) ==
  [r EXCEPT !.before = r.after, !.after = <<>>]

(* "reverse the sort back to the original" and "reset request". *)
Restored(r) ==
  [r EXCEPT !.desc = OtherWay(@), !.before = r.after, !.after = <<>>]

HitsInCurrentPage(r, hits) ==
  LET sorted == Sorted(r.desc, hits)
      later  == IF r.from = 0 THEN sorted
                ELSE IF Len(sorted) > r.from THEN SubSeq(sorted, r.from + 1, Len(sorted)) ELSE <<>>
  IN  IF r.size > 0 /\ Len(later) > r.size THEN SubSeq(later, 1, r.size) ELSE later

Init ==
  /\ key \in [Docs -> Keys] /\ home \in [Docs -> Indexes]
  /\ req = [desc |-> Descending, after |-> <<>>, before |-> <<>>, from |-> 0, size |-> 0]
  /\ asked = Idle /\ pending = {} /\ merged = <<>> /\ failed = {} /\ reply = NoResult

(* A client sets the bounds of its request and searches; a page before a hit *)
(* is the page after it in the reversed order.                               *)
Search(r, wanted) ==
  /\ ~asked.running
  /\ asked' = [wanted EXCEPT !.running = TRUE]
  /\ req' = Reversed(r)
  /\ pending' = Indexes /\ merged' = <<>> /\ failed' = {}
  /\ UNCHANGED <<docs, reply>>

FirstPage ==
  \E size \in Sizes, from \in Froms :
    Search([req EXCEPT !.from = from, !.size = size, !.after = <<>>, !.before = <<>>],
           [Idle EXCEPT !.from = from, !.size = size])

(* After an empty page there is no hit to continue from. *)
NextPage ==
  /\ reply.hits # <<>>
  /\ \E size \in Sizes :
       LET hit == Last(reply.hits)
       IN  Search([req EXCEPT !.from = 0, !.size = size, !.after = hit.sort, !.before = <<>>],
                  [Idle EXCEPT !.size = size, !.after = hit.doc])

PrevPage ==
  /\ reply.hits # <<>>
  /\ \E size \in Sizes :
       LET hit == Head(reply.hits)
       IN  Search([req EXCEPT !.from = 0, !.size = size, !.after = <<>>, !.before = hit.sort],
                  [Idle EXCEPT !.size = size, !.before = hit.doc])

(* The client searches once more with the request it has. *)
Again ==
  /\ reply.status = "error"
  /\ Search(req, asked)

(* The search of one index is done, and the receiver appends its hits.  One  *)
(* index is searched with the request itself, the indexes of an alias with a *)
(* copy each.                                                                *)
Answer(i) ==
  /\ i \in pending
  /\ pending' = pending \ {i}
  /\ merged' = merged \o Collect(i, IF Alias THEN Child(req) ELSE req)
  /\ UNCHANGED <<docs, req, asked, failed, reply>>

(* A search fails: its context is done, or a reader returns an error. *)
Fails(i) ==
  /\ MayFail /\ i \in pending
  /\ pending' = pending \ {i} /\ failed' = failed \cup {i}
  /\ UNCHANGED <<docs, req, asked, merged, reply>>

(* SearchInContext returns the error at once, before it has restored the     *)
(* request.                                                                  *)
ReturnError ==
  /\ asked.running /\ pending = {} /\ ~Alias /\ failed # {}
  /\ reply' = [NoResult EXCEPT !.status = "error"]
  /\ asked' = [asked EXCEPT !.running = FALSE]
  /\ UNCHANGED <<docs, req, pending, merged, failed>>

AnsweredDocs == {d \in Docs : home[d] \notin failed}

(* The page is complete: cut to size when it was merged from the answers of  *)
(* an alias, sorted in the original order when it had been reversed.         *)
Return ==
  /\ asked.running /\ pending = {} /\ (Alias \/ failed = {})
  /\ LET before == asked.before # 0
         page   == IF Alias THEN HitsInCurrentPage(req, merged) ELSE merged
         back   == IF before THEN Restored(req) ELSE req
     IN  /\ reply' = [hits   |-> IF before THEN Sorted(back.desc, page) ELSE page,
                      total  |-> Cardinality(AnsweredDocs),
                      status |-> IF failed = {} THEN "all" ELSE "some"]
         /\ req' = back
  /\ asked' = [asked EXCEPT !.running = FALSE]
  /\ UNCHANGED <<docs, pending, merged, failed>>

Next ==
  \/ FirstPage \/ NextPage \/ PrevPage \/ Again
  \/ \E i \in Indexes : Answer(i) \/ Fails(i)
  \/ ReturnError \/ Return

Spec == Init /\ [][Next]_vars

(***************************************************************************)
(* What the pages must be, from the documents alone.                       *)
(***************************************************************************)
InOrder(S) ==
  LET hits   == SetToSeq({HitOf(d, d) : d \in S})
      sorted == Sorted(Descending, hits)
  IN  [n \in DOMAIN sorted |-> sorted[n].doc]

Beyond(d, e) == HitOf(d, 0).values # HitOf(e, 0).values /\ Precedes(Descending, HitOf(e, 0), HitOf(d, 0))

Wanted ==
  LET all    == InOrder(AnsweredDocs)
      after  == SelectSeq(all, LAMBDA d : Beyond(d, asked.after))
      before == SelectSeq(all, LAMBDA d : Beyond(asked.before, d))
      first  == IF Len(before) > asked.size THEN Len(before) - asked.size ELSE 0
      upto(s, n) == SubSeq(s, 1, IF n < Len(s) THEN n ELSE Len(s))
  IN  IF asked.after # 0 THEN upto(after, asked.size)
      ELSE IF asked.before # 0 THEN SubSeq(before, first + 1, Len(before))
      ELSE upto(SubSeq(all, asked.from + 1, Len(all)), asked.size)

Answered == ~asked.running /\ reply.status \in {"all", "some"}

TypeOK ==
  /\ key \in [Docs -> Keys] /\ home \in [Docs -> Indexes]
  /\ req.desc \in [DOMAIN Fields -> BOOLEAN]
  /\ pending \subseteq Indexes /\ failed \subseteq Indexes
  /\ \A n \in DOMAIN merged : merged[n].doc \in Docs
  /\ reply.status \in {"none", "all", "some", "error"}
  /\ Answered => Len(reply.hits) <= asked.size

(* A search returns exactly the hits of the page that was asked for, in the  *)
(* order of the request's Sort: the best Size hits after the first From of   *)
(* them, after a hit, or before a hit, of all the indexes that have answered *)
(* (topn.go, index_impl.go and index_alias_impl.go together).                *)
PageExact ==
  Answered => [n \in DOMAIN reply.hits |-> reply.hits[n].doc] = Wanted

(* Whatever page was asked for, the request is the client's again when the   *)
(* search is over ("reset request", index_impl.go and index_alias_impl.go):  *)
(* the next search with it sorts as the first did.                           *)
RequestRestored ==
  ~asked.running =>
    /\ req.desc = Descending
    /\ asked.before # 0 => req.before # <<>> /\ req.after = <<>>
    /\ asked.after # 0 => req.after # <<>> /\ req.before = <<>>
=============================================================================
