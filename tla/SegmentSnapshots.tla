------------------------- MODULE SegmentSnapshots -------------------------
(***************************************************************************)
(* The segments of an IndexSnapshot and the functions of them that the     *)
(* introducer computes.  A snapshot's segment list is a function from      *)
(* segment id to SegmentSnapshot: no property depends on the order of the  *)
(* list.  A SegmentSnapshot is a record                                    *)
(*   docs  the immutable segment: document number -> document              *)
(*   del   the deleted bitmap, a set of document numbers (nil is {})       *)
(*   file  TRUE iff the segment is a PersistedSegment                      *)
(***************************************************************************)
EXTENDS Integers, FiniteSets

NoSegs == [s \in {} |-> {}]

\* The segments of segs that are, and are not, in the set S.
Only(segs, S) == [s \in (DOMAIN segs) \cap S |-> segs[s]]
Without(segs, S) == [s \in (DOMAIN segs) \ S |-> segs[s]]

Live(ss) == (DOMAIN ss.docs) \ ss.del
LiveDocs(ss) == {ss.docs[n] : n \in Live(ss)}
Contents(segs) == UNION {LiveDocs(segs[s]) : s \in DOMAIN segs}

FileSegs(segs) == {s \in DOMAIN segs : segs[s].file}
MemSegs(segs) == (DOMAIN segs) \ FileSegs(segs)

\* All the documents of a segment with an identifier in ids, deleted or not.
DocNumbers(docs, ids) == {n \in DOMAIN docs : docs[n].id \in ids}

---------------------------------------------------------------------------
(* introduceSegment *)

\* The obsoletions prepareSegment computes before it queues the batch.
Obsoletes(segs, ids) == [s \in DOMAIN segs |-> DocNumbers(segs[s].docs, ids)]

\* Mutant: a segment the optimistic work never saw obsoletes nothing.
DeltaOfSeenSegments(segs, next, s) == IF s \in DOMAIN next.obsoletes
                                      THEN next.obsoletes[s] ELSE {}

\* The optimistic work is used where it covers the segment, else it is redone.
Delta(segs, next, s) == IF s \in DOMAIN next.obsoletes
                        THEN next.obsoletes[s]
                        ELSE DocNumbers(segs[s].docs, next.ids)

ApplyDelta(segs, next) ==
  [s \in DOMAIN segs |-> [docs |-> segs[s].docs,
                         del  |-> segs[s].del \cup Delta(segs, next, s),
                         file |-> segs[s].file]]

\* Mutant: fully deleted segments stay.
EvenEmpty(segs) == segs

\* Segments left with no live document are dropped.
LiveOnly(segs) == Only(segs, {s \in DOMAIN segs : Live(segs[s]) # {}})

\* segs with the segment ss added under id.
AddSegment(segs, id, ss) ==
  [s \in (DOMAIN segs) \cup {id} |-> IF s = id THEN ss ELSE segs[s]]

IntroduceSegment(segs, next) ==
  LET kept == LiveOnly(ApplyDelta(segs, next))
  IN  IF next.docs = NoSegs
      THEN kept
      ELSE AddSegment(kept, next.id,
                      [docs |-> next.docs, del |-> {}, file |-> FALSE])

---------------------------------------------------------------------------
(* introducePersist *)

\* The persisted segments still in the list become file segments; their
\* deleted bitmaps are the current ones.
IntroducePersist(segs, persisted) ==
  [s \in DOMAIN segs |-> [docs |-> segs[s].docs,
                         del  |-> segs[s].del,
                         file |-> segs[s].file \/ s \in persisted]]

---------------------------------------------------------------------------
(* Merging.  The library merges a list of segments, each without its       *)
(* dropped documents, and numbers the survivors consecutively.             *)

Survivors(segs) == UNION {{s} \X Live(segs[s]) : s \in DOMAIN segs}

Precedes(p, q) == p[1] < q[1] \/ (p[1] = q[1] /\ p[2] < q[2])

NewDocNum(segs, p) == Cardinality({q \in Survivors(segs) : Precedes(q, p)})

MergedDocs(segs) ==
  [n \in {NewDocNum(segs, p) : p \in Survivors(segs)} |->
     LET p == CHOOSE p \in Survivors(segs) : NewDocNum(segs, p) = n
     IN  segs[p[1]].docs[p[2]]]

(***************************************************************************)
(* A segmentMerge.  new maps the id of each merged segment to its          *)
(* documents; hist has, for each segment merged away, its snapshot when    *)
(* the merge started, the merged segment it went into (the code's          *)
(* workerID) and the new number of each of its surviving documents.        *)
(***************************************************************************)
NoMerge == [hist |-> NoSegs, new |-> NoSegs]

\* Mutant: the new numbers count the documents the merge dropped.
SegmentMergeDropsCounted(segs, into) ==
  LET group(id) == Only(segs, {s \in DOMAIN into : into[s] = id})
      all(id) == UNION {{s} \X DOMAIN segs[s].docs : s \in DOMAIN group(id)}
  IN [hist |-> [s \in DOMAIN into |->
                  [old    |-> segs[s],
                   into   |-> into[s],
                   newNum |-> [d \in Live(segs[s]) |->
                     Cardinality({q \in all(into[s]) : Precedes(q, <<s, d>>)})]]],
      new  |-> [id \in {into[s] : s \in DOMAIN into} |-> MergedDocs(group(id))]]

SegmentMerge(segs, into) ==
  LET group(id) == Only(segs, {s \in DOMAIN into : into[s] = id})
  IN [hist |-> [s \in DOMAIN into |->
                  [old    |-> segs[s],
                   into   |-> into[s],
                   newNum |-> [d \in Live(segs[s]) |->
                                 NewDocNum(group(into[s]), <<s, d>>)]]],
      new  |-> [id \in {into[s] : s \in DOMAIN into} |-> MergedDocs(group(id))]]

(* introduceMerge *)

\* Mutants: a segment that left the list keeps its documents alive; the
\* deletions the merge already honoured count again.
DeletedSinceIfListed(segs, merge, s) ==
  IF s \in DOMAIN segs THEN segs[s].del \ merge.hist[s].old.del ELSE {}
DeletedEver(segs, merge, s) ==
  IF s \in DOMAIN segs THEN segs[s].del ELSE Live(merge.hist[s].old)

\* What was deleted from s since the merge started; everything that was live
\* then when s has left the list.
DeletedSince(segs, merge, s) ==
  LET old == merge.hist[s].old
  IN  IF s \in DOMAIN segs THEN segs[s].del \ old.del ELSE Live(old)

NewDeleted(segs, merge, id) ==
  UNION {{merge.hist[s].newNum[d] : d \in DeletedSince(segs, merge, s)} :
           s \in {t \in DOMAIN merge.hist : merge.hist[t].into = id}}

MergedSegs(segs, merge) ==
  [id \in DOMAIN merge.new |->
     [docs |-> merge.new[id], del |-> NewDeleted(segs, merge, id), file |-> TRUE]]

\* Two lists of segments with no id in common.
Joined(f, g) == [s \in (DOMAIN f) \cup (DOMAIN g) |->
                   IF s \in DOMAIN f THEN f[s] ELSE g[s]]

IntroduceMerge(segs, merge) ==
  Joined(LiveOnly(Without(segs, DOMAIN merge.hist)), LiveOnly(MergedSegs(segs, merge)))

---------------------------------------------------------------------------
(* The shape of segments and of merges, whose documents are in the set D.  *)
(* A deleted bitmap only names documents of its segment, and a merge       *)
(* numbers every surviving document within the segment it goes into.       *)

DocNum == Nat
SegmentID == Nat

IsDocs(D, docs) ==
  /\ docs \in [DOMAIN docs -> D]
  /\ DOMAIN docs \subseteq DocNum
  /\ IsFiniteSet(DOMAIN docs)

IsSegmentSnapshot(D, ss) ==
  /\ ss = [docs |-> ss.docs, del |-> ss.del, file |-> ss.file]
  /\ IsDocs(D, ss.docs)
  /\ ss.del \subseteq DOMAIN ss.docs
  /\ ss.file \in BOOLEAN

IsSegs(D, segs) ==
  /\ segs = [s \in DOMAIN segs |-> segs[s]]
  /\ DOMAIN segs \subseteq SegmentID
  /\ IsFiniteSet(DOMAIN segs)
  /\ \A s \in DOMAIN segs : IsSegmentSnapshot(D, segs[s])

IsMergedHistory(D, h) ==
  /\ h = [old |-> h.old, into |-> h.into, newNum |-> h.newNum]
  /\ IsSegmentSnapshot(D, h.old)
  /\ h.newNum \in [Live(h.old) -> DocNum]

IsMerge(D, merge) ==
  /\ merge = [hist |-> merge.hist, new |-> merge.new]
  /\ merge.hist = [s \in DOMAIN merge.hist |-> merge.hist[s]]
  /\ merge.new = [id \in DOMAIN merge.new |-> merge.new[id]]
  /\ DOMAIN merge.hist \cup DOMAIN merge.new \subseteq SegmentID
  /\ IsFiniteSet(DOMAIN merge.hist) /\ IsFiniteSet(DOMAIN merge.new)
  /\ \A id \in DOMAIN merge.new : IsDocs(D, merge.new[id])
  /\ \A s \in DOMAIN merge.hist :
       /\ IsMergedHistory(D, merge.hist[s])
       /\ merge.hist[s].into \in DOMAIN merge.new
       /\ \A d \in Live(merge.hist[s].old) :
            merge.hist[s].newNum[d] \in DOMAIN merge.new[merge.hist[s].into]

\* Every document of a merged segment is a survivor of its history.
MergeSound(merge) ==
  \A id \in DOMAIN merge.new : \A n \in DOMAIN merge.new[id] :
    \E s \in DOMAIN merge.hist : \E d \in Live(merge.hist[s].old) :
      /\ merge.hist[s].into = id
      /\ merge.hist[s].newNum[d] = n
      /\ merge.new[id][n] = merge.hist[s].old.docs[d]
=============================================================================
