-------------------------- MODULE SnapshotProofs --------------------------
(***************************************************************************)
(* What an IndexSnapshot shows its readers.                                *)
(*                                                                         *)
(* First the root: at most one live document per identifier, and readers   *)
(* see an atomic index, for any number of writers, documents, segments and *)
(* persister workers.  Every stale root a goroutine works from differs     *)
(* from the current one only in which documents are deleted and which      *)
(* segments have gone (RememberedSegments, ObsoletesExact), because a      *)
(* segment id, once handed out, names one segment for ever (FreshIDs).  So *)
(* reconciling an introduction with the root it meets loses no deletion.   *)
(* The same facts say which documents are live after each introduction:    *)
(* those of the root for a merge or a persist, those the batch leaves for  *)
(* a batch; with that every step is one of AtomicIndex or leaves it as it  *)
(* is.                                                                     *)
(*                                                                         *)
(* Then the dictionaries of a field: merged from those of the segments     *)
(* with each term once, in order and counted right, for any terms, any     *)
(* segments, in any order of their answers.  That rests on the order of    *)
(* terms being total, so that the heap has a least one, and on what the    *)
(* ends computed by carrying a byte are: nothing of a text is between.     *)
(***************************************************************************)
EXTENDS ScorchRoot, SegmentSnapshotsProofs, FieldDicts, SequenceTheorems

---------------------------------------------------------------------------
(* Type correctness, step by step *)

Inv == TypeOK /\ StaleRootsHarmless

LEMMA NoSnapshotType == IsSnapshot(NoSnapshot)
  BY NoSegsType DEF IsSnapshot, NoSnapshot, IndexSnapshot

LEMMA NotCallingType == IsIntroduction(NotCalling)
  BY FS_EmptySet DEF IsIntroduction, NotCalling, IsDocs, NoSegs, SegmentID

LEMMA InitType == Init => TypeOK
<1> SUFFICES ASSUME Init PROVE TypeOK
  OBVIOUS
<1>1. IsPersister(Resting(0))
  BY NoMergeType, NoSnapshotType DEF IsPersister, Resting
<1>2. IsMerger(NoTask)
  BY NoMergeType, NoSegsType DEF IsMerger, NoTask
<1> QED
  BY <1>1, <1>2, NoSnapshotType, NotCallingType DEF Init, TypeOK

LEMMA DocsOfFinite ==
  ASSUME NEW b \in Batch
  PROVE  Atomic!DocsOf(b) \subseteq Doc /\ IsFiniteSet(Atomic!DocsOf(b))
<1> DEFINE D == Atomic!DocsOf(b)
<1>1. /\ DOMAIN b.ops \in SUBSET DocId
      /\ b.ops \in [DOMAIN b.ops -> Val \cup {NoVal}]
      /\ IsFiniteSet(DOMAIN b.ops)
  BY ConstantsAssumption DEF Atomic!BatchType
<1>2. D \subseteq Doc
  BY <1>1 DEF Atomic!DocsOf, Atomic!Updates, Atomic!Ids, Doc
<1>3. IsFiniteSet(D)
  <2> DEFINE f == [i \in Atomic!Updates(b) |-> [id |-> i, val |-> b.ops[i]]]
  <2>1. IsFiniteSet(Atomic!Updates(b))
    BY <1>1, FS_Subset DEF Atomic!Updates, Atomic!Ids
  <2>2. D = {f[i] : i \in Atomic!Updates(b)}
    BY DEF Atomic!DocsOf
  <2> HIDE DEF f, D
  <2> QED
    BY <2>1, <2>2, ImageFinite
<1> QED
  BY <1>2, <1>3

\* The segment of a batch numbers its documents from 0.
LEMMA SegmentsType ==
  ASSUME NEW b \in Batch, NEW docs \in Segments(Atomic!DocsOf(b))
  PROVE  IsDocs(Doc, docs)
<1> DEFINE D == Atomic!DocsOf(b)
<1>1. D \subseteq Doc /\ IsFiniteSet(D)
  BY DocsOfFinite
<1>2. Cardinality(D) - 1 \in Int
  BY <1>1, FS_CardinalityType
<1>3. IsFiniteSet(0 .. Cardinality(D) - 1)
  BY <1>2, FS_Interval
<1>4. docs \in [0 .. Cardinality(D) - 1 -> D]
  BY DEF Segments
<1> HIDE DEF D
<1> QED
  BY <1>1, <1>2, <1>3, <1>4 DEF IsDocs, DocNum

LEMMA SwapRootType ==
  ASSUME NEW segs, NEW internal, TypeOK, IsSegs(Doc, segs),
         internal \in Val \cup {NoVal}, SwapRoot(segs, internal)
  PROVE  IsSnapshot(root')
  BY DEF SwapRoot, IsSnapshot, IndexSnapshot, TypeOK

\* Only the writer's own introduction changes, to one of the right shape.
LEMMA IntroductionsType ==
  ASSUME TypeOK, NEW w \in Writer, NEW next, IsIntroduction(next),
         introductions' = [introductions EXCEPT ![w] = next]
  PROVE  /\ introductions' = [x \in Writer |-> introductions'[x]]
         /\ \A x \in Writer : IsIntroduction(introductions'[x])
<1>1. DOMAIN introductions = Writer
  BY DEF TypeOK
<1>2. \A x \in Writer : IsIntroduction(introductions[x])
  BY DEF TypeOK
<1>3. \A x \in Writer : introductions'[x] = IF x = w THEN next ELSE introductions[x]
  BY <1>1
<1> QED
  BY <1>1, <1>2, <1>3

LEMMA PrepareSegmentType ==
  ASSUME Inv, NEW w \in Writer, NEW b \in Batch, PrepareSegment(w, b)
  PROVE  TypeOK'
<1> USE DEF Inv
<1>1. PICK docs \in Segments(Atomic!DocsOf(b)) :
        introductions' = [introductions EXCEPT ![w] =
          [call |-> Atomic!Calling(b), id |-> nextSegmentID + 1, docs |-> docs,
           ids |-> Atomic!Ids(b), obsoletes |-> Obsoletes(root.segs, Atomic!Ids(b))]]
  BY DEF PrepareSegment
<1> DEFINE next == [call |-> Atomic!Calling(b), id |-> nextSegmentID + 1,
                    docs |-> docs, ids |-> Atomic!Ids(b),
                    obsoletes |-> Obsoletes(root.segs, Atomic!Ids(b))]
<1>2. IsDocs(Doc, docs)
  BY SegmentsType
<1>3. nextSegmentID + 1 \in SegmentID
  BY DEF TypeOK, SegmentID
<1>4. next.obsoletes \in [DOMAIN next.obsoletes -> SUBSET DocNum]
  BY DEF Obsoletes, DocNumbers, TypeOK, IsSnapshot, IsSegs, IsSegmentSnapshot, IsDocs
<1>5. IsIntroduction(next)
  BY <1>2, <1>3, <1>4 DEF IsIntroduction
<1>6. /\ introductions' = [x \in Writer |-> introductions'[x]]
      /\ \A x \in Writer : IsIntroduction(introductions'[x])
  <2> HIDE DEF next
  <2> QED
    BY <1>1, <1>5, IntroductionsType DEF next
<1>7. nextSegmentID' \in Nat
  BY DEF PrepareSegment, TypeOK
<1> QED
  BY <1>6, <1>7 DEF PrepareSegment, TypeOK

LEMMA BatchFailsType ==
  ASSUME Inv, NEW w \in Writer, BatchFails(w)
  PROVE  TypeOK'
  BY NotCallingType, IntroductionsType DEF BatchFails, Inv, TypeOK

LEMMA IntroduceBatchType ==
  ASSUME Inv, NEW w \in Writer, IntroduceBatch(w)
  PROVE  TypeOK'
<1> DEFINE next == introductions[w]
<1>1. IsIntroduction(next) /\ IsSegs(Doc, root.segs)
  BY DEF Inv, TypeOK, IsSnapshot
<1>2. \A s \in DOMAIN root.segs : Delta(root.segs, next, s) \subseteq DOMAIN root.segs[s].docs
  BY DEF Inv, StaleRootsHarmless, ObsoletesExact, ExactFor, Delta, DocNumbers
<1>3. IsSegs(Doc, IntroduceSegment(root.segs, next))
  <2>1. IsDocs(Doc, next.docs) /\ next.id \in SegmentID
    BY <1>1 DEF IsIntroduction
  <2> HIDE DEF next
  <2> QED
    BY <1>1, <1>2, <2>1, IntroduceSegmentType
<1>4. PICK b \in Batch : next.call = Atomic!Calling(b)
  BY <1>1 DEF IsIntroduction, IntroduceBatch
<1>5. next.call.batch = b /\ b.internal \in Val \cup {NoVal, Keep}
  BY <1>4, ConstantsAssumption DEF Atomic!Calling, Atomic!BatchType
<1>6. Atomic!AppliedInternal(root.internal, next.call.batch) \in Val \cup {NoVal}
  BY <1>5 DEF Atomic!AppliedInternal, Inv, TypeOK, IsSnapshot
<1>7. IsSnapshot(root')
  BY <1>3, <1>6, SwapRootType DEF IntroduceBatch, Inv
<1> QED
  BY <1>7, NotCallingType, IntroductionsType DEF IntroduceBatch, Inv, TypeOK

---------------------------------------------------------------------------

LEMMA MergesMatch ==
  ASSUME Inv
  PROVE  /\ Matches(root.segs, persister.merge)
         /\ Matches(root.segs, merger.merge)
  BY DEF Inv, StaleRootsHarmless, RememberedSegments, AllMergedWereInRoot, WasInRoot, Matches

\* A change of the persister alone, to a state of the right shape.
LEMMA PersisterType ==
  ASSUME TypeOK, IsPersister(persister'),
         UNCHANGED <<root, nextSegmentID, introductions, merger>>
  PROVE  TypeOK'
  BY DEF TypeOK

LEMMA PersisterStepType ==
  ASSUME Inv, PersisterStep
  PROVE  TypeOK'
<1>1. IsPersister(persister) /\ IsSnapshot(root) /\ TypeOK
  BY DEF Inv, TypeOK
<1>2. CASE PersisterTakesSnapshot
  <2>1. IsPersister(persister')
    BY <1>1, <1>2 DEF PersisterTakesSnapshot, IsPersister
  <2> QED
    BY <1>1, <1>2, <2>1, PersisterType DEF PersisterTakesSnapshot
<1>3. CASE MergeInMemory
  <2>1. PICK k \in 1 .. NumPersisterWorkers :
          /\ nextSegmentID' = nextSegmentID + k
          /\ \E into \in FlushSets(persister.snap.segs, NewIDs(k)) :
               persister' = [persister EXCEPT
                               !.pc = "merging",
                               !.merge = SegmentMerge(persister.snap.segs, into)]
    BY <1>3 DEF MergeInMemory
  <2>2. PICK into \in FlushSets(persister.snap.segs, NewIDs(k)) :
          persister' = [persister EXCEPT
                          !.pc = "merging",
                          !.merge = SegmentMerge(persister.snap.segs, into)]
    BY <2>1
  <2>3. /\ DOMAIN into \subseteq DOMAIN persister.snap.segs
        /\ \A s \in DOMAIN into : into[s] \in NewIDs(k)
    BY DEF FlushSets, MemSegs
  <2>4. k \in Nat /\ nextSegmentID \in Nat
    BY <1>1, ConstantsAssumption DEF TypeOK
  <2>5. NewIDs(k) \subseteq SegmentID
    BY <2>4 DEF NewIDs, SegmentID
  <2>6. IsMerge(Doc, SegmentMerge(persister.snap.segs, into))
    BY <1>1, <2>3, <2>5, SegmentMergeType DEF IsPersister, IsSnapshot
  <2>7. IsPersister(persister')
    BY <1>1, <2>2, <2>6 DEF IsPersister
  <2> QED
    BY <1>1, <1>3, <2>1, <2>4, <2>7 DEF MergeInMemory, TypeOK
<1>4. CASE PersistDirectly
  <2>1. IsPersister(persister')
    BY <1>1, <1>4, NoMergeType DEF PersistDirectly, PersisterGoes, IsPersister
  <2> QED
    BY <1>1, <1>4, <2>1, PersisterType DEF PersistDirectly
<1>5. CASE IntroduceInMemoryMerge
  <2>1. IsSegs(Doc, IntroduceMerge(root.segs, persister.merge))
    BY <1>1, MergesMatch, IntroduceMergeType DEF IsPersister, IsSnapshot
  <2>2. IsSnapshot(root')
    BY <1>1, <1>5, <2>1, SwapRootType DEF IntroduceInMemoryMerge, IsSnapshot
  <2>3. IsPersister(persister')
    BY <1>1, <1>5, NoMergeType DEF IntroduceInMemoryMerge, PersisterGoes, IsPersister
  <2> QED
    BY <1>1, <1>5, <2>2, <2>3 DEF IntroduceInMemoryMerge, TypeOK
<1>6. CASE IntroducePersisted
  <2>1. IsSegs(Doc, IntroducePersist(root.segs, MemSegs(persister.snap.segs)))
    BY <1>1, IntroducePersistType DEF IsSnapshot
  <2>2. IsSnapshot(root')
    BY <1>1, <1>6, <2>1, SwapRootType DEF IntroducePersisted, IsSnapshot
  <2>3. IsPersister(persister')
    BY <1>1, <1>6, NoMergeType DEF IntroducePersisted, PersisterGoes, IsPersister
  <2> QED
    BY <1>1, <1>6, <2>2, <2>3 DEF IntroducePersisted, TypeOK
<1>7. CASE SnapshotPersisted
  <2>1. IsPersister(persister')
    BY <1>1, <1>7, NoMergeType, NoSnapshotType
       DEF SnapshotPersisted, Resting, IsPersister, IsSnapshot
  <2> QED
    BY <1>1, <1>7, <2>1, PersisterType DEF SnapshotPersisted
<1>8. CASE PersistFails
  <2>1. IsPersister(persister')
    BY <1>1, <1>8, NoMergeType, NoSnapshotType DEF PersistFails, Resting, IsPersister
  <2> QED
    BY <1>1, <1>8, <2>1, PersisterType DEF PersistFails
<1> QED
  BY <1>2, <1>3, <1>4, <1>5, <1>6, <1>7, <1>8 DEF PersisterStep

LEMMA MergerStepType ==
  ASSUME Inv, MergerStep
  PROVE  TypeOK'
<1>1. IsMerger(merger) /\ IsSnapshot(root) /\ TypeOK
  BY DEF Inv, TypeOK
<1>2. CASE MergerTakesSnapshot
  <2>1. IsMerger(merger')
    BY <1>1, <1>2, OnlyType DEF MergerTakesSnapshot, IsMerger, IsSnapshot
  <2> QED
    BY <1>1, <1>2, <2>1 DEF MergerTakesSnapshot, TypeOK
<1>3. ASSUME NEW S \in SUBSET DOMAIN merger.segs, StartFileMerge(S)
      PROVE  TypeOK'
  <2> DEFINE into == [s \in S |-> nextSegmentID + 1]
  <2>1. nextSegmentID + 1 \in SegmentID /\ nextSegmentID' \in Nat
    BY <1>1, <1>3 DEF StartFileMerge, TypeOK, SegmentID
  <2>2. IsMerge(Doc, SegmentMerge(merger.segs, into))
    <3>1. /\ DOMAIN into \subseteq DOMAIN merger.segs
          /\ \A s \in DOMAIN into : into[s] \in SegmentID
      BY <2>1
    <3> HIDE DEF into
    <3> QED
      BY <1>1, <3>1, SegmentMergeType DEF IsMerger
  <2>3. IsMerger(merger')
    BY <1>1, <1>3, <2>2, WithoutType DEF StartFileMerge, IsMerger
  <2> QED
    BY <1>1, <1>3, <2>1, <2>3 DEF StartFileMerge, TypeOK
<1>4. CASE IntroduceFileMerge
  <2>1. IsSegs(Doc, IntroduceMerge(root.segs, merger.merge))
    BY <1>1, MergesMatch, IntroduceMergeType DEF IsMerger, IsSnapshot
  <2>2. IsSnapshot(root')
    BY <1>1, <1>4, <2>1, SwapRootType DEF IntroduceFileMerge, IsSnapshot
  <2>3. IsMerger(merger')
    BY <1>1, <1>4, NoMergeType DEF IntroduceFileMerge, IsMerger
  <2> QED
    BY <1>1, <1>4, <2>2, <2>3 DEF IntroduceFileMerge, TypeOK
<1>5. CASE MergerDone
  <2>1. IsMerger(merger')
    BY <1>5, NoMergeType, NoSegsType DEF MergerDone, NoTask, IsMerger
  <2> QED
    BY <1>1, <1>5, <2>1 DEF MergerDone, TypeOK
<1> QED
  BY <1>2, <1>3, <1>4, <1>5 DEF MergerStep

LEMMA TypeStep ==
  ASSUME Inv, [Next]_vars
  PROVE  TypeOK'
<1>1. CASE WriterStep
  BY <1>1, PrepareSegmentType, BatchFailsType, IntroduceBatchType DEF WriterStep
<1>2. CASE PersisterStep
  BY <1>2, PersisterStepType
<1>3. CASE MergerStep
  BY <1>3, MergerStepType
<1>4. CASE UNCHANGED vars
  BY <1>4 DEF vars, Inv, TypeOK
<1> QED
  BY <1>1, <1>2, <1>3, <1>4 DEF Next


---------------------------------------------------------------------------
(* What every step does to segment ids and to the root *)

\* Ids are handed out in order, and only those handed out in this step can
\* become pending.
IDStep == /\ nextSegmentID \in Nat /\ nextSegmentID' \in Nat
          /\ nextSegmentID <= nextSegmentID'
          /\ Pending' \subseteq Pending \cup (nextSegmentID + 1 .. nextSegmentID')

\* What was known of a settled segment stays so.
LEMMA Stability ==
  ASSUME FreshIDs, IDStep, NEW S, S \subseteq Pending,
         Ages(root.segs, root'.segs, S)
  PROVE  /\ \A s : Settled(s) => Settled(s)'
         /\ \A s, ss : WasInRoot(s, ss) => WasInRoot(s, ss)'
         /\ \A next : ExactFor(next) => ExactFor(next)'
<1>1. ASSUME NEW s, Settled(s)
      PROVE  Settled(s)'
  BY <1>1 DEF Settled, IDStep
<1>2. ASSUME NEW s, Settled(s), s \in DOMAIN root'.segs
      PROVE  /\ s \in DOMAIN root.segs
             /\ root'.segs[s].docs = root.segs[s].docs
             /\ root.segs[s].del \subseteq root'.segs[s].del
  BY <1>2 DEF Settled, Ages
<1>3. ASSUME NEW s, NEW ss, WasInRoot(s, ss)
      PROVE  WasInRoot(s, ss)'
  BY <1>1, <1>2, <1>3 DEF WasInRoot
<1>4. ASSUME NEW next, ExactFor(next)
      PROVE  ExactFor(next)'
  BY <1>1, <1>2, <1>4 DEF ExactFor
<1> QED
  BY <1>1, <1>3, <1>4

---------------------------------------------------------------------------
(* Each introduction keeps identifiers unique *)

LEMMA IntroducePersistUnique ==
  ASSUME NEW segs, UniqueIDs(segs), NEW S
  PROVE  UniqueIDs(IntroducePersist(segs, S))
  BY DEF UniqueIDs, IntroducePersist, Live

\* A batch: the old versions of its documents are deleted wherever they are,
\* and its own segment has one document per identifier.
LEMMA IntroduceSegmentUnique ==
  ASSUME NEW segs, UniqueIDs(segs), NEW next, NEW b,
         \A s \in DOMAIN segs : Delta(segs, next, s) = DocNumbers(segs[s].docs, next.ids),
         next.ids = Atomic!Ids(b),
         next.docs \in Segments(Atomic!DocsOf(b))
  PROVE  UniqueIDs(IntroduceSegment(segs, next))
<1> DEFINE kept == LiveOnly(ApplyDelta(segs, next))
           D == Atomic!DocsOf(b)
           new == [docs |-> next.docs, del |-> {}, file |-> FALSE]
           segs2 == IntroduceSegment(segs, next)
<1>1. ASSUME NEW s \in DOMAIN kept
      PROVE  /\ s \in DOMAIN segs /\ kept[s].docs = segs[s].docs
             /\ Live(kept[s]) \subseteq Live(segs[s])
             /\ \A n \in Live(kept[s]) : kept[s].docs[n].id \notin next.ids
  BY DEF LiveOnly, Only, ApplyDelta, Live, DocNumbers
<1>2. UniqueIDs(kept)
  BY <1>1 DEF UniqueIDs
<1>3. ASSUME NEW n \in DOMAIN next.docs
      PROVE  next.docs[n].id \in next.ids
  <2>1. next.docs[n] \in D
    BY DEF Segments
  <2>2. \A e \in D : e.id \in Atomic!Ids(b)
    BY DEF Atomic!DocsOf, Atomic!Updates
  <2> QED
    BY <2>1, <2>2
<1>4. ASSUME NEW m \in DOMAIN next.docs, NEW n \in DOMAIN next.docs,
             next.docs[m].id = next.docs[n].id
      PROVE  m = n
  <2>1. next.docs[m] \in D /\ next.docs[n] \in D
    BY DEF Segments
  <2>2. next.docs[m] = next.docs[n]
    BY <1>4, <2>1 DEF Atomic!DocsOf
  <2> QED
    BY <2>2 DEF Segments
<1>5. segs2 = kept \/ segs2 = AddSegment(kept, next.id, new)
  BY DEF IntroduceSegment
<1>6. Live(new) = DOMAIN next.docs /\ new.docs = next.docs
  BY DEF Live
<1>7. UniqueIDs(AddSegment(kept, next.id, new))
  <2> HIDE DEF kept, new
  <2> DEFINE a == AddSegment(kept, next.id, new)
  <2>1. ASSUME NEW s \in DOMAIN a
        PROVE  \/ s = next.id /\ a[s] = new
               \/ s # next.id /\ s \in DOMAIN kept /\ a[s] = kept[s]
    BY DEF AddSegment
  <2> HIDE DEF a
  <2>2. SUFFICES ASSUME NEW s \in DOMAIN a, NEW t \in DOMAIN a,
                        NEW m \in Live(a[s]), NEW n \in Live(a[t]),
                        a[s].docs[m].id = a[t].docs[n].id
                 PROVE  s = t /\ m = n
    BY DEF UniqueIDs, a
  <2>3. CASE s = next.id /\ t = next.id
    BY <1>4, <1>6, <2>1, <2>2, <2>3
  <2>4. CASE s # next.id /\ t # next.id
    BY <1>2, <2>1, <2>2, <2>4 DEF UniqueIDs
  <2>5. CASE s = next.id /\ t # next.id
    BY <1>1, <1>3, <1>6, <2>1, <2>2, <2>5
  <2>6. CASE s # next.id /\ t = next.id
    BY <1>1, <1>3, <1>6, <2>1, <2>2, <2>6
  <2> QED
    BY <2>3, <2>4, <2>5, <2>6
<1> QED
  BY <1>2, <1>5, <1>7

\* A merge: each live document of a merged segment is a live document of a
\* segment it replaces, at the number the merge gave it.
LEMMA IntroduceMergeUnique ==
  ASSUME NEW segs, UniqueIDs(segs), NEW merge, MergeSound(merge),
         Matches(segs, merge)
  PROVE  UniqueIDs(IntroduceMerge(segs, merge))
<1> DEFINE H == DOMAIN merge.hist
           new == MergedSegs(segs, merge)
           segs2 == IntroduceMerge(segs, merge)
           \* The document n of the segment s was the document d of r.
           From(s, n, r, d) == IF r \in H
             THEN /\ merge.hist[r].into = s
                  /\ merge.hist[r].newNum[d] = n
             ELSE r = s /\ d = n
<1>1. ASSUME NEW id \in DOMAIN merge.new, NEW n \in Live(new[id])
      PROVE  \E r \in DOMAIN segs : \E d \in Live(segs[r]) :
               /\ r \in H /\ From(id, n, r, d)
               /\ new[id].docs[n] = segs[r].docs[d]
  <2>1. /\ n \in DOMAIN merge.new[id]
        /\ n \notin NewDeleted(segs, merge, id)
        /\ new[id].docs = merge.new[id]
    BY DEF MergedSegs, Live
  <2>2. PICK r \in H : \E d \in Live(merge.hist[r].old) :
               /\ merge.hist[r].into = id
               /\ merge.hist[r].newNum[d] = n
               /\ merge.new[id][n] = merge.hist[r].old.docs[d]
    BY <2>1 DEF MergeSound
  <2>3. PICK d \in Live(merge.hist[r].old) :
               /\ merge.hist[r].into = id
               /\ merge.hist[r].newNum[d] = n
               /\ merge.new[id][n] = merge.hist[r].old.docs[d]
    BY <2>2
  <2>4. d \notin DeletedSince(segs, merge, r)
    BY <2>1, <2>3 DEF NewDeleted
  <2>5. r \in DOMAIN segs
    BY <2>4 DEF DeletedSince
  <2>6. segs[r].docs = merge.hist[r].old.docs
    BY <2>5 DEF Matches
  <2>7. d \in Live(segs[r])
    BY <2>4, <2>5, <2>6 DEF DeletedSince, Live
  <2> QED
    BY <2>1, <2>3, <2>5, <2>6, <2>7
<1>2. ASSUME NEW s \in DOMAIN segs2
      PROVE  \/ s \in DOMAIN segs /\ s \notin H /\ segs2[s] = segs[s]
             \/ s \in DOMAIN merge.new /\ segs2[s] = new[s]
  <2> DEFINE f == LiveOnly(Without(segs, DOMAIN merge.hist))
             g == LiveOnly(new)
  <2>1. /\ DOMAIN f \subseteq (DOMAIN segs) \ H
        /\ \A r \in DOMAIN f : f[r] = segs[r]
    BY DEF LiveOnly, Only, Without
  <2>2. /\ DOMAIN g \subseteq DOMAIN merge.new
        /\ \A r \in DOMAIN g : g[r] = new[r]
    BY DEF LiveOnly, Only, MergedSegs
  <2>3. segs2 = Joined(f, g)
    BY DEF IntroduceMerge
  <2> HIDE DEF f, g, new, segs2
  <2> QED
    BY <2>1, <2>2, <2>3 DEF Joined
<1>3. ASSUME NEW s \in DOMAIN segs2, NEW n \in Live(segs2[s])
      PROVE  \E r \in DOMAIN segs : \E d \in Live(segs[r]) :
               From(s, n, r, d) /\ segs2[s].docs[n] = segs[r].docs[d]
  <2>1. CASE s \in DOMAIN segs /\ s \notin H /\ segs2[s] = segs[s]
    BY <2>1
  <2>2. CASE s \in DOMAIN merge.new /\ segs2[s] = new[s]
    BY <1>1, <2>2
  <2> QED
    BY <1>2, <2>1, <2>2
<1> HIDE DEF segs2, new
<1>4. SUFFICES ASSUME NEW s \in DOMAIN segs2, NEW t \in DOMAIN segs2,
                      NEW m \in Live(segs2[s]), NEW n \in Live(segs2[t]),
                      segs2[s].docs[m].id = segs2[t].docs[n].id
               PROVE  s = t /\ m = n
  BY DEF UniqueIDs, segs2
<1>5. PICK r \in DOMAIN segs : \E d \in Live(segs[r]) :
             From(s, m, r, d) /\ segs2[s].docs[m] = segs[r].docs[d]
  BY <1>3
<1>6. PICK d \in Live(segs[r]) :
             From(s, m, r, d) /\ segs2[s].docs[m] = segs[r].docs[d]
  BY <1>5
<1>7. PICK q \in DOMAIN segs : \E e \in Live(segs[q]) :
             From(t, n, q, e) /\ segs2[t].docs[n] = segs[q].docs[e]
  BY <1>3
<1>8. PICK e \in Live(segs[q]) :
             From(t, n, q, e) /\ segs2[t].docs[n] = segs[q].docs[e]
  BY <1>7
<1>9. r = q /\ d = e
  BY <1>4, <1>6, <1>8 DEF UniqueIDs
<1> QED
  BY <1>6, <1>8, <1>9

---------------------------------------------------------------------------
(* A new merge job *)

LEMMA NoMergeSound == MergeSound(NoMerge) /\ AllMergedWereInRoot(NoMerge)
  BY DEF MergeSound, AllMergedWereInRoot, NoMerge, NoSegs

---------------------------------------------------------------------------
(* The steps of a writer *)

LEMMA CallingIsBusy == \A b, next : next.call = Atomic!Calling(b) => next # NotCalling
  BY DEF Atomic!Calling, Atomic!Idle, NotCalling

LEMMA PrepareSegmentSafe ==
  ASSUME Inv, NEW w \in Writer, NEW b \in Batch, PrepareSegment(w, b)
  PROVE  StaleRootsHarmless'
<1> USE DEF Inv, StaleRootsHarmless
<1>1. PICK docs \in Segments(Atomic!DocsOf(b)) :
        introductions' = [introductions EXCEPT ![w] =
          [call |-> Atomic!Calling(b), id |-> nextSegmentID + 1, docs |-> docs,
           ids |-> Atomic!Ids(b), obsoletes |-> Obsoletes(root.segs, Atomic!Ids(b))]]
  BY DEF PrepareSegment
<1> DEFINE next == [call |-> Atomic!Calling(b), id |-> nextSegmentID + 1,
                    docs |-> docs, ids |-> Atomic!Ids(b),
                    obsoletes |-> Obsoletes(root.segs, Atomic!Ids(b))]
<1>2. DOMAIN introductions = Writer
  BY DEF TypeOK
<1>3. \A x \in Writer : introductions'[x] = IF x = w THEN next ELSE introductions[x]
  BY <1>1, <1>2
<1>4. next # NotCalling /\ introductions[w] = NotCalling
  BY CallingIsBusy DEF PrepareSegment
<1>5. next.id = nextSegmentID + 1
  OBVIOUS
<1>6. ExactFor(next)
  BY DEF ExactFor, Obsoletes, FreshIDs
<1> HIDE DEF next
<1>7. /\ root' = root /\ persister' = persister /\ merger' = merger
      /\ nextSegmentID' = nextSegmentID + 1
      /\ nextSegmentID \in Nat
  BY DEF PrepareSegment, TypeOK
<1>8. w \notin Busy /\ Busy' = Busy \cup {w}
  BY <1>3, <1>4 DEF Busy
<1>9. Pending' = Pending \cup {nextSegmentID + 1}
  BY <1>3, <1>5, <1>7, <1>8 DEF Pending, Busy
<1>10. IDStep
  BY <1>7, <1>9 DEF IDStep
<1>11. Ages(root.segs, root'.segs, {})
  BY <1>7 DEF Ages
<1>12. /\ \A s : Settled(s) => Settled(s)'
       /\ \A s, ss : WasInRoot(s, ss) => WasInRoot(s, ss)'
       /\ \A n : ExactFor(n) => ExactFor(n)'
  BY <1>10, <1>11, Stability
<1>13. FreshIDs'
  <2>1. Pending' \subseteq 1 .. nextSegmentID'
    <3>1. Pending \subseteq 1 .. nextSegmentID
      BY DEF FreshIDs
    <3>2. 1 .. nextSegmentID \subseteq 1 .. nextSegmentID'
      BY <1>7
    <3>3. nextSegmentID + 1 \in 1 .. nextSegmentID'
      BY <1>7
    <3> QED
      BY <1>9, <3>1, <3>2, <3>3
  <2>2. \A s \in DOMAIN root'.segs : Settled(s)'
    BY <1>7, <1>12 DEF FreshIDs
  <2>3. \A x \in Busy' : introductions'[x].id
          = IF x = w THEN nextSegmentID + 1 ELSE introductions[x].id
    BY <1>3, <1>5, <1>8 DEF Busy
  <2>4. nextSegmentID + 1 \notin Pending
    BY <1>7 DEF FreshIDs
  <2>5. \A x \in Busy : introductions[x].id \in Pending
    BY DEF Pending
  <2>6. DOMAIN persister.merge.new \cup DOMAIN merger.merge.new \subseteq Pending
    BY DEF Pending
  <2> QED
    BY <1>7, <1>8, <2>1, <2>2, <2>3, <2>4, <2>5, <2>6 DEF FreshIDs
<1>14. RememberedSegments'
  BY <1>7, <1>12 DEF RememberedSegments, AllWereInRoot, AllMergedWereInRoot
<1>15. ObsoletesExact'
  BY <1>3, <1>6, <1>12 DEF ObsoletesExact
<1>16. MergesSound' /\ LiveUnique'
  BY <1>7 DEF MergesSound, LiveUnique
<1> QED
  BY <1>13, <1>14, <1>15, <1>16

\* The writer's introduction is withdrawn or introduced: its id is pending
\* no more.
LEMMA WriterDone ==
  ASSUME Inv, NEW w \in Busy, introductions' = [introductions EXCEPT ![w] = NotCalling],
         UNCHANGED <<nextSegmentID, persister, merger>>,
         Ages(root.segs, root'.segs, {introductions[w].id})
  PROVE  /\ FreshIDs' /\ RememberedSegments' /\ ObsoletesExact' /\ MergesSound'
<1> USE DEF Inv, StaleRootsHarmless
<1>1. PICK id : id = introductions[w].id
  OBVIOUS
<1>2. DOMAIN introductions = Writer /\ w \in Writer /\ nextSegmentID \in Nat
  BY DEF TypeOK, Busy
<1>3. \A x \in Writer : introductions'[x] = IF x = w THEN NotCalling ELSE introductions[x]
  BY <1>2
<1>4. Busy' = Busy \ {w}
  BY <1>3 DEF Busy
<1>5. \A x \in Busy' : x \in Busy /\ introductions'[x] = introductions[x]
  BY <1>3, <1>4 DEF Busy
<1>6. Pending' \subseteq Pending /\ id \in Pending
  BY <1>1, <1>5 DEF Pending
<1>7. id \notin Pending'
  BY <1>1, <1>4, <1>5 DEF Pending, FreshIDs
<1>8. IDStep
  BY <1>2, <1>6 DEF IDStep
<1>9. /\ \A s : Settled(s) => Settled(s)'
      /\ \A s, ss : WasInRoot(s, ss) => WasInRoot(s, ss)'
      /\ \A n : ExactFor(n) => ExactFor(n)'
  <2>1. {id} \subseteq Pending /\ Ages(root.segs, root'.segs, {id})
    BY <1>1, <1>6
  <2> QED
    BY <1>8, <2>1, Stability
<1>10. FreshIDs'
  <2>1. Settled(id)'
    BY <1>2, <1>6, <1>7 DEF Settled, FreshIDs
  <2>2. \A s \in DOMAIN root'.segs : Settled(s)'
    BY <1>1, <1>9, <2>1 DEF FreshIDs, Ages
  <2> QED
    BY <1>2, <1>5, <1>6, <2>2 DEF FreshIDs
<1>11. RememberedSegments'
  BY <1>9 DEF RememberedSegments, AllWereInRoot, AllMergedWereInRoot
<1>12. ObsoletesExact'
  <2>1. ExactFor(NotCalling)'
    BY DEF ExactFor, NotCalling, NoSegs
  <2> QED
    BY <1>3, <1>9, <2>1 DEF ObsoletesExact
<1>13. MergesSound'
  BY DEF MergesSound
<1> QED
  BY <1>10, <1>11, <1>12, <1>13

LEMMA BatchFailsSafe ==
  ASSUME Inv, NEW w \in Writer, BatchFails(w)
  PROVE  StaleRootsHarmless'
<1>1. w \in Busy /\ root' = root
  BY DEF BatchFails, Busy
<1>2. Ages(root.segs, root'.segs, {introductions[w].id})
  BY <1>1 DEF Ages
<1>3. LiveUnique'
  BY <1>1 DEF Inv, StaleRootsHarmless, LiveUnique
<1> QED
  BY <1>1, <1>2, <1>3, WriterDone DEF BatchFails, StaleRootsHarmless

LEMMA IntroduceBatchSafe ==
  ASSUME Inv, NEW w \in Writer, IntroduceBatch(w)
  PROVE  StaleRootsHarmless'
<1> DEFINE next == introductions[w]
<1>1. w \in Busy /\ root'.segs = IntroduceSegment(root.segs, next)
  BY DEF IntroduceBatch, Busy, SwapRoot, IndexSnapshot
<1>2. Ages(root.segs, root'.segs, {next.id})
  BY <1>1, IntroduceSegmentAges
<1>3. LiveUnique'
  <2>1. PICK b \in Batch : /\ next.ids = Atomic!Ids(b)
                           /\ next.docs \in Segments(Atomic!DocsOf(b))
    BY DEF IntroduceBatch, Inv, TypeOK, IsIntroduction
  <2>2. \A s \in DOMAIN root.segs :
          Delta(root.segs, next, s) = DocNumbers(root.segs[s].docs, next.ids)
    BY DEF Delta, Inv, StaleRootsHarmless, ObsoletesExact, ExactFor
  <2>3. UniqueIDs(root.segs)
    BY DEF Inv, StaleRootsHarmless, LiveUnique
  <2> HIDE DEF next
  <2>4. UniqueIDs(IntroduceSegment(root.segs, next))
    BY <2>1, <2>2, <2>3, IntroduceSegmentUnique
  <2> QED
    BY <1>1, <2>4 DEF LiveUnique
<1> QED
  BY <1>1, <1>2, <1>3, WriterDone DEF IntroduceBatch, StaleRootsHarmless

---------------------------------------------------------------------------
(* The steps of the persister and of the merger *)

\* Every segment of next was one of segs or is one of the root.
TakenFrom(next, segs) ==
  \A s \in DOMAIN next : \/ s \in DOMAIN segs /\ next[s] = segs[s]
                         \/ s \in DOMAIN root.segs /\ next[s] = root.segs[s]

\* A segment of the root is what it was in the root.
LEMMA RootIsInRoot ==
  ASSUME FreshIDs, NEW s \in DOMAIN root.segs
  PROVE  WasInRoot(s, root.segs[s])
  BY DEF FreshIDs, WasInRoot

\* Any step that leaves no merge of the persister under way.
LEMMA PersisterWithoutMerge ==
  ASSUME Inv, UNCHANGED <<nextSegmentID, introductions, merger>>,
         persister'.merge = NoMerge,
         TakenFrom(persister'.snap.segs, persister.snap.segs),
         Ages(root.segs, root'.segs, DOMAIN persister.merge.new)
  PROVE  FreshIDs' /\ RememberedSegments' /\ ObsoletesExact' /\ MergesSound'
<1> USE DEF Inv, StaleRootsHarmless
<1>1. nextSegmentID \in Nat
  BY DEF TypeOK
<1>2. Busy' = Busy
  BY DEF Busy
<1>3. DOMAIN persister'.merge.new = {} /\ DOMAIN persister'.merge.hist = {}
  BY DEF NoMerge, NoSegs
<1>4. Pending' \subseteq Pending
  BY <1>2, <1>3 DEF Pending
<1>5. PICK S : S = DOMAIN persister.merge.new
  OBVIOUS
<1>6. S \subseteq Pending /\ S \cap Pending' = {}
  BY <1>2, <1>3, <1>5 DEF Pending, FreshIDs
<1>7. IDStep
  BY <1>1, <1>4 DEF IDStep
<1>8. /\ \A s : Settled(s) => Settled(s)'
      /\ \A s, ss : WasInRoot(s, ss) => WasInRoot(s, ss)'
      /\ \A n : ExactFor(n) => ExactFor(n)'
  BY <1>5, <1>6, <1>7, Stability
<1>9. FreshIDs'
  <2>1. \A s \in S : Settled(s)'
    BY <1>1, <1>6 DEF Settled, FreshIDs
  <2>2. \A s \in DOMAIN root'.segs : Settled(s)'
    BY <1>5, <1>8, <2>1 DEF FreshIDs, Ages
  <2>3. Pending' \subseteq 1 .. nextSegmentID'
    BY <1>4 DEF FreshIDs
  <2> QED
    BY <1>2, <1>3, <2>2, <2>3 DEF FreshIDs
<1>10. RememberedSegments'
  <2>1. AllWereInRoot(persister.snap.segs)'
    <3>1. \A s \in DOMAIN persister'.snap.segs : WasInRoot(s, persister'.snap.segs[s])
      BY RootIsInRoot DEF TakenFrom, RememberedSegments, AllWereInRoot
    <3>2. PICK segs : segs = persister'.snap.segs
      OBVIOUS
    <3>3. \A s \in DOMAIN segs : WasInRoot(s, segs[s])
      BY <3>1, <3>2
    <3>4. \A s \in DOMAIN segs : WasInRoot(s, segs[s])'
      BY <1>8, <3>3
    <3> QED
      BY <3>2, <3>4 DEF AllWereInRoot, WasInRoot
  <2> QED
    BY <1>3, <1>8, <2>1 DEF RememberedSegments, AllWereInRoot, AllMergedWereInRoot
<1>11. ObsoletesExact'
  BY <1>8 DEF ObsoletesExact
<1>12. MergesSound'
  BY <1>3 DEF MergesSound, MergeSound
<1> QED
  BY <1>9, <1>10, <1>11, <1>12

\* Any step that leaves no merge of the merger under way.
LEMMA MergerWithoutMerge ==
  ASSUME Inv, UNCHANGED <<nextSegmentID, introductions, persister>>,
         merger'.merge = NoMerge,
         TakenFrom(merger'.segs, merger.segs),
         Ages(root.segs, root'.segs, DOMAIN merger.merge.new)
  PROVE  FreshIDs' /\ RememberedSegments' /\ ObsoletesExact' /\ MergesSound'
<1> USE DEF Inv, StaleRootsHarmless
<1>1. nextSegmentID \in Nat
  BY DEF TypeOK
<1>2. Busy' = Busy
  BY DEF Busy
<1>3. DOMAIN merger'.merge.new = {} /\ DOMAIN merger'.merge.hist = {}
  BY DEF NoMerge, NoSegs
<1>4. Pending' \subseteq Pending
  BY <1>2, <1>3 DEF Pending
<1>5. PICK S : S = DOMAIN merger.merge.new
  OBVIOUS
<1>6. S \subseteq Pending /\ S \cap Pending' = {}
  BY <1>2, <1>3, <1>5 DEF Pending, FreshIDs
<1>7. IDStep
  BY <1>1, <1>4 DEF IDStep
<1>8. /\ \A s : Settled(s) => Settled(s)'
      /\ \A s, ss : WasInRoot(s, ss) => WasInRoot(s, ss)'
      /\ \A n : ExactFor(n) => ExactFor(n)'
  BY <1>5, <1>6, <1>7, Stability
<1>9. FreshIDs'
  <2>1. \A s \in S : Settled(s)'
    BY <1>1, <1>6 DEF Settled, FreshIDs
  <2>2. \A s \in DOMAIN root'.segs : Settled(s)'
    BY <1>5, <1>8, <2>1 DEF FreshIDs, Ages
  <2>3. Pending' \subseteq 1 .. nextSegmentID'
    BY <1>4 DEF FreshIDs
  <2> QED
    BY <1>2, <1>3, <2>2, <2>3 DEF FreshIDs
<1>10. RememberedSegments'
  <2>1. AllWereInRoot(merger.segs)'
    <3>1. \A s \in DOMAIN merger'.segs : WasInRoot(s, merger'.segs[s])
      BY RootIsInRoot DEF TakenFrom, RememberedSegments, AllWereInRoot
    <3>2. PICK segs : segs = merger'.segs
      OBVIOUS
    <3>3. \A s \in DOMAIN segs : WasInRoot(s, segs[s])
      BY <3>1, <3>2
    <3>4. \A s \in DOMAIN segs : WasInRoot(s, segs[s])'
      BY <1>8, <3>3
    <3> QED
      BY <3>2, <3>4 DEF AllWereInRoot, WasInRoot
  <2> QED
    BY <1>3, <1>8, <2>1 DEF RememberedSegments, AllWereInRoot, AllMergedWereInRoot
<1>11. ObsoletesExact'
  BY <1>8 DEF ObsoletesExact
<1>12. MergesSound'
  BY <1>3 DEF MergesSound, MergeSound
<1> QED
  BY <1>9, <1>10, <1>11, <1>12

\* The persister hands its in-memory segments to the workers of a merge.
LEMMA MergeInMemorySafe ==
  ASSUME Inv, MergeInMemory
  PROVE  StaleRootsHarmless'
<1> USE DEF Inv, StaleRootsHarmless
<1>1. PICK k \in 1 .. NumPersisterWorkers :
        /\ nextSegmentID' = nextSegmentID + k
        /\ \E into \in FlushSets(persister.snap.segs, NewIDs(k)) :
             persister' = [persister EXCEPT
                             !.pc = "merging",
                             !.merge = SegmentMerge(persister.snap.segs, into)]
  BY DEF MergeInMemory
<1>2. PICK into \in FlushSets(persister.snap.segs, NewIDs(k)) :
        persister' = [persister EXCEPT
                        !.pc = "merging",
                        !.merge = SegmentMerge(persister.snap.segs, into)]
  BY <1>1
<1>3. PICK merge : merge = SegmentMerge(persister.snap.segs, into)
  OBVIOUS
<1>4. /\ persister'.merge = merge /\ persister'.snap = persister.snap
      /\ IsSegs(Doc, persister.snap.segs) /\ persister.merge = NoMerge
  BY <1>2, <1>3 DEF MergeInMemory, TypeOK, IsPersister, IsSnapshot
<1>5. /\ DOMAIN into \subseteq DOMAIN persister.snap.segs
      /\ \A s \in DOMAIN into : into[s] \in NewIDs(k)
  BY DEF FlushSets, MemSegs
<1>6. /\ k \in Nat /\ nextSegmentID \in Nat
      /\ root' = root /\ introductions' = introductions /\ merger' = merger
  BY ConstantsAssumption DEF MergeInMemory, TypeOK
<1>7. DOMAIN merge.new \subseteq nextSegmentID + 1 .. nextSegmentID'
  BY <1>1, <1>3, <1>5, SegmentMergeIDs DEF NewIDs
<1>8. Busy' = Busy
  BY <1>6 DEF Busy
<1>9. /\ Pending' = Pending \cup DOMAIN merge.new
      /\ DOMAIN persister.merge.new = {}
  BY <1>4, <1>6, <1>8 DEF Pending, NoMerge, NoSegs
<1>10. IDStep
  BY <1>1, <1>6, <1>7, <1>9 DEF IDStep
<1>11. /\ \A s : Settled(s) => Settled(s)'
       /\ \A s, ss : WasInRoot(s, ss) => WasInRoot(s, ss)'
       /\ \A n : ExactFor(n) => ExactFor(n)'
  <2>1. Ages(root.segs, root'.segs, {})
    BY <1>6 DEF Ages
  <2> QED
    BY <1>10, <2>1, Stability
<1>12. FreshIDs'
  <2>1. Pending \cap DOMAIN merge.new = {}
    BY <1>6, <1>7 DEF FreshIDs
  <2>2. Pending' \subseteq 1 .. nextSegmentID'
    BY <1>1, <1>6, <1>7, <1>9 DEF FreshIDs
  <2>3. \A s \in DOMAIN root'.segs : Settled(s)'
    BY <1>6, <1>11 DEF FreshIDs
  <2>4. \A w \in Busy : introductions[w].id \in Pending
    BY DEF Pending
  <2>5. DOMAIN merger.merge.new \subseteq Pending
    BY DEF Pending
  <2> QED
    BY <1>4, <1>6, <1>8, <2>1, <2>2, <2>3, <2>4, <2>5 DEF FreshIDs
<1>13. RememberedSegments'
  <2>1. \A s \in DOMAIN merge.hist : WasInRoot(s, merge.hist[s].old)
    BY <1>3, <1>5, SegmentMergeIDs DEF RememberedSegments, AllWereInRoot
  <2>2. \A s \in DOMAIN merge.hist : WasInRoot(s, merge.hist[s].old)'
    BY <1>11, <2>1
  <2>3. AllMergedWereInRoot(persister.merge)'
    BY <1>4, <2>2 DEF AllMergedWereInRoot, WasInRoot
  <2> QED
    BY <1>4, <1>6, <1>11, <2>3
       DEF RememberedSegments, AllWereInRoot, AllMergedWereInRoot
<1>14. ObsoletesExact' /\ LiveUnique'
  BY <1>6, <1>11 DEF ObsoletesExact, LiveUnique
<1>15. MergesSound'
  BY <1>3, <1>4, <1>5, <1>6, SegmentMergeSound DEF MergesSound
<1> QED
  BY <1>12, <1>13, <1>14, <1>15

\* The merger starts the next task of its plan.
LEMMA StartFileMergeSafe ==
  ASSUME Inv, NEW S \in SUBSET DOMAIN merger.segs, StartFileMerge(S)
  PROVE  StaleRootsHarmless'
<1> USE DEF Inv, StaleRootsHarmless
<1>1. PICK into : into = [s \in S |-> nextSegmentID + 1]
  OBVIOUS
<1>2. PICK merge : merge = SegmentMerge(merger.segs, into)
  OBVIOUS
<1>3. /\ merger'.merge = merge /\ merger'.segs = Without(merger.segs, S)
      /\ IsSegs(Doc, merger.segs) /\ merger.merge = NoMerge
  BY <1>1, <1>2 DEF StartFileMerge, TypeOK, IsMerger
<1>4. /\ nextSegmentID \in Nat /\ nextSegmentID' = nextSegmentID + 1
      /\ root' = root /\ introductions' = introductions /\ persister' = persister
  BY DEF StartFileMerge, TypeOK
<1>5. DOMAIN merge.new \subseteq {nextSegmentID + 1}
  BY <1>1, <1>2, SegmentMergeIDs
<1>6. Busy' = Busy
  BY <1>4 DEF Busy
<1>7. /\ Pending' = Pending \cup DOMAIN merge.new
      /\ DOMAIN merger.merge.new = {}
  BY <1>3, <1>4, <1>6 DEF Pending, NoMerge, NoSegs
<1>8. IDStep
  BY <1>4, <1>5, <1>7 DEF IDStep
<1>9. /\ \A s : Settled(s) => Settled(s)'
      /\ \A s, ss : WasInRoot(s, ss) => WasInRoot(s, ss)'
      /\ \A n : ExactFor(n) => ExactFor(n)'
  <2>1. Ages(root.segs, root'.segs, {})
    BY <1>4 DEF Ages
  <2> QED
    BY <1>8, <2>1, Stability
<1>10. FreshIDs'
  <2>1. Pending \cap DOMAIN merge.new = {}
    BY <1>4, <1>5 DEF FreshIDs
  <2>2. Pending' \subseteq 1 .. nextSegmentID'
    <3>1. Pending \subseteq 1 .. nextSegmentID
      BY DEF FreshIDs
    <3>2. 1 .. nextSegmentID \subseteq 1 .. nextSegmentID'
      BY <1>4
    <3>3. nextSegmentID + 1 \in 1 .. nextSegmentID'
      BY <1>4
    <3> QED
      BY <1>5, <1>7, <3>1, <3>2, <3>3
  <2>3. \A s \in DOMAIN root'.segs : Settled(s)'
    BY <1>4, <1>9 DEF FreshIDs
  <2>4. \A w \in Busy : introductions[w].id \in Pending
    BY DEF Pending
  <2>5. DOMAIN persister.merge.new \subseteq Pending
    BY DEF Pending
  <2> QED
    BY <1>3, <1>4, <1>6, <2>1, <2>2, <2>3, <2>4, <2>5 DEF FreshIDs
<1>11. RememberedSegments'
  <2>1. \A s \in DOMAIN merge.hist : WasInRoot(s, merge.hist[s].old)
    <3>1. DOMAIN merge.hist = S /\ \A s \in S : merge.hist[s].old = merger.segs[s]
      BY <1>1, <1>2, SegmentMergeIDs
    <3> QED
      BY <3>1 DEF RememberedSegments, AllWereInRoot
  <2>2. \A s \in DOMAIN merge.hist : WasInRoot(s, merge.hist[s].old)'
    BY <1>9, <2>1
  <2>3. AllMergedWereInRoot(merger.merge)'
    BY <1>3, <2>2 DEF AllMergedWereInRoot, WasInRoot
  <2>4. AllWereInRoot(merger.segs)'
    <3>1. PICK segs : segs = merger'.segs
      OBVIOUS
    <3>2. \A s \in DOMAIN segs : WasInRoot(s, segs[s])
      BY <1>3, <3>1 DEF RememberedSegments, AllWereInRoot, Without
    <3>3. \A s \in DOMAIN segs : WasInRoot(s, segs[s])'
      BY <1>9, <3>2
    <3> QED
      BY <3>1, <3>3 DEF AllWereInRoot, WasInRoot
  <2> QED
    BY <1>4, <1>9, <2>3, <2>4
       DEF RememberedSegments, AllWereInRoot, AllMergedWereInRoot
<1>12. ObsoletesExact' /\ LiveUnique'
  BY <1>4, <1>9 DEF ObsoletesExact, LiveUnique
<1>13. MergesSound'
  BY <1>1, <1>2, <1>3, <1>4, SegmentMergeSound DEF MergesSound
<1> QED
  BY <1>10, <1>11, <1>12, <1>13

LEMMA PersisterStepSafe ==
  ASSUME Inv, PersisterStep
  PROVE  StaleRootsHarmless'
<1> USE DEF Inv, StaleRootsHarmless
<1>1. IsPersister(persister) /\ IsSegs(Doc, root.segs)
  BY DEF TypeOK, IsSnapshot
<1>2. ASSUME UNCHANGED <<root, nextSegmentID, introductions, merger>>,
             persister'.merge = NoMerge,
             TakenFrom(persister'.snap.segs, persister.snap.segs)
      PROVE  StaleRootsHarmless'
  <2>1. Ages(root.segs, root'.segs, DOMAIN persister.merge.new)
    BY <1>2 DEF Ages
  <2>2. LiveUnique'
    BY <1>2 DEF LiveUnique
  <2> QED
    BY <1>2, <2>1, <2>2, PersisterWithoutMerge
<1>3. \A segs : TakenFrom(segs, segs) /\ TakenFrom(NoSegs, segs)
                  /\ TakenFrom(root.segs, segs)
  BY DEF TakenFrom, NoSegs
<1>4. CASE PersisterTakesSnapshot
  <2>1. persister'.merge = NoMerge /\ persister'.snap = root
    BY <1>1, <1>4 DEF PersisterTakesSnapshot, IsPersister
  <2> QED
    BY <1>2, <1>3, <1>4, <2>1 DEF PersisterTakesSnapshot
<1>5. CASE MergeInMemory
  BY <1>5, MergeInMemorySafe
<1>6. CASE PersistDirectly
  <2>1. persister'.merge = NoMerge /\ persister'.snap = persister.snap
    BY <1>1, <1>6 DEF PersistDirectly, PersisterGoes, IsPersister
  <2> QED
    BY <1>2, <1>3, <1>6, <2>1 DEF PersistDirectly
<1>7. CASE IntroduceInMemoryMerge
  <2>1. persister'.merge = NoMerge /\ persister'.snap = persister.snap
    BY <1>1, <1>7 DEF IntroduceInMemoryMerge, PersisterGoes, IsPersister
  <2>2. root'.segs = IntroduceMerge(root.segs, persister.merge)
    BY <1>7 DEF IntroduceInMemoryMerge, SwapRoot, IndexSnapshot
  <2>3. LiveUnique'
    BY <2>2, MergesMatch, IntroduceMergeUnique DEF LiveUnique, MergesSound
  <2> QED
    BY <1>3, <1>7, <2>1, <2>2, <2>3, IntroduceMergeAges, PersisterWithoutMerge
       DEF IntroduceInMemoryMerge
<1>8. CASE IntroducePersisted
  <2>1. persister'.merge = NoMerge /\ persister'.snap = persister.snap
    BY <1>1, <1>8 DEF IntroducePersisted, PersisterGoes, IsPersister
  <2>2. root'.segs = IntroducePersist(root.segs, MemSegs(persister.snap.segs))
    BY <1>8 DEF IntroducePersisted, SwapRoot, IndexSnapshot
  <2>3. LiveUnique'
    BY <2>2, IntroducePersistUnique DEF LiveUnique
  <2> QED
    BY <1>3, <1>8, <2>1, <2>2, <2>3, IntroducePersistAges, PersisterWithoutMerge
       DEF IntroducePersisted
<1>9. CASE SnapshotPersisted \/ PersistFails
  <2>1. persister'.merge = NoMerge /\ persister'.snap.segs = NoSegs
    BY <1>9 DEF SnapshotPersisted, PersistFails, Resting, NoSnapshot, IndexSnapshot
  <2> QED
    BY <1>2, <1>3, <1>9, <2>1 DEF SnapshotPersisted, PersistFails
<1> QED
  BY <1>4, <1>5, <1>6, <1>7, <1>8, <1>9 DEF PersisterStep

LEMMA MergerStepSafe ==
  ASSUME Inv, MergerStep
  PROVE  StaleRootsHarmless'
<1> USE DEF Inv, StaleRootsHarmless
<1>1. IsMerger(merger)
  BY DEF TypeOK
<1>2. CASE MergerTakesSnapshot
  <2>1. merger'.merge = NoMerge /\ TakenFrom(merger'.segs, merger.segs)
    BY <1>1, <1>2 DEF MergerTakesSnapshot, NoTask, IsMerger, TakenFrom, Only
  <2>2. Ages(root.segs, root'.segs, DOMAIN merger.merge.new) /\ LiveUnique'
    BY <1>2 DEF MergerTakesSnapshot, Ages, LiveUnique
  <2> QED
    BY <1>2, <2>1, <2>2, MergerWithoutMerge DEF MergerTakesSnapshot
<1>3. ASSUME NEW S \in SUBSET DOMAIN merger.segs, StartFileMerge(S)
      PROVE  StaleRootsHarmless'
  BY <1>3, StartFileMergeSafe
<1>4. CASE IntroduceFileMerge
  <2>1. merger'.merge = NoMerge /\ TakenFrom(merger'.segs, merger.segs)
    BY <1>1, <1>4 DEF IntroduceFileMerge, IsMerger, TakenFrom
  <2>2. root'.segs = IntroduceMerge(root.segs, merger.merge)
    BY <1>4 DEF IntroduceFileMerge, SwapRoot, IndexSnapshot
  <2>3. LiveUnique'
    BY <2>2, MergesMatch, IntroduceMergeUnique DEF LiveUnique, MergesSound
  <2> QED
    BY <1>4, <2>1, <2>2, <2>3, IntroduceMergeAges, MergerWithoutMerge
       DEF IntroduceFileMerge
<1>5. CASE MergerDone
  <2>1. merger'.merge = NoMerge /\ TakenFrom(merger'.segs, merger.segs)
    BY <1>5 DEF MergerDone, NoTask, NoSegs, TakenFrom
  <2>2. Ages(root.segs, root'.segs, DOMAIN merger.merge.new) /\ LiveUnique'
    BY <1>5 DEF MergerDone, Ages, LiveUnique
  <2> QED
    BY <1>5, <2>1, <2>2, MergerWithoutMerge DEF MergerDone
<1> QED
  BY <1>2, <1>3, <1>4, <1>5 DEF MergerStep

---------------------------------------------------------------------------
(* The theorems *)

LEMMA InitSafe == Init => StaleRootsHarmless
<1> SUFFICES ASSUME Init PROVE StaleRootsHarmless
  OBVIOUS
<1>1. Busy = {} /\ Pending = {} /\ root.segs = NoSegs
  BY DEF Init, Busy, Pending, Resting, NoTask, NoMerge, NoSegs,
         NoSnapshot, IndexSnapshot
<1>2. FreshIDs
  BY <1>1 DEF FreshIDs, Init, Resting, NoTask, NoMerge, NoSegs
<1>3. RememberedSegments /\ MergesSound
  BY NoMergeSound DEF Init, Resting, NoTask, NoSnapshot, IndexSnapshot, NoSegs,
         RememberedSegments, MergesSound, AllWereInRoot
<1>4. ObsoletesExact
  BY DEF Init, ObsoletesExact, ExactFor, NotCalling, NoSegs
<1>5. LiveUnique
  BY <1>1 DEF LiveUnique, UniqueIDs, NoSegs
<1> QED
  BY <1>2, <1>3, <1>4, <1>5 DEF StaleRootsHarmless

LEMMA SafeStep ==
  ASSUME Inv, [Next]_vars
  PROVE  StaleRootsHarmless'
<1>1. CASE WriterStep
  BY <1>1, PrepareSegmentSafe, BatchFailsSafe, IntroduceBatchSafe DEF WriterStep
<1>2. CASE PersisterStep
  BY <1>2, PersisterStepSafe
<1>3. CASE MergerStep
  BY <1>3, MergerStepSafe
<1>4. CASE UNCHANGED vars
  BY <1>4 DEF vars, Inv, StaleRootsHarmless, FreshIDs, Busy, Pending, Settled,
              RememberedSegments, AllWereInRoot, AllMergedWereInRoot, WasInRoot,
              ObsoletesExact, ExactFor, MergesSound, LiveUnique
<1> QED
  BY <1>1, <1>2, <1>3, <1>4 DEF Next

LEMMA Invariance == Spec => []Inv
<1>1. Init => Inv
  BY InitType, InitSafe DEF Inv
<1>2. Inv /\ [Next]_vars => Inv'
  BY TypeStep, SafeStep DEF Inv
<1> QED
  BY <1>1, <1>2, PTL DEF Spec

\* The state keeps its shape: in particular every deleted bitmap names
\* documents of its own segment, after any race of introductions.
THEOREM TypeCorrect == Spec => []TypeOK
<1>1. Inv => TypeOK
  BY DEF Inv
<1> QED
  BY <1>1, Invariance, PTL

\* A stale root is stale only about deletions and about segments that are
\* gone: what introduceSegment and introduceMerge take for granted.
THEOREM StaleRootsAreHarmless == Spec => []StaleRootsHarmless
<1>1. Inv => StaleRootsHarmless
  BY DEF Inv
<1> QED
  BY <1>1, Invariance, PTL

\* A reader never sees two versions of a document, whatever batches, merges
\* and persists were under way when the root it reads was made.
THEOREM IdentifiersUnique == Spec => []LiveUnique
<1>1. Inv => LiveUnique
  BY DEF Inv, StaleRootsHarmless
<1> QED
  BY <1>1, Invariance, PTL

\* introduceMerge finds every document deleted since a merge started in
\* oldNewDocIDs, as a survivor of that merge.
THEOREM DeletesAreTranslatable == Spec => []DeletesTranslatable
<1>1. ASSUME Inv, NEW merge \in {persister.merge, merger.merge},
             NEW s \in DOMAIN merge.hist
      PROVE  DeletedSince(root.segs, merge, s) \subseteq DOMAIN merge.hist[s].newNum
  <2>1. IsSegs(Doc, root.segs) /\ IsMerge(Doc, merge) /\ Matches(root.segs, merge)
    BY <1>1, MergesMatch DEF Inv, TypeOK, IsSnapshot, IsPersister, IsMerger
  <2>2. DOMAIN merge.hist[s].newNum = Live(merge.hist[s].old)
    BY <1>1, <2>1 DEF IsMerge, IsMergedHistory
  <2> QED
    BY <1>1, <2>1, <2>2, DeletedSinceSurvived
<1>2. Inv => DeletesTranslatable
  BY <1>1 DEF DeletesTranslatable
<1> QED
  BY <1>2, Invariance, PTL

---------------------------------------------------------------------------
(* No segment without live documents *)

NonEmpty(segs) == \A s \in DOMAIN segs : Live(segs[s]) # {}

LEMMA IntroductionsNonEmpty ==
  ASSUME NEW segs
  PROVE  /\ \A next : IsDocs(Doc, next.docs) => NonEmpty(IntroduceSegment(segs, next))
         /\ \A S : NonEmpty(segs) => NonEmpty(IntroducePersist(segs, S))
         /\ \A merge : NonEmpty(IntroduceMerge(segs, merge))
         /\ \A S : NonEmpty(segs) => NonEmpty(Only(segs, S)) /\ NonEmpty(Without(segs, S))
<1>1. \A x : NonEmpty(LiveOnly(x))
  BY DEF NonEmpty, LiveOnly, Only
<1>2. ASSUME NEW docs, IsDocs(Doc, docs), docs # NoSegs
      PROVE  Live([docs |-> docs, del |-> {}, file |-> FALSE]) # {}
  <2>1. DOMAIN docs # {}
    BY <1>2 DEF IsDocs, NoSegs
  <2> QED
    BY <2>1 DEF Live
<1>3. ASSUME NEW next, next.docs # NoSegs, IsDocs(Doc, next.docs)
      PROVE  NonEmpty(IntroduceSegment(segs, next))
  <2> DEFINE kept == LiveOnly(ApplyDelta(segs, next))
             new  == [docs |-> next.docs, del |-> {}, file |-> FALSE]
  <2>1. NonEmpty(kept) /\ Live(new) # {}
    BY <1>1, <1>2, <1>3
  <2>2. IntroduceSegment(segs, next) = AddSegment(kept, next.id, new)
    BY <1>3 DEF IntroduceSegment
  <2> HIDE DEF kept, new
  <2> QED
    BY <2>1, <2>2 DEF NonEmpty, AddSegment
<1>4. ASSUME NEW next, next.docs = NoSegs
      PROVE  NonEmpty(IntroduceSegment(segs, next))
  BY <1>1, <1>4 DEF IntroduceSegment
<1>5. \A S : NonEmpty(segs) => NonEmpty(IntroducePersist(segs, S))
  BY DEF NonEmpty, IntroducePersist, Live
<1>6. ASSUME NEW merge
      PROVE  NonEmpty(IntroduceMerge(segs, merge))
  <2>1. PICK f, g : /\ NonEmpty(f) /\ NonEmpty(g)
                    /\ IntroduceMerge(segs, merge) = Joined(f, g)
    BY <1>1 DEF IntroduceMerge
  <2> QED
    BY <2>1 DEF NonEmpty, Joined
<1>7. \A S : NonEmpty(segs) => NonEmpty(Only(segs, S)) /\ NonEmpty(Without(segs, S))
  BY DEF NonEmpty, Only, Without
<1> QED
  BY <1>3, <1>4, <1>5, <1>6, <1>7

\* What a step may make of the three snapshots.
LEMMA NonEmptyStep ==
  ASSUME Inv, NoEmptySegments, [Next]_vars
  PROVE  NoEmptySegments'
<1>1. /\ NonEmpty(root.segs) /\ NonEmpty(persister.snap.segs)
      /\ NonEmpty(merger.segs) /\ NonEmpty(NoSegs)
  BY DEF NoEmptySegments, NonEmpty, NoSegs
<1>2. IsPersister(persister) /\ IsMerger(merger)
      /\ \A w \in Writer : IsIntroduction(introductions[w])
  BY DEF Inv, TypeOK
<1>3. SUFFICES /\ NonEmpty(root'.segs) /\ NonEmpty(persister'.snap.segs)
               /\ NonEmpty(merger'.segs)
  BY DEF NoEmptySegments, NonEmpty
<1>4. CASE WriterStep
  <2>1. ASSUME NEW w \in Writer, NEW b \in Batch, PrepareSegment(w, b)
        PROVE  root' = root /\ persister' = persister /\ merger' = merger
    BY <2>1 DEF PrepareSegment
  <2>2. ASSUME NEW w \in Writer, IntroduceBatch(w)
        PROVE  /\ NonEmpty(root'.segs)
               /\ persister' = persister /\ merger' = merger
    <3>1. root'.segs = IntroduceSegment(root.segs, introductions[w])
      BY <2>2 DEF IntroduceBatch, SwapRoot, IndexSnapshot
    <3>2. IsDocs(Doc, introductions[w].docs)
      BY <1>2 DEF IsIntroduction
    <3> QED
      BY <2>2, <3>1, <3>2, IntroductionsNonEmpty DEF IntroduceBatch
  <2>3. ASSUME NEW w \in Writer, BatchFails(w)
        PROVE  root' = root /\ persister' = persister /\ merger' = merger
    BY <2>3 DEF BatchFails
  <2> QED
    BY <1>1, <1>4, <2>1, <2>2, <2>3 DEF WriterStep
<1>5. CASE PersisterStep
  <2>1. CASE PersisterTakesSnapshot
    BY <1>1, <1>2, <2>1 DEF PersisterTakesSnapshot, IsPersister
  <2>2. CASE MergeInMemory
    BY <1>1, <1>2, <2>2 DEF MergeInMemory, IsPersister
  <2>3. CASE PersistDirectly
    BY <1>1, <1>2, <2>3 DEF PersistDirectly, PersisterGoes, IsPersister
  <2>4. CASE IntroduceInMemoryMerge
    <3>1. root'.segs = IntroduceMerge(root.segs, persister.merge)
      BY <2>4 DEF IntroduceInMemoryMerge, SwapRoot, IndexSnapshot
    <3>2. persister'.snap = persister.snap /\ merger' = merger
      BY <1>2, <2>4 DEF IntroduceInMemoryMerge, PersisterGoes, IsPersister
    <3> QED
      BY <1>1, <3>1, <3>2, IntroductionsNonEmpty
  <2>5. CASE IntroducePersisted
    <3>1. root'.segs = IntroducePersist(root.segs, MemSegs(persister.snap.segs))
      BY <2>5 DEF IntroducePersisted, SwapRoot, IndexSnapshot
    <3>2. persister'.snap = persister.snap /\ merger' = merger
      BY <1>2, <2>5 DEF IntroducePersisted, PersisterGoes, IsPersister
    <3> QED
      BY <1>1, <3>1, <3>2, IntroductionsNonEmpty
  <2>6. CASE SnapshotPersisted \/ PersistFails
    BY <1>1, <2>6 DEF SnapshotPersisted, PersistFails, Resting, NoSnapshot,
                      IndexSnapshot
  <2> QED
    BY <1>5, <2>1, <2>2, <2>3, <2>4, <2>5, <2>6 DEF PersisterStep
<1>6. CASE MergerStep
  <2>1. CASE MergerTakesSnapshot
    <3>1. /\ merger'.segs = Only(root.segs, FileSegs(root.segs))
          /\ root' = root /\ persister' = persister
      BY <1>2, <2>1 DEF MergerTakesSnapshot, IsMerger
    <3> QED
      BY <1>1, <3>1, IntroductionsNonEmpty
  <2>2. ASSUME NEW S \in SUBSET DOMAIN merger.segs, StartFileMerge(S)
        PROVE  /\ merger'.segs = Without(merger.segs, S)
               /\ root' = root /\ persister' = persister
    BY <2>2 DEF StartFileMerge
  <2>3. CASE IntroduceFileMerge
    <3>1. root'.segs = IntroduceMerge(root.segs, merger.merge)
      BY <2>3 DEF IntroduceFileMerge, SwapRoot, IndexSnapshot
    <3>2. merger'.segs = merger.segs /\ persister' = persister
      BY <1>2, <2>3 DEF IntroduceFileMerge, IsMerger
    <3> QED
      BY <1>1, <3>1, <3>2, IntroductionsNonEmpty
  <2>4. CASE MergerDone
    BY <1>1, <2>4 DEF MergerDone, NoTask
  <2> QED
    BY <1>1, <1>6, <2>1, <2>2, <2>3, <2>4, IntroductionsNonEmpty DEF MergerStep
<1>7. CASE UNCHANGED vars
  BY <1>1, <1>7 DEF vars
<1> QED
  BY <1>4, <1>5, <1>6, <1>7 DEF Next

\* The merger never plans with a segment that has no live document, so
\* planMergeAtSnapshot never calls Count on a nil merged segment.
THEOREM SegmentsNeverEmpty == Spec => []NoEmptySegments
<1>1. Init => NoEmptySegments
  BY DEF Init, NoEmptySegments, NoSnapshot, IndexSnapshot, NoSegs, Resting, NoTask
<1>2. Inv /\ NoEmptySegments /\ [Next]_vars => NoEmptySegments'
  BY NonEmptyStep
<1> QED
  BY <1>1, <1>2, Invariance, PTL DEF Spec

---------------------------------------------------------------------------
(* The merges under way number their survivors apart *)

MergesNumbered == NumbersDistinct(persister.merge) /\ NumbersDistinct(merger.merge)

LEMMA NumberedStep ==
  ASSUME Inv, MergesNumbered, [Next]_vars
  PROVE  MergesNumbered'
<1> USE DEF MergesNumbered
<1>1. IsPersister(persister) /\ IsMerger(merger)
  BY DEF Inv, TypeOK
<1>2. CASE WriterStep
  BY <1>2 DEF WriterStep, PrepareSegment, IntroduceBatch, BatchFails
<1>3. CASE MergeInMemory
  <2>1. PICK k \in 1 .. NumPersisterWorkers :
          \E into \in FlushSets(persister.snap.segs, NewIDs(k)) :
            persister' = [persister EXCEPT
                            !.pc = "merging",
                            !.merge = SegmentMerge(persister.snap.segs, into)]
    BY <1>3 DEF MergeInMemory
  <2>2. PICK into \in FlushSets(persister.snap.segs, NewIDs(k)) :
          persister' = [persister EXCEPT
                          !.pc = "merging",
                          !.merge = SegmentMerge(persister.snap.segs, into)]
    BY <2>1
  <2>3. DOMAIN into \subseteq DOMAIN persister.snap.segs
    BY DEF FlushSets, MemSegs
  <2>4. persister'.merge = SegmentMerge(persister.snap.segs, into)
    BY <1>1, <2>2 DEF IsPersister
  <2> QED
    BY <1>1, <1>3, <2>3, <2>4, SegmentMergeDistinct
       DEF MergeInMemory, IsPersister, IsSnapshot
<1>4. CASE PersisterTakesSnapshot
  BY <1>1, <1>4 DEF PersisterTakesSnapshot, IsPersister
<1>5. CASE PersistDirectly \/ IntroduceInMemoryMerge \/ IntroducePersisted
  BY <1>1, <1>5, NoMergeDistinct
     DEF PersistDirectly, IntroduceInMemoryMerge, IntroducePersisted,
         PersisterGoes, IsPersister
<1>6. CASE SnapshotPersisted \/ PersistFails
  BY <1>1, <1>6, NoMergeDistinct DEF SnapshotPersisted, PersistFails, Resting
<1>7. ASSUME NEW S \in SUBSET DOMAIN merger.segs, StartFileMerge(S)
      PROVE  MergesNumbered'
  <2> DEFINE into == [s \in S |-> nextSegmentID + 1]
  <2>1. merger'.merge = SegmentMerge(merger.segs, into) /\ persister' = persister
    BY <1>7 DEF StartFileMerge
  <2>2. DOMAIN into \subseteq DOMAIN merger.segs
    OBVIOUS
  <2> HIDE DEF into
  <2> QED
    BY <1>1, <2>1, <2>2, SegmentMergeDistinct DEF IsMerger
<1>8. CASE MergerTakesSnapshot \/ IntroduceFileMerge \/ MergerDone
  BY <1>1, <1>8, NoMergeDistinct
     DEF MergerTakesSnapshot, IntroduceFileMerge, MergerDone, NoTask, IsMerger
<1>9. CASE UNCHANGED vars
  BY <1>9 DEF vars
<1> QED
  BY <1>2, <1>3, <1>4, <1>5, <1>6, <1>7, <1>8, <1>9
     DEF Next, PersisterStep, MergerStep

---------------------------------------------------------------------------
(* The refinement *)

\* The segment of a batch has all its documents, and is empty only if the
\* batch updates nothing.
LEMMA SegmentHasAll ==
  ASSUME NEW b \in Batch, NEW docs \in Segments(Atomic!DocsOf(b))
  PROVE  /\ {docs[n] : n \in DOMAIN docs} = Atomic!DocsOf(b)
         /\ docs = NoSegs => Atomic!DocsOf(b) = {}
<1> DEFINE D == Atomic!DocsOf(b)
           I == 0 .. Cardinality(D) - 1
<1>1. IsFiniteSet(D)
  BY DocsOfFinite
<1>2. Cardinality(D) \in Nat
  BY <1>1, FS_CardinalityType
<1>3. IsFiniteSet(I) /\ Cardinality(I) = Cardinality(D)
  BY <1>2, FS_Interval
<1>4. docs \in [I -> D] /\ \A m, n \in I : docs[m] = docs[n] => m = n
  BY DEF Segments
<1> HIDE DEF D, I
<1>5. docs \in Injection(I, D)
  BY <1>4 DEF Injection, IsInjective
<1>6. docs \in Surjection(I, D)
  BY <1>1, <1>3, <1>5, FS_Injection
<1>7. {docs[n] : n \in DOMAIN docs} = D
  BY <1>4, <1>6 DEF Surjection
<1>8. ASSUME docs = NoSegs PROVE D = {}
  BY <1>7, <1>8 DEF NoSegs
<1> QED
  BY <1>7, <1>8 DEF D

LEMMA InitRefines == Init => Atomic!Init
  BY ContentsOfNone
     DEF Init, Atomic!Init, NoSnapshot, IndexSnapshot, NotCalling

\* What the writers look like from outside.
Calls == [w \in Writer |-> introductions[w].call]

\* A step that replaces one introduction changes one call.
LEMMA CallsStep ==
  ASSUME Inv, NEW w \in Writer, NEW next,
         introductions' = [introductions EXCEPT ![w] = next]
  PROVE  Calls' = [Calls EXCEPT ![w] = next.call]
<1>1. DOMAIN introductions = Writer
  BY DEF Inv, TypeOK
<1> QED
  BY <1>1 DEF Calls

LEMMA NotCallingIsIdle == NotCalling.call = Atomic!Idle
  BY DEF NotCalling

LEMMA BusyIsCalling ==
  ASSUME Inv, NEW w \in Writer, introductions[w] # NotCalling
  PROVE  \E b \in Batch :
           /\ introductions[w].call = Atomic!Calling(b)
           /\ introductions[w].call.batch = b
           /\ introductions[w].call # Atomic!Idle
           /\ introductions[w].ids = Atomic!Ids(b)
           /\ introductions[w].docs \in Segments(Atomic!DocsOf(b))
<1>1. IsIntroduction(introductions[w])
  BY DEF Inv, TypeOK
<1>2. \A b : Atomic!Calling(b).batch = b /\ Atomic!Calling(b) # Atomic!Idle
  BY DEF Atomic!Calling, Atomic!Idle
<1> QED
  BY <1>1, <1>2 DEF IsIntroduction

\* Submitting a batch is the call.
LEMMA PrepareSegmentRefines ==
  ASSUME Inv, NEW w \in Writer, NEW b \in Batch, PrepareSegment(w, b)
  PROVE  Atomic!Call(w, b)
<1>1. \E next : /\ introductions' = [introductions EXCEPT ![w] = next]
                /\ next.call = Atomic!Calling(b)
  <2>1. PICK docs \in Segments(Atomic!DocsOf(b)) :
          introductions' = [introductions EXCEPT ![w] =
            [call |-> Atomic!Calling(b), id |-> nextSegmentID + 1, docs |-> docs,
             ids |-> Atomic!Ids(b), obsoletes |-> Obsoletes(root.segs, Atomic!Ids(b))]]
    BY DEF PrepareSegment
  <2> DEFINE next == [call |-> Atomic!Calling(b), id |-> nextSegmentID + 1,
                      docs |-> docs, ids |-> Atomic!Ids(b),
                      obsoletes |-> Obsoletes(root.segs, Atomic!Ids(b))]
  <2>2. next.call = Atomic!Calling(b)
    OBVIOUS
  <2> HIDE DEF next
  <2> QED
    BY <2>1, <2>2 DEF next
<1>2. Calls' = [Calls EXCEPT ![w] = Atomic!Calling(b)]
  <2>1. PICK next : /\ introductions' = [introductions EXCEPT ![w] = next]
                    /\ next.call = Atomic!Calling(b)
    BY <1>1
  <2>2. Calls' = [Calls EXCEPT ![w] = next.call]
    BY <2>1, CallsStep
  <2> QED
    BY <2>1, <2>2
<1>3. Calls[w] = Atomic!Idle /\ root' = root
  BY NotCallingIsIdle DEF PrepareSegment, Calls
<1> QED
  BY <1>2, <1>3 DEF Atomic!Call, Calls

LEMMA BatchFailsRefines ==
  ASSUME Inv, NEW w \in Writer, BatchFails(w)
  PROVE  Atomic!Fail(w)
<1>1. Calls' = [Calls EXCEPT ![w] = Atomic!Idle]
  BY CallsStep, NotCallingIsIdle DEF BatchFails
<1>2. Calls[w] # Atomic!Idle /\ root' = root
  BY BusyIsCalling DEF BatchFails, Calls
<1> QED
  BY <1>1, <1>2 DEF Atomic!Fail, Calls

\* The introduction is the point where the batch takes effect.
LEMMA IntroduceBatchRefines ==
  ASSUME Inv, NEW w \in Writer, IntroduceBatch(w)
  PROVE  Atomic!TakeEffect(w)
<1> DEFINE next == introductions[w]
<1>1. PICK b \in Batch : /\ next.call.batch = b /\ next.call # Atomic!Idle
                         /\ next.ids = Atomic!Ids(b)
                         /\ next.docs \in Segments(Atomic!DocsOf(b))
  BY BusyIsCalling DEF IntroduceBatch
<1>2. /\ root'.segs = IntroduceSegment(root.segs, next)
      /\ root'.internal = Atomic!AppliedInternal(root.internal, b)
  BY <1>1 DEF IntroduceBatch, SwapRoot, IndexSnapshot
<1>3. \A s \in DOMAIN root.segs :
        Delta(root.segs, next, s) = DocNumbers(root.segs[s].docs, next.ids)
  BY DEF Delta, Inv, StaleRootsHarmless, ObsoletesExact, ExactFor
<1>4. next.id \notin DOMAIN root.segs
  BY DEF IntroduceBatch, Inv, StaleRootsHarmless, FreshIDs, Settled, Pending, Busy
<1>5. Contents(root'.segs) = Atomic!Applied(Contents(root.segs), b)
  <2>1. {next.docs[n] : n \in DOMAIN next.docs} = Atomic!DocsOf(b)
    BY <1>1, SegmentHasAll
  <2> HIDE DEF next
  <2> QED
    BY <1>1, <1>2, <1>3, <1>4, <2>1, IntroduceSegmentShows DEF Atomic!Applied
<1>6. Calls' = [Calls EXCEPT ![w] = Atomic!Idle]
  BY CallsStep, NotCallingIsIdle DEF IntroduceBatch
<1>7. Calls[w] = next.call
  BY DEF Calls
<1> QED
  BY <1>1, <1>2, <1>5, <1>6, <1>7 DEF Atomic!TakeEffect, Calls

\* Nothing the persister or the merger does is seen.
SeesNothing == /\ Contents(root'.segs) = Contents(root.segs)
               /\ root'.internal = root.internal
               /\ introductions' = introductions

LEMMA MergeRefines ==
  ASSUME Inv, NEW merge, IsMerge(Doc, merge), MergeSound(merge), NumbersDistinct(merge),
         AllMergedWereInRoot(merge), DOMAIN merge.new \subseteq Pending
  PROVE  Contents(IntroduceMerge(root.segs, merge)) = Contents(root.segs)
<1>1. IsSegs(Doc, root.segs)
  BY DEF Inv, TypeOK, IsSnapshot
<1>2. Matches(root.segs, merge)
  BY DEF AllMergedWereInRoot, WasInRoot, Matches
<1>3. \A s \in DOMAIN merge.hist : s \in DOMAIN root.segs =>
         merge.hist[s].old.del \subseteq root.segs[s].del
  BY DEF AllMergedWereInRoot, WasInRoot
<1>4. DOMAIN merge.new \cap DOMAIN root.segs = {}
  BY DEF Inv, StaleRootsHarmless, FreshIDs, Settled
<1> QED
  BY <1>1, <1>2, <1>3, <1>4, IntroduceMergeShowsNothing

LEMMA PersisterRefines ==
  ASSUME Inv, MergesNumbered, PersisterStep
  PROVE  SeesNothing
<1>1. CASE IntroduceInMemoryMerge
  <2>1. /\ root'.segs = IntroduceMerge(root.segs, persister.merge)
        /\ root'.internal = root.internal /\ introductions' = introductions
    BY <1>1 DEF IntroduceInMemoryMerge, SwapRoot, IndexSnapshot
  <2>2. /\ IsMerge(Doc, persister.merge) /\ MergeSound(persister.merge)
        /\ AllMergedWereInRoot(persister.merge)
        /\ DOMAIN persister.merge.new \subseteq Pending
    BY DEF Inv, TypeOK, IsPersister, StaleRootsHarmless, MergesSound,
           RememberedSegments, Pending
  <2> QED
    BY <2>1, <2>2, MergeRefines DEF MergesNumbered, SeesNothing
<1>2. CASE IntroducePersisted
  BY <1>2, ContentsOfPersist DEF IntroducePersisted, SwapRoot, IndexSnapshot, SeesNothing
<1>3. CASE ~ IntroduceInMemoryMerge /\ ~ IntroducePersisted
  BY <1>3 DEF PersisterStep, PersisterTakesSnapshot, MergeInMemory, PersistDirectly,
              SnapshotPersisted, PersistFails, SeesNothing
<1> QED
  BY <1>1, <1>2, <1>3

LEMMA MergerRefines ==
  ASSUME Inv, MergesNumbered, MergerStep
  PROVE  SeesNothing
<1>1. CASE IntroduceFileMerge
  <2>1. /\ root'.segs = IntroduceMerge(root.segs, merger.merge)
        /\ root'.internal = root.internal /\ introductions' = introductions
    BY <1>1 DEF IntroduceFileMerge, SwapRoot, IndexSnapshot
  <2>2. /\ IsMerge(Doc, merger.merge) /\ MergeSound(merger.merge)
        /\ AllMergedWereInRoot(merger.merge)
        /\ DOMAIN merger.merge.new \subseteq Pending
    BY DEF Inv, TypeOK, IsMerger, StaleRootsHarmless, MergesSound,
           RememberedSegments, Pending
  <2> QED
    BY <2>1, <2>2, MergeRefines DEF MergesNumbered, SeesNothing
<1>2. CASE ~ IntroduceFileMerge
  BY <1>2 DEF MergerStep, MergerTakesSnapshot, StartFileMerge, MergerDone, SeesNothing
<1> QED
  BY <1>1, <1>2

LEMMA StepRefines ==
  ASSUME Inv, MergesNumbered, [Next]_vars
  PROVE  [Atomic!Next]_(Atomic!vars)
<1>1. CASE WriterStep
  BY <1>1, PrepareSegmentRefines, BatchFailsRefines, IntroduceBatchRefines
     DEF WriterStep, Atomic!Next
<1>2. SeesNothing => UNCHANGED Atomic!vars
  BY DEF SeesNothing, Atomic!vars
<1>3. CASE PersisterStep
  BY <1>2, <1>3, PersisterRefines
<1>4. CASE MergerStep
  BY <1>2, <1>4, MergerRefines
<1>5. CASE UNCHANGED vars
  BY <1>2, <1>5 DEF vars, SeesNothing
<1> QED
  BY <1>1, <1>3, <1>4, <1>5 DEF Next

\* To its callers and readers scorch is the index of AtomicIndex: a batch
\* takes effect at once and entirely when it is introduced, or not at all,
\* and no persist and no merge ever changes what is seen.
THEOREM Refinement == Spec => ImplementsAtomicIndex
<1>1. Init => MergesNumbered
  BY NoMergeDistinct DEF Init, MergesNumbered, Resting, NoTask
<1>2. Inv /\ MergesNumbered /\ [Next]_vars => MergesNumbered'
  BY NumberedStep
<1>3. Inv /\ MergesNumbered /\ [Next]_vars => [Atomic!Next]_(Atomic!vars)
  BY StepRefines
<1> QED
  BY <1>1, <1>2, <1>3, InitRefines, Invariance, PTL
     DEF Spec, ImplementsAtomicIndex, Atomic!Spec
---------------------------------------------------------------------------
(* Terms in order *)

\* s and t agree on k bytes; then t goes on, and s ends or has a smaller byte.
Parts(s, t, k) ==
  /\ k <= Len(s) /\ k < Len(t) /\ \A j \in 1..k : s[j] = t[j]
  /\ k = Len(s) \/ s[k + 1] < t[k + 1]

LEMMA BeforeMeans ==
  ASSUME NEW s \in Seq(Nat), NEW t \in Seq(Nat)
  PROVE  IsBefore(s, t) <=> \E k \in Nat : Parts(s, t, k)
<1>1. Len(s) \in Nat /\ Len(t) \in Nat
  OBVIOUS
<1>2. ASSUME IsStrictPrefix(s, t) PROVE Parts(s, t, Len(s))
  <2>1. Len(s) <= Len(t) /\ (\A j \in 1..Len(s) : s[j] = t[j]) /\ s # t
    BY <1>2, PrefixMeans DEF IsStrictPrefix
  <2>2. Len(s) # Len(t)
    BY <2>1, SeqEqual
  <2> QED
    BY <2>1, <2>2, <1>1 DEF Parts
<1>3. ASSUME NEW i \in 1..Len(s), i <= Len(t), s[i] < t[i], \A j \in 1..(i - 1) : s[j] = t[j]
      PROVE  i - 1 \in Nat /\ Parts(s, t, i - 1)
  BY <1>1, <1>3 DEF Parts
<1>4. ASSUME NEW k \in Nat, Parts(s, t, k) PROVE IsBefore(s, t)
  <2>1. CASE k = Len(s)
    <3>1. IsPrefix(s, t)
      BY <2>1, <1>4, <1>1, PrefixMeans DEF Parts
    <3>2. s # t
      BY <2>1, <1>4, <1>1 DEF Parts
    <3> QED
      BY <3>1, <3>2 DEF IsBefore, IsStrictPrefix
  <2>2. CASE k # Len(s)
    <3>1. /\ k + 1 \in 1..Len(s) /\ k + 1 <= Len(t) /\ s[k + 1] < t[k + 1]
          /\ \A j \in 1..((k + 1) - 1) : s[j] = t[j]
      BY <2>2, <1>4, <1>1 DEF Parts
    <3> QED
      BY <3>1 DEF IsBefore
  <2> QED
    BY <2>1, <2>2
<1>5. IsBefore(s, t) => \E k \in Nat : Parts(s, t, k)
  BY <1>1, <1>2, <1>3 DEF IsBefore
<1> QED
  BY <1>4, <1>5

LEMMA NotBoth ==
  ASSUME NEW s \in Seq(Nat), NEW t \in Seq(Nat)
  PROVE  /\ ~(IsBefore(s, t) /\ IsBefore(t, s)) /\ ~IsBefore(s, s)
<1>1. ASSUME NEW a \in Seq(Nat), NEW b \in Seq(Nat), IsBefore(a, b), IsBefore(b, a) PROVE FALSE
  <2>1. PICK k \in Nat : Parts(a, b, k)
    BY <1>1, BeforeMeans
  <2>2. PICK m \in Nat : Parts(b, a, m)
    BY <1>1, BeforeMeans
  <2>3. Len(a) \in Nat /\ Len(b) \in Nat /\ (\A i \in 1..Len(a) : a[i] \in Nat) /\ \A i \in 1..Len(b) : b[i] \in Nat
    OBVIOUS
  <2>4. CASE k < m
    BY <2>1, <2>2, <2>3, <2>4 DEF Parts
  <2>5. CASE m < k
    BY <2>1, <2>2, <2>3, <2>5 DEF Parts
  <2>6. CASE m = k
    BY <2>1, <2>2, <2>3, <2>6 DEF Parts
  <2> QED
    BY <2>4, <2>5, <2>6
<1> QED
  BY <1>1

LEMMA BeforeGoesOn ==
  ASSUME NEW s \in Seq(Nat), NEW t \in Seq(Nat), NEW u \in Seq(Nat), IsBefore(s, t), IsBefore(t, u)
  PROVE  IsBefore(s, u)
<1>1. PICK k \in Nat : Parts(s, t, k)
  BY BeforeMeans
<1>2. PICK m \in Nat : Parts(t, u, m)
  BY BeforeMeans
<1>3. /\ Len(s) \in Nat /\ Len(t) \in Nat /\ Len(u) \in Nat /\ (\A i \in 1..Len(s) : s[i] \in Nat)
      /\ (\A i \in 1..Len(t) : t[i] \in Nat) /\ (\A i \in 1..Len(u) : u[i] \in Nat)
  OBVIOUS
<1>4. CASE k < m
  <2>1. k <= Len(s) /\ k < Len(u) /\ \A j \in 1..k : j \in 1..m /\ s[j] = u[j]
    BY <1>1, <1>2, <1>3, <1>4 DEF Parts
  <2>2. k + 1 \in 1..m /\ u[k + 1] = t[k + 1]
    BY <1>2, <1>4 DEF Parts
  <2>3. Parts(s, u, k)
    BY <2>1, <2>2, <1>1 DEF Parts
  <2> QED
    BY <2>3, BeforeMeans
<1>5. CASE m < k
  <2>1. m < Len(s) /\ m < Len(u) /\ m # Len(t) /\ \A j \in 1..m : s[j] = u[j]
    <3>1. \A j \in 1..m : j \in 1..k /\ t[j] = u[j]
      BY <1>2, <1>5 DEF Parts
    <3>2. \A j \in 1..k : s[j] = t[j]
      BY <1>1 DEF Parts
    <3>3. m < Len(s) /\ m < Len(u) /\ m # Len(t)
      BY <1>1, <1>2, <1>3, <1>5 DEF Parts
    <3> QED
      BY <3>1, <3>2, <3>3
  <2>2. m + 1 \in 1..k /\ s[m + 1] = t[m + 1]
    BY <1>1, <1>5 DEF Parts
  <2>3. Parts(s, u, m)
    BY <2>1, <2>2, <1>2 DEF Parts
  <2> QED
    BY <2>3, BeforeMeans
<1>6. CASE m = k
  <2>1. k <= Len(s) /\ k < Len(u) /\ k # Len(t) /\ \A j \in 1..k : s[j] = u[j]
    BY <1>1, <1>2, <1>3, <1>6 DEF Parts
  <2>2. CASE k = Len(s)
    BY <2>1, <2>2, BeforeMeans DEF Parts
  <2>3. CASE k # Len(s)
    <3>1. s[k + 1] < t[k + 1] /\ t[k + 1] < u[k + 1]
      BY <2>1, <2>3, <1>1, <1>2, <1>6 DEF Parts
    <3>2. s[k + 1] \in Nat /\ t[k + 1] \in Nat /\ u[k + 1] \in Nat
      BY <2>1, <2>3, <1>1, <1>3 DEF Parts
    <3>3. s[k + 1] < u[k + 1]
      BY <3>1, <3>2
    <3>4. Parts(s, u, k)
      BY <3>3, <2>1 DEF Parts
    <3> QED
      BY <3>4, BeforeMeans
  <2> QED
    BY <2>2, <2>3
<1> QED
  BY <1>4, <1>5, <1>6

LEMMA OneIsBefore ==
  ASSUME NEW s \in Seq(Nat), NEW t \in Seq(Nat), s # t
  PROVE  IsBefore(s, t) \/ IsBefore(t, s)
<1> DEFINE n == IF Len(s) <= Len(t) THEN Len(s) ELSE Len(t)
           E == {i \in 1..n : s[i] # t[i]}
<1>1. Len(s) \in Nat /\ Len(t) \in Nat /\ n \in Nat /\ n <= Len(s) /\ n <= Len(t) /\ (n = Len(s) \/ n = Len(t))
  OBVIOUS
<1> HIDE DEF n
<1>2. CASE E = {}
  <2>1. \A i \in 1..n : s[i] = t[i]
    BY <1>2
  <2>2. Len(s) # Len(t)
    BY <2>1, <1>1, SeqEqual
  <2>3. Parts(s, t, n) \/ Parts(t, s, n)
    BY <2>1, <2>2, <1>1 DEF Parts
  <2> QED
    BY <2>3, <1>1, BeforeMeans
<1>3. CASE E # {}
  <2>1. E \subseteq Nat
    BY <1>1
  <2>2. PICK i \in E : \A j \in E : i <= j
    <3> HIDE DEF E
    <3> QED
      BY <2>1, <1>3, SmallestExists
  <2>3. i \in 1..n /\ s[i] # t[i] /\ s[i] \in Nat /\ t[i] \in Nat
    BY <1>1
  <2>4. \A j \in 1..(i - 1) : s[j] = t[j]
    BY <2>2, <2>3, <1>1
  <2>5. i - 1 \in Nat /\ (Parts(s, t, i - 1) \/ Parts(t, s, i - 1))
    BY <2>3, <2>4, <1>1 DEF Parts
  <2> QED
    BY <2>5, BeforeMeans
<1> QED
  BY <1>2, <1>3

\* The first of finitely many terms is before the others.
LEMMA FirstIsFirst ==
  ASSUME NEW T, T \subseteq Seq(Nat), IsFiniteSet(T), T # {}
  PROVE  First(T) \in T /\ \A t \in T \ {First(T)} : IsBefore(First(T), t)
<1> DEFINE Below(t) == {s \in T : IsBefore(s, t)}
           C == {Cardinality(Below(t)) : t \in T}
<1>1. \A t \in T : Below(t) \in SUBSET T /\ IsFiniteSet(Below(t)) /\ Cardinality(Below(t)) \in Nat
  BY FS_Subset, FS_CardinalityType
<1>2. PICK n \in C : \A m \in C : n <= m
  <2>1. C \subseteq Nat /\ C # {}
    BY <1>1
  <2> HIDE DEF C
  <2> QED
    BY <2>1, SmallestExists
<1>3. PICK t \in T : n = Cardinality(Below(t))
  OBVIOUS
<1>4. Below(t) = {}
  <2>1. SUFFICES ASSUME NEW s \in Below(t) PROVE FALSE
    OBVIOUS
  <2>2. s \in T /\ IsBefore(s, t) /\ s \in Seq(Nat) /\ t \in Seq(Nat)
    OBVIOUS
  <2>3. Below(s) \subseteq Below(t)
    BY <2>2, BeforeGoesOn
  <2>4. s \notin Below(s)
    BY <2>2, NotBoth
  <2>5. Cardinality(Below(s)) <= Cardinality(Below(t)) /\ Cardinality(Below(s)) # Cardinality(Below(t))
    <3>1. PICK X \in SUBSET T : X = Below(t)
      BY <1>1
    <3>2. PICK Y \in SUBSET X : Y = Below(s)
      BY <2>3, <3>1
    <3>3. IsFiniteSet(X) /\ X # Y
      BY <3>1, <3>2, <1>1, <2>4
    <3>4. Cardinality(Y) <= Cardinality(X) /\ Cardinality(Y) # Cardinality(X)
      BY <3>3, FS_Subset
    <3> QED
      BY <3>1, <3>2, <3>4
  <2>6. Cardinality(Below(s)) \in C
    BY <2>2
  <2>7. n \in Nat /\ Cardinality(Below(s)) \in Nat /\ n <= Cardinality(Below(s))
    BY <2>2, <2>6, <1>1, <1>2, <1>3
  <2> HIDE DEF Below, C
  <2> QED
    BY <2>5, <2>7, <1>3
<1>5. \A s \in T \ {t} : IsBefore(t, s)
  BY <1>4, OneIsBefore
<1> QED
  BY <1>5 DEF First


-----------------------------------------------------------------------------
(* The ends of the ranges *)

\* The term with its last byte one greater.
Raised(p) == [p EXCEPT ![Len(p)] = @ + 1]

LEMMA RaisedParts ==
  ASSUME NEW p \in Seq(Nat), p # <<>>
  PROVE  /\ Raised(p) \in Seq(Nat) /\ Len(Raised(p)) = Len(p) /\ Len(p) \in Nat /\ Len(p) >= 1
         /\ Raised(p)[Len(p)] = p[Len(p)] + 1
         /\ \A j \in 1..(Len(p) - 1) : Raised(p)[j] = p[j]
BY DEF Raised

\* The terms before the raised one are those before the term and those it is
\* a prefix of.
LEMMA RaisedMeans ==
  ASSUME NEW p \in Seq(Nat), p # <<>>, NEW t \in Seq(Nat)
  PROVE  IsBefore(t, Raised(p)) <=> IsBefore(t, p) \/ IsPrefix(p, t)
<1>1. PICK e \in Seq(Nat) : e = Raised(p)
  BY RaisedParts
<1> DEFINE n == Len(p)
<1>2. /\ Len(e) = n /\ n \in Nat /\ n >= 1 /\ e[n] = p[n] + 1 /\ \A j \in 1..(n - 1) : e[j] = p[j]
  BY <1>1, RaisedParts
<1>3. p[n] \in Nat /\ Len(t) \in Nat /\ \A j \in 1..Len(t) : t[j] \in Nat
  BY <1>2
<1> HIDE DEF n
<1>0. n = Len(p)
  BY DEF n
<1>4. ASSUME NEW k \in Nat, Parts(t, e, k) PROVE IsBefore(t, p) \/ IsPrefix(p, t)
  <2>1. k <= Len(t) /\ k < n /\ (\A j \in 1..k : t[j] = e[j]) /\ (k = Len(t) \/ t[k + 1] < e[k + 1])
    BY <1>4, <1>2 DEF Parts
  <2>2. \A j \in 1..k : j \in 1..(n - 1)
    BY <2>1, <1>2
  <2>3. \A j \in 1..k : t[j] = p[j]
    BY <2>1, <2>2, <1>2
  <2>4. CASE k = Len(t)
    <3>1. Parts(t, p, k)
      BY <2>1, <2>3, <2>4, <1>0 DEF Parts
    <3> QED
      BY <3>1, BeforeMeans
  <2>5. CASE k # Len(t) /\ k < n - 1
    <3>1. k + 1 \in 1..(n - 1)
      BY <2>5, <1>2
    <3>2. Parts(t, p, k)
      BY <3>1, <2>1, <2>3, <2>5, <1>2, <1>0 DEF Parts
    <3> QED
      BY <3>2, BeforeMeans
  <2>6. CASE k # Len(t) /\ ~(k < n - 1)
    <3>1. k + 1 = n /\ n <= Len(t) /\ t[n] < p[n] + 1 /\ t[n] \in Nat
      BY <2>6, <2>1, <1>2, <1>3
    <3>2. CASE t[n] = p[n]
      <4>1. \A j \in 1..n : j = n \/ j \in 1..k
        BY <3>1, <1>2
      <4>2. \A j \in 1..n : p[j] = t[j]
        BY <4>1, <3>2, <2>3
      <4> QED
        BY <4>2, <3>1, <1>0, PrefixMeans
    <3>3. CASE t[n] # p[n]
      <4>1. t[n] < p[n]
        BY <3>1, <3>3, <1>3
      <4>2. Parts(t, p, k)
        BY <4>1, <3>1, <2>1, <2>3, <1>0 DEF Parts
      <4> QED
        BY <4>2, BeforeMeans
    <3> QED
      BY <3>2, <3>3
  <2> QED
    BY <2>4, <2>5, <2>6
<1>5. ASSUME NEW k \in Nat, Parts(t, p, k) PROVE IsBefore(t, e)
  <2>1. k <= Len(t) /\ k < n /\ (\A j \in 1..k : t[j] = p[j]) /\ (k = Len(t) \/ t[k + 1] < p[k + 1])
    BY <1>5, <1>0 DEF Parts
  <2>2. \A j \in 1..k : j \in 1..(n - 1)
    BY <2>1, <1>2
  <2>3. \A j \in 1..k : t[j] = e[j]
    BY <2>1, <2>2, <1>2
  <2>4. k = Len(t) \/ t[k + 1] < e[k + 1]
    <3>1. CASE k = Len(t)
      BY <3>1
    <3>2. CASE k # Len(t) /\ k + 1 = n
      <4>0. k + 1 \in 1..Len(t) /\ t[k + 1] < p[k + 1]
        BY <2>1, <3>2, <1>3
      <4>1. t[n] < p[n] /\ t[n] \in Nat
        BY <4>0, <3>2, <1>3
      <4> QED
        BY <4>1, <3>2, <1>2, <1>3
    <3>3. CASE k # Len(t) /\ k + 1 # n
      <4>1. k + 1 \in 1..(n - 1)
        BY <3>3, <2>1, <1>2
      <4> QED
        BY <4>1, <3>3, <2>1, <1>2
    <3> QED
      BY <3>1, <3>2, <3>3
  <2>5. Parts(t, e, k)
    BY <2>1, <2>3, <2>4, <1>2 DEF Parts
  <2> QED
    BY <2>5, BeforeMeans
<1>6. ASSUME IsPrefix(p, t) PROVE IsBefore(t, e)
  <2>1. n <= Len(t) /\ \A j \in 1..n : p[j] = t[j]
    BY <1>6, <1>0, PrefixMeans
  <2>2. n - 1 \in Nat /\ n \in 1..n /\ \A j \in 1..(n - 1) : j \in 1..n
    BY <1>2
  <2>3. \A j \in 1..(n - 1) : t[j] = e[j]
    BY <2>1, <2>2, <1>2
  <2>4. t[n] = p[n]
    BY <2>1, <2>2
  <2>5. t[n] < e[n]
    BY <2>4, <1>2, <1>3
  <2>6. Parts(t, e, n - 1)
    BY <2>1, <2>2, <2>3, <2>5, <1>2, <1>3 DEF Parts
  <2> QED
    BY <2>2, <2>6, BeforeMeans
<1> QED
  BY <1>1, <1>4, <1>5, <1>6, BeforeMeans

\* A term is not before its prefixes.
LEMMA PrefixFirst ==
  ASSUME NEW p \in Seq(Nat), NEW t \in Seq(Nat), IsPrefix(p, t)
  PROVE  ~IsBefore(t, p)
BY NotBoth DEF IsBefore, IsStrictPrefix

\* The terms before the one with a zero appended are those not behind it.
LEMMA ZeroMeans ==
  ASSUME NEW b \in Seq(Nat), NEW t \in Seq(Nat)
  PROVE  /\ Append(b, 0) \in Seq(Nat) /\ Append(b, 0) # <<>>
         /\ IsBefore(t, Append(b, 0)) <=> ~IsBefore(b, t)
<1>1. PICK z \in Seq(Nat) : z = Append(b, 0)
  <2>1. 0 \in Nat
    OBVIOUS
  <2>2. Append(b, 0) \in Seq(Nat)
    BY <2>1
  <2> QED
    BY <2>2
<1>2. /\ Len(b) \in Nat /\ Len(z) = Len(b) + 1 /\ z[Len(b) + 1] = 0 /\ \A j \in 1..Len(b) : z[j] = b[j]
  BY <1>1
<1>3. Len(t) \in Nat /\ \A j \in 1..Len(t) : t[j] \in Nat
  OBVIOUS
<1>4. ASSUME NEW k \in Nat, Parts(t, z, k) PROVE t = b \/ IsBefore(t, b)
  <2>1. k <= Len(t) /\ k <= Len(b) /\ \A j \in 1..k : t[j] = b[j]
    BY <1>4, <1>2 DEF Parts
  <2>2. k = Len(t) \/ (k < Len(t) /\ t[k + 1] < z[k + 1] /\ t[k + 1] \in Nat)
    BY <1>4, <1>3 DEF Parts
  <2>3. CASE k = Len(b)
    <3>1. k = Len(t)
      BY <2>2, <2>3, <1>2
    <3> QED
      BY <3>1, <2>1, <2>3, SeqEqual
  <2>4. CASE k # Len(b)
    <3>1. k + 1 \in 1..Len(b)
      BY <2>1, <2>4, <1>2
    <3>2. Parts(t, b, k)
      BY <3>1, <2>1, <2>2, <1>2 DEF Parts
    <3> QED
      BY <3>2, BeforeMeans
  <2> QED
    BY <2>3, <2>4
<1>5. IsBefore(b, z)
  <2>1. Parts(b, z, Len(b))
    BY <1>2 DEF Parts
  <2> QED
    BY <2>1, <1>2, BeforeMeans
<1>6. t = b \/ IsBefore(t, b) <=> ~IsBefore(b, t)
  BY NotBoth, OneIsBefore
<1>7. t = b \/ IsBefore(t, b) => IsBefore(t, z)
  BY <1>5, BeforeGoesOn
<1>8. z # <<>>
  BY <1>2
<1> QED
  BY <1>1, <1>4, <1>6, <1>7, <1>8, BeforeMeans

\* The terms are before a term of one byte that is greater than theirs.
LEMMA BeforeOne ==
  ASSUME NEW m \in Nat, NEW t \in Seq(Nat), \A i \in 1..Len(t) : t[i] < m
  PROVE  <<m>> \in Seq(Nat) /\ IsBefore(t, <<m>>)
<1>1. <<m>> \in Seq(Nat) /\ Len(<<m>>) = 1 /\ <<m>>[1] = m /\ Len(t) \in Nat
  OBVIOUS
<1>2. Parts(t, <<m>>, 0)
  BY <1>1 DEF Parts
<1> QED
  BY <1>1, <1>2, BeforeMeans

\* The start of everything.
LEMMA EmptyFirst ==
  ASSUME NEW t \in Seq(Nat)
  PROVE  <<>> \in Seq(Nat) /\ ~IsBefore(t, <<>>) /\ IsPrefix(<<>>, t)
<1>1. PICK e \in Seq(Nat) : e = <<>>
  <2>1. <<>> \in Seq(Nat)
    BY EmptySeq
  <2> QED
    BY <2>1
<1>2. Len(e) = 0 /\ Len(t) \in Nat
  BY <1>1, EmptySeq
<1>3. IsPrefix(e, t)
  <2>1. Len(e) <= Len(t) /\ \A j \in 1..Len(e) : FALSE
    BY <1>2
  <2> QED
    BY <2>1, PrefixMeans
<1>4. ~IsBefore(t, e)
  BY <1>3, PrefixFirst
<1> QED
  BY <1>1, <1>3, <1>4

-----------------------------------------------------------------------------
(* What the requests ask for *)

Bytes == Seq(0..MaxByte)

LEMMA BytesAreNumbers ==
  ASSUME DictAssumption, NEW t \in Bytes
  PROVE  t \in Seq(Nat) /\ t # Unbounded /\ IsBefore(t, Unbounded) /\ Unbounded \in Seq(Nat)
<1>1. MaxByte \in Nat /\ MaxByte + 1 \in Nat
  BY DEF DictAssumption
<1>2. Len(t) \in Nat /\ \A i \in 1..Len(t) : t[i] \in 0..MaxByte
  BY ElementOfSeq, LenProperties DEF Bytes
<1>3. t \in Seq(Nat)
  BY <1>1 DEF Bytes
<1>4. \A i \in 1..Len(t) : t[i] < MaxByte + 1
  BY <1>1, <1>2
<1>5. Unbounded \in Seq(Nat) /\ IsBefore(t, Unbounded)
  BY <1>1, <1>3, <1>4, BeforeOne DEF Unbounded
<1>6. t # Unbounded
  BY <1>3, <1>5, NotBoth
<1> QED
  BY <1>3, <1>5, <1>6

LEMMA TextMeans ==
  ASSUME DictAssumption, NEW t \in Bytes, IsText(t)
  PROVE  \A i \in 1..Len(t) : t[i] \in Nat /\ t[i] >= 1 /\ t[i] < MaxByte
<1>1. MaxByte \in Nat /\ t \in Seq(Nat)
  BY BytesAreNumbers DEF DictAssumption
<1>2. DOMAIN t = 1..Len(t)
  BY <1>1
<1>3. \A i \in 1..Len(t) : t[i] \in ToSet(t)
  BY <1>2 DEF ToSet
<1>4. \A i \in 1..Len(t) : t[i] \in 1..(MaxByte - 1)
  BY <1>3 DEF IsText
<1> QED
  BY <1>1, <1>4

\* When the last byte is not the greatest, it is the one that goes up.
LEMMA LastGoesUp ==
  ASSUME DictAssumption, NEW p \in Seq(Nat), p # <<>>, p[Len(p)] < MaxByte
  PROVE  PrefixEnd(p) = Raised(p) /\ IncrementBytes(p) = Raised(p)
<1> DEFINE n == Len(p)
           up == {i \in 1..n : p[i] < MaxByte}
<1>1. n \in Nat /\ n >= 1 /\ n \in up /\ up \subseteq 1..n
  BY RaisedParts
<1>2. Max(up) = n
  <2> HIDE DEF up
  <2>1. Max(up) \in 1..n /\ n <= Max(up)
    BY <1>1, MaxMeans
  <2> QED
    BY <2>1, <1>1
<1>3. Raised(p) = [i \in 1..n |-> IF i = n THEN p[i] + 1 ELSE p[i]]
  BY <1>1 DEF Raised
<1>4. [i \in 1..n |-> IF i < n THEN p[i] ELSE IF i = n THEN p[i] + 1 ELSE 0]
      = [i \in 1..n |-> IF i = n THEN p[i] + 1 ELSE p[i]]
  BY <1>1
<1>5. [i \in 1..n |-> IF i > n THEN 0 ELSE IF i = n THEN p[i] + 1 ELSE p[i]]
      = [i \in 1..n |-> IF i = n THEN p[i] + 1 ELSE p[i]]
  BY <1>1
<1>6. up # {}
  BY <1>1
<1>7. PrefixEnd(p) = [i \in 1..n |-> IF i < n THEN p[i] ELSE IF i = n THEN p[i] + 1 ELSE 0]
  BY <1>2, <1>6 DEF PrefixEnd
<1>8. IncrementBytes(p) = [i \in 1..n |-> IF i > n THEN 0 ELSE IF i = n THEN p[i] + 1 ELSE p[i]]
  BY <1>2, <1>6 DEF IncrementBytes
<1> QED
  BY <1>3, <1>4, <1>5, <1>7, <1>8

\* Whether a term is between the ends that a request asks a segment for.
Inside(r, t) == ~IsBefore(t, Start(r)) /\ IsBefore(t, EndOf(r))

LEMMA InSegmentMeans ==
  ASSUME NEW r, NEW T
  PROVE  \A t : t \in InSegment(r, T) <=> t \in T /\ Inside(r, t)
BY DEF InSegment, Inside

LEMMA RequestMeans ==
  ASSUME DictAssumption, NEW r \in Requests
  PROVE  /\ r.kind \in {"all", "prefix", "range", "termrange"}
         /\ r.incMin \in BOOLEAN /\ r.incMax \in BOOLEAN
         /\ r.a \in Bytes /\ r.a \in Seq(Nat)
         /\ r.kind \in {"range", "termrange"} =>
              r.b = Unbounded \/ (r.b \in Bytes /\ r.b \in Seq(Nat) /\ r.b # <<>> /\ r.b # Unbounded)
<1>1. IsRequest(r)
  BY DEF DictAssumption
<1> QED
  BY <1>1, BytesAreNumbers DEF IsRequest, Bytes

\* No term of the range is outside.
LEMMA RangeInside ==
  ASSUME DictAssumption, NEW r \in Requests, r.kind = "range", NEW t \in Bytes
  PROVE  /\ ~IsBefore(t, r.a) /\ ~IsBefore(r.b, t) => Inside(r, t)
         /\ Inside(r, t) => ~IsBefore(t, r.a)
<1>1. Start(r) = r.a /\ EndOf(r) = ExclusiveEnd(r.b)
  BY DEF Start, EndOf
<1>2. ASSUME ~IsBefore(r.b, t) PROVE IsBefore(t, ExclusiveEnd(r.b))
  <2>0. t \in Seq(Nat)
    BY BytesAreNumbers
  <2>1. CASE r.b = Unbounded
    BY <2>1, BytesAreNumbers DEF ExclusiveEnd
  <2>2. CASE r.b # Unbounded
    <3>0. PICK b \in Seq(Nat) : b = r.b /\ b # <<>>
      BY <2>2, RequestMeans
    <3>1. IsPrefix(b, b) /\ (t = b \/ IsBefore(t, b))
      <4>1. Len(b) \in Nat
        OBVIOUS
      <4> QED
        BY <4>1, <3>0, <1>2, <2>0, OneIsBefore, PrefixMeans
    <3>2. CASE Last(b) < MaxByte
      <4>1. ExclusiveEnd(b) = Raised(b)
        BY <3>2, <2>2, <3>0 DEF ExclusiveEnd, Raised
      <4> QED
        BY <4>1, <3>0, <3>1, <2>0, RaisedMeans
    <3>3. CASE ~(Last(b) < MaxByte)
      <4>1. ExclusiveEnd(b) = Append(b, 0)
        BY <3>3, <2>2, <3>0 DEF ExclusiveEnd
      <4>2. IsBefore(t, Append(b, 0))
        BY <3>0, <2>0, <1>2, ZeroMeans
      <4> QED
        BY <4>1, <4>2, <3>0
    <3> QED
      BY <3>2, <3>3
  <2> QED
    BY <2>1, <2>2
<1> QED
  BY <1>1, <1>2 DEF Inside

LEMMA NotUnbounded ==
  ASSUME DictAssumption, NEW b \in Seq(Nat)
  PROVE  Append(b, 0) # Unbounded
<1>1. PICK z \in Seq(Nat) : z = Append(b, 0)
  BY ZeroMeans
<1>2. Len(b) \in Nat /\ Len(z) = Len(b) + 1 /\ z[Len(z)] = 0 /\ MaxByte \in Nat
  BY <1>1 DEF DictAssumption
<1>3. Len(Unbounded) = 1 /\ Unbounded[1] = MaxByte + 1
  BY DEF Unbounded
<1>4. z = Unbounded => MaxByte + 1 = 0
  BY <1>2, <1>3
<1> QED
  BY <1>1, <1>2, <1>4

LEMMA ZeroEnds ==
  ASSUME DictAssumption, NEW b \in Seq(Nat)
  PROVE  ExclusiveEnd(Append(b, 0)) = Raised(Append(b, 0))
<1>1. PICK z \in Seq(Nat) : z = Append(b, 0) /\ z # Unbounded
  BY ZeroMeans, NotUnbounded
<1>2. z[Len(z)] = 0 /\ MaxByte \in Nat \ {0}
  BY <1>1 DEF DictAssumption
<1>3. Last(z) < MaxByte
  BY <1>2 DEF Last
<1> QED
  BY <1>1, <1>3 DEF ExclusiveEnd, Raised

\* A term that has no zero is before b with 0 and one more exactly when it is
\* before b with a zero: nothing is between.
LEMMA ZeroRaised ==
  ASSUME DictAssumption, NEW b \in Seq(Nat), NEW t \in Bytes, IsText(t)
  PROVE  /\ ExclusiveEnd(Append(b, 0)) = Raised(Append(b, 0))
         /\ IncrementBytes(Append(b, 0)) = Raised(Append(b, 0))
         /\ IsBefore(t, Raised(Append(b, 0))) <=> ~IsBefore(b, t)
<1>1. PICK z \in Seq(Nat) : z = Append(b, 0) /\ z # <<>>
  BY ZeroMeans
<1>2. Len(b) \in Nat /\ Len(z) = Len(b) + 1 /\ z[Len(z)] = 0 /\ MaxByte \in Nat \ {0} /\ t \in Seq(Nat)
  BY <1>1, BytesAreNumbers DEF DictAssumption
<1>4. ExclusiveEnd(z) = Raised(z)
  BY <1>1, ZeroEnds
<1>5. IncrementBytes(z) = Raised(z)
  <2>1. z[Len(z)] < MaxByte
    BY <1>2
  <2> QED
    BY <2>1, <1>1, LastGoesUp
<1>6. ~IsPrefix(z, t)
  <2>1. ASSUME IsPrefix(z, t) PROVE FALSE
    <3>1. Len(z) <= Len(t) /\ \A j \in 1..Len(z) : z[j] = t[j]
      BY <2>1, <1>2, PrefixMeans
    <3>2. Len(z) \in 1..Len(z) /\ Len(z) \in 1..Len(t) /\ t[Len(z)] = 0
      BY <3>1, <1>2
    <3> QED
      BY <3>2, TextMeans
  <2> QED
    BY <2>1
<1>7. IsBefore(t, Raised(z)) <=> IsBefore(t, z)
  BY <1>1, <1>2, <1>6, RaisedMeans
<1>8. IsBefore(t, Append(b, 0)) <=> ~IsBefore(b, t)
  BY <1>2, ZeroMeans
<1> QED
  BY <1>1, <1>4, <1>5, <1>7, <1>8

\* Whatever carries, the end of a prefix is behind all terms that have it.
LEMMA PrefixBeforeEnd ==
  ASSUME DictAssumption, NEW p \in Bytes, NEW t \in Bytes, IsPrefix(p, t)
  PROVE  IsBefore(t, PrefixEnd(p))
<1> DEFINE n == Len(p)
           up == {i \in 1..n : p[i] < MaxByte}
<1>0. p \in Seq(Nat) /\ t \in Seq(Nat) /\ IsBefore(t, Unbounded)
  BY BytesAreNumbers
<1>1. n \in Nat /\ Len(t) \in Nat /\ n <= Len(t) /\ \A j \in 1..n : p[j] = t[j] /\ p[j] \in Nat
  BY <1>0, PrefixMeans
<1>2. CASE up = {}
  BY <1>0, <1>2 DEF PrefixEnd
<1>3. CASE up # {}
  <2>2. PICK m \in 1..n : m = Max(up)
    <3>1. up \subseteq 1..n
      OBVIOUS
    <3> HIDE DEF up
    <3> QED
      BY <3>1, <1>1, <1>3, MaxMeans
  <2>3. PICK e : e = [i \in 1..n |-> IF i < m THEN p[i] ELSE IF i = m THEN p[i] + 1 ELSE 0]
    OBVIOUS
  <2>4. PrefixEnd(p) = e
    BY <2>2, <2>3, <1>3 DEF PrefixEnd
  <2>5. e \in Seq(Nat) /\ Len(e) = n
    BY <2>3, <1>1
  <2>6. m - 1 \in Nat /\ e[m] = p[m] + 1 /\ p[m] = t[m] /\ p[m] \in Nat
    BY <2>2, <2>3, <1>1
  <2>8. \A j \in 1..(m - 1) : j \in 1..n /\ j < m
    BY <1>1
  <2>9. \A j \in 1..(m - 1) : e[j] = t[j]
    BY <2>3, <2>8, <1>1
  <2>7. Parts(t, e, m - 1)
    BY <2>2, <2>5, <2>6, <2>9, <1>1 DEF Parts
  <2> QED
    BY <2>4, <2>5, <2>6, <2>7, <1>0, BeforeMeans
<1> QED
  BY <1>2, <1>3

\* No term that is asked for is outside.
LEMMA WantedInside ==
  ASSUME DictAssumption, NEW r \in Requests, NEW t \in Bytes
  PROVE  /\ r.kind = "all" => Inside(r, t)
         /\ r.kind = "prefix" /\ IsPrefix(r.a, t) => Inside(r, t)
         /\ r.kind = "termrange" /\ ~IsBefore(t, r.a) /\ ~IsBefore(r.b, t) => Inside(r, t)
<1>0. t \in Seq(Nat) /\ IsBefore(t, Unbounded) /\ r.a \in Bytes /\ r.a \in Seq(Nat)
  BY BytesAreNumbers, RequestMeans
<1>1. r.kind = "all" => Inside(r, t)
  BY <1>0, EmptyFirst DEF Inside, Start, EndOf
<1>2. r.kind = "prefix" /\ IsPrefix(r.a, t) => Inside(r, t)
  BY <1>0, PrefixFirst, PrefixBeforeEnd DEF Inside, Start, EndOf
<1>3. ASSUME r.kind = "termrange", ~IsBefore(t, r.a), ~IsBefore(r.b, t) PROVE Inside(r, t)
  <2>1. Start(r) = r.a /\ EndOf(r) = ExclusiveEnd(IF r.b = Unbounded THEN r.b ELSE Append(r.b, 0))
    BY <1>3 DEF Start, EndOf
  <2>2. CASE r.b = Unbounded
    BY <2>1, <2>2, <1>0, <1>3 DEF Inside, ExclusiveEnd
  <2>3. CASE r.b # Unbounded
    <3>1. r.b \in Seq(Nat)
      BY <2>3, <1>3, RequestMeans
    <3>2. ExclusiveEnd(Append(r.b, 0)) = Raised(Append(r.b, 0))
      BY <3>1, ZeroEnds
    <3>3. IsBefore(t, Raised(Append(r.b, 0)))
      BY <3>1, <1>0, <1>3, ZeroMeans, RaisedMeans
    <3> QED
      BY <2>1, <2>3, <3>2, <3>3, <1>3 DEF Inside
  <2> QED
    BY <2>2, <2>3
<1> QED
  BY <1>1, <1>2, <1>3

\* Over texts, the terms inside are those that are asked for.
LEMMA TextInside ==
  ASSUME DictAssumption, NEW r \in Requests, NEW t \in Bytes, IsText(t), IsText(r.a)
  PROVE  /\ r.kind = "all" => Inside(r, t)
         /\ r.kind = "prefix" => (Inside(r, t) <=> IsPrefix(r.a, t))
         /\ r.kind = "termrange" => (Inside(r, t) <=> ~IsBefore(t, r.a) /\ ~IsBefore(r.b, t))
<1>0. t \in Seq(Nat) /\ IsBefore(t, Unbounded)
  BY BytesAreNumbers
<1>1. CASE r.kind = "all"
  <2>1. Start(r) = <<>> /\ EndOf(r) = Unbounded
    BY <1>1 DEF Start, EndOf
  <2> QED
    BY <2>1, <1>0, <1>1, EmptyFirst DEF Inside
<1>2. CASE r.kind = "prefix"
  <2>1. Start(r) = r.a /\ EndOf(r) = PrefixEnd(r.a) /\ r.a \in Seq(Nat) /\ r.a \in Bytes
    BY <1>2, RequestMeans DEF Start, EndOf
  <2>2. CASE r.a = <<>>
    <3>1. PrefixEnd(<<>>) = Unbounded
      BY EmptySeq DEF PrefixEnd
    <3> QED
      BY <3>1, <2>1, <2>2, <1>0, <1>2, EmptyFirst DEF Inside
  <2>3. CASE r.a # <<>>
    <3>1. Len(r.a) \in 1..Len(r.a)
      BY <2>1, <2>3
    <3>2. r.a[Len(r.a)] < MaxByte
      BY <3>1, <2>1, TextMeans
    <3>3. EndOf(r) = Raised(r.a)
      BY <3>2, <2>1, <2>3, LastGoesUp
    <3>4. Inside(r, t) <=> ~IsBefore(t, r.a) /\ IsBefore(t, Raised(r.a))
      BY <3>3, <2>1 DEF Inside
    <3> QED
      BY <3>4, <2>1, <2>3, <1>0, <1>2, RaisedMeans, PrefixFirst
  <2> QED
    BY <2>2, <2>3
<1>3. CASE r.kind = "termrange"
  <2>1. Start(r) = r.a /\ EndOf(r) = ExclusiveEnd(IF r.b = Unbounded THEN r.b ELSE Append(r.b, 0))
    BY <1>3 DEF Start, EndOf
  <2>2. IsBefore(t, EndOf(r)) <=> ~IsBefore(r.b, t)
    <3>1. CASE r.b = Unbounded
      <4>1. EndOf(r) = Unbounded
        BY <3>1, <2>1 DEF ExclusiveEnd
      <4>2. ~IsBefore(Unbounded, t)
        BY <1>0, BytesAreNumbers, NotBoth
      <4> QED
        BY <4>1, <4>2, <3>1, <1>0
    <3>2. CASE r.b # Unbounded
      <4>1. r.b \in Seq(Nat)
        BY <1>3, <3>2, RequestMeans
      <4>2. EndOf(r) = Raised(Append(r.b, 0)) /\ (IsBefore(t, Raised(Append(r.b, 0))) <=> ~IsBefore(r.b, t))
        BY <4>1, <3>2, <2>1, <1>3, ZeroRaised
      <4> QED
        BY <4>2
    <3> QED
      BY <3>1, <3>2
  <2> QED
    BY <2>1, <2>2, <1>3 DEF Inside
<1> QED
  BY <1>1, <1>2, <1>3, RequestMeans

\* Upsidedown reads the same terms.
LEMMA UpsidedownReads ==
  ASSUME DictAssumption, NEW r \in Requests, NEW T, T \subseteq Bytes, \A t \in T : IsText(t), IsText(r.a),
         r.kind \in {"range", "termrange"} => r.b = Unbounded \/ IsText(r.b),
         r.kind = "prefix" => r.a # <<>>
  PROVE  UdTerms(r, T) = InSegment(r, T)
<1> DEFINE UdEnd(b) == IF b = Unbounded THEN <<MaxByte>> ELSE IncrementBytes(b)
           Read(a, b, t) == ~IsBefore(t, a) /\ IsBefore(t, UdEnd(b))
<1>0. \A a, b, t : t \in UdRange(a, b, T) <=> t \in T /\ Read(a, b, t)
  BY DEF UdRange
<1>1. \A t \in T : t \in Bytes /\ t \in Seq(Nat) /\ IsText(t) /\ IsBefore(t, Unbounded)
  BY BytesAreNumbers
<1>2. \A t \in T : IsBefore(t, <<MaxByte>>)
  <2>1. \A t \in T : \A i \in 1..Len(t) : t[i] < MaxByte
    BY <1>1, TextMeans
  <2> QED
    BY <2>1, <1>1, BeforeOne DEF DictAssumption
<1>3. ASSUME NEW t \in T PROVE t \in UdTerms(r, T) <=> Inside(r, t)
  <2>1. CASE r.kind = "all"
    <3>1. t \in UdTerms(r, T) <=> Read(<<>>, Unbounded, t)
      BY <2>1, <1>0 DEF UdTerms
    <3> HIDE DEF Read
    <3>2. Read(<<>>, Unbounded, t)
      BY <1>1, <1>2, EmptyFirst DEF Read
    <3> QED
      BY <3>1, <3>2, <2>1, <1>1, TextInside
  <2>2. CASE r.kind = "prefix"
    <3>1. t \in UdTerms(r, T) <=> Read(r.a, r.a, t)
      BY <2>2, <1>0 DEF UdTerms
    <3>2. r.a \in Seq(Nat) /\ r.a # Unbounded /\ r.a # <<>> /\ r.a \in Bytes
      BY <2>2, RequestMeans, BytesAreNumbers
    <3>3. PrefixEnd(r.a) = IncrementBytes(r.a)
      <4>1. Len(r.a) \in 1..Len(r.a)
        BY <3>2
      <4> QED
        BY <4>1, <3>2, TextMeans, LastGoesUp
    <3>4. Inside(r, t) <=> ~IsBefore(t, r.a) /\ IsBefore(t, PrefixEnd(r.a))
      BY <2>2 DEF Inside, Start, EndOf
    <3> QED
      BY <3>1, <3>2, <3>3, <3>4
  <2>3. CASE r.kind = "range"
    <3>1. t \in UdTerms(r, T) <=> Read(r.a, r.b, t)
      BY <2>3, <1>0 DEF UdTerms
    <3>2. Inside(r, t) <=> ~IsBefore(t, r.a) /\ IsBefore(t, ExclusiveEnd(r.b))
      BY <2>3 DEF Inside, Start, EndOf
    <3>3. CASE r.b = Unbounded
      BY <3>1, <3>2, <3>3, <1>1, <1>2 DEF ExclusiveEnd
    <3>4. CASE r.b # Unbounded
      <4>1. r.b \in Seq(Nat) /\ r.b # <<>> /\ r.b \in Bytes /\ IsText(r.b)
        BY <2>3, <3>4, RequestMeans
      <4>2. r.b[Len(r.b)] < MaxByte
        <5>1. Len(r.b) \in 1..Len(r.b)
          BY <4>1
        <5> QED
          BY <5>1, <4>1, TextMeans
      <4>3. IncrementBytes(r.b) = Raised(r.b)
        BY <4>1, <4>2, LastGoesUp
      <4>4. ExclusiveEnd(r.b) = Raised(r.b)
        BY <4>2, <3>4 DEF ExclusiveEnd, Raised, Last
      <4> QED
        BY <3>1, <3>2, <3>4, <4>3, <4>4
    <3> QED
      BY <3>3, <3>4
  <2>4. CASE r.kind = "termrange"
    <3>1. Inside(r, t) <=> ~IsBefore(t, r.a) /\ ~IsBefore(r.b, t)
      BY <2>4, <1>1, TextInside
    <3>3. CASE r.b = Unbounded
      <4>1. t \in UdTerms(r, T) <=> Read(r.a, Unbounded, t)
        BY <2>4, <3>3, <1>0 DEF UdTerms
      <4>2. ~IsBefore(Unbounded, t)
        BY <1>1, BytesAreNumbers, NotBoth
      <4> QED
        BY <4>1, <4>2, <3>1, <3>3, <1>2
    <3>4. CASE r.b # Unbounded
      <4>1. r.b \in Seq(Nat)
        BY <2>4, <3>4, RequestMeans
      <4>2. PICK z \in Seq(Nat) : z = Append(r.b, 0)
        BY <4>1, ZeroMeans
      <4>3. t \in UdTerms(r, T) <=> Read(r.a, z, t)
        BY <2>4, <3>4, <4>2, <1>0 DEF UdTerms
      <4>4. z # Unbounded
        BY <4>1, <4>2, NotUnbounded
      <4>5. IncrementBytes(z) = Raised(z) /\ (IsBefore(t, Raised(z)) <=> ~IsBefore(r.b, t))
        BY <4>1, <4>2, <1>1, ZeroRaised
      <4> QED
        BY <4>3, <4>4, <4>5, <3>1
    <3> QED
      BY <3>3, <3>4
  <2> QED
    BY <2>1, <2>2, <2>3, <2>4, RequestMeans
<1>4. UdTerms(r, T) \subseteq T
  BY <1>0, RequestMeans DEF UdTerms
<1>5. \A t : t \in UdTerms(r, T) <=> t \in InSegment(r, T)
  BY <1>3, <1>4, InSegmentMeans
<1> QED
  BY <1>5

-----------------------------------------------------------------------------
(* Lists of terms *)

SortedTerms(ts) == \A i, j \in 1..Len(ts) : i < j => IsBefore(ts[i], ts[j])

LEMMA DropFirstRight ==
  ASSUME NEW ts \in Seq(Seq(Nat)), SortedTerms(ts), NEW a,
         \A x \in ToSet(ts) : ~IsBefore(x, a), NEW from,
         from = IF ts # <<>> /\ Head(ts) = a THEN Tail(ts) ELSE ts
  PROVE  /\ from \in Seq(Seq(Nat)) /\ SortedTerms(from)
         /\ \A x : x \in ToSet(from) <=> x \in ToSet(ts) /\ x # a
<1> DEFINE n == Len(ts)
<1>0. n \in Nat /\ (\A i \in 1..n : ts[i] \in Seq(Nat)) /\ \A x : x \in ToSet(ts) <=> \E i \in 1..n : x = ts[i]
  BY ToSetMeans, ElementOfSeq, LenProperties
<1>1. CASE ts = <<>>
  <2>1. from = ts
    BY <1>1
  <2>2. ts = <<>> => ToSet(ts) = {}
    BY <1>0, EmptySeq
  <2> QED
    BY <2>1, <2>2, <1>1
<1>2. CASE ts # <<>> /\ Head(ts) = a
  <2>1. from = Tail(ts) /\ n >= 1 /\ a = ts[1] /\ 1 \in 1..n
    BY <1>2, <1>0, EmptySeq, HeadTailProperties
  <2>2. PICK us \in Seq(Seq(Nat)) : us = Tail(ts)
    BY <1>2, HeadTailProperties
  <2>3. Len(us) = n - 1 /\ \A i \in 1..(n - 1) : us[i] = ts[i + 1]
    BY <2>2, <1>2, HeadTailProperties
  <2>4. \A i \in 2..n : IsBefore(ts[1], ts[i]) /\ ts[i] # a
    <3>1. \A i \in 2..n : i \in 1..n /\ 1 < i
      BY <1>0
    <3> QED
      BY <3>1, <2>1, <1>0, NotBoth DEF SortedTerms
  <2>5. \A x : x \in ToSet(us) <=> \E i \in 2..n : x = ts[i]
    <3>1. \A i \in 2..n : i - 1 \in 1..(n - 1) /\ us[i - 1] = ts[i]
      BY <2>3, <1>0
    <3>2. \A i \in 1..(n - 1) : i + 1 \in 2..n
      BY <1>0
    <3>3. \A x : x \in ToSet(us) <=> \E i \in 1..(n - 1) : x = us[i]
      BY <2>3, ToSetMeans
    <3>4. \A i \in 2..n : \E j \in 1..(n - 1) : us[j] = ts[i]
      BY <3>1
    <3>5. \A j \in 1..(n - 1) : \E i \in 2..n : us[j] = ts[i]
      BY <3>2, <2>3
    <3>6. ASSUME NEW i \in 2..n PROVE ts[i] \in ToSet(us)
      <4>1. PICK j \in 1..(n - 1) : us[j] = ts[i]
        BY <3>4
      <4> QED
        BY <4>1, <3>3
    <3>7. ASSUME NEW x \in ToSet(us) PROVE \E i \in 2..n : x = ts[i]
      <4>1. PICK j \in 1..(n - 1) : x = us[j]
        BY <3>3
      <4>2. PICK i \in 2..n : us[j] = ts[i]
        BY <3>5
      <4> QED
        BY <4>1, <4>2
    <3> QED
      BY <3>6, <3>7
  <2>6. \A x : (\E i \in 1..n : x = ts[i]) <=> x = ts[1] \/ \E i \in 2..n : x = ts[i]
    <3>1. \A i \in 1..n : i = 1 \/ i \in 2..n
      BY <1>0
    <3>2. \A i \in 2..n : i \in 1..n
      BY <1>0
    <3> QED
      BY <3>1, <3>2, <2>1
  <2>7. SortedTerms(us)
    <3>1. \A i \in 1..Len(us) : i + 1 \in 1..n /\ us[i] = ts[i + 1] /\ i \in Nat
      BY <2>3, <1>0
    <3>2. \A i, j \in 1..Len(us) : i < j => i + 1 < j + 1
      BY <3>1
    <3> QED
      BY <3>1, <3>2 DEF SortedTerms
  <2>8. \A x : x \in ToSet(us) <=> x \in ToSet(ts) /\ x # a
    BY <2>1, <2>4, <2>5, <2>6, <1>0
  <2> QED
    BY <2>1, <2>2, <2>7, <2>8, <1>2
<1>3. CASE ts # <<>> /\ Head(ts) # a
  <2>1. from = ts /\ a # ts[1] /\ 1 \in 1..n
    BY <1>3, <1>0, EmptySeq, HeadTailProperties
  <2>2. \A i \in 1..n : ts[i] # a
    <3>1. \A i \in 1..n : i # 1 => 1 < i
      BY <1>0
    <3>2. \A i \in 1..n : i # 1 => IsBefore(ts[1], ts[i])
      BY <3>1, <2>1 DEF SortedTerms
    <3>3. ~IsBefore(ts[1], a)
      BY <2>1, <1>0
    <3> QED
      BY <3>2, <3>3, <2>1
  <2> QED
    BY <2>1, <2>2, <1>0
<1> QED
  BY <1>1, <1>2, <1>3

WithoutLast(ts, b) == IF ts # <<>> /\ Last(ts) = b THEN Front(ts) ELSE ts

LEMMA DropLastRight ==
  ASSUME NEW ts \in Seq(Seq(Nat)), SortedTerms(ts), NEW b,
         \A x \in ToSet(ts) : ~IsBefore(b, x)
  PROVE  /\ WithoutLast(ts, b) \in Seq(Seq(Nat)) /\ SortedTerms(WithoutLast(ts, b))
         /\ \A x : x \in ToSet(WithoutLast(ts, b)) <=> x \in ToSet(ts) /\ x # b
<1> DEFINE n == Len(ts)
<1>0. n \in Nat /\ (\A i \in 1..n : ts[i] \in Seq(Nat)) /\ \A x : x \in ToSet(ts) <=> \E i \in 1..n : x = ts[i]
  BY ToSetMeans, ElementOfSeq, LenProperties
<1>00. n - 1 <= Len(ts) /\ \A i \in 1..n : i # n => i < n /\ i \in 1..(n - 1)
  BY <1>0
<1>1. CASE ts = <<>>
  <2>1. WithoutLast(ts, b) = ts
    BY <1>1 DEF WithoutLast
  <2>2. ts = <<>> => ToSet(ts) = {}
    BY <1>0, EmptySeq
  <2> QED
    BY <2>1, <2>2, <1>1
<1>2. CASE ts # <<>> /\ Last(ts) = b
  <2>1. WithoutLast(ts, b) = SubSeq(ts, 1, n - 1) /\ n >= 1 /\ b = ts[n] /\ n \in 1..n
    BY <1>2, <1>0, EmptySeq DEF WithoutLast, Front, Last
  <2>2. PICK k \in Nat : k = n - 1 /\ k <= Len(ts)
    BY <2>1, <1>0
  <2>02. 1 \in Nat /\ 1 >= 1
    OBVIOUS
  <2>03. n = Len(ts)
    OBVIOUS
  <2> HIDE DEF n
  <2>3. PICK us \in Seq(Seq(Nat)) : us = SubSeq(ts, 1, k)
    BY <2>2, <2>02, SubSeqMeans
  <2>4. \A x : x \in ToSet(us) <=> \E i \in 1..(n - 1) : x = ts[i]
    BY <2>2, <2>03, <2>3, <1>2, FrontMeans
  <2>5. \A i \in 1..Len(us) : i \in 1..(n - 1) /\ us[i] = ts[i]
    <3>1. \A i \in 1..Len(us) : i + 1 - 1 \in 1..(n - 1) /\ us[i] = ts[i + 1 - 1]
      BY <2>2, <2>02, <2>3, SubSeqMeans
    <3>2. \A i \in 1..Len(us) : i + 1 - 1 = i
      BY LenProperties
    <3> QED
      BY <3>1, <3>2
  <2>6. \A i \in 1..(n - 1) : i \in 1..n /\ i < n
    BY <1>0
  <2>7. \A i \in 1..(n - 1) : ts[i] # b
    BY <2>1, <2>6, <2>03, <1>0, NotBoth DEF SortedTerms
  <2>8. SortedTerms(us)
    BY <2>5, <2>6, <2>03 DEF SortedTerms
  <2>9. \A x : x \in ToSet(us) <=> x \in ToSet(ts) /\ x # b
    BY <2>1, <2>4, <2>6, <2>7, <1>0, <1>00
  <2> QED
    BY <2>1, <2>2, <2>3, <2>8, <2>9, <1>2
<1>3. CASE ts # <<>> /\ Last(ts) # b
  <2>1. WithoutLast(ts, b) = ts /\ b # ts[n] /\ n \in 1..n
    BY <1>3, <1>0, EmptySeq DEF WithoutLast, Last
  <2>2. \A i \in 1..n : ts[i] # b
    <3>1. \A i \in 1..n : i # n => IsBefore(ts[i], ts[n])
      BY <2>1, <1>00 DEF SortedTerms
    <3>2. ~IsBefore(b, ts[n])
      BY <2>1, <1>0
    <3> QED
      BY <3>1, <3>2, <2>1
  <2> QED
    BY <2>1, <2>2, <1>0
<1> QED
  BY <1>1, <1>2, <1>3

LEMMA RangeTermsIsList ==
  ASSUME NEW r, NEW ts \in Seq(Seq(Nat))
  PROVE  RangeTerms(r, ts) \in Seq(Seq(Nat))
<1>1. ASSUME NEW us \in Seq(Seq(Nat)), NEW c PROVE DropFirst(us, c) \in Seq(Seq(Nat))
  BY HeadTailProperties DEF DropFirst
<1>2. ASSUME NEW us \in Seq(Seq(Nat)), NEW c PROVE DropLast(us, c) \in Seq(Seq(Nat))
  <2>1. CASE c /\ us # <<>>
    <3>1. Len(us) \in Nat /\ Len(us) # 0
      BY <2>1, EmptySeq, LenProperties
    <3>2. PICK k \in Nat : k = Len(us) - 1 /\ k <= Len(us)
      <4>1. Len(us) - 1 \in Nat /\ Len(us) - 1 <= Len(us)
        BY <3>1
      <4> QED
        BY <4>1
    <3>3. 1 \in Nat /\ 1 >= 1
      OBVIOUS
    <3>4. SubSeq(us, 1, k) \in Seq(Seq(Nat))
      BY <3>2, <3>3, SubSeqMeans
    <3> QED
      BY <3>2, <3>4, <2>1 DEF DropLast, Front
  <2>2. CASE ~(c /\ us # <<>>)
    BY <2>2 DEF DropLast
  <2> QED
    BY <2>1, <2>2
<1>3. PICK f \in Seq(Seq(Nat)) : f = DropFirst(ts, ts # <<>> /\ ~r.incMin /\ Head(ts) = r.a)
  BY <1>1
<1> QED
  BY <1>2, <1>3 DEF RangeTerms

\* What is dropped from the ends of a list is one of the ends.
LEMMA DropsEnds ==
  ASSUME NEW ts \in Seq(Seq(Nat)), NEW c \in BOOLEAN, NEW x \in ToSet(ts)
  PROVE  /\ x \in ToSet(DropFirst(ts, c)) \/ (c /\ x = Head(ts))
         /\ x \in ToSet(DropLast(ts, c)) \/ (c /\ x = Last(ts))
<1>1. Len(ts) \in Nat
  BY LenProperties
<1>2. PICK i \in 1..Len(ts) : x = ts[i]
  BY ToSetMeans
<1>3. i # 1 => x \in ToSet(Tail(ts))
  <2>1. i # 1 => i \in 2..Len(ts)
    BY <1>1
  <2> QED
    BY <2>1, <1>2, TailMeans
<1>4. i # Len(ts) => x \in ToSet(Front(ts))
  <2>1. ts # <<>>
    BY <1>2, EmptySeq
  <2>2. i # Len(ts) => i \in 1..(Len(ts) - 1)
    BY <1>1
  <2> QED
    BY <2>1, <2>2, <1>2, FrontMeans
<1>5. x = Head(ts) \/ i # 1
  BY <1>2
<1>6. x = Last(ts) \/ i # Len(ts)
  BY <1>2 DEF Last
<1> QED
  BY <1>3, <1>4, <1>5, <1>6 DEF DropFirst, DropLast

LEMMA RangeTermsKeep ==
  ASSUME NEW r, r.incMin \in BOOLEAN, r.incMax \in BOOLEAN, NEW ts \in Seq(Seq(Nat)),
         NEW x \in ToSet(ts), ~r.incMin => x # r.a, ~r.incMax => x # r.b
  PROVE  x \in ToSet(RangeTerms(r, ts))
<1> DEFINE c == ts # <<>> /\ ~r.incMin /\ Head(ts) = r.a
<1>1. PICK f \in Seq(Seq(Nat)) : f = DropFirst(ts, c)
  BY HeadTailProperties DEF DropFirst
<1>2. x \in ToSet(f)
  BY <1>1, DropsEnds
<1> DEFINE d == f # <<>> /\ ~r.incMax /\ Last(f) = r.b
<1>3. x \in ToSet(DropLast(f, d))
  BY <1>2, DropsEnds
<1> QED
  BY <1>1, <1>3 DEF RangeTerms

\* Without the ends that the request does not include.
LEMMA RangeTermsRight ==
  ASSUME NEW r, r.incMin \in BOOLEAN, r.incMax \in BOOLEAN,
         NEW ts \in Seq(Seq(Nat)), SortedTerms(ts),
         \A x \in ToSet(ts) : ~IsBefore(x, r.a) /\ ~IsBefore(r.b, x)
  PROVE  /\ RangeTerms(r, ts) \in Seq(Seq(Nat))
         /\ \A x : x \in ToSet(RangeTerms(r, ts)) <=> /\ x \in ToSet(ts) /\ (~r.incMin => x # r.a)
                                                      /\ (~r.incMax => x # r.b)
<1>1. PICK f : f = DropFirst(ts, ts # <<>> /\ ~r.incMin /\ Head(ts) = r.a)
  OBVIOUS
<1>2. /\ f \in Seq(Seq(Nat)) /\ SortedTerms(f)
      /\ \A x : x \in ToSet(f) <=> x \in ToSet(ts) /\ (~r.incMin => x # r.a)
  <2>1. CASE r.incMin
    BY <2>1, <1>1 DEF DropFirst
  <2>2. CASE ~r.incMin
    <3>1. f = IF ts # <<>> /\ Head(ts) = r.a THEN Tail(ts) ELSE ts
      BY <2>2, <1>1 DEF DropFirst
    <3> QED
      BY <3>1, <2>2, DropFirstRight
  <2> QED
    BY <2>1, <2>2
<1>3. PICK l : l = DropLast(f, f # <<>> /\ ~r.incMax /\ Last(f) = r.b)
  OBVIOUS
<1>4. /\ l \in Seq(Seq(Nat))
      /\ \A x : x \in ToSet(l) <=> x \in ToSet(f) /\ (~r.incMax => x # r.b)
  <2>1. CASE r.incMax
    BY <2>1, <1>2, <1>3 DEF DropLast
  <2>2. CASE ~r.incMax
    <3>1. l = WithoutLast(f, r.b)
      BY <2>2, <1>3 DEF DropLast, WithoutLast
    <3>2. \A x \in ToSet(f) : ~IsBefore(r.b, x)
      BY <1>2
    <3>3. f \in Seq(Seq(Nat)) /\ SortedTerms(f)
      BY <1>2
    <3>4. l \in Seq(Seq(Nat)) /\ \A x : x \in ToSet(l) <=> x \in ToSet(f) /\ x # r.b
      BY <3>1, <3>2, <3>3, DropLastRight
    <3> QED
      BY <3>4, <2>2
  <2> QED
    BY <2>1, <2>2
<1>5. RangeTerms(r, ts) = l
  BY <1>1, <1>3 DEF RangeTerms
<1> QED
  BY <1>2, <1>4, <1>5

\* A batch and what is behind it.
LEMMA BatchRight ==
  ASSUME DictAssumption, NEW ts \in Seq(Seq(Nat))
  PROVE  /\ ToSet(BatchOf(ts)) \cup ToSet(SubSeq(ts, MaxClauses + 1, Len(ts))) = ToSet(ts)
         /\ SubSeq(ts, MaxClauses + 1, Len(ts)) \in Seq(Seq(Nat))
         /\ Len(ts) <= MaxClauses => ToSet(SubSeq(ts, MaxClauses + 1, Len(ts))) = {}
<1> DEFINE k == IF MaxClauses <= Len(ts) THEN MaxClauses ELSE Len(ts)
<1>1. MaxClauses \in Nat /\ Len(ts) \in Nat /\ k \in Nat /\ k <= Len(ts)
  BY LenProperties DEF DictAssumption
<1>2. Min({MaxClauses, Len(ts)}) = k
  <2>1. k \in {MaxClauses, Len(ts)} /\ \A y \in {MaxClauses, Len(ts)} : k <= y
    BY <1>1
  <2>2. \A x \in {MaxClauses, Len(ts)} : (\A y \in {MaxClauses, Len(ts)} : x <= y) => x = k
    BY <1>1
  <2> HIDE DEF k
  <2> QED
    BY <2>1, <2>2 DEF Min
<1>3. BatchOf(ts) = SubSeq(ts, 1, k)
  BY <1>2 DEF BatchOf
<1> HIDE DEF k
<1>4. PICK n \in Nat : n = Len(ts) /\ n <= Len(ts)
  BY <1>1
<1>5. PICK m \in Nat : m = MaxClauses + 1 /\ m >= 1
  BY <1>1
<1>6. 1 \in Nat /\ 1 >= 1
  OBVIOUS
<1>7. \A e : e \in ToSet(SubSeq(ts, 1, k)) <=> \E j \in 1..k : e = ts[j]
  BY <1>1, <1>6, SubSeqMeans
<1>8. /\ SubSeq(ts, m, n) \in Seq(Seq(Nat))
      /\ \A e : e \in ToSet(SubSeq(ts, m, n)) <=> \E j \in m..n : e = ts[j]
  <2>1. m >= 1 /\ n <= Len(ts)
    BY <1>4, <1>5
  <2>2. SubSeq(ts, m, n) \in Seq(Seq(Nat))
    BY <2>1, SubSeqMeans
  <2>3. \A e : e \in ToSet(SubSeq(ts, m, n)) <=> \E j \in m..n : e = ts[j]
    BY <2>1, SubSeqMeans
  <2> QED
    BY <2>2, <2>3
<1>9. \A e : e \in ToSet(ts) <=> \E j \in 1..n : e = ts[j]
  BY <1>4, ToSetMeans
<1>10. /\ \A j \in 1..n : j \in 1..k \/ j \in m..n
       /\ \A j \in 1..k : j \in 1..n
       /\ \A j \in m..n : j \in 1..n
  BY <1>1, <1>4, <1>5 DEF k
<1>11. \A e : e \in ToSet(ts) <=> e \in ToSet(SubSeq(ts, 1, k)) \/ e \in ToSet(SubSeq(ts, m, n))
  <2>1. ASSUME NEW e \in ToSet(ts) PROVE e \in ToSet(SubSeq(ts, 1, k)) \/ e \in ToSet(SubSeq(ts, m, n))
    <3>1. PICK j \in 1..n : e = ts[j]
      BY <1>9
    <3> QED
      BY <3>1, <1>7, <1>8, <1>10
  <2>2. ASSUME NEW e \in ToSet(SubSeq(ts, 1, k)) PROVE e \in ToSet(ts)
    <3>1. PICK j \in 1..k : e = ts[j]
      BY <1>7
    <3> QED
      BY <3>1, <1>9, <1>10
  <2>3. ASSUME NEW e \in ToSet(SubSeq(ts, m, n)) PROVE e \in ToSet(ts)
    <3>1. PICK j \in m..n : e = ts[j]
      BY <1>8
    <3> QED
      BY <3>1, <1>9, <1>10
  <2> QED
    BY <2>1, <2>2, <2>3
<1>12. ASSUME Len(ts) <= MaxClauses, NEW e PROVE e \notin ToSet(SubSeq(ts, m, n))
  <2>1. \A j \in m..n : FALSE
    BY <1>12, <1>1, <1>4, <1>5
  <2> QED
    BY <2>1, <1>8
<1> QED
  BY <1>3, <1>4, <1>5, <1>8, <1>11, <1>12

-----------------------------------------------------------------------------
(* The inductive invariant *)

Entry == [term : Pool, count : {Cardinality(S) : S \in SUBSET SegmentIds}]

LEMMA PoolIsBytes ==
  ASSUME DictAssumption
  PROVE  Pool \subseteq Bytes /\ Pool \subseteq Seq(Nat) /\ IsFiniteSet(Pool)
<1>1. Pool \subseteq Bytes
  BY DEF DictAssumption, Bytes
<1> QED
  BY <1>1, BytesAreNumbers DEF DictAssumption

\* The entries are in order, with the documents of all segments, and they are
\* of the request.
OutRight ==
  /\ out \in Seq(Entry)
  /\ \A i, j \in 1..Len(out) : i < j => IsBefore(out[i].term, out[j].term)
  /\ \A i \in 1..Len(out) : out[i].count = Cardinality({s \in SegmentIds : out[i].term \in terms[s]})
  /\ \A x \in Terms(out) : x \in All /\ Inside(request, x)

\* The cursors have what is not returned yet: it is behind what is.
CursorsRight ==
  \A s \in SegmentIds : \A x :
    /\ x \in cursors[s] <=> (x \in terms[s] /\ Inside(request, x) /\ x \notin Terms(out))
    /\ x \in cursors[s] => \A y \in Terms(out) : IsBefore(y, x)

DictInvariant ==
  /\ request \in Requests /\ terms \in [SegmentIds -> SUBSET Pool]
  /\ pending \subseteq SegmentIds /\ failed \in BOOLEAN
  /\ cursors \in [SegmentIds -> SUBSET Pool]
  /\ clauses \in Seq(Seq(Nat))
  /\ OutRight
  /\ reading = "collect" =>
       /\ out = <<>> /\ searched = {}
       /\ failed \/ \A s \in SegmentIds \ pending : cursors[s] = InSegment(request, terms[s])
  /\ reading = "read" => searched = {} /\ CursorsRight
  /\ reading \in {"search", "done"} =>
       /\ \A x \in All : Inside(request, x) => x \in Terms(out)
       /\ searched \cup ToSet(clauses) = ToSet(Chosen)
  /\ reading = "done" => ToSet(clauses) = {}

LEMMA TermsMeans ==
  ASSUME NEW o \in Seq(Entry)
  PROVE  /\ \A x : x \in Terms(o) <=> \E i \in 1..Len(o) : x = o[i].term
         /\ Terms(o) \subseteq Pool
         /\ TermList(o) \in Seq(Pool) /\ Len(TermList(o)) = Len(o) /\ ToSet(TermList(o)) = Terms(o)
         /\ \A i \in 1..Len(o) : TermList(o)[i] = o[i].term
<1>1. \A i \in 1..Len(o) : o[i] \in Entry /\ o[i].term \in Pool
  <2>1. \A i \in 1..Len(o) : o[i] \in Entry
    BY ElementOfSeq
  <2>2. \A e \in Entry : e.term \in Pool
    BY DEF Entry
  <2> QED
    BY <2>1, <2>2
<1>2. Len(o) \in Nat
  BY LenProperties
<1>3. TermList(o) = [i \in 1..Len(o) |-> o[i].term]
  BY DEF TermList
<1>4. TermList(o) \in Seq(Pool) /\ Len(TermList(o)) = Len(o) /\ \A i \in 1..Len(o) : TermList(o)[i] = o[i].term
  BY <1>1, <1>2, <1>3
<1>5. \A x : x \in Terms(o) <=> \E i \in 1..Len(o) : x = o[i].term
  BY DEF Terms
<1>6. \A x : x \in ToSet(TermList(o)) <=> \E i \in 1..Len(TermList(o)) : x = TermList(o)[i]
  BY <1>4, ToSetMeans
<1>7. \A x : x \in ToSet(TermList(o)) <=> x \in Terms(o)
  BY <1>4, <1>5, <1>6
<1> QED
  BY <1>1, <1>4, <1>5, <1>7

LEMMA ChosenIsList ==
  ASSUME DictAssumption, DictInvariant
  PROVE  Chosen \in Seq(Seq(Nat))
<1>1. TermList(out) \in Seq(Seq(Nat))
  <2>1. TermList(out) \in Seq(Pool)
    BY TermsMeans DEF DictInvariant, OutRight
  <2> QED
    BY <2>1, PoolIsBytes
<1>2. <<request.a>> \in Seq(Seq(Nat))
  BY RequestMeans DEF DictInvariant
<1>3. RangeTerms(request, TermList(out)) \in Seq(Seq(Nat))
  <2>1. PICK ts \in Seq(Seq(Nat)) : ts = TermList(out)
    BY <1>1
  <2> QED
    BY <2>1, RangeTermsIsList
<1> QED
  BY <1>1, <1>2, <1>3 DEF Chosen

LEMMA InitDictInvariant == DictAssumption /\ DictInit => DictInvariant
<1> SUFFICES ASSUME DictAssumption, DictInit PROVE DictInvariant
  OBVIOUS
<1>1. /\ request \in Requests /\ terms \in [SegmentIds -> SUBSET Pool] /\ pending = SegmentIds
      /\ failed = FALSE /\ cursors = [s \in SegmentIds |-> {}] /\ out = <<>> /\ clauses = <<>>
      /\ searched = {} /\ reading = "collect"
  BY DEF DictInit
<1>2. out \in Seq(Entry) /\ clauses \in Seq(Seq(Nat)) /\ Len(out) = 0
  BY <1>1, EmptySeq
<1>3. OutRight
  <2>1. (\A i \in 1..Len(out) : FALSE) /\ \A x : x \notin Terms(out)
    BY <1>2 DEF Terms
  <2> QED
    BY <2>1, <1>2 DEF OutRight
<1>4. cursors \in [SegmentIds -> SUBSET Pool]
  BY <1>1
<1> QED
  BY <1>1, <1>2, <1>3, <1>4 DEF DictInvariant

\* What the steps that return no entry keep.
LEMMA OutKept ==
  ASSUME OutRight, UNCHANGED <<request, terms, out>>
  PROVE  OutRight' /\ Chosen' = Chosen /\ All' = All
<1>1. All' = All
  BY DEF All
<1>2. Chosen' = Chosen
  BY DEF Chosen
<1> QED
  BY <1>1, <1>2 DEF OutRight

LEMMA AnswerKeeps ==
  ASSUME DictAssumption, DictInvariant, NEW s \in SegmentIds, Answer(s)
  PROVE  DictInvariant'
<1>1. /\ reading = "collect" /\ pending' = pending \ {s} /\ reading' = reading
      /\ cursors' = [cursors EXCEPT ![s] = InSegment(request, terms[s])]
      /\ UNCHANGED <<request, terms, failed, out, clauses, searched>>
  BY DEF Answer
<1>2. OutRight'
  BY <1>1, OutKept DEF DictInvariant
<1>3. InSegment(request, terms[s]) \subseteq terms[s] /\ terms[s] \in SUBSET Pool
  BY DEF InSegment, DictInvariant
<1>4. cursors' \in [SegmentIds -> SUBSET Pool]
  BY <1>1, <1>3 DEF DictInvariant
<1>5. failed \/ \A x \in SegmentIds \ pending' : cursors'[x] = InSegment(request, terms[x])
  BY <1>1 DEF DictInvariant
<1> QED
  BY <1>1, <1>2, <1>4, <1>5 DEF DictInvariant

LEMMA AnswerFailsKeeps ==
  ASSUME DictAssumption, DictInvariant, NEW s \in SegmentIds, AnswerFails(s)
  PROVE  DictInvariant'
<1>1. /\ reading = "collect" /\ pending' = pending \ {s} /\ reading' \in {"collect", "panic"}
      /\ failed' = TRUE
      /\ UNCHANGED <<request, terms, cursors, out, clauses, searched>>
  BY DEF AnswerFails
<1>2. OutRight'
  BY <1>1, OutKept DEF DictInvariant
<1> QED
  BY <1>1, <1>2 DEF DictInvariant

LEMMA CollectedKeeps ==
  ASSUME DictAssumption, DictInvariant, Collected
  PROVE  DictInvariant'
<1>1. /\ reading = "collect" /\ pending = {} /\ reading' = IF failed THEN "failed" ELSE "read"
      /\ UNCHANGED <<request, terms, pending, failed, cursors, out, clauses, searched>>
  BY DEF Collected
<1>2. OutRight'
  BY <1>1, OutKept DEF DictInvariant
<1>3. ASSUME ~failed PROVE CursorsRight'
  <2>1. \A s \in SegmentIds : cursors[s] = InSegment(request, terms[s])
    BY <1>1, <1>3 DEF DictInvariant
  <2>2. \A x : x \notin Terms(out)
    BY <1>1, EmptySeq DEF DictInvariant, Terms
  <2>3. \A s \in SegmentIds : \A x : x \in cursors[s] <=> x \in terms[s] /\ Inside(request, x)
    BY <2>1, InSegmentMeans
  <2> QED
    BY <2>2, <2>3, <1>1 DEF CursorsRight
<1> QED
  BY <1>1, <1>2, <1>3 DEF DictInvariant

\* The least term of the cursors, with its documents.
LEMMA ReadNextKeeps ==
  ASSUME DictAssumption, DictInvariant, ReadNext
  PROVE  DictInvariant'
<1> DEFINE rest == UNION {cursors[s] : s \in SegmentIds}
<1>1. /\ reading = "read" /\ Take /\ reading' \in {"read", "too many"}
      /\ UNCHANGED <<request, terms, pending, failed, clauses, searched>>
      /\ (\E s \in SegmentIds : cursors[s] # {}) /\ CursorsRight /\ OutRight /\ searched = {}
  BY DEF ReadNext, DictInvariant
<1>2. PICK t \in Pool : t = First(rest) /\ t \in rest /\ \A x \in rest \ {t} : IsBefore(t, x)
  <2>1. rest \subseteq Pool /\ rest # {}
    <3>1. \A s \in SegmentIds : cursors[s] \subseteq Pool
      BY DEF DictInvariant
    <3>2. PICK s \in SegmentIds : cursors[s] # {}
      BY <1>1
    <3>3. PICK x \in cursors[s] : TRUE
      BY <3>2
    <3> QED
      BY <3>1, <3>3
  <2>2. rest \subseteq Seq(Nat) /\ IsFiniteSet(rest)
    BY <2>1, PoolIsBytes, FS_Subset
  <2> HIDE DEF rest
  <2>3. First(rest) \in rest /\ \A x \in rest \ {First(rest)} : IsBefore(First(rest), x)
    BY <2>1, <2>2, FirstIsFirst
  <2> QED
    BY <2>1, <2>3
<1>3. /\ out' = Append(out, [term |-> t, count |-> Cardinality({s \in SegmentIds : t \in cursors[s]})])
      /\ cursors' = [s \in SegmentIds |-> cursors[s] \ {t}]
  BY <1>1, <1>2 DEF Take
<1>4. \A s \in SegmentIds : \A x : x \in cursors[s] <=> x \in terms[s] /\ Inside(request, x) /\ x \notin Terms(out)
  BY <1>1 DEF CursorsRight
<1>5. PICK s0 \in SegmentIds : t \in cursors[s0]
  BY <1>2
<1>6. Inside(request, t) /\ t \notin Terms(out) /\ t \in All /\ \A y \in Terms(out) : IsBefore(y, t)
  BY <1>1, <1>4, <1>5 DEF CursorsRight, All
<1>7. {s \in SegmentIds : t \in cursors[s]} = {s \in SegmentIds : t \in terms[s]}
  BY <1>4, <1>6
<1>8. PICK e \in Entry : /\ e.term = t /\ e.count = Cardinality({s \in SegmentIds : t \in terms[s]})
                         /\ out' = Append(out, e)
  <2>1. [term |-> t, count |-> Cardinality({s \in SegmentIds : t \in terms[s]})] \in Entry
    BY DEF Entry
  <2> QED
    BY <2>1, <1>3, <1>7
<1>9. out \in Seq(Entry)
  BY <1>1 DEF OutRight
<1>10. /\ out' \in Seq(Entry) /\ Len(out') = Len(out) + 1 /\ Len(out) \in Nat /\ out'[Len(out) + 1] = e
       /\ \A i \in 1..Len(out) : out'[i] = out[i]
  BY <1>8, <1>9, AppendProperties, LenProperties
<1>11. \A x : x \in Terms(out') <=> x \in Terms(out) \/ x = t
  <2>1. \A x : x \in Terms(out') <=> \E i \in 1..(Len(out) + 1) : x = out'[i].term
    BY <1>10 DEF Terms
  <2>2. \A x : x \in Terms(out) <=> \E i \in 1..Len(out) : x = out[i].term
    BY DEF Terms
  <2>3. /\ \A i \in 1..(Len(out) + 1) : i \in 1..Len(out) \/ i = Len(out) + 1
        /\ \A i \in 1..Len(out) : i \in 1..(Len(out) + 1)
        /\ Len(out) + 1 \in 1..(Len(out) + 1)
    BY <1>10
  <2>4. ASSUME NEW x \in Terms(out) PROVE x \in Terms(out')
    <3>1. PICK i \in 1..Len(out) : x = out[i].term
      BY <2>2
    <3> QED
      BY <3>1, <2>1, <2>3, <1>10
  <2>5. t \in Terms(out')
    BY <2>1, <2>3, <1>8, <1>10
  <2>6. ASSUME NEW x \in Terms(out') PROVE x \in Terms(out) \/ x = t
    <3>1. PICK i \in 1..(Len(out) + 1) : x = out'[i].term
      BY <2>1
    <3> QED
      BY <3>1, <2>2, <2>3, <1>8, <1>10
  <2> QED
    BY <2>4, <2>5, <2>6
<1>12. OutRight'
  <2>1. \A i, j \in 1..Len(out') : i < j => IsBefore(out'[i].term, out'[j].term)
    <3>1. SUFFICES ASSUME NEW i \in 1..Len(out'), NEW j \in 1..Len(out'), i < j
                   PROVE  IsBefore(out'[i].term, out'[j].term)
      OBVIOUS
    <3>2. i \in 1..Len(out) /\ (j \in 1..Len(out) \/ j = Len(out) + 1)
      BY <3>1, <1>10
    <3>3. CASE j \in 1..Len(out)
      BY <3>1, <3>2, <3>3, <1>1, <1>10 DEF OutRight
    <3>4. CASE j = Len(out) + 1
      <4>1. out[i].term \in Terms(out)
        BY <3>2 DEF Terms
      <4> QED
        BY <4>1, <3>2, <3>4, <1>6, <1>8, <1>10
    <3> QED
      BY <3>2, <3>3, <3>4
  <2>2. \A i \in 1..Len(out') : out'[i].count = Cardinality({s \in SegmentIds : out'[i].term \in terms[s]})
    <3>1. SUFFICES ASSUME NEW i \in 1..Len(out')
                   PROVE  out'[i].count = Cardinality({s \in SegmentIds : out'[i].term \in terms[s]})
      OBVIOUS
    <3>2. CASE i \in 1..Len(out)
      BY <3>2, <1>1, <1>10 DEF OutRight
    <3>3. CASE i \notin 1..Len(out)
      <4>1. i = Len(out) + 1
        BY <3>3, <1>10
      <4> QED
        BY <4>1, <1>8, <1>10
    <3> QED
      BY <3>2, <3>3
  <2>3. \A x \in Terms(out') : x \in All /\ Inside(request, x)
    BY <1>1, <1>6, <1>11 DEF OutRight
  <2>4. All' = All
    BY <1>1 DEF All
  <2> QED
    BY <2>1, <2>2, <2>3, <2>4, <1>1, <1>10 DEF OutRight
<1>13. cursors' \in [SegmentIds -> SUBSET Pool] /\ \A s \in SegmentIds : cursors'[s] = cursors[s] \ {t}
  BY <1>3 DEF DictInvariant
<1>14. CursorsRight'
  <2>1. ASSUME NEW s \in SegmentIds, NEW x
        PROVE  /\ x \in cursors'[s] <=> x \in terms[s] /\ Inside(request, x) /\ x \notin Terms(out')
               /\ x \in cursors'[s] => \A y \in Terms(out') : IsBefore(y, x)
    <3>1. x \in cursors'[s] <=> x \in terms[s] /\ Inside(request, x) /\ x \notin Terms(out')
      BY <1>4, <1>11, <1>13
    <3>2. ASSUME x \in cursors'[s], NEW y \in Terms(out') PROVE IsBefore(y, x)
      <4>1. x \in cursors[s] /\ x \in rest /\ x # t
        BY <3>2, <1>13
      <4>2. \A z \in Terms(out) : IsBefore(z, x)
        BY <4>1, <1>1 DEF CursorsRight
      <4> QED
        BY <4>1, <4>2, <3>2, <1>2, <1>11
    <3> QED
      BY <3>1, <3>2
  <2> QED
    BY <2>1, <1>1 DEF CursorsRight
<1> QED
  BY <1>1, <1>12, <1>13, <1>14 DEF DictInvariant

\* All is read: the terms are those between the ends.
LEMMA ReadAllKeeps ==
  ASSUME DictAssumption, DictInvariant, ReadAll
  PROVE  DictInvariant'
<1>1. /\ reading = "read" /\ (\A s \in SegmentIds : cursors[s] = {}) /\ clauses' = Chosen
      /\ reading' \in {"too many", "search"}
      /\ UNCHANGED <<request, terms, pending, failed, cursors, out, searched>>
      /\ CursorsRight /\ searched = {}
  BY DEF ReadAll, DictInvariant
<1>2. OutRight' /\ Chosen' = Chosen /\ All' = All
  BY <1>1, OutKept DEF DictInvariant
<1>3. \A x \in All : Inside(request, x) => x \in Terms(out)
  BY <1>1 DEF CursorsRight, All
<1>4. clauses' \in Seq(Seq(Nat))
  BY <1>1, ChosenIsList
<1>5. searched' \cup ToSet(clauses') = ToSet(Chosen')
  BY <1>1, <1>2
<1> QED
  BY <1>1, <1>2, <1>3, <1>4, <1>5 DEF DictInvariant

\* Batch by batch, or all at once.
LEMMA SearchKeeps ==
  ASSUME DictAssumption, DictInvariant, Search
  PROVE  DictInvariant'
<1>1. /\ reading = "search" /\ UNCHANGED <<request, terms, pending, failed, cursors, out>>
      /\ \/ reading' = "too many" /\ UNCHANGED <<clauses, searched>>
         \/ BatchNext /\ reading' = IF Len(clauses) <= MaxClauses THEN "done" ELSE "search"
         \/ searched = {} /\ searched' = ToSet(clauses) /\ clauses' = <<>> /\ reading' = "done"
  BY DEF Search
<1>2. OutRight' /\ Chosen' = Chosen /\ All' = All
  BY <1>1, OutKept DEF DictInvariant
<1>3. /\ \A x \in All : Inside(request, x) => x \in Terms(out)
      /\ searched \cup ToSet(clauses) = ToSet(Chosen) /\ clauses \in Seq(Seq(Nat))
  BY <1>1 DEF DictInvariant
<1>4. /\ clauses' \in Seq(Seq(Nat)) /\ reading' \in {"too many", "search", "done"}
      /\ reading' # "too many" => searched' \cup ToSet(clauses') = ToSet(Chosen)
      /\ reading' = "done" => ToSet(clauses') = {}
  <2>1. CASE reading' = "too many" /\ UNCHANGED <<clauses, searched>>
    BY <2>1, <1>3
  <2>2. CASE BatchNext /\ reading' = IF Len(clauses) <= MaxClauses THEN "done" ELSE "search"
    <3>1. PICK cs \in Seq(Seq(Nat)) : cs = clauses
      BY <1>3
    <3>2. /\ ToSet(BatchOf(cs)) \cup ToSet(SubSeq(cs, MaxClauses + 1, Len(cs))) = ToSet(cs)
          /\ SubSeq(cs, MaxClauses + 1, Len(cs)) \in Seq(Seq(Nat))
          /\ Len(cs) <= MaxClauses => ToSet(SubSeq(cs, MaxClauses + 1, Len(cs))) = {}
      BY BatchRight
    <3>3. searched' = searched \cup ToSet(BatchOf(cs)) /\ clauses' = SubSeq(cs, MaxClauses + 1, Len(cs))
      BY <2>2, <3>1 DEF BatchNext
    <3>4. searched' \cup ToSet(clauses') = searched \cup ToSet(cs)
      BY <3>2, <3>3
    <3> QED
      BY <2>2, <3>1, <3>2, <3>3, <3>4, <1>3
  <2>3. CASE searched = {} /\ searched' = ToSet(clauses) /\ clauses' = <<>> /\ reading' = "done"
    <3>1. PICK cs \in Seq(Seq(Nat)) : cs = <<>> /\ Len(cs) = 0
      BY EmptySeq
    <3>2. \A x : x \notin ToSet(cs)
      <4>1. \A x : x \in ToSet(cs) => \E i \in 1..Len(cs) : x = cs[i]
        BY ToSetMeans
      <4> QED
        BY <4>1, <3>1
    <3> QED
      BY <2>3, <3>1, <3>2, <1>3
  <2> QED
    BY <1>1, <2>1, <2>2, <2>3
<1> QED
  BY <1>1, <1>2, <1>3, <1>4 DEF DictInvariant

LEMMA NextDictInvariant == DictAssumption /\ DictInvariant /\ [DictNext]_dictVars => DictInvariant'
<1> SUFFICES ASSUME DictAssumption, DictInvariant, [DictNext]_dictVars PROVE DictInvariant'
  OBVIOUS
<1>1. ASSUME NEW s \in SegmentIds, Answer(s) PROVE DictInvariant'
  BY <1>1, AnswerKeeps
<1>2. ASSUME NEW s \in SegmentIds, AnswerFails(s) PROVE DictInvariant'
  BY <1>2, AnswerFailsKeeps
<1>3. CASE Collected
  BY <1>3, CollectedKeeps
<1>4. CASE ReadNext
  BY <1>4, ReadNextKeeps
<1>5. CASE ReadAll
  BY <1>5, ReadAllKeeps
<1>6. CASE Search
  BY <1>6, SearchKeeps
<1>7. CASE UNCHANGED dictVars
  <2>1. UNCHANGED <<request, terms, pending, failed, cursors, out, clauses, searched, reading>>
    BY <1>7 DEF dictVars
  <2>2. OutRight' /\ Chosen' = Chosen /\ All' = All
    BY <2>1, OutKept DEF DictInvariant
  <2>3. CursorsRight' = CursorsRight
    BY <2>1 DEF CursorsRight
  <2> QED
    BY <2>1, <2>2, <2>3 DEF DictInvariant
<1> QED
  BY <1>1, <1>2, <1>3, <1>4, <1>5, <1>6, <1>7 DEF DictNext

\* What is wanted of the terms inside.
LEMMA SearchedIsWanted ==
  ASSUME DictAssumption, DictInvariant, OfText, reading = "done"
  PROVE  SearchExact
<1>1. SUFFICES ASSUME request.kind \in {"all", "prefix", "termrange"}
               PROVE  \/ searched = Wanted(request, All)
                      \/ request.kind = "prefix" /\ Wanted(request, All) = {} /\ searched = {request.a}
  BY DEF SearchExact
<1>2. searched = ToSet(Chosen) /\ request \in Requests /\ OutRight /\ out \in Seq(Entry)
  BY DEF DictInvariant, OutRight
<1>3. \A x : x \in Terms(out) <=> x \in All /\ Inside(request, x)
  BY DEF DictInvariant, OutRight
<1>4. ToSet(TermList(out)) = Terms(out)
  BY <1>2, TermsMeans
<1>5. \A x \in All : x \in Bytes /\ IsText(x) /\ x \in Seq(Nat)
  <2>1. \A x \in All : x \in Pool
    BY DEF DictInvariant, All
  <2>2. \A x \in All : x = Unbounded \/ IsText(x)
    BY DEF OfText
  <2> QED
    BY <2>1, <2>2, PoolIsBytes, BytesAreNumbers
<1>6. IsText(request.a)
  BY <1>2, RequestMeans, BytesAreNumbers DEF OfText
<1>7. CASE request.kind = "all"
  <2>1. Wanted(request, All) = All /\ Chosen = TermList(out)
    BY <1>7 DEF Wanted, Chosen
  <2>2. \A x \in All : Inside(request, x)
    BY <1>2, <1>5, <1>6, <1>7, TextInside
  <2>3. \A x : x \in Terms(out) <=> x \in All
    BY <1>3, <2>2
  <2> QED
    BY <2>1, <2>3, <1>2, <1>4
<1>8. CASE request.kind = "prefix"
  <2>1. \A x : x \in Wanted(request, All) <=> x \in All /\ IsPrefix(request.a, x)
    BY <1>8 DEF Wanted
  <2>2. \A x \in All : Inside(request, x) <=> IsPrefix(request.a, x)
    BY <1>2, <1>5, <1>6, <1>8, TextInside
  <2>3. Wanted(request, All) = Terms(out)
    BY <1>3, <2>1, <2>2
  <2>4. CASE out = <<>>
    <3>1. Chosen = <<request.a>> /\ Terms(out) = {}
      BY <1>8, <2>4, EmptySeq DEF Chosen, Terms
    <3>2. ToSet(<<request.a>>) = {request.a}
      BY DEF ToSet
    <3> QED
      BY <3>1, <3>2, <2>3, <1>2, <1>8
  <2>5. CASE out # <<>>
    <3>1. Chosen = TermList(out)
      BY <1>8, <2>5 DEF Chosen
    <3> QED
      BY <3>1, <2>3, <1>2, <1>4
  <2> QED
    BY <2>4, <2>5
<1>9. CASE request.kind = "termrange"
  <2>1. PICK ts \in Seq(Seq(Nat)) : ts = TermList(out)
    <3>1. TermList(out) \in Seq(Pool)
      BY <1>2, TermsMeans
    <3> QED
      BY <3>1, PoolIsBytes
  <2>2. SortedTerms(ts)
    <3>1. Len(ts) = Len(out) /\ \A i \in 1..Len(out) : ts[i] = out[i].term
      BY <2>1, <1>2, TermsMeans
    <3> QED
      BY <3>1, <1>2 DEF OutRight, SortedTerms
  <2>3. \A x \in All : Inside(request, x) <=> ~IsBefore(x, request.a) /\ ~IsBefore(request.b, x)
    BY <1>2, <1>5, <1>6, <1>9, TextInside
  <2>4. \A x : x \in ToSet(ts) <=> x \in All /\ ~IsBefore(x, request.a) /\ ~IsBefore(request.b, x)
    BY <2>1, <2>3, <1>3, <1>4
  <2>5. request.incMin \in BOOLEAN /\ request.incMax \in BOOLEAN
    BY <1>2, RequestMeans
  <2>6. \A x : x \in ToSet(RangeTerms(request, ts)) <=> /\ x \in ToSet(ts) /\ (~request.incMin => x # request.a)
                                                        /\ (~request.incMax => x # request.b)
    BY <2>2, <2>4, <2>5, RangeTermsRight
  <2>7. searched = ToSet(RangeTerms(request, ts))
    BY <1>2, <1>9, <2>1 DEF Chosen
  <2>8. request.a \in Seq(Nat) /\ request.b \in Seq(Nat)
    BY <1>2, <1>9, RequestMeans, BytesAreNumbers
  <2>9. \A x \in All : /\ (IsBefore(request.a, x) <=> ~IsBefore(x, request.a) /\ x # request.a)
                       /\ (IsBefore(x, request.b) <=> ~IsBefore(request.b, x) /\ x # request.b)
    BY <2>8, <1>5, NotBoth, OneIsBefore
  <2>10. \A x : x \in Wanted(request, All) <=>
           /\ x \in All
           /\ IF request.incMin THEN ~IsBefore(x, request.a) ELSE IsBefore(request.a, x)
           /\ IF request.incMax THEN ~IsBefore(request.b, x) ELSE IsBefore(x, request.b)
    BY <1>9 DEF Wanted
  <2>11. \A x : x \in Wanted(request, All) <=> x \in ToSet(RangeTerms(request, ts))
    BY <2>4, <2>5, <2>6, <2>9, <2>10
  <2> QED
    BY <2>7, <2>11
<1> QED
  BY <1>1, <1>7, <1>8, <1>9

\* Nothing that is wanted is left out, whatever the bytes.
LEMMA NothingLeftOut ==
  ASSUME DictAssumption, DictInvariant
  PROVE  SearchComplete
<1>1. SUFFICES ASSUME reading = "done", request.kind \in {"all", "prefix", "termrange"},
                      NEW x \in Wanted(request, All)
               PROVE  x \in searched
  BY DEF SearchComplete
<1>2. searched = ToSet(Chosen) /\ request \in Requests /\ OutRight /\ out \in Seq(Entry)
  BY <1>1 DEF DictInvariant, OutRight
<1>3. x \in All
  BY <1>1 DEF Wanted
<1>4. x \in Bytes /\ x \in Seq(Nat)
  BY <1>3, PoolIsBytes DEF DictInvariant, All
<1>5. request.a \in Seq(Nat) /\ request.incMin \in BOOLEAN /\ request.incMax \in BOOLEAN
  BY <1>2, RequestMeans
<1>6. request.kind = "termrange" =>
        /\ ~IsBefore(x, request.a) /\ ~IsBefore(request.b, x)
        /\ (~request.incMin => x # request.a) /\ (~request.incMax => x # request.b)
  <2>1. request.kind = "termrange" => request.b \in Seq(Nat)
    BY <1>2, <1>4, RequestMeans, BytesAreNumbers
  <2> QED
    BY <1>1, <1>4, <1>5, <2>1, NotBoth DEF Wanted
<1>7. Inside(request, x)
  BY <1>1, <1>2, <1>4, <1>6, WantedInside DEF Wanted
<1>8. PICK ts \in Seq(Seq(Nat)) : ts = TermList(out) /\ x \in ToSet(ts)
  <2>1. TermList(out) \in Seq(Pool) /\ ToSet(TermList(out)) = Terms(out)
    BY <1>2, TermsMeans
  <2>2. x \in Terms(out)
    BY <1>1, <1>3, <1>7 DEF DictInvariant, OutRight
  <2> QED
    BY <2>1, <2>2, PoolIsBytes
<1>9. out # <<>>
  BY <1>2, <1>8, TermsMeans, EmptySeq DEF Terms
<1> QED
  BY <1>1, <1>2, <1>5, <1>6, <1>8, <1>9, RangeTermsKeep DEF Chosen

LEMMA InvariantIsExact == DictAssumption /\ DictInvariant => DictionariesExact
<1> SUFFICES ASSUME DictAssumption, DictInvariant PROVE DictionariesExact
  OBVIOUS
<1>0. OutRight /\ out \in Seq(Entry) /\ request \in Requests
  BY DEF DictInvariant, OutRight
<1>1. EachOnceInOrder
  <2>1. ASSUME NEW i \in 1..Len(out)
        PROVE  /\ i > 1 => IsBefore(out[i - 1].term, out[i].term)
               /\ out[i].count = Cardinality({s \in SegmentIds : out[i].term \in terms[s]})
    <3>1. out[i].count = Cardinality({s \in SegmentIds : out[i].term \in terms[s]})
      BY <1>0 DEF OutRight
    <3>2. ASSUME i > 1 PROVE IsBefore(out[i - 1].term, out[i].term)
      <4>1. i - 1 \in 1..Len(out) /\ i - 1 < i
        BY <3>2, <1>0, LenProperties
      <4> QED
        BY <4>1, <1>0 DEF OutRight
    <3> QED
      BY <3>1, <3>2
  <2> QED
    BY <2>1 DEF EachOnceInOrder
<1>2. \A x \in All : x \in Pool /\ x \in Bytes /\ x \in Seq(Nat)
  <2>1. \A x \in All : x \in Pool
    BY DEF DictInvariant, All
  <2> QED
    BY <2>1, PoolIsBytes
<1>3. ASSUME reading \in {"search", "done"} PROVE \A x : x \in Terms(out) <=> x \in All /\ Inside(request, x)
  BY <1>3 DEF DictInvariant, OutRight
<1>4. RangeComplete
  <2>1. SUFFICES ASSUME reading \in {"search", "done"}, request.kind = "range"
                 PROVE  /\ Wanted(request, All) \subseteq Terms(out)
                        /\ \A t \in Terms(out) : ~IsBefore(t, request.a)
    BY DEF RangeComplete
  <2>2. \A x \in All : /\ ~IsBefore(x, request.a) /\ ~IsBefore(request.b, x) => Inside(request, x)
                       /\ Inside(request, x) => ~IsBefore(x, request.a)
    BY <1>0, <1>2, <2>1, RangeInside
  <2>3. \A x : x \in Wanted(request, All) <=> x \in All /\ ~IsBefore(x, request.a) /\ ~IsBefore(request.b, x)
    BY <2>1 DEF Wanted
  <2> QED
    BY <2>1, <2>2, <2>3, <1>3
<1>5. ASSUME OfText PROVE SearchExact
  <2>1. CASE reading = "done"
    BY <2>1, <1>5, SearchedIsWanted
  <2>2. CASE reading # "done"
    BY <2>2 DEF SearchExact
  <2> QED
    BY <2>1, <2>2
<1>6. ASSUME OfText, ~(request.kind = "prefix" /\ request.a = <<>>) PROVE EnginesAgree
  <2>1. SUFFICES ASSUME reading \in {"search", "done"} PROVE Terms(out) = UdTerms(request, All)
    BY DEF EnginesAgree
  <2>2. \A x \in All : x \in Bytes /\ IsText(x)
    BY <1>2, <1>6, BytesAreNumbers DEF OfText
  <2>3. IsText(request.a)
    BY <1>0, <1>6, RequestMeans, BytesAreNumbers DEF OfText
  <2>4. request.kind \in {"range", "termrange"} => request.b = Unbounded \/ IsText(request.b)
    BY <1>6 DEF OfText
  <2>5. All \subseteq Bytes
    BY <2>2
  <2>6. UdTerms(request, All) = InSegment(request, All)
    BY <2>2, <2>3, <2>4, <2>5, <1>0, <1>6, UpsidedownReads
  <2>7. \A x : x \in Terms(out) <=> x \in InSegment(request, All)
    BY <2>1, <1>3, InSegmentMeans
  <2> QED
    BY <2>6, <2>7
<1> QED
  BY <1>1, <1>4, <1>5, <1>6, NothingLeftOut DEF DictionariesExact

\* The cursors of the segments have just what the request asks for and is not
\* returned yet, in every reachable state; what is returned is in order and has
\* the documents of all segments; and what is searched for and left to search
\* for is what was chosen: for any terms, segments, requests and failures.
THEOREM DictionariesInvariant ==
  ASSUME DictAssumption
  PROVE  DictSpec => []DictInvariant
<1>1. DictInit => DictInvariant
  BY InitDictInvariant
<1>2. DictInvariant /\ [DictNext]_dictVars => DictInvariant'
  BY NextDictInvariant
<1> QED
  BY <1>1, <1>2, PTL DEF DictSpec

\* snapshot_index_dict.go: Next merges the dictionaries of the segments with
\* each term once, in order and with its documents; over texts, a search for a
\* prefix or a range of terms looks for just the terms of it, in one disjunction
\* or in batches, and upsidedown's field_dict.go reads the same terms.
THEOREM DictionariesAlwaysExact ==
  ASSUME DictAssumption
  PROVE  DictSpec => []DictionariesExact
<1>1. DictInvariant => DictionariesExact
  BY InvariantIsExact
<1> QED
  BY <1>1, DictionariesInvariant, PTL
============================================================================
