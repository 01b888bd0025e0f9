------------------------- MODULE ScorchStoreProofs -------------------------
(***************************************************************************)
(* The files of a scorch index stay as long as they are needed, and what   *)
(* it shows after a crash or a rollback: proofs, for any batches and       *)
(* bounds, that ScorchStore implements DurableIndex, that a batch reported *)
(* persisted survives a crash, and that every snapshot in root.bolt shows  *)
(* what readers saw after the batches it says it has.  They are about an   *)
(* index with the default flush of its in-memory segments whose root.bolt  *)
(* transactions commit (PlainStore); ScorchStore has the runs that show    *)
(* what else may happen.                                                   *)
(***************************************************************************)
EXTENDS ScorchStoreInvariants

---------------------------------------------------------------------------
(* The largest number of a set of numbers *)

LEMMA MaxIs ==
  ASSUME NEW S, S \subseteq Nat, S # {}, NEW n \in Nat, \A x \in S : x <= n
  PROVE  Max(S) \in S /\ \A y \in S : y <= Max(S)
<1> DEFINE U == {m \in Nat : \A x \in S : x <= m}
<1>1. PICK m \in U : \A k \in U : m <= k
  <2>1. n \in U /\ U \subseteq Nat
    OBVIOUS
  <2> HIDE DEF U
  <2> QED
    BY <2>1, LeastExists
<1>2. m \in S
  <2>1. SUFFICES ASSUME m \notin S PROVE FALSE
    OBVIOUS
  <2>2. \A x \in S : x <= m - 1
    BY <2>1
  <2>3. m - 1 \in Nat
    <3>1. PICK x \in S : TRUE
      OBVIOUS
    <3> QED
      BY <2>2, <3>1
  <2>4. m - 1 \in U
    BY <2>2, <2>3
  <2> QED
    BY <1>1, <2>4
<1>3. \E x \in S : \A y \in S : x >= y
  BY <1>2
<1> QED
  BY <1>3 DEF Max

LEMMA MaxOf ==
  ASSUME NEW S, S \subseteq Nat, NEW n \in S, \A x \in S : x <= n
  PROVE  Max(S) = n
<1>1. n \in Nat /\ S # {}
  OBVIOUS
<1>2. Max(S) \in S /\ \A y \in S : y <= Max(S)
  BY <1>1, MaxIs
<1>3. Max(S) <= n /\ n <= Max(S) /\ Max(S) \in Nat
  BY <1>2
<1> QED
  BY <1>1, <1>3

---------------------------------------------------------------------------
(* Facts of the state *)

LEMMA DocumentsOf ==
  ASSUME NEW b \in Batch
  PROVE  /\ Durable!DocsOf(b) \subseteq Documents
         /\ IsFiniteSet(Durable!DocsOf(b))
<1> DEFINE D == {j \in DOMAIN b : b[j] # NoVal}
           f == [i \in D |-> [id |-> i, val |-> b[i]]]
<1>1. IsFiniteSet(D)
  BY StoreAssumption, FS_Subset
<1>2. Durable!DocsOf(b) = {f[i] : i \in D}
  BY DEF Durable!DocsOf, Durable!Ids
<1>3. IsFiniteSet({f[i] : i \in D})
  <2> HIDE DEF f, D
  <2> QED
    BY <1>1, ImageFinite
<1> QED
  BY <1>2, <1>3 DEF Documents

LEMMA BucketStays ==
  ASSUME NEW fs, NEW next, NEW bucket, IsBucket(fs, bucket),
         \A s \in DOMAIN bucket.segs : s \in DOMAIN next /\ next[s] = fs[s]
  PROVE  IsBucket(next, bucket)
  BY DEF IsBucket

LEMMA BucketNames ==
  ASSUME NEW fs, NEW bucket, IsBucket(fs, bucket), NEW s \in DOMAIN bucket.segs
  PROVE  bucket.segs[s].path /\ s \in DOMAIN fs
<1>1. bucket.segs[s] = [path |-> TRUE, del |-> bucket.segs[s].del] /\ s \in DOMAIN fs
  BY DEF IsBucket
<1> QED
  BY <1>1

\* Every version is of a segment whose id was handed out.
LEMMA VersionIDs ==
  ASSUME FreshIDs
  PROVE  \A p \in Versions : p[1] \in 1 .. ids
  BY DEF FreshIDs, Versions, VersionsIn, VersionsOfMerge, Pending, Settled

\* What a step adds is of one new segment.
LEMMA VersionsStep ==
  ASSUME FreshIDs, OneVersion, NEW id, NEW docs, id \notin 1 .. ids,
         Versions' \subseteq Versions \cup {<<id, docs>>}
  PROVE  OneVersion'
<1>1. \A p \in Versions : p[1] # id
  BY VersionIDs
<1> HIDE DEF Versions
<1>2. SUFFICES ASSUME NEW p \in Versions', NEW q \in Versions', p[1] = q[1]
               PROVE  p[2] = q[2]
  BY DEF OneVersion
<1> QED
  BY <1>1, <1>2 DEF OneVersion

LEMMA NoNewVersions ==
  ASSUME OneVersion, Versions' \subseteq Versions
  PROVE  OneVersion'
  BY DEF OneVersion

LEMMA NewestIs ==
  ASSUME TypeOK, EpochsInOrder, DOMAIN bolt # {}
  PROVE  /\ Max(DOMAIN bolt) \in DOMAIN bolt
         /\ \A e \in DOMAIN bolt : e <= Max(DOMAIN bolt)
<1>1. root.epoch \in Nat /\ DOMAIN bolt \subseteq Nat
      /\ \A e \in DOMAIN bolt : e <= root.epoch
  BY DEF TypeOK, IsSnapshot, EpochsInOrder
<1> QED
  BY <1>1, MaxIs

---------------------------------------------------------------------------
(* The persister's own steps *)

LEMMA NoSnapshotType == IsSnapshot(NoSnapshot)
  BY NoSegsType DEF IsSnapshot, NoSnapshot, IndexSnapshot

LEMMA RestingType ==
  ASSUME NEW epoch \in Nat, NEW callbacks \in SUBSET Nat
  PROVE  IsPersister(Resting(epoch, callbacks))
  BY NoMergeType, NoSegsType, NoSnapshotType DEF IsPersister, Resting

LEMMA NoTaskType == IsMerger(NoTask)
  BY NoMergeType, NoSegsType DEF IsMerger, NoTask

LEMMA InitKeeps == Init => FilesInv
<1> SUFFICES ASSUME Init PROVE FilesInv
  OBVIOUS
<1>1. TypeOK
  BY NoSnapshotType, RestingType, NoTaskType DEF Init, TypeOK, NoSegs
<1>2. Pending = {} /\ NoSegs = [s \in {} |-> {}] /\ DOMAIN NoSegs = {}
  BY DEF Init, Pending, Resting, NoTask, NoMerge, NoSegs
<1>3. FreshIDs
  BY <1>2 DEF Init, FreshIDs, Resting, NoTask, NoMerge, NoSnapshot, IndexSnapshot
<1>4. Versions = {}
  BY <1>2 DEF Init, Versions, VersionsIn, VersionsOfMerge, Resting, NoTask,
              NoMerge, NoSnapshot, IndexSnapshot
<1>5. EpochsInOrder /\ EquivOfSnapshot
  BY <1>2 DEF Init, EpochsInOrder, EquivOfSnapshot, Corresponds, Active, EquivBuilt,
              Resting, NoSnapshot, IndexSnapshot
<1>6. FilesWritten /\ MergedAway /\ RootKept /\ CopiedFilesStay
  BY <1>2 DEF Init, FilesWritten, MergedAway, RootKept, CopiedFilesStay, Active,
              EquivBuilt, FileSegs, Resting, NoTask, NoSnapshot, IndexSnapshot
<1> QED
  BY <1>1, <1>3, <1>4, <1>5, <1>6 DEF FilesInv, OneVersion

LEMMA PersisterTakesSnapshotKeeps ==
  ASSUME FilesInv, PersisterTakesSnapshot
  PROVE  FilesInv'
<1> USE DEF FilesInv, PersisterTakesSnapshot
<1>1. /\ persister'.pc = "taken" /\ persister'.snap = root
      /\ persister'.equiv = persister.equiv /\ persister'.exclude = {}
      /\ persister'.merge = persister.merge /\ persister.merge = NoMerge
  BY DEF TypeOK, IsPersister
<1>2. TypeOK'
  <2>1. IsPersister(persister')
    BY <1>1 DEF TypeOK, IsPersister, IsSnapshot
  <2>2. UNCHANGED <<files, bolt, root, ids, removal, merger, copy>> /\ waiting' \subseteq Nat
    BY DEF TypeOK
  <2> QED
    BY <2>1, <2>2 DEF TypeOK
<1>3. FreshIDs'
  BY <1>1 DEF FreshIDs, Pending, Settled
<1>4. OneVersion'
  <2>1. Versions' \subseteq Versions
    BY <1>1 DEF Versions
  <2> QED
    BY <2>1, NoNewVersions
<1>5. EpochsInOrder'
  BY <1>1 DEF EpochsInOrder, Corresponds, Active, TypeOK, IsSnapshot, IsPersister
<1>6. EquivOfSnapshot'
  BY <1>1 DEF EquivOfSnapshot, EquivBuilt
<1>7. FilesWritten'
  BY <1>1 DEF FilesWritten, Active, EquivBuilt, Pending, RootKept
<1>8. RootKept'
  BY <1>1 DEF RootKept, KeptFor, InNewest, NamedBy, Active
<1> QED
  BY <1>2, <1>3, <1>4, <1>5, <1>6, <1>7, <1>8 DEF MergedAway, CopiedFilesStay

LEMMA PersistDirectlyKeeps ==
  ASSUME FilesInv, PersistDirectly
  PROVE  FilesInv'
<1> USE DEF FilesInv, PersistDirectly
<1>1. /\ persister.pc = "taken" /\ persister'.pc = "direct"
      /\ persister'.snap = persister.snap
      /\ persister'.equiv = persister.snap.segs /\ persister'.exclude = {}
      /\ persister'.merge = persister.merge /\ persister.merge = NoMerge
  BY DEF TypeOK, IsPersister
<1>2. TypeOK'
  <2>1. IsPersister(persister')
    BY <1>1 DEF TypeOK, IsPersister, IsSnapshot
  <2>2. UNCHANGED <<files, bolt, root, ids, removal, merger, copy>> /\ waiting' \subseteq Nat
    BY DEF TypeOK
  <2> QED
    BY <2>1, <2>2 DEF TypeOK
<1>3. FreshIDs'
  BY <1>1 DEF FreshIDs, Pending, Settled
<1>4. OneVersion'
  <2>1. Versions' \subseteq Versions
    BY <1>1 DEF Versions
  <2> QED
    BY <2>1, NoNewVersions
<1>5. EpochsInOrder'
  BY <1>1 DEF EpochsInOrder, Corresponds, Active
<1>6. EquivOfSnapshot'
  BY <1>1 DEF EquivOfSnapshot, EquivBuilt
<1>7. FilesWritten'
  BY <1>1 DEF FilesWritten, Active, EquivBuilt, Pending
<1>8. RootKept'
  BY <1>1 DEF RootKept, KeptFor, InNewest, NamedBy, Active
<1> QED
  BY <1>2, <1>3, <1>4, <1>5, <1>6, <1>7, <1>8 DEF MergedAway, CopiedFilesStay

\* With the default flush one worker merges all the in-memory segments.
LEMMA OneFlush ==
  ASSUME PlainStore, TypeOK, MergeInMemory
  PROVE  \E into :
           /\ DOMAIN into = MemSegs(persister.snap.segs) /\ DOMAIN into # {}
           /\ \A s \in DOMAIN into : into[s] = ids + 1
           /\ ids' = ids + 1
           /\ persister' = [persister EXCEPT !.pc = "merging",
                              !.merge = SegmentMerge(persister.snap.segs, into)]
           /\ files' = Joined(SegmentMerge(persister.snap.segs, into).new, files)
           /\ removal' = Marked({ids + 1})
<1> DEFINE segs == persister.snap.segs
<1>1. NumPersisterWorkers = 1 /\ ids \in Nat
  BY StoreAssumption DEF PlainStore, TypeOK
<1>2. ids + 1 .. ids + 1 = {ids + 1}
  BY <1>1
<1>3. PICK into \in FlushSets(segs, {ids + 1}) :
        /\ ids' = ids + 1
        /\ persister' = [persister EXCEPT !.pc = "merging",
                           !.merge = SegmentMerge(segs, into)]
        /\ files' = Joined(SegmentMerge(segs, into).new,
                           Joined([id \in {ids + 1} |-> NoSegs], files))
        /\ removal' = Marked({ids + 1})
  <2>1. PICK k \in 1 .. NumPersisterWorkers :
          LET new == ids + 1 .. ids + k
          IN  /\ ids' = ids + k
              /\ \E into \in FlushSets(segs, new) :
                   LET merge == SegmentMerge(segs, into)
                   IN  /\ persister' = [persister EXCEPT !.pc = "merging",
                                                         !.merge = merge]
                       /\ files' = Joined(merge.new,
                                          Joined([id \in new |-> NoSegs], files))
                       /\ removal' = Marked(new)
    BY DEF MergeInMemory
  <2>2. k = 1
    BY <1>1
  <2> QED
    BY <1>2, <2>1, <2>2
<1>4. /\ into \in UNION {[M -> {ids + 1}] : M \in SUBSET MemSegs(segs)}
      /\ Cardinality(DOMAIN into) >= 2
      /\ DOMAIN into = MemSegs(segs)
  BY <1>3 DEF FlushSets, PlainStore
<1>5. DOMAIN into # {}
  BY <1>4, FS_EmptySet
<1>6. \A s \in DOMAIN into : into[s] = ids + 1
  BY <1>4
<1>7. DOMAIN SegmentMerge(segs, into).new = {ids + 1}
  <2>1. DOMAIN SegmentMerge(segs, into).new = {into[s] : s \in DOMAIN into}
    BY SegmentMergeIDs
  <2>2. PICK s \in DOMAIN into : TRUE
    BY <1>5
  <2> QED
    BY <1>6, <2>1, <2>2
<1>8. Joined(SegmentMerge(segs, into).new,
             Joined([id \in {ids + 1} |-> NoSegs], files))
        = Joined(SegmentMerge(segs, into).new, files)
  BY <1>7 DEF Joined
<1> QED
  BY <1>3, <1>4, <1>5, <1>6, <1>8

LEMMA MergeInMemoryKeeps ==
  ASSUME PlainStore, FilesInv, MergeInMemory
  PROVE  FilesInv'
<1> USE DEF FilesInv
<1> DEFINE segs == persister.snap.segs
<1>1. PICK into :
        /\ DOMAIN into = MemSegs(segs) /\ DOMAIN into # {}
        /\ \A s \in DOMAIN into : into[s] = ids + 1
        /\ ids' = ids + 1
        /\ persister' = [persister EXCEPT !.pc = "merging",
                           !.merge = SegmentMerge(segs, into)]
        /\ files' = Joined(SegmentMerge(segs, into).new, files)
        /\ removal' = Marked({ids + 1})
  BY OneFlush
<1> DEFINE merge == SegmentMerge(segs, into)
           docs  == merge.new[ids + 1]
<1>2. /\ IsMerge(Documents, merge)
      /\ DOMAIN merge.new = {ids + 1}
      /\ DOMAIN merge.hist = MemSegs(segs)
      /\ \A s \in MemSegs(segs) : merge.hist[s].old = segs[s]
  <2>1. IsSegs(Documents, segs) /\ DOMAIN into \subseteq DOMAIN segs
    BY <1>1 DEF TypeOK, IsPersister, IsSnapshot, MemSegs
  <2>2. ids + 1 \in SegmentID
    BY DEF TypeOK, SegmentID
  <2> QED
    BY <1>1, <2>1, <2>2, MergedIntoOne
<1> HIDE DEF merge
<1>3. /\ persister' = [persister EXCEPT !.pc = "merging", !.merge = merge]
      /\ persister.pc = "taken" /\ persister'.pc = "merging"
      /\ persister'.snap = persister.snap /\ persister'.equiv = persister.equiv
      /\ persister'.exclude = {} /\ persister'.merge = merge
      /\ persister.merge = NoMerge
  BY <1>1 DEF MergeInMemory, TypeOK, IsPersister, merge
<1>4. /\ UNCHANGED <<bolt, root, waiting, merger, copy>>
      /\ ids \in Nat /\ ids' = ids + 1 /\ ids + 1 \notin DOMAIN files
      /\ removal' = Marked({ids + 1})
  BY <1>1 DEF MergeInMemory, TypeOK, FreshIDs
<1>5. /\ files' = [s \in DOMAIN files' |-> files'[s]]
      /\ DOMAIN files' = DOMAIN files \cup {ids + 1}
      /\ \A s \in DOMAIN files : files'[s] = files[s]
      /\ files'[ids + 1] = docs
      /\ \A s \in DOMAIN files' : IsDocs(Documents, files'[s])
  <2>1. files' = Joined(merge.new, files)
    BY <1>1 DEF merge
  <2>2. IsDocs(Documents, docs)
    BY <1>2 DEF IsMerge
  <2> QED
    BY <1>2, <1>4, <2>1, <2>2 DEF Joined, TypeOK
<1>6. Pending' = Pending \cup {ids + 1}
  BY <1>2, <1>3, <1>4, <1>5 DEF Pending, NoMerge, NoSegs
<1>7. TypeOK'
  <2>1. removal' = [eligible |-> removal'.eligible, ineligible |-> removal'.ineligible]
    BY <1>4 DEF TypeOK, Marked
  <2>2. IsPersister(persister')
    BY <1>2, <1>3, <1>5 DEF TypeOK, IsPersister
  <2>3. ASSUME NEW e \in DOMAIN bolt PROVE IsBucket(files', bolt[e])
    <3>1. IsBucket(files, bolt[e])
      BY DEF TypeOK
    <3>2. \A s \in DOMAIN bolt[e].segs : s \in DOMAIN files
      BY <3>1 DEF IsBucket
    <3> QED
      BY <1>2, <1>5, <3>1, <3>2, BucketStays
  <2> HIDE DEF docs
  <2> QED
    BY <1>4, <1>5, <2>1, <2>2, <2>3 DEF TypeOK
<1>8. FreshIDs'
  BY <1>2, <1>3, <1>4, <1>5, <1>6 DEF FreshIDs, Pending, Settled, Marked, MemSegs, NoMerge, NoSegs
<1>9. OneVersion'
  <2>1. Versions' \subseteq Versions \cup {<<ids + 1, docs>>}
    <3>1. {<<s, files'[s]>> : s \in DOMAIN files'}
            \subseteq {<<s, files[s]>> : s \in DOMAIN files} \cup {<<ids + 1, docs>>}
      <4> HIDE DEF docs
      <4>1. ASSUME NEW s \in DOMAIN files'
            PROVE  \/ s \in DOMAIN files /\ <<s, files'[s]>> = <<s, files[s]>>
                   \/ <<s, files'[s]>> = <<ids + 1, docs>>
        BY <1>5
      <4> QED
        BY <4>1
    <3>2. VersionsOfMerge(merge) \subseteq VersionsIn(segs) \cup {<<ids + 1, docs>>}
      BY <1>2 DEF VersionsOfMerge, VersionsIn, MemSegs
    <3> QED
      BY <1>3, <1>4, <3>1, <3>2 DEF Versions
  <2>2. ids + 1 \notin 1 .. ids
    BY <1>4
  <2> QED
    BY <2>1, <2>2, VersionsStep
<1>10. EpochsInOrder'
  BY <1>3, <1>4 DEF EpochsInOrder, Corresponds, Active
<1>11. EquivOfSnapshot'
  BY <1>1, <1>2, <1>3, <1>4, <1>5 DEF EquivOfSnapshot, EquivBuilt
<1>12. FilesWritten'
  BY <1>2, <1>3, <1>4, <1>5, <1>6 DEF FilesWritten, Active, EquivBuilt, Marked, TypeOK
<1>13. RootKept'
  BY <1>2, <1>3, <1>4, <1>5 DEF RootKept, KeptFor, InNewest, NamedBy, Active, Marked, TypeOK
<1> QED
  BY <1>2, <1>4, <1>5, <1>7, <1>8, <1>9, <1>10, <1>11, <1>12, <1>13
  DEF MergedAway, CopiedFilesStay

---------------------------------------------------------------------------
(* Introductions of the persister *)

LEMMA AfterMergeVersions ==
  ASSUME NEW segs, NEW merge
  PROVE  VersionsIn(IntroduceMerge(segs, merge))
           \subseteq VersionsIn(segs) \cup VersionsOfMerge(merge)
<1> DEFINE new == IntroduceMerge(segs, merge)
<1>1. ASSUME NEW s \in DOMAIN new
      PROVE  <<s, new[s].docs>> \in VersionsIn(segs) \cup VersionsOfMerge(merge)
  <2>1. \/ s \in DOMAIN segs /\ new[s] = segs[s]
        \/ s \in DOMAIN merge.new /\ new[s].docs = merge.new[s]
    BY AfterMerge
  <2> HIDE DEF new
  <2> QED
    BY <2>1 DEF VersionsIn, VersionsOfMerge
<1> HIDE DEF new
<1> QED
  BY <1>1 DEF VersionsIn, new

\* A merge is of the segments the root has under those ids.
LEMMA MergesMatch ==
  ASSUME OneVersion
  PROVE  Matches(root.segs, persister.merge) /\ Matches(root.segs, merger.merge)
<1>1. ASSUME NEW merge \in {persister.merge, merger.merge},
             NEW s \in DOMAIN merge.hist, s \in DOMAIN root.segs
      PROVE  merge.hist[s].old.docs = root.segs[s].docs
  <2>1. <<s, merge.hist[s].old.docs>> \in Versions
    BY <1>1 DEF Versions, VersionsOfMerge
  <2>2. <<s, root.segs[s].docs>> \in Versions
    BY <1>1 DEF Versions, VersionsIn
  <2> QED
    BY <2>1, <2>2 DEF OneVersion
<1> QED
  BY <1>1 DEF Matches

LEMMA IntroduceInMemoryMergeKeeps ==
  ASSUME FilesInv, IntroduceInMemoryMerge
  PROVE  FilesInv'
<1> USE DEF FilesInv
<1> DEFINE merge   == persister.merge
           snap    == persister.snap.segs
           newSegs == IntroduceMerge(root.segs, merge)
           skipped == DOMAIN merge.new \cap DOMAIN newSegs = {}
           dropped == DroppedFiles(Without(root.segs, DOMAIN merge.hist))
           new     == [id \in DOMAIN merge.new \cap DOMAIN newSegs |->
                         [docs |-> merge.new[id], del |-> {}, file |-> TRUE]]
<1>1. /\ IsSegs(Documents, root.segs) /\ IsSegs(Documents, snap)
      /\ IsMerge(Documents, merge)
      /\ root.epoch \in Nat /\ root.internal \in Nat
  BY DEF TypeOK, IsSnapshot, IsPersister
<1>2. /\ root'.epoch = root.epoch + 1 /\ root'.segs = newSegs
      /\ root'.internal = root.internal /\ IsSnapshot(root')
  <2>1. IsSegs(Documents, newSegs)
    BY <1>1, MergesMatch, IntroduceMergeType
  <2> QED
    BY <1>1, <2>1 DEF IntroduceInMemoryMerge, SwapRoot, IndexSnapshot, IsSnapshot
<1>3. \A s \in DOMAIN newSegs :
        \/ /\ s \in DOMAIN root.segs \ DOMAIN merge.hist
           /\ newSegs[s] = root.segs[s] /\ Live(root.segs[s]) # {}
        \/ s \in DOMAIN merge.new
  BY AfterMerge
<1>4. /\ UNCHANGED <<files, bolt, ids, waiting, merger, copy>>
      /\ removal' = [removal EXCEPT !.ineligible = @ \ dropped]
      /\ persister.pc = "merging" /\ persister'.pc = "direct"
      /\ persister'.snap = persister.snap /\ persister'.merge = NoMerge
      /\ \/ persister'.equiv = snap /\ persister'.exclude = {}
         \/ persister'.equiv = Joined(Without(snap, DOMAIN merge.hist), new)
      /\ persister' = [pc |-> "direct", snap |-> persister.snap,
           equiv |-> persister'.equiv, exclude |-> persister'.exclude,
           merge |-> NoMerge, lastPersistedEpoch |-> persister.lastPersistedEpoch,
           callbacks |-> persister.callbacks]
  BY DEF IntroduceInMemoryMerge, Unmarked, Equiv, TypeOK, IsPersister
<1>5. /\ dropped \subseteq DOMAIN root.segs
      /\ \A s \in dropped : s \notin DOMAIN merge.hist /\ Live(root.segs[s]) = {}
  BY DEF DroppedFiles, FileSegs, Without
<1>6. Pending = DOMAIN merge.new \cup Pending' /\ Pending' = DOMAIN merger.merge.new
  BY <1>4 DEF Pending, NoMerge, NoSegs
<1>7. IsSegs(Documents, new)
  <2>1. IsFiniteSet(DOMAIN merge.new \cap DOMAIN newSegs)
    BY <1>1, FS_Subset DEF IsMerge
  <2>2. ASSUME NEW id \in DOMAIN merge.new \cap DOMAIN newSegs
        PROVE  IsSegmentSnapshot(Documents, [docs |-> merge.new[id], del |-> {}, file |-> TRUE])
    BY <1>1 DEF IsMerge, IsSegmentSnapshot
  <2> HIDE DEF newSegs, merge
  <2> QED
    BY <1>1, <2>1, <2>2 DEF IsSegs, IsMerge
<1>8. IsSegs(Documents, persister'.equiv)
  <2>1. IsSegs(Documents, Joined(Without(snap, DOMAIN merge.hist), new))
    <3>1. IsSegs(Documents, Without(snap, DOMAIN merge.hist))
      BY <1>1, WithoutType
    <3> HIDE DEF snap, merge, new
    <3> QED
      BY <1>7, <3>1, JoinedType
  <2> HIDE DEF new
  <2> QED
    BY <1>1, <1>4, <2>1
<1>9. \A s \in DOMAIN persister'.equiv :
        \/ s \in DOMAIN snap /\ persister'.equiv[s] = snap[s]
        \/ /\ s \in DOMAIN merge.new
           /\ persister'.equiv[s].docs = merge.new[s] /\ persister'.equiv[s].file
  <2>1. CASE persister'.equiv = Joined(Without(snap, DOMAIN merge.hist), new)
    <3>1. \A s \in DOMAIN Without(snap, DOMAIN merge.hist) :
            s \in DOMAIN snap /\ Without(snap, DOMAIN merge.hist)[s] = snap[s]
      BY DEF Without
    <3>2. \A s \in DOMAIN new :
            s \in DOMAIN merge.new /\ new[s].docs = merge.new[s] /\ new[s].file
      OBVIOUS
    <3> HIDE DEF new
    <3> QED
      BY <2>1, <3>1, <3>2 DEF Joined
  <2> QED
    BY <1>4, <2>1
<1>10. TypeOK'
  <2>1. IsPersister(persister')
    BY <1>4, <1>8, NoMergeType DEF TypeOK, IsPersister
  <2>2. removal' = [eligible |-> removal'.eligible, ineligible |-> removal'.ineligible]
    BY <1>4 DEF TypeOK
  <2>3. /\ \A e \in DOMAIN bolt' : IsBucket(files', bolt'[e])
        /\ \A s \in DOMAIN files' : IsDocs(Documents, files'[s])
    BY <1>4 DEF TypeOK
  <2> HIDE DEF newSegs, dropped
  <2> QED
    BY <1>2, <1>4, <2>1, <2>2, <2>3 DEF TypeOK
<1>11. FreshIDs'
  <2>1. \A s : Settled(s) => Settled(s)'
    BY <1>4, <1>6 DEF Settled
  <2>2. \A s \in DOMAIN merge.new : Settled(s)'
    BY <1>4, <1>6 DEF Settled, FreshIDs, Pending
  <2>3. \A s \in DOMAIN newSegs : Settled(s)'
    BY <1>3, <2>1, <2>2 DEF FreshIDs
  <2>4. \A s \in DOMAIN persister'.equiv : Settled(s)'
    BY <1>9, <2>1, <2>2 DEF FreshIDs
  <2> HIDE DEF newSegs
  <2> QED
    BY <1>2, <1>4, <1>6, <2>1, <2>3, <2>4 DEF FreshIDs, NoMerge, NoSegs
<1>12. OneVersion'
  <2>1. VersionsIn(newSegs) \subseteq Versions
    BY AfterMergeVersions DEF Versions
  <2>2. VersionsIn(persister'.equiv) \subseteq VersionsIn(snap) \cup VersionsOfMerge(merge)
    BY <1>9 DEF VersionsIn, VersionsOfMerge
  <2>3. VersionsOfMerge(NoMerge) = {}
    BY DEF VersionsOfMerge, NoMerge, NoSegs
  <2> HIDE DEF newSegs
  <2>4. Versions' \subseteq Versions
    BY <1>2, <1>4, <2>1, <2>2, <2>3 DEF Versions
  <2> QED
    BY <2>4, NoNewVersions
<1>13. EpochsInOrder'
  BY <1>1, <1>2, <1>4 DEF EpochsInOrder, Corresponds, Active
<1>14. EquivOfSnapshot'
  <2>1. /\ MemSegs(snap) # {} /\ DOMAIN merge.hist = MemSegs(snap)
        /\ persister.snap.epoch < root'.epoch
    BY <1>1, <1>2, <1>4 DEF EquivOfSnapshot, EpochsInOrder, Active
  <2>2. CASE persister'.equiv = Joined(Without(snap, DOMAIN merge.hist), new)
    <3>1. DOMAIN Without(snap, DOMAIN merge.hist) = FileSegs(snap)
      BY <2>1 DEF Without, MemSegs, FileSegs
    <3>2. \A s \in DOMAIN persister'.equiv : persister'.equiv[s].file
      <4>1. \A s \in DOMAIN Without(snap, DOMAIN merge.hist) :
              Without(snap, DOMAIN merge.hist)[s] = snap[s] /\ snap[s].file
        BY <3>1 DEF Without, FileSegs
      <4>2. \A s \in DOMAIN new : new[s].file
        OBVIOUS
      <4> HIDE DEF new
      <4> QED
        BY <2>2, <4>1, <4>2 DEF Joined
    <3>3. FileSegs(snap) \subseteq DOMAIN persister'.equiv
      BY <2>2, <3>1 DEF Joined
    <3> QED
      BY <1>4, <2>1, <3>2, <3>3 DEF EquivOfSnapshot, EquivBuilt, MemSegs, FileSegs
  <2>3. CASE persister'.equiv = snap /\ persister'.exclude = {}
    BY <1>4, <2>3 DEF EquivOfSnapshot, EquivBuilt
  <2> QED
    BY <1>4, <2>2, <2>3
<1>15. FilesWritten'
  <2>1. FileSegs(persister'.equiv) \subseteq FileSegs(snap) \cup DOMAIN merge.new
    BY <1>9 DEF FileSegs
  <2>2. FileSegs(snap) \cup Pending \subseteq DOMAIN files
    BY <1>4 DEF FilesWritten, Active
  <2>3. Pending' \subseteq DOMAIN files' \cap removal'.ineligible
    BY <1>4, <1>5, <1>6 DEF FilesWritten, FreshIDs, Settled, TypeOK
  <2> QED
    BY <1>4, <1>6, <2>1, <2>2, <2>3 DEF FilesWritten, Active, EquivBuilt
<1>16. MergedAway'
  BY <1>2, <1>3, <1>4, <1>6 DEF MergedAway, FreshIDs, Settled
<1>17. RootKept'
  <2>1. SUFFICES ASSUME NEW s \in FileSegs(newSegs)
                 PROVE  s \in DOMAIN files /\ KeptFor(s)'
    BY <1>2, <1>4 DEF RootKept
  <2>2. CASE s \in DOMAIN merge.new
    BY <1>4, <1>5, <1>6, <2>2 DEF FilesWritten, FreshIDs, Settled, KeptFor, TypeOK
  <2>3. CASE s \notin DOMAIN merge.new
    <3>1. s \in FileSegs(root.segs) /\ s \notin dropped
      BY <1>3, <1>5, <2>3 DEF FileSegs
    <3> QED
      BY <1>4, <3>1 DEF RootKept, KeptFor, InNewest, NamedBy, Active, TypeOK
  <2> QED
    BY <2>2, <2>3
<1> QED
  BY <1>4, <1>10, <1>11, <1>12, <1>13, <1>14, <1>15, <1>16, <1>17 DEF CopiedFilesStay

LEMMA WriteSegmentFilesKeeps ==
  ASSUME FilesInv, WriteSegmentFiles
  PROVE  FilesInv'
<1> USE DEF FilesInv
<1> DEFINE equiv == persister.equiv
<1>1. /\ UNCHANGED <<bolt, root, ids, removal, waiting, merger, copy>>
      /\ files' = Joined([s \in ToFlush |-> equiv[s].docs], files)
      /\ persister.pc = "direct"
      /\ persister'.pc \in {"commit", "written"}
      /\ persister'.pc = "commit" => ToFlush = {}
      /\ persister' = [persister EXCEPT !.pc = persister'.pc]
      /\ persister'.snap = persister.snap /\ persister'.equiv = equiv
      /\ persister'.exclude = persister.exclude
      /\ persister'.merge = persister.merge
  BY DEF WriteSegmentFiles, TypeOK, IsPersister
<1>2. ToFlush \subseteq DOMAIN equiv
  BY DEF ToFlush, MemSegs
<1>3. \A s \in ToFlush : s \in DOMAIN files => files[s] = equiv[s].docs
  <2>1. SUFFICES ASSUME NEW s \in ToFlush, s \in DOMAIN files
                 PROVE  files[s] = equiv[s].docs
    OBVIOUS
  <2>2. <<s, files[s]>> \in Versions /\ <<s, equiv[s].docs>> \in Versions
    BY <1>2, <2>1 DEF Versions, VersionsIn
  <2> QED
    BY <2>2 DEF OneVersion
<1>4. /\ files' = [s \in DOMAIN files' |-> files'[s]]
      /\ DOMAIN files' = DOMAIN files \cup ToFlush
      /\ \A s \in DOMAIN files : files'[s] = files[s]
      /\ \A s \in ToFlush : files'[s] = equiv[s].docs
  BY <1>1, <1>3 DEF Joined
<1>5. TypeOK'
  <2>1. IsPersister(persister')
    BY <1>1 DEF TypeOK, IsPersister
  <2>2. ASSUME NEW s \in DOMAIN files' PROVE IsDocs(Documents, files'[s])
    BY <1>2, <1>4 DEF TypeOK, IsPersister, IsSegs, IsSegmentSnapshot
  <2>3. ASSUME NEW e \in DOMAIN bolt PROVE IsBucket(files', bolt[e])
    <3>1. IsBucket(files, bolt[e])
      BY DEF TypeOK
    <3>2. \A s \in DOMAIN bolt[e].segs : s \in DOMAIN files
      BY <3>1 DEF IsBucket
    <3> QED
      BY <1>4, <3>1, <3>2, BucketStays
  <2> QED
    BY <1>1, <1>4, <2>1, <2>2, <2>3 DEF TypeOK
<1>6. FreshIDs'
  BY <1>1, <1>2, <1>4 DEF FreshIDs, Pending, Settled
<1>7. OneVersion'
  <2>1. {<<s, files'[s]>> : s \in DOMAIN files'}
          \subseteq {<<s, files[s]>> : s \in DOMAIN files} \cup VersionsIn(equiv)
    BY <1>2, <1>4 DEF VersionsIn
  <2>2. Versions' = {<<s, files'[s]>> : s \in DOMAIN files'}
              \cup VersionsIn(root.segs) \cup VersionsIn(copy.segs)
              \cup VersionsIn(persister.snap.segs) \cup VersionsIn(equiv)
              \cup VersionsIn(merger.segs)
              \cup VersionsOfMerge(persister.merge) \cup VersionsOfMerge(merger.merge)
    BY <1>1 DEF Versions
  <2>3. Versions' \subseteq Versions
    BY <2>1, <2>2 DEF Versions
  <2> QED
    BY <2>3, NoNewVersions
<1>8. EpochsInOrder'
  BY <1>1 DEF EpochsInOrder, Corresponds, Active
<1>9. EquivOfSnapshot'
  <2>1. persister'.pc = "commit" /\ persister.exclude = {} => MemSegs(equiv) = {}
    BY <1>1 DEF ToFlush
  <2> QED
    BY <1>1, <2>1 DEF EquivOfSnapshot, EquivBuilt
<1>10. FilesWritten'
  <2>1. MemSegs(equiv) \subseteq ToFlush
    BY <1>1 DEF EquivOfSnapshot, EquivBuilt, ToFlush
  <2>2. DOMAIN equiv \subseteq DOMAIN files'
    BY <1>1, <1>4, <2>1 DEF FilesWritten, EquivBuilt, MemSegs
  <2> QED
    BY <1>1, <1>4, <2>2 DEF FilesWritten, Active, EquivBuilt, Pending, FileSegs
<1>11. RootKept'
  BY <1>1, <1>4 DEF RootKept, KeptFor, InNewest, NamedBy, Active
<1> QED
  BY <1>1, <1>4, <1>5, <1>6, <1>7, <1>8, <1>9, <1>10, <1>11
  DEF MergedAway, CopiedFilesStay

LEMMA IntroducePersistedKeeps ==
  ASSUME FilesInv, IntroducePersisted
  PROVE  FilesInv'
<1> USE DEF FilesInv
<1> DEFINE newSegs == IntroducePersist(root.segs, ToFlush)
<1>1. /\ UNCHANGED <<files, bolt, ids, removal, waiting, merger, copy>>
      /\ persister.pc = "written" /\ persister'.pc = "commit"
      /\ persister' = [persister EXCEPT !.pc = "commit"]
      /\ persister'.snap = persister.snap /\ persister'.equiv = persister.equiv
      /\ persister'.exclude = persister.exclude
      /\ persister'.merge = persister.merge
  BY DEF IntroducePersisted, TypeOK, IsPersister
<1>2. /\ root'.epoch = root.epoch + 1 /\ root'.segs = newSegs
      /\ root.epoch \in Nat /\ root'.internal = root.internal /\ IsSnapshot(root')
  <2>1. IsSnapshot(root)
    BY DEF TypeOK
  <2>2. IsSegs(Documents, newSegs)
    BY <2>1, IntroducePersistType DEF IsSnapshot
  <2> QED
    BY <2>1, <2>2 DEF IntroducePersisted, SwapRoot, IndexSnapshot, IsSnapshot
<1>3. /\ DOMAIN newSegs = DOMAIN root.segs
      /\ \A s \in DOMAIN root.segs : newSegs[s].docs = root.segs[s].docs
      /\ FileSegs(newSegs) \subseteq FileSegs(root.segs) \cup ToFlush
  BY DEF IntroducePersist, FileSegs
<1>4. ToFlush \subseteq DOMAIN persister.equiv
  BY DEF ToFlush, MemSegs
<1> HIDE DEF newSegs
<1>5. TypeOK'
  <2>1. IsPersister(persister')
    BY <1>1 DEF TypeOK, IsPersister
  <2> QED
    BY <1>1, <1>2, <2>1 DEF TypeOK
<1>6. FreshIDs'
  BY <1>1, <1>2, <1>3 DEF FreshIDs, Pending, Settled
<1>7. OneVersion'
  <2>1. VersionsIn(newSegs) = VersionsIn(root.segs)
    BY <1>3 DEF VersionsIn
  <2>2. Versions' \subseteq Versions
    BY <1>1, <1>2, <2>1 DEF Versions
  <2> QED
    BY <2>2, NoNewVersions
<1>8. EpochsInOrder'
  BY <1>1, <1>2 DEF EpochsInOrder, Corresponds, Active
<1>9. EquivOfSnapshot'
  BY <1>1, <1>2 DEF EquivOfSnapshot, EquivBuilt, EpochsInOrder, Active
<1>10. FilesWritten'
  BY <1>1 DEF FilesWritten, Active, EquivBuilt, Pending
<1>11. MergedAway'
  BY <1>1, <1>2, <1>3 DEF MergedAway
<1>12. RootKept'
  BY <1>1, <1>2, <1>3, <1>4
  DEF RootKept, KeptFor, InNewest, NamedBy, Active, FilesWritten
<1> QED
  BY <1>1, <1>5, <1>6, <1>7, <1>8, <1>9, <1>10, <1>11, <1>12 DEF CopiedFilesStay

---------------------------------------------------------------------------
(* The commit *)

\* The bucket has what the snapshot to commit has, be there an older bucket
\* of the same epoch or not.
LEMMA BucketIs ==
  ASSUME FilesInv, persister.pc = "commit"
  PROVE  Bucket(persister.snap, persister.equiv, persister.exclude) =
           [internal |-> persister.snap.internal,
            segs |-> [s \in DOMAIN persister.equiv |->
                        [path |-> TRUE, del |-> persister.equiv[s].del]]]
<1> USE DEF FilesInv
<1> DEFINE epoch == persister.snap.epoch
           equiv == persister.equiv
           bucket(s) == SegmentBucket(epoch, equiv, persister.exclude, s)
<1>1. /\ DOMAIN Stored(epoch) \subseteq DOMAIN equiv
      /\ \A s \in DOMAIN equiv : bucket(s) = [path |-> TRUE, del |-> equiv[s].del]
  <2>1. CASE epoch \in DOMAIN bolt
    <3>1. /\ equiv = persister.snap.segs
          /\ Stored(epoch) = [s \in DOMAIN equiv |-> [path |-> TRUE, del |-> equiv[s].del]]
      BY <2>1 DEF EquivOfSnapshot, EquivBuilt, EpochsInOrder, Active, Corresponds, Stored
    <3>2. ASSUME NEW s \in DOMAIN equiv
          PROVE  bucket(s) = [path |-> TRUE, del |-> equiv[s].del]
      <4>1. s \in DOMAIN Stored(epoch)
        BY <3>1
      <4>2. Stored(epoch)[s] = [path |-> TRUE, del |-> equiv[s].del]
        BY <3>1
      <4>3. Stored(epoch)[s].path /\ Stored(epoch)[s].del = equiv[s].del
        BY <4>2
      <4> QED
        BY <4>1, <4>3 DEF SegmentBucket
    <3> QED
      BY <3>1, <3>2
  <2>2. CASE epoch \notin DOMAIN bolt
    <3>1. Stored(epoch) = NoSegs /\ DOMAIN NoSegs = {}
      BY <2>2 DEF Stored, NoSegs
    <3>2. \A s \in DOMAIN equiv : equiv[s].file \/ s \notin persister.exclude
      BY DEF EquivOfSnapshot, EquivBuilt, MemSegs, FileSegs
    <3>3. ASSUME NEW s \in DOMAIN equiv
          PROVE  bucket(s) = [path |-> TRUE, del |-> equiv[s].del]
      BY <3>1, <3>2 DEF SegmentBucket
    <3> QED
      BY <3>1, <3>3
  <2> QED
    BY <2>1, <2>2
<1>2. DOMAIN equiv \cup DOMAIN Stored(epoch) = DOMAIN equiv
  BY <1>1
<1> QED
  BY <1>1, <1>2 DEF Bucket

LEMMA CommitSnapshotKeeps ==
  ASSUME FilesInv, CommitSnapshot
  PROVE  FilesInv'
<1> USE DEF FilesInv
<1> DEFINE epoch == persister.snap.epoch
           equiv == persister.equiv
           snap  == persister.snap.segs
           named == [s \in DOMAIN equiv |-> [path |-> TRUE, del |-> equiv[s].del]]
<1>1. /\ UNCHANGED <<files, root, ids, removal, waiting, merger, copy>>
      /\ persister.pc = "commit" /\ persister'.pc = "committed"
      /\ persister' = [persister EXCEPT !.pc = "committed"]
      /\ persister'.snap = persister.snap /\ persister'.equiv = equiv
      /\ persister'.exclude = persister.exclude
      /\ persister'.merge = persister.merge
  BY DEF CommitSnapshot, TypeOK, IsPersister
<1>2. /\ bolt' = [e \in DOMAIN bolt' |-> bolt'[e]]
      /\ DOMAIN bolt' = DOMAIN bolt \cup {epoch}
      /\ bolt'[epoch] = [internal |-> persister.snap.internal, segs |-> named]
      /\ \A e \in DOMAIN bolt : e # epoch => bolt'[e] = bolt[e]
  <2>1. Bucket(persister.snap, equiv, persister.exclude)
          = [internal |-> persister.snap.internal, segs |-> named]
    BY <1>1, BucketIs
  <2> HIDE DEF named
  <2> QED
    BY <2>1 DEF CommitSnapshot
<1>3. /\ epoch \in 1 .. root.epoch /\ root.epoch \in Nat
      /\ \A e \in DOMAIN bolt : e <= epoch
      /\ DOMAIN bolt \subseteq 1 .. root.epoch
  BY <1>1 DEF EpochsInOrder, Active, TypeOK, IsSnapshot
<1>4. /\ DOMAIN named = DOMAIN equiv /\ named = [s \in DOMAIN named |-> named[s]]
      /\ \A s \in DOMAIN equiv : /\ named[s] = [path |-> TRUE, del |-> named[s].del]
                                 /\ named[s].path /\ named[s].del = equiv[s].del
  OBVIOUS
<1> HIDE DEF named
<1>5. bolt'[epoch].segs = named /\ bolt'[epoch].internal = persister.snap.internal
  BY <1>2
<1>6. NamedBy(epoch)' = DOMAIN equiv
  BY <1>1, <1>4, <1>5 DEF NamedBy
<1>7. TypeOK'
  <2>1. IsPersister(persister')
    BY <1>1 DEF TypeOK, IsPersister
  <2>2. IsBucket(files, bolt'[epoch])
    <3>1. /\ IsSegs(Documents, equiv) /\ DOMAIN equiv \subseteq DOMAIN files
          /\ persister.snap.internal \in Nat
      BY <1>1 DEF TypeOK, IsPersister, IsSnapshot, FilesWritten
    <3>2. ASSUME NEW s \in DOMAIN equiv PROVE files[s] = equiv[s].docs
      <4>1. <<s, files[s]>> \in Versions /\ <<s, equiv[s].docs>> \in Versions
        BY <3>1, <3>2 DEF Versions, VersionsIn
      <4> QED
        BY <4>1 DEF OneVersion
    <3>3. \A s \in DOMAIN equiv : equiv[s].del \subseteq DOMAIN files[s]
      BY <3>1, <3>2 DEF IsSegs, IsSegmentSnapshot
    <3>4. DOMAIN equiv \subseteq SegmentID /\ IsFiniteSet(DOMAIN equiv)
      BY <3>1 DEF IsSegs
    <3> QED
      BY <1>2, <1>4, <1>5, <3>1, <3>3, <3>4 DEF IsBucket
  <2>3. \A e \in DOMAIN bolt' : IsBucket(files, bolt'[e])
    BY <1>2, <2>2 DEF TypeOK
  <2> QED
    BY <1>1, <1>2, <2>1, <2>3 DEF TypeOK
<1>8. FreshIDs'
  BY <1>1 DEF FreshIDs, Pending, Settled
<1>9. OneVersion'
  <2>1. Versions' \subseteq Versions
    BY <1>1 DEF Versions
  <2> QED
    BY <2>1, NoNewVersions
<1>10. EpochsInOrder'
  <2>1. DOMAIN bolt' \subseteq 1 .. root.epoch /\ \A e \in DOMAIN bolt' : e <= epoch
    BY <1>2, <1>3
  <2>2. Corresponds(root)'
    <3>1. SUFFICES ASSUME root.epoch \in DOMAIN bolt'
                   PROVE  /\ MemSegs(root.segs) = {}
                          /\ bolt'[root.epoch].segs =
                               [s \in DOMAIN root.segs |->
                                  [path |-> TRUE, del |-> root.segs[s].del]]
      BY <1>1 DEF Corresponds
    <3>2. root.epoch = epoch
      BY <1>2, <1>3, <3>1
    <3>3. persister.snap = root
      BY <1>1, <3>2 DEF EpochsInOrder, Active
    <3>4. equiv = snap /\ MemSegs(snap) = {}
      BY <1>1, <1>3, <3>2 DEF EquivOfSnapshot, EquivBuilt
    <3>6. named = [s \in DOMAIN root.segs |->
                     [path |-> TRUE, del |-> root.segs[s].del]]
      BY <3>3, <3>4 DEF named
    <3> QED
      BY <1>5, <3>2, <3>3, <3>4, <3>6
  <2> QED
    BY <1>1, <1>2, <1>6, <2>1, <2>2 DEF EpochsInOrder, Active
<1>11. EquivOfSnapshot'
  BY <1>1 DEF EquivOfSnapshot, EquivBuilt
<1>12. FilesWritten'
  BY <1>1 DEF FilesWritten, Active, EquivBuilt, Pending
<1>13. RootKept'
  <2>1. Max(DOMAIN bolt') = epoch
    <3>1. DOMAIN bolt' \subseteq Nat /\ epoch \in DOMAIN bolt'
          /\ \A e \in DOMAIN bolt' : e <= epoch
      BY <1>2, <1>3
    <3> QED
      BY <3>1, MaxOf
  <2>2. FileSegs(snap) \subseteq DOMAIN equiv
    BY <1>1 DEF EquivOfSnapshot, EquivBuilt, FileSegs
  <2>3. \A s \in DOMAIN equiv : InNewest(s)'
    BY <1>1, <1>2, <1>6, <2>1 DEF InNewest
  <2> QED
    BY <1>1, <2>2, <2>3 DEF RootKept, KeptFor, Active
<1> QED
  BY <1>1, <1>7, <1>8, <1>9, <1>10, <1>11, <1>12, <1>13 DEF MergedAway, CopiedFilesStay

\* Back at the top of its loop the persister holds nothing.
LEMMA AtRest ==
  ASSUME NEW epoch, NEW callbacks, persister' = Resting(epoch, callbacks)
  PROVE  /\ persister'.pc = "top" /\ persister'.snap = NoSnapshot
         /\ persister'.equiv = NoSegs /\ persister'.merge = NoMerge
         /\ DOMAIN NoSegs = {} /\ NoSnapshot.segs = NoSegs
         /\ NoMerge.hist = NoSegs /\ NoMerge.new = NoSegs
         /\ VersionsIn(NoSegs) = {} /\ VersionsOfMerge(NoMerge) = {}
         /\ ~Active' /\ ~EquivBuilt'
  BY DEF Resting, NoSnapshot, IndexSnapshot, NoSegs, NoMerge, VersionsIn,
         VersionsOfMerge, Active, EquivBuilt

LEMMA SnapshotPersistedKeeps ==
  ASSUME FilesInv, SnapshotPersisted
  PROVE  FilesInv'
<1> USE DEF FilesInv
<1> DEFINE epoch   == persister.snap.epoch
           removed == DOMAIN persister.equiv
                        \ (MemSegs(persister.equiv) \cap persister.exclude)
<1>1. /\ UNCHANGED <<files, bolt, root, ids, waiting, merger, copy>>
      /\ persister.pc = "committed" /\ persister' = Resting(epoch, {})
      /\ removal' = [removal EXCEPT !.ineligible = @ \ removed]
      /\ epoch \in Nat
  BY DEF SnapshotPersisted, Unmarked, TypeOK, IsPersister, IsSnapshot
<1>2. /\ removal' = [eligible   |-> removal'.eligible,
                     ineligible |-> removal'.ineligible]
      /\ removal'.ineligible = removal.ineligible \ removed
  BY <1>1 DEF TypeOK
<1>3. TypeOK'
  BY <1>1, <1>2, RestingType DEF TypeOK
<1>4. FreshIDs'
  BY <1>1, <1>2, AtRest DEF FreshIDs, Pending, Settled
<1>5. OneVersion'
  <2>1. Versions' \subseteq Versions
    BY <1>1, AtRest DEF Versions
  <2> QED
    BY <2>1, NoNewVersions
<1>6. EpochsInOrder' /\ EquivOfSnapshot'
  BY <1>1, AtRest DEF EpochsInOrder, EquivOfSnapshot, Corresponds
<1>7. FilesWritten'
  BY <1>1, <1>2, AtRest DEF FilesWritten, FreshIDs, Pending, Settled
<1>8. RootKept'
  <2>1. Max(DOMAIN bolt) = epoch /\ epoch \in DOMAIN bolt
    <3>1. DOMAIN bolt \subseteq Nat /\ epoch \in DOMAIN bolt
          /\ \A e \in DOMAIN bolt : e <= epoch
      BY <1>1 DEF EpochsInOrder, TypeOK, IsSnapshot
    <3> QED
      BY <3>1, MaxOf
  <2>2. \A s \in removed : InNewest(s)
    BY <1>1, <2>1 DEF InNewest, EpochsInOrder
  <2> HIDE DEF removed
  <2> QED
    BY <1>1, <1>2, <2>2, AtRest DEF RootKept, KeptFor, InNewest, NamedBy
<1> QED
  BY <1>1, <1>3, <1>4, <1>5, <1>6, <1>7, <1>8 DEF MergedAway, CopiedFilesStay

LEMMA PersistFailsKeeps ==
  ASSUME PlainStore, FilesInv, PersistFails
  PROVE  FilesInv'
<1> USE DEF FilesInv
<1>1. /\ UNCHANGED <<files, bolt, root, ids, removal, waiting, merger, copy>>
      /\ persister.pc \in {"taken", "merging", "direct", "written"}
      /\ persister' = Resting(persister.lastPersistedEpoch, persister.callbacks)
      /\ persister.lastPersistedEpoch \in Nat /\ persister.callbacks \subseteq Nat
  BY DEF PersistFails, PlainStore, TypeOK, IsPersister
<1>2. TypeOK'
  BY <1>1, RestingType DEF TypeOK
<1>3. FreshIDs'
  BY <1>1, AtRest DEF FreshIDs, Pending, Settled
<1>4. OneVersion'
  <2>1. Versions' \subseteq Versions
    BY <1>1, AtRest DEF Versions
  <2> QED
    BY <2>1, NoNewVersions
<1>5. EpochsInOrder' /\ EquivOfSnapshot'
  BY <1>1, AtRest DEF EpochsInOrder, EquivOfSnapshot, Corresponds
<1>6. FilesWritten'
  BY <1>1, AtRest DEF FilesWritten, Pending
<1>7. RootKept'
  BY <1>1, AtRest DEF RootKept, KeptFor, InNewest, NamedBy
<1> QED
  BY <1>1, <1>2, <1>3, <1>4, <1>5, <1>6, <1>7 DEF MergedAway, CopiedFilesStay

---------------------------------------------------------------------------
(* The purge *)

\* The newest snapshot of root.bolt is protected.
LEMMA NewestProtected ==
  ASSUME TypeOK, EpochsInOrder, RemoveOldBoltSnapshots
  PROVE  /\ bolt' = [e \in DOMAIN bolt' |-> bolt'[e]]
         /\ DOMAIN bolt' \subseteq DOMAIN bolt
         /\ \A e \in DOMAIN bolt' : bolt'[e] = bolt[e]
         /\ DOMAIN bolt # {} => /\ Max(DOMAIN bolt) \in DOMAIN bolt'
                                /\ Max(DOMAIN bolt') = Max(DOMAIN bolt)
<1> DEFINE protected == Newest(NumSnapshotsToKeep, DOMAIN bolt)
<1>1. /\ bolt' = [e \in DOMAIN bolt' |-> bolt'[e]]
      /\ DOMAIN bolt' \subseteq DOMAIN bolt
      /\ \A e \in DOMAIN bolt' : bolt'[e] = bolt[e]
      /\ protected \subseteq DOMAIN bolt'
  <2>1. protected \subseteq DOMAIN bolt
    BY DEF Newest
  <2>2. bolt' = bolt \/ bolt' = Without(bolt, removal.eligible \ protected)
    BY DEF RemoveOldBoltSnapshots
  <2> HIDE DEF protected
  <2> QED
    BY <2>1, <2>2 DEF Without, TypeOK
<1>2. ASSUME DOMAIN bolt # {}
      PROVE  Max(DOMAIN bolt) \in DOMAIN bolt' /\ Max(DOMAIN bolt') = Max(DOMAIN bolt)
  <2> DEFINE m == Max(DOMAIN bolt)
  <2>1. m \in DOMAIN bolt /\ \A e \in DOMAIN bolt : e <= m
    BY <1>2, NewestIs
  <2>2. DOMAIN bolt \subseteq Nat
    BY DEF EpochsInOrder, TypeOK, IsSnapshot
  <2> HIDE DEF m
  <2>3. {f \in DOMAIN bolt : f > m} = {}
    BY <2>1, <2>2
  <2>4. Cardinality({f \in DOMAIN bolt : f > m}) < NumSnapshotsToKeep
    <3>1. NumSnapshotsToKeep \in Nat /\ NumSnapshotsToKeep > 0
      BY StoreAssumption
    <3>2. Cardinality({}) = 0
      BY FS_EmptySet
    <3> QED
      BY <2>3, <3>1, <3>2
  <2>5. m \in DOMAIN bolt'
    BY <1>1, <2>1, <2>4 DEF Newest
  <2>6. Max(DOMAIN bolt') = m
    BY <1>1, <2>1, <2>2, <2>5, MaxOf
  <2> QED
    BY <2>5, <2>6 DEF m
<1> HIDE DEF protected
<1> QED
  BY <1>1, <1>2

LEMMA RemoveOldBoltSnapshotsKeeps ==
  ASSUME FilesInv, RemoveOldBoltSnapshots
  PROVE  FilesInv'
<1> USE DEF FilesInv
<1>1. /\ UNCHANGED <<files, root, ids, waiting, merger, copy>>
      /\ persister.pc = "top" /\ persister'.pc = "purge"
      /\ persister' = [persister EXCEPT !.pc = "purge"]
      /\ persister'.snap = persister.snap /\ persister'.equiv = persister.equiv
      /\ persister'.exclude = persister.exclude
      /\ persister'.merge = persister.merge
      /\ removal'.ineligible = removal.ineligible
      /\ removal' = [eligible   |-> removal'.eligible,
                     ineligible |-> removal'.ineligible]
  BY DEF RemoveOldBoltSnapshots, TypeOK, IsPersister
<1>2. /\ bolt' = [e \in DOMAIN bolt' |-> bolt'[e]]
      /\ DOMAIN bolt' \subseteq DOMAIN bolt
      /\ \A e \in DOMAIN bolt' : bolt'[e] = bolt[e]
      /\ DOMAIN bolt # {} => /\ Max(DOMAIN bolt) \in DOMAIN bolt'
                             /\ Max(DOMAIN bolt') = Max(DOMAIN bolt)
  BY NewestProtected
<1>3. TypeOK'
  <2>1. IsPersister(persister')
    BY <1>1 DEF TypeOK, IsPersister
  <2>2. \A e \in DOMAIN bolt' : IsBucket(files, bolt'[e])
    BY <1>2 DEF TypeOK
  <2> QED
    BY <1>1, <1>2, <2>1, <2>2 DEF TypeOK
<1>4. FreshIDs'
  BY <1>1 DEF FreshIDs, Pending, Settled
<1>5. OneVersion'
  <2>1. Versions' \subseteq Versions
    BY <1>1 DEF Versions
  <2> QED
    BY <2>1, NoNewVersions
<1>6. EpochsInOrder' /\ EquivOfSnapshot'
  BY <1>1, <1>2 DEF EpochsInOrder, EquivOfSnapshot, EquivBuilt, Corresponds, Active
<1>7. FilesWritten'
  BY <1>1 DEF FilesWritten, Pending, Active, EquivBuilt
<1>8. RootKept'
  <2>1. \A s : InNewest(s) => InNewest(s)'
    BY <1>2 DEF InNewest, NamedBy
  <2> QED
    BY <1>1, <2>1 DEF RootKept, KeptFor, Active
<1> QED
  BY <1>1, <1>3, <1>4, <1>5, <1>6, <1>7, <1>8 DEF MergedAway, CopiedFilesStay

LEMMA RemoveOldZapFilesKeeps ==
  ASSUME FilesInv, RemoveOldZapFiles
  PROVE  FilesInv'
<1> USE DEF FilesInv
<1>1. /\ UNCHANGED <<bolt, root, ids, removal, waiting, merger, copy>>
      /\ persister.pc = "purge" /\ persister'.pc = "top"
      /\ persister' = [persister EXCEPT !.pc = "top"]
      /\ persister'.snap = persister.snap /\ persister'.equiv = persister.equiv
      /\ persister'.exclude = persister.exclude
      /\ persister'.merge = persister.merge
  BY DEF RemoveOldZapFiles, TypeOK, IsPersister
<1>2. /\ files' = [s \in DOMAIN files' |-> files'[s]]
      /\ DOMAIN files' = DOMAIN files \cap InUse
      /\ \A s \in DOMAIN files' : files'[s] = files[s]
  BY DEF RemoveOldZapFiles, Only
<1>3. TypeOK'
  <2>1. IsPersister(persister')
    BY <1>1 DEF TypeOK, IsPersister
  <2>2. ASSUME NEW e \in DOMAIN bolt PROVE IsBucket(files', bolt[e])
    <3>1. IsBucket(files, bolt[e])
      BY DEF TypeOK
    <3>2. \A s \in DOMAIN bolt[e].segs : s \in DOMAIN files /\ s \in NamedBy(e)
      BY <3>1 DEF IsBucket, NamedBy
    <3>3. \A s \in DOMAIN bolt[e].segs : s \in DOMAIN files' /\ files'[s] = files[s]
      BY <1>2, <3>2 DEF InUse, NamedInBolt
    <3> QED
      BY <3>1, <3>3, BucketStays
  <2> QED
    BY <1>1, <1>2, <2>1, <2>2 DEF TypeOK
<1>4. FreshIDs'
  BY <1>1, <1>2 DEF FreshIDs, Pending, Settled
<1>5. OneVersion'
  <2>1. Versions' \subseteq Versions
    BY <1>1, <1>2 DEF Versions
  <2> QED
    BY <2>1, NoNewVersions
<1>6. EpochsInOrder' /\ EquivOfSnapshot'
  BY <1>1 DEF EpochsInOrder, EquivOfSnapshot, EquivBuilt, Corresponds, Active
<1>7. FilesWritten'
  BY <1>1, <1>2 DEF FilesWritten, Pending, Active, EquivBuilt, InUse
<1>8. RootKept'
  <2>1. ASSUME NEW s \in FileSegs(root.segs) PROVE s \in InUse
    <3>1. KeptFor(s)
      BY DEF RootKept
    <3>2. InNewest(s) => s \in NamedInBolt
      BY NewestIs DEF InNewest, NamedInBolt
    <3> QED
      BY <1>1, <3>1, <3>2 DEF KeptFor, InUse
  <2> QED
    BY <1>1, <1>2, <2>1 DEF RootKept, KeptFor, InNewest, NamedBy, Active
<1>9. CopiedFilesStay'
  BY <1>1, <1>2 DEF CopiedFilesStay, InUse, FileSegs
<1> QED
  BY <1>1, <1>3, <1>4, <1>5, <1>6, <1>7, <1>8, <1>9 DEF MergedAway

LEMMA SnapshotReleasedKeeps ==
  ASSUME FilesInv, NEW e, SnapshotReleased(e)
  PROVE  FilesInv'
<1> USE DEF FilesInv
<1>1. /\ UNCHANGED <<files, bolt, root, ids, waiting, persister, merger, copy>>
      /\ removal' = [eligible |-> removal'.eligible, ineligible |-> removal.ineligible]
      /\ removal'.ineligible = removal.ineligible
  BY DEF SnapshotReleased, TypeOK
<1>2. TypeOK'
  BY <1>1 DEF TypeOK
<1>3. FreshIDs' /\ FilesWritten' /\ RootKept'
  BY <1>1 DEF FreshIDs, Pending, Settled, FilesWritten, Active, EquivBuilt,
              RootKept, KeptFor, InNewest, NamedBy
<1>4. OneVersion'
  BY <1>1 DEF OneVersion, Versions
<1>5. EpochsInOrder' /\ EquivOfSnapshot'
  BY <1>1 DEF EpochsInOrder, Corresponds, NamedBy, Active, EquivOfSnapshot, EquivBuilt
<1> QED
  BY <1>1, <1>2, <1>3, <1>4, <1>5 DEF MergedAway, CopiedFilesStay

---------------------------------------------------------------------------
(* The merger *)

LEMMA MergerTakesSnapshotKeeps ==
  ASSUME FilesInv, MergerTakesSnapshot
  PROVE  FilesInv'
<1> USE DEF FilesInv
<1> DEFINE taken == Only(root.segs, FileSegs(root.segs))
<1>1. /\ UNCHANGED <<files, bolt, root, ids, removal, waiting, persister, copy>>
      /\ merger = NoTask
      /\ merger' = [epoch |-> root.epoch, segs |-> taken, merge |-> NoMerge,
                    filenames |-> {}]
      /\ merger.merge = NoMerge
  BY DEF MergerTakesSnapshot, NoTask
<1>2. /\ DOMAIN taken \subseteq DOMAIN root.segs
      /\ \A s \in DOMAIN taken : taken[s] = root.segs[s]
  BY DEF Only
<1>3. TypeOK'
  <2>1. IsSegs(Documents, taken) /\ root.epoch \in Nat
    BY OnlyType DEF TypeOK, IsSnapshot
  <2>2. IsMerger(merger')
    BY <1>1, <2>1, NoMergeType DEF IsMerger
  <2> QED
    BY <1>1, <2>2 DEF TypeOK
<1>4. FreshIDs' /\ FilesWritten'
  BY <1>1, <1>2 DEF FreshIDs, Pending, Settled, FilesWritten, Active, EquivBuilt
<1>5. OneVersion'
  <2>1. VersionsIn(taken) \subseteq VersionsIn(root.segs)
    BY <1>2 DEF VersionsIn
  <2>2. Versions' \subseteq Versions
    BY <1>1, <2>1 DEF Versions
  <2> QED
    BY <2>2, NoNewVersions
<1>6. EpochsInOrder' /\ EquivOfSnapshot' /\ RootKept'
  BY <1>1 DEF EpochsInOrder, Corresponds, NamedBy, Active, EquivOfSnapshot, EquivBuilt,
              RootKept, KeptFor, InNewest
<1> QED
  BY <1>1, <1>3, <1>4, <1>5, <1>6 DEF MergedAway, CopiedFilesStay

LEMMA StartFileMergeKeeps ==
  ASSUME FilesInv, NEW S, StartFileMerge(S)
  PROVE  FilesInv'
<1> USE DEF FilesInv
<1> DEFINE into  == [s \in S |-> ids + 1]
           merge == SegmentMerge(merger.segs, into)
           docs  == merge.new[ids + 1]
<1>1. /\ UNCHANGED <<bolt, root, waiting, persister, copy>>
      /\ ids' = ids + 1 /\ ids \in Nat
      /\ removal' = Marked({ids + 1})
      /\ files' = Joined(merge.new, files)
      /\ merger' = [merger EXCEPT !.segs = Without(@, S), !.merge = merge,
                                  !.filenames = @ \cup S]
      /\ merger.merge = NoMerge
  BY DEF StartFileMerge, TypeOK
<1>2. S \subseteq DOMAIN merger.segs /\ S # {}
  BY FS_EmptySet DEF StartFileMerge
<1>3. /\ IsMerge(Documents, merge)
      /\ DOMAIN merge.new = {ids + 1}
      /\ DOMAIN merge.hist = S
      /\ \A s \in S : merge.hist[s].old = merger.segs[s]
  <2>1. IsSegs(Documents, merger.segs) /\ ids + 1 \in SegmentID
    BY DEF TypeOK, IsMerger, SegmentID
  <2>2. DOMAIN into = S /\ \A s \in S : into[s] = ids + 1
    OBVIOUS
  <2> HIDE DEF into
  <2> QED
    BY <1>2, <2>1, <2>2, MergedIntoOne
<1> HIDE DEF merge
<1>4. ids + 1 \notin DOMAIN files /\ ids + 1 \in 1 .. ids + 1 /\ ids + 1 \notin 1 .. ids
  BY <1>1 DEF FreshIDs
<1>5. /\ files' = [s \in DOMAIN files' |-> files'[s]]
      /\ DOMAIN files' = DOMAIN files \cup {ids + 1}
      /\ \A s \in DOMAIN files : files'[s] = files[s]
      /\ files'[ids + 1] = docs
      /\ \A s \in DOMAIN files' : IsDocs(Documents, files'[s])
  <2>1. IsDocs(Documents, docs)
    BY <1>3 DEF IsMerge
  <2> QED
    BY <1>1, <1>3, <1>4, <2>1 DEF Joined, TypeOK
<1>6. /\ merger' = [epoch |-> merger.epoch, segs |-> Without(merger.segs, S),
                    merge |-> merge, filenames |-> merger.filenames \cup S]
      /\ removal' = [eligible   |-> removal'.eligible,
                     ineligible |-> removal'.ineligible]
      /\ removal'.ineligible = removal.ineligible \cup {ids + 1}
  BY <1>1 DEF TypeOK, IsMerger, Marked
<1>7. Pending' = Pending \cup {ids + 1} /\ DOMAIN merger.merge.new = {}
  BY <1>1, <1>3, <1>6 DEF Pending, NoMerge, NoSegs
<1>8. /\ DOMAIN Without(merger.segs, S) \subseteq DOMAIN merger.segs
      /\ \A s \in DOMAIN Without(merger.segs, S) :
           Without(merger.segs, S)[s] = merger.segs[s]
  BY DEF Without
<1>9. TypeOK'
  <2>1. IsMerger(merger')
    <3>1. IsMerger(merger)
      BY DEF TypeOK
    <3>2. IsSegs(Documents, Without(merger.segs, S))
      BY <3>1, WithoutType DEF IsMerger
    <3> QED
      BY <1>3, <1>6, <3>1, <3>2 DEF IsMerger
  <2>2. ASSUME NEW e \in DOMAIN bolt PROVE IsBucket(files', bolt[e])
    <3>1. IsBucket(files, bolt[e])
      BY DEF TypeOK
    <3>2. \A s \in DOMAIN bolt[e].segs : s \in DOMAIN files
      BY <3>1 DEF IsBucket
    <3> QED
      BY <1>5, <3>1, <3>2, BucketStays
  <2> QED
    BY <1>1, <1>5, <1>6, <2>1, <2>2 DEF TypeOK
<1>10. FreshIDs'
  <2>1. \A s : Settled(s) => Settled(s)'
    BY <1>1, <1>4, <1>7 DEF Settled
  <2>2. \A s \in DOMAIN merger'.segs \cup merger'.filenames
               \cup DOMAIN merger'.merge.hist : Settled(s)'
    BY <1>2, <1>3, <1>6, <1>8, <2>1 DEF FreshIDs
  <2>3. Pending' \cup DOMAIN files' \cup removal'.ineligible \subseteq 1 .. ids'
    BY <1>1, <1>5, <1>6, <1>7 DEF FreshIDs
  <2>4. DOMAIN persister.merge.new \cap DOMAIN merger'.merge.new = {}
    BY <1>3, <1>4, <1>6 DEF FreshIDs, Pending
  <2> QED
    BY <1>1, <2>1, <2>2, <2>3, <2>4 DEF FreshIDs
<1>11. OneVersion'
  <2>1. {<<s, files'[s]>> : s \in DOMAIN files'}
          \subseteq {<<s, files[s]>> : s \in DOMAIN files} \cup {<<ids + 1, docs>>}
    BY <1>5
  <2>2. VersionsOfMerge(merge) \subseteq VersionsIn(merger.segs) \cup {<<ids + 1, docs>>}
    BY <1>2, <1>3 DEF VersionsOfMerge, VersionsIn
  <2>3. VersionsIn(Without(merger.segs, S)) \subseteq VersionsIn(merger.segs)
    BY <1>8 DEF VersionsIn
  <2>4. Versions' \subseteq Versions \cup {<<ids + 1, docs>>}
    BY <1>1, <1>6, <2>1, <2>2, <2>3 DEF Versions
  <2> QED
    BY <1>4, <2>4, VersionsStep
<1>12. EpochsInOrder' /\ EquivOfSnapshot'
  BY <1>1 DEF EpochsInOrder, Corresponds, NamedBy, Active, EquivOfSnapshot, EquivBuilt
<1>13. FilesWritten'
  BY <1>1, <1>5, <1>6, <1>7 DEF FilesWritten, Active, EquivBuilt
<1>14. MergedAway'
  BY <1>1, <1>3, <1>6 DEF MergedAway, NoMerge, NoSegs
<1>15. RootKept'
  BY <1>1, <1>5, <1>6 DEF RootKept, KeptFor, InNewest, NamedBy, Active
<1> QED
  BY <1>1, <1>5, <1>9, <1>10, <1>11, <1>12, <1>13, <1>14, <1>15 DEF CopiedFilesStay

LEMMA IntroduceFileMergeKeeps ==
  ASSUME FilesInv, IntroduceFileMerge
  PROVE  FilesInv'
<1> USE DEF FilesInv
<1> DEFINE merge   == merger.merge
           newSegs == IntroduceMerge(root.segs, merge)
           dropped == DroppedFiles(Without(root.segs, DOMAIN merge.hist))
                        \cup (DOMAIN merge.new \ DOMAIN newSegs)
<1>1. /\ IsSegs(Documents, root.segs) /\ IsMerge(Documents, merge)
      /\ root.epoch \in Nat /\ root.internal \in Nat
  BY DEF TypeOK, IsSnapshot, IsMerger
<1>2. /\ root'.epoch = root.epoch + 1 /\ root'.segs = newSegs
      /\ root'.internal = root.internal /\ IsSnapshot(root')
  <2>1. IsSegs(Documents, newSegs)
    BY <1>1, MergesMatch, IntroduceMergeType
  <2> QED
    BY <1>1, <2>1 DEF IntroduceFileMerge, SwapRoot, IndexSnapshot, IsSnapshot
<1>3. \A s \in DOMAIN newSegs :
        \/ /\ s \in DOMAIN root.segs \ DOMAIN merge.hist
           /\ newSegs[s] = root.segs[s] /\ Live(root.segs[s]) # {}
        \/ s \in DOMAIN merge.new
  BY AfterMerge
<1>4. /\ UNCHANGED <<files, bolt, ids, waiting, persister, copy>>
      /\ removal' = [eligible   |-> removal'.eligible,
                     ineligible |-> removal.ineligible \ dropped]
      /\ merger' = [epoch |-> merger.epoch, segs |-> merger.segs,
                    merge |-> NoMerge, filenames |-> merger.filenames]
  BY DEF IntroduceFileMerge, Unmarked, TypeOK, IsMerger
<1>5. /\ dropped \subseteq DOMAIN root.segs \cup DOMAIN merge.new
      /\ \A s \in dropped : \/ s \in DOMAIN root.segs /\ Live(root.segs[s]) = {}
                            \/ s \notin DOMAIN newSegs
  BY DEF DroppedFiles, FileSegs, Without
<1>6. Pending = DOMAIN merge.new \cup Pending' /\ Pending' = DOMAIN persister.merge.new
  BY <1>4 DEF Pending, NoMerge, NoSegs
<1>7. TypeOK'
  <2>1. IsMerger(merger')
    BY <1>4, NoMergeType DEF TypeOK, IsMerger
  <2>2. /\ \A e \in DOMAIN bolt' : IsBucket(files', bolt'[e])
        /\ \A s \in DOMAIN files' : IsDocs(Documents, files'[s])
    BY <1>4 DEF TypeOK
  <2> HIDE DEF newSegs, dropped
  <2> QED
    BY <1>2, <1>4, <2>1, <2>2 DEF TypeOK
<1>8. FreshIDs'
  <2>1. \A s : Settled(s) => Settled(s)'
    BY <1>4, <1>6 DEF Settled
  <2>2. \A s \in DOMAIN merge.new : Settled(s)'
    BY <1>4, <1>6 DEF Settled, FreshIDs, Pending
  <2>3. \A s \in DOMAIN newSegs : Settled(s)'
    BY <1>3, <2>1, <2>2 DEF FreshIDs
  <2> HIDE DEF newSegs, dropped
  <2>4. removal'.ineligible \subseteq 1 .. ids'
    BY <1>4 DEF FreshIDs
  <2> QED
    BY <1>2, <1>4, <1>6, <2>1, <2>3, <2>4 DEF FreshIDs, NoMerge, NoSegs
<1>9. OneVersion'
  <2>1. VersionsIn(newSegs) \subseteq Versions
    BY AfterMergeVersions DEF Versions
  <2>2. VersionsOfMerge(NoMerge) = {}
    BY DEF VersionsOfMerge, NoMerge, NoSegs
  <2> HIDE DEF newSegs
  <2>3. Versions' \subseteq Versions
    BY <1>2, <1>4, <2>1, <2>2 DEF Versions
  <2> QED
    BY <2>3, NoNewVersions
<1>10. EpochsInOrder' /\ EquivOfSnapshot'
  BY <1>1, <1>2, <1>4
  DEF EpochsInOrder, Corresponds, NamedBy, Active, EquivOfSnapshot, EquivBuilt
<1>11. FilesWritten'
  <2>1. \A s \in Pending' : s \in removal.ineligible /\ s \notin dropped
    BY <1>5, <1>6 DEF FilesWritten, FreshIDs, Settled
  <2> HIDE DEF dropped
  <2> QED
    BY <1>4, <1>6, <2>1 DEF FilesWritten, Active, EquivBuilt
<1>12. MergedAway'
  BY <1>2, <1>3, <1>4, <1>6 DEF MergedAway, FreshIDs, Settled
<1>13. RootKept'
  <2>1. SUFFICES ASSUME NEW s \in FileSegs(newSegs)
                 PROVE  s \in DOMAIN files /\ KeptFor(s)'
    BY <1>2, <1>4 DEF RootKept
  <2>2. s \in DOMAIN newSegs
    BY DEF FileSegs
  <2>3. CASE s \in DOMAIN merge.new
    <3>1. s \notin dropped
      BY <1>5, <1>6, <2>2, <2>3 DEF FreshIDs, Settled
    <3> HIDE DEF dropped
    <3> QED
      BY <1>4, <1>6, <2>3, <3>1 DEF FilesWritten, KeptFor
  <2>4. CASE s \notin DOMAIN merge.new
    <3>1. s \in FileSegs(root.segs) /\ s \notin dropped
      BY <1>3, <1>5, <2>2, <2>4 DEF FileSegs
    <3> HIDE DEF dropped
    <3> QED
      BY <1>4, <3>1 DEF RootKept, KeptFor, InNewest, NamedBy, Active
  <2> QED
    BY <2>3, <2>4
<1> QED
  BY <1>4, <1>7, <1>8, <1>9, <1>10, <1>11, <1>12, <1>13 DEF CopiedFilesStay

\* The merger is done with its plan or gives it up: it unmarks files that the
\* root does not have.
LEMMA MergerStopsKeeps ==
  ASSUME FilesInv, NEW S,
         UNCHANGED <<files, bolt, root, ids, waiting, persister, copy>>,
         removal' = Unmarked(S), merger' = NoTask,
         \A s \in S : s \notin DOMAIN root.segs /\ s \notin DOMAIN persister.merge.new
  PROVE  FilesInv'
<1> USE DEF FilesInv
<1>1. /\ removal' = [eligible   |-> removal'.eligible,
                     ineligible |-> removal.ineligible \ S]
      /\ removal'.ineligible = removal.ineligible \ S
      /\ merger'.segs = NoSegs /\ merger'.merge = NoMerge /\ merger'.filenames = {}
      /\ DOMAIN NoSegs = {} /\ NoMerge.hist = NoSegs /\ NoMerge.new = NoSegs
      /\ VersionsIn(NoSegs) = {} /\ VersionsOfMerge(NoMerge) = {}
  BY DEF Unmarked, TypeOK, NoTask, NoSegs, NoMerge, VersionsIn, VersionsOfMerge
<1>2. TypeOK'
  BY <1>1, NoTaskType DEF TypeOK
<1>3. FreshIDs' /\ FilesWritten'
  BY <1>1 DEF FreshIDs, Pending, Settled, FilesWritten, Active, EquivBuilt
<1>4. OneVersion'
  <2>1. Versions' \subseteq Versions
    BY <1>1 DEF Versions
  <2> QED
    BY <2>1, NoNewVersions
<1>5. EpochsInOrder' /\ EquivOfSnapshot'
  BY DEF EpochsInOrder, Corresponds, NamedBy, Active, EquivOfSnapshot, EquivBuilt
<1>6. RootKept'
  BY <1>1 DEF RootKept, KeptFor, InNewest, NamedBy, Active, FileSegs
<1> QED
  BY <1>1, <1>2, <1>3, <1>4, <1>5, <1>6 DEF MergedAway, CopiedFilesStay

LEMMA MergerDoneKeeps ==
  ASSUME FilesInv, MergerDone
  PROVE  FilesInv'
<1>1. \A s \in merger.filenames :
        s \notin DOMAIN root.segs /\ s \notin DOMAIN persister.merge.new
  BY DEF FilesInv, MergerDone, MergedAway, FreshIDs, Settled, Pending, NoMerge, NoSegs
<1> QED
  BY <1>1, MergerStopsKeeps DEF MergerDone

LEMMA FileMergeFailsKeeps ==
  ASSUME FilesInv, FileMergeFails
  PROVE  FilesInv'
<1>1. \A s \in DOMAIN merger.merge.new :
        s \notin DOMAIN root.segs /\ s \notin DOMAIN persister.merge.new
  BY DEF FilesInv, FreshIDs, Settled, Pending
<1> QED
  BY <1>1, MergerStopsKeeps DEF FileMergeFails

---------------------------------------------------------------------------
(* Batches and copies *)

\* The segment of a batch: its number is new and it has the batch's documents.
LEMMA IntroducedSegment ==
  ASSUME TypeOK, NEW b \in Batch, Introduce(b)
  PROVE  \E next :
           /\ next.id = ids + 1 /\ next.ids = Durable!Ids(b)
           /\ next.obsoletes = Obsoletes(root.segs, next.ids)
           /\ IsDocs(Documents, next.docs)
           /\ {next.docs[n] : n \in DOMAIN next.docs} = Durable!DocsOf(b)
           /\ root' = IndexSnapshot(root.epoch + 1, IntroduceSegment(root.segs, next),
                                    root.internal + 1)
           /\ removal' = Unmarked(DroppedFiles(ApplyDelta(root.segs, next)))
           /\ history' = Append(history, Contents(root'.segs))
<1> DEFINE docs == Durable!DocsOf(b)
           Numbers(seg) == \A d \in docs : \E n \in DOMAIN seg : seg[n] = d
           segment == CHOOSE seg \in [0 .. Cardinality(docs) - 1 -> docs] : Numbers(seg)
           next == [id |-> ids + 1, ids |-> Durable!Ids(b), docs |-> segment,
                    obsoletes |-> Obsoletes(root.segs, Durable!Ids(b))]
<1>1. docs \subseteq Documents /\ IsFiniteSet(docs)
  BY DocumentsOf
<1>2. Cardinality(docs) \in Nat
      /\ \E seg \in [0 .. Cardinality(docs) - 1 -> docs] : Numbers(seg)
  BY <1>1, Numbered
<1>3. segment \in [0 .. Cardinality(docs) - 1 -> docs] /\ Numbers(segment)
  <2> HIDE DEF Numbers, docs
  <2> QED
    BY <1>2
<1>4. IsDocs(Documents, segment)
  <2>1. IsFiniteSet(0 .. Cardinality(docs) - 1)
    BY <1>2, FS_Interval
  <2> HIDE DEF segment, docs
  <2> QED
    BY <1>1, <1>2, <1>3, <2>1 DEF IsDocs, DocNum
<1>5. {segment[n] : n \in DOMAIN segment} = docs
  <2> HIDE DEF segment, docs
  <2> QED
    BY <1>3
<1>6. /\ root' = IndexSnapshot(root.epoch + 1, IntroduceSegment(root.segs, next),
                               root.internal + 1)
      /\ removal' = Unmarked(DroppedFiles(ApplyDelta(root.segs, next)))
      /\ history' = Append(history, Contents(root'.segs))
  BY DEF Introduce, SwapRoot
<1>7. /\ next.id = ids + 1 /\ next.ids = Durable!Ids(b) /\ next.docs = segment
      /\ next.obsoletes = Obsoletes(root.segs, next.ids)
  <2> HIDE DEF segment
  <2> QED
    OBVIOUS
<1> HIDE DEF next, segment
<1> QED
  BY <1>4, <1>5, <1>6, <1>7

LEMMA IntroduceKeeps ==
  ASSUME FilesInv, NEW b \in Batch, Introduce(b)
  PROVE  FilesInv'
<1> USE DEF FilesInv
<1>1. PICK next :
        /\ next.id = ids + 1
        /\ next.obsoletes = Obsoletes(root.segs, next.ids)
        /\ IsDocs(Documents, next.docs)
        /\ root' = IndexSnapshot(root.epoch + 1, IntroduceSegment(root.segs, next),
                                 root.internal + 1)
        /\ removal' = Unmarked(DroppedFiles(ApplyDelta(root.segs, next)))
  BY IntroducedSegment
<1> DEFINE newSegs == IntroduceSegment(root.segs, next)
           dropped == DroppedFiles(ApplyDelta(root.segs, next))
<1>2. /\ UNCHANGED <<files, bolt, persister, merger, copy>>
      /\ ids' = ids + 1 /\ ids \in Nat
      /\ waiting' \subseteq Nat
      /\ removal' = [eligible   |-> removal'.eligible,
                     ineligible |-> removal.ineligible \ dropped]
  <2>1. UNCHANGED <<files, bolt, persister, merger, copy>> /\ ids' = ids + 1
        /\ waiting' = waiting \cup {root.internal + 1}
    BY DEF Introduce
  <2>2. removal' = [removal EXCEPT !.ineligible = @ \ dropped]
    BY <1>1 DEF Unmarked
  <2> HIDE DEF dropped
  <2>3. waiting' \subseteq Nat
    BY <2>1 DEF TypeOK, IsSnapshot
  <2> QED
    BY <2>1, <2>2, <2>3 DEF TypeOK
<1>3. /\ root'.epoch = root.epoch + 1 /\ root.epoch \in Nat /\ root'.segs = newSegs
      /\ IsSnapshot(root')
  <2>1. /\ IsSegs(Documents, root.segs) /\ root.epoch \in Nat /\ root.internal \in Nat
        /\ next.id \in SegmentID
    BY <1>1 DEF TypeOK, IsSnapshot, SegmentID
  <2>2. ASSUME NEW s \in DOMAIN root.segs
        PROVE  Delta(root.segs, next, s) \subseteq DOMAIN root.segs[s].docs
    BY <1>1, DeltaExact DEF DocNumbers
  <2>3. IsSegs(Documents, newSegs)
    BY <1>1, <2>1, <2>2, IntroduceSegmentType
  <2> QED
    BY <1>1, <2>1, <2>3 DEF IndexSnapshot, IsSnapshot
<1>4. \A s \in DOMAIN newSegs :
        \/ s = ids + 1 /\ newSegs[s].docs = next.docs /\ ~newSegs[s].file
        \/ /\ s \in DOMAIN root.segs /\ newSegs[s].docs = root.segs[s].docs
           /\ newSegs[s].file = root.segs[s].file /\ s \notin dropped
  BY <1>1 DEF IntroduceSegment, AddSegment, LiveOnly, Only, ApplyDelta, DroppedFiles,
              FileSegs
<1>5. dropped \subseteq DOMAIN root.segs
  BY DEF DroppedFiles, FileSegs, ApplyDelta
<1> HIDE DEF newSegs, dropped
<1>6. TypeOK'
  BY <1>2, <1>3 DEF TypeOK
<1>7. Pending' = Pending
  BY <1>2 DEF Pending
<1>8. FreshIDs'
  <2>1. \A s : Settled(s) => Settled(s)'
    BY <1>2, <1>7 DEF Settled
  <2>2. \A s \in DOMAIN newSegs : Settled(s)'
    BY <1>2, <1>4, <1>7, <2>1 DEF FreshIDs, Settled
  <2> QED
    BY <1>2, <1>3, <1>7, <2>1, <2>2 DEF FreshIDs
<1>9. OneVersion'
  <2>1. VersionsIn(newSegs) \subseteq VersionsIn(root.segs) \cup {<<ids + 1, next.docs>>}
    BY <1>4 DEF VersionsIn
  <2>2. Versions' \subseteq Versions \cup {<<ids + 1, next.docs>>}
    BY <1>2, <1>3, <2>1 DEF Versions
  <2>3. ids + 1 \notin 1 .. ids
    BY <1>2
  <2> QED
    BY <2>2, <2>3, VersionsStep
<1>10. EpochsInOrder' /\ EquivOfSnapshot'
  BY <1>2, <1>3
  DEF EpochsInOrder, Corresponds, NamedBy, Active, EquivOfSnapshot, EquivBuilt
<1>11. FilesWritten'
  BY <1>2, <1>5, <1>7 DEF FilesWritten, FreshIDs, Settled, Active, EquivBuilt
<1>12. MergedAway'
  BY <1>2, <1>3, <1>4 DEF MergedAway, FreshIDs, Settled
<1>13. RootKept'
  <2>1. SUFFICES ASSUME NEW s \in FileSegs(newSegs)
                 PROVE  s \in DOMAIN files /\ KeptFor(s)'
    BY <1>2, <1>3 DEF RootKept
  <2>2. s \in FileSegs(root.segs) /\ s \notin dropped
    BY <1>4 DEF FileSegs
  <2> QED
    BY <1>2, <2>2 DEF RootKept, KeptFor, InNewest, NamedBy, Active
<1> QED
  BY <1>2, <1>6, <1>8, <1>9, <1>10, <1>11, <1>12, <1>13 DEF CopiedFilesStay

\* The reader of an online copy takes the root, or nothing.
LEMMA CopyKeeps ==
  ASSUME FilesInv, OpenCopyReader \/ CloseCopyReader
  PROVE  FilesInv'
<1> USE DEF FilesInv
<1>1. /\ UNCHANGED <<files, bolt, root, ids, removal, waiting, persister, merger>>
      /\ copy' = root \/ copy' = NoSnapshot
  BY DEF OpenCopyReader, CloseCopyReader
<1>2. NoSnapshot.segs = NoSegs /\ DOMAIN NoSegs = {} /\ VersionsIn(NoSegs) = {}
  BY DEF NoSnapshot, IndexSnapshot, NoSegs, VersionsIn
<1>3. TypeOK'
  BY <1>1, NoSnapshotType DEF TypeOK
<1>4. FreshIDs' /\ FilesWritten'
  BY <1>1, <1>2 DEF FreshIDs, Pending, Settled, FilesWritten, Active, EquivBuilt
<1>5. OneVersion'
  <2>1. Versions' \subseteq Versions
    BY <1>1, <1>2 DEF Versions
  <2> QED
    BY <2>1, NoNewVersions
<1>6. EpochsInOrder' /\ EquivOfSnapshot' /\ RootKept'
  BY <1>1 DEF EpochsInOrder, Corresponds, NamedBy, Active, EquivOfSnapshot, EquivBuilt,
              RootKept, KeptFor, InNewest
<1>7. CopiedFilesStay'
  BY <1>1, <1>2 DEF CopiedFilesStay, RootKept, FileSegs
<1> QED
  BY <1>1, <1>3, <1>4, <1>5, <1>6, <1>7 DEF MergedAway

---------------------------------------------------------------------------
(* Restarts and rollbacks *)

\* Open loads the newest snapshot there is: all of them can be loaded.
LEMMA LoadsNewest ==
  ASSUME FilesInv, NEW epochs, epochs \subseteq DOMAIN bolt
  PROVE  LoadNewest(epochs) = IF epochs = {} THEN NoSnapshot
                                             ELSE LoadSnapshot(Max(epochs))
<1>1. \A e \in epochs : Loadable(e)
  <2>1. SUFFICES ASSUME NEW e \in epochs PROVE Loadable(e)
    OBVIOUS
  <2>2. IsBucket(files, bolt[e])
    BY DEF FilesInv, TypeOK
  <2> QED
    BY <2>2, BucketNames DEF Loadable
<1>2. {e \in epochs : Loadable(e)} = epochs
  BY <1>1
<1> QED
  BY <1>2 DEF LoadNewest

LEMMA LoadedIs ==
  ASSUME NEW e
  PROVE  /\ LoadSnapshot(e).epoch = e /\ LoadSnapshot(e).internal = bolt[e].internal
         /\ DOMAIN LoadSnapshot(e).segs = DOMAIN bolt[e].segs
         /\ MemSegs(LoadSnapshot(e).segs) = {}
<1> DEFINE segs == [s \in DOMAIN bolt[e].segs |->
                      [docs |-> files[s], del |-> bolt[e].segs[s].del, file |-> TRUE]]
<1>1. LoadSnapshot(e) = IndexSnapshot(e, segs, bolt[e].internal)
  BY DEF LoadSnapshot
<1>2. DOMAIN segs = DOMAIN bolt[e].segs /\ MemSegs(segs) = {}
  BY DEF MemSegs, FileSegs
<1> HIDE DEF segs
<1> QED
  BY <1>1, <1>2 DEF IndexSnapshot

LEMMA LoadedSegment ==
  ASSUME NEW e, NEW s \in DOMAIN bolt[e].segs
  PROVE  /\ LoadSnapshot(e).segs[s].docs = files[s]
         /\ LoadSnapshot(e).segs[s].del = bolt[e].segs[s].del
  BY DEF LoadSnapshot, IndexSnapshot

LEMMA LoadedType ==
  ASSUME TypeOK, NEW e \in DOMAIN bolt, e \in Nat
  PROVE  IsSnapshot(LoadSnapshot(e))
<1> DEFINE segs == [s \in DOMAIN bolt[e].segs |->
                      [docs |-> files[s], del |-> bolt[e].segs[s].del, file |-> TRUE]]
<1>1. IsBucket(files, bolt[e])
  BY DEF TypeOK
<1>2. /\ bolt[e].internal \in Nat /\ DOMAIN bolt[e].segs \subseteq SegmentID
      /\ IsFiniteSet(DOMAIN bolt[e].segs)
      /\ \A s \in DOMAIN bolt[e].segs :
           s \in DOMAIN files /\ bolt[e].segs[s].del \subseteq DOMAIN files[s]
  BY <1>1 DEF IsBucket
<1>3. IsSegs(Documents, segs)
  <2>1. ASSUME NEW s \in DOMAIN bolt[e].segs
        PROVE  IsSegmentSnapshot(Documents,
                 [docs |-> files[s], del |-> bolt[e].segs[s].del, file |-> TRUE])
    BY <1>2 DEF TypeOK, IsSegmentSnapshot
  <2> QED
    BY <1>2, <2>1 DEF IsSegs
<1> HIDE DEF segs
<1> QED
  BY <1>2, <1>3 DEF LoadSnapshot, IndexSnapshot, IsSnapshot, segs

LEMMA OpenKeeps ==
  ASSUME FilesInv, NEW epochs, epochs \subseteq DOMAIN bolt, Open(epochs)
  PROVE  FilesInv'
<1> USE DEF FilesInv
<1> DEFINE loaded == LoadNewest(epochs)
           m == Max(epochs)
<1>1. /\ bolt' = Only(bolt, epochs) /\ root' = loaded
      /\ ids' = IF loaded = NoSnapshot THEN 0 ELSE MaxSegmentIDOnDisk + 1
      /\ removal' = [eligible |-> epochs \ {loaded.epoch}, ineligible |-> {}]
      /\ files' = Only(files, UNION {NamedBy(e) : e \in epochs})
      /\ waiting' = {} /\ persister' = Resting(0, {}) /\ merger' = NoTask
      /\ copy' = NoSnapshot
  BY DEF Open
<1>2. /\ DOMAIN bolt' = epochs /\ bolt' = [e \in DOMAIN bolt' |-> bolt'[e]]
      /\ \A e \in epochs : bolt'[e] = bolt[e]
  BY <1>1 DEF Only
<1>3. \A e \in epochs : /\ IsBucket(files, bolt[e])
                        /\ NamedBy(e) = DOMAIN bolt[e].segs
                        /\ NamedBy(e) \subseteq DOMAIN files
  <2>1. SUFFICES ASSUME NEW e \in epochs
                 PROVE  /\ IsBucket(files, bolt[e])
                        /\ NamedBy(e) = DOMAIN bolt[e].segs
                        /\ NamedBy(e) \subseteq DOMAIN files
    OBVIOUS
  <2>2. IsBucket(files, bolt[e])
    BY DEF TypeOK
  <2>3. \A s \in DOMAIN bolt[e].segs : bolt[e].segs[s].path /\ s \in DOMAIN files
    BY <2>2, BucketNames
  <2> QED
    BY <2>2, <2>3 DEF NamedBy
<1>4. /\ DOMAIN files' = UNION {NamedBy(e) : e \in epochs}
      /\ DOMAIN files' \subseteq DOMAIN files
      /\ files' = [s \in DOMAIN files' |-> files'[s]]
      /\ \A s \in DOMAIN files' : files'[s] = files[s]
  <2>1. UNION {NamedBy(e) : e \in epochs} \subseteq DOMAIN files
    BY <1>3
  <2> QED
    BY <1>1, <2>1 DEF Only
<1>5. /\ epochs \subseteq Nat \ {0} /\ root.epoch \in Nat
      /\ epochs # {} => m \in epochs /\ \A e \in epochs : e <= m
  <2>1. /\ root.epoch \in Nat
        /\ epochs \subseteq Nat \ {0} /\ \A e \in epochs : e <= root.epoch
    BY DEF EpochsInOrder, TypeOK, IsSnapshot
  <2>2. epochs \subseteq Nat
    BY <2>1
  <2> QED
    BY <2>1, <2>2, MaxIs
<1>6. /\ epochs = {} => loaded = NoSnapshot
      /\ epochs # {} => loaded = LoadSnapshot(m)
  BY LoadsNewest
<1> HIDE DEF loaded, m
<1>7. /\ epochs # {} => /\ loaded.epoch = m
                        /\ DOMAIN loaded.segs = NamedBy(m)
                        /\ MemSegs(loaded.segs) = {}
                        /\ \A s \in DOMAIN loaded.segs :
                             /\ loaded.segs[s].docs = files[s]
                             /\ loaded.segs[s].del = bolt[m].segs[s].del
      /\ epochs = {} => loaded.epoch = 0 /\ loaded.segs = NoSegs
      /\ DOMAIN NoSegs = {}
  <2>1. ASSUME epochs # {}
        PROVE  /\ loaded.epoch = m
               /\ DOMAIN loaded.segs = NamedBy(m)
               /\ MemSegs(loaded.segs) = {}
               /\ \A s \in DOMAIN loaded.segs :
                    /\ loaded.segs[s].docs = files[s]
                    /\ loaded.segs[s].del = bolt[m].segs[s].del
    <3>1. loaded = LoadSnapshot(m) /\ NamedBy(m) = DOMAIN bolt[m].segs
      BY <1>3, <1>5, <1>6, <2>1
    <3> QED
      BY <3>1, LoadedIs, LoadedSegment
  <2>2. ASSUME epochs = {} PROVE loaded.epoch = 0 /\ loaded.segs = NoSegs
    BY <1>6, <2>2 DEF NoSnapshot, IndexSnapshot
  <2>3. DOMAIN NoSegs = {}
    BY DEF NoSegs
  <2> QED
    BY <2>1, <2>2, <2>3
<1>8. /\ ids' \in Nat /\ DOMAIN files' \subseteq 1 .. ids'
  <2>1. CASE epochs = {}
    BY <1>1, <1>4, <1>6, <2>1
  <2>2. CASE epochs # {}
    <3>1. ids' = MaxSegmentIDOnDisk + 1
      BY <1>1, <1>5, <1>7, <2>2 DEF NoSnapshot, IndexSnapshot
    <3>2. /\ {0} \cup DOMAIN files \subseteq Nat /\ ids \in Nat
          /\ \A s \in {0} \cup DOMAIN files : s <= ids
          /\ DOMAIN files \subseteq 1 .. ids
      BY DEF FreshIDs, TypeOK
    <3>3. /\ MaxSegmentIDOnDisk \in Nat
          /\ \A s \in DOMAIN files : s <= MaxSegmentIDOnDisk
      BY <3>2, MaxIs DEF MaxSegmentIDOnDisk
    <3> QED
      BY <1>4, <3>1, <3>2, <3>3
  <2> QED
    BY <2>1, <2>2
<1>9. TypeOK'
  <2>1. ASSUME NEW e \in epochs PROVE IsBucket(files', bolt'[e])
    <3>1. /\ IsBucket(files, bolt[e])
          /\ \A s \in DOMAIN bolt[e].segs : s \in DOMAIN files'
      BY <1>3, <1>4
    <3> QED
      BY <1>2, <1>4, <3>1, BucketStays
  <2>2. IsSnapshot(root')
    BY <1>1, <1>5, <1>6, LoadedType, NoSnapshotType
  <2>3. IsPersister(persister')
    BY <1>1, RestingType
  <2>4. \A s \in DOMAIN files' : IsDocs(Documents, files'[s])
    BY <1>4 DEF TypeOK
  <2> QED
    BY <1>1, <1>2, <1>4, <1>8, <2>1, <2>2, <2>3, <2>4, NoTaskType, NoSnapshotType
    DEF TypeOK
<1>10. DOMAIN root'.segs \subseteq DOMAIN files'
  BY <1>1, <1>4, <1>5, <1>7
<1>11. /\ merger'.segs = NoSegs /\ merger'.merge = NoMerge /\ merger'.filenames = {}
       /\ NoSnapshot.segs = NoSegs
  BY <1>1 DEF NoTask, NoSnapshot, IndexSnapshot
<1>12. FreshIDs'
  <2>1. /\ persister'.snap = NoSnapshot /\ persister'.equiv = NoSegs
        /\ persister'.merge = NoMerge /\ DOMAIN NoSegs = {}
        /\ NoMerge.hist = NoSegs /\ NoMerge.new = NoSegs
    BY <1>1, AtRest
  <2>2. Pending' = {}
    BY <1>11, <2>1 DEF Pending
  <2>3. \A s \in DOMAIN files' : Settled(s)'
    BY <1>8, <2>2 DEF Settled
  <2>4. /\ removal'.ineligible = {} /\ copy' = NoSnapshot
        /\ merger'.segs = NoSegs /\ merger'.merge = NoMerge
        /\ merger'.filenames = {} /\ NoSnapshot.segs = NoSegs
    BY <1>1, <1>11
  <2> QED
    BY <1>8, <1>10, <2>1, <2>2, <2>3, <2>4 DEF FreshIDs
<1>13. OneVersion'
  <2>1. VersionsIn(root'.segs) \subseteq {<<s, files[s]>> : s \in DOMAIN files}
    <3>1. \A s \in DOMAIN root'.segs : root'.segs[s].docs = files[s]
      BY <1>1, <1>7
    <3> QED
      BY <1>4, <1>10, <3>1 DEF VersionsIn
  <2>2. Versions' \subseteq Versions
    BY <1>1, <1>4, <1>11, <2>1, AtRest DEF Versions
  <2> QED
    BY <2>2, NoNewVersions
<1>14. EpochsInOrder' /\ EquivOfSnapshot'
  <2>1. DOMAIN bolt' \subseteq 1 .. root'.epoch
    BY <1>1, <1>2, <1>5, <1>7
  <2>2. Corresponds(root)'
    <3>1. SUFFICES ASSUME root'.epoch \in epochs
                   PROVE  /\ MemSegs(root'.segs) = {}
                          /\ bolt'[root'.epoch].segs =
                               [s \in DOMAIN root'.segs |->
                                  [path |-> TRUE, del |-> root'.segs[s].del]]
      BY <1>2 DEF Corresponds
    <3>2. epochs # {} /\ root'.epoch = m
      BY <1>1, <1>7, <3>1
    <3>3. /\ DOMAIN root'.segs = DOMAIN bolt[m].segs
          /\ \A s \in DOMAIN root'.segs : root'.segs[s].del = bolt[m].segs[s].del
      BY <1>1, <1>3, <1>5, <1>7, <3>2
    <3>4. /\ bolt[m].segs = [s \in DOMAIN bolt[m].segs |-> bolt[m].segs[s]]
          /\ \A s \in DOMAIN bolt[m].segs :
               bolt[m].segs[s] = [path |-> TRUE, del |-> bolt[m].segs[s].del]
      BY <1>3, <1>5, <3>2 DEF IsBucket
    <3>5. bolt[m].segs = [s \in DOMAIN root'.segs |->
                            [path |-> TRUE, del |-> root'.segs[s].del]]
      BY <3>3, <3>4
    <3> QED
      BY <1>1, <1>2, <1>5, <1>7, <3>2, <3>5
  <2> QED
    BY <1>1, <2>1, <2>2, AtRest DEF EpochsInOrder, EquivOfSnapshot
<1>15. FilesWritten' /\ MergedAway'
  BY <1>1, <1>11, AtRest DEF FilesWritten, MergedAway, Pending
<1>16. RootKept'
  <2>1. SUFFICES ASSUME NEW s \in FileSegs(root'.segs)
                 PROVE  s \in DOMAIN files' /\ InNewest(s)'
    BY <1>1, AtRest DEF RootKept, KeptFor
  <2>2. s \in DOMAIN root'.segs
    BY DEF FileSegs
  <2>3. epochs # {}
    BY <1>1, <1>7, <2>2
  <2>4. Max(DOMAIN bolt') = m
    BY <1>2 DEF m
  <2>5. NamedBy(m)' = NamedBy(m)
    BY <1>2, <1>5, <2>3, <2>4 DEF NamedBy, m
  <2> QED
    BY <1>1, <1>2, <1>7, <1>10, <2>2, <2>3, <2>4, <2>5 DEF InNewest
<1>17. CopiedFilesStay'
  BY <1>1, <1>11, AtRest DEF CopiedFilesStay, FileSegs
<1> QED
  BY <1>9, <1>12, <1>13, <1>14, <1>15, <1>16, <1>17

---------------------------------------------------------------------------
(* The invariant and what follows from it *)

LEMMA NextKeepsFiles ==
  ASSUME PlainStore, FilesInv, [Next]_vars
  PROVE  FilesInv'
<1>1. CASE \E b \in Batch : Introduce(b)
  BY <1>1, IntroduceKeeps
<1>2. CASE PersisterStep
  BY <1>2, PersisterTakesSnapshotKeeps, MergeInMemoryKeeps, PersistDirectlyKeeps,
     IntroduceInMemoryMergeKeeps, WriteSegmentFilesKeeps, IntroducePersistedKeeps,
     CommitSnapshotKeeps, SnapshotPersistedKeeps, PersistFailsKeeps,
     RemoveOldBoltSnapshotsKeeps, RemoveOldZapFilesKeeps DEF PersisterStep
<1>3. CASE MergerStep
  BY <1>3, MergerTakesSnapshotKeeps, StartFileMergeKeeps, IntroduceFileMergeKeeps,
     MergerDoneKeeps, FileMergeFailsKeeps DEF MergerStep
<1>4. CASE OpenCopyReader \/ CloseCopyReader
  BY <1>4, CopyKeeps
<1>5. CASE \E e \in DOMAIN bolt : SnapshotReleased(e)
  BY <1>5, SnapshotReleasedKeeps
<1>6. CASE CrashAndOpen
  BY <1>6, OpenKeeps DEF CrashAndOpen
<1>7. CASE \E e \in DOMAIN bolt : RollBack(e)
  <2>1. PICK e \in DOMAIN bolt : RollBack(e)
    BY <1>7
  <2>2. Open(NotNewer(e)) /\ NotNewer(e) \subseteq DOMAIN bolt
    BY <2>1 DEF RollBack, NotNewer, PlainStore
  <2> QED
    BY <2>2, OpenKeeps
<1>8. CASE UNCHANGED vars
  <2> USE <1>8 DEF FilesInv, vars, mem
  <2>1. TypeOK'
    BY DEF TypeOK
  <2>2. FreshIDs' /\ FilesWritten' /\ RootKept'
    BY DEF FreshIDs, Pending, Settled, FilesWritten, Active, EquivBuilt,
           RootKept, KeptFor, InNewest, NamedBy
  <2>3. OneVersion'
    BY DEF OneVersion, Versions
  <2>4. EpochsInOrder' /\ EquivOfSnapshot'
    BY DEF EpochsInOrder, Corresponds, NamedBy, Active, EquivOfSnapshot, EquivBuilt
  <2> QED
    BY <2>1, <2>2, <2>3, <2>4 DEF MergedAway, CopiedFilesStay
<1> QED
  BY <1>1, <1>2, <1>3, <1>4, <1>5, <1>6, <1>7, <1>8 DEF Next

\* The inductive invariant holds.
THEOREM FilesInvariant ==
  ASSUME PlainStore
  PROVE  Spec => []FilesInv
<1>1. Init => FilesInv
  BY InitKeeps
<1>2. FilesInv /\ [Next]_vars => FilesInv'
  BY NextKeepsFiles
<1> QED
  BY <1>1, <1>2, PTL DEF Spec

\* persister.go, removeOldZapFiles: however the persister, the merger, the
\* introducer, crashes and rollbacks interleave, the file of a segment of the
\* root is on disk and is not one that the purge may remove.
THEOREM RootFilesStayAlways ==
  ASSUME PlainStore
  PROVE  Spec => []RootFilesStay
<1>1. FilesInv => RootFilesStay
  <2>1. SUFFICES ASSUME FilesInv, NEW s \in FileSegs(root.segs)
                 PROVE  /\ s \in DOMAIN files
                        /\ \/ s \in NamedInBolt \cup removal.ineligible
                           \/ persister.pc = "commit" /\ s \in DOMAIN persister.equiv
    BY DEF RootFilesStay
  <2>2. s \in DOMAIN files /\ KeptFor(s)
    BY <2>1 DEF FilesInv, RootKept
  <2>3. InNewest(s) => s \in NamedInBolt
    BY <2>1, NewestIs DEF FilesInv, InNewest, NamedInBolt
  <2> QED
    BY <2>2, <2>3 DEF KeptFor
<1> QED
  BY <1>1, FilesInvariant, PTL

\* scorch.go, CopyReader: the files an online copy reads stay until it is
\* closed.
THEOREM CopiedFilesStayAlways ==
  ASSUME PlainStore
  PROVE  Spec => []CopiedFilesStay
<1>1. FilesInv => CopiedFilesStay
  BY DEF FilesInv
<1> QED
  BY <1>1, FilesInvariant, PTL


---------------------------------------------------------------------------
(* What segments show *)

\* A bucket goes on showing the same when the files it names stay.
LEMMA BucketShows ==
  ASSUME NEW fs, NEW next, NEW bucket,
         \A s \in DOMAIN bucket.segs : next[s] = fs[s]
  PROVE  SegsOf(next, bucket) = SegsOf(fs, bucket)
  BY DEF SegsOf

LEMMA LoadedShows ==
  ASSUME NEW e
  PROVE  LoadSnapshot(e).segs = SegsOf(files, bolt[e])
  BY DEF LoadSnapshot, IndexSnapshot, SegsOf

\* The files root.bolt names.
LEMMA NamedFiles ==
  ASSUME FilesInv, NEW e \in DOMAIN bolt, NEW s \in DOMAIN bolt[e].segs
  PROVE  s \in DOMAIN files /\ s \in NamedBy(e)
<1>1. IsBucket(files, bolt[e])
  BY DEF FilesInv, TypeOK
<1> QED
  BY <1>1, BucketNames DEF NamedBy

LEMMA MinOf ==
  ASSUME NEW a \in Nat, NEW b \in Nat
  PROVE  Min({a, b}) = IF b < a THEN b ELSE a
  BY DEF Min

---------------------------------------------------------------------------
(* The first state *)

LEMMA InitShows == Init => ContentsInv
<1> SUFFICES ASSUME Init PROVE ContentsInv
  OBVIOUS
<1>1. /\ root = NoSnapshot /\ root.internal = 0 /\ root.segs = NoSegs
      /\ DOMAIN NoSegs = {} /\ persister = Resting(0, {}) /\ merger = NoTask
      /\ bolt = [e \in {} |-> {}] /\ history = <<{}>> /\ acked = 0 /\ waiting = {}
  BY DEF Init, NoSnapshot, IndexSnapshot, NoSegs
<1>2. /\ persister.pc = "top" /\ persister.merge = NoMerge /\ persister.callbacks = {}
      /\ merger.merge = NoMerge /\ merger.segs = NoSegs
      /\ NoMerge.hist = NoSegs /\ NoMerge.new = NoSegs
  BY <1>1 DEF Resting, NoTask, NoMerge
<1>3. HistoryShown
  BY <1>1, ContentsOfNone DEF HistoryShown
<1>4. DeletionsGrow
  BY <1>1, <1>2 DEF DeletionsGrow, Active
<1>5. MergesSound
  BY <1>1, <1>2, NoMergeDistinct DEF MergesSound
<1>6. SnapshotFaithful /\ BoltFaithful /\ AckedInBolt
  BY <1>1, <1>2 DEF SnapshotFaithful, BoltFaithful, AckedInBolt, Underway, Active,
                    EquivBuilt
<1> QED
  BY <1>3, <1>4, <1>5, <1>6 DEF ContentsInv

---------------------------------------------------------------------------
(* Steps that leave the root alone *)

\* What an observer of the abstract index sees.
Observed == <<history, acked, Contents(root.segs), rollbacks>>

LEMMA ObservedUnchanged ==
  ASSUME UNCHANGED Observed
  PROVE  UNCHANGED Durable!vars
  BY DEF Observed, Durable!vars

LEMMA PersisterTakesSnapshotShows ==
  ASSUME FilesInv, ContentsInv, PersisterTakesSnapshot
  PROVE  ContentsInv' /\ UNCHANGED Observed
<1> USE DEF ContentsInv, PersisterTakesSnapshot
<1>1. /\ persister'.pc = "taken" /\ persister'.snap = root
      /\ persister'.equiv = persister.equiv /\ persister'.merge = persister.merge
      /\ persister'.callbacks = persister.callbacks \cup waiting
      /\ root.internal \in Nat
  BY DEF FilesInv, TypeOK, IsPersister, IsSnapshot
<1>2. HistoryShown'
  BY DEF HistoryShown
<1>3. DeletionsGrow'
  BY <1>1 DEF DeletionsGrow, OlderThanRoot
<1>4. MergesSound'
  BY <1>1 DEF MergesSound
<1>5. SnapshotFaithful'
  BY <1>1 DEF SnapshotFaithful, HistoryShown, EquivBuilt
<1>6. BoltFaithful'
  BY <1>1 DEF BoltFaithful
<1>7. AckedInBolt'
  BY DEF AckedInBolt
<1> QED
  BY <1>2, <1>3, <1>4, <1>5, <1>6, <1>7 DEF Observed

LEMMA PersistDirectlyShows ==
  ASSUME FilesInv, ContentsInv, PersistDirectly
  PROVE  ContentsInv' /\ UNCHANGED Observed
<1> USE DEF ContentsInv, PersistDirectly
<1>1. /\ persister.pc = "taken" /\ persister'.pc = "direct"
      /\ persister'.snap = persister.snap
      /\ persister'.equiv = persister.snap.segs /\ persister'.merge = persister.merge
      /\ persister'.callbacks = persister.callbacks
  BY DEF FilesInv, TypeOK, IsPersister
<1>2. HistoryShown' /\ MergesSound' /\ AckedInBolt'
  BY <1>1 DEF HistoryShown, MergesSound, AckedInBolt
<1>3. DeletionsGrow'
  BY <1>1 DEF DeletionsGrow, OlderThanRoot, Active
<1>4. SnapshotFaithful'
  BY <1>1 DEF SnapshotFaithful, EquivBuilt, Underway, Active
<1>5. BoltFaithful'
  BY <1>1 DEF BoltFaithful, Active
<1> QED
  BY <1>2, <1>3, <1>4, <1>5 DEF Observed

LEMMA MergeInMemoryShows ==
  ASSUME PlainStore, FilesInv, ContentsInv, MergeInMemory
  PROVE  ContentsInv' /\ UNCHANGED Observed
<1> USE DEF ContentsInv
<1> DEFINE segs == persister.snap.segs
<1>1. PICK into :
        /\ DOMAIN into = MemSegs(segs) /\ DOMAIN into # {}
        /\ \A s \in DOMAIN into : into[s] = ids + 1
        /\ ids' = ids + 1
        /\ persister' = [persister EXCEPT !.pc = "merging",
                           !.merge = SegmentMerge(segs, into)]
        /\ files' = Joined(SegmentMerge(segs, into).new, files)
        /\ removal' = Marked({ids + 1})
  BY OneFlush DEF FilesInv
<1> DEFINE merge == SegmentMerge(segs, into)
<1>2. IsSegs(Documents, segs) /\ DOMAIN into \subseteq DOMAIN segs
      /\ ids + 1 \in SegmentID /\ ids + 1 \notin DOMAIN files
  BY <1>1 DEF FilesInv, TypeOK, IsPersister, IsSnapshot, MemSegs, SegmentID, FreshIDs
<1>3. MergeSound(merge) /\ NumbersDistinct(merge)
  BY <1>2, SegmentMergeSound, SegmentMergeDistinct
<1>4. /\ DOMAIN merge.new = {ids + 1}
      /\ DOMAIN merge.hist = MemSegs(segs)
      /\ \A s \in MemSegs(segs) : merge.hist[s].old = segs[s]
  BY <1>1, <1>2, MergedIntoOne
<1>5. /\ persister' = [persister EXCEPT !.pc = "merging", !.merge = merge]
      /\ files' = Joined(merge.new, files)
  BY <1>1
<1> HIDE DEF merge
<1>6. /\ UNCHANGED <<bolt, root, waiting, merger, history, acked, rollbacks>>
      /\ persister.pc = "taken" /\ persister'.pc = "merging"
      /\ persister'.snap = persister.snap /\ persister'.merge = merge
      /\ persister'.callbacks = persister.callbacks
  BY <1>5 DEF MergeInMemory, FilesInv, TypeOK, IsPersister
<1>7. \A s \in DOMAIN files : files'[s] = files[s]
  BY <1>2, <1>4, <1>5 DEF Joined
<1>8. HistoryShown' /\ AckedInBolt'
  BY <1>6 DEF HistoryShown, AckedInBolt
<1>9. DeletionsGrow'
  BY <1>4, <1>6 DEF DeletionsGrow, OlderThanRoot, Active, MemSegs
<1>10. MergesSound'
  BY <1>3, <1>4, <1>6 DEF MergesSound
<1>11. SnapshotFaithful'
  BY <1>6 DEF SnapshotFaithful, EquivBuilt, Underway, Active
<1>12. BoltFaithful'
  <2>1. \A e \in DOMAIN bolt : SegsOf(files', bolt[e]) = SegsOf(files, bolt[e])
    BY <1>7, NamedFiles, BucketShows
  <2> QED
    BY <1>6, <2>1 DEF BoltFaithful, Active
<1> QED
  BY <1>6, <1>8, <1>9, <1>10, <1>11, <1>12 DEF Observed

LEMMA WriteSegmentFilesShows ==
  ASSUME FilesInv, ContentsInv, WriteSegmentFiles
  PROVE  ContentsInv' /\ UNCHANGED Observed
<1> USE DEF ContentsInv
<1>1. /\ UNCHANGED <<bolt, root, waiting, merger, history, acked, rollbacks>>
      /\ files' = Joined([s \in ToFlush |-> persister.equiv[s].docs], files)
      /\ persister.pc = "direct"
      /\ persister'.pc \in {"commit", "written"}
      /\ persister'.snap = persister.snap /\ persister'.equiv = persister.equiv
      /\ persister'.merge = persister.merge
      /\ persister'.callbacks = persister.callbacks
  BY DEF WriteSegmentFiles, FilesInv, TypeOK, IsPersister
<1>2. \A s \in DOMAIN files : files'[s] = files[s]
  <2>1. ASSUME NEW s \in DOMAIN files, s \in ToFlush
        PROVE  files[s] = persister.equiv[s].docs
    <3>1. <<s, files[s]>> \in Versions /\ <<s, persister.equiv[s].docs>> \in Versions
      BY <2>1 DEF Versions, VersionsIn, ToFlush, MemSegs
    <3> QED
      BY <3>1 DEF FilesInv, OneVersion
  <2> QED
    BY <1>1, <2>1 DEF Joined
<1>3. HistoryShown' /\ AckedInBolt' /\ MergesSound'
  BY <1>1 DEF HistoryShown, AckedInBolt, MergesSound
<1>4. DeletionsGrow'
  BY <1>1 DEF DeletionsGrow, OlderThanRoot, Active
<1>5. SnapshotFaithful'
  BY <1>1 DEF SnapshotFaithful, EquivBuilt, Underway, Active
<1>6. BoltFaithful'
  <2>1. \A e \in DOMAIN bolt : SegsOf(files', bolt[e]) = SegsOf(files, bolt[e])
    BY <1>2, NamedFiles, BucketShows
  <2> QED
    BY <1>1, <2>1 DEF BoltFaithful, Active
<1> QED
  BY <1>1, <1>3, <1>4, <1>5, <1>6 DEF Observed

LEMMA CommitSnapshotShows ==
  ASSUME FilesInv, ContentsInv, CommitSnapshot
  PROVE  ContentsInv' /\ UNCHANGED Observed
<1> USE DEF ContentsInv
<1> DEFINE epoch == persister.snap.epoch
           equiv == persister.equiv
           named == [s \in DOMAIN equiv |-> [path |-> TRUE, del |-> equiv[s].del]]
<1>1. /\ UNCHANGED <<files, root, waiting, merger, history, acked, rollbacks>>
      /\ persister.pc = "commit" /\ persister'.pc = "committed"
      /\ persister'.snap = persister.snap /\ persister'.equiv = equiv
      /\ persister'.merge = persister.merge
      /\ persister'.callbacks = persister.callbacks
  BY DEF CommitSnapshot, FilesInv, TypeOK, IsPersister
<1>2. DOMAIN named = DOMAIN equiv /\ \A s \in DOMAIN equiv : named[s].del = equiv[s].del
  OBVIOUS
<1>3. /\ DOMAIN bolt' = DOMAIN bolt \cup {epoch}
      /\ bolt'[epoch] = [internal |-> persister.snap.internal, segs |-> named]
      /\ \A e \in DOMAIN bolt : e # epoch => bolt'[e] = bolt[e]
  <2>1. Bucket(persister.snap, equiv, persister.exclude)
          = [internal |-> persister.snap.internal, segs |-> named]
    BY <1>1, BucketIs
  <2> HIDE DEF named
  <2> QED
    BY <2>1 DEF CommitSnapshot
<1> HIDE DEF named
<1>4. bolt'[epoch].segs = named /\ bolt'[epoch].internal = persister.snap.internal
  BY <1>3
<1>5. /\ epoch \in Nat /\ \A e \in DOMAIN bolt : e <= epoch /\ e \in Nat
      /\ persister.snap.internal \in 0 .. root.internal /\ root.internal \in Nat
      /\ \A e \in DOMAIN bolt : bolt[e].internal \in Nat
                                /\ bolt[e].internal <= persister.snap.internal
  BY <1>1 DEF FilesInv, EpochsInOrder, TypeOK, IsSnapshot, IsPersister, Active,
              SnapshotFaithful, Underway, BoltFaithful
<1>6. Contents(SegsOf(files, bolt'[epoch])) = history[persister.snap.internal + 1]
  <2>1. \A s \in DOMAIN equiv : files[s] = equiv[s].docs
    <3>1. SUFFICES ASSUME NEW s \in DOMAIN equiv PROVE files[s] = equiv[s].docs
      OBVIOUS
    <3>2. s \in DOMAIN files
      BY <1>1 DEF FilesInv, FilesWritten
    <3>3. <<s, files[s]>> \in Versions /\ <<s, equiv[s].docs>> \in Versions
      BY <3>2 DEF Versions, VersionsIn
    <3> QED
      BY <3>3 DEF FilesInv, OneVersion
  <2> DEFINE loaded == SegsOf(files, bolt'[epoch])
  <2>2. /\ DOMAIN loaded = DOMAIN equiv
        /\ \A s \in DOMAIN loaded :
             loaded[s].docs = equiv[s].docs /\ loaded[s].del = equiv[s].del
    BY <1>2, <1>4, <2>1 DEF SegsOf
  <2> HIDE DEF loaded
  <2>3. Contents(loaded) = Contents(equiv)
    BY <2>2, SameContents
  <2> QED
    BY <1>1, <2>3 DEF loaded, SnapshotFaithful, Underway, Active, EquivBuilt
<1>7. HistoryShown' /\ MergesSound'
  BY <1>1 DEF HistoryShown, MergesSound
<1>8. DeletionsGrow'
  BY <1>1 DEF DeletionsGrow, OlderThanRoot, Active
<1>9. SnapshotFaithful'
  BY <1>1 DEF SnapshotFaithful, EquivBuilt, Underway, Active
<1>10. BoltFaithful'
  <2>1. ASSUME NEW e \in DOMAIN bolt'
        PROVE  /\ bolt'[e].internal \in 0 .. root.internal
               /\ Contents(SegsOf(files, bolt'[e])) = history[bolt'[e].internal + 1]
    <3>1. CASE e = epoch
      BY <1>4, <1>5, <1>6, <3>1
    <3>2. CASE e # epoch
      BY <1>3, <3>2 DEF BoltFaithful
    <3> QED
      BY <3>1, <3>2
  <2>2. ASSUME NEW e \in DOMAIN bolt', NEW f \in DOMAIN bolt', e <= f
        PROVE  bolt'[e].internal <= bolt'[f].internal
    BY <1>3, <1>4, <1>5, <2>2 DEF BoltFaithful
  <2> HIDE DEF epoch, equiv
  <2> QED
    BY <1>1, <1>4, <2>1, <2>2 DEF BoltFaithful, Active, epoch
<1>11. AckedInBolt'
  <2>1. Max(DOMAIN bolt') = epoch
    <3>1. DOMAIN bolt' \subseteq Nat /\ epoch \in DOMAIN bolt'
          /\ \A e \in DOMAIN bolt' : e <= epoch
      BY <1>3, <1>5
    <3> QED
      BY <3>1, MaxOf
  <2>2. acked <= persister.snap.internal
    <3>1. CASE DOMAIN bolt = {}
      BY <1>5, <3>1 DEF AckedInBolt
    <3>2. CASE DOMAIN bolt # {}
      <4>1. Max(DOMAIN bolt) \in DOMAIN bolt
        BY <3>2, NewestIs DEF FilesInv
      <4> QED
        BY <1>5, <3>2, <4>1 DEF AckedInBolt
    <3> QED
      BY <3>1, <3>2
  <2> QED
    BY <1>1, <1>3, <1>4, <2>1, <2>2 DEF AckedInBolt
<1> QED
  BY <1>1, <1>7, <1>8, <1>9, <1>10, <1>11 DEF Observed

---------------------------------------------------------------------------
(* Introductions that show no difference *)

\* A snapshot's segment that still is in an older stage of the root has all
\* its deletions there.
LEMMA StaysOlder ==
  ASSUME NEW S, Ages(root.segs, root'.segs, S),
         NEW s, s \notin S, NEW ss, OlderThanRoot(s, ss)
  PROVE  s \in DOMAIN root'.segs => ss.del \subseteq root'.segs[s].del
  BY DEF Ages, OlderThanRoot

\* The ids of the merged segments that are not introduced yet are in no list.
LEMMA MergeIDs ==
  ASSUME FilesInv, NEW merge \in {persister.merge, merger.merge},
         NEW s \in DOMAIN merge.new
  PROVE  ~Settled(s)
  BY DEF Settled, Pending

LEMMA MergeShowsNothing ==
  ASSUME FilesInv, ContentsInv, NEW merge \in {persister.merge, merger.merge}
  PROVE  Contents(IntroduceMerge(root.segs, merge)) = Contents(root.segs)
<1>1. IsSegs(Documents, root.segs) /\ IsMerge(Documents, merge)
  BY DEF FilesInv, TypeOK, IsSnapshot, IsPersister, IsMerger
<1>2. MergeSound(merge) /\ NumbersDistinct(merge)
  BY DEF ContentsInv, MergesSound
<1>3. Matches(root.segs, merge)
  BY MergesMatch DEF FilesInv
<1>4. DOMAIN merge.new \cap DOMAIN root.segs = {}
  BY MergeIDs DEF FilesInv, FreshIDs
<1>5. \A s \in DOMAIN merge.hist : s \in DOMAIN root.segs =>
        merge.hist[s].old.del \subseteq root.segs[s].del
  BY DEF ContentsInv, DeletionsGrow, OlderThanRoot
<1> QED
  BY <1>1, <1>2, <1>3, <1>4, <1>5, IntroduceMergeShowsNothing

\* The deletions of whatever is not in S go on growing when the root ages but
\* for S, and merges and snapshots are kept or given up.
LEMMA DeletionsGoOnGrowing ==
  ASSUME ContentsInv, NEW S, Ages(root.segs, root'.segs, S),
         Active' => Active /\ persister'.snap = persister.snap,
         merger'.segs \in {merger.segs, NoSegs},
         {persister'.merge, merger'.merge}
           \subseteq {persister.merge, merger.merge, NoMerge},
         Active => S \cap DOMAIN persister.snap.segs = {},
         S \cap DOMAIN merger.segs = {},
         S \cap (DOMAIN persister.merge.hist \cup DOMAIN merger.merge.hist) = {}
  PROVE  DeletionsGrow'
<1>1. DOMAIN NoSegs = {} /\ NoMerge.hist = NoSegs
  BY DEF NoSegs, NoMerge
<1>2. ASSUME Active', NEW s \in DOMAIN persister'.snap.segs
      PROVE  OlderThanRoot(s, persister.snap.segs[s])'
  <2>1. OlderThanRoot(s, persister.snap.segs[s]) /\ s \notin S
    BY <1>2 DEF ContentsInv, DeletionsGrow
  <2>2. s \in DOMAIN root'.segs => persister.snap.segs[s].del \subseteq root'.segs[s].del
    BY <2>1, StaysOlder
  <2> QED
    BY <1>2, <2>2 DEF OlderThanRoot
<1>3. ASSUME NEW s \in DOMAIN merger'.segs
      PROVE  OlderThanRoot(s, merger.segs[s])'
  <2>1. merger'.segs = merger.segs
    BY <1>1, <1>3
  <2>2. OlderThanRoot(s, merger.segs[s]) /\ s \notin S
    BY <1>3, <2>1 DEF ContentsInv, DeletionsGrow
  <2>3. s \in DOMAIN root'.segs => merger.segs[s].del \subseteq root'.segs[s].del
    BY <2>2, StaysOlder
  <2> QED
    BY <2>1, <2>3 DEF OlderThanRoot
<1>4. ASSUME NEW merge \in {persister'.merge, merger'.merge}, NEW s \in DOMAIN merge.hist
      PROVE  s \in DOMAIN root'.segs => merge.hist[s].old.del \subseteq root'.segs[s].del
  <2>1. merge \in {persister.merge, merger.merge}
    BY <1>1, <1>4
  <2>2. OlderThanRoot(s, merge.hist[s].old) /\ s \notin S
    BY <1>4, <2>1 DEF ContentsInv, DeletionsGrow
  <2> QED
    BY <2>2, StaysOlder
<1>5. \A merge \in {persister'.merge, merger'.merge} :
        \A s \in DOMAIN merge.hist : s \in DOMAIN root'.segs =>
          merge.hist[s].old.del \subseteq root'.segs[s].del
  BY <1>4
<1> QED
  BY <1>2, <1>3, <1>5 DEF DeletionsGrow, OlderThanRoot

\* The segments that stay and the merged segments, none of whose documents
\* was deleted yet, show what the snapshot that was merged shows.
LEMMA EquivShows ==
  ASSUME NEW D, NEW snap, IsSegs(D, snap), NEW merge, IsMerge(D, merge),
         MergeSound(merge), NumbersDistinct(merge),
         \A s \in DOMAIN merge.hist :
           s \in DOMAIN snap /\ merge.hist[s].old = snap[s],
         DOMAIN merge.new \cap DOMAIN snap = {},
         NEW new, new = [id \in DOMAIN merge.new |->
                           [docs |-> merge.new[id], del |-> {}, file |-> TRUE]]
  PROVE  Contents(Joined(Without(snap, DOMAIN merge.hist), new)) = Contents(snap)
<1> DEFINE rest == Without(snap, DOMAIN merge.hist)
<1>1. MergedSegs(snap, merge) = new
  <2>1. \A s \in DOMAIN merge.hist : DeletedSince(snap, merge, s) = {}
    BY DEF DeletedSince
  <2>2. \A id \in DOMAIN merge.new : NewDeleted(snap, merge, id) = {}
    BY <2>1 DEF NewDeleted
  <2> QED
    BY <2>2 DEF MergedSegs
<1>2. Contents(IntroduceMerge(snap, merge)) = Contents(snap)
  <2>1. Matches(snap, merge)
    BY DEF Matches
  <2> QED
    BY <2>1, IntroduceMergeShowsNothing
<1>3. IntroduceMerge(snap, merge) = Joined(LiveOnly(rest), LiveOnly(new))
  BY <1>1 DEF IntroduceMerge
<1>4. /\ DOMAIN rest \cap DOMAIN new = {}
      /\ DOMAIN LiveOnly(rest) \subseteq DOMAIN rest
      /\ DOMAIN LiveOnly(new) \subseteq DOMAIN new
  BY DEF Without, LiveOnly, Only
<1> HIDE DEF rest
<1>5. /\ Contents(Joined(LiveOnly(rest), LiveOnly(new)))
           = Contents(LiveOnly(rest)) \cup Contents(LiveOnly(new))
      /\ Contents(Joined(rest, new)) = Contents(rest) \cup Contents(new)
  BY <1>4, ContentsOfJoined
<1>6. Contents(LiveOnly(rest)) = Contents(rest) /\ Contents(LiveOnly(new)) = Contents(new)
  BY ContentsOfLiveOnly
<1> QED
  BY <1>2, <1>3, <1>5, <1>6 DEF rest

LEMMA IntroduceInMemoryMergeShows ==
  ASSUME FilesInv, ContentsInv, IntroduceInMemoryMerge
  PROVE  ContentsInv' /\ UNCHANGED Observed
<1> DEFINE merge   == persister.merge
           snap    == persister.snap.segs
           newSegs == IntroduceMerge(root.segs, merge)
           new     == [id \in DOMAIN merge.new |->
                         [docs |-> merge.new[id], del |-> {}, file |-> TRUE]]
<1>1. /\ UNCHANGED <<files, bolt, waiting, merger, history, acked, rollbacks>>
      /\ root'.segs = newSegs /\ root'.internal = root.internal
      /\ persister.pc = "merging" /\ persister'.pc = "direct"
      /\ persister'.snap = persister.snap /\ persister'.merge = NoMerge
      /\ persister'.callbacks = persister.callbacks
      /\ \/ persister'.equiv = snap
         \/ /\ DOMAIN merge.new \cap DOMAIN newSegs # {}
            /\ persister'.equiv = Equiv(snap, merge, newSegs)
  BY DEF IntroduceInMemoryMerge, SwapRoot, IndexSnapshot, FilesInv, TypeOK, IsPersister
<1>2. Contents(root'.segs) = Contents(root.segs)
  BY <1>1, MergeShowsNothing
<1>3. Contents(persister'.equiv) = Contents(snap)
  <2>1. CASE persister'.equiv = snap
    BY <2>1
  <2>2. CASE /\ DOMAIN merge.new \cap DOMAIN newSegs # {}
             /\ persister'.equiv = Equiv(snap, merge, newSegs)
    <3>1. DOMAIN merge.new \cap DOMAIN newSegs = DOMAIN merge.new
      BY <2>2 DEF ContentsInv, MergesSound
    <3>2. persister'.equiv = Joined(Without(snap, DOMAIN merge.hist), new)
      BY <2>2, <3>1 DEF Equiv
    <3>3. IsSegs(Documents, snap) /\ IsMerge(Documents, merge)
      BY DEF FilesInv, TypeOK, IsSnapshot, IsPersister
    <3>4. \A s \in DOMAIN merge.hist : s \in DOMAIN snap /\ merge.hist[s].old = snap[s]
      BY <1>1 DEF ContentsInv, MergesSound, FilesInv, EquivOfSnapshot, MemSegs
    <3>5. MergeSound(merge) /\ NumbersDistinct(merge)
      BY DEF ContentsInv, MergesSound
    <3>6. DOMAIN merge.new \cap DOMAIN snap = {}
      BY MergeIDs DEF FilesInv, FreshIDs
    <3>7. PICK list : list = new
      OBVIOUS
    <3> HIDE DEF merge, snap
    <3>8. Contents(Joined(Without(snap, DOMAIN merge.hist), list)) = Contents(snap)
      BY <3>3, <3>4, <3>5, <3>6, <3>7, EquivShows
    <3> QED
      BY <3>2, <3>7, <3>8
  <2> QED
    BY <1>1, <2>1, <2>2
<1>4. DeletionsGrow'
  <2>1. Ages(root.segs, root'.segs, DOMAIN merge.new)
    BY <1>1, IntroduceMergeAges
  <2>2. /\ DOMAIN merge.new \cap DOMAIN snap = {}
        /\ DOMAIN merge.new \cap DOMAIN merger.segs = {}
        /\ DOMAIN merge.new \cap (DOMAIN persister.merge.hist
                                    \cup DOMAIN merger.merge.hist) = {}
    BY MergeIDs DEF FilesInv, FreshIDs
  <2>3. /\ Active /\ persister'.snap = persister.snap /\ merger'.segs = merger.segs
        /\ persister'.merge = NoMerge /\ merger'.merge = merger.merge
    BY <1>1 DEF Active
  <2> HIDE DEF merge
  <2> QED
    BY <2>1, <2>2, <2>3, DeletionsGoOnGrowing
<1> HIDE DEF newSegs
<1>5. HistoryShown' /\ AckedInBolt'
  BY <1>1, <1>2 DEF ContentsInv, HistoryShown, AckedInBolt
<1>6. MergesSound'
  BY <1>1, NoMergeDistinct DEF ContentsInv, MergesSound, NoMerge, NoSegs
<1>7. SnapshotFaithful'
  BY <1>1, <1>3 DEF ContentsInv, SnapshotFaithful, Underway, Active
<1>8. BoltFaithful'
  BY <1>1 DEF ContentsInv, BoltFaithful, Active
<1> QED
  BY <1>1, <1>2, <1>4, <1>5, <1>6, <1>7, <1>8 DEF ContentsInv, Observed

LEMMA IntroducePersistedShows ==
  ASSUME FilesInv, ContentsInv, IntroducePersisted
  PROVE  ContentsInv' /\ UNCHANGED Observed
<1>1. /\ UNCHANGED <<files, bolt, waiting, merger, history, acked, rollbacks>>
      /\ root'.segs = IntroducePersist(root.segs, ToFlush)
      /\ root'.internal = root.internal
      /\ persister.pc = "written" /\ persister'.pc = "commit"
      /\ persister'.snap = persister.snap /\ persister'.equiv = persister.equiv
      /\ persister'.merge = persister.merge
      /\ persister'.callbacks = persister.callbacks
  BY DEF IntroducePersisted, SwapRoot, IndexSnapshot, FilesInv, TypeOK, IsPersister
<1>2. Contents(root'.segs) = Contents(root.segs)
  BY <1>1, ContentsOfPersist
<1>3. DeletionsGrow'
  <2>1. Ages(root.segs, root'.segs, {})
    BY <1>1, IntroducePersistAges
  <2> QED
    BY <1>1, <2>1, DeletionsGoOnGrowing DEF Active
<1>4. HistoryShown' /\ AckedInBolt'
  BY <1>1, <1>2 DEF ContentsInv, HistoryShown, AckedInBolt
<1>5. MergesSound'
  BY <1>1 DEF ContentsInv, MergesSound
<1>6. SnapshotFaithful' /\ BoltFaithful'
  BY <1>1 DEF ContentsInv, SnapshotFaithful, BoltFaithful, EquivBuilt, Underway, Active
<1> QED
  BY <1>1, <1>2, <1>3, <1>4, <1>5, <1>6 DEF ContentsInv, Observed

LEMMA IntroduceFileMergeShows ==
  ASSUME FilesInv, ContentsInv, IntroduceFileMerge
  PROVE  ContentsInv' /\ UNCHANGED Observed
<1> DEFINE merge == merger.merge
<1>1. /\ UNCHANGED <<files, bolt, waiting, persister, history, acked, rollbacks>>
      /\ root'.segs = IntroduceMerge(root.segs, merge)
      /\ root'.internal = root.internal
      /\ merger'.segs = merger.segs /\ merger'.merge = NoMerge
  BY DEF IntroduceFileMerge, SwapRoot, IndexSnapshot, FilesInv, TypeOK, IsMerger
<1>2. Contents(root'.segs) = Contents(root.segs)
  BY <1>1, MergeShowsNothing
<1>3. DeletionsGrow'
  <2>1. Ages(root.segs, root'.segs, DOMAIN merge.new)
    BY <1>1, IntroduceMergeAges
  <2>2. /\ DOMAIN merge.new \cap DOMAIN persister.snap.segs = {}
        /\ DOMAIN merge.new \cap DOMAIN merger.segs = {}
        /\ DOMAIN merge.new \cap (DOMAIN persister.merge.hist
                                    \cup DOMAIN merger.merge.hist) = {}
    BY MergeIDs DEF FilesInv, FreshIDs
  <2>3. /\ Active' <=> Active
        /\ persister'.snap = persister.snap /\ merger'.segs = merger.segs
        /\ persister'.merge = persister.merge /\ merger'.merge = NoMerge
    BY <1>1 DEF Active
  <2> HIDE DEF merge
  <2> QED
    BY <2>1, <2>2, <2>3, DeletionsGoOnGrowing
<1> HIDE DEF merge
<1>4. HistoryShown' /\ AckedInBolt'
  BY <1>1, <1>2 DEF ContentsInv, HistoryShown, AckedInBolt
<1>5. MergesSound'
  BY <1>1, NoMergeDistinct DEF ContentsInv, MergesSound
<1>6. SnapshotFaithful' /\ BoltFaithful'
  BY <1>1 DEF ContentsInv, SnapshotFaithful, BoltFaithful, EquivBuilt, Underway, Active
<1> QED
  BY <1>1, <1>2, <1>3, <1>4, <1>5, <1>6 DEF ContentsInv, Observed

---------------------------------------------------------------------------
(* The rest of the persister *)

\* The persister starts over: it has no snapshot and no merge any more.
LEMMA RestingShows ==
  ASSUME ContentsInv, NEW epoch, NEW callbacks \in SUBSET persister.callbacks,
         persister' = Resting(epoch, callbacks),
         UNCHANGED <<files, bolt, root, waiting, merger, history>>
  PROVE  /\ HistoryShown' /\ DeletionsGrow' /\ MergesSound'
         /\ SnapshotFaithful' /\ BoltFaithful'
<1>1. /\ persister'.pc = "top" /\ persister'.merge = NoMerge
      /\ NoMerge.hist = NoSegs /\ NoMerge.new = NoSegs /\ DOMAIN NoSegs = {}
      /\ ~Active' /\ ~EquivBuilt' /\ ~Underway'
      /\ persister'.callbacks = callbacks
  BY AtRest DEF Underway, Resting
<1>2. HistoryShown'
  BY DEF ContentsInv, HistoryShown
<1>3. DeletionsGrow'
  BY <1>1 DEF ContentsInv, DeletionsGrow, OlderThanRoot
<1>4. MergesSound'
  BY <1>1, NoMergeDistinct DEF ContentsInv, MergesSound
<1>5. SnapshotFaithful' /\ BoltFaithful'
  BY <1>1 DEF ContentsInv, SnapshotFaithful, BoltFaithful
<1> QED
  BY <1>2, <1>3, <1>4, <1>5

\* The callers told had their batches in the snapshot that was committed.
LEMMA SnapshotPersistedShows ==
  ASSUME FilesInv, ContentsInv, SnapshotPersisted
  PROVE  /\ ContentsInv'
         /\ \E n \in acked .. Len(history) - 1 : Durable!Acknowledge(n)
<1> DEFINE told == {acked} \cup persister.callbacks
           snap == persister.snap
<1>1. /\ UNCHANGED <<files, bolt, root, waiting, merger, history, rollbacks>>
      /\ persister.pc = "committed" /\ persister' = Resting(snap.epoch, {})
      /\ acked' = Max(told)
  BY DEF SnapshotPersisted
<1>2. /\ snap.internal \in Nat /\ snap.internal <= root.internal
      /\ root.internal \in Nat /\ Len(history) = root.internal + 1
      /\ persister.callbacks \subseteq 0 .. snap.internal
  BY <1>1 DEF ContentsInv, SnapshotFaithful, Underway, HistoryShown, FilesInv,
              TypeOK, IsSnapshot, IsPersister
<1>3. /\ DOMAIN bolt # {} /\ Max(DOMAIN bolt) = snap.epoch
      /\ bolt[snap.epoch].internal = snap.internal
  <2>1. DOMAIN bolt \subseteq Nat /\ snap.epoch \in DOMAIN bolt
        /\ \A e \in DOMAIN bolt : e <= snap.epoch
    BY <1>1 DEF FilesInv, EpochsInOrder, TypeOK, IsSnapshot
  <2>2. Max(DOMAIN bolt) = snap.epoch
    BY <2>1, MaxOf
  <2> QED
    BY <1>1, <2>1, <2>2 DEF ContentsInv, BoltFaithful
<1>4. acked \in Nat /\ acked <= snap.internal
  BY <1>3 DEF ContentsInv, AckedInBolt
<1>5. acked' \in told /\ acked <= acked'
  <2>1. told \subseteq Nat /\ told # {} /\ \A n \in told : n <= snap.internal
    BY <1>2, <1>4
  <2> HIDE DEF told
  <2>2. Max(told) \in told /\ \A n \in told : n <= Max(told)
    BY <1>2, <2>1, MaxIs
  <2> QED
    BY <1>1, <2>2 DEF told
<1>6. acked' \in Nat /\ acked' <= snap.internal
  BY <1>2, <1>4, <1>5
<1>7. AckedInBolt'
  BY <1>1, <1>3, <1>6 DEF AckedInBolt
<1> HIDE DEF told
<1>8. HistoryShown' /\ DeletionsGrow' /\ MergesSound' /\ SnapshotFaithful' /\ BoltFaithful'
  BY <1>1, RestingShows
<1>9. Durable!Acknowledge(acked')
  BY <1>1 DEF Durable!Acknowledge
<1> QED
  BY <1>2, <1>4, <1>5, <1>6, <1>7, <1>8, <1>9 DEF ContentsInv

LEMMA PersistFailsShows ==
  ASSUME ContentsInv, PersistFails
  PROVE  ContentsInv' /\ UNCHANGED Observed
<1>1. /\ UNCHANGED <<files, bolt, root, waiting, merger, history, acked, rollbacks>>
      /\ persister' = Resting(persister.lastPersistedEpoch, persister.callbacks)
  BY DEF PersistFails
<1>2. HistoryShown' /\ DeletionsGrow' /\ MergesSound' /\ SnapshotFaithful' /\ BoltFaithful'
  BY <1>1, RestingShows
<1> QED
  BY <1>1, <1>2 DEF ContentsInv, AckedInBolt, Observed

LEMMA RemoveOldBoltSnapshotsShows ==
  ASSUME FilesInv, ContentsInv, RemoveOldBoltSnapshots
  PROVE  ContentsInv' /\ UNCHANGED Observed
<1>1. /\ UNCHANGED <<files, root, waiting, merger, history, acked, rollbacks>>
      /\ persister.pc = "top" /\ persister'.pc = "purge"
      /\ persister'.snap = persister.snap /\ persister'.equiv = persister.equiv
      /\ persister'.merge = persister.merge
      /\ persister'.callbacks = persister.callbacks
  BY DEF RemoveOldBoltSnapshots, FilesInv, TypeOK, IsPersister
<1>2. /\ DOMAIN bolt' \subseteq DOMAIN bolt
      /\ \A e \in DOMAIN bolt' : bolt'[e] = bolt[e]
      /\ DOMAIN bolt # {} => /\ Max(DOMAIN bolt) \in DOMAIN bolt'
                             /\ Max(DOMAIN bolt') = Max(DOMAIN bolt)
  BY NewestProtected DEF FilesInv
<1>3. HistoryShown' /\ MergesSound'
  BY <1>1 DEF ContentsInv, HistoryShown, MergesSound
<1>4. DeletionsGrow'
  BY <1>1 DEF ContentsInv, DeletionsGrow, OlderThanRoot, Active
<1>5. SnapshotFaithful'
  BY <1>1 DEF ContentsInv, SnapshotFaithful, EquivBuilt, Underway, Active
<1>6. BoltFaithful'
  BY <1>1, <1>2 DEF ContentsInv, BoltFaithful, Active
<1>7. AckedInBolt'
  BY <1>1, <1>2 DEF ContentsInv, AckedInBolt
<1> QED
  BY <1>1, <1>3, <1>4, <1>5, <1>6, <1>7 DEF ContentsInv, Observed

LEMMA RemoveOldZapFilesShows ==
  ASSUME FilesInv, ContentsInv, RemoveOldZapFiles
  PROVE  ContentsInv' /\ UNCHANGED Observed
<1>1. /\ UNCHANGED <<bolt, root, waiting, merger, history, acked, rollbacks>>
      /\ persister.pc = "purge" /\ persister'.pc = "top"
      /\ persister'.snap = persister.snap /\ persister'.equiv = persister.equiv
      /\ persister'.merge = persister.merge
      /\ persister'.callbacks = persister.callbacks
      /\ files' = Only(files, InUse)
  BY DEF RemoveOldZapFiles, FilesInv, TypeOK, IsPersister
<1>2. ASSUME NEW e \in DOMAIN bolt
      PROVE  SegsOf(files', bolt[e]) = SegsOf(files, bolt[e])
  <2>1. \A s \in DOMAIN bolt[e].segs : files'[s] = files[s]
    BY <1>1, NamedFiles DEF Only, InUse, NamedInBolt
  <2> QED
    BY <2>1, BucketShows
<1>3. HistoryShown' /\ MergesSound' /\ AckedInBolt'
  BY <1>1 DEF ContentsInv, HistoryShown, MergesSound, AckedInBolt
<1>4. DeletionsGrow'
  BY <1>1 DEF ContentsInv, DeletionsGrow, OlderThanRoot, Active
<1>5. SnapshotFaithful'
  BY <1>1 DEF ContentsInv, SnapshotFaithful, EquivBuilt, Underway, Active
<1>6. BoltFaithful'
  BY <1>1, <1>2 DEF ContentsInv, BoltFaithful, Active
<1> QED
  BY <1>1, <1>3, <1>4, <1>5, <1>6 DEF ContentsInv, Observed

---------------------------------------------------------------------------
(* The merger, references and copies *)

\* A step of the merger that neither introduces a merge nor writes a file.
LEMMA MergerShows ==
  ASSUME ContentsInv, DeletionsGrow', merger'.merge = NoMerge,
         UNCHANGED <<files, bolt, root, waiting, persister, acked, history, rollbacks>>
  PROVE  ContentsInv' /\ UNCHANGED Observed
<1>1. HistoryShown' /\ AckedInBolt'
  BY DEF ContentsInv, HistoryShown, AckedInBolt
<1>2. MergesSound'
  BY NoMergeDistinct DEF ContentsInv, MergesSound
<1>3. SnapshotFaithful' /\ BoltFaithful'
  BY DEF ContentsInv, SnapshotFaithful, BoltFaithful, EquivBuilt, Underway, Active
<1> QED
  BY <1>1, <1>2, <1>3 DEF ContentsInv, Observed

LEMMA MergerTakesSnapshotShows ==
  ASSUME ContentsInv, MergerTakesSnapshot
  PROVE  ContentsInv' /\ UNCHANGED Observed
<1> DEFINE taken == Only(root.segs, FileSegs(root.segs))
<1>1. /\ UNCHANGED <<files, bolt, root, waiting, persister, acked, history, rollbacks>>
      /\ merger'.merge = NoMerge /\ merger'.segs = taken
  BY DEF MergerTakesSnapshot, NoTask
<1>2. NoMerge.hist = NoSegs /\ DOMAIN NoSegs = {}
      /\ \A s \in DOMAIN taken : taken[s] = root.segs[s]
  BY DEF NoMerge, NoSegs, Only
<1> HIDE DEF taken
<1>3. DeletionsGrow'
  BY <1>1, <1>2 DEF ContentsInv, DeletionsGrow, OlderThanRoot, Active
<1> QED
  BY <1>1, <1>3, MergerShows

\* The plan is done or given up.
LEMMA MergerStopsShows ==
  ASSUME ContentsInv, merger' = NoTask,
         UNCHANGED <<files, bolt, root, waiting, persister, acked, history, rollbacks>>
  PROVE  ContentsInv' /\ UNCHANGED Observed
<1>1. /\ merger'.merge = NoMerge /\ merger'.segs = NoSegs
      /\ NoMerge.hist = NoSegs /\ DOMAIN NoSegs = {}
  BY DEF NoTask, NoMerge, NoSegs
<1>2. DeletionsGrow'
  BY <1>1 DEF ContentsInv, DeletionsGrow, OlderThanRoot, Active
<1> QED
  BY <1>1, <1>2, MergerShows

LEMMA StartFileMergeShows ==
  ASSUME FilesInv, ContentsInv, NEW S, StartFileMerge(S)
  PROVE  ContentsInv' /\ UNCHANGED Observed
<1> DEFINE into  == [s \in S |-> ids + 1]
           merge == SegmentMerge(merger.segs, into)
<1>1. /\ UNCHANGED <<bolt, root, waiting, persister, acked, history, rollbacks>>
      /\ files' = Joined(merge.new, files)
      /\ merger'.segs = Without(merger.segs, S) /\ merger'.merge = merge
  BY DEF StartFileMerge, FilesInv, TypeOK, IsMerger
<1>2. /\ IsSegs(Documents, merger.segs) /\ S \subseteq DOMAIN merger.segs
      /\ DOMAIN into = S /\ \A s \in S : into[s] = ids + 1
      /\ ids + 1 \notin DOMAIN files
  BY DEF StartFileMerge, FilesInv, TypeOK, IsMerger, FreshIDs
<1> HIDE DEF into
<1>3. MergeSound(merge) /\ NumbersDistinct(merge)
  BY <1>2, SegmentMergeSound, SegmentMergeDistinct
<1>4. /\ DOMAIN merge.new = {into[s] : s \in S}
      /\ DOMAIN merge.hist = S
      /\ \A s \in S : merge.hist[s].old = merger.segs[s]
  BY <1>2, SegmentMergeIDs
<1> HIDE DEF merge
<1>5. \A s \in DOMAIN files : files'[s] = files[s]
  BY <1>1, <1>2, <1>4 DEF Joined
<1>6. HistoryShown' /\ AckedInBolt'
  BY <1>1 DEF ContentsInv, HistoryShown, AckedInBolt
<1>7. DeletionsGrow'
  BY <1>1, <1>2, <1>4 DEF ContentsInv, DeletionsGrow, OlderThanRoot, Active, Without
<1>8. MergesSound'
  BY <1>1, <1>3 DEF ContentsInv, MergesSound
<1>9. SnapshotFaithful'
  BY <1>1 DEF ContentsInv, SnapshotFaithful, EquivBuilt, Underway, Active
<1>10. BoltFaithful'
  <2>1. \A e \in DOMAIN bolt : SegsOf(files', bolt[e]) = SegsOf(files, bolt[e])
    BY <1>5, NamedFiles, BucketShows
  <2> QED
    BY <1>1, <2>1 DEF ContentsInv, BoltFaithful, Active
<1> QED
  BY <1>1, <1>6, <1>7, <1>8, <1>9, <1>10 DEF ContentsInv, Observed

\* A step that only references or copies are changed by.
LEMMA NothingShows ==
  ASSUME ContentsInv, UNCHANGED <<files, bolt, root, waiting, persister, merger,
                                  acked, history, rollbacks>>
  PROVE  ContentsInv' /\ UNCHANGED Observed
<1>1. HistoryShown' /\ AckedInBolt' /\ MergesSound'
  BY DEF ContentsInv, HistoryShown, AckedInBolt, MergesSound
<1>2. DeletionsGrow'
  BY DEF ContentsInv, DeletionsGrow, OlderThanRoot, Active
<1>3. SnapshotFaithful' /\ BoltFaithful'
  BY DEF ContentsInv, SnapshotFaithful, BoltFaithful, EquivBuilt, Underway, Active
<1> QED
  BY <1>1, <1>2, <1>3 DEF ContentsInv, Observed

---------------------------------------------------------------------------
(* Batches *)

\* The abstract step of a batch.
LEMMA IntroduceShows ==
  ASSUME FilesInv, ContentsInv, NEW b \in Batch, Introduce(b)
  PROVE  ContentsInv' /\ Durable!Apply(b)
<1>1. PICK next :
        /\ next.id = ids + 1 /\ next.ids = Durable!Ids(b)
        /\ next.obsoletes = Obsoletes(root.segs, next.ids)
        /\ {next.docs[n] : n \in DOMAIN next.docs} = Durable!DocsOf(b)
        /\ root' = IndexSnapshot(root.epoch + 1, IntroduceSegment(root.segs, next),
                                 root.internal + 1)
        /\ history' = Append(history, Contents(root'.segs))
  BY IntroducedSegment DEF FilesInv
<1>2. /\ UNCHANGED <<files, bolt, persister, merger, acked, rollbacks>>
      /\ waiting' = waiting \cup {root.internal + 1}
      /\ root'.segs = IntroduceSegment(root.segs, next)
      /\ root'.internal = root.internal + 1 /\ root.internal \in Nat
  BY <1>1 DEF Introduce, IndexSnapshot, FilesInv, TypeOK, IsSnapshot
<1>3. ~Settled(next.id) /\ next.id \notin DOMAIN root.segs
  BY <1>1 DEF FilesInv, FreshIDs, Settled, TypeOK
<1>4. Contents(root'.segs) = Durable!Applied(Contents(root.segs), b)
  <2>1. Contents(root'.segs) = {d \in Contents(root.segs) : d.id \notin next.ids}
                                 \cup {next.docs[n] : n \in DOMAIN next.docs}
    BY <1>1, <1>2, <1>3, DeltaExact, IntroduceSegmentShows
  <2> QED
    BY <1>1, <2>1 DEF Durable!Applied
<1>5. Durable!Apply(b)
  BY <1>1, <1>2, <1>4 DEF Durable!Apply
<1>6. DeletionsGrow'
  <2>1. Ages(root.segs, root'.segs, {next.id})
    BY <1>2, IntroduceSegmentAges
  <2>2. /\ {next.id} \cap DOMAIN persister.snap.segs = {}
        /\ {next.id} \cap DOMAIN merger.segs = {}
        /\ {next.id} \cap (DOMAIN persister.merge.hist
                             \cup DOMAIN merger.merge.hist) = {}
    BY <1>3 DEF FilesInv, FreshIDs
  <2>3. /\ Active' <=> Active
        /\ persister'.snap = persister.snap /\ merger'.segs = merger.segs
        /\ persister'.merge = persister.merge /\ merger'.merge = merger.merge
    BY <1>2 DEF Active
  <2> QED
    BY <2>1, <2>2, <2>3, DeletionsGoOnGrowing
<1>7. /\ history' \in Seq(SUBSET Documents)
      /\ Len(history') = root'.internal + 1
      /\ history'[1] = history[1]
      /\ \A i \in 0 .. root.internal : history'[i + 1] = history[i + 1]
      /\ history'[root'.internal + 1] = Contents(root'.segs)
  <2>1. Contents(root'.segs) \in SUBSET Documents
    BY IntroduceKeeps, ContentsType DEF FilesInv, TypeOK, IsSnapshot
  <2>2. history \in Seq(SUBSET Documents) /\ Len(history) = root.internal + 1
    BY DEF ContentsInv, HistoryShown
  <2>3. PICK shown \in SUBSET Documents : shown = Contents(root'.segs)
    BY <2>1
  <2>4. history' = Append(history, shown)
    BY <1>1, <2>3
  <2> QED
    BY <1>2, <2>2, <2>3, <2>4
<1>8. HistoryShown'
  <2>1. history'[1] = {}
    BY <1>7 DEF ContentsInv, HistoryShown
  <2> QED
    BY <1>7, <2>1 DEF HistoryShown
<1>9. MergesSound' /\ AckedInBolt'
  BY <1>2 DEF ContentsInv, MergesSound, AckedInBolt
<1>10. SnapshotFaithful'
  BY <1>2, <1>7 DEF ContentsInv, SnapshotFaithful, EquivBuilt, Underway, Active
<1>11. BoltFaithful'
  <2>1. ASSUME NEW e \in DOMAIN bolt
        PROVE  /\ bolt[e].internal \in 0 .. root'.internal
               /\ Contents(SegsOf(files, bolt[e])) = history'[bolt[e].internal + 1]
    <3>1. /\ bolt[e].internal \in 0 .. root.internal
          /\ Contents(SegsOf(files, bolt[e])) = history[bolt[e].internal + 1]
      BY DEF ContentsInv, BoltFaithful
    <3> QED
      BY <1>2, <1>7, <3>1
  <2> QED
    BY <1>2, <2>1 DEF ContentsInv, BoltFaithful, Active
<1> QED
  BY <1>5, <1>6, <1>8, <1>9, <1>10, <1>11 DEF ContentsInv

---------------------------------------------------------------------------
(* Restarts and rollbacks *)

LEMMA PrefixOf ==
  ASSUME NEW D, NEW s \in Seq(D), NEW n \in Nat, n < Len(s)
  PROVE  /\ SubSeq(s, 1, n + 1) \in Seq(D)
         /\ Len(SubSeq(s, 1, n + 1)) = n + 1
         /\ \A i \in 1 .. n + 1 : SubSeq(s, 1, n + 1)[i] = s[i]
  OBVIOUS

\* The index that is opened is the one after the batches of the newest of the
\* snapshots.
LEMMA OpenShows ==
  ASSUME FilesInv, ContentsInv, NEW epochs, epochs \subseteq DOMAIN bolt, Open(epochs)
  PROVE  /\ HistoryShown' /\ DeletionsGrow' /\ MergesSound'
         /\ SnapshotFaithful' /\ BoltFaithful'
         /\ root'.internal \in 0 .. Len(history) - 1
         /\ root'.internal = IF epochs = {} THEN 0 ELSE bolt[Max(epochs)].internal
         /\ DOMAIN bolt' = epochs /\ \A e \in epochs : bolt'[e] = bolt[e]
         /\ Durable!BackTo(root'.internal)
<1> DEFINE m == Max(epochs)
           loaded == LoadNewest(epochs)
           n == loaded.internal
<1>1. /\ DOMAIN bolt' = epochs /\ \A e \in epochs : bolt'[e] = bolt[e]
      /\ root' = loaded /\ root'.internal = n
      /\ files' = Only(files, UNION {NamedBy(e) : e \in epochs})
      /\ waiting' = {} /\ persister' = Resting(0, {}) /\ merger' = NoTask
      /\ history' = SubSeq(history, 1, n + 1)
  BY DEF Open, Only
<1>2. /\ epochs = {} => n = 0 /\ loaded.segs = NoSegs
      /\ epochs # {} => n = bolt[m].internal /\ loaded.segs = SegsOf(files, bolt[m])
  BY LoadsNewest, LoadedIs, LoadedShows DEF NoSnapshot, IndexSnapshot
<1>3. epochs # {} => m \in epochs /\ \A e \in epochs : e <= m
  <2>1. /\ root.epoch \in Nat /\ epochs \subseteq Nat
        /\ \A e \in epochs : e <= root.epoch
    BY DEF FilesInv, EpochsInOrder, TypeOK, IsSnapshot
  <2> QED
    BY <2>1, MaxIs
<1> HIDE DEF loaded, m
<1>4. /\ history \in Seq(SUBSET Documents) /\ Len(history) = root.internal + 1
      /\ history[1] = {} /\ root.internal \in Nat
  BY DEF ContentsInv, HistoryShown, FilesInv, TypeOK, IsSnapshot
<1>5. n \in Nat /\ n <= root.internal /\ Contents(loaded.segs) = history[n + 1]
  <2>1. CASE epochs = {}
    <3>1. n = 0 /\ Contents(loaded.segs) = {} /\ history[0 + 1] = {}
      BY <1>2, <1>4, <2>1, ContentsOfNone
    <3> QED
      BY <1>4, <3>1
  <2>2. CASE epochs # {}
    BY <1>2, <1>3, <1>4, <2>2 DEF ContentsInv, BoltFaithful
  <2> QED
    BY <2>1, <2>2
<1> HIDE DEF n
<1>6. /\ history' \in Seq(SUBSET Documents) /\ Len(history') = n + 1
      /\ \A i \in 1 .. n + 1 : history'[i] = history[i]
  BY <1>1, <1>4, <1>5, PrefixOf
<1>7. HistoryShown'
  BY <1>1, <1>4, <1>5, <1>6 DEF HistoryShown
<1>8. /\ persister'.pc = "top" /\ persister'.merge = NoMerge
      /\ persister'.callbacks = {} /\ ~Active' /\ ~EquivBuilt' /\ ~Underway'
      /\ NoMerge.hist = NoSegs /\ NoMerge.new = NoSegs /\ DOMAIN NoSegs = {}
      /\ merger'.segs = NoSegs /\ merger'.merge = NoMerge
  BY <1>1, AtRest DEF Underway, Resting, NoTask
<1>9. DeletionsGrow' /\ MergesSound' /\ SnapshotFaithful'
  BY <1>1, <1>8, NoMergeDistinct DEF DeletionsGrow, MergesSound, SnapshotFaithful
<1>10. BoltFaithful'
  <2>1. ASSUME NEW e \in epochs
        PROVE  /\ bolt[e].internal \in 0 .. n
               /\ Contents(SegsOf(files', bolt[e])) = history'[bolt[e].internal + 1]
    <3>1. bolt[e].internal \in 0 .. n
      BY <1>2, <1>3, <1>5 DEF ContentsInv, BoltFaithful
    <3>2. \A s \in DOMAIN bolt[e].segs : files'[s] = files[s]
      BY <1>1, NamedFiles DEF Only
    <3>3. SegsOf(files', bolt[e]) = SegsOf(files, bolt[e])
      BY <3>2, BucketShows
    <3> QED
      BY <1>5, <1>6, <3>1, <3>3 DEF ContentsInv, BoltFaithful
  <2>2. \A e, f \in epochs : e <= f => bolt[e].internal <= bolt[f].internal
    BY DEF ContentsInv, BoltFaithful
  <2> QED
    BY <1>1, <1>8, <2>1, <2>2 DEF BoltFaithful
<1>11. Durable!BackTo(n)
  BY <1>1, <1>5 DEF Durable!BackTo
<1> QED
  BY <1>1, <1>2, <1>4, <1>5, <1>7, <1>9, <1>10, <1>11 DEF m

LEMMA CrashShows ==
  ASSUME FilesInv, ContentsInv, CrashAndOpen
  PROVE  /\ ContentsInv'
         /\ \E n \in acked .. Len(history) - 1 : Durable!Restart(n)
<1> DEFINE n == root'.internal
<1>1. /\ HistoryShown' /\ DeletionsGrow' /\ MergesSound'
      /\ SnapshotFaithful' /\ BoltFaithful'
      /\ n \in 0 .. Len(history) - 1
      /\ n = IF DOMAIN bolt = {} THEN 0 ELSE bolt[Max(DOMAIN bolt)].internal
      /\ DOMAIN bolt' = DOMAIN bolt /\ \A e \in DOMAIN bolt : bolt'[e] = bolt[e]
      /\ Durable!BackTo(n)
  BY OpenShows DEF CrashAndOpen
<1>2. acked' = acked /\ rollbacks' = rollbacks
  BY DEF CrashAndOpen
<1> HIDE DEF n
<1>3. acked \in Nat /\ acked <= n
  BY <1>1 DEF ContentsInv, AckedInBolt
<1>4. AckedInBolt'
  <2>1. DOMAIN bolt # {} => Max(DOMAIN bolt) \in DOMAIN bolt
    BY NewestIs DEF FilesInv
  <2> QED
    BY <1>1, <1>2, <2>1 DEF ContentsInv, AckedInBolt
<1>5. Durable!Restart(n)
  BY <1>1, <1>2 DEF Durable!Restart
<1> QED
  BY <1>1, <1>3, <1>4, <1>5 DEF ContentsInv

LEMMA RollBackShows ==
  ASSUME PlainStore, FilesInv, ContentsInv, NEW e \in DOMAIN bolt, RollBack(e)
  PROVE  /\ ContentsInv'
         /\ root'.internal = bolt[e].internal /\ root'.internal \in Nat
         /\ \E n \in 0 .. Len(history) - 1 : Durable!RollBack(n)
<1> DEFINE n == root'.internal
           epochs == NotNewer(e)
<1>1. /\ Open(epochs) /\ epochs \subseteq DOMAIN bolt
      /\ acked' = Min({acked, bolt[e].internal})
      /\ rollbacks' = Append(rollbacks, bolt[e].internal)
  BY DEF RollBack, NotNewer, PlainStore
<1>2. Max(epochs) = e /\ e \in epochs
  <2>1. DOMAIN bolt \subseteq Nat
    BY DEF FilesInv, EpochsInOrder, TypeOK, IsSnapshot
  <2>2. epochs \subseteq Nat /\ e \in epochs /\ \A f \in epochs : f <= e
    BY <2>1 DEF NotNewer
  <2> HIDE DEF epochs
  <2> QED
    BY <2>2, MaxOf
<1>3. /\ HistoryShown' /\ DeletionsGrow' /\ MergesSound'
      /\ SnapshotFaithful' /\ BoltFaithful'
      /\ n \in 0 .. Len(history) - 1
      /\ n = IF epochs = {} THEN 0 ELSE bolt[Max(epochs)].internal
      /\ DOMAIN bolt' = epochs /\ \A f \in epochs : bolt'[f] = bolt[f]
      /\ Durable!BackTo(n)
  BY <1>1, OpenShows
<1> HIDE DEF epochs, n
<1>4. n = bolt[e].internal /\ n \in Nat
  BY <1>2, <1>3
<1>5. acked' = IF n < acked THEN n ELSE acked
  BY <1>1, <1>4, MinOf DEF ContentsInv, AckedInBolt
<1>6. AckedInBolt'
  BY <1>2, <1>3, <1>4, <1>5 DEF ContentsInv, AckedInBolt
<1>7. Durable!RollBack(n)
  BY <1>1, <1>3, <1>4, <1>5 DEF Durable!RollBack
<1> QED
  BY <1>3, <1>4, <1>6, <1>7 DEF ContentsInv, n

---------------------------------------------------------------------------
(* The invariant and what follows from it *)

\* Every step is one of the abstract index, or shows no difference.
LEMMA NextShows ==
  ASSUME PlainStore, FilesInv, ContentsInv, [Next]_vars
  PROVE  ContentsInv' /\ [Durable!Next]_(Durable!vars)
<1>1. CASE \E b \in Batch : Introduce(b)
  BY <1>1, IntroduceShows DEF Durable!Next
<1>2. CASE PersisterStep
  <2>1. CASE SnapshotPersisted
    BY <2>1, SnapshotPersistedShows DEF Durable!Next
  <2>2. CASE ~SnapshotPersisted
    BY <1>2, <2>2, PersisterTakesSnapshotShows, MergeInMemoryShows, PersistDirectlyShows,
       IntroduceInMemoryMergeShows, WriteSegmentFilesShows, IntroducePersistedShows,
       CommitSnapshotShows, PersistFailsShows, RemoveOldBoltSnapshotsShows,
       RemoveOldZapFilesShows, ObservedUnchanged DEF PersisterStep
  <2> QED
    BY <2>1, <2>2
<1>3. CASE MergerStep
  <2>1. CASE MergerDone \/ FileMergeFails
    BY <2>1, MergerStopsShows, ObservedUnchanged DEF MergerDone, FileMergeFails
  <2>2. CASE ~(MergerDone \/ FileMergeFails)
    BY <1>3, <2>2, MergerTakesSnapshotShows, StartFileMergeShows,
       IntroduceFileMergeShows, ObservedUnchanged DEF MergerStep
  <2> QED
    BY <2>1, <2>2
<1>4. CASE OpenCopyReader \/ CloseCopyReader \/ \E e \in DOMAIN bolt : SnapshotReleased(e)
  BY <1>4, NothingShows, ObservedUnchanged DEF OpenCopyReader, CloseCopyReader, SnapshotReleased
<1>5. CASE CrashAndOpen
  BY <1>5, CrashShows DEF Durable!Next
<1>6. CASE \E e \in DOMAIN bolt : RollBack(e)
  BY <1>6, RollBackShows DEF Durable!Next
<1>7. CASE UNCHANGED vars
  BY <1>7, NothingShows, ObservedUnchanged DEF vars, mem
<1> QED
  BY <1>1, <1>2, <1>3, <1>4, <1>5, <1>6, <1>7 DEF Next

\* The inductive invariant holds.
THEOREM ContentsInvariant ==
  ASSUME PlainStore
  PROVE  Spec => []ContentsInv
<1>1. Init => ContentsInv
  BY InitShows
<1>2. FilesInv /\ ContentsInv /\ [Next]_vars => ContentsInv'
  BY NextShows
<1> QED
  BY <1>1, <1>2, FilesInvariant, PTL DEF Spec

\* persister.go, persistSnapshot and the rootPersisted channels that
\* introduceSegment hands over: a batch whose caller was told that it is
\* persisted is in the index that would be opened after a crash now.
THEOREM AckedDurableAlways ==
  ASSUME PlainStore
  PROVE  Spec => []AckedDurable
<1>1. FilesInv /\ ContentsInv => AckedDurable
  <2> SUFFICES ASSUME FilesInv, ContentsInv PROVE Loaded.internal >= acked
    BY DEF AckedDurable
  <2>1. Loaded = IF DOMAIN bolt = {} THEN NoSnapshot ELSE LoadSnapshot(Max(DOMAIN bolt))
    BY LoadsNewest DEF Loaded
  <2>2. CASE DOMAIN bolt = {}
    BY <2>1, <2>2 DEF ContentsInv, AckedInBolt, NoSnapshot, IndexSnapshot
  <2>3. CASE DOMAIN bolt # {}
    <3>1. Loaded.internal = bolt[Max(DOMAIN bolt)].internal
      BY <2>1, <2>3, LoadedIs
    <3>2. bolt[Max(DOMAIN bolt)].internal \in 0 .. root.internal
      BY <2>3, NewestIs DEF FilesInv, ContentsInv, BoltFaithful
    <3> QED
      BY <2>3, <3>1, <3>2 DEF ContentsInv, AckedInBolt
  <2> QED
    BY <2>2, <2>3
<1> QED
  BY <1>1, FilesInvariant, ContentsInvariant, PTL

\* rollback.go, RollbackPoints and Rollback: every snapshot that root.bolt
\* has can be loaded and shows what readers saw after the batches it has.
THEOREM RollbackPointsAlwaysFaithful ==
  ASSUME PlainStore
  PROVE  Spec => []RollbackPointsFaithful
<1>1. FilesInv /\ ContentsInv => RollbackPointsFaithful
  <2> SUFFICES ASSUME FilesInv, ContentsInv, NEW e \in DOMAIN bolt
               PROVE  /\ Loadable(e)
                      /\ Contents(LoadSnapshot(e).segs) = history[bolt[e].internal + 1]
    BY DEF RollbackPointsFaithful
  <2>1. Loadable(e)
    <3>1. IsBucket(files, bolt[e])
      BY DEF FilesInv, TypeOK
    <3> QED
      BY <3>1, BucketNames DEF Loadable
  <2> QED
    BY <2>1, LoadedShows DEF ContentsInv, BoltFaithful
<1> QED
  BY <1>1, FilesInvariant, ContentsInvariant, PTL

\* persister.go, persistSnapshotMaybeMerge: the snapshot it commits shows what
\* the one it took shows, whatever batches and merges were introduced since.
THEOREM EquivAlwaysEquivalent ==
  ASSUME PlainStore
  PROVE  Spec => []EquivLogicallyEquivalent
<1>1. ContentsInv => EquivLogicallyEquivalent
  BY DEF ContentsInv, SnapshotFaithful, EquivBuilt, EquivLogicallyEquivalent
<1> QED
  BY <1>1, ContentsInvariant, PTL

\* scorch.go, persister.go, rollback.go: restarts and rollbacks included, what
\* readers see and what callers were told is what DurableIndex allows.
THEOREM StoreImplementsDurableIndex ==
  ASSUME PlainStore
  PROVE  Spec => ImplementsDurableIndex
<1>1. Init => Durable!Init
  BY ContentsOfNone DEF Init, NoSnapshot, IndexSnapshot, Durable!Init
<1>2. FilesInv /\ ContentsInv /\ [Next]_vars => [Durable!Next]_(Durable!vars)
  BY NextShows
<1> QED
  BY <1>1, <1>2, FilesInvariant, ContentsInvariant, PTL
  DEF Spec, ImplementsDurableIndex, Durable!Spec

\* Only Rollback records a point, and it goes back to a number of batches.
LEMMA OnlyRollBackRecords ==
  ASSUME [Next]_vars, ~ \E e \in DOMAIN bolt : RollBack(e)
  PROVE  rollbacks' = rollbacks
  BY DEF Next, vars, mem, PersisterStep, MergerStep, Introduce,
         PersisterTakesSnapshot, MergeInMemory, PersistDirectly, IntroduceInMemoryMerge,
         WriteSegmentFiles, IntroducePersisted, CommitSnapshot, SnapshotPersisted,
         PersistFails, RemoveOldBoltSnapshots, RemoveOldZapFiles, MergerTakesSnapshot,
         StartFileMerge, IntroduceFileMerge, MergerDone, FileMergeFails,
         OpenCopyReader, CloseCopyReader, SnapshotReleased, CrashAndOpen

LEMMA RollbacksType ==
  ASSUME PlainStore, FilesInv, ContentsInv, rollbacks \in Seq(Nat), [Next]_vars
  PROVE  rollbacks' \in Seq(Nat)
<1>1. CASE \E e \in DOMAIN bolt : RollBack(e)
  <2>1. PICK e \in DOMAIN bolt : RollBack(e)
    BY <1>1
  <2>2. rollbacks' = Append(rollbacks, bolt[e].internal) /\ bolt[e].internal \in Nat
    BY <2>1, RollBackShows DEF RollBack
  <2> QED
    BY <2>2
<1>2. CASE ~\E e \in DOMAIN bolt : RollBack(e)
  <2>1. rollbacks' = rollbacks
    BY <1>2, OnlyRollBackRecords
  <2> QED
    BY <2>1
<1> QED
  BY <1>1, <1>2

\* rollback.go, Rollback: when it returns without an error, the index that is
\* opened next is the one of the rollback point.
THEOREM RollbackAlwaysDurable ==
  ASSUME PlainStore
  PROVE  Spec => RollbackIsDurable
<1>1. Init => rollbacks \in Seq(Nat)
  BY DEF Init
<1>2. FilesInv /\ ContentsInv /\ rollbacks \in Seq(Nat) /\ [Next]_vars
      => /\ (rollbacks \in Seq(Nat))'
         /\ [rollbacks' # rollbacks => root'.internal = Last(rollbacks')]_vars
  <2> SUFFICES ASSUME FilesInv, ContentsInv, rollbacks \in Seq(Nat), [Next]_vars
               PROVE  /\ rollbacks' \in Seq(Nat)
                      /\ rollbacks' # rollbacks => root'.internal = Last(rollbacks')
    OBVIOUS
  <2>1. rollbacks' \in Seq(Nat)
    BY RollbacksType
  <2>2. CASE \E e \in DOMAIN bolt : RollBack(e)
    <3>1. PICK e \in DOMAIN bolt : RollBack(e)
      BY <2>2
    <3>2. /\ rollbacks' = Append(rollbacks, bolt[e].internal)
          /\ root'.internal = bolt[e].internal /\ bolt[e].internal \in Nat
      BY <3>1, RollBackShows DEF RollBack
    <3>3. Last(rollbacks') = bolt[e].internal
      BY <3>2 DEF Last
    <3> QED
      BY <3>2, <3>3
  <2>3. CASE ~\E e \in DOMAIN bolt : RollBack(e)
    BY <2>3, OnlyRollBackRecords
  <2> QED
    BY <2>1, <2>2, <2>3
<1> QED
  BY <1>1, <1>2, FilesInvariant, ContentsInvariant, PTL DEF Spec, RollbackIsDurable
=============================================================================
