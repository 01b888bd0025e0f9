---------------------------- MODULE ScorchStore ----------------------------
(***************************************************************************)
(* What a scorch index keeps on disk: segment files and root.bolt, written *)
(* by the persister, the merger and the purge, read back when the index is *)
(* opened.  A crash may happen between any two steps.  How the introducer  *)
(* reconciles stale roots is the subject of ScorchRoot; here a batch is    *)
(* prepared and introduced in one step.                                    *)
(*                                                                         *)
(* A segment file is named by its segment's id.  Every batch sets the one  *)
(* internal key to the number of batches so far, as an application that    *)
(* keeps its sequence number in the index does, so that internal tells     *)
(* which batches a snapshot has.                                           *)
(***************************************************************************)
EXTENDS SegmentSnapshots, FiniteSetsExt, SequencesExt

CONSTANTS NoVal, Batch,         \* see DurableIndex
          NumPersisterWorkers,  \* persisterOptions.NumPersisterWorkers
          LegacyFlush,          \* what legacyFlushBehaviour() returns
          NumSnapshotsToKeep,   \* config numSnapshotsToKeep
          CommitMayFail,        \* may a bolt transaction fail to commit
          MaxSegmentID,         \* bound: segment ids handed out
          MaxBatches,           \* bound: batches introduced
          MaxRestarts           \* bound: crashes

ASSUME StoreAssumption ==
  /\ \A b \in Batch : IsFiniteSet(DOMAIN b)
  /\ NumPersisterWorkers \in Nat \ {0}
  /\ LegacyFlush \in BOOLEAN /\ CommitMayFail \in BOOLEAN
  /\ LegacyFlush => NumPersisterWorkers = 1
  /\ NumSnapshotsToKeep \in Nat \ {0}
  /\ {MaxSegmentID, MaxBatches, MaxRestarts} \subseteq Nat

VARIABLES files,     \* on disk: id -> documents of the segment file
          bolt,      \* on disk: epoch -> the snapshot bucket of root.bolt
          root,      \* Scorch.root
          ids,       \* Scorch.nextSegmentID, the last id handed out
          removal,   \* eligibleForRemoval, ineligibleForRemoval
          waiting,   \* rootPersisted / persistedCallbacks: batch numbers
          persister, \* the persister's place, snapshot, merge and callbacks
          merger,    \* the merger's snapshot, task and merged-away files
          copy,      \* the snapshot of an open CopyReader
          acked,     \* the last batch whose caller was told "persisted"
          history,   \* the contents after each batch the index has
          restarts,  \* how many crashes there have been
          rollbacks  \* the points Rollback said it went back to

mem == <<root, ids, removal, waiting, persister, merger, copy>>
vars == <<files, bolt, mem, acked, history, restarts, rollbacks>>

IndexSnapshot(epoch, segs, internal) ==
  [epoch |-> epoch, segs |-> segs, internal |-> internal]
NoSnapshot == IndexSnapshot(0, NoSegs, 0)

Durable == INSTANCE DurableIndex WITH
             contents <- Contents(root.segs)

SwapRoot(segs, internal) ==
  root' = IndexSnapshot(root.epoch + 1, segs, internal)

\* Files under these names may be removed from now on.
Unmarked(names) == [removal EXCEPT !.ineligible = @ \ names]

\* Mutant: new files are not marked.
NotMarked(names) == removal

Marked(names) == [removal EXCEPT !.ineligible = @ \cup names]

\* droppedSegmentFiles: the file segments a new root leaves out for having
\* no live document left.
DroppedFiles(segs) == {s \in FileSegs(segs) : Live(segs[s]) = {}}

---------------------------------------------------------------------------
(* Batch *)

Introduce(b) ==
  LET docs == Durable!DocsOf(b)
      next == [id |-> ids + 1, ids |-> Durable!Ids(b),
               docs |-> CHOOSE seg \in [0 .. Cardinality(docs) - 1 -> docs] :
                          \A d \in docs : \E n \in DOMAIN seg : seg[n] = d,
               obsoletes |-> Obsoletes(root.segs, Durable!Ids(b))]
  IN  /\ ids < MaxSegmentID /\ root.internal < MaxBatches
      /\ ids' = ids + 1
      /\ SwapRoot(IntroduceSegment(root.segs, next), root.internal + 1)
      /\ removal' = Unmarked(DroppedFiles(ApplyDelta(root.segs, next)))
      /\ waiting' = waiting \cup {root.internal + 1}
      /\ history' = Append(history, Contents(root'.segs))
      /\ UNCHANGED <<files, bolt, persister, merger, copy,
                     acked, restarts, rollbacks>>

---------------------------------------------------------------------------
(* The persister *)

\* pc: "top" of its loop, "taken" a snapshot, "merging" (merged files
\* written), "direct" in persistSnapshotDirect, "written" (segment files
\* written), "commit" and "committed" the bolt transaction, "purge" between
\* the two halves of removeOldData.  snap is the snapshot taken, equiv the
\* one to commit, exclude its segments not to be flushed.
Resting(epoch, callbacks) ==
  [pc |-> "top", snap |-> NoSnapshot, equiv |-> NoSegs, exclude |-> {},
   merge |-> NoMerge, lastPersistedEpoch |-> epoch, callbacks |-> callbacks]

\* callbacks holds those of earlier snapshots that failed to persist, too.
PersisterTakesSnapshot ==
  /\ persister.pc = "top"
  /\ root.epoch > persister.lastPersistedEpoch
  /\ persister' = [persister EXCEPT !.pc = "taken", !.snap = root,
                                    !.callbacks = @ \cup waiting]
  /\ waiting' = {}
  /\ UNCHANGED <<files, bolt, root, ids, removal, merger, copy,
                 acked, history, restarts, rollbacks>>

Share(into, id) == {s \in DOMAIN into : into[s] = id}

\* As in ScorchRoot: who merges what is a choice, segment sizes being
\* abstracted; one worker may have nothing to merge.
FlushSets(segs, new) ==
  {into \in UNION {[M -> new] : M \in SUBSET MemSegs(segs)} :
     /\ Cardinality(DOMAIN into) >= 2
     /\ \/ /\ DOMAIN into = MemSegs(segs)
           /\ Cardinality({id \in new : Cardinality(Share(into, id)) <= 1}) <= 1
           /\ \A id \in new : Share(into, id) = {} =>
                ~LegacyFlush /\ FileSegs(segs) # {}
        \/ /\ ~LegacyFlush
           /\ Cardinality(new) = NumPersisterWorkers
           /\ \A id \in new : Cardinality(Share(into, id)) >= 2}

\* The workers of mergeAndPersistInMemorySegments write their files (a worker
\* without segments an empty one), then mark them.
MergeInMemory ==
  /\ persister.pc = "taken"
  /\ \E k \in 1 .. NumPersisterWorkers :
       LET new == ids + 1 .. ids + k
       IN  /\ ids + k <= MaxSegmentID
           /\ ids' = ids + k
           /\ \E into \in FlushSets(persister.snap.segs, new) :
                LET merge == SegmentMerge(persister.snap.segs, into)
                IN  /\ persister' = [persister EXCEPT !.pc = "merging",
                                                      !.merge = merge]
                    /\ files' = Joined(merge.new,
                                       Joined([id \in new |-> NoSegs], files))
                    /\ removal' = Marked(new)
  /\ UNCHANGED <<bolt, root, waiting, merger, copy,
                 acked, history, restarts, rollbacks>>

\* Too few in-memory segments, or NumEventsBlocking at its threshold.
PersistDirectly ==
  /\ persister.pc = "taken"
  /\ persister' = [persister EXCEPT !.pc = "direct",
                                    !.equiv = persister.snap.segs]
  /\ UNCHANGED <<files, bolt, root, ids, removal, waiting, merger, copy,
                 acked, history, restarts, rollbacks>>

(***************************************************************************)
(* The snapshot persistSnapshotMaybeMerge commits in place of the one it   *)
(* took: the segments that were not merged, and those of the new segments  *)
(* that are in the root the merge was introduced into.                     *)
(***************************************************************************)
\* Mutant: the new segments as they are in the root by now.
EquivOfNow(snap, merge, newSegs) ==
  Joined(Without(snap, DOMAIN merge.hist), Only(newSegs, DOMAIN merge.new))

Equiv(snap, merge, newSegs) ==
  Joined(Without(snap, DOMAIN merge.hist),
         [id \in DOMAIN merge.new \cap DOMAIN newSegs |->
            [docs |-> merge.new[id], del |-> {}, file |-> TRUE]])

\* Were all the new segments dropped, the snapshot is persisted directly.
IntroduceInMemoryMerge ==
  LET merge   == persister.merge
      snap    == persister.snap.segs
      newSegs == IntroduceMerge(root.segs, merge)
      skipped == DOMAIN merge.new \cap DOMAIN newSegs = {}
  IN  /\ persister.pc = "merging"
      /\ SwapRoot(newSegs, root.internal)
      /\ removal' =
           Unmarked(DroppedFiles(Without(root.segs, DOMAIN merge.hist)))
      /\ persister' = IF skipped
           THEN [persister EXCEPT !.pc = "direct", !.equiv = snap,
                                  !.merge = NoMerge]
           ELSE [persister EXCEPT !.pc = "direct",
                                  !.equiv = Equiv(snap, merge, newSegs),
                                  !.exclude = DOMAIN snap \ DOMAIN merge.hist,
                                  !.merge = NoMerge]
      /\ UNCHANGED <<files, bolt, ids, waiting, merger, copy,
                     acked, history, restarts, rollbacks>>

\* The segments prepareBoltSnapshot writes files for.
ToFlush == MemSegs(persister.equiv) \ persister.exclude

WriteSegmentFiles ==
  /\ persister.pc = "direct"
  /\ files' = Joined([s \in ToFlush |-> persister.equiv[s].docs], files)
  /\ persister' = [persister EXCEPT !.pc = IF ToFlush = {} THEN "commit"
                                                           ELSE "written"]
  /\ UNCHANGED <<bolt, root, ids, removal, waiting, merger, copy,
                 acked, history, restarts, rollbacks>>

IntroducePersisted ==
  /\ persister.pc = "written"
  /\ SwapRoot(IntroducePersist(root.segs, ToFlush), root.internal)
  /\ persister' = [persister EXCEPT !.pc = "commit"]
  /\ UNCHANGED <<files, bolt, ids, removal, waiting, merger, copy,
                 acked, history, restarts, rollbacks>>

\* What epoch's bucket has already: it is not emptied before it is written.
Stored(epoch) == IF epoch \in DOMAIN bolt THEN bolt[epoch].segs ELSE NoSegs

\* The bucket of a segment has no path when its file was not written, and an
\* empty deleted bitmap is not written.
SegmentBucket(epoch, segs, exclude, s) ==
  LET old == IF s \in DOMAIN Stored(epoch) THEN Stored(epoch)[s]
                                           ELSE [path |-> FALSE, del |-> {}]
  IN  IF s \notin DOMAIN segs THEN old
      ELSE [path |-> old.path \/ segs[s].file \/ s \notin exclude,
            del  |-> IF segs[s].del = {} THEN old.del ELSE segs[s].del]

Bucket(snap, segs, exclude) ==
  [internal |-> snap.internal,
   segs |-> [s \in DOMAIN segs \cup DOMAIN Stored(snap.epoch) |->
               SegmentBucket(snap.epoch, segs, exclude, s)]]

CommitSnapshot ==
  /\ persister.pc = "commit"
  /\ bolt' = [e \in DOMAIN bolt \cup {persister.snap.epoch} |->
                IF e = persister.snap.epoch
                THEN Bucket(persister.snap, persister.equiv, persister.exclude)
                ELSE bolt[e]]
  /\ persister' = [persister EXCEPT !.pc = "committed"]
  /\ UNCHANGED <<files, root, ids, removal, waiting, merger, copy,
                 acked, history, restarts, rollbacks>>

\* The committed files become removable, the callers are told.
SnapshotPersisted ==
  /\ persister.pc = "committed"
  /\ removal' = Unmarked(DOMAIN persister.equiv
                           \ (MemSegs(persister.equiv) \cap persister.exclude))
  /\ acked' = Max({acked} \cup persister.callbacks)
  /\ persister' = Resting(persister.snap.epoch, {})
  /\ UNCHANGED <<files, bolt, root, ids, waiting, merger, copy,
                 history, restarts, rollbacks>>

\* persistSnapshot returned an error: the loop starts over.
PersistFails ==
  /\ \/ persister.pc \in {"taken", "merging", "direct", "written"}
     \/ CommitMayFail /\ persister.pc = "commit"
  /\ persister' = Resting(persister.lastPersistedEpoch, persister.callbacks)
  /\ UNCHANGED <<files, bolt, root, ids, removal, waiting, merger, copy,
                 acked, history, restarts, rollbacks>>

---------------------------------------------------------------------------
(* removeOldData, which the persister calls between two snapshots *)

\* Mutant: protects from the wrong end.
Oldest(n, epochs) == {e \in epochs : Cardinality({f \in epochs : f < e}) < n}

Newest(n, epochs) == {e \in epochs : Cardinality({f \in epochs : f > e}) < n}

RemoveOldBoltSnapshots ==
  LET protected == Newest(NumSnapshotsToKeep, DOMAIN bolt)
  IN  /\ persister.pc = "top"
      /\ persister' = [persister EXCEPT !.pc = "purge"]
      /\ IF Cardinality(DOMAIN bolt) <= NumSnapshotsToKeep
         THEN UNCHANGED <<bolt, removal>>
         ELSE /\ bolt' = Without(bolt, removal.eligible \ protected)
              /\ removal' = [removal EXCEPT !.eligible = @ \cap protected]
      /\ UNCHANGED <<files, root, ids, waiting, merger, copy,
                     acked, history, restarts, rollbacks>>

\* loadZapFileNames
NamedBy(e) == {s \in DOMAIN bolt[e].segs : bolt[e].segs[s].path}
NamedInBolt == UNION {NamedBy(e) : e \in DOMAIN bolt}

\* Mutant: copyScheduled is not looked at.
InUseByStore == NamedInBolt \cup removal.ineligible

InUse == NamedInBolt \cup removal.ineligible \cup DOMAIN copy.segs

RemoveOldZapFiles ==
  /\ persister.pc = "purge"
  /\ files' = Only(files, InUse)
  /\ persister' = [persister EXCEPT !.pc = "top"]
  /\ UNCHANGED <<bolt, root, ids, removal, waiting, merger, copy,
                 acked, history, restarts, rollbacks>>

\* The last reference to a snapshot is gone: AddEligibleForRemoval.  Readers
\* may hold theirs for any length of time.
SnapshotReleased(e) ==
  /\ e \notin removal.eligible
  /\ e \notin {root.epoch, persister.snap.epoch, merger.epoch, copy.epoch}
  /\ removal' = [removal EXCEPT !.eligible = @ \cup {e}]
  /\ UNCHANGED <<files, bolt, root, ids, waiting, persister, merger, copy,
                 acked, history, restarts, rollbacks>>

---------------------------------------------------------------------------
(* The merger *)

NoTask == [epoch |-> 0, segs |-> NoSegs, merge |-> NoMerge, filenames |-> {}]

MergerTakesSnapshot ==
  /\ merger = NoTask
  /\ FileSegs(root.segs) # {}
  /\ merger' = [merger EXCEPT !.epoch = root.epoch,
                              !.segs = Only(root.segs, FileSegs(root.segs))]
  /\ UNCHANGED <<files, bolt, root, ids, removal, waiting, persister, copy,
                 acked, history, restarts, rollbacks>>

\* A task of planMergeAtSnapshot: the new file is marked before it is made.
StartFileMerge(S) ==
  LET merge == SegmentMerge(merger.segs, [s \in S |-> ids + 1])
  IN  /\ merger.merge = NoMerge
      /\ S \subseteq DOMAIN merger.segs /\ Cardinality(S) >= 2
      /\ ids < MaxSegmentID
      /\ ids' = ids + 1
      /\ removal' = Marked({ids + 1})
      /\ files' = Joined(merge.new, files)
      /\ merger' = [merger EXCEPT !.segs = Without(@, S), !.merge = merge,
                                  !.filenames = @ \cup S]
      /\ UNCHANGED <<bolt, root, waiting, persister, copy,
                     acked, history, restarts, rollbacks>>

\* A merged segment without live documents is not kept, its file neither.
IntroduceFileMerge ==
  LET merge   == merger.merge
      newSegs == IntroduceMerge(root.segs, merge)
  IN  /\ merge # NoMerge
      /\ SwapRoot(newSegs, root.internal)
      /\ removal' =
           Unmarked(DroppedFiles(Without(root.segs, DOMAIN merge.hist))
                      \cup (DOMAIN merge.new \ DOMAIN newSegs))
      /\ merger' = [merger EXCEPT !.merge = NoMerge]
      /\ UNCHANGED <<files, bolt, ids, waiting, persister, copy,
                     acked, history, restarts, rollbacks>>

\* The plan is done: the files merged away are removable.
MergerDone ==
  /\ merger.epoch # 0 /\ merger.merge = NoMerge
  /\ removal' = Unmarked(merger.filenames)
  /\ merger' = NoTask
  /\ UNCHANGED <<files, bolt, root, ids, waiting, persister, copy,
                 acked, history, restarts, rollbacks>>

\* The merge failed; the plan is given up.
FileMergeFails ==
  /\ merger.merge # NoMerge
  /\ removal' = Unmarked(DOMAIN merger.merge.new)
  /\ merger' = NoTask
  /\ UNCHANGED <<files, bolt, root, ids, waiting, persister, copy,
                 acked, history, restarts, rollbacks>>

---------------------------------------------------------------------------
(* CopyReader *)

OpenCopyReader ==
  /\ copy = NoSnapshot
  /\ root.epoch # 0
  /\ copy' = root
  /\ UNCHANGED <<files, bolt, root, ids, removal, waiting, persister, merger,
                 acked, history, restarts, rollbacks>>

CloseCopyReader ==
  /\ copy # NoSnapshot
  /\ copy' = NoSnapshot
  /\ UNCHANGED <<files, bolt, root, ids, removal, waiting, persister, merger,
                 acked, history, restarts, rollbacks>>

---------------------------------------------------------------------------
(* Crash and Open, Rollback *)

Loadable(e) == \A s \in DOMAIN bolt[e].segs :
                  bolt[e].segs[s].path /\ s \in DOMAIN files

\* Mutant: the deleted bitmaps are not read.
LoadSnapshotUndeleted(e) ==
  IndexSnapshot(e, [s \in DOMAIN bolt[e].segs |->
                      [docs |-> files[s], del |-> {}, file |-> TRUE]],
                bolt[e].internal)

LoadSnapshot(e) ==
  IndexSnapshot(e, [s \in DOMAIN bolt[e].segs |->
                      [docs |-> files[s], del |-> bolt[e].segs[s].del,
                       file |-> TRUE]],
                bolt[e].internal)

\* loadFromBolt: the newest of the snapshots that can be loaded, if any.
LoadNewest(epochs) ==
  LET loadable == {e \in epochs : Loadable(e)}
  IN  IF loadable = {} THEN NoSnapshot ELSE LoadSnapshot(Max(loadable))

Loaded == LoadNewest(DOMAIN bolt)

MaxSegmentIDOnDisk == Max({0} \cup DOMAIN files)

\* Open finds these snapshots in root.bolt.
Open(epochs) ==
  LET loaded == LoadNewest(epochs)
  IN  /\ restarts < MaxRestarts
      /\ restarts' = restarts + 1
      /\ bolt' = Only(bolt, epochs)
      /\ root' = loaded
      /\ ids' = IF loaded = NoSnapshot THEN 0 ELSE MaxSegmentIDOnDisk + 1
      /\ removal' = [eligible   |-> epochs \ {loaded.epoch},
                     ineligible |-> {}]
      /\ files' = Only(files, UNION {NamedBy(e) : e \in epochs})
      /\ waiting' = {}
      /\ persister' = Resting(0, {})
      /\ merger' = NoTask
      /\ copy' = NoSnapshot
      /\ history' = SubSeq(history, 1, loaded.internal + 1)

CrashAndOpen == Open(DOMAIN bolt) /\ UNCHANGED <<acked, rollbacks>>

\* The buckets Rollback leaves.
NotNewer(e) == {f \in DOMAIN bolt : f <= e}

\* Rollback on the closed store, which is opened again.  The result of the
\* commit gets lost: the function's result is not the variable assigned.
RollBack(e) ==
  /\ \/ Open(NotNewer(e))
     \/ CommitMayFail /\ Open(DOMAIN bolt)
  /\ acked' = Min({acked, bolt[e].internal})
  /\ rollbacks' = Append(rollbacks, bolt[e].internal)

---------------------------------------------------------------------------
Init ==
  /\ files = NoSegs
  /\ bolt = [e \in {} |-> {}]
  /\ root = NoSnapshot
  /\ ids = 0
  /\ removal = [eligible |-> {}, ineligible |-> {}]
  /\ waiting = {}
  /\ persister = Resting(0, {})
  /\ merger = NoTask
  /\ copy = NoSnapshot
  /\ acked = 0
  /\ history = <<{}>>
  /\ restarts = 0
  /\ rollbacks = <<>>

PersisterStep == \/ PersisterTakesSnapshot
                 \/ MergeInMemory
                 \/ PersistDirectly
                 \/ IntroduceInMemoryMerge
                 \/ WriteSegmentFiles
                 \/ IntroducePersisted
                 \/ CommitSnapshot
                 \/ SnapshotPersisted
                 \/ PersistFails
                 \/ RemoveOldBoltSnapshots
                 \/ RemoveOldZapFiles

MergerStep == \/ MergerTakesSnapshot
              \/ \E S \in SUBSET DOMAIN merger.segs : StartFileMerge(S)
              \/ IntroduceFileMerge
              \/ MergerDone
              \/ FileMergeFails

Next == \/ \E b \in Batch : Introduce(b)
        \/ PersisterStep
        \/ MergerStep
        \/ OpenCopyReader
        \/ CloseCopyReader
        \/ \E e \in DOMAIN bolt : SnapshotReleased(e)
        \/ CrashAndOpen
        \/ \E e \in DOMAIN bolt : RollBack(e)

Spec == Init /\ [][Next]_vars

---------------------------------------------------------------------------
(* Safety *)

\* The callers told "persisted" would find their batches again after a crash
\* now (the channels of rootPersisted are closed when root is persisted).
AckedDurable == Loaded.internal >= acked

\* Every snapshot in root.bolt, which is to say every rollback point, can be
\* loaded and has what readers saw after the batches it says it has.
RollbackPointsFaithful ==
  \A e \in DOMAIN bolt :
     /\ Loadable(e)
     /\ Contents(LoadSnapshot(e).segs) = history[bolt[e].internal + 1]

\* "A snapshot that's logically equivalent to the input snapshot" is what
\* persistSnapshotMaybeMerge means to commit in place of the one it took.
EquivLogicallyEquivalent ==
  persister.pc \in {"direct", "written", "commit", "committed"} =>
    Contents(persister.equiv) = Contents(persister.snap.segs)

\* The file segments of the root are on disk and the purge leaves them alone:
\* root.bolt names them, or they are marked, or the persister is about to
\* commit a snapshot that names them.
RootFilesStay ==
  \A s \in FileSegs(root.segs) :
     /\ s \in DOMAIN files
     /\ \/ s \in NamedInBolt \cup removal.ineligible
        \/ persister.pc = "commit" /\ s \in DOMAIN persister.equiv

\* "Rollback atomically and durably brings the store back to the point": when
\* it returned without an error, the index opened next is the one after the
\* batches of the point.
RollbackIsDurable ==
  [][rollbacks' # rollbacks => root'.internal = Last(rollbacks')]_vars

\* Online copy: while the reader is open its segments' files stay.
CopiedFilesStay == FileSegs(copy.segs) \subseteq DOMAIN files

\* Restarts and rollbacks included, the store is the abstract one.
ImplementsDurableIndex == Durable!Spec
=============================================================================
