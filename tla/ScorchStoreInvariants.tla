----------------------- MODULE ScorchStoreInvariants -----------------------
(***************************************************************************)
(* The inductive invariants of ScorchStore, under which ScorchStoreProofs  *)
(* proves what it promises: FilesInv of the files, the segment ids and the *)
(* buckets of root.bolt, and ContentsInv of what snapshots show.           *)
(*                                                                         *)
(* Why a file segment of the root survives a purge: it is marked, or the   *)
(* newest snapshot of root.bolt names it, or the persister is about to     *)
(* commit a snapshot that names it (KeptFor).  The second case would not   *)
(* last if the next snapshot could leave the segment out; it cannot,       *)
(* because that snapshot was taken from a root that had it.                *)
(*                                                                         *)
(* Why contents are durable: those of a snapshot are those of history at   *)
(* its internal value.  Introductions of merges and of persisted segments  *)
(* do not change what a root shows, because the deletions a merge has      *)
(* missed are those made to its segments since (DeletionsGrow).  The       *)
(* snapshot that is committed shows what the one that was taken shows, and *)
(* the internal values of the buckets grow with their epochs.              *)
(***************************************************************************)
EXTENDS ScorchStore, SegmentSnapshotsProofs

PlainStore == LegacyFlush /\ ~CommitMayFail

---------------------------------------------------------------------------
(* The shape of the state *)

Documents == UNION {Durable!DocsOf(b) : b \in Batch}

IsSnapshot(snap) ==
  /\ snap = IndexSnapshot(snap.epoch, snap.segs, snap.internal)
  /\ snap.epoch \in Nat /\ snap.internal \in Nat
  /\ IsSegs(Documents, snap.segs)

IsBucket(fs, bucket) ==
  /\ bucket = [internal |-> bucket.internal, segs |-> bucket.segs]
  /\ bucket.internal \in Nat
  /\ bucket.segs = [s \in DOMAIN bucket.segs |-> bucket.segs[s]]
  /\ DOMAIN bucket.segs \subseteq SegmentID
  /\ IsFiniteSet(DOMAIN bucket.segs)
  /\ \A s \in DOMAIN bucket.segs :
       /\ bucket.segs[s] = [path |-> TRUE, del |-> bucket.segs[s].del]
       /\ s \in DOMAIN fs
       /\ bucket.segs[s].del \subseteq DOMAIN fs[s]

IsPersister(p) ==
  /\ p = [pc |-> p.pc, snap |-> p.snap, equiv |-> p.equiv, exclude |-> p.exclude,
          merge |-> p.merge, lastPersistedEpoch |-> p.lastPersistedEpoch,
          callbacks |-> p.callbacks]
  /\ p.pc \in {"top", "taken", "merging", "direct", "written", "commit",
               "committed", "purge"}
  /\ IsSnapshot(p.snap)
  /\ IsSegs(Documents, p.equiv)
  /\ IsMerge(Documents, p.merge)
  /\ p.lastPersistedEpoch \in Nat
  /\ p.callbacks \subseteq Nat
  /\ p.pc # "merging" => p.merge = NoMerge
  /\ p.pc \in {"top", "purge", "taken", "merging"} => p.exclude = {}

IsMerger(m) ==
  /\ m = [epoch |-> m.epoch, segs |-> m.segs, merge |-> m.merge,
          filenames |-> m.filenames]
  /\ m.epoch \in Nat
  /\ IsSegs(Documents, m.segs)
  /\ IsMerge(Documents, m.merge)

\* Beyond shapes: every segment a snapshot of root.bolt has is named there
\* and its file is on disk.
TypeOK ==
  /\ files = [s \in DOMAIN files |-> files[s]]
  /\ \A s \in DOMAIN files : IsDocs(Documents, files[s])
  /\ bolt = [e \in DOMAIN bolt |-> bolt[e]]
  /\ \A e \in DOMAIN bolt : IsBucket(files, bolt[e])
  /\ IsSnapshot(root)
  /\ ids \in Nat
  /\ waiting \subseteq Nat
  /\ removal = [eligible |-> removal.eligible, ineligible |-> removal.ineligible]
  /\ IsPersister(persister)
  /\ IsMerger(merger)
  /\ IsSnapshot(copy)

---------------------------------------------------------------------------
(* Segment ids *)

\* The ids of the merged segments on their way to the root.
Pending == DOMAIN persister.merge.new \cup DOMAIN merger.merge.new

Settled(s) == s \in 1 .. ids /\ s \notin Pending

FreshIDs ==
  /\ Pending \cup DOMAIN files \cup removal.ineligible \subseteq 1 .. ids
  /\ DOMAIN persister.merge.new \cap DOMAIN merger.merge.new = {}
  /\ \A s \in DOMAIN root.segs \cup DOMAIN persister.snap.segs
              \cup DOMAIN persister.equiv \cup DOMAIN merger.segs
              \cup merger.filenames \cup DOMAIN copy.segs
              \cup DOMAIN persister.merge.hist \cup DOMAIN merger.merge.hist :
       Settled(s)

---------------------------------------------------------------------------
(* A segment is immutable: whoever has one under some id has the same *)

VersionsIn(segs) == {<<s, segs[s].docs>> : s \in DOMAIN segs}
VersionsOfMerge(merge) ==
  {<<s, merge.hist[s].old.docs>> : s \in DOMAIN merge.hist}
    \cup {<<id, merge.new[id]>> : id \in DOMAIN merge.new}

Versions == {<<s, files[s]>> : s \in DOMAIN files}
              \cup VersionsIn(root.segs) \cup VersionsIn(copy.segs)
              \cup VersionsIn(persister.snap.segs) \cup VersionsIn(persister.equiv)
              \cup VersionsIn(merger.segs)
              \cup VersionsOfMerge(persister.merge) \cup VersionsOfMerge(merger.merge)

OneVersion == \A p, q \in Versions : p[1] = q[1] => p[2] = q[2]

---------------------------------------------------------------------------
(* Epochs *)

\* The persister has a snapshot it has not committed.
Active == persister.pc \in {"taken", "merging", "direct", "written", "commit"}

\* The bucket of this snapshot, if there is one, is what the snapshot says.
\* There is one when the index was opened at this snapshot.
Corresponds(snap) ==
  snap.epoch \in DOMAIN bolt =>
    /\ MemSegs(snap.segs) = {}
    /\ bolt[snap.epoch].segs =
         [s \in DOMAIN snap.segs |-> [path |-> TRUE, del |-> snap.segs[s].del]]

EpochsInOrder ==
  /\ DOMAIN bolt \subseteq 1 .. root.epoch
  /\ Corresponds(root)
  /\ Active => /\ persister.snap.epoch \in 1 .. root.epoch
               /\ \A e \in DOMAIN bolt : e <= persister.snap.epoch
               /\ Corresponds(persister.snap)
               /\ persister.snap.epoch = root.epoch => persister.snap = root
  /\ persister.pc = "committed" =>
       /\ persister.snap.epoch \in DOMAIN bolt
       /\ \A e \in DOMAIN bolt : e <= persister.snap.epoch
       /\ DOMAIN persister.equiv \subseteq NamedBy(persister.snap.epoch)

---------------------------------------------------------------------------
(* The snapshot the persister is going to commit *)

EquivBuilt == persister.pc \in {"direct", "written", "commit"}

\* All in-memory segments are merged into one, or none of them is.
EquivOfSnapshot ==
  LET snap == persister.snap
  IN  /\ persister.pc = "merging" =>
           /\ MemSegs(snap.segs) # {}
           /\ DOMAIN persister.merge.hist = MemSegs(snap.segs)
      /\ EquivBuilt =>
           \/ /\ persister.equiv = snap.segs
              /\ persister.exclude = {}
              /\ persister.pc = "commit" =>
                   MemSegs(snap.segs) = {} \/ snap.epoch < root.epoch
           \/ /\ MemSegs(persister.equiv) = {}
              /\ FileSegs(snap.segs) \subseteq DOMAIN persister.equiv
              /\ MemSegs(snap.segs) # {}
              /\ snap.epoch < root.epoch

---------------------------------------------------------------------------
(* Files *)

FilesWritten ==
  /\ Pending \subseteq DOMAIN files \cap removal.ineligible
  /\ Active => FileSegs(persister.snap.segs) \subseteq DOMAIN files
  /\ EquivBuilt => FileSegs(persister.equiv) \subseteq DOMAIN files
  /\ persister.pc \in {"written", "commit"} =>
       DOMAIN persister.equiv \subseteq DOMAIN files

\* Of the files the merger will unmark, the root has only those it is merging.
MergedAway == merger.filenames \cap DOMAIN root.segs \subseteq DOMAIN merger.merge.hist

\* The newest snapshot of root.bolt names the segment s.
InNewest(s) == DOMAIN bolt # {} /\ s \in NamedBy(Max(DOMAIN bolt))

KeptFor(s) ==
  \/ s \in removal.ineligible
  \/ InNewest(s) /\ (Active => s \in FileSegs(persister.snap.segs))
  \/ persister.pc = "commit" /\ s \in DOMAIN persister.equiv

RootKept == \A s \in FileSegs(root.segs) : s \in DOMAIN files /\ KeptFor(s)

\* The inductive invariant.
FilesInv == /\ TypeOK
            /\ FreshIDs
            /\ OneVersion
            /\ EpochsInOrder
            /\ EquivOfSnapshot
            /\ FilesWritten
            /\ MergedAway
            /\ RootKept
            /\ CopiedFilesStay

---------------------------------------------------------------------------
(* What snapshots show *)

\* The index is the outcome of the batches of history.
HistoryShown ==
  /\ history \in Seq(SUBSET Documents)
  /\ Len(history) = root.internal + 1
  /\ history[1] = {}
  /\ Contents(root.segs) = history[root.internal + 1]

\* The root has no fewer deletions of the segment s than ss has.
OlderThanRoot(s, ss) == s \in DOMAIN root.segs => ss.del \subseteq root.segs[s].del

DeletionsGrow ==
  /\ Active => \A s \in DOMAIN persister.snap.segs :
                 OlderThanRoot(s, persister.snap.segs[s])
  /\ \A s \in DOMAIN merger.segs : OlderThanRoot(s, merger.segs[s])
  /\ \A merge \in {persister.merge, merger.merge} :
       \A s \in DOMAIN merge.hist : OlderThanRoot(s, merge.hist[s].old)

MergesSound ==
  /\ \A merge \in {persister.merge, merger.merge} :
       MergeSound(merge) /\ NumbersDistinct(merge)
  /\ \A id, jd \in DOMAIN persister.merge.new : id = jd
  /\ persister.pc = "merging" =>
       \A s \in DOMAIN persister.merge.hist :
         persister.merge.hist[s].old = persister.snap.segs[s]

Underway == Active \/ persister.pc = "committed"

\* What is committed shows what was taken, which history has; the callers
\* waiting for it have their batches in it.
SnapshotFaithful ==
  /\ waiting \cup persister.callbacks \subseteq 0 .. root.internal
  /\ Underway =>
       /\ persister.snap.internal \in 0 .. root.internal
       /\ Contents(persister.snap.segs) = history[persister.snap.internal + 1]
       /\ persister.callbacks \subseteq 0 .. persister.snap.internal
  /\ EquivBuilt \/ persister.pc = "committed" =>
       Contents(persister.equiv) = Contents(persister.snap.segs)

\* The segments of a bucket, as LoadSnapshot has them.
SegsOf(fs, bucket) ==
  [s \in DOMAIN bucket.segs |->
     [docs |-> fs[s], del |-> bucket.segs[s].del, file |-> TRUE]]

BoltFaithful ==
  /\ \A e \in DOMAIN bolt :
       /\ bolt[e].internal \in 0 .. root.internal
       /\ Contents(SegsOf(files, bolt[e])) = history[bolt[e].internal + 1]
  /\ \A e, f \in DOMAIN bolt : e <= f => bolt[e].internal <= bolt[f].internal
  /\ Active => \A e \in DOMAIN bolt : bolt[e].internal <= persister.snap.internal
  /\ persister.pc = "committed" =>
       bolt[persister.snap.epoch].internal = persister.snap.internal

AckedInBolt ==
  /\ acked \in Nat
  /\ IF DOMAIN bolt = {} THEN acked = 0
                         ELSE acked <= bolt[Max(DOMAIN bolt)].internal

\* Inductive together with FilesInv.
ContentsInv == /\ HistoryShown
               /\ DeletionsGrow
               /\ MergesSound
               /\ SnapshotFaithful
               /\ BoltFaithful
               /\ AckedInBolt

=============================================================================
