---------------------------- MODULE ScorchRoot ----------------------------
(***************************************************************************)
(* The root snapshot of a scorch index and the goroutines that replace it. *)
(* Writers call Batch; the introducer alone swaps the root, on behalf of a *)
(* writer, of the merger and of the persister.  Each of them computes what *)
(* it wants introduced from an older root, so every introduction has to be *)
(* reconciled with the root it meets.  Bolt, files and shutdown are the    *)
(* subject of ScorchStore.                                                 *)
(***************************************************************************)
EXTENDS SegmentSnapshots

CONSTANTS Writer,               \* goroutines that call Batch
          DocId, Val,           \* document identifiers and versions
          NoVal, Keep,          \* see AtomicIndex
          Batch,                \* the batches submitted
          NumPersisterWorkers,  \* persisterOptions.NumPersisterWorkers
          LegacyFlush,          \* what legacyFlushBehaviour() returns
          MaxSegmentID          \* bound: segment ids handed out

VARIABLES root,           \* Scorch.root
          nextSegmentID,  \* Scorch.nextSegmentID, the last id handed out
          introductions,  \* per writer, its segmentIntroduction on its way
          persister,      \* the persister's place, snapshot and merge
          merger          \* the merger's snapshot and current task

vars == <<root, nextSegmentID, introductions, persister, merger>>

(***************************************************************************)
(* The abstract index this one implements: readers see the live documents  *)
(* of the root, and a call to Batch is pending until it is introduced.     *)
(***************************************************************************)
Atomic == INSTANCE AtomicIndex WITH
            contents <- Contents(root.segs),
            internal <- root.internal,
            calls    <- [w \in Writer |-> introductions[w].call]

ASSUME ConstantsAssumption ==
  /\ Keep \notin Val \cup {NoVal}
  /\ NoVal \notin Val
  /\ Batch \subseteq Atomic!BatchType
  /\ \A b \in Batch : IsFiniteSet(DOMAIN b.ops)
  /\ NumPersisterWorkers \in Nat \ {0}
  /\ LegacyFlush \in BOOLEAN
  /\ LegacyFlush => NumPersisterWorkers = 1
  /\ MaxSegmentID \in Nat

Doc == [id : DocId, val : Val]

IndexSnapshot(epoch, segs, internal) ==
  [epoch |-> epoch, segs |-> segs, internal |-> internal]
NoSnapshot == IndexSnapshot(0, NoSegs, NoVal)

\* Every swap gives the new root the next snapshot epoch.
SwapRoot(segs, internal) ==
  root' = IndexSnapshot(root.epoch + 1, segs, internal)

---------------------------------------------------------------------------
(* Batch and the introduction of its segment *)

NotCalling == [call |-> Atomic!Idle, id |-> 0, docs |-> NoSegs,
               ids |-> {}, obsoletes |-> NoSegs]

\* A segment of these documents: the analysis workers hand them back, and
\* so number them, in any order.
Segments(docs) ==
  {seg \in [0 .. Cardinality(docs) - 1 -> docs] :
     \A m, n \in DOMAIN seg : seg[m] = seg[n] => m = n}

\* Batch up to the send on s.introductions: the obsoletions are computed
\* from the root of this moment.
PrepareSegment(w, b) ==
  /\ introductions[w] = NotCalling
  /\ nextSegmentID < MaxSegmentID
  /\ nextSegmentID' = nextSegmentID + 1
  /\ \E docs \in Segments(Atomic!DocsOf(b)) :
       introductions' = [introductions EXCEPT ![w] =
         [call      |-> Atomic!Calling(b),
          id        |-> nextSegmentID + 1,
          docs      |-> docs,
          ids       |-> Atomic!Ids(b),
          obsoletes |-> Obsoletes(root.segs, Atomic!Ids(b))]]
  /\ UNCHANGED <<root, persister, merger>>

\* Building the segment or computing the obsoletions failed, in the writer
\* or in the introducer: the root stays.
BatchFails(w) ==
  /\ introductions[w] # NotCalling
  /\ introductions' = [introductions EXCEPT ![w] = NotCalling]
  /\ UNCHANGED <<root, nextSegmentID, persister, merger>>

IntroduceBatch(w) ==
  LET next == introductions[w]
  IN  /\ next # NotCalling
      /\ SwapRoot(IntroduceSegment(root.segs, next),
                  Atomic!AppliedInternal(root.internal, next.call.batch))
      /\ introductions' = [introductions EXCEPT ![w] = NotCalling]
      /\ UNCHANGED <<nextSegmentID, persister, merger>>

---------------------------------------------------------------------------
(* The persister *)

\* pc: "top" of its loop, "taken" a snapshot, "merging" its in-memory
\* segments, "direct" in persistSnapshotDirect, "commit" of the bolt
\* transaction.  merge is the segmentMerge under way.
Resting(epoch) == [pc |-> "top", snap |-> NoSnapshot, merge |-> NoMerge,
                   lastPersistedEpoch |-> epoch]

PersisterTakesSnapshot ==
  /\ persister.pc = "top"
  /\ root.epoch > persister.lastPersistedEpoch
  /\ persister' = [persister EXCEPT !.pc = "taken", !.snap = root]
  /\ UNCHANGED <<root, nextSegmentID, introductions, merger>>

(***************************************************************************)
(* The flush sets persistSnapshotMaybeMerge may build: which of the        *)
(* in-memory segments the k workers merge, and into which new segment.     *)
(* Segment sizes are abstracted, so where a worker's share ends is a       *)
(* choice; all the in-memory segments are shared out, unless every worker  *)
(* has filled up (with at least two segments) before.  When a file segment *)
(* follows the last one shared out, one more worker may start, with no     *)
(* segment at all: it uses up an id.                                       *)
(***************************************************************************)
Share(into, id) == {s \in DOMAIN into : into[s] = id}

FlushSets(segs, ids) ==
  {into \in UNION {[M -> ids] : M \in SUBSET MemSegs(segs)} :
     /\ Cardinality(DOMAIN into) >= 2
     /\ \/ /\ DOMAIN into = MemSegs(segs)
           /\ Cardinality({id \in ids : Cardinality(Share(into, id)) <= 1}) <= 1
           /\ \A id \in ids : Share(into, id) = {} =>
                ~LegacyFlush /\ FileSegs(segs) # {}
        \/ /\ ~LegacyFlush
           /\ Cardinality(ids) = NumPersisterWorkers
           /\ \A id \in ids : Cardinality(Share(into, id)) >= 2}

\* Mutant: the counter is read before it is incremented.
NewIDsReused(k) == nextSegmentID .. nextSegmentID + k - 1

NewIDs(k) == nextSegmentID + 1 .. nextSegmentID + k

\* mergeAndPersistInMemorySegments up to the send on s.merges.
MergeInMemory ==
  /\ persister.pc = "taken"
  /\ \E k \in 1 .. NumPersisterWorkers :
       /\ nextSegmentID + k <= MaxSegmentID
       /\ nextSegmentID' = nextSegmentID + k
       /\ \E into \in FlushSets(persister.snap.segs, NewIDs(k)) :
            persister' = [persister EXCEPT
                            !.pc = "merging",
                            !.merge = SegmentMerge(persister.snap.segs, into)]
  /\ UNCHANGED <<root, introductions, merger>>

PersisterGoes(pc) == [persister EXCEPT !.pc = pc, !.merge = NoMerge]

\* Too few in-memory segments, or NumEventsBlocking at its threshold.
PersistDirectly ==
  /\ persister.pc = "taken"
  /\ persister' = PersisterGoes("direct")
  /\ UNCHANGED <<root, nextSegmentID, introductions, merger>>

\* introStatus.skipped: none of the merged segments was worth keeping.
Skipped(segs, merge) == LiveOnly(MergedSegs(segs, merge)) = NoSegs

IntroduceInMemoryMerge ==
  /\ persister.pc = "merging"
  /\ SwapRoot(IntroduceMerge(root.segs, persister.merge), root.internal)
  /\ persister' = PersisterGoes(IF Skipped(root.segs, persister.merge)
                                THEN "direct" ELSE "commit")
  /\ UNCHANGED <<nextSegmentID, introductions, merger>>

IntroducePersisted ==
  /\ persister.pc = "direct"
  /\ MemSegs(persister.snap.segs) # {}
  /\ SwapRoot(IntroducePersist(root.segs, MemSegs(persister.snap.segs)),
              root.internal)
  /\ persister' = PersisterGoes("commit")
  /\ UNCHANGED <<nextSegmentID, introductions, merger>>

SnapshotPersisted ==
  /\ \/ persister.pc = "commit"
     \/ persister.pc = "direct" /\ MemSegs(persister.snap.segs) = {}
  /\ persister' = Resting(persister.snap.epoch)
  /\ UNCHANGED <<root, nextSegmentID, introductions, merger>>

\* persistSnapshot returned an error: the loop starts over.
PersistFails ==
  /\ persister.pc \in {"taken", "direct", "commit"}
  /\ persister' = Resting(persister.lastPersistedEpoch)
  /\ UNCHANGED <<root, nextSegmentID, introductions, merger>>

---------------------------------------------------------------------------
(* The merger *)

NoTask == [segs |-> NoSegs, merge |-> NoMerge]

\* The persisted segments of the root, from which the plan is made.
MergerTakesSnapshot ==
  /\ merger = NoTask
  /\ FileSegs(root.segs) # {}
  /\ merger' = [merger EXCEPT !.segs = Only(root.segs, FileSegs(root.segs))]
  /\ UNCHANGED <<root, nextSegmentID, introductions, persister>>

\* The next task of planMergeAtSnapshot: a plan puts a segment in one task at
\* most, and at least two in each (segments are never empty).
StartFileMerge(S) ==
  /\ merger.merge = NoMerge
  /\ S \subseteq DOMAIN merger.segs /\ Cardinality(S) >= 2
  /\ nextSegmentID < MaxSegmentID
  /\ nextSegmentID' = nextSegmentID + 1
  /\ merger' = [segs  |-> Without(merger.segs, S),
                merge |-> SegmentMerge(merger.segs,
                                       [s \in S |-> nextSegmentID + 1])]
  /\ UNCHANGED <<root, introductions, persister>>

IntroduceFileMerge ==
  /\ merger.merge # NoMerge
  /\ SwapRoot(IntroduceMerge(root.segs, merger.merge), root.internal)
  /\ merger' = [merger EXCEPT !.merge = NoMerge]
  /\ UNCHANGED <<nextSegmentID, introductions, persister>>

\* No task left, or a merge failed before it was introduced.
MergerDone ==
  /\ merger # NoTask
  /\ merger' = NoTask
  /\ UNCHANGED <<root, nextSegmentID, introductions, persister>>

---------------------------------------------------------------------------
Init ==
  /\ root = NoSnapshot
  /\ nextSegmentID = 0
  /\ introductions = [w \in Writer |-> NotCalling]
  /\ persister = Resting(0)
  /\ merger = NoTask

WriterStep == \E w \in Writer : \/ \E b \in Batch : PrepareSegment(w, b)
                                \/ IntroduceBatch(w)
                                \/ BatchFails(w)

PersisterStep == \/ PersisterTakesSnapshot
                 \/ MergeInMemory
                 \/ PersistDirectly
                 \/ IntroduceInMemoryMerge
                 \/ IntroducePersisted
                 \/ SnapshotPersisted
                 \/ PersistFails

MergerStep == \/ MergerTakesSnapshot
              \/ \E S \in SUBSET DOMAIN merger.segs : StartFileMerge(S)
              \/ IntroduceFileMerge
              \/ MergerDone

Next == WriterStep \/ PersisterStep \/ MergerStep

Spec == Init /\ [][Next]_vars

---------------------------------------------------------------------------
(* The shape of the state *)

IsSnapshot(snap) ==
  /\ snap = IndexSnapshot(snap.epoch, snap.segs, snap.internal)
  /\ snap.epoch \in Nat
  /\ IsSegs(Doc, snap.segs)
  /\ snap.internal \in Val \cup {NoVal}

IsIntroduction(next) ==
  /\ next = [call |-> next.call, id |-> next.id, docs |-> next.docs,
             ids |-> next.ids, obsoletes |-> next.obsoletes]
  /\ next.id \in SegmentID
  /\ IsDocs(Doc, next.docs)
  /\ next.obsoletes \in [DOMAIN next.obsoletes -> SUBSET DocNum]
  /\ \/ next = NotCalling
     \/ \E b \in Batch : /\ next.call = Atomic!Calling(b)
                         /\ next.ids = Atomic!Ids(b)
                         /\ next.docs \in Segments(Atomic!DocsOf(b))

IsPersister(p) ==
  /\ p = [pc |-> p.pc, snap |-> p.snap, merge |-> p.merge,
          lastPersistedEpoch |-> p.lastPersistedEpoch]
  /\ p.pc \in {"top", "taken", "merging", "direct", "commit"}
  /\ IsSnapshot(p.snap)
  /\ IsMerge(Doc, p.merge)
  /\ p.lastPersistedEpoch \in Nat
  /\ p.pc # "merging" => p.merge = NoMerge

IsMerger(m) == /\ m = [segs |-> m.segs, merge |-> m.merge]
               /\ IsSegs(Doc, m.segs)
               /\ IsMerge(Doc, m.merge)

\* The type invariant.  Beyond shapes it says that a deleted bitmap only
\* names documents of its segment and that a merge job numbers every
\* surviving document within the segment it goes into.
TypeOK == /\ IsSnapshot(root)
          /\ nextSegmentID \in Nat
          /\ introductions = [w \in Writer |-> introductions[w]]
          /\ \A w \in Writer : IsIntroduction(introductions[w])
          /\ IsPersister(persister)
          /\ IsMerger(merger)

---------------------------------------------------------------------------
(* Safety *)

UniqueIDs(segs) ==
  \A s, t \in DOMAIN segs : \A m \in Live(segs[s]), n \in Live(segs[t]) :
     segs[s].docs[m].id = segs[t].docs[n].id => s = t /\ m = n

\* At most one live document per identifier, whatever merges, persists and
\* other batches overtook the introduction that updated it.
LiveUnique == UniqueIDs(root.segs)

\* No snapshot has a segment without live documents.  planMergeAtSnapshot
\* relies on it: it calls seg.Count() on the merged segment even when
\* every segment of the task was empty and seg is nil.
NoEmptySegments ==
  \A segs \in {root.segs, persister.snap.segs, merger.segs} :
     \A s \in DOMAIN segs : Live(segs[s]) # {}

\* What introduceMerge looks up in oldNewDocIDs was a survivor of the merge,
\* never a document the merge dropped.
DeletesTranslatable ==
  \A merge \in {persister.merge, merger.merge} :
     \A s \in DOMAIN merge.hist :
        DeletedSince(root.segs, merge, s) \subseteq DOMAIN merge.hist[s].newNum

(***************************************************************************)
(* The inductive invariant behind LiveUnique.                              *)
(***************************************************************************)
Busy == {w \in Writer : introductions[w] # NotCalling}

\* Segment ids handed out for segments the root has not met yet.
Pending == {introductions[w].id : w \in Busy}
             \cup DOMAIN persister.merge.new \cup DOMAIN merger.merge.new

Settled(s) == s \in 1 .. nextSegmentID /\ s \notin Pending

\* Every id handed out names one segment.
FreshIDs ==
  /\ Pending \subseteq 1 .. nextSegmentID
  /\ \A s \in DOMAIN root.segs : Settled(s)
  /\ \A v, w \in Busy : introductions[v].id = introductions[w].id => v = w
  /\ \A w \in Busy : introductions[w].id \notin
                       DOMAIN persister.merge.new \cup DOMAIN merger.merge.new
  /\ DOMAIN persister.merge.new \cap DOMAIN merger.merge.new = {}

\* ss is what the segment s of the root was at some earlier time, or s has
\* left the root for good.
WasInRoot(s, ss) ==
  /\ Settled(s)
  /\ s \in DOMAIN root.segs => /\ ss.docs = root.segs[s].docs
                               /\ ss.del \subseteq root.segs[s].del

AllWereInRoot(segs) == \A s \in DOMAIN segs : WasInRoot(s, segs[s])
AllMergedWereInRoot(merge) ==
  \A s \in DOMAIN merge.hist : WasInRoot(s, merge.hist[s].old)

RememberedSegments == /\ AllWereInRoot(persister.snap.segs)
                      /\ AllWereInRoot(merger.segs)
                      /\ AllMergedWereInRoot(persister.merge)
                      /\ AllMergedWereInRoot(merger.merge)

\* The obsoletions a writer prepared are still those of the segment.
ExactFor(next) ==
  \A s \in DOMAIN next.obsoletes :
    /\ Settled(s)
    /\ s \in DOMAIN root.segs =>
         next.obsoletes[s] = DocNumbers(root.segs[s].docs, next.ids)

ObsoletesExact == \A w \in Writer : ExactFor(introductions[w])

MergesSound == MergeSound(persister.merge) /\ MergeSound(merger.merge)

\* What makes LiveUnique inductive: a stale root is only ever stale about
\* which documents are deleted and which segments are gone.
StaleRootsHarmless == /\ FreshIDs
                      /\ RememberedSegments
                      /\ ObsoletesExact
                      /\ MergesSound
                      /\ LiveUnique

\* Every behaviour of the introducer, persister and merger is one of the
\* abstract index: a batch takes effect at once and entirely, and merging
\* and persisting never change what a reader sees.
ImplementsAtomicIndex == Atomic!Spec
=============================================================================
