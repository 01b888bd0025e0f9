----------------------------- MODULE ScorchRefs -----------------------------
(***************************************************************************)
(* Who holds what: the reference counts of index snapshots and of the      *)
(* segments in them.  A snapshot is built with one reference, its          *)
(* segments counted once more, and lets its segments go when its last      *)
(* holder lets it go; a segment is closed when its count is zero.  Every   *)
(* introduction takes references and gives others up in an order of its    *)
(* own; failures, skipped merges and Close cut in.  What is in a segment   *)
(* is the subject of ScorchRoot: here an introduction drops whichever      *)
(* segments it empties.                                                    *)
(***************************************************************************)
EXTENDS Integers, FiniteSets, Sequences

CONSTANTS Writer, Reader,
          UnsafeBatch,   \* Scorch.unsafeBatch: callers do not wait for the persister
          Workers,       \* NumPersisterWorkers
          MaxBatches,    \* bound: batches
          MaxMerges,     \* bound: tasks of the merger
          MaxFailures    \* bound: attempts to persist or merge that fail

VARIABLES snapshots,   \* IndexSnapshot: its segments and refs, by number
          segments,    \* count and kind of each segment.Segment
          root,        \* Scorch.root, 0 when it is nil
          writers,     \* of each Batch: newSegment and the root it prepared on
          readers,     \* the snapshot each reader has, 0: none
          introducer, persister, merger,
          index,       \* "open", "closing" (closeCh closed), "closed"
          used         \* of the bounds

vars == <<snapshots, segments, root, writers, readers, introducer, persister, merger,
          index, used>>

\* What is assumed of the constants.
RefsAssumption ==
  /\ IsFiniteSet(Writer) /\ IsFiniteSet(Reader)
  /\ UnsafeBatch \in BOOLEAN
  /\ {Workers, MaxBatches, MaxMerges, MaxFailures} \subseteq Nat

Closing == index # "open"

Memory(S) == {o \in S : segments[o].mem}

---------------------------------------------------------------------------
(* References *)

\* Segments in S, the values of segments, counted n more.
Counted(segs, S, n) ==
  [o \in DOMAIN segs |-> IF o \in S THEN [segs[o] EXCEPT !.count = @ + n] ELSE segs[o]]

\* Mutant: a snapshot lets its segments go with every reference.
LetGoAlways(state, s) ==
  [snapshots |-> [state.snapshots EXCEPT ![s].refs = @ - 1],
   segments |-> Counted(state.segments, state.snapshots[s].segs, -1)]

\* DecRef of snapshot s, its segments with the last one.
LetGo(state, s) ==
  [snapshots |-> [state.snapshots EXCEPT ![s].refs = @ - 1],
   segments |-> IF state.snapshots[s].refs = 1
                THEN Counted(state.segments, state.snapshots[s].segs, -1)
                ELSE state.segments]

LetGoIfAny(state, s) == IF s = 0 THEN state ELSE LetGo(state, s)

State == [snapshots |-> snapshots, segments |-> segments]

Becomes(state) == /\ snapshots' = state.snapshots
                  /\ segments' = state.segments

\* segs closed, then s let go.
CloseAndLetGo(segs, s) ==
  LetGoIfAny([State EXCEPT !.segments = Counted(segments, segs, -1)], s)

\* The root with one reference more: currentSnapshot.
RootAddRef == [snapshots EXCEPT ![root].refs = @ + 1]

\* n new segments, which the code that made them owns.
Opened(n, mem) == segments \o [i \in 1 .. n |-> [count |-> 1, mem |-> mem]]
NewSegments(n) == (Len(segments) + 1) .. (Len(segments) + n)

\* One more of what max bounds.
Uses(what, max) == /\ used[what] < max
                   /\ used' = [used EXCEPT ![what] = @ + 1]

---------------------------------------------------------------------------
(* Readers *)

Read(r) ==
  /\ readers[r] = 0 /\ root # 0
  /\ snapshots' = RootAddRef
  /\ readers' = [readers EXCEPT ![r] = root]
  /\ UNCHANGED <<segments, root, writers, introducer, persister, merger, index, used>>

CloseReader(r) ==
  /\ readers[r] # 0
  /\ Becomes(LetGo(State, readers[r]))
  /\ readers' = [readers EXCEPT ![r] = 0]
  /\ UNCHANGED <<root, writers, introducer, persister, merger, index, used>>

---------------------------------------------------------------------------
(* introducerLoop.  pc: "idle", "persist" with an introduction it has not   *)
(* read, "swap" with a new snapshot, "finish" with its reference to the     *)
(* old root, "done".                                                        *)

\* A new snapshot of the segments kept, which it counts, and of added, whose
\* counts it takes over; refs is 2 when the requester gets it too.
Build(kept, added, refs) ==
  /\ snapshots' = Append(RootAddRef, [segs |-> kept \cup added, refs |-> refs])
  /\ introducer' = [introducer EXCEPT !.pc = "swap", !.old = root,
                                      !.new = Len(snapshots) + 1]

IntroduceSegment(w) ==
  /\ introducer.pc = "idle" /\ writers[w].pc = "introducing"
  /\ \E kept \in SUBSET snapshots[root].segs :
       /\ Build(kept, {writers[w].seg} \ {0}, 1)
       /\ segments' = Counted(segments, kept, 1)
  /\ writers' = [writers EXCEPT ![w].pc = "introduced"]
  /\ UNCHANGED <<root, readers, persister, merger, index, used>>

ReceivePersist ==
  /\ introducer.pc = "idle" /\ persister.pc = "send"
  /\ introducer' = [introducer EXCEPT !.pc = "persist", !.old = root,
                                      !.files = persister.files]
  /\ snapshots' = RootAddRef
  /\ persister' = [persister EXCEPT !.pc = "sent"]
  /\ UNCHANGED <<segments, root, writers, readers, merger, index, used>>

\* The files take the place of the segments that are in the root still; they
\* leave the map that the persister gave, the others stay in it.
IntroducePersist ==
  LET replaced == DOMAIN introducer.files \cap snapshots[root].segs
      kept == snapshots[root].segs \ replaced
      added == {introducer.files[o] : o \in replaced}
  IN  /\ introducer.pc = "persist"
      /\ snapshots' = Append(snapshots, [segs |-> kept \cup added, refs |-> 1])
      /\ segments' = Counted(segments, kept, 1)
      /\ introducer' = [introducer EXCEPT !.pc = "swap", !.new = Len(snapshots) + 1,
                                          !.files = <<>>]
      /\ persister' = [persister EXCEPT !.opened = @ \ added]
      /\ UNCHANGED <<root, writers, readers, merger, index, used>>

\* The segments in merged go, those of new that are worth keeping come.
BuildMerge(merged, new) ==
  LET kept == snapshots[root].segs \ merged
  IN  /\ introducer.pc = "idle"
      /\ Build(kept, new, 2)
      /\ segments' = Counted(segments, kept, 1)

IntroduceInMemoryMerge ==
  /\ persister.pc = "merge"
  /\ \E kept \in SUBSET persister.opened :
       /\ BuildMerge(persister.merged, kept)
       /\ persister' = [persister EXCEPT !.pc = "merging", !.new = Len(snapshots) + 1,
                                         !.kept = kept]
  /\ UNCHANGED <<root, writers, readers, merger, index, used>>

IntroduceFileMerge ==
  /\ merger.pc = "send"
  /\ \E kept \in BOOLEAN :
       /\ BuildMerge(merger.merged, IF kept THEN {merger.seg} ELSE {})
       /\ merger' = [merger EXCEPT !.pc = "merging", !.new = Len(snapshots) + 1,
                                   !.kept = kept]
  /\ UNCHANGED <<root, writers, readers, persister, index, used>>

\* The callers of Batch that wait for the persister, or not.
AfterApplied == IF UnsafeBatch THEN "return" ELSE "persisting"

\* The new snapshot is the root; whoever it was introduced for is told.
Swap ==
  /\ introducer.pc = "swap"
  /\ root' = introducer.new
  /\ Becomes(LetGo(State, root))
  /\ introducer' = [introducer EXCEPT !.pc = "finish", !.new = 0]
  /\ writers' = [w \in Writer |-> IF writers[w].pc = "introduced"
                                  THEN [writers[w] EXCEPT !.pc = AfterApplied]
                                  ELSE writers[w]]
  /\ persister' = [persister EXCEPT !.pc = CASE @ = "merging" -> "merged"
                                             [] @ = "sent" -> "commit"
                                             [] OTHER -> @]
  /\ merger' = [merger EXCEPT !.pc = IF @ = "merging" THEN "merged" ELSE @]
  /\ UNCHANGED <<readers, index, used>>

\* The deferred DecRef of the root that the introduction began with.
Finish ==
  /\ introducer.pc = "finish"
  /\ Becomes(LetGo(State, introducer.old))
  /\ introducer' = [introducer EXCEPT !.pc = "idle", !.old = 0]
  /\ UNCHANGED <<root, writers, readers, persister, merger, index, used>>

IntroducerExits ==
  /\ introducer.pc = "idle" /\ Closing
  /\ introducer' = [introducer EXCEPT !.pc = "done"]
  /\ UNCHANGED <<snapshots, segments, root, writers, readers, persister, merger, index,
                 used>>

---------------------------------------------------------------------------
(* Batch.  pc: "idle", "introducing" until the introducer takes it,         *)
(* "introduced", "persisting", "return" and "failed" with an answer.        *)

\* A segment of the batch's documents, if it has any, and the obsoletions.
PrepareSegment(w) ==
  /\ writers[w].pc = "idle" /\ ~Closing
  /\ Uses("batches", MaxBatches)
  /\ \E n \in {0, 1} :
       /\ segments' = Opened(n, TRUE)
       /\ writers' = [writers EXCEPT ![w] = [pc |-> "introducing", snap |-> root,
                                             seg |-> IF n = 0 THEN 0 ELSE Len(segments) + 1]]
  /\ snapshots' = RootAddRef
  /\ UNCHANGED <<root, readers, introducer, persister, merger, index>>

NoBatch == [pc |-> "idle", seg |-> 0, snap |-> 0]

\* The call returns, closing its segment if there was an error.
BatchEnds(w, closed) ==
  /\ Becomes(CloseAndLetGo(closed, writers[w].snap))
  /\ writers' = [writers EXCEPT ![w] = NoBatch]
  /\ UNCHANGED <<root, readers, introducer, persister, merger, index, used>>

BatchReturns(w) == writers[w].pc = "return" /\ BatchEnds(w, {})

\* DocNumbers fails, here or in introduceSegment, whose snapshot is undone; or
\* persisting has failed.
BatchFails(w) ==
  /\ writers[w].pc \in {"introducing", "failed"}
  /\ BatchEnds(w, {writers[w].seg} \ {0})

---------------------------------------------------------------------------
(* persisterLoop.  pc: "idle", "took" a snapshot, "merge" and "send" what   *)
(* it offers to the introducer, "merging" and "sent" when it is taken,      *)
(* "merged", "direct" when the merge was skipped, "commit", "done".         *)

\* The persister between two snapshots; raced: PersisterClosed, too early.
Idle(last) == [pc |-> "idle", snap |-> 0, new |-> 0, merged |-> {}, files |-> <<>>,
               opened |-> {}, kept |-> {}, acks |-> {}, lastPersisted |-> last, raced |-> FALSE]

PersisterMoves(p) ==
  /\ persister' = p
  /\ UNCHANGED <<root, readers, introducer, merger, index>>

TakeSnapshot ==
  /\ persister.pc = "idle" /\ ~Closing
  /\ root > persister.lastPersisted
  /\ snapshots' = RootAddRef
  /\ PersisterMoves([persister EXCEPT !.pc = "took", !.snap = root,
                                      !.acks = {w \in Writer : writers[w].pc = "persisting"}])
  /\ UNCHANGED <<segments, writers, used>>

\* The workers merge two or more in-memory segments to files; a worker that
\* finds only file segments left makes a file of nothing.
MergeInMemory ==
  /\ persister.pc = "took"
  /\ \E M \in SUBSET Memory(snapshots[persister.snap].segs), n \in 1 .. Workers :
       /\ Cardinality(M) >= 2
       /\ segments' = Opened(n, FALSE)
       /\ PersisterMoves([persister EXCEPT !.pc = "merge", !.merged = M,
                                           !.opened = NewSegments(n)])
  /\ UNCHANGED <<snapshots, writers, used>>

\* Nothing merged is worth keeping: the snapshot is persisted as it is.
\* Otherwise the introduced snapshot is kept while equiv, which has no
\* reference of its own, is written; only the segments in it are remembered.
AfterInMemoryMerge ==
  /\ persister.pc = "merged"
  /\ IF persister.kept = {}
     THEN /\ Becomes(CloseAndLetGo(persister.opened, persister.new))
          /\ PersisterMoves([persister EXCEPT !.pc = "direct", !.new = 0, !.opened = {},
                                              !.merged = {}])
     ELSE /\ PersisterMoves([persister EXCEPT !.pc = "commit", !.opened = {}])
          /\ UNCHANGED <<snapshots, segments>>
  /\ UNCHANGED <<writers, used>>

\* Every in-memory segment is written to a file of its own, which is opened.
PersistDirect ==
  LET mem == Memory(snapshots[persister.snap].segs)
      n == Cardinality(mem)
  IN  /\ persister.pc \in {"took", "direct"}
      /\ segments' = Opened(n, FALSE)
      /\ \E files \in [mem -> NewSegments(n)] :
           /\ \A o, u \in mem : files[o] = files[u] => o = u
           /\ PersisterMoves([persister EXCEPT !.pc = IF n = 0 THEN "commit" ELSE "send",
                                               !.files = files, !.opened = NewSegments(n)])
      /\ UNCHANGED <<snapshots, writers, used>>

\* The persister is done with its snapshot: the files that the root did not
\* take are closed, its references given up and its callers answered.
PersisterLetsGo(p, answer) ==
  /\ Becomes(LetGoIfAny(CloseAndLetGo(persister.opened, persister.new), persister.snap))
  /\ PersisterMoves(p)
  /\ writers' = [w \in Writer |-> IF w \in persister.acks
                                  THEN [writers[w] EXCEPT !.pc = answer] ELSE writers[w]]

Commit ==
  /\ persister.pc = "commit"
  /\ PersisterLetsGo(Idle(persister.snap), "return")
  /\ UNCHANGED used

\* Merging, writing, opening or committing fails.
PersistFails ==
  /\ persister.pc \in {"took", "direct", "commit"}
  /\ Uses("failures", MaxFailures)
  /\ PersisterLetsGo(Idle(persister.lastPersisted), "failed")

\* closeCh is chosen while it waits to send, or for the answer to persists.
\* It closes what its map has, though the introducer may be about to read it.
PersisterClosed ==
  /\ persister.pc \in {"merge", "send", "sent"} /\ Closing
  /\ PersisterLetsGo([Idle(persister.lastPersisted) EXCEPT !.pc = "done",
                                                            !.raced = introducer.pc = "persist"],
                     "failed")
  /\ UNCHANGED used

PersisterExits ==
  /\ persister.pc = "idle" /\ Closing
  /\ PersisterMoves([persister EXCEPT !.pc = "done"])
  /\ UNCHANGED <<snapshots, segments, writers, used>>

---------------------------------------------------------------------------
(* mergerLoop.  pc: "idle", "plan" between the tasks of a plan, "send" a    *)
(* merged segment, "merging" when it is taken, "merged", "done".            *)

Resting(last) == [pc |-> "idle", snap |-> 0, new |-> 0, merged |-> {}, seg |-> 0,
                  kept |-> FALSE, todo |-> {}, lastPlanned |-> last]

MergerMoves(m) ==
  /\ merger' = m
  /\ UNCHANGED <<root, writers, readers, introducer, persister, index>>

\* The root and its file segments, which are to be merged.
PlanMerge ==
  /\ merger.pc = "idle" /\ ~Closing /\ root # merger.lastPlanned
  /\ snapshots' = RootAddRef
  /\ MergerMoves([merger EXCEPT !.pc = "plan", !.snap = root,
                                !.todo = snapshots[root].segs \ Memory(snapshots[root].segs)])
  /\ UNCHANGED <<segments, used>>

MergeTask ==
  /\ merger.pc = "plan"
  /\ Uses("merges", MaxMerges)
  /\ \E M \in SUBSET merger.todo :
       /\ M # {}
       /\ MergerMoves([merger EXCEPT !.pc = "send", !.merged = M, !.todo = @ \ M,
                                     !.seg = Len(segments) + 1])
  /\ segments' = Opened(1, FALSE)
  /\ UNCHANGED snapshots

\* The status' snapshot goes, and the segment if the introducer skipped it.
AfterFileMerge ==
  /\ merger.pc = "merged"
  /\ Becomes(CloseAndLetGo(IF merger.kept THEN {} ELSE {merger.seg}, merger.new))
  /\ MergerMoves([merger EXCEPT !.pc = "plan", !.new = 0, !.merged = {}, !.seg = 0,
                                !.kept = FALSE])
  /\ UNCHANGED used

MergerLetsGo(m) ==
  /\ Becomes(CloseAndLetGo(IF merger.pc = "send" THEN {merger.seg} ELSE {}, merger.snap))
  /\ MergerMoves(m)

MergeDone ==
  /\ merger.pc = "plan"
  /\ MergerLetsGo(Resting(merger.snap))
  /\ UNCHANGED used

MergeFails ==
  /\ merger.pc = "plan"
  /\ Uses("failures", MaxFailures)
  /\ MergerLetsGo(Resting(merger.lastPlanned))

\* Mutant: the merge returns before it has put off letting its snapshot go.
MergeClosedHolds ==
  /\ merger.pc \in {"plan", "send"} /\ Closing
  /\ MergerMoves([merger EXCEPT !.pc = "done"])
  /\ UNCHANGED <<snapshots, segments, used>>

\* The merge notices closeCh, or it is chosen rather than the send.
MergeClosed ==
  /\ merger.pc \in {"plan", "send"} /\ Closing
  /\ MergerLetsGo([Resting(merger.lastPlanned) EXCEPT !.pc = "done"])
  /\ UNCHANGED used

MergerExits ==
  /\ merger.pc = "idle" /\ Closing
  /\ MergerMoves([merger EXCEPT !.pc = "done"])
  /\ UNCHANGED <<snapshots, segments, used>>

---------------------------------------------------------------------------
(* Close *)

\* IndexImpl.Close waits for the callers of Batch, not for those that read.
CallClose ==
  /\ index = "open" /\ \A w \in Writer : writers[w].pc = "idle"
  /\ index' = "closing"
  /\ UNCHANGED <<snapshots, segments, root, writers, readers, introducer, persister,
                 merger, used>>

CloseReturns ==
  /\ index = "closing" /\ {introducer.pc, persister.pc, merger.pc} = {"done"}
  /\ index' = "closed" /\ root' = 0
  /\ Becomes(LetGo(State, root))
  /\ UNCHANGED <<writers, readers, introducer, persister, merger, used>>

---------------------------------------------------------------------------

Init ==
  /\ snapshots = <<[segs |-> {}, refs |-> 1]>> /\ segments = <<>> /\ root = 1
  /\ writers = [w \in Writer |-> NoBatch]
  /\ readers = [r \in Reader |-> 0]
  /\ introducer = [pc |-> "idle", old |-> 0, new |-> 0, files |-> <<>>]
  /\ persister = Idle(1) /\ merger = Resting(1)
  /\ index = "open" /\ used = [batches |-> 0, merges |-> 0, failures |-> 0]

Introducer == \/ \E w \in Writer : IntroduceSegment(w)
              \/ ReceivePersist \/ IntroducePersist
              \/ IntroduceInMemoryMerge \/ IntroduceFileMerge
              \/ Swap \/ Finish \/ IntroducerExits
Persister == \/ TakeSnapshot \/ MergeInMemory \/ AfterInMemoryMerge \/ PersistDirect
             \/ Commit \/ PersistFails \/ PersisterClosed \/ PersisterExits
Merger == \/ PlanMerge \/ MergeTask \/ AfterFileMerge \/ MergeDone \/ MergeFails
          \/ MergeClosed \/ MergerExits

Next == \/ Introducer \/ Persister \/ Merger
        \/ \E w \in Writer : PrepareSegment(w) \/ BatchReturns(w) \/ BatchFails(w)
        \/ \E r \in Reader : Read(r) \/ CloseReader(r)
        \/ CallClose \/ CloseReturns

\* What goes on by itself: nobody has to begin a batch, read or call Close.
Work == \/ Introducer \/ Persister \/ Merger \/ CloseReturns
        \/ \E w \in Writer : BatchReturns(w) \/ BatchFails(w)

\* The goroutines run, callers read what they are answered and readers close.
Fairness ==
  /\ WF_vars(Introducer) /\ WF_vars(Persister) /\ WF_vars(Merger)
  /\ \A w \in Writer : WF_vars(BatchReturns(w) \/ BatchFails(w))
  /\ \A r \in Reader : WF_vars(CloseReader(r))
  /\ WF_vars(CloseReturns)

Spec == Init /\ [][Next]_vars /\ Fairness

---------------------------------------------------------------------------
(* Properties *)

\* References kept to snapshot s.
Holders(s) ==
  (IF root = s THEN 1 ELSE 0)
    + Cardinality({w \in Writer : writers[w].snap = s})
    + Cardinality({r \in Reader : readers[r] = s})
    + Cardinality({i \in {"old", "new"} : introducer[i] = s})
    + Cardinality({i \in {"snap", "new"} : persister[i] = s})
    + Cardinality({i \in {"snap", "new"} : merger[i] = s})

\* Code that has segment o for itself: it is in no snapshot, or not yet.
Owners(o) ==
  Cardinality({w \in Writer : writers[w].pc = "introducing" /\ writers[w].seg = o})
    + (IF o \in persister.opened \ persister.kept THEN 1 ELSE 0)
    + (IF merger.seg = o /\ ~merger.kept THEN 1 ELSE 0)

Open(s) == snapshots[s].refs > 0
Sharing(o) == {s \in DOMAIN snapshots : Open(s) /\ o \in snapshots[s].segs}

\* The types of the records above; what is in files the invariants say.
ASnapshot == [segs : SUBSET Nat, refs : Int]
ASegment == [count : Int, mem : BOOLEAN]
ABatch == [pc : {"idle", "introducing", "introduced", "persisting", "return", "failed"},
           seg : Nat, snap : Nat]
AnIntroducer(files) == [pc : {"idle", "persist", "swap", "finish", "done"},
                        old : Nat, new : Nat, files : {files}]
APersister(files) == [pc : {"idle", "took", "merge", "merging", "merged", "direct", "send",
                            "sent", "commit", "done"},
                      snap : Nat, new : Nat, merged : SUBSET Nat, files : {files},
                      opened : SUBSET Nat, kept : SUBSET Nat, acks : SUBSET Writer,
                      lastPersisted : Nat, raced : BOOLEAN]
AMerger == [pc : {"idle", "plan", "send", "merging", "merged", "done"}, snap : Nat, new : Nat,
            merged : SUBSET Nat, seg : Nat, kept : BOOLEAN, todo : SUBSET Nat,
            lastPlanned : Nat]

\* The type invariant.
TypeOK ==
  /\ snapshots \in Seq(ASnapshot) /\ segments \in Seq(ASegment) /\ root \in Nat
  /\ writers \in [Writer -> ABatch] /\ readers \in [Reader -> Nat]
  /\ introducer \in AnIntroducer(introducer.files)
  /\ persister \in APersister(persister.files) /\ merger \in AMerger
  /\ index \in {"open", "closing", "closed"}
  /\ used \in [batches : Nat, merges : Nat, failures : Nat]

\* Whatever overtakes or fails, the references of a snapshot (IndexSnapshot.refs)
\* are those its holders keep: none is given up twice or forgotten.
SnapshotCounts == \A s \in DOMAIN snapshots : snapshots[s].refs = Holders(s)

\* A segment is counted once for every snapshot that has not been let go, and
\* once by the code that opened it until a snapshot takes that count over.
SegmentCounts ==
  ~persister.raced => \A o \in DOMAIN segments :
                        segments[o].count = Cardinality(Sharing(o)) + Owners(o)

\* Whoever holds a snapshot can read its segments: none has been closed.
NoUseAfterClose ==
  \A s \in DOMAIN snapshots : Open(s) => \A o \in snapshots[s].segs : segments[o].count > 0

\* A merged or opened segment that nothing refers to has been closed, its file
\* unmapped.
NothingLeaked ==
  \A o \in DOMAIN segments : segments[o].count > 0 => Sharing(o) # {} \/ Owners(o) > 0

\* Every count is what its holders account for: nothing is closed under them,
\* and nothing stays open without them.
CountsExact == SnapshotCounts /\ SegmentCounts /\ NothingLeaked

\* What has been closed or let go is never taken up again: AddRef is called
\* only on what the caller knows to be held.
StaysClosed ==
  \/ persister.raced'
  \/ /\ \A s \in DOMAIN snapshots : ~Open(s) => ~Open(s)'
     /\ \A o \in DOMAIN segments :
          segments[o].count <= 0 => segments'[o].count <= 0
ClosedForGood == [][StaysClosed]_vars

\* In the end, whether the index is closed or not, only the root is held and
\* only its segments are open: whoever takes a snapshot lets it go, though
\* what it waits for fails, is skipped or never comes because of Close.
Released ==
  \/ persister.raced
  \/ /\ \A s \in DOMAIN snapshots : Open(s) => s = root
     /\ \A o \in DOMAIN segments :
          segments[o].count > 0 => root # 0 /\ o \in snapshots[root].segs
OldReleased == <>[]Released
=============================================================================
