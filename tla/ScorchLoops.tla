---------------------------- MODULE ScorchLoops ----------------------------
(***************************************************************************)
(* The goroutines of an open scorch index and the channels between them:   *)
(* who waits for whom.  introducerLoop serves Batch, the persister and the *)
(* merger; the persister waits for the introducer to pass its epoch and    *)
(* pauses when the merger lags behind; the merger waits for the persister  *)
(* to pass its epoch; ForceMerge and Close cut in.  What is introduced is  *)
(* the subject of ScorchRoot and what is written of ScorchStore: here a    *)
(* root is an epoch, the epoch of its newest in-memory segment (0: none)   *)
(* and the number of its file segments, one per flush.                     *)
(*                                                                         *)
(* A send on an unbuffered channel and its receive are one step, the       *)
(* introducer's handler included: whoever it answers is waiting for it.    *)
(* A watcher whose owner stopped waiting has no one to wake: only its      *)
(* epoch and its place in a channel's buffer remain.                       *)
(***************************************************************************)
EXTENDS Integers, FiniteSets

CONSTANTS Writer,          \* goroutines that call Batch, all safe batches
          ForceMerger,     \* goroutines that call ForceMerge
          NapTime,         \* is PersisterNapTimeMSec > 0
          InvalidOptions,  \* may ForceMerge get options that do not validate
          MaxBatches,      \* bound: batches
          MaxForceMerges,  \* bound: force merges requested
          MaxFailures      \* bound: persist and merge attempts that fail

VARIABLES root,                \* Scorch.root
          writers,             \* where each Batch call is
          rootPersisted,       \* Scorch.rootPersisted: the writers it has
          persister, merger,   \* the loops' places and local variables
          introducer,          \* "running" or "done"
          introducerNotifier,  \* channel, buffer of one watcher
          epochWatchers,       \* of the introducer: the persister's watcher
          persisterNotifier,   \* channel, buffer of one watcher
          persistWatchers,     \* of the persister: the merger's watcher
          forceMerge,          \* ForceMerge: callers, counters and channels
          index,               \* "open", "closing" (closeCh closed), "closed"
          batches, failures    \* what has been used of the bounds

notifiers == <<introducerNotifier, epochWatchers, persisterNotifier, persistWatchers>>
bounds == <<batches, failures>>
vars == <<root, writers, rootPersisted, persister, merger, introducer, notifiers,
          forceMerge, index, bounds>>

ASSUME LoopsAssumption ==
  /\ {NapTime, InvalidOptions} \subseteq BOOLEAN
  /\ {MaxBatches, MaxForceMerges, MaxFailures} \subseteq Nat

Closing == index # "open"

NoRoot == [epoch |-> 0, mem |-> 0, files |-> 0]

\* An epochWatcher; current while its owner waits for it.
Watcher(epoch) == [epoch |-> epoch, current |-> TRUE]
Abandoned(channel) == {[w EXCEPT !.current = FALSE] : w \in channel}
Epochs(watchers) == {w.epoch : w \in {v \in watchers : v.current}}

---------------------------------------------------------------------------
(* introducerLoop *)

\* Mutant: a watcher is woken one epoch late.
NotifyEpochWatchersLate(watchers, p) ==
  LET passed == {e \in watchers : e + 1 < root'.epoch}
  IN  /\ epochWatchers' = watchers \ passed
      /\ persister' = IF passed = {} THEN p ELSE [p EXCEPT !.woken = TRUE]

\* After whatever it served the introducer wakes the watchers that the root
\* has passed.
NotifyEpochWatchers(watchers, p) ==
  LET passed == {e \in watchers : e < root'.epoch}
  IN  /\ epochWatchers' = watchers \ passed
      /\ persister' = IF passed = {} THEN p ELSE [p EXCEPT !.woken = TRUE]

\* The introducer introduces a new root for someone; p is the persister then.
Introduced(newRoot, p) ==
  /\ introducer = "running"
  /\ root' = newRoot
  /\ NotifyEpochWatchers(epochWatchers, p)
  /\ UNCHANGED <<introducer, introducerNotifier, persisterNotifier, persistWatchers>>

IntroduceBatch(w) ==
  /\ writers[w] = "introducing"
  /\ \E mem \in {root.mem, root.epoch + 1} :
       Introduced([root EXCEPT !.epoch = @ + 1, !.mem = mem], persister)
  /\ writers' = [writers EXCEPT ![w] = "persisting"]
  /\ rootPersisted' = rootPersisted \cup {w}
  /\ UNCHANGED <<merger, forceMerge, index, bounds>>

ReceiveEpochWatcher ==
  /\ introducer = "running"
  /\ \E w \in introducerNotifier :
       /\ root' = root
       /\ NotifyEpochWatchers(epochWatchers \cup Epochs({w}), persister)
  /\ introducerNotifier' = {}
  /\ UNCHANGED <<writers, rootPersisted, merger, introducer, persisterNotifier,
                 persistWatchers, forceMerge, index, bounds>>

IntroducerExits ==
  /\ introducer = "running" /\ Closing
  /\ introducer' = "done"
  /\ UNCHANGED <<root, writers, rootPersisted, persister, merger, notifiers,
                 forceMerge, index, bounds>>

---------------------------------------------------------------------------
(* persisterLoop.  pc: "loop" its top, "nap" and "pause" in                 *)
(* pausePersisterForMergerCatchUp, "take" a snapshot, "persist" it, "merge" *)
(* and "swap" the sends to the introducer, "applied" and "commit" what is   *)
(* left then, "announce" its watcher, "wait" for it, "done".                *)

\* Nothing but the persister and the merger it wakes changes.
PersisterMoves(p, m) ==
  /\ persister' = p /\ merger' = m
  /\ UNCHANGED <<root, writers, rootPersisted, introducer, introducerNotifier,
                 epochWatchers, forceMerge, index, bounds>>

PersisterAt(pc) == [persister EXCEPT !.pc = pc]

\* Mutant: watchers that have seen the persisted epoch are woken, not the others.
Leading(watchers, epoch) == {e \in watchers : e > epoch}

Lagging(watchers, epoch) == {e \in watchers : e < epoch}

\* notifyMergeWatchers, with the watchers held and what it does to the merger.
NotifyMergeWatchers(watchers) ==
  LET lagging == Lagging(watchers, persister.lastPersistedEpoch)
  IN  [left |-> watchers \ lagging,
       merger |-> IF lagging = {} THEN merger ELSE [merger EXCEPT !.woken = TRUE]]

\* Where the persister goes when it has counted the files on disk, which is a
\* choice: too many of them make it wait for a merger that lags.
AfterCount(lastMerged) ==
  {"take"} \cup (IF lastMerged < persister.lastPersistedEpoch THEN {"pause"} ELSE {})

\* pausePersisterForMergerCatchUp up to where it waits.
StartPause(lastMerged, watchers) ==
  LET told == NotifyMergeWatchers(watchers)
  IN  /\ \E pc \in AfterCount(lastMerged) \cup (IF NapTime THEN {"nap"} ELSE {}) :
           PersisterMoves([persister EXCEPT !.pc = pc, !.lastMergedEpoch = lastMerged],
                          told.merger)
      /\ persistWatchers' = told.left
      /\ persisterNotifier' = {}

PersisterLoops ==
  /\ persister.pc = "loop" /\ ~Closing /\ persisterNotifier = {}
  /\ StartPause(persister.lastMergedEpoch, persistWatchers)

Later(e, f) == IF e > f THEN e ELSE f

PersisterLoopsWithWatcher ==
  /\ persister.pc = "loop"
  /\ \E w \in persisterNotifier :
       StartPause(Later(w.epoch, persister.lastMergedEpoch),
                  persistWatchers \cup Epochs({w}))

\* A watcher ends the nap; in the pause the files are counted again.
ReceiveWhilePausing ==
  /\ persister.pc \in {"nap", "pause"}
  /\ \E w \in persisterNotifier :
       LET told == NotifyMergeWatchers(persistWatchers \cup Epochs({w}))
       IN  /\ \E pc \in IF persister.pc = "nap" THEN {"take"} ELSE AfterCount(w.epoch) :
                PersisterMoves([persister EXCEPT !.pc = pc, !.lastMergedEpoch = w.epoch],
                               told.merger)
           /\ persistWatchers' = told.left
  /\ persisterNotifier' = {}

\* Mutant: the pause does not look at closeCh.
PauseEndsOnlyForNap ==
  /\ persister.pc = "nap"
  /\ PersisterMoves(PersisterAt("take"), merger)
  /\ UNCHANGED <<persisterNotifier, persistWatchers>>

\* Time is up, or the index is closed: the pause ends, the loop goes on.
PauseEnds ==
  /\ persister.pc = "nap" \/ (persister.pc = "pause" /\ Closing)
  /\ PersisterMoves(PersisterAt("take"), merger)
  /\ UNCHANGED <<persisterNotifier, persistWatchers>>

TakeSnapshot ==
  /\ persister.pc = "take"
  /\ IF root.epoch > persister.lastPersistedEpoch
     THEN /\ persister' = [persister EXCEPT !.pc = "persist", !.snap = root,
                                            !.acks = rootPersisted]
          /\ rootPersisted' = {}
     ELSE /\ persister' = PersisterAt("announce")
          /\ UNCHANGED rootPersisted
  /\ UNCHANGED <<root, writers, merger, introducer, notifiers, forceMerge, index, bounds>>

\* persistSnapshot: merge in memory first, or write the segments there are.
StartPersist ==
  /\ persister.pc = "persist"
  /\ \E pc \in IF persister.snap.mem = 0 THEN {"commit"} ELSE {"merge", "swap"} :
       PersisterMoves(PersisterAt(pc), merger)
  /\ UNCHANGED <<persisterNotifier, persistWatchers>>

\* The segments of the snapshot leave memory; those of later batches do not.
Flushed == IF root.mem <= persister.snap.epoch THEN 0 ELSE root.mem

\* All the merged documents may be obsolete by now: then nothing is new, and
\* the snapshot is persisted as it is.
IntroduceInMemoryMerge ==
  /\ persister.pc = "merge"
  /\ \/ Introduced([epoch |-> root.epoch + 1, mem |-> Flushed, files |-> root.files + 1],
                   PersisterAt("commit"))
     \/ Introduced([epoch |-> root.epoch + 1, mem |-> Flushed, files |-> root.files],
                   PersisterAt("swap"))
  /\ UNCHANGED <<writers, rootPersisted, merger, forceMerge, index, bounds>>

IntroducePersisted ==
  /\ persister.pc = "swap"
  /\ Introduced([epoch |-> root.epoch + 1, mem |-> Flushed, files |-> root.files + 1],
                PersisterAt("applied"))
  /\ UNCHANGED <<writers, rootPersisted, merger, forceMerge, index, bounds>>

\* Mutant: an answer is forgotten.
NobodyAnswered == writers

\* The callers that wait for this snapshot get their answer.
Answered == [w \in Writer |-> IF w \in persister.acks THEN "idle" ELSE writers[w]]

PersistSucceeds ==
  LET epoch == persister.snap.epoch
  IN  /\ persister.pc \in {"applied", "commit"}
      /\ writers' = Answered
      /\ merger' = IF persistWatchers = {} THEN merger
                                           ELSE [merger EXCEPT !.woken = TRUE]
      /\ persistWatchers' = {}
      /\ persister' = [persister EXCEPT
           !.pc = IF root.epoch # epoch THEN "loop" ELSE "announce",
           !.lastPersistedEpoch = epoch, !.snap = NoRoot, !.acks = {}]
      /\ UNCHANGED <<root, rootPersisted, introducer, introducerNotifier,
                     epochWatchers, persisterNotifier, forceMerge, index, bounds>>

PersistFails ==
  /\ persister.pc \in {"persist", "merge", "swap", "applied", "commit"}
  /\ failures < MaxFailures
  /\ failures' = failures + 1
  /\ writers' = Answered
  /\ persister' = [persister EXCEPT !.pc = "loop", !.snap = NoRoot, !.acks = {}]
  /\ UNCHANGED <<root, rootPersisted, merger, introducer, notifiers, forceMerge,
                 index, batches>>

\* Waiting for the introducer, to take the new segments or to have applied
\* them, the persister finds the index closed.
PersistClosed ==
  /\ persister.pc \in {"merge", "swap", "applied"} /\ Closing
  /\ writers' = Answered
  /\ persister' = [persister EXCEPT !.pc = "done", !.snap = NoRoot, !.acks = {}]
  /\ UNCHANGED <<root, rootPersisted, merger, introducer, notifiers, forceMerge,
                 index, bounds>>

Announce ==
  /\ persister.pc = "announce"
  /\ introducerNotifier = {}
  /\ introducerNotifier' = {Watcher(persister.lastPersistedEpoch)}
  /\ persister' = [persister EXCEPT !.pc = "wait", !.woken = FALSE]
  /\ UNCHANGED <<root, writers, rootPersisted, merger, introducer, epochWatchers,
                 persisterNotifier, persistWatchers, forceMerge, index, bounds>>

PersisterWakes ==
  /\ persister.pc = "wait" /\ persister.woken
  /\ PersisterMoves([persister EXCEPT !.pc = "loop", !.woken = FALSE], merger)
  /\ UNCHANGED <<persisterNotifier, persistWatchers>>

\* The merger's watcher comes first; no one waits for the persister's own.
PersisterInterrupted ==
  /\ persister.pc = "wait"
  /\ \E w \in persisterNotifier :
       /\ persistWatchers' = persistWatchers \cup Epochs({w})
       /\ persister' = [persister EXCEPT
            !.pc = "loop", !.woken = FALSE,
            !.lastMergedEpoch = Later(w.epoch, @)]
  /\ persisterNotifier' = {}
  /\ introducerNotifier' = Abandoned(introducerNotifier)
  /\ epochWatchers' = {}
  /\ UNCHANGED <<root, writers, rootPersisted, merger, introducer, forceMerge,
                 index, bounds>>

PersisterExits ==
  /\ persister.pc \in {"loop", "announce", "wait"} /\ Closing
  /\ PersisterMoves([persister EXCEPT !.pc = "done", !.woken = FALSE], merger)
  /\ UNCHANGED <<persisterNotifier, persistWatchers>>

---------------------------------------------------------------------------
(* mergerLoop.  pc: "loop" its top, "plan" and "merge" in                   *)
(* planMergeAtSnapshot, "offer" its watcher to the persister, "wait" for    *)
(* it, "done".  todo: the segments not in a task yet.                       *)

MergerMoves(m) ==
  /\ merger' = m
  /\ UNCHANGED <<root, writers, rootPersisted, persister, introducer, notifiers,
                 index, bounds>>

MergerAt(pc) == [merger EXCEPT !.pc = pc]

\* A force merge is planned at any root, otherwise only at a new one.
MergerLoops ==
  LET ctrl == IF merger.ctrl = "none" /\ root.epoch # merger.lastEpochMergePlanned
              THEN "default" ELSE merger.ctrl
  IN  /\ merger.pc = "loop" /\ ~Closing
      /\ IF ctrl = "none"
         THEN MergerMoves(MergerAt("offer"))
         ELSE MergerMoves([merger EXCEPT !.pc = "plan", !.ctrl = ctrl,
                                         !.epoch = root.epoch, !.todo = root.files])
      /\ UNCHANGED forceMerge

MergeTask ==
  /\ merger.pc = "plan" /\ merger.todo >= 2
  /\ \E n \in 2 .. merger.todo :
       MergerMoves([merger EXCEPT !.pc = "merge", !.todo = @ - n, !.task = n])
  /\ UNCHANGED forceMerge

\* The merged segment replaces the task's, if a document of it is left.
IntroduceFileMerge ==
  /\ merger.pc = "merge"
  /\ \E kept \in {0, 1} :
       Introduced([root EXCEPT !.epoch = @ + 1, !.files = @ - merger.task + kept],
                  persister)
  /\ merger' = [merger EXCEPT !.pc = "plan", !.task = 0]
  /\ UNCHANGED <<writers, rootPersisted, forceMerge, index, bounds>>

\* Mutant: doneCh is forgotten.
NotTold == forceMerge

\* close(ctrlMsg.doneCh): the caller of ForceMerge is told.
Told == IF merger.ctrl = "force" THEN [forceMerge EXCEPT !.done = TRUE] ELSE forceMerge

\* The merger gone to pc, its plan forgotten.
Planned(pc) == [merger EXCEPT !.pc = pc, !.epoch = 0, !.todo = 0, !.task = 0]

PlanDone ==
  /\ merger.pc = "plan"
  /\ forceMerge' = Told
  /\ MergerMoves([Planned("offer") EXCEPT !.ctrl = "none",
                                          !.lastEpochMergePlanned = merger.epoch])

\* An error: the same message is tried again.
MergeFails ==
  /\ merger.pc \in {"plan", "merge"}
  /\ failures < MaxFailures
  /\ failures' = failures + 1
  /\ merger' = Planned("loop")
  /\ UNCHANGED <<root, writers, rootPersisted, persister, introducer, notifiers,
                 forceMerge, index, batches>>

\* A merge stops with ErrClosed when the index is closed, or when the caller
\* of ForceMerge cancels its context: the loop only ends in the former case.
MergeCancelled ==
  /\ merger.pc = "merge" \/ (merger.pc = "plan" /\ merger.todo >= 2)
  /\ Closing \/ merger.ctrl = "force"
  /\ forceMerge' = Told
  /\ MergerMoves([Planned(IF merger.ctrl = "force" THEN "loop" ELSE "done")
                     EXCEPT !.ctrl = "none"])

OfferWatcher ==
  /\ merger.pc = "offer" /\ persisterNotifier = {}
  /\ persisterNotifier' = {Watcher(merger.lastEpochMergePlanned)}
  /\ merger' = [merger EXCEPT !.pc = "wait", !.woken = FALSE]
  /\ UNCHANGED <<root, writers, rootPersisted, persister, introducer,
                 introducerNotifier, epochWatchers, persistWatchers, forceMerge,
                 index, bounds>>

MergerWakes ==
  /\ merger.pc = "wait" /\ merger.woken
  /\ MergerMoves([merger EXCEPT !.pc = "loop", !.woken = FALSE])
  /\ UNCHANGED forceMerge

ReceiveForceMerge ==
  /\ merger.pc \in {"offer", "wait"} /\ forceMerge.requested
  /\ forceMerge' = [forceMerge EXCEPT !.requested = FALSE]
  /\ merger' = [merger EXCEPT !.pc = "loop", !.ctrl = "force", !.woken = FALSE]
  /\ persisterNotifier' = Abandoned(persisterNotifier)
  /\ persistWatchers' = {}
  /\ UNCHANGED <<root, writers, rootPersisted, persister, introducer,
                 introducerNotifier, epochWatchers, index, bounds>>

MergerExits ==
  /\ merger.pc \in {"loop", "offer", "wait"} /\ Closing
  /\ MergerMoves([merger EXCEPT !.pc = "done", !.woken = FALSE])
  /\ UNCHANGED forceMerge

---------------------------------------------------------------------------
(* ForceMerge.  A caller is "idle", about to "send" its request, or waits   *)
(* for doneCh ("await"); calls counts them.                                 *)

ForceMergeOnly == UNCHANGED <<root, writers, rootPersisted, persister, merger, introducer,
                              notifiers, index, bounds>>

InProgress == forceMerge.started > forceMerge.completed

\* Refused is an error for the caller and changes nothing.
CallForceMerge(f) ==
  /\ forceMerge.callers[f] = "idle" /\ ~InProgress
  /\ forceMerge.started < MaxForceMerges
  /\ \E pc \in {"send"} \cup (IF InvalidOptions THEN {"idle"} ELSE {}) :
       forceMerge' = [forceMerge EXCEPT !.started = @ + 1, !.callers[f] = pc]
  /\ ForceMergeOnly

RequestForceMerge(f) ==
  /\ forceMerge.callers[f] = "send" /\ ~forceMerge.requested
  /\ forceMerge' = [forceMerge EXCEPT !.requested = TRUE, !.done = FALSE,
                                      !.callers[f] = "await"]
  /\ ForceMergeOnly

ForceMergeDone(f) ==
  /\ forceMerge.callers[f] = "await" /\ forceMerge.done
  /\ forceMerge' = [forceMerge EXCEPT !.completed = @ + 1, !.callers[f] = "idle"]
  /\ ForceMergeOnly

ForceMergeClosed(f) ==
  /\ forceMerge.callers[f] \in {"send", "await"} /\ Closing
  /\ forceMerge' = [forceMerge EXCEPT !.callers[f] = "idle"]
  /\ ForceMergeOnly

---------------------------------------------------------------------------
(* Batch and Close.  indexImpl holds its mutex for reading in Batch, and    *)
(* for writing in Close.                                                    *)

CallBatch(w) ==
  /\ writers[w] = "idle" /\ ~Closing
  /\ batches < MaxBatches
  /\ batches' = batches + 1
  /\ writers' = [writers EXCEPT ![w] = "introducing"]
  /\ UNCHANGED <<root, rootPersisted, persister, merger, introducer, notifiers,
                 forceMerge, index, failures>>

CallClose ==
  /\ index = "open"
  /\ \A w \in Writer : writers[w] = "idle"
  /\ index' = "closing"
  /\ UNCHANGED <<root, writers, rootPersisted, persister, merger, introducer, notifiers,
                 forceMerge, bounds>>

\* asyncTasks.Wait: the loops are done.
CloseReturns ==
  /\ index = "closing"
  /\ {introducer, persister.pc, merger.pc} = {"done"}
  /\ index' = "closed"
  /\ UNCHANGED <<root, writers, rootPersisted, persister, merger, introducer, notifiers,
                 forceMerge, bounds>>

---------------------------------------------------------------------------
Init ==
  /\ root = NoRoot
  /\ writers = [w \in Writer |-> "idle"]
  /\ rootPersisted = {}
  /\ persister = [pc |-> "loop", snap |-> NoRoot, acks |-> {}, woken |-> FALSE,
                  lastPersistedEpoch |-> 0, lastMergedEpoch |-> 0]
  /\ merger = [pc |-> "loop", epoch |-> 0, todo |-> 0, task |-> 0, ctrl |-> "default",
               woken |-> FALSE, lastEpochMergePlanned |-> 0]
  /\ introducer = "running"
  /\ introducerNotifier = {} /\ epochWatchers = {}
  /\ persisterNotifier = {} /\ persistWatchers = {}
  /\ forceMerge = [callers |-> [f \in ForceMerger |-> "idle"], requested |-> FALSE,
                   done |-> FALSE, started |-> 0, completed |-> 0]
  /\ index = "open"
  /\ batches = 0 /\ failures = 0

IntroducerStep == \/ \E w \in Writer : IntroduceBatch(w)
                  \/ ReceiveEpochWatcher
                  \/ IntroducerExits

PersisterStep == \/ PersisterLoops
                 \/ PersisterLoopsWithWatcher
                 \/ ReceiveWhilePausing
                 \/ PauseEnds
                 \/ TakeSnapshot
                 \/ StartPersist
                 \/ IntroduceInMemoryMerge
                 \/ IntroducePersisted
                 \/ PersistSucceeds
                 \/ PersistFails
                 \/ PersistClosed
                 \/ Announce
                 \/ PersisterWakes
                 \/ PersisterInterrupted
                 \/ PersisterExits

MergerStep == \/ MergerLoops
              \/ MergeTask
              \/ IntroduceFileMerge
              \/ PlanDone
              \/ MergeFails
              \/ MergeCancelled
              \/ OfferWatcher
              \/ MergerWakes
              \/ ReceiveForceMerge
              \/ MergerExits

ForceMergeStep(f) == \/ CallForceMerge(f)
                     \/ RequestForceMerge(f)
                     \/ ForceMergeDone(f)
                     \/ ForceMergeClosed(f)

Next == \/ IntroducerStep
        \/ PersisterStep
        \/ MergerStep
        \/ \E f \in ForceMerger : ForceMergeStep(f)
        \/ \E w \in Writer : CallBatch(w)
        \/ CallClose
        \/ CloseReturns

(***************************************************************************)
(* Fairness: the scheduler runs every goroutine that can go on; select     *)
(* chooses among ready channels at random, so the introducer receives from *)
(* each in the end.  Nobody has to call Batch, ForceMerge or Close.        *)
(***************************************************************************)
Fairness ==
  /\ \A w \in Writer : WF_vars(IntroduceBatch(w))
  /\ WF_vars(ReceiveEpochWatcher)
  /\ WF_vars(IntroducerExits)
  /\ WF_vars(PersisterStep)
  /\ WF_vars(MergerStep)
  /\ \A f \in ForceMerger : WF_vars(RequestForceMerge(f) \/ ForceMergeDone(f)
                                      \/ ForceMergeClosed(f))
  /\ WF_vars(CloseReturns)

Spec == Init /\ [][Next]_vars /\ Fairness

---------------------------------------------------------------------------
(* Safety *)

Root == [epoch : Nat, mem : Nat, files : Nat]

\* A channel's buffer has room for one watcher.
IsBuffer(channel) == /\ channel \subseteq [epoch : Nat, current : BOOLEAN]
                     /\ \A v, w \in channel : v = w

IsPersister(p) ==
  p \in [pc : {"loop", "nap", "pause", "take", "persist", "merge", "swap", "applied",
               "commit", "announce", "wait", "done"},
         snap : Root, acks : SUBSET Writer, woken : BOOLEAN,
         lastPersistedEpoch : Nat, lastMergedEpoch : Nat]

IsMerger(m) ==
  m \in [pc : {"loop", "plan", "merge", "offer", "wait", "done"},
         epoch : Nat, todo : Nat, task : Nat, ctrl : {"none", "default", "force"},
         woken : BOOLEAN, lastEpochMergePlanned : Nat]

\* The type invariant.  Beyond shapes it says that nobody writes to a buffer
\* that is full, and that the segments of a plan are in the root until they
\* are merged: only the merger removes file segments that have documents.
TypeOK == /\ root \in Root
          /\ writers \in [Writer -> {"idle", "introducing", "persisting"}]
          /\ rootPersisted \subseteq Writer
          /\ IsPersister(persister)
          /\ IsMerger(merger)
          /\ introducer \in {"running", "done"}
          /\ IsBuffer(introducerNotifier) /\ IsBuffer(persisterNotifier)
          /\ epochWatchers \subseteq Nat /\ persistWatchers \subseteq Nat
          /\ forceMerge \in [callers : [ForceMerger -> {"idle", "send", "await"}],
                              requested : BOOLEAN, done : BOOLEAN,
                              started : Nat, completed : Nat]
          /\ index \in {"open", "closing", "closed"}
          /\ batches \in Nat /\ failures \in Nat
          /\ merger.task # 0 => merger.pc = "merge"
          /\ merger.todo + merger.task <= root.files

\* The persister never sleeps on a root it has not seen: when the root has
\* passed its watcher's epoch, it is woken or its watcher is on its way to
\* the introducer.
NoLostWakeup ==
  persister.pc = "wait" /\ ~persister.woken /\ introducer = "running" =>
    \/ root.epoch <= persister.lastPersistedEpoch
    \/ Watcher(persister.lastPersistedEpoch) \in introducerNotifier

\* The persister and the merger never wait for each other: while the
\* persister pauses for the merger, it holds no watcher of a merger that lags.
NoMutualWait ==
  persister.pc = "pause" =>
    \A e \in persistWatchers : e >= persister.lastPersistedEpoch

\* The channel of every safe batch that is introduced is with the root, or
\* with the snapshot being persisted: somebody will answer it.
WritersRemembered ==
  \A w \in Writer : writers[w] = "persisting" => w \in rootPersisted \cup persister.acks

\* ForceMerge "check[s] whether force merge is already under processing":
\* when it refuses, one is.
RefusedOnlyInProgress ==
  InProgress /\ ~Closing => \E f \in ForceMerger : forceMerge.callers[f] # "idle"

---------------------------------------------------------------------------
(* Liveness *)

\* A call to Batch returns, with its batch persisted or an error.
BatchReturns == \A w \in Writer : writers[w] # "idle" ~> writers[w] = "idle"

\* A call to ForceMerge returns: its request is planned, or the index closes.
ForceMergeReturns ==
  \A f \in ForceMerger :
    forceMerge.callers[f] # "idle" ~> forceMerge.callers[f] = "idle"

\* Close does not wait for ever.
CloseTerminates == index = "closing" ~> index = "closed"
=============================================================================
