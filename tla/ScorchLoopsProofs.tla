------------------------- MODULE ScorchLoopsProofs -------------------------
(***************************************************************************)
(* Proofs about ScorchLoops: the type invariant, that nobody who waits is  *)
(* forgotten, and that the persister and the merger never wait for each    *)
(* other, for any number of writers and callers of ForceMerge.             *)
(*                                                                         *)
(* And proofs about Builder, which has no goroutines: what is indexed is   *)
(* in the batch or in one of the files to be merged until Close moves the  *)
(* last of them to the index, for any documents, sizes and failures.       *)
(***************************************************************************)
EXTENDS ScorchLoops, Builder, FiniteSetTheorems, TLAPS

USE LoopsAssumption

LEMMA TypeOKInitially == Init => TypeOK
  BY DEF Init, TypeOK, NoRoot, Root, IsPersister, IsMerger, IsBuffer

---------------------------------------------------------------------------
(* Records keep their type when a field is replaced by one of its type.     *)

PersisterPlace == {"loop", "nap", "pause", "take", "persist", "merge", "swap", "applied",
                   "commit", "announce", "wait", "done"}
MergerPlace == {"loop", "plan", "merge", "offer", "wait", "done"}
Message == {"none", "default", "force"}

LEMMA RootFields ==
  ASSUME NEW r \in Root
  PROVE  r.epoch \in Nat /\ r.mem \in Nat /\ r.files \in Nat
  BY DEF Root

LEMMA AbandonedBuffer ==
  ASSUME NEW channel, IsBuffer(channel)
  PROVE  IsBuffer(Abandoned(channel))
<1>1. ASSUME NEW w \in channel
      PROVE  [w EXCEPT !.current = FALSE] \in [epoch : Nat, current : BOOLEAN]
  BY DEF IsBuffer
<1>2. Abandoned(channel) \subseteq [epoch : Nat, current : BOOLEAN]
  BY <1>1 DEF Abandoned
<1>3. ASSUME NEW a \in Abandoned(channel), NEW b \in Abandoned(channel) PROVE a = b
  <2>1. PICK v \in channel : a = [v EXCEPT !.current = FALSE]
    BY DEF Abandoned
  <2>2. PICK w \in channel : b = [w EXCEPT !.current = FALSE]
    BY DEF Abandoned
  <2>3. v = w
    BY DEF IsBuffer
  <2> QED
    BY <2>1, <2>2, <2>3
<1> QED
  BY <1>2, <1>3 DEF IsBuffer

LEMMA PersisterFields ==
  ASSUME NEW p, IsPersister(p)
  PROVE  /\ p.snap \in Root /\ p.acks \subseteq Writer
         /\ p.lastPersistedEpoch \in Nat /\ p.lastMergedEpoch \in Nat
  BY DEF IsPersister

LEMMA PersisterUpdates ==
  ASSUME NEW p, IsPersister(p)
  PROVE  /\ \A pc \in PersisterPlace : IsPersister([p EXCEPT !.pc = pc])
         /\ \A r \in Root : IsPersister([p EXCEPT !.snap = r])
         /\ \A W \in SUBSET Writer : IsPersister([p EXCEPT !.acks = W])
         /\ \A b \in BOOLEAN : IsPersister([p EXCEPT !.woken = b])
         /\ \A e \in Nat : IsPersister([p EXCEPT !.lastPersistedEpoch = e])
         /\ \A e \in Nat : IsPersister([p EXCEPT !.lastMergedEpoch = e])
  BY DEF IsPersister, PersisterPlace

LEMMA MergerFields ==
  ASSUME NEW m, IsMerger(m)
  PROVE  /\ m.epoch \in Nat /\ m.todo \in Nat /\ m.task \in Nat
         /\ m.lastEpochMergePlanned \in Nat /\ m.ctrl \in Message
  BY DEF IsMerger, Message

LEMMA MergerUpdates ==
  ASSUME NEW m, IsMerger(m)
  PROVE  /\ \A pc \in MergerPlace : IsMerger([m EXCEPT !.pc = pc])
         /\ \A e \in Nat : IsMerger([m EXCEPT !.epoch = e])
         /\ \A n \in Nat : IsMerger([m EXCEPT !.todo = n])
         /\ \A n \in Nat : IsMerger([m EXCEPT !.task = n])
         /\ \A c \in Message : IsMerger([m EXCEPT !.ctrl = c])
         /\ \A b \in BOOLEAN : IsMerger([m EXCEPT !.woken = b])
         /\ \A e \in Nat : IsMerger([m EXCEPT !.lastEpochMergePlanned = e])
  BY DEF IsMerger, MergerPlace, Message

\* A message about merging that wakes the merger leaves its plan alone.
LEMMA WokenMerger ==
  ASSUME NEW m, IsMerger(m)
  PROVE  LET woken == [m EXCEPT !.woken = TRUE]
         IN  /\ IsMerger(woken)
             /\ woken.pc = m.pc /\ woken.todo = m.todo /\ woken.task = m.task
  BY DEF IsMerger

\* The persister only moves to another place.
LEMMA PersisterPlaced ==
  ASSUME NEW p, IsPersister(p), NEW pc \in PersisterPlace
  PROVE  IsPersister([p EXCEPT !.pc = pc])
  BY PersisterUpdates

\* What NotifyEpochWatchers does to the persister.
LEMMA WokenPersister ==
  ASSUME NEW p, IsPersister(p), NEW watchers, NotifyEpochWatchers(watchers, p)
  PROVE  IsPersister(persister')
<1>1. persister' = p \/ persister' = [p EXCEPT !.woken = TRUE]
  BY DEF NotifyEpochWatchers
<1> QED
  BY <1>1, PersisterUpdates

---------------------------------------------------------------------------
(* The type invariant *)

LEMMA TypeOKOfIntroducer ==
  ASSUME TypeOK, IntroducerStep
  PROVE  TypeOK'
<1>1. ASSUME NEW w \in Writer, IntroduceBatch(w) PROVE TypeOK'
  <2>1. IsPersister(persister')
    BY <1>1, WokenPersister DEF TypeOK, IntroduceBatch, Introduced
  <2>2. PICK mem \in {root.mem, root.epoch + 1} :
        root' = [root EXCEPT !.epoch = root.epoch + 1, !.mem = mem]
    BY <1>1 DEF IntroduceBatch, Introduced
  <2>3. root' \in Root /\ root'.files = root.files
    <3>1. root \in Root /\ root.epoch + 1 \in Nat /\ mem \in Nat
      BY RootFields DEF TypeOK
    <3> QED
      BY <2>2, <3>1 DEF Root
  <2>4. /\ writers' \in [Writer -> {"idle", "introducing", "persisting"}]
       /\ rootPersisted' \subseteq Writer
    BY <1>1 DEF TypeOK, IntroduceBatch
  <2>5. epochWatchers' \subseteq Nat
    BY <1>1 DEF TypeOK, IntroduceBatch, Introduced, NotifyEpochWatchers
  <2>6. UNCHANGED <<merger, introducer, introducerNotifier, persisterNotifier,
                   persistWatchers, forceMerge, index, bounds>>
    BY <1>1 DEF IntroduceBatch, Introduced
  <2> QED
    BY <2>1, <2>2, <2>3, <2>4, <2>5, <2>6 DEF TypeOK, bounds
<1>2. CASE ReceiveEpochWatcher
  <2>1. IsPersister(persister')
    BY <1>2, WokenPersister DEF TypeOK, ReceiveEpochWatcher
  <2>2. epochWatchers' \subseteq Nat /\ root' = root
    BY <1>2 DEF TypeOK, IsBuffer, Epochs, ReceiveEpochWatcher, NotifyEpochWatchers
  <2>3. IsBuffer(introducerNotifier')
    BY <1>2 DEF IsBuffer, ReceiveEpochWatcher
  <2>4. UNCHANGED <<writers, rootPersisted, merger, introducer,
                   persisterNotifier, persistWatchers, forceMerge,
                   index, bounds>>
    BY <1>2 DEF ReceiveEpochWatcher
  <2> QED
    BY <2>1, <2>2, <2>3, <2>4 DEF TypeOK, bounds
<1>3. CASE IntroducerExits
  <2>1. introducer' = "done"
    BY <1>3 DEF IntroducerExits
  <2>2. UNCHANGED <<root, writers, rootPersisted, persister, merger,
                   introducerNotifier, epochWatchers,
                   persisterNotifier, persistWatchers, forceMerge,
                   index, bounds>>
    BY <1>3 DEF IntroducerExits, notifiers
  <2> QED
    BY <2>1, <2>2 DEF TypeOK, bounds
<1> QED
  BY <1>1, <1>2, <1>3 DEF IntroducerStep

LEMMA TypeOKOfPersister ==
  ASSUME TypeOK, PersisterStep
  PROVE  TypeOK'
<1>1. CASE PersisterLoops
  <2>1. PICK pc \in PersisterPlace, merged \in Nat :
        persister' = [persister EXCEPT !.pc = pc, !.lastMergedEpoch = merged]
    BY <1>1, PersisterFields DEF TypeOK, PersisterPlace, PersisterLoops, PersisterMoves, AfterCount, StartPause
  <2>2. IsPersister(persister')
    BY <2>1, PersisterUpdates, PersisterFields DEF TypeOK, PersisterPlace
  <2>3. /\ IsMerger(merger')
       /\ merger'.pc = merger.pc /\ merger'.todo = merger.todo /\ merger'.task = merger.task
    BY <1>1, WokenMerger DEF TypeOK, PersisterLoops, NotifyMergeWatchers, Lagging, PersisterMoves, StartPause
  <2>4. IsBuffer(persisterNotifier') /\ persistWatchers' \subseteq Nat
    BY <1>1 DEF TypeOK, IsBuffer, Epochs, PersisterLoops, NotifyMergeWatchers, Lagging, PersisterMoves, StartPause
  <2>5. UNCHANGED <<root, writers, rootPersisted, introducer,
                   introducerNotifier, epochWatchers, forceMerge,
                   index, bounds>>
    BY <1>1 DEF PersisterLoops, PersisterMoves, StartPause
  <2> QED
    BY <2>1, <2>2, <2>3, <2>4, <2>5 DEF TypeOK, bounds
<1>2. CASE PersisterLoopsWithWatcher
  <2>1. PICK pc \in PersisterPlace, merged \in Nat :
        persister' = [persister EXCEPT !.pc = pc, !.lastMergedEpoch = merged]
    <3>1. PICK w \in persisterNotifier :
          StartPause(Later(w.epoch, persister.lastMergedEpoch),
                     persistWatchers \cup Epochs({w}))
      BY <1>2 DEF PersisterLoopsWithWatcher
    <3>2. Later(w.epoch, persister.lastMergedEpoch) \in Nat
      BY PersisterFields DEF TypeOK, IsBuffer, Later
    <3> QED
      BY <3>1, <3>2 DEF PersisterPlace, PersisterMoves, AfterCount, StartPause
  <2>2. IsPersister(persister')
    BY <2>1, PersisterUpdates, PersisterFields DEF TypeOK, PersisterPlace
  <2>3. /\ IsMerger(merger')
       /\ merger'.pc = merger.pc /\ merger'.todo = merger.todo /\ merger'.task = merger.task
    BY <1>2, WokenMerger DEF TypeOK, PersisterLoopsWithWatcher, NotifyMergeWatchers, Lagging, PersisterMoves, StartPause, IsBuffer, Later
  <2>4. IsBuffer(persisterNotifier') /\ persistWatchers' \subseteq Nat
    BY <1>2 DEF TypeOK, IsBuffer, Epochs, PersisterLoopsWithWatcher, NotifyMergeWatchers, Lagging, PersisterMoves, StartPause, IsBuffer, Later
  <2>5. UNCHANGED <<root, writers, rootPersisted, introducer,
                   introducerNotifier, epochWatchers, forceMerge,
                   index, bounds>>
    BY <1>2 DEF PersisterLoopsWithWatcher, PersisterMoves, StartPause
  <2> QED
    BY <2>1, <2>2, <2>3, <2>4, <2>5 DEF TypeOK, bounds
<1>3. CASE ReceiveWhilePausing
  <2>1. PICK pc \in PersisterPlace, merged \in Nat :
        persister' = [persister EXCEPT !.pc = pc, !.lastMergedEpoch = merged]
    BY <1>3, PersisterFields DEF TypeOK, PersisterPlace, ReceiveWhilePausing, PersisterMoves, AfterCount, IsBuffer
  <2>2. IsPersister(persister')
    BY <2>1, PersisterUpdates, PersisterFields DEF TypeOK, PersisterPlace
  <2>3. /\ IsMerger(merger')
       /\ merger'.pc = merger.pc /\ merger'.todo = merger.todo /\ merger'.task = merger.task
    BY <1>3, WokenMerger DEF TypeOK, ReceiveWhilePausing, NotifyMergeWatchers, Lagging, PersisterMoves, IsBuffer
  <2>4. IsBuffer(persisterNotifier') /\ persistWatchers' \subseteq Nat
    BY <1>3 DEF TypeOK, IsBuffer, Epochs, ReceiveWhilePausing, NotifyMergeWatchers, Lagging, PersisterMoves, IsBuffer
  <2>5. UNCHANGED <<root, writers, rootPersisted, introducer,
                   introducerNotifier, epochWatchers, forceMerge,
                   index, bounds>>
    BY <1>3 DEF ReceiveWhilePausing, PersisterMoves
  <2> QED
    BY <2>1, <2>2, <2>3, <2>4, <2>5 DEF TypeOK, bounds
<1>4. CASE PauseEnds
  <2>1. persister' = [persister EXCEPT !.pc = "take"]
    BY <1>4 DEF TypeOK, PersisterPlace, PauseEnds, PersisterMoves, PersisterAt
  <2>2. IsPersister(persister')
    BY <2>1, PersisterUpdates, PersisterFields DEF TypeOK, PersisterPlace
  <2>3. UNCHANGED <<root, writers, rootPersisted, merger, introducer,
                   introducerNotifier, epochWatchers,
                   persisterNotifier, persistWatchers, forceMerge,
                   index, bounds>>
    BY <1>4 DEF PauseEnds, PersisterMoves
  <2> QED
    BY <2>1, <2>2, <2>3 DEF TypeOK, bounds
<1>5. CASE TakeSnapshot
  <2>1. \/ persister' = [persister EXCEPT !.pc = "persist", !.snap = root,
                                             !.acks = rootPersisted]
       \/ persister' = [persister EXCEPT !.pc = "announce"]
    BY <1>5 DEF TakeSnapshot, PersisterAt
  <2>2. IsPersister(persister')
    <3>1. root \in Root /\ rootPersisted \subseteq Writer /\ IsPersister(persister)
      BY DEF TypeOK
    <3>2. CASE persister' = [persister EXCEPT !.pc = "persist", !.snap = root,
                                              !.acks = rootPersisted]
      BY <3>1, <3>2 DEF IsPersister
    <3>3. CASE persister' = [persister EXCEPT !.pc = "announce"]
      BY <3>1, <3>3 DEF IsPersister
    <3> QED
      BY <2>1, <3>2, <3>3
  <2>3. rootPersisted' \subseteq Writer
    BY <1>5 DEF TypeOK, TakeSnapshot
  <2>4. UNCHANGED <<root, writers, merger, introducer, introducerNotifier,
                   epochWatchers, persisterNotifier, persistWatchers,
                   forceMerge, index, bounds>>
    BY <1>5 DEF TakeSnapshot, notifiers
  <2> QED
    BY <2>2, <2>3, <2>4 DEF TypeOK, bounds
<1>6. CASE StartPersist
  <2>1. PICK pc \in PersisterPlace :
        persister' = [persister EXCEPT !.pc = pc]
    BY <1>6 DEF TypeOK, PersisterPlace, StartPersist, PersisterMoves, PersisterAt
  <2>2. IsPersister(persister')
    BY <2>1, PersisterUpdates, PersisterFields DEF TypeOK, PersisterPlace
  <2>3. UNCHANGED <<root, writers, rootPersisted, merger, introducer,
                   introducerNotifier, epochWatchers,
                   persisterNotifier, persistWatchers, forceMerge,
                   index, bounds>>
    BY <1>6 DEF StartPersist, PersisterMoves
  <2> QED
    BY <2>1, <2>2, <2>3 DEF TypeOK, bounds
<1>7. CASE IntroduceInMemoryMerge
  <2>1. IsPersister(PersisterAt("commit")) /\ IsPersister(PersisterAt("swap"))
    BY PersisterPlaced DEF TypeOK, PersisterPlace, PersisterAt
  <2>2. IsPersister(persister')
    BY <2>1, <1>7, WokenPersister DEF TypeOK, IntroduceInMemoryMerge, Introduced
  <2>3. root' \in Root /\ root'.files >= root.files
    BY <1>7 DEF TypeOK, Root, Flushed, IntroduceInMemoryMerge, Introduced
  <2>4. epochWatchers' \subseteq Nat
    BY <1>7 DEF TypeOK, IntroduceInMemoryMerge, Introduced, NotifyEpochWatchers
  <2>5. UNCHANGED <<writers, rootPersisted, merger, introducer,
                   introducerNotifier, persisterNotifier,
                   persistWatchers, forceMerge, index, bounds>>
    BY <1>7 DEF IntroduceInMemoryMerge, Introduced
  <2> QED
    BY <2>1, <2>2, <2>3, <2>4, <2>5 DEF TypeOK, bounds, IsMerger, Root
<1>8. CASE IntroducePersisted
  <2>1. IsPersister(PersisterAt("applied"))
    BY PersisterPlaced DEF TypeOK, PersisterPlace, PersisterAt
  <2>2. IsPersister(persister')
    BY <2>1, <1>8, WokenPersister DEF TypeOK, IntroducePersisted, Introduced
  <2>3. root' \in Root /\ root'.files >= root.files
    BY <1>8 DEF TypeOK, Root, Flushed, IntroducePersisted, Introduced
  <2>4. epochWatchers' \subseteq Nat
    BY <1>8 DEF TypeOK, IntroducePersisted, Introduced, NotifyEpochWatchers
  <2>5. UNCHANGED <<writers, rootPersisted, merger, introducer,
                   introducerNotifier, persisterNotifier,
                   persistWatchers, forceMerge, index, bounds>>
    BY <1>8 DEF IntroducePersisted, Introduced
  <2> QED
    BY <2>1, <2>2, <2>3, <2>4, <2>5 DEF TypeOK, bounds, IsMerger, Root
<1>9. CASE PersistSucceeds
  <2>1. IsPersister(persister')
    BY <1>9, PersisterUpdates, PersisterFields
       DEF TypeOK, PersisterPlace, Root, PersistSucceeds, NoRoot
  <2>2. writers' \in [Writer -> {"idle", "introducing", "persisting"}]
    BY <1>9 DEF TypeOK, PersistSucceeds, Answered
  <2>3. /\ IsMerger(merger')
       /\ merger'.pc = merger.pc /\ merger'.todo = merger.todo /\ merger'.task = merger.task
    BY <1>9, WokenMerger DEF TypeOK, PersistSucceeds
  <2>4. persistWatchers' \subseteq Nat
    BY <1>9 DEF PersistSucceeds
  <2>5. UNCHANGED <<root, rootPersisted, introducer, introducerNotifier,
                   epochWatchers, persisterNotifier, forceMerge, index,
                   bounds>>
    BY <1>9 DEF PersistSucceeds
  <2> QED
    BY <2>1, <2>2, <2>3, <2>4, <2>5 DEF TypeOK, bounds
<1>10. CASE PersistFails
  <2>1. IsPersister(persister')
    BY <1>10, PersisterUpdates, PersisterFields
       DEF TypeOK, PersisterPlace, Root, PersistFails, NoRoot
  <2>2. writers' \in [Writer -> {"idle", "introducing", "persisting"}]
    BY <1>10 DEF TypeOK, PersistFails, Answered
  <2>3. batches' \in Nat /\ failures' \in Nat
    BY <1>10 DEF TypeOK, PersistFails
  <2>4. UNCHANGED <<root, rootPersisted, merger, introducer,
                   introducerNotifier, epochWatchers,
                   persisterNotifier, persistWatchers, forceMerge,
                   index>>
    BY <1>10 DEF PersistFails, notifiers, bounds
  <2> QED
    BY <2>1, <2>2, <2>3, <2>4 DEF TypeOK, bounds
<1>11. CASE PersistClosed
  <2>1. IsPersister(persister')
    BY <1>11, PersisterUpdates, PersisterFields
       DEF TypeOK, PersisterPlace, Root, PersistClosed, NoRoot
  <2>2. writers' \in [Writer -> {"idle", "introducing", "persisting"}]
    BY <1>11 DEF TypeOK, PersistClosed, Answered
  <2>3. UNCHANGED <<root, rootPersisted, merger, introducer,
                   introducerNotifier, epochWatchers,
                   persisterNotifier, persistWatchers, forceMerge,
                   index, bounds>>
    BY <1>11 DEF PersistClosed, notifiers, bounds
  <2> QED
    BY <2>1, <2>2, <2>3 DEF TypeOK, bounds
<1>12. CASE Announce
  <2>1. IsPersister(persister')
    BY <1>12, PersisterUpdates, PersisterFields
       DEF TypeOK, PersisterPlace, Root, Announce
  <2>2. IsBuffer(introducerNotifier')
    BY <1>12, PersisterFields DEF TypeOK, IsBuffer, Announce, Watcher
  <2>3. UNCHANGED <<root, writers, rootPersisted, merger, introducer,
                   epochWatchers, persisterNotifier, persistWatchers,
                   forceMerge, index, bounds>>
    BY <1>12 DEF Announce
  <2> QED
    BY <2>1, <2>2, <2>3 DEF TypeOK, bounds
<1>13. CASE PersisterWakes
  <2>1. persister' = [persister EXCEPT !.pc = "loop", !.woken = FALSE]
    BY <1>13 DEF TypeOK, PersisterPlace, PersisterWakes, PersisterMoves, PersisterAt
  <2>2. IsPersister(persister')
    BY <2>1, PersisterUpdates, PersisterFields DEF TypeOK, PersisterPlace
  <2>3. UNCHANGED <<root, writers, rootPersisted, merger, introducer,
                   introducerNotifier, epochWatchers,
                   persisterNotifier, persistWatchers, forceMerge,
                   index, bounds>>
    BY <1>13 DEF PersisterWakes, PersisterMoves
  <2> QED
    BY <2>1, <2>2, <2>3 DEF TypeOK, bounds
<1>14. CASE PersisterInterrupted
  <2>1. PICK merged \in Nat :
        persister' = [persister EXCEPT !.pc = "loop", !.woken = FALSE,
                                 !.lastMergedEpoch = merged]
    BY <1>14, PersisterFields DEF TypeOK, PersisterPlace, PersisterInterrupted, Later, IsBuffer
  <2>2. IsPersister(persister')
    BY <2>1, PersisterUpdates, PersisterFields DEF TypeOK, PersisterPlace
  <2>3. IsBuffer(introducerNotifier')
    BY <1>14, AbandonedBuffer DEF TypeOK, PersisterInterrupted
  <2>4. IsBuffer(persisterNotifier')
    BY <1>14 DEF IsBuffer, PersisterInterrupted
  <2>5. epochWatchers' \subseteq Nat /\ persistWatchers' \subseteq Nat
    BY <1>14 DEF TypeOK, IsBuffer, Epochs, PersisterInterrupted
  <2>6. UNCHANGED <<root, writers, rootPersisted, merger, introducer,
                   forceMerge, index, bounds>>
    BY <1>14 DEF PersisterInterrupted
  <2> QED
    BY <2>1, <2>2, <2>3, <2>4, <2>5, <2>6 DEF TypeOK, bounds
<1>15. CASE PersisterExits
  <2>1. persister' = [persister EXCEPT !.pc = "done", !.woken = FALSE]
    BY <1>15 DEF TypeOK, PersisterPlace, PersisterExits, PersisterMoves, PersisterAt
  <2>2. IsPersister(persister')
    BY <2>1, PersisterUpdates, PersisterFields DEF TypeOK, PersisterPlace
  <2>3. UNCHANGED <<root, writers, rootPersisted, merger, introducer,
                   introducerNotifier, epochWatchers,
                   persisterNotifier, persistWatchers, forceMerge,
                   index, bounds>>
    BY <1>15 DEF PersisterExits, PersisterMoves
  <2> QED
    BY <2>1, <2>2, <2>3 DEF TypeOK, bounds
<1> QED
  BY <1>1, <1>2, <1>3, <1>4, <1>5, <1>6, <1>7, <1>8, <1>9, <1>10, <1>11, <1>12, <1>13, <1>14, <1>15 DEF PersisterStep

LEMMA TypeOKOfMerger ==
  ASSUME TypeOK, MergerStep
  PROVE  TypeOK'
<1>1. CASE MergerLoops
  <2>1. \/ merger' = [merger EXCEPT !.pc = "offer"]
       \/ \E ctrl \in Message :
            merger' = [merger EXCEPT !.pc = "plan", !.ctrl = ctrl,
                                     !.epoch = root.epoch, !.todo = root.files]
    BY <1>1, MergerFields DEF TypeOK, Message, MergerLoops, MergerMoves, MergerAt
  <2>2. /\ IsMerger(merger') /\ merger'.todo + merger'.task <= root.files
        /\ merger'.task = 0
    <3>0. merger.task = 0
      BY <1>1 DEF TypeOK, MergerLoops
    <3>1. /\ IsMerger(merger) /\ root.epoch \in Nat /\ root.files \in Nat
          /\ merger.todo + merger.task <= root.files
      BY RootFields DEF TypeOK
    <3>2. CASE merger' = [merger EXCEPT !.pc = "offer"]
      BY <3>0, <3>1, <3>2 DEF IsMerger
    <3>3. ASSUME NEW ctrl \in Message,
                 merger' = [merger EXCEPT !.pc = "plan", !.ctrl = ctrl,
                                          !.epoch = root.epoch, !.todo = root.files]
          PROVE  /\ IsMerger(merger') /\ merger'.todo + merger'.task <= root.files
                 /\ merger'.task = 0
      <4>1. IsMerger(merger') /\ merger'.todo = root.files /\ merger'.task = 0
        BY <3>0, <3>1, <3>3 DEF IsMerger, Message
      <4> QED
        BY <3>1, <4>1
    <3> QED
      BY <2>1, <3>2, <3>3
  <2>3. UNCHANGED <<root, writers, rootPersisted, persister, introducer,
                   introducerNotifier, epochWatchers,
                   persisterNotifier, persistWatchers, forceMerge,
                   index, bounds>>
    BY <1>1 DEF MergerLoops, MergerMoves, notifiers
  <2> QED
    BY <2>2, <2>3 DEF TypeOK, bounds
<1>2. CASE MergeTask
  <2>1. PICK n \in 2 .. merger.todo :
        merger' = [merger EXCEPT !.pc = "merge", !.todo = merger.todo - n, !.task = n]
    BY <1>2 DEF MergeTask, MergerMoves
  <2>2. IsMerger(merger')
    <3>1. IsMerger(merger) /\ n \in Nat /\ merger.todo - n \in Nat
      BY MergerFields DEF TypeOK
    <3> QED
      BY <2>1, <3>1 DEF IsMerger
  <2>3. /\ merger'.task # 0 => merger'.pc = "merge"
        /\ merger'.todo + merger'.task <= root.files
    BY <2>1, MergerFields, RootFields DEF TypeOK, IsMerger
  <2>4. UNCHANGED <<root, writers, rootPersisted, persister, introducer,
                   introducerNotifier, epochWatchers,
                   persisterNotifier, persistWatchers, forceMerge,
                   index, bounds>>
    BY <1>2 DEF MergeTask, MergerMoves, notifiers
  <2> QED
    BY <2>1, <2>2, <2>3, <2>4 DEF TypeOK, bounds
<1>3. CASE IntroduceFileMerge
  <2>1. merger' = [merger EXCEPT !.pc = "plan", !.task = 0]
    BY <1>3 DEF IntroduceFileMerge
  <2>2. IsMerger(merger') /\ merger'.todo = merger.todo /\ merger'.task = 0
    BY <2>1 DEF TypeOK, IsMerger
  <2>3. PICK kept \in {0, 1} : root' =
         [root EXCEPT !.epoch = root.epoch + 1, !.files = root.files - merger.task + kept]
    BY <1>3 DEF IntroduceFileMerge, Introduced
  <2>4. root'.files = root.files - merger.task + kept /\ root' \in Root
    <3>1. merger.todo \in Nat /\ merger.task \in Nat /\ root \in Root
      BY MergerFields DEF TypeOK
    <3>2. root.epoch + 1 \in Nat /\ root.files - merger.task + kept \in Nat
      BY <3>1, RootFields DEF TypeOK
    <3> QED
      BY <2>3, <3>1, <3>2 DEF Root
  <2>5. merger'.todo + merger'.task <= root'.files
    BY <2>2, <2>4, MergerFields, RootFields DEF TypeOK
  <2>6. IsPersister(persister')
    BY <1>3, WokenPersister DEF TypeOK, IntroduceFileMerge, Introduced
  <2>7. epochWatchers' \subseteq Nat
    BY <1>3 DEF TypeOK, IntroduceFileMerge, Introduced, NotifyEpochWatchers
  <2>8. UNCHANGED <<writers, rootPersisted, introducer, introducerNotifier,
                   persisterNotifier, persistWatchers, forceMerge,
                   index, bounds>>
    BY <1>3 DEF IntroduceFileMerge, Introduced
  <2> QED
    BY <2>1, <2>2, <2>3, <2>4, <2>5, <2>6, <2>7, <2>8 DEF TypeOK, bounds
<1>4. CASE PlanDone
  <2>1. merger' = [merger EXCEPT !.pc = "offer", !.epoch = 0, !.todo = 0, !.task = 0,
                              !.ctrl = "none", !.lastEpochMergePlanned = merger.epoch]
    BY <1>4, MergerFields, RootFields DEF TypeOK, MergerPlace, Message, PlanDone, MergerMoves, MergerAt, Planned
  <2>2. IsMerger(merger')
    BY <2>1, MergerUpdates, MergerFields, RootFields DEF TypeOK, MergerPlace, Message
  <2>3. /\ merger'.task # 0 => merger'.pc = "merge"
        /\ merger'.todo + merger'.task <= root.files
    BY <2>1, MergerFields, RootFields DEF TypeOK, IsMerger
  <2>4. forceMerge' \in [callers : [ForceMerger -> {"idle", "send", "await"}],
                        requested : BOOLEAN, done : BOOLEAN,
                        started : Nat, completed : Nat]
    BY <1>4 DEF TypeOK, PlanDone, Told
  <2>5. UNCHANGED <<root, writers, rootPersisted, persister, introducer,
                   introducerNotifier, epochWatchers,
                   persisterNotifier, persistWatchers, index, bounds>>
    BY <1>4 DEF PlanDone, MergerMoves, notifiers
  <2> QED
    BY <2>1, <2>2, <2>3, <2>4, <2>5 DEF TypeOK, bounds
<1>5. CASE MergeFails
  <2>1. merger' = [merger EXCEPT !.pc = "loop", !.epoch = 0, !.todo = 0, !.task = 0]
    BY <1>5, MergerFields, RootFields DEF TypeOK, MergerPlace, Message, MergeFails, Planned
  <2>2. IsMerger(merger')
    BY <2>1, MergerUpdates, MergerFields, RootFields DEF TypeOK, MergerPlace, Message
  <2>3. /\ merger'.task # 0 => merger'.pc = "merge"
        /\ merger'.todo + merger'.task <= root.files
    BY <2>1, MergerFields, RootFields DEF TypeOK, IsMerger
  <2>4. batches' \in Nat /\ failures' \in Nat
    BY <1>5 DEF TypeOK, MergeFails
  <2>5. UNCHANGED <<root, writers, rootPersisted, persister, introducer,
                   introducerNotifier, epochWatchers,
                   persisterNotifier, persistWatchers, forceMerge,
                   index>>
    BY <1>5 DEF MergeFails, notifiers
  <2> QED
    BY <2>1, <2>2, <2>3, <2>4, <2>5 DEF TypeOK, bounds
<1>6. CASE MergeCancelled
  <2>1. PICK pc \in MergerPlace :
        merger' = [merger EXCEPT !.pc = pc, !.epoch = 0, !.todo = 0, !.task = 0,
                                !.ctrl = "none"]
    BY <1>6, MergerFields, RootFields DEF TypeOK, MergerPlace, Message, MergeCancelled, MergerMoves, MergerAt, Planned
  <2>2. IsMerger(merger')
    BY <2>1, MergerUpdates, MergerFields, RootFields DEF TypeOK, MergerPlace, Message
  <2>3. /\ merger'.task # 0 => merger'.pc = "merge"
        /\ merger'.todo + merger'.task <= root.files
    BY <2>1, MergerFields, RootFields DEF TypeOK, IsMerger
  <2>4. forceMerge' \in [callers : [ForceMerger -> {"idle", "send", "await"}],
                        requested : BOOLEAN, done : BOOLEAN,
                        started : Nat, completed : Nat]
    BY <1>6 DEF TypeOK, MergeCancelled, Told
  <2>5. UNCHANGED <<root, writers, rootPersisted, persister, introducer,
                   introducerNotifier, epochWatchers,
                   persisterNotifier, persistWatchers, index, bounds>>
    BY <1>6 DEF MergeCancelled, MergerMoves, notifiers
  <2> QED
    BY <2>1, <2>2, <2>3, <2>4, <2>5 DEF TypeOK, bounds
<1>7. CASE OfferWatcher
  <2>1. merger' = [merger EXCEPT !.pc = "wait", !.woken = FALSE]
    BY <1>7, MergerFields, RootFields DEF TypeOK, MergerPlace, Message, OfferWatcher
  <2>2. IsMerger(merger')
    BY <2>1, MergerUpdates, MergerFields, RootFields DEF TypeOK, MergerPlace, Message
  <2>3. /\ merger'.task = 0
        /\ merger'.todo + merger'.task <= root.files
    <3>1. merger.task = 0
      BY <1>7 DEF TypeOK, OfferWatcher
    <3> QED
      BY <2>1, <3>1, MergerFields, RootFields DEF TypeOK, IsMerger
  <2>4. IsBuffer(persisterNotifier')
    BY <1>7, MergerFields DEF TypeOK, IsBuffer, OfferWatcher, Watcher
  <2>5. UNCHANGED <<root, writers, rootPersisted, persister, introducer,
                   introducerNotifier, epochWatchers, persistWatchers,
                   forceMerge, index, bounds>>
    BY <1>7 DEF OfferWatcher
  <2> QED
    BY <2>1, <2>2, <2>3, <2>4, <2>5 DEF TypeOK, bounds
<1>8. CASE MergerWakes
  <2>1. merger' = [merger EXCEPT !.pc = "loop", !.woken = FALSE]
    BY <1>8, MergerFields, RootFields DEF TypeOK, MergerPlace, Message, MergerWakes, MergerMoves, MergerAt
  <2>2. IsMerger(merger')
    BY <2>1, MergerUpdates, MergerFields, RootFields DEF TypeOK, MergerPlace, Message
  <2>3. /\ merger'.task = 0
        /\ merger'.todo + merger'.task <= root.files
    <3>1. merger.task = 0
      BY <1>8 DEF TypeOK, MergerWakes
    <3> QED
      BY <2>1, <3>1, MergerFields, RootFields DEF TypeOK, IsMerger
  <2>4. UNCHANGED <<root, writers, rootPersisted, persister, introducer,
                   introducerNotifier, epochWatchers,
                   persisterNotifier, persistWatchers, forceMerge,
                   index, bounds>>
    BY <1>8 DEF MergerWakes, MergerMoves, notifiers
  <2> QED
    BY <2>1, <2>2, <2>3, <2>4 DEF TypeOK, bounds
<1>9. CASE ReceiveForceMerge
  <2>1. merger' = [merger EXCEPT !.pc = "loop", !.ctrl = "force", !.woken = FALSE]
    BY <1>9, MergerFields, RootFields DEF TypeOK, MergerPlace, Message, ReceiveForceMerge
  <2>2. IsMerger(merger')
    BY <2>1, MergerUpdates, MergerFields, RootFields DEF TypeOK, MergerPlace, Message
  <2>3. /\ merger'.task = 0
        /\ merger'.todo + merger'.task <= root.files
    <3>1. merger.task = 0
      BY <1>9 DEF TypeOK, ReceiveForceMerge
    <3> QED
      BY <2>1, <3>1, MergerFields, RootFields DEF TypeOK, IsMerger
  <2>4. forceMerge' \in [callers : [ForceMerger -> {"idle", "send", "await"}],
                        requested : BOOLEAN, done : BOOLEAN,
                        started : Nat, completed : Nat]
    BY <1>9 DEF TypeOK, ReceiveForceMerge
  <2>5. IsBuffer(persisterNotifier')
    BY <1>9, AbandonedBuffer DEF TypeOK, ReceiveForceMerge
  <2>6. persistWatchers' \subseteq Nat
    BY <1>9 DEF ReceiveForceMerge
  <2>7. UNCHANGED <<root, writers, rootPersisted, persister, introducer,
                   introducerNotifier, epochWatchers, index, bounds>>
    BY <1>9 DEF ReceiveForceMerge
  <2> QED
    BY <2>1, <2>2, <2>3, <2>4, <2>5, <2>6, <2>7 DEF TypeOK, bounds
<1>10. CASE MergerExits
  <2>1. merger' = [merger EXCEPT !.pc = "done", !.woken = FALSE]
    BY <1>10, MergerFields, RootFields DEF TypeOK, MergerPlace, Message, MergerExits, MergerMoves, MergerAt
  <2>2. IsMerger(merger')
    BY <2>1, MergerUpdates, MergerFields, RootFields DEF TypeOK, MergerPlace, Message
  <2>3. /\ merger'.task = 0
        /\ merger'.todo + merger'.task <= root.files
    <3>1. merger.task = 0
      BY <1>10 DEF TypeOK, MergerExits
    <3> QED
      BY <2>1, <3>1, MergerFields, RootFields DEF TypeOK, IsMerger
  <2>4. UNCHANGED <<root, writers, rootPersisted, persister, introducer,
                   introducerNotifier, epochWatchers,
                   persisterNotifier, persistWatchers, forceMerge,
                   index, bounds>>
    BY <1>10 DEF MergerExits, MergerMoves, notifiers
  <2> QED
    BY <2>1, <2>2, <2>3, <2>4 DEF TypeOK, bounds
<1> QED
  BY <1>1, <1>2, <1>3, <1>4, <1>5, <1>6, <1>7, <1>8, <1>9, <1>10 DEF MergerStep

ForceMergeState == [callers : [ForceMerger -> {"idle", "send", "await"}],
                    requested : BOOLEAN, done : BOOLEAN, started : Nat, completed : Nat]

LEMMA TypeOKOfCallers ==
  ASSUME TypeOK,
         \/ \E f \in ForceMerger : ForceMergeStep(f)
         \/ \E w \in Writer : CallBatch(w)
         \/ CallClose
         \/ CloseReturns
  PROVE  TypeOK'
<1>1. ASSUME NEW f \in ForceMerger, ForceMergeStep(f) PROVE TypeOK'
  <2> DEFINE called(pc) == [forceMerge.callers EXCEPT ![f] = pc]
  <2>1. forceMerge \in ForceMergeState
    BY DEF TypeOK, ForceMergeState
  <2>2. \A pc \in {"idle", "send", "await"} :
          called(pc) \in [ForceMerger -> {"idle", "send", "await"}]
    BY <2>1 DEF ForceMergeState
  <2>3. forceMerge' \in ForceMergeState
    <3>1. CASE CallForceMerge(f)
      <4>1. PICK pc \in {"send", "idle"} :
            forceMerge' =
              [callers |-> called(pc), requested |-> forceMerge.requested,
               done |-> forceMerge.done, started |-> forceMerge.started + 1,
               completed |-> forceMerge.completed]
        BY <2>1, <3>1 DEF CallForceMerge, ForceMergeState
      <4> QED
        BY <2>1, <2>2, <4>1 DEF ForceMergeState
    <3>2. CASE RequestForceMerge(f)
      <4>1. forceMerge' = [forceMerge EXCEPT !.requested = TRUE, !.done = FALSE,
                                             !.callers = called("await")]
        BY <3>2 DEF RequestForceMerge
      <4> QED
        BY <2>1, <2>2, <4>1 DEF ForceMergeState
    <3>3. CASE ForceMergeDone(f)
      <4>1. forceMerge' =
              [callers |-> called("idle"), requested |-> forceMerge.requested,
               done |-> forceMerge.done, started |-> forceMerge.started,
               completed |-> forceMerge.completed + 1]
        BY <2>1, <3>3 DEF ForceMergeDone, ForceMergeState
      <4> QED
        BY <2>1, <2>2, <4>1 DEF ForceMergeState
    <3>4. CASE ForceMergeClosed(f)
      <4>1. forceMerge' = [forceMerge EXCEPT !.callers = called("idle")]
        BY <3>4 DEF ForceMergeClosed
      <4> QED
        BY <2>1, <2>2, <4>1 DEF ForceMergeState
    <3> QED
      BY <1>1, <3>1, <3>2, <3>3, <3>4 DEF ForceMergeStep
  <2>4. UNCHANGED <<root, writers, rootPersisted, persister, merger, introducer, notifiers,
                    index, bounds>>
    BY <1>1 DEF ForceMergeStep, CallForceMerge, RequestForceMerge, ForceMergeDone,
                ForceMergeClosed, ForceMergeOnly
  <2> QED
    BY <2>3, <2>4 DEF TypeOK, ForceMergeState, notifiers, bounds
<1>2. ASSUME NEW w \in Writer, CallBatch(w) PROVE TypeOK'
  BY <1>2 DEF CallBatch, TypeOK, notifiers
<1>3. CASE CallClose
  BY <1>3 DEF CallClose, TypeOK, notifiers, bounds
<1>4. CASE CloseReturns
  BY <1>4 DEF CloseReturns, TypeOK, notifiers, bounds
<1> QED
  BY <1>1, <1>2, <1>3, <1>4

LEMMA TypeOKStep == TypeOK /\ [Next]_vars => TypeOK'
<1> SUFFICES ASSUME TypeOK, [Next]_vars PROVE TypeOK'
  OBVIOUS
<1>1. CASE UNCHANGED vars
  BY <1>1 DEF vars, notifiers, bounds, TypeOK, Root, IsPersister, IsMerger, IsBuffer
<1> QED
  BY <1>1, TypeOKOfIntroducer, TypeOKOfPersister, TypeOKOfMerger, TypeOKOfCallers DEF Next

\* Every variable of ScorchLoops has its type, a channel's buffer never holds
\* two watchers, and the merger's plan never outgrows the root.
THEOREM TypeCorrect == Spec => []TypeOK
  BY TypeOKInitially, TypeOKStep, PTL DEF Spec

---------------------------------------------------------------------------
(* What a step leaves of the persister                                      *)

\* Waking the persister changes nothing else of it.
LEMMA WokenKeeps ==
  ASSUME NEW p, IsPersister(p), NEW watchers, NotifyEpochWatchers(watchers, p)
  PROVE  /\ persister'.pc = p.pc /\ persister'.acks = p.acks
         /\ persister'.lastPersistedEpoch = p.lastPersistedEpoch
  BY DEF NotifyEpochWatchers, IsPersister

\* The steps of the introducer and the merger that serve somebody.
LEMMA OthersWake ==
  ASSUME TypeOK,
         \/ \E w \in Writer : IntroduceBatch(w)
         \/ ReceiveEpochWatcher
         \/ IntroduceFileMerge
  PROVE  \E watchers : NotifyEpochWatchers(watchers, persister)
  BY DEF IntroduceBatch, ReceiveEpochWatcher, IntroduceFileMerge, Introduced

\* The steps that do not concern the persister at all.
Elsewhere == \/ IntroducerExits
             \/ MergerStep /\ ~IntroduceFileMerge
             \/ \E f \in ForceMerger : ForceMergeStep(f)
             \/ \E w \in Writer : CallBatch(w)
             \/ CallClose
             \/ CloseReturns
             \/ UNCHANGED vars

LEMMA ElsewhereKeeps ==
  ASSUME Elsewhere
  PROVE  UNCHANGED <<root, rootPersisted, persister, introducerNotifier, epochWatchers>>
<1>1. CASE IntroducerExits
  BY <1>1 DEF IntroducerExits, notifiers
<1>2. CASE MergerStep /\ ~IntroduceFileMerge
  BY <1>2 DEF MergerStep, MergerLoops, MergeTask, PlanDone, MergeFails, MergeCancelled,
              OfferWatcher, MergerWakes, ReceiveForceMerge, MergerExits, MergerMoves,
              notifiers
<1>3. CASE \E f \in ForceMerger : ForceMergeStep(f)
  BY <1>3 DEF ForceMergeStep, CallForceMerge, RequestForceMerge, ForceMergeDone,
              ForceMergeClosed, ForceMergeOnly, notifiers
<1>4. CASE \E w \in Writer : CallBatch(w)
  BY <1>4 DEF CallBatch, notifiers
<1>5. CASE CallClose \/ CloseReturns
  BY <1>5 DEF CallClose, CloseReturns, notifiers
<1>6. CASE UNCHANGED vars
  BY <1>6 DEF vars, notifiers
<1> QED
  BY <1>1, <1>2, <1>3, <1>4, <1>5, <1>6 DEF Elsewhere

---------------------------------------------------------------------------
(* Nobody who waits for an answer is forgotten.                             *)

Persisting == {"persist", "merge", "swap", "applied", "commit"}

\* The inductive strengthening: the persister holds channels of callers only
\* while it persists, so that taking a snapshot overwrites none.
Remembered == /\ WritersRemembered
              /\ persister.acks # {} => persister.pc \in Persisting

\* The persister goes on without taking a snapshot and without an answer.
LEMMA RememberedOfMove ==
  ASSUME Remembered,
         UNCHANGED <<writers, rootPersisted>>,
         persister'.acks = persister.acks,
         persister.pc \in Persisting => persister'.pc \in Persisting
  PROVE  Remembered'
  BY DEF Remembered, WritersRemembered

\* Every caller in the snapshot is answered.
LEMMA RememberedOfAnswer ==
  ASSUME TypeOK, Remembered, writers' = Answered, persister'.acks = {},
         UNCHANGED rootPersisted
  PROVE  Remembered'
  BY DEF TypeOK, Remembered, WritersRemembered, Answered

LEMMA RememberedOfPersister ==
  ASSUME TypeOK, Remembered, PersisterStep
  PROVE  Remembered'
<1>0. IsPersister(persister)
  BY DEF TypeOK
<1>1. CASE PersisterLoops \/ PersisterLoopsWithWatcher \/ ReceiveWhilePausing
  <2>1. PICK p : /\ persister' = p
                 /\ \E pc, e : p = [persister EXCEPT !.pc = pc, !.lastMergedEpoch = e]
    BY <1>1 DEF PersisterLoops, PersisterLoopsWithWatcher, ReceiveWhilePausing, StartPause,
                PersisterMoves
  <2>2. persister'.acks = persister.acks
    BY <1>0, <2>1 DEF IsPersister
  <2>3. persister.pc \notin Persisting /\ UNCHANGED <<writers, rootPersisted>>
    BY <1>1 DEF PersisterLoops, PersisterLoopsWithWatcher, ReceiveWhilePausing, StartPause,
                PersisterMoves, Persisting
  <2> QED
    BY <2>2, <2>3, RememberedOfMove
<1>2. CASE PauseEnds \/ PersisterWakes \/ PersisterExits
  <2>1. persister'.acks = persister.acks
    BY <1>0, <1>2 DEF PauseEnds, PersisterWakes, PersisterExits, PersisterMoves,
                      PersisterAt, IsPersister
  <2>2. persister.pc \notin Persisting /\ UNCHANGED <<writers, rootPersisted>>
    BY <1>2 DEF PauseEnds, PersisterWakes, PersisterExits, PersisterMoves, Persisting
  <2> QED
    BY <2>1, <2>2, RememberedOfMove
<1>3. CASE TakeSnapshot
  <2>1. persister.acks = {} /\ writers' = writers
    BY <1>3 DEF Remembered, Persisting, TakeSnapshot
  <2>2. \/ /\ persister'.acks = rootPersisted /\ rootPersisted' = {}
           /\ persister'.pc = "persist"
        \/ persister'.acks = {} /\ rootPersisted' = rootPersisted
    BY <1>0, <1>3, <2>1 DEF TakeSnapshot, PersisterAt, IsPersister
  <2> QED
    BY <2>1, <2>2 DEF Remembered, WritersRemembered, Persisting
<1>4. CASE StartPersist
  <2>1. PICK pc \in {"commit", "merge", "swap"} : persister' = [persister EXCEPT !.pc = pc]
    BY <1>4 DEF StartPersist, PersisterMoves, PersisterAt
  <2>2. persister'.acks = persister.acks /\ persister'.pc \in Persisting
    BY <1>0, <2>1 DEF IsPersister, Persisting
  <2>3. UNCHANGED <<writers, rootPersisted>>
    BY <1>4 DEF StartPersist, PersisterMoves
  <2> QED
    BY <2>2, <2>3, RememberedOfMove
<1>5. CASE IntroduceInMemoryMerge \/ IntroducePersisted
  <2>1. PICK pc \in {"commit", "swap", "applied"} :
          NotifyEpochWatchers(epochWatchers, PersisterAt(pc))
    BY <1>5 DEF IntroduceInMemoryMerge, IntroducePersisted, Introduced
  <2>2. /\ IsPersister(PersisterAt(pc))
        /\ PersisterAt(pc).acks = persister.acks /\ PersisterAt(pc).pc = pc
    BY <1>0 DEF IsPersister, PersisterAt
  <2>3. persister'.acks = persister.acks /\ persister'.pc \in Persisting
    BY <2>1, <2>2, WokenKeeps DEF Persisting
  <2>4. UNCHANGED <<writers, rootPersisted>>
    BY <1>5 DEF IntroduceInMemoryMerge, IntroducePersisted
  <2> QED
    BY <2>3, <2>4, RememberedOfMove
<1>6. CASE PersistSucceeds \/ PersistFails \/ PersistClosed
  <2>1. persister'.acks = {}
    BY <1>0, <1>6 DEF PersistSucceeds, PersistFails, PersistClosed, IsPersister
  <2>2. writers' = Answered /\ rootPersisted' = rootPersisted
    BY <1>6 DEF PersistSucceeds, PersistFails, PersistClosed
  <2> QED
    BY <2>1, <2>2, RememberedOfAnswer
<1>7. CASE Announce \/ PersisterInterrupted
  <2>1. persister'.acks = persister.acks
    BY <1>0, <1>7 DEF Announce, PersisterInterrupted, IsPersister
  <2>2. persister.pc \notin Persisting /\ UNCHANGED <<writers, rootPersisted>>
    BY <1>7 DEF Announce, PersisterInterrupted, Persisting
  <2> QED
    BY <2>1, <2>2, RememberedOfMove
<1> QED
  BY <1>1, <1>2, <1>3, <1>4, <1>5, <1>6, <1>7 DEF PersisterStep

LEMMA RememberedStep == TypeOK /\ Remembered /\ [Next]_vars => Remembered'
<1> SUFFICES ASSUME TypeOK, Remembered, [Next]_vars PROVE Remembered'
  OBVIOUS
<1>0. IsPersister(persister)
  BY DEF TypeOK
<1>1. ASSUME NEW w \in Writer, IntroduceBatch(w) PROVE Remembered'
  <2>1. persister'.acks = persister.acks /\ persister'.pc = persister.pc
    BY <1>0, <1>1, OthersWake, WokenKeeps
  <2>2. /\ writers' = [writers EXCEPT ![w] = "persisting"]
        /\ rootPersisted' = rootPersisted \cup {w}
    BY <1>1 DEF IntroduceBatch
  <2> QED
    BY <2>1, <2>2 DEF Remembered, WritersRemembered, TypeOK
<1>2. CASE ReceiveEpochWatcher \/ IntroduceFileMerge
  <2>1. persister'.acks = persister.acks /\ persister'.pc = persister.pc
    BY <1>0, <1>2, OthersWake, WokenKeeps
  <2>2. UNCHANGED <<writers, rootPersisted>>
    BY <1>2 DEF ReceiveEpochWatcher, IntroduceFileMerge
  <2> QED
    BY <2>1, <2>2, RememberedOfMove
<1>3. CASE PersisterStep
  BY <1>3, RememberedOfPersister
<1>4. ASSUME NEW w \in Writer, CallBatch(w) PROVE Remembered'
  <2>1. UNCHANGED <<persister, rootPersisted>>
    BY <1>4 DEF CallBatch
  <2>2. writers' = [writers EXCEPT ![w] = "introducing"]
    BY <1>4 DEF CallBatch
  <2> QED
    BY <2>1, <2>2 DEF Remembered, WritersRemembered, TypeOK
<1>5. CASE Elsewhere /\ ~ \E w \in Writer : CallBatch(w)
  <2>1. UNCHANGED writers
    BY <1>5 DEF Elsewhere, IntroducerExits, MergerStep, MergerLoops, MergeTask, PlanDone,
                MergeFails, MergeCancelled, OfferWatcher, MergerWakes, ReceiveForceMerge,
                MergerExits, MergerMoves, ForceMergeStep, CallForceMerge,
                RequestForceMerge, ForceMergeDone, ForceMergeClosed, ForceMergeOnly,
                CallClose, CloseReturns, vars
  <2> QED
    BY <1>5, <2>1, ElsewhereKeeps, RememberedOfMove
<1> QED
  BY <1>1, <1>2, <1>3, <1>4, <1>5 DEF Next, IntroducerStep, Elsewhere, MergerStep

\* The channel of every caller of Batch that was introduced is with the root
\* or with the snapshot being persisted.
THEOREM NobodyForgotten == Spec => []WritersRemembered
<1>1. Init => Remembered
  BY DEF Init, Remembered, WritersRemembered
<1>2. Remembered => WritersRemembered
  BY DEF Remembered
<1> QED
  BY <1>1, <1>2, RememberedStep, TypeCorrect, PTL DEF Spec

---------------------------------------------------------------------------
(* The persister and the merger never wait for each other.                  *)

\* What the persister holds after it has woken the watchers that lag.
LEMMA NoneLags ==
  ASSUME TypeOK, NEW watchers \in SUBSET Nat
  PROVE  \A e \in NotifyMergeWatchers(watchers).left : e >= persister.lastPersistedEpoch
<1>1. persister.lastPersistedEpoch \in Nat
  BY PersisterFields DEF TypeOK
<1> QED
  BY <1>1 DEF NotifyMergeWatchers, Lagging

\* It wakes them whenever it starts to pause or is interrupted in its pause.
LEMMA PauseNotifies ==
  ASSUME TypeOK, PersisterLoops \/ PersisterLoopsWithWatcher \/ ReceiveWhilePausing
  PROVE  NoMutualWait'
<1>1. PICK watchers \in SUBSET Nat : persistWatchers' = NotifyMergeWatchers(watchers).left
  <2>1. persistWatchers \subseteq Nat
    BY DEF TypeOK
  <2>2. ASSUME NEW w \in persisterNotifier PROVE persistWatchers \cup Epochs({w}) \subseteq Nat
    BY <2>1 DEF TypeOK, IsBuffer, Epochs
  <2> QED
    BY <2>1, <2>2 DEF PersisterLoops, PersisterLoopsWithWatcher, ReceiveWhilePausing,
                      StartPause
<1>2. PICK pc, e : persister' = [persister EXCEPT !.pc = pc, !.lastMergedEpoch = e]
  BY DEF PersisterLoops, PersisterLoopsWithWatcher, ReceiveWhilePausing, StartPause,
         PersisterMoves
<1>3. persister'.lastPersistedEpoch = persister.lastPersistedEpoch
  BY <1>2 DEF TypeOK, IsPersister
<1> QED
  BY <1>1, <1>3, NoneLags DEF NoMutualWait

\* A step that neither starts a pause nor adds a watcher.
LEMMA NoMutualWaitOfMove ==
  ASSUME NoMutualWait, persistWatchers' \subseteq persistWatchers,
         persister'.pc = "pause" =>
           /\ persister.pc = "pause"
           /\ persister'.lastPersistedEpoch = persister.lastPersistedEpoch
  PROVE  NoMutualWait'
  BY DEF NoMutualWait

LEMMA NoMutualWaitStep == TypeOK /\ NoMutualWait /\ [Next]_vars => NoMutualWait'
<1> SUFFICES ASSUME TypeOK, NoMutualWait, [Next]_vars PROVE NoMutualWait'
  OBVIOUS
<1>0. IsPersister(persister)
  BY DEF TypeOK
<1>1. CASE PersisterLoops \/ PersisterLoopsWithWatcher \/ ReceiveWhilePausing
  BY <1>1, PauseNotifies
<1>2. CASE PauseEnds \/ PersisterWakes \/ PersisterExits \/ TakeSnapshot \/ StartPersist
           \/ PersistSucceeds \/ PersistFails \/ PersistClosed \/ Announce
           \/ PersisterInterrupted
  <2>1. persister'.pc # "pause"
    <3>1. CASE PauseEnds \/ PersisterWakes \/ PersisterExits
      BY <1>0, <3>1 DEF PauseEnds, PersisterWakes, PersisterExits, PersisterMoves,
                        PersisterAt, IsPersister
    <3>2. CASE TakeSnapshot \/ StartPersist
      BY <1>0, <3>2 DEF TakeSnapshot, StartPersist, PersisterMoves, PersisterAt,
                        IsPersister
    <3>3. CASE PersistSucceeds \/ PersistFails \/ PersistClosed
      BY <1>0, <3>3 DEF PersistSucceeds, PersistFails, PersistClosed, IsPersister
    <3>4. CASE Announce \/ PersisterInterrupted
      BY <1>0, <3>4 DEF Announce, PersisterInterrupted, IsPersister
    <3> QED
      BY <1>2, <3>1, <3>2, <3>3, <3>4
  <2> QED
    BY <2>1 DEF NoMutualWait
<1>3. CASE IntroduceInMemoryMerge \/ IntroducePersisted
  <2>1. PICK pc \in {"commit", "swap", "applied"} :
          NotifyEpochWatchers(epochWatchers, PersisterAt(pc))
    BY <1>3 DEF IntroduceInMemoryMerge, IntroducePersisted, Introduced
  <2>2. IsPersister(PersisterAt(pc)) /\ PersisterAt(pc).pc = pc
    BY <1>0 DEF IsPersister, PersisterAt
  <2>3. persister'.pc # "pause"
    BY <2>1, <2>2, WokenKeeps
  <2> QED
    BY <2>3 DEF NoMutualWait
<1>4. CASE (\E w \in Writer : IntroduceBatch(w)) \/ ReceiveEpochWatcher \/ IntroduceFileMerge
  <2>1. /\ persister'.pc = persister.pc
        /\ persister'.lastPersistedEpoch = persister.lastPersistedEpoch
    BY <1>0, <1>4, OthersWake, WokenKeeps
  <2>2. persistWatchers' = persistWatchers
    BY <1>4 DEF IntroduceBatch, ReceiveEpochWatcher, IntroduceFileMerge, Introduced
  <2> QED
    BY <2>1, <2>2, NoMutualWaitOfMove
<1>5. CASE Elsewhere
  <2>1. persistWatchers' \subseteq persistWatchers
    BY <1>5 DEF Elsewhere, IntroducerExits, MergerStep, MergerLoops, MergeTask, PlanDone,
                MergeFails, MergeCancelled, OfferWatcher, MergerWakes, ReceiveForceMerge,
                MergerExits, MergerMoves, ForceMergeStep, CallForceMerge,
                RequestForceMerge, ForceMergeDone, ForceMergeClosed, ForceMergeOnly,
                CallBatch, CallClose, CloseReturns, vars, notifiers
  <2> QED
    BY <1>5, <2>1, ElsewhereKeeps, NoMutualWaitOfMove
<1> QED
  BY <1>1, <1>2, <1>3, <1>4, <1>5 DEF Next, IntroducerStep, PersisterStep, MergerStep, Elsewhere

\* While the persister pauses for the merger it holds no watcher of a merger
\* that lags, so the two never wait for each other.
THEOREM MergerAndPersisterApart == Spec => []NoMutualWait
<1>1. Init => NoMutualWait
  BY DEF Init, NoMutualWait
<1> QED
  BY <1>1, NoMutualWaitStep, TypeCorrect, PTL DEF Spec

---------------------------------------------------------------------------
(* The persister never sleeps on a root it has not seen.                    *)

\* The inductive strengthening says where the watcher of a sleeping persister
\* is: in the buffer, or with an introducer whose root has not passed it.
WatcherHeld ==
  persister.pc = "wait" /\ ~persister.woken /\ introducer = "running" =>
    \/ Watcher(persister.lastPersistedEpoch) \in introducerNotifier
    \/ /\ persister.lastPersistedEpoch \in epochWatchers
       /\ root.epoch <= persister.lastPersistedEpoch

\* The introducer keeps the watchers that the new root has not passed, and
\* wakes the persister for the others.
LEMMA KeptOrWoken ==
  ASSUME NEW p, IsPersister(p), NEW watchers, NotifyEpochWatchers(watchers, p),
         NEW e \in watchers, e \in Nat, root'.epoch \in Nat
  PROVE  \/ persister'.woken
         \/ e \in epochWatchers' /\ root'.epoch <= e
<1>1. CASE e < root'.epoch
  BY <1>1 DEF NotifyEpochWatchers, IsPersister
<1>2. CASE ~(e < root'.epoch)
  BY <1>2 DEF NotifyEpochWatchers
<1> QED
  BY <1>1, <1>2

\* Whatever the introducer serves, the watcher that it holds is kept or woken.
LEMMA WatcherHeldOfIntroduction ==
  ASSUME TypeOK, TypeOK', WatcherHeld, NEW watchers,
         NotifyEpochWatchers(watchers, persister),
         UNCHANGED introducer,
         \/ epochWatchers \subseteq watchers /\ UNCHANGED introducerNotifier
         \/ \E w \in introducerNotifier : watchers = epochWatchers \cup Epochs({w})
  PROVE  WatcherHeld'
<1> SUFFICES ASSUME persister'.pc = "wait", ~persister'.woken, introducer' = "running"
             PROVE  \/ Watcher(persister'.lastPersistedEpoch) \in introducerNotifier'
                    \/ /\ persister'.lastPersistedEpoch \in epochWatchers'
                       /\ root'.epoch <= persister'.lastPersistedEpoch
  BY DEF WatcherHeld
<1> DEFINE e == persister.lastPersistedEpoch
<1>1. IsPersister(persister) /\ e \in Nat /\ root'.epoch \in Nat
  BY PersisterFields, RootFields DEF TypeOK
<1>2. persister'.pc = persister.pc /\ persister'.lastPersistedEpoch = e
  BY <1>1, WokenKeeps
<1>3. ~persister.woken
  BY <1>1 DEF NotifyEpochWatchers, IsPersister
<1>4. Watcher(e) \in introducerNotifier \/ e \in epochWatchers
  BY <1>2, <1>3 DEF WatcherHeld
<1>5. ASSUME e \in watchers PROVE e \in epochWatchers' /\ root'.epoch <= e
  BY <1>1, <1>5, KeptOrWoken
<1>6. CASE epochWatchers \subseteq watchers /\ UNCHANGED introducerNotifier
  BY <1>2, <1>4, <1>5, <1>6
<1>7. CASE \E w \in introducerNotifier : watchers = epochWatchers \cup Epochs({w})
  <2>1. PICK w \in introducerNotifier : watchers = epochWatchers \cup Epochs({w})
    BY <1>7
  <2>2. CASE Watcher(e) \in introducerNotifier
    <3>1. w = Watcher(e)
      BY <2>2 DEF TypeOK, IsBuffer
    <3>2. e \in Epochs({w})
      BY <3>1 DEF Epochs, Watcher
    <3> QED
      BY <1>2, <1>5, <2>1, <3>2
  <2>3. CASE e \in epochWatchers
    BY <1>2, <1>5, <2>1, <2>3
  <2> QED
    BY <1>4, <2>2, <2>3
<1> QED
  BY <1>6, <1>7

LEMMA WatcherHeldStep == TypeOK /\ TypeOK' /\ WatcherHeld /\ [Next]_vars => WatcherHeld'
<1> SUFFICES ASSUME TypeOK, TypeOK', WatcherHeld, [Next]_vars PROVE WatcherHeld'
  OBVIOUS
<1>0. IsPersister(persister)
  BY DEF TypeOK
<1>1. CASE PersisterStep /\ ~Announce
  <2>1. persister'.pc # "wait"
    <3>1. CASE PersisterLoops \/ PersisterLoopsWithWatcher \/ ReceiveWhilePausing
      <4>1. ASSUME NEW pc \in {"take", "pause", "nap"}, NEW e,
                   persister' = [persister EXCEPT !.pc = pc, !.lastMergedEpoch = e]
            PROVE  persister'.pc # "wait"
        BY <1>0, <4>1 DEF IsPersister
      <4>2. CASE PersisterLoops
        BY <4>1, <4>2 DEF PersisterLoops, StartPause, PersisterMoves, AfterCount
      <4>3. CASE PersisterLoopsWithWatcher
        BY <4>1, <4>3 DEF PersisterLoopsWithWatcher, StartPause, PersisterMoves, AfterCount
      <4>4. CASE ReceiveWhilePausing
        BY <4>1, <4>4 DEF ReceiveWhilePausing, PersisterMoves, AfterCount
      <4> QED
        BY <3>1, <4>2, <4>3, <4>4
    <3>2. CASE PauseEnds \/ PersisterWakes \/ PersisterExits
      <4>1. \/ persister' = [persister EXCEPT !.pc = "take"]
            \/ \E pc \in {"loop", "done"} :
                 persister' = [persister EXCEPT !.pc = pc, !.woken = FALSE]
        BY <3>2 DEF PauseEnds, PersisterWakes, PersisterExits, PersisterMoves, PersisterAt
      <4> QED
        BY <1>0, <4>1 DEF IsPersister
    <3>3. CASE TakeSnapshot \/ StartPersist
      BY <1>0, <3>3 DEF TakeSnapshot, StartPersist, PersisterMoves, PersisterAt,
                        IsPersister
    <3>4. CASE PersistSucceeds \/ PersistFails \/ PersistClosed \/ PersisterInterrupted
      BY <1>0, <3>4 DEF PersistSucceeds, PersistFails, PersistClosed,
                        PersisterInterrupted, IsPersister
    <3>5. CASE IntroduceInMemoryMerge \/ IntroducePersisted
      <4>1. PICK pc \in {"commit", "swap", "applied"} :
              NotifyEpochWatchers(epochWatchers, PersisterAt(pc))
        BY <3>5 DEF IntroduceInMemoryMerge, IntroducePersisted, Introduced
      <4>2. IsPersister(PersisterAt(pc)) /\ PersisterAt(pc).pc = pc
        BY <1>0 DEF IsPersister, PersisterAt
      <4> QED
        BY <4>1, <4>2, WokenKeeps
    <3> QED
      BY <1>1, <3>1, <3>2, <3>3, <3>4, <3>5 DEF PersisterStep
  <2> QED
    BY <2>1 DEF WatcherHeld
<1>2. CASE Announce
  <2>1. introducerNotifier' = {Watcher(persister.lastPersistedEpoch)}
    BY <1>2 DEF Announce
  <2>2. persister'.lastPersistedEpoch = persister.lastPersistedEpoch
    BY <1>0, <1>2 DEF Announce, IsPersister
  <2> QED
    BY <2>1, <2>2 DEF WatcherHeld
<1>3. CASE (\E w \in Writer : IntroduceBatch(w)) \/ IntroduceFileMerge
  BY <1>3, WatcherHeldOfIntroduction DEF IntroduceBatch, IntroduceFileMerge, Introduced
<1>4. CASE ReceiveEpochWatcher
  BY <1>4, WatcherHeldOfIntroduction DEF ReceiveEpochWatcher
<1>5. CASE Elsewhere
  <2>1. introducer' = "running" => introducer = "running"
    BY <1>5 DEF Elsewhere, IntroducerExits, MergerStep, MergerLoops, MergeTask, PlanDone,
                MergeFails, MergeCancelled, OfferWatcher, MergerWakes, ReceiveForceMerge,
                MergerExits, MergerMoves, ForceMergeStep, CallForceMerge,
                RequestForceMerge, ForceMergeDone, ForceMergeClosed, ForceMergeOnly,
                CallBatch, CallClose, CloseReturns, vars
  <2> QED
    BY <1>5, <2>1, ElsewhereKeeps DEF WatcherHeld
<1> QED
  BY <1>1, <1>2, <1>3, <1>4, <1>5 DEF Next, IntroducerStep, PersisterStep, MergerStep, Elsewhere

\* When the root has passed the persister's watcher, the persister is awake or
\* its watcher is on its way to the introducer.
THEOREM PersisterWakesUp == Spec => []NoLostWakeup
<1>1. Init => WatcherHeld
  BY DEF Init, WatcherHeld
<1>2. WatcherHeld => NoLostWakeup
  BY DEF WatcherHeld, NoLostWakeup
<1> QED
  BY <1>1, <1>2, WatcherHeldStep, TypeCorrect, PTL DEF Spec

---------------------------------------------------------------------------
(* The offline builder *)

\* The files to be merged that are still there.
Listed == ToSet(segPaths) \cap DOMAIN buildDir

\* The documents of files.
DocsIn(files, dir) == UNION {dir[n] : n \in files}

FilesFit ==
  /\ indexed \in SUBSET Docs /\ batch \in SUBSET indexed
  /\ segPaths \in Seq(Nat) /\ IsInjective(segPaths)
  /\ IsFiniteSet(DOMAIN buildDir) /\ DOMAIN buildDir \subseteq Nat
  /\ buildDir \in [DOMAIN buildDir -> SUBSET indexed]

CloseFits ==
  /\ store \in [segment : SUBSET Docs, bolt : BOOLEAN]
  /\ builder \in {"open", "merging", "recording", "panic"}
  /\ closed \in {"", "error", "nil"}
  /\ faults \in Nat

\* No document is in two of the files to be merged, or in one and in the batch.
FilesApart ==
  /\ \A n, m \in Listed : n # m => buildDir[n] \cap buildDir[m] = {}
  /\ \A n \in Listed : batch \cap buildDir[n] = {}

\* Every document that was accepted is in the batch or in a file to be merged.
AllHeld ==
  /\ ToSet(segPaths) \subseteq DOMAIN buildDir
  /\ indexed = batch \cup DocsIn(ToSet(segPaths), buildDir)

\* While nothing has failed, no document that was accepted is lost.
NothingLost ==
  /\ closed # "error"
  /\ closed = "" /\ builder \in {"open", "merging"} => AllHeld
  /\ builder = "merging" => batch = {}
  /\ builder = "recording" => store.segment = indexed
  /\ builder # "open" => closed = ""
  /\ closed = "nil" => store.bolt /\ store.segment = indexed

BuilderInv == FilesFit /\ CloseFits /\ FilesApart /\ (faults = 0 => NothingLost)

\* Some name is neither on disk nor on the list.
LEMMA NotAllUsed ==
  ASSUME NEW D, IsFiniteSet(D), NEW s \in Seq(Nat)
  PROVE  \E n \in 0..(Cardinality(D) + Len(s)) : n \notin D \cup ToSet(s)
<1> DEFINE L == ToSet(s)
           k == Cardinality(D) + Len(s)
<1>1. PICK m \in Nat : m = Len(s)
  OBVIOUS
<1>2. Cardinality(D) \in Nat /\ DOMAIN s = 1..m /\ k \in Nat /\ k = Cardinality(D) + m
  BY <1>1, FS_CardinalityType
<1>3. PICK f : f \in Surjection(1..m, L)
  <2>1. [i \in 1..m |-> s[i]] \in Surjection(1..m, L)
    BY <1>2 DEF Surjection, ToSet
  <2> QED
    BY <2>1
<1> HIDE DEF L, k
<1>4. IsFiniteSet(1..m) /\ Cardinality(1..m) = m
  <2>1. /\ IsFiniteSet(1..m)
        /\ Cardinality(1..m) = IF 1 > m THEN 0 ELSE m - 1 + 1
    <3>1. 1 \in Int /\ m \in Int
      OBVIOUS
    <3> QED
      BY ONLY <3>1, FS_Interval
  <2> QED
    BY <2>1
<1>5. IsFiniteSet(L) /\ Cardinality(L) <= m
  BY <1>3, <1>4, FS_Surjection
<1>6. Cardinality(L) \in Nat
  BY <1>5, FS_CardinalityType
<1>7. IsFiniteSet(D \cup L) /\ Cardinality(D \cup L) \in Nat /\ Cardinality(D \cup L) <= k
  <2>1. /\ IsFiniteSet(D \cup L)
        /\ Cardinality(D \cup L) = Cardinality(D) + Cardinality(L) - Cardinality(D \cap L)
    BY <1>5, FS_Union
  <2>2. Cardinality(D \cap L) \in Nat /\ Cardinality(D \cup L) \in Nat
    BY <2>1, FS_Subset, FS_CardinalityType
  <2> QED
    BY <2>1, <2>2, <1>2, <1>5, <1>6
<1>8. \E n \in 0..k : n \notin D \cup L
  <2>1. SUFFICES ASSUME 0..k \subseteq D \cup L PROVE FALSE
    OBVIOUS
  <2>2. Cardinality(0..k) <= Cardinality(D \cup L)
    BY <2>1, <1>7, FS_Subset
  <2>3. Cardinality(0..k) = k + 1
    BY <1>2, FS_Interval
  <2> QED
    BY <2>2, <2>3, <1>2, <1>7
<1> QED
  BY <1>8 DEF k, L

\* A file gets a name that no file on disk or on the list has.
LEMMA NameIsNew ==
  ASSUME FilesFit
  PROVE  SegCount \in Nat /\ SegCount \notin DOMAIN buildDir /\ SegCount \notin ToSet(segPaths)
<1>1. PICK D \in SUBSET Nat, s \in Seq(Nat) : D = DOMAIN buildDir /\ s = segPaths
  BY DEF FilesFit
<1>2. IsFiniteSet(D)
  BY <1>1 DEF FilesFit
<1>3. \E n \in 0..(Cardinality(D) + Len(s)) : n \notin D \cup ToSet(s)
  BY <1>2, NotAllUsed
<1>4. /\ SegCount \in 0..(Cardinality(D) + Len(s)) /\ SegCount \notin D \cup ToSet(s)
  BY <1>1, <1>3 DEF SegCount
<1>5. Cardinality(D) \in Nat /\ Len(s) \in Nat
  BY <1>2, FS_CardinalityType
<1> QED
  BY <1>1, <1>4, <1>5

LEMMA Appended ==
  ASSUME NEW s \in Seq(Nat), IsInjective(s), NEW n \in Nat, n \notin ToSet(s)
  PROVE  /\ Append(s, n) \in Seq(Nat) /\ IsInjective(Append(s, n))
         /\ ToSet(Append(s, n)) = ToSet(s) \cup {n}
<1> DEFINE t == Append(s, n)
<1>1. /\ t \in Seq(Nat) /\ Len(t) = Len(s) + 1 /\ DOMAIN s = 1..Len(s) /\ DOMAIN t = 1..Len(t)
      /\ Len(s) \in Nat /\ t[Len(s) + 1] = n /\ \A i \in 1..Len(s) : t[i] = s[i]
  OBVIOUS
<1> HIDE DEF t
<1>2. \A i \in 1..Len(t) : i \in 1..Len(s) \/ i = Len(s) + 1
  BY <1>1
<1>3. \A i \in 1..Len(s) : s[i] # n /\ i \in 1..Len(t)
  BY <1>1 DEF ToSet
<1>4. Len(s) + 1 \in 1..Len(t)
  BY <1>1
<1>5. IsInjective(t)
  BY <1>1, <1>2, <1>3 DEF IsInjective
<1>6. ToSet(t) = ToSet(s) \cup {n}
  <2>1. \A x : x \in ToSet(t) <=> x \in ToSet(s) \/ x = n
    BY <1>1, <1>2, <1>3, <1>4 DEF ToSet
  <2> QED
    BY <2>1
<1> QED
  BY <1>1, <1>5, <1>6 DEF t

\* A list and its two parts.
LEMMA ListSplit ==
  ASSUME NEW s \in Seq(Nat), IsInjective(s), NEW k \in 0..Len(s)
  PROVE  /\ SubSeq(s, k + 1, Len(s)) \in Seq(Nat) /\ IsInjective(SubSeq(s, k + 1, Len(s)))
         /\ ToSet(s) = ToSet(SubSeq(s, 1, k)) \cup ToSet(SubSeq(s, k + 1, Len(s)))
         /\ ToSet(SubSeq(s, 1, k)) \cap ToSet(SubSeq(s, k + 1, Len(s))) = {}
<1> DEFINE a == SubSeq(s, 1, k)
           b == SubSeq(s, k + 1, Len(s))
<1>1. Len(s) \in Nat /\ DOMAIN s = 1..Len(s) /\ k \in Nat /\ k <= Len(s)
  OBVIOUS
<1>2. DOMAIN a = 1..k /\ \A i \in 1..k : a[i] = s[i]
  BY <1>1
<1>3. /\ b \in Seq(Nat) /\ DOMAIN b = 1..(Len(s) - k)
      /\ \A i \in 1..(Len(s) - k) : b[i] = s[k + i]
  BY <1>1
<1> HIDE DEF a, b
<1>4. /\ \A i \in 1..(Len(s) - k) : k + i \in 1..Len(s) /\ k + i \notin 1..k
      /\ \A i, j \in 1..(Len(s) - k) : k + i = k + j => i = j
      /\ \A i \in 1..k : i \in 1..Len(s)
  BY <1>1
<1>5. \A i \in 1..Len(s) : i \in 1..k \/ \E j \in 1..(Len(s) - k) : i = k + j
  <2>1. ASSUME NEW i \in 1..Len(s), i \notin 1..k
        PROVE  i - k \in 1..(Len(s) - k) /\ i = k + (i - k)
    BY <2>1, <1>1
  <2> QED
    BY <2>1
<1>6. IsInjective(b)
  <2>1. SUFFICES ASSUME NEW i \in 1..(Len(s) - k), NEW j \in 1..(Len(s) - k), b[i] = b[j]
                 PROVE  i = j
    BY <1>3 DEF IsInjective
  <2>2. k + i \in DOMAIN s /\ k + j \in DOMAIN s
    BY <1>1, <1>4
  <2>3. s[k + i] = s[k + j]
    BY <2>1, <1>3
  <2> QED
    BY <2>2, <2>3, <1>4 DEF IsInjective
<1>7. \A x : x \in ToSet(s) <=> x \in ToSet(a) \/ x \in ToSet(b)
  <2>1. ASSUME NEW i \in 1..Len(s) PROVE s[i] \in ToSet(a) \/ s[i] \in ToSet(b)
    <3>1. CASE i \in 1..k
      BY <3>1, <1>2 DEF ToSet
    <3>2. CASE i \notin 1..k
      <4>1. PICK j \in 1..(Len(s) - k) : i = k + j
        BY <3>2, <1>5
      <4> QED
        BY <4>1, <1>3 DEF ToSet
    <3> QED
      BY <3>1, <3>2
  <2>2. ToSet(a) \subseteq ToSet(s)
    BY <1>1, <1>2, <1>4 DEF ToSet
  <2>3. ToSet(b) \subseteq ToSet(s)
    BY <1>1, <1>3, <1>4 DEF ToSet
  <2> QED
    BY <2>1, <2>2, <2>3, <1>1 DEF ToSet
<1>8. ToSet(a) \cap ToSet(b) = {}
  <2>1. ASSUME NEW i \in 1..k, NEW j \in 1..(Len(s) - k) PROVE a[i] # b[j]
    <3>1. i # k + j /\ i \in DOMAIN s /\ k + j \in DOMAIN s
      BY <1>1, <1>4
    <3>2. s[i] # s[k + j]
      BY <3>1 DEF IsInjective
    <3> QED
      BY <3>2, <1>2, <1>3
  <2>2. SUFFICES ASSUME NEW x \in ToSet(a), x \in ToSet(b) PROVE FALSE
    OBVIOUS
  <2>3. PICK i \in 1..k : x = a[i]
    BY <1>2 DEF ToSet
  <2>4. PICK j \in 1..(Len(s) - k) : x = b[j]
    BY <2>2, <1>3 DEF ToSet
  <2> QED
    BY <2>1, <2>3, <2>4
<1> QED
  BY <1>3, <1>6, <1>7, <1>8 DEF a, b

\* What is merged comes off the beginning of the list.
LEMMA ListParts ==
  ASSUME FilesFit, MergeMax \in Nat
  PROVE  /\ Rest \in Seq(Nat) /\ IsInjective(Rest)
         /\ ToSet(segPaths) = MergedFiles \cup ToSet(Rest) /\ MergedFiles \cap ToSet(Rest) = {}
<1>1. PICK s \in Seq(Nat) : s = segPaths /\ IsInjective(s)
  BY DEF FilesFit
<1>2. PICK k \in 0..Len(s) : k = MergeCount
  BY <1>1 DEF MergeCount
<1>3. Rest = SubSeq(s, k + 1, Len(s)) /\ MergedFiles = ToSet(SubSeq(s, 1, k))
  BY <1>1, <1>2 DEF Rest, MergedFiles
<1> QED
  BY <1>1, <1>3, ListSplit

\* A file is added to some of the files to be merged.
LEMMA FileAdded ==
  ASSUME FilesFit, FilesApart,
         NEW docs \in SUBSET Docs, NEW D \in SUBSET Nat, NEW paths \in Seq(Nat),
         IsInjective(paths), ToSet(paths) \subseteq ToSet(segPaths), D \subseteq DOMAIN buildDir,
         buildDir' = [m \in D \cup {SegCount} |-> IF m = SegCount THEN docs ELSE buildDir[m]],
         segPaths' = Append(paths, SegCount),
         indexed \subseteq indexed', indexed' \in SUBSET Docs, docs \subseteq indexed',
         batch' \in SUBSET indexed', batch' \cap docs = {},
         \A m \in ToSet(paths) \cap D : docs \cap buildDir[m] = {} /\ batch' \cap buildDir[m] = {}
  PROVE  /\ FilesFit' /\ FilesApart'
         /\ ToSet(paths) \subseteq D =>
              /\ ToSet(segPaths') \subseteq DOMAIN buildDir'
              /\ DocsIn(ToSet(segPaths'), buildDir') = DocsIn(ToSet(paths), buildDir) \cup docs
<1>1. PICK n \in Nat : n = SegCount /\ n \notin DOMAIN buildDir /\ n \notin ToSet(segPaths)
  BY NameIsNew
<1>2. n \notin D /\ n \notin ToSet(paths)
  BY <1>1
<1>3. buildDir' = [m \in D \cup {n} |-> IF m = n THEN docs ELSE buildDir[m]]
  BY <1>1
<1>4. /\ DOMAIN buildDir' = D \cup {n} /\ buildDir'[n] = docs
      /\ \A m \in D : buildDir'[m] = buildDir[m] /\ m # n
  BY <1>2, <1>3
<1>5. /\ segPaths' \in Seq(Nat) /\ IsInjective(segPaths')
      /\ ToSet(segPaths') = ToSet(paths) \cup {n}
  BY <1>1, <1>2, Appended
<1>6. FilesFit'
  <2>1. IsFiniteSet(D)
    BY FS_Subset DEF FilesFit
  <2>2. IsFiniteSet(D \cup {n})
    BY <2>1, FS_AddElement
  <2>3. buildDir' \in [D \cup {n} -> SUBSET indexed']
    BY <1>3, <1>4 DEF FilesFit
  <2> QED
    BY <2>2, <2>3, <1>4, <1>5 DEF FilesFit
<1>7. Listed' = (ToSet(paths) \cap D) \cup {n}
  BY <1>2, <1>4, <1>5 DEF Listed
<1>8. ToSet(paths) \cap D \subseteq Listed
  BY DEF Listed
<1>9. FilesApart'
  <2>1. ASSUME NEW m \in Listed', NEW l \in Listed', m # l
        PROVE  buildDir'[m] \cap buildDir'[l] = {}
    BY <2>1, <1>4, <1>7, <1>8 DEF FilesApart
  <2>2. ASSUME NEW m \in Listed' PROVE batch' \cap buildDir'[m] = {}
    BY <2>2, <1>4, <1>7
  <2> QED
    BY <2>1, <2>2 DEF FilesApart
<1>10. ASSUME ToSet(paths) \subseteq D
       PROVE  /\ ToSet(segPaths') \subseteq DOMAIN buildDir'
              /\ DocsIn(ToSet(segPaths'), buildDir') = DocsIn(ToSet(paths), buildDir) \cup docs
  <2>1. \A m \in ToSet(paths) : buildDir'[m] = buildDir[m]
    BY <1>10, <1>4
  <2>2. \A e : e \in DocsIn(ToSet(paths) \cup {n}, buildDir')
                <=> e \in DocsIn(ToSet(paths), buildDir) \/ e \in buildDir'[n]
    BY <2>1 DEF DocsIn
  <2>3. DocsIn(ToSet(paths) \cup {n}, buildDir') = DocsIn(ToSet(paths), buildDir) \cup docs
    BY <2>2, <1>4
  <2> QED
    BY <2>3, <1>10, <1>4, <1>5
<1> QED
  BY <1>6, <1>9, <1>10

\* Files come off the list or leave the directory.
LEMMA FilesRemoved ==
  ASSUME FilesFit, FilesApart,
         NEW D \in SUBSET Nat, NEW paths \in Seq(Nat), IsInjective(paths),
         D \subseteq DOMAIN buildDir, ToSet(paths) \subseteq ToSet(segPaths),
         segPaths' = paths, buildDir' = [n \in D |-> buildDir[n]],
         indexed \subseteq indexed', indexed' \in SUBSET Docs, batch' \in SUBSET indexed',
         \A n \in Listed : batch' \cap buildDir[n] = {}
  PROVE  FilesFit' /\ FilesApart'
<1>1. DOMAIN buildDir' = D /\ \A n \in D : buildDir'[n] = buildDir[n]
  OBVIOUS
<1>2. FilesFit'
  <2>1. IsFiniteSet(D)
    BY FS_Subset DEF FilesFit
  <2>2. buildDir' \in [D -> SUBSET indexed']
    BY DEF FilesFit
  <2> QED
    BY <2>1, <2>2, <1>1 DEF FilesFit
<1>3. Listed' \subseteq Listed /\ Listed' \subseteq D
  BY <1>1 DEF Listed
<1>4. FilesApart'
  BY <1>1, <1>3 DEF FilesApart
<1> QED
  BY <1>2, <1>4

\* A full batch becomes a file.
LEMMA SegmentAdded ==
  ASSUME FilesFit, FilesApart, NEW docs \in SUBSET Docs,
         buildDir' = WithFile(docs, buildDir), segPaths' = Append(segPaths, SegCount),
         indexed \subseteq indexed', indexed' \in SUBSET Docs, docs \subseteq indexed', batch' = {},
         docs \cap indexed \subseteq batch
  PROVE  /\ FilesFit' /\ FilesApart'
         /\ AllHeld => /\ ToSet(segPaths') \subseteq DOMAIN buildDir'
                       /\ DocsIn(ToSet(segPaths'), buildDir') = DocsIn(ToSet(segPaths), buildDir) \cup docs
<1>1. PICK D \in SUBSET Nat : D = DOMAIN buildDir
  BY DEF FilesFit
<1>3. PICK paths \in Seq(Nat) : paths = segPaths /\ IsInjective(paths)
  BY DEF FilesFit
<1>5. /\ buildDir' = [m \in D \cup {SegCount} |-> IF m = SegCount THEN docs ELSE buildDir[m]]
      /\ segPaths' = Append(paths, SegCount)
  BY <1>1, <1>3 DEF WithFile
<1>6. \A m \in ToSet(paths) \cap D : docs \cap buildDir[m] = {} /\ batch' \cap buildDir[m] = {}
  BY <1>1, <1>3 DEF FilesFit, FilesApart, Listed
<1>7. D \subseteq DOMAIN buildDir /\ ToSet(paths) \subseteq ToSet(segPaths)
  BY <1>1, <1>3
<1>8. batch' \in SUBSET indexed' /\ batch' \cap docs = {}
  OBVIOUS
<1>9. /\ FilesFit' /\ FilesApart'
      /\ ToSet(paths) \subseteq D =>
           /\ ToSet(segPaths') \subseteq DOMAIN buildDir'
           /\ DocsIn(ToSet(segPaths'), buildDir') = DocsIn(ToSet(paths), buildDir) \cup docs
  BY <1>3, <1>5, <1>6, <1>7, <1>8, FileAdded
<1> QED
  BY <1>1, <1>3, <1>9 DEF AllHeld

\* The files and the list stay as they are.
LEMMA FilesStay ==
  ASSUME FilesFit, FilesApart, UNCHANGED <<segPaths, buildDir>>,
         indexed \subseteq indexed', indexed' \in SUBSET Docs, batch' \in SUBSET indexed',
         \A n \in Listed : batch' \cap buildDir[n] = {}
  PROVE  FilesFit' /\ FilesApart'
<1>1. Listed' = Listed
  BY DEF Listed
<1>2. buildDir' \in [DOMAIN buildDir' -> SUBSET indexed']
  BY DEF FilesFit
<1> QED
  BY <1>1, <1>2 DEF FilesFit, FilesApart

LEMMA IndexKeepsBuilder ==
  ASSUME BuilderInv, NEW d \in Docs \ indexed, Index(d)
  PROVE  BuilderInv'
<1> DEFINE full == batch \cup {d}
<1>1. FilesFit /\ FilesApart /\ CloseFits /\ faults \in Nat
  BY DEF BuilderInv, CloseFits
<1>2. /\ builder = "open" /\ closed # "nil" /\ UNCHANGED <<store, builder, closed>>
      /\ indexed' = IF faults' = faults THEN indexed \cup {d} ELSE indexed
  BY DEF Index
<1>3. full \in SUBSET Docs /\ full \cap indexed \subseteq batch /\ batch \in SUBSET indexed
  BY <1>1 DEF FilesFit
<1>4. CASE batch' = {} /\ faults' = faults /\ buildDir' = WithFile(full, buildDir)
           /\ segPaths' = Append(segPaths, SegCount)
  <2>1. indexed' = indexed \cup {d} /\ indexed' \in SUBSET Docs /\ full \subseteq indexed'
    BY <1>1, <1>2, <1>3, <1>4 DEF FilesFit
  <2>2. PICK docs \in SUBSET Docs : docs = full
    BY <1>3
  <2> HIDE DEF full
  <2>3. /\ FilesFit' /\ FilesApart'
        /\ AllHeld => /\ ToSet(segPaths') \subseteq DOMAIN buildDir'
                      /\ DocsIn(ToSet(segPaths'), buildDir') = DocsIn(ToSet(segPaths), buildDir) \cup docs
    BY <1>1, <1>3, <1>4, <2>1, <2>2, SegmentAdded
  <2>4. AllHeld => AllHeld'
    BY <2>1, <2>2, <2>3, <1>4 DEF AllHeld, full
  <2> QED
    BY <2>3, <2>4, <1>1, <1>2, <1>4 DEF BuilderInv, CloseFits, NothingLost
<1>5. CASE batch' = {} /\ faults' = faults + 1 /\ UNCHANGED <<segPaths, buildDir>>
  <2>1. indexed' = indexed /\ faults' # 0 /\ faults' \in Nat
    BY <1>1, <1>2, <1>5
  <2>2. FilesFit' /\ FilesApart'
    BY <1>1, <1>5, <2>1, FilesStay DEF FilesFit
  <2> QED
    BY <2>1, <2>2, <1>1, <1>2 DEF BuilderInv, CloseFits
<1>6. CASE batch' = full /\ faults' = faults /\ UNCHANGED <<segPaths, buildDir>>
  <2>1. indexed' = indexed \cup {d} /\ indexed' \in SUBSET Docs /\ batch' \in SUBSET indexed'
    BY <1>1, <1>2, <1>3, <1>6 DEF FilesFit
  <2>2. \A n \in Listed : batch' \cap buildDir[n] = {}
    BY <1>1, <1>6 DEF Listed, FilesFit, FilesApart
  <2>3. FilesFit' /\ FilesApart'
    BY <1>1, <1>6, <2>1, <2>2, FilesStay
  <2>4. AllHeld => AllHeld'
    BY <2>1, <1>6 DEF AllHeld
  <2> QED
    BY <2>3, <2>4, <1>1, <1>2, <1>6 DEF BuilderInv, CloseFits, NothingLost
<1> QED
  BY <1>4, <1>5, <1>6 DEF Index, WriteSegment, Succeed, Fail

LEMMA FlushKeepsBuilder ==
  ASSUME BuilderInv, FlushPartialBatch
  PROVE  BuilderInv'
<1>1. FilesFit /\ FilesApart /\ CloseFits /\ faults \in Nat
  BY DEF BuilderInv, CloseFits
<1>2. /\ builder = "open" /\ closed # "nil" /\ UNCHANGED <<store, indexed>> /\ batch' = {}
      /\ IF faults' = faults THEN builder' = "merging" /\ UNCHANGED closed ELSE CloseFails
  BY DEF FlushPartialBatch
<1>3. batch \in SUBSET Docs /\ indexed \in SUBSET Docs /\ batch \in SUBSET indexed
  BY <1>1 DEF FilesFit
<1>4. CASE faults' = faults /\ batch = {} /\ UNCHANGED <<segPaths, buildDir>>
  <2>1. FilesFit' /\ FilesApart'
    BY <1>1, <1>2, <1>3, <1>4, FilesStay
  <2>2. AllHeld => AllHeld'
    BY <1>2, <1>4 DEF AllHeld
  <2> QED
    BY <2>1, <2>2, <1>1, <1>2, <1>4 DEF BuilderInv, CloseFits, NothingLost
<1>5. CASE faults' = faults /\ buildDir' = WithFile(batch, buildDir)
           /\ segPaths' = Append(segPaths, SegCount)
  <2>1. PICK docs \in SUBSET Docs : docs = batch
    BY <1>3
  <2>2. buildDir' = WithFile(docs, buildDir) /\ docs \subseteq indexed' /\ docs \cap indexed \subseteq batch
    BY <2>1, <1>2, <1>3, <1>5
  <2>3. /\ FilesFit' /\ FilesApart'
        /\ AllHeld => /\ ToSet(segPaths') \subseteq DOMAIN buildDir'
                      /\ DocsIn(ToSet(segPaths'), buildDir') = DocsIn(ToSet(segPaths), buildDir) \cup docs
    BY <1>1, <1>2, <1>3, <1>5, <2>2, SegmentAdded
  <2>4. AllHeld => AllHeld'
    BY <2>1, <2>3, <1>2 DEF AllHeld
  <2> QED
    BY <2>3, <2>4, <1>1, <1>2, <1>5 DEF BuilderInv, CloseFits, NothingLost
<1>6. CASE faults' = faults + 1 /\ UNCHANGED <<segPaths, buildDir>>
  <2>1. faults' # faults /\ faults' # 0 /\ faults' \in Nat /\ builder' = "open" /\ closed' = "error"
    BY <1>1, <1>2, <1>6 DEF CloseFails
  <2>2. FilesFit' /\ FilesApart'
    BY <1>1, <1>2, <1>3, <1>6, FilesStay
  <2> QED
    BY <2>1, <2>2, <1>1, <1>2 DEF BuilderInv, CloseFits
<1> QED
  BY <1>4, <1>5, <1>6 DEF FlushPartialBatch, WriteSegment, Succeed, Fail

\* Files hold what was accepted, and so does a merge of them.
LEMMA MergedFitIn ==
  ASSUME FilesFit, MergedFiles \subseteq DOMAIN buildDir
  PROVE  MergedDocs \in SUBSET indexed /\ MergedDocs \in SUBSET Docs
<1>1. \A n \in MergedFiles : buildDir[n] \in SUBSET indexed
  BY DEF FilesFit
<1> HIDE DEF MergedFiles
<1>2. MergedDocs \subseteq indexed
  BY <1>1 DEF MergedDocs
<1> QED
  BY <1>2 DEF FilesFit

LEMMA MergeKeepsBuilder ==
  ASSUME BuilderAssumption, BuilderInv, MergeSegments
  PROVE  BuilderInv'
<1>1. FilesFit /\ FilesApart /\ CloseFits /\ faults \in Nat /\ MergeMax \in Nat
  BY DEF BuilderInv, CloseFits, BuilderAssumption
<1>2. /\ builder = "merging" /\ MergedFiles \subseteq DOMAIN buildDir /\ faults' = faults
      /\ UNCHANGED <<batch, store, builder, indexed, closed>>
  BY DEF MergeSegments, Succeed
<1>3. PICK paths \in Seq(Nat) : paths = Rest /\ IsInjective(paths)
  BY <1>1, ListParts
<1>4. /\ ToSet(segPaths) = MergedFiles \cup ToSet(paths)
      /\ MergedFiles \cap ToSet(paths) = {}
  BY <1>1, <1>3, ListParts
<1>5. PICK D \in SUBSET Nat : D = DOMAIN buildDir \ MergedFiles
  BY <1>1 DEF FilesFit
<1>6. MergedDocs \in SUBSET indexed /\ MergedDocs \in SUBSET Docs
  BY <1>1, <1>2, MergedFitIn
<1>7. PICK docs \in SUBSET Docs : docs = MergedDocs
  BY <1>6
<1>8. D \subseteq DOMAIN buildDir /\ docs \subseteq indexed
  BY <1>5, <1>6, <1>7
<1>9. /\ buildDir' = [m \in D \cup {SegCount} |-> IF m = SegCount THEN docs ELSE buildDir[m]]
      /\ segPaths' = Append(paths, SegCount)
  <2>1. buildDir' = WithFile(docs, [m \in D |-> buildDir[m]])
    BY <1>5, <1>7 DEF MergeSegments
  <2> QED
    BY <2>1, <1>3 DEF WithFile, MergeSegments
<1>10. MergedFiles \subseteq Listed /\ ToSet(paths) \cap D \subseteq Listed
  BY <1>2, <1>4, <1>8 DEF Listed
<1>11. \A m \in ToSet(paths) \cap D : docs \cap buildDir[m] = {} /\ batch' \cap buildDir[m] = {}
  BY <1>2, <1>4, <1>7, <1>10, <1>1 DEF FilesApart, MergedDocs
<1>12. batch' \cap docs = {}
  BY <1>1, <1>2, <1>7, <1>10 DEF FilesApart, MergedDocs
<1>13. /\ indexed' = indexed /\ indexed' \in SUBSET Docs /\ batch' \in SUBSET indexed'
  BY <1>1, <1>2 DEF FilesFit
<1>14. /\ FilesFit' /\ FilesApart'
       /\ ToSet(paths) \subseteq D =>
            /\ ToSet(segPaths') \subseteq DOMAIN buildDir'
            /\ DocsIn(ToSet(segPaths'), buildDir') = DocsIn(ToSet(paths), buildDir) \cup docs
  BY <1>1, <1>3, <1>4, <1>7, <1>8, <1>9, <1>11, <1>12, <1>13, FileAdded
<1>15. AllHeld => AllHeld'
  <2>1. SUFFICES ASSUME AllHeld PROVE AllHeld'
    OBVIOUS
  <2>2. ToSet(paths) \subseteq D
    BY <2>1, <1>4, <1>5 DEF AllHeld
  <2>3. DocsIn(ToSet(segPaths), buildDir) = DocsIn(ToSet(paths), buildDir) \cup docs
    BY <1>4, <1>7 DEF DocsIn, MergedDocs
  <2> QED
    BY <2>1, <2>2, <2>3, <1>2, <1>14 DEF AllHeld
<1> QED
  BY <1>1, <1>2, <1>14, <1>15 DEF BuilderInv, CloseFits, NothingLost

LEMMA MergeFailsKeepsBuilder ==
  ASSUME BuilderAssumption, BuilderInv, MergeSegmentsFails
  PROVE  BuilderInv'
<1>1. /\ FilesFit /\ FilesApart /\ CloseFits /\ faults \in Nat /\ MergeMax \in Nat
      /\ faults = 0 => NothingLost
  BY DEF BuilderInv, CloseFits, BuilderAssumption
<1>2. /\ builder = "merging" /\ builder' = "open" /\ closed' = "error" /\ UNCHANGED <<batch, store, indexed>>
      /\ IF MergedFiles \subseteq DOMAIN buildDir THEN faults' = faults + 1 ELSE faults' = faults
  BY DEF MergeSegmentsFails, CloseFails, Succeed, Fail
<1>3. PICK paths \in Seq(Nat) : paths = Rest /\ IsInjective(paths)
  BY <1>1, ListParts
<1>4. /\ ToSet(segPaths) = MergedFiles \cup ToSet(paths)
      /\ MergedFiles \cap ToSet(paths) = {}
  BY <1>1, <1>3, ListParts
<1>5. indexed' = indexed /\ indexed' \in SUBSET Docs /\ batch' \in SUBSET indexed' /\ batch' = batch
  BY <1>1, <1>2 DEF FilesFit
<1>6. PICK D \in SUBSET Nat : D = DOMAIN buildDir
  BY <1>1 DEF FilesFit
<1>7. FilesFit' /\ FilesApart'
  <2>1. CASE segPaths' = Rest /\ UNCHANGED buildDir
    <3>1. buildDir' = [n \in D |-> buildDir[n]] /\ D \subseteq DOMAIN buildDir
      BY <2>1, <1>1, <1>6 DEF FilesFit
    <3>2. \A n \in Listed : batch' \cap buildDir[n] = {}
      BY <1>1, <1>5 DEF FilesApart
    <3>3. segPaths' = paths /\ ToSet(paths) \subseteq ToSet(segPaths)
      BY <2>1, <1>3, <1>4
    <3> QED
      BY <3>1, <3>2, <3>3, <1>1, <1>3, <1>5, FilesRemoved
  <2>2. CASE /\ MergedFiles \subseteq DOMAIN buildDir
             /\ segPaths' = Append(Rest, SegCount) /\ buildDir' = WithFile(MergedDocs, buildDir)
    <3>1. MergedDocs \in SUBSET indexed /\ MergedDocs \in SUBSET Docs
      BY <2>2, <1>1, MergedFitIn
    <3>2. PICK docs \in SUBSET Docs : docs = MergedDocs
      BY <3>1
    <3>3. D \subseteq DOMAIN buildDir /\ docs \subseteq indexed
      BY <1>6, <3>1, <3>2
    <3>4. /\ buildDir' = [m \in D \cup {SegCount} |-> IF m = SegCount THEN docs ELSE buildDir[m]]
          /\ segPaths' = Append(paths, SegCount)
      BY <2>2, <3>2, <1>3, <1>6 DEF WithFile
    <3>5. MergedFiles \subseteq Listed /\ ToSet(paths) \cap D \subseteq Listed
      BY <2>2, <1>4, <3>3 DEF Listed
    <3>6. \A m \in ToSet(paths) \cap D : docs \cap buildDir[m] = {} /\ batch' \cap buildDir[m] = {}
      BY <1>1, <1>4, <1>5, <3>2, <3>5 DEF FilesApart, MergedDocs
    <3>7. batch' \cap docs = {}
      BY <1>1, <1>5, <3>2, <3>5 DEF FilesApart, MergedDocs
    <3> QED
      BY <1>1, <1>3, <1>4, <1>5, <3>2, <3>3, <3>4, <3>6, <3>7, FileAdded
  <2> QED
    BY <2>1, <2>2 DEF MergeSegmentsFails
<1>8. faults' \in Nat /\ faults' # 0
  <2>1. CASE MergedFiles \subseteq DOMAIN buildDir
    BY <2>1, <1>1, <1>2
  <2>2. CASE ~(MergedFiles \subseteq DOMAIN buildDir)
    <3>1. ~AllHeld
      BY <2>2, <1>4 DEF AllHeld
    <3>2. faults # 0
      BY <3>1, <1>1, <1>2 DEF NothingLost, CloseFits
    <3> QED
      BY <3>2, <2>2, <1>1, <1>2
  <2> QED
    BY <2>1, <2>2
<1> QED
  BY <1>1, <1>2, <1>7, <1>8 DEF BuilderInv, CloseFits

LEMMA MoveKeepsBuilder ==
  ASSUME BuilderInv, MoveFinalSegment
  PROVE  BuilderInv'
<1>1. /\ FilesFit /\ FilesApart /\ CloseFits /\ faults \in Nat
      /\ faults = 0 => NothingLost
  BY DEF BuilderInv, CloseFits
<1>2. builder = "merging" /\ Len(segPaths) = 1 /\ UNCHANGED <<batch, segPaths, indexed>>
  BY DEF MoveFinalSegment
<1>3. indexed' = indexed /\ indexed' \in SUBSET Docs /\ batch' \in SUBSET indexed' /\ batch' = batch
  BY <1>1, <1>2 DEF FilesFit
<1>4. ToSet(segPaths) = {segPaths[1]}
  BY <1>1, <1>2 DEF FilesFit, ToSet
<1>5. \A n \in Listed : batch' \cap buildDir[n] = {}
  BY <1>1, <1>3 DEF FilesApart
<1>6. CASE /\ segPaths[1] \in DOMAIN buildDir /\ faults' = faults
           /\ store' = [segment |-> buildDir[segPaths[1]], bolt |-> FALSE]
           /\ buildDir' = [n \in {} |-> {}] /\ builder' = "recording" /\ UNCHANGED closed
  <2>1. PICK paths \in Seq(Nat) : paths = segPaths /\ IsInjective(paths)
    BY <1>1 DEF FilesFit
  <2>2. PICK D \in SUBSET Nat : D = {}
    OBVIOUS
  <2>3. buildDir' = [n \in D |-> buildDir[n]] /\ D \subseteq DOMAIN buildDir /\ segPaths' = paths
        /\ ToSet(paths) \subseteq ToSet(segPaths)
    BY <2>1, <2>2, <1>2, <1>6
  <2>4. FilesFit' /\ FilesApart'
    BY <2>1, <2>3, <1>1, <1>3, <1>5, FilesRemoved
  <2>5. store' \in [segment : SUBSET Docs, bolt : BOOLEAN] /\ store'.segment = buildDir[segPaths[1]]
    BY <1>1, <1>6 DEF FilesFit
  <2>6. faults = 0 => store'.segment = indexed' /\ closed = ""
    <3>1. SUFFICES ASSUME faults = 0 PROVE store'.segment = indexed' /\ closed = ""
      OBVIOUS
    <3>2. closed = "" /\ AllHeld /\ batch = {}
      BY <3>1, <1>1, <1>2 DEF NothingLost
    <3>3. indexed = DocsIn({segPaths[1]}, buildDir)
      BY <3>2, <1>4 DEF AllHeld
    <3>4. indexed = buildDir[segPaths[1]]
      BY <3>3 DEF DocsIn
    <3> QED
      BY <3>2, <3>4, <2>5, <1>3
  <2> QED
    BY <2>4, <2>5, <2>6, <1>1, <1>6 DEF BuilderInv, CloseFits, NothingLost
<1>7. CASE UNCHANGED <<store, buildDir>> /\ CloseFails
           /\ (faults' = faults + 1 \/ (segPaths[1] \notin DOMAIN buildDir /\ faults' = faults))
  <2>1. FilesFit' /\ FilesApart'
    BY <1>1, <1>2, <1>3, <1>5, <1>7, FilesStay
  <2>2. faults' \in Nat /\ faults' # 0
    <3>1. CASE faults' = faults + 1
      BY <3>1, <1>1
    <3>2. CASE segPaths[1] \notin DOMAIN buildDir /\ faults' = faults
      BY <3>2, <1>1, <1>2, <1>4 DEF NothingLost, AllHeld, CloseFits
    <3> QED
      BY <3>1, <3>2, <1>7
  <2> QED
    BY <2>1, <2>2, <1>1, <1>7 DEF BuilderInv, CloseFits, CloseFails
<1>8. \/ /\ segPaths[1] \in DOMAIN buildDir /\ Succeed
         /\ store' = [segment |-> buildDir[segPaths[1]], bolt |-> FALSE]
         /\ buildDir' = [n \in {} |-> {}]
         /\ builder' = "recording" /\ UNCHANGED closed
      \/ /\ segPaths[1] \in DOMAIN buildDir /\ Fail
         /\ CloseFails /\ UNCHANGED <<store, buildDir>>
      \/ /\ segPaths[1] \notin DOMAIN buildDir /\ Succeed
         /\ CloseFails /\ UNCHANGED <<store, buildDir>>
  BY DEF MoveFinalSegment
<1>9. CASE segPaths[1] \in DOMAIN buildDir /\ Fail /\ CloseFails /\ UNCHANGED <<store, buildDir>>
  <2>1. faults' = faults + 1
    BY <1>9 DEF Fail
  <2> QED
    BY <2>1, <1>7, <1>9
<1>10. CASE segPaths[1] \notin DOMAIN buildDir /\ Succeed /\ CloseFails /\ UNCHANGED <<store, buildDir>>
  BY <1>7, <1>10 DEF Succeed
<1>11. CASE /\ segPaths[1] \in DOMAIN buildDir /\ Succeed
            /\ store' = [segment |-> buildDir[segPaths[1]], bolt |-> FALSE]
            /\ buildDir' = [n \in {} |-> {}] /\ builder' = "recording" /\ UNCHANGED closed
  BY <1>6, <1>11 DEF Succeed
<1> QED
  BY <1>8, <1>9, <1>10, <1>11

LEMMA RecordKeepsBuilder ==
  ASSUME BuilderInv, ClosePanics \/ WriteRootBolt \/ UNCHANGED builderVars
  PROVE  BuilderInv'
<1>1. /\ FilesFit /\ FilesApart /\ CloseFits /\ faults \in Nat
      /\ faults = 0 => NothingLost
  BY DEF BuilderInv, CloseFits
<1>2. UNCHANGED <<batch, segPaths, buildDir, indexed>>
  BY DEF ClosePanics, WriteRootBolt, builderVars
<1>3. FilesFit' /\ FilesApart' /\ (AllHeld => AllHeld')
  BY <1>1, <1>2 DEF FilesFit, FilesApart, Listed, AllHeld
<1>4. CASE WriteRootBolt
  <2>1. CASE faults' = faults /\ store' = [store EXCEPT !.bolt = TRUE] /\ closed' = "nil" /\ builder' = "open"
    <3>1. store' \in [segment : SUBSET Docs, bolt : BOOLEAN] /\ store'.bolt /\ store'.segment = store.segment
      BY <2>1, <1>1 DEF CloseFits
    <3>2. builder = "recording"
      BY <1>4 DEF WriteRootBolt
    <3> QED
      BY <2>1, <3>1, <3>2, <1>1, <1>2, <1>3 DEF BuilderInv, CloseFits, NothingLost
  <2>2. CASE faults' = faults + 1 /\ CloseFails /\ UNCHANGED store
    <3>1. faults' \in Nat /\ faults' # 0
      BY <2>2, <1>1
    <3> QED
      BY <2>2, <3>1, <1>1, <1>3 DEF BuilderInv, CloseFits, CloseFails
  <2> QED
    BY <2>1, <2>2, <1>4 DEF WriteRootBolt, Succeed, Fail
<1>5. CASE ClosePanics
  BY <1>1, <1>2, <1>3, <1>5 DEF ClosePanics, BuilderInv, CloseFits, NothingLost
<1>6. CASE UNCHANGED builderVars
  BY <1>1, <1>2, <1>3, <1>6 DEF builderVars, BuilderInv, CloseFits, NothingLost
<1> QED
  BY <1>4, <1>5, <1>6

LEMMA BuilderHoldsAtFirst ==
  ASSUME BuilderInit
  PROVE  BuilderInv
<1>1. /\ batch = {} /\ indexed = {} /\ segPaths = <<>> /\ buildDir = [n \in {} |-> {}]
      /\ store = [segment |-> {}, bolt |-> FALSE] /\ builder = "open" /\ closed = "" /\ faults = 0
  BY DEF BuilderInit
<1>2. DOMAIN buildDir = {} /\ IsFiniteSet(DOMAIN buildDir)
  BY <1>1, FS_EmptySet
<1>3. buildDir \in [DOMAIN buildDir -> SUBSET indexed]
  BY <1>1
<1>6. segPaths \in Seq(Nat) /\ Len(segPaths) = 0
  <2>1. << >> \in Seq(Nat) /\ Len(<< >>) = 0
    OBVIOUS
  <2> QED
    BY <2>1, <1>1
<1>7. DOMAIN segPaths = {}
  BY <1>6
<1>8. IsInjective(segPaths) /\ ToSet(segPaths) = {}
  BY <1>7 DEF IsInjective, ToSet
<1>4. FilesFit /\ FilesApart /\ AllHeld
  BY <1>1, <1>2, <1>3, <1>6, <1>8 DEF FilesFit, FilesApart, Listed, AllHeld, DocsIn
<1>5. CloseFits
  BY <1>1 DEF CloseFits
<1> QED
  BY <1>1, <1>4, <1>5 DEF BuilderInv, NothingLost

\* The files to be merged have no document in common, in every reachable state;
\* and as long as nothing has failed, they and the batch have every document
\* that was accepted: for any documents, sizes of batches and of merges, and
\* faults on disk.
THEOREM BuilderInvariant ==
  ASSUME BuilderAssumption
  PROVE  BuilderSpec => []BuilderInv
<1>1. BuilderInit => BuilderInv
  BY BuilderHoldsAtFirst
<1>2. BuilderInv /\ [BuilderNext]_builderVars => BuilderInv'
  BY IndexKeepsBuilder, FlushKeepsBuilder, MergeKeepsBuilder, MergeFailsKeepsBuilder,
     MoveKeepsBuilder, RecordKeepsBuilder DEF BuilderNext, CloseStep
<1> QED
  BY <1>1, <1>2, PTL DEF BuilderSpec

\* builder.go: Close returns nil for an index with every document that was
\* accepted, unless a step on disk has failed; and whatever has failed, no
\* document is merged twice.
THEOREM BuilderAlwaysRight ==
  ASSUME BuilderAssumption
  PROVE  BuilderSpec => []BuiltRight
<1>1. BuilderInv => BuiltRight
  <2>1. SUFFICES ASSUME BuilderInv PROVE BuiltRight
    OBVIOUS
  <2>2. faults = 0 => BuiltComplete
    BY <2>1 DEF BuilderInv, NothingLost, BuiltComplete
  <2>3. \A i \in DOMAIN segPaths : segPaths[i] \in DOMAIN buildDir => segPaths[i] \in Listed
    BY DEF Listed, ToSet
  <2>4. \A i, j \in DOMAIN segPaths : i # j => segPaths[i] # segPaths[j]
    BY <2>1 DEF BuilderInv, FilesFit, IsInjective
  <2>5. ListedOnce
    BY <2>1, <2>3, <2>4 DEF ListedOnce, BuilderInv, FilesApart
  <2> QED
    BY <2>2, <2>5 DEF BuiltRight
<1> QED
  BY <1>1, BuilderInvariant, PTL
============================================================================
