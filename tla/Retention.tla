----------------------------- MODULE Retention -----------------------------
(***************************************************************************)
(* Which snapshots root.bolt keeps: numSnapshotsToKeep of them, apart by   *)
(* rollbackSamplingInterval when that is set.  The persister commits a     *)
(* snapshot with the time of day and purges between two waits; a snapshot  *)
(* becomes eligible for removal at any time after the root has moved past  *)
(* it; the clock and crashes do as they like.                              *)
(***************************************************************************)
EXTENDS Integers, FiniteSets, FiniteSetsExt, SequencesExt

CONSTANTS NumSnapshotsToKeep,
          RollbackSamplingInterval,  \* in ticks of the clock, 0: none
          RetentionNum, RetentionDen,  \* rollbackRetentionFactor, a fraction below 1
          TickLength,    \* the clock's step, in the same unit
          PurgeMayFail,  \* may the transaction of a purge fail
          MaxEpoch,      \* bound: roots
          MaxTime,       \* bound: the clock
          MaxRestarts    \* bound: crashes

\* What is assumed of the constants.
RetentionAssumption ==
  /\ NumSnapshotsToKeep \in Nat \ {0} /\ RetentionDen \in Nat \ {0}
  /\ {RollbackSamplingInterval, TickLength, RetentionNum} \subseteq Nat
  /\ {MaxEpoch, MaxTime, MaxRestarts} \subseteq Nat
  /\ RetentionNum < RetentionDen /\ PurgeMayFail \in BOOLEAN

VARIABLES bolt,         \* epoch -> the time its snapshot was committed
          checkPoints,  \* snapshotMetaData, newest first
          eligible,     \* eligibleForRemoval
          inUse,        \* epochs of the snapshots that have not been released
          root,         \* epoch of the root
          persister,    \* pc, the epoch it is persisting and the last it has
          now, restarts

vars == <<bolt, checkPoints, eligible, inUse, root, persister, now, restarts>>

Snapshot(epoch, timeStamp) == [epoch |-> epoch, timeStamp |-> timeStamp]

\* The time an unset timeStamp has.
ZeroTime == 0

\* Mutant.
OldestFirst(epochs) == SetToSortSeq(epochs, LAMBDA e, f : e < f)

NewestFirst(epochs) == SetToSortSeq(epochs, LAMBDA e, f : e > f)

---------------------------------------------------------------------------
(* The policy *)

\* getTimeSeriesSnapshots: from the oldest of snaps to newer ones, the last
\* that is not more than interval after the point before.
GetTimeSeriesSnapshots(maxDataPoints, interval, snaps) ==
  LET Point(series, i) ==
        LET gap == snaps[i].timeStamp - snaps[series.ptr].timeStamp
            next == IF gap > interval THEN i + 1 ELSE i
        IN  IF \/ series.full \/ gap < interval \/ snaps[next] \in series.points
            THEN series
            ELSE [ptr |-> next, points |-> series.points \cup {snaps[next]}, full |-> FALSE]
      \* The loop ends after the iteration that makes it full.
      Next(series, i) ==
        LET s == Point(series, i)
        IN  [s EXCEPT !.full = Cardinality(s.points) >= maxDataPoints]
      oldest == Len(snaps)
  IN  IF interval = 0 THEN [ptr |-> oldest + 1, points |-> {}]
      ELSE FoldLeft(Next, [ptr |-> oldest, points |-> {snaps[oldest]}, full |-> FALSE],
                    [i \in 1 .. oldest - 1 |-> oldest - i])

\* getProtectedSnapshots: the series, and the newest ones to make up the number.
\* Without an interval the last point is past the end of the list.
GetProtectedSnapshots(snaps) ==
  LET series == GetTimeSeriesSnapshots(NumSnapshotsToKeep - 1, RollbackSamplingInterval, snaps)
      needed == NumSnapshotsToKeep - Cardinality(series.points)
  IN  series.points \cup {snaps[i] : i \in {j \in 1 .. Len(snaps) : j <= needed /\ j < series.ptr}}

\* newCheckPoints
NewCheckPoints(snaps) == SetToSortSeq(snaps, LAMBDA a, b : a.timeStamp > b.timeStamp)

\* getBoundaryCheckPoint
GetBoundaryCheckPoint(timeStamp) ==
  LET boundary == checkPoints[((Len(checkPoints) * RetentionNum) \div RetentionDen) + 1].timeStamp
  IN  IF checkPoints # <<>> /\ timeStamp > boundary THEN boundary ELSE timeStamp

\* rootBoltSnapshotMetaData: the snapshots that have not expired.  The first
\* that has extends the duration to the boundary for those after it and is
\* left out itself; deleting the others fails in the read-only transaction.
RootBoltSnapshotMetaData(keep, interval) ==
  LET duration == (keep - 1) * interval
      epochs == NewestFirst(DOMAIN bolt)
      Next(acc, e) ==
        CASE now - bolt[e] <= acc.duration ->
               [acc EXCEPT !.snaps = Append(@, Snapshot(e, bolt[e]))]
          [] now - bolt[e] > acc.duration /\ ~acc.found ->
               [acc EXCEPT !.found = TRUE, !.duration = now - GetBoundaryCheckPoint(bolt[e])]
          [] OTHER -> acc
  IN  IF duration = 0 THEN [i \in DOMAIN epochs |-> Snapshot(epochs[i], ZeroTime)]
      ELSE FoldLeft(Next, [snaps |-> <<>>, duration |-> duration, found |-> FALSE], epochs).snaps

---------------------------------------------------------------------------
(* Roots come and go *)

Introduce ==
  /\ root < MaxEpoch
  /\ root' = root + 1 /\ inUse' = inUse \cup {root + 1}
  /\ UNCHANGED <<bolt, checkPoints, eligible, persister, now, restarts>>

\* The last reference to a snapshot is gone: AddEligibleForRemoval.
Release(e) ==
  /\ e # root /\ ~(persister.pc = "persist" /\ persister.epoch = e)
  /\ inUse' = inUse \ {e} /\ eligible' = eligible \cup {e}
  /\ UNCHANGED <<bolt, checkPoints, root, persister, now, restarts>>

Tick ==
  /\ now < MaxTime /\ now' = now + TickLength
  /\ UNCHANGED <<bolt, checkPoints, eligible, inUse, root, persister, restarts>>

---------------------------------------------------------------------------
(* The persister.  pc: "loop", "persist" the snapshot of epoch, "purge".    *)

PersisterLoops ==
  /\ persister.pc = "loop"
  /\ persister' = IF root > persister.last
                  THEN [persister EXCEPT !.pc = "persist", !.epoch = root]
                  ELSE [persister EXCEPT !.pc = "purge"]
  /\ UNCHANGED <<bolt, checkPoints, eligible, inUse, root, now, restarts>>

\* It goes on to the purge unless the root has moved meanwhile.
Commit ==
  /\ persister.pc = "persist"
  /\ bolt' = [e \in DOMAIN bolt \cup {persister.epoch} |->
                IF e = persister.epoch THEN now ELSE bolt[e]]
  /\ persister' = [pc |-> IF root # persister.epoch THEN "loop" ELSE "purge",
                   epoch |-> 0, last |-> persister.epoch]
  /\ UNCHANGED <<checkPoints, eligible, inUse, root, now, restarts>>

\* removeOldBoltSnapshots.  What is to be removed leaves eligibleForRemoval
\* before the transaction, which may fail.
Purge ==
  LET snaps == RootBoltSnapshotMetaData(NumSnapshotsToKeep, RollbackSamplingInterval)
      protected == GetProtectedSnapshots(snaps)
      kept == {s.epoch : s \in protected}
  IN  /\ persister.pc = "purge"
      /\ persister' = [persister EXCEPT !.pc = "loop"]
      /\ IF Len(snaps) <= NumSnapshotsToKeep
         THEN UNCHANGED <<bolt, checkPoints, eligible>>
         ELSE /\ eligible' = eligible \cap kept
              /\ checkPoints' = NewCheckPoints(protected)
              /\ \/ bolt' = [e \in DOMAIN bolt \ (eligible \ kept) |-> bolt[e]]
                 \/ PurgeMayFail /\ bolt' = bolt
      /\ UNCHANGED <<inUse, root, now, restarts>>

---------------------------------------------------------------------------
(* A crash, and loadFromBolt: the newest snapshot is the root, the others   *)
(* are eligible.  The list of checkpoints is made before numSnapshotsToKeep *)
(* and rollbackSamplingInterval are read from the configuration.            *)

Restart ==
  LET newest == Max(DOMAIN bolt \cup {0})
  IN  /\ restarts < MaxRestarts /\ restarts' = restarts + 1
      /\ root' = newest /\ inUse' = {newest}
      /\ eligible' = DOMAIN bolt \ {newest}
      /\ checkPoints' = RootBoltSnapshotMetaData(0, 0)
      /\ persister' = [pc |-> "loop", epoch |-> 0, last |-> 0]
      /\ UNCHANGED <<bolt, now>>

---------------------------------------------------------------------------

Init ==
  /\ bolt = <<>> /\ checkPoints = <<>> /\ eligible = {} /\ inUse = {0} /\ root = 0
  /\ persister = [pc |-> "loop", epoch |-> 0, last |-> 0]
  /\ now = 1 /\ restarts = 0

Next == \/ Introduce \/ Tick \/ PersisterLoops \/ Commit \/ Purge \/ Restart
        \/ \E e \in inUse : Release(e)

Spec == Init /\ [][Next]_vars

---------------------------------------------------------------------------
(* Properties *)

\* The type invariant.
TypeOK ==
  /\ DOMAIN bolt \subseteq 0 .. root /\ \A e \in DOMAIN bolt : bolt[e] \in 1 .. now
  /\ root \in inUse /\ inUse \cap eligible = {}
  /\ \A i \in DOMAIN checkPoints :
       checkPoints[i] \in [epoch : 1 .. MaxEpoch, timeStamp : 0 .. now]
  /\ persister.pc \in {"loop", "persist", "purge"}

Kept(n) == {e \in DOMAIN bolt : Cardinality({f \in DOMAIN bolt : f > e}) < n}

\* The very latest snapshot in root.bolt is never removed, whoever has released
\* it: it is what a crash falls back to (getProtectedSnapshots).
LatestKept == [][Kept(1) \subseteq Kept(1)' \/ Max(DOMAIN bolt') > Max(DOMAIN bolt)]_vars

\* A purge leaves as many rollback points as are to be kept, if there are as
\* many (numSnapshotsToKeep).
KeepsEnough ==
  Cardinality(DOMAIN bolt') >= Min({NumSnapshotsToKeep, Cardinality(DOMAIN bolt)})

\* Without a sampling interval the newest snapshots are kept, without a gap.
KeepsNewest == Kept(NumSnapshotsToKeep) \subseteq DOMAIN bolt'

\* The checkpoints, from which the boundary is taken, are snapshots that exist.
CheckPointsExist == \A i \in DOMAIN checkPoints : checkPoints[i].epoch \in DOMAIN bolt

\* A snapshot that nobody uses is in eligibleForRemoval until it is removed:
\* otherwise its files stay on disk for ever.
ReleasedRemembered == DOMAIN bolt \subseteq inUse \cup eligible

\* After a purge no more than numSnapshotsToKeep snapshots are there that
\* nobody uses.
LeavesLittle ==
  persister.pc = "purge" /\ persister'.pc = "loop" /\ ~PurgeMayFail /\ restarts' = restarts
    => Cardinality(DOMAIN bolt' \ inUse) <= NumSnapshotsToKeep
=============================================================================
