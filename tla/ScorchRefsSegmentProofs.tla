---------------------- MODULE ScorchRefsSegmentProofs ----------------------
(***************************************************************************)
(* Segments are counted exactly, what is held is open and what nothing     *)
(* refers to is closed: the proofs, for any number of writers, readers,    *)
(* snapshots and segments.                                                 *)
(*                                                                         *)
(* A segment has one owner, a batch, the persister or the merger, until a  *)
(* snapshot takes it over (Apart).  Excess is how many more sharers and    *)
(* owners a segment has than its count says.  No step makes it positive    *)
(* unless a batch that somebody waits for fails or the persister closes    *)
(* files that are being introduced, and none makes it negative unless      *)
(* several workers merge and only some of their segments are kept: every   *)
(* other step moves the count and the users of a segment together.         *)
(***************************************************************************)
EXTENDS ScorchRefsProofs

---------------------------------------------------------------------------
(* Every segment: sharers, owners and counts *)

\* What a step has to show: the invariant of the segments after it, and that
\* nothing closed is taken up again.
Preserved == SegInv' /\ (~BatchesFail => StaysClosed)

\* What is held has references.
LEMMA HeldHasRefs ==
  ASSUME RefsAssumption, Inv, NEW s \in 1 .. Len(snapshots)
  PROVE  /\ \/ root = s \/ introducer.old = s \/ introducer.new = s
            \/ persister.snap = s \/ persister.new = s \/ merger.snap = s \/ merger.new = s
            \/ \E w \in Writer : writers[w].snap = s
            \/ \E r \in Reader : readers[r] = s
            => snapshots[s].refs > 0
         /\ persister.snap = s => snapshots[s].refs > One(persister.new = s)
         /\ snapshots[s].refs \in Int
<1>1. snapshots[s].refs = Holders(s) /\ snapshots[s].refs \in Int
  BY StateTyped DEF Inv, SnapshotCounts, ASnapshot
<1>2. Holders(s) = ByRoot(s) + HoldingWriters(s) + HoldingReaders(s) + ByIntroducer(s)
                     + ByPersister(s) + ByMerger(s)
  BY HoldersAre
<1>3. /\ ByRoot(s) \in Nat /\ HoldingWriters(s) \in Nat /\ HoldingReaders(s) \in Nat
      /\ ByIntroducer(s) \in Nat /\ ByPersister(s) \in Nat /\ ByMerger(s) \in Nat
  BY PartsType
<1>4. \/ ByRoot(s) > 0 \/ HoldingWriters(s) > 0 \/ HoldingReaders(s) > 0
      \/ ByIntroducer(s) > 0 \/ ByPersister(s) > 0 \/ ByMerger(s) > 0
      => snapshots[s].refs > 0
  BY <1>1, <1>2, <1>3
<1>5. snapshots[s].refs >= ByPersister(s)
  BY <1>1, <1>2, <1>3
<1>6. /\ root = s => ByRoot(s) > 0
      /\ introducer.old = s \/ introducer.new = s => ByIntroducer(s) > 0
      /\ persister.snap = s \/ persister.new = s => ByPersister(s) > 0
      /\ merger.snap = s \/ merger.new = s => ByMerger(s) > 0
      /\ persister.snap = s => ByPersister(s) > One(persister.new = s)
  BY DEF ByRoot, ByIntroducer, ByPersister, ByMerger, One
<1>7. ASSUME NEW w \in Writer, writers[w].snap = s PROVE HoldingWriters(s) > 0
  <2> DEFINE S == {v \in Writer : writers[v].snap = s}
  <2>1. IsFiniteSet(S) /\ S # {}
    BY <1>7, FS_Subset DEF RefsAssumption
  <2> HIDE DEF S
  <2>2. Cardinality(S) # 0
    BY <2>1, FS_EmptySet
  <2> QED
    BY <1>3, <2>2 DEF S, HoldingWriters
<1>8. ASSUME NEW r \in Reader, readers[r] = s PROVE HoldingReaders(s) > 0
  <2> DEFINE S == {v \in Reader : readers[v] = s}
  <2>1. IsFiniteSet(S) /\ S # {}
    BY <1>8, FS_Subset DEF RefsAssumption
  <2> HIDE DEF S
  <2>2. Cardinality(S) # 0
    BY <2>1, FS_EmptySet
  <2> QED
    BY <1>3, <2>2 DEF S, HoldingReaders
<1>9. persister.snap = s => snapshots[s].refs > One(persister.new = s)
  <2>1. One(persister.new = s) \in Int
    BY DEF One
  <2> QED
    BY <1>1, <1>3, <1>5, <1>6, <2>1
<1> QED
  BY <1>1, <1>4, <1>6, <1>7, <1>8, <1>9

\* How many batches have a segment for themselves.
Introducing(o) == Cardinality({w \in Writer : OfWriter(w, o)})

LEMMA OwnersAre ==
  ASSUME RefsAssumption, NEW o
  PROVE  /\ Owners(o) = Introducing(o) + One(OfPersister(o)) + One(OfMerger(o))
         /\ Owners(o)' = Introducing(o)' + One(OfPersister(o)') + One(OfMerger(o)')
         /\ Introducing(o) \in Nat /\ Introducing(o)' \in Nat
<1>1. \A A \in SUBSET Writer : Cardinality(A) \in Nat
  BY FS_Subset, FS_CardinalityType DEF RefsAssumption
<1>2. Introducing(o) \in Nat /\ Introducing(o)' \in Nat
  BY <1>1 DEF Introducing
<1>3. /\ Owners(o) = Introducing(o) + One(OfPersister(o)) + One(OfMerger(o))
      /\ Owners(o)' = Introducing(o)' + One(OfPersister(o)') + One(OfMerger(o)')
  BY DEF Owners, Introducing, One, OfWriter, OfPersister, OfMerger
<1> QED
  BY <1>2, <1>3

LEMMA SharingIs ==
  ASSUME Inv, Inv', NEW o
  PROVE  /\ Sharing(o) = SharingOf(State, o) /\ Sharing(o)' = SharingOf(State', o)
         /\ IsState(State) /\ IsState(State')
         /\ State.snapshots = snapshots /\ State.segments = segments
         /\ State'.snapshots = snapshots' /\ State'.segments = segments'
<1>1. /\ snapshots \in Seq(ASnapshot) /\ segments \in Seq(ASegment)
      /\ snapshots' \in Seq(ASnapshot) /\ segments' \in Seq(ASegment)
  BY DEF Inv, TypeOK
<1>2. DOMAIN snapshots = 1 .. Len(snapshots) /\ DOMAIN snapshots' = 1 .. Len(snapshots')
  BY <1>1, LenProperties
<1>3. /\ State.snapshots = snapshots /\ State.segments = segments
      /\ State'.snapshots = snapshots' /\ State'.segments = segments'
      /\ State = [snapshots |-> snapshots, segments |-> segments]
      /\ State' = [snapshots |-> snapshots', segments |-> segments']
  BY DEF State
<1>4. IsState(State) /\ IsState(State')
  BY <1>1, <1>3 DEF IsState
<1>5. Sharing(o) = SharingOf(State, o) /\ Sharing(o)' = SharingOf(State', o)
  BY <1>2, <1>3 DEF Sharing, SharingOf, Open
<1> QED
  BY <1>3, <1>4, <1>5

LEMMA Differences ==
  ASSUME NEW a \in Int, NEW b \in Nat, NEW c \in Int, NEW d \in Int,
         NEW a1 \in Int, NEW b1 \in Nat, NEW c1 \in Int, NEW d1 \in Int
  PROVE  (a1 + (b1 + c1 + d1)) - (a + (b + c + d)) = (a1 - a) + (b1 - b) + (c1 - c) + (d1 - d)
OBVIOUS

\* The excess changes as sharers, count and owners do.
LEMMA ExcessMoves ==
  ASSUME RefsAssumption, Inv, Inv', NEW o \in 1 .. Len(segments), o \in 1 .. Len(segments')
  PROVE  /\ Excess(o) \in Int /\ Excess(o)' \in Int
         /\ Excess(o)' - Excess(o) =
              (Balance(State', o) - Balance(State, o)) + (Introducing(o)' - Introducing(o))
                + (One(OfPersister(o)') - One(OfPersister(o)))
                + (One(OfMerger(o)') - One(OfMerger(o)))
<1> DEFINE a == Balance(State, o)
           a1 == Balance(State', o)
           b == Introducing(o)
           b1 == Introducing(o)'
           c == One(OfPersister(o))
           c1 == One(OfPersister(o)')
           d == One(OfMerger(o))
           d1 == One(OfMerger(o)')
<1>1. /\ b \in Nat /\ b1 \in Nat /\ c \in Int /\ c1 \in Int /\ d \in Int /\ d1 \in Int
      /\ Owners(o) = b + c + d /\ Owners(o)' = b1 + c1 + d1
  BY OwnersAre, OneType
<1>2. /\ Cardinality(SharingOf(State, o)) \in Nat /\ Cardinality(SharingOf(State', o)) \in Nat
      /\ segments[o].count \in Int /\ segments'[o].count \in Int
      /\ a = Cardinality(Sharing(o)) - segments[o].count
      /\ a1 = Cardinality(Sharing(o)') - segments'[o].count
  BY SharingIs, SharingFinite, CountType DEF Balance
<1>3. Excess(o) = Cardinality(Sharing(o)) + (b + c + d) - segments[o].count
      /\ Excess(o)' = Cardinality(Sharing(o)') + (b1 + c1 + d1) - segments'[o].count
  BY <1>1 DEF Excess
<1>4. Cardinality(Sharing(o)) \in Nat /\ Cardinality(Sharing(o)') \in Nat
  BY <1>2, SharingIs
<1> HIDE DEF a, a1, b, b1, c, c1, d, d1
<1>5. a \in Int /\ a1 \in Int
  BY SMTT(30), <1>2, <1>4
<1>6. Excess(o) = a + (b + c + d)
  BY SMTT(30), <1>1, <1>2, <1>3, <1>4
<1>7. Excess(o)' = a1 + (b1 + c1 + d1)
  BY <1>1, <1>2, <1>3, <1>4
<1>8. Excess(o)' - Excess(o) = (a1 - a) + (b1 - b) + (c1 - c) + (d1 - d)
  BY <1>1, <1>5, <1>6, <1>7, Differences
<1>9. Excess(o) \in Int /\ Excess(o)' \in Int
  BY <1>1, <1>5, <1>6, <1>7
<1> QED
  BY <1>8, <1>9 DEF a, a1, b, b1, c, c1, d, d1

\* Which batch has a segment for itself changes by the one that moves.
LEMMA IntroducingMoves ==
  ASSUME RefsAssumption, NEW w \in Writer, NEW o,
         \A v \in Writer : v # w => (OfWriter(v, o)' <=> OfWriter(v, o))
  PROVE  Introducing(o)' - Introducing(o) = One(OfWriter(w, o)') - One(OfWriter(w, o))
<1> DEFINE A == {v \in Writer : OfWriter(v, o)}
           B == {v \in Writer : OfWriter(v, o)'}
<1>1. /\ IsFiniteSet(Writer) /\ A \in SUBSET Writer /\ B \in SUBSET Writer
      /\ \A v \in Writer : v # w => (v \in A <=> v \in B)
      /\ w \in A <=> OfWriter(w, o)
      /\ w \in B <=> OfWriter(w, o)'
  BY DEF RefsAssumption
<1>2. Introducing(o) = Cardinality(A) /\ Introducing(o)' = Cardinality(B)
  BY DEF Introducing
<1> HIDE DEF A, B
<1>3. /\ Cardinality(A) \in Nat /\ Cardinality(B) \in Nat
      /\ Cardinality(B) = Cardinality(A) - (IF w \in A THEN 1 ELSE 0)
                                         + (IF w \in B THEN 1 ELSE 0)
  BY <1>1, OneMoves
<1> QED
  BY <1>1, <1>2, <1>3 DEF One

LEMMA IntroducingSame ==
  ASSUME RefsAssumption, NEW o, \A v \in Writer : OfWriter(v, o)' <=> OfWriter(v, o)
  PROVE  Introducing(o)' - Introducing(o) = 0
<1>1. {v \in Writer : OfWriter(v, o)'} = {v \in Writer : OfWriter(v, o)}
  OBVIOUS
<1>2. Introducing(o)' = Introducing(o) /\ Introducing(o) \in Nat
  BY <1>1, OwnersAre DEF Introducing
<1> QED
  BY <1>2

\* Ownership only goes.
LEMMA ApartShrinks ==
  ASSUME Apart, Len(segments') = Len(segments), Len(snapshots') = Len(snapshots),
         \A s \in 1 .. Len(snapshots) : snapshots'[s].segs = snapshots[s].segs,
         \A o \in 1 .. Len(segments) :
           /\ \A w \in Writer : OfWriter(w, o)' => OfWriter(w, o)
           /\ OfPersister(o)' => OfPersister(o)
           /\ InFiles(o)' => InFiles(o) \/ OfPersister(o)
           /\ OfMerger(o)' => OfMerger(o)
  PROVE  Apart'
<1>1. ASSUME NEW o \in 1 .. Len(segments), OwnedBy(o)',
             NEW s \in 1 .. Len(snapshots)
      PROVE  o \notin snapshots'[s].segs
  <2>1. OwnedBy(o)
    BY <1>1 DEF OwnedBy
  <2> QED
    BY <1>1, <2>1 DEF Apart
<1>2. ASSUME NEW o \in 1 .. Len(segments)
      PROVE  /\ \A w, v \in Writer : OfWriter(w, o)' /\ OfWriter(v, o)' => w = v
             /\ \A w \in Writer : OfWriter(w, o)' => ~OfPersister(o)' /\ ~InFiles(o)' /\ ~OfMerger(o)'
             /\ OfMerger(o)' => ~OfPersister(o)' /\ ~InFiles(o)'
  BY <1>2 DEF Apart
<1> QED
  BY <1>1, <1>2 DEF Apart

\* Excess that stays, or moves where it may.
LEMMA ExcessStays ==
  ASSUME ExcessFits, Len(segments') = Len(segments), persister.raced => persister'.raced,
         \A o \in 1 .. Len(segments) : Excess(o)' = Excess(o)
  PROVE  ExcessFits'
BY DEF ExcessFits, BatchesFail

---------------------------------------------------------------------------
(* What each kind of step does to sharers and counts *)

\* The root gets one reference more.
LEMMA AddRefBalances ==
  ASSUME RefsAssumption, Inv, Inv', root \in 1 .. Len(snapshots),
         snapshots' = RootAddRef, segments' = segments
  PROVE  /\ \A o \in 1 .. Len(segments) : Balance(State', o) - Balance(State, o) = 0
         /\ StaysClosed
<1>1. /\ Len(snapshots') = Len(snapshots)
      /\ \A u \in 1 .. Len(snapshots) :
           /\ snapshots'[u].segs = snapshots[u].segs
           /\ snapshots'[u].refs = snapshots[u].refs + One(root = u)
  BY RootAddRefIs DEF Inv
<1>2. \A u \in 1 .. Len(snapshots) : snapshots[u].refs \in Int
  BY HeldHasRefs
<1>3. snapshots[root].refs > 0
  BY HeldHasRefs
<1>4. \A u \in 1 .. Len(snapshots) : snapshots'[u].refs > 0 <=> snapshots[u].refs > 0
  BY <1>1, <1>2, <1>3 DEF One
<1>5. ASSUME NEW o \in 1 .. Len(segments) PROVE Balance(State', o) - Balance(State, o) = 0
  <2>0. State.snapshots = snapshots /\ State'.snapshots = snapshots'
    BY DEF State
  <2>1. SharingOf(State', o) = SharingOf(State, o)
    BY <1>1, <1>4, <2>0 DEF SharingOf
  <2>2. /\ Cardinality(SharingOf(State, o)) \in Nat
        /\ State'.segments = State.segments /\ State.segments[o].count \in Int
    BY SharingIs, SharingFinite, CountType
  <2> QED
    BY <2>1, <2>2 DEF Balance
<1>6. StaysClosed
  <2>1. DOMAIN snapshots = 1 .. Len(snapshots)
    BY StateTyped DEF Inv
  <2> QED
    BY <1>4, <2>1 DEF StaysClosed, Open
<1> QED
  BY <1>5, <1>6

\* Snapshots and segments stay as they are.
LEMMA SameBalances ==
  ASSUME Inv, Inv', UNCHANGED <<snapshots, segments>>
  PROVE  /\ \A o \in 1 .. Len(segments) : Balance(State', o) - Balance(State, o) = 0
         /\ StaysClosed
<1>1. State' = State
  BY DEF State
<1>2. ASSUME NEW o \in 1 .. Len(segments) PROVE Balance(State', o) - Balance(State, o) = 0
  <2>1. Cardinality(SharingOf(State, o)) \in Nat /\ State.segments[o].count \in Int
    BY SharingIs, SharingFinite, CountType
  <2> QED
    BY <1>1, <2>1 DEF Balance
<1>3. StaysClosed
  BY DEF StaysClosed, Open
<1> QED
  BY <1>2, <1>3

\* Nothing gets a reference.
LEMMA FewerStaysClosed ==
  ASSUME Inv, \A u \in 1 .. Len(snapshots) : snapshots'[u].refs <= snapshots[u].refs,
         \A o \in 1 .. Len(segments) : segments'[o].count <= segments[o].count,
         \A u \in 1 .. Len(snapshots) : snapshots'[u].refs \in Int,
         \A o \in 1 .. Len(segments) : segments'[o].count \in Int
  PROVE  StaysClosed
<1>1. /\ DOMAIN snapshots = 1 .. Len(snapshots) /\ DOMAIN segments = 1 .. Len(segments)
      /\ \A u \in 1 .. Len(snapshots) : snapshots[u].refs \in Int
      /\ \A o \in 1 .. Len(segments) : segments[o].count \in Int
  BY StateTyped DEF Inv, ASnapshot, ASegment
<1>2. \A u \in 1 .. Len(snapshots) : ~(snapshots[u].refs > 0) => ~(snapshots'[u].refs > 0)
  BY <1>1
<1>3. \A o \in 1 .. Len(segments) : segments[o].count <= 0 => segments'[o].count <= 0
  BY <1>1
<1> QED
  BY <1>1, <1>2, <1>3 DEF StaysClosed, Open

\* Segments in X are closed, then up to two snapshots let go.
LEMMA LetGoBalances ==
  ASSUME RefsAssumption, Inv, Inv', NEW X, NEW s \in 0 .. Len(snapshots),
         NEW t \in 0 .. Len(snapshots),
         s # 0 => snapshots[s].refs > 0, t # 0 => snapshots[t].refs > One(s = t),
         Becomes(LetGoIfAny(CloseAndLetGo(X, s), t))
  PROVE  /\ \A o \in 1 .. Len(segments) : Balance(State', o) - Balance(State, o) = One(o \in X)
         /\ StaysClosed
<1> DEFINE c == [State EXCEPT !.segments = Counted(segments, X, -1)]
           a == LetGoIfAny(c, s)
           b == LetGoIfAny(a, t)
<1>1. /\ IsState(State) /\ State.snapshots = snapshots /\ State.segments = segments
      /\ Len(snapshots) \in Nat /\ Len(segments) \in Nat
      /\ \A u \in 1 .. Len(snapshots) : snapshots[u].refs \in Int
      /\ \A o \in 1 .. Len(segments) : segments[o].count \in Int
  BY StateTyped DEF Inv, ASnapshot, ASegment
<1>2. /\ IsState(c) /\ c.snapshots = snapshots /\ Len(c.segments) = Len(segments)
      /\ \A o \in 1 .. Len(segments) : c.segments[o].count = segments[o].count - One(o \in X)
  <2>1. c.snapshots = snapshots /\ c.segments = Counted(segments, X, -1)
        /\ c = [snapshots |-> c.snapshots, segments |-> c.segments]
    BY DEF State
  <2>2. snapshots \in Seq(ASnapshot) /\ segments \in Seq(ASegment)
    BY StateTyped DEF Inv
  <2> HIDE DEF c
  <2>3. /\ c.segments \in Seq(ASegment) /\ Len(c.segments) = Len(segments)
        /\ \A o \in 1 .. Len(segments) :
             c.segments[o].count = segments[o].count + (IF o \in X THEN -1 ELSE 0)
    BY <2>1, <2>2, CountedIs
  <2> QED
    BY <1>1, <2>1, <2>2, <2>3 DEF IsState, One
<1>3. snapshots' = b.snapshots /\ segments' = b.segments
  BY DEF Becomes, CloseAndLetGo
<1> HIDE DEF c
<1>4. ASSUME NEW o \in 1 .. Len(segments)
      PROVE  Balance(c, o) - Balance(State, o) = One(o \in X)
  <2>1. SharingOf(c, o) = SharingOf(State, o)
    BY <1>1, <1>2 DEF SharingOf
  <2>2. Cardinality(SharingOf(State, o)) \in Nat /\ One(o \in X) \in Int
    BY <1>1, SharingFinite, OneType
  <2>3. c.segments[o].count = segments[o].count - One(o \in X) /\ segments[o].count \in Int
    BY <1>1, <1>2
  <2> QED
    BY <1>1, <2>1, <2>2, <2>3 DEF Balance
<1>5. /\ IsState(a) /\ Len(a.snapshots) = Len(snapshots) /\ Len(a.segments) = Len(segments)
      /\ \A u \in 1 .. Len(snapshots) : a.snapshots[u].refs = snapshots[u].refs - One(s = u)
  <2>1. /\ IsState(a) /\ Len(a.snapshots) = Len(c.snapshots)
        /\ Len(a.segments) = Len(c.segments)
        /\ \A u \in 1 .. Len(c.snapshots) :
             a.snapshots[u].refs = c.snapshots[u].refs - One(s = u)
    BY <1>2, LetGoIs
  <2> QED
    BY <1>2, <2>1
<1>6. \A o \in 1 .. Len(segments) : /\ Balance(a, o) = Balance(c, o)
                                    /\ a.segments[o].count <= c.segments[o].count
  BY <1>2, LetGoKeeps
<1> HIDE DEF a
<1>7. t # 0 => a.snapshots[t].refs > 0
  <2>1. ASSUME t # 0 PROVE a.snapshots[t].refs > 0
    <3>1. t \in 1 .. Len(snapshots)
      BY <1>1, <2>1
    <3>2. a.snapshots[t].refs = snapshots[t].refs - One(s = t) /\ snapshots[t].refs \in Int
          /\ One(s = t) \in Int
      BY <1>1, <1>5, <3>1, OneType
    <3> QED
      BY <2>1, <3>2
  <2> QED
    BY <2>1
<1>8. /\ IsState(b) /\ Len(b.snapshots) = Len(snapshots) /\ Len(b.segments) = Len(segments)
      /\ \A u \in 1 .. Len(snapshots) : b.snapshots[u].refs = a.snapshots[u].refs - One(t = u)
  <2>1. /\ IsState(b) /\ Len(b.snapshots) = Len(a.snapshots)
        /\ Len(b.segments) = Len(a.segments)
        /\ \A u \in 1 .. Len(a.snapshots) :
             b.snapshots[u].refs = a.snapshots[u].refs - One(t = u)
    BY <1>5, LetGoIs
  <2> QED
    BY <1>5, <2>1
<1>9. \A o \in 1 .. Len(segments) : /\ Balance(b, o) = Balance(a, o)
                                    /\ b.segments[o].count <= a.segments[o].count
  BY <1>5, <1>7, LetGoKeeps
<1> HIDE DEF b
<1>10. State' = b
  BY <1>3, <1>8 DEF State, IsState
<1>11. \A o \in 1 .. Len(segments) : Balance(State', o) - Balance(State, o) = One(o \in X)
  BY <1>4, <1>6, <1>9, <1>10
<1>12. StaysClosed
  <2>1. \A u \in 1 .. Len(snapshots) : snapshots'[u].refs = snapshots[u].refs - One(s = u) - One(t = u)
    BY <1>3, <1>5, <1>8
  <2>2. \A u \in 1 .. Len(snapshots) : /\ snapshots'[u].refs <= snapshots[u].refs
                                       /\ snapshots'[u].refs \in Int
    BY SMTT(30), <1>1, <2>1, OneType
  <2>3. \A o \in 1 .. Len(segments) : /\ a.segments[o].count \in Int /\ b.segments[o].count \in Int
                                      /\ c.segments[o].count \in Int
    BY <1>2, <1>5, <1>8, CountType
  <2>4. \A o \in 1 .. Len(segments) : c.segments[o].count <= segments[o].count
    BY <1>1, <1>2, OneType
  <2>5. ASSUME NEW o \in 1 .. Len(segments)
        PROVE  segments'[o].count <= segments[o].count /\ segments'[o].count \in Int
    <3>1. /\ a.segments[o].count \in Int /\ b.segments[o].count \in Int
          /\ c.segments[o].count \in Int /\ segments[o].count \in Int
          /\ b.segments[o].count <= a.segments[o].count
          /\ a.segments[o].count <= c.segments[o].count
          /\ c.segments[o].count <= segments[o].count
      BY <1>1, <1>6, <1>9, <2>3, <2>4
    <3> QED
      BY <1>3, <3>1
  <2> QED
    BY <2>2, <2>5, FewerStaysClosed
<1> QED
  BY <1>11, <1>12

\* One snapshot is let go.
LEMMA LetOneGoBalances ==
  ASSUME RefsAssumption, Inv, Inv', NEW s \in 1 .. Len(snapshots), snapshots[s].refs > 0,
         Becomes(LetGo(State, s))
  PROVE  /\ \A o \in 1 .. Len(segments) : Balance(State', o) - Balance(State, o) = 0
         /\ StaysClosed
<1>1. /\ IsState(State) /\ State.snapshots = snapshots /\ State.segments = segments
      /\ Len(snapshots) \in Nat
      /\ \A u \in 1 .. Len(snapshots) : snapshots[u].refs \in Int
      /\ \A o \in 1 .. Len(segments) : segments[o].count \in Int
  BY StateTyped DEF Inv, ASnapshot, ASegment
<1> DEFINE a == LetGoIfAny(State, s)
<1>2. s # 0 /\ s \in 0 .. Len(State.snapshots)
  BY <1>1
<1>3. snapshots' = a.snapshots /\ segments' = a.segments
  BY <1>2 DEF Becomes, LetGoIfAny
<1>4. /\ IsState(a) /\ Len(a.snapshots) = Len(snapshots) /\ Len(a.segments) = Len(segments)
      /\ \A u \in 1 .. Len(snapshots) : a.snapshots[u].refs = snapshots[u].refs - One(s = u)
  <2>1. /\ IsState(a) /\ Len(a.snapshots) = Len(State.snapshots)
        /\ Len(a.segments) = Len(State.segments)
        /\ \A u \in 1 .. Len(State.snapshots) :
             a.snapshots[u].refs = State.snapshots[u].refs - One(s = u)
    BY <1>1, <1>2, LetGoIs
  <2> QED
    BY <1>1, <2>1
<1>5. \A o \in 1 .. Len(segments) : /\ Balance(a, o) = Balance(State, o)
                                    /\ a.segments[o].count <= segments[o].count
  BY <1>1, <1>2, LetGoKeeps
<1> HIDE DEF a
<1>6. State' = a
  BY <1>3, <1>4 DEF State, IsState
<1>7. ASSUME NEW o \in 1 .. Len(segments) PROVE Balance(State', o) - Balance(State, o) = 0
  <2>1. Cardinality(SharingOf(State, o)) \in Nat
    BY <1>1, SharingFinite
  <2>2. Balance(State, o) \in Int
    BY <1>1, <2>1 DEF Balance
  <2> QED
    BY <1>5, <1>6, <2>2
<1>8. StaysClosed
  <2>1. \A u \in 1 .. Len(snapshots) : /\ snapshots'[u].refs <= snapshots[u].refs
                                       /\ snapshots'[u].refs \in Int
    BY <1>1, <1>3, <1>4, OneType
  <2>2. \A o \in 1 .. Len(segments) : a.segments[o].count \in Int
    BY <1>4, CountType
  <2> QED
    BY <1>3, <1>5, <2>1, <2>2, FewerStaysClosed
<1> QED
  BY <1>7, <1>8

\* Segments are opened: nobody had them, and they are counted once.
LEMMA OpenedBalances ==
  ASSUME RefsAssumption, Inv, Inv', NEW n \in Nat, NEW mem \in BOOLEAN,
         segments' = Opened(n, mem), Len(snapshots') = Len(snapshots),
         \A u \in 1 .. Len(snapshots) :
           /\ snapshots'[u].segs = snapshots[u].segs
           /\ snapshots'[u].refs > 0 <=> snapshots[u].refs > 0
  PROVE  /\ Len(segments') = Len(segments) + n
         /\ \A o \in 1 .. Len(segments) : Balance(State', o) - Balance(State, o) = 0
         /\ \A o \in NewSegments(n) : /\ o \in 1 .. Len(segments') /\ o \notin 1 .. Len(segments)
                                      /\ Balance(State', o) = -1
         /\ \A o \in 1 .. Len(segments') : o \in 1 .. Len(segments) \/ o \in NewSegments(n)
         /\ StaysClosed
<1>1. /\ segments' \in Seq(ASegment) /\ Len(segments') = Len(segments) + n
      /\ \A o \in 1 .. Len(segments) : segments'[o] = segments[o]
      /\ \A o \in NewSegments(n) : segments'[o].count = 1
  BY OpenedIs DEF Inv
<1>2. /\ Len(snapshots) \in Nat /\ Len(segments) \in Nat
      /\ DOMAIN snapshots = 1 .. Len(snapshots) /\ DOMAIN segments = 1 .. Len(segments)
  BY StateTyped DEF Inv
<1>3. /\ State.snapshots = snapshots /\ State'.snapshots = snapshots'
      /\ State.segments = segments /\ State'.segments = segments'
  BY DEF State
<1>4. ASSUME NEW o \in 1 .. Len(segments) PROVE Balance(State', o) - Balance(State, o) = 0
  <2>1. SharingOf(State', o) = SharingOf(State, o)
    BY <1>3 DEF SharingOf
  <2>2. /\ Cardinality(SharingOf(State, o)) \in Nat /\ segments[o].count \in Int
    BY <1>3, SharingIs, SharingFinite, CountType
  <2>3. Balance(State', o) = Balance(State, o) /\ Balance(State, o) \in Int
    BY <1>1, <1>3, <2>1, <2>2 DEF Balance
  <2> QED
    BY <2>3
<1>5. ASSUME NEW o \in NewSegments(n)
      PROVE  /\ o \in 1 .. Len(segments') /\ o \notin 1 .. Len(segments)
             /\ Balance(State', o) = -1
  <2>1. o \in 1 .. Len(segments') /\ o \notin 1 .. Len(segments)
    BY <1>1, <1>2 DEF NewSegments
  <2>2. \A u \in 1 .. Len(snapshots) : o \notin snapshots[u].segs
    BY <2>1 DEF Inv, InRange
  <2>3. SharingOf(State', o) = {}
    BY <1>3, <2>2 DEF SharingOf
  <2>4. Cardinality(SharingOf(State', o)) = 0
    BY <2>3, FS_EmptySet
  <2> QED
    BY <1>1, <1>3, <2>1, <2>4 DEF Balance
<1>6. \A o \in 1 .. Len(segments') : o \in 1 .. Len(segments) \/ o \in NewSegments(n)
  BY <1>1, <1>2 DEF NewSegments
<1>7. StaysClosed
  BY <1>1, <1>2 DEF StaysClosed, Open
<1> QED
  BY <1>1, <1>4, <1>5, <1>6, <1>7

\* Nobody has what has not been opened yet.
LEMMA NobodyOwnsNew ==
  ASSUME Inv, NEW n \in Nat, NEW o \in NewSegments(n), o # 0
  PROVE  ~OwnedBy(o)
<1>1. Len(segments) \in Nat /\ o \notin 1 .. Len(segments) /\ o \in Nat /\ o > Len(segments)
  BY StateTyped DEF Inv, NewSegments
<1>2. \A w \in Writer : writers[w].seg # o
  BY <1>1 DEF Inv, InRange
<1>3. merger.seg # o
  BY <1>1 DEF Inv, InRange
<1>4. o \notin persister.opened /\ ~InFiles(o)
  BY <1>1 DEF Inv, InRange, FilesInRange, InFiles
<1> QED
  BY <1>2, <1>3, <1>4 DEF OwnedBy, OfWriter, OfPersister, OfMerger

\* What is opened is apart from the rest, when one takes it all.
LEMMA ApartOpens ==
  ASSUME Inv, Inv', Apart, NEW n \in Nat, Len(segments') = Len(segments) + n,
         Len(snapshots') = Len(snapshots),
         \A s \in 1 .. Len(snapshots) : snapshots'[s].segs = snapshots[s].segs,
         \A o \in 1 .. Len(segments) :
           /\ \A w \in Writer : OfWriter(w, o)' => OfWriter(w, o)
           /\ OfPersister(o)' => OfPersister(o)
           /\ InFiles(o)' => InFiles(o)
           /\ OfMerger(o)' => OfMerger(o),
         \A o \in NewSegments(n) :
           /\ ~InFiles(o)'
           /\ \A w, v \in Writer : OfWriter(w, o)' /\ OfWriter(v, o)' => w = v
           /\ \A w \in Writer : OfWriter(w, o)' => ~OfPersister(o)' /\ ~OfMerger(o)'
           /\ OfMerger(o)' => ~OfPersister(o)'
  PROVE  Apart'
<1>1. Len(snapshots) \in Nat /\ Len(segments) \in Nat
  BY StateTyped DEF Inv
<1>2. ASSUME NEW o \in 1 .. Len(segments'), OwnedBy(o)',
             NEW s \in 1 .. Len(snapshots)
      PROVE  o \notin snapshots'[s].segs
  <2>1. CASE o \in 1 .. Len(segments)
    <3>1. OwnedBy(o)
      BY <1>2, <2>1 DEF OwnedBy
    <3> QED
      BY <1>2, <2>1, <3>1 DEF Apart
  <2>2. CASE o \notin 1 .. Len(segments)
    BY <2>2 DEF Inv, InRange
  <2> QED
    BY <2>1, <2>2
<1>3. ASSUME NEW o \in 1 .. Len(segments')
      PROVE  /\ \A w, v \in Writer : OfWriter(w, o)' /\ OfWriter(v, o)' => w = v
             /\ \A w \in Writer : OfWriter(w, o)' => ~OfPersister(o)' /\ ~InFiles(o)' /\ ~OfMerger(o)'
             /\ OfMerger(o)' => ~OfPersister(o)' /\ ~InFiles(o)'
  <2>1. CASE o \in 1 .. Len(segments)
    BY <2>1 DEF Apart
  <2>2. CASE o \notin 1 .. Len(segments)
    <3>1. o \in NewSegments(n)
      BY <1>1, <2>2 DEF NewSegments
    <3> QED
      BY <3>1
  <2> QED
    BY <2>1, <2>2
<1> QED
  BY <1>2, <1>3 DEF Apart

\* A snapshot of the segments kept, which are counted, and of added, which are
\* not, is put at the end.
LEMMA BuildBalances ==
  ASSUME RefsAssumption, Inv, Inv', NEW kept, NEW added, kept \cap added = {},
         Len(snapshots') = Len(snapshots) + 1, segments' = Counted(segments, kept, 1),
         snapshots'[Len(snapshots) + 1].segs = kept \cup added,
         snapshots'[Len(snapshots) + 1].refs > 0,
         \A u \in 1 .. Len(snapshots) :
           /\ snapshots'[u].segs = snapshots[u].segs
           /\ snapshots'[u].refs > 0 <=> snapshots[u].refs > 0
  PROVE  /\ Len(segments') = Len(segments)
         /\ \A o \in 1 .. Len(segments) : Balance(State', o) - Balance(State, o) = One(o \in added)
         /\ (\A o \in kept \cap (1 .. Len(segments)) : segments[o].count > 0) => StaysClosed
<1>1. /\ segments' \in Seq(ASegment) /\ Len(segments') = Len(segments)
      /\ \A o \in 1 .. Len(segments) :
           segments'[o].count = segments[o].count + (IF o \in kept THEN 1 ELSE 0)
  BY StateTyped, CountedIs DEF Inv
<1>2. /\ Len(snapshots) \in Nat /\ Len(segments) \in Nat
      /\ DOMAIN snapshots = 1 .. Len(snapshots) /\ DOMAIN segments = 1 .. Len(segments)
      /\ \A o \in 1 .. Len(segments) : segments[o].count \in Int
  BY StateTyped DEF Inv, ASegment
<1>3. /\ State.snapshots = snapshots /\ State'.snapshots = snapshots'
      /\ State.segments = segments /\ State'.segments = segments'
  BY DEF State
<1>4. ASSUME NEW o \in 1 .. Len(segments)
      PROVE  Balance(State', o) - Balance(State, o) = One(o \in added)
  <2> DEFINE A == SharingOf(State, o)
             B == SharingOf(State', o)
             n == Len(snapshots) + 1
  <2>1. n \notin 1 .. Len(snapshots) /\ 1 .. n = (1 .. Len(snapshots)) \cup {n}
    BY <1>2
  <2>2. n \notin A
    BY <1>3, <2>1 DEF SharingOf
  <2>3. B = IF o \in kept \cup added THEN A \cup {n} ELSE A
    BY <1>3, <2>1 DEF SharingOf
  <2>4. IsFiniteSet(A) /\ Cardinality(A) \in Nat
    BY SharingIs, SharingFinite
  <2> HIDE DEF A, B, n
  <2>5. Cardinality(B) = Cardinality(A) + One(o \in kept \cup added)
    <3>1. CASE o \in kept \cup added
      BY <2>2, <2>3, <2>4, <3>1, FS_AddElement DEF One
    <3>2. CASE o \notin kept \cup added
      BY <2>3, <2>4, <3>2 DEF One
    <3> QED
      BY <3>1, <3>2
  <2>6. One(o \in kept \cup added) = One(o \in added) + (IF o \in kept THEN 1 ELSE 0)
    BY DEF One
  <2>7. segments'[o].count = segments[o].count + (IF o \in kept THEN 1 ELSE 0)
        /\ segments[o].count \in Int /\ One(o \in added) \in Int
    BY <1>1, <1>2, OneType
  <2>8. Balance(State', o) = Cardinality(B) - segments'[o].count
        /\ Balance(State, o) = Cardinality(A) - segments[o].count
    BY <1>3 DEF Balance, A, B
  <2> QED
    BY <2>4, <2>5, <2>6, <2>7, <2>8
<1>5. ASSUME \A o \in kept \cap (1 .. Len(segments)) : segments[o].count > 0
      PROVE  StaysClosed
  <2>1. ASSUME NEW o \in 1 .. Len(segments), segments[o].count <= 0
        PROVE  segments'[o].count <= 0
    <3>1. o \notin kept
      BY <1>2, <1>5, <2>1
    <3> QED
      BY <1>1, <1>2, <2>1, <3>1
  <2> QED
    BY <1>2, <2>1 DEF StaysClosed, Open
<1> QED
  BY <1>1, <1>4, <1>5

\* What the root has is open, unless somebody has closed too much.
LEMMA RootSegmentsOpen ==
  ASSUME RefsAssumption, Inv, ExcessFits, NEW s \in 1 .. Len(snapshots),
         snapshots[s].refs > 0, NEW o \in snapshots[s].segs,
         ~persister.raced, ~BatchesFail
  PROVE  o \in 1 .. Len(segments) /\ segments[o].count > 0
<1>1. o \in 1 .. Len(segments)
  BY DEF Inv, InRange
<1>2. s \in Sharing(o)
  BY StateTyped DEF Inv, Sharing, Open
<1>3. IsFiniteSet(Sharing(o)) /\ Cardinality(Sharing(o)) \in Nat
  <2>1. Sharing(o) = SharingOf(State, o) /\ IsState(State)
    BY StateTyped DEF Inv, Sharing, SharingOf, Open
  <2> QED
    BY <2>1, SharingFinite
<1>4. Cardinality(Sharing(o)) # 0
  BY <1>2, <1>3, FS_EmptySet
<1>5. /\ Owners(o) = Introducing(o) + One(OfPersister(o)) + One(OfMerger(o))
      /\ Introducing(o) \in Nat
  BY OwnersAre
<1>6. Owners(o) \in Nat
  <2>1. One(OfPersister(o)) \in Nat /\ One(OfMerger(o)) \in Nat
    BY OneType
  <2> QED
    BY <1>5, <2>1
<1>7. segments[o].count \in Int
  BY <1>1, StateTyped DEF Inv, ASegment
<1>8. Excess(o) <= 0
  <2>1. \A u \in 1 .. Len(segments) : ~persister.raced /\ ~BatchesFail => Excess(u) <= 0
    BY DEF ExcessFits
  <2> QED
    BY <1>1, <2>1
<1>9. Excess(o) = Cardinality(Sharing(o)) + Owners(o) - segments[o].count
  BY DEF Excess
<1> QED
  BY <1>1, <1>3, <1>4, <1>6, <1>7, <1>8, <1>9

---------------------------------------------------------------------------
(* Steps by which no segment changes its owner *)

LEMMA OwnersStay ==
  ASSUME RefsAssumption, Inv, Inv', Apart, ExcessFits,
         Len(segments') = Len(segments), Len(snapshots') = Len(snapshots),
         \A s \in 1 .. Len(snapshots) : snapshots'[s].segs = snapshots[s].segs,
         persister.raced => persister'.raced,
         \A o \in 1 .. Len(segments) :
           /\ \A w \in Writer : OfWriter(w, o)' <=> OfWriter(w, o)
           /\ OfPersister(o)' <=> OfPersister(o)
           /\ OfMerger(o)' <=> OfMerger(o)
           /\ InFiles(o)' => InFiles(o) \/ OfPersister(o)
           /\ Balance(State', o) - Balance(State, o) = 0
  PROVE  Apart' /\ ExcessFits'
<1>1. Apart'
  BY ApartShrinks
<1>2. ASSUME NEW o \in 1 .. Len(segments) PROVE Excess(o)' = Excess(o)
  <2>1. Introducing(o)' - Introducing(o) = 0
    BY IntroducingSame
  <2>2. /\ One(OfPersister(o)') - One(OfPersister(o)) = 0
        /\ One(OfMerger(o)') - One(OfMerger(o)) = 0
    BY DEF One
  <2>3. /\ Excess(o) \in Int /\ Excess(o)' \in Int
        /\ Excess(o)' - Excess(o) =
             (Balance(State', o) - Balance(State, o)) + (Introducing(o)' - Introducing(o))
               + (One(OfPersister(o)') - One(OfPersister(o)))
               + (One(OfMerger(o)') - One(OfMerger(o)))
    BY ExcessMoves
  <2>4. Balance(State', o) - Balance(State, o) = 0
    OBVIOUS
  <2> QED
    BY <2>1, <2>2, <2>3, <2>4
<1>3. ExcessFits'
  BY <1>2, ExcessStays
<1> QED
  BY <1>1, <1>3

\* The root gets one reference more, and the segments stay whose they are.
LEMMA AddRefPreserves ==
  ASSUME RefsAssumption, Inv, Inv', SegInv, root \in 1 .. Len(snapshots),
         snapshots' = RootAddRef, segments' = segments,
         persister.raced => persister'.raced,
         \A o \in 1 .. Len(segments) :
           /\ \A w \in Writer : OfWriter(w, o)' <=> OfWriter(w, o)
           /\ OfPersister(o)' <=> OfPersister(o)
           /\ OfMerger(o)' <=> OfMerger(o)
           /\ InFiles(o)' => InFiles(o) \/ OfPersister(o),
         FilesFit', SegmentsFit', AnswersFit'
  PROVE  Preserved
<1>1. /\ \A o \in 1 .. Len(segments) : Balance(State', o) - Balance(State, o) = 0
      /\ StaysClosed
  BY AddRefBalances
<1>2. /\ Len(snapshots') = Len(snapshots)
      /\ \A s \in 1 .. Len(snapshots) : snapshots'[s].segs = snapshots[s].segs
  BY RootAddRefIs DEF Inv
<1>3. Apart' /\ ExcessFits'
  BY <1>1, <1>2, OwnersStay DEF SegInv
<1> QED
  BY <1>1, <1>3 DEF Preserved, SegInv

LEMMA ReadPreserves ==
  ASSUME RefsAssumption, Inv, Inv', SegInv, NEW r \in Reader, Read(r)
  PROVE  Preserved
<1>0. /\ snapshots' = RootAddRef
      /\ UNCHANGED <<segments, root, writers, introducer, persister, merger, index, used>>
  BY DEF Read
<1>1. root \in 1 .. Len(snapshots)
  BY StateTyped DEF Inv, TypeOK, InRange, Read
<1>2. FilesFit' /\ SegmentsFit' /\ AnswersFit'
  BY <1>0 DEF SegInv, FilesFit, SegmentsFit, AnswersFit, BatchesFail
<1>3. \A o \in 1 .. Len(segments) :
           /\ \A w \in Writer : OfWriter(w, o)' <=> OfWriter(w, o)
           /\ OfPersister(o)' <=> OfPersister(o)
           /\ OfMerger(o)' <=> OfMerger(o)
           /\ InFiles(o)' => InFiles(o) \/ OfPersister(o)
  BY <1>0 DEF OfWriter, OfPersister, OfMerger, InFiles
<1> QED
  BY <1>0, <1>1, <1>2, <1>3, AddRefPreserves

LEMMA TakeSnapshotPreserves ==
  ASSUME RefsAssumption, Inv, Inv', SegInv, TakeSnapshot
  PROVE  Preserved
<1>0. /\ snapshots' = RootAddRef /\ persister.pc = "idle" /\ index = "open"
      /\ UNCHANGED <<segments, root, writers, readers, introducer, merger, index, used>>
  BY DEF TakeSnapshot, PersisterMoves, Closing
<1>1. root \in 1 .. Len(snapshots)
  BY <1>0, StateTyped DEF Inv, TypeOK, InRange, Fits, IndexFits
<1>2. /\ persister'.pc = "took" /\ persister'.opened = persister.opened
      /\ persister'.kept = persister.kept /\ persister'.raced = persister.raced
  BY ZenonT(30) DEF TakeSnapshot, PersisterMoves, Inv, TypeOK, APersister
<1>3. FilesFit' /\ SegmentsFit' /\ AnswersFit'
  BY <1>0, <1>2 DEF SegInv, FilesFit, SegmentsFit, AnswersFit, BatchesFail
<1>4. \A o \in 1 .. Len(segments) :
           /\ \A w \in Writer : OfWriter(w, o)' <=> OfWriter(w, o)
           /\ OfPersister(o)' <=> OfPersister(o)
           /\ OfMerger(o)' <=> OfMerger(o)
           /\ InFiles(o)' => InFiles(o) \/ OfPersister(o)
  BY <1>0, <1>2 DEF OfWriter, OfPersister, OfMerger, InFiles
<1> QED
  BY <1>0, <1>1, <1>2, <1>3, <1>4, AddRefPreserves

LEMMA PlanMergePreserves ==
  ASSUME RefsAssumption, Inv, Inv', SegInv, PlanMerge
  PROVE  Preserved
<1>0. /\ snapshots' = RootAddRef /\ merger.pc = "idle" /\ index = "open"
      /\ UNCHANGED <<segments, root, writers, readers, introducer, persister, index, used>>
  BY DEF PlanMerge, MergerMoves, Closing
<1>1. root \in 1 .. Len(snapshots)
  BY <1>0, StateTyped DEF Inv, TypeOK, InRange, Fits, IndexFits
<1>2. merger'.seg = merger.seg /\ merger'.kept = merger.kept
  BY DEF PlanMerge, MergerMoves, Inv, TypeOK, AMerger
<1>3. FilesFit' /\ SegmentsFit' /\ AnswersFit'
  BY <1>0, <1>2 DEF SegInv, FilesFit, SegmentsFit, AnswersFit, BatchesFail
<1>4. \A o \in 1 .. Len(segments) :
           /\ \A w \in Writer : OfWriter(w, o)' <=> OfWriter(w, o)
           /\ OfPersister(o)' <=> OfPersister(o)
           /\ OfMerger(o)' <=> OfMerger(o)
           /\ InFiles(o)' => InFiles(o) \/ OfPersister(o)
  BY <1>0, <1>2 DEF OfWriter, OfPersister, OfMerger, InFiles
<1> QED
  BY <1>0, <1>1, <1>2, <1>3, <1>4, AddRefPreserves

\* The files of the persister are now the introducer's to read too.
LEMMA ReceivePersistPreserves ==
  ASSUME RefsAssumption, Inv, Inv', SegInv, ReceivePersist
  PROVE  Preserved
<1>0. /\ snapshots' = RootAddRef /\ introducer.pc = "idle" /\ persister.pc = "send"
      /\ UNCHANGED <<segments, root, writers, readers, merger, index, used>>
  BY DEF ReceivePersist
<1>1. root \in 1 .. Len(snapshots)
  BY <1>0, StateTyped DEF Inv, TypeOK, InRange, Fits, IndexFits
<1>2. /\ persister'.pc = "sent" /\ persister'.opened = persister.opened
      /\ persister'.kept = persister.kept /\ persister'.raced = persister.raced
      /\ persister.kept = {}
      /\ introducer'.pc = "persist" /\ introducer'.files = persister.files
  BY <1>0 DEF ReceivePersist, Inv, TypeOK, APersister, AnIntroducer, SegInv, SegmentsFit
<1>3. FilesFit' /\ SegmentsFit' /\ AnswersFit'
  BY <1>0, <1>2 DEF SegInv, FilesFit, SegmentsFit, AnswersFit, BatchesFail
<1>4. ASSUME NEW o \in 1 .. Len(segments)
      PROVE  /\ \A w \in Writer : OfWriter(w, o)' <=> OfWriter(w, o)
             /\ OfPersister(o)' <=> OfPersister(o)
             /\ OfMerger(o)' <=> OfMerger(o)
             /\ InFiles(o)' => InFiles(o) \/ OfPersister(o)
  <2>1. /\ \A w \in Writer : OfWriter(w, o)' <=> OfWriter(w, o)
        /\ OfPersister(o)' <=> OfPersister(o)
        /\ OfMerger(o)' <=> OfMerger(o)
    BY <1>0, <1>2 DEF OfWriter, OfPersister, OfMerger
  <2>2. \A u \in DOMAIN persister.files : persister.files[u] \in persister.opened
    BY <1>0 DEF SegInv, FilesFit
  <2>3. InFiles(o)' => o \in persister.opened
    BY <1>2, <2>2 DEF InFiles
  <2> QED
    BY <1>2, <2>1, <2>3 DEF OfPersister
<1> QED
  BY <1>0, <1>1, <1>2, <1>3, <1>4, AddRefPreserves

\* One snapshot is let go, and the segments stay whose they are.
LEMMA LetOneGoPreserves ==
  ASSUME RefsAssumption, Inv, Inv', SegInv, NEW s \in 1 .. Len(snapshots), snapshots[s].refs > 0,
         Becomes(LetGo(State, s)), persister.raced => persister'.raced,
         \A o \in 1 .. Len(segments) :
           /\ \A w \in Writer : OfWriter(w, o)' <=> OfWriter(w, o)
           /\ OfPersister(o)' <=> OfPersister(o)
           /\ OfMerger(o)' <=> OfMerger(o)
           /\ InFiles(o)' => InFiles(o) \/ OfPersister(o),
         FilesFit', SegmentsFit', AnswersFit'
  PROVE  Preserved
<1>1. /\ \A o \in 1 .. Len(segments) : Balance(State', o) - Balance(State, o) = 0
      /\ StaysClosed
  BY LetOneGoBalances
<1>2. /\ Len(snapshots') = Len(snapshots) /\ Len(segments') = Len(segments)
      /\ \A u \in 1 .. Len(snapshots) : snapshots'[u].segs = snapshots[u].segs
  BY LetGoStep
<1>3. Apart' /\ ExcessFits'
  BY <1>1, <1>2, OwnersStay DEF SegInv
<1> QED
  BY <1>1, <1>3 DEF Preserved, SegInv

LEMMA CloseReaderPreserves ==
  ASSUME RefsAssumption, Inv, Inv', SegInv, NEW r \in Reader, CloseReader(r)
  PROVE  Preserved
<1> DEFINE s == readers[r]
<1>0. /\ Becomes(LetGo(State, s))
      /\ UNCHANGED <<root, writers, introducer, persister, merger, index, used>>
  BY DEF CloseReader
<1>1. s \in 1 .. Len(snapshots)
  BY StateTyped DEF Inv, TypeOK, InRange, CloseReader
<1>2. snapshots[s].refs > 0
  BY <1>1, HeldHasRefs
<1>3. FilesFit' /\ SegmentsFit' /\ AnswersFit'
  BY <1>0 DEF SegInv, FilesFit, SegmentsFit, AnswersFit, BatchesFail
<1>4. \A o \in 1 .. Len(segments) :
           /\ \A w \in Writer : OfWriter(w, o)' <=> OfWriter(w, o)
           /\ OfPersister(o)' <=> OfPersister(o)
           /\ OfMerger(o)' <=> OfMerger(o)
           /\ InFiles(o)' => InFiles(o) \/ OfPersister(o)
  BY <1>0 DEF OfWriter, OfPersister, OfMerger, InFiles
<1> HIDE DEF s
<1> QED
  BY <1>0, <1>1, <1>2, <1>3, <1>4, LetOneGoPreserves

LEMMA FinishPreserves ==
  ASSUME RefsAssumption, Inv, Inv', SegInv, Finish
  PROVE  Preserved
<1> DEFINE s == introducer.old
<1>0. /\ introducer.pc = "finish" /\ Becomes(LetGo(State, s))
      /\ UNCHANGED <<root, writers, readers, persister, merger, index, used>>
  BY DEF Finish
<1>1. s \in 1 .. Len(snapshots)
  BY <1>0, StateTyped DEF Inv, TypeOK, AnIntroducer, InRange, Fits, IntroducerFits
<1>2. snapshots[s].refs > 0
  BY <1>1, HeldHasRefs
<1>3. introducer'.pc = "idle"
  BY DEF Finish, Inv, TypeOK, AnIntroducer
<1>4. FilesFit' /\ SegmentsFit' /\ AnswersFit'
  BY <1>0, <1>3 DEF SegInv, FilesFit, SegmentsFit, AnswersFit, BatchesFail
<1>5. \A o \in 1 .. Len(segments) :
           /\ \A w \in Writer : OfWriter(w, o)' <=> OfWriter(w, o)
           /\ OfPersister(o)' <=> OfPersister(o)
           /\ OfMerger(o)' <=> OfMerger(o)
           /\ InFiles(o)' => InFiles(o) \/ OfPersister(o)
  BY <1>0, <1>3 DEF OfWriter, OfPersister, OfMerger, InFiles
<1> HIDE DEF s
<1> QED
  BY <1>0, <1>1, <1>2, <1>4, <1>5, LetOneGoPreserves

LEMMA CloseReturnsPreserves ==
  ASSUME RefsAssumption, Inv, Inv', SegInv, CloseReturns
  PROVE  Preserved
<1>0. /\ index = "closing" /\ Becomes(LetGo(State, root))
      /\ UNCHANGED <<writers, readers, introducer, persister, merger, used>>
  BY DEF CloseReturns
<1>1. root \in 1 .. Len(snapshots)
  BY <1>0, StateTyped DEF Inv, TypeOK, InRange, Fits, IndexFits
<1>2. snapshots[root].refs > 0
  BY <1>1, HeldHasRefs
<1>3. FilesFit' /\ SegmentsFit' /\ AnswersFit'
  BY <1>0 DEF SegInv, FilesFit, SegmentsFit, AnswersFit, BatchesFail
<1>4. \A o \in 1 .. Len(segments) :
           /\ \A w \in Writer : OfWriter(w, o)' <=> OfWriter(w, o)
           /\ OfPersister(o)' <=> OfPersister(o)
           /\ OfMerger(o)' <=> OfMerger(o)
           /\ InFiles(o)' => InFiles(o) \/ OfPersister(o)
  BY <1>0 DEF OfWriter, OfPersister, OfMerger, InFiles
<1> QED
  BY <1>0, <1>1, <1>2, <1>3, <1>4, LetOneGoPreserves

LEMMA SwapPreserves ==
  ASSUME RefsAssumption, Inv, Inv', SegInv, Swap
  PROVE  Preserved
<1>0. introducer.pc = "swap" /\ Becomes(LetGo(State, root))
  BY DEF Swap
<1>1. root \in 1 .. Len(snapshots)
  BY <1>0, StateTyped DEF Inv, TypeOK, InRange, Fits, IndexFits
<1>2. snapshots[root].refs > 0
  BY <1>1, HeldHasRefs
<1>3. introducer'.pc = "finish"
  BY DEF Swap, Inv, TypeOK, AnIntroducer
<1>4. \A v \in Writer : /\ writers'[v].seg = writers[v].seg
                        /\ writers'[v].pc = IF writers[v].pc = "introduced" THEN AfterApplied
                                            ELSE writers[v].pc
  <2>1. \A v \in Writer : writers[v] \in ABatch
    BY DEF Inv, TypeOK
  <2>2. \A v \in Writer : writers'[v] = IF writers[v].pc = "introduced"
                                        THEN [writers[v] EXCEPT !.pc = AfterApplied]
                                        ELSE writers[v]
    BY DEF Swap
  <2> QED
    BY <2>1, <2>2 DEF ABatch
<1>5. /\ persister'.pc = CASE persister.pc = "merging" -> "merged"
                           [] persister.pc = "sent" -> "commit"
                           [] OTHER -> persister.pc
      /\ persister'.opened = persister.opened /\ persister'.kept = persister.kept
      /\ persister'.files = persister.files /\ persister'.raced = persister.raced
  <2> DEFINE pc == CASE persister.pc = "merging" -> "merged"
                     [] persister.pc = "sent" -> "commit"
                     [] OTHER -> persister.pc
  <2>1. /\ persister' = [persister EXCEPT !.pc = pc]
        /\ persister \in APersister(persister.files)
    BY DEF Swap, Inv, TypeOK
  <2> HIDE DEF pc
  <2>2. /\ persister'.pc = pc
        /\ persister'.opened = persister.opened /\ persister'.kept = persister.kept
        /\ persister'.files = persister.files /\ persister'.raced = persister.raced
    BY <2>1 DEF APersister
  <2> QED
    BY <2>2 DEF pc
<1>6. /\ merger'.pc = IF merger.pc = "merging" THEN "merged" ELSE merger.pc
      /\ merger'.seg = merger.seg /\ merger'.kept = merger.kept
  BY DEF Swap, Inv, TypeOK, AMerger
<1>7. FilesFit'
  <2>1. persister'.pc = "send" => persister.pc = "send"
    BY <1>5
  <2>2. persister.pc = "done" => persister'.pc = "done"
    BY <1>5
  <2> QED
    BY <1>3, <1>5, <2>1, <2>2 DEF SegInv, FilesFit
<1>8. SegmentsFit'
  <2>1. \/ persister.pc = "merging" /\ persister'.pc = "merged"
        \/ persister.pc = "sent" /\ persister'.pc = "commit"
        \/ persister.pc \notin {"merging", "sent"} /\ persister'.pc = persister.pc
    BY <1>5
  <2>2. merger.pc \in {"merging", "merged"} => merger'.pc \in {"merging", "merged"}
    BY <1>6
  <2> QED
    BY <1>5, <1>6, <2>1, <2>2 DEF SegInv, SegmentsFit
<1>9. AnswersFit'
  BY <1>4 DEF SegInv, AnswersFit, AfterApplied, BatchesFail
<1>10. ASSUME NEW o \in 1 .. Len(segments)
       PROVE  /\ \A w \in Writer : OfWriter(w, o)' <=> OfWriter(w, o)
              /\ OfPersister(o)' <=> OfPersister(o)
              /\ OfMerger(o)' <=> OfMerger(o)
              /\ InFiles(o)' => InFiles(o) \/ OfPersister(o)
  <2>1. AfterApplied # "introducing"
    BY DEF AfterApplied
  <2>2. \A w \in Writer : OfWriter(w, o)' <=> OfWriter(w, o)
    BY <1>4, <2>1 DEF OfWriter
  <2> QED
    BY <1>3, <1>5, <1>6, <2>2 DEF OfPersister, OfMerger, InFiles
<1> QED
  BY <1>0, <1>1, <1>2, <1>5, <1>7, <1>8, <1>9, <1>10, LetOneGoPreserves

---------------------------------------------------------------------------
(* What each kind of step leaves of the invariant *)

\* How many owners more a segment has after a step.
Shift(o) == (Introducing(o)' - Introducing(o)) + (One(OfPersister(o)') - One(OfPersister(o)))
              + (One(OfMerger(o)') - One(OfMerger(o)))

LEMMA ShiftType ==
  ASSUME RefsAssumption, NEW o
  PROVE  Shift(o) \in Int
<1>1. Introducing(o) \in Nat /\ Introducing(o)' \in Nat
  BY OwnersAre
<1>2. /\ One(OfPersister(o)) \in Nat /\ One(OfPersister(o)') \in Nat
      /\ One(OfMerger(o)) \in Nat /\ One(OfMerger(o)') \in Nat
  BY OneType
<1> QED
  BY <1>1, <1>2 DEF Shift

\* What is given up, and by whom: the segments in X lose a count, or get a
\* sharer, for the owners they lose.
LEMMA ExcessShifts ==
  ASSUME RefsAssumption, Inv, Inv', ExcessFits, Len(segments') = Len(segments), NEW X,
         persister.raced => persister'.raced,
         \A o \in 1 .. Len(segments) :
           /\ Balance(State', o) - Balance(State, o) = One(o \in X)
           /\ Workers <= 1 => Shift(o) + One(o \in X) >= 0
           /\ ~persister'.raced /\ ~BatchesFail => Shift(o) + One(o \in X) <= 0
  PROVE  ExcessFits'
<1>1. ASSUME NEW o \in 1 .. Len(segments)
      PROVE  /\ Excess(o) \in Int /\ Excess(o)' \in Int /\ Shift(o) + One(o \in X) \in Int
             /\ Excess(o)' = Excess(o) + (Shift(o) + One(o \in X))
  <2>1. /\ Excess(o) \in Int /\ Excess(o)' \in Int
        /\ Excess(o)' - Excess(o) =
             (Balance(State', o) - Balance(State, o)) + (Introducing(o)' - Introducing(o))
               + (One(OfPersister(o)') - One(OfPersister(o)))
               + (One(OfMerger(o)') - One(OfMerger(o)))
    BY ExcessMoves
  <2>2. Balance(State', o) - Balance(State, o) = One(o \in X) /\ One(o \in X) \in Int
    BY OneType
  <2>3. Shift(o) \in Int
    BY ShiftType
  <2>4. /\ Introducing(o)' - Introducing(o) \in Int
        /\ One(OfPersister(o)') - One(OfPersister(o)) \in Int
        /\ One(OfMerger(o)') - One(OfMerger(o)) \in Int
    BY OwnersAre, OneType
  <2>5. Excess(o)' - Excess(o) = One(o \in X) + Shift(o)
    <3> DEFINE a == Introducing(o)' - Introducing(o)
               b == One(OfPersister(o)') - One(OfPersister(o))
               c == One(OfMerger(o)') - One(OfMerger(o))
               d == One(o \in X)
               e == Excess(o)' - Excess(o)
    <3>1. /\ a \in Int /\ b \in Int /\ c \in Int /\ d \in Int
          /\ e = d + a + b + c /\ Shift(o) = a + b + c
      BY <2>1, <2>2, <2>4 DEF Shift
    <3> HIDE DEF a, b, c, d, e
    <3>2. e = d + Shift(o)
      BY <3>1
    <3> QED
      BY <3>2 DEF d, e
  <2> QED
    BY <2>1, <2>2, <2>3, <2>5
<1>2. ASSUME NEW o \in 1 .. Len(segments)
      PROVE  /\ Workers <= 1 => Excess(o)' >= 0
             /\ ~persister'.raced /\ ~BatchesFail => Excess(o)' <= 0
  <2>1. /\ Workers <= 1 => Excess(o) >= 0
        /\ ~persister.raced /\ ~BatchesFail => Excess(o) <= 0
    BY DEF ExcessFits
  <2> DEFINE d == Shift(o) + One(o \in X)
             e == Excess(o)
             e1 == Excess(o)'
  <2>2. /\ Workers <= 1 => d >= 0
        /\ ~persister'.raced /\ ~BatchesFail => d <= 0
        /\ e \in Int /\ e1 \in Int /\ d \in Int /\ e1 = e + d
    BY <1>1
  <2>3. /\ Workers <= 1 => e >= 0
        /\ ~persister.raced /\ ~BatchesFail => e <= 0
    BY <2>1
  <2> HIDE DEF d, e, e1
  <2>4. /\ Workers <= 1 => e1 >= 0
        /\ ~persister'.raced /\ ~BatchesFail => e1 <= 0
    BY <2>2, <2>3
  <2> QED
    BY <2>4 DEF e1
<1>3. BatchesFail' <=> BatchesFail
  BY DEF BatchesFail
<1>4. Len(segments') = Len(segments)
  OBVIOUS
<1> QED
  BY <1>2, <1>3, <1>4 DEF ExcessFits

\* A goroutine moves on, and nothing else does.
LEMMA MovingPreserves ==
  ASSUME RefsAssumption, Inv, Inv', SegInv, UNCHANGED <<snapshots, segments>>,
         persister.raced => persister'.raced,
         \A o \in 1 .. Len(segments) :
           /\ \A w \in Writer : OfWriter(w, o)' <=> OfWriter(w, o)
           /\ OfPersister(o)' <=> OfPersister(o)
           /\ OfMerger(o)' <=> OfMerger(o)
           /\ InFiles(o)' => InFiles(o) \/ OfPersister(o),
         FilesFit', SegmentsFit', AnswersFit'
  PROVE  Preserved
<1>1. /\ \A o \in 1 .. Len(segments) : Balance(State', o) - Balance(State, o) = 0
      /\ StaysClosed
  BY SameBalances
<1>2. Apart' /\ ExcessFits'
  BY <1>1, OwnersStay DEF SegInv
<1> QED
  BY <1>1, <1>2 DEF Preserved, SegInv

\* Segments are closed and snapshots let go by those who have them.
LEMMA LetGoPreserves ==
  ASSUME RefsAssumption, Inv, Inv', SegInv, NEW X, NEW s \in 0 .. Len(snapshots),
         NEW t \in 0 .. Len(snapshots),
         s # 0 => snapshots[s].refs > 0, t # 0 => snapshots[t].refs > One(s = t),
         Becomes(LetGoIfAny(CloseAndLetGo(X, s), t)), persister.raced => persister'.raced,
         \A o \in 1 .. Len(segments) :
           /\ \A w \in Writer : OfWriter(w, o)' => OfWriter(w, o)
           /\ OfPersister(o)' => OfPersister(o)
           /\ InFiles(o)' => InFiles(o) \/ OfPersister(o)
           /\ OfMerger(o)' => OfMerger(o)
           /\ Workers <= 1 => Shift(o) + One(o \in X) >= 0
           /\ ~persister'.raced /\ ~BatchesFail => Shift(o) + One(o \in X) <= 0,
         FilesFit', SegmentsFit', AnswersFit'
  PROVE  Preserved
<1>1. /\ \A o \in 1 .. Len(segments) : Balance(State', o) - Balance(State, o) = One(o \in X)
      /\ StaysClosed
  BY LetGoBalances
<1>2. /\ Len(snapshots') = Len(snapshots) /\ Len(segments') = Len(segments)
      /\ \A u \in 1 .. Len(snapshots) : snapshots'[u].segs = snapshots[u].segs
  BY CloseAndLetGoStep
<1>3. Apart'
  BY <1>2, ApartShrinks DEF SegInv
<1>4. ExcessFits'
  BY <1>1, <1>2, ExcessShifts DEF SegInv
<1> QED
  BY <1>1, <1>3, <1>4 DEF Preserved, SegInv

---------------------------------------------------------------------------
(* Steps that change no snapshot and no segment *)

LEMMA IntroducerExitsPreserves ==
  ASSUME RefsAssumption, Inv, Inv', SegInv, IntroducerExits
  PROVE  Preserved
<1>0. /\ introducer.pc = "idle"
      /\ UNCHANGED <<snapshots, segments, root, writers, readers, persister, merger, index, used>>
  BY DEF IntroducerExits
<1>1. introducer'.pc = "done"
  BY DEF IntroducerExits, Inv, TypeOK, AnIntroducer
<1>2. FilesFit' /\ SegmentsFit' /\ AnswersFit'
  BY <1>0, <1>1 DEF SegInv, FilesFit, SegmentsFit, AnswersFit, BatchesFail
<1>3. \A o \in 1 .. Len(segments) :
           /\ \A w \in Writer : OfWriter(w, o)' <=> OfWriter(w, o)
           /\ OfPersister(o)' <=> OfPersister(o)
           /\ OfMerger(o)' <=> OfMerger(o)
           /\ InFiles(o)' => InFiles(o) \/ OfPersister(o)
  BY <1>0, <1>1 DEF OfWriter, OfPersister, OfMerger, InFiles
<1> QED
  BY <1>0, <1>2, <1>3, MovingPreserves

LEMMA PersisterExitsPreserves ==
  ASSUME RefsAssumption, Inv, Inv', SegInv, PersisterExits
  PROVE  Preserved
<1>0. /\ persister.pc = "idle"
      /\ UNCHANGED <<snapshots, segments, root, writers, readers, introducer, merger, index, used>>
  BY DEF PersisterExits, PersisterMoves
<1>1. /\ persister'.pc = "done" /\ persister'.opened = persister.opened
      /\ persister'.kept = persister.kept /\ persister'.raced = persister.raced
  BY DEF PersisterExits, PersisterMoves, Inv, TypeOK, APersister
<1>2. FilesFit' /\ SegmentsFit' /\ AnswersFit'
  BY <1>0, <1>1 DEF SegInv, FilesFit, SegmentsFit, AnswersFit, BatchesFail
<1>3. \A o \in 1 .. Len(segments) :
           /\ \A w \in Writer : OfWriter(w, o)' <=> OfWriter(w, o)
           /\ OfPersister(o)' <=> OfPersister(o)
           /\ OfMerger(o)' <=> OfMerger(o)
           /\ InFiles(o)' => InFiles(o) \/ OfPersister(o)
  BY <1>0, <1>1 DEF OfWriter, OfPersister, OfMerger, InFiles
<1> QED
  BY <1>0, <1>1, <1>2, <1>3, MovingPreserves

LEMMA MergerExitsPreserves ==
  ASSUME RefsAssumption, Inv, Inv', SegInv, MergerExits
  PROVE  Preserved
<1>0. /\ merger.pc = "idle"
      /\ UNCHANGED <<snapshots, segments, root, writers, readers, introducer, persister, index, used>>
  BY DEF MergerExits, MergerMoves
<1>1. merger'.pc = "done" /\ merger'.seg = merger.seg /\ merger'.kept = merger.kept
  BY DEF MergerExits, MergerMoves, Inv, TypeOK, AMerger
<1>2. FilesFit' /\ SegmentsFit' /\ AnswersFit'
  BY <1>0, <1>1 DEF SegInv, FilesFit, SegmentsFit, AnswersFit, BatchesFail
<1>3. \A o \in 1 .. Len(segments) :
           /\ \A w \in Writer : OfWriter(w, o)' <=> OfWriter(w, o)
           /\ OfPersister(o)' <=> OfPersister(o)
           /\ OfMerger(o)' <=> OfMerger(o)
           /\ InFiles(o)' => InFiles(o) \/ OfPersister(o)
  BY <1>0, <1>1 DEF OfWriter, OfPersister, OfMerger, InFiles
<1> QED
  BY <1>0, <1>2, <1>3, MovingPreserves

\* Close is called, or nothing happens.
LEMMA NobodyMovesPreserves ==
  ASSUME RefsAssumption, Inv, Inv', SegInv,
         UNCHANGED <<snapshots, segments, root, writers, readers, introducer, persister, merger>>
  PROVE  Preserved
<1>1. FilesFit' /\ SegmentsFit' /\ AnswersFit'
  BY DEF SegInv, FilesFit, SegmentsFit, AnswersFit, BatchesFail
<1>2. \A o \in 1 .. Len(segments) :
           /\ \A w \in Writer : OfWriter(w, o)' <=> OfWriter(w, o)
           /\ OfPersister(o)' <=> OfPersister(o)
           /\ OfMerger(o)' <=> OfMerger(o)
           /\ InFiles(o)' => InFiles(o) \/ OfPersister(o)
  BY DEF OfWriter, OfPersister, OfMerger, InFiles
<1> QED
  BY <1>1, <1>2, MovingPreserves

\* The merge is kept: the files of other workers are forgotten.
LEMMA KeptMergePreserves ==
  ASSUME RefsAssumption, Inv, Inv', SegInv, AfterInMemoryMerge, persister.kept # {}
  PROVE  Preserved
<1>0. /\ persister.pc = "merged"
      /\ UNCHANGED <<snapshots, segments, root, writers, readers, introducer, merger, index, used>>
      /\ persister' = [persister EXCEPT !.pc = "commit", !.opened = {}]
  BY DEF AfterInMemoryMerge, PersisterMoves
<1>1. /\ persister'.pc = "commit" /\ persister'.opened = {}
      /\ persister'.kept = persister.kept /\ persister'.raced = persister.raced
  BY <1>0 DEF Inv, TypeOK, APersister
<1>2. FilesFit' /\ SegmentsFit' /\ AnswersFit'
  BY <1>0, <1>1 DEF SegInv, FilesFit, SegmentsFit, AnswersFit, BatchesFail
<1>3. \A o \in 1 .. Len(segments) :
           /\ \A w \in Writer : OfWriter(w, o)' <=> OfWriter(w, o)
           /\ ~OfPersister(o)'
           /\ OfMerger(o)' <=> OfMerger(o)
           /\ InFiles(o)' <=> InFiles(o)
           /\ Workers <= 1 => ~OfPersister(o)
  <2>1. Workers <= 1 => persister.opened \subseteq persister.kept
    BY <1>0 DEF SegInv, SegmentsFit
  <2> QED
    BY <1>0, <1>1, <2>1 DEF OfWriter, OfPersister, OfMerger, InFiles
<1>4. Apart'
  BY <1>0, <1>3, ApartShrinks DEF SegInv
<1>5. /\ \A o \in 1 .. Len(segments) : Balance(State', o) - Balance(State, o) = 0
      /\ StaysClosed
  BY <1>0, SameBalances
<1>6. ASSUME NEW o \in 1 .. Len(segments)
      PROVE  /\ Balance(State', o) - Balance(State, o) = One(o \in {})
             /\ Workers <= 1 => Shift(o) + One(o \in {}) >= 0
             /\ ~persister'.raced /\ ~BatchesFail => Shift(o) + One(o \in {}) <= 0
  <2>1. One(o \in {}) = 0
    BY DEF One
  <2>2. /\ Introducing(o)' - Introducing(o) = 0 /\ One(OfMerger(o)') - One(OfMerger(o)) = 0
        /\ One(OfPersister(o)') = 0
    BY <1>3, IntroducingSame DEF One
  <2>3. Shift(o) = 0 - One(OfPersister(o))
    BY <2>2, OneType DEF Shift
  <2>4. Workers <= 1 => One(OfPersister(o)) = 0
    BY <1>3 DEF One
  <2> QED
    BY <1>5, <2>1, <2>3, <2>4, OneType
<1>7. ExcessFits'
  BY <1>0, <1>1, <1>6, ExcessShifts DEF SegInv
<1> QED
  BY <1>2, <1>4, <1>5, <1>7 DEF Preserved, SegInv

---------------------------------------------------------------------------
(* Steps that close segments or let snapshots go *)

LEMMA ShiftByWriter ==
  ASSUME RefsAssumption, NEW w \in Writer, NEW o,
         \A v \in Writer : v # w => (OfWriter(v, o)' <=> OfWriter(v, o)),
         OfPersister(o)' <=> OfPersister(o), OfMerger(o)' <=> OfMerger(o)
  PROVE  Shift(o) = One(OfWriter(w, o)') - One(OfWriter(w, o))
<1>1. Introducing(o)' - Introducing(o) = One(OfWriter(w, o)') - One(OfWriter(w, o))
  BY IntroducingMoves
<1>2. /\ One(OfPersister(o)') - One(OfPersister(o)) = 0
      /\ One(OfMerger(o)') - One(OfMerger(o)) = 0
  BY DEF One
<1>3. One(OfWriter(w, o)') \in Int /\ One(OfWriter(w, o)) \in Int
  BY OneType
<1> QED
  BY <1>1, <1>2, <1>3 DEF Shift

LEMMA ShiftByPersister ==
  ASSUME RefsAssumption, NEW o, \A v \in Writer : OfWriter(v, o)' <=> OfWriter(v, o),
         OfMerger(o)' <=> OfMerger(o)
  PROVE  Shift(o) = One(OfPersister(o)') - One(OfPersister(o))
<1>1. Introducing(o)' - Introducing(o) = 0
  BY IntroducingSame
<1>2. One(OfMerger(o)') - One(OfMerger(o)) = 0
  BY DEF One
<1>3. One(OfPersister(o)') \in Int /\ One(OfPersister(o)) \in Int
  BY OneType
<1> QED
  BY <1>1, <1>2, <1>3 DEF Shift

LEMMA ShiftByMerger ==
  ASSUME RefsAssumption, NEW o, \A v \in Writer : OfWriter(v, o)' <=> OfWriter(v, o),
         OfPersister(o)' <=> OfPersister(o)
  PROVE  Shift(o) = One(OfMerger(o)') - One(OfMerger(o))
<1>1. Introducing(o)' - Introducing(o) = 0
  BY IntroducingSame
<1>2. One(OfPersister(o)') - One(OfPersister(o)) = 0
  BY DEF One
<1>3. One(OfMerger(o)') \in Int /\ One(OfMerger(o)) \in Int
  BY OneType
<1> QED
  BY <1>1, <1>2, <1>3 DEF Shift

\* A call of Batch ends, closing what it has.
LEMMA BatchEndsPreserves ==
  ASSUME RefsAssumption, Inv, Inv', SegInv, NEW w \in Writer, NEW X, BatchEnds(w, X),
         writers[w].pc # "idle",
         \A o \in 1 .. Len(segments) : /\ OfWriter(w, o) => o \in X
                                       /\ ~BatchesFail => (o \in X => OfWriter(w, o))
  PROVE  Preserved
<1> DEFINE held == writers[w].snap
<1>0. UNCHANGED <<root, readers, introducer, persister, merger, index, used>>
  BY DEF BatchEnds
<1>1. held \in 1 .. Len(snapshots) /\ Len(snapshots) \in Nat
  BY SMTT(30), StateTyped DEF Inv, TypeOK, ABatch, InRange, Fits, WritersFit
<1>2. snapshots[held].refs > 0
  BY <1>1, HeldHasRefs
<1>3. /\ \A v \in Writer : v # w => writers'[v] = writers[v]
      /\ writers'[w].pc = "idle"
  <2>1. NoBatch.pc = "idle"
    BY DEF NoBatch
  <2>2. writers \in [Writer -> ABatch] /\ writers' = [writers EXCEPT ![w] = NoBatch]
    BY DEF Inv, TypeOK, BatchEnds
  <2> QED
    BY <2>1, <2>2
<1>4. FilesFit' /\ SegmentsFit'
  BY <1>0 DEF SegInv, FilesFit, SegmentsFit
<1>5. AnswersFit'
  BY <1>3 DEF SegInv, AnswersFit, BatchesFail
<1>6. ASSUME NEW o \in 1 .. Len(segments)
      PROVE  /\ \A v \in Writer : v # w => (OfWriter(v, o)' <=> OfWriter(v, o))
             /\ ~OfWriter(w, o)'
             /\ OfPersister(o)' <=> OfPersister(o)
             /\ InFiles(o)' <=> InFiles(o)
             /\ OfMerger(o)' <=> OfMerger(o)
  BY <1>0, <1>3 DEF OfWriter, OfPersister, OfMerger, InFiles
<1>7. ASSUME NEW o \in 1 .. Len(segments)
      PROVE  /\ Workers <= 1 => Shift(o) + One(o \in X) >= 0
             /\ ~persister'.raced /\ ~BatchesFail => Shift(o) + One(o \in X) <= 0
  <2>1. Shift(o) = One(OfWriter(w, o)') - One(OfWriter(w, o))
    BY <1>6, ShiftByWriter
  <2>2. One(OfWriter(w, o)') = 0
    BY <1>6 DEF One
  <2>3. OfWriter(w, o) => o \in X
    OBVIOUS
  <2>4. ~BatchesFail => (o \in X => OfWriter(w, o))
    OBVIOUS
  <2> QED
    BY <2>1, <2>2, <2>3, <2>4 DEF One
<1>8. Becomes(LetGoIfAny(CloseAndLetGo(X, held), 0))
  BY DEF BatchEnds, LetGoIfAny
<1>9. held \in 0 .. Len(snapshots) /\ 0 \in 0 .. Len(snapshots)
  BY <1>1
<1> HIDE DEF held
<1>10. \A o \in 1 .. Len(segments) :
           /\ \A v \in Writer : OfWriter(v, o)' => OfWriter(v, o)
           /\ OfPersister(o)' => OfPersister(o)
           /\ InFiles(o)' => InFiles(o) \/ OfPersister(o)
           /\ OfMerger(o)' => OfMerger(o)
           /\ Workers <= 1 => Shift(o) + One(o \in X) >= 0
           /\ ~persister'.raced /\ ~BatchesFail => Shift(o) + One(o \in X) <= 0
  BY <1>6, <1>7
<1> QED
  BY <1>0, <1>2, <1>4, <1>5, <1>8, <1>9, <1>10, LetGoPreserves

LEMMA BatchReturnsPreserves ==
  ASSUME RefsAssumption, Inv, Inv', SegInv, NEW w \in Writer, BatchReturns(w)
  PROVE  Preserved
<1>1. writers[w].pc = "return" /\ BatchEnds(w, {})
  BY DEF BatchReturns
<1>2. \A o \in 1 .. Len(segments) : /\ OfWriter(w, o) => o \in {}
                                    /\ ~BatchesFail => (o \in {} => OfWriter(w, o))
  BY <1>1 DEF OfWriter
<1> QED
  BY <1>1, <1>2, BatchEndsPreserves

LEMMA BatchFailsPreserves ==
  ASSUME RefsAssumption, Inv, Inv', SegInv, NEW w \in Writer, BatchFails(w)
  PROVE  Preserved
<1> DEFINE X == {writers[w].seg} \ {0}
<1>1. writers[w].pc \in {"introducing", "failed"} /\ BatchEnds(w, X)
  BY DEF BatchFails
<1>2. \A o \in 1 .. Len(segments) : /\ OfWriter(w, o) => o \in X
                                    /\ ~BatchesFail => (o \in X => OfWriter(w, o))
  <2>1. ~BatchesFail => writers[w].pc = "introducing"
    BY <1>1 DEF SegInv, AnswersFit
  <2>2. \A o \in 1 .. Len(segments) : o # 0
    BY StateTyped DEF Inv
  <2> QED
    BY <2>1, <2>2 DEF OfWriter
<1> HIDE DEF X
<1> QED
  BY <1>1, <1>2, BatchEndsPreserves

\* The persister skips its merge.
LEMMA SkippedMergePreserves ==
  ASSUME RefsAssumption, Inv, Inv', SegInv, AfterInMemoryMerge, persister.kept = {}
  PROVE  Preserved
<1> DEFINE X == persister.opened
           held == persister.new
<1>0. /\ persister.pc = "merged"
      /\ UNCHANGED <<root, writers, readers, introducer, merger, index, used>>
      /\ persister' = [persister EXCEPT !.pc = "direct", !.new = 0, !.opened = {}, !.merged = {}]
  BY DEF AfterInMemoryMerge, PersisterMoves
<1>1. held \in 1 .. Len(snapshots) /\ Len(snapshots) \in Nat
  BY SMTT(30), <1>0, StateTyped DEF Inv, TypeOK, APersister, InRange, Fits, PersisterFits
<1>2. snapshots[held].refs > 0
  BY <1>1, HeldHasRefs
<1>3. /\ persister'.pc = "direct" /\ persister'.opened = {}
      /\ persister'.kept = {} /\ persister'.raced = persister.raced
  BY <1>0 DEF Inv, TypeOK, APersister
<1>4. FilesFit' /\ SegmentsFit' /\ AnswersFit'
  BY <1>0, <1>3 DEF SegInv, FilesFit, SegmentsFit, AnswersFit, BatchesFail
<1>5. ASSUME NEW o \in 1 .. Len(segments)
      PROVE  /\ \A v \in Writer : OfWriter(v, o)' <=> OfWriter(v, o)
             /\ ~OfPersister(o)'
             /\ OfPersister(o) <=> o \in X
             /\ InFiles(o)' <=> InFiles(o)
             /\ OfMerger(o)' <=> OfMerger(o)
  BY <1>0, <1>3 DEF OfWriter, OfPersister, OfMerger, InFiles
<1>6. ASSUME NEW o \in 1 .. Len(segments)
      PROVE  Shift(o) + One(o \in X) = 0
  <2>1. Shift(o) = One(OfPersister(o)') - One(OfPersister(o))
    BY <1>5, ShiftByPersister
  <2> QED
    BY <1>5, <2>1 DEF One
<1>7. Becomes(LetGoIfAny(CloseAndLetGo(X, held), 0))
  BY DEF AfterInMemoryMerge, LetGoIfAny
<1>8. held \in 0 .. Len(snapshots) /\ 0 \in 0 .. Len(snapshots)
  BY <1>1
<1> HIDE DEF held, X
<1>9. \A o \in 1 .. Len(segments) :
           /\ \A v \in Writer : OfWriter(v, o)' => OfWriter(v, o)
           /\ OfPersister(o)' => OfPersister(o)
           /\ InFiles(o)' => InFiles(o) \/ OfPersister(o)
           /\ OfMerger(o)' => OfMerger(o)
           /\ Workers <= 1 => Shift(o) + One(o \in X) >= 0
           /\ ~persister'.raced /\ ~BatchesFail => Shift(o) + One(o \in X) <= 0
  BY <1>5, <1>6
<1> QED
  BY <1>2, <1>3, <1>4, <1>7, <1>8, <1>9, LetGoPreserves

\* The persister is done with its snapshot.
LEMMA PersisterLetsGoPreserves ==
  ASSUME RefsAssumption, Inv, Inv', SegInv, NEW p, NEW answer, PersisterLetsGo(p, answer),
         persister.pc \in {"took", "direct", "commit", "merge", "send", "sent"},
         p.pc \in {"idle", "done"}, p.opened = {}, p.kept = {},
         introducer.pc = "persist" => p.raced, p.raced => p.pc = "done",
         answer \in {"return", "failed"}, ~BatchesFail /\ answer = "failed" => persister.acks = {}
  PROVE  Preserved
<1> DEFINE X == persister.opened
           new == persister.new
           snap == persister.snap
<1>0. persister' = p /\ UNCHANGED <<root, readers, introducer, merger, index>>
  BY DEF PersisterLetsGo, PersisterMoves
<1>1. /\ new \in 0 .. Len(snapshots) /\ snap \in 0 .. Len(snapshots) /\ Len(snapshots) \in Nat
  BY StateTyped DEF Inv, TypeOK, APersister, InRange
<1>2. /\ new # 0 => snapshots[new].refs > 0
      /\ snap # 0 => snapshots[snap].refs > One(new = snap)
  <2>1. ASSUME new # 0 PROVE snapshots[new].refs > 0
    <3>1. new \in 1 .. Len(snapshots)
      BY <1>1, <2>1
    <3> QED
      BY <3>1, HeldHasRefs
  <2>2. ASSUME snap # 0 PROVE snapshots[snap].refs > One(new = snap)
    <3>1. snap \in 1 .. Len(snapshots)
      BY <1>1, <2>2
    <3> QED
      BY <3>1, HeldHasRefs
  <2> QED
    BY <2>1, <2>2
<1>3. \A v \in Writer : /\ writers'[v].seg = writers[v].seg
                        /\ writers'[v].pc = IF v \in persister.acks THEN answer
                                            ELSE writers[v].pc
  <2>1. \A v \in Writer : writers[v] \in ABatch
    BY DEF Inv, TypeOK
  <2>2. \A v \in Writer : writers'[v] = IF v \in persister.acks
                                        THEN [writers[v] EXCEPT !.pc = answer] ELSE writers[v]
    BY DEF PersisterLetsGo
  <2> QED
    BY <2>1, <2>2 DEF ABatch
<1>4. \A v \in persister.acks : v \in Writer /\ writers[v].pc = "persisting"
  BY DEF Inv, TypeOK, APersister, Fits, PersisterFits
<1>5. FilesFit'
  <2>1. ~persister.raced
    BY DEF SegInv, FilesFit
  <2>2. introducer'.pc = "persist" => persister'.raced
    BY <1>0
  <2>3. persister'.raced => persister'.pc = "done"
    BY <1>0
  <2>4. persister'.pc \notin {"sent", "send"}
    BY <1>0
  <2> QED
    BY <2>2, <2>3, <2>4 DEF FilesFit
<1>6. SegmentsFit'
  BY <1>0 DEF SegInv, SegmentsFit
<1>7. AnswersFit'
  <2>1. ASSUME ~BatchesFail, NEW v \in Writer
        PROVE  writers'[v].pc # "failed" /\ (UnsafeBatch => writers'[v].pc # "persisting")
    <3>1. writers[v].pc # "failed" /\ (UnsafeBatch => writers[v].pc # "persisting")
      BY <2>1 DEF SegInv, AnswersFit
    <3>2. v \in persister.acks => answer # "failed"
      BY <2>1
    <3> QED
      BY <1>3, <3>1, <3>2
  <2> QED
    BY <2>1 DEF AnswersFit, BatchesFail
<1>8. persister.opened \cap persister.kept = {}
  BY DEF SegInv, SegmentsFit
<1>9. ASSUME NEW o \in 1 .. Len(segments)
      PROVE  /\ \A v \in Writer : OfWriter(v, o)' => OfWriter(v, o)
             /\ \A v \in Writer : OfWriter(v, o)' <=> OfWriter(v, o)
             /\ ~OfPersister(o)'
             /\ OfPersister(o) <=> o \in X
             /\ InFiles(o)' <=> InFiles(o)
             /\ OfMerger(o)' <=> OfMerger(o)
  <2>1. ASSUME NEW v \in Writer PROVE writers'[v].pc = "introducing" <=> writers[v].pc = "introducing"
    <3>1. CASE v \in persister.acks
      <4>1. writers[v].pc = "persisting" /\ writers'[v].pc = answer
        BY <1>3, <1>4, <3>1
      <4> QED
        BY <4>1
    <3>2. CASE v \notin persister.acks
      BY <1>3, <3>2
    <3> QED
      BY <3>1, <3>2
  <2>2. \A v \in Writer : OfWriter(v, o)' <=> OfWriter(v, o)
    BY <1>3, <2>1 DEF OfWriter
  <2> QED
    BY <1>0, <1>8, <2>2 DEF OfPersister, OfMerger, InFiles
<1>10. ASSUME NEW o \in 1 .. Len(segments)
       PROVE  Shift(o) + One(o \in X) = 0
  <2>1. Shift(o) = One(OfPersister(o)') - One(OfPersister(o))
    BY <1>9, ShiftByPersister
  <2> QED
    BY <1>9, <2>1 DEF One
<1>11. Becomes(LetGoIfAny(CloseAndLetGo(X, new), snap))
  BY DEF PersisterLetsGo
<1>12. persister.raced => persister'.raced
  BY DEF SegInv, FilesFit
<1> HIDE DEF X, new, snap
<1>13. \A o \in 1 .. Len(segments) :
           /\ \A v \in Writer : OfWriter(v, o)' => OfWriter(v, o)
           /\ OfPersister(o)' => OfPersister(o)
           /\ InFiles(o)' => InFiles(o) \/ OfPersister(o)
           /\ OfMerger(o)' => OfMerger(o)
           /\ Workers <= 1 => Shift(o) + One(o \in X) >= 0
           /\ ~persister'.raced /\ ~BatchesFail => Shift(o) + One(o \in X) <= 0
  BY <1>9, <1>10
<1> QED
  BY <1>1, <1>2, <1>5, <1>6, <1>7, <1>11, <1>12, <1>13, LetGoPreserves

LEMMA CommitPreserves ==
  ASSUME RefsAssumption, Inv, Inv', SegInv, Commit
  PROVE  Preserved
<1> DEFINE p == Idle(persister.snap)
<1>1. persister.pc = "commit" /\ PersisterLetsGo(p, "return")
  BY DEF Commit
<1>2. p.pc = "idle" /\ p.opened = {} /\ p.kept = {} /\ p.raced = FALSE
  BY DEF Idle
<1>3. introducer.pc # "persist"
  BY <1>1 DEF SegInv, FilesFit
<1> HIDE DEF p
<1> QED
  BY <1>1, <1>2, <1>3, PersisterLetsGoPreserves

LEMMA PersistFailsPreserves ==
  ASSUME RefsAssumption, Inv, Inv', SegInv, PersistFails
  PROVE  Preserved
<1> DEFINE p == Idle(persister.lastPersisted)
<1>1. /\ persister.pc \in {"took", "direct", "commit"} /\ PersisterLetsGo(p, "failed")
      /\ used.failures < MaxFailures
  BY DEF PersistFails, Uses
<1>2. p.pc = "idle" /\ p.opened = {} /\ p.kept = {} /\ p.raced = FALSE
  BY DEF Idle
<1>3. introducer.pc # "persist"
  BY <1>1 DEF SegInv, FilesFit
<1>4. ~BatchesFail => persister.acks = {}
  <2>1. used.failures \in Nat /\ MaxFailures \in Nat
    BY DEF Inv, TypeOK, RefsAssumption
  <2>2. MaxFailures > 0
    BY <1>1, <2>1
  <2>3. ~BatchesFail => UnsafeBatch
    BY <2>2 DEF BatchesFail
  <2>4. \A v \in persister.acks : v \in Writer /\ writers[v].pc = "persisting"
    BY DEF Inv, TypeOK, APersister, Fits, PersisterFits
  <2> QED
    BY <2>3, <2>4 DEF SegInv, AnswersFit
<1> HIDE DEF p
<1> QED
  BY <1>1, <1>2, <1>3, <1>4, PersisterLetsGoPreserves

LEMMA PersisterClosedPreserves ==
  ASSUME RefsAssumption, Inv, Inv', SegInv, PersisterClosed
  PROVE  Preserved
<1> DEFINE raced == introducer.pc = "persist"
           p == [Idle(persister.lastPersisted) EXCEPT !.pc = "done", !.raced = raced]
<1>1. persister.pc \in {"merge", "send", "sent"} /\ Closing /\ PersisterLetsGo(p, "failed")
  BY DEF PersisterClosed
<1>2. p.pc = "done" /\ p.opened = {} /\ p.kept = {} /\ p.raced = raced
  BY DEF Idle
<1>3. persister.acks = {}
  <2>1. \A v \in persister.acks : v \in Writer /\ writers[v].pc = "persisting"
    BY DEF Inv, TypeOK, APersister, Fits, PersisterFits
  <2> QED
    BY <1>1, <2>1 DEF Inv, Fits, IndexFits
<1> HIDE DEF p
<1> QED
  BY <1>1, <1>2, <1>3, PersisterLetsGoPreserves

\* The merger has its answer.
LEMMA AfterFileMergePreserves ==
  ASSUME RefsAssumption, Inv, Inv', SegInv, AfterFileMerge
  PROVE  Preserved
<1> DEFINE X == IF merger.kept THEN {} ELSE {merger.seg}
           held == merger.new
<1>0. /\ merger.pc = "merged"
      /\ UNCHANGED <<root, writers, readers, introducer, persister, index, used>>
  BY DEF AfterFileMerge, MergerMoves
<1>1. held \in 1 .. Len(snapshots) /\ Len(snapshots) \in Nat
  BY SMTT(30), <1>0, StateTyped DEF Inv, TypeOK, AMerger, InRange, Fits, MergerFits
<1>2. snapshots[held].refs > 0
  BY <1>1, HeldHasRefs
<1>3. merger'.pc = "plan" /\ merger'.seg = 0 /\ ~merger'.kept
  BY DEF AfterFileMerge, MergerMoves, Inv, TypeOK, AMerger
<1>4. FilesFit' /\ SegmentsFit' /\ AnswersFit'
  BY <1>0, <1>3 DEF SegInv, FilesFit, SegmentsFit, AnswersFit, BatchesFail
<1>5. ASSUME NEW o \in 1 .. Len(segments)
      PROVE  /\ \A v \in Writer : OfWriter(v, o)' <=> OfWriter(v, o)
             /\ ~OfMerger(o)'
             /\ OfMerger(o) <=> o \in X
             /\ InFiles(o)' <=> InFiles(o)
             /\ OfPersister(o)' <=> OfPersister(o)
  <2>1. o # 0
    BY StateTyped DEF Inv
  <2> QED
    BY <1>0, <1>3, <2>1 DEF OfWriter, OfPersister, OfMerger, InFiles
<1>6. ASSUME NEW o \in 1 .. Len(segments)
      PROVE  Shift(o) + One(o \in X) = 0
  <2>1. Shift(o) = One(OfMerger(o)') - One(OfMerger(o))
    BY <1>5, ShiftByMerger
  <2> QED
    BY <1>5, <2>1 DEF One
<1>7. Becomes(LetGoIfAny(CloseAndLetGo(X, held), 0))
  BY DEF AfterFileMerge, LetGoIfAny
<1>8. held \in 0 .. Len(snapshots) /\ 0 \in 0 .. Len(snapshots)
  BY <1>1
<1> HIDE DEF held, X
<1>9. \A o \in 1 .. Len(segments) :
           /\ \A v \in Writer : OfWriter(v, o)' => OfWriter(v, o)
           /\ OfPersister(o)' => OfPersister(o)
           /\ InFiles(o)' => InFiles(o) \/ OfPersister(o)
           /\ OfMerger(o)' => OfMerger(o)
           /\ Workers <= 1 => Shift(o) + One(o \in X) >= 0
           /\ ~persister'.raced /\ ~BatchesFail => Shift(o) + One(o \in X) <= 0
  BY <1>5, <1>6
<1> QED
  BY <1>0, <1>2, <1>4, <1>7, <1>8, <1>9, LetGoPreserves

\* The merger is done with its snapshot.
LEMMA MergerLetsGoPreserves ==
  ASSUME RefsAssumption, Inv, Inv', SegInv, NEW m, MergerLetsGo(m), merger.pc \in {"plan", "send"},
         m.pc \in {"idle", "done"}, m.seg = 0, ~m.kept
  PROVE  Preserved
<1> DEFINE X == IF merger.pc = "send" THEN {merger.seg} ELSE {}
           held == merger.snap
<1>0. /\ merger' = m
      /\ UNCHANGED <<root, writers, readers, introducer, persister, index>>
  BY DEF MergerLetsGo, MergerMoves
<1>1. held \in 1 .. Len(snapshots) /\ Len(snapshots) \in Nat
  <2>1. merger.snap # 0
    BY DEF Inv, Fits, MergerFits
  <2>2. merger.snap \in Nat /\ merger.snap <= Len(snapshots)
    BY DEF Inv, TypeOK, AMerger, InRange
  <2> QED
    BY <2>1, <2>2, StateTyped DEF Inv
<1>2. snapshots[held].refs > 0
  BY <1>1, HeldHasRefs
<1>4. FilesFit' /\ SegmentsFit' /\ AnswersFit'
  BY <1>0 DEF SegInv, FilesFit, SegmentsFit, AnswersFit, BatchesFail
<1>5. ASSUME NEW o \in 1 .. Len(segments)
      PROVE  /\ \A v \in Writer : OfWriter(v, o)' <=> OfWriter(v, o)
             /\ ~OfMerger(o)'
             /\ OfMerger(o) <=> o \in X
             /\ InFiles(o)' <=> InFiles(o)
             /\ OfPersister(o)' <=> OfPersister(o)
  <2>1. o # 0
    BY StateTyped DEF Inv
  <2>2. merger.pc = "plan" => merger.seg = 0
    BY DEF Inv, Fits, MergerFits
  <2>3. ~merger.kept
    BY DEF SegInv, SegmentsFit
  <2> QED
    BY <1>0, <2>1, <2>2, <2>3 DEF OfWriter, OfPersister, OfMerger, InFiles
<1>6. ASSUME NEW o \in 1 .. Len(segments)
      PROVE  Shift(o) + One(o \in X) = 0
  <2>1. Shift(o) = One(OfMerger(o)') - One(OfMerger(o))
    BY <1>5, ShiftByMerger
  <2> QED
    BY <1>5, <2>1 DEF One
<1>7. Becomes(LetGoIfAny(CloseAndLetGo(X, held), 0))
  BY DEF MergerLetsGo, LetGoIfAny
<1>8. held \in 0 .. Len(snapshots) /\ 0 \in 0 .. Len(snapshots)
  BY <1>1
<1> HIDE DEF held, X
<1>9. \A o \in 1 .. Len(segments) :
           /\ \A v \in Writer : OfWriter(v, o)' => OfWriter(v, o)
           /\ OfPersister(o)' => OfPersister(o)
           /\ InFiles(o)' => InFiles(o) \/ OfPersister(o)
           /\ OfMerger(o)' => OfMerger(o)
           /\ Workers <= 1 => Shift(o) + One(o \in X) >= 0
           /\ ~persister'.raced /\ ~BatchesFail => Shift(o) + One(o \in X) <= 0
  BY <1>5, <1>6
<1> QED
  BY <1>0, <1>2, <1>4, <1>7, <1>8, <1>9, LetGoPreserves

LEMMA MergeEndsPreserves ==
  ASSUME RefsAssumption, Inv, Inv', SegInv, MergeDone \/ MergeFails \/ MergeClosed
  PROVE  Preserved
<1> DEFINE closed == [Resting(merger.lastPlanned) EXCEPT !.pc = "done"]
<1>1. /\ merger.pc \in {"plan", "send"}
      /\ \/ MergerLetsGo(Resting(merger.snap)) \/ MergerLetsGo(Resting(merger.lastPlanned))
         \/ MergerLetsGo(closed)
  BY DEF MergeDone, MergeFails, MergeClosed
<1>2. \A n : Resting(n).pc = "idle" /\ Resting(n).seg = 0 /\ ~Resting(n).kept
  BY DEF Resting
<1>3. closed.pc = "done" /\ closed.seg = 0 /\ ~closed.kept
  BY DEF Resting
<1> HIDE DEF closed
<1> QED
  BY <1>1, <1>2, <1>3, MergerLetsGoPreserves

---------------------------------------------------------------------------
(* Steps that build a snapshot *)

\* What is put in it was somebody's, who has it no longer.
LEMMA BuildPreserves ==
  ASSUME RefsAssumption, Inv, Inv', SegInv, root \in 1 .. Len(snapshots),
         NEW kept \in SUBSET snapshots[root].segs, NEW added \in SUBSET (1 .. Len(segments)),
         Len(snapshots') = Len(snapshots) + 1, segments' = Counted(segments, kept, 1),
         snapshots'[Len(snapshots) + 1].segs = kept \cup added,
         snapshots'[Len(snapshots) + 1].refs > 0,
         \A u \in 1 .. Len(snapshots) :
           /\ snapshots'[u].segs = snapshots[u].segs
           /\ snapshots'[u].refs > 0 <=> snapshots[u].refs > 0,
         persister.raced => persister'.raced,
         \A o \in 1 .. Len(segments) :
           /\ \A w \in Writer : OfWriter(w, o)' => OfWriter(w, o)
           /\ OfPersister(o)' => OfPersister(o)
           /\ ~InFiles(o)'
           /\ OfMerger(o)' => OfMerger(o)
           /\ o \in added => OwnedBy(o) /\ ~OwnedBy(o)'
           /\ Workers <= 1 => Shift(o) + One(o \in added) >= 0
           /\ ~persister'.raced /\ ~BatchesFail => Shift(o) + One(o \in added) <= 0,
         FilesFit', SegmentsFit', AnswersFit'
  PROVE  Preserved
<1>1. Len(snapshots) \in Nat /\ Len(segments) \in Nat
  BY StateTyped DEF Inv
<1>2. kept \cap added = {}
  <2>1. \A o \in added : o \notin snapshots[root].segs
    BY DEF SegInv, Apart
  <2> QED
    BY <2>1
<1>3. /\ Len(segments') = Len(segments)
      /\ \A o \in 1 .. Len(segments) : Balance(State', o) - Balance(State, o) = One(o \in added)
      /\ (\A o \in kept \cap (1 .. Len(segments)) : segments[o].count > 0) => StaysClosed
  BY <1>2, BuildBalances
<1>4. Apart'
  <2>1. ASSUME NEW o \in 1 .. Len(segments), OwnedBy(o)'
        PROVE  OwnedBy(o) /\ o \notin added
    BY <2>1 DEF OwnedBy
  <2>2. ASSUME NEW o \in 1 .. Len(segments), OwnedBy(o)', NEW s \in 1 .. Len(snapshots) + 1
        PROVE  o \notin snapshots'[s].segs
    <3>1. OwnedBy(o) /\ o \notin added
      BY <2>1, <2>2
    <3>2. \A u \in 1 .. Len(snapshots) : o \notin snapshots[u].segs
      BY <3>1 DEF SegInv, Apart
    <3>3. CASE s \in 1 .. Len(snapshots)
      BY <3>2, <3>3
    <3>4. CASE s = Len(snapshots) + 1
      BY <3>1, <3>2, <3>4
    <3>5. s \in 1 .. Len(snapshots) \/ s = Len(snapshots) + 1
      <4> DEFINE n == Len(snapshots)
      <4>1. n \in Nat /\ s \in 1 .. n + 1
        BY <1>1
      <4> HIDE DEF n
      <4>2. s \in 1 .. n \/ s = n + 1
        BY <4>1
      <4> QED
        BY <4>2 DEF n
    <3> QED
      BY <3>3, <3>4, <3>5
  <2>3. ASSUME NEW o \in 1 .. Len(segments)
        PROVE  /\ \A w, v \in Writer : OfWriter(w, o)' /\ OfWriter(v, o)' => w = v
               /\ \A w \in Writer : OfWriter(w, o)' => ~OfPersister(o)' /\ ~InFiles(o)' /\ ~OfMerger(o)'
               /\ OfMerger(o)' => ~OfPersister(o)' /\ ~InFiles(o)'
    BY <2>3 DEF SegInv, Apart
  <2> QED
    BY <1>3, <2>2, <2>3 DEF Apart
<1>5. ExcessFits'
  BY <1>3, ExcessShifts DEF SegInv
<1>6. ~BatchesFail => StaysClosed
  <2>1. CASE persister'.raced
    BY <2>1 DEF StaysClosed
  <2>2. ASSUME ~persister'.raced, ~BatchesFail PROVE StaysClosed
    <3>1. snapshots[root].refs > 0
      BY HeldHasRefs
    <3>2. \A o \in kept : segments[o].count > 0
      BY <2>2, <3>1, RootSegmentsOpen DEF SegInv
    <3> QED
      BY <1>3, <3>2
  <2> QED
    BY <2>1, <2>2
<1> QED
  BY <1>4, <1>5, <1>6 DEF Preserved, SegInv

\* The snapshot that Build puts at the end.
LEMMA BuildFits ==
  ASSUME RefsAssumption, Inv, introducer.pc = "idle", NEW kept \in SUBSET snapshots[root].segs,
         NEW added \in SUBSET (1 .. Len(segments)), NEW refs \in {1, 2},
         Build(kept, added, refs), segments' = Counted(segments, kept, 1)
  PROVE  /\ root \in 1 .. Len(snapshots) /\ introducer'.pc = "swap"
         /\ Len(snapshots') = Len(snapshots) + 1
         /\ snapshots'[Len(snapshots) + 1].segs = kept \cup added
         /\ snapshots'[Len(snapshots) + 1].refs > 0
         /\ \A u \in 1 .. Len(snapshots) :
              /\ snapshots'[u].segs = snapshots[u].segs
              /\ snapshots'[u].refs > 0 <=> snapshots[u].refs > 0
<1> DEFINE n == Len(snapshots) + 1
<1>1. /\ root \in 1 .. Len(snapshots) /\ Len(snapshots') = n
      /\ \A u \in 1 .. Len(snapshots) : snapshots'[u].segs = snapshots[u].segs
      /\ snapshots'[n].segs = kept \cup added
      /\ \A u \in 1 .. n : snapshots'[u].refs = Before(u) + (One(root = u)
                                                              + (IF u = n THEN refs ELSE 0))
  BY BuildIs
<1>2. introducer'.pc = "swap"
  BY BuildIntroducer
<1>3. Len(snapshots) \in Nat /\ n \in 1 .. n /\ ~(n <= Len(snapshots)) /\ root # n
  BY <1>1, StateTyped DEF Inv
<1>4. snapshots'[n].refs > 0
  <2>1. Before(n) = 0 /\ One(root = n) = 0
    BY <1>3 DEF Before, One
  <2>2. snapshots'[n].refs = 0 + (0 + refs)
    BY <1>1, <1>3, <2>1
  <2> QED
    BY <2>2
<1>5. ASSUME NEW u \in 1 .. Len(snapshots)
      PROVE  snapshots'[u].refs > 0 <=> snapshots[u].refs > 0
  <2>1. u \in 1 .. n /\ u # n /\ Before(u) = snapshots[u].refs /\ snapshots[u].refs \in Int
    BY <1>3, HeldHasRefs DEF Before
  <2>2. snapshots'[u].refs = snapshots[u].refs + (One(root = u) + 0)
    BY <1>1, <2>1
  <2>3. CASE u = root
    <3>1. snapshots[u].refs > 0
      BY <2>3, HeldHasRefs
    <3> QED
      BY <2>1, <2>2, <2>3, <3>1 DEF One
  <2>4. CASE u # root
    BY <2>1, <2>2, <2>4 DEF One
  <2> QED
    BY <2>3, <2>4
<1> QED
  BY <1>1, <1>2, <1>4, <1>5

LEMMA IntroduceSegmentPreserves ==
  ASSUME RefsAssumption, Inv, Inv', SegInv, NEW w \in Writer, IntroduceSegment(w)
  PROVE  Preserved
<1> DEFINE added == {writers[w].seg} \ {0}
<1>0. /\ introducer.pc = "idle" /\ writers[w].pc = "introducing"
      /\ writers' = [writers EXCEPT ![w].pc = "introduced"]
      /\ UNCHANGED <<root, readers, persister, merger, index, used>>
  BY DEF IntroduceSegment
<1>1. PICK kept \in SUBSET snapshots[root].segs : /\ Build(kept, added, 1)
                                                  /\ segments' = Counted(segments, kept, 1)
  BY DEF IntroduceSegment
<1>2. added \in SUBSET (1 .. Len(segments))
  <2>1. writers[w].seg \in Nat /\ writers[w].seg <= Len(segments) /\ Len(segments) \in Nat
    BY StateTyped DEF Inv, InRange, TypeOK, ABatch
  <2> QED
    BY <2>1
<1>3. /\ root \in 1 .. Len(snapshots) /\ introducer'.pc = "swap"
      /\ Len(snapshots') = Len(snapshots) + 1
      /\ snapshots'[Len(snapshots) + 1].segs = kept \cup added
      /\ snapshots'[Len(snapshots) + 1].refs > 0
      /\ \A u \in 1 .. Len(snapshots) :
           /\ snapshots'[u].segs = snapshots[u].segs
           /\ snapshots'[u].refs > 0 <=> snapshots[u].refs > 0
  <2> HIDE DEF added
  <2> QED
    BY <1>0, <1>1, <1>2, BuildFits
<1>4. \A v \in Writer : /\ writers'[v].seg = writers[v].seg
                        /\ writers'[v].pc = IF v = w THEN "introduced" ELSE writers[v].pc
  BY <1>0, WriterSteps DEF Inv, Pcs
<1>5. FilesFit' /\ SegmentsFit' /\ AnswersFit'
  BY <1>0, <1>3, <1>4 DEF SegInv, FilesFit, SegmentsFit, AnswersFit, BatchesFail
<1>6. ASSUME NEW o \in 1 .. Len(segments)
      PROVE  /\ \A v \in Writer : v # w => (OfWriter(v, o)' <=> OfWriter(v, o))
             /\ ~OfWriter(w, o)'
             /\ OfWriter(w, o) <=> o \in added
             /\ OfPersister(o)' <=> OfPersister(o)
             /\ ~InFiles(o)'
             /\ OfMerger(o)' <=> OfMerger(o)
  <2>1. o # 0
    BY StateTyped DEF Inv
  <2> QED
    BY <1>0, <1>3, <1>4, <2>1 DEF OfWriter, OfPersister, OfMerger, InFiles
<1>7. ASSUME NEW o \in 1 .. Len(segments)
      PROVE  Shift(o) + One(o \in added) = 0
  <2>1. Shift(o) = One(OfWriter(w, o)') - One(OfWriter(w, o))
    BY <1>6, ShiftByWriter
  <2> QED
    BY <1>6, <2>1 DEF One
<1> HIDE DEF added
<1>8. ASSUME NEW o \in 1 .. Len(segments), o \in added
      PROVE  OwnedBy(o) /\ ~OwnedBy(o)'
  <2>1. OfWriter(w, o)
    BY <1>6, <1>8
  <2>2. /\ \A v \in Writer : OfWriter(v, o) => v = w
        /\ ~OfPersister(o) /\ ~OfMerger(o)
    BY <2>1 DEF SegInv, Apart
  <2> QED
    BY <1>6, <2>1, <2>2 DEF OwnedBy
<1>9. \A o \in 1 .. Len(segments) :
           /\ \A v \in Writer : OfWriter(v, o)' => OfWriter(v, o)
           /\ OfPersister(o)' => OfPersister(o)
           /\ ~InFiles(o)'
           /\ OfMerger(o)' => OfMerger(o)
           /\ o \in added => OwnedBy(o) /\ ~OwnedBy(o)'
           /\ Workers <= 1 => Shift(o) + One(o \in added) >= 0
           /\ ~persister'.raced /\ ~BatchesFail => Shift(o) + One(o \in added) <= 0
  BY <1>6, <1>7, <1>8
<1> QED
  BY <1>0, <1>1, <1>2, <1>3, <1>5, <1>9, BuildPreserves

\* The merge of in-memory segments is introduced.
LEMMA IntroduceInMemoryMergePreserves ==
  ASSUME RefsAssumption, Inv, Inv', SegInv, IntroduceInMemoryMerge
  PROVE  Preserved
<1> DEFINE n == Len(snapshots) + 1
           unmerged == snapshots[root].segs \ persister.merged
<1>0. /\ introducer.pc = "idle" /\ persister.pc = "merge"
      /\ UNCHANGED <<root, writers, readers, merger, index, used>>
  BY DEF IntroduceInMemoryMerge, BuildMerge
<1>1. PICK kept \in SUBSET persister.opened :
        /\ Build(unmerged, kept, 2) /\ segments' = Counted(segments, unmerged, 1)
        /\ persister' = [persister EXCEPT !.pc = "merging", !.new = n, !.kept = kept]
  BY DEF IntroduceInMemoryMerge, BuildMerge
<1>2. kept \in SUBSET (1 .. Len(segments)) /\ unmerged \in SUBSET snapshots[root].segs
  BY DEF Inv, InRange
<1>3. /\ root \in 1 .. Len(snapshots) /\ introducer'.pc = "swap"
      /\ Len(snapshots') = Len(snapshots) + 1
      /\ snapshots'[Len(snapshots) + 1].segs = unmerged \cup kept
      /\ snapshots'[Len(snapshots) + 1].refs > 0
      /\ \A u \in 1 .. Len(snapshots) :
           /\ snapshots'[u].segs = snapshots[u].segs
           /\ snapshots'[u].refs > 0 <=> snapshots[u].refs > 0
  <2> HIDE DEF unmerged
  <2> QED
    BY <1>0, <1>1, <1>2, BuildFits
<1>4. /\ persister'.pc = "merging" /\ persister'.opened = persister.opened
      /\ persister'.kept = kept /\ persister'.raced = persister.raced
      /\ persister.kept = {}
  <2> HIDE DEF n
  <2> QED
    BY <1>0, <1>1 DEF Inv, TypeOK, APersister, SegInv, SegmentsFit
<1>5. FilesFit' /\ AnswersFit'
  BY <1>0, <1>3, <1>4 DEF SegInv, FilesFit, AnswersFit, BatchesFail
<1>6. SegmentsFit'
  BY <1>0, <1>4 DEF SegInv, SegmentsFit
<1>7. ASSUME NEW o \in 1 .. Len(segments)
      PROVE  /\ \A v \in Writer : OfWriter(v, o)' <=> OfWriter(v, o)
             /\ OfPersister(o)' <=> o \in persister.opened /\ o \notin kept
             /\ OfPersister(o) <=> o \in persister.opened
             /\ ~InFiles(o)'
             /\ OfMerger(o)' <=> OfMerger(o)
  BY <1>0, <1>3, <1>4 DEF OfWriter, OfPersister, OfMerger, InFiles
<1>8. ASSUME NEW o \in 1 .. Len(segments)
      PROVE  Shift(o) + One(o \in kept) = 0
  <2>1. Shift(o) = One(OfPersister(o)') - One(OfPersister(o))
    BY <1>7, ShiftByPersister
  <2> QED
    BY <1>7, <2>1 DEF One
<1>9. ASSUME NEW o \in 1 .. Len(segments), o \in kept
      PROVE  OwnedBy(o) /\ ~OwnedBy(o)'
  <2>1. OfPersister(o) /\ ~OfPersister(o)'
    BY <1>7, <1>9
  <2>2. /\ \A v \in Writer : ~OfWriter(v, o)
        /\ ~OfMerger(o)
    BY <2>1 DEF SegInv, Apart
  <2> QED
    BY <1>7, <2>1, <2>2 DEF OwnedBy
<1> HIDE DEF unmerged, n
<1>10. \A o \in 1 .. Len(segments) :
           /\ \A v \in Writer : OfWriter(v, o)' => OfWriter(v, o)
           /\ OfPersister(o)' => OfPersister(o)
           /\ ~InFiles(o)'
           /\ OfMerger(o)' => OfMerger(o)
           /\ o \in kept => OwnedBy(o) /\ ~OwnedBy(o)'
           /\ Workers <= 1 => Shift(o) + One(o \in kept) >= 0
           /\ ~persister'.raced /\ ~BatchesFail => Shift(o) + One(o \in kept) <= 0
  BY <1>7, <1>8, <1>9
<1> QED
  BY <1>1, <1>2, <1>3, <1>4, <1>5, <1>6, <1>10, BuildPreserves

\* The merge of files is introduced.
LEMMA IntroduceFileMergePreserves ==
  ASSUME RefsAssumption, Inv, Inv', SegInv, IntroduceFileMerge
  PROVE  Preserved
<1> DEFINE n == Len(snapshots) + 1
           unmerged == snapshots[root].segs \ merger.merged
           files(kept) == IF kept THEN {merger.seg} ELSE {}
<1>0. /\ introducer.pc = "idle" /\ merger.pc = "send"
      /\ UNCHANGED <<root, writers, readers, persister, index, used>>
  BY DEF IntroduceFileMerge, BuildMerge
<1>1. PICK kept \in BOOLEAN :
        /\ Build(unmerged, files(kept), 2) /\ segments' = Counted(segments, unmerged, 1)
        /\ merger' = [merger EXCEPT !.pc = "merging", !.new = n, !.kept = kept]
  BY DEF IntroduceFileMerge, BuildMerge
<1> DEFINE added == files(kept)
<1>2. added \in SUBSET (1 .. Len(segments)) /\ unmerged \in SUBSET snapshots[root].segs
  <2>1. merger.seg # 0
    BY <1>0 DEF Inv, Fits, MergerFits
  <2>2. merger.seg \in Nat /\ merger.seg <= Len(segments) /\ Len(segments) \in Nat
    BY StateTyped DEF Inv, InRange, TypeOK, AMerger
  <2> QED
    BY <2>1, <2>2
<1>3. /\ root \in 1 .. Len(snapshots) /\ introducer'.pc = "swap"
      /\ Len(snapshots') = Len(snapshots) + 1
      /\ snapshots'[Len(snapshots) + 1].segs = unmerged \cup added
      /\ snapshots'[Len(snapshots) + 1].refs > 0
      /\ \A u \in 1 .. Len(snapshots) :
           /\ snapshots'[u].segs = snapshots[u].segs
           /\ snapshots'[u].refs > 0 <=> snapshots[u].refs > 0
  <2>1. Build(unmerged, added, 2) /\ segments' = Counted(segments, unmerged, 1)
    BY <1>1
  <2> HIDE DEF unmerged, files, added
  <2> QED
    BY <1>0, <1>2, <2>1, BuildFits
<1>4. /\ merger'.pc = "merging" /\ merger'.seg = merger.seg /\ merger'.kept = kept
      /\ ~merger.kept
  <2> HIDE DEF n
  <2>1. merger'.pc = "merging" /\ merger'.seg = merger.seg /\ merger'.kept = kept
    BY <1>1 DEF Inv, TypeOK, AMerger
  <2> QED
    BY <1>0, <2>1 DEF SegInv, SegmentsFit
<1>5. FilesFit' /\ SegmentsFit' /\ AnswersFit'
  BY <1>0, <1>3, <1>4 DEF SegInv, FilesFit, SegmentsFit, AnswersFit, BatchesFail
<1>6. ASSUME NEW o \in 1 .. Len(segments)
      PROVE  /\ \A v \in Writer : OfWriter(v, o)' <=> OfWriter(v, o)
             /\ OfPersister(o)' <=> OfPersister(o)
             /\ ~InFiles(o)'
             /\ OfMerger(o) <=> merger.seg = o
             /\ OfMerger(o)' <=> merger.seg = o /\ ~kept
             /\ o \in added <=> kept /\ merger.seg = o
  BY <1>0, <1>3, <1>4 DEF OfWriter, OfPersister, OfMerger, InFiles
<1>7. segments' = Counted(segments, unmerged, 1)
  BY <1>1
<1> HIDE DEF unmerged, n, files, added
<1>8. ASSUME NEW o \in 1 .. Len(segments)
      PROVE  Shift(o) + One(o \in added) = 0
  <2>1. Shift(o) = One(OfMerger(o)') - One(OfMerger(o))
    BY <1>6, ShiftByMerger
  <2> QED
    BY <1>6, <2>1 DEF One
<1>9. ASSUME NEW o \in 1 .. Len(segments), o \in added
      PROVE  OwnedBy(o) /\ ~OwnedBy(o)'
  <2>1. OfMerger(o) /\ ~OfMerger(o)'
    BY <1>6, <1>9
  <2>2. /\ \A v \in Writer : ~OfWriter(v, o)
        /\ ~OfPersister(o)
    BY <2>1 DEF SegInv, Apart
  <2> QED
    BY <1>6, <2>1, <2>2 DEF OwnedBy
<1>10. \A o \in 1 .. Len(segments) :
           /\ \A v \in Writer : OfWriter(v, o)' => OfWriter(v, o)
           /\ OfPersister(o)' => OfPersister(o)
           /\ ~InFiles(o)'
           /\ OfMerger(o)' => OfMerger(o)
           /\ o \in added => OwnedBy(o) /\ ~OwnedBy(o)'
           /\ Workers <= 1 => Shift(o) + One(o \in added) >= 0
           /\ ~persister'.raced /\ ~BatchesFail => Shift(o) + One(o \in added) <= 0
  BY <1>6, <1>8, <1>9
<1> QED
  BY <1>0, <1>2, <1>3, <1>5, <1>7, <1>10, BuildPreserves

\* The files that the persister has opened take the places of segments.
LEMMA IntroducePersistPreserves ==
  ASSUME RefsAssumption, Inv, Inv', SegInv, IntroducePersist
  PROVE  Preserved
<1> DEFINE n == Len(snapshots) + 1
           replaced == DOMAIN introducer.files \cap snapshots[root].segs
           kept == snapshots[root].segs \ replaced
           added == {introducer.files[o] : o \in replaced}
<1>0. /\ introducer.pc = "persist"
      /\ UNCHANGED <<root, writers, readers, merger, index, used>>
      /\ snapshots' = Append(snapshots, [segs |-> kept \cup added, refs |-> 1])
      /\ segments' = Counted(segments, kept, 1)
      /\ persister' = [persister EXCEPT !.opened = @ \ added]
  BY DEF IntroducePersist
<1>1. /\ root \in 1 .. Len(snapshots) /\ Len(snapshots) \in Nat
  BY SMTT(30), <1>0, StateTyped DEF Inv, TypeOK, InRange, Fits, IndexFits
<1>2. added \in SUBSET (1 .. Len(segments)) /\ kept \in SUBSET snapshots[root].segs
  BY <1>0 DEF Inv, FilesInRange
<1>3. /\ Len(snapshots') = n
      /\ \A u \in 1 .. Len(snapshots) : snapshots'[u] = snapshots[u]
      /\ snapshots'[n].segs = kept \cup added /\ snapshots'[n].refs = 1
  <2>1. snapshots[root].segs \subseteq 1 .. Len(segments)
    BY <1>1 DEF Inv, InRange
  <2> DEFINE S == kept \cup added
  <2>2. S \in SUBSET Nat /\ snapshots \in Seq(ASnapshot) /\ 1 \in Int
    BY <1>2, <2>1, StateTyped DEF Inv
  <2>3. snapshots' = Append(snapshots, [segs |-> S, refs |-> 1])
    BY <1>0
  <2> HIDE DEF S, kept, added
  <2>4. /\ Len(snapshots') = n
        /\ \A u \in 1 .. Len(snapshots) : snapshots'[u] = snapshots[u]
        /\ snapshots'[n].segs = S /\ snapshots'[n].refs = 1
    BY <2>2, <2>3, AppendIs
  <2> QED
    BY <2>4 DEF S
<1>4. introducer'.pc = "swap"
  BY DEF IntroducePersist, Inv, TypeOK, AnIntroducer
<1>5. /\ persister'.pc = persister.pc /\ persister'.opened = persister.opened \ added
      /\ persister'.kept = persister.kept /\ persister'.raced = persister.raced
      /\ persister'.files = persister.files
  <2> HIDE DEF added
  <2> QED
    BY <1>0 DEF Inv, TypeOK, APersister
<1>6. \/ /\ persister.pc = "sent" /\ added \subseteq persister.opened /\ persister.kept = {}
      \/ /\ persister.raced /\ persister.pc = "done" /\ persister.opened = {}
  <2>1. CASE persister.pc = "sent"
    BY <1>0, <2>1 DEF SegInv, FilesFit, SegmentsFit
  <2>2. CASE persister.pc # "sent"
    BY <1>0, <2>2 DEF SegInv, FilesFit, SegmentsFit
  <2> QED
    BY <2>1, <2>2
<1>7. FilesFit' /\ SegmentsFit' /\ AnswersFit'
  <2>1. FilesFit'
    BY <1>4, <1>5, <1>6 DEF SegInv, FilesFit
  <2>2. SegmentsFit'
    BY <1>0, <1>5, <1>6 DEF SegInv, SegmentsFit
  <2>3. AnswersFit'
    BY <1>0 DEF SegInv, AnswersFit, BatchesFail
  <2> QED
    BY <2>1, <2>2, <2>3
<1>8. ASSUME NEW o \in 1 .. Len(segments)
      PROVE  /\ \A v \in Writer : OfWriter(v, o)' <=> OfWriter(v, o)
             /\ OfPersister(o)' <=> OfPersister(o) /\ o \notin added
             /\ ~InFiles(o)'
             /\ o \in added => InFiles(o)
             /\ OfMerger(o)' <=> OfMerger(o)
             /\ ~persister.raced => (o \in added => OfPersister(o))
             /\ persister.raced => ~OfPersister(o)
  <2>1. /\ \A v \in Writer : OfWriter(v, o)' <=> OfWriter(v, o)
        /\ OfPersister(o)' <=> OfPersister(o) /\ o \notin added
        /\ ~InFiles(o)'
        /\ OfMerger(o)' <=> OfMerger(o)
    <3> HIDE DEF added
    <3> QED
      BY <1>0, <1>4, <1>5 DEF OfWriter, OfPersister, OfMerger, InFiles
  <2>2. o \in added => InFiles(o)
    BY <1>0 DEF InFiles
  <2>3. persister.raced => persister.opened = {}
    BY DEF SegInv, FilesFit, SegmentsFit
  <2>4. ~persister.raced => added \subseteq persister.opened /\ persister.kept = {}
    BY <1>6
  <2> HIDE DEF added
  <2>5. /\ ~persister.raced => (o \in added => OfPersister(o))
        /\ persister.raced => ~OfPersister(o)
    BY <2>3, <2>4 DEF OfPersister
  <2> QED
    BY <2>1, <2>2, <2>5
<1> HIDE DEF added, kept, replaced
<1>9. ASSUME NEW o \in 1 .. Len(segments)
      PROVE  /\ Shift(o) + One(o \in added) >= 0
             /\ ~persister'.raced => Shift(o) + One(o \in added) <= 0
  <2>1. Shift(o) = One(OfPersister(o)') - One(OfPersister(o))
    BY <1>8, ShiftByPersister
  <2>2. ~persister'.raced => ~persister.raced
    BY <1>5
  <2> QED
    BY <1>8, <2>1, <2>2 DEF One
<1>10. ASSUME NEW o \in 1 .. Len(segments), o \in added
       PROVE  OwnedBy(o) /\ ~OwnedBy(o)'
  <2>1. InFiles(o) /\ ~OfPersister(o)' /\ ~InFiles(o)'
    BY <1>8, <1>10
  <2>2. /\ \A v \in Writer : ~OfWriter(v, o)
        /\ ~OfMerger(o)
    BY <2>1 DEF SegInv, Apart
  <2> QED
    BY <1>8, <2>1, <2>2 DEF OwnedBy
<1>11. \A o \in 1 .. Len(segments) :
           /\ \A v \in Writer : OfWriter(v, o)' => OfWriter(v, o)
           /\ OfPersister(o)' => OfPersister(o)
           /\ ~InFiles(o)'
           /\ OfMerger(o)' => OfMerger(o)
           /\ o \in added => OwnedBy(o) /\ ~OwnedBy(o)'
           /\ Workers <= 1 => Shift(o) + One(o \in added) >= 0
           /\ ~persister'.raced /\ ~BatchesFail => Shift(o) + One(o \in added) <= 0
  BY <1>8, <1>9, <1>10
<1>12. /\ \A u \in 1 .. Len(snapshots) :
             /\ snapshots'[u].segs = snapshots[u].segs
             /\ snapshots'[u].refs > 0 <=> snapshots[u].refs > 0
       /\ snapshots'[Len(snapshots) + 1].refs > 0
       /\ snapshots'[Len(snapshots) + 1].segs = kept \cup added
       /\ Len(snapshots') = Len(snapshots) + 1
  BY <1>3
<1>13. segments' = Counted(segments, kept, 1) /\ (persister.raced => persister'.raced)
  BY <1>0, <1>5
<1> QED
  BY <1>1, <1>2, <1>7, <1>11, <1>12, <1>13, BuildPreserves

---------------------------------------------------------------------------
(* Steps that open segments *)

\* Each of them gets one owner.
LEMMA OpeningPreserves ==
  ASSUME RefsAssumption, Inv, Inv', SegInv, NEW n \in Nat, NEW mem \in BOOLEAN,
         segments' = Opened(n, mem), Len(snapshots') = Len(snapshots),
         \A u \in 1 .. Len(snapshots) :
           /\ snapshots'[u].segs = snapshots[u].segs
           /\ snapshots'[u].refs > 0 <=> snapshots[u].refs > 0,
         persister.raced => persister'.raced,
         \A o : InFiles(o)' <=> InFiles(o),
         \A o \in 1 .. Len(segments) :
           /\ \A w \in Writer : OfWriter(w, o)' <=> OfWriter(w, o)
           /\ OfPersister(o)' <=> OfPersister(o)
           /\ OfMerger(o)' <=> OfMerger(o),
         \A o \in NewSegments(n) :
           /\ \A w, v \in Writer : OfWriter(w, o)' /\ OfWriter(v, o)' => w = v
           /\ \A w \in Writer : OfWriter(w, o)' => ~OfPersister(o)' /\ ~OfMerger(o)'
           /\ OfMerger(o)' => ~OfPersister(o)'
           /\ Shift(o) = 1,
         FilesFit', SegmentsFit', AnswersFit'
  PROVE  Preserved
<1>1. /\ Len(segments') = Len(segments) + n
      /\ \A o \in 1 .. Len(segments) : Balance(State', o) - Balance(State, o) = 0
      /\ \A o \in NewSegments(n) : /\ o \in 1 .. Len(segments') /\ o \notin 1 .. Len(segments)
                                   /\ Balance(State', o) = -1
      /\ \A o \in 1 .. Len(segments') : o \in 1 .. Len(segments) \/ o \in NewSegments(n)
      /\ StaysClosed
  BY OpenedBalances
<1>2. ASSUME NEW o \in NewSegments(n) PROVE o # 0 /\ ~OwnedBy(o)
  <2>1. o # 0
    BY <1>1
  <2> QED
    BY <2>1, NobodyOwnsNew
<1>3. Apart'
  <2>1. \A o \in NewSegments(n) : ~InFiles(o)'
    BY <1>2 DEF OwnedBy
  <2> QED
    BY <1>1, <2>1, ApartOpens DEF SegInv
<1>4. ASSUME NEW o \in NewSegments(n) PROVE Excess(o)' = 0
  <2>1. ~OwnedBy(o)
    BY <1>2
  <2>2. Introducing(o) = 0 /\ One(OfPersister(o)) = 0 /\ One(OfMerger(o)) = 0
    <3>1. {w \in Writer : OfWriter(w, o)} = {}
      BY <2>1 DEF OwnedBy
    <3> QED
      BY <2>1, <3>1, FS_EmptySet DEF Introducing, OwnedBy, One
  <2>3. Owners(o)' = 1
    <3>1. /\ Owners(o)' = Introducing(o)' + One(OfPersister(o)') + One(OfMerger(o)')
          /\ Introducing(o)' \in Nat
      BY OwnersAre
    <3>2. One(OfPersister(o)') \in Nat /\ One(OfMerger(o)') \in Nat
      BY OneType
    <3>3. Shift(o) = 1
      OBVIOUS
    <3> QED
      BY <2>2, <3>1, <3>2, <3>3 DEF Shift
  <2>4. Cardinality(Sharing(o)') - segments'[o].count = -1
    <3>1. Sharing(o)' = SharingOf(State', o) /\ State'.segments = segments'
      BY SharingIs
    <3> QED
      BY <1>1, <3>1 DEF Balance
  <2>5. Cardinality(Sharing(o)') \in Nat /\ segments'[o].count \in Int
    <3>1. Sharing(o)' = SharingOf(State', o) /\ IsState(State') /\ State'.segments = segments'
      BY SharingIs
    <3>2. o \in 1 .. Len(State'.segments)
      BY <1>1, <3>1
    <3>3. State'.segments[o].count \in Int
      BY <3>1, <3>2, CountType
    <3> QED
      BY <3>1, <3>3, SharingFinite
  <2> QED
    BY <2>3, <2>4, <2>5 DEF Excess
<1>5. ASSUME NEW o \in 1 .. Len(segments) PROVE Excess(o)' = Excess(o)
  <2>1. Introducing(o)' - Introducing(o) = 0
    BY IntroducingSame
  <2>2. /\ One(OfPersister(o)') - One(OfPersister(o)) = 0
        /\ One(OfMerger(o)') - One(OfMerger(o)) = 0
    BY DEF One
  <2>3. o \in 1 .. Len(segments')
    BY <1>1, StateTyped DEF Inv
  <2>4. /\ Excess(o) \in Int /\ Excess(o)' \in Int
        /\ Excess(o)' - Excess(o) =
             (Balance(State', o) - Balance(State, o)) + (Introducing(o)' - Introducing(o))
               + (One(OfPersister(o)') - One(OfPersister(o)))
               + (One(OfMerger(o)') - One(OfMerger(o)))
    BY <2>3, ExcessMoves
  <2>5. Balance(State', o) - Balance(State, o) = 0
    BY <1>1
  <2> QED
    BY <2>1, <2>2, <2>4, <2>5
<1>6. ExcessFits'
  <2>1. ASSUME NEW o \in 1 .. Len(segments')
        PROVE  /\ Workers <= 1 => Excess(o)' >= 0
               /\ ~persister'.raced /\ ~BatchesFail => Excess(o)' <= 0
    <3>1. CASE o \in 1 .. Len(segments)
      <4>1. /\ Workers <= 1 => Excess(o) >= 0
            /\ ~persister.raced /\ ~BatchesFail => Excess(o) <= 0
        BY <3>1 DEF SegInv, ExcessFits
      <4>2. Excess(o)' = Excess(o)
        BY <1>5, <3>1
      <4> QED
        BY <4>1, <4>2
    <3>2. CASE o \in NewSegments(n)
      <4>1. Excess(o)' = 0
        BY <1>4, <3>2
      <4> QED
        BY <4>1
    <3> QED
      BY <1>1, <3>1, <3>2
  <2>2. BatchesFail' <=> BatchesFail
    BY DEF BatchesFail
  <2> QED
    BY <2>1, <2>2 DEF ExcessFits
<1> QED
  BY <1>1, <1>3, <1>6 DEF Preserved, SegInv

LEMMA PrepareSegmentPreserves ==
  ASSUME RefsAssumption, Inv, Inv', SegInv, NEW w \in Writer, PrepareSegment(w)
  PROVE  Preserved
<1>0. /\ writers[w].pc = "idle" /\ index = "open" /\ snapshots' = RootAddRef
      /\ UNCHANGED <<root, readers, introducer, persister, merger, index>>
  BY DEF PrepareSegment, Closing
<1>1. /\ root \in 1 .. Len(snapshots) /\ Len(snapshots) \in Nat /\ Len(segments) \in Nat
  BY <1>0, StateTyped DEF Inv, TypeOK, InRange, Fits, IndexFits
<1>2. PICK n \in {0, 1} :
        /\ segments' = Opened(n, TRUE)
        /\ writers' = [writers EXCEPT ![w] = [pc |-> "introducing", snap |-> root,
                                              seg |-> IF n = 0 THEN 0 ELSE Len(segments) + 1]]
  BY DEF PrepareSegment
<1>3. /\ Len(snapshots') = Len(snapshots)
      /\ \A u \in 1 .. Len(snapshots) :
           /\ snapshots'[u].segs = snapshots[u].segs
           /\ snapshots'[u].refs = snapshots[u].refs + One(root = u)
  BY <1>0, <1>1, RootAddRefIs DEF Inv
<1>4. ASSUME NEW u \in 1 .. Len(snapshots) PROVE snapshots'[u].refs > 0 <=> snapshots[u].refs > 0
  <2>1. snapshots[u].refs \in Int /\ (root = u => snapshots[u].refs > 0)
    BY HeldHasRefs
  <2> QED
    BY <1>3, <2>1 DEF One
<1>5. /\ \A v \in Writer : v # w => writers'[v] = writers[v]
      /\ writers'[w].pc = "introducing"
      /\ writers'[w].seg = IF n = 0 THEN 0 ELSE Len(segments) + 1
  BY <1>2 DEF Inv, TypeOK
<1>6. FilesFit' /\ SegmentsFit'
  BY <1>0 DEF SegInv, FilesFit, SegmentsFit
<1>7. AnswersFit'
  BY <1>5 DEF SegInv, AnswersFit, BatchesFail
<1>8. \A o : /\ InFiles(o)' <=> InFiles(o)
             /\ OfPersister(o)' <=> OfPersister(o)
             /\ OfMerger(o)' <=> OfMerger(o)
             /\ \A v \in Writer : v # w => (OfWriter(v, o)' <=> OfWriter(v, o))
             /\ ~OfWriter(w, o)
  BY <1>0, <1>5 DEF OfWriter, OfPersister, OfMerger, InFiles
<1>9. ASSUME NEW o \in 1 .. Len(segments) PROVE ~OfWriter(w, o)'
  BY <1>1, <1>5 DEF OfWriter
<1>10. ASSUME NEW o \in NewSegments(n)
       PROVE  OfWriter(w, o)' /\ ~OwnedBy(o)
  <2>1. n = 1 /\ o = Len(segments) + 1 /\ o # 0
    BY <1>1 DEF NewSegments
  <2>2. OfWriter(w, o)'
    BY <1>5, <2>1 DEF OfWriter
  <2>3. n \in Nat
    OBVIOUS
  <2> QED
    BY <2>1, <2>2, <2>3, NobodyOwnsNew
<1>11. ASSUME NEW o \in NewSegments(n)
       PROVE  /\ \A u, v \in Writer : OfWriter(u, o)' /\ OfWriter(v, o)' => u = v
              /\ ~OfPersister(o)' /\ ~OfMerger(o)'
              /\ Shift(o) = 1
  <2>1. \A v \in Writer : OfWriter(v, o)' => v = w
    BY <1>8, <1>10 DEF OwnedBy
  <2>2. ~OfPersister(o)' /\ ~OfMerger(o)'
    BY <1>8, <1>10 DEF OwnedBy
  <2>3. Shift(o) = One(OfWriter(w, o)') - One(OfWriter(w, o))
    BY <1>8, ShiftByWriter
  <2>4. One(OfWriter(w, o)') = 1 /\ One(OfWriter(w, o)) = 0
    BY <1>8, <1>10 DEF One
  <2> QED
    BY <2>1, <2>2, <2>3, <2>4
<1>12. \A o \in 1 .. Len(segments) :
           /\ \A v \in Writer : OfWriter(v, o)' <=> OfWriter(v, o)
           /\ OfPersister(o)' <=> OfPersister(o)
           /\ OfMerger(o)' <=> OfMerger(o)
  BY <1>8, <1>9
<1>13. n \in Nat /\ TRUE \in BOOLEAN /\ (persister.raced => persister'.raced)
  BY <1>0
<1> QED
  BY <1>2, <1>3, <1>4, <1>6, <1>7, <1>8, <1>11, <1>12, <1>13, OpeningPreserves

\* The persister opens n segments, for the merge of what is in memory or for
\* the files that it writes.
LEMMA PersisterOpensPreserves ==
  ASSUME RefsAssumption, Inv, Inv', SegInv, NEW n \in Nat, persister.pc \in {"took", "direct"},
         segments' = Opened(n, FALSE), persister'.opened = NewSegments(n),
         persister'.kept = persister.kept, persister'.raced = persister.raced,
         UNCHANGED <<snapshots, root, writers, readers, introducer, merger, index>>,
         FilesFit', SegmentsFit'
  PROVE  Preserved
<1>1. Len(segments) \in Nat
  BY StateTyped DEF Inv
<1>2. persister.opened = {} /\ persister.kept = {}
  BY DEF SegInv, SegmentsFit
<1>3. \A o : /\ InFiles(o)' <=> InFiles(o)
             /\ OfMerger(o)' <=> OfMerger(o)
             /\ \A v \in Writer : OfWriter(v, o)' <=> OfWriter(v, o)
             /\ ~OfPersister(o)
             /\ OfPersister(o)' <=> o \in NewSegments(n)
  BY <1>2 DEF OfWriter, OfPersister, OfMerger, InFiles
<1>4. AnswersFit'
  BY DEF SegInv, AnswersFit, BatchesFail
<1>5. \A o \in 1 .. Len(segments) : o \notin NewSegments(n)
  BY <1>1 DEF NewSegments
<1>6. ASSUME NEW o \in NewSegments(n)
      PROVE  /\ \A v \in Writer : ~OfWriter(v, o)'
             /\ ~OfMerger(o)'
             /\ Shift(o) = 1
  <2>1. o # 0
    BY <1>1 DEF NewSegments
  <2>2. ~OwnedBy(o)
    BY <2>1, NobodyOwnsNew
  <2>3. (\A v \in Writer : ~OfWriter(v, o)') /\ ~OfMerger(o)'
    BY <1>3, <2>2 DEF OwnedBy
  <2>4. Shift(o) = One(OfPersister(o)') - One(OfPersister(o))
    BY <1>3, ShiftByPersister
  <2>5. One(OfPersister(o)') = 1 /\ One(OfPersister(o)) = 0
    BY <1>3 DEF One
  <2> QED
    BY <2>3, <2>4, <2>5
<1>7. \A o \in 1 .. Len(segments) :
        /\ \A w \in Writer : OfWriter(w, o)' <=> OfWriter(w, o)
        /\ OfPersister(o)' <=> OfPersister(o)
        /\ OfMerger(o)' <=> OfMerger(o)
  BY <1>3, <1>5
<1>8. \A o \in NewSegments(n) :
        /\ \A w, v \in Writer : OfWriter(w, o)' /\ OfWriter(v, o)' => w = v
        /\ \A w \in Writer : OfWriter(w, o)' => ~OfPersister(o)' /\ ~OfMerger(o)'
        /\ OfMerger(o)' => ~OfPersister(o)'
        /\ Shift(o) = 1
  BY <1>6
<1>9. /\ Len(snapshots') = Len(snapshots) /\ FALSE \in BOOLEAN
      /\ \A u \in 1 .. Len(snapshots) : /\ snapshots'[u].segs = snapshots[u].segs
                                        /\ snapshots'[u].refs > 0 <=> snapshots[u].refs > 0
      /\ persister.raced => persister'.raced
  OBVIOUS
<1> QED
  BY <1>3, <1>4, <1>7, <1>8, <1>9, OpeningPreserves

LEMMA MergeInMemoryPreserves ==
  ASSUME RefsAssumption, Inv, Inv', SegInv, MergeInMemory
  PROVE  Preserved
<1>0. /\ persister.pc = "took"
      /\ UNCHANGED <<snapshots, root, writers, readers, introducer, merger, index>>
  BY DEF MergeInMemory, PersisterMoves
<1>1. PICK M \in SUBSET Memory(snapshots[persister.snap].segs), n \in 1 .. Workers :
        /\ segments' = Opened(n, FALSE)
        /\ persister' = [persister EXCEPT !.pc = "merge", !.merged = M,
                                          !.opened = NewSegments(n)]
  BY DEF MergeInMemory, PersisterMoves
<1>2. n \in Nat /\ n \in 1 .. Workers /\ Workers \in Nat
  BY DEF RefsAssumption
<1>3. /\ persister'.pc = "merge" /\ persister'.opened = NewSegments(n)
      /\ persister'.kept = persister.kept /\ persister'.raced = persister.raced
  <2> DEFINE new == NewSegments(n)
  <2>1. /\ persister' = [persister EXCEPT !.pc = "merge", !.merged = M, !.opened = new]
        /\ persister \in APersister(persister.files)
    BY <1>1 DEF Inv, TypeOK
  <2> HIDE DEF new
  <2>2. /\ persister'.pc = "merge" /\ persister'.opened = new
        /\ persister'.kept = persister.kept /\ persister'.raced = persister.raced
    BY <2>1 DEF APersister
  <2> QED
    BY <2>2 DEF new
<1>4. FilesFit'
  BY <1>0, <1>3 DEF SegInv, FilesFit
<1>5. SegmentsFit'
  <2>1. Len(segments) \in Nat
    BY StateTyped DEF Inv
  <2>2. Workers <= 1 => \A o, u \in NewSegments(n) : o = u
    BY <1>2, <2>1 DEF NewSegments
  <2>3. persister'.kept = {}
    BY <1>0, <1>3 DEF SegInv, SegmentsFit
  <2> QED
    BY <1>0, <1>3, <2>2, <2>3 DEF SegInv, SegmentsFit
<1> QED
  BY <1>0, <1>1, <1>2, <1>3, <1>4, <1>5, PersisterOpensPreserves

LEMMA PersistDirectPreserves ==
  ASSUME RefsAssumption, Inv, Inv', SegInv, PersistDirect
  PROVE  Preserved
<1> DEFINE mem == Memory(snapshots[persister.snap].segs)
           n == Cardinality(mem)
           pc == IF n = 0 THEN "commit" ELSE "send"
<1>0. /\ persister.pc \in {"took", "direct"} /\ segments' = Opened(n, FALSE)
      /\ UNCHANGED <<snapshots, root, writers, readers, introducer, merger, index>>
  BY DEF PersistDirect, PersisterMoves
<1>1. PICK files \in [mem -> NewSegments(n)] :
        persister' = [persister EXCEPT !.pc = pc, !.files = files, !.opened = NewSegments(n)]
  BY DEF PersistDirect, PersisterMoves
<1>2. n \in Nat
  <2>1. persister.snap \in 1 .. Len(snapshots) /\ Len(segments) \in Nat
    BY SMTT(30), <1>0, StateTyped DEF Inv, TypeOK, APersister, InRange, Fits, PersisterFits
  <2>2. mem \in SUBSET (1 .. Len(segments))
    BY <2>1 DEF Memory, Inv, InRange
  <2>3. IsFiniteSet(1 .. Len(segments))
    BY <2>1, FS_Interval
  <2> HIDE DEF mem
  <2> QED
    BY <2>2, <2>3, FS_Subset, FS_CardinalityType
<1>3. pc \in {"commit", "send"}
  OBVIOUS
<1>4. \A u \in DOMAIN files : files[u] \in NewSegments(n)
  OBVIOUS
<1> HIDE DEF mem, n, pc
<1>5. /\ persister'.pc = pc /\ persister'.opened = NewSegments(n) /\ persister'.files = files
      /\ persister'.kept = persister.kept /\ persister'.raced = persister.raced
  <2> DEFINE new == NewSegments(n)
  <2>1. /\ persister' = [persister EXCEPT !.pc = pc, !.files = files, !.opened = new]
        /\ persister \in APersister(persister.files)
    BY <1>1 DEF Inv, TypeOK
  <2> HIDE DEF new
  <2>2. /\ persister'.pc = pc /\ persister'.opened = new /\ persister'.files = files
        /\ persister'.kept = persister.kept /\ persister'.raced = persister.raced
    BY <2>1 DEF APersister
  <2> QED
    BY <2>2 DEF new
<1>6. FilesFit'
  <2>1. ~persister.raced /\ introducer.pc # "persist"
    BY <1>0 DEF SegInv, FilesFit
  <2> QED
    BY <1>0, <1>3, <1>4, <1>5, <2>1 DEF FilesFit
<1>7. SegmentsFit'
  <2>1. persister'.kept = {} /\ (merger'.kept => merger'.pc \in {"merging", "merged"})
    BY <1>0, <1>5 DEF SegInv, SegmentsFit
  <2> QED
    BY <1>3, <1>5, <2>1 DEF SegmentsFit
<1> QED
  BY <1>0, <1>2, <1>5, <1>6, <1>7, PersisterOpensPreserves

LEMMA MergeTaskPreserves ==
  ASSUME RefsAssumption, Inv, Inv', SegInv, MergeTask
  PROVE  Preserved
<1> DEFINE new == Len(segments) + 1
<1>0. /\ merger.pc = "plan" /\ segments' = Opened(1, FALSE)
      /\ UNCHANGED <<snapshots, root, writers, readers, introducer, persister, index>>
  BY DEF MergeTask, MergerMoves
<1>1. PICK M \in SUBSET merger.todo :
        merger' = [merger EXCEPT !.pc = "send", !.merged = M, !.todo = merger.todo \ M,
                                 !.seg = new]
  BY DEF MergeTask, MergerMoves
<1>2. Len(segments) \in Nat /\ new \in Nat
  BY StateTyped DEF Inv
<1>3. NewSegments(1) = {new} /\ new \notin 1 .. Len(segments) /\ new # 0 /\ 1 \in Nat
  BY <1>2 DEF NewSegments
<1> HIDE DEF new
<1>4. merger'.pc = "send" /\ merger'.seg = new /\ merger'.kept = merger.kept /\ ~merger.kept
  <2>1. ~merger.kept
    BY <1>0 DEF SegInv, SegmentsFit
  <2> QED
    BY <1>1, <2>1 DEF Inv, TypeOK, AMerger
<1>5. merger.seg = 0
  BY <1>0 DEF Inv, Fits, MergerFits
<1>6. FilesFit'
  BY <1>0 DEF SegInv, FilesFit
<1>7. SegmentsFit'
  BY <1>0, <1>4 DEF SegInv, SegmentsFit
<1>8. AnswersFit'
  BY <1>0 DEF SegInv, AnswersFit, BatchesFail
<1>9. \A o : /\ InFiles(o)' <=> InFiles(o)
             /\ OfPersister(o)' <=> OfPersister(o)
             /\ \A v \in Writer : OfWriter(v, o)' <=> OfWriter(v, o)
             /\ OfMerger(o) <=> o = 0
             /\ OfMerger(o)' <=> o = new
  BY <1>0, <1>4, <1>5 DEF OfWriter, OfPersister, OfMerger, InFiles
<1>10. ASSUME NEW o \in NewSegments(1)
       PROVE  /\ \A v \in Writer : ~OfWriter(v, o)'
              /\ ~OfPersister(o)'
              /\ Shift(o) = 1
  <2>1. o = new /\ o # 0
    BY <1>3
  <2>2. ~OwnedBy(o)
    BY <1>3, <2>1, NobodyOwnsNew
  <2>3. (\A v \in Writer : ~OfWriter(v, o)') /\ ~OfPersister(o)'
    BY <1>9, <2>2 DEF OwnedBy
  <2>4. Shift(o) = One(OfMerger(o)') - One(OfMerger(o))
    BY <1>9, ShiftByMerger
  <2>5. One(OfMerger(o)') = 1 /\ One(OfMerger(o)) = 0
    BY <1>9, <2>1 DEF One
  <2> QED
    BY <2>3, <2>4, <2>5
<1>11. \A o \in 1 .. Len(segments) :
         /\ \A w \in Writer : OfWriter(w, o)' <=> OfWriter(w, o)
         /\ OfPersister(o)' <=> OfPersister(o)
         /\ OfMerger(o)' <=> OfMerger(o)
  BY <1>3, <1>9
<1>12. \A o \in NewSegments(1) :
         /\ \A w, v \in Writer : OfWriter(w, o)' /\ OfWriter(v, o)' => w = v
         /\ \A w \in Writer : OfWriter(w, o)' => ~OfPersister(o)' /\ ~OfMerger(o)'
         /\ OfMerger(o)' => ~OfPersister(o)'
         /\ Shift(o) = 1
  BY <1>10
<1>13. /\ Len(snapshots') = Len(snapshots) /\ FALSE \in BOOLEAN
       /\ \A u \in 1 .. Len(snapshots) : /\ snapshots'[u].segs = snapshots[u].segs
                                         /\ snapshots'[u].refs > 0 <=> snapshots[u].refs > 0
       /\ persister.raced => persister'.raced
  BY <1>0
<1> QED
  BY <1>0, <1>3, <1>6, <1>7, <1>8, <1>9, <1>11, <1>12, <1>13, OpeningPreserves

---------------------------------------------------------------------------
(* Every step, and what follows *)

LEMMA InitSegInv ==
  ASSUME RefsAssumption, Init
  PROVE  SegInv
<1>1. /\ Len(segments) = 0 /\ 1 .. Len(segments) = {}
      /\ introducer.pc = "idle" /\ persister = Idle(1) /\ merger = Resting(1)
      /\ \A w \in Writer : writers[w] = NoBatch
  BY DEF Init
<1>2. Apart /\ ExcessFits
  BY <1>1 DEF Apart, ExcessFits
<1>3. FilesFit /\ SegmentsFit
  BY <1>1 DEF FilesFit, SegmentsFit, Idle, Resting
<1>4. AnswersFit
  BY <1>1 DEF AnswersFit, NoBatch
<1> QED
  BY <1>2, <1>3, <1>4 DEF SegInv

LEMMA NextPreserves ==
  ASSUME RefsAssumption, Inv, SegInv, [Next]_vars
  PROVE  Preserved
<1>0. Inv'
  BY NextKeeps
<1>1. CASE Introducer
  <2>1. ASSUME NEW w \in Writer, IntroduceSegment(w) PROVE Preserved
    BY <1>0, <2>1, IntroduceSegmentPreserves
  <2>2. CASE ReceivePersist
    BY <1>0, <2>2, ReceivePersistPreserves
  <2>3. CASE IntroducePersist
    BY <1>0, <2>3, IntroducePersistPreserves
  <2>4. CASE IntroduceInMemoryMerge
    BY <1>0, <2>4, IntroduceInMemoryMergePreserves
  <2>5. CASE IntroduceFileMerge
    BY <1>0, <2>5, IntroduceFileMergePreserves
  <2>6. CASE Swap
    BY <1>0, <2>6, SwapPreserves
  <2>7. CASE Finish
    BY <1>0, <2>7, FinishPreserves
  <2>8. CASE IntroducerExits
    BY <1>0, <2>8, IntroducerExitsPreserves
  <2> QED
    BY <1>1, <2>1, <2>2, <2>3, <2>4, <2>5, <2>6, <2>7, <2>8 DEF Introducer
<1>2. CASE Persister
  <2>1. CASE TakeSnapshot
    BY <1>0, <2>1, TakeSnapshotPreserves
  <2>2. CASE MergeInMemory
    BY <1>0, <2>2, MergeInMemoryPreserves
  <2>3. CASE AfterInMemoryMerge
    <3>1. persister.pc = "merged"
      BY <2>3 DEF AfterInMemoryMerge
    <3>2. CASE persister.kept = {}
      BY <1>0, <2>3, <3>1, <3>2, SkippedMergePreserves
    <3>3. CASE persister.kept # {}
      BY <1>0, <2>3, <3>1, <3>3, KeptMergePreserves
    <3> QED
      BY <3>2, <3>3
  <2>4. CASE PersistDirect
    BY <1>0, <2>4, PersistDirectPreserves
  <2>5. CASE Commit
    BY <1>0, <2>5, CommitPreserves
  <2>6. CASE PersistFails
    BY <1>0, <2>6, PersistFailsPreserves
  <2>7. CASE PersisterClosed
    BY <1>0, <2>7, PersisterClosedPreserves
  <2>8. CASE PersisterExits
    BY <1>0, <2>8, PersisterExitsPreserves
  <2> QED
    BY <1>2, <2>1, <2>2, <2>3, <2>4, <2>5, <2>6, <2>7, <2>8 DEF Persister
<1>3. CASE Merger
  <2>1. CASE PlanMerge
    BY <1>0, <2>1, PlanMergePreserves
  <2>2. CASE MergeTask
    BY <1>0, <2>2, MergeTaskPreserves
  <2>3. CASE AfterFileMerge
    BY <1>0, <2>3, AfterFileMergePreserves
  <2>4. CASE MergeDone \/ MergeFails \/ MergeClosed
    BY <1>0, <2>4, MergeEndsPreserves
  <2>5. CASE MergerExits
    BY <1>0, <2>5, MergerExitsPreserves
  <2> QED
    BY <1>3, <2>1, <2>2, <2>3, <2>4, <2>5 DEF Merger
<1>4. ASSUME NEW w \in Writer, PrepareSegment(w) \/ BatchReturns(w) \/ BatchFails(w)
      PROVE  Preserved
  <2>1. CASE PrepareSegment(w)
    BY <1>0, <2>1, PrepareSegmentPreserves
  <2>2. CASE BatchReturns(w)
    BY <1>0, <2>2, BatchReturnsPreserves
  <2>3. CASE BatchFails(w)
    BY <1>0, <2>3, BatchFailsPreserves
  <2> QED
    BY <1>4, <2>1, <2>2, <2>3
<1>5. ASSUME NEW r \in Reader, Read(r) \/ CloseReader(r) PROVE Preserved
  <2>1. CASE Read(r)
    BY <1>0, <2>1, ReadPreserves
  <2>2. CASE CloseReader(r)
    BY <1>0, <2>2, CloseReaderPreserves
  <2> QED
    BY <1>5, <2>1, <2>2
<1>6. CASE CloseReturns
  BY <1>0, <1>6, CloseReturnsPreserves
<1>7. CASE CallClose \/ UNCHANGED vars
  <2>1. UNCHANGED <<snapshots, segments, root, writers, readers, introducer, persister, merger>>
    BY <1>7 DEF CallClose, vars
  <2> QED
    BY <1>0, <2>1, NobodyMovesPreserves
<1> QED
  BY <1>1, <1>2, <1>3, <1>4, <1>5, <1>6, <1>7 DEF Next

\* The invariant of the segments holds too: a segment has one owner until it
\* is in a snapshot, and its count differs from its users only where the code
\* closes too much.
THEOREM SegmentsInvariant ==
  ASSUME RefsAssumption
  PROVE  Spec => [](Inv /\ SegInv)
<1>1. Init => Inv /\ SegInv
  BY InitInv, InitSegInv
<1>2. (Inv /\ SegInv) /\ [Next]_vars => (Inv /\ SegInv)'
  BY NextKeeps, NextPreserves DEF Preserved
<1> QED
  BY <1>1, <1>2, PTL DEF Spec

\* What the numbers of a segment are.
LEMMA SegmentNumbers ==
  ASSUME RefsAssumption, Inv, NEW o \in DOMAIN segments
  PROVE  /\ o \in 1 .. Len(segments) /\ segments[o].count \in Int
         /\ IsFiniteSet(Sharing(o)) /\ Cardinality(Sharing(o)) \in Nat /\ Owners(o) \in Nat
<1>1. o \in 1 .. Len(segments) /\ segments[o].count \in Int
  BY StateTyped DEF Inv, ASegment
<1>2. IsFiniteSet(Sharing(o)) /\ Cardinality(Sharing(o)) \in Nat
  <2>1. Sharing(o) = SharingOf(State, o) /\ IsState(State)
    BY StateTyped DEF Inv, Sharing, SharingOf, Open
  <2> QED
    BY <2>1, SharingFinite
<1>3. Owners(o) \in Nat
  <2>1. /\ Owners(o) = Introducing(o) + One(OfPersister(o)) + One(OfMerger(o))
        /\ Introducing(o) \in Nat
    BY OwnersAre
  <2>2. One(OfPersister(o)) \in Nat /\ One(OfMerger(o)) \in Nat
    BY OneType
  <2> QED
    BY <2>1, <2>2
<1> QED
  BY <1>1, <1>2, <1>3

\* With one worker, where no batch that somebody waits for can fail, the count
\* of a segment is exactly its snapshots and its owner, until the persister
\* has closed what the introducer goes on to use.
THEOREM SegmentsCountedExactly ==
  ASSUME RefsAssumption, Workers <= 1, ~BatchesFail
  PROVE  Spec => []SegmentCounts
<1>1. ASSUME Inv, SegInv PROVE SegmentCounts
  <2>1. ASSUME ~persister.raced, NEW o \in DOMAIN segments
        PROVE  segments[o].count = Cardinality(Sharing(o)) + Owners(o)
    <3>1. /\ o \in 1 .. Len(segments) /\ segments[o].count \in Int
          /\ Cardinality(Sharing(o)) \in Nat /\ Owners(o) \in Nat
      BY <1>1, SegmentNumbers
    <3>2. Excess(o) >= 0 /\ Excess(o) <= 0
      BY <1>1, <2>1, <3>1 DEF SegInv, ExcessFits
    <3>3. Excess(o) = Cardinality(Sharing(o)) + Owners(o) - segments[o].count
      BY DEF Excess
    <3> QED
      BY <3>1, <3>2, <3>3
  <2> QED
    BY <2>1 DEF SegmentCounts
<1> QED
  BY <1>1, SegmentsInvariant, PTL

\* With one worker, whatever fails and whenever Close comes, a segment that
\* nothing refers to has been closed: neither a merged segment nor one that the
\* introducer did not take stays open.
THEOREM NothingStaysOpen ==
  ASSUME RefsAssumption, Workers <= 1
  PROVE  Spec => []NothingLeaked
<1>1. ASSUME Inv, SegInv PROVE NothingLeaked
  <2>1. ASSUME NEW o \in DOMAIN segments, segments[o].count > 0, Sharing(o) = {}
        PROVE  Owners(o) > 0
    <3>1. /\ o \in 1 .. Len(segments) /\ segments[o].count \in Int /\ Owners(o) \in Nat
      BY <1>1, SegmentNumbers
    <3>2. Excess(o) >= 0
      BY <1>1, <3>1 DEF SegInv, ExcessFits
    <3>3. Excess(o) = 0 + Owners(o) - segments[o].count
      BY <2>1, FS_EmptySet DEF Excess
    <3> QED
      BY <2>1, <3>1, <3>2, <3>3
  <2> QED
    BY <2>1 DEF NothingLeaked
<1> QED
  BY <1>1, SegmentsInvariant, PTL

\* scorch.go, introducer.go, persister.go and merge.go: the counts of snapshots
\* and segments are right at every step, where no batch that somebody waits for
\* can fail.
THEOREM CountsAlwaysExact ==
  ASSUME RefsAssumption, Workers <= 1, ~BatchesFail
  PROVE  Spec => []CountsExact
<1> QED
  BY SnapshotsCountedExactly, SegmentsCountedExactly, NothingStaysOpen, PTL DEF CountsExact

\* Whatever holds a snapshot, a reader, the persister, the merger or the root,
\* finds its segments open, however many workers merge, as long as no waiting
\* batch can fail and the persister has not closed what is being introduced.
THEOREM HeldSegmentsOpen ==
  ASSUME RefsAssumption, ~BatchesFail
  PROVE  Spec => [](~persister.raced => NoUseAfterClose)
<1>1. ASSUME Inv, SegInv PROVE ~persister.raced => NoUseAfterClose
  <2>1. ASSUME ~persister.raced, NEW s \in DOMAIN snapshots, Open(s), NEW o \in snapshots[s].segs
        PROVE  segments[o].count > 0
    <3>1. s \in 1 .. Len(snapshots) /\ snapshots[s].refs > 0
      BY <1>1, <2>1, StateTyped DEF Inv, Open
    <3> QED
      BY <1>1, <2>1, <3>1, RootSegmentsOpen DEF SegInv
  <2> QED
    BY <2>1 DEF NoUseAfterClose
<1> QED
  BY <1>1, SegmentsInvariant, PTL

\* No step takes up again what has been let go or closed: AddRef is called only
\* on what the caller, or the introducer's root, holds.
THEOREM ClosedStaysClosed ==
  ASSUME RefsAssumption, ~BatchesFail
  PROVE  Spec => ClosedForGood
<1>1. Inv /\ SegInv /\ [Next]_vars => [StaysClosed]_vars
  BY NextPreserves DEF Preserved
<1> QED
  BY <1>1, SegmentsInvariant, PTL DEF Spec, ClosedForGood
===========================================================================
