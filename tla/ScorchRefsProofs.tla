------------------------- MODULE ScorchRefsProofs -------------------------
(***************************************************************************)
(* References are counted exactly, and nothing that is held is closed: the *)
(* proofs, for any number of writers, readers, snapshots and segments.     *)
(***************************************************************************)
EXTENDS ScorchRefs, FiniteSetTheorems, SequenceTheorems, TLAPS

---------------------------------------------------------------------------
(* The invariant of the snapshots *)

\* Snapshots and segments are named by numbers that have been handed out.
InRange ==
  /\ root <= Len(snapshots)
  /\ \A s \in 1 .. Len(snapshots) : snapshots[s].segs \subseteq 1 .. Len(segments)
  /\ \A w \in Writer : writers[w].seg <= Len(segments) /\ writers[w].snap <= Len(snapshots)
  /\ \A r \in Reader : readers[r] <= Len(snapshots)
  /\ introducer.old <= Len(snapshots) /\ introducer.new <= Len(snapshots)
  /\ persister.snap <= Len(snapshots) /\ persister.new <= Len(snapshots)
  /\ persister.opened \subseteq 1 .. Len(segments)
  /\ merger.snap <= Len(snapshots) /\ merger.new <= Len(snapshots)
  /\ merger.seg <= Len(segments)

\* So are the files that an introduction names.
FilesInRange ==
  /\ introducer.pc = "persist" => \A u \in DOMAIN introducer.files :
                                    introducer.files[u] \in 1 .. Len(segments)
  /\ persister.pc = "send" => \A u \in DOMAIN persister.files :
                                persister.files[u] \in 1 .. Len(segments)

\* Which snapshots a goroutine holds, by what it is doing.
WritersFit == \A w \in Writer : writers[w].snap = 0 <=> writers[w].pc = "idle"

IntroducerFits ==
  /\ introducer.old = 0 <=> introducer.pc \in {"idle", "done"}
  /\ introducer.new = 0 <=> introducer.pc # "swap"

PersisterFits ==
  /\ persister.snap = 0 <=> persister.pc \in {"idle", "done"}
  /\ persister.new # 0 => persister.pc \in {"merging", "merged", "commit"}
  /\ persister.pc \in {"merging", "merged"} => persister.new # 0
  /\ \A w \in persister.acks : writers[w].pc = "persisting"

MergerFits ==
  /\ merger.snap = 0 <=> merger.pc \in {"idle", "done"}
  /\ merger.new = 0 <=> merger.pc \notin {"merging", "merged"}
  /\ merger.seg = 0 <=> merger.pc \notin {"send", "merging", "merged"}

IndexFits ==
  /\ root = 0 <=> index = "closed"
  /\ index = "closed" => /\ introducer.pc = "done" /\ persister.pc = "done"
                         /\ merger.pc = "done"
  /\ Closing => \A w \in Writer : writers[w].pc = "idle"

Fits == WritersFit /\ IntroducerFits /\ PersisterFits /\ MergerFits /\ IndexFits

Inv == TypeOK /\ InRange /\ FilesInRange /\ Fits /\ SnapshotCounts

---------------------------------------------------------------------------
(* The invariant of the segments *)

\* What no snapshot has yet, by whose it is: a batch, the persister, the
\* introduction that the introducer has, the merger.
OfWriter(w, o) == writers[w].pc = "introducing" /\ writers[w].seg = o
OfPersister(o) == o \in persister.opened \ persister.kept
InFiles(o) == introducer.pc = "persist" /\ \E u \in DOMAIN introducer.files : introducer.files[u] = o
OfMerger(o) == merger.seg = o /\ ~merger.kept

OwnedBy(o) == \/ \E w \in Writer : OfWriter(w, o)
              \/ OfPersister(o) \/ InFiles(o) \/ OfMerger(o)

\* A segment has one owner, and none once it is in a snapshot.
Apart ==
  \A o \in 1 .. Len(segments) :
    /\ OwnedBy(o) => \A s \in 1 .. Len(snapshots) : o \notin snapshots[s].segs
    /\ \A w, v \in Writer : OfWriter(w, o) /\ OfWriter(v, o) => w = v
    /\ \A w \in Writer : OfWriter(w, o) => ~OfPersister(o) /\ ~InFiles(o) /\ ~OfMerger(o)
    /\ OfMerger(o) => ~OfPersister(o) /\ ~InFiles(o)

FilesFit ==
  /\ introducer.pc = "persist" /\ persister.pc # "sent" => persister.raced
  /\ introducer.pc = "persist" /\ persister.pc = "sent" =>
       \A u \in DOMAIN introducer.files : introducer.files[u] \in persister.opened
  /\ persister.pc = "send" => \A u \in DOMAIN persister.files :
                                persister.files[u] \in persister.opened
  /\ persister.raced => persister.pc = "done"

SegmentsFit ==
  /\ persister.pc \notin {"merging", "merged", "commit"} => persister.kept = {}
  /\ persister.pc \in {"idle", "took", "direct", "done"} => persister.opened = {}
  /\ persister.pc \in {"merging", "merged"} => persister.kept \subseteq persister.opened
  /\ persister.pc = "commit" => persister.opened \cap persister.kept = {}
  /\ Workers <= 1 /\ persister.pc \in {"merge", "merging", "merged"} =>
       \A o, u \in persister.opened : o = u
  /\ merger.kept => merger.pc \in {"merging", "merged"}

\* Persisting a batch that somebody waits for can fail.
BatchesFail == ~UnsafeBatch /\ MaxFailures > 0

AnswersFit ==
  ~BatchesFail => \A w \in Writer : /\ writers[w].pc # "failed"
                                    /\ UnsafeBatch => writers[w].pc # "persisting"

\* How many more a segment's sharers and owners are than its count says.
Excess(o) == Cardinality(Sharing(o)) + Owners(o) - segments[o].count

ExcessFits ==
  \A o \in 1 .. Len(segments) : /\ Workers <= 1 => Excess(o) >= 0
                                /\ ~persister.raced /\ ~BatchesFail => Excess(o) <= 0

SegInv == Apart /\ FilesFit /\ SegmentsFit /\ AnswersFit /\ ExcessFits

---------------------------------------------------------------------------
(* Sequences of snapshots and of segments *)

One(b) == IF b THEN 1 ELSE 0

\* A state of theirs, as LetGo takes it.
IsState(st) ==
  /\ st = [snapshots |-> st.snapshots, segments |-> st.segments]
  /\ st.snapshots \in Seq(ASnapshot) /\ st.segments \in Seq(ASegment)

LEMMA FunctionIsSeq ==
  ASSUME NEW S, NEW n \in Nat, NEW f \in [1 .. n -> S]
  PROVE  f \in Seq(S) /\ Len(f) = n
<1>1. f \in Seq(S)
  BY SeqDef
<1>2. Len(f) \in Nat /\ DOMAIN f = 1 .. Len(f)
  BY <1>1, LenProperties
<1>3. 1 .. n = 1 .. Len(f)
  BY <1>2
<1> QED
  BY <1>1, <1>2, <1>3

\* Segments counted n more (Counted).
LEMMA CountedIs ==
  ASSUME NEW segs \in Seq(ASegment), NEW S, NEW n \in Int
  PROVE  /\ Counted(segs, S, n) \in Seq(ASegment)
         /\ Len(Counted(segs, S, n)) = Len(segs)
         /\ \A o \in 1 .. Len(segs) :
              /\ Counted(segs, S, n)[o].count = segs[o].count + (IF o \in S THEN n ELSE 0)
              /\ Counted(segs, S, n)[o].mem = segs[o].mem
<1>1. Len(segs) \in Nat /\ DOMAIN segs = 1 .. Len(segs) /\ segs \in [1 .. Len(segs) -> ASegment]
  BY LenProperties
<1>2. Counted(segs, S, n) \in [1 .. Len(segs) -> ASegment]
  BY <1>1 DEF Counted, ASegment
<1>3. \A o \in 1 .. Len(segs) :
              /\ Counted(segs, S, n)[o].count = segs[o].count + (IF o \in S THEN n ELSE 0)
              /\ Counted(segs, S, n)[o].mem = segs[o].mem
  BY <1>1 DEF Counted, ASegment
<1> QED
  BY <1>1, <1>2, <1>3, FunctionIsSeq

\* The references of snapshot s become n.
LEMMA RefsIs ==
  ASSUME NEW sn \in Seq(ASnapshot), NEW s \in 1 .. Len(sn), NEW n \in Int
  PROVE  LET new == [sn EXCEPT ![s].refs = n]
         IN  /\ new \in Seq(ASnapshot) /\ Len(new) = Len(sn)
             /\ \A u \in 1 .. Len(sn) : /\ new[u].segs = sn[u].segs
                                        /\ new[u].refs = IF u = s THEN n ELSE sn[u].refs
<1> DEFINE new == [sn EXCEPT ![s].refs = n]
           e == [sn[s] EXCEPT !.refs = n]
<1>1. Len(sn) \in Nat /\ sn \in [1 .. Len(sn) -> ASnapshot]
  BY LenProperties
<1>2. sn[s] \in ASnapshot
  BY <1>1
<1>3. e \in ASnapshot /\ e.segs = sn[s].segs /\ e.refs = n
  BY <1>2 DEF ASnapshot
<1>4. new = [sn EXCEPT ![s] = e]
  OBVIOUS
<1> HIDE DEF e, new
<1>5. new \in Seq(ASnapshot) /\ Len(new) = Len(sn)
      /\ \A u \in 1 .. Len(sn) : new[u] = IF u = s THEN e ELSE sn[u]
  BY <1>3, <1>4, ExceptSeq
<1>6. /\ new \in Seq(ASnapshot) /\ Len(new) = Len(sn)
      /\ \A u \in 1 .. Len(sn) : /\ new[u].segs = sn[u].segs
                                 /\ new[u].refs = IF u = s THEN n ELSE sn[u].refs
  BY <1>3, <1>5
<1> QED
  BY <1>6 DEF new

\* DecRef of s, if there is one: its references, and its segments' shape.
LEMMA LetGoIs ==
  ASSUME NEW st, IsState(st), NEW s \in 0 .. Len(st.snapshots)
  PROVE  LET a == LetGoIfAny(st, s)
         IN  /\ IsState(a) /\ Len(a.snapshots) = Len(st.snapshots)
             /\ Len(a.segments) = Len(st.segments)
             /\ \A u \in 1 .. Len(st.snapshots) :
                  /\ a.snapshots[u].segs = st.snapshots[u].segs
                  /\ a.snapshots[u].refs = st.snapshots[u].refs - One(s = u)
             /\ \A o \in 1 .. Len(st.segments) : a.segments[o].mem = st.segments[o].mem
<1> DEFINE a == LetGoIfAny(st, s)
<1>a. Len(st.snapshots) \in Nat /\ st.snapshots \in [1 .. Len(st.snapshots) -> ASnapshot]
  BY LenProperties DEF IsState
<1>0. Len(st.snapshots) \in Nat /\ \A u \in 1 .. Len(st.snapshots) : st.snapshots[u].refs \in Int
  BY <1>a DEF ASnapshot
<1>1. CASE s = 0
  BY <1>0, <1>1 DEF LetGoIfAny, One
<1>2. CASE s # 0
  <2>1. s \in 1 .. Len(st.snapshots)
    BY <1>0, <1>2
  <2>2. /\ a.snapshots = [st.snapshots EXCEPT ![s].refs = @ - 1]
        /\ a.segments = IF st.snapshots[s].refs = 1
                        THEN Counted(st.segments, st.snapshots[s].segs, -1)
                        ELSE st.segments
        /\ a = [snapshots |-> a.snapshots, segments |-> a.segments]
    BY <1>2 DEF LetGoIfAny, LetGo
  <2>3. /\ a.snapshots \in Seq(ASnapshot) /\ Len(a.snapshots) = Len(st.snapshots)
        /\ \A u \in 1 .. Len(st.snapshots) :
                  /\ a.snapshots[u].segs = st.snapshots[u].segs
                  /\ a.snapshots[u].refs = IF u = s THEN st.snapshots[s].refs - 1
                                              ELSE st.snapshots[u].refs
    <3> DEFINE sn == st.snapshots
               n == sn[s].refs - 1
    <3>1. sn \in Seq(ASnapshot) /\ n \in Int
      BY <1>0, <2>1 DEF IsState
    <3>2. a.snapshots = [sn EXCEPT ![s].refs = n]
      BY <2>2
    <3>3. s \in 1 .. Len(sn)
      BY <2>1
    <3>4. /\ a.snapshots \in Seq(ASnapshot) /\ Len(a.snapshots) = Len(sn)
          /\ \A u \in 1 .. Len(sn) : /\ a.snapshots[u].segs = sn[u].segs
                                     /\ a.snapshots[u].refs = IF u = s THEN n ELSE sn[u].refs
      <4> HIDE DEF sn, n, a
      <4> QED
        BY <3>1, <3>2, <3>3, RefsIs
    <3> QED
      BY <3>4
  <2>4. /\ a.segments \in Seq(ASegment) /\ Len(a.segments) = Len(st.segments)
        /\ \A o \in 1 .. Len(st.segments) : a.segments[o].mem = st.segments[o].mem
    BY <2>2, CountedIs DEF IsState
  <2> QED
    BY SMTT(30), <1>0, <2>2, <2>3, <2>4 DEF IsState, One
<1> QED
  BY <1>1, <1>2

---------------------------------------------------------------------------
(* Counting *)

\* Of the members of a set one may come or go.
LEMMA OneMoves ==
  ASSUME NEW S, IsFiniteSet(S), NEW A \in SUBSET S, NEW B \in SUBSET S, NEW x \in S,
         \A y \in S : y # x => (y \in A <=> y \in B)
  PROVE  /\ Cardinality(A) \in Nat /\ Cardinality(B) \in Nat
         /\ Cardinality(B) = Cardinality(A) - (IF x \in A THEN 1 ELSE 0)
                                            + (IF x \in B THEN 1 ELSE 0)
<1> DEFINE R == A \ {x}
<1>1. IsFiniteSet(A) /\ IsFiniteSet(B) /\ IsFiniteSet(R)
  BY FS_Subset
<1>2. Cardinality(A) \in Nat /\ Cardinality(B) \in Nat /\ Cardinality(R) \in Nat
  BY <1>1, FS_CardinalityType
<1>3. A = (IF x \in A THEN R \cup {x} ELSE R) /\ B = IF x \in B THEN R \cup {x} ELSE R
  OBVIOUS
<1>4. x \notin R /\ IsFiniteSet(R \cup {x}) /\ Cardinality(R \cup {x}) = Cardinality(R) + 1
  BY <1>1, FS_AddElement
<1> HIDE DEF R
<1>5. Cardinality(A) = Cardinality(R) + (IF x \in A THEN 1 ELSE 0)
  <2>1. CASE x \in A
    BY <1>3, <1>4, <2>1
  <2>2. CASE x \notin A
    BY <1>2, <1>3, <2>2
  <2> QED
    BY <2>1, <2>2
<1>6. Cardinality(B) = Cardinality(R) + (IF x \in B THEN 1 ELSE 0)
  <2>1. CASE x \in B
    BY <1>3, <1>4, <2>1
  <2>2. CASE x \notin B
    BY <1>2, <1>3, <2>2
  <2> QED
    BY <2>1, <2>2
<1> QED
  BY <1>2, <1>5, <1>6

\* Which of two fields of a record are s.
Fields(f, a, b, s) == {i \in {a, b} : f[i] = s}

LEMMA TwoFields ==
  ASSUME NEW f, NEW a, NEW b, a # b, NEW s
  PROVE  Cardinality(Fields(f, a, b, s)) = One(f[a] = s) + One(f[b] = s)
<1> USE DEF Fields
<1>1. IsFiniteSet({}) /\ IsFiniteSet({a}) /\ IsFiniteSet({b})
      /\ Cardinality({}) = 0 /\ Cardinality({a}) = 1 /\ Cardinality({b}) = 1
  BY FS_EmptySet, FS_Singleton
<1>2. Cardinality({a} \cup {b}) = 2
  BY <1>1, FS_AddElement
<1> DEFINE A == {i \in {a, b} : f[i] = s}
<1>3. CASE f[a] = s /\ f[b] = s
  <2> A = {a} \cup {b}
    BY <1>3
  <2> QED
    BY <1>2, <1>3 DEF One
<1>4. CASE f[a] = s /\ f[b] # s
  <2> A = {a}
    BY <1>4
  <2> QED
    BY <1>1, <1>4 DEF One
<1>5. CASE f[a] # s /\ f[b] = s
  <2> A = {b}
    BY <1>5
  <2> QED
    BY <1>1, <1>5 DEF One
<1>6. CASE f[a] # s /\ f[b] # s
  <2> A = {}
    BY <1>6
  <2> QED
    BY <1>1, <1>6 DEF One
<1> QED
  BY <1>3, <1>4, <1>5, <1>6

---------------------------------------------------------------------------
(* Sharers and counts *)

SharingOf(st, o) == {s \in 1 .. Len(st.snapshots) : /\ st.snapshots[s].refs > 0
                                                    /\ o \in st.snapshots[s].segs}

\* How many more share a segment than its count says.
Balance(st, o) == Cardinality(SharingOf(st, o)) - st.segments[o].count

LEMMA SharingFinite ==
  ASSUME NEW st, IsState(st), NEW o
  PROVE  IsFiniteSet(SharingOf(st, o)) /\ Cardinality(SharingOf(st, o)) \in Nat
<1>1. Len(st.snapshots) \in Nat
  BY LenProperties DEF IsState
<1>2. IsFiniteSet(1 .. Len(st.snapshots))
  BY <1>1, FS_Interval
<1>3. SharingOf(st, o) \in SUBSET (1 .. Len(st.snapshots))
  BY DEF SharingOf
<1> QED
  BY <1>2, <1>3, FS_Subset, FS_CardinalityType

LEMMA CountType ==
  ASSUME NEW st, IsState(st), NEW o \in 1 .. Len(st.segments)
  PROVE  st.segments[o].count \in Int
<1>1. st.segments \in [1 .. Len(st.segments) -> ASegment]
  BY LenProperties DEF IsState
<1> QED
  BY <1>1 DEF ASegment

LEMMA RefsType ==
  ASSUME NEW st, IsState(st), NEW s \in 1 .. Len(st.snapshots)
  PROVE  st.snapshots[s].refs \in Int /\ st.snapshots[s].segs \subseteq Nat
<1>1. st.snapshots \in [1 .. Len(st.snapshots) -> ASnapshot]
  BY LenProperties DEF IsState
<1> QED
  BY <1>1 DEF ASnapshot

\* Who lets a held snapshot go takes its segments' counts with it.
LEMMA LetGoKeeps ==
  ASSUME NEW st, IsState(st), NEW s \in 0 .. Len(st.snapshots),
         s # 0 => st.snapshots[s].refs > 0, NEW o \in 1 .. Len(st.segments)
  PROVE  /\ Balance(LetGoIfAny(st, s), o) = Balance(st, o)
         /\ LetGoIfAny(st, s).segments[o].count <= st.segments[o].count
<1> DEFINE a == LetGoIfAny(st, s)
           A == SharingOf(st, o)
           B == SharingOf(a, o)
<1>1. CASE s = 0
  BY <1>1, CountType DEF LetGoIfAny
<1>2. CASE s # 0
  <2>1. s \in 1 .. Len(st.snapshots) /\ Len(st.snapshots) \in Nat
    BY <1>2, LenProperties DEF IsState
  <2>2. /\ IsState(a) /\ Len(a.snapshots) = Len(st.snapshots)
        /\ Len(a.segments) = Len(st.segments)
        /\ \A u \in 1 .. Len(st.snapshots) :
             /\ a.snapshots[u].segs = st.snapshots[u].segs
             /\ a.snapshots[u].refs = st.snapshots[u].refs - One(s = u)
    BY LetGoIs
  <2>3. a.segments = IF st.snapshots[s].refs = 1
                     THEN Counted(st.segments, st.snapshots[s].segs, -1)
                     ELSE st.segments
    BY <1>2 DEF LetGoIfAny, LetGo
  <2>4. st.segments[o].count \in Int
    BY CountType
  <2>5. a.segments[o].count = st.segments[o].count
                               - (IF st.snapshots[s].refs = 1 /\ o \in st.snapshots[s].segs
                                  THEN 1 ELSE 0)
    <3> HIDE DEF a
    <3>1. CASE st.snapshots[s].refs = 1
      <4>1. a.segments = Counted(st.segments, st.snapshots[s].segs, -1)
        BY <2>3, <3>1
      <4>2. a.segments[o].count = st.segments[o].count
                                    + (IF o \in st.snapshots[s].segs THEN -1 ELSE 0)
        BY <4>1, CountedIs DEF IsState
      <4> QED
        BY <2>4, <3>1, <4>2
    <3>2. CASE st.snapshots[s].refs # 1
      BY <2>3, <2>4, <3>2
    <3> QED
      BY <3>1, <3>2
  <2>6. \A u \in 1 .. Len(st.snapshots) : st.snapshots[u].refs \in Int
    BY RefsType
  <2> HIDE DEF a
  <2>7. /\ A \in SUBSET (1 .. Len(st.snapshots)) /\ B \in SUBSET (1 .. Len(st.snapshots))
        /\ \A u \in 1 .. Len(st.snapshots) : u # s => (u \in A <=> u \in B)
        /\ s \in A <=> o \in st.snapshots[s].segs
        /\ s \in B <=> o \in st.snapshots[s].segs /\ st.snapshots[s].refs # 1
    BY SMTT(30), <1>2, <2>1, <2>2, <2>6 DEF SharingOf, One
  <2>8. IsFiniteSet(1 .. Len(st.snapshots))
    BY <2>1, FS_Interval
  <2> HIDE DEF A, B
  <2>9. /\ Cardinality(A) \in Nat /\ Cardinality(B) \in Nat
        /\ Cardinality(B) = Cardinality(A) - (IF s \in A THEN 1 ELSE 0)
                                           + (IF s \in B THEN 1 ELSE 0)
    <3> DEFINE S == 1 .. Len(st.snapshots)
    <3>1. /\ IsFiniteSet(S) /\ A \in SUBSET S /\ B \in SUBSET S /\ s \in S
          /\ \A u \in S : u # s => (u \in A <=> u \in B)
      BY <2>1, <2>7, <2>8
    <3> HIDE DEF S
    <3> QED
      BY ZenonT(30), <3>1, OneMoves
  <2>10. Cardinality(B) - a.segments[o].count = Cardinality(A) - st.segments[o].count
    <3>1. CASE o \in st.snapshots[s].segs /\ st.snapshots[s].refs = 1
      BY <2>4, <2>5, <2>7, <2>9, <3>1
    <3>2. CASE o \in st.snapshots[s].segs /\ st.snapshots[s].refs # 1
      BY <2>4, <2>5, <2>7, <2>9, <3>2
    <3>3. CASE o \notin st.snapshots[s].segs
      BY SMTT(30), <2>4, <2>5, <2>7, <2>9, <3>3
    <3> QED
      BY <3>1, <3>2, <3>3
  <2>11. a.segments[o].count <= st.segments[o].count
    BY <2>4, <2>5
  <2> QED
    BY <2>10, <2>11 DEF Balance, A, B, a
<1> QED
  BY <1>1, <1>2

---------------------------------------------------------------------------
(* What the operations do to snapshots and segments *)

LEMMA StateTyped ==
  ASSUME TypeOK
  PROVE  /\ IsState(State)
         /\ State.snapshots = snapshots /\ State.segments = segments
         /\ snapshots \in Seq(ASnapshot) /\ segments \in Seq(ASegment)
         /\ Len(snapshots) \in Nat /\ Len(segments) \in Nat
         /\ DOMAIN snapshots = 1 .. Len(snapshots) /\ DOMAIN segments = 1 .. Len(segments)
         /\ \A s \in 1 .. Len(snapshots) : snapshots[s] \in ASnapshot
         /\ \A o \in 1 .. Len(segments) : segments[o] \in ASegment
<1>1. snapshots \in Seq(ASnapshot) /\ segments \in Seq(ASegment)
  BY DEF TypeOK
<1>2. /\ Len(snapshots) \in Nat /\ DOMAIN snapshots = 1 .. Len(snapshots)
      /\ snapshots \in [1 .. Len(snapshots) -> ASnapshot]
  BY <1>1, LenProperties
<1>3. /\ Len(segments) \in Nat /\ DOMAIN segments = 1 .. Len(segments)
      /\ segments \in [1 .. Len(segments) -> ASegment]
  BY <1>1, LenProperties
<1> QED
  BY <1>1, <1>2, <1>3 DEF IsState, State

\* The root with one reference more (RootAddRef).
LEMMA RootAddRefIs ==
  ASSUME TypeOK, root \in 1 .. Len(snapshots)
  PROVE  /\ RootAddRef \in Seq(ASnapshot) /\ Len(RootAddRef) = Len(snapshots)
         /\ \A u \in 1 .. Len(snapshots) :
              /\ RootAddRef[u].segs = snapshots[u].segs
              /\ RootAddRef[u].refs = snapshots[u].refs + One(root = u)
<1>1. \A u \in 1 .. Len(snapshots) : snapshots[u].refs \in Int
  BY StateTyped DEF ASnapshot
<1> DEFINE n == snapshots[root].refs + 1
<1>2. n \in Int /\ snapshots \in Seq(ASnapshot)
  BY <1>1, StateTyped
<1>3. RootAddRef = [snapshots EXCEPT ![root].refs = n]
  BY DEF RootAddRef
<1>4. /\ RootAddRef \in Seq(ASnapshot) /\ Len(RootAddRef) = Len(snapshots)
      /\ \A u \in 1 .. Len(snapshots) :
           /\ RootAddRef[u].segs = snapshots[u].segs
           /\ RootAddRef[u].refs = IF u = root THEN n ELSE snapshots[u].refs
  <2> HIDE DEF n
  <2> QED
    BY <1>2, <1>3, RefsIs
<1> QED
  BY <1>1, <1>4 DEF One

\* New segments (Opened).
LEMMA OpenedIs ==
  ASSUME TypeOK, NEW n \in Nat, NEW mem \in BOOLEAN
  PROVE  /\ Opened(n, mem) \in Seq(ASegment) /\ Len(Opened(n, mem)) = Len(segments) + n
         /\ \A o \in 1 .. Len(segments) : Opened(n, mem)[o] = segments[o]
         /\ \A o \in NewSegments(n) : Opened(n, mem)[o].count = 1
<1> DEFINE new == [i \in 1 .. n |-> [count |-> 1, mem |-> mem]]
<1>1. new \in [1 .. n -> ASegment]
  BY DEF ASegment
<1>2. new \in Seq(ASegment) /\ Len(new) = n
  BY <1>1, FunctionIsSeq
<1>3. segments \in Seq(ASegment) /\ Len(segments) \in Nat
  BY StateTyped DEF TypeOK, ASegment
<1>4. \A i \in 1 .. n : new[i].count = 1
  OBVIOUS
<1> HIDE DEF new
<1>5. /\ segments \o new \in Seq(ASegment) /\ Len(segments \o new) = Len(segments) + n
      /\ \A o \in 1 .. Len(segments) + n :
           (segments \o new)[o] = IF o <= Len(segments) THEN segments[o]
                                  ELSE new[o - Len(segments)]
  BY <1>2, <1>3, ConcatProperties
<1>6. \A o \in NewSegments(n) : /\ o \in 1 .. Len(segments) + n /\ ~(o <= Len(segments))
                                /\ o - Len(segments) \in 1 .. n
  BY <1>3 DEF NewSegments
<1>7. \A o \in 1 .. Len(segments) : o \in 1 .. Len(segments) + n /\ o <= Len(segments)
  BY <1>3
<1>8. Opened(n, mem) = segments \o new
  BY DEF Opened, new
<1> QED
  BY <1>4, <1>5, <1>6, <1>7, <1>8

\* References to s, part by part.
HoldingWriters(s) == Cardinality({w \in Writer : writers[w].snap = s})
HoldingReaders(s) == Cardinality({r \in Reader : readers[r] = s})
ByRoot(s) == One(root = s)
ByIntroducer(s) == One(introducer.old = s) + One(introducer.new = s)
ByPersister(s) == One(persister.snap = s) + One(persister.new = s)
ByMerger(s) == One(merger.snap = s) + One(merger.new = s)

LEMMA HoldersAre ==
  ASSUME NEW s
  PROVE  /\ Holders(s) = ByRoot(s) + HoldingWriters(s) + HoldingReaders(s) + ByIntroducer(s)
                           + ByPersister(s) + ByMerger(s)
         /\ Holders(s)' = ByRoot(s)' + HoldingWriters(s)' + HoldingReaders(s)'
                            + ByIntroducer(s)' + ByPersister(s)' + ByMerger(s)'
<1>1. "old" # "new" /\ "snap" # "new"
  OBVIOUS
<1> DEFINE N(f) == Cardinality(Fields(f, "old", "new", s))
           M(f) == Cardinality(Fields(f, "snap", "new", s))
<1>2. \A f : N(f) = One(f["old"] = s) + One(f["new"] = s)
  BY <1>1, TwoFields
<1>3. \A f : M(f) = One(f["snap"] = s) + One(f["new"] = s)
  BY <1>1, TwoFields
<1>4. /\ Holders(s) = ByRoot(s) + HoldingWriters(s) + HoldingReaders(s)
                        + N(introducer) + M(persister) + M(merger)
      /\ Holders(s)' = ByRoot(s)' + HoldingWriters(s)' + HoldingReaders(s)'
                         + N(introducer') + M(persister') + M(merger')
  BY DEF Holders, One, ByRoot, HoldingWriters, HoldingReaders, Fields
<1>5. /\ N(introducer) = ByIntroducer(s) /\ N(introducer') = ByIntroducer(s)'
      /\ M(persister) = ByPersister(s) /\ M(persister') = ByPersister(s)'
      /\ M(merger) = ByMerger(s) /\ M(merger') = ByMerger(s)'
  BY <1>2, <1>3 DEF ByIntroducer, ByPersister, ByMerger
<1> HIDE DEF N, M
<1> QED
  BY <1>4, <1>5

\* How many writers and readers hold it changes by the one that moves.
LEMMA WriterMoves ==
  ASSUME RefsAssumption, NEW w \in Writer, NEW s,
         \A v \in Writer : v # w => writers'[v].snap = writers[v].snap
  PROVE  /\ HoldingWriters(s) \in Nat /\ HoldingWriters(s)' \in Nat
         /\ HoldingWriters(s)' = HoldingWriters(s) - (IF writers[w].snap = s THEN 1 ELSE 0)
                                   + (IF writers'[w].snap = s THEN 1 ELSE 0)
<1> DEFINE A == {v \in Writer : writers[v].snap = s}
           B == {v \in Writer : writers'[v].snap = s}
<1>1. /\ IsFiniteSet(Writer) /\ A \in SUBSET Writer /\ B \in SUBSET Writer
      /\ \A v \in Writer : v # w => (v \in A <=> v \in B)
      /\ w \in A <=> writers[w].snap = s
      /\ w \in B <=> writers'[w].snap = s
  BY DEF RefsAssumption
<1>2. HoldingWriters(s) = Cardinality(A) /\ HoldingWriters(s)' = Cardinality(B)
  BY DEF HoldingWriters
<1> HIDE DEF A, B
<1>3. /\ Cardinality(A) \in Nat /\ Cardinality(B) \in Nat
      /\ Cardinality(B) = Cardinality(A) - (IF w \in A THEN 1 ELSE 0)
                                         + (IF w \in B THEN 1 ELSE 0)
  BY <1>1, OneMoves
<1> QED
  BY <1>1, <1>2, <1>3

LEMMA ReaderMoves ==
  ASSUME RefsAssumption, NEW r \in Reader, NEW s,
         \A v \in Reader : v # r => readers'[v] = readers[v]
  PROVE  /\ HoldingReaders(s) \in Nat /\ HoldingReaders(s)' \in Nat
         /\ HoldingReaders(s)' = HoldingReaders(s) - (IF readers[r] = s THEN 1 ELSE 0)
                                   + (IF readers'[r] = s THEN 1 ELSE 0)
<1> DEFINE A == {v \in Reader : readers[v] = s}
           B == {v \in Reader : readers'[v] = s}
<1>1. /\ IsFiniteSet(Reader) /\ A \in SUBSET Reader /\ B \in SUBSET Reader
      /\ \A v \in Reader : v # r => (v \in A <=> v \in B)
      /\ r \in A <=> readers[r] = s
      /\ r \in B <=> readers'[r] = s
  BY DEF RefsAssumption
<1>2. HoldingReaders(s) = Cardinality(A) /\ HoldingReaders(s)' = Cardinality(B)
  BY DEF HoldingReaders
<1> HIDE DEF A, B
<1>3. /\ Cardinality(A) \in Nat /\ Cardinality(B) \in Nat
      /\ Cardinality(B) = Cardinality(A) - (IF r \in A THEN 1 ELSE 0)
                                         + (IF r \in B THEN 1 ELSE 0)
  BY <1>1, OneMoves
<1> QED
  BY <1>1, <1>2, <1>3

LEMMA PartsType ==
  ASSUME RefsAssumption, NEW s
  PROVE  /\ ByRoot(s) \in Nat /\ ByRoot(s)' \in Nat
         /\ HoldingWriters(s) \in Nat /\ HoldingWriters(s)' \in Nat
         /\ HoldingReaders(s) \in Nat /\ HoldingReaders(s)' \in Nat
         /\ ByIntroducer(s) \in Nat /\ ByIntroducer(s)' \in Nat
         /\ ByPersister(s) \in Nat /\ ByPersister(s)' \in Nat
         /\ ByMerger(s) \in Nat /\ ByMerger(s)' \in Nat
<1>1. \A A \in SUBSET Writer : Cardinality(A) \in Nat
  BY FS_Subset, FS_CardinalityType DEF RefsAssumption
<1>2. \A A \in SUBSET Reader : Cardinality(A) \in Nat
  BY FS_Subset, FS_CardinalityType DEF RefsAssumption
<1>3. /\ HoldingWriters(s) \in Nat /\ HoldingReaders(s) \in Nat
      /\ HoldingWriters(s)' \in Nat /\ HoldingReaders(s)' \in Nat
  BY <1>1, <1>2 DEF HoldingWriters, HoldingReaders
<1>4. /\ ByRoot(s) \in Nat /\ ByRoot(s)' \in Nat
      /\ ByIntroducer(s) \in Nat /\ ByIntroducer(s)' \in Nat
      /\ ByPersister(s) \in Nat /\ ByPersister(s)' \in Nat
      /\ ByMerger(s) \in Nat /\ ByMerger(s)' \in Nat
  BY DEF One, ByRoot, ByIntroducer, ByPersister, ByMerger
<1> QED
  BY <1>3, <1>4

LEMMA Sums ==
  ASSUME NEW a \in Nat, NEW b \in Nat, NEW c \in Nat, NEW i \in Nat, NEW p \in Nat, NEW m \in Nat,
         NEW a1 \in Nat, NEW b1 \in Nat, NEW c1 \in Nat, NEW i1 \in Nat, NEW p1 \in Nat,
         NEW m1 \in Nat, NEW d \in Int, NEW n,
         n = a + b + c + i + p + m,
         d = (a1 - a) + (b1 - b) + (c1 - c) + (i1 - i) + (p1 - p) + (m1 - m)
  PROVE  n + d = a1 + b1 + c1 + i1 + p1 + m1
OBVIOUS

\* The references of s so far: none when it is being built.
Before(s) == IF s <= Len(snapshots) THEN snapshots[s].refs ELSE 0

LEMMA NobodyHoldsNext ==
  ASSUME RefsAssumption, Inv, NEW s, s = Len(snapshots) + 1
  PROVE  /\ ByRoot(s) = 0 /\ HoldingWriters(s) = 0 /\ HoldingReaders(s) = 0
         /\ ByIntroducer(s) = 0 /\ ByPersister(s) = 0 /\ ByMerger(s) = 0
<1>0. Len(snapshots) \in Nat
  BY StateTyped DEF Inv
<1>1. /\ root # s /\ introducer.old # s /\ introducer.new # s
      /\ persister.snap # s /\ persister.new # s /\ merger.snap # s /\ merger.new # s
  BY <1>0 DEF Inv, InRange
<1>2. ByRoot(s) = 0 /\ ByIntroducer(s) = 0 /\ ByPersister(s) = 0 /\ ByMerger(s) = 0
  BY <1>1 DEF ByRoot, ByIntroducer, ByPersister, ByMerger, One
<1>3. {w \in Writer : writers[w].snap = s} = {} /\ {r \in Reader : readers[r] = s} = {}
  BY <1>0 DEF Inv, InRange
<1> QED
  BY <1>2, <1>3, FS_EmptySet DEF HoldingWriters, HoldingReaders

LEMMA BeforeIs ==
  ASSUME RefsAssumption, Inv, NEW s \in 1 .. Len(snapshots) + 1
  PROVE  Before(s) = Holders(s) /\ Before(s) \in Int
<1>0. Len(snapshots) \in Nat /\ \A u \in 1 .. Len(snapshots) : snapshots[u].refs \in Int
  BY StateTyped DEF Inv, ASnapshot
<1>1. CASE s <= Len(snapshots)
  BY <1>0, <1>1, StateTyped DEF Inv, SnapshotCounts, Before
<1>2. CASE ~(s <= Len(snapshots))
  <2>1. s = Len(snapshots) + 1 /\ Before(s) = 0
    BY <1>0, <1>2 DEF Before
  <2>2. Holders(s) = 0
    BY <2>1, NobodyHoldsNext, HoldersAre
  <2> QED
    BY <2>1, <2>2
<1> QED
  BY <1>1, <1>2

\* The counts stay right when every part changes as the references do.
LEMMA CountsStay ==
  ASSUME RefsAssumption, Inv, NEW s \in 1 .. Len(snapshots) + 1, NEW d \in Int,
         snapshots'[s].refs = Before(s) + d,
         d = (ByRoot(s)' - ByRoot(s)) + (HoldingWriters(s)' - HoldingWriters(s))
               + (HoldingReaders(s)' - HoldingReaders(s)) + (ByIntroducer(s)' - ByIntroducer(s))
               + (ByPersister(s)' - ByPersister(s)) + (ByMerger(s)' - ByMerger(s))
  PROVE  snapshots'[s].refs = Holders(s)'
<1> DEFINE n == Before(s)
           a == ByRoot(s)
           a1 == ByRoot(s)'
           b == HoldingWriters(s)
           b1 == HoldingWriters(s)'
           c == HoldingReaders(s)
           c1 == HoldingReaders(s)'
           i == ByIntroducer(s)
           i1 == ByIntroducer(s)'
           p == ByPersister(s)
           p1 == ByPersister(s)'
           m == ByMerger(s)
           m1 == ByMerger(s)'
<1>1. n = Holders(s)
  BY BeforeIs
<1>2. n = a + b + c + i + p + m
  BY <1>1, HoldersAre
<1>3. Holders(s)' = a1 + b1 + c1 + i1 + p1 + m1
  BY HoldersAre
<1>4. /\ a \in Nat /\ b \in Nat /\ c \in Nat /\ i \in Nat /\ p \in Nat /\ m \in Nat
      /\ a1 \in Nat /\ b1 \in Nat /\ c1 \in Nat /\ i1 \in Nat /\ p1 \in Nat /\ m1 \in Nat
  BY PartsType
<1>5. d = (a1 - a) + (b1 - b) + (c1 - c) + (i1 - i) + (p1 - p) + (m1 - m)
  OBVIOUS
<1>6. snapshots'[s].refs = n + d
  OBVIOUS
<1> HIDE DEF n, a, a1, b, b1, c, c1, i, i1, p, p1, m, m1
<1>7. n + d = a1 + b1 + c1 + i1 + p1 + m1
  BY SMTT(30), <1>2, <1>4, <1>5, Sums
<1> QED
  BY <1>3, <1>6, <1>7

\* Parts that nobody touches.
LEMMA PartsSame ==
  ASSUME RefsAssumption, NEW s
  PROVE  /\ root' = root => ByRoot(s)' - ByRoot(s) = 0
         /\ (\A w \in Writer : writers'[w].snap = writers[w].snap) =>
              HoldingWriters(s)' - HoldingWriters(s) = 0
         /\ readers' = readers => HoldingReaders(s)' - HoldingReaders(s) = 0
         /\ introducer' = introducer => ByIntroducer(s)' - ByIntroducer(s) = 0
         /\ persister'.snap = persister.snap /\ persister'.new = persister.new =>
              ByPersister(s)' - ByPersister(s) = 0
         /\ merger'.snap = merger.snap /\ merger'.new = merger.new =>
              ByMerger(s)' - ByMerger(s) = 0
<1>1. /\ root' = root => ByRoot(s)' = ByRoot(s)
      /\ readers' = readers => HoldingReaders(s)' = HoldingReaders(s)
      /\ introducer' = introducer => ByIntroducer(s)' = ByIntroducer(s)
      /\ persister'.snap = persister.snap /\ persister'.new = persister.new =>
           ByPersister(s)' = ByPersister(s)
      /\ merger'.snap = merger.snap /\ merger'.new = merger.new =>
           ByMerger(s)' = ByMerger(s)
  BY DEF ByRoot, HoldingReaders, ByIntroducer, ByPersister, ByMerger
<1>2. ASSUME \A w \in Writer : writers'[w].snap = writers[w].snap
      PROVE  HoldingWriters(s)' = HoldingWriters(s)
  <2>1. {w \in Writer : writers'[w].snap = s} = {w \in Writer : writers[w].snap = s}
    BY <1>2
  <2> QED
    BY <2>1 DEF HoldingWriters
<1>3. \A n \in Nat : n - n = 0
  OBVIOUS
<1> QED
  BY <1>1, <1>2, <1>3, PartsType

LEMMA OneType == \A b : One(b) \in {0, 1}
  BY DEF One

\* DecRef of a snapshot.
LEMMA LetGoStep ==
  ASSUME Inv, NEW s \in 1 .. Len(snapshots), Becomes(LetGo(State, s))
  PROVE  /\ snapshots' \in Seq(ASnapshot) /\ Len(snapshots') = Len(snapshots)
         /\ segments' \in Seq(ASegment) /\ Len(segments') = Len(segments)
         /\ \A u \in 1 .. Len(snapshots) : /\ snapshots'[u].segs = snapshots[u].segs
                                           /\ snapshots'[u].refs = Before(u) + (0 - One(s = u))
         /\ \A o \in 1 .. Len(segments) : segments'[o].mem = segments[o].mem
<1> DEFINE a == LetGoIfAny(State, s)
<1>1. Len(snapshots) \in Nat /\ \A u \in 1 .. Len(snapshots) : snapshots[u].refs \in Int
  BY StateTyped DEF Inv, ASnapshot
<1>2. a = LetGo(State, s)
  BY <1>1 DEF LetGoIfAny
<1>3. snapshots' = a.snapshots /\ segments' = a.segments
  BY <1>2 DEF Becomes
<1> HIDE DEF a
<1>4. /\ snapshots' \in Seq(ASnapshot) /\ Len(snapshots') = Len(snapshots)
      /\ segments' \in Seq(ASegment) /\ Len(segments') = Len(segments)
      /\ \A u \in 1 .. Len(snapshots) : /\ snapshots'[u].segs = snapshots[u].segs
                                        /\ snapshots'[u].refs = snapshots[u].refs - One(s = u)
      /\ \A o \in 1 .. Len(segments) : segments'[o].mem = segments[o].mem
  <2>1. /\ IsState(State) /\ State.snapshots = snapshots /\ State.segments = segments
        /\ s \in 0 .. Len(State.snapshots)
    BY <1>1, StateTyped DEF Inv
  <2>2. /\ IsState(a) /\ Len(a.snapshots) = Len(State.snapshots)
        /\ Len(a.segments) = Len(State.segments)
        /\ \A u \in 1 .. Len(State.snapshots) :
             /\ a.snapshots[u].segs = State.snapshots[u].segs
             /\ a.snapshots[u].refs = State.snapshots[u].refs - One(s = u)
        /\ \A o \in 1 .. Len(State.segments) : a.segments[o].mem = State.segments[o].mem
    BY <2>1, LetGoIs DEF a
  <2> QED
    BY <1>3, <2>1, <2>2 DEF IsState
<1> QED
  BY <1>1, <1>4 DEF Before, One

\* Segments are closed and up to two snapshots let go.
LEMMA CloseAndLetGoStep ==
  ASSUME Inv, NEW X, NEW s \in 0 .. Len(snapshots), NEW t \in 0 .. Len(snapshots),
         Becomes(LetGoIfAny(CloseAndLetGo(X, s), t))
  PROVE  /\ snapshots' \in Seq(ASnapshot) /\ Len(snapshots') = Len(snapshots)
         /\ segments' \in Seq(ASegment) /\ Len(segments') = Len(segments)
         /\ \A u \in 1 .. Len(snapshots) :
              /\ snapshots'[u].segs = snapshots[u].segs
              /\ snapshots'[u].refs = Before(u) + (0 - One(s = u) - One(t = u))
         /\ \A o \in 1 .. Len(segments) : segments'[o].mem = segments[o].mem
<1> DEFINE c == [State EXCEPT !.segments = Counted(segments, X, -1)]
           a == LetGoIfAny(c, s)
           b == LetGoIfAny(a, t)
<1>1. Len(snapshots) \in Nat /\ \A u \in 1 .. Len(snapshots) : snapshots[u].refs \in Int
  BY StateTyped DEF Inv, ASnapshot
<1>2. /\ IsState(c) /\ c.snapshots = snapshots /\ Len(c.segments) = Len(segments)
      /\ \A o \in 1 .. Len(segments) : c.segments[o].mem = segments[o].mem
  <2>1. c.snapshots = snapshots /\ c.segments = Counted(segments, X, -1)
        /\ c = [snapshots |-> c.snapshots, segments |-> c.segments]
    BY DEF State
  <2>2. snapshots \in Seq(ASnapshot) /\ segments \in Seq(ASegment)
    BY StateTyped DEF Inv
  <2> HIDE DEF c
  <2> QED
    BY <2>1, <2>2, CountedIs DEF IsState
<1>3. snapshots' = b.snapshots /\ segments' = b.segments
  BY DEF Becomes, CloseAndLetGo
<1> HIDE DEF c
<1>4. /\ IsState(a) /\ Len(a.snapshots) = Len(snapshots) /\ Len(a.segments) = Len(segments)
      /\ \A u \in 1 .. Len(snapshots) : /\ a.snapshots[u].segs = snapshots[u].segs
                                        /\ a.snapshots[u].refs = snapshots[u].refs - One(s = u)
      /\ \A o \in 1 .. Len(segments) : a.segments[o].mem = segments[o].mem
  <2>1. /\ IsState(a) /\ Len(a.snapshots) = Len(c.snapshots)
        /\ Len(a.segments) = Len(c.segments)
        /\ \A u \in 1 .. Len(c.snapshots) :
             /\ a.snapshots[u].segs = c.snapshots[u].segs
             /\ a.snapshots[u].refs = c.snapshots[u].refs - One(s = u)
        /\ \A o \in 1 .. Len(c.segments) : a.segments[o].mem = c.segments[o].mem
    BY <1>2, LetGoIs
  <2> QED
    BY <1>2, <2>1
<1> HIDE DEF a
<1>5. /\ IsState(b) /\ Len(b.snapshots) = Len(snapshots) /\ Len(b.segments) = Len(segments)
      /\ \A u \in 1 .. Len(snapshots) :
           /\ b.snapshots[u].segs = snapshots[u].segs
           /\ b.snapshots[u].refs = snapshots[u].refs - One(s = u) - One(t = u)
      /\ \A o \in 1 .. Len(segments) : b.segments[o].mem = segments[o].mem
  BY <1>4, LetGoIs
<1> HIDE DEF b
<1> QED
  BY <1>1, <1>3, <1>5 DEF IsState, Before, One

---------------------------------------------------------------------------
(* Readers *)

LEMMA ReadKeeps ==
  ASSUME RefsAssumption, Inv, NEW r \in Reader, Read(r)
  PROVE  Inv'
<1>1. root \in 1 .. Len(snapshots)
  BY StateTyped DEF Inv, TypeOK, InRange, Read
<1>2. /\ snapshots' \in Seq(ASnapshot) /\ Len(snapshots') = Len(snapshots)
      /\ \A u \in 1 .. Len(snapshots) : /\ snapshots'[u].segs = snapshots[u].segs
                                        /\ snapshots'[u].refs = Before(u) + One(root = u)
  BY <1>1, RootAddRefIs DEF Inv, Read, Before
<1>3. readers' \in [Reader -> Nat] /\ \A v \in Reader : readers'[v] = IF v = r THEN root ELSE readers[v]
  BY DEF Inv, TypeOK, Read
<1>4. TypeOK'
  BY <1>2, <1>3 DEF Inv, TypeOK, Read
<1>5. InRange'
  BY <1>1, <1>2, <1>3 DEF Inv, InRange, Read
<1>6. Fits'
  BY DEF Inv, Fits, WritersFit, IntroducerFits, PersisterFits, MergerFits, IndexFits, Closing, Read
<1>8. FilesInRange'
  BY DEF Inv, FilesInRange, Read
<1>7. ASSUME NEW s \in 1 .. Len(snapshots) PROVE snapshots'[s].refs = Holders(s)'
  <2>1. HoldingReaders(s)' - HoldingReaders(s) = One(root = s)
    BY SMTT(30), <1>1, <1>3, ReaderMoves, PartsType DEF Read, One
  <2>2. /\ ByRoot(s)' - ByRoot(s) = 0 /\ HoldingWriters(s)' - HoldingWriters(s) = 0
        /\ ByIntroducer(s)' - ByIntroducer(s) = 0 /\ ByPersister(s)' - ByPersister(s) = 0
        /\ ByMerger(s)' - ByMerger(s) = 0
    BY PartsSame DEF Read
  <2> QED
    BY <1>2, <2>1, <2>2, CountsStay, OneType, StateTyped DEF Inv
<1> QED
  BY <1>2, <1>4, <1>5, <1>6, <1>7, <1>8, LenProperties DEF Inv, SnapshotCounts

LEMMA CloseReaderKeeps ==
  ASSUME RefsAssumption, Inv, NEW r \in Reader, CloseReader(r)
  PROVE  Inv'
<1>0. UNCHANGED <<root, writers, introducer, persister, merger, index, used>>
  BY DEF CloseReader
<1>1. readers[r] \in 1 .. Len(snapshots)
  BY StateTyped DEF Inv, TypeOK, InRange, CloseReader
<1>2. /\ snapshots' \in Seq(ASnapshot) /\ Len(snapshots') = Len(snapshots)
      /\ segments' \in Seq(ASegment) /\ Len(segments') = Len(segments)
      /\ \A u \in 1 .. Len(snapshots) :
           /\ snapshots'[u].segs = snapshots[u].segs
           /\ snapshots'[u].refs = Before(u) + (0 - One(readers[r] = u))
  BY <1>1, LetGoStep DEF CloseReader
<1>3. readers' \in [Reader -> Nat] /\ \A v \in Reader : readers'[v] = IF v = r THEN 0 ELSE readers[v]
  BY DEF Inv, TypeOK, CloseReader
<1>4. TypeOK'
  BY <1>0, <1>2, <1>3 DEF Inv, TypeOK
<1>5. InRange'
  <2>1. 0 <= Len(snapshots)
    BY StateTyped DEF Inv
  <2>2. \A v \in Reader : readers'[v] <= Len(snapshots)
    BY <1>3, <2>1 DEF Inv, InRange
  <2> QED
    BY <1>0, <1>2, <2>2 DEF Inv, InRange
<1>6. Fits'
  BY <1>0 DEF Inv, Fits, WritersFit, IntroducerFits, PersisterFits, MergerFits, IndexFits, Closing
<1>8. FilesInRange'
  BY <1>0, <1>2 DEF Inv, FilesInRange
<1>7. ASSUME NEW s \in 1 .. Len(snapshots) PROVE snapshots'[s].refs = Holders(s)'
  <2>1. HoldingReaders(s)' - HoldingReaders(s) = 0 - One(readers[r] = s)
    BY SMTT(30), <1>1, <1>3, ReaderMoves, PartsType DEF CloseReader, One
  <2>2. /\ ByRoot(s)' - ByRoot(s) = 0 /\ HoldingWriters(s)' - HoldingWriters(s) = 0
        /\ ByIntroducer(s)' - ByIntroducer(s) = 0 /\ ByPersister(s)' - ByPersister(s) = 0
        /\ ByMerger(s)' - ByMerger(s) = 0
    BY <1>0, PartsSame
  <2> QED
    BY <1>2, <2>1, <2>2, CountsStay, OneType, StateTyped DEF Inv
<1> QED
  BY <1>2, <1>4, <1>5, <1>6, <1>7, <1>8, LenProperties DEF Inv, SnapshotCounts

---------------------------------------------------------------------------
(* The introducer *)

Pcs == {"idle", "introducing", "introduced", "persisting", "return", "failed"}

\* A call of Batch goes on.
LEMMA WriterSteps ==
  ASSUME TypeOK, NEW w \in Writer, NEW pc \in Pcs, writers' = [writers EXCEPT ![w].pc = pc]
  PROVE  /\ writers' \in [Writer -> ABatch]
         /\ \A v \in Writer : /\ writers'[v].snap = writers[v].snap
                              /\ writers'[v].seg = writers[v].seg
                              /\ writers'[v].pc = IF v = w THEN pc ELSE writers[v].pc
<1>1. writers \in [Writer -> ABatch]
  BY DEF TypeOK
<1> DEFINE e == [writers[w] EXCEPT !.pc = pc]
<1>2. writers[w] \in ABatch
  BY <1>1
<1>3. e \in ABatch /\ e.snap = writers[w].snap /\ e.seg = writers[w].seg /\ e.pc = pc
  BY <1>2 DEF ABatch, Pcs
<1>4. writers' = [writers EXCEPT ![w] = e]
  OBVIOUS
<1> HIDE DEF e
<1> QED
  BY <1>1, <1>3, <1>4

LEMMA AppendIs ==
  ASSUME NEW sn \in Seq(ASnapshot), NEW segs \in SUBSET Nat, NEW refs \in Int
  PROVE  LET new == Append(sn, [segs |-> segs, refs |-> refs])
         IN  /\ new \in Seq(ASnapshot) /\ Len(new) = Len(sn) + 1
             /\ \A u \in 1 .. Len(sn) : new[u] = sn[u]
             /\ new[Len(sn) + 1].segs = segs /\ new[Len(sn) + 1].refs = refs
<1> DEFINE e == [segs |-> segs, refs |-> refs]
<1>1. e \in ASnapshot /\ e.segs = segs /\ e.refs = refs
  BY DEF ASnapshot
<1> HIDE DEF e
<1>2. LET new == Append(sn, e)
      IN  /\ new \in Seq(ASnapshot) /\ Len(new) = Len(sn) + 1
          /\ \A u \in 1 .. Len(sn) : new[u] = sn[u]
          /\ new[Len(sn) + 1] = e
  BY <1>1, AppendProperties
<1> QED
  BY <1>1, <1>2 DEF e

\* A new snapshot is built.
LEMMA BuildIs ==
  ASSUME Inv, introducer.pc = "idle", NEW kept \in SUBSET snapshots[root].segs,
         NEW added \in SUBSET (1 .. Len(segments)), NEW refs \in {1, 2},
         Build(kept, added, refs), segments' = Counted(segments, kept, 1)
  PROVE  /\ root \in 1 .. Len(snapshots)
         /\ snapshots' \in Seq(ASnapshot) /\ Len(snapshots') = Len(snapshots) + 1
         /\ \A u \in 1 .. Len(snapshots) : snapshots'[u].segs = snapshots[u].segs
         /\ snapshots'[Len(snapshots) + 1].segs = kept \cup added
         /\ \A u \in 1 .. Len(snapshots) + 1 :
              /\ snapshots'[u].segs \subseteq 1 .. Len(segments)
              /\ snapshots'[u].refs = Before(u) + (One(root = u)
                                                    + (IF u = Len(snapshots) + 1 THEN refs ELSE 0))
         /\ segments' \in Seq(ASegment) /\ Len(segments') = Len(segments)
         /\ \A o \in 1 .. Len(segments) : segments'[o].mem = segments[o].mem
<1>1. root \in 1 .. Len(snapshots) /\ Len(snapshots) \in Nat
  BY StateTyped DEF Inv, TypeOK, InRange, Fits, IndexFits
<1>2. kept \cup added \in SUBSET Nat /\ kept \cup added \subseteq 1 .. Len(segments)
  BY <1>1 DEF Inv, InRange
<1>3. snapshots' = Append(RootAddRef, [segs |-> kept \cup added, refs |-> refs])
  BY DEF Build
<1>4. /\ RootAddRef \in Seq(ASnapshot) /\ Len(RootAddRef) = Len(snapshots)
      /\ \A u \in 1 .. Len(snapshots) :
           /\ RootAddRef[u].segs = snapshots[u].segs
           /\ RootAddRef[u].refs = snapshots[u].refs + One(root = u)
  BY <1>1, RootAddRefIs DEF Inv
<1>5. /\ snapshots' \in Seq(ASnapshot) /\ Len(snapshots') = Len(snapshots) + 1
      /\ \A u \in 1 .. Len(snapshots) : snapshots'[u] = RootAddRef[u]
      /\ snapshots'[Len(snapshots) + 1].segs = kept \cup added
      /\ snapshots'[Len(snapshots) + 1].refs = refs
  <2> DEFINE S == kept \cup added
             sn == RootAddRef
  <2>1. S \in SUBSET Nat /\ refs \in Int /\ sn \in Seq(ASnapshot)
    BY <1>2, <1>4
  <2>2. snapshots' = Append(sn, [segs |-> S, refs |-> refs])
    BY <1>3
  <2> HIDE DEF S, sn
  <2>3. /\ snapshots' \in Seq(ASnapshot) /\ Len(snapshots') = Len(sn) + 1
        /\ \A u \in 1 .. Len(sn) : snapshots'[u] = sn[u]
        /\ snapshots'[Len(sn) + 1].segs = S /\ snapshots'[Len(sn) + 1].refs = refs
    BY SMTT(30), <2>1, <2>2, AppendIs
  <2>4. Len(sn) = Len(snapshots)
    BY <1>4 DEF sn
  <2> QED
    BY <2>3, <2>4 DEF S, sn
<1>6. /\ segments' \in Seq(ASegment) /\ Len(segments') = Len(segments)
      /\ \A o \in 1 .. Len(segments) : segments'[o].mem = segments[o].mem
  BY CountedIs, StateTyped DEF Inv
<1>7. ASSUME NEW u \in 1 .. Len(snapshots) + 1
      PROVE  /\ snapshots'[u].segs \subseteq 1 .. Len(segments)
             /\ snapshots'[u].refs = Before(u) + (One(root = u)
                                                   + (IF u = Len(snapshots) + 1 THEN refs ELSE 0))
  <2>1. CASE u \in 1 .. Len(snapshots)
    <3>1. u <= Len(snapshots) /\ u # Len(snapshots) + 1 /\ snapshots[u].refs \in Int
      BY <1>1, <2>1, StateTyped DEF Inv, ASnapshot
    <3> QED
      BY <1>4, <1>5, <2>1, <3>1 DEF Before, Inv, InRange, One
  <2>2. CASE u = Len(snapshots) + 1
    <3>1. ~(u <= Len(snapshots)) /\ root # u
      BY <1>1, <2>2
    <3> QED
      BY <1>2, <1>5, <2>2, <3>1 DEF Before, One
  <2> QED
    BY <1>1, <2>1, <2>2
<1> QED
  BY <1>1, <1>4, <1>5, <1>6, <1>7

\* What the introducer has after it.
LEMMA BuildIntroducer ==
  ASSUME Inv, introducer.pc = "idle", NEW kept, NEW added, NEW refs, Build(kept, added, refs)
  PROVE  /\ introducer' \in AnIntroducer(introducer'.files) /\ introducer'.pc = "swap"
         /\ introducer'.old = root /\ introducer'.new = Len(snapshots) + 1
         /\ \A u \in 1 .. Len(snapshots) + 1 :
              ByIntroducer(u)' - ByIntroducer(u) = One(root = u) + One(u = Len(snapshots) + 1)
<1>1. introducer.old = 0 /\ introducer.new = 0
  BY DEF Inv, Fits, IntroducerFits
<1>2. introducer' = [introducer EXCEPT !.pc = "swap", !.old = root, !.new = Len(snapshots) + 1]
  BY DEF Build
<1>3. root \in Nat /\ Len(snapshots) \in Nat
  BY StateTyped DEF Inv, TypeOK
<1>4. introducer \in AnIntroducer(introducer.files)
  BY DEF Inv, TypeOK
<1>5. /\ introducer' \in AnIntroducer(introducer'.files) /\ introducer'.pc = "swap"
      /\ introducer'.old = root /\ introducer'.new = Len(snapshots) + 1
  <2> DEFINE n == Len(snapshots) + 1
  <2>1. introducer' = [introducer EXCEPT !.pc = "swap", !.old = root, !.new = n] /\ n \in Nat
    BY <1>2, <1>3
  <2> HIDE DEF n
  <2>2. introducer'.files = introducer.files
    BY <1>4, <2>1 DEF AnIntroducer
  <2>3. introducer' \in AnIntroducer(introducer.files) /\ introducer'.pc = "swap"
        /\ introducer'.old = root /\ introducer'.new = n
    BY <1>3, <1>4, <2>1 DEF AnIntroducer
  <2> QED
    BY <2>2, <2>3 DEF n
<1>6. ASSUME NEW u \in 1 .. Len(snapshots) + 1
      PROVE  ByIntroducer(u)' - ByIntroducer(u) = One(root = u) + One(u = Len(snapshots) + 1)
  <2>1. ByIntroducer(u) = 0
    BY <1>1, <1>3 DEF ByIntroducer, One
  <2>2. ByIntroducer(u)' = One(root = u) + One(Len(snapshots) + 1 = u)
    BY <1>5 DEF ByIntroducer
  <2> QED
    BY <2>1, <2>2 DEF One
<1> QED
  BY <1>5, <1>6

\* What was in range stays so.
LEMMA StillInRange ==
  ASSUME Inv, NEW n \in Nat, NEW m \in Nat, Len(snapshots) <= n, Len(segments) <= m
  PROVE  /\ root <= n
         /\ \A s \in 1 .. Len(snapshots) : snapshots[s].segs \subseteq 1 .. m
         /\ \A w \in Writer : writers[w].seg <= m /\ writers[w].snap <= n
         /\ \A r \in Reader : readers[r] <= n
         /\ introducer.old <= n /\ introducer.new <= n
         /\ persister.snap <= n /\ persister.new <= n
         /\ persister.opened \subseteq 1 .. m
         /\ merger.snap <= n /\ merger.new <= n /\ merger.seg <= m
         /\ introducer.pc = "persist" => \A u \in DOMAIN introducer.files :
                                           introducer.files[u] \in 1 .. m
         /\ persister.pc = "send" => \A u \in DOMAIN persister.files :
                                       persister.files[u] \in 1 .. m
<1>1. Len(snapshots) \in Nat /\ Len(segments) \in Nat
  BY StateTyped DEF Inv
<1>2. /\ root \in Nat /\ \A r \in Reader : readers[r] \in Nat
      /\ \A w \in Writer : writers[w].seg \in Nat /\ writers[w].snap \in Nat
  BY DEF Inv, TypeOK, ABatch
<1>3. /\ introducer.old \in Nat /\ introducer.new \in Nat
      /\ persister.snap \in Nat /\ persister.new \in Nat
      /\ merger.snap \in Nat /\ merger.new \in Nat /\ merger.seg \in Nat
  BY DEF Inv, TypeOK, AnIntroducer, APersister, AMerger
<1>4. 1 .. Len(segments) \subseteq 1 .. m
  BY <1>1
<1>5. /\ \A s \in 1 .. Len(snapshots) : snapshots[s].segs \subseteq 1 .. m
      /\ persister.opened \subseteq 1 .. m
      /\ introducer.pc = "persist" => \A u \in DOMAIN introducer.files :
                                        introducer.files[u] \in 1 .. m
      /\ persister.pc = "send" => \A u \in DOMAIN persister.files :
                                    persister.files[u] \in 1 .. m
  BY <1>4 DEF Inv, InRange, FilesInRange
<1>6. /\ root <= n /\ \A w \in Writer : writers[w].seg <= m /\ writers[w].snap <= n
      /\ \A r \in Reader : readers[r] <= n
  BY <1>1, <1>2 DEF Inv, InRange
<1>7. /\ introducer.old <= n /\ introducer.new <= n
      /\ persister.snap <= n /\ persister.new <= n
      /\ merger.snap <= n /\ merger.new <= n /\ merger.seg <= m
  BY SMTT(30), <1>1, <1>3 DEF Inv, InRange
<1> QED
  BY <1>5, <1>6, <1>7

LEMMA IntroduceSegmentKeeps ==
  ASSUME RefsAssumption, Inv, NEW w \in Writer, IntroduceSegment(w)
  PROVE  Inv'
<1> DEFINE n == Len(snapshots) + 1
           added == {writers[w].seg} \ {0}
<1>0. /\ introducer.pc = "idle" /\ writers[w].pc = "introducing"
      /\ writers' = [writers EXCEPT ![w].pc = "introduced"]
      /\ UNCHANGED <<root, readers, persister, merger, index, used>>
  BY DEF IntroduceSegment
<1>1. PICK kept \in SUBSET snapshots[root].segs : /\ Build(kept, added, 1)
                                                  /\ segments' = Counted(segments, kept, 1)
  BY DEF IntroduceSegment
<1>2. added \in SUBSET (1 .. Len(segments))
  <2>1. writers[w].seg \in Nat /\ writers[w].seg <= Len(segments) /\ Len(segments) \in Nat
    BY StateTyped DEF Inv, InRange, TypeOK, ABatch
  <2> QED
    BY <2>1
<1>3. /\ root \in 1 .. Len(snapshots)
      /\ snapshots' \in Seq(ASnapshot) /\ Len(snapshots') = n
      /\ \A u \in 1 .. n :
              /\ snapshots'[u].segs \subseteq 1 .. Len(segments)
              /\ snapshots'[u].refs = Before(u) + (One(root = u) + (IF u = n THEN 1 ELSE 0))
      /\ segments' \in Seq(ASegment) /\ Len(segments') = Len(segments)
  <2> HIDE DEF added
  <2> QED
    BY <1>0, <1>1, <1>2, BuildIs
<1>4. /\ introducer' \in AnIntroducer(introducer'.files) /\ introducer'.pc = "swap"
      /\ introducer'.old = root /\ introducer'.new = n
      /\ \A u \in 1 .. n : ByIntroducer(u)' - ByIntroducer(u) = One(root = u) + One(u = n)
  BY <1>0, <1>1, BuildIntroducer
<1>5. /\ writers' \in [Writer -> ABatch]
      /\ \A v \in Writer : /\ writers'[v].snap = writers[v].snap
                           /\ writers'[v].seg = writers[v].seg
                           /\ writers'[v].pc = IF v = w THEN "introduced" ELSE writers[v].pc
  BY <1>0, WriterSteps DEF Inv, Pcs
<1>6. n \in Nat /\ Len(snapshots) <= n /\ Len(snapshots) \in Nat
  BY StateTyped DEF Inv
<1>7. TypeOK'
  BY <1>0, <1>3, <1>4, <1>5 DEF Inv, TypeOK
<1>8. InRange'
  <2> HIDE DEF n
  <2>1. root <= n /\ introducer'.old <= n /\ introducer'.new <= n
    BY <1>3, <1>4, <1>6
  <2> QED
    BY <1>0, <1>3, <1>5, <1>6, <2>1, StillInRange, StateTyped DEF Inv, InRange
<1>9. Fits'
  BY <1>0, <1>3, <1>4, <1>5, <1>6
  DEF Inv, Fits, WritersFit, IntroducerFits, PersisterFits, MergerFits, IndexFits, Closing
<1>11. FilesInRange'
  BY <1>0, <1>3, <1>4 DEF Inv, FilesInRange
<1>10. ASSUME NEW s \in 1 .. n PROVE snapshots'[s].refs = Holders(s)'
  <2>1. /\ ByRoot(s)' - ByRoot(s) = 0 /\ HoldingWriters(s)' - HoldingWriters(s) = 0
        /\ HoldingReaders(s)' - HoldingReaders(s) = 0
        /\ ByPersister(s)' - ByPersister(s) = 0 /\ ByMerger(s)' - ByMerger(s) = 0
    BY <1>0, <1>5, PartsSame
  <2>2. (IF s = n THEN 1 ELSE 0) = One(s = n)
    BY DEF One
  <2> QED
    BY <1>3, <1>4, <2>1, <2>2, CountsStay, OneType
<1> QED
  BY <1>3, <1>7, <1>8, <1>9, <1>10, <1>11, LenProperties DEF Inv, SnapshotCounts

LEMMA IntroduceInMemoryMergeKeeps ==
  ASSUME RefsAssumption, Inv, IntroduceInMemoryMerge
  PROVE  Inv'
<1> DEFINE n == Len(snapshots) + 1
           unmerged == snapshots[root].segs \ persister.merged
<1>0. /\ introducer.pc = "idle" /\ persister.pc = "merge"
      /\ UNCHANGED <<root, writers, readers, merger, index, used>>
  BY DEF IntroduceInMemoryMerge, BuildMerge
<1>1. PICK kept \in SUBSET persister.opened :
        /\ Build(unmerged, kept, 2) /\ segments' = Counted(segments, unmerged, 1)
        /\ persister' = [persister EXCEPT !.pc = "merging", !.new = n, !.kept = kept]
  BY DEF IntroduceInMemoryMerge, BuildMerge
<1>2. kept \in SUBSET (1 .. Len(segments)) /\ unmerged \in SUBSET snapshots[root].segs
  BY DEF Inv, InRange
<1>3. /\ root \in 1 .. Len(snapshots)
      /\ snapshots' \in Seq(ASnapshot) /\ Len(snapshots') = n
      /\ \A u \in 1 .. n :
              /\ snapshots'[u].segs \subseteq 1 .. Len(segments)
              /\ snapshots'[u].refs = Before(u) + (One(root = u) + (IF u = n THEN 2 ELSE 0))
      /\ segments' \in Seq(ASegment) /\ Len(segments') = Len(segments)
  <2> HIDE DEF unmerged
  <2> QED
    BY <1>0, <1>1, <1>2, BuildIs
<1>4. /\ introducer' \in AnIntroducer(introducer'.files) /\ introducer'.pc = "swap"
      /\ introducer'.old = root /\ introducer'.new = n
      /\ \A u \in 1 .. n : ByIntroducer(u)' - ByIntroducer(u) = One(root = u) + One(u = n)
  BY <1>0, <1>1, BuildIntroducer
<1>5. n \in Nat /\ Len(snapshots) <= n /\ Len(snapshots) \in Nat /\ Len(segments) \in Nat
  BY StateTyped DEF Inv
<1>6. /\ persister' \in APersister(persister'.files) /\ persister'.pc = "merging"
      /\ persister'.new = n /\ persister'.snap = persister.snap /\ persister'.acks = persister.acks
      /\ persister'.opened = persister.opened
  <2>1. kept \in SUBSET Nat /\ persister \in APersister(persister.files)
    BY <1>2 DEF Inv, TypeOK
  <2> HIDE DEF n
  <2>2. persister'.files = persister.files
    BY <1>1, <2>1 DEF APersister
  <2> QED
    BY <1>1, <1>5, <2>1, <2>2 DEF APersister
<1>7. TypeOK'
  BY <1>0, <1>3, <1>4, <1>6 DEF Inv, TypeOK
<1>8. InRange'
  <2> HIDE DEF n
  <2>1. root <= n /\ introducer'.old <= n /\ introducer'.new <= n /\ persister'.new <= n
    BY <1>3, <1>4, <1>5, <1>6
  <2>2. Len(segments) <= Len(segments)
    BY <1>5
  <2>3. /\ \A w \in Writer : writers[w].seg <= Len(segments) /\ writers[w].snap <= n
        /\ \A r \in Reader : readers[r] <= n
        /\ persister.snap <= n /\ persister.new <= n
        /\ persister.opened \subseteq 1 .. Len(segments)
        /\ merger.snap <= n /\ merger.new <= n /\ merger.seg <= Len(segments)
    BY <1>5, <2>2, StillInRange
  <2> QED
    BY <1>0, <1>3, <1>6, <2>1, <2>3 DEF InRange
<1>9. Fits'
  BY <1>0, <1>3, <1>4, <1>5, <1>6
  DEF Inv, Fits, WritersFit, IntroducerFits, PersisterFits, MergerFits, IndexFits, Closing
<1>11. FilesInRange'
  BY <1>4, <1>6 DEF FilesInRange
<1>10. ASSUME NEW s \in 1 .. n PROVE snapshots'[s].refs = Holders(s)'
  <2>1. /\ ByRoot(s)' - ByRoot(s) = 0 /\ HoldingWriters(s)' - HoldingWriters(s) = 0
        /\ HoldingReaders(s)' - HoldingReaders(s) = 0 /\ ByMerger(s)' - ByMerger(s) = 0
    BY <1>0, PartsSame
  <2>2. ByPersister(s)' - ByPersister(s) = One(s = n)
    <3>1. persister.new = 0 /\ s # 0
      BY <1>0, <1>5 DEF Inv, Fits, PersisterFits
    <3>2. ByPersister(s) = One(persister.snap = s) /\ ByPersister(s)' = One(persister.snap = s) + One(s = n)
      BY <1>6, <3>1 DEF ByPersister, One
    <3> QED
      BY <3>2 DEF One
  <2>3. One(root = s) + (IF s = n THEN 2 ELSE 0) = One(root = s) + One(s = n) + One(s = n)
    BY DEF One
  <2> QED
    BY <1>3, <1>4, <2>1, <2>2, <2>3, CountsStay, OneType
<1> QED
  BY <1>3, <1>7, <1>8, <1>9, <1>10, <1>11, LenProperties DEF Inv, SnapshotCounts

LEMMA IntroduceFileMergeKeeps ==
  ASSUME RefsAssumption, Inv, IntroduceFileMerge
  PROVE  Inv'
<1> DEFINE n == Len(snapshots) + 1
           unmerged == snapshots[root].segs \ merger.merged
           added(kept) == IF kept THEN {merger.seg} ELSE {}
<1>0. /\ introducer.pc = "idle" /\ merger.pc = "send"
      /\ UNCHANGED <<root, writers, readers, persister, index, used>>
  BY DEF IntroduceFileMerge, BuildMerge
<1>1. PICK kept \in BOOLEAN :
        /\ Build(unmerged, added(kept), 2) /\ segments' = Counted(segments, unmerged, 1)
        /\ merger' = [merger EXCEPT !.pc = "merging", !.new = n, !.kept = kept]
  BY DEF IntroduceFileMerge, BuildMerge
<1>2. added(kept) \in SUBSET (1 .. Len(segments)) /\ unmerged \in SUBSET snapshots[root].segs
  <2>1. merger.seg \in Nat /\ merger.seg <= Len(segments) /\ merger.seg # 0 /\ Len(segments) \in Nat
    BY <1>0, StateTyped DEF Inv, InRange, TypeOK, AMerger, Fits, MergerFits
  <2> QED
    BY <2>1
<1>3. /\ root \in 1 .. Len(snapshots)
      /\ snapshots' \in Seq(ASnapshot) /\ Len(snapshots') = n
      /\ \A u \in 1 .. n :
              /\ snapshots'[u].segs \subseteq 1 .. Len(segments)
              /\ snapshots'[u].refs = Before(u) + (One(root = u) + (IF u = n THEN 2 ELSE 0))
      /\ segments' \in Seq(ASegment) /\ Len(segments') = Len(segments)
  <2> HIDE DEF unmerged, added
  <2> QED
    BY <1>0, <1>1, <1>2, BuildIs
<1>4. /\ introducer' \in AnIntroducer(introducer'.files) /\ introducer'.pc = "swap"
      /\ introducer'.old = root /\ introducer'.new = n
      /\ \A u \in 1 .. n : ByIntroducer(u)' - ByIntroducer(u) = One(root = u) + One(u = n)
  <2> HIDE DEF unmerged, added
  <2> QED
    BY <1>0, <1>1, BuildIntroducer
<1>5. n \in Nat /\ Len(snapshots) <= n /\ Len(snapshots) \in Nat /\ Len(segments) \in Nat
  BY StateTyped DEF Inv
<1>6. /\ merger' \in AMerger /\ merger'.pc = "merging"
      /\ merger'.new = n /\ merger'.snap = merger.snap /\ merger'.seg = merger.seg
  <2> HIDE DEF n
  <2> QED
    BY <1>1, <1>5 DEF AMerger, Inv, TypeOK
<1>7. TypeOK'
  BY <1>0, <1>3, <1>4, <1>6 DEF Inv, TypeOK
<1>8. InRange'
  <2> HIDE DEF n
  <2>1. root <= n /\ introducer'.old <= n /\ introducer'.new <= n /\ merger'.new <= n
    BY <1>3, <1>4, <1>5, <1>6
  <2>2. Len(segments) <= Len(segments)
    BY <1>5
  <2>3. /\ \A w \in Writer : writers[w].seg <= Len(segments) /\ writers[w].snap <= n
        /\ \A r \in Reader : readers[r] <= n
        /\ persister.snap <= n /\ persister.new <= n
        /\ persister.opened \subseteq 1 .. Len(segments)
        /\ merger.snap <= n /\ merger.new <= n /\ merger.seg <= Len(segments)
    BY <1>5, <2>2, StillInRange
  <2> QED
    BY <1>0, <1>3, <1>6, <2>1, <2>3 DEF InRange
<1>9. Fits'
  BY <1>0, <1>3, <1>4, <1>5, <1>6
  DEF Inv, Fits, WritersFit, IntroducerFits, PersisterFits, MergerFits, IndexFits, Closing
<1>11. FilesInRange'
  BY <1>0, <1>3, <1>4 DEF Inv, FilesInRange
<1>10. ASSUME NEW s \in 1 .. n PROVE snapshots'[s].refs = Holders(s)'
  <2>1. /\ ByRoot(s)' - ByRoot(s) = 0 /\ HoldingWriters(s)' - HoldingWriters(s) = 0
        /\ HoldingReaders(s)' - HoldingReaders(s) = 0 /\ ByPersister(s)' - ByPersister(s) = 0
    BY <1>0, PartsSame
  <2>2. ByMerger(s)' - ByMerger(s) = One(s = n)
    <3>1. merger.new = 0 /\ s # 0
      BY <1>0, <1>5 DEF Inv, Fits, MergerFits
    <3>2. ByMerger(s) = One(merger.snap = s) /\ ByMerger(s)' = One(merger.snap = s) + One(s = n)
      BY <1>6, <3>1 DEF ByMerger, One
    <3> QED
      BY <3>2 DEF One
  <2>3. One(root = s) + (IF s = n THEN 2 ELSE 0) = One(root = s) + One(s = n) + One(s = n)
    BY DEF One
  <2> QED
    BY <1>3, <1>4, <2>1, <2>2, <2>3, CountsStay, OneType
<1> QED
  BY <1>3, <1>7, <1>8, <1>9, <1>10, <1>11, LenProperties DEF Inv, SnapshotCounts

LEMMA ReceivePersistKeeps ==
  ASSUME RefsAssumption, Inv, ReceivePersist
  PROVE  Inv'
<1>0. /\ introducer.pc = "idle" /\ persister.pc = "send"
      /\ UNCHANGED <<segments, root, writers, readers, merger, index, used>>
  BY DEF ReceivePersist
<1>1. root \in 1 .. Len(snapshots) /\ Len(snapshots) \in Nat
  BY <1>0, StateTyped DEF Inv, TypeOK, InRange, Fits, IndexFits
<1>2. /\ snapshots' \in Seq(ASnapshot) /\ Len(snapshots') = Len(snapshots)
      /\ \A u \in 1 .. Len(snapshots) : /\ snapshots'[u].segs = snapshots[u].segs
                                        /\ snapshots'[u].refs = Before(u) + One(root = u)
  BY <1>1, RootAddRefIs DEF Inv, ReceivePersist, Before
<1>3. /\ introducer' \in AnIntroducer(introducer'.files) /\ introducer'.pc = "persist"
      /\ introducer'.old = root /\ introducer'.new = introducer.new
      /\ introducer'.files = persister.files
  <2>1. /\ introducer' = [introducer EXCEPT !.pc = "persist", !.old = root,
                                            !.files = persister.files]
        /\ introducer \in AnIntroducer(introducer.files) /\ root \in Nat
    BY DEF ReceivePersist, Inv, TypeOK
  <2>2. introducer'.files = persister.files
    BY <2>1 DEF AnIntroducer
  <2>3. introducer' \in AnIntroducer(persister.files)
    BY <2>1 DEF AnIntroducer
  <2> QED
    BY <2>1, <2>2, <2>3 DEF AnIntroducer
<1>4. /\ persister' \in APersister(persister'.files) /\ persister'.pc = "sent"
      /\ persister'.files = persister.files
      /\ persister'.new = persister.new /\ persister'.snap = persister.snap
      /\ persister'.acks = persister.acks /\ persister'.opened = persister.opened
  <2>1. /\ persister' = [persister EXCEPT !.pc = "sent"]
        /\ persister \in APersister(persister.files)
    BY DEF ReceivePersist, Inv, TypeOK
  <2>2. persister'.files = persister.files
    BY <2>1 DEF APersister
  <2> QED
    BY <2>1, <2>2 DEF APersister
<1>5. TypeOK'
  BY <1>0, <1>2, <1>3, <1>4 DEF Inv, TypeOK
<1>6. InRange'
  BY <1>0, <1>1, <1>2, <1>3, <1>4 DEF Inv, InRange
<1>7. FilesInRange'
  BY <1>0, <1>3, <1>4 DEF Inv, FilesInRange
<1>8. Fits'
  BY <1>0, <1>1, <1>3, <1>4
  DEF Inv, Fits, WritersFit, IntroducerFits, PersisterFits, MergerFits, IndexFits, Closing
<1>9. ASSUME NEW s \in 1 .. Len(snapshots) PROVE snapshots'[s].refs = Holders(s)'
  <2>1. /\ ByRoot(s)' - ByRoot(s) = 0 /\ HoldingWriters(s)' - HoldingWriters(s) = 0
        /\ HoldingReaders(s)' - HoldingReaders(s) = 0
        /\ ByPersister(s)' - ByPersister(s) = 0 /\ ByMerger(s)' - ByMerger(s) = 0
    BY <1>0, <1>4, PartsSame
  <2>2. ByIntroducer(s)' - ByIntroducer(s) = One(root = s)
    <3>1. introducer.old = 0 /\ introducer.new = 0 /\ s # 0
      BY <1>0, <1>1 DEF Inv, Fits, IntroducerFits
    <3> QED
      BY <1>3, <3>1 DEF ByIntroducer, One
  <2> QED
    BY <1>1, <1>2, <2>1, <2>2, CountsStay, OneType
<1> QED
  BY <1>2, <1>5, <1>6, <1>7, <1>8, <1>9, LenProperties DEF Inv, SnapshotCounts

LEMMA IntroducePersistKeeps ==
  ASSUME RefsAssumption, Inv, IntroducePersist
  PROVE  Inv'
<1> DEFINE n == Len(snapshots) + 1
           replaced == DOMAIN introducer.files \cap snapshots[root].segs
           kept == snapshots[root].segs \ replaced
           added == {introducer.files[o] : o \in replaced}
<1>0. /\ introducer.pc = "persist"
      /\ UNCHANGED <<root, writers, readers, merger, index, used>>
  BY DEF IntroducePersist
<1>1. /\ root \in 1 .. Len(snapshots) /\ Len(snapshots) \in Nat /\ Len(segments) \in Nat
      /\ n \in Nat /\ Len(snapshots) <= n
  BY <1>0, StateTyped DEF Inv, TypeOK, InRange, Fits, IndexFits
<1>2. kept \cup added \subseteq 1 .. Len(segments) /\ kept \cup added \in SUBSET Nat
  <2>1. snapshots[root].segs \subseteq 1 .. Len(segments)
    BY <1>1 DEF Inv, InRange
  <2>2. \A o \in DOMAIN introducer.files : introducer.files[o] \in 1 .. Len(segments)
    BY <1>0 DEF Inv, FilesInRange
  <2> QED
    BY <1>1, <2>1, <2>2
<1>3. /\ snapshots' \in Seq(ASnapshot) /\ Len(snapshots') = n
      /\ \A u \in 1 .. n :
           /\ snapshots'[u].segs \subseteq 1 .. Len(segments)
           /\ snapshots'[u].refs = Before(u) + One(u = n)
  <2>1. snapshots' = Append(snapshots, [segs |-> kept \cup added, refs |-> 1])
    BY DEF IntroducePersist
  <2>2. snapshots \in Seq(ASnapshot)
    BY StateTyped DEF Inv
  <2> DEFINE S == kept \cup added
  <2> HIDE DEF S
  <2>3. /\ snapshots' \in Seq(ASnapshot) /\ Len(snapshots') = n
        /\ \A u \in 1 .. Len(snapshots) : snapshots'[u] = snapshots[u]
        /\ snapshots'[n].segs = S /\ snapshots'[n].refs = 1
    <3>1. S \in SUBSET Nat /\ 1 \in Int
      BY <1>2 DEF S
    <3>2. snapshots' = Append(snapshots, [segs |-> S, refs |-> 1])
      BY <2>1 DEF S
    <3> HIDE DEF kept, added
    <3> QED
      BY SMTT(30), <2>2, <3>1, <3>2, AppendIs
  <2>5. S \subseteq 1 .. Len(segments)
    BY <1>2 DEF S
  <2>4. ASSUME NEW u \in 1 .. n
        PROVE  /\ snapshots'[u].segs \subseteq 1 .. Len(segments)
               /\ snapshots'[u].refs = Before(u) + One(u = n)
    <3>1. CASE u = n
      <4>1. ~(u <= Len(snapshots))
        BY <1>1, <3>1
      <4> QED
        <5>1. Before(u) = 0 /\ One(u = n) = 1
          BY <3>1, <4>1 DEF Before, One
        <5>2. snapshots'[u].segs = S /\ snapshots'[u].refs = 1
          BY <2>3, <3>1
        <5> QED
          BY <2>5, <5>1, <5>2
    <3>2. CASE u # n
      <4>0. u \in 1 .. Len(snapshots) /\ u <= Len(snapshots)
        BY <1>1, <3>2
      <4>1. u \in 1 .. Len(snapshots) /\ u <= Len(snapshots) /\ snapshots[u].refs \in Int
        BY <4>0, StateTyped DEF Inv, ASnapshot
      <4> QED
        BY <2>3, <3>2, <4>1 DEF Before, One, Inv, InRange
    <3> QED
      BY <3>1, <3>2
  <2> QED
    BY <2>3, <2>4
<1>4. segments' \in Seq(ASegment) /\ Len(segments') = Len(segments)
  <2>1. segments' = Counted(segments, kept, 1) /\ segments \in Seq(ASegment)
    BY StateTyped DEF IntroducePersist, Inv
  <2> HIDE DEF kept
  <2> QED
    BY <2>1, CountedIs
<1>5. /\ introducer' \in AnIntroducer(introducer'.files) /\ introducer'.pc = "swap"
      /\ introducer'.old = introducer.old /\ introducer'.new = n
  <2>1. /\ introducer' = [introducer EXCEPT !.pc = "swap", !.new = n, !.files = <<>>]
        /\ introducer \in AnIntroducer(introducer.files)
    BY DEF IntroducePersist, Inv, TypeOK
  <2> HIDE DEF n
  <2>2. introducer'.files = <<>> /\ introducer' \in AnIntroducer(<<>>)
    BY <1>1, <2>1 DEF AnIntroducer
  <2> QED
    BY <2>1, <2>2 DEF AnIntroducer
<1>6. /\ persister' \in APersister(persister'.files) /\ persister'.pc = persister.pc
      /\ persister'.files = persister.files
      /\ persister'.new = persister.new /\ persister'.snap = persister.snap
      /\ persister'.acks = persister.acks /\ persister'.opened \subseteq persister.opened
  <2>1. /\ persister' = [persister EXCEPT !.opened = persister.opened \ added]
        /\ persister \in APersister(persister.files)
    BY DEF IntroducePersist, Inv, TypeOK
  <2> HIDE DEF added
  <2>2. persister'.files = persister.files
    BY <2>1 DEF APersister
  <2> QED
    BY <2>1, <2>2 DEF APersister
<1>7. TypeOK'
  BY <1>0, <1>3, <1>4, <1>5, <1>6 DEF Inv, TypeOK
<1>8. InRange'
  <2> HIDE DEF n
  <2>1. introducer'.new <= n
    BY <1>1, <1>5
  <2>2. Len(segments) <= Len(segments)
    BY <1>1
  <2>3. /\ \A w \in Writer : writers[w].seg <= Len(segments) /\ writers[w].snap <= n
        /\ \A r \in Reader : readers[r] <= n
        /\ root <= n /\ introducer.old <= n
        /\ persister.snap <= n /\ persister.new <= n
        /\ persister.opened \subseteq 1 .. Len(segments)
        /\ merger.snap <= n /\ merger.new <= n /\ merger.seg <= Len(segments)
    BY <1>1, <2>2, StillInRange
  <2> QED
    BY <1>0, <1>3, <1>4, <1>5, <1>6, <2>1, <2>3 DEF InRange
<1>9. FilesInRange'
  BY <1>0, <1>4, <1>5, <1>6 DEF Inv, FilesInRange
<1>10. Fits'
  BY <1>0, <1>1, <1>5, <1>6
  DEF Inv, Fits, WritersFit, IntroducerFits, PersisterFits, MergerFits, IndexFits, Closing
<1>11. ASSUME NEW s \in 1 .. n PROVE snapshots'[s].refs = Holders(s)'
  <2>1. /\ ByRoot(s)' - ByRoot(s) = 0 /\ HoldingWriters(s)' - HoldingWriters(s) = 0
        /\ HoldingReaders(s)' - HoldingReaders(s) = 0
        /\ ByPersister(s)' - ByPersister(s) = 0 /\ ByMerger(s)' - ByMerger(s) = 0
    BY <1>0, <1>6, PartsSame
  <2>2. ByIntroducer(s)' - ByIntroducer(s) = One(s = n)
    <3>1. introducer.new = 0 /\ s # 0
      BY <1>0, <1>1 DEF Inv, Fits, IntroducerFits
    <3>2. ByIntroducer(s) = One(introducer.old = s) /\ ByIntroducer(s)' = One(introducer.old = s) + One(s = n)
      BY <1>5, <3>1 DEF ByIntroducer, One
    <3> QED
      BY <3>2 DEF One
  <2> QED
    BY <1>3, <2>1, <2>2, CountsStay, OneType
<1> QED
  BY <1>3, <1>7, <1>8, <1>9, <1>10, <1>11, LenProperties DEF Inv, SnapshotCounts

LEMMA SwapKeeps ==
  ASSUME RefsAssumption, Inv, Swap
  PROVE  Inv'
<1>0. /\ introducer.pc = "swap" /\ root' = introducer.new
      /\ UNCHANGED <<readers, index, used>>
  BY DEF Swap
<1>1. root \in 1 .. Len(snapshots) /\ introducer.new \in 1 .. Len(snapshots) /\ Len(snapshots) \in Nat
  <2>1. introducer.new \in Nat /\ introducer.new # 0
    BY <1>0 DEF Inv, TypeOK, AnIntroducer, Fits, IntroducerFits
  <2> QED
    BY <1>0, <2>1, StateTyped DEF Inv, TypeOK, InRange, Fits, IndexFits
<1>2. /\ snapshots' \in Seq(ASnapshot) /\ Len(snapshots') = Len(snapshots)
      /\ segments' \in Seq(ASegment) /\ Len(segments') = Len(segments)
      /\ \A u \in 1 .. Len(snapshots) : /\ snapshots'[u].segs = snapshots[u].segs
                                        /\ snapshots'[u].refs = Before(u) + (0 - One(root = u))
  BY <1>1, LetGoStep DEF Swap
<1>3. /\ introducer' \in AnIntroducer(introducer'.files) /\ introducer'.pc = "finish"
      /\ introducer'.old = introducer.old /\ introducer'.new = 0
  <2>1. /\ introducer' = [introducer EXCEPT !.pc = "finish", !.new = 0]
        /\ introducer \in AnIntroducer(introducer.files)
    BY DEF Swap, Inv, TypeOK
  <2>2. introducer'.files = introducer.files
    BY <2>1 DEF AnIntroducer
  <2> QED
    BY <2>1, <2>2 DEF AnIntroducer
<1>4. /\ writers' \in [Writer -> ABatch]
      /\ \A v \in Writer : /\ writers'[v].snap = writers[v].snap
                           /\ writers'[v].seg = writers[v].seg
                           /\ writers'[v].pc = IF writers[v].pc = "introduced" THEN AfterApplied
                                               ELSE writers[v].pc
  <2>1. AfterApplied \in {"return", "persisting"}
    BY DEF AfterApplied
  <2>2. \A v \in Writer : writers[v] \in ABatch
    BY DEF Inv, TypeOK
  <2>3. \A v \in Writer : writers'[v] = IF writers[v].pc = "introduced"
                                        THEN [writers[v] EXCEPT !.pc = AfterApplied]
                                        ELSE writers[v]
    BY DEF Swap
  <2>4. writers' = [v \in Writer |-> writers'[v]]
    BY DEF Swap
  <2>5. \A v \in Writer : /\ writers'[v] \in ABatch
                          /\ writers'[v].snap = writers[v].snap
                          /\ writers'[v].seg = writers[v].seg
                          /\ writers'[v].pc = IF writers[v].pc = "introduced" THEN AfterApplied
                                              ELSE writers[v].pc
    BY <2>1, <2>2, <2>3 DEF ABatch
  <2> QED
    BY <2>4, <2>5
<1>5. /\ persister' \in APersister(persister'.files)
      /\ persister'.pc = CASE persister.pc = "merging" -> "merged"
                           [] persister.pc = "sent" -> "commit"
                           [] OTHER -> persister.pc
      /\ persister'.files = persister.files
      /\ persister'.new = persister.new /\ persister'.snap = persister.snap
      /\ persister'.acks = persister.acks /\ persister'.opened = persister.opened
  <2> DEFINE pc == CASE persister.pc = "merging" -> "merged"
                     [] persister.pc = "sent" -> "commit"
                     [] OTHER -> persister.pc
  <2>1. /\ persister' = [persister EXCEPT !.pc = pc]
        /\ persister \in APersister(persister.files)
    BY DEF Swap, Inv, TypeOK
  <2>2. pc \in {"idle", "took", "merge", "merging", "merged", "direct", "send", "sent", "commit",
                "done"}
    BY <2>1 DEF APersister
  <2> HIDE DEF pc
  <2>3. persister'.files = persister.files
    BY <2>1 DEF APersister
  <2>4. /\ persister' \in APersister(persister'.files) /\ persister'.pc = pc
        /\ persister'.new = persister.new /\ persister'.snap = persister.snap
        /\ persister'.acks = persister.acks /\ persister'.opened = persister.opened
    BY <2>1, <2>2, <2>3 DEF APersister
  <2> QED
    BY <2>3, <2>4 DEF pc
<1>6. /\ merger' \in AMerger
      /\ merger'.pc = IF merger.pc = "merging" THEN "merged" ELSE merger.pc
      /\ merger'.snap = merger.snap /\ merger'.new = merger.new /\ merger'.seg = merger.seg
  BY DEF Swap, Inv, TypeOK, AMerger
<1>7. TypeOK'
  BY <1>0, <1>1, <1>2, <1>3, <1>4, <1>5, <1>6 DEF Inv, TypeOK
<1>8. InRange'
  <2>1. /\ Len(snapshots') = Len(snapshots) /\ Len(segments') = Len(segments)
        /\ root' <= Len(snapshots) /\ introducer'.new <= Len(snapshots)
    BY <1>0, <1>1, <1>2, <1>3
  <2>2. \A w \in Writer : writers'[w].seg <= Len(segments) /\ writers'[w].snap <= Len(snapshots)
    BY <1>4 DEF Inv, InRange
  <2> QED
    BY <1>0, <1>2, <1>3, <1>5, <1>6, <2>1, <2>2 DEF Inv, InRange
<1>9. FilesInRange'
  BY <1>2, <1>3, <1>5 DEF Inv, FilesInRange
<1>10. Fits'
  <2>1. WritersFit'
    BY <1>4 DEF Inv, Fits, WritersFit, AfterApplied
  <2>2. IntroducerFits'
    BY <1>0, <1>3 DEF Inv, Fits, IntroducerFits
  <2>3. PersisterFits'
    <3>1. \A w \in persister.acks : writers'[w].pc = "persisting"
      BY <1>4 DEF Inv, TypeOK, APersister, Fits, PersisterFits
    <3>2. /\ persister'.pc \in {"idle", "done"} <=> persister.pc \in {"idle", "done"}
          /\ persister.pc \in {"merging", "merged", "commit"} =>
               persister'.pc \in {"merging", "merged", "commit"}
          /\ persister'.pc \in {"merging", "merged"} => persister.pc \in {"merging", "merged"}
      BY <1>5
    <3> QED
      BY <1>5, <3>1, <3>2 DEF Inv, Fits, PersisterFits
  <2>4. MergerFits'
    BY <1>6 DEF Inv, Fits, MergerFits
  <2>5. IndexFits'
    BY <1>0, <1>1, <1>4 DEF Inv, Fits, IndexFits, Closing
  <2> QED
    BY <2>1, <2>2, <2>3, <2>4, <2>5 DEF Fits
<1>11. ASSUME NEW s \in 1 .. Len(snapshots) PROVE snapshots'[s].refs = Holders(s)'
  <2>1. /\ HoldingWriters(s)' - HoldingWriters(s) = 0
        /\ HoldingReaders(s)' - HoldingReaders(s) = 0
        /\ ByPersister(s)' - ByPersister(s) = 0 /\ ByMerger(s)' - ByMerger(s) = 0
    BY <1>0, <1>4, <1>5, <1>6, PartsSame
  <2>2. ByIntroducer(s)' - ByIntroducer(s) = 0 - One(introducer.new = s)
    <3>1. /\ ByIntroducer(s) = One(introducer.old = s) + One(introducer.new = s)
          /\ ByIntroducer(s)' = One(introducer.old = s)
      BY <1>1, <1>3 DEF ByIntroducer, One
    <3> QED
      BY <3>1 DEF One
  <2>3. ByRoot(s)' - ByRoot(s) = One(introducer.new = s) - One(root = s)
    BY <1>0 DEF ByRoot
  <2>4. 0 - One(root = s) = (One(introducer.new = s) - One(root = s)) + (0 - One(introducer.new = s))
    BY OneType
  <2> QED
    BY <1>1, <1>2, <2>1, <2>2, <2>3, <2>4, CountsStay, OneType
<1> QED
  BY <1>2, <1>7, <1>8, <1>9, <1>10, <1>11, LenProperties DEF Inv, SnapshotCounts

LEMMA FinishKeeps ==
  ASSUME RefsAssumption, Inv, Finish
  PROVE  Inv'
<1>0. /\ introducer.pc = "finish"
      /\ UNCHANGED <<root, writers, readers, persister, merger, index, used>>
  BY DEF Finish
<1>1. introducer.old \in 1 .. Len(snapshots) /\ Len(snapshots) \in Nat
  BY <1>0, StateTyped DEF Inv, TypeOK, AnIntroducer, InRange, Fits, IntroducerFits
<1>2. /\ snapshots' \in Seq(ASnapshot) /\ Len(snapshots') = Len(snapshots)
      /\ segments' \in Seq(ASegment) /\ Len(segments') = Len(segments)
      /\ \A u \in 1 .. Len(snapshots) :
           /\ snapshots'[u].segs = snapshots[u].segs
           /\ snapshots'[u].refs = Before(u) + (0 - One(introducer.old = u))
  BY <1>1, LetGoStep DEF Finish
<1>3. /\ introducer' \in AnIntroducer(introducer'.files) /\ introducer'.pc = "idle"
      /\ introducer'.old = 0 /\ introducer'.new = introducer.new
  <2>1. /\ introducer' = [introducer EXCEPT !.pc = "idle", !.old = 0]
        /\ introducer \in AnIntroducer(introducer.files)
    BY DEF Finish, Inv, TypeOK
  <2>2. introducer'.files = introducer.files
    BY <2>1 DEF AnIntroducer
  <2> QED
    BY <2>1, <2>2 DEF AnIntroducer
<1>4. TypeOK'
  BY <1>0, <1>2, <1>3 DEF Inv, TypeOK
<1>5. InRange'
  BY <1>0, <1>1, <1>2, <1>3 DEF Inv, InRange
<1>6. FilesInRange'
  BY <1>0, <1>2, <1>3 DEF Inv, FilesInRange
<1>7. Fits'
  BY <1>0, <1>3
  DEF Inv, Fits, WritersFit, IntroducerFits, PersisterFits, MergerFits, IndexFits, Closing
<1>8. ASSUME NEW s \in 1 .. Len(snapshots) PROVE snapshots'[s].refs = Holders(s)'
  <2>1. /\ ByRoot(s)' - ByRoot(s) = 0 /\ HoldingWriters(s)' - HoldingWriters(s) = 0
        /\ HoldingReaders(s)' - HoldingReaders(s) = 0
        /\ ByPersister(s)' - ByPersister(s) = 0 /\ ByMerger(s)' - ByMerger(s) = 0
    BY <1>0, PartsSame
  <2>2. ByIntroducer(s)' - ByIntroducer(s) = 0 - One(introducer.old = s)
    <3>1. /\ ByIntroducer(s) = One(introducer.old = s) + One(introducer.new = s)
          /\ ByIntroducer(s)' = One(introducer.new = s)
      BY <1>1, <1>3 DEF ByIntroducer, One
    <3> QED
      BY <3>1 DEF One
  <2> QED
    BY <1>1, <1>2, <2>1, <2>2, CountsStay, OneType
<1> QED
  BY <1>2, <1>4, <1>5, <1>6, <1>7, <1>8, LenProperties DEF Inv, SnapshotCounts

LEMMA IntroducerExitsKeeps ==
  ASSUME RefsAssumption, Inv, IntroducerExits
  PROVE  Inv'
<1>0. /\ introducer.pc = "idle"
      /\ UNCHANGED <<snapshots, segments, root, writers, readers, persister, merger, index, used>>
  BY DEF IntroducerExits
<1>1. /\ introducer' \in AnIntroducer(introducer'.files) /\ introducer'.pc = "done"
      /\ introducer'.old = introducer.old /\ introducer'.new = introducer.new
  <2>1. /\ introducer' = [introducer EXCEPT !.pc = "done"]
        /\ introducer \in AnIntroducer(introducer.files)
    BY DEF IntroducerExits, Inv, TypeOK
  <2>2. introducer'.files = introducer.files
    BY <2>1 DEF AnIntroducer
  <2> QED
    BY <2>1, <2>2 DEF AnIntroducer
<1>2. TypeOK' /\ InRange' /\ FilesInRange'
  BY <1>0, <1>1 DEF Inv, TypeOK, InRange, FilesInRange
<1>3. Fits'
  BY <1>0, <1>1
  DEF Inv, Fits, WritersFit, IntroducerFits, PersisterFits, MergerFits, IndexFits, Closing
<1>4. SnapshotCounts'
  <2>1. \A s : ByIntroducer(s)' = ByIntroducer(s)
    BY <1>1 DEF ByIntroducer
  <2>2. ASSUME NEW s PROVE Holders(s)' = Holders(s)
    <3>1. /\ ByRoot(s)' = ByRoot(s) /\ HoldingWriters(s)' = HoldingWriters(s)
          /\ HoldingReaders(s)' = HoldingReaders(s) /\ ByPersister(s)' = ByPersister(s)
          /\ ByMerger(s)' = ByMerger(s)
      BY <1>0 DEF ByRoot, ByPersister, ByMerger, HoldingWriters, HoldingReaders
    <3> QED
      BY <2>1, <3>1, HoldersAre
  <2> QED
    BY <1>0, <2>2 DEF Inv, SnapshotCounts
<1> QED
  BY <1>2, <1>3, <1>4 DEF Inv

---------------------------------------------------------------------------
(* Batches *)

LEMMA UsesTyped ==
  ASSUME TypeOK, NEW what \in {"batches", "merges", "failures"}, NEW max, Uses(what, max)
  PROVE  used' \in [batches : Nat, merges : Nat, failures : Nat]
  BY DEF TypeOK, Uses

LEMMA PrepareSegmentKeeps ==
  ASSUME RefsAssumption, Inv, NEW w \in Writer, PrepareSegment(w)
  PROVE  Inv'
<1>0. /\ writers[w].pc = "idle" /\ index = "open"
      /\ UNCHANGED <<root, readers, introducer, persister, merger, index>>
  BY DEF PrepareSegment, Closing
<1>1. /\ root \in 1 .. Len(snapshots) /\ Len(snapshots) \in Nat /\ Len(segments) \in Nat
  BY <1>0, StateTyped DEF Inv, TypeOK, InRange, Fits, IndexFits
<1>2. PICK n \in {0, 1} :
        /\ segments' = Opened(n, TRUE)
        /\ writers' = [writers EXCEPT ![w] = [pc |-> "introducing", snap |-> root,
                                              seg |-> IF n = 0 THEN 0 ELSE Len(segments) + 1]]
  BY DEF PrepareSegment
<1>3. /\ snapshots' \in Seq(ASnapshot) /\ Len(snapshots') = Len(snapshots)
      /\ \A u \in 1 .. Len(snapshots) : /\ snapshots'[u].segs = snapshots[u].segs
                                        /\ snapshots'[u].refs = Before(u) + One(root = u)
  BY <1>1, RootAddRefIs DEF Inv, PrepareSegment, Before
<1>4. segments' \in Seq(ASegment) /\ Len(segments') = Len(segments) + n
  BY <1>2, OpenedIs DEF Inv
<1>5. /\ writers' \in [Writer -> ABatch]
      /\ \A v \in Writer : v # w => writers'[v] = writers[v]
      /\ writers'[w].pc = "introducing" /\ writers'[w].snap = root
      /\ writers'[w].seg \in 0 .. Len(segments')
  <2> DEFINE e == [pc |-> "introducing", snap |-> root,
                   seg |-> IF n = 0 THEN 0 ELSE Len(segments) + 1]
  <2>1. e \in ABatch /\ e.pc = "introducing" /\ e.snap = root /\ e.seg \in 0 .. Len(segments')
    BY <1>1, <1>4 DEF ABatch
  <2>2. writers \in [Writer -> ABatch] /\ writers' = [writers EXCEPT ![w] = e]
    BY <1>2 DEF Inv, TypeOK
  <2> HIDE DEF e
  <2> QED
    BY <2>1, <2>2
<1>6. used' \in [batches : Nat, merges : Nat, failures : Nat]
  BY UsesTyped DEF Inv, PrepareSegment
<1>7. TypeOK'
  BY <1>0, <1>3, <1>4, <1>5, <1>6 DEF Inv, TypeOK
<1>8. Len(segments') \in Nat /\ Len(segments) <= Len(segments') /\ Len(snapshots) <= Len(snapshots)
  BY <1>1, <1>4
<1>9. InRange'
  <2>1. /\ root <= Len(snapshots)
        /\ \A s \in 1 .. Len(snapshots) : snapshots[s].segs \subseteq 1 .. Len(segments')
        /\ \A v \in Writer : writers[v].seg <= Len(segments') /\ writers[v].snap <= Len(snapshots)
        /\ persister.opened \subseteq 1 .. Len(segments') /\ merger.seg <= Len(segments')
    BY <1>1, <1>8, StillInRange
  <2>2. \A v \in Writer : writers'[v].seg <= Len(segments') /\ writers'[v].snap <= Len(snapshots)
    BY <1>5, <1>8, <2>1
  <2> QED
    BY <1>0, <1>3, <2>1, <2>2 DEF Inv, InRange
<1>10. FilesInRange'
  <2>1. /\ introducer.pc = "persist" => \A u \in DOMAIN introducer.files :
                                           introducer.files[u] \in 1 .. Len(segments')
        /\ persister.pc = "send" => \A u \in DOMAIN persister.files :
                                       persister.files[u] \in 1 .. Len(segments')
    BY <1>1, <1>8, StillInRange
  <2> QED
    BY <1>0, <2>1 DEF FilesInRange
<1>11. Fits'
  <2>1. WritersFit'
    BY <1>1, <1>5 DEF Inv, Fits, WritersFit
  <2>2. \A v \in persister.acks : v # w /\ v \in Writer
    BY <1>0 DEF Inv, TypeOK, APersister, Fits, PersisterFits
  <2>3. PersisterFits'
    BY <1>0, <1>5, <2>2 DEF Inv, Fits, PersisterFits
  <2>4. IntroducerFits' /\ MergerFits' /\ IndexFits'
    BY <1>0 DEF Inv, Fits, IntroducerFits, MergerFits, IndexFits, Closing
  <2> QED
    BY <2>1, <2>3, <2>4 DEF Fits
<1>12. ASSUME NEW s \in 1 .. Len(snapshots) PROVE snapshots'[s].refs = Holders(s)'
  <2>1. /\ ByRoot(s)' - ByRoot(s) = 0 /\ HoldingReaders(s)' - HoldingReaders(s) = 0
        /\ ByIntroducer(s)' - ByIntroducer(s) = 0
        /\ ByPersister(s)' - ByPersister(s) = 0 /\ ByMerger(s)' - ByMerger(s) = 0
    BY <1>0, PartsSame
  <2>2. HoldingWriters(s)' - HoldingWriters(s) = One(root = s)
    <3>1. writers[w].snap # s
      BY <1>0, <1>1 DEF Inv, Fits, WritersFit
    <3>2. HoldingWriters(s)' = HoldingWriters(s) + (IF root = s THEN 1 ELSE 0)
      BY <1>5, <3>1, WriterMoves
    <3> QED
      BY <3>2, PartsType DEF One
  <2> QED
    BY <1>1, <1>3, <2>1, <2>2, CountsStay, OneType
<1> QED
  BY <1>3, <1>7, <1>9, <1>10, <1>11, <1>12, LenProperties DEF Inv, SnapshotCounts

\* A call of Batch returns, with its segment closed or not (BatchEnds).
LEMMA BatchEndsKeeps ==
  ASSUME RefsAssumption, Inv, NEW w \in Writer, NEW X, BatchEnds(w, X),
         writers[w].pc # "persisting"
  PROVE  Inv'
<1> DEFINE held == writers[w].snap
<1>0. UNCHANGED <<root, readers, introducer, persister, merger, index, used>>
  BY DEF BatchEnds
<1>1. held \in 0 .. Len(snapshots) /\ Len(snapshots) \in Nat
  BY StateTyped DEF Inv, TypeOK, ABatch, InRange
<1>2. /\ snapshots' \in Seq(ASnapshot) /\ Len(snapshots') = Len(snapshots)
      /\ segments' \in Seq(ASegment) /\ Len(segments') = Len(segments)
      /\ \A u \in 1 .. Len(snapshots) :
           /\ snapshots'[u].segs = snapshots[u].segs
           /\ snapshots'[u].refs = Before(u) + (0 - One(held = u))
  <2>1. Becomes(LetGoIfAny(CloseAndLetGo(X, held), 0))
    BY DEF BatchEnds, LetGoIfAny
  <2>2. /\ snapshots' \in Seq(ASnapshot) /\ Len(snapshots') = Len(snapshots)
        /\ segments' \in Seq(ASegment) /\ Len(segments') = Len(segments)
        /\ \A u \in 1 .. Len(snapshots) :
             /\ snapshots'[u].segs = snapshots[u].segs
             /\ snapshots'[u].refs = Before(u) + (0 - One(held = u) - One(0 = u))
    <3> HIDE DEF held
    <3> QED
      BY <1>1, <2>1, CloseAndLetGoStep
  <2>3. \A u \in 1 .. Len(snapshots) : 0 - One(held = u) - One(0 = u) = 0 - One(held = u)
    BY <1>1 DEF One
  <2> QED
    BY <2>2, <2>3
<1>3. /\ writers' \in [Writer -> ABatch]
      /\ \A v \in Writer : v # w => writers'[v] = writers[v]
      /\ writers'[w].pc = "idle" /\ writers'[w].snap = 0 /\ writers'[w].seg = 0
  <2>1. NoBatch \in ABatch /\ NoBatch.pc = "idle" /\ NoBatch.snap = 0 /\ NoBatch.seg = 0
    BY DEF ABatch, NoBatch
  <2>2. writers \in [Writer -> ABatch] /\ writers' = [writers EXCEPT ![w] = NoBatch]
    BY DEF Inv, TypeOK, BatchEnds
  <2> QED
    BY <2>1, <2>2
<1>4. TypeOK'
  BY <1>0, <1>2, <1>3 DEF Inv, TypeOK
<1>5. InRange'
  <2>1. \A v \in Writer : writers'[v].seg <= Len(segments) /\ writers'[v].snap <= Len(snapshots)
    BY <1>1, <1>3, StateTyped DEF Inv, InRange
  <2> QED
    BY <1>0, <1>2, <2>1 DEF Inv, InRange
<1>6. FilesInRange'
  BY <1>0, <1>2 DEF Inv, FilesInRange
<1>8. ASSUME NEW s \in 1 .. Len(snapshots) PROVE snapshots'[s].refs = Holders(s)'
  <2>1. /\ ByRoot(s)' - ByRoot(s) = 0 /\ HoldingReaders(s)' - HoldingReaders(s) = 0
        /\ ByIntroducer(s)' - ByIntroducer(s) = 0
        /\ ByPersister(s)' - ByPersister(s) = 0 /\ ByMerger(s)' - ByMerger(s) = 0
    BY <1>0, PartsSame
  <2>2. HoldingWriters(s)' - HoldingWriters(s) = 0 - One(held = s)
    <3>1. writers'[w].snap # s
      BY <1>1, <1>3
    <3>2. HoldingWriters(s)' = HoldingWriters(s) - (IF writers[w].snap = s THEN 1 ELSE 0)
                                 + (IF writers'[w].snap = s THEN 1 ELSE 0)
      BY <1>3, WriterMoves
    <3> QED
      BY SMTT(30), <3>1, <3>2, PartsType DEF One
  <2> QED
    BY <1>1, <1>2, <2>1, <2>2, CountsStay, OneType
<1>9. SnapshotCounts'
  BY <1>2, <1>8, LenProperties DEF SnapshotCounts
<1>10. Fits'
  <2>1. WritersFit'
    BY <1>3 DEF Inv, Fits, WritersFit
  <2>2. \A v \in persister.acks : v # w /\ v \in Writer
    BY DEF Inv, TypeOK, APersister, Fits, PersisterFits
  <2>3. PersisterFits'
    BY <1>0, <1>3, <2>2 DEF Inv, Fits, PersisterFits
  <2>4. IntroducerFits' /\ MergerFits'
    BY <1>0 DEF Inv, Fits, IntroducerFits, MergerFits
  <2>5. IndexFits'
    BY <1>0, <1>3 DEF Inv, Fits, IndexFits, Closing
  <2> QED
    BY <2>1, <2>3, <2>4, <2>5 DEF Fits
<1> QED
  BY <1>4, <1>5, <1>6, <1>9, <1>10 DEF Inv

LEMMA BatchReturnsKeeps ==
  ASSUME RefsAssumption, Inv, NEW w \in Writer, BatchReturns(w)
  PROVE  Inv'
<1>1. writers[w].pc # "persisting" /\ BatchEnds(w, {})
  BY DEF BatchReturns
<1> QED
  BY <1>1, BatchEndsKeeps

LEMMA BatchFailsKeeps ==
  ASSUME RefsAssumption, Inv, NEW w \in Writer, BatchFails(w)
  PROVE  Inv'
<1>1. writers[w].pc # "persisting" /\ BatchEnds(w, {writers[w].seg} \ {0})
  BY DEF BatchFails
<1> QED
  BY <1>1, BatchEndsKeeps

---------------------------------------------------------------------------
(* The persister *)

\* Only what the persister holds changes.
LEMMA HeldByPersister ==
  ASSUME RefsAssumption, Inv, NEW s \in 1 .. Len(snapshots), NEW d \in Int,
         UNCHANGED <<root, readers, introducer, merger>>,
         \A w \in Writer : writers'[w].snap = writers[w].snap,
         snapshots'[s].refs = Before(s) + d, ByPersister(s)' - ByPersister(s) = d
  PROVE  snapshots'[s].refs = Holders(s)'
<1>1. /\ ByRoot(s)' - ByRoot(s) = 0 /\ HoldingWriters(s)' - HoldingWriters(s) = 0
      /\ HoldingReaders(s)' - HoldingReaders(s) = 0
      /\ ByIntroducer(s)' - ByIntroducer(s) = 0 /\ ByMerger(s)' - ByMerger(s) = 0
  BY PartsSame
<1>2. s \in 1 .. Len(snapshots) + 1
  BY StateTyped DEF Inv
<1> QED
  BY <1>1, <1>2, CountsStay

\* Nothing that is held changes.
LEMMA HeldSame ==
  ASSUME RefsAssumption, Inv, NEW s \in 1 .. Len(snapshots),
         UNCHANGED <<snapshots, root, readers, introducer>>,
         \A w \in Writer : writers'[w].snap = writers[w].snap,
         persister'.snap = persister.snap, persister'.new = persister.new,
         merger'.snap = merger.snap, merger'.new = merger.new
  PROVE  snapshots'[s].refs = Holders(s)'
<1>1. /\ ByRoot(s)' - ByRoot(s) = 0 /\ HoldingWriters(s)' - HoldingWriters(s) = 0
      /\ HoldingReaders(s)' - HoldingReaders(s) = 0
      /\ ByIntroducer(s)' - ByIntroducer(s) = 0 /\ ByPersister(s)' - ByPersister(s) = 0
      /\ ByMerger(s)' - ByMerger(s) = 0
  BY PartsSame
<1>2. s \in 1 .. Len(snapshots) + 1 /\ snapshots[s].refs \in Int /\ s <= Len(snapshots)
  BY StateTyped DEF Inv, ASnapshot
<1>3. snapshots'[s].refs = Before(s) + 0
  BY <1>2 DEF Before
<1> QED
  BY <1>1, <1>2, <1>3, CountsStay

LEMMA TakeSnapshotKeeps ==
  ASSUME RefsAssumption, Inv, TakeSnapshot
  PROVE  Inv'
<1> DEFINE waiting == {w \in Writer : writers[w].pc = "persisting"}
<1>0. /\ persister.pc = "idle" /\ index = "open"
      /\ UNCHANGED <<root, readers, introducer, merger, index, segments, writers, used>>
  BY DEF TakeSnapshot, PersisterMoves, Closing
<1>1. root \in 1 .. Len(snapshots) /\ Len(snapshots) \in Nat
  BY <1>0, StateTyped DEF Inv, TypeOK, InRange, Fits, IndexFits
<1>2. /\ snapshots' \in Seq(ASnapshot) /\ Len(snapshots') = Len(snapshots)
      /\ \A u \in 1 .. Len(snapshots) : /\ snapshots'[u].segs = snapshots[u].segs
                                        /\ snapshots'[u].refs = Before(u) + One(root = u)
  BY <1>1, RootAddRefIs DEF Inv, TakeSnapshot, Before
<1>3. /\ persister' \in APersister(persister'.files) /\ persister'.pc = "took"
      /\ persister'.snap = root /\ persister'.new = persister.new
      /\ persister'.acks = waiting /\ persister'.opened = persister.opened
  <2>1. /\ persister' = [persister EXCEPT !.pc = "took", !.snap = root, !.acks = waiting]
        /\ persister \in APersister(persister.files) /\ waiting \in SUBSET Writer /\ root \in Nat
    BY DEF TakeSnapshot, PersisterMoves, Inv, TypeOK
  <2> HIDE DEF waiting
  <2>2. persister'.files = persister.files
    BY <2>1 DEF APersister
  <2> QED
    BY <2>1, <2>2 DEF APersister
<1>4. TypeOK'
  BY <1>0, <1>2, <1>3 DEF Inv, TypeOK
<1>5. InRange'
  BY <1>0, <1>1, <1>2, <1>3 DEF Inv, InRange
<1>6. FilesInRange'
  BY <1>0, <1>3 DEF Inv, FilesInRange
<1>7. Fits'
  BY <1>0, <1>1, <1>3
  DEF Inv, Fits, WritersFit, IntroducerFits, PersisterFits, MergerFits, IndexFits, Closing
<1>8. ASSUME NEW s \in 1 .. Len(snapshots) PROVE snapshots'[s].refs = Holders(s)'
  <2>1. ByPersister(s)' - ByPersister(s) = One(root = s)
    <3>1. persister.snap = 0 /\ persister.new = 0 /\ s # 0
      BY <1>0, <1>1 DEF Inv, Fits, PersisterFits
    <3> QED
      BY <1>3, <3>1 DEF ByPersister, One
  <2> QED
    BY <1>0, <1>2, <2>1, HeldByPersister, OneType
<1> QED
  BY <1>2, <1>4, <1>5, <1>6, <1>7, <1>8, LenProperties DEF Inv, SnapshotCounts

LEMMA NewInRange ==
  ASSUME TypeOK, NEW n \in Nat
  PROVE  NewSegments(n) \subseteq 1 .. Len(segments) + n /\ NewSegments(n) \in SUBSET Nat
<1>1. Len(segments) \in Nat
  BY StateTyped
<1> QED
  BY <1>1 DEF NewSegments

\* Segments are opened by the persister, which goes on.
LEMMA PersisterOpens ==
  ASSUME RefsAssumption, Inv, NEW n \in Nat, segments' = Opened(n, FALSE),
         UNCHANGED <<snapshots, root, writers, readers, introducer, merger, index, used>>,
         persister' \in APersister(persister'.files),
         persister'.snap = persister.snap, persister'.new = persister.new,
         persister'.opened = NewSegments(n),
         persister'.pc = "send" =>
           \A u \in DOMAIN persister'.files : persister'.files[u] \in NewSegments(n)
  PROVE  TypeOK' /\ InRange' /\ FilesInRange' /\ SnapshotCounts'
<1>1. segments' \in Seq(ASegment) /\ Len(segments') = Len(segments) + n
  BY OpenedIs DEF Inv
<1>2. /\ Len(snapshots) \in Nat /\ Len(segments) \in Nat /\ Len(segments') \in Nat
      /\ Len(segments) <= Len(segments') /\ Len(snapshots) <= Len(snapshots)
  <2>1. Len(snapshots) \in Nat /\ Len(segments) \in Nat
    BY StateTyped DEF Inv
  <2>2. \A m \in Nat : m + n \in Nat /\ m <= m + n /\ m <= m
    OBVIOUS
  <2> QED
    BY <1>1, <2>1, <2>2
<1>3. NewSegments(n) \subseteq 1 .. Len(segments')
  BY <1>1, NewInRange DEF Inv
<1>4. TypeOK'
  BY <1>1 DEF Inv, TypeOK
<1>5. InRange'
  <2>1. /\ \A s \in 1 .. Len(snapshots) : snapshots[s].segs \subseteq 1 .. Len(segments')
        /\ \A w \in Writer : writers[w].seg <= Len(segments')
        /\ merger.seg <= Len(segments')
    BY <1>2, StillInRange
  <2> QED
    BY <1>3, <2>1 DEF Inv, InRange
<1>6. FilesInRange'
  <2>1. introducer.pc = "persist" => \A u \in DOMAIN introducer.files :
                                           introducer.files[u] \in 1 .. Len(segments')
    BY <1>2, StillInRange
  <2> QED
    BY <1>3, <2>1 DEF FilesInRange
<1>7. ASSUME NEW s \in 1 .. Len(snapshots) PROVE snapshots'[s].refs = Holders(s)'
  BY HeldSame
<1>8. SnapshotCounts'
  BY <1>7, StateTyped DEF SnapshotCounts, Inv
<1> QED
  BY <1>4, <1>5, <1>6, <1>8

LEMMA MergeInMemoryKeeps ==
  ASSUME RefsAssumption, Inv, MergeInMemory
  PROVE  Inv'
<1>0. /\ persister.pc = "took"
      /\ UNCHANGED <<snapshots, root, writers, readers, introducer, merger, index, used>>
  BY DEF MergeInMemory, PersisterMoves
<1>1. PICK M \in SUBSET Memory(snapshots[persister.snap].segs), n \in 1 .. Workers :
        /\ segments' = Opened(n, FALSE)
        /\ persister' = [persister EXCEPT !.pc = "merge", !.merged = M,
                                          !.opened = NewSegments(n)]
  BY DEF MergeInMemory, PersisterMoves
<1>2. n \in Nat
  BY DEF RefsAssumption
<1>3. persister.snap \in 1 .. Len(snapshots)
  BY <1>0, StateTyped DEF Inv, TypeOK, APersister, InRange, Fits, PersisterFits
<1>4. M \in SUBSET Nat
  BY <1>3, StateTyped DEF Memory, Inv, ASnapshot
<1>5. /\ persister' \in APersister(persister'.files) /\ persister'.pc = "merge"
      /\ persister'.snap = persister.snap /\ persister'.new = persister.new
      /\ persister'.acks = persister.acks /\ persister'.opened = NewSegments(n)
  <2> DEFINE new == NewSegments(n)
  <2>1. /\ persister' = [persister EXCEPT !.pc = "merge", !.merged = M, !.opened = new]
        /\ persister \in APersister(persister.files) /\ new \in SUBSET Nat
    BY <1>1, <1>2, NewInRange DEF Inv, TypeOK
  <2> HIDE DEF new
  <2>2. persister'.files = persister.files
    BY <2>1 DEF APersister
  <2>3. /\ persister' \in APersister(persister'.files) /\ persister'.pc = "merge"
        /\ persister'.snap = persister.snap /\ persister'.new = persister.new
        /\ persister'.acks = persister.acks /\ persister'.opened = new
    BY <1>4, <2>1, <2>2 DEF APersister
  <2> QED
    BY <2>3 DEF new
<1>6. TypeOK' /\ InRange' /\ FilesInRange' /\ SnapshotCounts'
  BY <1>0, <1>1, <1>2, <1>5, PersisterOpens
<1>7. Fits'
  BY <1>0, <1>5
  DEF Inv, Fits, WritersFit, IntroducerFits, PersisterFits, MergerFits, IndexFits, Closing
<1> QED
  BY <1>6, <1>7 DEF Inv

LEMMA PersistDirectKeeps ==
  ASSUME RefsAssumption, Inv, PersistDirect
  PROVE  Inv'
<1> DEFINE mem == Memory(snapshots[persister.snap].segs)
           n == Cardinality(mem)
           pc == IF n = 0 THEN "commit" ELSE "send"
<1>0. /\ persister.pc \in {"took", "direct"} /\ segments' = Opened(n, FALSE)
      /\ UNCHANGED <<snapshots, root, writers, readers, introducer, merger, index, used>>
  BY DEF PersistDirect, PersisterMoves
<1>1. PICK files \in [mem -> NewSegments(n)] :
        persister' = [persister EXCEPT !.pc = pc, !.files = files, !.opened = NewSegments(n)]
  BY DEF PersistDirect, PersisterMoves
<1>2. n \in Nat
  <2>1. persister.snap \in 1 .. Len(snapshots) /\ Len(segments) \in Nat
    BY <1>0, StateTyped DEF Inv, TypeOK, APersister, InRange, Fits, PersisterFits
  <2>2. mem \in SUBSET (1 .. Len(segments))
    BY <2>1 DEF Memory, Inv, InRange
  <2>3. IsFiniteSet(1 .. Len(segments))
    BY <2>1, FS_Interval
  <2> HIDE DEF mem
  <2> QED
    BY <2>2, <2>3, FS_Subset, FS_CardinalityType
<1>3. pc \in {"commit", "send"}
  OBVIOUS
<1>4. DOMAIN files = mem /\ \A u \in DOMAIN files : files[u] \in NewSegments(n)
  OBVIOUS
<1> HIDE DEF mem, n, pc
<1>5. /\ persister' \in APersister(persister'.files) /\ persister'.pc = pc
      /\ persister'.snap = persister.snap /\ persister'.new = persister.new
      /\ persister'.acks = persister.acks /\ persister'.opened = NewSegments(n)
      /\ persister'.files = files
  <2> DEFINE new == NewSegments(n)
  <2>1. /\ persister' = [persister EXCEPT !.pc = pc, !.files = files, !.opened = new]
        /\ persister \in APersister(persister.files) /\ new \in SUBSET Nat
    BY <1>1, <1>2, NewInRange DEF Inv, TypeOK
  <2> HIDE DEF new
  <2>2. persister'.files = files /\ persister' \in APersister(files)
    BY <1>3, <2>1 DEF APersister
  <2>3. /\ persister'.pc = pc
        /\ persister'.snap = persister.snap /\ persister'.new = persister.new
        /\ persister'.acks = persister.acks /\ persister'.opened = new
    BY <1>3, <2>1 DEF APersister
  <2> QED
    BY <2>2, <2>3 DEF new
<1>6. TypeOK' /\ InRange' /\ FilesInRange' /\ SnapshotCounts'
  BY <1>0, <1>2, <1>4, <1>5, PersisterOpens
<1>7. Fits'
  BY <1>0, <1>3, <1>5
  DEF Inv, Fits, WritersFit, IntroducerFits, PersisterFits, MergerFits, IndexFits, Closing
<1> QED
  BY <1>6, <1>7 DEF Inv

\* Nothing merged in memory was worth keeping.
LEMMA SkippedMergeKeeps ==
  ASSUME RefsAssumption, Inv, persister.pc = "merged", persister.kept = {}, AfterInMemoryMerge
  PROVE  Inv'
<1> DEFINE X == persister.opened
           held == persister.new
<1>0. UNCHANGED <<root, writers, readers, introducer, merger, index, used>>
  BY DEF AfterInMemoryMerge, PersisterMoves
<1>1. held \in 1 .. Len(snapshots) /\ Len(snapshots) \in Nat /\ X \subseteq Nat
  BY StateTyped DEF Inv, TypeOK, APersister, InRange, Fits, PersisterFits
<1>2. /\ snapshots' \in Seq(ASnapshot) /\ Len(snapshots') = Len(snapshots)
      /\ segments' \in Seq(ASegment) /\ Len(segments') = Len(segments)
      /\ \A u \in 1 .. Len(snapshots) :
           /\ snapshots'[u].segs = snapshots[u].segs
           /\ snapshots'[u].refs = Before(u) + (0 - One(held = u))
  <2>1. Becomes(LetGoIfAny(CloseAndLetGo(X, held), 0))
    BY DEF AfterInMemoryMerge, LetGoIfAny
  <2>2. /\ snapshots' \in Seq(ASnapshot) /\ Len(snapshots') = Len(snapshots)
        /\ segments' \in Seq(ASegment) /\ Len(segments') = Len(segments)
        /\ \A u \in 1 .. Len(snapshots) :
             /\ snapshots'[u].segs = snapshots[u].segs
             /\ snapshots'[u].refs = Before(u) + (0 - One(held = u) - One(0 = u))
    <3> HIDE DEF held, X
    <3> QED
      BY <1>1, <2>1, CloseAndLetGoStep
  <2>3. \A u \in 1 .. Len(snapshots) : 0 - One(held = u) - One(0 = u) = 0 - One(held = u)
    BY <1>1 DEF One
  <2> QED
    BY <2>2, <2>3
<1>3. /\ persister' \in APersister(persister'.files) /\ persister'.pc = "direct"
      /\ persister'.snap = persister.snap /\ persister'.new = 0
      /\ persister'.acks = persister.acks /\ persister'.opened = {}
  <2>1. /\ persister' = [persister EXCEPT !.pc = "direct", !.new = 0, !.opened = {},
                                          !.merged = {}]
        /\ persister \in APersister(persister.files)
    BY DEF AfterInMemoryMerge, PersisterMoves, Inv, TypeOK
  <2>2. persister'.files = persister.files
    BY <2>1 DEF APersister
  <2> QED
    BY <2>1, <2>2 DEF APersister
<1>4. TypeOK'
  BY <1>0, <1>2, <1>3 DEF Inv, TypeOK
<1>5. InRange'
  BY <1>0, <1>1, <1>2, <1>3 DEF Inv, InRange
<1>6. FilesInRange'
  BY <1>0, <1>2, <1>3 DEF Inv, FilesInRange
<1>7. Fits'
  BY <1>0, <1>3
  DEF Inv, Fits, WritersFit, IntroducerFits, PersisterFits, MergerFits, IndexFits, Closing
<1>8. ASSUME NEW s \in 1 .. Len(snapshots) PROVE snapshots'[s].refs = Holders(s)'
  <2>1. ByPersister(s)' - ByPersister(s) = 0 - One(held = s)
    <3>1. ByPersister(s) = One(persister.snap = s) + One(held = s)
          /\ ByPersister(s)' = One(persister.snap = s)
      BY <1>1, <1>3 DEF ByPersister, One
    <3> QED
      BY <3>1 DEF One
  <2> QED
    BY <1>0, <1>2, <2>1, HeldByPersister, OneType
<1>9. SnapshotCounts'
  BY <1>2, <1>8, LenProperties DEF SnapshotCounts
<1> QED
  BY <1>4, <1>5, <1>6, <1>7, <1>9 DEF Inv

\* The introduced snapshot stays held.
LEMMA KeptMergeKeeps ==
  ASSUME RefsAssumption, Inv, persister.pc = "merged", persister.kept # {}, AfterInMemoryMerge
  PROVE  Inv'
<1>0. /\ UNCHANGED <<snapshots, segments, root, writers, readers, introducer, merger, index, used>>
  BY DEF AfterInMemoryMerge, PersisterMoves
<1>1. /\ persister' \in APersister(persister'.files) /\ persister'.pc = "commit"
      /\ persister'.snap = persister.snap /\ persister'.new = persister.new
      /\ persister'.acks = persister.acks /\ persister'.opened = {}
  <2>1. /\ persister' = [persister EXCEPT !.pc = "commit", !.opened = {}]
        /\ persister \in APersister(persister.files)
    BY DEF AfterInMemoryMerge, PersisterMoves, Inv, TypeOK
  <2>2. persister'.files = persister.files
    BY <2>1 DEF APersister
  <2> QED
    BY <2>1, <2>2 DEF APersister
<1>2. TypeOK' /\ InRange' /\ FilesInRange'
  BY <1>0, <1>1 DEF Inv, TypeOK, InRange, FilesInRange
<1>3. Fits'
  BY <1>0, <1>1
  DEF Inv, Fits, WritersFit, IntroducerFits, PersisterFits, MergerFits, IndexFits, Closing
<1>4. ASSUME NEW s \in 1 .. Len(snapshots) PROVE snapshots'[s].refs = Holders(s)'
  BY <1>0, <1>1, HeldSame
<1>5. SnapshotCounts'
  BY <1>0, <1>4, StateTyped DEF SnapshotCounts, Inv
<1> QED
  BY <1>2, <1>3, <1>5 DEF Inv

\* The persister is done with its snapshot.
LEMMA PersisterLetsGoKeeps ==
  ASSUME RefsAssumption, Inv, NEW p \in APersister(<<>>), NEW answer \in {"return", "failed"},
         p.pc \in {"idle", "done"}, p.snap = 0, p.new = 0, p.acks = {}, p.opened = {},
         p.files = <<>>, persister.pc # "done", PersisterLetsGo(p, answer),
         used' \in [batches : Nat, merges : Nat, failures : Nat]
  PROVE  Inv'
<1> DEFINE X == persister.opened
           new == persister.new
           snap == persister.snap
<1>0. persister' = p /\ UNCHANGED <<root, readers, introducer, merger, index>>
  BY DEF PersisterLetsGo, PersisterMoves
<1>1. /\ new \in 0 .. Len(snapshots) /\ snap \in 0 .. Len(snapshots) /\ Len(snapshots) \in Nat
      /\ Len(segments) \in Nat
  BY StateTyped DEF Inv, TypeOK, APersister, InRange
<1>2. /\ snapshots' \in Seq(ASnapshot) /\ Len(snapshots') = Len(snapshots)
      /\ segments' \in Seq(ASegment) /\ Len(segments') = Len(segments)
      /\ \A u \in 1 .. Len(snapshots) :
           /\ snapshots'[u].segs = snapshots[u].segs
           /\ snapshots'[u].refs = Before(u) + (0 - One(new = u) - One(snap = u))
  <2>1. Becomes(LetGoIfAny(CloseAndLetGo(X, new), snap))
    BY DEF PersisterLetsGo
  <2> HIDE DEF X, new, snap
  <2> QED
    BY <1>1, <2>1, CloseAndLetGoStep
<1>3. /\ writers' \in [Writer -> ABatch]
      /\ \A v \in Writer : /\ writers'[v].snap = writers[v].snap
                           /\ writers'[v].seg = writers[v].seg
                           /\ writers'[v].pc = IF v \in persister.acks THEN answer
                                               ELSE writers[v].pc
  <2>1. \A v \in Writer : writers[v] \in ABatch
    BY DEF Inv, TypeOK
  <2>2. writers' = [v \in Writer |-> IF v \in persister.acks
                                     THEN [writers[v] EXCEPT !.pc = answer] ELSE writers[v]]
    BY DEF PersisterLetsGo
  <2>3. writers' = [v \in Writer |-> writers'[v]]
    BY <2>2
  <2>4. \A v \in Writer : writers'[v] = IF v \in persister.acks
                                        THEN [writers[v] EXCEPT !.pc = answer] ELSE writers[v]
    BY <2>2
  <2>5. \A v \in Writer : /\ writers'[v] \in ABatch
                          /\ writers'[v].snap = writers[v].snap
                          /\ writers'[v].seg = writers[v].seg
                          /\ writers'[v].pc = IF v \in persister.acks THEN answer
                                              ELSE writers[v].pc
    BY ZenonT(30), <2>1, <2>4 DEF ABatch
  <2> QED
    BY <2>3, <2>5
<1>4. TypeOK'
  BY <1>0, <1>2, <1>3 DEF Inv, TypeOK
<1>5. InRange'
  <2>1. \A v \in Writer : writers'[v].seg <= Len(segments) /\ writers'[v].snap <= Len(snapshots)
    BY <1>3 DEF Inv, InRange
  <2> QED
    BY SMTT(30), <1>0, <1>1, <1>2, <2>1 DEF Inv, InRange
<1>6. FilesInRange'
  BY <1>0, <1>2 DEF Inv, FilesInRange
<1>7. Fits'
  <2>1. \A w \in persister.acks : w \in Writer /\ writers[w].pc = "persisting"
    BY DEF Inv, TypeOK, APersister, Fits, PersisterFits
  <2>2. WritersFit'
    BY <1>3, <2>1 DEF Inv, Fits, WritersFit
  <2>3. PersisterFits'
    BY <1>0 DEF PersisterFits
  <2>4. IntroducerFits' /\ MergerFits'
    BY <1>0 DEF Inv, Fits, IntroducerFits, MergerFits
  <2>5. index # "closed"
    BY DEF Inv, Fits, IndexFits
  <2>6. Closing => \A w \in Writer : writers'[w].pc = "idle"
    BY <1>3, <2>1 DEF Inv, Fits, IndexFits
  <2>7. IndexFits'
    BY <1>0, <2>5, <2>6 DEF Inv, Fits, IndexFits, Closing
  <2> QED
    BY <2>2, <2>3, <2>4, <2>7 DEF Fits
<1>8. ASSUME NEW s \in 1 .. Len(snapshots) PROVE snapshots'[s].refs = Holders(s)'
  <2>1. ByPersister(s)' - ByPersister(s) = 0 - One(new = s) - One(snap = s)
    <3>1. ByPersister(s) = One(snap = s) + One(new = s) /\ ByPersister(s)' = 0
      BY <1>0, <1>1 DEF ByPersister, One
    <3> QED
      BY <3>1 DEF One
  <2>2. 0 - One(new = s) - One(snap = s) \in Int
    BY DEF One
  <2> QED
    BY <1>0, <1>2, <1>3, <2>1, <2>2, HeldByPersister
<1>9. SnapshotCounts'
  BY <1>2, <1>8, LenProperties DEF SnapshotCounts
<1> QED
  BY <1>4, <1>5, <1>6, <1>7, <1>9 DEF Inv

LEMMA IdleIs ==
  ASSUME NEW last \in Nat
  PROVE  /\ Idle(last) \in APersister(<<>>) /\ Idle(last).pc = "idle" /\ Idle(last).snap = 0
         /\ Idle(last).new = 0 /\ Idle(last).acks = {} /\ Idle(last).opened = {}
         /\ Idle(last).files = <<>>
  BY DEF Idle, APersister

LEMMA CommitKeeps ==
  ASSUME RefsAssumption, Inv, Commit
  PROVE  Inv'
<1> DEFINE p == Idle(persister.snap)
<1>1. persister.snap \in Nat /\ used \in [batches : Nat, merges : Nat, failures : Nat]
  BY DEF Inv, TypeOK, APersister
<1>2. persister.pc # "done" /\ PersisterLetsGo(p, "return") /\ used' = used
  BY DEF Commit
<1>3. /\ p \in APersister(<<>>) /\ p.pc = "idle" /\ p.snap = 0 /\ p.new = 0 /\ p.acks = {}
      /\ p.opened = {} /\ p.files = <<>>
  BY <1>1, IdleIs
<1> HIDE DEF p
<1> QED
  BY <1>1, <1>2, <1>3, PersisterLetsGoKeeps

LEMMA PersistFailsKeeps ==
  ASSUME RefsAssumption, Inv, PersistFails
  PROVE  Inv'
<1> DEFINE p == Idle(persister.lastPersisted)
<1>1. persister.lastPersisted \in Nat /\ used' \in [batches : Nat, merges : Nat, failures : Nat]
  BY UsesTyped DEF Inv, TypeOK, APersister, PersistFails
<1>2. persister.pc # "done" /\ PersisterLetsGo(p, "failed")
  BY DEF PersistFails
<1>3. /\ p \in APersister(<<>>) /\ p.pc = "idle" /\ p.snap = 0 /\ p.new = 0 /\ p.acks = {}
      /\ p.opened = {} /\ p.files = <<>>
  BY <1>1, IdleIs
<1> HIDE DEF p
<1> QED
  BY <1>1, <1>2, <1>3, PersisterLetsGoKeeps

LEMMA PersisterClosedKeeps ==
  ASSUME RefsAssumption, Inv, PersisterClosed
  PROVE  Inv'
<1> DEFINE raced == introducer.pc = "persist"
           p == [Idle(persister.lastPersisted) EXCEPT !.pc = "done", !.raced = raced]
<1>1. /\ persister.lastPersisted \in Nat
      /\ used \in [batches : Nat, merges : Nat, failures : Nat]
  BY DEF Inv, TypeOK, APersister
<1>2. persister.pc # "done" /\ PersisterLetsGo(p, "failed") /\ used' = used
  BY DEF PersisterClosed
<1>3. /\ p \in APersister(<<>>) /\ p.pc = "done" /\ p.snap = 0 /\ p.new = 0 /\ p.acks = {}
      /\ p.opened = {} /\ p.files = <<>>
  <2>1. raced \in BOOLEAN
    OBVIOUS
  <2> HIDE DEF raced
  <2> QED
    BY <1>1, <2>1 DEF Idle, APersister
<1> HIDE DEF p
<1> QED
  BY <1>1, <1>2, <1>3, PersisterLetsGoKeeps

LEMMA PersisterExitsKeeps ==
  ASSUME RefsAssumption, Inv, PersisterExits
  PROVE  Inv'
<1>0. /\ persister.pc = "idle"
      /\ UNCHANGED <<snapshots, segments, root, writers, readers, introducer, merger, index, used>>
  BY DEF PersisterExits, PersisterMoves
<1>1. /\ persister' \in APersister(persister'.files) /\ persister'.pc = "done"
      /\ persister'.snap = persister.snap /\ persister'.new = persister.new
      /\ persister'.acks = persister.acks /\ persister'.opened = persister.opened
  <2>1. /\ persister' = [persister EXCEPT !.pc = "done"]
        /\ persister \in APersister(persister.files)
    BY DEF PersisterExits, PersisterMoves, Inv, TypeOK
  <2>2. persister'.files = persister.files
    BY <2>1 DEF APersister
  <2> QED
    BY <2>1, <2>2 DEF APersister
<1>2. TypeOK' /\ InRange' /\ FilesInRange'
  BY <1>0, <1>1 DEF Inv, TypeOK, InRange, FilesInRange
<1>3. Fits'
  BY <1>0, <1>1
  DEF Inv, Fits, WritersFit, IntroducerFits, PersisterFits, MergerFits, IndexFits, Closing
<1>4. ASSUME NEW s \in 1 .. Len(snapshots) PROVE snapshots'[s].refs = Holders(s)'
  BY <1>0, <1>1, HeldSame
<1>5. SnapshotCounts'
  BY <1>0, <1>4, StateTyped DEF SnapshotCounts, Inv
<1> QED
  BY <1>2, <1>3, <1>5 DEF Inv

---------------------------------------------------------------------------
(* The merger *)

\* Only what the merger holds changes.
LEMMA HeldByMerger ==
  ASSUME RefsAssumption, Inv, NEW s \in 1 .. Len(snapshots), NEW d \in Int,
         UNCHANGED <<root, writers, readers, introducer, persister>>,
         snapshots'[s].refs = Before(s) + d, ByMerger(s)' - ByMerger(s) = d
  PROVE  snapshots'[s].refs = Holders(s)'
<1>1. /\ ByRoot(s)' - ByRoot(s) = 0 /\ HoldingWriters(s)' - HoldingWriters(s) = 0
      /\ HoldingReaders(s)' - HoldingReaders(s) = 0
      /\ ByIntroducer(s)' - ByIntroducer(s) = 0 /\ ByPersister(s)' - ByPersister(s) = 0
  BY PartsSame
<1>2. s \in 1 .. Len(snapshots) + 1
  BY StateTyped DEF Inv
<1> QED
  BY <1>1, <1>2, CountsStay

LEMMA PlanMergeKeeps ==
  ASSUME RefsAssumption, Inv, PlanMerge
  PROVE  Inv'
<1> DEFINE todo == snapshots[root].segs \ Memory(snapshots[root].segs)
<1>0. /\ merger.pc = "idle" /\ index = "open"
      /\ UNCHANGED <<root, writers, readers, introducer, persister, index, segments, used>>
  BY DEF PlanMerge, MergerMoves, Closing
<1>1. root \in 1 .. Len(snapshots) /\ Len(snapshots) \in Nat
  BY <1>0, StateTyped DEF Inv, TypeOK, InRange, Fits, IndexFits
<1>2. /\ snapshots' \in Seq(ASnapshot) /\ Len(snapshots') = Len(snapshots)
      /\ \A u \in 1 .. Len(snapshots) : /\ snapshots'[u].segs = snapshots[u].segs
                                        /\ snapshots'[u].refs = Before(u) + One(root = u)
  BY <1>1, RootAddRefIs DEF Inv, PlanMerge, Before
<1>3. /\ merger' \in AMerger /\ merger'.pc = "plan" /\ merger'.snap = root
      /\ merger'.new = merger.new /\ merger'.seg = merger.seg
  <2>1. todo \in SUBSET Nat /\ root \in Nat /\ merger \in AMerger
    BY <1>1, StateTyped DEF Inv, TypeOK, ASnapshot
  <2>2. merger' = [merger EXCEPT !.pc = "plan", !.snap = root, !.todo = todo]
    BY DEF PlanMerge, MergerMoves
  <2> HIDE DEF todo
  <2> QED
    BY <2>1, <2>2 DEF AMerger
<1>4. TypeOK'
  BY <1>0, <1>2, <1>3 DEF Inv, TypeOK
<1>5. InRange'
  BY <1>0, <1>1, <1>2, <1>3 DEF Inv, InRange
<1>6. FilesInRange'
  BY <1>0 DEF Inv, FilesInRange
<1>7. Fits'
  BY <1>0, <1>1, <1>3
  DEF Inv, Fits, WritersFit, IntroducerFits, PersisterFits, MergerFits, IndexFits, Closing
<1>8. ASSUME NEW s \in 1 .. Len(snapshots) PROVE snapshots'[s].refs = Holders(s)'
  <2>1. ByMerger(s)' - ByMerger(s) = One(root = s)
    <3>1. merger.snap = 0 /\ merger.new = 0 /\ s # 0
      BY <1>0, <1>1 DEF Inv, Fits, MergerFits
    <3> QED
      BY <1>3, <3>1 DEF ByMerger, One
  <2> QED
    BY <1>0, <1>2, <2>1, HeldByMerger, OneType
<1>9. SnapshotCounts'
  BY <1>2, <1>8, LenProperties DEF SnapshotCounts
<1> QED
  BY <1>4, <1>5, <1>6, <1>7, <1>9 DEF Inv

LEMMA MergeTaskKeeps ==
  ASSUME RefsAssumption, Inv, MergeTask
  PROVE  Inv'
<1> DEFINE new == Len(segments) + 1
<1>0. /\ merger.pc = "plan" /\ segments' = Opened(1, FALSE)
      /\ UNCHANGED <<snapshots, root, writers, readers, introducer, persister, index>>
  BY DEF MergeTask, MergerMoves
<1>1. PICK M \in SUBSET merger.todo :
        merger' = [merger EXCEPT !.pc = "send", !.merged = M, !.todo = merger.todo \ M,
                                 !.seg = new]
  BY DEF MergeTask, MergerMoves
<1>2. used' \in [batches : Nat, merges : Nat, failures : Nat]
  BY UsesTyped DEF MergeTask, Inv
<1>3. segments' \in Seq(ASegment) /\ Len(segments') = new
  BY <1>0, OpenedIs DEF Inv
<1>4. /\ Len(snapshots) \in Nat /\ Len(segments) \in Nat /\ new \in Nat /\ new # 0
      /\ Len(segments) <= new /\ Len(snapshots) <= Len(snapshots) /\ new <= new
  BY StateTyped DEF Inv
<1> HIDE DEF new
<1>5. /\ merger' \in AMerger /\ merger'.pc = "send" /\ merger'.snap = merger.snap
      /\ merger'.new = merger.new /\ merger'.seg = new
  BY <1>1, <1>4 DEF Inv, TypeOK, AMerger
<1>6. TypeOK'
  BY <1>0, <1>2, <1>3, <1>5 DEF Inv, TypeOK
<1>7. /\ \A s \in 1 .. Len(snapshots) : snapshots[s].segs \subseteq 1 .. new
      /\ \A w \in Writer : writers[w].seg <= new
      /\ persister.opened \subseteq 1 .. new
      /\ introducer.pc = "persist" => \A u \in DOMAIN introducer.files :
                                        introducer.files[u] \in 1 .. new
      /\ persister.pc = "send" => \A u \in DOMAIN persister.files :
                                    persister.files[u] \in 1 .. new
  BY <1>4, StillInRange
<1>8. InRange'
  BY <1>0, <1>3, <1>4, <1>5, <1>7 DEF Inv, InRange
<1>9. FilesInRange'
  BY <1>0, <1>3, <1>7 DEF FilesInRange
<1>10. Fits'
  BY <1>0, <1>4, <1>5
  DEF Inv, Fits, WritersFit, IntroducerFits, PersisterFits, MergerFits, IndexFits, Closing
<1>11. ASSUME NEW s \in 1 .. Len(snapshots) PROVE snapshots'[s].refs = Holders(s)'
  BY <1>0, <1>5, HeldSame
<1>12. SnapshotCounts'
  BY <1>0, <1>11, StateTyped DEF SnapshotCounts, Inv
<1> QED
  BY <1>6, <1>8, <1>9, <1>10, <1>12 DEF Inv

LEMMA AfterFileMergeKeeps ==
  ASSUME RefsAssumption, Inv, AfterFileMerge
  PROVE  Inv'
<1> DEFINE X == IF merger.kept THEN {} ELSE {merger.seg}
           held == merger.new
<1>0. /\ merger.pc = "merged"
      /\ UNCHANGED <<root, writers, readers, introducer, persister, index, used>>
  BY DEF AfterFileMerge, MergerMoves
<1>1. held \in 1 .. Len(snapshots) /\ Len(snapshots) \in Nat /\ Len(segments) \in Nat
  BY <1>0, StateTyped DEF Inv, TypeOK, AMerger, InRange, Fits, MergerFits
<1>2. /\ snapshots' \in Seq(ASnapshot) /\ Len(snapshots') = Len(snapshots)
      /\ segments' \in Seq(ASegment) /\ Len(segments') = Len(segments)
      /\ \A u \in 1 .. Len(snapshots) :
           /\ snapshots'[u].segs = snapshots[u].segs
           /\ snapshots'[u].refs = Before(u) + (0 - One(held = u))
  <2>1. Becomes(LetGoIfAny(CloseAndLetGo(X, held), 0))
    BY DEF AfterFileMerge, LetGoIfAny
  <2>2. /\ snapshots' \in Seq(ASnapshot) /\ Len(snapshots') = Len(snapshots)
        /\ segments' \in Seq(ASegment) /\ Len(segments') = Len(segments)
        /\ \A u \in 1 .. Len(snapshots) :
             /\ snapshots'[u].segs = snapshots[u].segs
             /\ snapshots'[u].refs = Before(u) + (0 - One(held = u) - One(0 = u))
    <3> HIDE DEF held, X
    <3> QED
      BY <1>1, <2>1, CloseAndLetGoStep
  <2>3. \A u \in 1 .. Len(snapshots) : 0 - One(held = u) - One(0 = u) = 0 - One(held = u)
    BY <1>1 DEF One
  <2> QED
    BY <2>2, <2>3
<1>3. /\ merger' \in AMerger /\ merger'.pc = "plan" /\ merger'.snap = merger.snap
      /\ merger'.new = 0 /\ merger'.seg = 0
  BY DEF AfterFileMerge, MergerMoves, Inv, TypeOK, AMerger
<1>4. TypeOK'
  BY <1>0, <1>2, <1>3 DEF Inv, TypeOK
<1>5. InRange'
  BY <1>0, <1>1, <1>2, <1>3 DEF Inv, InRange
<1>6. FilesInRange'
  BY <1>0, <1>2 DEF Inv, FilesInRange
<1>7. Fits'
  BY <1>0, <1>3
  DEF Inv, Fits, WritersFit, IntroducerFits, PersisterFits, MergerFits, IndexFits, Closing
<1>8. ASSUME NEW s \in 1 .. Len(snapshots) PROVE snapshots'[s].refs = Holders(s)'
  <2>1. ByMerger(s)' - ByMerger(s) = 0 - One(held = s)
    <3>1. ByMerger(s) = One(merger.snap = s) + One(held = s)
          /\ ByMerger(s)' = One(merger.snap = s)
      BY <1>1, <1>3 DEF ByMerger, One
    <3> QED
      BY <3>1 DEF One
  <2> QED
    BY <1>0, <1>2, <2>1, HeldByMerger, OneType
<1>9. SnapshotCounts'
  BY <1>2, <1>8, LenProperties DEF SnapshotCounts
<1> QED
  BY <1>4, <1>5, <1>6, <1>7, <1>9 DEF Inv

\* The merger is done with its snapshot.
LEMMA MergerLetsGoKeeps ==
  ASSUME RefsAssumption, Inv, NEW m \in AMerger, m.pc \in {"idle", "done"}, m.snap = 0,
         m.new = 0, m.seg = 0, merger.pc \in {"plan", "send"}, MergerLetsGo(m),
         used' \in [batches : Nat, merges : Nat, failures : Nat]
  PROVE  Inv'
<1> DEFINE X == IF merger.pc = "send" THEN {merger.seg} ELSE {}
           held == merger.snap
<1>0. /\ merger' = m
      /\ UNCHANGED <<root, writers, readers, introducer, persister, index>>
  BY DEF MergerLetsGo, MergerMoves
<1>1. held \in 1 .. Len(snapshots) /\ Len(snapshots) \in Nat /\ Len(segments) \in Nat
  BY StateTyped DEF Inv, TypeOK, AMerger, InRange, Fits, MergerFits
<1>2. /\ snapshots' \in Seq(ASnapshot) /\ Len(snapshots') = Len(snapshots)
      /\ segments' \in Seq(ASegment) /\ Len(segments') = Len(segments)
      /\ \A u \in 1 .. Len(snapshots) :
           /\ snapshots'[u].segs = snapshots[u].segs
           /\ snapshots'[u].refs = Before(u) + (0 - One(held = u))
  <2>1. Becomes(LetGoIfAny(CloseAndLetGo(X, held), 0))
    BY DEF MergerLetsGo, LetGoIfAny
  <2>2. /\ snapshots' \in Seq(ASnapshot) /\ Len(snapshots') = Len(snapshots)
        /\ segments' \in Seq(ASegment) /\ Len(segments') = Len(segments)
        /\ \A u \in 1 .. Len(snapshots) :
             /\ snapshots'[u].segs = snapshots[u].segs
             /\ snapshots'[u].refs = Before(u) + (0 - One(held = u) - One(0 = u))
    <3> HIDE DEF held, X
    <3> QED
      BY <1>1, <2>1, CloseAndLetGoStep
  <2>3. \A u \in 1 .. Len(snapshots) : 0 - One(held = u) - One(0 = u) = 0 - One(held = u)
    BY <1>1 DEF One
  <2> QED
    BY <2>2, <2>3
<1>4. TypeOK'
  BY <1>0, <1>2 DEF Inv, TypeOK
<1>5. InRange'
  <2>1. 0 <= Len(snapshots) /\ 0 <= Len(segments)
    BY <1>1
  <2>2. /\ merger'.snap <= Len(snapshots') /\ merger'.new <= Len(snapshots')
        /\ merger'.seg <= Len(segments')
    BY <1>0, <1>2, <2>1
  <2> QED
    BY <1>0, <1>2, <2>2 DEF Inv, InRange
<1>6. FilesInRange'
  BY <1>0, <1>2 DEF Inv, FilesInRange
<1>7. Fits'
  BY <1>0
  DEF Inv, Fits, WritersFit, IntroducerFits, PersisterFits, MergerFits, IndexFits, Closing
<1>8. ASSUME NEW s \in 1 .. Len(snapshots) PROVE snapshots'[s].refs = Holders(s)'
  <2>1. ByMerger(s)' - ByMerger(s) = 0 - One(held = s)
    <3>1. merger.new = 0 /\ s # 0
      BY <1>1 DEF Inv, Fits, MergerFits
    <3>2. ByMerger(s) = One(held = s) /\ ByMerger(s)' = 0
      BY <1>0, <3>1 DEF ByMerger, One
    <3> QED
      BY <3>2 DEF One
  <2> QED
    BY SMTT(30), <1>0, <1>2, <2>1, HeldByMerger, OneType
<1>9. SnapshotCounts'
  BY <1>2, <1>8, LenProperties DEF SnapshotCounts
<1> QED
  BY <1>4, <1>5, <1>6, <1>7, <1>9 DEF Inv

LEMMA MergeDoneKeeps ==
  ASSUME RefsAssumption, Inv, MergeDone
  PROVE  Inv'
<1> DEFINE m == Resting(merger.snap)
<1>1. merger.snap \in Nat /\ used \in [batches : Nat, merges : Nat, failures : Nat]
  BY DEF Inv, TypeOK, AMerger
<1>2. merger.pc \in {"plan", "send"} /\ MergerLetsGo(m) /\ used' = used
  BY DEF MergeDone
<1>3. m \in AMerger /\ m.pc = "idle" /\ m.snap = 0 /\ m.new = 0 /\ m.seg = 0
  BY <1>1 DEF Resting, AMerger
<1> HIDE DEF m
<1> QED
  BY <1>1, <1>2, <1>3, MergerLetsGoKeeps

LEMMA MergeFailsKeeps ==
  ASSUME RefsAssumption, Inv, MergeFails
  PROVE  Inv'
<1> DEFINE m == Resting(merger.lastPlanned)
<1>1. merger.lastPlanned \in Nat /\ used' \in [batches : Nat, merges : Nat, failures : Nat]
  BY UsesTyped DEF Inv, TypeOK, AMerger, MergeFails
<1>2. merger.pc \in {"plan", "send"} /\ MergerLetsGo(m)
  BY DEF MergeFails
<1>3. m \in AMerger /\ m.pc = "idle" /\ m.snap = 0 /\ m.new = 0 /\ m.seg = 0
  BY <1>1 DEF Resting, AMerger
<1> HIDE DEF m
<1> QED
  BY <1>1, <1>2, <1>3, MergerLetsGoKeeps

LEMMA MergeClosedKeeps ==
  ASSUME RefsAssumption, Inv, MergeClosed
  PROVE  Inv'
<1> DEFINE m == [Resting(merger.lastPlanned) EXCEPT !.pc = "done"]
<1>1. /\ merger.lastPlanned \in Nat
      /\ used \in [batches : Nat, merges : Nat, failures : Nat]
  BY DEF Inv, TypeOK, AMerger
<1>2. merger.pc \in {"plan", "send"} /\ MergerLetsGo(m) /\ used' = used
  BY DEF MergeClosed
<1>3. m \in AMerger /\ m.pc = "done" /\ m.snap = 0 /\ m.new = 0 /\ m.seg = 0
  BY <1>1 DEF Resting, AMerger
<1> HIDE DEF m
<1> QED
  BY <1>1, <1>2, <1>3, MergerLetsGoKeeps

LEMMA MergerExitsKeeps ==
  ASSUME RefsAssumption, Inv, MergerExits
  PROVE  Inv'
<1>0. /\ merger.pc = "idle"
      /\ UNCHANGED <<snapshots, segments, root, writers, readers, introducer, persister, index,
                     used>>
  BY DEF MergerExits, MergerMoves
<1>1. /\ merger' \in AMerger /\ merger'.pc = "done" /\ merger'.snap = merger.snap
      /\ merger'.new = merger.new /\ merger'.seg = merger.seg
  BY DEF MergerExits, MergerMoves, Inv, TypeOK, AMerger
<1>2. TypeOK' /\ InRange' /\ FilesInRange'
  BY <1>0, <1>1 DEF Inv, TypeOK, InRange, FilesInRange
<1>3. Fits'
  BY <1>0, <1>1
  DEF Inv, Fits, WritersFit, IntroducerFits, PersisterFits, MergerFits, IndexFits, Closing
<1>4. ASSUME NEW s \in 1 .. Len(snapshots) PROVE snapshots'[s].refs = Holders(s)'
  BY <1>0, <1>1, HeldSame
<1>5. SnapshotCounts'
  BY <1>0, <1>4, StateTyped DEF SnapshotCounts, Inv
<1> QED
  BY <1>2, <1>3, <1>5 DEF Inv

---------------------------------------------------------------------------
(* Close *)

LEMMA CallCloseKeeps ==
  ASSUME RefsAssumption, Inv, CallClose
  PROVE  Inv'
<1>0. /\ index = "open" /\ index' = "closing" /\ \A w \in Writer : writers[w].pc = "idle"
      /\ UNCHANGED <<snapshots, segments, root, writers, readers, introducer, persister,
                     merger, used>>
  BY DEF CallClose
<1>1. TypeOK' /\ InRange' /\ FilesInRange'
  BY <1>0 DEF Inv, TypeOK, InRange, FilesInRange
<1>2. Fits'
  BY <1>0
  DEF Inv, Fits, WritersFit, IntroducerFits, PersisterFits, MergerFits, IndexFits, Closing
<1>3. ASSUME NEW s \in 1 .. Len(snapshots) PROVE snapshots'[s].refs = Holders(s)'
  BY <1>0, HeldSame
<1>4. SnapshotCounts'
  BY <1>0, <1>3, StateTyped DEF SnapshotCounts, Inv
<1> QED
  BY <1>1, <1>2, <1>4 DEF Inv

LEMMA CloseReturnsKeeps ==
  ASSUME RefsAssumption, Inv, CloseReturns
  PROVE  Inv'
<1>0. /\ index = "closing" /\ index' = "closed" /\ root' = 0
      /\ introducer.pc = "done" /\ persister.pc = "done" /\ merger.pc = "done"
      /\ UNCHANGED <<writers, readers, introducer, persister, merger, used>>
  BY DEF CloseReturns
<1>1. root \in 1 .. Len(snapshots) /\ Len(snapshots) \in Nat
  BY <1>0, StateTyped DEF Inv, TypeOK, InRange, Fits, IndexFits
<1>2. /\ snapshots' \in Seq(ASnapshot) /\ Len(snapshots') = Len(snapshots)
      /\ segments' \in Seq(ASegment) /\ Len(segments') = Len(segments)
      /\ \A u \in 1 .. Len(snapshots) : /\ snapshots'[u].segs = snapshots[u].segs
                                        /\ snapshots'[u].refs = Before(u) + (0 - One(root = u))
  BY <1>1, LetGoStep DEF CloseReturns
<1>3. TypeOK'
  BY <1>0, <1>2 DEF Inv, TypeOK
<1>4. InRange'
  BY <1>0, <1>1, <1>2 DEF Inv, InRange
<1>5. FilesInRange'
  BY <1>0, <1>2 DEF Inv, FilesInRange
<1>6. Fits'
  BY <1>0
  DEF Inv, Fits, WritersFit, IntroducerFits, PersisterFits, MergerFits, IndexFits, Closing
<1>7. ASSUME NEW s \in 1 .. Len(snapshots) PROVE snapshots'[s].refs = Holders(s)'
  <2>1. /\ HoldingWriters(s)' - HoldingWriters(s) = 0
        /\ HoldingReaders(s)' - HoldingReaders(s) = 0
        /\ ByIntroducer(s)' - ByIntroducer(s) = 0
        /\ ByPersister(s)' - ByPersister(s) = 0 /\ ByMerger(s)' - ByMerger(s) = 0
    BY <1>0, PartsSame
  <2>2. ByRoot(s)' - ByRoot(s) = 0 - One(root = s)
    BY <1>0, <1>1 DEF ByRoot, One
  <2> QED
    BY <1>1, <1>2, <2>1, <2>2, CountsStay, OneType
<1>8. SnapshotCounts'
  BY <1>2, <1>7, LenProperties DEF SnapshotCounts
<1> QED
  BY <1>3, <1>4, <1>5, <1>6, <1>8 DEF Inv

---------------------------------------------------------------------------
(* Every snapshot is counted exactly *)

LEMMA InitInv ==
  ASSUME RefsAssumption, Init
  PROVE  Inv
<1>1. snapshots \in Seq(ASnapshot) /\ Len(snapshots) = 1 /\ snapshots[1] = [segs |-> {}, refs |-> 1]
  BY DEF Init, ASnapshot
<1>2. segments \in Seq(ASegment) /\ Len(segments) = 0
  BY DEF Init, ASegment
<1>3. /\ root = 1 /\ index = "open"
      /\ introducer = [pc |-> "idle", old |-> 0, new |-> 0, files |-> <<>>]
      /\ persister = Idle(1) /\ merger = Resting(1)
      /\ used = [batches |-> 0, merges |-> 0, failures |-> 0]
      /\ readers = [r \in Reader |-> 0] /\ writers = [w \in Writer |-> NoBatch]
  BY DEF Init
<1>4. TypeOK
  <2>1. /\ introducer \in AnIntroducer(introducer.files)
        /\ persister \in APersister(persister.files) /\ merger \in AMerger
    BY <1>3 DEF AnIntroducer, APersister, AMerger, Idle, Resting
  <2>2. NoBatch \in ABatch
    BY DEF NoBatch, ABatch
  <2> QED
    BY <1>1, <1>2, <1>3, <2>1, <2>2 DEF TypeOK
<1>5. InRange
  BY <1>1, <1>2, <1>3 DEF InRange, NoBatch, Idle, Resting
<1>6. FilesInRange
  BY <1>3 DEF FilesInRange, Idle
<1>7. Fits
  BY <1>3
  DEF Fits, WritersFit, IntroducerFits, PersisterFits, MergerFits, IndexFits, Closing, NoBatch,
      Idle, Resting
<1>8. SnapshotCounts
  <2>1. /\ {w \in Writer : writers[w].snap = 1} = {} /\ {r \in Reader : readers[r] = 1} = {}
    BY <1>3 DEF NoBatch
  <2>2. HoldingWriters(1) = 0 /\ HoldingReaders(1) = 0
    BY <2>1, FS_EmptySet DEF HoldingWriters, HoldingReaders
  <2>3. ByRoot(1) = 1 /\ ByIntroducer(1) = 0 /\ ByPersister(1) = 0 /\ ByMerger(1) = 0
    BY <1>3 DEF ByRoot, ByIntroducer, ByPersister, ByMerger, One, Idle, Resting
  <2>4. Holders(1) = 1
    BY <2>2, <2>3, HoldersAre
  <2>5. DOMAIN snapshots = {1}
    BY <1>1
  <2> QED
    BY <1>1, <2>4, <2>5 DEF SnapshotCounts
<1> QED
  BY <1>4, <1>5, <1>6, <1>7, <1>8 DEF Inv

LEMMA NextKeeps ==
  ASSUME RefsAssumption, Inv, [Next]_vars
  PROVE  Inv'
<1>1. CASE Introducer
  <2>1. ASSUME NEW w \in Writer, IntroduceSegment(w) PROVE Inv'
    BY <2>1, IntroduceSegmentKeeps
  <2> QED
    BY <1>1, <2>1, ReceivePersistKeeps, IntroducePersistKeeps, IntroduceInMemoryMergeKeeps,
       IntroduceFileMergeKeeps, SwapKeeps, FinishKeeps, IntroducerExitsKeeps DEF Introducer
<1>2. CASE Persister
  <2>1. CASE AfterInMemoryMerge
    <3>1. persister.pc = "merged"
      BY <2>1 DEF AfterInMemoryMerge
    <3> QED
      BY <2>1, <3>1, SkippedMergeKeeps, KeptMergeKeeps
  <2> QED
    BY <1>2, <2>1, TakeSnapshotKeeps, MergeInMemoryKeeps, PersistDirectKeeps, CommitKeeps,
       PersistFailsKeeps, PersisterClosedKeeps, PersisterExitsKeeps DEF Persister
<1>3. CASE Merger
  BY <1>3, PlanMergeKeeps, MergeTaskKeeps, AfterFileMergeKeeps, MergeDoneKeeps, MergeFailsKeeps,
     MergeClosedKeeps, MergerExitsKeeps DEF Merger
<1>4. ASSUME NEW w \in Writer, PrepareSegment(w) \/ BatchReturns(w) \/ BatchFails(w)
      PROVE  Inv'
  BY <1>4, PrepareSegmentKeeps, BatchReturnsKeeps, BatchFailsKeeps
<1>5. ASSUME NEW r \in Reader, Read(r) \/ CloseReader(r) PROVE Inv'
  BY <1>5, ReadKeeps, CloseReaderKeeps
<1>6. CASE CallClose \/ CloseReturns
  BY <1>6, CallCloseKeeps, CloseReturnsKeeps
<1>7. CASE UNCHANGED vars
  <2>0. UNCHANGED <<snapshots, segments, root, writers, readers, introducer, persister, merger,
                    index, used>>
    BY <1>7 DEF vars
  <2>1. TypeOK' /\ InRange' /\ FilesInRange'
    BY <2>0 DEF Inv, TypeOK, InRange, FilesInRange
  <2>2. Fits'
    BY <2>0
    DEF Inv, Fits, WritersFit, IntroducerFits, PersisterFits, MergerFits, IndexFits, Closing
  <2>3. ASSUME NEW s \in 1 .. Len(snapshots) PROVE snapshots'[s].refs = Holders(s)'
    BY <2>0, HeldSame
  <2>4. SnapshotCounts'
    BY <2>0, <2>3, StateTyped DEF SnapshotCounts, Inv
  <2> QED
    BY <2>1, <2>2, <2>4 DEF Inv
<1> QED
  BY <1>1, <1>2, <1>3, <1>4, <1>5, <1>6, <1>7 DEF Next

\* The invariant of the snapshots holds of every behaviour, however the
\* introducer, the persister, the merger, callers, readers and Close interleave.
THEOREM RefsInvariant ==
  ASSUME RefsAssumption
  PROVE  Spec => []Inv
<1>1. Init => Inv
  BY InitInv
<1>2. Inv /\ [Next]_vars => Inv'
  BY NextKeeps
<1> QED
  BY <1>1, <1>2, PTL DEF Spec

\* The references of a snapshot (IndexSnapshot.refs) are those that its holders
\* keep, whatever overtakes or fails: none is given up twice or forgotten.
THEOREM SnapshotsCountedExactly ==
  ASSUME RefsAssumption
  PROVE  Spec => []SnapshotCounts
<1>1. Inv => SnapshotCounts
  BY DEF Inv
<1> QED
  BY <1>1, RefsInvariant, PTL
=============================================================================
