---------------------- MODULE SegmentSnapshotsProofs ----------------------
(***************************************************************************)
(* Facts about segments, introductions and merges that ScorchRoot and      *)
(* ScorchStore both need: what keeps their shape, what an introduction     *)
(* does to the segments it meets and what a reader sees of it.  Before     *)
(* these, what any proof may use of numbers and sequences.                 *)
(***************************************************************************)
EXTENDS SegmentSnapshots, SequencesExt, SequenceTheorems, FiniteSetTheorems,
        WellFoundedInduction, TLAPS

---------------------------------------------------------------------------
(* Numbers and sequences *)

\* A set of natural numbers has a smallest one.
LEMMA SmallestExists ==
  ASSUME NEW T, T \subseteq Nat, T # {}
  PROVE  \E n \in T : \A m \in T : n <= m
<1> DEFINE R == OpToRel(<, Nat)
<1>1. \E n \in T : \A m \in T : ~ (<<m, n>> \in R)
  <2>1. IsWellFoundedOn(R, Nat)
    BY NatLessThanWellFounded
  <2> HIDE DEF R
  <2> QED
    BY <2>1, WFMin
<1>2. \A n, m \in Nat : m < n => <<m, n>> \in R
  BY DEF OpToRel
<1> HIDE DEF R
<1>3. PICK n \in T : \A m \in T : ~ (<<m, n>> \in R)
  BY <1>1
<1>4. \A m \in T : n \in Nat /\ m \in Nat /\ ~ (m < n)
  BY <1>2, <1>3
<1>5. \A m \in T : n <= m
  BY <1>4
<1> QED
  BY <1>5

LEMMA MaxMeans ==
  ASSUME NEW n \in Nat, NEW T, T \subseteq 1..n, T # {}
  PROVE  Max(T) \in T /\ \A i \in T : i <= Max(T)
<1> DEFINE D == {n - i : i \in T}
<1>0. \A i \in T : i \in 1..n /\ n - i \in Nat
  OBVIOUS
<1>1. D \subseteq Nat /\ D # {}
  BY <1>0
<1>2. PICK d \in D : \A c \in D : d <= c
  <2> HIDE DEF D
  <2> QED
    BY <1>1, SmallestExists
<1>3. PICK m \in T : d = n - m
  OBVIOUS
<1>4. \A i \in T : m >= i
  <2>1. \A i \in T : n - m <= n - i
    BY <1>2, <1>3
  <2> QED
    BY <2>1, <1>0
<1>5. \A x \in T : (\A y \in T : x >= y) <=> x = m
  BY <1>0, <1>4
<1>6. Max(T) = m
  BY <1>5 DEF Max
<1> QED
  BY <1>4, <1>6

LEMMA ToSetMeans ==
  ASSUME NEW S, NEW ts \in Seq(S)
  PROVE  ToSet(ts) \subseteq S /\ \A e : e \in ToSet(ts) <=> \E i \in 1..Len(ts) : e = ts[i]
<1>1. DOMAIN ts = 1..Len(ts) /\ \A i \in 1..Len(ts) : ts[i] \in S
  BY ElementOfSeq, LenProperties
<1> QED
  BY <1>1 DEF ToSet

LEMMA SubSeqMeans ==
  ASSUME NEW S, NEW ts \in Seq(S), NEW i \in Nat, NEW k \in Nat, i >= 1, k <= Len(ts)
  PROVE  /\ SubSeq(ts, i, k) \in Seq(S)
         /\ \A e : e \in ToSet(SubSeq(ts, i, k)) <=> \E j \in i..k : e = ts[j]
         /\ Len(SubSeq(ts, i, k)) = IF i <= k THEN k - i + 1 ELSE 0
         /\ \A j \in 1..Len(SubSeq(ts, i, k)) : j + i - 1 \in i..k /\ SubSeq(ts, i, k)[j] = ts[j + i - 1]
<1>0. Len(ts) \in Nat
  BY LenProperties
<1>1. /\ SubSeq(ts, i, k) \in Seq(S)
      /\ Len(SubSeq(ts, i, k)) = IF i <= k THEN k - i + 1 ELSE 0
      /\ \A j \in 1..(k - i + 1) : SubSeq(ts, i, k)[j] = ts[j + i - 1]
  <2>1. \A x \in i..k : x \in 1..Len(ts)
    BY <1>0
  <2>2. i <= Len(ts) + 1 /\ k \in (i - 1)..Len(ts) => TRUE
    OBVIOUS
  <2>3. CASE i <= k
    BY <2>1, <2>3, <1>0
  <2>4. CASE k < i
    <3>1. SubSeq(ts, i, k) = <<>>
      BY <2>4
    <3> QED
      BY <3>1, <2>4, EmptySeq
  <2> QED
    BY <2>3, <2>4
<1>2. PICK us \in Seq(S) : us = SubSeq(ts, i, k)
  BY <1>1
<1>3. \A j \in 1..Len(us) : j + i - 1 \in i..k /\ us[j] = ts[j + i - 1]
  BY <1>1, <1>2
<1>4. \A j \in i..k : j - i + 1 \in 1..Len(us) /\ us[j - i + 1] = ts[j]
  BY <1>1, <1>2
<1>5. \A e : e \in ToSet(us) <=> \E j \in i..k : e = ts[j]
  <2>1. \A e : e \in ToSet(us) <=> \E j \in 1..Len(us) : e = us[j]
    BY ToSetMeans
  <2>2. \A j \in 1..Len(us) : \E m \in i..k : us[j] = ts[m]
    BY <1>3
  <2>3. \A j \in i..k : \E m \in 1..Len(us) : us[m] = ts[j]
    BY <1>4
  <2>5. ASSUME NEW j \in i..k PROVE ts[j] \in ToSet(us)
    <3>1. PICK m \in 1..Len(us) : us[m] = ts[j]
      BY <2>3
    <3> QED
      BY <3>1, <2>1
  <2>6. ASSUME NEW e \in ToSet(us) PROVE \E j \in i..k : e = ts[j]
    <3>1. PICK j \in 1..Len(us) : e = us[j]
      BY <2>1
    <3>2. PICK m \in i..k : us[j] = ts[m]
      BY <2>2
    <3> QED
      BY <3>1, <3>2
  <2> QED
    BY <2>5, <2>6
<1> QED
  BY <1>1, <1>2, <1>3, <1>5

LEMMA FrontMeans ==
  ASSUME NEW S, NEW ts \in Seq(S), ts # <<>>
  PROVE  /\ Len(ts) - 1 \in Nat /\ Front(ts) = SubSeq(ts, 1, Len(ts) - 1)
         /\ \A e : e \in ToSet(Front(ts)) <=> \E j \in 1..(Len(ts) - 1) : e = ts[j]
<1>1. PICK k \in Nat : k = Len(ts) - 1 /\ k <= Len(ts)
  <2>1. Len(ts) \in Nat /\ Len(ts) # 0
    BY EmptySeq, LenProperties
  <2>2. Len(ts) - 1 \in Nat /\ Len(ts) - 1 <= Len(ts)
    BY <2>1
  <2> QED
    BY <2>2
<1>2. 1 \in Nat /\ 1 >= 1
  OBVIOUS
<1>3. \A e : e \in ToSet(SubSeq(ts, 1, k)) <=> \E j \in 1..k : e = ts[j]
  BY <1>1, <1>2, SubSeqMeans
<1> QED
  BY <1>1, <1>3 DEF Front

LEMMA TailMeans ==
  ASSUME NEW S, NEW ts \in Seq(S), NEW i \in 2..Len(ts)
  PROVE  ts[i] \in ToSet(Tail(ts))
<1>1. Len(ts) \in Nat /\ ts # <<>>
  BY EmptySeq, LenProperties
<1>2. PICK us \in Seq(S) : us = Tail(ts)
  BY <1>1, HeadTailProperties
<1>3. Len(us) = Len(ts) - 1 /\ \A j \in 1..Len(us) : us[j] = ts[j + 1]
  BY <1>1, <1>2, HeadTailProperties
<1>4. i - 1 \in 1..Len(us) /\ us[i - 1] = ts[i]
  BY <1>1, <1>3
<1> QED
  BY <1>2, <1>4, ToSetMeans

LEMMA PrefixMeans ==
  ASSUME NEW s \in Seq(Nat), NEW t \in Seq(Nat)
  PROVE  IsPrefix(s, t) <=> Len(s) <= Len(t) /\ \A j \in 1..Len(s) : s[j] = t[j]
<1> DEFINE n == Len(s)
<1>1. n \in Nat /\ Len(t) \in Nat
  OBVIOUS
<1>2. SubSeq(s, 1, n) \in Seq(Nat) /\ Len(SubSeq(s, 1, n)) = n /\ \A j \in 1..n : SubSeq(s, 1, n)[j] = s[j]
  OBVIOUS
<1>3. ASSUME n <= Len(t)
      PROVE  /\ SubSeq(t, 1, n) \in Seq(Nat) /\ Len(SubSeq(t, 1, n)) = n
             /\ \A j \in 1..n : SubSeq(t, 1, n)[j] = t[j]
  BY <1>1, <1>3
<1>4. ASSUME n <= Len(t), \A j \in 1..n : s[j] = t[j]
      PROVE  SubSeq(s, 1, n) = SubSeq(t, 1, n)
  <2>1. PICK a \in Seq(Nat) : a = SubSeq(s, 1, n)
    BY <1>2
  <2>2. PICK b \in Seq(Nat) : b = SubSeq(t, 1, n)
    BY <1>3, <1>4
  <2>3. Len(a) = Len(b) /\ \A i \in 1..Len(a) : a[i] = b[i]
    BY <2>1, <2>2, <1>2, <1>3, <1>4
  <2>4. a = b
    BY <2>3, SeqEqual
  <2> QED
    BY <2>1, <2>2, <2>4
<1> QED
  BY <1>2, <1>3, <1>4 DEF IsPrefix

---------------------------------------------------------------------------
(* Segments *)

LEMMA ImageFinite ==
  ASSUME NEW S, IsFiniteSet(S), NEW f
  PROVE  IsFiniteSet({f[x] : x \in S})
<1> DEFINE g == [x \in S |-> f[x]]
<1>1. g \in Surjection(S, {f[x] : x \in S})
  BY DEF Surjection
<1> QED
  BY <1>1, FS_Surjection

LEMMA NoSegsType == \A D : IsSegs(D, NoSegs)
  BY FS_EmptySet DEF IsSegs, NoSegs

LEMMA OnlyType ==
  ASSUME NEW D, NEW segs, IsSegs(D, segs), NEW S
  PROVE  IsSegs(D, Only(segs, S)) /\ DOMAIN Only(segs, S) \subseteq DOMAIN segs
<1>1. IsFiniteSet((DOMAIN segs) \cap S)
  BY FS_Intersection DEF IsSegs
<1> QED
  BY <1>1 DEF Only, IsSegs

LEMMA WithoutType ==
  ASSUME NEW D, NEW segs, IsSegs(D, segs), NEW S
  PROVE  IsSegs(D, Without(segs, S)) /\ DOMAIN Without(segs, S) \subseteq DOMAIN segs
<1>1. IsFiniteSet((DOMAIN segs) \ S)
  BY FS_Difference DEF IsSegs
<1> QED
  BY <1>1 DEF Without, IsSegs

LEMMA LiveOnlyType ==
  ASSUME NEW D, NEW segs, IsSegs(D, segs)
  PROVE  IsSegs(D, LiveOnly(segs))
  BY OnlyType DEF LiveOnly

LEMMA JoinedType ==
  ASSUME NEW D, NEW f, IsSegs(D, f), NEW g, IsSegs(D, g)
  PROVE  IsSegs(D, Joined(f, g))
<1>1. IsFiniteSet((DOMAIN f) \cup (DOMAIN g))
  BY FS_Union DEF IsSegs
<1> QED
  BY <1>1 DEF Joined, IsSegs

LEMMA AddSegmentType ==
  ASSUME NEW D, NEW segs, IsSegs(D, segs), NEW id \in SegmentID,
         NEW ss, IsSegmentSnapshot(D, ss)
  PROVE  IsSegs(D, AddSegment(segs, id, ss))
<1>1. IsFiniteSet((DOMAIN segs) \cup {id})
  BY FS_AddElement DEF IsSegs
<1> QED
  BY <1>1 DEF AddSegment, IsSegs

LEMMA IntroducePersistType ==
  ASSUME NEW D, NEW segs, IsSegs(D, segs), NEW S
  PROVE  IsSegs(D, IntroducePersist(segs, S))
<1>1. ASSUME NEW s \in DOMAIN segs
      PROVE  IsSegmentSnapshot(D, [docs |-> segs[s].docs, del |-> segs[s].del,
                                file |-> segs[s].file \/ s \in S])
  <2>1. IsSegmentSnapshot(D, segs[s])
    BY DEF IsSegs
  <2> QED
    BY <2>1 DEF IsSegmentSnapshot
<1> QED
  BY <1>1 DEF IntroducePersist, IsSegs

LEMMA ApplyDeltaType ==
  ASSUME NEW D, NEW segs, IsSegs(D, segs), NEW next,
         \A s \in DOMAIN segs : Delta(segs, next, s) \subseteq DOMAIN segs[s].docs
  PROVE  IsSegs(D, ApplyDelta(segs, next))
<1>1. ASSUME NEW s \in DOMAIN segs
      PROVE  IsSegmentSnapshot(D, [docs |-> segs[s].docs,
                                del |-> segs[s].del \cup Delta(segs, next, s),
                                file |-> segs[s].file])
  <2>1. IsSegmentSnapshot(D, segs[s])
    BY DEF IsSegs
  <2> QED
    BY <2>1 DEF IsSegmentSnapshot
<1> QED
  BY <1>1 DEF ApplyDelta, IsSegs

LEMMA IntroduceSegmentType ==
  ASSUME NEW D, NEW segs, IsSegs(D, segs), NEW next, IsDocs(D, next.docs), next.id \in SegmentID,
         \A s \in DOMAIN segs : Delta(segs, next, s) \subseteq DOMAIN segs[s].docs
  PROVE  IsSegs(D, IntroduceSegment(segs, next))
<1> DEFINE kept == LiveOnly(ApplyDelta(segs, next))
<1>1. IsSegs(D, kept)
  BY ApplyDeltaType, LiveOnlyType
<1>2. IsSegmentSnapshot(D, [docs |-> next.docs, del |-> {}, file |-> FALSE])
  BY DEF IsSegmentSnapshot
<1> QED
  BY <1>1, <1>2, AddSegmentType DEF IntroduceSegment

---------------------------------------------------------------------------
(* Merging *)

LEMMA SurvivorsFinite ==
  ASSUME NEW D, NEW segs, IsSegs(D, segs)
  PROVE  /\ IsFiniteSet(Survivors(segs))
         /\ \A p \in Survivors(segs) : NewDocNum(segs, p) \in DocNum
<1> DEFINE f == [s \in DOMAIN segs |-> {s} \X Live(segs[s])]
<1>1. ASSUME NEW s \in DOMAIN segs
      PROVE  IsFiniteSet(f[s])
  <2>1. IsFiniteSet(Live(segs[s]))
    BY FS_Difference DEF IsSegs, IsSegmentSnapshot, IsDocs, Live
  <2> QED
    BY <2>1, FS_Singleton, FS_Product
<1>2. IsFiniteSet({f[s] : s \in DOMAIN segs})
  <2>1. IsFiniteSet(DOMAIN segs)
    BY DEF IsSegs
  <2> HIDE DEF f
  <2> QED
    BY <2>1, ImageFinite
<1>3. IsFiniteSet(UNION {f[s] : s \in DOMAIN segs})
  BY <1>1, <1>2, FS_UNION
<1>4. Survivors(segs) = UNION {f[s] : s \in DOMAIN segs}
  BY DEF Survivors
<1>5. IsFiniteSet(Survivors(segs))
  BY <1>3, <1>4
<1>6. ASSUME NEW p
      PROVE  NewDocNum(segs, p) \in DocNum
  <2> DEFINE Q == {q \in Survivors(segs) : Precedes(q, p)}
  <2>1. IsFiniteSet(Q)
    BY <1>5, FS_Subset
  <2> QED
    BY <2>1, FS_CardinalityType DEF NewDocNum, DocNum
<1> QED
  BY <1>5, <1>6

\* The document under a new number is that of a survivor with this number.
LEMMA MergedFrom ==
  ASSUME NEW segs, NEW n \in DOMAIN MergedDocs(segs)
  PROVE  \E s \in DOMAIN segs : \E d \in Live(segs[s]) :
           /\ NewDocNum(segs, <<s, d>>) = n
           /\ MergedDocs(segs)[n] = segs[s].docs[d]
<1> DEFINE S == Survivors(segs)
           p == CHOOSE p \in S : NewDocNum(segs, p) = n
<1>1. n \in {NewDocNum(segs, q) : q \in S}
  BY DEF MergedDocs
<1>2. MergedDocs(segs)[n] = segs[p[1]].docs[p[2]]
  BY <1>1 DEF MergedDocs
<1>3. p \in S /\ NewDocNum(segs, p) = n
  BY <1>1
<1> HIDE DEF p
<1>4. PICK s \in DOMAIN segs : p \in {s} \X Live(segs[s])
  BY <1>3 DEF Survivors
<1>5. PICK d \in Live(segs[s]) : p = <<s, d>>
  BY <1>4
<1> QED
  BY <1>2, <1>3, <1>5

LEMMA MergedDocsType ==
  ASSUME NEW D, NEW segs, IsSegs(D, segs)
  PROVE  /\ IsDocs(D, MergedDocs(segs))
         /\ DOMAIN MergedDocs(segs) = {NewDocNum(segs, p) : p \in Survivors(segs)}
<1> DEFINE f == [p \in Survivors(segs) |-> NewDocNum(segs, p)]
           N == {f[p] : p \in Survivors(segs)}
<1>1. N = {NewDocNum(segs, p) : p \in Survivors(segs)}
  OBVIOUS
<1>2. DOMAIN MergedDocs(segs) = N
      /\ MergedDocs(segs) = [n \in DOMAIN MergedDocs(segs) |-> MergedDocs(segs)[n]]
  BY <1>1 DEF MergedDocs
<1>3. IsFiniteSet(N)
  BY SurvivorsFinite, ImageFinite
<1>4. N \subseteq DocNum
  BY SurvivorsFinite
<1>5. ASSUME NEW n \in DOMAIN MergedDocs(segs)
      PROVE  MergedDocs(segs)[n] \in D
  <2>1. PICK s \in DOMAIN segs : \E d \in Live(segs[s]) :
             MergedDocs(segs)[n] = segs[s].docs[d]
    BY MergedFrom
  <2>2. segs[s].docs \in [DOMAIN segs[s].docs -> D]
    BY DEF IsSegs, IsSegmentSnapshot, IsDocs
  <2>3. Live(segs[s]) \subseteq DOMAIN segs[s].docs
    BY DEF Live
  <2> QED
    BY <2>1, <2>2, <2>3
<1> HIDE DEF N
<1>6. IsDocs(D, MergedDocs(segs))
  BY <1>2, <1>3, <1>4, <1>5 DEF IsDocs
<1> QED
  BY <1>1, <1>2, <1>6

LEMMA NoMergeType == \A D : IsMerge(D, NoMerge)
  BY FS_EmptySet DEF IsMerge, NoMerge, NoSegs

Group(segs, into, id) == Only(segs, {s \in DOMAIN into : into[s] = id})

LEMMA SegmentMergeUnfolded ==
  ASSUME NEW segs, NEW into
  PROVE  SegmentMerge(segs, into) =
           [hist |-> [s \in DOMAIN into |->
                        [old    |-> segs[s],
                         into   |-> into[s],
                         newNum |-> [d \in Live(segs[s]) |->
                                       NewDocNum(Group(segs, into, into[s]), <<s, d>>)]]],
            new  |-> [id \in {into[s] : s \in DOMAIN into} |->
                        MergedDocs(Group(segs, into, id))]]
  BY DEF SegmentMerge, Group

LEMMA SegmentMergeType ==
  ASSUME NEW D, NEW segs, IsSegs(D, segs), NEW into,
         DOMAIN into \subseteq DOMAIN segs,
         \A s \in DOMAIN into : into[s] \in SegmentID
  PROVE  IsMerge(D, SegmentMerge(segs, into))
<1> DEFINE m == SegmentMerge(segs, into)
           newIds == {into[s] : s \in DOMAIN into}
           numbers(s) == [d \in Live(segs[s]) |->
                            NewDocNum(Group(segs, into, into[s]), <<s, d>>)]
<1>1. m = [hist |-> [s \in DOMAIN into |->
                        [old |-> segs[s], into |-> into[s], newNum |-> numbers(s)]],
           new  |-> [id \in newIds |-> MergedDocs(Group(segs, into, id))]]
  BY SegmentMergeUnfolded
<1>2. IsFiniteSet(DOMAIN into)
  BY FS_Subset DEF IsSegs
<1>3. IsFiniteSet(newIds)
  BY <1>2, ImageFinite
<1>4. \A id : IsSegs(D, Group(segs, into, id))
  BY OnlyType DEF Group
<1>5. ASSUME NEW s \in DOMAIN into
      PROVE  /\ IsSegmentSnapshot(D, segs[s])
             /\ numbers(s) \in [Live(segs[s]) -> DocNum]
             /\ \A d \in Live(segs[s]) :
                  numbers(s)[d] \in DOMAIN MergedDocs(Group(segs, into, into[s]))
  <2> DEFINE g == Group(segs, into, into[s])
  <2>1. s \in DOMAIN g /\ g[s] = segs[s]
    BY DEF Group, Only
  <2>2. ASSUME NEW d \in Live(segs[s])
        PROVE  <<s, d>> \in Survivors(g)
    BY <2>1 DEF Survivors
  <2>3. IsSegs(D, g)
    BY <1>4
  <2> HIDE DEF g
  <2>4. ASSUME NEW d \in Live(segs[s])
        PROVE  /\ NewDocNum(g, <<s, d>>) \in DocNum
               /\ NewDocNum(g, <<s, d>>) \in DOMAIN MergedDocs(g)
    BY <2>2, <2>3, SurvivorsFinite, MergedDocsType
  <2>5. IsSegmentSnapshot(D, segs[s])
    BY DEF IsSegs
  <2> QED
    BY <2>4, <2>5 DEF g
<1>6. \A id : IsDocs(D, MergedDocs(Group(segs, into, id)))
  BY <1>4, MergedDocsType
<1> HIDE DEF numbers, newIds
<1>7. \A s \in DOMAIN into : into[s] \in newIds
  BY DEF newIds
<1>8. newIds \subseteq SegmentID
  BY DEF newIds
<1>9. DOMAIN into \subseteq SegmentID
  BY DEF IsSegs
<1> DEFINE h(s) == [old |-> segs[s], into |-> into[s], newNum |-> numbers(s)]
<1>10. ASSUME NEW s \in DOMAIN into
       PROVE  IsMergedHistory(D, h(s))
  BY <1>5 DEF IsMergedHistory
<1>11. DOMAIN m.hist = DOMAIN into /\ DOMAIN m.new = newIds
  BY <1>1
<1>12. \A s \in DOMAIN into : m.hist[s] = h(s)
  BY <1>1
<1>13. \A id \in newIds : m.new[id] = MergedDocs(Group(segs, into, id))
  BY <1>1
<1>14. /\ m = [hist |-> m.hist, new |-> m.new]
       /\ m.hist = [s \in DOMAIN m.hist |-> m.hist[s]]
       /\ m.new = [id \in DOMAIN m.new |-> m.new[id]]
  BY <1>1
<1>15. ASSUME NEW s \in DOMAIN m.hist
       PROVE  /\ IsMergedHistory(D, m.hist[s])
              /\ m.hist[s].into \in DOMAIN m.new
              /\ \A d \in Live(m.hist[s].old) :
                    m.hist[s].newNum[d] \in DOMAIN m.new[m.hist[s].into]
  <2>1. s \in DOMAIN into
    BY <1>11
  <2>2. /\ m.hist[s] = h(s)
        /\ m.new[into[s]] = MergedDocs(Group(segs, into, into[s]))
    BY <2>1, <1>7, <1>12, <1>13
  <2>3. h(s).old = segs[s] /\ h(s).into = into[s] /\ h(s).newNum = numbers(s)
    OBVIOUS
  <2> HIDE DEF m, h
  <2> QED
    BY <2>1, <2>2, <2>3, <1>5, <1>7, <1>10, <1>11
<1> HIDE DEF m
<1> QED
  BY <1>2, <1>3, <1>6, <1>8, <1>9, <1>11, <1>13, <1>14, <1>15 DEF IsMerge, m

\* A merge whose history still matches the segments it meets.
Matches(segs, merge) ==
  \A s \in DOMAIN merge.hist :
    s \in DOMAIN segs => merge.hist[s].old.docs = segs[s].docs

LEMMA DeletedSinceSurvived ==
  ASSUME NEW D, NEW segs, IsSegs(D, segs), NEW merge, Matches(segs, merge),
         NEW s \in DOMAIN merge.hist
  PROVE  DeletedSince(segs, merge, s) \subseteq Live(merge.hist[s].old)
<1>1. CASE s \in DOMAIN segs
  BY <1>1 DEF DeletedSince, Live, Matches, IsSegs, IsSegmentSnapshot
<1>2. CASE s \notin DOMAIN segs
  BY <1>2 DEF DeletedSince
<1> QED
  BY <1>1, <1>2

LEMMA NewDeletedType ==
  ASSUME NEW D, NEW segs, IsSegs(D, segs), NEW merge, IsMerge(D, merge), Matches(segs, merge),
         NEW id \in DOMAIN merge.new
  PROVE  NewDeleted(segs, merge, id) \subseteq DOMAIN merge.new[id]
<1>1. SUFFICES ASSUME NEW s \in DOMAIN merge.hist, merge.hist[s].into = id,
                      NEW d \in DeletedSince(segs, merge, s)
               PROVE  merge.hist[s].newNum[d] \in DOMAIN merge.new[id]
  BY DEF NewDeleted
<1>2. d \in Live(merge.hist[s].old)
  BY DeletedSinceSurvived
<1> QED
  BY <1>1, <1>2 DEF IsMerge

LEMMA IntroduceMergeType ==
  ASSUME NEW D, NEW segs, IsSegs(D, segs), NEW merge, IsMerge(D, merge), Matches(segs, merge)
  PROVE  IsSegs(D, IntroduceMerge(segs, merge))
<1>1. ASSUME NEW id \in DOMAIN merge.new
      PROVE  IsSegmentSnapshot(D, [docs |-> merge.new[id],
                                del  |-> NewDeleted(segs, merge, id),
                                file |-> TRUE])
  BY NewDeletedType DEF IsSegmentSnapshot, IsMerge
<1>2. IsSegs(D, MergedSegs(segs, merge))
  BY <1>1 DEF MergedSegs, IsSegs, IsMerge
<1> QED
  BY <1>2, WithoutType, LiveOnlyType, JoinedType DEF IntroduceMerge

\* next is an older stage of segs, but for the segments in S.
Ages(segs, next, S) ==
  \A s \in DOMAIN next : s \notin S =>
    /\ s \in DOMAIN segs
    /\ next[s].docs = segs[s].docs
    /\ segs[s].del \subseteq next[s].del

LEMMA IntroduceSegmentAges ==
  ASSUME NEW segs, NEW next
  PROVE  Ages(segs, IntroduceSegment(segs, next), {next.id})
  BY DEF Ages, IntroduceSegment, LiveOnly, Only, ApplyDelta, AddSegment

LEMMA IntroducePersistAges ==
  ASSUME NEW segs, NEW S, NEW T
  PROVE  Ages(segs, IntroducePersist(segs, S), T)
  BY DEF Ages, IntroducePersist

LEMMA IntroduceMergeAges ==
  ASSUME NEW segs, NEW merge
  PROVE  Ages(segs, IntroduceMerge(segs, merge), DOMAIN merge.new)
<1> DEFINE f == LiveOnly(Without(segs, DOMAIN merge.hist))
           g == LiveOnly(MergedSegs(segs, merge))
<1>1. /\ DOMAIN f \subseteq DOMAIN segs
      /\ \A s \in DOMAIN f : f[s] = segs[s]
  BY DEF LiveOnly, Only, Without
<1>2. DOMAIN g \subseteq DOMAIN merge.new
  BY DEF LiveOnly, Only, MergedSegs
<1>3. IntroduceMerge(segs, merge) = Joined(f, g)
  BY DEF IntroduceMerge
<1> HIDE DEF f, g
<1> QED
  BY <1>1, <1>2, <1>3 DEF Ages, Joined

---------------------------------------------------------------------------
(* A new merge job *)

LEMMA SegmentMergeSound ==
  ASSUME NEW D, NEW segs, IsSegs(D, segs), NEW into, DOMAIN into \subseteq DOMAIN segs
  PROVE  MergeSound(SegmentMerge(segs, into))
<1> DEFINE m == SegmentMerge(segs, into)
<1>1. /\ DOMAIN m.hist = DOMAIN into
      /\ DOMAIN m.new = {into[s] : s \in DOMAIN into}
      /\ \A id \in DOMAIN m.new : m.new[id] = MergedDocs(Group(segs, into, id))
      /\ \A s \in DOMAIN into :
           /\ m.hist[s].old = segs[s]
           /\ m.hist[s].into = into[s]
           /\ \A d \in Live(segs[s]) :
                m.hist[s].newNum[d] = NewDocNum(Group(segs, into, into[s]), <<s, d>>)
  BY SegmentMergeUnfolded
<1>2. SUFFICES ASSUME NEW id \in DOMAIN m.new, NEW n \in DOMAIN m.new[id]
               PROVE  \E s \in DOMAIN m.hist : \E d \in Live(m.hist[s].old) :
                        /\ m.hist[s].into = id
                        /\ m.hist[s].newNum[d] = n
                        /\ m.new[id][n] = m.hist[s].old.docs[d]
  BY DEF MergeSound
<1> HIDE DEF m
<1> DEFINE g == Group(segs, into, id)
<1>3. IsSegs(D, g)
  BY OnlyType DEF Group
<1>4. \A s \in DOMAIN g : s \in DOMAIN into /\ into[s] = id /\ g[s] = segs[s]
  BY DEF Group, Only
<1>5. m.new[id] = MergedDocs(g)
  BY <1>1
<1> HIDE DEF g
<1>6. PICK s \in DOMAIN g : \E d \in Live(g[s]) :
             /\ NewDocNum(g, <<s, d>>) = n
             /\ MergedDocs(g)[n] = g[s].docs[d]
  <2>1. n \in DOMAIN MergedDocs(g)
    BY <1>2, <1>5
  <2> QED
    BY <2>1, MergedFrom
<1>7. PICK d \in Live(g[s]) : /\ NewDocNum(g, <<s, d>>) = n
                              /\ MergedDocs(g)[n] = g[s].docs[d]
  BY <1>6
<1>8. /\ s \in DOMAIN m.hist /\ m.hist[s].old = g[s] /\ m.hist[s].into = id
      /\ m.hist[s].newNum[d] = NewDocNum(g, <<s, d>>)
  BY <1>1, <1>4, <1>7 DEF g
<1> QED
  BY <1>5, <1>7, <1>8

LEMMA SegmentMergeIDs ==
  ASSUME NEW segs, NEW into
  PROVE  /\ DOMAIN SegmentMerge(segs, into).new = {into[s] : s \in DOMAIN into}
         /\ DOMAIN SegmentMerge(segs, into).hist = DOMAIN into
         /\ \A s \in DOMAIN into : SegmentMerge(segs, into).hist[s].old = segs[s]
  BY DEF SegmentMerge

---------------------------------------------------------------------------
(* What a reader sees of segments *)

LEMMA ContentsIs ==
  ASSUME NEW segs, NEW d
  PROVE  d \in Contents(segs) <=>
           \E s \in DOMAIN segs : \E n \in Live(segs[s]) : d = segs[s].docs[n]
  BY DEF Contents, LiveDocs

LEMMA ContentsOfNone == Contents(NoSegs) = {}
  BY DEF Contents, NoSegs

\* Dropping the segments without live documents shows no difference.
LEMMA ContentsOfLiveOnly ==
  ASSUME NEW segs
  PROVE  Contents(LiveOnly(segs)) = Contents(segs)
<1>1. DOMAIN LiveOnly(segs) = {s \in DOMAIN segs : Live(segs[s]) # {}}
  BY DEF LiveOnly, Only
<1>2. \A s \in DOMAIN LiveOnly(segs) : LiveOnly(segs)[s] = segs[s]
  BY DEF LiveOnly, Only
<1>3. ASSUME NEW d
      PROVE  d \in Contents(LiveOnly(segs)) <=> d \in Contents(segs)
  BY <1>1, <1>2, ContentsIs
<1> QED
  BY <1>3

LEMMA ContentsOfPersist ==
  ASSUME NEW segs, NEW S
  PROVE  Contents(IntroducePersist(segs, S)) = Contents(segs)
<1>1. /\ DOMAIN IntroducePersist(segs, S) = DOMAIN segs
      /\ \A s \in DOMAIN segs :
            /\ IntroducePersist(segs, S)[s].docs = segs[s].docs
            /\ Live(IntroducePersist(segs, S)[s]) = Live(segs[s])
  BY DEF IntroducePersist, Live
<1> QED
  BY <1>1, ContentsIs

\* The introduction of a segment with exact obsoletions replaces the versions
\* of its identifiers by its documents.
LEMMA IntroduceSegmentShows ==
  ASSUME NEW segs, NEW next,
         \A s \in DOMAIN segs : Delta(segs, next, s) = DocNumbers(segs[s].docs, next.ids),
         next.id \notin DOMAIN segs
  PROVE  Contents(IntroduceSegment(segs, next)) =
           {d \in Contents(segs) : d.id \notin next.ids}
             \cup {next.docs[n] : n \in DOMAIN next.docs}
<1> DEFINE old  == ApplyDelta(segs, next)
           kept == LiveOnly(old)
           new  == [docs |-> next.docs, del |-> {}, file |-> FALSE]
<1>1. /\ DOMAIN old = DOMAIN segs
      /\ \A s \in DOMAIN segs :
           /\ old[s].docs = segs[s].docs
           /\ \A n : n \in Live(old[s]) <=>
                       n \in Live(segs[s]) /\ segs[s].docs[n].id \notin next.ids
  BY DEF ApplyDelta, Live, DocNumbers
<1>2. \A d : d \in Contents(old) <=> d \in Contents(segs) /\ d.id \notin next.ids
  BY <1>1, ContentsIs
<1>3. Contents(kept) = {d \in Contents(segs) : d.id \notin next.ids}
  BY <1>2, ContentsOfLiveOnly
<1>4. DOMAIN kept \subseteq DOMAIN segs
  BY <1>1 DEF LiveOnly, Only
<1>5. Live(new) = DOMAIN next.docs /\ new.docs = next.docs
  BY DEF Live
<1>6. next.docs = NoSegs => {next.docs[n] : n \in DOMAIN next.docs} = {}
  BY DEF NoSegs
<1>7. IntroduceSegment(segs, next) =
        IF next.docs = NoSegs THEN kept ELSE AddSegment(kept, next.id, new)
  BY DEF IntroduceSegment
<1>8. Contents(AddSegment(kept, next.id, new)) = Contents(kept) \cup {next.docs[n] : n \in DOMAIN next.docs}
  <2> HIDE DEF kept, new
  <2> DEFINE a == AddSegment(kept, next.id, new)
  <2>1. /\ DOMAIN a = DOMAIN kept \cup {next.id}
        /\ a[next.id] = new
        /\ \A s \in DOMAIN kept : a[s] = kept[s]
    BY <1>4 DEF AddSegment
  <2> HIDE DEF a
  <2>2. ASSUME NEW d
        PROVE  d \in Contents(a) <=> \/ d \in Contents(kept)
                                   \/ \E n \in DOMAIN next.docs : d = next.docs[n]
    BY <1>5, <2>1, ContentsIs
  <2> QED
    BY <2>2 DEF a
<1> HIDE DEF kept, new
<1> QED
  BY <1>3, <1>6, <1>7, <1>8

---------------------------------------------------------------------------
(* A merge *)

\* The survivors of a merge that go into one segment get distinct numbers.
NumbersDistinct(merge) ==
  \A s, t \in DOMAIN merge.hist :
    \A d \in Live(merge.hist[s].old), e \in Live(merge.hist[t].old) :
      /\ merge.hist[s].into = merge.hist[t].into
      /\ merge.hist[s].newNum[d] = merge.hist[t].newNum[e]
      => s = t /\ d = e

\* Numbering in the order of segment and document is numbering one by one.
LEMMA NewDocNumDistinct ==
  ASSUME NEW D, NEW segs, IsSegs(D, segs),
         NEW s \in DOMAIN segs, NEW d \in Live(segs[s]),
         NEW t \in DOMAIN segs, NEW e \in Live(segs[t]),
         NewDocNum(segs, <<s, d>>) = NewDocNum(segs, <<t, e>>)
  PROVE  s = t /\ d = e
<1> DEFINE S == Survivors(segs)
           Before(p) == {q \in S : Precedes(q, p)}
           IsPair(p) == p = <<p[1], p[2]>> /\ p[1] \in Int /\ p[2] \in Int
<1>1. IsFiniteSet(S)
  BY SurvivorsFinite
<1>2. ASSUME NEW r \in DOMAIN segs, NEW c \in Live(segs[r])
      PROVE  <<r, c>> \in S /\ r \in Int /\ c \in Int
  BY DEF Survivors, Live, IsSegs, IsSegmentSnapshot, IsDocs, SegmentID, DocNum
<1>3. ASSUME NEW q \in S
      PROVE  IsPair(q)
  <2>1. PICK r \in DOMAIN segs : q \in {r} \X Live(segs[r])
    BY DEF Survivors
  <2>2. PICK c \in Live(segs[r]) : q = <<r, c>>
    BY <2>1
  <2> QED
    BY <1>2, <2>2
<1>4. \A p \in S : NewDocNum(segs, p) = Cardinality(Before(p))
  BY DEF NewDocNum
<1>5. ASSUME NEW p \in S, NEW q \in S, Precedes(p, q)
      PROVE  NewDocNum(segs, p) # NewDocNum(segs, q)
  <2>1. p \in Before(q) /\ p \notin Before(p)
    BY <1>3, <1>5 DEF Precedes
  <2>2. Before(p) \subseteq Before(q)
    BY <1>3, <1>5 DEF Precedes
  <2>3. IsFiniteSet(Before(q))
    BY <1>1, FS_Subset
  <2>4. Cardinality(Before(p)) # Cardinality(Before(q))
    <3> HIDE DEF Before
    <3> QED
      BY <2>1, <2>2, <2>3, FS_Subset
  <2> QED
    BY <1>4, <2>4
<1>6. /\ <<s, d>> \in S /\ <<t, e>> \in S
      /\ s \in Int /\ d \in Int /\ t \in Int /\ e \in Int
  BY <1>2
<1>7. ~ Precedes(<<s, d>>, <<t, e>>) /\ ~ Precedes(<<t, e>>, <<s, d>>)
  BY <1>5, <1>6
<1> QED
  BY <1>6, <1>7 DEF Precedes

LEMMA SegmentMergeDistinct ==
  ASSUME NEW D, NEW segs, IsSegs(D, segs), NEW into, DOMAIN into \subseteq DOMAIN segs
  PROVE  NumbersDistinct(SegmentMerge(segs, into))
<1> DEFINE m == SegmentMerge(segs, into)
<1>1. /\ DOMAIN m.hist = DOMAIN into
      /\ \A s \in DOMAIN into :
           /\ m.hist[s].old = segs[s]
           /\ m.hist[s].into = into[s]
           /\ \A d \in Live(segs[s]) :
                m.hist[s].newNum[d] = NewDocNum(Group(segs, into, into[s]), <<s, d>>)
  BY SegmentMergeUnfolded
<1> HIDE DEF m
<1>2. ASSUME NEW s \in DOMAIN into, NEW t \in DOMAIN into,
             NEW d \in Live(segs[s]), NEW e \in Live(segs[t]),
             into[s] = into[t],
             m.hist[s].newNum[d] = m.hist[t].newNum[e]
      PROVE  s = t /\ d = e
  <2> DEFINE g == Group(segs, into, into[s])
  <2>1. IsSegs(D, g)
    BY OnlyType DEF Group
  <2>2. /\ s \in DOMAIN g /\ g[s] = segs[s]
        /\ t \in DOMAIN g /\ g[t] = segs[t]
    BY <1>2 DEF Group, Only
  <2>3. NewDocNum(g, <<s, d>>) = NewDocNum(g, <<t, e>>)
    BY <1>1, <1>2
  <2> HIDE DEF g
  <2> QED
    BY <2>1, <2>2, <2>3, NewDocNumDistinct
<1>3. NumbersDistinct(m)
  BY <1>1, <1>2 DEF NumbersDistinct
<1> QED
  BY <1>3 DEF m

LEMMA NoMergeDistinct == MergeSound(NoMerge) /\ NumbersDistinct(NoMerge)
  BY DEF MergeSound, NumbersDistinct, NoMerge, NoSegs

\* A merge shows no difference: the deletions that came after it started are
\* carried over, and no others.
LEMMA IntroduceMergeShowsNothing ==
  ASSUME NEW D, NEW segs, IsSegs(D, segs), NEW merge, IsMerge(D, merge), MergeSound(merge),
         NumbersDistinct(merge), Matches(segs, merge),
         DOMAIN merge.new \cap DOMAIN segs = {},
         \A s \in DOMAIN merge.hist : s \in DOMAIN segs =>
            merge.hist[s].old.del \subseteq segs[s].del
  PROVE  Contents(IntroduceMerge(segs, merge)) = Contents(segs)
<1> DEFINE H    == DOMAIN merge.hist
           new  == MergedSegs(segs, merge)
           rest == Without(segs, H)
<1>1. Contents(IntroduceMerge(segs, merge)) = Contents(rest) \cup Contents(new)
  <2> DEFINE f == LiveOnly(rest)
             g == LiveOnly(new)
  <2>1. DOMAIN f \cap DOMAIN g = {}
    BY DEF LiveOnly, Only, Without, MergedSegs
  <2>2. Contents(f) = Contents(rest) /\ Contents(g) = Contents(new)
    BY ContentsOfLiveOnly
  <2> HIDE DEF f, g
  <2>3. ASSUME NEW d
        PROVE  d \in Contents(Joined(f, g)) <=> d \in Contents(f) \cup Contents(g)
    <3>1. /\ DOMAIN Joined(f, g) = DOMAIN f \cup DOMAIN g
          /\ \A s \in DOMAIN f : Joined(f, g)[s] = f[s]
          /\ \A s \in DOMAIN g : Joined(f, g)[s] = g[s]
      BY <2>1 DEF Joined
    <3> QED
      BY <3>1, ContentsIs
  <2>4. IntroduceMerge(segs, merge) = Joined(f, g)
    BY DEF IntroduceMerge, f, g
  <2> QED
    BY <2>2, <2>3, <2>4
\* The survivors of merged segments that are in new are the live documents.
<1>2. ASSUME NEW id \in DOMAIN merge.new, NEW n \in Live(new[id])
      PROVE  \E s \in DOMAIN segs : \E d \in Live(segs[s]) :
               new[id].docs[n] = segs[s].docs[d]
  <2>1. /\ n \in DOMAIN merge.new[id]
        /\ n \notin NewDeleted(segs, merge, id)
        /\ new[id].docs = merge.new[id]
    BY DEF MergedSegs, Live
  <2>2. PICK r \in H : \E d \in Live(merge.hist[r].old) :
               /\ merge.hist[r].into = id
               /\ merge.hist[r].newNum[d] = n
               /\ merge.new[id][n] = merge.hist[r].old.docs[d]
    BY <2>1 DEF MergeSound
  <2>3. PICK d \in Live(merge.hist[r].old) :
               /\ merge.hist[r].into = id
               /\ merge.hist[r].newNum[d] = n
               /\ merge.new[id][n] = merge.hist[r].old.docs[d]
    BY <2>2
  <2>4. d \notin DeletedSince(segs, merge, r)
    BY <2>1, <2>3 DEF NewDeleted
  <2>5. r \in DOMAIN segs
    BY <2>4 DEF DeletedSince
  <2>6. segs[r].docs = merge.hist[r].old.docs
    BY <2>5 DEF Matches
  <2>7. d \in Live(segs[r])
    BY <2>4, <2>5, <2>6 DEF DeletedSince, Live
  <2> QED
    BY <2>1, <2>3, <2>5, <2>6, <2>7
<1>3. ASSUME NEW s \in DOMAIN segs, s \in H, NEW d \in Live(segs[s])
      PROVE  \E id \in DOMAIN new : \E n \in Live(new[id]) :
               new[id].docs[n] = segs[s].docs[d]
  <2> DEFINE h  == merge.hist[s]
             id == h.into
             n  == h.newNum[d]
  <2>1. segs[s].docs = h.old.docs /\ h.old.del \subseteq segs[s].del
    BY <1>3 DEF Matches
  <2>2. d \in Live(h.old)
    BY <2>1 DEF Live
  <2>3. id \in DOMAIN merge.new /\ n \in DOMAIN merge.new[id]
    BY <1>3, <2>2 DEF IsMerge
  <2>4. merge.new[id][n] = h.old.docs[d]
    <3>0. \A m \in DOMAIN merge.new[id] :
            \E r \in H : \E e \in Live(merge.hist[r].old) :
                 /\ merge.hist[r].into = id
                 /\ merge.hist[r].newNum[e] = m
                 /\ merge.new[id][m] = merge.hist[r].old.docs[e]
      BY <2>3 DEF MergeSound
    <3>1. PICK r \in H : \E e \in Live(merge.hist[r].old) :
                 /\ merge.hist[r].into = id
                 /\ merge.hist[r].newNum[e] = n
                 /\ merge.new[id][n] = merge.hist[r].old.docs[e]
      BY <2>3, <3>0
    <3>2. PICK e \in Live(merge.hist[r].old) :
                 /\ merge.hist[r].into = id
                 /\ merge.hist[r].newNum[e] = n
                 /\ merge.new[id][n] = merge.hist[r].old.docs[e]
      BY <3>1
    <3>3. r = s /\ e = d
      BY <1>3, <2>2, <3>2 DEF NumbersDistinct
    <3> QED
      BY <3>2, <3>3
  <2>5. n \notin NewDeleted(segs, merge, id)
    <3>1. SUFFICES ASSUME NEW r \in H, merge.hist[r].into = id,
                          NEW e \in DeletedSince(segs, merge, r),
                          merge.hist[r].newNum[e] = n
                   PROVE  FALSE
      BY DEF NewDeleted
    <3>2. e \in Live(merge.hist[r].old)
      BY DeletedSinceSurvived
    <3>3. r = s /\ e = d
      BY <1>3, <2>2, <3>1, <3>2 DEF NumbersDistinct
    <3> QED
      BY <1>3, <3>1, <3>3 DEF DeletedSince, Live
  <2>6. /\ id \in DOMAIN new /\ n \in Live(new[id])
        /\ new[id].docs[n] = segs[s].docs[d]
    BY <2>1, <2>3, <2>4, <2>5 DEF MergedSegs, Live
  <2> QED
    BY <2>6
<1>4. /\ DOMAIN rest = DOMAIN segs \ H /\ DOMAIN new = DOMAIN merge.new
      /\ \A s \in DOMAIN rest : rest[s] = segs[s]
  BY DEF Without, MergedSegs
<1> HIDE DEF new, rest
<1>5. ASSUME NEW d
      PROVE  d \in Contents(rest) \cup Contents(new) <=> d \in Contents(segs)
  <2>1. d \in Contents(rest) => d \in Contents(segs)
    BY <1>4, ContentsIs
  <2>2. d \in Contents(new) => d \in Contents(segs)
    BY <1>2, <1>4, ContentsIs
  <2>3. ASSUME d \in Contents(segs)
        PROVE  d \in Contents(rest) \/ d \in Contents(new)
    <3>1. PICK s \in DOMAIN segs : \E n \in Live(segs[s]) : d = segs[s].docs[n]
      BY <2>3, ContentsIs
    <3>2. CASE s \in H
      BY <1>3, <3>1, <3>2, ContentsIs
    <3>3. CASE s \notin H
      BY <1>4, <3>1, <3>3, ContentsIs
    <3> QED
      BY <3>2, <3>3
  <2> QED
    BY <2>1, <2>2, <2>3
<1> QED
  BY <1>1, <1>5

---------------------------------------------------------------------------
(* What segments hold and show *)

\* A set of documents can be numbered from 0.
LEMMA Numbered ==
  ASSUME NEW docs, IsFiniteSet(docs)
  PROVE  /\ Cardinality(docs) \in Nat
         /\ \E seg \in [0 .. Cardinality(docs) - 1 -> docs] :
              \A d \in docs : \E n \in DOMAIN seg : seg[n] = d
<1> DEFINE k == Cardinality(docs)
<1>1. k \in Nat /\ ExistsBijection(1 .. k, docs)
  BY FS_CardinalityType
<1> HIDE DEF k
<1>2. PICK f \in [1 .. k -> docs] : \A d \in docs : \E n \in 1 .. k : f[n] = d
  BY <1>1 DEF ExistsBijection, Bijection, Surjection
<1> DEFINE seg == [n \in 0 .. k - 1 |-> f[n + 1]]
<1>3. seg \in [0 .. k - 1 -> docs]
  BY <1>1
<1>4. ASSUME NEW d \in docs PROVE \E n \in DOMAIN seg : seg[n] = d
  <2>1. PICK n \in 1 .. k : f[n] = d
    BY <1>2
  <2>2. n - 1 \in 0 .. k - 1 /\ seg[n - 1] = d
    BY <1>1, <2>1
  <2> QED
    BY <2>2
<1> QED
  BY <1>1, <1>3, <1>4 DEF k

\* A merge into one segment.
LEMMA MergedIntoOne ==
  ASSUME NEW D, NEW segs, IsSegs(D, segs), NEW id \in SegmentID, NEW into,
         DOMAIN into \subseteq DOMAIN segs, DOMAIN into # {},
         \A s \in DOMAIN into : into[s] = id
  PROVE  /\ IsMerge(D, SegmentMerge(segs, into))
         /\ DOMAIN SegmentMerge(segs, into).new = {id}
         /\ DOMAIN SegmentMerge(segs, into).hist = DOMAIN into
         /\ \A s \in DOMAIN into : SegmentMerge(segs, into).hist[s].old = segs[s]
<1>1. IsMerge(D, SegmentMerge(segs, into))
  BY SegmentMergeType
<1>2. /\ DOMAIN SegmentMerge(segs, into).new = {into[s] : s \in DOMAIN into}
      /\ DOMAIN SegmentMerge(segs, into).hist = DOMAIN into
      /\ \A s \in DOMAIN into : SegmentMerge(segs, into).hist[s].old = segs[s]
  BY SegmentMergeIDs
<1>3. PICK s \in DOMAIN into : TRUE
  OBVIOUS
<1> QED
  BY <1>1, <1>2, <1>3

\* What is in the root after a merge: what was there and is still live, and
\* the merged segments.
LEMMA AfterMerge ==
  ASSUME NEW segs, NEW merge, NEW s \in DOMAIN IntroduceMerge(segs, merge)
  PROVE  \/ /\ s \in DOMAIN segs \ DOMAIN merge.hist
            /\ IntroduceMerge(segs, merge)[s] = segs[s] /\ Live(segs[s]) # {}
         \/ /\ s \in DOMAIN merge.new
            /\ IntroduceMerge(segs, merge)[s].docs = merge.new[s]
            /\ IntroduceMerge(segs, merge)[s].file
<1> DEFINE f == LiveOnly(Without(segs, DOMAIN merge.hist))
           g == LiveOnly(MergedSegs(segs, merge))
<1>1. s \in DOMAIN Joined(f, g) /\ IntroduceMerge(segs, merge) = Joined(f, g)
  BY DEF IntroduceMerge
<1>2. CASE s \in DOMAIN f
  <2>1. Joined(f, g)[s] = f[s]
    BY <1>2 DEF Joined
  <2>2. /\ s \in DOMAIN segs \ DOMAIN merge.hist
        /\ f[s] = segs[s] /\ Live(segs[s]) # {}
    BY <1>2 DEF LiveOnly, Only, Without
  <2> QED
    BY <1>1, <2>1, <2>2
<1>3. CASE s \in DOMAIN g /\ s \notin DOMAIN f
  <2>1. Joined(f, g)[s] = g[s]
    BY <1>3 DEF Joined
  <2>2. s \in DOMAIN merge.new /\ g[s].docs = merge.new[s] /\ g[s].file
    BY <1>3 DEF LiveOnly, Only, MergedSegs
  <2> QED
    BY <1>1, <2>1, <2>2
<1>4. s \in DOMAIN f \/ s \in DOMAIN g
  BY <1>1 DEF Joined
<1> QED
  BY <1>1, <1>2, <1>3, <1>4

\* The obsoletions prepared are those of the root they are applied to.
LEMMA DeltaExact ==
  ASSUME NEW segs, NEW next, next.obsoletes = Obsoletes(segs, next.ids)
  PROVE  \A s \in DOMAIN segs :
           Delta(segs, next, s) = DocNumbers(segs[s].docs, next.ids)
  BY DEF Delta, Obsoletes

LEMMA ContentsType ==
  ASSUME NEW D, NEW segs, IsSegs(D, segs)
  PROVE  Contents(segs) \subseteq D
<1> SUFFICES ASSUME NEW d \in Contents(segs) PROVE d \in D
  OBVIOUS
<1>1. PICK s \in DOMAIN segs : \E n \in Live(segs[s]) : d = segs[s].docs[n]
  BY ContentsIs
<1>2. PICK n \in Live(segs[s]) : d = segs[s].docs[n]
  BY <1>1
<1> QED
  BY <1>2 DEF IsSegs, IsSegmentSnapshot, IsDocs, Live

LEMMA ContentsOfJoined ==
  ASSUME NEW f, NEW g, DOMAIN f \cap DOMAIN g = {}
  PROVE  Contents(Joined(f, g)) = Contents(f) \cup Contents(g)
<1>1. /\ DOMAIN Joined(f, g) = DOMAIN f \cup DOMAIN g
      /\ \A s \in DOMAIN f : Joined(f, g)[s] = f[s]
      /\ \A s \in DOMAIN g : Joined(f, g)[s] = g[s]
  BY DEF Joined
<1> QED
  BY <1>1 DEF Contents

\* Two lists that agree on the documents and the deletions show the same.
LEMMA SameContents ==
  ASSUME NEW f, NEW g, DOMAIN f = DOMAIN g,
         \A s \in DOMAIN f : f[s].docs = g[s].docs /\ f[s].del = g[s].del
  PROVE  Contents(f) = Contents(g)
  BY DEF Contents, LiveDocs, Live

\* A set of natural numbers has a smallest one.
LEMMA LeastExists ==
  ASSUME NEW T, T \subseteq Nat, T # {}
  PROVE  \E x \in T : \A y \in T : x <= y
<1> DEFINE R == OpToRel(<, Nat)
<1>1. \E x \in T : \A y \in T : ~ (<<y, x>> \in R)
  <2>1. IsWellFoundedOn(R, Nat)
    BY NatLessThanWellFounded
  <2> HIDE DEF R
  <2> QED
    BY <2>1, WFMin
<1>2. \A x, y \in Nat : y < x => <<y, x>> \in R
  BY DEF OpToRel
<1> HIDE DEF R
<1>3. PICK x \in T : \A y \in T : ~ (<<y, x>> \in R)
  BY <1>1
<1>4. \A y \in T : x \in Nat /\ y \in Nat /\ ~ (y < x)
  BY <1>2, <1>3
<1> QED
  BY <1>4

=============================================================================
