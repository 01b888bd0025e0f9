--------------------------- MODULE DocumentsProofs ---------------------------
(***************************************************************************)
(* Documents as they are stored and read: the proofs about Upsidedown and  *)
(* about SnapshotReaders, which have no more in common than the facts about *)
(* sets of numbers.                                                        *)
(*                                                                         *)
(* Upsidedown: the rows agree with each other and with what was written,   *)
(* for any documents, contents, writers, refused writes and crashes.  What *)
(* a write has looked up of its documents stays true until it is written,  *)
(* because the mutex is held from one to the other (LookedUp); so the rows *)
(* it adds are new, the rows it deletes are there, and the counts of the   *)
(* dictionary change by exactly those.  A number of a field is given once, *)
(* so that the rows that an analysis has made mean the same when they are  *)
(* read (NumbersFit, Analyzed).  After a crash this needs in addition that *)
(* the field row was written before the rows that use it, which holds of   *)
(* one writer that is never refused (Alone): the code does not wait for    *)
(* another writer's.                                                       *)
(*                                                                         *)
(* SnapshotReaders: what a reader has left of its postings is what its     *)
(* client has not been answered yet (Placed), so that Next and Advance     *)
(* find the right document whatever the segments are.  A reader that goes  *)
(* back is made anew and is given up only when nobody keeps it, which is   *)
(* why going back together with the cache of readers is excluded (Reused). *)
(***************************************************************************)
EXTENDS Upsidedown, SnapshotReaders, FiniteSetTheorems, WellFoundedInduction, TLAPS

---------------------------------------------------------------------------
(* The invariant of the rows *)

IsCall(c) ==
  /\ c = [pc |-> c.pc, batch |-> c.batch, version |-> c.version, left |-> c.left,
          rows |-> c.rows, fields |-> c.fields, old |-> c.old]
  /\ c.pc \in {"idle", "running", "found", "written"}
  /\ c.batch \in [DOMAIN c.batch -> Contents \cup {Deleted}] /\ DOMAIN c.batch \subseteq DocIDs

\* Documents that a call indexes.
Indexed(c) == {d \in DOMAIN c.batch : c.batch[d] # Deleted}

\* What is left to be analyzed, and the rows made so far, are of documents that
\* are indexed.
CallFits(c) ==
  /\ \A x \in c.left : x = <<x[1], x[2]>> /\ x[1] \in Indexed(c) /\ x[2] \in Names
  /\ IsFiniteSet(c.rows) /\ \A k \in c.rows : k.doc \in Indexed(c)
  /\ c.pc \in {"idle", "written"} => c.left = {}

WritersFit ==
  /\ writers = [w \in Writers |-> writers[w]]
  /\ \A w \in Writers : IsCall(writers[w]) /\ CallFits(writers[w])

StoreFits ==
  /\ store = [fields |-> store.fields, rows |-> store.rows, back |-> store.back,
              dict |-> store.dict]
  /\ DOMAIN store.back \subseteq DocIDs /\ IsFiniteSet(DOMAIN store.rows)
  /\ \A d \in DOMAIN store.back : \A k \in store.back[d] : k.doc = d
  /\ store.dict = [x \in DOMAIN store.dict |-> store.dict[x]]

\* Who has looked up its documents holds the mutex.
Locked == \A w \in Writers : writers[w].pc \in {"found", "written"} => lock = w

\* Its back index rows are still those of the store.
LookedUp ==
  \A w \in Writers : writers[w].pc = "found" =>
    writers[w].old = [d \in DOMAIN writers[w].batch |->
                        IF d \in DOMAIN store.back THEN store.back[d] ELSE Missing]

\* The number of documents, and what a write still has to make of it.
CountFits ==
  /\ docCount \in Int
  /\ (\A w \in Writers : writers[w].pc # "written") => docCount = Cardinality(DOMAIN store.back)
  /\ \A w \in Writers : writers[w].pc = "written" =>
       docCount + Added(w) - Removed(w) = Cardinality(DOMAIN store.back)

RowsInv == /\ WritersFit /\ StoreFits /\ Locked /\ LookedUp /\ CountFits
           /\ RowsConsistent

---------------------------------------------------------------------------
(* The invariant of the contents *)

\* Numbers of fields are given once, and one can be given that is larger than
\* all; those that are stored or about to be are of the cache.
NumbersFit ==
  /\ cache = [n \in DOMAIN cache |-> cache[n]] /\ DOMAIN cache \subseteq Names
  /\ \A n \in DOMAIN cache : cache[n] \in Nat
  /\ \E b \in Nat : \A n \in DOMAIN cache : cache[n] <= b
  /\ \A n, m \in DOMAIN cache : cache[n] = cache[m] => n = m
  /\ \A i \in DOMAIN store.fields : /\ store.fields[i] \in DOMAIN cache
                                    /\ cache[store.fields[i]] = i
  /\ \A w \in Writers : \A f \in writers[w].fields :
       f = <<f[1], f[2]>> /\ f[2] \in DOMAIN cache /\ cache[f[2]] = f[1]

\* The rows of document d with content c, fields numbered by g.
RowsIn(g, d, c) == {RowKey(d, e[1], g[e[2]], e[3]) : e \in c}
Named(g, c) == \A e \in c : e[2] \in DOMAIN g

\* What has been analyzed of document d, and of a content.
Done(w, d) == {e \in writers[w].batch[d] : <<d, e[2]>> \notin writers[w].left}

Analyzed ==
  \A w \in Writers : writers[w].pc \in {"running", "found"} => \A d \in Updated(w) :
    Named(cache, Done(w, d)) /\ NewRows(w, d) = RowsIn(cache, d, Done(w, d))

\* The rows of the store are those of what was written.
Stored(d) == {k \in DOMAIN store.rows : k.doc = d}

ContentFits ==
  /\ committed = [d \in DocIDs |-> committed[d]]
  /\ \A d \in DocIDs :
       /\ committed[d] = [content |-> committed[d].content, version |-> committed[d].version]
       /\ committed[d].content \in Contents \cup {{}} /\ Named(cache, committed[d].content)
       /\ Stored(d) = RowsIn(cache, d, committed[d].content)
       /\ \A k \in Stored(d) : store.rows[k] = committed[d].version

\* With one writer that is never refused, a field that is cached is stored or
\* about to be with the rows that use it.
FieldsWritten ==
  /\ \A n \in DOMAIN cache : \/ cache[n] \in DOMAIN store.fields
                             \/ \E w \in Writers : /\ writers[w].pc \in {"running", "found"}
                                                   /\ <<cache[n], n>> \in writers[w].fields
  /\ FieldRowsThere

ContentInv == NumbersFit /\ Analyzed /\ ContentFits /\ (Alone => FieldsWritten)


---------------------------------------------------------------------------
(* Facts of calls and sets *)

\* A call changes, the others do not.
LEMMA OneCall ==
  ASSUME WritersFit, NEW w \in Writers, NEW c, writers' = [writers EXCEPT ![w] = c],
         IsCall(c), CallFits(c)
  PROVE  /\ WritersFit' /\ writers'[w] = c
         /\ \A v \in Writers : v # w => writers'[v] = writers[v]
<1>1. /\ writers'[w] = c /\ \A v \in Writers : v # w => writers'[v] = writers[v]
      /\ writers' = [v \in Writers |-> writers'[v]]
  BY DEF WritersFit
<1>2. \A v \in Writers : IsCall(writers'[v]) /\ CallFits(writers'[v])
  BY <1>1 DEF WritersFit
<1> QED
  BY <1>1, <1>2 DEF WritersFit

LEMMA NoCall ==
  /\ IsCall(IdleWriter) /\ CallFits(IdleWriter)
  /\ IdleWriter.pc = "idle" /\ IdleWriter.fields = {} /\ IdleWriter.left = {}
<1>1. /\ IdleWriter.pc = "idle" /\ IdleWriter.fields = {} /\ IdleWriter.left = {}
      /\ IdleWriter.rows = {} /\ IdleWriter.batch = <<>>
      /\ IdleWriter = [pc |-> IdleWriter.pc, batch |-> IdleWriter.batch,
                       version |-> IdleWriter.version, left |-> IdleWriter.left,
                       rows |-> IdleWriter.rows, fields |-> IdleWriter.fields,
                       old |-> IdleWriter.old]
  BY DEF IdleWriter
<1>2. DOMAIN IdleWriter.batch = {}
  BY <1>1
<1>3. IsCall(IdleWriter)
  BY <1>1, <1>2 DEF IsCall
<1>4. CallFits(IdleWriter)
  BY <1>1, FS_EmptySet DEF CallFits
<1> QED
  BY <1>1, <1>3, <1>4

LEMMA AllIdle ==
  ASSUME writers' = [w \in Writers |-> IdleWriter]
  PROVE  WritersFit' /\ \A w \in Writers : writers'[w] = IdleWriter
BY NoCall DEF WritersFit

CountOf(R, A, D) == Cardinality(R) + (Cardinality(A) - Cardinality(D))

\* Additions that are new and deletions that are there.
LEMMA Exchanged ==
  ASSUME NEW R, NEW A, NEW D, IsFiniteSet(R), IsFiniteSet(A), A \cap R = {}, D \subseteq R
  PROVE  /\ IsFiniteSet((R \cup A) \ D) /\ Cardinality(R) \in Nat
         /\ Cardinality(A) \in Nat /\ Cardinality(D) \in Nat
         /\ Cardinality((R \cup A) \ D) \in Nat
         /\ Cardinality((R \cup A) \ D) = CountOf(R, A, D)
<1> DEFINE B == R \cup A
<1>1. IsFiniteSet(D)
  BY FS_Subset
<1>2. /\ IsFiniteSet(B)
      /\ Cardinality(B) = Cardinality(R) + Cardinality(A) - Cardinality(R \cap A)
  BY FS_Union
<1>3. R \cap A = {} /\ Cardinality(R \cap A) = 0
  <2>1. R \cap A = {}
    OBVIOUS
  <2> QED
    BY <2>1, FS_EmptySet
<1>4. B \cap D = D
  OBVIOUS
<1> HIDE DEF B
<1>5. IsFiniteSet(B \ D)
  BY <1>2, FS_Subset
<1>6. Cardinality(B \ D) = Cardinality(B) - Cardinality(D)
  <2>1. Cardinality(B \ D) = Cardinality(B) - Cardinality(B \cap D)
    BY <1>2, FS_Difference
  <2> QED
    BY <1>4, <2>1
<1>7. /\ Cardinality(R) \in Nat /\ Cardinality(A) \in Nat /\ Cardinality(D) \in Nat
      /\ Cardinality(B \ D) \in Nat
  BY <1>1, <1>5, FS_CardinalityType
<1> QED
  BY <1>2, <1>3, <1>5, <1>6, <1>7 DEF B, CountOf

---------------------------------------------------------------------------
(* What a write finds and leaves *)

\* What it finds of its documents is in the store still.
LEMMA OldIsStored ==
  ASSUME UpsidedownAssumption, RowsInv, NEW w \in Writers, writers[w].pc = "found"
  PROVE  /\ \A d \in DOMAIN writers[w].batch :
              /\ OldRows(w, d) = Stored(d)
              /\ writers[w].old[d] = Missing <=> d \notin DOMAIN store.back
         /\ \A k \in DOMAIN store.rows : k.doc \in DOMAIN store.back /\ k \in store.back[k.doc]
<1>1. DOMAIN writers[w].batch \subseteq DocIDs /\ "no document" \notin DocIDs
  BY DEF RowsInv, WritersFit, IsCall, UpsidedownAssumption
<1>2. \A d \in DOMAIN writers[w].batch :
        writers[w].old[d] = IF d \in DOMAIN store.back THEN store.back[d] ELSE Missing
  BY DEF RowsInv, LookedUp
<1>3. PICK k \in Missing : k.doc = "no document"
  BY DEF RowKey, Missing
<1>4. \A d \in DOMAIN store.back : \A r \in store.back[d] : r.doc = d
  BY DEF RowsInv, StoreFits
<1>5. DOMAIN store.rows = UNION {store.back[d] : d \in DOMAIN store.back}
  BY DEF RowsInv, RowsConsistent
<1>6. \A r \in DOMAIN store.rows : r.doc \in DOMAIN store.back /\ r \in store.back[r.doc]
  BY <1>4, <1>5
<1>7. \A d \in DOMAIN writers[w].batch : d \in DOMAIN store.back => store.back[d] # Missing
  BY <1>1, <1>3, <1>4
<1>8. ASSUME NEW d \in DOMAIN writers[w].batch
      PROVE  /\ OldRows(w, d) = Stored(d)
             /\ writers[w].old[d] = Missing <=> d \notin DOMAIN store.back
  BY <1>2, <1>7, <1>4, <1>5, <1>6 DEF Stored, OldRows
<1> QED
  BY <1>6, <1>8

\* So what it adds is new, and what it deletes is there.
LEMMA RowsSorted ==
  ASSUME UpsidedownAssumption, RowsInv, NEW w \in Writers, writers[w].pc = "found"
  PROVE  /\ AddRows(w) = writers[w].rows \ DOMAIN store.rows
         /\ UpdateRows(w) = writers[w].rows \cap DOMAIN store.rows
         /\ DeleteRows(w) = {k \in DOMAIN store.rows : k.doc \in DOMAIN writers[w].batch}
                              \ writers[w].rows
         /\ \A k \in writers[w].rows : k.doc \in Updated(w)
         /\ Updated(w) \subseteq DOMAIN writers[w].batch
<1>1. Updated(w) = Indexed(writers[w]) /\ Updated(w) \subseteq DOMAIN writers[w].batch
  BY DEF Indexed, Updated
<1>2. \A k \in writers[w].rows : k.doc \in Updated(w)
  BY <1>1 DEF RowsInv, WritersFit, CallFits
<1>3. \A d \in DOMAIN writers[w].batch : OldRows(w, d) = {k \in DOMAIN store.rows : k.doc = d}
  BY OldIsStored DEF Stored
<1>4. ASSUME NEW k PROVE k \in AddRows(w) <=> k \in writers[w].rows \ DOMAIN store.rows
  BY <1>1, <1>2, <1>3 DEF AddRows, NewRows
<1>5. ASSUME NEW k PROVE k \in UpdateRows(w) <=> k \in writers[w].rows \cap DOMAIN store.rows
  BY <1>1, <1>2, <1>3 DEF UpdateRows, NewRows
<1>6. ASSUME NEW k
      PROVE  k \in DeleteRows(w) <=>
               k \in {r \in DOMAIN store.rows : r.doc \in DOMAIN writers[w].batch}
                       \ writers[w].rows
  BY <1>3 DEF DeleteRows, NewRows
<1> QED
  BY <1>1, <1>2, <1>4, <1>5, <1>6

\* The rows after it: those of the other documents, and those it has made.
LEMMA RowsWritten ==
  ASSUME UpsidedownAssumption, RowsInv, NEW w \in Writers, writers[w].pc = "found",
         store' = BatchRows(w)
  PROVE  /\ DOMAIN store'.rows = (DOMAIN store.rows \cup AddRows(w)) \ DeleteRows(w)
         /\ DOMAIN store'.rows =
              {k \in DOMAIN store.rows : k.doc \notin DOMAIN writers[w].batch}
                \cup writers[w].rows
         /\ \A k \in DOMAIN store'.rows :
              store'.rows[k] = IF k \in writers[w].rows THEN writers[w].version
                                                        ELSE store.rows[k]
         /\ store'.dict = DictAfter(w)
         /\ store' = [fields |-> store'.fields, rows |-> store'.rows, back |-> store'.back,
                      dict |-> store'.dict]
<1> DEFINE written == AddRows(w) \cup UpdateRows(w)
<1>1. /\ store'.rows = Without(Put(store.rows, [k \in written |-> writers[w].version]),
                               DeleteRows(w))
      /\ store'.dict = DictAfter(w)
      /\ store' = [fields |-> store'.fields, rows |-> store'.rows, back |-> store'.back,
                   dict |-> store'.dict]
  BY DEF BatchRows
<1>2. written = writers[w].rows
  BY RowsSorted
<1> HIDE DEF written
<1>3. DOMAIN store'.rows = (DOMAIN store.rows \cup written) \ DeleteRows(w)
  BY <1>1 DEF Without, Put, Restrict
<1>4. \A k \in DOMAIN store'.rows :
        store'.rows[k] = IF k \in written THEN writers[w].version ELSE store.rows[k]
  BY <1>1, <1>3 DEF Without, Put, Restrict
<1>5. DOMAIN store'.rows = (DOMAIN store.rows \cup AddRows(w)) \ DeleteRows(w)
  BY <1>2, <1>3, RowsSorted
<1>6. ASSUME NEW k
      PROVE  k \in DOMAIN store'.rows <=>
               k \in {r \in DOMAIN store.rows : r.doc \notin DOMAIN writers[w].batch}
                       \cup writers[w].rows
  BY <1>2, <1>3, RowsSorted
<1> QED
  BY <1>1, <1>2, <1>4, <1>5, <1>6

\* The back index after it.
LEMMA BackWritten ==
  ASSUME UpsidedownAssumption, RowsInv, NEW w \in Writers, writers[w].pc = "found",
         store' = BatchRows(w)
  PROVE  /\ DOMAIN store'.back =
              (DOMAIN store.back \cup {d \in Updated(w) : writers[w].old[d] = Missing})
                \ {d \in DOMAIN writers[w].batch \ Updated(w) : writers[w].old[d] # Missing}
         /\ DOMAIN store'.back = (DOMAIN store.back \ DOMAIN writers[w].batch) \cup Updated(w)
         /\ \A d \in DOMAIN store'.back :
              store'.back[d] = IF d \in Updated(w) THEN NewRows(w, d) ELSE store.back[d]
<1> DEFINE gone == {d \in DOMAIN writers[w].batch \ Updated(w) : writers[w].old[d] # Missing}
<1>1. store'.back = Without(Put(store.back, [d \in Updated(w) |-> NewRows(w, d)]), gone)
  BY DEF BatchRows
<1>2. \A d \in gone : d \in DOMAIN writers[w].batch /\ d \notin Updated(w)
  OBVIOUS
<1>3. Updated(w) \subseteq DOMAIN writers[w].batch
  BY DEF Updated
<1>4. \A d \in DOMAIN writers[w].batch : writers[w].old[d] = Missing <=> d \notin DOMAIN store.back
  BY OldIsStored
<1>5. gone = (DOMAIN writers[w].batch \ Updated(w)) \cap DOMAIN store.back
  BY <1>4
<1>6. {d \in Updated(w) : writers[w].old[d] = Missing} = Updated(w) \ DOMAIN store.back
  BY <1>3, <1>4
<1> HIDE DEF gone
<1>7. DOMAIN store'.back = (DOMAIN store.back \cup Updated(w)) \ gone
  BY <1>1 DEF Without, Put, Restrict
<1>8. \A d \in DOMAIN store'.back :
        store'.back[d] = IF d \in Updated(w) THEN NewRows(w, d) ELSE store.back[d]
  BY <1>1, <1>7 DEF Without, Put, Restrict
<1>9. DOMAIN store'.back = (DOMAIN store.back \cup (Updated(w) \ DOMAIN store.back)) \ gone
  BY <1>7
<1>10. DOMAIN store'.back = (DOMAIN store.back \ DOMAIN writers[w].batch) \cup Updated(w)
  BY <1>3, <1>5, <1>7
<1> QED
  BY <1>6, <1>8, <1>9, <1>10 DEF gone

\* The rows of a term.
OfTerm(S, x) == {k \in S : k.kind = "t" /\ DictKey(k) = x}

\* The dictionary counts them after it as before.
LEMMA DictWritten ==
  ASSUME UpsidedownAssumption, RowsInv, NEW w \in Writers, writers[w].pc = "found",
         store' = BatchRows(w)
  PROVE  /\ \A k \in DOMAIN store'.rows : k.kind = "t" => DictKey(k) \in DOMAIN store'.dict
         /\ \A x \in DOMAIN store'.dict :
              store'.dict[x] = Cardinality(OfTerm(DOMAIN store'.rows, x))
         /\ store'.dict = [x \in DOMAIN store'.dict |-> store'.dict[x]]
<1> DEFINE R == DOMAIN store.rows
           A == AddRows(w)
           D == DeleteRows(w)
           touched == {DictKey(k) : k \in {r \in A \cup D : r.kind = "t"}}
           before(x) == IF x \in DOMAIN store.dict THEN store.dict[x] ELSE 0
<1>1. /\ A \cap R = {} /\ D \subseteq R /\ A \subseteq writers[w].rows
      /\ DOMAIN store'.rows = (R \cup A) \ D
  BY RowsSorted, RowsWritten
<1>2. IsFiniteSet(R) /\ IsFiniteSet(A)
  BY <1>1, FS_Subset DEF RowsInv, WritersFit, CallFits, StoreFits
<1>3. /\ \A k \in R : k.kind = "t" => DictKey(k) \in DOMAIN store.dict
      /\ \A x \in DOMAIN store.dict : store.dict[x] = Cardinality(OfTerm(R, x))
  BY DEF RowsInv, RowsConsistent, OfTerm
<1>4. store'.dict = Put(store.dict, [x \in touched |-> FullMerge(before(x), Delta(w, x))])
  BY RowsWritten DEF DictAfter
<1>5. \A x : Delta(w, x) = Cardinality(OfTerm(A, x)) - Cardinality(OfTerm(D, x))
  BY DEF Delta, OfTerm
<1>6. \A k \in A \cup D : k.kind = "t" => DictKey(k) \in touched
  OBVIOUS
<1>7. \A x : x \notin touched => OfTerm(A, x) = {} /\ OfTerm(D, x) = {}
  BY <1>6 DEF OfTerm
<1>8. \A x : before(x) = IF x \in DOMAIN store.dict THEN store.dict[x] ELSE 0
  OBVIOUS
<1> HIDE DEF R, A, D, touched, before
<1>9. ASSUME NEW x
      PROVE  /\ before(x) = Cardinality(OfTerm(R, x))
             /\ FullMerge(before(x), Delta(w, x)) = Cardinality(OfTerm((R \cup A) \ D, x))
             /\ Cardinality(OfTerm((R \cup A) \ D, x))
                  = Cardinality(OfTerm(R, x)) + Delta(w, x)
  <2>1. /\ IsFiniteSet(OfTerm(R, x)) /\ IsFiniteSet(OfTerm(A, x))
        /\ OfTerm(A, x) \cap OfTerm(R, x) = {} /\ OfTerm(D, x) \subseteq OfTerm(R, x)
    BY <1>1, <1>2, FS_Subset DEF OfTerm
  <2>2. OfTerm((R \cup A) \ D, x) = (OfTerm(R, x) \cup OfTerm(A, x)) \ OfTerm(D, x)
    BY DEF OfTerm
  <2> DEFINE r == OfTerm(R, x)
             a == OfTerm(A, x)
             d == OfTerm(D, x)
  <2>3. IsFiniteSet(r) /\ IsFiniteSet(a) /\ a \cap r = {} /\ d \subseteq r
    BY <2>1
  <2>10. /\ Cardinality(r) \in Nat /\ Cardinality(a) \in Nat /\ Cardinality(d) \in Nat
         /\ Cardinality((r \cup a) \ d) \in Nat
         /\ Cardinality((r \cup a) \ d) = CountOf(r, a, d)
    <3> HIDE DEF r, a, d
    <3> QED
      BY <2>3, Exchanged
  <2>4. before(x) = Cardinality(r)
    BY <1>3, <1>8, FS_EmptySet DEF OfTerm
  <2>5. Delta(w, x) = Cardinality(a) - Cardinality(d)
    BY <1>5
  <2> HIDE DEF r, a, d
  <2>7. /\ Cardinality((r \cup a) \ d) = Cardinality(r) + Delta(w, x)
        /\ Delta(w, x) \in Int
    BY <2>10, <2>5 DEF CountOf
  <2>6. FullMerge(before(x), Delta(w, x)) = Cardinality((r \cup a) \ d)
    BY <2>10, <2>4, <2>7 DEF FullMerge
  <2> QED
    BY <2>2, <2>4, <2>6, <2>7 DEF r, a, d
<1>10. /\ DOMAIN store'.dict = DOMAIN store.dict \cup touched
       /\ \A x \in touched : store'.dict[x] = FullMerge(before(x), Delta(w, x))
       /\ \A x \in DOMAIN store.dict \ touched : store'.dict[x] = store.dict[x]
       /\ store'.dict = [x \in DOMAIN store'.dict |-> store'.dict[x]]
  BY <1>4 DEF Put
<1>11. ASSUME NEW x \in DOMAIN store'.dict
       PROVE  store'.dict[x] = Cardinality(OfTerm((R \cup A) \ D, x))
  <2>1. CASE x \in touched
    BY <1>9, <1>10, <2>1
  <2>2. CASE x \notin touched
    <3>1. OfTerm((R \cup A) \ D, x) = OfTerm(R, x)
      BY <1>7, <2>2 DEF OfTerm
    <3>2. x \in DOMAIN store.dict \ touched
      BY <1>10, <2>2
    <3> QED
      BY <1>3, <1>10, <3>1, <3>2
  <2> QED
    BY <2>1, <2>2
<1>12. ASSUME NEW k \in (R \cup A) \ D, k.kind = "t" PROVE DictKey(k) \in DOMAIN store'.dict
  BY <1>3, <1>6, <1>10, <1>12
<1> QED
  BY <1>1, <1>10, <1>11, <1>12

---------------------------------------------------------------------------
(* The invariant of the rows: the steps of a call *)

LEMMA RowsStay ==
  ASSUME RowsConsistent, store' = store
  PROVE  RowsConsistent'
<1>1. DOMAIN store.rows = UNION {store.back[d] : d \in DOMAIN store.back}
  BY DEF RowsConsistent
<1>2. ASSUME NEW k PROVE k \in DOMAIN store'.rows <=>
                           k \in UNION {store'.back[d] : d \in DOMAIN store'.back}
  BY <1>1
<1>3. ASSUME NEW x \in DOMAIN store'.dict
      PROVE  store'.dict[x] = Cardinality(OfTerm(DOMAIN store'.rows, x))
  BY DEF RowsConsistent, OfTerm
<1>4. \A k \in DOMAIN store'.rows : k.kind = "t" => DictKey(k) \in DOMAIN store'.dict
  BY DEF RowsConsistent
<1> QED
  BY <1>2, <1>3, <1>4 DEF RowsConsistent, OfTerm

\* A step of a call that leaves the store alone.
LEMMA CallKeeps ==
  ASSUME RowsInv, NEW w \in Writers, WritersFit',
         \A v \in Writers : v # w => writers'[v] = writers[v],
         UNCHANGED <<store, docCount>>,
         writers[w].pc # "written", writers'[w].pc # "written",
         writers'[w].pc = "found" =>
           /\ lock' = w
           /\ writers'[w].old = [d \in DOMAIN writers'[w].batch |->
                                   IF d \in DOMAIN store.back THEN store.back[d] ELSE Missing],
         \A v \in Writers : v # w /\ writers[v].pc \in {"found", "written"} => lock' = v
  PROVE  RowsInv'
<1>1. StoreFits' /\ RowsConsistent'
  BY RowsStay DEF RowsInv, StoreFits
<1>2. Locked'
  BY DEF Locked
<1>3. ASSUME NEW v \in Writers, writers'[v].pc = "found"
      PROVE  writers'[v].old = [d \in DOMAIN writers'[v].batch |->
                                  IF d \in DOMAIN store.back THEN store.back[d] ELSE Missing]
  BY <1>3 DEF RowsInv, LookedUp
<1>4. LookedUp'
  BY <1>3 DEF LookedUp
<1>5. CountFits'
  BY DEF Updated, Added, Removed, RowsInv, CountFits
<1> QED
  BY <1>1, <1>2, <1>4, <1>5 DEF RowsInv


LEMMA BeginKeepsRows ==
  ASSUME UpsidedownAssumption, RowsInv, NEW w \in Writers, Begin(w)
  PROVE  RowsInv'
<1>1. PICK D \in SUBSET DocIDs \ {{}} : \E batch \in [D -> Contents \cup {Deleted}] :
        writers' = [writers EXCEPT ![w] =
              [IdleWriter EXCEPT
                 !.pc = "running", !.batch = batch, !.version = clock + 1,
                 !.left = {x \in D \X Names : batch[x[1]] # Deleted
                             /\ \E e \in batch[x[1]] : e[2] = x[2]}]]
  BY DEF Begin
<1>2. PICK batch \in [D -> Contents \cup {Deleted}] :
        writers' = [writers EXCEPT ![w] =
              [IdleWriter EXCEPT
                 !.pc = "running", !.batch = batch, !.version = clock + 1,
                 !.left = {x \in D \X Names : batch[x[1]] # Deleted
                             /\ \E e \in batch[x[1]] : e[2] = x[2]}]]
  BY <1>1
<1> DEFINE left == {x \in D \X Names : batch[x[1]] # Deleted /\ \E e \in batch[x[1]] : e[2] = x[2]}
           c == [IdleWriter EXCEPT !.pc = "running", !.batch = batch, !.version = clock + 1,
                                   !.left = left]
<1>3. /\ c = [pc |-> c.pc, batch |-> c.batch, version |-> c.version, left |-> c.left,
              rows |-> c.rows, fields |-> c.fields, old |-> c.old]
      /\ c.pc = "running" /\ c.batch = batch /\ c.left = left /\ c.rows = {}
  <2> HIDE DEF left
  <2> DEFINE version == clock + 1
  <2>1. c = [IdleWriter EXCEPT !.pc = "running", !.batch = batch, !.version = version,
                               !.left = left]
    OBVIOUS
  <2> HIDE DEF c, version
  <2> QED
    BY <2>1 DEF IdleWriter
<1>4. /\ D \subseteq DocIDs /\ DOMAIN batch = D /\ writers' = [writers EXCEPT ![w] = c]
      /\ batch \in [DOMAIN batch -> Contents \cup {Deleted}]
  BY <1>2
<1>5. \A x \in left : x = <<x[1], x[2]>> /\ x[1] \in D /\ batch[x[1]] # Deleted /\ x[2] \in Names
  OBVIOUS
<1> HIDE DEF left, c
<1>6. IsCall(c)
  BY <1>3, <1>4 DEF IsCall
<1>7. CallFits(c)
  BY <1>3, <1>4, <1>5, FS_EmptySet DEF Indexed, CallFits
<1>8. /\ WritersFit' /\ writers'[w] = c
      /\ \A v \in Writers : v # w => writers'[v] = writers[v]
  BY <1>4, <1>6, <1>7, OneCall DEF RowsInv
<1>9. writers[w].pc = "idle" /\ UNCHANGED <<store, docCount, lock>>
  BY DEF Begin
<1>10. \A v \in Writers : v # w /\ writers[v].pc \in {"found", "written"} => lock' = v
  BY <1>9 DEF RowsInv, Locked
<1> QED
  BY <1>3, <1>8, <1>9, <1>10, CallKeeps


LEMMA OneChanges ==
  ASSUME WritersFit, NEW w \in Writers, writers' = [v \in Writers |-> writers'[v]],
         \A v \in Writers : v # w => writers'[v] = writers[v],
         IsCall(writers'[w]), CallFits(writers'[w])
  PROVE  WritersFit'
BY DEF WritersFit

\* What analyzing a field does to the call.
IndexOf(name) == IF name \in DOMAIN cache THEN cache[name] ELSE NextIndex
Mine(w, d, name) == {e \in writers[w].batch[d] : e[2] = name}
RowsMade(w, d, name) == {RowKey(d, e[1], IndexOf(name), e[3]) : e \in Mine(w, d, name)}

LEMMA FieldAnalyzed ==
  ASSUME WritersFit, NEW w \in Writers, NEW d, NEW name, AnalyzeField(w, d, name)
  PROVE  /\ writers' = [v \in Writers |-> writers'[v]]
         /\ \A v \in Writers : v # w => writers'[v] = writers[v]
         /\ writers'[w] = [pc |-> writers'[w].pc, batch |-> writers'[w].batch,
                           version |-> writers'[w].version, left |-> writers'[w].left,
                           rows |-> writers'[w].rows, fields |-> writers'[w].fields,
                           old |-> writers'[w].old]
         /\ writers'[w].pc = writers[w].pc /\ writers'[w].batch = writers[w].batch
         /\ writers'[w].version = writers[w].version /\ writers'[w].old = writers[w].old
         /\ writers'[w].left = writers[w].left \ {<<d, name>>}
         /\ writers'[w].rows = writers[w].rows \cup RowsMade(w, d, name)
         /\ writers'[w].fields = writers[w].fields \cup NewFieldRow(name)
         /\ <<d, name>> \in writers[w].left /\ writers[w].pc \in {"running", "found"}
         /\ d \in DOMAIN writers[w].batch /\ writers[w].batch[d] # Deleted
         /\ writers[w].batch[d] \in Contents /\ name \in Names
         /\ cache' = Put(cache, [n \in {name} |-> IndexOf(name)])
         /\ UNCHANGED <<store, docCount, lock, clock, committed>>
<1> DEFINE made == RowsMade(w, d, name)
           new == NewFieldRow(name)
<1>1. /\ writers' = [writers EXCEPT ![w].left = @ \ {<<d, name>>},
                                    ![w].rows = @ \cup made,
                                    ![w].fields = @ \cup new]
      /\ <<d, name>> \in writers[w].left
      /\ cache' = Put(cache, [n \in {name} |-> IndexOf(name)])
      /\ UNCHANGED <<store, docCount, lock, clock, committed>>
  BY DEF AnalyzeField, RowsMade, IndexOf, Mine
<1>2. /\ IsCall(writers[w]) /\ CallFits(writers[w])
      /\ writers = [v \in Writers |-> writers[v]]
  BY DEF WritersFit
<1> HIDE DEF made, new
<1>3. /\ writers' = [v \in Writers |-> writers'[v]]
      /\ \A v \in Writers : v # w => writers'[v] = writers[v]
  BY <1>1, <1>2
<1>4. writers'[w] = [pc |-> writers[w].pc, batch |-> writers[w].batch,
                     version |-> writers[w].version,
                     left |-> writers[w].left \ {<<d, name>>},
                     rows |-> writers[w].rows \cup made,
                     fields |-> writers[w].fields \cup new,
                     old |-> writers[w].old]
  BY <1>1, <1>2 DEF IsCall
<1>5. /\ writers[w].pc \in {"running", "found"} /\ d \in DOMAIN writers[w].batch
      /\ writers[w].batch[d] # Deleted /\ name \in Names
  BY <1>1, <1>2 DEF IsCall, CallFits, Indexed
<1>6. writers[w].batch[d] \in Contents
  BY <1>2, <1>5 DEF IsCall
<1>7. /\ writers'[w] = [pc |-> writers'[w].pc, batch |-> writers'[w].batch,
                         version |-> writers'[w].version, left |-> writers'[w].left,
                         rows |-> writers'[w].rows, fields |-> writers'[w].fields,
                         old |-> writers'[w].old]
      /\ writers'[w].pc = writers[w].pc /\ writers'[w].batch = writers[w].batch
      /\ writers'[w].version = writers[w].version /\ writers'[w].old = writers[w].old
      /\ writers'[w].left = writers[w].left \ {<<d, name>>}
      /\ writers'[w].rows = writers[w].rows \cup made
      /\ writers'[w].fields = writers[w].fields \cup new
  BY <1>4
<1> QED
  BY <1>1, <1>3, <1>5, <1>6, <1>7 DEF made, new

LEMMA AnalyzeFieldKeepsRows ==
  ASSUME UpsidedownAssumption, RowsInv, NEW w \in Writers, NEW d, NEW name,
         AnalyzeField(w, d, name)
  PROVE  RowsInv'
<1>1. WritersFit
  BY DEF RowsInv
<1> DEFINE c == writers'[w]
<1>2. /\ writers' = [v \in Writers |-> writers'[v]]
      /\ \A v \in Writers : v # w => writers'[v] = writers[v]
      /\ writers[w].pc \in {"running", "found"} /\ d \in DOMAIN writers[w].batch
      /\ writers[w].batch[d] # Deleted /\ writers[w].batch[d] \in Contents
      /\ UNCHANGED <<store, docCount, lock>>
  BY <1>1, FieldAnalyzed
<1>3. /\ c = [pc |-> c.pc, batch |-> c.batch, version |-> c.version, left |-> c.left,
              rows |-> c.rows, fields |-> c.fields, old |-> c.old]
      /\ c.pc = writers[w].pc /\ c.batch = writers[w].batch /\ c.old = writers[w].old
      /\ c.left \subseteq writers[w].left
  BY <1>1, FieldAnalyzed
<1>4. c.rows = writers[w].rows \cup RowsMade(w, d, name)
  BY <1>1, FieldAnalyzed
<1> HIDE DEF c
<1>5. IsFiniteSet(RowsMade(w, d, name)) /\ \A k \in RowsMade(w, d, name) : k.doc = d
  <2> DEFINE mine == Mine(w, d, name)
             f == [e \in mine |-> RowKey(d, e[1], IndexOf(name), e[3])]
  <2>1. IsFiniteSet(writers[w].batch[d])
    BY <1>2 DEF UpsidedownAssumption
  <2>2. IsFiniteSet(mine)
    BY <2>1, FS_Subset DEF Mine
  <2>3. f \in Surjection(mine, RowsMade(w, d, name))
    BY DEF Surjection, RowsMade
  <2>4. IsFiniteSet(RowsMade(w, d, name))
    <3> HIDE DEF f, mine
    <3> QED
      BY <2>2, <2>3, FS_Surjection
  <2>5. \A k \in RowsMade(w, d, name) : k.doc = d
    BY DEF RowsMade, RowKey
  <2> QED
    BY <2>4, <2>5
<1>6. IsCall(writers[w]) /\ CallFits(writers[w])
  BY <1>1 DEF WritersFit
<1>7. IsCall(c)
  BY <1>3, <1>6 DEF IsCall
<1>8. Indexed(c) = Indexed(writers[w]) /\ d \in Indexed(c)
  BY <1>2, <1>3 DEF Indexed
<1>9. CallFits(c)
  <2>1. IsFiniteSet(c.rows)
    BY <1>6, <1>5, FS_Union, <1>4 DEF CallFits
  <2>2. \A k \in c.rows : k.doc \in Indexed(c)
    BY <1>4, <1>5, <1>6, <1>8 DEF CallFits
  <2> QED
    BY <1>2, <1>3, <1>6, <1>8, <2>1, <2>2 DEF CallFits
<1>10. WritersFit'
  BY <1>1, <1>2, <1>7, <1>9, OneChanges DEF c
<1>11. c.pc = "found" =>
         /\ lock' = w
         /\ c.old = [x \in DOMAIN c.batch |->
                       IF x \in DOMAIN store.back THEN store.back[x] ELSE Missing]
  BY <1>2, <1>3 DEF RowsInv, Locked, LookedUp
<1>12. \A v \in Writers : v # w /\ writers[v].pc \in {"found", "written"} => lock' = v
  BY <1>2 DEF RowsInv, Locked
<1> QED
  BY <1>2, <1>3, <1>10, <1>11, <1>12, CallKeeps DEF c

LEMMA LockKeepsRows ==
  ASSUME UpsidedownAssumption, RowsInv, NEW w \in Writers, Lock(w)
  PROVE  RowsInv'
<1>1. /\ writers[w].pc \in {"running", "found"} /\ lock = NoWriter /\ lock' = w
      /\ UNCHANGED <<store, docCount, writers>>
  BY DEF Lock
<1>2. WritersFit'
  BY <1>1 DEF RowsInv, WritersFit
<1>3. writers[w].pc = "found" =>
        writers[w].old = [d \in DOMAIN writers[w].batch |->
                            IF d \in DOMAIN store.back THEN store.back[d] ELSE Missing]
  BY DEF RowsInv, LookedUp
<1>4. \A v \in Writers : writers[v].pc \in {"found", "written"} => lock = v
  BY DEF RowsInv, Locked
<1>5. NoWriter \notin Writers
  BY DEF UpsidedownAssumption, NoWriter
<1> QED
  BY <1>1, <1>2, <1>3, <1>4, <1>5, CallKeeps

LEMMA LookUpKeepsRows ==
  ASSUME UpsidedownAssumption, RowsInv, NEW w \in Writers, LookUp(w)
  PROVE  RowsInv'
<1> DEFINE found == [d \in DOMAIN writers[w].batch |->
                       IF d \in DOMAIN store.back THEN store.back[d] ELSE Missing]
           c == writers'[w]
<1>1. /\ writers' = [writers EXCEPT ![w].pc = "found", ![w].old = found]
      /\ writers[w].pc = "running" /\ lock = w /\ UNCHANGED <<store, docCount, lock>>
  BY DEF LookUp, MayLookUp
<1>2. /\ IsCall(writers[w]) /\ CallFits(writers[w]) /\ WritersFit
      /\ writers = [v \in Writers |-> writers[v]]
  BY DEF RowsInv, WritersFit
<1> HIDE DEF found
<1>3. /\ writers' = [v \in Writers |-> writers'[v]]
      /\ \A v \in Writers : v # w => writers'[v] = writers[v]
      /\ c = [pc |-> c.pc, batch |-> c.batch, version |-> c.version, left |-> c.left,
              rows |-> c.rows, fields |-> c.fields, old |-> c.old]
      /\ c.pc = "found" /\ c.old = found /\ c.batch = writers[w].batch
      /\ c.left = writers[w].left /\ c.rows = writers[w].rows
  BY <1>1, <1>2 DEF IsCall
<1> HIDE DEF c
<1>4. IsCall(c)
  BY <1>2, <1>3 DEF IsCall
<1>5. CallFits(c)
  BY <1>2, <1>3 DEF CallFits, Indexed
<1>6. WritersFit'
  BY <1>2, <1>3, <1>4, <1>5, OneChanges DEF c
<1>7. c.old = [d \in DOMAIN c.batch |->
                 IF d \in DOMAIN store.back THEN store.back[d] ELSE Missing]
  BY <1>3 DEF found
<1>8. \A v \in Writers : v # w /\ writers[v].pc \in {"found", "written"} => lock' = v
  BY <1>1 DEF RowsInv, Locked
<1> QED
  BY <1>1, <1>3, <1>6, <1>7, <1>8, CallKeeps DEF c

LEMMA RefusedKeepsRows ==
  ASSUME UpsidedownAssumption, RowsInv, NEW w \in Writers, Refused(w)
  PROVE  RowsInv'
<1>1. /\ writers[w].pc = "found" /\ lock = w /\ lock' = NoWriter
      /\ writers' = [writers EXCEPT ![w] = IdleWriter] /\ UNCHANGED <<store, docCount>>
  BY DEF Refused
<1>2. /\ WritersFit' /\ writers'[w] = IdleWriter
      /\ \A v \in Writers : v # w => writers'[v] = writers[v]
  BY <1>1, NoCall, OneCall DEF RowsInv
<1>3. \A v \in Writers : v # w => writers[v].pc \notin {"found", "written"}
  BY <1>1 DEF RowsInv, Locked
<1> QED
  BY <1>1, <1>2, <1>3, NoCall, CallKeeps

LEMMA WriteKeepsRows ==
  ASSUME UpsidedownAssumption, RowsInv, NEW w \in Writers, Write(w)
  PROVE  RowsInv'
<1> DEFINE c == writers'[w]
<1>1. /\ writers[w].pc = "found" /\ lock = w /\ writers[w].left = {}
      /\ store' = BatchRows(w) /\ writers' = [writers EXCEPT ![w].pc = "written"]
      /\ UNCHANGED <<docCount, lock>>
  BY DEF Write
<1>2. /\ IsCall(writers[w]) /\ CallFits(writers[w]) /\ WritersFit /\ StoreFits /\ RowsConsistent
      /\ writers = [v \in Writers |-> writers[v]]
  BY DEF RowsInv, WritersFit
<1>3. /\ writers' = [v \in Writers |-> writers'[v]]
      /\ \A v \in Writers : v # w => writers'[v] = writers[v]
      /\ c = [pc |-> c.pc, batch |-> c.batch, version |-> c.version, left |-> c.left,
              rows |-> c.rows, fields |-> c.fields, old |-> c.old]
      /\ c.pc = "written" /\ c.old = writers[w].old /\ c.batch = writers[w].batch
      /\ c.left = writers[w].left /\ c.rows = writers[w].rows
  BY <1>1, <1>2 DEF IsCall
<1> HIDE DEF c
<1>4. IsCall(c)
  BY <1>2, <1>3 DEF IsCall
<1>5. CallFits(c)
  BY <1>1, <1>2, <1>3 DEF CallFits, Indexed
<1>6. WritersFit'
  BY <1>2, <1>3, <1>4, <1>5, OneChanges DEF c
<1>7. \A v \in Writers : v # w => writers[v].pc \notin {"found", "written"}
  BY <1>1 DEF RowsInv, Locked
<1>8. Locked' /\ LookedUp'
  BY <1>1, <1>3, <1>7 DEF Locked, LookedUp, c
<1> DEFINE added   == {d \in Updated(w) : writers[w].old[d] = Missing}
           removed == {d \in DOMAIN writers[w].batch \ Updated(w) : writers[w].old[d] # Missing}
<1>9. /\ DOMAIN store'.back = (DOMAIN store.back \cup added) \ removed
      /\ DOMAIN store'.back = (DOMAIN store.back \ DOMAIN writers[w].batch) \cup Updated(w)
      /\ \A d \in DOMAIN store'.back :
           store'.back[d] = IF d \in Updated(w) THEN NewRows(w, d) ELSE store.back[d]
  BY <1>1, BackWritten
<1>10. /\ DOMAIN store'.rows =
            {k \in DOMAIN store.rows : k.doc \notin DOMAIN writers[w].batch} \cup writers[w].rows
       /\ store' = [fields |-> store'.fields, rows |-> store'.rows, back |-> store'.back,
                    dict |-> store'.dict]
  BY <1>1, RowsWritten
<1>11. Updated(w) \subseteq DOMAIN writers[w].batch /\ DOMAIN writers[w].batch \subseteq DocIDs
  BY <1>2 DEF Updated, IsCall
<1>12. /\ \A d \in DOMAIN writers[w].batch :
            writers[w].old[d] = Missing <=> d \notin DOMAIN store.back
       /\ \A r \in DOMAIN store.rows : r.doc \in DOMAIN store.back /\ r \in store.back[r.doc]
  BY <1>1, OldIsStored
<1>13. StoreFits'
  <2>1. DOMAIN store'.back \subseteq DocIDs
    BY <1>2, <1>9, <1>11 DEF StoreFits
  <2>2. IsFiniteSet(DOMAIN store'.rows)
    <3> DEFINE others == {k \in DOMAIN store.rows : k.doc \notin DOMAIN writers[w].batch}
    <3>1. IsFiniteSet(DOMAIN store.rows) /\ IsFiniteSet(writers[w].rows)
      BY <1>2 DEF StoreFits, CallFits
    <3>2. IsFiniteSet(others)
      BY <3>1, FS_Subset
    <3> HIDE DEF others
    <3>3. IsFiniteSet(others \cup writers[w].rows)
      BY <3>1, <3>2, FS_Union
    <3> QED
      BY <1>10, <3>3 DEF others
  <2>3. \A d \in DOMAIN store'.back : \A k \in store'.back[d] : k.doc = d
    <3>1. ASSUME NEW d \in DOMAIN store'.back, NEW k \in store'.back[d], d \in Updated(w)
          PROVE  k.doc = d
      BY <1>9, <3>1 DEF NewRows
    <3>2. ASSUME NEW d \in DOMAIN store'.back, NEW k \in store'.back[d], d \notin Updated(w)
          PROVE  k.doc = d
      BY <1>2, <1>9, <3>2 DEF StoreFits
    <3> QED
      BY <3>1, <3>2
  <2>4. store'.dict = [x \in DOMAIN store'.dict |-> store'.dict[x]]
    BY <1>1, DictWritten
  <2> QED
    BY <1>10, <2>1, <2>2, <2>3, <2>4 DEF StoreFits
<1>14. RowsConsistent'
  <2>1. ASSUME NEW k
        PROVE  k \in DOMAIN store'.rows <=>
                 k \in UNION {store'.back[d] : d \in DOMAIN store'.back}
    <3>1. \A r \in writers[w].rows : r.doc \in Updated(w) /\ r \in NewRows(w, r.doc)
      BY <1>1, RowsSorted DEF NewRows
    <3>2. CASE k \in writers[w].rows
      BY <1>9, <1>10, <3>1, <3>2
    <3>3. CASE k \notin writers[w].rows
      <4>1. ASSUME k \in DOMAIN store'.rows
            PROVE  k.doc \in DOMAIN store'.back /\ k \in store'.back[k.doc]
        BY <1>9, <1>10, <1>11, <1>12, <3>3, <4>1
      <4>2. ASSUME NEW d \in DOMAIN store'.back, k \in store'.back[d]
            PROVE  k \in DOMAIN store'.rows
        <5>1. d \notin Updated(w) /\ d \in DOMAIN store.back /\ k \in store.back[d]
          BY <1>9, <3>3, <4>2 DEF NewRows
        <5>2. k \in DOMAIN store.rows /\ k.doc = d
          BY <1>2, <5>1 DEF RowsConsistent, StoreFits
        <5> QED
          BY <1>9, <1>10, <5>1, <5>2
      <4> QED
        BY <4>1, <4>2
    <3> QED
      BY <3>2, <3>3
  <2>2. /\ \A k \in DOMAIN store'.rows : k.kind = "t" => DictKey(k) \in DOMAIN store'.dict
        /\ \A x \in DOMAIN store'.dict :
             store'.dict[x] = Cardinality(OfTerm(DOMAIN store'.rows, x))
    BY <1>1, DictWritten
  <2>3. \A x \in DOMAIN store'.dict :
             store'.dict[x] = Cardinality({k \in DOMAIN store'.rows : k.kind = "t" /\ DictKey(k) = x})
    BY <2>2 DEF OfTerm
  <2> QED
    BY <2>1, <2>2, <2>3 DEF RowsConsistent
<1>15. CountFits'
  <2>1. docCount \in Int /\ docCount = Cardinality(DOMAIN store.back)
    BY <1>1, <1>7 DEF RowsInv, CountFits
  <2>2. /\ IsFiniteSet(DOMAIN store.back) /\ IsFiniteSet(added)
        /\ added \cap DOMAIN store.back = {} /\ removed \subseteq DOMAIN store.back
    <3>1. added \subseteq DocIDs /\ DOMAIN store.back \subseteq DocIDs
      BY <1>2, <1>11 DEF StoreFits
    <3>2. IsFiniteSet(DOMAIN store.back) /\ IsFiniteSet(added)
      <4> HIDE DEF added
      <4> QED
        BY <3>1, FS_Subset DEF UpsidedownAssumption
    <3> QED
      BY <1>11, <1>12, <3>2
  <2>3. Cardinality(added) = Added(w) /\ Cardinality(removed) = Removed(w)
    BY DEF Added, Removed
  <2> HIDE DEF added, removed
  <2>4. Cardinality(DOMAIN store'.back) = CountOf(DOMAIN store.back, added, removed)
    BY <1>9, <2>2, Exchanged
  <2>5. docCount + Added(w) - Removed(w) = Cardinality(DOMAIN store'.back)
    BY <2>1, <2>3, <2>4 DEF CountOf
  <2>6. Added(w)' = Added(w) /\ Removed(w)' = Removed(w)
    BY <1>3 DEF Updated, c, Added, Removed
  <2>7. \A v \in Writers : writers'[v].pc = "written" => v = w
    BY <1>3, <1>7
  <2>8. writers'[w].pc = "written"
    BY <1>3 DEF c
  <2> QED
    BY <1>1, <2>1, <2>5, <2>6, <2>7, <2>8 DEF CountFits
<1> QED
  BY <1>6, <1>8, <1>13, <1>14, <1>15 DEF RowsInv

LEMMA ReturnKeepsRows ==
  ASSUME UpsidedownAssumption, RowsInv, NEW w \in Writers, Return(w)
  PROVE  RowsInv'
<1>1. /\ writers[w].pc = "written" /\ lock' = NoWriter
      /\ docCount' = docCount + Added(w) - Removed(w)
      /\ writers' = [writers EXCEPT ![w] = IdleWriter] /\ store' = store
  BY DEF Return
<1>2. /\ WritersFit' /\ writers'[w] = IdleWriter
      /\ \A v \in Writers : v # w => writers'[v] = writers[v]
  BY <1>1, NoCall, OneCall DEF RowsInv
<1>3. \A v \in Writers : writers'[v].pc \notin {"found", "written"}
  BY <1>1, <1>2, NoCall DEF RowsInv, Locked
<1>4. StoreFits' /\ RowsConsistent'
  BY <1>1, RowsStay DEF RowsInv, StoreFits
<1>5. Locked' /\ LookedUp'
  BY <1>3 DEF Locked, LookedUp
<1>6. CountFits'
  <2>1. docCount' = Cardinality(DOMAIN store.back)
    BY <1>1 DEF RowsInv, CountFits
  <2>2. Cardinality(DOMAIN store.back) \in Nat
    BY FS_Subset, FS_CardinalityType DEF RowsInv, StoreFits, UpsidedownAssumption
  <2>3. docCount' \in Int /\ docCount' = Cardinality(DOMAIN store'.back)
    BY <1>1, <2>1, <2>2
  <2> QED
    BY <1>3, <2>3 DEF CountFits
<1> QED
  BY <1>2, <1>4, <1>5, <1>6 DEF RowsInv

LEMMA CrashKeepsRows ==
  ASSUME UpsidedownAssumption, RowsInv, CrashAndOpen
  PROVE  RowsInv'
<1>1. /\ docCount' = Cardinality(DOMAIN store.back)
      /\ writers' = [w \in Writers |-> IdleWriter] /\ store' = store
  BY DEF CrashAndOpen
<1>2. WritersFit' /\ \A w \in Writers : writers'[w] = IdleWriter
  BY <1>1, AllIdle
<1>3. \A v \in Writers : writers'[v].pc \notin {"found", "written"}
  BY <1>2, NoCall
<1>4. StoreFits' /\ RowsConsistent'
  <2>1. StoreFits'
    BY <1>1 DEF RowsInv, StoreFits
  <2>2. RowsConsistent'
    BY <1>1, RowsStay DEF RowsInv
  <2> QED
    BY <2>1, <2>2
<1>5. Locked' /\ LookedUp'
  BY <1>3 DEF Locked, LookedUp
<1>6. CountFits'
  <2>1. Cardinality(DOMAIN store.back) \in Nat
    BY FS_Subset, FS_CardinalityType DEF RowsInv, StoreFits, UpsidedownAssumption
  <2>2. docCount' \in Int /\ docCount' = Cardinality(DOMAIN store'.back)
    BY <1>1, <2>1
  <2> QED
    BY <1>3, <2>2 DEF CountFits
<1> QED
  BY <1>2, <1>4, <1>5, <1>6 DEF RowsInv

LEMMA StutterKeepsRows ==
  ASSUME RowsInv, UNCHANGED vars
  PROVE  RowsInv'
<1>1. /\ store' = store /\ docCount' = docCount /\ lock' = lock /\ writers' = writers
  BY DEF vars
<1>2. WritersFit'
  BY <1>1 DEF RowsInv, WritersFit
<1>3. StoreFits' /\ Locked'
  BY <1>1 DEF RowsInv, StoreFits, Locked
<1>4. RowsConsistent'
  BY <1>1, RowsStay DEF RowsInv
<1>5. LookedUp'
  BY <1>1 DEF RowsInv, LookedUp
<1>6. CountFits'
  BY <1>1 DEF Updated, Added, Removed, RowsInv, CountFits
<1> QED
  BY <1>2, <1>3, <1>4, <1>5, <1>6 DEF RowsInv

LEMMA RowsHoldAtFirst ==
  ASSUME UpsidedownAssumption, Init
  PROVE  RowsInv
<1>1. /\ store = [fields |-> <<>>, rows |-> <<>>, back |-> <<>>, dict |-> <<>>]
      /\ docCount = 0 /\ writers = [w \in Writers |-> IdleWriter]
  BY DEF Init
<1>2. /\ DOMAIN store.rows = {} /\ DOMAIN store.back = {} /\ DOMAIN store.dict = {}
      /\ store.dict = <<>>
  BY <1>1
<1>3. WritersFit /\ \A w \in Writers : writers[w].pc = "idle"
  BY <1>1, NoCall DEF WritersFit
<1>4. StoreFits
  BY <1>1, <1>2, FS_EmptySet DEF StoreFits
<1>5. Locked /\ LookedUp
  BY <1>3 DEF Locked, LookedUp
<1>6. CountFits
  BY <1>1, <1>2, FS_EmptySet, <1>3 DEF CountFits
<1>7. RowsConsistent
  BY <1>2 DEF RowsConsistent
<1> QED
  BY <1>3, <1>4, <1>5, <1>6, <1>7 DEF RowsInv

LEMMA StepKeepsRows ==
  ASSUME UpsidedownAssumption, RowsInv, [Next]_vars
  PROVE  RowsInv'
<1>1. CASE UNCHANGED vars
  BY <1>1, StutterKeepsRows
<1>2. ASSUME NEW w \in Writers,
             Begin(w) \/ Lock(w) \/ LookUp(w) \/ Write(w) \/ Return(w) \/ Refused(w)
      PROVE  RowsInv'
  BY <1>2, BeginKeepsRows, LockKeepsRows, LookUpKeepsRows, WriteKeepsRows, ReturnKeepsRows,
     RefusedKeepsRows
<1>3. ASSUME NEW w \in Writers, NEW d, NEW name, AnalyzeField(w, d, name) PROVE RowsInv'
  BY <1>3, AnalyzeFieldKeepsRows
<1>4. CASE CrashAndOpen
  BY <1>4, CrashKeepsRows
<1> QED
  BY <1>1, <1>2, <1>3, <1>4 DEF Next

THEOREM RowsInvariant ==
  ASSUME UpsidedownAssumption
  PROVE  Spec => []RowsInv
<1>1. Init => RowsInv
  BY RowsHoldAtFirst
<1>2. RowsInv /\ [Next]_vars => RowsInv'
  BY StepKeepsRows
<1> QED
  BY <1>1, <1>2, PTL DEF Spec

---------------------------------------------------------------------------
(* Facts of contents and of numbers *)

\* A set of natural numbers that is bounded has a largest one.
LEMMA LargestExists ==
  ASSUME NEW S, S \subseteq Nat, S # {}, NEW b \in Nat, \A x \in S : x <= b
  PROVE  Max(S) \in S /\ \A x \in S : x <= Max(S)
<1> DEFINE T == {b - x : x \in S}
           R == OpToRel(<, Nat)
<1>1. \E t \in T : \A u \in T : ~ (<<u, t>> \in R)
  <2>1. IsWellFoundedOn(R, Nat)
    BY NatLessThanWellFounded
  <2>2. T \subseteq Nat /\ T # {}
    <3>1. \A x \in S : b - x \in Nat
      OBVIOUS
    <3> QED
      BY <3>1
  <2> HIDE DEF R, T
  <2> QED
    BY <2>1, <2>2, WFMin
<1>2. \A t, u \in Nat : u < t => <<u, t>> \in R
  BY DEF OpToRel
<1> HIDE DEF R
<1>3. PICK t \in T : \A u \in T : ~ (<<u, t>> \in R)
  BY <1>1
<1>4. PICK x \in S : t = b - x
  BY <1>3
<1>5. ASSUME NEW y \in S PROVE x >= y
  <2>1. b - y \in T /\ b - y \in Nat /\ t \in Nat
    BY <1>4
  <2>2. ~ (b - y < t)
    <3> HIDE DEF T
    <3> QED
      BY <1>2, <1>3, <2>1
  <2> QED
    BY <1>4, <2>2
<1>6. \E z \in S : \A y \in S : z >= y
  BY <1>5
<1>7. Max(S) \in S /\ \A y \in S : Max(S) >= y
  BY <1>6 DEF Max
<1> QED
  BY <1>7

\* The number of a new field is larger than all that are given.
LEMMA NextIndexIsNew ==
  ASSUME NumbersFit
  PROVE  NextIndex \in Nat /\ \A n \in DOMAIN cache : cache[n] < NextIndex
<1> DEFINE S == {cache[n] : n \in DOMAIN cache}
<1>1. CASE DOMAIN cache = {}
  <2>1. cache = <<>>
    BY <1>1 DEF NumbersFit
  <2> QED
    BY <1>1, <2>1 DEF NextIndex
<1>2. CASE DOMAIN cache # {}
  <2>1. cache # <<>>
    BY <1>2
  <2>2. PICK b \in Nat : \A n \in DOMAIN cache : cache[n] <= b
    BY DEF NumbersFit
  <2>3. S \subseteq Nat /\ S # {} /\ \A x \in S : x <= b
    BY <1>2, <2>2 DEF NumbersFit
  <2>4. Max(S) \in Nat /\ \A x \in S : x <= Max(S)
    <3> HIDE DEF S
    <3> QED
      BY <2>3, LargestExists
  <2>5. NextIndex = Max(S) + 1
    BY <2>1 DEF NextIndex
  <2>6. \A n \in DOMAIN cache : cache[n] \in S /\ cache[n] \in Nat
    BY DEF NumbersFit
  <2> HIDE DEF S
  <2> QED
    BY <2>4, <2>5, <2>6
<1> QED
  BY <1>1, <1>2

\* Rows mean the same while the numbers of their fields do.
LEMMA SameRows ==
  ASSUME NEW g, NEW h, NEW c, NEW d, Named(g, c), DOMAIN g \subseteq DOMAIN h,
         \A n \in DOMAIN g : h[n] = g[n]
  PROVE  Named(h, c) /\ RowsIn(h, d, c) = RowsIn(g, d, c)
<1>1. \A e \in c : e[2] \in DOMAIN g /\ h[e[2]] = g[e[2]]
  BY DEF Named
<1>2. Named(h, c)
  BY <1>1 DEF Named
<1>3. ASSUME NEW k PROVE k \in RowsIn(h, d, c) <=> k \in RowsIn(g, d, c)
  BY <1>1 DEF RowsIn
<1> QED
  BY <1>2, <1>3

CacheGrows == DOMAIN cache \subseteq DOMAIN cache' /\ \A n \in DOMAIN cache : cache'[n] = cache[n]

\* What has been analyzed of a call that is left alone.
AnalyzedCall(w) ==
  writers[w].pc \in {"running", "found"} => \A d \in Updated(w) :
    Named(cache, Done(w, d)) /\ NewRows(w, d) = RowsIn(cache, d, Done(w, d))

LEMMA AnalysisKept ==
  ASSUME NEW w, AnalyzedCall(w), writers'[w] = writers[w], CacheGrows
  PROVE  AnalyzedCall(w)'
<1>1. Updated(w)' = Updated(w)
  BY DEF Updated
<1>2. ASSUME NEW d PROVE Done(w, d)' = Done(w, d) /\ NewRows(w, d)' = NewRows(w, d)
  BY DEF Done, NewRows
<1>3. ASSUME NEW d \in Updated(w), writers[w].pc \in {"running", "found"}
      PROVE  Named(cache, Done(w, d))' /\ NewRows(w, d)' = RowsIn(cache, d, Done(w, d))'
  BY <1>3, SameRows, <1>2 DEF AnalyzedCall, CacheGrows
<1> QED
  BY <1>1, <1>3 DEF AnalyzedCall

\* The contents of the store, too.
LEMMA ContentKept ==
  ASSUME ContentFits, UNCHANGED <<store, committed>>, CacheGrows
  PROVE  ContentFits'
<1>1. ASSUME NEW d \in DocIDs
      PROVE  /\ Named(cache', committed[d].content)
             /\ Stored(d)' = Stored(d)
             /\ RowsIn(cache', d, committed[d].content) = RowsIn(cache, d, committed[d].content)
  BY SameRows DEF Stored, ContentFits, CacheGrows
<1>2. committed' = committed /\ store' = store
  OBVIOUS
<1> QED
  BY <1>1, <1>2 DEF ContentFits

---------------------------------------------------------------------------
(* The invariant of the contents: the steps of a call *)

\* A step of a call that leaves the store and the cache alone.
LEMMA CallKeepsContent ==
  ASSUME ContentInv, NEW w \in Writers,
         \A v \in Writers : v # w => writers'[v] = writers[v],
         UNCHANGED <<store, cache, committed>>, AnalyzedCall(w)',
         writers'[w].fields \subseteq writers[w].fields,
         Alone /\ writers[w].pc \in {"running", "found"} =>
           /\ writers'[w].pc \in {"running", "found"}
           /\ writers'[w].fields = writers[w].fields
  PROVE  ContentInv'
<1>1. CacheGrows /\ cache' = cache /\ store' = store /\ committed' = committed
  BY DEF CacheGrows
<1>2. NumbersFit'
  BY <1>1 DEF ContentInv, NumbersFit
<1>3. \A v \in Writers : v # w => AnalyzedCall(v)'
  BY <1>1, AnalysisKept DEF ContentInv, Analyzed, AnalyzedCall
<1>4. Analyzed'
  BY <1>3 DEF Analyzed, AnalyzedCall
<1>5. ContentFits'
  BY <1>1, ContentKept DEF ContentInv
<1>6. ASSUME Alone PROVE FieldsWritten'
  <2>1. FieldsWritten
    BY <1>6 DEF ContentInv
  <2> QED
    BY <1>1, <1>6, <2>1 DEF FieldsWritten, FieldRowsThere
<1> QED
  BY <1>2, <1>4, <1>5, <1>6 DEF ContentInv

LEMMA BeginKeepsContent ==
  ASSUME UpsidedownAssumption, RowsInv, ContentInv, NEW w \in Writers, Begin(w)
  PROVE  ContentInv'
<1>1. PICK D \in SUBSET DocIDs \ {{}} : \E batch \in [D -> Contents \cup {Deleted}] :
        writers' = [writers EXCEPT ![w] =
              [IdleWriter EXCEPT
                 !.pc = "running", !.batch = batch, !.version = clock + 1,
                 !.left = {x \in D \X Names : batch[x[1]] # Deleted
                             /\ \E e \in batch[x[1]] : e[2] = x[2]}]]
  BY DEF Begin
<1>2. PICK batch \in [D -> Contents \cup {Deleted}] :
        writers' = [writers EXCEPT ![w] =
              [IdleWriter EXCEPT
                 !.pc = "running", !.batch = batch, !.version = clock + 1,
                 !.left = {x \in D \X Names : batch[x[1]] # Deleted
                             /\ \E e \in batch[x[1]] : e[2] = x[2]}]]
  BY <1>1
<1> DEFINE left == {x \in D \X Names : batch[x[1]] # Deleted /\ \E e \in batch[x[1]] : e[2] = x[2]}
           version == clock + 1
<1>3. writers' = [writers EXCEPT ![w] = [IdleWriter EXCEPT
                    !.pc = "running", !.batch = batch, !.version = version, !.left = left]]
  BY <1>2
<1>4. \A d \in D : batch[d] # Deleted => batch[d] \in Contents
  OBVIOUS
<1>5. ASSUME NEW d \in D, batch[d] # Deleted, NEW e \in batch[d]
      PROVE  <<d, e[2]>> \in left
  <2>1. e[2] \in Names
    BY <1>4, <1>5 DEF UpsidedownAssumption
  <2>2. <<d, e[2]>> \in D \X Names
    BY <2>1
  <2> QED
    BY <1>5, <2>2
<1>6. DOMAIN batch = D /\ writers = [v \in Writers |-> writers[v]]
  BY DEF RowsInv, WritersFit
<1> HIDE DEF left, version
<1>7. /\ \A v \in Writers : v # w => writers'[v] = writers[v]
      /\ writers'[w].batch = batch /\ writers'[w].left = left
      /\ writers'[w].rows = {} /\ writers'[w].fields = {}
  BY <1>3, <1>6 DEF IdleWriter
<1>8. AnalyzedCall(w)'
  BY <1>6, <1>7, <1>5 DEF Updated, Done, NewRows, Named, RowsIn, AnalyzedCall
<1>9. writers[w].pc = "idle" /\ UNCHANGED <<store, cache, committed>>
  BY DEF Begin
<1> QED
  BY <1>7, <1>8, <1>9, CallKeepsContent

LEMMA LockKeepsContent ==
  ASSUME ContentInv, NEW w \in Writers, Lock(w)
  PROVE  ContentInv'
<1>1. UNCHANGED <<store, cache, committed, writers>>
  BY DEF Lock
<1>2. AnalyzedCall(w)'
  BY <1>1, AnalysisKept DEF ContentInv, Analyzed, AnalyzedCall, CacheGrows
<1> QED
  BY <1>1, <1>2, CallKeepsContent

LEMMA LookUpKeepsContent ==
  ASSUME RowsInv, ContentInv, NEW w \in Writers, LookUp(w)
  PROVE  ContentInv'
<1> DEFINE found == [d \in DOMAIN writers[w].batch |->
                       IF d \in DOMAIN store.back THEN store.back[d] ELSE Missing]
<1>1. /\ writers' = [writers EXCEPT ![w].pc = "found", ![w].old = found]
      /\ writers[w].pc = "running" /\ UNCHANGED <<store, cache, committed>>
  BY DEF LookUp
<1>2. IsCall(writers[w]) /\ writers = [v \in Writers |-> writers[v]]
  BY DEF RowsInv, WritersFit
<1> HIDE DEF found
<1>3. /\ \A v \in Writers : v # w => writers'[v] = writers[v]
      /\ writers'[w].pc = "found" /\ writers'[w].batch = writers[w].batch
      /\ writers'[w].left = writers[w].left /\ writers'[w].rows = writers[w].rows
      /\ writers'[w].fields = writers[w].fields
  BY <1>1, <1>2 DEF IsCall
<1>4. AnalyzedCall(w)'
  <2>1. \A d \in Updated(w) : Named(cache, Done(w, d)) /\ NewRows(w, d) = RowsIn(cache, d, Done(w, d))
    BY <1>1 DEF ContentInv, Analyzed
  <2>2. Updated(w)' = Updated(w)
    BY <1>3 DEF Updated
  <2>3. ASSUME NEW d PROVE Done(w, d)' = Done(w, d) /\ NewRows(w, d)' = NewRows(w, d)
    BY <1>3 DEF Done, NewRows
  <2>4. cache' = cache
    BY <1>1
  <2> QED
    BY <2>1, <2>2, <2>3, <2>4 DEF AnalyzedCall
<1> QED
  BY <1>1, <1>3, <1>4, CallKeepsContent

\* A call that is over.
LEMMA EndKeepsContent ==
  ASSUME RowsInv, ContentInv, NEW w \in Writers, writers' = [writers EXCEPT ![w] = IdleWriter],
         UNCHANGED <<store, cache, committed>>,
         Alone => writers[w].pc \notin {"running", "found"}
  PROVE  ContentInv'
<1>1. /\ \A v \in Writers : v # w => writers'[v] = writers[v]
      /\ writers'[w] = IdleWriter
  BY NoCall, OneCall DEF RowsInv
<1>2. writers'[w].pc = "idle" /\ writers'[w].fields = {}
  BY <1>1, NoCall
<1>3. AnalyzedCall(w)'
  BY <1>2 DEF AnalyzedCall
<1> QED
  BY <1>1, <1>2, <1>3, CallKeepsContent

LEMMA ReturnKeepsContent ==
  ASSUME RowsInv, ContentInv, NEW w \in Writers, Return(w)
  PROVE  ContentInv'
BY EndKeepsContent DEF Return

LEMMA RefusedKeepsContent ==
  ASSUME RowsInv, ContentInv, NEW w \in Writers, Refused(w)
  PROVE  ContentInv'
BY EndKeepsContent DEF Refused, Alone

LEMMA StutterKeepsContent ==
  ASSUME ContentInv, UNCHANGED vars
  PROVE  ContentInv'
<1>1. CacheGrows /\ UNCHANGED <<store, cache, committed, writers>>
  BY DEF CacheGrows, vars
<1>2. NumbersFit'
  BY <1>1 DEF ContentInv, NumbersFit
<1>3. \A v \in Writers : AnalyzedCall(v)'
  BY <1>1, AnalysisKept DEF ContentInv, Analyzed, AnalyzedCall
<1>4. ContentFits'
  BY <1>1, ContentKept DEF ContentInv
<1>5. Alone => FieldsWritten'
  BY <1>1 DEF ContentInv, FieldsWritten, FieldRowsThere
<1> QED
  BY <1>2, <1>3, <1>4, <1>5 DEF ContentInv, Analyzed, AnalyzedCall

LEMMA AnalyzeFieldKeepsContent ==
  ASSUME UpsidedownAssumption, RowsInv, ContentInv, NEW w \in Writers, NEW d, NEW name,
         AnalyzeField(w, d, name)
  PROVE  ContentInv'
<1>1. WritersFit /\ NumbersFit /\ Analyzed /\ ContentFits
  BY DEF RowsInv, ContentInv
<1>2. /\ \A v \in Writers : v # w => writers'[v] = writers[v]
      /\ writers'[w].pc = writers[w].pc /\ writers'[w].batch = writers[w].batch
      /\ writers'[w].left = writers[w].left \ {<<d, name>>}
      /\ <<d, name>> \in writers[w].left /\ writers[w].pc \in {"running", "found"}
      /\ d \in DOMAIN writers[w].batch /\ writers[w].batch[d] # Deleted /\ name \in Names
      /\ cache' = Put(cache, [n \in {name} |-> IndexOf(name)])
      /\ store' = store /\ committed' = committed
  BY <1>1, FieldAnalyzed
<1>3. /\ writers'[w].rows = writers[w].rows \cup RowsMade(w, d, name)
      /\ writers'[w].fields = writers[w].fields \cup NewFieldRow(name)
  BY <1>1, FieldAnalyzed
<1>4. NextIndex \in Nat /\ \A n \in DOMAIN cache : cache[n] \in Nat /\ cache[n] < NextIndex
  BY <1>1, NextIndexIsNew DEF NumbersFit
<1>5. /\ cache' = [n \in DOMAIN cache' |-> cache'[n]]
      /\ DOMAIN cache' = DOMAIN cache \cup {name}
      /\ cache'[name] = IndexOf(name)
      /\ \A n \in DOMAIN cache : n # name => cache'[n] = cache[n]
  BY <1>2 DEF Put
<1>6. CacheGrows
  BY <1>5 DEF CacheGrows, IndexOf
<1>7. name \notin DOMAIN cache => cache'[name] = NextIndex
  BY <1>5 DEF IndexOf
<1>8. NumbersFit'
  <2>1. \A n \in DOMAIN cache' : cache'[n] \in Nat
    BY <1>4, <1>5, <1>6, <1>7 DEF CacheGrows
  <2>2. \E b \in Nat : \A n \in DOMAIN cache' : cache'[n] <= b
    BY <1>4, <1>5, <1>6, <1>7 DEF CacheGrows
  <2>3. ASSUME NEW n \in DOMAIN cache', NEW m \in DOMAIN cache', cache'[n] = cache'[m]
        PROVE  n = m
    BY <1>1, <1>6, <2>3, <1>5, <1>7, <1>4 DEF CacheGrows, NumbersFit
  <2>4. \A i \in DOMAIN store'.fields : /\ store'.fields[i] \in DOMAIN cache'
                                        /\ cache'[store'.fields[i]] = i
    BY <1>1, <1>2, <1>6 DEF CacheGrows, NumbersFit
  <2>5. ASSUME NEW v \in Writers, NEW f \in writers'[v].fields
        PROVE  f = <<f[1], f[2]>> /\ f[2] \in DOMAIN cache' /\ cache'[f[2]] = f[1]
    BY <1>1, <1>6, <1>2, <1>3, <2>5, <1>5, <1>7 DEF CacheGrows, NumbersFit, NewFieldRow
  <2>6. DOMAIN cache' \subseteq Names
    BY <1>1, <1>2, <1>5 DEF NumbersFit
  <2> QED
    BY <1>5, <2>1, <2>2, <2>3, <2>4, <2>5, <2>6 DEF NumbersFit
<1>9. AnalyzedCall(w)'
  <2>1. Updated(w)' = Updated(w)
    BY <1>2 DEF Updated
  <2>2. ASSUME NEW x \in Updated(w)
        PROVE  /\ Named(cache', Done(w, x)) /\ NewRows(w, x) = RowsIn(cache', x, Done(w, x))
    BY <1>1, <1>2, <1>6, SameRows DEF Analyzed, CacheGrows
  <2>3. \A k \in RowsMade(w, d, name) : k.doc = d
    BY DEF RowsMade, RowKey
  <2>4. ASSUME NEW x \in Updated(w), x # d
        PROVE  Done(w, x)' = Done(w, x) /\ NewRows(w, x)' = NewRows(w, x)
    BY <1>2, <2>4, <1>3, <2>3 DEF Done, NewRows
  <2>5. /\ Done(w, d)' = Done(w, d) \cup Mine(w, d, name)
        /\ NewRows(w, d)' = NewRows(w, d) \cup RowsMade(w, d, name)
    BY <1>2, <1>3, <2>3 DEF Done, Mine, NewRows
  <2>6. /\ Named(cache', Mine(w, d, name))
        /\ RowsMade(w, d, name) = RowsIn(cache', d, Mine(w, d, name))
    BY <1>5 DEF Mine, RowsMade, RowsIn, Named
  <2>7. ASSUME NEW A, NEW B, NEW x, Named(cache', A), Named(cache', B)
        PROVE  /\ Named(cache', A \cup B)
               /\ RowsIn(cache', x, A \cup B) = RowsIn(cache', x, A) \cup RowsIn(cache', x, B)
    BY <2>7 DEF RowsIn, Named
  <2>8. ASSUME NEW x \in Updated(w)
        PROVE  /\ Named(cache', Done(w, x)') /\ NewRows(w, x)' = RowsIn(cache', x, Done(w, x)')
    <3>1. CASE x # d
      BY <2>2, <2>4, <3>1
    <3>2. CASE x = d
      BY <2>2, <3>2, <2>6, <2>7, <2>5
    <3> QED
      BY <3>1, <3>2
  <2> QED
    BY <2>1, <2>8 DEF AnalyzedCall
<1>10. Analyzed'
  BY <1>1, <1>2, <1>6, AnalysisKept, <1>9 DEF Analyzed, AnalyzedCall
<1>11. ContentFits'
  BY <1>1, <1>2, <1>6, ContentKept
<1>12. ASSUME Alone PROVE FieldsWritten'
  BY <1>12, <1>2, <1>6, <1>3, <1>5, <1>7 DEF ContentInv, FieldsWritten, FieldRowsThere,
     CacheGrows, NewFieldRow
<1> QED
  BY <1>8, <1>10, <1>11, <1>12 DEF ContentInv

\* The field rows after a write: what its call has numbered is among them.
LEMMA FieldsPut ==
  ASSUME ContentInv, NEW w \in Writers, store' = BatchRows(w)
  PROVE  /\ DOMAIN store'.fields = DOMAIN store.fields \cup {f[1] : f \in writers[w].fields}
         /\ \A i \in DOMAIN store'.fields : /\ store'.fields[i] \in DOMAIN cache
                                            /\ cache[store'.fields[i]] = i
<1> DEFINE new == {f[1] : f \in writers[w].fields}
           g == [i \in new |-> (CHOOSE f \in writers[w].fields : f[1] = i)[2]]
<1>1. store'.fields = Put(store.fields, g)
  BY DEF BatchRows
<1>2. ASSUME NEW i \in new PROVE g[i] \in DOMAIN cache /\ cache[g[i]] = i
  <2>1. \E f \in writers[w].fields : f[1] = i
    OBVIOUS
  <2>2. PICK f \in writers[w].fields : f[1] = i /\ g[i] = f[2]
    BY <2>1
  <2> QED
    BY <2>2 DEF ContentInv, NumbersFit
<1>3. DOMAIN g = new
  OBVIOUS
<1> HIDE DEF g, new
<1>4. /\ DOMAIN store'.fields = DOMAIN store.fields \cup new
      /\ \A i \in DOMAIN store'.fields :
           store'.fields[i] = IF i \in new THEN g[i] ELSE store.fields[i]
  BY <1>1, <1>3 DEF Put
<1>5. ASSUME NEW i \in DOMAIN store'.fields
      PROVE  store'.fields[i] \in DOMAIN cache /\ cache[store'.fields[i]] = i
  BY <1>2, <1>4 DEF ContentInv, NumbersFit
<1> QED
  BY <1>4, <1>5 DEF new

LEMMA WriteKeepsContent ==
  ASSUME UpsidedownAssumption, RowsInv, ContentInv, NEW w \in Writers, Write(w)
  PROVE  ContentInv'
<1>1. /\ writers[w].pc = "found" /\ writers[w].left = {} /\ store' = BatchRows(w)
      /\ writers' = [writers EXCEPT ![w].pc = "written"] /\ cache' = cache
      /\ committed' = [d \in DocIDs |->
           IF d \notin DOMAIN writers[w].batch THEN committed[d]
           ELSE [content |-> IF d \in Updated(w) THEN writers[w].batch[d] ELSE {},
                 version |-> IF d \in Updated(w) THEN writers[w].version ELSE 0]]
  BY DEF Write
<1>2. IsCall(writers[w]) /\ writers = [v \in Writers |-> writers[v]]
  BY DEF RowsInv, WritersFit
<1>3. /\ \A v \in Writers : v # w => writers'[v] = writers[v]
      /\ writers'[w].pc = "written" /\ writers'[w].fields = writers[w].fields
  BY <1>1, <1>2 DEF IsCall
<1>4. /\ DOMAIN store.fields \subseteq DOMAIN store'.fields
      /\ \A f \in writers[w].fields : f[1] \in DOMAIN store'.fields
      /\ \A i \in DOMAIN store'.fields : /\ store'.fields[i] \in DOMAIN cache
                                         /\ cache[store'.fields[i]] = i
  BY <1>1, FieldsPut
<1>5. NumbersFit'
  BY <1>1, <1>3, <1>4 DEF ContentInv, NumbersFit
<1>6. Analyzed'
  BY <1>1, <1>3, AnalysisKept DEF CacheGrows, ContentInv, Analyzed, AnalyzedCall
<1>7. ASSUME NEW d \in Updated(w)
      PROVE  /\ Named(cache, writers[w].batch[d])
             /\ NewRows(w, d) = RowsIn(cache, d, writers[w].batch[d])
  BY <1>1 DEF ContentInv, Analyzed, Done
<1>8. /\ DOMAIN store'.rows =
           {k \in DOMAIN store.rows : k.doc \notin DOMAIN writers[w].batch} \cup writers[w].rows
      /\ \A k \in DOMAIN store'.rows :
           store'.rows[k] = IF k \in writers[w].rows THEN writers[w].version ELSE store.rows[k]
  BY <1>1, RowsWritten
<1>9. /\ \A k \in writers[w].rows : k.doc \in Updated(w)
      /\ Updated(w) \subseteq DOMAIN writers[w].batch
  BY <1>1, RowsSorted
<1>10. ContentFits'
  <2>1. committed' = [d \in DocIDs |-> committed'[d]]
    BY <1>1
  <2>2. ASSUME NEW d \in DocIDs
        PROVE  /\ committed'[d] = [content |-> committed'[d].content,
                                   version |-> committed'[d].version]
               /\ committed'[d].content \in Contents \cup {{}}
               /\ Named(cache', committed'[d].content)
               /\ Stored(d)' = RowsIn(cache', d, committed'[d].content)
               /\ \A k \in Stored(d)' : store'.rows[k] = committed'[d].version
    <3>1. CASE d \notin DOMAIN writers[w].batch
      BY <1>1, <3>1, <1>8, <1>9 DEF Stored, ContentInv, ContentFits
    <3>2. CASE d \in Updated(w)
      BY <3>2, <1>1, <1>8, <1>2, <1>7 DEF Updated, Stored, NewRows, IsCall
    <3>3. CASE d \in DOMAIN writers[w].batch /\ d \notin Updated(w)
      <4>1. committed'[d] = [content |-> {}, version |-> 0]
        BY <1>1, <3>3
      <4>2. Stored(d)' = {}
        BY <1>8, <1>9, <3>3 DEF Stored
      <4>3. Named(cache', {}) /\ RowsIn(cache', d, {}) = {}
        BY DEF Named, RowsIn
      <4> QED
        BY <4>1, <4>2, <4>3
    <3> QED
      BY <3>1, <3>2, <3>3
  <2> QED
    BY <2>1, <2>2 DEF ContentFits
<1>11. ASSUME Alone PROVE FieldsWritten'
  <2>1. FieldsWritten /\ \A v \in Writers : v = w
    BY <1>11 DEF ContentInv, Alone
  <2>2. ASSUME NEW n \in DOMAIN cache PROVE cache[n] \in DOMAIN store'.fields
    <3>1. CASE cache[n] \in DOMAIN store.fields
      BY <1>4, <3>1
    <3>2. CASE <<cache[n], n>> \in writers[w].fields
      BY <1>4, <3>2
    <3> QED
      BY <2>1, <3>1, <3>2 DEF FieldsWritten
  <2>3. ASSUME NEW k \in DOMAIN store'.rows PROVE k.field \in DOMAIN store'.fields
    <3>1. CASE k \in writers[w].rows
      <4>1. k.doc \in Updated(w) /\ k \in NewRows(w, k.doc)
        BY <1>9, <3>1 DEF NewRows
      <4>2. PICK e \in writers[w].batch[k.doc] : k = RowKey(k.doc, e[1], cache[e[2]], e[3])
        BY <1>7, <4>1 DEF RowsIn
      <4>3. e[2] \in DOMAIN cache
        BY <1>7, <4>1 DEF Named
      <4>4. k.field = cache[e[2]]
        BY <4>2 DEF RowKey
      <4> QED
        BY <2>2, <4>3, <4>4
    <3>2. CASE k \in DOMAIN store.rows
      BY <1>4, <2>1, <3>2 DEF FieldsWritten, FieldRowsThere
    <3> QED
      BY <1>8, <3>1, <3>2
  <2> QED
    BY <1>1, <2>2, <2>3 DEF FieldsWritten, FieldRowsThere
<1> QED
  BY <1>5, <1>6, <1>10, <1>11 DEF ContentInv

\* A crash forgets the fields that have no row: with one writer no row of the
\* store is of such a field.
LEMMA CrashKeepsContent ==
  ASSUME UpsidedownAssumption, ContentInv, CrashAndOpen, Alone
  PROVE  ContentInv'
<1> DEFINE stored == {store.fields[i] : i \in DOMAIN store.fields}
<1>1. /\ cache' = [n \in stored |-> CHOOSE i \in DOMAIN store.fields : store.fields[i] = n]
      /\ writers' = [w \in Writers |-> IdleWriter] /\ store' = store /\ committed' = committed
  BY DEF CrashAndOpen
<1>2. NumbersFit /\ ContentFits /\ FieldsWritten
  BY DEF ContentInv
<1>3. ASSUME NEW n \in stored
      PROVE  /\ n \in DOMAIN cache /\ cache'[n] = cache[n] /\ cache'[n] \in DOMAIN store.fields
  <2>1. \E i \in DOMAIN store.fields : store.fields[i] = n
    OBVIOUS
  <2>2. PICK i \in DOMAIN store.fields : store.fields[i] = n /\ cache'[n] = i
    BY <1>1, <2>1
  <2> QED
    BY <1>2, <2>2 DEF NumbersFit
<1>4. \A i \in DOMAIN store.fields : store.fields[i] \in stored
  OBVIOUS
<1>5. DOMAIN cache' = stored /\ cache' = [n \in DOMAIN cache' |-> cache'[n]]
  BY <1>1
<1>6. \A w \in Writers : writers'[w].fields = {} /\ writers'[w].pc = "idle"
  BY <1>1, NoCall
<1> HIDE DEF stored
<1>7. NumbersFit'
  <2>1. DOMAIN cache' \subseteq Names /\ \A n \in DOMAIN cache' : cache'[n] \in Nat
    BY <1>2, <1>3, <1>5 DEF NumbersFit
  <2>2. \E b \in Nat : \A n \in DOMAIN cache' : cache'[n] <= b
    BY <1>2, <1>3, <1>5 DEF NumbersFit
  <2>3. \A n, m \in DOMAIN cache' : cache'[n] = cache'[m] => n = m
    BY <1>2, <1>3, <1>5 DEF NumbersFit
  <2>4. \A i \in DOMAIN store'.fields : /\ store'.fields[i] \in DOMAIN cache'
                                        /\ cache'[store'.fields[i]] = i
    BY <1>1, <1>2, <1>3, <1>4, <1>5 DEF NumbersFit
  <2> QED
    BY <1>5, <1>6, <2>1, <2>2, <2>3, <2>4 DEF NumbersFit
<1>8. Analyzed'
  BY <1>6 DEF Analyzed
<1>9. \A d \in DocIDs : Stored(d)' = Stored(d)
  BY <1>1 DEF Stored
<1>10. ASSUME NEW d \in DocIDs
       PROVE  /\ Named(cache', committed[d].content)
              /\ RowsIn(cache', d, committed[d].content) = RowsIn(cache, d, committed[d].content)
  <2> DEFINE c == committed[d].content
  <2>1. Named(cache, c) /\ Stored(d) = RowsIn(cache, d, c)
    BY <1>2 DEF ContentFits
  <2>2. ASSUME NEW e \in c PROVE e[2] \in DOMAIN cache'
    <3>1. RowKey(d, e[1], cache[e[2]], e[3]) \in DOMAIN store.rows
      BY <2>1 DEF RowsIn, Stored
    <3>2. RowKey(d, e[1], cache[e[2]], e[3]).field = cache[e[2]]
      BY DEF RowKey
    <3>3. cache[e[2]] \in DOMAIN store.fields
      BY <1>2, <3>1, <3>2 DEF FieldsWritten, FieldRowsThere
    <3>4. e[2] \in DOMAIN cache
      BY <2>1 DEF Named
    <3>5. store.fields[cache[e[2]]] = e[2]
      BY <1>2, <3>3, <3>4 DEF NumbersFit
    <3> QED
      BY <1>4, <1>5, <3>3, <3>5
  <2>3. Named(cache', c)
    BY <2>2 DEF Named
  <2> HIDE DEF c
  <2>4. RowsIn(cache, d, c) = RowsIn(cache', d, c)
    BY <1>3, <1>5, <2>3, SameRows
  <2> QED
    BY <2>3, <2>4 DEF c
<1>11. ContentFits'
  BY <1>1, <1>2, <1>9, <1>10 DEF ContentFits
<1>12. FieldsWritten'
  BY <1>1, <1>2, <1>3, <1>5 DEF FieldsWritten, FieldRowsThere
<1> QED
  BY <1>7, <1>8, <1>11, <1>12 DEF ContentInv

LEMMA ContentHoldsAtFirst ==
  ASSUME UpsidedownAssumption, Init
  PROVE  ContentInv
<1>1. /\ store = [fields |-> <<>>, rows |-> <<>>, back |-> <<>>, dict |-> <<>>]
      /\ cache = <<>> /\ writers = [w \in Writers |-> IdleWriter]
      /\ committed = [d \in DocIDs |-> [content |-> {}, version |-> 0]]
  BY DEF Init
<1>2. DOMAIN store.rows = {} /\ DOMAIN store.fields = {} /\ DOMAIN cache = {}
  BY <1>1
<1>3. \A w \in Writers : writers[w].pc = "idle" /\ writers[w].fields = {}
  BY <1>1, NoCall
<1>4. NumbersFit
  BY <1>1, <1>2, <1>3 DEF NumbersFit
<1>5. Analyzed
  BY <1>3 DEF Analyzed
<1>6. ContentFits
  BY <1>2, <1>1 DEF Stored, Named, RowsIn, ContentFits
<1>7. FieldsWritten
  BY <1>2 DEF FieldsWritten, FieldRowsThere
<1> QED
  BY <1>4, <1>5, <1>6, <1>7 DEF ContentInv

LEMMA StepKeepsContent ==
  ASSUME UpsidedownAssumption, ~MayCrash \/ Alone, RowsInv, ContentInv, [Next]_vars
  PROVE  ContentInv'
<1>1. CASE UNCHANGED vars
  BY <1>1, StutterKeepsContent
<1>2. ASSUME NEW w \in Writers,
             Begin(w) \/ Lock(w) \/ LookUp(w) \/ Write(w) \/ Return(w) \/ Refused(w)
      PROVE  ContentInv'
  BY <1>2, BeginKeepsContent, LockKeepsContent, LookUpKeepsContent, WriteKeepsContent,
     ReturnKeepsContent, RefusedKeepsContent
<1>3. ASSUME NEW w \in Writers, NEW d, NEW name, AnalyzeField(w, d, name) PROVE ContentInv'
  BY <1>3, AnalyzeFieldKeepsContent
<1>4. CASE CrashAndOpen
  <2>1. Alone
    BY <1>4 DEF CrashAndOpen
  <2> QED
    BY <1>4, <2>1, CrashKeepsContent
<1> QED
  BY <1>1, <1>2, <1>3, <1>4 DEF Next

\* A number stands for one name, so that the rows say what was written.
LEMMA ContentsShown ==
  ASSUME UpsidedownAssumption, ContentInv
  PROVE  ContentFaithful
<1>1. NumbersFit /\ ContentFits
  BY DEF ContentInv
<1>2. ASSUME NEW d \in DocIDs, NEW x
      PROVE  x \in Found(d) <=> x \in committed[d].content
  <2> DEFINE c == committed[d].content
  <2>1. /\ c \in Contents \cup {{}} /\ Named(cache, c) /\ Stored(d) = RowsIn(cache, d, c)
    BY <1>1 DEF ContentFits
  <2>2. \A e \in c : e = <<e[1], e[2], e[3]>> /\ e[2] \in DOMAIN cache
    BY <2>1 DEF Named, UpsidedownAssumption
  <2>3. ASSUME NEW e \in c
        PROVE  LET k == RowKey(d, e[1], cache[e[2]], e[3])
               IN  /\ k.kind = e[1] /\ k.field = cache[e[2]] /\ k.term = e[3]
                   /\ FieldIndexed(k.field) = {e[2]}
    BY <1>1, <2>2 DEF FieldIndexed, NumbersFit, RowKey
  <2>4. ASSUME x \in c PROVE x \in Found(d)
    <3> DEFINE k == RowKey(d, x[1], cache[x[2]], x[3])
    <3>1. k \in Stored(d)
      BY <2>1, <2>4 DEF RowsIn
    <3>2. k.kind = x[1] /\ k.term = x[3] /\ FieldIndexed(k.field) = {x[2]}
      BY <2>3, <2>4
    <3>3. x = <<x[1], x[2], x[3]>>
      BY <2>2, <2>4
    <3> HIDE DEF k
    <3> QED
      BY <3>1, <3>2, <3>3 DEF Found, Stored
  <2>5. ASSUME x \in Found(d) PROVE x \in c
    <3>1. PICK k \in Stored(d) : \E n \in FieldIndexed(k.field) : x = <<k.kind, n, k.term>>
      BY <2>5 DEF Found, Stored
    <3>2. PICK e \in c : k = RowKey(d, e[1], cache[e[2]], e[3])
      BY <2>1 DEF RowsIn
    <3>3. x = <<e[1], e[2], e[3]>>
      BY <2>3, <3>1, <3>2
    <3> QED
      BY <2>2, <3>3
  <2> QED
    BY <2>4, <2>5
<1>3. ASSUME NEW d \in DocIDs, NEW k \in DOMAIN store.rows, k.doc = d
      PROVE  store.rows[k] = committed[d].version
  BY <1>1, <1>3 DEF ContentFits, Stored
<1> QED
  BY <1>2, <1>3 DEF ContentFaithful

THEOREM ContentInvariant ==
  ASSUME UpsidedownAssumption, ~MayCrash \/ Alone
  PROVE  Spec => [](RowsInv /\ ContentInv)
<1>1. Init => RowsInv /\ ContentInv
  BY RowsHoldAtFirst, ContentHoldsAtFirst
<1>2. RowsInv /\ ContentInv /\ [Next]_vars => (RowsInv /\ ContentInv)'
  BY StepKeepsRows, StepKeepsContent
<1> QED
  BY <1>1, <1>2, PTL DEF Spec

---------------------------------------------------------------------------
(* The theorems *)

\* upsidedown.go, row_merge.go: the back index lists exactly the rows
\* there are, every dictionary row counts the rows of its term, and the number
\* of documents is right whenever no write is between its commit and its count,
\* whatever the store refuses and whenever the process stops.
THEOREM RowsAlwaysConsistent ==
  ASSUME UpsidedownAssumption
  PROVE  Spec => [](RowsConsistent /\ CountExact)
<1>1. RowsInv => RowsConsistent /\ CountExact
  BY DEF RowsInv, CountFits, CountExact
<1> QED
  BY <1>1, RowsInvariant, PTL

\* upsidedown.go, field_cache.go, analysis.go: whatever writers analyze beside
\* each other and the store refuses, a reader finds of every document exactly
\* what its last write says; after a crash too with one writer that is never
\* refused, which has then a field row for every row.
THEOREM RowsAlwaysFaithful ==
  ASSUME UpsidedownAssumption
  PROVE  Spec => []RowsFaithful
<1>1. CASE ~MayCrash \/ Alone
  <2>1. RowsInv /\ ContentInv => RowsFaithful
    BY ContentsShown DEF RowsInv, CountFits, CountExact, ContentInv, FieldsWritten, RowsFaithful
  <2> QED
    BY <1>1, <2>1, ContentInvariant, PTL
<1>2. CASE ~ (~MayCrash \/ Alone)
  <2>1. RowsInv => RowsFaithful
    BY <1>2 DEF RowsInv, CountFits, CountExact, RowsFaithful
  <2> QED
    BY <2>1, RowsInvariant, PTL
<1> QED
  BY <1>1, <1>2

---------------------------------------------------------------------------
(* Readers: where one is in the postings *)

Reader ==
  [k : Kinds, left : [Segments -> SUBSET Docs], seg : Nat, curr : SUBSET Docs]

\* Of the documents H, those of segment i from document from on.
FromOn(H, i, from) == {e \in H : SegmentOf(e) = i /\ e >= from}

\* What reader o has left of the documents H: those from a document on, in the
\* segments that it has not passed.  The reader of all documents leaves nothing
\* behind in the ones it has.
Lefts(H, o, from) ==
  /\ o.seg >= 1
  /\ \A i \in Segments : i >= o.seg \/ o.k = AllDocs => o.left[i] = FromOn(H, i, from)
  /\ \A e \in H : e >= from => SegmentOf(e) >= o.seg

\* Its next document is the first of H from a document on; it is at the start,
\* behind the document it has answered, or at the end.
Placed(H, o, from) ==
  /\ Lefts(H, o, from)
  /\ \/ from = End
     \/ from = 0 /\ o.seg = 1 /\ o.curr = {}
     \/ from > 0 /\ o.curr = {from - 1} /\ o.seg <= SegmentOf(from - 1)

After(got) == IF got = End THEN End ELSE got + 1

\* A set of numbers has a least one.
LEMMA LeastFound ==
  ASSUME NEW S \in SUBSET Nat, S # {}
  PROVE  Min(S) \in S /\ \A x \in S : Min(S) <= x
<1>1. PICK m \in S : \A y \in S : <<y, m>> \notin OpToRel(<, Nat)
  BY NatLessThanWellFounded, WFMin
<1>2. \A y \in S : ~(y < m)
  BY <1>1 DEF OpToRel
<1>3. \A y \in S : m <= y
  BY <1>2
<1> QED
  BY <1>3 DEF Min

\* Every document is in a segment.
LEMMA SegmentFound ==
  ASSUME ReaderAssumption, NEW d \in Docs
  PROVE  /\ SegmentOf(d) \in Segments /\ Offsets[SegmentOf(d)] <= d
         /\ SegmentOf(d) = Len(Offsets) \/ d < Offsets[SegmentOf(d) + 1]
<1> DEFINE In(i) == Offsets[i] <= d /\ (i = Len(Offsets) \/ d < Offsets[i + 1])
           Behind == {i \in Segments : i = Len(Offsets) \/ d < Offsets[i + 1]}
<1>1. /\ d \in Nat /\ Len(Offsets) \in Nat /\ Len(Offsets) >= 1 /\ Offsets[1] = 0
      /\ \A i \in Segments : Offsets[i] \in Nat
  BY DEF ReaderAssumption, Docs, Segments
<1>2. Len(Offsets) \in Behind /\ Behind \in SUBSET Nat
  BY <1>1 DEF Segments
<1>3. Min(Behind) \in Behind /\ \A i \in Behind : Min(Behind) <= i
  BY <1>2, LeastFound
<1>4. PICK m \in Behind : \A i \in Behind : m <= i
  BY <1>3
<1>5. m \in Segments /\ (m = Len(Offsets) \/ d < Offsets[m + 1])
  BY <1>4
<1>6. Offsets[m] <= d
  <2>1. CASE m = 1
    BY <2>1, <1>1
  <2>2. CASE m # 1
    <3>1. m - 1 \in Segments /\ m - 1 # Len(Offsets) /\ (m - 1) + 1 = m /\ ~(m <= m - 1)
      BY <2>2, <1>5, <1>1 DEF Segments
    <3>2. m - 1 \notin Behind
      BY <3>1, <1>4
    <3>3. ~(d < Offsets[m])
      BY <3>1, <3>2
    <3> QED
      BY <3>3, <1>1, <1>5
  <2> QED
    BY <2>1, <2>2
<1>7. In(m)
  BY <1>5, <1>6
<1>8. In(SegmentOf(d)) /\ SegmentOf(d) \in Segments
  BY <1>7, <1>5 DEF SegmentOf
<1> QED
  BY <1>8

\* The segments are in the order of their documents.
LEMMA SegmentsOrdered ==
  ASSUME ReaderAssumption, NEW d \in Docs, NEW e \in Docs, d <= e
  PROVE  SegmentOf(d) <= SegmentOf(e)
<1> DEFINE i == SegmentOf(d)
           j == SegmentOf(e)
<1>1. /\ i \in Segments /\ Offsets[i] <= d
      /\ j \in Segments /\ (j = Len(Offsets) \/ e < Offsets[j + 1])
  BY SegmentFound
<1>2. d \in Nat /\ e \in Nat /\ Len(Offsets) \in Nat /\ \A n \in Segments : Offsets[n] \in Nat
  BY DEF ReaderAssumption, Docs, Segments
<1>3. SUFFICES ASSUME j < i PROVE FALSE
  BY <1>1 DEF Segments
<1> HIDE DEF i, j
<1>4. j # Len(Offsets) /\ j + 1 \in Segments /\ j + 1 <= i
  BY <1>1, <1>2, <1>3 DEF Segments
<1>5. Offsets[j + 1] <= Offsets[i]
  <2>1. CASE j + 1 = i
    BY <2>1, <1>1, <1>2
  <2>2. CASE j + 1 # i
    <3>1. j + 1 < i
      BY <2>2, <1>1, <1>2, <1>4 DEF Segments
    <3> QED
      BY <3>1, <1>1, <1>2, <1>4 DEF ReaderAssumption, Segments
  <2> QED
    BY <2>1, <2>2
<1> QED
  BY <1>1, <1>2, <1>4, <1>5

\* The first of a set of documents.
LEMMA FirstFound ==
  ASSUME ReaderAssumption, NEW S \in SUBSET Docs
  PROVE  /\ First(S) \in Nat
         /\ S = {} => First(S) = End
         /\ S # {} => First(S) \in S /\ \A e \in S : First(S) <= e
<1>1. End \in Nat /\ Docs \subseteq Nat
  BY DEF ReaderAssumption, End, Docs
<1>2. CASE S = {}
  BY <1>1, <1>2 DEF First
<1>3. CASE S # {}
  BY <1>1, <1>3, LeastFound DEF First
<1> QED
  BY <1>2, <1>3

\* What is the first of a set is said by its being first.
LEMMA FirstIs ==
  ASSUME ReaderAssumption, NEW S \in SUBSET Docs, NEW x \in S, \A e \in S : x <= e
  PROVE  First(S) = x
<1>1. First(S) \in S /\ \A e \in S : First(S) <= e
  BY FirstFound
<1>2. S \subseteq Nat
  BY DEF ReaderAssumption, Docs
<1>3. First(S) <= x /\ x <= First(S) /\ First(S) \in Nat /\ x \in Nat
  BY <1>1, <1>2
<1> QED
  BY <1>3

\* Next goes to the first document that is left, past the segments without any.
LEMMA NextFinds ==
  ASSUME ReaderAssumption, NEW H \in SUBSET Docs, NEW o \in Reader, NEW from \in Nat,
         Lefts(H, o, from)
  PROVE  /\ NextOf(o).obj \in Reader /\ NextOf(o).obj.k = o.k
         /\ NextOf(o).got = First({e \in H : e >= from})
         /\ Placed(H, NextOf(o).obj, After(NextOf(o).got))
<1> DEFINE later == {i \in o.seg..Len(Offsets) : o.left[i] # {}}
           ahead == {e \in H : e >= from}
<1>1. /\ Docs \subseteq Nat /\ Len(Offsets) \in Nat /\ End \in Nat /\ End = Total
      /\ \A e \in Docs : e < End
      /\ \A i \in Segments : i \in Nat /\ i >= 1 /\ i <= Len(Offsets)
      /\ \A i \in Nat : i >= 1 /\ i <= Len(Offsets) => i \in Segments
  BY DEF ReaderAssumption, Docs, Segments, End
<1>2. /\ o.seg \in Nat /\ o.seg >= 1 /\ o.left \in [Segments -> SUBSET Docs] /\ o.k \in Kinds
      /\ o.curr \in SUBSET Docs
      /\ \A i \in Segments : i >= o.seg \/ o.k = AllDocs => o.left[i] = FromOn(H, i, from)
      /\ \A e \in H : e >= from => SegmentOf(e) >= o.seg
  BY DEF Lefts, Reader
<1>3. \A e \in H : SegmentOf(e) \in Segments
  BY SegmentFound
<1>4. later \in SUBSET Nat /\ \A i \in later : i \in Segments /\ i >= o.seg /\ o.left[i] # {}
  BY <1>1, <1>2
<1>5. ahead \in SUBSET Docs
  OBVIOUS
<1>6. CASE later = {}
  <2>1. NextOf(o) = [obj |-> [o EXCEPT !.seg = Len(Offsets) + 1], got |-> End]
    BY <1>6 DEF NextOf
  <2> DEFINE p == [o EXCEPT !.seg = Len(Offsets) + 1]
  <2>2. /\ p \in Reader /\ p.k = o.k /\ p.seg = Len(Offsets) + 1 /\ p.left = o.left
    BY <1>1 DEF Reader
  <2>3. ahead = {}
    <3>1. SUFFICES ASSUME NEW e \in H, e >= from PROVE FALSE
      OBVIOUS
    <3>2. SegmentOf(e) \in Segments /\ SegmentOf(e) >= o.seg
      BY <3>1, <1>2, <1>3
    <3>3. e \in FromOn(H, SegmentOf(e), from)
      BY <3>1 DEF FromOn
    <3>4. SegmentOf(e) \in later
      BY <3>2, <3>3, <1>1, <1>2
    <3> QED
      BY <3>4, <1>6
  <2>4. First(ahead) = End
    BY <2>3, <1>5, FirstFound
  <2>5. Placed(H, p, End)
    <3>1. \A e \in H : e < End /\ e \in Nat
      BY <1>1
    <3>2. \A i \in Segments : FromOn(H, i, from) = {} /\ FromOn(H, i, End) = {}
      <4>1. \A e \in H : ~(e >= from) /\ ~(e >= End)
        BY <2>3, <3>1, <1>1
      <4> QED
        BY <4>1 DEF FromOn
    <3>3. \A i \in Segments : i >= p.seg \/ p.k = AllDocs => p.left[i] = FromOn(H, i, End)
      <4>1. \A i \in Segments : ~(i >= Len(Offsets) + 1)
        BY <1>1
      <4> HIDE DEF p
      <4> QED
        BY <4>1, <3>2, <2>2, <1>2
    <3>4. \A e \in H : ~(e >= End)
      BY <3>1, <1>1
    <3> HIDE DEF p
    <3> QED
      BY <3>3, <3>4, <2>2, <1>1 DEF Placed, Lefts
  <2> HIDE DEF p
  <2>6. NextOf(o).obj = p /\ NextOf(o).got = End
    BY <2>1 DEF p
  <2> QED
    BY <2>2, <2>4, <2>5, <2>6 DEF After
<1>7. CASE later # {}
  <2>1. PICK i \in later : i = Min(later) /\ \A j \in later : i <= j
    BY <1>4, <1>7, LeastFound
  <2>2. /\ i \in Segments /\ i >= o.seg /\ o.left[i] # {} /\ i \in Nat
        /\ o.left[i] = FromOn(H, i, from)
    BY <2>1, <1>1, <1>2, <1>4
  <2>3. o.left[i] \in SUBSET Nat
    BY <2>2, <1>1, <1>2
  <2>4. PICK d \in o.left[i] : d = Min(o.left[i]) /\ \A e \in o.left[i] : d <= e
    BY <2>2, <2>3, LeastFound
  <2>5. d \in H /\ d >= from /\ SegmentOf(d) = i /\ d \in Nat /\ d \in Docs /\ d < End
    BY <2>2, <2>4, <1>1 DEF FromOn
  <2> DEFINE p == [o EXCEPT !.seg = i, !.left[i] = @ \ {d}, !.curr = {d}]
  <2>6. NextOf(o) = [obj |-> p, got |-> d]
    BY <1>7, <2>1, <2>4 DEF NextOf
  <2>7. /\ p \in Reader /\ p.k = o.k /\ p.seg = i /\ p.curr = {d}
        /\ p.left[i] = o.left[i] \ {d} /\ \A j \in Segments \ {i} : p.left[j] = o.left[j]
    BY <2>2, <2>5, <1>2 DEF Reader
  <2> HIDE DEF p
  <2>8. ASSUME NEW e \in H, e >= from PROVE SegmentOf(e) >= i /\ d <= e
    <3>1. SegmentOf(e) \in Segments /\ SegmentOf(e) >= o.seg /\ SegmentOf(e) \in Nat
      BY <2>8, <1>1, <1>2, <1>3
    <3>2. e \in o.left[SegmentOf(e)]
      BY <2>8, <3>1, <1>2 DEF FromOn
    <3>3. SegmentOf(e) \in later
      BY <3>1, <3>2, <1>1
    <3>4. SegmentOf(e) >= i
      BY <3>1, <3>3, <2>1, <2>2
    <3>5. CASE SegmentOf(e) = i
      BY <3>2, <3>5, <2>4, <3>4
    <3>6. CASE SegmentOf(e) # i
      <4>1. ~(e <= d)
        <5>1. SUFFICES ASSUME e <= d PROVE FALSE
          OBVIOUS
        <5>2. SegmentOf(e) <= SegmentOf(d)
          BY <5>1, <2>5, SegmentsOrdered
        <5> QED
          BY <5>2, <2>5, <3>1, <3>4, <3>6, <2>2
      <4> QED
        BY <4>1, <2>5, <3>4, <1>1
    <3> QED
      BY <3>5, <3>6
  <2>9. d \in ahead /\ \A e \in ahead : d <= e
    BY <2>5, <2>8
  <2>10. First(ahead) = d
    <3> HIDE DEF ahead
    <3> QED
      BY <2>9, <1>5, FirstIs
  <2>11. Placed(H, p, d + 1)
    <3>1. ASSUME NEW j \in Segments, j >= i \/ o.k = AllDocs
          PROVE  p.left[j] = FromOn(H, j, d + 1)
      <4>1. CASE j = i
        <5>1. \A e : e \in FromOn(H, i, from) \ {d} <=> e \in FromOn(H, i, d + 1)
          <6>1. ASSUME NEW e \in H PROVE e >= from /\ e # d <=> e >= d + 1
            BY <1>1, <2>5, <2>8
          <6> QED
            BY <6>1 DEF FromOn
        <5> QED
          BY <5>1, <4>1, <2>2, <2>7
      <4>2. CASE j # i
        <5>1. p.left[j] = FromOn(H, j, from)
          <6>1. j \in Nat /\ o.seg \in Nat
            BY <1>1, <1>2
          <6>2. j >= o.seg \/ o.k = AllDocs
            BY <6>1, <3>1, <2>2
          <6>3. o.left[j] = FromOn(H, j, from)
            BY <6>2, <1>2
          <6>4. p.left[j] = o.left[j]
            BY <4>2, <2>2, <2>7, <1>1
          <6> HIDE DEF p
          <6> QED
            BY <6>3, <6>4
        <5>2. ASSUME NEW e \in H, SegmentOf(e) = j
              PROVE  e >= from <=> e >= d + 1
          <6>1. e \in Nat /\ e # d
            BY <5>2, <4>2, <2>5, <1>1
          <6> QED
            BY <6>1, <2>5, <2>8
        <5>3. \A e : e \in FromOn(H, j, from) <=> e \in FromOn(H, j, d + 1)
          BY <5>2 DEF FromOn
        <5> QED
          BY <5>1, <5>3
      <4> QED
        BY <4>1, <4>2
    <3>2. \A e \in H : e >= d + 1 => SegmentOf(e) >= i
      BY <2>5, <1>1, <2>8
    <3>3. d + 1 > 0 /\ (d + 1) - 1 = d /\ i <= SegmentOf(d)
      BY <2>5, <2>2
    <3>4. i >= 1
      BY <2>2, <1>1
    <3>5. Lefts(H, p, d + 1)
      BY <3>1, <3>2, <3>4, <2>7 DEF Lefts
    <3> QED
      BY <3>3, <3>5, <2>7 DEF Placed
  <2>12. NextOf(o).obj = p /\ NextOf(o).got = d /\ After(d) = d + 1
    BY <2>6, <2>5, <1>1 DEF After
  <2> QED
    BY <2>7, <2>10, <2>11, <2>12
<1> QED
  BY <1>6, <1>7

\* Going to the document from which a reader is to go on, in one of the segments
\* that it has not passed: the first from there is found.
LEMMA SkipFinds ==
  ASSUME ReaderAssumption, NEW H \in SUBSET Docs, NEW o \in Reader, o.k # AllDocs,
         NEW from \in Nat, Lefts(H, o, from),
         NEW d \in Docs, from <= d, o.seg <= SegmentOf(d)
  PROVE  /\ SkipTo(o, d).obj \in Reader /\ SkipTo(o, d).obj.k = o.k
         /\ SkipTo(o, d).got = First({e \in H : e >= d})
         /\ Placed(H, SkipTo(o, d).obj, After(SkipTo(o, d).got))
<1> DEFINE i == SegmentOf(d)
           rest == AtOrAfter(o.left[i], d)
           at == [o EXCEPT !.seg = i, !.left[i] = rest]
           ahead == {e \in H : e >= d}
<1>1. /\ Docs \subseteq Nat /\ End \in Nat /\ d \in Nat
      /\ \A e \in Docs : e < End
      /\ \A j \in Segments : j \in Nat /\ j >= 1
  BY DEF ReaderAssumption, Docs, Segments, End
<1>2. /\ o.seg \in Nat /\ o.seg >= 1 /\ o.left \in [Segments -> SUBSET Docs] /\ o.k \in Kinds
      /\ \A j \in Segments : j >= o.seg => o.left[j] = FromOn(H, j, from)
      /\ \A e \in H : e >= from => SegmentOf(e) >= o.seg
  BY DEF Lefts, Reader
<1>3. i \in Segments /\ \A e \in H : SegmentOf(e) \in Segments
  BY SegmentFound
<1>4. rest = FromOn(H, i, d)
  <2>1. \A e \in H : e >= d => e >= from
    BY <1>1
  <2>2. o.left[i] = FromOn(H, i, from)
    BY <1>2, <1>3
  <2> HIDE DEF i
  <2>3. \A e : e \in rest <=> e \in FromOn(H, i, d)
    BY <2>1, <2>2 DEF AtOrAfter, FromOn
  <2> HIDE DEF rest
  <2> QED
    BY <2>3
<1>5. /\ at \in Reader /\ at.k = o.k /\ at.seg = i /\ at.left[i] = rest
      /\ \A j \in Segments \ {i} : at.left[j] = o.left[j]
  <2>1. rest \in SUBSET Docs
    BY <1>4 DEF FromOn
  <2> HIDE DEF rest, i
  <2> QED
    BY <2>1, <1>1, <1>2, <1>3 DEF Reader
<1>6. ASSUME NEW e \in H, e >= d PROVE SegmentOf(e) >= i /\ e \in Nat
  BY <1>6, <1>1, SegmentsOrdered
<1>7. ASSUME NEW e \in H, SegmentOf(e) > i PROVE e >= d /\ e >= from
  <2>1. e \in Nat /\ from \in Nat
    BY <1>1
  <2>2. ~(e <= d)
    <3>1. SUFFICES ASSUME e <= d PROVE FALSE
      OBVIOUS
    <3>2. SegmentOf(e) <= i
      BY <3>1, SegmentsOrdered
    <3>3. SegmentOf(e) \in Nat /\ i \in Nat
      BY <1>1, <1>3
    <3> HIDE DEF i
    <3> QED
      BY <3>2, <3>3, <1>7
  <2> QED
    BY <2>1, <2>2, <1>1
<1>8. Lefts(H, at, d)
  BY <1>4, <1>5, <1>1, <1>2, <1>3, <1>7, <1>6 DEF i, FromOn, Lefts
<1>9. ahead \in SUBSET Docs
  OBVIOUS
<1>10. CASE rest = {}
  BY <1>10, <1>1, <1>5, <1>8, NextFinds DEF SkipTo
<1>11. CASE rest # {}
  <2>1. rest \in SUBSET Nat
    BY <1>1, <1>4 DEF FromOn
  <2>2. PICK x \in rest : x = Min(rest) /\ \A e \in rest : x <= e
    <3> HIDE DEF rest
    <3> QED
      BY <2>1, <1>11, LeastFound
  <2>3. x \in H /\ x >= d /\ SegmentOf(x) = i /\ x \in Nat /\ x \in Docs /\ x < End
    BY <2>2, <1>1, <1>4 DEF FromOn
  <2> DEFINE p == [at EXCEPT !.left[i] = rest \ {x}, !.curr = {x}]
  <2>4. SkipTo(o, d) = [obj |-> p, got |-> x]
    BY <1>11, <2>2 DEF SkipTo
  <2>5. /\ p \in Reader /\ p.k = o.k /\ p.seg = i /\ p.curr = {x}
        /\ p.left[i] = rest \ {x} /\ \A j \in Segments \ {i} : p.left[j] = at.left[j]
    <3>1. rest \ {x} \in SUBSET Docs /\ {x} \in SUBSET Docs
      BY <1>4, <2>3 DEF FromOn
    <3> HIDE DEF rest, i, at
    <3> QED
      BY <3>1, <1>3, <1>5 DEF Reader
  <2>6. ASSUME NEW e \in H, e >= d PROVE x <= e
    <3>1. SegmentOf(e) \in Nat /\ i \in Nat /\ e \in Nat
      BY <1>1, <1>3
    <3>2. CASE SegmentOf(e) = i
      BY <3>2, <2>6, <2>2, <1>4 DEF FromOn
    <3>3. CASE SegmentOf(e) # i
      <4>1. SegmentOf(e) > i
        BY <3>1, <3>3, <1>6, <2>6
      <4>2. ~(e <= x)
        <5>1. SUFFICES ASSUME e <= x PROVE FALSE
          OBVIOUS
        <5>2. SegmentOf(e) <= SegmentOf(x)
          BY <5>1, <2>3, SegmentsOrdered
        <5> HIDE DEF i
        <5> QED
          BY <5>2, <4>1, <3>1, <2>3
      <4> QED
        BY <4>2, <3>1, <2>3
    <3> QED
      BY <3>2, <3>3
  <2>7. First(ahead) = x
    BY <2>3, <2>6, <1>9, FirstIs
  <2>8. ASSUME NEW e \in H PROVE e >= d /\ e # x <=> e >= x + 1
    <3>1. e \in Nat
      BY <1>1
    <3> QED
      BY <3>1, <2>3, <2>6, <1>1
  <2>9. Lefts(H, p, x + 1)
    BY <1>4, <2>8, <2>5, <1>5, <1>8, <2>3, <1>6, <1>1, <1>3 DEF FromOn, Lefts
  <2>10. x + 1 > 0 /\ (x + 1) - 1 = x /\ i <= SegmentOf(x)
    BY <1>1, <1>3, <2>3
  <2> HIDE DEF p
  <2>11. Placed(H, p, x + 1)
    BY <2>5, <2>9, <2>10 DEF Placed
  <2>12. SkipTo(o, d).obj = p /\ SkipTo(o, d).got = x /\ After(x) = x + 1
    BY <2>3, <2>4, <1>1 DEF After
  <2> QED
    BY <2>5, <2>7, <2>11, <2>12
<1> QED
  BY <1>10, <1>11

\* A reader that answered before a document has not passed its segment.
LEMMA NotPassed ==
  ASSUME ReaderAssumption, NEW H \in SUBSET Docs, NEW o \in Reader, NEW from \in Nat,
         Placed(H, o, from), from # End, NEW d \in Docs, ~Backwards(o, d)
  PROVE  from <= d /\ o.seg <= SegmentOf(d)
<1>1. Docs \subseteq Nat /\ d \in Nat /\ SegmentOf(d) \in Nat /\ SegmentOf(d) >= 1
  BY SegmentFound DEF ReaderAssumption, Docs, Segments
<1>2. CASE from = 0 /\ o.seg = 1
  BY <1>1, <1>2
<1>3. CASE from > 0 /\ o.curr = {from - 1} /\ o.seg <= SegmentOf(from - 1)
  BY <1>3, <1>1, SegmentsOrdered, SegmentFound DEF Backwards, Reader, Segments
<1> QED
  BY <1>2, <1>3 DEF Placed

\* The documents that the reader of all documents has left from d on, and the
\* reader once it has gone to the first of them.
LeftFrom(o, d) == {e \in UNION Range(o.left) : e >= d}
DocMoved(o, d) ==
  IF LeftFrom(o, d) = {}
  THEN [o EXCEPT !.left = [j \in Segments |-> {}], !.seg = Len(Offsets) + 1]
  ELSE [o EXCEPT !.seg = SegmentOf(Min(LeftFrom(o, d))), !.curr = {Min(LeftFrom(o, d))},
                 !.left = [j \in Segments |-> {e \in o.left[j] : e > Min(LeftFrom(o, d))}]]

LEMMA DocSkipFinds ==
  ASSUME ReaderAssumption, NEW H \in SUBSET Docs, NEW o \in Reader, o.k = AllDocs,
         NEW from \in Nat, Lefts(H, o, from), NEW d \in Docs, from <= d
  PROVE  /\ DocMoved(o, d) \in Reader /\ DocMoved(o, d).k = o.k
         /\ LeftFrom(o, d) = {e \in H : e >= d}
         /\ Placed(H, DocMoved(o, d), After(First(LeftFrom(o, d))))
<1> DEFINE left == LeftFrom(o, d)
<1>1. /\ Docs \subseteq Nat /\ End \in Nat /\ d \in Nat /\ Len(Offsets) \in Nat
      /\ \A e \in Docs : e < End
      /\ \A j \in Segments : j \in Nat /\ j >= 1 /\ j <= Len(Offsets)
  BY DEF ReaderAssumption, Docs, Segments, End
<1>2. /\ o.left \in [Segments -> SUBSET Docs]
      /\ \A j \in Segments : o.left[j] = FromOn(H, j, from)
  BY DEF Lefts, Reader
<1>3. \A e \in H : SegmentOf(e) \in Segments
  BY SegmentFound
<1>4. left = {e \in H : e >= d}
  <2>1. \A e \in H : e >= d => e >= from
    BY <1>1
  <2>2. \A e : e \in UNION Range(o.left) <=> \E j \in Segments : e \in o.left[j]
    BY <1>2 DEF Range
  <2>3. \A e : e \in left <=> e \in {x \in H : x >= d}
    BY <2>1, <2>2, <1>2, <1>3 DEF FromOn, LeftFrom
  <2> HIDE DEF left
  <2> QED
    BY <2>3
<1>5. left \in SUBSET Docs /\ left \in SUBSET Nat
  BY <1>1, <1>4
<1>6. CASE left = {}
  <2> DEFINE p == [o EXCEPT !.left = [j \in Segments |-> {}], !.seg = Len(Offsets) + 1]
  <2>1. DocMoved(o, d) = p
    BY <1>6 DEF DocMoved
  <2>2. /\ p \in Reader /\ p.k = o.k /\ p.seg = Len(Offsets) + 1
        /\ p.left = [j \in Segments |-> {}]
    <3>1. [j \in Segments |-> {}] \in [Segments -> SUBSET Docs] /\ Len(Offsets) + 1 \in Nat
      BY <1>1
    <3> QED
      BY <3>1 DEF Reader
  <2>3. First(left) = End
    BY <1>5, <1>6, FirstFound
  <2>4. \A e \in H : ~(e >= End)
    BY <1>1
  <2> HIDE DEF p, left
  <2>5. Placed(H, p, End)
    <3>1. \A j \in Segments : p.left[j] = FromOn(H, j, End)
      BY <2>2, <2>4 DEF FromOn
    <3>2. p.seg >= 1
      BY <2>2, <1>1
    <3> QED
      BY <3>1, <3>2, <2>4 DEF Placed, Lefts
  <2>6. After(First(left)) = End
    BY <2>3 DEF After
  <2> QED
    BY <2>1, <2>2, <2>5, <2>6, <1>4 DEF left
<1>7. CASE left # {}
  <2>1. PICK x \in left : x = Min(left) /\ \A e \in left : x <= e
    <3> HIDE DEF left
    <3> QED
      BY <1>5, <1>7, LeastFound
  <2>2. x \in H /\ x >= d /\ x \in Docs /\ x \in Nat /\ x < End /\ x >= from
    <3>1. x \in H /\ x >= d /\ x \in Docs /\ x \in Nat
      <4> HIDE DEF left
      <4> QED
        BY <1>1, <1>4, <2>1
    <3> QED
      BY <3>1, <1>1
  <2>3. SegmentOf(x) \in Segments /\ SegmentOf(x) >= 1 /\ SegmentOf(x) \in Nat
    BY <2>2, <1>1, <1>3
  <2> DEFINE p == [o EXCEPT !.seg = SegmentOf(x), !.curr = {x},
                            !.left = [j \in Segments |-> {e \in o.left[j] : e > x}]]
  <2>4. DocMoved(o, d) = p
    BY <1>7, <2>1 DEF DocMoved
  <2>5. /\ p \in Reader /\ p.k = o.k /\ p.seg = SegmentOf(x) /\ p.curr = {x}
        /\ \A j \in Segments : p.left[j] = {e \in o.left[j] : e > x}
    BY <2>2, <2>3, <1>2 DEF Reader
  <2> HIDE DEF p
  <2>6. First(left) = x
    <3> HIDE DEF left
    <3> QED
      BY <2>1, <1>5, FirstIs
  <2>7. Lefts(H, p, x + 1)
    <3>1. ASSUME NEW e \in H PROVE e >= from /\ e > x <=> e >= x + 1
      <4>1. e \in Nat
        BY <1>1
      <4> QED
        BY <4>1, <2>2
    <3>2. ASSUME NEW j \in Segments PROVE p.left[j] = FromOn(H, j, x + 1)
      BY <3>1, <2>5, <1>2 DEF FromOn
    <3>3. ASSUME NEW e \in H, e >= x + 1 PROVE SegmentOf(e) >= SegmentOf(x)
      BY <3>3, <2>2, <1>1, <1>3, <2>3, SegmentsOrdered
    <3> QED
      BY <3>2, <3>3, <2>3, <2>5 DEF Lefts
  <2>8. x + 1 > 0 /\ (x + 1) - 1 = x /\ SegmentOf(x) <= SegmentOf(x)
    BY <2>2, <2>3
  <2>9. Placed(H, p, x + 1)
    BY <2>5, <2>7, <2>8 DEF Placed
  <2>10. After(First(left)) = x + 1
    BY <2>2, <2>6, <1>1 DEF After
  <2> QED
    BY <2>4, <2>5, <2>9, <2>10, <1>4
<1> QED
  BY <1>6, <1>7

---------------------------------------------------------------------------
(* The invariant of the readers *)

ReadersFit ==
  /\ hits \in [Terms \cup {AllDocs} -> SUBSET Docs]
  /\ objects \in Seq(Reader)
  /\ kept \in Seq(1..Len(objects)) /\ Len(kept) <= Threshold
  /\ using \in [Clients -> 0..Len(objects)]
  /\ asks \in [Clients -> [k : Kinds, from : 0..End]]
  /\ answer \in [Clients -> [want : Nat, got : Nat]]

\* No reader is kept twice.
KeptOnce == \A i, j \in 1..Len(kept) : i # j => kept[i] # kept[j]

\* The documents a reader of k goes through when the postings are h.
On(h, k) == CASE k = AllDocs -> h[AllDocs]
              [] k = Both -> {d \in h[AllDocs] : \A t \in Terms : d \in h[t]}
              [] OTHER -> h[k]

\* The reader of a client is where the client expects it.
InPlace ==
  \A c \in Clients : using[c] # 0 =>
    /\ objects[using[c]].k = asks[c].k
    /\ Placed(On(hits, asks[c].k), objects[using[c]], asks[c].from)

ReadersInv == ReadersFit /\ KeptOnce /\ ReadersApart /\ InPlace /\ AnswersExact

LEMMA HitsFit ==
  ASSUME ReaderAssumption, hits \in [Terms \cup {AllDocs} -> SUBSET Docs], NEW k \in Kinds
  PROVE  HitsOf(k) \in SUBSET Docs /\ HitsOf(k) = On(hits, k)
<1>0. HitsOf(k) = On(hits, k)
  BY DEF HitsOf, On
<1>1. hits[AllDocs] \in SUBSET Docs /\ \A t \in Terms : hits[t] \in SUBSET Docs
  OBVIOUS
<1>2. CASE k = AllDocs
  BY <1>0, <1>1, <1>2 DEF HitsOf
<1>3. CASE k = Both /\ k # AllDocs
  BY <1>0, <1>1, <1>3 DEF HitsOf
<1>4. CASE k # Both /\ k # AllDocs
  <2>1. k \in Terms
    BY <1>4 DEF Kinds
  <2> QED
    BY <2>1, <1>0, <1>1, <1>4 DEF HitsOf
<1> QED
  BY <1>2, <1>3, <1>4

\* A new reader has everything left.
LEMMA FreshPlaced ==
  ASSUME ReaderAssumption, hits \in [Terms \cup {AllDocs} -> SUBSET Docs], NEW k \in Kinds
  PROVE  /\ Fresh(k) \in Reader /\ Fresh(k).k = k
         /\ Placed(HitsOf(k), Fresh(k), 0)
<1>1. HitsOf(k) \in SUBSET Docs
  BY HitsFit
<1>2. Docs \subseteq Nat /\ \A e \in Docs : e >= 0
  BY DEF ReaderAssumption, Docs
<1>3. ASSUME NEW i \in Segments PROVE HitsOf(k) \cap DocsOf(i) = FromOn(HitsOf(k), i, 0)
  BY <1>1, <1>2 DEF DocsOf, FromOn
<1>4. /\ Fresh(k) \in Reader /\ Fresh(k).k = k /\ Fresh(k).seg = 1 /\ Fresh(k).curr = {}
      /\ \A i \in Segments : Fresh(k).left[i] = HitsOf(k) \cap DocsOf(i)
  BY <1>1 DEF Fresh, Reader
<1>5. \A e \in HitsOf(k) : SegmentOf(e) >= 1
  BY <1>1, SegmentFound DEF Segments
<1>6. Lefts(HitsOf(k), Fresh(k), 0)
  <2>1. Fresh(k).seg >= 1
    BY <1>4
  <2>2. \A i \in Segments : Fresh(k).left[i] = FromOn(HitsOf(k), i, 0)
    BY <1>3, <1>4
  <2>3. \A e \in HitsOf(k) : SegmentOf(e) >= Fresh(k).seg
    BY <1>4, <1>5
  <2> QED
    BY <2>1, <2>2, <2>3 DEF Lefts
<1> QED
  BY <1>4, <1>6 DEF Placed

\* A reader that is used again is like a new one: nothing of what the search
\* that had it before left behind (TermFieldReader) remains.
LEMMA ReopenedIsFresh ==
  ASSUME NEW k \in Kinds, NEW o \in Reader
  PROVE  Reopened(o, k) = Fresh(k)
<1> DEFINE all == [i \in Segments |-> HitsOf(k) \cap DocsOf(i)]
<1>1. Fresh(k) = [k |-> k, left |-> all, seg |-> 1, curr |-> {}]
  BY DEF Fresh
<1>2. Reopened(o, k) = [o EXCEPT !.k = k, !.left = all, !.seg = 1, !.curr = {}]
  BY DEF Reopened
<1> HIDE DEF all
<1> QED
  BY <1>1, <1>2 DEF Reader

LEMMA TermFieldReaderGives ==
  ASSUME ReaderAssumption, hits \in [Terms \cup {AllDocs} -> SUBSET Docs], NEW k \in Kinds,
         objects \in Seq(Reader), kept \in Seq(1..Len(objects)),
         NEW n, n = IF kept # <<>> THEN Last(kept) ELSE Len(objects) + 1,
         NEW more, more = IF kept # <<>> THEN objects ELSE Append(objects, Fresh(AllDocs))
  PROVE  TermFieldReader(k, objects, kept) =
           [n |-> n, kept |-> IF kept # <<>> THEN Front(kept) ELSE kept,
            objs |-> [more EXCEPT ![n] = Fresh(k)]]
<1>1. Fresh(AllDocs) \in Reader
  BY FreshPlaced DEF Kinds
<1>2. more[n] \in Reader
  <2>1. CASE kept = <<>>
    BY <1>1, <2>1
  <2>2. CASE kept # <<>>
    <3>1. Len(kept) \in 1..Len(kept) /\ n = kept[Len(kept)] /\ more = objects
      BY <2>2 DEF Last
    <3>2. kept[Len(kept)] \in 1..Len(objects)
      BY <3>1
    <3> QED
      BY <3>1, <3>2
  <2> QED
    BY <2>1, <2>2
<1>3. Reopened(more[n], k) = Fresh(k)
  BY <1>2, ReopenedIsFresh
<1> DEFINE rest == IF kept # <<>> THEN Front(kept) ELSE kept
           a == Alloc(objects, kept)
<1>4. a = [n |-> n, kept |-> rest, objs |-> more]
  BY DEF Alloc
<1>5. TermFieldReader(k, objects, kept) =
        [a EXCEPT !.objs = [a.objs EXCEPT ![a.n] = Reopened(a.objs[a.n], k)]]
  BY DEF TermFieldReader
<1> HIDE DEF rest, a
<1>6. a.n = n /\ a.objs = more
  BY <1>4
<1>7. TermFieldReader(k, objects, kept) = [a EXCEPT !.objs = [more EXCEPT ![n] = Fresh(k)]]
  BY <1>3, <1>5, <1>6
<1>8. TermFieldReader(k, objects, kept) =
        [n |-> n, kept |-> rest, objs |-> [more EXCEPT ![n] = Fresh(k)]]
  BY <1>4, <1>7
<1> QED
  BY <1>8 DEF rest

---------------------------------------------------------------------------
(* What a call does to the readers of the other clients: nothing *)

\* A client's reader moves on and answers; the other readers stay.
LEMMA ReaderMoves ==
  ASSUME ReaderAssumption, ReadersInv, NEW c \in Clients, using[c] # 0,
         objects' \in Seq(Reader), Len(objects) <= Len(objects'),
         \A n \in 1..Len(objects) : n # using[c] => objects'[n] = objects[n],
         objects'[using[c]].k = asks[c].k,
         \E got \in 0..End : /\ Answer(c, got, got)
                             /\ Placed(On(hits, asks[c].k), objects'[using[c]], After(got)),
         kept' = kept, using' = using, hits' = hits
  PROVE  ReadersInv'
<1>1. PICK got \in 0..End : /\ Answer(c, got, got)
                            /\ Placed(On(hits, asks[c].k), objects'[using[c]], After(got))
  OBVIOUS
<1>2. End \in Nat /\ got \in Nat /\ After(got) \in 0..End /\ Len(objects) \in Nat /\ Len(objects') \in Nat
  BY <1>1 DEF ReaderAssumption, End, After, ReadersInv, ReadersFit
<1>3. /\ answer' = [answer EXCEPT ![c] = [want |-> got, got |-> got]]
      /\ asks' = [asks EXCEPT ![c].from = After(got)]
  BY <1>1 DEF Answer, After
<1>4. /\ asks'[c] = [asks[c] EXCEPT !.from = After(got)]
      /\ \A b \in Clients \ {c} : asks'[b] = asks[b]
  BY <1>3 DEF ReadersInv, ReadersFit
<1>5. ReadersFit'
  <2>1. asks' \in [Clients -> [k : Kinds, from : 0..End]]
    BY <1>2, <1>3 DEF ReadersInv, ReadersFit
  <2>2. answer' \in [Clients -> [want : Nat, got : Nat]]
    BY <1>2, <1>3 DEF ReadersInv, ReadersFit
  <2>3. 1..Len(objects) \subseteq 1..Len(objects') /\ 0..Len(objects) \subseteq 0..Len(objects')
    BY <1>2
  <2>4. kept' \in Seq(1..Len(objects')) /\ using' \in [Clients -> 0..Len(objects')]
    BY <2>3 DEF ReadersInv, ReadersFit
  <2> QED
    BY <2>1, <2>2, <2>4 DEF ReadersInv, ReadersFit
<1>6. KeptOnce' /\ ReadersApart'
  BY DEF ReadersInv, KeptOnce, ReadersApart, Contains
<1>7. AnswersExact'
  BY <1>3 DEF ReadersInv, ReadersFit, AnswersExact
<1>8. InPlace'
  <2> SUFFICES ASSUME NEW b \in Clients, using'[b] # 0
               PROVE  /\ objects'[using'[b]].k = asks'[b].k
                      /\ Placed(On(hits', asks'[b].k), objects'[using'[b]], asks'[b].from)
    BY DEF InPlace
  <2>1. CASE b = c
    BY <1>4, <2>1, <1>1 DEF ReadersInv, ReadersFit
  <2>2. CASE b # c
    <3>1. using[b] \in 1..Len(objects) /\ using[b] # using[c] /\ using[b] # 0
      BY <2>2, <1>2 DEF ReadersInv, ReadersFit, ReadersApart
    <3>2. objects'[using[b]] = objects[using[b]] /\ asks'[b] = asks[b]
      BY <3>1, <2>2, <1>4
    <3> QED
      BY <3>1, <3>2 DEF ReadersInv, InPlace
  <2> QED
    BY <2>1, <2>2
<1> QED
  BY <1>5, <1>6, <1>7, <1>8 DEF ReadersInv

\* A client is given a reader that nobody has, new or no longer kept.
LEMMA ReaderGiven ==
  ASSUME ReaderAssumption, ReadersInv, NEW c \in Clients, using[c] = 0,
         NEW k \in Kinds, asks' = [asks EXCEPT ![c] = [k |-> k, from |-> 0]],
         objects' \in Seq(Reader), Len(objects) <= Len(objects'),
         NEW n \in 1..Len(objects'), objects'[n] = Fresh(k),
         using' = [using EXCEPT ![c] = n],
         \A b \in Clients : using[b] # n,
         \A m \in 1..Len(objects) : m # n => objects'[m] = objects[m],
         kept' \in Seq(1..Len(objects')), Len(kept') <= Len(kept),
         \A i \in 1..Len(kept') : kept'[i] = kept[i] /\ kept'[i] # n,
         hits' = hits, answer' = answer
  PROVE  ReadersInv'
<1>1. /\ End \in Nat /\ Len(objects) \in Nat /\ Len(objects') \in Nat
      /\ Len(kept) \in Nat /\ Len(kept') \in Nat /\ Threshold \in Nat
  BY DEF ReaderAssumption, End, ReadersInv, ReadersFit
<1>2. /\ asks'[c] = [k |-> k, from |-> 0]
      /\ \A b \in Clients \ {c} : asks'[b] = asks[b]
      /\ using'[c] = n /\ \A b \in Clients \ {c} : using'[b] = using[b]
      /\ using' \in [Clients -> 0..Len(objects')]
  BY <1>1 DEF ReadersInv, ReadersFit
<1>3. ReadersFit'
  BY <1>1, <1>2 DEF ReadersInv, ReadersFit
<1>4. \A i \in 1..Len(kept') : i \in 1..Len(kept)
  BY <1>1
<1>5. KeptOnce'
  BY <1>4 DEF ReadersInv, KeptOnce
<1>6. ReadersApart'
  <2>1. ASSUME NEW a \in Clients, NEW b \in Clients, a # b, using'[a] # 0
        PROVE  using'[a] # using'[b]
    BY <2>1, <1>2 DEF ReadersInv, ReadersApart
  <2>2. ASSUME NEW b \in Clients, using'[b] # 0, NEW i \in 1..Len(kept')
        PROVE  kept'[i] # using'[b]
    <3>1. CASE b = c
      BY <3>1, <1>2
    <3>2. CASE b # c
      <4>1. using'[b] = using[b] /\ kept'[i] = kept[i] /\ i \in 1..Len(kept)
        BY <3>2, <1>2, <1>4
      <4> QED
        BY <4>1, <2>2 DEF ReadersInv, ReadersApart, Contains
    <3> QED
      BY <3>1, <3>2
  <2> QED
    BY <2>1, <2>2 DEF ReadersApart, Contains
<1>7. AnswersExact'
  BY DEF ReadersInv, AnswersExact
<1>8. InPlace'
  <2> SUFFICES ASSUME NEW b \in Clients, using'[b] # 0
               PROVE  /\ objects'[using'[b]].k = asks'[b].k
                      /\ Placed(On(hits', asks'[b].k), objects'[using'[b]], asks'[b].from)
    BY DEF InPlace
  <2>1. CASE b = c
    BY FreshPlaced, HitsFit, <2>1, <1>2 DEF ReadersInv, ReadersFit
  <2>2. CASE b # c
    <3>1. using[b] \in 1..Len(objects) /\ using[b] # n /\ using[b] # 0
      BY <2>2, <1>1, <1>2 DEF ReadersInv, ReadersFit
    <3>2. /\ objects'[using[b]] = objects[using[b]] /\ asks'[b] = asks[b]
          /\ using'[b] = using[b]
      BY <3>1, <2>2, <1>2
    <3> QED
      BY <3>1, <3>2 DEF ReadersInv, InPlace
  <2> QED
    BY <2>1, <2>2
<1> QED
  BY <1>3, <1>5, <1>6, <1>7, <1>8 DEF ReadersInv

---------------------------------------------------------------------------
(* The calls *)

LEMMA OpenTermKeepsReaders ==
  ASSUME ReaderAssumption, ReadersInv, NEW c \in Clients, OpenTerm(c)
  PROVE  ReadersInv'
<1>1. PICK t \in Terms :
        LET r == TermFieldReader(t, objects, kept)
        IN  /\ objects' = r.objs /\ kept' = r.kept
            /\ using' = [using EXCEPT ![c] = r.n]
            /\ asks' = [asks EXCEPT ![c] = [k |-> t, from |-> 0]]
  BY DEF OpenTerm
<1>2. /\ using[c] = 0 /\ hits' = hits /\ answer' = answer
      /\ asks' = [asks EXCEPT ![c] = [k |-> t, from |-> 0]]
  BY <1>1 DEF OpenTerm
<1>3. /\ hits \in [Terms \cup {AllDocs} -> SUBSET Docs] /\ objects \in Seq(Reader)
      /\ kept \in Seq(1..Len(objects)) /\ Len(objects) \in Nat /\ Len(kept) \in Nat
      /\ using \in [Clients -> 0..Len(objects)]
  BY DEF ReadersInv, ReadersFit
<1>4. t \in Kinds /\ AllDocs \in Kinds
  BY DEF Kinds
<1>5. Fresh(t) \in Reader /\ Fresh(AllDocs) \in Reader
  BY <1>3, <1>4, FreshPlaced
<1>6. CASE kept = <<>>
  <2>1. /\ objects' = [Append(objects, Fresh(AllDocs)) EXCEPT ![Len(objects) + 1] = Fresh(t)]
        /\ kept' = kept /\ using' = [using EXCEPT ![c] = Len(objects) + 1]
    <3>1. TermFieldReader(t, objects, kept) =
            [n |-> Len(objects) + 1, kept |-> kept,
             objs |-> [Append(objects, Fresh(AllDocs)) EXCEPT ![Len(objects) + 1] = Fresh(t)]]
      BY <1>3, <1>4, <1>6, TermFieldReaderGives
    <3> QED
      BY <1>1, <3>1
  <2>2. /\ objects' \in Seq(Reader) /\ Len(objects') = Len(objects) + 1
        /\ objects'[Len(objects) + 1] = Fresh(t)
        /\ \A m \in 1..Len(objects) : objects'[m] = objects[m]
    <3>1. /\ Append(objects, Fresh(AllDocs)) \in Seq(Reader)
          /\ Len(Append(objects, Fresh(AllDocs))) = Len(objects) + 1
          /\ \A m \in 1..Len(objects) : Append(objects, Fresh(AllDocs))[m] = objects[m]
      BY <1>3, <1>5
    <3> DEFINE more == Append(objects, Fresh(AllDocs))
    <3> HIDE DEF more
    <3>2. /\ more \in Seq(Reader) /\ Len(more) = Len(objects) + 1
          /\ \A m \in 1..Len(objects) : more[m] = objects[m]
          /\ objects' = [more EXCEPT ![Len(objects) + 1] = Fresh(t)]
      BY <3>1, <2>1 DEF more
    <3> QED
      BY <3>2, <1>3, <1>5
  <2>3. /\ kept' \in Seq(1..Len(objects')) /\ Len(kept') = 0
        /\ Len(objects) + 1 \in 1..Len(objects') /\ Len(objects) <= Len(objects')
    BY <2>1, <2>2, <1>3, <1>6
  <2>4. \A b \in Clients : using[b] # Len(objects) + 1
    BY <1>3
  <2>5. /\ Len(kept') <= Len(kept)
        /\ \A i \in 1..Len(kept') : kept'[i] = kept[i] /\ kept'[i] # Len(objects) + 1
    BY <2>1, <2>3
  <2>6. PICK n \in 1..Len(objects') : n = Len(objects) + 1
    BY <2>3
  <2> QED
    BY <1>2, <1>4, <2>1, <2>2, <2>3, <2>4, <2>5, <2>6, ReaderGiven
<1>7. CASE kept # <<>>
  <2> DEFINE n == Last(kept)
  <2>1. /\ objects' = [objects EXCEPT ![n] = Fresh(t)]
        /\ kept' = Front(kept) /\ using' = [using EXCEPT ![c] = n]
    <3>1. TermFieldReader(t, objects, kept) =
            [n |-> n, kept |-> Front(kept), objs |-> [objects EXCEPT ![n] = Fresh(t)]]
      BY <1>3, <1>4, <1>7, TermFieldReaderGives
    <3> QED
      BY <1>1, <3>1
  <2>2. /\ Len(kept) >= 1 /\ n = kept[Len(kept)] /\ n \in 1..Len(objects)
    BY <1>3, <1>7 DEF Last
  <2>3. /\ Front(kept) \in Seq(1..Len(objects)) /\ Len(Front(kept)) = Len(kept) - 1
        /\ \A i \in 1..Len(kept) - 1 : Front(kept)[i] = kept[i]
    <3> DEFINE m == Len(kept) - 1
    <3>1. m \in Nat /\ m <= Len(kept) /\ Front(kept) = SubSeq(kept, 1, m)
      BY <1>3, <2>2 DEF Front
    <3> HIDE DEF m
    <3>2. /\ Len(SubSeq(kept, 1, m)) = m
          /\ \A i \in 1..m : SubSeq(kept, 1, m)[i] = kept[i] /\ kept[i] \in 1..Len(objects)
      BY <3>1, <1>3
    <3>3. SubSeq(kept, 1, m) \in Seq(1..Len(objects))
      BY <3>1, <3>2, <1>3
    <3> QED
      BY <3>1, <3>2, <3>3 DEF m
  <2>4. \A i \in 1..Len(kept) - 1 : kept[i] # n
    BY <1>3, <2>2 DEF ReadersInv, KeptOnce
  <2>5. \A b \in Clients : using[b] # n
    BY <1>3, <2>2 DEF ReadersInv, ReadersApart, Contains
  <2> HIDE DEF n
  <2>6. /\ objects' \in Seq(Reader) /\ Len(objects') = Len(objects) /\ objects'[n] = Fresh(t)
        /\ \A m \in 1..Len(objects) : m # n => objects'[m] = objects[m]
    BY <2>1, <2>2, <1>3, <1>5
  <2>7. /\ kept' \in Seq(1..Len(objects')) /\ Len(kept') <= Len(kept)
        /\ \A i \in 1..Len(kept') : kept'[i] = kept[i] /\ kept'[i] # n
    BY <2>1, <2>3, <2>4, <2>6, <1>3
  <2>8. n \in 1..Len(objects') /\ Len(objects) <= Len(objects')
    BY <2>2, <2>6, <1>3
  <2>9. PICK r \in 1..Len(objects') : r = n
    BY <2>8
  <2> QED
    BY <1>2, <1>4, <2>1, <2>5, <2>6, <2>7, <2>8, <2>9, ReaderGiven
<1> QED
  BY <1>6, <1>7

LEMMA OpenOtherKeepsReaders ==
  ASSUME ReaderAssumption, ReadersInv, NEW c \in Clients, OpenOther(c)
  PROVE  ReadersInv'
<1>1. PICK k \in {AllDocs, Both} :
        /\ objects' = Append(objects, Fresh(k))
        /\ using' = [using EXCEPT ![c] = Len(objects) + 1]
        /\ asks' = [asks EXCEPT ![c] = [k |-> k, from |-> 0]]
  BY DEF OpenOther
<1>2. using[c] = 0 /\ hits' = hits /\ answer' = answer /\ kept' = kept
  BY DEF OpenOther
<1>3. /\ hits \in [Terms \cup {AllDocs} -> SUBSET Docs] /\ objects \in Seq(Reader)
      /\ kept \in Seq(1..Len(objects)) /\ Len(objects) \in Nat /\ Len(kept) \in Nat
      /\ using \in [Clients -> 0..Len(objects)]
  BY DEF ReadersInv, ReadersFit
<1>4. k \in Kinds
  BY DEF Kinds
<1>5. Fresh(k) \in Reader
  BY <1>3, <1>4, FreshPlaced
<1>6. /\ objects' \in Seq(Reader) /\ Len(objects') = Len(objects) + 1
      /\ objects'[Len(objects) + 1] = Fresh(k)
      /\ \A m \in 1..Len(objects) : objects'[m] = objects[m]
  BY <1>1, <1>3, <1>5
<1>7. 1..Len(objects) \subseteq 1..Len(objects') /\ Len(objects) + 1 \in 1..Len(objects')
  BY <1>3, <1>6
<1>8. kept' \in Seq(1..Len(objects'))
  BY <1>2, <1>3, <1>7
<1>9. \A i \in 1..Len(kept') : kept'[i] = kept[i] /\ kept'[i] # Len(objects) + 1
  BY <1>3, <1>2
<1>10. \A b \in Clients : using[b] # Len(objects) + 1
  BY <1>3
<1>11. Len(objects) <= Len(objects') /\ Len(kept') <= Len(kept)
  BY <1>2, <1>3, <1>6
<1> QED
  BY <1>1, <1>2, <1>4, <1>6, <1>7, <1>8, <1>9, <1>10, <1>11, ReaderGiven

\* The reader of a client: one of those made, in its place.
LEMMA ReaderOf ==
  ASSUME ReaderAssumption, ReadersInv, NEW c \in Clients, using[c] # 0
  PROVE  /\ using[c] \in 1..Len(objects) /\ objects[using[c]] \in Reader
         /\ objects[using[c]].k = asks[c].k /\ asks[c].k \in Kinds
         /\ asks[c].from \in Nat /\ asks[c].from <= End
         /\ HitsOf(asks[c].k) \in SUBSET Docs /\ HitsOf(asks[c].k) = On(hits, asks[c].k)
         /\ Placed(HitsOf(asks[c].k), objects[using[c]], asks[c].from)
<1>1. /\ using[c] \in 0..Len(objects) /\ Len(objects) \in Nat /\ End \in Nat
      /\ asks[c] \in [k : Kinds, from : 0..End]
      /\ hits \in [Terms \cup {AllDocs} -> SUBSET Docs]
      /\ objects \in Seq(Reader)
  BY DEF ReaderAssumption, End, ReadersInv, ReadersFit
<1>2. using[c] \in 1..Len(objects)
  BY <1>1
<1>3. HitsOf(asks[c].k) \in SUBSET Docs /\ HitsOf(asks[c].k) = On(hits, asks[c].k)
  BY <1>1, HitsFit
<1> QED
  BY <1>1, <1>2, <1>3 DEF ReadersInv, InPlace

\* A client's reader is replaced by one that has moved on and answered right.
LEMMA ReaderReplaced ==
  ASSUME ReaderAssumption, ReadersInv, NEW c \in Clients, using[c] # 0,
         NEW p \in Reader, objects' = [objects EXCEPT ![using[c]] = p], p.k = asks[c].k,
         NEW got \in 0..End, Answer(c, got, got),
         Placed(HitsOf(asks[c].k), p, After(got)),
         kept' = kept, using' = using, hits' = hits
  PROVE  ReadersInv'
<1>1. using[c] \in 1..Len(objects) /\ HitsOf(asks[c].k) = On(hits, asks[c].k)
  BY ReaderOf
<1>2. objects \in Seq(Reader)
  BY DEF ReadersInv, ReadersFit
<1>3. /\ objects' \in Seq(Reader) /\ Len(objects') = Len(objects) /\ objects'[using[c]] = p
      /\ \A n \in 1..Len(objects) : n # using[c] => objects'[n] = objects[n]
  BY <1>1, <1>2
<1>4. Len(objects) <= Len(objects')
  BY <1>2, <1>3
<1> QED
  BY <1>1, <1>3, <1>4, ReaderMoves

LEMMA WantFits ==
  ASSUME ReaderAssumption, ReadersInv, NEW c \in Clients, using[c] # 0, NEW d \in Nat
  PROVE  Want(c, d) \in 0..End
<1> DEFINE S == {e \in HitsOf(asks[c].k) : e >= d}
<1>1. S \in SUBSET Docs
  BY ReaderOf
<1>2. End \in Nat /\ \A e \in Docs : e \in 0..End
  BY DEF ReaderAssumption, End, Docs
<1>3. Want(c, d) = First(S)
  BY DEF Want
<1> HIDE DEF S
<1>4. First(S) = End \/ First(S) \in Docs
  BY <1>1, FirstFound
<1> QED
  BY <1>2, <1>3, <1>4

LEMMA NextKeepsReaders ==
  ASSUME ReaderAssumption, ReadersInv, NEW c \in Clients, Next_(c)
  PROVE  ReadersInv'
<1> DEFINE o == objects[using[c]]
           H == HitsOf(asks[c].k)
<1>1. /\ using[c] # 0 /\ hits' = hits /\ kept' = kept /\ using' = using
      /\ objects' = [objects EXCEPT ![using[c]] = NextOf(o).obj]
      /\ Answer(c, NextOf(o).got, Want(c, asks[c].from))
  BY DEF Next_
<1>2. /\ o \in Reader /\ o.k = asks[c].k /\ asks[c].from \in Nat /\ H \in SUBSET Docs
      /\ Placed(H, o, asks[c].from)
  BY <1>1, ReaderOf
<1>3. Want(c, asks[c].from) = First({e \in H : e >= asks[c].from}) /\ Want(c, asks[c].from) \in 0..End
  BY <1>1, <1>2, WantFits DEF Want
<1> HIDE DEF o, H
<1>4. Lefts(H, o, asks[c].from)
  BY <1>2 DEF Placed
<1>5. /\ NextOf(o).obj \in Reader /\ NextOf(o).obj.k = o.k
      /\ NextOf(o).got = First({e \in H : e >= asks[c].from})
      /\ Placed(H, NextOf(o).obj, After(NextOf(o).got))
  BY <1>2, <1>4, NextFinds
<1>6. PICK p \in Reader : p = NextOf(o).obj
  BY <1>5
<1>7. PICK got \in 0..End : got = NextOf(o).got
  BY <1>3, <1>5
<1> QED
  BY <1>1, <1>2, <1>3, <1>5, <1>6, <1>7, ReaderReplaced DEF H

LEMMA AdvanceDocKeepsReaders ==
  ASSUME ReaderAssumption, ReadersInv, NEW c \in Clients, AdvanceDoc(c)
  PROVE  ReadersInv'
<1> DEFINE o == objects[using[c]]
           H == HitsOf(asks[c].k)
<1>1. PICK d \in Docs :
        /\ d >= asks[c].from
        /\ objects' = [objects EXCEPT ![using[c]] = DocMoved(o, d)]
        /\ Answer(c, First(LeftFrom(o, d)), Want(c, d))
  BY DEF AdvanceDoc, DocMoved, LeftFrom
<1>2. using[c] # 0 /\ hits' = hits /\ kept' = kept /\ using' = using /\ asks[c].k = AllDocs
  BY DEF AdvanceDoc
<1>3. /\ o \in Reader /\ o.k = asks[c].k /\ asks[c].from \in Nat /\ H \in SUBSET Docs
      /\ Placed(H, o, asks[c].from)
  BY <1>2, ReaderOf
<1>4. d \in Nat /\ asks[c].from <= d
  BY <1>1, <1>3 DEF ReaderAssumption, Docs
<1>5. Want(c, d) = First({e \in H : e >= d}) /\ Want(c, d) \in 0..End
  BY <1>2, <1>4, WantFits DEF Want
<1> HIDE DEF o, H
<1>6. Lefts(H, o, asks[c].from)
  BY <1>3 DEF Placed
<1>7. /\ DocMoved(o, d) \in Reader /\ DocMoved(o, d).k = o.k
      /\ LeftFrom(o, d) = {e \in H : e >= d}
      /\ Placed(H, DocMoved(o, d), After(First(LeftFrom(o, d))))
  BY <1>2, <1>3, <1>4, <1>6, DocSkipFinds
<1>8. PICK p \in Reader : p = DocMoved(o, d)
  BY <1>7
<1>9. PICK got \in 0..End : got = First(LeftFrom(o, d))
  BY <1>5, <1>7
<1> QED
  BY <1>1, <1>2, <1>3, <1>5, <1>7, <1>8, <1>9, ReaderReplaced DEF H

LEMMA AdvanceTermKeepsReaders ==
  ASSUME ReaderAssumption, ~Reused, ReadersInv, NEW c \in Clients, AdvanceTerm(c)
  PROVE  ReadersInv'
<1> DEFINE n == using[c]
           o == objects[n]
           k == asks[c].k
           H == HitsOf(k)
<1>1. /\ using[c] # 0 /\ hits' = hits /\ using' = using /\ k # AllDocs /\ asks[c].from # End
  BY DEF AdvanceTerm
<1>2. /\ o \in Reader /\ o.k = k /\ asks[c].from \in Nat /\ H \in SUBSET Docs /\ k \in Kinds
      /\ Placed(H, o, asks[c].from) /\ n \in 1..Len(objects) /\ H = On(hits, k)
  BY <1>1, ReaderOf
<1>3. PICK d \in Docs :
        /\ GoBack \/ ~Backwards(o, d)
        /\ \/ /\ ~Backwards(o, d)
              /\ objects' = [objects EXCEPT ![n] = SkipTo(o, d).obj]
              /\ kept' = kept /\ Answer(c, SkipTo(o, d).got, Want(c, d))
           \/ /\ Backwards(o, d) /\ Recyclable(o.k)
              /\ LET a == TermFieldReader(o.k, objects, kept)
                     r == SkipTo(a.objs[a.n], d)
                 IN  /\ objects' = [a.objs EXCEPT ![n] = r.obj]
                     /\ kept' = Recycled(n, o.k, a.kept)
                     /\ Answer(c, r.got, Want(c, d))
           \/ /\ Backwards(o, d) /\ ~Recyclable(o.k)
              /\ LET r == SkipTo([Fresh(o.k) EXCEPT !.curr = o.curr], d)
                 IN  /\ objects' = [objects EXCEPT ![n] = r.obj]
                     /\ kept' = kept /\ Answer(c, r.got, Want(c, d))
  BY DEF AdvanceTerm
<1>4. d \in Nat /\ SegmentOf(d) \in Nat /\ SegmentOf(d) >= 1
  BY SegmentFound DEF ReaderAssumption, Docs, Segments
<1>5. Want(c, d) = First({e \in H : e >= d}) /\ Want(c, d) \in 0..End
  BY <1>1, <1>4, WantFits DEF Want
<1>6. hits \in [Terms \cup {AllDocs} -> SUBSET Docs] /\ objects \in Seq(Reader) /\ Len(objects) \in Nat
  BY DEF ReadersInv, ReadersFit
<1>7. Fresh(k) \in Reader /\ Fresh(k).k = k /\ Placed(H, Fresh(k), 0) /\ Fresh(k).seg = 1
  BY <1>2, <1>6, FreshPlaced DEF Fresh
<1> HIDE DEF n, o, k, H
<1>8. CASE /\ ~Backwards(o, d)
           /\ objects' = [objects EXCEPT ![n] = SkipTo(o, d).obj]
           /\ kept' = kept /\ Answer(c, SkipTo(o, d).got, Want(c, d))
  <2>1. asks[c].from <= d /\ o.seg <= SegmentOf(d) /\ Lefts(H, o, asks[c].from)
    BY <1>1, <1>2, <1>8, NotPassed DEF Placed
  <2>2. /\ SkipTo(o, d).obj \in Reader /\ SkipTo(o, d).obj.k = o.k
        /\ SkipTo(o, d).got = First({e \in H : e >= d})
        /\ Placed(H, SkipTo(o, d).obj, After(SkipTo(o, d).got))
    <3>1. o.k # AllDocs
      BY <1>1, <1>2
    <3>2. PICK from \in Nat : from = asks[c].from
      BY <1>2
    <3>3. PICK p \in Reader, G \in SUBSET Docs : p = o /\ G = H
      BY <1>2
    <3>4. from <= d /\ p.seg <= SegmentOf(d) /\ Lefts(G, p, from) /\ p.k # AllDocs
      BY <3>1, <3>2, <3>3, <2>1
    <3>5. /\ SkipTo(p, d).obj \in Reader /\ SkipTo(p, d).obj.k = p.k
          /\ SkipTo(p, d).got = First({e \in G : e >= d})
          /\ Placed(G, SkipTo(p, d).obj, After(SkipTo(p, d).got))
      BY <3>4, SkipFinds
    <3> QED
      BY <3>3, <3>5
  <2>3. PICK p \in Reader : p = SkipTo(o, d).obj
    BY <2>2
  <2>4. PICK got \in 0..End : got = SkipTo(o, d).got
    BY <2>2, <1>5
  <2> QED
    BY <2>2, <2>3, <2>4, <1>1, <1>2, <1>5, <1>8, ReaderReplaced DEF H, k, n
<1>9. CASE /\ Backwards(o, d) /\ Recyclable(o.k)
           /\ LET a == TermFieldReader(o.k, objects, kept)
                  r == SkipTo(a.objs[a.n], d)
              IN  /\ objects' = [a.objs EXCEPT ![n] = r.obj]
                  /\ kept' = Recycled(n, o.k, a.kept)
                  /\ Answer(c, r.got, Want(c, d))
  <2>1. Threshold = 0
    BY <1>3, <1>9 DEF Reused, ReaderAssumption
  <2>2. kept = <<>> /\ kept \in Seq(1..Len(objects))
    BY <2>1 DEF ReadersInv, ReadersFit
  <2> DEFINE more == [Append(objects, Fresh(AllDocs)) EXCEPT ![Len(objects) + 1] = Fresh(k)]
             q == SkipTo(Fresh(k), d)
  <2>3. /\ more \in Seq(Reader) /\ Len(more) = Len(objects) + 1
        /\ more[Len(objects) + 1] = Fresh(k)
        /\ \A m \in 1..Len(objects) : more[m] = objects[m]
    <3>1. Fresh(AllDocs) \in Reader
      BY <1>6, FreshPlaced DEF Kinds
    <3> DEFINE app == Append(objects, Fresh(AllDocs))
    <3>2. /\ app \in Seq(Reader) /\ Len(app) = Len(objects) + 1
          /\ \A m \in 1..Len(objects) : app[m] = objects[m]
      BY <3>1, <1>6
    <3> HIDE DEF app
    <3>3. more = [app EXCEPT ![Len(objects) + 1] = Fresh(k)]
      BY DEF app
    <3> HIDE DEF more
    <3> QED
      BY <3>2, <3>3, <1>6, <1>7
  <2> DEFINE a == TermFieldReader(o.k, objects, kept)
  <2>4. a.n = Len(objects) + 1 /\ a.kept = <<>> /\ a.objs = more
    <3>1. TermFieldReader(k, objects, kept) = [n |-> Len(objects) + 1, kept |-> kept, objs |-> more]
      BY <2>2, <1>2, <1>6, TermFieldReaderGives
    <3> HIDE DEF more
    <3> QED
      BY <3>1, <2>2, <1>2
  <2> HIDE DEF more, a
  <2>5. /\ objects' = [more EXCEPT ![n] = q.obj]
        /\ kept' = Recycled(n, o.k, <<>>)
        /\ Answer(c, q.got, Want(c, d))
    BY <1>9, <2>3, <2>4 DEF a
  <2>6. kept' = kept
    BY <2>1, <2>2, <2>5 DEF Recycled
  <2>7. /\ q.obj \in Reader /\ q.obj.k = k
        /\ q.got = First({e \in H : e >= d})
        /\ Placed(H, q.obj, After(q.got))
    <3>1. Lefts(H, Fresh(k), 0) /\ 0 <= d /\ Fresh(k).seg <= SegmentOf(d)
      BY <1>4, <1>7 DEF Placed
    <3> QED
      BY <3>1, <1>1, <1>2, <1>7, SkipFinds
  <2> HIDE DEF q
  <2>8. /\ objects' \in Seq(Reader) /\ Len(objects') = Len(objects) + 1 /\ objects'[n] = q.obj
        /\ \A m \in 1..Len(objects) : m # n => objects'[m] = objects[m]
    BY <2>3, <1>2, <1>6, <2>5, <2>7
  <2>9. Len(objects) <= Len(objects')
    BY <2>8, <1>6
  <2>10. q.got \in 0..End /\ Answer(c, q.got, q.got)
    BY <2>5, <2>7, <1>5
  <2> QED
    BY <2>6, <2>7, <2>8, <2>9, <2>10, <1>1, <1>2, ReaderMoves DEF n, k
<1>10. CASE /\ Backwards(o, d) /\ ~Recyclable(o.k)
            /\ LET r == SkipTo([Fresh(o.k) EXCEPT !.curr = o.curr], d)
               IN  /\ objects' = [objects EXCEPT ![n] = r.obj]
                   /\ kept' = kept /\ Answer(c, r.got, Want(c, d))
  <2> DEFINE f == [Fresh(o.k) EXCEPT !.curr = o.curr]
             q == SkipTo(f, d)
  <2>1. f \in Reader /\ f.k = k /\ f.seg = Fresh(k).seg /\ f.left = Fresh(k).left
    BY <1>2, <1>7 DEF Reader
  <2> HIDE DEF f
  <2>2. Lefts(H, f, 0) /\ 0 <= d /\ f.seg <= SegmentOf(d)
    BY <2>1, <1>4, <1>7 DEF Placed, Lefts
  <2>3. /\ q.obj \in Reader /\ q.obj.k = k
        /\ q.got = First({e \in H : e >= d})
        /\ Placed(H, q.obj, After(q.got))
    BY <2>1, <2>2, <1>1, <1>2, SkipFinds
  <2>4. objects' = [objects EXCEPT ![n] = q.obj] /\ kept' = kept /\ Answer(c, q.got, Want(c, d))
    BY <1>10 DEF f
  <2> HIDE DEF q
  <2>5. PICK p \in Reader : p = q.obj
    BY <2>3
  <2>6. PICK got \in 0..End : got = q.got
    BY <2>3, <1>5
  <2> QED
    BY <2>3, <2>4, <2>5, <2>6, <1>1, <1>2, <1>5, ReaderReplaced DEF H, k, n
<1> QED
  BY <1>3, <1>8, <1>9, <1>10

LEMMA CloseKeepsReaders ==
  ASSUME ReaderAssumption, ReadersInv, NEW c \in Clients, Close(c)
  PROVE  ReadersInv'
<1> DEFINE n == using[c]
<1>1. /\ n # 0 /\ kept' = Recycled(n, objects[n].k, kept) /\ using' = [using EXCEPT ![c] = 0]
      /\ hits' = hits /\ objects' = objects /\ asks' = asks /\ answer' = answer
  BY DEF Close
<1>2. /\ using \in [Clients -> 0..Len(objects)] /\ Len(objects) \in Nat
      /\ kept \in Seq(1..Len(objects)) /\ Len(kept) \in Nat /\ Len(kept) <= Threshold
      /\ Threshold \in Nat
  BY DEF ReadersInv, ReadersFit, ReaderAssumption
<1>3. n \in 1..Len(objects) /\ \A i \in 1..Len(kept) : kept[i] # n
  BY <1>1, <1>2 DEF ReadersInv, ReadersApart, Contains
<1>4. /\ using' \in [Clients -> 0..Len(objects)] /\ using'[c] = 0
      /\ \A b \in Clients \ {c} : using'[b] = using[b]
  BY <1>1, <1>2
<1>5. \A b \in Clients \ {c} : using[b] # n
  BY <1>1 DEF ReadersInv, ReadersApart
<1> HIDE DEF n
<1>6. /\ kept' \in Seq(1..Len(objects)) /\ Len(kept') <= Threshold
      /\ \A i, j \in 1..Len(kept') : i # j => kept'[i] # kept'[j]
      /\ \A i \in 1..Len(kept') : kept'[i] = n \/ \E j \in 1..Len(kept) : kept'[i] = kept[j]
  <2>1. CASE kept' = kept
    BY <2>1, <1>2 DEF ReadersInv, KeptOnce
  <2>2. CASE kept' = Append(kept, n) /\ Len(kept) < Threshold
    BY <2>2, <1>2, <1>3 DEF ReadersInv, KeptOnce
  <2> QED
    BY <1>1, <2>1, <2>2 DEF Recycled
<1>7. ReadersApart'
  BY <1>4, <1>5, <1>6 DEF ReadersInv, ReadersApart, Contains
<1>8. InPlace'
  BY <1>1, <1>4 DEF ReadersInv, InPlace
<1> QED
  BY <1>1, <1>4, <1>6, <1>7, <1>8 DEF ReadersInv, ReadersFit, KeptOnce, AnswersExact

\* Nothing of the readers changes.
LEMMA StutterKeepsReaders ==
  ASSUME ReadersInv,
         UNCHANGED <<hits, objects, kept, using, asks, answer>>
  PROVE  ReadersInv'
BY DEF ReadersInv, ReadersFit, KeptOnce, ReadersApart, InPlace, AnswersExact

LEMMA ReadersHoldAtFirst ==
  ASSUME ReaderAssumption, ReadersInit
  PROVE  ReadersInv
<1>1. PICK live \in SUBSET Docs, h \in [Terms -> SUBSET Docs] :
        hits = [k \in Terms \cup {AllDocs} |-> IF k = AllDocs THEN live ELSE h[k] \cap live]
  BY DEF ReadersInit
<1>2. /\ objects = <<>> /\ kept = <<>> /\ using = [c \in Clients |-> 0]
      /\ asks = [c \in Clients |-> [k |-> AllDocs, from |-> 0]]
      /\ answer = [c \in Clients |-> [want |-> End, got |-> End]]
  BY DEF ReadersInit
<1>3. End \in Nat /\ Threshold \in Nat
  BY DEF ReaderAssumption, End
<1>4. hits \in [Terms \cup {AllDocs} -> SUBSET Docs]
  BY <1>1
<1>5. Len(objects) = 0 /\ Len(kept) = 0
  BY <1>2
<1>6. ReadersFit
  BY <1>3, <1>5, <1>2, <1>4 DEF Kinds, ReadersFit
<1> QED
  BY <1>2, <1>5, <1>6 DEF ReadersInv, KeptOnce, ReadersApart, Contains, InPlace, AnswersExact

LEMMA StepKeepsReaders ==
  ASSUME ReaderAssumption, ~Reused, ReadersInv, [ReadersNext]_readerVars
  PROVE  ReadersInv'
<1>1. ASSUME NEW c \in Clients, OpenTerm(c) PROVE ReadersInv'
  BY <1>1, OpenTermKeepsReaders
<1>2. ASSUME NEW c \in Clients, OpenOther(c) PROVE ReadersInv'
  BY <1>2, OpenOtherKeepsReaders
<1>3. ASSUME NEW c \in Clients, Next_(c) PROVE ReadersInv'
  BY <1>3, NextKeepsReaders
<1>4. ASSUME NEW c \in Clients, AdvanceTerm(c) PROVE ReadersInv'
  BY <1>4, AdvanceTermKeepsReaders
<1>5. ASSUME NEW c \in Clients, AdvanceDoc(c) PROVE ReadersInv'
  BY <1>5, AdvanceDocKeepsReaders
<1>6. ASSUME NEW c \in Clients, Close(c) PROVE ReadersInv'
  BY <1>6, CloseKeepsReaders
<1>7. CASE NewRoot \/ UNCHANGED readerVars
  BY <1>7, StutterKeepsReaders DEF NewRoot, readerVars
<1> QED
  BY <1>1, <1>2, <1>3, <1>4, <1>5, <1>6, <1>7 DEF ReadersNext

\* What a reader has left of its postings is what its client has not been
\* answered yet, and nobody else has it, in every reachable state: whatever the
\* segments, the terms, the clients and what they ask for (TermFieldReader, Next
\* and Advance).
THEOREM ReadersInvariant ==
  ASSUME ReaderAssumption, ~Reused
  PROVE  ReadersSpec => []ReadersInv
<1>1. ReadersInit => ReadersInv
  BY ReadersHoldAtFirst
<1>2. ReadersInv /\ [ReadersNext]_readerVars => ReadersInv'
  BY StepKeepsReaders
<1> QED
  BY <1>1, <1>2, PTL DEF ReadersSpec

\* Next and Advance answer the first document from where they are asked to go,
\* across segments, backwards too, and a reader is one client's: with the cache
\* of readers off, as it is by default, or when nobody goes back.
THEOREM ReadersAlwaysExact ==
  ASSUME ReaderAssumption
  PROVE  ReadersSpec => []ReadersExact
<1> DEFINE Inv == ~Reused => ReadersInv
<1>1. ReadersInit => Inv
  BY ReadersHoldAtFirst
<1>2. Inv /\ [ReadersNext]_readerVars => Inv'
  BY StepKeepsReaders DEF Reused
<1>3. Inv => ReadersExact
  BY DEF ReadersInv, ReadersExact
<1> QED
  BY <1>1, <1>2, <1>3, PTL DEF ReadersSpec

=============================================================================
