----------------------------- MODULE Upsidedown -----------------------------
(* The key-value index: index/upsidedown over a transactional store.  A      *)
(* document is kept as rows: one per term and one per stored field, a back   *)
(* index row that lists them, and a dictionary row per term that counts its  *)
(* documents.  Fields are numbered by a cache in memory whose numbers are    *)
(* persisted as field rows by the write that first met the field.  Writers   *)
(* analyze concurrently and write one after the other; the process may stop  *)
(* at any time and reopen the store.                                         *)
EXTENDS Integers, FiniteSets, FiniteSetsExt, Functions

CONSTANTS
  DocIDs, Names,   \* documents; names of fields
  Contents,        \* contents of documents: sets of <<kind, name, term>>, kind "t" or "s"
  Writers,         \* concurrent callers of Update, Delete and Batch
  MaxWrites,       \* bound on calls
  MaxBatch,        \* bound on the documents of a call
  MayFail,         \* whether the store may refuse a write
  MayCrash         \* whether the process may stop and reopen the store

\* What is assumed of the constants; an identifier is none of the two names
\* below that stand for none.
UpsidedownAssumption ==
  /\ IsFiniteSet(DocIDs) /\ "no document" \notin DocIDs /\ "no writer" \notin Writers
  /\ \A c \in Contents :
       /\ IsFiniteSet(c)
       /\ \A e \in c : e = <<e[1], e[2], e[3]>> /\ e[1] \in {"t", "s"} /\ e[2] \in Names
  /\ MaxWrites \in Nat /\ MaxBatch \in Nat /\ MayFail \in BOOLEAN /\ MayCrash \in BOOLEAN

VARIABLES
  store,      \* the rows in the key-value store
  cache,      \* names of fields to their numbers, fieldCache
  docCount,   \* the number of documents, in memory
  lock,       \* the writer that holds writeMutex, or NoWriter
  writers,    \* the calls under way
  clock,      \* number of calls so far
  committed   \* what the writes done say of every document

vars == <<store, cache, docCount, lock, writers, clock, committed>>

NoWriter == "no writer"
Deleted == {<<"deleted", "deleted", "deleted">>}

\* f with the entries of g written over it.
Put(f, g) == [x \in DOMAIN f \cup DOMAIN g |-> IF x \in DOMAIN g THEN g[x] ELSE f[x]]
Without(f, S) == Restrict(f, DOMAIN f \ S)

IdleWriter ==
  [pc |-> "idle", batch |-> <<>>, version |-> 0, left |-> {}, rows |-> {}, fields |-> {}, old |-> <<>>]

(* A document's content is a set of <<kind, name, term>>; the key of its row *)
(* has the number of the field: [doc, kind, field, term].                    *)
RowKey(d, kind, i, t) == [doc |-> d, kind |-> kind, field |-> i, term |-> t]
Missing == {RowKey("no document", "t", 0, "-")}

Updated(w) == {d \in DOMAIN writers[w].batch : writers[w].batch[d] # Deleted}

Init ==
  /\ store = [fields |-> <<>>, rows |-> <<>>, back |-> <<>>, dict |-> <<>>]
  /\ cache = <<>> /\ docCount = 0 /\ lock = NoWriter /\ clock = 0
  /\ writers = [w \in Writers |-> IdleWriter]
  /\ committed = [d \in DocIDs |-> [content |-> {}, version |-> 0]]

(* Update, Delete or Batch is called: documents to be indexed or deleted. *)
Begin(w) ==
  /\ writers[w].pc = "idle" /\ clock < MaxWrites
  /\ clock' = clock + 1
  /\ \E D \in SUBSET DocIDs \ {{}} :
       /\ Cardinality(D) <= MaxBatch
       /\ \E batch \in [D -> Contents \cup {Deleted}] :
            writers' = [writers EXCEPT ![w] =
              [IdleWriter EXCEPT
                 !.pc = "running", !.batch = batch, !.version = clock + 1,
                 !.left = {x \in D \X Names : batch[x[1]] # Deleted
                             /\ \E e \in batch[x[1]] : e[2] = x[2]}]]
  /\ UNCHANGED <<store, cache, docCount, lock, committed>>

(***************************************************************************)
(* Analysis, in a goroutine of the queue.                                  *)
(***************************************************************************)
(* One more than lastFieldIndex. *)
NextIndex == IF cache = <<>> THEN 0 ELSE Max({cache[n] : n \in DOMAIN cache}) + 1

(* Mutant: only the first field of an index gets a row.                      *)
FirstFieldRow(name) == IF cache = <<>> THEN {<<NextIndex, name>>} ELSE {}

(* A field the cache has not seen gets the next number, and a row to persist *)
(* it among the rows of this document.                                       *)
NewFieldRow(name) == IF name \in DOMAIN cache THEN {} ELSE {<<NextIndex, name>>}

AnalyzeField(w, d, name) ==
  LET index == IF name \in DOMAIN cache THEN cache[name] ELSE NextIndex
      mine  == {e \in writers[w].batch[d] : e[2] = name}
  IN  /\ <<d, name>> \in writers[w].left
      /\ cache' = Put(cache, [n \in {name} |-> index])
      /\ writers' = [writers EXCEPT
           ![w].left   = @ \ {<<d, name>>},
           ![w].rows   = @ \cup {RowKey(d, e[1], index, e[3]) : e \in mine},
           ![w].fields = @ \cup NewFieldRow(name)]
  /\ UNCHANGED <<store, docCount, lock, clock, committed>>

(***************************************************************************)
(* The write.                                                              *)
(***************************************************************************)
(* Update and Delete take the mutex when their analysis is done, Batch       *)
(* already while it waits for it.                                            *)
Lock(w) ==
  /\ writers[w].pc \in {"running", "found"} /\ lock = NoWriter
  /\ lock' = w
  /\ UNCHANGED <<store, cache, docCount, writers, clock, committed>>

(* Mutant: the back index is read before the mutex is taken. *)
MayReadAnytime(w) == TRUE

MayLookUp(w) == lock = w

(* backIndexRowForDoc for every document of the call, in a reader of its own. *)
LookUp(w) ==
  /\ writers[w].pc = "running" /\ MayLookUp(w)
  /\ writers' = [writers EXCEPT ![w].pc = "found",
                   ![w].old = [d \in DOMAIN writers[w].batch |->
                                 IF d \in DOMAIN store.back THEN store.back[d] ELSE Missing]]
  /\ UNCHANGED <<store, cache, docCount, lock, clock, committed>>

NewRows(w, d) == {k \in writers[w].rows : k.doc = d}
OldRows(w, d) == IF writers[w].old[d] = Missing THEN {} ELSE writers[w].old[d]

(* mergeOldAndNew sorts the rows of a new version into rows to add and to    *)
(* update, and the old rows that are left into rows to delete.               *)
AddRows(w) == UNION {NewRows(w, d) \ OldRows(w, d) : d \in Updated(w)}
UpdateRows(w) == UNION {NewRows(w, d) \cap OldRows(w, d) : d \in Updated(w)}

(* The rows of the documents deleted (deleteSingle), too. *)
DeleteRows(w) ==
  UNION {OldRows(w, d) \ NewRows(w, d) : d \in DOMAIN writers[w].batch}

(* One merge per dictionary row with the sum of what the term rows add and   *)
(* take away.                                                                *)
DictKey(k) == <<k.field, k.term>>
Delta(w, x) ==
  Cardinality({k \in AddRows(w) : k.kind = "t" /\ DictKey(k) = x})
    - Cardinality({k \in DeleteRows(w) : k.kind = "t" /\ DictKey(k) = x})

FullMerge(count, delta) == IF count + delta < 0 THEN 0 ELSE count + delta

DictAfter(w) ==
  LET touched == {DictKey(k) : k \in {r \in AddRows(w) \cup DeleteRows(w) : r.kind = "t"}}
      before(x) == IF x \in DOMAIN store.dict THEN store.dict[x] ELSE 0
  IN  Put(store.dict, [x \in touched |-> FullMerge(before(x), Delta(w, x))])

(* batchRows builds one batch of the store: sets, deletes and merges. *)
BatchRows(w) ==
  LET written == AddRows(w) \cup UpdateRows(w)
      gone    == {d \in DOMAIN writers[w].batch \ Updated(w) : writers[w].old[d] # Missing}
  IN  [fields |-> Put(store.fields,
                      [i \in {f[1] : f \in writers[w].fields} |->
                         (CHOOSE f \in writers[w].fields : f[1] = i)[2]]),
       rows   |-> Without(Put(store.rows, [k \in written |-> writers[w].version]), DeleteRows(w)),
       back   |-> Without(Put(store.back, [d \in Updated(w) |-> NewRows(w, d)]), gone),
       dict   |-> DictAfter(w)]

(* ExecuteBatch commits the rows in one transaction. *)
Write(w) ==
  /\ writers[w].pc = "found" /\ lock = w /\ writers[w].left = {}
  /\ store' = BatchRows(w)
  /\ committed' = [d \in DocIDs |->
       IF d \notin DOMAIN writers[w].batch THEN committed[d]
       ELSE [content |-> IF d \in Updated(w) THEN writers[w].batch[d] ELSE {},
             version |-> IF d \in Updated(w) THEN writers[w].version ELSE 0]]
  /\ writers' = [writers EXCEPT ![w].pc = "written"]
  /\ UNCHANGED <<cache, docCount, lock, clock>>

Added(w) == Cardinality({d \in Updated(w) : writers[w].old[d] = Missing})
Removed(w) ==
  Cardinality({d \in DOMAIN writers[w].batch \ Updated(w) : writers[w].old[d] # Missing})

(* The number of documents changes after the store has: then the call        *)
(* returns.                                                                  *)
Return(w) ==
  /\ writers[w].pc = "written"
  /\ docCount' = docCount + Added(w) - Removed(w)
  /\ lock' = NoWriter
  /\ writers' = [writers EXCEPT ![w] = IdleWriter]
  /\ UNCHANGED <<store, cache, clock, committed>>

(* The store refuses the batch (a key too large, a full disk) and keeps      *)
(* nothing of it; the cache keeps the fields that the analysis has added.    *)
Refused(w) ==
  /\ MayFail /\ writers[w].pc = "found" /\ lock = w /\ writers[w].left = {}
  /\ lock' = NoWriter
  /\ writers' = [writers EXCEPT ![w] = IdleWriter]
  /\ UNCHANGED <<store, cache, docCount, clock, committed>>

(* Open: loadSchema reads the field rows, countDocs counts the back index. *)
CrashAndOpen ==
  /\ MayCrash
  /\ cache' = [n \in {store.fields[i] : i \in DOMAIN store.fields} |->
                 CHOOSE i \in DOMAIN store.fields : store.fields[i] = n]
  /\ docCount' = Cardinality(DOMAIN store.back)
  /\ lock' = NoWriter
  /\ writers' = [w \in Writers |-> IdleWriter]
  /\ UNCHANGED <<store, clock, committed>>

Next ==
  \/ \E w \in Writers : Begin(w) \/ Lock(w) \/ LookUp(w) \/ Write(w) \/ Return(w) \/ Refused(w)
  \/ \E w \in Writers, d \in DocIDs, name \in Names : AnalyzeField(w, d, name)
  \/ CrashAndOpen

Spec == Init /\ [][Next]_vars

(***************************************************************************)
(* Properties.                                                             *)
(***************************************************************************)
TypeOK ==
  /\ \A k \in DOMAIN store.rows : k.doc \in DocIDs /\ store.rows[k] \in 1..MaxWrites
  /\ \A x \in DOMAIN store.dict : store.dict[x] \in 0..Cardinality(DocIDs)
  /\ DOMAIN cache \subseteq Names /\ docCount \in 0..Cardinality(DocIDs)
  /\ lock \in Writers \cup {NoWriter} /\ clock \in 0..MaxWrites

(* The rows of the store agree with each other after every write: the back   *)
(* index lists exactly the rows there are, and every dictionary row counts   *)
(* the term rows of its term (mergeOldAndNew, batchRows, FullMerge).         *)
RowsConsistent ==
  /\ DOMAIN store.rows = UNION {store.back[d] : d \in DOMAIN store.back}
  /\ \A k \in DOMAIN store.rows : k.kind = "t" => DictKey(k) \in DOMAIN store.dict
  /\ \A x \in DOMAIN store.dict :
       store.dict[x] = Cardinality({k \in DOMAIN store.rows : k.kind = "t" /\ DictKey(k) = x})

(* The name of a field number, FieldIndexed. *)
FieldIndexed(i) == {n \in DOMAIN cache : cache[n] = i}

Found(d) ==
  UNION {{<<k.kind, n, k.term>> : n \in FieldIndexed(k.field)} :
           k \in {r \in DOMAIN store.rows : r.doc = d}}

(* A reader finds of every document exactly the terms and stored fields of   *)
(* its last write, under the names of their fields, and every row is from    *)
(* that write - through concurrent analysis, failed writes and reopening.    *)
ContentFaithful ==
  \A d \in DocIDs :
    /\ Found(d) = committed[d].content
    /\ \A k \in DOMAIN store.rows : k.doc = d => store.rows[k] = committed[d].version

(* Every row is of a field that has a field row (the schema fields that      *)
(* upsidedown_test.go counts after every write).                             *)
FieldRowsThere ==
  \A k \in DOMAIN store.rows : k.field \in DOMAIN store.fields

(* The number of documents is that of the store whenever no write is between *)
(* its commit and its count.                                                 *)
CountExact ==
  (\A w \in Writers : writers[w].pc # "written") => docCount = Cardinality(DOMAIN store.back)

(* One writer that is never refused: what it has added to the cache is       *)
(* written before another document uses it.                                  *)
Alone == ~MayFail /\ \A w, v \in Writers : w = v

(* What readers of the store can rely on.  A field that one writer has added *)
(* to the cache is used by the others before its row is written, so a crash  *)
(* between the two loses names unless there is one writer only.              *)
RowsFaithful ==
  /\ RowsConsistent /\ CountExact
  /\ (~MayCrash \/ Alone) => ContentFaithful
  /\ Alone => FieldRowsThere
=============================================================================
