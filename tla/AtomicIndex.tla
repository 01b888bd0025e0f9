---------------------------- MODULE AtomicIndex ----------------------------
(***************************************************************************)
(* What scorch promises a caller of Batch, with no segments, no background *)
(* goroutines and no merging: an index is a set of documents, at most one  *)
(* per identifier, and one internal value; a batch takes effect at one     *)
(* point between its call and its return, all of it or (on an error) none. *)
(* ScorchRoot is shown to implement this module.                           *)
(***************************************************************************)
CONSTANTS Writer,  \* goroutines that call Batch
          DocId,   \* external document identifiers
          Val,     \* document versions, also used for the internal value
          NoVal,   \* "no document" / "no internal value"
          Keep,    \* a batch that leaves the internal value alone
          Batch    \* the batches a caller may submit

Doc == [id : DocId, val : Val]

(***************************************************************************)
(* An index.Batch: ops maps the identifiers it mentions to a version, or   *)
(* to NoVal for a delete; internal is the operation on the internal key.   *)
(***************************************************************************)
BatchType ==
  [ops : UNION {[ids -> Val \cup {NoVal}] : ids \in SUBSET DocId},
   internal : Val \cup {NoVal, Keep}]

Ids(b) == DOMAIN b.ops
Updates(b) == {i \in Ids(b) : b.ops[i] # NoVal}
DocsOf(b) == {[id |-> i, val |-> b.ops[i]] : i \in Updates(b)}

Applied(docs, b) == {d \in docs : d.id \notin Ids(b)} \cup DocsOf(b)
AppliedInternal(v, b) == IF b.internal = Keep THEN v ELSE b.internal

VARIABLES contents,  \* the documents a reader opened now would see
          internal,  \* the internal value that reader would see
          calls      \* per writer, the batch it is in the middle of submitting

vars == <<contents, internal, calls>>

Idle == [busy |-> FALSE]
Calling(b) == [busy |-> TRUE, batch |-> b]

Init == /\ contents = {}
        /\ internal = NoVal
        /\ calls = [w \in Writer |-> Idle]

Call(w, b) == /\ calls[w] = Idle
              /\ calls' = [calls EXCEPT ![w] = Calling(b)]
              /\ UNCHANGED <<contents, internal>>

TakeEffect(w) == /\ calls[w] # Idle
                 /\ contents' = Applied(contents, calls[w].batch)
                 /\ internal' = AppliedInternal(internal, calls[w].batch)
                 /\ calls' = [calls EXCEPT ![w] = Idle]

Fail(w) == /\ calls[w] # Idle
           /\ calls' = [calls EXCEPT ![w] = Idle]
           /\ UNCHANGED <<contents, internal>>

Next == \E w \in Writer : \/ \E b \in Batch : Call(w, b)
                          \/ TakeEffect(w)
                          \/ Fail(w)

Spec == Init /\ [][Next]_vars
=============================================================================
