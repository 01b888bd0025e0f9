---------------------------- MODULE DurableIndex ----------------------------
(***************************************************************************)
(* What scorch promises about restarts and rollbacks: the index is the     *)
(* outcome of a sequence of batches; the callers of a prefix of them have  *)
(* been told that theirs is persisted; a restart loses the effect of a     *)
(* suffix, never of a batch whose caller has been told; a rollback goes    *)
(* back to the batch it was asked to go back to, told or not.  ScorchStore *)
(* is shown to implement this module.                                      *)
(***************************************************************************)
EXTENDS Naturals, Sequences

CONSTANTS NoVal,   \* "no document"
          Batch    \* the batches: each maps the identifiers it mentions to
                   \* a version, or to NoVal for a delete

Ids(b) == DOMAIN b
DocsOf(b) == {[id |-> i, val |-> b[i]] : i \in {j \in Ids(b) : b[j] # NoVal}}
Applied(docs, b) == {d \in docs : d.id \notin Ids(b)} \cup DocsOf(b)

VARIABLES history,   \* history[n + 1]: the contents after n batches
          acked,     \* the batches reported persisted are the first acked
          contents,  \* the documents a reader opened now would see
          rollbacks  \* the numbers of batches rolled back to, in order

vars == <<history, acked, contents, rollbacks>>

Init == /\ contents = {}
        /\ history = <<{}>>
        /\ acked = 0
        /\ rollbacks = <<>>

Apply(b) == /\ contents' = Applied(contents, b)
            /\ history' = Append(history, contents')
            /\ UNCHANGED <<acked, rollbacks>>

\* The first n batches are reported persisted.
Acknowledge(n) == /\ acked' = n
                  /\ UNCHANGED <<history, rollbacks, contents>>

BackTo(n) == /\ history' = SubSeq(history, 1, n + 1)
             /\ contents' = history[n + 1]

\* The batches after the n-th are lost.
Restart(n) == /\ UNCHANGED <<acked, rollbacks>>
              /\ BackTo(n)

RollBack(n) == /\ rollbacks' = Append(rollbacks, n)
               /\ acked' = IF n < acked THEN n ELSE acked
               /\ BackTo(n)

Next == \/ \E n \in acked .. Len(history) - 1 : Acknowledge(n) \/ Restart(n)
        \/ \E n \in 0 .. Len(history) - 1 : RollBack(n)
        \/ \E b \in Batch : Apply(b)

Spec == Init /\ [][Next]_vars
=============================================================================
