--------------------------- MODULE MCScorchRoot ---------------------------
(* Small instances of ScorchRoot for TLC. *)
EXTENDS ScorchRoot, TLC

CONSTANTS d1, d2, v1, v2, w1, w2

MCWriters == {w1, w2}

Put(i, v) == [ops |-> i :> v, internal |-> Keep]

\* An insert, an update that also brings a second document, a delete and a
\* change of the internal value alone.
MCBatches == {Put(d1, v1),
              [ops |-> d1 :> v2 @@ d2 :> v1, internal |-> v1],
              [ops |-> d1 :> NoVal, internal |-> Keep]}

\* Writers are interchangeable; no liveness is checked.
MCSymmetry == Permutations(MCWriters)
=============================================================================
