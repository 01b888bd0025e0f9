--------------------------- MODULE MCScorchStore ---------------------------
(* Small instances of ScorchStore for TLC. *)
EXTENDS ScorchStore, TLC

CONSTANTS d1, d2, d3, v1, v2

\* A new version of d1, and one of both: segments become partly deleted.
MCUpdates == {d1 :> v1, d1 :> v2 @@ d2 :> v1}

\* One document each: three segments live at once.
MCPuts == {d1 :> v1, d2 :> v1, d3 :> v1}

\* Which of the other actors a run goes without.
MCNoCopy == copy = NoSnapshot
MCNoCopyNoRollback == MCNoCopy /\ rollbacks = <<>>
MCNoCopyNoMerger == MCNoCopy /\ merger = NoTask

\* Either crashes and rollbacks, or an online copy of two batches while all is
\* well.
MCRollbackOrCopy ==
  MCNoCopyNoMerger \/ (restarts = 0 /\ rollbacks = <<>> /\ root.internal <= 2)
=============================================================================
