---------------------------- MODULE MCScorchRefs ----------------------------
(* The references to snapshots and segments, under three kinds of load.  A   *)
(* behaviour is about one of them.                                           *)
EXTENDS ScorchRefs

CONSTANT Subjects  \* the loads a run is about
CONSTANTS w1, w2, w3, r1
VARIABLE subject   \* the load of a behaviour

\* Safe batches, which the persister answers.
Safe == INSTANCE ScorchRefs WITH UnsafeBatch <- FALSE

\* What the component assumes of its constants holds of these values.
ASSUME InstancesAssumption == RefsAssumption /\ Safe!RefsAssumption

------------------------------------------------------------------------------
\* The goroutines that do something, and what of the bounds they use.
Only(W, R, merges, failures) ==
  /\ \A w \in Writer \ W : writers'[w] = writers[w]
  /\ \A r \in Reader \ R : readers'[r] = readers[r]
  /\ used'.merges <= merges /\ used'.failures <= failures

\* Unsafe batches and a file merge; safe batches of two writers; a reader and a
\* persister or merger that fails.
Bounded == \/ subject = "unsafe" /\ Only({w3}, {}, 1, 0)
           \/ subject = "safe" /\ Only({w1, w2}, {}, 0, 0)
           \/ subject = "fails" /\ Only({w3}, Reader, 0, 1)

MCInit == subject \in Subjects /\ Init

MCNext == /\ UNCHANGED subject
          /\ IF subject = "safe" THEN Safe!Next ELSE Next
          /\ Bounded

MCvars == <<subject, vars>>

\* The goroutines go on while one of them can, and callers of Batch take their
\* answers; whoever reads closes its reader.
Goes == /\ UNCHANGED <<subject, readers>>
        /\ IF subject = "safe" THEN Safe!Work ELSE Work
        /\ Bounded

MCFairness == /\ WF_MCvars(Goes)
              /\ \A r \in Reader : WF_MCvars(UNCHANGED subject /\ CloseReader(r))

MCSpec == MCInit /\ [][MCNext]_MCvars /\ MCFairness

------------------------------------------------------------------------------
\* In the end only the root is held and only its segments are open, whether the
\* index is closed or not.
OldReleasedInTheEnd == <>[]Released
==============================================================================
