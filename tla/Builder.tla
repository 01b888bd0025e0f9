------------------------------ MODULE Builder ------------------------------
(***************************************************************************)
(* The offline builder (index/scorch/builder.go): documents are gathered   *)
(* in batches, a batch becomes a segment file in the build directory, and  *)
(* Close merges the files until one is left, which it moves to the index.  *)
(* Any step on disk may fail.  The mutex makes the calls of Index and      *)
(* Close follow each other; a call that returned an error may be repeated. *)
(***************************************************************************)
EXTENDS Naturals, FiniteSets, SequencesExt

CONSTANTS Docs,        \* the documents, each to be indexed once
          BatchSize, MergeMax,
          MaxFaults    \* bound: steps on disk that fail

\* What is assumed of the constants.
BuilderAssumption ==
  /\ IsFiniteSet(Docs)
  /\ {BatchSize, MergeMax} \subseteq Nat \ {0} /\ MaxFaults \in Nat

VARIABLES batch,     \* the documents of the batch
          segPaths,  \* the segment files to be merged, by number
          buildDir,  \* on disk: number -> documents of the file
          store,     \* the documents of the final segment and of root.bolt
          builder,   \* "open"; "merging" and "recording" within Close
          indexed,   \* the documents whose Index returned nil
          closed,    \* what Close returned: "", "error" or "nil"
          faults     \* steps on disk that have failed

builderVars == <<batch, segPaths, buildDir, store, builder, indexed, closed, faults>>

Fail == faults < MaxFaults /\ faults' = faults + 1
Succeed == UNCHANGED faults

\* segCount names a file as no other is named; here names are used again, to
\* bound them.
SegCount == CHOOSE n \in 0 .. Cardinality(DOMAIN buildDir) + Len(segPaths) :
              n \notin DOMAIN buildDir \cup ToSet(segPaths)

\* Docs become the file of that name.
WithFile(docs, files) ==
  [n \in DOMAIN files \cup {SegCount} |->
     IF n = SegCount THEN docs ELSE files[n]]

\* executeBatchLOCKED
WriteSegment(docs) ==
  \/ /\ Succeed
     /\ buildDir' = WithFile(docs, buildDir)
     /\ segPaths' = Append(segPaths, SegCount)
  \/ Fail /\ UNCHANGED <<buildDir, segPaths>>

\* The batch is emptied even when it could not be written.
Index(d) ==
  LET full == batch \cup {d}
  IN  /\ builder = "open" /\ closed # "nil"
      /\ IF Cardinality(full) >= BatchSize
         THEN WriteSegment(full) /\ batch' = {}
         ELSE batch' = full /\ Succeed /\ UNCHANGED <<segPaths, buildDir>>
      /\ indexed' = IF faults' = faults THEN indexed \cup {d} ELSE indexed
      /\ UNCHANGED <<store, builder, closed>>

---------------------------------------------------------------------------
(* Close *)

CloseFails == builder' = "open" /\ closed' = "error"

\* Mutant: a partial batch is left behind.
FlushFullBatch ==
  /\ builder = "open" /\ closed # "nil"
  /\ Succeed /\ UNCHANGED <<segPaths, buildDir>>
  /\ builder' = "merging"
  /\ UNCHANGED <<batch, store, indexed, closed>>

FlushPartialBatch ==
  /\ builder = "open" /\ closed # "nil"
  /\ IF batch = {} THEN Succeed /\ UNCHANGED <<segPaths, buildDir>>
                   ELSE WriteSegment(batch)
  /\ batch' = {}
  /\ IF faults' = faults THEN builder' = "merging" /\ UNCHANGED closed
                             ELSE CloseFails
  /\ UNCHANGED <<store, indexed>>

MergeCount == IF MergeMax > Len(segPaths) THEN Len(segPaths) ELSE MergeMax

Rest == SubSeq(segPaths, MergeCount + 1, Len(segPaths))

MergedFiles == ToSet(SubSeq(segPaths, 1, MergeCount))
MergedDocs == UNION {buildDir[n] : n \in MergedFiles}

\* The files merged leave segPaths first and the directory last.
MergeSegments ==
  /\ builder = "merging" /\ Len(segPaths) > 1
  /\ MergedFiles \subseteq DOMAIN buildDir /\ Succeed
  /\ segPaths' = Append(Rest, SegCount)
  /\ buildDir' = WithFile(MergedDocs, [n \in DOMAIN buildDir \ MergedFiles |->
                                       buildDir[n]])
  /\ UNCHANGED <<batch, store, builder, indexed, closed>>

\* A file cannot be opened, the merge fails, or a merged file cannot be
\* removed: the new one is listed already then.
MergeSegmentsFails ==
  /\ builder = "merging" /\ Len(segPaths) > 1
  /\ IF MergedFiles \subseteq DOMAIN buildDir THEN Fail ELSE Succeed
  /\ \/ segPaths' = Rest /\ UNCHANGED buildDir
     \/ /\ MergedFiles \subseteq DOMAIN buildDir
        /\ segPaths' = Append(Rest, SegCount)
        /\ buildDir' = WithFile(MergedDocs, buildDir)
  /\ CloseFails
  /\ UNCHANGED <<batch, store, indexed>>

\* Nothing was indexed: segPaths[0] is out of range.
ClosePanics ==
  /\ builder = "merging" /\ segPaths = <<>>
  /\ builder' = "panic"
  /\ UNCHANGED <<batch, segPaths, buildDir, store, indexed, closed,
                 faults>>

\* The final segment keeps its place in segPaths.  Once the rename is done a
\* failure leaves the index without root.bolt.
MoveFinalSegment ==
  /\ builder = "merging" /\ Len(segPaths) = 1
  /\ \/ /\ segPaths[1] \in DOMAIN buildDir /\ Succeed
        /\ store' = [segment |-> buildDir[segPaths[1]], bolt |-> FALSE]
        /\ buildDir' = [n \in {} |-> {}]
        /\ builder' = "recording" /\ UNCHANGED closed
     \/ /\ segPaths[1] \in DOMAIN buildDir /\ Fail
        /\ CloseFails /\ UNCHANGED <<store, buildDir>>
     \/ /\ segPaths[1] \notin DOMAIN buildDir /\ Succeed
        /\ CloseFails /\ UNCHANGED <<store, buildDir>>
  /\ UNCHANGED <<batch, segPaths, indexed>>

WriteRootBolt ==
  /\ builder = "recording"
  /\ \/ /\ Succeed
        /\ store' = [store EXCEPT !.bolt = TRUE]
        /\ closed' = "nil" /\ builder' = "open"
     \/ Fail /\ CloseFails /\ UNCHANGED store
  /\ UNCHANGED <<batch, segPaths, buildDir, indexed>>

BuilderInit ==
  /\ batch = {} /\ segPaths = <<>>
  /\ buildDir = [n \in {} |-> {}]
  /\ store = [segment |-> {}, bolt |-> FALSE]
  /\ builder = "open" /\ indexed = {} /\ closed = "" /\ faults = 0

CloseStep == \/ MergeSegments
             \/ MergeSegmentsFails
             \/ ClosePanics
             \/ MoveFinalSegment
             \/ WriteRootBolt

BuilderNext ==
  \/ \E d \in Docs \ indexed : Index(d)
  \/ FlushPartialBatch
  \/ CloseStep

BuilderSpec == BuilderInit /\ [][BuilderNext]_builderVars /\ WF_builderVars(CloseStep)

---------------------------------------------------------------------------
(* Properties *)

\* The files to be merged have different names; none is without documents.
BuilderTypeOK ==
  /\ builder \in {"open", "merging", "recording", "panic"}
  /\ closed \in {"", "error", "nil"}
  /\ IsInjective(segPaths) /\ ToSet(segPaths) \subseteq Nat
  /\ \A n \in DOMAIN buildDir : buildDir[n] # {} /\ buildDir[n] \subseteq Docs

\* Indexing a document twice is not allowed, so the builder must not do it
\* itself: no document is in two of the files to be merged, or in one and in
\* the batch.
ListedOnce ==
  LET listed == {i \in DOMAIN segPaths : segPaths[i] \in DOMAIN buildDir}
  IN  \A i, j \in listed :
        /\ i # j => buildDir[segPaths[i]] \cap buildDir[segPaths[j]] = {}
        /\ batch \cap buildDir[segPaths[i]] = {}

\* When Close returns nil, the index has the documents whose Index did.
BuiltComplete == closed = "nil" => store.bolt /\ store.segment = indexed

\* Index and Close (builder.go): as long as no step on disk has failed, Close
\* returns nil for an index with every document that was accepted; and whatever
\* has failed before, no document is merged twice.
BuiltRight == ListedOnce /\ (faults = 0 => BuiltComplete)

\* Close returns: "as long as we have more than 1 segment, keep merging".
BuilderReturns == builder \in {"merging", "recording"} ~> builder \in {"open", "panic"}
=============================================================================
