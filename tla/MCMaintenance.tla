---------------------------- MODULE MCMaintenance ----------------------------
(* What goes on behind the batches: snapshots are retained and purged,      *)
(* merges are planned, an index is built offline, and the mapping of an     *)
(* index is updated.  A behaviour is about one of these.                    *)
EXTENDS Builder, TLC

CONSTANT Subjects \* the instances a run is about
VARIABLE subject   \* the one a behaviour is about

\* The value of the variables of the other components.
Unused == "unused"

------------------------------------------------------------------------------
(* Retention: the newest one or two snapshots, and a time series of three.  *)
VARIABLES
  bolt, checkPoints, eligible, inUse, root, persister, now, restarts
Retaining ==
  <<bolt, checkPoints, eligible, inUse, root, persister, now, restarts>>
NoRetaining ==
  /\ bolt = Unused /\ checkPoints = Unused /\ eligible = Unused
  /\ inUse = Unused /\ root = Unused /\ persister = Unused /\ now = Unused
  /\ restarts = Unused

\* One snapshot is kept by default; the interval is 0 then.
One == INSTANCE Retention WITH
  NumSnapshotsToKeep <- 1, RollbackSamplingInterval <- 0, TickLength <- 1,
  RetentionNum <- 1, RetentionDen <- 2, PurgeMayFail <- TRUE, MaxEpoch <- 5,
  MaxTime <- 1, MaxRestarts <- 1
Newest == INSTANCE Retention WITH
  NumSnapshotsToKeep <- 2, RollbackSamplingInterval <- 0, TickLength <- 1,
  RetentionNum <- 1, RetentionDen <- 2, PurgeMayFail <- FALSE, MaxEpoch <- 5,
  MaxTime <- 1, MaxRestarts <- 1
Series == INSTANCE Retention WITH
  NumSnapshotsToKeep <- 3, RollbackSamplingInterval <- 3, TickLength <- 2,
  RetentionNum <- 1, RetentionDen <- 2, PurgeMayFail <- FALSE, MaxEpoch <- 5,
  MaxTime <- 7, MaxRestarts <- 0

------------------------------------------------------------------------------
(* MergePlan: batches, deletions, plans and merges.                        *)
VARIABLES
  segments, eligibles, budget, tasks, planner, flushes, deletes
Planning == <<segments, eligibles, budget, tasks, planner, flushes, deletes>>
NoPlanning ==
  /\ segments = Unused /\ eligibles = Unused /\ budget = Unused
  /\ tasks = Unused /\ planner = Unused /\ flushes = Unused
  /\ deletes = Unused

\* <<size, file size, has vectors>>: small segments, and larger ones with
\* vectors and a large file.
Shapes == {<<1, 1, FALSE>>, <<2, 5, TRUE>>}

Plans == INSTANCE MergePlan WITH
  MaxSegmentsPerTier <- 1, MaxSegmentSize <- 6, MaxSegmentFileSize <- 12,
  TierGrowth <- 2, SegmentsPerMergeTask <- 3, FloorSegmentSize <- 1,
  FloorSegmentFileSize <- 0, MaxSegments <- 5, MaxFlushes <- 5,
  MaxDeletes <- 1, pc <- planner

------------------------------------------------------------------------------
(* Builder: batches, merges, Close, and steps on disk that fail; it is      *)
(* extended, and a second instance of it has no failures.                   *)
Building == builderVars
NoBuilding == BuilderInit

Builds == INSTANCE Builder WITH Docs <- 1..5, MaxFaults <- 0

------------------------------------------------------------------------------
(* FieldUpdates: an index opened with other mappings than before.           *)
VARIABLES
  state, request, locked, im, rootSnapshot, base, pending, stored, accepted,
  dropped
Updating ==
  <<state, request, locked, im, rootSnapshot, base, pending, stored, accepted,
    dropped>>
NoUpdating ==
  /\ state = Unused /\ request = Unused /\ locked = Unused /\ im = Unused
  /\ rootSnapshot = Unused /\ base = Unused /\ pending = Unused
  /\ stored = Unused /\ accepted = Unused /\ dropped = Unused

Field(opts) == [enabled |-> TRUE, opts |-> opts, all |-> FALSE, kind |-> "text"]
Mapping(f) == [indexDynamic |-> FALSE, otherDynamic |-> FALSE, dynamic |-> {}, fields |-> f,
               custom |-> "text" :> 1, parts |-> 1]

\* a top-level field without a name, a field of two type mappings under one
\* name, and a nested field
A     == [root |-> "", path |-> <<"a">>, name |-> ""]
B1    == [root |-> "t1", path |-> <<"b">>, name |-> "n"]
B2    == [root |-> "t2", path |-> <<"b">>, name |-> "n"]
Deep  == [root |-> "", path |-> <<"d", "e">>, name |-> "e"]
Deep0 == [root |-> "", path |-> <<"d", "e">>, name |-> ""]

SomePlaces == {A, B1, B2, Deep, Deep0}

Three == Field({"index", "docvalues", "store"})
Two   == Field({"index", "docvalues"})

Full     == Mapping(A :> Three @@ B1 :> Two @@ B2 :> Two @@ Deep :> Two)
NoStore  == Mapping(A :> Two @@ B1 :> Two @@ B2 :> Two @@ Deep :> Two)
NoIndex  == Mapping(A :> Field({"store"}) @@ B1 :> Two @@ B2 :> Two @@ Deep :> Two)
NoB      == Mapping(A :> Three @@ Deep :> Two)
OneB     == Mapping(A :> Three @@ B1 :> Two @@ Deep :> Two)
NoDeep   == Mapping(A :> Two @@ B1 :> Two @@ B2 :> Two)
OtherKind == Mapping(A :> [Three EXCEPT !.kind = "number"] @@ B1 :> Two @@ B2 :> Two @@ Deep :> Two)
InAll    == Mapping(A :> [Three EXCEPT !.all = TRUE] @@ B1 :> Two @@ B2 :> Two @@ Deep :> Two)

Redefined == [NoStore EXCEPT !.custom = "text" :> 2]
OtherParts == [NoB EXCEPT !.parts = 2]

Changes == {NoStore, NoIndex, NoB, OneB, NoDeep, OtherKind, InAll, Redefined, OtherParts}
FewChanges == {NoStore, NoB}

\* a document mapping that is disabled at first
Off    == Mapping(A :> Three @@ B1 :> [Two EXCEPT !.enabled = FALSE])
On     == Mapping(A :> Three @@ B1 :> Two)
TurnOn == {On}

\* a nested field mapping without a name of its own
Nested   == Mapping(A :> Three @@ Deep0 :> Two)
UnNested == {Mapping(A :> Three)}

\* a field that cannot be removed
Refusing == {OtherKind}

Writes == {"batch", "merge", "forcemerge"}
OnlyForce == {"forcemerge"}
NoWrites == {}

Narrowed == INSTANCE FieldUpdates WITH
  Places <- SomePlaces, Original <- Full, Updates <- Changes,
  MaxSegments <- 3, MaxKept <- 2, AfterUpdate <- NoWrites,
  root <- rootSnapshot, bolt <- stored
Merged == INSTANCE FieldUpdates WITH
  Places <- SomePlaces, Original <- Full, Updates <- FewChanges,
  MaxSegments <- 4, MaxKept <- 2, AfterUpdate <- OnlyForce,
  root <- rootSnapshot, bolt <- stored
Written == INSTANCE FieldUpdates WITH
  Places <- SomePlaces, Original <- Full, Updates <- FewChanges,
  MaxSegments <- 3, MaxKept <- 2, AfterUpdate <- Writes, root <- rootSnapshot,
  bolt <- stored

------------------------------------------------------------------------------
\* What the components assume of their constants holds of these instances.
ASSUME InstancesAssumption ==
  /\ One!RetentionAssumption /\ Newest!RetentionAssumption /\ Series!RetentionAssumption
  /\ Plans!PlanAssumption /\ BuilderAssumption
  /\ Builds!BuilderAssumption /\ Narrowed!UpdateAssumption
  /\ Merged!UpdateAssumption /\ Written!UpdateAssumption

------------------------------------------------------------------------------
\* A behaviour is about one subject.
Is(s) == s \in Subjects /\ subject = s

Init ==
  \/ /\ Is("one") /\ One!Init
     /\ NoPlanning /\ NoBuilding /\ NoUpdating
  \/ /\ Is("newest") /\ Newest!Init
     /\ NoPlanning /\ NoBuilding /\ NoUpdating
  \/ /\ Is("series") /\ Series!Init
     /\ NoPlanning /\ NoBuilding /\ NoUpdating
  \/ /\ Is("plans") /\ Plans!Init
     /\ NoRetaining /\ NoBuilding /\ NoUpdating
  \/ /\ Is("builds") /\ Builds!BuilderInit
     /\ NoRetaining /\ NoPlanning /\ NoUpdating
  \/ /\ Is("fails") /\ BuilderInit
     /\ NoRetaining /\ NoPlanning /\ NoUpdating
  \/ /\ Is("updates") /\ Narrowed!Init
     /\ NoRetaining /\ NoPlanning /\ NoBuilding
  \/ /\ Is("merged") /\ Merged!Init
     /\ NoRetaining /\ NoPlanning /\ NoBuilding
  \/ /\ Is("written") /\ Written!Init
     /\ NoRetaining /\ NoPlanning /\ NoBuilding

Next ==
  \/ subject = "one" /\ One!Next
     /\ UNCHANGED <<subject, Planning, Building, Updating>>
  \/ subject = "newest" /\ Newest!Next
     /\ UNCHANGED <<subject, Planning, Building, Updating>>
  \/ subject = "series" /\ Series!Next
     /\ UNCHANGED <<subject, Planning, Building, Updating>>
  \/ subject = "plans" /\ Plans!Next
     /\ UNCHANGED <<subject, Retaining, Building, Updating>>
  \/ subject = "builds" /\ Builds!BuilderNext
     /\ UNCHANGED <<subject, Retaining, Planning, Updating>>
  \/ subject = "fails" /\ BuilderNext
     /\ UNCHANGED <<subject, Retaining, Planning, Updating>>
  \/ subject = "updates" /\ Narrowed!Next
     /\ UNCHANGED <<subject, Retaining, Planning, Building>>
  \/ subject = "merged" /\ Merged!Next
     /\ UNCHANGED <<subject, Retaining, Planning, Building>>
  \/ subject = "written" /\ Written!Next
     /\ UNCHANGED <<subject, Retaining, Planning, Building>>

vars == <<subject, Retaining, Planning, Building, Updating>>

(***************************************************************************)
(* The goroutine of the merger goes on, and so does a call of Close.        *)
(***************************************************************************)
Plan == subject = "plans" /\ Plans!MergerStep /\ UNCHANGED <<subject, Retaining, Building, Updating>>
Close ==
  /\ \/ subject = "builds" /\ Builds!CloseStep
     \/ subject = "fails" /\ CloseStep
  /\ UNCHANGED <<subject, Retaining, Planning, Updating>>
Spec == Init /\ [][Next]_vars /\ WF_vars(Plan) /\ WF_vars(Close)

------------------------------------------------------------------------------
\* The snapshots kept are the newest or those of the time series, as many as
\* are to be kept, a released one is not forgotten; a merge reduces the number
\* of segments; an update of the mapping only takes away.
KeepsWhatItMust ==
  [][/\ subject = "one" => One!KeepsNewest
     /\ subject = "newest" => /\ Newest!KeepsNewest /\ Newest!LeavesLittle
                              /\ Newest!ReleasedRemembered' /\ Newest!CheckPointsExist'
     /\ subject = "series" => Series!KeepsEnough
     /\ subject = "plans" => Plans!Reduces
     /\ subject = "updates" => Narrowed!OnlyRemoves]_vars

\* A plan has no segment twice, and no task whose merge is larger than allowed.
TasksFit == subject = "plans" => Plans!AtMostOneTask /\ Plans!TasksFit

\* Readers see what the accepted updates left, and nothing they dropped,
\* through reopening, rollback, further updates and the merges that carry an
\* update out.
FieldsFaithful ==
  /\ subject = "updates" => /\ Narrowed!DroppedStaysHidden /\ Narrowed!WantedStaysReadable
                            /\ Narrowed!MappingIsAccepted /\ Narrowed!StoredSegmentsAgree
                            /\ Narrowed!NextMergeDrops
  /\ subject = "merged" => /\ Merged!DroppedStaysHidden /\ Merged!WantedStaysReadable
                           /\ Merged!NextMergeDrops
  /\ subject = "written" => Written!WantedStaysReadable

\* The merger comes to rest when no batch comes any more, and Close of the
\* builder returns.
SettlesDown ==
  /\ <>[](subject = "plans" => tasks = {})
  /\ BuilderReturns
==============================================================================
