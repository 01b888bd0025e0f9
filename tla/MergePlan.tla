----------------------------- MODULE MergePlan -----------------------------
(***************************************************************************)
(* The merge planner (index/scorch/mergeplan) and the segments it plans    *)
(* for: batches add small ones, updates delete documents in them, each     *)
(* task of a plan replaces its segments by one with their live documents.  *)
(*                                                                         *)
(* Which roster of a round is the best is ScoreSegments' business, which   *)
(* the options may replace: here any roster may be.                        *)
(***************************************************************************)
EXTENDS Integers, FiniteSetsExt, SequencesExt

CONSTANTS MaxSegmentsPerTier, MaxSegmentSize, MaxSegmentFileSize, TierGrowth,
          SegmentsPerMergeTask, FloorSegmentSize, FloorSegmentFileSize,
          Shapes,         \* <<size, file size, has vectors>> of new segments
          MaxSegments,    \* bound: segments at a time
          MaxFlushes,     \* bound: segments added by batches
          MaxDeletes      \* bound: documents deleted

\* What is assumed of the constants.
PlanAssumption ==
  /\ {MaxSegmentsPerTier, TierGrowth, SegmentsPerMergeTask} \subseteq Nat \ {0}
  /\ {MaxSegmentSize, MaxSegmentFileSize, FloorSegmentSize,
      FloorSegmentFileSize, MaxSegments, MaxFlushes, MaxDeletes} \subseteq Nat
  /\ Shapes \subseteq (Nat \ {0}) \X Nat \X BOOLEAN

VARIABLES segments,  \* of the index
          eligibles, \* of the plan being made, by live size
          budget,    \* budgetNumSegments
          tasks,     \* of the plan being made or executed
          pc,        \* "idle", "planning" or "merging"
          flushes, deletes

vars == <<segments, eligibles, budget, tasks, pc, flushes, deletes>>

Segment(id, live, file, vector) ==
  [id |-> id, full |-> live, live |-> live, file |-> file, vector |-> vector]

Live(S) == FoldSet(LAMBDA s, n : n + s.live, 0, S)
Files(S) == FoldSet(LAMBDA s, n : n + s.file, 0, S)
RaiseTo(floor, size) == Max({floor, size})

\* byLiveSizeDescending
Before(s, t) == s.live > t.live \/ (s.live = t.live /\ s.id < t.id)

IsEligible(s) ==
  /\ s.live < MaxSegmentSize \div 2
  /\ (s.vector /\ MaxSegmentFileSize > 0) =>
       s.file < MaxSegmentFileSize \div 2

(***************************************************************************)
(* The segments needed to cover total by a staircase of tiers, the first   *)
(* of segments as small as tier.                                           *)
(***************************************************************************)
CalcBudget[total \in Int, tier \in Nat] ==
  IF total <= 0 THEN 0
  ELSE IF total < MaxSegmentsPerTier * tier
  THEN (total + tier - 1) \div tier
  ELSE MaxSegmentsPerTier
         + CalcBudget[total - MaxSegmentsPerTier * tier, tier * TierGrowth]

Budget(planned) ==
  LET S == {s \in planned : IsEligible(s)}
      smallest(sizes) == Max({1, Min(sizes)})
  IN  IF FloorSegmentFileSize > 0
      THEN CalcBudget[Files(S), smallest({RaiseTo(FloorSegmentFileSize, s.file)
                                            : s \in planned})]
      ELSE CalcBudget[Live(S), smallest({RaiseTo(FloorSegmentSize, s.live)
                                           : s \in planned})]

\* Mutant: what is in the roster already is not counted.
FitsAlone(s, roster) ==
  /\ s.live < MaxSegmentSize
  /\ s.vector => s.file < MaxSegmentFileSize

Fits(s, roster) ==
  /\ Live(roster) + s.live < MaxSegmentSize
  /\ s.vector => Files({t \in roster : t.vector}) + s.file < MaxSegmentFileSize

\* The roster that starts at an index of eligibles; what does not fit is
\* passed over.
Roster(start) ==
  FoldLeft(LAMBDA roster, s :
             IF Cardinality(roster) < SegmentsPerMergeTask /\ Fits(s, roster)
             THEN roster \cup {s} ELSE roster,
           {}, SubSeq(eligibles, start, Len(eligibles)))

Rosters == {Roster(start) : start \in DOMAIN eligibles} \ {{}}

\* Mutant: any roster is worth a merge.
WorthAnyMerge(roster) == TRUE

\* Merging one segment would yield the same segment again.
WorthMerge(roster) == Cardinality(roster) > 1

RemoveSegments(roster) == SelectSeq(eligibles, LAMBDA s : s \notin roster)

---------------------------------------------------------------------------
\* The segments that are in no task but have no live document get one.
StartPlan ==
  LET S       == {s \in segments : IsEligible(s)}
      empties == {s \in S : s.live <= 0}
  IN  /\ pc = "idle" /\ Cardinality(segments) > 1
      /\ eligibles' = SetToSortSeq(S \ empties, Before)
      /\ budget' = Budget(segments)
      /\ tasks' = IF empties = {} THEN {} ELSE {empties}
      /\ pc' = "planning"
      /\ UNCHANGED <<segments, flushes, deletes>>

OverBudget == /\ eligibles # <<>>
              /\ Len(eligibles) + Cardinality(tasks) > budget

\* A round; one that finds a single segment only strikes it off.
AddTask ==
  /\ pc = "planning" /\ OverBudget
  /\ \E best \in Rosters :
       /\ tasks' = IF WorthMerge(best) THEN tasks \cup {best} ELSE tasks
       /\ eligibles' = RemoveSegments(best)
  /\ UNCHANGED <<segments, budget, pc, flushes, deletes>>

EndPlan ==
  /\ pc = "planning"
  /\ ~OverBudget \/ Rosters = {}
  /\ pc' = IF tasks = {} THEN "idle" ELSE "merging"
  /\ eligibles' = <<>> /\ budget' = 0
  /\ UNCHANGED <<segments, tasks, flushes, deletes>>

Named(task) == {s \in segments : \E t \in task : t.id = s.id}
\* Ids are given out by a counter; here they are reused, to bound them.
NewID == CHOOSE n \in 1 .. MaxSegments + 1 : \A s \in segments : s.id # n

\* The documents deleted since the plan are not in the merged segment.
ExecuteTask(task) ==
  LET old == Named(task)
      new == IF Live(old) = 0 THEN {}
             ELSE {Segment(NewID, Live(old), Files(old),
                           \E s \in old : s.vector)}
  IN  /\ pc = "merging" /\ task \in tasks
      /\ segments' = (segments \ old) \cup new
      /\ tasks' = tasks \ {task}
      /\ pc' = IF tasks' = {} THEN "idle" ELSE pc
      /\ UNCHANGED <<eligibles, budget, flushes, deletes>>

Flush(shape) ==
  /\ flushes < MaxFlushes /\ Cardinality(segments) < MaxSegments
  /\ flushes' = flushes + 1
  /\ segments' = segments \cup {Segment(NewID, shape[1], shape[2], shape[3])}
  /\ UNCHANGED <<eligibles, budget, tasks, pc, deletes>>

DeleteIn(s) ==
  /\ deletes < MaxDeletes /\ s.live > 0
  /\ deletes' = deletes + 1
  /\ segments' = (segments \ {s}) \cup {[s EXCEPT !.live = @ - 1]}
  /\ UNCHANGED <<eligibles, budget, tasks, pc, flushes>>

Init == /\ segments = {} /\ eligibles = <<>> /\ budget = 0 /\ tasks = {}
        /\ pc = "idle" /\ flushes = 0 /\ deletes = 0

MergerStep == \/ StartPlan
              \/ AddTask
              \/ EndPlan
              \/ \E task \in tasks : ExecuteTask(task)

Next == \/ MergerStep
        \/ \E shape \in Shapes : Flush(shape)
        \/ \E s \in segments : DeleteIn(s)

Spec == Init /\ [][Next]_vars /\ WF_vars(MergerStep)

---------------------------------------------------------------------------
(* Properties *)

SegmentType == [id : Nat, full : Nat, live : Nat, file : Nat, vector : BOOLEAN]

\* The ids tell the segments apart, and no segment has more live documents
\* than it has documents.
TypeOK == /\ segments \subseteq SegmentType
          /\ Range(eligibles) \subseteq SegmentType /\ budget \in Nat
          /\ \A s, t \in segments : s.id = t.id => s = t
          /\ \A s \in segments : s.live <= s.full

\* "A segment will be assigned to at most a single MergeTask in the output
\* MergePlan": else the second merge of it would bring its documents twice.
AtMostOneTask == \A t, u \in tasks : t = u \/ t \cap u = {}

\* "Max size of any segment produced after merging", in documents and, for
\* vectors, in bytes, as far as the planner can predict.
TasksFit ==
  \A t \in tasks :
    /\ Live(t) < MaxSegmentSize
    /\ (\E s \in t : s.vector /\ s.live > 0) =>
         Files({s \in t : s.vector}) < MaxSegmentFileSize

\* "The number of segments in any resulting MergeTask": no more than that.
TaskWidth == \A t \in tasks : Cardinality(t) <= SegmentsPerMergeTask

\* Every merge leaves fewer segments, or fewer documents to carry along.
Reduces == tasks \subseteq tasks' \/ Cardinality(segments') < Cardinality(segments)

\* Once no batch comes any more, the merger comes to rest: planning again
\* what was merged finds nothing to merge.
SettlesDown == <>[](tasks = {})
=============================================================================
