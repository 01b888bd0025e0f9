------------------------------ MODULE MCHandles ------------------------------
(* Handles: goroutines that share open indexes and an alias, and processes  *)
(* that share the files of indexes.  A behaviour is about one of these and  *)
(* leaves the other as it begins.                                           *)
EXTENDS IndexHandles, IndexCreate, TLC

CONSTANT Subjects  \* what a run is about
VARIABLE subject   \* what a behaviour is about

\* What the components assume of their constants holds of these values.
ASSUME InstancesAssumption == HandleAssumption /\ CreateAssumption

------------------------------------------------------------------------------
(* What a behaviour leaves out of the calls that the constants allow.       *)

\* One of two goroutines changes the alias and closes indexes ...
OneWriter == call'["c2"].op \notin Writes
\* ... or both do, with a call less each.
FewerCalls == \A c \in Clients : calls'[c] < MaxCalls

\* Two processes at one path, read-only too, with errors and kills ...
OnePath == \A p \in Procs : doing'[p].path \in {NoPath, "x1"}
\* ... or at two paths, with copies and kills.
OnlyCopies ==
  \A p \in Procs : doing'[p].asked = "unset" /\ doing'[p].known /\ outcome'[p].res # "failed"

------------------------------------------------------------------------------
MCInit == subject \in Subjects /\ Init /\ CreateInit

Sharing == Next /\ UNCHANGED <<subject, fileVars>>
Creation == CreateNext /\ UNCHANGED <<subject, vars>>

MCNext ==
  \/ subject = "handles" /\ Sharing /\ OneWriter
  \/ subject = "writers" /\ Sharing /\ FewerCalls
  \/ subject = "creates" /\ Creation /\ OnePath
  \/ subject = "copies" /\ Creation /\ OnlyCopies

MCvars == <<subject, vars, fileVars>>

(***************************************************************************)
(* Goroutines and processes go on with their calls; a process closes what   *)
(* it has opened in the end, and gets a lock that is free again and again.  *)
(***************************************************************************)
Goes(A) == subject \in {"handles", "writers"} /\ A /\ UNCHANGED <<subject, fileVars>>
Proceeds(A) == subject = "creates" /\ A /\ UNCHANGED <<subject, vars>>

MCFairness ==
  /\ \A c \in Clients :
       /\ WF_MCvars(Goes(Continue(c)))
       /\ \A i \in Indexes : /\ WF_MCvars(Goes(ChildLock(c, i)))
                             /\ WF_MCvars(Goes(ChildCheck(c, i)))
                             /\ WF_MCvars(Goes(ChildDone(c, i)))
  /\ \A p \in Procs : /\ WF_MCvars(Proceeds(Work(p)))
                      /\ WF_MCvars(Proceeds(CloseIndex(p)))
                      /\ SF_MCvars(Proceeds(OpenBolt(p)))

MCSpec == MCInit /\ [][MCNext]_MCvars /\ MCFairness

------------------------------------------------------------------------------
\* Every call of a goroutine comes back as long as field dictionaries are
\* closed before the next call; every New and Open ends as long as indexes are
\* closed in the end.  (One of each: the other goes through the
\* same calls, or fewer.)
Busy ==
  \/ subject \in {"handles", "writers"} /\ call["c1"] # Idle
  \/ subject = "creates" /\ doing["p1"] # AtRest
EveryCallReturns == Busy ~> ~Busy
==============================================================================
