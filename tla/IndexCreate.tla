---------------------------- MODULE IndexCreate ----------------------------
(***************************************************************************)
(* Creating, opening, copying and closing an index on disk: New and Open   *)
(* of index_impl.go, index_meta.json of index_meta.go, and the root.bolt   *)
(* whose file lock scorch holds as long as an index is open.  The callers  *)
(* are processes that may be killed between any two file operations.       *)
(***************************************************************************)
EXTENDS Naturals, FiniteSets

CONSTANTS Procs, Paths, Mappings,
          NoPath, NoMapping,
          Runtime,   \* the "read_only" of the runtime configs used: "unset", "ro", "rw"
          Known,     \* whether the index types asked for are registered
          MayFail,   \* storage errors
          MayCrash,
          Copies,    \* whether indexes are copied
          MaxBegun   \* bound: calls of a process, Close not counted

\* What is assumed of the constants.
CreateAssumption ==
    /\ NoPath \notin Paths /\ NoMapping \notin Mappings
    /\ Runtime \subseteq {"unset", "ro", "rw"}
    /\ Known \subseteq BOOLEAN
    /\ {MayFail, MayCrash, Copies} \subseteq BOOLEAN
    /\ MaxBegun \in Nat \ {0}

VARIABLES disk,    \* path -> what is on disk
          lock,    \* path -> process -> the lock it has on root.bolt
          doing,    \* process -> the call it is in
          handle,  \* process -> the index it has open
          outcome, \* history: process -> how its last New or Open ended
          made,    \* history: paths where a New or a copy has succeeded
          begun

fileVars == <<disk, lock, doing, handle, outcome, made, begun>>

AtRest == [op |-> "none", step |-> "none", path |-> NoPath, m |-> NoMapping, conf |-> "none",
         ro |-> FALSE, asked |-> "unset", known |-> TRUE, after |-> FALSE]
Closed == [path |-> NoPath, conf |-> "none", ro |-> FALSE, asked |-> "unset", m |-> NoMapping, used |-> FALSE]
NoOutcome == [op |-> "none", path |-> NoPath, res |-> "none", after |-> FALSE, used |-> FALSE]
Nothing == [dir |-> FALSE, meta |-> "none", conf |-> "none", known |-> TRUE,
            store |-> FALSE, m |-> NoMapping, docs |-> FALSE]

\* What is on disk at a path, what a call is about, an index that is open and
\* how a call ended.
OnDisk == [dir : BOOLEAN, meta : {"none", "empty", "whole"}, conf : {"none", "plain", "ro"},
           known : BOOLEAN, store : BOOLEAN, m : Mappings \cup {NoMapping}, docs : BOOLEAN]
ACall == [op : {"none", "new", "open", "batch", "copy"},
          step : {"none", "mkdir", "stat", "meta", "bolt", "mapping", "persist",
                  "store", "commit", "create", "write"},
          path : Paths \cup {NoPath}, m : Mappings \cup {NoMapping},
          conf : {"none", "plain", "ro"}, ro : BOOLEAN, asked : {"unset", "ro", "rw"},
          known : BOOLEAN, after : BOOLEAN]
AnIndex == [path : Paths \cup {NoPath}, conf : {"none", "plain", "ro"}, ro : BOOLEAN,
            asked : {"unset", "ro", "rw"}, m : Mappings \cup {NoMapping}, used : BOOLEAN]
AnOutcome == [op : {"none", "new", "open", "batch", "copy"}, path : Paths \cup {NoPath},
              res : {"none", "ok", "failed", "exists", "unknown type", "does not exist",
                     "meta missing", "meta corrupt", "no mapping"},
              after : BOOLEAN, used : BOOLEAN]

CreateTypeOK ==
    /\ disk \in [Paths -> OnDisk]
    /\ lock \in [Paths -> [Procs -> {"no", "shared", "exclusive"}]]
    /\ doing \in [Procs -> ACall]
    /\ handle \in [Procs -> AnIndex]
    /\ outcome \in [Procs -> AnOutcome]
    /\ made \subseteq Paths
    /\ begun \in [Procs -> Nat]

CreateInit ==
    /\ disk = [x \in Paths |-> Nothing]
    /\ lock = [x \in Paths |-> [p \in Procs |-> "no"]]
    /\ doing = [p \in Procs |-> AtRest]
    /\ handle = [p \in Procs |-> Closed]
    /\ outcome = [p \in Procs |-> NoOutcome]
    /\ made = {}
    /\ begun = [p \in Procs |-> 0]

-----------------------------------------------------------------------------
(* The lock of the bolt file (external): flock, held until the file is     *)
(* closed or its process ends.                                             *)
ModeShared(ro) == "shared"
Mode(ro) == IF ro THEN "shared" ELSE "exclusive"
Free(x, p, mode) ==
    \A q \in Procs \ {p} : lock[x][q] = "no" \/ (mode = "shared" /\ lock[x][q] = "shared")
Locked(x, p, mode) == [lock EXCEPT ![x][p] = mode]
Released(x, p) == [lock EXCEPT ![x][p] = "no"]

InStep(p, op, step) == doing[p].op = op /\ doing[p].step = step
ToStep(p, step) == doing' = [doing EXCEPT ![p].step = step]
Here(p) == disk[doing[p].path]

\* The call ends with an error, after what it has opened is closed again.
Fails(p, res) ==
    /\ doing' = [doing EXCEPT ![p] = AtRest]
    /\ lock' = Released(doing[p].path, p)
    /\ outcome' = [outcome EXCEPT ![p] =
         [op |-> doing[p].op, path |-> doing[p].path, res |-> res, after |-> doing[p].after, used |-> FALSE]]
    /\ UNCHANGED <<handle, made, begun>>
FailsOpen(p, res) ==
    /\ doing' = [doing EXCEPT ![p] = AtRest]
    /\ outcome' = [outcome EXCEPT ![p] =
         [op |-> doing[p].op, path |-> doing[p].path, res |-> res, after |-> doing[p].after, used |-> FALSE]]
    /\ UNCHANGED <<lock, handle, made, begun>>

\* The index is marked open and returned.
Opened(p, conf, m, used) ==
    /\ doing' = [doing EXCEPT ![p] = AtRest]
    /\ handle' = [handle EXCEPT ![p] =
         [path |-> doing[p].path, conf |-> conf, ro |-> doing[p].ro, asked |-> doing[p].asked, m |-> m, used |-> used]]
    /\ outcome' = [outcome EXCEPT ![p] =
         [op |-> doing[p].op, path |-> doing[p].path, res |-> "ok", after |-> doing[p].after, used |-> used]]
    /\ UNCHANGED <<lock, begun>>

BeginCall(p, c) ==
    /\ doing[p] = AtRest
    /\ begun[p] < MaxBegun
    /\ doing' = [doing EXCEPT ![p] = c]
    /\ begun' = [begun EXCEPT ![p] = @ + 1]
    /\ UNCHANGED <<disk, lock, handle, outcome, made>>

\* Nobody creates an index where a copy is being written.
Copying(x) == \E q \in Procs : doing[q].op = "copy" /\ doing[q].path = x
Creating(x) == \E q \in Procs : doing[q].op = "new" /\ doing[q].path = x

BeginNew(p) ==
    /\ handle[p] = Closed
    /\ \E x \in Paths, m \in Mappings, conf \in {"none", "plain"}, known \in Known :
         /\ ~Copying(x)
         /\ BeginCall(p, [AtRest EXCEPT !.op = "new", !.step = "mkdir", !.path = x, !.m = m,
                                  !.conf = conf, !.known = known])

BeginOpen(p) ==
    /\ handle[p] = Closed
    /\ \E x \in Paths, asked \in Runtime :
         BeginCall(p, [AtRest EXCEPT !.op = "open", !.step = "stat", !.path = x, !.asked = asked,
                               !.after = x \in made])

-----------------------------------------------------------------------------
(* New: the metadata first, then the store, then the mapping.              *)
SaveMkdir(p) ==
    /\ InStep(p, "new", "mkdir")
    /\ disk' = [disk EXCEPT ![doing[p].path].dir = TRUE]
    /\ ToStep(p, "create")
    /\ UNCHANGED <<lock, handle, outcome, made, begun>>

\* O_CREATE|O_EXCL decides which of two News goes on.
SaveCreate(p) ==
    /\ InStep(p, "new", "create")
    /\ IF Here(p).meta # "none"
       THEN FailsOpen(p, "exists") /\ UNCHANGED disk
       ELSE /\ disk' = [disk EXCEPT ![doing[p].path].meta = "empty"]
            /\ ToStep(p, "write")
            /\ UNCHANGED <<lock, handle, outcome, made, begun>>

SaveWrite(p) ==
    /\ InStep(p, "new", "write")
    /\ disk' = [disk EXCEPT ![doing[p].path].meta = "whole", ![doing[p].path].conf = doing[p].conf,
                            ![doing[p].path].known = doing[p].known]
    /\ IF doing[p].known
       THEN ToStep(p, "bolt") /\ UNCHANGED <<lock, handle, outcome, made, begun>>
       ELSE FailsOpen(p, "unknown type")

\* openBolt: waits for the lock, creates the file when there is none, and
\* loads the newest snapshot; a file that does not exist cannot be opened
\* read-only.
OpenBolt(p) ==
    /\ doing[p].step = "bolt"
    /\ Free(doing[p].path, p, Mode(doing[p].ro))
    /\ \/ /\ doing[p].ro => Here(p).store
          /\ lock' = Locked(doing[p].path, p, Mode(doing[p].ro))
          /\ disk' = [disk EXCEPT ![doing[p].path].store = TRUE]
          /\ ToStep(p, "mapping")
          /\ UNCHANGED <<handle, outcome, made, begun>>
       \/ /\ (doing[p].ro /\ ~Here(p).store) \/ MayFail
          /\ Fails(p, "failed")
          /\ UNCHANGED disk

SetMappingLater(p) ==
    /\ InStep(p, "new", "mapping")
    /\ made' = made \cup {doing[p].path}
    /\ Opened(p, "plain", doing[p].m, Here(p).docs)
    /\ UNCHANGED disk

\* SetInternal, which returns when it is persisted.
SetMapping(p) ==
    /\ InStep(p, "new", "mapping")
    /\ \/ /\ disk' = [disk EXCEPT ![doing[p].path].m = doing[p].m]
          /\ made' = made \cup {doing[p].path}
          /\ Opened(p, "plain", doing[p].m, Here(p).docs)
       \/ MayFail /\ Fails(p, "failed") /\ UNCHANGED disk

-----------------------------------------------------------------------------
(* Open.                                                                   *)
Stat(p) ==
    /\ InStep(p, "open", "stat")
    /\ IF Here(p).dir THEN ToStep(p, "meta") /\ UNCHANGED <<lock, handle, outcome, made, begun>>
                      ELSE FailsOpen(p, "does not exist")
    /\ UNCHANGED disk

\* The config of the metadata, when there is one, is the very map that the
\* runtime config is written into.
Merged(conf, asked) ==
    IF conf = "none" \/ asked = "unset" THEN conf ELSE IF asked = "ro" THEN "ro" ELSE "plain"
ReadOnly(conf, asked) == IF asked = "unset" THEN conf = "ro" ELSE asked = "ro"

ReadMeta(p) ==
    /\ InStep(p, "open", "meta")
    /\ CASE Here(p).meta = "none"  -> FailsOpen(p, "meta missing")
         [] Here(p).meta = "empty" -> FailsOpen(p, "meta corrupt")
         [] Here(p).meta = "whole" /\ ~Here(p).known -> FailsOpen(p, "unknown type")
         [] OTHER ->
              /\ doing' = [doing EXCEPT ![p].step = "bolt",
                                      ![p].conf = Merged(Here(p).conf, doing[p].asked),
                                      ![p].ro = ReadOnly(Here(p).conf, doing[p].asked)]
              /\ UNCHANGED <<lock, handle, outcome, made, begun>>
    /\ UNCHANGED disk

\* Without a mapping the index is closed again.
LoadMapping(p) ==
    /\ InStep(p, "open", "mapping")
    /\ IF Here(p).m = NoMapping THEN Fails(p, "no mapping")
                                ELSE Opened(p, doing[p].conf, Here(p).m, Here(p).docs) /\ UNCHANGED made
    /\ UNCHANGED disk

CloseIndex(p) ==
    /\ doing[p] = AtRest /\ handle[p] # Closed
    /\ lock' = Released(handle[p].path, p)
    /\ handle' = [handle EXCEPT ![p] = Closed]
    /\ UNCHANGED <<disk, doing, outcome, made, begun>>

-----------------------------------------------------------------------------
(* A batch waits for the persister, which a read-only index does not have. *)
BeginBatch(p) ==
    /\ handle[p] # Closed /\ handle[p].asked # "ro"
    /\ BeginCall(p, [AtRest EXCEPT !.op = "batch", !.step = "persist", !.path = handle[p].path])
Persisted(p) ==
    /\ InStep(p, "batch", "persist")
    /\ ~handle[p].ro
    /\ disk' = [disk EXCEPT ![doing[p].path].docs = TRUE]
    /\ doing' = [doing EXCEPT ![p] = AtRest]
    /\ UNCHANGED <<lock, handle, outcome, made, begun>>

\* CopyTo an empty directory: the store first, then the metadata.
BeginCopy(p) ==
    /\ Copies /\ handle[p] # Closed
    /\ \E x \in Paths : /\ ~disk[x].dir /\ ~Copying(x) /\ ~Creating(x)
                        /\ BeginCall(p, [AtRest EXCEPT !.op = "copy", !.step = "store", !.path = x])
CopyStore(p) ==
    /\ InStep(p, "copy", "store")
    /\ Free(doing[p].path, p, "exclusive")
    /\ disk' = [disk EXCEPT ![doing[p].path].dir = TRUE, ![doing[p].path].store = TRUE]
    /\ lock' = Locked(doing[p].path, p, "exclusive")
    /\ ToStep(p, "commit")
    /\ UNCHANGED <<handle, outcome, made, begun>>
CopyCommit(p) ==
    /\ InStep(p, "copy", "commit")
    /\ disk' = [disk EXCEPT ![doing[p].path].m = disk[handle[p].path].m,
                            ![doing[p].path].docs = disk[handle[p].path].docs]
    /\ lock' = Released(doing[p].path, p)
    /\ ToStep(p, "create")
    /\ UNCHANGED <<handle, outcome, made, begun>>
CopyCreate(p) ==
    /\ InStep(p, "copy", "create")
    /\ disk' = [disk EXCEPT ![doing[p].path].meta = "empty"]
    /\ ToStep(p, "write")
    /\ UNCHANGED <<lock, handle, outcome, made, begun>>
CopyWrite(p) ==
    /\ InStep(p, "copy", "write")
    /\ disk' = [disk EXCEPT ![doing[p].path].meta = "whole", ![doing[p].path].conf = handle[p].conf,
                            ![doing[p].path].known = TRUE]
    /\ doing' = [doing EXCEPT ![p] = AtRest]
    /\ made' = made \cup {doing[p].path}
    /\ UNCHANGED <<lock, handle, outcome, begun>>

\* The process is killed.
Crash(p) ==
    /\ MayCrash
    /\ doing[p] # AtRest \/ handle[p] # Closed
    /\ lock' = [x \in Paths |-> [lock[x] EXCEPT ![p] = "no"]]
    /\ doing' = [doing EXCEPT ![p] = AtRest]
    /\ handle' = [handle EXCEPT ![p] = Closed]
    /\ UNCHANGED <<disk, outcome, made, begun>>

Work(p) ==
    \/ SaveMkdir(p) \/ SaveCreate(p) \/ SaveWrite(p) \/ SetMapping(p)
    \/ Stat(p) \/ ReadMeta(p) \/ LoadMapping(p)
    \/ Persisted(p) \/ CopyStore(p) \/ CopyCommit(p) \/ CopyCreate(p) \/ CopyWrite(p)

CreateNext == \E p \in Procs :
    \/ BeginNew(p) \/ BeginOpen(p) \/ BeginBatch(p) \/ BeginCopy(p)
    \/ Work(p) \/ OpenBolt(p) \/ CloseIndex(p) \/ Crash(p)

\* A process goes on with its call, closes what it has opened in the end,
\* and gets a lock that is free again and again.
CreateFairness == \A p \in Procs : WF_fileVars(Work(p)) /\ WF_fileVars(CloseIndex(p)) /\ SF_fileVars(OpenBolt(p))

CreateSpec == CreateInit /\ [][CreateNext]_fileVars
CreateFairSpec == CreateSpec /\ CreateFairness

-----------------------------------------------------------------------------
\* An index is open more than once only when it is open for reading (openBolt
\* asks for a shared lock only with read_only).
WriterAlone ==
    \A p \in Procs : \A q \in Procs \ {p} :
        (handle[p] # Closed /\ handle[p].path = handle[q].path) => (handle[p].ro /\ handle[q].ro)

\* What a New or a copy has made can be opened ever after, whatever fails or
\* is killed later: no Open that begins afterwards ends with an error of the
\* path, the metadata or the mapping.
CreatedStaysOpenable ==
    \A p \in Procs : (outcome[p].op = "open" /\ outcome[p].after) => outcome[p].res \in {"ok", "failed"}

\* The mapping of an index is the one it was made with: a second New cannot
\* replace it.
MappingKept == [][\A x \in made : disk'[x].m = disk[x].m]_fileVars

\* A call that has failed leaves root.bolt unlocked, so that the next one
\* does not wait for it for ever.
FailedCallsUnlock ==
    \A x \in Paths, p \in Procs :
        lock[x][p] # "no" => (doing[p].path = x \/ handle[p].path = x)

\* The lock on the files of an index keeps writers apart and is given back.
FilesGuarded == WriterAlone /\ FailedCallsUnlock

\* New makes an index at a path that must not exist: what it returns has no
\* documents.
NewStartsEmpty ==
    \A p \in Procs : (outcome[p].op = "new" /\ outcome[p].res = "ok") => ~outcome[p].used

\* A batch into a copy that was not opened read-only returns: the copy is
\* fully functional.
BatchesReturn == \A p \in Procs : doing[p].op = "batch" ~> doing[p].op # "batch"
=============================================================================
