# Formal models of bleve

TLA+ models of bleve's index, the configurations that model-check them with TLC,
and proofs for TLAPS. The reference is the code; every definition names its lines
in `PROJECT.json` under `map`.

Contents: 1 the system, 2 the modules, 3 what is checked, 4 what is proved,
5 what the code was found to do, 6 what is left out of the models, 7 what could follow.

## 1. The system

bleve turns documents into an inverted index and answers queries on it. The part
that keeps state, shares it between goroutines and survives crashes is the index
type *scorch* (`index/scorch`). Above it are the index API, mapping, analysis,
queries and collectors, most of them sequential; beside it the older index type
*upsidedown*.

| Component | State | Operations | Hard behaviour | What makes it correct |
|---|---|---|---|---|
| introducer (`introducer.go`) | `Scorch.root`, an immutable snapshot: segments with deleted bitmaps, an internal map, an epoch | introduce a batch, a merge, a persist; register and wake epoch watchers | each introduction was computed from an older root | readers see a batch entirely or not at all; one live document per identifier; merging and persisting change nothing a reader sees |
| Batch, Open, Close (`scorch.go`) | channels, `nextSegmentID`, `rootPersisted`, `eligibleForRemoval`, `ineligibleForRemoval`, `copyScheduled` | Batch, Close, CopyReader, open and recovery | optimistic work before the introduction; shutdown of goroutines that wait for each other | a batch that was reported persisted survives a crash; every call returns |
| persister (`persister.go`) | last persisted and merged epoch, watchers of the merger, root.bolt, segment files | take a root, merge in memory, write files, swap, commit, purge, load | crash between any two steps; a swap before the commit; files named late | snapshots in root.bolt can be loaded and are what readers saw; the purge takes no file that is needed |
| merger, ForceMerge (`merge.go`) | last planned epoch, task, counters and request of ForceMerge | plan, merge, introduce, wait for the persister | deletions during a merge; retries, cancellation | deletions are carried over; ForceMerge returns, and is not refused for ever |
| reference counts (`snapshot_index.go`) | `refs` per snapshot and per segment | AddRef, DecRef, Close | who lets go last | no reader uses a closed segment; epochs become removable in the end |
| retention (`persister.go`) | checkpoints, timestamps of snapshots | choose what to protect, expire | boundaries, clock | the newest snapshot is always kept |
| rollback (`rollback.go`) | root.bolt | list points, delete newer epochs | identifiers reused afterwards | the next open is the chosen point |
| field updates (`index_update.go`, `scorch.go`) | `updatedFields` of snapshots and segments | open with a changed mapping | introductions build snapshots anew | a deleted field stays deleted |
| merge planner (`mergeplan/`) | none | Plan, CalcBudget, ScoreSegments | loop over the budget, rounding | terminates; tasks are disjoint |
| offline builder (`builder.go`) | batch, segment paths | Index, Close | failure in the middle of merging | every document once |
| snapshot readers (`snapshot_index_*.go`, `optimize*.go`, `unadorned.go`) | iterators, recycled term field readers | Next, Advance | reuse of a reader | ascending document numbers, none skipped |
| index API (`index_impl.go`, `index_meta.go`) | `open`, a mutex | New, Open, Batch, Search, Close | Close against everything else | nothing after Close; no deadlock |
| index alias (`index_alias_impl.go`, `pre_search.go`) | set of indexes | Add, Remove, Swap, Search | results in arrival order, partial errors | independent of that order |
| searchers, collectors, sort, facets | iterators, heap, match pool | Next, Advance, Collect | boundary of the result page | the page is what sorting all hits gives |
| fusion and rescorer | none | RRF, RSF | floating point, missing ranks | order and bounds of scores |
| upsidedown and KV stores | rows, one writer | Update, Delete, Batch, Reader | back-index rows against term rows | rows agree with documents |
| numeric, geo | none | prefix coding, geohash | width and sign | order is preserved |
| mapping, document, analysis, highlight, registry, config, cmd | tables | conversion of data | none between goroutines | not the subject of state machines |

How scorch's goroutines interact:

    Batch ---segmentIntroduction---> +------------+ <---segmentMerge--- merger
      |                              | introducer |                      |   ^
      | waits for rootPersisted      +------------+ <---persists--+      |   | wakes
      |                                ^  | wakes                |      |   |
      |             introducerNotifier |  v                      |      v   |
      +<-- answers ------------------ persister -----------------+  persisterNotifier
                                       | segment files, root.bolt, purge

The introducer alone swaps the root. The persister takes a root that is newer
than the last it persisted, flushes it and answers the callers; then it tells the
introducer, with an *epoch watcher*, what it waits for. The merger plans on the
root's file segments, and then gives the persister a watcher. Two waits face each
other: the persister pauses while too many files are on disk and the merger lags,
and the merger waits until the persister has passed its epoch.

## 2. The modules

    AtomicIndex  <-- implemented by --  ScorchRoot  --+
                                                      +-- SegmentSnapshots
    DurableIndex <-- implemented by --  ScorchStore --+
                                        ScorchLoops
    ScorchRefs  Retention  MergePlan  Builder  FieldUpdates     behind the batches
    IndexHandles  IndexCreate                                    handles and files
    Searchers  PhraseSearch  NumericRanges  FieldDicts           queries
    SnapshotReaders  Upsidedown                                  documents as they are read
    Paging  Facets  HybridSearch                                 answers

### The core: root, disk and loops

**SegmentSnapshots** has the operators both state machines share: what a segment
snapshot is, and the pure part of `introduceSegment`, `introducePersist` and
`introduceMerge`. A snapshot's segments are a function from segment id to
`[docs, del, file]`; a `segmentMerge` is `[hist, new]`, `hist` having for every
segment merged away its snapshot when the merge started, the segment it went into
(the code's workerID) and the new document numbers. What the segment library does
in a merge (drop, then number the survivors in order) is external and taken from
how `merge.go` uses it.

**ScorchRoot** is the introducer with all who hand it work. Its variables are the
root, `nextSegmentID`, the introduction each writer has on its way, and the
persister's and the merger's snapshot and merge. A batch is prepared from one root
(`PrepareSegment`) and introduced into a later one (`IntroduceBatch`); the same
holds of in-memory merges, file merges and persists. **AtomicIndex** is what
callers are promised: a set of documents and an internal value, a pending call per
writer that takes effect at once or fails. The refinement maps the live documents
of the root to its contents.

**ScorchStore** is the disk: segment files, the buckets of root.bolt, the names
marked `ineligibleForRemoval`, the epochs `eligibleForRemoval`, and a persister
taken apart at every point where a crash or the merger can come between: files
written, root swapped, transaction committed, callers told, old buckets removed,
old files removed. `CrashAndOpen` may happen in any state; it is `loadFromBolt`
(newest snapshot that can be loaded), `maxSegmentIDOnDisk` and the purge that
`openBolt` does. `RollBack` deletes the buckets newer than a rollback point and opens
what is left. **DurableIndex** is the promise: a sequence of batches of which a
restart loses a suffix, never one whose caller has been told, and a rollback goes back
to a point. To tell which batches a snapshot has, every batch writes its number under
the internal key.

**ScorchLoops** is who waits for whom: the three loops, the two notifier channels
(buffer one), epoch watchers, the pause of the persister, ForceMerge with its
counters and `doneCh`, safe batches waiting to be persisted, and Close. Here a root
is only an epoch, whether it has in-memory segments, and a number of files.

### Behind the batches

**ScorchRefs** has `refs` of every index snapshot and the count of every segment, and
every `AddRef`, `DecRef` and `Close` of writers, readers, introducer, persister, merger
and `Scorch.Close`, failures and skipped merges included. **Retention** is which
snapshots root.bolt keeps: `getProtectedSnapshots`, the time series of
`getTimeSeriesSnapshots`, checkpoints, a clock, and what becomes eligible when.
**MergePlan** is the planner's loop over rosters and budget and the tasks it makes, between
flushes and deletions. **Builder** is the offline builder with steps on disk that fail.
**FieldUpdates** compares an old and a new mapping as `index_update.go` does, notes what
is dropped in root.bolt and in memory, and follows the note through batches, merges,
reopening and rollback.

### Handles and files

**IndexHandles** is `index_impl.go` and `index_alias_impl.go` under their mutexes:
searches of an alias in two rounds with a goroutine for each index, field dictionaries
that keep read locks, Add, Remove, Swap and Close. `sync.RWMutex` is external: no reader gets in
once a writer has announced itself. **IndexCreate** is New, Open, CopyTo and Close by
processes that share files, `index_meta.json`, the lock of root.bolt, and kills between any
two file operations.

### Queries, documents, answers

**Searchers** is the tree of term, conjunction, disjunction, boolean and phrase searchers
with what each has read ahead; **PhraseSearch** the positions of a phrase, fuzzy terms and
synonyms; **NumericRanges** the prefix coding and range splitting at a small width;
**FieldDicts** the merging of the segments' dictionaries and the terms of prefixes and
ranges, in scorch and in upsidedown. **SnapshotReaders** is Next and Advance of term field
readers and their reuse. **Upsidedown** is the row-based engine: field cache, back index,
dictionary rows, one write at a time. **Paging** is the TopN collector, `SearchAfter`,
`SearchBefore` and the merge of results in an alias; **Facets** the counting, trimming and
merging of facets; **HybridSearch** the two phases of a search with nearest neighbours over
a tree of aliases, and fusion.

### Composites and proofs

`MCScorchRoot`, `MCScorchStore`, `MCScorchLoops`, `MCScorchRefs`, `MCHandles`, `MCMaintenance` (it
extends `Builder`), `MCQueries` (`FieldDicts`) and `MCDocuments` (`Upsidedown` and
`SnapshotReaders`) extend components, so that the properties of their runs are the ones the theorems
of section 4 state. Where
such a run is about several settings (the reader beside a writer, the two writers), a setting is the
specification with fewer parties or calls: a variable says which one a behaviour is in, and the rest
of `Next` is switched off.

`MCMaintenance`, `MCQueries`, `MCAnswers` and `MCDocuments` are about several components that do not
share state: they instantiate each component they do not extend once or more often, with the
constants of the instance beside it, and a variable `subject` says which of them a behaviour is
about. Variables of the other components have the value `Unused`, or that of one initial state where
the component is extended.

`SegmentSnapshotsProofs`, `SnapshotProofs`, `ScorchStoreProofs`, `ScorchLoopsProofs`,
`ScorchRefsProofs`, `ScorchRefsSegmentProofs`, `IndexProofs` and `DocumentsProofs` are section 4.
`ScorchStoreInvariants` has the inductive invariants of `ScorchStore`; the others are in the module
that proves them.

### Correspondence and abstractions

* A root's epoch is `nextSnapshotEpoch - 1` when it is swapped in, so one number
  stands for both.
* The order of the segment list is dropped. It matters to nothing that a reader
  gets besides the order of document numbers.
* Sizes of segments are dropped in the core: which segments a persister worker or a merge
  plan takes, and whether too many files are on disk, is a choice. `FlushSets` keeps what
  the code guarantees of it: at least two segments merged, every worker but the last
  filled, leftovers only when all the workers have filled up and the options are not
  the legacy ones. One more worker may start without a segment; it uses up an id.
* A nil deleted bitmap is the empty one.
* A call to Batch is pending in AtomicIndex until it is introduced. The wait of a
  safe batch for the persister comes after; it may return an error although the batch
  has taken effect. ScorchStore and ScorchLoops have that wait.
* ScorchStore prepares and introduces a batch in one step: the two are apart in
  ScorchRoot.
* A segment file is written at once, and what has been written to a file or committed
  survives a crash. A segment file whose writing a crash interrupts is one that no
  bucket names, so the next open removes it, as it does a finished one.
* Callbacks of batches are kept over a failed attempt and called after a later one,
  as in the code; channels of safe batches get the error at once (ScorchLoops).
* `SnapshotReleased` lets any snapshot nobody of the model holds be released at any
  time, or never: readers may hold theirs for any length of time, and
  `AddEligibleForRemoval` runs in a goroutine of its own. ScorchRefs says when exactly.
* A transaction of the purge does not fail in ScorchStore; in Retention it may.
* One CopyReader is open at a time.
* In ScorchLoops, a send on an unbuffered channel, its receipt and the handler are one
  step, since whoever is answered is waiting for it. The number of files is counted in
  flushes. Event handlers are the default ones (none), so `PreMergeCheck` passes.
* In the modules about queries and answers documents are small numbers, texts are sets of
  located terms, terms are sequences of small numbers compared as `memcmp` does, and scores
  are given as numbers that differ for different documents. A vector index or a filter is
  modelled by what it finds.

## 3. What is checked

Each run takes less than five minutes with two workers.

| Run | Instances and bounds | States | Shows |
|---|---|---|---|
| `scorch_root` | 2 writers, 2 identifiers, 3 batches to choose from, 4 segment ids, default flush | 925 120 | `TypeOK`, `LiveUnique`, `NoEmptySegments`, `DeletesTranslatable`, the inductive `StaleRootsHarmless`; implements AtomicIndex |
| `scorch_store` | 3 batches, 4 ids, 1 crash, merger on, 1 snapshot kept | 1 024 391 | `AckedDurable`, `RootFilesStay`; implements DurableIndex |
| `scorch_points` | 3 batches, 6 ids, 2 crashes or rollbacks and the merger off, or a CopyReader and the merger on; 2 snapshots kept | 1 123 765 | `RollbackPointsFaithful`, `CopiedFilesStay` |
| `scorch_loops` | 2 writers, 2 batches, 1 force merge, 1 failure, Close | 4 985 864 | `NoLostWakeup`, `NoMutualWait`, `WritersRemembered` |
| `scorch_loops_live` | 1 writer, 1 batch, 1 force merge, 1 failure, Close | 167 610 | `BatchReturns`, `ForceMergeReturns`, `CloseTerminates` |
| `scorch_refs` | unsafe batches and a file merge; 2 writers of safe batches; a reader and a failure; each with 2 batches | 710 613 | `CountsExact`, `OldReleasedInTheEnd`, `ClosedForGood` |
| `maintenance` | Retention: 1 or 2 newest, 3 of a time series; MergePlan: 5 segments; Builder: 5 documents, or 4 and 2 failures; FieldUpdates: 9 changed mappings, 3 or 4 segments | 296 379 | `KeepsWhatItMust`, `TasksFit`, `BuiltRight`, `FieldsFaithful`, `SettlesDown` |
| `handles` | 2 goroutines, 2 indexes, 3 calls of a reader beside a writer or 2 of two writers; 2 processes, 2 calls each, 1 path, or 2 with copies | 461 427 | `HandlesSafe`, `FilesGuarded`, `CreatedStaysOpenable`, `EveryCallReturns` |
| `queries` | trees of 3 terms over 4 documents; phrases of 3 documents and 3 calls; all ranges of 4 bits, ranges at edges of 6; 4 terms in 2 segments, and terms whose bytes carry | 1 400 060 | `ResultsExact`, `RangesExact`, `DictionariesExact` |
| `answers` | 4 documents in 1 or 2 indexes, pages of 0 to 2; facets of 3 or 4 documents in 2 or 3 indexes; a tree of 2 aliases over 3 indexes, 2 KNN requests, 2 changes and failures | 989 829 | `PageExact` (with `RequestRestored`), `FacetsAsOneIndex`, `AnswersAsOne`, `FailuresShow` |
| `documents` | 2 documents, 2 fields, 3 contents, 3 writes with crashes, or 2 writers with 4 writes and refusals; 2 readers of 2 segments, 3 calls each, new or kept, or 1 of 3 segments, 4 calls | 918 468 | `RowsFaithful`, `FieldRowsRemain`, `ReadersExact` |
| `scorch_store_exclude` | 3 batches, one worker with a size limit | | the first disagreement of section 5 |

**Bounds, and why they are enough.** Segment ids, batches, crashes, failures and force
merges are bounded; when they are used up a model stops, so the runs do not check
deadlock. Two writers are needed for
one batch to overtake the preparation of another, and more only repeat this. Four ids let two
batches, an in-memory merge and a file merge meet, which is every pair of introductions that can
conflict: introductions act on the root one at a time, and each conflict is between the root at
preparation and what happened since. Two identifiers suffice for a segment that is partly
obsoleted. With three batches a snapshot can be persisted, one be under way and one be newer; one
crash finds all the half-done states and a second one crashes a recovered index, in which segment
ids and epochs of the former run are used again (a bucket of the same epoch is written into). One
batch and one failure in ScorchLoops let the root pass each watcher's epoch before, while and after
it is registered, with the failed attempt before or between. A search reads ahead by one hit per
clause, so four documents let it be behind, at and beyond the one asked for. A dictionary's
interesting terms are a term, its extension and its neighbour. Two indexes can answer in either
order, and a third lets a trimmed facet meet two others. For each property there is a mutant of the
code (`mutants`) that the same run refutes, so the bounds are not too small for these. And what is
proved in section 4 holds for every bound.

Constraints switch off parties, not behaviours of those present: `MCNoCopyNoRollback`,
`MCNoCopyNoMerger`, `MCRollbackOrCopy`. Symmetry is used on writers, clients and documents, in runs
with only safety properties (invariants, action properties and the refinements, which state no
fairness).

**Fairness.** *ScorchLoops:* each goroutine of the index is weakly fair: the Go scheduler runs
whatever can go on, and a wait that is over stays over until its owner moves. The introducer's
`select` picks among ready channels at random, so each of them is received from in the end: one
fairness condition per introduction of a writer, one for the watcher and one for its exit, while
what the persister and the merger hand it is under theirs. Calls of Batch, ForceMerge and Close are
not fair: nobody has to make them. Failures stop after `MaxFailures`; with errors that never end a
persister rightly retries for ever. *MCMaintenance:* the merger's goroutine and a call of Close go
on; flushes are bounded. *MCHandles:* goroutines and processes go on with calls they have made, a
caller closes the dictionary it has, a process closes the index it has opened, and a lock on
root.bolt that is free again and again is given to a process that waits (strong fairness: bolt tries
again in a loop). *MCScorchRefs:* as long as one of the index's goroutines can go on, or a caller of
Batch can take its answer, one of them does, and whoever has a reader closes it. Batches, merges,
failures and reads are bounded, so that they come to rest, with the index open or closed.

## 4. What is proved

All of it is checked by TLAPS for every value of the constants, under the assumption the module
states about them (`ConstantsAssumption`, `StoreAssumption`, `LoopsAssumption`, `RefsAssumption`,
`HandleAssumption`, `CreateAssumption`, `UpsidedownAssumption`, `ReaderAssumption`,
`BuilderAssumption`, `DictAssumption`; TLC evaluates each of them on the constants of the runs): any set
of writers, any finite batches, any number of workers, segment ids, restarts and calls.

### ScorchRoot: readers see an atomic index

`SegmentSnapshotsProofs` has the lemmas about the shared operators: what `ApplyDelta`,
`IntroducePersist` and `IntroduceMerge` keep of the shape of segments, which documents are live
afterwards, and how a merge numbers the survivors. `SnapshotProofs` has the rest:

* `TypeCorrect`, `IdentifiersUnique` (`LiveUnique`), `DeletesAreTranslatable`,
  `SegmentsNeverEmpty`, `StaleRootsAreHarmless`: the safety properties of the run `scorch_root`.
* `Refinement`: `Spec => ImplementsAtomicIndex`. Initial states map to initial states; introducing a
  batch is `TakeEffect`, a call and its failure are `Call` and `Fail`, and every other step of
  introducer, persister and merger leaves the live documents as they are.

`LiveUnique` is not inductive. A batch is introduced with obsoletions computed from an older
root; that they are right now needs that a segment id always names the same documents
(`FreshIDs`, `ObsoletesExact`). A merge brings documents back into the root; that no second
live version comes with them needs that each of them was live in a segment which is in the
root still, with at least the same deletions, or has left it for good (`RememberedSegments`),
and that its new number is the one its deletions are translated to (`MergesSound`). Together:
a stale root is only ever stale about which documents are deleted and which segments are gone.
`StaleRootsHarmless` is the conjunction, checked by TLC as an invariant first. The proof goes
action by action; under each introduction there is a step per conjunct.

### ScorchStore: what is on disk stays, and is right

The theorems assume `PlainStore`: one persister worker without a size limit, as the default
configuration has it (`LegacyFlush`), and bolt transactions that commit (`~CommitMayFail`). This is
not a convenience of the proof: without either the properties are false, and section 5 has the
counterexamples. Crashes, rollbacks, failing writes, batches, purges, merges and copies come at any
time and in any number.

`ScorchStoreProofs`, first which files exist and who needs them:

* `FilesInvariant`: `[]FilesInv`, the inductive invariant; `RootFilesStayAlways` and
  `CopiedFilesStayAlways`, the properties `RootFilesStay` and `CopiedFilesStay`.

A purge removes what is neither named in root.bolt nor marked. A file segment of the root is safe
because it is marked, or named by the *newest* bucket, or about to be named by the snapshot under
way (`KeptFor`). Naming by any bucket would not do: old buckets go. Naming by the newest does,
since the next snapshot to be committed is taken from a root that had the segment, and the purge
protects the newest bucket (`NewestProtected`). Hence the invariant speaks of the persister's state
point by point (files written, swapped, committed), of segments that merges under way have read and
written, of ids that were never given to a file yet, and of the order of epochs.

Then what these files show:

* `ContentsInvariant`: `[]ContentsInv`, inductive together with `FilesInv`.
* `AckedDurableAlways`: a batch whose caller has been told is in what a crash would leave.
* `RollbackPointsAlwaysFaithful`: every bucket can be loaded and shows what readers saw at its batch.
* `StoreImplementsDurableIndex`: `Spec => ImplementsDurableIndex`, restarts and rollbacks included.
* `EquivAlwaysEquivalent`: the snapshot rebuilt after an in-memory merge shows what the one taken did.
* `RollbackAlwaysDurable`: after a rollback the index is that of the point chosen.

The conjuncts of `ContentsInv` are what each step hands to the next. `HistoryShown`: the root shows
`history` at its internal value. `DeletionsGrow`: no snapshot that is kept has a deletion the root
lacks in the same segment, so that an introduction can compute what it missed by subtraction.
`MergesSound`: a merge under way numbers its survivors one to one. `SnapshotFaithful`: the snapshot
taken, and the one rebuilt from it after the in-memory merge, show `history` at its value until it
is committed. `BoltFaithful`: each bucket does, and internal values grow with epochs, so that the
newest bucket has all that older ones have. `AckedInBolt`: what was told is in the newest bucket.

### ScorchLoops: who is remembered and who wakes up

`ScorchLoopsProofs`:

* `TypeCorrect`: beyond shapes, a notifier's buffer never holds two watchers, and the segments of a
  merge plan are in the root until they are merged.
* `NobodyForgotten` (`WritersRemembered`): inductive with the fact that the persister holds channels
  of callers only while it persists (`Remembered`): otherwise taking a snapshot could overwrite some.
* `MergerAndPersisterApart` (`NoMutualWait`): inductive with the type invariant.
* `PersisterWakesUp` (`NoLostWakeup`): the property says nothing of a watcher that the introducer has
  taken; the invariant `WatcherHeld` adds that it is among `epochWatchers` and the root has not
  passed it.

### ScorchRefs: nothing held is closed, nothing closed is counted

`ScorchRefsProofs`, snapshots, for any set of writers and readers and any number of batches, merges,
failures and persister workers:

* `RefsInvariant`: `[]Inv`, and `SnapshotsCountedExactly` (`SnapshotCounts`).

Counting is a sum over holders, and a step moves one summand and the count together. That a step is
such a move needs to know that what it lets go it did hold: `Fits` says for each goroutine, writer
and reader which snapshots it has at each point of its code, `InRange` that no snapshot is met
before it was made.

`ScorchRefsSegmentProofs`, segments:

* `SegmentsInvariant`: `[](Inv /\ SegInv)`.
* `SegmentsCountedExactly` (`SegmentCounts`), `NothingStaysOpen` (`NothingLeaked`), `HeldSegmentsOpen`
  (`NoUseAfterClose` while the persister has not exited too early) and `ClosedStaysClosed`
  (`ClosedForGood`).

`Excess` is what the snapshots in use and the owner of a segment amount to beyond its count, and
`SegInv` bounds it from both sides: never negative, so that what is open is referred to, and never
positive, so that what is referred to is open. `Apart` is what makes a step keep it: a segment that a
batch, the persister or the merger still owns is in no snapshot, and has one owner, so that the
introduction which puts it into the root takes over one count, and closing it closes nobody else's.

The hypotheses are the places where the code breaks the rule, each one in section 5. `Workers <= 1` is
the default (`DefaultNumPersisterWorkers`, `persister.go:391`): with two, one of the two segments merged
may be left out and stays open, so only the upper bound holds. `~BatchesFail` (batches are unsafe, so
that nobody waits for the persister, or the persister does not fail): a caller whose safe batch fails
to be persisted closes a segment that the root has. `~persister.raced` (the persister has not met
Close while the introducer had its introduction): it then closes files that the introducer goes on to
take. `NothingStaysOpen` needs the first only, `HeldSegmentsOpen` and `ClosedStaysClosed` not that one.
`CountsAlwaysExact` puts the counts together, under the first two: `CountsExact` is what the run
`scorch_refs` checks.

### IndexHandles: nobody is inside when an index is closed

`IndexProofs`, for any set of goroutines, indexes and number of calls:

* `NobodyUsesClosed` (`NoUseAfterClose`), `SwappedOutIsUnmet` (`SwappedOutThenClosed`),
  `RoundsAlwaysAgree` (`RoundsAgree`) and `LocksAlwaysReturned` (`LocksReturned`), together
  `HandlesAlwaysSafe` (`HandlesSafe`).

The first says that whoever works on an index finds it open, which is not inductive: it does not say
why Close may go on. `LocksExact` does: a mutex is held by a goroutine exactly as often as the call
it is in, the dictionary it keeps and the goroutines of its search account for. Close goes on when
the count of the index is zero for everybody, hence nobody's call, dictionary or search is inside.
The same count of the alias's mutex is why the alias does not change between the two rounds of a
search (`RoundsFit`), and, with `AliasOpen` (what the alias has is open, and nobody is closing it or
swapping in what another one closes), why a search of the alias meets no closed index.

### IndexCreate: one writer, and what was made stays openable

`IndexProofs`, for any processes, paths, mappings and number of calls, with and without storage
errors, kills and copies (`CreateInvariant` is the inductive invariant):

* `WriterAlwaysAlone` (`WriterAlone`) and `FailedCallsAlwaysUnlock` (`FailedCallsUnlock`), together
  `FilesAlwaysGuarded` (`FilesGuarded`).
* `CreatedAlwaysOpenable` (`CreatedStaysOpenable`).
* `MappingAlwaysKept` (the action property `MappingKept`, which is proved only: no run checks it).

A process has a lock on a root.bolt exactly where it has the index open, is between openBolt and
the end of New or Open, or writes a copy (`LocksFit`), and two locks on one file are both shared
(`LocksAgree`): this gives the first two. For the others the question is who can still write at the
path of an index that was made. Metadata goes from nothing to empty under `O_EXCL` and from empty to
whole by the process that created it, so no two News are past that point at one path and none where
an index was made (`Apart`, `MadeFits`); a copy has its directory to itself. Everything else only
grows: a directory, a store and a mapping that are there stay (`Grows`). What a call has done so far
shows on disk (`DiskFits`), so that the index is whole when New or the copy comes back. A kill leaves
the disk as it is and frees the locks, which is why it disturbs none of this.

### Upsidedown: the rows are what was written

`DocumentsProofs`, for any documents, contents, writers and number of calls, with and without writes
that the store refuses and crashes:

* `RowsAlwaysConsistent` (`RowsConsistent` and `CountExact`): the back index lists exactly the rows
  there are, each dictionary row counts the rows of its term, and the number of documents is right.
* `RowsAlwaysFaithful` (`RowsFaithful`): a reader finds of every document what its last write says.

The rows (`RowsInvariant`: `[]RowsInv`): what a call has looked up of its documents is still in the
store when it writes, since the mutex is held from one to the other (`LookedUp`, `Locked`), although
other calls analyze all the time. So the rows it adds are new and the rows it deletes are there
(`RowsSorted`), the sum of the merges is exact and never cut off at zero (`DictWritten`), and the
number of documents moves by the documents that come and go (`CountFits`).

The contents (`ContentInvariant`: `[]ContentInv`): a number is given to one name (`NumbersFit`:
`NextIndex` is larger than all), and the cache only grows, so the rows an analysis has made mean the
same when they are written and when they are read (`Analyzed`, `ContentFits`), whichever call met the
field first. A crash breaks this: the cache is read back from the field rows, and a number whose row
was not written is given out again. With one writer that is never refused (`Alone`) each cached field
is stored or in the rows the writer is about to store (`FieldsWritten`), so it is no loss. That is the
hypothesis of `ContentFaithful` in `RowsFaithful`, no crash or `Alone`; without it the property is
false, and section 5 has both counterexamples (two writers, a refused write).

### SnapshotReaders: Next and Advance answer right

`DocumentsProofs`, for any number of segments of any size, any terms, any live documents, any number
of clients and of calls of Next, Advance, opening and closing in any order:

* `ReadersAlwaysExact` (`ReadersExact`: `AnswersExact` and `ReadersApart`): Next answers the first
  document after the last one and Advance the first from where it is asked to go, backwards too, and
  no reader belongs to two clients or is kept while it is in use.

All that is assumed of the segments (`ReaderAssumption`) is that their offsets begin at 0 and grow,
that is, that no segment is empty, which is how the introducer builds a snapshot. A document number
then has one segment, and a later document is in no earlier one (`SegmentFound`, `SegmentsOrdered`).

The invariant (`ReadersInvariant`: `[]ReadersInv`) says of each reader in use what it has left: in the
segment it is at and those after it, the documents of its term from the client's next one on, and in
the ones before it none that matters (`Lefts`); and that the document it has answered is the one
before its client's next (`Placed`), by which Advance knows that it has to go back. Next keeps it by
going on to the first segment that has something left (`NextFinds`), Advance by throwing away the
beginning of one segment only, since `NotPassed` shows that skipping to a later one loses nothing
(`SkipFinds`), and going back by a fresh reader (`FreshPlaced`). A reader that was kept keeps what the
last search left in it until `TermFieldReader` resets it, after which it is as good as a fresh one
(`ReopenedIsFresh`). The reader of all documents is told
apart: it leaves nothing behind in any segment (`DocSkipFinds`). That two clients never share a reader
is needed for all of it: a step of one leaves the others' readers alone (`ReaderMoves`).

The hypothesis is `~Reused`: the cache of readers is off, which is the default of the code
(`DefaultFieldTFRCacheThreshold`, 0), or nobody goes back. Otherwise the property is false: section 5.

### FieldDicts: each term once, and the terms that are asked for

`SnapshotProofs`, second part, for any finite set of terms, any segments, requests, limits of clauses
and failures:

* `DictionariesAlwaysExact` (`DictionariesExact`): what `Next` returns is in order, each term once and
  with the documents of all segments (`EachOnceInOrder`); a dictionary of a range has the whole range
  (`RangeComplete`); and over texts the searchers of prefixes and ranges look for just the terms that
  are described (`SearchExact`), and upsidedown reads the same ones (`EnginesAgree`). Whatever the
  bytes, no term that is described is left out (`SearchComplete`).

The order of terms is shown to be total first (`NotBoth`, `BeforeGoesOn`, `OneIsBefore`), so that
finitely many cursors have a least term, which is before all others (`FirstIsFirst`). The invariant
(`DictionariesInvariant`: `[]DictInvariant`) is the heap's: a cursor has exactly the terms of its
segment that are between the ends and not returned yet, and they are behind all that was returned
(`CursorsRight`). The answers of the segments come in any order; only when all have come does it hold
of all cursors, hence its form before that. For the batches it says that what has been searched for and
what is left are together what was chosen: a batch and the rest are the whole (`BatchRight`), whatever
the limit.

What is between the ends is a question of its own. A term is before another with its last byte raised
exactly when it is before that one or begins with it (`RaisedMeans`), and before one with a zero
appended exactly when it is not behind it (`ZeroMeans`). Texts, as words in UTF-8 are, have no byte 0
and no greatest byte: so it is always the last byte that goes up (`LastGoesUp`), nothing lies between a
term and the end made of it (`TextInside`), and an excluded end is the first or the last of the list
(`DropFirstRight`, `DropLastRight`). Of other bytes all this is false, see section 5, and `SearchExact` and
`EnginesAgree` are claimed over texts only (`OfText`). What holds of all bytes is `SearchComplete`:
a term with the prefix is before the end even where incrementing carries (`PrefixBeforeEnd`), and a
range drops only its excluded ends (`DropsEnds`, `RangeTermsKeep`; together `NothingLeftOut`); the empty prefix is left out of `EnginesAgree`
for the same reason. `DictAssumption` says that a range ends with a term or has no end, which is how
the queries call it.

### Builder: nothing that was accepted is lost

`ScorchLoopsProofs`, for any finite set of documents, any sizes of batches and merges and any number
of failing steps on disk:

* `BuilderAlwaysRight` (`BuiltRight`: `ListedOnce`, and `BuiltComplete` as long as nothing has
  failed): no document is in two of the files to be merged or in one and in the batch, and an index
  whose Close returned nil has every document whose Index did.

`BuiltComplete` speaks of the end only. The invariant (`BuilderInvariant`: `[]BuilderInv`) says where
each accepted document is until then: in the batch or in a listed file that exists (`AllHeld`,
part of `NothingLost`). A merge takes the listed files from the front and puts one at the end
(`ListParts`, `FileAdded`): it keeps `FilesApart` since its name is one that neither the directory nor
the list has (`NameIsNew`: there are fewer of these than numbers to choose from, `NotAllUsed`). When
one file is left it has everything, since the flush has emptied the batch. `FilesApart` survives
failures, because what fails to be merged or removed is on the list no more. `NothingLost` does not,
which is the loss of section 5; hence the hypothesis on `faults` in `BuiltRight`.

### What stays model-checked

Out of reach of the proof system: liveness under fairness and `ENABLED` (`BatchReturns`,
`ForceMergeReturns`, `CloseTerminates`, `SettlesDown`, `EveryCallReturns`, `OldReleasedInTheEnd`), and induction
over data, which is what the other properties of `queries` and those of `answers` come down to: what a
recursive walk over a query, a list of hits or the bits of a number computes. The same holds of
Retention's and MergePlan's sorting and picking, which are folds over lists. Not proved: the
properties of FieldUpdates, which compare two mappings place by place.
ScorchStore outside `PlainStore` is model-checked for what then still holds or fails.

## 5. What the code was found to do

`findings` in `PROJECT.json` has each with its lines, what the text beside it says, and how to see
it. One has a run of its own that TLC refutes; for the others the entry names the module, the
property and the constants under which TLC finds the behaviour. The inputs it mentions
(`FilterQueries`, `Redefined`, `OfSeveral`, ...) are defined in the MC modules.

* *Persister and disk.* `scorch_store_exclude`: with options other than the legacy ones, in-memory
  segments that no worker took are not written (`persister.go:697-708`), but the snapshot that lists
  them is committed and acknowledged, and cannot be loaded. With two workers one of which merged only
  documents obsoleted meanwhile, the committed snapshot lacks documents of its epoch. New files are in
  the root before the transaction commits; if the commit fails the purge takes them, and the next
  snapshot names missing files. Rollback returns nil when its transaction fails to commit.
* *ForceMerge.* A call whose options do not validate counts as started for ever.
* *References.* One of several workers' segments leaks when only it is dropped; the segment of a batch
  is closed by its caller although the root has taken it over; Close may close files that the
  introducer is about to take.
* *Retention.* The latest snapshot can be purged before the next is persisted (with a
  sampling interval: one snapshot kept, or sparse batches); epochs are forgotten when the purge's transaction fails.
* *Planner and builder.* Empty segments all go into one task; a failed merge or batch of the builder
  loses documents although Close later returns nil; `mergeMax = 1` never ends.
* *Searchers.* A filter by identifiers can pass a document; advancing a boolean searcher skips a should
  clause's hit; `Score: none` makes a required should clause optional; synonyms of one term of a
  phrase make it match nothing; terms opened for a position leak on an error.
* *Ranges and dictionaries.* The end of a dictionary range is incremented too early or padded; an
  excluded maximum is kept; `-0` and dates after February 2262 are missed; ranges enumerate codes no
  value has; two failing segments panic.
* *Pages, facets, hybrid.* An error leaves the request reversed; the page after a hit sorted by score
  starts at 0; an alias asked for no hits returns some; a trimmed facet count is lost; requests whose
  filter matches nothing shift the others' scores; an error of the neighbours' search is dropped;
  facets are counted by document numbers of an older snapshot.
* *Readers.* Advance backwards hands a reader to two searchers when readers are kept.
* *Mapping updates.* A later batch or merge brings dropped fields back; the old mapping returns with
  the next snapshot; two changes that should be refused or noted are not; a refused update leaves the
  file lock held.
* *Handles and files.* A dictionary held while another call waits blocks Swap for ever; New over an
  interrupted copy has its documents; the copy of a read-only index is read-only.
* *Upsidedown.* Fields cached by a write that is refused, or overtaken and lost, have no row.

## 6. What is not modelled

Analysis, mapping and documents, registry, configuration, highlighting and the tools are
conversions of data without shared state; statistics and events only report. Of the components that
are modelled: indexes in memory only or read-only in scorch, stored fields, doc values and vectors
in readers, regular expressions, fuzzy automata and geo searchers, nested documents, parsing and
validation of requests, the key-value stores under upsidedown, 64-bit widths (NumericRanges has 4
and 6 bits) and floating-point rounding in fusion. `PROJECT.json` lists every component with its
status.

## 7. What could follow

The parts of section 6 that have state: read-only and memory-only scorch, stored fields and doc
values of readers; and a proof that a dropped field stays hidden (`FieldUpdates`).
