----------------------------- MODULE MCDocuments -----------------------------
(* Documents as they are stored and read: the rows of upsidedown, and the    *)
(* readers of a snapshot of scorch.  A behaviour is about one of these.       *)
EXTENDS Upsidedown, SnapshotReaders, TLC

CONSTANT Subjects \* what a run is about
CONSTANTS d1, d2, w1, w2, c1, c2
VARIABLE subject   \* what a behaviour is about

------------------------------------------------------------------------------
(* Upsidedown: contents that share and drop terms and stored fields; two    *)
(* writers and writes that are refused, or crashes.                          *)
Few ==
  {{<<"t", "f", "a">>, <<"s", "f", "-">>}, {<<"t", "f", "a">>, <<"t", "g", "a">>}}
More == Few \cup {{<<"t", "f", "b">>, <<"s", "g", "-">>}}

Crashing == INSTANCE Upsidedown WITH MayFail <- FALSE, MayCrash <- TRUE

\* What a behaviour leaves out of the calls that the constants allow: two
\* writers write one document at a time, one of few contents ...
Small ==
  \A w \in Writers :
    LET batch == writers'[w].batch
    IN  /\ Cardinality(DOMAIN batch) <= 1
        /\ \A d \in DOMAIN batch : batch[d] \in Few \cup {Deleted}
\* ... and one call at a time, of a call less, goes on between two crashes.
OneByOne ==
  /\ clock' < MaxWrites
  /\ \E w \in Writers : \A v \in Writers \ {w} : writers'[v] = IdleWriter

------------------------------------------------------------------------------
(* SnapshotReaders: two goroutines, whose segments and bounds are those of   *)
(* the configuration; readers that go back; readers that are kept and used   *)
(* again.                                                                    *)
TwoSegments == <<0, 2>>

Back == INSTANCE SnapshotReaders WITH
  Offsets <- <<0, 1, 3>>, Total <- 4, MaxObjects <- 3, MaxCalls <- 4
Kept == INSTANCE SnapshotReaders WITH
  Terms <- {"a", "b"}, Offsets <- <<0, 1>>, Total <- 2,
  GoBack <- FALSE, Threshold <- 1

\* One of the clients reads.
OneReads == \E c \in Clients : \A d \in Clients \ {c} : calls'[d] = 0

\* While a behaviour is about the rows, nobody reads a snapshot without documents.
NoReading == ReadersInit /\ hits = [k \in Terms \cup {AllDocs} |-> {}]

------------------------------------------------------------------------------
\* What the components assume of their constants holds of these values.
ASSUME InstancesAssumption ==
  /\ UpsidedownAssumption /\ Crashing!UpsidedownAssumption
  /\ ReaderAssumption /\ Back!ReaderAssumption /\ Kept!ReaderAssumption

------------------------------------------------------------------------------
\* A behaviour is about one subject and leaves the others as they begin.
Is(s) == s \in Subjects /\ subject = s

MCInit ==
  /\ Init
  /\ \/ (Is("crashes") \/ Is("writers")) /\ NoReading
     \/ Is("back") /\ Back!ReadersInit
     \/ Is("two") /\ ReadersInit
     \/ Is("kept") /\ Kept!ReadersInit

MCNext ==
  \/ subject = "crashes" /\ Crashing!Next /\ OneByOne /\ UNCHANGED <<subject, readerVars>>
  \/ subject = "writers" /\ Next /\ Small /\ UNCHANGED <<subject, readerVars>>
  \/ subject = "back" /\ Back!ReadersNext /\ OneReads /\ UNCHANGED <<subject, vars>>
  \/ subject = "two" /\ ReadersNext /\ UNCHANGED <<subject, vars>>
  \/ subject = "kept" /\ Kept!ReadersNext /\ UNCHANGED <<subject, vars>>

MCvars == <<subject, vars, readerVars>>

MCSpec == MCInit /\ [][MCNext]_MCvars

------------------------------------------------------------------------------
Symmetry ==
  Permutations({d1, d2}) \cup Permutations({w1, w2}) \cup Permutations({c1, c2})

\* Writes that come one by one and are not refused leave no row without a field
\* to show it under, whenever the index is reopened.
FieldRowsRemain == subject = "crashes" => FieldRowsThere
==============================================================================
