---------------------------- MODULE IndexProofs ----------------------------
(***************************************************************************)
(* Open indexes and the files of indexes: the proofs, for any goroutines,  *)
(* indexes, processes, paths and number of calls.                          *)
(*                                                                         *)
(* IndexHandles: nobody works on an index that has been closed.  A mutex   *)
(* is held for reading exactly as often as calls, dictionaries and         *)
(* goroutines of searches say it is (LocksExact).  So a writer that sees   *)
(* nobody inside closes an index nobody uses, and changes an alias nobody  *)
(* searches.                                                               *)
(*                                                                         *)
(* IndexCreate: one writer at a time, and an index that was made can be    *)
(* opened ever after.  An index that is open has a lock on its root.bolt   *)
(* (LocksFit) and two locks on one file are both shared (LocksAgree).  A   *)
(* path gets its metadata once, from one process (Apart); New and CopyTo   *)
(* write the parts of an index in an order of their own, and what is there *)
(* already stays (DiskFits).                                               *)
(***************************************************************************)
EXTENDS IndexHandles, IndexCreate, TLAPS

---------------------------------------------------------------------------
(* Open indexes: the invariant *)

\* The steps inside the read lock of the index or alias called.
Inside == {"check", "index", "work", "search"}

\* Which fields of a call go together.
CallFits(c) ==
  /\ call[c].step \in Inside => call[c].op \in Readers \cup Searches
  /\ call[c].op \in Readers \cup Searches \cup Writes => call[c].step # "none"
  /\ call[c].op \in {"read", "dict"} /\ call[c].step = "work" => call[c].on \in Indexes
  /\ call[c].op = "read" => call[c].on \in Indexes /\ call[c].arg = {}
  /\ call[c].op = "dict" => /\ dict[c] = {}
                            /\ call[c].arg \subseteq {Alias}
                            /\ call[c].arg = {Alias} => /\ call[c].on \in Indexes
                                                        /\ call[c].step \in Inside
                            /\ call[c].step = "index" => call[c].on = Alias
  /\ call[c].step = "index" => call[c].op = "dict"
  /\ call[c].op \in Searches => call[c].on = Alias /\ call[c].arg = {}
  /\ call[c].step = "search" => call[c].op \in Searches
  /\ call[c].op = "close" => call[c].on \in Indexes
  /\ call[c].op \in {"closealias", "swap"} => call[c].on = Alias

DictFits(c) == \A d, e \in dict[c] : d = e /\ d.on \in d.locks

\* The mutexes a call, a dictionary, the goroutines of a search have locked.
ByCall(c) == IF call[c].step \in Inside THEN {call[c].on} \cup call[c].arg ELSE {}
ByDict(c) == UNION {d.locks : d \in dict[c]}
ByChild(c) == {i \in Indexes : child[c][i] \in {"check", "work"}}

One(b) == IF b THEN 1 ELSE 0

LocksExact(c) ==
  \A m \in Mutexes : held[m][c] = One(m \in ByCall(c)) + One(m \in ByDict(c))
                                    + One(m \in ByChild(c))

UsesOpen(c) == \A i \in Indexes : Using(c, i) => i \in open

\* A search goes to the indexes that the alias has.
RoundsFit(c) ==
  /\ call[c].step # "search" => child[c] = NoChild /\ round[c] = <<>>
  /\ call[c].step = "search" => /\ \A i \in Indexes : child[c][i] # "no" => i \in alias
                                /\ \A k \in 1 .. Len(round[c]) : round[c][k] = alias

ClientInv(c) == CallFits(c) /\ DictFits(c) /\ LocksExact(c) /\ UsesOpen(c) /\ RoundsFit(c)

\* The indexes of the alias stay open, whoever is about to close or to add one.
AliasOpen ==
  /\ alias \subseteq open
  /\ \A c \in Clients : call[c].op = "close" => call[c].on \in open \ alias
  /\ \A c \in Clients : call[c].op = "swap" => call[c].arg \subseteq open
  /\ \A c, d \in Clients : call[c].op = "close" /\ call[d].op = "swap" =>
                             call[c].on \notin call[d].arg
  /\ \A c, d \in Clients : c # d /\ call[c].op = "close" /\ call[d].op = "close" =>
                             call[c].on # call[d].on

Inv == TypeOK /\ (\A c \in Clients : ClientInv(c)) /\ AliasOpen /\ met = {}

---------------------------------------------------------------------------
(* The read locks *)

LEMMA ReadLockedIs ==
  ASSUME TypeOK, NEW c \in Clients, NEW m \in Mutexes, held' = ReadLocked(c, m)
  PROVE  /\ held' \in [Mutexes -> [Clients -> Nat]]
         /\ \A n \in Mutexes, d \in Clients :
              held'[n][d] = IF n = m /\ d = c THEN held[n][d] + 1 ELSE held[n][d]
  BY DEF TypeOK, ReadLocked

LEMMA ReadUnlockedIs ==
  ASSUME TypeOK, NEW c \in Clients, NEW M \in SUBSET Mutexes,
         \A m \in M : held[m][c] > 0, held' = ReadUnlocked(c, M)
  PROVE  /\ held' \in [Mutexes -> [Clients -> Nat]]
         /\ \A n \in Mutexes, d \in Clients :
              held'[n][d] = IF n \in M /\ d = c THEN held[n][d] - 1 ELSE held[n][d]
  BY DEF TypeOK, ReadUnlocked

\* A call goes on to another step, and a reader is opened or closed.
LEMMA StepTyped ==
  ASSUME TypeOK, NEW c \in Clients,
         NEW s \in {"lock", "check", "index", "work", "search", "write"},
         call' = [call EXCEPT ![c].step = s]
  PROVE  call' \in [Clients -> [op : {"none"} \cup Readers \cup Searches \cup Writes,
                               step : {"none", "lock", "check", "index", "work", "search", "write"},
                               on : Mutexes, arg : SUBSET Mutexes]]
<1> DEFINE R == [op : {"none"} \cup Readers \cup Searches \cup Writes,
                 step : {"none", "lock", "check", "index", "work", "search", "write"},
                 on : Mutexes, arg : SUBSET Mutexes]
<1>1. call \in [Clients -> R]
  BY DEF TypeOK
<1>2. \A r \in R : [r EXCEPT !.step = s] \in R
  OBVIOUS
<1>3. [call[c] EXCEPT !.step = s] \in R
  BY <1>1, <1>2
<1>4. call' = [call EXCEPT ![c] = [call[c] EXCEPT !.step = s]]
  OBVIOUS
<1> HIDE DEF R
<1>5. call' \in [Clients -> R]
  BY <1>1, <1>3, <1>4
<1> QED
  BY <1>5 DEF R

LEMMA IdleTyped ==
  ASSUME TypeOK, NEW c \in Clients, call' = [call EXCEPT ![c] = Idle]
  PROVE  call' \in [Clients -> [op : {"none"} \cup Readers \cup Searches \cup Writes,
                               step : {"none", "lock", "check", "index", "work", "search", "write"},
                               on : Mutexes, arg : SUBSET Mutexes]]
<1> DEFINE R == [op : {"none"} \cup Readers \cup Searches \cup Writes,
                 step : {"none", "lock", "check", "index", "work", "search", "write"},
                 on : Mutexes, arg : SUBSET Mutexes]
<1>1. call \in [Clients -> R]
  BY DEF TypeOK
<1>2. Idle \in R
  BY DEF Idle, Mutexes
<1> HIDE DEF R
<1>3. call' \in [Clients -> R]
  BY <1>1, <1>2
<1> QED
  BY <1>3 DEF R

LEMMA ReadersTyped ==
  ASSUME TypeOK, NEW i \in Indexes,
         \/ readers' = [readers EXCEPT ![i] = @ + 1]
         \/ readers' = [readers EXCEPT ![i] = @ - 1]
  PROVE  readers' \in [Indexes -> Int]
<1>1. readers \in [Indexes -> Int]
  BY DEF TypeOK
<1> QED
  BY <1>1

\* Who uses an index, or works on an alias, holds its mutex.
LEMMA UsersHold ==
  ASSUME NEW c \in Clients, LocksExact(c)
  PROVE  \A m \in Mutexes : m \in ByCall(c) \cup ByDict(c) \cup ByChild(c) => held[m][c] > 0
  BY DEF LocksExact, One

LEMMA UsingHolds ==
  ASSUME TypeOK, NEW c \in Clients, ClientInv(c)
  PROVE  /\ \A i \in Indexes : Using(c, i) => held[i][c] > 0
         /\ call[c].step = "search" => held[Alias][c] > 0
<1>1. \A i \in Indexes : Using(c, i) => i \in ByCall(c) \cup ByDict(c) \cup ByChild(c)
  BY DEF TypeOK, ClientInv, DictFits, CallFits, Using, At, ByCall, ByDict, ByChild, Inside, Readers
<1>2. call[c].step = "search" => Alias \in ByCall(c)
  BY DEF ClientInv, CallFits, ByCall, Inside
<1> QED
  BY <1>1, <1>2, UsersHold DEF ClientInv, Mutexes

---------------------------------------------------------------------------
(* What a client does leaves the others as they are *)

Frame(c) ==
  \A d \in Clients \ {c} :
    /\ call'[d] = call[d] /\ dict'[d] = dict[d]
    /\ child'[d] = child[d] /\ round'[d] = round[d]
    /\ \A m \in Mutexes : held'[m][d] = held[m][d]

\* A step that changes neither indexes nor alias and begins no change of them.
Quiet(c) ==
  /\ Frame(c)
  /\ UNCHANGED <<open, alias, met>>
  /\ call'[c].op \in {"close", "swap"} =>
       /\ call'[c].op = call[c].op /\ call'[c].on = call[c].on
       /\ call'[c].arg = call[c].arg

LEMMA OthersKept ==
  ASSUME Inv, NEW c \in Clients, Frame(c), UNCHANGED <<open, alias>>
  PROVE  \A d \in Clients \ {c} : ClientInv(d)'
<1> SUFFICES ASSUME NEW d \in Clients \ {c} PROVE ClientInv(d)'
  OBVIOUS
<1>0. /\ call'[d] = call[d] /\ dict'[d] = dict[d]
      /\ child'[d] = child[d] /\ round'[d] = round[d]
      /\ \A m \in Mutexes : held'[m][d] = held[m][d]
  BY DEF Frame
<1>1. CallFits(d)'
  BY <1>0 DEF Inv, ClientInv, CallFits
<1>2. DictFits(d)'
  BY <1>0 DEF Inv, ClientInv, DictFits
<1>3. LocksExact(d)'
  BY <1>0 DEF Inv, ClientInv, LocksExact, ByCall, ByDict, ByChild
<1>4. UsesOpen(d)'
  BY <1>0 DEF Inv, ClientInv, UsesOpen, Using, At
<1>5. RoundsFit(d)'
  BY <1>0 DEF Inv, ClientInv, RoundsFit
<1> QED
  BY <1>1, <1>2, <1>3, <1>4, <1>5 DEF ClientInv

LEMMA QuietKeeps ==
  ASSUME Inv, NEW c \in Clients, Quiet(c), TypeOK', ClientInv(c)'
  PROVE  Inv'
<1>1. \A d \in Clients : ClientInv(d)'
  BY OthersKept DEF Quiet
<1>2. AliasOpen'
  BY DEF Inv, AliasOpen, Quiet, Frame
<1> QED
  BY <1>1, <1>2 DEF Inv, Quiet

---------------------------------------------------------------------------
(* Calls begin *)

LEMMA BeginIs ==
  ASSUME Inv, NEW c \in Clients, NEW op \in Readers \cup Searches \cup Writes,
         NEW on \in Mutexes, NEW arg \in SUBSET Mutexes,
         Begin(c, op, "lock", on, arg),
         op = "read" => on \in Indexes /\ arg = {},
         op = "dict" => dict[c] = {} /\ arg = {},
         op \in Searches => on = Alias /\ arg = {},
         op = "close" => on \in Indexes,
         op \in {"closealias", "swap"} => on = Alias
  PROVE  /\ TypeOK' /\ Frame(c) /\ ClientInv(c)' /\ UNCHANGED <<open, alias, met>>
         /\ call'[c] = [op |-> op, step |-> "lock", on |-> on, arg |-> arg]
<1>0. /\ call' = [call EXCEPT ![c] = [op |-> op, step |-> "lock", on |-> on, arg |-> arg]]
      /\ call[c] = Idle
      /\ UNCHANGED <<world, held, announced, readers, dict, search>>
  BY DEF Begin
<1>1. TypeOK'
  BY <1>0 DEF Inv, TypeOK, world, search
<1>2. call'[c] = [op |-> op, step |-> "lock", on |-> on, arg |-> arg]
  BY <1>0 DEF Inv, TypeOK
<1>3. Frame(c) /\ UNCHANGED <<open, alias, met>>
  BY <1>0 DEF Frame, world, search
<1>4. CallFits(c)' /\ DictFits(c)'
  BY <1>0, <1>2 DEF Inv, ClientInv, CallFits, DictFits, Inside, Readers, Searches, Writes
<1>5. LocksExact(c)'
  <2>1. ByCall(c) = {} /\ ByCall(c)' = {}
    BY <1>0, <1>2 DEF ByCall, Inside, Idle
  <2>2. ByDict(c)' = ByDict(c) /\ ByChild(c)' = ByChild(c)
    BY <1>0 DEF ByDict, ByChild, search
  <2> QED
    BY <1>0, <2>1, <2>2 DEF Inv, ClientInv, LocksExact
<1>6. UsesOpen(c)'
  BY <1>0, <1>2 DEF Inv, ClientInv, UsesOpen, Using, At, world, search
<1>7. RoundsFit(c)'
  BY <1>0, <1>2 DEF Inv, ClientInv, RoundsFit, world, search, Idle
<1> QED
  BY <1>1, <1>2, <1>3, <1>4, <1>5, <1>6, <1>7 DEF ClientInv

\* A call that is to change neither the alias nor an index.
LEMMA BeginKeeps ==
  ASSUME Inv, NEW c \in Clients, NEW op \in Readers \cup Searches \cup {"closealias"},
         NEW on \in Mutexes, Begin(c, op, "lock", on, {}),
         op = "read" => on \in Indexes,
         op = "dict" => dict[c] = {},
         op \in Searches \cup {"closealias"} => on = Alias
  PROVE  Inv'
<1>1. op \in Readers \cup Searches \cup Writes /\ op \notin {"close", "swap"}
  BY DEF Readers, Searches, Writes
<1>2. op \in {"closealias", "swap"} => on = Alias
  BY <1>1
<1>3. /\ {} \in SUBSET Mutexes
      /\ op = "read" => on \in Indexes /\ {} = {}
      /\ op = "dict" => dict[c] = {} /\ {} = {}
      /\ op \in Searches => on = Alias /\ {} = {}
      /\ op = "close" => on \in Indexes
  BY <1>1
<1>4. /\ TypeOK' /\ Frame(c) /\ ClientInv(c)' /\ UNCHANGED <<open, alias, met>>
      /\ call'[c] = [op |-> op, step |-> "lock", on |-> on, arg |-> {}]
  BY <1>1, <1>2, <1>3, BeginIs
<1>5. Quiet(c)
  BY <1>1, <1>4 DEF Quiet
<1> QED
  BY <1>4, <1>5, QuietKeeps

LEMMA CallsKeep ==
  ASSUME Inv, NEW c \in Clients, Calls(c), HandleAssumption
  PROVE  Inv'
<1>1. CASE CallRead(c)
  <2>1. PICK i \in Indexes : Begin(c, "read", "lock", i, {})
    BY <1>1 DEF CallRead
  <2> QED
    BY <2>1, BeginKeeps DEF Mutexes, Readers, Searches
<1>2. CASE CallSearch(c)
  BY <1>2, BeginKeeps DEF CallSearch, Mutexes, Searches
<1>3. CASE CallSingle(c)
  BY <1>3, BeginKeeps DEF CallSingle, Mutexes, Searches
<1>4. CASE CallFieldDict(c)
  <2>1. PICK m \in Mutexes : dict[c] = {} /\ Begin(c, "dict", "lock", m, {})
    BY <1>4 DEF CallFieldDict
  <2> QED
    BY <2>1, BeginKeeps DEF Readers, Searches
<1>5. CASE CallClose(c)
  <2>1. PICK i \in open \ (alias \cup Adding \cup Closing) : Begin(c, "close", "lock", i, {})
    BY <1>5 DEF CallClose
  <2>2. i \in Indexes
    BY DEF Inv, TypeOK
  <2>3. /\ TypeOK' /\ Frame(c) /\ ClientInv(c)' /\ UNCHANGED <<open, alias, met>>
        /\ call'[c] = [op |-> "close", step |-> "lock", on |-> i, arg |-> {}]
    BY <2>1, <2>2, BeginIs DEF Mutexes, Readers, Searches, Writes
  <2>4. \A d \in Clients : /\ call[d].op = "close" => call[d].on # i
                           /\ call[d].op = "swap" => i \notin call[d].arg
    BY <2>1 DEF Adding, Closing
  <2>5. AliasOpen'
    BY <2>3, <2>4 DEF Inv, AliasOpen, Frame
  <2> QED
    BY <2>3, <2>5, OthersKept DEF Inv
<1>6. CASE CallCloseAlias(c)
  BY <1>6, BeginKeeps DEF CallCloseAlias, Mutexes, Readers, Searches
<1>7. CASE CallSwap(c)
  <2>1. PICK i \in open \ (alias \cup Closing) : Begin(c, "swap", "lock", Alias, {i})
    BY <1>7 DEF CallSwap
  <2>2. i \in Indexes
    BY DEF Inv, TypeOK
  <2>3. /\ TypeOK' /\ Frame(c) /\ ClientInv(c)' /\ UNCHANGED <<open, alias, met>>
        /\ call'[c] = [op |-> "swap", step |-> "lock", on |-> Alias, arg |-> {i}]
    BY <2>1, <2>2, BeginIs DEF Mutexes, Readers, Searches, Writes
  <2>4. \A d \in Clients : call[d].op = "close" => call[d].on # i
    BY <2>1 DEF Closing
  <2>5. AliasOpen'
    BY <2>3, <2>4 DEF Inv, AliasOpen, Frame
  <2> QED
    BY <2>3, <2>5, OthersKept DEF Inv
<1> QED
  BY <1>1, <1>2, <1>3, <1>4, <1>5, <1>6, <1>7 DEF Calls

---------------------------------------------------------------------------
(* Operations on one index *)

\* The locks of a client after it has taken m, or given M back.
LEMMA TakesOne ==
  ASSUME Inv, NEW c \in Clients, NEW m \in Mutexes,
         \A n \in Mutexes : held'[n][c] = IF n = m THEN held[n][c] + 1 ELSE held[n][c],
         \/ /\ ByCall(c)' = ByCall(c) \cup {m} /\ m \notin ByCall(c)
            /\ ByDict(c)' = ByDict(c) /\ ByChild(c)' = ByChild(c)
         \/ /\ ByChild(c)' = ByChild(c) \cup {m} /\ m \notin ByChild(c)
            /\ ByDict(c)' = ByDict(c) /\ ByCall(c)' = ByCall(c)
  PROVE  LocksExact(c)'
<1> SUFFICES ASSUME NEW n \in Mutexes
             PROVE  held'[n][c] = One(n \in ByCall(c)') + One(n \in ByDict(c)')
                                    + One(n \in ByChild(c)')
  BY DEF LocksExact
<1>1. held[n][c] = One(n \in ByCall(c)) + One(n \in ByDict(c)) + One(n \in ByChild(c))
  BY DEF Inv, ClientInv, LocksExact
<1> QED
  BY <1>1 DEF One

LEMMA GivesBack ==
  ASSUME Inv, NEW c \in Clients, NEW M \in SUBSET Mutexes,
         \A n \in Mutexes : held'[n][c] = IF n \in M THEN held[n][c] - 1 ELSE held[n][c],
         \/ /\ ByCall(c) = M /\ ByCall(c)' = {}
            /\ ByDict(c)' = ByDict(c) /\ ByChild(c)' = ByChild(c)
         \/ /\ ByDict(c) = M /\ ByDict(c)' = {}
            /\ ByCall(c)' = ByCall(c) /\ ByChild(c)' = ByChild(c)
         \/ /\ ByChild(c)' = ByChild(c) \ M /\ M \subseteq ByChild(c)
            /\ ByCall(c)' = ByCall(c) /\ ByDict(c)' = ByDict(c)
  PROVE  LocksExact(c)'
<1> SUFFICES ASSUME NEW n \in Mutexes
             PROVE  held'[n][c] = One(n \in ByCall(c)') + One(n \in ByDict(c)')
                                    + One(n \in ByChild(c)')
  BY DEF LocksExact
<1>1. held[n][c] = One(n \in ByCall(c)) + One(n \in ByDict(c)) + One(n \in ByChild(c))
  BY DEF Inv, ClientInv, LocksExact
<1> QED
  BY <1>1 DEF One

LEMMA KeepsLocks ==
  ASSUME Inv, NEW c \in Clients, \A n \in Mutexes : held'[n][c] = held[n][c],
         ByCall(c)' = ByCall(c), ByDict(c)' = ByDict(c), ByChild(c)' = ByChild(c)
  PROVE  LocksExact(c)'
  BY DEF Inv, ClientInv, LocksExact

LEMMA LockKeeps ==
  ASSUME Inv, NEW c \in Clients, Lock(c)
  PROVE  Inv'
<1>0. /\ call[c].op \in Readers \cup Searches /\ call[c].step = "lock"
      /\ held' = ReadLocked(c, call[c].on)
      /\ call' = [call EXCEPT ![c].step = "check"]
      /\ UNCHANGED <<world, announced, readers, dict, search, calls>>
      /\ call[c].on \in Mutexes
  BY DEF Lock, At, To, Inv, TypeOK
<1>1. call'[c] = [call[c] EXCEPT !.step = "check"]
  BY <1>0 DEF Inv, TypeOK
<1>2. /\ held' \in [Mutexes -> [Clients -> Nat]]
      /\ \A n \in Mutexes, d \in Clients :
           held'[n][d] = IF n = call[c].on /\ d = c THEN held[n][d] + 1 ELSE held[n][d]
  BY <1>0, ReadLockedIs DEF Inv
<1>3. TypeOK'
  <2>1. call' \in [Clients -> [op : {"none"} \cup Readers \cup Searches \cup Writes,
                              step : {"none", "lock", "check", "index", "work", "search", "write"},
                              on : Mutexes, arg : SUBSET Mutexes]]
    BY <1>0, StepTyped DEF Inv
  <2> QED
    BY <1>0, <1>2, <2>1 DEF Inv, TypeOK, world, search
<1>4. Quiet(c)
  <2>1. Frame(c)
    BY <1>0, <1>2 DEF Frame, search
  <2> QED
    BY <2>1, <1>0, <1>1 DEF Quiet, world, search, Inv, TypeOK
<1>5. call[c].arg = {}
  BY <1>0 DEF Inv, ClientInv, CallFits, Inside, Readers, Searches
<1>6. CallFits(c)' /\ DictFits(c)'
  BY <1>0, <1>1, <1>5 DEF Inv, TypeOK, ClientInv, CallFits, DictFits, Inside, Readers, Searches, Writes
<1>7. LocksExact(c)'
  <2>1. ByCall(c) = {} /\ ByCall(c)' = {call[c].on}
    BY <1>0, <1>1, <1>5 DEF ByCall, Inside, Inv, TypeOK
  <2>2. ByDict(c)' = ByDict(c) /\ ByChild(c)' = ByChild(c)
    BY <1>0 DEF ByDict, ByChild, search
  <2> QED
    BY <1>0, <1>2, <2>1, <2>2, TakesOne
<1>8. UsesOpen(c)'
  BY <1>0, <1>1 DEF Inv, TypeOK, ClientInv, UsesOpen, Using, At, world, search
<1>9. RoundsFit(c)'
  BY <1>0, <1>1 DEF Inv, TypeOK, ClientInv, RoundsFit, world, search
<1> QED
  BY <1>3, <1>4, <1>6, <1>7, <1>8, <1>9, QuietKeeps DEF ClientInv

\* A call that ends and gives back what it has locked.
LEMMA CallGivesBack ==
  ASSUME Inv, NEW c \in Clients, call[c].step \in Inside,
         held' = ReadUnlocked(c, {call[c].on} \cup call[c].arg)
  PROVE  /\ held' \in [Mutexes -> [Clients -> Nat]]
         /\ \A n \in Mutexes, d \in Clients :
              held'[n][d] = IF n \in ByCall(c) /\ d = c THEN held[n][d] - 1 ELSE held[n][d]
<1>1. {call[c].on} \cup call[c].arg \in SUBSET Mutexes
  BY DEF Inv, TypeOK
<1>2. ByCall(c) = {call[c].on} \cup call[c].arg
  BY DEF ByCall
<1>3. \A m \in {call[c].on} \cup call[c].arg : held[m][c] > 0
  BY <1>1, <1>2, UsersHold DEF Inv, ClientInv
<1>4. TypeOK
  BY DEF Inv
<1> QED
  BY <1>1, <1>2, <1>3, <1>4, ReadUnlockedIs

LEMMA ReturnIs ==
  ASSUME Inv, NEW c \in Clients, Return(c), call[c].step \in Inside,
         held' = ReadUnlocked(c, {call[c].on} \cup call[c].arg),
         UNCHANGED <<world, announced, dict, met>>,
         child' \in [Clients -> [Indexes -> {"no", "lock", "check", "work", "ok", "closed"}]],
         round' \in [Clients -> Seq(SUBSET Indexes)],
         \A d \in Clients \ {c} : child'[d] = child[d] /\ round'[d] = round[d],
         child'[c] = NoChild, round'[c] = <<>>, ByChild(c) = {},
         readers' \in [Indexes -> Int]
  PROVE  Inv'
<1>0. /\ call' = [call EXCEPT ![c] = Idle] /\ call'[c] = Idle
      /\ {call[c].on} \cup call[c].arg \in SUBSET Mutexes
      /\ ByCall(c) = {call[c].on} \cup call[c].arg
  BY DEF Return, Inv, TypeOK, ByCall
<1>1. /\ held' \in [Mutexes -> [Clients -> Nat]]
      /\ \A n \in Mutexes, d \in Clients :
           held'[n][d] = IF n \in ByCall(c) /\ d = c THEN held[n][d] - 1 ELSE held[n][d]
  BY CallGivesBack
<1>2. TypeOK'
  <2>1. call' \in [Clients -> [op : {"none"} \cup Readers \cup Searches \cup Writes,
                              step : {"none", "lock", "check", "index", "work", "search", "write"},
                              on : Mutexes, arg : SUBSET Mutexes]]
    BY <1>0, IdleTyped DEF Inv
  <2> QED
    BY <1>1, <2>1 DEF Inv, TypeOK, world
<1>3. Quiet(c)
  <2>1. \A d \in Clients \ {c} : call'[d] = call[d]
    BY <1>0 DEF Inv, TypeOK
  <2>2. Frame(c)
    BY <1>1, <2>1 DEF Frame
  <2> QED
    BY <2>2, <1>0 DEF Quiet, world, Idle
<1>4. CallFits(c)' /\ DictFits(c)'
  BY <1>0 DEF Inv, ClientInv, CallFits, DictFits, Idle, Inside, Readers, Searches, Writes
<1>5. LocksExact(c)'
  <2>1. ByCall(c)' = {} /\ ByDict(c)' = ByDict(c) /\ ByChild(c)' = ByChild(c)
    BY <1>0 DEF ByCall, ByDict, ByChild, Idle, Inside, NoChild
  <2>2. ByCall(c) \in SUBSET Mutexes
    BY <1>0
  <2>3. \A n \in Mutexes : held'[n][c] = IF n \in ByCall(c) THEN held[n][c] - 1 ELSE held[n][c]
    BY <1>1
  <2> QED
    BY <2>1, <2>2, <2>3, GivesBack
<1>6. UsesOpen(c)'
  BY <1>0 DEF Inv, ClientInv, UsesOpen, Using, At, world, Idle, NoChild
<1>7. RoundsFit(c)'
  BY <1>0 DEF RoundsFit, Idle
<1> QED
  BY <1>2, <1>3, <1>4, <1>5, <1>6, <1>7, QuietKeeps DEF ClientInv

\* Outside searches a client has no goroutines.
LEMMA NoGoroutines ==
  ASSUME Inv, NEW c \in Clients, call[c].step # "search"
  PROVE  child[c] = NoChild /\ round[c] = <<>> /\ ByChild(c) = {}
  BY DEF Inv, ClientInv, RoundsFit, ByChild, NoChild

LEMMA CheckIndexKeeps ==
  ASSUME Inv, NEW c \in Clients, CheckIndex(c)
  PROVE  Inv'
<1>0. /\ call[c].op \in Readers /\ call[c].step = "check" /\ call[c].on # Alias
      /\ UNCHANGED <<world, announced, dict, search, calls>>
      /\ call[c].on \in Indexes
  BY DEF CheckIndex, At, Inv, TypeOK, Mutexes
<1>1. CASE call[c].on \in open
  <2>0. /\ readers' = [readers EXCEPT ![call[c].on] = @ + 1]
        /\ call' = [call EXCEPT ![c].step = "work"]
        /\ UNCHANGED held
    BY <1>1 DEF CheckIndex, To
  <2>1. call'[c] = [call[c] EXCEPT !.step = "work"]
    BY <2>0 DEF Inv, TypeOK
  <2>2. TypeOK'
    <3>1. call' \in [Clients -> [op : {"none"} \cup Readers \cup Searches \cup Writes,
                                step : {"none", "lock", "check", "index", "work", "search", "write"},
                                on : Mutexes, arg : SUBSET Mutexes]]
      BY <2>0, StepTyped DEF Inv
    <3>2. readers' \in [Indexes -> Int]
      BY <1>0, <2>0, ReadersTyped DEF Inv
    <3> QED
      BY <1>0, <2>0, <3>1, <3>2 DEF Inv, TypeOK, world, search
  <2>3. Quiet(c)
    <3>1. Frame(c)
      BY <1>0, <2>0 DEF Frame, search
    <3> QED
      BY <3>1, <1>0, <2>1 DEF Quiet, world, search, Inv, TypeOK
  <2>4. CallFits(c)' /\ DictFits(c)'
    BY <1>0, <2>1 DEF Inv, TypeOK, ClientInv, CallFits, DictFits, Inside, Readers, Searches, Writes
  <2>5. LocksExact(c)'
    <3>1. ByCall(c)' = ByCall(c) /\ ByDict(c)' = ByDict(c) /\ ByChild(c)' = ByChild(c)
      BY <1>0, <2>1 DEF ByCall, ByDict, ByChild, search, Inside, Inv, TypeOK
    <3> QED
      BY <2>0, <3>1, KeepsLocks
  <2>6. UsesOpen(c)'
    BY <1>0, <1>1, <2>1 DEF Inv, TypeOK, ClientInv, UsesOpen, Using, At, world, search
  <2>7. RoundsFit(c)'
    BY <1>0, <2>1 DEF Inv, TypeOK, ClientInv, RoundsFit, world, search
  <2> QED
    BY <2>2, <2>3, <2>4, <2>5, <2>6, <2>7, QuietKeeps DEF ClientInv
<1>2. CASE call[c].on \notin open
  <2>1. /\ held' = ReadUnlocked(c, {call[c].on} \cup call[c].arg)
        /\ Return(c) /\ UNCHANGED readers
    BY <1>2 DEF CheckIndex
  <2> QED
    BY <1>0, <2>1, NoGoroutines, ReturnIs DEF Inv, TypeOK, search, Inside
<1> QED
  BY <1>1, <1>2

LEMMA DoneKeeps ==
  ASSUME Inv, NEW c \in Clients, Done(c)
  PROVE  Inv'
<1>1. /\ call[c].op = "read" /\ call[c].step = "work" /\ call[c].arg = {}
      /\ call[c].on \in Indexes
      /\ readers' = [readers EXCEPT ![call[c].on] = @ - 1]
      /\ held' = ReadUnlocked(c, {call[c].on} \cup call[c].arg) /\ Return(c)
      /\ UNCHANGED <<world, announced, dict, search, calls>>
  BY DEF Done, At, Inv, ClientInv, CallFits
<1>2. readers' \in [Indexes -> Int]
  BY <1>1, ReadersTyped DEF Inv
<1> QED
  BY <1>1, <1>2, NoGoroutines, ReturnIs DEF Inv, TypeOK, search, Inside

LEMMA HaveDictKeeps ==
  ASSUME Inv, NEW c \in Clients, HaveDict(c)
  PROVE  Inv'
<1> DEFINE mine == [on |-> call[c].on, locks |-> {call[c].on} \cup call[c].arg]
<1>0. /\ call[c].op = "dict" /\ call[c].step = "work" /\ call[c].on \in Indexes
      /\ dict[c] = {} /\ call[c].arg \in SUBSET Mutexes
      /\ dict' = [dict EXCEPT ![c] = {mine}]
      /\ call' = [call EXCEPT ![c] = Idle]
      /\ UNCHANGED <<world, held, announced, readers, search, calls>>
  BY DEF HaveDict, At, Return, Inv, ClientInv, CallFits, TypeOK
<1>1. call'[c] = Idle /\ dict'[c] = {mine}
  BY <1>0 DEF Inv, TypeOK
<1>2. TypeOK'
  BY <1>0 DEF Inv, TypeOK, world, search, Mutexes, Idle
<1>3. Quiet(c)
  <2>1. Frame(c)
    BY <1>0 DEF Frame, search
  <2> QED
    BY <2>1, <1>0, <1>1 DEF Quiet, world, search, Idle
<1>4. CallFits(c)'
  BY <1>1 DEF CallFits, Idle, Inside, Readers, Searches, Writes
<1>5. DictFits(c)'
  BY <1>1 DEF DictFits
<1>6. LocksExact(c)'
  <2>1. /\ ByCall(c) = {call[c].on} \cup call[c].arg /\ ByDict(c) = {}
        /\ ByCall(c)' = {} /\ ByChild(c)' = ByChild(c)
    BY <1>0, <1>1 DEF ByCall, ByDict, ByChild, Inside, Idle, search
  <2>2. ByDict(c)' = ByCall(c)
    BY <1>1, <2>1 DEF ByDict
  <2> SUFFICES ASSUME NEW n \in Mutexes
               PROVE  held'[n][c] = One(n \in ByCall(c)') + One(n \in ByDict(c)')
                                      + One(n \in ByChild(c)')
    BY DEF LocksExact
  <2>3. held[n][c] = One(n \in ByCall(c)) + One(n \in ByDict(c)) + One(n \in ByChild(c))
    BY DEF Inv, ClientInv, LocksExact
  <2> QED
    BY <1>0, <2>1, <2>2, <2>3 DEF One
<1>7. UsesOpen(c)'
  <2>1. call[c].on \in open
    BY <1>0 DEF Inv, ClientInv, UsesOpen, Using, At, Readers
  <2> QED
    BY <1>0, <1>1, <2>1 DEF Inv, ClientInv, UsesOpen, Using, At, world, search, Idle
<1>8. RoundsFit(c)'
  BY <1>0, <1>1 DEF Inv, ClientInv, RoundsFit, world, search, Idle
<1> QED
  BY <1>2, <1>3, <1>4, <1>5, <1>6, <1>7, <1>8, QuietKeeps DEF ClientInv

LEMMA CheckAliasDictKeeps ==
  ASSUME HandleAssumption, Inv, NEW c \in Clients, CheckAliasDict(c)
  PROVE  Inv'
<1>0. /\ call[c].op = "dict" /\ call[c].step = "check" /\ call[c].on = Alias
      /\ UNCHANGED <<world, announced, readers, dict, search, calls>>
  BY DEF CheckAliasDict, At
<1>1. call[c].arg = {}
  BY <1>0 DEF Inv, ClientInv, CallFits, HandleAssumption
<1>2. CASE call' = [call EXCEPT ![c].step = "index"] /\ UNCHANGED held
  <2>1. call'[c] = [call[c] EXCEPT !.step = "index"]
    BY <1>2 DEF Inv, TypeOK
  <2>2. TypeOK'
    <3>1. call' \in [Clients -> [op : {"none"} \cup Readers \cup Searches \cup Writes,
                                step : {"none", "lock", "check", "index", "work", "search", "write"},
                                on : Mutexes, arg : SUBSET Mutexes]]
      BY <1>2, StepTyped DEF Inv
    <3> QED
      BY <1>0, <1>2, <3>1 DEF Inv, TypeOK, world, search
  <2>3. Quiet(c)
    <3>1. Frame(c)
      BY <1>0, <1>2 DEF Frame, search
    <3> QED
      BY <3>1, <1>0, <2>1 DEF Quiet, world, search, Inv, TypeOK
  <2>4. CallFits(c)' /\ DictFits(c)'
    BY <1>0, <1>1, <2>1 DEF Inv, TypeOK, ClientInv, CallFits, DictFits, Inside, Readers, Searches, Writes
  <2>5. LocksExact(c)'
    <3>1. ByCall(c)' = ByCall(c) /\ ByDict(c)' = ByDict(c) /\ ByChild(c)' = ByChild(c)
      BY <1>0, <2>1 DEF ByCall, ByDict, ByChild, search, Inside, Inv, TypeOK
    <3> QED
      BY <1>2, <3>1, KeepsLocks
  <2>6. UsesOpen(c)'
    BY <1>0, <2>1 DEF Inv, TypeOK, ClientInv, UsesOpen, Using, At, world, search
  <2>7. RoundsFit(c)'
    BY <1>0, <2>1 DEF Inv, TypeOK, ClientInv, RoundsFit, world, search
  <2> QED
    BY <2>2, <2>3, <2>4, <2>5, <2>6, <2>7, QuietKeeps DEF ClientInv
<1>3. CASE held' = ReadUnlocked(c, {Alias}) /\ Return(c)
  <2>1. held' = ReadUnlocked(c, {call[c].on} \cup call[c].arg)
    BY <1>0, <1>1, <1>3
  <2> QED
    BY <1>0, <1>3, <2>1, NoGoroutines, ReturnIs DEF Inv, TypeOK, search, Inside
<1> QED
  BY <1>2, <1>3 DEF CheckAliasDict

LEMMA LockForAliasKeeps ==
  ASSUME HandleAssumption, Inv, NEW c \in Clients, LockForAlias(c)
  PROVE  Inv'
<1>1. PICK i \in alias :
        /\ held' = ReadLocked(c, i)
        /\ call' = [call EXCEPT ![c] = [op |-> "dict", step |-> "check", on |-> i, arg |-> {Alias}]]
  BY DEF LockForAlias
<1>2. /\ i \in Indexes /\ i \in Mutexes /\ i # Alias
      /\ call[c].op = "dict" /\ call[c].step = "index" /\ call[c].on = Alias
      /\ UNCHANGED <<world, announced, readers, dict, search, calls>>
  BY DEF LockForAlias, At, Inv, TypeOK, ClientInv, CallFits, HandleAssumption, Mutexes
<1>3. call'[c] = [op |-> "dict", step |-> "check", on |-> i, arg |-> {Alias}]
  BY <1>1 DEF Inv, TypeOK
<1>4. call[c].arg = {}
  BY <1>2 DEF Inv, ClientInv, CallFits, HandleAssumption
<1>5. /\ held' \in [Mutexes -> [Clients -> Nat]]
      /\ \A n \in Mutexes, d \in Clients :
           held'[n][d] = IF n = i /\ d = c THEN held[n][d] + 1 ELSE held[n][d]
  BY <1>1, <1>2, ReadLockedIs DEF Inv
<1>6. TypeOK'
  BY <1>1, <1>2, <1>5 DEF Inv, TypeOK, world, search, Readers, Mutexes
<1>7. Quiet(c)
  <2>1. Frame(c)
    BY <1>1, <1>2, <1>5 DEF Frame, search
  <2> QED
    BY <2>1, <1>2, <1>3 DEF Quiet, world, search
<1>8. CallFits(c)' /\ DictFits(c)'
  BY <1>2, <1>3 DEF Inv, ClientInv, CallFits, DictFits, Inside, Readers, Searches, Writes
<1>9. LocksExact(c)'
  <2>1. ByCall(c) = {Alias} /\ ByCall(c)' = {i, Alias}
    BY <1>2, <1>3, <1>4 DEF ByCall, Inside
  <2>2. ByDict(c)' = ByDict(c) /\ ByChild(c)' = ByChild(c)
    BY <1>2 DEF ByDict, ByChild, search
  <2> QED
    BY <1>2, <1>5, <2>1, <2>2, TakesOne
<1>10. UsesOpen(c)'
  BY <1>2, <1>3 DEF Inv, ClientInv, UsesOpen, Using, At, world, search
<1>11. RoundsFit(c)'
  BY <1>2, <1>3 DEF Inv, ClientInv, RoundsFit, world, search
<1> QED
  BY <1>6, <1>7, <1>8, <1>9, <1>10, <1>11, QuietKeeps DEF ClientInv

LEMMA CloseDictKeeps ==
  ASSUME Inv, NEW c \in Clients, CloseDict(c)
  PROVE  Inv'
<1>1. PICK d \in dict[c] : /\ readers' = [readers EXCEPT ![d.on] = @ - 1]
                           /\ held' = ReadUnlocked(c, d.locks)
  BY DEF CloseDict
<1>2. /\ call[c] = Idle /\ dict' = [dict EXCEPT ![c] = {}]
      /\ UNCHANGED <<world, announced, call, search, calls>>
      /\ d.on \in Indexes /\ d.locks \in SUBSET Mutexes
  BY DEF CloseDict, Inv, TypeOK
<1>3. dict'[c] = {} /\ ByDict(c) = d.locks
  BY <1>1, <1>2 DEF Inv, TypeOK, ClientInv, DictFits, ByDict
<1>4. /\ held' \in [Mutexes -> [Clients -> Nat]]
      /\ \A n \in Mutexes, e \in Clients :
           held'[n][e] = IF n \in d.locks /\ e = c THEN held[n][e] - 1 ELSE held[n][e]
  <2>1. \A m \in d.locks : held[m][c] > 0
    BY <1>2, <1>3, UsersHold DEF Inv, ClientInv
  <2> QED
    BY <1>1, <1>2, <2>1, ReadUnlockedIs DEF Inv
<1>5. TypeOK'
  BY <1>1, <1>2, <1>4 DEF Inv, TypeOK, world, search
<1>6. Quiet(c)
  <2>1. Frame(c)
    BY <1>2, <1>4 DEF Frame, search
  <2> QED
    BY <2>1, <1>2 DEF Quiet, world, search
<1>7. CallFits(c)' /\ DictFits(c)'
  BY <1>2, <1>3 DEF Inv, ClientInv, CallFits, DictFits, Idle
<1>8. LocksExact(c)'
  <2>1. ByCall(c)' = ByCall(c) /\ ByDict(c)' = {} /\ ByChild(c)' = ByChild(c)
    BY <1>2, <1>3 DEF ByCall, ByDict, ByChild, search
  <2>2. ByDict(c) \in SUBSET Mutexes
    BY <1>2, <1>3
  <2>3. \A n \in Mutexes : held'[n][c] = IF n \in ByDict(c) THEN held[n][c] - 1 ELSE held[n][c]
    BY <1>3, <1>4
  <2> QED
    BY <2>1, <2>2, <2>3, GivesBack
<1>9. UsesOpen(c)'
  BY <1>2, <1>3 DEF Inv, ClientInv, UsesOpen, Using, At, world, search, Idle
<1>10. RoundsFit(c)'
  BY <1>2 DEF Inv, ClientInv, RoundsFit, world, search
<1> QED
  BY <1>5, <1>6, <1>7, <1>8, <1>9, <1>10, QuietKeeps DEF ClientInv

---------------------------------------------------------------------------
(* Searches of the alias *)

LEMMA StartRoundIs ==
  ASSUME Inv, NEW c \in Clients, StartRound(c)
  PROVE  /\ child' \in [Clients -> [Indexes -> {"no", "lock", "check", "work", "ok", "closed"}]]
         /\ round' \in [Clients -> Seq(SUBSET Indexes)]
         /\ \A d \in Clients \ {c} : child'[d] = child[d] /\ round'[d] = round[d]
         /\ child'[c] = [i \in Indexes |-> IF i \in alias THEN "lock" ELSE "no"]
         /\ round'[c] = Append(round[c], alias)
         /\ ByChild(c)' = {}
<1>1. /\ child' = [child EXCEPT ![c] = [i \in Indexes |-> IF i \in alias THEN "lock" ELSE "no"]]
      /\ round' = [round EXCEPT ![c] = Append(round[c], alias)]
  BY DEF StartRound
<1>2. child'[c] = [i \in Indexes |-> IF i \in alias THEN "lock" ELSE "no"]
  BY <1>1 DEF Inv, TypeOK
<1>3. ByChild(c)' = {}
  BY <1>2 DEF ByChild
<1> QED
  BY <1>1, <1>2, <1>3 DEF Inv, TypeOK

LEMMA CheckAliasKeeps ==
  ASSUME Inv, NEW c \in Clients, CheckAlias(c)
  PROVE  Inv'
<1>0. /\ call[c].op \in Searches /\ call[c].step = "check"
      /\ UNCHANGED <<world, announced, readers, dict, calls, met>>
      /\ call[c].on = Alias /\ call[c].arg = {}
  BY DEF CheckAlias, At, Inv, ClientInv, CallFits
<1>1. child[c] = NoChild /\ round[c] = <<>> /\ ByChild(c) = {}
  BY <1>0, NoGoroutines
<1>2. CASE StartRound(c) /\ To(c, "search") /\ UNCHANGED held
  <2>0. call' = [call EXCEPT ![c].step = "search"]
    BY <1>2 DEF To
  <2>1. call'[c] = [call[c] EXCEPT !.step = "search"]
    BY <2>0 DEF Inv, TypeOK
  <2>2. /\ child' \in [Clients -> [Indexes -> {"no", "lock", "check", "work", "ok", "closed"}]]
        /\ round' \in [Clients -> Seq(SUBSET Indexes)]
        /\ \A d \in Clients \ {c} : child'[d] = child[d] /\ round'[d] = round[d]
        /\ child'[c] = [i \in Indexes |-> IF i \in alias THEN "lock" ELSE "no"]
        /\ round'[c] = <<alias>>
        /\ ByChild(c)' = {}
    BY <1>1, <1>2, StartRoundIs
  <2>3. TypeOK'
    <3>1. call' \in [Clients -> [op : {"none"} \cup Readers \cup Searches \cup Writes,
                                step : {"none", "lock", "check", "index", "work", "search", "write"},
                                on : Mutexes, arg : SUBSET Mutexes]]
      BY <2>0, StepTyped DEF Inv
    <3> QED
      BY <1>0, <1>2, <2>2, <3>1 DEF Inv, TypeOK, world
  <2>4. Quiet(c)
    <3>1. Frame(c)
      BY <1>0, <1>2, <2>0, <2>2 DEF Frame
    <3> QED
      BY <3>1, <1>0, <2>1 DEF Quiet, world, Inv, TypeOK, Searches
  <2>5. CallFits(c)' /\ DictFits(c)'
    BY <1>0, <2>1 DEF Inv, TypeOK, ClientInv, CallFits, DictFits, Inside, Readers, Searches, Writes
  <2>6. LocksExact(c)'
    <3>1. ByCall(c)' = ByCall(c) /\ ByDict(c)' = ByDict(c) /\ ByChild(c)' = ByChild(c)
      BY <1>0, <1>1, <2>1, <2>2 DEF ByCall, ByDict, Inside, Inv, TypeOK
    <3> QED
      BY <1>2, <3>1, KeepsLocks
  <2>7. UsesOpen(c)'
    BY <1>0, <2>1, <2>2 DEF Inv, TypeOK, ClientInv, UsesOpen, Using, At, world
  <2>8. RoundsFit(c)'
    BY <1>0, <2>1, <2>2 DEF Inv, TypeOK, RoundsFit, world
  <2> QED
    BY <2>3, <2>4, <2>5, <2>6, <2>7, <2>8, QuietKeeps DEF ClientInv
<1>3. CASE held' = ReadUnlocked(c, {Alias}) /\ Return(c) /\ UNCHANGED <<child, round>>
  <2>1. held' = ReadUnlocked(c, {call[c].on} \cup call[c].arg)
    BY <1>0, <1>3
  <2> QED
    BY <1>0, <1>1, <1>3, <2>1, ReturnIs DEF Inv, TypeOK, Inside
<1> QED
  BY <1>2, <1>3 DEF CheckAlias

\* A goroutine of a search of c, for index i, is the only thing that changes.
LEMMA ChildIs ==
  ASSUME Inv, NEW c \in Clients, NEW i \in Indexes, child[c][i] \in {"lock", "check", "work"},
         NEW to \in {"check", "work", "ok"}, ChildTo(c, i, to),
         held' \in [Mutexes -> [Clients -> Nat]],
         \A n \in Mutexes, d \in Clients : d # c => held'[n][d] = held[n][d],
         readers' \in [Indexes -> Int],
         UNCHANGED <<others, met>>, LocksExact(c)'
  PROVE  Inv'
<1>0. /\ child' = [child EXCEPT ![c][i] = to]
      /\ \A j \in Indexes : child'[c][j] = IF j = i THEN to ELSE child[c][j]
  BY DEF ChildTo, Inv, TypeOK
<1>1. call[c].step = "search" /\ i \in alias /\ i \in open
  BY DEF Inv, ClientInv, RoundsFit, NoChild, AliasOpen
<1>2. TypeOK'
  BY <1>0 DEF Inv, TypeOK, others, world
<1>3. Quiet(c)
  <2>1. Frame(c)
    BY <1>0 DEF Frame, others, Inv, TypeOK
  <2> QED
    BY <2>1 DEF Quiet, others, world
<1>4. CallFits(c)' /\ DictFits(c)'
  BY DEF Inv, ClientInv, CallFits, DictFits, others
<1>5. UsesOpen(c)'
  BY <1>0, <1>1 DEF Inv, ClientInv, UsesOpen, Using, At, others, world
<1>6. RoundsFit(c)'
  BY <1>0, <1>1 DEF Inv, ClientInv, RoundsFit, others, world
<1> QED
  BY <1>2, <1>3, <1>4, <1>5, <1>6, QuietKeeps DEF ClientInv

LEMMA ChildLockKeeps ==
  ASSUME Inv, NEW c \in Clients, NEW i \in Indexes, ChildLock(c, i)
  PROVE  Inv'
<1>0. /\ child[c][i] = "lock" /\ held' = ReadLocked(c, i) /\ i \in Mutexes
      /\ ChildTo(c, i, "check") /\ UNCHANGED <<others, readers, met>>
  BY DEF ChildLock, Mutexes
<1>1. /\ held' \in [Mutexes -> [Clients -> Nat]]
      /\ \A n \in Mutexes, d \in Clients :
           held'[n][d] = IF n = i /\ d = c THEN held[n][d] + 1 ELSE held[n][d]
  BY <1>0, ReadLockedIs DEF Inv
<1>2. LocksExact(c)'
  <2>1. \A j \in Indexes : child'[c][j] = IF j = i THEN "check" ELSE child[c][j]
    BY <1>0 DEF ChildTo, Inv, TypeOK
  <2>2. ByChild(c)' = ByChild(c) \cup {i} /\ i \notin ByChild(c)
    BY <1>0, <2>1 DEF ByChild
  <2>3. ByCall(c)' = ByCall(c) /\ ByDict(c)' = ByDict(c)
    BY <1>0 DEF ByCall, ByDict, others
  <2> QED
    BY <1>0, <1>1, <2>2, <2>3, TakesOne
<1> QED
  BY <1>0, <1>1, <1>2, ChildIs DEF Inv, TypeOK

LEMMA ChildCheckKeeps ==
  ASSUME Inv, NEW c \in Clients, NEW i \in Indexes, ChildCheck(c, i)
  PROVE  Inv'
<1>0. child[c][i] = "check" /\ UNCHANGED others
  BY DEF ChildCheck
<1>1. i \in open
  BY <1>0 DEF Inv, ClientInv, RoundsFit, NoChild, AliasOpen
<1>2. /\ ChildTo(c, i, "work") /\ readers' = [readers EXCEPT ![i] = @ + 1]
      /\ UNCHANGED <<held, met>>
  BY <1>1 DEF ChildCheck
<1>3. LocksExact(c)'
  <2>1. \A j \in Indexes : child'[c][j] = IF j = i THEN "work" ELSE child[c][j]
    BY <1>2 DEF ChildTo, Inv, TypeOK
  <2>2. ByChild(c)' = ByChild(c)
    BY <1>0, <2>1 DEF ByChild
  <2>3. ByCall(c)' = ByCall(c) /\ ByDict(c)' = ByDict(c)
    BY <1>0 DEF ByCall, ByDict, others
  <2> QED
    BY <1>2, <2>2, <2>3, KeepsLocks
<1>4. held' \in [Mutexes -> [Clients -> Nat]] /\ readers' \in [Indexes -> Int]
  BY <1>2, ReadersTyped DEF Inv, TypeOK
<1> QED
  BY <1>0, <1>2, <1>3, <1>4, ChildIs

LEMMA ChildDoneKeeps ==
  ASSUME Inv, NEW c \in Clients, NEW i \in Indexes, ChildDone(c, i)
  PROVE  Inv'
<1>0. /\ child[c][i] = "work" /\ held' = ReadUnlocked(c, {i}) /\ {i} \in SUBSET Mutexes
      /\ ChildTo(c, i, "ok") /\ readers' = [readers EXCEPT ![i] = @ - 1]
      /\ UNCHANGED <<others, met>>
  BY DEF ChildDone, Mutexes
<1>1. /\ held' \in [Mutexes -> [Clients -> Nat]]
      /\ \A n \in Mutexes, d \in Clients :
           held'[n][d] = IF n \in {i} /\ d = c THEN held[n][d] - 1 ELSE held[n][d]
  <2>1. i \in ByChild(c)
    BY <1>0 DEF ByChild
  <2>2. \A m \in {i} : held[m][c] > 0
    BY <1>0, <2>1, UsersHold DEF Inv, ClientInv
  <2> QED
    BY <1>0, <2>2, ReadUnlockedIs DEF Inv
<1>2. LocksExact(c)'
  <2>1. \A j \in Indexes : child'[c][j] = IF j = i THEN "ok" ELSE child[c][j]
    BY <1>0 DEF ChildTo, Inv, TypeOK
  <2>2. ByChild(c)' = ByChild(c) \ {i} /\ {i} \subseteq ByChild(c)
    BY <1>0, <2>1 DEF ByChild
  <2>3. ByCall(c)' = ByCall(c) /\ ByDict(c)' = ByDict(c)
    BY <1>0 DEF ByCall, ByDict, others
  <2> QED
    BY <1>0, <1>1, <2>2, <2>3, GivesBack
<1>3. readers' \in [Indexes -> Int]
  BY <1>0, ReadersTyped DEF Inv
<1> QED
  BY <1>0, <1>1, <1>2, <1>3, ChildIs

LEMMA SecondRoundKeeps ==
  ASSUME Inv, NEW c \in Clients, SecondRound(c)
  PROVE  Inv'
<1>0. /\ call[c].step = "search" /\ \A i \in Indexes : child[c][i] \in {"no", "ok", "closed"}
      /\ UNCHANGED <<world, held, announced, readers, call, dict, calls, met>>
  BY DEF SecondRound, RoundOver, At
<1>1. /\ child' \in [Clients -> [Indexes -> {"no", "lock", "check", "work", "ok", "closed"}]]
      /\ round' \in [Clients -> Seq(SUBSET Indexes)]
      /\ \A d \in Clients \ {c} : child'[d] = child[d] /\ round'[d] = round[d]
      /\ child'[c] = [i \in Indexes |-> IF i \in alias THEN "lock" ELSE "no"]
      /\ round'[c] = Append(round[c], alias)
      /\ ByChild(c)' = {}
  BY StartRoundIs DEF SecondRound
<1>2. TypeOK'
  BY <1>0, <1>1 DEF Inv, TypeOK, world
<1>3. Quiet(c)
  <2>1. Frame(c)
    BY <1>0, <1>1 DEF Frame
  <2> QED
    BY <2>1, <1>0 DEF Quiet, world
<1>4. CallFits(c)' /\ DictFits(c)'
  BY <1>0 DEF Inv, ClientInv, CallFits, DictFits
<1>5. LocksExact(c)'
  <2>1. ByCall(c)' = ByCall(c) /\ ByDict(c)' = ByDict(c) /\ ByChild(c)' = ByChild(c)
    BY <1>0, <1>1 DEF ByCall, ByDict, ByChild
  <2> QED
    BY <1>0, <2>1, KeepsLocks
<1>6. UsesOpen(c)'
  BY <1>0, <1>1 DEF Inv, ClientInv, UsesOpen, Using, At, world
<1>7. RoundsFit(c)'
  <2>1. /\ round[c] \in Seq(SUBSET Indexes) /\ alias \in SUBSET Indexes
        /\ \A k \in 1 .. Len(round[c]) : round[c][k] = alias
    BY <1>0 DEF Inv, TypeOK, ClientInv, RoundsFit
  <2>2. \A k \in 1 .. Len(round'[c]) : round'[c][k] = alias
    BY <1>1, <2>1
  <2> QED
    BY <1>0, <1>1, <2>2 DEF RoundsFit, world
<1> QED
  BY <1>2, <1>3, <1>4, <1>5, <1>6, <1>7, QuietKeeps DEF ClientInv

LEMMA SearchReturnsKeeps ==
  ASSUME Inv, NEW c \in Clients, SearchReturns(c)
  PROVE  Inv'
<1>0. /\ call[c].step = "search" /\ \A i \in Indexes : child[c][i] \in {"no", "ok", "closed"}
      /\ call[c].on = Alias /\ call[c].arg = {}
      /\ held' = ReadUnlocked(c, {Alias}) /\ Return(c)
      /\ child' = [child EXCEPT ![c] = NoChild] /\ round' = [round EXCEPT ![c] = <<>>]
      /\ UNCHANGED <<world, announced, readers, dict, calls, met>>
  BY DEF SearchReturns, RoundOver, At, Inv, ClientInv, CallFits
<1>1. ByChild(c) = {} /\ held' = ReadUnlocked(c, {call[c].on} \cup call[c].arg)
  BY <1>0 DEF ByChild
<1>2. /\ child' \in [Clients -> [Indexes -> {"no", "lock", "check", "work", "ok", "closed"}]]
      /\ round' \in [Clients -> Seq(SUBSET Indexes)]
      /\ \A d \in Clients \ {c} : child'[d] = child[d] /\ round'[d] = round[d]
      /\ child'[c] = NoChild /\ round'[c] = <<>>
  BY <1>0 DEF Inv, TypeOK, NoChild
<1> QED
  BY <1>0, <1>1, <1>2, ReturnIs DEF Inv, TypeOK, Inside

---------------------------------------------------------------------------
(* Operations under the write lock *)

LEMMA AnnounceKeeps ==
  ASSUME Inv, NEW c \in Clients, Announce(c)
  PROVE  Inv'
<1>0. /\ call[c].op \in Writes /\ call[c].step = "lock"
      /\ announced' = [announced EXCEPT ![call[c].on] = {c}]
      /\ call' = [call EXCEPT ![c].step = "write"]
      /\ UNCHANGED <<world, held, readers, dict, search, calls>>
  BY DEF Announce, At, To
<1>1. call'[c] = [call[c] EXCEPT !.step = "write"]
  BY <1>0 DEF Inv, TypeOK
<1>2. TypeOK'
  <2>1. call' \in [Clients -> [op : {"none"} \cup Readers \cup Searches \cup Writes,
                              step : {"none", "lock", "check", "index", "work", "search", "write"},
                              on : Mutexes, arg : SUBSET Mutexes]]
    BY <1>0, StepTyped DEF Inv
  <2>2. announced' \in [Mutexes -> SUBSET Clients]
    BY <1>0 DEF Inv, TypeOK
  <2> QED
    BY <1>0, <2>1, <2>2 DEF Inv, TypeOK, world, search
<1>3. Quiet(c)
  <2>1. Frame(c)
    BY <1>0 DEF Frame, search
  <2> QED
    BY <2>1, <1>0, <1>1 DEF Quiet, world, search, Inv, TypeOK
<1>4. CallFits(c)' /\ DictFits(c)'
  BY <1>0, <1>1 DEF Inv, TypeOK, ClientInv, CallFits, DictFits, Inside, Readers, Searches, Writes
<1>5. LocksExact(c)'
  <2>1. ByCall(c)' = ByCall(c) /\ ByDict(c)' = ByDict(c) /\ ByChild(c)' = ByChild(c)
    BY <1>0, <1>1 DEF ByCall, ByDict, ByChild, search, Inside, Inv, TypeOK
  <2> QED
    BY <1>0, <2>1, KeepsLocks
<1>6. UsesOpen(c)'
  BY <1>0, <1>1 DEF Inv, TypeOK, ClientInv, UsesOpen, Using, At, world, search
<1>7. RoundsFit(c)'
  BY <1>0, <1>1 DEF Inv, TypeOK, ClientInv, RoundsFit, world, search
<1> QED
  BY <1>2, <1>3, <1>4, <1>5, <1>6, <1>7, QuietKeeps DEF ClientInv

\* The write lock is given back and the call ends; c has no read locks of it.
LEMMA UnlockIs ==
  ASSUME Inv, NEW c \in Clients, call[c].op \in Writes, call[c].step = "write", Unlock(c)
  PROVE  /\ call' = [call EXCEPT ![c] = Idle] /\ call'[c] = Idle
         /\ announced' \in [Mutexes -> SUBSET Clients]
         /\ Frame(c) /\ UNCHANGED <<held, readers, dict, child, round, met>>
         /\ CallFits(c)' /\ DictFits(c)' /\ LocksExact(c)'
<1>0. /\ call' = [call EXCEPT ![c] = Idle]
      /\ announced' = [announced EXCEPT ![call[c].on] = {}]
      /\ UNCHANGED <<held, readers, dict, child, round, met>>
  BY DEF Unlock, Return, search
<1>1. call'[c] = Idle
  BY <1>0 DEF Inv, TypeOK
<1>2. announced' \in [Mutexes -> SUBSET Clients]
  BY <1>0 DEF Inv, TypeOK
<1>3. Frame(c)
  BY <1>0 DEF Frame
<1>4. CallFits(c)' /\ DictFits(c)'
  BY <1>0, <1>1 DEF Inv, ClientInv, CallFits, DictFits, Idle, Inside, Readers, Searches, Writes
<1>5. LocksExact(c)'
  <2>1. ByCall(c)' = ByCall(c) /\ ByDict(c)' = ByDict(c) /\ ByChild(c)' = ByChild(c)
    BY <1>0, <1>1 DEF ByCall, ByDict, ByChild, Idle, Inside
  <2> QED
    BY <1>0, <2>1, KeepsLocks
<1> QED
  BY <1>0, <1>1, <1>2, <1>3, <1>4, <1>5

LEMMA CloseKeeps ==
  ASSUME Inv, NEW c \in Clients, Close(c)
  PROVE  Inv'
<1> DEFINE i == call[c].on
<1>0. /\ call[c].op = "close" /\ call[c].step = "write" /\ Drained(i) /\ Unlock(c)
      /\ open' = open \ {i} /\ UNCHANGED <<alias, aliasOpen>>
      /\ i \in Indexes /\ i \notin alias
  BY DEF Close, Exclusive, At, Inv, ClientInv, CallFits, AliasOpen
<1>1. /\ call' = [call EXCEPT ![c] = Idle] /\ call'[c] = Idle
      /\ announced' \in [Mutexes -> SUBSET Clients]
      /\ Frame(c) /\ UNCHANGED <<held, readers, dict, child, round, met>>
      /\ CallFits(c)' /\ DictFits(c)' /\ LocksExact(c)'
  BY <1>0, UnlockIs DEF Writes
<1>2. TypeOK'
  BY <1>0, <1>1 DEF Inv, TypeOK, Mutexes, Idle
<1>3. \A d \in Clients : UsesOpen(d)'
  <2> SUFFICES ASSUME NEW d \in Clients, NEW j \in Indexes, Using(d, j)'
               PROVE  j \in open'
    BY DEF UsesOpen
  <2>1. Using(d, j)
    BY <1>0, <1>1 DEF Using, At, Frame, Idle, Readers
  <2>2. held[j][d] > 0 /\ j \in open
    BY <2>1, UsingHolds DEF Inv, ClientInv, UsesOpen
  <2>3. j # i
    BY <1>0, <2>2 DEF Drained
  <2> QED
    BY <1>0, <2>2, <2>3
<1>4. \A d \in Clients : RoundsFit(d)'
  <2>1. RoundsFit(c)'
    BY <1>0, <1>1 DEF Inv, ClientInv, RoundsFit, Idle
  <2> QED
    BY <1>0, <1>1, <2>1 DEF Inv, ClientInv, RoundsFit, Frame
<1>5. \A d \in Clients : CallFits(d)' /\ DictFits(d)' /\ LocksExact(d)'
  <2> SUFFICES ASSUME NEW d \in Clients \ {c} PROVE CallFits(d)' /\ DictFits(d)' /\ LocksExact(d)'
    BY <1>1
  <2> QED
    BY <1>1 DEF Inv, ClientInv, CallFits, DictFits, LocksExact, ByCall, ByDict, ByChild, Frame
<1>6. AliasOpen'
  BY <1>0, <1>1 DEF Inv, AliasOpen, Frame, Idle
<1> QED
  BY <1>1, <1>2, <1>3, <1>4, <1>5, <1>6 DEF Inv, ClientInv

LEMMA CloseAliasKeeps ==
  ASSUME Inv, NEW c \in Clients, CloseAlias(c)
  PROVE  Inv'
<1>0. /\ call[c].op = "closealias" /\ call[c].step = "write" /\ Unlock(c)
      /\ aliasOpen' = FALSE /\ UNCHANGED <<open, alias>>
  BY DEF CloseAlias, Exclusive, At
<1>1. /\ call' = [call EXCEPT ![c] = Idle] /\ call'[c] = Idle
      /\ announced' \in [Mutexes -> SUBSET Clients]
      /\ Frame(c) /\ UNCHANGED <<held, readers, dict, child, round, met>>
      /\ CallFits(c)' /\ DictFits(c)' /\ LocksExact(c)'
  BY <1>0, UnlockIs DEF Writes
<1>2. TypeOK'
  BY <1>0, <1>1 DEF Inv, TypeOK, Mutexes, Idle
<1>3. UsesOpen(c)'
  BY <1>0, <1>1 DEF Inv, ClientInv, UsesOpen, Using, At, Idle
<1>4. RoundsFit(c)'
  BY <1>0, <1>1 DEF Inv, ClientInv, RoundsFit, Idle
<1> QED
  BY <1>0, <1>1, <1>2, <1>3, <1>4, QuietKeeps DEF Quiet, ClientInv, Idle

LEMMA SwapKeeps ==
  ASSUME Inv, NEW c \in Clients, Swap(c)
  PROVE  Inv'
<1>0. /\ call[c].op = "swap" /\ call[c].step = "write" /\ call[c].on = Alias
      /\ Drained(Alias) /\ Unlock(c)
      /\ UNCHANGED <<open, aliasOpen>> /\ alias' \subseteq alias \cup call[c].arg
      /\ call[c].arg \subseteq open
  BY DEF Swap, Exclusive, At, Inv, ClientInv, CallFits, AliasOpen
<1>1. /\ call' = [call EXCEPT ![c] = Idle] /\ call'[c] = Idle
      /\ announced' \in [Mutexes -> SUBSET Clients]
      /\ Frame(c) /\ UNCHANGED <<held, readers, dict, child, round, met>>
      /\ CallFits(c)' /\ DictFits(c)' /\ LocksExact(c)'
  BY <1>0, UnlockIs DEF Writes
<1>2. TypeOK'
  BY <1>0, <1>1 DEF Inv, TypeOK, Mutexes, Idle
<1>3. \A d \in Clients : UsesOpen(d)'
  BY <1>0, <1>1 DEF Inv, ClientInv, UsesOpen, Using, At, Frame, Idle
<1>4. \A d \in Clients : RoundsFit(d)'
  <2>1. \A d \in Clients : call[d].step # "search"
    BY <1>0, UsingHolds DEF Inv, Drained
  <2>2. \A d \in Clients : call'[d].step # "search"
    BY <1>1, <2>1 DEF Frame, Idle
  <2> QED
    BY <1>1, <2>1, <2>2 DEF Inv, ClientInv, RoundsFit
<1>5. \A d \in Clients : CallFits(d)' /\ DictFits(d)' /\ LocksExact(d)'
  <2> SUFFICES ASSUME NEW d \in Clients \ {c} PROVE CallFits(d)' /\ DictFits(d)' /\ LocksExact(d)'
    BY <1>1
  <2> QED
    BY <1>1 DEF Inv, ClientInv, CallFits, DictFits, LocksExact, ByCall, ByDict, ByChild, Frame
<1>6. AliasOpen'
  BY <1>0, <1>1 DEF Inv, AliasOpen, Frame, Idle
<1> QED
  BY <1>1, <1>2, <1>3, <1>4, <1>5, <1>6 DEF Inv, ClientInv

---------------------------------------------------------------------------
(* The theorems *)

LEMMA InitKeeps ==
  ASSUME HandleAssumption, Init
  PROVE  Inv
<1>1. TypeOK
  BY DEF HandleAssumption, Init, TypeOK, Mutexes, Idle, NoChild
<1>2. ASSUME NEW c \in Clients PROVE ClientInv(c)
  <2>1. CallFits(c) /\ DictFits(c) /\ RoundsFit(c)
    BY DEF Init, CallFits, DictFits, RoundsFit, Idle, Inside, Readers, Searches, Writes
  <2>2. ByCall(c) = {} /\ ByDict(c) = {} /\ ByChild(c) = {}
    BY DEF Init, ByCall, ByDict, ByChild, Idle, Inside, NoChild
  <2>3. LocksExact(c)
    BY <2>2 DEF Init, LocksExact, One
  <2>4. UsesOpen(c)
    BY DEF Init, UsesOpen
  <2> QED
    BY <2>1, <2>3, <2>4 DEF ClientInv
<1>3. AliasOpen /\ met = {}
  BY DEF HandleAssumption, Init, AliasOpen, Idle
<1> QED
  BY <1>1, <1>2, <1>3 DEF Inv

LEMMA NextKeeps ==
  ASSUME HandleAssumption, Inv, [Next]_vars
  PROVE  Inv'
<1>1. CASE UNCHANGED vars
  <2>1. TypeOK' /\ AliasOpen' /\ met' = {}
    BY <1>1 DEF vars, Inv, TypeOK, AliasOpen
  <2>2. ASSUME NEW c \in Clients PROVE ClientInv(c)'
    <3>1. CallFits(c)' /\ DictFits(c)' /\ RoundsFit(c)'
      BY <1>1 DEF vars, Inv, ClientInv, CallFits, DictFits, RoundsFit
    <3>2. LocksExact(c)'
      BY <1>1 DEF vars, Inv, ClientInv, LocksExact, ByCall, ByDict, ByChild
    <3>3. UsesOpen(c)'
      BY <1>1 DEF vars, Inv, ClientInv, UsesOpen, Using, At
    <3> QED
      BY <3>1, <3>2, <3>3 DEF ClientInv
  <2> QED
    BY <2>1, <2>2 DEF Inv
<1>2. ASSUME NEW c \in Clients, Calls(c) PROVE Inv'
  BY <1>2, CallsKeep
<1>3. ASSUME NEW c \in Clients, Continue(c) PROVE Inv'
  BY <1>3, LockKeeps, CheckIndexKeeps, DoneKeeps, HaveDictKeeps, CheckAliasDictKeeps,
     LockForAliasKeeps, CloseDictKeeps, CheckAliasKeeps, SecondRoundKeeps, SearchReturnsKeeps,
     AnnounceKeeps, CloseKeeps, CloseAliasKeeps, SwapKeeps, ChildLockKeeps, ChildCheckKeeps,
     ChildDoneKeeps DEF Continue
<1> QED
  BY <1>1, <1>2, <1>3 DEF Next

LEMMA Invariance ==
  ASSUME HandleAssumption
  PROVE  Spec => []Inv
<1>1. Init => Inv
  BY InitKeeps
<1>2. Inv /\ [Next]_vars => Inv'
  BY NextKeeps
<1> QED
  BY <1>1, <1>2, PTL DEF Spec

\* index_impl.go, Close: an index that is closed has no reader of a call, of a
\* search of the alias or of a field dictionary, whatever else is going on.
THEOREM NobodyUsesClosed ==
  ASSUME HandleAssumption
  PROVE  Spec => []NoUseAfterClose
<1>1. Inv => NoUseAfterClose
  BY DEF Inv, ClientInv, UsesOpen, NoUseAfterClose
<1> QED
  BY <1>1, Invariance, PTL

\* index_alias_impl.go, Swap: when owners close an index only after they have
\* swapped it out of the alias, no search of the alias meets it closed.
THEOREM SwappedOutIsUnmet ==
  ASSUME HandleAssumption
  PROVE  Spec => []SwappedOutThenClosed
<1>1. Inv => SwappedOutThenClosed
  BY DEF Inv, SwappedOutThenClosed
<1> QED
  BY <1>1, Invariance, PTL

\* index_alias_impl.go, SearchInContext: pre-search and search go to the same
\* indexes, because the alias is not changed while its lock is held.
THEOREM RoundsAlwaysAgree ==
  ASSUME HandleAssumption
  PROVE  Spec => []RoundsAgree
<1>1. Inv => RoundsAgree
  <2> SUFFICES ASSUME Inv, NEW c \in Clients, Len(round[c]) = 2
               PROVE  round[c][1] = round[c][2]
    BY DEF RoundsAgree
  <2>1. CASE call[c].step = "search"
    BY <2>1 DEF Inv, ClientInv, RoundsFit
  <2>2. CASE call[c].step # "search"
    <3>1. Len(round[c]) = 0
      BY <2>2, NoGoroutines
    <3> QED
      BY <3>1
  <2> QED
    BY <2>1, <2>2
<1> QED
  BY <1>1, Invariance, PTL

\* index_impl.go and index_alias_impl.go: a goroutine that is in no call and
\* has no field dictionary holds no mutex.
THEOREM LocksAlwaysReturned ==
  ASSUME HandleAssumption
  PROVE  Spec => []LocksReturned
<1>1. Inv => LocksReturned
  <2> SUFFICES ASSUME Inv, NEW c \in Clients, call[c] = Idle, dict[c] = {}, NEW m \in Mutexes
               PROVE  held[m][c] = 0
    BY DEF LocksReturned
  <2>1. ByCall(c) = {} /\ ByDict(c) = {}
    BY DEF ByCall, ByDict, Idle, Inside
  <2>2. ByChild(c) = {}
    BY NoGoroutines DEF Idle
  <2> QED
    BY <2>1, <2>2 DEF Inv, ClientInv, LocksExact, One
<1> QED
  BY <1>1, Invariance, PTL

\* All that IndexHandles promises of open indexes and of an alias over them,
\* in every interleaving of searches, dictionaries, changes and Close.
THEOREM HandlesAlwaysSafe ==
  ASSUME HandleAssumption
  PROVE  Spec => []HandlesSafe
<1> QED
  BY NobodyUsesClosed, SwappedOutIsUnmet, RoundsAlwaysAgree, LocksAlwaysReturned, PTL
  DEF HandlesSafe

---------------------------------------------------------------------------
(* The files of indexes: the invariant *)

\* A New that has got past O_EXCL.
Past(p) == doing[p].op = "new" /\ doing[p].step \in {"write", "bolt", "mapping"}

DoingFits(p) ==
  /\ doing[p].op = "none" => doing[p] = AtRest
  /\ doing[p].op # "none" => doing[p].path \in Paths
  /\ doing[p].op = "new" => /\ doing[p].step \in {"mkdir", "create", "write", "bolt", "mapping"}
                            /\ doing[p].m \in Mappings /\ doing[p].ro = FALSE
  /\ doing[p].op = "open" => doing[p].step \in {"stat", "meta", "bolt", "mapping"}
  /\ doing[p].op = "batch" => doing[p].step = "persist"
  /\ doing[p].op = "copy" => /\ doing[p].step \in {"store", "commit", "create", "write"}
                             /\ doing[p].path # handle[p].path
  /\ doing[p].op \in {"new", "open"} => handle[p] = Closed
  /\ doing[p].op \in {"batch", "copy"} => handle[p].path \in Paths
  /\ handle[p] = Closed \/ handle[p].path \in Paths

\* The lock of a process on a root.bolt: for the index it has open, for the
\* one it is opening, for the copy it is writing, and for nothing else.
LocksFit(p) ==
  /\ handle[p].path \in Paths => lock[handle[p].path][p] = Mode(handle[p].ro)
  /\ doing[p].step = "mapping" => lock[doing[p].path][p] = Mode(doing[p].ro)
  /\ doing[p].step = "commit" => lock[doing[p].path][p] = "exclusive"
  /\ \A x \in Paths : lock[x][p] # "no" =>
       \/ handle[p].path = x
       \/ doing[p].path = x /\ doing[p].step \in {"mapping", "commit"}

LocksAgree(p, q) ==
  \A x \in Paths : lock[x][p] # "no" /\ lock[x][q] # "no" =>
                     lock[x][p] = "shared" /\ lock[x][q] = "shared"

\* Two processes that make an index at the same path.
Apart(p, q) ==
  doing[p].path = doing[q].path =>
    /\ doing[p].op = "copy" => doing[q].op \notin {"new", "copy"}
    /\ ~(Past(p) /\ Past(q))

Whole(x) == /\ disk[x].dir = TRUE /\ disk[x].meta = "whole" /\ disk[x].known = TRUE
            /\ disk[x].store = TRUE /\ disk[x].m \in Mappings

\* How far a call has got shows on disk.
DiskFits(p) ==
  /\ handle[p].path \in Paths => /\ disk[handle[p].path].dir = TRUE
                                 /\ disk[handle[p].path].m \in Mappings
  /\ doing[p].op = "open" /\ doing[p].step # "stat" => disk[doing[p].path].dir = TRUE
  /\ doing[p].op = "new" /\ doing[p].step # "mkdir" => disk[doing[p].path].dir = TRUE
  /\ doing[p].op = "new" /\ doing[p].step = "write" => disk[doing[p].path].meta = "empty"
  /\ doing[p].op = "new" /\ doing[p].step \in {"bolt", "mapping"} =>
       disk[doing[p].path].meta = "whole" /\ disk[doing[p].path].known = TRUE
  /\ doing[p].op = "new" /\ doing[p].step = "mapping" => disk[doing[p].path].store = TRUE
  /\ doing[p].op = "copy" /\ doing[p].step \in {"commit", "create", "write"} =>
       disk[doing[p].path].dir = TRUE /\ disk[doing[p].path].store = TRUE
  /\ doing[p].op = "copy" /\ doing[p].step \in {"create", "write"} =>
       disk[doing[p].path].m \in Mappings

\* Who makes an index, and who opens one that was made.
MadeFits(p) ==
  /\ Past(p) \/ doing[p].op = "copy" => doing[p].path \notin made
  /\ doing[p].op = "open" /\ doing[p].after = TRUE => doing[p].path \in made
  /\ outcome[p].op = "open" /\ outcome[p].after = TRUE => outcome[p].res \in {"ok", "failed"}

ProcInv(p) == DoingFits(p) /\ LocksFit(p) /\ DiskFits(p) /\ MadeFits(p)
PairInv(p, q) == LocksAgree(p, q) /\ Apart(p, q)

CreateInv ==
  /\ CreateTypeOK
  /\ \A p \in Procs : ProcInv(p)
  /\ \A p \in Procs, q \in Procs : p # q => PairInv(p, q)
  /\ \A x \in made : Whole(x)
---------------------------------------------------------------------------
(* What a process does leaves the others as they are *)

Others(p) ==
  \A q \in Procs \ {p} :
    /\ doing'[q] = doing[q] /\ handle'[q] = handle[q] /\ outcome'[q] = outcome[q]
    /\ \A x \in Paths : lock'[x][q] = lock[x][q]

\* Who may write the metadata of its path.
Making(p) ==
  \/ doing[p].op = "copy"
  \/ doing[p].op = "new" /\ doing[p].step = "write"
  \/ doing[p].op = "new" /\ doing[p].step = "create" /\ disk[doing[p].path].meta = "none"

\* What is on disk stays; metadata is written by who makes the index.
Grows(p) ==
  \A x \in Paths :
    /\ disk[x].dir = TRUE => disk'[x].dir = TRUE
    /\ disk[x].store = TRUE => disk'[x].store = TRUE
    /\ disk[x].m \in Mappings => disk'[x].m \in Mappings
    /\ \/ x = doing[p].path /\ Making(p)
       \/ disk'[x].meta = disk[x].meta /\ disk'[x].known = disk[x].known

Makes(p) ==
  /\ made \subseteq made'
  /\ \A x \in made' \ made : /\ x = doing[p].path /\ (Past(p) \/ doing[p].op = "copy")
                             /\ Whole(x)'

LEMMA OtherProcsKept ==
  ASSUME CreateInv, NEW p \in Procs, Others(p), Grows(p), Makes(p)
  PROVE  \A q \in Procs \ {p} : ProcInv(q)'
<1> SUFFICES ASSUME NEW q \in Procs \ {p} PROVE ProcInv(q)'
  OBVIOUS
<1>0. /\ doing'[q] = doing[q] /\ handle'[q] = handle[q] /\ outcome'[q] = outcome[q]
      /\ \A x \in Paths : lock'[x][q] = lock[x][q]
  BY DEF Others
<1>1. DoingFits(q) /\ LocksFit(q) /\ DiskFits(q) /\ MadeFits(q) /\ Apart(p, q)
  BY DEF CreateInv, ProcInv, PairInv
<1>2. DoingFits(q)'
  BY <1>0, <1>1 DEF DoingFits
<1>3. LocksFit(q)'
  <2>1. doing[q].step \in {"mapping", "commit"} => doing[q].path \in Paths
    BY <1>1 DEF DoingFits, AtRest
  <2> QED
    BY <1>0, <1>1, <2>1 DEF LocksFit, Mode
<1>4. DiskFits(q)'
  <2>1. /\ doing[q].op # "none" => doing[q].path \in Paths
        /\ doing[q].op = "new" /\ doing[q].step \in {"write", "bolt", "mapping"} =>
             /\ disk'[doing[q].path].meta = disk[doing[q].path].meta
             /\ disk'[doing[q].path].known = disk[doing[q].path].known
    BY <1>1 DEF DoingFits, Apart, Past, Grows, Making, DiskFits
  <2> QED
    BY <1>0, <1>1, <2>1 DEF DiskFits, Grows
<1>5. MadeFits(q)'
  <2>1. Past(q)' <=> Past(q)
    BY <1>0 DEF Past
  <2>2. Past(q) \/ doing[q].op = "copy" => doing[q].path \notin made'
    <3> SUFFICES ASSUME Past(q) \/ doing[q].op = "copy", doing[q].path \in made' PROVE FALSE
      OBVIOUS
    <3>1. doing[q].path \notin made
      BY <1>1 DEF MadeFits
    <3>2. doing[q].path = doing[p].path /\ (Past(p) \/ doing[p].op = "copy")
      BY <3>1 DEF Makes
    <3>3. Apart(q, p)
      BY DEF CreateInv, PairInv
    <3> QED
      BY <1>1, <3>2, <3>3 DEF Apart, Past
  <2>3. doing[q].op = "open" /\ doing[q].after = TRUE => doing[q].path \in made'
    BY <1>1 DEF MadeFits, Makes
  <2> QED
    BY <1>0, <1>1, <2>1, <2>2, <2>3 DEF MadeFits
<1> QED
  BY <1>2, <1>3, <1>4, <1>5 DEF ProcInv

LEMMA OtherPairsKept ==
  ASSUME CreateInv, NEW p \in Procs, Others(p)
  PROVE  \A q \in Procs \ {p}, r \in Procs \ {p} : q # r => PairInv(q, r)'
<1> SUFFICES ASSUME NEW q \in Procs \ {p}, NEW r \in Procs \ {p}, q # r PROVE PairInv(q, r)'
  OBVIOUS
<1>1. /\ doing'[q] = doing[q] /\ \A x \in Paths : lock'[x][q] = lock[x][q]
      /\ doing'[r] = doing[r] /\ \A x \in Paths : lock'[x][r] = lock[x][r]
  BY DEF Others
<1>2. LocksAgree(q, r) /\ Apart(q, r)
  BY DEF CreateInv, PairInv
<1> QED
  BY <1>1, <1>2 DEF PairInv, LocksAgree, Apart, Past

LEMMA WholeKept ==
  ASSUME CreateInv, NEW p \in Procs, Grows(p), Makes(p)
  PROVE  \A x \in made' : Whole(x)'
<1> SUFFICES ASSUME NEW x \in made PROVE Whole(x)'
  BY DEF Makes
<1>1. x \in Paths /\ Whole(x)
  BY DEF CreateInv, CreateTypeOK
<1>2. ~(x = doing[p].path /\ Making(p))
  BY <1>1 DEF CreateInv, ProcInv, MadeFits, Making, Past, Whole
<1> QED
  BY <1>1, <1>2 DEF Grows, Whole

LEMMA StepKeeps ==
  ASSUME CreateInv, NEW p \in Procs, CreateTypeOK', Others(p), Grows(p), Makes(p),
         DoingFits(p)', LocksFit(p)', DiskFits(p)', MadeFits(p)',
         \A q \in Procs \ {p} : PairInv(p, q)' /\ PairInv(q, p)'
  PROVE  CreateInv'
<1>1. \A q \in Procs : ProcInv(q)'
  BY OtherProcsKept DEF ProcInv
<1>2. \A q \in Procs, r \in Procs : q # r => PairInv(q, r)'
  BY OtherPairsKept
<1>3. \A x \in made' : Whole(x)'
  BY WholeKept
<1> QED
  BY <1>1, <1>2, <1>3 DEF CreateInv

\* A process that takes no lock and begins to make nothing.
LEMMA PairsKept ==
  ASSUME CreateInv, NEW p \in Procs, Others(p),
         \A x \in Paths : lock'[x][p] # "no" => lock'[x][p] = lock[x][p],
         \/ doing'[p].op \in {"none", "open", "batch"}
         \/ /\ doing'[p].op = doing[p].op /\ doing'[p].path = doing[p].path
            /\ Past(p)' => Past(p)
  PROVE  \A q \in Procs \ {p} : PairInv(p, q)' /\ PairInv(q, p)'
<1> SUFFICES ASSUME NEW q \in Procs \ {p} PROVE PairInv(p, q)' /\ PairInv(q, p)'
  OBVIOUS
<1>1. /\ doing'[q] = doing[q] /\ \A x \in Paths : lock'[x][q] = lock[x][q]
      /\ Past(q)' <=> Past(q)
  BY DEF Others, Past
<1>2. LocksAgree(q, p) /\ Apart(q, p) /\ Apart(p, q)
  BY DEF CreateInv, PairInv
<1>3. LocksAgree(p, q)' /\ LocksAgree(q, p)'
  BY <1>1, <1>2 DEF LocksAgree
<1>4. Apart(p, q)' /\ Apart(q, p)'
  <2>1. CASE doing'[p].op \in {"none", "open", "batch"}
    BY <1>1, <2>1 DEF Apart, Past
  <2>2. CASE /\ doing'[p].op = doing[p].op /\ doing'[p].path = doing[p].path
             /\ Past(p)' => Past(p)
    BY <1>1, <1>2, <2>2 DEF Apart
  <2> QED
    BY <2>1, <2>2
<1> QED
  BY <1>3, <1>4 DEF PairInv

---------------------------------------------------------------------------
(* Calls and disk after a step *)

LEMMA StepIs ==
  ASSUME CreateTypeOK, NEW p \in Procs,
         NEW s \in {"mkdir", "stat", "meta", "bolt", "mapping", "persist",
                    "store", "commit", "create", "write"},
         doing' = [doing EXCEPT ![p].step = s]
  PROVE  /\ doing' \in [Procs -> ACall]
         /\ doing'[p].step = s /\ doing'[p].op = doing[p].op /\ doing'[p].path = doing[p].path
         /\ doing'[p].m = doing[p].m /\ doing'[p].ro = doing[p].ro
         /\ doing'[p].after = doing[p].after
         /\ \A q \in Procs \ {p} : doing'[q] = doing[q]
<1>1. doing \in [Procs -> ACall]
  BY DEF CreateTypeOK
<1>2. \A c \in ACall : /\ [c EXCEPT !.step = s] \in ACall /\ [c EXCEPT !.step = s].step = s
                       /\ [c EXCEPT !.step = s].op = c.op /\ [c EXCEPT !.step = s].path = c.path
                       /\ [c EXCEPT !.step = s].m = c.m /\ [c EXCEPT !.step = s].ro = c.ro
                       /\ [c EXCEPT !.step = s].after = c.after
  BY DEF ACall
<1>3. doing' = [doing EXCEPT ![p] = [doing[p] EXCEPT !.step = s]]
  OBVIOUS
<1> HIDE DEF ACall
<1> QED
  BY <1>1, <1>2, <1>3

LEMMA AtRestTyped ==
  /\ AtRest \in ACall /\ AtRest.op = "none" /\ AtRest.step = "none"
  /\ AtRest.path = NoPath /\ AtRest.after = FALSE
  BY DEF AtRest, ACall

\* Where the disk was written, and what stays of it.
LEMMA FieldsOf ==
  ASSUME CreateTypeOK, NEW x \in Paths
  PROVE  /\ disk[x] \in OnDisk
         /\ disk[x].dir \in BOOLEAN /\ disk[x].store \in BOOLEAN /\ disk[x].known \in BOOLEAN
         /\ disk[x].meta \in {"none", "empty", "whole"}
         /\ disk[x].m \in Mappings \cup {NoMapping} /\ disk[x].docs \in BOOLEAN
         /\ disk[x].conf \in {"none", "plain", "ro"}
  BY DEF CreateTypeOK, OnDisk

\* The disk after a write at x.
LEMMA Wrote ==
  ASSUME CreateTypeOK, NEW x \in Paths, NEW d \in OnDisk, disk' = [disk EXCEPT ![x] = d]
  PROVE  /\ disk' \in [Paths -> OnDisk] /\ disk'[x] = d
         /\ \A y \in Paths \ {x} : disk'[y] = disk[y]
<1>1. disk \in [Paths -> OnDisk]
  BY DEF CreateTypeOK
<1> HIDE DEF OnDisk
<1> QED
  BY <1>1

LEMMA GrowsAt ==
  ASSUME CreateTypeOK, NEW p \in Procs, NEW d \in OnDisk, doing[p].path \in Paths,
         disk' = [disk EXCEPT ![doing[p].path] = d],
         disk[doing[p].path].dir = TRUE => d.dir = TRUE,
         disk[doing[p].path].store = TRUE => d.store = TRUE,
         disk[doing[p].path].m \in Mappings => d.m \in Mappings,
         \/ Making(p)
         \/ d.meta = disk[doing[p].path].meta /\ d.known = disk[doing[p].path].known
  PROVE  Grows(p)
<1>1. disk'[doing[p].path] = d /\ \A y \in Paths \ {doing[p].path} : disk'[y] = disk[y]
  BY Wrote
<1> QED
  BY <1>1 DEF Grows

\* The parts of the invariant that speak of one process.
LEMMA PartsOf ==
  ASSUME CreateAssumption, CreateInv, NEW p \in Procs
  PROVE  /\ DoingFits(p) /\ LocksFit(p) /\ DiskFits(p) /\ MadeFits(p) /\ CreateTypeOK
         /\ doing[p] \in ACall /\ handle[p] \in AnIndex /\ outcome[p] \in AnOutcome
         /\ handle[p] = Closed => handle[p].path \notin Paths
BY DEF CreateInv, ProcInv, CreateTypeOK, Closed, CreateAssumption

---------------------------------------------------------------------------
(* A call begins *)

LEMMA BegunKeeps ==
  ASSUME CreateAssumption, CreateInv, NEW p \in Procs, NEW c \in ACall, BeginCall(p, c),
         c.path \in Paths,
         \/ /\ c.op = "new" /\ c.step = "mkdir" /\ c.m \in Mappings /\ c.ro = FALSE
            /\ handle[p] = Closed /\ ~Copying(c.path)
         \/ /\ c.op = "open" /\ c.step = "stat" /\ handle[p] = Closed
            /\ c.after = TRUE => c.path \in made
         \/ c.op = "batch" /\ c.step = "persist" /\ handle[p] # Closed
         \/ /\ c.op = "copy" /\ c.step = "store" /\ handle[p] # Closed
            /\ disk[c.path].dir # TRUE /\ ~Copying(c.path) /\ ~Creating(c.path)
  PROVE  CreateInv'
<1>1. /\ DoingFits(p) /\ LocksFit(p) /\ DiskFits(p) /\ MadeFits(p) /\ CreateTypeOK
      /\ handle[p] = Closed => handle[p].path \notin Paths
  BY PartsOf
<1>2. /\ disk' = disk /\ lock' = lock /\ handle' = handle /\ outcome' = outcome
      /\ made' = made /\ doing[p] = AtRest /\ doing' = [doing EXCEPT ![p] = c]
      /\ begun' = [begun EXCEPT ![p] = @ + 1]
  BY DEF BeginCall
<1>3. doing' \in [Procs -> ACall] /\ doing'[p] = c /\ \A q \in Procs \ {p} : doing'[q] = doing[q]
  <2> HIDE DEF ACall
  <2> QED
    BY <1>1, <1>2 DEF CreateTypeOK
<1>4. CreateTypeOK'
  <2>1. begun' \in [Procs -> Nat]
    BY <1>1, <1>2 DEF CreateTypeOK
  <2> QED
    BY <1>1, <1>2, <1>3, <2>1 DEF CreateTypeOK
<1>5. Others(p) /\ Grows(p) /\ Makes(p)
  BY <1>2, <1>3 DEF Others, Grows, Makes
<1>6. /\ doing[p].step = "none" /\ doing[p].op = "none"
      /\ c.step \notin {"mapping", "commit"}
  <2>1. doing[p].step = "none" /\ doing[p].op = "none"
    BY <1>2, AtRestTyped
  <2>2. c.step \in {"mkdir", "stat", "persist", "store"}
    OBVIOUS
  <2> QED
    BY <2>1, <2>2
<1>7. DoingFits(p)'
  BY <1>1, <1>2, <1>3 DEF DoingFits, DiskFits
<1>8. LocksFit(p)'
  BY <1>1, <1>2, <1>3, <1>6 DEF LocksFit, Mode
<1>9. DiskFits(p)'
  BY <1>1, <1>2, <1>3 DEF DiskFits
<1>10. MadeFits(p)'
  <2>1. c.path \in made => disk[c.path].dir = TRUE
    BY DEF CreateInv, Whole
  <2> QED
    BY <1>1, <1>2, <1>3, <2>1 DEF MadeFits, Past
<1>11. \A q \in Procs \ {p} : PairInv(p, q)' /\ PairInv(q, p)'
  <2> SUFFICES ASSUME NEW q \in Procs \ {p} PROVE PairInv(p, q)' /\ PairInv(q, p)'
    OBVIOUS
  <2>1. LocksAgree(p, q)' /\ LocksAgree(q, p)'
    BY <1>2 DEF CreateInv, PairInv, LocksAgree
  <2>2. doing'[q] = doing[q] /\ doing'[p] = c
    BY <1>3
  <2>3. c.path = doing[q].path =>
          /\ c.op = "copy" => doing[q].op \notin {"new", "copy"}
          /\ doing[q].op = "copy" => c.op \notin {"new", "copy"}
          /\ c.step \notin {"write", "bolt", "mapping"}
    BY DEF Copying, Creating
  <2>4. Apart(p, q)' /\ Apart(q, p)'
    BY <2>2, <2>3 DEF Apart, Past
  <2> QED
    BY <2>1, <2>4 DEF PairInv
<1> QED
  BY <1>4, <1>5, <1>7, <1>8, <1>9, <1>10, <1>11, StepKeeps

LEMMA BeginNewKeeps ==
  ASSUME CreateAssumption, CreateInv, NEW p \in Procs, BeginNew(p)
  PROVE  CreateInv'
<1> PICK x \in Paths, m \in Mappings, conf \in {"none", "plain"}, known \in Known :
       /\ ~Copying(x)
       /\ BeginCall(p, [AtRest EXCEPT !.op = "new", !.step = "mkdir", !.path = x, !.m = m,
                                !.conf = conf, !.known = known])
  BY DEF BeginNew
<1> DEFINE c == [AtRest EXCEPT !.op = "new", !.step = "mkdir", !.path = x, !.m = m,
                             !.conf = conf, !.known = known]
<1>1. c \in ACall /\ c.op = "new" /\ c.step = "mkdir" /\ c.m \in Mappings /\ c.ro = FALSE
      /\ c.path = x
  BY DEF AtRest, ACall, CreateAssumption
<1> QED
  <2> HIDE DEF c
  <2> QED
    BY <1>1, BegunKeeps DEF BeginNew, c

LEMMA BeginOpenKeeps ==
  ASSUME CreateAssumption, CreateInv, NEW p \in Procs, BeginOpen(p)
  PROVE  CreateInv'
<1> PICK x \in Paths, asked \in Runtime :
       BeginCall(p, [AtRest EXCEPT !.op = "open", !.step = "stat", !.path = x, !.asked = asked,
                             !.after = x \in made])
  BY DEF BeginOpen
<1> DEFINE c == [AtRest EXCEPT !.op = "open", !.step = "stat", !.path = x, !.asked = asked,
                             !.after = x \in made]
<1>1. c \in ACall /\ c.op = "open" /\ c.step = "stat" /\ c.path = x
      /\ (c.after = TRUE => x \in made)
  <2>1. ASSUME NEW b \in BOOLEAN
        PROVE  LET d == [AtRest EXCEPT !.op = "open", !.step = "stat", !.path = x,
                                     !.asked = asked, !.after = b]
               IN  d \in ACall /\ d.op = "open" /\ d.step = "stat" /\ d.path = x /\ d.after = b
    BY DEF AtRest, ACall, CreateAssumption
  <2>2. (x \in made) \in BOOLEAN
    OBVIOUS
  <2> QED
    BY <2>1, <2>2
<1> QED
  <2>1. BeginCall(p, c) /\ handle[p] = Closed
    BY DEF BeginOpen
  <2> HIDE DEF c
  <2> QED
    BY <1>1, <2>1, BegunKeeps

LEMMA BeginBatchKeeps ==
  ASSUME CreateAssumption, CreateInv, NEW p \in Procs, BeginBatch(p)
  PROVE  CreateInv'
<1> DEFINE c == [AtRest EXCEPT !.op = "batch", !.step = "persist", !.path = handle[p].path]
<1>1. handle[p] # Closed /\ handle[p].path \in Paths
  BY PartsOf DEF BeginBatch, DoingFits
<1>2. c \in ACall /\ c.op = "batch" /\ c.step = "persist" /\ c.path = handle[p].path
  BY <1>1 DEF AtRest, ACall
<1>3. BeginCall(p, c)
  BY DEF BeginBatch
<1> HIDE DEF c
<1> QED
  BY <1>1, <1>2, <1>3, BegunKeeps

LEMMA BeginCopyKeeps ==
  ASSUME CreateAssumption, CreateInv, NEW p \in Procs, BeginCopy(p)
  PROVE  CreateInv'
<1> PICK x \in Paths :
       /\ ~disk[x].dir /\ ~Copying(x) /\ ~Creating(x)
       /\ BeginCall(p, [AtRest EXCEPT !.op = "copy", !.step = "store", !.path = x])
  BY DEF BeginCopy
<1> DEFINE c == [AtRest EXCEPT !.op = "copy", !.step = "store", !.path = x]
<1>1. c \in ACall /\ c.op = "copy" /\ c.step = "store" /\ c.path = x
  BY DEF AtRest, ACall
<1>2. BeginCall(p, c) /\ handle[p] # Closed
  BY DEF BeginCopy
<1>3. disk[c.path].dir # TRUE /\ ~Copying(c.path) /\ ~Creating(c.path)
  BY <1>1
<1> HIDE DEF c
<1> QED
  BY <1>1, <1>2, <1>3, BegunKeeps

---------------------------------------------------------------------------
(* A call ends with an error *)

Errors == {"failed", "exists", "unknown type", "does not exist",
           "meta missing", "meta corrupt", "no mapping"}

LEMMA FailedKeeps ==
  ASSUME CreateAssumption, CreateInv, NEW p \in Procs, NEW res \in Errors,
         doing[p].op \in {"new", "open"},
         disk' \in [Paths -> OnDisk], Grows(p),
         Fails(p, res) \/ (FailsOpen(p, res) /\ doing[p].step \notin {"mapping", "commit"}),
         doing[p].op = "open" /\ doing[p].after = TRUE => res = "failed"
  PROVE  CreateInv'
<1>1. /\ DoingFits(p) /\ LocksFit(p) /\ DiskFits(p) /\ MadeFits(p) /\ CreateTypeOK
      /\ handle[p] = Closed /\ handle[p].path \notin Paths /\ doing[p].path \in Paths
      /\ doing[p] \in ACall
  <2>1. /\ DoingFits(p) /\ LocksFit(p) /\ DiskFits(p) /\ MadeFits(p) /\ CreateTypeOK
        /\ handle[p] = Closed => handle[p].path \notin Paths
        /\ doing[p] \in ACall
    BY PartsOf
  <2> QED
    BY <2>1 DEF DoingFits
<1>2. /\ doing' = [doing EXCEPT ![p] = AtRest] /\ handle' = handle /\ made' = made /\ begun' = begun
      /\ outcome' = [outcome EXCEPT ![p] =
           [op |-> doing[p].op, path |-> doing[p].path, res |-> res, after |-> doing[p].after,
            used |-> FALSE]]
  BY DEF Fails, FailsOpen
<1>3. doing' \in [Procs -> ACall] /\ doing'[p] = AtRest /\ \A q \in Procs \ {p} : doing'[q] = doing[q]
  <2> HIDE DEF ACall, AtRest
  <2> QED
    BY <1>1, <1>2, AtRestTyped DEF CreateTypeOK
<1>4. /\ outcome' \in [Procs -> AnOutcome] /\ \A q \in Procs \ {p} : outcome'[q] = outcome[q]
      /\ outcome'[p].op = doing[p].op /\ outcome'[p].res = res /\ outcome'[p].after = doing[p].after
  <2> DEFINE o == [op |-> doing[p].op, path |-> doing[p].path, res |-> res, after |-> doing[p].after,
                   used |-> FALSE]
  <2>1. o \in AnOutcome /\ o.op = doing[p].op /\ o.res = res /\ o.after = doing[p].after
    BY <1>1 DEF AnOutcome, ACall, Errors
  <2>2. outcome' = [outcome EXCEPT ![p] = o]
    BY <1>2
  <2>3. outcome \in [Procs -> AnOutcome]
    BY <1>1 DEF CreateTypeOK
  <2> HIDE DEF o, AnOutcome
  <2> QED
    BY <2>1, <2>2, <2>3
<1>5. /\ lock' \in [Paths -> [Procs -> {"no", "shared", "exclusive"}]]
      /\ \A x \in Paths : lock'[x][p] = "no" /\ \A q \in Procs \ {p} : lock'[x][q] = lock[x][q]
  <2>1. lock \in [Paths -> [Procs -> {"no", "shared", "exclusive"}]]
    BY <1>1 DEF CreateTypeOK
  <2>2. \A x \in Paths : lock[x][p] # "no" =>
          doing[p].path = x /\ doing[p].step \in {"mapping", "commit"}
    BY <1>1 DEF LocksFit
  <2>3. CASE Fails(p, res)
    <3>1. lock' = [lock EXCEPT ![doing[p].path][p] = "no"]
      BY <2>3 DEF Fails, Released
    <3> QED
      BY <1>1, <2>1, <2>2, <3>1
  <2>4. CASE FailsOpen(p, res) /\ doing[p].step \notin {"mapping", "commit"}
    BY <2>1, <2>2, <2>4 DEF FailsOpen
  <2> QED
    BY <2>3, <2>4
<1>6. CreateTypeOK'
  BY <1>1, <1>2, <1>3, <1>4, <1>5 DEF CreateTypeOK
<1>7. Others(p) /\ Makes(p)
  BY <1>2, <1>3, <1>4, <1>5 DEF Others, Makes
<1>8. DoingFits(p)'
  BY <1>1, <1>2, <1>3, AtRestTyped DEF DoingFits
<1>9. LocksFit(p)'
  BY <1>1, <1>2, <1>3, <1>5, AtRestTyped DEF LocksFit
<1>10. DiskFits(p)'
  BY <1>1, <1>2, <1>3, AtRestTyped DEF DiskFits
<1>11. MadeFits(p)'
  BY <1>3, <1>4, AtRestTyped DEF MadeFits, Past
<1>12. \A q \in Procs \ {p} : PairInv(p, q)' /\ PairInv(q, p)'
  BY <1>3, <1>5, <1>7, AtRestTyped, PairsKept
<1> QED
  BY <1>6, <1>7, <1>8, <1>9, <1>10, <1>11, <1>12, StepKeeps

---------------------------------------------------------------------------
(* A call goes on *)

\* It is about the same path, and it does not touch a lock.
GoesOn(p) ==
  /\ doing' \in [Procs -> ACall] /\ \A q \in Procs \ {p} : doing'[q] = doing[q]
  /\ doing'[p].op = doing[p].op /\ doing'[p].path = doing[p].path
  /\ doing'[p].m = doing[p].m /\ doing'[p].after = doing[p].after
  /\ doing[p].op = "new" => doing'[p].ro = doing[p].ro
  /\ doing'[p].step \notin {"none", "mapping", "commit"}
  /\ doing[p].step \notin {"none", "mapping", "commit"}
  /\ UNCHANGED <<lock, handle, outcome, made, begun>>

LEMMA GoesOnKeeps ==
  ASSUME CreateAssumption, CreateInv, NEW p \in Procs, GoesOn(p),
         disk' \in [Paths -> OnDisk], Grows(p),
         doing'[p].op = "new" => doing'[p].step \in {"mkdir", "create", "write", "bolt"},
         doing'[p].op = "open" => doing'[p].step \in {"stat", "meta", "bolt"},
         doing'[p].op = "batch" => doing'[p].step = "persist",
         doing'[p].op = "copy" => doing'[p].step \in {"store", "create", "write"},
         Past(p)' /\ ~Past(p) =>
           /\ doing[p].path \notin made
           /\ \A q \in Procs \ {p} : doing[q].path = doing[p].path => ~Past(q),
         DiskFits(p)'
  PROVE  CreateInv'
<1>1. /\ DoingFits(p) /\ LocksFit(p) /\ DiskFits(p) /\ MadeFits(p) /\ CreateTypeOK
      /\ doing[p] \in ACall
  BY PartsOf
<1>2. /\ lock' = lock /\ handle' = handle /\ outcome' = outcome /\ made' = made /\ begun' = begun
      /\ doing' \in [Procs -> ACall] /\ \A q \in Procs \ {p} : doing'[q] = doing[q]
      /\ doing'[p].op = doing[p].op /\ doing'[p].path = doing[p].path
      /\ doing'[p].m = doing[p].m /\ doing'[p].after = doing[p].after
      /\ doing[p].op = "new" => doing'[p].ro = doing[p].ro
      /\ doing'[p].step \notin {"none", "mapping", "commit"}
      /\ doing[p].step \notin {"none", "mapping", "commit"}
  BY DEF GoesOn
<1>3. CreateTypeOK'
  BY <1>1, <1>2 DEF CreateTypeOK
<1>4. Others(p) /\ Makes(p)
  BY <1>2 DEF Others, Makes
<1>5. doing[p].op # "none"
  BY <1>1, <1>2, AtRestTyped DEF DoingFits
<1>6. DoingFits(p)'
  BY <1>1, <1>2, <1>5 DEF DoingFits
<1>7. LocksFit(p)'
  BY <1>1, <1>2 DEF LocksFit
<1>8. MadeFits(p)'
  BY <1>1, <1>2 DEF MadeFits
<1>9. \A q \in Procs \ {p} : PairInv(p, q)' /\ PairInv(q, p)'
  <2>1. CASE Past(p)' => Past(p)
    BY <1>2, <1>4, <2>1, PairsKept
  <2>2. CASE Past(p)' /\ ~Past(p)
    <3> SUFFICES ASSUME NEW q \in Procs \ {p} PROVE PairInv(p, q)' /\ PairInv(q, p)'
      OBVIOUS
    <3>1. doing'[q] = doing[q] /\ (Past(q)' <=> Past(q))
      BY <1>2 DEF Past
    <3>2. LocksAgree(p, q) /\ LocksAgree(q, p) /\ Apart(p, q) /\ Apart(q, p)
      BY DEF CreateInv, PairInv
    <3>3. LocksAgree(p, q)' /\ LocksAgree(q, p)'
      BY <1>2, <3>2 DEF LocksAgree
    <3>4. Apart(p, q)' /\ Apart(q, p)'
      BY <1>2, <2>2, <3>1, <3>2 DEF Apart
    <3> QED
      BY <3>3, <3>4 DEF PairInv
  <2> QED
    BY <2>1, <2>2
<1> QED
  BY <1>3, <1>4, <1>6, <1>7, <1>8, <1>9, StepKeeps

LEMMA SaveMkdirKeeps ==
  ASSUME CreateAssumption, CreateInv, NEW p \in Procs, SaveMkdir(p)
  PROVE  CreateInv'
<1> DEFINE x == doing[p].path
           d == [disk[x] EXCEPT !.dir = TRUE]
<1>1. DoingFits(p) /\ DiskFits(p) /\ CreateTypeOK /\ doing[p].op = "new" /\ doing[p].step = "mkdir"
  BY PartsOf DEF SaveMkdir, InStep
<1>2. x \in Paths
  BY <1>1 DEF DoingFits
<1>3. /\ d \in OnDisk /\ d.dir = TRUE /\ d.store = disk[x].store /\ d.m = disk[x].m
      /\ d.meta = disk[x].meta /\ d.known = disk[x].known
  BY <1>1, <1>2, FieldsOf DEF OnDisk
<1>4. disk' = [disk EXCEPT ![x] = d]
  BY DEF SaveMkdir
<1> HIDE DEF d
<1>5. disk' \in [Paths -> OnDisk] /\ disk'[x] = d /\ Grows(p)
  BY <1>1, <1>2, <1>3, <1>4, Wrote, GrowsAt
<1>6. GoesOn(p) /\ doing'[p].step = "create"
  BY <1>1, StepIs DEF SaveMkdir, ToStep, GoesOn
<1>7. DiskFits(p)'
  BY <1>1, <1>2, <1>3, <1>5, <1>6 DEF DiskFits, GoesOn, Grows
<1> QED
  BY <1>1, <1>5, <1>6, <1>7, GoesOnKeeps DEF GoesOn, Past

\* O_EXCL: there is no metadata yet, so nobody else is past it and nothing
\* was made at this path.
LEMMA SaveCreateKeeps ==
  ASSUME CreateAssumption, CreateInv, NEW p \in Procs, SaveCreate(p)
  PROVE  CreateInv'
<1> DEFINE x == doing[p].path
           d == [disk[x] EXCEPT !.meta = "empty"]
<1>1. DoingFits(p) /\ DiskFits(p) /\ CreateTypeOK /\ doing[p].op = "new" /\ doing[p].step = "create"
  BY PartsOf DEF SaveCreate, InStep
<1>2. x \in Paths
  BY <1>1 DEF DoingFits
<1>3. CASE Here(p).meta # "none"
  <2>1. FailsOpen(p, "exists") /\ disk' = disk
    BY <1>3 DEF SaveCreate
  <2>2. disk' \in [Paths -> OnDisk] /\ Grows(p)
    BY <1>1, <2>1 DEF CreateTypeOK, Grows
  <2> QED
    BY <1>1, <2>1, <2>2, FailedKeeps DEF Errors
<1>4. CASE disk[x].meta = "none"
  <2>1. disk' = [disk EXCEPT ![x] = d] /\ ToStep(p, "write")
        /\ UNCHANGED <<lock, handle, outcome, made, begun>>
    BY <1>4 DEF SaveCreate, Here
  <2>2. /\ d \in OnDisk /\ d.dir = disk[x].dir /\ d.store = disk[x].store /\ d.m = disk[x].m
        /\ d.meta = "empty"
    BY <1>1, <1>2, FieldsOf DEF OnDisk
  <2>3. Making(p)
    BY <1>1, <1>4 DEF Making
  <2> HIDE DEF d
  <2>4. disk' \in [Paths -> OnDisk] /\ disk'[x] = d /\ Grows(p)
    BY <1>1, <1>2, <2>1, <2>2, <2>3, Wrote, GrowsAt
  <2>5. GoesOn(p) /\ doing'[p].step = "write"
    BY <1>1, <2>1, StepIs DEF ToStep, GoesOn
  <2>6. DiskFits(p)'
    BY <1>1, <1>2, <2>2, <2>4, <2>5 DEF DiskFits, GoesOn, Grows
  <2>7. x \notin made
    BY <1>4 DEF CreateInv, Whole
  <2>8. \A q \in Procs \ {p} : doing[q].path = x => ~Past(q)
    <3> SUFFICES ASSUME NEW q \in Procs \ {p}, doing[q].path = x, Past(q) PROVE FALSE
      OBVIOUS
    <3>1. DiskFits(q)
      BY DEF CreateInv, ProcInv
    <3> QED
      BY <1>4, <3>1 DEF DiskFits, Past
  <2> QED
    BY <1>1, <2>4, <2>5, <2>6, <2>7, <2>8, GoesOnKeeps DEF GoesOn
<1> QED
  BY <1>3, <1>4 DEF Here

LEMMA SaveWriteKeeps ==
  ASSUME CreateAssumption, CreateInv, NEW p \in Procs, SaveWrite(p)
  PROVE  CreateInv'
<1> DEFINE x == doing[p].path
           d == [disk[x] EXCEPT !.meta = "whole", !.conf = doing[p].conf, !.known = doing[p].known]
<1>1. /\ DoingFits(p) /\ DiskFits(p) /\ CreateTypeOK /\ doing[p].op = "new" /\ doing[p].step = "write"
      /\ doing[p] \in ACall
  BY PartsOf DEF SaveWrite, InStep
<1>2. x \in Paths /\ doing[p].known \in BOOLEAN /\ doing[p].conf \in {"none", "plain", "ro"}
  BY <1>1 DEF DoingFits, ACall
<1>3. disk' = [disk EXCEPT ![x] = d]
  BY <1>1, <1>2 DEF SaveWrite, CreateTypeOK
<1>4. /\ d \in OnDisk /\ d.dir = disk[x].dir /\ d.store = disk[x].store /\ d.m = disk[x].m
      /\ d.meta = "whole" /\ d.known = doing[p].known
  BY <1>1, <1>2, FieldsOf DEF OnDisk
<1>5. Making(p)
  BY <1>1 DEF Making
<1> HIDE DEF d
<1>6. disk' \in [Paths -> OnDisk] /\ disk'[x] = d /\ Grows(p)
  BY <1>1, <1>2, <1>3, <1>4, <1>5, Wrote, GrowsAt
<1>7. CASE doing[p].known = TRUE
  <2>1. ToStep(p, "bolt") /\ UNCHANGED <<lock, handle, outcome, made, begun>>
    BY <1>7 DEF SaveWrite
  <2>2. GoesOn(p) /\ doing'[p].step = "bolt"
    BY <1>1, <2>1, StepIs DEF ToStep, GoesOn
  <2>3. DiskFits(p)'
    BY <1>1, <1>2, <1>4, <1>6, <1>7, <2>2 DEF DiskFits, GoesOn, Grows
  <2> QED
    BY <1>1, <1>6, <2>2, <2>3, GoesOnKeeps DEF GoesOn, Past
<1>8. CASE doing[p].known = FALSE
  <2>1. FailsOpen(p, "unknown type")
    BY <1>8 DEF SaveWrite
  <2> QED
    BY <1>1, <1>6, <2>1, FailedKeeps DEF Errors
<1> QED
  BY <1>2, <1>7, <1>8

LEMMA StatKeeps ==
  ASSUME CreateAssumption, CreateInv, NEW p \in Procs, Stat(p)
  PROVE  CreateInv'
<1>1. /\ DoingFits(p) /\ DiskFits(p) /\ MadeFits(p) /\ CreateTypeOK
      /\ doing[p].op = "open" /\ doing[p].step = "stat" /\ disk' = disk
  BY PartsOf DEF Stat, InStep
<1>2. doing[p].path \in Paths /\ disk[doing[p].path].dir \in BOOLEAN
  BY <1>1, FieldsOf DEF DoingFits
<1>3. disk' \in [Paths -> OnDisk] /\ Grows(p)
  BY <1>1 DEF CreateTypeOK, Grows
<1>4. CASE disk[doing[p].path].dir = TRUE
  <2>1. ToStep(p, "meta") /\ UNCHANGED <<lock, handle, outcome, made, begun>>
    BY <1>4 DEF Stat, Here
  <2>2. GoesOn(p) /\ doing'[p].step = "meta"
    BY <1>1, <2>1, StepIs DEF ToStep, GoesOn
  <2>3. DiskFits(p)'
    BY <1>1, <1>4, <2>2 DEF DiskFits, GoesOn
  <2> QED
    BY <1>1, <1>3, <2>2, <2>3, GoesOnKeeps DEF GoesOn, Past
<1>5. CASE disk[doing[p].path].dir = FALSE
  <2>1. FailsOpen(p, "does not exist")
    BY <1>5 DEF Stat, Here
  <2>2. doing[p].after # TRUE
    BY <1>1, <1>5 DEF MadeFits, CreateInv, Whole
  <2> QED
    BY <1>1, <1>3, <2>1, <2>2, FailedKeeps DEF Errors
<1> QED
  BY <1>2, <1>4, <1>5

LEMMA ReadMetaKeeps ==
  ASSUME CreateAssumption, CreateInv, NEW p \in Procs, ReadMeta(p)
  PROVE  CreateInv'
<1>1. /\ DoingFits(p) /\ DiskFits(p) /\ MadeFits(p) /\ CreateTypeOK
      /\ doing[p].op = "open" /\ doing[p].step = "meta" /\ disk' = disk
      /\ doing[p] \in ACall
  BY PartsOf DEF ReadMeta, InStep
<1>2. /\ doing[p].path \in Paths /\ disk[doing[p].path].meta \in {"none", "empty", "whole"}
      /\ disk[doing[p].path].conf \in {"none", "plain", "ro"}
      /\ disk[doing[p].path].known \in BOOLEAN
  BY <1>1, FieldsOf DEF DoingFits
<1>3. disk' \in [Paths -> OnDisk] /\ Grows(p)
  BY <1>1 DEF CreateTypeOK, Grows
<1>4. CASE disk[doing[p].path].meta # "whole" \/ disk[doing[p].path].known # TRUE
  <2>1. \/ FailsOpen(p, "meta missing") \/ FailsOpen(p, "meta corrupt")
        \/ FailsOpen(p, "unknown type")
    BY <1>2, <1>4 DEF ReadMeta, Here
  <2>2. doing[p].after # TRUE
    BY <1>1, <1>4 DEF MadeFits, CreateInv, Whole
  <2> QED
    BY <1>1, <1>3, <2>1, <2>2, FailedKeeps DEF Errors
<1>5. CASE disk[doing[p].path].meta = "whole" /\ disk[doing[p].path].known = TRUE
  <2> DEFINE conf == Merged(disk[doing[p].path].conf, doing[p].asked)
             ro == ReadOnly(disk[doing[p].path].conf, doing[p].asked)
             c == [doing[p] EXCEPT !.step = "bolt", !.conf = conf, !.ro = ro]
  <2>1. /\ doing' = [doing EXCEPT ![p].step = "bolt", ![p].conf = conf, ![p].ro = ro]
        /\ UNCHANGED <<lock, handle, outcome, made, begun>>
    BY <1>2, <1>5 DEF ReadMeta, Here
  <2>2. conf \in {"none", "plain", "ro"} /\ ro \in BOOLEAN
    BY <1>1, <1>2 DEF Merged, ReadOnly, ACall
  <2> HIDE DEF conf, ro
  <2>3. /\ c \in ACall /\ c.op = doing[p].op /\ c.path = doing[p].path /\ c.m = doing[p].m
        /\ c.after = doing[p].after /\ c.step = "bolt"
    BY <1>1, <2>2 DEF ACall
  <2>4. doing' = [doing EXCEPT ![p] = c] /\ doing \in [Procs -> ACall]
    BY <1>1, <2>1 DEF CreateTypeOK
  <2> HIDE DEF c, ACall
  <2>5. doing' \in [Procs -> ACall] /\ doing'[p] = c /\ \A q \in Procs \ {p} : doing'[q] = doing[q]
    BY <2>3, <2>4
  <2>6. GoesOn(p) /\ doing'[p].step = "bolt"
    BY <1>1, <2>1, <2>3, <2>5 DEF GoesOn
  <2>7. DiskFits(p)'
    BY <1>1, <2>6 DEF DiskFits, GoesOn
  <2> QED
    BY <1>1, <1>3, <2>6, <2>7, GoesOnKeeps DEF GoesOn, Past
<1> QED
  BY <1>4, <1>5

LEMMA CopyCreateKeeps ==
  ASSUME CreateAssumption, CreateInv, NEW p \in Procs, CopyCreate(p)
  PROVE  CreateInv'
<1> DEFINE x == doing[p].path
           d == [disk[x] EXCEPT !.meta = "empty"]
<1>1. DoingFits(p) /\ DiskFits(p) /\ CreateTypeOK /\ doing[p].op = "copy" /\ doing[p].step = "create"
  BY PartsOf DEF CopyCreate, InStep
<1>2. x \in Paths
  BY <1>1 DEF DoingFits
<1>3. /\ d \in OnDisk /\ d.dir = disk[x].dir /\ d.store = disk[x].store /\ d.m = disk[x].m
  BY <1>1, <1>2, FieldsOf DEF OnDisk
<1>4. disk' = [disk EXCEPT ![x] = d] /\ Making(p)
  BY <1>1 DEF CopyCreate, Making
<1> HIDE DEF d
<1>5. disk' \in [Paths -> OnDisk] /\ disk'[x] = d /\ Grows(p)
  BY <1>1, <1>2, <1>3, <1>4, Wrote, GrowsAt
<1>6. GoesOn(p) /\ doing'[p].step = "write"
  BY <1>1, StepIs DEF CopyCreate, ToStep, GoesOn
<1>7. DiskFits(p)'
  BY <1>1, <1>2, <1>3, <1>5, <1>6 DEF DiskFits, GoesOn, Grows
<1> QED
  BY <1>1, <1>5, <1>6, <1>7, GoesOnKeeps DEF GoesOn, Past

---------------------------------------------------------------------------
(* A call takes the lock *)

Modes == {"no", "shared", "exclusive"}

LEMMA LockedAt ==
  ASSUME CreateTypeOK, NEW p \in Procs, NEW x \in Paths, NEW mode \in Modes,
         lock' = [lock EXCEPT ![x][p] = mode]
  PROVE  /\ lock' \in [Paths -> [Procs -> Modes]] /\ lock'[x][p] = mode
         /\ \A y \in Paths \ {x} : lock'[y][p] = lock[y][p]
         /\ \A y \in Paths : \A q \in Procs \ {p} : lock'[y][q] = lock[y][q]
<1>1. lock \in [Paths -> [Procs -> Modes]]
  BY DEF CreateTypeOK, Modes
<1> HIDE DEF Modes
<1> QED
  BY <1>1

LEMMA LockTaken ==
  ASSUME CreateTypeOK, NEW p \in Procs, doing[p].path \in Paths, NEW mode \in {"shared", "exclusive"},
         lock' = Locked(doing[p].path, p, mode)
  PROVE  /\ lock' \in [Paths -> [Procs -> Modes]] /\ lock'[doing[p].path][p] = mode
         /\ \A y \in Paths \ {doing[p].path} : lock'[y][p] = lock[y][p]
         /\ \A y \in Paths : \A q \in Procs \ {p} : lock'[y][q] = lock[y][q]
<1> DEFINE x == doing[p].path
<1>1. x \in Paths /\ lock' = [lock EXCEPT ![x][p] = mode] /\ mode \in Modes
  BY DEF Locked, Modes
<1>2. lock \in [Paths -> [Procs -> Modes]]
  BY DEF CreateTypeOK, Modes
<1> HIDE DEF x, Modes
<1>3. /\ lock' \in [Paths -> [Procs -> Modes]] /\ lock'[x][p] = mode
      /\ \A y \in Paths \ {x} : lock'[y][p] = lock[y][p]
      /\ \A y \in Paths : \A q \in Procs \ {p} : lock'[y][q] = lock[y][q]
  BY <1>1, <1>2
<1> QED
  BY <1>3 DEF x

LEMMA LocksKeeps ==
  ASSUME CreateAssumption, CreateInv, NEW p \in Procs, NEW mode \in {"shared", "exclusive"},
         NEW s \in {"mapping", "commit"},
         doing[p].path \in Paths, Free(doing[p].path, p, mode),
         lock' = Locked(doing[p].path, p, mode), ToStep(p, s),
         UNCHANGED <<handle, outcome, made, begun>>,
         disk' \in [Paths -> OnDisk], Grows(p), DiskFits(p)',
         \/ s = "mapping" /\ mode = Mode(doing[p].ro) /\ doing[p].step = "bolt"
            /\ doing[p].op \in {"new", "open"}
         \/ s = "commit" /\ mode = "exclusive" /\ doing[p].step = "store" /\ doing[p].op = "copy"
  PROVE  CreateInv'
<1>1. /\ DoingFits(p) /\ LocksFit(p) /\ DiskFits(p) /\ MadeFits(p) /\ CreateTypeOK
      /\ doing[p] \in ACall
      /\ handle[p] = Closed => handle[p].path \notin Paths
  BY PartsOf
<1>2. /\ doing' \in [Procs -> ACall] /\ \A q \in Procs \ {p} : doing'[q] = doing[q]
      /\ doing'[p].step = s
      /\ doing'[p].op = doing[p].op /\ doing'[p].path = doing[p].path
      /\ doing'[p].m = doing[p].m /\ doing'[p].after = doing[p].after /\ doing'[p].ro = doing[p].ro
  BY <1>1, StepIs DEF ToStep
<1>3. /\ lock' \in [Paths -> [Procs -> Modes]] /\ lock'[doing[p].path][p] = mode
      /\ \A y \in Paths \ {doing[p].path} : lock'[y][p] = lock[y][p]
      /\ \A y \in Paths : \A q \in Procs \ {p} : lock'[y][q] = lock[y][q]
  BY <1>1, LockTaken
<1>4. CreateTypeOK'
  BY <1>1, <1>2, <1>3 DEF CreateTypeOK, Modes
<1>5. Others(p) /\ Makes(p)
  BY <1>2, <1>3 DEF Others, Makes
<1>6. DoingFits(p)'
  BY <1>1, <1>2 DEF DoingFits
<1>7. handle[p].path # doing[p].path
  BY <1>1 DEF DoingFits
<1>8. LocksFit(p)'
  BY <1>1, <1>2, <1>3, <1>7 DEF LocksFit
<1>9. Past(p)' <=> Past(p)
  BY <1>2 DEF Past
<1>10. MadeFits(p)'
  BY <1>1, <1>2, <1>9 DEF MadeFits
<1>11. \A q \in Procs \ {p} : PairInv(p, q)' /\ PairInv(q, p)'
  <2> SUFFICES ASSUME NEW q \in Procs \ {p} PROVE PairInv(p, q)' /\ PairInv(q, p)'
    OBVIOUS
  <2>1. LocksAgree(p, q) /\ LocksAgree(q, p) /\ Apart(p, q) /\ Apart(q, p)
    BY DEF CreateInv, PairInv
  <2>2. /\ \A y \in Paths : lock'[y][q] = lock[y][q]
        /\ doing'[q] = doing[q] /\ (Past(q)' <=> Past(q))
    BY <1>2, <1>3 DEF Past
  <2>3. lock[doing[p].path][q] = "no" \/ (mode = "shared" /\ lock[doing[p].path][q] = "shared")
    BY DEF Free
  <2>4. ASSUME NEW y \in Paths, lock'[y][p] # "no", lock'[y][q] # "no"
        PROVE  lock'[y][p] = "shared" /\ lock'[y][q] = "shared"
    <3>1. CASE y = doing[p].path
      BY <1>3, <2>2, <2>3, <2>4, <3>1
    <3>2. CASE y # doing[p].path
      <4>1. lock'[y][p] = lock[y][p]
        BY <1>3, <3>2
      <4> QED
        BY <2>1, <2>2, <2>4, <4>1 DEF LocksAgree
    <3> QED
      BY <3>1, <3>2
  <2>5. LocksAgree(p, q)' /\ LocksAgree(q, p)'
    BY <2>4 DEF LocksAgree
  <2>6. Apart(p, q)' /\ Apart(q, p)'
    BY <1>2, <1>9, <2>1, <2>2 DEF Apart
  <2> QED
    BY <2>5, <2>6 DEF PairInv
<1> QED
  BY <1>4, <1>5, <1>6, <1>8, <1>10, <1>11, StepKeeps

LEMMA OpenBoltKeeps ==
  ASSUME CreateAssumption, CreateInv, NEW p \in Procs, OpenBolt(p)
  PROVE  CreateInv'
<1> DEFINE x == doing[p].path
           d == [disk[x] EXCEPT !.store = TRUE]
<1>1. /\ DoingFits(p) /\ DiskFits(p) /\ CreateTypeOK /\ doing[p] \in ACall
      /\ doing[p].step = "bolt"
  BY PartsOf DEF OpenBolt
<1>2. doing[p].op \in {"new", "open"} /\ x \in Paths
  BY <1>1, AtRestTyped DEF DoingFits, ACall
<1>3. CASE Fails(p, "failed") /\ disk' = disk
  <2>1. disk' \in [Paths -> OnDisk] /\ Grows(p)
    BY <1>1, <1>3 DEF CreateTypeOK, Grows
  <2> QED
    BY <1>2, <1>3, <2>1, FailedKeeps DEF Errors
<1>4. CASE /\ lock' = Locked(x, p, Mode(doing[p].ro))
           /\ disk' = [disk EXCEPT ![x].store = TRUE]
           /\ ToStep(p, "mapping")
           /\ UNCHANGED <<handle, outcome, made, begun>>
  <2>1. /\ d \in OnDisk /\ d.dir = disk[x].dir /\ d.m = disk[x].m /\ d.store = TRUE
        /\ d.meta = disk[x].meta /\ d.known = disk[x].known
    BY <1>1, <1>2, FieldsOf DEF OnDisk
  <2>2. disk' = [disk EXCEPT ![x] = d]
    BY <1>4
  <2> HIDE DEF d
  <2>3. disk' \in [Paths -> OnDisk] /\ disk'[x] = d /\ Grows(p)
    BY <1>1, <1>2, <2>1, <2>2, Wrote, GrowsAt
  <2>4. /\ doing'[p].step = "mapping" /\ doing'[p].op = doing[p].op /\ doing'[p].path = x
        /\ handle' = handle
    BY <1>1, <1>4, StepIs DEF ToStep
  <2>5. DiskFits(p)'
    BY <1>1, <1>2, <2>1, <2>3, <2>4 DEF DiskFits, Grows
  <2>6. Free(x, p, Mode(doing[p].ro)) /\ Mode(doing[p].ro) \in {"shared", "exclusive"}
    BY DEF OpenBolt, Mode
  <2> QED
    BY <1>1, <1>2, <1>4, <2>3, <2>5, <2>6, LocksKeeps
<1> QED
  BY <1>3, <1>4 DEF OpenBolt

LEMMA CopyStoreKeeps ==
  ASSUME CreateAssumption, CreateInv, NEW p \in Procs, CopyStore(p)
  PROVE  CreateInv'
<1> DEFINE x == doing[p].path
           d == [disk[x] EXCEPT !.dir = TRUE, !.store = TRUE]
<1>1. /\ DoingFits(p) /\ DiskFits(p) /\ CreateTypeOK
      /\ doing[p].op = "copy" /\ doing[p].step = "store"
  BY PartsOf DEF CopyStore, InStep
<1>2. x \in Paths
  BY <1>1 DEF DoingFits
<1>3. /\ d \in OnDisk /\ d.dir = TRUE /\ d.m = disk[x].m /\ d.store = TRUE
      /\ d.meta = disk[x].meta /\ d.known = disk[x].known
  BY <1>1, <1>2, FieldsOf DEF OnDisk
<1>4. disk' = [disk EXCEPT ![x] = d]
  BY <1>1, <1>2 DEF CopyStore, CreateTypeOK
<1> HIDE DEF d
<1>5. disk' \in [Paths -> OnDisk] /\ disk'[x] = d /\ Grows(p)
  BY <1>1, <1>2, <1>3, <1>4, Wrote, GrowsAt
<1>6. /\ doing'[p].step = "commit" /\ doing'[p].op = doing[p].op /\ doing'[p].path = x
      /\ handle' = handle
  BY <1>1, StepIs DEF CopyStore, ToStep
<1>7. DiskFits(p)'
  BY <1>1, <1>2, <1>3, <1>5, <1>6 DEF DiskFits, Grows
<1>8. /\ Free(x, p, "exclusive") /\ lock' = Locked(x, p, "exclusive") /\ ToStep(p, "commit")
      /\ UNCHANGED <<handle, outcome, made, begun>>
  BY DEF CopyStore
<1> QED
  BY <1>1, <1>2, <1>5, <1>7, <1>8, LocksKeeps

LEMMA CopyCommitKeeps ==
  ASSUME CreateAssumption, CreateInv, NEW p \in Procs, CopyCommit(p)
  PROVE  CreateInv'
<1> DEFINE x == doing[p].path
           y == handle[p].path
           d == [disk[x] EXCEPT !.m = disk[y].m, !.docs = disk[y].docs]
<1>1. /\ DoingFits(p) /\ LocksFit(p) /\ DiskFits(p) /\ MadeFits(p) /\ CreateTypeOK
      /\ doing[p].op = "copy" /\ doing[p].step = "commit"
  BY PartsOf DEF CopyCommit, InStep
<1>2. x \in Paths /\ y \in Paths /\ x # y
  BY <1>1 DEF DoingFits
<1>3. disk[y].m \in Mappings /\ disk[y].docs \in BOOLEAN
  BY <1>1, <1>2, FieldsOf DEF DiskFits
<1>4. /\ d \in OnDisk /\ d.dir = disk[x].dir /\ d.m = disk[y].m /\ d.store = disk[x].store
      /\ d.meta = disk[x].meta /\ d.known = disk[x].known
  BY <1>1, <1>2, <1>3, FieldsOf DEF OnDisk
<1>5. disk' = [disk EXCEPT ![x] = d]
  BY <1>1, <1>2 DEF CopyCommit, CreateTypeOK
<1> HIDE DEF d
<1>6. disk' \in [Paths -> OnDisk] /\ disk'[x] = d /\ Grows(p)
  BY <1>1, <1>2, <1>3, <1>4, <1>5, Wrote, GrowsAt
<1>7. /\ doing' \in [Procs -> ACall] /\ \A q \in Procs \ {p} : doing'[q] = doing[q]
      /\ doing'[p].step = "create" /\ doing'[p].op = doing[p].op /\ doing'[p].path = x
      /\ doing'[p].m = doing[p].m /\ doing'[p].after = doing[p].after /\ doing'[p].ro = doing[p].ro
      /\ handle' = handle /\ outcome' = outcome /\ made' = made /\ begun' = begun
  BY <1>1, StepIs DEF CopyCommit, ToStep
<1>8. /\ lock' \in [Paths -> [Procs -> Modes]] /\ lock'[x][p] = "no"
      /\ \A z \in Paths \ {x} : lock'[z][p] = lock[z][p]
      /\ \A z \in Paths : \A q \in Procs \ {p} : lock'[z][q] = lock[z][q]
  <2>1. "no" \in Modes /\ lock' = [lock EXCEPT ![x][p] = "no"]
    BY DEF Modes, Released, CopyCommit
  <2> QED
    BY <1>1, <1>2, <2>1, LockedAt
<1>9. CreateTypeOK'
  BY <1>1, <1>6, <1>7, <1>8 DEF CreateTypeOK, Modes
<1>10. Others(p) /\ Makes(p)
  BY <1>7, <1>8 DEF Others, Makes
<1>11. DoingFits(p)'
  BY <1>1, <1>7 DEF DoingFits
<1>12. LocksFit(p)'
  BY <1>1, <1>2, <1>7, <1>8 DEF LocksFit
<1>13. DiskFits(p)'
  BY <1>1, <1>2, <1>3, <1>4, <1>6, <1>7 DEF DiskFits, Grows
<1>14. MadeFits(p)'
  BY <1>1, <1>7 DEF MadeFits, Past
<1>15. \A q \in Procs \ {p} : PairInv(p, q)' /\ PairInv(q, p)'
  <2>1. \A z \in Paths : lock'[z][p] # "no" => lock'[z][p] = lock[z][p]
    BY <1>8
  <2>2. Past(p)' => Past(p)
    BY <1>1, <1>7 DEF Past
  <2> QED
    BY <1>7, <1>10, <2>1, <2>2, PairsKept
<1> QED
  BY <1>6, <1>9, <1>10, <1>11, <1>12, <1>13, <1>14, <1>15, StepKeeps

---------------------------------------------------------------------------
(* A call ends well *)

LEMMA OpenedKeeps ==
  ASSUME CreateAssumption, CreateInv, NEW p \in Procs,
         doing[p].op \in {"new", "open"}, doing[p].step = "mapping",
         NEW conf \in {"none", "plain", "ro"}, NEW m \in Mappings, NEW used \in BOOLEAN,
         Opened(p, conf, m, used),
         disk' \in [Paths -> OnDisk], Grows(p), Makes(p), made' \subseteq Paths,
         disk'[doing[p].path].dir = TRUE, disk'[doing[p].path].m \in Mappings
  PROVE  CreateInv'
<1>1. /\ DoingFits(p) /\ LocksFit(p) /\ DiskFits(p) /\ MadeFits(p) /\ CreateTypeOK
      /\ handle[p] = Closed /\ handle[p].path \notin Paths /\ doing[p].path \in Paths
      /\ doing[p] \in ACall
  <2>1. /\ DoingFits(p) /\ LocksFit(p) /\ DiskFits(p) /\ MadeFits(p) /\ CreateTypeOK
        /\ handle[p] = Closed => handle[p].path \notin Paths
        /\ doing[p] \in ACall
    BY PartsOf
  <2> QED
    BY <2>1 DEF DoingFits
<1> DEFINE h == [path |-> doing[p].path, conf |-> conf, ro |-> doing[p].ro,
                 asked |-> doing[p].asked, m |-> m, used |-> used]
           o == [op |-> doing[p].op, path |-> doing[p].path, res |-> "ok",
                 after |-> doing[p].after, used |-> used]
<1>2. /\ doing' = [doing EXCEPT ![p] = AtRest] /\ handle' = [handle EXCEPT ![p] = h]
      /\ outcome' = [outcome EXCEPT ![p] = o] /\ lock' = lock /\ begun' = begun
  BY DEF Opened
<1>3. doing' \in [Procs -> ACall] /\ doing'[p] = AtRest /\ \A q \in Procs \ {p} : doing'[q] = doing[q]
  <2> HIDE DEF ACall, AtRest
  <2> QED
    BY <1>1, <1>2, AtRestTyped DEF CreateTypeOK
<1>4. h \in AnIndex /\ h.path = doing[p].path /\ h.ro = doing[p].ro
  BY <1>1 DEF AnIndex, ACall
<1>5. o \in AnOutcome /\ o.res = "ok"
  BY <1>1 DEF AnOutcome, ACall
<1>6. /\ handle' \in [Procs -> AnIndex] /\ handle'[p] = h
      /\ outcome' \in [Procs -> AnOutcome] /\ outcome'[p] = o
      /\ \A q \in Procs \ {p} : handle'[q] = handle[q] /\ outcome'[q] = outcome[q]
  <2> HIDE DEF AnIndex, AnOutcome, h, o
  <2> QED
    BY <1>1, <1>2, <1>4, <1>5 DEF CreateTypeOK
<1> HIDE DEF h, o
<1>7. CreateTypeOK'
  BY <1>1, <1>2, <1>3, <1>6 DEF CreateTypeOK
<1>8. Others(p)
  BY <1>2, <1>3, <1>6 DEF Others
<1>9. DoingFits(p)'
  BY <1>1, <1>3, <1>4, <1>6, AtRestTyped DEF DoingFits
<1>10. LocksFit(p)'
  BY <1>1, <1>2, <1>3, <1>4, <1>6, AtRestTyped DEF LocksFit, Mode
<1>11. DiskFits(p)'
  BY <1>3, <1>4, <1>6, AtRestTyped DEF DiskFits
<1>12. MadeFits(p)'
  BY <1>3, <1>5, <1>6, AtRestTyped DEF MadeFits, Past
<1>13. \A q \in Procs \ {p} : PairInv(p, q)' /\ PairInv(q, p)'
  BY <1>2, <1>3, <1>8, AtRestTyped, PairsKept
<1> QED
  BY <1>7, <1>8, <1>9, <1>10, <1>11, <1>12, <1>13, StepKeeps

LEMMA SetMappingKeeps ==
  ASSUME CreateAssumption, CreateInv, NEW p \in Procs, SetMapping(p)
  PROVE  CreateInv'
<1> DEFINE x == doing[p].path
           d == [disk[x] EXCEPT !.m = doing[p].m]
<1>1. /\ DoingFits(p) /\ DiskFits(p) /\ MadeFits(p) /\ CreateTypeOK
      /\ doing[p].op = "new" /\ doing[p].step = "mapping"
  BY PartsOf DEF SetMapping, InStep
<1>2. x \in Paths /\ doing[p].m \in Mappings
  BY <1>1 DEF DoingFits
<1>3. CASE Fails(p, "failed") /\ disk' = disk
  <2>1. disk' \in [Paths -> OnDisk] /\ Grows(p)
    BY <1>1, <1>3 DEF CreateTypeOK, Grows
  <2> QED
    BY <1>1, <1>3, <2>1, FailedKeeps DEF Errors
<1>4. CASE /\ disk' = [disk EXCEPT ![x].m = doing[p].m]
           /\ made' = made \cup {x}
           /\ Opened(p, "plain", doing[p].m, Here(p).docs)
  <2>1. /\ d \in OnDisk /\ d.dir = disk[x].dir /\ d.m = doing[p].m /\ d.store = disk[x].store
        /\ d.meta = disk[x].meta /\ d.known = disk[x].known
    BY <1>1, <1>2, FieldsOf DEF OnDisk
  <2>2. disk' = [disk EXCEPT ![x] = d]
    BY <1>4
  <2> HIDE DEF d
  <2>3. disk' \in [Paths -> OnDisk] /\ disk'[x] = d /\ Grows(p)
    BY <1>1, <1>2, <2>1, <2>2, Wrote, GrowsAt
  <2>4. disk'[x].dir = TRUE /\ disk'[x].m \in Mappings
    BY <1>1, <1>2, <2>1, <2>3 DEF DiskFits
  <2>5. \A y \in Paths : y = x => Whole(y)'
    BY <1>1, <1>2, <2>1, <2>3, <2>4 DEF DiskFits, Whole
  <2>6. Makes(p) /\ made' \subseteq Paths
    BY <1>1, <1>2, <1>4, <2>5 DEF Makes, Past, CreateTypeOK
  <2>7. Here(p).docs \in BOOLEAN
    BY <1>1, <1>2, FieldsOf DEF Here
  <2> QED
    BY <1>1, <1>2, <1>4, <2>3, <2>4, <2>6, <2>7, OpenedKeeps
<1> QED
  BY <1>3, <1>4 DEF SetMapping

LEMMA LoadMappingKeeps ==
  ASSUME CreateAssumption, CreateInv, NEW p \in Procs, LoadMapping(p)
  PROVE  CreateInv'
<1> DEFINE x == doing[p].path
<1>1. /\ DoingFits(p) /\ DiskFits(p) /\ MadeFits(p) /\ CreateTypeOK /\ doing[p] \in ACall
      /\ doing[p].op = "open" /\ doing[p].step = "mapping" /\ disk' = disk
  BY PartsOf DEF LoadMapping, InStep
<1>2. /\ x \in Paths /\ disk[x].m \in Mappings \cup {NoMapping} /\ disk[x].docs \in BOOLEAN
      /\ doing[p].conf \in {"none", "plain", "ro"}
  BY <1>1, FieldsOf DEF DoingFits, ACall
<1>3. disk' \in [Paths -> OnDisk] /\ Grows(p)
  BY <1>1 DEF CreateTypeOK, Grows
<1>4. CASE disk[x].m = NoMapping
  <2>1. Fails(p, "no mapping")
    BY <1>4 DEF LoadMapping, Here
  <2>2. doing[p].after # TRUE
    BY <1>1, <1>4 DEF MadeFits, CreateInv, Whole, CreateAssumption
  <2> QED
    BY <1>1, <1>3, <2>1, <2>2, FailedKeeps DEF Errors
<1>5. CASE disk[x].m # NoMapping
  <2>1. Opened(p, doing[p].conf, disk[x].m, disk[x].docs) /\ made' = made
    BY <1>5 DEF LoadMapping, Here
  <2>2. disk'[x].dir = TRUE /\ disk[x].m \in Mappings /\ disk'[x].m \in Mappings
    BY <1>1, <1>2, <1>5 DEF DiskFits
  <2>3. Makes(p) /\ made' \subseteq Paths
    BY <1>1, <2>1 DEF Makes, CreateTypeOK
  <2> QED
    BY <1>1, <1>2, <1>3, <2>1, <2>2, <2>3, OpenedKeeps
<1> QED
  BY <1>4, <1>5

\* A call without a lock ends and leaves the index open.
LEMMA EndsKeeps ==
  ASSUME CreateAssumption, CreateInv, NEW p \in Procs,
         doing[p].op \in {"batch", "copy"}, doing[p].step \notin {"mapping", "commit"},
         doing' = [doing EXCEPT ![p] = AtRest], UNCHANGED <<lock, handle, outcome, begun>>,
         disk' \in [Paths -> OnDisk], Grows(p), Makes(p), made' \subseteq Paths
  PROVE  CreateInv'
<1>1. /\ DoingFits(p) /\ LocksFit(p) /\ DiskFits(p) /\ MadeFits(p) /\ CreateTypeOK
  BY PartsOf
<1>2. doing' \in [Procs -> ACall] /\ doing'[p] = AtRest /\ \A q \in Procs \ {p} : doing'[q] = doing[q]
  <2> HIDE DEF ACall, AtRest
  <2> QED
    BY <1>1, AtRestTyped DEF CreateTypeOK
<1>3. lock' = lock /\ handle' = handle /\ outcome' = outcome /\ begun' = begun
  OBVIOUS
<1>4. CreateTypeOK'
  BY <1>1, <1>2, <1>3 DEF CreateTypeOK
<1>5. Others(p)
  BY <1>2, <1>3 DEF Others
<1>6. DoingFits(p)'
  BY <1>1, <1>2, <1>3, AtRestTyped DEF DoingFits
<1>7. LocksFit(p)'
  BY <1>1, <1>2, <1>3, AtRestTyped DEF LocksFit
<1>8. DiskFits(p)'
  BY <1>1, <1>2, <1>3, AtRestTyped DEF DiskFits, Grows
<1>9. MadeFits(p)'
  BY <1>1, <1>2, <1>3, AtRestTyped DEF MadeFits, Past
<1>10. \A q \in Procs \ {p} : PairInv(p, q)' /\ PairInv(q, p)'
  BY <1>2, <1>3, <1>5, AtRestTyped, PairsKept
<1> QED
  BY <1>4, <1>5, <1>6, <1>7, <1>8, <1>9, <1>10, StepKeeps

LEMMA PersistedKeeps ==
  ASSUME CreateAssumption, CreateInv, NEW p \in Procs, Persisted(p)
  PROVE  CreateInv'
<1> DEFINE x == doing[p].path
           d == [disk[x] EXCEPT !.docs = TRUE]
<1>1. DoingFits(p) /\ CreateTypeOK /\ doing[p].op = "batch" /\ doing[p].step = "persist"
  BY PartsOf DEF Persisted, InStep
<1>2. x \in Paths
  BY <1>1 DEF DoingFits
<1>3. /\ d \in OnDisk /\ d.dir = disk[x].dir /\ d.m = disk[x].m /\ d.store = disk[x].store
      /\ d.meta = disk[x].meta /\ d.known = disk[x].known
  BY <1>1, <1>2, FieldsOf DEF OnDisk
<1>4. disk' = [disk EXCEPT ![x] = d]
  BY DEF Persisted
<1> HIDE DEF d
<1>5. disk' \in [Paths -> OnDisk] /\ Grows(p)
  BY <1>1, <1>2, <1>3, <1>4, Wrote, GrowsAt
<1>6. doing' = [doing EXCEPT ![p] = AtRest] /\ UNCHANGED <<lock, handle, outcome, made, begun>>
  BY DEF Persisted
<1>7. Makes(p) /\ made' \subseteq Paths
  BY <1>1, <1>6 DEF Makes, CreateTypeOK
<1> QED
  BY <1>1, <1>5, <1>6, <1>7, EndsKeeps

LEMMA CopyWriteKeeps ==
  ASSUME CreateAssumption, CreateInv, NEW p \in Procs, CopyWrite(p)
  PROVE  CreateInv'
<1> DEFINE x == doing[p].path
           d == [disk[x] EXCEPT !.meta = "whole", !.conf = handle[p].conf, !.known = TRUE]
<1>1. /\ DoingFits(p) /\ DiskFits(p) /\ CreateTypeOK /\ doing[p].op = "copy" /\ doing[p].step = "write"
      /\ handle[p] \in AnIndex
  BY PartsOf DEF CopyWrite, InStep
<1>2. x \in Paths /\ handle[p].conf \in {"none", "plain", "ro"}
  BY <1>1 DEF DoingFits, AnIndex
<1>3. /\ d \in OnDisk /\ d.dir = disk[x].dir /\ d.m = disk[x].m /\ d.store = disk[x].store
      /\ d.meta = "whole" /\ d.known = TRUE
  BY <1>1, <1>2, FieldsOf DEF OnDisk
<1>4. disk' = [disk EXCEPT ![x] = d]
  BY <1>1, <1>2 DEF CopyWrite, CreateTypeOK
<1>5. Making(p)
  BY <1>1 DEF Making
<1> HIDE DEF d
<1>6. disk' \in [Paths -> OnDisk] /\ disk'[x] = d /\ Grows(p)
  BY <1>1, <1>2, <1>3, <1>4, <1>5, Wrote, GrowsAt
<1>7. \A y \in Paths : y = x => Whole(y)'
  BY <1>1, <1>3, <1>6 DEF DiskFits, Whole
<1>8. /\ doing' = [doing EXCEPT ![p] = AtRest] /\ UNCHANGED <<lock, handle, outcome, begun>>
      /\ made' = made \cup {x}
  BY DEF CopyWrite
<1>9. Makes(p) /\ made' \subseteq Paths
  BY <1>1, <1>2, <1>7, <1>8 DEF Makes, CreateTypeOK
<1> QED
  BY <1>1, <1>6, <1>8, <1>9, EndsKeeps

---------------------------------------------------------------------------
(* An index is closed, a process is killed *)

LEMMA GoneKeeps ==
  ASSUME CreateAssumption, CreateInv, NEW p \in Procs,
         lock' \in [Paths -> [Procs -> Modes]],
         \A x \in Paths : lock'[x][p] = "no" /\ \A q \in Procs \ {p} : lock'[x][q] = lock[x][q],
         doing' \in [Procs -> ACall], doing'[p] = AtRest,
         \A q \in Procs \ {p} : doing'[q] = doing[q],
         handle' = [handle EXCEPT ![p] = Closed],
         UNCHANGED <<disk, outcome, made, begun>>
  PROVE  CreateInv'
<1>1. MadeFits(p) /\ CreateTypeOK
  BY PartsOf
<1>2. disk' = disk /\ outcome' = outcome /\ made' = made /\ begun' = begun
  OBVIOUS
<1>3. /\ handle' \in [Procs -> AnIndex] /\ handle'[p] = Closed
      /\ \A q \in Procs \ {p} : handle'[q] = handle[q]
  <2>1. Closed \in AnIndex
    BY DEF Closed, AnIndex
  <2> HIDE DEF Closed, AnIndex
  <2> QED
    BY <1>1, <2>1 DEF CreateTypeOK
<1>4. handle'[p].path \notin Paths
  BY <1>3 DEF Closed, CreateAssumption
<1>5. CreateTypeOK'
  BY <1>1, <1>2, <1>3 DEF CreateTypeOK, Modes
<1>6. Others(p) /\ Grows(p) /\ Makes(p)
  BY <1>2, <1>3 DEF Others, Grows, Makes
<1>7. DoingFits(p)'
  BY <1>3, AtRestTyped DEF DoingFits
<1>8. LocksFit(p)'
  BY <1>4, AtRestTyped DEF LocksFit
<1>9. DiskFits(p)'
  BY <1>4, AtRestTyped DEF DiskFits
<1>10. MadeFits(p)'
  BY <1>1, <1>2, AtRestTyped DEF MadeFits, Past
<1>11. \A q \in Procs \ {p} : PairInv(p, q)' /\ PairInv(q, p)'
  BY <1>6, AtRestTyped, PairsKept
<1> QED
  BY <1>5, <1>6, <1>7, <1>8, <1>9, <1>10, <1>11, StepKeeps

LEMMA CloseIndexKeeps ==
  ASSUME CreateAssumption, CreateInv, NEW p \in Procs, CloseIndex(p)
  PROVE  CreateInv'
<1>1. /\ DoingFits(p) /\ LocksFit(p) /\ CreateTypeOK /\ doing[p] = AtRest /\ handle[p] # Closed
  BY PartsOf DEF CloseIndex
<1>2. handle[p].path \in Paths
  BY <1>1 DEF DoingFits
<1>3. /\ lock' \in [Paths -> [Procs -> Modes]] /\ lock'[handle[p].path][p] = "no"
      /\ \A y \in Paths \ {handle[p].path} : lock'[y][p] = lock[y][p]
      /\ \A y \in Paths : \A q \in Procs \ {p} : lock'[y][q] = lock[y][q]
  <2>1. "no" \in Modes /\ lock' = [lock EXCEPT ![handle[p].path][p] = "no"]
    BY DEF Modes, Released, CloseIndex
  <2> QED
    BY <1>1, <1>2, <2>1, LockedAt
<1>4. \A x \in Paths \ {handle[p].path} : lock[x][p] = "no"
  BY <1>1, AtRestTyped DEF LocksFit
<1>5. \A x \in Paths : lock'[x][p] = "no" /\ \A q \in Procs \ {p} : lock'[x][q] = lock[x][q]
  BY <1>3, <1>4
<1>6. /\ doing' \in [Procs -> ACall] /\ doing'[p] = AtRest /\ \A q \in Procs \ {p} : doing'[q] = doing[q]
      /\ handle' = [handle EXCEPT ![p] = Closed] /\ UNCHANGED <<disk, outcome, made, begun>>
  BY <1>1 DEF CloseIndex, CreateTypeOK
<1> QED
  BY <1>3, <1>5, <1>6, GoneKeeps

LEMMA CrashKeeps ==
  ASSUME CreateAssumption, CreateInv, NEW p \in Procs, Crash(p)
  PROVE  CreateInv'
<1>1. CreateTypeOK
  BY PartsOf
<1>2. /\ lock' = [x \in Paths |-> [lock[x] EXCEPT ![p] = "no"]]
      /\ doing' = [doing EXCEPT ![p] = AtRest] /\ handle' = [handle EXCEPT ![p] = Closed]
      /\ UNCHANGED <<disk, outcome, made, begun>>
  BY DEF Crash
<1>3. /\ lock' \in [Paths -> [Procs -> Modes]]
      /\ \A x \in Paths : lock'[x][p] = "no" /\ \A q \in Procs \ {p} : lock'[x][q] = lock[x][q]
  <2>1. lock \in [Paths -> [Procs -> Modes]] /\ "no" \in Modes
    BY <1>1 DEF CreateTypeOK, Modes
  <2> HIDE DEF Modes
  <2> QED
    BY <1>2, <2>1
<1>4. doing' \in [Procs -> ACall] /\ doing'[p] = AtRest /\ \A q \in Procs \ {p} : doing'[q] = doing[q]
  <2> HIDE DEF ACall, AtRest
  <2> QED
    BY <1>1, <1>2, AtRestTyped DEF CreateTypeOK
<1> QED
  BY <1>2, <1>3, <1>4, GoneKeeps

---------------------------------------------------------------------------
(* The invariant holds *)

LEMMA CreateInitKeeps ==
  ASSUME CreateAssumption, CreateInit
  PROVE  CreateInv
<1>1. CreateTypeOK
  <2>1. AtRest \in ACall /\ Closed \in AnIndex /\ NoOutcome \in AnOutcome /\ Nothing \in OnDisk
    BY AtRestTyped DEF Closed, AnIndex, NoOutcome, AnOutcome, Nothing, OnDisk
  <2> HIDE DEF AtRest, Closed, NoOutcome, Nothing, ACall, AnIndex, AnOutcome, OnDisk
  <2> QED
    BY <2>1 DEF CreateTypeOK, CreateInit
<1>2. \A p \in Procs : doing[p] = AtRest /\ handle[p] = Closed /\ outcome[p] = NoOutcome
                       /\ \A x \in Paths : lock[x][p] = "no"
  BY DEF CreateInit
<1>3. Closed.path \notin Paths /\ NoOutcome.op = "none"
  BY DEF Closed, NoOutcome, CreateAssumption
<1>4. \A p \in Procs : DoingFits(p) /\ LocksFit(p) /\ DiskFits(p) /\ MadeFits(p)
  BY <1>2, <1>3, AtRestTyped DEF DoingFits, LocksFit, DiskFits, MadeFits, Past
<1>5. \A p \in Procs, q \in Procs : p # q => PairInv(p, q)
  BY <1>2, AtRestTyped DEF PairInv, LocksAgree, Apart, Past
<1>6. made = {}
  BY DEF CreateInit
<1> QED
  BY <1>1, <1>4, <1>5, <1>6 DEF CreateInv, ProcInv

LEMMA CreateNextKeeps ==
  ASSUME CreateAssumption, CreateInv, [CreateNext]_fileVars
  PROVE  CreateInv'
<1>1. CASE UNCHANGED fileVars
  BY <1>1 DEF fileVars, CreateInv, CreateTypeOK, ProcInv, PairInv, DoingFits, LocksFit, DiskFits, MadeFits, Past,
              LocksAgree, Apart, Whole
<1>2. ASSUME NEW p \in Procs,
             \/ BeginNew(p) \/ BeginOpen(p) \/ BeginBatch(p) \/ BeginCopy(p)
             \/ Work(p) \/ OpenBolt(p) \/ CloseIndex(p) \/ Crash(p)
      PROVE  CreateInv'
  <2>1. CASE BeginNew(p)
    BY <2>1, BeginNewKeeps
  <2>2. CASE BeginOpen(p)
    BY <2>2, BeginOpenKeeps
  <2>3. CASE BeginBatch(p)
    BY <2>3, BeginBatchKeeps
  <2>4. CASE BeginCopy(p)
    BY <2>4, BeginCopyKeeps
  <2>5. CASE SaveMkdir(p)
    BY <2>5, SaveMkdirKeeps
  <2>6. CASE SaveCreate(p)
    BY <2>6, SaveCreateKeeps
  <2>7. CASE SaveWrite(p)
    BY <2>7, SaveWriteKeeps
  <2>8. CASE SetMapping(p)
    BY <2>8, SetMappingKeeps
  <2>9. CASE Stat(p)
    BY <2>9, StatKeeps
  <2>10. CASE ReadMeta(p)
    BY <2>10, ReadMetaKeeps
  <2>11. CASE LoadMapping(p)
    BY <2>11, LoadMappingKeeps
  <2>12. CASE Persisted(p)
    BY <2>12, PersistedKeeps
  <2>13. CASE CopyStore(p)
    BY <2>13, CopyStoreKeeps
  <2>14. CASE CopyCommit(p)
    BY <2>14, CopyCommitKeeps
  <2>15. CASE CopyCreate(p)
    BY <2>15, CopyCreateKeeps
  <2>16. CASE CopyWrite(p)
    BY <2>16, CopyWriteKeeps
  <2>17. CASE OpenBolt(p)
    BY <2>17, OpenBoltKeeps
  <2>18. CASE CloseIndex(p)
    BY <2>18, CloseIndexKeeps
  <2>19. CASE Crash(p)
    BY <2>19, CrashKeeps
  <2> QED
    BY <1>2, <2>1, <2>2, <2>3, <2>4, <2>5, <2>6, <2>7, <2>8, <2>9, <2>10, <2>11, <2>12, <2>13,
       <2>14, <2>15, <2>16, <2>17, <2>18, <2>19 DEF Work
<1> QED
  BY <1>1, <1>2 DEF CreateNext

\* The invariant holds in every state, for any processes, paths, mappings and
\* number of calls, with and without storage errors, kills and copies.
THEOREM CreateInvariant == ASSUME CreateAssumption PROVE CreateSpec => []CreateInv
<1>1. CreateInit => CreateInv
  BY CreateInitKeeps
<1>2. CreateInv /\ [CreateNext]_fileVars => CreateInv'
  BY CreateNextKeeps
<1> QED
  BY <1>1, <1>2, PTL DEF CreateSpec

---------------------------------------------------------------------------
(* What follows from it *)

\* Two processes have the same index open only when both have it open for
\* reading: openBolt takes the lock of root.bolt before New or Open returns,
\* and only Close, or the end of the process, gives it back.
THEOREM WriterAlwaysAlone == ASSUME CreateAssumption PROVE CreateSpec => []WriterAlone
<1>1. CreateInv => WriterAlone
  <2> SUFFICES ASSUME CreateInv, NEW p \in Procs, NEW q \in Procs \ {p},
                      handle[p] # Closed, handle[p].path = handle[q].path
               PROVE  handle[p].ro /\ handle[q].ro
    BY DEF WriterAlone
  <2>1. DoingFits(p) /\ LocksFit(p) /\ LocksFit(q) /\ LocksAgree(p, q)
    BY DEF CreateInv, ProcInv, PairInv
  <2>2. handle[p].path \in Paths
    BY <2>1 DEF DoingFits
  <2>3. /\ lock[handle[p].path][p] = Mode(handle[p].ro)
        /\ lock[handle[p].path][q] = Mode(handle[q].ro)
    BY <2>1, <2>2 DEF LocksFit
  <2>4. Mode(handle[p].ro) = "shared" /\ Mode(handle[q].ro) = "shared"
    BY <2>1, <2>2, <2>3 DEF LocksAgree, Mode
  <2> QED
    BY <2>4 DEF Mode
<1> QED
  BY <1>1, CreateInvariant, PTL

\* A New, an Open or a copy that failed leaves root.bolt unlocked: a process
\* has a lock only where it has an index open or is in a call.
THEOREM FailedCallsAlwaysUnlock == ASSUME CreateAssumption PROVE CreateSpec => []FailedCallsUnlock
<1>1. CreateInv => FailedCallsUnlock
  BY DEF CreateInv, ProcInv, LocksFit, FailedCallsUnlock
<1> QED
  BY <1>1, CreateInvariant, PTL

\* An Open that begins after a New or a copy at its path has succeeded finds
\* the directory, the metadata, the index type and the mapping, whatever
\* failed or was killed there before or since.
THEOREM CreatedAlwaysOpenable == ASSUME CreateAssumption PROVE CreateSpec => []CreatedStaysOpenable
<1>1. CreateInv => CreatedStaysOpenable
  <2> SUFFICES ASSUME CreateInv, NEW p \in Procs, outcome[p].op = "open", outcome[p].after
               PROVE  outcome[p].res \in {"ok", "failed"}
    BY DEF CreatedStaysOpenable
  <2>1. MadeFits(p) /\ outcome[p].after \in BOOLEAN
    BY DEF CreateInv, ProcInv, CreateTypeOK, AnOutcome
  <2> QED
    BY <2>1 DEF MadeFits
<1> QED
  BY <1>1, CreateInvariant, PTL

\* A step that would write the mapping of an index that was made: of New, which
\* is past O_EXCL, or of CopyTo, into a directory of its own.
LEMMA MappingStep ==
  ASSUME CreateInv, NEW p \in Procs,
         \/ BeginNew(p) \/ BeginOpen(p) \/ BeginBatch(p) \/ BeginCopy(p)
         \/ Work(p) \/ OpenBolt(p) \/ CloseIndex(p) \/ Crash(p),
         NEW x \in made
  PROVE  disk'[x].m = disk[x].m
<1>1. CreateTypeOK /\ MadeFits(p) /\ x \in Paths
  BY DEF CreateInv, ProcInv, CreateTypeOK
<1>2. CASE SetMapping(p)
  <2>1. x # doing[p].path
    BY <1>1, <1>2 DEF SetMapping, InStep, MadeFits, Past
  <2> QED
    BY <1>1, <1>2, <2>1 DEF SetMapping, CreateTypeOK
<1>3. CASE CopyCommit(p)
  <2>1. x # doing[p].path
    BY <1>1, <1>3 DEF CopyCommit, InStep, MadeFits
  <2> QED
    BY <1>1, <1>3, <2>1 DEF CopyCommit, CreateTypeOK
<1>4. CASE SaveMkdir(p) \/ SaveCreate(p) \/ SaveWrite(p)
  <2>1. CASE SaveMkdir(p)
    BY <1>1, <2>1 DEF SaveMkdir, CreateTypeOK, OnDisk
  <2>2. CASE SaveCreate(p)
    <3>1. disk' = disk \/ disk' = [disk EXCEPT ![doing[p].path].meta = "empty"]
      BY <2>2 DEF SaveCreate
    <3>2. disk \in [Paths -> OnDisk]
      BY <1>1 DEF CreateTypeOK
    <3>3. CASE disk' = [disk EXCEPT ![doing[p].path].meta = "empty"]
      BY <1>1, <3>2, <3>3 DEF OnDisk
    <3> QED
      BY <3>1, <3>3
  <2>3. CASE SaveWrite(p)
    <3>1. disk' = [disk EXCEPT ![doing[p].path].meta = "whole",
                               ![doing[p].path].conf = doing[p].conf,
                               ![doing[p].path].known = doing[p].known]
      BY <2>3 DEF SaveWrite
    <3> QED
      BY <1>1, <3>1 DEF CreateTypeOK, OnDisk
  <2> QED
    BY <1>4, <2>1, <2>2, <2>3
<1>5. CASE OpenBolt(p) \/ Persisted(p)
  <2>1. \/ disk' = disk \/ disk' = [disk EXCEPT ![doing[p].path].store = TRUE]
        \/ disk' = [disk EXCEPT ![doing[p].path].docs = TRUE]
    BY <1>5 DEF OpenBolt, Persisted
  <2> QED
    BY <1>1, <2>1 DEF CreateTypeOK, OnDisk
<1>6. CASE CopyStore(p) \/ CopyCreate(p) \/ CopyWrite(p)
  BY <1>1, <1>6 DEF CopyStore, CopyCreate, CopyWrite, CreateTypeOK, OnDisk
<1>7. CASE Stat(p) \/ ReadMeta(p) \/ LoadMapping(p)
  BY <1>7 DEF Stat, ReadMeta, LoadMapping
<1>8. CASE BeginNew(p) \/ BeginOpen(p) \/ BeginBatch(p) \/ BeginCopy(p) \/ CloseIndex(p) \/ Crash(p)
  BY <1>8 DEF BeginNew, BeginOpen, BeginBatch, BeginCopy, BeginCall, CloseIndex, Crash
<1> QED
  BY <1>2, <1>3, <1>4, <1>5, <1>6, <1>7, <1>8 DEF Work

\* The mapping of an index that was made is never replaced.
THEOREM MappingAlwaysKept == ASSUME CreateAssumption PROVE CreateSpec => MappingKept
<1>1. CreateInv /\ [CreateNext]_fileVars => [\A x \in made : disk'[x].m = disk[x].m]_fileVars
  BY MappingStep DEF CreateNext
<1> QED
  BY <1>1, CreateInvariant, PTL DEF CreateSpec, MappingKept

\* index_impl.go and scorch.go: the lock on root.bolt keeps writers apart, and
\* no call that has failed keeps one.
THEOREM FilesAlwaysGuarded == ASSUME CreateAssumption PROVE CreateSpec => []FilesGuarded
<1> QED
  BY WriterAlwaysAlone, FailedCallsAlwaysUnlock, PTL DEF FilesGuarded
=============================================================================
