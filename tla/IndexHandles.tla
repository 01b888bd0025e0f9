---------------------------- MODULE IndexHandles ----------------------------
(***************************************************************************)
(* Indexes and an alias over some of them, used by several goroutines:     *)
(* what index_impl.go and index_alias_impl.go do under their mutexes.  A   *)
(* sync.RWMutex lets no reader in once a writer has announced itself, and  *)
(* the writer waits for the readers that are inside.  A field dictionary   *)
(* keeps the read locks it was made under until its caller closes it.      *)
(***************************************************************************)
EXTENDS Integers, FiniteSets, Sequences

CONSTANTS Indexes, Clients,
          Alias,       \* the mutex of the alias
          Members,     \* the indexes the alias is made with
          MaxCalls,    \* bound: calls of a client
          Writers,     \* clients that change the alias and close indexes
          Polite       \* clients that close a field dictionary before they call anything else

\* What is assumed of the constants.
HandleAssumption ==
    /\ Alias \notin Indexes
    /\ Members \subseteq Indexes
    /\ MaxCalls \in Nat \ {0}
    /\ Writers \subseteq Clients
    /\ Polite \subseteq Clients

VARIABLES open,      \* the indexes that are open
          alias,     \* the indexes of the alias; in which order, does not matter here
          aliasOpen,
          held,      \* mutex -> client -> read locks it holds, its goroutines' included
          announced, \* mutex -> the client that waits to write: empty or one
          readers,   \* index -> readers of it not yet closed
          call,      \* client -> what it is doing
          dict,      \* client -> the field dictionary it has: empty or one
          child,     \* client -> index -> goroutine of a search
          round,     \* client -> the indexes each round of its search went to
          calls,     \* client -> calls made
          met        \* history: clients whose search met a closed index

vars == <<open, alias, aliasOpen, held, announced, readers, call, dict, child, round, calls, met>>

Mutexes == Indexes \cup {Alias}

\* Operations on an index, searches of the alias, and what needs a write lock.
Readers == {"read", "dict"}
Searches == {"search", "single"}
Writes == {"close", "closealias", "swap"}

Idle == [op |-> "none", step |-> "none", on |-> Alias, arg |-> {}]
NoChild == [i \in Indexes |-> "no"]

TypeOK ==
    /\ open \subseteq Indexes
    /\ alias \subseteq Indexes /\ aliasOpen \in BOOLEAN
    /\ held \in [Mutexes -> [Clients -> Nat]]
    /\ announced \in [Mutexes -> SUBSET Clients]
    /\ readers \in [Indexes -> Int]
    /\ call \in [Clients -> [op : {"none"} \cup Readers \cup Searches \cup Writes,
                            step : {"none", "lock", "check", "index", "work", "search", "write"},
                            on : Mutexes, arg : SUBSET Mutexes]]
    /\ dict \in [Clients -> SUBSET [on : Indexes, locks : SUBSET Mutexes]]
    /\ child \in [Clients -> [Indexes -> {"no", "lock", "check", "work", "ok", "closed"}]]
    /\ round \in [Clients -> Seq(SUBSET Indexes)]
    /\ met \subseteq Clients

-----------------------------------------------------------------------------
(* sync.RWMutex (external).                                                *)
CanRead(m) == announced[m] = {}
ReadLocked(c, m) == [held EXCEPT ![m][c] = @ + 1]
ReadUnlocked(c, M) ==
    [m \in Mutexes |-> IF m \in M THEN [held[m] EXCEPT ![c] = @ - 1] ELSE held[m]]
Drained(m) == \A c \in Clients : held[m][c] = 0

At(c, ops, step) == call[c].op \in ops /\ call[c].step = step
To(c, step) == call' = [call EXCEPT ![c].step = step]
Return(c) == call' = [call EXCEPT ![c] = Idle]

world == <<open, alias, aliasOpen>>
search == <<child, round, met>>

Init ==
    /\ open = Indexes
    /\ alias = Members /\ aliasOpen = TRUE
    /\ held = [m \in Mutexes |-> [c \in Clients |-> 0]]
    /\ announced = [m \in Mutexes |-> {}]
    /\ readers = [i \in Indexes |-> 0]
    /\ call = [c \in Clients |-> Idle]
    /\ dict = [c \in Clients |-> {}]
    /\ child = [c \in Clients |-> NoChild]
    /\ round = [c \in Clients |-> <<>>]
    /\ calls = [c \in Clients |-> 0]
    /\ met = {}

-----------------------------------------------------------------------------
(* Calls.  An index is closed by its owner once it is not in the alias any *)
(* more, and one that is closed, or about to be, is not added to it.       *)
Closing == {call[c].on : c \in {d \in Clients : call[d].op = "close"}}
Adding  == UNION {call[c].arg : c \in {d \in Clients : call[d].op = "swap"}}

Begin(c, op, step, on, arg) ==
    /\ call[c] = Idle
    /\ calls[c] < MaxCalls
    /\ c \in Polite => dict[c] = {}
    /\ call' = [call EXCEPT ![c] = [op |-> op, step |-> step, on |-> on, arg |-> arg]]
    /\ calls' = [calls EXCEPT ![c] = @ + 1]
    /\ UNCHANGED <<world, held, announced, readers, dict, search>>

CallRead(c) == \E i \in Indexes : Begin(c, "read", "lock", i, {})
CallSearch(c) == Begin(c, "search", "lock", Alias, {})
CallSingle(c) == Begin(c, "single", "lock", Alias, {})
CallFieldDict(c) == \E m \in Mutexes : dict[c] = {} /\ Begin(c, "dict", "lock", m, {})
CallClose(c) ==
    /\ c \in Writers
    /\ \E i \in open \ (alias \cup Adding \cup Closing) : Begin(c, "close", "lock", i, {})
CallCloseAlias(c) == c \in Writers /\ Begin(c, "closealias", "lock", Alias, {})
CallSwap(c) ==
    /\ c \in Writers
    /\ \E i \in open \ (alias \cup Closing) : Begin(c, "swap", "lock", Alias, {i})

-----------------------------------------------------------------------------
(* Operations on one index, called on it or passed on by the alias.        *)
\* i.mutex.RLock of the index or the alias that was called.
Lock(c) ==
    /\ At(c, Readers \cup Searches, "lock")
    /\ CanRead(call[c].on)
    /\ held' = ReadLocked(c, call[c].on)
    /\ To(c, "check")
    /\ UNCHANGED <<world, announced, readers, dict, search, calls>>

\* if !i.open: ErrorIndexClosed.  Otherwise a reader is opened.
CheckIndex(c) ==
    /\ At(c, Readers, "check") /\ call[c].on # Alias
    /\ IF call[c].on \in open
       THEN /\ readers' = [readers EXCEPT ![call[c].on] = @ + 1]
            /\ To(c, "work")
            /\ UNCHANGED held
       ELSE /\ held' = ReadUnlocked(c, {call[c].on} \cup call[c].arg)
            /\ Return(c)
            /\ UNCHANGED readers
    /\ UNCHANGED <<world, announced, dict, search, calls>>

\* The deferred Close of the reader and RUnlock.
Done(c) ==
    /\ At(c, {"read"}, "work")
    /\ readers' = [readers EXCEPT ![call[c].on] = @ - 1]
    /\ held' = ReadUnlocked(c, {call[c].on})
    /\ Return(c)
    /\ UNCHANGED <<world, announced, dict, search, calls>>

\* FieldDict and its variants return the dictionary, locks and reader in it.
HaveDict(c) ==
    /\ At(c, {"dict"}, "work")
    /\ dict' = [dict EXCEPT ![c] = {[on |-> call[c].on, locks |-> {call[c].on} \cup call[c].arg]}]
    /\ Return(c)
    /\ UNCHANGED <<world, held, announced, readers, search, calls>>

\* The alias, which must have one index, calls FieldDict of that.
CheckAliasDict(c) ==
    /\ At(c, {"dict"}, "check") /\ call[c].on = Alias
    /\ IF aliasOpen /\ Cardinality(alias) = 1
       THEN /\ call' = [call EXCEPT ![c].step = "index"]
            /\ UNCHANGED held
       ELSE held' = ReadUnlocked(c, {Alias}) /\ Return(c)
    /\ UNCHANGED <<world, announced, readers, dict, search, calls>>

LockForAlias(c) ==
    /\ At(c, {"dict"}, "index")
    /\ \E i \in alias :
          /\ CanRead(i)
          /\ held' = ReadLocked(c, i)
          /\ call' = [call EXCEPT ![c] = [op |-> "dict", step |-> "check", on |-> i, arg |-> {Alias}]]
    /\ UNCHANGED <<world, announced, readers, dict, search, calls>>

\* Next and the rest work on the dictionary; Close gives everything back.
CloseDict(c) ==
    /\ call[c] = Idle
    /\ \E d \in dict[c] :
          /\ readers' = [readers EXCEPT ![d.on] = @ - 1]
          /\ held' = ReadUnlocked(c, d.locks)
    /\ dict' = [dict EXCEPT ![c] = {}]
    /\ UNCHANGED <<world, announced, call, search, calls>>

-----------------------------------------------------------------------------
(* Operations of the alias.                                                *)

\* A goroutine for every index; the lock is kept meanwhile.
StartRound(c) ==
    /\ child' = [child EXCEPT ![c] = [i \in Indexes |-> IF i \in alias THEN "lock" ELSE "no"]]
    /\ round' = [round EXCEPT ![c] = Append(@, alias)]

CheckAlias(c) ==
    /\ At(c, Searches, "check")
    /\ IF aliasOpen /\ alias # {} /\ (call[c].op = "single" => Cardinality(alias) = 1)
       THEN StartRound(c) /\ To(c, "search") /\ UNCHANGED held
       ELSE held' = ReadUnlocked(c, {Alias}) /\ Return(c) /\ UNCHANGED <<child, round>>
    /\ UNCHANGED <<world, announced, readers, dict, calls, met>>

ChildTo(c, i, step) == child' = [child EXCEPT ![c][i] = step]
others == <<world, announced, call, dict, round, calls>>

ChildLock(c, i) ==
    /\ child[c][i] = "lock" /\ CanRead(i)
    /\ held' = ReadLocked(c, i)
    /\ ChildTo(c, i, "check")
    /\ UNCHANGED <<others, readers, met>>

ChildCheck(c, i) ==
    /\ child[c][i] = "check"
    /\ IF i \in open
       THEN /\ ChildTo(c, i, "work") /\ readers' = [readers EXCEPT ![i] = @ + 1]
            /\ UNCHANGED <<held, met>>
       ELSE /\ ChildTo(c, i, "closed") /\ held' = ReadUnlocked(c, {i})
            /\ met' = met \cup {c}
            /\ UNCHANGED readers
    /\ UNCHANGED others

ChildDone(c, i) ==
    /\ child[c][i] = "work"
    /\ ChildTo(c, i, "ok")
    /\ readers' = [readers EXCEPT ![i] = @ - 1]
    /\ held' = ReadUnlocked(c, {i})
    /\ UNCHANGED <<others, met>>

RoundOver(c) ==
    /\ At(c, Searches, "search")
    /\ \A i \in Indexes : child[c][i] \in {"no", "ok", "closed"}

\* After a pre-search without errors the search itself.
SecondRound(c) ==
    /\ RoundOver(c) /\ call[c].op = "search"
    /\ Len(round[c]) = 1 /\ Cardinality(alias) > 1
    /\ \A i \in Indexes : child[c][i] # "closed"
    /\ StartRound(c)
    /\ UNCHANGED <<world, held, announced, readers, call, dict, calls, met>>

SearchReturns(c) ==
    /\ RoundOver(c)
    /\ held' = ReadUnlocked(c, {Alias})
    /\ child' = [child EXCEPT ![c] = NoChild]
    /\ round' = [round EXCEPT ![c] = <<>>]
    /\ Return(c)
    /\ UNCHANGED <<world, announced, readers, dict, calls, met>>

-----------------------------------------------------------------------------
(* Operations under the write lock.                                        *)
Announce(c) ==
    /\ At(c, Writes, "lock") /\ announced[call[c].on] = {}
    /\ announced' = [announced EXCEPT ![call[c].on] = {c}]
    /\ To(c, "write")
    /\ UNCHANGED <<world, held, readers, dict, search, calls>>

\* Mutant: the writer does not wait for the readers inside.
ExclusiveAtOnce(c, op) == At(c, {op}, "write")
Exclusive(c, op) == At(c, {op}, "write") /\ Drained(call[c].on)
Unlock(c) ==
    /\ announced' = [announced EXCEPT ![call[c].on] = {}]
    /\ Return(c)
    /\ UNCHANGED <<held, readers, dict, search, calls>>

\* Mutant: Close returns early without Unlock.
CloseKeepsLock(c) ==
    /\ Exclusive(c, "close")
    /\ open' = open \ {call[c].on}
    /\ Return(c)
    /\ UNCHANGED <<alias, aliasOpen, announced, held, readers, dict, search, calls>>

Close(c) ==
    /\ Exclusive(c, "close")
    /\ open' = open \ {call[c].on}
    /\ Unlock(c)
    /\ UNCHANGED <<alias, aliasOpen>>

CloseAlias(c) ==
    /\ Exclusive(c, "closealias")
    /\ aliasOpen' = FALSE
    /\ Unlock(c)
    /\ UNCHANGED <<open, alias>>

\* One index added, any of the others removed (Add, Remove and Swap).
Swap(c) ==
    /\ Exclusive(c, "swap")
    /\ \E out \in SUBSET alias : alias' = (alias \cup call[c].arg) \ out
    /\ Unlock(c)
    /\ UNCHANGED <<open, aliasOpen>>

Continue(c) ==
    \/ Lock(c) \/ CheckIndex(c) \/ Done(c) \/ HaveDict(c)
    \/ CheckAliasDict(c) \/ LockForAlias(c) \/ CloseDict(c)
    \/ CheckAlias(c) \/ SecondRound(c) \/ SearchReturns(c)
    \/ Announce(c) \/ Close(c) \/ CloseAlias(c) \/ Swap(c)
    \/ \E i \in Indexes : ChildLock(c, i) \/ ChildCheck(c, i) \/ ChildDone(c, i)

Calls(c) ==
    \/ CallRead(c) \/ CallSearch(c) \/ CallSingle(c) \/ CallFieldDict(c)
    \/ CallClose(c) \/ CallCloseAlias(c) \/ CallSwap(c)

Next == \E c \in Clients : Calls(c) \/ Continue(c)

\* Goroutines run on when they can, and a caller closes its dictionary.
Fairness == \A c \in Clients :
    /\ WF_vars(Continue(c))
    /\ \A i \in Indexes : WF_vars(ChildLock(c, i)) /\ WF_vars(ChildCheck(c, i)) /\ WF_vars(ChildDone(c, i))

Spec == Init /\ [][Next]_vars /\ Fairness

-----------------------------------------------------------------------------
Using(c, i) ==
    \/ At(c, Readers, "work") /\ call[c].on = i
    \/ child[c][i] = "work"
    \/ \E d \in dict[c] : d.on = i

\* Nobody works on an index that has been closed: not a direct call, not a
\* goroutine of a search, and not a field dictionary kept across calls.
NoUseAfterClose == \A c \in Clients, i \in Indexes : Using(c, i) => i \in open

\* An index that is closed only after it has been swapped out of the alias is
\* never met closed by a search of the alias: Swap comes back only when the
\* searches that still use the index are over.
SwappedOutThenClosed == met = {}

\* The pre-search and the search go to the same indexes, whatever is added,
\* removed and swapped meanwhile.
RoundsAgree == \A c \in Clients : Len(round[c]) = 2 => round[c][1] = round[c][2]

\* Locks are held for a call or for a dictionary, never left behind.
LocksReturned ==
    \A c \in Clients : call[c] = Idle /\ dict[c] = {} => \A m \in Mutexes : held[m][c] = 0

\* What users of open indexes and of an alias can rely on.
HandlesSafe == NoUseAfterClose /\ SwappedOutThenClosed /\ RoundsAgree /\ LocksReturned

\* A change of the indexes of an alias comes back, whatever other goroutines
\* are doing.
SwapsReturn == \A c \in Clients : call[c].op = "swap" ~> call[c] = Idle

\* Every call comes back.
CallsReturn == \A c \in Clients : call[c] # Idle ~> call[c] = Idle
=============================================================================
