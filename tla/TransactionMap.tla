---------------------------- MODULE TransactionMap ----------------------------
(***************************************************************************)
(* ProfilingCommons/ProfileMap/TransactionMap: one open transaction per    *)
(* key.  A key in use has a reference counted TransactionHolder in         *)
(* open_transaction_map; its lock_ is an AsyncMutex (here the lock that    *)
(* ExclusiveLock specifies, which AsyncMutex implements) and its           *)
(* lock_count_ is the number of requests that hold or want the lock.       *)
(* Lookup, creation and removal of a holder happen under the mutex of the  *)
(* map portion and are single steps; lock_ and lock_count_ are touched     *)
(* outside it.  A holder that is freed can be allocated again, for any     *)
(* key: the same element of Holders.                                       *)
(***************************************************************************)
EXTENDS Clients, Integers, FiniteSets, SequencesExt

\* Threads call get_transaction(), Coros co_get_transaction().
CONSTANTS Unchecked,    \* the callers that pass check_max_waiters = false
          Keys,
          Holders,      \* addresses of TransactionHolder objects
          MaxWaiters,   \* max_waiters_, 0 for no limit
          None          \* no holder, no client

ASSUME TransactionMapAssumption ==
  /\ Threads \cap Coros = {}
  /\ IsFiniteSet(Clients)
  /\ MaxWaiters \in Nat
  /\ None \notin Holders \cup Clients

VARIABLES openMap,    \* open_transaction_map, None for a missing key
          refs,       \* reference count of each holder, 0 when freed
          hkey,       \* key_ of each holder
          lockCount,  \* lock_count_
          owner,      \* owner of lock_
          queue,      \* coroutines registered at lock_
          pc,         \* where each client is
          holder      \* the holder each client works with

mapVars == <<openMap, refs, hkey, lockCount, owner, queue, pc, holder>>

\* "idle"       no request
\* "rejected"   MaxWaitersReached, the local reference is still held
\* "locking"    holds a reference and wants the lock
\* "waiting"    a coroutine registered at lock_
\* "granted"    owns the lock, the transaction is not constructed yet
\* "returning"  transaction constructed, the local reference not yet dropped
\* "open"       the caller has the transaction
\* "closing"    ~TransactionBase has decremented lock_count_
\* "unlocked"   and has released lock_; holder_ is not yet dropped
\* "unlinked"   a destroyed coroutine, its waiter unlinked
\* "cancelled"  and its request taken out of lock_count_
Pc == {"idle", "rejected", "locking", "waiting", "granted", "returning",
       "open", "closing", "unlocked", "unlinked", "cancelled"}

MapInit ==
  /\ openMap = [k \in Keys |-> None]
  /\ refs = [h \in Holders |-> 0]
  /\ hkey \in [Holders -> Keys]
  /\ lockCount = [h \in Holders |-> 0]
  /\ owner = [h \in Holders |-> None]
  /\ queue = [h \in Holders |-> <<>>]
  /\ pc = [c \in Clients |-> "idle"]
  /\ holder = [c \in Clients |-> None]

-----------------------------------------------------------------------------
(* The critical section of get_transaction() and co_get_transaction().     *)

\* No holder for the key.  get_transaction() constructs the transaction, with
\* a reference and the free lock of its own, before it inserts the holder;
\* co_get_transaction() only inserts the holder and then asks for the lock.
CreateHolder(c, k, h) ==
  /\ pc[c] = "idle"
  /\ openMap[k] = None
  /\ refs[h] = 0
  /\ openMap' = [openMap EXCEPT ![k] = h]
  /\ hkey' = [hkey EXCEPT ![h] = k]
  /\ lockCount' = [lockCount EXCEPT ![h] = 1]
  /\ queue' = [queue EXCEPT ![h] = <<>>]
  /\ holder' = [holder EXCEPT ![c] = h]
  /\ IF c \in Threads
       THEN /\ refs' = [refs EXCEPT ![h] = 2]
            /\ owner' = [owner EXCEPT ![h] = c]
            /\ pc' = [pc EXCEPT ![c] = "returning"]
       ELSE /\ refs' = [refs EXCEPT ![h] = 1]
            /\ owner' = [owner EXCEPT ![h] = None]
            /\ pc' = [pc EXCEPT ![c] = "locking"]

Full(c, h) == c \notin Unchecked /\ MaxWaiters # 0 /\ lockCount[h] >= MaxWaiters

Reject(c, k) ==
  /\ pc[c] = "idle"
  /\ openMap[k] # None
  /\ Full(c, openMap[k])
  /\ refs' = [refs EXCEPT ![openMap[k]] = @ + 1]
  /\ holder' = [holder EXCEPT ![c] = openMap[k]]
  /\ pc' = [pc EXCEPT ![c] = "rejected"]
  /\ UNCHANGED <<openMap, hkey, lockCount, owner, queue>>

\* Mutant: the limit is tested with > instead of >=.
JoinHolderOffByOne(c, k) ==
  /\ pc[c] = "idle"
  /\ openMap[k] # None
  /\ ~(c \notin Unchecked /\ MaxWaiters # 0 /\ lockCount[openMap[k]] > MaxWaiters)
  /\ refs' = [refs EXCEPT ![openMap[k]] = @ + 1]
  /\ lockCount' = [lockCount EXCEPT ![openMap[k]] = @ + 1]
  /\ holder' = [holder EXCEPT ![c] = openMap[k]]
  /\ pc' = [pc EXCEPT ![c] = "locking"]
  /\ UNCHANGED <<openMap, hkey, owner, queue>>

JoinHolder(c, k) ==
  /\ pc[c] = "idle"
  /\ openMap[k] # None
  /\ ~Full(c, openMap[k])
  /\ refs' = [refs EXCEPT ![openMap[k]] = @ + 1]
  /\ lockCount' = [lockCount EXCEPT ![openMap[k]] = @ + 1]
  /\ holder' = [holder EXCEPT ![c] = openMap[k]]
  /\ pc' = [pc EXCEPT ![c] = "locking"]
  /\ UNCHANGED <<openMap, hkey, owner, queue>>

-----------------------------------------------------------------------------
(* Taking the lock and constructing the transaction, outside the mutex.    *)

\* Mutant: the transaction is constructed without waiting for the lock.
TakeLockBlind(c) ==
  /\ pc[c] = "locking"
  /\ owner' = [owner EXCEPT ![holder[c]] = c]
  /\ pc' = [pc EXCEPT ![c] = "granted"]
  /\ UNCHANGED <<openMap, refs, hkey, lockCount, queue, holder>>

TakeLock(c) ==
  /\ pc[c] = "locking"
  /\ owner[holder[c]] = None
  /\ queue[holder[c]] = <<>>
  /\ owner' = [owner EXCEPT ![holder[c]] = c]
  /\ pc' = [pc EXCEPT ![c] = "granted"]
  /\ UNCHANGED <<openMap, refs, hkey, lockCount, queue, holder>>

RegisterWaiter(c) ==
  /\ c \in Coros
  /\ pc[c] = "locking"
  /\ owner[holder[c]] # None
  /\ queue' = [queue EXCEPT ![holder[c]] = Append(@, c)]
  /\ pc' = [pc EXCEPT ![c] = "waiting"]
  /\ UNCHANGED <<openMap, refs, hkey, lockCount, owner, holder>>

\* The transaction holds a reference of its own.  (TransactionBase takes it
\* before it blocks on the lock; the caller's local reference covers both.)
CreateTransaction(c) ==
  /\ pc[c] = "granted"
  /\ refs' = [refs EXCEPT ![holder[c]] = @ + 1]
  /\ pc' = [pc EXCEPT ![c] = "returning"]
  /\ UNCHANGED <<openMap, hkey, lockCount, owner, queue, holder>>

-----------------------------------------------------------------------------
(* remove_ref_no_delete_(): the reference is dropped under the mutex of    *)
(* the portion and the last one erases the key's entry.                    *)

\* Mutant: the last reference leaves the key's entry in the map.
RemoveRefKeepsEntry(h) ==
  /\ refs' = [refs EXCEPT ![h] = @ - 1]
  /\ UNCHANGED openMap

RemoveRef(h) ==
  /\ refs' = [refs EXCEPT ![h] = @ - 1]
  /\ openMap' = IF refs[h] = 1 THEN [openMap EXCEPT ![hkey[h]] = None] ELSE openMap

\* The caller's local reference goes after the transaction was returned.
Return(c) ==
  /\ pc[c] = "returning"
  /\ RemoveRef(holder[c])
  /\ pc' = [pc EXCEPT ![c] = "open"]
  /\ UNCHANGED <<hkey, lockCount, owner, queue, holder>>

\* The end of a rejected or cancelled request.
GiveUp(c) ==
  /\ pc[c] \in {"rejected", "cancelled"}
  /\ RemoveRef(holder[c])
  /\ pc' = [pc EXCEPT ![c] = "idle"]
  /\ holder' = [holder EXCEPT ![c] = None]
  /\ UNCHANGED <<hkey, lockCount, owner, queue>>

\* A coroutine is destroyed while it waits: the awaiter unlinks its waiter and
\* then LockCountGuard takes the request out of the count.
CancelWaiter(c) ==
  /\ pc[c] = "waiting"
  /\ \E i \in 1..Len(queue[holder[c]]) :
       /\ queue[holder[c]][i] = c
       /\ queue' = [queue EXCEPT ![holder[c]] = RemoveAt(@, i)]
  /\ pc' = [pc EXCEPT ![c] = "unlinked"]
  /\ UNCHANGED <<openMap, refs, hkey, lockCount, owner, holder>>

CancelCount(c) ==
  /\ pc[c] = "unlinked"
  /\ lockCount' = [lockCount EXCEPT ![holder[c]] = @ - 1]
  /\ pc' = [pc EXCEPT ![c] = "cancelled"]
  /\ UNCHANGED <<openMap, refs, hkey, owner, queue, holder>>

(* ~TransactionBase: lock_count_, then locker_, then holder_. *)

CloseCount(c) ==
  /\ pc[c] = "open"
  /\ lockCount' = [lockCount EXCEPT ![holder[c]] = @ - 1]
  /\ pc' = [pc EXCEPT ![c] = "closing"]
  /\ UNCHANGED <<openMap, refs, hkey, owner, queue, holder>>

\* Mutant: the lock is freed and the oldest waiter is not resumed.
CloseUnlockFrees(c) ==
  /\ pc[c] = "closing"
  /\ owner' = [owner EXCEPT ![holder[c]] = None]
  /\ pc' = [pc EXCEPT ![c] = "unlocked"]
  /\ UNCHANGED <<openMap, refs, hkey, lockCount, queue, holder>>

CloseUnlock(c) ==
  /\ pc[c] = "closing"
  /\ LET q == queue[holder[c]]
     IN  IF q = <<>>
           THEN /\ owner' = [owner EXCEPT ![holder[c]] = None]
                /\ pc' = [pc EXCEPT ![c] = "unlocked"]
                /\ UNCHANGED queue
           ELSE /\ owner' = [owner EXCEPT ![holder[c]] = Head(q)]
                /\ queue' = [queue EXCEPT ![holder[c]] = Tail(q)]
                /\ pc' = [pc EXCEPT ![c] = "unlocked", ![Head(q)] = "granted"]
  /\ UNCHANGED <<openMap, refs, hkey, lockCount, holder>>

CloseRelease(c) ==
  /\ pc[c] = "unlocked"
  /\ RemoveRef(holder[c])
  /\ pc' = [pc EXCEPT ![c] = "idle"]
  /\ holder' = [holder EXCEPT ![c] = None]
  /\ UNCHANGED <<hkey, lockCount, owner, queue>>

-----------------------------------------------------------------------------

GetTransaction(c) ==
  \E k \in Keys : (\E h \in Holders : CreateHolder(c, k, h)) \/ Reject(c, k) \/ JoinHolder(c, k)

\* Every step but the start of a close, which is up to the user.
Progress(c) ==
  \/ TakeLock(c) \/ RegisterWaiter(c) \/ CreateTransaction(c)
  \/ Return(c) \/ CancelCount(c) \/ GiveUp(c)
  \/ CloseUnlock(c) \/ CloseRelease(c)

MapNext ==
  \E c \in Clients :
    \/ GetTransaction(c) \/ Progress(c) \/ CancelWaiter(c) \/ CloseCount(c)

MapSpec == MapInit /\ [][MapNext]_mapVars

\* Calls go on and users close their transactions.
MapFairness == \A c \in Clients : WF_mapVars(Progress(c)) /\ WF_mapVars(CloseCount(c))

MapFairSpec == MapSpec /\ MapFairness

-----------------------------------------------------------------------------
(* Properties *)

MapTypeOK ==
  /\ openMap \in [Keys -> Holders \cup {None}]
  /\ refs \in [Holders -> Nat]
  /\ hkey \in [Holders -> Keys]
  /\ lockCount \in [Holders -> Int]
  /\ owner \in [Holders -> Clients \cup {None}]
  /\ queue \in [Holders -> Seq(Coros)]
  /\ pc \in [Clients -> Pc]
  /\ holder \in [Clients -> Holders \cup {None}]

HasLock == {"granted", "returning", "open", "closing"}

\* Only one transaction exists for a key: "TransactionMap must guarantee that
\* only one Transaction object can be created for each key".
OneTransactionPerKey ==
  \A c, d \in Clients :
    /\ c # d
    /\ pc[c] \in HasLock /\ pc[d] \in HasLock
    => hkey[holder[c]] # hkey[holder[d]]

\* Who works with a holder works with the one that is in the map under its
\* key: a holder is never used after it was erased and freed, and no second
\* holder, with a second lock, is created for a key that is in use.
HolderInMap ==
  \A c \in Clients :
    pc[c] # "idle" =>
      /\ refs[holder[c]] > 0
      /\ openMap[hkey[holder[c]]] = holder[c]

\* An entry goes with its last user: no holder is left in the map, and none
\* is allocated, when there is no request and no transaction on it, and no
\* entry of the map points to a holder that was freed.
NoHolderLeak ==
  /\ \A k \in Keys : openMap[k] # None => refs[openMap[k]] > 0 /\ hkey[openMap[k]] = k
  /\ \A h \in Holders :
       refs[h] > 0 => /\ openMap[hkey[h]] = h
                      /\ \E c \in Clients : pc[c] # "idle" /\ holder[c] = h

Counts == {"locking", "waiting", "granted", "returning", "open", "unlinked"}

\* The clients that work with a holder and are at one of the given places.
ClientsAt(P, h) == {c \in Clients : pc[c] \in P /\ holder[c] = h}

UsersAt(h) == ClientsAt(Pc \ {"idle"}, h)
ReturningAt(h) == ClientsAt({"returning"}, h)
CountedAt(h) == ClientsAt(Counts, h)

\* A request has one reference to its holder, and a second one, which belongs to
\* the transaction, until the local one is dropped; lock_count_ is exact.
CountersExact ==
  \A h \in Holders :
    /\ refs[h] = Cardinality(UsersAt(h)) + Cardinality(ReturningAt(h))
    /\ lockCount[h] = Cardinality(CountedAt(h))

\* The owner of a holder's lock_ is the client whose transaction it guards, and
\* its waiters are different coroutines that wait for it.
LockExact ==
  /\ \A c \in Clients : pc[c] = "idle" <=> holder[c] = None
  /\ \A h \in Holders, c \in Clients : owner[h] = c <=> holder[c] = h /\ pc[c] \in HasLock
  /\ \A h \in Holders : \A i \in 1..Len(queue[h]) :
       /\ pc[queue[h][i]] = "waiting" /\ holder[queue[h][i]] = h
       /\ \A j \in 1..Len(queue[h]) : queue[h][i] = queue[h][j] => i = j

\* The map, the holders and the transactions agree: the parts above, which
\* together are inductive.
MapInv ==
  MapTypeOK /\ OneTransactionPerKey /\ HolderInMap /\ NoHolderLeak /\ CountersExact /\ LockExact

\* lock_count_ follows the requests although it is raised under the mutex of
\* the portion and lowered outside it, by closed transactions and destroyed
\* coroutines: a request that asked for the check is admitted only while at
\* most max_waiters_ requests, itself included, hold or want the key, and is
\* refused only when max_waiters_ do.
WaitersBound ==
  [][\A c \in Clients \ Unchecked :
       pc[c] = "idle" /\ MaxWaiters # 0 =>
         /\ pc'[c] \in Counts => Cardinality(CountedAt(holder[c])') <= MaxWaiters
         /\ pc'[c] = "rejected" => Cardinality(CountedAt(holder'[c])) >= MaxWaiters]_mapVars

\* A coroutine that waits for a transaction gets it, or is destroyed.
WaiterGetsTransaction ==
  \A c \in Coros : pc[c] = "waiting" ~> pc[c] \in {"open", "unlinked"}

=============================================================================
