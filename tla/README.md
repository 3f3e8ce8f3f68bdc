# Formal models of the RTB ad server

TLA+ models of the parts of this repository on which the integrity of user and
request profiles, of log processing and of budgets rests: the asynchronous
storage of profiles, the way of a log file from its delivery to its last record,
and the confirmation of amounts by the billing servers, with the concurrency
primitives below them.  TLC checks the models on small instances; TLAPS proves every
safety property that the passing runs check, invariants, action properties and the
three refinements, for every value of the constants.  Liveness is model-checked.

All paths are relative to the repository's root (`src/`).

## 1. The system

The server is a set of C++ daemons around an ad frontend.

| Part | State it keeps | Operations | Talks to |
|---|---|---|---|
| Frontends (`Frontends/`) | configuration, connection pools | HTTP requests, bids, clicks, pixels | CampaignManager, UserInfoManager, UserBindServer, ChannelServer |
| CampaignServer / CampaignManager (`CampaignSvcs/`) | campaign configuration, indices | load and swap configuration, select creatives | database, BillingServer, log files |
| BillingServer (`CampaignSvcs/BillingServer`) | budgets and spent amounts per account, campaign, group | check, reserve, confirm, dump and load | CampaignManager |
| ChannelSvcs, ChannelSearchSvcs | trigger dictionaries | match, update sessions | CampaignServer |
| UserInfoManager (`UserInfoSvcs/UserInfoManager`) | user profiles: base, history, frequency caps | match, fraud, confirm, merge, remove | profile maps |
| UserBindServer (`UserInfoSvcs/UserBindServer`) | external id to user id chunks | get, add, save, load | files, RocksDB |
| RequestInfoManager (`RequestInfoSvcs/RequestInfoManager`) | request, passback, tag, action profiles | process log records, regroup, emit statistics | profile maps, log files |
| ExpressionMatcher (`RequestInfoSvcs/ExpressionMatcher`) | inventory, trigger match, household profiles | process log records | profile maps, log files |
| LogCommons, LogProcessing | log files in input, intermediate, error folders | collect, rotate, fetch, sort, transfer, upload | file system, database, Kafka |
| ProfilingCommons/ProfileMap | key to profile maps over RocksDB; transactions | get, check, save, touch, remove, transaction, close | RocksDB |
| Commons | gate, mutex, lock map, task window, caches, schedulers, gRPC batching, Kafka producer | | everything |
| Plain | structure descriptions | compiler to C++ readers and writers | build time |
| Predictor, Utils, bin, DACS, ConfigSys, CMS, RPM | | offline tools, control scripts, packaging | |

What is hard here.  Profiles are read, changed and written by coroutines and
threads at the same time; what keeps them consistent is a chain of four
components, each of which relies on the promise of the one below:

```
 containers (UserInfoContainer, RequestInfoContainer, ...)
        | read, change, save under a transaction
 TransactionProfileMap --- TransactionMap --- AsyncMutex (one lock per key)
        | asynchronous get/save/remove with callbacks
 RocksDBBatchingProfileMap --- ActivityGate (open / close / wait)
        | enqueue                    ^ batches, callbacks
 RocksDBBatchingProcessorQueue <-- RocksDBProfileMapProcessor (worker threads)
        |
     RocksDB
```

Log files reach RequestInfoManager and the other log processors through
FileReceiver, which moves them from the input into the intermediate directory and
gives them out eldest first, and, where there are several kinds of logs,
FileReceiverFacade, which finds the eldest file of several receivers.  Their
records reach the containers through RequestLogLoader and OrderedAsyncTaskWindow,
which processes the records of a file concurrently and must still know, after a
failure, a stop or a crash, how many records from the beginning are done.  The
amounts of the records are collected by BillingProcessor and confirmed by the
BillingServers, each of which has a share of every budget:

```
 input directory --> FileReceiver --> FileReceiverFacade --> RequestLogLoader
                                                                  | records
 BillingServer  <-- add_amount() -- BillingProcessor <-- RequestInfoContainer
 (BillingContainer)                 (RequestPool, Sender)
```

Nearly all of the state in this chain is touched without one
common lock, so that the order of single atomic accesses matters; callbacks come
back on other threads; objects are closed while calls are under way.  Those are
the hazards that `PROJECT.json` lists by line.

## 2. The modules

| Module | Models | Kind |
|---|---|---|
| `ActivityGate` | `Commons/ActivityGate` | component |
| `ExclusiveLock` | what a lock with a queue promises | abstract specification |
| `AsyncMutex` | `Commons/AsyncMutex`, implements `ExclusiveLock` | component |
| `TransactionMap` | `ProfileMap/TransactionMap.hpp`, over the lock `ExclusiveLock` describes | component |
| `AtomicProfiles` | profiles that are changed atomically | abstract specification |
| `TransactionProfileMap` | `ProfileMap/TransactionProfileMap.hpp`, extends `TransactionMap`, implements `AtomicProfiles` | composition |
| `BatchingQueue` | what `RocksDBBatchingProcessorQueue` takes out of its buckets | pure operators |
| `ProfileStore` | what the batching map promises to its callers | abstract specification |
| `RocksDBProfileMap` | `RocksDBBatchingProfileMap`, `RocksDBBatchingProcessorQueue`, `RocksDBProfileMapProcessor` and the gate's promise; implements `ProfileStore` | composition |
| `OrderedAsyncTaskWindow` | `Commons/OrderedAsyncTaskWindow` | component |
| `RecordLoader` | `LogRecordFetcher` of `RequestLogLoader.cpp`, extends the window | composition |
| `BackgroundError` | the recovery of `RocksDBBatchingProfileMap` from errors of its database | component |
| `FileReceiver` | `LogCommons/FileReceiver` and `FileThreadProcessor` | component |
| `FileReceiverFacade` | `LogCommons/FileReceiverFacade.hpp` over what a receiver promises | component |
| `BillingRequestPool` | `RequestInfoManager/BillingProcessor.cpp`: `RequestPool`, `Sender`, the delayed requests, the dump | component |
| `BillingContainer` | `BillingServer/BillingContainer.cpp`, `BillingContainerState.cpp`: confirmation of bids, `stat()` | component |
| `Clients` | the threads and coroutines that ask for locks and transactions | constants |
| `Sums` | sums over finite sets | pure operators |
| `NumberTheorems` | least and greatest elements, induction over a finite set, sums | lemmas |
| `BackgroundError_proofs` | about `BackgroundError` and the gate it closes, `ActivityGate` | theorems |
| `TransactionProfileMap_proofs` | about `TransactionProfileMap`, `TransactionMap` and the lock of a holder, `AsyncMutex` | theorems |
| `RocksDBProfileMap_proofs` | about `RocksDBProfileMap` with its queue | theorems |
| `RecordLoader_proofs` | about `RecordLoader`, its window, and `FileReceiverFacade`, which gives it files | theorems |
| `FileReceiver_proofs` | about `FileReceiver` | theorems |
| `BillingRequestPool_proofs` | about `BillingRequestPool` | theorems |
| `BillingContainer_proofs` | about `BillingContainer` | theorems |
| `MC*` | | instances for TLC |

Variables carry the names of the members they stand for, without the trailing
underscore, and actions the names of the functions.  A function that touches
shared atomics outside a lock is split into one action per access; what the code
does under one lock is one action.  Where a lock is held over accesses to atomics
that others change without it (the gate's mutex, the queue's `state_lock_`), the
lock is a variable.  `PROJECT.json` gives the source lines of every definition.
An operator whose comment begins with "Mutant" is not part of a specification: it
is a version of the definition below it with a plausible mistake, used to show
that a property notices it.

### ActivityGate

`closed`, `running` and `waiters` are the three atomics; `mutex`, `asleep` and
`state` belong to `Generics::SimpleActiveObject`, which is in another repository
and is modelled from its use: it calls `activate_object_()`,
`deactivate_object_()` and `wait_more_()` under the mutex of `cond_` and
broadcasts when it is deactivated.  `enter()` is three steps (load, add, load),
`leave_()` up to four.  The owner may activate, close and wait again and again,
because the map's error recovery does so in a running server.

Atomic accesses interleave sequentially consistently.  The code uses acquire and
release orders; what a weaker memory would allow is not modelled.

### AsyncMutex

Threads block on a condition variable, coroutines queue.  `unlock_()` passes the
lock to the oldest coroutine without freeing it ("granted" until it is resumed),
or frees it and calls `notify_one()` after the critical section (the "notifying"
step in between is where wakeups could get lost).  Spurious wakeups and the
destruction of queued coroutines may happen at any time.

### TransactionMap and TransactionProfileMap

A holder is an address from `Holders`; freeing it makes the address available for
any key, so that a use after free shows as a wrong key, a wrong lock or a missing
entry.  The lookup, refusal and creation under the portion's mutex is one step;
taking the lock, constructing the transaction, dropping references and the three
stages of `~TransactionBase` are others.  In `TransactionProfileMap` a profile is
the set of the clients whose changes it contains.  A save is applied some time
after it was submitted and its callback runs later; the base map may fail.
The transaction lives as long as its user or the callback of
`save_profile_async()` holds it.  Besides reading and then saving, a user may save or
remove without having read, as the map's own `save_profile()` and `remove_profile()` do;
a profile saved like that has nobody's changes.

### RocksDBProfileMap

One map, a set of operations, each submitted once, workers, and the owner.  A
submission enters the gate, counts itself in `pending_operations_`, inserts into
its bucket, asks `request_ready_i_()` for a publication and applies it to the
processor's ready index: five steps.  A worker's cycle has some fifteen: sleep or
take the map from the index, collect under `state_lock_`, subtract, publish again,
read or write, submit touches through the gate, call back, complete, publish,
finish.  The ready index is "no", "later" (the map's `ready_time` is ahead) or
"now"; `clock` orders the enqueue times.  The gate is here what `ActivityGate`
promises: `open`, and a wait that ends when nobody is inside.  Reads choose freely
which profiles they touch, because whether a touch is due depends on the age of a
profile, which is not modelled.  A write that fails shuts the gate, as
`set_background_error_()` does; what happens then is the next module's.

### BackgroundError

The flag, the retry time and the generation of the error, the gate, a count of
waiting operations, and where each caller, worker and the owner is in
`check_background_error_()` and around it.  The critical sections of `error_lock_`
are single steps; the waits for the gate and for the queue, `DB::Resume()` and the
reopening are steps in between, so that failures, other probes and
`deactivate_object()` may come at each point.  Time is relative.  Callbacks on a
worker's thread, of a batch that succeeded or failed, may submit, and then probe there.

### OrderedAsyncTaskWindow and RecordLoader

The window's ring, counters and notifications, one step for each critical section.
The loader's pass over a file with its exits: end of file, stop, failure, an
unreadable file, a failing rename or unlink.  The file's name keeps the number of
processed lines; `Restart` loses everything but the file and its name, at any
moment.  A file in the error folder may be put back by somebody.

### FileReceiver and FileReceiverFacade

Three directories' worth of files (plain, with the suffix `C` and its commit file,
intermediate), the four sets of names that the receiver keeps under
`files_lock_`, the scan of the directory entry by entry, with the freedom
`readdir()` has about files that come and go, the fetch thread and the pool's
threads.  Names are numbers, eldest first.  A process that aborts or ends is
started again.  The facade keeps holders ordered by the key of their eldest file;
what a consumer reads from a receiver and what it does with the holder afterwards
are different steps, and so are a new file and its report.

### BillingRequestPool

One amount stands for the four of a request, which the code treats alike; amounts have
either sign, since fraud and corrected clicks are taken back.  An adder divides a request over the servers, one critical
section per server; a sender takes a server out of the list, takes up to
`MaxBatch` requests, calls, and moves on what was refused: a request refused for
the first time goes to the first other active server, for the second time to the
servers behind, and then to the delayed ones.  A server that cannot be reached is
put aside until its timer.  An orderly stop saves everything, and the next process
loads it.  The last dump may fail (`WriteFile`): `dump_()` logs the error and the stop
goes on, with the file of an earlier dump on disk or none.  Servers with the same first
time may be listed in any order.

### BillingContainer

A bid passes the account, the campaign and the group, one critical section each,
and is taken back or cut at the levels before when a later one refuses or cuts it,
through the shares of `recalc_remind_amounts_()` with their rounding (`Scale`).
Amounts are kept per day with the sum of the days before; `stat()` replaces the
days before `EndDay` by those of the database, one kind of entity after the other and
each in portions, while bids run.  The portions are any sets of entities, which includes
those the code makes of 100 keys in order; what that order decides, whether an entity
that appeared between two portions is replaced or passed over, is left open.  All levels have one time zone; impressions and clicks are one
count; the optimisation by click rate is reduced to the impressions it is told;
forced bids are on entities the configuration knows.

## 3. The runs

| Run | Instance | Question | States |
|---|---|---|---|
| `gate` | 2 threads, 1 watcher, owner | does a closed gate drain, is no sleeper forgotten, does the wait return? | 3,251 |
| `mutex` | 2 threads, 3 coroutines | one owner, no overtaking of queued coroutines, no forgotten waiter; refines `ExclusiveLock` | 1,386 |
| `profiles` | 1 thread, 2 coroutines, 1 key, 2 holders, limit 2 | the map and its holders agree, the limit counts what it should, no update is lost, also when the saver drops its transaction at once and when the base map fails; every waiter is served | 32,346 |
| `store` | save, get, remove of one key; 2 workers | do batches of a key exclude each other? refines `ProfileStore` | 1,835,174 |
| `store_live` | save, get of one key; 2 workers; delays, failing reads and writes | are the counts exact and the queue drained when the wait returns, is every operation answered once, does the wait return? | 112,838 |
| `store_shared` | 1 save; 2 workers of a shared processor | is nobody in the map when its wait has returned? (violated, see 5) | counterexample |
| `loader` | 5 records, window 3, wake threshold 2 | the ring, the committed prefix, no lost record, an orderly stop, the end of a pass | 22,354 |
| `recovery` | 2 callers, 1 worker, owner; retry period 2, 2 waiting operations | is the gate open exactly when the map is healthy, is an error taken back only by a later `Resume()`, do calls return? | 83,258 |
| `receiver` | 2 files, 2 threads, room for 1 name, 1 fault | is no file lost, given out twice or forgotten, does the eldest go first, is everything processed, does a stop end? | 90,034 |
| `facade` | 2 receivers, 2 consumers, 1 adding thread, 2 files, 1 put back | is no receiver stranded or ranked late, does nobody sleep in vain, is every file taken? | 143,448 |
| `billing_pool` | 3 servers, 1 sender, 1 adder, the delayer; 1 unreachable call or failed dump, 1 stop and restart | is no amount lost or counted twice, do refused requests come to rest, does a stop end? | 192,751 |
| `bids` | 2 threads, 5 kinds of bids, 3 calls, 1 `stat()`; 4 days, 2 groups | do budgets hold, do levels and answers agree, do the sums of the days stay chained? | 722,492 |

The named parts of `MapInv`, `ProfileInv`, `DrainInv`, `RecoveryInv`, `ReceiverInv`,
`ReceiverLive`, `FacadeInv`, `FacadeLive`, `PoolInv`, `BudgetInv` and `AnswersAgree` are
the properties; the conjunctions are what the configurations name.

Why these bounds are enough to be interesting.  In the gate the races are between
one thread that enters, one that leaves, and the sleepers, of which there are two
kinds: the owner and a watcher.  Three coroutines make a queue in which the
middle one can be cancelled, and two threads make one that sleeps while another is
woken.  In `profiles` two coroutines queue behind a thread and the thread is the
one that the limit of two refuses; two holders let a key come back under another
address.  In the store, one key is the hardest case (reads, writes and touches
exclude each other) and two workers are needed for it; how batches of several keys
are put together (`BatchingQueue`) is in the model and not in these instances.
Five records in a window of three wrap the ring around with an old
and a new task in neighbouring slots, and a threshold of two is passed with and
without the client asleep.  With a retry period of 2 a probe may end in time or
outlast the period and overlap the next one.  With room for one name, two files
are enough for a file that is only remembered by `oldest_not_in_files_`; the one
fault is a file put back, one sent again, or a restart at any moment.  Three
billing servers are the fewest with which a request can be refused, moved and
refused again and still find a server.  The pool's one request takes
an amount back, -1, which does not divide by three and so leaves a remainder; with one
stop, the file that a failed dump leaves is the empty one of the first start.
`PoolHolds` covers the rest: amounts of both signs at once and files of earlier dumps.
The bids are chosen so that a budget is
passed by a part of a bid, the rounded share differs from the exact one, one day is
replaced by `stat()` and two are kept.  The bounds (`Ops`, `MaxPending`,
`MaxFaults`, `MaxRevert`, `MaxAdds`, `MaxFails`, `MaxStops`, `MaxBids`, `MaxStats`) limit
what the environment does; the program's own counters need none.  The runs of the
store, the files and the pool do not check for deadlock: there, when everything is
done and the threads have ended, nothing is left to do, and their liveness
properties ask for the right kind of progress.

Symmetry is used only in runs without liveness properties: workers in `store`,
threads in `bids`.

### Properties worth knowing

* `Drained`, `NoLostWakeup`, `WaitTerminates`: what makes it safe to destroy what
  the gate protects, and what makes the destruction happen.
* `NoBarging`, `WaiterServed`, `FreeLockTaken`: coroutines are served in order,
  and a notification that is used up by a thread that finds the lock taken again
  does not leave the others asleep over a free lock.
* `OneTransactionPerKey`, `HolderInMap`, `NoHolderLeak`: the comment of
  `TransactionMap` ("must guarantee that only one Transaction object can be
  created for each key") against the life cycle of reference counted holders.
* `NoLostUpdate`: every save adds to the profile as it is at that moment, although
  the saver has read it earlier: the transactions do what they are for.
* `ImplementsStore`: callers of the batching map see a store in which each
  operation takes effect once between its call and its callback, writes of a key
  in the order of their submission, and a touch never undoes a later save or
  remove.
* `PendingExact`, `AnsweredBeforeWaitReturns`, `EveryOpAnswered`, `WaitReturns`: the
  protocol of `pending_operations_`, `ready_published_` and `active_workers_`, on
  which draining rests.
* `WaitersBound`: `lock_count_`, which is raised under one lock and lowered under
  none, admits and refuses exactly by the requests that are there.
* `OpenIffHealthy`, `ClearedAfterLastFailure`, `ProbesOverlapLate`, `CallsReturn`: the
  recovery neither leaves a healthy map closed nor opens a broken or closing one,
  however failures, probes and the owner meet; calls return unless probes overlap
  or are made by callbacks, two cases in which the code does wait for ever.
* `HeldOnce`, `NoneForgotten`, `EldestFirst`: the names in memory and the directory,
  which is read while it changes, never disagree in a way that loses a file or
  gives it out twice.
* `NoneStranded`, `KeyNotLate`: the races between a consumer that found a receiver
  empty, or read its top, and the report of a new file.
* `Conservation`, `AcceptedKept`: every amount is at one place, while it is divided,
  sent, refused, moved, delayed, saved and loaded, and what `add()` took without an
  exception is on disk after a stop whose dump did not fail.  Delivery is at least once: a call that fails
  after the server confirmed is repeated, and `owed` counts it as not confirmed.
* `SendersRest`: refused requests do not go round the servers for ever.
* `AccountWithinBudget`, `OvershootByOne`: an account never passes its budget, a
  campaign or a group by less than a bid, apart from forced bids and negative bids
  that are taken back, which are added without a look at the limit.
* `LevelsAgree`, `AnswerExact`: account, campaign and groups have counted exactly
  what the callers were told, through all rounding.  Both hold up to the first
  `stat()`, which puts the totals of the database in place.
* `DaysChained`: the sum before a day is the sum before the preceding one and its
  amount, with bids of any day in any order and `stat()` between.
* `CommittedPrefix`, `NoRecordLost`, `OrderlyStop`: nothing is skipped, whatever
  fails or crashes, and an orderly stop repeats nothing.

### Fairness

* A thread in the middle of a call goes on (weak fairness of its steps).  Nobody
  has to begin a call: `enter()`, `activate`, `deactivate`, a submission, a request
  for a lock or a transaction, a new pass over a file.
* Users drop what they hold: guards, locks, transactions.  A task of the window
  ends.  Without this no wait in the code would end.
* In the gate, waits for the mutex are strongly fair: the mutex is free between
  any two critical sections, and threads that keep asking for it get it.  So are
  the pool's `cond_` in `FileReceiver` and the lock of a holder in the facade.  The
  other modules take locks in one step and need no more than weak fairness.
* The user of a transaction may go on reading and saving, but drops it some time
  (strong fairness of `Release`): it lives in a scope of the user's function.
* The periodic fetch of files comes again and again; a consumer of the facade
  calls again while the facade is active.
* Time passes, so that a delayed batch becomes due.
* A coroutine whose resumption was scheduled is resumed.
* Crashes, failures, spurious wakeups, cancellations are never promised.

## 4. What is proved

Each theorem holds for every number of threads, coroutines, workers, operations,
keys, records and files and for every size, limit and period.  The assumptions are
named, stand in the component's module and are evaluated by TLC in its run:

* `GateAssumption`, `MutexAssumption`, `TransactionMapAssumption`,
  `ProfileMapAssumption`, `BackgroundErrorAssumption`, `FacadeAssumption`,
  `ReceiverAssumption`: the sets of actors, operations and names are finite where they
  are counted, the kinds of actors are disjoint, the values that stand for "nobody" and
  "nothing" are none of the others, and an operation has a type and a key.
* `WindowAssumption`: the window and the wake threshold are at least 1, as the
  constructor makes them.  A retry period and the room for names are at least 1.
* `BatchingQueueAssumption`: there is a bucket, each key has one, and a batch has room
  for an entry.
* `PoolAssumption`: there is a server, a batch has room for a request, and there is
  a sender (the proof needs it for `NoneSleepsInVain`: without senders a listed
  server would wait for ever).  Amounts are integers of either sign.
* `ContainerAssumption`: days are numbered from 1, the two amounts of a bid (in the
  account's and in the advertiser's currency) have one sign, and the database answers `stat()` with days after the
  ones it sums up (`SourceOk`), as the assertion at `BillingContainer.cpp:2500` says.
  `CampaignServer/BillStatDBSource.cpp:207` takes the days from sixty days back and
  lines 109 and 134 put the day before which it sums up into `prev_day`; where there is
  nothing to sum up, `prev_day` is zero and so is the sum.  That no bid is for a day
  before `prev_day` is assumed because bids are not sixty days late; see also 5.

| Module | Theorem | Statement |
|---|---|---|
| `BackgroundError_proofs` | `GateInvariant` | `GateSpec => []GateInv` |
| | `DrainedHolds`, `NoLostWakeupHolds` | the two safety properties of the gate |
| | `RecoveryCorrect` | `Spec => []RecoveryInv` |
| | `ErrorClearedAfterLastFailure`, `ProbesKeepDistance` | the two action properties |
| `TransactionProfileMap_proofs` | `MutexInvariant` | `MutexSpec => []MutexInv` |
| | `NoBargingHolds` | the action property of the mutex |
| | `MutexRefinement` | `AsyncMutex` implements `ExclusiveLock` |
| | `HolderLocksExclusive` | what `TransactionMap` does with the lock of any one holder is allowed by `ExclusiveLock` |
| | `MapCorrect`, `ProfilesIsolated` | `Spec => []MapInv`, `Spec => []ProfileInv` |
| | `WaitersBounded` | the action property |
| | `UpdatesAtomic` | `TransactionProfileMap` implements `AtomicProfiles` |
| `RocksDBProfileMap_proofs` | `MapDrains`, `BatchesExclude` | `Spec => []DrainInv`, `Spec => []KeyExclusion` |
| | `MapImplementsStore` | `RocksDBProfileMap` implements `ProfileStore` |
| `RecordLoader_proofs` | `LoaderInvariant` | `Spec => []LoaderInv` |
| | `RingHolds`, `CommittedPrefixHolds`, `NoRecordLostHolds`, `OrderlyStopHolds` | the four safety properties of the loader |
| | `FacadeCorrect` | `FacadeSpec => []FacadeInv` |
| `FileReceiver_proofs` | `ReceiverCorrect` | `Spec => []ReceiverInv` |
| | `EldestGivenFirst` | the action property |
| `BillingRequestPool_proofs` | `PoolHolds` | `Spec => []PoolInv` |
| `BillingContainer_proofs` | `BudgetsHold`, `LevelsAgreeInTheEnd` | `Spec => []BudgetInv`, `Spec => []AnswersAgree` |
| | `DaysStayChained` | `Spec => []DaysChained` |

The arguments.

*Gate.*  `Drained` is not inductive.  `GateInv` adds that `running` is the number of
threads between their addition and their subtraction, that `closed` follows the
state of the owner, and that once the owner has decided to return nobody is
inside: a thread whose addition comes later sees the closed gate.  For the
wakeups it says that a sleeper which has tested `running`, and still holds the
mutex or already sleeps, is covered by somebody who is counted or is on its way to
the broadcast; since the broadcast needs the mutex it cannot fall between the test
and the sleep.

*Mutex.*  `MutexInv` says that the queue holds each waiting coroutine once, that
`locked` is set exactly when somebody owns the lock (a granted coroutine
included), that the queue of a free lock is empty, and that over a free lock with
sleeping threads some notification or woken thread is under way.  The
refinement maps the owner to the one granted or holding client.  `TransactionMap` is
written over the lock that `ExclusiveLock` describes.  `HolderLocksExclusive` closes the
gap between the two: with the lock of one holder as the abstract lock, each step of the
map, the reuse of the holder's address for a new key included, is a step of
`ExclusiveLock` or leaves the lock alone.

*Transactions.*  That a key has one transaction rests on the life of its holder, so
`MapInv` counts: the references of a holder are those of its users and the map's own
(`CountersExact`), a holder with references is in the map under its key
(`HolderInMap`, `NoHolderLeak`), and its lock belongs to the client whose control
point says so (`LockExact`).  A client moves alone, so that one lemma
(`OneClientMoves`) carries every count.  `ProfileInv` follows from it: two clients with
a transaction have different keys, so what one has read is changed by no other.  An
applied save is then a step of `AtomicProfiles`, and every other step leaves the
profiles alone.

*Batching map.*  The inductive invariant `Inv` has four parts: the type,
`WorkersCounted` (`active_workers_` and the locks follow the control points of the
workers), `Data`, and `DrainedForGood` (what `wait_drained()` saw stays so).  `Data`
holds the batches a worker may have at each point (`BatchesHeld`), the counts per key
of what is in flight (`InFlightExact`, from which `KeyExclusion` follows), the exact
`pending_operations_` (`PendingExact`), stamps behind the clock, so that entries of
the queue are different (`StampsBehind`), and that an operation is in one place, the
queue, a batch or answered (`AnsweredOnce`).  There is one lemma for each action.
With workers of its own nobody is in the map after the wait
(`OwnsProcessor => NoUseAfterWait`); with a shared processor this fails, see 5.

The refinement of `ProfileStore` takes an operation as pending from its submission,
as applied when its batch has a result, and as answered at its callback.  On top of
`Inv` it needs `StoreInv`: an operation has a result exactly from the decision of
its batch on (`Results`); an operation that was called after another had been
submitted has the later `enqueue_time`, and no write is in a batch while an earlier
one of its key is still in the queue (`Ordered`); a touch in the queue or in a batch
carries the profile that the database still has, and while it is in the queue no
batch writes its key (`TouchesFresh`).  A write batch is then one step of the store: of a key's group the
latest entry that is not a touch wins, and only touches alone write back what is
there.  A read batch is one step as well, because key exclusion keeps
writes off its keys.  All other steps stutter.

*Recovery.*  `OpenIffHealthy` by itself is lost when a probe that is late reopens the
gate.  `RecoveryInv` adds that the retry period covers every probe in time
(`PeriodCovers`), so that two of them overlap only when one is late
(`ProbesOverlapLate`), and what holds for a probe of the current error: past the gate
it has it to itself, past the queue nothing is waiting and no batch is under way, and
a `Resume()` it has seen succeed came after the last failure (`ProbeIsolated`).  The two action properties follow from it.

*Loader.*  `RingInv` says that a slot of the ring is set exactly when a started and
uncommitted task with that remainder has ended well.  It rests on the window
never holding more than `WindowSize` tasks, so that two of them never share a
slot; lemmas about remainders and about `RunLength`, the number of slots that the
commit loop consumes, carry the step.  `TaskInv` counts the running tasks
and ties their outcome to the history of processed records, and `PassInv` the local
variables of the pass to the window.  `CommittedPrefix` and `NoRecordLost` then
follow for every exit of the pass and every crash.

*Files.*  `ReceiverInv` relates the directory, the names in memory and the entries the
scan has still to see: one thread scans (`OneScan`), a file is in one hand
(`HeldOnce`), an entry the scan meets is there or was processed meanwhile
(`EntriesKnown`), a file that is neither on offer nor held is not older than
`oldest_not_in_files_` or will be seen by the scan (`NoneForgotten`), and what a scan
leaves out is not older than all it kept (`ScanKnowsEldest`).  `EldestFirst` follows at the two
places where a file is given out.  `FacadeInv` says of a receiver with files that it
is ready or its report is on the way (`NoneStranded`), and that its key is not behind
its eldest file unless the report is on the way or a consumer renews the key
(`KeyNotLate`); that needs `AnswerNotStale`, by which what a consumer was told of the
next file is overtaken only by a file with a report of its own.

*Pool.*  `PoolInv` is inductive.  `Conservation` and `AcceptedKept` are about
`Outstanding`, the sum of what is on disk, delayed, at the servers, in the hands of
threads and still to be divided by adders.  The proof keeps a sum for each place; a
step changes the share of one thread, or moves between two places what it takes from
one (`BalanceKept`).  `PlacesInv` says at which points a thread may be in each phase of
the process and where it holds requests, so that no sender and no timer has any in hand
when the dump reads the pool; an adder may.  `missed` is what the adders held then, so
that the file has all that is owed but `missed`.  `JobsInv` says that the call of an adder
which holds something is not `accepted`: it looks at the activity after it has given away
its last share, finds the pool deactivated and throws.  A dump that fails ends the
argument: the next process owes what the file has.
`NoneSleepsInVain` needs that whoever lists a server either is a sender, and so awake, or
wakes one (`WakeFine`).  Dividing a request over the servers loses nothing, because the
first server gets the remainder of the division, and an adder visits each server once.

*Container.*  `AccountWithinBudget` and `OvershootByOne` are about the sum over all days of
an entity, while a bid changes one day and the limits are tested against the last one.
`DaysInv` makes the two the same: the sum before a day is that before the preceding day
and its amount (`Chained`), the first day has nothing before it or no bid is for an
earlier day (`Founded`), and days without an entry are empty (`Blank`).  It holds through `add_amount()`, which raises all
later days, and through `replace_amount_()`, whose running sum over the days of the
database (`Upto`) gets its equations from the finite number of days.  `AnswersAgree` is
about states without calls.  In between, `CallsInv` ties at each point of a call what the
levels have confirmed, what they are asked for next and what they have to take back, for
bids of both signs, and `SumInv` says that a level has counted what callers were told and
what calls in progress have confirmed.  The rounding of `recalc_remind_amounts_()` enters
through two facts (`ShareBounds`, `RecalcFacts`): a share lies between nothing and the
whole, and a level takes back what it has confirmed above its new target.

*Sums and least elements.*  `Min`, `Max` and the folds choose an element or a function
that exists only by induction, and the library's induction theorems cannot be
instantiated.  The proofs use a set in the place of the operator:
`WFMin` gives the least element of a set of naturals, because `<` is well-founded, and
`SubsetInduction` a smallest subset of a finite set that is not in a given set `Good`.
From it follow the equations of `SumOver`: the sum of nothing, of one element more,
of a function changed at one place, of two functions, and the exchange of two sums.

Only model-checked: all liveness (`WaitTerminates`, `WaiterServed`, `FreeLockTaken`,
`WaiterGetsTransaction`, `EveryOpAnswered`, `WaitReturns`, `PassEnds`, `CallsReturn`,
`ReceiverLive`, `FacadeLive`, `SendersRest`, `StopReturns`), because fairness and
`ENABLED` are out of the prover's reach.  The counterexample of `store_shared` is a
run's as well.

## 5. Where the code and its promises differ

* `store_shared`.  `finish_batch()` makes `active_workers_` 0 and then takes
  `state_lock_` to notify.  The owner's `wait_drained()` can see the queue drained
  in between, so that with a shared processor `wait_object()` returns, and the map
  may be destroyed, while the worker still locks and notifies in it.  A map with a
  processor of its own joins the workers first (then `NoUseAfterWait` holds, as `store_live` checks and `MapDrains` proves).

Others are in the models, which do what the code does, and no run is about them.
Each can be seen by giving TLC the formula as an invariant or property.

* `activate_object_()` asserts `running_ == 0` (`Commons/ActivityGate.cpp:78`).  A
  thread that saw the gate open before it was closed may count itself after
  `wait_object()` has returned, look at `closed_` again, and leave; if the gate is
  activated meanwhile the assertion fails (`[][ActivateGate => running = 0]_gateVars` in
  `ActivityGate`).  The gate itself is safe: `Drained` holds, and is proved, with such
  threads.
* `FileReceiver::get_eldest()` throws `Interrupted` when the stop comes during the scan
  of the directory (`LogCommons/FileReceiver.cpp:583`); the loop that calls it is
  `noexcept` and has no handler, so that the process aborts (`~aborted` in
  `FileReceiver`).
* `get_requests()` erases a server from `non_empty_servers_` by value
  (`RequestInfoManager/BillingProcessor.cpp:1277`), which in a `multiset` removes every
  server with the same first time.  They stay out of the list, against the comment at
  line 274, until the next request comes for them.
* A request that was refused twice goes to "the next server" by the comment at
  lines 1774-1775 of that file, but the index is counted on twice (line 970), so that
  one server is left out.
* `dump_()` catches and logs a dump that fails
  (`RequestInfoManager/BillingProcessor.cpp:2096`), and the stop goes on.  Amounts that
  `add()` took without an exception are lost then, or the file of an earlier dump is
  loaded again and what was confirmed since is sent twice (`phase = "stopped" => saved` in
  `BillingRequestPool`).
* `DeliveryLimitsChecker::check_()` reads the budget whenever a campaign or group has a
  limit of any total (`BillingServer/BillingContainer.cpp:450`).  With a limit of
  impressions or clicks and no budget, the configuration of
  `tests/UnitTests/CampaignSvcs/BillingServer/BillingContainerTest.cpp:38`, the empty
  `Optional` reads as 0 and every positive bid is refused once nothing negative is counted
  (`BudgetOf`).
* `stat()` drops the lock between its portions.  An account, campaign or group whose
  first bid comes in between, at a key before the one the next portion goes on from, is
  not replaced: `insert()` leaves the holder that is there
  (`BillingServer/BillingContainer.cpp:2201`, `passed` in `StatReplace`), and what the
  database knows of it is left out until the next `stat()`.
* `confirm_bid()` says of taking back from a campaign "for future, now no reach"
  (`BillingServer/BillingContainer.cpp:1105`); a group that refuses reaches it.  For the
  group itself the same comment is right (`CcgRevertUnreached`).  The campaign's
  impressions and clicks are not taken back (line 1115).
* The revert of an account asserts that it has amounts
  (`BillingServer/BillingContainer.cpp:1936`); a `stat()` that replaces the account by
  nothing between the confirmation and the revert makes it fail (`pc[t] # "assert"` in
  `BillingContainer`).
* `add_amount()` puts a bid into the day it is for, also when this is before the days
  that the last `stat()` has summed up; the sum before the first of those days then
  leaves it out.  The models assume that no bid is more than sixty days late
  (`SourceOk`), which nothing in `confirm_bid()` tests.
* A refused negative bid is added back to the account without a look at the budget
  (line 1938), when another call may have used the room it had made.

## 6. Not modelled

* Memory orders weaker than sequential consistency.
* In the batching map: `process_keys()`, a second activation by the owner, expiry by
  age and the statistics.  In `TransactionMap`: exceptions during construction.  In
  `AsyncMutex`: the statistics counters, and the destruction of a coroutine that
  was already granted the lock.
* In the files: errors of single system calls other than those that interrupt a
  scan, and what the processors of a file do.
* In the batching map's queue, two operations with one `enqueue_time`, or a later one
  with an earlier time: the code reads the wall clock before it takes the bucket's
  lock (`RocksDBBatchingProcessorQueue.cpp:168`), the model a clock that only goes up.  That
  writes of a key take effect in the order of their submission
  (`ImplementsStore`) rests on it.
* In `BillingProcessor`: the periodic dumps and a crash between their renames.  What a
  failed last dump leaves is in the code the file of the last periodic one, in the model
  that of the last stop.
* In `BillingServer`: amounts that overflow the decimal type, which `add_amount()`
  catches and takes back (`BillingContainerState.cpp:209-230`), because numbers have no
  bound in the models; check of availability without a
  confirmation, dump and load of the container, the reload of the configuration,
  click rates, time zones that differ.
* In the loader: the schedule of checks, several files at once and what the records of each log do.
* Everything else that section 1 names: `PROJECT.json` gives the reason for each
  component.  Most of it is data transformation, I/O, generated code or scripts.

## 7. Plan

In the order of importance:

1. `Commons/FastScheduler`: the protocol of `pending_` and `wakeup_ticks_` between
   `schedule()` and the worker, where a thread that is overtaken between its two
   steps may leave a tick behind that keeps later ones from waking the worker.
2. `RequestInfoContainer`: requests, impressions, clicks and actions in any order,
   repeated deliveries; `UserFreqCapProfile`.
3. `Commons/AsyncCache` and `BoundedCache`; the batching queue and the partition
   pools of `Commons/Grpc` with their back-off.
4. `SyncLogs` (transfer and unlink of files), the chunks of `UserBindServer`, the
   update sessions of the channel services, `ChunkedExpireProfileMap`; the dump and
   load of `BillingContainer`.
