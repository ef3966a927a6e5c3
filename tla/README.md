# A verification project for UCSB

UCSB benchmarks key-value stores: several threads run workloads (mixes of
operations) on one database, and the program reports how many operations per
second they achieved. This directory models the parts of it whose correctness
depends on interleavings, on arithmetic at the borders, or on what one part
assumes of another, in TLA+; checks them with TLC on small instances; and proves
what matters most for every instance with TLAPS.

Paths below are relative to the repository (`src/` there is the C++ source).

## 1. The system

| Part | Source | State | Operations |
|---|---|---|---|
| Threads fence | `src/core/threads_fence.hpp` | two atomic counters | `sync()` |
| Benchmark driver | `src/bench.cxx` | the static `progress_t`, the database handle, per thread: transaction, iterations left, flush flag | `bench()` (twice), `progress_t::*`, `main` |
| Workload splitting | `src/bench.cxx`, `src/core/workload.hpp` | none | `validate_workload`, `split_workload_into_threads` |
| Worker, generators, chooser | `src/core/worker.hpp`, `src/core/generators/*`, `src/core/operation.hpp` | per thread: key sequence, key generator, buffers | `do_*`, `generate_*`, `choose` |
| Timer | `src/core/timer.hpp` | stopped / running / paused, elapsed times | `start`, `pause`, `resume`, `stop` |
| Profilers | `src/core/profiler.hpp` | a sampling thread, its flag and statistics | `start`, `stop`, samples |
| Database interface | `src/core/data_accessor.hpp`, `src/core/db.hpp` | a key-value store | single, batch, bulk, range and scan operations, `open`, `flush`, `close`, transactions |
| Adapters | `src/rocksdb`, `leveldb`, `lmdb`, `wiredtiger`, `mongodb`, `redis`, `ustore` | handles, thread-local buffers, cursors, transactions | the interface's operations |
| Results | `src/core/reporter.hpp`, `src/bench.cxx` | the in-progress and the final results file | `merge_results` |
| Orchestration | `run.py` | directories, one process at a time | cleanup, one process for all or for each workload |
| Console reporter, formatting | `src/core/reporter.hpp`, `printable.hpp` | none | output |

How they interact. `main` splits every workload into one part per thread and
registers one benchmark per workload. Google Benchmark (external) starts the
threads of a benchmark, makes them meet at its start/stop barrier before and
after the only batch of iterations, and joins them before the next benchmark.
Thread 0 opens the database before the threads meet at the *fence*, and closes it
after they have met there again. In between each thread asks its worker for one
operation after the other, adds the outcome to the shared progress, and the
thread that counts the last operation of all flushes the database. Thread 0 then
reports the counters and the size on disk and clears the progress. In
transactional mode a thread works on a transaction of its own that commits when
it goes out of scope.

What is hard in it, and the property each part owes:

* **Fence** (interleaving, reuse, liveness): a call returns only when every
  thread has made the matching call, whatever slow threads still do with the
  counters; no thread spins for ever.
* **Driver** (interleaving, ordering, stale shared state, deadlock, partial
  failure): the database is open whenever a thread uses it; it is flushed once and
  after every operation; the report is exact and nothing of one workload
  leaks into the next; all workloads end.
* **Splitting** (numeric borders): records and operations are dealt out evenly and
  completely; threads never get each other's keys.
* **Worker** (loops that need not end, stale limits, buffers): drawn keys exist,
  inserted keys are new, lengths fit the buffers, every operation ends.
* **Adapters** (partial failure, stale buffers, shared cursors, pools and locks, order
  of keys): they do to the keys what the interface says and report the entries they
  touched; a call ends, and leaves nothing behind for the next workload.
* **Results and sessions** (crash, partial failure, merging): a merge replaces what was
  measured again and nothing else; a load starts from nothing; processes are isolated.
* **Timer, profilers** (protocol, join): all of the calls are counted. The preparation of a
  batch or of a bulk load is not; that of any other operation, which does not pause
  (`worker.hpp:121-154, 185-190`), is. Statistics follow the samples; `stop` waits for the
  sampling thread.

`PROJECT.json` lists every component, and under `hazards` each of these dangers
with the line where it bites and the properties that watch it.

## 2. The modules

| Module | What it is | Source |
|---|---|---|
| `Rendezvous` | abstract: a reusable barrier, as calls and returns | the promise of `threads_fence.hpp:10`; also the barrier of Google Benchmark |
| `ThreadsFence` | the fence, one action per atomic access | `threads_fence.hpp:15-33` |
| `ThreadsFenceProofs` | proofs about it | |
| `Bench` | the driver with both barriers | `bench.cxx:288-503, 584-612` |
| `BenchProofs` | proofs about it | |
| `WorkloadSplit` | the splitting loop | `bench.cxx:165-262` |
| `WorkloadSplitProofs` | proofs about it | |
| `Worker` | the worker and its generators | `worker.hpp`, `generators/`, `operation.hpp:63` |
| `WorkerProofs` | proofs about it | |
| `Session` | run.py, the process it spawns, the results files | `run.py:115-373`, `bench.cxx:508-612`, `reporter.hpp:226-272` |
| `SessionProofs` | proofs about it | |
| `DataAccessor` | abstract: what a database promises its callers | `data_accessor.hpp`, `operation.hpp:12-43` |
| `RocksDB` | the RocksDB adapter without transactions | `rocksdb.hpp:145-384` |
| `RocksDBProofs` | proofs about it, and that it implements `DataAccessor` | |
| `Caller` | what all adapters have in common: the calls a workload makes, opening, flushing and closing around them | `bench.cxx:410-502`, `worker.hpp:121-195` |
| `LevelDB`, `LMDB`, `WiredTiger`, `MongoDB`, `Redis`, `UStore` | one adapter each | `leveldb.hpp`, `lmdb.hpp`, ... |
| `Transaction` | the transactions of RocksDB and of UStore | `rocksdb_transaction.hpp`, `ustore_transaction.hpp` |
| `Adapters` | the adapters behind one interface, and their properties | `db_brand.hpp` |
| `AdaptersProofs` | proofs about it, for all of its adapters | |
| `Measurement` | timers and profilers of the leading thread | `timer.hpp`, `profiler.hpp`, `bench.cxx:387-470` |
| `MeasurementProofs` | proofs about it | |
| `MC_*` | instances for TLC | |

`Bench` composes two instances of `Rendezvous`; that the real fence may stand for
one of them is what `ThreadsFence` shows (and its proofs for any number of
threads). `Worker` takes the parts that `WorkloadSplit` deals out. `Adapters` composes
the adapters (`INSTANCE`), each of which extends `Caller`, and refines `DataAccessor`.

### ThreadsFence

`waiting`, `released` and `N` are `waiting_threads_count_`,
`released_threads_count_` and `threads_count_`; `pc` says which access a thread
does next; `calls` counts calls of `sync()`. `Gate`, `Announce`, `Gather`,
`Release`, `Check`, `ResetWaiting` and `ResetReleased` are lines 19, 22, 23, 26,
27, 30 and 31. The accesses are sequentially consistent in the code (no memory
order is given), so interleaving them is exact. A loop that spins on a load is
an action that is enabled when the load ends the loop. `SpuriousCAS` lets
`compare_exchange_weak` fail without reason, as it may on some processors. `Call`
is the caller: it may call again at once, or never.

The mapping to `Rendezvous`: `arrived` is `calls`, `passed` is the number of calls
that have returned.

### Bench

`pc` walks through `bench()`; each read and each write of a shared object is an
action of its own, except that the increments of `entries_touched`,
`bytes_processed` and `failed_iterations` are one (`Tally`): they commute, and
between the barriers only the printed line reads them. `bytes_processed` is
`value_length` times the entries touched and is left out. An operation of the
worker is one call with a good or a bad result (`Operate`); what is in the
database is only told apart as flushed or not (`dirty`), and what is in a
transaction as something or nothing (`txn`). An exception ends the program
(`Throw`): with several threads it leaves a thread function or unwinds over
joinable threads, and with one it is caught in `main`, which returns.
`goodOnes` and `flushes` are auxiliary: they count what happened, and the code
does not have them.

### WorkloadSplit

One action is one turn of the loop. The input is every workload within the bounds
that passes the asserts of `validate_workload`; a proportion is none, some, or
1.0 of the operations.

### Worker

A thread goes from `Construct` through `Choose`, `Generate` (keys of the
sequence) or `Draw`/`Redraw` (keys of the random generator, accepted or rejected)
to `Call`, the call of the shared database, which is a set of keys. Everything but
`db` is local to the thread. `Support` is what the generator of each
distribution may return: scrambled zipfian and beta reach beyond the records of
the thread, and latest ignores the thread's part. Scrambled zipfian hashes the few
values its inner generator takes and returns the remainders
(`scrambled_zipfian_generator.hpp:18, 30-34`), so that it may never return some keys of
its range, and the generator of latest does not reach every distance from the last key
either. Which ones they reach follows from floats and a hash and is an input, `reach`, of
each workload; `ReachAssumption` says what bounds it has. Values and their lengths are
left out but for the number that has to fit the buffers.

Two more assumptions on the workloads say what the rest of the program sees to.
`PartsAssumption`: the keys the threads of a workload that only inserts may insert
are nobody else's and not loaded, which is `DisjointKeys` of `WorkloadSplit` (proved
there), and the database a load begins with (`InitStartsEmpty` of `Session`).
`LoadedAssumption`: a workload that does more than insert works on a loaded database.

### Session

`script` is where `run.py` is, `main` where the process it has spawned is, and
`Kill` may end both between any two steps: the files, the databases and the
system's caches are what the next session finds. A results file is absent, torn
(opened for writing and not written to its end, so that it does not parse) or
whole. `nextTarget` and `nextWorkload` are the loops of the script over databases, sizes
and workloads: `NextJob` is what the next process is asked to run, and `Advance` goes on
to the one after it. `merge_results` is `Merge` (both files are read, and a torn one
throws; it starts from the old results or, if there are none, takes the new ones),
`Update` (one turn of its loop: one new result finds its place, which is its inner loop,
`PlaceOf`), `Truncate` and `Write`; `Merged` says that all have.
`Fail` is everything that ends the process before the merge with exit status 0 or
1, which the script does not look at. `latest` is auxiliary. The names of the
workloads a user asks for differ: with a name given twice the first merge would
keep both results and later ones update the first. What a workload does inside
the process is `Bench`; here it is `Measure`. A database and a size are one
target, with one directory and one results file.

### DataAccessor and RocksDB

In `DataAccessor` a call takes effect at one moment between its start and its end
(`Perform`), does what `After` says to the set of keys, and reports what `Touched`
says; when the engine fails, a call may report an error and does nothing, or, in a
batch of reads, finds less. A thread may become `lossy` (`BecomeLossy`) in a call that writes and
whose result is not promised; from then on its calls do nothing (`PerformLossily`), whatever
they report, until something that is not a call puts it right (`EndLossy`). It is the
specification the adapters are to refine, and the only place where the words of
`data_accessor.hpp` and `operation.hpp` are made into definitions.

`RocksDB` has an action for each call of the engine: `update` is `UpdateGet` and
`UpdatePut`, `bulk_load` is `WriteFile` and `Ingest`, and all other calls use it once,
on an atomic batch or a snapshot. `buffer` is the thread-local `batch_keys` with the
slices that point into it. A key is an integer of two bytes; `ToSlice` turns it
round in memory and the engine sorts by bytes, so that keys that are not turned
round, or turned round twice, are seen to be in the wrong place. The mapping to
`DataAccessor` turns what the engine holds back into keys. A process performs one
workload after the other (`Open`, `Flush`, `Close`): the main thread, and so its
thread-local buffers, live through all of them. `unsettled` stands for the state of
the files: entries in the memtable only (the log is disabled), ingested files that
are not compacted, and pending files of bulk loads nobody removes. `Bench` says
when the flush comes.

### Caller, the adapters and Adapters

`Caller` is the driver as a database sees it: `OpenDb`, `Invoke` and `Return` of the
threads, `FlushDb` when all have returned, `CloseDb`, and the next workload on the same
data. Thread 0 is the main thread in all workloads, so what it keeps in thread-local
variables lives on; the other threads' variables die with them. A record of
`Workloads` says which threads take part and which operations they mix. `EndProgram`
is an exception nobody catches. `handle` and `stage` are auxiliary: the code has a
pointer and a program counter there.

Each adapter has one action for each step between which another thread can be seen:

* `LevelDB`: `update` is a Get and a Put. Loops over the keys of a batch are one step,
  since no workload mixes batches with other calls.
* `LMDB`: `Begin` is `mdb_txn_begin` of the calls that may write, and waits for the
  one writer; the call itself ends the transaction on every path (`End`).
* `WiredTiger`: `bulk_load` is `TestCursor`, `StartSession`, `OpenCursor` and `Insert`, with
  the shared cursor in `bulk`. All other calls have their own session.
* `MongoDB`: `Acquire` takes a client of the pool, the call itself gives it back.
  `batch_keys` is the pair of thread-local containers of `batch_read`. `Throw` ends the
  program.
* `Redis`: one command, one step. `open` and `close` leave the server alone.
* `UStore`: `MapClient` is part of every call; `clients`, `client` and `client_index`
  are `clients_`, the thread-local `client_` and `client_index_`. `#if` of the engine is
  `engine`.
* `Transaction`: `pending` is what a transaction holds. A write that is refused commits what
  there is and is tried again in the same transaction (`Write`, `Retry`, and key by key in
  `BatchUpsert`). RocksDB commits a transaction once: one that is `spent` goes on writing,
  but every later `Commit` is refused (`NoCommit`), that of the destructor (`End`, after the
  flush) included, and what it wrote in the meantime is lost. The assertions that would say so
  are not there in a release build. UStore, which does not say, may do either.

Keys have two bytes. `LevelDB` and `LMDB` compare the bytes of the key as it is in
memory, because the adapters do not install the comparators they define
(`leveldb.hpp:147`, the commented calls of `mdb_set_compare`), and MongoDB's
identifiers end with them: their ranges are in another order than the integers'.

`ImplementsDataAccessor` of `Adapters` has a list of the kinds of calls, for each database,
whose *result* is not the one the interface documents (`Loose`). What such a call
does to the data is checked all the same: what the interface promises, except that an
`update` may create its key, and that a load into a database that is not empty may be
refused as a whole or in part. Of the result it is only checked that it counts at most one
entry more than it asks for and finds nothing that is not there. These are the
disagreements the modelling met:

| Database | Kinds | Why |
|---|---|---|
| LevelDB | ranges | in the order of bytes |
| LMDB | ranges | in the order of bytes, and refused if the very key is not there (`MDB_SET`) |
| LMDB | `update` | refused whenever the key is there: it puts in a transaction begun with `MDB_RDONLY` (`lmdb.hpp:215`) |
| WiredTiger | ranges | leave out the first entry, and are refused if the very key is not there |
| WiredTiger | `update` | creates a key that is not there (cursors overwrite) |
| WiredTiger | `batch_upsert`, `bulk_load` | inserts that fail are not counted, or are counted all the same (`wiredtiger.hpp:331`); a load is refused if there are data |
| MongoDB | ranges | begin after the key, or (scan) at the first document whatever the key; a scan of fewer entries than there are counts one more (`mongodb.hpp:292`) |
| MongoDB | `upsert`, `update`, `batch_upsert` | count the documents that were there already, so that inserts are reported as errors |
| MongoDB | `bulk_load` | ends the program if a document is there |
| Redis | `upsert`, `update`, `bulk_load` | take "the field is new" for success: an update that works is reported as not found |
| Redis | ranges | not implemented, and say so |
| UStore | `update` | creates a key that is not there |
| UStore | `scan` | goes on a chunk's length after its first key, whatever it has found |
| transactions | `read`, `update`, `remove`, and others that look at one key | a thread sees its own writes and what is committed; the abstract database is what all have written together |
| RocksDB's transactions | `upsert`, `update`, `remove` | lost, though reported as done, after the first write that is refused |
| RocksDB's transactions | `batch_upsert`, `bulk_load` | the same, and report all keys as written though some are refused (`rocksdb_transaction.hpp:157`) |

No comment or test of the repository says what these calls report, beyond the two
lines of `operation.hpp` on `entries_touched`, so they are listed here and not as findings.

Of transactions on an engine that fails nothing is promised: the destructor drops the
result of its commit (`ustore_transaction.hpp:69`), and what was counted may be lost. A commit
that UStore refuses for a conflict counts as such a failure. RocksDB's transactions meet
refused writes without any failure, when another thread's transaction has the key locked.
What a thread has written up to then is committed by the retry and promised; then the thread is
`lossy` until its transaction ends (`rocksdb_transaction.hpp:84, 93, 118, 150`).

### Measurement

The leading thread between the profilers' start and their end, one action for each call
of the library's timer, of `timer_t` and of the profilers. A batch or a bulk load pauses both
timers while it prepares its data; any other operation prepares them with both running
(`Generate`, and `Read` and `Modify` for the two calls of a read-modify-write). `bench` is
the library's clock (external: it runs from `PauseTiming` to `ResumeTiming`). Time is a
counter, `now`; `Tick` lets it pass anywhere, so that any step may be slow. A profiler's
thread is `Wake`, then `SampleCpu` or `SampleMem`; the second of them is the one average
whose arithmetic is modelled, in integers as in the code; percentages are floats and only
counted. `Throw` is an exception of an operation: destructors stop the profilers in the
opposite order. `prepared` (of batches), `performed` (calls, and the preparation of the
others) and `sum` are auxiliary. In the other threads of a workload profilers are never
started.

## 3. What is checked

| Run | Instance | Shows |
|---|---|---|
| `MC_ThreadsFence` | 3 threads, 3 rounds | `FenceInv`, `Isolation`, `ImplementsRendezvous`, `EveryRoundEnds`; no deadlock |
| `MC_Bench` | 2 threads with 2+2 and 2+1 operations in 2 workloads, transactional or not; opening, creating a transaction and the exchange that guards the flush may fail | database open while used, at most one flush and that after everything, exact report, nothing left over, without transactions the size read after the flush, all workloads end |
| `MC_WorkloadSplit` | up to 4 threads, 9 records, 9 operations, batches of up to 2 | `DisjointKeys`, `RecordsCovered`, `Even`, `OperationsShared` |
| `MC_Worker` | 2 threads, 9 workloads: mixed kinds on 5 records with 5 distributions, removals with 3, a bulk load | `BuffersFit`, `DrawnKeysExist`, `PureInsertsAreNew`, `EveryOperationEnds` |
| `MC_Session` | 3 sessions, 2 databases, one process for all workloads or one for each, disk may be full | `MergeIsUpdate`, `ResultsKept`, `InitStartsEmpty`, `IsolatedWhenAsked` |
| `MC_RocksDB` | 2 threads, 3 keys, the mixes of `bench/workloads` in any order on one database, calls of the engine that may fail or not | `ImplementsDataAccessor`, `ValuesFit`, `FlushSettles` |
| `MC_Adapters` | 2 threads, 3 keys in bytes of two values, 9 mixes of `bench/workloads`, each of 10 databases; engines that may fail or not; a pool of one client; chunks of two keys | `ImplementsDataAccessor`, `EveryCallEnds`, `ScanTouchesAll`, `ClosedClean`, `ClientsOwned` |
| `MC_Measurement` | 2 operations, a delay of 2, at most 2 ticks in operations, threads scheduled promptly or late | `TimesNested`, `StatsSampled`, `AverageOfSamples`, `EveryMeasurementEnds` |

The fence with a `compare_exchange_weak` that fails spuriously is covered by the
proofs only: it may hang, but lets no thread through too early.

Runs that TLC must find violated, each a disagreement of the code and what the
repository says of it (`findings`):

* `MC_WorkerReadUpsert`: the threads of the 95% reads + 5% inserts workload upsert
  the same keys (`worker.hpp:99`; `README.md:120`).
* `MC_BenchTxnFlush`: in transactional mode the flush and the reported size come
  before the commits (`bench.cxx:438-444, 493`).
* `MC_RocksDBBatchRead`: after a larger batch of reads in the same workload a smaller
  one reads and counts entries of the larger one again (`rocksdb.hpp:275`;
  `operation.hpp:37`).
* `MC_WiredTigerBulk`: two threads load at once, and one closes the session of the cursor
  the other one inserts with (`wiredtiger.hpp:317`; `wiredtiger.hpp:313-315`). What the engine
  does then is undefined, so `Adapters` is checked with loads of one thread otherwise.

Three disagreements that need no run, since they can be read off: with fewer operations
than threads more operations are done than the workload has, since every part has at
least one (`bench.cxx:241`; `workload.hpp:38`), and by default all workloads of a database
share a process and the caches (`run.py:54, 363`; `README.md:201`). And the destructor of a
RocksDB transaction asserts that its commit succeeds (`rocksdb_transaction.hpp:84-85`), which
it does not once a write has been refused and tried again (93-95, 118-120, 150-152): of two
threads that remove keys, one that finds a key locked loses all that it removes from then
on, and a release build says nothing.

`EveryOperationEnds` speaks of threads that have enough keys to draw (`EnoughKeys`), and has
to: `do_batch_read` draws until it has as many different keys as the batch is long
(`worker.hpp:348`), and a scrambled zipfian generator may not have them. With upserts, the
second thread of `MC_Worker` has keys 3 and 4, and its generator, of range 3 to 5, takes two
values, 3 and 4, which are hashed to keys 3 and 5. Key 5 is rejected, being beyond `last()`,
so a batch of two never fills. The shipped workloads have many more records per thread than
keys in a batch.

`ResultsKept` makes an exception for a torn results file, and has to: a process
that is killed between `Truncate` and `Write` (`reporter.hpp:270-271`), or finds the
disk full, loses all results of earlier runs, and every later merge fails on the
torn file until somebody removes it.

Why the bounds are enough. Three threads let two run a round ahead of a slow one
that is between its increment and its load, and three rounds let the slow one see
the counters of a later round than its own; the proofs cover all other sizes. In
`Bench` two threads show every pair of places, and the second workload meets
what the first left in `progress`; 2 operations let a thread loop once. The
split is periodic in the leftovers, and four threads with nine records reach
all leftovers from none to all but one, more and fewer of each than threads.
In `Worker` two threads suffice to meet on a key, and batches of
two keys for a key to be drawn twice; `reach` of each workload of `MC_Worker` is what the code's
generators give on its parts, one thread with all the keys it needs and, with zipfian, one
without. In `Session` a result is measured,
measured again, and kept while another one is merged, which takes three sessions.
In `RocksDB` two threads can be between the two calls of the engine of an update or a
bulk load, three keys give a batch of two that leaves one key out, and in bytes of
three values their order differs from that of their memory; workloads follow each
other without end. `ImplementsDataAccessor` is about workloads as the repository ships
them: one length of batches of reads, no updates among removals. `ShippedMixes` of
`RocksDB` says both; `Adapters` has the length apart (`OneBatchLength`). Without the first
`MC_RocksDBBatchRead` shows what happens; without the second an update can bring back
a key that was removed between its Get and its Put.
In `Adapters` two threads are enough to wait for each other, for a writer or a pool of one;
keys 0, 1 and 2 are sorted as 0, 2, 1 by their memory; three keys in chunks of two take
two chunks; and workloads follow each other without end, in both orders of any two,
some with one thread and some with two. In `Measurement` two operations put a paused one
after another; a delay of two, and two ticks in all operations, make a workload end before,
at and after the first sample.

Fairness. `FairSpec` of the fence assumes that a thread in `sync()` goes on
(spinning threads are scheduled); nothing makes a thread call. `Bench` assumes the
same of each thread and that the library starts the next benchmark. `Worker`
assumes further that a random generator does not reject for ever while it can
return an acceptable key, which holds with probability one, and nothing if it cannot.
`Adapters` assumes strong fairness of each thread in a call: one that waits for LMDB's lock
or MongoDB's pool gets it in the end. Weak fairness would not do, as the others might take
it again and again, but a workload has so many operations and no more. `Measurement` assumes
that threads run, and that time passes for one that sleeps; not that a sleeper wakes on time
(that is `prompt`, and only `StatsSampled` needs it).

Every property of a passing run has a *mutant* in `PROJECT.json`: a plausible
mistake in the code, defined next to the definition it would replace, under
which TLC finds the property violated.

## 4. What is proved

`ThreadsFenceProofs`, for every finite nonempty set of threads, every number of
calls, and whether or not exchanges fail spuriously:

* `TypeCorrect`: the type invariant.
* `FenceInvariant`: `FenceInv`, the inductive strengthening. Isolation itself is not
  inductive: it speaks of calls, and says nothing of the counters that decide who
  may go. `FenceInv` says what they count. While `released` is zero, `waiting` is
  the number of threads *inside* (announced, not yet released), possibly on top of
  a stale `N` that a spurious failure left, and threads inside are exactly one round
  ahead of the others (`Gathering`). While `released` is positive nobody announces,
  `released` and the threads inside add up to `N`, and all are in the same round
  (`Releasing`). A thread about to release sees `waiting = N`, and a thread that
  resets while `released` is positive does so when it is `N` (`Phases`): so a slow
  thread of an earlier round can disturb no later one, since a later round can not
  get to `N` without it.
* `IsolationHolds`: no call returns before every thread has made the matching call.
* `FenceImplementsRendezvous`: each step is a call or a return of the abstract
  barrier, or changes nothing of it.

`WorkloadSplitProofs`, for all bounds of the inputs, that is for every workload that
passes the asserts and every number of threads: `TypeCorrect` (no unsigned counter
goes below zero), `KeysAreDisjoint`, `RecordsAreCovered` and `PartsAreEven`, all from
one loop invariant, `LoopInv`. It adds to them where the next part starts:
`KeysBehind` (the keys of all parts so far end before `startKey`) makes
`DisjointKeys` inductive, and `RestDealt` and `StartFollows` (after `idx` turns the
leftovers still to deal are those of the remaining threads, and `startKey` is `idx`
equal shares and the leftovers dealt so far) give `RecordsCovered` when `idx` is
the number of threads. `KeysWithinSpan` says that the code's `new_records_count` is
what the thread's operations can insert: the asserts leave one kind of insertion.
`OperationsAreShared` is about a sum over all threads, a recursive function, of which
nothing can be proved here by induction over the parts. `SumInv` is an induction over the
turns of the loop instead: whatever function satisfies the recurrence on the parts so far, it
ends with the operations dealt so far, and a turn appends a part, which leaves the function
as it was on those before it (`SumStep`).

`BenchProofs`, for every number of threads, of workloads and of operations, transactional
or not, and whether or not calls of the database and the exchange before the flush fail:
`TypeCorrect`, `OpenWhileUsedAlways`, `PrintedBehindAlways`, `FlushIsLastAlways`,
`ExactReportAlways` and `DirectSizeAfterFlushAlways`. None of them is inductive; the
invariant is built in layers, each used by the next:

* `PlacesInv`: types, and how many operations a thread has left at each place.
* `BarriersInv`: the place of a thread says how often it has come to and left each
  barrier (`RoundsInv`), and nobody has left one before all have come (`IsolationInv`,
  the guard of `Rendezvous`). Together: while one thread is between the barriers, none
  is before the first or behind the second. That is why the leader, who opens before the
  first and closes behind the second, has the database open for all (`OpenInv`).
* `ProgressInv`: the shared counters are cardinalities. An operation is a pair of a thread
  and a number, `total` is how many have been announced, `done` how many have been counted
  and `touched + failed` how many have been added, so `done = total` at most when all
  threads have performed all they have. The counters are zero from the leader's `clear`
  on, which no thread can see the other side of.
* `PrintedInv`: `lastPrinted`, and what a thread is about to store in it, is at most `done`,
  which only grows.
* `NumbersInv`: numbers that `fetch_add` has handed out differ, so one thread at most finds
  its own to be the last (`FlushInv`); unless the exchange fails one does.
* `CleanInv` and `ReportInv`: nothing is written after the flush without transactions, and
  the leader reports when all have left the loop.

`SessionProofs`, for every list of databases and plans of workloads, and any number of
sessions that end, fail or are killed anywhere: `TypeCorrect`, `MergeIsUpdateAlways`,
`ResultsKeptAlways`, `InitStartsEmptyAlways`, and `IsolatedOutsideDocker`. The invariant
says what each place of the script and of the process knows (`ScriptInv`, `JobInv`); that
what is measured is a prefix of the job, and the in-progress file all of it once the merge
has begun (`MeasuredInv`); that the first `updated` new results have taken the places of
their workloads, no workload has two and all others are as in the file (`MergeInv`, the
loop invariant of the merge); and that a whole file keeps everything up to `latest`
(`KeptInv`), also while the result of the merge is only in memory. `IsolatedWhenAsked`
rests on `ColdInv`, which does not hold in docker, where no caches are dropped: the theorem
has that as its hypothesis and `MC_Session` as its constant.

`MeasurementProofs`, for every delay, number of operations and speed of the threads:
`TimesNestedAlways`, `AverageOfSamplesAlways` and `StatsSampledAlways`. `WatchInv` says which
clock runs at which place and orders the times on them, running clocks included, which makes
`TimesNested` inductive: the time of the operations holds all calls and the preparation of
what does not pause, and the preparation of batches is in the elapsed time only. `SumInv`
ties the average kept in integers to the sum of the samples: each division loses less than
one. `PromptInv` follows each profiler to its first sample: it is `Ready` until it has it,
or the leader's sleep is not over yet.

`WorkerProofs`, for all workloads with the two assumptions above and any number of threads:
`TypeCorrect`, `BuffersFitAlways`, `DrawnKeysExistAlways` and `PureInsertsAreNewAlways`.
`DrawInv` says that the keys drawn so far are keys of loaded records and differ, for which
`PlaceInv` is needed: the limit never moves, as the pointer it is guarded by is null. For the
insertions, `SequenceInv` bounds the counter of a thread by the operations it has left, so
that it stays within its part, and `OwnersInv` says that a key in the database was loaded or
is one a thread has counted past; as the parts are disjoint the next one is new.

`RocksDBProofs`, for every number of threads, all keys of two bytes of any size, and all
workloads that follow each other in any order, with an engine that fails or not:

* `TypeCorrect`, `ValuesFitAlways` and `FlushSettlesAlways`, from `RocksInv`. `CallInv` says that
  a thread in a call performs an operation of the workload on an open database; `FitInv` that
  no buffer is longer than the longest batch of the workload that runs, for which it must be
  empty while the database is closed; `SettledInv` that the flush knows of everything there
  is to settle. A bulk load never leaves a file, as its keys are in the engine's order
  (`SlicesSorted`), which is what turning them round is for.
* `RocksImplementsDataAccessor`: every step maps to a step of `DataAccessor` or to none, for
  workloads with `ShippedMixes`. `PutInv` is the addition it needs: the key an update has
  found is still there when it writes. The lemmas about `Swap` carry the argument: turning
  round is its own inverse on keys (`SwapTwice`) and keeps cardinalities (`SwappedCount`), and
  the first entries in the order of bytes are the first keys in theirs (`IteratedInOrder`).
  `ShippedMixes` is needed twice, as `MC_RocksDBBatchRead` shows for one half of it: for the
  buffer of a batch of reads to hold that batch and no more (`BufferIsBatch`), and for
  `PutInv`. Without either the code does not do what the interface says.

`AdaptersProofs`, for every number of threads, all keys, pools and chunks of any size, all
workloads that follow each other in any order, and whichever of the databases is tried:

* `AdaptersTypeCorrect`, `ClosedCleanAlways` and `ClientsOwnedAlways`, from `AdaptersInv`. Its
  first part, `CallInv`, is about all adapters: a call is made of an open database, and for an
  operation of the workload. The others tie what an adapter keeps to the threads in calls:
  the writer of LMDB is the thread whose transaction has begun (`WriterInv`), the clients in
  use of MongoDB are those of the threads in the middle of a call (`PoolInv`), the bulk cursor
  is there only while the database is open (`BulkInv`), and only threads of the workload have
  clients of UStore or something in a transaction (`ClientInv`, `TransactionInv`). So nothing
  is left when no thread is in a call, which `ClosedClean` alone, speaking of the closed
  database only, does not say. Of the Flight client `ClientInv` says that its counter is the
  number of threads served, which is why it never runs past the clients made. An adapter is
  an instance with operators of its own; for each of them a lemma says that they are those
  of `Caller` (`LevelDBCallers` ...), one what a thread in a call does (`...Works`), and one
  that all its steps keep the invariant (`...Keeps`).
* `ScanTouchesAllAlways`, with `ShippedMixes`: in a workload of scans nobody writes, so that
  the entries a scan has counted are still those of the database when its result is taken
  (`ScanInv`, `ScanStep`). The arithmetic is in the lemmas: the first entries of a set in
  either order are all of it if there is room (`AllFirst`), and chunks that begin a chunk's
  length after each other cut the keys into disjoint intervals (`ChunksCover`), so that none
  is skipped or counted twice. Keys with gaps, which make a chunk reach beyond its length,
  are where UStore's scans overlap.

* `AdaptersImplementDataAccessor`, with `ShippedMixes` and `OneBatchLength`: every step of
  every adapter maps to a step of `DataAccessor` or to none. What the interface's database
  maps to is what the threads hold together: the data with the writes that transactions have
  not committed. A thread whose RocksDB transaction is spent counts as lossy, and what it
  holds is left out (`Coming` is what will be committed). A call is allowed three outcomes
  (`Exact`, `Failed`, `Loosely`) where `spent` does not change, and one more (`Lossily`)
  where it may; `OutcomeRefines`, `TurnsLossy`, `PerformsLossily` and `EndsLossy` (of the
  destructor) show them to be steps of `DataAccessor`; so it is left for each adapter to
  show that one step of each of its calls has one of the outcomes, and that the others, and
  opening, flushing and closing, change nothing (`LevelDBRefines` ...). Five things must be
  known of the moment when a call takes effect (`RefineInv`): that the key LevelDB's update
  has found is still there (`PutInv`); that only loads go through WiredTiger's bulk cursor
  (`LoadInv`); that the keys MongoDB looks up are those of this batch and of none before
  (`LookupInv`); that UCSet, whose database lives in its leader's client, is not made anew
  while there are data (`KeptInv`); and that the transactions of a workload either all put
  or all delete, and that those of one that reads batches or ranges are empty, and only
  those of RocksDB are spent (`PendingInv`). The last is why committing one transaction does
  not change what they hold together, and why a read that looks past the transactions of
  others misses nothing. Of transactions on an engine that fails nothing is promised
  (`Promised`), as the result of the commit in the destructor is dropped: there the mapping
  shows an idle `DataAccessor`, and the theorem says nothing. `ShippedMixes` is needed for
  `PutInv` and `PendingInv`; `OneBatchLength` for the buffer of RocksDB's transactions, as
  in `RocksDB`.

Only model-checked: liveness, which TLAPS does not prove. Every other property of a run that
is expected to pass is a theorem.

## 5. Not modelled, and the plan

Assumed of what is external. Engines: atomic writes, reads of what was written, and
iterators that do not fail midway; a RocksDB transaction may be used on after a commit,
as the code does, and refuses to be committed again (UStore's may do either); keys are the
only thing that fails or is found, since values are all of the workload's length. MongoDB
counts a document as modified because values differ. All writes of one RocksDB batch in a
transaction wait for their locks in one step. `create_transaction` of UStore maps a client
as a first call does. The build is a release build, without assertions.

Left out of the adapters: options and configuration files, `info`, `size_on_disk`, and the
copying of values, which in some places is not what it should be (`mongodb.hpp:237`
writes to the index of the key, not to its offset; `redis.hpp:177` and `redis.hpp:240` copy
the optional string object itself): keys are modelled, and bytes of values are not.

Left out elsewhere:

* `workload.hpp:84-185`, parsing of workload files into `workload_t`: no state, and the result
  is the input of `WorkloadSplit`. (The last of its checks, `workload.hpp:177`, tests
  `key_dist` again where the one before it would suggest `range_select_length_dist`.)
* The console reporter and formatting: no state the program acts on.
* The window of the acknowledged counter (`acknowledged_counter_generator.hpp:12-36`): no
  worker reaches it, since the pointer it is guarded by has been moved from
  (`worker.hpp:101`); see the hazard there.
* How often each key is drawn. Which keys can be drawn at all matters to what is promised and
  is in `reach`.
* Percentages of the processor, which are floats; and the overflow of `avg * (n - 1)`
  in the memory's profiler, which takes more samples than a benchmark has.
* Arguments, JSON, build files, shell scripts and configurations; the engines themselves.

Nothing is left of the plan. What could be added is the overlap of UStore's scans over
keys with gaps, which needs a reference for what such a scan counts, and the
refinement for workloads that mix updates with removals, which the code does not satisfy.
