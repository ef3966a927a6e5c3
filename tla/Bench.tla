-------------------------------- MODULE Bench --------------------------------
(***************************************************************************)
(* The benchmark driver (src/src/bench.cxx): how the worker threads run    *)
(* the workloads one after another on one shared database, what they share *)
(* while they do (the progress counters), and who opens, flushes, measures *)
(* and closes the database when.                                           *)
(*                                                                         *)
(* An operation of a worker is one call of the database whose result is    *)
(* good or bad; a good one leaves data behind, and a bad one stands for    *)
(* the calls that do not.  The two barriers the threads meet at are        *)
(* instances of Rendezvous: the fence of the program, which ThreadsFence   *)
(* shows to implement it, and the start/stop barrier of the Google         *)
(* Benchmark library, which is external.                                   *)
(***************************************************************************)
EXTENDS Integers, FiniteSets, FiniteSetsExt

CONSTANTS
  Threads,        \* the worker threads
  Leader,         \* the one with thread_index() = 0
  Workloads,      \* how many workloads the program runs
  Operations,     \* Operations[w][t]: operations_count of thread t in workload w
  Modes,          \* the values of settings.transactional that are tried
  DbMayFail,      \* may open() or create_transaction() fail?
  SpuriousCAS,    \* the values of spurious that are tried
  Word            \* 2^w, w the width of size_t

ASSUME BenchAssumption ==
  /\ IsFiniteSet(Threads) /\ Leader \in Threads
  /\ Workloads \in Nat
  /\ Operations \in [1..Workloads -> [Threads -> Nat \ {0}]]
  /\ Modes \subseteq BOOLEAN /\ DbMayFail \in BOOLEAN /\ SpuriousCAS \subseteq BOOLEAN
  /\ Word \in Nat \ {0}

VARIABLES
  transactional, \* settings.transactional
  spurious,      \* may compare_exchange_weak fail although the values match?
  run,           \* the workload being run, 0 before the first
  pc,            \* what each thread does next
  aborted,       \* an exception left bench(): the program is over
  \* the shared database
  db,            \* "closed" or "open"
  dirty,         \* does it hold data written since the last flush?
  txn,           \* the transaction of each thread: "none", "clean" or "dirty"
  \* the static progress_t, shared by all threads
  total, touched, failed, done, lastPrinted,
  \* locals of each thread
  left,          \* thread_iterations
  good,          \* status of the last operation
  mine,          \* done_iterations, what its own increment returned
  seen,          \* the done_iterations it loaded last
  doFlash,       \* do_flash
  \* what the leader reports at the end of a workload
  report,
  \* the two barriers
  fenceArrived, fencePassed, startArrived, startPassed,
  \* auxiliary: successful operations and flushes of this workload
  goodOnes, flushes

settings == <<transactional, spurious>>
current  == <<settings, run>>
progress == <<total, touched, failed, done, lastPrinted>>
locals   == <<left, good, mine, seen, doFlash>>
database == <<db, dirty, txn>>
barriers == <<fenceArrived, fencePassed, startArrived, startPassed>>
auxiliary == <<goodOnes, flushes>>

vars == <<current, pc, aborted, database, progress, locals, report, barriers, auxiliary>>

Fence == INSTANCE Rendezvous WITH arrived <- fenceArrived, passed <- fencePassed
Start == INSTANCE Rendezvous WITH arrived <- startArrived, passed <- startPassed

NoReport == [touched |-> 0, failed |-> 0, done |-> 0, flushed |-> TRUE]

Init ==
  /\ transactional \in Modes /\ spurious \in SpuriousCAS
  /\ run = 0 /\ aborted = FALSE
  /\ pc = [t \in Threads |-> "idle"]
  /\ db = "closed" /\ dirty = FALSE
  /\ txn = [t \in Threads |-> "none"]
  /\ total = 0 /\ touched = 0 /\ failed = 0 /\ done = 0 /\ lastPrinted = 0
  /\ left = [t \in Threads |-> 0]
  /\ good = [t \in Threads |-> FALSE]
  /\ mine = [t \in Threads |-> 0]
  /\ seen = [t \in Threads |-> 0]
  /\ doFlash = [t \in Threads |-> TRUE]
  /\ report = NoReport
  /\ Fence!Init /\ Start!Init
  /\ goodOnes = 0 /\ flushes = 0

\* Thread t goes on from one place to the next while the program lives.
At(t, place) == ~aborted /\ pc[t] = place
Goto(t, place) == pc' = [pc EXCEPT ![t] = place]
\* An exception nobody catches before main, or std::terminate: all is over.
Throw == aborted' = TRUE /\ UNCHANGED pc
-----------------------------------------------------------------------------
\* The next registered benchmark starts its threads when those of the one
\* before have been joined.  It reads nothing of theirs: the locals are new.
StartWorkload ==
  /\ ~aborted /\ run < Workloads
  /\ \A t \in Threads : pc[t] = "idle"
  /\ run' = run + 1
  /\ pc' = [t \in Threads |-> IF t = Leader THEN "open" ELSE "arrive_open"]
  /\ left' = [t \in Threads |-> Operations[run + 1][t]]
  /\ doFlash' = [t \in Threads |-> TRUE]
  /\ goodOnes' = 0 /\ flushes' = 0
  /\ UNCHANGED <<settings, aborted, database, progress, good, mine, seen,
                 report, barriers>>

Open(t) ==
  /\ At(t, "open")
  /\ \/ /\ db' = "open"
        /\ Goto(t, "arrive_open")
        /\ UNCHANGED aborted
     \/ DbMayFail /\ Throw /\ UNCHANGED db
  /\ UNCHANGED <<current, dirty, txn, progress, locals, report, barriers, auxiliary>>

\* The two halves of fence.sync(), before and after the benchmark.
ArriveFence(t) ==
  /\ \/ At(t, "arrive_open")  /\ Goto(t, "pass_open")
     \/ At(t, "arrive_close") /\ Goto(t, "pass_close")
  /\ Fence!Arrive(t)
  /\ UNCHANGED <<current, aborted, database, progress, locals, report,
                 startArrived, startPassed, auxiliary>>

PassFence(t) ==
  /\ \/ At(t, "pass_open")  /\ Goto(t, "begin")
     \/ At(t, "pass_close") /\ Goto(t, IF t = Leader THEN "close" ELSE "idle")
  /\ Fence!Pass(t)
  /\ UNCHANGED <<current, aborted, database, progress, locals, report,
                 startArrived, startPassed, auxiliary>>

\* db.create_transaction(), in transactional mode.
Begin(t) ==
  /\ At(t, "begin")
  /\ \/ /\ txn' = IF transactional THEN [txn EXCEPT ![t] = "clean"] ELSE txn
        /\ Goto(t, "add_total")
        /\ UNCHANGED aborted
     \/ transactional /\ DbMayFail /\ Throw /\ UNCHANGED txn
  /\ UNCHANGED <<current, db, dirty, progress, locals, report, barriers, auxiliary>>

AddTotal(t) ==
  /\ At(t, "add_total")
  /\ total' = total + Operations[run][t]
  /\ Goto(t, "arrive_start")
  /\ UNCHANGED <<current, aborted, database, touched, failed, done, lastPrinted,
                 locals, report, barriers, auxiliary>>

\* The first and the second call of KeepRunningBatch: all threads meet before
\* the only batch and after it.
ArriveStart(t) ==
  /\ \/ At(t, "arrive_start") /\ Goto(t, "pass_start")
     \/ At(t, "arrive_stop")  /\ Goto(t, "pass_stop")
  /\ Start!Arrive(t)
  /\ UNCHANGED <<current, aborted, database, progress, locals, report,
                 fenceArrived, fencePassed, auxiliary>>

PassStart(t) ==
  /\ \/ At(t, "pass_start") /\ Goto(t, "operate")
     \/ At(t, "pass_stop")  /\ Goto(t, IF t = Leader THEN "conclude" ELSE "leave")
  /\ Start!Pass(t)
  /\ UNCHANGED <<current, aborted, database, progress, locals, report,
                 fenceArrived, fencePassed, auxiliary>>
-----------------------------------------------------------------------------
\* One operation: the call of the database, or of the thread's transaction.
Operate(t) ==
  /\ At(t, "operate")
  /\ \E ok \in BOOLEAN :
       /\ good' = [good EXCEPT ![t] = ok]
       /\ goodOnes' = IF ok THEN goodOnes + 1 ELSE goodOnes
       /\ dirty' = (dirty \/ (ok /\ ~transactional))
       /\ txn' = IF ok /\ transactional THEN [txn EXCEPT ![t] = "dirty"] ELSE txn
  /\ Goto(t, "tally")
  /\ UNCHANGED <<current, aborted, db, progress, left, mine, seen, doFlash, report,
                 barriers, flushes>>

\* The increments of entries_touched, bytes_processed (a multiple of it) and
\* failed_iterations, which nobody reads for more than a printed line before
\* all threads have met again.
Tally(t) ==
  /\ At(t, "tally")
  /\ touched' = IF good[t] THEN touched + 1 ELSE touched
  /\ failed'  = IF good[t] THEN failed ELSE failed + 1
  /\ Goto(t, "count")
  /\ UNCHANGED <<current, aborted, database, total, done, lastPrinted, locals,
                 report, barriers, auxiliary>>

Count(t) ==
  /\ At(t, "count")
  /\ done' = done + 1
  /\ mine' = [mine EXCEPT ![t] = done + 1]
  /\ Goto(t, "load_done")
  /\ UNCHANGED <<current, aborted, database, total, touched, failed, lastPrinted,
                 left, good, seen, doFlash, report, barriers, auxiliary>>

\* is_time_to_print: a load of done, and then a load of last_printed, which
\* another thread may have taken further; the difference is unsigned.
LoadDone(t) ==
  /\ At(t, "load_done")
  /\ seen' = [seen EXCEPT ![t] = done]
  /\ Goto(t, "load_printed")
  /\ UNCHANGED <<current, aborted, database, progress, left, good, mine, doFlash,
                 report, barriers, auxiliary>>

PrintStep == Max({total \div 20, 1})

LoadPrinted(t) ==
  /\ At(t, "load_printed")
  /\ LET itIsTime == \/ (seen[t] - lastPrinted) % Word >= PrintStep
                     \/ seen[t] = total
     IN  Goto(t, IF itIsTime THEN "print" ELSE "judge")
  /\ UNCHANGED <<current, aborted, database, progress, locals, report, barriers, auxiliary>>

\* print() remembers what is done by now, in a load and a store.
PrintLine(t) ==
  /\ At(t, "print")
  /\ seen' = [seen EXCEPT ![t] = done]
  /\ Goto(t, "store_printed")
  /\ UNCHANGED <<current, aborted, database, progress, left, good, mine, doFlash,
                 report, barriers, auxiliary>>

\* Mistake: prints as long as, instead of if, it is time to print.
StorePrintedInLoop(t) ==
  /\ At(t, "store_printed")
  /\ lastPrinted' = seen[t]
  /\ Goto(t, "load_done")
  /\ UNCHANGED <<current, aborted, database, total, touched, failed, done, locals,
                 report, barriers, auxiliary>>

StorePrinted(t) ==
  /\ At(t, "store_printed")
  /\ lastPrinted' = seen[t]
  /\ Goto(t, "judge")
  /\ UNCHANGED <<current, aborted, database, total, touched, failed, done, locals,
                 report, barriers, auxiliary>>

\* Mistake: one iteration too many.
NextIterationOnceMore(t) ==
  /\ left' = [left EXCEPT ![t] = @ - 1]
  /\ Goto(t, IF left[t] < 0 THEN "arrive_stop" ELSE "operate")

\* After the operation: another one, or the stop barrier.
NextIteration(t) ==
  /\ left' = [left EXCEPT ![t] = @ - 1]
  /\ Goto(t, IF left[t] = 1 THEN "arrive_stop" ELSE "operate")

\* Mistakes: a thread flushes after its own last operation, not after the last
\* one of all; or it tests the progress it has loaded, which two threads may
\* see complete; or only the leader flushes.
JudgeWhen(t, flashes) ==
  /\ At(t, "judge")
  /\ IF flashes THEN Goto(t, "flush") /\ UNCHANGED left ELSE NextIteration(t)
  /\ UNCHANGED <<current, aborted, database, progress, good, mine, seen, doFlash,
                 report, barriers, auxiliary>>
JudgeOwnLast(t)    == JudgeWhen(t, left[t] = 1)
JudgeSeen(t)       == JudgeWhen(t, seen[t] = total)
JudgeLeaderLast(t) == JudgeWhen(t, t = Leader /\ left[t] = 1)

\* is_last_iteration && do_flash.compare_exchange_weak(...)
Judge(t) ==
  /\ At(t, "judge")
  /\ LET flashes == mine[t] = total /\ doFlash[t]
     IN  \/ /\ flashes
            /\ doFlash' = [doFlash EXCEPT ![t] = FALSE]
            /\ Goto(t, "flush")
            /\ UNCHANGED left
         \/ /\ ~flashes \/ spurious
            /\ NextIteration(t)
            /\ UNCHANGED doFlash
  /\ UNCHANGED <<current, aborted, database, progress, good, mine, seen, report,
                 barriers, auxiliary>>

Flush(t) ==
  /\ At(t, "flush")
  /\ dirty' = FALSE
  /\ flushes' = flushes + 1
  /\ NextIteration(t)
  /\ UNCHANGED <<current, aborted, db, txn, progress, good, mine, seen, doFlash,
                 report, barriers, goodOnes>>
-----------------------------------------------------------------------------
\* The leader reads the counters and the size on disk ...
Conclude(t) ==
  /\ At(t, "conclude")
  /\ report' = [touched |-> touched, failed |-> failed, done |-> done,
                flushed |-> ~dirty /\ \A u \in Threads : txn[u] # "dirty"]
  /\ Goto(t, "clear")
  /\ UNCHANGED <<current, aborted, database, progress, locals, barriers, auxiliary>>

\* Mistake: some counters are forgotten.
ClearAllBut(t, keepsFailed, keepsPrinted) ==
  /\ At(t, "clear")
  /\ total' = 0 /\ touched' = 0 /\ done' = 0
  /\ failed' = IF keepsFailed THEN failed ELSE 0
  /\ lastPrinted' = IF keepsPrinted THEN lastPrinted ELSE 0
  /\ Goto(t, "leave")
  /\ UNCHANGED <<current, aborted, database, locals, report, barriers, auxiliary>>
ClearNotFailed(t)  == ClearAllBut(t, TRUE, FALSE)
ClearNotPrinted(t) == ClearAllBut(t, FALSE, TRUE)

\* ... and clears the shared progress for the next workload.
Clear(t) ==
  /\ At(t, "clear")
  /\ total' = 0 /\ touched' = 0 /\ failed' = 0 /\ done' = 0 /\ lastPrinted' = 0
  /\ Goto(t, "leave")
  /\ UNCHANGED <<current, aborted, database, locals, report, barriers, auxiliary>>

\* Mistake: the leader closes the database without waiting for the others.
LeaveAndClose(t) ==
  /\ At(t, "leave")
  /\ dirty' = (dirty \/ txn[t] = "dirty")
  /\ txn' = [txn EXCEPT ![t] = "none"]
  /\ Goto(t, IF t = Leader THEN "close" ELSE "arrive_close")
  /\ UNCHANGED <<current, aborted, db, progress, locals, report, barriers, auxiliary>>

\* The transaction of the thread goes out of scope, which commits it.
Leave(t) ==
  /\ At(t, "leave")
  /\ dirty' = (dirty \/ txn[t] = "dirty")
  /\ txn' = [txn EXCEPT ![t] = "none"]
  /\ Goto(t, "arrive_close")
  /\ UNCHANGED <<current, aborted, db, progress, locals, report, barriers, auxiliary>>

\* db.close() also flushes (db.hpp, step 4 of the usage).
Close(t) ==
  /\ At(t, "close")
  /\ db' = "closed"
  /\ dirty' = FALSE
  /\ Goto(t, "idle")
  /\ UNCHANGED <<current, aborted, txn, progress, locals, report, barriers, auxiliary>>

Step(t) ==
  \/ Open(t) \/ ArriveFence(t) \/ PassFence(t) \/ Begin(t) \/ AddTotal(t)
  \/ ArriveStart(t) \/ PassStart(t)
  \/ Operate(t) \/ Tally(t) \/ Count(t) \/ LoadDone(t) \/ LoadPrinted(t)
  \/ PrintLine(t) \/ StorePrinted(t) \/ Judge(t) \/ Flush(t)
  \/ Conclude(t) \/ Clear(t) \/ Leave(t) \/ Close(t)

Finished == aborted \/ (run = Workloads /\ \A t \in Threads : pc[t] = "idle")
Terminated == Finished /\ UNCHANGED vars

Next == StartWorkload \/ (\E t \in Threads : Step(t)) \/ Terminated

\* The library goes on to the next benchmark, and the system runs each thread.
Fairness == WF_vars(StartWorkload) /\ \A t \in Threads : WF_vars(Step(t))

Spec == Init /\ [][Next]_vars /\ Fairness
-----------------------------------------------------------------------------
\* The places of a thread that may call the database.
Using == { "begin", "add_total", "arrive_start", "pass_start", "operate", "tally",
           "count", "load_done", "load_printed", "print", "store_printed", "judge",
           "flush", "arrive_stop", "pass_stop", "conclude", "clear", "leave" }
Places == Using \cup { "idle", "open", "arrive_open", "pass_open",
                       "arrive_close", "pass_close", "close" }

TypeOK ==
  /\ transactional \in BOOLEAN /\ spurious \in BOOLEAN
  /\ run \in 0..Workloads
  /\ aborted \in BOOLEAN
  /\ pc \in [Threads -> Places]
  /\ db \in {"closed", "open"} /\ dirty \in BOOLEAN
  /\ txn \in [Threads -> {"none", "clean", "dirty"}]
  /\ total \in Nat /\ touched \in Nat /\ failed \in Nat /\ done \in Nat
  /\ lastPrinted \in Nat
  /\ left \in [Threads -> Nat] /\ mine \in [Threads -> Nat] /\ seen \in [Threads -> Nat]
  /\ good \in [Threads -> BOOLEAN] /\ doFlash \in [Threads -> BOOLEAN]
  /\ report \in [touched : Nat, failed : Nat, done : Nat, flushed : BOOLEAN]
  /\ fenceArrived \in [Threads -> Nat] /\ fencePassed \in [Threads -> Nat]
  /\ startArrived \in [Threads -> Nat] /\ startPassed \in [Threads -> Nat]
  /\ goodOnes \in Nat /\ flushes \in Nat

\* The n-th operation of thread t, for each n up to f[t].
Numbered(f) == UNION { {t} \X (1..f[t]) : t \in Threads }

\* All operations of the current workload.
OperationsOfAll == Cardinality(Numbered(Operations[run]))

\* No thread touches a database that is not open yet or closed already: what
\* the fence of bench.cxx is for.
OpenWhileUsed == \A t \in Threads : pc[t] \in Using => db = "open"

\* The flush comes after every operation of every thread has been performed
\* and counted, and runs beside none ("Last thread flushes the DB"); and when a
\* workload is concluded there has been one flush, or none if the exchange has
\* failed without a reason.
FlushIsLast ==
  /\ \A t \in Threads : pc[t] = "flush" =>
       /\ done = OperationsOfAll
       /\ \A u \in Threads \ {t} : pc[u] \notin {"operate", "tally", "count", "flush"}
  /\ pc[Leader] \in {"conclude", "clear"} => flushes = 1 \/ (spurious /\ flushes = 0)

\* What the leader reports of a workload is exact: it counts each operation of
\* each thread in this workload, once, and nothing of an earlier workload.
ExactReport ==
  pc[Leader] = "clear" => /\ report.touched = goodOnes
                          /\ report.done = OperationsOfAll
                          /\ report.failed = OperationsOfAll - goodOnes

\* The printed progress is never ahead of the progress, so the unsigned
\* difference in is_time_to_print can only wrap on a stale load.
PrintedBehind == lastPrinted <= done

\* The size on disk is read when all that the workload wrote has been flushed.
SizeReadAfterFlush == report.flushed

\* So it is when the operations write to the database itself, and the exchange that
\* lets one thread flush does not fail without a reason.
DirectSizeAfterFlush == ~transactional /\ ~spurious => SizeReadAfterFlush

\* All workloads are run to their end, or an exception ends the program: no
\* thread waits at a barrier for ever.
EveryWorkloadEnds == <>Finished
=============================================================================
