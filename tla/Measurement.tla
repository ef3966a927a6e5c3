----------------------------- MODULE Measurement -----------------------------
(***************************************************************************)
(* How the leading thread of a workload measures (bench() in               *)
(* src/src/bench.cxx): its timer (src/src/core/timer.hpp), which the       *)
(* worker pauses while it prepares a batch and lets run while it prepares  *)
(* any other operation (src/src/core/worker.hpp:121-193), the timer of     *)
(* Google Benchmark, which is external, and the two threads that sample    *)
(* the load of the processor and the memory                                *)
(* (src/src/core/profiler.hpp).  Time passes in Tick; a sleeping thread    *)
(* goes on at its time or, unless prompt is set, later.                    *)
(***************************************************************************)
EXTENDS Integers, FiniteSets, Sequences

CONSTANTS
  Operations,   \* of the thread
  Delay,        \* request_delay_
  Usages,       \* what a sample of the memory may be, bytes
  Limit         \* how long the operations may take together

ASSUME MeasurementAssumption ==
  /\ Operations \in Nat \ {0} /\ Delay \in Nat \ {0}
  /\ Usages \subseteq Nat /\ Usages # {} /\ Limit \in Nat

Profilers == {"cpu", "mem"}

VARIABLES
  prompt,     \* are threads scheduled as soon as they may run?
  now,
  pc, left,   \* of the leading thread, and the operations it has left
  timer,      \* timer_t: [state, started, ops_started, elapsed, ops]
  bench,      \* benchmark::State: [running, total]
  to_stop,    \* the profilers that are to be stopped, in this order
  deadline,   \* the end of the sleep in cpu_profiler_t::stop
  die,        \* time_to_die_ of each profiler
  sampler,    \* where its thread is
  wake,       \* the end of the thread's sleep
  cpu,        \* [first_time, last_cpu, requests_count]
  mem,        \* stats_rss_, the same as stats_vms_: [min, max, avg, requests_count]
  \* auxiliary: the time spent preparing batches, the time spent in calls of the
  \* database and in making the data of single operations, the sum of all samples
  prepared, performed, sum

watches  == <<timer, bench>>
threads  == <<die, sampler, wake, cpu, mem, sum>>
ghosts   == <<prepared, performed>>
stopping == <<to_stop, deadline>>
vars == <<prompt, now, pc, left, watches, stopping, threads, ghosts>>

NoStats == [min |-> -1, max |-> 0, avg |-> 0, requests_count |-> 0]  \* -1: none yet

Init ==
  /\ prompt \in BOOLEAN /\ now = 0
  /\ pc = "start" /\ left = Operations
  /\ timer = [state |-> "stopped", started |-> 0, ops_started |-> 0, elapsed |-> 0, ops |-> 0]
  /\ bench = [running |-> FALSE, total |-> 0]
  /\ to_stop = << >> /\ deadline = 0
  /\ die = [p \in Profilers |-> TRUE]
  /\ sampler = [p \in Profilers |-> "none"]
  /\ wake = [p \in Profilers |-> 0]
  /\ cpu = [first_time |-> TRUE, last_cpu |-> 0, requests_count |-> 0]
  /\ mem = NoStats
  /\ prepared = 0 /\ performed = 0 /\ sum = 0

Goto(from, to) == pc = from /\ pc' = to

-----------------------------------------------------------------------------
\* The leading thread starts the profilers and the timer, and waits for the
\* others in KeepRunningBatch, which starts the timer of the library.
StartProfilers ==
  /\ Goto("start", "start_timer")
  /\ die' = [p \in Profilers |-> FALSE]
  /\ sampler' = [p \in Profilers |-> "sleep"]
  /\ wake' = [p \in Profilers |-> now]
  /\ UNCHANGED <<prompt, now, left, watches, stopping, cpu, mem, sum, ghosts>>

StartTimer ==
  /\ Goto("start_timer", "barrier")
  /\ timer' = [state |-> "running", started |-> now, ops_started |-> now,
               elapsed |-> 0, ops |-> 0]
  /\ UNCHANGED <<prompt, now, left, bench, stopping, threads, ghosts>>

\* Only the time of the leading thread passes here, so the others may be late.
KeepRunning ==
  /\ Goto("barrier", "choose")
  /\ bench' = [bench EXCEPT !.running = TRUE]
  /\ UNCHANGED <<prompt, now, left, timer, stopping, threads, ghosts>>

\* The next operation: a batch or a bulk, which pauses, or any other.
Choose ==
  /\ left > 0
  /\ Goto("choose", "generate") \/ Goto("choose", "pause")
  /\ UNCHANGED <<prompt, now, left, watches, stopping, threads, ghosts>>

\* The others make their key, value or length while both timers run.  What is
\* called next is the operation, or the read in front of a modification,
Generate ==
  /\ Goto("generate", "call") \/ Goto("generate", "read")
  /\ UNCHANGED <<prompt, now, left, watches, stopping, threads, ghosts>>

\* after which the value is made, and the update called.
Read ==
  /\ Goto("read", "modify")
  /\ UNCHANGED <<prompt, now, left, watches, stopping, threads, ghosts>>

Modify ==
  /\ Goto("modify", "call")
  /\ UNCHANGED <<prompt, now, left, watches, stopping, threads, ghosts>>

\* pause(): the library's timer first, then recalculate_operations_elapsed_time.
PauseBench ==
  /\ Goto("pause", "pause_timer")
  /\ bench' = [bench EXCEPT !.running = FALSE]
  /\ UNCHANGED <<prompt, now, left, timer, stopping, threads, ghosts>>

Counted(t) == [t EXCEPT !.ops = @ + (now - t.ops_started), !.ops_started = now]

PauseTimer ==
  /\ Goto("pause_timer", "prepare")
  /\ timer' = [Counted(timer) EXCEPT !.state = "paused"]
  /\ UNCHANGED <<prompt, now, left, bench, stopping, threads, ghosts>>

\* Mistake: the start time of the operations stays where it was.
ResumeKeepStart ==
  /\ Goto("prepare", "resume")
  /\ timer' = [timer EXCEPT !.state = "running"]
  /\ UNCHANGED <<prompt, now, left, bench, stopping, threads, ghosts>>

\* resume(), the other way round, when the data are prepared
ResumeTimer ==
  /\ Goto("prepare", "resume")
  /\ timer' = [timer EXCEPT !.state = "running", !.ops_started = now]
  /\ UNCHANGED <<prompt, now, left, bench, stopping, threads, ghosts>>

ResumeBench ==
  /\ Goto("resume", "call")
  /\ bench' = [bench EXCEPT !.running = TRUE]
  /\ UNCHANGED <<prompt, now, left, timer, stopping, threads, ghosts>>

\* The call of the database returns; it may be time to print.
Call ==
  /\ Goto("call", "choose") \/ Goto("call", "print")
  /\ left' = left - 1
  /\ UNCHANGED <<prompt, now, watches, stopping, threads, ghosts>>

\* Mistake: the destructor of the processor's profiler does not stop it.
ThrowStopMem ==
  /\ Goto("call", "stop") \/ Goto("read", "stop")
  /\ to_stop' = <<"mem">>
  /\ UNCHANGED <<prompt, now, left, watches, deadline, threads, ghosts>>

\* An exception: the destructors stop the profilers, the last one first.
Throw ==
  /\ Goto("call", "stop") \/ Goto("read", "stop")
  /\ to_stop' = <<"mem", "cpu">>
  /\ UNCHANGED <<prompt, now, left, watches, deadline, threads, ghosts>>

\* operations_elapsed_time() and elapsed_time(), which count up to now.
PrintTimes ==
  /\ Goto("print", "choose")
  /\ timer' = [Counted(timer) EXCEPT !.elapsed = @ + (now - timer.started), !.started = now]
  /\ UNCHANGED <<prompt, now, left, bench, stopping, threads, ghosts>>

StopBench ==
  /\ left = 0 /\ Goto("choose", "stop_timer")
  /\ bench' = [bench EXCEPT !.running = FALSE]
  /\ UNCHANGED <<prompt, now, left, timer, stopping, threads, ghosts>>

\* Mistake: the profiler of the memory is stopped first.
StopTimerMemFirst ==
  /\ Goto("stop_timer", "stop")
  /\ timer' = [Counted(timer) EXCEPT !.state = "stopped"]
  /\ to_stop' = <<"mem", "cpu">>
  /\ UNCHANGED <<prompt, now, left, bench, deadline, threads, ghosts>>

StopTimer ==
  /\ Goto("stop_timer", "stop")
  /\ timer' = [Counted(timer) EXCEPT !.state = "stopped"]
  /\ to_stop' = <<"cpu", "mem">>
  /\ UNCHANGED <<prompt, now, left, bench, deadline, threads, ghosts>>

\* stop() of the profilers: that of the processor's sleeps first.
Stop ==
  /\ to_stop # << >>
  /\ Goto("stop", "tell")
  /\ deadline' = IF Head(to_stop) = "cpu" THEN now + Delay + 1 ELSE now
  /\ UNCHANGED <<prompt, now, left, watches, to_stop, threads, ghosts>>

Tell ==
  /\ Goto("tell", "join") /\ now >= deadline
  /\ die' = [die EXCEPT ![Head(to_stop)] = TRUE]
  /\ UNCHANGED <<prompt, now, left, watches, stopping, sampler, wake, cpu, mem, sum, ghosts>>

Join ==
  /\ Goto("join", "stop") /\ sampler[Head(to_stop)] = "exited"
  /\ sampler' = [sampler EXCEPT ![Head(to_stop)] = "none"]
  /\ to_stop' = Tail(to_stop)
  /\ UNCHANGED <<prompt, now, left, watches, deadline, die, wake, cpu, mem, sum, ghosts>>

\* The leading thread reads the statistics, unless there was an exception.
Report ==
  /\ to_stop = << >> /\ Goto("stop", "done")
  /\ UNCHANGED <<prompt, now, left, watches, stopping, threads, ghosts>>

Leading ==
  \/ StartProfilers \/ StartTimer \/ KeepRunning \/ Choose \/ Generate \/ Read \/ Modify
  \/ PauseBench \/ PauseTimer \/ ResumeTimer \/ ResumeBench
  \/ Call \/ Throw \/ PrintTimes
  \/ StopBench \/ StopTimer \/ Stop \/ Tell \/ Join \/ Report

-----------------------------------------------------------------------------
\* The threads of the profilers: when it is time, and nobody has told them to die,
Wake(p) ==
  /\ sampler[p] = "sleep" /\ now >= wake[p]
  /\ sampler' = [sampler EXCEPT ![p] = IF die[p] THEN "exited" ELSE "sample"]
  /\ UNCHANGED <<prompt, now, pc, left, watches, stopping, die, wake, cpu, mem, sum, ghosts>>

Sleep(p) ==
  /\ sampler[p] = "sample"
  /\ sampler' = [sampler EXCEPT ![p] = "sleep"]
  /\ wake' = [wake EXCEPT ![p] = now + Delay]

\* they take a sample and sleep.  The first one of the processor has nothing
\* to be compared with, nor has one at the same tick as the last.
SampleCpu ==
  /\ Sleep("cpu")
  /\ LET counts == ~cpu.first_time /\ now > cpu.last_cpu
     IN  cpu' = [first_time |-> cpu.first_time /\ counts, last_cpu |-> now,
                 requests_count |-> cpu.requests_count + IF counts THEN 1 ELSE 0]
  /\ UNCHANGED <<prompt, now, pc, left, watches, stopping, die, mem, sum, ghosts>>

\* Mistake: the average is that of the last average and the sample.
RecalculatedHalf(m, x) ==
  [min |-> IF m.min = -1 \/ x < m.min THEN x ELSE m.min,
   max |-> IF x > m.max THEN x ELSE m.max,
   avg |-> (m.avg + x) \div 2,
   requests_count |-> m.requests_count + 1]

\* recalculate(), in integers
Recalculated(m, x) ==
  LET n == m.requests_count + 1
  IN  [min |-> IF m.min = -1 \/ x < m.min THEN x ELSE m.min,
       max |-> IF x > m.max THEN x ELSE m.max,
       avg |-> (m.avg * (n - 1) + x) \div n,
       requests_count |-> n]

SampleMem ==
  /\ Sleep("mem")
  /\ \E x \in Usages : mem' = Recalculated(mem, x) /\ sum' = sum + x
  /\ UNCHANGED <<prompt, now, pc, left, watches, stopping, die, cpu, ghosts>>

Sampling(p) == Wake(p) \/ (p = "cpu" /\ SampleCpu) \/ (p = "mem" /\ SampleMem)

-----------------------------------------------------------------------------
\* Time passes: while the leading thread is at work, up to the bound, and as long
\* as it sleeps or waits for a thread that does.
Waiting ==
  \/ pc = "tell" /\ now < deadline
  \/ pc = "join" /\ sampler[Head(to_stop)] = "sleep" /\ now < wake[Head(to_stop)]

\* A profiler's thread that could run.
Ready(p) == sampler[p] = "sample" \/ (sampler[p] = "sleep" /\ now >= wake[p])

Tick ==
  /\ \/ now < Limit /\ pc \notin {"stop", "tell", "join", "done"}
     \/ Waiting
  /\ prompt => ~(\E p \in Profilers : Ready(p))
  /\ now' = now + 1
  /\ bench' = IF bench.running THEN [bench EXCEPT !.total = @ + 1] ELSE bench
  /\ prepared' = IF pc = "prepare" THEN prepared + 1 ELSE prepared
  /\ performed' = IF pc \in {"generate", "read", "modify", "call"} THEN performed + 1
                                                                  ELSE performed
  /\ UNCHANGED <<prompt, pc, left, timer, stopping, threads>>

Terminated == pc = "done" /\ UNCHANGED vars

Next == Leading \/ (\E p \in Profilers : Sampling(p)) \/ Tick \/ Terminated

\* The system runs all threads, and time goes on.
Fairness ==
  /\ WF_vars(Leading) /\ WF_vars(Waiting /\ Tick)
  /\ \A p \in Profilers : WF_vars(Sampling(p))

Spec == Init /\ [][Next]_vars /\ Fairness

-----------------------------------------------------------------------------
\* The time that operations per second are counted with (the library's) has all
\* calls of the database in it, and so has the one the program prints: pause() and
\* resume() stop the one clock inside the other.  The preparation of a batch is in
\* neither, only in the elapsed time; that of the other operations, which do not
\* pause, is in both.
TimesNested ==
  LET operations == timer.ops + IF timer.state = "running" THEN now - timer.ops_started ELSE 0
      elapsed    == timer.elapsed + (now - timer.started)
  IN  /\ performed <= bench.total /\ bench.total <= operations
      /\ timer.state = "running" => operations + prepared <= elapsed

\* What is reported of the processor and the memory has been sampled at least once,
\* however short the workload was: what the wait in cpu_profiler_t::stop is for, and
\* what the memory's, which does not wait, owes to being stopped after it.
StatsSampled ==
  prompt /\ pc = "done" /\ left = 0 => cpu.requests_count > 0 /\ mem.requests_count > 0

\* The average is between the least and the greatest sample, and what is cut off
\* at each sample keeps it within half their number of the mean.
AverageOfSamples ==
  LET n == mem.requests_count
  IN  n > 0 => /\ mem.min <= mem.avg /\ mem.avg <= mem.max
               /\ n * mem.avg <= sum /\ 2 * sum <= 2 * n * mem.avg + n * (n - 1)

\* The measurement ends, with both threads joined, even after an exception.
EveryMeasurementEnds == <>(pc = "done" /\ \A p \in Profilers : sampler[p] = "none")
=============================================================================
