-------------------------- MODULE MeasurementProofs --------------------------
(***************************************************************************)
(* Proofs about Measurement for every number of operations, every delay,   *)
(* every set of samples and any time the operations take.                  *)
(*                                                                         *)
(* The three properties have little to do with each other, and each has    *)
(* an inductive invariant of its own: WatchInv says which clock runs       *)
(* where, SumInv what the average owes to the samples, and PromptInv how   *)
(* the profilers' threads keep up with the leading one.                    *)
(***************************************************************************)
EXTENDS Measurement, SequenceTheorems, TLAPS

-----------------------------------------------------------------------------
(***************************************************************************)
(* The invariants.                                                         *)
(***************************************************************************)

Stopping == {"stop", "tell", "join", "done"}
\* Where an operation is prepared or performed.
Within   == {"generate", "read", "modify", "call", "pause", "pause_timer", "prepare", "resume"}
Places   == {"start", "start_timer", "barrier", "choose", "generate", "read", "modify", "call",
             "print", "pause", "pause_timer", "prepare", "resume", "stop_timer"} \cup Stopping

Timed ==
  /\ prompt \in BOOLEAN /\ now \in Nat /\ pc \in Places /\ left \in Nat
  /\ timer \in [state : {"stopped", "running", "paused"}, started : Nat, ops_started : Nat,
                elapsed : Int, ops : Int]
  /\ bench \in [running : BOOLEAN, total : Nat]
  /\ prepared \in Nat /\ performed \in Nat
  /\ pc \in Within => left > 0

OperationsTime == timer.ops + IF timer.state = "running" THEN now - timer.ops_started ELSE 0
ElapsedTime    == timer.elapsed + (now - timer.started)

\* The library's timer runs inside the program's, a call of the database and what
\* is made for a single operation inside the library's timer, and the preparation
\* of a batch outside of both.
WatchInv ==
  /\ pc \in {"start", "start_timer"} => /\ timer.state = "stopped" /\ timer.ops = 0
                                        /\ bench.total = 0 /\ prepared = 0
                                        /\ performed = 0
  /\ bench.running => timer.state = "running"
  /\ pc \in {"choose", "generate", "read", "modify", "call", "print", "pause"} => bench.running
  /\ pc \in {"start", "start_timer", "barrier", "pause_timer", "prepare", "resume", "stop_timer"}
       => ~bench.running
  /\ pc \in {"barrier", "pause_timer", "resume", "stop_timer"} => timer.state = "running"
  /\ pc = "prepare" => timer.state = "paused"
  /\ performed <= bench.total /\ bench.total <= OperationsTime
  /\ OperationsTime + prepared <= ElapsedTime

Stats == [min : Nat \cup {-1}, max : Nat, avg : Nat, requests_count : Nat]

SumInv ==
  /\ mem \in Stats
  /\ sum \in Nat
  /\ mem.requests_count = 0 => sum = 0 /\ mem.avg = 0 /\ mem.min = -1
  /\ mem.requests_count > 0 => mem.min # -1
  /\ AverageOfSamples

CpuStats == [first_time : BOOLEAN, last_cpu : Nat, requests_count : Nat]

\* The profilers' threads, and the order they are stopped in.
ThreadsInv ==
  /\ die \in [Profilers -> BOOLEAN] /\ wake \in [Profilers -> Nat]
  /\ sampler \in [Profilers -> {"none", "sleep", "sample", "exited"}]
  /\ cpu \in CpuStats /\ cpu.last_cpu <= now
  /\ deadline \in Nat
  /\ to_stop \in {<<"cpu", "mem">>, <<"mem", "cpu">>, <<"cpu">>, <<"mem">>, << >>}
  /\ pc \in {"tell", "join"} => to_stop # << >>
  /\ pc = "start" => cpu.first_time /\ \A p \in Profilers : sampler[p] = "none"

Sampled == cpu.requests_count > 0 /\ mem.requests_count > 0

\* Nobody has told the threads to die.
Untold == \/ pc \notin Stopping \cup {"start"}
          \/ pc \in {"stop", "tell"} /\ to_stop = <<"cpu", "mem">>

\* A thread that has not sampled yet is about to, and that of the processor
\* takes its second sample in time.
FirstInv ==
  Untold =>
    /\ ~die["cpu"] /\ ~die["mem"]
    /\ mem.requests_count = 0 => Ready("mem")
    /\ cpu.first_time => Ready("cpu")
    /\ ~cpu.first_time /\ cpu.requests_count = 0 =>
         /\ wake["cpu"] = cpu.last_cpu + Delay /\ now <= wake["cpu"]
         /\ \/ sampler["cpu"] = "sleep"
            \/ sampler["cpu"] = "sample" /\ now >= wake["cpu"]
    /\ pc = "tell" => /\ mem.requests_count = 0 => deadline > now
                      /\ cpu.first_time => deadline > now + Delay
                      /\ ~cpu.first_time /\ cpu.requests_count = 0 =>
                           deadline > cpu.last_cpu + Delay

StopInv ==
  pc \in Stopping /\ left = 0 =>
       /\ to_stop \in {<<"cpu", "mem">>, <<"mem">>, << >>}
       /\ to_stop = <<"cpu", "mem">> => pc # "done"
       /\ to_stop # <<"cpu", "mem">> \/ pc = "join" => Sampled

PromptInv == prompt => FirstInv /\ StopInv

-----------------------------------------------------------------------------
(***************************************************************************)
(* The clocks.                                                             *)
(***************************************************************************)

\* The variables of the leading thread and of the clocks have their types.
LEMMA TimedInit == Init => Timed
<1> SUFFICES ASSUME Init
             PROVE  Timed
  OBVIOUS
<1>1. prompt \in BOOLEAN
  BY DEF Init
<1>2. Operations \in Nat
  BY MeasurementAssumption
<1> QED
  BY <1>1, <1>2 DEF Init, Timed, Places, Within

\* What a step may do to the clocks of the library and of the program.
LEMMA WatchSteps ==
  ASSUME Timed
  PROVE  /\ bench.total \in Nat
         /\ \A on \in BOOLEAN :
              /\ [bench EXCEPT !.running = on] \in [running : BOOLEAN, total : Nat]
              /\ [bench EXCEPT !.running = on].running = on
              /\ [bench EXCEPT !.running = on].total = bench.total
         /\ [bench EXCEPT !.total = @ + 1] \in [running : BOOLEAN, total : Nat]
         /\ [bench EXCEPT !.total = @ + 1].total = bench.total + 1
         /\ [bench EXCEPT !.total = @ + 1].running = bench.running
<1>1. bench \in [running : BOOLEAN, total : Nat]
  BY DEF Timed
<1>2. bench.total \in Nat
  BY <1>1
<1>3. bench.running \in BOOLEAN
  BY <1>1
<1>4. ASSUME NEW on \in BOOLEAN
      PROVE  /\ [bench EXCEPT !.running = on] \in [running : BOOLEAN, total : Nat]
             /\ [bench EXCEPT !.running = on].running = on
             /\ [bench EXCEPT !.running = on].total = bench.total
  BY <1>1
<1>5. /\ [bench EXCEPT !.total = @ + 1] \in [running : BOOLEAN, total : Nat]
      /\ [bench EXCEPT !.total = @ + 1].total = bench.total + 1
      /\ [bench EXCEPT !.total = @ + 1].running = bench.running
  BY <1>1, <1>2
<1> QED
  BY <1>2, <1>4, <1>5

\* Every step has the types.
LEMMA TimedStep ==
  ASSUME Timed, [Next]_vars
  PROVE  Timed'
<1>1. prompt' \in BOOLEAN
  BY Zenon DEF Timed, Next, Leading, Sampling, Terminated, vars, StartProfilers, StartTimer,
     KeepRunning, Choose, Generate, Read, Modify, PauseBench, PauseTimer, ResumeTimer,
     ResumeBench, Call, Throw,
     PrintTimes, StopBench, StopTimer, Stop, Tell, Join, Report, Wake, SampleCpu, SampleMem,
     Tick
<1> USE DEF Goto, watches, threads, ghosts, stopping
<1>2. CASE StartProfilers \/ Choose \/ Generate \/ Read \/ Modify \/ Throw \/ Stop \/ Tell
          \/ Join \/ Report
  <2>1. UNCHANGED <<now, left, timer, bench, prepared, performed>>
    BY <1>2 DEF StartProfilers, Choose, Generate, Read, Modify, Throw, Stop, Tell, Join, Report
  <2>2. /\ pc' \in Places
        /\ pc' \in Within => left > 0
    <3>1. CASE StartProfilers \/ Choose \/ Throw \/ Stop \/ Tell \/ Join \/ Report
      BY <3>1 DEF StartProfilers, Choose, Throw, Stop, Tell, Join, Report, Places, Within,
                  Stopping
    <3>2. CASE Generate \/ Read \/ Modify
      BY <3>2 DEF Timed, Generate, Read, Modify, Places, Within
    <3> QED
      BY <1>2, <3>1, <3>2
  <2> QED
    BY <1>1, <2>1, <2>2 DEF Timed
<1>3. CASE StartTimer \/ PauseTimer \/ ResumeTimer \/ PrintTimes \/ StopTimer
  <2>1. /\ UNCHANGED <<now, left, bench, prepared, performed>> /\ pc' \in Places
        /\ pc' \in Within
             => pc \in Within
    BY <1>3 DEF StartTimer, PauseTimer, ResumeTimer, PrintTimes, StopTimer, Places, Within, Stopping
  <2>2. timer' \in [state : {"stopped", "running", "paused"}, started : Nat, ops_started : Nat,
                    elapsed : Int, ops : Int]
    <3> DEFINE Timer == [state : {"stopped", "running", "paused"}, started : Nat,
                         ops_started : Nat, elapsed : Int, ops : Int]
    <3>1. timer \in Timer /\ now \in Nat
      BY DEF Timed
    <3>2. Counted(timer) \in Timer
      <4>1. timer.ops + (now - timer.ops_started) \in Int
        BY <3>1
      <4>2. [timer EXCEPT !.ops = timer.ops + (now - timer.ops_started)] \in Timer
        BY <3>1, <4>1
      <4>3. Counted(timer) = [[timer EXCEPT !.ops = timer.ops + (now - timer.ops_started)]
                                EXCEPT !.ops_started = now]
        BY <3>1 DEF Counted
      <4> QED
        BY <3>1, <4>2, <4>3
    <3>3. CASE StartTimer
      BY <3>1, <3>3 DEF StartTimer
    <3>4. CASE ResumeTimer
      BY <3>1, <3>4 DEF ResumeTimer
    <3>5. CASE PauseTimer \/ StopTimer
      BY <3>2, <3>5 DEF PauseTimer, StopTimer
    <3>6. CASE PrintTimes
      <4>1. timer.elapsed + (now - timer.started) \in Int
        BY <3>1
      <4>2. Counted(timer).elapsed = timer.elapsed
        BY <3>1 DEF Counted
      <4> QED
        BY <3>1, <3>2, <3>6, <4>1, <4>2 DEF PrintTimes
    <3> QED
      BY <1>3, <3>3, <3>4, <3>5, <3>6
  <2> QED
    BY <1>1, <2>1, <2>2 DEF Timed
<1>4. CASE KeepRunning \/ PauseBench \/ ResumeBench \/ StopBench
  <2>1. /\ UNCHANGED <<now, left, timer, prepared, performed>> /\ pc' \in Places
        /\ pc' \in Within
             => pc \in Within
    BY <1>4 DEF KeepRunning, PauseBench, ResumeBench, StopBench, Places, Within, Stopping
  <2>2. bench' = [bench EXCEPT !.running = TRUE] \/ bench' = [bench EXCEPT !.running = FALSE]
    BY <1>4, Zenon DEF KeepRunning, PauseBench, ResumeBench, StopBench
  <2>3. bench' \in [running : BOOLEAN, total : Nat]
    BY <2>2, WatchSteps
  <2> QED
    BY <1>1, <2>1, <2>3 DEF Timed
<1>5. CASE Call
  <2>1. /\ UNCHANGED <<now, timer, bench, prepared, performed>>
        /\ pc = "call" /\ pc' \in {"choose", "print"} /\ left' = left - 1
    BY <1>5 DEF Call
  <2> QED
    BY <1>1, <2>1 DEF Timed, Places, Within
<1>6. CASE \E p \in Profilers : Sampling(p)
  <2>1. UNCHANGED <<now, pc, left, timer, bench, prepared, performed>>
    BY <1>6 DEF Sampling, Wake, SampleCpu, SampleMem
  <2> QED
    BY <1>1, <2>1 DEF Timed
<1>7. CASE Tick
  <2>1. UNCHANGED <<pc, left, timer>> /\ now' = now + 1
        /\ prepared' \in {prepared, prepared + 1} /\ performed' \in {performed, performed + 1}
    BY <1>7 DEF Tick
  <2>2. bench' = [bench EXCEPT !.total = @ + 1] \/ bench' = bench
    BY <1>7, Zenon DEF Tick
  <2>3. bench' \in [running : BOOLEAN, total : Nat]
    BY <2>2, WatchSteps DEF Timed
  <2> QED
    BY <1>1, <2>1, <2>3 DEF Timed
<1>8. CASE UNCHANGED vars
  BY <1>1, <1>8 DEF vars, Timed
<1> QED
  BY <1>2, <1>3, <1>4, <1>5, <1>6, <1>7, <1>8 DEF Next, Leading, Terminated

\* Nothing has been measured yet.
LEMMA WatchInit == Init => WatchInv
BY DEF Init, WatchInv, OperationsTime, ElapsedTime

\* The clocks start and stop one inside the other, and what has passed stays.
LEMMA WatchStep ==
  ASSUME Timed, WatchInv, [Next]_vars
  PROVE  WatchInv'
<1> USE DEF Goto, watches, threads, ghosts, stopping
<1>0. /\ now \in Nat /\ prepared \in Nat /\ performed \in Nat /\ bench.total \in Nat
      /\ timer.started \in Nat /\ timer.ops_started \in Nat
      /\ timer.elapsed \in Int /\ timer.ops \in Int
      /\ timer \in [state : {"stopped", "running", "paused"}, started : Nat, ops_started : Nat,
                    elapsed : Int, ops : Int]
  BY DEF Timed
<1>1. CASE StartProfilers \/ Choose \/ Generate \/ Read \/ Modify \/ Call \/ Throw \/ Stop
          \/ Tell \/ Join \/ Report
  <2>1. /\ UNCHANGED <<now, timer, bench, prepared, performed>>
    BY <1>1 DEF StartProfilers, Choose, Generate, Read, Modify, Call, Throw, Stop, Tell, Join,
                Report
  <2>2. \/ pc \in {"start", "start_timer"} /\ pc' = "start_timer"
        \/ /\ pc \in {"choose", "generate", "read", "modify", "call", "print", "pause"}
           /\ pc' \in {"choose", "generate", "read", "modify", "call", "print", "pause"}
        \/ pc' \in Stopping
    BY <1>1 DEF StartProfilers, Choose, Generate, Read, Modify, Call, Throw, Stop, Tell, Join,
                Report, Stopping
  <2> QED
    BY <2>1, <2>2 DEF WatchInv, OperationsTime, ElapsedTime, Stopping
<1>2. CASE StartTimer \/ PauseTimer \/ ResumeTimer \/ PrintTimes \/ StopTimer
  <2>0. UNCHANGED <<now, bench, prepared, performed>>
    BY <1>2 DEF StartTimer, PauseTimer, ResumeTimer, PrintTimes, StopTimer
  <2>1. CASE StartTimer
    BY <1>0, <2>0, <2>1 DEF StartTimer, WatchInv, OperationsTime, ElapsedTime
  <2>2. CASE PauseTimer
    <3>1. /\ pc = "pause_timer" /\ pc' = "prepare" /\ timer'.state = "paused"
          /\ timer'.ops = timer.ops + (now - timer.ops_started)
          /\ timer'.elapsed = timer.elapsed /\ timer'.started = timer.started
      BY <1>0, <2>2 DEF PauseTimer, Counted
    <3> QED
      BY <1>0, <2>0, <3>1 DEF WatchInv, OperationsTime, ElapsedTime
  <2>3. CASE ResumeTimer
    <3>1. /\ pc = "prepare" /\ pc' = "resume" /\ timer'.state = "running"
          /\ timer'.ops = timer.ops /\ timer'.ops_started = now
          /\ timer'.elapsed = timer.elapsed /\ timer'.started = timer.started
      BY <1>0, <2>3 DEF ResumeTimer
    <3> QED
      BY <1>0, <2>0, <3>1 DEF WatchInv, OperationsTime, ElapsedTime
  <2>4. CASE PrintTimes
    <3>1. /\ pc = "print" /\ pc' = "choose" /\ timer'.state = timer.state
          /\ timer'.ops = timer.ops + (now - timer.ops_started) /\ timer'.ops_started = now
          /\ timer'.elapsed = timer.elapsed + (now - timer.started) /\ timer'.started = now
      BY <1>0, <2>4 DEF PrintTimes, Counted
    <3> QED
      BY <1>0, <2>0, <3>1 DEF WatchInv, OperationsTime, ElapsedTime
  <2>5. CASE StopTimer
    <3>1. /\ pc = "stop_timer" /\ pc' = "stop" /\ timer'.state = "stopped"
          /\ timer'.ops = timer.ops + (now - timer.ops_started)
          /\ timer'.elapsed = timer.elapsed /\ timer'.started = timer.started
      BY <1>0, <2>5 DEF StopTimer, Counted
    <3> QED
      BY <1>0, <2>0, <3>1 DEF WatchInv, OperationsTime, ElapsedTime
  <2> QED
    BY <1>2, <2>1, <2>2, <2>3, <2>4, <2>5
<1>3. CASE KeepRunning \/ PauseBench \/ ResumeBench \/ StopBench
  <2>1. UNCHANGED <<now, timer, prepared, performed>>
    BY <1>3 DEF KeepRunning, PauseBench, ResumeBench, StopBench
  <2>2. CASE KeepRunning \/ ResumeBench
    <3>1. pc \in {"barrier", "resume"} /\ pc' \in {"choose", "call"}
      BY <2>2 DEF KeepRunning, ResumeBench
    <3>2. bench' = [bench EXCEPT !.running = TRUE]
      BY <2>2, Zenon DEF KeepRunning, ResumeBench
    <3>3. bench'.running /\ bench'.total = bench.total
      BY <3>2, WatchSteps
    <3> QED
      BY <2>1, <3>1, <3>3 DEF WatchInv, OperationsTime, ElapsedTime
  <2>3. CASE PauseBench \/ StopBench
    <3>1. pc \in {"pause", "choose"} /\ pc' \in {"pause_timer", "stop_timer"}
      BY <2>3 DEF PauseBench, StopBench
    <3>2. bench' = [bench EXCEPT !.running = FALSE]
      BY <2>3, Zenon DEF PauseBench, StopBench
    <3>3. ~bench'.running /\ bench'.total = bench.total
      BY <3>2, WatchSteps
    <3> QED
      BY <2>1, <3>1, <3>3 DEF WatchInv, OperationsTime, ElapsedTime
  <2> QED
    BY <1>3, <2>2, <2>3
<1>4. CASE \E p \in Profilers : Sampling(p)
  <2>1. UNCHANGED <<now, pc, timer, bench, prepared, performed>>
    BY <1>4 DEF Sampling, Wake, SampleCpu, SampleMem
  <2> QED
    BY <2>1 DEF WatchInv, OperationsTime, ElapsedTime
<1>5. CASE Tick
  <2>1. /\ UNCHANGED <<pc, timer>> /\ now' = now + 1
        /\ prepared' = IF pc = "prepare" THEN prepared + 1 ELSE prepared
        /\ performed' = IF pc \in {"generate", "read", "modify", "call"} THEN performed + 1
                                                                        ELSE performed
    BY <1>5 DEF Tick
  <2>2. CASE bench.running
    <3>1. bench' = [bench EXCEPT !.total = @ + 1]
      BY <1>5, <2>2, Zenon DEF Tick
    <3>2. bench'.total = bench.total + 1 /\ bench'.running
      BY <2>2, <3>1, WatchSteps
    <3>3. pc \notin {"start", "start_timer", "prepare"}
      BY <2>2 DEF WatchInv
    <3> QED
      BY <1>0, <2>1, <2>2, <3>2, <3>3 DEF WatchInv, OperationsTime, ElapsedTime
  <2>3. CASE ~bench.running
    <3>1. bench' = bench
      BY <1>5, <2>3, Zenon DEF Tick
    <3>2. pc \notin {"call"}
      BY <2>3 DEF WatchInv
    <3>3. CASE pc = "prepare"
      BY <1>0, <2>1, <2>3, <3>1, <3>3 DEF WatchInv, OperationsTime, ElapsedTime
    <3>4. CASE pc # "prepare"
      BY <1>0, <2>1, <2>3, <3>1, <3>2, <3>4 DEF WatchInv, OperationsTime, ElapsedTime
    <3> QED
      BY <3>3, <3>4
  <2> QED
    BY <2>2, <2>3
<1>6. CASE UNCHANGED vars
  BY <1>6 DEF vars, WatchInv, OperationsTime, ElapsedTime
<1> QED
  BY <1>1, <1>2, <1>3, <1>4, <1>5, <1>6 DEF Next, Leading, Terminated

-----------------------------------------------------------------------------
(***************************************************************************)
(* The average.                                                            *)
(***************************************************************************)

\* Division of natural numbers, and the products it is reasoned with.
LEMMA Quotient ==
  ASSUME NEW a \in Nat, NEW n \in Nat \ {0}
  PROVE  /\ a \div n \in Nat
         /\ n * (a \div n) <= a /\ a < n * (a \div n) + n
OBVIOUS

\* Products with the next number.
LEMMA Products ==
  ASSUME NEW a \in Nat, NEW n \in Nat
  PROVE  /\ n * a \in Nat /\ a * n = n * a /\ (n + 1) * a = n * a + a
         /\ 2 * n * a = 2 * (n * a)
         /\ (n + 1) * ((n + 1) - 1) = n * (n - 1) + 2 * n
OBVIOUS

\* Products keep the order, and give it back.
LEMMA ProductsOrdered ==
  ASSUME NEW a \in Nat, NEW b \in Nat, NEW n \in Nat
  PROVE  /\ a <= b => n * a <= n * b
         /\ n > 0 /\ n * a < n * b + n => a <= b
OBVIOUS

\* What recalculate() makes of the statistics m and the sample x: the extremes
\* include it, and the division of the average loses less than one.
Follows(m, x, r) ==
  /\ r \in Stats
  /\ r.requests_count = m.requests_count + 1
  /\ r.min = IF m.min = -1 \/ x < m.min THEN x ELSE m.min
  /\ r.max = IF x > m.max THEN x ELSE m.max
  /\ r.requests_count * r.avg <= m.requests_count * m.avg + x
  /\ m.requests_count * m.avg + x < r.requests_count * r.avg + r.requests_count

\* What recalculate() makes of the statistics and one more sample.
LEMMA RecalculatedFacts ==
  ASSUME NEW m \in Stats,
         NEW x \in Nat
  PROVE  Follows(m, x, Recalculated(m, x))
<1> DEFINE r == Recalculated(m, x)
           k == m.requests_count
           n == k + 1
           a == m.avg * (n - 1) + x
<1>1. k \in Nat /\ m.avg \in Nat /\ n \in Nat \ {0} /\ n - 1 = k
  BY DEF Stats
<1>2. a = k * m.avg + x /\ a \in Nat
  BY <1>1, Products
<1>3. r = [min |-> IF m.min = -1 \/ x < m.min THEN x ELSE m.min,
           max |-> IF x > m.max THEN x ELSE m.max,
           avg |-> a \div n, requests_count |-> n]
  BY DEF Recalculated
<1> HIDE DEF a, n, k
<1>4. a \div n \in Nat /\ n * (a \div n) <= a /\ a < n * (a \div n) + n
  BY <1>1, <1>2, Quotient
<1>5. /\ r.requests_count = n /\ r.avg = a \div n
      /\ r.min = IF m.min = -1 \/ x < m.min THEN x ELSE m.min
      /\ r.max = IF x > m.max THEN x ELSE m.max
  BY <1>3
<1>6. r \in Stats
  BY <1>1, <1>3, <1>4 DEF Stats
<1>7. n * r.avg <= k * m.avg + x /\ k * m.avg + x < n * r.avg + n
  BY <1>2, <1>4, <1>5
<1> QED
  BY <1>5, <1>6, <1>7 DEF Follows, n, k, r

\* One more sample keeps the average between the extremes and near the mean.
LEMMA SampleStep ==
  ASSUME SumInv, NEW x \in Nat, mem' = Recalculated(mem, x), sum' = sum + x
  PROVE  SumInv'
<1> DEFINE k == mem.requests_count
           n == k + 1
           q == mem'.avg
<1>1. /\ mem \in Stats
      /\ sum \in Nat /\ k \in Nat /\ mem.avg \in Nat /\ n \in Nat \ {0}
  BY DEF SumInv, Stats
<1>2. /\ mem' \in Stats
      /\ mem'.requests_count = n
      /\ mem'.min = IF mem.min = -1 \/ x < mem.min THEN x ELSE mem.min
      /\ mem'.max = IF x > mem.max THEN x ELSE mem.max
      /\ n * q <= k * mem.avg + x /\ k * mem.avg + x < n * q + n
  <2>1. Follows(mem, x, mem')
    BY <1>1, RecalculatedFacts
  <2> QED
    BY <2>1 DEF Follows
<1>3. q \in Nat /\ mem'.max \in Nat /\ mem'.min \in Nat
  BY <1>1, <1>2 DEF Stats
<1>4. /\ k * mem.avg <= sum /\ 2 * sum <= 2 * (k * mem.avg) + k * (k - 1)
      /\ k * mem.avg \in Nat /\ k * (k - 1) \in Int
  <2>1. k * mem.avg \in Nat /\ 2 * k * mem.avg = 2 * (k * mem.avg) /\ k * (k - 1) \in Int
    BY <1>1, Products
  <2>2. CASE k = 0
    <3>1. k * mem.avg = 0 /\ k * (k - 1) = 0 /\ sum = 0
      BY <1>1, <2>2 DEF SumInv
    <3> QED
      BY <2>1, <3>1
  <2>3. CASE k # 0
    BY <1>1, <2>1, <2>3 DEF SumInv, AverageOfSamples
  <2> QED
    BY <2>2, <2>3
<1>5. mem'.min <= q
  <2>1. k * mem'.min <= k * mem.avg
    <3>1. CASE k = 0
      BY <1>1, <1>3, <3>1
    <3>2. CASE k # 0
      <4>1. mem.min # -1 /\ mem.min \in Nat /\ mem.min <= mem.avg
        BY <1>1, <3>2 DEF SumInv, Stats, AverageOfSamples
      <4>2. mem'.min <= mem.avg
        BY <1>1, <1>2, <4>1
      <4> QED
        BY <1>1, <1>3, <4>2, ProductsOrdered
    <3> QED
      BY <3>1, <3>2
  <2>2. mem'.min <= x
    BY <1>1, <1>2 DEF Stats
  <2>3. n * mem'.min = k * mem'.min + mem'.min /\ k * mem'.min \in Nat
    BY <1>1, <1>3, Products
  <2>4. n * q \in Nat
    BY <1>1, <1>3, Products
  <2>5. n * mem'.min < n * q + n
    BY <1>1, <1>2, <1>3, <1>4, <2>1, <2>2, <2>3, <2>4
  <2> QED
    BY <1>1, <1>3, <2>5, ProductsOrdered
<1>6. q <= mem'.max
  <2>1. k * mem.avg <= k * mem'.max
    <3>1. CASE k = 0
      BY <1>1, <1>3, <3>1
    <3>2. CASE k # 0
      <4>1. mem.avg <= mem.max /\ mem.max \in Nat
        BY <1>1, <3>2 DEF SumInv, Stats, AverageOfSamples
      <4>2. mem.avg <= mem'.max
        BY <1>1, <1>2, <4>1
      <4> QED
        BY <1>1, <1>3, <4>2, ProductsOrdered
    <3> QED
      BY <3>1, <3>2
  <2>2. x <= mem'.max
    BY <1>1, <1>2 DEF Stats
  <2>3. n * mem'.max = k * mem'.max + mem'.max /\ k * mem'.max \in Nat
    BY <1>1, <1>3, Products
  <2>4. n * q \in Nat
    BY <1>1, <1>3, Products
  <2>5. n * q < n * mem'.max + n
    BY <1>1, <1>2, <1>3, <1>4, <2>1, <2>2, <2>3, <2>4
  <2> QED
    BY <1>1, <1>3, <2>5, ProductsOrdered
<1>7. n * q <= sum' /\ 2 * sum' <= 2 * n * q + n * (n - 1)
  <2>1. n * q \in Nat /\ 2 * n * q = 2 * (n * q) /\ n * (n - 1) = k * (k - 1) + 2 * k
    BY <1>1, <1>3, Products
  <2>2. k * mem.avg + x <= n * q + k
    BY <1>1, <1>2, <1>3, <1>4, <2>1
  <2> HIDE DEF n
  <2> QED
    BY <1>1, <1>2, <1>4, <2>1, <2>2
<1>8. sum' \in Nat
  BY <1>1
<1> HIDE DEF q
<1>9. AverageOfSamples'
  BY <1>2, <1>5, <1>6, <1>7 DEF AverageOfSamples, q
<1> QED
  BY <1>1, <1>2, <1>3, <1>8, <1>9 DEF SumInv

\* The statistics change when the memory is sampled only.
LEMMA SumStep ==
  ASSUME SumInv, [Next]_vars
  PROVE  SumInv'
<1>1. CASE SampleMem
  <2>1. PICK x \in Usages : mem' = Recalculated(mem, x) /\ sum' = sum + x
    BY <1>1 DEF SampleMem
  <2>2. x \in Nat
    BY MeasurementAssumption
  <2> QED
    BY <2>1, <2>2, SampleStep
<1>2. CASE ~SampleMem
  <2>1. UNCHANGED <<mem, sum>>
    BY <1>2 DEF Next, Leading, Sampling, Terminated, vars, threads, StartProfilers, StartTimer,
       KeepRunning, Choose, Generate, Read, Modify, PauseBench, PauseTimer, ResumeTimer,
       ResumeBench, Call, Throw,
       PrintTimes, StopBench, StopTimer, Stop, Tell, Join, Report, Wake, SampleCpu, Tick
  <2> QED
    BY <2>1 DEF SumInv, AverageOfSamples
<1> QED
  BY <1>1, <1>2

-----------------------------------------------------------------------------
(***************************************************************************)
(* The profilers.                                                          *)
(***************************************************************************)

\* What a sample of the processor changes: it is counted unless it is the first
\* one or at the same tick as the last.
LEMMA SampleCpuFacts ==
  ASSUME ThreadsInv, Timed, SampleCpu
  PROVE  /\ cpu' \in CpuStats /\ ~cpu'.first_time /\ cpu'.last_cpu = now
         /\ cpu'.requests_count = cpu.requests_count
              + IF ~cpu.first_time /\ now > cpu.last_cpu THEN 1 ELSE 0
<1> DEFINE counts == ~cpu.first_time /\ now > cpu.last_cpu
           c == cpu.requests_count + IF counts THEN 1 ELSE 0
<1>1. cpu' = [first_time |-> cpu.first_time /\ counts, last_cpu |-> now, requests_count |-> c]
  BY Zenon DEF SampleCpu
<1>2. now \in Nat /\ c \in Nat
  BY DEF Timed, ThreadsInv, CpuStats
<1>3. (cpu.first_time /\ counts) = FALSE
  OBVIOUS
<1>4. cpu' = [first_time |-> FALSE, last_cpu |-> now, requests_count |-> c]
  BY <1>1, <1>3, Zenon
<1> HIDE DEF counts, c
<1>5. cpu'.last_cpu = now /\ cpu'.requests_count = c /\ cpu'.first_time = FALSE
  BY <1>4
<1>6. cpu' \in CpuStats
  BY <1>2, <1>4 DEF CpuStats
<1> QED
  BY <1>5, <1>6 DEF c, counts

\* What is left to stop after the first one.
LEMMA Tails ==
  /\ Tail(<<"cpu", "mem">>) = <<"mem">> /\ Tail(<<"mem", "cpu">>) = <<"cpu">>
  /\ Tail(<<"cpu">>) = << >> /\ Tail(<<"mem">>) = << >>
OBVIOUS

\* No thread samples yet.
LEMMA ThreadsInit == Init => ThreadsInv
<1> SUFFICES ASSUME Init
             PROVE  ThreadsInv
  OBVIOUS
<1>1. cpu = [first_time |-> TRUE, last_cpu |-> 0, requests_count |-> 0]
  BY Zenon DEF Init
<1>2. cpu \in CpuStats /\ cpu.first_time /\ cpu.last_cpu = 0
  BY <1>1 DEF CpuStats
<1>3. die \in [Profilers -> BOOLEAN]
  BY Zenon DEF Init
<1> QED
  BY <1>2, <1>3 DEF Init, ThreadsInv

\* Every step has the types, and the profilers are stopped one after the other.
LEMMA ThreadsStep ==
  ASSUME Timed, ThreadsInv, [Next]_vars
  PROVE  ThreadsInv'
<1> USE DEF Goto, watches, ghosts, Profilers
<1>0. now \in Nat /\ Delay \in Nat
  BY MeasurementAssumption DEF Timed
<1>1. CASE StartProfilers
  <2>1. /\ pc = "start" /\ pc' = "start_timer"
        /\ UNCHANGED <<now, to_stop, deadline, cpu>>
        /\ sampler' = [p \in Profilers |-> "sleep"] /\ wake' = [p \in Profilers |-> now]
    BY <1>1 DEF StartProfilers, stopping
  <2>2. die' = [p \in Profilers |-> FALSE]
    BY <1>1, Zenon DEF StartProfilers
  <2>3. die' \in [Profilers -> BOOLEAN]
    BY <2>2, Zenon
  <2> QED
    BY <1>0, <2>1, <2>3 DEF ThreadsInv
<1>2. CASE StartTimer \/ KeepRunning \/ Choose \/ Generate \/ Read \/ Modify \/ PauseBench
          \/ PauseTimer \/ ResumeTimer
           \/ ResumeBench \/ Call \/ PrintTimes \/ StopBench \/ Report
  <2>1. UNCHANGED <<now, die, sampler, wake, cpu, to_stop, deadline>>
    BY <1>2 DEF StartTimer, KeepRunning, Choose, Generate, Read, Modify, PauseBench,
                PauseTimer, ResumeTimer,
                ResumeBench, Call, PrintTimes, StopBench, Report, threads, stopping
  <2>2. pc' \notin {"start", "tell", "join"}
    BY <1>2 DEF StartTimer, KeepRunning, Choose, Generate, Read, Modify, PauseBench,
                PauseTimer, ResumeTimer,
                ResumeBench, Call, PrintTimes, StopBench, Report
  <2> QED
    BY <2>1, <2>2 DEF ThreadsInv
<1>3. CASE Throw \/ StopTimer
  <2>1. /\ UNCHANGED <<now, die, sampler, wake, cpu, deadline>> /\ pc' = "stop"
        /\ to_stop' \in {<<"cpu", "mem">>, <<"mem", "cpu">>}
    BY <1>3 DEF Throw, StopTimer, threads
  <2>2. to_stop' \in {<<"cpu", "mem">>, <<"mem", "cpu">>, <<"cpu">>, <<"mem">>, << >>}
    BY <2>1, Zenon
  <2> QED
    BY <2>1, <2>2 DEF ThreadsInv
<1>4. CASE Stop
  <2>1. /\ UNCHANGED <<now, die, sampler, wake, cpu, to_stop>> /\ pc' = "tell"
        /\ to_stop # << >> /\ deadline' \in {now + Delay + 1, now}
    BY <1>4 DEF Stop, threads
  <2> QED
    BY <1>0, <2>1 DEF ThreadsInv
<1>5. CASE Tell
  <2>1. /\ UNCHANGED <<now, sampler, wake, cpu, to_stop, deadline>>
        /\ pc = "tell" /\ pc' = "join"
    BY <1>5 DEF Tell, stopping
  <2>2. die' = [die EXCEPT ![Head(to_stop)] = TRUE]
    BY <1>5, Zenon DEF Tell
  <2>3. die' \in [Profilers -> BOOLEAN]
    BY <2>2, Zenon DEF ThreadsInv
  <2> QED
    BY <2>1, <2>3 DEF ThreadsInv
<1>6. CASE Join
  <2>1. /\ UNCHANGED <<now, die, wake, cpu, deadline>>
        /\ pc = "join" /\ pc' = "stop" /\ to_stop' = Tail(to_stop)
        /\ sampler' = [sampler EXCEPT ![Head(to_stop)] = "none"]
    BY <1>6 DEF Join
  <2>2. to_stop \in {<<"cpu", "mem">>, <<"mem", "cpu">>, <<"cpu">>, <<"mem">>}
    BY <2>1 DEF ThreadsInv
  <2>3. to_stop' \in {<<"cpu">>, <<"mem">>, << >>}
    BY <2>1, <2>2, Tails, Zenon
  <2>4. to_stop' \in {<<"cpu", "mem">>, <<"mem", "cpu">>, <<"cpu">>, <<"mem">>, << >>}
    BY <2>3, Zenon
  <2> QED
    BY <2>1, <2>4 DEF ThreadsInv
<1>7. ASSUME NEW p \in Profilers, Sampling(p)
      PROVE  ThreadsInv'
  <2>1. UNCHANGED <<now, pc, to_stop, deadline, die>>
    BY <1>7 DEF Sampling, Wake, SampleCpu, SampleMem, stopping
  <2>2. CASE Wake(p)
    <3>1. UNCHANGED <<wake, cpu>> /\ sampler[p] # "none"
      BY <2>2 DEF Wake
    <3>2. sampler' \in [Profilers -> {"none", "sleep", "sample", "exited"}]
      BY <2>2 DEF Wake, ThreadsInv
    <3> QED
      BY <2>1, <3>1, <3>2 DEF ThreadsInv
  <2>3. CASE SampleCpu
    <3>1. /\ sampler["cpu"] # "none"
          /\ sampler' = [sampler EXCEPT !["cpu"] = "sleep"]
          /\ wake' = [wake EXCEPT !["cpu"] = now + Delay]
      BY <2>3 DEF SampleCpu, Sleep
    <3>2. cpu' \in CpuStats /\ cpu'.last_cpu = now
      BY <2>3, SampleCpuFacts
    <3>3. now <= now
      BY <1>0
    <3> QED
      BY <1>0, <2>1, <3>1, <3>2, <3>3 DEF ThreadsInv
  <2>4. CASE SampleMem
    <3>1. /\ sampler["mem"] # "none" /\ UNCHANGED cpu
          /\ sampler' = [sampler EXCEPT !["mem"] = "sleep"]
          /\ wake' = [wake EXCEPT !["mem"] = now + Delay]
      BY <2>4 DEF SampleMem, Sleep
    <3> QED
      BY <1>0, <2>1, <3>1 DEF ThreadsInv
  <2> QED
    BY <1>7, <2>2, <2>3, <2>4 DEF Sampling
<1>8. CASE Tick
  <2>1. UNCHANGED <<pc, die, sampler, wake, cpu, to_stop, deadline>> /\ now' = now + 1
    BY <1>8 DEF Tick, threads, stopping
  <2>2. cpu.last_cpu <= now + 1
    BY <1>0 DEF ThreadsInv, CpuStats
  <2> QED
    BY <2>1, <2>2 DEF ThreadsInv
<1>9. CASE UNCHANGED vars
  BY <1>9 DEF vars, threads, stopping, ThreadsInv
<1> QED
  BY <1>1, <1>2, <1>3, <1>4, <1>5, <1>6, <1>7, <1>8, <1>9 DEF Next, Leading, Terminated

\* Whatever a thread does, its statistics grow.
LEMMA CountsGrow ==
  ASSUME Timed, ThreadsInv, SumInv, [Next]_vars
  PROVE  /\ prompt' = prompt
         /\ cpu.requests_count \in Nat /\ mem.requests_count \in Nat
         /\ cpu'.requests_count >= cpu.requests_count
         /\ mem'.requests_count >= mem.requests_count
<1>1. cpu.requests_count \in Nat /\ mem.requests_count \in Nat
  BY DEF ThreadsInv, CpuStats, SumInv, Stats
<1>2. prompt' = prompt
  BY Zenon DEF Next, Leading, Sampling, Terminated, vars, StartProfilers, StartTimer,
     KeepRunning, Choose, Generate, Read, Modify, PauseBench, PauseTimer, ResumeTimer,
     ResumeBench, Call, Throw,
     PrintTimes, StopBench, StopTimer, Stop, Tell, Join, Report, Wake, SampleCpu, SampleMem,
     Tick
<1>3. CASE SampleCpu
  <2>1. mem' = mem
    BY <1>3 DEF SampleCpu
  <2> QED
    BY <1>1, <1>2, <1>3, <2>1, SampleCpuFacts
<1>4. CASE SampleMem
  <2>1. cpu' = cpu
    BY <1>4 DEF SampleMem
  <2>2. mem'.requests_count = mem.requests_count + 1
    BY <1>4 DEF SampleMem, Recalculated
  <2> QED
    BY <1>1, <1>2, <2>1, <2>2
<1>5. CASE ~SampleCpu /\ ~SampleMem
  <2>1. UNCHANGED <<cpu, mem>>
    BY <1>5 DEF Next, Leading, Sampling, Terminated, vars, threads, StartProfilers, StartTimer,
       KeepRunning, Choose, Generate, Read, Modify, PauseBench, PauseTimer, ResumeTimer,
       ResumeBench, Call, Throw,
       PrintTimes, StopBench, StopTimer, Stop, Tell, Join, Report, Wake, Tick
  <2> QED
    BY <1>1, <1>2, <2>1
<1> QED
  BY <1>3, <1>4, <1>5

\* No thread that could run is left behind by the time, so the first samples and
\* the second one of the processor are taken while the leading thread sleeps in
\* stop().
LEMMA FirstStep ==
  ASSUME Timed, ThreadsInv, SumInv, prompt, FirstInv, [Next]_vars
  PROVE  FirstInv'
<1> USE DEF Goto, watches, ghosts
<1>0. /\ now \in Nat /\ Delay \in Nat \ {0} /\ deadline \in Nat
      /\ cpu.last_cpu \in Nat /\ cpu.last_cpu <= now
      /\ mem.requests_count \in Nat /\ cpu.requests_count \in Nat
  BY MeasurementAssumption DEF Timed, ThreadsInv, CpuStats, SumInv, Stats
<1>1. /\ "cpu" \in Profilers /\ "mem" \in Profilers
      /\ sampler \in [Profilers -> {"none", "sleep", "sample", "exited"}]
      /\ wake \in [Profilers -> Nat]
  BY DEF Profilers, ThreadsInv
<1>2. CASE StartProfilers
  <2>1. /\ pc = "start" /\ pc' = "start_timer" /\ UNCHANGED <<now, cpu, mem>>
        /\ sampler' = [p \in Profilers |-> "sleep"] /\ wake' = [p \in Profilers |-> now]
    BY <1>2 DEF StartProfilers
  <2>2. ~die'["cpu"] /\ ~die'["mem"]
    BY <1>1, <1>2, Zenon DEF StartProfilers
  <2>3. cpu.first_time
    BY <2>1 DEF ThreadsInv
  <2>4. Ready("cpu")' /\ Ready("mem")'
    BY <1>0, <1>1, <2>1 DEF Ready
  <2> QED
    BY <2>1, <2>2, <2>3, <2>4 DEF FirstInv
<1>3. CASE StartTimer \/ KeepRunning \/ Choose \/ Generate \/ Read \/ Modify \/ PauseBench
          \/ PauseTimer \/ ResumeTimer
           \/ ResumeBench \/ Call \/ PrintTimes \/ StopBench \/ StopTimer
  <2>1. UNCHANGED <<now, die, sampler, wake, cpu, mem>>
    BY <1>3 DEF StartTimer, KeepRunning, Choose, Generate, Read, Modify, PauseBench,
                PauseTimer, ResumeTimer,
                ResumeBench, Call, PrintTimes, StopBench, StopTimer, threads
  <2>2. pc \notin Stopping \cup {"start"} /\ pc' # "tell"
    BY <1>3 DEF StartTimer, KeepRunning, Choose, Generate, Read, Modify, PauseBench,
                PauseTimer, ResumeTimer,
                ResumeBench, Call, PrintTimes, StopBench, StopTimer, Stopping
  <2> QED
    BY <2>1, <2>2 DEF FirstInv, Untold, Ready
<1>4. CASE Throw
  <2>1. pc' = "stop" /\ to_stop' = <<"mem", "cpu">>
    BY <1>4 DEF Throw
  <2>2. to_stop' # <<"cpu", "mem">>
    BY <2>1
  <2> QED
    BY <2>1, <2>2 DEF FirstInv, Untold, Stopping
<1>5. CASE Stop
  <2>1. /\ UNCHANGED <<now, die, sampler, wake, cpu, mem, to_stop>>
        /\ pc = "stop" /\ pc' = "tell"
        /\ deadline' = IF Head(to_stop) = "cpu" THEN now + Delay + 1 ELSE now
    BY <1>5 DEF Stop, threads
  <2>2. CASE to_stop = <<"cpu", "mem">>
    <3>1. deadline' = now + Delay + 1
      BY <2>1, <2>2
    <3>2. deadline' > now /\ deadline' > now + Delay /\ deadline' > cpu.last_cpu + Delay
      BY <1>0, <3>1
    <3> QED
      BY <2>1, <2>2, <3>2 DEF FirstInv, Untold, Ready
  <2>3. CASE to_stop # <<"cpu", "mem">>
    BY <2>1, <2>3 DEF FirstInv, Untold, Stopping
  <2> QED
    BY <2>2, <2>3
<1>6. CASE Tell \/ Report
  <2>1. pc' \in {"join", "done"}
    BY <1>6 DEF Tell, Report
  <2> QED
    BY <2>1 DEF FirstInv, Untold, Stopping
<1>7. CASE Join
  <2>1. pc' = "stop" /\ to_stop' = Tail(to_stop) /\ pc = "join"
    BY <1>7 DEF Join
  <2>2. to_stop \in {<<"cpu", "mem">>, <<"mem", "cpu">>, <<"cpu">>, <<"mem">>}
    BY <2>1 DEF ThreadsInv
  <2>3. to_stop' \in {<<"cpu">>, <<"mem">>, << >>}
    BY <2>1, <2>2, Tails, Zenon
  <2>4. to_stop' # <<"cpu", "mem">>
    BY <2>3
  <2> QED
    BY <2>1, <2>4 DEF FirstInv, Untold, Stopping
<1>8. ASSUME NEW p \in Profilers, Sampling(p)
      PROVE  FirstInv'
  <2>1. UNCHANGED <<now, pc, to_stop, deadline, die>>
    BY <1>8 DEF Sampling, Wake, SampleCpu, SampleMem, stopping
  <2>2. CASE Wake(p)
    <3>1. UNCHANGED <<wake, cpu, mem>> /\ sampler[p] = "sleep" /\ now >= wake[p]
      BY <2>2 DEF Wake
    <3>2. ASSUME Untold
          PROVE  sampler' = [sampler EXCEPT ![p] = "sample"]
      <4>1. ~die[p]
        BY <3>2 DEF FirstInv, Profilers
      <4> QED
        BY <2>2, <4>1 DEF Wake
    <3> QED
      BY <1>1, <2>1, <3>1, <3>2 DEF FirstInv, Untold, Ready
  <2>3. CASE SampleCpu
    <3>1. /\ sampler["cpu"] = "sample" /\ mem' = mem
          /\ sampler' = [sampler EXCEPT !["cpu"] = "sleep"]
          /\ wake' = [wake EXCEPT !["cpu"] = now + Delay]
      BY <2>3 DEF SampleCpu, Sleep
    <3>2. /\ ~cpu'.first_time /\ cpu'.last_cpu = now
          /\ cpu'.requests_count = cpu.requests_count
               + IF ~cpu.first_time /\ now > cpu.last_cpu THEN 1 ELSE 0
      BY <2>3, SampleCpuFacts
    <3>3. /\ sampler'["mem"] = sampler["mem"] /\ wake'["mem"] = wake["mem"]
          /\ sampler'["cpu"] = "sleep" /\ wake'["cpu"] = now + Delay
      BY <1>1, <3>1
    <3>4. ASSUME Untold, cpu'.requests_count = 0
          PROVE  cpu.first_time
      <4>1. SUFFICES ASSUME ~cpu.first_time
                     PROVE  FALSE
        OBVIOUS
      <4>2. cpu.requests_count = 0
        BY <1>0, <3>2, <3>4, <4>1
      <4>3. now >= cpu.last_cpu + Delay
        BY <3>1, <3>4, <4>1, <4>2 DEF FirstInv
      <4>4. now > cpu.last_cpu
        BY <1>0, <4>3
      <4> QED
        BY <1>0, <3>2, <3>4, <4>1, <4>4
    <3> QED
      BY <1>0, <2>1, <3>1, <3>2, <3>3, <3>4 DEF FirstInv, Untold, Ready
  <2>4. CASE SampleMem
    <3>1. /\ cpu' = cpu /\ sampler' = [sampler EXCEPT !["mem"] = "sleep"]
          /\ wake' = [wake EXCEPT !["mem"] = now + Delay]
      BY <2>4 DEF SampleMem, Sleep
    <3>2. mem'.requests_count = mem.requests_count + 1
      BY <2>4 DEF SampleMem, Recalculated
    <3>3. sampler'["cpu"] = sampler["cpu"] /\ wake'["cpu"] = wake["cpu"]
      BY <1>1, <3>1
    <3> QED
      BY <1>0, <2>1, <3>1, <3>2, <3>3 DEF FirstInv, Untold, Ready
  <2> QED
    BY <1>8, <2>2, <2>3, <2>4 DEF Sampling
<1>9. CASE Tick
  <2>1. UNCHANGED <<pc, die, sampler, wake, cpu, mem, to_stop, deadline>> /\ now' = now + 1
    BY <1>9 DEF Tick, threads, stopping
  <2>2. ~Ready("cpu") /\ ~Ready("mem")
    BY <1>1, <1>9 DEF Tick
  <2>3. ASSUME Untold
        PROVE  /\ mem.requests_count # 0 /\ ~cpu.first_time
               /\ cpu.requests_count = 0 =>
                    sampler["cpu"] = "sleep" /\ now + 1 <= wake["cpu"]
    BY <1>0, <1>1, <2>2, <2>3 DEF FirstInv, Ready
  <2> QED
    BY <2>1, <2>3 DEF FirstInv, Untold, Ready
<1>10. CASE UNCHANGED vars
  BY <1>10 DEF vars, threads, stopping, FirstInv, Untold, Ready
<1> QED
  BY <1>2, <1>3, <1>4, <1>5, <1>6, <1>7, <1>8, <1>9, <1>10 DEF Next, Leading, Terminated

\* When stop() of the profiler of the processor tells its thread to die, both
\* threads have sampled.
LEMMA ToldLate ==
  ASSUME Timed, ThreadsInv, SumInv, FirstInv, Tell, to_stop = <<"cpu", "mem">>
  PROVE  Sampled
<1>1. /\ now \in Nat /\ Delay \in Nat /\ deadline \in Nat /\ cpu.last_cpu \in Nat
      /\ mem.requests_count \in Nat /\ cpu.requests_count \in Nat
  BY MeasurementAssumption DEF Timed, ThreadsInv, CpuStats, SumInv, Stats
<1>2. pc = "tell" /\ now >= deadline
  BY DEF Tell, Goto
<1>3. Untold
  BY <1>2 DEF Untold
<1>4. mem.requests_count # 0 /\ ~cpu.first_time
  BY <1>1, <1>2, <1>3 DEF FirstInv
<1>5. cpu.requests_count # 0
  BY <1>1, <1>2, <1>3, <1>4 DEF FirstInv
<1> QED
  BY <1>1, <1>4, <1>5 DEF Sampled

\* While the profilers are stopped after all operations, what is left to stop
\* says whether both have sampled.
LEMMA StopStep ==
  ASSUME Timed, ThreadsInv, SumInv, FirstInv, StopInv, [Next]_vars
  PROVE  StopInv'
<1> USE DEF Goto, watches, ghosts
<1>1. Sampled => Sampled'
  <2>1. ThreadsInv' /\ SumInv'
    BY ThreadsStep, SumStep
  <2>2. cpu'.requests_count \in Nat /\ mem'.requests_count \in Nat
    BY <2>1 DEF ThreadsInv, CpuStats, SumInv, Stats
  <2> QED
    BY <2>2, CountsGrow DEF Sampled
<1>2. CASE StartProfilers \/ StartTimer \/ KeepRunning \/ Choose \/ Generate \/ Read
          \/ Modify \/ PauseBench \/ PauseTimer
           \/ ResumeTimer \/ ResumeBench \/ Call \/ PrintTimes \/ StopBench
  <2>1. pc' \notin Stopping
    BY <1>2 DEF StartProfilers, StartTimer, KeepRunning, Choose, Generate, Read, Modify,
                PauseBench, PauseTimer,
                ResumeTimer, ResumeBench, Call, PrintTimes, StopBench, Stopping
  <2> QED
    BY <2>1 DEF StopInv
<1>3. CASE Throw
  <2>1. left' = left /\ left > 0
    BY <1>3 DEF Throw, Timed, Within
  <2>2. left' # 0
    BY <2>1
  <2> QED
    BY <2>2 DEF StopInv
<1>4. CASE StopTimer
  <2>1. pc' = "stop" /\ to_stop' = <<"cpu", "mem">>
    BY <1>4 DEF StopTimer
  <2> QED
    BY <2>1 DEF StopInv
<1>5. CASE Stop
  <2>1. pc = "stop" /\ pc' = "tell" /\ UNCHANGED <<left, to_stop>>
    BY <1>5 DEF Stop
  <2> QED
    BY <1>1, <2>1 DEF StopInv, Stopping
<1>6. CASE Tell
  <2>1. pc = "tell" /\ pc' = "join" /\ UNCHANGED <<left, to_stop>>
    BY <1>6 DEF Tell, stopping
  <2>2. left = 0 => Sampled
    BY <1>6, <2>1, ToldLate DEF StopInv, Stopping
  <2> QED
    BY <1>1, <2>1, <2>2 DEF StopInv, Stopping
<1>7. CASE Join
  <2>1. /\ pc = "join" /\ pc' = "stop" /\ left' = left /\ to_stop' = Tail(to_stop)
        /\ to_stop # << >>
    BY <1>7 DEF Join, ThreadsInv
  <2>2. left = 0 => Sampled /\ to_stop \in {<<"cpu", "mem">>, <<"mem">>}
    BY <2>1 DEF StopInv, Stopping
  <2>3. left = 0 => to_stop' \in {<<"mem">>, << >>}
    BY <2>1, <2>2, Tails, Zenon
  <2>4. to_stop' # <<"cpu", "mem">> \/ left # 0
    BY <2>3
  <2> QED
    BY <1>1, <2>1, <2>2, <2>3, <2>4 DEF StopInv
<1>8. CASE Report
  <2>1. pc = "stop" /\ pc' = "done" /\ UNCHANGED <<left, to_stop>> /\ to_stop = << >>
    BY <1>8 DEF Report, stopping
  <2>2. to_stop # <<"cpu", "mem">>
    BY <2>1
  <2> QED
    BY <1>1, <2>1, <2>2 DEF StopInv, Stopping
<1>9. CASE Tick \/ (\E p \in Profilers : Sampling(p)) \/ UNCHANGED vars
  <2>1. UNCHANGED <<pc, left, to_stop>>
    BY <1>9 DEF Tick, Sampling, Wake, SampleCpu, SampleMem, stopping, vars
  <2> QED
    BY <1>1, <2>1 DEF StopInv
<1> QED
  BY <1>2, <1>3, <1>4, <1>5, <1>6, <1>7, <1>8, <1>9 DEF Next, Leading, Terminated
-----------------------------------------------------------------------------
(***************************************************************************)
(* The theorems.                                                           *)
(***************************************************************************)

\* The inductive invariant: which clock runs where, what the average owes to the
\* samples, and how far the threads of the profilers are.
MeasurementInv == Timed /\ WatchInv /\ SumInv /\ ThreadsInv /\ PromptInv

\* Every state the measurement reaches satisfies it, whatever the delay, the
\* operations and the speed of the threads.
THEOREM MeasurementInvariant == Spec => []MeasurementInv
<1>1. Init => MeasurementInv
  <2> SUFFICES ASSUME Init
               PROVE  SumInv /\ PromptInv
    BY TimedInit, WatchInit, ThreadsInit DEF MeasurementInv
  <2>1. SumInv
    BY DEF Init, SumInv, Stats, NoStats, AverageOfSamples
  <2>2. pc = "start"
    BY DEF Init
  <2>3. PromptInv
    BY <2>2 DEF PromptInv, FirstInv, StopInv, Untold, Stopping
  <2> QED
    BY <2>1, <2>3
<1>2. MeasurementInv /\ [Next]_vars => MeasurementInv'
  <2> SUFFICES ASSUME MeasurementInv, [Next]_vars
               PROVE  MeasurementInv'
    OBVIOUS
  <2> USE DEF MeasurementInv
  <2>1. Timed' /\ WatchInv' /\ SumInv' /\ ThreadsInv'
    BY TimedStep, WatchStep, SumStep, ThreadsStep
  <2>2. prompt' = prompt
    BY CountsGrow
  <2>3. PromptInv'
    BY <2>2, FirstStep, StopStep DEF PromptInv
  <2> QED
    BY <2>1, <2>3
<1> QED
  BY <1>1, <1>2, PTL DEF Spec

\* The time of the library's timer holds every call of the database and what is
\* made for single operations, the time the program prints holds that, and neither
\* holds any preparation of a batch.
THEOREM TimesNestedAlways == Spec => []TimesNested
<1>1. MeasurementInv => TimesNested
  BY DEF MeasurementInv, WatchInv, TimesNested, OperationsTime, ElapsedTime
<1> QED
  BY <1>1, MeasurementInvariant, PTL

\* The average that is computed in integers stays between the least and the
\* greatest sample, and within half the number of samples of the mean.
THEOREM AverageOfSamplesAlways == Spec => []AverageOfSamples
<1>1. MeasurementInv => AverageOfSamples
  BY DEF MeasurementInv, SumInv
<1> QED
  BY <1>1, MeasurementInvariant, PTL

\* However short a workload is, the sleep in cpu_profiler_t::stop gives both
\* profilers the time for a sample, when threads run as soon as they may.
THEOREM StatsSampledAlways == Spec => []StatsSampled
<1>1. MeasurementInv => StatsSampled
  <2> SUFFICES ASSUME MeasurementInv, prompt, pc = "done", left = 0
               PROVE  cpu.requests_count > 0 /\ mem.requests_count > 0
    BY DEF StatsSampled
  <2>1. StopInv
    BY DEF MeasurementInv, PromptInv
  <2>2. Sampled
    BY <2>1 DEF StopInv, Stopping
  <2> QED
    BY <2>2 DEF Sampled
<1> QED
  BY <1>1, MeasurementInvariant, PTL
=============================================================================
