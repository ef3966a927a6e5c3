----------------------------- MODULE BenchProofs -----------------------------
(***************************************************************************)
(* Proofs about Bench for every finite set of threads, every number of     *)
(* workloads and of operations of each thread, in both modes, with and     *)
(* without failures of the database and of the exchange.                   *)
(*                                                                         *)
(* BenchInv is proved in layers: where the threads are and how many        *)
(* operations they have left (PlacesInv); what the two barriers say of the *)
(* places of others (BarriersInv); what the shared counters count          *)
(* (ProgressInv); which thread flushes (FlushInv); and what the leader     *)
(* reports (ReportInv).                                                    *)
(***************************************************************************)
EXTENDS Bench, FiniteSetTheorems, TLAPS

-----------------------------------------------------------------------------
(***************************************************************************)
(* The inductive invariant.                                                *)
(***************************************************************************)

\* The way of a thread through one workload, cut at its four barrier calls.
BeforeFence   == {"open", "arrive_open"}
BeforeStart   == {"begin", "add_total", "arrive_start"}
Uncounted     == {"operate", "tally", "count"}
CountedPlaces == {"load_done", "load_printed", "print", "store_printed", "judge", "flush"}
Iterating     == Uncounted \cup CountedPlaces
AfterStop     == {"conclude", "clear", "leave", "arrive_close"}
AfterFence    == {"close", "idle"}

LeadersOnly   == {"open", "conclude", "clear", "close"}

\* A thread has all its operations left before the loop and none after it.
LeftAt(t) ==
  /\ pc[t] \in BeforeFence \cup {"pass_open"} \cup BeforeStart \cup {"pass_start"}
       => left[t] = Operations[run][t]
  /\ pc[t] \in Iterating => left[t] \in 1..Operations[run][t]
  /\ pc[t] \in {"arrive_stop", "pass_stop", "pass_close"} \cup AfterStop \cup AfterFence
       => left[t] = 0

PlacesInv ==
  /\ TypeOK
  /\ run = 0 => \A t \in Threads : pc[t] = "idle"
  /\ run > 0 => \A t \in Threads : LeftAt(t)
  /\ \A t \in Threads \ {Leader} : pc[t] \notin LeadersOnly

\* Each thread calls the fence twice in every workload, and the start/stop
\* barrier too; its place says how often.
RoundsAt(t, none, twice) ==
  2 * run - 2 + (IF pc[t] \in none THEN 0 ELSE IF pc[t] \in twice THEN 2 ELSE 1)

BeforeLoop == BeforeFence \cup {"pass_open"} \cup BeforeStart
AfterLoop  == AfterStop \cup {"pass_close"} \cup AfterFence

RoundsInv ==
  \A t \in Threads :
    /\ fenceArrived[t] = RoundsAt(t, BeforeFence, {"pass_close"} \cup AfterFence)
    /\ fencePassed[t]  = RoundsAt(t, BeforeFence \cup {"pass_open"}, AfterFence)
    /\ startArrived[t] = RoundsAt(t, BeforeLoop, {"pass_stop"} \cup AfterLoop)
    /\ startPassed[t]  = RoundsAt(t, BeforeLoop \cup {"pass_start"}, AfterLoop)

\* Nobody leaves a barrier before everybody has come to it.
IsolationInv ==
  \A t, u \in Threads : /\ fencePassed[t] <= fenceArrived[u]
                        /\ startPassed[t] <= startArrived[u]

\* The leader has the database open from its first call to its last.
OpenInv == run > 0 /\ pc[Leader] \notin {"open", "idle"} => db = "open"

BarriersInv == RoundsInv /\ IsolationInv /\ OpenInv

\* The operations each thread has announced, performed and counted, and those
\* whose result has been added to touched or failed.
Announced == [t \in Threads |-> IF pc[t] \in BeforeFence \cup {"pass_open", "begin", "add_total"}
                                THEN 0 ELSE Operations[run][t]]
Counted   == [t \in Threads |-> Operations[run][t] - left[t]
                                + (IF pc[t] \in CountedPlaces THEN 1 ELSE 0)]
Tallied   == [t \in Threads |-> Operations[run][t] - left[t]
                                + (IF pc[t] \in CountedPlaces \cup {"count"} THEN 1 ELSE 0)]
GoodUntallied == {t \in Threads : pc[t] = "tally" /\ good[t]}

\* The leader has cleared the counters, or no workload has begun.
Cleared == pc[Leader] \in {"leave", "arrive_close", "pass_close"} \cup AfterFence

ProgressInv ==
  /\ Cleared => total = 0 /\ touched = 0 /\ failed = 0 /\ done = 0
  /\ ~Cleared => /\ total = Cardinality(Numbered(Announced))
                 /\ done  = Cardinality(Numbered(Counted))
                 /\ touched + failed = Cardinality(Numbered(Tallied))
                 /\ touched + Cardinality(GoodUntallied) = goodOnes

\* What is printed is behind what is done.
PrintedInv ==
  /\ lastPrinted <= done
  /\ \A t \in Threads : pc[t] = "store_printed" => seen[t] <= done

\* No two operations have the same number, and none a higher one than done.
NumbersInv ==
  /\ \A t \in Threads : pc[t] \in CountedPlaces => mine[t] \in 1..done
  /\ \A t, u \in Threads : t # u /\ pc[t] \in CountedPlaces /\ pc[u] \in CountedPlaces
                             => mine[t] # mine[u]

\* A thread whose operation was the last one of all.
IsLast(t) == pc[t] \in CountedPlaces /\ mine[t] = total

FlushInv ==
  /\ \A t \in Threads : /\ pc[t] = "flush" => mine[t] = total
                        /\ pc[t] \in BeforeLoop \cup {"pass_start"} \cup Iterating
                             => (doFlash[t] <=> pc[t] # "flush")
  /\ flushes \in {0, 1}
  /\ flushes = 1 => /\ Cleared \/ done = OperationsOfAll
                    /\ \A t \in Threads : ~IsLast(t)
  /\ ~Cleared /\ ~spurious /\ done = OperationsOfAll /\ flushes = 0
       => \E t \in Threads : IsLast(t)

\* Without transactions nothing is written after the flush.
CleanInv ==
  ~transactional => /\ \A t \in Threads : txn[t] = "none"
                    /\ flushes = 1 => ~dirty

ReportInv == ExactReport /\ DirectSizeAfterFlush
-----------------------------------------------------------------------------
(***************************************************************************)
(* Counting numbered operations.                                           *)
(***************************************************************************)

\* Numbered(f) consists of the pairs of a thread and a number up to f's.
LEMMA NumberedMember ==
  ASSUME NEW f \in [Threads -> Nat]
  PROVE  /\ \A t \in Threads, n \in Nat : <<t, n>> \in Numbered(f) <=> 1 <= n /\ n <= f[t]
         /\ \A p \in Numbered(f) : \E t \in Threads, n \in Nat : p = <<t, n>>
<1>1. \A t \in Threads : f[t] \in Nat
  OBVIOUS
<1> QED
  BY <1>1 DEF Numbered

\* Finitely many threads have finitely many operations.
LEMMA NumberedFinite ==
  ASSUME NEW f \in [Threads -> Nat]
  PROVE  IsFiniteSet(Numbered(f)) /\ Cardinality(Numbered(f)) \in Nat
<1> DEFINE OfThread == [t \in Threads |-> {t} \X (1..f[t])]
           Parts == { {t} \X (1..f[t]) : t \in Threads }
<1>1. OfThread \in Surjection(Threads, Parts)
  BY DEF Surjection
<1>2. IsFiniteSet(Parts)
  BY <1>1, BenchAssumption, FS_Surjection
<1>3. ASSUME NEW P \in Parts PROVE IsFiniteSet(P)
  <2>1. PICK t \in Threads : P = {t} \X (1..f[t])
    OBVIOUS
  <2>2. IsFiniteSet(1..f[t])
    <3>1. f[t] \in Int /\ 1 \in Int
      OBVIOUS
    <3> QED
      BY <3>1, FS_Interval
  <2>3. IsFiniteSet({t})
    BY FS_Singleton
  <2> QED
    BY <2>1, <2>2, <2>3, FS_Product
<1>4. IsFiniteSet(UNION Parts)
  BY <1>2, <1>3, FS_UNION
<1> QED
  BY <1>4, FS_CardinalityType DEF Numbered

\* k more operations of one thread are k more operations.
LEMMA NumberedMore ==
  ASSUME NEW f \in [Threads -> Nat], NEW t \in Threads, NEW k \in Nat,
         NEW g \in [Threads -> Nat],
         \A u \in Threads : g[u] = IF u = t THEN f[t] + k ELSE f[u]
  PROVE  Cardinality(Numbered(g)) = Cardinality(Numbered(f)) + k
<1> DEFINE a   == f[t] + 1
           b   == f[t] + k
           New == {t} \X (a..b)
<1>1. /\ f[t] \in Nat /\ a \in Int /\ b \in Int
      /\ \A u \in Threads : f[u] \in Nat
  OBVIOUS
<1>2. Numbered(g) = Numbered(f) \cup New
  <2>1. ASSUME NEW p \in Numbered(g) PROVE p \in Numbered(f) \cup New
    <3>1. PICK u \in Threads, n \in Nat : p = <<u, n>>
      BY NumberedMember
    <3>2. 1 <= n /\ n <= g[u]
      BY <3>1, NumberedMember
    <3>3. n <= f[u] \/ (u = t /\ n \in a..b)
      BY <1>1, <3>2
    <3> QED
      BY <3>1, <3>2, <3>3, NumberedMember
  <2>2. ASSUME NEW p \in Numbered(f) PROVE p \in Numbered(g)
    <3>1. PICK u \in Threads, n \in Nat : p = <<u, n>>
      BY NumberedMember
    <3>2. 1 <= n /\ n <= f[u]
      BY <3>1, NumberedMember
    <3>3. n <= g[u]
      BY <1>1, <3>2
    <3> QED
      BY <3>1, <3>2, <3>3, NumberedMember
  <2>3. ASSUME NEW n \in a..b PROVE <<t, n>> \in Numbered(g)
    <3>1. n \in Nat /\ 1 <= n /\ n <= g[t]
      BY <1>1
    <3> QED
      BY <3>1, NumberedMember
  <2>4. \A p \in New : \E n \in a..b : p = <<t, n>>
    OBVIOUS
  <2> HIDE DEF New
  <2>5. \A p \in New : p \in Numbered(g)
    BY <2>3, <2>4
  <2> QED
    BY <2>1, <2>2, <2>5
<1>3. Numbered(f) \cap New = {}
  <2> SUFFICES ASSUME NEW n \in a..b, <<t, n>> \in Numbered(f) PROVE FALSE
    OBVIOUS
  <2>1. n \in Nat /\ n > f[t]
    BY <1>1
  <2> QED
    BY <1>1, <2>1, NumberedMember
<1>4. /\ IsFiniteSet(New)
      /\ Cardinality(New) = k
  <2>1. IsFiniteSet({t}) /\ Cardinality({t}) = 1
    BY FS_Singleton
  <2>2. IsFiniteSet(a..b) /\ Cardinality(a..b) = k
    <3>1. /\ IsFiniteSet(a..b)
          /\ Cardinality(a..b) = IF a > b THEN 0 ELSE b - a + 1
      <4> HIDE DEF a, b
      <4> QED BY <1>1, FS_Interval
    <3> QED
      BY <1>1, <3>1
  <2>3. Cardinality(New) = 1 * k /\ IsFiniteSet(New)
    <3> HIDE DEF a, b
    <3> QED BY <2>1, <2>2, FS_Product
  <2> QED
    BY <2>3
<1>5. Cardinality(Numbered(f) \cup New)
        = Cardinality(Numbered(f)) + k - Cardinality(Numbered(f) \cap New)
  <2> HIDE DEF New
  <2> QED BY <1>4, NumberedFinite, FS_Union
<1>6. Cardinality(Numbered(f) \cap New) = 0
  BY <1>3, FS_EmptySet
<1>7. Cardinality(Numbered(f)) \in Nat
  BY NumberedFinite
<1> HIDE DEF New
<1>8. Cardinality(Numbered(g)) = Cardinality(Numbered(f) \cup New)
  BY <1>2, Zenon
<1> QED
  BY <1>5, <1>6, <1>7, <1>8

\* More operations of some threads are more operations, unless there are none.
LEMMA NumberedMonotone ==
  ASSUME NEW f \in [Threads -> Nat], NEW g \in [Threads -> Nat],
         \A t \in Threads : f[t] <= g[t]
  PROVE  /\ Cardinality(Numbered(f)) <= Cardinality(Numbered(g))
         /\ Cardinality(Numbered(f)) = Cardinality(Numbered(g))
              => \A t \in Threads : f[t] = g[t]
<1>0. \A t \in Threads : f[t] \in Nat /\ g[t] \in Nat
  OBVIOUS
<1>1. Numbered(f) \subseteq Numbered(g)
  <2> SUFFICES ASSUME NEW p \in Numbered(f) PROVE p \in Numbered(g)
    OBVIOUS
  <2>1. PICK t \in Threads, n \in Nat : p = <<t, n>>
    BY NumberedMember
  <2>2. 1 <= n /\ n <= f[t]
    BY <2>1, NumberedMember
  <2>3. n <= g[t]
    BY <1>0, <2>2
  <2> QED
    BY <2>1, <2>2, <2>3, NumberedMember
<1>2. /\ Cardinality(Numbered(f)) <= Cardinality(Numbered(g))
      /\ Cardinality(Numbered(f)) = Cardinality(Numbered(g)) => Numbered(g) = Numbered(f)
  BY <1>1, NumberedFinite, FS_Subset
<1>3. ASSUME Numbered(g) = Numbered(f), NEW t \in Threads PROVE f[t] = g[t]
  <2>1. g[t] > 0 => <<t, g[t]>> \in Numbered(g)
    BY <1>0, NumberedMember
  <2>2. g[t] > 0 => g[t] <= f[t]
    BY <1>0, <1>3, <2>1, NumberedMember
  <2> QED
    BY <1>0, <2>2
<1> QED
  BY <1>2, <1>3

\* No thread has any operation: none are counted.
LEMMA NumberedNone ==
  ASSUME NEW f \in [Threads -> Nat], \A t \in Threads : f[t] = 0
  PROVE  Cardinality(Numbered(f)) = 0
<1>1. ASSUME NEW p \in Numbered(f) PROVE FALSE
  <2>1. PICK t \in Threads, n \in Nat : p = <<t, n>>
    BY NumberedMember
  <2> QED
    BY <2>1, NumberedMember
<1> QED
  BY <1>1, FS_EmptySet
-----------------------------------------------------------------------------
(***************************************************************************)
(* Where the threads are, and how many operations they have left.     *)
(***************************************************************************)

\* Each thread has an operation to do in every workload.
LEMMA SomeOperations ==
  ASSUME NEW w \in 1..Workloads, NEW t \in Threads
  PROVE  Operations[w][t] \in Nat /\ Operations[w][t] >= 1
<1>1. Operations[w] \in [Threads -> Nat \ {0}]
  BY BenchAssumption, Zenon
<1> QED
  BY <1>1

\* At first all threads are idle and the counters are zero.
LEMMA PlacesInit == Init => PlacesInv
<1> SUFFICES ASSUME Init PROVE PlacesInv
  OBVIOUS
<1>1. transactional \in BOOLEAN /\ spurious \in BOOLEAN
  BY BenchAssumption, Zenon DEF Init
<1>2. Workloads \in Nat /\ run \in 0..Workloads
  BY BenchAssumption DEF Init
<1>3. /\ pc \in [Threads -> Places] /\ aborted \in BOOLEAN
      /\ \A t \in Threads : pc[t] = "idle"
  BY DEF Init, Places
<1>4. /\ db \in {"closed", "open"} /\ dirty \in BOOLEAN
      /\ txn \in [Threads -> {"none", "clean", "dirty"}]
      /\ report \in [touched : Nat, failed : Nat, done : Nat, flushed : BOOLEAN]
  BY DEF Init, NoReport
<1>5. /\ total \in Nat /\ touched \in Nat /\ failed \in Nat /\ done \in Nat
      /\ lastPrinted \in Nat /\ goodOnes \in Nat /\ flushes \in Nat
  BY DEF Init
<1>6. /\ left \in [Threads -> Nat] /\ mine \in [Threads -> Nat] /\ seen \in [Threads -> Nat]
      /\ good \in [Threads -> BOOLEAN] /\ doFlash \in [Threads -> BOOLEAN]
  BY DEF Init
<1>7. /\ fenceArrived \in [Threads -> Nat] /\ fencePassed \in [Threads -> Nat]
      /\ startArrived \in [Threads -> Nat] /\ startPassed \in [Threads -> Nat]
  BY DEF Init, Fence!Init, Start!Init
<1>8. run = 0
  BY DEF Init
<1> QED
  BY <1>1, <1>2, <1>3, <1>4, <1>5, <1>6, <1>7, <1>8 DEF PlacesInv, TypeOK, LeadersOnly

\* A new workload gives every thread its operations.
LEMMA PlacesStartWorkload ==
  ASSUME PlacesInv, StartWorkload PROVE PlacesInv'
<1>0. run \in 0 .. Workloads /\ run < Workloads /\ run' = run + 1
  BY DEF StartWorkload, PlacesInv, TypeOK
<1>1. TypeOK'
  <2>1. run' \in 0 .. Workloads /\ run' \in 1 .. Workloads
    BY <1>0, BenchAssumption
  <2>2. pc' \in [Threads -> Places] /\ doFlash' \in [Threads -> BOOLEAN]
    BY DEF StartWorkload, Places, Using
  <2>3. left' \in [Threads -> Nat]
    <3>1. \A t \in Threads : Operations[run + 1][t] \in Nat
      BY <1>0, <2>1, BenchAssumption
    <3> QED
      BY <3>1 DEF StartWorkload
  <2>4. goodOnes' \in Nat /\ flushes' \in Nat
    BY DEF StartWorkload
  <2>5. UNCHANGED <<transactional, spurious, aborted, db, dirty, txn, total, touched, failed,
                    done, lastPrinted, good, mine, seen, report, fenceArrived, fencePassed,
                    startArrived, startPassed>>
    BY DEF StartWorkload, settings, database, progress, barriers
  <2> QED
    BY <2>1, <2>2, <2>3, <2>4, <2>5 DEF PlacesInv, TypeOK
<1>2. run' > 0 /\ \A t \in Threads : pc'[t] \in {"open", "arrive_open"}
  BY DEF StartWorkload, PlacesInv, TypeOK
<1>3. \A t \in Threads \ {Leader} : pc'[t] \notin LeadersOnly
  BY DEF StartWorkload, LeadersOnly
<1>4. \A t \in Threads : LeftAt(t)'
  BY <1>2 DEF StartWorkload, LeftAt, BeforeFence, BeforeStart, Iterating, Uncounted,
              CountedPlaces, AfterStop, AfterFence
<1> QED
  BY <1>1, <1>2, <1>3, <1>4 DEF PlacesInv

\* No step of a thread takes a counter below zero, a thread to an unknown place
\* or to one of the leader's, or past the loop with operations left.
LEMMA PlacesThread ==
  ASSUME PlacesInv, NEW t \in Threads, Step(t) PROVE PlacesInv'
<1> USE DEF PlacesInv, TypeOK, LeftAt
<1>0. run > 0 => Operations[run][t] \in Nat /\ Operations[run][t] >= 1
  BY SomeOperations
<1> USE DEF At, Goto, current, settings, progress, locals, database, barriers, auxiliary,
            Places, Using, BeforeFence, BeforeStart, Iterating, Uncounted, CountedPlaces,
            AfterStop, AfterFence, LeadersOnly
<1>1. ASSUME Open(t) PROVE PlacesInv'
  <2>1. CASE Throw
    BY <1>0, <1>1, <2>1 DEF Open, Throw
  <2>2. CASE aborted' = aborted
    BY <1>0, <1>1, <2>2 DEF Open, Throw
  <2> QED
    BY <1>1, <2>1, <2>2 DEF Open
<1>2. ASSUME ArriveFence(t) PROVE PlacesInv'
  BY <1>0, <1>2 DEF ArriveFence, Fence!Arrive
<1>3. ASSUME PassFence(t) PROVE PlacesInv'
  BY <1>0, <1>3 DEF PassFence, Fence!Pass
<1>4. ASSUME Begin(t) PROVE PlacesInv'
  <2>1. CASE Throw
    BY <1>0, <1>4, <2>1 DEF Begin, Throw
  <2>2. CASE aborted' = aborted
    BY <1>0, <1>4, <2>2 DEF Begin, Throw
  <2> QED
    BY <1>4, <2>1, <2>2 DEF Begin
<1>5. ASSUME AddTotal(t) PROVE PlacesInv'
  BY <1>0, <1>5 DEF AddTotal
<1>6. ASSUME ArriveStart(t) PROVE PlacesInv'
  BY <1>0, <1>6 DEF ArriveStart, Start!Arrive
<1>7. ASSUME PassStart(t) PROVE PlacesInv'
  BY <1>0, <1>7 DEF PassStart, Start!Pass
<1>8. ASSUME Operate(t) PROVE PlacesInv'
  BY <1>0, <1>8 DEF Operate
<1>9. ASSUME Tally(t) PROVE PlacesInv'
  BY <1>0, <1>9 DEF Tally
<1>10. ASSUME Count(t) PROVE PlacesInv'
  BY <1>0, <1>10 DEF Count
<1>11. ASSUME LoadDone(t) PROVE PlacesInv'
  BY <1>0, <1>11 DEF LoadDone
<1>12. ASSUME LoadPrinted(t) PROVE PlacesInv'
  BY <1>0, <1>12 DEF LoadPrinted
<1>13. ASSUME PrintLine(t) PROVE PlacesInv'
  BY <1>0, <1>13 DEF PrintLine
<1>14. ASSUME StorePrinted(t) PROVE PlacesInv'
  BY <1>0, <1>14 DEF StorePrinted
<1>15. ASSUME Judge(t) PROVE PlacesInv'
  <2>1. run > 0 /\ pc[t] = "judge" /\ left[t] \in 1..Operations[run][t]
    BY <1>15 DEF Judge, At, Iterating, CountedPlaces
  <2>2. CASE pc' = [pc EXCEPT ![t] = "flush"] /\ left' = left
    BY <1>0, <1>15, <2>1, <2>2 DEF Judge
  <2>3. CASE NextIteration(t)
    BY <1>0, <1>15, <2>1, <2>3 DEF NextIteration, Judge
  <2> QED
    BY <1>15, <2>2, <2>3 DEF Judge, Goto
<1>16. ASSUME Flush(t) PROVE PlacesInv'
  <2>1. run > 0 /\ pc[t] = "flush" /\ left[t] \in 1..Operations[run][t]
    BY <1>16 DEF Flush, At, Iterating, CountedPlaces
  <2>2. NextIteration(t) /\ dirty' = FALSE /\ flushes' = flushes + 1
    BY <1>16 DEF Flush
  <2>3. TypeOK'
    <3>1. pc' \in [Threads -> Places] /\ left' \in [Threads -> Nat]
      BY <2>1, <2>2 DEF NextIteration, Goto, Places, Using
    <3>2. dirty' \in BOOLEAN
      BY <2>2, Zenon
    <3>3. flushes' \in Nat
      BY <2>2
    <3>4. UNCHANGED <<transactional, spurious, run, aborted, db, txn, total, touched, failed,
                      done, lastPrinted, good, mine, seen, doFlash, report, fenceArrived,
                      fencePassed, startArrived, startPassed, goodOnes>>
      BY <1>16 DEF Flush, current, settings, progress, barriers
    <3> QED
      BY <3>1, <3>2, <3>3, <3>4
  <2>4. \A u \in Threads : LeftAt(u)'
    BY <1>0, <1>16, <2>1, <2>2 DEF NextIteration, Flush
  <2>5. \A u \in Threads \ {Leader} : pc'[u] \notin LeadersOnly
    BY <1>16, <2>2 DEF NextIteration, Goto, LeadersOnly
  <2>6. run' > 0
    BY <1>16, <2>1 DEF Flush, current
  <2> QED
    BY <2>3, <2>4, <2>5, <2>6
<1>17. ASSUME Conclude(t) PROVE PlacesInv'
  BY <1>0, <1>17 DEF Conclude
<1>18. ASSUME Clear(t) PROVE PlacesInv'
  BY <1>0, <1>18 DEF Clear
<1>19. ASSUME Leave(t) PROVE PlacesInv'
  BY <1>0, <1>19 DEF Leave
<1>20. ASSUME Close(t) PROVE PlacesInv'
  BY <1>0, <1>20 DEF Close
<1> HIDE DEF At, Goto, current, settings, progress, locals, database, barriers, auxiliary,
             Places, Using, BeforeFence, BeforeStart, Iterating, Uncounted, CountedPlaces,
             AfterStop, AfterFence, LeadersOnly
<1> QED
  BY <1>1, <1>2, <1>3, <1>4, <1>5, <1>6, <1>7, <1>8, <1>9, <1>10, <1>11, <1>12, <1>13,
     <1>14, <1>15, <1>16, <1>17, <1>18, <1>19, <1>20 DEF Step

\* The same of every step of the program.
LEMMA PlacesStep == PlacesInv /\ [Next]_vars => PlacesInv'
<1> SUFFICES ASSUME PlacesInv, [Next]_vars PROVE PlacesInv'
  OBVIOUS
<1>1. CASE UNCHANGED vars
  BY <1>1 DEF vars, PlacesInv, TypeOK, LeftAt, current, settings, progress, locals,
              database, barriers, auxiliary
<1> QED
  BY <1>1, PlacesStartWorkload, PlacesThread DEF Next, Terminated

\* The counters stay natural numbers and every thread stays at a known place.
THEOREM TypeCorrect == Spec => []TypeOK
<1>1. PlacesInv => TypeOK
  BY DEF PlacesInv
<1> QED
  BY <1>1, PlacesInit, PlacesStep, PTL DEF Spec
-----------------------------------------------------------------------------
(***************************************************************************)
(* What the barriers say of the places of other threads.                   *)
(***************************************************************************)

\* The steps of a thread between two calls of a barrier, all of them.
Inner(t) == \/ Operate(t) \/ Tally(t) \/ Count(t) \/ LoadDone(t) \/ LoadPrinted(t)
            \/ PrintLine(t) \/ StorePrinted(t) \/ Judge(t) \/ Flush(t)

\* An iteration starts and ends in the loop or at the call after it.
LEMMA InnerPlaces ==
  ASSUME PlacesInv, NEW t \in Threads, Inner(t)
  PROVE  /\ pc[t] \in Iterating
         /\ pc' = [pc EXCEPT ![t] = pc'[t]]
         /\ pc'[t] \in Iterating \cup {"arrive_stop"}
         /\ UNCHANGED <<transactional, spurious, run, aborted, db, total, report, fenceArrived,
                        fencePassed, startArrived, startPassed>>
BY DEF Inner, PlacesInv, TypeOK, Operate, Tally, Count, LoadDone, LoadPrinted, PrintLine,
       StorePrinted, Judge, Flush, NextIteration, At, Goto, current, settings, progress,
       locals, database, barriers, auxiliary, Iterating, Uncounted, CountedPlaces

\* The place of every thread says how often it has called each barrier.
LEMMA RoundsInit == Init => RoundsInv
BY DEF Init, Fence!Init, Start!Init, RoundsInv, RoundsAt, BeforeLoop, BeforeFence,
       BeforeStart, AfterLoop, AfterStop, AfterFence

\* Every arrival and every departure of a thread is one round of its barrier.
LEMMA RoundsStep == PlacesInv /\ RoundsInv /\ [Next]_vars => RoundsInv'
<1> SUFFICES ASSUME PlacesInv, RoundsInv, [Next]_vars PROVE RoundsInv'
  OBVIOUS
<1> USE DEF RoundsInv, RoundsAt, BeforeLoop, BeforeFence, BeforeStart, AfterLoop,
            AfterStop, AfterFence
<1>0. /\ run \in Nat /\ pc \in [Threads -> Places]
      /\ fenceArrived \in [Threads -> Nat] /\ fencePassed \in [Threads -> Nat]
      /\ startArrived \in [Threads -> Nat] /\ startPassed \in [Threads -> Nat]
  BY DEF PlacesInv, TypeOK
<1>1. CASE StartWorkload
  BY <1>0, <1>1 DEF StartWorkload, barriers
<1>2. ASSUME NEW t \in Threads, ArriveFence(t) PROVE RoundsInv'
  BY <1>0, <1>2 DEF ArriveFence, Fence!Arrive, At, Goto, current, settings
<1>3. ASSUME NEW t \in Threads, PassFence(t) PROVE RoundsInv'
  BY <1>0, <1>3 DEF PassFence, Fence!Pass, At, Goto, current, settings
<1>4. ASSUME NEW t \in Threads, ArriveStart(t) PROVE RoundsInv'
  BY <1>0, <1>4 DEF ArriveStart, Start!Arrive, At, Goto, current, settings
<1>5. ASSUME NEW t \in Threads, PassStart(t) PROVE RoundsInv'
  BY <1>0, <1>5 DEF PassStart, Start!Pass, At, Goto, current, settings
<1>6. ASSUME NEW t \in Threads, Open(t) \/ Begin(t) \/ AddTotal(t) PROVE RoundsInv'
  BY <1>0, <1>6 DEF Open, Begin, AddTotal, Throw, At, Goto, current, settings, barriers
<1>7. ASSUME NEW t \in Threads, Inner(t) PROVE RoundsInv'
  BY <1>0, <1>7, InnerPlaces DEF Iterating, Uncounted, CountedPlaces
<1>8. ASSUME NEW t \in Threads, Conclude(t) \/ Clear(t) \/ Leave(t) \/ Close(t)
      PROVE  RoundsInv'
  BY <1>0, <1>8 DEF Conclude, Clear, Leave, Close, At, Goto, current, settings, barriers
<1>9. CASE UNCHANGED vars
  BY <1>9 DEF vars, current, settings, barriers
<1> QED
  BY <1>1, <1>2, <1>3, <1>4, <1>5, <1>6, <1>7, <1>8, <1>9 DEF Next, Step, Inner, Terminated

\* Nobody has left a barrier more often than anyone has come to it.
LEMMA IsolationInit == Init => IsolationInv
BY DEF Init, Fence!Init, Start!Init, IsolationInv

\* A thread leaves a barrier in a round that everybody has come to.
LEMMA IsolationStep == PlacesInv /\ IsolationInv /\ [Next]_vars => IsolationInv'
<1> SUFFICES ASSUME PlacesInv, IsolationInv, [Next]_vars PROVE IsolationInv'
  OBVIOUS
<1>0. /\ fenceArrived \in [Threads -> Nat] /\ fencePassed \in [Threads -> Nat]
      /\ startArrived \in [Threads -> Nat] /\ startPassed \in [Threads -> Nat]
  BY DEF PlacesInv, TypeOK
<1>1. ASSUME NEW t \in Threads, ArriveFence(t) \/ ArriveStart(t) PROVE IsolationInv'
  BY <1>0, <1>1 DEF IsolationInv, ArriveFence, ArriveStart, Fence!Arrive, Start!Arrive
<1>2. ASSUME NEW t \in Threads, PassFence(t) PROVE IsolationInv'
  BY <1>0, <1>2 DEF IsolationInv, PassFence, Fence!Pass, Fence!Met
<1>3. ASSUME NEW t \in Threads, PassStart(t) PROVE IsolationInv'
  BY <1>0, <1>3 DEF IsolationInv, PassStart, Start!Pass, Start!Met
<1>4. CASE UNCHANGED barriers
  BY <1>4 DEF barriers, IsolationInv
<1>5. ASSUME NEW t \in Threads, Inner(t) PROVE UNCHANGED barriers
  BY <1>5, InnerPlaces DEF barriers
<1>6. ASSUME NEW t \in Threads,
             \/ Open(t) \/ Begin(t) \/ AddTotal(t)
             \/ Conclude(t) \/ Clear(t) \/ Leave(t) \/ Close(t)
      PROVE  UNCHANGED barriers
  BY <1>6 DEF Open, Begin, AddTotal, Conclude, Clear, Leave, Close
<1>7. CASE StartWorkload
  BY <1>4, <1>7 DEF StartWorkload
<1> QED
  BY <1>1, <1>2, <1>3, <1>4, <1>5, <1>6, <1>7 DEF Next, Step, Inner, Terminated, vars

\* Past the fence the first time, everybody has called it; past it the second
\* time, everybody is at its end.  The same of the start/stop barrier.
LEMMA Lockstep ==
  ASSUME PlacesInv, RoundsInv, IsolationInv, run > 0, NEW t \in Threads, NEW u \in Threads
  PROVE  /\ pc[t] \notin BeforeFence \cup {"pass_open"} => pc[u] \notin BeforeFence
         /\ pc[t] \in AfterFence => pc[u] \in {"pass_close"} \cup AfterFence
         /\ pc[t] \notin BeforeLoop \cup {"pass_start"} => pc[u] \notin BeforeLoop
         /\ pc[t] \in AfterLoop => pc[u] \in {"pass_stop"} \cup AfterLoop
<1>1. run \in Nat /\ fencePassed[t] <= fenceArrived[u] /\ startPassed[t] <= startArrived[u]
  BY DEF PlacesInv, TypeOK, IsolationInv
<1> QED
  BY <1>1 DEF RoundsInv, RoundsAt, BeforeLoop, BeforeFence, BeforeStart, AfterLoop, AfterStop,
              AfterFence

\* The leader has the database open from its first call of the fence on.
LEMMA OpenInit == Init => OpenInv
BY DEF Init, OpenInv

\* Nobody but the leader opens or closes the database.
LEMMA OpenStep == PlacesInv /\ OpenInv /\ [Next]_vars => OpenInv'
<1> SUFFICES ASSUME PlacesInv, OpenInv, [Next]_vars PROVE OpenInv'
  OBVIOUS
<1>0. /\ Leader \in Threads /\ pc \in [Threads -> Places] /\ run \in Nat
      /\ run = 0 => \A t \in Threads : pc[t] = "idle"
      /\ \A t \in Threads \ {Leader} : pc[t] # "open" /\ pc[t] # "close"
  BY BenchAssumption DEF PlacesInv, TypeOK, LeadersOnly
<1> USE DEF OpenInv
<1>1. CASE StartWorkload
  BY <1>0, <1>1 DEF StartWorkload
<1>2. ASSUME NEW t \in Threads, Open(t) PROVE OpenInv'
  BY <1>0, <1>2 DEF Open, Throw, At, Goto, current
<1>3. ASSUME NEW t \in Threads, ArriveFence(t) \/ PassFence(t) PROVE OpenInv'
  BY <1>0, <1>3 DEF ArriveFence, PassFence, At, Goto, current, database
<1>4. ASSUME NEW t \in Threads, Begin(t) \/ AddTotal(t) PROVE OpenInv'
  BY <1>0, <1>4 DEF Begin, AddTotal, Throw, At, Goto, current, database
<1>5. ASSUME NEW t \in Threads, ArriveStart(t) \/ PassStart(t) PROVE OpenInv'
  BY <1>0, <1>5 DEF ArriveStart, PassStart, At, Goto, current, database
<1>6. ASSUME NEW t \in Threads, Inner(t) PROVE OpenInv'
  BY <1>0, <1>6, InnerPlaces DEF Iterating, Uncounted, CountedPlaces
<1>7. ASSUME NEW t \in Threads, Conclude(t) \/ Clear(t) \/ Leave(t) PROVE OpenInv'
  BY <1>0, <1>7 DEF Conclude, Clear, Leave, At, Goto, current, database
<1>8. ASSUME NEW t \in Threads, Close(t) PROVE OpenInv'
  BY <1>0, <1>8 DEF Close, At, Goto
<1>9. CASE UNCHANGED vars
  BY <1>9 DEF vars, current, database
<1> QED
  BY <1>1, <1>2, <1>3, <1>4, <1>5, <1>6, <1>7, <1>8, <1>9 DEF Next, Step, Inner, Terminated

\* Where the threads are, as far as the barriers and the leader settle it.
Safe == PlacesInv /\ BarriersInv

\* The first layer, of the places and the barriers, holds initially,
LEMMA SafeInit == Init => Safe
BY PlacesInit, RoundsInit, IsolationInit, OpenInit DEF Safe, BarriersInv

\* and every step keeps it.
LEMMA SafeStep == Safe /\ [Next]_vars => Safe'
BY PlacesStep, RoundsStep, IsolationStep, OpenStep DEF Safe, BarriersInv

\* A thread between the two calls of the fence has the database open.
LEMMA SafeOpen == Safe => OpenWhileUsed
<1> SUFFICES ASSUME Safe, NEW t \in Threads, pc[t] \in Using PROVE db = "open"
  BY DEF OpenWhileUsed
<1>1. PlacesInv /\ RoundsInv /\ IsolationInv /\ OpenInv /\ Leader \in Threads
  BY BenchAssumption DEF Safe, BarriersInv
<1>2. run > 0
  BY <1>1 DEF PlacesInv, TypeOK, Using
<1>3. pc[t] \notin BeforeFence \cup {"pass_open", "pass_close"} \cup AfterFence
  BY DEF Using, BeforeFence, AfterFence
<1>4. pc[Leader] \notin BeforeFence \cup AfterFence
  BY <1>1, <1>2, <1>3, Lockstep
<1> QED
  BY <1>1, <1>2, <1>4 DEF OpenInv, BeforeFence, AfterFence

\* No thread touches a database that is not open: what the fence is for.
THEOREM OpenWhileUsedAlways == Spec => []OpenWhileUsed
BY SafeInit, SafeStep, SafeOpen, PTL DEF Spec
-----------------------------------------------------------------------------
(***************************************************************************)
(* What the shared counters count.                                         *)
(***************************************************************************)

\* Threads announce, perform and count natural numbers of operations, at most
\* as many as they have.
CountsOK ==
  run > 0 =>
    /\ Operations[run] \in [Threads -> Nat]
    /\ Announced \in [Threads -> Nat] /\ Counted \in [Threads -> Nat]
    /\ Tallied \in [Threads -> Nat]
    /\ IsFiniteSet(GoodUntallied) /\ Cardinality(GoodUntallied) \in Nat
    /\ \A t \in Threads : /\ Operations[run][t] >= 1
                          /\ Announced[t] <= Operations[run][t]
                          /\ Counted[t] <= Operations[run][t]
                          /\ Tallied[t] <= Operations[run][t]
                          /\ pc[t] \in Uncounted => Counted[t] < Operations[run][t]

\* The places of the threads and what they have left make it so.
LEMMA CountsType == PlacesInv => CountsOK
<1> SUFFICES ASSUME PlacesInv, run > 0 PROVE CountsOK
  BY DEF CountsOK
<1>1. run \in 1..Workloads /\ pc \in [Threads -> Places] /\ left \in [Threads -> Nat]
  BY DEF PlacesInv, TypeOK
<1>2. Operations[run] \in [Threads -> Nat] /\ \A t \in Threads : Operations[run][t] >= 1
  <2>1. Operations[run] \in [Threads -> Nat \ {0}]
    BY <1>1, BenchAssumption, Zenon
  <2> QED
    BY <2>1
<1>3. IsFiniteSet(GoodUntallied) /\ Cardinality(GoodUntallied) \in Nat
  <2>1. GoodUntallied \in SUBSET Threads
    BY DEF GoodUntallied
  <2> QED
    BY <2>1, BenchAssumption, FS_Subset, FS_CardinalityType
<1>4. ASSUME NEW t \in Threads
      PROVE  /\ left[t] <= Operations[run][t]
             /\ pc[t] \in Iterating => left[t] >= 1
  BY <1>1, <1>2 DEF PlacesInv, LeftAt, BeforeFence, BeforeStart, Iterating, Uncounted,
                    CountedPlaces, AfterStop, AfterFence, Places, Using
<1> QED
  BY <1>1, <1>2, <1>3, <1>4
     DEF CountsOK, Announced, Counted, Tallied, Iterating, Uncounted, CountedPlaces

\* And so in the next state.
LEMMA NextCountsType == PlacesInv' => CountsOK'
BY CountsType, PTL

\* The counters are not cleared while a thread is in the loop or before it.
LEMMA LoopNotCleared ==
  ASSUME Safe, NEW t \in Threads,
         run > 0, pc[t] \in BeforeLoop \cup {"pass_start", "arrive_stop"} \cup Iterating
  PROVE  ~Cleared
<1>1. PlacesInv /\ RoundsInv /\ IsolationInv /\ Leader \in Threads
  BY BenchAssumption DEF Safe, BarriersInv
<1>2. pc[Leader] \in AfterLoop => pc[t] \in {"pass_stop"} \cup AfterLoop
  BY <1>1, Lockstep
<1> QED
  BY <1>2 DEF Cleared, AfterLoop, AfterStop, AfterFence, BeforeLoop, BeforeFence, BeforeStart,
              Iterating, Uncounted, CountedPlaces

\* What the proofs about counting need to know of the places.
LEMMA Basics ==
  ASSUME PlacesInv
  PROVE  /\ Leader \in Threads
         /\ pc \in [Threads -> Places] /\ left \in [Threads -> Nat]
         /\ good \in [Threads -> BOOLEAN] /\ run \in Nat
         /\ \A t \in Threads : pc[t] # "idle" => run > 0
         /\ \A t \in Threads \ {Leader} : pc[t] \notin LeadersOnly
         /\ run > 0 => /\ Operations[run] \in [Threads -> Nat]
                       /\ \A t \in Threads :
                            /\ Operations[run][t] \in Nat /\ left[t] \in Nat
                            /\ pc[t] \in Iterating => left[t] \in 1..Operations[run][t]
<1>1. Leader \in Threads
  BY BenchAssumption
<1>2. /\ pc \in [Threads -> Places] /\ left \in [Threads -> Nat]
      /\ good \in [Threads -> BOOLEAN] /\ run \in Nat
  BY DEF PlacesInv, TypeOK
<1>3. /\ \A t \in Threads : pc[t] # "idle" => run > 0
      /\ \A t \in Threads \ {Leader} : pc[t] \notin LeadersOnly
  BY <1>2 DEF PlacesInv
<1>4. ASSUME run > 0 PROVE Operations[run] \in [Threads -> Nat]
  BY <1>4, CountsType DEF CountsOK
<1>5. ASSUME run > 0, NEW t \in Threads
      PROVE  /\ Operations[run][t] \in Nat /\ left[t] \in Nat
             /\ pc[t] \in Iterating => left[t] \in 1..Operations[run][t]
  BY <1>2, <1>4, <1>5 DEF PlacesInv, LeftAt
<1> QED
  BY <1>1, <1>2, <1>3, <1>4, <1>5

\* The steps that count nothing: all but AddTotal, Operate, Tally, Count and Clear.
Quiet(t) ==
  \/ Open(t) \/ ArriveFence(t) \/ PassFence(t) \/ Begin(t) \/ ArriveStart(t) \/ PassStart(t)
  \/ LoadDone(t) \/ LoadPrinted(t) \/ PrintLine(t) \/ StorePrinted(t) \/ Judge(t) \/ Flush(t)
  \/ Conclude(t) \/ Leave(t) \/ Close(t)

\* They change neither the counters nor what the counters count.
LEMMA QuietKeeps ==
  ASSUME PlacesInv, NEW t \in Threads, Quiet(t)
  PROVE  /\ UNCHANGED <<Announced, Counted, Tallied, GoodUntallied, Cleared>>
         /\ UNCHANGED <<run, total, touched, failed, done, goodOnes, transactional, spurious>>
<1> USE DEF Announced, Counted, Tallied, GoodUntallied, Cleared, BeforeFence, AfterFence,
            CountedPlaces, At, Goto, current, settings, progress, auxiliary
<1>1. CASE Open(t) \/ Begin(t)
  BY <1>1, Basics DEF Open, Begin, Throw, locals
<1>2. CASE ArriveFence(t) \/ PassFence(t)
  BY <1>2, Basics DEF ArriveFence, PassFence, locals
<1>3. CASE ArriveStart(t) \/ PassStart(t)
  BY <1>3, Basics DEF ArriveStart, PassStart, locals
<1>4. CASE LoadDone(t) \/ LoadPrinted(t) \/ PrintLine(t) \/ StorePrinted(t)
  BY <1>4, Basics DEF LoadDone, LoadPrinted, PrintLine, StorePrinted, locals
<1>5. CASE Judge(t) \/ Flush(t)
  <2>1. /\ pc[t] \in {"judge", "flush"} /\ run > 0 /\ left[t] \in Nat
    BY <1>5, Basics DEF Judge, Flush, Iterating
  <2>0. run' = run /\ good' = good
    BY <1>5 DEF Judge, Flush
  <2>2. \/ left' = left /\ pc' = [pc EXCEPT ![t] = "flush"]
        \/ /\ left' = [left EXCEPT ![t] = @ - 1]
           /\ pc' = [pc EXCEPT ![t] = pc'[t]]
           /\ pc'[t] \in {"operate", "arrive_stop"}
    BY <1>5, Basics DEF Judge, Flush, NextIteration
  <2>3. Announced' = Announced
    BY <2>0, <2>1, <2>2, Basics
  <2>4. Counted' = Counted
    BY <2>0, <2>1, <2>2, Basics
  <2>5. Tallied' = Tallied
    BY <2>0, <2>1, <2>2, Basics
  <2>6. GoodUntallied' = GoodUntallied /\ Cleared' = Cleared
    BY <2>0, <2>1, <2>2, Basics
  <2>7. UNCHANGED <<run, total, touched, failed, done, goodOnes, transactional, spurious>>
    BY <1>5 DEF Judge, Flush
  <2> QED
    BY <2>3, <2>4, <2>5, <2>6, <2>7
<1>6. CASE Conclude(t) \/ Leave(t) \/ Close(t)
  BY <1>6, Basics DEF Conclude, Leave, Close, locals, LeadersOnly
<1> QED
  BY <1>1, <1>2, <1>3, <1>4, <1>5, <1>6, Quiet(t) DEF Quiet

\* An announcement adds the operations of its thread.
LEMMA AddTotalCounts ==
  ASSUME PlacesInv, NEW t \in Threads, AddTotal(t)
  PROVE  /\ \A u \in Threads :
              Announced'[u] = IF u = t THEN Announced[t] + Operations[run][t]
                              ELSE Announced[u]
         /\ UNCHANGED <<Counted, Tallied, GoodUntallied, Cleared>>
<1>1. /\ pc[t] = "add_total" /\ pc' = [pc EXCEPT ![t] = "arrive_start"]
      /\ run' = run /\ left' = left /\ good' = good
  BY DEF AddTotal, At, Goto, current, locals
<1> USE DEF Announced, Counted, Tallied, GoodUntallied, Cleared, BeforeFence, AfterFence,
            CountedPlaces
<1>0. run > 0
  BY <1>1, Basics
<1>2. \A u \in Threads :
        Announced'[u] = IF u = t THEN Announced[t] + Operations[run][t]
                        ELSE Announced[u]
  BY <1>0, <1>1, Basics
<1>3. Counted' = Counted
  BY <1>1, Basics
<1>4. Tallied' = Tallied
  BY <1>1, Basics
<1>5. GoodUntallied' = GoodUntallied /\ Cleared' = Cleared
  BY <1>1, Basics
<1> QED
  BY <1>2, <1>3, <1>4, <1>5

\* A good operation waits to be tallied.
LEMMA OperateCounts ==
  ASSUME PlacesInv, NEW t \in Threads, Operate(t)
  PROVE  /\ UNCHANGED <<Announced, Counted, Tallied, Cleared>>
         /\ t \notin GoodUntallied
         /\ GoodUntallied' = IF good'[t] THEN GoodUntallied \cup {t} ELSE GoodUntallied
         /\ goodOnes' = IF good'[t] THEN goodOnes + 1 ELSE goodOnes
<1> QED
  BY Basics DEF Operate, At, Goto, current, progress, Announced, Counted, Tallied, GoodUntallied,
              Cleared, BeforeFence, AfterFence, CountedPlaces

\* Its result is tallied once.
LEMMA TallyCounts ==
  ASSUME PlacesInv, NEW t \in Threads, Tally(t)
  PROVE  /\ UNCHANGED <<Announced, Counted, Cleared>>
         /\ \A u \in Threads : Tallied'[u] = IF u = t THEN Tallied[t] + 1 ELSE Tallied[u]
         /\ good[t] <=> t \in GoodUntallied
         /\ GoodUntallied' = GoodUntallied \ {t}
<1>1. /\ pc[t] = "tally" /\ pc' = [pc EXCEPT ![t] = "count"]
      /\ run' = run /\ left' = left /\ good' = good
  BY DEF Tally, At, Goto, current, locals
<1> USE DEF Announced, Counted, Tallied, GoodUntallied, Cleared, BeforeFence, AfterFence,
            CountedPlaces
<1>0. run > 0
  BY <1>1, Basics
<1>2. \A u \in Threads : Tallied'[u] = IF u = t THEN Tallied[t] + 1 ELSE Tallied[u]
  BY <1>0, <1>1, Basics
<1>3. Counted' = Counted
  BY <1>1, Basics
<1>4. Announced' = Announced
  BY <1>1, Basics
<1>5. GoodUntallied' = GoodUntallied \ {t} /\ Cleared' = Cleared
  BY <1>1, Basics
<1>6. good[t] <=> t \in GoodUntallied
  BY <1>1, Basics
<1> QED
  BY <1>2, <1>3, <1>4, <1>5, <1>6

\* And it is counted once.
LEMMA CountCounts ==
  ASSUME PlacesInv, NEW t \in Threads, Count(t)
  PROVE  /\ UNCHANGED <<Announced, Tallied, GoodUntallied, Cleared>>
         /\ \A u \in Threads : Counted'[u] = IF u = t THEN Counted[t] + 1 ELSE Counted[u]
<1>1. /\ pc[t] = "count" /\ pc' = [pc EXCEPT ![t] = "load_done"]
      /\ run' = run /\ left' = left /\ good' = good
  BY DEF Count, At, Goto, current, locals
<1> USE DEF Announced, Counted, Tallied, GoodUntallied, Cleared, BeforeFence, AfterFence,
            CountedPlaces
<1>0. run > 0
  BY <1>1, Basics
<1>2. \A u \in Threads : Counted'[u] = IF u = t THEN Counted[t] + 1 ELSE Counted[u]
  BY <1>0, <1>1, Basics
<1>3. Tallied' = Tallied
  BY <1>1, Basics
<1>4. Announced' = Announced
  BY <1>1, Basics
<1>5. GoodUntallied' = GoodUntallied /\ Cleared' = Cleared
  BY <1>1, Basics
<1> QED
  BY <1>2, <1>3, <1>4, <1>5

\* Before the first workload nothing is counted, as after every clearing.
LEMMA ProgressInit == Init => ProgressInv
BY BenchAssumption DEF Init, ProgressInv, Cleared, AfterFence

\* At the start of a workload nothing is announced, performed or counted.
LEMMA ProgressStart ==
  ASSUME Safe, Safe', ProgressInv, StartWorkload PROVE ProgressInv'
<1>0. PlacesInv /\ PlacesInv' /\ Leader \in Threads /\ run \in Nat
  BY Basics DEF Safe
<1>1. /\ PlacesInv /\ PlacesInv' /\ Leader \in Threads
      /\ run' > 0 /\ run' = run + 1
      /\ \A t \in Threads : pc[t] = "idle" /\ pc'[t] \in {"open", "arrive_open"}
      /\ pc'[Leader] = "open"
      /\ left' = [t \in Threads |-> Operations[run + 1][t]]
      /\ goodOnes' = 0 /\ UNCHANGED <<total, touched, failed, done>>
  BY <1>0 DEF StartWorkload, progress
<1>2. total = 0 /\ touched = 0 /\ failed = 0 /\ done = 0
  BY <1>1 DEF ProgressInv, Cleared, AfterFence
<1>3. /\ Announced' \in [Threads -> Nat] /\ Counted' \in [Threads -> Nat]
      /\ Tallied' \in [Threads -> Nat] /\ Operations[run'] \in [Threads -> Nat]
  BY <1>1, NextCountsType DEF CountsOK
<1>4. \A t \in Threads : Announced'[t] = 0 /\ Counted'[t] = 0 /\ Tallied'[t] = 0
  BY <1>1, <1>3 DEF Announced, Counted, Tallied, BeforeFence, CountedPlaces
<1>5. /\ Cardinality(Numbered(Announced')) = 0 /\ Cardinality(Numbered(Counted')) = 0
      /\ Cardinality(Numbered(Tallied')) = 0
  BY <1>3, <1>4, NumberedNone
<1>6. Cardinality(GoodUntallied') = 0
  <2>1. GoodUntallied' = {}
    BY <1>1 DEF GoodUntallied
  <2> QED
    BY <2>1, FS_EmptySet
<1>7. ~Cleared'
  BY <1>1 DEF Cleared, AfterFence
<1> QED
  BY <1>1, <1>2, <1>5, <1>6, <1>7 DEF ProgressInv

\* Every step of a thread keeps the counters and what they count in agreement.
LEMMA ProgressThread ==
  ASSUME Safe, Safe', ProgressInv, NEW t \in Threads, Step(t) PROVE ProgressInv'
<1>0. /\ PlacesInv /\ PlacesInv' /\ TypeOK /\ CountsOK
      /\ total \in Nat /\ touched \in Nat /\ failed \in Nat /\ done \in Nat
  BY CountsType DEF Safe, PlacesInv, TypeOK
<1>1. CASE Quiet(t)
  BY <1>0, <1>1, QuietKeeps DEF ProgressInv
<1>2. CASE AddTotal(t)
  <2>1. /\ pc[t] = "add_total" /\ run > 0 /\ run' = run
        /\ total' = total + Operations[run][t]
        /\ UNCHANGED <<touched, failed, done, goodOnes>>
    BY <1>0, <1>2, Basics DEF AddTotal, At, current, auxiliary
  <2>2. ~Cleared
    BY <2>1, LoopNotCleared DEF BeforeLoop, BeforeStart
  <2>3. /\ Announced \in [Threads -> Nat] /\ Announced' \in [Threads -> Nat]
        /\ Operations[run][t] \in Nat
    BY <1>0, <2>1, NextCountsType, Basics DEF CountsOK
  <2>4. \A u \in Threads :
          Announced'[u] = IF u = t THEN Announced[t] + Operations[run][t]
                          ELSE Announced[u]
    BY <1>0, <1>2, AddTotalCounts
  <2>5. Cardinality(Numbered(Announced')) = Cardinality(Numbered(Announced)) + Operations[run][t]
    <3>1. PICK k \in Nat : k = Operations[run][t]
      BY <2>3
    <3>2. \A u \in Threads : Announced'[u] = IF u = t THEN Announced[t] + k ELSE Announced[u]
      BY <2>4, <3>1
    <3>3. Cardinality(Numbered(Announced')) = Cardinality(Numbered(Announced)) + k
      BY <2>3, <3>2, NumberedMore
    <3> QED
      BY <3>1, <3>3
  <2>6. UNCHANGED <<Counted, Tallied, GoodUntallied, Cleared>>
    BY <1>0, <1>2, AddTotalCounts
  <2> QED
    BY <2>1, <2>2, <2>5, <2>6 DEF ProgressInv
<1>3. CASE Operate(t)
  <2>1. pc[t] = "operate" /\ run > 0 /\ UNCHANGED <<total, touched, failed, done>>
    BY <1>0, <1>3, Basics DEF Operate, At, progress
  <2>2. ~Cleared
    BY <2>1, LoopNotCleared DEF Iterating, Uncounted
  <2>3. /\ UNCHANGED <<Announced, Counted, Tallied, Cleared>>
        /\ t \notin GoodUntallied
        /\ GoodUntallied' = IF good'[t] THEN GoodUntallied \cup {t} ELSE GoodUntallied
        /\ goodOnes' = IF good'[t] THEN goodOnes + 1 ELSE goodOnes
    BY <1>0, <1>3, OperateCounts
  <2>4. IsFiniteSet(GoodUntallied) /\ Cardinality(GoodUntallied) \in Nat
    BY <1>0, <2>1 DEF CountsOK
  <2>5. Cardinality(GoodUntallied \cup {t}) = Cardinality(GoodUntallied) + 1
    BY <2>3, <2>4, FS_AddElement
  <2>6. touched' + Cardinality(GoodUntallied') = goodOnes'
    <3>1. touched + Cardinality(GoodUntallied) = goodOnes
      BY <2>2 DEF ProgressInv
    <3>2. CASE good'[t]
      <4>1. GoodUntallied' = GoodUntallied \cup {t}
        BY <2>3, <3>2
      <4>2. Cardinality(GoodUntallied') = Cardinality(GoodUntallied \cup {t})
        BY <4>1, Zenon
      <4> QED
        BY <1>0, <2>1, <2>3, <2>4, <2>5, <3>1, <3>2, <4>2
    <3>3. CASE ~good'[t]
      BY <2>1, <2>3, <3>1, <3>3
    <3> QED
      BY <3>2, <3>3
  <2> QED
    BY <2>1, <2>2, <2>3, <2>6 DEF ProgressInv
<1>4. CASE Tally(t)
  <2>1. /\ pc[t] = "tally" /\ run > 0 /\ UNCHANGED <<total, done, goodOnes>>
        /\ touched' = IF good[t] THEN touched + 1 ELSE touched
        /\ failed'  = IF good[t] THEN failed ELSE failed + 1
    BY <1>0, <1>4, Basics DEF Tally, At, auxiliary
  <2>2. ~Cleared
    BY <2>1, LoopNotCleared DEF Iterating, Uncounted
  <2>3. /\ UNCHANGED <<Announced, Counted, Cleared>>
        /\ \A u \in Threads : Tallied'[u] = IF u = t THEN Tallied[t] + 1 ELSE Tallied[u]
        /\ good[t] <=> t \in GoodUntallied
        /\ GoodUntallied' = GoodUntallied \ {t}
    BY <1>0, <1>4, TallyCounts
  <2>4. /\ IsFiniteSet(GoodUntallied) /\ Cardinality(GoodUntallied) \in Nat
        /\ Tallied \in [Threads -> Nat]
    BY <1>0, <2>1 DEF CountsOK
  <2>5. Tallied' \in [Threads -> Nat]
    BY <1>0, <1>4, <2>1, NextCountsType DEF Tally, current, CountsOK
  <2>6. Cardinality(Numbered(Tallied')) = Cardinality(Numbered(Tallied)) + 1
    <3>1. \A u \in Threads : Tallied'[u] = IF u = t THEN Tallied[t] + 1 ELSE Tallied[u]
      BY <2>3
    <3> QED
      BY <2>4, <2>5, <3>1, NumberedMore
  <2>7. Cardinality(GoodUntallied \ {t})
          = IF t \in GoodUntallied THEN Cardinality(GoodUntallied) - 1
                                   ELSE Cardinality(GoodUntallied)
    BY <2>4, FS_RemoveElement
  <2>8. Cardinality(GoodUntallied') = Cardinality(GoodUntallied \ {t})
    BY <2>3, Zenon
  <2>9. /\ touched + Cardinality(GoodUntallied) = goodOnes
        /\ touched + failed = Cardinality(Numbered(Tallied))
        /\ total = Cardinality(Numbered(Announced))
        /\ done = Cardinality(Numbered(Counted))
    BY <2>2 DEF ProgressInv
  <2>10. touched' + Cardinality(GoodUntallied') = goodOnes'
    BY <1>0, <2>1, <2>3, <2>4, <2>7, <2>8, <2>9
  <2>11. touched' + failed' = Cardinality(Numbered(Tallied'))
    BY <1>0, <2>1, <2>6, <2>9
  <2> QED
    BY <2>1, <2>2, <2>3, <2>9, <2>10, <2>11 DEF ProgressInv
<1>5. CASE Count(t)
  <2>1. /\ pc[t] = "count" /\ run > 0 /\ run' = run /\ done' = done + 1
        /\ UNCHANGED <<total, touched, failed, goodOnes>>
    BY <1>0, <1>5, Basics DEF Count, At, current, auxiliary
  <2>2. ~Cleared
    BY <2>1, LoopNotCleared DEF Iterating, Uncounted
  <2>3. /\ UNCHANGED <<Announced, Tallied, GoodUntallied, Cleared>>
        /\ \A u \in Threads : Counted'[u] = IF u = t THEN Counted[t] + 1 ELSE Counted[u]
    BY <1>0, <1>5, CountCounts
  <2>4. Counted \in [Threads -> Nat] /\ Counted' \in [Threads -> Nat]
    BY <1>0, <2>1, NextCountsType DEF CountsOK
  <2>5. Cardinality(Numbered(Counted')) = Cardinality(Numbered(Counted)) + 1
    BY <2>3, <2>4, NumberedMore
  <2> QED
    BY <2>1, <2>2, <2>3, <2>5 DEF ProgressInv
<1>6. CASE Clear(t)
  <2>1. pc[t] = "clear" /\ t = Leader /\ pc'[t] = "leave"
    BY <1>0, <1>6, Basics DEF Clear, At, Goto, LeadersOnly
  <2>2. total' = 0 /\ touched' = 0 /\ failed' = 0 /\ done' = 0
    BY <1>6 DEF Clear
  <2> QED
    BY <2>1, <2>2 DEF ProgressInv, Cleared
<1> QED
  BY <1>1, <1>2, <1>3, <1>4, <1>5, <1>6 DEF Step, Quiet

\* The shared counters count the operations of the current workload.
LEMMA ProgressStep == Safe /\ Safe' /\ ProgressInv /\ [Next]_vars => ProgressInv'
<1> SUFFICES ASSUME Safe, Safe', ProgressInv, [Next]_vars PROVE ProgressInv'
  OBVIOUS
<1>1. CASE UNCHANGED vars
  BY <1>1 DEF vars, current, progress, locals, auxiliary, ProgressInv, Announced, Counted,
              Tallied, GoodUntallied, Cleared
<1> QED
  BY <1>1, ProgressStart, ProgressThread DEF Next, Terminated

\* The places are known and the counters count.
Counting == Safe /\ ProgressInv

\* The second layer, of the counters, holds initially,
LEMMA CountingInit == Init => Counting
BY SafeInit, ProgressInit DEF Counting

\* and every step keeps it.
LEMMA CountingStep == Counting /\ [Next]_vars => Counting'
BY SafeStep, ProgressStep DEF Counting

\* Before the leader clears it, done is at most the number of all operations;
\* it is that number only when every thread has counted all of its own.
AllDone ==
  ~Cleared =>
    /\ run > 0 /\ done <= OperationsOfAll
    /\ done = OperationsOfAll =>
         \A t \in Threads : /\ pc[t] \notin BeforeLoop \cup {"pass_start"} \cup Uncounted
                            /\ pc[t] \in CountedPlaces => left[t] = 1

\* Every thread has counted its operations when done is their number.
LEMMA CountingAllDone == Counting => AllDone
<1> SUFFICES ASSUME Counting, ~Cleared PROVE AllDone
  BY DEF AllDone
<1>1. /\ PlacesInv /\ CountsOK /\ Leader \in Threads
      /\ done = Cardinality(Numbered(Counted))
  BY CountsType, Basics DEF Counting, Safe, ProgressInv
<1>2. run > 0
  BY <1>1, Basics DEF Cleared, AfterFence
<1>3. /\ done <= OperationsOfAll
      /\ done = OperationsOfAll => \A t \in Threads : Counted[t] = Operations[run][t]
  BY <1>1, <1>2, NumberedMonotone DEF CountsOK, OperationsOfAll
<1>4. ASSUME NEW t \in Threads, Counted[t] = Operations[run][t]
      PROVE  /\ pc[t] \notin BeforeLoop \cup {"pass_start"} \cup Uncounted
             /\ pc[t] \in CountedPlaces => left[t] = 1
  <2>1. /\ Operations[run][t] \in Nat /\ Operations[run][t] >= 1 /\ left[t] \in Nat
        /\ LeftAt(t)
    BY <1>1, <1>2, Basics DEF PlacesInv, CountsOK
  <2>2. Counted[t] = Operations[run][t] - left[t] + (IF pc[t] \in CountedPlaces THEN 1 ELSE 0)
    BY DEF Counted
  <2> QED
    BY <1>4, <2>1, <2>2
       DEF LeftAt, BeforeLoop, BeforeFence, BeforeStart, Iterating, Uncounted, CountedPlaces
<1> QED
  BY <1>2, <1>3, <1>4 DEF AllDone

\* And so in the next state.
LEMMA NextAllDone == Counting' => AllDone'
BY CountingAllDone, PTL

\* In the loop and at its end all operations have been announced.
LEMMA AllAnnounced ==
  ASSUME Counting, ~Cleared, NEW t \in Threads, pc[t] \notin BeforeLoop \cup {"pass_start"}
  PROVE  total = OperationsOfAll
<1>1. /\ PlacesInv /\ RoundsInv /\ IsolationInv /\ CountsOK /\ run > 0
      /\ total = Cardinality(Numbered(Announced))
  BY CountsType, CountingAllDone DEF Counting, Safe, BarriersInv, ProgressInv, AllDone
<1>2. \A u \in Threads : Announced[u] = Operations[run][u]
  BY <1>1, Lockstep DEF Announced, BeforeLoop, BeforeStart
<1>3. Announced = Operations[run]
  BY <1>1, <1>2 DEF CountsOK
<1> QED
  BY <1>1, <1>3, Zenon DEF OperationsOfAll

\* When the leader has passed the end of the loop, every operation has been
\* tallied and counted.
LEMMA AllTallied ==
  ASSUME Counting, pc[Leader] \in {"conclude", "clear"}
  PROVE  /\ ~Cleared /\ run > 0
         /\ \A t \in Threads : pc[t] \notin Iterating
         /\ done = OperationsOfAll /\ touched + failed = OperationsOfAll
         /\ touched = goodOnes
<1>1. /\ PlacesInv /\ RoundsInv /\ IsolationInv /\ Leader \in Threads
      /\ ~Cleared /\ run > 0 /\ CountsOK
  BY CountsType, Basics DEF Counting, Safe, BarriersInv, Cleared, AfterFence
<1>2. \A t \in Threads : pc[t] \in {"pass_stop"} \cup AfterLoop
  BY <1>1, Lockstep DEF AfterLoop, AfterStop
<1>3. \A t \in Threads : pc[t] \notin Iterating
  BY <1>2 DEF AfterLoop, AfterStop, AfterFence, Iterating, Uncounted, CountedPlaces
<1>4. \A t \in Threads : left[t] = 0 /\ Operations[run][t] \in Nat
  BY <1>1, <1>2, Basics DEF PlacesInv, LeftAt, AfterLoop
<1>5. \A t \in Threads : Counted[t] = Operations[run][t] /\ Tallied[t] = Operations[run][t]
  BY <1>1, <1>3, <1>4 DEF Counted, Tallied, Iterating, Uncounted
<1>6. Counted = Operations[run] /\ Tallied = Operations[run]
  BY <1>1, <1>5 DEF CountsOK
<1>7. Cardinality(GoodUntallied) = 0
  <2>1. GoodUntallied = {}
    BY <1>3 DEF GoodUntallied, Iterating, Uncounted
  <2> QED
    BY <2>1, FS_EmptySet
<1>8. /\ Cardinality(Numbered(Counted)) = OperationsOfAll
      /\ Cardinality(Numbered(Tallied)) = OperationsOfAll
  BY <1>6, Zenon DEF OperationsOfAll
<1>9. touched \in Nat /\ goodOnes \in Nat
  BY <1>1 DEF PlacesInv, TypeOK
<1> QED
  BY <1>1, <1>3, <1>7, <1>8, <1>9 DEF Counting, ProgressInv

\* A thread clears the counters alone: everybody else is out of the loop.
LEMMA ClearAlone ==
  ASSUME Counting, NEW t \in Threads, Clear(t)
  PROVE  /\ t = Leader /\ \A u \in Threads : pc[u] \notin Iterating
         /\ Cleared'
         /\ pc' = [pc EXCEPT ![t] = "leave"]
<1>1. pc[t] = "clear" /\ pc' = [pc EXCEPT ![t] = "leave"] /\ PlacesInv
  BY DEF Clear, At, Goto, Counting, Safe
<1>2. t = Leader
  BY <1>1, Basics DEF LeadersOnly
<1> QED
  BY <1>1, <1>2, AllTallied, Basics DEF Cleared
-----------------------------------------------------------------------------
(***************************************************************************)
(* The printed progress.                                                   *)
(***************************************************************************)

\* At first nothing is printed.
LEMMA PrintedInit == Init => PrintedInv
BY DEF Init, PrintedInv

\* A thread prints what it loaded from done, which only grows until the leader
\* clears it, when nobody is about to print.
LEMMA PrintedStep == Counting /\ PrintedInv /\ [Next]_vars => PrintedInv'
<1> SUFFICES ASSUME Counting, PrintedInv, [Next]_vars PROVE PrintedInv'
  OBVIOUS
<1>0. /\ PlacesInv /\ pc \in [Threads -> Places]
      /\ done \in Nat /\ lastPrinted \in Nat /\ seen \in [Threads -> Nat]
  BY DEF Counting, Safe, PlacesInv, TypeOK
<1> USE DEF PrintedInv
<1>1. CASE StartWorkload
  BY <1>0, <1>1 DEF StartWorkload, progress
<1>2. ASSUME NEW t \in Threads, Open(t) \/ ArriveFence(t) \/ PassFence(t) \/ Begin(t)
      PROVE  PrintedInv'
  BY <1>0, <1>2 DEF Open, ArriveFence, PassFence, Begin, Throw, At, Goto, progress, locals
<1>3. ASSUME NEW t \in Threads, AddTotal(t) \/ ArriveStart(t) \/ PassStart(t) PROVE PrintedInv'
  BY <1>0, <1>3 DEF AddTotal, ArriveStart, PassStart, At, Goto, progress, locals
<1>4. ASSUME NEW t \in Threads, Operate(t) \/ Tally(t) \/ Count(t) PROVE PrintedInv'
  BY <1>0, <1>4 DEF Operate, Tally, Count, At, Goto, progress, locals
<1>5. ASSUME NEW t \in Threads, LoadDone(t) \/ LoadPrinted(t) PROVE PrintedInv'
  BY <1>0, <1>5 DEF LoadDone, LoadPrinted, At, Goto, progress, locals
<1>6. ASSUME NEW t \in Threads, PrintLine(t) \/ StorePrinted(t) PROVE PrintedInv'
  BY <1>0, <1>6 DEF PrintLine, StorePrinted, At, Goto, progress, locals
<1>7. ASSUME NEW t \in Threads, Judge(t) \/ Flush(t) PROVE PrintedInv'
  BY <1>0, <1>7 DEF Judge, Flush, NextIteration, At, Goto, progress
<1>8. ASSUME NEW t \in Threads, Conclude(t) \/ Leave(t) \/ Close(t) PROVE PrintedInv'
  BY <1>0, <1>8 DEF Conclude, Leave, Close, At, Goto, progress, locals
<1>9. ASSUME NEW t \in Threads, Clear(t) PROVE PrintedInv'
  <2>1. \A u \in Threads : pc[u] # "store_printed" /\ pc'[u] # "store_printed"
    BY <1>0, <1>9, ClearAlone DEF Iterating, CountedPlaces
  <2> QED
    BY <1>9, <2>1 DEF Clear
<1>10. CASE UNCHANGED vars
  BY <1>10 DEF vars, progress, locals
<1> QED
  BY <1>1, <1>2, <1>3, <1>4, <1>5, <1>6, <1>7, <1>8, <1>9, <1>10 DEF Next, Step, Terminated

\* The printed progress is never ahead of the progress.
THEOREM PrintedBehindAlways == Spec => []PrintedBehind
<1>1. PrintedInv => PrintedBehind
  BY DEF PrintedInv, PrintedBehind
<1> QED
  BY <1>1, CountingInit, CountingStep, PrintedInit, PrintedStep, PTL DEF Spec
-----------------------------------------------------------------------------
(***************************************************************************)
(* The thread that flushes.                                                *)
(***************************************************************************)

\* At first no operation has a number.
LEMMA NumbersInit == Init => NumbersInv
BY DEF Init, NumbersInv, CountedPlaces

\* The increment of done gives every operation a number of its own.
LEMMA NumbersStep == Counting /\ NumbersInv /\ [Next]_vars => NumbersInv'
<1> SUFFICES ASSUME Counting, NumbersInv, [Next]_vars PROVE NumbersInv'
  OBVIOUS
<1>0. /\ PlacesInv /\ pc \in [Threads -> Places]
      /\ done \in Nat /\ mine \in [Threads -> Nat]
  BY DEF Counting, Safe, PlacesInv, TypeOK
<1> USE DEF NumbersInv, CountedPlaces
<1>1. CASE StartWorkload
  BY <1>0, <1>1 DEF StartWorkload
<1>2. ASSUME NEW t \in Threads, Open(t) \/ ArriveFence(t) \/ PassFence(t) \/ Begin(t)
      PROVE  NumbersInv'
  BY <1>0, <1>2 DEF Open, ArriveFence, PassFence, Begin, Throw, At, Goto, progress, locals
<1>3. ASSUME NEW t \in Threads, AddTotal(t) \/ ArriveStart(t) \/ PassStart(t) PROVE NumbersInv'
  BY <1>0, <1>3 DEF AddTotal, ArriveStart, PassStart, At, Goto, progress, locals
<1>4. ASSUME NEW t \in Threads, Operate(t) \/ Tally(t) PROVE NumbersInv'
  BY <1>0, <1>4 DEF Operate, Tally, At, Goto, progress, locals
<1>5. ASSUME NEW t \in Threads, Count(t) PROVE NumbersInv'
  BY <1>0, <1>5 DEF Count, At, Goto
<1>6. ASSUME NEW t \in Threads,
             LoadDone(t) \/ LoadPrinted(t) \/ PrintLine(t) \/ StorePrinted(t)
      PROVE  NumbersInv'
  BY <1>0, <1>6 DEF LoadDone, LoadPrinted, PrintLine, StorePrinted, At, Goto, progress, locals
<1>7. ASSUME NEW t \in Threads, Judge(t) \/ Flush(t) PROVE NumbersInv'
  BY <1>0, <1>7 DEF Judge, Flush, NextIteration, At, Goto, progress
<1>8. ASSUME NEW t \in Threads, Conclude(t) \/ Leave(t) \/ Close(t) PROVE NumbersInv'
  BY <1>0, <1>8 DEF Conclude, Leave, Close, At, Goto, progress, locals
<1>9. ASSUME NEW t \in Threads, Clear(t) PROVE NumbersInv'
  <2>1. \A u \in Threads : pc'[u] \notin CountedPlaces
    BY <1>0, <1>9, ClearAlone DEF Iterating
  <2> QED
    BY <2>1
<1>10. CASE UNCHANGED vars
  BY <1>10 DEF vars, progress, locals
<1> QED
  BY <1>1, <1>2, <1>3, <1>4, <1>5, <1>6, <1>7, <1>8, <1>9, <1>10 DEF Next, Step, Terminated

\* When a thread flushes, or its operation was the last one of all, all
\* operations have been counted and it has none left.
LEMMA LastIsDone ==
  ASSUME Counting, NumbersInv, NEW t \in Threads, IsLast(t)
  PROVE  /\ ~Cleared /\ done = OperationsOfAll /\ total = OperationsOfAll
         /\ left[t] = 1
         /\ \A u \in Threads : pc[u] \notin BeforeLoop \cup {"pass_start"} \cup Uncounted
<1>1. /\ PlacesInv /\ pc[t] \in CountedPlaces /\ mine[t] = total /\ mine[t] \in 1..done
      /\ done \in Nat /\ Safe
  BY DEF Counting, Safe, PlacesInv, TypeOK, IsLast, NumbersInv
<1>2. run > 0
  BY <1>1, Basics DEF CountedPlaces
<1>3. ~Cleared
  BY <1>1, <1>2, LoopNotCleared DEF Iterating
<1>4. total = OperationsOfAll
  BY <1>1, <1>3, AllAnnounced DEF CountedPlaces, BeforeLoop, BeforeFence, BeforeStart
<1>5. done = OperationsOfAll
  BY <1>1, <1>3, <1>4, CountingAllDone DEF AllDone
<1> QED
  BY <1>1, <1>3, <1>4, <1>5, CountingAllDone DEF AllDone

\* At first nobody has flushed.
LEMMA FlushInit == Init => FlushInv
<1> SUFFICES ASSUME Init PROVE FlushInv
  OBVIOUS
<1>1. \A t \in Threads : pc[t] = "idle"
  BY DEF Init
<1>2. flushes = 0 /\ Cleared
  BY <1>1, BenchAssumption DEF Init, Cleared, AfterFence
<1>3. \A t \in Threads : pc[t] \notin BeforeLoop \cup {"pass_start"} \cup Iterating
  BY <1>1 DEF BeforeLoop, BeforeFence, BeforeStart, Iterating, Uncounted, CountedPlaces
<1> QED
  BY <1>1, <1>2, <1>3 DEF FlushInv

\* Steps that enter or leave no counted place and change nothing FlushInv is about.
LEMMA FlushKept ==
  ASSUME Counting, FlushInv, NEW t \in Threads, NEW place,
         pc' = [pc EXCEPT ![t] = place],
         UNCHANGED <<run, spurious, total, done, mine, doFlash, flushes, Cleared>>,
         pc[t] \in CountedPlaces <=> place \in CountedPlaces,
         pc[t] # "flush" /\ place # "flush",
         place \in BeforeLoop \cup {"pass_start"} \cup Iterating
           => pc[t] \in BeforeLoop \cup {"pass_start"} \cup Iterating
  PROVE  FlushInv'
<1>0. pc \in [Threads -> Places]
  BY DEF Counting, Safe, PlacesInv, TypeOK
<1>1. \A u \in Threads : pc'[u] = IF u = t THEN place ELSE pc[u]
  BY <1>0
<1>2. \A u \in Threads : IsLast(u)' <=> IsLast(u)
  BY <1>1 DEF IsLast
<1>3. OperationsOfAll' = OperationsOfAll
  BY DEF OperationsOfAll
<1> QED
  BY <1>1, <1>2, <1>3 DEF FlushInv

\* Only the thread that counts the last operation flushes, and only once.
LEMMA FlushStep ==
  Counting /\ Counting' /\ NumbersInv /\ FlushInv /\ [Next]_vars => FlushInv'
<1> SUFFICES ASSUME Counting, Counting', NumbersInv, FlushInv, [Next]_vars PROVE FlushInv'
  OBVIOUS
<1>0. /\ PlacesInv /\ Safe /\ pc \in [Threads -> Places] /\ Leader \in Threads
      /\ done \in Nat /\ total \in Nat /\ mine \in [Threads -> Nat]
      /\ doFlash \in [Threads -> BOOLEAN] /\ run \in Nat
  BY Basics DEF Counting, Safe, PlacesInv, TypeOK
<1>1. CASE StartWorkload
  <2>1. /\ \A t \in Threads : pc'[t] \in {"open", "arrive_open"} /\ doFlash'[t] = TRUE
        /\ flushes' = 0 /\ pc'[Leader] = "open"
    BY <1>0, <1>1 DEF StartWorkload
  <2>2. ~Cleared' /\ \A t \in Threads : pc'[t] \notin CountedPlaces /\ pc'[t] # "flush"
    BY <1>0, <2>1 DEF Cleared, AfterFence, CountedPlaces
  <2>3. done' # OperationsOfAll'
    BY <1>0, <2>1, <2>2, NextAllDone DEF AllDone, BeforeLoop, BeforeFence
  <2> QED
    BY <2>1, <2>2, <2>3 DEF FlushInv, IsLast
<1>2. ASSUME NEW t \in Threads, AddTotal(t) PROVE FlushInv'
  <2>1. /\ pc[t] = "add_total" /\ pc' = [pc EXCEPT ![t] = "arrive_start"]
        /\ UNCHANGED <<run, spurious, done, mine, doFlash, flushes>>
    BY <1>2 DEF AddTotal, At, Goto, current, settings, locals, auxiliary
  <2>2. ~Cleared /\ run > 0
    BY <1>0, <2>1, LoopNotCleared, Basics DEF BeforeLoop, BeforeStart
  <2>3. done # OperationsOfAll
    BY <2>1, <2>2, CountingAllDone DEF AllDone, BeforeLoop, BeforeStart
  <2>4. OperationsOfAll' = OperationsOfAll
    BY <2>1 DEF OperationsOfAll
  <2>5. \A u \in Threads : pc[u] \notin Iterating
    BY <1>0, <2>1, <2>2, Lockstep
       DEF Counting, Safe, BarriersInv, BeforeLoop, BeforeFence, BeforeStart, Iterating,
           Uncounted, CountedPlaces
  <2>6. \A u \in Threads : pc'[u] \notin CountedPlaces
    BY <1>0, <2>1, <2>5 DEF Iterating, CountedPlaces
  <2>7. flushes = 0
    BY <2>2, <2>3 DEF FlushInv
  <2>8. \A u \in Threads : pc'[u] \in BeforeLoop \cup {"pass_start"} \cup Iterating
                             => pc[u] \in BeforeLoop \cup {"pass_start"} \cup Iterating
    BY <1>0, <2>1 DEF BeforeLoop, BeforeStart
  <2> QED
    BY <1>0, <2>1, <2>3, <2>4, <2>5, <2>6, <2>7, <2>8
       DEF FlushInv, IsLast, Iterating, CountedPlaces
<1>3. ASSUME NEW t \in Threads, Count(t) PROVE FlushInv'
  <2>1. /\ pc[t] = "count" /\ pc' = [pc EXCEPT ![t] = "load_done"]
        /\ done' = done + 1 /\ mine' = [mine EXCEPT ![t] = done + 1]
        /\ UNCHANGED <<run, spurious, total, doFlash, flushes>>
    BY <1>3 DEF Count, At, Goto, current, settings, auxiliary
  <2>2. ~Cleared /\ run > 0
    BY <1>0, <2>1, LoopNotCleared, Basics DEF Iterating, Uncounted
  <2>3. done # OperationsOfAll
    BY <2>1, <2>2, CountingAllDone DEF AllDone, Uncounted
  <2>4. OperationsOfAll' = OperationsOfAll
    BY <2>1 DEF OperationsOfAll
  <2>5. flushes = 0
    BY <2>2, <2>3 DEF FlushInv
  <2>6. total = OperationsOfAll
    BY <2>1, <2>2, AllAnnounced DEF BeforeLoop, BeforeFence, BeforeStart
  <2>7. done' = OperationsOfAll' => IsLast(t)'
    BY <1>0, <2>1, <2>4, <2>6 DEF IsLast, CountedPlaces
  <2>8. \A u \in Threads : pc'[u] = "flush" => u # t /\ pc[u] = "flush" /\ mine'[u] = mine[u]
    BY <1>0, <2>1
  <2>9. \A u \in Threads : pc'[u] \in BeforeLoop \cup {"pass_start"} \cup Iterating
                             => /\ pc[u] \in BeforeLoop \cup {"pass_start"} \cup Iterating
                                /\ pc'[u] = "flush" <=> pc[u] = "flush"
    BY <1>0, <2>1 DEF Iterating, Uncounted
  <2> QED
    BY <2>1, <2>5, <2>7, <2>8, <2>9 DEF FlushInv
<1>4. ASSUME NEW t \in Threads, Judge(t) PROVE FlushInv'
  <2>1. /\ pc[t] = "judge" /\ pc[t] \in CountedPlaces /\ pc[t] \in Iterating
        /\ UNCHANGED <<run, spurious, total, done, mine, flushes, Cleared>>
    BY <1>0, <1>4, QuietKeeps DEF Judge, At, Quiet, auxiliary, CountedPlaces, Iterating
  <2>2. OperationsOfAll' = OperationsOfAll
    BY <2>1 DEF OperationsOfAll
  <2>3. doFlash[t]
    BY <2>1 DEF FlushInv
  <2>4. CASE /\ mine[t] = total /\ doFlash' = [doFlash EXCEPT ![t] = FALSE]
             /\ pc' = [pc EXCEPT ![t] = "flush"]
    <3>1. \A u \in Threads : /\ pc'[u] = IF u = t THEN "flush" ELSE pc[u]
                             /\ doFlash'[u] = IF u = t THEN FALSE ELSE doFlash[u]
      BY <1>0, <2>4
    <3>2. \A u \in Threads : IsLast(u)' <=> IsLast(u)
      BY <2>1, <3>1 DEF IsLast, CountedPlaces
    <3>3. \A u \in Threads : pc'[u] = "flush" => mine'[u] = total'
      BY <2>1, <2>4, <3>1 DEF FlushInv
    <3>4. \A u \in Threads : pc'[u] \in BeforeLoop \cup {"pass_start"} \cup Iterating
                               => (doFlash'[u] <=> pc'[u] # "flush")
      <4> SUFFICES ASSUME NEW u \in Threads,
                          pc'[u] \in BeforeLoop \cup {"pass_start"} \cup Iterating
                   PROVE  doFlash'[u] <=> pc'[u] # "flush"
        OBVIOUS
      <4>1. CASE u = t
        BY <3>1, <4>1
      <4>2. CASE u # t
        BY <3>1, <4>2 DEF FlushInv
      <4> QED
        BY <4>1, <4>2
    <3> QED
      BY <2>1, <2>2, <3>2, <3>3, <3>4 DEF FlushInv
  <2>5. CASE /\ mine[t] # total \/ spurious
             /\ doFlash' = doFlash
             /\ \E place \in {"operate", "arrive_stop"} : pc' = [pc EXCEPT ![t] = place]
    <3>1. PICK place \in {"operate", "arrive_stop"} :
                 \A u \in Threads : pc'[u] = IF u = t THEN place ELSE pc[u]
      BY <1>0, <2>5
    <3>2. \A u \in Threads : /\ IsLast(u)' => IsLast(u)
                             /\ IsLast(u) /\ ~spurious => IsLast(u)'
      BY <2>1, <2>5, <3>1 DEF IsLast, CountedPlaces
    <3> QED
      BY <2>1, <2>2, <2>5, <3>1, <3>2 DEF FlushInv
  <2> QED
    BY <1>4, <2>3, <2>4, <2>5 DEF Judge, NextIteration, Goto
<1>5. ASSUME NEW t \in Threads, Flush(t) PROVE FlushInv'
  <2>1. /\ pc[t] = "flush" /\ pc[t] \in CountedPlaces /\ flushes' = flushes + 1
        /\ UNCHANGED <<run, spurious, total, done, mine, doFlash, Cleared>>
    BY <1>0, <1>5, QuietKeeps DEF Flush, At, Quiet, CountedPlaces
  <2>2. IsLast(t)
    BY <2>1 DEF IsLast, FlushInv
  <2>3. flushes = 0
    BY <2>2 DEF FlushInv
  <2>4. /\ done = OperationsOfAll /\ left[t] = 1
        /\ \A u \in Threads : pc[u] \notin BeforeLoop \cup {"pass_start"} \cup Uncounted
    BY <2>2, LastIsDone
  <2>5. pc' = [pc EXCEPT ![t] = "arrive_stop"]
    BY <1>5, <2>4 DEF Flush, NextIteration, Goto
  <2>6. OperationsOfAll' = OperationsOfAll
    BY <2>1 DEF OperationsOfAll
  <2>7. \A u \in Threads : ~IsLast(u)'
    BY <1>0, <2>1, <2>2, <2>5 DEF IsLast, NumbersInv, CountedPlaces
  <2>8. \A u \in Threads : pc'[u] = IF u = t THEN "arrive_stop" ELSE pc[u]
    BY <1>0, <2>5
  <2> QED
    BY <2>1, <2>3, <2>4, <2>6, <2>7, <2>8
       DEF FlushInv, BeforeLoop, BeforeFence, BeforeStart, Iterating, Uncounted, CountedPlaces
<1>6. ASSUME NEW t \in Threads, Clear(t) PROVE FlushInv'
  <2>1. /\ Cleared' /\ \A u \in Threads : pc[u] \notin Iterating
        /\ pc' = [pc EXCEPT ![t] = "leave"] /\ UNCHANGED <<doFlash, flushes>>
    BY <1>6, ClearAlone DEF Clear, locals, auxiliary
  <2>2. \A u \in Threads : pc'[u] \notin Iterating
    BY <1>0, <2>1 DEF Iterating, Uncounted, CountedPlaces
  <2>3. \A u \in Threads : pc'[u] \in BeforeLoop \cup {"pass_start"}
                             => pc[u] \in BeforeLoop \cup {"pass_start"}
    BY <1>0, <2>1 DEF BeforeLoop, BeforeFence, BeforeStart
  <2> QED
    BY <2>1, <2>2, <2>3 DEF FlushInv, IsLast, Iterating, CountedPlaces
<1>7. ASSUME NEW t \in Threads, Open(t) \/ Begin(t) PROVE FlushInv'
  <2>1. /\ pc[t] \in {"open", "begin"}
        /\ UNCHANGED <<run, spurious, total, done, mine, doFlash, flushes, Cleared>>
    BY <1>0, <1>7, QuietKeeps DEF Open, Begin, At, Quiet, locals, auxiliary
  <2>2. CASE pc' = pc
    BY <2>1, <2>2 DEF FlushInv, IsLast, OperationsOfAll
  <2>3. CASE \E place \in {"arrive_open", "add_total"} : pc' = [pc EXCEPT ![t] = place]
    BY <2>1, <2>3, FlushKept
       DEF CountedPlaces, BeforeLoop, BeforeFence, BeforeStart, Iterating, Uncounted
  <2> QED
    BY <1>7, <2>2, <2>3 DEF Open, Begin, Throw, Goto
<1>8. ASSUME NEW t \in Threads, ArriveFence(t) \/ PassFence(t) PROVE FlushInv'
  <2>1. /\ UNCHANGED <<run, spurious, total, done, mine, doFlash, flushes, Cleared>>
        /\ \/ pc[t] = "arrive_open" /\ Goto(t, "pass_open")
           \/ pc[t] = "arrive_close" /\ Goto(t, "pass_close")
           \/ pc[t] = "pass_open" /\ Goto(t, "begin")
           \/ pc[t] = "pass_close" /\ Goto(t, "close")
           \/ pc[t] = "pass_close" /\ Goto(t, "idle")
    BY <1>0, <1>8, QuietKeeps DEF ArriveFence, PassFence, At, Quiet, locals, auxiliary
  <2> QED
    BY <2>1, FlushKept DEF Goto, CountedPlaces, BeforeLoop, BeforeFence, BeforeStart, Iterating,
                           Uncounted
<1>9. ASSUME NEW t \in Threads, ArriveStart(t) \/ PassStart(t) PROVE FlushInv'
  <2>1. /\ UNCHANGED <<run, spurious, total, done, mine, doFlash, flushes, Cleared>>
        /\ \/ pc[t] = "arrive_start" /\ Goto(t, "pass_start")
           \/ pc[t] = "arrive_stop" /\ Goto(t, "pass_stop")
           \/ pc[t] = "pass_start" /\ Goto(t, "operate")
           \/ pc[t] = "pass_stop" /\ Goto(t, "conclude")
           \/ pc[t] = "pass_stop" /\ Goto(t, "leave")
    BY <1>0, <1>9, QuietKeeps DEF ArriveStart, PassStart, At, Quiet, locals, auxiliary
  <2> QED
    BY <2>1, FlushKept DEF Goto, CountedPlaces, BeforeLoop, BeforeFence, BeforeStart, Iterating,
                           Uncounted
<1>10. ASSUME NEW t \in Threads, Operate(t) \/ Tally(t) PROVE FlushInv'
  <2>1. /\ UNCHANGED <<run, spurious, total, done, mine, doFlash, flushes, Cleared>>
        /\ \/ pc[t] = "operate" /\ Goto(t, "tally")
           \/ pc[t] = "tally" /\ Goto(t, "count")
    BY <1>0, <1>10, OperateCounts, TallyCounts
       DEF Operate, Tally, At, current, settings, progress, locals, auxiliary
  <2> QED
    BY <2>1, FlushKept DEF Goto, CountedPlaces, Iterating, Uncounted
<1>11. ASSUME NEW t \in Threads,
              LoadDone(t) \/ LoadPrinted(t) \/ PrintLine(t) \/ StorePrinted(t)
       PROVE  FlushInv'
  <2>1. /\ UNCHANGED <<run, spurious, total, done, mine, doFlash, flushes, Cleared>>
        /\ pc[t] \in {"load_done", "load_printed", "print", "store_printed"}
        /\ \E place \in {"load_printed", "print", "store_printed", "judge"} : Goto(t, place)
    BY <1>0, <1>11, QuietKeeps
       DEF LoadDone, LoadPrinted, PrintLine, StorePrinted, At, Quiet, locals, auxiliary
  <2> QED
    BY <2>1, FlushKept DEF Goto, CountedPlaces, Iterating
<1>12. ASSUME NEW t \in Threads, Conclude(t) \/ Leave(t) \/ Close(t) PROVE FlushInv'
  <2>1. /\ UNCHANGED <<run, spurious, total, done, mine, doFlash, flushes, Cleared>>
        /\ \/ pc[t] = "conclude" /\ Goto(t, "clear")
           \/ pc[t] = "leave" /\ Goto(t, "arrive_close")
           \/ pc[t] = "close" /\ Goto(t, "idle")
    BY <1>0, <1>12, QuietKeeps DEF Conclude, Leave, Close, At, Quiet, locals, auxiliary
  <2> QED
    BY <2>1, FlushKept DEF Goto, CountedPlaces, BeforeLoop, BeforeFence, BeforeStart, Iterating,
                           Uncounted
<1>13. CASE UNCHANGED vars
  BY <1>13 DEF vars, current, settings, progress, locals, auxiliary, FlushInv, IsLast, Cleared,
               OperationsOfAll
<1> QED
  BY <1>1, <1>2, <1>3, <1>4, <1>5, <1>6, <1>7, <1>8, <1>9, <1>10, <1>11, <1>12, <1>13
     DEF Next, Step, Terminated

\* What is known before the result is looked at: the counters and the flush.
Flushing == Counting /\ NumbersInv /\ FlushInv

\* The third layer, of the numbers and the flush, holds initially,
LEMMA FlushingInit == Init => Flushing
BY CountingInit, NumbersInit, FlushInit DEF Flushing

\* and every step keeps it.
LEMMA FlushingStep == Flushing /\ [Next]_vars => Flushing'
BY CountingStep, NumbersStep, FlushStep DEF Flushing

\* The flush of a workload: last, alone and, unless the exchange fails without
\* a reason, exactly one.
LEMMA FlushingIsLast == Flushing => FlushIsLast
<1> SUFFICES ASSUME Flushing PROVE FlushIsLast
  OBVIOUS
<1>1. ASSUME NEW t \in Threads, pc[t] = "flush"
      PROVE  /\ done = OperationsOfAll
             /\ \A u \in Threads \ {t} : pc[u] \notin {"operate", "tally", "count", "flush"}
  <2>1. IsLast(t)
    BY <1>1 DEF Flushing, FlushInv, IsLast, CountedPlaces
  <2>2. ASSUME NEW u \in Threads \ {t}, pc[u] = "flush" PROVE FALSE
    BY <1>1, <2>2 DEF Flushing, FlushInv, NumbersInv, CountedPlaces
  <2> QED
    BY <2>1, <2>2, LastIsDone DEF Flushing, Uncounted
<1>2. ASSUME pc[Leader] \in {"conclude", "clear"}
      PROVE  flushes = 1 \/ (spurious /\ flushes = 0)
  <2>1. ~Cleared /\ done = OperationsOfAll /\ \A t \in Threads : pc[t] \notin Iterating
    BY <1>2, AllTallied DEF Flushing
  <2>2. \A t \in Threads : ~IsLast(t)
    BY <2>1 DEF IsLast, Iterating
  <2>3. flushes = 0 => spurious
    BY <2>1, <2>2 DEF Flushing, FlushInv
  <2> QED
    BY <2>3 DEF Flushing, FlushInv
<1> QED
  BY <1>1, <1>2 DEF FlushIsLast

\* The flush comes after every operation of every thread and beside none; there
\* is one in every workload, or none if the exchange fails without a reason.
THEOREM FlushIsLastAlways == Spec => []FlushIsLast
BY FlushingInit, FlushingStep, FlushingIsLast, PTL DEF Spec
-----------------------------------------------------------------------------
(***************************************************************************)
(* What the leader reports.                                                *)
(***************************************************************************)

\* At first there is no transaction and no flush.
LEMMA CleanInit == Init => CleanInv
BY DEF Init, CleanInv

\* Nothing is written after the flush: a thread that could write has operations
\* left, and then there has been no flush.
LEMMA CleanStep == Flushing /\ CleanInv /\ [Next]_vars => CleanInv'
<1> SUFFICES ASSUME Flushing, CleanInv, ~transactional, [Next]_vars,
                    transactional' = transactional
             PROVE  CleanInv'
  <2>1. [Next]_vars => transactional' = transactional
    BY DEF Next, Step, StartWorkload, Open, ArriveFence, PassFence, Begin, AddTotal, ArriveStart,
           PassStart, Operate, Tally, Count, LoadDone, LoadPrinted, PrintLine, StorePrinted,
           Judge, Flush, Conclude, Clear, Leave, Close, Terminated, vars, current, settings
  <2> QED
    BY <2>1 DEF CleanInv
<1>0. txn \in [Threads -> {"none", "clean", "dirty"}] /\ dirty \in BOOLEAN /\ PlacesInv
  BY DEF Flushing, Counting, Safe, PlacesInv, TypeOK
<1> USE DEF CleanInv
<1>1. CASE StartWorkload
  BY <1>1 DEF StartWorkload, database
<1>2. ASSUME NEW t \in Threads,
             \/ Open(t) \/ ArriveFence(t) \/ PassFence(t) \/ AddTotal(t) \/ ArriveStart(t)
             \/ PassStart(t) \/ Tally(t) \/ Count(t) \/ LoadDone(t) \/ LoadPrinted(t)
             \/ PrintLine(t) \/ StorePrinted(t) \/ Judge(t) \/ Conclude(t) \/ Clear(t)
      PROVE  CleanInv'
  <2>1. UNCHANGED <<dirty, txn, flushes>>
    BY <1>2 DEF Open, ArriveFence, PassFence, AddTotal, ArriveStart, PassStart, Tally, Count,
                LoadDone, LoadPrinted, PrintLine, StorePrinted, Judge, Conclude, Clear,
                database, auxiliary
  <2> QED
    BY <2>1
<1>3. ASSUME NEW t \in Threads, Begin(t) PROVE CleanInv'
  <2>1. UNCHANGED <<dirty, txn, flushes>>
    BY <1>3 DEF Begin, auxiliary
  <2> QED
    BY <2>1
<1>4. ASSUME NEW t \in Threads, Operate(t) PROVE CleanInv'
  <2>1. pc[t] = "operate" /\ run > 0 /\ flushes' = flushes
    BY <1>0, <1>4, Basics DEF Operate, At
  <2>2. ~Cleared
    BY <2>1, LoopNotCleared DEF Flushing, Counting, Iterating, Uncounted
  <2>3. flushes # 1
    BY <2>1, <2>2, CountingAllDone DEF Flushing, FlushInv, AllDone, Uncounted
  <2>4. txn' = txn
    BY <1>4 DEF Operate
  <2> QED
    BY <2>1, <2>3, <2>4
<1>5. ASSUME NEW t \in Threads, Flush(t) PROVE CleanInv'
  <2>1. dirty' = FALSE /\ txn' = txn
    BY <1>5 DEF Flush
  <2> QED
    BY <2>1
<1>6. ASSUME NEW t \in Threads, Leave(t) PROVE CleanInv'
  <2>1. /\ dirty' = (dirty \/ txn[t] = "dirty") /\ txn' = [txn EXCEPT ![t] = "none"]
        /\ flushes' = flushes
    BY <1>6 DEF Leave, auxiliary
  <2>2. \A u \in Threads : txn'[u] = "none"
    BY <1>0, <2>1
  <2>3. dirty' = dirty
    BY <1>0, <2>1
  <2> QED
    BY <2>1, <2>2, <2>3
<1>7. ASSUME NEW t \in Threads, Close(t) PROVE CleanInv'
  <2>1. dirty' = FALSE /\ txn' = txn
    BY <1>7 DEF Close
  <2> QED
    BY <2>1
<1>8. CASE UNCHANGED vars
  <2>1. UNCHANGED <<dirty, txn, flushes>>
    BY <1>8 DEF vars, database, auxiliary
  <2> QED
    BY <2>1
<1> QED
  BY <1>1, <1>2, <1>3, <1>4, <1>5, <1>6, <1>7, <1>8 DEF Next, Step, Terminated

\* At first nothing is reported.
LEMMA ReportInit == Init => ReportInv
<1> SUFFICES ASSUME Init PROVE ReportInv
  OBVIOUS
<1>1. pc[Leader] = "idle"
  BY BenchAssumption DEF Init
<1>2. report.flushed = TRUE
  BY DEF Init, NoReport
<1> QED
  BY <1>1, <1>2 DEF ReportInv, ExactReport, DirectSizeAfterFlush, SizeReadAfterFlush

\* The report is made when all operations are tallied and counted and, without
\* transactions, flushed; nothing is performed before it is cleared.
LEMMA ReportStep == Flushing /\ CleanInv /\ ReportInv /\ [Next]_vars => ReportInv'
<1> SUFFICES ASSUME Flushing, CleanInv, ReportInv, [Next]_vars PROVE ReportInv'
  OBVIOUS
<1> USE DEF ReportInv, DirectSizeAfterFlush, SizeReadAfterFlush
<1>0. /\ PlacesInv /\ pc \in [Threads -> Places] /\ Leader \in Threads
      /\ touched \in Nat /\ failed \in Nat
  BY Basics DEF Flushing, Counting, Safe, PlacesInv, TypeOK
<1>1. CASE StartWorkload
  <2>1. pc'[Leader] = "open" /\ UNCHANGED <<report, transactional, spurious>>
    BY <1>0, <1>1 DEF StartWorkload, settings
  <2> QED
    BY <2>1 DEF ExactReport
<1>2. ASSUME NEW t \in Threads, Conclude(t) PROVE ReportInv'
  <2>1. /\ pc[t] = "conclude" /\ t = Leader
        /\ report' = [touched |-> touched, failed |-> failed, done |-> done,
                      flushed |-> ~dirty /\ \A u \in Threads : txn[u] # "dirty"]
        /\ UNCHANGED <<run, transactional, spurious, goodOnes>>
    BY <1>0, <1>2, Basics DEF Conclude, At, LeadersOnly, current, settings, auxiliary
  <2>2. /\ done = OperationsOfAll /\ touched + failed = OperationsOfAll
        /\ touched = goodOnes
    BY <2>1, AllTallied DEF Flushing
  <2>3. ExactReport'
    <3>1. OperationsOfAll' = OperationsOfAll
      BY <2>1 DEF OperationsOfAll
    <3>2. report'.touched = touched /\ report'.failed = failed /\ report'.done = done
      BY <2>1
    <3> QED
      BY <1>0, <2>1, <2>2, <3>1, <3>2 DEF ExactReport
  <2>4. ~transactional /\ ~spurious => ~dirty /\ \A u \in Threads : txn[u] # "dirty"
    BY <2>1, FlushingIsLast DEF Flushing, FlushIsLast, CleanInv
  <2>5. ~transactional /\ ~spurious => report'.flushed
    BY <2>1, <2>4
  <2> QED
    BY <2>1, <2>3, <2>5
<1>3. ASSUME NEW t \in Threads, Clear(t) PROVE ReportInv'
  <2>1. t = Leader /\ pc'[Leader] = "leave" /\ UNCHANGED <<report, transactional, spurious>>
    BY <1>0, <1>3, ClearAlone DEF Clear, Flushing, current, settings
  <2> QED
    BY <2>1 DEF ExactReport
<1>4. ASSUME NEW t \in Threads, Step(t), ~Conclude(t), ~Clear(t) PROVE ReportInv'
  <2>1. UNCHANGED <<run, transactional, spurious, report>>
    BY <1>4 DEF Step, Open, ArriveFence, PassFence, Begin, AddTotal, ArriveStart,
           PassStart, Operate, Tally, Count, LoadDone, LoadPrinted, PrintLine, StorePrinted,
           Judge, Flush, Leave, Close, current, settings
  <2>2. pc'[Leader] = "clear" => pc[Leader] = "clear"
    <3>1. CASE Inner(t)
      BY <1>0, <3>1, InnerPlaces DEF Iterating, Uncounted, CountedPlaces
    <3>2. CASE Open(t) \/ Begin(t) \/ AddTotal(t) \/ Leave(t) \/ Close(t)
      BY <1>0, <3>2 DEF Open, Begin, AddTotal, Leave, Close, Throw, Goto
    <3>3. CASE ArriveFence(t) \/ PassFence(t) \/ ArriveStart(t) \/ PassStart(t)
      BY <1>0, <3>3 DEF ArriveFence, PassFence, ArriveStart, PassStart, Goto
    <3> QED
      BY <1>4, <3>1, <3>2, <3>3 DEF Step, Inner
  <2>3. pc[Leader] = "clear" => goodOnes' = goodOnes
    <3>1. CASE Operate(t)
      BY <3>1, AllTallied DEF Flushing, Operate, At, Iterating, Uncounted
    <3>2. CASE Quiet(t)
      BY <1>0, <3>2, QuietKeeps
    <3>3. CASE AddTotal(t) \/ Tally(t) \/ Count(t)
      BY <3>3 DEF AddTotal, Tally, Count, auxiliary
    <3> QED
      BY <1>4, <3>1, <3>2, <3>3 DEF Step, Quiet
  <2>4. OperationsOfAll' = OperationsOfAll
    BY <2>1 DEF OperationsOfAll
  <2> QED
    BY <2>1, <2>2, <2>3, <2>4 DEF ExactReport
<1>5. CASE UNCHANGED vars
  <2>1. UNCHANGED <<run, transactional, spurious, report, pc, goodOnes>>
    BY <1>5 DEF vars, current, settings, auxiliary
  <2> QED
    BY <2>1 DEF ExactReport, OperationsOfAll
<1> QED
  BY <1>1, <1>2, <1>3, <1>4, <1>5 DEF Next, Terminated

\* The whole inductive invariant.
BenchInv == Flushing /\ PrintedInv /\ CleanInv /\ ReportInv

\* It is one: it holds at first, and every step keeps it.
THEOREM BenchInvariant == Spec => []BenchInv
<1>1. Init => BenchInv
  BY FlushingInit, PrintedInit, CleanInit, ReportInit DEF BenchInv
<1>2. BenchInv /\ [Next]_vars => BenchInv'
  BY FlushingStep, PrintedStep, CleanStep, ReportStep DEF BenchInv, Flushing
<1> QED
  BY <1>1, <1>2, PTL DEF Spec

\* What the leader reports of a workload is exact.
THEOREM ExactReportAlways == Spec => []ExactReport
<1>1. BenchInv => ExactReport
  BY DEF BenchInv, ReportInv
<1> QED
  BY <1>1, BenchInvariant, PTL

\* Without transactions and spurious failures the size on disk is read when all
\* that the workload wrote has been flushed.
THEOREM DirectSizeAfterFlushAlways == Spec => []DirectSizeAfterFlush
<1>1. BenchInv => DirectSizeAfterFlush
  BY DEF BenchInv, ReportInv
<1> QED
  BY <1>1, BenchInvariant, PTL
=============================================================================
