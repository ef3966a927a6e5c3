------------------------- MODULE WorkloadSplitProofs -------------------------
(***************************************************************************)
(* Proofs about WorkloadSplit, for all bounds of the inputs, hence for     *)
(* every workload and every number of threads: the parts are well formed,  *)
(* their keys never meet, and all records and operations are dealt out,    *)
(* evenly.                                                                 *)
(***************************************************************************)
EXTENDS WorkloadSplit, TLAPS

\* The equal shares, and the leftovers of the records.
RecordsShare    == workload.dbRecords \div threads
RecordsRest     == workload.dbRecords % threads
OperationsShare == workload.dbOperations \div threads

\* The leftovers go to the first threads, one each.
RestDealt == leftRecords = IF idx < RecordsRest THEN RecordsRest - idx ELSE 0

\* Where the next part starts when the parts follow the records.
StartFollows ==
  ~PureInsert(workload) =>
    startKey = workload.start + idx * RecordsShare + (RecordsRest - leftRecords)

\* The keys of every part end before the next part begins.
KeysBehind == \A i \in 1..Len(parts) : parts[i].start + KeysOf(parts[i]) <= startKey

\* Every part is the equal share or one more.
PartsNearShare ==
  \A i \in 1..Len(parts) :
    /\ parts[i].records \in {RecordsShare, RecordsShare + 1}
    /\ parts[i].operations \in {Larger(1, OperationsShare), Larger(1, OperationsShare + 1)}

\* The inductive invariant of the loop.
LoopInv == /\ TypeOK
           /\ Valid(workload, threads)
           /\ RestDealt
           /\ StartFollows
           /\ KeysBehind
           /\ DisjointKeys
           /\ PartsNearShare
-----------------------------------------------------------------------------
\* Division and remainder by a positive number, as C++ computes them.
LEMMA Division ==
  ASSUME NEW a \in Nat, NEW n \in Nat, n > 0
  PROVE  /\ a \div n \in Nat
         /\ a % n \in 0..(n - 1)
         /\ n * (a \div n) + (a % n) = a
OBVIOUS

\* The share and the rest of the records of the workload being split.
LEMMA SharesType ==
  ASSUME TypeOK
  PROVE  /\ threads \in Nat /\ threads > 0
         /\ workload.dbRecords \in Nat /\ workload.start \in Nat
         /\ RecordsShare \in Nat /\ OperationsShare \in Nat
         /\ RecordsRest \in 0..(threads - 1)
         /\ threads * RecordsShare + RecordsRest = workload.dbRecords
<1>1. threads \in Nat /\ threads > 0
  BY SplitAssumption DEF TypeOK
<1>2. workload.dbRecords \in Nat /\ workload.dbOperations \in Nat /\ workload.start \in Nat
  BY SplitAssumption DEF TypeOK, Workload
<1> QED
  BY <1>1, <1>2, Division DEF RecordsShare, RecordsRest, OperationsShare

\* The next part is well formed: it starts where the last one ended, and has the
\* share or one more.
LEMMA NextPartType ==
  ASSUME TypeOK
  PROVE  /\ NextPart \in Part
         /\ NextPart.start = startKey
         /\ NextPart.records = RecordsShare + One(leftRecords > 0)
         /\ NextPart.records \in {RecordsShare, RecordsShare + 1}
         /\ NextPart.operations \in {Larger(1, OperationsShare), Larger(1, OperationsShare + 1)}
<1>1. OperationsShare \in Nat /\ RecordsShare \in Nat /\ startKey \in Nat
  BY SharesType DEF TypeOK
<1>2. One(leftRecords > 0) \in {0, 1} /\ One(leftOperations > 0) \in {0, 1}
  BY DEF One
<1> QED
  BY <1>1, <1>2 DEF NextPart, Part, Larger, RecordsShare, OperationsShare

\* The step of the first key covers the keys of the part: the workload inserts
\* with one kind, whose longest batches new_records_count adds up.
LEMMA KeysWithinSpan ==
  ASSUME TypeOK, Valid(workload, threads), NEW part \in Part
  PROVE  KeysOf(part) \in Nat /\ Span(part) = KeysOf(part)
<1> DEFINE n == part.operations
<1>1. n \in Nat /\ part.records \in Nat
  BY DEF Part
<1>2. CASE ~PureInsert(workload)
  BY <1>1, <1>2 DEF KeysOf, Span
<1>3. CASE PureInsert(workload)
  <2>1. workload.batchLength \in Nat /\ workload.bulkLength \in Nat
    BY SplitAssumption DEF TypeOK, Workload
  <2>2. /\ n * 1 = n /\ 1 * n = n /\ 0 * n = 0
        /\ n * workload.batchLength \in Nat /\ 0 * n * workload.batchLength = 0
        /\ n * workload.bulkLength \in Nat /\ 0 * n * workload.bulkLength = 0
    BY <1>1, <2>1
  <2>3. CASE workload.upsert = "all"
    <3>1. workload.batchUpsert = "none" /\ workload.bulkLoad = "none"
      BY <2>3 DEF Valid, Inserts
    <3>2. NewRecords(workload, n) = n
      BY <2>2, <2>3, <3>1, <1>1 DEF NewRecords, One
    <3>3. KeysPerOperation(workload) = 1
      BY <2>3, <3>1 DEF KeysPerOperation
    <3> QED
      BY <1>1, <1>3, <2>2, <3>2, <3>3 DEF KeysOf, Span
  <2>4. CASE workload.batchUpsert = "all"
    <3>1. workload.upsert = "none" /\ workload.bulkLoad = "none"
      BY <2>4 DEF Valid, Inserts
    <3>2. NewRecords(workload, n) = n * workload.batchLength
      BY <2>1, <2>2, <2>4, <3>1, <1>1 DEF NewRecords, One
    <3>3. KeysPerOperation(workload) = workload.batchLength
      BY <2>4, <3>1 DEF KeysPerOperation
    <3> QED
      BY <1>1, <1>3, <2>2, <3>2, <3>3 DEF KeysOf, Span
  <2>5. CASE workload.bulkLoad = "all"
    <3>1. workload.upsert = "none" /\ workload.batchUpsert = "none"
      BY <2>5 DEF Valid, Inserts
    <3>2. NewRecords(workload, n) = n * workload.bulkLength
      BY <2>1, <2>2, <2>5, <3>1, <1>1 DEF NewRecords, One
    <3>3. KeysPerOperation(workload) = workload.bulkLength
      BY <2>5, <3>1 DEF KeysPerOperation
    <3> QED
      BY <1>1, <1>3, <2>2, <3>2, <3>3 DEF KeysOf, Span
  <2> QED
    BY <1>3, <2>3, <2>4, <2>5 DEF PureInsert
<1> QED
  BY <1>2, <1>3

(***************************************************************************)
(* The invariant of the loop.                                              *)
(***************************************************************************)

\* Before the first turn nothing is dealt and all of the rest is left.
LEMMA LoopInit == Init => LoopInv
<1> SUFFICES ASSUME Init PROVE LoopInv
  OBVIOUS
<1>1. /\ threads \in Nat /\ threads > 0 /\ workload.dbRecords \in Nat
      /\ workload.dbOperations \in Nat /\ workload.start \in Nat
  <2>1. /\ workload.dbRecords \in 1..MaxRecords /\ workload.dbOperations \in 1..MaxOperations
        /\ workload.start \in 0..MaxKey /\ threads \in 1..MaxThreads
    BY DEF Init, Workload
  <2> QED
    BY <2>1, SplitAssumption
<1>2. TypeOK
  BY <1>1, Division DEF Init, TypeOK
<1>3. RecordsRest \in Nat /\ RecordsShare \in Nat /\ leftRecords = RecordsRest /\ idx = 0
  BY <1>2, SharesType DEF Init, RecordsRest
<1> HIDE DEF RecordsRest, RecordsShare
<1>5. RestDealt /\ StartFollows
  BY <1>1, <1>3 DEF Init, RestDealt, StartFollows
<1>4. KeysBehind /\ DisjointKeys /\ PartsNearShare
  BY DEF Init, KeysBehind, DisjointKeys, PartsNearShare
<1> QED
  BY <1>2, <1>4, <1>5 DEF LoopInv, Init

\* A turn of the loop deals the next part and keeps those dealt before.
LEMMA DealParts ==
  ASSUME TypeOK, Deal
  PROVE  /\ Len(parts') = Len(parts) + 1
         /\ \A i \in 1..Len(parts) : parts'[i] = parts[i]
         /\ parts'[Len(parts')] = NextPart
         /\ parts' \in Seq(Part)
<1>1. parts \in Seq(Part) /\ NextPart \in Part /\ parts' = Append(parts, NextPart)
  BY NextPartType DEF TypeOK, Deal
<1> HIDE DEF NextPart
<1> QED
  BY <1>1

\* The type invariant is kept.
LEMMA DealType == LoopInv /\ Deal => TypeOK'
<1> SUFFICES ASSUME LoopInv, Deal PROVE TypeOK'
  OBVIOUS
<1>1. NextPart \in Part /\ KeysOf(NextPart) \in Nat /\ Span(NextPart) = KeysOf(NextPart)
  BY NextPartType, KeysWithinSpan DEF LoopInv
<1>2. startKey' \in Nat /\ leftRecords' \in Nat /\ leftOperations' \in Nat
  BY <1>1 DEF LoopInv, TypeOK, Deal, One
<1>3. idx' \in 0..threads
  BY SharesType DEF LoopInv, TypeOK, Deal
<1>4. parts' \in Seq(Part) /\ Len(parts') = idx'
  BY DealParts DEF LoopInv, TypeOK, Deal
<1> QED
  BY <1>2, <1>3, <1>4 DEF TypeOK, LoopInv, Deal, input

\* The leftovers stay those of the threads to come, and a part that follows the
\* records ends where the next one starts.
LEMMA DealRest == LoopInv /\ Deal => RestDealt' /\ StartFollows'
<1> SUFFICES ASSUME LoopInv, Deal PROVE RestDealt' /\ StartFollows'
  OBVIOUS
<1>1. /\ RecordsRest \in Nat /\ RecordsShare \in Nat /\ idx \in Nat
      /\ leftRecords \in Nat /\ startKey \in Nat /\ workload.start \in Nat
  BY SharesType DEF LoopInv, TypeOK
<1>2. /\ workload' = workload /\ threads' = threads
      /\ RecordsRest' = RecordsRest /\ RecordsShare' = RecordsShare
  BY DEF Deal, input, RecordsRest, RecordsShare
<1>3. idx' = idx + 1 /\ leftRecords' = leftRecords - One(leftRecords > 0)
  BY DEF Deal
<1>4. RestDealt'
  BY <1>1, <1>2, <1>3 DEF RestDealt, LoopInv, One
<1>5. ASSUME ~PureInsert(workload)
      PROVE  startKey' = workload.start + (idx + 1) * RecordsShare
                         + (RecordsRest - leftRecords')
  <2>1. startKey' = startKey + RecordsShare + One(leftRecords > 0)
    <3>1. startKey' = startKey + NextPart.records
      BY <1>5, Zenon DEF Deal, Span
    <3>2. NextPart.records = RecordsShare + One(leftRecords > 0)
      BY NextPartType, Zenon DEF LoopInv
    <3> QED
      BY <1>1, <3>1, <3>2 DEF One
  <2>2. startKey = workload.start + idx * RecordsShare + (RecordsRest - leftRecords)
    BY <1>5 DEF StartFollows, LoopInv
  <2>3. (idx + 1) * RecordsShare = idx * RecordsShare + RecordsShare
    BY <1>1
  <2>4. One(leftRecords > 0) \in {0, 1} /\ idx * RecordsShare \in Nat
    BY <1>1 DEF One
  <2> HIDE DEF RecordsShare, RecordsRest
  <2> QED
    BY <1>1, <1>3, <2>1, <2>2, <2>3, <2>4
<1> QED
  BY <1>2, <1>3, <1>4, <1>5 DEF StartFollows

\* The new part begins behind all keys dealt, and ends before the next begins.
LEMMA DealKeys == LoopInv /\ Deal => KeysBehind' /\ DisjointKeys'
<1> SUFFICES ASSUME LoopInv, Deal PROVE KeysBehind' /\ DisjointKeys'
  OBVIOUS
<1>1. NextPart \in Part /\ NextPart.start = startKey
  BY NextPartType DEF LoopInv
<1>2. KeysOf(NextPart) \in Nat /\ Span(NextPart) = KeysOf(NextPart)
  BY <1>1, KeysWithinSpan DEF LoopInv
<1>3. startKey \in Nat /\ startKey' = startKey + KeysOf(NextPart)
  BY <1>2 DEF LoopInv, TypeOK, Deal
<1>4. workload' = workload
  BY DEF Deal, input
<1>5. \A i \in 1..Len(parts) :
        /\ parts[i] \in Part /\ parts[i].start \in Nat /\ KeysOf(parts[i]) \in Nat
        /\ parts[i].start + KeysOf(parts[i]) <= startKey
  <2> SUFFICES ASSUME NEW i \in 1..Len(parts)
               PROVE  /\ parts[i] \in Part /\ parts[i].start \in Nat
                      /\ KeysOf(parts[i]) \in Nat
                      /\ parts[i].start + KeysOf(parts[i]) <= startKey
    OBVIOUS
  <2>1. parts[i] \in Part
    BY DEF LoopInv, TypeOK
  <2> QED
    BY <2>1, KeysWithinSpan DEF LoopInv, KeysBehind, Part
<1>6. /\ Len(parts) \in Nat /\ Len(parts') = Len(parts) + 1
      /\ \A i \in 1..Len(parts) : parts'[i] = parts[i]
      /\ parts'[Len(parts')] = NextPart
  BY DealParts DEF LoopInv, TypeOK
<1> HIDE DEF NextPart
<1>7. ASSUME NEW i \in 1..Len(parts')
      PROVE  parts'[i].start + KeysOf(parts'[i]) <= startKey'
  <2>1. CASE i \in 1..Len(parts)
    <3>1. parts'[i] = parts[i]
      BY <1>6, <2>1
    <3> QED
      BY <1>2, <1>3, <1>5, <2>1, <3>1
  <2>2. CASE i = Len(parts')
    <3>1. parts'[i] = NextPart
      BY <1>6, <2>2
    <3> QED
      BY <1>1, <1>2, <1>3, <3>1
  <2> QED
    BY <1>6, <2>1, <2>2
<1>8. ASSUME NEW i \in 1..Len(parts'), NEW j \in 1..Len(parts'), i < j
      PROVE  parts'[i].start + KeysOf(parts'[i]) <= parts'[j].start
  <2>1. i \in 1..Len(parts) /\ parts'[i] = parts[i]
    BY <1>6, <1>8
  <2>2. CASE j \in 1..Len(parts)
    <3>1. parts'[j] = parts[j]
      BY <1>6, <2>2
    <3> QED
      BY <1>8, <2>1, <2>2, <3>1 DEF LoopInv, DisjointKeys
  <2>3. CASE j = Len(parts')
    <3>1. parts'[j] = NextPart
      BY <1>6, <2>3
    <3> QED
      BY <1>1, <1>5, <2>1, <3>1
  <2> QED
    BY <1>6, <2>2, <2>3
<1>9. KeysBehind'
  BY <1>4, <1>7 DEF KeysBehind, KeysOf
<1>10. DisjointKeys'
  BY <1>4, <1>8 DEF DisjointKeys, KeysOf
<1> QED
  BY <1>9, <1>10

\* The new part has the share or one more.
LEMMA DealShares == LoopInv /\ Deal => PartsNearShare'
<1> SUFFICES ASSUME LoopInv, Deal PROVE PartsNearShare'
  OBVIOUS
<1>1. RecordsShare' = RecordsShare /\ OperationsShare' = OperationsShare
  BY DEF Deal, input, RecordsShare, OperationsShare
<1>2. PartsNearShare /\ Len(parts) \in Nat
  BY DEF LoopInv, TypeOK
<1> HIDE DEF NextPart
<1>3. /\ Len(parts') = Len(parts) + 1
      /\ \A i \in 1..Len(parts) : parts'[i] = parts[i]
      /\ parts'[Len(parts')] = NextPart
  BY DealParts DEF LoopInv
<1>4. /\ NextPart.records \in {RecordsShare, RecordsShare + 1}
      /\ NextPart.operations \in {Larger(1, OperationsShare), Larger(1, OperationsShare + 1)}
  BY NextPartType DEF LoopInv
<1> DEFINE Near(part) ==
             /\ part.records \in {RecordsShare, RecordsShare + 1}
             /\ part.operations \in {Larger(1, OperationsShare), Larger(1, OperationsShare + 1)}
<1>5. Near(NextPart) /\ \A i \in 1..Len(parts) : Near(parts[i])
  BY <1>2, <1>4 DEF PartsNearShare
<1> HIDE DEF Near
<1>6. \A i \in 1..Len(parts') : Near(parts'[i])
  BY <1>2, <1>3, <1>5
<1> QED
  BY <1>1, <1>6 DEF PartsNearShare, Near

\* Every turn of the loop keeps the invariant.
LEMMA LoopStep == LoopInv /\ [Next]_vars => LoopInv'
<1>1. LoopInv /\ Deal => LoopInv'
  BY DealType, DealRest, DealKeys, DealShares DEF LoopInv, Deal, input, Valid
<1>2. LoopInv /\ UNCHANGED vars => LoopInv'
  BY DEF LoopInv, vars, TypeOK, RestDealt, StartFollows, KeysBehind, KeysOf, DisjointKeys,
         PartsNearShare, RecordsShare, RecordsRest, OperationsShare
<1> QED
  BY <1>1, <1>2 DEF Next, Terminated

\* The invariant of the loop holds in every turn of it.
THEOREM LoopInvariant == Spec => []LoopInv
<1> QED
  BY LoopInit, LoopStep, PTL DEF Spec

\* The parts have natural counts and keys, and no leftover goes below zero,
\* where the unsigned counters of the code would wrap around.
THEOREM TypeCorrect == Spec => []TypeOK
<1>1. LoopInv => TypeOK
  BY DEF LoopInv
<1> QED
  BY <1>1, LoopInvariant, PTL

\* split_workload_into_threads never gives one key to two threads.
THEOREM KeysAreDisjoint == Spec => []DisjointKeys
<1>1. LoopInv => DisjointKeys
  BY DEF LoopInv
<1> QED
  BY <1>1, LoopInvariant, PTL

\* split_workload_into_threads deals out all records of the workload.
THEOREM RecordsAreCovered == Spec => []RecordsCovered
<1>1. LoopInv => RecordsCovered
  <2> SUFFICES ASSUME LoopInv, idx = threads, ~PureInsert(workload)
               PROVE  startKey = workload.start + workload.dbRecords
    BY DEF RecordsCovered
  <2>1. /\ threads \in Nat /\ RecordsRest \in 0..(threads - 1)
        /\ RecordsShare \in Nat /\ workload.start \in Nat /\ workload.dbRecords \in Nat
        /\ threads * RecordsShare + RecordsRest = workload.dbRecords
    BY SharesType DEF LoopInv
  <2>2. leftRecords = 0
    BY <2>1 DEF LoopInv, RestDealt
  <2>3. startKey = workload.start + threads * RecordsShare + (RecordsRest - 0)
    BY <2>2 DEF LoopInv, StartFollows
  <2>4. threads * RecordsShare \in Nat
    BY <2>1
  <2> HIDE DEF RecordsShare, RecordsRest
  <2> QED
    BY <2>1, <2>3, <2>4
<1> QED
  BY <1>1, LoopInvariant, PTL

\* No thread gets more than one record or operation more than another.
THEOREM PartsAreEven == Spec => []Even
<1>1. LoopInv => Even
  <2> SUFFICES ASSUME LoopInv, NEW i \in 1..Len(parts), NEW j \in 1..Len(parts)
               PROVE  /\ parts[i].records    <= parts[j].records + 1
                      /\ parts[i].operations <= parts[j].operations + 1
    BY DEF Even
  <2>1. RecordsShare \in Nat /\ OperationsShare \in Nat
    BY SharesType DEF LoopInv
  <2>2. PartsNearShare
    BY DEF LoopInv
  <2> QED
    BY <2>1, <2>2 DEF PartsNearShare, Larger
<1> QED
  BY <1>1, LoopInvariant, PTL

(***************************************************************************)
(* The operations: a sum over the parts, which the invariant follows part  *)
(* by part.                                                                *)
(***************************************************************************)

\* The leftovers of the operations.
OperationsRest == workload.dbOperations % threads

\* The leftovers go to the first threads, one each.
OperationsRestDealt ==
  leftOperations = IF idx < OperationsRest THEN OperationsRest - idx ELSE 0

\* What the first n operations of the parts add up to, as a function of n.
IsSum(f) ==
  f = [n \in 0..Len(parts) |-> IF n = 0 THEN 0 ELSE f[n - 1] + parts[n].operations]

\* The operations dealt so far: the share of each part and the leftovers that are
\* gone, or one for each part if there is no share.
OperationsDealt ==
  IF OperationsShare = 0 THEN idx ELSE idx * OperationsShare + (OperationsRest - leftOperations)

\* There is such a sum, and each ends with the operations dealt.
SumInv == /\ OperationsRestDealt
          /\ \E f : IsSum(f)
          /\ \A f : IsSum(f) => f[Len(parts)] = OperationsDealt

\* The share and the rest of the operations of the workload being split.
LEMMA OperationsType ==
  ASSUME TypeOK
  PROVE  /\ threads \in Nat /\ threads > 0 /\ idx \in Nat /\ leftOperations \in Nat
         /\ workload.dbOperations \in Nat
         /\ OperationsShare \in Nat /\ OperationsRest \in 0..(threads - 1)
         /\ threads * OperationsShare + OperationsRest = workload.dbOperations
<1>1. threads \in Nat /\ threads > 0 /\ idx \in Nat /\ leftOperations \in Nat
  BY SplitAssumption DEF TypeOK
<1>2. workload.dbOperations \in Nat
  BY SplitAssumption DEF TypeOK, Workload
<1> QED
  BY <1>1, <1>2, Division DEF OperationsShare, OperationsRest

\* The sum over no parts is 0.
LEMMA SumInit == Init => SumInv
<1> SUFFICES ASSUME Init PROVE SumInv
  OBVIOUS
<1>1. TypeOK
  BY LoopInit DEF LoopInv
<1>2. /\ OperationsRest \in Nat /\ OperationsShare \in Nat
      /\ leftOperations = OperationsRest /\ idx = 0 /\ Len(parts) = 0
  BY <1>1, OperationsType DEF Init, OperationsRest
<1> HIDE DEF OperationsRest, OperationsShare
<1>3. OperationsRestDealt
  BY <1>2 DEF OperationsRestDealt
<1>4. OperationsDealt = 0
  BY <1>2 DEF OperationsDealt
<1>5. IsSum([n \in 0..0 |-> 0])
  BY <1>2 DEF IsSum
<1>6. ASSUME NEW f, IsSum(f) PROVE f[Len(parts)] = OperationsDealt
  BY <1>2, <1>4, <1>6 DEF IsSum
<1> QED
  BY <1>3, <1>5, <1>6 DEF SumInv

\* The next part adds its operations to what is dealt.
LEMMA DealtStep ==
  ASSUME LoopInv, OperationsRestDealt, Deal
  PROVE  /\ OperationsRestDealt'
         /\ OperationsDealt' = OperationsDealt + NextPart.operations
         /\ NextPart.operations \in Nat /\ OperationsDealt \in Int
<1>1. /\ idx \in Nat /\ leftOperations \in Nat
      /\ OperationsRest \in Nat /\ OperationsShare \in Nat
  BY OperationsType DEF LoopInv
<1>2. /\ OperationsRest' = OperationsRest /\ OperationsShare' = OperationsShare
      /\ idx' = idx + 1 /\ leftOperations' = leftOperations - One(leftOperations > 0)
  BY DEF Deal, input, OperationsRest, OperationsShare
<1>3. NextPart.operations = Larger(1, OperationsShare + One(leftOperations > 0))
  BY DEF NextPart, OperationsShare
<1> HIDE DEF NextPart, OperationsRest, OperationsShare
<1>4. OperationsRestDealt'
  BY <1>1, <1>2 DEF OperationsRestDealt, One
<1>5. OperationsShare = 0 => NextPart.operations = 1
  BY <1>1, <1>3 DEF Larger, One
<1>6. OperationsShare # 0 => NextPart.operations = OperationsShare + One(leftOperations > 0)
  BY <1>1, <1>3 DEF Larger, One
<1>7. One(leftOperations > 0) \in Nat
  BY DEF One
<1>8. (idx + 1) * OperationsShare = idx * OperationsShare + OperationsShare
  BY <1>1
<1>9. idx * OperationsShare \in Nat
  BY <1>1
<1> QED
  BY <1>1, <1>2, <1>4, <1>5, <1>6, <1>7, <1>8, <1>9 DEF OperationsDealt

\* A sum over the parts dealt, and one over those and the next part.
LEMMA SumStep == LoopInv /\ SumInv /\ [Next]_vars => SumInv'
<1> SUFFICES ASSUME LoopInv, SumInv, [Next]_vars PROVE SumInv'
  OBVIOUS
<1>1. CASE Deal
  <2>1. /\ Len(parts) \in Nat /\ Len(parts') = Len(parts) + 1
        /\ \A i \in 1..Len(parts) : parts'[i] = parts[i]
        /\ parts'[Len(parts')] = NextPart
    BY <1>1, DealParts DEF LoopInv, TypeOK
  <2>2. /\ OperationsRestDealt'
        /\ OperationsDealt' = OperationsDealt + NextPart.operations
        /\ NextPart.operations \in Nat /\ OperationsDealt \in Int
    BY <1>1, DealtStep DEF SumInv
  <2> HIDE DEF NextPart
  <2>3. \E f : IsSum(f)'
    <3>1. PICK f : IsSum(f)
      BY DEF SumInv
    <3> DEFINE n2 == Len(parts) + 1
               g == [n \in 0..n2 |-> IF n = n2 THEN f[Len(parts)] + NextPart.operations
                                               ELSE f[n]]
    <3>2. g = [n \in 0..Len(parts') |->
                IF n = 0 THEN 0 ELSE g[n - 1] + parts'[n].operations]
      <4>1. ASSUME NEW n \in 0..n2
            PROVE  g[n] = IF n = 0 THEN 0 ELSE g[n - 1] + parts'[n].operations
        <5>1. CASE n = n2
          BY <2>1, <5>1
        <5>2. CASE n # n2
          <6>1. n \in 0..Len(parts) /\ g[n] = f[n]
            BY <2>1, <5>2
          <6>2. f[n] = IF n = 0 THEN 0 ELSE f[n - 1] + parts[n].operations
            BY <3>1, <6>1 DEF IsSum
          <6>3. n # 0 => g[n - 1] = f[n - 1] /\ parts'[n] = parts[n]
            BY <2>1, <6>1
          <6> QED
            BY <6>1, <6>2, <6>3
        <5> QED
          BY <5>1, <5>2
      <4> QED
        BY <2>1, <4>1
    <3> HIDE DEF g
    <3>3. PICK h : h = [n \in 0..Len(parts') |->
                         IF n = 0 THEN 0 ELSE h[n - 1] + parts'[n].operations]
      BY <3>2
    <3>4. IsSum(h)'
      BY <3>3 DEF IsSum
    <3> QED
      BY <3>4
  <2>4. ASSUME NEW f, IsSum(f)' PROVE f[Len(parts')] = OperationsDealt'
    <3> DEFINE g == [n \in 0..Len(parts) |-> f[n]]
    <3>1. f = [n \in 0..Len(parts') |-> IF n = 0 THEN 0 ELSE f[n - 1] + parts'[n].operations]
      BY <2>4 DEF IsSum
    <3>2. g = [n \in 0..Len(parts) |-> IF n = 0 THEN 0 ELSE g[n - 1] + parts[n].operations]
      <4>1. ASSUME NEW n \in 0..Len(parts)
            PROVE  g[n] = IF n = 0 THEN 0 ELSE g[n - 1] + parts[n].operations
        <5>1. f[n] = IF n = 0 THEN 0 ELSE f[n - 1] + parts'[n].operations
          BY <2>1, <3>1
        <5>2. n # 0 => g[n - 1] = f[n - 1] /\ parts'[n] = parts[n]
          BY <2>1
        <5> QED
          BY <5>1, <5>2
      <4> QED
        BY <4>1
    <3>3. g[Len(parts)] = f[Len(parts)]
      BY <2>1
    <3> HIDE DEF g
    <3>4. g[Len(parts)] = OperationsDealt
      BY <3>2 DEF SumInv, IsSum
    <3>5. f[Len(parts')] = f[Len(parts)] + NextPart.operations
      BY <2>1, <3>1
    <3> QED
      BY <2>2, <3>3, <3>4, <3>5
  <2> QED
    BY <2>2, <2>3, <2>4 DEF SumInv
<1>2. CASE UNCHANGED vars
  BY <1>2 DEF vars, SumInv, OperationsRestDealt, IsSum, OperationsDealt, OperationsRest,
              OperationsShare
<1> QED
  BY <1>1, <1>2 DEF Next, Terminated

\* split_workload_into_threads deals out all operations of the workload, and one
\* to each thread when there are fewer.
THEOREM OperationsAreShared == Spec => []OperationsShared
<1>1. LoopInv /\ SumInv => OperationsShared
  <2> SUFFICES ASSUME LoopInv, SumInv, idx = threads
               PROVE  OperationsOfAll = Larger(workload.dbOperations, threads)
    BY DEF OperationsShared
  <2>1. IsSum(OperationsOf)
    BY DEF SumInv, IsSum, OperationsOf
  <2>2. OperationsOfAll = OperationsDealt
    BY <2>1 DEF SumInv, OperationsOfAll
  <2>3. /\ threads \in Nat /\ threads > 0 /\ workload.dbOperations \in Nat
        /\ OperationsShare \in Nat /\ OperationsRest \in 0..(threads - 1)
        /\ threads * OperationsShare + OperationsRest = workload.dbOperations
    BY OperationsType DEF LoopInv
  <2>4. leftOperations = 0
    BY <2>3 DEF SumInv, OperationsRestDealt
  <2> HIDE DEF OperationsShare, OperationsRest
  <2>5. CASE OperationsShare = 0
    <3>1. OperationsDealt = threads /\ threads * OperationsShare = 0
      BY <2>3, <2>5 DEF OperationsDealt
    <3> QED
      BY <2>2, <2>3, <3>1 DEF Larger
  <2>6. CASE OperationsShare # 0
    <3>1. OperationsDealt = workload.dbOperations /\ threads * OperationsShare >= threads
      BY <2>3, <2>4, <2>6 DEF OperationsDealt
    <3> QED
      BY <2>2, <2>3, <3>1 DEF Larger
  <2> QED
    BY <2>5, <2>6
<1>2. Spec => []SumInv
  BY LoopInvariant, SumInit, SumStep, PTL DEF Spec
<1> QED
  BY <1>1, <1>2, LoopInvariant, PTL
=============================================================================
