---------------------------- MODULE WorkloadSplit ----------------------------
(***************************************************************************)
(* split_workload_into_threads (src/src/bench.cxx): how the records, the   *)
(* operations and the keys of a workload are dealt out to the threads, one *)
(* thread per turn of the loop.  The workload is any one that              *)
(* validate_workload lets through; a proportion is only told apart as      *)
(* none, some or all (1.0) of the operations.                              *)
(***************************************************************************)
EXTENDS Integers, Sequences

CONSTANTS
  MaxThreads, MaxRecords, MaxOperations, MaxLength, MaxKey  \* bounds of the inputs

ASSUME SplitAssumption ==
  /\ MaxThreads \in Nat /\ MaxRecords \in Nat /\ MaxOperations \in Nat
  /\ MaxLength \in Nat /\ MaxKey \in Nat

VARIABLES
  workload,    \* the workload that is split
  threads,     \* threads_count
  idx,         \* how many threads have got their part
  startKey,    \* the first key of the next part
  leftRecords, leftOperations,  \* the leftovers not dealt yet
  parts        \* the parts dealt so far, parts[i] for the thread i - 1

input == <<workload, threads>>
vars  == <<workload, threads, idx, startKey, leftRecords, leftOperations, parts>>

Proportion == {"none", "some", "all"}

Workload ==
  [dbRecords : 1..MaxRecords, dbOperations : 1..MaxOperations, start : 0..MaxKey,
   upsert : Proportion, batchUpsert : Proportion, bulkLoad : Proportion,
   batchLength : 0..MaxLength, bulkLength : 0..MaxLength]

Part == [records : Nat, operations : Nat, start : Nat]

\* The kinds of insertions a workload is made of.
Inserts(w) == {f \in {"upsert", "batchUpsert", "bulkLoad"} : w[f] # "none"}

\* The asserts on the fields modelled here: proportions add up to at most one,
\* and batches fit the records of a thread.
Valid(w, n) ==
  /\ \A f \in Inserts(w) : w[f] = "all" => Inserts(w) = {f}
  /\ w.batchUpsert # "none" => w.batchLength > 0
  /\ w.bulkLoad # "none" => w.bulkLength > 0
  /\ w.batchLength <= w.dbRecords \div n
  /\ w.bulkLength <= w.dbRecords \div n

\* Every operation inserts, and with one kind of insertion.
PureInsert(w) == "all" \in {w.upsert, w.batchUpsert, w.bulkLoad}

One(condition) == IF condition THEN 1 ELSE 0

Larger(a, b) == IF a >= b THEN a ELSE b

\* Mistake: a batch is counted as one key.
NewRecordsOneEach(w, n) == n

\* new_records_count: the most keys that n operations of w can insert.
NewRecords(w, n) == One(w.upsert # "none") * n
                    + One(w.bulkLoad # "none") * n * w.bulkLength
                    + One(w.batchUpsert # "none") * n * w.batchLength

Init ==
  /\ threads \in 1..MaxThreads
  /\ workload \in Workload
  /\ Valid(workload, threads)
  /\ idx = 0
  /\ startKey = workload.start
  /\ leftRecords = workload.dbRecords % threads
  /\ leftOperations = workload.dbOperations % threads
  /\ parts = << >>

\* Mistakes: every thread gets one of the leftovers; or the first one gets all
\* of them; or no thread gets any.
NextPartWith(extraRecords, extraOperations) ==
  [records    |-> workload.dbRecords \div threads + extraRecords,
   operations |-> Larger(1, workload.dbOperations \div threads + extraOperations),
   start      |-> startKey]
NextPartRoundedUp  == NextPartWith(1, 1)
NextPartFirstMore  == NextPartWith(leftRecords * One(idx = 0), leftOperations * One(idx = 0))
NextPartWithoutRest == NextPartWith(0, 0)

\* The part of the next thread: an equal share, one of the leftovers while
\* there are any, and at least one operation.
NextPart ==
  [records    |-> workload.dbRecords \div threads + One(leftRecords > 0),
   operations |-> Larger(1, workload.dbOperations \div threads + One(leftOperations > 0)),
   start      |-> startKey]

\* How far a part takes the first key of the next one.
Span(part) == IF PureInsert(workload) THEN NewRecords(workload, part.operations)
                                      ELSE part.records

\* Mistake: the leftovers are decremented even when there are none.
DealBelowZero == /\ idx < threads
                 /\ parts' = Append(parts, NextPart)
                 /\ leftRecords'    = leftRecords - 1
                 /\ leftOperations' = leftOperations - 1
                 /\ startKey' = startKey + Span(NextPart)
                 /\ idx' = idx + 1
                 /\ UNCHANGED input

Deal == /\ idx < threads
        /\ parts' = Append(parts, NextPart)
        /\ leftRecords'    = leftRecords - One(leftRecords > 0)
        /\ leftOperations' = leftOperations - One(leftOperations > 0)
        /\ startKey' = startKey + Span(NextPart)
        /\ idx' = idx + 1
        /\ UNCHANGED input

Terminated == idx = threads /\ UNCHANGED vars

Next == Deal \/ Terminated

Spec == Init /\ [][Next]_vars
-----------------------------------------------------------------------------
TypeOK == /\ workload \in Workload
          /\ threads \in 1..MaxThreads
          /\ idx \in 0..threads
          /\ startKey \in Nat
          /\ leftRecords \in Nat /\ leftOperations \in Nat
          /\ parts \in Seq(Part)
          /\ Len(parts) = idx

\* The keys of different threads never meet: those it inserts with all of its
\* operations when the workload only inserts, those of its records otherwise.
\* An operation inserts as many keys as its longest batch, or one.
KeysPerOperation(w) == CASE w.upsert = "all"      -> 1
                         [] w.batchUpsert = "all" -> w.batchLength
                         [] w.bulkLoad = "all"    -> w.bulkLength
KeysOf(part) == IF PureInsert(workload)
                THEN part.operations * KeysPerOperation(workload)
                ELSE part.records
DisjointKeys == \A i, j \in 1..Len(parts) :
                  i < j => parts[i].start + KeysOf(parts[i]) <= parts[j].start

\* All records are dealt out: the parts of a workload that works on its records
\* end where its records end.
RecordsCovered == idx = threads /\ ~PureInsert(workload)
                    => startKey = workload.start + workload.dbRecords

\* No thread gets more than one record or operation more than another.
Even == \A i, j \in 1..Len(parts) :
          /\ parts[i].records    <= parts[j].records + 1
          /\ parts[i].operations <= parts[j].operations + 1

\* The operations of the first n parts together.
OperationsOf[n \in 0..Len(parts)] ==
  IF n = 0 THEN 0 ELSE OperationsOf[n - 1] + parts[n].operations

OperationsOfAll == OperationsOf[Len(parts)]

\* The threads together perform the operations of the workload, or one each
\* when there are fewer operations than threads.
OperationsShared == idx = threads => OperationsOfAll = Larger(workload.dbOperations, threads)
=============================================================================
