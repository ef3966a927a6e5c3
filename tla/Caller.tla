-------------------------------- MODULE Caller --------------------------------
(***************************************************************************)
(* What all databases have in common: a process runs one workload after    *)
(* the other on the interface of src/src/core/db.hpp and data_accessor.hpp *)
(* (bench in src/src/bench.cxx).  The leader, which is the main thread in  *)
(* all workloads, opens the database, the threads of the workload call it  *)
(* until the last of them flushes it, and the leader closes it.  Each      *)
(* adapter extends this module with what its calls do.                     *)
(*                                                                         *)
(* A key has two bytes here.  An integer is stored in memory with its low  *)
(* byte first, so an engine that compares bytes sorts the memory m as the  *)
(* integer Swap(m).                                                        *)
(***************************************************************************)
EXTENDS Integers, FiniteSets, Functions, Sequences, FiniteSetsExt

CONSTANTS
  Threads,
  Leader,     \* thread 0, which is the main thread
  Base,       \* the values of a byte
  Keys,       \* the keys the workloads use
  Workloads   \* records: threads, those that take part, kinds, the operations
              \* mixed, and lengths, those of their batches and ranges

CallKinds == {"upsert", "update", "remove", "read", "batch_upsert", "batch_read",
              "bulk_load", "range_select", "scan"}

ASSUME CallerAssumption ==
  /\ Leader \in Threads /\ IsFiniteSet(Threads)
  /\ Base \in Nat \ {0} /\ Keys \subseteq 0 .. Base * Base - 1
  /\ \A w \in Workloads : /\ Leader \in w.threads /\ w.threads \subseteq Threads
                          /\ w.lengths # {} /\ IsFiniteSet(w.lengths)
                          /\ w.lengths \subseteq Nat \ {0}
                          /\ w.kinds \subseteq CallKinds

VARIABLES
  mayFail,    \* whether calls of the engine fail now and then
  handle,     \* the database: "closed", "open", or "flushed" after the last call
  workload,   \* the workload that runs
  stage,      \* where each thread is in its call
  call,       \* the call of each thread: [kind, keys, length]
  reply,      \* its operation_result_t, and the keys of the values copied
  data        \* the keys in the engine, as they are in memory

store == <<mayFail, handle, workload>>
common == <<mayFail, handle, workload, stage, call, reply, data>>

Swap(m) == (m % Base) * Base + m \div Base

\* The order of memory, byte by byte.
Before(m, n) == Swap(m) < Swap(n)

\* The first entries of a set in the order of bytes, or of integers.
FirstBytes(s, length)   == {n \in s : Cardinality({j \in s : Before(j, n)}) < length}
FirstNumbers(s, length) == {n \in s : Cardinality({j \in s : j < n}) < length}

NoCall   == [kind |-> "none", keys |-> << >>, length |-> 0]
NoAnswer == [status |-> "none", touched |-> 0, found |-> {}]

NoThreadCalls ==
  /\ stage' = [t \in Threads |-> "idle"]
  /\ call'  = [t \in Threads |-> NoCall]
  /\ reply' = [t \in Threads |-> NoAnswer]

CallerInit ==
  /\ mayFail \in BOOLEAN
  /\ handle = "closed"
  /\ workload \in Workloads
  /\ stage = [t \in Threads |-> "idle"]
  /\ call  = [t \in Threads |-> NoCall]
  /\ reply = [t \in Threads |-> NoAnswer]
  /\ data = {}

\* The next workload opens the database.  The driver ends if it does not open.
OpenDb ==
  /\ handle = "closed"
  /\ handle' = "open"
  /\ workload' \in Workloads
  /\ UNCHANGED <<mayFail, stage, call, reply>>

\* The calls of a workload: one key, a batch of different keys, which are in
\* ascending order unless they are read, or a key and a length.
Ascending(keys) == \A i, j \in 1..Len(keys) : i < j => keys[i] < keys[j]
Batches(n)      == {keys \in [1..n -> Keys] : IsInjective(keys)}
CallsOf(kind, lengths) ==
  CASE kind \in {"upsert", "update", "remove", "read"} ->
         [kind : {kind}, keys : Batches(1), length : {1}]
    [] kind = "batch_read" ->
         UNION {[kind : {kind}, keys : Batches(n), length : {n}] : n \in lengths}
    [] kind \in {"batch_upsert", "bulk_load"} ->
         UNION {[kind : {kind}, keys : {keys \in Batches(n) : Ascending(keys)},
                 length : {n}] : n \in lengths}
    [] kind \in {"range_select", "scan"} ->
         [kind : {kind}, keys : Batches(1), length : lengths]

Invoke(t) ==
  /\ handle = "open" /\ stage[t] = "idle" /\ t \in workload.threads
  /\ \E kind \in workload.kinds : \E c \in CallsOf(kind, workload.lengths) :
       call' = [call EXCEPT ![t] = c]
  /\ stage' = [stage EXCEPT ![t] = "called"]
  /\ UNCHANGED <<store, reply, data>>

At(t, place, kinds) == stage[t] = place /\ call[t].kind \in kinds
Called(t, kinds)    == At(t, "called", kinds)
GoTo(t, place)      == stage' = [stage EXCEPT ![t] = place]

Key(t)     == call[t].keys[1]
KeysOf(t)  == Range(call[t].keys)
Size(t)    == Len(call[t].keys)
Length(t)  == call[t].length

\* The result of the call of t.
Finish(t, status, touched, found) ==
  /\ reply' = [reply EXCEPT ![t] = [status |-> status, touched |-> touched,
                                    found |-> found]]
  /\ stage' = [stage EXCEPT ![t] = "done"]

Touch(t, found) == Finish(t, "ok", Cardinality(found), found)
Reject(t, status) == Finish(t, status, 0, {})

\* The engine fails, and the call with it.
Broken(t, status) == mayFail /\ Reject(t, status) /\ UNCHANGED data

\* The worker takes the result.
Return(t) ==
  /\ stage[t] = "done"
  /\ stage' = [stage EXCEPT ![t] = "idle"]
  /\ call'  = [call EXCEPT ![t] = NoCall]
  /\ reply' = [reply EXCEPT ![t] = NoAnswer]
  /\ UNCHANGED <<store, data>>

\* A buffer that grows to the largest batch so far; a smaller one fills its front.
Filled(old, new) == [i \in 1..Max({Len(new), Len(old)}) |->
                       IF i <= Len(new) THEN new[i] ELSE old[i]]

\* The thread that did the last operation flushes.
FlushDb ==
  /\ handle = "open"
  /\ \A t \in Threads : stage[t] = "idle"
  /\ handle' = "flushed"
  /\ UNCHANGED <<mayFail, workload, stage, call, reply, data>>

\* The leader closes the database.  The other threads have ended by the time
\* the next workload begins, and their thread-local variables with them.
CloseDb ==
  /\ handle = "flushed"
  /\ handle' = "closed"
  /\ UNCHANGED <<mayFail, workload, call, reply, data>>

\* An exception that nobody catches in a call ends the program, with what the
\* call has done, and the next workload begins in a new process.
EndProgram(data2) ==
  /\ handle' = "closed"
  /\ data' = data2
  /\ NoThreadCalls
  /\ UNCHANGED <<mayFail, workload>>
=============================================================================
