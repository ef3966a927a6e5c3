------------------------------- MODULE RocksDB -------------------------------
(***************************************************************************)
(* rocksdb_t without transactions (src/src/rocksdb/rocksdb.hpp): the       *)
(* database interface on top of RocksDB, which is external: a store of     *)
(* byte strings in lexicographic order with atomic writes, batches,        *)
(* lookups and iterators, whose calls fail now and then when mayFail is    *)
(* set.                                                                    *)
(***************************************************************************)
EXTENDS Caller

VARIABLES
  buffer,          \* batch_keys of each thread, the memory key_slices points to
  full_compaction, \* full_compaction_
  unsettled        \* what a flush has to put in its place: "memtable",
                   \* "ingested" files, and pending "files" nobody removed

own  == <<buffer, full_compaction, unsettled>>
vars == <<mayFail, handle, workload, stage, call, reply, buffer, data,
          full_compaction, unsettled>>

\* to_slice: the key is turned round where it is, and that memory is the slice.
ToSlice(k) == Swap(k)

\* Seek(m), and Next up to length entries, in the engine's default order.
Iterated(m, length) == FirstBytes({n \in data : ~Before(n, m)}, length)

Init ==
  /\ CallerInit
  /\ buffer = [t \in Threads |-> << >>]
  /\ full_compaction = FALSE
  /\ unsettled = {}

Open ==
  /\ OpenDb
  /\ full_compaction' = FALSE
  /\ UNCHANGED <<buffer, data, unsettled>>

\* The result of the call of t; found are the keys of the entries, in memory.
Result(t, status, touched, found) ==
  Finish(t, status, touched, {Swap(m) : m \in found})

\* A write of the engine that puts or deletes, all or nothing.
Written(data2) ==
  /\ data' = data2
  /\ unsettled' = unsettled \cup {"memtable"}
NotWritten == mayFail /\ UNCHANGED <<data, unsettled>>

Slices(keys) == [i \in 1..Len(keys) |-> ToSlice(keys[i])]

Upsert(t) ==
  /\ Called(t, {"upsert"})
  /\ \/ /\ Written(data \cup {ToSlice(Key(t))})
        /\ Result(t, "ok", 1, {ToSlice(Key(t))})
     \/ /\ NotWritten
        /\ Result(t, "error", 0, {})
  /\ UNCHANGED <<store, call, buffer, full_compaction>>

\* update: a Get, with its own copy of the key since to_slice changes it.
UpdateGet(t) ==
  /\ Called(t, {"update"})
  /\ \/ /\ ToSlice(Key(t)) \in data
        /\ stage' = [stage EXCEPT ![t] = "put"]
        /\ UNCHANGED reply
     \/ /\ ToSlice(Key(t)) \notin data
        /\ Result(t, "not_found", 0, {})
     \/ /\ mayFail
        /\ Result(t, "error", 0, {})
  /\ UNCHANGED <<store, call, buffer, data, full_compaction, unsettled>>

\* Mistake: the Get and the Put turn round the same key.
UpdatePutSameKey(t) ==
  /\ stage[t] = "put"
  /\ Written(data \cup {ToSlice(ToSlice(Key(t)))})
  /\ Result(t, "ok", 1, {ToSlice(Key(t))})
  /\ UNCHANGED <<store, call, buffer, full_compaction>>

\* update: then a Put, with the other copy.
UpdatePut(t) ==
  /\ stage[t] = "put"
  /\ \/ /\ Written(data \cup {ToSlice(Key(t))})
        /\ Result(t, "ok", 1, {ToSlice(Key(t))})
     \/ /\ NotWritten
        /\ Result(t, "error", 0, {})
  /\ UNCHANGED <<store, call, buffer, full_compaction>>

\* RocksDB deletes without looking, so there is no key it does not find.
Remove(t) ==
  /\ Called(t, {"remove"})
  /\ \/ /\ Written(data \ {ToSlice(Key(t))})
        /\ Result(t, "ok", 1, {ToSlice(Key(t))})
     \/ /\ NotWritten
        /\ Result(t, "error", 0, {})
  /\ UNCHANGED <<store, call, buffer, full_compaction>>

Read(t) ==
  /\ Called(t, {"read"})
  /\ \/ /\ ToSlice(Key(t)) \in data
        /\ Result(t, "ok", 1, {ToSlice(Key(t))})
     \/ /\ ToSlice(Key(t)) \notin data
        /\ Result(t, "not_found", 0, {})
     \/ /\ mayFail
        /\ Result(t, "error", 0, {})
  /\ UNCHANGED <<store, call, buffer, data, full_compaction, unsettled>>

\* batch_upsert reports the size of the batch even if nothing was written.
BatchUpsert(t) ==
  /\ Called(t, {"batch_upsert"})
  /\ LET slices == Range(Slices(call[t].keys))
     IN  \/ /\ Written(data \cup slices)
            /\ Result(t, "ok", Size(t), slices)
         \/ /\ NotWritten
            /\ Result(t, "error", Size(t), {})
  /\ UNCHANGED <<store, call, buffer, full_compaction>>

\* batch_read: MultiGet looks up the whole buffer, and what it finds is copied
\* and counted.  A lookup that fails counts as a key that is not there.
BatchRead(t) ==
  /\ Called(t, {"batch_read"})
  /\ LET looked_up == Filled(buffer[t], Slices(call[t].keys))
         present == {i \in 1..Len(looked_up) : looked_up[i] \in data}
     IN  /\ buffer' = [buffer EXCEPT ![t] = looked_up]
         /\ \E hits \in IF mayFail THEN SUBSET present ELSE {present} :
              Result(t, "ok", Cardinality(hits), {looked_up[i] : i \in hits})
  /\ UNCHANGED <<store, call, data, full_compaction, unsettled>>

\* bulk_load: the keys go into a file, which takes them in ascending order only.
\* A file that can not be opened does not exist; one that fails later stays.
WriteFile(t) ==
  /\ Called(t, {"bulk_load"})
  /\ LET slices == Slices(call[t].keys)
         sorted == \A i \in 1..Size(t) - 1 : Before(slices[i], slices[i + 1])
     IN  \/ /\ sorted
            /\ stage' = [stage EXCEPT ![t] = "ingest"]
            /\ UNCHANGED <<reply, unsettled>>
         \/ /\ ~sorted \/ mayFail
            /\ Result(t, "error", 0, {})
            /\ unsettled' = unsettled \cup {"files"}
         \/ /\ mayFail
            /\ Result(t, "error", 0, {})
            /\ UNCHANGED unsettled
  /\ UNCHANGED <<store, call, buffer, data, full_compaction>>

\* Mistake: the flag for the compaction is not set.
IngestNoFlag(t) ==
  /\ stage[t] = "ingest"
  /\ LET slices == Range(Slices(call[t].keys))
     IN  /\ data' = data \cup slices
         /\ Result(t, "ok", Size(t), slices)
  /\ unsettled' = unsettled \cup {"ingested"}
  /\ UNCHANGED <<store, call, buffer, full_compaction>>

\* bulk_load: the file becomes one of the engine's, and is removed.
Ingest(t) ==
  /\ stage[t] = "ingest"
  /\ LET slices == Range(Slices(call[t].keys))
     IN  \/ /\ data' = data \cup slices
            /\ Result(t, "ok", Size(t), slices)
            /\ unsettled' = unsettled \cup {"ingested"}
            /\ full_compaction' = TRUE
         \/ /\ mayFail
            /\ Result(t, "error", 0, {})
            /\ UNCHANGED <<data, unsettled, full_compaction>>
  /\ UNCHANGED <<store, call, buffer>>

\* range_select and scan
Iterate(t) ==
  /\ Called(t, {"range_select", "scan"})
  /\ LET met == Iterated(ToSlice(Key(t)), call[t].length)
     IN  Result(t, "ok", Cardinality(met), met)
  /\ UNCHANGED <<store, call, buffer, data, full_compaction, unsettled>>

\* flush, which compacts if it has to.  Nobody looks at the outcome of either.
Flush ==
  /\ FlushDb
  /\ LET settled == {"memtable"} \cup IF full_compaction THEN {"ingested"} ELSE {}
     IN  \E done \in IF mayFail THEN SUBSET settled ELSE {settled} :
           unsettled' = unsettled \ done
  /\ UNCHANGED <<buffer, full_compaction>>

\* Mistake: close leaves the buffers of its thread, the main thread, alone.
CloseKeepBuffer ==
  /\ CloseDb
  /\ buffer' = [t \in Threads |-> IF t = Leader THEN buffer[t] ELSE << >>]
  /\ UNCHANGED <<stage, full_compaction, unsettled>>

\* close clears the buffers of its thread; the others are gone with theirs.
Close ==
  /\ CloseDb
  /\ buffer' = [t \in Threads |-> << >>]
  /\ UNCHANGED <<stage, full_compaction, unsettled>>

Step(t) ==
  \/ (Invoke(t) \/ Return(t)) /\ UNCHANGED own
  \/ Upsert(t) \/ UpdateGet(t) \/ UpdatePut(t) \/ Remove(t) \/ Read(t)
  \/ BatchUpsert(t) \/ BatchRead(t)
  \/ WriteFile(t) \/ Ingest(t)
  \/ Iterate(t)

Next == Open \/ Flush \/ Close \/ \E t \in Threads : Step(t)

Spec == Init /\ [][Next]_vars

-----------------------------------------------------------------------------
Slice == {ToSlice(k) : k \in Keys}

TypeOK ==
  /\ mayFail \in BOOLEAN /\ full_compaction \in BOOLEAN
  /\ handle \in {"closed", "open", "flushed"}
  /\ workload \in Workloads
  /\ stage \in [Threads -> {"idle", "called", "put", "ingest", "done"}]
  /\ data \subseteq Slice
  /\ unsettled \subseteq {"memtable", "ingested", "files"}
  /\ \A t \in Threads : Range(buffer[t]) \subseteq Slice
  /\ \A t \in Threads : reply[t].touched \in Nat /\ reply[t].found \subseteq Keys

Accessor == INSTANCE DataAccessor WITH
  loose <- {}, lossy <- {},
  db    <- {Swap(m) : m \in data},
  stage <- [t \in Threads |-> IF stage[t] \in {"put", "ingest"} THEN "called"
                                                                ELSE stage[t]]

\* The workloads of every size in bench/workloads: the batches of reads of one
\* have one size, and none mixes updates with removals, as the template
\* example.json does.
ShippedMixes ==
  \A w \in Workloads : /\ "batch_read" \in w.kinds => \A m, n \in w.lengths : m = n
                       /\ "update" \notin w.kinds \/ "remove" \notin w.kinds

\* Every call takes effect at one moment and does and reports what the interface
\* promises: bytes turned round once, in the engine's order as the keys are in
\* theirs, an update only of a key that is there when it is written.  (Of
\* workloads with ShippedMixes.)
ImplementsDataAccessor == Accessor!Spec

\* The values that are copied to the caller fit its buffers, which are made for
\* the longest batch of the workload (worker.hpp:103-112), although batch_read
\* copies the values of its whole buffer and the main thread performs workloads
\* of different sizes.
ValuesFit ==
  \A t \in Threads : stage[t] = "done" /\ call[t].kind \in {"batch_read", "range_select"}
                       => reply[t].touched <= Max(workload.lengths)

\* After the flush, and so when the size on disk is reported (bench.cxx:468),
\* nothing is in memory only, what was ingested is compacted, and no file of a
\* bulk load is left over, unless the engine failed.
FlushSettles == handle = "flushed" /\ ~mayFail => unsettled = {}

\* A batch of reads touches no more entries than the batch has.
BatchReadTouchesBatch ==
  \A t \in Threads : stage[t] = "done" /\ call[t].kind = "batch_read"
                       => reply[t].touched <= Len(call[t].keys)
=============================================================================
