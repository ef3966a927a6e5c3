------------------------------- MODULE LevelDB -------------------------------
(***************************************************************************)
(* leveldb_t (src/src/leveldb/leveldb.hpp).  LevelDB is external: a store  *)
(* of byte strings with atomic writes, batches and lookups.  The adapter   *)
(* does not install its comparator (line 147), so that entries are in the  *)
(* order of their bytes.                                                   *)
(***************************************************************************)
EXTENDS Caller

vars == common

Init == CallerInit
Open == OpenDb /\ UNCHANGED data

\* Put, Delete or Write of a batch: keys are those of the entries it touches.
Write(t, data2, keys) == data' = data2 /\ Touch(t, keys)

Upsert(t) ==
  /\ Called(t, {"upsert"}) \/ stage[t] = "put"
  /\ Write(t, data \cup KeysOf(t), KeysOf(t)) \/ Broken(t, "error")
  /\ UNCHANGED <<store, call>>

\* update: a Get, and a Put when it has found the key.
UpdateGet(t) ==
  /\ Called(t, {"update"})
  /\ \/ Key(t) \in data /\ GoTo(t, "put") /\ UNCHANGED <<reply, data>>
     \/ Key(t) \notin data /\ Reject(t, "not_found") /\ UNCHANGED data
     \/ Broken(t, "error")
  /\ UNCHANGED <<store, call>>

Remove(t) ==
  /\ Called(t, {"remove"})
  /\ Write(t, data \ KeysOf(t), KeysOf(t)) \/ Broken(t, "error")
  /\ UNCHANGED <<store, call>>

Read(t) ==
  /\ Called(t, {"read"})
  /\ \/ Key(t) \in data /\ Touch(t, KeysOf(t)) /\ UNCHANGED data
     \/ Key(t) \notin data /\ Reject(t, "not_found") /\ UNCHANGED data
     \/ Broken(t, "error")
  /\ UNCHANGED <<store, call>>

\* batch_upsert, which bulk_load calls: one WriteBatch, whose size is reported
\* even if it was not written.
BatchUpsert(t) ==
  /\ Called(t, {"batch_upsert", "bulk_load"})
  /\ \/ Write(t, data \cup KeysOf(t), KeysOf(t))
     \/ mayFail /\ Finish(t, "error", Size(t), {}) /\ UNCHANGED data
  /\ UNCHANGED <<store, call>>

\* batch_read: a Get for each key; one that fails counts as not found.  No
\* workload writes while it reads in batches, so the loop is one step.
BatchRead(t) ==
  /\ Called(t, {"batch_read"})
  /\ \E hits \in IF mayFail THEN SUBSET KeysOf(t) ELSE {KeysOf(t)} : Touch(t, hits \cap data)
  /\ UNCHANGED <<store, call, data>>

\* range_select and scan: Seek, and Next up to length entries.
Iterate(t) ==
  /\ Called(t, {"range_select", "scan"})
  /\ Touch(t, FirstBytes({n \in data : ~Before(n, Key(t))}, Length(t)))
  /\ UNCHANGED <<store, call, data>>

\* flush does nothing; close frees the engine.
Flush == FlushDb
Close == CloseDb /\ UNCHANGED stage

Progress(t) == \/ Upsert(t) \/ UpdateGet(t) \/ Remove(t) \/ Read(t)
               \/ BatchUpsert(t) \/ BatchRead(t) \/ Iterate(t) \/ Return(t)

Next == Open \/ Flush \/ Close \/ \E t \in Threads : Invoke(t) \/ Progress(t)
=============================================================================
