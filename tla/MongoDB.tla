------------------------------- MODULE MongoDB -------------------------------
(***************************************************************************)
(* mongodb_t (src/src/mongodb/mongodb.hpp).  The server and its driver are *)
(* external: a collection of documents in the order of the bytes of their  *)
(* identifiers, which end with the bytes of the key in memory, reached by  *)
(* clients of a pool.  acquire() waits for a client, which goes back to    *)
(* the pool at the end of the call.  What fails throws, and nobody catches *)
(* what a call throws: the program ends.                                   *)
(***************************************************************************)
EXTENDS Caller

CONSTANT PoolSize   \* maxPoolSize

VARIABLES
  acquired,     \* the threads with a client
  batch_keys    \* of each thread, the keys in batch_keys_array and batch_keys_map

own  == <<acquired, batch_keys>>
vars == <<mayFail, handle, workload, stage, call, reply, data, acquired, batch_keys>>

Init ==
  /\ CallerInit
  /\ acquired = {}
  /\ batch_keys = [t \in Threads |-> {}]

\* open starts the server and makes the pool.
Open == OpenDb /\ UNCHANGED <<data, own>>

\* batch_read takes down its keys before it waits for a client.
Acquire(t) ==
  /\ Called(t, workload.kinds)
  /\ Cardinality(acquired) < PoolSize
  /\ acquired' = acquired \cup {t}
  /\ batch_keys' = IF call[t].kind = "batch_read"
                     THEN [batch_keys EXCEPT ![t] = @ \cup KeysOf(t)] ELSE batch_keys
  /\ GoTo(t, "begun")
  /\ UNCHANGED <<store, call, reply, data>>

Release(t) == acquired' = acquired \ {t} /\ UNCHANGED <<store, call>>

\* upsert and update: update_one with upsert(true) creates a document that is
\* not there, and reports those that were and are modified.
Upsert(t) ==
  /\ At(t, "begun", {"upsert", "update"})
  /\ data' = data \cup KeysOf(t)
  /\ \/ Key(t) \in data /\ Touch(t, KeysOf(t))
     \/ Key(t) \notin data /\ Reject(t, "error")
  /\ Release(t) /\ UNCHANGED batch_keys

Remove(t) ==
  /\ At(t, "begun", {"remove"})
  /\ data' = data \ KeysOf(t)
  /\ \/ Key(t) \in data /\ Touch(t, KeysOf(t))
     \/ Key(t) \notin data /\ Reject(t, "not_found")
  /\ Release(t) /\ UNCHANGED batch_keys

Read(t) ==
  /\ At(t, "begun", {"read"})
  /\ \/ Key(t) \in data /\ Touch(t, KeysOf(t))
     \/ Key(t) \notin data /\ Reject(t, "not_found")
  /\ Release(t) /\ UNCHANGED <<data, batch_keys>>

\* batch_upsert counts the documents that were there.
BatchUpsert(t) ==
  /\ At(t, "begun", {"batch_upsert"})
  /\ data' = data \cup KeysOf(t)
  /\ \/ KeysOf(t) \subseteq data /\ Touch(t, KeysOf(t))
     \/ ~(KeysOf(t) \subseteq data) /\ Reject(t, "error")
  /\ Release(t) /\ UNCHANGED batch_keys

\* bulk_load inserts, which throws if a document is there.
BulkLoad(t) ==
  /\ At(t, "begun", {"bulk_load"})
  /\ KeysOf(t) \cap data = {}
  /\ data' = data \cup KeysOf(t) /\ Touch(t, KeysOf(t))
  /\ Release(t) /\ UNCHANGED batch_keys

\* batch_read: all the documents, or an error.
BatchRead(t) ==
  /\ At(t, "begun", {"batch_read"})
  /\ IF Cardinality(batch_keys[t] \cap data) = Size(t)
       THEN Touch(t, KeysOf(t)) ELSE Reject(t, "error")
  /\ batch_keys' = [batch_keys EXCEPT ![t] = {}]
  /\ Release(t) /\ UNCHANGED data

\* range_select: up to length documents after the key.
RangeSelect(t) ==
  /\ At(t, "begun", {"range_select"})
  /\ LET met == FirstBytes({n \in data : Before(Key(t), n)}, Length(t))
     IN  IF met = {} THEN Reject(t, "error") ELSE Touch(t, met)
  /\ Release(t) /\ UNCHANGED <<data, batch_keys>>

\* scan: the first documents of the collection, whatever the key.  If there are
\* more than length, the last test of the loop counts one that is not read.
Scan(t) ==
  /\ At(t, "begun", {"scan"})
  /\ LET met == FirstBytes(data, Length(t))
     IN  Finish(t, "ok", IF Cardinality(data) > Length(t) THEN Length(t) + 1
                                                         ELSE Cardinality(data), met)
  /\ Release(t) /\ UNCHANGED <<data, batch_keys>>

\* A call throws: what fails, or a load of a document that is there.  Ordered
\* bulk writes may have done a part.
Throw(t) ==
  /\ stage[t] = "begun"
  /\ mayFail \/ (call[t].kind = "bulk_load" /\ KeysOf(t) \cap data # {})
  /\ \E part \in IF call[t].kind \in {"batch_upsert", "bulk_load"} THEN SUBSET KeysOf(t)
                                                                 ELSE {{}} :
       EndProgram(data \cup part)
  /\ acquired' = {} /\ batch_keys' = [u \in Threads |-> {}]

\* close clears the keys of the leader's last batch, and stops the server.
Flush == FlushDb /\ UNCHANGED own
Close ==
  /\ CloseDb
  /\ batch_keys' = [t \in Threads |-> {}]
  /\ UNCHANGED <<stage, acquired>>

Progress(t) ==
  \/ Acquire(t) \/ Throw(t)
  \/ Upsert(t) \/ Remove(t) \/ Read(t) \/ BatchUpsert(t) \/ BulkLoad(t)
  \/ BatchRead(t) \/ RangeSelect(t) \/ Scan(t)
  \/ Return(t) /\ UNCHANGED own

Next == Open \/ Flush \/ Close
          \/ \E t \in Threads : Progress(t) \/ (Invoke(t) /\ UNCHANGED own)
=============================================================================
