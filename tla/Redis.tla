--------------------------------- MODULE Redis ---------------------------------
(***************************************************************************)
(* redis_t (src/src/redis/redis.hpp).  The server and its client are       *)
(* external: the fields of one hash, each command of which is one step.    *)
(* What fails throws, and nobody catches it: the program ends.  The server *)
(* runs until the adapter is destroyed, so closing it does nothing, and    *)
(* opening it again neither.                                               *)
(***************************************************************************)
EXTENDS Caller

vars == common

Init == CallerInit
Open == OpenDb /\ UNCHANGED data

\* hset says whether the field is new.
Upsert(t) ==
  /\ Called(t, {"upsert"})
  /\ data' = data \cup KeysOf(t)
  /\ \/ Key(t) \notin data /\ Touch(t, KeysOf(t))
     \/ Key(t) \in data /\ Reject(t, "error")
  /\ UNCHANGED <<store, call>>

Update(t) ==
  /\ Called(t, {"update"})
  /\ data' = data \cup KeysOf(t)
  /\ \/ Key(t) \notin data /\ Touch(t, KeysOf(t))
     \/ Key(t) \in data /\ Reject(t, "not_found")
  /\ UNCHANGED <<store, call>>

Remove(t) ==
  /\ Called(t, {"remove"})
  /\ data' = data \ KeysOf(t)
  /\ \/ Key(t) \in data /\ Touch(t, KeysOf(t))
     \/ Key(t) \notin data /\ Reject(t, "not_found")
  /\ UNCHANGED <<store, call>>

Read(t) ==
  /\ Called(t, {"read"})
  /\ \/ Key(t) \in data /\ Touch(t, KeysOf(t))
     \/ Key(t) \notin data /\ Reject(t, "not_found")
  /\ UNCHANGED <<store, call, data>>

\* hmset
BatchUpsert(t) ==
  /\ Called(t, {"batch_upsert"})
  /\ data' = data \cup KeysOf(t) /\ Touch(t, KeysOf(t))
  /\ UNCHANGED <<store, call>>

\* bulk_load: hset in a pipeline, and the fields that are new are counted.
BulkLoad(t) ==
  /\ Called(t, {"bulk_load"})
  /\ data' = data \cup KeysOf(t) /\ Touch(t, KeysOf(t) \ data)
  /\ UNCHANGED <<store, call>>

\* hmget
BatchRead(t) ==
  /\ Called(t, {"batch_read"})
  /\ IF KeysOf(t) \cap data = {} THEN Reject(t, "error") ELSE Touch(t, KeysOf(t) \cap data)
  /\ UNCHANGED <<store, call, data>>

RangeSelect(t) ==
  /\ Called(t, {"range_select", "scan"})
  /\ Reject(t, "not_implemented")
  /\ UNCHANGED <<store, call, data>>

\* A command throws; a pipeline may have done a part.
Throw(t) ==
  /\ mayFail /\ Called(t, workload.kinds \ {"range_select", "scan"})
  /\ \E part \in IF call[t].kind = "bulk_load" THEN SUBSET KeysOf(t) ELSE {{}} :
       EndProgram(data \cup part)

Flush == FlushDb
Close == CloseDb /\ UNCHANGED stage

Progress(t) == \/ Upsert(t) \/ Update(t) \/ Remove(t) \/ Read(t) \/ BatchUpsert(t)
               \/ BulkLoad(t) \/ BatchRead(t) \/ RangeSelect(t) \/ Throw(t) \/ Return(t)

Next == Open \/ Flush \/ Close \/ \E t \in Threads : Invoke(t) \/ Progress(t)
=============================================================================
