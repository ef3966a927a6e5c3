--------------------------------- MODULE LMDB ---------------------------------
(***************************************************************************)
(* lmdb_t (src/src/lmdb/lmdb.hpp).  LMDB is external: a store of byte      *)
(* strings in the order of their bytes (the adapter does not install its   *)
(* comparator), read and written in transactions.  Transactions that may   *)
(* write exclude each other: mdb_txn_begin waits for the one that is open, *)
(* until that one is committed or aborted.  Readers do not wait.           *)
(***************************************************************************)
EXTENDS Caller

VARIABLE writer   \* the threads with a transaction that may write: one at most

vars == <<mayFail, handle, workload, stage, call, reply, data, writer>>

Init == CallerInit /\ writer = {}
Open == OpenDb /\ UNCHANGED <<data, writer>>

\* The calls that begin a transaction without MDB_RDONLY: ranges and scans, too,
\* although they only read.
Writing == {"upsert", "remove", "batch_upsert", "bulk_load", "range_select", "scan"}

\* Mistake: the environment is opened with MDB_NOLOCK, and nobody waits.
BeginAtOnce(t) ==
  /\ Called(t, Writing)
  /\ writer' = writer \cup {t} /\ GoTo(t, "begun")
  /\ UNCHANGED <<store, call, reply, data>>

\* mdb_txn_begin
Begin(t) ==
  /\ Called(t, Writing)
  /\ \/ writer = {} /\ writer' = {t} /\ GoTo(t, "begun") /\ UNCHANGED <<reply, data>>
     \/ Broken(t, "error") /\ UNCHANGED writer
  /\ UNCHANGED <<store, call>>

End(t) == writer' = writer \ {t} /\ UNCHANGED <<store, call>>

Upsert(t) ==
  /\ At(t, "begun", {"upsert"})
  /\ \/ data' = data \cup KeysOf(t) /\ Touch(t, KeysOf(t))
     \/ Broken(t, "error")
  /\ End(t)

\* update: mdb_put in a transaction that was begun with MDB_RDONLY is refused.
Update(t) ==
  /\ Called(t, {"update"})
  /\ \/ Key(t) \in data /\ Reject(t, "error")
     \/ Key(t) \notin data /\ Reject(t, "not_found")
     \/ mayFail /\ \E status \in {"error", "not_found"} : Reject(t, status)
  /\ UNCHANGED <<store, call, data, writer>>

\* Whatever makes mdb_del fail is reported as a key that is not there.
Remove(t) ==
  /\ At(t, "begun", {"remove"})
  /\ \/ Key(t) \in data /\ data' = data \ KeysOf(t) /\ Touch(t, KeysOf(t))
     \/ Key(t) \notin data /\ Reject(t, "not_found") /\ UNCHANGED data
     \/ \E status \in {"error", "not_found"} : Broken(t, status)
  /\ End(t)

Read(t) ==
  /\ Called(t, {"read"})
  /\ \/ Key(t) \in data /\ Touch(t, KeysOf(t))
     \/ Key(t) \notin data /\ Reject(t, "not_found")
     \/ mayFail /\ \E status \in {"error", "not_found"} : Reject(t, status)
  /\ UNCHANGED <<store, call, data, writer>>

\* batch_upsert, which bulk_load calls: a put that fails aborts, and a commit
\* that fails is reported with the size of the batch.
BatchUpsert(t) ==
  /\ At(t, "begun", {"batch_upsert", "bulk_load"})
  /\ \/ data' = data \cup KeysOf(t) /\ Touch(t, KeysOf(t))
     \/ Broken(t, "error")
     \/ mayFail /\ Finish(t, "error", Size(t), {}) /\ UNCHANGED data
  /\ End(t)

BatchRead(t) ==
  /\ Called(t, {"batch_read"})
  /\ \/ \E hits \in IF mayFail THEN SUBSET KeysOf(t) ELSE {KeysOf(t)} :
          Touch(t, hits \cap data)
     \/ mayFail /\ Reject(t, "error")
  /\ UNCHANGED <<store, call, data, writer>>

\* Mistake: the transaction of a key that is not there is not aborted.
IterateKeepTxn(t) ==
  /\ At(t, "begun", {"range_select", "scan"})
  /\ \/ /\ Key(t) \in data
        /\ Touch(t, FirstBytes({n \in data : ~Before(n, Key(t))}, Length(t)))
        /\ End(t)
     \/ Key(t) \notin data /\ Reject(t, "not_found") /\ UNCHANGED <<store, call, writer>>
  /\ UNCHANGED data

\* range_select and scan: MDB_SET finds the very key, or nothing; then MDB_NEXT
\* up to length entries.  Both abort in the end.
Iterate(t) ==
  /\ At(t, "begun", {"range_select", "scan"})
  /\ \/ /\ Key(t) \in data /\ UNCHANGED data
        /\ Touch(t, FirstBytes({n \in data : ~Before(n, Key(t))}, Length(t)))
     \/ Key(t) \notin data /\ Reject(t, "not_found") /\ UNCHANGED data
     \/ \E status \in {"error", "not_found"} : Broken(t, status)
  /\ End(t)

Flush == FlushDb /\ UNCHANGED writer
Close == CloseDb /\ UNCHANGED <<stage, writer>>

Progress(t) ==
  \/ Begin(t) \/ Upsert(t) \/ Update(t) \/ Remove(t) \/ Read(t)
  \/ BatchUpsert(t) \/ BatchRead(t) \/ Iterate(t)
  \/ Return(t) /\ UNCHANGED writer

Next == Open \/ Flush \/ Close
          \/ \E t \in Threads : Progress(t) \/ (Invoke(t) /\ UNCHANGED writer)
=============================================================================
