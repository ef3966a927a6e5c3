----------------------------- MODULE Transaction -----------------------------
(***************************************************************************)
(* rocksdb_transaction_t (src/src/rocksdb/rocksdb_transaction.hpp) and     *)
(* ustore_transact_t (src/src/ustore/ustore_transaction.hpp), as a release *)
(* build has them, without the assertions.  Each thread performs all of a  *)
(* workload in one transaction, which its destructor commits after the     *)
(* flush.  A write that fails commits what there is, and is tried again in *)
(* the transaction that has been committed.                                *)
(* The engines are external: a transaction sees what it has written itself *)
(* and what is committed; RocksDB's locks the keys it writes and gives up  *)
(* waiting for one after a while.  RocksDB commits a transaction once: it  *)
(* lets one that is committed go on writing, but refuses to commit it      *)
(* again, and drops what has been written since when it is destroyed.      *)
(* UStore, which does not say, may commit it again or refuse to.           *)
(***************************************************************************)
EXTENDS Caller

CONSTANT Chunk   \* the most keys that UStore scans at once, 1'000'000

VARIABLES
  engine,    \* "rocksdb_transaction" or "ustore_transaction"
  pending,   \* of each thread, the keys it has put and deleted
  buffer,    \* of each thread, transaction_batch_keys (RocksDB)
  spent      \* the threads whose transaction RocksDB has committed before its end

own  == <<pending, buffer, spent>>
vars == <<mayFail, handle, workload, stage, call, reply, data, engine, own>>

RocksDB == engine = "rocksdb_transaction"

Nothing == [put |-> {}, del |-> {}]
Applied(p, d) == (d \cup p.put) \ p.del
View(t) == Applied(pending[t], data)

Init ==
  /\ CallerInit
  /\ pending = [t \in Threads |-> Nothing]
  /\ buffer  = [t \in Threads |-> << >>]
  /\ spent   = {}

Open == OpenDb /\ UNCHANGED <<data, engine, own>>

\* The keys that t can not lock.
Locked(t) ==
  IF RocksDB THEN UNION {pending[u].put \cup pending[u].del : u \in Threads \ {t}} ELSE {}

Kept(t)    == UNCHANGED <<store, call, engine, buffer>>
Reading(t) == UNCHANGED <<data, pending, spent>> /\ UNCHANGED <<store, call, engine>>

\* The write of t becomes part of its transaction, on top of p.
Pend(t, p) ==
  LET keys == KeysOf(t)
  IN  pending' = [pending EXCEPT ![t] =
        IF call[t].kind = "remove" THEN [put |-> p.put \ keys, del |-> p.del \cup keys]
                                   ELSE [put |-> p.put \cup keys, del |-> p.del \ keys]]

\* What there is is given up.  Mistake: it is in the place of Commit.
Rollback(t) ==
  /\ UNCHANGED data
  /\ pending' = [pending EXCEPT ![t] = Nothing]

Commit(t) ==
  /\ t \notin spent
  /\ data' = View(t)
  /\ pending' = [pending EXCEPT ![t] = Nothing]

\* A commit that is refused, or that fails in RocksDB for good.
NoCommit(t) ==
  \/ (t \in spent \/ (mayFail /\ ~RocksDB)) /\ UNCHANGED <<data, pending>>
  \/ mayFail /\ t \notin spent /\ Rollback(t)

Refused(t) == mayFail \/ KeysOf(t) \cap Locked(t) # {}
Granted(t) == /\ KeysOf(t) \cap Locked(t) = {} /\ Pend(t, pending[t])
              /\ UNCHANGED <<data, spent>>

\* upsert, remove, a whole batch of UStore, and an update after its Get.  UStore
\* does not try again if its commit fails; RocksDB does not look at that.
WriteKinds == {"upsert", "remove"} \cup IF RocksDB THEN {} ELSE {"batch_upsert", "bulk_load"}
Write(t) ==
  /\ Called(t, WriteKinds) \/ stage[t] = "write"
  /\ \/ Granted(t) /\ Touch(t, KeysOf(t))
     \/ /\ Refused(t)
        /\ \/ Commit(t) /\ GoTo(t, "retry") /\ UNCHANGED reply
           \/ /\ NoCommit(t)
              /\ IF RocksDB THEN GoTo(t, "retry") /\ UNCHANGED reply ELSE Reject(t, "error")
        /\ spent' = IF RocksDB THEN spent \cup {t} ELSE spent
  /\ Kept(t)

Retry(t) ==
  /\ stage[t] = "retry"
  /\ \/ Granted(t) /\ Touch(t, KeysOf(t))
     \/ Refused(t) /\ Reject(t, "error") /\ UNCHANGED <<data, pending, spent>>
  /\ Kept(t)

\* batch_upsert of RocksDB, which bulk_load calls: key by key, each one tried a
\* second time.  first is the first one that is refused; what comes before it is
\* committed then, unless the transaction is spent.  All keys are reported,
\* whether they have been written or not.
BatchUpsert(t) ==
  /\ RocksDB /\ Called(t, {"batch_upsert", "bulk_load"})
  /\ \/ Granted(t)
     \/ \E written \in {s \in SUBSET (KeysOf(t) \ Locked(t)) :
                          mayFail \/ s = KeysOf(t) \ Locked(t)},
           first \in KeysOf(t) :
          /\ mayFail \/ first \in Locked(t)
          /\ \A k \in KeysOf(t) \ written : first <= k
          /\ \/ /\ t \in spent
                /\ pending' = [pending EXCEPT ![t] =
                                 [put |-> @.put \cup written, del |-> @.del \ written]]
                /\ UNCHANGED data
             \/ /\ t \notin spent
                /\ pending' = [pending EXCEPT ![t] =
                                 [put |-> {k \in written : k >= first}, del |-> {}]]
                /\ \/ data' = View(t) \cup {k \in written : k < first}
                   \/ mayFail /\ UNCHANGED data
          /\ spent' = spent \cup {t}
  /\ Touch(t, KeysOf(t))
  /\ Kept(t)

\* update: UStore does not mind if there is no such key.
UpdateGet(t) ==
  /\ Called(t, {"update"})
  /\ \/ (RocksDB => Key(t) \in View(t)) /\ GoTo(t, "write") /\ UNCHANGED reply
     \/ RocksDB /\ Key(t) \notin View(t) /\ Reject(t, "not_found")
     \/ mayFail /\ Reject(t, IF RocksDB THEN "error" ELSE "not_found")
  /\ Reading(t) /\ UNCHANGED buffer

Read(t) ==
  /\ Called(t, {"read"})
  /\ \/ Key(t) \in View(t) /\ Touch(t, KeysOf(t))
     \/ Key(t) \notin View(t) /\ Reject(t, "not_found")
     \/ mayFail /\ Reject(t, "error")
  /\ Reading(t) /\ UNCHANGED buffer

\* What UStore reports of the entries it has found.
FoundSome(t, count, found) ==
  IF count = 0 /\ ~RocksDB THEN Reject(t, "not_found") ELSE Finish(t, "ok", count, found)

\* batch_read: RocksDB looks up its whole buffer.
BatchRead(t) ==
  /\ Called(t, {"batch_read"})
  /\ buffer' = IF RocksDB THEN [buffer EXCEPT ![t] = Filled(@, call[t].keys)] ELSE buffer
  /\ LET keys == IF RocksDB THEN buffer'[t] ELSE call[t].keys
         hits == {i \in 1..Len(keys) : keys[i] \in View(t)}
     IN  \/ \E some \in IF mayFail /\ RocksDB THEN SUBSET hits ELSE {hits} :
              FoundSome(t, Cardinality(some), {keys[i] : i \in some})
         \/ mayFail /\ ~RocksDB /\ Reject(t, "error")
  /\ Reading(t)

\* range_select and scan: the chunks of UStore's scan begin a chunk's length
\* after each other, and an entry that is in two of them counts twice.
Beyond(t, k, length) == FirstNumbers({n \in View(t) : n >= k}, length)
ChunkOf(t, i) == Beyond(t, Key(t) + i * Chunk, Min({Chunk, Length(t) - i * Chunk}))
Scanned(t)    == UNION {{i} \X ChunkOf(t, i) : i \in 0 .. (Length(t) - 1) \div Chunk}
Iterate(t) ==
  /\ Called(t, {"range_select", "scan"})
  /\ \/ IF RocksDB \/ call[t].kind = "range_select"
          THEN LET met == Beyond(t, Key(t), Length(t))
               IN  FoundSome(t, Cardinality(met), met)
          ELSE FoundSome(t, Cardinality(Scanned(t)), {entry[2] : entry \in Scanned(t)})
     \/ mayFail /\ ~RocksDB /\ Reject(t, "error")
  /\ Reading(t) /\ UNCHANGED buffer

Flush == FlushDb /\ UNCHANGED <<engine, own>>

\* The destructor, which nobody tells if the commit fails.
End(t) ==
  /\ handle = "flushed" /\ t \in workload.threads /\ stage[t] = "idle"
  /\ Commit(t) \/ ((t \in spent \/ mayFail) /\ Rollback(t))
  /\ spent'  = spent \ {t}
  /\ buffer' = [buffer EXCEPT ![t] = << >>]
  /\ GoTo(t, "ended")
  /\ UNCHANGED <<store, call, reply, engine>>

\* The fence lets the leader close the database when all transactions have ended.
Close ==
  /\ CloseDb
  /\ \A t \in workload.threads : stage[t] = "ended"
  /\ stage' = [t \in Threads |-> "idle"]
  /\ UNCHANGED <<engine, own>>

Progress(t) ==
  \/ Write(t) \/ Retry(t) \/ BatchUpsert(t) \/ UpdateGet(t) \/ Read(t)
  \/ BatchRead(t) \/ Iterate(t)
  \/ Return(t) /\ UNCHANGED <<engine, own>>

Next == Open \/ Flush \/ Close
          \/ \E t \in Threads : \/ Progress(t) \/ End(t)
                                \/ Invoke(t) /\ UNCHANGED <<engine, own>>
=============================================================================
