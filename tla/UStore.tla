-------------------------------- MODULE UStore --------------------------------
(***************************************************************************)
(* ustore_t (src/src/ustore/ustore.hpp), built for one of its engines:     *)
(* UCSet, which keeps the data in memory as long as the database is not    *)
(* freed, the Flight client, with a client for each thread, or a           *)
(* persistent one.  The engine is external: integers in their order, with  *)
(* atomic writes, lookups and scans.                                       *)
(***************************************************************************)
EXTENDS Caller

CONSTANT Chunk   \* the most keys that are scanned at once, 1'000'000

VARIABLES
  engine,        \* the build: "ustore_ucset", "ustore_flight" or "ustore_rocksdb"
  clients,       \* the size of clients_
  client,        \* client_ of each thread: an index of clients_, or 0 if unset
  client_index   \* client_index_

own  == <<clients, client, client_index>>
vars == <<mayFail, handle, workload, stage, call, reply, data, engine, own>>

Init ==
  /\ CallerInit
  /\ clients = 0
  /\ client = [t \in Threads |-> 0]
  /\ client_index = 0

\* open does nothing if the leader still has its client; a new database in memory
\* is empty.
Open ==
  /\ OpenDb
  /\ \/ client[Leader] # 0 /\ UNCHANGED <<clients, data>>
     \/ /\ client[Leader] = 0
        /\ clients' = IF engine = "ustore_flight" THEN Cardinality(workload'.threads) ELSE 1
        /\ data' = IF engine = "ustore_ucset" THEN {} ELSE data
  /\ UNCHANGED <<engine, client, client_index>>

\* map_client, at the beginning of every call.
MapClient(t) ==
  IF client[t] # 0 THEN UNCHANGED <<client, client_index>>
    ELSE /\ client' = [client EXCEPT ![t] = IF engine = "ustore_flight" THEN client_index + 1
                                                                     ELSE 1]
         /\ client_index' = IF engine = "ustore_flight" THEN client_index + 1 ELSE client_index

Calling(t, kinds) ==
  /\ Called(t, kinds) /\ MapClient(t) /\ UNCHANGED <<store, call, engine, clients>>

\* upsert, and update: reading a key that is not there is not an error.
Upsert(t) ==
  /\ Calling(t, {"upsert", "update"})
  /\ \/ data' = data \cup KeysOf(t) /\ Touch(t, KeysOf(t))
     \/ Broken(t, "error")
     \/ call[t].kind = "update" /\ Broken(t, "not_found")

Remove(t) ==
  /\ Calling(t, {"remove"})
  /\ \/ data' = data \ KeysOf(t) /\ Touch(t, KeysOf(t))
     \/ Broken(t, "error")

Read(t) ==
  /\ Calling(t, {"read"})
  /\ \/ Key(t) \in data /\ Touch(t, KeysOf(t)) /\ UNCHANGED data
     \/ Key(t) \notin data /\ Reject(t, "not_found") /\ UNCHANGED data
     \/ Broken(t, "error")

\* batch_upsert, which bulk_load calls
BatchUpsert(t) ==
  /\ Calling(t, {"batch_upsert", "bulk_load"})
  /\ \/ data' = data \cup KeysOf(t) /\ Touch(t, KeysOf(t))
     \/ Broken(t, "error")

TouchSome(t, met) == IF met = {} THEN Reject(t, "not_found") ELSE Touch(t, met)

BatchRead(t) ==
  /\ Calling(t, {"batch_read"})
  /\ \/ TouchSome(t, KeysOf(t) \cap data) /\ UNCHANGED data
     \/ Broken(t, "error")

RangeSelect(t) ==
  /\ Calling(t, {"range_select"})
  /\ \/ TouchSome(t, FirstNumbers({k \in data : k >= Key(t)}, Length(t))) /\ UNCHANGED data
     \/ Broken(t, "error")

\* Mistake: the rest is scanned from the first key again.
ChunkOfFirst(t, i) == FirstNumbers({k \in data : k >= Key(t)},
                                   Min({Chunk, Length(t) - i * Chunk}))

\* The chunks of a scan begin a chunk's length after each other, whatever keys
\* were found.
ChunkOf(t, i) == FirstNumbers({k \in data : k >= Key(t) + i * Chunk},
                              Min({Chunk, Length(t) - i * Chunk}))

\* The entries a scan finds, with their chunks: one that is in two counts twice.
Scanned(t) == UNION {{i} \X ChunkOf(t, i) : i \in 0 .. (Length(t) - 1) \div Chunk}

Scan(t) ==
  /\ Calling(t, {"scan"})
  /\ \/ Scanned(t) = {} /\ Reject(t, "not_found")
     \/ /\ Scanned(t) # {}
        /\ Finish(t, "ok", Cardinality(Scanned(t)), {entry[2] : entry \in Scanned(t)})
     \/ mayFail /\ Reject(t, "error")
  /\ UNCHANGED data

\* The flush is a call as well.  Every thread has performed an operation by then,
\* since the split gives each of them one at least (bench.cxx:241).
Flush ==
  /\ FlushDb
  /\ \A t \in workload.threads : client[t] # 0
  /\ UNCHANGED <<engine, own>>

\* Mistake: only the databases are freed.
CloseKeepClient ==
  /\ CloseDb
  /\ client_index' = 0
  /\ clients' = IF engine = "ustore_ucset" THEN clients ELSE 0
  /\ client' = [t \in Threads |-> IF t = Leader THEN client[t] ELSE 0]
  /\ UNCHANGED <<stage, engine>>

\* close frees the clients, and the leader's, except those of UCSet, whose data
\* would be lost.  The other threads' are gone with their threads.
Close ==
  /\ CloseDb
  /\ client_index' = 0
  /\ clients' = IF engine = "ustore_ucset" THEN clients ELSE 0
  /\ client' = [t \in Threads |-> IF t = Leader /\ engine = "ustore_ucset" THEN client[t]
                                                                        ELSE 0]
  /\ UNCHANGED <<stage, engine>>

Progress(t) ==
  \/ Upsert(t) \/ Remove(t) \/ Read(t) \/ BatchUpsert(t) \/ BatchRead(t)
  \/ RangeSelect(t) \/ Scan(t)
  \/ Return(t) /\ UNCHANGED <<engine, own>>

Next == Open \/ Flush \/ Close
          \/ \E t \in Threads : Progress(t) \/ (Invoke(t) /\ UNCHANGED <<engine, own>>)
=============================================================================
