------------------------------- MODULE Adapters -------------------------------
(***************************************************************************)
(* The databases of make_db (src/src/core/db_brand.hpp), other than        *)
(* RocksDB without transactions, behind the same interface: the engine is  *)
(* chosen once, and its adapter answers the calls of all workloads.  Keys  *)
(* are integers here; engines that compare bytes see them as they are in   *)
(* memory.                                                                 *)
(***************************************************************************)
EXTENDS Caller

CONSTANTS
  Engines,    \* the databases that are tried
  PoolSize,   \* of MongoDB
  Chunk       \* of UStore

VARIABLES
  engine,
  writer,                          \* LMDB
  bulk,                            \* WiredTiger
  acquired, batch_keys,            \* MongoDB
  clients, client, client_index,   \* UStore
  pending, buffer, spent           \* transactions

OfLMDB        == writer
OfWiredTiger  == bulk
OfMongoDB     == <<acquired, batch_keys>>
OfUStore      == <<clients, client, client_index>>
OfTransaction == <<pending, buffer, spent>>

vars == <<mayFail, handle, workload, stage, call, reply, data, engine,
          OfLMDB, OfWiredTiger, OfMongoDB, OfUStore, OfTransaction>>

LevelDB     == INSTANCE LevelDB
LMDB        == INSTANCE LMDB
WiredTiger  == INSTANCE WiredTiger
MongoDB     == INSTANCE MongoDB
Redis       == INSTANCE Redis
UStore      == INSTANCE UStore
Transaction == INSTANCE Transaction

UStores      == {"ustore_ucset", "ustore_flight", "ustore_rocksdb"}
Transactions == {"rocksdb_transaction", "ustore_transaction"}

ASSUME AdaptersAssumption ==
  /\ Engines \subseteq {"leveldb", "lmdb", "wiredtiger", "mongodb", "redis"}
                         \cup UStores \cup Transactions
  /\ PoolSize \in Nat \ {0} /\ Chunk \in Nat \ {0}

Init ==
  /\ engine \in Engines
  /\ LevelDB!Init /\ LMDB!Init /\ WiredTiger!Init /\ MongoDB!Init /\ Redis!Init
  /\ UStore!Init /\ Transaction!Init

\* A step of an adapter leaves alone what belongs to the others.
OnLevelDB(A) ==
  /\ engine = "leveldb" /\ A
  /\ UNCHANGED <<engine, OfLMDB, OfWiredTiger, OfMongoDB, OfUStore, OfTransaction>>
OnLMDB(A) ==
  /\ engine = "lmdb" /\ A
  /\ UNCHANGED <<engine, OfWiredTiger, OfMongoDB, OfUStore, OfTransaction>>
OnWiredTiger(A) ==
  /\ engine = "wiredtiger" /\ A
  /\ UNCHANGED <<engine, OfLMDB, OfMongoDB, OfUStore, OfTransaction>>
OnMongoDB(A) ==
  /\ engine = "mongodb" /\ A
  /\ UNCHANGED <<engine, OfLMDB, OfWiredTiger, OfUStore, OfTransaction>>
OnRedis(A) ==
  /\ engine = "redis" /\ A
  /\ UNCHANGED <<engine, OfLMDB, OfWiredTiger, OfMongoDB, OfUStore, OfTransaction>>
OnUStore(A) ==
  /\ engine \in UStores /\ A
  /\ UNCHANGED <<OfLMDB, OfWiredTiger, OfMongoDB, OfTransaction>>
OnTransaction(A) ==
  /\ engine \in Transactions /\ A
  /\ UNCHANGED <<OfLMDB, OfWiredTiger, OfMongoDB, OfUStore>>

Next ==
  \/ OnLevelDB(LevelDB!Next) \/ OnLMDB(LMDB!Next) \/ OnWiredTiger(WiredTiger!Next)
  \/ OnMongoDB(MongoDB!Next) \/ OnRedis(Redis!Next) \/ OnUStore(UStore!Next)
  \/ OnTransaction(Transaction!Next)

\* A step of a thread that is in a call.
Progress(t) ==
  \/ OnLevelDB(LevelDB!Progress(t)) \/ OnLMDB(LMDB!Progress(t))
  \/ OnWiredTiger(WiredTiger!Progress(t)) \/ OnMongoDB(MongoDB!Progress(t))
  \/ OnRedis(Redis!Progress(t)) \/ OnUStore(UStore!Progress(t))
  \/ OnTransaction(Transaction!Progress(t))

\* The system runs every thread.  One that waits for LMDB's writer or a client
\* of MongoDB gets it in the end, since the others perform so many operations
\* and no more.
Fairness == \A t \in Threads : SF_vars(Progress(t))

Spec == Init /\ [][Next]_vars /\ Fairness

-----------------------------------------------------------------------------
Between == {"begun", "put", "session", "cursor", "insert", "write", "retry"}

TypeOK ==
  /\ mayFail \in BOOLEAN /\ handle \in {"closed", "open", "flushed"}
  /\ workload \in Workloads /\ engine \in Engines
  /\ stage \in [Threads -> {"idle", "called", "done", "ended"} \cup Between]
  /\ data \subseteq Keys
  /\ \A t \in Threads : reply[t].touched \in Nat /\ reply[t].found \subseteq Keys
  /\ writer \subseteq Threads /\ Cardinality(writer) <= 1
  /\ bulk \in {"none", "open", "dangling"}
  /\ acquired \subseteq Threads /\ Cardinality(acquired) <= PoolSize
  /\ batch_keys \in [Threads -> SUBSET Keys]
  /\ clients \in Nat /\ client_index \in Nat /\ client \in [Threads -> Nat]
  /\ pending \in [Threads -> [put : SUBSET Keys, del : SUBSET Keys]]
  /\ \A t \in Threads : Range(buffer[t]) \subseteq Keys
  /\ spent \subseteq Threads

\* The calls whose result an adapter does not report as documented: see README.
Ranges == {"range_select", "scan"}
Loose ==
  CASE engine = "leveldb"             -> Ranges
    [] engine = "lmdb"                -> Ranges \cup {"update"}
    [] engine = "wiredtiger"          -> Ranges \cup {"update", "batch_upsert", "bulk_load"}
    [] engine = "mongodb"             ->
         Ranges \cup {"upsert", "update", "batch_upsert", "bulk_load"}
    [] engine = "redis"               -> Ranges \cup {"upsert", "update", "bulk_load"}
    [] engine \in UStores             -> {"update", "scan"}
    [] engine = "rocksdb_transaction" ->
         {"read", "upsert", "update", "remove", "batch_upsert", "bulk_load"}
    [] engine = "ustore_transaction"  -> {"read", "update", "remove", "scan"}

\* A transaction promises nothing if the engine may fail: nobody is told when the
\* commit of its destructor does.  A commit that UStore refuses because of a
\* conflict is such a failure.
Promised == ~(mayFail /\ engine \in Transactions)

\* The database the threads have together, with what they have not committed,
\* but without what will not be.
DataOfAll == (data \cup UNION {pending[t].put : t \in Threads \ spent})
               \ UNION {pending[t].del : t \in Threads \ spent}

Seen(s) == IF s \in Between THEN "called" ELSE IF s = "ended" THEN "idle" ELSE s

Accessor == INSTANCE DataAccessor WITH
  loose <- Loose,
  lossy <- IF Promised THEN spent ELSE {},
  db    <- IF Promised THEN DataOfAll ELSE {},
  stage <- [t \in Threads |-> IF Promised THEN Seen(stage[t]) ELSE "idle"],
  call  <- [t \in Threads |-> IF Promised THEN call[t] ELSE NoCall],
  reply <- [t \in Threads |-> IF Promised THEN reply[t] ELSE NoAnswer]

\* Whatever database is benchmarked, a call does to its keys what the interface
\* promises, at one moment, and nothing else does: not the closing and opening
\* between workloads, not the commit in front of a write that is tried again, not
\* a call of another thread.  It reports what the interface promises, except in
\* the kinds of calls listed above.  In a transaction of RocksDB this holds up to
\* the first write that finds its key locked: from that write on, the thread
\* writes in a transaction that is already committed, and until it ends none of
\* its writes takes effect, whatever it is told (rocksdb_transaction.hpp:84,93).
ImplementsDataAccessor == Accessor!Spec

\* The workloads of every size in bench/workloads mix no kinds of calls but reads
\* and updates, or reads and upserts; only the template example.json does.
ShippedMixes ==
  \A w \in Workloads : \/ \E kind \in CallKinds : w.kinds = {kind}
                       \/ w.kinds \in {{"read", "update"}, {"read", "upsert"}}

\* Nor do their batches of reads have more than one length.
OneBatchLength ==
  \A w \in Workloads : "batch_read" \in w.kinds => \A m, n \in w.lengths : m = n

\* Where a range begins at its key, a scan of the whole database touches every
\* entry of it (ustore.hpp:466-503, mongodb.hpp:277-292).
ScanTouchesAll ==
  \A t \in Threads :
    /\ stage[t] = "done" /\ call[t].kind = "scan" /\ ~mayFail
    /\ engine \notin {"wiredtiger", "redis"}
    /\ Cardinality(data) <= Length(t)
    /\ data = 0 .. Cardinality(data) - 1 /\ Key(t) \in data /\ Key(t) = 0
    => reply[t].found = data /\ reply[t].touched = Cardinality(data)

\* Between workloads, nothing is left of the calls, sessions and transactions of
\* the one before, in thread-local variables neither: no transaction holds the
\* writer, no client is missing from the pool, the bulk cursor is gone before
\* its connection, and no key of an old batch is looked up again.
ClosedClean ==
  handle = "closed" => /\ writer = {} /\ acquired = {}
                       /\ bulk = "none"
                       /\ \A t \in Threads : batch_keys[t] = {} /\ Len(buffer[t]) = 0
                       /\ \A t \in Threads : pending[t] = [put |-> {}, del |-> {}]
                       /\ spent = {}

\* A thread of UStore never calls through a client that is not there, or that is
\* another thread's, and keeps none beyond the database it belongs to: clients
\* are handed out by a counter and kept in a thread-local variable, which the
\* main thread carries from one workload to the next (ustore.hpp:186-211).
ClientsOwned ==
  engine \in UStores =>
    /\ \A t \in Threads : client[t] <= clients
    /\ handle = "closed" /\ engine # "ustore_ucset" => \A t \in Threads : client[t] = 0
    /\ engine = "ustore_flight" =>
         \A t, u \in Threads : t # u /\ client[t] # 0 => client[t] # client[u]

\* Every call returns, or ends with the program: no thread waits for ever for the
\* writer of LMDB or a client of MongoDB, because each call gives them back on
\* every path.
EveryCallEnds == \A t \in Threads : stage[t] = "called" ~> stage[t] = "idle"

\* "No other cursors while doing bulk load" (wiredtiger.hpp:315)
BulkUndisturbed ==
  \A t, u \in Threads :
    t # u /\ stage[t] = "insert" => bulk = "open" /\ stage[u] \notin {"session", "cursor"}
=============================================================================
