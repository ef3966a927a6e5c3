---------------------------- MODULE AdaptersProofs ----------------------------
(***************************************************************************)
(* Proofs about Adapters for every set of threads, keys, workloads and     *)
(* databases.  An adapter changes what it keeps only in a call, and a call *)
(* is only made while the database is open (CallInv), so that the proofs   *)
(* go from the state of the threads to what belongs to each engine: the    *)
(* writer of LMDB, the bulk cursor of WiredTiger, the pool of MongoDB, the *)
(* clients of UStore and the transactions.  With what a thread in a call   *)
(* remembers (RefineInv), they show that each adapter does what            *)
(* DataAccessor promises.                                                  *)
(***************************************************************************)
EXTENDS Adapters, FiniteSetTheorems, FunctionTheorems, TLAPS

Places   == {"idle", "called", "done", "ended"} \cup Between
Statuses == {"none", "ok", "not_found", "error", "not_implemented"}
Calls    == [kind : CallKinds \cup {"none"}, keys : Seq(Keys), length : Nat]
Answer   == [status : Statuses, touched : Nat, found : SUBSET Keys]
Pending  == [put : SUBSET Keys, del : SUBSET Keys]
Nothing  == [put |-> {}, del |-> {}]

CoreTypes ==
  /\ mayFail \in BOOLEAN /\ handle \in {"closed", "open", "flushed"}
  /\ workload \in Workloads /\ engine \in Engines
  /\ stage \in [Threads -> Places] /\ call \in [Threads -> Calls]
  /\ reply \in [Threads -> Answer] /\ data \subseteq Keys

\* A thread that is in a call performs an operation of the workload, for which
\* the database is open; its transaction has ended only after the flush.
CallInv ==
  \A t \in Threads :
    /\ stage[t] \notin {"idle", "ended"} =>
         /\ handle = "open" /\ t \in workload.threads
         /\ call[t].kind \in workload.kinds
         /\ call[t] \in CallsOf(call[t].kind, workload.lengths)
    /\ stage[t] = "ended" => handle = "flushed" /\ engine \in Transactions

Begun == {t \in Threads : stage[t] = "begun"}

\* The writer is the thread whose transaction has begun.
WriterInv ==
  /\ writer = IF engine = "lmdb" THEN Begun ELSE {}
  /\ \A t, u \in writer : t = u

\* There is a bulk cursor only while the database is open.
BulkInv ==
  /\ bulk \in {"none", "open", "dangling"}
  /\ engine # "wiredtiger" \/ handle # "open" => bulk = "none"

\* The clients in use are those of the threads in the middle of their calls.
PoolInv ==
  /\ acquired = IF engine = "mongodb" THEN Begun ELSE {}
  /\ Cardinality(acquired) <= PoolSize
  /\ batch_keys \in [Threads -> SUBSET Keys]
  /\ engine # "mongodb" \/ handle = "closed" => \A t \in Threads : batch_keys[t] = {}

Served == {t \in Threads : client[t] # 0}

\* Of the Flight client, the clients handed out are those counted, one for each
\* thread that has made a call, and only threads of the workload have one.  The
\* other builds have a single client, which UCSet's leader may keep.
ClientInv ==
  /\ clients \in Nat /\ client_index \in Nat /\ client \in [Threads -> Nat]
  /\ engine = "ustore_flight" =>
       /\ handle # "closed" => clients = Cardinality(workload.threads)
       /\ handle = "closed" => Served = {}
       /\ Served \subseteq workload.threads /\ client_index = Cardinality(Served)
       /\ \A t \in Threads : client[t] <= client_index
       /\ \A t, u \in Served : t # u => client[t] # client[u]
  /\ engine \in {"ustore_ucset", "ustore_rocksdb"} =>
       /\ \A t \in Threads : client[t] \in {0, 1}
       /\ handle # "closed" \/ Served # {} => clients = 1
       /\ engine = "ustore_rocksdb" /\ handle = "closed" => Served = {}

\* Only a thread of the workload has something in its transaction, or in its
\* buffer, or a transaction that is spent, until the transaction ends.
TransactionInv ==
  /\ pending \in [Threads -> Pending] /\ buffer \in [Threads -> Seq(Keys)]
  /\ spent \subseteq Threads
  /\ \A t \in Threads :
       pending[t] # Nothing \/ buffer[t] # << >> \/ t \in spent =>
         /\ engine \in Transactions /\ handle # "closed"
         /\ t \in workload.threads /\ stage[t] # "ended"

AdaptersInv == /\ CoreTypes /\ CallInv /\ WriterInv /\ BulkInv /\ PoolInv /\ ClientInv
               /\ TransactionInv

-----------------------------------------------------------------------------
(***************************************************************************)
(* What adapters do to the state they share.                               *)
(***************************************************************************)

\* A step of a thread in a call, which goes on or has a result.
Works(t) ==
  /\ stage[t] \notin {"idle", "done", "ended"}
  /\ UNCHANGED <<store, call>> /\ data' \subseteq Keys
  /\ \/ \E place \in Between : GoTo(t, place) /\ UNCHANGED reply
     \/ \E a \in Answer : reply' = [reply EXCEPT ![t] = a] /\ GoTo(t, "done")

\* The end of a transaction.
Ends(t) ==
  /\ handle = "flushed" /\ engine \in Transactions /\ GoTo(t, "ended")
  /\ UNCHANGED <<store, call, reply>> /\ data' \subseteq Keys

Closes == CloseDb /\ \/ stage' = [t \in Threads |-> "idle"]
                     \/ UNCHANGED stage /\ engine \notin Transactions

DriverStep == \/ OpenDb /\ data' \subseteq Keys
              \/ FlushDb \/ Closes \/ \E d \in SUBSET Keys : EndProgram(d)

ThreadStep(t) == Invoke(t) \/ Works(t) \/ Return(t) \/ Ends(t)

SharedStep == DriverStep \/ \E t \in Threads : ThreadStep(t)

\* The keys of the workloads are finitely many numbers.
LEMMA KeysFinite ==
  /\ Keys \subseteq Nat /\ IsFiniteSet(Keys)
  /\ \A s \in SUBSET Keys : IsFiniteSet(s) /\ Cardinality(s) \in Nat
<1>1. Base \in Nat /\ Keys \subseteq 0 .. Base * Base - 1
  BY CallerAssumption
<1>2. Base * Base - 1 \in Int
  BY <1>1
<1>3. IsFiniteSet(0 .. Base * Base - 1)
  BY <1>2, FS_Interval
<1>4. IsFiniteSet(Keys)
  BY <1>1, <1>3, FS_Subset
<1>5. Keys \subseteq Nat
  BY <1>1
<1>6. \A s \in SUBSET Keys : IsFiniteSet(s)
  BY <1>4, FS_Subset
<1>7. \A s \in SUBSET Keys : Cardinality(s) \in Nat
  BY <1>6, FS_CardinalityType
<1> QED
  BY <1>4, <1>5, <1>6, <1>7

\* What a call is made of: keys, one at least, and a length.
LEMMA CallMade ==
  ASSUME NEW w \in Workloads, NEW k \in CallKinds, NEW c \in CallsOf(k, w.lengths)
  PROVE  /\ c \in Calls /\ c.kind = k
         /\ Len(c.keys) \in Nat \ {0} /\ c.keys[1] \in Keys /\ c.length \in Nat \ {0}
         /\ Range(c.keys) \subseteq Keys /\ c.keys[1] \in Range(c.keys)
<1>1. ASSUME NEW n \in Nat \ {0}, NEW s \in Batches(n)
      PROVE  s \in Seq(Keys) /\ Len(s) = n /\ s[1] \in Keys
  BY DEF Batches
<1>2. w.lengths \subseteq Nat \ {0} /\ 1 \in Nat \ {0}
  BY CallerAssumption
<1>3. CASE k \in {"upsert", "update", "remove", "read"}
  <2>1. c \in [kind : {k}, keys : Batches(1), length : {1}]
    BY <1>3 DEF CallsOf
  <2> QED
    BY <1>1, <1>2, <2>1 DEF Calls, Range
<1>4. CASE k = "batch_read"
  <2>1. PICK n \in w.lengths : c \in [kind : {k}, keys : Batches(n), length : {n}]
    BY <1>4 DEF CallsOf
  <2> QED
    BY <1>1, <1>2, <2>1 DEF Calls, Range
<1>5. CASE k \in {"batch_upsert", "bulk_load"}
  <2>1. PICK n \in w.lengths : c \in [kind : {k}, keys : {s \in Batches(n) : Ascending(s)},
                                      length : {n}]
    BY <1>5 DEF CallsOf
  <2> QED
    BY <1>1, <1>2, <2>1 DEF Calls, Range
<1>6. CASE k \in {"range_select", "scan"}
  <2>1. c \in [kind : {k}, keys : Batches(1), length : w.lengths]
    BY <1>6 DEF CallsOf
  <2> QED
    BY <1>1, <1>2, <2>1 DEF Calls, Range
<1> QED
  BY <1>3, <1>4, <1>5, <1>6 DEF CallKinds

\* The call that a thread is in.
LEMMA CallOf ==
  ASSUME CoreTypes, CallInv, NEW t \in Threads, stage[t] \notin {"idle", "ended"}
  PROVE  /\ handle = "open" /\ workload \in Workloads /\ t \in workload.threads
         /\ call[t].kind \in CallKinds /\ call[t].kind \in workload.kinds
         /\ call[t].keys \in Seq(Keys) /\ KeysOf(t) \subseteq Keys
         /\ Key(t) \in Keys /\ Key(t) \in KeysOf(t)
         /\ Size(t) \in Nat \ {0} /\ Length(t) \in Nat \ {0}
<1>1. /\ handle = "open" /\ workload \in Workloads /\ t \in workload.threads
      /\ call[t].kind \in workload.kinds
      /\ call[t] \in CallsOf(call[t].kind, workload.lengths)
      /\ call[t].keys \in Seq(Keys)
  BY DEF CoreTypes, CallInv, Calls
<1>2. call[t].kind \in CallKinds
  BY <1>1, CallerAssumption
<1> QED
  BY <1>1, <1>2, CallMade DEF Size, Length, Key, KeysOf

\* A thread that is not in a call.
LEMMA Nothings == NoCall \in Calls /\ NoAnswer \in Answer
<1>1. << >> \in Seq(Keys) /\ {} \in SUBSET Keys
  OBVIOUS
<1> QED
  BY <1>1 DEF NoCall, NoAnswer, Calls, Answer, Statuses

\* The state that adapters share is of its types after a step.
LEMMA SharedTypes ==
  ASSUME CoreTypes, CallInv, UNCHANGED engine, SharedStep
  PROVE  CoreTypes'
<1>1. mayFail' \in BOOLEAN
  <2>1. mayFail' = mayFail
    BY Zenon DEF SharedStep, DriverStep, ThreadStep, OpenDb, FlushDb, Closes, CloseDb,
                 EndProgram, Invoke, Works, Return, Ends, store
  <2> QED
    BY <2>1, Zenon DEF CoreTypes
<1>2. ASSUME DriverStep
      PROVE  /\ handle' \in {"closed", "open", "flushed"} /\ workload' \in Workloads
             /\ stage' \in [Threads -> Places] /\ call' \in [Threads -> Calls]
             /\ reply' \in [Threads -> Answer] /\ data' \subseteq Keys
  BY <1>2, Nothings DEF CoreTypes, DriverStep, OpenDb, FlushDb, Closes, CloseDb, EndProgram,
                        NoThreadCalls, Places
<1>3. ASSUME NEW t \in Threads, ThreadStep(t)
      PROVE  /\ handle' = handle /\ workload' = workload /\ stage' \in [Threads -> Places]
             /\ call' \in [Threads -> Calls] /\ reply' \in [Threads -> Answer]
             /\ data' \subseteq Keys
  <2>1. CASE Invoke(t)
    <3>1. PICK kind \in workload.kinds : \E c \in CallsOf(kind, workload.lengths) :
            call' = [call EXCEPT ![t] = c]
      BY <2>1 DEF Invoke
    <3>2. PICK c \in CallsOf(kind, workload.lengths) : call' = [call EXCEPT ![t] = c]
      BY <3>1
    <3>3. c \in Calls
      BY CallMade, CallerAssumption DEF CoreTypes
    <3> QED
      BY <2>1, <3>2, <3>3 DEF Invoke, CoreTypes, Places, store
  <2>2. CASE Works(t)
    BY <2>2 DEF Works, CoreTypes, GoTo, Places, store
  <2>3. CASE Return(t)
    BY <2>3, Nothings DEF Return, CoreTypes, Places, store
  <2>4. CASE Ends(t)
    BY <2>4 DEF Ends, CoreTypes, GoTo, Places, store
  <2> QED
    BY <1>3, <2>1, <2>2, <2>3, <2>4 DEF ThreadStep
<1>4. /\ handle' \in {"closed", "open", "flushed"} /\ workload' \in Workloads
      /\ stage' \in [Threads -> Places] /\ call' \in [Threads -> Calls]
      /\ reply' \in [Threads -> Answer] /\ data' \subseteq Keys
  BY <1>2, <1>3 DEF SharedStep, CoreTypes
<1> QED
  BY <1>1, <1>4 DEF CoreTypes

\* Threads are in calls only while the database is open.
LEMMA SharedCalls ==
  ASSUME CoreTypes, CallInv, UNCHANGED engine, SharedStep
  PROVE  CallInv'
<1>1. ASSUME DriverStep PROVE CallInv'
  <2>1. ASSUME \A t \in Threads : stage'[t] = "idle" PROVE CallInv'
    BY <2>1 DEF CallInv
  <2>2. CASE OpenDb
    <3>1. \A t \in Threads : stage[t] = "idle"
      BY <2>2 DEF OpenDb, CallInv
    <3> QED
      BY <2>1, <2>2, <3>1 DEF OpenDb
  <2>3. CASE FlushDb
    BY <2>3 DEF FlushDb, CallInv
  <2>4. CASE CloseDb /\ stage' = [t \in Threads |-> "idle"]
    BY <2>1, <2>4
  <2>5. CASE CloseDb /\ UNCHANGED stage /\ engine \notin Transactions
    <3>1. \A t \in Threads : stage[t] = "idle"
      BY <2>5 DEF CloseDb, CallInv
    <3> QED
      BY <2>1, <2>5, <3>1
  <2>6. CASE \E d \in SUBSET Keys : EndProgram(d)
    BY <2>1, <2>6 DEF EndProgram, NoThreadCalls
  <2>7. \/ OpenDb \/ FlushDb
        \/ CloseDb /\ stage' = [t \in Threads |-> "idle"]
        \/ CloseDb /\ UNCHANGED stage /\ engine \notin Transactions
        \/ \E d \in SUBSET Keys : EndProgram(d)
    BY <1>1, Zenon DEF DriverStep, Closes
  <2> QED
    BY <2>2, <2>3, <2>4, <2>5, <2>6, <2>7, Zenon
<1>2. ASSUME NEW t \in Threads, ThreadStep(t) PROVE CallInv'
  <2>1. \A u \in Threads \ {t} : stage'[u] = stage[u] /\ call'[u] = call[u]
    <3>1. stage' = [stage EXCEPT ![t] = stage'[t]] /\ call' = [call EXCEPT ![t] = call'[t]]
      BY <1>2 DEF ThreadStep, Invoke, Works, Return, Ends, GoTo, CoreTypes
    <3> QED
      BY <3>1 DEF CoreTypes
  <2>2. handle' = handle /\ workload' = workload
    BY <1>2 DEF ThreadStep, Invoke, Works, Return, Ends, store
  <2>3. CASE Invoke(t)
    <3>1. PICK kind \in workload.kinds : \E c \in CallsOf(kind, workload.lengths) :
            call' = [call EXCEPT ![t] = c]
      BY <2>3 DEF Invoke
    <3>2. PICK c \in CallsOf(kind, workload.lengths) : call' = [call EXCEPT ![t] = c]
      BY <3>1
    <3>3. c.kind = kind
      BY CallMade, CallerAssumption DEF CoreTypes
    <3>4. call'[t] = c /\ stage'[t] = "called" /\ handle = "open" /\ t \in workload.threads
      BY <2>3, <3>2 DEF Invoke, CoreTypes
    <3> QED
      BY <2>1, <2>2, <3>3, <3>4 DEF CallInv
  <2>4. CASE Works(t)
    <3>1. call'[t] = call[t] /\ stage[t] \notin {"idle", "ended"} /\ stage'[t] # "ended"
      BY <2>4 DEF Works, GoTo, CoreTypes, Between
    <3> QED
      BY <2>1, <2>2, <3>1 DEF CallInv
  <2>5. CASE Return(t)
    <3>1. stage'[t] = "idle"
      BY <2>5 DEF Return, CoreTypes
    <3> QED
      BY <2>1, <2>2, <3>1 DEF CallInv
  <2>6. CASE Ends(t)
    <3>1. stage'[t] = "ended" /\ handle = "flushed" /\ engine \in Transactions
      BY <2>6 DEF Ends, GoTo, CoreTypes
    <3> QED
      BY <2>1, <2>2, <3>1 DEF CallInv
  <2> QED
    BY <1>2, <2>3, <2>4, <2>5, <2>6 DEF ThreadStep
<1> QED
  BY <1>1, <1>2 DEF SharedStep

-----------------------------------------------------------------------------
(***************************************************************************)
(* What belongs to an engine stays as it is when another one is used.      *)
(***************************************************************************)

\* An engine that is not used keeps its part of the state.
LEMMA PartsApart ==
  ASSUME UNCHANGED engine
  PROVE  /\ WriterInv /\ engine # "lmdb" /\ UNCHANGED OfLMDB => WriterInv'
         /\ BulkInv /\ engine # "wiredtiger" /\ UNCHANGED OfWiredTiger => BulkInv'
         /\ PoolInv /\ engine # "mongodb" /\ UNCHANGED OfMongoDB => PoolInv'
         /\ ClientInv /\ engine \notin UStores /\ UNCHANGED OfUStore => ClientInv'
         /\ TransactionInv /\ engine \notin Transactions /\ UNCHANGED OfTransaction
              => TransactionInv'
<1>1. WriterInv /\ engine # "lmdb" /\ UNCHANGED OfLMDB => WriterInv'
  BY DEF OfLMDB, WriterInv
<1>2. BulkInv /\ engine # "wiredtiger" /\ UNCHANGED OfWiredTiger => BulkInv'
  BY DEF OfWiredTiger, BulkInv
<1>3. PoolInv /\ engine # "mongodb" /\ UNCHANGED OfMongoDB => PoolInv'
  BY DEF OfMongoDB, PoolInv
<1>4. ClientInv /\ engine \notin UStores /\ UNCHANGED OfUStore => ClientInv'
  BY DEF OfUStore, ClientInv, UStores
<1>5. TransactionInv /\ engine \notin Transactions /\ UNCHANGED OfTransaction => TransactionInv'
  BY DEF OfTransaction, TransactionInv
<1> QED
  BY <1>1, <1>2, <1>3, <1>4, <1>5

\* A thread has a result.
Told(t) == \E a \in Answer : reply' = [reply EXCEPT ![t] = a] /\ GoTo(t, "done")

\* Whatever an adapter reports of keys is a result.
LEMMA ResultTold ==
  ASSUME NEW t, NEW status \in Statuses, NEW touched \in Nat, NEW found \in SUBSET Keys
  PROVE  /\ Finish(t, status, touched, found) => Told(t)
         /\ Touch(t, found) => Told(t)
         /\ Reject(t, status) => Told(t)
<1>1. \A n \in Nat, keys \in SUBSET Keys, s \in Statuses : Finish(t, s, n, keys) => Told(t)
  BY DEF Finish, Told, GoTo, Answer
<1>2. Cardinality(found) \in Nat /\ {} \in SUBSET Keys /\ "ok" \in Statuses
  BY KeysFinite DEF Statuses
<1> QED
  BY <1>1, <1>2 DEF Touch, Reject

-----------------------------------------------------------------------------
(***************************************************************************)
(* LevelDB.                                                                *)
(***************************************************************************)

\* What the adapter of LevelDB says of the callers is what is said here.
LEMMA LevelDBCallers ==
  /\ \A S : LevelDB!Cardinality(S) = Cardinality(S)
  /\ \A t : LevelDB!KeysOf(t) = KeysOf(t) /\ LevelDB!Key(t) = Key(t)
            /\ LevelDB!Size(t) = Size(t) /\ LevelDB!Length(t) = Length(t)
  /\ \A S, n : /\ LevelDB!FirstBytes(S, n) = FirstBytes(S, n)
               /\ LevelDB!FirstNumbers(S, n) = FirstNumbers(S, n)
  /\ \A m, n : LevelDB!Before(m, n) <=> Before(m, n)
  /\ \A t, status, touched, found :
       LevelDB!Finish(t, status, touched, found) <=> Finish(t, status, touched, found)
  /\ \A t, found, status : /\ LevelDB!Touch(t, found) <=> Touch(t, found)
                           /\ LevelDB!Reject(t, status) <=> Reject(t, status)
                           /\ LevelDB!Broken(t, status) <=> Broken(t, status)
  /\ \A t, place, kinds : /\ LevelDB!GoTo(t, place) <=> GoTo(t, place)
                          /\ LevelDB!At(t, place, kinds) <=> At(t, place, kinds)
                          /\ LevelDB!Called(t, kinds) <=> Called(t, kinds)
  /\ \A t : (LevelDB!Invoke(t) <=> Invoke(t)) /\ (LevelDB!Return(t) <=> Return(t))
  /\ LevelDB!store = store /\ (LevelDB!OpenDb <=> OpenDb)
  /\ (LevelDB!FlushDb <=> FlushDb) /\ (LevelDB!CloseDb <=> CloseDb)
<1>1. \A S : LevelDB!Cardinality(S) = Cardinality(S)
  BY Zenon DEF LevelDB!Cardinality, Cardinality
<1>2. \A t : LevelDB!KeysOf(t) = KeysOf(t) /\ LevelDB!Key(t) = Key(t)
            /\ LevelDB!Size(t) = Size(t) /\ LevelDB!Length(t) = Length(t)
  BY Zenon DEF LevelDB!KeysOf, KeysOf, LevelDB!Range, Range, LevelDB!Key, Key, LevelDB!Size, Size,
               LevelDB!Length, Length
<1>3. \A t, status, touched, found :
        LevelDB!Finish(t, status, touched, found) <=> Finish(t, status, touched, found)
  BY Zenon DEF LevelDB!Finish, Finish
<1>4. \A t, found, status : /\ LevelDB!Touch(t, found) <=> Touch(t, found)
                            /\ LevelDB!Reject(t, status) <=> Reject(t, status)
                            /\ LevelDB!Broken(t, status) <=> Broken(t, status)
  BY <1>1, <1>3, Zenon DEF LevelDB!Touch, Touch, LevelDB!Reject, Reject, LevelDB!Broken, Broken
<1>5. \A t, place, kinds : /\ LevelDB!GoTo(t, place) <=> GoTo(t, place)
                           /\ LevelDB!At(t, place, kinds) <=> At(t, place, kinds)
                           /\ LevelDB!Called(t, kinds) <=> Called(t, kinds)
  BY Zenon DEF LevelDB!GoTo, GoTo, LevelDB!At, At, LevelDB!Called, Called
<1>6. \A t : (LevelDB!Invoke(t) <=> Invoke(t)) /\ (LevelDB!Return(t) <=> Return(t))
  <2>1. \A kind, lengths : LevelDB!CallsOf(kind, lengths) = CallsOf(kind, lengths)
    BY Zenon DEF LevelDB!CallsOf, CallsOf, LevelDB!Batches, Batches, LevelDB!IsInjective,
                 IsInjective,
                 LevelDB!Ascending, Ascending
  <2> QED
    BY <2>1, Zenon DEF LevelDB!Invoke, Invoke, LevelDB!Return, Return, LevelDB!store, store,
                       LevelDB!NoCall, NoCall, LevelDB!NoAnswer, NoAnswer
<1>7. /\ LevelDB!store = store /\ (LevelDB!OpenDb <=> OpenDb)
      /\ (LevelDB!FlushDb <=> FlushDb) /\ (LevelDB!CloseDb <=> CloseDb)
  BY Zenon DEF LevelDB!store, store, LevelDB!OpenDb, OpenDb, LevelDB!FlushDb, FlushDb,
               LevelDB!CloseDb, CloseDb
<1>8. \A m, n : LevelDB!Before(m, n) <=> Before(m, n)
  BY Zenon DEF LevelDB!Before, Before, LevelDB!Swap, Swap
<1>9. \A S, n : /\ LevelDB!FirstBytes(S, n) = FirstBytes(S, n)
                /\ LevelDB!FirstNumbers(S, n) = FirstNumbers(S, n)
  BY <1>1, <1>8, Zenon DEF LevelDB!FirstBytes, FirstBytes, LevelDB!FirstNumbers, FirstNumbers
<1> QED
  BY <1>1, <1>2, <1>3, <1>4, <1>5, <1>6, <1>7, <1>8, <1>9

\* A thread in a call to LevelDB works on it, or returns.
LEMMA LevelDBWorks ==
  ASSUME CoreTypes, CallInv, NEW t \in Threads, LevelDB!Progress(t)
  PROVE  Works(t) \/ Return(t)
<1>1. CASE LevelDB!Return(t)
  BY <1>1, LevelDBCallers
<1>2. ASSUME \/ LevelDB!Upsert(t) \/ LevelDB!UpdateGet(t) \/ LevelDB!Remove(t)
             \/ LevelDB!Read(t) \/ LevelDB!BatchUpsert(t) \/ LevelDB!BatchRead(t)
             \/ LevelDB!Iterate(t)
      PROVE  Works(t)
  <2>1. stage[t] \in {"called", "put"} /\ UNCHANGED <<store, call>>
    BY <1>2, LevelDBCallers DEF LevelDB!Upsert, LevelDB!UpdateGet, LevelDB!Remove, LevelDB!Read,
         LevelDB!BatchUpsert, LevelDB!BatchRead, LevelDB!Iterate, Called, At, LevelDB!store, store
  <2>2. KeysOf(t) \subseteq Keys /\ Size(t) \in Nat /\ data \subseteq Keys
    BY <2>1, CallOf DEF CoreTypes
  <2>3. /\ \A found \in SUBSET Keys : LevelDB!Touch(t, found) => Told(t)
        /\ \A status \in Statuses : LevelDB!Reject(t, status) => Told(t)
        /\ LevelDB!Finish(t, "error", Size(t), {}) => Told(t)
    <3>1. {} \in SUBSET Keys /\ "error" \in Statuses
      BY DEF Statuses
    <3> QED
      BY <2>2, <3>1, LevelDBCallers, ResultTold
  <2>4. CASE LevelDB!Upsert(t) \/ LevelDB!Remove(t)
    <3>1. LevelDB!KeysOf(t) = KeysOf(t)
      BY LevelDBCallers
    <3>2. \/ LevelDB!Touch(t, KeysOf(t)) /\ data' \in {data \cup KeysOf(t), data \ KeysOf(t)}
          \/ LevelDB!Reject(t, "error") /\ UNCHANGED data
      BY <2>4, <3>1, Zenon DEF LevelDB!Upsert, LevelDB!Remove, LevelDB!Write, LevelDB!Broken
    <3> QED
      BY <2>1, <2>2, <2>3, <3>2 DEF Works, Told, Statuses
  <2>5. CASE LevelDB!UpdateGet(t) \/ LevelDB!Read(t)
    <3>1. UNCHANGED data /\ \/ GoTo(t, "put") /\ UNCHANGED reply
                            \/ LevelDB!Touch(t, KeysOf(t))
                            \/ \E status \in Statuses : LevelDB!Reject(t, status)
      BY <2>5, LevelDBCallers DEF LevelDB!UpdateGet, LevelDB!Read, LevelDB!Broken, Statuses
    <3> QED
      BY <2>1, <2>2, <2>3, <3>1 DEF Works, Told, Between
  <2>6. CASE LevelDB!BatchUpsert(t)
    <3>1. \/ LevelDB!Touch(t, KeysOf(t)) /\ data' = data \cup KeysOf(t)
          \/ LevelDB!Finish(t, "error", Size(t), {}) /\ UNCHANGED data
      <4>1. LevelDB!KeysOf(t) = KeysOf(t) /\ LevelDB!Size(t) = Size(t)
        BY LevelDBCallers
      <4> QED
        BY <2>6, <4>1, Zenon DEF LevelDB!BatchUpsert, LevelDB!Write
    <3> QED
      BY <2>1, <2>2, <2>3, <3>1 DEF Works, Told
  <2>7. CASE LevelDB!BatchRead(t) \/ LevelDB!Iterate(t)
    <3>1. UNCHANGED data /\ \E found \in SUBSET data : LevelDB!Touch(t, found)
      BY <2>7 DEF LevelDB!BatchRead, LevelDB!Iterate, LevelDB!FirstBytes
    <3> QED
      BY <2>1, <2>2, <2>3, <3>1 DEF Works, Told
  <2> QED
    BY <1>2, <2>4, <2>5, <2>6, <2>7
<1> QED
  BY <1>1, <1>2 DEF LevelDB!Progress

\* LevelDB keeps the invariants.
LEMMA LevelDBKeeps ==
  ASSUME AdaptersInv, OnLevelDB(LevelDB!Next)
  PROVE  AdaptersInv'
<1>1. engine = "leveldb" /\ UNCHANGED engine /\ LevelDB!Next
      /\ UNCHANGED <<OfLMDB, OfWiredTiger, OfMongoDB, OfUStore, OfTransaction>>
  BY DEF OnLevelDB
<1>2. SharedStep
  <2>1. CASE LevelDB!Open \/ LevelDB!Flush \/ LevelDB!Close
    BY <1>1, <2>1, LevelDBCallers DEF LevelDB!Open, LevelDB!Flush, LevelDB!Close, SharedStep,
         DriverStep, Closes, Transactions, AdaptersInv, CoreTypes
  <2>2. CASE \E t \in Threads : LevelDB!Invoke(t) \/ LevelDB!Progress(t)
    BY <2>2, LevelDBCallers, LevelDBWorks DEF SharedStep, ThreadStep, AdaptersInv
  <2> QED
    BY <1>1, <2>1, <2>2 DEF LevelDB!Next
<1>3. CoreTypes' /\ CallInv'
  BY <1>1, <1>2, SharedTypes, SharedCalls DEF AdaptersInv
<1> QED
  BY <1>1, <1>3, PartsApart DEF AdaptersInv, UStores, Transactions

-----------------------------------------------------------------------------
(***************************************************************************)
(* LMDB.                                                                   *)
(***************************************************************************)

\* What the adapter of LMDB says of the callers is what is said here.
LEMMA LMDBCallers ==
  /\ \A S : LMDB!Cardinality(S) = Cardinality(S)
  /\ \A t : LMDB!KeysOf(t) = KeysOf(t) /\ LMDB!Key(t) = Key(t)
            /\ LMDB!Size(t) = Size(t) /\ LMDB!Length(t) = Length(t)
  /\ \A S, n : /\ LMDB!FirstBytes(S, n) = FirstBytes(S, n)
               /\ LMDB!FirstNumbers(S, n) = FirstNumbers(S, n)
  /\ \A m, n : LMDB!Before(m, n) <=> Before(m, n)
  /\ \A t, status, touched, found :
       LMDB!Finish(t, status, touched, found) <=> Finish(t, status, touched, found)
  /\ \A t, found, status : /\ LMDB!Touch(t, found) <=> Touch(t, found)
                           /\ LMDB!Reject(t, status) <=> Reject(t, status)
                           /\ LMDB!Broken(t, status) <=> Broken(t, status)
  /\ \A t, place, kinds : /\ LMDB!GoTo(t, place) <=> GoTo(t, place)
                          /\ LMDB!At(t, place, kinds) <=> At(t, place, kinds)
                          /\ LMDB!Called(t, kinds) <=> Called(t, kinds)
  /\ \A t : (LMDB!Invoke(t) <=> Invoke(t)) /\ (LMDB!Return(t) <=> Return(t))
  /\ LMDB!store = store /\ (LMDB!OpenDb <=> OpenDb)
  /\ (LMDB!FlushDb <=> FlushDb) /\ (LMDB!CloseDb <=> CloseDb)
<1>1. \A S : LMDB!Cardinality(S) = Cardinality(S)
  BY Zenon DEF LMDB!Cardinality, Cardinality
<1>2. \A t : LMDB!KeysOf(t) = KeysOf(t) /\ LMDB!Key(t) = Key(t)
            /\ LMDB!Size(t) = Size(t) /\ LMDB!Length(t) = Length(t)
  BY Zenon DEF LMDB!KeysOf, KeysOf, LMDB!Range, Range, LMDB!Key, Key, LMDB!Size, Size,
               LMDB!Length, Length
<1>3. \A t, status, touched, found :
        LMDB!Finish(t, status, touched, found) <=> Finish(t, status, touched, found)
  BY Zenon DEF LMDB!Finish, Finish
<1>4. \A t, found, status : /\ LMDB!Touch(t, found) <=> Touch(t, found)
                            /\ LMDB!Reject(t, status) <=> Reject(t, status)
                            /\ LMDB!Broken(t, status) <=> Broken(t, status)
  BY <1>1, <1>3, Zenon DEF LMDB!Touch, Touch, LMDB!Reject, Reject, LMDB!Broken, Broken
<1>5. \A t, place, kinds : /\ LMDB!GoTo(t, place) <=> GoTo(t, place)
                           /\ LMDB!At(t, place, kinds) <=> At(t, place, kinds)
                           /\ LMDB!Called(t, kinds) <=> Called(t, kinds)
  BY Zenon DEF LMDB!GoTo, GoTo, LMDB!At, At, LMDB!Called, Called
<1>6. \A t : (LMDB!Invoke(t) <=> Invoke(t)) /\ (LMDB!Return(t) <=> Return(t))
  <2>1. \A kind, lengths : LMDB!CallsOf(kind, lengths) = CallsOf(kind, lengths)
    BY Zenon DEF LMDB!CallsOf, CallsOf, LMDB!Batches, Batches, LMDB!IsInjective, IsInjective,
                 LMDB!Ascending, Ascending
  <2> QED
    BY <2>1, Zenon DEF LMDB!Invoke, Invoke, LMDB!Return, Return, LMDB!store, store,
                       LMDB!NoCall, NoCall, LMDB!NoAnswer, NoAnswer
<1>7. /\ LMDB!store = store /\ (LMDB!OpenDb <=> OpenDb)
      /\ (LMDB!FlushDb <=> FlushDb) /\ (LMDB!CloseDb <=> CloseDb)
  BY Zenon DEF LMDB!store, store, LMDB!OpenDb, OpenDb, LMDB!FlushDb, FlushDb,
               LMDB!CloseDb, CloseDb
<1>8. \A m, n : LMDB!Before(m, n) <=> Before(m, n)
  BY Zenon DEF LMDB!Before, Before, LMDB!Swap, Swap
<1>9. \A S, n : /\ LMDB!FirstBytes(S, n) = FirstBytes(S, n)
                /\ LMDB!FirstNumbers(S, n) = FirstNumbers(S, n)
  BY <1>1, <1>8, Zenon DEF LMDB!FirstBytes, FirstBytes, LMDB!FirstNumbers, FirstNumbers
<1> QED
  BY <1>1, <1>2, <1>3, <1>4, <1>5, <1>6, <1>7, <1>8, <1>9

\* A thread in a call to LMDB waits for no other to begin, or is the writer and
\* ends, or does not write, or returns.
LEMMA LMDBWorks ==
  ASSUME CoreTypes, CallInv, NEW t \in Threads, LMDB!Progress(t)
  PROVE  /\ Works(t) \/ Return(t)
         /\ \/ writer = {} /\ writer' = {t} /\ GoTo(t, "begun")
            \/ stage[t] \in {"called", "done"} /\ writer' = writer
                 /\ \E place \in {"done", "idle"} : GoTo(t, place)
            \/ stage[t] = "begun" /\ writer' = writer \ {t} /\ GoTo(t, "done")
<1>1. CASE LMDB!Return(t) /\ UNCHANGED writer
  BY <1>1, LMDBCallers DEF Return, GoTo
<1>2. ASSUME \/ LMDB!Begin(t) \/ LMDB!Upsert(t) \/ LMDB!Update(t) \/ LMDB!Remove(t)
             \/ LMDB!Read(t) \/ LMDB!BatchUpsert(t) \/ LMDB!BatchRead(t) \/ LMDB!Iterate(t)
      PROVE  /\ Works(t)
             /\ \/ writer = {} /\ writer' = {t} /\ GoTo(t, "begun")
                \/ stage[t] = "called" /\ writer' = writer /\ GoTo(t, "done")
                \/ stage[t] = "begun" /\ writer' = writer \ {t} /\ GoTo(t, "done")
  <2>1. stage[t] \in {"called", "begun"} /\ UNCHANGED <<store, call>>
    BY <1>2, LMDBCallers DEF LMDB!Begin, LMDB!Upsert, LMDB!Update, LMDB!Remove, LMDB!Read,
         LMDB!BatchUpsert, LMDB!BatchRead, LMDB!Iterate, LMDB!End, Called, At, LMDB!store, store
  <2>2. KeysOf(t) \subseteq Keys /\ Size(t) \in Nat /\ data \subseteq Keys
    BY <2>1, CallOf DEF CoreTypes
  <2>3. /\ \A found \in SUBSET Keys : LMDB!Touch(t, found) => Told(t)
        /\ \A status \in Statuses : LMDB!Reject(t, status) => Told(t)
        /\ LMDB!Finish(t, "error", Size(t), {}) => Told(t)
        /\ Told(t) => GoTo(t, "done")
    <3>1. {} \in SUBSET Keys /\ "error" \in Statuses
      BY DEF Statuses
    <3> QED
      BY <2>2, <3>1, LMDBCallers, ResultTold DEF Told
  <2>4. CASE LMDB!Begin(t)
    <3>1. stage[t] = "called"
          /\ \/ writer = {} /\ writer' = {t} /\ GoTo(t, "begun") /\ UNCHANGED <<reply, data>>
             \/ LMDB!Reject(t, "error") /\ UNCHANGED <<data, writer>>
      BY <2>4, LMDBCallers DEF LMDB!Begin, LMDB!Broken, Called, At
    <3> QED
      BY <2>1, <2>2, <2>3, <3>1 DEF Works, Told, Statuses, Between
  <2>5. CASE LMDB!Upsert(t) \/ LMDB!BatchUpsert(t)
    <3>1. LMDB!KeysOf(t) = KeysOf(t) /\ LMDB!Size(t) = Size(t)
      BY LMDBCallers
    <3>2. /\ stage[t] = "begun" /\ writer' = writer \ {t}
          /\ \/ LMDB!Touch(t, KeysOf(t)) /\ data' = data \cup KeysOf(t)
             \/ LMDB!Reject(t, "error") /\ UNCHANGED data
             \/ LMDB!Finish(t, "error", Size(t), {}) /\ UNCHANGED data
      BY <2>5, <3>1, Zenon DEF LMDB!Upsert, LMDB!BatchUpsert, LMDB!Broken, LMDB!End, LMDB!At
    <3> QED
      BY <2>1, <2>2, <2>3, <3>2 DEF Works, Told, Statuses
  <2>6. CASE LMDB!Update(t) \/ LMDB!Read(t)
    <3>1. /\ stage[t] = "called" /\ UNCHANGED <<data, writer>>
          /\ \/ LMDB!Touch(t, KeysOf(t)) \/ \E status \in Statuses : LMDB!Reject(t, status)
      BY <2>6, LMDBCallers DEF LMDB!Update, LMDB!Read, Called, At, Statuses
    <3> QED
      BY <2>1, <2>2, <2>3, <3>1 DEF Works, Told
  <2>7. CASE LMDB!Remove(t)
    <3>1. /\ stage[t] = "begun" /\ writer' = writer \ {t}
          /\ \/ LMDB!Touch(t, KeysOf(t)) /\ data' = data \ KeysOf(t)
             \/ UNCHANGED data /\ \E status \in Statuses : LMDB!Reject(t, status)
      BY <2>7, LMDBCallers DEF LMDB!Remove, LMDB!Broken, LMDB!End, At, Statuses
    <3> QED
      BY <2>1, <2>2, <2>3, <3>1 DEF Works, Told
  <2>8. CASE LMDB!BatchRead(t)
    <3>1. /\ stage[t] = "called" /\ UNCHANGED <<data, writer>>
          /\ \/ \E found \in SUBSET data : LMDB!Touch(t, found)
             \/ LMDB!Reject(t, "error")
      BY <2>8, LMDBCallers DEF LMDB!BatchRead, Called, At
    <3> QED
      BY <2>1, <2>2, <2>3, <3>1 DEF Works, Told, Statuses
  <2>9. CASE LMDB!Iterate(t)
    <3>1. /\ stage[t] = "begun" /\ writer' = writer \ {t} /\ UNCHANGED data
          /\ \/ \E found \in SUBSET data : LMDB!Touch(t, found)
             \/ \E status \in Statuses : LMDB!Reject(t, status)
      BY <2>9, LMDBCallers DEF LMDB!Iterate, LMDB!Broken, LMDB!End, LMDB!FirstBytes, At, Statuses
    <3> QED
      BY <2>1, <2>2, <2>3, <3>1 DEF Works, Told
  <2> QED
    BY <1>2, <2>4, <2>5, <2>6, <2>7, <2>8, <2>9
<1> QED
  BY <1>1, <1>2 DEF LMDB!Progress

\* LMDB keeps the invariants: a thread becomes the writer when there is none.
LEMMA LMDBKeeps ==
  ASSUME AdaptersInv, OnLMDB(LMDB!Next)
  PROVE  AdaptersInv'
<1>1. /\ engine = "lmdb" /\ UNCHANGED engine /\ LMDB!Next
      /\ UNCHANGED <<OfWiredTiger, OfMongoDB, OfUStore, OfTransaction>>
  BY DEF OnLMDB
<1>2. CASE LMDB!Open \/ LMDB!Flush \/ LMDB!Close
  <2>1. SharedStep /\ UNCHANGED <<writer, stage>>
    BY <1>1, <1>2, LMDBCallers DEF LMDB!Open, LMDB!Flush, LMDB!Close, SharedStep,
         DriverStep, Closes, OpenDb, FlushDb, Transactions, AdaptersInv, CoreTypes
  <2>2. WriterInv'
    BY <1>1, <2>1 DEF AdaptersInv, WriterInv, Begun
  <2> QED
    BY <1>1, <2>1, <2>2, SharedTypes, SharedCalls, PartsApart
       DEF AdaptersInv, UStores, Transactions
<1>3. ASSUME NEW t \in Threads, LMDB!Progress(t) \/ (LMDB!Invoke(t) /\ UNCHANGED writer)
      PROVE  AdaptersInv'
  <2>1. /\ writer = Begun /\ \A u, v \in writer : u = v
        /\ stage \in [Threads -> Places]
    BY <1>1 DEF AdaptersInv, WriterInv, CoreTypes
  <2>2. SharedStep /\ WriterInv'
    <3>1. CASE LMDB!Progress(t)
      <4>1. SharedStep
        BY <3>1, LMDBWorks DEF AdaptersInv, SharedStep, ThreadStep
      <4>2. \/ writer = {} /\ writer' = {t} /\ GoTo(t, "begun")
            \/ stage[t] \in {"called", "done"} /\ writer' = writer
                 /\ \E place \in {"done", "idle"} : GoTo(t, place)
            \/ stage[t] = "begun" /\ writer' = writer \ {t} /\ GoTo(t, "done")
        BY <3>1, LMDBWorks DEF AdaptersInv
      <4>3. writer' = Begun'
        BY <2>1, <4>2 DEF GoTo, Begun
      <4>4. \A u, v \in writer' : u = v
        BY <2>1, <4>2
      <4> QED
        BY <1>1, <4>1, <4>3, <4>4 DEF WriterInv
    <3>2. CASE LMDB!Invoke(t) /\ UNCHANGED writer
      <4>1. Invoke(t) /\ UNCHANGED writer
        BY <3>2, LMDBCallers
      <4>2. stage[t] = "idle" /\ stage' = [stage EXCEPT ![t] = "called"]
        BY <4>1 DEF Invoke
      <4>3. writer' = Begun'
        BY <2>1, <4>1, <4>2 DEF Begun
      <4> QED
        BY <1>1, <2>1, <4>1, <4>3 DEF WriterInv, SharedStep, ThreadStep
    <3> QED
      BY <1>3, <3>1, <3>2
  <2> QED
    BY <1>1, <2>2, SharedTypes, SharedCalls, PartsApart DEF AdaptersInv, UStores, Transactions
<1> QED
  BY <1>1, <1>2, <1>3, Zenon DEF LMDB!Next

-----------------------------------------------------------------------------
(***************************************************************************)
(* WiredTiger.                                                             *)
(***************************************************************************)

\* What the adapter of WiredTiger says of the callers is what is said here.
LEMMA WiredTigerCallers ==
  /\ \A S : WiredTiger!Cardinality(S) = Cardinality(S)
  /\ \A t : WiredTiger!KeysOf(t) = KeysOf(t) /\ WiredTiger!Key(t) = Key(t)
            /\ WiredTiger!Size(t) = Size(t) /\ WiredTiger!Length(t) = Length(t)
  /\ \A S, n : /\ WiredTiger!FirstBytes(S, n) = FirstBytes(S, n)
               /\ WiredTiger!FirstNumbers(S, n) = FirstNumbers(S, n)
  /\ \A m, n : WiredTiger!Before(m, n) <=> Before(m, n)
  /\ \A t, status, touched, found :
       WiredTiger!Finish(t, status, touched, found) <=> Finish(t, status, touched, found)
  /\ \A t, found, status : /\ WiredTiger!Touch(t, found) <=> Touch(t, found)
                           /\ WiredTiger!Reject(t, status) <=> Reject(t, status)
                           /\ WiredTiger!Broken(t, status) <=> Broken(t, status)
  /\ \A t, place, kinds : /\ WiredTiger!GoTo(t, place) <=> GoTo(t, place)
                          /\ WiredTiger!At(t, place, kinds) <=> At(t, place, kinds)
                          /\ WiredTiger!Called(t, kinds) <=> Called(t, kinds)
  /\ \A t : (WiredTiger!Invoke(t) <=> Invoke(t)) /\ (WiredTiger!Return(t) <=> Return(t))
  /\ WiredTiger!store = store /\ (WiredTiger!OpenDb <=> OpenDb)
  /\ (WiredTiger!FlushDb <=> FlushDb) /\ (WiredTiger!CloseDb <=> CloseDb)
<1>1. \A S : WiredTiger!Cardinality(S) = Cardinality(S)
  BY Zenon DEF WiredTiger!Cardinality, Cardinality
<1>2. \A t : WiredTiger!KeysOf(t) = KeysOf(t) /\ WiredTiger!Key(t) = Key(t)
            /\ WiredTiger!Size(t) = Size(t) /\ WiredTiger!Length(t) = Length(t)
  BY Zenon DEF WiredTiger!KeysOf, KeysOf, WiredTiger!Range, Range, WiredTiger!Key, Key,
               WiredTiger!Size, Size,
               WiredTiger!Length, Length
<1>3. \A t, status, touched, found :
        WiredTiger!Finish(t, status, touched, found) <=> Finish(t, status, touched, found)
  BY Zenon DEF WiredTiger!Finish, Finish
<1>4. \A t, found, status : /\ WiredTiger!Touch(t, found) <=> Touch(t, found)
                            /\ WiredTiger!Reject(t, status) <=> Reject(t, status)
                            /\ WiredTiger!Broken(t, status) <=> Broken(t, status)
  BY <1>1, <1>3, Zenon DEF WiredTiger!Touch, Touch, WiredTiger!Reject, Reject, WiredTiger!Broken,
                           Broken
<1>5. \A t, place, kinds : /\ WiredTiger!GoTo(t, place) <=> GoTo(t, place)
                           /\ WiredTiger!At(t, place, kinds) <=> At(t, place, kinds)
                           /\ WiredTiger!Called(t, kinds) <=> Called(t, kinds)
  BY Zenon DEF WiredTiger!GoTo, GoTo, WiredTiger!At, At, WiredTiger!Called, Called
<1>6. \A t : (WiredTiger!Invoke(t) <=> Invoke(t)) /\ (WiredTiger!Return(t) <=> Return(t))
  <2>1. \A kind, lengths : WiredTiger!CallsOf(kind, lengths) = CallsOf(kind, lengths)
    BY Zenon DEF WiredTiger!CallsOf, CallsOf, WiredTiger!Batches, Batches,
                 WiredTiger!IsInjective, IsInjective,
                 WiredTiger!Ascending, Ascending
  <2> QED
    BY <2>1, Zenon DEF WiredTiger!Invoke, Invoke, WiredTiger!Return, Return, WiredTiger!store,
                       store,
                       WiredTiger!NoCall, NoCall, WiredTiger!NoAnswer, NoAnswer
<1>7. /\ WiredTiger!store = store /\ (WiredTiger!OpenDb <=> OpenDb)
      /\ (WiredTiger!FlushDb <=> FlushDb) /\ (WiredTiger!CloseDb <=> CloseDb)
  BY Zenon DEF WiredTiger!store, store, WiredTiger!OpenDb, OpenDb, WiredTiger!FlushDb, FlushDb,
               WiredTiger!CloseDb, CloseDb
<1>8. \A m, n : WiredTiger!Before(m, n) <=> Before(m, n)
  BY Zenon DEF WiredTiger!Before, Before, WiredTiger!Swap, Swap
<1>9. \A S, n : /\ WiredTiger!FirstBytes(S, n) = FirstBytes(S, n)
                /\ WiredTiger!FirstNumbers(S, n) = FirstNumbers(S, n)
  BY <1>1, <1>8, Zenon DEF WiredTiger!FirstBytes, FirstBytes, WiredTiger!FirstNumbers, FirstNumbers
<1> QED
  BY <1>1, <1>2, <1>3, <1>4, <1>5, <1>6, <1>7, <1>8, <1>9

\* A thread in a call to WiredTiger works on it, or returns.
LEMMA WiredTigerWorks ==
  ASSUME CoreTypes, CallInv, BulkInv, NEW t \in Threads, WiredTiger!Progress(t)
  PROVE  /\ Works(t) \/ Return(t)
         /\ bulk' \in {"none", "open", "dangling"}
<1>1. CASE WiredTiger!Return(t) /\ UNCHANGED bulk
  BY <1>1, WiredTigerCallers DEF BulkInv
<1>2. ASSUME \/ WiredTiger!Put(t) \/ WiredTiger!Remove(t) \/ WiredTiger!Read(t)
             \/ WiredTiger!BatchUpsert(t) \/ WiredTiger!BatchRead(t) \/ WiredTiger!TestCursor(t)
             \/ WiredTiger!StartSession(t) \/ WiredTiger!OpenCursor(t) \/ WiredTiger!Insert(t)
             \/ WiredTiger!Iterate(t)
      PROVE  Works(t) /\ bulk' \in {"none", "open", "dangling"}
  <2>1. /\ stage[t] \in {"called", "session", "cursor", "insert"} /\ UNCHANGED <<store, call>>
        /\ bulk' \in {"none", "open", "dangling"}
    BY <1>2, WiredTigerCallers DEF WiredTiger!Put, WiredTiger!Remove, WiredTiger!Read,
         WiredTiger!BatchUpsert, WiredTiger!BatchRead, WiredTiger!TestCursor,
         WiredTiger!StartSession, WiredTiger!OpenCursor, WiredTiger!Insert, WiredTiger!Iterate,
         Called, At, WiredTiger!store, store, BulkInv
  <2>2. KeysOf(t) \subseteq Keys /\ Size(t) \in Nat /\ data \subseteq Keys
    BY <2>1, CallOf DEF CoreTypes
  <2>3. /\ \A found \in SUBSET Keys : WiredTiger!Touch(t, found) => Told(t)
        /\ \A status \in Statuses : WiredTiger!Reject(t, status) => Told(t)
        /\ \A found \in SUBSET Keys : WiredTiger!Finish(t, "ok", Size(t), found) => Told(t)
    <3>1. "ok" \in Statuses
      BY DEF Statuses
    <3> QED
      BY <2>2, <3>1, WiredTigerCallers, ResultTold
  <2>4. CASE WiredTiger!Put(t) \/ WiredTiger!Remove(t)
    <3>1. WiredTiger!KeysOf(t) = KeysOf(t)
      BY WiredTigerCallers
    <3>2. \/ WiredTiger!Touch(t, KeysOf(t)) /\ data' \in {data \cup KeysOf(t), data \ KeysOf(t)}
          \/ WiredTiger!Reject(t, "error") /\ UNCHANGED data
      BY <2>4, <3>1, Zenon DEF WiredTiger!Put, WiredTiger!Remove, WiredTiger!Broken
    <3> QED
      BY <2>1, <2>2, <2>3, <3>2 DEF Works, Told, Statuses
  <2>5. CASE WiredTiger!Read(t) \/ WiredTiger!Iterate(t)
    <3>1. /\ UNCHANGED data
          /\ \/ WiredTiger!Touch(t, KeysOf(t))
             \/ \E found \in SUBSET data : WiredTiger!Touch(t, found)
             \/ \E status \in Statuses : WiredTiger!Reject(t, status)
      BY <2>5, WiredTigerCallers DEF WiredTiger!Read, WiredTiger!Iterate, WiredTiger!FirstNumbers,
           Statuses
    <3> QED
      BY <2>1, <2>2, <2>3, <3>1 DEF Works, Told
  <2>6. CASE WiredTiger!BatchUpsert(t)
    <3>1. \/ \E part \in SUBSET KeysOf(t) : data' = data \cup part /\ WiredTiger!Touch(t, part)
          \/ WiredTiger!Reject(t, "error") /\ UNCHANGED data
      BY <2>6, WiredTigerCallers DEF WiredTiger!BatchUpsert, WiredTiger!Broken
    <3> QED
      BY <2>1, <2>2, <2>3, <3>1 DEF Works, Told, Statuses
  <2>7. CASE WiredTiger!BatchRead(t)
    <3>1. /\ UNCHANGED data
          /\ \/ \E found \in SUBSET data : WiredTiger!Touch(t, found)
             \/ WiredTiger!Reject(t, "error")
      BY <2>7, WiredTigerCallers DEF WiredTiger!BatchRead
    <3> QED
      BY <2>1, <2>2, <2>3, <3>1 DEF Works, Told, Statuses
  <2>8. CASE WiredTiger!TestCursor(t) \/ WiredTiger!StartSession(t)
    <3>1. UNCHANGED <<reply, data>> /\ \E place \in Between : GoTo(t, place)
      BY <2>8, WiredTigerCallers DEF WiredTiger!TestCursor, WiredTiger!StartSession, Between
    <3> QED
      BY <2>1, <2>2, <3>1 DEF Works
  <2>9. CASE WiredTiger!OpenCursor(t)
    <3>1. /\ UNCHANGED data
          /\ \/ GoTo(t, "insert") /\ UNCHANGED reply
             \/ WiredTiger!Reject(t, "error")
      BY <2>9, WiredTigerCallers DEF WiredTiger!OpenCursor
    <3> QED
      BY <2>1, <2>2, <2>3, <3>1 DEF Works, Told, Statuses, Between
  <2>10. CASE WiredTiger!Insert(t)
    <3>1. /\ data' \subseteq data \cup KeysOf(t)
          /\ WiredTiger!Finish(t, "ok", Size(t), KeysOf(t) \cap data')
      BY <2>10, WiredTigerCallers DEF WiredTiger!Insert
    <3> QED
      BY <2>1, <2>2, <2>3, <3>1 DEF Works, Told
  <2> QED
    BY <1>2, <2>1, <2>4, <2>5, <2>6, <2>7, <2>8, <2>9, <2>10
<1> QED
  BY <1>1, <1>2 DEF WiredTiger!Progress

\* WiredTiger keeps the invariants: it has a bulk cursor in calls only, and the
\* flush drops it.
LEMMA WiredTigerKeeps ==
  ASSUME AdaptersInv, OnWiredTiger(WiredTiger!Next)
  PROVE  AdaptersInv'
<1>1. /\ engine = "wiredtiger" /\ UNCHANGED engine /\ WiredTiger!Next
      /\ UNCHANGED <<OfLMDB, OfMongoDB, OfUStore, OfTransaction>>
  BY DEF OnWiredTiger
<1>2. SharedStep /\ BulkInv'
  <2>1. CASE WiredTiger!Open \/ WiredTiger!Flush
    BY <1>1, <2>1, WiredTigerCallers DEF WiredTiger!Open, WiredTiger!Flush, SharedStep,
         DriverStep, OpenDb, AdaptersInv, CoreTypes, BulkInv
  <2>2. CASE WiredTiger!Close
    <3>1. CloseDb /\ UNCHANGED stage /\ handle = "flushed" /\ handle' = "closed"
      BY <2>2, WiredTigerCallers DEF WiredTiger!Close, CloseDb
    <3>2. bulk = "none" /\ bulk' = "none"
      BY <2>2, <3>1 DEF WiredTiger!Close, AdaptersInv, BulkInv
    <3> QED
      BY <1>1, <3>1, <3>2 DEF SharedStep, DriverStep, Closes, Transactions, BulkInv
  <2>3. ASSUME NEW t \in Threads, WiredTiger!Progress(t) PROVE SharedStep /\ BulkInv'
    <3>1. Works(t) \/ Return(t)
      BY <2>3, WiredTigerWorks DEF AdaptersInv
    <3>2. bulk' \in {"none", "open", "dangling"}
      BY <2>3, WiredTigerWorks DEF AdaptersInv
    <3>3. stage[t] \notin {"idle", "ended"} /\ handle' = handle
      BY <3>1 DEF Works, Return, store
    <3>4. handle = "open"
      BY <3>3 DEF AdaptersInv, CallInv
    <3> QED
      BY <1>1, <3>1, <3>2, <3>3, <3>4 DEF SharedStep, ThreadStep, BulkInv
  <2>4. ASSUME NEW t \in Threads, WiredTiger!Invoke(t) /\ UNCHANGED bulk
        PROVE  SharedStep /\ BulkInv'
    <3>1. Invoke(t)
      BY <2>4, WiredTigerCallers
    <3> QED
      BY <1>1, <2>4, <3>1 DEF SharedStep, ThreadStep, AdaptersInv, BulkInv, Invoke, store
  <2> QED
    BY <1>1, <2>1, <2>2, <2>3, <2>4, Zenon DEF WiredTiger!Next
<1> QED
  BY <1>1, <1>2, SharedTypes, SharedCalls, PartsApart DEF AdaptersInv, UStores, Transactions

-----------------------------------------------------------------------------
(***************************************************************************)
(* MongoDB.                                                                *)
(***************************************************************************)

\* What the adapter of MongoDB says of the callers is what is said here.
LEMMA MongoDBCallers ==
  /\ \A S : MongoDB!Cardinality(S) = Cardinality(S)
  /\ \A t : MongoDB!KeysOf(t) = KeysOf(t) /\ MongoDB!Key(t) = Key(t)
            /\ MongoDB!Size(t) = Size(t) /\ MongoDB!Length(t) = Length(t)
  /\ \A S, n : /\ MongoDB!FirstBytes(S, n) = FirstBytes(S, n)
               /\ MongoDB!FirstNumbers(S, n) = FirstNumbers(S, n)
  /\ \A m, n : MongoDB!Before(m, n) <=> Before(m, n)
  /\ \A t, status, touched, found :
       MongoDB!Finish(t, status, touched, found) <=> Finish(t, status, touched, found)
  /\ \A t, found, status : /\ MongoDB!Touch(t, found) <=> Touch(t, found)
                           /\ MongoDB!Reject(t, status) <=> Reject(t, status)
                           /\ MongoDB!Broken(t, status) <=> Broken(t, status)
  /\ \A t, place, kinds : /\ MongoDB!GoTo(t, place) <=> GoTo(t, place)
                          /\ MongoDB!At(t, place, kinds) <=> At(t, place, kinds)
                          /\ MongoDB!Called(t, kinds) <=> Called(t, kinds)
  /\ \A t : (MongoDB!Invoke(t) <=> Invoke(t)) /\ (MongoDB!Return(t) <=> Return(t))
  /\ MongoDB!store = store /\ (MongoDB!OpenDb <=> OpenDb)
  /\ (MongoDB!FlushDb <=> FlushDb) /\ (MongoDB!CloseDb <=> CloseDb)
  /\ \A d : MongoDB!EndProgram(d) <=> EndProgram(d)
<1>1. \A S : MongoDB!Cardinality(S) = Cardinality(S)
  BY Zenon DEF MongoDB!Cardinality, Cardinality
<1>2. \A t : MongoDB!KeysOf(t) = KeysOf(t) /\ MongoDB!Key(t) = Key(t)
            /\ MongoDB!Size(t) = Size(t) /\ MongoDB!Length(t) = Length(t)
  BY Zenon DEF MongoDB!KeysOf, KeysOf, MongoDB!Range, Range, MongoDB!Key, Key, MongoDB!Size, Size,
               MongoDB!Length, Length
<1>3. \A t, status, touched, found :
        MongoDB!Finish(t, status, touched, found) <=> Finish(t, status, touched, found)
  BY Zenon DEF MongoDB!Finish, Finish
<1>4. \A t, found, status : /\ MongoDB!Touch(t, found) <=> Touch(t, found)
                            /\ MongoDB!Reject(t, status) <=> Reject(t, status)
                            /\ MongoDB!Broken(t, status) <=> Broken(t, status)
  BY <1>1, <1>3, Zenon DEF MongoDB!Touch, Touch, MongoDB!Reject, Reject, MongoDB!Broken, Broken
<1>5. \A t, place, kinds : /\ MongoDB!GoTo(t, place) <=> GoTo(t, place)
                           /\ MongoDB!At(t, place, kinds) <=> At(t, place, kinds)
                           /\ MongoDB!Called(t, kinds) <=> Called(t, kinds)
  BY Zenon DEF MongoDB!GoTo, GoTo, MongoDB!At, At, MongoDB!Called, Called
<1>6. \A t : (MongoDB!Invoke(t) <=> Invoke(t)) /\ (MongoDB!Return(t) <=> Return(t))
  <2>1. \A kind, lengths : MongoDB!CallsOf(kind, lengths) = CallsOf(kind, lengths)
    BY Zenon DEF MongoDB!CallsOf, CallsOf, MongoDB!Batches, Batches, MongoDB!IsInjective,
                 IsInjective,
                 MongoDB!Ascending, Ascending
  <2> QED
    BY <2>1, Zenon DEF MongoDB!Invoke, Invoke, MongoDB!Return, Return, MongoDB!store, store,
                       MongoDB!NoCall, NoCall, MongoDB!NoAnswer, NoAnswer
<1>7. /\ MongoDB!store = store /\ (MongoDB!OpenDb <=> OpenDb)
      /\ (MongoDB!FlushDb <=> FlushDb) /\ (MongoDB!CloseDb <=> CloseDb)
      /\ \A d : MongoDB!EndProgram(d) <=> EndProgram(d)
  BY Zenon DEF MongoDB!store, store, MongoDB!OpenDb, OpenDb, MongoDB!FlushDb, FlushDb,
               MongoDB!CloseDb, CloseDb, MongoDB!EndProgram, EndProgram,
               MongoDB!NoThreadCalls, NoThreadCalls, MongoDB!NoCall, NoCall,
               MongoDB!NoAnswer, NoAnswer
<1>8. \A m, n : MongoDB!Before(m, n) <=> Before(m, n)
  BY Zenon DEF MongoDB!Before, Before, MongoDB!Swap, Swap
<1>9. \A S, n : /\ MongoDB!FirstBytes(S, n) = FirstBytes(S, n)
                /\ MongoDB!FirstNumbers(S, n) = FirstNumbers(S, n)
  BY <1>1, <1>8, Zenon DEF MongoDB!FirstBytes, FirstBytes, MongoDB!FirstNumbers, FirstNumbers
<1> QED
  BY <1>1, <1>2, <1>3, <1>4, <1>5, <1>6, <1>7, <1>8, <1>9

\* A thread in a call to MongoDB gets a client, works with it and gives it back,
\* returns, or ends the program.
LEMMA MongoDBWorks ==
  ASSUME CoreTypes, CallInv, PoolInv, NEW t \in Threads, MongoDB!Progress(t)
  PROVE  \/ /\ Works(t) /\ stage[t] = "called" /\ GoTo(t, "begun")
            /\ Cardinality(acquired) < PoolSize /\ acquired' = acquired \cup {t}
            /\ batch_keys' \in [Threads -> SUBSET Keys]
         \/ /\ Works(t) /\ stage[t] = "begun" /\ GoTo(t, "done")
            /\ acquired' = acquired \ {t} /\ batch_keys' \in [Threads -> SUBSET Keys]
         \/ Return(t) /\ UNCHANGED <<acquired, batch_keys>>
         \/ /\ \E d \in SUBSET Keys : EndProgram(d)
            /\ acquired' = {} /\ batch_keys' = [u \in Threads |-> {}]
<1>1. CASE MongoDB!Return(t) /\ UNCHANGED <<acquired, batch_keys>>
  BY <1>1, MongoDBCallers
<1>2. CASE MongoDB!Acquire(t)
  <2>1. /\ stage[t] = "called" /\ GoTo(t, "begun") /\ UNCHANGED <<store, call, reply, data>>
        /\ Cardinality(acquired) < PoolSize /\ acquired' = acquired \cup {t}
        /\ batch_keys' \in {batch_keys, [batch_keys EXCEPT ![t] = @ \cup KeysOf(t)]}
    BY <1>2, MongoDBCallers DEF MongoDB!Acquire, Called, At, MongoDB!store, store
  <2>2. KeysOf(t) \subseteq Keys /\ batch_keys \in [Threads -> SUBSET Keys] /\ data \subseteq Keys
    BY <2>1, CallOf DEF CoreTypes, PoolInv
  <2>3. batch_keys' \in [Threads -> SUBSET Keys]
    BY <2>1, <2>2
  <2> QED
    BY <2>1, <2>2, <2>3 DEF Works, Between
<1>3. CASE MongoDB!Throw(t)
  <2>1. stage[t] = "begun" /\ acquired' = {} /\ batch_keys' = [u \in Threads |-> {}]
    BY <1>3 DEF MongoDB!Throw
  <2>2. \E part \in SUBSET KeysOf(t) : EndProgram(data \cup part)
    BY <1>3, MongoDBCallers DEF MongoDB!Throw
  <2>3. KeysOf(t) \subseteq Keys /\ data \subseteq Keys
    BY <2>1, CallOf DEF CoreTypes
  <2> QED
    BY <2>1, <2>2, <2>3
<1>4. ASSUME \/ MongoDB!Upsert(t) \/ MongoDB!Remove(t) \/ MongoDB!Read(t)
             \/ MongoDB!BatchUpsert(t) \/ MongoDB!BulkLoad(t) \/ MongoDB!BatchRead(t)
             \/ MongoDB!RangeSelect(t) \/ MongoDB!Scan(t)
      PROVE  /\ Works(t) /\ stage[t] = "begun" /\ GoTo(t, "done")
             /\ acquired' = acquired \ {t} /\ batch_keys' \in [Threads -> SUBSET Keys]
  <2>1. /\ stage[t] = "begun" /\ UNCHANGED <<store, call>> /\ acquired' = acquired \ {t}
        /\ batch_keys' \in {batch_keys, [batch_keys EXCEPT ![t] = {}]}
    BY <1>4, MongoDBCallers DEF MongoDB!Upsert, MongoDB!Remove, MongoDB!Read,
         MongoDB!BatchUpsert, MongoDB!BulkLoad, MongoDB!BatchRead, MongoDB!RangeSelect,
         MongoDB!Scan, MongoDB!Release, At, MongoDB!store, store
  <2>2. /\ KeysOf(t) \subseteq Keys /\ Size(t) \in Nat /\ Length(t) \in Nat /\ data \subseteq Keys
        /\ batch_keys \in [Threads -> SUBSET Keys]
    BY <2>1, CallOf DEF CoreTypes, PoolInv
  <2>3. batch_keys' \in [Threads -> SUBSET Keys]
    BY <2>1, <2>2
  <2>4. /\ \A found \in SUBSET Keys : MongoDB!Touch(t, found) => Told(t)
        /\ \A status \in Statuses : MongoDB!Reject(t, status) => Told(t)
        /\ \A touched \in Nat, found \in SUBSET Keys :
             MongoDB!Finish(t, "ok", touched, found) => Told(t)
        /\ Told(t) => GoTo(t, "done")
    <3>1. "ok" \in Statuses
      BY DEF Statuses
    <3> QED
      BY <2>2, <3>1, MongoDBCallers, ResultTold DEF Told
  <2>5. CASE \/ MongoDB!Upsert(t) \/ MongoDB!Remove(t) \/ MongoDB!BatchUpsert(t)
             \/ MongoDB!BulkLoad(t)
    <3>1. /\ data' \in {data \cup KeysOf(t), data \ KeysOf(t)}
          /\ \/ MongoDB!Touch(t, KeysOf(t)) \/ \E status \in Statuses : MongoDB!Reject(t, status)
      BY <2>5, MongoDBCallers DEF MongoDB!Upsert, MongoDB!Remove, MongoDB!BatchUpsert,
           MongoDB!BulkLoad, Statuses
    <3> QED
      BY <2>1, <2>2, <2>3, <2>4, <3>1 DEF Works, Told
  <2>6. CASE MongoDB!Read(t) \/ MongoDB!BatchRead(t)
    <3>1. /\ UNCHANGED data
          /\ \/ MongoDB!Touch(t, KeysOf(t)) \/ \E status \in Statuses : MongoDB!Reject(t, status)
      BY <2>6, MongoDBCallers DEF MongoDB!Read, MongoDB!BatchRead, Statuses
    <3> QED
      BY <2>1, <2>2, <2>3, <2>4, <3>1 DEF Works, Told
  <2>7. CASE MongoDB!RangeSelect(t)
    <3>1. /\ UNCHANGED data
          /\ \/ \E found \in SUBSET data : MongoDB!Touch(t, found)
             \/ \E status \in Statuses : MongoDB!Reject(t, status)
      BY <2>7, MongoDBCallers DEF MongoDB!RangeSelect, MongoDB!FirstBytes, Statuses
    <3> QED
      BY <2>1, <2>2, <2>3, <2>4, <3>1 DEF Works, Told
  <2>8. CASE MongoDB!Scan(t)
    <3>1. /\ UNCHANGED data
          /\ \E touched \in {Length(t) + 1, Cardinality(data)}, found \in SUBSET data :
               MongoDB!Finish(t, "ok", touched, found)
      BY <2>8, MongoDBCallers DEF MongoDB!Scan, MongoDB!FirstBytes
    <3>2. Cardinality(data) \in Nat /\ Length(t) + 1 \in Nat
      BY <2>2, KeysFinite
    <3> QED
      BY <2>1, <2>2, <2>3, <2>4, <3>1, <3>2 DEF Works, Told
  <2> QED
    BY <1>4, <2>1, <2>3, <2>5, <2>6, <2>7, <2>8, <2>4 DEF Works, GoTo
<1> QED
  BY <1>1, <1>2, <1>3, <1>4 DEF MongoDB!Progress, MongoDB!own

\* MongoDB keeps the invariants: a thread takes a client only if one is left.
LEMMA MongoDBKeeps ==
  ASSUME AdaptersInv, OnMongoDB(MongoDB!Next)
  PROVE  AdaptersInv'
<1>1. /\ engine = "mongodb" /\ UNCHANGED engine /\ MongoDB!Next
      /\ UNCHANGED <<OfLMDB, OfWiredTiger, OfUStore, OfTransaction>>
  BY DEF OnMongoDB
<1>2. /\ acquired = Begun /\ Cardinality(acquired) <= PoolSize /\ IsFiniteSet(acquired)
      /\ batch_keys \in [Threads -> SUBSET Keys] /\ stage \in [Threads -> Places]
      /\ PoolSize \in Nat \ {0}
  <2>1. Begun \in SUBSET Threads /\ IsFiniteSet(Threads) /\ PoolSize \in Nat \ {0}
    BY CallerAssumption, AdaptersAssumption DEF Begun
  <2>2. IsFiniteSet(Begun)
    BY <2>1, FS_Subset
  <2> QED
    BY <1>1, <2>1, <2>2 DEF AdaptersInv, PoolInv, CoreTypes
<1>3. Cardinality(acquired) \in Nat /\ Cardinality({}) = 0
  BY <1>2, FS_CardinalityType, FS_EmptySet
<1>4. SharedStep /\ PoolInv'
  <2>1. CASE MongoDB!Open \/ MongoDB!Flush
    <3>1. SharedStep /\ UNCHANGED <<acquired, batch_keys, stage>> /\ handle' # "closed"
      BY <2>1, MongoDBCallers DEF MongoDB!Open, MongoDB!Flush, MongoDB!own, SharedStep,
           DriverStep, OpenDb, FlushDb, AdaptersInv, CoreTypes
    <3> QED
      BY <1>1, <1>2, <3>1 DEF AdaptersInv, PoolInv, Begun
  <2>2. CASE MongoDB!Close
    <3>1. /\ CloseDb /\ UNCHANGED <<stage, acquired>>
          /\ batch_keys' = [t \in Threads |-> {}]
      BY <2>2, MongoDBCallers DEF MongoDB!Close
    <3>2. SharedStep
      BY <1>1, <3>1 DEF SharedStep, DriverStep, Closes, Transactions
    <3> QED
      BY <1>1, <1>2, <3>1, <3>2 DEF PoolInv, Begun
  <2>3. ASSUME NEW t \in Threads, MongoDB!Progress(t) PROVE SharedStep /\ PoolInv'
    <3>1. /\ stage[t] \notin {"idle", "ended"} => handle = "open"
      BY DEF AdaptersInv, CallInv
    <3>2. CASE /\ Works(t) /\ stage[t] = "called" /\ GoTo(t, "begun")
               /\ Cardinality(acquired) < PoolSize /\ acquired' = acquired \cup {t}
               /\ batch_keys' \in [Threads -> SUBSET Keys]
      <4>1. t \notin acquired /\ handle' = "open" /\ acquired' = Begun'
        BY <1>2, <3>1, <3>2 DEF Works, store, Begun, GoTo
      <4>2. Cardinality(acquired \cup {t}) = Cardinality(acquired) + 1
        BY <1>2, <4>1, FS_AddElement
      <4>3. Cardinality(acquired') <= PoolSize
        BY <1>2, <1>3, <3>2, <4>2
      <4> QED
        BY <1>1, <3>2, <4>1, <4>3 DEF SharedStep, ThreadStep, PoolInv
    <3>3. CASE /\ Works(t) /\ stage[t] = "begun" /\ GoTo(t, "done")
               /\ acquired' = acquired \ {t} /\ batch_keys' \in [Threads -> SUBSET Keys]
      <4>1. t \in acquired /\ handle' = "open" /\ acquired' = Begun'
        BY <1>2, <3>1, <3>3 DEF Works, store, Begun, GoTo
      <4>2. Cardinality(acquired \ {t}) = Cardinality(acquired) - 1
        BY <1>2, <4>1, FS_RemoveElement
      <4>3. Cardinality(acquired') <= PoolSize
        BY <1>2, <1>3, <3>3, <4>2
      <4> QED
        BY <1>1, <3>3, <4>1, <4>3 DEF SharedStep, ThreadStep, PoolInv
    <3>4. CASE Return(t) /\ UNCHANGED <<acquired, batch_keys>>
      <4>1. stage[t] = "done" /\ stage' = [stage EXCEPT ![t] = "idle"] /\ handle' = handle
        BY <3>4 DEF Return, store
      <4>2. handle' = "open" /\ acquired' = Begun'
        BY <1>2, <3>1, <3>4, <4>1 DEF Begun
      <4> QED
        BY <1>1, <1>2, <3>4, <4>2 DEF SharedStep, ThreadStep, PoolInv
    <3>5. CASE /\ \E d \in SUBSET Keys : EndProgram(d)
               /\ acquired' = {} /\ batch_keys' = [u \in Threads |-> {}]
      <4>1. \A u \in Threads : stage'[u] = "idle"
        BY <3>5 DEF EndProgram, NoThreadCalls
      <4>2. Begun' = {}
        BY <4>1 DEF Begun
      <4> QED
        BY <1>1, <1>2, <1>3, <3>5, <4>2 DEF SharedStep, DriverStep, PoolInv
    <3> QED
      BY <2>3, <3>2, <3>3, <3>4, <3>5, MongoDBWorks DEF AdaptersInv
  <2>4. ASSUME NEW t \in Threads, MongoDB!Invoke(t) /\ UNCHANGED MongoDB!own
        PROVE  SharedStep /\ PoolInv'
    <3>1. Invoke(t) /\ UNCHANGED <<acquired, batch_keys>>
      BY <2>4, MongoDBCallers DEF MongoDB!own
    <3>2. /\ stage[t] = "idle" /\ stage' = [stage EXCEPT ![t] = "called"]
          /\ handle = "open" /\ handle' = handle
      BY <3>1 DEF Invoke, store
    <3>3. acquired' = Begun'
      BY <1>2, <3>1, <3>2 DEF Begun
    <3> QED
      BY <1>1, <1>2, <3>1, <3>2, <3>3 DEF SharedStep, ThreadStep, PoolInv
  <2> QED
    BY <1>1, <2>1, <2>2, <2>3, <2>4, Zenon DEF MongoDB!Next
<1> QED
  BY <1>1, <1>4, SharedTypes, SharedCalls, PartsApart DEF AdaptersInv, UStores, Transactions

-----------------------------------------------------------------------------
(***************************************************************************)
(* Redis.                                                                  *)
(***************************************************************************)

\* What the adapter of Redis says of the callers is what is said here.
LEMMA RedisCallers ==
  /\ \A S : Redis!Cardinality(S) = Cardinality(S)
  /\ \A t : Redis!KeysOf(t) = KeysOf(t) /\ Redis!Key(t) = Key(t)
            /\ Redis!Size(t) = Size(t) /\ Redis!Length(t) = Length(t)
  /\ \A S, n : /\ Redis!FirstBytes(S, n) = FirstBytes(S, n)
               /\ Redis!FirstNumbers(S, n) = FirstNumbers(S, n)
  /\ \A m, n : Redis!Before(m, n) <=> Before(m, n)
  /\ \A t, status, touched, found :
       Redis!Finish(t, status, touched, found) <=> Finish(t, status, touched, found)
  /\ \A t, found, status : /\ Redis!Touch(t, found) <=> Touch(t, found)
                           /\ Redis!Reject(t, status) <=> Reject(t, status)
                           /\ Redis!Broken(t, status) <=> Broken(t, status)
  /\ \A t, place, kinds : /\ Redis!GoTo(t, place) <=> GoTo(t, place)
                          /\ Redis!At(t, place, kinds) <=> At(t, place, kinds)
                          /\ Redis!Called(t, kinds) <=> Called(t, kinds)
  /\ \A t : (Redis!Invoke(t) <=> Invoke(t)) /\ (Redis!Return(t) <=> Return(t))
  /\ Redis!store = store /\ (Redis!OpenDb <=> OpenDb)
  /\ (Redis!FlushDb <=> FlushDb) /\ (Redis!CloseDb <=> CloseDb)
  /\ \A d : Redis!EndProgram(d) <=> EndProgram(d)
<1>1. \A S : Redis!Cardinality(S) = Cardinality(S)
  BY Zenon DEF Redis!Cardinality, Cardinality
<1>2. \A t : Redis!KeysOf(t) = KeysOf(t) /\ Redis!Key(t) = Key(t)
            /\ Redis!Size(t) = Size(t) /\ Redis!Length(t) = Length(t)
  BY Zenon DEF Redis!KeysOf, KeysOf, Redis!Range, Range, Redis!Key, Key, Redis!Size, Size,
               Redis!Length, Length
<1>3. \A t, status, touched, found :
        Redis!Finish(t, status, touched, found) <=> Finish(t, status, touched, found)
  BY Zenon DEF Redis!Finish, Finish
<1>4. \A t, found, status : /\ Redis!Touch(t, found) <=> Touch(t, found)
                            /\ Redis!Reject(t, status) <=> Reject(t, status)
                            /\ Redis!Broken(t, status) <=> Broken(t, status)
  BY <1>1, <1>3, Zenon DEF Redis!Touch, Touch, Redis!Reject, Reject, Redis!Broken, Broken
<1>5. \A t, place, kinds : /\ Redis!GoTo(t, place) <=> GoTo(t, place)
                           /\ Redis!At(t, place, kinds) <=> At(t, place, kinds)
                           /\ Redis!Called(t, kinds) <=> Called(t, kinds)
  BY Zenon DEF Redis!GoTo, GoTo, Redis!At, At, Redis!Called, Called
<1>6. \A t : (Redis!Invoke(t) <=> Invoke(t)) /\ (Redis!Return(t) <=> Return(t))
  <2>1. \A kind, lengths : Redis!CallsOf(kind, lengths) = CallsOf(kind, lengths)
    BY Zenon DEF Redis!CallsOf, CallsOf, Redis!Batches, Batches, Redis!IsInjective, IsInjective,
                 Redis!Ascending, Ascending
  <2> QED
    BY <2>1, Zenon DEF Redis!Invoke, Invoke, Redis!Return, Return, Redis!store, store,
                       Redis!NoCall, NoCall, Redis!NoAnswer, NoAnswer
<1>7. /\ Redis!store = store /\ (Redis!OpenDb <=> OpenDb)
      /\ (Redis!FlushDb <=> FlushDb) /\ (Redis!CloseDb <=> CloseDb)
      /\ \A d : Redis!EndProgram(d) <=> EndProgram(d)
  BY Zenon DEF Redis!store, store, Redis!OpenDb, OpenDb, Redis!FlushDb, FlushDb,
               Redis!CloseDb, CloseDb, Redis!EndProgram, EndProgram,
               Redis!NoThreadCalls, NoThreadCalls, Redis!NoCall, NoCall,
               Redis!NoAnswer, NoAnswer
<1>8. \A m, n : Redis!Before(m, n) <=> Before(m, n)
  BY Zenon DEF Redis!Before, Before, Redis!Swap, Swap
<1>9. \A S, n : /\ Redis!FirstBytes(S, n) = FirstBytes(S, n)
                /\ Redis!FirstNumbers(S, n) = FirstNumbers(S, n)
  BY <1>1, <1>8, Zenon DEF Redis!FirstBytes, FirstBytes, Redis!FirstNumbers, FirstNumbers
<1> QED
  BY <1>1, <1>2, <1>3, <1>4, <1>5, <1>6, <1>7, <1>8, <1>9

\* A thread in a call to Redis works on it, returns, or ends the program.
LEMMA RedisWorks ==
  ASSUME CoreTypes, CallInv, NEW t \in Threads, Redis!Progress(t)
  PROVE  Works(t) \/ Return(t) \/ \E d \in SUBSET Keys : EndProgram(d)
<1>1. CASE Redis!Return(t)
  BY <1>1, RedisCallers
<1>2. CASE Redis!Throw(t)
  <2>1. stage[t] = "called" /\ \E part \in SUBSET KeysOf(t) : EndProgram(data \cup part)
    BY <1>2, RedisCallers DEF Redis!Throw, Called, At
  <2>2. KeysOf(t) \subseteq Keys /\ data \subseteq Keys
    BY <2>1, CallOf DEF CoreTypes
  <2> QED
    BY <2>1, <2>2
<1>3. ASSUME \/ Redis!Upsert(t) \/ Redis!Update(t) \/ Redis!Remove(t) \/ Redis!Read(t)
             \/ Redis!BatchUpsert(t) \/ Redis!BulkLoad(t) \/ Redis!BatchRead(t)
             \/ Redis!RangeSelect(t)
      PROVE  Works(t)
  <2>1. stage[t] = "called" /\ UNCHANGED <<store, call>>
    BY <1>3, RedisCallers DEF Redis!Upsert, Redis!Update, Redis!Remove, Redis!Read,
         Redis!BatchUpsert, Redis!BulkLoad, Redis!BatchRead, Redis!RangeSelect, Called, At,
         Redis!store, store
  <2>2. KeysOf(t) \subseteq Keys /\ data \subseteq Keys
    BY <2>1, CallOf DEF CoreTypes
  <2>3. /\ \A found \in SUBSET Keys : Redis!Touch(t, found) => Told(t)
        /\ \A status \in Statuses : Redis!Reject(t, status) => Told(t)
    <3>1. {} \in SUBSET Keys /\ "ok" \in Statuses /\ 0 \in Nat
      BY DEF Statuses
    <3> QED
      BY <3>1, RedisCallers, ResultTold
  <2>4. /\ data' \in {data, data \cup KeysOf(t), data \ KeysOf(t)}
        /\ \/ Redis!Touch(t, KeysOf(t)) \/ Redis!Touch(t, KeysOf(t) \cap data)
           \/ Redis!Touch(t, KeysOf(t) \ data)
           \/ \E status \in Statuses : Redis!Reject(t, status)
    BY <1>3, RedisCallers DEF Redis!Upsert, Redis!Update, Redis!Remove, Redis!Read,
         Redis!BatchUpsert, Redis!BulkLoad, Redis!BatchRead, Redis!RangeSelect, Statuses
  <2> QED
    BY <2>1, <2>2, <2>3, <2>4 DEF Works, Told
<1> QED
  BY <1>1, <1>2, <1>3 DEF Redis!Progress

\* Redis keeps the invariants.
LEMMA RedisKeeps ==
  ASSUME AdaptersInv, OnRedis(Redis!Next)
  PROVE  AdaptersInv'
<1>1. /\ engine = "redis" /\ UNCHANGED engine /\ Redis!Next
      /\ UNCHANGED <<OfLMDB, OfWiredTiger, OfMongoDB, OfUStore, OfTransaction>>
  BY DEF OnRedis
<1>2. SharedStep
  <2>1. CASE Redis!Open \/ Redis!Flush \/ Redis!Close
    BY <1>1, <2>1, RedisCallers DEF Redis!Open, Redis!Flush, Redis!Close, SharedStep,
         DriverStep, Closes, Transactions, AdaptersInv, CoreTypes
  <2>2. CASE \E t \in Threads : Redis!Invoke(t) \/ Redis!Progress(t)
    BY <2>2, RedisCallers, RedisWorks DEF SharedStep, ThreadStep, DriverStep, AdaptersInv
  <2> QED
    BY <1>1, <2>1, <2>2 DEF Redis!Next
<1> QED
  BY <1>1, <1>2, SharedTypes, SharedCalls, PartsApart DEF AdaptersInv, UStores, Transactions

-----------------------------------------------------------------------------
(***************************************************************************)
(* UStore.                                                                 *)
(***************************************************************************)

\* What the adapter of UStore says of the callers is what is said here.
LEMMA UStoreCallers ==
  /\ \A S : UStore!Cardinality(S) = Cardinality(S)
  /\ \A t : UStore!KeysOf(t) = KeysOf(t) /\ UStore!Key(t) = Key(t)
            /\ UStore!Size(t) = Size(t) /\ UStore!Length(t) = Length(t)
  /\ \A S, n : /\ UStore!FirstBytes(S, n) = FirstBytes(S, n)
               /\ UStore!FirstNumbers(S, n) = FirstNumbers(S, n)
  /\ \A m, n : UStore!Before(m, n) <=> Before(m, n)
  /\ \A t, status, touched, found :
       UStore!Finish(t, status, touched, found) <=> Finish(t, status, touched, found)
  /\ \A t, found, status : /\ UStore!Touch(t, found) <=> Touch(t, found)
                           /\ UStore!Reject(t, status) <=> Reject(t, status)
                           /\ UStore!Broken(t, status) <=> Broken(t, status)
  /\ \A t, place, kinds : /\ UStore!GoTo(t, place) <=> GoTo(t, place)
                          /\ UStore!At(t, place, kinds) <=> At(t, place, kinds)
                          /\ UStore!Called(t, kinds) <=> Called(t, kinds)
  /\ \A t : (UStore!Invoke(t) <=> Invoke(t)) /\ (UStore!Return(t) <=> Return(t))
  /\ UStore!store = store /\ (UStore!OpenDb <=> OpenDb)
  /\ (UStore!FlushDb <=> FlushDb) /\ (UStore!CloseDb <=> CloseDb)
<1>1. \A S : UStore!Cardinality(S) = Cardinality(S)
  BY Zenon DEF UStore!Cardinality, Cardinality
<1>2. \A t : UStore!KeysOf(t) = KeysOf(t) /\ UStore!Key(t) = Key(t)
            /\ UStore!Size(t) = Size(t) /\ UStore!Length(t) = Length(t)
  BY Zenon DEF UStore!KeysOf, KeysOf, UStore!Range, Range, UStore!Key, Key, UStore!Size, Size,
               UStore!Length, Length
<1>3. \A t, status, touched, found :
        UStore!Finish(t, status, touched, found) <=> Finish(t, status, touched, found)
  BY Zenon DEF UStore!Finish, Finish
<1>4. \A t, found, status : /\ UStore!Touch(t, found) <=> Touch(t, found)
                            /\ UStore!Reject(t, status) <=> Reject(t, status)
                            /\ UStore!Broken(t, status) <=> Broken(t, status)
  BY <1>1, <1>3, Zenon DEF UStore!Touch, Touch, UStore!Reject, Reject, UStore!Broken, Broken
<1>5. \A t, place, kinds : /\ UStore!GoTo(t, place) <=> GoTo(t, place)
                           /\ UStore!At(t, place, kinds) <=> At(t, place, kinds)
                           /\ UStore!Called(t, kinds) <=> Called(t, kinds)
  BY Zenon DEF UStore!GoTo, GoTo, UStore!At, At, UStore!Called, Called
<1>6. \A t : (UStore!Invoke(t) <=> Invoke(t)) /\ (UStore!Return(t) <=> Return(t))
  <2>1. \A kind, lengths : UStore!CallsOf(kind, lengths) = CallsOf(kind, lengths)
    BY Zenon DEF UStore!CallsOf, CallsOf, UStore!Batches, Batches, UStore!IsInjective, IsInjective,
                 UStore!Ascending, Ascending
  <2> QED
    BY <2>1, Zenon DEF UStore!Invoke, Invoke, UStore!Return, Return, UStore!store, store,
                       UStore!NoCall, NoCall, UStore!NoAnswer, NoAnswer
<1>7. /\ UStore!store = store /\ (UStore!OpenDb <=> OpenDb)
      /\ (UStore!FlushDb <=> FlushDb) /\ (UStore!CloseDb <=> CloseDb)
  BY Zenon DEF UStore!store, store, UStore!OpenDb, OpenDb, UStore!FlushDb, FlushDb,
               UStore!CloseDb, CloseDb
<1>8. \A m, n : UStore!Before(m, n) <=> Before(m, n)
  BY Zenon DEF UStore!Before, Before, UStore!Swap, Swap
<1>9. \A S, n : /\ UStore!FirstBytes(S, n) = FirstBytes(S, n)
                /\ UStore!FirstNumbers(S, n) = FirstNumbers(S, n)
  BY <1>1, <1>8, Zenon DEF UStore!FirstBytes, FirstBytes, UStore!FirstNumbers, FirstNumbers
<1> QED
  BY <1>1, <1>2, <1>3, <1>4, <1>5, <1>6, <1>7, <1>8, <1>9

\* The entries of a scan are entries of the database, in finitely many chunks.
LEMMA UStoreScanned ==
  ASSUME CoreTypes, CallInv, NEW t \in Threads, stage[t] = "called"
  PROVE  /\ Cardinality(UStore!Scanned(t)) \in Nat
         /\ {entry[2] : entry \in UStore!Scanned(t)} \subseteq data
<1> DEFINE chunks == 0 .. (Length(t) - 1) \div Chunk
<1>1. Length(t) \in Nat \ {0} /\ Chunk \in Nat \ {0} /\ data \subseteq Keys
  BY CallOf, AdaptersAssumption DEF CoreTypes
<1>2. IsFiniteSet(chunks) /\ IsFiniteSet(data)
  <2>1. (Length(t) - 1) \div Chunk \in Int
    BY <1>1
  <2> QED
    BY <1>1, <2>1, FS_Interval, KeysFinite
<1>3. UStore!Scanned(t) = UNION {{i} \X UStore!ChunkOf(t, i) : i \in chunks}
  BY UStoreCallers DEF UStore!Scanned
<1>4. \A i : UStore!ChunkOf(t, i) \subseteq data
  BY DEF UStore!ChunkOf, UStore!FirstNumbers
<1>5. UStore!Scanned(t) \subseteq chunks \X data
  <2> HIDE DEF chunks
  <2> QED  BY <1>3, <1>4
<1>6. IsFiniteSet(UStore!Scanned(t))
  <2>1. IsFiniteSet(chunks \X data)
    <3> HIDE DEF chunks
    <3> QED  BY <1>2, FS_Product
  <2> HIDE DEF chunks
  <2> QED
    BY <1>5, <2>1, FS_Subset
<1> QED
  <2> HIDE DEF chunks
  <2> QED  BY <1>5, <1>6, FS_CardinalityType

\* A thread in a call to UStore works on it with a client, or returns.
LEMMA UStoreWorks ==
  ASSUME CoreTypes, CallInv, NEW t \in Threads, UStore!Progress(t)
  PROVE  /\ UNCHANGED <<engine, clients>>
         /\ \/ Works(t) /\ UStore!MapClient(t)
            \/ Return(t) /\ UNCHANGED <<client, client_index>>
<1>1. CASE UStore!Return(t) /\ UNCHANGED <<engine, UStore!own>>
  BY <1>1, UStoreCallers DEF UStore!own
<1>2. ASSUME \/ UStore!Upsert(t) \/ UStore!Remove(t) \/ UStore!Read(t) \/ UStore!BatchUpsert(t)
             \/ UStore!BatchRead(t) \/ UStore!RangeSelect(t) \/ UStore!Scan(t)
      PROVE  UNCHANGED <<engine, clients>> /\ Works(t) /\ UStore!MapClient(t)
  <2>1. /\ stage[t] = "called" /\ UNCHANGED <<store, call, engine, clients>>
        /\ UStore!MapClient(t)
    BY <1>2, UStoreCallers DEF UStore!Upsert, UStore!Remove, UStore!Read, UStore!BatchUpsert,
         UStore!BatchRead, UStore!RangeSelect, UStore!Scan, UStore!Calling, Called, At,
         UStore!store, store
  <2>2. KeysOf(t) \subseteq Keys /\ data \subseteq Keys
    BY <2>1, CallOf DEF CoreTypes
  <2>3. /\ \A found \in SUBSET Keys : UStore!Touch(t, found) => Told(t)
        /\ \A status \in Statuses : UStore!Reject(t, status) => Told(t)
        /\ \A touched \in Nat, found \in SUBSET Keys :
             UStore!Finish(t, "ok", touched, found) => Told(t)
    <3>1. {} \in SUBSET Keys /\ "ok" \in Statuses /\ 0 \in Nat
      BY DEF Statuses
    <3> QED
      BY <3>1, UStoreCallers, ResultTold
  <2>4. CASE UStore!Upsert(t) \/ UStore!Remove(t) \/ UStore!BatchUpsert(t)
    <3>1. UStore!KeysOf(t) = KeysOf(t)
      BY UStoreCallers
    <3>2. \/ UStore!Touch(t, KeysOf(t)) /\ data' \in {data \cup KeysOf(t), data \ KeysOf(t)}
          \/ UStore!Reject(t, "error") /\ UNCHANGED data
          \/ UStore!Reject(t, "not_found") /\ UNCHANGED data
      BY <2>4, <3>1, Zenon DEF UStore!Upsert, UStore!Remove, UStore!BatchUpsert, UStore!Broken
    <3> QED
      BY <2>1, <2>2, <2>3, <3>2 DEF Works, Told, Statuses
  <2>5. CASE UStore!Read(t) \/ UStore!BatchRead(t) \/ UStore!RangeSelect(t)
    <3>1. /\ UNCHANGED data
          /\ \/ UStore!Touch(t, KeysOf(t)) \/ \E found \in SUBSET data : UStore!Touch(t, found)
             \/ \E status \in Statuses : UStore!Reject(t, status)
      <4>1. CASE UStore!Read(t)
        BY <4>1, UStoreCallers DEF UStore!Read, UStore!Broken, Statuses
      <4>2. CASE UStore!BatchRead(t)
        BY <4>2, UStoreCallers DEF UStore!BatchRead, UStore!TouchSome, UStore!Broken, Statuses
      <4>3. CASE UStore!RangeSelect(t)
        BY <4>3, UStoreCallers DEF UStore!RangeSelect, UStore!TouchSome, UStore!FirstNumbers,
             UStore!Broken, Statuses
      <4> QED
        BY <2>5, <4>1, <4>2, <4>3
    <3> QED
      BY <2>1, <2>2, <2>3, <3>1 DEF Works, Told
  <2>6. CASE UStore!Scan(t)
    <3>1. /\ UNCHANGED data
          /\ \/ UStore!Finish(t, "ok", Cardinality(UStore!Scanned(t)),
                              {entry[2] : entry \in UStore!Scanned(t)})
             \/ \E status \in Statuses : UStore!Reject(t, status)
      BY <2>6, UStoreCallers DEF UStore!Scan, Statuses
    <3> QED
      BY <2>1, <2>2, <2>3, <3>1, UStoreScanned DEF Works, Told
  <2> QED
    BY <1>2, <2>1, <2>4, <2>5, <2>6
<1> QED
  BY <1>1, <1>2 DEF UStore!Progress

\* A thread of the workload that has no client gets one, the next of the Flight
\* clients, which nobody has.
LEMMA ClientMapped ==
  ASSUME AdaptersInv, engine \in UStores, NEW t \in Threads, t \in workload.threads,
         handle = "open", UNCHANGED <<handle, workload, engine, clients>>, UStore!MapClient(t)
  PROVE  ClientInv'
<1>1. ClientInv /\ client \in [Threads -> Nat] /\ client_index \in Nat
  BY DEF AdaptersInv, ClientInv
<1>2. CASE client[t] # 0
  <2>1. UNCHANGED <<client, client_index>>
    BY <1>2 DEF UStore!MapClient
  <2> QED
    BY <1>1, <2>1 DEF ClientInv, Served
<1>3. CASE client[t] = 0 /\ engine = "ustore_flight"
  <2>1. client' = [client EXCEPT ![t] = client_index + 1] /\ client_index' = client_index + 1
    BY <1>3 DEF UStore!MapClient
  <2>2. /\ client' \in [Threads -> Nat] /\ client'[t] = client_index + 1
        /\ \A u \in Threads \ {t} : client'[u] = client[u]
    BY <1>1, <2>1
  <2>3. t \notin Served /\ Served' = Served \cup {t}
    BY <1>1, <1>3, <2>2 DEF Served
  <2>4. IsFiniteSet(Served)
    <3>1. Served \in SUBSET Threads /\ IsFiniteSet(Threads)
      BY CallerAssumption DEF Served
    <3> QED
      BY <3>1, FS_Subset
  <2>5. client_index' = Cardinality(Served')
    <3>1. Cardinality(Served \cup {t}) = Cardinality(Served) + 1
      BY <2>3, <2>4, FS_AddElement
    <3> QED
      BY <1>1, <1>3, <2>1, <2>3, <3>1 DEF ClientInv
  <2>6. \A u \in Threads : client'[u] <= client_index'
    BY <1>1, <1>3, <2>1, <2>2 DEF ClientInv
  <2>7. \A u, v \in Served' : u # v => client'[u] # client'[v]
    <3>1. \A u \in Served : client[u] <= client_index /\ client[u] \in Nat /\ u # t
      BY <1>1, <1>3, <2>3 DEF ClientInv, Served
    <3>2. \A u, v \in Served : u # v => client[u] # client[v]
      BY <1>1, <1>3 DEF ClientInv
    <3>3. \A u \in Served : client'[u] = client[u]
      BY <2>2, <3>1 DEF Served
    <3> QED
      BY <1>1, <2>2, <2>3, <3>1, <3>2, <3>3
  <2>8. Served' \subseteq workload'.threads
    BY <1>1, <1>3, <2>3 DEF ClientInv
  <2> QED
    BY <1>1, <1>3, <2>1, <2>2, <2>5, <2>6, <2>7, <2>8 DEF ClientInv
<1>4. CASE client[t] = 0 /\ engine # "ustore_flight"
  <2>1. client' = [client EXCEPT ![t] = 1] /\ client_index' = client_index
    BY <1>4 DEF UStore!MapClient
  <2> QED
    BY <1>1, <1>4, <2>1 DEF ClientInv, Served
<1> QED
  BY <1>2, <1>3, <1>4

\* UStore keeps the invariants: clients are handed out to threads of the workload
\* and taken back when the database is closed.
LEMMA UStoreKeeps ==
  ASSUME AdaptersInv, OnUStore(UStore!Next)
  PROVE  AdaptersInv'
<1>1. /\ engine \in UStores /\ UStore!Next
      /\ UNCHANGED <<OfLMDB, OfWiredTiger, OfMongoDB, OfTransaction>>
  BY DEF OnUStore
<1>2. /\ ClientInv /\ client \in [Threads -> Nat] /\ Leader \in Threads
      /\ engine \in {"ustore_flight", "ustore_ucset", "ustore_rocksdb"}
      /\ engine \notin Transactions /\ data \subseteq Keys /\ {} \subseteq Keys
  BY <1>1, CallerAssumption DEF AdaptersInv, ClientInv, CoreTypes, UStores, Transactions
<1>3. SharedStep /\ ClientInv' /\ UNCHANGED engine
  <2>1. CASE UStore!Open
    <3>1. /\ OpenDb /\ handle = "closed" /\ handle' = "open"
          /\ UNCHANGED <<engine, client, client_index>>
          /\ \/ client[Leader] # 0 /\ UNCHANGED <<clients, data>>
             \/ /\ client[Leader] = 0
                /\ clients' = IF engine = "ustore_flight" THEN Cardinality(workload'.threads)
                                                          ELSE 1
                /\ data' \in {data, {}}
      BY <2>1, UStoreCallers DEF UStore!Open, OpenDb
    <3>2. SharedStep
      BY <1>2, <3>1 DEF SharedStep, DriverStep
    <3>3. Cardinality(workload'.threads) \in Nat
      <4>1. workload' \in Workloads
        BY <3>1 DEF OpenDb
      <4>2. workload'.threads \in SUBSET Threads /\ IsFiniteSet(Threads)
        BY <4>1, CallerAssumption
      <4> QED
        BY <4>2, FS_Subset, FS_CardinalityType
    <3>4. Served' = Served
      BY <3>1 DEF Served
    <3>5. CASE engine = "ustore_flight"
      <4>1. Served = {} /\ client[Leader] = 0 /\ client_index = Cardinality(Served)
        BY <1>2, <3>1, <3>5 DEF ClientInv, Served
      <4> QED
        BY <1>2, <3>1, <3>2, <3>3, <3>4, <3>5, <4>1 DEF ClientInv
    <3>6. CASE engine # "ustore_flight"
      <4>1. client[Leader] # 0 => Leader \in Served
        BY <1>2 DEF Served
      <4>2. clients' = 1
        BY <1>2, <3>1, <3>6, <4>1 DEF ClientInv
      <4> QED
        BY <1>2, <3>1, <3>2, <3>4, <3>6, <4>2 DEF ClientInv
    <3> QED
      BY <3>5, <3>6
  <2>2. CASE UStore!Flush
    <3>1. FlushDb /\ handle = "open" /\ handle' = "flushed"
          /\ UNCHANGED <<engine, workload, clients, client, client_index>>
      BY <2>2, UStoreCallers DEF UStore!Flush, UStore!own, FlushDb
    <3>2. Served' = Served
      BY <3>1 DEF Served
    <3> QED
      BY <1>2, <3>1, <3>2 DEF SharedStep, DriverStep, ClientInv
  <2>3. CASE UStore!Close
    <3>1. /\ CloseDb /\ handle' = "closed" /\ UNCHANGED <<stage, engine, workload>>
          /\ client_index' = 0 /\ clients' = IF engine = "ustore_ucset" THEN clients ELSE 0
          /\ client' = [t \in Threads |-> IF t = Leader /\ engine = "ustore_ucset"
                                            THEN client[t] ELSE 0]
      BY <2>3, UStoreCallers DEF UStore!Close, CloseDb
    <3>2. SharedStep
      BY <1>2, <3>1 DEF SharedStep, DriverStep, Closes
    <3>3. Served' \subseteq Served /\ (engine # "ustore_ucset" => Served' = {})
      BY <1>2, <3>1 DEF Served
    <3>4. Cardinality({}) = 0
      BY FS_EmptySet
    <3> QED
      BY <1>2, <3>1, <3>2, <3>3, <3>4 DEF ClientInv
  <2>4. ASSUME NEW t \in Threads, UStore!Progress(t)
        PROVE  SharedStep /\ ClientInv' /\ UNCHANGED engine
    <3>1. /\ UNCHANGED <<engine, clients>>
          /\ \/ Works(t) /\ UStore!MapClient(t)
             \/ Return(t) /\ UNCHANGED <<client, client_index>>
      BY <2>4, UStoreWorks DEF AdaptersInv
    <3>2. SharedStep /\ UNCHANGED <<handle, workload>> /\ stage[t] \notin {"idle", "ended"}
      BY <3>1 DEF SharedStep, ThreadStep, Works, Return, store
    <3>3. handle = "open" /\ t \in workload.threads
      BY <3>2 DEF AdaptersInv, CallInv
    <3>4. CASE Works(t) /\ UStore!MapClient(t)
      BY <1>1, <3>1, <3>2, <3>3, <3>4, ClientMapped
    <3>5. CASE Return(t) /\ UNCHANGED <<client, client_index>>
      BY <1>2, <3>1, <3>2, <3>5 DEF ClientInv, Served
    <3> QED
      BY <3>1, <3>2, <3>4, <3>5
  <2>5. ASSUME NEW t \in Threads, UStore!Invoke(t) /\ UNCHANGED <<engine, UStore!own>>
        PROVE  SharedStep /\ ClientInv' /\ UNCHANGED engine
    <3>1. Invoke(t) /\ UNCHANGED <<engine, handle, workload, clients, client, client_index>>
      BY <2>5, UStoreCallers DEF UStore!own, Invoke, store
    <3> QED
      BY <1>2, <3>1 DEF SharedStep, ThreadStep, ClientInv, Served
  <2> QED
    BY <1>1, <2>1, <2>2, <2>3, <2>4, <2>5, Zenon DEF UStore!Next
<1> QED
  BY <1>1, <1>2, <1>3, SharedTypes, SharedCalls, PartsApart DEF AdaptersInv

-----------------------------------------------------------------------------
(***************************************************************************)
(* Transactions.                                                           *)
(***************************************************************************)

\* What the adapter of transactions says of the callers is what is said here.
LEMMA TransactionCallers ==
  /\ \A S : Transaction!Cardinality(S) = Cardinality(S)
  /\ \A t : Transaction!KeysOf(t) = KeysOf(t) /\ Transaction!Key(t) = Key(t)
            /\ Transaction!Size(t) = Size(t) /\ Transaction!Length(t) = Length(t)
  /\ \A S, n : /\ Transaction!FirstBytes(S, n) = FirstBytes(S, n)
               /\ Transaction!FirstNumbers(S, n) = FirstNumbers(S, n)
  /\ \A m, n : Transaction!Before(m, n) <=> Before(m, n)
  /\ \A t, status, touched, found :
       Transaction!Finish(t, status, touched, found) <=> Finish(t, status, touched, found)
  /\ \A t, found, status : /\ Transaction!Touch(t, found) <=> Touch(t, found)
                           /\ Transaction!Reject(t, status) <=> Reject(t, status)
                           /\ Transaction!Broken(t, status) <=> Broken(t, status)
  /\ \A t, place, kinds : /\ Transaction!GoTo(t, place) <=> GoTo(t, place)
                          /\ Transaction!At(t, place, kinds) <=> At(t, place, kinds)
                          /\ Transaction!Called(t, kinds) <=> Called(t, kinds)
  /\ \A t : (Transaction!Invoke(t) <=> Invoke(t)) /\ (Transaction!Return(t) <=> Return(t))
  /\ Transaction!store = store /\ (Transaction!OpenDb <=> OpenDb)
  /\ (Transaction!FlushDb <=> FlushDb) /\ (Transaction!CloseDb <=> CloseDb)
<1>1. \A S : Transaction!Cardinality(S) = Cardinality(S)
  BY Zenon DEF Transaction!Cardinality, Cardinality
<1>2. \A t : Transaction!KeysOf(t) = KeysOf(t) /\ Transaction!Key(t) = Key(t)
            /\ Transaction!Size(t) = Size(t) /\ Transaction!Length(t) = Length(t)
  BY Zenon DEF Transaction!KeysOf, KeysOf, Transaction!Range, Range, Transaction!Key, Key,
               Transaction!Size, Size,
               Transaction!Length, Length
<1>3. \A t, status, touched, found :
        Transaction!Finish(t, status, touched, found) <=> Finish(t, status, touched, found)
  BY Zenon DEF Transaction!Finish, Finish
<1>4. \A t, found, status : /\ Transaction!Touch(t, found) <=> Touch(t, found)
                            /\ Transaction!Reject(t, status) <=> Reject(t, status)
                            /\ Transaction!Broken(t, status) <=> Broken(t, status)
  BY <1>1, <1>3, Zenon DEF Transaction!Touch, Touch, Transaction!Reject, Reject,
                           Transaction!Broken, Broken
<1>5. \A t, place, kinds : /\ Transaction!GoTo(t, place) <=> GoTo(t, place)
                           /\ Transaction!At(t, place, kinds) <=> At(t, place, kinds)
                           /\ Transaction!Called(t, kinds) <=> Called(t, kinds)
  BY Zenon DEF Transaction!GoTo, GoTo, Transaction!At, At, Transaction!Called, Called
<1>6. \A t : (Transaction!Invoke(t) <=> Invoke(t)) /\ (Transaction!Return(t) <=> Return(t))
  <2>1. \A kind, lengths : Transaction!CallsOf(kind, lengths) = CallsOf(kind, lengths)
    BY Zenon DEF Transaction!CallsOf, CallsOf, Transaction!Batches, Batches,
                 Transaction!IsInjective, IsInjective,
                 Transaction!Ascending, Ascending
  <2> QED
    BY <2>1, Zenon DEF Transaction!Invoke, Invoke, Transaction!Return, Return, Transaction!store,
                       store,
                       Transaction!NoCall, NoCall, Transaction!NoAnswer, NoAnswer
<1>7. /\ Transaction!store = store /\ (Transaction!OpenDb <=> OpenDb)
      /\ (Transaction!FlushDb <=> FlushDb) /\ (Transaction!CloseDb <=> CloseDb)
  BY Zenon DEF Transaction!store, store, Transaction!OpenDb, OpenDb, Transaction!FlushDb, FlushDb,
               Transaction!CloseDb, CloseDb
<1>8. \A m, n : Transaction!Before(m, n) <=> Before(m, n)
  BY Zenon DEF Transaction!Before, Before, Transaction!Swap, Swap
<1>9. \A S, n : /\ Transaction!FirstBytes(S, n) = FirstBytes(S, n)
                /\ Transaction!FirstNumbers(S, n) = FirstNumbers(S, n)
  BY <1>1, <1>8, Zenon DEF Transaction!FirstBytes, FirstBytes, Transaction!FirstNumbers,
                           FirstNumbers
<1> QED
  BY <1>1, <1>2, <1>3, <1>4, <1>5, <1>6, <1>7, <1>8, <1>9

\* What a transaction sees are keys, and what a write makes of it is one.
LEMMA TransactionViews ==
  ASSUME CoreTypes, CallInv, TransactionInv, NEW t \in Threads, stage[t] \notin {"idle", "ended"}
  PROVE  /\ Transaction!View(t) \subseteq Keys
         /\ Transaction!Pend(t, pending[t]) =>
              \E p \in Pending : pending' = [pending EXCEPT ![t] = p]
         /\ Transaction!Commit(t) => /\ data' = Transaction!View(t)
                                     /\ pending' = [pending EXCEPT ![t] = Nothing]
<1>1. data \subseteq Keys /\ pending[t] \in Pending /\ KeysOf(t) \subseteq Keys
  BY CallOf DEF CoreTypes, TransactionInv
<1>2. Transaction!View(t) \subseteq Keys
  BY <1>1 DEF Transaction!View, Transaction!Applied, Pending
<1>3. ASSUME Transaction!Pend(t, pending[t])
      PROVE  \E p \in Pending : pending' = [pending EXCEPT ![t] = p]
  <2> DEFINE put == [put |-> pending[t].put \cup KeysOf(t), del |-> pending[t].del \ KeysOf(t)]
             del == [put |-> pending[t].put \ KeysOf(t), del |-> pending[t].del \cup KeysOf(t)]
  <2>1. put \in Pending /\ del \in Pending
    BY <1>1 DEF Pending
  <2>2. pending' = [pending EXCEPT ![t] = IF call[t].kind = "remove" THEN del ELSE put]
    BY <1>3, TransactionCallers DEF Transaction!Pend
  <2> HIDE DEF put, del
  <2> QED
    BY <2>1, <2>2
<1>4. Transaction!Commit(t) => /\ data' = Transaction!View(t)
                               /\ pending' = [pending EXCEPT ![t] = Nothing]
  BY DEF Transaction!Commit, Transaction!Nothing, Nothing
<1> QED
  BY <1>2, <1>3, <1>4

\* The entries of a scan are among those the transaction sees, in finitely many
\* chunks.
LEMMA TransactionScanned ==
  ASSUME CoreTypes, CallInv, TransactionInv, NEW t \in Threads, stage[t] = "called"
  PROVE  /\ Cardinality(Transaction!Scanned(t)) \in Nat
         /\ {entry[2] : entry \in Transaction!Scanned(t)} \subseteq Keys
<1> DEFINE chunks == 0 .. (Length(t) - 1) \div Chunk
           view   == Transaction!View(t)
<1>1. Length(t) \in Nat \ {0} /\ Chunk \in Nat \ {0} /\ view \subseteq Keys
  BY CallOf, TransactionViews, AdaptersAssumption
<1> HIDE DEF view
<1>2. IsFiniteSet(chunks) /\ IsFiniteSet(view)
  <2>1. (Length(t) - 1) \div Chunk \in Int
    BY <1>1
  <2> QED
    BY <1>1, <2>1, FS_Interval, KeysFinite
<1>3. Transaction!Scanned(t) = UNION {{i} \X Transaction!ChunkOf(t, i) : i \in chunks}
  BY TransactionCallers DEF Transaction!Scanned
<1>4. \A i : Transaction!ChunkOf(t, i) \subseteq view
  BY DEF Transaction!ChunkOf, Transaction!Beyond, Transaction!FirstNumbers, view
<1> HIDE DEF chunks
<1>5. Transaction!Scanned(t) \subseteq chunks \X view
  BY <1>3, <1>4
<1>6. IsFiniteSet(Transaction!Scanned(t))
  <2>1. IsFiniteSet(chunks \X view)
    BY <1>2, FS_Product
  <2> QED
    BY <1>5, <2>1, FS_Subset
<1> QED
  BY <1>1, <1>5, <1>6, FS_CardinalityType

\* The buffer of a batch of reads holds keys.
LEMMA TransactionFilled ==
  ASSUME NEW old \in Seq(Keys), NEW new \in Seq(Keys)
  PROVE  Transaction!Filled(old, new) \in Seq(Keys)
<1> DEFINE m == Transaction!Max({Len(new), Len(old)})
<1>1. Len(new) \in Nat /\ Len(old) \in Nat
  OBVIOUS
<1>2. m \in {Len(new), Len(old)} /\ Len(new) <= m /\ Len(old) <= m
  <2>1. \E x \in {Len(new), Len(old)} : \A y \in {Len(new), Len(old)} : x >= y
    BY <1>1
  <2>2. m \in {Len(new), Len(old)} /\ \A y \in {Len(new), Len(old)} : m >= y
    BY <2>1 DEF Transaction!Max
  <2> HIDE DEF m
  <2> QED
    BY <1>1, <2>2
<1>3. Transaction!Filled(old, new) = [i \in 1..m |-> IF i <= Len(new) THEN new[i] ELSE old[i]]
  BY DEF Transaction!Filled
<1> HIDE DEF m
<1>4. m \in Nat /\ \A i \in 1..m : (IF i <= Len(new) THEN new[i] ELSE old[i]) \in Keys
  BY <1>1, <1>2
<1> QED
  BY <1>3, <1>4

\* A thread in a call works on its own transaction and buffer, or returns.
LEMMA TransactionWorks ==
  ASSUME CoreTypes, CallInv, TransactionInv, NEW t \in Threads, Transaction!Progress(t)
  PROVE  /\ UNCHANGED engine /\ (Works(t) \/ Return(t))
         /\ \E p \in Pending : pending' = [pending EXCEPT ![t] = p]
         /\ \E b \in Seq(Keys) : buffer' = [buffer EXCEPT ![t] = b]
         /\ spent' \in {spent, spent \cup {t}}
<1>1. /\ pending[t] \in Pending /\ pending = [pending EXCEPT ![t] = pending[t]]
      /\ buffer[t] \in Seq(Keys) /\ buffer = [buffer EXCEPT ![t] = buffer[t]]
      /\ Nothing \in Pending
  BY DEF TransactionInv, Nothing, Pending
<1>2. CASE Transaction!Return(t) /\ UNCHANGED <<engine, Transaction!own>>
  BY <1>1, <1>2, TransactionCallers DEF Transaction!own
<1>3. ASSUME \/ Transaction!Write(t) \/ Transaction!Retry(t) \/ Transaction!BatchUpsert(t)
             \/ Transaction!UpdateGet(t) \/ Transaction!Read(t) \/ Transaction!BatchRead(t)
             \/ Transaction!Iterate(t)
      PROVE  /\ UNCHANGED engine /\ Works(t)
             /\ \E p \in Pending : pending' = [pending EXCEPT ![t] = p]
             /\ \E b \in Seq(Keys) : buffer' = [buffer EXCEPT ![t] = b]
             /\ spent' \in {spent, spent \cup {t}}
  <2>1. stage[t] \in {"called", "write", "retry"} /\ UNCHANGED <<store, call, engine>>
    BY <1>3, TransactionCallers DEF Transaction!Write, Transaction!Retry,
         Transaction!BatchUpsert, Transaction!UpdateGet, Transaction!Read,
         Transaction!BatchRead, Transaction!Iterate, Transaction!Kept, Transaction!Reading,
         Called, At, Transaction!store, store
  <2>2. /\ KeysOf(t) \subseteq Keys /\ data \subseteq Keys /\ call[t].keys \in Seq(Keys)
        /\ Transaction!View(t) \subseteq Keys
    BY <2>1, CallOf, TransactionViews DEF CoreTypes
  <2>3. /\ \A found \in SUBSET Keys : Transaction!Touch(t, found) => Told(t)
        /\ \A status \in Statuses : Transaction!Reject(t, status) => Told(t)
        /\ \A touched \in Nat, found \in SUBSET Keys :
             Transaction!Finish(t, "ok", touched, found) => Told(t)
        /\ \A touched \in Nat, found \in SUBSET Keys :
             Transaction!FoundSome(t, touched, found) => Told(t)
    <3>1. {} \in SUBSET Keys /\ "ok" \in Statuses /\ "not_found" \in Statuses /\ 0 \in Nat
      BY DEF Statuses
    <3>2. /\ \A found \in SUBSET Keys : Transaction!Touch(t, found) => Told(t)
          /\ \A status \in Statuses : Transaction!Reject(t, status) => Told(t)
          /\ \A touched \in Nat, found \in SUBSET Keys :
               Transaction!Finish(t, "ok", touched, found) => Told(t)
      BY <3>1, TransactionCallers, ResultTold
    <3> QED
      BY <3>1, <3>2 DEF Transaction!FoundSome
  <2>4. CASE Transaction!Write(t) \/ Transaction!Retry(t)
    <3>1. /\ UNCHANGED buffer /\ spent' \in {spent, spent \cup {t}}
          /\ \/ Transaction!Pend(t, pending[t]) /\ UNCHANGED data
                  /\ Transaction!Touch(t, KeysOf(t))
             \/ /\ \/ Transaction!Commit(t) \/ Transaction!Rollback(t)
                   \/ UNCHANGED <<data, pending>>
                /\ \/ Transaction!GoTo(t, "retry") /\ UNCHANGED reply
                   \/ Transaction!Reject(t, "error")
      <4>1. Transaction!KeysOf(t) = KeysOf(t)
        BY TransactionCallers
      <4>2. CASE Transaction!Write(t)
        <5>1. Transaction!NoCommit(t) => Transaction!Rollback(t) \/ UNCHANGED <<data, pending>>
          BY Zenon DEF Transaction!NoCommit
        <5>2. spent' \in {spent, spent \cup {t}}
          BY <4>2 DEF Transaction!Write, Transaction!Granted
        <5> QED
          BY <4>1, <4>2, <5>1, <5>2, Zenon DEF Transaction!Write, Transaction!Kept,
             Transaction!Granted
      <4>3. CASE Transaction!Retry(t)
        BY <4>1, <4>3, Zenon DEF Transaction!Retry, Transaction!Kept, Transaction!Granted
      <4> QED
        BY <2>4, <4>2, <4>3
    <3>2. GoTo(t, "retry") <=> Transaction!GoTo(t, "retry")
      BY TransactionCallers
    <3>3. CASE Transaction!Pend(t, pending[t]) /\ UNCHANGED data
                 /\ Transaction!Touch(t, KeysOf(t))
      <4>1. \E p \in Pending : pending' = [pending EXCEPT ![t] = p]
        BY <2>1, <3>3, TransactionViews
      <4> QED
        BY <1>1, <2>1, <2>2, <2>3, <3>1, <3>3, <4>1 DEF Works, Told
    <3>4. CASE /\ \/ Transaction!Commit(t) \/ Transaction!Rollback(t)
                  \/ UNCHANGED <<data, pending>>
               /\ \/ Transaction!GoTo(t, "retry") /\ UNCHANGED reply
                  \/ Transaction!Reject(t, "error")
      <4>1. data' \subseteq Keys /\ \E p \in Pending : pending' = [pending EXCEPT ![t] = p]
        <5>1. CASE Transaction!Commit(t)
          BY <1>1, <2>1, <2>2, <5>1, TransactionViews
        <5>2. CASE Transaction!Rollback(t)
          BY <1>1, <2>2, <5>2 DEF Transaction!Rollback, Transaction!Nothing, Nothing
        <5>3. CASE UNCHANGED <<data, pending>>
          BY <1>1, <2>2, <5>3
        <5> QED
          BY <3>4, <5>1, <5>2, <5>3
      <4>2. (GoTo(t, "retry") /\ UNCHANGED reply) \/ Told(t)
        BY <2>3, <3>2, <3>4 DEF Statuses
      <4> QED
        BY <1>1, <2>1, <3>1, <4>1, <4>2 DEF Works, Told, Between
    <3> QED
      BY <3>1, <3>3, <3>4
  <2>5. CASE Transaction!BatchUpsert(t)
    <3>1. /\ UNCHANGED buffer /\ Transaction!Touch(t, KeysOf(t))
          /\ spent' \in {spent, spent \cup {t}}
          /\ \/ Transaction!Pend(t, pending[t]) /\ UNCHANGED data
             \/ \E written \in SUBSET KeysOf(t), first \in KeysOf(t) :
                  /\ \/ UNCHANGED data
                     \/ data' = Transaction!View(t) \cup {k \in written : k < first}
                  /\ \/ pending' = [pending EXCEPT ![t] =
                                      [put |-> @.put \cup written, del |-> @.del \ written]]
                     \/ pending' = [pending EXCEPT ![t] =
                                      [put |-> {k \in written : k >= first}, del |-> {}]]
      <4>1. Transaction!KeysOf(t) = KeysOf(t)
        BY TransactionCallers
      <4>2. UNCHANGED buffer /\ Transaction!Touch(t, KeysOf(t))
        BY <2>5, <4>1, Zenon DEF Transaction!BatchUpsert, Transaction!Kept
      <4>3. CASE Transaction!Granted(t)
        BY <4>2, <4>3, Zenon DEF Transaction!Granted
      <4>4. CASE ~Transaction!Granted(t)
        <5>1. PICK written \in {s \in SUBSET (Transaction!KeysOf(t) \ Transaction!Locked(t)) :
                                 mayFail \/ s = Transaction!KeysOf(t) \ Transaction!Locked(t)},
                   first \in Transaction!KeysOf(t) :
                /\ spent' = spent \cup {t}
                /\ \/ UNCHANGED data
                   \/ data' = Transaction!View(t) \cup {k \in written : k < first}
                /\ \/ pending' = [pending EXCEPT ![t] =
                                    [put |-> @.put \cup written, del |-> @.del \ written]]
                   \/ pending' = [pending EXCEPT ![t] =
                                    [put |-> {k \in written : k >= first}, del |-> {}]]
          BY <2>5, <4>4, Zenon DEF Transaction!BatchUpsert
        <5>2. written \in SUBSET KeysOf(t) /\ first \in KeysOf(t)
          BY <4>1
        <5> QED
          BY <4>2, <5>1, <5>2, Zenon
      <4> QED
        BY <4>3, <4>4
    <3>2. CASE Transaction!Pend(t, pending[t]) /\ UNCHANGED data
      <4>1. \E p \in Pending : pending' = [pending EXCEPT ![t] = p]
        BY <2>1, <3>2, TransactionViews
      <4> QED
        BY <1>1, <2>1, <2>2, <2>3, <3>1, <3>2, <4>1 DEF Works, Told
    <3>3. ASSUME NEW written \in SUBSET KeysOf(t), NEW first \in KeysOf(t),
                 \/ UNCHANGED data
                 \/ data' = Transaction!View(t) \cup {k \in written : k < first},
                 \/ pending' = [pending EXCEPT ![t] =
                                  [put |-> @.put \cup written, del |-> @.del \ written]]
                 \/ pending' = [pending EXCEPT ![t] =
                                  [put |-> {k \in written : k >= first}, del |-> {}]]
          PROVE  /\ data' \subseteq Keys
                 /\ \E p \in Pending : pending' = [pending EXCEPT ![t] = p]
      <4> DEFINE more == [put |-> pending[t].put \cup written, del |-> pending[t].del \ written]
                 rest == [put |-> {k \in written : k >= first}, del |-> {}]
      <4>1. more \in Pending /\ rest \in Pending
        BY <1>1, <2>2 DEF Pending
      <4>2. pending' \in {[pending EXCEPT ![t] = more], [pending EXCEPT ![t] = rest]}
        BY <3>3
      <4> HIDE DEF more, rest
      <4>3. \E p \in Pending : pending' = [pending EXCEPT ![t] = p]
        BY <4>1, <4>2
      <4> QED
        BY <2>2, <3>3, <4>3
    <3> QED
      BY <1>1, <2>1, <2>2, <2>3, <3>1, <3>2, <3>3 DEF Works, Told
  <2>6. CASE Transaction!UpdateGet(t) \/ Transaction!Read(t)
    <3>1. /\ UNCHANGED <<data, pending, buffer, spent>>
          /\ \/ GoTo(t, "write") /\ UNCHANGED reply
             \/ Transaction!Touch(t, KeysOf(t))
             \/ \E status \in Statuses : Transaction!Reject(t, status)
      BY <2>6, TransactionCallers DEF Transaction!UpdateGet, Transaction!Read,
           Transaction!Reading, Statuses
    <3> QED
      BY <1>1, <2>1, <2>2, <2>3, <3>1 DEF Works, Told, Between
  <2>7. CASE Transaction!BatchRead(t)
    <3> DEFINE keys == IF Transaction!RocksDB THEN buffer'[t] ELSE call[t].keys
               hits == {i \in 1..Len(keys) : keys[i] \in Transaction!View(t)}
    <3>1. /\ UNCHANGED <<data, pending, spent>>
          /\ \E b \in Seq(Keys) : buffer' = [buffer EXCEPT ![t] = b]
      <4>1. Transaction!Filled(buffer[t], call[t].keys) \in Seq(Keys)
        BY <1>1, <2>2, TransactionFilled
      <4>2. buffer' \in {buffer,
                         [buffer EXCEPT ![t] = Transaction!Filled(buffer[t], call[t].keys)]}
        BY <2>7 DEF Transaction!BatchRead
      <4> QED
        BY <1>1, <2>7, <4>1, <4>2 DEF Transaction!BatchRead, Transaction!Reading
    <3>2. \/ \E some \in SUBSET hits :
               Transaction!FoundSome(t, Cardinality(some), {keys[i] : i \in some})
          \/ Transaction!Reject(t, "error")
      BY <2>7, TransactionCallers DEF Transaction!BatchRead
    <3>3. keys \in Seq(Keys)
      BY <2>2, <3>1 DEF TransactionInv
    <3> HIDE DEF keys
    <3>4. ASSUME NEW some \in SUBSET hits
          PROVE  Cardinality(some) \in Nat /\ {keys[i] : i \in some} \in SUBSET Keys
      <4>1. Len(keys) \in Nat /\ some \in SUBSET (1..Len(keys))
        BY <3>3
      <4>2. IsFiniteSet(1..Len(keys))
        BY <4>1, FS_Interval
      <4> HIDE DEF hits
      <4>3. IsFiniteSet(some)
        BY <4>1, <4>2, FS_Subset
      <4>4. Cardinality(some) \in Nat
        BY <4>3, FS_CardinalityType
      <4>5. \A i \in some : keys[i] \in Keys
        BY <3>3, <4>1
      <4> QED
        BY <4>4, <4>5
    <3> QED
      <4> HIDE DEF hits
      <4> QED  BY <1>1, <2>1, <2>2, <2>3, <3>1, <3>2, <3>4 DEF Works, Told, Statuses
  <2>8. CASE Transaction!Iterate(t)
    <3>1. stage[t] = "called" /\ UNCHANGED <<data, pending, buffer, spent>>
      BY <2>8, TransactionCallers DEF Transaction!Iterate, Transaction!Reading, Called, At
    <3>2. \/ \E met \in SUBSET Transaction!View(t) :
               Transaction!FoundSome(t, Cardinality(met), met)
          \/ Transaction!FoundSome(t, Cardinality(Transaction!Scanned(t)),
                                   {entry[2] : entry \in Transaction!Scanned(t)})
          \/ Transaction!Reject(t, "error")
      <4>1. Transaction!Beyond(t, Transaction!Key(t), Transaction!Length(t))
              \in SUBSET Transaction!View(t)
        BY DEF Transaction!Beyond, Transaction!FirstNumbers
      <4>2. /\ \A s : Transaction!Cardinality(s) = Cardinality(s)
        BY TransactionCallers
      <4> QED
        BY <2>8, <4>1, <4>2 DEF Transaction!Iterate
    <3>3. \A met \in SUBSET Keys : Cardinality(met) \in Nat
      BY KeysFinite
    <3> QED
      BY <1>1, <2>1, <2>2, <2>3, <3>1, <3>2, <3>3, TransactionScanned DEF Works, Told, Statuses
  <2> QED
    BY <1>3, <2>4, <2>5, <2>6, <2>7, <2>8
<1> QED
  BY <1>2, <1>3 DEF Transaction!Progress

\* Transactions keep the invariants: what is left in one is committed, or lost, at
\* its end, before the database is closed.
LEMMA TransactionKeeps ==
  ASSUME AdaptersInv, OnTransaction(Transaction!Next)
  PROVE  AdaptersInv'
<1>1. /\ engine \in Transactions /\ Transaction!Next
      /\ UNCHANGED <<OfLMDB, OfWiredTiger, OfMongoDB, OfUStore>>
  BY DEF OnTransaction
<1>2. /\ TransactionInv /\ pending \in [Threads -> Pending] /\ buffer \in [Threads -> Seq(Keys)]
      /\ spent \subseteq Threads /\ Nothing \in Pending /\ data \subseteq Keys
      /\ stage \in [Threads -> Places]
  BY DEF AdaptersInv, TransactionInv, CoreTypes, Nothing, Pending
<1>3. SharedStep /\ TransactionInv' /\ UNCHANGED engine
  <2>1. CASE Transaction!Open \/ Transaction!Flush
    <3>1. /\ SharedStep /\ UNCHANGED <<engine, pending, buffer, spent, stage>> /\ handle' # "closed"
          /\ handle = "closed" \/ UNCHANGED workload
      BY <1>2, <2>1, TransactionCallers DEF Transaction!Open, Transaction!Flush,
           Transaction!own, SharedStep, DriverStep, OpenDb, FlushDb
    <3>2. ASSUME NEW t \in Threads, pending'[t] # Nothing \/ buffer'[t] # << >> \/ t \in spent'
          PROVE  t \in workload'.threads /\ stage'[t] # "ended"
      BY <1>2, <3>1, <3>2 DEF TransactionInv
    <3> QED
      BY <1>1, <1>2, <3>1, <3>2 DEF TransactionInv
  <2>2. CASE Transaction!Close
    <3>1. /\ CloseDb /\ stage' = [t \in Threads |-> "idle"]
          /\ UNCHANGED <<engine, pending, buffer, spent>>
          /\ \A t \in workload.threads : stage[t] = "ended"
      BY <2>2, TransactionCallers DEF Transaction!Close, Transaction!own
    <3>2. \A t \in Threads : pending[t] = Nothing /\ buffer[t] = << >> /\ t \notin spent
      BY <1>2, <3>1 DEF TransactionInv
    <3> QED
      BY <1>2, <3>1, <3>2 DEF TransactionInv, SharedStep, DriverStep, Closes
  <2>3. ASSUME NEW t \in Threads, Transaction!Progress(t)
        PROVE  SharedStep /\ TransactionInv' /\ UNCHANGED engine
    <3>1. /\ UNCHANGED engine /\ (Works(t) \/ Return(t))
          /\ \E p \in Pending : pending' = [pending EXCEPT ![t] = p]
          /\ \E b \in Seq(Keys) : buffer' = [buffer EXCEPT ![t] = b]
          /\ spent' \in {spent, spent \cup {t}}
      BY <2>3, TransactionWorks DEF AdaptersInv
    <3>2. /\ SharedStep /\ UNCHANGED <<handle, workload>> /\ stage[t] \notin {"idle", "ended"}
          /\ stage'[t] # "ended" /\ \A u \in Threads \ {t} : stage'[u] = stage[u]
      BY <1>2, <3>1 DEF SharedStep, ThreadStep, Works, Return, store, GoTo, Between
    <3>3. handle' = "open" /\ t \in workload'.threads
      BY <3>2 DEF AdaptersInv, CallInv
    <3>4. /\ pending' \in [Threads -> Pending] /\ buffer' \in [Threads -> Seq(Keys)]
          /\ \A u \in Threads \ {t} : pending'[u] = pending[u] /\ buffer'[u] = buffer[u]
          /\ spent' \subseteq Threads /\ \A u \in Threads \ {t} : u \in spent' => u \in spent
      BY <1>2, <3>1
    <3>5. ASSUME NEW u \in Threads, pending'[u] # Nothing \/ buffer'[u] # << >> \/ u \in spent'
          PROVE  u \in workload'.threads /\ stage'[u] # "ended"
      BY <1>2, <3>2, <3>3, <3>4, <3>5 DEF TransactionInv
    <3> QED
      BY <1>1, <3>1, <3>2, <3>3, <3>4, <3>5 DEF TransactionInv
  <2>4. ASSUME NEW t \in Threads, Transaction!End(t)
        PROVE  SharedStep /\ TransactionInv' /\ UNCHANGED engine
    <3>1. /\ handle = "flushed" /\ t \in workload.threads /\ stage[t] = "idle"
          /\ buffer' = [buffer EXCEPT ![t] = << >>] /\ GoTo(t, "ended")
          /\ UNCHANGED <<store, call, reply, engine>>
          /\ spent' = spent \ {t}
          /\ \/ Transaction!Commit(t) \/ Transaction!Rollback(t)
      BY <2>4, TransactionCallers, Zenon DEF Transaction!End, Transaction!store, store
    <3>2. /\ data' \subseteq Keys /\ pending' = [pending EXCEPT ![t] = Nothing]
      BY <1>2, <3>1 DEF Transaction!Commit, Transaction!Rollback, Transaction!View,
           Transaction!Applied, Transaction!Nothing, Nothing, Pending
    <3>3. /\ pending' \in [Threads -> Pending] /\ buffer' \in [Threads -> Seq(Keys)]
          /\ \A u \in Threads \ {t} : pending'[u] = pending[u] /\ buffer'[u] = buffer[u]
          /\ pending'[t] = Nothing /\ buffer'[t] = << >> /\ t \notin spent'
          /\ spent' \subseteq spent /\ spent' \subseteq Threads
          /\ \A u \in Threads \ {t} : stage'[u] = stage[u]
      BY <1>2, <3>1, <3>2 DEF GoTo
    <3>4. UNCHANGED <<handle, workload>> /\ SharedStep
      BY <1>1, <3>1, <3>2 DEF SharedStep, ThreadStep, Ends, store
    <3>5. ASSUME NEW u \in Threads, pending'[u] # Nothing \/ buffer'[u] # << >> \/ u \in spent'
          PROVE  u \in workload'.threads /\ stage'[u] # "ended"
      BY <1>2, <3>3, <3>4, <3>5 DEF TransactionInv
    <3> QED
      BY <1>1, <3>1, <3>3, <3>4, <3>5 DEF TransactionInv
  <2>5. ASSUME NEW t \in Threads, Transaction!Invoke(t) /\ UNCHANGED <<engine, Transaction!own>>
        PROVE  SharedStep /\ TransactionInv' /\ UNCHANGED engine
    <3>1. /\ Invoke(t) /\ stage' = [stage EXCEPT ![t] = "called"]
          /\ UNCHANGED <<engine, handle, workload, pending, buffer, spent>>
      BY <2>5, TransactionCallers DEF Transaction!own, Invoke, store
    <3>2. ASSUME NEW u \in Threads, pending'[u] # Nothing \/ buffer'[u] # << >> \/ u \in spent'
          PROVE  u \in workload'.threads /\ stage'[u] # "ended" /\ handle' # "closed"
      BY <1>2, <3>1, <3>2 DEF TransactionInv
    <3> QED
      BY <1>1, <1>2, <3>1, <3>2 DEF SharedStep, ThreadStep, TransactionInv
  <2> QED
    BY <1>1, <2>1, <2>2, <2>3, <2>4, <2>5, Zenon DEF Transaction!Next
<1>4. engine \notin UStores
  BY <1>1 DEF UStores, Transactions
<1> QED
  BY <1>1, <1>3, <1>4, SharedTypes, SharedCalls, PartsApart DEF AdaptersInv, Transactions

-----------------------------------------------------------------------------
(***************************************************************************)
(* The invariant, for every set of threads, keys, workloads and databases. *)
(***************************************************************************)

\* Nothing is left of anything when the program starts.
LEMMA AdaptersInit == Init => AdaptersInv
<1>1. SUFFICES ASSUME Init PROVE AdaptersInv
  OBVIOUS
<1>2. /\ LevelDB!CallerInit /\ engine \in Engines /\ writer = {} /\ bulk = "none"
      /\ acquired = {} /\ batch_keys = [t \in Threads |-> {}]
      /\ clients = 0 /\ client = [t \in Threads |-> 0] /\ client_index = 0
      /\ pending = [t \in Threads |-> Nothing] /\ buffer = [t \in Threads |-> << >>]
      /\ spent = {}
  BY <1>1, Zenon DEF Init, LevelDB!Init, LMDB!Init, WiredTiger!Init, MongoDB!Init, UStore!Init,
                     Transaction!Init, Transaction!Nothing, Nothing
<1>3. /\ mayFail \in BOOLEAN /\ handle = "closed" /\ workload \in Workloads
      /\ stage = [t \in Threads |-> "idle"] /\ call = [t \in Threads |-> NoCall]
      /\ reply = [t \in Threads |-> NoAnswer] /\ data = {}
  BY <1>2, Zenon DEF LevelDB!CallerInit, LevelDB!NoCall, NoCall, LevelDB!NoAnswer, NoAnswer
<1>4. CoreTypes
  <2>1. /\ handle \in {"closed", "open", "flushed"} /\ stage \in [Threads -> Places]
        /\ call \in [Threads -> Calls] /\ reply \in [Threads -> Answer] /\ data \subseteq Keys
    BY <1>3, Nothings DEF Places
  <2> QED
    BY <1>2, <1>3, <2>1, Zenon DEF CoreTypes
<1>5. Begun = {} /\ Served = {} /\ Cardinality({}) = 0 /\ \A t \in Threads : stage[t] = "idle"
  <2>1. \A t \in Threads : stage[t] = "idle" /\ client[t] = 0
    BY <1>2, <1>3
  <2> QED
    BY <2>1, FS_EmptySet DEF Begun, Served
<1>6. CallInv /\ WriterInv /\ BulkInv
  BY <1>2, <1>5 DEF CallInv, WriterInv, BulkInv
<1>7. PoolInv
  BY <1>2, <1>5, AdaptersAssumption DEF PoolInv
<1>8. ClientInv
  BY <1>2, <1>3, <1>5 DEF ClientInv
<1>9. TransactionInv
  BY <1>2 DEF TransactionInv, Nothing, Pending
<1> QED
  BY <1>4, <1>6, <1>7, <1>8, <1>9 DEF AdaptersInv

\* What is left between calls, and between workloads, is what the invariant says,
\* whichever database is benchmarked.
THEOREM AdaptersInvariant == Spec => []AdaptersInv
<1>1. AdaptersInv /\ [Next]_vars => AdaptersInv'
  <2>1. ASSUME AdaptersInv, Next PROVE AdaptersInv'
    BY <2>1, LevelDBKeeps, LMDBKeeps, WiredTigerKeeps, MongoDBKeeps, RedisKeeps, UStoreKeeps,
       TransactionKeeps DEF Next
  <2>2. ASSUME AdaptersInv, UNCHANGED vars PROVE AdaptersInv'
    <3>1. UNCHANGED <<mayFail, handle, workload, stage, call, reply, data, engine>>
          /\ UNCHANGED <<writer, bulk, acquired, batch_keys, clients, client, client_index,
                         pending, buffer, spent>>
      BY <2>2 DEF vars, OfLMDB, OfWiredTiger, OfMongoDB, OfUStore, OfTransaction
    <3>2. CoreTypes' /\ CallInv'
      BY <2>2, <3>1, Zenon DEF AdaptersInv, CoreTypes, CallInv
    <3>3. WriterInv' /\ BulkInv' /\ PoolInv' /\ ClientInv' /\ TransactionInv'
      BY <2>2, <3>1, Zenon DEF AdaptersInv, WriterInv, BulkInv, PoolInv, ClientInv,
         TransactionInv, Begun, Served
    <3> QED
      BY <3>2, <3>3 DEF AdaptersInv
  <2> QED
    BY <2>1, <2>2
<1> QED
  BY <1>1, AdaptersInit, PTL DEF Spec

\* The state of every adapter is of its types: one writer of LMDB at most, and no
\* more clients of MongoDB in use than the pool has.
THEOREM AdaptersTypeCorrect == Spec => []TypeOK
<1>1. AdaptersInv => TypeOK
  <2>1. SUFFICES ASSUME AdaptersInv PROVE TypeOK
    OBVIOUS
  <2>2. CoreTypes /\ WriterInv /\ BulkInv /\ PoolInv /\ ClientInv /\ TransactionInv
    BY <2>1 DEF AdaptersInv
  <2>3. mayFail \in BOOLEAN
    BY <2>2, Zenon DEF CoreTypes
  <2>4. /\ handle \in {"closed", "open", "flushed"} /\ workload \in Workloads
        /\ engine \in Engines /\ data \subseteq Keys
        /\ stage \in [Threads -> {"idle", "called", "done", "ended"} \cup Between]
        /\ \A t \in Threads : reply[t].touched \in Nat /\ reply[t].found \subseteq Keys
    BY <2>2 DEF CoreTypes, Places, Answer
  <2>5. writer \subseteq Threads /\ Cardinality(writer) <= 1
    <3>1. writer \subseteq Threads /\ \A t, u \in writer : t = u
      BY <2>2 DEF WriterInv, Begun
    <3>2. writer = {} \/ \E t \in writer : writer = {t}
      BY <3>1
    <3>3. ASSUME writer = {} PROVE Cardinality(writer) <= 1
      BY <3>3, FS_EmptySet
    <3>4. ASSUME NEW t \in writer, writer = {t} PROVE Cardinality(writer) <= 1
      <4>1. Cardinality({t}) = 1
        BY FS_Singleton
      <4> QED
        BY <3>4, <4>1
    <3> QED
      BY <3>1, <3>2, <3>3, <3>4
  <2>6. bulk \in {"none", "open", "dangling"}
    BY <2>2 DEF BulkInv
  <2>7. /\ acquired \subseteq Threads /\ Cardinality(acquired) <= PoolSize
        /\ batch_keys \in [Threads -> SUBSET Keys]
    BY <2>2 DEF PoolInv, Begun
  <2>8. clients \in Nat /\ client_index \in Nat /\ client \in [Threads -> Nat]
    BY <2>2 DEF ClientInv
  <2>9. /\ pending \in [Threads -> [put : SUBSET Keys, del : SUBSET Keys]]
        /\ \A t \in Threads : Range(buffer[t]) \subseteq Keys
        /\ spent \subseteq Threads
    BY <2>2 DEF TransactionInv, Pending, Range
  <2> QED
    BY <2>3, <2>4, <2>5, <2>6, <2>7, <2>8, <2>9, Zenon DEF TypeOK
<1> QED
  BY <1>1, AdaptersInvariant, PTL

\* Between workloads nothing is left of the one before, whichever database is
\* benchmarked.
THEOREM ClosedCleanAlways == Spec => []ClosedClean
<1>1. AdaptersInv => ClosedClean
  <2>1. SUFFICES ASSUME AdaptersInv, handle = "closed"
                 PROVE  /\ writer = {} /\ acquired = {} /\ bulk = "none"
                        /\ \A t \in Threads : batch_keys[t] = {} /\ Len(buffer[t]) = 0
                        /\ \A t \in Threads : pending[t] = [put |-> {}, del |-> {}]
                        /\ spent = {}
    BY Zenon DEF ClosedClean
  <2>2. Begun = {}
    BY <2>1 DEF AdaptersInv, CallInv, Begun
  <2>3. writer = {} /\ acquired = {} /\ bulk = "none"
    BY <2>1, <2>2 DEF AdaptersInv, WriterInv, PoolInv, BulkInv
  <2>4. \A t \in Threads : batch_keys[t] = {} /\ buffer[t] = << >> /\ pending[t] = Nothing
    BY <2>1 DEF AdaptersInv, PoolInv, TransactionInv
  <2>5. spent = {}
    BY <2>1 DEF AdaptersInv, TransactionInv
  <2> QED
    BY <2>3, <2>4, <2>5 DEF Nothing
<1> QED
  BY <1>1, AdaptersInvariant, PTL

\* No thread of UStore calls through a client that is not there or that is another
\* thread's, for any number of threads and workloads.
THEOREM ClientsOwnedAlways == Spec => []ClientsOwned
<1>1. AdaptersInv => ClientsOwned
  <2>1. SUFFICES ASSUME AdaptersInv, engine \in UStores PROVE ClientsOwned
    BY DEF ClientsOwned
  <2>2. /\ ClientInv /\ client \in [Threads -> Nat] /\ clients \in Nat /\ client_index \in Nat
        /\ workload.threads \in SUBSET Threads /\ IsFiniteSet(Threads)
    BY <2>1, CallerAssumption DEF AdaptersInv, ClientInv, CoreTypes
  <2>3. CASE engine = "ustore_flight"
    <3>1. \A t \in Threads : client[t] <= clients
      <4>1. CASE handle = "closed"
        BY <2>2, <2>3, <4>1 DEF ClientInv, Served
      <4>2. CASE handle # "closed"
        <5>1. IsFiniteSet(workload.threads) /\ Served \in SUBSET workload.threads
          BY <2>2, <2>3, FS_Subset DEF ClientInv
        <5>2. Cardinality(Served) <= Cardinality(workload.threads)
          BY <5>1, FS_Subset
        <5>3. /\ client_index = Cardinality(Served) /\ clients = Cardinality(workload.threads)
              /\ \A t \in Threads : client[t] <= client_index
          BY <2>2, <2>3, <4>2 DEF ClientInv
        <5> QED
          BY <2>2, <5>2, <5>3
      <4> QED
        BY <4>1, <4>2
    <3> QED
      BY <2>2, <2>3, <3>1 DEF ClientsOwned, ClientInv, Served
  <2>4. CASE engine \in {"ustore_ucset", "ustore_rocksdb"}
    <3>1. \A t \in Threads : client[t] <= clients
      BY <2>2, <2>4 DEF ClientInv, Served
    <3> QED
      BY <2>2, <2>4, <3>1 DEF ClientsOwned, ClientInv, Served
  <2> QED
    BY <2>1, <2>3, <2>4 DEF UStores
<1> QED
  BY <1>1, AdaptersInvariant, PTL

-----------------------------------------------------------------------------
(***************************************************************************)
(* Scans.                                                                  *)
(***************************************************************************)

\* A set that is not longer than asked for is all among its first entries.
LEMMA AllFirst ==
  ASSUME NEW S \in SUBSET Keys, NEW n \in Nat, Cardinality(S) <= n
  PROVE  FirstBytes(S, n) = S /\ FirstNumbers(S, n) = S
<1>1. IsFiniteSet(S) /\ Cardinality(S) \in Nat /\ S \subseteq Nat
  BY KeysFinite
<1>2. ASSUME NEW m \in S, NEW B \in SUBSET S, m \notin B
      PROVE  Cardinality(B) < n
  <2>1. B \in SUBSET (S \ {m}) /\ IsFiniteSet(S \ {m})
    BY <1>1, <1>2, FS_Subset
  <2>2. Cardinality(S \ {m}) = Cardinality(S) - 1
    BY <1>1, <1>2, FS_RemoveElement
  <2>3. Cardinality(B) <= Cardinality(S \ {m}) /\ IsFiniteSet(B)
    BY <2>1, FS_Subset
  <2>4. Cardinality(B) \in Nat
    BY <2>3, FS_CardinalityType
  <2> QED
    BY <1>1, <2>2, <2>3, <2>4
<1>3. \A m \in S : Swap(m) \in Int
  <2>1. ASSUME NEW m \in Nat PROVE Swap(m) \in Int
    <3>1. Base \in Nat \ {0}
      BY CallerAssumption
    <3>2. m % Base \in Nat /\ m \div Base \in Nat
      BY <3>1
    <3> QED
      BY <3>1, <3>2 DEF Swap
  <2> QED
    BY <1>1, <2>1
<1>4. \A m \in S : Cardinality({j \in S : Before(j, m)}) < n
  <2>1. SUFFICES ASSUME NEW m \in S PROVE Cardinality({j \in S : Before(j, m)}) < n
    OBVIOUS
  <2>2. m \notin {j \in S : Before(j, m)}
    BY <1>3 DEF Before
  <2> QED
    BY <1>2, <2>2
<1>5. \A m \in S : Cardinality({j \in S : j < m}) < n
  <2>1. SUFFICES ASSUME NEW m \in S PROVE Cardinality({j \in S : j < m}) < n
    OBVIOUS
  <2>2. m \notin {j \in S : j < m}
    BY <1>1
  <2> QED
    BY <1>2, <2>2
<1> QED
  BY <1>4, <1>5 DEF FirstBytes, FirstNumbers

\* No key comes before the key 0.
LEMMA FromZero ==
  ASSUME NEW S \in SUBSET Keys
  PROVE  {n \in S : ~Before(n, 0)} = S /\ {n \in S : n >= 0} = S
<1>1. S \subseteq Nat /\ Base \in Nat \ {0}
  BY KeysFinite, CallerAssumption
<1>2. ASSUME NEW m \in Nat PROVE ~(Swap(m) < Swap(0))
  <2>1. m % Base \in Nat /\ m \div Base \in Nat
    BY <1>1
  <2>2. (m % Base) * Base \in Nat
    BY <1>1, <2>1
  <2>3. 0 % Base = 0 /\ 0 \div Base = 0
    BY <1>1
  <2>4. Swap(0) = 0 /\ Swap(m) \in Nat
    BY <1>1, <2>1, <2>2, <2>3 DEF Swap
  <2> QED
    BY <2>4
<1>3. \A n \in S : ~Before(n, 0) /\ n >= 0
  BY <1>1, <1>2 DEF Before
<1> QED
  BY <1>3

\* The first entries of an interval.
LEMMA FirstOfInterval ==
  ASSUME NEW a \in Nat, NEW n \in Nat, NEW m \in Nat
  PROVE  FirstNumbers({k \in 0 .. n - 1 : k >= a}, m) = {k \in 0 .. n - 1 : a <= k /\ k < a + m}
<1> DEFINE S == {k \in 0 .. n - 1 : k >= a}
<1>1. ASSUME NEW k \in S PROVE Cardinality({j \in S : j < k}) = k - a
  <2>1. {j \in S : j < k} = a .. k - 1 /\ k \in Nat /\ k >= a
    BY <1>1
  <2>2. Cardinality(a .. k - 1) = k - a
    <3>1. Cardinality(a .. k - 1) = IF a > k - 1 THEN 0 ELSE k - 1 - a + 1
      BY <2>1, FS_Interval
    <3> QED
      BY <2>1, <3>1
  <2> HIDE DEF S
  <2> QED
    BY <2>1, <2>2
<1>2. FirstNumbers(S, m) = {k \in S : Cardinality({j \in S : j < k}) < m}
  BY DEF FirstNumbers
<1>3. FirstNumbers(S, m) = {k \in S : k - a < m}
  <2> HIDE DEF S
  <2> QED  BY <1>1, <1>2
<1> QED
  BY <1>3

\* The keys below n in chunks of c, of which so many are taken that there is room
\* for l keys.
Chunks(n, l, c) == UNION {{i} \X {k \in 0 .. n - 1 : i * c <= k /\ k < i * c + c}
                            : i \in 0 .. (l - 1) \div c}

\* The chunks have all keys, and each one once.
LEMMA ChunksCover ==
  ASSUME NEW n \in Nat, NEW l \in Nat, n <= l, NEW c \in Nat \ {0}, n > 0
  PROVE  /\ Chunks(n, l, c) # {} /\ {entry[2] : entry \in Chunks(n, l, c)} = 0 .. n - 1
         /\ Cardinality(Chunks(n, l, c)) = Cardinality(0 .. n - 1)
<1> DEFINE F    == Chunks(n, l, c)
           keys == 0 .. n - 1
           f    == [k \in keys |-> <<k \div c, k>>]
<1>1. ASSUME NEW k \in keys
      PROVE  /\ k \div c \in 0 .. (l - 1) \div c
             /\ (k \div c) * c <= k /\ k < (k \div c) * c + c
  <2>1. k \in Nat /\ k <= l - 1 /\ l - 1 \in Nat
    OBVIOUS
  <2>2. /\ k \div c \in Nat /\ (k \div c) * c <= k /\ k < (k \div c) * c + c
    BY <2>1
  <2>3. /\ (l - 1) \div c \in Nat /\ l - 1 < ((l - 1) \div c) * c + c
    BY <2>1
  <2>4. k \div c <= (l - 1) \div c
    <3> DEFINE q == k \div c
               r == (l - 1) \div c
    <3>1. q \in Nat /\ r \in Nat /\ q * c < r * c + c
      BY <2>1, <2>2, <2>3
    <3> HIDE DEF q, r
    <3>2. q < r + 1
      BY <3>1
    <3> QED
      BY <3>1, <3>2 DEF q, r
  <2> QED
    BY <2>2, <2>3, <2>4
<1>2. ASSUME NEW k \in keys, NEW i \in Nat, i * c <= k, k < i * c + c
      PROVE  i = k \div c
  <2> DEFINE q == k \div c
  <2>1. q \in Nat /\ q * c <= k /\ k < q * c + c /\ k \in Nat
    BY <1>1
  <2> HIDE DEF q
  <2>2. q * c < (i + 1) * c /\ i * c < (q + 1) * c
    BY <1>2, <2>1
  <2>3. q < i + 1 /\ i < q + 1
    BY <2>1, <2>2
  <2> QED
    BY <2>1, <2>3 DEF q
<1>3. \A e : e \in F <=> \E k \in keys : e = <<k \div c, k>>
  <2>1. ASSUME NEW e \in F PROVE \E k \in keys : e = <<k \div c, k>>
    <3>1. PICK i \in 0 .. (l - 1) \div c :
            e \in {i} \X {k \in 0 .. n - 1 : i * c <= k /\ k < i * c + c}
      BY <2>1 DEF Chunks
    <3>2. PICK k \in keys : e = <<i, k>> /\ i * c <= k /\ k < i * c + c
      BY <3>1
    <3>3. i = k \div c
      BY <1>2, <3>2
    <3> QED
      BY <3>2, <3>3
  <2>2. ASSUME NEW k \in keys PROVE <<k \div c, k>> \in F
    <3> DEFINE i == k \div c
               G == {i} \X {m \in 0 .. n - 1 : i * c <= m /\ m < i * c + c}
    <3>1. i \in 0 .. (l - 1) \div c /\ i * c <= k /\ k < i * c + c
      BY <1>1
    <3> HIDE DEF i
    <3>2. <<i, k>> \in G
      BY <3>1
    <3>3. G \in {{j} \X {m \in 0 .. n - 1 : j * c <= m /\ m < j * c + c}
                  : j \in 0 .. (l - 1) \div c}
      BY <3>1
    <3> HIDE DEF G
    <3> QED
      BY <3>2, <3>3 DEF i, Chunks
  <2> QED
    BY <2>1, <2>2
<1>4. f \in [keys -> F] /\ \A e \in F : \E k \in keys : f[k] = e
  BY <1>3
<1>5. \A j, k \in keys : f[j] = f[k] => j = k
  OBVIOUS
<1>6. IsFiniteSet(keys)
  BY FS_Interval
<1>7. 0 \in keys
  OBVIOUS
<1>8. {entry[2] : entry \in F} = keys
  <2>1. \A e \in F : e[2] \in keys
    BY <1>3
  <2>2. ASSUME NEW k \in keys PROVE \E e \in F : e[2] = k
    <3>1. <<k \div c, k>> \in F
      BY <1>3
    <3>2. <<k \div c, k>>[2] = k
      OBVIOUS
    <3> QED
      BY <3>1, <3>2
  <2> HIDE DEF keys
  <2> QED
    BY <2>1, <2>2
<1>9. F # {}
  BY <1>3, <1>7
<1> HIDE DEF f, keys, F
<1>10. f \in Surjection(keys, F) /\ f \in Injection(keys, F)
  BY <1>4, <1>5, Fun_IsSurj, Fun_IsInj
<1>11. Cardinality(F) = Cardinality(keys)
  BY <1>6, <1>10, FS_Surjection
<1> QED
  BY <1>8, <1>9, <1>11 DEF keys, F
\* Where the whole database is scanned from its first key on, and nothing fails.
Whole(t) == /\ ~mayFail /\ Cardinality(data) <= Length(t)
            /\ data = 0 .. Cardinality(data) - 1 /\ Key(t) \in data /\ Key(t) = 0

\* In a workload of scans nothing is put, by a transaction neither.
ScanInv ==
  "scan" \in workload.kinds /\ engine \notin {"wiredtiger", "redis"} =>
    \A t \in Threads : pending[t] = Nothing /\ stage[t] \notin {"put", "write", "retry"}

\* A thread goes on with its scan.  When it has finished, it tells all there is.
ScanStep(t) ==
  /\ UNCHANGED <<mayFail, workload, data>>
  /\ \A u \in Threads \ {t} : stage'[u] = stage[u] /\ call'[u] = call[u] /\ reply'[u] = reply[u]
  /\ stage'[t] \notin {"put", "write", "retry"}
  /\ stage'[t] = "done" =>
       /\ call'[t] = call[t]
       /\ Whole(t) => reply'[t].found = data /\ reply'[t].touched = Cardinality(data)

\* No scan has a result after the step.
Nobody == \A t \in Threads : stage'[t] \notin {"done", "put", "write", "retry"}

\* Where scans are mixed with nothing, a thread in a call scans.
LEMMA ScansOnly ==
  ASSUME AdaptersInv, ShippedMixes, "scan" \in workload.kinds,
         NEW t \in Threads, stage[t] \notin {"idle", "ended"}
  PROVE  call[t].kind = "scan"
<1>1. workload \in Workloads /\ call[t].kind \in workload.kinds
  BY CallOf DEF AdaptersInv
<1>2. PICK kind \in CallKinds :
        workload.kinds = {kind} \/ workload.kinds \in {{"read", "update"}, {"read", "upsert"}}
  BY <1>1 DEF ShippedMixes, CallKinds
<1> QED
  BY <1>1, <1>2

\* What the scans of each engine find of the whole database.
LEMMA WholeFound ==
  ASSUME AdaptersInv, NEW t \in Threads, stage[t] \notin {"idle", "ended"}, Whole(t)
  PROVE  /\ FirstBytes({n \in data : ~Before(n, Key(t))}, Length(t)) = data
         /\ FirstBytes(data, Length(t)) = data
         /\ FirstNumbers({n \in data : n >= Key(t)}, Length(t)) = data
<1>1. Key(t) = 0 /\ Cardinality(data) <= Length(t)
  BY Zenon DEF Whole
<1>2. Length(t) \in Nat /\ data \in SUBSET Keys
  BY CallOf DEF AdaptersInv, CoreTypes
<1> QED
  BY <1>1, <1>2, AllFirst, FromZero

\* What a scan in chunks finds of the whole database: each entry once.
LEMMA WholeChunks ==
  ASSUME AdaptersInv, NEW t \in Threads, stage[t] \notin {"idle", "ended"}, Whole(t),
         NEW F, F = UNION {{i} \X FirstNumbers({k \in data : k >= Key(t) + i * Chunk},
                                               Min({Chunk, Length(t) - i * Chunk}))
                             : i \in 0 .. (Length(t) - 1) \div Chunk}
  PROVE  F # {} /\ {entry[2] : entry \in F} = data /\ Cardinality(F) = Cardinality(data)
<1> DEFINE n == Cardinality(data)
           l == Length(t)
<1>1. Key(t) = 0 /\ n <= l /\ data = 0 .. n - 1 /\ 0 \in data
  BY Zenon DEF Whole
<1>2. l \in Nat \ {0} /\ n \in Nat /\ Chunk \in Nat \ {0}
  BY CallOf, KeysFinite, AdaptersAssumption DEF AdaptersInv, CoreTypes
<1> HIDE DEF n, l
<1>3. n > 0
  BY <1>1, <1>2
<1>4. ASSUME NEW i \in 0 .. (l - 1) \div Chunk
      PROVE  FirstNumbers({k \in data : k >= Key(t) + i * Chunk}, Min({Chunk, l - i * Chunk}))
               = {k \in 0 .. n - 1 : i * Chunk <= k /\ k < i * Chunk + Chunk}
  <2> DEFINE a == i * Chunk
             m == Min({Chunk, l - a})
  <2>1. a \in Nat /\ l - a \in Nat
    <3>1. i \in Nat /\ i <= (l - 1) \div Chunk
      BY <1>2
    <3>2. (l - 1) \div Chunk \in Nat /\ ((l - 1) \div Chunk) * Chunk <= l - 1
      BY <1>2
    <3> DEFINE q == (l - 1) \div Chunk
    <3> HIDE DEF q
    <3>3. i * Chunk <= q * Chunk /\ i * Chunk \in Nat
      BY <1>2, <3>1, <3>2 DEF q
    <3> QED
      BY <1>2, <3>2, <3>3 DEF q
  <2> HIDE DEF a
  <2>2. m \in {Chunk, l - a} /\ m <= Chunk /\ m <= l - a
    <3>1. \E x \in {Chunk, l - a} : \A y \in {Chunk, l - a} : x <= y
      BY <1>2, <2>1
    <3>2. m \in {Chunk, l - a} /\ \A y \in {Chunk, l - a} : m <= y
      BY <3>1 DEF Min
    <3> QED
      BY <3>2
  <2> HIDE DEF m
  <2>3. FirstNumbers({k \in 0 .. n - 1 : k >= a}, m) = {k \in 0 .. n - 1 : a <= k /\ k < a + m}
    BY <1>2, <2>1, <2>2, FirstOfInterval
  <2>4. \A k \in 0 .. n - 1 : k < a + m <=> k < a + Chunk
    BY <1>1, <1>2, <2>1, <2>2
  <2>5. Key(t) + a = a
    BY <1>1, <2>1
  <2> QED
    BY <1>1, <2>3, <2>4, <2>5 DEF a, m
<1>5. F = Chunks(n, l, Chunk)
  <2>1. F = UNION {{i} \X FirstNumbers({k \in data : k >= Key(t) + i * Chunk},
                                      Min({Chunk, l - i * Chunk}))
                     : i \in 0 .. (l - 1) \div Chunk}
    BY Zenon DEF l
  <2> DEFINE G(i) == FirstNumbers({k \in data : k >= Key(t) + i * Chunk},
                                  Min({Chunk, l - i * Chunk}))
             H(i) == {k \in 0 .. n - 1 : i * Chunk <= k /\ k < i * Chunk + Chunk}
  <2>2. \A i \in 0 .. (l - 1) \div Chunk : G(i) = H(i)
    BY <1>4
  <2>3. F = UNION {{i} \X G(i) : i \in 0 .. (l - 1) \div Chunk}
    BY <2>1
  <2> HIDE DEF G, H
  <2>4. F = UNION {{i} \X H(i) : i \in 0 .. (l - 1) \div Chunk}
    BY <2>2, <2>3
  <2> QED
    BY <2>4 DEF H, Chunks
<1>6. F # {} /\ {entry[2] : entry \in F} = 0 .. n - 1 /\ Cardinality(F) = Cardinality(0 .. n - 1)
  <2>1. n \in Nat /\ l \in Nat /\ n <= l /\ Chunk \in Nat \ {0} /\ n > 0
    BY <1>1, <1>2, <1>3
  <2> QED
    <3>1. Chunks(n, l, Chunk) # {}
      BY <2>1, ChunksCover
    <3>2. {entry[2] : entry \in Chunks(n, l, Chunk)} = 0 .. n - 1
      BY <2>1, ChunksCover
    <3>3. Cardinality(Chunks(n, l, Chunk)) = Cardinality(0 .. n - 1)
      BY <2>1, ChunksCover
    <3> QED
      BY <1>5, <3>1, <3>2, <3>3
<1> QED
  BY <1>1, <1>6, Zenon

\* The steps of the driver have no result.
LEMMA DriverAlone ==
  ASSUME CoreTypes, CallInv, DriverStep
  PROVE  Nobody
<1>1. ASSUME handle # "open" PROVE \A t \in Threads : stage[t] \in {"idle", "ended"}
  BY <1>1 DEF CallInv
<1>2. CASE OpenDb
  BY <1>1, <1>2 DEF OpenDb, Nobody
<1>3. CASE FlushDb
  BY <1>3 DEF FlushDb, Nobody
<1>4. CASE Closes
  BY <1>1, <1>4 DEF Closes, CloseDb, Nobody
<1>5. CASE \E d \in SUBSET Keys : EndProgram(d)
  BY <1>5 DEF EndProgram, NoThreadCalls, Nobody
<1> QED
  BY <1>2, <1>3, <1>4, <1>5 DEF DriverStep

\* A thread that calls or returns tells nothing.
LEMMA CallAlone ==
  ASSUME CoreTypes, NEW t \in Threads, Invoke(t) \/ Return(t)
  PROVE  ScanStep(t)
<1>1. UNCHANGED <<mayFail, workload, data>>
  BY Zenon DEF Invoke, Return, store
<1>2. /\ \A u \in Threads \ {t} :
           stage'[u] = stage[u] /\ call'[u] = call[u] /\ reply'[u] = reply[u]
      /\ stage'[t] \in {"idle", "called"}
  BY DEF CoreTypes, Invoke, Return
<1> QED
  BY <1>1, <1>2 DEF ScanStep

\* A thread that scans leaves alone what the others do.
LEMMA ScanAlone ==
  ASSUME CoreTypes, NEW t \in Threads, Works(t), UNCHANGED data,
         stage'[t] \notin {"put", "write", "retry"},
         stage'[t] = "done" /\ Whole(t) =>
           reply'[t].found = data /\ reply'[t].touched = Cardinality(data)
  PROVE  ScanStep(t)
<1>1. UNCHANGED <<mayFail, workload>> /\ UNCHANGED call
  BY Zenon DEF Works, store
<1>2. \A u \in Threads \ {t} : stage'[u] = stage[u] /\ reply'[u] = reply[u]
  BY DEF CoreTypes, Works, GoTo
<1> QED
  BY <1>1, <1>2 DEF ScanStep

\* All entries are told.
LEMMA AllTold ==
  ASSUME CoreTypes, NEW t \in Threads
  PROVE  /\ Touch(t, data) => /\ reply'[t].found = data
                              /\ reply'[t].touched = Cardinality(data)
         /\ Finish(t, "ok", Cardinality(data), data) =>
              reply'[t].found = data /\ reply'[t].touched = Cardinality(data)
BY DEF CoreTypes, Touch, Finish

\* Every scan of LevelDB is one walk over the entries.
LEMMA LevelDBScans ==
  ASSUME AdaptersInv, ShippedMixes, ScanInv, "scan" \in workload'.kinds, OnLevelDB(LevelDB!Next)
  PROVE  Nobody \/ \E t \in Threads : ScanStep(t)
<1>1. engine = "leveldb" /\ LevelDB!Next /\ CoreTypes /\ CallInv
  BY DEF OnLevelDB, AdaptersInv
<1>2. CASE LevelDB!Open \/ LevelDB!Flush \/ LevelDB!Close
  <2>1. DriverStep
    BY <1>1, <1>2, LevelDBCallers DEF LevelDB!Open, LevelDB!Flush, LevelDB!Close, DriverStep,
         Closes, Transactions, CoreTypes
  <2> QED
    BY <1>1, <2>1, DriverAlone
<1>3. ASSUME NEW t \in Threads, LevelDB!Invoke(t) \/ LevelDB!Return(t) PROVE ScanStep(t)
  BY <1>1, <1>3, LevelDBCallers, CallAlone
<1>4. ASSUME NEW t \in Threads, LevelDB!Progress(t), ~LevelDB!Return(t) PROVE ScanStep(t)
  <2>1. Works(t) \/ Return(t)
    BY <1>1, <1>4, LevelDBWorks
  <2>2. Works(t) /\ UNCHANGED workload /\ stage[t] \notin {"idle", "done", "ended"}
    BY <1>4, <2>1, LevelDBCallers DEF Works, store
  <2>3. call[t].kind = "scan" /\ stage[t] # "put"
    BY <1>1, <2>2, ScansOnly DEF ScanInv
  <2>4. LevelDB!Iterate(t)
    BY <1>4, <2>3, LevelDBCallers DEF LevelDB!Progress, LevelDB!Upsert, LevelDB!UpdateGet,
         LevelDB!Remove, LevelDB!Read, LevelDB!BatchUpsert, LevelDB!BatchRead, Called, At
  <2>5. /\ UNCHANGED data
        /\ Touch(t, FirstBytes({n \in data : ~Before(n, Key(t))}, Length(t)))
    BY <2>4, LevelDBCallers, Zenon DEF LevelDB!Iterate
  <2>6. stage'[t] = "done"
    BY <1>1, <2>5 DEF Touch, Finish, CoreTypes
  <2>7. ASSUME Whole(t) PROVE reply'[t].found = data /\ reply'[t].touched = Cardinality(data)
    BY <1>1, <2>2, <2>5, <2>7, WholeFound, AllTold
  <2> QED
    BY <1>1, <2>2, <2>5, <2>6, <2>7, ScanAlone
<1> QED
  BY <1>1, <1>2, <1>3, <1>4 DEF LevelDB!Next

\* A scan of LMDB walks over the entries when it is the writer.
LEMMA LMDBScans ==
  ASSUME AdaptersInv, ShippedMixes, ScanInv, "scan" \in workload'.kinds, OnLMDB(LMDB!Next)
  PROVE  Nobody \/ \E t \in Threads : ScanStep(t)
<1>1. engine = "lmdb" /\ LMDB!Next /\ CoreTypes /\ CallInv
  BY DEF OnLMDB, AdaptersInv
<1>2. CASE LMDB!Open \/ LMDB!Flush \/ LMDB!Close
  <2>1. DriverStep
    BY <1>1, <1>2, LMDBCallers DEF LMDB!Open, LMDB!Flush, LMDB!Close, DriverStep,
         Closes, Transactions, CoreTypes
  <2> QED
    BY <1>1, <2>1, DriverAlone
<1>3. ASSUME NEW t \in Threads, LMDB!Invoke(t) \/ LMDB!Return(t) PROVE ScanStep(t)
  BY <1>1, <1>3, LMDBCallers, CallAlone
<1>4. ASSUME NEW t \in Threads, LMDB!Progress(t), ~LMDB!Return(t) PROVE ScanStep(t)
  <2>1. Works(t) \/ Return(t)
    BY <1>1, <1>4, LMDBWorks
  <2>2. Works(t) /\ UNCHANGED workload /\ stage[t] \notin {"idle", "done", "ended"}
    BY <1>4, <2>1, LMDBCallers DEF Works, store
  <2>3. call[t].kind = "scan"
    BY <1>1, <2>2, ScansOnly
  <2>4. LMDB!Begin(t) \/ LMDB!Iterate(t)
    BY <1>4, <2>3, LMDBCallers DEF LMDB!Progress, LMDB!Upsert, LMDB!Update,
         LMDB!Remove, LMDB!Read, LMDB!BatchUpsert, LMDB!BatchRead, Called, At
  <2>5. /\ UNCHANGED data
        /\ \/ GoTo(t, "begun")
           \/ Touch(t, FirstBytes({n \in data : ~Before(n, Key(t))}, Length(t)))
           \/ GoTo(t, "done") /\ (mayFail \/ Key(t) \notin data)
    <3>1. /\ LMDB!KeysOf(t) = KeysOf(t) /\ LMDB!Key(t) = Key(t) /\ LMDB!Length(t) = Length(t)
          /\ \A S, n : LMDB!FirstBytes(S, n) = FirstBytes(S, n)
          /\ \A m, n : LMDB!Before(m, n) <=> Before(m, n)
          /\ \A found : LMDB!Touch(t, found) <=> Touch(t, found)
          /\ LMDB!GoTo(t, "begun") <=> GoTo(t, "begun")
          /\ \A status : LMDB!Reject(t, status) => GoTo(t, "done")
      BY LMDBCallers DEF Reject, Finish, GoTo
    <3>2. CASE LMDB!Begin(t)
      BY <3>1, <3>2, Zenon DEF LMDB!Begin, LMDB!Broken
    <3>3. CASE LMDB!Iterate(t)
      BY <3>1, <3>3, Zenon DEF LMDB!Iterate, LMDB!Broken
    <3> QED
      BY <2>4, <3>2, <3>3
  <2>6. stage'[t] \in {"begun", "done"} /\ (GoTo(t, "begun") => stage'[t] = "begun")
    BY <1>1, <2>5 DEF Touch, Finish, CoreTypes, GoTo
  <2>7. ASSUME Whole(t), stage'[t] = "done"
        PROVE  reply'[t].found = data /\ reply'[t].touched = Cardinality(data)
    <3>1. Touch(t, FirstBytes({n \in data : ~Before(n, Key(t))}, Length(t)))
      <4>1. ~mayFail /\ Key(t) \in data
        BY <2>7, Zenon DEF Whole
      <4> QED
        BY <4>1, <2>5, <2>6, <2>7
    <3> QED
      BY <1>1, <2>2, <2>7, <3>1, WholeFound, AllTold
  <2> QED
    BY <1>1, <2>2, <2>5, <2>6, <2>7, ScanAlone
<1> QED
  BY <1>1, <1>2, <1>3, <1>4, Zenon DEF LMDB!Next

\* A scan of MongoDB reads the collection when it has a client.
LEMMA MongoDBScans ==
  ASSUME AdaptersInv, ShippedMixes, ScanInv, "scan" \in workload'.kinds, OnMongoDB(MongoDB!Next)
  PROVE  Nobody \/ \E t \in Threads : ScanStep(t)
<1>1. engine = "mongodb" /\ MongoDB!Next /\ CoreTypes /\ CallInv /\ PoolInv
  BY DEF OnMongoDB, AdaptersInv
<1>2. CASE MongoDB!Open \/ MongoDB!Flush \/ MongoDB!Close
  <2>1. DriverStep
    BY <1>1, <1>2, MongoDBCallers DEF MongoDB!Open, MongoDB!Flush, MongoDB!Close, DriverStep,
         Closes, Transactions, CoreTypes
  <2> QED
    BY <1>1, <2>1, DriverAlone
<1>3. ASSUME NEW t \in Threads, MongoDB!Invoke(t) \/ MongoDB!Return(t) PROVE ScanStep(t)
  BY <1>1, <1>3, MongoDBCallers, CallAlone
<1>4. ASSUME NEW t \in Threads, MongoDB!Progress(t), ~MongoDB!Return(t)
      PROVE  Nobody \/ ScanStep(t)
  <2>1. Works(t) \/ Return(t) \/ \E d \in SUBSET Keys : EndProgram(d)
    BY <1>1, <1>4, MongoDBWorks
  <2>2. CASE \E d \in SUBSET Keys : EndProgram(d)
    BY <1>1, <2>2, DriverAlone DEF DriverStep
  <2>3. CASE Works(t)
    <3>1. UNCHANGED workload /\ stage[t] \notin {"idle", "done", "ended"}
      BY <2>3 DEF Works, store
    <3>2. call[t].kind = "scan"
      BY <3>1, ScansOnly
    <3>3. MongoDB!Acquire(t) \/ MongoDB!Throw(t) \/ MongoDB!Scan(t)
      BY <1>4, <3>2, MongoDBCallers DEF MongoDB!Progress, MongoDB!Upsert, MongoDB!Remove,
           MongoDB!Read, MongoDB!BatchUpsert, MongoDB!BulkLoad, MongoDB!BatchRead,
           MongoDB!RangeSelect, At
    <3>4. CASE MongoDB!Throw(t)
      <4>1. \E d : EndProgram(d)
        BY <3>4, MongoDBCallers DEF MongoDB!Throw
      <4> QED
        BY <4>1 DEF EndProgram, NoThreadCalls, Nobody
    <3>5. CASE MongoDB!Acquire(t)
      <4>1. UNCHANGED data /\ GoTo(t, "begun")
        BY <3>5, MongoDBCallers DEF MongoDB!Acquire
      <4>2. stage'[t] = "begun"
        BY <1>1, <4>1 DEF GoTo, CoreTypes
      <4> QED
        BY <1>1, <2>3, <4>1, <4>2, ScanAlone
    <3>6. CASE MongoDB!Scan(t)
      <4>1. /\ UNCHANGED data
            /\ Finish(t, "ok", IF Cardinality(data) > Length(t) THEN Length(t) + 1
                                                                ELSE Cardinality(data),
                      FirstBytes(data, Length(t)))
        BY <3>6, MongoDBCallers DEF MongoDB!Scan
      <4>2. stage'[t] = "done"
        BY <1>1, <4>1 DEF Finish, CoreTypes
      <4>3. ASSUME Whole(t)
            PROVE  reply'[t].found = data /\ reply'[t].touched = Cardinality(data)
        <5>1. FirstBytes(data, Length(t)) = data
          BY <3>1, <4>3, WholeFound
        <5>2. ~(Cardinality(data) > Length(t))
          <6>1. Cardinality(data) <= Length(t)
            BY <4>3, Zenon DEF Whole
          <6>2. Cardinality(data) \in Nat /\ Length(t) \in Nat
            BY <1>1, <3>1, CallOf, KeysFinite DEF CoreTypes
          <6> QED
            BY <6>1, <6>2
        <5> QED
          BY <1>1, <4>1, <5>1, <5>2, AllTold
      <4> QED
        BY <1>1, <2>3, <4>1, <4>2, <4>3, ScanAlone
    <3> QED
      BY <3>3, <3>4, <3>5, <3>6
  <2> QED
    BY <1>4, <2>1, <2>2, <2>3, MongoDBCallers
<1> QED
  BY <1>1, <1>2, <1>3, <1>4, Zenon DEF MongoDB!Next

\* A scan of UStore is one step, of all its chunks.
LEMMA UStoreScans ==
  ASSUME AdaptersInv, ShippedMixes, ScanInv, "scan" \in workload'.kinds, OnUStore(UStore!Next)
  PROVE  Nobody \/ \E t \in Threads : ScanStep(t)
<1>1. engine \in UStores /\ engine \notin Transactions /\ UStore!Next /\ CoreTypes /\ CallInv
  BY DEF OnUStore, AdaptersInv, UStores, Transactions
<1>2. CASE UStore!Open \/ UStore!Flush \/ UStore!Close
  <2>1. OpenDb \/ FlushDb \/ (CloseDb /\ UNCHANGED stage)
    BY <1>2, UStoreCallers, Zenon DEF UStore!Open, UStore!Flush, UStore!Close
  <2>2. ASSUME handle # "open" PROVE \A t \in Threads : stage[t] \in {"idle", "ended"}
    BY <1>1, <2>2 DEF CallInv
  <2> QED
    BY <2>1, <2>2 DEF OpenDb, FlushDb, CloseDb, Nobody
<1>3. ASSUME NEW t \in Threads, UStore!Invoke(t) \/ UStore!Return(t) PROVE ScanStep(t)
  BY <1>1, <1>3, UStoreCallers, CallAlone
<1>4. ASSUME NEW t \in Threads, UStore!Progress(t), ~UStore!Return(t) PROVE ScanStep(t)
  <2>1. Works(t)
    BY <1>1, <1>4, UStoreWorks, UStoreCallers
  <2>2. UNCHANGED workload /\ stage[t] \notin {"idle", "done", "ended"}
    BY <2>1 DEF Works, store
  <2>3. call[t].kind = "scan"
    BY <1>1, <2>2, ScansOnly
  <2>4. UStore!Scan(t)
    BY <1>4, <2>3, UStoreCallers DEF UStore!Progress, UStore!Upsert, UStore!Remove,
         UStore!Read, UStore!BatchUpsert, UStore!BatchRead, UStore!RangeSelect,
         UStore!Calling, Called, At
  <2> DEFINE F == UStore!Scanned(t)
  <2>5. /\ UNCHANGED data
        /\ \/ GoTo(t, "done") /\ (mayFail \/ F = {})
           \/ Finish(t, "ok", Cardinality(F), {entry[2] : entry \in F})
    <3>1. /\ UStore!Cardinality(F) = Cardinality(F)
          /\ \A touched, found : UStore!Finish(t, "ok", touched, found)
                                   <=> Finish(t, "ok", touched, found)
          /\ \A status : UStore!Reject(t, status) => GoTo(t, "done")
      BY UStoreCallers DEF Reject, Finish, GoTo
    <3> QED
      BY <2>4, <3>1, Zenon DEF UStore!Scan
  <2>6. stage'[t] = "done"
    BY <1>1, <2>5 DEF GoTo, Finish, CoreTypes
  <2>7. ASSUME Whole(t)
        PROVE  reply'[t].found = data /\ reply'[t].touched = Cardinality(data)
    <3>1. F = UNION {{i} \X FirstNumbers({k \in data : k >= Key(t) + i * Chunk},
                                         Min({Chunk, Length(t) - i * Chunk}))
                       : i \in 0 .. (Length(t) - 1) \div Chunk}
      <4>1. \A S : UStore!Min(S) = Min(S)
        BY Zenon DEF UStore!Min, Min
      <4>2. /\ UStore!Key(t) = Key(t) /\ UStore!Length(t) = Length(t)
            /\ \A S, n : UStore!FirstNumbers(S, n) = FirstNumbers(S, n)
        BY UStoreCallers
      <4>3. \A i : UStore!ChunkOf(t, i) = FirstNumbers({k \in data : k >= Key(t) + i * Chunk},
                                                       Min({Chunk, Length(t) - i * Chunk}))
        BY <4>1, <4>2, Zenon DEF UStore!ChunkOf
      <4> QED
        BY <4>2, <4>3, Zenon DEF UStore!Scanned
    <3> HIDE DEF F
    <3>2. F # {} /\ {entry[2] : entry \in F} = data /\ Cardinality(F) = Cardinality(data)
      BY <2>2, <2>7, <3>1, WholeChunks
    <3>3. Finish(t, "ok", Cardinality(F), {entry[2] : entry \in F})
      <4>1. ~mayFail
        BY <2>7, Zenon DEF Whole
      <4> QED
        BY <2>5, <3>2, <4>1
    <3>4. Finish(t, "ok", Cardinality(data), data)
      BY <3>2, <3>3
    <3> QED
      BY <1>1, <3>4, AllTold
  <2> QED
    BY <1>1, <2>1, <2>5, <2>6, <2>7, ScanAlone
<1> QED
  BY <1>1, <1>2, <1>3, <1>4, Zenon DEF UStore!Next

\* A transaction that has put nothing scans the database, and puts nothing.
LEMMA TransactionScans ==
  ASSUME AdaptersInv, ShippedMixes, ScanInv, "scan" \in workload'.kinds,
         OnTransaction(Transaction!Next)
  PROVE  /\ Nobody \/ \E t \in Threads : ScanStep(t)
         /\ \A t \in Threads : pending'[t] = Nothing
<1>1. /\ engine \in Transactions /\ engine \notin {"wiredtiger", "redis"} /\ Transaction!Next
      /\ CoreTypes /\ CallInv /\ TransactionInv
      /\ pending \in [Threads -> Pending]
  BY DEF OnTransaction, AdaptersInv, Transactions, TransactionInv
<1>2. ASSUME UNCHANGED workload PROVE \A t \in Threads : pending[t] = Nothing
  BY <1>1, <1>2 DEF ScanInv
<1>3. CASE Transaction!Open
  <2>1. OpenDb /\ UNCHANGED pending
    BY <1>3, TransactionCallers DEF Transaction!Open, Transaction!own
  <2>2. \A t \in Threads : stage[t] = "idle" /\ pending[t] = Nothing
    BY <1>1, <2>1 DEF OpenDb, CallInv, TransactionInv
  <2> QED
    BY <2>1, <2>2 DEF OpenDb, Nobody
<1>4. CASE Transaction!Flush \/ Transaction!Close
  <2>1. /\ FlushDb \/ (CloseDb /\ stage' = [t \in Threads |-> "idle"])
        /\ UNCHANGED <<workload, pending>>
    BY <1>4, TransactionCallers DEF Transaction!Flush, Transaction!Close, Transaction!own,
         FlushDb, CloseDb
  <2>2. Nobody
    BY <2>1 DEF FlushDb, CloseDb, Nobody
  <2> QED
    BY <1>2, <2>1, <2>2
<1>5. ASSUME NEW t \in Threads, Transaction!End(t)
      PROVE  Nobody /\ \A u \in Threads : pending'[u] = Nothing
  <2>1. /\ handle = "flushed" /\ GoTo(t, "ended") /\ UNCHANGED workload
        /\ pending' = [pending EXCEPT ![t] = Nothing]
    BY <1>5, TransactionCallers DEF Transaction!End, Transaction!Commit, Transaction!Rollback,
         Transaction!Nothing, Nothing, Transaction!store
  <2>2. \A u \in Threads : stage[u] \in {"idle", "ended"}
    BY <1>1, <2>1 DEF CallInv
  <2>3. Nobody
    BY <1>1, <2>1, <2>2 DEF CoreTypes, GoTo, Nobody
  <2> QED
    BY <1>1, <1>2, <2>1, <2>3
<1>6. ASSUME NEW t \in Threads,
             (Transaction!Invoke(t) \/ Transaction!Return(t)) /\ UNCHANGED pending
      PROVE  ScanStep(t) /\ \A u \in Threads : pending'[u] = Nothing
  <2>1. Invoke(t) \/ Return(t)
    BY <1>6, TransactionCallers
  <2>2. UNCHANGED workload
    BY <2>1 DEF Invoke, Return, store
  <2> QED
    BY <1>1, <1>2, <1>6, <2>1, <2>2, CallAlone
<1>7. ASSUME NEW t \in Threads, Transaction!Progress(t), ~Transaction!Return(t)
      PROVE  ScanStep(t) /\ \A u \in Threads : pending'[u] = Nothing
  <2>1. Works(t)
    BY <1>1, <1>7, TransactionWorks, TransactionCallers
  <2>2. UNCHANGED workload /\ stage[t] \notin {"idle", "done", "ended"}
    BY <2>1 DEF Works, store
  <2>3. call[t].kind = "scan" /\ stage[t] \notin {"write", "retry"} /\ pending[t] = Nothing
    BY <1>1, <2>2, ScansOnly DEF ScanInv
  <2>4. Transaction!Iterate(t)
    <3>1. \A S : Transaction!Called(t, S) => "scan" \in S
      BY <2>3, TransactionCallers DEF Called, At
    <3>2. "scan" \notin Transaction!WriteKinds
      BY DEF Transaction!WriteKinds
    <3>3. ~Transaction!Write(t) /\ ~Transaction!Retry(t)
      BY <2>3, <3>1, <3>2, Zenon DEF Transaction!Write, Transaction!Retry
    <3>4. ~Transaction!BatchUpsert(t)
      BY <3>1 DEF Transaction!BatchUpsert
    <3>5. ~Transaction!UpdateGet(t) /\ ~Transaction!Read(t) /\ ~Transaction!BatchRead(t)
      BY <3>1 DEF Transaction!UpdateGet, Transaction!Read, Transaction!BatchRead
    <3> QED
      BY <1>7, <3>3, <3>4, <3>5, Zenon DEF Transaction!Progress
  <2>5. Transaction!View(t) = data
    BY <2>3 DEF Transaction!View, Transaction!Applied, Nothing
  <2> DEFINE F   == Transaction!Scanned(t)
             met == FirstNumbers({n \in data : n >= Key(t)}, Length(t))
  <2>6. /\ \A i : Transaction!ChunkOf(t, i) = FirstNumbers({k \in data : k >= Key(t) + i * Chunk},
                                                           Min({Chunk, Length(t) - i * Chunk}))
        /\ Transaction!Beyond(t, Transaction!Key(t), Transaction!Length(t)) = met
        /\ F = UNION {{i} \X Transaction!ChunkOf(t, i) : i \in 0 .. (Length(t) - 1) \div Chunk}
    <3>1. \A S : Transaction!Min(S) = Min(S)
      BY Zenon DEF Transaction!Min, Min
    <3>2. /\ Transaction!Key(t) = Key(t) /\ Transaction!Length(t) = Length(t)
          /\ \A S, n : Transaction!FirstNumbers(S, n) = FirstNumbers(S, n)
      BY TransactionCallers
    <3> QED
      BY <2>5, <3>1, <3>2, Zenon DEF Transaction!ChunkOf, Transaction!Beyond,
         Transaction!Scanned
  <2>7. /\ UNCHANGED <<data, pending>>
        /\ \/ mayFail /\ GoTo(t, "done")
           \/ Transaction!FoundSome(t, Cardinality(met), met)
           \/ Transaction!FoundSome(t, Cardinality(F), {entry[2] : entry \in F})
    <3>1. /\ \A S : Transaction!Cardinality(S) = Cardinality(S)
          /\ \A status : Transaction!Reject(t, status) => GoTo(t, "done")
      BY TransactionCallers DEF Reject, Finish, GoTo
    <3> QED
      BY <2>4, <2>6, <3>1, Zenon DEF Transaction!Iterate, Transaction!Reading
  <2>8. \A count, found : Transaction!FoundSome(t, count, found) =>
          /\ GoTo(t, "done")
          /\ count # 0 => Finish(t, "ok", count, found)
    BY TransactionCallers DEF Transaction!FoundSome, Reject, Finish, GoTo
  <2> HIDE DEF F, met
  <2>9. stage'[t] = "done"
    BY <1>1, <2>7, <2>8 DEF GoTo, CoreTypes
  <2>10. ASSUME Whole(t)
         PROVE  reply'[t].found = data /\ reply'[t].touched = Cardinality(data)
    <3>1. met = data
      BY <2>2, <2>10, WholeFound DEF met
    <3>2. {entry[2] : entry \in F} = data /\ Cardinality(F) = Cardinality(data)
      <4>1. F = UNION {{i} \X FirstNumbers({k \in data : k >= Key(t) + i * Chunk},
                                           Min({Chunk, Length(t) - i * Chunk}))
                         : i \in 0 .. (Length(t) - 1) \div Chunk}
        BY <2>6, Zenon
      <4> QED
        BY <2>2, <2>10, <4>1, WholeChunks
    <3>3. ~mayFail /\ Key(t) \in data
      BY <2>10, Zenon DEF Whole
    <3>4. Cardinality(data) # 0
      <4>1. IsFiniteSet(data)
        BY <1>1, KeysFinite DEF CoreTypes
      <4> QED
        BY <3>3, <4>1, FS_EmptySet
    <3>5. Transaction!FoundSome(t, Cardinality(data), data)
      BY <2>7, <3>1, <3>2, <3>3
    <3>6. Finish(t, "ok", Cardinality(data), data)
      BY <2>8, <3>4, <3>5
    <3> QED
      BY <1>1, <3>6, AllTold
  <2>11. ScanStep(t)
    BY <1>1, <2>1, <2>7, <2>9, <2>10, ScanAlone
  <2> QED
    BY <1>2, <2>2, <2>7, <2>11
<1>8. ASSUME NEW t \in Threads, Transaction!Progress(t), Transaction!Return(t)
      PROVE  UNCHANGED pending
  <2>1. stage[t] = "done"
    BY <1>8, TransactionCallers DEF Return
  <2> QED
    BY <1>8, <2>1, TransactionCallers DEF Transaction!Progress, Transaction!own, Transaction!Write,
       Transaction!Retry, Transaction!BatchUpsert, Transaction!UpdateGet, Transaction!Read,
       Transaction!BatchRead, Transaction!Iterate, Called, At
<1>9. ASSUME NEW t \in Threads,
             \/ Transaction!Progress(t) \/ Transaction!End(t)
             \/ Transaction!Invoke(t) /\ UNCHANGED <<engine, Transaction!own>>
      PROVE  (Nobody \/ ScanStep(t)) /\ \A u \in Threads : pending'[u] = Nothing
  BY <1>5, <1>6, <1>7, <1>8, <1>9 DEF Transaction!own
<1> QED
  BY <1>1, <1>3, <1>4, <1>9, Zenon DEF Transaction!Next

\* Scans go on as they should, whatever step is taken.
LEMMA ScansKept ==
  ASSUME AdaptersInv, AdaptersInv', ShippedMixes, ScanInv, ScanTouchesAll, Next
  PROVE  ScanInv' /\ ScanTouchesAll'
<1>1. UNCHANGED engine
  <2>1. \/ OnLevelDB(LevelDB!Next) \/ OnLMDB(LMDB!Next) \/ OnWiredTiger(WiredTiger!Next)
        \/ OnMongoDB(MongoDB!Next) \/ OnRedis(Redis!Next) \/ OnUStore(UStore!Next)
        \/ OnTransaction(Transaction!Next)
    BY DEF Next
  <2>2. CASE OnUStore(UStore!Next)
    BY <2>2, UStoreWorks DEF OnUStore, UStore!Next, UStore!Open, UStore!Flush, UStore!Close,
         AdaptersInv
  <2>3. CASE OnTransaction(Transaction!Next)
    BY <2>3, TransactionWorks DEF OnTransaction, Transaction!Next, Transaction!Open,
         Transaction!Flush, Transaction!Close, Transaction!End, AdaptersInv
  <2> QED
    BY <2>1, <2>2, <2>3 DEF OnLevelDB, OnLMDB, OnWiredTiger, OnMongoDB, OnRedis
<1>2. CASE "scan" \notin workload'.kinds \/ engine \in {"wiredtiger", "redis"}
  <2>1. ASSUME NEW t \in Threads, stage'[t] = "done", call'[t].kind = "scan"
        PROVE  "scan" \in workload'.kinds
    BY <2>1 DEF AdaptersInv, CallInv
  <2> QED
    BY <1>1, <1>2, <2>1 DEF ScanInv, ScanTouchesAll
<1>3. CASE "scan" \in workload'.kinds /\ engine \notin {"wiredtiger", "redis"}
  <2>1. /\ Nobody \/ \E t \in Threads : ScanStep(t)
        /\ \A t \in Threads : pending'[t] = Nothing
    <3>1. CASE engine \in Transactions
      <4>1. OnTransaction(Transaction!Next)
        BY <1>1, <3>1 DEF Next, OnLevelDB, OnLMDB, OnWiredTiger, OnMongoDB, OnRedis, OnUStore,
           UStores, Transactions
      <4> QED
        BY <1>3, <4>1, TransactionScans
    <3>2. CASE engine \notin Transactions
      <4>1. \A t \in Threads : pending'[t] = Nothing
        BY <1>1, <3>2 DEF AdaptersInv, TransactionInv
      <4>2. \/ OnLevelDB(LevelDB!Next) \/ OnLMDB(LMDB!Next)
            \/ OnMongoDB(MongoDB!Next) \/ OnUStore(UStore!Next)
        BY <1>3, <3>2 DEF Next, OnWiredTiger, OnRedis, OnTransaction
      <4>3. Nobody \/ \E t \in Threads : ScanStep(t)
        BY <1>3, <4>2, LevelDBScans, LMDBScans, MongoDBScans, UStoreScans
      <4> QED
        BY <4>1, <4>3
    <3> QED
      BY <3>1, <3>2
  <2>2. CASE Nobody
    BY <2>1, <2>2 DEF Nobody, ScanInv, ScanTouchesAll
  <2>3. ASSUME NEW t \in Threads, ScanStep(t) PROVE ScanInv' /\ ScanTouchesAll'
    <3>1. \A u \in Threads : pending[u] = Nothing /\ stage[u] \notin {"put", "write", "retry"}
      BY <1>3, <2>3 DEF ScanStep, ScanInv
    <3>2. ScanInv'
      BY <2>1, <2>3, <3>1 DEF ScanStep, ScanInv
    <3>3. ASSUME NEW u \in Threads, stage'[u] = "done", call'[u].kind = "scan", Whole(u)'
          PROVE  reply'[u].found = data' /\ reply'[u].touched = Cardinality(data')
      <4>1. /\ call'[u] = call[u] /\ UNCHANGED <<mayFail, data>>
        BY <2>3, <3>3, Zenon DEF ScanStep
      <4>2. Whole(u)
        BY <3>3, <4>1, Zenon DEF Whole, Key, Length
      <4>3. CASE u = t
        BY <2>3, <3>3, <4>1, <4>2, <4>3 DEF ScanStep
      <4>4. CASE u # t
        <5>1. stage[u] = "done" /\ call[u].kind = "scan" /\ reply'[u] = reply[u]
          BY <2>3, <3>3, <4>1, <4>4 DEF ScanStep
        <5>2. reply[u].found = data /\ reply[u].touched = Cardinality(data)
          BY <1>3, <4>2, <5>1, Zenon DEF ScanTouchesAll, Whole
        <5> QED
          BY <4>1, <5>1, <5>2
      <4> QED
        BY <4>3, <4>4
    <3>4. ScanTouchesAll'
      BY <3>3, Zenon DEF ScanTouchesAll, Whole
    <3> QED
      BY <3>2, <3>4
  <2> QED
    BY <2>1, <2>2, <2>3
<1> QED
  BY <1>2, <1>3

\* A scan of the whole database touches every entry, once, whichever database is
\* benchmarked, in whatever chunks it is scanned, and whoever scans at the same
\* time: those that skip some do so only where the keys are not scanned from the
\* first one on (ustore.hpp:466-503, mongodb.hpp:277-292).
THEOREM ScanTouchesAllAlways == ShippedMixes /\ Spec => []ScanTouchesAll
<1>1. ShippedMixes /\ Init => ScanInv /\ ScanTouchesAll
  <2>1. SUFFICES ASSUME Init PROVE ScanInv /\ ScanTouchesAll
    OBVIOUS
  <2>2. /\ stage = [t \in Threads |-> "idle"] /\ pending = [t \in Threads |-> Nothing]
    BY <2>1, Zenon DEF Init, Transaction!Init, Transaction!CallerInit, Transaction!Nothing, Nothing
  <2> QED
    BY <2>2 DEF ScanInv, ScanTouchesAll
<1>2. AdaptersInv /\ AdaptersInv' /\ ShippedMixes /\ ScanInv /\ ScanTouchesAll /\ [Next]_vars
        => ScanInv' /\ ScanTouchesAll'
  <2>1. ASSUME AdaptersInv, AdaptersInv', ShippedMixes, ScanInv, ScanTouchesAll, UNCHANGED vars
        PROVE  ScanInv' /\ ScanTouchesAll'
    <3>1. UNCHANGED <<mayFail, workload, stage, call, reply, data, engine, pending>>
      BY <2>1, Zenon DEF vars, OfTransaction
    <3> QED
      BY <2>1, <3>1, Zenon DEF ScanInv, ScanTouchesAll, Key, Length
  <2> QED
    BY <2>1, ScansKept
<1>3. ShippedMixes => []ShippedMixes
  <2>1. ShippedMixes => ShippedMixes'
    BY DEF ShippedMixes
  <2> QED
    BY <2>1, PTL
<1> QED
  BY <1>1, <1>2, <1>3, AdaptersInvariant, PTL DEF Spec

-----------------------------------------------------------------------------
(***************************************************************************)
(* The adapters implement DataAccessor, for workloads like the shipped     *)
(* ones.  Each engine needs an invariant of its own to know, at the moment *)
(* when a call takes effect, what it knew when it began (RefineInv).       *)
(***************************************************************************)

\* The key an update has found in LevelDB is there until it writes it.
PutInv ==
  engine = "leveldb" =>
    \A t \in Threads : stage[t] = "put" => call[t].kind = "update" /\ Key(t) \in data

\* Only loads go through WiredTiger's bulk cursor.
LoadInv ==
  engine = "wiredtiger" =>
    \A t \in Threads : stage[t] \in {"session", "cursor", "insert"} => call[t].kind = "bulk_load"

\* The keys MongoDB looks up are those of the batch, and of no batch before.
LookupInv ==
  engine = "mongodb" =>
    \A t \in Threads :
      batch_keys[t] = IF stage[t] = "begun" /\ call[t].kind = "batch_read" THEN KeysOf(t) ELSE {}

\* A database of UCSet that has data is not made anew, as the leader keeps its client.
KeptInv ==
  engine = "ustore_ucset" /\ handle # "open" /\ client[Leader] = 0 => data = {}

\* What a transaction has not committed: removals, or else writes, or nothing if
\* its workload does not write.  Only RocksDB tries a write again, in a transaction
\* that is spent, and its buffer is as long as all batches of reads.
PendingOf(t) ==
  /\ "remove" \in workload.kinds => pending[t].put = {}
  /\ "remove" \notin workload.kinds => pending[t].del = {}
  /\ workload.kinds \cap {"batch_read", "range_select", "scan"} # {} => pending[t] = Nothing
  /\ stage[t] = "write" => call[t].kind = "update"
  /\ stage[t] = "retry" => /\ engine = "rocksdb_transaction"
                          /\ call[t].kind \in {"upsert", "update", "remove"}
                          /\ t \in spent
  /\ t \in spent => engine = "rocksdb_transaction"
  /\ buffer[t] # << >> => /\ "batch_read" \in workload.kinds
                          /\ Len(buffer[t]) \in workload.lengths

PendingInv == engine \in Transactions /\ ~mayFail => \A t \in Threads : PendingOf(t)

RefineInv == PutInv /\ LoadInv /\ LookupInv /\ KeptInv /\ PendingInv

-----------------------------------------------------------------------------
\* What Accessor has in the places of its variables.
AccessorDb    == IF Promised THEN DataOfAll ELSE {}
AccessorLossy == IF Promised THEN spent ELSE {}
AccessorStage == [t \in Threads |-> IF Promised THEN Seen(stage[t]) ELSE "idle"]
AccessorCall  == [t \in Threads |-> IF Promised THEN call[t] ELSE NoCall]
AccessorReply == [t \in Threads |-> IF Promised THEN reply[t] ELSE NoAnswer]

Phase == [t \in Threads |-> Seen(stage[t])]

\* The operators of the library are the same in both modules.
LEMMA AccessorOperators ==
  /\ \A S : Accessor!Cardinality(S) = Cardinality(S)
  /\ \A f : Accessor!Range(f) = Range(f)
  /\ Accessor!NoCall = NoCall /\ Accessor!NoAnswer = NoAnswer
<1>1. ASSUME NEW S PROVE Accessor!Cardinality(S) = Cardinality(S)
  BY Zenon DEF Accessor!Cardinality, Cardinality
<1>2. ASSUME NEW f PROVE Accessor!Range(f) = Range(f)
  BY DEF Accessor!Range, Range
<1>3. Accessor!NoCall = NoCall
  BY Zenon DEF Accessor!NoCall, NoCall
<1>4. Accessor!NoAnswer = NoAnswer
  BY <1>1, FS_EmptySet DEF Accessor!NoAnswer, NoAnswer, Accessor!AnswerOf
<1> QED
  BY <1>1, <1>2, <1>3, <1>4, Zenon

\* What is promised is seen as it is.
LEMMA PromisedSeen ==
  CoreTypes /\ Promised =>
    /\ AccessorDb = DataOfAll /\ AccessorLossy = spent /\ AccessorStage = Phase
    /\ AccessorCall = call /\ AccessorReply = reply
<1> SUFFICES ASSUME CoreTypes, Promised
             PROVE  /\ AccessorDb = DataOfAll /\ AccessorLossy = spent /\ AccessorStage = Phase
                    /\ AccessorCall = call /\ AccessorReply = reply
  OBVIOUS
<1>1. call = [t \in Threads |-> call[t]] /\ reply = [t \in Threads |-> reply[t]]
  BY DEF CoreTypes
<1> HIDE DEF Promised
<1> QED
  BY <1>1 DEF AccessorDb, AccessorLossy, AccessorStage, AccessorCall, AccessorReply, Phase

\* What is not promised is not seen.
LEMMA NotPromised ==
  ASSUME ~Promised, ~Promised', UNCHANGED <<mayFail, engine>>
  PROVE  UNCHANGED Accessor!vars
<1>1. /\ AccessorDb' = AccessorDb /\ AccessorStage' = AccessorStage
      /\ AccessorCall' = AccessorCall /\ AccessorReply' = AccessorReply
      /\ AccessorLossy' = AccessorLossy
  BY DEF AccessorDb, AccessorLossy, AccessorStage, AccessorCall, AccessorReply
<1>2. Loose' = Loose /\ mayFail' = mayFail
  BY DEF Loose
<1> QED
  BY <1>1, <1>2, Zenon DEF Accessor!vars, AccessorDb, AccessorLossy, AccessorStage, AccessorCall,
                           AccessorReply

-----------------------------------------------------------------------------
(***************************************************************************)
(* The kinds of steps of an adapter, as Accessor sees them.                *)
(***************************************************************************)

\* A step in which the promise and the engine stay as they are, and one in which
\* the transactions that are spent do so, too.
Firm   == CoreTypes /\ CoreTypes' /\ Promised /\ Promised' /\ UNCHANGED <<mayFail, engine>>
Steady == Firm /\ UNCHANGED spent

Held == DataOfAll

\* In such a step Accessor sees what the threads have.
LEMMA FirmSeen ==
  ASSUME Firm
  PROVE  /\ AccessorLossy = spent /\ AccessorLossy' = spent'
         /\ AccessorDb = Held /\ AccessorStage = Phase
         /\ AccessorCall = call /\ AccessorReply = reply
         /\ AccessorDb' = Held' /\ AccessorStage' = Phase'
         /\ AccessorCall' = call' /\ AccessorReply' = reply'
         /\ mayFail' = mayFail /\ Loose' = Loose
<1>1. Loose' = Loose /\ mayFail' = mayFail
  BY DEF Loose, Firm
<1>2. CoreTypes /\ Promised /\ CoreTypes' /\ Promised'
  BY Zenon DEF Firm
<1>3. /\ AccessorLossy = spent /\ AccessorDb = Held /\ AccessorStage = Phase
      /\ AccessorCall = call /\ AccessorReply = reply
  BY <1>2, PromisedSeen, Zenon DEF Held
<1>4. /\ AccessorLossy' = spent' /\ AccessorDb' = Held' /\ AccessorStage' = Phase'
      /\ AccessorCall' = call' /\ AccessorReply' = reply'
  <2>1. CoreTypes' /\ Promised' =>
          (/\ AccessorDb = DataOfAll /\ AccessorLossy = spent /\ AccessorStage = Phase
           /\ AccessorCall = call /\ AccessorReply = reply)'
    BY PromisedSeen, PTL
  <2> QED
    BY <1>2, <2>1, Zenon DEF Held
<1> QED
  BY <1>1, <1>3, <1>4, Zenon

\* And in a steady one no thread becomes lossy.
LEMMA SteadySeen ==
  ASSUME Steady
  PROVE  /\ AccessorLossy' = AccessorLossy
         /\ AccessorDb = Held /\ AccessorStage = Phase
         /\ AccessorCall = call /\ AccessorReply = reply
         /\ AccessorDb' = Held' /\ AccessorStage' = Phase'
         /\ AccessorCall' = call' /\ AccessorReply' = reply'
         /\ mayFail' = mayFail /\ Loose' = Loose
<1>1. Firm /\ spent' = spent
  BY Zenon DEF Steady
<1> QED
  BY <1>1, FirmSeen, Zenon

Refines == Accessor!Next \/ UNCHANGED Accessor!vars

\* A step that changes nothing the callers see.
LEMMA Stutters ==
  ASSUME Steady, Held' = Held, Phase' = Phase, call' = call, reply' = reply
  PROVE  Refines
<1>1. /\ AccessorDb' = AccessorDb /\ AccessorStage' = AccessorStage
      /\ AccessorCall' = AccessorCall /\ AccessorReply' = AccessorReply
      /\ mayFail' = mayFail /\ Loose' = Loose /\ AccessorLossy' = AccessorLossy
  BY SteadySeen, Zenon
<1> QED
  BY <1>1, Zenon DEF Refines, Accessor!vars, AccessorDb, AccessorLossy, AccessorStage,
                     AccessorCall, AccessorReply

\* A thread calls.
LEMMA InvokeRefines ==
  ASSUME Steady, CallInv', NEW t \in Threads, Invoke(t), Held' = Held
  PROVE  Refines
<1>1. /\ stage \in [Threads -> Places] /\ call \in [Threads -> Calls]
      /\ stage[t] = "idle" /\ stage' = [stage EXCEPT ![t] = "called"] /\ reply' = reply
      /\ \A u \in Threads \ {t} : call'[u] = call[u]
  BY DEF Steady, Firm, CoreTypes, Invoke
<1>2. Phase[t] = "idle" /\ Phase' = [Phase EXCEPT ![t] = "called"]
  BY <1>1 DEF Phase, Seen, Between
<1>3. call'[t].kind \in CallKinds /\ Range(call'[t].keys) \subseteq Keys
  <2>1. CoreTypes /\ workload' = workload
    BY Zenon DEF Steady, Firm, Invoke, store
  <2>2. PICK kind \in workload.kinds : \E c \in CallsOf(kind, workload.lengths) :
          call' = [call EXCEPT ![t] = c]
    BY DEF Invoke
  <2>3. PICK c \in CallsOf(kind, workload.lengths) : call' = [call EXCEPT ![t] = c]
    BY <2>2
  <2>4. kind \in CallKinds /\ workload \in Workloads
    BY <2>1, CallerAssumption DEF CoreTypes
  <2>5. c.kind = kind /\ Range(c.keys) \subseteq Keys
    BY <2>4, CallMade
  <2> QED
    BY <1>1, <2>3, <2>4, <2>5
<1>4. /\ AccessorStage[t] = "idle" /\ AccessorStage' = [AccessorStage EXCEPT ![t] = "called"]
      /\ AccessorCall'[t].kind \in Accessor!CallKinds
      /\ Accessor!Range(AccessorCall'[t].keys) \subseteq Keys
      /\ \A u \in Threads \ {t} : AccessorCall'[u] = AccessorCall[u]
      /\ AccessorDb' = AccessorDb /\ AccessorReply' = AccessorReply
      /\ mayFail' = mayFail /\ Loose' = Loose /\ AccessorLossy' = AccessorLossy
  <2>1. Accessor!CallKinds = CallKinds
    BY DEF Accessor!CallKinds, CallKinds, Accessor!WriteKinds, Accessor!FindKinds,
           Accessor!RangeKinds
  <2>2. Accessor!Range(call'[t].keys) = Range(call'[t].keys)
    BY AccessorOperators
  <2> QED
    BY <1>1, <1>2, <1>3, <2>1, <2>2, SteadySeen, Zenon
<1>5. Accessor!Invoke(t)
  BY <1>4, Zenon DEF Accessor!Invoke, Accessor!context, AccessorLossy, AccessorDb,
                           AccessorStage, AccessorCall, AccessorReply
<1> QED
  BY <1>5, Zenon DEF Refines, Accessor!Next

\* A thread takes its result.
LEMMA ReturnRefines ==
  ASSUME Steady, NEW t \in Threads, Return(t), Held' = Held
  PROVE  Refines
<1>1. /\ stage \in [Threads -> Places] /\ stage[t] = "done"
      /\ stage' = [stage EXCEPT ![t] = "idle"]
      /\ call' = [call EXCEPT ![t] = NoCall] /\ reply' = [reply EXCEPT ![t] = NoAnswer]
  BY DEF Steady, Firm, CoreTypes, Return
<1>2. Phase[t] = "done" /\ Phase' = [Phase EXCEPT ![t] = "idle"]
  BY <1>1 DEF Phase, Seen, Between
<1>3. /\ AccessorStage[t] = "done" /\ AccessorStage' = [AccessorStage EXCEPT ![t] = "idle"]
      /\ AccessorCall' = [AccessorCall EXCEPT ![t] = Accessor!NoCall]
      /\ AccessorReply' = [AccessorReply EXCEPT ![t] = Accessor!NoAnswer]
      /\ AccessorDb' = AccessorDb
      /\ mayFail' = mayFail /\ Loose' = Loose /\ AccessorLossy' = AccessorLossy
  BY <1>1, <1>2, SteadySeen, AccessorOperators, Zenon
<1>4. Accessor!Return(t)
  BY <1>3, Zenon DEF Accessor!Return, Accessor!context, AccessorLossy, AccessorDb,
                           AccessorStage, AccessorCall, AccessorReply
<1> QED
  BY <1>4, Zenon DEF Refines, Accessor!Next

\* A step of the driver: only the transactions that have ended are seen to, and
\* for the callers they have ended before.
LEMMA DriverRefines ==
  ASSUME Steady, CallInv, OpenDb \/ FlushDb \/ Closes, Held' = Held
  PROVE  Refines
<1>1. ASSUME Closes PROVE Phase' = Phase
  <2>1. \A t \in Threads : stage[t] \in {"idle", "ended"}
    BY <1>1 DEF Closes, CloseDb, CallInv
  <2>2. \A t \in Threads : stage'[t] \in {"idle", "ended"}
    BY <1>1, <2>1 DEF Closes
  <2> QED
    BY <2>1, <2>2 DEF Phase, Seen, Between
<1>2. ASSUME stage' = stage PROVE Phase' = Phase
  BY <1>2 DEF Phase
<1>3. call' = call /\ reply' = reply /\ Phase' = Phase
  BY <1>1, <1>2, Zenon DEF OpenDb, FlushDb, Closes, CloseDb
<1> QED
  BY <1>3, Stutters, Zenon

InCall(t) == stage[t] \notin {"idle", "done", "ended"}

\* A thread in a call goes on.
LEMMA GoesOn ==
  ASSUME Steady, NEW t \in Threads, InCall(t), NEW place \in Between, GoTo(t, place),
         call' = call, reply' = reply, Held' = Held
  PROVE  Refines
<1>1. stage \in [Threads -> Places] /\ stage' = [stage EXCEPT ![t] = place]
  BY DEF Steady, Firm, CoreTypes, GoTo
<1>2. \A u \in Threads : Seen(stage'[u]) = Seen(stage[u])
  <2>1. Seen(stage[t]) = "called" /\ Seen(stage'[t]) = "called"
    BY <1>1 DEF Seen, InCall, Places
  <2> QED
    BY <1>1, <2>1 DEF Places
<1>3. Phase' = Phase
  BY <1>2 DEF Phase
<1> QED
  BY <1>3, Stutters

\* The answer of a call.
AnswerIs(status, n, found) == [status |-> status, touched |-> n, found |-> found]

\* A thread that finishes its call has ended it for Accessor.
LEMMA FinishTold ==
  ASSUME Steady, NEW t \in Threads, InCall(t), call' = call,
         NEW status, NEW n, NEW found, Finish(t, status, n, found)
  PROVE  Accessor!Told(t) /\ AccessorReply'[t] = AnswerIs(status, n, found)
<1>1. /\ stage \in [Threads -> Places] /\ stage' = [stage EXCEPT ![t] = "done"]
      /\ reply \in [Threads -> Answer]
      /\ reply' = [reply EXCEPT ![t] = AnswerIs(status, n, found)]
  BY DEF Steady, Firm, CoreTypes, Finish, AnswerIs
<1>2. Phase[t] = "called" /\ Phase' = [Phase EXCEPT ![t] = "done"]
  BY <1>1 DEF Phase, Seen, InCall, Places, Between
<1>3. reply'[t] = AnswerIs(status, n, found) /\ \A u \in Threads \ {t} : reply'[u] = reply[u]
  BY <1>1
<1>4. /\ AccessorStage[t] = "called" /\ AccessorStage' = [AccessorStage EXCEPT ![t] = "done"]
      /\ AccessorReply'[t] = AnswerIs(status, n, found)
      /\ \A u \in Threads \ {t} : AccessorReply'[u] = AccessorReply[u]
      /\ AccessorCall' = AccessorCall
      /\ mayFail' = mayFail /\ Loose' = Loose /\ AccessorLossy' = AccessorLossy
  BY <1>2, <1>3, SteadySeen, Zenon
<1>5. Accessor!Told(t)
  BY <1>4, Zenon DEF Accessor!Told, Accessor!context, AccessorLossy, AccessorStage,
                     AccessorCall, AccessorReply
<1> QED
  BY <1>4, <1>5, Zenon

\* The call takes effect.
LEMMA Performs ==
  ASSUME Steady, NEW t \in Threads, InCall(t), call' = call,
         NEW status, NEW n, NEW found, Finish(t, status, n, found),
         AnswerIs(status, n, found) \in Accessor!Answers(call[t], Held),
         Held' = Accessor!After(call[t], Held)
  PROVE  Refines
<1>1. Accessor!Told(t) /\ AccessorReply'[t] = AnswerIs(status, n, found)
  BY FinishTold
<1>2. /\ AccessorReply'[t] \in Accessor!Answers(AccessorCall[t], AccessorDb)
      /\ AccessorDb' = Accessor!After(AccessorCall[t], AccessorDb)
  BY <1>1, SteadySeen, Zenon
<1>3. Accessor!Perform(t)
  BY <1>1, <1>2, Zenon DEF Accessor!Perform, AccessorDb, AccessorCall, AccessorReply
<1> QED
  BY <1>3, Zenon DEF Refines, Accessor!Next

\* The call fails with the engine.
LEMMA Fails ==
  ASSUME Steady, NEW t \in Threads, InCall(t), call' = call, mayFail,
         NEW status, NEW n, NEW found, Finish(t, status, n, found),
         AnswerIs(status, n, found) \in Accessor!FailedAnswers(call[t], Held),
         Held' = Held
  PROVE  Refines
<1>1. Accessor!Told(t) /\ AccessorReply'[t] = AnswerIs(status, n, found)
  BY FinishTold
<1>2. /\ AccessorReply'[t] \in Accessor!FailedAnswers(AccessorCall[t], AccessorDb)
      /\ AccessorDb' = AccessorDb
  BY <1>1, SteadySeen, Zenon
<1>3. Accessor!Fail(t)
  BY <1>1, <1>2, Zenon DEF Accessor!Fail, AccessorDb, AccessorCall, AccessorReply
<1> QED
  BY <1>3, Zenon DEF Refines, Accessor!Next

\* The call does what it is to do, and does not report it as it is to.
LEMMA PerformsLoosely ==
  ASSUME Steady, NEW t \in Threads, InCall(t), call' = call, call[t].kind \in Loose,
         NEW status, NEW n \in 0 .. call[t].length + 1, NEW found \in SUBSET Held',
         Finish(t, status, n, found),
         \/ Held' = Accessor!After(call[t], Held)
         \/ call[t].kind = "update" /\ Held' = Held \cup KeysOf(t)
         \/ /\ call[t].kind \in Accessor!WriteKinds
            /\ mayFail \/ (call[t].kind = "bulk_load" /\ Held # {})
            /\ \E part \in SUBSET KeysOf(t) : Held' = Held \cup part
  PROVE  Refines
<1>1. Accessor!Told(t) /\ AccessorReply'[t] = AnswerIs(status, n, found)
  BY FinishTold
<1>2. /\ AnswerIs(status, n, found).touched \in 0 .. call[t].length + 1
      /\ AnswerIs(status, n, found).found \subseteq Held'
  BY DEF AnswerIs
<1>3. Accessor!Range(call[t].keys) = KeysOf(t)
  BY AccessorOperators DEF KeysOf
<1> DEFINE c == AccessorCall[t]
<1>4. /\ c.kind \in Loose
      /\ AccessorReply'[t].touched \in 0 .. c.length + 1
      /\ AccessorReply'[t].found \subseteq AccessorDb'
  BY <1>1, <1>2, SteadySeen, Zenon
<1>5. \/ AccessorDb' = Accessor!After(c, AccessorDb)
      \/ c.kind = "update" /\ AccessorDb' = AccessorDb \cup Accessor!Range(c.keys)
      \/ /\ c.kind \in Accessor!WriteKinds
         /\ mayFail \/ (c.kind = "bulk_load" /\ AccessorDb # {})
         /\ \E part \in SUBSET Accessor!Range(c.keys) : AccessorDb' = AccessorDb \cup part
  BY <1>3, SteadySeen, Zenon
<1>6. Accessor!PerformLoosely(t)
  BY <1>1, <1>4, <1>5, Zenon DEF Accessor!PerformLoosely, AccessorDb, AccessorCall, AccessorReply
<1> QED
  BY <1>6, Zenon DEF Refines, Accessor!Next

\* A thread that goes on becomes lossy.
LEMMA TurnsLossy ==
  ASSUME Firm, NEW t \in Threads, InCall(t), NEW place \in Between, GoTo(t, place),
         call[t].kind \in Loose, call[t].kind \in {"upsert", "update", "remove"},
         call' = call, reply' = reply, Held' = Held, spent' = spent \cup {t}
  PROVE  Refines
<1>1. stage \in [Threads -> Places] /\ stage' = [stage EXCEPT ![t] = place]
  BY DEF Firm, CoreTypes, GoTo
<1>2. Seen(stage[t]) = "called" /\ \A u \in Threads : Seen(stage'[u]) = Seen(stage[u])
  <2>1. Seen(stage[t]) = "called" /\ Seen(stage'[t]) = "called"
    BY <1>1 DEF Seen, InCall, Places
  <2> QED
    BY <1>1, <2>1 DEF Places
<1>3. Phase' = Phase /\ Phase[t] = "called"
  BY <1>2 DEF Phase
<1>4. call[t].kind \in Loose \cap (Accessor!WriteKinds \cup {"update", "remove"})
  BY DEF Accessor!WriteKinds
<1>5. /\ AccessorStage[t] = "called"
      /\ AccessorCall[t].kind \in Loose \cap (Accessor!WriteKinds \cup {"update", "remove"})
      /\ AccessorLossy' = AccessorLossy \cup {t}
      /\ AccessorDb' = AccessorDb /\ AccessorStage' = AccessorStage
      /\ AccessorCall' = AccessorCall /\ AccessorReply' = AccessorReply
      /\ mayFail' = mayFail /\ Loose' = Loose
  BY <1>3, <1>4, FirmSeen, Zenon
<1>6. Accessor!BecomeLossy(t)
  BY <1>5, Zenon DEF Accessor!BecomeLossy, AccessorDb, AccessorLossy, AccessorStage,
                     AccessorCall, AccessorReply
<1> QED
  BY <1>6, Zenon DEF Refines, Accessor!Next

\* A call of a lossy thread, or a batch that makes it so.
Lossily(t, d, d2) ==
  \/ t \in spent /\ d2 = d
  \/ /\ call[t].kind \in Loose /\ call[t].kind \in {"upsert", "batch_upsert", "bulk_load"}
     /\ \E part \in SUBSET KeysOf(t) : d2 = d \cup part

\* Whatever it is told, the call has done what that of a lossy thread may do.
LEMMA PerformsLossily ==
  ASSUME Firm, NEW t \in Threads, InCall(t), call' = call, spent' = spent \cup {t},
         Told(t), Lossily(t, Held, Held')
  PROVE  Refines
<1>1. PICK a \in Answer : reply' = [reply EXCEPT ![t] = a] /\ GoTo(t, "done")
  BY DEF Told
<1>2. /\ stage \in [Threads -> Places] /\ stage' = [stage EXCEPT ![t] = "done"]
      /\ \A u \in Threads \ {t} : reply'[u] = reply[u]
  BY <1>1 DEF Firm, CoreTypes, GoTo
<1>3. Phase[t] = "called" /\ Phase' = [Phase EXCEPT ![t] = "done"]
  BY <1>2 DEF Phase, Seen, InCall, Places, Between
<1>4. \/ t \in spent /\ Held' = Held
      \/ /\ call[t].kind \in Loose \cap Accessor!WriteKinds
         /\ \E part \in SUBSET Accessor!Range(call[t].keys) : Held' = Held \cup part
  <2>1. Accessor!Range(call[t].keys) = KeysOf(t)
    BY AccessorOperators DEF KeysOf
  <2> QED
    BY <2>1 DEF Lossily, Accessor!WriteKinds
<1>5. /\ AccessorStage[t] = "called" /\ AccessorStage' = [AccessorStage EXCEPT ![t] = "done"]
      /\ \A u \in Threads \ {t} : AccessorReply'[u] = AccessorReply[u]
      /\ AccessorLossy' = AccessorLossy \cup {t}
      /\ \/ t \in AccessorLossy /\ AccessorDb' = AccessorDb
         \/ /\ AccessorCall[t].kind \in Loose \cap Accessor!WriteKinds
            /\ \E part \in SUBSET Accessor!Range(AccessorCall[t].keys) :
                 AccessorDb' = AccessorDb \cup part
      /\ AccessorCall' = AccessorCall /\ mayFail' = mayFail /\ Loose' = Loose
  BY <1>2, <1>3, <1>4, FirmSeen, Zenon
<1>6. Accessor!PerformLossily(t)
  BY <1>5, Zenon DEF Accessor!PerformLossily, AccessorDb, AccessorLossy, AccessorStage,
                     AccessorCall, AccessorReply
<1> QED
  BY <1>6, Zenon DEF Refines, Accessor!Next

\* A thread that is not in a call is no longer lossy.
LEMMA EndsLossy ==
  ASSUME Firm, NEW t \in Threads, Phase[t] = "idle", spent' = spent \ {t},
         Held' = Held, Phase' = Phase, call' = call, reply' = reply
  PROVE  Refines
<1>1. /\ AccessorStage[t] = "idle" /\ AccessorLossy' = AccessorLossy \ {t}
      /\ AccessorDb' = AccessorDb /\ AccessorStage' = AccessorStage
      /\ AccessorCall' = AccessorCall /\ AccessorReply' = AccessorReply
      /\ mayFail' = mayFail /\ Loose' = Loose
  BY FirmSeen, Zenon
<1>2. Accessor!EndLossy(t)
  BY <1>1, Zenon DEF Accessor!EndLossy, AccessorDb, AccessorLossy, AccessorStage,
                     AccessorCall, AccessorReply
<1> QED
  BY <1>2, Zenon DEF Refines, Accessor!Next

\* The program ends in the middle of calls.
LEMMA CrashRefines ==
  ASSUME Steady, NEW d, EndProgram(d), mayFail \/ "bulk_load" \in Loose,
         NEW t \in Threads, InCall(t), NEW part \in SUBSET KeysOf(t),
         part = {} \/ call[t].kind \in {"upsert", "batch_upsert", "bulk_load"},
         Held' = Held \cup part
  PROVE  Refines
<1> DEFINE writers == {u \in Threads : /\ AccessorStage[u] = "called"
                                       /\ AccessorCall[u].kind \in Accessor!WriteKinds}
<1>1. stage \in [Threads -> Places]
  BY DEF Steady, Firm, CoreTypes
<1>2. Phase[t] = "called"
  BY <1>1 DEF Phase, Seen, InCall, Places
<1>3. part = {} \/ t \in writers
  BY <1>2, SteadySeen, Zenon DEF Accessor!WriteKinds
<1>4. part \in SUBSET UNION {Accessor!Range(AccessorCall[u].keys) : u \in writers}
  <2>1. KeysOf(t) = Accessor!Range(AccessorCall[t].keys)
    BY SteadySeen, AccessorOperators, Zenon DEF KeysOf
  <2> HIDE DEF writers
  <2> QED
    BY <1>3, <2>1
<1>5. /\ AccessorDb' = AccessorDb \cup part
      /\ AccessorStage' = [u \in Threads |-> "idle"]
      /\ AccessorCall'  = [u \in Threads |-> Accessor!NoCall]
      /\ AccessorReply' = [u \in Threads |-> Accessor!NoAnswer]
      /\ mayFail' = mayFail /\ Loose' = Loose /\ AccessorLossy' = AccessorLossy
  <2>1. Phase' = [u \in Threads |-> "idle"]
    <3>1. stage' = [u \in Threads |-> "idle"]
      BY DEF EndProgram, NoThreadCalls
    <3> QED
      BY <3>1 DEF Phase, Seen, Between
  <2>2. call' = [u \in Threads |-> NoCall] /\ reply' = [u \in Threads |-> NoAnswer]
    BY DEF EndProgram, NoThreadCalls
  <2> QED
    BY <2>1, <2>2, SteadySeen, AccessorOperators, Zenon
<1>6. Accessor!Crash
  BY <1>4, <1>5, Zenon DEF Accessor!Crash, Accessor!context, AccessorLossy, AccessorDb,
                           AccessorStage, AccessorCall, AccessorReply
<1> QED
  BY <1>6, Zenon DEF Refines, Accessor!Next

-----------------------------------------------------------------------------
(***************************************************************************)
(* The outcomes of a call, on the keys d before and d2 after it.           *)
(***************************************************************************)
Writes  == {"upsert", "batch_upsert", "bulk_load"}
Lookups == {"read", "update", "batch_read"}

\* The entries of a range, and a call that finds nothing.
Met(t, d) == FirstNumbers({k \in d : k >= Key(t)}, Length(t))
Misses(t) == Reject(t, "not_found") \/ Reject(t, "error")

\* The call does what it is to do.
Effect(t, d, d2) ==
  \/ call[t].kind \in Writes /\ d2 = d \cup KeysOf(t)
  \/ call[t].kind = "remove" /\ d2 = d \ KeysOf(t)
  \/ call[t].kind \in Lookups \cup Ranges /\ d2 = d

\* It reports what it is to report.
Exact(t, d, d2) ==
  /\ Effect(t, d, d2)
  /\ \/ call[t].kind \in Writes \cup {"remove"} /\ Touch(t, KeysOf(t))
     \/ call[t].kind \in Lookups /\ KeysOf(t) \cap d # {} /\ Touch(t, KeysOf(t) \cap d)
     \/ call[t].kind = "batch_read" /\ Touch(t, KeysOf(t) \cap d)
     \/ call[t].kind \in Ranges /\ Touch(t, Met(t, d))
     \/ call[t].kind \in Lookups \cup {"remove"} /\ KeysOf(t) \cap d = {}
          /\ Reject(t, "not_found")
     \/ call[t].kind = "batch_read" /\ ~(KeysOf(t) \subseteq d) /\ Misses(t)
     \/ call[t].kind \in Ranges /\ Met(t, d) = {} /\ Misses(t)

\* The engine fails.
Failed(t, d, d2) ==
  /\ mayFail /\ d2 = d
  /\ \/ Misses(t) \/ Finish(t, "error", Size(t), {})
     \/ call[t].kind = "batch_read" /\ \E s \in SUBSET (KeysOf(t) \cap d) : Touch(t, s)

\* The report is not promised, and what is done neither, in a few kinds of calls.
Loosely(t, d, d2) ==
  /\ call[t].kind \in Loose
  /\ \E status \in Statuses, n \in 0 .. Length(t) + 1, found \in SUBSET d2 :
       Finish(t, status, n, found)
  /\ \/ Effect(t, d, d2)
     \/ call[t].kind = "update" /\ d2 = d \cup KeysOf(t)
     \/ /\ call[t].kind \in Writes
        /\ mayFail \/ (call[t].kind = "bulk_load" /\ d # {})
        /\ \E part \in SUBSET KeysOf(t) : d2 = d \cup part

Outcome(t, d, d2) == Exact(t, d, d2) \/ Failed(t, d, d2) \/ Loosely(t, d, d2)

\* What a call touches and leaves, according to Accessor.
LEMMA EffectOf ==
  ASSUME NEW t, NEW d
  PROVE  /\ call[t].kind \in Writes =>
              /\ Accessor!Touched(call[t], d) = KeysOf(t)
              /\ Accessor!After(call[t], d) = d \cup KeysOf(t)
         /\ call[t].kind = "remove" =>
              /\ Accessor!Touched(call[t], d) = KeysOf(t)
              /\ Accessor!After(call[t], d) = d \ KeysOf(t)
         /\ call[t].kind \in Lookups =>
              /\ Accessor!Touched(call[t], d) = KeysOf(t) \cap d
              /\ Accessor!After(call[t], d) = d
         /\ call[t].kind \in Ranges =>
              /\ Accessor!Touched(call[t], d) = Met(t, d)
              /\ Accessor!After(call[t], d) = d
<1> DEFINE c == call[t]
<1>a. Accessor!Range(c.keys) = KeysOf(t)
  BY AccessorOperators DEF KeysOf
<1>1. ASSUME c.kind \in Writes
      PROVE  Accessor!Touched(c, d) = KeysOf(t) /\ Accessor!After(c, d) = d \cup KeysOf(t)
  BY <1>a, <1>1 DEF Accessor!Touched, Accessor!After, Accessor!WriteKinds,
     Accessor!FindKinds, Accessor!RangeKinds, Writes
<1>2. ASSUME c.kind = "remove"
      PROVE  Accessor!Touched(c, d) = KeysOf(t) /\ Accessor!After(c, d) = d \ KeysOf(t)
  BY <1>a, <1>2 DEF Accessor!Touched, Accessor!After, Accessor!WriteKinds,
     Accessor!FindKinds, Accessor!RangeKinds
<1>3. ASSUME c.kind \in Lookups
      PROVE  Accessor!Touched(c, d) = KeysOf(t) \cap d /\ Accessor!After(c, d) = d
  BY <1>a, <1>3 DEF Accessor!Touched, Accessor!After, Accessor!WriteKinds,
     Accessor!FindKinds, Accessor!RangeKinds, Lookups
<1>4. ASSUME c.kind \in Ranges
      PROVE  Accessor!Touched(c, d) = Met(t, d) /\ Accessor!After(c, d) = d
  <2>1. Accessor!After(c, d) = d
    BY <1>4 DEF Accessor!After, Accessor!WriteKinds, Ranges
  <2> DEFINE beyond == {k \in d : k >= c.keys[1]}
  <2>2. Accessor!Touched(c, d)
          = {k \in beyond : Accessor!Cardinality({j \in beyond : j < k}) < c.length}
    BY <1>4 DEF Accessor!Touched, Accessor!WriteKinds, Accessor!FindKinds, Accessor!RangeKinds,
       Ranges
  <2>3. Accessor!Touched(c, d)
          = {k \in beyond : Cardinality({j \in beyond : j < k}) < c.length}
    BY <2>2, AccessorOperators
  <2> QED
    BY <1>4, <2>1, <2>3 DEF Met, FirstNumbers, Key, Length
<1> QED
  BY <1>1, <1>2, <1>3, <1>4

\* An effect is that of Accessor.
LEMMA EffectRefines ==
  ASSUME NEW t, NEW d, NEW d2, Effect(t, d, d2)
  PROVE  d2 = Accessor!After(call[t], d)
BY EffectOf, Zenon DEF Effect

\* A call may be told of what it touches, unless a lookup of one key finds none.
LEMMA OkAnswer ==
  ASSUME NEW t, NEW d, NEW met, met = Accessor!Touched(call[t], d),
         call[t].kind \notin {"read", "update"} \/ met # {}
  PROVE  AnswerIs("ok", Cardinality(met), met) \in Accessor!Answers(call[t], d)
<1> DEFINE c == call[t]
           a == Accessor!AnswerOf("ok", met)
<1>1. a = AnswerIs("ok", Cardinality(met), met)
  BY AccessorOperators DEF Accessor!AnswerOf, AnswerIs
<1>2. ~(c.kind \in {"read", "update"} /\ met = {})
  OBVIOUS
<1> HIDE DEF a
<1>3. Accessor!Answers(c, d) =
        CASE c.kind \in {"read", "update"} /\ met = {} -> {Accessor!AnswerOf("not_found", {})}
          [] c.kind = "remove" /\ met \cap d = {} -> {a, Accessor!AnswerOf("not_found", {})}
          [] c.kind = "batch_read" /\ met # Accessor!Range(c.keys) -> {a} \cup Accessor!Missed
          [] c.kind \in Accessor!RangeKinds /\ met = {} -> {a} \cup Accessor!Missed
          [] OTHER -> {a}
  BY DEF Accessor!Answers, a
<1>4. c.kind \in Accessor!RangeKinds => c.kind \notin {"remove", "batch_read"}
  BY DEF Accessor!RangeKinds
<1>5. a \in Accessor!Answers(c, d)
  <2>1. CASE c.kind = "remove" /\ met \cap d = {}
    BY <1>2, <1>3, <1>4, <2>1
  <2>2. CASE c.kind = "batch_read" /\ met # Accessor!Range(c.keys)
    BY <1>2, <1>3, <1>4, <2>2
  <2>3. CASE c.kind \in Accessor!RangeKinds /\ met = {}
    BY <1>2, <1>3, <1>4, <2>3
  <2>4. CASE ~(\/ c.kind = "remove" /\ met \cap d = {}
               \/ c.kind = "batch_read" /\ met # Accessor!Range(c.keys)
               \/ c.kind \in Accessor!RangeKinds /\ met = {})
    BY <1>2, <1>3, <2>4
  <2> QED
    BY <2>1, <2>2, <2>3, <2>4
<1> QED
  BY <1>1, <1>5

\* A call that does not find what it looks for may be told so; a batch or a range
\* with an error.
LEMMA MissAnswer ==
  ASSUME NEW t, NEW d, NEW status \in {"not_found", "error"},
         \/ /\ call[t].kind \in {"read", "update", "remove"} /\ status = "not_found"
            /\ KeysOf(t) \cap d = {}
         \/ call[t].kind = "batch_read" /\ ~(KeysOf(t) \subseteq d)
         \/ call[t].kind \in Ranges /\ Met(t, d) = {}
  PROVE  AnswerIs(status, 0, {}) \in Accessor!Answers(call[t], d)
<1> DEFINE c == call[t]
           met == Accessor!Touched(c, d)
           a == Accessor!AnswerOf("ok", met)
<1>1. Accessor!AnswerOf(status, {}) = AnswerIs(status, 0, {})
  BY AccessorOperators, FS_EmptySet DEF Accessor!AnswerOf, AnswerIs
<1>2. Accessor!AnswerOf(status, {}) \in Accessor!Missed
  BY DEF Accessor!Missed
<1>3. Accessor!Answers(c, d) =
        CASE c.kind \in {"read", "update"} /\ met = {} -> {Accessor!AnswerOf("not_found", {})}
          [] c.kind = "remove" /\ met \cap d = {} -> {a, Accessor!AnswerOf("not_found", {})}
          [] c.kind = "batch_read" /\ met # Accessor!Range(c.keys) -> {a} \cup Accessor!Missed
          [] c.kind \in Accessor!RangeKinds /\ met = {} -> {a} \cup Accessor!Missed
          [] OTHER -> {a}
  BY DEF Accessor!Answers
<1>4. /\ c.kind \in Lookups => met = KeysOf(t) \cap d
      /\ c.kind = "remove" => met = KeysOf(t)
      /\ c.kind \in Ranges => met = Met(t, d)
      /\ Accessor!Range(c.keys) = KeysOf(t)
  BY EffectOf, AccessorOperators DEF KeysOf
<1>5. Accessor!AnswerOf(status, {}) \in Accessor!Answers(c, d)
  <2>1. CASE c.kind \in {"read", "update"} /\ status = "not_found" /\ KeysOf(t) \cap d = {}
    <3>1. met = {}
      BY <1>4, <2>1 DEF Lookups
    <3> HIDE DEF met, a
    <3> QED
      BY <1>3, <2>1, <3>1 DEF Accessor!RangeKinds
  <2>2. CASE c.kind = "remove" /\ status = "not_found" /\ KeysOf(t) \cap d = {}
    <3>1. met \cap d = {}
      BY <1>4, <2>2
    <3> HIDE DEF met, a
    <3> QED
      BY <1>3, <2>2, <3>1 DEF Accessor!RangeKinds
  <2>3. CASE c.kind = "batch_read" /\ ~(KeysOf(t) \subseteq d)
    <3>1. met # Accessor!Range(c.keys)
      BY <1>4, <2>3 DEF Lookups
    <3> HIDE DEF met, a
    <3> QED
      BY <1>2, <1>3, <2>3, <3>1
  <2>4. CASE c.kind \in Ranges /\ Met(t, d) = {}
    <3>1. met = {} /\ c.kind \in Accessor!RangeKinds
      BY <1>4, <2>4 DEF Accessor!RangeKinds, Ranges
    <3>2. c.kind \notin {"read", "update", "remove", "batch_read"}
      BY <2>4 DEF Ranges
    <3> HIDE DEF met, a
    <3> QED
      BY <1>2, <1>3, <3>1, <3>2
  <2> QED
    BY <2>1, <2>2, <2>3, <2>4
<1> QED
  BY <1>1, <1>5

\* What a call may be told when the engine fails.
LEMMA FailedAnswer ==
  ASSUME NEW t, NEW d, Size(t) \in Nat
  PROVE  /\ \A status \in {"not_found", "error"} :
              AnswerIs(status, 0, {}) \in Accessor!FailedAnswers(call[t], d)
         /\ AnswerIs("error", Size(t), {}) \in Accessor!FailedAnswers(call[t], d)
         /\ call[t].kind = "batch_read" =>
              \A s \in SUBSET (KeysOf(t) \cap d) :
                AnswerIs("ok", Cardinality(s), s) \in Accessor!FailedAnswers(call[t], d)
<1>1. ASSUME NEW status \in {"not_found", "error"}
      PROVE  AnswerIs(status, 0, {}) \in Accessor!FailedAnswers(call[t], d)
  <2>1. Accessor!AnswerOf(status, {}) = AnswerIs(status, 0, {})
    BY AccessorOperators, FS_EmptySet DEF Accessor!AnswerOf, AnswerIs
  <2>2. Accessor!AnswerOf(status, {}) \in Accessor!Missed
    BY DEF Accessor!Missed
  <2> QED
    BY <2>1, <2>2 DEF Accessor!FailedAnswers
<1>2. AnswerIs("error", Size(t), {}) \in Accessor!FailedAnswers(call[t], d)
  <2>1. AnswerIs("error", Size(t), {})
          \in [status : {"error"}, touched : 0..Len(call[t].keys), found : {{}}]
    BY DEF AnswerIs, Size
  <2> QED
    BY <2>1 DEF Accessor!FailedAnswers
<1>3. ASSUME call[t].kind = "batch_read", NEW s \in SUBSET (KeysOf(t) \cap d)
      PROVE  AnswerIs("ok", Cardinality(s), s) \in Accessor!FailedAnswers(call[t], d)
  <2>1. Accessor!AnswerOf("ok", s) = AnswerIs("ok", Cardinality(s), s)
    BY AccessorOperators DEF Accessor!AnswerOf, AnswerIs
  <2>2. s \in SUBSET Accessor!Touched(call[t], d)
    BY <1>3, EffectOf DEF Lookups
  <2>3. Accessor!AnswerOf("ok", s) \in Accessor!FailedAnswers(call[t], d)
    BY <1>3, <2>2 DEF Accessor!FailedAnswers
  <2> QED
    BY <2>1, <2>3
<1> QED
  BY <1>1, <1>2, <1>3

\* A call with one of the outcomes is one of Accessor.
LEMMA OutcomeRefines ==
  ASSUME Steady, CallInv, NEW t \in Threads, InCall(t), call' = call, Outcome(t, Held, Held')
  PROVE  Refines
<1>1. Size(t) \in Nat
  BY CallOf DEF Steady, Firm, InCall
<1>2. /\ \A found : Touch(t, found) => Finish(t, "ok", Cardinality(found), found)
      /\ \A status : Reject(t, status) => Finish(t, status, 0, {})
  BY Zenon DEF Touch, Reject
<1>3. CASE Exact(t, Held, Held')
  <2>1. Held' = Accessor!After(call[t], Held)
    BY <1>3, EffectRefines, Zenon DEF Exact
  <2>2. ASSUME NEW met, met = Accessor!Touched(call[t], Held), Touch(t, met),
               call[t].kind \notin {"read", "update"} \/ met # {}
        PROVE  Refines
    BY <1>2, <2>1, <2>2, OkAnswer, Performs
  <2>3. ASSUME NEW status \in {"not_found", "error"}, Reject(t, status),
               \/ /\ call[t].kind \in {"read", "update", "remove"} /\ status = "not_found"
                  /\ KeysOf(t) \cap Held = {}
               \/ call[t].kind = "batch_read" /\ ~(KeysOf(t) \subseteq Held)
               \/ call[t].kind \in Ranges /\ Met(t, Held) = {}
        PROVE  Refines
    BY <1>2, <2>1, <2>3, MissAnswer, Performs
  <2>4. CASE call[t].kind \in Writes \cup {"remove"} /\ Touch(t, KeysOf(t))
    <3>1. KeysOf(t) = Accessor!Touched(call[t], Held) /\ call[t].kind \notin {"read", "update"}
      BY <2>4, EffectOf DEF Writes
    <3> QED
      BY <2>2, <2>4, <3>1
  <2>5. CASE call[t].kind \in Lookups /\ KeysOf(t) \cap Held # {} /\ Touch(t, KeysOf(t) \cap Held)
    <3>1. KeysOf(t) \cap Held = Accessor!Touched(call[t], Held)
      BY <2>5, EffectOf
    <3> QED
      BY <2>2, <2>5, <3>1
  <2>6. CASE call[t].kind = "batch_read" /\ Touch(t, KeysOf(t) \cap Held)
    <3>1. KeysOf(t) \cap Held = Accessor!Touched(call[t], Held)
      BY <2>6, EffectOf DEF Lookups
    <3> QED
      BY <2>2, <2>6, <3>1
  <2>7. CASE call[t].kind \in Ranges /\ Touch(t, Met(t, Held))
    <3>1. Met(t, Held) = Accessor!Touched(call[t], Held) /\ call[t].kind \notin {"read", "update"}
      BY <2>7, EffectOf DEF Ranges
    <3> QED
      BY <2>2, <2>7, <3>1
  <2>8. CASE call[t].kind \in Lookups \cup {"remove"} /\ KeysOf(t) \cap Held = {}
               /\ Reject(t, "not_found")
    <3>1. CASE call[t].kind = "batch_read"
      <4>1. ~(KeysOf(t) \subseteq Held)
        BY <2>8, CallOf DEF Steady, Firm, InCall
      <4> QED
        BY <2>3, <2>8, <3>1, <4>1
    <3>2. CASE call[t].kind # "batch_read"
      BY <2>3, <2>8, <3>2 DEF Lookups
    <3> QED
      BY <3>1, <3>2
  <2>9. CASE call[t].kind = "batch_read" /\ ~(KeysOf(t) \subseteq Held) /\ Misses(t)
    BY <2>3, <2>9 DEF Misses
  <2>10. CASE call[t].kind \in Ranges /\ Met(t, Held) = {} /\ Misses(t)
    BY <2>3, <2>10 DEF Misses
  <2> QED
    BY <1>3, <2>4, <2>5, <2>6, <2>7, <2>8, <2>9, <2>10, Zenon DEF Exact
<1>4. CASE Failed(t, Held, Held')
  <2>1. mayFail /\ Held' = Held
    BY <1>4, Zenon DEF Failed
  <2>2. ASSUME NEW status, NEW n, NEW found, Finish(t, status, n, found),
               AnswerIs(status, n, found) \in Accessor!FailedAnswers(call[t], Held)
        PROVE  Refines
    BY <2>1, <2>2, Fails, Zenon
  <2>3. CASE Misses(t)
    BY <1>1, <1>2, <2>2, <2>3, FailedAnswer DEF Misses
  <2>4. CASE Finish(t, "error", Size(t), {})
    BY <1>1, <2>2, <2>4, FailedAnswer
  <2>5. CASE call[t].kind = "batch_read" /\ \E s \in SUBSET (KeysOf(t) \cap Held) : Touch(t, s)
    BY <1>1, <1>2, <2>2, <2>5, FailedAnswer
  <2> QED
    BY <1>4, <2>3, <2>4, <2>5, Zenon DEF Failed
<1>5. CASE Loosely(t, Held, Held')
  <2>1. call[t].kind \in Loose
    BY <1>5, Zenon DEF Loosely
  <2>2. PICK status \in Statuses, n \in 0 .. Length(t) + 1, found \in SUBSET Held' :
          Finish(t, status, n, found)
    BY <1>5, Zenon DEF Loosely
  <2>3. \/ Held' = Accessor!After(call[t], Held)
        \/ call[t].kind = "update" /\ Held' = Held \cup KeysOf(t)
        \/ /\ call[t].kind \in Accessor!WriteKinds
           /\ mayFail \/ (call[t].kind = "bulk_load" /\ Held # {})
           /\ \E part \in SUBSET KeysOf(t) : Held' = Held \cup part
    BY <1>5, EffectRefines, Zenon DEF Loosely, Accessor!WriteKinds, Writes
  <2>4. n \in 0 .. call[t].length + 1
    BY DEF Length
  <2> QED
    BY <2>1, <2>2, <2>3, <2>4, PerformsLoosely, Zenon
<1> QED
  BY <1>3, <1>4, <1>5, Zenon DEF Outcome

-----------------------------------------------------------------------------
(***************************************************************************)
(* How many entries the calls touch.                                       *)
(***************************************************************************)

\* The quotient and the remainder of a number that is put together from them.
LEMMA Quotient ==
  ASSUME NEW b \in Nat \ {0}, NEW q \in Nat, NEW r \in 0 .. b - 1
  PROVE  (q * b + r) % b = r /\ (q * b + r) \div b = q
OBVIOUS

\* A number of two bytes is taken apart into them.
LEMMA BytesOf ==
  ASSUME NEW b \in Nat \ {0}, NEW m \in 0 .. b * b - 1
  PROVE  /\ m % b \in 0 .. b - 1 /\ m \div b \in 0 .. b - 1
         /\ m = (m \div b) * b + (m % b)
OBVIOUS

\* No two keys are the same when they are turned round.
LEMMA SwapInjective ==
  /\ \A m \in Keys : Swap(m) \in Nat
  /\ \A m, n \in Keys : Swap(m) = Swap(n) => m = n
<1>1. Base \in Nat \ {0} /\ Keys \subseteq 0 .. Base * Base - 1
  BY CallerAssumption
<1>2. ASSUME NEW m \in Keys
      PROVE  /\ Swap(m) \in Nat
             /\ m = (Swap(m) % Base) * Base + Swap(m) \div Base
  <2> DEFINE q == m \div Base
             r == m % Base
  <2>1. r \in 0 .. Base - 1 /\ q \in 0 .. Base - 1 /\ m = q * Base + r
    BY <1>1, BytesOf
  <2>2. Swap(m) = r * Base + q
    BY DEF Swap
  <2> HIDE DEF q, r
  <2>3. (r * Base + q) % Base = q /\ (r * Base + q) \div Base = r
    BY <1>1, <2>1, Quotient
  <2>4. r * Base + q \in Nat
    BY <1>1, <2>1
  <2> QED
    BY <2>1, <2>2, <2>3, <2>4
<1> QED
  BY <1>2

\* How many elements of a set come before x.
Rank(S, f, x) == Cardinality({j \in S : f[j] < f[x]})

\* The n elements of a set with the fewest before them.
FirstOf(S, f, n) == {x \in S : Rank(S, f, x) < n}

\* In a finite set no two elements have the same number of elements before them.
LEMMA RanksDiffer ==
  ASSUME NEW S, IsFiniteSet(S), NEW f \in [S -> Nat], \A x, y \in S : f[x] = f[y] => x = y
  PROVE  /\ \A x \in S : Rank(S, f, x) \in Nat
         /\ \A x, y \in S : Rank(S, f, x) = Rank(S, f, y) => x = y
<1> DEFINE Low(x) == {j \in S : f[j] < f[x]}
<1>1. ASSUME NEW x \in S PROVE IsFiniteSet(Low(x)) /\ Cardinality(Low(x)) \in Nat
  <2>1. Low(x) \in SUBSET S
    OBVIOUS
  <2> HIDE DEF Low
  <2> QED
    BY <2>1, FS_Subset, FS_CardinalityType
<1>2. ASSUME NEW x \in S, NEW y \in S, f[x] < f[y], Cardinality(Low(x)) = Cardinality(Low(y))
      PROVE  FALSE
  <2>1. Low(x) \in SUBSET Low(y) /\ x \in Low(y) /\ x \notin Low(x)
    <3>1. f[x] \in Nat /\ f[y] \in Nat /\ \A j \in S : f[j] \in Nat
      OBVIOUS
    <3>2. \A j \in S : f[j] < f[x] => f[j] < f[y]
      BY <1>2, <3>1
    <3> QED
      BY <1>2, <3>1, <3>2
  <2>2. IsFiniteSet(Low(y))
    BY <1>1
  <2> HIDE DEF Low
  <2>3. Low(x) = Low(y)
    BY <1>2, <2>1, <2>2, FS_Subset
  <2> QED
    BY <2>1, <2>3
<1>3. ASSUME NEW x \in S, NEW y \in S, Cardinality(Low(x)) = Cardinality(Low(y))
      PROVE  x = y
  <2>1. f[x] \in Nat /\ f[y] \in Nat
    OBVIOUS
  <2>2. f[x] = f[y]
    BY <1>2, <1>3, <2>1
  <2> QED
    BY <2>2
<1> QED
  BY <1>1, <1>3 DEF Rank

\* The first n elements of a set are no more than n.
LEMMA FirstFew ==
  ASSUME NEW S, IsFiniteSet(S), NEW f \in [S -> Nat], \A x, y \in S : f[x] = f[y] => x = y,
         NEW n \in Nat
  PROVE  Cardinality(FirstOf(S, f, n)) \in Nat /\ Cardinality(FirstOf(S, f, n)) <= n
<1> DEFINE F == FirstOf(S, f, n)
           g == [x \in F |-> Rank(S, f, x)]
<1>0. F \subseteq S /\ \A x \in F : Rank(S, f, x) < n
  BY DEF FirstOf
<1> HIDE DEF F
<1>1. \A x \in F : g[x] \in 0 .. n - 1
  <2>1. \A x \in S : Rank(S, f, x) \in Nat
    BY RanksDiffer
  <2> QED
    BY <1>0, <2>1
<1>2. \A x, y \in F : g[x] = g[y] => x = y
  <2>1. \A x, y \in S : Rank(S, f, x) = Rank(S, f, y) => x = y
    BY RanksDiffer
  <2> QED
    BY <1>0, <2>1
<1>3. g \in [F -> 0 .. n - 1]
  BY <1>1
<1> HIDE DEF g
<1>4. g \in Injection(F, 0 .. n - 1)
  BY <1>2, <1>3, Fun_IsInj
<1>5. IsFiniteSet(0 .. n - 1) /\ Cardinality(0 .. n - 1) = n
  <2>1. /\ IsFiniteSet(0 .. n - 1)
        /\ Cardinality(0 .. n - 1) = IF 0 > n - 1 THEN 0 ELSE n - 1 - 0 + 1
    BY FS_Interval
  <2> QED
    BY <2>1
<1>6. IsFiniteSet(F) /\ Cardinality(F) <= Cardinality(0 .. n - 1)
  BY <1>4, <1>5, FS_Injection
<1> QED
  BY <1>5, <1>6, FS_CardinalityType DEF F

\* The first entries, in either order.
LEMMA FirstCount ==
  ASSUME NEW S \in SUBSET Keys, NEW n \in Nat
  PROVE  /\ FirstBytes(S, n) \subseteq S /\ Cardinality(FirstBytes(S, n)) \in 0 .. n
         /\ FirstNumbers(S, n) \subseteq S /\ Cardinality(FirstNumbers(S, n)) \in 0 .. n
<1>1. S \subseteq Nat /\ IsFiniteSet(S)
  BY KeysFinite
<1>2. FirstBytes(S, n) \subseteq S /\ Cardinality(FirstBytes(S, n)) \in 0 .. n
  <2> DEFINE f == [m \in S |-> Swap(m)]
             F == FirstBytes(S, n)
  <2>1. f \in [S -> Nat] /\ \A x, y \in S : f[x] = f[y] => x = y
    BY SwapInjective
  <2>2. F = FirstOf(S, f, n) /\ F \subseteq S
    <3>1. \A x \in S : {j \in S : Before(j, x)} = {j \in S : f[j] < f[x]}
      BY DEF Before
    <3> HIDE DEF f
    <3> QED
      BY <3>1 DEF FirstBytes, FirstOf, Rank
  <2> HIDE DEF f
  <2>3. Cardinality(FirstOf(S, f, n)) \in Nat /\ Cardinality(FirstOf(S, f, n)) <= n
    BY <1>1, <2>1, FirstFew
  <2> HIDE DEF F
  <2>4. Cardinality(F) \in Nat /\ Cardinality(F) <= n
    BY <2>2, <2>3
  <2> QED
    BY <2>2, <2>4 DEF F
<1>3. FirstNumbers(S, n) \subseteq S /\ Cardinality(FirstNumbers(S, n)) \in 0 .. n
  <2> DEFINE f == [m \in S |-> m]
             F == FirstNumbers(S, n)
  <2>1. f \in [S -> Nat] /\ \A x, y \in S : f[x] = f[y] => x = y
    BY <1>1
  <2>2. F = FirstOf(S, f, n) /\ F \subseteq S
    <3>1. \A x \in S : {j \in S : j < x} = {j \in S : f[j] < f[x]}
      OBVIOUS
    <3> HIDE DEF f
    <3> QED
      BY <3>1 DEF FirstNumbers, FirstOf, Rank
  <2> HIDE DEF f
  <2>3. Cardinality(FirstOf(S, f, n)) \in Nat /\ Cardinality(FirstOf(S, f, n)) <= n
    BY <1>1, <2>1, FirstFew
  <2> HIDE DEF F
  <2>4. Cardinality(F) \in Nat /\ Cardinality(F) <= n
    BY <2>2, <2>3
  <2> QED
    BY <2>2, <2>4 DEF F
<1> QED
  BY <1>2, <1>3

\* The entries of the chunks that begin a chunk's length after each other from k on.
InChunks(d, k, l) ==
  UNION {{i} \X FirstNumbers({x \in d : x >= k + i * Chunk}, Min({Chunk, l - i * Chunk}))
           : i \in 0 .. (l - 1) \div Chunk}

\* A chunk's number and the place of an entry in it tell the place of the entry
\* among all that are counted.
LEMMA ChunksCount ==
  ASSUME NEW d \in SUBSET Keys, NEW k \in Nat, NEW l \in Nat \ {0}
  PROVE  /\ Cardinality(InChunks(d, k, l)) \in 0 .. l
         /\ {entry[2] : entry \in InChunks(d, k, l)} \subseteq d
<1> DEFINE F == InChunks(d, k, l)
<1> F = UNION {{i} \X FirstNumbers({x \in d : x >= k + i * Chunk}, Min({Chunk, l - i * Chunk}))
                 : i \in 0 .. (l - 1) \div Chunk}
  BY DEF InChunks
<1> HIDE DEF F
<1> DEFINE S(i) == {x \in d : x >= k + i * Chunk}
           m(i) == Min({Chunk, l - i * Chunk})
           I    == 0 .. (l - 1) \div Chunk
           rank(i, x) == Cardinality({j \in S(i) : j < x})
<1>1. Chunk \in Nat \ {0} /\ d \subseteq Nat
  BY AdaptersAssumption, KeysFinite
<1>2. ASSUME NEW i \in I PROVE i \in Nat /\ m(i) <= Chunk /\ i * Chunk + m(i) <= l /\ m(i) \in Int
                                /\ i * Chunk \in Nat
  <2> DEFINE a == i * Chunk
             q == (l - 1) \div Chunk
  <2>1. i \in Nat /\ i <= q
    BY <1>1
  <2>2. q \in Nat /\ q * Chunk <= l - 1
    BY <1>1
  <2> HIDE DEF q
  <2>3. i * Chunk <= q * Chunk /\ i * Chunk \in Nat
    BY <1>1, <2>1, <2>2
  <2>4. a \in Nat /\ l - a \in Nat
    BY <1>1, <2>2, <2>3
  <2> HIDE DEF a
  <2>5. \E x \in {Chunk, l - a} : \A y \in {Chunk, l - a} : x <= y
    BY <1>1, <2>4
  <2>6. /\ Min({Chunk, l - a}) \in {Chunk, l - a}
        /\ \A y \in {Chunk, l - a} : Min({Chunk, l - a}) <= y
    BY <2>5 DEF Min
  <2>7. m(i) = Min({Chunk, l - a})
    BY DEF a
  <2>8. m(i) <= Chunk /\ a + m(i) <= l /\ m(i) \in Int
    <3> HIDE DEF m
    <3> QED  BY <1>1, <2>4, <2>6, <2>7
  <2> QED
    BY <2>1, <2>4, <2>8 DEF a
<1>3. ASSUME NEW i \in I
      PROVE  /\ \A x \in S(i) : rank(i, x) \in Nat
             /\ \A x, y \in S(i) : rank(i, x) = rank(i, y) => x = y
  <2> DEFINE f == [x \in S(i) |-> x]
  <2>1. S(i) \in SUBSET Keys /\ S(i) \subseteq Nat
    BY <1>1
  <2>2. IsFiniteSet(S(i))
    BY <2>1, KeysFinite
  <2>3. f \in [S(i) -> Nat] /\ (\A x, y \in S(i) : f[x] = f[y] => x = y)
    BY <2>1
  <2>4. \A x \in S(i) : {j \in S(i) : j < x} = {j \in S(i) : f[j] < f[x]}
    OBVIOUS
  <2> HIDE DEF f, S
  <2>5. /\ \A x \in S(i) : Rank(S(i), f, x) \in Nat
        /\ \A x, y \in S(i) : Rank(S(i), f, x) = Rank(S(i), f, y) => x = y
    BY <2>2, <2>3, RanksDiffer
  <2>6. \A x \in S(i) : rank(i, x) = Rank(S(i), f, x)
    BY <2>4 DEF Rank
  <2> HIDE DEF rank
  <2> QED
    BY <2>5, <2>6
<1>4. \A e \in F : \E i \in I : \E x \in S(i) : e = <<i, x>> /\ rank(i, x) < m(i)
  <2>1. ASSUME NEW i \in I
        PROVE  FirstNumbers(S(i), m(i)) = {x \in S(i) : rank(i, x) < m(i)}
    BY DEF FirstNumbers
  <2> SUFFICES ASSUME NEW e \in F
               PROVE  \E i \in I : \E x \in S(i) : e = <<i, x>> /\ rank(i, x) < m(i)
    OBVIOUS
  <2>2. PICK i \in I : e \in {i} \X FirstNumbers(S(i), m(i))
    OBVIOUS
  <2> HIDE DEF S, m, rank, I
  <2>3. PICK x \in FirstNumbers(S(i), m(i)) : e = <<i, x>>
    BY <2>2
  <2>4. x \in S(i) /\ rank(i, x) < m(i)
    BY <2>1
  <2> QED
    BY <2>3, <2>4
<1> DEFINE g == [e \in F |-> e[1] * Chunk + rank(e[1], e[2])]
<1>5. ASSUME NEW e \in F
      PROVE  \E i \in I : \E x \in S(i) :
               e = <<i, x>> /\ g[e] = i * Chunk + rank(i, x) /\ rank(i, x) \in 0 .. m(i) - 1
  <2>0. PICK i \in I : \E x \in S(i) : e = <<i, x>> /\ rank(i, x) < m(i)
    BY <1>4
  <2>1. PICK x \in S(i) : e = <<i, x>> /\ rank(i, x) < m(i)
    BY <2>0
  <2>2. rank(i, x) \in Nat /\ m(i) \in Int
    BY <1>2, <1>3
  <2>3. g[e] = e[1] * Chunk + rank(e[1], e[2]) /\ e[1] = i /\ e[2] = x
    BY <2>1
  <2> HIDE DEF S, rank, m, I, g
  <2>4. g[e] = i * Chunk + rank(i, x)
    BY <2>3
  <2>5. rank(i, x) \in 0 .. m(i) - 1
    BY <2>1, <2>2
  <2> QED
    BY <2>1, <2>4, <2>5
<1>6. \A e \in F : e[2] \in d
  <2> SUFFICES ASSUME NEW e \in F PROVE e[2] \in d
    OBVIOUS
  <2>1. PICK i \in I : \E x \in S(i) : e = <<i, x>> /\ rank(i, x) < m(i)
    BY <1>4
  <2>2. PICK x \in S(i) : e = <<i, x>>
    BY <2>1
  <2> QED
    BY <2>2
<1>g. g = [e \in F |-> g[e]]
  OBVIOUS
<1> HIDE DEF S, rank, m, I, g
<1>7. ASSUME NEW e \in F PROVE g[e] \in 0 .. l - 1
  <2>0. PICK i \in I : \E x \in S(i) :
          e = <<i, x>> /\ g[e] = i * Chunk + rank(i, x) /\ rank(i, x) \in 0 .. m(i) - 1
    BY <1>5
  <2>1. PICK x \in S(i) :
          e = <<i, x>> /\ g[e] = i * Chunk + rank(i, x) /\ rank(i, x) \in 0 .. m(i) - 1
    BY <2>0
  <2>2. i * Chunk \in Nat /\ i * Chunk + m(i) <= l /\ m(i) \in Int
    BY <1>2
  <2> QED
    BY <2>1, <2>2
<1>8. ASSUME NEW e1 \in F, NEW e2 \in F, g[e1] = g[e2] PROVE e1 = e2
  <2>0. PICK i1 \in I : \E x \in S(i1) :
          e1 = <<i1, x>> /\ g[e1] = i1 * Chunk + rank(i1, x) /\ rank(i1, x) \in 0 .. m(i1) - 1
    BY <1>5
  <2>1. PICK x1 \in S(i1) :
          e1 = <<i1, x1>> /\ g[e1] = i1 * Chunk + rank(i1, x1) /\ rank(i1, x1) \in 0 .. m(i1) - 1
    BY <2>0
  <2>2. PICK i2 \in I : \E x \in S(i2) :
          e2 = <<i2, x>> /\ g[e2] = i2 * Chunk + rank(i2, x) /\ rank(i2, x) \in 0 .. m(i2) - 1
    BY <1>5
  <2>3. PICK x2 \in S(i2) :
          e2 = <<i2, x2>> /\ g[e2] = i2 * Chunk + rank(i2, x2) /\ rank(i2, x2) \in 0 .. m(i2) - 1
    BY <2>2
  <2> DEFINE r1 == rank(i1, x1)
             r2 == rank(i2, x2)
  <2>4. i1 \in Nat /\ i2 \in Nat /\ r1 \in 0 .. Chunk - 1 /\ r2 \in 0 .. Chunk - 1
    BY <1>1, <1>2, <2>1, <2>3
  <2>5. i1 * Chunk + r1 = i2 * Chunk + r2
    BY <1>8, <2>1, <2>3
  <2> HIDE DEF r1, r2
  <2>6. /\ (i1 * Chunk + r1) \div Chunk = i1 /\ (i1 * Chunk + r1) % Chunk = r1
        /\ (i2 * Chunk + r2) \div Chunk = i2 /\ (i2 * Chunk + r2) % Chunk = r2
    BY <1>1, <2>4, Quotient
  <2>7. i1 = i2 /\ r1 = r2
    BY <2>5, <2>6
  <2>8. x1 = x2
    BY <1>3, <2>7 DEF r1, r2
  <2> QED
    BY <2>1, <2>3, <2>7, <2>8
<1>9. g \in [F -> 0 .. l - 1]
  BY <1>7, <1>g
<1>10. \A e1, e2 \in F : g[e1] = g[e2] => e1 = e2
  BY <1>8
<1> HIDE DEF g
<1>11. g \in Injection(F, 0 .. l - 1)
  BY <1>9, <1>10, Fun_IsInj
<1>12. IsFiniteSet(0 .. l - 1) /\ Cardinality(0 .. l - 1) = l
  <2>1. /\ IsFiniteSet(0 .. l - 1)
        /\ Cardinality(0 .. l - 1) = IF 0 > l - 1 THEN 0 ELSE l - 1 - 0 + 1
    BY FS_Interval
  <2> QED
    BY <2>1
<1>13. IsFiniteSet(F) /\ Cardinality(F) <= l
  BY <1>11, <1>12, FS_Injection
<1>14. Cardinality(F) \in Nat
  BY <1>13, FS_CardinalityType
<1>15. Cardinality(F) \in 0 .. l
  BY <1>12, <1>13, <1>14
<1>16. {entry[2] : entry \in F} \subseteq d
  BY <1>6, Zenon
<1> QED
  BY <1>15, <1>16 DEF F

\* The keys of a call are as many as it is long, and one key is its only one.
LEMMA CallCounted ==
  ASSUME CoreTypes, CallInv, NEW t \in Threads, InCall(t)
  PROVE  /\ call[t].kind \notin Ranges =>
              Cardinality(KeysOf(t)) = Length(t) /\ Size(t) = Length(t)
         /\ call[t].kind \in {"upsert", "update", "remove", "read"} \cup Ranges =>
              KeysOf(t) = {Key(t)}
         /\ \A i, j \in 1 .. Size(t) : call[t].keys[i] = call[t].keys[j] => i = j
         /\ call[t].kind = "batch_read" => Length(t) \in workload.lengths
<1> DEFINE c == call[t]
<1>1. /\ c \in CallsOf(c.kind, workload.lengths) /\ c.kind \in CallKinds
      /\ workload.lengths \subseteq Nat \ {0}
  BY CallOf, CallerAssumption DEF InCall, CallInv
<1>2. ASSUME NEW n \in Nat \ {0}, c.keys \in Batches(n)
      PROVE  /\ Len(c.keys) = n /\ Cardinality(Range(c.keys)) = n
             /\ n = 1 => Range(c.keys) = {c.keys[1]}
             /\ \A i, j \in 1 .. n : c.keys[i] = c.keys[j] => i = j
  <2> DEFINE s == c.keys
             R == Range(s)
  <2>1. s \in [1 .. n -> Keys] /\ Len(s) = n /\ DOMAIN s = 1 .. n
    BY <1>2 DEF Batches
  <2>2. \A i, j \in 1 .. n : s[i] = s[j] => i = j
    BY <1>2, <2>1 DEF Batches, IsInjective
  <2>3. R = {s[i] : i \in 1 .. n} /\ s \in [1 .. n -> R] /\ \A y \in R : \E i \in 1 .. n : s[i] = y
    BY <2>1 DEF Range
  <2>4. n = 1 => R = {s[1]}
    BY <2>3
  <2> HIDE DEF R, s
  <2>5. s \in Surjection(1 .. n, R) /\ s \in Injection(1 .. n, R)
    BY <2>2, <2>3, Fun_IsSurj, Fun_IsInj
  <2>6. IsFiniteSet(1 .. n) /\ Cardinality(1 .. n) = n
    <3>1. /\ IsFiniteSet(1 .. n)
          /\ Cardinality(1 .. n) = IF 1 > n THEN 0 ELSE n - 1 + 1
      BY FS_Interval
    <3> QED
      BY <3>1
  <2>7. Cardinality(R) = Cardinality(1 .. n)
    BY <2>5, <2>6, FS_Surjection
  <2> QED
    BY <2>1, <2>2, <2>4, <2>6, <2>7 DEF s, R
<1>3. CASE c.kind \in {"upsert", "update", "remove", "read"}
  <2>1. c.keys \in Batches(1) /\ c.length = 1
    BY <1>1, <1>3 DEF CallsOf
  <2>2. /\ Len(c.keys) = 1 /\ Cardinality(Range(c.keys)) = 1 /\ Range(c.keys) = {c.keys[1]}
        /\ \A i, j \in 1 .. 1 : c.keys[i] = c.keys[j] => i = j
    <3>1. 1 \in Nat \ {0} /\ 1 = 1
      OBVIOUS
    <3> HIDE DEF c
    <3> QED
      BY <1>2, <2>1, <3>1, Zenon
  <2> QED
    BY <1>3, <2>1, <2>2 DEF KeysOf, Size, Length, Key
<1>4. CASE c.kind = "batch_read"
  <2>1. PICK n \in workload.lengths : c.keys \in Batches(n) /\ c.length = n
    BY <1>1, <1>4 DEF CallsOf
  <2> QED
    BY <1>1, <1>2, <1>4, <2>1 DEF Ranges, KeysOf, Size, Length, Key
<1>5. CASE c.kind \in {"batch_upsert", "bulk_load"}
  <2>1. PICK n \in workload.lengths : c.keys \in Batches(n) /\ c.length = n
    BY <1>1, <1>5 DEF CallsOf
  <2> QED
    BY <1>1, <1>2, <1>5, <2>1 DEF Ranges, KeysOf, Size, Length, Key
<1>6. CASE c.kind \in {"range_select", "scan"}
  <2>1. c.keys \in Batches(1)
    BY <1>1, <1>6 DEF CallsOf
  <2> QED
    BY <1>2, <1>6, <2>1 DEF Ranges, KeysOf, Size, Length, Key
<1> QED
  BY <1>1, <1>3, <1>4, <1>5, <1>6 DEF CallKinds

-----------------------------------------------------------------------------
(***************************************************************************)
(* The databases without transactions: what the threads have together is   *)
(* what is in the engine.                                                  *)
(***************************************************************************)

\* Without transactions nothing is pending.
LEMMA HeldIsData == TransactionInv /\ engine \notin Transactions => Held = data
<1> SUFFICES ASSUME TransactionInv, engine \notin Transactions PROVE Held = data
  OBVIOUS
<1>1. \A t \in Threads : pending[t].put = {} /\ pending[t].del = {}
  BY DEF TransactionInv, Nothing
<1> QED
  BY <1>1 DEF Held, DataOfAll

\* What is known of a step of such a database.
Plain == /\ AdaptersInv /\ AdaptersInv' /\ engine \notin Transactions
         /\ UNCHANGED <<mayFail, engine>>

\* Such a step is steady, and Accessor sees the data.
LEMMA PlainSteady ==
  ASSUME Plain
  PROVE  Steady /\ Held = data /\ Held' = data' /\ CallInv /\ CallInv'
<1>1. CoreTypes /\ CoreTypes' /\ CallInv /\ CallInv' /\ TransactionInv /\ TransactionInv'
  BY DEF Plain, AdaptersInv
<1>2. engine \notin Transactions /\ (engine \notin Transactions)' /\ UNCHANGED <<mayFail, engine>>
  BY Zenon DEF Plain
<1>3. Promised /\ Promised'
  BY <1>2, Zenon DEF Promised
<1>s. UNCHANGED spent
  <2>1. TransactionInv /\ engine \notin Transactions => spent = {}
    BY DEF TransactionInv
  <2>2. TransactionInv' /\ (engine \notin Transactions)' => spent' = {}
    BY DEF TransactionInv
  <2> QED
    BY <1>1, <1>2, <2>1, <2>2, Zenon
<1>4. Held = data
  BY <1>1, <1>2, HeldIsData
<1>5. Held' = data'
  <2>1. TransactionInv' /\ (engine \notin Transactions)' => (Held = data)'
    BY HeldIsData, PTL
  <2> QED
    BY <1>1, <1>2, <2>1
<1> QED
  BY <1>1, <1>2, <1>3, <1>s, <1>4, <1>5, Zenon DEF Steady, Firm

\* A call of such a database with one of the outcomes is one of Accessor.
LEMMA PlainOutcome ==
  ASSUME Plain, NEW t \in Threads, Works(t), Outcome(t, data, data')
  PROVE  Refines
<1>1. InCall(t) /\ call' = call
  BY Zenon DEF Works, InCall
<1>2. Outcome(t, Held, Held')
  BY PlainSteady, Zenon
<1> QED
  BY <1>1, <1>2, PlainSteady, OutcomeRefines, Zenon

\* A thread that goes on in such a database does nothing yet.
LEMMA PlainGoesOn ==
  ASSUME Plain, NEW t \in Threads, Works(t), NEW place \in Between, GoTo(t, place),
         UNCHANGED <<reply, data>>
  PROVE  Refines
<1>1. InCall(t) /\ call' = call
  BY Zenon DEF Works, InCall
<1> QED
  BY <1>1, PlainSteady, GoesOn, Zenon

\* The driver, and the threads that call or return, leave the data alone.
LEMMA PlainAround ==
  ASSUME Plain, NEW t \in Threads, UNCHANGED data,
         OpenDb \/ FlushDb \/ Closes \/ Invoke(t) \/ Return(t)
  PROVE  Refines
BY PlainSteady, DriverRefines, InvokeRefines, ReturnRefines, Zenon

\* The kinds of calls made together with one of a given kind.
LEMMA MixOf ==
  ASSUME CoreTypes, CallInv, ShippedMixes, NEW t \in Threads, NEW u \in Threads,
         InCall(t), InCall(u)
  PROVE  /\ call[u].kind \in workload.kinds
         /\ call[t].kind \in {"read", "update"} => call[u].kind \notin {"remove"}
         /\ call[t].kind \notin {"read", "update", "upsert"} =>
              workload.kinds = {call[t].kind}
         /\ call[t].kind = "update" => workload.kinds \subseteq {"read", "update"}
         /\ call[t].kind = "upsert" => workload.kinds \subseteq {"read", "upsert"}
<1>1. workload \in Workloads /\ call[t].kind \in workload.kinds /\ call[u].kind \in workload.kinds
  BY DEF CoreTypes, CallInv, InCall
<1>2. \/ \E kind \in CallKinds : workload.kinds = {kind}
      \/ workload.kinds = {"read", "update"} \/ workload.kinds = {"read", "upsert"}
  BY <1>1 DEF ShippedMixes
<1> QED
  BY <1>1, <1>2

-----------------------------------------------------------------------------
\* The outcomes that calls of many databases have.
LEMMA Outcomes ==
  ASSUME CoreTypes, CallInv, NEW t \in Threads, InCall(t), NEW d2
  PROVE  /\ /\ call[t].kind \in Writes /\ d2 = data \cup KeysOf(t) /\ Touch(t, KeysOf(t))
            => Outcome(t, data, d2)
         /\ /\ call[t].kind = "remove" /\ d2 = data \ KeysOf(t)
            /\ Touch(t, KeysOf(t)) \/ (Key(t) \notin data /\ Reject(t, "not_found"))
            => Outcome(t, data, d2)
         /\ /\ call[t].kind \in {"read", "update"} /\ d2 = data
            /\ \/ Key(t) \in data /\ Touch(t, KeysOf(t))
               \/ Key(t) \notin data /\ Reject(t, "not_found")
            => Outcome(t, data, d2)
         /\ call[t].kind = "batch_read" /\ d2 = data /\ Touch(t, KeysOf(t) \cap data)
            => Outcome(t, data, d2)
         /\ /\ mayFail /\ d2 = data
            /\ \/ Reject(t, "error") \/ Reject(t, "not_found")
               \/ Finish(t, "error", Size(t), {})
               \/ /\ call[t].kind = "batch_read"
                  /\ \E s \in SUBSET (KeysOf(t) \cap data) : Touch(t, s)
            => Outcome(t, data, d2)
<1>1. call[t].kind \in {"remove", "read", "update"} => KeysOf(t) = {Key(t)}
  BY CallCounted
<1>2. ASSUME call[t].kind \in Writes, d2 = data \cup KeysOf(t), Touch(t, KeysOf(t))
      PROVE  Exact(t, data, d2)
  BY <1>2 DEF Exact, Effect
<1>3. ASSUME call[t].kind = "remove", d2 = data \ KeysOf(t),
             Touch(t, KeysOf(t)) \/ (Key(t) \notin data /\ Reject(t, "not_found"))
      PROVE  Exact(t, data, d2)
  BY <1>1, <1>3 DEF Exact, Effect
<1>4. ASSUME call[t].kind \in {"read", "update"}, d2 = data,
             \/ Key(t) \in data /\ Touch(t, KeysOf(t))
             \/ Key(t) \notin data /\ Reject(t, "not_found")
      PROVE  Exact(t, data, d2)
  <2>1. Key(t) \in data => KeysOf(t) \cap data = KeysOf(t) /\ KeysOf(t) # {}
    BY <1>1, <1>4
  <2>2. Key(t) \notin data => KeysOf(t) \cap data = {}
    BY <1>1, <1>4
  <2> QED
    BY <1>4, <2>1, <2>2 DEF Exact, Effect, Lookups
<1>5. ASSUME call[t].kind = "batch_read", d2 = data, Touch(t, KeysOf(t) \cap data)
      PROVE  Exact(t, data, d2)
  BY <1>5 DEF Exact, Effect, Lookups
<1>6. ASSUME mayFail, d2 = data,
             \/ Reject(t, "error") \/ Reject(t, "not_found")
             \/ Finish(t, "error", Size(t), {})
             \/ call[t].kind = "batch_read" /\ \E s \in SUBSET (KeysOf(t) \cap data) : Touch(t, s)
      PROVE  Failed(t, data, d2)
  BY <1>6, Zenon DEF Failed, Misses
<1> QED
  BY <1>2, <1>3, <1>4, <1>5, <1>6, Zenon DEF Outcome

\* A range is not promised to report what it is to report, but no more than it is
\* asked for.
LEMMA RangeOutcome ==
  ASSUME CoreTypes, CallInv, NEW t \in Threads, InCall(t), NEW d2, d2 = data,
         call[t].kind \in Ranges, call[t].kind \in Loose,
         \/ \E found \in SUBSET data : Cardinality(found) \in 0 .. Length(t) /\ Touch(t, found)
         \/ \E status \in Statuses : Reject(t, status)
  PROVE  Outcome(t, data, d2)
<1>1. Length(t) \in Nat
  BY CallOf DEF InCall
<1>2. \E status \in Statuses, n \in 0 .. Length(t) + 1, found \in SUBSET d2 :
        Finish(t, status, n, found)
  <2>1. ASSUME NEW found \in SUBSET data, Cardinality(found) \in 0 .. Length(t), Touch(t, found)
        PROVE  \E status \in Statuses, n \in 0 .. Length(t) + 1, f \in SUBSET d2 :
                 Finish(t, status, n, f)
    <3>1. Finish(t, "ok", Cardinality(found), found)
      BY <2>1, Zenon DEF Touch
    <3>2. "ok" \in Statuses /\ Cardinality(found) \in 0 .. Length(t) + 1 /\ found \in SUBSET d2
      BY <1>1, <2>1 DEF Statuses
    <3> QED
      BY <3>1, <3>2, Zenon
  <2>2. ASSUME NEW status \in Statuses, Reject(t, status)
        PROVE  \E s \in Statuses, n \in 0 .. Length(t) + 1, f \in SUBSET d2 : Finish(t, s, n, f)
    <3>1. Finish(t, status, 0, {}) /\ 0 \in 0 .. Length(t) + 1 /\ {} \in SUBSET d2
      BY <1>1, <2>2 DEF Reject
    <3> QED
      BY <3>1, Zenon
  <2> QED
    BY <2>1, <2>2, Zenon
<1>3. Effect(t, data, d2)
  BY DEF Effect
<1> QED
  BY <1>2, <1>3, Zenon DEF Outcome, Loosely

\* A call that may do what it likes with its report: with keys of its own, or none.
LEMMA LooseOutcome ==
  ASSUME CoreTypes, CallInv, NEW t \in Threads, InCall(t), NEW d2,
         call[t].kind \in Loose \ Ranges,
         \/ \E found \in SUBSET (KeysOf(t) \cap d2) : Touch(t, found)
         \/ \E found \in SUBSET d2 : Finish(t, "ok", Size(t), found)
         \/ \E status \in Statuses : Reject(t, status),
         \/ Effect(t, data, d2)
         \/ call[t].kind = "update" /\ d2 = data \cup KeysOf(t)
         \/ /\ call[t].kind \in Writes
            /\ mayFail \/ (call[t].kind = "bulk_load" /\ data # {})
            /\ \E part \in SUBSET KeysOf(t) : d2 = data \cup part
  PROVE  Outcome(t, data, d2)
<1>1. Length(t) \in Nat /\ Size(t) = Length(t) /\ Cardinality(KeysOf(t)) = Length(t)
      /\ KeysOf(t) \subseteq Keys
  BY CallOf, CallCounted DEF InCall
<1>2. \E status \in Statuses, n \in 0 .. Length(t) + 1, found \in SUBSET d2 :
        Finish(t, status, n, found)
  <2>1. ASSUME NEW found \in SUBSET (KeysOf(t) \cap d2), Touch(t, found)
        PROVE  \E status \in Statuses, n \in 0 .. Length(t) + 1, f \in SUBSET d2 :
                 Finish(t, status, n, f)
    <3>1. Finish(t, "ok", Cardinality(found), found)
      BY <2>1, Zenon DEF Touch
    <3>2. Cardinality(found) \in 0 .. Length(t) + 1
      <4>1. IsFiniteSet(KeysOf(t)) /\ found \in SUBSET KeysOf(t)
        BY <1>1, KeysFinite
      <4>2. IsFiniteSet(found) /\ Cardinality(found) <= Cardinality(KeysOf(t))
        BY <4>1, FS_Subset
      <4>3. Cardinality(found) \in Nat
        BY <4>2, FS_CardinalityType
      <4> QED
        BY <1>1, <4>2, <4>3
    <3>3. "ok" \in Statuses /\ found \in SUBSET d2
      BY DEF Statuses
    <3> QED
      BY <3>1, <3>2, <3>3, Zenon
  <2>2. ASSUME NEW status \in Statuses, Reject(t, status)
        PROVE  \E s \in Statuses, n \in 0 .. Length(t) + 1, f \in SUBSET d2 : Finish(t, s, n, f)
    <3>1. Finish(t, status, 0, {}) /\ 0 \in 0 .. Length(t) + 1 /\ {} \in SUBSET d2
      BY <1>1, <2>2 DEF Reject
    <3> QED
      BY <3>1, Zenon
  <2>3. ASSUME NEW found \in SUBSET d2, Finish(t, "ok", Size(t), found)
        PROVE  \E s \in Statuses, n \in 0 .. Length(t) + 1, f \in SUBSET d2 : Finish(t, s, n, f)
    <3>1. Size(t) \in 0 .. Length(t) + 1 /\ "ok" \in Statuses
      BY <1>1 DEF Statuses
    <3> QED
      BY <2>3, <3>1, Zenon
  <2> QED
    BY <2>1, <2>2, <2>3, Zenon
<1> QED
  BY <1>2, Zenon DEF Outcome, Loosely

\* A batch of reads that finds all that is there, unless the engine fails.
LEMMA HitsOutcome ==
  ASSUME CoreTypes, CallInv, NEW t \in Threads, InCall(t), NEW d2, d2 = data,
         call[t].kind = "batch_read",
         \E hits \in IF mayFail THEN SUBSET KeysOf(t) ELSE {KeysOf(t)} : Touch(t, hits \cap data)
  PROVE  Outcome(t, data, d2)
<1>1. CASE mayFail
  <2>1. PICK hits \in SUBSET KeysOf(t) : Touch(t, hits \cap data)
    BY <1>1, Zenon
  <2>2. hits \cap data \in SUBSET (KeysOf(t) \cap data)
    OBVIOUS
  <2>3. \E s \in SUBSET (KeysOf(t) \cap data) : Touch(t, s)
    BY <2>1, <2>2, Zenon
  <2> QED
    BY <1>1, <2>3, Outcomes
<1>2. CASE ~mayFail
  <2>1. Touch(t, KeysOf(t) \cap data)
    BY <1>2, Zenon
  <2> QED
    BY <2>1, Outcomes
<1> QED
  BY <1>1, <1>2

\* A call of a database whose calls may end the program.
LEMMA EndsOrGoesOn ==
  ASSUME Plain, NEW t \in Threads, InCall(t), "bulk_load" \in Loose,
         Works(t) \/ \E d \in SUBSET Keys : EndProgram(d),
         \/ Outcome(t, data, data')
         \/ GoTo(t, "begun") /\ UNCHANGED <<reply, data>>
         \/ \E part \in SUBSET KeysOf(t) :
              /\ EndProgram(data \cup part)
              /\ part = {} \/ call[t].kind \in {"upsert", "batch_upsert", "bulk_load"}
  PROVE  Refines
<1>1. Steady /\ Held = data /\ Held' = data' /\ CoreTypes
  BY PlainSteady DEF Steady, Firm
<1>2. ASSUME NEW part \in SUBSET KeysOf(t), EndProgram(data \cup part),
             part = {} \/ call[t].kind \in {"upsert", "batch_upsert", "bulk_load"}
      PROVE  Refines
  <2>1. Held' = Held \cup part
    BY <1>1, <1>2, Zenon DEF EndProgram
  <2> QED
    BY <1>1, <1>2, <2>1, CrashRefines
<1>3. ASSUME GoTo(t, "done") \/ GoTo(t, "begun") PROVE Works(t)
  <2>1. stage'[t] # "idle"
    BY <1>1, <1>3 DEF GoTo, CoreTypes
  <2>2. ASSUME NEW d, EndProgram(d) PROVE stage'[t] = "idle"
    BY <2>2 DEF EndProgram, NoThreadCalls
  <2> QED
    BY <2>1, <2>2
<1>4. CASE Outcome(t, data, data')
  <2>1. GoTo(t, "done")
    BY <1>4, Zenon DEF Outcome, Exact, Failed, Loosely, Misses, Touch, Reject, Finish, GoTo
  <2> QED
    BY <1>3, <1>4, <2>1, PlainOutcome
<1>5. CASE GoTo(t, "begun") /\ UNCHANGED <<reply, data>>
  BY <1>3, <1>5, PlainGoesOn DEF Between
<1> QED
  BY <1>2, <1>4, <1>5

-----------------------------------------------------------------------------
(***************************************************************************)
(* LevelDB.                                                                *)
(***************************************************************************)

\* A call to LevelDB takes effect in its last step.
LEMMA LevelDBCalls ==
  ASSUME engine = "leveldb", CoreTypes, CallInv, PutInv, NEW t \in Threads, InCall(t),
         LevelDB!Progress(t)
  PROVE  \/ Outcome(t, data, data')
         \/ /\ GoTo(t, "put") /\ UNCHANGED <<reply, data>>
            /\ Key(t) \in data /\ call[t].kind = "update"
<1>0. /\ LevelDB!KeysOf(t) = KeysOf(t) /\ LevelDB!Key(t) = Key(t)
      /\ LevelDB!Size(t) = Size(t) /\ LevelDB!Length(t) = Length(t)
      /\ \A found : LevelDB!Touch(t, found) <=> Touch(t, found)
      /\ \A status : LevelDB!Reject(t, status) <=> Reject(t, status)
      /\ \A status, n, found : LevelDB!Finish(t, status, n, found) <=> Finish(t, status, n, found)
      /\ \A kinds : LevelDB!Called(t, kinds) <=> stage[t] = "called" /\ call[t].kind \in kinds
      /\ LevelDB!GoTo(t, "put") <=> GoTo(t, "put")
  BY LevelDBCallers, Zenon DEF Called, At
<1>1. CASE LevelDB!Upsert(t)
  <2>1. \/ data' = data \cup KeysOf(t) /\ Touch(t, KeysOf(t))
        \/ mayFail /\ Reject(t, "error") /\ data' = data
    BY <1>0, <1>1, Zenon DEF LevelDB!Upsert, LevelDB!Write, LevelDB!Broken
  <2>2. call[t].kind = "upsert" \/ (call[t].kind = "update" /\ Key(t) \in data)
    BY <1>0, <1>1 DEF LevelDB!Upsert, PutInv
  <2>3. CASE call[t].kind = "update"
    <3>1. KeysOf(t) = {Key(t)}
      BY <2>3, CallCounted
    <3>2. data \cup KeysOf(t) = data
      BY <2>2, <2>3, <3>1
    <3> QED
      BY <2>1, <2>2, <2>3, <3>2, Outcomes
  <2> QED
    BY <2>1, <2>2, <2>3, Outcomes DEF Writes
<1>2. CASE LevelDB!UpdateGet(t)
  <2>1. /\ call[t].kind = "update" /\ data' = data
        /\ \/ Key(t) \in data /\ GoTo(t, "put") /\ UNCHANGED <<reply, data>>
           \/ Key(t) \notin data /\ Reject(t, "not_found")
           \/ mayFail /\ Reject(t, "error")
    BY <1>0, <1>2 DEF LevelDB!UpdateGet, LevelDB!Broken
  <2> QED
    BY <2>1, Outcomes
<1>3. CASE LevelDB!Remove(t)
  <2>1. call[t].kind = "remove"
    BY <1>0, <1>3 DEF LevelDB!Remove
  <2>2. \/ data' = data \ KeysOf(t) /\ Touch(t, KeysOf(t))
        \/ mayFail /\ Reject(t, "error") /\ data' = data
    BY <1>0, <1>3, Zenon DEF LevelDB!Remove, LevelDB!Write, LevelDB!Broken
  <2> QED
    BY <2>1, <2>2, Outcomes
<1>4. CASE LevelDB!Read(t)
  <2>1. /\ call[t].kind = "read" /\ data' = data
        /\ \/ Key(t) \in data /\ Touch(t, KeysOf(t))
           \/ Key(t) \notin data /\ Reject(t, "not_found")
           \/ mayFail /\ Reject(t, "error")
    BY <1>0, <1>4 DEF LevelDB!Read, LevelDB!Broken
  <2> QED
    BY <2>1, Outcomes
<1>5. CASE LevelDB!BatchUpsert(t)
  <2>1. call[t].kind \in Writes
    BY <1>0, <1>5 DEF LevelDB!BatchUpsert, Writes
  <2>2. \/ data' = data \cup KeysOf(t) /\ Touch(t, KeysOf(t))
        \/ mayFail /\ Finish(t, "error", Size(t), {}) /\ data' = data
    BY <1>0, <1>5, Zenon DEF LevelDB!BatchUpsert, LevelDB!Write
  <2> QED
    BY <2>1, <2>2, Outcomes
<1>6. CASE LevelDB!BatchRead(t)
  <2>1. call[t].kind = "batch_read" /\ data' = data
    BY <1>0, <1>6 DEF LevelDB!BatchRead
  <2>2. \E hits \in IF mayFail THEN SUBSET KeysOf(t) ELSE {KeysOf(t)} : Touch(t, hits \cap data)
    BY <1>0, <1>6, Zenon DEF LevelDB!BatchRead
  <2> QED
    BY <2>1, <2>2, HitsOutcome
<1>7. CASE LevelDB!Iterate(t)
  <2> DEFINE S == {n \in data : ~Before(n, Key(t))}
             F == FirstBytes(S, Length(t))
  <2>1. call[t].kind \in Ranges /\ data' = data
    BY <1>0, <1>7 DEF LevelDB!Iterate, Ranges
  <2>2. Touch(t, F)
    <3>1. /\ \A m, n : LevelDB!Before(m, n) <=> Before(m, n)
          /\ \A D, n : LevelDB!FirstBytes(D, n) = FirstBytes(D, n)
      BY LevelDBCallers
    <3> QED
      BY <1>0, <1>7, <3>1, Zenon DEF LevelDB!Iterate
  <2>3. F \in SUBSET data /\ Cardinality(F) \in 0 .. Length(t)
    <3>1. S \in SUBSET Keys /\ S \subseteq data /\ Length(t) \in Nat
      BY CallOf DEF CoreTypes, InCall
    <3> HIDE DEF S
    <3> QED
      BY <3>1, FirstCount
  <2>4. call[t].kind \in Loose
    BY <2>1 DEF Loose, UStores
  <2> HIDE DEF F
  <2> QED
    BY <2>1, <2>2, <2>3, <2>4, RangeOutcome
<1>8. CASE LevelDB!Return(t)
  BY <1>8, LevelDBCallers DEF Return, InCall
<1> QED
  BY <1>1, <1>2, <1>3, <1>4, <1>5, <1>6, <1>7, <1>8 DEF LevelDB!Progress

\* LevelDB does what the interface promises.
LEMMA LevelDBRefines ==
  ASSUME AdaptersInv, AdaptersInv', ShippedMixes, PutInv, OnLevelDB(LevelDB!Next)
  PROVE  Refines /\ PutInv'
<1>1. /\ engine = "leveldb" /\ UNCHANGED engine /\ LevelDB!Next
      /\ CoreTypes /\ CallInv /\ CallInv' /\ engine \notin Transactions
  BY DEF OnLevelDB, AdaptersInv, Transactions
<1>p. ASSUME UNCHANGED mayFail PROVE Plain
  BY <1>1, <1>p DEF Plain
<1>2. CASE LevelDB!Open \/ LevelDB!Flush \/ LevelDB!Close
  <2>1. /\ OpenDb \/ FlushDb \/ Closes
        /\ UNCHANGED <<mayFail, stage, call, data>>
    BY <1>1, <1>2, LevelDBCallers DEF LevelDB!Open, LevelDB!Flush, LevelDB!Close, Closes,
         OpenDb, FlushDb, CloseDb
  <2>2. Refines
    BY <1>p, <2>1, PlainAround, CallerAssumption
  <2>3. PutInv'
    BY <1>1, <2>1 DEF PutInv, Key
  <2> QED
    BY <2>2, <2>3
<1>3. ASSUME NEW t \in Threads, Invoke(t) \/ Return(t)
      PROVE  Refines /\ PutInv'
  <2>1. /\ UNCHANGED <<mayFail, data>> /\ stage'[t] # "put"
        /\ \A u \in Threads \ {t} : stage'[u] = stage[u] /\ call'[u] = call[u]
    BY <1>1, <1>3 DEF Invoke, Return, CoreTypes, store
  <2>2. Refines
    BY <1>3, <1>p, <2>1, PlainAround
  <2>3. PutInv'
    BY <1>1, <2>1 DEF PutInv, Key
  <2> QED
    BY <2>2, <2>3
<1>4. ASSUME NEW t \in Threads, LevelDB!Progress(t), Works(t)
      PROVE  Refines /\ PutInv'
  <2>1. InCall(t) /\ UNCHANGED <<mayFail, call>>
    BY <1>4 DEF Works, InCall, store
  <2>2. \/ Outcome(t, data, data')
        \/ /\ GoTo(t, "put") /\ UNCHANGED <<reply, data>>
           /\ Key(t) \in data /\ call[t].kind = "update"
    BY <1>1, <1>4, <2>1, LevelDBCalls
  <2>3. CASE GoTo(t, "put") /\ UNCHANGED <<reply, data>>
               /\ Key(t) \in data /\ call[t].kind = "update"
    <3>1. Refines
      BY <1>p, <1>4, <2>1, <2>3, PlainGoesOn DEF Between
    <3>2. PutInv'
      BY <1>1, <2>1, <2>3 DEF GoTo, CoreTypes, PutInv, Key
    <3> QED
      BY <3>1, <3>2
  <2>4. CASE Outcome(t, data, data')
    <3>1. Refines
      BY <1>p, <1>4, <2>1, <2>4, PlainOutcome
    <3>2. stage' = [stage EXCEPT ![t] = "done"]
      BY <2>4, Zenon DEF Outcome, Exact, Failed, Loosely, Misses, Touch, Reject, Finish
    <3>3. data \subseteq data' \/ call[t].kind = "remove"
      BY <2>4 DEF Outcome, Exact, Failed, Loosely, Effect
    <3>4. ASSUME NEW u \in Threads, stage'[u] = "put"
          PROVE  call'[u].kind = "update" /\ Key(u)' \in data'
      <4>1. u # t /\ stage[u] = "put"
        BY <1>1, <3>2, <3>4 DEF CoreTypes
      <4>2. call[u].kind = "update" /\ Key(u) \in data
        BY <1>1, <4>1 DEF PutInv
      <4>3. call[t].kind # "remove"
        BY <1>1, <2>1, <4>1, <4>2, MixOf DEF InCall
      <4> QED
        BY <2>1, <3>3, <4>2, <4>3 DEF Key
    <3> QED
      BY <3>1, <3>4 DEF PutInv
  <2> QED
    BY <2>2, <2>3, <2>4
<1> QED
  BY <1>1, <1>2, <1>3, <1>4, LevelDBCallers, LevelDBWorks DEF LevelDB!Next

-----------------------------------------------------------------------------
(***************************************************************************)
(* LMDB.                                                                   *)
(***************************************************************************)

\* A call to LMDB takes effect while its thread is the writer, or at once.
LEMMA LMDBCalls ==
  ASSUME engine = "lmdb", CoreTypes, CallInv, NEW t \in Threads, InCall(t), LMDB!Progress(t)
  PROVE  Outcome(t, data, data') \/ (GoTo(t, "begun") /\ UNCHANGED <<reply, data>>)
<1>0. /\ LMDB!KeysOf(t) = KeysOf(t) /\ LMDB!Key(t) = Key(t)
      /\ LMDB!Size(t) = Size(t) /\ LMDB!Length(t) = Length(t)
      /\ \A found : LMDB!Touch(t, found) <=> Touch(t, found)
      /\ \A status : LMDB!Reject(t, status) <=> Reject(t, status)
      /\ \A status : LMDB!Broken(t, status) <=> Broken(t, status)
      /\ \A status, n, found : LMDB!Finish(t, status, n, found) <=> Finish(t, status, n, found)
      /\ \A kinds : LMDB!Called(t, kinds) <=> stage[t] = "called" /\ call[t].kind \in kinds
      /\ \A place, kinds : LMDB!At(t, place, kinds) <=> stage[t] = place /\ call[t].kind \in kinds
      /\ LMDB!GoTo(t, "begun") <=> GoTo(t, "begun")
  BY LMDBCallers, Zenon DEF Called, At
<1>f. ASSUME NEW status \in {"error", "not_found"}, Broken(t, status) PROVE Outcome(t, data, data')
  <2>1. mayFail /\ Reject(t, status) /\ data' = data
    BY <1>f, Zenon DEF Broken
  <2> QED
    BY <1>f, <2>1, Outcomes
<1>1. CASE LMDB!Begin(t)
  BY <1>0, <1>1, <1>f DEF LMDB!Begin
<1>2. CASE LMDB!Upsert(t) \/ LMDB!BatchUpsert(t)
  <2>1. call[t].kind \in Writes
    BY <1>0, <1>2 DEF LMDB!Upsert, LMDB!BatchUpsert, Writes
  <2>2. \/ data' = data \cup KeysOf(t) /\ Touch(t, KeysOf(t))
        \/ Broken(t, "error")
        \/ mayFail /\ Finish(t, "error", Size(t), {}) /\ data' = data
    BY <1>0, <1>2, Zenon DEF LMDB!Upsert, LMDB!BatchUpsert
  <2> QED
    BY <1>f, <2>1, <2>2, Outcomes
<1>3. CASE LMDB!Update(t)
  <2>1. call[t].kind = "update" /\ data' = data
    BY <1>0, <1>3 DEF LMDB!Update
  <2>2. Reject(t, "error") \/ Reject(t, "not_found")
    BY <1>0, <1>3 DEF LMDB!Update
  <2>3. call[t].kind \in Loose \ Ranges /\ Effect(t, data, data')
    BY <2>1 DEF Loose, UStores, Ranges, Effect, Lookups
  <2>4. {"error", "not_found"} \subseteq Statuses
    BY DEF Statuses
  <2> QED
    BY <2>2, <2>3, <2>4, LooseOutcome
<1>4. CASE LMDB!Remove(t)
  <2>1. call[t].kind = "remove"
    BY <1>0, <1>4 DEF LMDB!Remove
  <2>2. KeysOf(t) = {Key(t)}
    BY <2>1, CallCounted
  <2>3. \/ data' = data \ KeysOf(t) /\ Touch(t, KeysOf(t))
        \/ Key(t) \notin data /\ Reject(t, "not_found") /\ data' = data
        \/ \E status \in {"error", "not_found"} : Broken(t, status)
    BY <1>0, <1>4, Zenon DEF LMDB!Remove
  <2>4. Key(t) \notin data => data \ KeysOf(t) = data
    BY <2>2
  <2> QED
    BY <1>f, <2>1, <2>3, <2>4, Outcomes
<1>5. CASE LMDB!Read(t)
  <2>1. call[t].kind = "read" /\ data' = data
    BY <1>0, <1>5 DEF LMDB!Read
  <2>2. \/ Key(t) \in data /\ Touch(t, KeysOf(t))
        \/ Key(t) \notin data /\ Reject(t, "not_found")
        \/ mayFail /\ \E status \in {"error", "not_found"} : Reject(t, status)
    BY <1>0, <1>5, Zenon DEF LMDB!Read
  <2> QED
    BY <2>1, <2>2, Outcomes
<1>6. CASE LMDB!BatchRead(t)
  <2>1. call[t].kind = "batch_read" /\ data' = data
    BY <1>0, <1>6 DEF LMDB!BatchRead
  <2>2. \/ \E hits \in IF mayFail THEN SUBSET KeysOf(t) ELSE {KeysOf(t)} : Touch(t, hits \cap data)
        \/ mayFail /\ Reject(t, "error")
    BY <1>0, <1>6, Zenon DEF LMDB!BatchRead
  <2> QED
    BY <2>1, <2>2, HitsOutcome, Outcomes
<1>7. CASE LMDB!Iterate(t)
  <2> DEFINE S == {n \in data : ~Before(n, Key(t))}
             F == FirstBytes(S, Length(t))
  <2>1. call[t].kind \in Ranges
    BY <1>0, <1>7 DEF LMDB!Iterate, Ranges
  <2>2. \/ data' = data /\ Touch(t, F)
        \/ data' = data /\ Reject(t, "not_found")
        \/ \E status \in {"error", "not_found"} : Broken(t, status)
    <3>1. /\ \A m, n : LMDB!Before(m, n) <=> Before(m, n)
          /\ \A D, n : LMDB!FirstBytes(D, n) = FirstBytes(D, n)
      BY LMDBCallers
    <3> QED
      BY <1>0, <1>7, <3>1, Zenon DEF LMDB!Iterate
  <2>3. F \in SUBSET data /\ Cardinality(F) \in 0 .. Length(t)
    <3>1. S \in SUBSET Keys /\ S \subseteq data /\ Length(t) \in Nat
      BY CallOf DEF CoreTypes, InCall
    <3> HIDE DEF S
    <3> QED
      BY <3>1, FirstCount
  <2>4. call[t].kind \in Loose /\ "not_found" \in Statuses
    BY <2>1 DEF Loose, UStores, Statuses
  <2> HIDE DEF F
  <2> QED
    BY <1>f, <2>1, <2>2, <2>3, <2>4, RangeOutcome
<1>8. CASE LMDB!Return(t)
  BY <1>8, LMDBCallers DEF Return, InCall
<1> QED
  BY <1>1, <1>2, <1>3, <1>4, <1>5, <1>6, <1>7, <1>8 DEF LMDB!Progress

\* LMDB does what the interface promises.
LEMMA LMDBRefines ==
  ASSUME AdaptersInv, AdaptersInv', OnLMDB(LMDB!Next)
  PROVE  Refines
<1>1. /\ engine = "lmdb" /\ UNCHANGED engine /\ LMDB!Next
      /\ CoreTypes /\ CallInv /\ engine \notin Transactions
  BY DEF OnLMDB, AdaptersInv, Transactions
<1>p. ASSUME UNCHANGED mayFail PROVE Plain
  BY <1>1, <1>p DEF Plain
<1>2. CASE LMDB!Open \/ LMDB!Flush \/ LMDB!Close
  <2>1. (OpenDb \/ FlushDb \/ Closes) /\ UNCHANGED <<mayFail, data>>
    BY <1>1, <1>2, LMDBCallers DEF LMDB!Open, LMDB!Flush, LMDB!Close, Closes,
         OpenDb, FlushDb, CloseDb
  <2> QED
    BY <1>p, <2>1, PlainAround, CallerAssumption
<1>3. ASSUME NEW t \in Threads, Invoke(t) \/ Return(t) PROVE Refines
  <2>1. UNCHANGED <<mayFail, data>>
    BY <1>3, Zenon DEF Invoke, Return, store
  <2> QED
    BY <1>3, <1>p, <2>1, PlainAround
<1>4. ASSUME NEW t \in Threads, LMDB!Progress(t), Works(t) PROVE Refines
  <2>1. InCall(t) /\ UNCHANGED mayFail
    BY <1>4 DEF Works, InCall, store
  <2>2. Outcome(t, data, data') \/ (GoTo(t, "begun") /\ UNCHANGED <<reply, data>>)
    BY <1>1, <1>4, <2>1, LMDBCalls
  <2> QED
    BY <1>p, <1>4, <2>1, <2>2, PlainGoesOn, PlainOutcome DEF Between
<1> QED
  BY <1>1, <1>2, <1>3, <1>4, LMDBCallers, LMDBWorks DEF LMDB!Next

-----------------------------------------------------------------------------
(***************************************************************************)
(* WiredTiger.                                                             *)
(***************************************************************************)

\* A call to WiredTiger takes effect in its last step; a load that is refused
\* finds the table not empty, or the engine fails.
LEMMA WiredTigerCalls ==
  ASSUME engine = "wiredtiger", CoreTypes, CallInv, LoadInv, NEW t \in Threads, InCall(t),
         WiredTiger!Progress(t)
  PROVE  \/ Outcome(t, data, data')
         \/ /\ \E place \in {"session", "cursor", "insert"} : GoTo(t, place)
            /\ UNCHANGED <<reply, data>> /\ call[t].kind = "bulk_load"
<1>0. /\ WiredTiger!KeysOf(t) = KeysOf(t) /\ WiredTiger!Key(t) = Key(t)
      /\ WiredTiger!Size(t) = Size(t) /\ WiredTiger!Length(t) = Length(t)
      /\ \A found : WiredTiger!Touch(t, found) <=> Touch(t, found)
      /\ \A status : WiredTiger!Reject(t, status) <=> Reject(t, status)
      /\ \A status : WiredTiger!Broken(t, status) <=> Broken(t, status)
      /\ \A status, n, found :
           WiredTiger!Finish(t, status, n, found) <=> Finish(t, status, n, found)
      /\ \A kinds : WiredTiger!Called(t, kinds) <=> stage[t] = "called" /\ call[t].kind \in kinds
      /\ \A place : WiredTiger!GoTo(t, place) <=> GoTo(t, place)
  BY WiredTigerCallers, Zenon DEF Called, At
<1>f. ASSUME NEW status \in {"error", "not_found"}, Broken(t, status) PROVE Outcome(t, data, data')
  <2>1. mayFail /\ Reject(t, status) /\ data' = data
    BY <1>f, Zenon DEF Broken
  <2> QED
    BY <1>f, <2>1, Outcomes
<1>l. /\ stage[t] \in {"session", "cursor", "insert"} => call[t].kind = "bulk_load"
      /\ Loose = Ranges \cup {"update", "batch_upsert", "bulk_load"}
  BY DEF LoadInv, Loose, UStores
<1>1. CASE WiredTiger!Put(t)
  <2>1. call[t].kind \in {"upsert", "update"}
    BY <1>0, <1>1 DEF WiredTiger!Put
  <2>2. (data' = data \cup KeysOf(t) /\ Touch(t, KeysOf(t))) \/ Broken(t, "error")
    BY <1>0, <1>1, Zenon DEF WiredTiger!Put
  <2>3. CASE call[t].kind = "update" /\ data' = data \cup KeysOf(t) /\ Touch(t, KeysOf(t))
    <3>1. call[t].kind \in Loose \ Ranges /\ KeysOf(t) \in SUBSET (KeysOf(t) \cap data')
      BY <1>l, <2>3 DEF Ranges
    <3>2. \E found \in SUBSET (KeysOf(t) \cap data') : Touch(t, found)
      BY <2>3, <3>1
    <3> QED
      BY <2>3, <3>1, <3>2, LooseOutcome
  <2> QED
    BY <1>f, <2>1, <2>2, <2>3, Outcomes DEF Writes
<1>2. CASE WiredTiger!Remove(t)
  <2>1. call[t].kind = "remove"
    BY <1>0, <1>2 DEF WiredTiger!Remove
  <2>2. (data' = data \ KeysOf(t) /\ Touch(t, KeysOf(t))) \/ Broken(t, "error")
    BY <1>0, <1>2, Zenon DEF WiredTiger!Remove
  <2> QED
    BY <1>f, <2>1, <2>2, Outcomes
<1>3. CASE WiredTiger!Read(t)
  <2>1. call[t].kind = "read" /\ data' = data
    BY <1>0, <1>3 DEF WiredTiger!Read
  <2>2. \/ Key(t) \in data /\ Touch(t, KeysOf(t))
        \/ Key(t) \notin data /\ Reject(t, "not_found")
        \/ mayFail /\ \E status \in {"error", "not_found"} : Reject(t, status)
    BY <1>0, <1>3, Zenon DEF WiredTiger!Read
  <2> QED
    BY <2>1, <2>2, Outcomes
<1>4. CASE WiredTiger!BatchUpsert(t)
  <2>1. call[t].kind = "batch_upsert"
    BY <1>0, <1>4 DEF WiredTiger!BatchUpsert
  <2>2. \/ \E part \in IF mayFail THEN SUBSET KeysOf(t) ELSE {KeysOf(t)} :
             data' = data \cup part /\ Touch(t, part)
        \/ Broken(t, "error")
    BY <1>0, <1>4, Zenon DEF WiredTiger!BatchUpsert
  <2>3. ASSUME NEW part \in IF mayFail THEN SUBSET KeysOf(t) ELSE {KeysOf(t)},
               data' = data \cup part, Touch(t, part)
        PROVE  Outcome(t, data, data')
    <3>1. CASE mayFail
      <4>1. part \in SUBSET KeysOf(t)
        BY <2>3, <3>1, Zenon
      <4>2. \E found \in SUBSET (KeysOf(t) \cap data') : Touch(t, found)
        BY <2>3, <4>1
      <4>3. call[t].kind \in Loose \ Ranges /\ call[t].kind \in Writes
        BY <1>l, <2>1 DEF Ranges, Writes
      <4>4. \E p \in SUBSET KeysOf(t) : data' = data \cup p
        BY <2>3, <4>1
      <4> QED
        BY <3>1, <4>2, <4>3, <4>4, LooseOutcome
    <3>2. CASE ~mayFail
      <4>1. part = KeysOf(t)
        BY <2>3, <3>2, Zenon
      <4> QED
        BY <2>1, <2>3, <4>1, Outcomes DEF Writes
    <3> QED
      BY <3>1, <3>2
  <2> QED
    BY <1>f, <2>2, <2>3
<1>5. CASE WiredTiger!BatchRead(t)
  <2>1. call[t].kind = "batch_read" /\ data' = data
    BY <1>0, <1>5 DEF WiredTiger!BatchRead
  <2>2. \/ \E hits \in IF mayFail THEN SUBSET KeysOf(t) ELSE {KeysOf(t)} : Touch(t, hits \cap data)
        \/ mayFail /\ Reject(t, "error")
    BY <1>0, <1>5, Zenon DEF WiredTiger!BatchRead
  <2> QED
    BY <2>1, <2>2, HitsOutcome, Outcomes
<1>6. CASE WiredTiger!TestCursor(t) \/ WiredTiger!StartSession(t)
  BY <1>0, <1>l, <1>6 DEF WiredTiger!TestCursor, WiredTiger!StartSession
<1>7. CASE WiredTiger!OpenCursor(t)
  <2>1. call[t].kind = "bulk_load" /\ data' = data
    BY <1>l, <1>7 DEF WiredTiger!OpenCursor
  <2>2. \/ GoTo(t, "insert") /\ UNCHANGED <<reply, data>>
        \/ (data # {} \/ mayFail) /\ Reject(t, "error")
    BY <1>0, <1>7, Zenon DEF WiredTiger!OpenCursor
  <2>3. CASE (data # {} \/ mayFail) /\ Reject(t, "error")
    <3>1. data' = data \cup {} /\ {} \in SUBSET KeysOf(t) /\ "error" \in Statuses
      BY <2>1 DEF Statuses
    <3>2. call[t].kind \in Loose \ Ranges /\ call[t].kind \in Writes
      BY <1>l, <2>1 DEF Ranges, Writes
    <3>3. mayFail \/ (call[t].kind = "bulk_load" /\ data # {})
      BY <2>1, <2>3, Zenon
    <3>4. \E part \in SUBSET KeysOf(t) : data' = data \cup part
      BY <3>1, Zenon
    <3> QED
      BY <2>3, <3>1, <3>2, <3>3, <3>4, LooseOutcome
  <2> QED
    BY <2>1, <2>2, <2>3
<1>8. CASE WiredTiger!Insert(t)
  <2> DEFINE fit == {k \in KeysOf(t) : \A n \in data : n < k}
  <2>1. call[t].kind = "bulk_load"
    BY <1>l, <1>8 DEF WiredTiger!Insert
  <2>2. /\ \E part \in IF mayFail THEN SUBSET fit ELSE {fit} : data' = data \cup part
        /\ Finish(t, "ok", Size(t), KeysOf(t) \cap data')
    BY <1>0, <1>8, Zenon DEF WiredTiger!Insert
  <2>3. PICK part \in IF mayFail THEN SUBSET fit ELSE {fit} : data' = data \cup part
    BY <2>2, Zenon
  <2>4. call[t].kind \in Loose \ Ranges /\ call[t].kind \in Writes
    BY <1>l, <2>1 DEF Ranges, Writes
  <2>5. \E found \in SUBSET data' : Finish(t, "ok", Size(t), found)
    <3>1. KeysOf(t) \cap data' \in SUBSET data'
      OBVIOUS
    <3> QED
      BY <2>2, <3>1, Zenon
  <2>6. fit \subseteq KeysOf(t) /\ (data = {} => fit = KeysOf(t))
    OBVIOUS
  <2> HIDE DEF fit
  <2>7. part \in SUBSET KeysOf(t)
    <3>1. CASE mayFail
      <4>1. part \in SUBSET fit
        BY <2>3, <3>1, Zenon
      <4> QED
        BY <2>6, <4>1
    <3>2. CASE ~mayFail
      <4>1. part = fit
        BY <2>3, <3>2, Zenon
      <4> QED
        BY <2>6, <4>1
    <3> QED
      BY <3>1, <3>2
  <2>8. CASE mayFail \/ data # {}
    <3>1. mayFail \/ (call[t].kind = "bulk_load" /\ data # {})
      BY <2>1, <2>8, Zenon
    <3>2. \E p \in SUBSET KeysOf(t) : data' = data \cup p
      BY <2>3, <2>7, Zenon
    <3> QED
      BY <2>4, <2>5, <3>1, <3>2, LooseOutcome
  <2>9. CASE ~mayFail /\ data = {}
    <3>1. part = fit
      BY <2>3, <2>9, Zenon
    <3>2. data' = data \cup KeysOf(t)
      BY <2>3, <2>6, <2>9, <3>1
    <3>3. Effect(t, data, data')
      BY <2>4, <3>2 DEF Effect
    <3> QED
      BY <2>4, <2>5, <3>3, LooseOutcome
  <2> QED
    BY <2>8, <2>9, Zenon
<1>9. CASE WiredTiger!Iterate(t)
  <2> DEFINE S == {k \in data : k > Key(t)}
             F == FirstNumbers(S, Length(t))
  <2>1. call[t].kind \in Ranges /\ data' = data
    BY <1>0, <1>9 DEF WiredTiger!Iterate, Ranges
  <2>2. Touch(t, F) \/ Reject(t, "error")
    <3>1. \A D, n : WiredTiger!FirstNumbers(D, n) = FirstNumbers(D, n)
      BY WiredTigerCallers
    <3> QED
      BY <1>0, <1>9, <3>1, Zenon DEF WiredTiger!Iterate
  <2>3. F \in SUBSET data /\ Cardinality(F) \in 0 .. Length(t)
    <3>1. S \in SUBSET Keys /\ S \subseteq data /\ Length(t) \in Nat
      BY CallOf DEF CoreTypes, InCall
    <3> HIDE DEF S
    <3> QED
      BY <3>1, FirstCount
  <2>4. call[t].kind \in Loose /\ "error" \in Statuses
    BY <1>l, <2>1 DEF Statuses
  <2> HIDE DEF F
  <2> QED
    BY <2>1, <2>2, <2>3, <2>4, RangeOutcome
<1>10. CASE WiredTiger!Return(t)
  BY <1>10, WiredTigerCallers DEF Return, InCall
<1> QED
  BY <1>1, <1>2, <1>3, <1>4, <1>5, <1>6, <1>7, <1>8, <1>9, <1>10 DEF WiredTiger!Progress

\* WiredTiger does what the interface promises.
LEMMA WiredTigerRefines ==
  ASSUME AdaptersInv, AdaptersInv', LoadInv, OnWiredTiger(WiredTiger!Next)
  PROVE  Refines /\ LoadInv'
<1>1. /\ engine = "wiredtiger" /\ UNCHANGED engine /\ WiredTiger!Next
      /\ CoreTypes /\ CallInv /\ BulkInv /\ engine \notin Transactions
  BY DEF OnWiredTiger, AdaptersInv, Transactions
<1>p. ASSUME UNCHANGED mayFail PROVE Plain
  BY <1>1, <1>p DEF Plain
<1>2. CASE WiredTiger!Open \/ WiredTiger!Flush \/ WiredTiger!Close
  <2>1. (OpenDb \/ FlushDb \/ Closes) /\ UNCHANGED <<mayFail, data, stage, call>>
    BY <1>1, <1>2, WiredTigerCallers DEF WiredTiger!Open, WiredTiger!Flush, WiredTiger!Close,
         Closes, OpenDb, FlushDb, CloseDb
  <2>2. Refines
    BY <1>p, <2>1, PlainAround, CallerAssumption
  <2> QED
    BY <1>1, <2>1, <2>2 DEF LoadInv
<1>3. ASSUME NEW t \in Threads, Invoke(t) \/ Return(t) PROVE Refines /\ LoadInv'
  <2>1. UNCHANGED <<mayFail, data>>
    BY <1>3, Zenon DEF Invoke, Return, store
  <2>2. Refines
    BY <1>3, <1>p, <2>1, PlainAround
  <2>3. /\ stage'[t] \in {"called", "idle"}
        /\ \A u \in Threads \ {t} : stage'[u] = stage[u] /\ call'[u] = call[u]
    BY <1>1, <1>3 DEF Invoke, Return, CoreTypes
  <2> QED
    BY <1>1, <2>2, <2>3 DEF LoadInv
<1>4. ASSUME NEW t \in Threads, WiredTiger!Progress(t), Works(t) PROVE Refines /\ LoadInv'
  <2>1. InCall(t) /\ UNCHANGED <<mayFail, call>>
    BY <1>4 DEF Works, InCall, store
  <2>2. \/ Outcome(t, data, data')
        \/ /\ \E place \in {"session", "cursor", "insert"} : GoTo(t, place)
           /\ UNCHANGED <<reply, data>> /\ call[t].kind = "bulk_load"
    BY <1>1, <1>4, <2>1, WiredTigerCalls
  <2>3. CASE Outcome(t, data, data')
    <3>1. Refines
      BY <1>p, <1>4, <2>1, <2>3, PlainOutcome
    <3>2. stage' = [stage EXCEPT ![t] = "done"]
      BY <2>3, Zenon DEF Outcome, Exact, Failed, Loosely, Misses, Touch, Reject, Finish
    <3> QED
      BY <1>1, <2>1, <3>1, <3>2 DEF LoadInv, CoreTypes
  <2>4. ASSUME NEW place \in {"session", "cursor", "insert"}, GoTo(t, place),
               UNCHANGED <<reply, data>>, call[t].kind = "bulk_load"
        PROVE  Refines /\ LoadInv'
    <3>1. Refines
      BY <1>p, <1>4, <2>1, <2>4, PlainGoesOn DEF Between
    <3> QED
      BY <1>1, <2>1, <2>4, <3>1 DEF LoadInv, CoreTypes, GoTo
  <2> QED
    BY <2>2, <2>3, <2>4
<1> QED
  BY <1>1, <1>2, <1>3, <1>4, WiredTigerCallers, WiredTigerWorks DEF WiredTiger!Next

-----------------------------------------------------------------------------
(***************************************************************************)
(* MongoDB.                                                                *)
(***************************************************************************)

\* All keys of a batch are there if as many are there as it has.
LEMMA AllThere ==
  ASSUME CoreTypes, CallInv, NEW t \in Threads, InCall(t), call[t].kind \notin Ranges
  PROVE  Cardinality(KeysOf(t) \cap data) = Size(t) <=> KeysOf(t) \subseteq data
<1>1. /\ KeysOf(t) \subseteq Keys /\ Cardinality(KeysOf(t)) = Size(t)
      /\ IsFiniteSet(KeysOf(t))
  BY CallOf, CallCounted, KeysFinite DEF InCall
<1> DEFINE S == KeysOf(t) \cap data
<1>2. S \in SUBSET KeysOf(t) /\ (S = KeysOf(t) <=> KeysOf(t) \subseteq data)
  OBVIOUS
<1> HIDE DEF S
<1>3. Cardinality(S) = Cardinality(KeysOf(t)) => S = KeysOf(t)
  BY <1>1, <1>2, FS_Subset
<1> QED
  BY <1>1, <1>2, <1>3 DEF S

\* A call to MongoDB takes effect when its thread has a client; one that throws
\* may have loaded a part.
LEMMA MongoDBCalls ==
  ASSUME engine = "mongodb", CoreTypes, CallInv, LookupInv, NEW t \in Threads, InCall(t),
         MongoDB!Progress(t)
  PROVE  \/ Outcome(t, data, data')
         \/ GoTo(t, "begun") /\ UNCHANGED <<reply, data>>
         \/ \E part \in SUBSET KeysOf(t) :
              /\ EndProgram(data \cup part)
              /\ part = {} \/ call[t].kind \in {"upsert", "batch_upsert", "bulk_load"}
<1>0. /\ MongoDB!KeysOf(t) = KeysOf(t) /\ MongoDB!Key(t) = Key(t)
      /\ MongoDB!Size(t) = Size(t) /\ MongoDB!Length(t) = Length(t)
      /\ \A S : MongoDB!Cardinality(S) = Cardinality(S)
      /\ \A D, n : MongoDB!FirstBytes(D, n) = FirstBytes(D, n)
      /\ \A m, n : MongoDB!Before(m, n) <=> Before(m, n)
      /\ \A found : MongoDB!Touch(t, found) <=> Touch(t, found)
      /\ \A status : MongoDB!Reject(t, status) <=> Reject(t, status)
      /\ \A status, n, found : MongoDB!Finish(t, status, n, found) <=> Finish(t, status, n, found)
      /\ \A place, kinds : MongoDB!At(t, place, kinds)
                          <=> stage[t] = place /\ call[t].kind \in kinds
      /\ MongoDB!GoTo(t, "begun") <=> GoTo(t, "begun")
      /\ \A d : MongoDB!EndProgram(d) <=> EndProgram(d)
  BY MongoDBCallers, Zenon DEF At
<1>l. /\ Loose = Ranges \cup {"upsert", "update", "batch_upsert", "bulk_load"}
      /\ {"error", "not_found", "ok"} \subseteq Statuses
      /\ Length(t) \in Nat /\ data \subseteq Keys
  BY CallOf DEF Loose, UStores, Statuses, CoreTypes, InCall
<1>1. CASE MongoDB!Acquire(t)
  BY <1>0, <1>1, Zenon DEF MongoDB!Acquire
<1>2. CASE MongoDB!Throw(t)
  <2>1. \E part \in IF call[t].kind \in {"batch_upsert", "bulk_load"}
                    THEN SUBSET KeysOf(t) ELSE {{}} :
          EndProgram(data \cup part)
    BY <1>0, <1>2, Zenon DEF MongoDB!Throw
  <2> QED
    BY <2>1
<1>3. CASE MongoDB!Upsert(t) \/ MongoDB!BatchUpsert(t)
  <2>1. call[t].kind \in {"upsert", "update", "batch_upsert"}
    BY <1>0, <1>3 DEF MongoDB!Upsert, MongoDB!BatchUpsert
  <2>2. /\ data' = data \cup KeysOf(t)
        /\ Touch(t, KeysOf(t)) \/ Reject(t, "error")
    BY <1>0, <1>3, Zenon DEF MongoDB!Upsert, MongoDB!BatchUpsert
  <2>3. \/ \E found \in SUBSET (KeysOf(t) \cap data') : Touch(t, found)
        \/ \E status \in Statuses : Reject(t, status)
    BY <1>l, <2>2
  <2>4. call[t].kind \in Loose \ Ranges
    BY <1>l, <2>1 DEF Ranges
  <2>5. Effect(t, data, data') \/ (call[t].kind = "update" /\ data' = data \cup KeysOf(t))
    BY <2>1, <2>2 DEF Effect, Writes
  <2> QED
    BY <2>3, <2>4, <2>5, LooseOutcome
<1>4. CASE MongoDB!BulkLoad(t)
  <2>1. call[t].kind \in Writes
    BY <1>0, <1>4 DEF MongoDB!BulkLoad, Writes
  <2>2. data' = data \cup KeysOf(t) /\ Touch(t, KeysOf(t))
    BY <1>0, <1>4, Zenon DEF MongoDB!BulkLoad
  <2> QED
    BY <2>1, <2>2, Outcomes
<1>5. CASE MongoDB!Remove(t)
  <2>1. call[t].kind = "remove"
    BY <1>0, <1>5 DEF MongoDB!Remove
  <2>2. /\ data' = data \ KeysOf(t)
        /\ Touch(t, KeysOf(t)) \/ (Key(t) \notin data /\ Reject(t, "not_found"))
    BY <1>0, <1>5, Zenon DEF MongoDB!Remove
  <2> QED
    BY <2>1, <2>2, Outcomes
<1>6. CASE MongoDB!Read(t)
  <2>1. call[t].kind = "read" /\ data' = data
    BY <1>0, <1>6 DEF MongoDB!Read
  <2>2. \/ Key(t) \in data /\ Touch(t, KeysOf(t))
        \/ Key(t) \notin data /\ Reject(t, "not_found")
    BY <1>0, <1>6, Zenon DEF MongoDB!Read
  <2> QED
    BY <2>1, <2>2, Outcomes
<1>7. CASE MongoDB!BatchRead(t)
  <2>1. call[t].kind = "batch_read" /\ stage[t] = "begun" /\ data' = data
    BY <1>0, <1>7 DEF MongoDB!BatchRead
  <2>2. batch_keys[t] = KeysOf(t)
    BY <2>1 DEF LookupInv
  <2>3. IF Cardinality(KeysOf(t) \cap data) = Size(t)
          THEN Touch(t, KeysOf(t)) ELSE Reject(t, "error")
    BY <1>0, <1>7, <2>2 DEF MongoDB!BatchRead
  <2>4. CASE KeysOf(t) \subseteq data
    <3>1. Cardinality(KeysOf(t) \cap data) = Size(t) /\ KeysOf(t) \cap data = KeysOf(t)
      BY <2>1, <2>4, AllThere DEF Ranges
    <3> QED
      BY <2>1, <2>3, <3>1, Outcomes
  <2>5. CASE ~(KeysOf(t) \subseteq data)
    <3>1. Reject(t, "error")
      BY <2>1, <2>3, <2>5, AllThere DEF Ranges
    <3>2. Exact(t, data, data')
      BY <2>1, <2>5, <3>1 DEF Exact, Effect, Lookups, Misses
    <3> QED
      BY <3>2 DEF Outcome
  <2> QED
    BY <2>4, <2>5
<1>8. CASE MongoDB!RangeSelect(t)
  <2> DEFINE S == {n \in data : Before(Key(t), n)}
             F == FirstBytes(S, Length(t))
  <2>1. call[t].kind \in Ranges /\ data' = data
    BY <1>0, <1>8 DEF MongoDB!RangeSelect, Ranges
  <2>2. Touch(t, F) \/ Reject(t, "error")
    BY <1>0, <1>8, Zenon DEF MongoDB!RangeSelect
  <2>3. F \in SUBSET data /\ Cardinality(F) \in 0 .. Length(t)
    <3>1. S \in SUBSET Keys /\ S \subseteq data
      BY <1>l
    <3> HIDE DEF S
    <3> QED
      BY <1>l, <3>1, FirstCount
  <2>4. call[t].kind \in Loose
    BY <1>l, <2>1
  <2> HIDE DEF F
  <2> QED
    BY <1>l, <2>1, <2>2, <2>3, <2>4, RangeOutcome
<1>9. CASE MongoDB!Scan(t)
  <2> DEFINE F == FirstBytes(data, Length(t))
             n == IF Cardinality(data) > Length(t) THEN Length(t) + 1 ELSE Cardinality(data)
  <2>1. call[t].kind \in Ranges /\ data' = data
    BY <1>0, <1>9 DEF MongoDB!Scan, Ranges
  <2>2. Finish(t, "ok", n, F)
    BY <1>0, <1>9, Zenon DEF MongoDB!Scan
  <2>3. F \in SUBSET data'
    BY <1>l, <2>1, FirstCount
  <2>4. n \in 0 .. Length(t) + 1
    <3>1. Cardinality(data) \in Nat
      BY <1>l, KeysFinite
    <3> QED
      BY <1>l, <3>1
  <2> HIDE DEF F, n
  <2>5. \E status \in Statuses, m \in 0 .. Length(t) + 1, found \in SUBSET data' :
          Finish(t, status, m, found)
    BY <1>l, <2>2, <2>3, <2>4
  <2>6. call[t].kind \in Loose /\ Effect(t, data, data')
    BY <1>l, <2>1 DEF Effect
  <2> QED
    BY <2>5, <2>6, Zenon DEF Outcome, Loosely
<1>10. CASE MongoDB!Return(t)
  BY <1>10, MongoDBCallers DEF Return, InCall
<1> QED
  BY <1>1, <1>2, <1>3, <1>4, <1>5, <1>6, <1>7, <1>8, <1>9, <1>10 DEF MongoDB!Progress

\* The keys of a batch are taken down when its thread gets its client, and are
\* gone when it has the answer, whatever becomes of the batch.
LEMMA MongoDBLookups ==
  ASSUME AdaptersInv, LookupInv, OnMongoDB(MongoDB!Next)
  PROVE  LookupInv'
<1>1. /\ engine = "mongodb" /\ UNCHANGED engine /\ MongoDB!Next
      /\ CoreTypes /\ CallInv /\ batch_keys \in [Threads -> SUBSET Keys]
      /\ stage \in [Threads -> Places]
      /\ \A t \in Threads :
           batch_keys[t] = IF stage[t] = "begun" /\ call[t].kind = "batch_read"
                             THEN KeysOf(t) ELSE {}
  BY DEF OnMongoDB, AdaptersInv, PoolInv, LookupInv, CoreTypes
<1>2. ASSUME MongoDB!Open \/ MongoDB!Flush \/ MongoDB!Close PROVE LookupInv'
  <2>1. /\ UNCHANGED <<stage, call>>
        /\ batch_keys' = batch_keys \/ (handle = "flushed" /\ batch_keys' = [t \in Threads |-> {}])
    BY <1>2, MongoDBCallers DEF MongoDB!Open, MongoDB!Flush, MongoDB!Close, MongoDB!own,
         OpenDb, FlushDb, CloseDb
  <2>2. handle = "flushed" => \A t \in Threads : stage[t] # "begun"
    BY <1>1 DEF CallInv
  <2> QED
    BY <1>1, <2>1, <2>2 DEF LookupInv, KeysOf
<1>3. ASSUME NEW t \in Threads, Invoke(t) \/ Return(t), UNCHANGED MongoDB!own PROVE LookupInv'
  <2>1. /\ stage[t] # "begun" /\ stage'[t] # "begun" /\ batch_keys' = batch_keys
        /\ \A u \in Threads \ {t} : stage'[u] = stage[u] /\ call'[u] = call[u]
    BY <1>1, <1>3 DEF Invoke, Return, CoreTypes, MongoDB!own
  <2> QED
    BY <1>1, <2>1 DEF LookupInv, KeysOf
<1>4. ASSUME NEW t \in Threads, MongoDB!Acquire(t) PROVE LookupInv'
  <2>1. /\ stage[t] = "called" /\ stage' = [stage EXCEPT ![t] = "begun"] /\ call' = call
        /\ batch_keys' = IF call[t].kind = "batch_read"
                           THEN [batch_keys EXCEPT ![t] = @ \cup KeysOf(t)] ELSE batch_keys
    BY <1>4, MongoDBCallers DEF MongoDB!Acquire, Called, At, GoTo
  <2> QED
    BY <1>1, <2>1 DEF LookupInv, KeysOf
<1>5. ASSUME NEW t \in Threads, MongoDB!Throw(t) PROVE LookupInv'
  <2>1. stage' = [u \in Threads |-> "idle"] /\ batch_keys' = [u \in Threads |-> {}]
    BY <1>5, MongoDBCallers DEF MongoDB!Throw, EndProgram, NoThreadCalls
  <2> QED
    BY <1>1, <2>1 DEF LookupInv
<1>6. ASSUME NEW t \in Threads,
             \/ MongoDB!Upsert(t) \/ MongoDB!Remove(t) \/ MongoDB!Read(t)
             \/ MongoDB!BatchUpsert(t) \/ MongoDB!BulkLoad(t) \/ MongoDB!BatchRead(t)
             \/ MongoDB!RangeSelect(t) \/ MongoDB!Scan(t)
      PROVE  LookupInv'
  <2>1. /\ call' = call
        /\ \/ batch_keys' = batch_keys /\ call[t].kind # "batch_read"
           \/ batch_keys' = [batch_keys EXCEPT ![t] = {}]
    BY <1>6, MongoDBCallers DEF MongoDB!Upsert, MongoDB!Remove, MongoDB!Read,
         MongoDB!BatchUpsert, MongoDB!BulkLoad, MongoDB!BatchRead, MongoDB!RangeSelect,
         MongoDB!Scan, MongoDB!Release, At
  <2>2. stage' = [stage EXCEPT ![t] = "done"]
    BY <1>6, Zenon DEF MongoDB!Upsert, MongoDB!Remove, MongoDB!Read,
         MongoDB!BatchUpsert, MongoDB!BulkLoad, MongoDB!BatchRead, MongoDB!RangeSelect,
         MongoDB!Scan, MongoDB!Touch, MongoDB!Reject, MongoDB!Finish
  <2> QED
    BY <1>1, <2>1, <2>2 DEF LookupInv, KeysOf
<1>7. ASSUME NEW t \in Threads, MongoDB!Progress(t) PROVE LookupInv'
  BY <1>3, <1>4, <1>5, <1>6, <1>7, MongoDBCallers DEF MongoDB!Progress
<1> QED
  BY <1>1, <1>2, <1>3, <1>7, MongoDBCallers DEF MongoDB!Next

\* MongoDB does what the interface promises.
LEMMA MongoDBRefines ==
  ASSUME AdaptersInv, AdaptersInv', LookupInv, OnMongoDB(MongoDB!Next)
  PROVE  Refines
<1>1. /\ engine = "mongodb" /\ UNCHANGED engine /\ MongoDB!Next
      /\ CoreTypes /\ CallInv /\ PoolInv /\ engine \notin Transactions
  BY DEF OnMongoDB, AdaptersInv, Transactions
<1>p. ASSUME UNCHANGED mayFail PROVE Plain
  BY <1>1, <1>p DEF Plain
<1>2. CASE MongoDB!Open \/ MongoDB!Flush \/ MongoDB!Close
  <2>1. (OpenDb \/ FlushDb \/ Closes) /\ UNCHANGED <<mayFail, data>>
    BY <1>1, <1>2, MongoDBCallers DEF MongoDB!Open, MongoDB!Flush, MongoDB!Close, Closes,
         OpenDb, FlushDb, CloseDb
  <2> QED
    BY <1>p, <2>1, PlainAround, CallerAssumption
<1>3. ASSUME NEW t \in Threads, Invoke(t) \/ Return(t) PROVE Refines
  <2>1. UNCHANGED <<mayFail, data>>
    BY <1>3, Zenon DEF Invoke, Return, store
  <2> QED
    BY <1>3, <1>p, <2>1, PlainAround
<1>4. ASSUME NEW t \in Threads, MongoDB!Progress(t), InCall(t) PROVE Refines
  <2>1. Works(t) \/ \E d \in SUBSET Keys : EndProgram(d)
    <3>1. Works(t) \/ Return(t) \/ \E d \in SUBSET Keys : EndProgram(d)
      BY <1>1, <1>4, MongoDBWorks
    <3>2. ~Return(t)
      BY <1>4 DEF Return, InCall
    <3> QED
      BY <3>1, <3>2
  <2>2. UNCHANGED mayFail /\ "bulk_load" \in Loose
    BY <1>1, <2>1 DEF Works, EndProgram, store, Loose, UStores
  <2> QED
    BY <1>1, <1>p, <1>4, <2>1, <2>2, MongoDBCalls, EndsOrGoesOn
<1>5. ASSUME NEW t \in Threads, MongoDB!Progress(t) PROVE InCall(t) \/ Return(t)
  BY <1>5, MongoDBCallers DEF MongoDB!Progress, MongoDB!Acquire, MongoDB!Throw, MongoDB!Upsert,
     MongoDB!Remove, MongoDB!Read, MongoDB!BatchUpsert, MongoDB!BulkLoad, MongoDB!BatchRead,
     MongoDB!RangeSelect, MongoDB!Scan, Called, At, InCall
<1>6. ASSUME NEW t \in Threads, MongoDB!Progress(t) \/ MongoDB!Invoke(t) PROVE Refines
  BY <1>3, <1>4, <1>5, <1>6, MongoDBCallers
<1> QED
  BY <1>1, <1>2, <1>6, Zenon DEF MongoDB!Next

-----------------------------------------------------------------------------
(***************************************************************************)
(* Redis.                                                                  *)
(***************************************************************************)

\* A call to Redis is one command; a pipeline that throws may have loaded a part.
LEMMA RedisCalls ==
  ASSUME engine = "redis", CoreTypes, CallInv, NEW t \in Threads, InCall(t), Redis!Progress(t)
  PROVE  \/ Outcome(t, data, data')
         \/ \E part \in SUBSET KeysOf(t) :
              /\ EndProgram(data \cup part)
              /\ part = {} \/ call[t].kind \in {"upsert", "batch_upsert", "bulk_load"}
<1>0. /\ Redis!KeysOf(t) = KeysOf(t) /\ Redis!Key(t) = Key(t)
      /\ \A found : Redis!Touch(t, found) <=> Touch(t, found)
      /\ \A status : Redis!Reject(t, status) <=> Reject(t, status)
      /\ \A kinds : Redis!Called(t, kinds) <=> stage[t] = "called" /\ call[t].kind \in kinds
      /\ \A d : Redis!EndProgram(d) <=> EndProgram(d)
  BY RedisCallers, Zenon DEF Called, At
<1>l. /\ Loose = Ranges \cup {"upsert", "update", "bulk_load"}
      /\ {"error", "not_found", "not_implemented"} \subseteq Statuses
      /\ Key(t) \in KeysOf(t)
  BY CallOf DEF Loose, UStores, Statuses, InCall
<1>1. CASE Redis!Upsert(t) \/ Redis!Update(t) \/ Redis!BulkLoad(t)
  <2>1. call[t].kind \in {"upsert", "update", "bulk_load"}
    BY <1>0, <1>1 DEF Redis!Upsert, Redis!Update, Redis!BulkLoad
  <2>2. /\ data' = data \cup KeysOf(t)
        /\ \/ Touch(t, KeysOf(t)) \/ Touch(t, KeysOf(t) \ data)
           \/ Reject(t, "error") \/ Reject(t, "not_found")
    BY <1>0, <1>1, Zenon DEF Redis!Upsert, Redis!Update, Redis!BulkLoad
  <2>3. \/ \E found \in SUBSET (KeysOf(t) \cap data') : Touch(t, found)
        \/ \E status \in Statuses : Reject(t, status)
    <3>1. {KeysOf(t), KeysOf(t) \ data} \subseteq SUBSET (KeysOf(t) \cap data')
      BY <2>2
    <3> QED
      BY <1>l, <2>2, <3>1
  <2>4. call[t].kind \in Loose \ Ranges
    BY <1>l, <2>1 DEF Ranges
  <2>5. Effect(t, data, data') \/ (call[t].kind = "update" /\ data' = data \cup KeysOf(t))
    BY <2>1, <2>2 DEF Effect, Writes
  <2> QED
    BY <2>3, <2>4, <2>5, LooseOutcome
<1>2. CASE Redis!BatchUpsert(t)
  <2>1. call[t].kind \in Writes
    BY <1>0, <1>2 DEF Redis!BatchUpsert, Writes
  <2>2. data' = data \cup KeysOf(t) /\ Touch(t, KeysOf(t))
    BY <1>0, <1>2, Zenon DEF Redis!BatchUpsert
  <2> QED
    BY <2>1, <2>2, Outcomes
<1>3. CASE Redis!Remove(t)
  <2>1. call[t].kind = "remove"
    BY <1>0, <1>3 DEF Redis!Remove
  <2>2. /\ data' = data \ KeysOf(t)
        /\ Touch(t, KeysOf(t)) \/ (Key(t) \notin data /\ Reject(t, "not_found"))
    BY <1>0, <1>3, Zenon DEF Redis!Remove
  <2> QED
    BY <2>1, <2>2, Outcomes
<1>4. CASE Redis!Read(t)
  <2>1. call[t].kind = "read" /\ data' = data
    BY <1>0, <1>4 DEF Redis!Read
  <2>2. \/ Key(t) \in data /\ Touch(t, KeysOf(t))
        \/ Key(t) \notin data /\ Reject(t, "not_found")
    BY <1>0, <1>4, Zenon DEF Redis!Read
  <2> QED
    BY <2>1, <2>2, Outcomes
<1>5. CASE Redis!BatchRead(t)
  <2>1. call[t].kind = "batch_read" /\ data' = data
    BY <1>0, <1>5 DEF Redis!BatchRead
  <2>2. IF KeysOf(t) \cap data = {} THEN Reject(t, "error") ELSE Touch(t, KeysOf(t) \cap data)
    BY <1>0, <1>5, Zenon DEF Redis!BatchRead
  <2>3. CASE KeysOf(t) \cap data = {}
    <3>1. Reject(t, "error") /\ ~(KeysOf(t) \subseteq data)
      BY <1>l, <2>2, <2>3
    <3>2. Exact(t, data, data')
      BY <2>1, <3>1 DEF Exact, Effect, Lookups, Misses
    <3> QED
      BY <3>2 DEF Outcome
  <2>4. CASE KeysOf(t) \cap data # {}
    BY <2>1, <2>2, <2>4, Outcomes
  <2> QED
    BY <2>3, <2>4
<1>6. CASE Redis!RangeSelect(t)
  <2>1. call[t].kind \in Ranges /\ data' = data
    BY <1>0, <1>6 DEF Redis!RangeSelect, Ranges
  <2>2. Reject(t, "not_implemented")
    BY <1>0, <1>6, Zenon DEF Redis!RangeSelect
  <2>3. call[t].kind \in Loose
    BY <1>l, <2>1
  <2> QED
    BY <1>l, <2>1, <2>2, <2>3, RangeOutcome
<1>7. CASE Redis!Throw(t)
  <2>1. \E part \in IF call[t].kind = "bulk_load" THEN SUBSET KeysOf(t) ELSE {{}} :
          EndProgram(data \cup part)
    BY <1>0, <1>7, Zenon DEF Redis!Throw
  <2> QED
    BY <2>1
<1>8. CASE Redis!Return(t)
  BY <1>8, RedisCallers DEF Return, InCall
<1> QED
  BY <1>1, <1>2, <1>3, <1>4, <1>5, <1>6, <1>7, <1>8 DEF Redis!Progress

\* Redis does what the interface promises.
LEMMA RedisRefines ==
  ASSUME AdaptersInv, AdaptersInv', OnRedis(Redis!Next)
  PROVE  Refines
<1>1. /\ engine = "redis" /\ UNCHANGED engine /\ Redis!Next
      /\ CoreTypes /\ CallInv /\ engine \notin Transactions
  BY DEF OnRedis, AdaptersInv, Transactions
<1>p. ASSUME UNCHANGED mayFail PROVE Plain
  BY <1>1, <1>p DEF Plain
<1>2. CASE Redis!Open \/ Redis!Flush \/ Redis!Close
  <2>1. (OpenDb \/ FlushDb \/ Closes) /\ UNCHANGED <<mayFail, data>>
    BY <1>1, <1>2, RedisCallers DEF Redis!Open, Redis!Flush, Redis!Close, Closes,
         OpenDb, FlushDb, CloseDb
  <2> QED
    BY <1>p, <2>1, PlainAround, CallerAssumption
<1>3. ASSUME NEW t \in Threads, Invoke(t) \/ Return(t) PROVE Refines
  <2>1. UNCHANGED <<mayFail, data>>
    BY <1>3, Zenon DEF Invoke, Return, store
  <2> QED
    BY <1>3, <1>p, <2>1, PlainAround
<1>4. ASSUME NEW t \in Threads, Redis!Progress(t), InCall(t) PROVE Refines
  <2>1. Works(t) \/ \E d \in SUBSET Keys : EndProgram(d)
    <3>1. Works(t) \/ Return(t) \/ \E d \in SUBSET Keys : EndProgram(d)
      BY <1>1, <1>4, RedisWorks
    <3>2. ~Return(t)
      BY <1>4 DEF Return, InCall
    <3> QED
      BY <3>1, <3>2
  <2>2. UNCHANGED mayFail /\ "bulk_load" \in Loose
    BY <1>1, <2>1 DEF Works, EndProgram, store, Loose, UStores
  <2> QED
    BY <1>1, <1>p, <1>4, <2>1, <2>2, RedisCalls, EndsOrGoesOn
<1>5. ASSUME NEW t \in Threads, Redis!Progress(t) PROVE InCall(t) \/ Return(t)
  BY <1>5, RedisCallers DEF Redis!Progress, Redis!Throw, Redis!Upsert, Redis!Update, Redis!Remove,
     Redis!Read, Redis!BatchUpsert, Redis!BulkLoad, Redis!BatchRead, Redis!RangeSelect,
     Called, At, InCall
<1>6. ASSUME NEW t \in Threads, Redis!Progress(t) \/ Redis!Invoke(t) PROVE Refines
  BY <1>3, <1>4, <1>5, <1>6, RedisCallers
<1> QED
  BY <1>1, <1>2, <1>6, Zenon DEF Redis!Next

-----------------------------------------------------------------------------
(***************************************************************************)
(* UStore.                                                                 *)
(***************************************************************************)

\* A call to UStore is one step.
LEMMA UStoreCalls ==
  ASSUME engine \in UStores, CoreTypes, CallInv, NEW t \in Threads, InCall(t), UStore!Progress(t)
  PROVE  Outcome(t, data, data')
<1>0. /\ UStore!KeysOf(t) = KeysOf(t) /\ UStore!Key(t) = Key(t) /\ UStore!Length(t) = Length(t)
      /\ \A S : UStore!Cardinality(S) = Cardinality(S)
      /\ \A S, n : UStore!FirstNumbers(S, n) = FirstNumbers(S, n)
      /\ \A found : UStore!Touch(t, found) <=> Touch(t, found)
      /\ \A status : UStore!Reject(t, status) <=> Reject(t, status)
      /\ \A status : UStore!Broken(t, status) <=> Broken(t, status)
      /\ \A status, n, found : UStore!Finish(t, status, n, found) <=> Finish(t, status, n, found)
  BY UStoreCallers, Zenon
<1>c. ASSUME NEW kinds, UStore!Calling(t, kinds) PROVE call[t].kind \in kinds
  BY <1>c, UStoreCallers DEF UStore!Calling, Called, At
<1>f. ASSUME NEW status \in {"error", "not_found"}, Broken(t, status) PROVE Outcome(t, data, data')
  <2>1. mayFail /\ Reject(t, status) /\ data' = data
    BY <1>f, Zenon DEF Broken
  <2> QED
    BY <1>f, <2>1, Outcomes
<1>l. /\ Loose = {"update", "scan"} /\ {"error", "not_found", "ok"} \subseteq Statuses
      /\ Key(t) \in Nat /\ Length(t) \in Nat \ {0} /\ data \subseteq Keys
  BY CallOf, KeysFinite DEF Loose, UStores, Statuses, CoreTypes, InCall
<1>1. CASE UStore!Upsert(t)
  <2>1. call[t].kind \in {"upsert", "update"}
    BY <1>c, <1>1 DEF UStore!Upsert
  <2>2. \/ data' = data \cup KeysOf(t) /\ Touch(t, KeysOf(t))
        \/ \E status \in {"error", "not_found"} : Broken(t, status)
    BY <1>0, <1>1, Zenon DEF UStore!Upsert
  <2>3. CASE call[t].kind = "update" /\ data' = data \cup KeysOf(t) /\ Touch(t, KeysOf(t))
    <3>1. call[t].kind \in Loose \ Ranges /\ KeysOf(t) \in SUBSET (KeysOf(t) \cap data')
      BY <1>l, <2>3 DEF Ranges
    <3>2. \E found \in SUBSET (KeysOf(t) \cap data') : Touch(t, found)
      BY <2>3, <3>1
    <3> QED
      BY <2>3, <3>1, <3>2, LooseOutcome
  <2> QED
    BY <1>f, <2>1, <2>2, <2>3, Outcomes DEF Writes
<1>2. CASE UStore!Remove(t)
  <2>1. call[t].kind = "remove"
    BY <1>c, <1>2 DEF UStore!Remove
  <2>2. (data' = data \ KeysOf(t) /\ Touch(t, KeysOf(t))) \/ Broken(t, "error")
    BY <1>0, <1>2, Zenon DEF UStore!Remove
  <2> QED
    BY <1>f, <2>1, <2>2, Outcomes
<1>3. CASE UStore!Read(t)
  <2>1. call[t].kind = "read"
    BY <1>c, <1>3 DEF UStore!Read
  <2>2. \/ Key(t) \in data /\ Touch(t, KeysOf(t)) /\ data' = data
        \/ Key(t) \notin data /\ Reject(t, "not_found") /\ data' = data
        \/ Broken(t, "error")
    BY <1>0, <1>3, Zenon DEF UStore!Read
  <2> QED
    BY <1>f, <2>1, <2>2, Outcomes
<1>4. CASE UStore!BatchUpsert(t)
  <2>1. call[t].kind \in Writes
    BY <1>c, <1>4 DEF UStore!BatchUpsert, Writes
  <2>2. (data' = data \cup KeysOf(t) /\ Touch(t, KeysOf(t))) \/ Broken(t, "error")
    BY <1>0, <1>4, Zenon DEF UStore!BatchUpsert
  <2> QED
    BY <1>f, <2>1, <2>2, Outcomes
<1>5. CASE UStore!BatchRead(t)
  <2>1. call[t].kind = "batch_read"
    BY <1>c, <1>5 DEF UStore!BatchRead
  <2>2. \/ KeysOf(t) \cap data = {} /\ Reject(t, "not_found") /\ data' = data
        \/ Touch(t, KeysOf(t) \cap data) /\ data' = data
        \/ Broken(t, "error")
    BY <1>0, <1>5, Zenon DEF UStore!BatchRead, UStore!TouchSome
  <2>3. ASSUME KeysOf(t) \cap data = {}, Reject(t, "not_found"), data' = data
        PROVE  Outcome(t, data, data')
    <3>1. Exact(t, data, data')
      BY <2>1, <2>3 DEF Exact, Effect, Lookups
    <3> QED
      BY <3>1 DEF Outcome
  <2> QED
    BY <1>f, <2>1, <2>2, <2>3, Outcomes
<1>6. CASE UStore!RangeSelect(t)
  <2>1. call[t].kind \in Ranges
    BY <1>c, <1>6 DEF UStore!RangeSelect, Ranges
  <2>2. \/ Met(t, data) = {} /\ Reject(t, "not_found") /\ data' = data
        \/ Touch(t, Met(t, data)) /\ data' = data
        \/ Broken(t, "error")
    BY <1>0, <1>6, Zenon DEF UStore!RangeSelect, UStore!TouchSome, Met
  <2>3. ASSUME data' = data,
               \/ Met(t, data) = {} /\ Reject(t, "not_found")
               \/ Touch(t, Met(t, data))
        PROVE  Outcome(t, data, data')
    <3>1. Exact(t, data, data')
      BY <2>1, <2>3 DEF Exact, Effect, Misses
    <3> QED
      BY <3>1 DEF Outcome
  <2> QED
    BY <1>f, <2>2, <2>3
<1>7. CASE UStore!Scan(t)
  <2> DEFINE F == UStore!Scanned(t)
  <2>1. call[t].kind = "scan" /\ data' = data
    BY <1>c, <1>7 DEF UStore!Scan
  <2>2. \/ Reject(t, "not_found") \/ Reject(t, "error")
        \/ Finish(t, "ok", Cardinality(F), {entry[2] : entry \in F})
    BY <1>0, <1>7, Zenon DEF UStore!Scan
  <2>3. F = InChunks(data, Key(t), Length(t))
    <3>1. \A S : UStore!Min(S) = Min(S)
      BY Zenon DEF UStore!Min, Min
    <3>2. \A i : UStore!ChunkOf(t, i) = FirstNumbers({x \in data : x >= Key(t) + i * Chunk},
                                                     Min({Chunk, Length(t) - i * Chunk}))
      BY <1>0, <3>1, Zenon DEF UStore!ChunkOf
    <3> QED
      BY <1>0, <3>2, Zenon DEF UStore!Scanned, InChunks
  <2> HIDE DEF F
  <2>4. Cardinality(F) \in 0 .. Length(t) /\ {entry[2] : entry \in F} \subseteq data
    <3>1. data \in SUBSET Keys /\ Key(t) \in Nat /\ Length(t) \in Nat \ {0}
      BY <1>l
    <3> QED
      BY <2>3, <3>1, ChunksCount
  <2>5. ASSUME Finish(t, "ok", Cardinality(F), {entry[2] : entry \in F})
        PROVE  Outcome(t, data, data')
    <3>1. Cardinality(F) \in 0 .. Length(t) + 1 /\ {entry[2] : entry \in F} \in SUBSET data'
      BY <1>l, <2>1, <2>4
    <3>2. \E status \in Statuses, n \in 0 .. Length(t) + 1, found \in SUBSET data' :
            Finish(t, status, n, found)
      BY <1>l, <2>5, <3>1
    <3>3. call[t].kind \in Loose /\ Effect(t, data, data')
      BY <1>l, <2>1 DEF Effect, Ranges
    <3> QED
      BY <3>2, <3>3, Zenon DEF Outcome, Loosely
  <2>6. call[t].kind \in Ranges /\ call[t].kind \in Loose
    BY <1>l, <2>1 DEF Ranges
  <2> QED
    BY <1>l, <2>1, <2>2, <2>5, <2>6, RangeOutcome
<1>8. CASE UStore!Return(t)
  BY <1>8, UStoreCallers DEF Return, InCall
<1> QED
  BY <1>1, <1>2, <1>3, <1>4, <1>5, <1>6, <1>7, <1>8 DEF UStore!Progress

\* UStore does what the interface promises: a database of UCSet that is made anew
\* when it is opened had no data.
LEMMA UStoreRefines ==
  ASSUME AdaptersInv, AdaptersInv', KeptInv, OnUStore(UStore!Next)
  PROVE  UNCHANGED engine /\ Refines /\ KeptInv'
<1>1. /\ engine \in UStores /\ UStore!Next /\ CoreTypes /\ CallInv
      /\ engine \notin Transactions
  BY DEF OnUStore, AdaptersInv, UStores, Transactions
<1>p. ASSUME UNCHANGED <<mayFail, engine>> PROVE Plain
  BY <1>1, <1>p, Zenon DEF Plain
<1>2. CASE UStore!Open
  <2>1. OpenDb /\ UNCHANGED engine /\ handle' = "open" /\ handle = "closed" /\ UNCHANGED mayFail
    BY <1>2, UStoreCallers DEF UStore!Open, OpenDb
  <2>2. UNCHANGED data
    BY <1>2, <2>1 DEF UStore!Open, KeptInv
  <2>3. Refines
    BY <1>p, <2>1, <2>2, PlainAround, CallerAssumption
  <2> QED
    BY <2>1, <2>3 DEF KeptInv
<1>3. CASE UStore!Flush
  <2>1. /\ FlushDb /\ UNCHANGED <<mayFail, engine, data, client, workload>>
        /\ \A t \in workload.threads : client[t] # 0
    BY <1>3, UStoreCallers DEF UStore!Flush, UStore!own, FlushDb
  <2>2. client'[Leader] # 0
    BY <1>1, <2>1, CallerAssumption DEF CoreTypes
  <2>3. Refines
    BY <1>p, <2>1, PlainAround, CallerAssumption
  <2> QED
    BY <2>1, <2>2, <2>3 DEF KeptInv
<1>4. CASE UStore!Close
  <2>1. /\ Closes /\ UNCHANGED <<mayFail, engine, data>> /\ handle = "flushed"
        /\ client' = [t \in Threads |-> IF t = Leader /\ engine = "ustore_ucset" THEN client[t]
                                                                              ELSE 0]
    BY <1>1, <1>4, UStoreCallers DEF UStore!Close, Closes, CloseDb
  <2>2. engine = "ustore_ucset" => client'[Leader] = client[Leader]
    BY <2>1, CallerAssumption
  <2>3. Refines
    BY <1>p, <2>1, PlainAround, CallerAssumption
  <2> QED
    BY <2>1, <2>2, <2>3 DEF KeptInv
<1>5. ASSUME NEW t \in Threads, Invoke(t) \/ Return(t), UNCHANGED engine
      PROVE  Refines /\ KeptInv'
  <2>1. UNCHANGED <<mayFail, data>> /\ handle' = handle
    BY <1>5, Zenon DEF Invoke, Return, store
  <2>2. handle = "open"
    BY <1>1, <1>5 DEF CallInv, Invoke, Return
  <2>3. Refines
    BY <1>5, <1>p, <2>1, PlainAround
  <2> QED
    BY <2>1, <2>2, <2>3 DEF KeptInv
<1>6. ASSUME NEW t \in Threads, UStore!Progress(t), Works(t), UNCHANGED engine
      PROVE  Refines /\ KeptInv'
  <2>1. InCall(t) /\ UNCHANGED mayFail /\ handle' = handle
    BY <1>6 DEF Works, InCall, store
  <2>2. handle = "open"
    BY <1>1, <2>1 DEF CallInv, InCall
  <2>3. Outcome(t, data, data')
    BY <1>1, <1>6, <2>1, UStoreCalls
  <2>4. Refines
    BY <1>p, <1>6, <2>1, <2>3, PlainOutcome
  <2> QED
    BY <2>1, <2>2, <2>4 DEF KeptInv
<1>7. ASSUME NEW t \in Threads, UStore!Progress(t) PROVE UNCHANGED engine /\ Refines /\ KeptInv'
  BY <1>1, <1>5, <1>6, <1>7, UStoreWorks
<1>8. CASE UStore!Open \/ UStore!Flush \/ UStore!Close
  <2>1. UNCHANGED engine
    BY <1>8 DEF UStore!Open, UStore!Flush, UStore!Close
  <2> QED
    BY <1>2, <1>3, <1>4, <1>8, <2>1
<1>9. ASSUME NEW t \in Threads, UStore!Invoke(t), UNCHANGED <<engine, UStore!own>>
      PROVE  UNCHANGED engine /\ Refines /\ KeptInv'
  BY <1>5, <1>9, UStoreCallers
<1> QED
  BY <1>1, <1>7, <1>8, <1>9, Zenon DEF UStore!Next

-----------------------------------------------------------------------------
(***************************************************************************)
(* Transactions, of an engine that does not fail.                          *)
(***************************************************************************)

\* What the other transactions have written.
OthersPut(t) == UNION {pending[u].put : u \in Threads \ {t}}
OthersDel(t) == UNION {pending[u].del : u \in Threads \ {t}}

\* What a transaction sees.
Sight(t) == (data \cup pending[t].put) \ pending[t].del

\* What a transaction will commit, none of what it has written if it is spent.
Coming(t) == IF t \in spent THEN Nothing ELSE pending[t]
ComingPut(t) == UNION {Coming(u).put : u \in Threads \ {t}}
ComingDel(t) == UNION {Coming(u).del : u \in Threads \ {t}}

\* A write becomes part of its transaction.
Joins(t) ==
  /\ UNCHANGED <<data, buffer, spent>>
  /\ pending' = [pending EXCEPT ![t] =
       IF call[t].kind = "remove"
         THEN [put |-> @.put \ KeysOf(t), del |-> @.del \cup KeysOf(t)]
         ELSE [put |-> @.put \cup KeysOf(t), del |-> @.del \ KeysOf(t)]]

\* A transaction is committed in the middle of a call, if it has not been.
Commits(t) ==
  /\ data' = Sight(t)
  /\ pending' = [pending EXCEPT ![t] = Nothing]
CommitsOnce(t) ==
  /\ UNCHANGED buffer /\ spent' = spent \cup {t}
  /\ \/ t \notin spent /\ Commits(t)
     \/ t \in spent /\ UNCHANGED <<data, pending>>

\* A batch is written but for the keys that others have locked, and committed up
\* to the first of these.
Splits(t) ==
  LET written == KeysOf(t) \ (OthersPut(t) \cup OthersDel(t))
  IN  /\ UNCHANGED buffer /\ spent' = spent \cup {t}
      /\ \/ /\ t \in spent /\ UNCHANGED data
            /\ pending' = [pending EXCEPT ![t] =
                             [put |-> @.put \cup written, del |-> @.del \ written]]
         \/ /\ t \notin spent
            /\ \E first \in KeysOf(t) :
                 /\ data' = Sight(t) \cup {k \in written : k < first}
                 /\ pending' = [pending EXCEPT ![t] =
                                  [put |-> {k \in written : k >= first}, del |-> {}]]

Refuses(t) == KeysOf(t) \cap (OthersPut(t) \cup OthersDel(t)) # {}

\* The steps of a call, by what they do to the transaction.
WriteStep(t) ==
  /\ Joins(t) /\ Touch(t, KeysOf(t))
  /\ \/ stage[t] \in {"write", "retry"}
     \/ stage[t] = "called" /\ call[t].kind \in Writes \cup {"remove"}
AgainStep(t) ==
  /\ CommitsOnce(t) /\ GoTo(t, "retry") /\ UNCHANGED reply
  /\ engine = "rocksdb_transaction"
  /\ stage[t] = "write" \/ (stage[t] = "called" /\ call[t].kind \in {"upsert", "remove"})
GiveUpStep(t) ==
  /\ stage[t] = "retry" /\ Refuses(t)
  /\ UNCHANGED <<data, pending, buffer, spent>> /\ Reject(t, "error")
SplitStep(t) ==
  /\ Splits(t) /\ Touch(t, KeysOf(t))
  /\ stage[t] = "called" /\ call[t].kind \in {"batch_upsert", "bulk_load"}
  /\ engine = "rocksdb_transaction"
LookStep(t) ==
  /\ stage[t] = "called" /\ UNCHANGED <<data, pending, buffer, spent>>
  /\ \/ call[t].kind = "update" /\ \/ GoTo(t, "write") /\ UNCHANGED reply
                                   \/ Reject(t, "not_found")
     \/ call[t].kind = "read" /\ \/ Key(t) \in Sight(t) /\ Touch(t, KeysOf(t))
                                 \/ Reject(t, "not_found")
BatchStep(t) ==
  stage[t] = "called" /\ call[t].kind = "batch_read" /\ Transaction!BatchRead(t)
RangeStep(t) ==
  stage[t] = "called" /\ call[t].kind \in Ranges /\ Transaction!Iterate(t)

\* What the other transactions have written, and what one sees.
LEMMA TransactionSees ==
  ASSUME NEW t
  PROVE  /\ Transaction!View(t) = Sight(t)
         /\ Transaction!Locked(t) = IF engine = "rocksdb_transaction"
                                      THEN OthersPut(t) \cup OthersDel(t) ELSE {}
         /\ Transaction!Nothing = Nothing
         /\ Transaction!RocksDB <=> engine = "rocksdb_transaction"
<1>1. Transaction!View(t) = Sight(t)
  BY DEF Transaction!View, Transaction!Applied, Sight
<1>2. UNION {pending[u].put \cup pending[u].del : u \in Threads \ {t}}
        = OthersPut(t) \cup OthersDel(t)
  BY DEF OthersPut, OthersDel
<1> QED
  BY <1>1, <1>2, Zenon DEF Transaction!Locked, Transaction!RocksDB, Transaction!Nothing, Nothing

\* The steps of a thread in a call.
LEMMA TransactionSteps ==
  ASSUME engine \in Transactions, ~mayFail, CoreTypes, CallInv, TransactionInv,
         NEW t \in Threads, InCall(t), Transaction!Progress(t)
  PROVE  \/ WriteStep(t) \/ AgainStep(t) \/ GiveUpStep(t) \/ SplitStep(t) \/ LookStep(t)
         \/ BatchStep(t) \/ RangeStep(t)
<1>0. /\ Transaction!KeysOf(t) = KeysOf(t) /\ Transaction!Key(t) = Key(t)
      /\ \A found : Transaction!Touch(t, found) <=> Touch(t, found)
      /\ \A status : Transaction!Reject(t, status) <=> Reject(t, status)
      /\ \A place : Transaction!GoTo(t, place) <=> GoTo(t, place)
      /\ \A kinds : Transaction!Called(t, kinds) <=> stage[t] = "called" /\ call[t].kind \in kinds
  BY TransactionCallers, Zenon DEF Called, At
<1>w. /\ Transaction!WriteKinds \subseteq Writes \cup {"remove"}
      /\ engine = "rocksdb_transaction" => Transaction!WriteKinds = {"upsert", "remove"}
  BY DEF Transaction!WriteKinds, Transaction!RocksDB, Writes
<1>p. ASSUME Transaction!Pend(t, pending[t]), UNCHANGED <<data, buffer, spent>> PROVE Joins(t)
  <2>1. \A f : [pending EXCEPT ![t] = f]
               = [u \in DOMAIN pending |-> IF u = t THEN f ELSE pending[u]]
    OBVIOUS
  <2> QED
    BY <1>0, <1>p, <2>1 DEF Joins, Transaction!Pend
<1>c. ASSUME Transaction!Commit(t) PROVE Commits(t) /\ ~(Transaction!RocksDB /\ t \in spent)
  BY <1>c, TransactionSees, Zenon DEF Commits, Transaction!Commit
<1>1. ASSUME Transaction!Write(t) PROVE WriteStep(t) \/ AgainStep(t)
  <2>1. /\ UNCHANGED buffer
        /\ stage[t] = "called" => call[t].kind \in Transaction!WriteKinds
        /\ stage[t] \in {"called", "write"}
    BY <1>0, <1>1 DEF Transaction!Write, Transaction!Kept
  <2>2. \/ Transaction!Granted(t) /\ Touch(t, KeysOf(t))
        \/ /\ Transaction!Refused(t)
           /\ spent' = IF Transaction!RocksDB THEN spent \cup {t} ELSE spent
           /\ \/ Transaction!Commit(t) /\ GoTo(t, "retry") /\ UNCHANGED reply
              \/ /\ Transaction!NoCommit(t)
                 /\ Transaction!RocksDB => GoTo(t, "retry") /\ UNCHANGED reply
    BY <1>0, <1>1, Zenon DEF Transaction!Write
  <2>3. ASSUME Transaction!Granted(t), Touch(t, KeysOf(t)) PROVE WriteStep(t)
    <3>1. Joins(t)
      BY <1>p, <2>1, <2>3 DEF Transaction!Granted
    <3> QED
      BY <1>w, <2>1, <2>3, <3>1 DEF WriteStep
  <2>4. ASSUME Transaction!Refused(t),
               spent' = IF Transaction!RocksDB THEN spent \cup {t} ELSE spent,
               \/ Transaction!Commit(t) /\ GoTo(t, "retry") /\ UNCHANGED reply
               \/ /\ Transaction!NoCommit(t)
                  /\ Transaction!RocksDB => GoTo(t, "retry") /\ UNCHANGED reply
        PROVE  AgainStep(t)
    <3>1. KeysOf(t) \cap Transaction!Locked(t) # {}
      BY <1>0, <2>4, Zenon DEF Transaction!Refused
    <3>2. engine = "rocksdb_transaction" /\ Transaction!RocksDB
      BY <3>1, TransactionSees
    <3>3. GoTo(t, "retry") /\ UNCHANGED reply
      BY <2>4, <3>2, Zenon
    <3>4. Transaction!NoCommit(t) => t \in spent /\ UNCHANGED <<data, pending>>
      BY <3>2, Zenon DEF Transaction!NoCommit
    <3>5. spent' = spent \cup {t}
      BY <2>4, <3>2
    <3>6. CommitsOnce(t)
      BY <1>c, <2>1, <2>4, <3>2, <3>4, <3>5, Zenon DEF CommitsOnce
    <3> QED
      BY <1>w, <2>1, <3>2, <3>3, <3>6 DEF AgainStep
  <2> QED
    BY <2>2, <2>3, <2>4, Zenon
<1>2. ASSUME Transaction!Retry(t) PROVE WriteStep(t) \/ GiveUpStep(t)
  <2>1. stage[t] = "retry" /\ UNCHANGED buffer
    BY <1>2 DEF Transaction!Retry, Transaction!Kept
  <2>2. \/ Transaction!Granted(t) /\ Touch(t, KeysOf(t))
        \/ /\ Transaction!Refused(t) /\ Reject(t, "error")
           /\ UNCHANGED <<data, pending, spent>>
    BY <1>0, <1>2, Zenon DEF Transaction!Retry
  <2>3. ASSUME Transaction!Granted(t), Touch(t, KeysOf(t)) PROVE WriteStep(t)
    <3>1. Joins(t)
      BY <1>p, <2>1, <2>3 DEF Transaction!Granted
    <3> QED
      BY <2>1, <2>3, <3>1 DEF WriteStep
  <2>4. ASSUME Transaction!Refused(t), Reject(t, "error"), UNCHANGED <<data, pending, spent>>
        PROVE  GiveUpStep(t)
    <3>1. KeysOf(t) \cap Transaction!Locked(t) # {}
      BY <1>0, <2>4, Zenon DEF Transaction!Refused
    <3>2. Refuses(t)
      BY <3>1, TransactionSees DEF Refuses
    <3> QED
      BY <2>1, <2>4, <3>2, Zenon DEF GiveUpStep
  <2> QED
    BY <2>2, <2>3, <2>4
<1>3. ASSUME Transaction!BatchUpsert(t) PROVE WriteStep(t) \/ SplitStep(t)
  <2>1. /\ stage[t] = "called" /\ call[t].kind \in {"batch_upsert", "bulk_load"}
        /\ Touch(t, KeysOf(t)) /\ UNCHANGED buffer /\ engine = "rocksdb_transaction"
    BY <1>0, <1>3, TransactionSees, Zenon DEF Transaction!BatchUpsert, Transaction!Kept
  <2>2. CASE Transaction!Granted(t)
    <3>1. Joins(t)
      BY <1>p, <2>1, <2>2 DEF Transaction!Granted
    <3> QED
      BY <2>1, <3>1 DEF WriteStep, Writes
  <2>3. CASE ~Transaction!Granted(t)
    <3> DEFINE free == KeysOf(t) \ Transaction!Locked(t)
           Over(s) == [pending EXCEPT ![t] = [put |-> @.put \cup s, del |-> @.del \ s]]
           Anew(s, k0) == [pending EXCEPT ![t] = [put |-> {k \in s : k >= k0}, del |-> {}]]
    <3>a. \E s \in {s \in SUBSET free : mayFail \/ s = free}, first \in KeysOf(t) :
            /\ \/ t \in spent /\ pending' = Over(s) /\ UNCHANGED data
               \/ /\ t \notin spent /\ pending' = Anew(s, first)
                  /\ \/ data' = Transaction!View(t) \cup {k \in s : k < first}
                     \/ mayFail /\ UNCHANGED data
            /\ spent' = spent \cup {t}
      BY <1>0, <1>3, <2>3 DEF Transaction!BatchUpsert
    <3>1. /\ \/ t \in spent /\ pending' = Over(free) /\ UNCHANGED data
             \/ /\ t \notin spent
                /\ \E first \in KeysOf(t) :
                     /\ pending' = Anew(free, first)
                     /\ data' = Transaction!View(t) \cup {k \in free : k < first}
          /\ spent' = spent \cup {t}
      <4> HIDE DEF free, Over, Anew
      <4>1. \A s \in {s \in SUBSET free : mayFail \/ s = free} : s = free
        BY Zenon
      <4> QED
        BY <3>a, <4>1, Zenon
    <3>2. free = KeysOf(t) \ (OthersPut(t) \cup OthersDel(t))
      BY <2>1, TransactionSees
    <3>3. Splits(t)
      BY <2>1, <3>1, <3>2, TransactionSees DEF Splits
    <3> QED
      BY <2>1, <3>3 DEF SplitStep
  <2> QED
    BY <2>2, <2>3
<1>4. ASSUME Transaction!UpdateGet(t) PROVE LookStep(t)
  <2>1. /\ stage[t] = "called" /\ call[t].kind = "update"
        /\ UNCHANGED <<data, pending, buffer, spent>>
    BY <1>0, <1>4 DEF Transaction!UpdateGet, Transaction!Reading
  <2>2. \/ GoTo(t, "write") /\ UNCHANGED reply
        \/ Reject(t, "not_found")
    BY <1>0, <1>4, Zenon DEF Transaction!UpdateGet
  <2> QED
    BY <2>1, <2>2 DEF LookStep
<1>5. ASSUME Transaction!Read(t) PROVE LookStep(t)
  <2>1. /\ stage[t] = "called" /\ call[t].kind = "read"
        /\ UNCHANGED <<data, pending, buffer, spent>>
    BY <1>0, <1>5 DEF Transaction!Read, Transaction!Reading
  <2>2. (Key(t) \in Sight(t) /\ Touch(t, KeysOf(t))) \/ Reject(t, "not_found")
    BY <1>0, <1>5, TransactionSees, Zenon DEF Transaction!Read
  <2> QED
    BY <2>1, <2>2 DEF LookStep
<1>6. ASSUME Transaction!BatchRead(t) PROVE BatchStep(t)
  <2>1. stage[t] = "called" /\ call[t].kind \in {"batch_read"}
    BY <1>0, <1>6, Zenon DEF Transaction!BatchRead
  <2>2. call[t].kind = "batch_read"
    BY <2>1
  <2> QED
    BY <1>6, <2>1, <2>2, Zenon DEF BatchStep
<1>7. ASSUME Transaction!Iterate(t) PROVE RangeStep(t)
  BY <1>0, <1>7 DEF Transaction!Iterate, RangeStep, Ranges
<1>8. ~Transaction!Return(t)
  BY TransactionCallers DEF Return, InCall
<1> QED
  BY <1>1, <1>2, <1>3, <1>4, <1>5, <1>6, <1>7, <1>8, Zenon DEF Transaction!Progress

\* A batch of reads looks up its keys, no more: the buffer it fills is as long.
LEMMA BatchFilled ==
  ASSUME CoreTypes, CallInv, TransactionInv, OneBatchLength, NEW t \in Threads, PendingOf(t),
         InCall(t), BatchStep(t)
  PROVE  /\ UNCHANGED <<data, pending, spent>> /\ Size(t) \in workload.lengths
         /\ \E b \in Seq(Keys) : buffer' = [buffer EXCEPT ![t] = b]
         /\ buffer'[t] \in {buffer[t], call[t].keys}
         /\ engine = "rocksdb_transaction" => buffer'[t] = call[t].keys
<1> DEFINE new == call[t].keys
           old == buffer[t]
<1>1. /\ call[t].kind = "batch_read" /\ "batch_read" \in workload.kinds
      /\ workload \in Workloads /\ new \in Seq(Keys) /\ old \in Seq(Keys)
      /\ buffer \in [Threads -> Seq(Keys)]
  BY CallOf DEF BatchStep, InCall, TransactionInv
<1>2. Len(new) \in workload.lengths /\ Len(new) \in Nat \ {0} /\ Len(new) = Size(t)
  BY <1>1, CallOf, CallCounted DEF InCall, Size, Ranges
<1>3. old = << >> \/ Len(old) = Len(new)
  BY <1>1, <1>2 DEF OneBatchLength, PendingOf
<1>4. Transaction!Filled(old, new) = new
  <2> DEFINE m == Transaction!Max({Len(new), Len(old)})
  <2>1. Len(old) \in Nat /\ Len(old) <= Len(new) /\ Len(new) \in Nat
    BY <1>1, <1>2, <1>3
  <2>2. m = Len(new)
    <3>1. \E x \in {Len(new), Len(old)} : \A y \in {Len(new), Len(old)} : x >= y
      BY <2>1
    <3>2. m \in {Len(new), Len(old)} /\ \A y \in {Len(new), Len(old)} : m >= y
      BY <3>1 DEF Transaction!Max
    <3> HIDE DEF m
    <3> QED
      BY <2>1, <3>2
  <2>3. Transaction!Filled(old, new) = [i \in 1 .. m |-> IF i <= Len(new) THEN new[i] ELSE old[i]]
    BY DEF Transaction!Filled
  <2> HIDE DEF m
  <2>4. Transaction!Filled(old, new) = [i \in 1 .. Len(new) |-> new[i]]
    BY <2>1, <2>2, <2>3
  <2> QED
    BY <1>1, <2>4
<1>5. /\ UNCHANGED <<data, pending, spent>>
      /\ engine # "rocksdb_transaction" => buffer' = buffer
      /\ engine = "rocksdb_transaction" =>
           buffer' = [buffer EXCEPT ![t] = Transaction!Filled(@, call[t].keys)]
  <2>1. Transaction!BatchRead(t)
    BY DEF BatchStep
  <2>2. UNCHANGED <<data, pending, spent>>
    BY <2>1, Zenon DEF Transaction!BatchRead, Transaction!Reading
  <2>3. buffer' = IF Transaction!RocksDB
                    THEN [buffer EXCEPT ![t] = Transaction!Filled(@, call[t].keys)] ELSE buffer
    BY <2>1, Zenon DEF Transaction!BatchRead
  <2> QED
    BY <2>2, <2>3, TransactionSees
<1>6. engine = "rocksdb_transaction" => buffer' = [buffer EXCEPT ![t] = new]
  BY <1>4, <1>5
<1> HIDE DEF new, old
<1>7. buffer = [buffer EXCEPT ![t] = old]
  BY <1>1 DEF old
<1> QED
  BY <1>1, <1>2, <1>5, <1>6, <1>7 DEF new, old

\* Neither the engine nor whether it fails ever changes.
LEMMA TransactionSame ==
  ASSUME AdaptersInv, OnTransaction(Transaction!Next)
  PROVE  UNCHANGED <<mayFail, engine>>
<1>1. Transaction!Next /\ CoreTypes /\ CallInv /\ TransactionInv
  BY DEF OnTransaction, AdaptersInv
<1>2. CASE Transaction!Open \/ Transaction!Flush \/ Transaction!Close
  BY <1>2, TransactionCallers DEF Transaction!Open, Transaction!Flush, Transaction!Close,
     OpenDb, FlushDb, CloseDb
<1>3. ASSUME NEW t \in Threads, Transaction!Progress(t) PROVE UNCHANGED <<mayFail, engine>>
  <2>1. UNCHANGED engine /\ (Works(t) \/ Return(t))
    BY <1>1, <1>3, TransactionWorks
  <2> QED
    BY <2>1 DEF Works, Return, store
<1>4. ASSUME NEW t \in Threads, Transaction!End(t) PROVE UNCHANGED <<mayFail, engine>>
  BY <1>4 DEF Transaction!End, Transaction!store
<1>5. ASSUME NEW t \in Threads, Transaction!Invoke(t), UNCHANGED engine
      PROVE  UNCHANGED <<mayFail, engine>>
  BY <1>5, TransactionCallers DEF Invoke, store
<1> QED
  BY <1>1, <1>2, <1>3, <1>4, <1>5, Zenon DEF Transaction!Next

\* What is known of a step of transactions, of an engine that does not fail.
Sound == /\ AdaptersInv /\ AdaptersInv' /\ engine \in Transactions /\ ~mayFail
         /\ UNCHANGED <<mayFail, engine>>
         /\ ShippedMixes /\ OneBatchLength /\ PendingInv

\* Such a step is firm.
LEMMA SoundFirm ==
  ASSUME Sound
  PROVE  /\ Firm /\ CoreTypes /\ CoreTypes' /\ CallInv /\ CallInv'
         /\ TransactionInv /\ TransactionInv'
         /\ pending \in [Threads -> Pending] /\ buffer \in [Threads -> Seq(Keys)]
         /\ spent \subseteq Threads
         /\ \A t \in Threads : PendingOf(t)
<1>1. CoreTypes /\ CoreTypes' /\ CallInv /\ CallInv' /\ TransactionInv /\ TransactionInv'
  BY DEF Sound, AdaptersInv
<1>2. ~mayFail /\ (~mayFail)' /\ UNCHANGED <<mayFail, engine>>
  BY Zenon DEF Sound
<1>3. Promised /\ Promised'
  BY <1>2, Zenon DEF Promised
<1>4. \A t \in Threads : PendingOf(t)
  BY Zenon DEF Sound, PendingInv
<1>5. /\ pending \in [Threads -> Pending] /\ buffer \in [Threads -> Seq(Keys)]
      /\ spent \subseteq Threads
  BY <1>1 DEF TransactionInv
<1> QED
  BY <1>1, <1>2, <1>3, <1>4, <1>5, Zenon DEF Firm

\* The transaction of a thread stays as it is when the thread does nothing.
LEMMA PendingAlone ==
  ASSUME NEW u, PendingOf(u), UNCHANGED <<engine, workload>>,
         pending'[u] = pending[u], buffer'[u] = buffer[u], u \in spent' <=> u \in spent,
         \/ stage'[u] \in {"idle", "called", "done", "ended"}
         \/ stage'[u] = stage[u] /\ call'[u] = call[u]
  PROVE  PendingOf(u)'
BY DEF PendingOf

\* The kinds of calls made together with a write.
LEMMA WritesAlone ==
  ASSUME CoreTypes, CallInv, ShippedMixes, NEW t \in Threads, InCall(t),
         call[t].kind \notin {"read", "batch_read", "range_select", "scan"}
  PROVE  /\ workload.kinds \cap {"batch_read", "range_select", "scan"} = {}
         /\ "remove" \in workload.kinds <=> call[t].kind = "remove"
<1>1. /\ call[t].kind \notin {"read", "update", "upsert"} => workload.kinds = {call[t].kind}
      /\ call[t].kind = "update" => workload.kinds \subseteq {"read", "update"}
      /\ call[t].kind = "upsert" => workload.kinds \subseteq {"read", "upsert"}
  BY MixOf
<1> QED
  BY <1>1

\* Reads of more than one key are one step.
LEMMA TransactionDone ==
  ASSUME CoreTypes, NEW t \in Threads, Transaction!BatchRead(t) \/ Transaction!Iterate(t)
  PROVE  stage'[t] = "done"
<1>1. /\ \A status : Transaction!Reject(t, status) => GoTo(t, "done")
      /\ \A status, n, found : Transaction!Finish(t, status, n, found) => GoTo(t, "done")
  BY TransactionCallers, Zenon DEF Reject, Finish, GoTo
<1>2. \A n, found : Transaction!FoundSome(t, n, found) => GoTo(t, "done")
  BY <1>1, Zenon DEF Transaction!FoundSome
<1>3. GoTo(t, "done")
  BY <1>1, <1>2, Zenon DEF Transaction!BatchRead, Transaction!Iterate
<1> QED
  BY <1>3 DEF GoTo, CoreTypes

\* A step of a call leaves what PendingInv says.
LEMMA PendingWorks ==
  ASSUME Sound, NEW t \in Threads, InCall(t), Transaction!Progress(t)
  PROVE  PendingInv'
<1>1. /\ CoreTypes /\ CallInv /\ TransactionInv /\ PendingOf(t) /\ ShippedMixes /\ OneBatchLength
      /\ engine \in Transactions /\ ~mayFail /\ \A u \in Threads : PendingOf(u)
      /\ pending \in [Threads -> Pending] /\ buffer \in [Threads -> Seq(Keys)]
      /\ stage \in [Threads -> Places]
  BY SoundFirm DEF Sound, CoreTypes
<1>2. /\ UNCHANGED <<engine, workload, call>>
      /\ \E p : pending' = [pending EXCEPT ![t] = p]
      /\ \E b : buffer' = [buffer EXCEPT ![t] = b]
      /\ spent' \in {spent, spent \cup {t}}
      /\ \A u \in Threads \ {t} : stage'[u] = stage[u]
  <2>1. /\ UNCHANGED engine /\ (Works(t) \/ Return(t))
        /\ \E p : pending' = [pending EXCEPT ![t] = p]
        /\ \E b : buffer' = [buffer EXCEPT ![t] = b]
        /\ spent' \in {spent, spent \cup {t}}
    BY <1>1, TransactionWorks
  <2>2. Works(t)
    BY <2>1 DEF Return, InCall
  <2>3. UNCHANGED <<engine, workload, call>> /\ \A u \in Threads \ {t} : stage'[u] = stage[u]
    BY <1>1, <2>1, <2>2 DEF Works, store, GoTo, Sound
  <2> QED
    BY <2>1, <2>3
<1>3. ASSUME NEW u \in Threads \ {t} PROVE PendingOf(u)'
  <2>1. /\ pending'[u] = pending[u] /\ buffer'[u] = buffer[u] /\ u \in spent' <=> u \in spent
        /\ stage'[u] = stage[u] /\ call'[u] = call[u]
    BY <1>1, <1>2
  <2> QED
    BY <1>1, <1>2, <2>1, PendingAlone
<1>4. PendingOf(t)'
  <2>1. /\ KeysOf(t) \subseteq Keys /\ call[t].kind \in CallKinds
        /\ call[t].kind \in workload.kinds
    BY <1>1, CallOf DEF InCall
  <2>2. /\ \A found : Touch(t, found) => stage'[t] = "done"
        /\ \A status : Reject(t, status) => stage'[t] = "done"
        /\ \A place : GoTo(t, place) => stage'[t] = place
    BY <1>1 DEF Touch, Reject, Finish, GoTo
  <2>3. \/ WriteStep(t) \/ AgainStep(t) \/ GiveUpStep(t) \/ SplitStep(t) \/ LookStep(t)
        \/ BatchStep(t) \/ RangeStep(t)
    BY <1>1, TransactionSteps
  <2>r. /\ stage'[t] # "write" /\ stage'[t] # "retry" /\ buffer'[t] = buffer[t]
        /\ "remove" \in workload.kinds => pending'[t].put = {}
        /\ "remove" \notin workload.kinds => pending'[t].del = {}
        /\ workload.kinds \cap {"batch_read", "range_select", "scan"} # {} =>
             pending'[t] = Nothing
        /\ spent' = spent \/ engine = "rocksdb_transaction"
        => PendingOf(t)'
    BY <1>1, <1>2 DEF PendingOf
  <2>p. pending[t] \in Pending /\ \A f : [pending EXCEPT ![t] = f][t] = f
    BY <1>1
  <2>4. stage[t] \in {"write", "retry"} => call[t].kind \in {"upsert", "update", "remove"}
    BY <1>1 DEF PendingOf
  <2>5. CASE WriteStep(t)
    <3>1. call[t].kind \in Writes \cup {"update", "remove"}
      BY <2>4, <2>5 DEF WriteStep, Writes
    <3>2. /\ workload.kinds \cap {"batch_read", "range_select", "scan"} = {}
          /\ "remove" \in workload.kinds <=> call[t].kind = "remove"
      BY <1>1, <3>1, WritesAlone DEF Writes
    <3>3. stage'[t] = "done" /\ buffer' = buffer /\ spent' = spent
      BY <2>2, <2>5 DEF WriteStep, Joins
    <3>4. pending'[t] = IF call[t].kind = "remove"
                          THEN [put |-> pending[t].put \ KeysOf(t),
                                del |-> pending[t].del \cup KeysOf(t)]
                          ELSE [put |-> pending[t].put \cup KeysOf(t),
                                del |-> pending[t].del \ KeysOf(t)]
      BY <1>1, <2>5 DEF WriteStep, Joins
    <3>5. /\ "remove" \in workload.kinds => pending[t].put = {}
          /\ "remove" \notin workload.kinds => pending[t].del = {}
      BY <1>1 DEF PendingOf
    <3> QED
      BY <2>r, <3>2, <3>3, <3>4, <3>5
  <2>6. CASE AgainStep(t)
    <3>1. /\ stage'[t] = "retry" /\ buffer' = buffer /\ pending'[t] \in {Nothing, pending[t]}
          /\ engine = "rocksdb_transaction" /\ call[t].kind \in {"upsert", "update", "remove"}
          /\ t \in spent'
      BY <1>1, <2>2, <2>4, <2>6 DEF AgainStep, CommitsOnce, Commits
    <3> QED
      BY <1>1, <1>2, <3>1 DEF PendingOf, Nothing
  <2>7. CASE GiveUpStep(t)
    <3>1. stage'[t] = "done" /\ UNCHANGED <<pending, buffer, spent>>
      BY <2>2, <2>7 DEF GiveUpStep
    <3> QED
      BY <1>1, <1>2, <3>1, PendingAlone
  <2>8. CASE SplitStep(t)
    <3>1. stage'[t] = "done" /\ call[t].kind \in {"batch_upsert", "bulk_load"} /\ buffer' = buffer
      BY <2>2, <2>8 DEF SplitStep, Splits
    <3>2. /\ workload.kinds \cap {"batch_read", "range_select", "scan"} = {}
          /\ "remove" \notin workload.kinds
      BY <1>1, <3>1, WritesAlone
    <3>3. pending'[t].del = {} /\ engine = "rocksdb_transaction"
      <4>1. pending[t].del = {}
        BY <1>1, <3>2 DEF PendingOf
      <4> QED
        BY <1>1, <2>8, <4>1 DEF SplitStep, Splits
    <3> QED
      BY <2>r, <3>1, <3>2, <3>3
  <2>9. CASE LookStep(t)
    <3>1. /\ UNCHANGED <<pending, buffer, spent>>
          /\ stage'[t] = "done" \/ (stage'[t] = "write" /\ call[t].kind = "update")
      BY <2>2, <2>9 DEF LookStep
    <3> QED
      BY <1>1, <1>2, <3>1 DEF PendingOf
  <2>10. CASE BatchStep(t)
    <3>1. /\ UNCHANGED <<pending, spent>> /\ Size(t) \in workload.lengths
          /\ buffer'[t] \in {buffer[t], call[t].keys} /\ call[t].kind = "batch_read"
      BY <1>1, <2>10, BatchFilled DEF BatchStep
    <3>2. stage'[t] = "done"
      BY <1>1, <2>2, <2>10, TransactionDone DEF BatchStep
    <3> QED
      BY <1>1, <1>2, <2>1, <3>1, <3>2 DEF PendingOf, Size
  <2>11. CASE RangeStep(t)
    <3>1. UNCHANGED <<pending, buffer, spent>>
      BY <2>11 DEF RangeStep, Transaction!Iterate, Transaction!Reading
    <3>2. stage'[t] = "done"
      BY <1>1, <2>2, <2>11, TransactionDone DEF RangeStep
    <3> QED
      BY <1>1, <1>2, <3>1, <3>2, PendingAlone
  <2> QED
    BY <2>3, <2>5, <2>6, <2>7, <2>8, <2>9, <2>10, <2>11
<1> QED
  BY <1>1, <1>2, <1>3, <1>4, Zenon DEF PendingInv

-----------------------------------------------------------------------------
\* What the threads have together, if nobody removes and if nobody writes.
LEMMA HeldApart ==
  ASSUME NEW t \in Threads
  PROVE  /\ (\A u \in Threads : Coming(u).del = {}) =>
              Held = data \cup ComingPut(t) \cup Coming(t).put
         /\ (\A u \in Threads : Coming(u).put = {}) =>
              Held = data \ (ComingDel(t) \cup Coming(t).del)
<1>1. /\ UNION {pending[u].put : u \in Threads \ spent} = ComingPut(t) \cup Coming(t).put
      /\ UNION {pending[u].del : u \in Threads \ spent} = ComingDel(t) \cup Coming(t).del
  <2>1. \A u \in Threads : u \in spent => Coming(u).put = {} /\ Coming(u).del = {}
    BY DEF Coming, Nothing
  <2>2. \A u \in Threads : u \notin spent => Coming(u) = pending[u]
    BY DEF Coming
  <2>3. UNION {pending[u].put : u \in Threads \ spent} = ComingPut(t) \cup Coming(t).put
    BY <2>1, <2>2 DEF ComingPut
  <2>4. UNION {pending[u].del : u \in Threads \ spent} = ComingDel(t) \cup Coming(t).del
    BY <2>1, <2>2 DEF ComingDel
  <2> QED
    BY <2>3, <2>4
<1>2. Held = (data \cup ComingPut(t) \cup Coming(t).put) \ (ComingDel(t) \cup Coming(t).del)
  BY <1>1, Zenon DEF Held, DataOfAll
<1>3. ASSUME \A u \in Threads : Coming(u).del = {}
      PROVE  ComingDel(t) = {} /\ Coming(t).del = {}
  BY <1>3 DEF ComingDel
<1>4. ASSUME \A u \in Threads : Coming(u).put = {}
      PROVE  ComingPut(t) = {} /\ Coming(t).put = {}
  BY <1>4 DEF ComingPut
<1> QED
  BY <1>2, <1>3, <1>4

\* A step of a thread leaves what the other transactions will commit.
LEMMA OthersCome ==
  ASSUME pending \in [Threads -> Pending], NEW t \in Threads, NEW p,
         pending' = [pending EXCEPT ![t] = p], spent' \in {spent, spent \cup {t}, spent \ {t}}
  PROVE  /\ \A u \in Threads \ {t} : pending'[u] = pending[u] /\ (u \in spent' <=> u \in spent)
         /\ ComingPut(t)' = ComingPut(t) /\ ComingDel(t)' = ComingDel(t)
         /\ Coming(t)' = IF t \in spent' THEN Nothing ELSE p
<1>1. pending'[t] = p /\ \A u \in Threads \ {t} : pending'[u] = pending[u]
  OBVIOUS
<1>2. \A u \in Threads \ {t} : u \in spent' <=> u \in spent
  OBVIOUS
<1>3. \A u \in Threads \ {t} : Coming(u)' = Coming(u)
  BY <1>1, <1>2 DEF Coming
<1>4. Coming(t)' = IF t \in spent' THEN Nothing ELSE p
  BY <1>1 DEF Coming
<1> QED
  BY <1>1, <1>2, <1>3, <1>4 DEF ComingPut, ComingDel

\* A transaction that writes adds to what the threads have together; its commit
\* does not.
LEMMA WritesHeld ==
  ASSUME Sound, PendingInv', NEW t \in Threads, "remove" \notin workload.kinds,
         UNCHANGED workload, NEW p, pending' = [pending EXCEPT ![t] = p],
         spent' \in {spent, spent \cup {t}, spent \ {t}}
  PROVE  /\ Held = data \cup ComingPut(t) \cup Coming(t).put
         /\ Held' = data' \cup ComingPut(t) \cup (IF t \in spent' THEN Nothing ELSE p).put
         /\ Sight(t) = data \cup pending[t].put
<1>1. \A u \in Threads : pending[u].del = {} /\ Coming(u).del = {}
  BY SoundFirm DEF PendingOf, Coming, Nothing
<1>2. \A u \in Threads : Coming(u)'.del = {}
  BY DEF Sound, PendingInv, PendingOf, Coming, Nothing
<1>3. /\ ComingPut(t)' = ComingPut(t)
      /\ Coming(t)' = IF t \in spent' THEN Nothing ELSE p
  BY SoundFirm, OthersCome
<1>4. Held' = data' \cup ComingPut(t)' \cup Coming(t)'.put
  <2>1. (\A u \in Threads : Coming(u).del = {})' =>
          (Held = data \cup ComingPut(t) \cup Coming(t).put)'
    BY HeldApart, PTL
  <2> QED
    BY <1>2, <2>1
<1>5. Sight(t) = data \cup pending[t].put
  BY <1>1 DEF Sight
<1> QED
  BY <1>1, <1>3, <1>4, <1>5, HeldApart

\* A transaction that removes takes away; its commit does not.
LEMMA RemovesHeld ==
  ASSUME Sound, PendingInv', NEW t \in Threads, "remove" \in workload.kinds,
         UNCHANGED workload, NEW p, pending' = [pending EXCEPT ![t] = p],
         spent' \in {spent, spent \cup {t}, spent \ {t}}
  PROVE  /\ Held = data \ (ComingDel(t) \cup Coming(t).del)
         /\ Held' = data' \ (ComingDel(t) \cup (IF t \in spent' THEN Nothing ELSE p).del)
         /\ Sight(t) = data \ pending[t].del
<1>1. \A u \in Threads : pending[u].put = {} /\ Coming(u).put = {}
  BY SoundFirm DEF PendingOf, Coming, Nothing
<1>2. \A u \in Threads : Coming(u)'.put = {}
  BY DEF Sound, PendingInv, PendingOf, Coming, Nothing
<1>3. /\ ComingDel(t)' = ComingDel(t)
      /\ Coming(t)' = IF t \in spent' THEN Nothing ELSE p
  BY SoundFirm, OthersCome
<1>4. Held' = data' \ (ComingDel(t)' \cup Coming(t)'.del)
  <2>1. (\A u \in Threads : Coming(u).put = {})' =>
          (Held = data \ (ComingDel(t) \cup Coming(t).del))'
    BY HeldApart, PTL
  <2> QED
    BY <1>2, <2>1
<1>5. Sight(t) = data \ pending[t].del
  BY <1>1 DEF Sight
<1> QED
  BY <1>1, <1>3, <1>4, <1>5, HeldApart

\* A transaction that is left alone leaves what the threads have together.
LEMMA HeldAlone == UNCHANGED <<data, pending, spent>> => Held' = Held
BY DEF Held, DataOfAll

\* What a thread whose transaction is spent writes in it is not there for them.
LEMMA SpentHeld ==
  ASSUME pending \in [Threads -> Pending], NEW t \in Threads, NEW p, UNCHANGED data,
         pending' = [pending EXCEPT ![t] = p], t \in spent, UNCHANGED spent
  PROVE  Held' = Held
<1>1. \A u \in Threads \ spent : pending'[u] = pending[u]
  OBVIOUS
<1> QED
  BY <1>1 DEF Held, DataOfAll

\* What a write, a commit and a batch do to what the threads have together.  All
\* that a transaction that is spent can do leaves it.
LEMMA StepsHeld ==
  ASSUME Sound, PendingInv', NEW t \in Threads, InCall(t), UNCHANGED workload
  PROVE  /\ WriteStep(t) =>
              Held' = IF t \in spent THEN Held
                      ELSE IF call[t].kind = "remove" THEN Held \ KeysOf(t)
                      ELSE Held \cup KeysOf(t)
         /\ AgainStep(t) => Held' = Held
         /\ SplitStep(t) => IF t \in spent THEN Held' = Held
                            ELSE \E part \in SUBSET KeysOf(t) : Held' = Held \cup part
<1>0. /\ CoreTypes /\ CallInv /\ ShippedMixes /\ PendingOf(t) /\ pending \in [Threads -> Pending]
      /\ Nothing.put = {} /\ Nothing.del = {} /\ spent \subseteq Threads
  BY SoundFirm DEF Sound, Nothing
<1>k. /\ WriteStep(t) => call[t].kind \in Writes \cup {"update", "remove"}
      /\ AgainStep(t) => call[t].kind \in {"upsert", "update", "remove"}
      /\ SplitStep(t) => call[t].kind \in {"batch_upsert", "bulk_load"}
  BY <1>0 DEF WriteStep, AgainStep, SplitStep, PendingOf, Writes
<1>m. ASSUME call[t].kind \in Writes \cup {"update", "remove"}
      PROVE  "remove" \in workload.kinds <=> call[t].kind = "remove"
  BY <1>0, <1>m, WritesAlone DEF Writes
<1>c. t \notin spent => Coming(t) = pending[t]
  BY DEF Coming
<1>1. ASSUME WriteStep(t)
      PROVE  Held' = IF t \in spent THEN Held
                     ELSE IF call[t].kind = "remove" THEN Held \ KeysOf(t)
                     ELSE Held \cup KeysOf(t)
  <2>1. data' = data /\ spent' = spent
    BY <1>1 DEF WriteStep, Joins
  <2> DEFINE p == IF call[t].kind = "remove"
                    THEN [put |-> pending[t].put \ KeysOf(t), del |-> pending[t].del \cup KeysOf(t)]
                    ELSE [put |-> pending[t].put \cup KeysOf(t), del |-> pending[t].del \ KeysOf(t)]
  <2>2. pending' = [pending EXCEPT ![t] = p]
    BY <1>0, <1>1 DEF WriteStep, Joins
  <2>3. /\ call[t].kind = "remove" => p.del = pending[t].del \cup KeysOf(t)
        /\ call[t].kind # "remove" => p.put = pending[t].put \cup KeysOf(t)
    OBVIOUS
  <2> HIDE DEF p
  <2>4. CASE t \in spent
    BY <1>0, <2>1, <2>2, <2>4, SpentHeld
  <2>5. CASE t \notin spent /\ call[t].kind = "remove"
    <3>1. /\ Held = data \ (ComingDel(t) \cup Coming(t).del)
          /\ Held' = data' \ (ComingDel(t) \cup (IF t \in spent' THEN Nothing ELSE p).del)
      BY <1>m, <2>1, <2>2, <2>5, RemovesHeld
    <3> QED
      BY <1>c, <2>1, <2>3, <2>5, <3>1
  <2>6. CASE t \notin spent /\ call[t].kind # "remove"
    <3>1. /\ Held = data \cup ComingPut(t) \cup Coming(t).put
          /\ Held' = data' \cup ComingPut(t) \cup (IF t \in spent' THEN Nothing ELSE p).put
      BY <1>1, <1>k, <1>m, <2>1, <2>2, <2>6, WritesHeld
    <3> QED
      BY <1>c, <2>1, <2>3, <2>6, <3>1
  <2> QED
    BY <2>4, <2>5, <2>6
<1>2. ASSUME AgainStep(t) PROVE Held' = Held
  <2>1. CommitsOnce(t) /\ spent' = spent \cup {t}
    BY <1>2 DEF AgainStep, CommitsOnce
  <2>2. CASE t \in spent
    <3>1. UNCHANGED <<data, pending, spent>>
      BY <2>1, <2>2 DEF CommitsOnce
    <3> QED
      BY <3>1, HeldAlone
  <2>3. CASE t \notin spent
    <3>1. /\ pending' = [pending EXCEPT ![t] = Nothing] /\ data' = Sight(t) /\ t \in spent'
      BY <2>1, <2>3 DEF CommitsOnce, Commits
    <3>2. CASE call[t].kind = "remove"
      <4>1. "remove" \in workload.kinds
        BY <1>m, <3>2
      <4>2. /\ Held = data \ (ComingDel(t) \cup Coming(t).del)
            /\ Held' = data' \ (ComingDel(t) \cup Nothing.del)
            /\ Sight(t) = data \ pending[t].del
        BY <2>1, <3>1, <4>1, RemovesHeld
      <4> QED
        BY <1>0, <1>c, <2>3, <3>1, <4>2
    <3>3. CASE call[t].kind # "remove"
      <4>1. "remove" \notin workload.kinds
        BY <1>2, <1>k, <1>m, <3>3 DEF Writes
      <4>2. /\ Held = data \cup ComingPut(t) \cup Coming(t).put
            /\ Held' = data' \cup ComingPut(t) \cup Nothing.put
            /\ Sight(t) = data \cup pending[t].put
        BY <2>1, <3>1, <4>1, WritesHeld
      <4> QED
        BY <1>0, <1>c, <2>3, <3>1, <4>2
    <3> QED
      BY <3>2, <3>3
  <2> QED
    BY <2>2, <2>3
<1>3. ASSUME SplitStep(t)
      PROVE  IF t \in spent THEN Held' = Held
             ELSE \E part \in SUBSET KeysOf(t) : Held' = Held \cup part
  <2> DEFINE written == KeysOf(t) \ (OthersPut(t) \cup OthersDel(t))
  <2>1. CASE t \in spent
    <3>1. /\ UNCHANGED <<data, spent>>
          /\ \E p : pending' = [pending EXCEPT ![t] = p]
      BY <1>3, <2>1 DEF SplitStep, Splits
    <3> QED
      BY <1>0, <2>1, <3>1, SpentHeld
  <2>2. CASE t \notin spent
    <3>1. PICK first \in KeysOf(t) :
            /\ data' = Sight(t) \cup {k \in written : k < first}
            /\ pending' = [pending EXCEPT ![t] =
                             [put |-> {k \in written : k >= first}, del |-> {}]]
      BY <1>3, <2>2 DEF SplitStep, Splits
    <3>2. spent' = spent \cup {t} /\ t \in spent'
      BY <1>3 DEF SplitStep, Splits
    <3>3. "remove" \notin workload.kinds
      BY <1>3, <1>k, <1>m DEF Writes
    <3> DEFINE part == {k \in written : k < first}
    <3>4. part \in SUBSET KeysOf(t)
      OBVIOUS
    <3> HIDE DEF written, part
    <3>5. /\ Held = data \cup ComingPut(t) \cup Coming(t).put
          /\ Held' = data' \cup ComingPut(t) \cup Nothing.put
          /\ Sight(t) = data \cup pending[t].put
      BY <3>1, <3>2, <3>3, WritesHeld
    <3>6. data' = Sight(t) \cup part
      BY <3>1 DEF part
    <3>7. Held' = Held \cup part
      BY <1>0, <1>c, <2>2, <3>5, <3>6
    <3> QED
      BY <2>2, <3>4, <3>7
  <2> QED
    BY <2>1, <2>2
<1> QED
  BY <1>1, <1>2, <1>3

\* A call of transactions that may do what it likes with its report.
LEMMA HeldOutcome ==
  ASSUME CoreTypes, CallInv, NEW t \in Threads, InCall(t), NEW d, NEW d2,
         call[t].kind \in Loose \ Ranges,
         \/ Touch(t, KeysOf(t)) /\ KeysOf(t) \subseteq d2
         \/ Reject(t, "error") \/ Reject(t, "not_found"),
         Effect(t, d, d2) \/ (call[t].kind = "update" /\ d2 = d \cup KeysOf(t))
  PROVE  Outcome(t, d, d2)
<1>1. Length(t) \in Nat /\ Cardinality(KeysOf(t)) = Length(t)
  BY CallOf, CallCounted DEF InCall
<1>2. {"ok", "error", "not_found"} \subseteq Statuses
  BY DEF Statuses
<1>3. \E status \in Statuses, n \in 0 .. Length(t) + 1, found \in SUBSET d2 :
        Finish(t, status, n, found)
  <2>1. CASE Touch(t, KeysOf(t)) /\ KeysOf(t) \subseteq d2
    <3>1. Finish(t, "ok", Cardinality(KeysOf(t)), KeysOf(t))
      BY <2>1, Zenon DEF Touch
    <3>2. /\ Cardinality(KeysOf(t)) \in 0 .. Length(t) + 1
          /\ KeysOf(t) \in SUBSET d2 /\ "ok" \in Statuses
      BY <1>1, <1>2, <2>1
    <3> QED
      BY <3>1, <3>2, Zenon
  <2>2. ASSUME NEW status \in Statuses, Reject(t, status)
        PROVE  \E s \in Statuses, n \in 0 .. Length(t) + 1, f \in SUBSET d2 : Finish(t, s, n, f)
    <3>1. Finish(t, status, 0, {}) /\ 0 \in 0 .. Length(t) + 1 /\ {} \in SUBSET d2
      BY <1>1, <2>2 DEF Reject
    <3> QED
      BY <3>1, Zenon
  <2> QED
    BY <1>2, <2>1, <2>2
<1> QED
  BY <1>3, Zenon DEF Outcome, Loosely

\* What UStore or RocksDB reports of what it has found: entries, or that there
\* are none.
LEMMA FoundOutcome ==
  ASSUME NEW t, NEW d, NEW n, NEW found, Transaction!FoundSome(t, n, found)
  PROVE  (n = 0 /\ Reject(t, "not_found")) \/ Finish(t, "ok", n, found)
<1>1. Transaction!Reject(t, "not_found") => Reject(t, "not_found")
  BY TransactionCallers, Zenon
<1>2. Transaction!Finish(t, "ok", n, found) => Finish(t, "ok", n, found)
  BY TransactionCallers, Zenon
<1> QED
  BY <1>1, <1>2, Zenon DEF Transaction!FoundSome

\* A workload that looks up batches or ranges has nothing in its transactions.
LEMMA NothingHeld ==
  ASSUME Sound, NEW t \in Threads,
         workload.kinds \cap {"batch_read", "range_select", "scan"} # {}
  PROVE  Held = data /\ Transaction!View(t) = data
<1>1. \A u \in Threads : pending[u].put = {} /\ pending[u].del = {}
  BY SoundFirm DEF PendingOf, Nothing
<1>2. Held = data
  BY <1>1 DEF Held, DataOfAll
<1>3. Sight(t) = data
  BY <1>1 DEF Sight
<1> QED
  BY <1>2, <1>3, TransactionSees

\* The places in a sequence of different keys where those of a set are, are as
\* many as these.
LEMMA HitsCount ==
  ASSUME NEW s \in Seq(Keys), \A i, j \in 1 .. Len(s) : s[i] = s[j] => i = j, NEW d
  PROVE  /\ {s[i] : i \in {i \in 1 .. Len(s) : s[i] \in d}} = Range(s) \cap d
         /\ Cardinality({i \in 1 .. Len(s) : s[i] \in d}) = Cardinality(Range(s) \cap d)
<1> DEFINE hits == {i \in 1 .. Len(s) : s[i] \in d}
           R == Range(s) \cap d
           f == [i \in hits |-> s[i]]
<1>1. Range(s) = {s[i] : i \in 1 .. Len(s)}
  BY DEF Range
<1>2. {s[i] : i \in hits} = R
  BY <1>1
<1>3. f \in [hits -> R] /\ (\A i, j \in hits : f[i] = f[j] => i = j)
  BY <1>1
<1>4. \A y \in R : \E i \in hits : f[i] = y
  BY <1>1
<1>5. IsFiniteSet(hits)
  <2>1. IsFiniteSet(1 .. Len(s))
    BY FS_Interval
  <2>2. hits \in SUBSET (1 .. Len(s))
    OBVIOUS
  <2> HIDE DEF hits
  <2> QED
    BY <2>1, <2>2, FS_Subset
<1> HIDE DEF hits, R, f
<1>6. f \in Surjection(hits, R) /\ f \in Injection(hits, R)
  BY <1>3, <1>4, Fun_IsSurj, Fun_IsInj
<1>7. Cardinality(R) = Cardinality(hits)
  BY <1>5, <1>6, FS_Surjection
<1> QED
  BY <1>2, <1>7 DEF hits, R

\* A batch of reads is told what is there.
LEMMA BatchOutcome ==
  ASSUME Sound, NEW t \in Threads, InCall(t), BatchStep(t)
  PROVE  Held' = Held /\ Outcome(t, Held, Held')
<1>1. /\ CoreTypes /\ CallInv /\ TransactionInv /\ PendingOf(t) /\ OneBatchLength /\ ~mayFail
  BY SoundFirm DEF Sound
<1>2. /\ UNCHANGED <<data, pending, spent>>
      /\ engine = "rocksdb_transaction" => buffer'[t] = call[t].keys
  BY <1>1, BatchFilled
<1>3. /\ call[t].kind = "batch_read" /\ call[t].keys \in Seq(Keys)
      /\ workload.kinds \cap {"batch_read", "range_select", "scan"} # {}
  BY <1>1, CallOf DEF BatchStep, InCall
<1>4. Held = data /\ Transaction!View(t) = data /\ Held' = Held
  BY <1>2, <1>3, NothingHeld, HeldAlone
<1>5. \A i, j \in 1 .. Len(call[t].keys) : call[t].keys[i] = call[t].keys[j] => i = j
  BY <1>1, CallCounted DEF Size
<1> DEFINE s == call[t].keys
           hits == {i \in 1 .. Len(s) : s[i] \in data}
           met == KeysOf(t) \cap Held
<1>6. {s[i] : i \in hits} = met /\ Cardinality(hits) = Cardinality(met)
  <2>1. /\ {s[i] : i \in hits} = Range(s) \cap data
        /\ Cardinality(hits) = Cardinality(Range(s) \cap data)
    BY <1>3, <1>5, HitsCount
  <2>2. met = Range(s) \cap data
    BY <1>4 DEF KeysOf
  <2> HIDE DEF hits, met, s
  <2> QED
    BY <2>1, <2>2
<1>7. Transaction!FoundSome(t, Cardinality(hits), {s[i] : i \in hits})
  <2> DEFINE keys == IF Transaction!RocksDB THEN buffer'[t] ELSE s
             found == {i \in 1 .. Len(keys) : keys[i] \in Transaction!View(t)}
  <2>1. \E some \in IF mayFail /\ Transaction!RocksDB THEN SUBSET found ELSE {found} :
          Transaction!FoundSome(t, Cardinality(some), {keys[i] : i \in some})
    <3>1. \A S : Transaction!Cardinality(S) = Cardinality(S)
      BY TransactionCallers, Zenon
    <3> QED
      BY <1>1, <3>1, Zenon DEF BatchStep, Transaction!BatchRead
  <2>2. Transaction!FoundSome(t, Cardinality(found), {keys[i] : i \in found})
    <3> HIDE DEF found, keys
    <3> QED
      BY <1>1, <2>1, Zenon
  <2>3. keys = s
    BY <1>2, TransactionSees
  <2>4. found = hits
    BY <1>4, <2>3
  <2> HIDE DEF found, keys, hits, s
  <2> QED
    BY <2>2, <2>3, <2>4
<1>8. Transaction!FoundSome(t, Cardinality(met), met)
  <2> HIDE DEF hits, met, s
  <2> QED
    BY <1>6, <1>7
<1>9. Exact(t, Held, Held')
  <2>1. Effect(t, Held, Held')
    BY <1>3, <1>4 DEF Effect, Lookups
  <2>2. (Cardinality(met) = 0 /\ Reject(t, "not_found")) \/ Touch(t, met)
    BY <1>8, FoundOutcome, Zenon DEF Touch
  <2>3. Cardinality(met) = 0 => met = {}
    <3>1. IsFiniteSet(met)
      BY <1>3, KeysFinite, <1>4, <1>1 DEF CoreTypes
    <3> HIDE DEF met
    <3> QED
      BY <3>1, FS_EmptySet
  <2>4. call[t].kind \in Lookups
    BY <1>3 DEF Lookups
  <2> QED
    BY <1>3, <2>1, <2>2, <2>3, <2>4, Zenon DEF Exact
<1> QED
  BY <1>4, <1>9, Zenon DEF Outcome

\* A range is told what is there, unless UStore scans it in chunks.
LEMMA RangeHeld ==
  ASSUME Sound, NEW t \in Threads, InCall(t), RangeStep(t)
  PROVE  Held' = Held /\ Outcome(t, Held, Held')
<1>1. /\ CoreTypes /\ CallInv /\ ~mayFail /\ engine \in Transactions
  BY SoundFirm DEF Sound
<1>2. UNCHANGED <<data, pending, spent>>
  BY Zenon DEF RangeStep, Transaction!Iterate, Transaction!Reading
<1>3. /\ call[t].kind \in Ranges
      /\ workload.kinds \cap {"batch_read", "range_select", "scan"} # {}
      /\ Key(t) \in Nat /\ Length(t) \in Nat \ {0}
  BY <1>1, CallOf, KeysFinite DEF RangeStep, InCall, Ranges
<1>4. Held = data /\ Transaction!View(t) = data /\ Held' = Held /\ data \in SUBSET Keys
  BY <1>1, <1>2, <1>3, NothingHeld, HeldAlone DEF CoreTypes
<1>5. Effect(t, Held, Held')
  BY <1>3, <1>4 DEF Effect
<1> DEFINE met == Met(t, Held)
           F == Transaction!Scanned(t)
<1>6. \/ Transaction!FoundSome(t, Cardinality(met), met)
      \/ /\ engine # "rocksdb_transaction" /\ call[t].kind # "range_select"
         /\ Transaction!FoundSome(t, Cardinality(F), {entry[2] : entry \in F})
  <2>1. Transaction!Beyond(t, Transaction!Key(t), Transaction!Length(t)) = met
    BY <1>4, TransactionCallers, Zenon DEF Transaction!Beyond, Met
  <2>2. \A S : Transaction!Cardinality(S) = Cardinality(S)
    BY TransactionCallers, Zenon
  <2>3. IF Transaction!RocksDB \/ call[t].kind = "range_select"
          THEN Transaction!FoundSome(t, Cardinality(met), met)
          ELSE Transaction!FoundSome(t, Cardinality(F), {entry[2] : entry \in F})
    BY <1>1, <2>1, <2>2, Zenon DEF RangeStep, Transaction!Iterate
  <2> HIDE DEF F, met
  <2> QED
    BY <2>3, TransactionSees
<1>7. ASSUME Transaction!FoundSome(t, Cardinality(met), met) PROVE Exact(t, Held, Held')
  <2>1. (Cardinality(met) = 0 /\ Reject(t, "not_found")) \/ Touch(t, met)
    BY <1>7, FoundOutcome, Zenon DEF Touch
  <2>2. Cardinality(met) = 0 => met = {}
    <3>1. met \in SUBSET Keys
      BY <1>4 DEF Met, FirstNumbers
    <3>2. IsFiniteSet(met)
      BY <3>1, KeysFinite
    <3> HIDE DEF met
    <3> QED
      BY <3>2, FS_EmptySet
  <2> QED
    BY <1>3, <1>5, <2>1, <2>2, Zenon DEF Exact, Misses
<1>8. ASSUME engine # "rocksdb_transaction", call[t].kind # "range_select",
             Transaction!FoundSome(t, Cardinality(F), {entry[2] : entry \in F})
      PROVE  Loosely(t, Held, Held')
  <2>1. call[t].kind \in Loose /\ {"ok", "not_found"} \subseteq Statuses
    BY <1>1, <1>3, <1>8 DEF Loose, Transactions, Ranges, UStores, Statuses
  <2>2. F = InChunks(data, Key(t), Length(t))
    <3>1. /\ \A S : Transaction!Min(S) = Min(S)
          /\ Transaction!Key(t) = Key(t) /\ Transaction!Length(t) = Length(t)
          /\ \A S, n : Transaction!FirstNumbers(S, n) = FirstNumbers(S, n)
      BY TransactionCallers, Zenon DEF Transaction!Min, Min
    <3>2. \A i : Transaction!ChunkOf(t, i) = FirstNumbers({x \in data : x >= Key(t) + i * Chunk},
                                                          Min({Chunk, Length(t) - i * Chunk}))
      BY <1>4, <3>1, Zenon DEF Transaction!ChunkOf, Transaction!Beyond
    <3> QED
      BY <3>1, <3>2, Zenon DEF Transaction!Scanned, InChunks
  <2> HIDE DEF F
  <2>3. Cardinality(F) \in 0 .. Length(t) /\ {entry[2] : entry \in F} \subseteq data
    BY <1>3, <1>4, <2>2, ChunksCount
  <2>4. \/ Reject(t, "not_found")
        \/ Finish(t, "ok", Cardinality(F), {entry[2] : entry \in F})
    BY <1>8, FoundOutcome, Zenon
  <2>5. /\ Cardinality(F) \in 0 .. Length(t) + 1 /\ 0 \in 0 .. Length(t) + 1
        /\ {entry[2] : entry \in F} \in SUBSET Held' /\ {} \in SUBSET Held'
    BY <1>3, <1>4, <2>3
  <2>6. \E status \in Statuses, n \in 0 .. Length(t) + 1, found \in SUBSET Held' :
          Finish(t, status, n, found)
    BY <2>1, <2>4, <2>5 DEF Reject
  <2> QED
    BY <1>5, <2>1, <2>6, Zenon DEF Loosely
<1> QED
  BY <1>4, <1>6, <1>7, <1>8, Zenon DEF Outcome

\* A call of transactions takes effect when it is told its result, whenever what
\* it has written is committed; that of a spent transaction has none.
LEMMA TransactionCalls ==
  ASSUME Sound, PendingInv', NEW t \in Threads, InCall(t), Transaction!Progress(t),
         UNCHANGED workload
  PROVE  \/ UNCHANGED spent /\ Outcome(t, Held, Held')
         \/ /\ UNCHANGED <<spent, reply>> /\ Held' = Held
            /\ \E place \in Between : GoTo(t, place)
         \/ /\ spent' = spent \cup {t} /\ UNCHANGED reply /\ Held' = Held
            /\ \E place \in Between : GoTo(t, place)
            /\ call[t].kind \in Loose /\ call[t].kind \in {"upsert", "update", "remove"}
         \/ spent' = spent \cup {t} /\ Told(t) /\ Lossily(t, Held, Held')
<1>1. /\ CoreTypes /\ CallInv /\ TransactionInv /\ PendingOf(t) /\ ~mayFail /\ ShippedMixes
      /\ engine \in Transactions
  BY SoundFirm DEF Sound
<1>l. /\ engine = "rocksdb_transaction" =>
           Loose \ Ranges = {"read", "upsert", "update", "remove", "batch_upsert", "bulk_load"}
      /\ {"read", "update"} \subseteq Loose \ Ranges
  BY <1>1 DEF Loose, Ranges, UStores, Transactions
<1>k. call[t].kind \in {"upsert", "update", "remove", "read"} => KeysOf(t) = {Key(t)}
  BY <1>1, CallCounted
<1>t. Touch(t, KeysOf(t)) => Told(t)
  <2>1. KeysOf(t) \in SUBSET Keys
    BY <1>1, CallOf DEF InCall
  <2> QED
    BY <2>1, ResultTold DEF Statuses
<1>s. ASSUME t \in spent, UNCHANGED spent, Touch(t, KeysOf(t)), Held' = Held
      PROVE  spent' = spent \cup {t} /\ Told(t) /\ Lossily(t, Held, Held')
  BY <1>s, <1>t DEF Lossily
<1>2. CASE WriteStep(t)
  <2>1. /\ Held' = IF t \in spent THEN Held
                   ELSE IF call[t].kind = "remove" THEN Held \ KeysOf(t) ELSE Held \cup KeysOf(t)
        /\ UNCHANGED spent
    BY <1>2, StepsHeld DEF WriteStep, Joins
  <2>2. /\ call[t].kind \in Writes \cup {"update", "remove"} /\ Touch(t, KeysOf(t))
    BY <1>1, <1>2 DEF WriteStep, PendingOf, Writes
  <2>3. CASE t \notin spent /\ call[t].kind = "update"
    <3>1. Held' = Held \cup KeysOf(t) /\ KeysOf(t) \subseteq Held'
      BY <2>1, <2>3
    <3> QED
      BY <1>1, <1>l, <2>1, <2>2, <2>3, <3>1, HeldOutcome
  <2>4. CASE t \notin spent /\ call[t].kind \in Writes \cup {"remove"}
    <3>1. Effect(t, Held, Held')
      BY <2>1, <2>4 DEF Effect, Writes
    <3> QED
      BY <2>1, <2>2, <2>4, <3>1, Zenon DEF Outcome, Exact
  <2>5. CASE t \in spent
    BY <1>s, <2>1, <2>2, <2>5, Zenon
  <2> QED
    BY <2>2, <2>3, <2>4, <2>5
<1>3. CASE AgainStep(t)
  <2>1. Held' = Held
    BY <1>3, StepsHeld
  <2>2. /\ spent' = spent \cup {t} /\ UNCHANGED reply /\ GoTo(t, "retry")
        /\ engine = "rocksdb_transaction" /\ call[t].kind \in {"upsert", "update", "remove"}
    BY <1>1, <1>3 DEF AgainStep, CommitsOnce, PendingOf
  <2> QED
    BY <1>l, <2>1, <2>2 DEF Between
<1>4. CASE GiveUpStep(t)
  <2>1. Held' = Held /\ UNCHANGED spent /\ t \in spent
    BY <1>1, <1>4, HeldAlone DEF GiveUpStep, PendingOf
  <2>2. Told(t)
    <3>1. Reject(t, "error")
      BY <1>4 DEF GiveUpStep
    <3>2. "error" \in Statuses /\ {} \in SUBSET Keys
      BY DEF Statuses
    <3> QED
      BY <3>1, <3>2, ResultTold
  <2> QED
    BY <2>1, <2>2 DEF Lossily
<1>5. CASE SplitStep(t)
  <2>1. IF t \in spent THEN Held' = Held
        ELSE \E part \in SUBSET KeysOf(t) : Held' = Held \cup part
    BY <1>5, StepsHeld
  <2>2. /\ call[t].kind \in {"batch_upsert", "bulk_load"} /\ Touch(t, KeysOf(t))
        /\ engine = "rocksdb_transaction" /\ spent' = spent \cup {t}
    BY <1>5 DEF SplitStep, Splits
  <2>3. Lossily(t, Held, Held')
    BY <1>l, <2>1, <2>2 DEF Lossily
  <2> QED
    BY <1>t, <2>2, <2>3
<1>6. CASE LookStep(t)
  <2>1. Held' = Held /\ call[t].kind \in {"read", "update"} /\ UNCHANGED spent
    BY <1>6, HeldAlone DEF LookStep
  <2>2. Effect(t, Held, Held')
    BY <2>1 DEF Effect, Lookups
  <2>3. CASE GoTo(t, "write") /\ UNCHANGED reply
    BY <2>1, <2>3 DEF Between
  <2>4. CASE Reject(t, "not_found")
    BY <1>1, <1>l, <2>1, <2>2, <2>4, HeldOutcome
  <2>5. CASE t \in spent /\ Touch(t, KeysOf(t))
    BY <1>s, <2>1, <2>5, Zenon
  <2>6. CASE t \notin spent /\ call[t].kind = "read" /\ Key(t) \in Sight(t) /\ Touch(t, KeysOf(t))
    <3>1. "remove" \notin workload.kinds
      <4>1. workload \in Workloads /\ "read" \in workload.kinds
        BY <1>1, <2>6, CallOf DEF InCall
      <4> QED
        BY <1>1, <4>1 DEF ShippedMixes
    <3>2. pending = [pending EXCEPT ![t] = pending[t]]
      BY SoundFirm
    <3>3. pending' = [pending EXCEPT ![t] = pending[t]]
      BY <1>6, <3>2 DEF LookStep
    <3>4. /\ Held = data \cup ComingPut(t) \cup Coming(t).put
          /\ Sight(t) = data \cup pending[t].put
      BY <2>1, <3>1, <3>3, WritesHeld
    <3>5. KeysOf(t) \subseteq Held'
      BY <1>k, <2>1, <2>6, <3>4 DEF Coming
    <3> QED
      BY <1>1, <1>l, <2>1, <2>2, <2>6, <3>5, HeldOutcome
  <2> QED
    BY <1>6, <2>3, <2>4, <2>5, <2>6 DEF LookStep
<1>7. CASE BatchStep(t)
  <2>1. UNCHANGED spent
    BY <1>7 DEF BatchStep, Transaction!BatchRead, Transaction!Reading
  <2> QED
    BY <1>7, <2>1, BatchOutcome
<1>8. CASE RangeStep(t)
  <2>1. UNCHANGED spent
    BY <1>8 DEF RangeStep, Transaction!Iterate, Transaction!Reading
  <2> QED
    BY <1>8, <2>1, RangeHeld
<1>9. \/ WriteStep(t) \/ AgainStep(t) \/ GiveUpStep(t) \/ SplitStep(t) \/ LookStep(t)
      \/ BatchStep(t) \/ RangeStep(t)
  BY <1>1, TransactionSteps
<1> QED
  BY <1>2, <1>3, <1>4, <1>5, <1>6, <1>7, <1>8, <1>9

\* Transactions do what the interface promises, if the engine does not fail: what
\* is written is there for all of them at once, whenever it is committed, until
\* the transaction is spent.
LEMMA TransactionRefines ==
  ASSUME AdaptersInv, AdaptersInv', PendingInv, ShippedMixes, OneBatchLength,
         OnTransaction(Transaction!Next)
  PROVE  UNCHANGED engine /\ Refines /\ PendingInv'
<1>1. /\ UNCHANGED <<mayFail, engine>> /\ engine \in Transactions /\ Transaction!Next
  BY TransactionSame DEF OnTransaction
<1>2. CASE mayFail
  <2>1. ~Promised /\ ~Promised'
    BY <1>1, <1>2, Zenon DEF Promised
  <2>2. PendingInv'
    BY <1>1, <1>2, Zenon DEF PendingInv
  <2> QED
    BY <1>1, <2>1, <2>2, NotPromised, Zenon DEF Refines
<1>3. CASE ~mayFail
  <2>1. Sound
    BY <1>1, <1>3, Zenon DEF Sound
  <2>2. /\ Firm /\ CoreTypes /\ CallInv /\ CallInv' /\ TransactionInv
        /\ pending \in [Threads -> Pending] /\ buffer \in [Threads -> Seq(Keys)]
        /\ \A u \in Threads : PendingOf(u)
        /\ stage \in [Threads -> Places] /\ spent \subseteq Threads
        /\ UNCHANGED spent => Steady
    BY <2>1, SoundFirm DEF CoreTypes, Steady
  <2>p. (\A u \in Threads : PendingOf(u)') => PendingInv'
    BY Zenon DEF PendingInv
  <2>3. CASE Transaction!Open
    <3>1. OpenDb /\ UNCHANGED <<data, engine, pending, buffer, spent>>
      BY <2>3, TransactionCallers DEF Transaction!Open, Transaction!own
    <3>2. \A u \in Threads : /\ pending[u] = Nothing /\ buffer[u] = << >> /\ u \notin spent
                             /\ stage[u] = "idle" /\ stage'[u] = "idle"
      BY <2>2, <3>1 DEF OpenDb, CallInv, TransactionInv
    <3>3. \A u \in Threads : PendingOf(u)'
      BY <3>1, <3>2 DEF PendingOf, Nothing
    <3>4. Held' = Held
      BY <3>1, HeldAlone
    <3> QED
      BY <1>1, <2>2, <2>p, <3>1, <3>3, <3>4, DriverRefines
  <2>4. CASE Transaction!Flush \/ Transaction!Close
    <3>1. /\ FlushDb \/ Closes
          /\ UNCHANGED <<workload, data, engine, pending, buffer, spent>>
          /\ \/ stage' = stage /\ call' = call
             \/ stage' = [u \in Threads |-> "idle"]
      BY <2>4, TransactionCallers DEF Transaction!Flush, Transaction!Close, Transaction!own,
         FlushDb, Closes, CloseDb
    <3>2. ASSUME NEW u \in Threads PROVE PendingOf(u)'
      <4>1. \/ stage'[u] \in {"idle", "called", "done", "ended"}
            \/ stage'[u] = stage[u] /\ call'[u] = call[u]
        BY <3>1
      <4> QED
        BY <2>2, <3>1, <4>1, PendingAlone
    <3>3. Held' = Held
      BY <3>1, HeldAlone
    <3> QED
      BY <1>1, <2>2, <2>p, <3>1, <3>2, <3>3, DriverRefines
  <2>5. ASSUME NEW t \in Threads, Transaction!End(t) PROVE Refines /\ PendingInv'
    <3>1. /\ stage[t] = "idle" /\ UNCHANGED <<workload, call, reply, engine>>
          /\ stage' = [stage EXCEPT ![t] = "ended"]
          /\ buffer' = [buffer EXCEPT ![t] = << >>] /\ spent' = spent \ {t}
      BY <2>5, TransactionCallers DEF Transaction!End, Transaction!store, GoTo
    <3>2. /\ pending' = [pending EXCEPT ![t] = Nothing]
          /\ data' = IF t \in spent THEN data ELSE Sight(t)
      <4>1. Transaction!Commit(t) \/ (t \in spent /\ Transaction!Rollback(t))
        BY <1>3, <2>5, Zenon DEF Transaction!End
      <4>2. t \in spent => Transaction!RocksDB
        BY <2>2, TransactionSees DEF PendingOf
      <4> QED
        BY <4>1, <4>2, TransactionSees, Zenon DEF Transaction!Commit, Transaction!Rollback
    <3>3. \A u \in Threads : PendingOf(u)'
      <4>1. PendingOf(t)'
        BY <2>2, <3>1, <3>2 DEF PendingOf, Nothing
      <4>2. ASSUME NEW u \in Threads \ {t} PROVE PendingOf(u)'
        <5>1. /\ pending'[u] = pending[u] /\ buffer'[u] = buffer[u]
              /\ u \in spent' <=> u \in spent
              /\ stage'[u] = stage[u] /\ call'[u] = call[u]
          BY <2>2, <3>1, <3>2
        <5> QED
          BY <2>2, <3>1, <5>1, PendingAlone
      <4> QED
        BY <4>1, <4>2
    <3>4. PendingInv'
      BY <2>p, <3>3
    <3>5. Held' = Held
      <4>1. /\ Coming(t) = IF t \in spent THEN Nothing ELSE pending[t]
            /\ Nothing.put = {} /\ Nothing.del = {}
        BY DEF Coming, Nothing
      <4>2. CASE "remove" \in workload.kinds
        <5>1. /\ Held = data \ (ComingDel(t) \cup Coming(t).del)
              /\ Held' = data' \ (ComingDel(t) \cup Nothing.del)
              /\ Sight(t) = data \ pending[t].del
          BY <2>1, <3>1, <3>2, <3>4, <4>2, RemovesHeld
        <5> QED
          BY <3>2, <4>1, <5>1
      <4>3. CASE "remove" \notin workload.kinds
        <5>1. /\ Held = data \cup ComingPut(t) \cup Coming(t).put
              /\ Held' = data' \cup ComingPut(t) \cup Nothing.put
              /\ Sight(t) = data \cup pending[t].put
          BY <2>1, <3>1, <3>2, <3>4, <4>3, WritesHeld
        <5> QED
          BY <3>2, <4>1, <5>1
      <4> QED
        BY <4>2, <4>3
    <3>6. Phase' = Phase /\ Phase[t] = "idle"
      <4>1. \A u \in Threads : Seen(stage'[u]) = Seen(stage[u])
        BY <2>2, <3>1 DEF Seen, Between
      <4> QED
        BY <3>1, <4>1 DEF Phase, Seen, Between
    <3> QED
      BY <2>2, <3>1, <3>4, <3>5, <3>6, EndsLossy
  <2>6. ASSUME NEW t \in Threads, Invoke(t) \/ Return(t), UNCHANGED <<pending, buffer, spent>>
        PROVE  Refines /\ PendingInv'
    <3>1. /\ UNCHANGED <<workload, data>> /\ stage'[t] \in {"idle", "called"}
          /\ \A u \in Threads \ {t} : stage'[u] = stage[u] /\ call'[u] = call[u]
      <4>1. call \in [Threads -> Calls]
        BY <2>2 DEF CoreTypes
      <4>2. CASE Invoke(t)
        <5>1. \E c : call' = [call EXCEPT ![t] = c]
          BY <4>2, Zenon DEF Invoke
        <5>2. /\ UNCHANGED <<workload, data>> /\ stage' = [stage EXCEPT ![t] = "called"]
          BY <4>2 DEF Invoke, store
        <5> QED
          BY <2>2, <4>1, <5>1, <5>2
      <4>3. CASE Return(t)
        BY <2>2, <4>1, <4>3 DEF Return, store
      <4> QED
        BY <2>6, <4>2, <4>3
    <3>2. ASSUME NEW u \in Threads PROVE PendingOf(u)'
      <4>1. \/ stage'[u] \in {"idle", "called", "done", "ended"}
            \/ stage'[u] = stage[u] /\ call'[u] = call[u]
        BY <3>1
      <4> QED
        BY <1>1, <2>2, <2>6, <3>1, <4>1, PendingAlone
    <3>3. Held' = Held
      BY <2>6, <3>1, HeldAlone
    <3> QED
      BY <2>2, <2>6, <2>p, <3>2, <3>3, InvokeRefines, ReturnRefines
  <2>7. ASSUME NEW t \in Threads, Transaction!Progress(t), InCall(t) PROVE Refines /\ PendingInv'
    <3>1. PendingInv'
      BY <2>1, <2>7, PendingWorks
    <3>2. Works(t)
      <4>1. Works(t) \/ Return(t)
        BY <2>2, <2>7, TransactionWorks
      <4> QED
        BY <2>7, <4>1 DEF Return, InCall
    <3>3. UNCHANGED <<workload, call>>
      BY <3>2 DEF Works, store
    <3>4. CASE UNCHANGED spent /\ Outcome(t, Held, Held')
      BY <2>2, <2>7, <3>1, <3>3, <3>4, OutcomeRefines
    <3>5. CASE /\ UNCHANGED <<spent, reply>> /\ Held' = Held
               /\ \E place \in Between : GoTo(t, place)
      BY <2>2, <2>7, <3>1, <3>3, <3>5, GoesOn
    <3>6. CASE /\ spent' = spent \cup {t} /\ UNCHANGED reply /\ Held' = Held
               /\ \E place \in Between : GoTo(t, place)
               /\ call[t].kind \in Loose /\ call[t].kind \in {"upsert", "update", "remove"}
      BY <2>2, <2>7, <3>1, <3>3, <3>6, TurnsLossy
    <3>7. CASE spent' = spent \cup {t} /\ Told(t) /\ Lossily(t, Held, Held')
      BY <2>2, <2>7, <3>1, <3>3, <3>7, PerformsLossily
    <3> QED
      BY <2>1, <2>7, <3>1, <3>3, <3>4, <3>5, <3>6, <3>7, TransactionCalls
  <2>8. ASSUME NEW t \in Threads, Transaction!Progress(t), ~InCall(t) PROVE Refines /\ PendingInv'
    <3>1. stage[t] \notin {"called", "write", "retry"}
      BY <2>8 DEF InCall
    <3>2. Transaction!Return(t) /\ UNCHANGED Transaction!own
      BY <2>8, <3>1, TransactionCallers DEF Transaction!Progress, Transaction!Write,
         Transaction!Retry, Transaction!BatchUpsert, Transaction!UpdateGet, Transaction!Read,
         Transaction!BatchRead, Transaction!Iterate, Called, At
    <3>3. Return(t) /\ UNCHANGED <<pending, buffer, spent>>
      BY <3>2, TransactionCallers DEF Transaction!own
    <3> QED
      BY <2>6, <3>3
  <2>9. ASSUME NEW t \in Threads, Transaction!Invoke(t), UNCHANGED <<engine, Transaction!own>>
        PROVE  Refines /\ PendingInv'
    BY <2>6, <2>9, TransactionCallers DEF Transaction!own
  <2> QED
    BY <1>1, <2>3, <2>4, <2>5, <2>7, <2>8, <2>9, Zenon DEF Transaction!Next
<1> QED
  BY <1>2, <1>3

-----------------------------------------------------------------------------
(***************************************************************************)
(* Every step of every database is one of Accessor, or none for it.        *)
(***************************************************************************)

\* At first nobody calls, and there are no data.
LEMMA InitRefines == Init => Accessor!Init /\ RefineInv
<1> SUFFICES ASSUME Init PROVE Accessor!Init /\ RefineInv
  OBVIOUS
<1>1. /\ mayFail \in BOOLEAN /\ data = {}
      /\ stage = [t \in Threads |-> "idle"]
      /\ call  = [t \in Threads |-> NoCall]
      /\ reply = [t \in Threads |-> NoAnswer]
      /\ batch_keys = [t \in Threads |-> {}]
      /\ pending = [t \in Threads |-> Nothing]
      /\ buffer  = [t \in Threads |-> << >>]
      /\ spent = {}
  BY Zenon DEF Init, Transaction!Init, Transaction!CallerInit, Transaction!Nothing, Nothing,
     Transaction!NoCall, NoCall, Transaction!NoAnswer, NoAnswer, MongoDB!Init
<1>2. AdaptersInv
  BY AdaptersInit
<1>3. engine \in {"leveldb", "lmdb", "wiredtiger", "mongodb", "redis"}
                   \cup UStores \cup Transactions
  BY <1>2, AdaptersAssumption DEF AdaptersInv, CoreTypes
<1>4. Loose \subseteq Accessor!CallKinds
  BY <1>3 DEF Loose, Ranges, UStores, Transactions, Accessor!CallKinds, Accessor!WriteKinds,
     Accessor!FindKinds, Accessor!RangeKinds
<1>5. AccessorDb = {} /\ AccessorLossy = {}
  <2>1. \A t \in Threads : pending[t].put = {} /\ pending[t].del = {}
    BY <1>1 DEF Nothing
  <2>2. DataOfAll = {}
    BY <1>1, <2>1 DEF DataOfAll
  <2> QED
    BY <1>1, <2>2 DEF AccessorDb, AccessorLossy
<1>6. /\ AccessorStage = [t \in Threads |-> "idle"]
      /\ AccessorCall = [t \in Threads |-> Accessor!NoCall]
      /\ AccessorReply = [t \in Threads |-> Accessor!NoAnswer]
  <2>1. Seen("idle") = "idle"
    BY DEF Seen, Between
  <2>2. Accessor!NoCall = NoCall /\ Accessor!NoAnswer = NoAnswer
    BY AccessorOperators
  <2> QED
    BY <1>1, <2>1, <2>2 DEF AccessorStage, AccessorCall, AccessorReply
<1>7. Accessor!Init
  BY <1>1, <1>4, <1>5, <1>6, Zenon DEF Accessor!Init, AccessorDb, AccessorLossy, AccessorStage,
     AccessorCall, AccessorReply
<1>8. PutInv /\ LoadInv /\ LookupInv /\ KeptInv
  BY <1>1 DEF PutInv, LoadInv, LookupInv, KeptInv
<1>9. PendingInv
  BY <1>1 DEF PendingInv, PendingOf, Nothing
<1> QED
  BY <1>7, <1>8, <1>9 DEF RefineInv

\* A step of an adapter does what the interface promises.
LEMMA NextRefines ==
  ASSUME AdaptersInv, AdaptersInv', RefineInv, ShippedMixes, OneBatchLength, Next
  PROVE  Refines /\ RefineInv'
<1>1. /\ PutInv /\ LoadInv /\ LookupInv /\ KeptInv /\ PendingInv
  BY DEF RefineInv
<1>2. CASE OnLevelDB(LevelDB!Next)
  <2>1. Refines /\ PutInv'
    BY <1>1, <1>2, LevelDBRefines
  <2>2. engine' = "leveldb"
    BY <1>2 DEF OnLevelDB
  <2> QED
    BY <2>1, <2>2 DEF RefineInv, LoadInv, LookupInv, KeptInv, PendingInv, Transactions
<1>3. CASE OnLMDB(LMDB!Next)
  <2>1. Refines
    BY <1>1, <1>3, LMDBRefines
  <2>2. engine' = "lmdb"
    BY <1>3 DEF OnLMDB
  <2> QED
    BY <2>1, <2>2 DEF RefineInv, PutInv, LoadInv, LookupInv, KeptInv, PendingInv, Transactions
<1>4. CASE OnWiredTiger(WiredTiger!Next)
  <2>1. Refines /\ LoadInv'
    BY <1>1, <1>4, WiredTigerRefines
  <2>2. engine' = "wiredtiger"
    BY <1>4 DEF OnWiredTiger
  <2> QED
    BY <2>1, <2>2 DEF RefineInv, PutInv, LookupInv, KeptInv, PendingInv, Transactions
<1>5. CASE OnMongoDB(MongoDB!Next)
  <2>1. Refines /\ LookupInv'
    BY <1>1, <1>5, MongoDBRefines, MongoDBLookups
  <2>2. engine' = "mongodb"
    BY <1>5 DEF OnMongoDB
  <2> QED
    BY <2>1, <2>2 DEF RefineInv, PutInv, LoadInv, KeptInv, PendingInv, Transactions
<1>6. CASE OnRedis(Redis!Next)
  <2>1. Refines
    BY <1>1, <1>6, RedisRefines
  <2>2. engine' = "redis"
    BY <1>6 DEF OnRedis
  <2> QED
    BY <2>1, <2>2 DEF RefineInv, PutInv, LoadInv, LookupInv, KeptInv, PendingInv, Transactions
<1>7. CASE OnUStore(UStore!Next)
  <2>1. Refines /\ KeptInv' /\ UNCHANGED engine
    BY <1>1, <1>7, UStoreRefines
  <2>2. engine' \in UStores
    BY <1>7, <2>1 DEF OnUStore
  <2> QED
    BY <2>1, <2>2 DEF RefineInv, PutInv, LoadInv, LookupInv, PendingInv, Transactions, UStores
<1>8. CASE OnTransaction(Transaction!Next)
  <2>1. Refines /\ PendingInv' /\ UNCHANGED engine
    BY <1>1, <1>8, TransactionRefines
  <2>2. engine' \in Transactions
    BY <1>8, <2>1 DEF OnTransaction
  <2> QED
    BY <2>1, <2>2 DEF RefineInv, PutInv, LoadInv, LookupInv, KeptInv, Transactions
<1> QED
  BY <1>2, <1>3, <1>4, <1>5, <1>6, <1>7, <1>8, Zenon DEF Next

\* Whatever database is benchmarked, by whatever threads and with whatever keys,
\* a call does what data_accessor_t promises, at one moment between its start and
\* its end, and reports it, except in the kinds of calls in Loose; nothing else
\* changes the database.  In a transaction of RocksDB it does so up to the first
\* write that finds its key locked: from then on the writes of that thread are
\* lost, whatever they are told, until its transaction ends.  Nothing is said of
\* transactions whose engine fails, and all of it is for the mixes and batches of
\* the workload files (data_accessor.hpp, and the adapters that implement it;
\* rocksdb_transaction.hpp:84-150).
THEOREM AdaptersImplementDataAccessor ==
  ShippedMixes /\ OneBatchLength /\ Spec => ImplementsDataAccessor
<1>1. AdaptersInv /\ AdaptersInv' /\ ShippedMixes /\ OneBatchLength /\ RefineInv /\ [Next]_vars
        => [Accessor!Next]_(Accessor!vars) /\ RefineInv'
  <2>1. ASSUME RefineInv, UNCHANGED vars
        PROVE  UNCHANGED Accessor!vars /\ RefineInv'
    <3>1. UNCHANGED <<mayFail, handle, workload, stage, call, reply, data, engine, batch_keys,
                      client, pending, buffer, spent>>
      BY <2>1, Zenon DEF vars, OfMongoDB, OfUStore, OfTransaction
    <3>2. Promised' = Promised /\ DataOfAll' = DataOfAll /\ Loose' = Loose
      BY <3>1, Zenon DEF Promised, DataOfAll, Loose
    <3>3. UNCHANGED Accessor!vars
      BY <3>1, <3>2, Zenon DEF Accessor!vars
    <3>4. /\ PutInv' /\ LoadInv' /\ LookupInv' /\ KeptInv'
      BY <2>1, <3>1, Zenon DEF RefineInv, PutInv, LoadInv, LookupInv, KeptInv, Key, KeysOf
    <3>5. PendingInv'
      BY <2>1, <3>1, Zenon DEF RefineInv, PendingInv, PendingOf
    <3> QED
      BY <3>3, <3>4, <3>5, Zenon DEF RefineInv
  <2> QED
    BY <2>1, NextRefines, Zenon DEF Refines
<1>2. ShippedMixes => []ShippedMixes
  <2>1. ShippedMixes => ShippedMixes'
    BY DEF ShippedMixes
  <2> QED
    BY <2>1, PTL
<1>3. OneBatchLength => []OneBatchLength
  <2>1. OneBatchLength => OneBatchLength'
    BY DEF OneBatchLength
  <2> QED
    BY <2>1, PTL
<1> QED
  BY <1>1, <1>2, <1>3, InitRefines, AdaptersInvariant, PTL
     DEF Spec, ImplementsDataAccessor, Accessor!Spec
=============================================================================
