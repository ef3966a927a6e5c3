-------------------------------- MODULE Worker --------------------------------
(***************************************************************************)
(* worker_t (src/src/core/worker.hpp) with its key generators and the      *)
(* operation chooser: which keys the threads of one workload insert, read  *)
(* and remove in the database they share.  Everything but the database is  *)
(* local to a thread, so one action covers what a thread does between two  *)
(* calls of the database, except for the loops that draw random keys until *)
(* they like one: Draw is an accepted key, Redraw a rejected one, which     *)
(* changes nothing but the state of the random generator.                  *)
(***************************************************************************)
EXTENDS Integers, Sequences, FiniteSets, FiniteSetsExt

CONSTANTS
  Threads,
  Workloads   \* the workloads that are tried, records with these fields:
              \*   records  db_records_count: the keys 0 .. records - 1 are loaded
              \*   parts    the part of each thread (see WorkloadSplit)
              \*   kinds    the kinds of operations with a positive proportion
              \*   dist     key_dist
              \*   newKeys  operations_count * upsert_proportion * 2, for each thread
              \*   reach    what the zipfian generator of each thread can give: with
              \*            zipfian a key, with latest a distance from the last key
              \*   lengths  the least and the largest batch of each kind
              \*   loaded   the keys in the database when the workload begins

InsertKinds == {"upsert", "batch_upsert", "bulk_load"}
DrawKinds   == {"update", "remove", "read", "read_modify_write", "batch_read",
                "range_select"}
BatchKinds  == {"batch_upsert", "batch_read", "bulk_load", "range_select"}

ASSUME WorkerAssumption ==
  /\ IsFiniteSet(Threads)
  /\ \A w \in Workloads :
       /\ w.records \in Nat \ {0} /\ w.newKeys \in [Threads -> Nat]
       /\ w.loaded \subseteq Nat
       /\ w.kinds # {} /\ w.kinds \subseteq InsertKinds \cup DrawKinds \cup {"scan"}
       /\ w.parts \in [Threads -> [records : Nat, operations : Nat \ {0}, start : Nat]]
       /\ \A k \in BatchKinds : w.lengths[k].min \in Nat /\ w.lengths[k].max \in Nat

\* A scrambled zipfian key is the start key plus a remainder by the size of the
\* range, and a latest one no further from the last key than key 0 is.  How few
\* of these a generator reaches depends on its floats and, with zipfian, on the
\* hash of as many values.
ASSUME ReachAssumption ==
  \A w \in Workloads : \A t \in Threads :
    LET part == w.parts[t]
    IN  /\ w.dist = "zipfian" =>
             w.reach[t] \subseteq part.start .. part.start + part.records + w.newKeys[t] - 1
        /\ w.dist = "latest" => w.reach[t] \subseteq 0 .. w.records - 1

\* What the thread t can insert at most with operations of the kind k.
Longest(w, k) == IF k \in BatchKinds THEN w.lengths[k].max ELSE 1
Insertable(w, t, k) ==
  w.parts[t].start .. (w.parts[t].start + w.parts[t].operations * Longest(w, k)) - 1

\* A workload that does not only insert works on a database that is loaded.
ASSUME LoadedAssumption ==
  \A w \in Workloads : \/ \E k \in InsertKinds : w.kinds = {k}
                       \/ 0 .. w.records - 1 \subseteq w.loaded

\* The threads of one that only inserts get keys that nobody else has: see
\* DisjointKeys of WorkloadSplit, and no such key is loaded.
ASSUME PartsAssumption ==
  \A w \in Workloads : \A k \in InsertKinds : w.kinds = {k} =>
    \A t \in Threads :
      /\ Insertable(w, t, k) \cap w.loaded = {}
      /\ \A u \in Threads \ {t} : Insertable(w, t, k) \cap Insertable(w, u, k) = {}

VARIABLES
  workload, \* the workload the threads perform
  pc,       \* where each thread is
  counter,  \* counter_ of the upsert key sequence
  limit,    \* limit_ of it, when it is an acknowledged counter
  ack,      \* acknowledged_key_generator: "null" or "owned"
  kind,     \* the operation chosen
  want,     \* how many keys (or entries) it takes
  keys,     \* keys_buffer_, as far as it is filled
  left,     \* operations to do
  db        \* the keys in the database

vars == <<workload, pc, counter, limit, ack, kind, want, keys, left, db>>

\* One kind has proportion 1.0, and it inserts.
PureInsert == Cardinality(workload.kinds) = 1 /\ workload.kinds \subseteq InsertKinds

\* Mistake: only the batches of upserts are considered.
ElementsMaxOfUpserts == Max({workload.lengths["batch_upsert"].max, 1})

\* elements_max_count: how many keys and values the buffers hold.
ElementsMax == Max({workload.lengths[k].max : k \in BatchKinds} \cup {1})

Init ==
  /\ workload \in Workloads
  /\ pc = [t \in Threads |-> "construct"]
  /\ counter = [t \in Threads |-> 0]
  /\ limit = [t \in Threads |-> 0]
  /\ ack = [t \in Threads |-> "null"]
  /\ kind = [t \in Threads |-> "scan"]
  /\ want = [t \in Threads |-> 0]
  /\ keys = [t \in Threads |-> << >>]
  /\ left = [t \in Threads |-> workload.parts[t].operations]
  /\ db = workload.loaded

Goto(t, place) == pc' = [pc EXCEPT ![t] = place]

\* Mistakes: a thread takes the database's keys for its own (the limit is that
\* of its own records, the sequence starts where the database ends).
ConstructFrom(t, first, last) ==
  /\ pc[t] = "construct"
  /\ counter' = [counter EXCEPT ![t] = first]
  /\ limit'   = [limit EXCEPT ![t] = last]
  /\ Goto(t, IF PureInsert \/ workload.dist # "counter" THEN "choose" ELSE "thrown")
  /\ ack' = [ack EXCEPT ![t] = "null"]
  /\ UNCHANGED <<workload, kind, want, keys, left, db>>
ConstructOwnLimit(t)   == ConstructFrom(t, workload.records, workload.parts[t].records - 1)
ConstructSameStart(t)  == ConstructFrom(t, workload.records, workload.records - 1)

\* The constructor.  A workload that only inserts counts from the thread's own
\* start key; any other one counts from db_records_count, in a generator that
\* is moved into the key sequence, which leaves the pointer for acknowledge()
\* null.  A key distribution that draws no keys throws.
Construct(t) ==
  /\ pc[t] = "construct"
  /\ IF PureInsert
     THEN /\ counter' = [counter EXCEPT ![t] = workload.parts[t].start]
          /\ Goto(t, "choose")
          /\ UNCHANGED limit
     ELSE /\ counter' = [counter EXCEPT ![t] = workload.records]
          /\ limit'   = [limit EXCEPT ![t] = workload.records - 1]
          /\ Goto(t, IF workload.dist \in {"uniform", "zipfian", "beta", "latest"}
                     THEN "choose" ELSE "thrown")
  /\ ack' = [ack EXCEPT ![t] = "null"]
  /\ UNCHANGED <<workload, kind, want, keys, left, db>>

\* upsert_key_sequence_generator->last()
Last(t) == IF PureInsert THEN counter[t] - 1 ELSE limit[t]

\* What key_generator_->generate() may return, now or later.
Support(t) ==
  LET first == workload.parts[t].start
      size  == workload.parts[t].records
  IN  CASE workload.dist = "uniform" -> first .. first + size - 1
        [] workload.dist = "zipfian" -> workload.reach[t]
        [] workload.dist = "beta"    -> first .. first + size + workload.newKeys[t]
        [] workload.dist = "latest"  -> {limit[t] - d : d \in workload.reach[t]}

\* operation_chooser_t::choose: an operation of a positive proportion, or, when
\* the float arithmetic over several of them leaves a rest, a read.
Chosen == workload.kinds \cup (IF Cardinality(workload.kinds) > 1 THEN {"read"} ELSE {})

\* The length generators.
LengthOf(k) == IF k \in BatchKinds
               THEN workload.lengths[k].min .. workload.lengths[k].max
               ELSE {1}

\* Mistake: one operation too many.
ChooseOnceMore(t) ==
  /\ pc[t] = "choose" /\ left[t] >= 0
  /\ kind' = [kind EXCEPT ![t] = "scan"]
  /\ Goto(t, "call")
  /\ UNCHANGED <<workload, counter, limit, ack, want, keys, left, db>>

Choose(t) ==
  /\ pc[t] = "choose" /\ left[t] > 0
  /\ \E k \in Chosen :
       /\ kind' = [kind EXCEPT ![t] = k]
       /\ \E n \in LengthOf(k) : want' = [want EXCEPT ![t] = n]
       /\ Goto(t, CASE k \in InsertKinds -> "generate"
                    [] k \in DrawKinds   -> "draw"
                    [] k = "scan"        -> "call")
  /\ keys' = [keys EXCEPT ![t] = << >>]
  /\ UNCHANGED <<workload, counter, limit, ack, left, db>>

\* The next keys of the sequence, for an upsert, a batch or a bulk.  Were the
\* pointer not null, each key would be acknowledged, which takes limit to it.
Generate(t) ==
  /\ pc[t] = "generate"
  /\ keys' = [keys EXCEPT ![t] = [i \in 1..want[t] |-> counter[t] + i - 1]]
  /\ counter' = [counter EXCEPT ![t] = @ + want[t]]
  /\ limit' = IF ack[t] = "owned" THEN [limit EXCEPT ![t] = counter[t] + want[t] - 1]
                                  ELSE limit
  /\ Goto(t, "call")
  /\ UNCHANGED <<workload, ack, kind, want, left, db>>

\* How many keys the drawn operation needs: a range starts at one.
Needed(t) == IF kind[t] = "batch_read" THEN want[t] ELSE 1

\* Mistake: keys beyond last() are not drawn again.
DrawBeyond(t) ==
  /\ pc[t] = "draw" /\ Len(keys[t]) < Needed(t)
  /\ \E k \in Support(t) : keys' = [keys EXCEPT ![t] = Append(@, k)]
  /\ UNCHANGED <<workload, pc, counter, limit, ack, kind, want, left, db>>

\* generate_key, once or until a batch of different keys is full.
Draw(t) ==
  /\ pc[t] = "draw" /\ Len(keys[t]) < Needed(t)
  /\ \E k \in Support(t) :
       /\ k <= Last(t)
       /\ \A i \in 1..Len(keys[t]) : keys[t][i] # k
       /\ keys' = [keys EXCEPT ![t] = Append(@, k)]
  /\ UNCHANGED <<workload, pc, counter, limit, ack, kind, want, left, db>>

\* A key the loops reject: they draw again.
Redraw(t) ==
  /\ pc[t] = "draw" /\ Len(keys[t]) < Needed(t)
  /\ \E k \in Support(t) : k > Last(t) \/ \E i \in 1..Len(keys[t]) : keys[t][i] = k
  /\ UNCHANGED vars

Drawn(t) ==
  /\ pc[t] = "draw" /\ Len(keys[t]) = Needed(t)
  /\ Goto(t, "call")
  /\ UNCHANGED <<workload, counter, limit, ack, kind, want, keys, left, db>>

KeySet(t) == {keys[t][i] : i \in 1..Len(keys[t])}

\* The call of the database and the end of the operation.
Call(t) ==
  /\ pc[t] = "call"
  /\ db' = CASE kind[t] \in InsertKinds -> db \cup KeySet(t)
             [] kind[t] = "remove"      -> db \ KeySet(t)
             [] OTHER                   -> db
  /\ left' = [left EXCEPT ![t] = @ - 1]
  /\ Goto(t, "choose")
  /\ UNCHANGED <<workload, counter, limit, ack, kind, want, keys>>

Step(t) == Construct(t) \/ Choose(t) \/ Generate(t) \/ Draw(t) \/ Redraw(t)
           \/ Drawn(t) \/ Call(t)

\* All operations are done; an exception in one thread ends the program.
AllDone == \A t \in Threads : pc[t] = "choose" /\ left[t] = 0
Thrown  == \E t \in Threads : pc[t] = "thrown"
Terminated == (AllDone \/ Thrown) /\ UNCHANGED vars

Next == (\E t \in Threads : ~Thrown /\ Step(t)) \/ Terminated

\* Threads are scheduled, and a random generator gives an acceptable key, if
\* there is one, after finitely many others.
Spec == Init /\ [][Next]_vars /\ \A t \in Threads : WF_vars(~Thrown /\ Step(t))
-----------------------------------------------------------------------------
TypeOK ==
  /\ workload \in Workloads
  /\ pc \in [Threads -> {"construct", "choose", "generate", "draw", "call", "thrown"}]
  /\ counter \in [Threads -> Nat] /\ limit \in [Threads -> Nat]
  /\ ack \in [Threads -> {"null", "owned"}]
  /\ kind \in [Threads -> InsertKinds \cup DrawKinds \cup {"scan"}]
  /\ want \in [Threads -> Nat] /\ left \in [Threads -> Nat]
  /\ keys \in [Threads -> Seq(Nat)]
  /\ db \subseteq Nat

\* No batch and no range outgrows the buffers of the worker, which are sized
\* once by the largest length of any kind.
BuffersFit == \A t \in Threads : Len(keys[t]) <= ElementsMax /\ want[t] <= ElementsMax

\* A key that is drawn to be read, updated or removed is one of the loaded
\* ones, although the generators reach beyond them, so without removals the
\* operation finds it; and a batch has no key twice.
DrawnKeysExist ==
  \A t \in Threads : pc[t] = "call" /\ kind[t] \in DrawKinds =>
    /\ KeySet(t) \subseteq 0 .. workload.records - 1
    /\ "remove" \notin workload.kinds => KeySet(t) \subseteq db
    /\ Cardinality(KeySet(t)) = Needed(t)

\* Every key of a workload that inserts is a new one: no other thread and no
\* other operation inserts it.
InsertsAreNew ==
  \A t \in Threads :
    pc[t] = "call" /\ kind[t] \in InsertKinds => KeySet(t) \cap db = {}

\* So it is of a workload that only inserts, as the parts are disjoint.
PureInsertsAreNew == PureInsert => InsertsAreNew

\* As many loaded keys as any operation of the workload needs can be drawn.
EnoughKeys(t) ==
  \A k \in Chosen \cap DrawKinds :
    Cardinality(Support(t) \cap 0 .. workload.records - 1)
      >= IF k = "batch_read" THEN workload.lengths[k].max ELSE 1

\* The loops that draw keys do not go on for ever in a thread that has enough
\* keys to draw, whatever the keys are that it has to reject, and however the
\* other threads fare.  A thread with fewer may draw for ever: a range of a few
\* records leaves a zipfian generator one or two keys.
EveryOperationEnds ==
  \A t \in Threads :
    (pc[t] = "choose" /\ EnoughKeys(t)) ~> ((pc[t] = "choose" /\ left[t] = 0) \/ Thrown)
=============================================================================
