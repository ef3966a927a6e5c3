----------------------------- MODULE WorkerProofs -----------------------------
(***************************************************************************)
(* Proofs about Worker for every set of threads and every workload: what a *)
(* draw may return and for how long (DrawInv, KeptInv) and where the       *)
(* sequences of a workload that only inserts are (SequenceInv, OwnersInv). *)
(***************************************************************************)
EXTENDS Worker, FiniteSetTheorems, FunctionTheorems, SequenceTheorems,
        WellFoundedInduction, TLAPS

Kinds  == InsertKinds \cup DrawKinds \cup {"scan"}
Busy   == {"generate", "draw", "call"}
Places == {"construct", "choose", "thrown"} \cup Busy
Dists  == {"uniform", "zipfian", "beta", "latest"}

-----------------------------------------------------------------------------
(***************************************************************************)
(* The invariants.                                                         *)
(***************************************************************************)

\* What a place says of its thread: the operation it performs, and that the
\* limit of the keys it may draw is the last of the loaded ones, since the
\* pointer for acknowledge() is null.
PlaceInv ==
  \A t \in Threads :
    /\ ack[t] = "null"
    /\ pc[t] \in Busy => left[t] > 0 /\ kind[t] \in Chosen /\ want[t] \in LengthOf(kind[t])
    /\ pc[t] = "generate" => kind[t] \in InsertKinds
    /\ pc[t] = "draw" => kind[t] \in DrawKinds
    /\ ~PureInsert /\ pc[t] \notin {"construct", "thrown"}
         => workload.dist \in Dists /\ limit[t] = workload.records - 1

FitInv ==
  \A t \in Threads :
    /\ Len(keys[t]) <= ElementsMax /\ want[t] <= ElementsMax
    /\ pc[t] = "draw" => Len(keys[t]) <= Needed(t)

\* The keys a thread has drawn so far.
DrawInv ==
  \A t \in Threads : pc[t] \in {"draw", "call"} /\ kind[t] \in DrawKinds =>
    /\ \A i \in 1..Len(keys[t]) : keys[t][i] \in 0 .. workload.records - 1
    /\ \A i, j \in 1..Len(keys[t]) : keys[t][i] = keys[t][j] => i = j
    /\ pc[t] = "call" => Len(keys[t]) = Needed(t)

\* Without removals, what was loaded stays.
KeptInv ==
  ~PureInsert /\ "remove" \notin workload.kinds => 0 .. workload.records - 1 \subseteq db

\* The only kind of operation of a workload that only inserts, and its longest
\* batch.
OnlyKind == CHOOSE k \in workload.kinds : TRUE
Most     == Longest(workload, OnlyKind)

\* How many operations the sequence of a thread has to supply with keys still,
\* and the first key of it that is not in the database.
ToSupply(t) == IF pc[t] = "call" THEN left[t] - 1 ELSE left[t]
First(t)    == IF pc[t] = "call" THEN counter[t] - want[t] ELSE counter[t]

Start(t)      == workload.parts[t].start
Operations(t) == workload.parts[t].operations

\* Where the sequence of a thread is: it has keys for all operations left.
SequenceInv ==
  PureInsert => \A t \in Threads :
    /\ pc[t] = "construct" => left[t] = Operations(t)
    /\ pc[t] # "construct" => /\ Start(t) <= First(t)
                              /\ counter[t] + ToSupply(t) * Most
                                   <= Start(t) + Operations(t) * Most
    /\ pc[t] = "call" => keys[t] = [i \in 1..want[t] |-> First(t) + i - 1]

\* Whose the keys in the database are.
OwnersInv ==
  PureInsert => \A k \in db :
    \/ k \in workload.loaded
    \/ \E t \in Threads : pc[t] # "construct" /\ Start(t) <= k /\ k < First(t)

WorkerInv == TypeOK /\ PlaceInv /\ FitInv /\ DrawInv /\ KeptInv /\ SequenceInv /\ OwnersInv

-----------------------------------------------------------------------------
(***************************************************************************)
(* Facts about the operators.                                              *)
(***************************************************************************)

\* The sets of the elements above some element of a finite set of numbers are
\* ordered by inclusion, and the least of them is empty: above the maximum.
LEMMA MaxExists ==
  ASSUME NEW S, IsFiniteSet(S), S \subseteq Nat, S # {}
  PROVE  \E x \in S : \A y \in S : y <= x
<1> DEFINE Above(x) == {y \in S : y > x}
           A == {Above(x) : x \in S}
<1>1. IsWellFoundedOn(StrictSubsetOrdering(S), FiniteSubsetsOf(S))
  BY FS_StrictSubsetOrderingWellFounded
<1>2. A \subseteq FiniteSubsetsOf(S) /\ A # {}
  <2>1. \A x \in S : Above(x) \in SUBSET S
    OBVIOUS
  <2>2. \A x \in S : IsFiniteSet(Above(x))
    <3> HIDE DEF Above
    <3> QED  BY <2>1, FS_Subset
  <2> HIDE DEF Above
  <2> QED
    BY <2>1, <2>2 DEF FiniteSubsetsOf
<1>3. PICK M \in A : \A N \in A : ~ (<<N, M>> \in StrictSubsetOrdering(S))
  <2> HIDE DEF A
  <2> QED  BY <1>1, <1>2, WFMin
<1>4. PICK x \in S : M = Above(x)
  BY <1>3
<1>5. SUFFICES ASSUME NEW y \in S, y > x PROVE FALSE
  BY <1>4
<1>6. Above(y) \in A /\ Above(y) \subseteq Above(x) /\ Above(y) # Above(x)
  <2>1. y \in Above(x) /\ y \notin Above(y)
    BY <1>5
  <2>2. Above(y) \subseteq Above(x)
    <3>1. \A z \in S : z > y => z > x
      BY <1>5
    <3> QED
      BY <3>1
  <2> QED
    BY <2>1, <2>2
<1>7. Above(x) \in SUBSET S /\ Above(y) \in SUBSET S
  OBVIOUS
<1> QED
  <2> HIDE DEF Above, A
  <2> QED  BY <1>3, <1>4, <1>6, <1>7 DEF StrictSubsetOrdering

\* Max of a finite set of numbers is one of them, and no other is above it.
LEMMA MaxIsMaximum ==
  ASSUME NEW S, IsFiniteSet(S), S \subseteq Nat, S # {}
  PROVE  Max(S) \in S /\ \A y \in S : y <= Max(S)
<1>1. PICK x \in S : \A y \in S : y <= x
  BY MaxExists
<1>2. \A y \in S : x >= y
  BY <1>1
<1>3. Max(S) \in S /\ \A y \in S : Max(S) >= y
  BY <1>2 DEF Max
<1> QED
  BY <1>3

\* The buffers hold one key, and the longest batch of every kind.
LEMMA Buffers ==
  ASSUME TypeOK
  PROVE  /\ ElementsMax \in Nat /\ 1 <= ElementsMax
         /\ \A k \in Kinds : \A n \in LengthOf(k) : n \in Nat /\ n <= ElementsMax
<1> DEFINE L(k) == workload.lengths[k].max
           S == {L(k) : k \in BatchKinds} \cup {1}
<1>1. \A k \in BatchKinds : workload.lengths[k].min \in Nat /\ L(k) \in Nat
  BY WorkerAssumption DEF TypeOK
<1>2. S = {L("batch_upsert"), L("batch_read"), L("bulk_load"), L("range_select"), 1}
  <2> HIDE DEF L
  <2> QED  BY DEF BatchKinds
<1>3. IsFiniteSet(S)
  <2>1. IsFiniteSet({1}) /\ IsFiniteSet({L("batch_upsert")}) /\ IsFiniteSet({L("batch_read")})
        /\ IsFiniteSet({L("bulk_load")}) /\ IsFiniteSet({L("range_select")})
    BY FS_Singleton
  <2> HIDE DEF L, S
  <2>2. S = {1} \cup ({L("batch_upsert")} \cup ({L("batch_read")}
                \cup ({L("bulk_load")} \cup {L("range_select")})))
    BY <1>2
  <2>3. IsFiniteSet({L("bulk_load")} \cup {L("range_select")})
    BY <2>1, FS_Union
  <2>4. IsFiniteSet({L("batch_read")} \cup ({L("bulk_load")} \cup {L("range_select")}))
    BY <2>1, <2>3, FS_Union
  <2>5. IsFiniteSet({L("batch_upsert")} \cup ({L("batch_read")}
                       \cup ({L("bulk_load")} \cup {L("range_select")})))
    BY <2>1, <2>4, FS_Union
  <2> QED
    BY <2>1, <2>2, <2>5, FS_Union
<1>4. S \subseteq Nat /\ 1 \in S /\ \A k \in BatchKinds : L(k) \in S
  <2> HIDE DEF L
  <2> QED  BY <1>1
<1>5. ElementsMax \in S /\ \A y \in S : y <= ElementsMax
  <2>1. ElementsMax = Max(S)
    BY DEF ElementsMax
  <2> HIDE DEF S
  <2> QED  BY <1>3, <1>4, <2>1, MaxIsMaximum
<1>6. ElementsMax \in Nat /\ 1 <= ElementsMax /\ \A k \in BatchKinds : L(k) <= ElementsMax
  <2> HIDE DEF L, S
  <2> QED  BY <1>4, <1>5
<1>7. \A k \in Kinds : \A n \in LengthOf(k) : n \in Nat /\ n <= ElementsMax
  BY <1>1, <1>6 DEF LengthOf
<1> QED
  BY <1>6, <1>7

\* A workload that only inserts has one kind of operation, and does nothing else.
LEMMA OnlyInserts ==
  ASSUME TypeOK, PureInsert
  PROVE  /\ workload.kinds = {OnlyKind} /\ OnlyKind \in InsertKinds
         /\ Chosen = {OnlyKind} /\ Most \in Nat
         /\ \A n \in LengthOf(OnlyKind) : n \in Nat /\ n <= Most
<1>1. \E k : workload.kinds = {k}
  <2>3. IsFiniteSet(InsertKinds)
    <3>1. InsertKinds = {"upsert"} \cup ({"batch_upsert"} \cup {"bulk_load"})
      BY DEF InsertKinds
    <3>2. IsFiniteSet({"upsert"}) /\ IsFiniteSet({"batch_upsert"}) /\ IsFiniteSet({"bulk_load"})
      BY FS_Singleton
    <3>3. IsFiniteSet({"batch_upsert"} \cup {"bulk_load"})
      BY <3>2, FS_Union
    <3> QED
      BY <3>1, <3>2, <3>3, FS_Union
  <2>4. IsFiniteSet(workload.kinds)
    BY <2>3, FS_Subset DEF PureInsert
  <2> QED
    BY <2>4, FS_Singleton DEF PureInsert
<1>2. workload.kinds = {OnlyKind}
  BY <1>1 DEF OnlyKind
<1>3. OnlyKind \in InsertKinds
  BY <1>2 DEF PureInsert
<1>4. Chosen = {OnlyKind}
  <2>1. Cardinality(workload.kinds) = 1
    BY DEF PureInsert
  <2> QED
    BY <1>2, <2>1 DEF Chosen
<1>5. \A k \in BatchKinds : workload.lengths[k].min \in Nat /\ workload.lengths[k].max \in Nat
  BY WorkerAssumption DEF TypeOK
<1>6. Most \in Nat /\ \A n \in LengthOf(OnlyKind) : n \in Nat /\ n <= Most
  BY <1>5 DEF Most, Longest, LengthOf
<1> QED
  BY <1>2, <1>3, <1>4, <1>6

\* Of several kinds, the chooser takes one of the workload or a read.
LEMMA ChosenKinds ==
  ASSUME TypeOK
  PROVE  /\ Chosen \subseteq Kinds
         /\ "remove" \in Chosen => "remove" \in workload.kinds
<1>1. workload.kinds \subseteq Kinds
  BY WorkerAssumption DEF TypeOK, Kinds
<1> QED
  BY <1>1 DEF Chosen, Kinds, DrawKinds

\* The part of a thread.
LEMMA PartTypes ==
  ASSUME TypeOK, NEW t \in Threads
  PROVE  /\ Start(t) \in Nat /\ Operations(t) \in Nat \ {0}
         /\ workload.parts[t].records \in Nat
         /\ workload.records \in Nat \ {0} /\ workload.newKeys[t] \in Nat
         /\ workload.loaded \subseteq Nat
<1>1. workload.parts \in [Threads -> [records : Nat, operations : Nat \ {0}, start : Nat]]
  BY WorkerAssumption DEF TypeOK
<1>2. workload.parts[t] \in [records : Nat, operations : Nat \ {0}, start : Nat]
  BY <1>1
<1> QED
  BY <1>2, WorkerAssumption DEF TypeOK, Start, Operations

\* The keys of an injective sequence are as many as its elements.
LEMMA KeysCounted ==
  ASSUME NEW s \in Seq(Nat), \A i, j \in 1..Len(s) : s[i] = s[j] => i = j
  PROVE  Cardinality({s[i] : i \in 1..Len(s)}) = Len(s)
<1> DEFINE I == 1..Len(s)
           T == {s[i] : i \in I}
           f == [i \in I |-> s[i]]
<1>1. Len(s) \in Nat
  OBVIOUS
<1>2. IsFiniteSet(I) /\ Cardinality(I) = Len(s)
  <2>1. IsFiniteSet(1..Len(s))
        /\ Cardinality(1..Len(s)) = IF 1 > Len(s) THEN 0 ELSE Len(s) - 1 + 1
    <3>1. 1 \in Int /\ Len(s) \in Int
      BY <1>1
    <3> QED
      BY <3>1, FS_Interval, Zenon
  <2> QED
    BY <1>1, <2>1
<1>3. f \in Surjection(I, T) /\ f \in Injection(I, T)
  <2>1. f \in [I -> T] /\ \A y \in T : \E i \in I : f[i] = y
    OBVIOUS
  <2>2. \A i, j \in I : f[i] = f[j] => i = j
    OBVIOUS
  <2> HIDE DEF I, T, f
  <2> QED
    BY <2>1, <2>2 DEF Surjection, Injection, IsInjective
<1>4. Cardinality(T) = Cardinality(I)
  <2> HIDE DEF I, T, f
  <2> QED  BY <1>2, <1>3, FS_Surjection
<1> QED
  BY <1>2, <1>4
-----------------------------------------------------------------------------
(***************************************************************************)
(* Every step keeps the invariant.                                         *)
(***************************************************************************)

\* The workload stays, and what is derived from it.
LEMMA SameWorkload ==
  ASSUME [Next]_vars
  PROVE  /\ workload' = workload
         /\ PureInsert' <=> PureInsert
         /\ ElementsMax' = ElementsMax /\ Chosen' = Chosen /\ Most' = Most
         /\ \A k : LengthOf(k)' = LengthOf(k)
         /\ \A t : Start(t)' = Start(t) /\ Operations(t)' = Operations(t)
<1>1. workload' = workload
  BY DEF Next, Step, Construct, Choose, Generate, Draw, Redraw, Drawn, Call, Terminated, vars
<1> QED
  BY <1>1 DEF PureInsert, ElementsMax, Chosen, Most, OnlyKind, LengthOf, Start, Operations

\* The kinds of operations that make up a step of a thread, in one place.
LEMMA Steps ==
  ASSUME [Next]_vars
  PROVE  \/ UNCHANGED vars
         \/ \E t \in Threads : \/ Construct(t) \/ Choose(t) \/ Generate(t) \/ Draw(t)
                               \/ Drawn(t) \/ Call(t)
BY DEF Next, Step, Redraw, Terminated

\* A workload that only inserts never draws; others draw what is loaded.
LEMMA Drawing ==
  ASSUME TypeOK, PlaceInv, NEW t \in Threads, pc[t] = "draw"
  PROVE  /\ ~PureInsert /\ workload.dist \in Dists
         /\ limit[t] = workload.records - 1 /\ Last(t) = workload.records - 1
         /\ Support(t) \subseteq Nat
         /\ Needed(t) \in Nat /\ 1 <= ElementsMax /\ Needed(t) <= ElementsMax
<1>1. /\ kind[t] \in Chosen /\ kind[t] \in DrawKinds /\ want[t] \in LengthOf(kind[t])
      /\ ~PureInsert => workload.dist \in Dists /\ limit[t] = workload.records - 1
  BY DEF PlaceInv, Busy
<1>2. ~PureInsert
  BY <1>1, OnlyInserts DEF InsertKinds, DrawKinds
<1>3. Last(t) = workload.records - 1
  BY <1>1, <1>2 DEF Last
<1>4. Support(t) \subseteq Nat
  <2>1. /\ workload.parts[t].start \in Nat /\ workload.parts[t].records \in Nat
        /\ workload.newKeys[t] \in Nat /\ workload.records \in Nat \ {0}
    BY PartTypes DEF Start
  <2>2. workload.dist \in Dists
    BY <1>1, <1>2
  <2>3. /\ workload.dist = "zipfian" => workload.reach[t] \subseteq Nat
        /\ workload.dist = "latest" => workload.reach[t] \subseteq 0 .. workload.records - 1
    <3>1. workload \in Workloads
      BY DEF TypeOK
    <3> QED
      BY <2>1, <3>1, ReachAssumption
  <2>4. ASSUME workload.dist = "latest"
        PROVE  {limit[t] - d : d \in workload.reach[t]} \subseteq Nat
    BY <1>1, <1>2, <2>1, <2>3, <2>4
  <2> QED
    BY <2>1, <2>2, <2>3, <2>4 DEF Support, Dists
<1>5. Needed(t) \in Nat /\ 1 <= ElementsMax /\ Needed(t) <= ElementsMax
  BY <1>1, Buffers DEF Needed, Kinds
<1> QED
  BY <1>1, <1>2, <1>3, <1>4, <1>5

\* The counters and the numbers of operations left stay natural, and no place
\* is left with a kind of operation it does not belong to.
LEMMA TypeStep ==
  ASSUME TypeOK, PlaceInv, [Next]_vars
  PROVE  TypeOK'
<1>1. ASSUME NEW t \in Threads, Construct(t) PROVE TypeOK'
  <2>1. workload.parts[t].start \in Nat /\ workload.records \in Nat /\ workload.records - 1 \in Nat
    BY PartTypes DEF Start
  <2>2. counter' \in [Threads -> Nat] /\ limit' \in [Threads -> Nat]
    <3>1. CASE PureInsert
      BY <1>1, <2>1, <3>1 DEF TypeOK, Construct
    <3>2. CASE ~PureInsert
      <4>1. /\ counter' = [counter EXCEPT ![t] = workload.records]
            /\ limit' = [limit EXCEPT ![t] = workload.records - 1]
        BY <1>1, <3>2, Zenon DEF Construct
      <4> QED
        BY <2>1, <4>1 DEF TypeOK
    <3> QED
      BY <3>1, <3>2
  <2>3. pc' \in [Threads -> {"construct", "choose", "generate", "draw", "call", "thrown"}]
    <3>1. \E place \in {"choose", "thrown"} : pc' = [pc EXCEPT ![t] = place]
      BY <1>1 DEF Construct, Goto
    <3> QED
      BY <3>1 DEF TypeOK
  <2> QED
    BY <1>1, <2>2, <2>3 DEF TypeOK, Construct
<1>2. ASSUME NEW t \in Threads, Choose(t) PROVE TypeOK'
  <2>1. PICK k \in Chosen :
          /\ kind' = [kind EXCEPT ![t] = k]
          /\ \E n \in LengthOf(k) : want' = [want EXCEPT ![t] = n]
          /\ Goto(t, CASE k \in InsertKinds -> "generate"
                       [] k \in DrawKinds   -> "draw"
                       [] k = "scan"        -> "call")
    BY <1>2 DEF Choose
  <2>2. k \in InsertKinds \/ k \in DrawKinds \/ k = "scan"
    BY ChosenKinds DEF Kinds
  <2>3. pc' \in [Threads -> {"construct", "choose", "generate", "draw", "call", "thrown"}]
    BY <2>1, <2>2 DEF TypeOK, Goto, InsertKinds, DrawKinds
  <2>4. want' \in [Threads -> Nat]
    BY <2>1, <2>2, Buffers DEF TypeOK, Kinds
  <2>5. keys' \in [Threads -> Seq(Nat)]
    BY <1>2 DEF Choose, TypeOK
  <2> QED
    BY <1>2, <2>1, <2>2, <2>3, <2>4, <2>5 DEF TypeOK, Choose
<1>3. ASSUME NEW t \in Threads, Generate(t) PROVE TypeOK'
  <2>1. counter[t] \in Nat /\ want[t] \in Nat /\ ack[t] = "null"
    BY DEF TypeOK, PlaceInv
  <2>2. [i \in 1..want[t] |-> counter[t] + i - 1] \in Seq(Nat)
    BY <2>1
  <2>3. keys' \in [Threads -> Seq(Nat)]
    BY <1>3, <2>2 DEF Generate, TypeOK
  <2> QED
    <3>1. counter' \in [Threads -> Nat] /\ limit' = limit
      BY <1>3, <2>1 DEF TypeOK, Generate
    <3>2. pc' \in [Threads -> {"construct", "choose", "generate", "draw", "call", "thrown"}]
      BY <1>3 DEF TypeOK, Generate, Goto
    <3>3. UNCHANGED <<workload, ack, kind, want, left, db>>
      BY <1>3 DEF Generate
    <3> QED
      BY <2>3, <3>1, <3>2, <3>3 DEF TypeOK
<1>4. ASSUME NEW t \in Threads, Draw(t) PROVE TypeOK'
  <2>1. PICK k \in Support(t) : keys' = [keys EXCEPT ![t] = Append(keys[t], k)]
    BY <1>4 DEF Draw
  <2>2. k \in Nat
    BY <1>4, Drawing DEF Draw
  <2>3. Append(keys[t], k) \in Seq(Nat)
    BY <2>2 DEF TypeOK
  <2>4. keys' \in [Threads -> Seq(Nat)]
    BY <2>1, <2>3 DEF TypeOK
  <2> QED
    BY <1>4, <2>4 DEF TypeOK, Draw
<1>5. ASSUME NEW t \in Threads, Drawn(t) PROVE TypeOK'
  BY <1>5 DEF TypeOK, Drawn, Goto
<1>6. ASSUME NEW t \in Threads, Call(t) PROVE TypeOK'
  <2>1. left[t] \in Nat /\ left[t] > 0 /\ keys[t] \in Seq(Nat)
    BY <1>6 DEF TypeOK, PlaceInv, Busy, Call
  <2>2. KeySet(t) \subseteq Nat
    BY <2>1 DEF KeySet
  <2>3. db' \subseteq Nat
    BY <1>6, <2>2 DEF Call, TypeOK
  <2> QED
    BY <1>6, <2>1, <2>3 DEF TypeOK, Call, Goto
<1>7. CASE UNCHANGED vars
  BY <1>7 DEF TypeOK, vars
<1> QED
  BY <1>1, <1>2, <1>3, <1>4, <1>5, <1>6, <1>7, Steps

\* What a place says of its thread.
LEMMA PlaceStep ==
  ASSUME TypeOK, PlaceInv, [Next]_vars
  PROVE  PlaceInv'
<1> DEFINE At(u) == /\ ack[u] = "null"
                    /\ pc[u] \in Busy => left[u] > 0 /\ kind[u] \in Chosen
                                         /\ want[u] \in LengthOf(kind[u])
                    /\ pc[u] = "generate" => kind[u] \in InsertKinds
                    /\ pc[u] = "draw" => kind[u] \in DrawKinds
                    /\ ~PureInsert /\ pc[u] \notin {"construct", "thrown"}
                         => workload.dist \in Dists /\ limit[u] = workload.records - 1
<1>0. SUFFICES ASSUME NEW u \in Threads PROVE At(u)'
  BY DEF PlaceInv
<1>a. At(u)
  BY DEF PlaceInv
<1>b. /\ workload' = workload /\ (PureInsert' <=> PureInsert) /\ Chosen' = Chosen
      /\ \A k : LengthOf(k)' = LengthOf(k)
  BY SameWorkload
<1>1. ASSUME NEW t \in Threads, Construct(t) PROVE At(u)'
  BY <1>1, <1>a, <1>b DEF Construct, Goto, TypeOK, Busy, Dists
<1>2. ASSUME NEW t \in Threads, Choose(t) PROVE At(u)'
  <2>1. PICK k \in Chosen :
          /\ kind' = [kind EXCEPT ![t] = k]
          /\ \E n \in LengthOf(k) : want' = [want EXCEPT ![t] = n]
          /\ Goto(t, CASE k \in InsertKinds -> "generate"
                       [] k \in DrawKinds   -> "draw"
                       [] k = "scan"        -> "call")
    BY <1>2 DEF Choose
  <2>2. k \in InsertKinds \/ k \in DrawKinds \/ k = "scan"
    BY ChosenKinds DEF Kinds
  <2>3. /\ pc[t] = "choose" /\ left[t] > 0
        /\ left' = left /\ ack' = ack /\ limit' = limit
    BY <1>2 DEF Choose
  <2>4. CASE u = t
    <3>1. pc'[t] = CASE k \in InsertKinds -> "generate"
                     [] k \in DrawKinds   -> "draw"
                     [] k = "scan"        -> "call"
      BY <2>1 DEF Goto, TypeOK
    <3>4. \/ pc'[t] = "generate" /\ k \in InsertKinds
          \/ pc'[t] = "draw" /\ k \in DrawKinds
          \/ pc'[t] = "call"
      BY <2>2, <3>1 DEF InsertKinds, DrawKinds
    <3>2. kind'[t] = k /\ want'[t] \in LengthOf(k)
      BY <2>1 DEF TypeOK
    <3> QED
      BY <2>3, <2>4, <3>4, <3>2, <1>a, <1>b DEF Busy
  <2>5. CASE u # t
    <3>1. pc'[u] = pc[u] /\ kind'[u] = kind[u] /\ want'[u] = want[u]
      BY <2>1, <2>5 DEF Goto, TypeOK
    <3> QED
      BY <2>3, <3>1, <1>a, <1>b
  <2> QED
    BY <2>4, <2>5
<1>3. ASSUME NEW t \in Threads, Generate(t) PROVE At(u)'
  <2>1. ack[t] = "null"
    BY DEF PlaceInv
  <2> QED
    BY <1>3, <1>a, <1>b, <2>1 DEF Generate, Goto, TypeOK, Busy
<1>4. ASSUME NEW t \in Threads, Draw(t) PROVE At(u)'
  BY <1>4, <1>a, <1>b DEF Draw
<1>5. ASSUME NEW t \in Threads, Drawn(t) PROVE At(u)'
  BY <1>5, <1>a, <1>b DEF Drawn, Goto, TypeOK, Busy
<1>6. ASSUME NEW t \in Threads, Call(t) PROVE At(u)'
  BY <1>6, <1>a, <1>b DEF Call, Goto, TypeOK, Busy
<1>7. CASE UNCHANGED vars
  BY <1>7, <1>a, <1>b DEF vars
<1> QED
  BY <1>1, <1>2, <1>3, <1>4, <1>5, <1>6, <1>7, Steps

\* No batch outgrows the buffers.
LEMMA FitStep ==
  ASSUME TypeOK, PlaceInv, FitInv, [Next]_vars
  PROVE  FitInv'
<1> DEFINE At(u) == /\ Len(keys[u]) <= ElementsMax /\ want[u] <= ElementsMax
                    /\ pc[u] = "draw" => Len(keys[u]) <= Needed(u)
<1>0. SUFFICES ASSUME NEW u \in Threads PROVE At(u)'
  BY DEF FitInv
<1>a. At(u) /\ keys[u] \in Seq(Nat) /\ want[u] \in Nat
  BY DEF FitInv, TypeOK
<1>b. ElementsMax' = ElementsMax /\ ElementsMax \in Nat /\ 1 <= ElementsMax
  BY SameWorkload, Buffers
<1>1. ASSUME NEW t \in Threads, Construct(t) PROVE At(u)'
  BY <1>1, <1>a, <1>b DEF Construct, Goto, TypeOK, Needed
<1>2. ASSUME NEW t \in Threads, Choose(t) PROVE At(u)'
  <2>0. PICK k \in Chosen : \E n \in LengthOf(k) : want' = [want EXCEPT ![t] = n]
    BY <1>2 DEF Choose
  <2>1. PICK n \in LengthOf(k) : want' = [want EXCEPT ![t] = n]
    BY <2>0
  <2>2. n \in Nat /\ n <= ElementsMax
    BY ChosenKinds, Buffers
  <2>3. CASE u = t
    <3>1. keys'[u] = << >> /\ want'[u] = n
      BY <1>2, <2>1, <2>3 DEF Choose, TypeOK
    <3>2. Needed(u)' \in {1, n}
      BY <3>1 DEF Needed
    <3> QED
      BY <1>b, <2>2, <3>1, <3>2
  <2>4. CASE u # t
    <3>1. keys'[u] = keys[u] /\ want'[u] = want[u] /\ pc'[u] = pc[u] /\ kind'[u] = kind[u]
      BY <1>2, <2>4 DEF Choose, Goto, TypeOK
    <3> QED
      BY <1>a, <1>b, <3>1 DEF Needed
  <2> QED
    BY <2>3, <2>4
<1>3. ASSUME NEW t \in Threads, Generate(t) PROVE At(u)'
  <2>1. CASE u = t
    <3>1. keys'[u] = [i \in 1..want[u] |-> counter[u] + i - 1] /\ pc'[u] = "call"
          /\ want'[u] = want[u]
      BY <1>3, <2>1 DEF Generate, Goto, TypeOK
    <3>2. Len(keys'[u]) = want[u]
      BY <1>a, <3>1
    <3> QED
      BY <1>a, <1>b, <3>1, <3>2
  <2>2. CASE u # t
    <3>1. keys'[u] = keys[u] /\ want'[u] = want[u] /\ pc'[u] = pc[u] /\ kind'[u] = kind[u]
      BY <1>3, <2>2 DEF Generate, Goto, TypeOK
    <3> QED
      BY <1>a, <1>b, <3>1 DEF Needed
  <2> QED
    BY <2>1, <2>2
<1>4. ASSUME NEW t \in Threads, Draw(t) PROVE At(u)'
  <2>1. /\ Needed(t) \in Nat /\ Needed(t) <= ElementsMax
        /\ Len(keys[t]) < Needed(t) /\ keys[t] \in Seq(Nat)
    BY <1>4, Drawing DEF Draw, TypeOK
  <2>2. PICK k \in Support(t) : keys' = [keys EXCEPT ![t] = Append(keys[t], k)]
    BY <1>4 DEF Draw
  <2>3. pc' = pc /\ want' = want /\ Needed(u)' = Needed(u)
    BY <1>4 DEF Draw, Needed
  <2>4. CASE u = t
    <3>1. keys'[u] = Append(keys[t], k)
      BY <2>2, <2>4 DEF TypeOK
    <3>2. Len(keys'[u]) = Len(keys[t]) + 1
      BY <2>1, <3>1
    <3> QED
      BY <1>a, <1>b, <2>1, <2>3, <2>4, <3>2
  <2>5. CASE u # t
    <3>1. keys'[u] = keys[u]
      BY <2>2, <2>5 DEF TypeOK
    <3> QED
      BY <1>a, <1>b, <2>3, <3>1
  <2> QED
    BY <2>4, <2>5
<1>5. ASSUME NEW t \in Threads, Drawn(t) PROVE At(u)'
  BY <1>5, <1>a, <1>b DEF Drawn, Goto, TypeOK, Needed
<1>6. ASSUME NEW t \in Threads, Call(t) PROVE At(u)'
  BY <1>6, <1>a, <1>b DEF Call, Goto, TypeOK, Needed
<1>7. CASE UNCHANGED vars
  BY <1>7, <1>a, <1>b DEF vars, Needed
<1> QED
  BY <1>1, <1>2, <1>3, <1>4, <1>5, <1>6, <1>7, Steps
\* The keys of a thread that draws are loaded ones, and no two are the same.
LEMMA DrawStep ==
  ASSUME TypeOK, PlaceInv, FitInv, DrawInv, [Next]_vars
  PROVE  DrawInv'
<1> DEFINE At(u) == pc[u] \in {"draw", "call"} /\ kind[u] \in DrawKinds =>
                      /\ \A i \in 1..Len(keys[u]) : keys[u][i] \in 0 .. workload.records - 1
                      /\ \A i, j \in 1..Len(keys[u]) : keys[u][i] = keys[u][j] => i = j
                      /\ pc[u] = "call" => Len(keys[u]) = Needed(u)
<1>0. SUFFICES ASSUME NEW u \in Threads PROVE At(u)'
  BY DEF DrawInv
<1>a. At(u) /\ keys[u] \in Seq(Nat) /\ workload' = workload
  BY SameWorkload DEF DrawInv, TypeOK
<1>1. ASSUME NEW t \in Threads, Construct(t) PROVE At(u)'
  BY <1>1, <1>a DEF Construct, Goto, TypeOK, Needed
<1>2. ASSUME NEW t \in Threads, Choose(t) PROVE At(u)'
  <2>1. CASE u = t
    <3>1. PICK k \in Chosen :
            /\ kind' = [kind EXCEPT ![t] = k]
            /\ Goto(t, CASE k \in InsertKinds -> "generate"
                         [] k \in DrawKinds   -> "draw"
                         [] k = "scan"        -> "call")
      BY <1>2 DEF Choose
    <3>2. k \in InsertKinds \/ k \in DrawKinds \/ k = "scan"
      BY ChosenKinds DEF Kinds
    <3>3. /\ pc'[t] = CASE k \in InsertKinds -> "generate"
                        [] k \in DrawKinds   -> "draw"
                        [] k = "scan"        -> "call"
          /\ kind'[t] = k
      BY <3>1 DEF Goto, TypeOK
    <3>4. pc'[t] # "call" \/ kind'[t] \notin DrawKinds
      BY <3>2, <3>3 DEF InsertKinds, DrawKinds
    <3>5. keys'[u] = << >>
      BY <1>2, <2>1 DEF Choose, TypeOK
    <3> QED
      BY <2>1, <3>4, <3>5
  <2>2. CASE u # t
    BY <1>2, <1>a, <2>2 DEF Choose, Goto, TypeOK, Needed
  <2> QED
    BY <2>1, <2>2
<1>3. ASSUME NEW t \in Threads, Generate(t) PROVE At(u)'
  <2>1. CASE u = t
    BY <1>3, <2>1 DEF Generate, PlaceInv, InsertKinds, DrawKinds
  <2>2. CASE u # t
    BY <1>3, <1>a, <2>2 DEF Generate, Goto, TypeOK, Needed
  <2> QED
    BY <2>1, <2>2
<1>4. ASSUME NEW t \in Threads, Draw(t) PROVE At(u)'
  <2>1. PICK k \in Support(t) :
          /\ k <= Last(t)
          /\ \A i \in 1..Len(keys[t]) : keys[t][i] # k
          /\ keys' = [keys EXCEPT ![t] = Append(keys[t], k)]
    BY <1>4 DEF Draw
  <2>2. pc[t] = "draw" /\ pc' = pc /\ kind' = kind /\ want' = want
    BY <1>4 DEF Draw
  <2>3. CASE u = t
    <3>1. k \in 0 .. workload.records - 1
      <4>1. k \in Nat /\ Last(t) = workload.records - 1 /\ workload.records \in Nat
        BY <2>2, Drawing, PartTypes
      <4> QED
        BY <2>1, <4>1
    <3>2. keys'[u] = Append(keys[u], k) /\ Len(keys[u]) \in Nat
      BY <1>a, <2>1, <2>3 DEF TypeOK
    <3>3. /\ Len(keys'[u]) = Len(keys[u]) + 1
          /\ \A i \in 1..Len(keys[u]) : keys'[u][i] = keys[u][i]
          /\ keys'[u][Len(keys[u]) + 1] = k
      BY <1>a, <3>2
    <3>4. kind[u] \in DrawKinds =>
            \A i \in 1..Len(keys[u]) : keys[u][i] \in 0 .. workload.records - 1
      BY <1>a, <2>2, <2>3
    <3>5. kind[u] \in DrawKinds =>
            \A i, j \in 1..Len(keys[u]) : keys[u][i] = keys[u][j] => i = j
      BY <1>a, <2>2, <2>3
    <3>6. \A i \in 1..Len(keys'[u]) : i \in 1..Len(keys[u]) \/ i = Len(keys[u]) + 1
      BY <3>2, <3>3
    <3>7. \A i \in 1..Len(keys[u]) : keys[u][i] # k
      BY <2>1, <2>3
    <3>8. kind[u] \in DrawKinds =>
            \A i \in 1..Len(keys'[u]) : keys'[u][i] \in 0 .. workload.records - 1
      BY <3>1, <3>3, <3>4, <3>6
    <3>9. kind[u] \in DrawKinds =>
            \A i, j \in 1..Len(keys'[u]) : keys'[u][i] = keys'[u][j] => i = j
      BY <3>3, <3>5, <3>6, <3>7
    <3>10. pc'[u] = "draw" /\ kind'[u] = kind[u]
      BY <2>2, <2>3
    <3> QED
      BY <1>a, <3>8, <3>9, <3>10
  <2>4. CASE u # t
    <3>1. keys'[u] = keys[u]
      BY <2>1, <2>4 DEF TypeOK
    <3> QED
      BY <1>a, <2>2, <3>1 DEF Needed
  <2> QED
    BY <2>3, <2>4
<1>5. ASSUME NEW t \in Threads, Drawn(t) PROVE At(u)'
  <2>1. UNCHANGED <<keys, kind, want>> /\ pc[t] = "draw" /\ Len(keys[t]) = Needed(t)
        /\ pc' = [pc EXCEPT ![t] = "call"]
    BY <1>5 DEF Drawn, Goto
  <2>2. Needed(u)' = Needed(u)
    BY <2>1 DEF Needed
  <2> QED
    BY <1>a, <2>1, <2>2 DEF TypeOK
<1>6. ASSUME NEW t \in Threads, Call(t) PROVE At(u)'
  BY <1>6, <1>a DEF Call, Goto, TypeOK, Needed
<1>7. CASE UNCHANGED vars
  BY <1>7, <1>a DEF vars, Needed
<1> QED
  BY <1>1, <1>2, <1>3, <1>4, <1>5, <1>6, <1>7, Steps

\* Only a removal takes a key out of the database.
LEMMA KeptStep ==
  ASSUME TypeOK, PlaceInv, KeptInv, [Next]_vars
  PROVE  KeptInv'
<1>a. workload' = workload /\ (PureInsert' <=> PureInsert)
  BY SameWorkload
<1>1. ASSUME NEW t \in Threads, Call(t), "remove" \notin workload.kinds PROVE db \subseteq db'
  <2>1. kind[t] # "remove"
    BY <1>1, ChosenKinds DEF Call, PlaceInv, Busy
  <2>2. \/ kind[t] \in InsertKinds /\ db' = db \cup KeySet(t)
        \/ db' = db
    BY <1>1, <2>1 DEF Call
  <2> QED
    BY <2>2
<1>2. ASSUME NEW t \in Threads, Construct(t) \/ Choose(t) \/ Generate(t) \/ Draw(t) \/ Drawn(t)
      PROVE  db' = db
  BY <1>2 DEF Construct, Choose, Generate, Draw, Drawn
<1>3. UNCHANGED vars => db' = db
  BY DEF vars
<1>4. "remove" \notin workload.kinds => db \subseteq db'
  BY <1>1, <1>2, <1>3, Steps
<1> QED
  BY <1>a, <1>4 DEF KeptInv
\* One operation less takes as many keys as a batch has at most.
LEMMA OneLess ==
  ASSUME NEW a \in Nat, NEW b \in Nat
  PROVE  a * b \in Nat /\ (a - 1) * b = a * b - b
OBVIOUS

\* Under a workload that only inserts, threads neither throw nor draw, and do
\* nothing but its only kind of operation.
LEMMA PurePlaces ==
  ASSUME TypeOK, PlaceInv, PureInsert, NEW t \in Threads
  PROVE  /\ ~Draw(t) /\ ~Drawn(t)
         /\ Choose(t) => pc'[t] = "generate"
         /\ pc[t] \in Busy => kind[t] \in InsertKinds /\ want[t] \in 0 .. Most /\ left[t] > 0
<1>1. ~Draw(t) /\ ~Drawn(t)
  BY Drawing DEF Draw, Drawn
<1>2. Choose(t) => pc'[t] = "generate"
  <2>1. SUFFICES ASSUME Choose(t) PROVE pc'[t] = "generate"
    OBVIOUS
  <2>2. PICK k \in Chosen : Goto(t, CASE k \in InsertKinds -> "generate"
                                      [] k \in DrawKinds   -> "draw"
                                      [] k = "scan"        -> "call")
    BY <2>1 DEF Choose
  <2>3. k \in InsertKinds
    BY OnlyInserts
  <2>4. (CASE k \in InsertKinds -> "generate"
           [] k \in DrawKinds   -> "draw"
           [] k = "scan"        -> "call") = "generate"
    BY <2>3 DEF InsertKinds, DrawKinds
  <2> QED
    BY <2>2, <2>4 DEF Goto, TypeOK
<1>3. pc[t] \in Busy => kind[t] \in InsertKinds /\ want[t] \in 0 .. Most /\ left[t] > 0
  <2>1. pc[t] \in Busy => kind[t] = OnlyKind /\ want[t] \in LengthOf(OnlyKind) /\ left[t] > 0
    BY OnlyInserts DEF PlaceInv
  <2> QED
    BY <2>1, OnlyInserts DEF TypeOK
<1> QED
  BY <1>1, <1>2, <1>3

\* The sequence of a thread does not reach the end of its keys before the last
\* operation.
LEMMA SequenceStep ==
  ASSUME TypeOK, PlaceInv, SequenceInv, [Next]_vars
  PROVE  SequenceInv'
<1> DEFINE End(u) == Start(u) + Operations(u) * Most
           At(u)  ==
             /\ pc[u] = "construct" => left[u] = Operations(u)
             /\ pc[u] # "construct" => /\ Start(u) <= First(u)
                                       /\ counter[u] + ToSupply(u) * Most <= End(u)
             /\ pc[u] = "call" => keys[u] = [i \in 1..want[u] |-> First(u) + i - 1]
<1>0. SUFFICES ASSUME PureInsert, NEW u \in Threads PROVE At(u)'
  BY SameWorkload DEF SequenceInv
<1>a. At(u)
  BY <1>0 DEF SequenceInv
<1>b. /\ PureInsert' /\ Most' = Most /\ Start(u)' = Start(u) /\ Operations(u)' = Operations(u)
      /\ End(u)' = End(u)
  BY SameWorkload, <1>0
<1>c. /\ counter[u] \in Nat /\ left[u] \in Nat /\ want[u] \in Nat /\ Most \in Nat
      /\ Start(u) \in Nat /\ Operations(u) \in Nat /\ Operations(u) * Most \in Nat
      /\ left[u] * Most \in Nat /\ (left[u] - 1) * Most = left[u] * Most - Most
      /\ End(u) \in Nat
  <2>1. /\ counter[u] \in Nat /\ left[u] \in Nat /\ want[u] \in Nat /\ Most \in Nat
        /\ Start(u) \in Nat /\ Operations(u) \in Nat
    BY PartTypes, OnlyInserts, <1>0 DEF TypeOK
  <2>2. Operations(u) * Most \in Nat /\ left[u] * Most \in Nat
        /\ (left[u] - 1) * Most = left[u] * Most - Most
    BY <2>1, OneLess
  <2>3. End(u) \in Nat
    BY <2>1, <2>2
  <2> QED
    BY <2>1, <2>2, <2>3
<1>d. ASSUME counter'[u] = counter[u], want'[u] = want[u], pc'[u] = pc[u],
             left'[u] = left[u], keys'[u] = keys[u]
      PROVE  At(u)'
  BY <1>a, <1>b, <1>d DEF First, ToSupply
<1>1. ASSUME NEW t \in Threads, Construct(t) PROVE At(u)'
  <2>1. CASE u = t
    <3>1. /\ pc[u] = "construct" /\ pc'[u] = "choose"
          /\ counter'[u] = Start(u) /\ left'[u] = left[u]
      BY <1>0, <1>1, <2>1 DEF Construct, Goto, TypeOK, Start
    <3>2. First(u)' = Start(u) /\ ToSupply(u)' = left[u]
      BY <3>1 DEF First, ToSupply
    <3>3. left[u] = Operations(u)
      BY <1>a, <3>1
    <3> HIDE DEF First, ToSupply
    <3> QED
      BY <1>b, <1>c, <3>1, <3>2, <3>3
  <2>2. CASE u # t
    <3>1. counter'[u] = counter[u] /\ pc'[u] = pc[u]
      BY <1>0, <1>1, <2>2 DEF Construct, Goto, TypeOK
    <3> QED
      BY <1>1, <1>d, <3>1 DEF Construct
  <2> QED
    BY <2>1, <2>2
<1>2. ASSUME NEW t \in Threads, Choose(t) PROVE At(u)'
  <2>1. CASE u = t
    <3>1. /\ pc[u] = "choose" /\ pc'[u] = "generate"
          /\ counter'[u] = counter[u] /\ left'[u] = left[u]
      BY <1>0, <1>2, <2>1, PurePlaces DEF Choose
    <3>2. First(u)' = First(u) /\ ToSupply(u)' = ToSupply(u)
      BY <3>1 DEF First, ToSupply
    <3> QED
      BY <1>a, <1>b, <3>1, <3>2
  <2>2. CASE u # t
    <3>1. pc'[u] = pc[u] /\ want'[u] = want[u] /\ keys'[u] = keys[u]
      BY <1>2, <2>2 DEF Choose, Goto, TypeOK
    <3> QED
      BY <1>2, <1>d, <3>1 DEF Choose
  <2> QED
    BY <2>1, <2>2
<1>3. ASSUME NEW t \in Threads, Generate(t) PROVE At(u)'
  <2>1. CASE u = t
    <3>1. /\ pc[u] = "generate" /\ pc'[u] = "call" /\ left'[u] = left[u] /\ want'[u] = want[u]
          /\ counter'[u] = counter[u] + want[u]
          /\ keys'[u] = [i \in 1..want[u] |-> counter[u] + i - 1]
      BY <1>3, <2>1 DEF Generate, Goto, TypeOK
    <3>2. want[u] <= Most /\ left[u] > 0
      BY <1>0, <3>1, PurePlaces DEF Busy
    <3>3. First(u)' = counter[u] /\ First(u) = counter[u]
      <4>1. First(u)' = counter'[u] - want'[u] /\ First(u) = counter[u]
        BY <3>1, Zenon DEF First
      <4> QED
        BY <1>c, <3>1, <4>1
    <3>4. ToSupply(u)' = left[u] - 1 /\ ToSupply(u) = left[u]
      BY <3>1 DEF ToSupply
    <3>5. Start(u) <= counter[u] /\ counter[u] + left[u] * Most <= End(u)
      BY <1>a, <3>1, <3>3, <3>4
    <3>6. counter[u] + want[u] + (left[u] - 1) * Most <= End(u)
      BY <1>c, <3>2, <3>5
    <3>7. counter'[u] + ToSupply(u)' * Most' <= End(u)'
      BY <1>b, <3>1, <3>4, <3>6
    <3>8. Start(u)' <= First(u)'
      BY <1>b, <3>3, <3>5
    <3>9. keys'[u] = [i \in 1..want'[u] |-> First(u)' + i - 1]
      BY <3>1, <3>3
    <3> QED
      BY <3>1, <3>7, <3>8, <3>9
  <2>2. CASE u # t
    <3>1. pc'[u] = pc[u] /\ counter'[u] = counter[u] /\ keys'[u] = keys[u]
      BY <1>3, <2>2 DEF Generate, Goto, TypeOK
    <3> QED
      BY <1>3, <1>d, <3>1 DEF Generate
  <2> QED
    BY <2>1, <2>2
<1>4. ASSUME NEW t \in Threads, Draw(t) \/ Drawn(t) PROVE At(u)'
  BY <1>0, <1>4, PurePlaces
<1>6. ASSUME NEW t \in Threads, Call(t) PROVE At(u)'
  <2>1. CASE u = t
    <3>1. /\ pc[u] = "call" /\ pc'[u] = "choose" /\ left'[u] = left[u] - 1
          /\ counter'[u] = counter[u]
      BY <1>6, <2>1 DEF Call, Goto, TypeOK
    <3>2. First(u)' = counter[u] /\ First(u) = counter[u] - want[u]
          /\ ToSupply(u)' = ToSupply(u)
      BY <3>1 DEF First, ToSupply
    <3>3. Start(u) <= counter[u]
      <4>1. Start(u) <= First(u)
        BY <1>a, <3>1
      <4> QED
        BY <1>c, <3>2, <4>1
    <3> QED
      BY <1>a, <1>b, <3>1, <3>2, <3>3
  <2>2. CASE u # t
    <3>1. pc'[u] = pc[u] /\ left'[u] = left[u]
      BY <1>6, <2>2 DEF Call, Goto, TypeOK
    <3> QED
      BY <1>6, <1>d, <3>1 DEF Call
  <2> QED
    BY <2>1, <2>2
<1>7. CASE UNCHANGED vars
  BY <1>7, <1>d DEF vars
<1> QED
  BY <1>1, <1>2, <1>3, <1>4, <1>6, <1>7, Steps

\* What a thread inserts are keys of its own sequence.
LEMMA OwnersStep ==
  ASSUME TypeOK, PlaceInv, SequenceInv, OwnersInv, [Next]_vars
  PROVE  OwnersInv'
<1> DEFINE Owned(k, u) == pc[u] # "construct" /\ Start(u) <= k /\ k < First(u)
<1>0. SUFFICES ASSUME PureInsert
               PROVE  \A k \in db' : k \in workload.loaded \/ \E u \in Threads : Owned(k, u)'
  BY SameWorkload DEF OwnersInv
<1>a. \A k \in db : k \in workload.loaded \/ \E u \in Threads : Owned(k, u)
  BY <1>0 DEF OwnersInv
<1>b. \A u \in Threads : /\ counter[u] \in Nat /\ want[u] \in Nat /\ Start(u)' = Start(u)
                         /\ Start(u) \in Nat
  BY SameWorkload, PartTypes DEF TypeOK
<1>c. ASSUME db' = db,
             \A u \in Threads : pc[u] # "construct" => pc'[u] # "construct" /\ First(u)' = First(u)
      PROVE  \A k \in db' : k \in workload.loaded \/ \E u \in Threads : Owned(k, u)'
  <2>1. \A k \in db, u \in Threads : Owned(k, u) => Owned(k, u)'
    BY <1>b, <1>c
  <2> HIDE DEF Owned
  <2> QED
    BY <1>a, <1>c, <2>1
<1>1. ASSUME NEW t \in Threads, Construct(t)
      PROVE  \A k \in db' : k \in workload.loaded \/ \E u \in Threads : Owned(k, u)'
  <2>1. db' = db /\ pc[t] = "construct"
    BY <1>1 DEF Construct
  <2>2. \A u \in Threads \ {t} : pc'[u] = pc[u] /\ First(u)' = First(u)
    BY <1>0, <1>1 DEF Construct, Goto, First, TypeOK
  <2> QED
    BY <1>c, <2>1, <2>2
<1>2. ASSUME NEW t \in Threads, Choose(t)
      PROVE  \A k \in db' : k \in workload.loaded \/ \E u \in Threads : Owned(k, u)'
  <2>1. db' = db /\ pc[t] = "choose" /\ pc'[t] = "generate" /\ counter' = counter
    BY <1>0, <1>2, PurePlaces DEF Choose
  <2>2. \A u \in Threads \ {t} : pc'[u] = pc[u] /\ want'[u] = want[u]
    BY <1>2 DEF Choose, Goto, TypeOK
  <2>3. \A u \in Threads : First(u)' = First(u) /\ (pc[u] # "construct" => pc'[u] # "construct")
    BY <2>1, <2>2 DEF First
  <2> QED
    BY <1>c, <2>1, <2>3
<1>3. ASSUME NEW t \in Threads, Generate(t)
      PROVE  \A k \in db' : k \in workload.loaded \/ \E u \in Threads : Owned(k, u)'
  <2>1. db' = db /\ pc[t] = "generate" /\ pc'[t] = "call" /\ want' = want
        /\ counter'[t] = counter[t] + want[t]
    BY <1>3 DEF Generate, Goto, TypeOK
  <2>2. \A u \in Threads \ {t} : pc'[u] = pc[u] /\ counter'[u] = counter[u]
    BY <1>3 DEF Generate, Goto, TypeOK
  <2>3. \A u \in Threads : First(u)' = First(u) /\ (pc[u] # "construct" => pc'[u] # "construct")
    BY <1>b, <2>1, <2>2 DEF First
  <2> QED
    BY <1>c, <2>1, <2>3
<1>4. ASSUME NEW t \in Threads, Draw(t) \/ Drawn(t)
      PROVE  \A k \in db' : k \in workload.loaded \/ \E u \in Threads : Owned(k, u)'
  BY <1>0, <1>4, PurePlaces
<1>5. ASSUME NEW t \in Threads, Call(t)
      PROVE  \A k \in db' : k \in workload.loaded \/ \E u \in Threads : Owned(k, u)'
  <2>1. /\ pc[t] = "call" /\ pc'[t] = "choose" /\ counter' = counter /\ want' = want
        /\ \A u \in Threads \ {t} : pc'[u] = pc[u]
    BY <1>5 DEF Call, Goto, TypeOK
  <2>2. kind[t] \in InsertKinds
    BY <1>0, <2>1, PurePlaces DEF Busy
  <2>3. db' = db \cup KeySet(t)
    BY <1>5, <2>2 DEF Call, InsertKinds
  <2>4. /\ Start(t) <= First(t) /\ keys[t] = [i \in 1..want[t] |-> First(t) + i - 1]
        /\ First(t) = counter[t] - want[t] /\ First(t)' = counter[t]
    BY <1>0, <2>1 DEF SequenceInv, First
  <2>5. \A k \in KeySet(t) : Owned(k, t)'
    <3>1. KeySet(t) = {First(t) + i - 1 : i \in 1..want[t]}
      BY <1>b, <2>4 DEF KeySet
    <3>2. \A k \in KeySet(t) : Start(t) <= k /\ k < counter[t]
      BY <1>b, <2>4, <3>1
    <3> QED
      BY <1>b, <2>1, <2>4, <3>2
  <2>6. \A k \in db, u \in Threads : Owned(k, u) => Owned(k, u)'
    <3>1. \A u \in Threads \ {t} : First(u)' = First(u)
      BY <2>1 DEF First
    <3>2. \A k \in db : k \in Nat
      BY DEF TypeOK
    <3>3. \A k \in db : Owned(k, t) => Owned(k, t)'
      BY <1>b, <2>1, <2>4, <3>2
    <3>4. \A k \in db, u \in Threads \ {t} : Owned(k, u) => Owned(k, u)'
      BY <1>b, <2>1, <3>1
    <3> HIDE DEF Owned
    <3> QED
      BY <3>3, <3>4
  <2> HIDE DEF Owned
  <2> QED
    BY <1>a, <2>3, <2>5, <2>6
<1>6. CASE UNCHANGED vars
  <2>1. db' = db /\ pc' = pc /\ counter' = counter /\ want' = want
    BY <1>6 DEF vars
  <2>2. \A u \in Threads : First(u)' = First(u) /\ (pc[u] # "construct" => pc'[u] # "construct")
    BY <2>1 DEF First
  <2> QED
    BY <1>c, <2>1, <2>2
<1> QED
  BY <1>1, <1>2, <1>3, <1>4, <1>5, <1>6, Steps

-----------------------------------------------------------------------------
(***************************************************************************)
(* The theorems.                                                           *)
(***************************************************************************)

\* The threads begin with no keys of their own, and the database loaded.
LEMMA WorkerInit == Init => WorkerInv
<1> SUFFICES ASSUME Init PROVE WorkerInv
  OBVIOUS
<1>0. workload \in Workloads
  BY DEF Init
<1>1. TypeOK
  <2>1. workload.parts \in [Threads -> [records : Nat, operations : Nat \ {0}, start : Nat]]
        /\ workload.loaded \subseteq Nat
    BY <1>0, WorkerAssumption
  <2>2. \A t \in Threads : workload.parts[t].operations \in Nat
    BY <2>1
  <2>3. << >> \in Seq(Nat)
    OBVIOUS
  <2>4. keys \in [Threads -> Seq(Nat)]
    BY <2>3 DEF Init
  <2> QED
    BY <2>1, <2>2, <2>4 DEF Init, TypeOK
<1>2. PlaceInv
  BY DEF Init, PlaceInv, Busy
<1>3. FitInv
  BY <1>1, Buffers DEF Init, FitInv
<1>4. DrawInv
  BY DEF Init, DrawInv
<1>5. KeptInv
  <2>1. ~PureInsert => \A k \in InsertKinds : workload.kinds # {k}
    <3>1. \A k \in InsertKinds : Cardinality({k}) = 1 /\ {k} \subseteq InsertKinds
      BY FS_Singleton
    <3> QED
      BY <3>1 DEF PureInsert
  <2> QED
    BY <2>1, <1>0, LoadedAssumption DEF Init, KeptInv
<1>6. SequenceInv
  BY DEF Init, SequenceInv, Operations
<1>7. OwnersInv
  BY DEF Init, OwnersInv
<1> QED
  BY <1>1, <1>2, <1>3, <1>4, <1>5, <1>6, <1>7 DEF WorkerInv
\* The invariant holds in every state.
THEOREM WorkerInvariant == Spec => []WorkerInv
<1>1. WorkerInv /\ [Next]_vars => WorkerInv'
  BY TypeStep, PlaceStep, FitStep, DrawStep, KeptStep, SequenceStep, OwnersStep DEF WorkerInv
<1> QED
  BY WorkerInit, <1>1, PTL DEF Spec

\* The counters stay natural: no thread performs an operation more than it has.
THEOREM TypeCorrect == Spec => []TypeOK
<1>1. WorkerInv => TypeOK
  BY DEF WorkerInv
<1> QED
  BY <1>1, WorkerInvariant, PTL

\* The buffers of a worker are large enough for every batch and every range.
THEOREM BuffersFitAlways == Spec => []BuffersFit
<1>1. WorkerInv => BuffersFit
  BY DEF WorkerInv, FitInv, BuffersFit
<1> QED
  BY <1>1, WorkerInvariant, PTL

\* What a thread draws to read, update or remove was loaded, and is there unless
\* it was removed; a batch has no key twice.
THEOREM DrawnKeysExistAlways == Spec => []DrawnKeysExist
<1>1. WorkerInv => DrawnKeysExist
  <2>1. SUFFICES ASSUME WorkerInv, NEW t \in Threads, pc[t] = "call", kind[t] \in DrawKinds
                 PROVE  /\ KeySet(t) \subseteq 0 .. workload.records - 1
                        /\ "remove" \notin workload.kinds => KeySet(t) \subseteq db
                        /\ Cardinality(KeySet(t)) = Needed(t)
    BY DEF DrawnKeysExist
  <2>2. /\ \A i \in 1..Len(keys[t]) : keys[t][i] \in 0 .. workload.records - 1
        /\ \A i, j \in 1..Len(keys[t]) : keys[t][i] = keys[t][j] => i = j
        /\ Len(keys[t]) = Needed(t) /\ keys[t] \in Seq(Nat)
    BY <2>1 DEF WorkerInv, DrawInv, TypeOK
  <2>3. KeySet(t) \subseteq 0 .. workload.records - 1
    BY <2>2 DEF KeySet
  <2>4. Cardinality(KeySet(t)) = Needed(t)
    BY <2>2, KeysCounted DEF KeySet
  <2>5. ~PureInsert
    <3>1. kind[t] \in Chosen
      BY <2>1 DEF WorkerInv, PlaceInv, Busy
    <3> QED
      BY <2>1, <3>1, OnlyInserts DEF WorkerInv, InsertKinds, DrawKinds
  <2>6. "remove" \notin workload.kinds => KeySet(t) \subseteq db
    BY <2>1, <2>3, <2>5 DEF WorkerInv, KeptInv
  <2> QED
    BY <2>3, <2>4, <2>6
<1> QED
  BY <1>1, WorkerInvariant, PTL

\* Threads that only insert never insert a key that is in the database, which
\* threads that insert among other operations do (see MC_WorkerReadUpsert).
THEOREM PureInsertsAreNewAlways == Spec => []PureInsertsAreNew
<1>1. WorkerInv => PureInsertsAreNew
  <2>1. SUFFICES ASSUME WorkerInv, PureInsert, NEW t \in Threads, pc[t] = "call",
                        NEW k \in KeySet(t), k \in db
                 PROVE  FALSE
    BY DEF PureInsertsAreNew, InsertsAreNew
  <2> DEFINE End(u) == Start(u) + Operations(u) * Most
  <2>2. TypeOK /\ PlaceInv /\ SequenceInv /\ OwnersInv
    BY <2>1 DEF WorkerInv
  <2>3. \A u \in Threads :
          /\ counter[u] \in Nat /\ want[u] \in Nat /\ left[u] \in Nat /\ Most \in Nat
          /\ Start(u) \in Nat /\ Operations(u) \in Nat
          /\ Operations(u) * Most \in Nat /\ left[u] * Most \in Nat
          /\ (left[u] - 1) * Most = left[u] * Most - Most
    <3>1. \A u \in Threads :
            /\ counter[u] \in Nat /\ want[u] \in Nat /\ left[u] \in Nat /\ Most \in Nat
            /\ Start(u) \in Nat /\ Operations(u) \in Nat
      BY <2>1, <2>2, PartTypes, OnlyInserts DEF TypeOK
    <3> QED
      BY <3>1, OneLess
  <2>4. \A u \in Threads : pc[u] # "construct" => First(u) <= counter[u] /\ counter[u] <= End(u)
    <3>1. SUFFICES ASSUME NEW u \in Threads, pc[u] # "construct"
                   PROVE  First(u) <= counter[u] /\ counter[u] <= End(u)
      OBVIOUS
    <3>2. counter[u] + ToSupply(u) * Most <= End(u)
      BY <2>1, <2>2, <3>1 DEF SequenceInv
    <3>3. ToSupply(u) * Most \in Nat
      <4>1. pc[u] = "call" => left[u] > 0
        BY <2>2 DEF PlaceInv, Busy
      <4>2. ToSupply(u) \in Nat
        BY <2>3, <4>1 DEF ToSupply
      <4> QED
        BY <2>3, <4>2, OneLess
    <3>4. End(u) \in Nat
      BY <2>3
    <3>5. First(u) <= counter[u]
      BY <2>3 DEF First
    <3> HIDE DEF End
    <3> QED
      BY <2>3, <3>2, <3>3, <3>4, <3>5
  <2>5. Start(t) <= k /\ First(t) <= k /\ k < counter[t] /\ k \in Nat
    <3>1. Start(t) <= First(t) /\ keys[t] = [i \in 1..want[t] |-> First(t) + i - 1]
      BY <2>1, <2>2 DEF SequenceInv
    <3>2. First(t) = counter[t] - want[t]
      BY <2>1 DEF First
    <3>3. KeySet(t) = {First(t) + i - 1 : i \in 1..want[t]}
      BY <2>3, <3>1 DEF KeySet
    <3> QED
      BY <2>1, <2>3, <3>1, <3>2, <3>3
  <2>6. /\ workload \in Workloads /\ OnlyKind \in InsertKinds /\ workload.kinds = {OnlyKind}
        /\ \A u \in Threads : Insertable(workload, u, OnlyKind) = Start(u) .. End(u) - 1
    <3>1. workload \in Workloads /\ OnlyKind \in InsertKinds /\ workload.kinds = {OnlyKind}
      BY <2>1, <2>2, OnlyInserts DEF TypeOK
    <3>2. \A u \in Threads : Insertable(workload, u, OnlyKind) = Start(u) .. End(u) - 1
      BY DEF Insertable, Start, Operations, Most
    <3> QED
      BY <3>1, <3>2
  <2>7. End(t) \in Int /\ k \in Insertable(workload, t, OnlyKind)
    <3>1. End(t) \in Int /\ k \in Start(t) .. End(t) - 1
      BY <2>1, <2>3, <2>4, <2>5
    <3>2. Insertable(workload, t, OnlyKind) = Start(t) .. End(t) - 1
      BY <2>6
    <3> QED
      BY <3>1, <3>2, Zenon
  <2>8. k \notin workload.loaded
    BY <2>6, <2>7, PartsAssumption
  <2>9. PICK u \in Threads : pc[u] # "construct" /\ Start(u) <= k /\ k < First(u)
    BY <2>1, <2>2, <2>8 DEF OwnersInv
  <2>10. u # t
    <3>1. First(t) \in Int
      BY <2>3 DEF First
    <3> QED
      BY <2>5, <2>9, <3>1
  <2>11. k \in Insertable(workload, u, OnlyKind)
    <3>1. First(u) \in Int /\ End(u) \in Int
      BY <2>3 DEF First
    <3>2. First(u) <= counter[u] /\ counter[u] <= End(u)
      BY <2>4, <2>9
    <3> HIDE DEF End
    <3> QED
      BY <2>3, <2>5, <2>6, <2>9, <3>1, <3>2
  <2> QED
    BY <2>6, <2>7, <2>10, <2>11, PartsAssumption
<1> QED
  BY <1>1, WorkerInvariant, PTL
=============================================================================
