----------------------------- MODULE RocksDBProofs -----------------------------
(***************************************************************************)
(* Proofs about RocksDB for every set of threads, keys and workloads: what *)
(* a call owes to its workload (CallInv), how far the buffers reach        *)
(* (FitInv), what a flush finds (SettledInv), and that the adapter         *)
(* implements DataAccessor.                                                *)
(***************************************************************************)
EXTENDS RocksDB, FiniteSetTheorems, FunctionTheorems, SequenceTheorems,
        WellFoundedInduction, TLAPS

Swapped(s) == {Swap(m) : m \in s}
Bytes      == 0 .. Base * Base - 1

-----------------------------------------------------------------------------
(***************************************************************************)
(* Numbers of two bytes.                                                   *)
(***************************************************************************)

\* The quotient and the remainder of a number that is put together from them.
LEMMA Quotient ==
  ASSUME NEW b \in Nat \ {0}, NEW q \in Nat, NEW r \in 0 .. b - 1
  PROVE  (q * b + r) % b = r /\ (q * b + r) \div b = q
OBVIOUS

\* A number of two bytes is taken apart into them.
LEMMA BytesOf ==
  ASSUME NEW b \in Nat \ {0}, NEW m \in 0 .. b * b - 1
  PROVE  /\ m % b \in 0 .. b - 1 /\ m \div b \in 0 .. b - 1
         /\ m = (m \div b) * b + (m % b)
OBVIOUS

\* Two bytes make a number of two bytes.
LEMMA TwoBytes ==
  ASSUME NEW b \in Nat \ {0}, NEW q \in 0 .. b - 1, NEW r \in 0 .. b - 1
  PROVE  q * b + r \in 0 .. b * b - 1
<1>1. q * b <= (b - 1) * b /\ (b - 1) * b = b * b - b /\ q * b \in Nat /\ b * b \in Nat
  OBVIOUS
<1> QED
  BY <1>1

\* To turn a number round twice is to leave it.
LEMMA SwapTwice ==
  ASSUME NEW m \in Bytes
  PROVE  Swap(m) \in Bytes /\ Swap(Swap(m)) = m
<1> DEFINE q == m \div Base
           r == m % Base
           n == r * Base + q
<1>1. Base \in Nat \ {0}
  BY CallerAssumption
<1>2. r \in 0 .. Base - 1 /\ q \in 0 .. Base - 1 /\ m = q * Base + r
  BY <1>1, BytesOf DEF Bytes
<1>3. Swap(m) = n /\ Swap(n) = (n % Base) * Base + n \div Base
  BY DEF Swap
<1> HIDE DEF q, r
<1>4. n % Base = q /\ n \div Base = r
  BY <1>1, <1>2, Quotient
<1>5. n \in Bytes
  BY <1>1, <1>2, TwoBytes DEF Bytes
<1> HIDE DEF n
<1> QED
  BY <1>2, <1>3, <1>4, <1>5

\* Slices are the keys turned round, and the other way about.
LEMMA SlicesTurned ==
  /\ Keys \subseteq Bytes /\ Slice \subseteq Bytes
  /\ \A k \in Keys : ToSlice(k) \in Slice /\ Swap(ToSlice(k)) = k
  /\ \A m \in Slice : Swap(m) \in Keys /\ ToSlice(Swap(m)) = m
  /\ \A m, n \in Slice : Swap(m) = Swap(n) => m = n
  /\ IsFiniteSet(Bytes) /\ Bytes \subseteq Nat
<1>1. Keys \subseteq Bytes /\ Base * Base \in Nat /\ Bytes \subseteq Nat /\ IsFiniteSet(Bytes)
  <2>1. Base \in Nat \ {0} /\ Keys \subseteq Bytes
    BY CallerAssumption DEF Bytes
  <2>2. Base * Base \in Nat
    BY <2>1
  <2>3. Base * Base - 1 \in Int
    BY <2>2
  <2> QED
    BY <2>1, <2>2, <2>3, FS_Interval DEF Bytes
<1>2. \A m \in Bytes : Swap(m) \in Bytes /\ Swap(Swap(m)) = m
  BY SwapTwice
<1>3. \A k \in Keys : ToSlice(k) \in Slice /\ Swap(ToSlice(k)) = k /\ ToSlice(k) \in Bytes
  BY <1>1, <1>2 DEF Slice, ToSlice
<1>4. \A m \in Slice : \E k \in Keys : m = ToSlice(k)
  BY DEF Slice
<1>5. \A m \in Slice : m \in Bytes /\ Swap(m) \in Keys /\ ToSlice(Swap(m)) = m
  BY <1>3, <1>4
<1>6. \A m, n \in Slice : Swap(m) = Swap(n) => m = n
  BY <1>5
<1> QED
  BY <1>1, <1>3, <1>5, <1>6

-----------------------------------------------------------------------------
(***************************************************************************)
(* Finite sets of numbers.                                                 *)
(***************************************************************************)

\* The sets of the elements above some element of a finite set of numbers are
\* ordered by inclusion, and the least of them is empty: above the maximum.
LEMMA MaxExists ==
  ASSUME NEW S, IsFiniteSet(S), S \subseteq Nat, S # {}
  PROVE  \E x \in S : \A y \in S : y <= x
<1> DEFINE Above(x) == {y \in S : y > x}
           A == {Above(x) : x \in S}
<1>1. IsWellFoundedOn(StrictSubsetOrdering(S), FiniteSubsetsOf(S))
  BY FS_StrictSubsetOrderingWellFounded
<1>2. A \subseteq FiniteSubsetsOf(S) /\ A # {}
  <2>1. \A x \in S : Above(x) \in SUBSET S
    OBVIOUS
  <2>2. \A x \in S : IsFiniteSet(Above(x))
    <3> HIDE DEF Above
    <3> QED  BY <2>1, FS_Subset
  <2> HIDE DEF Above
  <2> QED
    BY <2>1, <2>2 DEF FiniteSubsetsOf
<1>3. PICK M \in A : \A N \in A : ~ (<<N, M>> \in StrictSubsetOrdering(S))
  <2> HIDE DEF A
  <2> QED  BY <1>1, <1>2, WFMin
<1>4. PICK x \in S : M = Above(x)
  BY <1>3
<1>5. SUFFICES ASSUME NEW y \in S, y > x PROVE FALSE
  BY <1>4
<1>6. Above(y) \in A /\ Above(y) \subseteq Above(x) /\ Above(y) # Above(x)
  <2>1. y \in Above(x) /\ y \notin Above(y)
    BY <1>5
  <2>2. Above(y) \subseteq Above(x)
    <3>1. \A z \in S : z > y => z > x
      BY <1>5
    <3> QED
      BY <3>1
  <2> QED
    BY <2>1, <2>2
<1>7. Above(x) \in SUBSET S /\ Above(y) \in SUBSET S
  OBVIOUS
<1> QED
  <2> HIDE DEF Above, A
  <2> QED  BY <1>3, <1>4, <1>6, <1>7 DEF StrictSubsetOrdering

\* Max of a finite set of numbers is one of them, and no other is above it.
LEMMA MaxIsMaximum ==
  ASSUME NEW S, IsFiniteSet(S), S \subseteq Nat, S # {}
  PROVE  Max(S) \in S /\ \A y \in S : y <= Max(S)
<1>1. PICK x \in S : \A y \in S : y <= x
  BY MaxExists
<1>2. \A y \in S : x >= y
  BY <1>1
<1>3. Max(S) \in S /\ \A y \in S : Max(S) >= y
  BY <1>2 DEF Max
<1> QED
  BY <1>3

\* A set has as many elements as its image under a function that is injective.
LEMMA ImageCount ==
  ASSUME NEW S, IsFiniteSet(S), NEW f, f \in [S -> {f[x] : x \in S}],
         \A x, y \in S : f[x] = f[y] => x = y
  PROVE  IsFiniteSet({f[x] : x \in S}) /\ Cardinality({f[x] : x \in S}) = Cardinality(S)
<1> DEFINE T == {f[x] : x \in S}
<1>1. \A y \in T : \E x \in S : f[x] = y
  OBVIOUS
<1> HIDE DEF T
<1>2. f \in [S -> T]
  BY DEF T
<1>3. f \in Surjection(S, T)
  BY <1>1, <1>2, Fun_IsSurj
<1>4. f \in Injection(S, T)
  BY <1>2, Fun_IsInj
<1>5. IsFiniteSet(T) /\ Cardinality(T) = Cardinality(S)
  BY <1>3, <1>4, FS_Surjection
<1> QED
  BY <1>5 DEF T

\* To turn slices round makes no two of them the same.
LEMMA SwappedCount ==
  ASSUME NEW S, S \subseteq Slice
  PROVE  IsFiniteSet(S) /\ Cardinality(Swapped(S)) = Cardinality(S)
<1> DEFINE f == [m \in S |-> Swap(m)]
<1>1. IsFiniteSet(S)
  <2>1. S \in SUBSET Bytes /\ IsFiniteSet(Bytes)
    BY SlicesTurned
  <2> QED
    BY <2>1, FS_Subset
<1>2. {f[x] : x \in S} = Swapped(S) /\ f \in [S -> {f[x] : x \in S}]
  BY DEF Swapped
<1>3. \A x, y \in S : f[x] = f[y] => x = y
  BY SlicesTurned
<1> HIDE DEF f
<1> QED
  BY <1>1, <1>2, <1>3, ImageCount

\* The keys of a call, no two of which are the same, are as many as it is long.
LEMMA KeysCounted ==
  ASSUME NEW s \in Seq(Keys), \A i, j \in 1..Len(s) : s[i] = s[j] => i = j
  PROVE  Cardinality(Range(s)) = Len(s)
<1>1. /\ Len(s) \in Nat /\ DOMAIN s = 1..Len(s) /\ s \in [1..Len(s) -> {s[i] : i \in 1..Len(s)}]
      /\ Range(s) = {s[i] : i \in 1..Len(s)}
  BY DEF Range
<1>2. IsFiniteSet(1..Len(s)) /\ Cardinality(1..Len(s)) = Len(s)
  <2>1. IsFiniteSet(1..Len(s))
        /\ Cardinality(1..Len(s)) = IF 1 > Len(s) THEN 0 ELSE Len(s) - 1 + 1
    <3>1. 1 \in Int /\ Len(s) \in Int
      BY <1>1
    <3> QED
      BY <3>1, FS_Interval, Zenon
  <2> QED
    BY <1>1, <2>1
<1>3. Cardinality({s[i] : i \in 1..Len(s)}) = Cardinality(1..Len(s))
  BY <1>1, <1>2, ImageCount
<1> QED
  BY <1>1, <1>2, <1>3
\* The first entries of a set, up to a length, are no more than that: all but
\* the last of them come before it.
LEMMA FirstFew ==
  ASSUME NEW S, S \subseteq Slice, NEW n \in Nat
  PROVE  FirstBytes(S, n) \subseteq S /\ Cardinality(FirstBytes(S, n)) <= n
<1> DEFINE F == FirstBytes(S, n)
           G == {Swap(m) : m \in F}
<1>1. F \subseteq S /\ F \subseteq Slice /\ IsFiniteSet(F) /\ G = Swapped(F)
      /\ Cardinality(F) \in Nat
  <2>1. F \subseteq S /\ F \subseteq Slice /\ G = Swapped(F)
    BY DEF FirstBytes, Swapped
  <2> HIDE DEF F, G
  <2> QED
    BY <2>1, SwappedCount, FS_CardinalityType
<1>2. ASSUME F = {} PROVE Cardinality(F) <= n
  <2> HIDE DEF F
  <2> QED  BY <1>1, <1>2, FS_EmptySet
<1>3. ASSUME F # {} PROVE Cardinality(F) <= n
  <2>1. G \subseteq Nat /\ G # {}
    <3>1. \A m \in Slice : Swap(m) \in Nat
      BY SlicesTurned
    <3> HIDE DEF F
    <3> QED
      BY <1>1, <1>3, <3>1
  <2>2. IsFiniteSet(G)
    <3>1. G \in SUBSET Bytes /\ IsFiniteSet(Bytes)
      <4>1. \A m \in F : Swap(m) \in Bytes
        BY <1>1, SlicesTurned
      <4> HIDE DEF F
      <4>2. G \in SUBSET Bytes
        BY <4>1
      <4> QED
        BY <4>2, SlicesTurned
    <3> HIDE DEF G
    <3> QED
      BY <3>1, FS_Subset
  <2>3. PICK last \in F : \A m \in F : Swap(m) <= Swap(last)
    <3>1. PICK x \in G : \A y \in G : y <= x
      <4> HIDE DEF G
      <4> QED  BY <2>1, <2>2, MaxExists
    <3> HIDE DEF F
    <3> QED
      BY <3>1
  <2> DEFINE B == {j \in S : Before(j, last)}
  <2>4. Cardinality(B) < n
    BY <2>3 DEF FirstBytes
  <2>5. F \ {last} \subseteq B
    <3>1. \A m \in F \ {last} : Swap(m) # Swap(last) /\ Swap(m) \in Nat /\ Swap(last) \in Nat
      <4> HIDE DEF F
      <4> QED  BY <1>1, <2>3, SlicesTurned
    <3> HIDE DEF F
    <3> QED
      BY <1>1, <2>3, <3>1 DEF Before
  <2>6. IsFiniteSet(B) /\ Cardinality(B) \in Nat
    <3>1. B \subseteq Slice
      OBVIOUS
    <3> HIDE DEF B
    <3> QED
      BY <3>1, SwappedCount, FS_CardinalityType
  <2>7. Cardinality(F \ {last}) <= Cardinality(B)
    <3> HIDE DEF B, F
    <3> QED  BY <2>5, <2>6, FS_Subset
  <2>8. Cardinality(F \ {last}) = Cardinality(F) - 1
    <3> HIDE DEF F
    <3> QED  BY <1>1, <2>3, FS_RemoveElement
  <2> HIDE DEF F, B
  <2> QED
    BY <1>1, <2>4, <2>6, <2>7, <2>8
<1> QED
  BY <1>1, <1>2, <1>3

\* The first n keys of s from k on.
FirstKeys(s, k, n) ==
  LET beyond == {j \in s : j >= k}
  IN  {j \in beyond : Cardinality({i \in beyond : i < j}) < n}

\* The order of the bytes of slices is the order of the keys: an iterator meets
\* the first keys from its own on.
LEMMA IteratedInOrder ==
  ASSUME NEW S, S \subseteq Slice, NEW k \in Keys, NEW n \in Nat
  PROVE  Swapped(FirstBytes({m \in S : ~Before(m, ToSlice(k))}, n))
           = FirstKeys(Swapped(S), k, n)
<1> DEFINE beyond == {j \in Swapped(S) : j >= k}
           T      == {m \in S : ~Before(m, ToSlice(k))}
           low(m) == {l \in T : Before(l, m)}
           low2(j) == {i \in beyond : i < j}
<1>1. \A m \in S : Swap(m) \in Nat
  BY SlicesTurned
<1>2. k \in Nat /\ Swap(ToSlice(k)) = k
  BY SlicesTurned
<1>3. T \subseteq Slice /\ Swapped(T) = beyond
  BY <1>1, <1>2 DEF Before, Swapped
<1>4. ASSUME NEW m \in T PROVE Cardinality(low(m)) = Cardinality(low2(Swap(m)))
  <2>1. Swapped(low(m)) = low2(Swap(m))
    <3>1. Swapped(low(m)) = {i \in Swapped(T) : i < Swap(m)}
      <4> HIDE DEF T
      <4> QED  BY DEF Swapped, Before
    <3> HIDE DEF beyond, T
    <3> QED
      BY <1>3, <3>1
  <2>2. low(m) \subseteq Slice
    BY <1>3
  <2> HIDE DEF low, low2
  <2> QED
    BY <2>1, <2>2, SwappedCount
<1>5. FirstBytes(T, n) = {m \in T : Cardinality(low(m)) < n}
  BY DEF FirstBytes
<1>6. Swapped(FirstBytes(T, n)) = {j \in beyond : Cardinality(low2(j)) < n}
  <2> HIDE DEF low, low2, beyond, T
  <2>1. FirstBytes(T, n) = {m \in T : Cardinality(low2(Swap(m))) < n}
    BY <1>4, <1>5
  <2>2. \A j : j \in beyond <=> \E m \in T : j = Swap(m)
    BY <1>3 DEF Swapped
  <2> QED
    BY <2>1, <2>2 DEF Swapped
<1> QED
  BY <1>6 DEF FirstKeys

-----------------------------------------------------------------------------
(***************************************************************************)
(* The calls of a workload.                                                *)
(***************************************************************************)

OneKeyKinds == {"upsert", "update", "remove", "read"}
RangeKinds  == {"range_select", "scan"}
SortedKinds  == {"batch_upsert", "bulk_load"}

\* What a call is made of: one key, or different ones as many as a batch of the
\* workload has, and of a range the length.
LEMMA CallFacts ==
  ASSUME NEW w \in Workloads, NEW k \in CallKinds, NEW c \in CallsOf(k, w.lengths)
  PROVE  /\ c = [kind |-> k, keys |-> c.keys, length |-> c.length]
         /\ c.kind = k /\ c.keys \in Seq(Keys) /\ c.length \in Nat /\ Len(c.keys) \in Nat \ {0}
         /\ c.keys[1] \in Keys
         /\ \A i, j \in 1..Len(c.keys) : c.keys[i] = c.keys[j] => i = j
         /\ k \in OneKeyKinds \cup RangeKinds => Len(c.keys) = 1
         /\ k \in SortedKinds \cup {"batch_read"} => Len(c.keys) \in w.lengths
         /\ k \in SortedKinds => Ascending(c.keys)
         /\ k \in RangeKinds => c.length \in w.lengths
<1>1. ASSUME NEW n \in Nat \ {0}, NEW s \in Batches(n)
      PROVE  /\ s \in Seq(Keys) /\ Len(s) = n /\ s[1] \in Keys
             /\ \A i, j \in 1..Len(s) : s[i] = s[j] => i = j
  <2>1. s \in [1..n -> Keys] /\ IsInjective(s)
    BY DEF Batches
  <2>2. s \in Seq(Keys) /\ Len(s) = n /\ 1 \in 1..n /\ DOMAIN s = 1..n
    BY <2>1
  <2> QED
    BY <2>1, <2>2 DEF IsInjective
<1>2. w.lengths \subseteq Nat \ {0}
  BY CallerAssumption
<1>3. CASE k \in OneKeyKinds
  <2>1. c \in [kind : {k}, keys : Batches(1), length : {1}]
    BY <1>3 DEF CallsOf, OneKeyKinds
  <2>2. /\ c = [kind |-> k, keys |-> c.keys, length |-> c.length]
        /\ c.kind = k /\ c.keys \in Batches(1) /\ c.length = 1
    BY <2>1
  <2>3. k \notin RangeKinds /\ k \notin SortedKinds /\ k # "batch_read"
    BY <1>3 DEF OneKeyKinds, RangeKinds, SortedKinds
  <2>4. /\ c.keys \in Seq(Keys) /\ Len(c.keys) = 1 /\ c.keys[1] \in Keys
        /\ \A i, j \in 1..Len(c.keys) : c.keys[i] = c.keys[j] => i = j
    <3>1. 1 \in Nat \ {0} /\ c.keys \in Batches(1)
      BY <2>2
    <3> QED
      BY <1>1, <3>1
  <2> QED
    BY <2>2, <2>3, <2>4
<1>4. CASE k = "batch_read"
  <2>1. PICK n \in w.lengths : c \in [kind : {k}, keys : Batches(n), length : {n}]
    BY <1>4 DEF CallsOf
  <2> QED
    BY <1>1, <1>2, <1>4, <2>1 DEF OneKeyKinds, RangeKinds, SortedKinds
<1>5. CASE k \in SortedKinds
  <2>1. PICK n \in w.lengths : c \in [kind : {k}, keys : {s \in Batches(n) : Ascending(s)},
                                      length : {n}]
    BY <1>5 DEF CallsOf, SortedKinds
  <2> QED
    BY <1>1, <1>2, <1>5, <2>1 DEF OneKeyKinds, RangeKinds, SortedKinds
<1>6. CASE k \in RangeKinds
  <2>1. c \in [kind : {k}, keys : Batches(1), length : w.lengths]
    BY <1>6 DEF CallsOf, RangeKinds
  <2>2. /\ c = [kind |-> k, keys |-> c.keys, length |-> c.length]
        /\ c.kind = k /\ c.keys \in Batches(1) /\ c.length \in w.lengths
    BY <2>1
  <2>3. k \notin SortedKinds /\ k # "batch_read"
    BY <1>6 DEF RangeKinds, SortedKinds
  <2>4. /\ c.keys \in Seq(Keys) /\ Len(c.keys) = 1 /\ c.keys[1] \in Keys
        /\ \A i, j \in 1..Len(c.keys) : c.keys[i] = c.keys[j] => i = j
    <3>1. 1 \in Nat \ {0} /\ c.keys \in Batches(1)
      BY <2>2
    <3> QED
      BY <1>1, <3>1
  <2> QED
    BY <1>2, <2>2, <2>3, <2>4
<1> QED
  BY <1>3, <1>4, <1>5, <1>6 DEF CallKinds, OneKeyKinds, RangeKinds, SortedKinds
-----------------------------------------------------------------------------
(***************************************************************************)
(* The invariants.                                                         *)
(***************************************************************************)

Stages   == {"idle", "called", "put", "ingest", "done"}
Statuses == {"none", "ok", "not_found", "error"}
Works    == {"memtable", "ingested", "files"}
Calls    == [kind : CallKinds \cup {"none"}, keys : Seq(Keys), length : Nat]
Answer   == [status : Statuses, touched : Nat, found : SUBSET Keys]

RocksTypes ==
  /\ TypeOK
  /\ call \in [Threads -> Calls] /\ reply \in [Threads -> Answer]
  /\ buffer \in [Threads -> Seq(Slice)]

\* A thread that is in a call performs an operation of the workload, for which
\* the database is open.
CallInv ==
  \A t \in Threads :
    /\ stage[t] # "idle" => /\ handle = "open"
                            /\ call[t].kind \in workload.kinds
                            /\ call[t] \in CallsOf(call[t].kind, workload.lengths)
    /\ stage[t] = "put" => call[t].kind = "update"
    /\ stage[t] = "ingest" => call[t].kind = "bulk_load"

Longest == Max(workload.lengths)

\* No buffer is longer than the longest batch of the workload that runs, as
\* none is left of the workloads before it.
FitInv ==
  /\ \A t \in Threads : /\ Len(buffer[t]) <= Longest
                        /\ handle = "closed" => buffer[t] = << >>
  /\ ValuesFit

\* Of an engine that does not fail, no file is left over, and a flush knows of
\* everything that was ingested.
SettledInv ==
  ~mayFail => /\ handle # "open" => unsettled = {}
              /\ "files" \notin unsettled
              /\ "ingested" \in unsettled => full_compaction

RocksInv == RocksTypes /\ CallInv /\ FitInv /\ SettledInv

-----------------------------------------------------------------------------
(***************************************************************************)
(* What a step of a thread in a call does.                                 *)
(***************************************************************************)

InCall(t) == \/ Upsert(t) \/ UpdateGet(t) \/ UpdatePut(t) \/ Remove(t) \/ Read(t)
             \/ BatchUpsert(t) \/ BatchRead(t) \/ WriteFile(t) \/ Ingest(t) \/ Iterate(t)

\* The longest batch of a workload.
LEMMA LongestBatch ==
  ASSUME workload \in Workloads
  PROVE  /\ Longest \in workload.lengths /\ Longest \in Nat \ {0}
         /\ \A n \in workload.lengths : n \in Nat /\ n <= Longest
<1>1. /\ workload.lengths # {} /\ IsFiniteSet(workload.lengths)
      /\ workload.lengths \subseteq Nat \ {0}
  BY CallerAssumption
<1>2. Longest \in workload.lengths /\ \A n \in workload.lengths : n <= Longest
  BY <1>1, MaxIsMaximum DEF Longest
<1> QED
  BY <1>1, <1>2

\* The call of a thread and its slices.
LEMMA CallOf ==
  ASSUME RocksTypes, CallInv, NEW t \in Threads, stage[t] # "idle"
  PROVE  /\ handle = "open" /\ workload \in Workloads
         /\ call[t].kind \in CallKinds /\ call[t].kind \in workload.kinds
         /\ call[t].keys \in Seq(Keys) /\ Size(t) \in Nat \ {0} /\ Length(t) \in Nat
         /\ Key(t) \in Keys
         /\ \A i, j \in 1..Size(t) : call[t].keys[i] = call[t].keys[j] => i = j
         /\ call[t].kind \in OneKeyKinds \cup RangeKinds => Size(t) = 1
         /\ call[t].kind \in SortedKinds \cup {"batch_read"} => Size(t) \in workload.lengths
         /\ call[t].kind \in SortedKinds => Ascending(call[t].keys)
         /\ call[t].kind \in RangeKinds => Length(t) \in workload.lengths
<1>1. /\ handle = "open" /\ workload \in Workloads /\ call[t].kind \in workload.kinds
      /\ call[t] \in CallsOf(call[t].kind, workload.lengths)
  BY DEF RocksTypes, TypeOK, CallInv
<1>2. call[t].kind \in CallKinds
  BY <1>1, CallerAssumption
<1> QED
  BY <1>1, <1>2, CallFacts DEF Size, Length, Key

\* The slices of keys are the keys turned round, in the same order.
LEMMA SlicesOf ==
  ASSUME NEW s \in Seq(Keys)
  PROVE  /\ Slices(s) \in Seq(Slice) /\ Len(Slices(s)) = Len(s)
         /\ \A i \in 1..Len(s) : Slices(s)[i] = ToSlice(s[i]) /\ s[i] \in Keys
         /\ Range(Slices(s)) \subseteq Slice
         /\ Swapped(Range(Slices(s))) = Range(s)
<1>1. Len(s) \in Nat /\ DOMAIN s = 1..Len(s) /\ \A i \in 1..Len(s) : s[i] \in Keys
  OBVIOUS
<1>2. \A i \in 1..Len(s) : ToSlice(s[i]) \in Slice /\ Swap(ToSlice(s[i])) = s[i]
  BY <1>1, SlicesTurned
<1>3. /\ Slices(s) \in Seq(Slice) /\ Len(Slices(s)) = Len(s) /\ DOMAIN Slices(s) = 1..Len(s)
      /\ \A i \in 1..Len(s) : Slices(s)[i] = ToSlice(s[i])
  BY <1>1, <1>2 DEF Slices
<1>4. Range(Slices(s)) = {ToSlice(s[i]) : i \in 1..Len(s)} /\ Range(s) = {s[i] : i \in 1..Len(s)}
  BY <1>1, <1>3 DEF Range
<1>5. Swapped({ToSlice(s[i]) : i \in 1..Len(s)}) = {s[i] : i \in 1..Len(s)}
  BY <1>2 DEF Swapped
<1> QED
  BY <1>1, <1>2, <1>3, <1>4, <1>5

\* Keys in ascending order are slices in the order of bytes.
LEMMA SlicesSorted ==
  ASSUME NEW s \in Seq(Keys), Ascending(s)
  PROVE  \A i \in 1..Len(s) - 1 : Before(Slices(s)[i], Slices(s)[i + 1])
<1>1. SUFFICES ASSUME NEW i \in 1..Len(s) - 1
               PROVE  Before(Slices(s)[i], Slices(s)[i + 1])
  OBVIOUS
<1>2. i \in 1..Len(s) /\ i + 1 \in 1..Len(s) /\ i < i + 1
  OBVIOUS
<1>3. s[i] < s[i + 1]
  BY <1>2 DEF Ascending
<1>4. /\ Slices(s)[i] = ToSlice(s[i]) /\ Slices(s)[i + 1] = ToSlice(s[i + 1])
      /\ s[i] \in Keys /\ s[i + 1] \in Keys
  BY <1>2, SlicesOf
<1> QED
  BY <1>3, <1>4, SlicesTurned DEF Before

\* The buffer of a batch of reads holds slices, no more of them than the longest
\* batch.
LEMMA FilledOf ==
  ASSUME NEW old \in Seq(Slice), NEW new \in Seq(Slice), NEW n \in Nat,
         Len(old) <= n, Len(new) <= n
  PROVE  Filled(old, new) \in Seq(Slice) /\ Len(Filled(old, new)) <= n
<1> DEFINE m == Max({Len(new), Len(old)})
<1>1. Len(new) \in Nat /\ Len(old) \in Nat
  OBVIOUS
<1>2. /\ m \in {Len(new), Len(old)} /\ Len(new) <= m /\ Len(old) <= m
  <2>1. IsFiniteSet({Len(new)}) /\ IsFiniteSet({Len(old)})
    BY FS_Singleton
  <2>2. {Len(new), Len(old)} = {Len(new)} \cup {Len(old)}
    OBVIOUS
  <2>3. IsFiniteSet({Len(new), Len(old)})
    BY <2>1, <2>2, FS_Union
  <2> QED
    BY <1>1, <2>3, MaxIsMaximum
<1> HIDE DEF m
<1>3. m \in Nat /\ m <= n
  BY <1>1, <1>2
<1>4. \A i \in 1..m : IF i <= Len(new) THEN new[i] \in Slice ELSE old[i] \in Slice
  BY <1>1, <1>2, <1>3
<1>5. Filled(old, new) = [i \in 1..m |-> IF i <= Len(new) THEN new[i] ELSE old[i]]
  BY DEF Filled, m
<1>6. Filled(old, new) \in Seq(Slice) /\ Len(Filled(old, new)) = m
  BY <1>3, <1>4, <1>5
<1> QED
  BY <1>3, <1>6

\* What a thread is told.
LEMMA ResultTold ==
  ASSUME RocksTypes, NEW t \in Threads, NEW status \in Statuses, NEW touched \in Nat,
         NEW found, found \subseteq Slice, Result(t, status, touched, found)
  PROVE  \E a \in Answer : /\ a.status = status /\ a.touched = touched
                           /\ a.found = Swapped(found)
                           /\ reply' = [reply EXCEPT ![t] = a]
                           /\ stage' = [stage EXCEPT ![t] = "done"]
<1> DEFINE a == [status |-> status, touched |-> touched, found |-> Swapped(found)]
<1>1. Swapped(found) \subseteq Keys
  BY SlicesTurned DEF Swapped
<1>2. a \in Answer /\ a.status = status /\ a.touched = touched /\ a.found = Swapped(found)
  BY <1>1 DEF Answer
<1>3. reply' = [reply EXCEPT ![t] = a] /\ stage' = [stage EXCEPT ![t] = "done"]
  BY DEF Result, Finish, Swapped
<1> HIDE DEF a
<1> QED
  BY <1>2, <1>3
\* A step of a thread in a call leaves the driver's state and all calls alone.
LEMMA InCallFrame ==
  ASSUME NEW t \in Threads, InCall(t)
  PROVE  /\ UNCHANGED <<handle, workload, call>>
         /\ stage[t] \in {"called", "put", "ingest"}
         /\ call[t].kind \notin {"none"} \/ stage[t] \in {"put", "ingest"}
<1>1. UNCHANGED store /\ call' = call
  BY DEF InCall, Upsert, UpdateGet, UpdatePut, Remove, Read, BatchUpsert, BatchRead, WriteFile,
         Ingest, Iterate
<1>2. /\ stage[t] \in {"called", "put", "ingest"}
      /\ call[t].kind \notin {"none"} \/ stage[t] \in {"put", "ingest"}
  BY DEF InCall, Upsert, UpdateGet, UpdatePut, Remove, Read, BatchUpsert, BatchRead, WriteFile,
         Ingest, Iterate, Called, At
<1> QED
  BY <1>1, <1>2 DEF store

\* Nor does it change whether the engine fails.
LEMMA InCallMayFail ==
  ASSUME NEW t \in Threads, InCall(t)
  PROVE  mayFail' = mayFail
<1>1. UNCHANGED store
  BY DEF InCall, Upsert, UpdateGet, UpdatePut, Remove, Read, BatchUpsert, BatchRead, WriteFile,
         Ingest, Iterate
<1> QED
  BY <1>1, Zenon DEF store

\* The state of the engine and of the buffers.
LEMMA InCallStore ==
  ASSUME RocksTypes, CallInv, FitInv, NEW t \in Threads, InCall(t)
  PROVE  /\ data' \subseteq Slice /\ unsettled' \subseteq Works
         /\ buffer' \in [Threads -> Seq(Slice)]
         /\ \A u \in Threads : Len(buffer'[u]) <= Longest
<1>1. stage[t] # "idle"
  BY InCallFrame
<1>2. /\ call[t].keys \in Seq(Keys) /\ Key(t) \in Keys /\ workload \in Workloads
      /\ call[t].kind \in SortedKinds \cup {"batch_read"} => Size(t) \in workload.lengths
  BY <1>1, CallOf
<1>3. /\ data \subseteq Slice /\ unsettled \subseteq Works
      /\ buffer \in [Threads -> Seq(Slice)] /\ \A u \in Threads : Len(buffer[u]) <= Longest
  BY DEF RocksTypes, TypeOK, Works, FitInv
<1>4. /\ ToSlice(Key(t)) \in Slice /\ Range(Slices(call[t].keys)) \subseteq Slice
      /\ Slices(call[t].keys) \in Seq(Slice) /\ Len(Slices(call[t].keys)) = Size(t)
  BY <1>2, SlicesTurned, SlicesOf DEF Size
<1>5. CASE Upsert(t) \/ UpdatePut(t) \/ Remove(t)
  <2>1. /\ buffer' = buffer
        /\ \/ unsettled' = unsettled \cup {"memtable"}
              /\ data' \in {data \cup {ToSlice(Key(t))}, data \ {ToSlice(Key(t))}}
           \/ UNCHANGED <<data, unsettled>>
    BY <1>5 DEF Upsert, UpdatePut, Remove, Written, NotWritten
  <2> QED
    BY <1>3, <1>4, <2>1 DEF Works
<1>6. CASE UpdateGet(t) \/ Read(t) \/ Iterate(t)
  BY <1>3, <1>6 DEF UpdateGet, Read, Iterate
<1>7. CASE BatchUpsert(t) \/ WriteFile(t) \/ Ingest(t)
  <2>1. /\ buffer' = buffer
        /\ \E w \in Works : unsettled' \in {unsettled, unsettled \cup {w}}
        /\ data' \in {data, data \cup Range(Slices(call[t].keys))}
    BY <1>7 DEF BatchUpsert, WriteFile, Ingest, Written, NotWritten, Works
  <2> QED
    BY <1>3, <1>4, <2>1
<1>8. CASE BatchRead(t)
  <2>1. /\ UNCHANGED <<data, unsettled>> /\ call[t].kind = "batch_read"
        /\ buffer' = [buffer EXCEPT ![t] = Filled(buffer[t], Slices(call[t].keys))]
    BY <1>8 DEF BatchRead, Called, At
  <2>2. /\ Filled(buffer[t], Slices(call[t].keys)) \in Seq(Slice)
        /\ Len(Filled(buffer[t], Slices(call[t].keys))) <= Longest
    <3>1. Size(t) <= Longest /\ Longest \in Nat
      BY <1>2, <2>1, LongestBatch
    <3>2. buffer[t] \in Seq(Slice) /\ Len(buffer[t]) <= Longest
      BY <1>3
    <3> QED
      BY <1>4, <3>1, <3>2, FilledOf
  <2> QED
    BY <1>3, <2>1, <2>2
<1> QED
  BY <1>5, <1>6, <1>7, <1>8 DEF InCall

\* The entries a batch of reads or a range touches are no more than the longest
\* batch.
LEMMA BatchReadTold ==
  ASSUME RocksTypes, CallInv, FitInv, NEW t \in Threads, BatchRead(t)
  PROVE  \E a \in Answer : /\ a.touched <= Longest
                           /\ reply' = [reply EXCEPT ![t] = a]
                           /\ stage' = [stage EXCEPT ![t] = "done"]
<1> DEFINE looked == Filled(buffer[t], Slices(call[t].keys))
           present == {i \in 1..Len(looked) : looked[i] \in data}
<1>1. /\ buffer' = [buffer EXCEPT ![t] = looked]
      /\ \E hits \in IF mayFail THEN SUBSET present ELSE {present} :
           Result(t, "ok", Cardinality(hits), {looked[i] : i \in hits})
  BY DEF BatchRead
<1>2. PICK hits \in SUBSET present :
        Result(t, "ok", Cardinality(hits), {looked[i] : i \in hits})
  <2> HIDE DEF present, looked
  <2>1. CASE mayFail
    BY <1>1, <2>1
  <2>2. CASE ~mayFail
    BY <1>1, <2>2
  <2> QED
    BY <2>1, <2>2
<1>3. looked \in Seq(Slice) /\ Len(looked) <= Longest /\ Longest \in Nat
  <2>1. /\ buffer'[t] = looked
    BY <1>1 DEF RocksTypes
  <2>2. buffer' \in [Threads -> Seq(Slice)] /\ Len(buffer'[t]) <= Longest
    BY InCallStore DEF InCall
  <2>3. Longest \in Nat
    BY LongestBatch DEF RocksTypes, TypeOK
  <2> HIDE DEF looked
  <2> QED
    BY <2>1, <2>2, <2>3
<1> HIDE DEF looked
<1>4. Cardinality(hits) \in Nat /\ Cardinality(hits) <= Longest
  <2>1. Len(looked) \in Nat
    BY <1>3
  <2>2. IsFiniteSet(1..Len(looked)) /\ Cardinality(1..Len(looked)) = Len(looked)
    <3>1. IsFiniteSet(1..Len(looked))
          /\ Cardinality(1..Len(looked)) = IF 1 > Len(looked) THEN 0 ELSE Len(looked) - 1 + 1
      <4>1. 1 \in Int /\ Len(looked) \in Int
        BY <2>1
      <4> QED
        BY <4>1, FS_Interval, Zenon
    <3> QED
      BY <2>1, <3>1
  <2>3. hits \in SUBSET (1..Len(looked))
    OBVIOUS
  <2>4. IsFiniteSet(hits) /\ Cardinality(hits) <= Len(looked)
    BY <2>2, <2>3, FS_Subset
  <2>5. Cardinality(hits) \in Nat
    BY <2>4, FS_CardinalityType
  <2> QED
    BY <1>3, <2>1, <2>4, <2>5
<1>5. {looked[i] : i \in hits} \subseteq Slice
  BY <1>3
<1>6. "ok" \in Statuses
  BY DEF Statuses
<1> HIDE DEF present
<1> QED
  BY <1>2, <1>4, <1>5, <1>6, ResultTold

\* Neither are the entries a range touches.
LEMMA IterateTold ==
  ASSUME RocksTypes, CallInv, NEW t \in Threads, Iterate(t)
  PROVE  \E a \in Answer : /\ call[t].kind = "range_select" => a.touched <= Longest
                           /\ reply' = [reply EXCEPT ![t] = a]
                           /\ stage' = [stage EXCEPT ![t] = "done"]
<1> DEFINE met == Iterated(ToSlice(Key(t)), call[t].length)
           T == {n \in data : ~Before(n, ToSlice(Key(t)))}
<1>1. Result(t, "ok", Cardinality(met), met) /\ call[t].kind \in RangeKinds /\ stage[t] # "idle"
  BY DEF Iterate, Called, At, RangeKinds
<1>2. Length(t) \in workload.lengths /\ workload \in Workloads /\ Length(t) \in Nat
  BY <1>1, CallOf
<1>3. Length(t) <= Longest /\ Longest \in Nat
  BY <1>2, LongestBatch
<1>4. met = FirstBytes(T, Length(t)) /\ T \subseteq Slice
  BY DEF Iterated, Length, RocksTypes, TypeOK
<1>5. met \subseteq Slice /\ Cardinality(met) <= Length(t)
  <2> HIDE DEF T, met
  <2> QED  BY <1>2, <1>4, FirstFew
<1>6. Cardinality(met) \in Nat
  <2> HIDE DEF met
  <2> QED  BY <1>5, SwappedCount, FS_CardinalityType
<1>7. "ok" \in Statuses
  BY DEF Statuses
<1> HIDE DEF met
<1>8. PICK a \in Answer : /\ a.touched = Cardinality(met)
                          /\ reply' = [reply EXCEPT ![t] = a]
                          /\ stage' = [stage EXCEPT ![t] = "done"]
  BY <1>1, <1>5, <1>6, <1>7, ResultTold
<1>9. a.touched <= Longest
  BY <1>2, <1>3, <1>5, <1>6, <1>8
<1> QED
  BY <1>8, <1>9

\* What a step of a thread in a call leads to: the second half of an update or of
\* a bulk load, or a result.
LEMMA InCallTold ==
  ASSUME RocksTypes, CallInv, FitInv, NEW t \in Threads, InCall(t)
  PROVE  \/ /\ stage' = [stage EXCEPT ![t] = "put"] /\ call[t].kind = "update"
            /\ reply' = reply
         \/ /\ stage' = [stage EXCEPT ![t] = "ingest"] /\ call[t].kind = "bulk_load"
            /\ reply' = reply
         \/ \E a \in Answer :
              /\ call[t].kind \in {"batch_read", "range_select"} => a.touched <= Longest
              /\ reply' = [reply EXCEPT ![t] = a]
              /\ stage' = [stage EXCEPT ![t] = "done"]
<1>1. stage[t] # "idle"
  BY InCallFrame
<1>2. call[t].keys \in Seq(Keys) /\ Key(t) \in Keys /\ Size(t) \in Nat
  BY <1>1, CallOf
<1>3. /\ {ToSlice(Key(t))} \subseteq Slice /\ Range(Slices(call[t].keys)) \subseteq Slice
      /\ {} \subseteq Slice /\ Statuses = {"none", "ok", "not_found", "error"}
  BY <1>2, SlicesTurned, SlicesOf DEF Statuses
<1> DEFINE Answered == \E a \in Answer :
                         /\ reply' = [reply EXCEPT ![t] = a]
                         /\ stage' = [stage EXCEPT ![t] = "done"]
<1>4. ASSUME NEW status \in Statuses, NEW touched \in Nat, NEW found, found \subseteq Slice,
             Result(t, status, touched, found)
      PROVE  Answered
  BY <1>4, ResultTold
<1>5. CASE Upsert(t) \/ UpdatePut(t) \/ Remove(t) \/ Read(t)
  <2>1. Result(t, "ok", 1, {ToSlice(Key(t))}) \/ Result(t, "error", 0, {})
        \/ Result(t, "not_found", 0, {})
    BY <1>5 DEF Upsert, UpdatePut, Remove, Read
  <2>2. call[t].kind \notin {"batch_read", "range_select"}
    BY <1>5 DEF Upsert, UpdatePut, Remove, Read, Called, At, CallInv
  <2> HIDE DEF Answered
  <2>3. Answered
    BY <1>3, <1>4, <2>1
  <2> QED
    BY <2>2, <2>3 DEF Answered
<1>6. CASE UpdateGet(t)
  <2>1. \/ stage' = [stage EXCEPT ![t] = "put"] /\ reply' = reply
        \/ Result(t, "error", 0, {}) \/ Result(t, "not_found", 0, {})
    BY <1>6 DEF UpdateGet
  <2>2. call[t].kind = "update"
    BY <1>6 DEF UpdateGet, Called, At
  <2> HIDE DEF Answered
  <2>3. Answered \/ (stage' = [stage EXCEPT ![t] = "put"] /\ reply' = reply)
    <3>1. Result(t, "error", 0, {}) \/ Result(t, "not_found", 0, {}) => Answered
      BY <1>3, <1>4
    <3> QED
      BY <2>1, <3>1, Zenon
  <2> QED
    BY <2>2, <2>3 DEF Answered
<1>7. CASE BatchUpsert(t) \/ WriteFile(t) \/ Ingest(t)
  <2>1. \/ stage' = [stage EXCEPT ![t] = "ingest"] /\ reply' = reply /\ call[t].kind = "bulk_load"
        \/ Result(t, "ok", Size(t), Range(Slices(call[t].keys)))
        \/ Result(t, "error", Size(t), {}) \/ Result(t, "error", 0, {})
    BY <1>7 DEF BatchUpsert, WriteFile, Ingest, Called, At
  <2>2. call[t].kind \notin {"batch_read", "range_select"}
    BY <1>7 DEF BatchUpsert, WriteFile, Ingest, Called, At, CallInv
  <2> HIDE DEF Answered
  <2>3. Answered \/ (stage' = [stage EXCEPT ![t] = "ingest"] /\ reply' = reply
                     /\ call[t].kind = "bulk_load")
    BY <1>2, <1>3, <1>4, <2>1
  <2> QED
    BY <2>2, <2>3 DEF Answered
<1>8. CASE BatchRead(t)
  BY <1>8, BatchReadTold
<1>9. CASE Iterate(t)
  <2>1. call[t].kind # "batch_read"
    BY <1>9 DEF Iterate, Called, At
  <2> QED
    BY <1>9, <2>1, IterateTold
<1> QED
  BY <1>5, <1>6, <1>7, <1>8, <1>9 DEF InCall

\* A write leaves work for the flush; a bulk load leaves work for the compaction
\* and sets the flag for it, and no file, since its keys are in order.
LEMMA InCallSettled ==
  ASSUME RocksTypes, CallInv, SettledInv, NEW t \in Threads, InCall(t), ~mayFail
  PROVE  /\ "files" \notin unsettled'
         /\ "ingested" \in unsettled' => full_compaction'
<1>1. /\ stage[t] # "idle" /\ "files" \notin unsettled
      /\ "ingested" \in unsettled => full_compaction
  BY InCallFrame DEF SettledInv
<1>2. CASE Upsert(t) \/ UpdatePut(t) \/ Remove(t) \/ BatchUpsert(t)
  <2>1. full_compaction' = full_compaction
    BY <1>2, Zenon DEF Upsert, UpdatePut, Remove, BatchUpsert
  <2>2. unsettled' \in {unsettled, unsettled \cup {"memtable"}}
    BY <1>2 DEF Upsert, UpdatePut, Remove, BatchUpsert, Written, NotWritten
  <2>3. "files" \notin unsettled' /\ ("ingested" \in unsettled' => "ingested" \in unsettled)
    BY <1>1, <2>2
  <2> QED
    BY <1>1, <2>1, <2>3, Zenon
<1>3. CASE UpdateGet(t) \/ Read(t) \/ BatchRead(t) \/ Iterate(t)
  <2>1. full_compaction' = full_compaction /\ unsettled' = unsettled
    BY <1>3, Zenon DEF UpdateGet, Read, BatchRead, Iterate
  <2> QED
    BY <1>1, <2>1, Zenon
<1>4. CASE WriteFile(t)
  <2>1. call[t].kind = "bulk_load"
    BY <1>4 DEF WriteFile, Called, At
  <2>2. Ascending(call[t].keys) /\ call[t].keys \in Seq(Keys)
    BY <1>1, <2>1, CallOf DEF SortedKinds
  <2>3. \A i \in 1..Size(t) - 1 : Before(Slices(call[t].keys)[i], Slices(call[t].keys)[i + 1])
    BY <2>2, SlicesSorted DEF Size
  <2>4. unsettled' = unsettled
    BY <1>4, <2>3 DEF WriteFile
  <2>5. full_compaction' = full_compaction
    BY <1>4, Zenon DEF WriteFile
  <2> QED
    BY <1>1, <2>4, <2>5, Zenon
<1>5. CASE Ingest(t)
  <2>1. unsettled' = unsettled \cup {"ingested"}
    BY <1>5 DEF Ingest
  <2>2. full_compaction' = TRUE
    BY <1>5, Zenon DEF Ingest
  <2>3. "files" \notin unsettled'
    BY <1>1, <2>1
  <2> QED
    BY <2>2, <2>3, Zenon
<1> QED
  BY <1>2, <1>3, <1>4, <1>5 DEF InCall

-----------------------------------------------------------------------------
(***************************************************************************)
(* Every step keeps the invariant.                                         *)
(***************************************************************************)

\* The steps of the driver around the calls.
LEMMA Steps ==
  ASSUME [Next]_vars
  PROVE  \/ Open \/ Flush \/ Close
         \/ \E t \in Threads : (Invoke(t) \/ Return(t)) /\ UNCHANGED own
         \/ \E t \in Threads : InCall(t)
         \/ UNCHANGED vars
BY DEF Next, Step, InCall

\* A record for no call, and the answer to it.
LEMMA Nothing == NoCall \in Calls /\ NoAnswer \in Answer
<1>1. << >> \in Seq(Keys) /\ {} \in SUBSET Keys
  OBVIOUS
<1> QED
  BY <1>1 DEF NoCall, NoAnswer, Calls, Answer, Statuses

\* The flags keep their type.
LEMMA FlagStep ==
  ASSUME RocksTypes, [Next]_vars
  PROVE  mayFail' = mayFail /\ full_compaction' \in BOOLEAN
<1>1. mayFail \in BOOLEAN /\ full_compaction \in BOOLEAN
  BY DEF RocksTypes, TypeOK
<1>2. CASE Open
  BY <1>2, Zenon DEF Open, OpenDb
<1>3. CASE Flush
  BY <1>1, <1>3, Zenon DEF Flush, FlushDb
<1>4. CASE Close
  BY <1>1, <1>4, Zenon DEF Close, CloseDb
<1>5. ASSUME NEW t \in Threads, Invoke(t) \/ Return(t), UNCHANGED own
      PROVE  mayFail' = mayFail /\ full_compaction' \in BOOLEAN
  BY <1>1, <1>5, Zenon DEF Invoke, Return, store, own
<1>6. ASSUME NEW t \in Threads, InCall(t)
      PROVE  mayFail' = mayFail /\ full_compaction' \in BOOLEAN
  <2>1. mayFail' = mayFail
    BY <1>6, InCallMayFail
  <2>2. full_compaction' = full_compaction \/ full_compaction' = TRUE
    BY <1>6, Zenon DEF InCall, Upsert, UpdateGet, UpdatePut, Remove, Read, BatchUpsert, BatchRead,
       WriteFile, Ingest, Iterate
  <2> QED
    BY <1>1, <2>1, <2>2, Zenon
<1>7. CASE UNCHANGED vars
  BY <1>1, <1>7, Zenon DEF vars
<1> QED
  BY <1>2, <1>3, <1>4, <1>5, <1>6, <1>7, Steps, Zenon

\* The types, the flags apart.
DataTypes ==
  /\ handle \in {"closed", "open", "flushed"} /\ workload \in Workloads
  /\ stage \in [Threads -> Stages] /\ data \subseteq Slice /\ unsettled \subseteq Works
  /\ call \in [Threads -> Calls] /\ reply \in [Threads -> Answer]
  /\ buffer \in [Threads -> Seq(Slice)]

\* They are what the type invariant says.
LEMMA TypesApart ==
  /\ (RocksTypes => DataTypes /\ mayFail \in BOOLEAN /\ full_compaction \in BOOLEAN)
  /\ (DataTypes /\ mayFail \in BOOLEAN /\ full_compaction \in BOOLEAN => RocksTypes)
<1>1. RocksTypes => DataTypes /\ mayFail \in BOOLEAN /\ full_compaction \in BOOLEAN
  BY Zenon DEF RocksTypes, TypeOK, DataTypes, Stages, Works
<1>2. DataTypes => /\ \A t \in Threads : Range(buffer[t]) \subseteq Slice
                   /\ \A t \in Threads : reply[t].touched \in Nat /\ reply[t].found \subseteq Keys
  <2>1. SUFFICES ASSUME DataTypes, NEW t \in Threads
                 PROVE  Range(buffer[t]) \subseteq Slice
                        /\ reply[t].touched \in Nat /\ reply[t].found \subseteq Keys
    BY Zenon
  <2>2. buffer[t] \in Seq(Slice)
    BY <2>1 DEF DataTypes
  <2>3. Range(buffer[t]) \subseteq Slice
    BY <2>2 DEF Range
  <2>4. reply[t] \in Answer
    BY <2>1 DEF DataTypes
  <2> QED
    BY <2>3, <2>4 DEF Answer
<1> QED
  BY <1>1, <1>2, Zenon DEF RocksTypes, TypeOK, DataTypes, Stages, Works

\* Every step keeps the types.
LEMMA TypesStep ==
  ASSUME RocksTypes, CallInv, FitInv, [Next]_vars
  PROVE  RocksTypes'
<1>a. DataTypes
  BY TypesApart
<1>1. ASSUME Open PROVE DataTypes'
  BY <1>a, <1>1 DEF Open, OpenDb, DataTypes
<1>2. ASSUME Flush PROVE DataTypes'
  <2>1. unsettled' \subseteq unsettled /\ handle' = "flushed"
        /\ UNCHANGED <<workload, stage, call, reply, data, buffer>>
    BY <1>2 DEF Flush, FlushDb
  <2> QED
    BY <1>a, <2>1 DEF DataTypes
<1>3. ASSUME Close PROVE DataTypes'
  <2>1. buffer' \in [Threads -> Seq(Slice)]
    BY <1>3 DEF Close
  <2> QED
    BY <1>a, <1>3, <2>1 DEF Close, CloseDb, DataTypes
<1>4. ASSUME NEW t \in Threads, Invoke(t), UNCHANGED own PROVE DataTypes'
  <2>1. PICK k \in workload.kinds : \E c \in CallsOf(k, workload.lengths) :
                                      call' = [call EXCEPT ![t] = c]
    BY <1>4 DEF Invoke
  <2>2. PICK c \in CallsOf(k, workload.lengths) : call' = [call EXCEPT ![t] = c]
    BY <2>1
  <2>3. workload \in Workloads /\ k \in CallKinds
    BY <1>a, CallerAssumption DEF DataTypes
  <2>4. c \in Calls
    <3>1. c = [kind |-> k, keys |-> c.keys, length |-> c.length]
          /\ c.keys \in Seq(Keys) /\ c.length \in Nat
      BY <2>2, <2>3, CallFacts
    <3> QED
      BY <2>3, <3>1 DEF Calls
  <2>5. call' \in [Threads -> Calls]
    BY <1>a, <2>2, <2>4 DEF DataTypes
  <2>6. UNCHANGED <<handle, workload, reply, data, buffer, unsettled>>
        /\ stage' = [stage EXCEPT ![t] = "called"]
    BY <1>4 DEF Invoke, store, own
  <2> QED
    BY <1>a, <2>5, <2>6 DEF DataTypes, Stages
<1>5. ASSUME NEW t \in Threads, Return(t), UNCHANGED own PROVE DataTypes'
  <2>1. /\ UNCHANGED <<handle, workload, data, buffer, unsettled>>
        /\ stage' = [stage EXCEPT ![t] = "idle"]
        /\ call' = [call EXCEPT ![t] = NoCall] /\ reply' = [reply EXCEPT ![t] = NoAnswer]
    BY <1>5 DEF Return, store, own
  <2> QED
    BY <1>a, <2>1, Nothing DEF DataTypes, Stages
<1>6. ASSUME NEW t \in Threads, InCall(t) PROVE DataTypes'
  <2>1. /\ UNCHANGED <<handle, workload, call>> /\ data' \subseteq Slice
        /\ unsettled' \subseteq Works /\ buffer' \in [Threads -> Seq(Slice)]
    BY <1>6, InCallFrame, InCallStore
  <2>2. \E place \in Stages : stage' = [stage EXCEPT ![t] = place]
    BY <1>6, InCallTold DEF Stages
  <2>3. reply' = reply \/ \E a \in Answer : reply' = [reply EXCEPT ![t] = a]
    BY <1>6, InCallTold
  <2>4. stage' \in [Threads -> Stages] /\ reply' \in [Threads -> Answer]
    BY <1>a, <2>2, <2>3 DEF DataTypes
  <2> QED
    BY <1>a, <2>1, <2>4 DEF DataTypes
<1>7. ASSUME UNCHANGED vars PROVE DataTypes'
  BY <1>a, <1>7 DEF DataTypes, vars
<1>8. DataTypes'
  BY <1>1, <1>2, <1>3, <1>4, <1>5, <1>6, <1>7, Steps
<1>9. mayFail' \in BOOLEAN /\ full_compaction' \in BOOLEAN
  <2>1. mayFail \in BOOLEAN
    BY TypesApart
  <2> QED
    BY <2>1, FlagStep, Zenon
<1>c. (DataTypes /\ mayFail \in BOOLEAN /\ full_compaction \in BOOLEAN => RocksTypes)'
  BY TypesApart, PTL
<1> QED
  BY <1>8, <1>9, <1>c, Zenon
\* Every step keeps what a call owes to its workload.
LEMMA CallStep ==
  ASSUME RocksTypes, CallInv, FitInv, [Next]_vars
  PROVE  CallInv'
<1> DEFINE Owed(u) == /\ stage[u] # "idle" =>
                           /\ handle = "open"
                           /\ call[u].kind \in workload.kinds
                           /\ call[u] \in CallsOf(call[u].kind, workload.lengths)
                      /\ stage[u] = "put" => call[u].kind = "update"
                      /\ stage[u] = "ingest" => call[u].kind = "bulk_load"
<1>a. \A u \in Threads : Owed(u)
  BY DEF CallInv
<1>b. (\A u \in Threads : Owed(u)') => CallInv'
  BY DEF CallInv
<1>c. stage \in [Threads -> Stages] /\ call \in [Threads -> Calls] /\ workload \in Workloads
  BY TypesApart DEF DataTypes
<1> SUFFICES ASSUME NEW u \in Threads
             PROVE  Owed(u)'
  BY <1>b
<1>1. CASE Open \/ Flush \/ Close
  <2>1. UNCHANGED <<stage, call>> /\ (stage[u] # "idle" => UNCHANGED <<handle, workload>> /\ FALSE)
    BY <1>1, <1>a DEF Open, OpenDb, Flush, FlushDb, Close, CloseDb
  <2> QED
    BY <2>1
<1>2. ASSUME NEW t \in Threads, Invoke(t), UNCHANGED own PROVE Owed(u)'
  <2>1. PICK k \in workload.kinds : \E c \in CallsOf(k, workload.lengths) :
                                      call' = [call EXCEPT ![t] = c]
    BY <1>2 DEF Invoke
  <2>2. PICK c \in CallsOf(k, workload.lengths) : call' = [call EXCEPT ![t] = c]
    BY <2>1
  <2>3. k \in CallKinds
    BY <1>c, CallerAssumption
  <2>4. c.kind = k
    BY <1>c, <2>3, CallFacts
  <2>5. UNCHANGED <<handle, workload>> /\ handle = "open"
        /\ stage' = [stage EXCEPT ![t] = "called"]
    BY <1>2 DEF Invoke, store
  <2>6. CASE u = t
    BY <1>c, <2>2, <2>4, <2>5, <2>6
  <2>7. CASE u # t
    BY <1>a, <1>c, <2>2, <2>5, <2>7
  <2> QED
    BY <2>6, <2>7
<1>3. ASSUME NEW t \in Threads, Return(t), UNCHANGED own PROVE Owed(u)'
  <2>1. /\ UNCHANGED <<handle, workload>> /\ stage' = [stage EXCEPT ![t] = "idle"]
        /\ call' = [call EXCEPT ![t] = NoCall]
    BY <1>3 DEF Return, store
  <2> QED
    BY <1>a, <1>c, <2>1
<1>4. ASSUME NEW t \in Threads, InCall(t) PROVE Owed(u)'
  <2>1. UNCHANGED <<handle, workload, call>> /\ stage[t] # "idle"
    BY <1>4, InCallFrame
  <2>2. \/ stage' = [stage EXCEPT ![t] = "put"] /\ call[t].kind = "update"
        \/ stage' = [stage EXCEPT ![t] = "ingest"] /\ call[t].kind = "bulk_load"
        \/ stage' = [stage EXCEPT ![t] = "done"]
    BY <1>4, InCallTold
  <2> QED
    BY <1>a, <1>c, <2>1, <2>2
<1>5. CASE UNCHANGED vars
  BY <1>a, <1>5 DEF vars
<1> QED
  BY <1>1, <1>2, <1>3, <1>4, <1>5, Steps

\* Every step keeps the buffers and the answers as long as they may be.
LEMMA FitStep ==
  ASSUME RocksTypes, CallInv, FitInv, [Next]_vars
  PROVE  FitInv'
<1> DEFINE Long(u) == Len(buffer[u]) <= Longest /\ (handle = "closed" => buffer[u] = << >>)
           Fits(u) == stage[u] = "done" /\ call[u].kind \in {"batch_read", "range_select"}
                        => reply[u].touched <= Longest
<1>a. \A u \in Threads : Long(u) /\ Fits(u)
  BY DEF FitInv, ValuesFit, Longest
<1>b. (\A u \in Threads : Long(u)' /\ Fits(u)') => FitInv'
  BY DEF FitInv, ValuesFit, Longest
<1>c. /\ stage \in [Threads -> Stages] /\ call \in [Threads -> Calls] /\ workload \in Workloads
      /\ reply \in [Threads -> Answer] /\ buffer \in [Threads -> Seq(Slice)]
  BY TypesApart DEF DataTypes
<1>d. Longest \in Nat
  BY <1>c, LongestBatch
<1> SUFFICES ASSUME NEW u \in Threads
             PROVE  Long(u)' /\ Fits(u)'
  BY <1>b
<1>1. CASE Open
  <2>1. handle = "closed" /\ handle' = "open" /\ workload' \in Workloads
        /\ UNCHANGED <<buffer, stage>>
    BY <1>1 DEF Open, OpenDb
  <2>2. stage[u] = "idle"
    BY <2>1 DEF CallInv
  <2>3. Longest' \in Nat
    <3>1. workload \in Workloads => Longest \in Nat
      BY LongestBatch
    <3>2. (workload \in Workloads => Longest \in Nat)'
      <4>1. workload'.lengths # {} /\ IsFiniteSet(workload'.lengths)
            /\ workload'.lengths \subseteq Nat \ {0}
        BY <2>1, CallerAssumption
      <4>2. Max(workload'.lengths) \in workload'.lengths
        BY <4>1, MaxIsMaximum
      <4> QED
        BY <4>1, <4>2 DEF Longest
    <3> QED
      BY <2>1, <3>2
  <2>4. buffer[u] = << >> /\ Len(<< >>) = 0
    BY <1>a, <2>1
  <2> QED
    BY <2>1, <2>2, <2>3, <2>4
<1>2. CASE Flush
  <2>1. handle' # "closed" /\ UNCHANGED <<workload, stage, call, reply, buffer>>
    BY <1>2 DEF Flush, FlushDb
  <2> QED
    BY <1>a, <2>1 DEF Longest
<1>3. CASE Close
  <2>1. buffer'[u] = << >> /\ UNCHANGED <<workload, stage>> /\ stage[u] = "idle"
    BY <1>3 DEF Close, CloseDb, CallInv
  <2>2. Len(<< >>) = 0
    OBVIOUS
  <2> QED
    BY <1>d, <2>1, <2>2 DEF Longest
<1>4. ASSUME NEW t \in Threads, Invoke(t) \/ Return(t), UNCHANGED own PROVE Long(u)' /\ Fits(u)'
  <2>1. /\ UNCHANGED <<handle, workload, buffer>>
        /\ \/ stage' = [stage EXCEPT ![t] = "called"] /\ UNCHANGED reply
           \/ stage' = [stage EXCEPT ![t] = "idle"] /\ reply' = [reply EXCEPT ![t] = NoAnswer]
    BY <1>4 DEF Invoke, Return, store, own
  <2>2. UNCHANGED Longest
    BY <2>1 DEF Longest
  <2>3. u # t => call'[u] = call[u]
    BY <1>4, <1>c DEF Invoke, Return
  <2>4. CASE u = t
    BY <1>a, <1>c, <2>1, <2>2, <2>4
  <2>5. CASE u # t
    BY <1>a, <1>c, <2>1, <2>2, <2>3, <2>5
  <2> QED
    BY <2>4, <2>5
<1>5. ASSUME NEW t \in Threads, InCall(t) PROVE Long(u)' /\ Fits(u)'
  <2>1. /\ UNCHANGED <<handle, workload, call>> /\ handle = "open"
        /\ Len(buffer'[u]) <= Longest
    BY <1>5, InCallFrame, InCallStore DEF CallInv
  <2>2. UNCHANGED Longest
    BY <2>1 DEF Longest
  <2>3. Long(u)'
    BY <2>1, <2>2
  <2>4. \/ /\ \E place \in {"put", "ingest"} : stage' = [stage EXCEPT ![t] = place]
           /\ reply' = reply
        \/ \E a \in Answer :
             /\ call[t].kind \in {"batch_read", "range_select"} => a.touched <= Longest
             /\ reply' = [reply EXCEPT ![t] = a]
             /\ stage' = [stage EXCEPT ![t] = "done"]
    BY <1>5, InCallTold
  <2>5. Fits(u)'
    <3>1. CASE u = t
      BY <1>c, <2>1, <2>2, <2>4, <3>1
    <3>2. CASE u # t
      BY <1>a, <1>c, <2>1, <2>2, <2>4, <3>2
    <3> QED
      BY <3>1, <3>2
  <2> QED
    BY <2>3, <2>5
<1>6. CASE UNCHANGED vars
  BY <1>a, <1>6 DEF vars, Longest
<1> QED
  BY <1>1, <1>2, <1>3, <1>4, <1>5, <1>6, Steps
\* Every step keeps what is left to be settled known to the flush.
LEMMA SettledStep ==
  ASSUME RocksTypes, CallInv, SettledInv, [Next]_vars
  PROVE  SettledInv'
<1>a. mayFail' = mayFail
  BY FlagStep
<1> DEFINE Known == /\ handle # "open" => unsettled = {}
                    /\ "files" \notin unsettled
                    /\ "ingested" \in unsettled => full_compaction
<1> SUFFICES ASSUME ~mayFail
             PROVE  Known'
  <2>1. (~mayFail => Known') => SettledInv'
    BY <1>a, Zenon DEF SettledInv
  <2> QED
    BY <2>1, Zenon
<1>b. Known
  BY Zenon DEF SettledInv
<1>1. CASE Open
  <2>1. unsettled' = {}
    BY <1>1, <1>b DEF Open, OpenDb
  <2> QED
    BY <2>1, Zenon
<1>2. CASE Flush
  <2>1. unsettled \subseteq Works
    BY TypesApart DEF DataTypes
  <2>2. unsettled' = unsettled \ ({"memtable"} \cup IF full_compaction THEN {"ingested"} ELSE {})
    BY <1>2 DEF Flush
  <2>3. unsettled' = {}
    <3>1. CASE full_compaction
      BY <1>b, <2>1, <2>2, <3>1 DEF Works
    <3>2. CASE ~full_compaction
      BY <1>b, <2>1, <2>2, <3>2 DEF Works
    <3> QED
      BY <3>1, <3>2
  <2> QED
    BY <2>3, Zenon
<1>3. CASE Close
  <2>1. unsettled' = {}
    BY <1>3, <1>b DEF Close, CloseDb
  <2> QED
    BY <2>1, Zenon
<1>4. ASSUME NEW t \in Threads, Invoke(t) \/ Return(t), UNCHANGED own PROVE Known'
  <2>1. handle' = handle /\ unsettled' = unsettled /\ full_compaction' = full_compaction
    BY <1>4, Zenon DEF Invoke, Return, store, own
  <2> QED
    BY <1>b, <2>1, Zenon
<1>5. ASSUME NEW t \in Threads, InCall(t) PROVE Known'
  <2>1. handle' = "open"
    BY <1>5, InCallFrame DEF CallInv
  <2>2. "files" \notin unsettled' /\ ("ingested" \in unsettled' => full_compaction')
    BY <1>5, InCallSettled
  <2> QED
    BY <2>1, <2>2, Zenon
<1>6. CASE UNCHANGED vars
  <2>1. handle' = handle /\ unsettled' = unsettled /\ full_compaction' = full_compaction
    BY <1>6, Zenon DEF vars
  <2> QED
    BY <1>b, <2>1, Zenon
<1> QED
  BY <1>1, <1>2, <1>3, <1>4, <1>5, <1>6, Steps, Zenon

\* The initial states.
LEMMA RocksInit == Init => RocksInv
<1> SUFFICES ASSUME Init
             PROVE  RocksInv
  OBVIOUS
<1>1. /\ handle = "closed" /\ workload \in Workloads /\ data = {} /\ unsettled = {}
      /\ stage = [t \in Threads |-> "idle"] /\ call = [t \in Threads |-> NoCall]
      /\ reply = [t \in Threads |-> NoAnswer] /\ buffer = [t \in Threads |-> << >>]
  BY DEF Init, CallerInit
<1>2. mayFail \in BOOLEAN /\ full_compaction \in BOOLEAN
  BY Zenon DEF Init, CallerInit
<1>3. DataTypes
  BY <1>1, Nothing DEF DataTypes, Stages
<1>4. RocksTypes
  BY <1>2, <1>3, TypesApart, Zenon
<1>5. CallInv
  BY <1>1 DEF CallInv
<1>6. FitInv
  <2>1. Longest \in Nat /\ Len(<< >>) = 0
    BY <1>1, LongestBatch
  <2> QED
    BY <1>1, <2>1 DEF FitInv, ValuesFit
<1>7. SettledInv
  <2>1. "files" \notin unsettled /\ "ingested" \notin unsettled
    BY <1>1
  <2> QED
    BY <1>1, <2>1, Zenon DEF SettledInv
<1> QED
  BY <1>4, <1>5, <1>6, <1>7, Zenon DEF RocksInv

\* The inductive invariant of the adapter: a call owes to the workload its kind
\* and its sizes, so no buffer outgrows the longest batch, and whatever a call
\* leaves behind is known to the flush.
THEOREM RocksInvariant == Spec => []RocksInv
<1>1. RocksInv /\ [Next]_vars => RocksInv'
  <2> SUFFICES ASSUME RocksInv, [Next]_vars
               PROVE  RocksInv'
    OBVIOUS
  <2>1. RocksTypes /\ CallInv /\ FitInv /\ SettledInv
    BY Zenon DEF RocksInv
  <2>2. RocksTypes' /\ CallInv' /\ FitInv' /\ SettledInv'
    BY <2>1, TypesStep, CallStep, FitStep, SettledStep
  <2> QED
    BY <2>2, Zenon DEF RocksInv
<1> QED
  BY <1>1, RocksInit, PTL DEF Spec

\* Every variable has its type: what the engine holds are keys of the workloads
\* turned round once, and so are the buffers of the batches of reads.
THEOREM TypeCorrect == Spec => []TypeOK
<1>1. RocksInv => TypeOK
  BY Zenon DEF RocksInv, RocksTypes
<1> QED
  BY <1>1, RocksInvariant, PTL

\* The values that are copied to the caller of a batch or a range fit the buffers
\* it made for the longest of the workload, for all threads and sizes.
THEOREM ValuesFitAlways == Spec => []ValuesFit
<1>1. RocksInv => ValuesFit
  BY Zenon DEF RocksInv, FitInv
<1> QED
  BY <1>1, RocksInvariant, PTL

\* After the flush nothing is left to do, unless the engine failed.
THEOREM FlushSettlesAlways == Spec => []FlushSettles
<1>1. RocksInv => FlushSettles
  <2> SUFFICES ASSUME RocksInv, handle = "flushed", ~mayFail
               PROVE  unsettled = {}
    BY DEF FlushSettles
  <2>1. handle # "open"
    OBVIOUS
  <2> QED
    BY <2>1, Zenon DEF RocksInv, SettledInv
<1> QED
  BY <1>1, RocksInvariant, PTL
-----------------------------------------------------------------------------
(***************************************************************************)
(* The adapter implements DataAccessor, for workloads like the shipped     *)
(* ones: the batches of reads of a workload have one size, and no workload *)
(* mixes updates with removals.                                            *)
(***************************************************************************)

\* The key an update has found is there until it writes it.
PutInv == \A t \in Threads : stage[t] = "put" => ToSlice(Key(t)) \in data

\* The keys in the database, and where each thread is for its caller.
Held  == Swapped(data)
Phase == [t \in Threads |-> IF stage[t] \in {"put", "ingest"} THEN "called" ELSE stage[t]]

\* The thread t, in a call, is told a.
Tells(t, a) ==
  /\ stage[t] \in {"called", "put", "ingest"}
  /\ stage' = [stage EXCEPT ![t] = "done"] /\ reply' = [reply EXCEPT ![t] = a]
  /\ call' = call

\* The operators of the library are the same in both modules.
LEMMA SameOperators ==
  /\ \A S : Accessor!Cardinality(S) = Cardinality(S)
  /\ \A f : Accessor!Range(f) = Range(f)
<1>1. ASSUME NEW S PROVE Accessor!Cardinality(S) = Cardinality(S)
  BY Zenon DEF Accessor!Cardinality, Cardinality
<1>2. ASSUME NEW f PROVE Accessor!Range(f) = Range(f)
  BY DEF Accessor!Range, Range
<1> QED
  BY <1>1, <1>2, Zenon

\* Sets of slices and the keys they stand for.
LEMMA SwappedSets ==
  ASSUME NEW S, S \subseteq Slice, NEW T, T \subseteq Slice
  PROVE  /\ Swapped(S \cup T) = Swapped(S) \cup Swapped(T)
         /\ Swapped(S \ T) = Swapped(S) \ Swapped(T)
<1>1. \A m, n \in Slice : Swap(m) = Swap(n) => m = n
  BY SlicesTurned
<1>2. Swapped(S \cup T) = Swapped(S) \cup Swapped(T)
  BY DEF Swapped
<1>3. Swapped(S \ T) = Swapped(S) \ Swapped(T)
  BY <1>1 DEF Swapped
<1> QED
  BY <1>2, <1>3

\* A step that changes nothing the caller sees.
LEMMA Stutters ==
  ASSUME data' = data, call' = call, reply' = reply, Phase' = Phase, mayFail' = mayFail
  PROVE  UNCHANGED Accessor!vars
<1>1. {Swap(m) : m \in data}' = {Swap(m) : m \in data}
  OBVIOUS
<1> QED
  BY <1>1, Zenon DEF Accessor!vars, Phase

\* A thread that is told something ends its call for its caller too.
LEMMA TellsTold ==
  ASSUME RocksTypes, NEW t \in Threads, NEW a, Tells(t, a), mayFail' = mayFail
  PROVE  Accessor!Told(t) /\ reply'[t] = a
<1>1. stage \in [Threads -> Stages] /\ reply \in [Threads -> Answer]
  BY TypesApart DEF DataTypes
<1>2. Phase[t] = "called" /\ Phase' = [Phase EXCEPT ![t] = "done"]
  BY <1>1 DEF Tells, Phase
<1>3. reply'[t] = a /\ \A u \in Threads \ {t} : reply'[u] = reply[u]
  BY <1>1 DEF Tells
<1>4. call' = call
  BY DEF Tells
<1>5. UNCHANGED Accessor!context
  BY Zenon DEF Accessor!context
<1> QED
  BY <1>2, <1>3, <1>4, <1>5, Zenon DEF Accessor!Told, Phase

\* The call takes effect.
LEMMA Performs ==
  ASSUME RocksTypes, NEW t \in Threads, NEW a, Tells(t, a), mayFail' = mayFail,
         a \in Accessor!Answers(call[t], Held), Held' = Accessor!After(call[t], Held)
  PROVE  Accessor!Next
<1>1. Accessor!Told(t) /\ reply'[t] = a
  BY TellsTold
<1>2. Accessor!Perform(t)
  BY <1>1, Zenon DEF Accessor!Perform, Held, Swapped
<1> QED
  BY <1>2, Zenon DEF Accessor!Next

\* The call fails with the engine.
LEMMA Fails ==
  ASSUME RocksTypes, NEW t \in Threads, NEW a, Tells(t, a), mayFail' = mayFail, mayFail,
         a \in Accessor!FailedAnswers(call[t], Held), data' = data
  PROVE  Accessor!Next
<1>1. Accessor!Told(t) /\ reply'[t] = a
  BY TellsTold
<1>2. {Swap(m) : m \in data}' = {Swap(m) : m \in data}
  OBVIOUS
<1>3. Accessor!Fail(t)
  BY <1>1, <1>2, Zenon DEF Accessor!Fail, Held, Swapped
<1> QED
  BY <1>3, Zenon DEF Accessor!Next

\* The entries a call touches, and what it leaves.
LEMMA EffectOf ==
  ASSUME NEW c, NEW d
  PROVE  /\ c.kind \in {"upsert", "batch_upsert", "bulk_load"} =>
              Accessor!Touched(c, d) = Range(c.keys) /\ Accessor!After(c, d) = d \cup Range(c.keys)
         /\ c.kind = "remove" =>
              Accessor!Touched(c, d) = Range(c.keys) /\ Accessor!After(c, d) = d \ Range(c.keys)
         /\ c.kind \in {"read", "update", "batch_read"} =>
              Accessor!Touched(c, d) = Range(c.keys) \cap d /\ Accessor!After(c, d) = d
         /\ c.kind \in {"range_select", "scan"} =>
              /\ LET beyond == {k \in d : k >= c.keys[1]}
                 IN  Accessor!Touched(c, d)
                       = {k \in beyond : Cardinality({j \in beyond : j < k}) < c.length}
              /\ Accessor!After(c, d) = d
<1>a. Accessor!Range(c.keys) = Range(c.keys)
  BY SameOperators
<1>1. CASE c.kind \in {"upsert", "batch_upsert", "bulk_load"}
  BY <1>a, <1>1 DEF Accessor!Touched, Accessor!After, Accessor!WriteKinds,
     Accessor!FindKinds, Accessor!RangeKinds
<1>2. CASE c.kind = "remove"
  BY <1>a, <1>2 DEF Accessor!Touched, Accessor!After, Accessor!WriteKinds,
     Accessor!FindKinds, Accessor!RangeKinds
<1>3. CASE c.kind \in {"read", "update", "batch_read"}
  BY <1>a, <1>3 DEF Accessor!Touched, Accessor!After, Accessor!WriteKinds,
     Accessor!FindKinds, Accessor!RangeKinds
<1>4. CASE c.kind \in {"range_select", "scan"}
  <2>1. Accessor!After(c, d) = d
    BY <1>4 DEF Accessor!After, Accessor!WriteKinds
  <2> DEFINE beyond == {k \in d : k >= c.keys[1]}
  <2>2. Accessor!Touched(c, d)
          = {k \in beyond : Accessor!Cardinality({j \in beyond : j < k}) < c.length}
    BY <1>4 DEF Accessor!Touched, Accessor!WriteKinds, Accessor!FindKinds, Accessor!RangeKinds
  <2>3. Accessor!Touched(c, d)
          = {k \in beyond : Cardinality({j \in beyond : j < k}) < c.length}
    BY <2>2, SameOperators
  <2> QED
    BY <1>4, <2>1, <2>3
<1> QED
  BY <1>1, <1>2, <1>3, <1>4

\* A call may be told of what it touches, unless a lookup of one key finds none.
LEMMA OkAnswer ==
  ASSUME NEW c, NEW d, c.kind \notin {"read", "update"} \/ Accessor!Touched(c, d) # {}
  PROVE  [status |-> "ok", touched |-> Cardinality(Accessor!Touched(c, d)),
          found |-> Accessor!Touched(c, d)] \in Accessor!Answers(c, d)
<1> DEFINE met == Accessor!Touched(c, d)
           a == Accessor!AnswerOf("ok", met)
<1>1. a = [status |-> "ok", touched |-> Cardinality(met), found |-> met]
  BY SameOperators DEF Accessor!AnswerOf
<1>2. ~(c.kind \in {"read", "update"} /\ met = {})
  OBVIOUS
<1> HIDE DEF a, met
<1>3. Accessor!Answers(c, d) =
        CASE c.kind \in {"read", "update"} /\ met = {} -> {Accessor!AnswerOf("not_found", {})}
          [] c.kind = "remove" /\ met \cap d = {} -> {a, Accessor!AnswerOf("not_found", {})}
          [] c.kind = "batch_read" /\ met # Accessor!Range(c.keys) -> {a} \cup Accessor!Missed
          [] c.kind \in Accessor!RangeKinds /\ met = {} -> {a} \cup Accessor!Missed
          [] OTHER -> {a}
  BY DEF Accessor!Answers, a, met
<1>4. c.kind \in Accessor!RangeKinds => c.kind \notin {"remove", "batch_read"}
  BY DEF Accessor!RangeKinds
<1>5. a \in Accessor!Answers(c, d)
  <2>1. CASE c.kind = "remove" /\ met \cap d = {}
    BY <1>2, <1>3, <1>4, <2>1
  <2>2. CASE c.kind = "batch_read" /\ met # Accessor!Range(c.keys)
    BY <1>2, <1>3, <1>4, <2>2
  <2>3. CASE c.kind \in Accessor!RangeKinds /\ met = {}
    BY <1>2, <1>3, <1>4, <2>3
  <2>4. CASE ~(\/ c.kind = "remove" /\ met \cap d = {}
               \/ c.kind = "batch_read" /\ met # Accessor!Range(c.keys)
               \/ c.kind \in Accessor!RangeKinds /\ met = {})
    BY <1>2, <1>3, <2>4
  <2> QED
    BY <2>1, <2>2, <2>3, <2>4
<1> QED
  BY <1>1, <1>5 DEF met

\* A lookup of one key may be told that it is not there.
LEMMA NotFoundAnswer ==
  ASSUME NEW c, NEW d, c.kind \in {"read", "update"}, Accessor!Touched(c, d) = {}
  PROVE  [status |-> "not_found", touched |-> 0, found |-> {}] \in Accessor!Answers(c, d)
<1>1. Accessor!Answers(c, d) = {Accessor!AnswerOf("not_found", {})}
  BY DEF Accessor!Answers, Accessor!RangeKinds
<1>2. Accessor!AnswerOf("not_found", {}) = [status |-> "not_found", touched |-> 0, found |-> {}]
  BY SameOperators, FS_EmptySet DEF Accessor!AnswerOf
<1> QED
  BY <1>1, <1>2

\* A call that fails may be told of an error, whatever number it comes with.
LEMMA ErrorAnswer ==
  ASSUME NEW c, NEW d, NEW n \in 0..Len(c.keys)
  PROVE  [status |-> "error", touched |-> n, found |-> {}] \in Accessor!FailedAnswers(c, d)
<1>1. [status |-> "error", touched |-> n, found |-> {}]
        \in [status : {"error"}, touched : 0..Len(c.keys), found : {{}}]
  OBVIOUS
<1> QED
  BY <1>1 DEF Accessor!FailedAnswers

\* A batch of reads that fails in part may be told of the other entries.
LEMMA PartAnswer ==
  ASSUME NEW c, NEW d, c.kind = "batch_read", NEW s, s \subseteq Accessor!Touched(c, d)
  PROVE  [status |-> "ok", touched |-> Cardinality(s), found |-> s]
           \in Accessor!FailedAnswers(c, d)
<1>1. Accessor!AnswerOf("ok", s) = [status |-> "ok", touched |-> Cardinality(s), found |-> s]
  BY SameOperators DEF Accessor!AnswerOf
<1>2. Accessor!AnswerOf("ok", s) \in Accessor!FailedAnswers(c, d)
  BY DEF Accessor!FailedAnswers
<1> QED
  BY <1>1, <1>2
\* What a call reports, in terms of its caller.
LEMMA ResultTells ==
  ASSUME NEW t \in Threads, InCall(t), NEW status, NEW touched, NEW found,
         Result(t, status, touched, found)
  PROVE  /\ Tells(t, [status |-> status, touched |-> touched, found |-> Swapped(found)])
         /\ mayFail' = mayFail
<1>1. stage[t] \in {"called", "put", "ingest"} /\ call' = call
  BY InCallFrame
<1>2. Tells(t, [status |-> status, touched |-> touched, found |-> Swapped(found)])
  BY <1>1 DEF Tells, Result, Finish, Swapped
<1> QED
  BY <1>2, InCallMayFail

\* The call of one key: the entry it names.
LEMMA OneKey ==
  ASSUME RocksTypes, CallInv, NEW t \in Threads, stage[t] # "idle", call[t].kind \in OneKeyKinds
  PROVE  /\ Range(call[t].keys) = {Key(t)} /\ Cardinality({Key(t)}) = 1 /\ Len(call[t].keys) = 1
         /\ Swapped({ToSlice(Key(t))}) = {Key(t)} /\ ToSlice(Key(t)) \in Slice
         /\ ToSlice(Key(t)) \in data <=> Key(t) \in Held
         /\ Swapped(data \cup {ToSlice(Key(t))}) = Held \cup {Key(t)}
         /\ Swapped(data \ {ToSlice(Key(t))}) = Held \ {Key(t)}
<1> DEFINE k == Key(t)
<1>1. call[t].keys \in Seq(Keys) /\ Len(call[t].keys) = 1 /\ k = call[t].keys[1] /\ k \in Keys
  BY CallOf DEF Size, Key
<1>2. Range(call[t].keys) = {k}
  BY <1>1 DEF Range
<1>3. Cardinality({k}) = 1
  BY FS_Singleton
<1>4. ToSlice(k) \in Slice /\ Swap(ToSlice(k)) = k /\ data \subseteq Slice
      /\ {ToSlice(k)} \subseteq Slice
  BY <1>1, SlicesTurned, TypesApart DEF DataTypes
<1> HIDE DEF k
<1>5. Swapped({ToSlice(k)}) = {k}
  BY <1>4 DEF Swapped
<1>6. ToSlice(k) \in data <=> k \in Held
  BY <1>4, SlicesTurned DEF Held, Swapped
<1>7. /\ Swapped(data \cup {ToSlice(k)}) = Held \cup {k}
      /\ Swapped(data \ {ToSlice(k)}) = Held \ {k}
  BY <1>4, <1>5, SwappedSets DEF Held
<1> QED
  BY <1>1, <1>2, <1>3, <1>4, <1>5, <1>6, <1>7 DEF k

\* A call whose write did not reach the engine.
LEMMA ErrorRefines ==
  ASSUME RocksTypes, CallInv, NEW t \in Threads, InCall(t), mayFail, data' = data,
         NEW n \in {0, Size(t)}, Result(t, "error", n, {})
  PROVE  Accessor!Next
<1>1. stage[t] # "idle"
  BY InCallFrame
<1>2. n \in 0..Len(call[t].keys)
  BY <1>1, CallOf DEF Size
<1>3. Swapped({}) = {}
  BY DEF Swapped
<1>4. Tells(t, [status |-> "error", touched |-> n, found |-> {}]) /\ mayFail' = mayFail
  BY <1>3, ResultTells
<1>5. [status |-> "error", touched |-> n, found |-> {}] \in Accessor!FailedAnswers(call[t], Held)
  BY <1>2, ErrorAnswer
<1> QED
  BY <1>4, <1>5, Fails

\* A call that takes effect and reports the entries it touches.
LEMMA OkRefines ==
  ASSUME RocksTypes, NEW t \in Threads, InCall(t), NEW touched, NEW found,
         Result(t, "ok", touched, found),
         Swapped(found) = Accessor!Touched(call[t], Held), touched = Cardinality(Swapped(found)),
         call[t].kind \notin {"read", "update"} \/ Swapped(found) # {},
         Held' = Accessor!After(call[t], Held)
  PROVE  Accessor!Next
<1> DEFINE a == [status |-> "ok", touched |-> touched, found |-> Swapped(found)]
<1>1. Tells(t, a) /\ mayFail' = mayFail
  BY ResultTells
<1>2. a \in Accessor!Answers(call[t], Held)
  BY OkAnswer
<1> HIDE DEF a
<1> QED
  BY <1>1, <1>2, Performs

\* upsert and remove
LEMMA WriteRefines ==
  ASSUME RocksTypes, CallInv, NEW t \in Threads, Upsert(t) \/ Remove(t)
  PROVE  Accessor!Next
<1> DEFINE s == ToSlice(Key(t))
<1>1. InCall(t) /\ stage[t] # "idle" /\ call[t].kind \in {"upsert", "remove"}
  BY DEF InCall, Upsert, Remove, Called, At
<1>2. CASE Result(t, "ok", 1, {s})
  <2>1. \/ call[t].kind = "upsert" /\ data' = data \cup {s}
        \/ call[t].kind = "remove" /\ data' = data \ {s}
        \/ Result(t, "error", 0, {})
    BY DEF Upsert, Remove, Written, Called, At
  <2>2. ~Result(t, "error", 0, {})
    <3>1. reply \in [Threads -> Answer]
      BY DEF RocksTypes
    <3> QED
      BY <1>2, <3>1 DEF Result, Finish
  <2>3. /\ Range(call[t].keys) = {Key(t)} /\ Cardinality({Key(t)}) = 1 /\ Swapped({s}) = {Key(t)}
        /\ Swapped(data \cup {s}) = Held \cup {Key(t)} /\ Swapped(data \ {s}) = Held \ {Key(t)}
    BY <1>1, OneKey DEF OneKeyKinds
  <2>4. /\ Accessor!Touched(call[t], Held) = {Key(t)}
        /\ call[t].kind = "upsert" => Accessor!After(call[t], Held) = Held \cup {Key(t)}
        /\ call[t].kind = "remove" => Accessor!After(call[t], Held) = Held \ {Key(t)}
    BY <1>1, <2>3, EffectOf
  <2>5. Held' = Accessor!After(call[t], Held)
    <3>1. Held' = Swapped(data')
      BY DEF Held, Swapped
    <3> QED
      BY <2>1, <2>2, <2>3, <2>4, <3>1
  <2> QED
    BY <1>1, <1>2, <2>3, <2>4, <2>5, OkRefines
<1>3. CASE mayFail /\ data' = data /\ Result(t, "error", 0, {})
  BY <1>1, <1>3, ErrorRefines
<1> QED
  BY <1>2, <1>3, Zenon DEF Upsert, Remove, NotWritten

\* read, and the Get of an update that does not find its key
LEMMA LookupRefines ==
  ASSUME RocksTypes, CallInv, NEW t \in Threads, Read(t) \/ UpdateGet(t), stage'[t] # "put"
  PROVE  Accessor!Next
<1> DEFINE s == ToSlice(Key(t))
<1>1. /\ InCall(t) /\ stage[t] # "idle" /\ call[t].kind \in {"read", "update"} /\ data' = data
      /\ stage \in [Threads -> Stages]
  BY TypesApart DEF InCall, Read, UpdateGet, Called, At, DataTypes
<1>2. /\ Range(call[t].keys) = {Key(t)} /\ Cardinality({Key(t)}) = 1 /\ Swapped({s}) = {Key(t)}
      /\ s \in data <=> Key(t) \in Held
  BY <1>1, OneKey DEF OneKeyKinds
<1>3. /\ Accessor!Touched(call[t], Held) = {Key(t)} \cap Held
      /\ Accessor!After(call[t], Held) = Held
  BY <1>1, <1>2, EffectOf
<1>4. Held' = Held
  BY <1>1 DEF Held, Swapped
<1>5. CASE s \in data /\ Result(t, "ok", 1, {s})
  <2>1. Accessor!Touched(call[t], Held) = {Key(t)}
    BY <1>2, <1>3, <1>5
  <2> QED
    BY <1>1, <1>2, <1>3, <1>4, <1>5, <2>1, OkRefines
<1>6. CASE s \notin data /\ Result(t, "not_found", 0, {})
  <2> DEFINE a == [status |-> "not_found", touched |-> 0, found |-> {}]
  <2>1. Accessor!Touched(call[t], Held) = {}
    BY <1>2, <1>3, <1>6
  <2>2. a \in Accessor!Answers(call[t], Held)
    BY <1>1, <2>1, NotFoundAnswer
  <2>3. Swapped({}) = {}
    BY DEF Swapped
  <2>4. Tells(t, a) /\ mayFail' = mayFail
    BY <1>1, <1>6, <2>3, ResultTells
  <2> HIDE DEF a
  <2> QED
    BY <1>3, <1>4, <2>2, <2>4, Performs
<1>7. CASE mayFail /\ Result(t, "error", 0, {})
  BY <1>1, <1>7, ErrorRefines
<1>8. ~(s \in data /\ stage' = [stage EXCEPT ![t] = "put"] /\ UNCHANGED reply)
  BY <1>1
<1> HIDE DEF s
<1> QED
  BY <1>5, <1>6, <1>7, <1>8, Zenon DEF Read, UpdateGet, s

\* The Put of an update writes a key that is there.
LEMMA PutRefines ==
  ASSUME RocksTypes, CallInv, PutInv, NEW t \in Threads, UpdatePut(t)
  PROVE  Accessor!Next
<1> DEFINE s == ToSlice(Key(t))
<1>1. InCall(t) /\ stage[t] # "idle" /\ call[t].kind = "update" /\ s \in data
  BY DEF InCall, UpdatePut, CallInv, PutInv
<1>2. CASE data' = data \cup {s} /\ Result(t, "ok", 1, {s})
  <2>1. /\ Range(call[t].keys) = {Key(t)} /\ Cardinality({Key(t)}) = 1 /\ Swapped({s}) = {Key(t)}
        /\ Key(t) \in Held
    BY <1>1, OneKey DEF OneKeyKinds
  <2>2. Accessor!Touched(call[t], Held) = {Key(t)} /\ Accessor!After(call[t], Held) = Held
    BY <1>1, <2>1, EffectOf
  <2>3. Held' = Held
    <3>1. data' = data
      BY <1>1, <1>2
    <3> QED
      BY <3>1 DEF Held, Swapped
  <2> QED
    BY <1>1, <1>2, <2>1, <2>2, <2>3, OkRefines
<1>3. CASE mayFail /\ data' = data /\ Result(t, "error", 0, {})
  BY <1>1, <1>3, ErrorRefines
<1> QED
  BY <1>2, <1>3, Zenon DEF UpdatePut, Written, NotWritten
\* batch_upsert, and the file of a bulk load that becomes one of the engine's
LEMMA BatchRefines ==
  ASSUME RocksTypes, CallInv, NEW t \in Threads, BatchUpsert(t) \/ Ingest(t)
  PROVE  Accessor!Next
<1> DEFINE slices == Range(Slices(call[t].keys))
<1>1. InCall(t) /\ stage[t] # "idle" /\ call[t].kind \in SortedKinds
  BY DEF InCall, BatchUpsert, Ingest, Called, At, SortedKinds, CallInv
<1>2. CASE data' = data \cup slices /\ Result(t, "ok", Size(t), slices)
  <2>1. /\ call[t].keys \in Seq(Keys)
        /\ \A i, j \in 1..Size(t) : call[t].keys[i] = call[t].keys[j] => i = j
    BY <1>1, CallOf
  <2>2. /\ slices \subseteq Slice /\ Swapped(slices) = Range(call[t].keys)
        /\ Cardinality(Range(call[t].keys)) = Size(t)
    BY <2>1, SlicesOf, KeysCounted DEF Size
  <2>3. /\ Accessor!Touched(call[t], Held) = Range(call[t].keys)
        /\ Accessor!After(call[t], Held) = Held \cup Range(call[t].keys)
    BY <1>1, EffectOf DEF SortedKinds
  <2>4. data \subseteq Slice
    BY TypesApart DEF DataTypes
  <2> HIDE DEF slices
  <2>5. Held' = Held \cup Range(call[t].keys)
    <3>1. Held' = Swapped(data')
      BY DEF Held, Swapped
    <3>2. Swapped(data \cup slices) = Swapped(data) \cup Swapped(slices)
      BY <2>2, <2>4, SwappedSets
    <3> QED
      BY <1>2, <2>2, <3>1, <3>2 DEF Held
  <2>6. call[t].kind \notin {"read", "update"}
    BY <1>1 DEF SortedKinds
  <2> QED
    BY <1>1, <1>2, <2>2, <2>3, <2>5, <2>6, OkRefines
<1>3. CASE /\ mayFail /\ data' = data
           /\ Result(t, "error", Size(t), {}) \/ Result(t, "error", 0, {})
  BY <1>1, <1>3, ErrorRefines
<1> HIDE DEF slices
<1> QED
  BY <1>2, <1>3, Zenon DEF BatchUpsert, Ingest, Written, NotWritten, slices

\* The file of a bulk load: its keys are in the engine's order, so it can only
\* fail with the engine, and nothing is in the engine yet.
LEMMA FileRefines ==
  ASSUME RocksTypes, CallInv, NEW t \in Threads, WriteFile(t)
  PROVE  Accessor!Next \/ UNCHANGED Accessor!vars
<1>1. InCall(t) /\ stage[t] = "called" /\ call[t].kind = "bulk_load" /\ data' = data
      /\ stage \in [Threads -> Stages]
  BY TypesApart DEF InCall, WriteFile, Called, At, DataTypes
<1>2. Ascending(call[t].keys) /\ call[t].keys \in Seq(Keys)
  BY <1>1, CallOf DEF SortedKinds
<1>3. \A i \in 1..Size(t) - 1 : Before(Slices(call[t].keys)[i], Slices(call[t].keys)[i + 1])
  BY <1>2, SlicesSorted DEF Size
<1>4. CASE stage' = [stage EXCEPT ![t] = "ingest"] /\ reply' = reply
  <2>1. Phase' = Phase
    BY <1>1, <1>4 DEF Phase
  <2>2. call' = call /\ mayFail' = mayFail
    BY <1>1, InCallFrame, InCallMayFail
  <2> QED
    BY <1>1, <1>4, <2>1, <2>2, Stutters
<1>5. CASE mayFail /\ Result(t, "error", 0, {})
  BY <1>1, <1>5, ErrorRefines
<1> QED
  BY <1>3, <1>4, <1>5, Zenon DEF WriteFile

\* The Get of an update that finds its key is not seen by the caller.
LEMMA GetRefines ==
  ASSUME RocksTypes, NEW t \in Threads, UpdateGet(t), stage'[t] = "put"
  PROVE  UNCHANGED Accessor!vars
<1>1. InCall(t) /\ stage[t] = "called" /\ data' = data /\ stage \in [Threads -> Stages]
  BY TypesApart DEF InCall, UpdateGet, Called, At, DataTypes
<1>2. stage' = [stage EXCEPT ![t] = "put"] /\ reply' = reply
  BY <1>1 DEF UpdateGet, Result, Finish
<1>3. Phase' = Phase
  BY <1>1, <1>2 DEF Phase
<1>4. call' = call /\ mayFail' = mayFail
  BY <1>1, InCallFrame, InCallMayFail
<1> QED
  BY <1>1, <1>2, <1>3, <1>4, Stutters

\* A range or a scan meets the first keys from its own on, in their order.
LEMMA IterateRefines ==
  ASSUME RocksTypes, CallInv, NEW t \in Threads, Iterate(t)
  PROVE  Accessor!Next
<1> DEFINE met == Iterated(ToSlice(Key(t)), call[t].length)
           c == call[t]
<1>1. InCall(t) /\ stage[t] # "idle" /\ c.kind \in RangeKinds /\ data' = data
      /\ Result(t, "ok", Cardinality(met), met)
  BY DEF InCall, Iterate, Called, At, RangeKinds
<1>2. Key(t) \in Keys /\ c.length \in Nat /\ c.keys[1] = Key(t) /\ data \subseteq Slice
  BY <1>1, CallOf, TypesApart DEF DataTypes, Length, Key
<1>3. met = FirstBytes({m \in data : ~Before(m, ToSlice(Key(t)))}, c.length)
  BY DEF Iterated
<1>4. Swapped(met) = Accessor!Touched(c, Held) /\ Accessor!After(c, Held) = Held
  <2> DEFINE beyond == {k \in Held : k >= Key(t)}
             first  == {k \in beyond : Cardinality({j \in beyond : j < k}) < c.length}
  <2>1. Swapped(met) = first
    <3> HIDE DEF met
    <3>1. Swapped(met) = FirstKeys(Held, Key(t), c.length)
      BY <1>2, <1>3, IteratedInOrder DEF Held
    <3> QED
      BY <3>1 DEF FirstKeys
  <2>2. Accessor!Touched(c, Held) = first /\ Accessor!After(c, Held) = Held
    <3>1. /\ Accessor!After(c, Held) = Held
          /\ LET from == {k \in Held : k >= c.keys[1]}
             IN  Accessor!Touched(c, Held)
                   = {k \in from : Cardinality({j \in from : j < k}) < c.length}
      <4> HIDE DEF c
      <4> QED
        BY <1>1, EffectOf DEF RangeKinds
    <3> QED
      BY <1>2, <3>1
  <2> QED
    BY <2>1, <2>2
<1>5. Cardinality(met) = Cardinality(Swapped(met))
  <2>1. met \subseteq Slice
    BY <1>2, <1>3 DEF FirstBytes
  <2> QED
    BY <2>1, SwappedCount
<1>6. Held' = Held /\ c.kind \notin {"read", "update"}
  BY <1>1 DEF Held, Swapped, RangeKinds
<1> HIDE DEF met
<1> QED
  BY <1>1, <1>4, <1>5, <1>6, OkRefines

\* The buffer of a batch of reads holds that batch and nothing else.
LEMMA BufferIsBatch ==
  ASSUME RocksTypes, CallInv, FitInv, ShippedMixes, NEW t \in Threads, BatchRead(t)
  PROVE  Filled(buffer[t], Slices(call[t].keys)) = Slices(call[t].keys)
<1> DEFINE old == buffer[t]
           new == Slices(call[t].keys)
<1>1. stage[t] # "idle" /\ call[t].kind = "batch_read"
  BY DEF BatchRead, Called, At
<1>2. /\ workload \in Workloads /\ "batch_read" \in workload.kinds
      /\ call[t].keys \in Seq(Keys) /\ Size(t) \in workload.lengths
  BY <1>1, CallOf
<1>3. Size(t) = Longest /\ Longest \in Nat
  BY <1>2, LongestBatch DEF ShippedMixes
<1>4. Len(old) \in Nat /\ Len(old) <= Longest /\ new \in Seq(Slice) /\ Len(new) = Longest
  BY <1>2, <1>3, SlicesOf DEF RocksTypes, FitInv, Size
<1>5. Max({Len(new), Len(old)}) = Longest
  <2>1. IsFiniteSet({Len(new)}) /\ IsFiniteSet({Len(old)})
    BY FS_Singleton
  <2>2. {Len(new), Len(old)} = {Len(new)} \cup {Len(old)}
    OBVIOUS
  <2>3. IsFiniteSet({Len(new), Len(old)})
    BY <2>1, <2>2, FS_Union
  <2> HIDE DEF new, old
  <2>4. /\ Max({Len(new), Len(old)}) \in {Len(new), Len(old)}
        /\ Len(new) <= Max({Len(new), Len(old)})
    BY <1>3, <1>4, <2>3, MaxIsMaximum
  <2> QED
    BY <1>3, <1>4, <2>4
<1> HIDE DEF new, old
<1>6. Filled(old, new) = [i \in 1..Longest |-> IF i <= Longest THEN new[i] ELSE old[i]]
  BY <1>4, <1>5 DEF Filled
<1>7. Filled(old, new) = [i \in 1..Longest |-> new[i]]
  BY <1>3, <1>6
<1>8. new = [i \in 1..Longest |-> new[i]]
  BY <1>4
<1> QED
  BY <1>7, <1>8 DEF new, old

\* A batch of reads finds the keys of its batch that are there, or, of an engine
\* that fails, some of them.
LEMMA BatchReadRefines ==
  ASSUME RocksTypes, CallInv, FitInv, ShippedMixes, NEW t \in Threads, BatchRead(t)
  PROVE  Accessor!Next
<1> DEFINE keys == call[t].keys
           looked == Filled(buffer[t], Slices(keys))
           present == {i \in 1..Len(looked) : looked[i] \in data}
<1>1. PICK hits \in (IF mayFail THEN SUBSET present ELSE {present}) :
        Result(t, "ok", Cardinality(hits), {looked[i] : i \in hits})
  BY DEF BatchRead
<1>2. InCall(t) /\ stage[t] # "idle" /\ call[t].kind = "batch_read" /\ data' = data
  BY DEF InCall, BatchRead, Called, At
<1>3. /\ keys \in Seq(Keys) /\ \A i, j \in 1..Len(keys) : keys[i] = keys[j] => i = j
  BY <1>2, CallOf DEF Size
<1>4. /\ Len(looked) = Len(keys) /\ Len(keys) \in Nat
      /\ \A i \in 1..Len(keys) : looked[i] = ToSlice(keys[i]) /\ keys[i] \in Keys
  BY <1>3, BufferIsBatch, SlicesOf
<1> HIDE DEF looked, keys
<1>5. \A i \in 1..Len(keys) : /\ looked[i] \in Slice /\ Swap(looked[i]) = keys[i]
                              /\ looked[i] \in data <=> keys[i] \in Held
  <2>1. \A i \in 1..Len(keys) : looked[i] \in Slice /\ Swap(looked[i]) = keys[i]
    BY <1>4, SlicesTurned
  <2>2. data \subseteq Slice
    BY TypesApart DEF DataTypes
  <2>3. \A m \in Slice : m \in data <=> Swap(m) \in Held
    BY <2>2, SlicesTurned DEF Held, Swapped
  <2> QED
    BY <2>1, <2>3
<1>6. present \subseteq 1..Len(keys) /\ Range(keys) = {keys[i] : i \in 1..Len(keys)}
      /\ {keys[i] : i \in present} = Range(keys) \cap Held
  <2>1. Range(keys) = {keys[i] : i \in 1..Len(keys)}
    BY <1>3 DEF Range
  <2> QED
    BY <1>4, <1>5, <2>1
<1> HIDE DEF present
<1>7. hits \subseteq present
  <2>1. CASE mayFail
    BY <1>1, <2>1
  <2>2. CASE ~mayFail
    BY <1>1, <2>2
  <2> QED
    BY <2>1, <2>2
<1> DEFINE got == {keys[i] : i \in hits}
<1>8. Swapped({looked[i] : i \in hits}) = got
  BY <1>5, <1>6, <1>7 DEF Swapped
<1>9. Cardinality(hits) = Cardinality(got)
  <2> DEFINE f == [i \in hits |-> keys[i]]
  <2>1. {f[i] : i \in hits} = got /\ f \in [hits -> {f[i] : i \in hits}]
    OBVIOUS
  <2>2. \A i, j \in hits : f[i] = f[j] => i = j
    BY <1>3, <1>6, <1>7
  <2>3. IsFiniteSet(hits)
    <3>1. IsFiniteSet(1..Len(keys))
      BY <1>4, FS_Interval
    <3> QED
      BY <1>6, <1>7, <3>1, FS_Subset
  <2> HIDE DEF f, got
  <2>4. Cardinality({f[i] : i \in hits}) = Cardinality(hits)
    BY <2>1, <2>2, <2>3, ImageCount
  <2> QED
    BY <2>1, <2>4
<1>10. /\ Accessor!Touched(call[t], Held) = Range(keys) \cap Held
       /\ Accessor!After(call[t], Held) = Held /\ Held' = Held
  BY <1>2, EffectOf DEF keys, Held, Swapped
<1> HIDE DEF got
<1>11. CASE mayFail
  <2> DEFINE a == [status |-> "ok", touched |-> Cardinality(got), found |-> got]
  <2>1. got \subseteq Accessor!Touched(call[t], Held)
    BY <1>6, <1>7, <1>10 DEF got
  <2>2. a \in Accessor!FailedAnswers(call[t], Held)
    BY <1>2, <2>1, PartAnswer
  <2>3. Tells(t, a) /\ mayFail' = mayFail
    BY <1>1, <1>2, <1>8, <1>9, ResultTells
  <2> HIDE DEF a
  <2> QED
    BY <1>2, <1>11, <2>2, <2>3, Fails
<1>12. CASE ~mayFail
  <2>1. hits = present
    BY <1>1, <1>12
  <2>2. got = Accessor!Touched(call[t], Held)
    BY <1>6, <1>10, <2>1 DEF got
  <2>3. Result(t, "ok", Cardinality(hits), {looked[i] : i \in hits})
    BY <1>1
  <2>4. call[t].kind \notin {"read", "update"}
    BY <1>2
  <2>5. Held' = Accessor!After(call[t], Held)
    BY <1>10
  <2> QED
    BY <1>2, <1>8, <1>9, <2>2, <2>3, <2>4, <2>5, OkRefines
<1> QED
  BY <1>11, <1>12
\* The worker calls, and takes the result.
LEMMA CallerRefines ==
  ASSUME RocksTypes, NEW t \in Threads, Invoke(t) \/ Return(t)
  PROVE  Accessor!Next
<1>1. /\ stage \in [Threads -> Stages] /\ call \in [Threads -> Calls]
      /\ reply \in [Threads -> Answer] /\ workload \in Workloads
  BY TypesApart DEF DataTypes
<1>2. data' = data /\ mayFail' = mayFail
  BY Zenon DEF Invoke, Return, store
<1>3. UNCHANGED Accessor!context
  BY <1>2, Zenon DEF Accessor!context
<1>4. {Swap(m) : m \in data}' = {Swap(m) : m \in data}
  BY <1>2
<1>5. CASE Invoke(t)
  <2>1. stage[t] = "idle" /\ stage' = [stage EXCEPT ![t] = "called"] /\ reply' = reply
    BY <1>5 DEF Invoke
  <2>2. Phase[t] = "idle" /\ Phase' = [Phase EXCEPT ![t] = "called"]
    BY <1>1, <2>1 DEF Phase
  <2>3. PICK k \in workload.kinds : \E c \in CallsOf(k, workload.lengths) :
                                      call' = [call EXCEPT ![t] = c]
    BY <1>5 DEF Invoke
  <2>4. PICK c \in CallsOf(k, workload.lengths) : call' = [call EXCEPT ![t] = c]
    BY <2>3
  <2>5. k \in CallKinds
    BY <1>1, CallerAssumption
  <2>6. c.kind = k /\ c.keys \in Seq(Keys)
    BY <1>1, <2>5, CallFacts
  <2>7. call'[t].kind \in Accessor!CallKinds /\ Range(call'[t].keys) \subseteq Keys
    <3>1. call'[t] = c
      BY <1>1, <2>4
    <3>2. Range(c.keys) \subseteq Keys
      BY <2>6 DEF Range
    <3>3. CallKinds = Accessor!CallKinds
      BY DEF CallKinds, Accessor!CallKinds, Accessor!WriteKinds, Accessor!FindKinds,
             Accessor!RangeKinds
    <3> QED
      BY <2>5, <2>6, <3>1, <3>2, <3>3
  <2>8. \A u \in Threads \ {t} : call'[u] = call[u]
    BY <1>1, <2>4
  <2>9. Accessor!Range(call'[t].keys) \subseteq Keys
    BY <2>7, SameOperators
  <2>10. Accessor!Invoke(t)
    BY <1>3, <1>4, <2>1, <2>2, <2>7, <2>8, <2>9, Zenon DEF Accessor!Invoke, Phase
  <2> QED
    BY <2>10, Zenon DEF Accessor!Next
<1>6. CASE Return(t)
  <2>1. /\ stage[t] = "done" /\ stage' = [stage EXCEPT ![t] = "idle"]
        /\ call' = [call EXCEPT ![t] = NoCall] /\ reply' = [reply EXCEPT ![t] = NoAnswer]
    BY <1>6 DEF Return
  <2>2. Phase[t] = "done" /\ Phase' = [Phase EXCEPT ![t] = "idle"]
    BY <1>1, <2>1 DEF Phase
  <2>3. NoCall = Accessor!NoCall /\ NoAnswer = Accessor!NoAnswer
    BY SameOperators, FS_EmptySet
       DEF NoCall, NoAnswer, Accessor!NoCall, Accessor!NoAnswer, Accessor!AnswerOf
  <2>4. Accessor!Return(t)
    BY <1>3, <1>4, <2>1, <2>2, <2>3, Zenon DEF Accessor!Return, Phase
  <2> QED
    BY <2>4, Zenon DEF Accessor!Next
<1> QED
  BY <1>5, <1>6

\* Every step of the adapter is a step of the interface or is not seen.
LEMMA StepRefines ==
  ASSUME RocksInv, PutInv, ShippedMixes, [Next]_vars
  PROVE  [Accessor!Next]_(Accessor!vars)
<1>a. RocksTypes /\ CallInv /\ FitInv
  BY Zenon DEF RocksInv
<1>1. ASSUME Open \/ Flush \/ Close PROVE UNCHANGED Accessor!vars
  <2>1. /\ UNCHANGED <<call, reply, data>> /\ mayFail' = mayFail /\ stage' = stage
    BY <1>1, Zenon DEF Open, OpenDb, Flush, FlushDb, Close, CloseDb
  <2>2. Phase' = Phase
    BY <2>1 DEF Phase
  <2> QED
    BY <2>1, <2>2, Stutters
<1>2. ASSUME NEW t \in Threads, Invoke(t) \/ Return(t) PROVE Accessor!Next
  BY <1>a, <1>2, CallerRefines
<1>3. ASSUME NEW t \in Threads, InCall(t) PROVE Accessor!Next \/ UNCHANGED Accessor!vars
  <2>1. CASE Upsert(t) \/ Remove(t)
    BY <1>a, <2>1, WriteRefines
  <2>2. CASE Read(t) \/ UpdateGet(t)
    <3>1. ASSUME stage'[t] = "put" PROVE UpdateGet(t)
      <4>1. stage \in [Threads -> Stages]
        BY <1>a, TypesApart DEF DataTypes
      <4> QED
        BY <2>2, <3>1, <4>1 DEF Read, Result, Finish
    <3> QED
      BY <1>a, <2>2, <3>1, LookupRefines, GetRefines
  <2>3. CASE UpdatePut(t)
    BY <1>a, <2>3, PutRefines
  <2>4. CASE BatchUpsert(t) \/ Ingest(t)
    BY <1>a, <2>4, BatchRefines
  <2>5. CASE BatchRead(t)
    BY <1>a, <2>5, BatchReadRefines
  <2>6. CASE WriteFile(t)
    BY <1>a, <2>6, FileRefines
  <2>7. CASE Iterate(t)
    BY <1>a, <2>7, IterateRefines
  <2> QED
    BY <1>3, <2>1, <2>2, <2>3, <2>4, <2>5, <2>6, <2>7 DEF InCall
<1>4. ASSUME UNCHANGED vars PROVE UNCHANGED Accessor!vars
  <2>1. UNCHANGED <<call, reply, data>> /\ mayFail' = mayFail /\ stage' = stage
    BY <1>4, Zenon DEF vars
  <2>2. Phase' = Phase
    BY <2>1 DEF Phase
  <2> QED
    BY <2>1, <2>2, Stutters
<1> QED
  BY <1>1, <1>2, <1>3, <1>4, Steps, Zenon

\* Nobody removes the key an update has found.
LEMMA PutStep ==
  ASSUME RocksInv, PutInv, ShippedMixes, [Next]_vars
  PROVE  PutInv'
<1>a. RocksTypes /\ CallInv /\ FitInv
  BY Zenon DEF RocksInv
<1>b. /\ stage \in [Threads -> Stages] /\ call \in [Threads -> Calls] /\ workload \in Workloads
      /\ reply \in [Threads -> Answer]
  BY <1>a, TypesApart DEF DataTypes
<1> SUFFICES ASSUME NEW u \in Threads, stage'[u] = "put"
             PROVE  ToSlice(call'[u].keys[1]) \in data'
  BY DEF PutInv, Key
<1>1. CASE Open \/ Flush \/ Close \/ UNCHANGED vars
  <2>1. UNCHANGED <<stage, call, data>>
    BY <1>1 DEF Open, OpenDb, Flush, FlushDb, Close, CloseDb, vars
  <2> QED
    BY <2>1 DEF PutInv, Key
<1>2. ASSUME NEW t \in Threads, Invoke(t) \/ Return(t)
      PROVE  ToSlice(call'[u].keys[1]) \in data'
  <2>1. data' = data /\ u # t /\ stage[u] = "put"
    BY <1>2, <1>b DEF Invoke, Return
  <2>2. call'[u] = call[u]
    BY <1>2, <1>b, <2>1 DEF Invoke, Return
  <2> QED
    BY <2>1, <2>2 DEF PutInv, Key
<1>3. ASSUME NEW t \in Threads, InCall(t)
      PROVE  ToSlice(call'[u].keys[1]) \in data'
  <2>1. call' = call
    BY <1>3, InCallFrame
  <2>2. CASE UpdateGet(t) /\ u = t
    BY <1>b, <2>1, <2>2 DEF UpdateGet, Result, Finish, Key
  <2>3. CASE ~(UpdateGet(t) /\ u = t)
    <3>1. stage[u] = "put"
      BY <1>3, <1>b, <2>3 DEF InCall, Upsert, UpdateGet, UpdatePut, Remove, Read, BatchUpsert,
         BatchRead, WriteFile, Ingest, Iterate, Result, Finish
    <3>2. ~Remove(t)
      <4>1. "update" \in workload.kinds
        BY <1>a, <3>1 DEF CallInv
      <4>2. ASSUME Remove(t) PROVE "remove" \in workload.kinds
        BY <1>a, <4>2 DEF Remove, Called, At, CallInv
      <4> QED
        BY <1>b, <4>1, <4>2 DEF ShippedMixes
    <3>3. data \subseteq data'
      BY <1>3, <3>2 DEF InCall, Upsert, UpdateGet, UpdatePut, Read, BatchUpsert,
         BatchRead, WriteFile, Ingest, Iterate, Written, NotWritten
    <3> QED
      BY <2>1, <3>1, <3>3 DEF PutInv, Key
  <2> QED
    BY <2>2, <2>3
<1> QED
  BY <1>1, <1>2, <1>3, Steps

\* The initial states are those of the interface.
LEMMA InitRefines == Init => Accessor!Init /\ PutInv
<1> SUFFICES ASSUME Init
             PROVE  Accessor!Init /\ PutInv
  OBVIOUS
<1>1. /\ data = {} /\ stage = [t \in Threads |-> "idle"]
      /\ call = [t \in Threads |-> NoCall] /\ reply = [t \in Threads |-> NoAnswer]
  BY DEF Init, CallerInit
<1>2. mayFail \in BOOLEAN
  BY Zenon DEF Init, CallerInit
<1>3. {Swap(m) : m \in data} = {} /\ {} \subseteq Accessor!CallKinds
  BY <1>1
<1>4. [t \in Threads |-> IF stage[t] \in {"put", "ingest"} THEN "called" ELSE stage[t]]
        = [t \in Threads |-> "idle"]
  BY <1>1
<1>5. NoCall = Accessor!NoCall /\ NoAnswer = Accessor!NoAnswer
  BY SameOperators, FS_EmptySet
     DEF NoCall, NoAnswer, Accessor!NoCall, Accessor!NoAnswer, Accessor!AnswerOf
<1>6. Accessor!Init
  BY <1>1, <1>2, <1>3, <1>4, <1>5, Zenon DEF Accessor!Init
<1>7. PutInv
  BY <1>1 DEF PutInv
<1> QED
  BY <1>6, <1>7

\* RocksDB behind the adapter does and reports what the interface promises, for
\* every set of threads, keys and workloads like the shipped ones: each call
\* takes effect at one moment, on the keys it was given and in their order.
THEOREM RocksImplementsDataAccessor == ShippedMixes /\ Spec => ImplementsDataAccessor
<1> SUFFICES ASSUME ShippedMixes
             PROVE  Spec => ImplementsDataAccessor
  OBVIOUS
<1>1. RocksInv /\ PutInv /\ [Next]_vars => PutInv'
  BY PutStep
<1>2. RocksInv /\ PutInv /\ [Next]_vars => [Accessor!Next]_(Accessor!vars)
  BY StepRefines
<1> QED
  BY <1>1, <1>2, InitRefines, RocksInvariant, PTL
     DEF Spec, ImplementsDataAccessor, Accessor!Spec
=============================================================================
