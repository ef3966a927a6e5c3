------------------------------ MODULE MC_Worker ------------------------------
(***************************************************************************)
(* Small instances of Worker for TLC: the threads' parts are those that    *)
(* split_workload_into_threads deals out (see WorkloadSplit).              *)
(***************************************************************************)
EXTENDS Worker, TLC

CONSTANTS t0, t1

Two == {t0, t1}

APart(r, o, s) == [records |-> r, operations |-> o, start |-> s]

\* Five records and three operations on two threads.
FivesParts == (t0 :> APart(3, 2, 0) @@ t1 :> APart(2, 1, 3))

\* Batches of kinds have one or two keys, and there are no others.
LengthsOf(kinds) == [k \in BatchKinds |-> IF k \in kinds THEN [min |-> 1, max |-> 2]
                                                       ELSE [min |-> 0, max |-> 0]]

\* Half of the operations upsert, if any does.
NewKeys(kinds) == [t \in Two |-> IF "upsert" \in kinds THEN FivesParts[t].operations ELSE 0]

\* What the generators of the code reach on these parts: zipfian on 0..4 and
\* 3..5 with new keys, on 0..2 and 3..4 without, and latest on five records.
ReachOf(kinds, dist) ==
  CASE dist = "latest" -> (t0 :> 0..3 @@ t1 :> 0..3)
    [] dist = "zipfian" /\ "upsert" \in kinds -> (t0 :> {0, 1, 3, 4} @@ t1 :> {3, 5})
    [] dist = "zipfian" /\ "upsert" \notin kinds -> (t0 :> 0..2 @@ t1 :> {3})
    [] OTHER -> (t0 :> {} @@ t1 :> {})

OnFive(kinds, dist) ==
  [records |-> 5, parts |-> FivesParts, kinds |-> kinds, dist |-> dist,
   newKeys |-> NewKeys(kinds), reach |-> ReachOf(kinds, dist),
   lengths |-> LengthsOf(kinds), loaded |-> 0..4]

\* Mixed kinds, with every key distribution, and with one that draws no keys.
MixedKinds == {"upsert", "update", "read_modify_write", "batch_read", "range_select"}
Mixed == {OnFive(MixedKinds, d) : d \in {"uniform", "zipfian", "beta", "latest", "counter"}}

\* The removal and the scan of a workload that only works on what is there.
Removals == {OnFive({"remove", "read", "scan"}, d) : d \in {"uniform", "zipfian", "beta"}}

\* 95% reads and 5% inserts.
ReadUpsert == {OnFive({"read", "upsert"}, "latest")}

\* Three operations of at most two keys each, on two threads, from key 4 on.
BulkLoad == {[records |-> 4, parts |-> (t0 :> APart(2, 2, 4) @@ t1 :> APart(2, 1, 8)),
              kinds |-> {"bulk_load"}, dist |-> "uniform",
              newKeys |-> (t0 :> 0 @@ t1 :> 0), reach |-> (t0 :> {} @@ t1 :> {}),
              lengths |-> LengthsOf({"bulk_load"}), loaded |-> 0..3]}

AllWorkloads == Mixed \cup Removals \cup BulkLoad
=============================================================================
