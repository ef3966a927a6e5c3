------------------------------ MODULE MC_RocksDB ------------------------------
(***************************************************************************)
(* Small instances of RocksDB for TLC.  Bytes have three values, so the    *)
(* keys 1, 2 and 3 would be sorted as 3, 1, 2 if their bytes were not      *)
(* turned round.  The mixes of operations are those of the workloads in    *)
(* src/bench/workloads.                                                    *)
(***************************************************************************)
EXTENDS RocksDB

CONSTANTS t0, t1

Two == {t0, t1}

Mix(kinds, lengths) == [threads |-> Two, kinds |-> kinds, lengths |-> lengths]

Loads    == {Mix({"bulk_load"}, {1, 2}), Mix({"batch_upsert"}, {2})}
Singles  == {Mix({"read", "update"}, {1}), Mix({"read", "upsert"}, {1}),
             Mix({"remove"}, {1})}
Lookups  == {Mix({"batch_read"}, {n}) : n \in 1..2}
Ranges   == {Mix({"range_select"}, {1, 2}), Mix({"scan"}, {2})}

Shipped == Loads \cup Singles \cup Lookups \cup Ranges

\* Batches of different sizes in one workload.
Mixed == {Mix({"bulk_load"}, {2}), Mix({"batch_read"}, {1, 2})}
=============================================================================
