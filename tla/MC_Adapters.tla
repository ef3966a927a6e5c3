------------------------------ MODULE MC_Adapters ------------------------------
(***************************************************************************)
(* Small instances of Adapters for TLC.  Bytes have two values, so that    *)
(* the keys 0, 1 and 2 are sorted as 0, 2, 1 by engines that compare their *)
(* memory.  The mixes of operations are those of src/bench/workloads.      *)
(***************************************************************************)
EXTENDS Adapters

CONSTANTS t0, t1

One == {t0}
Two == {t0, t1}

Mix(threads, kinds, lengths) == [threads |-> threads, kinds |-> kinds, lengths |-> lengths]

Shipped ==
  {Mix(One, {"bulk_load"}, {1, 2}), Mix(Two, {"batch_upsert"}, {2}),
   Mix(One, {"read", "update"}, {1}), Mix(One, {"read", "upsert"}, {1}),
   Mix(Two, {"remove"}, {1}), Mix(One, {"batch_read"}, {1}), Mix(One, {"batch_read"}, {2}),
   Mix(One, {"range_select"}, {2}), Mix(Two, {"scan"}, {3})}

\* Two threads load the database.
Loads == {Mix(Two, {"bulk_load"}, {1})}
=============================================================================
