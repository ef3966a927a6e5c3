------------------------------ MODULE MC_Bench ------------------------------
(***************************************************************************)
(* Small instances of Bench for TLC: two threads, so that one can be       *)
(* anywhere while the other one counts the last operation, and two         *)
(* workloads, so that the second one meets what the first one left.        *)
(***************************************************************************)
EXTENDS Bench, TLC

CONSTANTS t0, t1

Two == {t0, t1}

\* The threads of a workload need not have the same number of operations.
TwoOperations == << (t0 :> 2 @@ t1 :> 2), (t0 :> 2 @@ t1 :> 1) >>
=============================================================================
