-------------------------- MODULE MC_ThreadsFence --------------------------
(***************************************************************************)
(* Small instances of ThreadsFence for TLC: three threads, so that two can *)
(* run ahead of a slow third one, and three rounds, so that the slow one   *)
(* can meet the counters of a later round.                                 *)
(***************************************************************************)
EXTENDS ThreadsFence

CONSTANTS t1, t2, t3

MCThreads == {t1, t2, t3}
=============================================================================
