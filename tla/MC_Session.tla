------------------------------ MODULE MC_Session ------------------------------
(***************************************************************************)
(* Small instances of Session for TLC.                                     *)
(***************************************************************************)
EXTENDS Session

OneTarget  == << "rocksdb" >>
TwoTargets == << "rocksdb", "leveldb" >>

\* All from the start, a part of it again, and one workload that is new.
AllPlans == { << "Init", "Read" >>, << "Read" >>, << "Scan", "Read" >> }
ShortPlans == { << "Init", "Read" >>, << "Read" >> }
===============================================================================
