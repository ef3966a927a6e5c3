---------------------------- MODULE SessionProofs ----------------------------
(***************************************************************************)
(* Proofs about Session for every list of targets, every set of plans and  *)
(* every number of sessions, with processes that fail or are killed at any *)
(* step and disks that fill up.                                            *)
(*                                                                         *)
(* SessionInv says where the script's loops are (ScriptInv), what the      *)
(* process has measured (MeasuredInv), what the merge has done so far      *)
(* (MergeInv), and what the results files keep (KeptInv).                  *)
(***************************************************************************)
EXTENDS Session, FiniteSetTheorems, SequenceTheorems, TLAPS

-----------------------------------------------------------------------------
(***************************************************************************)
(* The inductive invariant.                                                *)
(***************************************************************************)

ScriptInv ==
  /\ script # "idle" => /\ plan \in Plans /\ session \in 1..MaxSessions
                        /\ nextWorkload <= Len(plan)
  /\ script = "spawn" => JobsLeft

\* A process has workloads to run, each once.
JobInv ==
  main # "none" => /\ Len(job.names) > 0
                   /\ \A i, j \in 1..Len(job.names) : job.names[i] = job.names[j] => i = j
                   /\ drop_caches => Len(job.names) = 1

\* It has measured the first of them, and when it merges all.
NewResult(n) == [name |-> n, session |-> session]

MeasuredInv ==
  /\ main \in {"start", "prepare", "run", "merge", "update"} =>
       /\ Len(measured) <= Len(job.names)
       /\ \A i \in 1..Len(measured) : measured[i] = NewResult(job.names[i])
  /\ main \in {"merge", "update"} =>
       /\ Len(measured) = Len(job.names)
       /\ progress[job.target] = Whole(measured)

\* No workload has two results.
OncePerName(rs) == \A i, j \in 1..Len(rs) : rs[i].name = rs[j].name => i = j

\* The merge so far: the first updated results have taken their places.
MergeInv ==
  main = "update" =>
    /\ updated <= Len(Source)
    /\ final[job.target].state # "torn"
    /\ OncePerName(merged)
    /\ \A n \in Names :
         ResultsOf(merged, n) = IF \E i \in 1..updated : job.names[i] = n
                                THEN {NewResult(n)}
                                ELSE ResultsOf(final[job.target].results, n)

\* rs keeps what processes that ended well have left for target t, and has what
\* this process has measured.
Keeps(t, rs) ==
  /\ OncePerName(rs)
  /\ \A n \in Names : latest[t][n] > 0 =>
       \E i \in 1..Len(rs) : rs[i].name = n /\ rs[i].session >= latest[t][n]

HasNew(rs) ==
  \A k \in 1..Len(job.names) : \E i \in 1..Len(rs) : rs[i] = NewResult(job.names[k])

\* The results file of t, when no write to it was cut off.
FileKept(t) ==
  /\ final[t].state = "none" => final[t].results = << >>
  /\ final[t].state # "torn" => Keeps(t, final[t].results)
  /\ \A n \in Names : latest[t][n] <= session

KeptInv ==
  /\ \A t \in Targets : FileKept(t)
  /\ main = "write" => /\ final[job.target].state = "torn"
                       /\ Keeps(job.target, merged) /\ HasNew(merged)
  /\ main = "remove" /\ final[job.target].state # "torn" => HasNew(final[job.target].results)

\* Init is run on empty databases.
EmptyInv ==
  script \in {"next", "spawn", "wait"} /\ plan[1] = "Init" =>
    \A t \in Targets : dataOf[t] \subseteq {session}

\* Caches are dropped between the processes.
ColdInv ==
  drop_caches /\ (script = "spawn" \/ main \in {"start", "prepare"}) => ~warm

SessionInv ==
  /\ TypeOK /\ ScriptInv /\ JobInv /\ MeasuredInv /\ MergeInv /\ KeptInv /\ EmptyInv

-----------------------------------------------------------------------------
(***************************************************************************)
(* The constants, and the operators on results.                            *)
(***************************************************************************)

\* The targets are those of the list.
LEMMA TargetFacts ==
  /\ Len(TargetList) \in Nat \ {0}
  /\ \A i \in 1..Len(TargetList) : TargetList[i] \in Targets
  /\ MaxSessions \in Nat
<1>1. TargetList \in Seq(Targets) /\ Len(TargetList) > 0 /\ MaxSessions \in Nat
  BY SessionAssumption
<1>2. \A i \in 1..Len(TargetList) : TargetList[i] \in Targets
  BY DEF Targets
<1> QED
  BY <1>1, <1>2

\* A plan has workloads, each once.
LEMMA PlanFacts ==
  ASSUME NEW p \in Plans
  PROVE  /\ p \in Seq(Names) /\ Len(p) \in Nat \ {0}
         /\ \A i \in 1..Len(p) : p[i] \in Names
         /\ \A i, j \in 1..Len(p) : p[i] = p[j] => i = j
<1>1. p \in Seq(Names) /\ Len(p) > 0 /\ \A i, j \in 1..Len(p) : p[i] = p[j] => i = j
  BY SessionAssumption
<1> QED
  BY <1>1

\* A result is put in the place of the one of its workload, or behind the last.
LEMMA PlaceOfOnce ==
  ASSUME NEW rs \in Seq(Result), NEW r \in Result, OncePerName(rs)
  PROVE  /\ PlaceOf(rs, r) \in 1..(Len(rs) + 1)
         /\ PlaceOf(rs, r) <= Len(rs) => rs[PlaceOf(rs, r)].name = r.name
         /\ PlaceOf(rs, r) > Len(rs) => \A i \in 1..Len(rs) : rs[i].name # r.name
<1> DEFINE same == {i \in 1..Len(rs) : rs[i].name = r.name}
<1>1. CASE same = {}
  <2>1. PlaceOf(rs, r) = Len(rs) + 1
    BY <1>1 DEF PlaceOf
  <2> QED
    BY <1>1, <2>1
<1>2. CASE same # {}
  <2>1. PICK k \in same : TRUE
    BY <1>2
  <2>2. \A j \in same : j = k
    BY <2>1 DEF OncePerName
  <2>3. k \in same /\ \A j \in same : k <= j
    BY <2>1, <2>2
  <2>4. (CHOOSE i \in same : \A j \in same : i <= j) \in same
    BY <2>3
  <2>5. PlaceOf(rs, r) = CHOOSE i \in same : \A j \in same : i <= j
    BY <1>2 DEF PlaceOf
  <2>6. PlaceOf(rs, r) \in same
    BY <2>4, <2>5
  <2> QED
    BY <2>6
<1> QED
  BY <1>1, <1>2

\* An update leaves one result of each workload: of its own the new one, of all
\* other ones what they had.
LEMMA UpdatedOnce ==
  ASSUME NEW rs \in Seq(Result), NEW r \in Result, OncePerName(rs)
  PROVE  /\ Updated(rs, r) \in Seq(Result)
         /\ OncePerName(Updated(rs, r))
         /\ \A n \in Names :
              ResultsOf(Updated(rs, r), n) = IF n = r.name THEN {r} ELSE ResultsOf(rs, n)
<1> DEFINE p == PlaceOf(rs, r)
           l == IF p > Len(rs) THEN Len(rs) + 1 ELSE Len(rs)
           us == Updated(rs, r)
<1>1. /\ p \in 1..(Len(rs) + 1)
      /\ p <= Len(rs) => rs[p].name = r.name
      /\ p > Len(rs) => \A i \in 1..Len(rs) : rs[i].name # r.name
  BY PlaceOfOnce
<1>2. us = [i \in 1..l |-> IF i = p THEN r ELSE rs[i]]
  BY DEF Updated
<1> HIDE DEF p, us
<1>3. l \in Nat /\ p \in 1..l /\ \A i \in 1..l : i = p \/ i \in 1..Len(rs)
  BY <1>1
<1>4. \A i \in 1..Len(rs) : i = p \/ (i \in 1..l /\ rs[i].name # r.name)
  BY <1>1 DEF OncePerName
<1> HIDE DEF l
<1>5. us \in Seq(Result)
  BY <1>2, <1>3
<1>6. Len(us) = l /\ \A i \in 1..l : us[i] = IF i = p THEN r ELSE rs[i]
  BY <1>2, <1>3
<1>7. OncePerName(us)
  <2> SUFFICES ASSUME NEW i \in 1..l, NEW j \in 1..l, us[i].name = us[j].name
               PROVE  i = j
    BY <1>6 DEF OncePerName
  <2>1. CASE i = p /\ j = p
    BY <2>1
  <2>2. CASE i = p /\ j # p
    BY <2>2, <1>3, <1>4, <1>6
  <2>3. CASE i # p /\ j = p
    BY <2>3, <1>3, <1>4, <1>6
  <2>4. CASE i # p /\ j # p
    BY <2>4, <1>3, <1>6 DEF OncePerName
  <2> QED
    BY <2>1, <2>2, <2>3, <2>4
<1>8. ASSUME NEW n \in Names
      PROVE  ResultsOf(us, n) = IF n = r.name THEN {r} ELSE ResultsOf(rs, n)
  <2>1. CASE n = r.name
    <3>1. ResultsOf(us, n) \subseteq {r}
      <4> SUFFICES ASSUME NEW i \in 1..l, us[i].name = n
                   PROVE  us[i] = r
        BY <1>6 DEF ResultsOf
      <4> QED
        BY <2>1, <1>3, <1>4, <1>6
    <3>2. us[p] = r /\ p \in 1..Len(us)
      BY <1>3, <1>6
    <3>3. r \in ResultsOf(us, n)
      BY <3>2, <2>1 DEF ResultsOf
    <3> QED
      BY <2>1, <3>1, <3>3
  <2>2. CASE n # r.name
    <3>1. ASSUME NEW x \in ResultsOf(us, n)
          PROVE  x \in ResultsOf(rs, n)
      <4>1. PICK i \in 1..l : us[i] = x /\ us[i].name = n
        BY <3>1, <1>6 DEF ResultsOf
      <4>2. i # p /\ i \in 1..Len(rs) /\ rs[i] = x /\ rs[i].name = n
        BY <4>1, <2>2, <1>3, <1>6
      <4> QED
        BY <4>2 DEF ResultsOf
    <3>2. ASSUME NEW x \in ResultsOf(rs, n)
          PROVE  x \in ResultsOf(us, n)
      <4>1. PICK i \in 1..Len(rs) : rs[i] = x /\ rs[i].name = n
        BY <3>2 DEF ResultsOf
      <4>2. i # p
        BY <4>1, <2>2, <1>1
      <4>3. i \in 1..Len(us) /\ us[i] = x /\ us[i].name = n
        BY <4>1, <4>2, <1>4, <1>6
      <4> QED
        BY <4>3 DEF ResultsOf
    <3>3. ResultsOf(us, n) = ResultsOf(rs, n)
      BY <3>1, <3>2
    <3> QED
      BY <2>2, <3>3
  <2> QED
    BY <2>1, <2>2
<1> QED
  BY <1>5, <1>7, <1>8 DEF us

\* Workloads without results.
LEMMA NoResults ==
  OncePerName(<< >>) /\ \A n \in Names : ResultsOf(<< >>, n) = {}
BY DEF OncePerName, ResultsOf

-----------------------------------------------------------------------------
(***************************************************************************)
(* The initial states, and type correctness.                               *)
(***************************************************************************)

\* The first session has not begun and there are no files.
LEMMA SessionInit == Init => SessionInv /\ ColdInv
<1> SUFFICES ASSUME Init
             PROVE  SessionInv /\ ColdInv
  OBVIOUS
<1> USE DEF Init
<1>1. TypeOK
  <2>1. drop_caches \in BOOLEAN /\ warm \in BOOLEAN
    BY SessionAssumption, Zenon
  <2>2. NoFile \in File
    BY DEF NoFile, File
  <2>3. final \in [Targets -> File] /\ progress \in [Targets -> File]
    BY <2>2
  <2>4. job \in [target : Targets, names : Seq(Names)]
    BY TargetFacts DEF Job
  <2> QED
    BY <2>1, <2>3, <2>4, TargetFacts DEF TypeOK
<1>2. ScriptInv /\ JobInv /\ MeasuredInv /\ MergeInv /\ EmptyInv /\ ColdInv
  BY DEF ScriptInv, JobInv, MeasuredInv, MergeInv, EmptyInv, ColdInv
<1>3. KeptInv
  <2>1. \A t \in Targets : /\ final[t] = NoFile
                           /\ \A n \in Names : latest[t][n] = 0
    OBVIOUS
  <2>2. ASSUME NEW t \in Targets
        PROVE  Keeps(t, final[t].results)
    BY <2>1, NoResults DEF Keeps, NoFile
  <2> QED
    BY <2>1, <2>2 DEF KeptInv, FileKept, NoFile
<1> QED
  BY <1>1, <1>2, <1>3 DEF SessionInv

\* While a process runs, a session does, and the results it merges are results.
LEMMA ProcessFacts ==
  ASSUME TypeOK, ScriptInv, main # "none"
  PROVE  /\ session \in 1..MaxSessions /\ script = "wait"
         /\ job.target \in Targets /\ job.names \in Seq(Names)
         /\ Source \in Seq(Result)
         /\ final[job.target].results \in Seq(Result)
<1>1. script = "wait" /\ session \in 1..MaxSessions
  BY DEF TypeOK, ScriptInv
<1>2. job.target \in Targets /\ job.names \in Seq(Names)
  BY DEF TypeOK
<1>3. progress[job.target] \in File /\ final[job.target] \in File
  BY <1>2 DEF TypeOK
<1> QED
  BY <1>1, <1>2, <1>3 DEF File, Source

\* A merge gives up, takes the new results, or starts from the old ones.
LEMMA MergeCases ==
  ASSUME TypeOK, ScriptInv, Merge
  PROVE  \/ /\ final[job.target].state = "torn"
            /\ main' = "exit" /\ UNCHANGED <<merged, updated>>
         \/ /\ final[job.target].state = "none"
            /\ main' = "update" /\ merged' = Source /\ updated' = Len(Source)
         \/ /\ final[job.target].state = "whole"
            /\ main' = "update" /\ merged' = final[job.target].results /\ updated' = 0
<1>1. job.target \in Targets /\ final \in [Targets -> File]
  BY DEF TypeOK
<1>2. final[job.target].state \in {"torn", "none", "whole"}
  BY <1>1 DEF File
<1>3. CASE final[job.target].state = "torn"
  BY <1>3 DEF Merge
<1>4. CASE final[job.target].state = "none"
  BY <1>4 DEF Merge
<1>5. CASE final[job.target].state = "whole"
  BY <1>5 DEF Merge
<1> QED
  BY <1>2, <1>3, <1>4, <1>5

\* Every step has the types.
LEMMA TypeStep ==
  ASSUME SessionInv, [Next]_vars
  PROVE  TypeOK'
<1> USE TargetFacts DEF SessionInv, TypeOK
<1> USE DEF vars, scriptVars, processVars, fileVars, loops
<1>1. CASE Begin
  <2>1. session' \in 0..MaxSessions /\ script' \in {"cleanup", "next"}
    BY <1>1 DEF Begin
  <2>2. plan' \in Plans
    BY <1>1 DEF Begin
  <2>3. nextTarget' \in 1..(Len(TargetList) + 1) /\ nextWorkload' \in Nat \ {0}
    BY <1>1 DEF Begin
  <2> QED
    BY <1>1, <2>1, <2>2, <2>3 DEF Begin
<1>2. CASE Cleanup
  BY <1>2 DEF Cleanup
<1>3. CASE DropSystemCaches
  BY <1>3 DEF DropSystemCaches
<1>4. CASE Spawn
  <2>1. script = "spawn" /\ plan \in Plans /\ nextTarget \in 1..Len(TargetList)
    BY <1>4 DEF Spawn, ScriptInv, JobsLeft
  <2>2. TargetList[nextTarget] \in Targets
    BY <2>1
  <2>3. plan \in Seq(Names) /\ nextWorkload \in 1..Len(plan)
    BY <2>1, PlanFacts DEF ScriptInv
  <2>4. << plan[nextWorkload] >> \in Seq(Names)
    BY <2>3
  <2>5. job' \in [target : Targets, names : Seq(Names)]
    BY <1>4, <2>2, <2>3, <2>4 DEF Spawn, NextJob, Job
  <2>6. nextTarget' \in 1..(Len(TargetList) + 1) /\ nextWorkload' \in Nat \ {0}
    BY <1>4, <2>1 DEF Spawn, Advance
  <2> QED
    BY <1>4, <2>5, <2>6 DEF Spawn
<1>5. CASE Wait
  BY <1>5 DEF Wait
<1>6. CASE End
  BY <1>6 DEF End
<1>7. CASE Kill
  BY <1>7 DEF Kill, LeaveLoops
<1>8. CASE RemoveOld
  BY <1>8 DEF RemoveOld, NoFile, File
<1>9. CASE Run
  BY <1>9 DEF Run, Torn, File
<1>10. CASE Measure
  <2>1. /\ session \in 1..MaxSessions /\ job.target \in Targets
        /\ job.names \in Seq(Names)
    BY <1>10, ProcessFacts DEF Measure
  <2>2. Len(measured) + 1 \in 1..Len(job.names)
    BY <1>10, <2>1 DEF Measure
  <2>3. [name |-> job.names[Len(measured) + 1], session |-> session] \in Result
    BY <2>1, <2>2 DEF Result
  <2>4. measured' \in Seq(Result)
    BY <1>10, <2>3 DEF Measure
  <2>5. dataOf' \in [Targets -> SUBSET (1..MaxSessions)]
    BY <1>10, <2>1 DEF Measure
  <2> QED
    BY <1>10, <2>4, <2>5 DEF Measure
<1>11. CASE Finalize
  BY <1>11 DEF Finalize, Whole, File
<1>12. CASE Fail
  BY <1>12 DEF Fail
<1>13. CASE Merge
  <2>1. Source \in Seq(Result) /\ final[job.target].results \in Seq(Result)
    BY <1>13, ProcessFacts DEF Merge
  <2>2. main' \in {"exit", "update"} /\ merged' \in Seq(Result) /\ updated' \in Nat
    BY <1>13, <2>1, MergeCases
  <2> QED
    BY <1>13, <2>2 DEF Merge
<1>14. CASE Update
  <2>1. Source \in Seq(Result) /\ updated + 1 \in 1..Len(Source)
    BY <1>14, ProcessFacts DEF Update
  <2>2. Source[updated + 1] \in Result
    BY <2>1
  <2>3. Updated(merged, Source[updated + 1]) \in Seq(Result)
    BY <1>14, <2>2, UpdatedOnce DEF MergeInv, Update
  <2> QED
    BY <1>14, <2>3 DEF Update
<1>15. CASE Truncate
  BY <1>15 DEF Truncate, Merged, Torn, File
<1>16. CASE Write
  <2>1. Whole(merged) \in File
    BY DEF Whole, File
  <2>2. final' = [final EXCEPT ![job.target] = Whole(merged)] \/ final' = final
    BY <1>16, Zenon DEF Write
  <2>3. final' \in [Targets -> File]
    BY <2>1, <2>2
  <2>4. UNCHANGED <<scriptVars, job, measured, merged, updated, progress, dataOf, warm, latest>>
    BY <1>16, Zenon DEF Write
  <2>5. main = "write" /\ main' = "remove"
    BY <1>16, Zenon DEF Write
  <2> QED
    BY <2>3, <2>4, <2>5
<1>17. CASE RemoveMerged
  <2>1. session \in 1..MaxSessions
    BY <1>17, ProcessFacts DEF RemoveMerged
  <2>2. latest' \in [Targets -> [Names -> 0..MaxSessions]]
    BY <1>17, <2>1 DEF RemoveMerged
  <2>3. progress' \in [Targets -> File]
    BY <1>17 DEF RemoveMerged, NoFile, File
  <2> QED
    BY <1>17, <2>2, <2>3 DEF RemoveMerged
<1>18. CASE UNCHANGED vars
  BY <1>18
<1> QED
  BY <1>1, <1>2, <1>3, <1>4, <1>5, <1>6, <1>7, <1>8, <1>9, <1>10, <1>11, <1>12,
     <1>13, <1>14, <1>15, <1>16, <1>17, <1>18
     DEF Next, Script, Process, Terminated

-----------------------------------------------------------------------------
(***************************************************************************)
(* The script and the process.                                             *)
(***************************************************************************)

\* No step of the process is one of the script, nor changes where that is.
LEMMA ProcessStep == Process => main # "none" /\ UNCHANGED scriptVars
BY DEF Process, RemoveOld, Run, Measure, Finalize, Fail, Merge, Update, Truncate, Merged,
       Write, RemoveMerged

\* The loops stay within the plan, and a process is spawned for a job only.
LEMMA ScriptStep ==
  ASSUME SessionInv, [Next]_vars
  PROVE  ScriptInv'
<1> USE TargetFacts DEF SessionInv, TypeOK, ScriptInv
<1>1. CASE Begin
  <2>1. plan' \in Plans /\ nextWorkload' = 1 /\ session' = session + 1
        /\ session < MaxSessions /\ script' \in {"cleanup", "next"}
    BY <1>1 DEF Begin
  <2>2. Len(plan') \in Nat \ {0}
    BY <2>1, PlanFacts
  <2> QED
    BY <2>1, <2>2
<1>2. CASE Cleanup
  BY <1>2 DEF Cleanup, loops
<1>3. CASE DropSystemCaches
  <2>1. JobsLeft'
    BY <1>3 DEF DropSystemCaches, JobsLeft, loops
  <2>2. UNCHANGED <<session, plan, nextWorkload>> /\ script = "next"
    BY <1>3 DEF DropSystemCaches, loops
  <2> QED
    BY <2>1, <2>2
<1>4. CASE Spawn
  <2>1. /\ plan \in Plans /\ session \in 1..MaxSessions /\ nextWorkload <= Len(plan)
        /\ UNCHANGED <<session, plan>> /\ script' = "wait"
    BY <1>4 DEF Spawn
  <2>2. Len(plan) \in Nat \ {0}
    BY <2>1, PlanFacts
  <2>3. nextWorkload' = 1 \/ (nextWorkload < Len(plan) /\ nextWorkload' = nextWorkload + 1)
    BY <1>4 DEF Spawn, Advance
  <2> QED
    BY <2>1, <2>2, <2>3
<1>5. CASE Wait
  BY <1>5 DEF Wait, loops
<1>6. CASE End
  BY <1>6 DEF End
<1>7. CASE Kill
  BY <1>7 DEF Kill
<1>8. CASE Process \/ UNCHANGED vars
  BY <1>8, ProcessStep DEF vars, scriptVars, loops, JobsLeft
<1> QED
  BY <1>1, <1>2, <1>3, <1>4, <1>5, <1>6, <1>7, <1>8 DEF Next, Script, Terminated

\* A process gets one workload, or all of a plan.
LEMMA JobStep ==
  ASSUME SessionInv, [Next]_vars
  PROVE  JobInv'
<1> USE DEF SessionInv, TypeOK, JobInv
<1>1. CASE Spawn
  <2>1. plan \in Plans /\ nextWorkload \in 1..Len(plan)
    BY <1>1, PlanFacts DEF Spawn, ScriptInv
  <2>2. job'.names = IF drop_caches THEN << plan[nextWorkload] >> ELSE plan
    BY <1>1 DEF Spawn, NextJob, Job
  <2>3. drop_caches' = drop_caches
    BY <1>1 DEF Spawn
  <2>4. CASE drop_caches
    BY <2>2, <2>4
  <2>5. CASE ~drop_caches
    <3> HIDE DEF SessionInv, TypeOK
    <3>1. job'.names = plan /\ ~drop_caches'
      BY <2>2, <2>3, <2>5
    <3>2. Len(plan) > 0 /\ \A i, j \in 1..Len(plan) : plan[i] = plan[j] => i = j
      BY <2>1, PlanFacts
    <3> QED
      BY <3>1, <3>2
  <2> QED
    BY <2>4, <2>5
<1>2. CASE Begin \/ Cleanup \/ DropSystemCaches \/ Wait \/ End \/ Kill
  <2>1. UNCHANGED <<drop_caches, job>> /\ main' \in {main, "none"}
    BY <1>2 DEF Begin, Cleanup, DropSystemCaches, Wait, End, Kill, processVars
  <2> QED
    BY <2>1, Zenon
<1>3. CASE Process
  <2>1. UNCHANGED <<drop_caches, job>> /\ main # "none"
    BY <1>3, ProcessStep
       DEF scriptVars, Process, RemoveOld, Run, Measure, Finalize, Fail, Merge, Update,
           Truncate, Write, RemoveMerged
  <2> QED
    BY <2>1, Zenon
<1>4. CASE UNCHANGED vars
  BY <1>4 DEF vars, scriptVars, processVars
<1> QED
  BY <1>1, <1>2, <1>3, <1>4 DEF Next, Script, Terminated

\* A process measures the workloads of its job in their order, all before it merges.
LEMMA MeasuredStep ==
  ASSUME SessionInv, [Next]_vars
  PROVE  MeasuredInv'
<1> USE DEF SessionInv, TypeOK, MeasuredInv, NewResult
<1>1. CASE Begin
  BY <1>1 DEF Begin, processVars
<1>2. CASE Spawn
  <2>1. main' = "start" /\ measured' = << >> /\ job'.names \in Seq(Names)
    BY <1>2, TypeStep DEF Spawn
  <2> QED
    BY <2>1
<1>3. CASE Kill \/ Wait \/ Fail \/ RemoveMerged \/ Write
  <2>1. main' \in {"none", "exit", "remove"}
    BY <1>3 DEF Kill, Wait, Fail, RemoveMerged, Write
  <2> QED
    BY <2>1
<1>4. CASE Cleanup \/ DropSystemCaches \/ End
  <2>1. UNCHANGED <<processVars, session, progress>>
    BY <1>4 DEF Cleanup, DropSystemCaches, End, fileVars
  <2> QED
    BY <2>1 DEF processVars
<1>5. CASE RemoveOld \/ Run
  <2>1. /\ main \in {"start", "prepare"} /\ main' \in {"prepare", "run"}
        /\ UNCHANGED <<measured, job, session>>
    BY <1>5 DEF RemoveOld, Run, scriptVars
  <2> QED
    BY <2>1
<1>6. CASE Measure
  <2>1. /\ main = "run" /\ main' = "run" /\ UNCHANGED <<job, session>>
        /\ measured' = Append(measured, NewResult(job.names[Len(measured) + 1]))
        /\ Len(measured) < Len(job.names)
    BY <1>6 DEF Measure, scriptVars
  <2>2. /\ Len(measured') = Len(measured) + 1
        /\ \A i \in 1..Len(measured') :
             measured'[i] = IF i = Len(measured) + 1 THEN NewResult(job.names[i]) ELSE measured[i]
    BY <2>1
  <2>3. Len(job.names) \in Nat /\ Len(measured) \in Nat
    OBVIOUS
  <2>4. \A i \in 1..Len(measured') : measured'[i] = NewResult(job.names[i])
    BY <2>1, <2>2, <2>3
  <2> QED
    BY <2>1, <2>2, <2>3, <2>4
<1>7. CASE Finalize
  <2>1. /\ main = "run" /\ main' = "merge" /\ UNCHANGED <<measured, job, session>>
        /\ Len(measured) = Len(job.names)
        /\ progress' = [progress EXCEPT ![job.target] = Whole(measured)]
    BY <1>7 DEF Finalize, scriptVars
  <2>2. progress'[job.target] = Whole(measured)
    BY <2>1
  <2> QED
    BY <2>1, <2>2
<1>8. CASE Merge \/ Update \/ Truncate
  <2>1. main \in {"merge", "update"} /\ UNCHANGED <<measured, job, session, progress>>
    BY <1>8 DEF Merge, Update, Truncate, Merged, scriptVars, fileVars
  <2>2. UNCHANGED Whole(measured)
    BY <2>1
  <2> QED
    BY <2>1, <2>2
<1>9. CASE UNCHANGED vars
  BY <1>9 DEF vars, scriptVars, processVars, fileVars
<1> QED
  BY <1>1, <1>2, <1>3, <1>4, <1>5, <1>6, <1>7, <1>8, <1>9
     DEF Next, Script, Process, Terminated

\* The databases get data of no session but the one that runs.
LEMMA EmptyStep ==
  ASSUME SessionInv, [Next]_vars
  PROVE  EmptyInv'
<1> USE DEF SessionInv, TypeOK, EmptyInv
<1>1. CASE Begin
  BY <1>1 DEF Begin
<1>2. CASE Cleanup
  BY <1>2 DEF Cleanup
<1>3. CASE DropSystemCaches \/ Spawn \/ Wait
  <2>1. script \in {"next", "spawn", "wait"} /\ UNCHANGED <<plan, session, dataOf>>
    BY <1>3 DEF DropSystemCaches, Spawn, Wait
  <2> QED
    BY <2>1
<1>4. CASE End \/ Kill
  BY <1>4 DEF End, Kill
<1>5. CASE Process
  <2>1. script = "wait" /\ UNCHANGED <<script, plan, session>> /\ job.target \in Targets
    BY <1>5, ProcessStep DEF scriptVars
  <2>2. \/ dataOf' = [dataOf EXCEPT ![job.target] = @ \cup {session}]
        \/ dataOf' = dataOf
    BY <1>5 DEF Process, RemoveOld, Run, Measure, Finalize, Fail, Merge, Update,
                Truncate, Write, RemoveMerged
  <2>3. \A t \in Targets : dataOf'[t] \subseteq dataOf[t] \cup {session}
    BY <2>1, <2>2
  <2> QED
    BY <2>1, <2>3
<1>6. CASE UNCHANGED vars
  BY <1>6 DEF vars, scriptVars
<1> QED
  BY <1>1, <1>2, <1>3, <1>4, <1>5, <1>6 DEF Next, Script, Terminated

\* Caches are cold when a process is spawned and until it runs.
LEMMA ColdStep ==
  ASSUME SessionInv, ColdInv, ~InDocker, [Next]_vars
  PROVE  ColdInv'
<1> USE DEF ColdInv
<1>0. main # "none" <=> script = "wait"
  BY DEF SessionInv, TypeOK
<1>1. CASE DropSystemCaches
  <2>1. CASE drop_caches
    BY <1>1, <2>1, Zenon DEF DropSystemCaches
  <2>2. CASE ~drop_caches
    BY <1>1, <2>2, Zenon DEF DropSystemCaches
  <2> QED
    BY <2>1, <2>2
<1>2. CASE Spawn
  <2>1. script = "spawn" /\ UNCHANGED <<drop_caches, warm>>
    BY <1>2, Zenon DEF Spawn
  <2> QED
    BY <2>1, Zenon
<1>3. CASE Begin \/ Cleanup \/ Wait \/ End \/ Kill
  <2>1. script' # "spawn" /\ main' \notin {"start", "prepare"}
    BY <1>0, <1>3 DEF Begin, Cleanup, Wait, End, Kill, processVars
  <2> QED
    BY <2>1
<1>4. CASE RemoveOld
  <2>1. main = "start" /\ UNCHANGED <<drop_caches, warm>>
    BY <1>4, Zenon DEF RemoveOld, scriptVars
  <2> QED
    BY <2>1, Zenon
<1>5. CASE Run \/ Measure \/ Finalize \/ Fail \/ Merge \/ Update \/ Truncate \/ Write
           \/ RemoveMerged
  <2>1. main # "none" /\ script' = script
    BY <1>5, ProcessStep DEF Process, scriptVars
  <2>2. main' \in {"run", "exit"} \/ main' \in {"merge", "update", "write", "remove"}
    <3>1. CASE Run \/ Measure \/ Finalize \/ Fail \/ RemoveMerged
      BY <3>1 DEF Run, Measure, Finalize, Fail, RemoveMerged
    <3>2. CASE Update \/ Truncate \/ Write
      BY <3>2 DEF Update, Truncate, Merged, Write
    <3>3. CASE Merge
      BY <3>3, MergeCases DEF SessionInv
    <3> QED
      BY <1>5, <3>1, <3>2, <3>3
  <2> QED
    BY <1>0, <2>1, <2>2
<1>6. CASE UNCHANGED vars
  <2>1. UNCHANGED <<drop_caches, warm, main, script>>
    BY <1>6, Zenon DEF vars, scriptVars, processVars
  <2> QED
    BY <2>1, Zenon
<1> QED
  BY <1>1, <1>2, <1>3, <1>4, <1>5, <1>6 DEF Next, Script, Process, Terminated

-----------------------------------------------------------------------------
(***************************************************************************)
(* The merge, and the results files.                                       *)
(***************************************************************************)

\* Steps of the script end the process or start one.
LEMMA ScriptLeavesFiles ==
  ASSUME TypeOK, Script
  PROVE  /\ main' \in {"none", "start"}
         /\ final' = final /\ latest' = latest /\ session' >= session
<1>1. session' >= session
  <2>1. session' = session + 1 \/ session' = session
    BY DEF Script, Begin, Cleanup, DropSystemCaches, Spawn, Wait, End, Kill
  <2>2. session \in Nat
    BY TargetFacts DEF TypeOK
  <2> QED
    BY <2>1, <2>2
<1>2. final' = final /\ latest' = latest
  BY DEF Script, Begin, Cleanup, DropSystemCaches, Spawn, Wait, End, Kill, fileVars
<1>3. main' \in {"none", "start"}
  <2>1. CASE Begin \/ Cleanup \/ DropSystemCaches \/ End
    <3>1. script # "wait" /\ main' = main
      BY <2>1 DEF Begin, Cleanup, DropSystemCaches, End, processVars
    <3>2. main # "none" <=> script = "wait"
      BY DEF TypeOK
    <3> QED
      BY <3>1, <3>2
  <2>2. CASE Spawn \/ Wait \/ Kill
    BY <2>2 DEF Spawn, Wait, Kill
  <2> QED
    BY <2>1, <2>2 DEF Script
<1> QED
  BY <1>1, <1>2, <1>3

\* What a process merges is one result for each workload of its job.
LEMMA SourceFacts ==
  ASSUME TypeOK, ScriptInv, JobInv, MeasuredInv, main \in {"merge", "update"}
  PROVE  /\ Source \in Seq(Result) /\ Len(Source) = Len(job.names)
         /\ \A i \in 1..Len(Source) : Source[i] = NewResult(job.names[i])
         /\ \A i, j \in 1..Len(Source) : job.names[i] = job.names[j] => i = j
<1>1. Source \in Seq(Result)
  BY ProcessFacts
<1>2. Source = measured
  BY DEF MeasuredInv, Source, Whole
<1>3. /\ Len(measured) = Len(job.names)
      /\ \A i \in 1..Len(measured) : measured[i] = NewResult(job.names[i])
  BY DEF MeasuredInv
<1>4. \A i, j \in 1..Len(job.names) : job.names[i] = job.names[j] => i = j
  BY DEF JobInv
<1> QED
  BY <1>1, <1>2, <1>3, <1>4

\* New results of workloads that differ are one result for each of them.
LEMMA NewResults ==
  ASSUME NEW rs \in Seq(Result), NEW names,
         \A i \in 1..Len(rs) : rs[i] = NewResult(names[i]),
         \A i, j \in 1..Len(rs) : names[i] = names[j] => i = j
  PROVE  /\ OncePerName(rs)
         /\ \A n \in Names :
              ResultsOf(rs, n) = IF \E i \in 1..Len(rs) : names[i] = n
                                 THEN {NewResult(n)} ELSE {}
<1>0. \A n : NewResult(n).name = n
  BY DEF NewResult
<1>1. \A i \in 1..Len(rs) : rs[i].name = names[i]
  BY <1>0
<1>2. OncePerName(rs)
  BY <1>1 DEF OncePerName
<1>3. ASSUME NEW n \in Names
      PROVE  ResultsOf(rs, n) = IF \E i \in 1..Len(rs) : names[i] = n
                                THEN {NewResult(n)} ELSE {}
  <2>1. CASE \E i \in 1..Len(rs) : names[i] = n
    <3>1. PICK i \in 1..Len(rs) : names[i] = n
      BY <2>1
    <3>2. NewResult(n) \in ResultsOf(rs, n)
      BY <3>1, <1>1 DEF ResultsOf
    <3>3. \A x \in ResultsOf(rs, n) : x = NewResult(n)
      BY <1>1 DEF ResultsOf
    <3> QED
      BY <2>1, <3>2, <3>3
  <2>2. CASE ~\E i \in 1..Len(rs) : names[i] = n
    BY <2>2, <1>1 DEF ResultsOf
  <2> QED
    BY <2>1, <2>2
<1> QED
  BY <1>2, <1>3

\* The merge takes one new result after the other, and leaves the rest as it was.
LEMMA MergeStep ==
  ASSUME SessionInv, [Next]_vars
  PROVE  MergeInv'
<1> USE DEF SessionInv
<1>1. CASE Script
  <2>1. main' # "update"
    BY <1>1, ScriptLeavesFiles
  <2> QED
    BY <2>1 DEF MergeInv
<1>2. CASE RemoveOld \/ Run \/ Measure \/ Finalize \/ Fail \/ Truncate \/ Write \/ RemoveMerged
  <2>1. main' # "update"
    BY <1>2 DEF RemoveOld, Run, Measure, Finalize, Fail, Truncate, Write, RemoveMerged
  <2> QED
    BY <2>1 DEF MergeInv
<1>3. CASE Merge
  <2>1. main = "merge" /\ UNCHANGED <<job, session, final, progress>>
    BY <1>3 DEF Merge, scriptVars, fileVars
  <2>2. /\ job.target \in Targets
        /\ final[job.target].state = "none" => final[job.target].results = << >>
        /\ final[job.target].state # "torn" => OncePerName(final[job.target].results)
    BY <2>1, ProcessFacts DEF KeptInv, FileKept, Keeps
  <2>3. Source' = Source /\ Source \in Seq(Result)
    BY <2>1, SourceFacts DEF Source
  <2>4. \A n \in Names : NewResult(n)' = NewResult(n)
    BY <2>1 DEF NewResult
  <2>5. CASE final[job.target].state = "torn"
    BY <1>3, <2>5, MergeCases DEF MergeInv
  <2>6. CASE final[job.target].state = "none"
    <3>1. merged' = Source /\ updated' = Len(Source)
      BY <1>3, <2>6, MergeCases
    <3>2. \A n \in Names : ResultsOf(final[job.target].results, n) = {}
      BY <2>2, <2>6, NoResults
    <3>3. OncePerName(Source)
          /\ \A n \in Names :
              ResultsOf(Source, n) = IF \E i \in 1..Len(Source) : job.names[i] = n
                                     THEN {NewResult(n)} ELSE {}
      BY <2>1, SourceFacts, NewResults
    <3>4. Len(Source) \in Nat
      BY <2>3
    <3>5. /\ updated' <= Len(Source') /\ OncePerName(merged')
          /\ final'[job'.target].state # "torn"
      BY <2>1, <2>3, <2>6, <3>1, <3>3, <3>4
    <3>6. \A n \in Names : ResultsOf(merged', n) = IF \E i \in 1..updated' : job'.names[i] = n
                                                   THEN {NewResult(n)}
                                                   ELSE ResultsOf(final'[job'.target].results, n)
      BY <2>1, <3>1, <3>2, <3>3
    <3> QED
      BY <2>3, <2>4, <3>5, <3>6 DEF MergeInv
  <2>7. CASE final[job.target].state = "whole"
    <3>1. merged' = final[job.target].results /\ updated' = 0
      BY <1>3, <2>7, MergeCases
    <3> QED
      BY <2>1, <2>2, <2>3, <2>7, <3>1 DEF MergeInv
  <2> QED
    BY <1>3, <2>5, <2>6, <2>7, MergeCases
<1>4. CASE Update
  <2>1. /\ main = "update" /\ updated < Len(Source)
        /\ UNCHANGED <<job, session, final, progress>>
        /\ updated' = updated + 1 /\ merged' = Updated(merged, Source[updated + 1])
    BY <1>4 DEF Update, scriptVars, fileVars
  <2>2. Source' = Source /\ Source \in Seq(Result) /\ updated \in Nat /\ merged \in Seq(Result)
    BY <2>1, SourceFacts DEF Source, TypeOK
  <2>3. \A n \in Names : NewResult(n)' = NewResult(n)
    BY <2>1 DEF NewResult
  <2>4. updated + 1 \in 1..Len(Source)
    BY <2>1, <2>2
  <2> DEFINE r == Source[updated + 1]
             old(n) == ResultsOf(final[job.target].results, n)
             done(k, n) == \E i \in 1..k : job.names[i] = n
  <2>5. r \in Result /\ r = NewResult(job.names[updated + 1])
    BY <2>1, <2>2, <2>4, SourceFacts
  <2>6. /\ OncePerName(merged) /\ final[job.target].state # "torn"
        /\ \A n \in Names :
             ResultsOf(merged, n) = IF done(updated, n) THEN {NewResult(n)} ELSE old(n)
    BY <2>1 DEF MergeInv
  <2>7. /\ OncePerName(merged')
        /\ \A n \in Names :
             ResultsOf(merged', n) = IF n = r.name THEN {r} ELSE ResultsOf(merged, n)
    BY <2>1, <2>2, <2>5, <2>6, UpdatedOnce
  <2>8. r.name = job.names[updated + 1]
    BY <2>5 DEF NewResult
  <2>9. \A n : done(updated + 1, n) <=> done(updated, n) \/ n = r.name
    BY <2>2, <2>8
  <2>10. \A n \in Names : n = r.name => {r} = {NewResult(n)}
    BY <2>5, <2>8
  <2> HIDE DEF r, old, done
  <2>11. \A n \in Names :
           ResultsOf(merged', n) = IF done(updated + 1, n) THEN {NewResult(n)} ELSE old(n)
    BY <2>6, <2>7, <2>9, <2>10
  <2>12. /\ updated' = updated + 1 /\ updated + 1 <= Len(Source')
         /\ final'[job'.target].state # "torn"
         /\ \A n \in Names : ResultsOf(final'[job'.target].results, n) = old(n)
         /\ \A n \in Names : (\E i \in 1..updated' : job'.names[i] = n) <=> done(updated + 1, n)
    BY <2>1, <2>2, <2>4, <2>6 DEF old, done
  <2> QED
    BY <2>3, <2>7, <2>11, <2>12 DEF MergeInv
<1>5. CASE UNCHANGED vars
  <2>1. UNCHANGED <<main, job, session, final, progress, merged, updated>>
    BY <1>5 DEF vars, scriptVars, processVars, fileVars
  <2> QED
    BY <2>1 DEF MergeInv, Source, NewResult
<1> QED
  BY <1>1, <1>2, <1>3, <1>4, <1>5 DEF Next, Process, Terminated

\* A whole results file keeps, for every workload, the result of the last process
\* that ended well or a newer one.
LEMMA KeptStep ==
  ASSUME SessionInv, [Next]_vars
  PROVE  KeptInv'
<1> USE DEF SessionInv
<1>1. ASSUME NEW t \in Targets
      PROVE  \A n \in Names : latest[t][n] \in Nat
  BY TargetFacts DEF TypeOK
<1>2. session \in Nat
  BY TargetFacts DEF TypeOK
<1>3. ASSUME final' = final, latest' = latest, session' \in Nat, session' >= session
      PROVE  \A t \in Targets : FileKept(t)'
  <2>1. \A t \in Targets : \A n \in Names : latest[t][n] <= session
    BY DEF KeptInv, FileKept
  <2>2. \A t \in Targets : \A n \in Names : latest[t][n] <= session'
    BY <1>1, <1>2, <1>3, <2>1
  <2> QED
    BY <1>3, <2>2 DEF KeptInv, FileKept, Keeps
<1>4. CASE Script
  <2>1. session' \in Nat
    BY <1>4, TypeStep, TargetFacts DEF TypeOK
  <2>2. main' \notin {"write", "remove"}
    BY <1>4, ScriptLeavesFiles
  <2>3. final' = final /\ latest' = latest /\ session' >= session
    BY <1>4, ScriptLeavesFiles
  <2> QED
    BY <1>3, <2>1, <2>2, <2>3 DEF KeptInv
<1>5. CASE RemoveOld \/ Run \/ Measure \/ Finalize \/ Fail \/ Merge \/ Update
  <2>1. final' = final /\ latest' = latest /\ session' = session
    BY <1>5 DEF RemoveOld, Run, Measure, Finalize, Fail, Merge, Update, scriptVars, fileVars
  <2>2. main' \notin {"write", "remove"}
    <3>1. CASE RemoveOld \/ Run \/ Measure \/ Finalize \/ Fail \/ Update
      BY <3>1 DEF RemoveOld, Run, Measure, Finalize, Fail, Update
    <3>2. CASE Merge
      BY <3>2, MergeCases
    <3> QED
      BY <1>5, <3>1, <3>2
  <2> QED
    BY <1>2, <1>3, <2>1, <2>2 DEF KeptInv
<1>6. CASE Truncate
  <2>1. /\ main = "update" /\ updated = Len(Source) /\ main' = "write"
        /\ final' = [final EXCEPT ![job.target] = Torn]
        /\ UNCHANGED <<job, merged, latest, session>>
    BY <1>6 DEF Truncate, Merged, scriptVars
  <2>2. job.target \in Targets /\ job.names \in Seq(Names)
    BY <2>1, ProcessFacts
  <2>3. final'[job.target] = Torn /\ \A t \in Targets : t # job.target => final'[t] = final[t]
    BY <2>1, <2>2 DEF TypeOK
  <2> DEFINE old == final[job.target].results
             done(n) == \E i \in 1..Len(job.names) : job.names[i] = n
  <2>4. updated = Len(job.names)
    BY <2>1, SourceFacts
  <2>5. /\ OncePerName(merged) /\ final[job.target].state # "torn"
        /\ \A n \in Names :
             ResultsOf(merged, n) = IF done(n) THEN {NewResult(n)} ELSE ResultsOf(old, n)
    BY <2>1, <2>4 DEF MergeInv
  <2>6. Keeps(job.target, old)
    BY <2>2, <2>5 DEF KeptInv, FileKept
  <2>7. \A n \in Names : latest[job.target][n] <= session
    BY <2>2 DEF KeptInv, FileKept
  <2>8. HasNew(merged)
    <3> SUFFICES ASSUME NEW k \in 1..Len(job.names)
                 PROVE  \E i \in 1..Len(merged) : merged[i] = NewResult(job.names[k])
      BY DEF HasNew
    <3>1. job.names[k] \in Names /\ done(job.names[k])
      BY <2>2
    <3>2. NewResult(job.names[k]) \in ResultsOf(merged, job.names[k])
      BY <2>5, <3>1
    <3> QED
      BY <3>2 DEF ResultsOf
  <2>9. ASSUME NEW n \in Names, latest[job.target][n] > 0
        PROVE  \E i \in 1..Len(merged) :
                 merged[i].name = n /\ merged[i].session >= latest[job.target][n]
    <3>1. CASE done(n)
      <4>1. NewResult(n) \in ResultsOf(merged, n)
        BY <2>5, <3>1
      <4>2. PICK i \in 1..Len(merged) : merged[i] = NewResult(n)
        BY <4>1 DEF ResultsOf
      <4>3. merged[i].name = n /\ merged[i].session = session
        BY <4>2 DEF NewResult
      <4> QED
        BY <1>1, <1>2, <2>2, <2>7, <4>3
    <3>2. CASE ~done(n)
      <4>1. PICK i \in 1..Len(old) : old[i].name = n /\ old[i].session >= latest[job.target][n]
        BY <2>6, <2>9 DEF Keeps
      <4>2. old[i] \in ResultsOf(merged, n)
        BY <2>5, <3>2, <4>1 DEF ResultsOf
      <4>3. PICK j \in 1..Len(merged) : merged[j] = old[i]
        BY <4>2 DEF ResultsOf
      <4> QED
        BY <4>1, <4>3
    <3> QED
      BY <3>1, <3>2
  <2>10. Keeps(job.target, merged)
    BY <2>5, <2>9 DEF Keeps
  <2>11. ASSUME NEW t \in Targets
         PROVE  FileKept(t)'
    <3>1. CASE t = job.target
      BY <2>1, <2>3, <2>7, <3>1 DEF Torn, FileKept
    <3>2. CASE t # job.target
      BY <2>1, <2>3, <3>2 DEF KeptInv, FileKept, Keeps
    <3> QED
      BY <3>1, <3>2
  <2>12. Keeps(job.target, merged)' /\ HasNew(merged)' /\ final'[job'.target].state = "torn"
    BY <2>1, <2>3, <2>8, <2>10 DEF Keeps, HasNew, NewResult, Torn
  <2> QED
    BY <2>1, <2>11, <2>12 DEF KeptInv
<1>7. CASE Write
  <2>1. /\ main = "write" /\ main' = "remove"
        /\ UNCHANGED <<job, merged, latest, session>>
    BY <1>7, Zenon DEF Write, scriptVars
  <2>2. final' = [final EXCEPT ![job.target] = Whole(merged)] \/ final' = final
    BY <1>7, Zenon DEF Write
  <2>3. job.target \in Targets
    BY <2>1, ProcessFacts
  <2>4. /\ final[job.target].state = "torn"
        /\ Keeps(job.target, merged) /\ HasNew(merged)
    BY <2>1 DEF KeptInv
  <2>5. CASE final' = final
    <3>1. ~(final'[job'.target].state # "torn")
      BY <2>1, <2>4, <2>5
    <3> QED
      BY <1>2, <1>3, <2>1, <2>5, <3>1 DEF KeptInv
  <2>6. CASE final' = [final EXCEPT ![job.target] = Whole(merged)]
    <3>1. final'[job.target] = Whole(merged)
          /\ \A t \in Targets : t # job.target => final'[t] = final[t]
      BY <2>3, <2>6 DEF TypeOK
    <3>2. final'[job.target].results = merged /\ final'[job.target].state = "whole"
      BY <3>1 DEF Whole
    <3>3. ASSUME NEW t \in Targets
          PROVE  FileKept(t)'
      <4>1. CASE t = job.target
        BY <2>1, <2>3, <2>4, <3>2, <4>1 DEF Keeps, KeptInv, FileKept
      <4>2. CASE t # job.target
        BY <2>1, <3>1, <4>2 DEF KeptInv, FileKept, Keeps
      <4> QED
        BY <4>1, <4>2
    <3>4. HasNew(final[job.target].results)'
      BY <2>1, <2>4, <3>2 DEF HasNew, NewResult
    <3> QED
      BY <2>1, <3>3, <3>4 DEF KeptInv
  <2> QED
    BY <2>2, <2>5, <2>6
<1>8. CASE RemoveMerged
  <2> DEFINE done(n) == \E i \in 1..Len(job.names) : job.names[i] = n
  <2>1. /\ main = "remove" /\ main' = "exit"
        /\ UNCHANGED <<final, session>>
        /\ latest' = [latest EXCEPT ![job.target] =
                        [n \in Names |-> IF done(n) THEN session ELSE @[n]]]
    BY <1>8 DEF RemoveMerged, scriptVars
  <2>2. job.target \in Targets
    BY <2>1, ProcessFacts
  <2>3. /\ final[job.target].state # "torn" => HasNew(final[job.target].results)
        /\ \A n \in Names : latest[job.target][n] <= session
    BY <2>1, <2>2 DEF KeptInv, FileKept
  <2>4. /\ \A n \in Names :
             latest'[job.target][n] = IF done(n) THEN session ELSE latest[job.target][n]
        /\ \A t \in Targets : t # job.target => latest'[t] = latest[t]
    BY <2>1, <2>2 DEF TypeOK
  <2>5. ASSUME final[job.target].state # "torn"
        PROVE  Keeps(job.target, final[job.target].results)'
    <3> DEFINE rs == final[job.target].results
    <3>1. OncePerName(rs) /\ HasNew(rs)
      BY <2>2, <2>3, <2>5 DEF KeptInv, FileKept, Keeps
    <3>2. ASSUME NEW n \in Names, latest'[job.target][n] > 0
          PROVE  \E i \in 1..Len(rs) : rs[i].name = n /\ rs[i].session >= latest'[job.target][n]
      <4>1. CASE done(n)
        <5>1. PICK i \in 1..Len(rs) : rs[i] = NewResult(n)
          BY <3>1, <4>1 DEF HasNew
        <5>2. rs[i].name = n /\ rs[i].session = session
          BY <5>1 DEF NewResult
        <5> QED
          BY <1>2, <2>4, <4>1, <5>2
      <4>2. CASE ~done(n)
        BY <2>2, <2>4, <2>5, <3>2, <4>2 DEF KeptInv, FileKept, Keeps
      <4> QED
        BY <4>1, <4>2
    <3>3. job' = job
      BY <1>8 DEF RemoveMerged
    <3> QED
      BY <2>1, <3>1, <3>2, <3>3 DEF Keeps
  <2>6. ASSUME NEW t \in Targets
        PROVE  FileKept(t)'
    <3>1. CASE t = job.target
      <4>1. \A n \in Names : latest'[t][n] <= session'
        BY <1>2, <2>1, <2>3, <2>4, <3>1
      <4>2. job' = job
        BY <1>8 DEF RemoveMerged
      <4> QED
        BY <2>1, <2>5, <3>1, <4>1, <4>2 DEF KeptInv, FileKept
    <3>2. CASE t # job.target
      BY <2>1, <2>4, <3>2 DEF KeptInv, FileKept, Keeps
    <3> QED
      BY <3>1, <3>2
  <2> QED
    BY <2>1, <2>6 DEF KeptInv
<1>9. CASE UNCHANGED vars
  <2>1. UNCHANGED <<main, job, session, final, latest, merged>>
    BY <1>9 DEF vars, scriptVars, processVars, fileVars
  <2> QED
    BY <2>1 DEF KeptInv, FileKept, Keeps, HasNew, NewResult
<1> QED
  BY <1>4, <1>5, <1>6, <1>7, <1>8, <1>9 DEF Next, Process, Terminated
-----------------------------------------------------------------------------
(***************************************************************************)
(* The theorems.                                                           *)
(***************************************************************************)

\* The inductive invariant: the script's loops stay within the plan and the
\* targets, a process measures what it was asked to, the merge replaces results
\* one by one, and the results files keep what was merged before.
THEOREM SessionInvariant == Spec => []SessionInv
<1>1. Init => SessionInv
  BY SessionInit
<1>2. SessionInv /\ [Next]_vars => SessionInv'
  BY TypeStep, ScriptStep, JobStep, MeasuredStep, MergeStep, KeptStep, EmptyStep
     DEF SessionInv
<1> QED
  BY <1>1, <1>2, PTL DEF Spec

\* The variables have their types: the results files hold results, and a process
\* runs exactly while run.py waits for it.
THEOREM TypeCorrect == Spec => []TypeOK
<1>1. SessionInv => TypeOK
  BY DEF SessionInv
<1> QED
  BY <1>1, SessionInvariant, PTL

\* merge_results leaves one result for every workload this process has run, and
\* those of all other workloads as they were.
THEOREM MergeIsUpdateAlways == Spec => []MergeIsUpdate
<1>1. SessionInv => MergeIsUpdate
  <2> SUFFICES ASSUME SessionInv, Merged
               PROVE  MergeIsUpdate
    BY DEF MergeIsUpdate
  <2>1. main = "update" /\ updated = Len(Source)
    BY DEF Merged
  <2>2. Len(Source) = Len(job.names)
    BY <2>1, SourceFacts DEF SessionInv
  <2>3. \A n \in Names : ResultsOf(merged, n) = IF \E i \in 1..Len(job.names) : job.names[i] = n
                                                THEN {NewResult(n)}
                                                ELSE ResultsOf(final[job.target].results, n)
    BY <2>1, <2>2 DEF SessionInv, MergeInv
  <2> QED
    BY <2>3 DEF MergeIsUpdate, NewResult
<1> QED
  BY <1>1, SessionInvariant, PTL

\* A results file that is not torn holds one result of a workload at most, and for
\* every workload the one of the last process that ended well or a newer one.
THEOREM ResultsKeptAlways == Spec => []ResultsKept
<1>1. SessionInv => ResultsKept
  <2> SUFFICES ASSUME SessionInv,
                      NEW t \in Targets, final[t].state # "torn",
                      NEW n \in Names
               PROVE  /\ Cardinality({i \in 1..Len(final[t].results) :
                                        final[t].results[i].name = n}) <= 1
                      /\ latest[t][n] > 0 =>
                           \E i \in {j \in 1..Len(final[t].results) :
                                       final[t].results[j].name = n} :
                             final[t].results[i].session >= latest[t][n]
    BY DEF ResultsKept
  <2> DEFINE rs == final[t].results
             places == {i \in 1..Len(rs) : rs[i].name = n}
  <2>1. Keeps(t, rs)
    BY DEF SessionInv, KeptInv, FileKept
  <2>2. Cardinality(places) <= 1
    <3>1. CASE places = {}
      <4>1. Cardinality(places) = 0
        BY <3>1, FS_EmptySet
      <4> QED
        BY <4>1
    <3>2. CASE places # {}
      <4>1. PICK k \in places : TRUE
        BY <3>2
      <4>2. \A j \in places : j = k
        BY <2>1, <4>1 DEF Keeps, OncePerName
      <4>3. places = {k}
        BY <4>1, <4>2
      <4>4. Cardinality({k}) = 1
        BY FS_Singleton
      <4>5. Cardinality(places) = 1
        BY <4>3, <4>4, Zenon
      <4> QED
        BY <4>5
    <3> QED
      BY <3>1, <3>2
  <2>3. ASSUME latest[t][n] > 0
        PROVE  \E i \in places : rs[i].session >= latest[t][n]
    BY <2>1, <2>3 DEF Keeps
  <2> QED
    BY <2>2, <2>3
<1> QED
  BY <1>1, SessionInvariant, PTL

\* A session that starts with Init finds no data of a session before, whatever
\* was killed: run.py removes all directories before it spawns a process.
THEOREM InitStartsEmptyAlways == Spec => []InitStartsEmpty
<1>1. SessionInv => InitStartsEmpty
  <2> SUFFICES ASSUME SessionInv, main # "none", plan[1] = "Init"
               PROVE  dataOf[job.target] \subseteq {session}
    BY DEF InitStartsEmpty
  <2>1. script = "wait" /\ job.target \in Targets
    BY ProcessFacts DEF SessionInv
  <2> QED
    BY <2>1 DEF SessionInv, EmptyInv
<1> QED
  BY <1>1, SessionInvariant, PTL

\* Outside of docker every workload begins in a process of its own with cold
\* caches when the user asks for that; in docker run.py drops no caches.
THEOREM IsolatedOutsideDocker == ~InDocker => (Spec => []IsolatedWhenAsked)
<1> SUFFICES ASSUME ~InDocker
             PROVE  Spec => []IsolatedWhenAsked
  OBVIOUS
<1>1. Init => ColdInv
  BY SessionInit
<1>2. SessionInv /\ ColdInv /\ [Next]_vars => ColdInv'
  BY ColdStep
<1>3. SessionInv /\ ColdInv => IsolatedWhenAsked
  <2> SUFFICES ASSUME SessionInv, ColdInv, drop_caches, main \in {"start", "prepare"}
               PROVE  Len(job.names) = 1 /\ ~warm
    BY DEF IsolatedWhenAsked
  <2>1. Len(job.names) = 1
    BY DEF SessionInv, JobInv
  <2>2. ~warm
    BY DEF ColdInv
  <2> QED
    BY <2>1, <2>2
<1> QED
  BY <1>1, <1>2, <1>3, SessionInvariant, PTL DEF Spec
=============================================================================
