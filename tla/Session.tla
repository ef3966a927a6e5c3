------------------------------- MODULE Session -------------------------------
(***************************************************************************)
(* Benchmark sessions: a user starts run.py again and again; it cleans up, *)
(* spawns ucsb_bench for one or for all workloads of each database, and    *)
(* every ucsb_bench merges what it has measured into the results file of   *)
(* the database (main in bench.cxx, file_reporter_t in reporter.hpp).      *)
(* Processes fail and are killed at any point; the files stay.             *)
(*                                                                         *)
(* A target is a database with a size: it has a directory and a results    *)
(* file of its own.  A result is the name of its workload and the session  *)
(* it was measured in.                                                     *)
(***************************************************************************)
EXTENDS Integers, Sequences, FiniteSets

CONSTANTS
  TargetList,      \* the targets, in the order of the script's loops
  Plans,           \* workload_names a user may ask for, each name once
  Modes,           \* the values of drop_caches that are tried
  InDocker,        \* run_in_docker_container
  DiskMayFail,     \* may writing the results file fail?
  MaxSessions      \* bound of the sessions

Targets == {TargetList[i] : i \in 1..Len(TargetList)}
Names   == UNION {{p[i] : i \in 1..Len(p)} : p \in Plans}

ASSUME SessionAssumption ==
  /\ TargetList \in Seq(Targets) /\ Len(TargetList) > 0
  /\ Cardinality(Targets) = Len(TargetList)
  /\ \A p \in Plans : /\ p \in Seq(Names) /\ Len(p) > 0
                      /\ \A i, j \in 1..Len(p) : p[i] = p[j] => i = j
  /\ Modes \subseteq BOOLEAN /\ InDocker \in BOOLEAN /\ DiskMayFail \in BOOLEAN
  /\ MaxSessions \in Nat

VARIABLES
  \* run.py; drop_caches, which has results files of its own; and where its
  \* loops over the targets and over the workloads of the plan are
  drop_caches, session, plan, nextTarget, nextWorkload, script,
  \* ucsb_bench: where it is, what it runs, what it has measured and merged,
  \* and how many of its results it has merged
  main, job, measured, merged, updated,
  \* the machine: results files, in-progress files, the sessions each database
  \* has data of, and whether the system's caches are warm
  final, progress, dataOf, warm,
  \* auxiliary: the last session that a process with a result of a workload
  \* has ended well in
  latest

loops       == <<nextTarget, nextWorkload>>
scriptVars  == <<drop_caches, session, plan, loops, script>>
processVars == <<main, job, measured, merged, updated>>
fileVars    == <<final, progress>>
vars == <<scriptVars, processVars, fileVars, dataOf, warm, latest>>

Result == [name : Names, session : 1..MaxSessions]

\* A file holds results, is not there, or is not complete and does not parse.
NoFile    == [state |-> "none", results |-> << >>]
Torn      == [state |-> "torn", results |-> << >>]
Whole(rs) == [state |-> "whole", results |-> rs]

Job(target, names) == [target |-> target, names |-> names]

\* One process for each workload when caches are dropped, or one for all.
JobsLeft == nextTarget <= Len(TargetList)
NextJob  == Job(TargetList[nextTarget], IF drop_caches THEN << plan[nextWorkload] >> ELSE plan)

\* The inner loop is left out when one process runs all workloads.
Advance ==
  IF drop_caches /\ nextWorkload < Len(plan)
  THEN nextWorkload' = nextWorkload + 1 /\ UNCHANGED nextTarget
  ELSE nextWorkload' = 1 /\ nextTarget' = nextTarget + 1

LeaveLoops == nextTarget' = Len(TargetList) + 1 /\ nextWorkload' = 1

Init ==
  /\ drop_caches \in Modes
  /\ session = 0 /\ plan = << >> /\ script = "idle"
  /\ nextTarget = Len(TargetList) + 1 /\ nextWorkload = 1
  /\ main = "none" /\ job = Job(TargetList[1], << >>)
  /\ measured = << >> /\ merged = << >> /\ updated = 0
  /\ final = [t \in Targets |-> NoFile] /\ progress = [t \in Targets |-> NoFile]
  /\ dataOf = [t \in Targets |-> {}]
  /\ warm = TRUE
  /\ latest = [t \in Targets |-> [n \in Names |-> 0]]
-----------------------------------------------------------------------------
(***************************************************************************)
(* run.py.                                                                 *)
(***************************************************************************)
Begin ==
  /\ script = "idle" /\ session < MaxSessions
  /\ session' = session + 1
  /\ nextTarget' = 1 /\ nextWorkload' = 1
  /\ \E p \in Plans : /\ plan' = p
                      /\ script' = IF p[1] = "Init" THEN "cleanup" ELSE "next"
  /\ UNCHANGED <<drop_caches, processVars, fileVars, dataOf, warm, latest>>

\* Mistake: only one of the databases is removed.
CleanupOne ==
  /\ script = "cleanup"
  /\ \E t \in Targets : dataOf' = [dataOf EXCEPT ![t] = {}]
  /\ script' = "next"
  /\ UNCHANGED <<drop_caches, session, plan, loops, processVars, fileVars, warm, latest>>

\* The directories are removed one by one; the results files stay.
Cleanup ==
  /\ script = "cleanup"
  /\ IF \A t \in Targets : dataOf[t] = {}
     THEN script' = "next" /\ UNCHANGED dataOf
     ELSE /\ \E t \in Targets : dataOf[t] # {} /\ dataOf' = [dataOf EXCEPT ![t] = {}]
          /\ UNCHANGED script
  /\ UNCHANGED <<drop_caches, session, plan, loops, processVars, fileVars, warm, latest>>

\* Mistake: caches are dropped for the first workload only.
DropForFirst ==
  /\ script = "next" /\ JobsLeft
  /\ warm' = IF drop_caches /\ ~InDocker /\ nextWorkload = 1 THEN FALSE ELSE warm
  /\ script' = "spawn"
  /\ UNCHANGED <<drop_caches, session, plan, loops, processVars, fileVars, dataOf, latest>>

\* Caches are dropped before every process that runs outside of docker.
DropSystemCaches ==
  /\ script = "next" /\ JobsLeft
  /\ warm' = IF drop_caches /\ ~InDocker THEN FALSE ELSE warm
  /\ script' = "spawn"
  /\ UNCHANGED <<drop_caches, session, plan, loops, processVars, fileVars, dataOf, latest>>

Spawn ==
  /\ script = "spawn"
  /\ job' = NextJob /\ Advance
  /\ main' = "start" /\ measured' = << >> /\ merged' = << >> /\ updated' = 0
  /\ script' = "wait"
  /\ UNCHANGED <<drop_caches, session, plan, fileVars, dataOf, warm, latest>>

\* The process is over, well or not: its exit status is not looked at.
Wait ==
  /\ script = "wait" /\ main = "exit"
  /\ main' = "none"
  /\ script' = "next"
  /\ UNCHANGED <<drop_caches, session, plan, loops, job, measured, merged, updated, fileVars,
                 dataOf, warm, latest>>

End ==
  /\ script = "next" /\ ~JobsLeft
  /\ script' = "idle"
  /\ UNCHANGED <<drop_caches, session, plan, loops, processVars, fileVars,
                 dataOf, warm, latest>>

\* Mistake: the script ends and leaves the process alone.
KillScriptOnly ==
  /\ script # "idle"
  /\ script' = "idle" /\ LeaveLoops
  /\ UNCHANGED <<drop_caches, session, plan, processVars, fileVars, dataOf, warm, latest>>

\* A signal ends the process, and with it the script; so does an exception
\* among several threads, which aborts.
Kill ==
  /\ script # "idle"
  /\ script' = "idle" /\ LeaveLoops /\ main' = "none"
  /\ UNCHANGED <<drop_caches, session, plan, job, measured, merged, updated, fileVars,
                 dataOf, warm, latest>>
-----------------------------------------------------------------------------
(***************************************************************************)
(* ucsb_bench.                                                             *)
(***************************************************************************)
RemoveOld ==
  /\ main = "start"
  /\ progress' = [progress EXCEPT ![job.target] = NoFile]
  /\ main' = "prepare"
  /\ UNCHANGED <<scriptVars, job, measured, merged, updated, final, dataOf, warm, latest>>

\* The library opens the in-progress file, which is complete only at the end.
Run ==
  /\ main = "prepare"
  /\ progress' = [progress EXCEPT ![job.target] = Torn]
  /\ main' = "run"
  /\ UNCHANGED <<scriptVars, job, measured, merged, updated, final, dataOf, warm, latest>>

\* A workload has run; the database is opened and filled on the way.
Measure ==
  /\ main = "run" /\ Len(measured) < Len(job.names)
  /\ measured' = Append(measured, [name    |-> job.names[Len(measured) + 1],
                                   session |-> session])
  /\ dataOf' = [dataOf EXCEPT ![job.target] = @ \cup {session}]
  /\ warm' = TRUE
  /\ UNCHANGED <<scriptVars, main, job, merged, updated, fileVars, latest>>

Finalize ==
  /\ main = "run" /\ Len(measured) = Len(job.names)
  /\ progress' = [progress EXCEPT ![job.target] = Whole(measured)]
  /\ main' = "merge"
  /\ UNCHANGED <<scriptVars, job, measured, merged, updated, final, dataOf, warm, latest>>

\* An exception in main, in a benchmark of a single thread, or an early return.
Fail ==
  /\ main \in {"start", "prepare", "run"}
  /\ main' = "exit"
  /\ UNCHANGED <<scriptVars, job, measured, merged, updated, fileVars, dataOf, warm, latest>>

\* Where a result of the workload of r is in rs, or one past the end.
PlaceOf(rs, r) ==
  LET same == {i \in 1..Len(rs) : rs[i].name = r.name}
  IN  IF same = {} THEN Len(rs) + 1 ELSE CHOOSE i \in same : \A j \in same : i <= j

\* Mistake: a result is always appended.
UpdatedAtEnd(rs, r) == Append(rs, r)

\* A new result takes the place of the first one of its workload, or is added.
Updated(rs, r) == [i \in 1..(IF PlaceOf(rs, r) > Len(rs) THEN Len(rs) + 1 ELSE Len(rs)) |->
                     IF i = PlaceOf(rs, r) THEN r ELSE rs[i]]

\* The results of this process, in the file the library has completed.
Source == progress[job.target].results

\* Mistake: the results that are not updated are dropped.
MergeWithoutOld ==
  /\ main = "merge"
  /\ main' = "update" /\ merged' = Source /\ updated' = Len(Source)
  /\ UNCHANGED <<scriptVars, job, measured, fileVars, dataOf, warm, latest>>

\* merge_results reads both files: one that does not parse is an exception.
\* It starts from the old results, or takes the new ones when there are none.
Merge ==
  /\ main = "merge"
  /\ LET destination == final[job.target]
     IN  CASE destination.state = "torn"  -> main' = "exit" /\ UNCHANGED <<merged, updated>>
           [] destination.state = "none"  -> /\ main' = "update"
                                             /\ merged' = Source /\ updated' = Len(Source)
           [] destination.state = "whole" -> /\ main' = "update"
                                             /\ merged' = destination.results /\ updated' = 0
  /\ UNCHANGED <<scriptVars, job, measured, fileVars, dataOf, warm, latest>>

\* The next of the new results finds its place.
Update ==
  /\ main = "update" /\ updated < Len(Source)
  /\ merged' = Updated(merged, Source[updated + 1])
  /\ updated' = updated + 1
  /\ UNCHANGED <<scriptVars, main, job, measured, fileVars, dataOf, warm, latest>>

Merged == main = "update" /\ updated = Len(Source)

\* The results file is opened for writing, which empties it.
Truncate ==
  /\ Merged
  /\ final' = [final EXCEPT ![job.target] = Torn]
  /\ main' = "write"
  /\ UNCHANGED <<scriptVars, job, measured, merged, updated, progress, dataOf, warm, latest>>

\* The state of the stream is not looked at.
Write ==
  /\ main = "write"
  /\ \/ final' = [final EXCEPT ![job.target] = Whole(merged)]
     \/ DiskMayFail /\ UNCHANGED final
  /\ main' = "remove"
  /\ UNCHANGED <<scriptVars, job, measured, merged, updated, progress, dataOf, warm, latest>>

RemoveMerged ==
  /\ main = "remove"
  /\ progress' = [progress EXCEPT ![job.target] = NoFile]
  /\ latest' = [latest EXCEPT ![job.target] =
                  [n \in Names |-> IF \E i \in 1..Len(job.names) : job.names[i] = n
                                   THEN session ELSE @[n]]]
  /\ main' = "exit"
  /\ UNCHANGED <<scriptVars, job, measured, merged, updated, final, dataOf, warm>>

Script  == Begin \/ Cleanup \/ DropSystemCaches \/ Spawn \/ Wait \/ End \/ Kill
Process == \/ RemoveOld \/ Run \/ Measure \/ Finalize \/ Fail
           \/ Merge \/ Update \/ Truncate \/ Write \/ RemoveMerged

Terminated == script = "idle" /\ session = MaxSessions /\ UNCHANGED vars

Next == Script \/ Process \/ Terminated

Spec == Init /\ [][Next]_vars
-----------------------------------------------------------------------------
File == [state : {"none", "torn", "whole"}, results : Seq(Result)]

TypeOK ==
  /\ drop_caches \in BOOLEAN
  /\ session \in 0..MaxSessions /\ plan \in Plans \cup {<< >>}
  /\ script \in {"idle", "cleanup", "next", "spawn", "wait"}
  /\ main \in {"none", "start", "prepare", "run", "merge", "update", "write", "remove",
               "exit"}
  /\ main # "none" <=> script = "wait"
  /\ nextTarget \in 1..(Len(TargetList) + 1) /\ nextWorkload \in Nat \ {0}
  /\ job \in [target : Targets, names : Seq(Names)]
  /\ measured \in Seq(Result) /\ merged \in Seq(Result) /\ updated \in Nat
  /\ final \in [Targets -> File] /\ progress \in [Targets -> File]
  /\ dataOf \in [Targets -> SUBSET (1..MaxSessions)]
  /\ warm \in BOOLEAN
  /\ latest \in [Targets -> [Names -> 0..MaxSessions]]

\* The results of the workload n in rs.
ResultsOf(rs, n) == {rs[i] : i \in {j \in 1..Len(rs) : rs[j].name = n}}

\* What a merge promises: the workloads this process has run get its results,
\* and no other ones of theirs stay; those of all other workloads are kept.
MergeIsUpdate ==
  Merged =>
    \A n \in Names :
      ResultsOf(merged, n) = IF \E i \in 1..Len(job.names) : job.names[i] = n
                             THEN {[name |-> n, session |-> session]}
                             ELSE ResultsOf(final[job.target].results, n)

\* A result of a process that has ended well stays, once, until a newer one of
\* its workload takes its place, whatever is killed; but for the results file
\* being torn by a write that does not end.
ResultsKept ==
  \A t \in Targets : final[t].state # "torn" =>
    \A n \in Names :
      LET places == {i \in 1..Len(final[t].results) : final[t].results[i].name = n}
      IN  /\ Cardinality(places) <= 1
          /\ latest[t][n] > 0 =>
               \E i \in places : final[t].results[i].session >= latest[t][n]

\* A session that starts with Init meets no data of an earlier one, not even
\* of one that was killed.
InitStartsEmpty ==
  main # "none" /\ plan[1] = "Init" => dataOf[job.target] \subseteq {session}

\* When the user asks for workload isolation, every workload begins in a process of
\* its own with cold caches, whatever was killed before.
IsolatedWhenAsked ==
  drop_caches /\ main \in {"start", "prepare"} => Len(job.names) = 1 /\ ~warm
=============================================================================
