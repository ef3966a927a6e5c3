------------------------------ MODULE WiredTiger ------------------------------
(***************************************************************************)
(* wiredtiger_t (src/src/wiredtiger/wiredtiger.hpp).  WiredTiger is        *)
(* external: a table of integers in their order (key_format=Q), worked on  *)
(* through cursors of sessions.  Every call opens its own session and      *)
(* cursor, except bulk loads, which share one bulk cursor until the flush. *)
(* A bulk cursor is given only on an empty table, takes keys in ascending  *)
(* order only, and is closed with its session.  Cursors overwrite, which   *)
(* is the engine's default: an update creates a key that is not there.     *)
(***************************************************************************)
EXTENDS Caller

VARIABLE bulk   \* bulk_load_cursor_: "none", "open", or "dangling" when it
                \* points to a cursor that was closed with its session

vars == <<mayFail, handle, workload, stage, call, reply, data, bulk>>

Init == CallerInit /\ bulk = "none"
Open == OpenDb /\ UNCHANGED <<data, bulk>>

\* The keys of a load are counted upwards (worker.hpp:330-341 and the like).
CountsOn(t) == (call'[t].kind = "bulk_load" /\ bulk = "open")
                 => (\A k \in Range(call'[t].keys), n \in data : n < k)

\* upsert and update
Put(t) ==
  /\ Called(t, {"upsert", "update"})
  /\ \/ data' = data \cup KeysOf(t) /\ Touch(t, KeysOf(t))
     \/ Broken(t, "error")
  /\ UNCHANGED <<store, call, bulk>>

\* remove: WT_NOTFOUND is fine.
Remove(t) ==
  /\ Called(t, {"remove"})
  /\ \/ data' = data \ KeysOf(t) /\ Touch(t, KeysOf(t))
     \/ Broken(t, "error")
  /\ UNCHANGED <<store, call, bulk>>

Read(t) ==
  /\ Called(t, {"read"})
  /\ \/ Key(t) \in data /\ Touch(t, KeysOf(t))
     \/ Key(t) \notin data /\ Reject(t, "not_found")
     \/ mayFail /\ \E status \in {"error", "not_found"} : Reject(t, status)
  /\ UNCHANGED <<store, call, data, bulk>>

\* batch_upsert: an insert for each key, and those that succeed are counted.  No
\* workload reads while it upserts in batches, so the loop is one step.
BatchUpsert(t) ==
  /\ Called(t, {"batch_upsert"})
  /\ \/ \E part \in IF mayFail THEN SUBSET KeysOf(t) ELSE {KeysOf(t)} :
          data' = data \cup part /\ Touch(t, part)
     \/ Broken(t, "error")
  /\ UNCHANGED <<store, call, bulk>>

BatchRead(t) ==
  /\ Called(t, {"batch_read"})
  /\ \/ \E hits \in IF mayFail THEN SUBSET KeysOf(t) ELSE {KeysOf(t)} :
          Touch(t, hits \cap data)
     \/ mayFail /\ Reject(t, "error")
  /\ UNCHANGED <<store, call, data, bulk>>

\* bulk_load: whether there is a bulk cursor is tested without a lock.
TestCursor(t) ==
  /\ Called(t, {"bulk_load"})
  /\ GoTo(t, IF bulk = "none" THEN "session" ELSE "insert")
  /\ UNCHANGED <<store, call, reply, data, bulk>>

\* A new session takes the place of the old one, which is closed.
StartSession(t) ==
  /\ stage[t] = "session"
  /\ bulk' = IF bulk = "none" THEN "none" ELSE "dangling"
  /\ GoTo(t, "cursor")
  /\ UNCHANGED <<store, call, reply, data>>

OpenCursor(t) ==
  /\ stage[t] = "cursor"
  /\ \/ data = {} /\ bulk' = "open" /\ GoTo(t, "insert") /\ UNCHANGED <<reply, data>>
     \/ /\ (data # {} \/ mayFail)
        /\ bulk' = "none" /\ Reject(t, "error") /\ UNCHANGED data
  /\ UNCHANGED <<store, call>>

\* What the inserts say is not looked at: keys that are refused are counted.
Insert(t) ==
  /\ stage[t] = "insert" /\ bulk = "open"
  /\ LET fit == {k \in KeysOf(t) : \A n \in data : n < k}
     IN  \E part \in IF mayFail THEN SUBSET fit ELSE {fit} : data' = data \cup part
  /\ Finish(t, "ok", Size(t), KeysOf(t) \cap data')
  /\ UNCHANGED <<store, call, bulk>>

\* range_select and scan: search finds the very key, or nothing, and the entries
\* are those after it.
Iterate(t) ==
  /\ Called(t, {"range_select", "scan"})
  /\ \/ Key(t) \in data /\ Touch(t, FirstNumbers({k \in data : k > Key(t)}, Length(t)))
     \/ (Key(t) \notin data \/ mayFail) /\ Reject(t, "error")
  /\ UNCHANGED <<store, call, data, bulk>>

\* Mistake: the bulk cursor is kept.
FlushKeepCursor == FlushDb /\ UNCHANGED bulk

\* flush resets the bulk cursor and its session; close closes the connection and
\* leaves both alone.
Flush == FlushDb /\ bulk' = "none"
Close == CloseDb /\ bulk' = (IF bulk = "none" THEN "none" ELSE "dangling") /\ UNCHANGED stage

Progress(t) ==
  \/ Put(t) \/ Remove(t) \/ Read(t) \/ BatchUpsert(t) \/ BatchRead(t)
  \/ TestCursor(t) \/ StartSession(t) \/ OpenCursor(t) \/ Insert(t) \/ Iterate(t)
  \/ Return(t) /\ UNCHANGED bulk

Next == Open \/ Flush \/ Close
          \/ \E t \in Threads : Progress(t) \/ (Invoke(t) /\ CountsOn(t) /\ UNCHANGED bulk)
=============================================================================
