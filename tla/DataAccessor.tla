----------------------------- MODULE DataAccessor -----------------------------
(***************************************************************************)
(* data_accessor_t (src/src/core/data_accessor.hpp): what every database   *)
(* promises the threads that call it.  A call takes effect at one moment   *)
(* between its start and its end, and reports the entries it touched       *)
(* (operation_result_t in src/src/core/operation.hpp).  An adapter that    *)
(* does not report some kinds of calls as documented lists them in loose:  *)
(* what such a call does to the database is promised all the same, but not *)
(* what it is told.  Nor is anything done, whatever it is told, by a call  *)
(* of a thread that has become lossy.                                      *)
(***************************************************************************)
EXTENDS Integers, FiniteSets, Functions, Sequences

CONSTANTS
  Threads,
  Keys      \* the keys the callers use, natural numbers

WriteKinds == {"upsert", "batch_upsert", "bulk_load"}
FindKinds  == {"read", "update", "batch_read"}
RangeKinds == {"range_select", "scan"}
CallKinds  == WriteKinds \cup FindKinds \cup RangeKinds \cup {"remove"}

VARIABLES
  mayFail,  \* whether the engine under the interface fails now and then
  loose,    \* the kinds of calls whose result is not promised
  lossy,    \* the threads whose writes are lost
  db,       \* the keys in the database
  stage,    \* of each thread: "idle", "called" or "done"
  call,     \* the call of each thread: [kind, keys, length]
  reply     \* what it was told: [status, touched, found]

context == <<mayFail, loose, lossy>>
vars == <<mayFail, loose, lossy, db, stage, call, reply>>

\* The entries a call touches when the database holds the keys d.  A range is
\* the first entries, up to the length asked for, from its key on.
Touched(c, d) ==
  CASE c.kind \in WriteKinds \cup {"remove"} -> Range(c.keys)
    [] c.kind \in FindKinds  -> Range(c.keys) \cap d
    [] c.kind \in RangeKinds ->
         LET beyond == {k \in d : k >= c.keys[1]}
         IN  {k \in beyond : Cardinality({j \in beyond : j < k}) < c.length}

\* The database after a call.
After(c, d) == CASE c.kind \in WriteKinds -> d \cup Range(c.keys)
                 [] c.kind = "remove"     -> d \ Range(c.keys)
                 [] OTHER                 -> d

AnswerOf(status, keys) ==
  [status |-> status, touched |-> Cardinality(keys), found |-> keys]

Missed == {AnswerOf("not_found", {}), AnswerOf("error", {})}

\* What a call may be told.  A removal that finds no key may count as one; a
\* batch or a range that finds less than it is asked for may count as missed.
Answers(c, d) ==
  LET met == Touched(c, d)
  IN  CASE c.kind \in {"read", "update"} /\ met = {} -> {AnswerOf("not_found", {})}
        [] c.kind = "remove" /\ met \cap d = {} ->
             {AnswerOf("ok", met), AnswerOf("not_found", {})}
        [] c.kind = "batch_read" /\ met # Range(c.keys) -> {AnswerOf("ok", met)} \cup Missed
        [] c.kind \in RangeKinds /\ met = {} -> {AnswerOf("ok", met)} \cup Missed
        [] OTHER -> {AnswerOf("ok", met)}

\* What a call may be told when the engine fails: an error, whatever number it
\* comes with, that nothing was found, or, in a batch of reads, only the entries
\* that could be read.
FailedAnswers(c, d) ==
  [status : {"error"}, touched : 0..Len(c.keys), found : {{}}] \cup Missed
    \cup IF c.kind = "batch_read" THEN {AnswerOf("ok", s) : s \in SUBSET Touched(c, d)}
                                  ELSE {}

NoCall   == [kind |-> "none", keys |-> << >>, length |-> 0]
NoAnswer == AnswerOf("none", {})

Init ==
  /\ mayFail \in BOOLEAN /\ loose \subseteq CallKinds
  /\ lossy = {}
  /\ db = {}
  /\ stage = [t \in Threads |-> "idle"]
  /\ call  = [t \in Threads |-> NoCall]
  /\ reply = [t \in Threads |-> NoAnswer]

Invoke(t) ==
  /\ stage[t] = "idle"
  /\ stage' = [stage EXCEPT ![t] = "called"]
  /\ call'[t].kind \in CallKinds /\ Range(call'[t].keys) \subseteq Keys
  /\ \A u \in Threads \ {t} : call'[u] = call[u]
  /\ UNCHANGED <<context, db, reply>>

\* The reply of t, and of no other thread.
Told(t) ==
  /\ stage[t] = "called"
  /\ stage' = [stage EXCEPT ![t] = "done"]
  /\ \A u \in Threads \ {t} : reply'[u] = reply[u]
  /\ UNCHANGED <<context, call>>

Perform(t) ==
  /\ Told(t)
  /\ reply'[t] \in Answers(call[t], db)
  /\ db' = After(call[t], db)

Fail(t) ==
  /\ mayFail
  /\ Told(t)
  /\ reply'[t] \in FailedAnswers(call[t], db)
  /\ UNCHANGED db

\* A call whose result is not promised counts no more than one entry beyond
\* those it asks for, and finds none that are not there.  An update may create
\* its key; a load into a database that is not empty may be refused, as a whole
\* or in part, and a batch that fails may be written in part.
PerformLoosely(t) ==
  LET c == call[t]
  IN  /\ Told(t)
      /\ c.kind \in loose
      /\ reply'[t].touched \in 0 .. c.length + 1 /\ reply'[t].found \subseteq db'
      /\ \/ db' = After(c, db)
         \/ c.kind = "update" /\ db' = db \cup Range(c.keys)
         \/ /\ c.kind \in WriteKinds
            /\ mayFail \/ (c.kind = "bulk_load" /\ db # {})
            /\ \E part \in SUBSET Range(c.keys) : db' = db \cup part

\* A thread becomes lossy in a call that writes, and is so until something that
\* is not a call puts it right.  Meanwhile its calls change nothing; what the one
\* that makes it lossy writes may be kept in part.
BecomeLossy(t) ==
  /\ stage[t] = "called" /\ call[t].kind \in loose \cap (WriteKinds \cup {"update", "remove"})
  /\ lossy' = lossy \cup {t}
  /\ UNCHANGED <<mayFail, loose, db, stage, call, reply>>

PerformLossily(t) ==
  /\ stage[t] = "called"
  /\ stage' = [stage EXCEPT ![t] = "done"]
  /\ \A u \in Threads \ {t} : reply'[u] = reply[u]
  /\ lossy' = lossy \cup {t}
  /\ \/ t \in lossy /\ UNCHANGED db
     \/ /\ call[t].kind \in loose \cap WriteKinds
        /\ \E part \in SUBSET Range(call[t].keys) : db' = db \cup part
  /\ UNCHANGED <<mayFail, loose, call>>

EndLossy(t) ==
  /\ stage[t] = "idle"
  /\ lossy' = lossy \ {t}
  /\ UNCHANGED <<mayFail, loose, db, stage, call, reply>>

Return(t) ==
  /\ stage[t] = "done"
  /\ stage' = [stage EXCEPT ![t] = "idle"]
  /\ call'  = [call EXCEPT ![t] = NoCall]
  /\ reply' = [reply EXCEPT ![t] = NoAnswer]
  /\ UNCHANGED <<context, db>>

\* The program ends in the middle of calls, and another one goes on: writes that
\* were under way may have been done in part.
Crash ==
  /\ mayFail \/ "bulk_load" \in loose
  /\ LET writers == {t \in Threads : stage[t] = "called" /\ call[t].kind \in WriteKinds}
     IN  \E part \in SUBSET UNION {Range(call[t].keys) : t \in writers} : db' = db \cup part
  /\ stage' = [t \in Threads |-> "idle"]
  /\ call'  = [t \in Threads |-> NoCall]
  /\ reply' = [t \in Threads |-> NoAnswer]
  /\ UNCHANGED context

Next ==
  \/ \E t \in Threads : \/ Invoke(t) \/ Return(t)
                        \/ Perform(t) \/ Fail(t) \/ PerformLoosely(t)
                        \/ BecomeLossy(t) \/ PerformLossily(t) \/ EndLossy(t)
  \/ Crash

Spec == Init /\ [][Next]_vars
=============================================================================
