----------------------------- MODULE Rendezvous -----------------------------
(***************************************************************************)
(* What a reusable barrier promises to the threads that call it: the k-th  *)
(* call of a thread returns only after every thread has made its k-th      *)
(* call.  It says nothing of how the threads wait for each other.          *)
(*                                                                         *)
(* ThreadsFence.tla (src/src/core/threads_fence.hpp) implements it, and    *)
(* Bench.tla uses it twice: for that fence and for the start/stop barrier  *)
(* of the Google Benchmark library.                                        *)
(***************************************************************************)
EXTENDS Naturals

CONSTANT Threads

VARIABLES arrived,  \* arrived[t]: how many calls thread t has made
          passed    \* passed[t]: how many of them have returned

vars == <<arrived, passed>>

Init == /\ arrived = [t \in Threads |-> 0]
        /\ passed  = [t \in Threads |-> 0]

\* t calls the barrier.
Arrive(t) == /\ arrived[t] = passed[t]
             /\ arrived' = [arrived EXCEPT ![t] = @ + 1]
             /\ UNCHANGED passed

\* Everybody has made the call t is in.
Met(t) == \A u \in Threads : arrived[u] >= arrived[t]

\* The call of t returns.
Pass(t) == /\ arrived[t] = passed[t] + 1
           /\ Met(t)
           /\ passed' = [passed EXCEPT ![t] = @ + 1]
           /\ UNCHANGED arrived

Next == \E t \in Threads : Arrive(t) \/ Pass(t)

Spec == Init /\ [][Next]_vars
=============================================================================
