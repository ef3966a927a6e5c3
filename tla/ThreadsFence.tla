---------------------------- MODULE ThreadsFence ----------------------------
(***************************************************************************)
(* threads_fence_t (src/src/core/threads_fence.hpp): a reusable barrier    *)
(* made of two atomic counters and spinning loads.  Every atomic access is *)
(* one action; a loop that spins on a load is an action enabled when the   *)
(* load lets the thread out of the loop.  All accesses of the code are     *)
(* sequentially consistent, so interleaving them is all there is.          *)
(***************************************************************************)
EXTENDS Integers, FiniteSets

CONSTANTS
  Threads,     \* the threads that share the fence
  MaxCalls,    \* bound: how many times each thread calls sync()
  SpuriousCAS  \* may compare_exchange_weak fail although the values match?

ASSUME ThreadsAssumption  == IsFiniteSet(Threads) /\ Threads # {}
ASSUME MaxCallsAssumption == MaxCalls \in Nat
ASSUME SpuriousAssumption == SpuriousCAS \in BOOLEAN

VARIABLES
  waiting,   \* waiting_threads_count_
  released,  \* released_threads_count_
  pc,        \* the next access of each thread
  calls      \* calls[t]: how many calls of sync() thread t has begun

vars == <<waiting, released, pc, calls>>

N == Cardinality(Threads)  \* threads_count_

Places ==
  { "outside",         \* not in sync()
    "gate",            \* spins until the previous round is over
    "announce",        \* about to increment waiting
    "gather",          \* spins until everybody is waiting
    "release",         \* about to increment released
    "check",           \* about to look whether it is the last one out
    "reset_waiting",   \* the last one out clears waiting ...
    "reset_released" } \* ... and then released

Init == /\ waiting  = 0
        /\ released = 0
        /\ pc    = [t \in Threads |-> "outside"]
        /\ calls = [t \in Threads |-> 0]

Goto(t, place) == pc' = [pc EXCEPT ![t] = place]

\* The caller's step: thread t calls sync().
Call(t) == /\ pc[t] = "outside"
           /\ calls[t] < MaxCalls
           /\ calls' = [calls EXCEPT ![t] = @ + 1]
           /\ Goto(t, "gate")
           /\ UNCHANGED <<waiting, released>>

\* Mistake: no first loop, so a fast thread joins a round that is being released.
GateLeftOut(t) == /\ pc[t] = "gate"
                  /\ Goto(t, "announce")
                  /\ UNCHANGED <<waiting, released, calls>>

\* The first loop ends: released is zero again.
Gate(t) == /\ pc[t] = "gate"
           /\ released = 0
           /\ Goto(t, "announce")
           /\ UNCHANGED <<waiting, released, calls>>

Announce(t) == /\ pc[t] = "announce"
               /\ waiting' = waiting + 1
               /\ Goto(t, "gather")
               /\ UNCHANGED <<released, calls>>

\* Mistake: the calling thread is not counted.
GatherOneShort(t) == /\ pc[t] = "gather"
                     /\ waiting >= N - 1
                     /\ Goto(t, "release")
                     /\ UNCHANGED <<waiting, released, calls>>

\* The second loop ends: everybody waits.
Gather(t) == /\ pc[t] = "gather"
             /\ waiting = N
             /\ Goto(t, "release")
             /\ UNCHANGED <<waiting, released, calls>>

Release(t) == /\ pc[t] = "release"
              /\ released' = released + 1
              /\ Goto(t, "check")
              /\ UNCHANGED <<waiting, calls>>

\* A load of its own after the increment: several threads may read N, and a
\* slow one may read what a later round has made of the counter.
Check(t) == /\ pc[t] = "check"
            /\ Goto(t, IF released = N THEN "reset_waiting" ELSE "outside")
            /\ UNCHANGED <<waiting, released, calls>>

\* What compare_exchange_weak(N, 0) may leave in a counter that holds v; the
\* code ignores whether it succeeded.
ExchangedNToZero(v) ==
  IF v = N THEN {0} \cup (IF SpuriousCAS THEN {N} ELSE {}) ELSE {v}

\* Mistake: the exchange is repeated until it succeeds.
ResetWaitingInLoop(t) == /\ pc[t] = "reset_waiting"
                         /\ waiting' \in ExchangedNToZero(waiting)
                         /\ Goto(t, IF waiting = N THEN "reset_released" ELSE pc[t])
                         /\ UNCHANGED <<released, calls>>

ResetWaiting(t) == /\ pc[t] = "reset_waiting"
                   /\ waiting' \in ExchangedNToZero(waiting)
                   /\ Goto(t, "reset_released")
                   /\ UNCHANGED <<released, calls>>

ResetReleased(t) == /\ pc[t] = "reset_released"
                    /\ released' \in ExchangedNToZero(released)
                    /\ Goto(t, "outside")
                    /\ UNCHANGED <<waiting, calls>>

\* The steps inside sync(): a thread in it never sleeps.
Sync(t) == \/ Gate(t) \/ Announce(t) \/ Gather(t) \/ Release(t)
           \/ Check(t) \/ ResetWaiting(t) \/ ResetReleased(t)

\* Every thread has made all its calls (the bound) and is out again.
Finished == \A t \in Threads : pc[t] = "outside" /\ calls[t] = MaxCalls
Terminated == Finished /\ UNCHANGED vars

Next == (\E t \in Threads : Call(t) \/ Sync(t)) \/ Terminated

Spec == Init /\ [][Next]_vars

\* A running thread is scheduled again and again; nothing makes it call.
Fairness == \A t \in Threads : WF_vars(Sync(t))
FairSpec == Spec /\ Fairness
-----------------------------------------------------------------------------
TypeOK == /\ waiting  \in Nat
          /\ released \in Nat
          /\ pc    \in [Threads -> Places]
          /\ calls \in [Threads -> Nat]

\* How many calls of t have returned.
Returned(t) == IF pc[t] = "outside" THEN calls[t] ELSE calls[t] - 1

\* The fence isolates: a call returns only when every thread has made the
\* matching call, so what all threads did before their k-th sync() (opening
\* the DB, the benchmark) is over when any of them goes on after it.
Isolation == \A t, u \in Threads : Returned(t) <= calls[u]

\* The abstract barrier, seen from outside: calls made and calls returned.
Barrier == INSTANCE Rendezvous
             WITH arrived <- calls,
                  passed  <- [t \in Threads |-> Returned(t)]

\* The two counters implement the abstract barrier.
ImplementsRendezvous == Barrier!Spec

\* No thread is left spinning: once all threads have made their k-th call,
\* all of these calls return.  (With a compare_exchange_weak that does not
\* fail spuriously.)
EveryRoundEnds ==
  \A k \in 1..MaxCalls : (\A t \in Threads : calls[t] >= k)
                           ~> (\A t \in Threads : Returned(t) >= k)
-----------------------------------------------------------------------------
(***************************************************************************)
(* Why it works: the inductive strengthening of Isolation.                 *)
(***************************************************************************)

\* Counted in waiting and not yet in released.
Inside == { t \in Threads : pc[t] \in {"gather", "release"} }

\* The round thread t is counted in: the last one it has announced.
Round(t) == IF pc[t] \in {"gate", "announce"} THEN calls[t] - 1 ELSE calls[t]

Resetting(t) == pc[t] \in {"reset_waiting", "reset_released"}

\* While nobody is being released, waiting counts the threads inside (on top
\* of a stale N when its reset failed spuriously, which blocks the fence), and
\* a thread inside is exactly one round ahead of one that is not.
Gathering ==
  released = 0 =>
    /\ waiting = Cardinality(Inside) \/ waiting = N + Cardinality(Inside)
    /\ \A t \in Inside, u \in Threads \ Inside : Round(t) = Round(u) + 1
    /\ \A t, u \in Inside : Round(t) = Round(u)
    /\ \A t, u \in Threads \ Inside : Round(t) = Round(u)

\* While threads are being released nobody can announce, everybody is in the
\* same round, and waiting keeps its value until released has reached N.
Releasing ==
  released > 0 =>
    /\ \A t \in Threads : pc[t] # "announce"
    /\ released + Cardinality(Inside) = N
    /\ waiting = N \/ (waiting = 0 /\ released = N)
    /\ \A t, u \in Threads : Round(t) = Round(u)

\* Whoever passed the second loop still sees everybody waiting, and whoever
\* resets in a releasing phase does so at its very end.
Phases ==
  /\ \A t \in Threads : pc[t] = "release" => waiting = N
  /\ \A t \in Threads : Resetting(t) /\ released > 0 => released = N

\* A thread inside sync() has called it.
CallsCounted == \A t \in Threads : pc[t] # "outside" => calls[t] > 0

FenceInv == TypeOK /\ Gathering /\ Releasing /\ Phases /\ CallsCounted
=============================================================================
