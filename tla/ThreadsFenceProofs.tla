------------------------- MODULE ThreadsFenceProofs -------------------------
(***************************************************************************)
(* Proofs about ThreadsFence for every finite set of threads, every number *)
(* of calls, and with or without spurious failures of the exchange: the    *)
(* type invariant, the inductive invariant FenceInv, isolation, and the    *)
(* implementation of Rendezvous.                                           *)
(***************************************************************************)
EXTENDS ThreadsFence, FiniteSetTheorems, TLAPS

-----------------------------------------------------------------------------
(***************************************************************************)
(* Counting the threads inside.                                            *)
(***************************************************************************)

\* There is at least one thread: threads_count_ is a positive number.
LEMMA NPositive == N \in Nat /\ N > 0
BY ThreadsAssumption, FS_CardinalityType, FS_EmptySet DEF N

\* The threads inside are at most N, and N only when they are all of them.
LEMMA InsideCount ==
  /\ IsFiniteSet(Inside)
  /\ Cardinality(Inside) \in Nat
  /\ Cardinality(Inside) <= N
  /\ Cardinality(Inside) = N => Inside = Threads
  /\ Cardinality(Inside) = 0 <=> Inside = {}
<1>1. Inside \subseteq Threads
  BY DEF Inside
<1>2. /\ IsFiniteSet(Inside)
      /\ Cardinality(Inside) <= N
      /\ Cardinality(Inside) = N => Inside = Threads
  BY <1>1, ThreadsAssumption, FS_Subset DEF N
<1> QED
  BY <1>2, FS_CardinalityType, FS_EmptySet

\* Announcing puts a thread inside and counts it.
LEMMA AnnounceInside ==
  ASSUME TypeOK, NEW t \in Threads, Announce(t)
  PROVE  /\ Inside' = Inside \cup {t}
         /\ t \notin Inside
         /\ Cardinality(Inside') = Cardinality(Inside) + 1
<1>1. Inside' = Inside \cup {t} /\ t \notin Inside
  BY DEF Announce, Goto, Inside, TypeOK
<1> QED
  BY <1>1, InsideCount, FS_AddElement

\* Releasing takes a thread out of the inside.
LEMMA ReleaseInside ==
  ASSUME TypeOK, NEW t \in Threads, Release(t)
  PROVE  /\ Inside' = Inside \ {t}
         /\ t \in Inside
         /\ Cardinality(Inside') = Cardinality(Inside) - 1
<1>1. Inside' = Inside \ {t} /\ t \in Inside
  BY DEF Release, Goto, Inside, TypeOK
<1> QED
  BY <1>1, InsideCount, FS_RemoveElement

\* No other access changes who is inside.
LEMMA OthersInside ==
  ASSUME TypeOK, NEW t \in Threads,
         \/ Call(t) \/ Gate(t) \/ Gather(t) \/ Check(t)
         \/ ResetWaiting(t) \/ ResetReleased(t)
  PROVE  Inside' = Inside
BY DEF Call, Gate, Gather, Check, ResetWaiting, ResetReleased, Goto, Inside, TypeOK

\* Only Announce moves a thread to another round.
LEMMA RoundsKept ==
  ASSUME TypeOK, NEW t \in Threads,
         \/ Call(t) \/ Gate(t) \/ Gather(t) \/ Release(t) \/ Check(t)
         \/ ResetWaiting(t) \/ ResetReleased(t),
         NEW u \in Threads
  PROVE  Round(u)' = Round(u)
BY DEF Call, Gate, Gather, Release, Check, ResetWaiting, ResetReleased,
       Goto, Round, TypeOK

\* Announce takes its thread, and no other, one round further.
LEMMA AnnounceRound ==
  ASSUME TypeOK, NEW t \in Threads, Announce(t), NEW u \in Threads
  PROVE  Round(u)' = IF u = t THEN Round(u) + 1 ELSE Round(u)
BY DEF Announce, Goto, Round, TypeOK

\* Rounds are counted by natural numbers.
LEMMA RoundType ==
  ASSUME TypeOK, NEW u \in Threads
  PROVE  Round(u) \in Int
BY DEF Round, TypeOK

\* A counter that compare_exchange_weak may reset keeps its value or, from N,
\* becomes zero.
LEMMA ExchangeType ==
  ASSUME NEW v \in Nat, NEW w \in ExchangedNToZero(v)
  PROVE  w \in Nat /\ (w = v \/ (v = N /\ w = 0))
BY NPositive DEF ExchangedNToZero
-----------------------------------------------------------------------------
(***************************************************************************)
(* The type invariant.                                                     *)
(***************************************************************************)

\* The fence starts with counters at zero and everybody outside.
LEMMA TypeInit == Init => TypeOK
BY DEF Init, TypeOK, Places

\* No access of sync() takes a counter below zero or a thread to an unknown
\* place.
LEMMA TypeStep == TypeOK /\ [Next]_vars => TypeOK'
<1> SUFFICES ASSUME TypeOK, [Next]_vars PROVE TypeOK'
  OBVIOUS
<1>1. ASSUME NEW t \in Threads, Call(t) PROVE TypeOK'
  BY <1>1 DEF Call, Goto, TypeOK, Places
<1>2. ASSUME NEW t \in Threads, Gate(t) PROVE TypeOK'
  BY <1>2 DEF Gate, Goto, TypeOK, Places
<1>3. ASSUME NEW t \in Threads, Announce(t) PROVE TypeOK'
  BY <1>3 DEF Announce, Goto, TypeOK, Places
<1>4. ASSUME NEW t \in Threads, Gather(t) PROVE TypeOK'
  BY <1>4 DEF Gather, Goto, TypeOK, Places
<1>5. ASSUME NEW t \in Threads, Release(t) PROVE TypeOK'
  BY <1>5 DEF Release, Goto, TypeOK, Places
<1>6. ASSUME NEW t \in Threads, Check(t) PROVE TypeOK'
  BY <1>6 DEF Check, Goto, TypeOK, Places
<1>7. ASSUME NEW t \in Threads, ResetWaiting(t) PROVE TypeOK'
  BY <1>7, ExchangeType DEF ResetWaiting, Goto, TypeOK, Places
<1>8. ASSUME NEW t \in Threads, ResetReleased(t) PROVE TypeOK'
  BY <1>8, ExchangeType DEF ResetReleased, Goto, TypeOK, Places
<1>9. CASE UNCHANGED vars
  BY <1>9 DEF vars, TypeOK
<1> QED
  BY <1>1, <1>2, <1>3, <1>4, <1>5, <1>6, <1>7, <1>8, <1>9
     DEF Next, Sync, Terminated

\* The counters stay natural numbers and every thread stays at a known access.
THEOREM TypeCorrect == Spec => []TypeOK
BY TypeInit, TypeStep, PTL DEF Spec
-----------------------------------------------------------------------------
(***************************************************************************)
(* The inductive invariant.  One lemma per access; the two that change who *)
(* is inside, Announce and Release, are the heart of it.                   *)
(***************************************************************************)

\* At first nobody is inside, in round zero: a gathering phase.
LEMMA InvInit == Init => FenceInv
<1> SUFFICES ASSUME Init PROVE FenceInv
  OBVIOUS
<1>1. Inside = {}
  BY DEF Init, Inside
<1>2. Gathering
  BY <1>1, FS_EmptySet DEF Init, Gathering, Round
<1> QED
  BY <1>2, TypeInit DEF Init, FenceInv, Releasing, Phases, Resetting, CallsCounted

\* Calling sync() touches neither counter: only the number of calls grows.
LEMMA CallInv ==
  ASSUME FenceInv, NEW t \in Threads, Call(t), TypeOK'
  PROVE  FenceInv'
<1> USE DEF FenceInv
<1>1. Inside' = Inside
  BY OthersInside
<1>2. \A u \in Threads : Round(u)' = Round(u)
  BY RoundsKept
<1>3. waiting' = waiting /\ released' = released
  BY DEF Call
<1>4. Gathering'
  BY <1>1, <1>2, <1>3 DEF Gathering, Inside
<1>5. Releasing'
  BY <1>1, <1>2, <1>3 DEF Releasing, Call, Goto, TypeOK
<1>6. Phases'
  BY <1>3 DEF Phases, Resetting, Call, Goto, TypeOK
<1>7. CallsCounted'
  BY DEF CallsCounted, Call, Goto, TypeOK
<1> QED
  BY <1>4, <1>5, <1>6, <1>7

\* The gate opens only while released is zero, and changes no counter.
LEMMA GateInv ==
  ASSUME FenceInv, NEW t \in Threads, Gate(t), TypeOK'
  PROVE  FenceInv'
<1> USE DEF FenceInv
<1>1. Inside' = Inside
  BY OthersInside
<1>2. \A u \in Threads : Round(u)' = Round(u)
  BY RoundsKept
<1>3. waiting' = waiting /\ released' = released /\ released = 0
  BY DEF Gate
<1>4. Gathering'
  BY <1>1, <1>2, <1>3 DEF Gathering, Inside
<1>5. Releasing'
  BY <1>3 DEF Releasing
<1>6. Phases'
  BY <1>3 DEF Phases, Resetting, Gate, Goto, TypeOK
<1>7. CallsCounted'
  BY DEF CallsCounted, Gate, Goto, TypeOK
<1> QED
  BY <1>4, <1>5, <1>6, <1>7

\* Announcing happens only while nobody is released, so nobody is at release
\* or resets a releasing phase, and waiting counts one more thread inside.
LEMMA AnnounceInv ==
  ASSUME FenceInv, NEW t \in Threads, Announce(t), TypeOK'
  PROVE  FenceInv'
<1> USE DEF FenceInv
<1>1. /\ Inside' = Inside \cup {t}
      /\ t \notin Inside
      /\ Cardinality(Inside') = Cardinality(Inside) + 1
  BY AnnounceInside
<1>2. \A u \in Threads : Round(u)' = IF u = t THEN Round(u) + 1 ELSE Round(u)
  BY AnnounceRound
<1>3. released = 0 /\ released' = 0
  BY DEF Releasing, Announce, TypeOK
<1>4. waiting' = waiting + 1 /\ waiting \in Nat /\ N \in Nat
  BY NPositive DEF Announce, TypeOK
<1>5. Gathering'
  <2>1. waiting' = Cardinality(Inside') \/ waiting' = N + Cardinality(Inside')
    BY <1>1, <1>3, <1>4, InsideCount DEF Gathering
  <2>2. ASSUME NEW u \in Inside', NEW v \in Threads \ Inside'
        PROVE  Round(u)' = Round(v)' + 1
    BY <1>1, <1>2, <1>3, RoundType DEF Gathering, Inside
  <2>3. ASSUME NEW u \in Inside', NEW v \in Inside'
        PROVE  Round(u)' = Round(v)'
    BY <1>1, <1>2, <1>3, RoundType DEF Gathering, Inside
  <2>4. ASSUME NEW u \in Threads \ Inside', NEW v \in Threads \ Inside'
        PROVE  Round(u)' = Round(v)'
    BY <1>1, <1>2, <1>3 DEF Gathering, Inside
  <2> QED
    BY <2>1, <2>2, <2>3, <2>4, <1>4 DEF Gathering, N
<1>6. Releasing'
  BY <1>3 DEF Releasing
<1>7. Phases'
  <2>1. ASSUME NEW u \in Threads, pc'[u] = "release" PROVE FALSE
    <3>1. u \in Inside /\ pc[u] = "release"
      BY <2>1 DEF Announce, Goto, TypeOK, Inside
    <3>2. waiting = N
      BY <3>1 DEF Phases
    <3>3. Inside = Threads
      BY <1>3, <3>1, <3>2, InsideCount, NPositive DEF Gathering
    <3> QED
      BY <3>3, <1>1
  <2> QED
    BY <2>1, <1>3 DEF Phases
<1>8. CallsCounted'
  BY DEF CallsCounted, Announce, Goto, TypeOK
<1> QED
  BY <1>5, <1>6, <1>7, <1>8

\* A thread leaves the second loop, and may release, only when waiting is N.
LEMMA GatherInv ==
  ASSUME FenceInv, NEW t \in Threads, Gather(t), TypeOK'
  PROVE  FenceInv'
<1> USE DEF FenceInv
<1>1. Inside' = Inside
  BY OthersInside
<1>2. \A u \in Threads : Round(u)' = Round(u)
  BY RoundsKept
<1>3. waiting' = waiting /\ released' = released /\ waiting = N
  BY DEF Gather
<1>4. Gathering'
  BY <1>1, <1>2, <1>3 DEF Gathering, Inside
<1>5. Releasing'
  BY <1>1, <1>2, <1>3 DEF Releasing, Gather, Goto, TypeOK
<1>6. Phases'
  BY <1>3 DEF Phases, Resetting, Gather, Goto, TypeOK
<1>7. CallsCounted'
  BY DEF CallsCounted, Gather, Goto, TypeOK
<1> QED
  BY <1>4, <1>5, <1>6, <1>7

\* The first release needs everybody inside: from then on no thread announces
\* until released has counted all of them.
LEMMA ReleaseInv ==
  ASSUME FenceInv, NEW t \in Threads, Release(t), TypeOK'
  PROVE  FenceInv'
<1> USE DEF FenceInv
<1>1. /\ Inside' = Inside \ {t}
      /\ t \in Inside
      /\ Cardinality(Inside') = Cardinality(Inside) - 1
  BY ReleaseInside
<1>2. \A u \in Threads : Round(u)' = Round(u)
  BY RoundsKept
<1>3. waiting' = waiting /\ released' = released + 1 /\ released \in Nat
  BY DEF Release, TypeOK
<1>4. waiting = N /\ pc[t] = "release"
  BY DEF Phases, Release
<1>5. released = 0 => Inside = Threads /\ Cardinality(Inside) = N
  BY <1>1, <1>4, InsideCount, NPositive DEF Gathering
<1>6. released + Cardinality(Inside) = N
  BY <1>3, <1>5, InsideCount, NPositive DEF Releasing
<1>7. \A u \in Threads : pc[u] # "announce"
  BY <1>3, <1>5 DEF Releasing, Inside
<1>8. \A u, v \in Threads : Round(u) = Round(v)
  BY <1>3, <1>5 DEF Releasing, Gathering
<1>9. \A u \in Threads : ~Resetting(u)
  <2>1. CASE released = 0
    BY <2>1, <1>5 DEF Inside, Resetting
  <2>2. CASE released > 0
    BY <2>2, <1>1, <1>6, InsideCount, NPositive DEF Phases
  <2> QED
    BY <2>1, <2>2, <1>3
<1>10. Gathering'
  BY <1>3 DEF Gathering
<1>11. Releasing'
  <2>1. \A u \in Threads : pc'[u] # "announce"
    BY <1>7 DEF Release, Goto, TypeOK
  <2>2. released' + Cardinality(Inside') = N
    BY <1>1, <1>3, <1>6, InsideCount, NPositive
  <2>3. waiting' = N
    BY <1>3, <1>4
  <2>4. \A u, v \in Threads : Round(u)' = Round(v)'
    BY <1>2, <1>8
  <2> QED
    BY <2>1, <2>2, <2>3, <2>4 DEF Releasing, N
<1>12. Phases'
  BY <1>3, <1>4, <1>9 DEF Phases, Resetting, Release, Goto, TypeOK, N
<1>13. CallsCounted'
  BY DEF CallsCounted, Release, Goto, TypeOK
<1> QED
  BY <1>10, <1>11, <1>12, <1>13

\* The last thread to release sees released = N; a thread that does not just
\* leaves.
LEMMA CheckInv ==
  ASSUME FenceInv, NEW t \in Threads, Check(t), TypeOK'
  PROVE  FenceInv'
<1> USE DEF FenceInv
<1>1. Inside' = Inside
  BY OthersInside
<1>2. \A u \in Threads : Round(u)' = Round(u)
  BY RoundsKept
<1>3. waiting' = waiting /\ released' = released
  BY DEF Check
<1>4. Gathering'
  BY <1>1, <1>2, <1>3 DEF Gathering, Inside
<1>5. Releasing'
  BY <1>1, <1>2, <1>3 DEF Releasing, Check, Goto, TypeOK
<1>6. Phases'
  BY <1>3 DEF Phases, Resetting, Check, Goto, TypeOK
<1>7. CallsCounted'
  BY DEF CallsCounted, Check, Goto, TypeOK
<1> QED
  BY <1>4, <1>5, <1>6, <1>7

\* A reset of waiting finds N either at the end of a releasing phase, or as the
\* stale leftover of a spurious failure while nobody is inside: a slow thread
\* can not see N made by a later round, since that round needs it inside.
LEMMA ResetWaitingInv ==
  ASSUME FenceInv, NEW t \in Threads, ResetWaiting(t), TypeOK'
  PROVE  FenceInv'
<1> USE DEF FenceInv
<1>1. Inside' = Inside
  BY OthersInside
<1>2. \A u \in Threads : Round(u)' = Round(u)
  BY RoundsKept
<1>3. /\ released' = released
      /\ waiting' = waiting \/ (waiting = N /\ waiting' = 0)
      /\ released \in Nat /\ waiting \in Nat
  BY ExchangeType DEF ResetWaiting, TypeOK
<1>4. t \notin Inside
  BY DEF ResetWaiting, Inside
<1>5. Cardinality(Inside) # N
  BY <1>4, InsideCount
<1>6. released > 0 => released = N /\ Cardinality(Inside) = 0
  BY <1>3, InsideCount, NPositive DEF Phases, Resetting, ResetWaiting, Releasing
<1>7. \A u \in Threads : waiting = N => pc[u] # "release"
  <2> SUFFICES ASSUME NEW u \in Threads, waiting = N, pc[u] = "release" PROVE FALSE
    OBVIOUS
  <2>1. Cardinality(Inside) # 0
    BY InsideCount DEF Inside
  <2> QED
    BY <2>1, <1>3, <1>5, <1>6, InsideCount, NPositive DEF Gathering
<1>8. Gathering'
  <2>1. released = 0 => \/ waiting' = Cardinality(Inside)
                        \/ waiting' = N + Cardinality(Inside)
    BY <1>3, <1>5, InsideCount, NPositive DEF Gathering
  <2> QED
    BY <1>1, <1>2, <1>3, <2>1 DEF Gathering, Inside, N
<1>9. Releasing'
  <2>1. \A u \in Threads : released > 0 => pc'[u] # "announce"
    BY DEF Releasing, ResetWaiting, Goto, TypeOK
  <2>2. released > 0 => waiting' = N \/ (waiting' = 0 /\ released' = N)
    BY <1>3, <1>6 DEF Releasing
  <2> QED
    BY <1>1, <1>2, <1>3, <2>1, <2>2 DEF Releasing, N
<1>10. Phases'
  BY <1>3, <1>7 DEF Phases, Resetting, ResetWaiting, Goto, TypeOK, N
<1>11. CallsCounted'
  BY DEF CallsCounted, ResetWaiting, Goto, TypeOK
<1> QED
  BY <1>8, <1>9, <1>10, <1>11

\* Clearing released ends the releasing phase with nobody inside.
LEMMA ResetReleasedInv ==
  ASSUME FenceInv, NEW t \in Threads, ResetReleased(t), TypeOK'
  PROVE  FenceInv'
<1> USE DEF FenceInv
<1>1. Inside' = Inside
  BY OthersInside
<1>2. \A u \in Threads : Round(u)' = Round(u)
  BY RoundsKept
<1>3. /\ waiting' = waiting
      /\ released' = released \/ (released = N /\ released' = 0)
      /\ released \in Nat /\ waiting \in Nat
  BY ExchangeType DEF ResetReleased, TypeOK
<1>4. Gathering'
  <2>1. CASE released' = released
    BY <2>1, <1>1, <1>2, <1>3 DEF Gathering, Inside
  <2>2. CASE released = N /\ released' = 0
    <3>1. /\ Cardinality(Inside) = 0
          /\ waiting = N \/ waiting = 0
          /\ \A u, v \in Threads : Round(u) = Round(v)
      BY <2>2, InsideCount, NPositive DEF Releasing
    <3>2. Inside = {}
      BY <3>1, InsideCount
    <3> QED
      BY <1>1, <1>2, <1>3, <3>1, <3>2, InsideCount, NPositive DEF Gathering, N
  <2> QED
    BY <2>1, <2>2, <1>3
<1>5. Releasing'
  <2>1. released' > 0 => released' = released
    BY <1>3
  <2>2. \A u \in Threads : released > 0 => pc'[u] # "announce"
    BY DEF Releasing, ResetReleased, Goto, TypeOK
  <2> QED
    BY <1>1, <1>2, <1>3, <2>1, <2>2 DEF Releasing, N
<1>6. Phases'
  BY <1>3 DEF Phases, Resetting, ResetReleased, Goto, TypeOK, N
<1>7. CallsCounted'
  BY DEF CallsCounted, ResetReleased, Goto, TypeOK
<1> QED
  BY <1>4, <1>5, <1>6, <1>7

\* Every access keeps the invariant.
LEMMA InvStep == FenceInv /\ [Next]_vars => FenceInv'
<1> SUFFICES ASSUME FenceInv, [Next]_vars PROVE FenceInv'
  OBVIOUS
<1>1. TypeOK'
  BY TypeStep DEF FenceInv
<1>2. ASSUME NEW t \in Threads, Call(t) \/ Sync(t) PROVE FenceInv'
  BY <1>1, <1>2, CallInv, GateInv, AnnounceInv, GatherInv, ReleaseInv, CheckInv,
     ResetWaitingInv, ResetReleasedInv DEF Sync
<1>3. CASE UNCHANGED vars
  <2>1. Inside' = Inside /\ \A u \in Threads : Round(u)' = Round(u)
    BY <1>3 DEF vars, Inside, Round
  <2>2. /\ waiting' = waiting /\ released' = released
        /\ pc' = pc /\ calls' = calls
    BY <1>3 DEF vars
  <2>3. Gathering'
    BY <2>1, <2>2 DEF FenceInv, Gathering, Inside
  <2>4. Releasing'
    BY <2>1, <2>2 DEF FenceInv, Releasing
  <2>5. Phases' /\ CallsCounted'
    BY <2>2 DEF FenceInv, Phases, Resetting, CallsCounted
  <2> QED
    BY <1>1, <2>3, <2>4, <2>5 DEF FenceInv
<1> QED
  BY <1>2, <1>3 DEF Next, Terminated

\* The strengthening holds in every reachable state.
THEOREM FenceInvariant == Spec => []FenceInv
BY InvInit, InvStep, PTL DEF Spec
-----------------------------------------------------------------------------
(***************************************************************************)
(* Isolation.  A call of t has returned only in a round that every thread  *)
(* has announced: while nobody is released a thread outside is in the      *)
(* lower of the two rounds, and otherwise there is only one.               *)
(***************************************************************************)

\* What FenceInv says of two threads: the rounds t has left are all announced.
ReturnedAnnounced ==
  \A t, u \in Threads : Returned(t) <= Round(u) /\ Round(u) <= calls[u]

\* The invariant implies it.
LEMMA InvReturnedAnnounced == FenceInv => ReturnedAnnounced
<1> SUFFICES ASSUME FenceInv, NEW t \in Threads, NEW u \in Threads
             PROVE  Returned(t) <= Round(u) /\ Round(u) <= calls[u]
  BY DEF ReturnedAnnounced
<1> USE DEF FenceInv
<1>1. calls[t] \in Nat /\ calls[u] \in Nat
  BY DEF TypeOK
<1>2. Round(u) <= calls[u]
  BY <1>1 DEF Round
<1>3. Returned(t) <= Round(t)
  BY <1>1 DEF Returned, Round
<1>4. t \in Inside => Returned(t) = Round(t) - 1
  BY DEF Inside, Returned, Round
<1>5. Round(t) <= Round(u) \/ (t \in Inside /\ Round(t) = Round(u) + 1)
  BY <1>1, RoundType DEF Gathering, Releasing, TypeOK
<1> QED
  BY <1>2, <1>3, <1>4, <1>5, <1>1, RoundType DEF Returned

\* No call of sync() returns before every thread has made the matching call.
THEOREM IsolationHolds == Spec => []Isolation
<1>1. FenceInv => Isolation
  <2> SUFFICES ASSUME FenceInv, NEW t \in Threads, NEW u \in Threads
               PROVE  Returned(t) <= calls[u]
    BY DEF Isolation
  <2>1. Returned(t) \in Int /\ Round(u) \in Int /\ calls[u] \in Int
    BY RoundType DEF FenceInv, TypeOK, Returned
  <2> QED
    BY <2>1, InvReturnedAnnounced DEF ReturnedAnnounced
<1> QED
  BY <1>1, FenceInvariant, PTL
-----------------------------------------------------------------------------
(***************************************************************************)
(* The implementation of the abstract barrier.                             *)
(***************************************************************************)

\* Returned, seen as the function the mapping substitutes for passed, changes
\* only where its thread goes outside.
LEMMA ReturnedStep ==
  ASSUME FenceInv, NEW t \in Threads, UNCHANGED calls,
         NEW place \in Places \ {"outside"}, pc[t] # "outside", Goto(t, place)
  PROVE  UNCHANGED Barrier!vars
BY DEF FenceInv, TypeOK, Goto, Returned, Barrier!vars

\* And so in the next state.
LEMMA NextReturnedAnnounced == FenceInv' => ReturnedAnnounced'
BY InvReturnedAnnounced, PTL

\* A step that leaves sync() is the Pass of the abstract barrier.
LEMMA LeaveIsPass ==
  ASSUME FenceInv, FenceInv', NEW t \in Threads, UNCHANGED calls,
         pc[t] # "outside", Goto(t, "outside")
  PROVE  Barrier!Pass(t)
<1>1. calls \in [Threads -> Nat] /\ pc \in [Threads -> Places]
  BY DEF FenceInv, TypeOK
<1>2. pc' = [pc EXCEPT ![t] = "outside"] /\ calls' = calls
  BY DEF Goto
<1>3. calls[t] = Returned(t) + 1
  BY <1>1 DEF Returned
<1>4. [u \in Threads |-> Returned(u)]'
        = [[u \in Threads |-> Returned(u)] EXCEPT ![t] = @ + 1]
  BY <1>1, <1>2, <1>3 DEF Returned
<1>5. \A u \in Threads : calls[u] >= calls[t]
  <2> SUFFICES ASSUME NEW u \in Threads PROVE calls[u] >= calls[t]
    OBVIOUS
  <2>1. Returned(t)' <= Round(u)' /\ Round(u)' <= calls'[u]
    BY NextReturnedAnnounced DEF ReturnedAnnounced
  <2>2. Returned(t)' = calls[t]
    BY <1>1, <1>2 DEF Returned
  <2>3. Round(u)' \in Int
    BY <1>1, <1>2 DEF Round
  <2> QED
    BY <1>1, <1>2, <2>1, <2>2, <2>3
<1> QED
  BY <1>1, <1>2, <1>3, <1>4, <1>5 DEF Barrier!Pass, Barrier!Met

\* Every step of the fence is a step of the abstract barrier or changes
\* nothing of it.
LEMMA StepImplements ==
  FenceInv /\ FenceInv' /\ [Next]_vars => [Barrier!Next]_(Barrier!vars)
<1> SUFFICES ASSUME FenceInv, FenceInv', [Next]_vars
             PROVE  [Barrier!Next]_(Barrier!vars)
  OBVIOUS
<1>1. calls \in [Threads -> Nat] /\ pc \in [Threads -> Places]
  BY DEF FenceInv, TypeOK
<1>2. ASSUME NEW t \in Threads, Call(t) PROVE Barrier!Arrive(t)
  <2>1. calls[t] = Returned(t)
    BY <1>2 DEF Call, Returned
  <2>2. [u \in Threads |-> Returned(u)]' = [u \in Threads |-> Returned(u)]
    BY <1>1, <1>2 DEF Call, Goto, Returned
  <2> QED
    BY <1>1, <1>2, <2>1, <2>2 DEF Call, Barrier!Arrive
<1>3. ASSUME NEW t \in Threads, Gate(t) PROVE UNCHANGED Barrier!vars
  BY <1>3, ReturnedStep DEF Gate, Places
<1>4. ASSUME NEW t \in Threads, Announce(t) PROVE UNCHANGED Barrier!vars
  BY <1>4, ReturnedStep DEF Announce, Places
<1>5. ASSUME NEW t \in Threads, Gather(t) PROVE UNCHANGED Barrier!vars
  BY <1>5, ReturnedStep DEF Gather, Places
<1>6. ASSUME NEW t \in Threads, Release(t) PROVE UNCHANGED Barrier!vars
  BY <1>6, ReturnedStep DEF Release, Places
<1>7. ASSUME NEW t \in Threads, Check(t)
      PROVE  UNCHANGED Barrier!vars \/ Barrier!Pass(t)
  BY <1>7, ReturnedStep, LeaveIsPass DEF Check, Places
<1>8. ASSUME NEW t \in Threads, ResetWaiting(t) PROVE UNCHANGED Barrier!vars
  BY <1>8, ReturnedStep DEF ResetWaiting, Places
<1>9. ASSUME NEW t \in Threads, ResetReleased(t) PROVE Barrier!Pass(t)
  BY <1>9, LeaveIsPass DEF ResetReleased
<1>10. CASE UNCHANGED vars
  BY <1>10 DEF vars, Returned, Barrier!vars
<1> QED
  BY <1>2, <1>3, <1>4, <1>5, <1>6, <1>7, <1>8, <1>9, <1>10
     DEF Next, Sync, Terminated, Barrier!Next

\* The fence implements Rendezvous: the k-th call of a thread returns only
\* after every thread's k-th call, seen at the calls and returns of sync().
THEOREM FenceImplementsRendezvous == Spec => ImplementsRendezvous
<1>1. Init => Barrier!Init
  BY DEF Init, Barrier!Init, Returned
<1> QED
  BY <1>1, StepImplements, FenceInvariant, PTL
     DEF Spec, ImplementsRendezvous, Barrier!Spec
=============================================================================
