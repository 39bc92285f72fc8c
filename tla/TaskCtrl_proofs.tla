--------------------------- MODULE TaskCtrl_proofs ---------------------------
(***************************************************************************)
(* The components of MCSync, for every set of threads and every bound.     *)
(* The gate of MultiThreadSync opens once per Signal and nobody sleeps in  *)
(* front of it, also inside the barrier.  The group semaphore gives no     *)
(* unit away that was not posted and forgets no sleeper.  The round        *)
(* barrier implements RoundBarrier when it was made for as many workers as *)
(* there are.  The master and the stations of MultiSem.c stay in one round *)
(* (InRound: where a station is and what its semaphore holds follows from  *)
(* where the master is).                                                   *)
(***************************************************************************)
EXTENDS MCSync, FiniteSetTheorems, SequenceTheorems, TLAPS

-----------------------------------------------------------------------------
(* MultiThreadSync *)

\* Each Signal so far was used by one passage, or its flag is still set, or neither.
Credit == \A p \in Params : passes[p] + (IF gate[p] = 1 THEN 1 ELSE 0) <= signals

GateInv == SyncTypeOK /\ Credit /\ NoSleeperAtOpenGate

\* The invariant holds when Init has cleared m_threads.
LEMMA GateStart == SyncInit => GateInv
<1> SUFFICES ASSUME SyncInit PROVE GateInv
  OBVIOUS
<1>1. gate \in [Params -> {-1, 0, 1}] /\ passes \in [Params -> Nat]
  BY DEF SyncInit
<1>2. waiting \in [Callers -> {{}} \cup {{p} : p \in Params}]
  BY DEF SyncInit
<1>3. dozing \subseteq {t \in Callers : waiting[t] # {}} /\ gone \in BOOLEAN
  BY DEF SyncInit
<1>4. signals \in 0..MaxSignals
  BY SignalsAssumption DEF SyncInit
<1>5. Credit
  BY DEF SyncInit, Credit
<1>6. NoSleeperAtOpenGate
  BY DEF SyncInit, NoSleeperAtOpenGate
<1>. QED BY <1>1, <1>2, <1>3, <1>4, <1>5, <1>6 DEF GateInv, SyncTypeOK

\* Every call keeps the types of the gate.
LEMMA GateTypes ==
    ASSUME SyncTypeOK, SyncNext PROVE SyncTypeOK'
<1> USE SignalsAssumption DEF SyncTypeOK
<1>1. CASE Signal
  BY <1>1 DEF Signal, Opened, Broadcast
<1>2. ASSUME NEW p \in Params, AddThread(p) \/ DelThread(p) PROVE SyncTypeOK'
  BY <1>2 DEF AddThread, DelThread
<1>3. ASSUME NEW t \in Callers, SyncSpurious(t) PROVE SyncTypeOK'
  BY <1>3 DEF SyncSpurious
<1>4. ASSUME NEW t \in Callers, NEW p \in Params,
             WaitPass(t, p) \/ WaitDoze(t, p) \/ WaitSkip(t, p) \/ WaitGone(t, p)
      PROVE  SyncTypeOK'
  <2>1. CASE WaitPass(t, p)
    BY <2>1 DEF WaitPass, AtTest, Closed
  <2>2. CASE WaitDoze(t, p)
    BY <2>2 DEF WaitDoze, AtTest
  <2>3. CASE WaitSkip(t, p)
    BY <2>3 DEF WaitSkip, syncVars
  <2>4. CASE WaitGone(t, p)
    BY <2>4 DEF WaitGone, Closed
  <2>. QED BY <1>4, <2>1, <2>2, <2>3, <2>4
<1>. QED BY <1>1, <1>2, <1>3, <1>4 DEF SyncNext

\* Signal gives one credit per registered parameter, a passage uses one, and erasing or
\* registering a parameter gives none.
LEMMA CreditStep ==
    ASSUME SyncTypeOK, Credit, SyncNext PROVE Credit'
<1> USE DEF SyncTypeOK, Credit
<1>1. CASE Signal
  BY <1>1 DEF Signal, Opened
<1>2. ASSUME NEW p \in Params, AddThread(p) \/ DelThread(p) PROVE Credit'
  BY <1>2 DEF AddThread, DelThread
<1>3. ASSUME NEW t \in Callers, SyncSpurious(t) PROVE Credit'
  BY <1>3 DEF SyncSpurious
<1>4. ASSUME NEW t \in Callers, NEW p \in Params,
             WaitPass(t, p) \/ WaitDoze(t, p) \/ WaitSkip(t, p) \/ WaitGone(t, p)
      PROVE  Credit'
  <2>1. CASE WaitPass(t, p)
    BY <2>1 DEF WaitPass, Closed
  <2>2. CASE WaitDoze(t, p) \/ WaitSkip(t, p)
    BY <2>2 DEF WaitDoze, WaitSkip, syncVars
  <2>3. CASE WaitGone(t, p)
    BY <2>3 DEF WaitGone, Closed
  <2>. QED BY <1>4, <2>1, <2>2, <2>3
<1>. QED BY <1>1, <1>2, <1>3, <1>4 DEF SyncNext

\* The broadcast of Signal leaves nobody asleep; a caller goes to sleep only on a flag
\* that is not set, and only Signal sets flags.
LEMMA SleeperStep ==
    ASSUME SyncTypeOK, NoSleeperAtOpenGate, SyncNext PROVE NoSleeperAtOpenGate'
<1> USE DEF SyncTypeOK, NoSleeperAtOpenGate
<1>1. CASE Signal
  <2>1. CASE \A p \in Params : gate[p] = -1
    BY <1>1, <2>1 DEF Signal, Opened, Broadcast
  <2>2. CASE ~ \A p \in Params : gate[p] = -1
    BY <1>1, <2>2 DEF Signal, Broadcast
  <2>. QED BY <2>1, <2>2
<1>2. ASSUME NEW p \in Params, AddThread(p) \/ DelThread(p) PROVE NoSleeperAtOpenGate'
  BY <1>2 DEF AddThread, DelThread
<1>3. ASSUME NEW t \in Callers, SyncSpurious(t) PROVE NoSleeperAtOpenGate'
  BY <1>3 DEF SyncSpurious
<1>4. ASSUME NEW t \in Callers, NEW p \in Params,
             WaitPass(t, p) \/ WaitDoze(t, p) \/ WaitSkip(t, p) \/ WaitGone(t, p)
      PROVE  NoSleeperAtOpenGate'
  <2>1. CASE WaitPass(t, p)
    BY <2>1 DEF WaitPass, Closed
  <2>2. CASE WaitDoze(t, p)
    BY <2>2 DEF WaitDoze
  <2>3. CASE WaitSkip(t, p)
    BY <2>3 DEF WaitSkip, syncVars
  <2>4. CASE WaitGone(t, p)
    BY <2>4 DEF WaitGone, Closed
  <2>. QED BY <1>4, <2>1, <2>2, <2>3, <2>4
<1>. QED BY <1>1, <1>2, <1>3, <1>4 DEF SyncNext

LEMMA GateKept == GateInv /\ [SyncNext]_syncVars => GateInv'
<1> SUFFICES ASSUME GateInv, [SyncNext]_syncVars PROVE GateInv'
  OBVIOUS
<1>1. CASE SyncNext
  BY <1>1, GateTypes, CreditStep, SleeperStep DEF GateInv
<1>2. CASE UNCHANGED syncVars
  BY <1>2 DEF syncVars, GateInv, SyncTypeOK, Credit, NoSleeperAtOpenGate
<1>. QED BY <1>1, <1>2

LEMMA GateSound == GateInv => OncePerSignal /\ NoSleeperAtOpenGate /\ SyncTypeOK
  BY DEF GateInv, SyncTypeOK, Credit, OncePerSignal

\* The inductive invariant of the gate.
THEOREM GateInductive == SyncSpec => []GateInv
  BY GateStart, GateKept, PTL DEF SyncSpec

\* One Signal lets at most one caller per parameter through (MultiThreadSync_Linux.cpp,
\* lines 32-34 and 45-47), however many share the parameter or come and go.
THEOREM GateOnce == SyncSpec => []OncePerSignal
  BY GateInductive, GateSound, PTL

\* No caller stays in pthread_cond_wait (line 33) in front of a flag that is set.
THEOREM GateNoSleeper == SyncSpec => []NoSleeperAtOpenGate
  BY GateInductive, GateSound, PTL

-----------------------------------------------------------------------------
(* SemaphoreExImpl *)

\* The arguments of Init are positive, so is what callers ask for.
LEMMA UnitsType ==
    ASSUME NEW n \in Int, NEW limit \in Nat \ {0}
    PROVE  Units(n, limit) \in 1..limit
  BY DEF Units

\* An unsigned char wraps; the wrapped sum is no larger than the sum.
LEMMA Wrapped ==
    ASSUME NEW a \in Nat PROVE a % Width \in 0..(Width - 1) /\ a % Width <= a
<1>1. Width \in Nat \ {0}
  BY ConstantAssumption
<1>2. a % Width \in 0..(Width - 1)
  BY <1>1
<1>3. CASE a < Width
  <2>1. a % Width = a
    BY <1>1, <1>3
  <2>. QED BY <1>2, <2>1
<1>4. CASE a >= Width
  BY <1>1, <1>2, <1>4
<1>. QED BY <1>1, <1>3, <1>4

\* What is left of the units is not more than what was posted and not taken.
UnitsLeft == taken + count <= NCount + posted
SemInv == TypeOK /\ UnitsLeft

\* Each call keeps the types and the units.
LEMMA SemStep == ASSUME SemInv, Next PROVE SemInv'
<1> USE ConstantAssumption DEF SemInv, TypeOK, UnitsLeft
<1>1. ASSUME NEW t \in Threads, NEW n \in SignalArgs, SemSignal(t, n) PROVE SemInv'
  <2>1. Units(n, NPost) \in 1..NPost
    BY UnitsType
  <2>2. count + Units(n, NPost) \in Nat
    BY <2>1
  <2>3. count' \in 0..(Width - 1) /\ count' <= count + Units(n, NPost)
    BY <1>1, <2>2, Wrapped DEF SemSignal
  <2>4. asleep' \subseteq asleep
    BY <1>1 DEF SemSignal, WakeOne
  <2>5. posts' = posts + 1 /\ posts < MaxPosts /\ posted' = posted + Units(n, NPost)
        /\ UNCHANGED <<need, taken>>
    BY <1>1 DEF SemSignal
  <2>6. UnitsLeft'
    BY <2>1, <2>3, <2>5
  <2>. QED BY <2>1, <2>3, <2>4, <2>5, <2>6
<1>2. ASSUME NEW t \in Threads, NEW n \in WaitArgs, SemWait(t, n) PROVE SemInv'
  <2>1. Units(n, NWait) \in 1..NWait
    BY UnitsType
  <2>. QED BY <1>2, <2>1 DEF SemWait
<1>3. ASSUME NEW t \in Threads, WaitSleep(t) PROVE SemInv'
  BY <1>3 DEF WaitSleep
<1>4. ASSUME NEW t \in Threads, WaitTake(t) PROVE SemInv'
  <2>1. need[t] \in 1..NWait /\ count - need[t] \in 0..(Width - 1)
    BY <1>4 DEF WaitTake, Enough
  <2>2. count' = count - need[t]
    BY <1>4, <2>1 DEF WaitTake
  <2>. QED BY <1>4, <2>1, <2>2 DEF WaitTake
<1>5. ASSUME NEW t \in Threads, Spurious(t) PROVE SemInv'
  BY <1>5 DEF Spurious
<1>. QED BY <1>1, <1>2, <1>3, <1>4, <1>5 DEF Next

\* The semaphore keeps its types, and the units left are not more than the posted ones.
THEOREM SemInductive == Spec => []SemInv
<1>1. Init => SemInv
  BY ConstantAssumption DEF Init, SemInv, TypeOK, UnitsLeft
<1>2. SemInv /\ [Next]_vars => SemInv'
  <2> SUFFICES ASSUME SemInv, [Next]_vars PROVE SemInv'
    OBVIOUS
  <2>1. CASE Next
    BY <2>1, SemStep
  <2>2. CASE UNCHANGED vars
    BY <2>2 DEF vars, SemInv, TypeOK, UnitsLeft
  <2>. QED BY <2>1, <2>2
<1>. QED BY <1>1, <1>2, PTL DEF Spec

\* Never more units are taken than were posted (SemaphoreExImpl_Linux.cpp, lines 19-34), for
\* any mix of arguments and although m_nCount wraps at the width of an unsigned char.
THEOREM UnitsSafe == Spec => []NotOverdrawn
<1>1. SemInv => NotOverdrawn
  BY ConstantAssumption DEF SemInv, TypeOK, UnitsLeft, NotOverdrawn
<1>. QED BY <1>1, SemInductive, PTL

-----------------------------------------------------------------------------
(* Sleepers *)

\* Single units are posted and everybody takes the same number of them.
SameShare == NPost = 1 /\ \A n, m \in WaitArgs : Units(n, NWait) = Units(m, NWait)
Share == Units(CHOOSE n \in WaitArgs : TRUE, NWait)

\* The threads that will test m_nCount again.
Awake == {t \in Threads : need[t] > 0 /\ t \notin asleep}

\* As long as somebody sleeps, every unit beyond those that were too few came with the
\* wake-up of a thread that has not taken its units yet.
WakeInv ==
    SameShare =>
        /\ \A t \in Threads : need[t] \in {0, Share}
        /\ asleep # {} => count < Share + Cardinality(Awake)

\* The awake threads are counted.
LEMMA AwakeCount ==
    ASSUME NEW S \in SUBSET Threads, NEW T \in SUBSET Threads
    PROVE  /\ Cardinality(S) \in Nat /\ Cardinality(T) \in Nat
           /\ S \subseteq T => Cardinality(S) <= Cardinality(T)
           /\ \A x : x \notin S /\ T = S \cup {x} => Cardinality(T) = Cardinality(S) + 1
           /\ \A x : x \in S /\ T = S \ {x} => Cardinality(T) = Cardinality(S) - 1
<1>1. IsFiniteSet(S) /\ IsFiniteSet(T)
  BY ConstantAssumption, FS_Subset
<1>2. Cardinality(S) \in Nat /\ Cardinality(T) \in Nat
  BY <1>1, FS_CardinalityType
<1>3. S \subseteq T => Cardinality(S) <= Cardinality(T)
  BY <1>1, FS_Subset
<1>4. ASSUME NEW x, x \notin S, T = S \cup {x} PROVE Cardinality(T) = Cardinality(S) + 1
  BY <1>1, <1>4, FS_AddElement
<1>5. ASSUME NEW x, x \in S, T = S \ {x} PROVE Cardinality(T) = Cardinality(S) - 1
  BY <1>1, <1>5, FS_RemoveElement
<1>. QED BY <1>2, <1>3, <1>4, <1>5

\* Each call keeps the wake-ups in step with the units.
LEMMA WakeStep == ASSUME SemInv, WakeInv, Next PROVE WakeInv'
<1> SUFFICES ASSUME SameShare
             PROVE  /\ \A t \in Threads : need'[t] \in {0, Share}
                    /\ asleep' # {} => count' < Share + Cardinality(Awake')
  BY DEF WakeInv
<1>0. /\ \A t \in Threads : need[t] \in {0, Share}
      /\ asleep # {} => count < Share + Cardinality(Awake)
  BY DEF WakeInv
<1>00. /\ Awake \in SUBSET Threads /\ Awake' \in SUBSET Threads
       /\ Cardinality(Awake) \in Nat /\ Cardinality(Awake') \in Nat
  BY AwakeCount DEF Awake
<1> USE ConstantAssumption DEF SemInv, TypeOK
<1>s. \A n \in WaitArgs : Share = Units(n, NWait) /\ Share \in 1..NWait
  <2> TAKE n \in WaitArgs
  <2>1. (CHOOSE m \in WaitArgs : TRUE) \in WaitArgs
    OBVIOUS
  <2>2. Share = Units(n, NWait)
    BY <2>1 DEF SameShare, Share
  <2>3. n \in Int /\ NWait \in Nat \ {0}
    OBVIOUS
  <2>. QED BY <2>2, <2>3, UnitsType
<1>1. ASSUME NEW t \in Threads, NEW n \in SignalArgs, SemSignal(t, n)
      PROVE  /\ \A u \in Threads : need'[u] \in {0, Share}
             /\ asleep' # {} => count' < Share + Cardinality(Awake')
  <2>1. Units(n, NPost) = 1
    BY UnitsType DEF SameShare
  <2>2. count' <= count + 1 /\ count' \in Nat /\ need' = need
    <3>1. count + 1 \in Nat
      OBVIOUS
    <3>. QED BY <1>1, <2>1, <3>1, Wrapped DEF SemSignal
  <2>3. ASSUME asleep' # {} PROVE count' < Share + Cardinality(Awake')
    <3>1. PICK u \in asleep : asleep' = asleep \ {u}
      BY <1>1, <2>3 DEF SemSignal, WakeOne
    <3>2. u \in Threads /\ need[u] > 0 /\ need[u] \in {0, Share}
      BY <1>0
    <3>3. u \notin Awake /\ Awake' = Awake \cup {u}
      BY <2>2, <3>1, <3>2 DEF Awake
    <3>4. Cardinality(Awake') = Cardinality(Awake) + 1
      BY <1>00, <3>3, AwakeCount
    <3>. QED BY <1>0, <1>00, <2>2, <3>2, <3>4
  <2>. QED BY <1>0, <2>2, <2>3
<1>2. ASSUME NEW t \in Threads, NEW n \in WaitArgs, SemWait(t, n)
      PROVE  /\ \A u \in Threads : need'[u] \in {0, Share}
             /\ asleep' # {} => count' < Share + Cardinality(Awake')
  <2>1. need' = [need EXCEPT ![t] = Share] /\ need[t] = 0 /\ UNCHANGED <<count, asleep>>
    BY <1>2, <1>s DEF SemWait
  <2>2. Awake \subseteq Awake'
    BY <2>1 DEF Awake
  <2>3. Cardinality(Awake) <= Cardinality(Awake')
    BY <1>00, <2>2, AwakeCount
  <2>4. Share \in Nat
    BY <1>s
  <2>. QED BY <1>0, <1>00, <2>1, <2>3, <2>4
<1>3. ASSUME NEW t \in Threads, WaitSleep(t)
      PROVE  /\ \A u \in Threads : need'[u] \in {0, Share}
             /\ asleep' # {} => count' < Share + Cardinality(Awake')
  <2>1. need[t] = Share /\ Share \in Nat /\ count < Share /\ UNCHANGED <<need, count>>
    BY <1>0, <1>3 DEF WaitSleep, Enough
  <2>. QED BY <1>0, <1>00, <2>1
<1>4. ASSUME NEW t \in Threads, WaitTake(t)
      PROVE  /\ \A u \in Threads : need'[u] \in {0, Share}
             /\ asleep' # {} => count' < Share + Cardinality(Awake')
  <2>1. /\ need[t] = Share /\ Share \in 1..NWait /\ count >= Share /\ t \notin asleep
        /\ need' = [need EXCEPT ![t] = 0] /\ asleep' = asleep
    BY <1>0, <1>4 DEF WaitTake, Enough
  <2>2. count' = count - Share
    <3>1. count' = (count - Share) % Width /\ count - Share \in 0..(Width - 1)
      BY <1>4, <2>1 DEF WaitTake
    <3>. QED BY <3>1
  <2>3. t \in Awake /\ Awake' = Awake \ {t}
    BY <2>1 DEF Awake
  <2>4. Cardinality(Awake') = Cardinality(Awake) - 1
    BY <1>00, <2>3, AwakeCount
  <2>. QED BY <1>0, <1>00, <2>1, <2>2, <2>4
<1>5. ASSUME NEW t \in Threads, Spurious(t)
      PROVE  /\ \A u \in Threads : need'[u] \in {0, Share}
             /\ asleep' # {} => count' < Share + Cardinality(Awake')
  <2>1. UNCHANGED <<need, count>> /\ asleep' \subseteq asleep /\ t \in asleep
    BY <1>5 DEF Spurious
  <2>2. Awake \subseteq Awake'
    BY <2>1 DEF Awake
  <2>3. Cardinality(Awake) <= Cardinality(Awake')
    BY <1>00, <2>2, AwakeCount
  <2>4. need[t] > 0 /\ need[t] \in {0, Share} /\ need[t] \in Nat
    BY <1>0, <2>1
  <2>5. Share \in Nat
    BY <2>4
  <2>. QED BY <1>0, <1>00, <2>1, <2>3, <2>5
<1>. QED BY <1>1, <1>2, <1>3, <1>4, <1>5 DEF Next

\* A sleeper whose units are there is never forgotten (lines 22 and 29): pthread_cond_signal
\* wakes one sleeper per post, and that is enough, however many threads overtake it.
THEOREM SleepersSafe == Spec => []NoLostWakeup
<1>1. Init => WakeInv
  BY DEF Init, WakeInv
<1>2. SemInv /\ WakeInv /\ [Next]_vars => WakeInv'
  <2> SUFFICES ASSUME SemInv, WakeInv, [Next]_vars PROVE WakeInv'
    OBVIOUS
  <2>1. CASE Next
    BY <2>1, WakeStep
  <2>2. CASE UNCHANGED vars
    BY <2>2 DEF vars, WakeInv, Awake
  <2>. QED BY <2>1, <2>2
<1>3. SemInv /\ WakeInv => NoLostWakeup
  <2> SUFFICES ASSUME SemInv, WakeInv, SameShare, NEW t \in asleep, Enough(t)
               PROVE  \E u \in Threads : need[u] > 0 /\ u \notin asleep
    BY DEF NoLostWakeup, SameShare
  <2>1. need[t] = Share /\ Share \in Nat /\ count \in Nat /\ count >= Share
    BY ConstantAssumption DEF SemInv, TypeOK, WakeInv, Enough
  <2>2. count < Share + Cardinality(Awake)
    BY DEF WakeInv
  <2>3. Cardinality(Awake) \in Nat /\ Awake \in SUBSET Threads
    BY AwakeCount DEF Awake
  <2>4. Cardinality(Awake) # 0
    BY <2>1, <2>2, <2>3
  <2>5. Awake # {}
    BY <2>4, FS_EmptySet
  <2>. QED BY <2>5 DEF Awake
<1>. QED BY <1>1, <1>2, <1>3, SemInductive, PTL DEF Spec

-----------------------------------------------------------------------------
(* The gate inside the barrier *)

\* A step of the barrier is a step of its gate or leaves the gate alone.
LEMMA GateSteps == ASSUME [CtrlNext]_barrierVars PROVE [SyncNext]_syncVars
<1>1. CASE UNCHANGED barrierVars
  BY <1>1 DEF barrierVars
<1>2. CASE Coordinator
  BY <1>2 DEF Coordinator, SyncSignal, SyncSemWait, SyncSleep, SyncReturn, SyncNext
<1>3. ASSUME NEW w \in Workers, Worker(w) PROVE [SyncNext]_syncVars
  <2>1. w \in Callers /\ w \in Params
    BY CtrlAssumption
  <2>2. CASE WorkerPass(w)
    BY <2>1, <2>2 DEF WorkerPass, SyncNext
  <2>3. CASE WorkerSleep(w)
    BY <2>1, <2>3 DEF WorkerSleep, SyncNext
  <2>4. CASE WorkerPart(w)
    BY <2>4 DEF WorkerPart
  <2>5. CASE WorkerDone(w)
    BY <2>5 DEF WorkerDone
  <2>6. CASE WorkerLeave(w)
    BY <2>1, <2>6 DEF WorkerLeave, SyncNext
  <2>7. CASE WorkerJoin(w)
    BY <2>1, <2>7 DEF WorkerJoin, SyncNext
  <2>. QED BY <1>3, <2>2, <2>3, <2>4, <2>5, <2>6, <2>7 DEF Worker
<1>. QED BY <1>1, <1>2, <1>3 DEF CtrlNext

LEMMA GateOfBarrier == ASSUME CtrlInit PROVE GateInv
<1>1. gate \in [Params -> {-1, 0, 1}] /\ passes \in [Params -> Nat]
  BY DEF CtrlInit
<1>2. waiting \in [Callers -> {{}} \cup {{p} : p \in Params}]
  BY DEF CtrlInit
<1>3. dozing \subseteq {t \in Callers : waiting[t] # {}} /\ gone \in BOOLEAN
  BY DEF CtrlInit
<1>4. signals \in 0..MaxSignals
  BY SignalsAssumption DEF CtrlInit
<1>5. Credit
  BY DEF CtrlInit, Credit
<1>6. NoSleeperAtOpenGate
  BY DEF CtrlInit, NoSleeperAtOpenGate
<1>. QED BY <1>1, <1>2, <1>3, <1>4, <1>5, <1>6 DEF GateInv, SyncTypeOK

\* The invariant of the gate holds in the barrier, whose workers are registered from the
\* beginning: one passage per round and worker, and no worker asleep in front of an open gate.
THEOREM BarrierGate == CtrlSpec => [](OncePerSignal /\ NoSleeperAtOpenGate /\ SyncTypeOK)
  BY GateOfBarrier, GateSteps, GateKept, GateSound, PTL DEF CtrlSpec

-----------------------------------------------------------------------------
(* The barrier implements RoundBarrier *)

\* The workers whose unit of this round is in the semaphore.
Arrived == {w \in Workers : parts[w] = rounds + 1 /\ workerAt[w] # "done"}

\* A worker does not pass a second time before the round is over, and each unit is one
\* worker's.
RoundOf(w) ==
    /\ parts[w] = rounds \/ parts[w] = rounds + 1
    /\ gate[w] = 1 => workerAt[w] = "wait" /\ parts[w] = rounds
    /\ workerAt[w] = "part" => parts[w] = rounds
    /\ workerAt[w] = "done" => parts[w] = rounds + 1
    /\ workerAt[w] = "left" => gate[w] = -1
    /\ mainAt = "idle" => parts[w] = rounds /\ gate[w] # 1 /\ workerAt[w] \in {"wait", "left"}

RoundInv ==
    /\ \A w \in Workers : RoundOf(w)
    /\ semCount = Cardinality(Arrived)
    /\ semNeed[Main] = IF mainAt = "wait" THEN N ELSE 0

\* The types of the coordinator's and the workers' own state.
PlaceOK ==
    /\ gate \in [Params -> {-1, 0, 1}]
    /\ semCount \in 0..255 /\ semNeed \in [Workers \cup {Main} -> Nat]
    /\ mainAt \in {"idle", "call", "wait"}
    /\ workerAt \in [Workers -> {"wait", "part", "done", "left"}]
    /\ parts \in [Workers -> Nat] /\ rounds \in Nat

RoundsInv == PlaceOK /\ RoundInv

\* The units are those of the workers that have arrived.
LEMMA ArrivedCount ==
    ASSUME NEW S \in SUBSET Workers
    PROVE  /\ Cardinality(S) \in 0..N
           /\ Cardinality(S) = N => S = Workers
           /\ \A w \in Workers \ S : Cardinality(S \cup {w}) = Cardinality(S) + 1 /\ Cardinality(S) < N
<1>1. IsFiniteSet(S) /\ Cardinality(S) \in Nat /\ N = Cardinality(Workers)
  BY CtrlAssumption, FS_Subset, FS_CardinalityType
<1>2. Cardinality(S) <= N /\ (Cardinality(S) = N => S = Workers)
  BY <1>1, CtrlAssumption, FS_Subset
<1>3. ASSUME NEW w \in Workers \ S
      PROVE  Cardinality(S \cup {w}) = Cardinality(S) + 1 /\ Cardinality(S) < N
  <2>1. Cardinality(S \cup {w}) = Cardinality(S) + 1
    BY <1>1, FS_AddElement
  <2>2. S # Workers
    OBVIOUS
  <2>. QED BY <1>1, <1>2, <2>1, <2>2, CtrlAssumption
<1>. QED BY <1>1, <1>2, <1>3, CtrlAssumption

\* What none of the steps between two waits touches.
LEMMA RoundsFrame ==
    ASSUME RoundsInv, UNCHANGED <<gate, semCount, semNeed, mainAt, workerAt, parts, rounds>>
    PROVE  RoundsInv'
<1>1. PlaceOK'
  BY DEF RoundsInv, PlaceOK
<1>2. Arrived' = Arrived
  BY DEF Arrived
<1>3. ASSUME NEW w \in Workers PROVE RoundOf(w)'
  <2>1. RoundOf(w)
    BY DEF RoundsInv, RoundInv
  <2>. QED BY <2>1 DEF RoundOf
<1>4. RoundInv'
  BY <1>2, <1>3 DEF RoundsInv, RoundInv
<1>. QED BY <1>1, <1>4 DEF RoundsInv

\* The steps of the coordinator keep the rounds; the one that ends SyncTaskOneTime ends the
\* round of the specification, with the parts of all workers done.
LEMMA RoundsCoordinator ==
    ASSUME RoundsInv, Coordinator
    PROVE  RoundsInv' /\ (Barrier!EndRound \/ UNCHANGED <<parts, rounds>>)
<1>0. /\ gate \in [Params -> {-1, 0, 1}] /\ Workers \subseteq Params /\ N \in 1..255
      /\ Arrived \in SUBSET Workers
  BY CtrlAssumption DEF RoundsInv, PlaceOK, Arrived
<1> USE DEF RoundsInv
<1>1. ASSUME SyncSignal PROVE RoundsInv' /\ UNCHANGED <<parts, rounds>>
  <2>1. /\ mainAt = "idle" /\ mainAt' = "call" /\ gate' = Opened
        /\ UNCHANGED <<semCount, semNeed, workerAt, parts, rounds>>
    BY <1>1 DEF SyncSignal, Signal, semVars
  <2>2. PlaceOK'
    BY <1>0, <2>1 DEF PlaceOK, Opened
  <2>3. ASSUME NEW w \in Workers PROVE RoundOf(w)'
    <3>1. RoundOf(w)
      BY DEF RoundInv
    <3>2. gate'[w] = IF gate[w] = -1 THEN -1 ELSE 1
      BY <1>0, <2>1 DEF Opened
    <3>3. workerAt[w] \in {"wait", "left"} /\ parts[w] = rounds
      BY <2>1, <3>1 DEF RoundOf
    <3>. QED BY <2>1, <3>1, <3>2, <3>3 DEF RoundOf
  <2>4. Arrived' = Arrived
    BY <2>1 DEF Arrived
  <2>. QED BY <2>1, <2>2, <2>3, <2>4 DEF RoundInv
<1>2. ASSUME SyncSemWait PROVE RoundsInv' /\ UNCHANGED <<parts, rounds>>
  <2>1. /\ mainAt = "call" /\ mainAt' = "wait" /\ semNeed[Main] = 0
        /\ semNeed' = [semNeed EXCEPT ![Main] = N]
        /\ UNCHANGED <<gate, semCount, workerAt, parts, rounds>>
    BY <1>0, <1>2 DEF SyncSemWait, Sem!SemWait, Sem!Units, syncVars
  <2>2. PlaceOK' /\ Arrived' = Arrived
    BY <1>0, <2>1 DEF PlaceOK, Arrived
  <2>3. \A w \in Workers : RoundOf(w)'
    BY <2>1 DEF RoundInv, RoundOf
  <2>4. semNeed'[Main] = N
    BY <2>1 DEF PlaceOK
  <2>. QED BY <2>1, <2>2, <2>3, <2>4 DEF RoundInv
<1>3. ASSUME SyncSleep PROVE RoundsInv' /\ UNCHANGED <<parts, rounds>>
  <2>1. UNCHANGED <<gate, semCount, semNeed, mainAt, workerAt, parts, rounds>>
    BY <1>3 DEF SyncSleep, Sem!WaitSleep, Sem!Spurious, syncVars, ctrlVars
  <2>. QED BY <2>1, RoundsFrame
<1>4. ASSUME SyncReturn PROVE RoundsInv' /\ Barrier!EndRound
  <2>1. /\ mainAt = "wait" /\ mainAt' = "idle" /\ rounds' = rounds + 1
        /\ semCount >= semNeed[Main] /\ semCount' = (semCount - semNeed[Main]) % 256
        /\ semNeed' = [semNeed EXCEPT ![Main] = 0]
        /\ UNCHANGED <<gate, workerAt, parts>>
    BY <1>4 DEF SyncReturn, Sem!WaitTake, Sem!Enough, syncVars
  <2>2. semNeed[Main] = N /\ semCount = Cardinality(Arrived)
    BY <2>1 DEF RoundInv
  <2>3. Cardinality(Arrived) = N /\ Arrived = Workers
    BY <1>0, <2>1, <2>2, ArrivedCount
  <2>4. ASSUME NEW w \in Workers
        PROVE  parts[w] = rounds + 1 /\ workerAt[w] \in {"wait", "left"} /\ gate[w] # 1
    <3>1. parts[w] = rounds + 1 /\ workerAt[w] # "done"
      BY <2>3 DEF Arrived
    <3>2. rounds \in Nat /\ workerAt[w] \in {"wait", "part", "done", "left"}
      BY DEF PlaceOK
    <3>3. RoundOf(w)
      BY DEF RoundInv
    <3>. QED BY <3>1, <3>2, <3>3 DEF RoundOf
  <2>5. semCount' = 0
    BY <1>0, <2>1, <2>2, <2>3
  <2>6. PlaceOK'
    <3>1. semCount' \in 0..255 /\ rounds' \in Nat /\ mainAt' \in {"idle", "call", "wait"}
      BY <2>1, <2>5 DEF PlaceOK
    <3>2. semNeed' \in [Workers \cup {Main} -> Nat]
      BY <2>1 DEF PlaceOK
    <3>. QED BY <2>1, <3>1, <3>2 DEF PlaceOK
  <2>7. rounds' \in Nat /\ rounds' # rounds' + 1
    BY <2>1 DEF PlaceOK
  <2>8. \A w \in Workers : RoundOf(w)'
    <3>1. ASSUME NEW w \in Workers PROVE RoundOf(w)'
      <4>1. workerAt[w] = "left" => gate[w] = -1
        BY DEF RoundInv, RoundOf
      <4>. QED BY <2>1, <2>4, <4>1 DEF RoundOf
    <3>. QED BY <3>1
  <2>9. Arrived' = {} /\ Cardinality(Arrived') = 0
    <3>1. Arrived' = {}
      BY <2>1, <2>4, <2>7 DEF Arrived
    <3>. QED BY <3>1, FS_EmptySet
  <2>10. semNeed'[Main] = 0
    BY <2>1 DEF PlaceOK
  <2>11. Barrier!EndRound
    BY <2>1, <2>4 DEF Barrier!EndRound
  <2>. QED BY <2>1, <2>5, <2>6, <2>8, <2>9, <2>10, <2>11 DEF RoundInv
<1>. QED BY <1>1, <1>2, <1>3, <1>4 DEF Coordinator

\* The steps of a worker keep the rounds, and its part is the part of the specification.
LEMMA RoundsWorker ==
    ASSUME RoundsInv, NEW w \in Workers, Worker(w)
    PROVE  RoundsInv' /\ (Barrier!DoPart(w) \/ UNCHANGED <<parts, rounds>>)
<1>0. /\ gate \in [Params -> {-1, 0, 1}] /\ Workers \subseteq Params /\ N \in 1..255
      /\ Main \notin Workers /\ w \in Params /\ Arrived \in SUBSET Workers
      /\ workerAt \in [Workers -> {"wait", "part", "done", "left"}]
      /\ parts \in [Workers -> Nat] /\ rounds \in Nat
      /\ \A v \in Workers : RoundOf(v)
  BY CtrlAssumption DEF RoundsInv, PlaceOK, RoundInv, Arrived
<1> USE DEF RoundsInv
\* What a step does to the other workers and to the units, when it neither adds a unit nor
\* does a part.
<1>1. ASSUME UNCHANGED <<semCount, semNeed, mainAt, parts, rounds>>,
             NEW at \in {"wait", "part", "left"}, workerAt[w] # "done",
             workerAt' = [workerAt EXCEPT ![w] = at],
             gate' \in [Params -> {-1, 0, 1}], \A v \in Workers \ {w} : gate'[v] = gate[v],
             RoundOf(w)'
      PROVE  RoundsInv'
  <2>1. PlaceOK'
    BY <1>0, <1>1 DEF PlaceOK
  <2>2. ASSUME NEW v \in Workers PROVE RoundOf(v)'
    <3>1. CASE v = w
      BY <1>1, <3>1
    <3>2. CASE v # w
      <4>1. gate'[v] = gate[v] /\ workerAt'[v] = workerAt[v] /\ RoundOf(v)
        BY <1>0, <1>1, <3>2
      <4>. QED BY <1>1, <4>1 DEF RoundOf
    <3>. QED BY <3>1, <3>2
  <2>3. Arrived' = Arrived
    BY <1>0, <1>1 DEF Arrived
  <2>. QED BY <1>1, <2>1, <2>2, <2>3 DEF RoundInv
<1>2. ASSUME WorkerPass(w) PROVE RoundsInv' /\ UNCHANGED <<parts, rounds>>
  <2>1. /\ workerAt[w] = "wait" /\ workerAt' = [workerAt EXCEPT ![w] = "part"]
        /\ gate[w] = 1 /\ gate' = [gate EXCEPT ![w] = 0]
        /\ UNCHANGED <<semCount, semNeed, mainAt, parts, rounds>>
    BY <1>2 DEF WorkerPass, WaitPass, Closed, semVars
  <2>2. gate'[w] = 0 /\ workerAt'[w] = "part" /\ RoundOf(w)
    BY <1>0, <2>1
  <2>3. RoundOf(w)'
    BY <2>1, <2>2 DEF RoundOf
  <2>. QED BY <1>0, <1>1, <2>1, <2>3
<1>3. ASSUME WorkerSleep(w) PROVE RoundsInv' /\ UNCHANGED <<parts, rounds>>
  <2>1. UNCHANGED <<gate, semCount, semNeed, mainAt, workerAt, parts, rounds>>
    BY <1>3 DEF WorkerSleep, WaitDoze, SyncSpurious, semVars, ctrlVars
  <2>. QED BY <2>1, RoundsFrame
<1>4. ASSUME WorkerPart(w) PROVE RoundsInv' /\ Barrier!DoPart(w)
  <2>1. /\ workerAt[w] = "part" /\ workerAt' = [workerAt EXCEPT ![w] = "done"]
        /\ parts' = [parts EXCEPT ![w] = parts[w] + 1]
        /\ UNCHANGED <<gate, semCount, semNeed, mainAt, rounds>>
    BY <1>4 DEF WorkerPart, syncVars, semVars
  <2>2. parts[w] = rounds /\ RoundOf(w)
    BY <1>0, <2>1 DEF RoundOf
  <2>3. parts'[w] = rounds + 1 /\ workerAt'[w] = "done" /\ rounds + 1 # rounds
    BY <1>0, <2>1, <2>2
  <2>4. PlaceOK'
    BY <1>0, <2>1 DEF PlaceOK
  <2>5. ASSUME NEW v \in Workers PROVE RoundOf(v)'
    <3>1. CASE v = w
      BY <2>1, <2>2, <2>3, <3>1 DEF RoundOf
    <3>2. CASE v # w
      <4>1. parts'[v] = parts[v] /\ workerAt'[v] = workerAt[v] /\ RoundOf(v)
        BY <1>0, <2>1, <3>2
      <4>. QED BY <2>1, <4>1 DEF RoundOf
    <3>. QED BY <3>1, <3>2
  <2>6. Arrived' = Arrived
    <3>1. w \notin Arrived /\ w \notin Arrived'
      BY <2>1, <2>2, <2>3 DEF Arrived
    <3>2. ASSUME NEW v \in Workers \ {w} PROVE v \in Arrived' <=> v \in Arrived
      BY <1>0, <2>1 DEF Arrived
    <3>3. Arrived \subseteq Workers /\ Arrived' \subseteq Workers
      BY DEF Arrived
    <3>. QED BY <3>1, <3>2, <3>3
  <2>7. Barrier!DoPart(w)
    BY <2>1, <2>2 DEF Barrier!DoPart
  <2>. QED BY <2>1, <2>4, <2>5, <2>6, <2>7 DEF RoundInv
<1>5. ASSUME WorkerDone(w) PROVE RoundsInv' /\ UNCHANGED <<parts, rounds>>
  <2>1. /\ workerAt[w] = "done" /\ workerAt' = [workerAt EXCEPT ![w] = "wait"]
        /\ semCount' = (semCount + 1) % 256
        /\ UNCHANGED <<gate, semNeed, mainAt, parts, rounds>>
    BY <1>5 DEF WorkerDone, Sem!SemSignal, Sem!Units, syncVars
  <2>2. parts[w] = rounds + 1 /\ gate[w] # 1 /\ mainAt # "idle" /\ RoundOf(w)
    <3>1. RoundOf(w)
      BY <1>0
    <3>. QED BY <2>1, <3>1 DEF RoundOf
  <2>3. w \in Workers \ Arrived /\ Arrived' = Arrived \cup {w}
    <3>1. w \notin Arrived
      BY <2>1 DEF Arrived
    <3>2. w \in Arrived'
      BY <1>0, <2>1, <2>2 DEF Arrived
    <3>3. ASSUME NEW v \in Workers \ {w} PROVE v \in Arrived' <=> v \in Arrived
      BY <1>0, <2>1 DEF Arrived
    <3>4. Arrived \subseteq Workers /\ Arrived' \subseteq Workers
      BY DEF Arrived
    <3>. QED BY <3>1, <3>2, <3>3, <3>4
  <2>4. /\ Cardinality(Arrived') = Cardinality(Arrived) + 1 /\ Cardinality(Arrived) < N
        /\ Cardinality(Arrived) \in 0..N
    BY <1>0, <2>3, ArrivedCount
  <2>5. semCount' = Cardinality(Arrived') /\ semCount' \in 0..255
    <3>1. semCount = Cardinality(Arrived)
      BY DEF RoundInv
    <3>2. semCount + 1 \in 0..255
      BY <1>0, <2>4, <3>1
    <3>. QED BY <2>1, <2>4, <3>1, <3>2
  <2>6. PlaceOK'
    BY <1>0, <2>1, <2>5 DEF PlaceOK
  <2>7. ASSUME NEW v \in Workers PROVE RoundOf(v)'
    <3>1. CASE v = w
      <4>1. workerAt'[w] = "wait"
        BY <1>0, <2>1
      <4>. QED BY <2>1, <2>2, <3>1, <4>1 DEF RoundOf
    <3>2. CASE v # w
      <4>1. workerAt'[v] = workerAt[v] /\ RoundOf(v)
        BY <1>0, <2>1, <3>2
      <4>. QED BY <2>1, <4>1 DEF RoundOf
    <3>. QED BY <3>1, <3>2
  <2>. QED BY <2>1, <2>5, <2>6, <2>7 DEF RoundInv
<1>6. ASSUME WorkerLeave(w) PROVE RoundsInv' /\ UNCHANGED <<parts, rounds>>
  <2>1. /\ workerAt[w] = "wait" /\ workerAt' = [workerAt EXCEPT ![w] = "left"]
        /\ gate' = [gate EXCEPT ![w] = -1]
        /\ UNCHANGED <<semCount, semNeed, mainAt, parts, rounds>>
    BY <1>6 DEF WorkerLeave, DelThread, semVars
  <2>2. gate'[w] = -1 /\ workerAt'[w] = "left" /\ RoundOf(w)
    BY <1>0, <2>1
  <2>3. RoundOf(w)'
    BY <2>1, <2>2 DEF RoundOf
  <2>. QED BY <1>0, <1>1, <2>1, <2>3
<1>7. ASSUME WorkerJoin(w) PROVE RoundsInv' /\ UNCHANGED <<parts, rounds>>
  <2>1. /\ workerAt[w] = "left" /\ workerAt' = [workerAt EXCEPT ![w] = "wait"]
        /\ gate' = IF gate[w] = -1 THEN [gate EXCEPT ![w] = 0] ELSE gate
        /\ UNCHANGED <<semCount, semNeed, mainAt, parts, rounds>>
    BY <1>7 DEF WorkerJoin, AddThread, semVars
  <2>2. RoundOf(w) /\ gate[w] = -1 /\ workerAt'[w] = "wait"
    BY <1>0, <2>1 DEF RoundOf
  <2>3. gate' = [gate EXCEPT ![w] = 0] /\ gate'[w] = 0
    BY <1>0, <2>1, <2>2
  <2>4. RoundOf(w)'
    BY <2>1, <2>2, <2>3 DEF RoundOf
  <2>. QED BY <1>0, <1>1, <2>1, <2>3, <2>4
<1>. QED BY <1>2, <1>3, <1>4, <1>5, <1>6, <1>7 DEF Worker

\* TaskCtrl implements the abstract barrier (TaskCtrlImpl_Linux.cpp, lines 13-27): every
\* worker does its part once per round, and SyncTaskOneTime returns when all have, also when
\* workers leave and come back.
THEOREM BarrierImplemented == CtrlSpec => ImplementsBarrier
<1>1. CtrlInit => RoundsInv /\ Barrier!Init
  <2> SUFFICES ASSUME CtrlInit PROVE RoundsInv /\ Barrier!Init
    OBVIOUS
  <2>1. PlaceOK
    BY DEF CtrlInit, CtrlStart, Sem!Init, PlaceOK
  <2>2. Arrived = {} /\ Cardinality(Arrived) = 0
    <3>1. Arrived = {}
      BY DEF CtrlInit, CtrlStart, Arrived
    <3>. QED BY <3>1, FS_EmptySet
  <2>3. \A w \in Workers : RoundOf(w)
    BY CtrlAssumption DEF CtrlInit, CtrlStart, RoundOf
  <2>4. RoundInv
    BY <2>2, <2>3 DEF CtrlInit, CtrlStart, Sem!Init, RoundInv
  <2>5. Barrier!Init
    BY DEF CtrlInit, CtrlStart, Barrier!Init
  <2>. QED BY <2>1, <2>4, <2>5 DEF RoundsInv
<1>2. RoundsInv /\ [CtrlNext]_barrierVars => RoundsInv' /\ [Barrier!Next]_<<parts, rounds>>
  <2> SUFFICES ASSUME RoundsInv, [CtrlNext]_barrierVars
               PROVE  RoundsInv' /\ [Barrier!Next]_<<parts, rounds>>
    OBVIOUS
  <2>1. CASE Coordinator
    BY <2>1, RoundsCoordinator DEF Barrier!Next
  <2>2. ASSUME NEW w \in Workers, Worker(w)
        PROVE  RoundsInv' /\ [Barrier!Next]_<<parts, rounds>>
    BY <2>2, RoundsWorker DEF Barrier!Next
  <2>3. CASE UNCHANGED barrierVars
    BY <2>3, RoundsFrame DEF barrierVars, syncVars, semVars, ctrlVars
  <2>. QED BY <2>1, <2>2, <2>3 DEF CtrlNext
<1>. QED BY <1>1, <1>2, PTL DEF CtrlSpec, ImplementsBarrier, Barrier!Spec

-----------------------------------------------------------------------------
(* MultiSem *)

At(place) == {i \in Stations : stAt[i] = place}
Senders == {i \in Stations : stAt[i] \in {"sent", "done"}}
Elements(s) == {s[k] : k \in 1..Len(s)}
Messages == [no : Stations, data : 1..Loops]

StTypes ==
    /\ stAt \in [Stations \cup {Boss} -> {"begin", "ready", "working", "sent", "done", "ended", "exit",
                                          "started", "receiving", "full", "over"}]
    /\ stLoop \in [Stations \cup {Boss} -> 1..Loops]
    /\ stSem \in [Semaphores -> Int]
    /\ stSet = (stAt[Boss] # "exit")
    /\ stAt[Boss] \in {"begin", "started", "receiving", "full", "over", "exit"}
    /\ stQueue \in Seq(Messages) /\ stGot \in Seq(Messages)

\* C counts the stations that are not ready, M those that are not done.
StCounts ==
    stSet => /\ stSem["C"] + Cardinality(At("ready")) = Cardinality(Stations)
             /\ stSem["M"] + Cardinality(At("done")) = Cardinality(Stations)

\* Where a station is, with the value of its semaphore, for each place of the master.
InRound(i) ==
    /\ stAt[Boss] = "begin" =>
         \/ stAt[i] = "done" /\ stSem[i] = 1 /\ stLoop[i] + 1 = stLoop[Boss]
         \/ stAt[i] = "ended" /\ stSem[i] = 0 /\ stLoop[i] + 1 = stLoop[Boss]
         \/ stAt[i] = "begin" /\ stSem[i] = 2 /\ stLoop[i] = stLoop[Boss]
         \/ stAt[i] = "ready" /\ stSem[i] = 1 /\ stLoop[i] = stLoop[Boss]
    /\ stAt[Boss] \in {"started", "receiving", "full"} => stSem[i] = 0 /\ stLoop[i] = stLoop[Boss]
    /\ stAt[Boss] = "started" => stAt[i] \in {"ready", "working", "sent", "done"}
    /\ stAt[Boss] \in {"receiving", "full"} => stAt[i] = "done"
    /\ stAt[Boss] = "over" =>
         \/ stAt[i] = "done" /\ stSem[i] = 1
         \/ stAt[i] = "ended" /\ stSem[i] = 0
         \/ stAt[i] = "exit" /\ stSem[i] = 2
    /\ stAt[Boss] = "exit" => stAt[i] \in {"done", "ended", "exit"}
    /\ stAt[Boss] \in {"over", "exit"} => stLoop[i] = Loops /\ stLoop[Boss] = Loops

\* The messages of the round: one for each station that has sent, in the queue or received.
StMessages ==
    /\ stAt[Boss] \in {"begin", "over", "exit"} => stQueue = <<>>
    /\ stAt[Boss] \notin {"receiving", "full"} => stGot = <<>>
    /\ stAt[Boss] \in {"started", "receiving", "full"} =>
         /\ Elements(stQueue) \cup Elements(stGot) = [no : Senders, data : {stLoop[Boss]}]
         /\ Len(stQueue) + Len(stGot) = Cardinality(Senders)
    /\ stAt[Boss] = "full" => Len(stGot) = Cardinality(Stations)

StInv == StTypes /\ StCounts /\ (\A i \in Stations : InRound(i)) /\ StMessages

LEMMA StNames == Boss \notin Stations /\ "M" \notin Stations /\ "C" \notin Stations /\ IsFiniteSet(Stations) /\ Loops \in Nat /\ Loops >= 1
  BY StationAssumption

LEMMA ElementsAppend ==
    ASSUME NEW S, NEW s \in Seq(S), NEW x \in S
    PROVE  Elements(Append(s, x)) = Elements(s) \cup {x} /\ Len(Append(s, x)) = Len(s) + 1 /\ Append(s, x) \in Seq(S)
<1>1. /\ Append(s, x) \in Seq(S) /\ Len(Append(s, x)) = Len(s) + 1 /\ Len(s) \in Nat
      /\ \A i \in 1..Len(s) : Append(s, x)[i] = s[i]
      /\ Append(s, x)[Len(s) + 1] = x
  OBVIOUS
<1>2. 1..Len(Append(s, x)) = (1..Len(s)) \cup {Len(s) + 1}
  BY <1>1
<1>. QED BY <1>1, <1>2 DEF Elements

LEMMA ElementsHead ==
    ASSUME NEW S, NEW s \in Seq(S), s # <<>>
    PROVE  /\ Elements(s) = Elements(Tail(s)) \cup {Head(s)} /\ Len(s) = Len(Tail(s)) + 1 /\ Head(s) \in S
           /\ Tail(s) \in Seq(S)
<1>1. /\ Head(s) \in S /\ Head(s) = s[1] /\ Tail(s) \in Seq(S)
      /\ Len(s) \in Nat /\ Len(s) >= 1 /\ Len(Tail(s)) = Len(s) - 1
      /\ \A i \in 1..Len(Tail(s)) : Tail(s)[i] = s[i + 1]
  BY HeadTailProperties
<1>2. \A i \in 1..Len(s) : i = 1 \/ (i - 1 \in 1..Len(Tail(s)) /\ (i - 1) + 1 = i)
  BY <1>1
<1>3. \A i \in 1..Len(Tail(s)) : i + 1 \in 1..Len(s)
  BY <1>1
<1>4. Elements(s) \subseteq Elements(Tail(s)) \cup {Head(s)}
  <2> SUFFICES ASSUME NEW i \in 1..Len(s) PROVE s[i] \in Elements(Tail(s)) \cup {Head(s)}
    BY DEF Elements
  <2>1. CASE i = 1
    BY <2>1, <1>1
  <2>2. CASE i # 1
    <3>1. i - 1 \in 1..Len(Tail(s)) /\ Tail(s)[i - 1] = s[i]
      BY <2>2, <1>1, <1>2
    <3>. QED BY <3>1 DEF Elements
  <2>. QED BY <2>1, <2>2
<1>5. Elements(Tail(s)) \cup {Head(s)} \subseteq Elements(s)
  <2>1. 1 \in 1..Len(s)
    BY <1>1
  <2>. QED BY <2>1, <1>1, <1>3 DEF Elements
<1>6. Len(s) = Len(Tail(s)) + 1
  BY <1>1
<1>. QED BY <1>1, <1>4, <1>5, <1>6

\* One station goes on to another place: the counts of the two places.
LEMMA Moved ==
    ASSUME StTypes, NEW i \in Stations, NEW from, NEW to, from # to, stAt[i] = from, stAt'[i] = to,
           \A j \in Stations : j # i => stAt'[j] = stAt[j]
    PROVE  /\ Cardinality(At(to)') = Cardinality(At(to)) + 1 /\ Cardinality(At(from)') = Cardinality(At(from)) - 1
           /\ \A s : s # from /\ s # to => At(s)' = At(s)
<1>1. At(to)' = At(to) \cup {i} /\ i \notin At(to) /\ At(from)' = At(from) \ {i} /\ i \in At(from)
  BY DEF At
<1>2. IsFiniteSet(At(to)) /\ IsFiniteSet(At(from))
  <2>1. At(to) \subseteq Stations /\ At(from) \subseteq Stations
    BY DEF At
  <2>. QED BY <2>1, StNames, FS_Subset
<1>3. Cardinality(At(to) \cup {i}) = Cardinality(At(to)) + 1
  BY <1>1, <1>2, FS_AddElement
<1>4. Cardinality(At(from) \ {i}) = Cardinality(At(from)) - 1
  BY <1>1, <1>2, FS_RemoveElement
<1>5. \A s : s # from /\ s # to => At(s)' = At(s)
  BY DEF At
<1>. QED BY <1>1, <1>3, <1>4, <1>5

LEMMA CountTypes ==
    /\ \A s : Cardinality(At(s)) \in Nat /\ Cardinality(At(s)) <= Cardinality(Stations)
    /\ \A s : Cardinality(At(s)) = Cardinality(Stations) => At(s) = Stations
    /\ Cardinality(Stations) \in Nat
    /\ IsFiniteSet(Senders) /\ Cardinality(Senders) \in Nat
<1>1. \A s : At(s) \subseteq Stations
  BY DEF At
<1>2. Senders \subseteq Stations
  BY DEF Senders
<1>3. IsFiniteSet(Senders)
  BY <1>2, StNames, FS_Subset
<1>4. ASSUME NEW s PROVE /\ Cardinality(At(s)) \in Nat /\ Cardinality(At(s)) <= Cardinality(Stations)
                         /\ Cardinality(At(s)) = Cardinality(Stations) => At(s) = Stations
  <2>1. IsFiniteSet(At(s))
    BY <1>1, StNames, FS_Subset
  <2>. QED BY <1>1, <2>1, StNames, FS_Subset, FS_CardinalityType
<1>. QED BY <1>3, <1>4, StNames, FS_CardinalityType

LEMMA StInitHolds == StInit => StInv
<1> SUFFICES ASSUME StInit PROVE StInv
  OBVIOUS
<1>1. At("ready") = {} /\ At("done") = {}
  BY StNames DEF At, StInit
<1>2. Cardinality(At("ready")) = 0 /\ Cardinality(At("done")) = 0
  BY <1>1, FS_EmptySet
<1>3. Cardinality(Stations) \in Nat
  BY CountTypes
<1>4. StTypes
  <2>1. stSem \in [Semaphores -> Int]
    BY <1>3, StNames DEF StInit, Semaphores
  <2>2. stAt \in [Stations \cup {Boss} -> {"begin"}] /\ stLoop \in [Stations \cup {Boss} -> 1..Loops]
    BY StNames DEF StInit
  <2>3. <<>> \in Seq(Messages)
    OBVIOUS
  <2>4. stQueue \in Seq(Messages) /\ stGot \in Seq(Messages) /\ stSet = TRUE /\ stAt[Boss] = "begin"
    BY <2>3, StNames DEF StInit
  <2>. QED BY <2>1, <2>2, <2>4 DEF StTypes
<1>5. StCounts
  BY <1>2, <1>3, StNames DEF StInit, StCounts, Semaphores
<1>6. \A i \in Stations : InRound(i)
  BY StNames DEF StInit, InRound, Semaphores
<1>7. StMessages
  BY StNames DEF StInit, StMessages
<1>. QED BY <1>4, <1>5, <1>6, <1>7 DEF StInv

\* semop on a set that exists: every semaphore it names moves, by what it says.
LEMMA Semop ==
    ASSUME StTypes, stSet, NEW D \in SUBSET Semaphores, NEW ops \in [D -> Int], semop(ops)
    PROVE  /\ stSem' \in [Semaphores -> Int]
           /\ \A s \in D : stSem'[s] = stSem[s] + ops[s]
           /\ \A s \in Semaphores \ D : stSem'[s] = stSem[s]
           /\ \A s \in D : ops[s] = 0 => stSem[s] = 0
           /\ \A s \in D : stSem[s] + ops[s] >= 0
<1>1. DOMAIN ops = D
  OBVIOUS
<1>2. /\ \A s \in D : IF ops[s] = 0 THEN stSem[s] = 0 ELSE stSem[s] + ops[s] >= 0
      /\ stSem' = [s \in Semaphores |-> stSem[s] + IF s \in D THEN ops[s] ELSE 0]
  BY <1>1 DEF semop
<1>3. stSem \in [Semaphores -> Int]
  BY DEF StTypes
<1>. QED BY <1>2, <1>3

\* ops changes the station's own semaphore and x, one of the two common ones.
PairMoves(ops, i, x) ==
    /\ stSem' \in [Semaphores -> Int] /\ stSem'[i] = stSem[i] + ops[i] /\ stSem'[x] = stSem[x] + ops[x]
    /\ \A y \in {"C", "M"} : y # x => stSem'[y] = stSem[y]
    /\ \A j \in Stations : j # i => stSem'[j] = stSem[j]
    /\ ops[i] = 0 => stSem[i] = 0
    /\ stSem[i] + ops[i] >= 0
    /\ stSem[i] \in Int /\ stSem["C"] \in Int /\ stSem["M"] \in Int

LEMMA SemopPair ==
    ASSUME StTypes, stSet, NEW i \in Stations, NEW x, x \in {"C", "M"},
           NEW ops, ops \in [{i, x} -> Int], semop(ops)
    PROVE  PairMoves(ops, i, x)
<1>0. {i, x} \in SUBSET Semaphores /\ {i, "C", "M"} \subseteq Semaphores /\ i # "C" /\ i # "M"
  BY StNames DEF Semaphores
<1>1. /\ stSem' \in [Semaphores -> Int]
      /\ \A s \in {i, x} : stSem'[s] = stSem[s] + ops[s]
      /\ \A s \in Semaphores \ {i, x} : stSem'[s] = stSem[s]
      /\ \A s \in {i, x} : ops[s] = 0 => stSem[s] = 0
      /\ \A s \in {i, x} : stSem[s] + ops[s] >= 0
  BY <1>0, Semop
<1>2. stSem[i] \in Int /\ stSem["C"] \in Int /\ stSem["M"] \in Int
  BY <1>0 DEF StTypes
<1>3. /\ stSem'[i] = stSem[i] + ops[i] /\ stSem'[x] = stSem[x] + ops[x]
      /\ ops[i] = 0 => stSem[i] = 0
      /\ stSem[i] + ops[i] >= 0
  BY <1>1
<1>4. \A y \in {"C", "M"} : y # x => stSem'[y] = stSem[y]
  BY <1>0, <1>1
<1>5. \A j \in Stations : j # i => stSem'[j] = stSem[j]
  BY <1>1, StNames DEF Semaphores
<1>. QED BY <1>1, <1>2, <1>3, <1>4, <1>5 DEF PairMoves

\* One process goes on.
LEMMA Going ==
    ASSUME StTypes, NEW p \in Stations \cup {Boss}, NEW from,
           NEW to \in {"begin", "ready", "working", "sent", "done", "ended", "exit", "started", "receiving", "full", "over"},
           Goes(p, from, to)
    PROVE  /\ stAt[p] = from /\ stAt'[p] = to
           /\ \A q \in Stations \cup {Boss} : q # p => stAt'[q] = stAt[q]
           /\ stAt' \in [Stations \cup {Boss} -> {"begin", "ready", "working", "sent", "done", "ended", "exit",
                                                "started", "receiving", "full", "over"}]
  BY DEF Goes, StTypes

LEMMA ReadyKeeps == ASSUME StInv, NEW i \in Stations, StationReady(i) PROVE StInv'
<1>0. i # Boss
  BY StNames
<1>1. StTypes /\ StCounts /\ StMessages /\ InRound(i)
  BY DEF StInv
<1>2. /\ stAt[i] = "begin" /\ stAt'[i] = "ready" /\ \A q \in Stations \cup {Boss} : q # i => stAt'[q] = stAt[q]
      /\ stAt' \in [Stations \cup {Boss} -> {"begin", "ready", "working", "sent", "done", "ended", "exit",
                                           "started", "receiving", "full", "over"}]
  BY <1>1, Going DEF StationReady
<1>3. stAt[Boss] = "begin" /\ stAt'[Boss] = "begin" /\ stSem[i] = 2 /\ stLoop[i] = stLoop[Boss] /\ stSet
  BY <1>0, <1>1, <1>2 DEF InRound, StTypes
<1>4. UNCHANGED <<stSet, stQueue, stLoop, stGot>>
  BY DEF StationReady
<1>5. /\ stSem' \in [Semaphores -> Int] /\ stSem'[i] = 1 /\ stSem'["C"] = stSem["C"] - 1 /\ stSem'["M"] = stSem["M"]
      /\ \A j \in Stations : j # i => stSem'[j] = stSem[j]
      /\ stSem["C"] \in Int /\ stSem["M"] \in Int
  <2>1. PICK ops \in [{i, "C"} -> Int] : semop(ops) /\ ops[i] = -1 /\ ops["C"] = -1
    BY DEF StationReady
  <2>2. "C" \in {"C", "M"}
    OBVIOUS
  <2>3. PairMoves(ops, i, "C")
    BY <1>1, <1>3, <2>1, <2>2, SemopPair, Zenon
  <2>. QED BY <1>3, <2>1, <2>3 DEF PairMoves
<1>6. Cardinality(At("ready")') = Cardinality(At("ready")) + 1 /\ At("done")' = At("done")
  BY <1>1, <1>2, Moved
<1>7. StTypes'
  BY <1>1, <1>2, <1>3, <1>4, <1>5 DEF StTypes
<1>8. StCounts'
  BY <1>1, <1>3, <1>4, <1>5, <1>6, CountTypes DEF StCounts
<1>9. ASSUME NEW j \in Stations PROVE InRound(j)'
  <2>1. CASE j = i
    BY <2>1, <1>0, <1>1, <1>2, <1>3, <1>5, <1>4 DEF InRound
  <2>2. CASE j # i
    <3>1. InRound(j) /\ j # Boss
      BY StNames DEF StInv
    <3>. QED BY <2>2, <3>1, <1>0, <1>1, <1>2, <1>3, <1>5, <1>4 DEF InRound
  <2>. QED BY <2>1, <2>2
<1>10. StMessages'
  BY <1>1, <1>3, <1>4 DEF StMessages
<1>. QED BY <1>7, <1>8, <1>9, <1>10 DEF StInv

LEMMA StationStartKeeps == ASSUME StInv, NEW i \in Stations, StationStart(i) PROVE StInv'
<1>0. i # Boss
  BY StNames
<1>1. StTypes /\ StCounts /\ StMessages /\ InRound(i)
  BY DEF StInv
<1>2. /\ stAt[i] = "ready" /\ stAt'[i] = "working" /\ \A q \in Stations \cup {Boss} : q # i => stAt'[q] = stAt[q]
      /\ stAt' \in [Stations \cup {Boss} -> {"begin", "ready", "working", "sent", "done", "ended", "exit",
                                           "started", "receiving", "full", "over"}]
  BY <1>1, Going DEF StationStart
<1>3. stAt[Boss] = "started" /\ stAt'[Boss] = "started" /\ stSem[i] = 0 /\ stLoop[i] = stLoop[Boss] /\ stSet
  <2>1. stAt[Boss] \in {"begin", "started"} /\ stSet
    BY <1>1, <1>2 DEF InRound, StTypes
  <2>2. PICK ops \in [{i, "C"} -> Int] : semop(ops) /\ ops[i] = 0 /\ ops["C"] = 1
    <3>1. [s \in {i, "C"} |-> IF s = "C" THEN 1 ELSE 0] \in [{i, "C"} -> Int] /\ i # "C"
      BY StNames
    <3>. QED BY <3>1 DEF StationStart
  <2>3. stSem[i] = 0
    <3>1. "C" \in {"C", "M"}
      OBVIOUS
    <3>2. PairMoves(ops, i, "C")
      BY <1>1, <2>1, <2>2, <3>1, SemopPair, Zenon
    <3>. QED BY <2>2, <3>2 DEF PairMoves
  <2>. QED BY <1>0, <1>1, <1>2, <2>1, <2>3 DEF InRound
<1>4. UNCHANGED <<stSet, stQueue, stLoop, stGot>>
  BY DEF StationStart
<1>5. /\ stSem' \in [Semaphores -> Int] /\ stSem'[i] = 0 /\ stSem'["C"] = stSem["C"] + 1 /\ stSem'["M"] = stSem["M"]
      /\ \A j \in Stations : j # i => stSem'[j] = stSem[j]
      /\ stSem["C"] \in Int /\ stSem["M"] \in Int
  <2>1. PICK ops \in [{i, "C"} -> Int] : semop(ops) /\ ops[i] = 0 /\ ops["C"] = 1
    <3>1. [s \in {i, "C"} |-> IF s = "C" THEN 1 ELSE 0] \in [{i, "C"} -> Int] /\ i # "C"
      BY StNames
    <3>. QED BY <3>1 DEF StationStart
  <2>0. "C" \in {"C", "M"}
    OBVIOUS
  <2>2. PairMoves(ops, i, "C")
    BY <1>1, <1>3, <2>0, <2>1, SemopPair, Zenon
  <2>. QED BY <1>3, <2>1, <2>2 DEF PairMoves
<1>6. Cardinality(At("ready")') = Cardinality(At("ready")) - 1 /\ At("done")' = At("done")
  BY <1>1, <1>2, Moved
<1>7. StTypes'
  BY <1>1, <1>2, <1>3, <1>4, <1>5 DEF StTypes
<1>8. StCounts'
  BY <1>1, <1>3, <1>4, <1>5, <1>6, CountTypes DEF StCounts
<1>9. ASSUME NEW j \in Stations PROVE InRound(j)'
  <2>1. CASE j = i
    BY <2>1, <1>0, <1>1, <1>2, <1>3, <1>5, <1>4 DEF InRound
  <2>2. CASE j # i
    <3>1. InRound(j) /\ j # Boss
      BY StNames DEF StInv
    <3>. QED BY <2>2, <3>1, <1>0, <1>1, <1>2, <1>3, <1>5, <1>4 DEF InRound
  <2>. QED BY <2>1, <2>2
<1>10. StMessages'
  <2>1. Senders' = Senders
    BY <1>2, StNames DEF Senders
  <2>. QED BY <1>1, <1>3, <1>4, <2>1 DEF StMessages
<1>. QED BY <1>7, <1>8, <1>9, <1>10 DEF StInv

LEMMA SendKeeps == ASSUME StInv, NEW i \in Stations, StationSend(i) PROVE StInv'
<1>0. i # Boss
  BY StNames
<1>1. StTypes /\ StCounts /\ StMessages /\ InRound(i)
  BY DEF StInv
<1>2. /\ stAt[i] = "working" /\ stAt'[i] = "sent" /\ \A q \in Stations \cup {Boss} : q # i => stAt'[q] = stAt[q]
      /\ stAt' \in [Stations \cup {Boss} -> {"begin", "ready", "working", "sent", "done", "ended", "exit",
                                           "started", "receiving", "full", "over"}]
  BY <1>1, Going DEF StationSend
<1>3. stAt[Boss] = "started" /\ stAt'[Boss] = "started" /\ stSem[i] = 0 /\ stLoop[i] = stLoop[Boss] /\ stSet
  BY <1>0, <1>1, <1>2 DEF InRound, StTypes
<1>4. UNCHANGED <<stSet, stSem, stLoop, stGot>> /\ stQueue' = Append(stQueue, [no |-> i, data |-> stLoop[Boss]])
  BY <1>3 DEF StationSend
<1>5. /\ stQueue' \in Seq(Messages) /\ Len(stQueue') = Len(stQueue) + 1
      /\ Elements(stQueue') = Elements(stQueue) \cup {[no |-> i, data |-> stLoop[Boss]]}
  <2>1. [no |-> i, data |-> stLoop[Boss]] \in Messages /\ stQueue \in Seq(Messages)
    BY <1>1 DEF StTypes, Messages
  <2>. QED BY <1>4, <2>1, ElementsAppend
<1>6. At("ready")' = At("ready") /\ At("done")' = At("done")
  BY <1>2, StNames DEF At
<1>7. StTypes'
  BY <1>1, <1>2, <1>3, <1>4, <1>5 DEF StTypes
<1>8. StCounts'
  BY <1>1, <1>4, <1>6 DEF StCounts
<1>9. ASSUME NEW j \in Stations PROVE InRound(j)'
  <2>1. CASE j = i
    BY <2>1, <1>0, <1>1, <1>2, <1>3, <1>5, <1>4 DEF InRound
  <2>2. CASE j # i
    <3>1. InRound(j) /\ j # Boss
      BY StNames DEF StInv
    <3>. QED BY <2>2, <3>1, <1>0, <1>1, <1>2, <1>3, <1>5, <1>4 DEF InRound
  <2>. QED BY <2>1, <2>2
<1>10. Senders' = Senders \cup {i} /\ i \notin Senders
  BY <1>2, StNames DEF Senders
<1>11. Cardinality(Senders') = Cardinality(Senders) + 1
  BY <1>10, CountTypes, FS_AddElement
<1>12. Elements(stQueue') \cup Elements(stGot') = [no : Senders', data : {stLoop'[Boss]}]
  <2>1. Elements(stQueue) \cup Elements(stGot) = [no : Senders, data : {stLoop[Boss]}]
    BY <1>1, <1>3 DEF StMessages
  <2>2. [no : Senders \cup {i}, data : {stLoop[Boss]}] =
           [no : Senders, data : {stLoop[Boss]}] \cup {[no |-> i, data |-> stLoop[Boss]]}
    <3>1. \A m \in [no : Senders \cup {i}, data : {stLoop[Boss]}] :
             m = [no |-> m.no, data |-> stLoop[Boss]] /\ m.no \in Senders \cup {i}
      OBVIOUS
    <3>2. \A m \in [no : Senders, data : {stLoop[Boss]}] : m \in [no : Senders \cup {i}, data : {stLoop[Boss]}]
      OBVIOUS
    <3>3. [no |-> i, data |-> stLoop[Boss]] \in [no : Senders \cup {i}, data : {stLoop[Boss]}]
      OBVIOUS
    <3>4. ASSUME NEW m \in [no : Senders \cup {i}, data : {stLoop[Boss]}]
          PROVE  m \in [no : Senders, data : {stLoop[Boss]}] \cup {[no |-> i, data |-> stLoop[Boss]]}
      <4>1. CASE m.no = i
        BY <3>1, <4>1
      <4>2. CASE m.no \in Senders
        BY <4>2
      <4>. QED BY <3>1, <4>1, <4>2
    <3>. QED BY <3>2, <3>3, <3>4
  <2>3. Elements(stGot') = Elements(stGot) /\ stLoop'[Boss] = stLoop[Boss]
    BY <1>4 DEF Elements
  <2>. QED BY <1>5, <1>10, <2>1, <2>2, <2>3
<1>13. Len(stQueue') + Len(stGot') = Cardinality(Senders')
  <2>1. Len(stQueue) \in Nat /\ Len(stGot) \in Nat
    BY <1>1 DEF StTypes
  <2>2. Len(stQueue) + Len(stGot) = Cardinality(Senders)
    BY <1>1, <1>3 DEF StMessages
  <2>. QED BY <1>4, <1>5, <1>11, <2>1, <2>2
<1>14. StMessages'
  BY <1>1, <1>3, <1>4, <1>12, <1>13 DEF StMessages
<1>. QED BY <1>7, <1>8, <1>9, <1>14 DEF StInv

LEMMA DoneKeeps == ASSUME StInv, NEW i \in Stations, StationDone(i) PROVE StInv'
<1>0. i # Boss
  BY StNames
<1>1. StTypes /\ StCounts /\ StMessages /\ InRound(i)
  BY DEF StInv
<1>2. /\ stAt[i] = "sent" /\ stAt'[i] = "done" /\ \A q \in Stations \cup {Boss} : q # i => stAt'[q] = stAt[q]
      /\ stAt' \in [Stations \cup {Boss} -> {"begin", "ready", "working", "sent", "done", "ended", "exit",
                                           "started", "receiving", "full", "over"}]
  BY <1>1, Going DEF StationDone
<1>3. stAt[Boss] = "started" /\ stAt'[Boss] = "started" /\ stSem[i] = 0 /\ stLoop[i] = stLoop[Boss] /\ stSet
  BY <1>0, <1>1, <1>2 DEF InRound, StTypes
<1>4. UNCHANGED <<stSet, stQueue, stLoop, stGot>>
  BY DEF StationDone
<1>5. /\ stSem' \in [Semaphores -> Int] /\ stSem'["M"] = stSem["M"] - 1 /\ stSem'["C"] = stSem["C"]
      /\ \A j \in Stations : stSem'[j] = stSem[j]
      /\ stSem["C"] \in Int /\ stSem["M"] \in Int
  <2>1. PICK ops \in [{"M"} -> Int] : semop(ops) /\ ops["M"] = -1
    BY DEF StationDone
  <2>2. {"M"} \in SUBSET Semaphores
    BY DEF Semaphores
  <2>3. /\ stSem' \in [Semaphores -> Int]
        /\ \A s \in {"M"} : stSem'[s] = stSem[s] + ops[s]
        /\ \A s \in Semaphores \ {"M"} : stSem'[s] = stSem[s]
    BY <1>1, <1>3, <2>1, <2>2, Semop
  <2>4. stSem["C"] \in Int /\ stSem["M"] \in Int
    BY <1>1 DEF StTypes, Semaphores
  <2>5. stSem'["M"] = stSem["M"] - 1 /\ stSem'["C"] = stSem["C"]
    BY <2>1, <2>3, <2>4 DEF Semaphores
  <2>6. \A j \in Stations : stSem'[j] = stSem[j]
    BY <2>3, StNames DEF Semaphores
  <2>. QED BY <2>3, <2>4, <2>5, <2>6
<1>6. Cardinality(At("done")') = Cardinality(At("done")) + 1 /\ At("ready")' = At("ready")
  BY <1>1, <1>2, Moved
<1>7. StTypes'
  BY <1>1, <1>2, <1>3, <1>4, <1>5 DEF StTypes
<1>8. StCounts'
  BY <1>1, <1>3, <1>4, <1>5, <1>6, CountTypes DEF StCounts
<1>9. ASSUME NEW j \in Stations PROVE InRound(j)'
  <2>1. CASE j = i
    BY <2>1, <1>0, <1>1, <1>2, <1>3, <1>5, <1>4 DEF InRound
  <2>2. CASE j # i
    <3>1. InRound(j) /\ j # Boss
      BY StNames DEF StInv
    <3>. QED BY <2>2, <3>1, <1>0, <1>1, <1>2, <1>3, <1>5, <1>4 DEF InRound
  <2>. QED BY <2>1, <2>2
<1>10. StMessages'
  <2>1. Senders' = Senders
    BY <1>2, StNames DEF Senders
  <2>. QED BY <1>1, <1>3, <1>4, <2>1 DEF StMessages
<1>. QED BY <1>7, <1>8, <1>9, <1>10 DEF StInv

LEMMA EndKeeps == ASSUME StInv, NEW i \in Stations, StationEnd(i) PROVE StInv'
<1>0. i # Boss
  BY StNames
<1>1. StTypes /\ StCounts /\ StMessages /\ InRound(i)
  BY DEF StInv
<1>2. /\ stAt[i] = "done" /\ stAt'[i] = "ended" /\ \A q \in Stations \cup {Boss} : q # i => stAt'[q] = stAt[q]
      /\ stAt' \in [Stations \cup {Boss} -> {"begin", "ready", "working", "sent", "done", "ended", "exit",
                                           "started", "receiving", "full", "over"}]
  BY <1>1, Going DEF StationEnd
<1>4. UNCHANGED <<stSet, stQueue, stLoop, stGot>> /\ stAt'[Boss] = stAt[Boss]
  BY <1>0, <1>2 DEF StationEnd
<1>6. Cardinality(At("done")') = Cardinality(At("done")) - 1 /\ At("ready")' = At("ready")
  BY <1>1, <1>2, Moved
<1>7. CASE stSet
  <2>1. PICK ops \in [{i, "M"} -> Int] : semop(ops) /\ ops[i] = -1 /\ ops["M"] = 1
    <3>1. [s \in {i, "M"} |-> IF s = "M" THEN 1 ELSE -1] \in [{i, "M"} -> Int] /\ i # "M"
      BY StNames
    <3>. QED BY <3>1 DEF StationEnd
  <2>2. /\ stSem' \in [Semaphores -> Int] /\ stSem'[i] = stSem[i] + (-1) /\ stSem'["M"] = stSem["M"] + 1
        /\ stSem'["C"] = stSem["C"]
        /\ \A j \in Stations : j # i => stSem'[j] = stSem[j]
        /\ stSem[i] + (-1) >= 0
        /\ stSem[i] \in Int /\ stSem["C"] \in Int /\ stSem["M"] \in Int
    <3>1. "M" \in {"C", "M"}
      OBVIOUS
    <3>2. PairMoves(ops, i, "M")
      BY <1>1, <1>7, <2>1, <3>1, SemopPair, Zenon
    <3>. QED BY <2>1, <3>2 DEF PairMoves
  <2>4. stSem[i] >= 1
    BY <2>2
  <2>5. stAt[Boss] \in {"begin", "over"} /\ stSem[i] = 1 /\ stSem'[i] = 0
    <3>1. stAt[Boss] \notin {"started", "receiving", "full"} /\ stAt[Boss] # "exit"
      <4>1. stSem[i] # 0
        BY <2>4
      <4>. QED BY <1>1, <1>7, <4>1 DEF InRound, StTypes
    <3>2. stAt[Boss] \in {"begin", "over"}
      BY <1>1, <3>1 DEF StTypes
    <3>3. stSem[i] = 1
      BY <1>1, <1>2, <3>2 DEF InRound
    <3>4. stSem'[i] = 0
      BY <2>2, <3>3
    <3>. QED BY <3>2, <3>3, <3>4
  <2>6. StTypes'
    BY <1>1, <1>2, <1>4, <2>2 DEF StTypes
  <2>7. StCounts'
    BY <1>1, <1>4, <1>6, <2>2, CountTypes DEF StCounts
  <2>8. ASSUME NEW j \in Stations PROVE InRound(j)'
    <3>1. CASE j = i
      BY <3>1, <1>1, <1>2, <1>4, <2>5 DEF InRound
    <3>2. CASE j # i
      <4>1. InRound(j) /\ j # Boss
        BY StNames DEF StInv
      <4>. QED BY <3>2, <4>1, <1>2, <1>4, <2>2 DEF InRound
    <3>. QED BY <3>1, <3>2
  <2>9. StMessages'
    BY <1>1, <1>4, <2>5 DEF StMessages
  <2>. QED BY <2>6, <2>7, <2>8, <2>9 DEF StInv
<1>8. CASE ~ stSet
  <2>1. stAt[Boss] = "exit" /\ UNCHANGED stSem
    BY <1>1, <1>8 DEF StationEnd, semop, StTypes
  <2>2. StTypes' /\ StCounts'
    BY <1>1, <1>2, <1>4, <1>8, <2>1 DEF StTypes, StCounts
  <2>3. ASSUME NEW j \in Stations PROVE InRound(j)'
    <3>1. InRound(j) /\ j # Boss
      BY StNames DEF StInv
    <3>2. CASE j = i
      BY <3>1, <3>2, <1>2, <1>4, <2>1 DEF InRound
    <3>3. CASE j # i
      BY <3>1, <3>3, <1>2, <1>4, <2>1 DEF InRound
    <3>. QED BY <3>2, <3>3
  <2>4. StMessages'
    BY <1>1, <1>4, <2>1 DEF StMessages
  <2>. QED BY <2>2, <2>3, <2>4 DEF StInv
<1>. QED BY <1>7, <1>8

LEMMA ResetKeeps == ASSUME StInv, NEW i \in Stations, StationReset(i) PROVE StInv'
<1>0. i # Boss
  BY StNames
<1>1. StTypes /\ StCounts /\ StMessages /\ InRound(i)
  BY DEF StInv
<1>2. PICK to \in {"begin", "exit"} :
        /\ to = IF stLoop[i] = Loops THEN "exit" ELSE "begin"
        /\ stAt[i] = "ended" /\ stAt'[i] = to /\ \A q \in Stations \cup {Boss} : q # i => stAt'[q] = stAt[q]
        /\ stAt' \in [Stations \cup {Boss} -> {"begin", "ready", "working", "sent", "done", "ended", "exit",
                                             "started", "receiving", "full", "over"}]
  BY <1>1, Going DEF StationReset
<1>3. /\ stLoop' \in [Stations \cup {Boss} -> 1..Loops]
      /\ stLoop'[i] = IF stLoop[i] = Loops THEN stLoop[i] ELSE stLoop[i] + 1
      /\ \A q \in Stations \cup {Boss} : q # i => stLoop'[q] = stLoop[q]
  <2>1. stLoop[i] \in 1..Loops
    BY <1>1 DEF StTypes
  <2>2. (IF stLoop[i] = Loops THEN stLoop[i] ELSE stLoop[i] + 1) \in 1..Loops
    BY <2>1, StNames
  <2>. QED BY <1>1, <2>2 DEF StationReset, StTypes
<1>4. UNCHANGED <<stSet, stQueue, stGot>> /\ stAt'[Boss] = stAt[Boss] /\ stLoop'[Boss] = stLoop[Boss]
  BY <1>0, <1>2, <1>3 DEF StationReset
<1>5. At("done")' = At("done") /\ At("ready")' = At("ready")
  BY <1>2 DEF At
<1>6. stAt[Boss] \in {"begin", "over", "exit"}
  BY <1>1, <1>2 DEF InRound, StTypes
<1>7. stLoop[i] \in Int /\ stLoop[Boss] \in 1..Loops
  BY <1>1 DEF StTypes
<1>8. CASE stSet
  <2>1. PICK ops \in [{i} -> Int] : semop(ops) /\ ops[i] = 2
    BY DEF StationReset
  <2>2. {i} \in SUBSET Semaphores /\ {i, "C", "M"} \subseteq Semaphores /\ i # "C" /\ i # "M"
    BY StNames DEF Semaphores
  <2>3. /\ stSem' \in [Semaphores -> Int]
        /\ \A s \in {i} : stSem'[s] = stSem[s] + ops[s]
        /\ \A s \in Semaphores \ {i} : stSem'[s] = stSem[s]
    BY <1>1, <1>8, <2>1, <2>2, Semop
  <2>4. stSem'["C"] = stSem["C"] /\ stSem'["M"] = stSem["M"] /\ stSem'[i] = stSem[i] + 2
    BY <2>1, <2>2, <2>3
  <2>5. \A j \in Stations : j # i => stSem'[j] = stSem[j]
    BY <2>3 DEF Semaphores
  <2>6. stAt[Boss] # "exit" /\ stSem[i] = 0 /\ stSem'[i] = 2
    <3>1. stAt[Boss] # "exit"
      BY <1>1, <1>8 DEF StTypes
    <3>2. stSem[i] = 0
      BY <1>1, <1>2, <1>6, <3>1 DEF InRound
    <3>. QED BY <2>4, <3>1, <3>2
  <2>7. StTypes' /\ StCounts'
    BY <1>1, <1>2, <1>3, <1>4, <1>5, <2>3, <2>4 DEF StTypes, StCounts
  <2>8. ASSUME NEW j \in Stations PROVE InRound(j)'
    <3>1. CASE j = i /\ stAt[Boss] = "begin"
      <4>1. stLoop[i] + 1 = stLoop[Boss] /\ stLoop[i] # Loops
        BY <1>1, <1>2, <1>7, <3>1 DEF InRound
      <4>. QED BY <3>1, <4>1, <1>2, <1>3, <1>4, <2>6 DEF InRound
    <3>2. CASE j = i /\ stAt[Boss] = "over"
      <4>1. stLoop[i] = Loops /\ stLoop[Boss] = Loops
        BY <1>1, <3>2 DEF InRound
      <4>. QED BY <3>2, <4>1, <1>2, <1>3, <1>4, <2>6 DEF InRound
    <3>3. CASE j # i
      <4>1. InRound(j) /\ j # Boss
        BY StNames DEF StInv
      <4>. QED BY <3>3, <4>1, <1>2, <1>3, <1>4, <2>5 DEF InRound
    <3>. QED BY <3>1, <3>2, <3>3, <1>6, <2>6
  <2>9. StMessages'
    BY <1>1, <1>4, <1>6, <2>6 DEF StMessages
  <2>. QED BY <2>7, <2>8, <2>9 DEF StInv
<1>9. CASE ~ stSet
  <2>1. stAt[Boss] = "exit" /\ UNCHANGED stSem
    BY <1>1, <1>9 DEF StationReset, semop, StTypes
  <2>2. StTypes' /\ StCounts'
    BY <1>1, <1>2, <1>3, <1>4, <1>9, <2>1 DEF StTypes, StCounts
  <2>3. ASSUME NEW j \in Stations PROVE InRound(j)'
    <3>1. InRound(j) /\ j # Boss
      BY StNames DEF StInv
    <3>2. CASE j = i
      <4>1. stLoop[i] = Loops /\ stLoop[Boss] = Loops
        BY <1>1, <2>1 DEF InRound
      <4>. QED BY <3>2, <4>1, <1>2, <1>3, <1>4, <2>1 DEF InRound
    <3>3. CASE j # i
      BY <3>1, <3>3, <1>2, <1>3, <1>4, <2>1 DEF InRound
    <3>. QED BY <3>2, <3>3
  <2>4. StMessages'
    BY <1>1, <1>4, <2>1 DEF StMessages
  <2>. QED BY <2>2, <2>3, <2>4 DEF StInv
<1>. QED BY <1>8, <1>9

LEMMA BossGoes ==
    ASSUME StTypes, NEW from,
           NEW to \in {"begin", "ready", "working", "sent", "done", "ended", "exit", "started", "receiving", "full", "over"},
           Goes(Boss, from, to)
    PROVE  /\ stAt[Boss] = from /\ stAt'[Boss] = to /\ \A i \in Stations : stAt'[i] = stAt[i]
           /\ stAt' \in [Stations \cup {Boss} -> {"begin", "ready", "working", "sent", "done", "ended", "exit",
                                                "started", "receiving", "full", "over"}]
           /\ \A s : At(s)' = At(s)
           /\ Senders' = Senders
<1>1. /\ stAt[Boss] = from /\ stAt'[Boss] = to /\ \A q \in Stations \cup {Boss} : q # Boss => stAt'[q] = stAt[q]
      /\ stAt' \in [Stations \cup {Boss} -> {"begin", "ready", "working", "sent", "done", "ended", "exit",
                                           "started", "receiving", "full", "over"}]
  BY Going
<1>2. \A i \in Stations : stAt'[i] = stAt[i]
  BY <1>1, StNames
<1>. QED BY <1>1, <1>2 DEF At, Senders

\* All stations done have all sent.
LEMMA AllSenders ==
    ASSUME \A i \in Stations : stAt[i] = "done"
    PROVE  Senders = Stations
  BY DEF Senders

LEMMA NoElements == Elements(<<>>) = {} /\ Len(<<>>) = 0
  BY DEF Elements

LEMMA MasterStartKeeps == ASSUME StInv, MasterStart PROVE StInv'
<1>1. StTypes /\ StCounts /\ StMessages /\ \A i \in Stations : InRound(i)
  BY DEF StInv
<1>2. /\ stAt[Boss] = "begin" /\ stAt'[Boss] = "started" /\ \A i \in Stations : stAt'[i] = stAt[i]
      /\ stAt' \in [Stations \cup {Boss} -> {"begin", "ready", "working", "sent", "done", "ended", "exit",
                                           "started", "receiving", "full", "over"}]
      /\ \A s : At(s)' = At(s)
      /\ Senders' = Senders
  BY <1>1, BossGoes DEF MasterStart
<1>3. stSet /\ UNCHANGED <<stSet, stQueue, stLoop, stGot>>
  BY <1>1, <1>2 DEF MasterStart, StTypes
<1>4. PICK ops \in [Stations \cup {"C"} -> Int] : semop(ops) /\ ops["C"] = 0 /\ \A i \in Stations : ops[i] = -1
  <2>1. MasterOps \in [Stations \cup {"C"} -> Int] /\ MasterOps["C"] = 0 /\ \A i \in Stations : MasterOps[i] = -1
    BY StNames DEF MasterOps
  <2>. QED BY <2>1 DEF MasterStart
<1>5. Stations \cup {"C"} \in SUBSET Semaphores /\ Semaphores = Stations \cup {"C", "M"}
  BY DEF Semaphores
<1>6. /\ stSem' \in [Semaphores -> Int]
      /\ \A s \in Stations \cup {"C"} : stSem'[s] = stSem[s] + ops[s]
      /\ \A s \in Semaphores \ (Stations \cup {"C"}) : stSem'[s] = stSem[s]
      /\ \A s \in Stations \cup {"C"} : ops[s] = 0 => stSem[s] = 0
  BY <1>1, <1>3, <1>4, <1>5, Semop
<1>7. stSem["C"] = 0 /\ stSem'["C"] = 0 /\ stSem'["M"] = stSem["M"]
  BY <1>4, <1>5, <1>6, StNames
<1>8. At("ready") = Stations
  <2>1. stSem["C"] + Cardinality(At("ready")) = Cardinality(Stations)
    BY <1>1, <1>3 DEF StCounts
  <2>2. Cardinality(At("ready")) = Cardinality(Stations)
    BY <1>7, <2>1, CountTypes
  <2>. QED BY <2>2, CountTypes
<1>9. \A i \in Stations : stAt[i] = "ready" /\ stSem[i] = 1 /\ stLoop[i] = stLoop[Boss]
  <2>1. \A i \in Stations : stAt[i] = "ready"
    BY <1>8 DEF At
  <2>. QED BY <1>1, <1>2, <2>1 DEF InRound
<1>10. \A i \in Stations : stSem'[i] = 0
  <2> TAKE i \in Stations
  <2>1. stSem'[i] = stSem[i] + ops[i] /\ ops[i] = -1
    BY <1>4, <1>6
  <2>. QED BY <1>9, <2>1
<1>11. StTypes'
  BY <1>1, <1>2, <1>3, <1>6 DEF StTypes
<1>12. StCounts'
  BY <1>1, <1>2, <1>3, <1>7 DEF StCounts
<1>13. ASSUME NEW i \in Stations PROVE InRound(i)'
  BY <1>2, <1>3, <1>9, <1>10 DEF InRound
<1>14. StMessages'
  <2>1. Senders = {} /\ stQueue = <<>> /\ stGot = <<>>
    BY <1>1, <1>2, <1>9 DEF Senders, StMessages
  <2>2. Cardinality(Senders') = 0 /\ [no : Senders', data : {stLoop'[Boss]}] = {}
    BY <1>2, <2>1, FS_EmptySet
  <2>3. Elements(stQueue') = {} /\ Elements(stGot') = {} /\ Len(stQueue') = 0 /\ Len(stGot') = 0
    BY <1>3, <2>1, NoElements
  <2>. QED BY <1>2, <1>3, <2>1, <2>2, <2>3 DEF StMessages
<1>. QED BY <1>11, <1>12, <1>13, <1>14 DEF StInv

LEMMA MasterWaitKeeps == ASSUME StInv, MasterWait PROVE StInv'
<1>1. StTypes /\ StCounts /\ StMessages /\ \A i \in Stations : InRound(i)
  BY DEF StInv
<1>2. /\ stAt[Boss] = "started" /\ stAt'[Boss] = "receiving" /\ \A i \in Stations : stAt'[i] = stAt[i]
      /\ stAt' \in [Stations \cup {Boss} -> {"begin", "ready", "working", "sent", "done", "ended", "exit",
                                           "started", "receiving", "full", "over"}]
      /\ \A s : At(s)' = At(s)
      /\ Senders' = Senders
  BY <1>1, BossGoes DEF MasterWait
<1>3. stSet /\ UNCHANGED <<stSet, stQueue, stLoop, stGot>>
  BY <1>1, <1>2 DEF MasterWait, StTypes
<1>4. PICK ops \in [{"M"} -> Int] : semop(ops) /\ ops["M"] = 0
  BY DEF MasterWait
<1>5. {"M"} \in SUBSET Semaphores
  BY DEF Semaphores
<1>6. /\ stSem' \in [Semaphores -> Int] /\ stSem["M"] = 0
      /\ \A s \in {"M"} : stSem'[s] = stSem[s] + ops[s]
      /\ \A s \in Semaphores \ {"M"} : stSem'[s] = stSem[s]
  BY <1>1, <1>3, <1>4, <1>5, Semop
<1>7. \A s \in Semaphores : stSem'[s] = stSem[s]
  <2>1. stSem'["M"] = stSem["M"]
    BY <1>4, <1>6
  <2>. QED BY <1>6, <2>1
<1>8. \A i \in Stations : stAt[i] = "done"
  <2>1. stSem["M"] + Cardinality(At("done")) = Cardinality(Stations)
    BY <1>1, <1>3 DEF StCounts
  <2>2. Cardinality(At("done")) = Cardinality(Stations)
    BY <1>6, <2>1, CountTypes
  <2>3. At("done") = Stations
    BY <2>2, CountTypes
  <2>. QED BY <2>3 DEF At
<1>9. StTypes'
  BY <1>1, <1>2, <1>3, <1>6 DEF StTypes
<1>10. StCounts'
  BY <1>1, <1>2, <1>3, <1>7 DEF StCounts, Semaphores
<1>11. ASSUME NEW i \in Stations PROVE InRound(i)'
  <2>1. stSem'[i] = stSem[i]
    BY <1>7 DEF Semaphores
  <2>. QED BY <1>1, <1>2, <1>3, <1>8, <2>1 DEF InRound
<1>12. StMessages'
  BY <1>1, <1>2, <1>3 DEF StMessages
<1>. QED BY <1>9, <1>10, <1>11, <1>12 DEF StInv

LEMMA MasterReceiveKeeps == ASSUME StInv, MasterReceive PROVE StInv'
<1>1. StTypes /\ StCounts /\ StMessages /\ \A i \in Stations : InRound(i)
  BY DEF StInv
<1>2. PICK to \in {"full", "receiving"} :
        /\ to = IF Len(stGot) + 1 = Cardinality(Stations) THEN "full" ELSE "receiving"
        /\ stAt[Boss] = "receiving" /\ stAt'[Boss] = to /\ \A i \in Stations : stAt'[i] = stAt[i]
        /\ stAt' \in [Stations \cup {Boss} -> {"begin", "ready", "working", "sent", "done", "ended", "exit",
                                             "started", "receiving", "full", "over"}]
        /\ \A s : At(s)' = At(s)
        /\ Senders' = Senders
  BY <1>1, BossGoes DEF MasterReceive
<1>3. UNCHANGED <<stSem, stSet, stLoop>> /\ stQueue # <<>> /\ stGot' = Append(stGot, Head(stQueue)) /\ stQueue' = Tail(stQueue)
  BY DEF MasterReceive
<1>4. stQueue \in Seq(Messages) /\ stGot \in Seq(Messages)
  BY <1>1 DEF StTypes
<1>5. /\ Elements(stQueue) = Elements(stQueue') \cup {Head(stQueue)} /\ Len(stQueue) = Len(stQueue') + 1
      /\ Head(stQueue) \in Messages /\ stQueue' \in Seq(Messages)
  BY <1>3, <1>4, ElementsHead
<1>6. /\ Elements(stGot') = Elements(stGot) \cup {Head(stQueue)} /\ Len(stGot') = Len(stGot) + 1
      /\ stGot' \in Seq(Messages)
  BY <1>3, <1>4, <1>5, ElementsAppend
<1>7. StTypes'
  BY <1>1, <1>2, <1>3, <1>5, <1>6 DEF StTypes
<1>8. StCounts'
  BY <1>1, <1>2, <1>3 DEF StCounts
<1>9. ASSUME NEW i \in Stations PROVE InRound(i)'
  BY <1>1, <1>2, <1>3 DEF InRound
<1>10. Elements(stQueue') \cup Elements(stGot') = Elements(stQueue) \cup Elements(stGot)
  BY <1>5, <1>6
<1>11. Len(stQueue') + Len(stGot') = Len(stQueue) + Len(stGot)
  <2>1. Len(stQueue') \in Nat /\ Len(stGot) \in Nat
    BY <1>4, <1>5
  <2>. QED BY <1>5, <1>6, <2>1
<1>12. StMessages'
  BY <1>1, <1>2, <1>3, <1>6, <1>10, <1>11 DEF StMessages
<1>. QED BY <1>7, <1>8, <1>9, <1>12 DEF StInv

\* When the master has as many messages as there are stations, none is left in the queue.
LEMMA QueueEmpty ==
    ASSUME StInv, stAt[Boss] = "full"
    PROVE  stQueue = <<>> /\ Elements(stGot) = [no : Stations, data : {stLoop[Boss]}]
<1>1. \A i \in Stations : stAt[i] = "done"
  BY DEF StInv, InRound
<1>2. Senders = Stations
  BY <1>1, AllSenders
<1>3. Len(stQueue) + Len(stGot) = Cardinality(Stations) /\ Len(stGot) = Cardinality(Stations)
  BY <1>2 DEF StInv, StMessages
<1>4. Len(stQueue) \in Nat /\ stQueue \in Seq(Messages)
  BY DEF StInv, StTypes
<1>5. Len(stQueue) = 0
  BY <1>3, <1>4, CountTypes
<1>6. stQueue = <<>>
  BY <1>4, <1>5, EmptySeq
<1>. QED BY <1>2, <1>6, NoElements DEF StInv, StMessages

LEMMA MasterEndKeeps == ASSUME StInv, MasterEnd PROVE StInv'
<1>1. StTypes /\ StCounts /\ StMessages /\ \A i \in Stations : InRound(i)
  BY DEF StInv
<1>2. PICK to \in {"over", "begin"} :
        /\ to = IF stLoop[Boss] = Loops THEN "over" ELSE "begin"
        /\ stAt[Boss] = "full" /\ stAt'[Boss] = to /\ \A i \in Stations : stAt'[i] = stAt[i]
        /\ stAt' \in [Stations \cup {Boss} -> {"begin", "ready", "working", "sent", "done", "ended", "exit",
                                             "started", "receiving", "full", "over"}]
        /\ \A s : At(s)' = At(s)
        /\ Senders' = Senders
  BY <1>1, BossGoes DEF MasterEnd
<1>3. stSet /\ UNCHANGED <<stSet, stQueue>> /\ stGot' = <<>> /\ stQueue = <<>>
  BY <1>1, <1>2, QueueEmpty DEF MasterEnd, StTypes
<1>4. /\ stLoop' \in [Stations \cup {Boss} -> 1..Loops]
      /\ stLoop'[Boss] = IF stLoop[Boss] = Loops THEN stLoop[Boss] ELSE stLoop[Boss] + 1
      /\ \A i \in Stations : stLoop'[i] = stLoop[i]
  <2>1. stLoop[Boss] \in 1..Loops /\ stLoop \in [Stations \cup {Boss} -> 1..Loops]
    BY <1>1 DEF StTypes
  <2>2. (IF stLoop[Boss] = Loops THEN stLoop[Boss] ELSE stLoop[Boss] + 1) \in 1..Loops
    BY <2>1, StNames
  <2>3. stLoop' = [stLoop EXCEPT ![Boss] = IF stLoop[Boss] = Loops THEN stLoop[Boss] ELSE stLoop[Boss] + 1]
    BY DEF MasterEnd
  <2>. QED BY <2>1, <2>2, <2>3, StNames
<1>5. PICK ops \in [Stations -> Int] : semop(ops) /\ \A i \in Stations : ops[i] = 1
  BY DEF MasterEnd
<1>6. Stations \in SUBSET Semaphores /\ Semaphores = Stations \cup {"C", "M"}
  BY DEF Semaphores
<1>7. /\ stSem' \in [Semaphores -> Int]
      /\ \A s \in Stations : stSem'[s] = stSem[s] + ops[s]
      /\ \A s \in Semaphores \ Stations : stSem'[s] = stSem[s]
  BY <1>1, <1>3, <1>5, <1>6, Semop
<1>8. stSem'["C"] = stSem["C"] /\ stSem'["M"] = stSem["M"]
  BY <1>6, <1>7, StNames
<1>9. \A i \in Stations : stAt[i] = "done" /\ stSem[i] = 0 /\ stLoop[i] = stLoop[Boss]
  BY <1>1, <1>2 DEF InRound
<1>10. \A i \in Stations : stSem'[i] = 1
  <2> TAKE i \in Stations
  <2>1. stSem'[i] = stSem[i] + ops[i] /\ ops[i] = 1
    BY <1>5, <1>7
  <2>. QED BY <1>9, <2>1
<1>11. StTypes'
  BY <1>1, <1>2, <1>3, <1>4, <1>7 DEF StTypes
<1>12. StCounts'
  BY <1>1, <1>2, <1>3, <1>8 DEF StCounts
<1>13. ASSUME NEW i \in Stations PROVE InRound(i)'
  BY <1>2, <1>4, <1>9, <1>10 DEF InRound
<1>14. StMessages'
  BY <1>2, <1>3 DEF StMessages
<1>. QED BY <1>11, <1>12, <1>13, <1>14 DEF StInv

LEMMA MasterRemoveKeeps == ASSUME StInv, MasterRemove PROVE StInv'
<1>1. StTypes /\ StCounts /\ StMessages /\ \A i \in Stations : InRound(i)
  BY DEF StInv
<1>2. /\ stAt[Boss] = "over" /\ stAt'[Boss] = "exit" /\ \A i \in Stations : stAt'[i] = stAt[i]
      /\ stAt' \in [Stations \cup {Boss} -> {"begin", "ready", "working", "sent", "done", "ended", "exit",
                                           "started", "receiving", "full", "over"}]
  BY <1>1, BossGoes DEF MasterRemove
<1>3. stSet' = FALSE /\ stQueue' = <<>> /\ UNCHANGED <<stSem, stLoop, stGot>>
  BY DEF MasterRemove
<1>4. <<>> \in Seq(Messages)
  OBVIOUS
<1>5. StTypes' /\ StCounts'
  BY <1>1, <1>2, <1>3, <1>4 DEF StTypes, StCounts
<1>6. ASSUME NEW i \in Stations PROVE InRound(i)'
  BY <1>1, <1>2, <1>3 DEF InRound
<1>7. StMessages'
  BY <1>1, <1>2, <1>3 DEF StMessages
<1>. QED BY <1>5, <1>6, <1>7 DEF StInv

LEMMA StInvNext == StInv /\ [StNext]_stVars => StInv'
<1> SUFFICES ASSUME StInv, [StNext]_stVars PROVE StInv'
  OBVIOUS
<1>1. CASE UNCHANGED stVars
  BY <1>1 DEF stVars, StInv, StTypes, StCounts, InRound, StMessages, At, Senders
<1>2. CASE Master
  BY <1>2, MasterStartKeeps, MasterWaitKeeps, MasterReceiveKeeps, MasterEndKeeps, MasterRemoveKeeps DEF Master
<1>3. ASSUME NEW i \in Stations, Station(i) PROVE StInv'
  BY <1>3, ReadyKeeps, StationStartKeeps, SendKeeps, DoneKeeps, EndKeeps, ResetKeeps DEF Station
<1>. QED BY <1>1, <1>2, <1>3 DEF StNext

LEMMA StInvSound == StInv => SameRound /\ StartTogether
<1> SUFFICES ASSUME StInv PROVE SameRound /\ StartTogether
  OBVIOUS
<1>1. SameRound
  <2>1. DOMAIN stGot = 1..Len(stGot)
    BY DEF StInv, StTypes
  <2>. QED BY <2>1, QueueEmpty DEF SameRound, Elements
<1>2. StartTogether
  <2> SUFFICES ASSUME NEW i \in Stations, NEW j \in Stations, stAt[i] \in {"working", "sent", "done"}
               PROVE  stLoop[j] >= stLoop[i] \/ stAt[j] = "exit"
    BY DEF StartTogether
  <2>1. InRound(i) /\ InRound(j) /\ StTypes
    BY DEF StInv
  <2>2. stLoop[i] \in Int /\ stLoop[j] \in Int /\ stLoop[Boss] \in Int
    BY <2>1 DEF StTypes
  <2>3. CASE stAt[Boss] = "begin"
    <3>1. stLoop[i] + 1 = stLoop[Boss] /\ (stLoop[j] + 1 = stLoop[Boss] \/ stLoop[j] = stLoop[Boss])
      BY <2>1, <2>3 DEF InRound
    <3>. QED BY <2>2, <3>1
  <2>4. CASE stAt[Boss] # "begin"
    <3>1. stLoop[i] = stLoop[Boss] /\ stLoop[j] = stLoop[Boss]
      BY <2>1, <2>4 DEF InRound, StTypes
    <3>. QED BY <2>2, <3>1
  <2>. QED BY <2>3, <2>4
<1>. QED BY <1>1, <1>2

\* misc/MultiSem.c: for any number of stations and rounds the master has exactly one message
\* of the current round from each station when it ends the round, and a station works in a
\* round only when all others have ended the one before.
THEOREM RoundsApart == StSpec => [](SameRound /\ StartTogether)
  BY StInitHolds, StInvNext, StInvSound, PTL DEF StSpec

-----------------------------------------------------------------------------
(* The run's composition *)

\* The run sync: whichever of the four parts runs, the semaphore (SemaphoreExImpl_Linux.cpp)
\* is not overdrawn and forgets no sleeper, the stations of MultiSem.c stay in one round, and
\* the gate (MultiThreadSync_Linux.cpp) opens once per Signal and has no sleeper in front of it.
THEOREM SyncCorrect == MCSpec => [](UnitsSound /\ OncePerSignal /\ NoSleeperAtOpenGate)
<1>1. MCInit => Init /\ StInit /\ GateInv
  BY GateStart, GateOfBarrier DEF MCInit
<1>2. [MCNext]_<<vars, barrierVars, stVars, part>> => [Next]_vars /\ [StNext]_stVars /\ [SyncNext]_syncVars
  <2>1. ASSUME UNCHANGED <<vars, barrierVars, stVars, part>> PROVE [Next]_vars /\ [StNext]_stVars /\ [SyncNext]_syncVars
    BY <2>1 DEF barrierVars
  <2>2. ASSUME MCNext PROVE [Next]_vars /\ [StNext]_stVars /\ [SyncNext]_syncVars
    <3>1. [Next]_vars /\ [StNext]_stVars
      BY <2>2 DEF MCNext
    <3>2. SyncNext \/ CtrlNext \/ UNCHANGED barrierVars
      BY <2>2 DEF MCNext
    <3>3. [SyncNext]_syncVars
      BY <3>2, GateSteps DEF barrierVars
    <3>. QED BY <3>1, <3>3
  <2>. QED BY <2>1, <2>2
<1>3. MCSpec => []GateInv
  BY <1>1, <1>2, GateKept, PTL DEF MCSpec
<1>4. MCSpec => Spec /\ StSpec
  BY <1>1, <1>2, PTL DEF MCSpec, Spec, StSpec
<1>5. NotOverdrawn /\ NoLostWakeup /\ SameRound /\ StartTogether => UnitsSound
  BY DEF UnitsSound
<1>. QED BY <1>3, <1>4, <1>5, GateSound, UnitsSafe, SleepersSafe, RoundsApart, PTL
==============================================================================
