--------------------------- MODULE TimerMgr_proofs ---------------------------
(***************************************************************************)
(* Proofs about the signal-driven timer manager, for any sets of timers,   *)
(* any precision, width and bounds.  TypeInv bounds a timer's age by the   *)
(* SIGALRMs taken; SafeInv ties the iterators of the two loops and the     *)
(* deletions of Stop to the map and gives freed memory and the permits;    *)
(* ClockInv, on top of both, ties nCount and nFinish to the age and gives  *)
(* the times of the callbacks.                                             *)
(***************************************************************************)
EXTENDS TimerMgr, WellFoundedInduction, TLAPS

-----------------------------------------------------------------------------
(* Operators *)

\* The iterator of a loop over the map stands on one of the timers still to visit.
LEMMA MinInSet ==
    ASSUME NEW T \in SUBSET Nat, T # {}
    PROVE  Min(T) \in T
<1> DEFINE R == {ss \in Nat \X Nat : ss[1] < ss[2]}
<1>1. IsWellFoundedOn(R, Nat)
  BY NatLessThanWellFounded DEF OpToRel
<1> HIDE DEF R
<1>2. PICK x \in T : \A y \in T : ~ (<<y, x>> \in R)
  BY <1>1, WFMin
<1>3. ASSUME NEW y \in T PROVE x =< y
  <2>1. ~ (<<y, x>> \in R) /\ x \in Nat /\ y \in Nat
    BY <1>2
  <2>2. ~ (y < x)
    BY <2>1 DEF R
  <2>. QED BY <2>1, <2>2
<1>. QED BY <1>3 DEF Min

\* ++nCount wraps at the width of an unsigned short, and grows by one at most.
LEMMA IncrementedCount ==
    ASSUME NEW r \in Timers
    PROVE  /\ Incremented(r) \in 0..(Width - 1)
           /\ Incremented(r) <= r.count + 1
<1>1. r.count \in 0..(Width - 1) /\ Width \in Nat \ {0}
  BY TimerAssumption DEF Timers
<1>2. CASE r.count + 1 < Width
  BY <1>1, <1>2 DEF Incremented
<1>3. CASE r.count + 1 = Width
  BY <1>1, <1>3 DEF Incremented
<1>. QED BY <1>1, <1>2, <1>3

\* The fields of a timer.
LEMMA Fields ==
    ASSUME NEW r \in Timers
    PROVE  /\ r.start \in Nat /\ r.interval \in Nat /\ r.count \in 0..(Width - 1)
           /\ r.state \in 0..3 /\ r.age \in 0..MaxTicks /\ r.age \in Nat /\ r.fires \in Nat
<1>1. /\ Starts \subseteq Nat /\ Intervals \subseteq Nat \ {0} /\ MaxTicks \in Nat
  BY TimerAssumption
<1>2. /\ r.start \in Starts /\ r.interval \in Intervals \cup {0} /\ r.count \in 0..(Width - 1)
      /\ r.state \in 0..3 /\ r.age \in 0..MaxTicks /\ r.fires \in Nat
  BY DEF Timers
<1>3. r.start \in Nat
  BY <1>1, <1>2
<1>4. r.interval \in Nat
  <2>1. CASE r.interval = 0
    BY <2>1
  <2>2. CASE r.interval \in Intervals
    BY <1>1, <2>2
  <2>. QED BY <1>2, <2>1, <2>2
<1>5. r.age \in Nat
  BY <1>1, <1>2
<1>. QED BY <1>2, <1>3, <1>4, <1>5

-----------------------------------------------------------------------------
(* Types *)

\* The SIGALRMs the timer thread has taken: a timer ages once for each, at the loop over
\* its kind.
Waited == ticks - timeSync
AgeBound ==
    /\ MaxTicks = 0 => \A i \in Ids : timer[i].age = 0
    /\ MaxTicks > 0 =>
         /\ ticks <= MaxTicks /\ 0 <= Waited
         /\ tickAt \in {"once", "lock"} => 1 <= Waited
         /\ \A i \in OnceIds : timer[i].age + (IF tickAt = "once" THEN 1 ELSE 0) <= Waited
         /\ \A i \in RepeatIds :
               timer[i].age + (IF tickAt \in {"once", "lock"} THEN 1 ELSE 0) <= Waited

TypeInv == TypeOK /\ AgeBound

\* A new timer has its type.
LEMMA NewTimerType ==
    ASSUME NEW start \in Starts, NEW interval \in Intervals \cup {0}, NEW g \in Garbage
    PROVE  NewTimer(start, interval, g) \in Timers /\ NewTimer(start, interval, g).age = 0
<1>1. g[1] \in 0..(Width - 1) /\ g[2] \in 0..3 /\ MaxTicks \in Nat
  BY TimerAssumption
<1>. QED BY <1>1 DEF NewTimer, Timers

\* So has the place of a timer that does not exist.
LEMMA NoTimerType == NoTimer \in Timers /\ NoTimer.age = 0
<1>1. (CHOOSE s \in Starts : TRUE) \in Starts
  BY TimerAssumption
<1>2. 0 \in 0..(Width - 1) /\ 0 \in 0..MaxTicks
  BY TimerAssumption
<1>. QED BY <1>1, <1>2 DEF NoTimer, Timers

\* Calls of the program keep the types.
LEMMA TypeProgram ==
    ASSUME TypeInv, Program PROVE TypeInv'
<1> USE TimerAssumption DEF TypeInv, TypeOK, AgeBound, Waited, sems, tickVars, repeatVars, bounds
<1>1. ASSUME NEW i \in OnceIds, NEW s \in Starts, NEW g \in Garbage, AddOnce(i, s, g)
      PROVE  TypeInv'
  <2>1. NewTimer(s, 0, g) \in Timers /\ NewTimer(s, 0, g).age = 0
    BY NewTimerType
  <2>. QED BY <1>1, <2>1 DEF AddOnce, Ids
<1>2. ASSUME NEW i \in RepeatIds, NEW s \in Starts, NEW n \in Intervals, NEW g \in Garbage,
             AddRepeat(i, s, n, g)
      PROVE  TypeInv'
  <2>1. NewTimer(s, n, g) \in Timers /\ NewTimer(s, n, g).age = 0
    BY NewTimerType
  <2>. QED BY <1>2, <2>1 DEF AddRepeat, Ids
<1>3. ASSUME NEW i \in RepeatIds, DelTimer(i) PROVE TypeInv'
  <2>1. NoTimer \in Timers /\ NoTimer.age = 0
    BY NoTimerType
  <2>. QED BY <1>3, <2>1 DEF DelTimer, Ids
<1>4. ASSUME NEW i \in RepeatIds, NEW s \in Starts, NEW n \in Intervals, ModifyRepeatTimer(i, s, n)
      PROVE  TypeInv'
  <2>1. timer[i] \in Timers
    BY DEF Ids
  <2>2. [timer[i] EXCEPT !.start = s, !.interval = n, !.fixed = FALSE] \in Timers
    BY <2>1 DEF Timers
  <2>3. timer' = [timer EXCEPT ![i] = [timer[i] EXCEPT !.start = s, !.interval = n, !.fixed = FALSE]]
    BY <1>4 DEF ModifyRepeatTimer
  <2>. QED BY <1>4, <2>2, <2>3 DEF ModifyRepeatTimer, Ids
<1>. QED BY <1>1, <1>2, <1>3, <1>4 DEF Program

\* Ages stay within their bound when none of them grows and the timer thread is not sent
\* back to the loops that make timers older.
LEMMA AgeFrame ==
    ASSUME TypeOK, AgeBound, timer' \in [Ids -> Timers], UNCHANGED <<ticks, timeSync>>,
           tickAt' \in {"once", "lock"} => tickAt' = tickAt,
           \A i \in Ids : timer'[i].age = timer[i].age \/ timer'[i].age = 0
    PROVE  AgeBound'
<1>1. \A i \in Ids : timer[i].age \in Nat /\ timer'[i].age \in Nat
  BY Fields DEF TypeOK
<1>2. Waited' = Waited /\ Waited \in Int /\ MaxTicks \in Nat
  BY TimerAssumption DEF Waited, TypeOK
<1>3. MaxTicks = 0 => \A i \in Ids : timer'[i].age = 0
  BY DEF AgeBound
<1>4. ASSUME MaxTicks > 0, NEW i \in OnceIds
      PROVE  timer'[i].age + (IF tickAt' = "once" THEN 1 ELSE 0) <= Waited
  <2>1. timer'[i].age \in Nat /\ timer[i].age \in Nat /\ timer'[i].age <= timer[i].age
    BY <1>1 DEF Ids
  <2>2. timer[i].age + (IF tickAt = "once" THEN 1 ELSE 0) <= Waited
    BY <1>4 DEF AgeBound
  <2>. QED BY <1>2, <2>1, <2>2
<1>5. ASSUME MaxTicks > 0, NEW i \in RepeatIds
      PROVE  timer'[i].age + (IF tickAt' \in {"once", "lock"} THEN 1 ELSE 0) <= Waited
  <2>1. timer'[i].age \in Nat /\ timer[i].age \in Nat /\ timer'[i].age <= timer[i].age
    BY <1>1 DEF Ids
  <2>2. timer[i].age + (IF tickAt \in {"once", "lock"} THEN 1 ELSE 0) <= Waited
    BY <1>5 DEF AgeBound
  <2>. QED BY <1>2, <2>1, <2>2
<1>. QED BY <1>2, <1>3, <1>4, <1>5 DEF AgeBound

\* The signal and the steps of the timer thread keep the types.
LEMMA TypeTick ==
    ASSUME TypeInv, Sigalrm \/ Tick PROVE TypeInv'
<1>0. /\ timer \in [Ids -> Timers] /\ MaxTicks \in Nat /\ ticks \in Nat /\ timeSync \in Nat
      /\ AgeBound /\ Waited = ticks - timeSync
      /\ \A i \in Ids : timer[i].age \in 0..MaxTicks
  BY TimerAssumption, Fields DEF TypeInv, TypeOK, Waited
<1> USE DEF TypeInv, TypeOK, sems, tickVars, repeatVars, bounds, lists
<1>1. ASSUME Sigalrm PROVE TypeInv'
  <2>1. AgeBound'
    BY <1>0, <1>1 DEF Sigalrm, AgeBound, Waited
  <2>. QED BY <1>0, <1>1, <2>1 DEF Sigalrm
<1>2. ASSUME TickTest PROVE TypeInv'
  BY <1>2, AgeFrame DEF TickTest
<1>3. ASSUME TickWait PROVE TypeInv'
  <2>1. UNCHANGED <<timer, ticks>> /\ timeSync' = timeSync - 1 /\ timeSync > 0
        /\ tickAt = "wait" /\ tickAt' = "once"
    BY <1>3 DEF TickWait
  <2>2. Waited' = Waited + 1 /\ Waited \in Int
    BY <1>0, <2>1 DEF Waited
  <2>3. \A i \in OnceIds \cup RepeatIds : timer[i].age \in Nat
    BY <1>0 DEF Ids
  <2>4. AgeBound'
    BY <1>0, <2>1, <2>2, <2>3 DEF AgeBound
  <2>5. flagRepeat' \in BOOLEAN
    BY <1>3, Zenon DEF TickWait
  <2>6. timeSync' \in Nat
    BY <1>0, <2>1
  <2>. QED BY <1>3, <2>1, <2>4, <2>5, <2>6 DEF TickWait
<1>4. ASSUME TickOnce PROVE TypeInv'
  <2> DEFINE up(i) == [Older(timer[i]) EXCEPT !.count = Incremented(timer[i]),
                                              !.state = IF OnceDue(timer[i]) THEN 2 ELSE @]
  <2>0. tickAt = "once" /\ tickAt' = "lock" /\ UNCHANGED <<ticks, timeSync>>
    BY <1>4 DEF TickOnce
  <2>1. ASSUME NEW i \in onceLst
        PROVE  /\ up(i) \in Timers
               /\ up(i).age = IF MaxTicks > 0 THEN timer[i].age + 1 ELSE 0
    <3>1. timer[i] \in Timers /\ Incremented(timer[i]) \in 0..(Width - 1) /\ i \in OnceIds
      BY IncrementedCount DEF Ids
    <3>2. (IF MaxTicks > 0 THEN timer[i].age + 1 ELSE 0) \in 0..MaxTicks
      BY <1>0, <2>0, <3>1 DEF AgeBound, Ids
    <3>3. /\ Older(timer[i]) \in Timers
          /\ Older(timer[i]).age = IF MaxTicks > 0 THEN timer[i].age + 1 ELSE 0
      BY <3>1, <3>2 DEF Older, Timers
    <3>4. (IF OnceDue(timer[i]) THEN 2 ELSE Older(timer[i]).state) \in 0..3
      BY <3>3, Fields
    <3>. QED BY <3>1, <3>3, <3>4 DEF Timers
  <2>2. timer' = [i \in Ids |-> IF i \notin onceLst THEN timer[i] ELSE up(i)]
    BY <1>4 DEF TickOnce
  <2> HIDE DEF up
  <2>3. timer' \in [Ids -> Timers]
    BY <2>1, <2>2
  <2>4. \A i \in OnceIds : timer'[i].age \in {timer[i].age, IF MaxTicks > 0 THEN timer[i].age + 1 ELSE 0}
    BY <2>1, <2>2 DEF Ids
  <2>5. \A i \in RepeatIds : timer'[i].age = timer[i].age
    BY <2>2, TimerAssumption DEF Ids
  <2>6. AgeBound'
    BY <1>0, <2>0, <2>4, <2>5 DEF AgeBound, Waited, Ids
  <2>7. semOnce' \in Nat
    <3>1. PICK due : semOnce' = semOnce + PostOnce(due)
      BY <1>4 DEF TickOnce
    <3>2. PostOnce(due) \in Nat
      BY DEF PostOnce
    <3>. QED BY <3>1, <3>2
  <2>. QED BY <1>4, <2>3, <2>6, <2>7 DEF TickOnce
<1>5. ASSUME TickLock PROVE TypeInv'
  <2>0. tickAt = "lock" /\ tickAt' = "loop" /\ UNCHANGED <<ticks, timeSync>>
    BY <1>5 DEF TickLock
  <2>1. ASSUME NEW i \in repeatSet
        PROVE  /\ Older(timer[i]) \in Timers
               /\ Older(timer[i]).age = IF MaxTicks > 0 THEN timer[i].age + 1 ELSE 0
    <3>1. timer[i] \in Timers /\ i \in RepeatIds
      BY DEF Ids
    <3>2. (IF MaxTicks > 0 THEN timer[i].age + 1 ELSE 0) \in 0..MaxTicks
      BY <1>0, <2>0, <3>1 DEF AgeBound, Ids
    <3>. QED BY <3>1, <3>2 DEF Older, Timers
  <2>2. timer' = [i \in Ids |-> IF i \in repeatSet THEN Older(timer[i]) ELSE timer[i]]
    BY <1>5 DEF TickLock
  <2>3. timer' \in [Ids -> Timers]
    BY <2>1, <2>2
  <2>4. \A i \in RepeatIds : timer'[i].age \in {timer[i].age, IF MaxTicks > 0 THEN timer[i].age + 1 ELSE 0}
    BY <2>1, <2>2 DEF Ids
  <2>5. \A i \in OnceIds : timer'[i].age = timer[i].age
    BY <2>2, TimerAssumption DEF Ids
  <2>6. AgeBound'
    BY <1>0, <2>0, <2>4, <2>5 DEF AgeBound, Waited, Ids
  <2>. QED BY <1>5, <2>3, <2>6 DEF TickLock
<1>6. ASSUME TickVisit PROVE TypeInv'
  <2> DEFINE m == Min(todo)
  <2>1. m \in Ids /\ m \in RepeatIds /\ timer[m] \in Timers
    BY <1>6 DEF TickVisit, Ids
  <2>2. /\ timer' \in {timer, [timer EXCEPT ![m].count = Incremented(timer[m])]}
        /\ tickAt = "loop" /\ tickAt' \in {"loop", "set"} /\ todo' \in {todo, todo \ {m}}
    BY <1>6 DEF TickVisit
  <2> HIDE DEF m
  <2>3. timer' \in [Ids -> Timers] /\ \A i \in Ids : timer'[i].age = timer[i].age
    BY <2>1, <2>2, IncrementedCount DEF Timers
  <2>4. AgeBound'
    BY <1>6, <2>2, <2>3, AgeFrame DEF TickVisit
  <2>. QED BY <1>6, <2>2, <2>3, <2>4 DEF TickVisit
<1>7. ASSUME TickSet PROVE TypeInv'
  <2> DEFINE m == Min(todo)
  <2>1. timer' = [timer EXCEPT ![m] = Finished(timer[m])]
    BY <1>7 DEF TickSet
  <2> HIDE DEF m
  <2>2. \A i \in Ids : Finished(timer[i]) \in Timers /\ Finished(timer[i]).age = timer[i].age
    <3>1. 0 \in 0..(Width - 1) /\ 2 \in 0..3
      BY TimerAssumption
    <3>. QED BY <1>0, <3>1 DEF Timers, Finished
  <2>3. timer' \in [Ids -> Timers] /\ \A i \in Ids : timer'[i].age = timer[i].age
    BY <1>0, <2>1, <2>2
  <2>4. AgeBound'
    BY <1>7, <2>3, AgeFrame DEF TickSet
  <2>. QED BY <1>7, <2>3, <2>4 DEF TickSet
<1>8. ASSUME TickUnlock PROVE TypeInv'
  BY <1>8, AgeFrame DEF TickUnlock, PostRepeat
<1>9. ASSUME TickFault PROVE TypeInv'
  BY <1>9, AgeFrame DEF TickFault
<1>. QED BY <1>1, <1>2, <1>3, <1>4, <1>5, <1>6, <1>7, <1>8, <1>9 DEF Tick

\* The steps of OnceProcess and RepeatProcess keep the types.
LEMMA TypeProcess ==
    ASSUME TypeInv, OnceProcess \/ RepeatProcess PROVE TypeInv'
<1>0. timer \in [Ids -> Timers] /\ AgeBound
  BY DEF TypeInv, TypeOK
<1> USE DEF TypeInv, TypeOK, sems, tickVars, repeatVars, bounds, lists
<1>1. ASSUME OnceTest PROVE TypeInv'
  BY <1>1, AgeFrame DEF OnceTest
<1>2. ASSUME OnceWait PROVE TypeInv'
  BY <1>2, AgeFrame DEF OnceWait, OncePermit
<1>3. ASSUME DealOnceHandle PROVE TypeInv'
  <2>1. timer' \in [Ids -> Timers] /\ \A i \in Ids : timer'[i].age = timer[i].age \/ timer'[i].age = 0
    BY <1>3, NoTimerType DEF DealOnceHandle
  <2>2. AgeBound'
    BY <1>3, <2>1, AgeFrame DEF DealOnceHandle
  <2>. QED BY <1>3, <2>1, <2>2 DEF DealOnceHandle, Remaining
<1>4. ASSUME RepeatTest PROVE TypeInv'
  BY <1>4, AgeFrame DEF RepeatTest
<1>5. ASSUME RepeatWait PROVE TypeInv'
  BY <1>5, AgeFrame DEF RepeatWait
<1>6. ASSUME DealLock PROVE TypeInv'
  BY <1>6, AgeFrame DEF DealLock
<1>7. ASSUME DealVisit PROVE TypeInv'
  <2> DEFINE m == Min(left)
  <2>1. m \in Ids /\ timer[m] \in Timers
    BY <1>7 DEF DealVisit, Ids
  <2>2. /\ timer' \in {timer, [timer EXCEPT ![m].fires = IF MaxTicks > 0 THEN @ + 1 ELSE 0]}
        /\ repeatAt' \in {"loop", "reset"} /\ left' \in {left, left \ {m}}
    BY <1>7 DEF DealVisit
  <2> HIDE DEF m
  <2>3. timer' \in [Ids -> Timers] /\ \A i \in Ids : timer'[i].age = timer[i].age
    BY <2>1, <2>2 DEF Timers
  <2>4. AgeBound'
    BY <1>7, <2>3, AgeFrame DEF DealVisit
  <2>. QED BY <1>7, <2>2, <2>3, <2>4 DEF DealVisit
<1>8. ASSUME DealReset PROVE TypeInv'
  <2> DEFINE m == Min(left)
  <2>1. timer' = [timer EXCEPT ![m] = AfterReset(timer[m])]
    BY <1>8 DEF DealReset
  <2> HIDE DEF m
  <2>2. \A i \in Ids : AfterReset(timer[i]) \in Timers /\ AfterReset(timer[i]).age = timer[i].age
    BY <1>0 DEF Timers, AfterReset
  <2>3. timer' \in [Ids -> Timers] /\ \A i \in Ids : timer'[i].age = timer[i].age
    BY <1>0, <2>1, <2>2
  <2>4. AgeBound'
    BY <1>8, <2>3, AgeFrame DEF DealReset
  <2>. QED BY <1>8, <2>3, <2>4 DEF DealReset
<1>9. ASSUME DealUnlock PROVE TypeInv'
  BY <1>9, AgeFrame DEF DealUnlock
<1>10. ASSUME DealFault PROVE TypeInv'
  BY <1>10, AgeFrame DEF DealFault
<1>. QED
  BY <1>1, <1>2, <1>3, <1>4, <1>5, <1>6, <1>7, <1>8, <1>9, <1>10 DEF OnceProcess, RepeatProcess

\* A step of Stop keeps the types.
LEMMA TypeStop ==
    ASSUME TypeInv, Stop PROVE TypeInv'
<1> USE DEF TypeInv, TypeOK, sems, tickVars, repeatVars, bounds, lists
<1>1. timer' \in [Ids -> Timers] /\ \A i \in Ids : timer'[i].age = timer[i].age
  <2>1. \A i \in Ids : timer'[i] \in {timer[i], [timer[i] EXCEPT !.live = FALSE]}
    BY DEF Stop, Freed
  <2>2. ASSUME NEW i \in Ids
        PROVE  [timer[i] EXCEPT !.live = FALSE] \in Timers
               /\ [timer[i] EXCEPT !.live = FALSE].age = timer[i].age
    BY DEF Timers
  <2>3. timer' = [i \in Ids |-> timer'[i]]
    BY DEF Stop, Freed
  <2>4. \A i \in Ids : timer'[i] \in Timers /\ timer'[i].age = timer[i].age
    BY <2>1, <2>2
  <2>. QED BY <2>3, <2>4
<1>2. AgeBound'
  BY <1>1, AgeFrame DEF Stop
<1>. QED BY <1>1, <1>2 DEF Stop

\* Every variable keeps its type (TypeOK), for all sets of timers and all bounds.
THEOREM TypeCorrect == Spec => [](TypeOK /\ AgeBound)
<1>1. Init => TypeInv
  <2> SUFFICES ASSUME Init PROVE TypeInv
    OBVIOUS
  <2>1. timer \in [Ids -> Timers] /\ \A i \in Ids : timer[i].age = 0
    BY NoTimerType DEF Init
  <2>2. AgeBound
    BY <2>1, TimerAssumption DEF Init, AgeBound, Waited, Ids
  <2>3. TypeOK
    <3>1. flagRepeat \in BOOLEAN /\ fault \in BOOLEAN
      BY Zenon DEF Init
    <3>. QED BY <2>1, <3>1, TimerAssumption DEF Init, TypeOK
  <2>. QED BY <2>2, <2>3 DEF TypeInv
<1>2. TypeInv /\ [Next]_vars => TypeInv'
  <2> SUFFICES ASSUME TypeInv, [Next]_vars PROVE TypeInv'
    OBVIOUS
  <2>1. CASE Next
    BY <2>1, TypeProgram, TypeTick, TypeProcess, TypeStop DEF Next
  <2>2. CASE UNCHANGED vars
    BY <2>2 DEF vars, lists, sems, tickVars, repeatVars, bounds, TypeInv, TypeOK, AgeBound, Waited
  <2>. QED BY <2>1, <2>2
<1>. QED BY <1>1, <1>2, PTL DEF Spec, TypeInv

-----------------------------------------------------------------------------
(* What the steps do to the timers *)

\* The loop of the tick over the once timers counts each of them.
LEMMA TickOnceEffect ==
    ASSUME TypeInv, TickOnce, NEW i \in Ids
    PROVE  IF i \in onceLst
           THEN /\ timer'[i].count = Incremented(timer[i])
                /\ timer'[i].state = IF OnceDue(timer[i]) THEN 2 ELSE timer[i].state
                /\ timer'[i].age = IF MaxTicks > 0 THEN timer[i].age + 1 ELSE 0
                /\ timer'[i].start = timer[i].start /\ timer'[i].clean = timer[i].clean
                /\ timer'[i].live = timer[i].live
           ELSE timer'[i] = timer[i]
<1>1. timer[i] \in Timers
  BY DEF TypeInv, TypeOK
<1>2. timer'[i] = IF i \notin onceLst THEN timer[i]
                  ELSE [Older(timer[i]) EXCEPT !.count = Incremented(timer[i]),
                                               !.state = IF OnceDue(timer[i]) THEN 2 ELSE @]
  BY DEF TickOnce
<1>. QED BY <1>1, <1>2 DEF Older, Timers

\* When the loop over the repeat timers begins, each of them is a tick older.
LEMMA TickLockEffect ==
    ASSUME TypeInv, TickLock, NEW i \in Ids
    PROVE  IF i \in repeatSet
           THEN /\ timer'[i].count = timer[i].count /\ timer'[i].state = timer[i].state
                /\ timer'[i].age = IF MaxTicks > 0 THEN timer[i].age + 1 ELSE 0
                /\ timer'[i].start = timer[i].start /\ timer'[i].interval = timer[i].interval
                /\ timer'[i].fires = timer[i].fires /\ timer'[i].fixed = timer[i].fixed
                /\ timer'[i].clean = timer[i].clean /\ timer'[i].live = timer[i].live
           ELSE timer'[i] = timer[i]
<1>1. timer[i] \in Timers
  BY DEF TypeInv, TypeOK
<1>2. timer'[i] = IF i \in repeatSet THEN Older(timer[i]) ELSE timer[i]
  BY DEF TickLock
<1>. QED BY <1>1, <1>2 DEF Older, Timers

\* A visit of the tick counts, and finds the timer due, or passes it by.
LEMMA TickVisitEffect ==
    ASSUME TypeInv, TickVisit
    PROVE  LET m == Min(todo) IN
           /\ m \in repeatSet /\ m \in RepeatIds /\ timer[m].live /\ tickAt = "loop"
           /\ \A i \in Ids \ {m} : timer'[i] = timer[i]
           /\ \/ /\ timer[m].state > 1 /\ timer'[m] = timer[m]
                 /\ tickAt' = "loop" /\ todo' = todo \ {m}
              \/ /\ ~ (timer[m].state > 1)
                 /\ timer'[m].count = Incremented(timer[m])
                 /\ timer'[m].state = timer[m].state /\ timer'[m].age = timer[m].age
                 /\ timer'[m].start = timer[m].start /\ timer'[m].interval = timer[m].interval
                 /\ timer'[m].fires = timer[m].fires /\ timer'[m].fixed = timer[m].fixed
                 /\ timer'[m].clean = timer[m].clean /\ timer'[m].live = timer[m].live
                 /\ \/ /\ Reached(timer[m], Target(timer[m]))
                       /\ tickAt' = "set" /\ todo' = todo
                    \/ tickAt' = "loop" /\ todo' = todo \ {m}
<1> DEFINE m == Min(todo)
<1>1. m \in repeatSet /\ m \in RepeatIds /\ m \in Ids /\ timer[m].live /\ tickAt = "loop"
  BY DEF TickVisit, TypeInv, TypeOK, Ids
<1>2. timer[m] \in Timers /\ timer \in [Ids -> Timers]
  BY <1>1 DEF TypeInv, TypeOK
<1>3. \/ /\ timer[m].state > 1 /\ timer' = timer
         /\ tickAt' = "loop" /\ todo' = todo \ {m}
      \/ /\ ~ (timer[m].state > 1)
         /\ timer' = [timer EXCEPT ![m].count = Incremented(timer[m])]
         /\ \/ /\ Reached(timer[m], Target(timer[m]))
               /\ tickAt' = "set" /\ todo' = todo
            \/ tickAt' = "loop" /\ todo' = todo \ {m}
  BY DEF TickVisit
<1> HIDE DEF m
<1>4. CASE timer' = timer /\ timer[m].state > 1
  BY <1>1, <1>3, <1>4 DEF m
<1>5. CASE timer' = [timer EXCEPT ![m].count = Incremented(timer[m])] /\ ~ (timer[m].state > 1)
  <2>1. \A i \in Ids \ {m} : timer'[i] = timer[i]
    BY <1>2, <1>5
  <2>2. timer'[m] = [timer[m] EXCEPT !.count = Incremented(timer[m])]
    BY <1>1, <1>2, <1>5
  <2>3. /\ timer'[m].count = Incremented(timer[m])
        /\ timer'[m].state = timer[m].state /\ timer'[m].age = timer[m].age
        /\ timer'[m].start = timer[m].start /\ timer'[m].interval = timer[m].interval
        /\ timer'[m].fires = timer[m].fires /\ timer'[m].fixed = timer[m].fixed
        /\ timer'[m].clean = timer[m].clean /\ timer'[m].live = timer[m].live
    BY <1>2, <2>2 DEF Timers
  <2>. QED BY <1>1, <1>3, <1>5, <2>1, <2>3 DEF m
<1>. QED BY <1>3, <1>4, <1>5

\* A repeat timer that became due is marked, and counts from 0 again.
LEMMA TickSetEffect ==
    ASSUME TypeInv, TickSet, Min(todo) \in Ids
    PROVE  LET m == Min(todo) IN
           /\ \A i \in Ids \ {m} : timer'[i] = timer[i]
           /\ timer'[m].count = 0 /\ timer'[m].state = 2 /\ timer'[m].age = timer[m].age
           /\ timer'[m].start = timer[m].start /\ timer'[m].interval = timer[m].interval
           /\ timer'[m].fires = timer[m].fires /\ timer'[m].fixed = timer[m].fixed
           /\ timer'[m].clean = timer[m].clean /\ timer'[m].live = timer[m].live
<1> DEFINE m == Min(todo)
<1>1. m \in Ids /\ timer' = [timer EXCEPT ![m] = Finished(timer[m])] /\ timer \in [Ids -> Timers]
  BY DEF TickSet, TypeInv, TypeOK
<1> HIDE DEF m
<1>2. timer[m] \in Timers /\ timer'[m] = Finished(timer[m])
  BY <1>1
<1>3. /\ timer'[m].count = 0 /\ timer'[m].state = 2 /\ timer'[m].age = timer[m].age
      /\ timer'[m].start = timer[m].start /\ timer'[m].interval = timer[m].interval
      /\ timer'[m].fires = timer[m].fires /\ timer'[m].fixed = timer[m].fixed
      /\ timer'[m].clean = timer[m].clean /\ timer'[m].live = timer[m].live
  BY <1>2 DEF Finished, Timers
<1>4. \A i \in Ids \ {m} : timer'[i] = timer[i]
  BY <1>1
<1>. QED BY <1>3, <1>4 DEF m

\* A visit of RepeatProcess calls TimerProc when the timer is due.
LEMMA DealVisitEffect ==
    ASSUME TypeInv, DealVisit
    PROVE  LET m == Min(left) IN
           /\ m \in repeatSet /\ m \in RepeatIds /\ timer[m].live /\ repeatAt = "loop"
           /\ \A i \in Ids \ {m} : timer'[i] = timer[i]
           /\ \/ /\ ~ IsTimeout(timer[m]) /\ timer'[m] = timer[m]
                 /\ repeatAt' = "loop" /\ left' = left \ {m}
              \/ /\ IsTimeout(timer[m]) /\ repeatAt' = "reset" /\ left' = left
                 /\ timer'[m].fires = IF MaxTicks > 0 THEN timer[m].fires + 1 ELSE 0
                 /\ timer'[m].count = timer[m].count
                 /\ timer'[m].state = timer[m].state /\ timer'[m].age = timer[m].age
                 /\ timer'[m].start = timer[m].start /\ timer'[m].interval = timer[m].interval
                 /\ timer'[m].fixed = timer[m].fixed
                 /\ timer'[m].clean = timer[m].clean /\ timer'[m].live = timer[m].live
<1> DEFINE m == Min(left)
<1>1. m \in repeatSet /\ m \in RepeatIds /\ m \in Ids /\ timer[m].live /\ repeatAt = "loop"
  BY DEF DealVisit, TypeInv, TypeOK, Ids
<1>2. timer[m] \in Timers /\ timer \in [Ids -> Timers]
  BY <1>1 DEF TypeInv, TypeOK
<1>3. \/ /\ ~ IsTimeout(timer[m]) /\ timer' = timer
         /\ repeatAt' = "loop" /\ left' = left \ {m}
      \/ /\ IsTimeout(timer[m]) /\ repeatAt' = "reset" /\ left' = left
         /\ timer' = [timer EXCEPT ![m].fires = IF MaxTicks > 0 THEN @ + 1 ELSE 0]
  BY DEF DealVisit
<1> HIDE DEF m
<1>4. CASE timer' = timer /\ ~ IsTimeout(timer[m])
  BY <1>1, <1>3, <1>4 DEF m
<1>5. CASE /\ timer' = [timer EXCEPT ![m].fires = IF MaxTicks > 0 THEN @ + 1 ELSE 0]
           /\ IsTimeout(timer[m])
  <2>1. \A i \in Ids \ {m} : timer'[i] = timer[i]
    BY <1>2, <1>5
  <2>2. timer'[m] = [timer[m] EXCEPT !.fires = IF MaxTicks > 0 THEN @ + 1 ELSE 0]
    BY <1>1, <1>2, <1>5
  <2>3. /\ timer'[m].fires = IF MaxTicks > 0 THEN timer[m].fires + 1 ELSE 0
        /\ timer'[m].count = timer[m].count
        /\ timer'[m].state = timer[m].state /\ timer'[m].age = timer[m].age
        /\ timer'[m].start = timer[m].start /\ timer'[m].interval = timer[m].interval
        /\ timer'[m].fixed = timer[m].fixed
        /\ timer'[m].clean = timer[m].clean /\ timer'[m].live = timer[m].live
    BY <1>2, <2>2 DEF Timers
  <2>. QED BY <1>1, <1>3, <1>5, <2>1, <2>3 DEF m
<1>. QED BY <1>3, <1>4, <1>5

\* ResetState after the callback.
LEMMA DealResetEffect ==
    ASSUME TypeInv, DealReset, Min(left) \in Ids
    PROVE  LET m == Min(left) IN
           /\ \A i \in Ids \ {m} : timer'[i] = timer[i]
           /\ timer'[m].state = 1 /\ timer'[m].count = timer[m].count /\ timer'[m].age = timer[m].age
           /\ timer'[m].start = timer[m].start /\ timer'[m].interval = timer[m].interval
           /\ timer'[m].fires = timer[m].fires /\ timer'[m].fixed = timer[m].fixed
           /\ timer'[m].clean = timer[m].clean /\ timer'[m].live = timer[m].live
<1> DEFINE m == Min(left)
<1>1. m \in Ids /\ timer' = [timer EXCEPT ![m] = AfterReset(timer[m])] /\ timer \in [Ids -> Timers]
  BY DEF DealReset, TypeInv, TypeOK
<1> HIDE DEF m
<1>2. timer[m] \in Timers /\ timer'[m] = AfterReset(timer[m])
  BY <1>1
<1>3. /\ timer'[m].state = 1 /\ timer'[m].count = timer[m].count /\ timer'[m].age = timer[m].age
      /\ timer'[m].start = timer[m].start /\ timer'[m].interval = timer[m].interval
      /\ timer'[m].fires = timer[m].fires /\ timer'[m].fixed = timer[m].fixed
      /\ timer'[m].clean = timer[m].clean /\ timer'[m].live = timer[m].live
  BY <1>2 DEF AfterReset, Timers
<1>4. \A i \in Ids \ {m} : timer'[i] = timer[i]
  BY <1>1
<1>. QED BY <1>3, <1>4 DEF m

\* ModifyRepeatTimer sets the times and nothing else.
LEMMA ModifyEffect ==
    ASSUME TypeInv, NEW i \in RepeatIds, NEW s \in Starts, NEW n \in Intervals,
           ModifyRepeatTimer(i, s, n)
    PROVE  /\ \A j \in Ids \ {i} : timer'[j] = timer[j]
           /\ timer'[i].state = timer[i].state /\ timer'[i].live = timer[i].live
           /\ timer'[i].clean = timer[i].clean /\ timer'[i].fixed = FALSE
<1>1. timer \in [Ids -> Timers] /\ i \in Ids
  BY DEF TypeInv, TypeOK, Ids
<1>2. timer' = [timer EXCEPT ![i] = [timer[i] EXCEPT !.start = s, !.interval = n, !.fixed = FALSE]]
  BY DEF ModifyRepeatTimer
<1>3. timer'[i] = [timer[i] EXCEPT !.start = s, !.interval = n, !.fixed = FALSE] /\ timer[i] \in Timers
  BY <1>1, <1>2
<1>4. /\ timer'[i].state = timer[i].state /\ timer'[i].live = timer[i].live
      /\ timer'[i].clean = timer[i].clean /\ timer'[i].fixed = FALSE
  BY <1>3 DEF Timers
<1>5. \A j \in Ids \ {i} : timer'[j] = timer[j]
  BY <1>1, <1>2
<1>. QED BY <1>4, <1>5

\* Stop deletes timers and changes nothing else of them.
LEMMA StopEffect ==
    ASSUME TypeInv, Stop, NEW i \in Ids
    PROVE  /\ timer'[i].count = timer[i].count /\ timer'[i].state = timer[i].state
           /\ timer'[i].age = timer[i].age
           /\ timer'[i].start = timer[i].start /\ timer'[i].interval = timer[i].interval
           /\ timer'[i].fires = timer[i].fires /\ timer'[i].fixed = timer[i].fixed
           /\ timer'[i].clean = timer[i].clean
           /\ IF (stopped = 6 /\ i \in onceLst) \/ (stopped = 7 /\ i \in repeatSet)
              THEN ~ timer'[i].live ELSE timer'[i].live = timer[i].live
<1>1. timer[i] \in Timers
  BY DEF TypeInv, TypeOK
<1>2. timer'[i] = IF (stopped = 6 /\ i \in onceLst) \/ (stopped = 7 /\ i \in repeatSet)
                  THEN [timer[i] EXCEPT !.live = FALSE] ELSE timer[i]
  BY DEF Stop, Freed, TypeInv, TypeOK
<1>. QED BY <1>1, <1>2 DEF Timers

-----------------------------------------------------------------------------
(* Freed memory, and the permits of due timers *)

\* The loops are over timers of the map, which stays as it is while one is in it.
LoopInv ==
    /\ tickAt \in {"loop", "set"} => todo \subseteq repeatSet
    /\ tickAt = "set" => todo # {}
    /\ repeatAt \in {"loop", "reset"} => left \subseteq repeatSet
    /\ repeatAt = "reset" => left # {}
    /\ tickAt \in {"once", "lock"} => ~ flagRepeat

\* Only the last two steps of Stop delete timers that stay in the lists; after the last one
\* the tick finds nothing due any more.
Alive ==
    /\ stopped <= 6 => \A i \in onceLst : timer[i].live
    /\ stopped <= 7 => \A i \in repeatSet : timer[i].live
    /\ stopped = 8 =>
          /\ \A i \in repeatSet : ~ timer[i].live
          /\ tickAt # "set" /\ (tickAt = "loop" => ~ flagRepeat)

SafeInv == LoopInv /\ Alive /\ FaultOnlyInStop /\ DueIsAnnounced

\* The iterators stand on timers of the map.
LEMMA Iterators ==
    ASSUME TypeInv
    PROVE  /\ todo # {} => Min(todo) \in todo /\ Min(todo) \in RepeatIds
           /\ left # {} => Min(left) \in left /\ Min(left) \in RepeatIds
<1>1. todo \subseteq RepeatIds /\ left \subseteq RepeatIds /\ RepeatIds \subseteq Nat
  BY TimerAssumption DEF TypeInv, TypeOK
<1>2. todo \in SUBSET Nat /\ left \in SUBSET Nat
  BY <1>1
<1>3. todo # {} => Min(todo) \in todo
  BY <1>2, MinInSet
<1>4. left # {} => Min(left) \in left
  BY <1>2, MinInSet
<1>. QED BY <1>1, <1>3, <1>4

\* A new timer that counts as clean is not due.
LEMMA NewTimerFields ==
    ASSUME NEW start, NEW interval, NEW g
    PROVE  /\ NewTimer(start, interval, g).live
           /\ NewTimer(start, interval, g).clean =>
                 /\ NewTimer(start, interval, g).state = 0
                 /\ NewTimer(start, interval, g).count = 0
           /\ NewTimer(start, interval, g).age = 0 /\ NewTimer(start, interval, g).fires = 0
           /\ NewTimer(start, interval, g).start = start
           /\ NewTimer(start, interval, g).interval = interval
<1>1. NewTimer(start, interval, g).count = g[1] /\ NewTimer(start, interval, g).state = g[2]
  BY DEF NewTimer
<1>4. NewTimer(start, interval, g).clean => g = <<0, 0>>
  BY Zenon DEF NewTimer
<1>2. NewTimer(start, interval, g).live
  BY Zenon DEF NewTimer
<1>3. /\ NewTimer(start, interval, g).age = 0 /\ NewTimer(start, interval, g).fires = 0
      /\ NewTimer(start, interval, g).start = start
      /\ NewTimer(start, interval, g).interval = interval
  BY DEF NewTimer
<1>. QED BY <1>1, <1>2, <1>3, <1>4

\* Calls of the program use no freed timer before Stop, and leave due timers announced.
LEMMA SafeProgram ==
    ASSUME TypeInv, SafeInv, Program PROVE SafeInv'
<1>0. /\ timer \in [Ids -> Timers] /\ onceLst \subseteq OnceIds /\ repeatSet \subseteq RepeatIds
      /\ OnceIds \cap RepeatIds = {} /\ stopped \in 0..8
  BY TimerAssumption DEF TypeInv, TypeOK
<1> USE DEF SafeInv, LoopInv, Alive, FaultOnlyInStop, DueIsAnnounced, IsTimeout, Writable,
            sems, tickVars, repeatVars, bounds, Ids
<1>1. ASSUME NEW i \in OnceIds, NEW s \in Starts, NEW g \in Garbage, AddOnce(i, s, g)
      PROVE  SafeInv'
  <2>1. /\ \A j \in Ids \ {i} : timer'[j] = timer[j]
        /\ timer'[i] = NewTimer(s, 0, g) /\ onceLst' = onceLst \cup {i} /\ i \notin repeatSet
    BY <1>0, <1>1 DEF AddOnce
  <2>2. timer'[i].live /\ (timer'[i].clean => timer'[i].state = 0)
    BY <2>1, NewTimerFields
  <2>. QED BY <1>0, <1>1, <2>1, <2>2 DEF AddOnce
<1>2. ASSUME NEW i \in RepeatIds, NEW s \in Starts, NEW n \in Intervals, NEW g \in Garbage,
             AddRepeat(i, s, n, g)
      PROVE  SafeInv'
  <2>1. /\ \A j \in Ids \ {i} : timer'[j] = timer[j]
        /\ timer'[i] = NewTimer(s, n, g) /\ repeatSet' = repeatSet \cup {i} /\ i \notin onceLst
    BY <1>0, <1>2 DEF AddRepeat
  <2>2. timer'[i].live /\ (timer'[i].clean => timer'[i].state = 0)
    BY <2>1, NewTimerFields
  <2>. QED BY <1>0, <1>2, <2>1, <2>2 DEF AddRepeat
<1>3. ASSUME NEW i \in RepeatIds, DelTimer(i) PROVE SafeInv'
  <2>1. /\ \A j \in Ids \ {i} : timer'[j] = timer[j]
        /\ repeatSet' = repeatSet \ {i} /\ i \in repeatSet /\ i \notin onceLst
    BY <1>0, <1>3 DEF DelTimer
  <2>2. timer[i].live
    BY <1>0, <1>3, <2>1 DEF DelTimer
  <2>. QED BY <1>0, <1>3, <2>1, <2>2 DEF DelTimer
<1>4. ASSUME NEW i \in RepeatIds, NEW s \in Starts, NEW n \in Intervals, ModifyRepeatTimer(i, s, n)
      PROVE  SafeInv'
  <2>1. /\ \A j \in Ids \ {i} : timer'[j] = timer[j]
        /\ timer'[i].state = timer[i].state /\ timer'[i].live = timer[i].live
        /\ timer'[i].clean = timer[i].clean
        /\ i \notin onceLst
    BY <1>0, <1>4, ModifyEffect
  <2>2. timer[i].live
    BY <1>0, <1>4 DEF ModifyRepeatTimer
  <2>. QED BY <1>0, <1>4, <2>1, <2>2 DEF ModifyRepeatTimer
<1>. QED BY <1>1, <1>2, <1>3, <1>4 DEF Program

\* The tick meets no freed timer before Stop, and announces the timers it finds due.
LEMMA SafeTick ==
    ASSUME TypeInv, SafeInv, Sigalrm \/ Tick PROVE SafeInv'
<1>0. /\ timer \in [Ids -> Timers] /\ onceLst \subseteq OnceIds /\ repeatSet \subseteq RepeatIds
      /\ OnceIds \cap RepeatIds = {} /\ stopped \in 0..8
      /\ semOnce \in Nat /\ semRepeat \in Nat
  BY TimerAssumption DEF TypeInv, TypeOK
<1> USE DEF SafeInv, LoopInv, Alive, FaultOnlyInStop, DueIsAnnounced, IsTimeout,
            sems, tickVars, repeatVars, bounds, lists
<1>1. ASSUME Sigalrm PROVE SafeInv'
  BY <1>1 DEF Sigalrm
<1>2. ASSUME TickTest PROVE SafeInv'
  BY <1>2 DEF TickTest
<1>3. ASSUME TickWait PROVE SafeInv'
  BY <1>3 DEF TickWait
<1>4. ASSUME TickOnce PROVE SafeInv'
  <2>1. \A i \in onceLst :
           /\ timer'[i].state = IF OnceDue(timer[i]) THEN 2 ELSE timer[i].state
           /\ timer'[i].clean = timer[i].clean /\ timer'[i].live = timer[i].live
    BY <1>0, <1>4, TickOnceEffect DEF Ids
  <2>2. \A i \in repeatSet : timer'[i] = timer[i]
    BY <1>0, <1>4, TickOnceEffect DEF Ids
  <2>3. /\ semOnce' \in Nat /\ semOnce' >= semOnce
        /\ (\E i \in onceLst : OnceDue(timer[i])) => semOnce' > 0
    <3> DEFINE due == \E i \in onceLst : OnceDue(timer[i])
    <3>1. semOnce' = semOnce + PostOnce(due)
      BY <1>4 DEF TickOnce
    <3>2. due => PostOnce(due) = 1
      BY Zenon DEF PostOnce
    <3>3. PostOnce(due) \in {0, 1}
      BY Zenon DEF PostOnce
    <3> HIDE DEF due
    <3>4. semOnce' \in Nat /\ semOnce' >= semOnce /\ (due => semOnce' > 0)
      BY <1>0, <3>1, <3>2, <3>3
    <3>. QED BY <3>4 DEF due
  <2>4. Alive'
    <3>1. UNCHANGED <<onceLst, repeatSet, stopped>> /\ tickAt' = "lock"
      BY <1>4 DEF TickOnce
    <3>2. (\A i \in onceLst : timer'[i].live = timer[i].live) /\ (\A i \in repeatSet : timer'[i].live = timer[i].live)
      BY <2>1, <2>2
    <3>3. Alive
      BY DEF SafeInv
    <3>. QED BY <3>1, <3>2, <3>3 DEF Alive
  <2>5. DueIsAnnounced'
    <3>1. ASSUME NEW i \in onceLst, timer'[i].clean, IsTimeout(timer'[i])
          PROVE  semOnce' > 0 \/ onceAt \in {"deal", "end"}
      BY <1>0, <2>1, <2>3, <3>1
    <3>. QED BY <1>4, <2>2, <3>1 DEF TickOnce
  <2>. QED BY <1>4, <2>4, <2>5 DEF TickOnce
<1>5. ASSUME TickLock PROVE SafeInv'
  <2>1. \A i \in repeatSet :
           /\ timer'[i].state = timer[i].state
           /\ timer'[i].clean = timer[i].clean /\ timer'[i].live = timer[i].live
    BY <1>0, <1>5, TickLockEffect DEF Ids
  <2>2. \A i \in onceLst : timer'[i] = timer[i]
    BY <1>0, <1>5, TickLockEffect DEF Ids
  <2>. QED BY <1>0, <1>5, <2>1, <2>2 DEF TickLock
<1>6. ASSUME TickVisit PROVE SafeInv'
  <2> DEFINE m == Min(todo)
  <2>1. /\ m \in repeatSet /\ timer[m].live /\ tickAt = "loop"
        /\ \A i \in onceLst : timer'[i] = timer[i]
        /\ \A i \in repeatSet :
              /\ timer'[i].state = timer[i].state
              /\ timer'[i].clean = timer[i].clean /\ timer'[i].live = timer[i].live
        /\ tickAt' \in {"loop", "set"} /\ todo' \in {todo, todo \ {m}}
        /\ tickAt' = "set" => todo' = todo
    BY <1>0, <1>6, TickVisitEffect DEF Ids
  <2>2. todo # {} /\ stopped # 8
    BY <1>6, <2>1 DEF TickVisit
  <2> HIDE DEF m
  <2>. QED BY <1>0, <1>6, <2>1, <2>2 DEF TickVisit
<1>7. ASSUME TickSet PROVE SafeInv'
  <2> DEFINE m == Min(todo)
  <2>0. todo # {} /\ m \in RepeatIds /\ m \in Ids /\ tickAt = "set" /\ stopped # 8
    BY <1>7, Iterators DEF TickSet, Ids
  <2>1. /\ \A i \in Ids \ {m} : timer'[i] = timer[i]
        /\ timer'[m].clean = timer[m].clean /\ timer'[m].live = timer[m].live
        /\ tickAt' = "loop" /\ todo' = todo \ {m} /\ flagRepeat' = TRUE
    BY <1>7, <2>0, TickSetEffect DEF TickSet
  <2> HIDE DEF m
  <2>. QED BY <1>0, <1>7, <2>0, <2>1 DEF TickSet, Ids
<1>8. ASSUME TickUnlock PROVE SafeInv'
  <2>1. semRepeat' \in Nat /\ semRepeat' >= semRepeat /\ (flagRepeat => semRepeat' > 0)
    BY <1>0, <1>8 DEF TickUnlock, PostRepeat
  <2>. QED BY <1>0, <1>8, <2>1 DEF TickUnlock
<1>9. ASSUME TickFault PROVE SafeInv'
  <2>1. CASE tickAt = "once"
    BY <1>0, <1>9, <2>1 DEF TickFault
  <2>2. CASE tickAt = "loop"
    <3>1. Min(todo) \in repeatSet
      BY <1>9, <2>2, Iterators DEF TickFault
    <3>2. stopped = 8
      BY <1>0, <1>9, <2>2, <3>1 DEF TickFault
    <3>. QED BY <1>0, <1>9, <2>2, <3>2 DEF TickFault
  <2>. QED BY <1>9, <2>1, <2>2 DEF TickFault
<1>. QED BY <1>1, <1>2, <1>3, <1>4, <1>5, <1>6, <1>7, <1>8, <1>9 DEF Tick

\* The processes meet no freed timer before Stop, and leave no due timer without notice.
LEMMA SafeProcess ==
    ASSUME TypeInv, SafeInv, OnceProcess \/ RepeatProcess PROVE SafeInv'
<1>0. /\ timer \in [Ids -> Timers] /\ onceLst \subseteq OnceIds /\ repeatSet \subseteq RepeatIds
      /\ OnceIds \cap RepeatIds = {} /\ stopped \in 0..8
      /\ semOnce \in Nat /\ semRepeat \in Nat
  BY TimerAssumption DEF TypeInv, TypeOK
<1> USE DEF SafeInv, LoopInv, Alive, FaultOnlyInStop, DueIsAnnounced,
            sems, tickVars, repeatVars, bounds, lists
<1>1. ASSUME OnceTest PROVE SafeInv'
  BY <1>0, <1>1 DEF OnceTest
<1>2. ASSUME OnceWait PROVE SafeInv'
  BY <1>0, <1>2 DEF OnceWait, OncePermit
<1>3. ASSUME DealOnceHandle PROVE SafeInv'
  <2>1. /\ onceLst' = {i \in onceLst : ~ IsTimeout(timer[i])}
        /\ \A i \in onceLst' : timer'[i] = timer[i]
        /\ \A i \in repeatSet : timer'[i] = timer[i]
    BY <1>0, <1>3 DEF DealOnceHandle, Remaining, Ids
  <2>2. FaultOnlyInStop'
    <3>1. fault' => fault \/ \E i \in onceLst : ~ timer[i].live
      BY <1>3, Zenon DEF DealOnceHandle
    <3>. QED BY <1>0, <1>3, <3>1 DEF DealOnceHandle
  <2>3. Alive'
    BY <1>3, <2>1 DEF DealOnceHandle
  <2>4. DueIsAnnounced'
    <3>1. \A i \in onceLst' : ~ IsTimeout(timer'[i])
      BY <2>1
    <3>. QED BY <1>3, <2>1, <3>1 DEF DealOnceHandle
  <2>. QED BY <1>3, <2>2, <2>3, <2>4 DEF DealOnceHandle
<1>4. ASSUME RepeatTest PROVE SafeInv'
  BY <1>0, <1>4 DEF RepeatTest
<1>5. ASSUME RepeatWait PROVE SafeInv'
  BY <1>0, <1>5 DEF RepeatWait
<1>6. ASSUME DealLock PROVE SafeInv'
  BY <1>0, <1>6 DEF DealLock
<1>7. ASSUME DealVisit PROVE SafeInv'
  <2> DEFINE m == Min(left)
  <2>1. /\ m \in repeatSet /\ timer[m].live /\ repeatAt = "loop"
        /\ \A i \in onceLst : timer'[i] = timer[i]
        /\ \A i \in repeatSet :
              /\ timer'[i].state = timer[i].state
              /\ timer'[i].clean = timer[i].clean /\ timer'[i].live = timer[i].live
        /\ \/ ~ IsTimeout(timer[m]) /\ repeatAt' = "loop" /\ left' = left \ {m}
           \/ repeatAt' = "reset" /\ left' = left
    BY <1>0, <1>7, DealVisitEffect DEF Ids
  <2> HIDE DEF m
  <2>. QED BY <1>0, <1>7, <2>1 DEF DealVisit, IsTimeout
<1>8. ASSUME DealReset PROVE SafeInv'
  <2> DEFINE m == Min(left)
  <2>0. left # {} /\ m \in RepeatIds /\ m \in Ids
    BY <1>8, Iterators DEF DealReset, Ids
  <2>1. /\ \A i \in Ids \ {m} : timer'[i] = timer[i]
        /\ timer'[m].state = 1 /\ timer'[m].clean = timer[m].clean /\ timer'[m].live = timer[m].live
        /\ repeatAt' = "loop" /\ left' = left \ {m}
    BY <1>8, <2>0, DealResetEffect DEF DealReset
  <2> HIDE DEF m
  <2>2. \A i \in onceLst : timer'[i] = timer[i]
    BY <1>0, <2>0, <2>1 DEF Ids
  <2>3. \A i \in repeatSet :
           /\ timer'[i].clean = timer[i].clean /\ timer'[i].live = timer[i].live
           /\ IsTimeout(timer'[i]) => IsTimeout(timer[i]) /\ i # m
    BY <1>0, <2>0, <2>1 DEF Ids, IsTimeout
  <2>4. LoopInv' /\ FaultOnlyInStop'
    BY <1>8, <2>0, <2>1 DEF DealReset
  <2>5. Alive'
    BY <1>8, <2>2, <2>3 DEF DealReset
  <2>6. DueIsAnnounced'
    BY <1>8, <2>1, <2>2, <2>3 DEF DealReset
  <2>. QED BY <2>4, <2>5, <2>6
<1>9. ASSUME DealUnlock PROVE SafeInv'
  BY <1>0, <1>9 DEF DealUnlock
<1>10. ASSUME DealFault PROVE SafeInv'
  <2>1. Min(left) \in repeatSet
    BY <1>10, Iterators DEF DealFault
  <2>2. stopped = 8
    BY <1>0, <1>10, <2>1 DEF DealFault
  <2>. QED BY <1>0, <1>10, <2>2 DEF DealFault
<1>. QED
  BY <1>1, <1>2, <1>3, <1>4, <1>5, <1>6, <1>7, <1>8, <1>9, <1>10 DEF OnceProcess, RepeatProcess

\* Stop deletes timers in its last two steps only.
LEMMA SafeStop ==
    ASSUME TypeInv, SafeInv, Stop PROVE SafeInv'
<1>0. /\ onceLst \subseteq OnceIds /\ repeatSet \subseteq RepeatIds
      /\ OnceIds \cap RepeatIds = {} /\ stopped \in 0..8
      /\ semOnce \in Nat /\ semRepeat \in Nat
  BY TimerAssumption DEF TypeInv, TypeOK
<1>1. /\ stopped' = stopped + 1 /\ semOnce' >= semOnce /\ semRepeat' >= semRepeat
      /\ stopped = 7 => Writable
      /\ UNCHANGED <<onceLst, repeatSet, tickAt, todo, flagRepeat, onceAt, repeatAt, left, fault>>
  BY <1>0 DEF Stop, tickVars, repeatVars
<1>2. \A i \in onceLst \cup repeatSet :
         /\ timer'[i].state = timer[i].state /\ timer'[i].clean = timer[i].clean
         /\ IF (stopped = 6 /\ i \in onceLst) \/ (stopped = 7 /\ i \in repeatSet)
            THEN ~ timer'[i].live ELSE timer'[i].live = timer[i].live
  BY <1>0, StopEffect DEF Ids
<1>3. LoopInv' /\ FaultOnlyInStop'
  BY <1>0, <1>1 DEF SafeInv, LoopInv, FaultOnlyInStop
<1>4. Alive'
  <2>1. ASSUME stopped' <= 6, NEW i \in onceLst PROVE timer'[i].live
    BY <1>0, <1>1, <1>2, <2>1 DEF SafeInv, Alive
  <2>2. ASSUME stopped' <= 7, NEW i \in repeatSet PROVE timer'[i].live
    BY <1>0, <1>1, <1>2, <2>2 DEF SafeInv, Alive
  <2>3. ASSUME stopped' = 8
        PROVE  tickAt # "set" /\ tickAt # "loop" /\ \A i \in repeatSet : ~ timer'[i].live
    BY <1>0, <1>1, <1>2, <2>3 DEF Writable
  <2>. QED BY <1>1, <2>1, <2>2, <2>3 DEF Alive
<1>5. semOnce' \in Nat /\ semRepeat' \in Nat
  BY <1>0 DEF Stop
<1>6. DueIsAnnounced'
  <2>1. \A i \in onceLst \cup repeatSet :
           timer'[i].clean = timer[i].clean /\ IsTimeout(timer'[i]) = IsTimeout(timer[i])
    BY <1>2 DEF IsTimeout
  <2>2. (semOnce > 0 => semOnce' > 0) /\ (semRepeat > 0 => semRepeat' > 0)
    BY <1>0, <1>1, <1>5
  <2>. QED BY <1>1, <2>1, <2>2 DEF SafeInv, DueIsAnnounced
<1>. QED BY <1>3, <1>4, <1>6 DEF SafeInv

\* The loops, the deletions of Stop and the permits are in step: the invariant that the two
\* theorems below read off.
THEOREM SafeInductive == Spec => []SafeInv
<1>1. Init => SafeInv
  BY DEF Init, SafeInv, LoopInv, Alive, FaultOnlyInStop, DueIsAnnounced
<1>2. TypeInv /\ SafeInv /\ [Next]_vars => SafeInv'
  <2> SUFFICES ASSUME TypeInv, SafeInv, [Next]_vars PROVE SafeInv'
    OBVIOUS
  <2>1. CASE Next
    BY <2>1, SafeProgram, SafeTick, SafeProcess, SafeStop DEF Next
  <2>2. CASE UNCHANGED vars
    BY <2>2 DEF vars, lists, sems, tickVars, repeatVars, bounds, SafeInv, LoopInv, Alive,
                FaultOnlyInStop, DueIsAnnounced
  <2>. QED BY <2>1, <2>2
<1>. QED BY <1>1, <1>2, TypeCorrect, PTL DEF Spec, TypeInv

\* Before the step of Stop that deletes the processes, no thread uses freed memory: DelTimer
\* and ModifyRepeatTimer wait for the loops of TimerHandle and DealRepeatHandle.
THEOREM FaultSafe == Spec => []FaultOnlyInStop
<1>1. SafeInv => FaultOnlyInStop
  BY DEF SafeInv
<1>. QED BY <1>1, SafeInductive, PTL

\* A timer that became due is announced to the process that runs its callback until that
\* process takes it (TimerHandle, lines 163 and 187).
THEOREM DueSafe == Spec => []DueIsAnnounced
<1>1. SafeInv => DueIsAnnounced
  BY DEF SafeInv
<1>. QED BY <1>1, SafeInductive, PTL

-----------------------------------------------------------------------------
(* No callback comes early *)

\* The tick has still to count timer i in this turn of its loop, has counted it and found it
\* due, or its callback has run and its state is to be reset.
Lag(i) == IF i \in todo /\ (tickAt = "loop" \/ (tickAt = "set" /\ i # Min(todo))) THEN 1 ELSE 0
Marked(i) == tickAt = "set" /\ i = Min(todo)
Resetting(i) == repeatAt = "reset" /\ i = Min(left)

\* How far a repeat timer has come, for each state of nFinish.
Pace(r, lag, resetting, marked) ==
    r.clean /\ r.fixed =>
        /\ r.state # 3
        /\ r.state = 0 => r.fires = 0 /\ r.count + lag <= r.age
        /\ r.state = 1 =>
              /\ r.fires > 0
              /\ r.age * Precision >= r.start + (r.fires - 1) * r.interval + r.count * Precision + lag * Precision
        /\ r.state = 2 =>
              /\ r.count = 0 /\ (resetting => r.fires > 0)
              /\ r.age * Precision >=
                    r.start + (IF resetting THEN r.fires - 1 ELSE r.fires) * r.interval + lag * Precision
        /\ marked => r.count * Precision = Target(r)

OnceClock ==
    \A i \in onceLst : timer[i].clean =>
        /\ timer[i].count <= timer[i].age
        /\ IsTimeout(timer[i]) => timer[i].age * Precision >= timer[i].start
RepeatClock == \A i \in repeatSet : Pace(timer[i], Lag(i), Resetting(i), Marked(i))
Marks ==
    /\ tickAt = "set" => timer[Min(todo)].state <= 1
    /\ repeatAt = "reset" => timer[Min(left)].state > 1

ClockInv == MaxTicks > 0 => OnceClock /\ RepeatClock /\ Marks

\* Products with the precision grow with their other factor.
LEMMA Times ==
    ASSUME NEW a \in Nat, NEW b \in Nat, a <= b
    PROVE  /\ a * Precision \in Nat /\ b * Precision \in Nat /\ a * Precision <= b * Precision
           /\ (a + 1) * Precision = a * Precision + Precision
<1>1. Precision \in Nat
  BY TimerAssumption
<1>2. PICK d \in Nat : b = a + d
  <2>1. b - a \in Nat /\ b = a + (b - a)
    OBVIOUS
  <2>. QED BY <2>1
<1>3. b * Precision = a * Precision + d * Precision /\ d * Precision \in Nat /\ a * Precision \in Nat
  BY <1>1, <1>2
<1>. QED BY <1>1, <1>3

\* Two descriptions of one timer object that agree on its times and its history.
Same(q, r) ==
    /\ q.start = r.start /\ q.interval = r.interval /\ q.clean = r.clean /\ q.fixed = r.fixed

\* The numbers of a timer, and their products.
LEMMA Numbers ==
    ASSUME NEW r \in Timers
    PROVE  /\ r.age \in Nat /\ r.count \in Nat /\ r.fires \in Nat /\ r.start \in Nat
           /\ r.interval \in Nat /\ Precision \in Nat /\ 0 * Precision = 0 /\ 1 * Precision = Precision
           /\ r.age * Precision \in Nat /\ r.count * Precision \in Nat
           /\ (r.age + 1) * Precision = r.age * Precision + Precision
           /\ (r.fires - 1) * r.interval \in Int /\ r.fires * r.interval \in Nat
           /\ r.fires * r.interval = (r.fires - 1) * r.interval + r.interval
           /\ ((r.fires + 1) - 1) * r.interval = r.fires * r.interval
<1>1. /\ r.age \in Nat /\ r.count \in Nat /\ r.fires \in Nat /\ r.start \in Nat
      /\ r.interval \in Nat /\ Precision \in Nat
  BY Fields, TimerAssumption
<1>2. (r.age + 1) * Precision = r.age * Precision + Precision /\ r.age * Precision \in Nat
  BY <1>1
<1>3. r.count * Precision \in Nat
  BY <1>1
<1>4. (r.fires - 1) * r.interval \in Int
  BY <1>1
<1>5. r.fires * r.interval \in Nat /\ r.fires * r.interval = (r.fires - 1) * r.interval + r.interval
  BY <1>1
<1>6. ((r.fires + 1) - 1) * r.interval = r.fires * r.interval
  <2>1. (r.fires + 1) - 1 = r.fires
    BY <1>1
  <2>. QED BY <2>1
<1>. QED BY <1>1, <1>2, <1>3, <1>4, <1>5, <1>6

\* The timer grows a tick older: the tick has now to count it.
LEMMA PaceOlder ==
    ASSUME NEW r \in Timers, NEW q \in Timers, Same(q, r), NEW b \in BOOLEAN, Pace(r, 0, b, FALSE),
           q.count = r.count, q.state = r.state, q.fires = r.fires, q.age = r.age + 1
    PROVE  Pace(q, 1, b, FALSE)
  BY Numbers DEF Pace, Same

\* The tick passes the timer by.
LEMMA PacePass ==
    ASSUME NEW r \in Timers, NEW lag \in {0, 1}, NEW b \in BOOLEAN, Pace(r, lag, b, FALSE)
    PROVE  Pace(r, 0, b, FALSE)
<1>1. CASE lag = 0
  BY <1>1
<1>2. CASE lag = 1
  <2>1. Pace(r, 1, b, FALSE)
    BY <1>2
  <2>2. CASE r.state = 0
    <3>1. r.count \in Nat /\ r.age \in Nat
      BY Numbers
    <3>. QED BY <2>1, <2>2, <3>1 DEF Pace
  <2>3. CASE r.state = 1
    BY <2>1, <2>3, Numbers DEF Pace
  <2>4. CASE r.state = 2
    <3> PICK f : f = (IF b THEN r.fires - 1 ELSE r.fires) * r.interval
      OBVIOUS
    <3>1. /\ f \in Int /\ r.age * Precision \in Nat /\ r.start \in Nat /\ Precision \in Nat
          /\ 0 * Precision = 0 /\ 1 * Precision = Precision
      BY Numbers
    <3>2. r.start + f + 1 * Precision <= r.age * Precision => r.start + f + 0 * Precision <= r.age * Precision
      BY <3>1
    <3>. QED BY <2>1, <2>4, <3>1, <3>2 DEF Pace
  <2>5. CASE r.state = 3
    BY <2>1, <2>5 DEF Pace
  <2>6. r.state \in 0..3
    BY Fields
  <2>7. r.state = 0 \/ r.state = 1 \/ r.state = 2 \/ r.state = 3
    BY <2>6
  <2>. QED BY <2>2, <2>3, <2>4, <2>5, <2>7
<1>. QED BY <1>1, <1>2

\* The tick counts the timer, and marks it when it reached its time.
LEMMA PaceCount ==
    ASSUME NEW r \in Timers, NEW q \in Timers, Same(q, r), NEW b \in BOOLEAN, Pace(r, 1, b, FALSE),
           r.state <= 1, q.count = Incremented(r), q.state = r.state, q.fires = r.fires,
           q.age = r.age
    PROVE  /\ Pace(q, 0, b, FALSE)
           /\ Reached(r, Target(r)) => Pace(q, 0, b, TRUE)
<1>1. q.count <= r.count + 1
  BY IncrementedCount
<1>2. q.count * Precision <= r.count * Precision + Precision
  <2>1. r.count \in Nat /\ q.count \in Nat /\ Precision \in Nat
    BY Numbers
  <2>2. q.count * Precision <= (r.count + 1) * Precision
    BY <1>1, <2>1, Times
  <2>3. (r.count + 1) * Precision = r.count * Precision + Precision
    BY <2>1
  <2>. QED BY <2>2, <2>3
<1>3. Pace(q, 0, b, FALSE)
  <2>1. CASE r.state = 0
    <3>1. r.clean /\ r.fixed => r.fires = 0 /\ r.count + 1 <= r.age
      BY <2>1 DEF Pace
    <3>2. q.count \in Nat /\ r.count \in Nat /\ r.age \in Nat
      BY Numbers
    <3>. QED BY <1>1, <2>1, <3>1, <3>2 DEF Pace, Same
  <2>2. CASE r.state = 1
    BY <1>2, <2>2, Numbers DEF Pace, Same
  <2>3. r.state \in 0..3
    BY Fields
  <2>4. r.state = 0 \/ r.state = 1
    BY <2>3
  <2>. QED BY <2>1, <2>2, <2>4
<1>4. Reached(r, Target(r)) => q.count * Precision = Target(q)
  BY DEF Reached, Target, Same
<1>. QED BY <1>3, <1>4 DEF Pace

\* A marked timer has come to its time.
LEMMA PaceSet ==
    ASSUME NEW r \in Timers, NEW q \in Timers, Same(q, r), Pace(r, 0, FALSE, TRUE), r.state <= 1,
           q.count = 0, q.state = 2, q.fires = r.fires, q.age = r.age
    PROVE  Pace(q, 0, FALSE, FALSE)
<1>1. CASE r.state = 0
  <2>1. r.count <= r.age => r.count * Precision <= r.age * Precision
    BY Numbers, Times
  <2>2. r.fires = 0 => r.fires * r.interval = 0
    <3>1. r.interval \in Nat
      BY Numbers
    <3>. QED BY <3>1
  <2>. QED BY <1>1, <2>1, <2>2, Numbers DEF Pace, Same, Target
<1>2. CASE r.state = 1
  BY <1>2, Numbers DEF Pace, Same, Target
<1>3. r.state \in 0..3
  BY Fields
<1>4. r.state = 0 \/ r.state = 1
  BY <1>3
<1>. QED BY <1>1, <1>2, <1>4

\* The callback runs.
LEMMA PaceFire ==
    ASSUME NEW r \in Timers, NEW q \in Timers, Same(q, r), NEW lag \in {0, 1},
           Pace(r, lag, FALSE, FALSE), r.state > 1,
           q.count = r.count, q.state = r.state, q.fires = r.fires + 1, q.age = r.age
    PROVE  Pace(q, lag, TRUE, FALSE)
<1>1. (q.fires - 1) * q.interval = r.fires * r.interval /\ q.fires > 0
  BY Numbers DEF Same
<1>. QED BY <1>1, Numbers DEF Pace, Same

\* The state is reset: the next interval begins.
LEMMA PaceReset ==
    ASSUME NEW r \in Timers, NEW q \in Timers, Same(q, r), NEW lag \in {0, 1},
           Pace(r, lag, TRUE, FALSE), r.state > 1,
           q.count = r.count, q.state = 1, q.fires = r.fires, q.age = r.age
    PROVE  Pace(q, lag, FALSE, FALSE)
<1>1. r.state = 2 \/ r.state = 3
  BY Fields
<1>2. r.count = 0 => q.count * Precision = 0
  BY Numbers
<1>. QED BY <1>1, <1>2, Numbers DEF Pace, Same

\* Records that differ in `live` only.
Alike(q, r) ==
    Same(q, r) /\ q.count = r.count /\ q.state = r.state /\ q.fires = r.fires /\ q.age = r.age

\* Steps that leave the clocks of the timers alone.
LEMMA ClockFrame ==
    ASSUME ClockInv, onceLst' \subseteq onceLst, repeatSet' \subseteq repeatSet,
           \A i \in onceLst' \cup repeatSet' : Alike(timer'[i], timer[i]),
           \A i \in repeatSet' : /\ Lag(i)' = Lag(i)
                                 /\ Resetting(i)' <=> Resetting(i)
                                 /\ Marked(i)' <=> Marked(i),
           MaxTicks > 0 => Marks'
    PROVE  ClockInv'
<1> SUFFICES ASSUME MaxTicks > 0 PROVE OnceClock' /\ RepeatClock'
  BY DEF ClockInv
<1>1. OnceClock'
  BY DEF ClockInv, OnceClock, Alike, Same, IsTimeout
<1>2. ASSUME NEW i \in repeatSet' PROVE Pace(timer'[i], Lag(i)', Resetting(i)', Marked(i)')
  <2>1. Pace(timer[i], Lag(i), Resetting(i), Marked(i))
    BY DEF ClockInv, RepeatClock
  <2>2. Alike(timer'[i], timer[i]) /\ Lag(i)' = Lag(i)
        /\ (Resetting(i)' <=> Resetting(i)) /\ (Marked(i)' <=> Marked(i))
    OBVIOUS
  <2>. QED BY <2>1, <2>2 DEF Pace, Alike, Same, Target
<1>3. RepeatClock'
  BY <1>2 DEF RepeatClock
<1>. QED BY <1>1, <1>3

\* Calls of the program: a new timer starts its clock at 0, a modified one is not followed.
LEMMA ClockProgram ==
    ASSUME TypeInv, TypeInv', SafeInv, ClockInv, Program PROVE ClockInv'
<1>0. /\ timer \in [Ids -> Timers] /\ onceLst \subseteq OnceIds /\ repeatSet \subseteq RepeatIds
      /\ OnceIds \cap RepeatIds = {}
  BY TimerAssumption DEF TypeInv, TypeOK
<1> SUFFICES ASSUME MaxTicks > 0 PROVE OnceClock' /\ RepeatClock' /\ Marks'
  BY DEF ClockInv
<1> USE DEF sems, tickVars, repeatVars, bounds
<1>1. ASSUME NEW i \in OnceIds, NEW s \in Starts, NEW g \in Garbage, AddOnce(i, s, g)
      PROVE  OnceClock' /\ RepeatClock' /\ Marks'
  <2>1. /\ \A j \in Ids \ {i} : timer'[j] = timer[j]
        /\ timer'[i] = NewTimer(s, 0, g) /\ onceLst' = onceLst \cup {i}
        /\ UNCHANGED <<repeatSet, tickAt, todo, repeatAt, left>>
    BY <1>0, <1>1 DEF AddOnce, Ids
  <2>2. timer'[i].clean => timer'[i].state = 0 /\ timer'[i].count = 0 /\ timer'[i].age = 0
    BY <2>1, NewTimerFields
  <2>3. OnceClock'
    BY <1>0, <2>1, <2>2 DEF ClockInv, OnceClock, IsTimeout, Ids
  <2>4. \A j \in RepeatIds : timer'[j] = timer[j]
    BY <1>0, <2>1 DEF Ids
  <2>5. RepeatClock'
    BY <1>0, <2>1, <2>4 DEF ClockInv, RepeatClock, Lag, Marked, Resetting
  <2>6. Marks'
    BY <2>1, <2>4, Iterators DEF ClockInv, Marks, SafeInv, LoopInv
  <2>. QED BY <2>3, <2>5, <2>6
<1>2. ASSUME NEW i \in RepeatIds, Writable, UNCHANGED <<onceLst, tickAt, todo, repeatAt, left>>,
             repeatSet' \subseteq repeatSet \cup {i},
             \A j \in Ids \ {i} : timer'[j] = timer[j],
             i \in repeatSet' => Pace(timer'[i], 0, FALSE, FALSE)
      PROVE  OnceClock' /\ RepeatClock' /\ Marks'
  <2>1. tickAt' \notin {"loop", "set"} /\ repeatAt' \notin {"loop", "reset"}
        /\ tickAt \notin {"loop", "set"} /\ repeatAt \notin {"loop", "reset"}
    BY <1>2 DEF Writable
  <2>2. OnceClock'
    BY <1>0, <1>2 DEF ClockInv, OnceClock, Ids
  <2>3. \A j : Lag(j) = 0 /\ ~ Marked(j) /\ ~ Resetting(j)
               /\ Lag(j)' = 0 /\ ~ Marked(j)' /\ ~ Resetting(j)'
    BY <2>1 DEF Lag, Marked, Resetting
  <2>4. ASSUME NEW j \in repeatSet' PROVE Pace(timer'[j], Lag(j)', Resetting(j)', Marked(j)')
    <3>1. CASE j = i
      BY <1>2, <2>3, <3>1 DEF Pace
    <3>2. CASE j # i
      <4>1. timer'[j] = timer[j] /\ Pace(timer[j], Lag(j), Resetting(j), Marked(j))
        BY <1>0, <1>2, <3>2 DEF ClockInv, RepeatClock, Ids
      <4>. QED BY <2>3, <4>1 DEF Pace
    <3>. QED BY <3>1, <3>2
  <2>5. RepeatClock'
    BY <2>4 DEF RepeatClock
  <2>6. Marks'
    BY <2>1 DEF Marks
  <2>. QED BY <2>2, <2>5, <2>6
<1>3. ASSUME NEW i \in RepeatIds, NEW s \in Starts, NEW n \in Intervals, NEW g \in Garbage,
             AddRepeat(i, s, n, g)
      PROVE  OnceClock' /\ RepeatClock' /\ Marks'
  <2>1. timer'[i] = NewTimer(s, n, g) /\ \A j \in Ids \ {i} : timer'[j] = timer[j]
    BY <1>0, <1>3 DEF AddRepeat, Ids
  <2>2. Pace(timer'[i], 0, FALSE, FALSE)
    BY <2>1, NewTimerFields DEF Pace
  <2>. QED BY <1>2, <1>3, <2>1, <2>2 DEF AddRepeat
<1>4. ASSUME NEW i \in RepeatIds, DelTimer(i) PROVE OnceClock' /\ RepeatClock' /\ Marks'
  <2>1. \A j \in Ids \ {i} : timer'[j] = timer[j]
    BY <1>0, <1>4 DEF DelTimer
  <2>. QED BY <1>2, <1>4, <2>1 DEF DelTimer
<1>5. ASSUME NEW i \in RepeatIds, NEW s \in Starts, NEW n \in Intervals, ModifyRepeatTimer(i, s, n)
      PROVE  OnceClock' /\ RepeatClock' /\ Marks'
  <2>1. (\A j \in Ids \ {i} : timer'[j] = timer[j]) /\ timer'[i].fixed = FALSE
    BY <1>5, ModifyEffect
  <2>2. Pace(timer'[i], 0, FALSE, FALSE)
    BY <2>1 DEF Pace
  <2>. QED BY <1>2, <1>5, <2>1, <2>2 DEF ModifyRepeatTimer
<1>. QED BY <1>1, <1>3, <1>4, <1>5 DEF Program

\* What the proofs below use of the iterators.
LEMMA Places ==
    ASSUME TypeInv, SafeInv
    PROVE  /\ tickAt = "set" => Min(todo) \in todo /\ Min(todo) \in repeatSet /\ Min(todo) \in Ids
           /\ repeatAt = "reset" => Min(left) \in left /\ Min(left) \in repeatSet /\ Min(left) \in Ids
           /\ \A i \in repeatSet : timer[i] \in Timers /\ i \in Ids /\ i \notin onceLst
           /\ \A i \in onceLst : timer[i] \in Timers /\ i \in Ids
  BY Iterators, TimerAssumption DEF SafeInv, LoopInv, TypeInv, TypeOK, Ids

\* The signal and the steps of the timer thread.
LEMMA ClockTick ==
    ASSUME TypeInv, TypeInv', SafeInv, ClockInv, Sigalrm \/ Tick PROVE ClockInv'
<1>0. /\ timer \in [Ids -> Timers] /\ timer' \in [Ids -> Timers]
      /\ onceLst \subseteq OnceIds /\ repeatSet \subseteq RepeatIds
  BY DEF TypeInv, TypeOK
<1> SUFFICES ASSUME MaxTicks > 0 PROVE OnceClock' /\ RepeatClock' /\ Marks'
  BY DEF ClockInv
<1>00. OnceClock /\ RepeatClock /\ Marks
  BY DEF ClockInv
<1> USE DEF sems, tickVars, repeatVars, bounds, lists
<1>1. ASSUME UNCHANGED <<timer, onceLst, repeatSet, repeatAt, left>>,
             tickAt # "set" /\ tickAt' # "set",
             (tickAt' = "loop" => todo' = {}) /\ (tickAt = "loop" => todo = {})
      PROVE  OnceClock' /\ RepeatClock' /\ Marks'
  <2>1. \A i : Lag(i) = 0 /\ Lag(i)' = 0 /\ ~ Marked(i) /\ ~ Marked(i)'
               /\ (Resetting(i)' <=> Resetting(i))
    BY <1>1 DEF Lag, Marked, Resetting
  <2>2. OnceClock' /\ Marks'
    BY <1>00, <1>1 DEF OnceClock, Marks
  <2>3. RepeatClock'
    BY <1>00, <1>1, <2>1 DEF RepeatClock, Pace
  <2>. QED BY <2>2, <2>3
<1>2. ASSUME Sigalrm \/ TickTest \/ TickWait \/ TickUnlock PROVE OnceClock' /\ RepeatClock' /\ Marks'
  <2>1. CASE Sigalrm
    BY <1>00, <2>1 DEF Sigalrm, OnceClock, RepeatClock, Marks, Lag, Marked, Resetting
  <2>2. CASE TickTest
    BY <1>1, <2>2 DEF TickTest
  <2>3. CASE TickWait
    BY <1>1, <2>3 DEF TickWait
  <2>4. CASE TickUnlock
    BY <1>1, <2>4 DEF TickUnlock
  <2>. QED BY <1>2, <2>1, <2>2, <2>3, <2>4
<1>3. ASSUME TickOnce PROVE OnceClock' /\ RepeatClock' /\ Marks'
  <2>1. /\ tickAt = "once" /\ tickAt' = "lock"
        /\ UNCHANGED <<onceLst, repeatSet, repeatAt, left, todo>>
    BY <1>3 DEF TickOnce
  <2>2. \A i \in repeatSet : timer'[i] = timer[i]
    BY <1>3, Places, TickOnceEffect
  <2>3. \A i : Lag(i) = 0 /\ Lag(i)' = 0 /\ ~ Marked(i) /\ ~ Marked(i)'
               /\ (Resetting(i)' <=> Resetting(i))
    BY <2>1 DEF Lag, Marked, Resetting
  <2>4. RepeatClock'
    BY <1>00, <2>1, <2>2, <2>3 DEF RepeatClock, Pace
  <2>5. Marks'
    BY <1>00, <2>1, <2>2, Places DEF Marks
  <2>6. ASSUME NEW i \in onceLst, timer'[i].clean
        PROVE  /\ timer'[i].count <= timer'[i].age
               /\ IsTimeout(timer'[i]) => timer'[i].age * Precision >= timer'[i].start
    <3> DEFINE r == timer[i]
               q == timer'[i]
    <3>1. r \in Timers /\ q \in Timers /\ i \in Ids
      BY <1>0, Places
    <3>2. /\ q.count = Incremented(r) /\ q.state = (IF OnceDue(r) THEN 2 ELSE r.state)
          /\ q.age = r.age + 1 /\ q.start = r.start /\ q.clean = r.clean
      BY <1>3, <3>1, TickOnceEffect
    <3>3. r.count <= r.age /\ (IsTimeout(r) => r.age * Precision >= r.start)
      BY <1>00, <2>6, <3>2 DEF OnceClock
    <3> HIDE DEF r, q
    <3>4. q.count <= r.count + 1
      BY <3>1, <3>2, IncrementedCount
    <3>5. q.count \in Nat /\ r.count \in Nat /\ r.age \in Nat /\ q.age \in Nat /\ r.start \in Nat
      BY <3>1, Numbers
    <3>6. q.count <= q.age
      BY <3>2, <3>3, <3>4, <3>5
    <3>7. CASE OnceDue(r)
      <4>1. q.count * Precision = q.start
        BY <3>2, <3>7 DEF OnceDue, Reached
      <4>2. q.count * Precision <= q.age * Precision
        BY <3>5, <3>6, Times
      <4>3. q.age * Precision \in Nat /\ q.count * Precision \in Nat
        BY <3>1, Numbers
      <4>. QED BY <3>6, <4>1, <4>2, <4>3 DEF r, q
    <3>8. CASE ~ OnceDue(r)
      <4>1. IsTimeout(q) => IsTimeout(r)
        BY <3>2, <3>8 DEF IsTimeout
      <4>2. q.age * Precision = r.age * Precision + Precision /\ r.age * Precision \in Nat
            /\ Precision \in Nat
        BY <3>1, <3>2, Numbers
      <4>3. r.age * Precision >= r.start => q.age * Precision >= q.start
        BY <3>2, <3>5, <4>2
      <4>. QED BY <3>3, <3>6, <4>1, <4>3 DEF r, q
    <3>. QED BY <3>7, <3>8
  <2>7. OnceClock'
    BY <2>1, <2>6 DEF OnceClock
  <2>. QED BY <2>4, <2>5, <2>7
<1>4. ASSUME TickLock PROVE OnceClock' /\ RepeatClock' /\ Marks'
  <2>1. /\ tickAt = "lock" /\ tickAt' = "loop" /\ todo' = repeatSet
        /\ UNCHANGED <<onceLst, repeatSet, repeatAt, left>>
    BY <1>4 DEF TickLock
  <2>2. \A i \in onceLst : timer'[i] = timer[i]
    BY <1>4, Places, TickLockEffect
  <2>3. OnceClock'
    BY <1>00, <2>1, <2>2 DEF OnceClock
  <2>4. Marks'
    BY <1>00, <1>4, <2>1, Places, TickLockEffect DEF Marks
  <2>5. ASSUME NEW i \in repeatSet PROVE Pace(timer'[i], Lag(i)', Resetting(i)', Marked(i)')
    <3>1. /\ Lag(i) = 0 /\ Lag(i)' = 1 /\ ~ Marked(i) /\ ~ Marked(i)'
          /\ (Resetting(i)' <=> Resetting(i))
      BY <2>1 DEF Lag, Marked, Resetting
    <3>2. i \in Ids /\ timer[i] \in Timers /\ timer'[i] \in Timers /\ Resetting(i) \in BOOLEAN
      BY <1>0, Places DEF Resetting
    <3>3. Pace(timer[i], Lag(i), Resetting(i), Marked(i))
      BY <1>00 DEF RepeatClock
    <3>4. Pace(timer[i], 0, Resetting(i), FALSE)
      BY <3>1, <3>3 DEF Pace
    <3>5. /\ timer'[i].count = timer[i].count /\ timer'[i].state = timer[i].state
          /\ timer'[i].age = timer[i].age + 1 /\ timer'[i].fires = timer[i].fires
          /\ Same(timer'[i], timer[i])
      BY <1>4, <3>2, TickLockEffect DEF Same
    <3>6. Pace(timer'[i], 1, Resetting(i), FALSE)
      BY <3>2, <3>4, <3>5, PaceOlder
    <3>. QED BY <3>1, <3>6 DEF Pace
  <2>6. RepeatClock'
    BY <2>1, <2>5 DEF RepeatClock
  <2>. QED BY <2>3, <2>4, <2>6
<1>5. ASSUME TickVisit PROVE OnceClock' /\ RepeatClock' /\ Marks'
  <2>0. PICK m : m = Min(todo)
    OBVIOUS
  <2> USE <2>0
  <2>1. /\ tickAt = "loop" /\ UNCHANGED <<onceLst, repeatSet, repeatAt, left>>
        /\ m \in repeatSet /\ m \in Ids /\ m \in todo
        /\ \A i \in Ids \ {m} : timer'[i] = timer[i]
    BY <1>5, TickVisitEffect, Iterators DEF TickVisit, Ids
  <2>2. /\ timer'[m].state = timer[m].state
        /\ \/ tickAt' = "loop" /\ todo' = todo \ {m}
           \/ /\ tickAt' = "set" /\ todo' = todo /\ ~ (timer[m].state > 1)
    BY <1>5, TickVisitEffect
  <2>3. OnceClock'
    BY <1>00, <2>1, Places DEF OnceClock
  <2>4. \A i \in Ids : timer'[i].state = timer[i].state
    BY <2>1, <2>2
  <2>5. Marks'
    <3>1. tickAt' = "set" => timer'[Min(todo')].state <= 1
      <4>1. timer[m].state \in 0..3
        BY <1>0, <2>1, Fields
      <4>. QED BY <2>2, <4>1
    <3>2. repeatAt' = "reset" => timer'[Min(left')].state > 1
      BY <1>00, <2>1, <2>4, Places DEF Marks
    <3>. QED BY <3>1, <3>2 DEF Marks
  <2>6. ASSUME NEW i \in repeatSet, i # m PROVE Pace(timer'[i], Lag(i)', Resetting(i)', Marked(i)')
    <3>1. timer'[i] = timer[i]
      BY <2>1, <2>6, Places
    <3>2. Lag(i)' = Lag(i) /\ ~ Marked(i)' /\ (Resetting(i)' <=> Resetting(i))
      BY <2>1, <2>2, <2>6 DEF Lag, Marked, Resetting
    <3>3. Pace(timer[i], Lag(i), Resetting(i), Marked(i))
      BY <1>00 DEF RepeatClock
    <3>. QED BY <3>1, <3>2, <3>3 DEF Pace
  <2>7. Pace(timer'[m], Lag(m)', Resetting(m)', Marked(m)')
    <3>1. Lag(m) = 1 /\ Lag(m)' = 0 /\ ~ Marked(m) /\ (Resetting(m)' <=> Resetting(m))
          /\ (Marked(m)' <=> tickAt' = "set") /\ Resetting(m) \in BOOLEAN
      BY <2>1, <2>2 DEF Lag, Marked, Resetting
    <3>2. Pace(timer[m], Lag(m), Resetting(m), Marked(m))
      BY <1>00, <2>1 DEF RepeatClock
    <3>3. Pace(timer[m], 1, Resetting(m), FALSE)
      BY <3>1, <3>2 DEF Pace
    <3>4. timer[m] \in Timers /\ timer'[m] \in Timers
      BY <1>0, <2>1
    <3>5. CASE timer[m].state > 1
      <4>1. timer'[m] = timer[m] /\ tickAt' = "loop"
        BY <1>5, <3>5, TickVisitEffect
      <4>2. Pace(timer[m], 0, Resetting(m), FALSE)
        BY <3>3, <3>4, <3>1, PacePass
      <4>. QED BY <3>1, <4>1, <4>2 DEF Pace
    <3>6. CASE ~ (timer[m].state > 1)
      <4>1. /\ timer'[m].count = Incremented(timer[m]) /\ timer'[m].state = timer[m].state
            /\ timer'[m].fires = timer[m].fires /\ timer'[m].age = timer[m].age
            /\ Same(timer'[m], timer[m])
            /\ tickAt' = "set" => Reached(timer[m], Target(timer[m]))
        BY <1>5, <3>6, TickVisitEffect DEF Same
      <4>2. timer[m].state <= 1
        BY <3>4, <3>6, Fields
      <4>3. /\ Pace(timer'[m], 0, Resetting(m), FALSE)
            /\ Reached(timer[m], Target(timer[m])) => Pace(timer'[m], 0, Resetting(m), TRUE)
        BY <3>1, <3>3, <3>4, <4>1, <4>2, PaceCount
      <4>4. CASE tickAt' = "set"
        BY <3>1, <4>1, <4>3, <4>4 DEF Pace
      <4>5. CASE tickAt' # "set"
        BY <3>1, <4>3, <4>5 DEF Pace
      <4>. QED BY <4>4, <4>5
    <3>. QED BY <3>5, <3>6
  <2>8. RepeatClock'
    BY <2>1, <2>6, <2>7 DEF RepeatClock
  <2>. QED BY <2>3, <2>5, <2>8
<1>6. ASSUME TickSet PROVE OnceClock' /\ RepeatClock' /\ Marks'
  <2>0. PICK m : m = Min(todo)
    OBVIOUS
  <2> USE <2>0
  <2>1. /\ tickAt = "set" /\ tickAt' = "loop" /\ todo' = todo \ {m}
        /\ UNCHANGED <<onceLst, repeatSet, repeatAt, left>>
        /\ m \in repeatSet /\ m \in Ids /\ m \in todo
    BY <1>6, Places DEF TickSet
  <2>2. \A i \in Ids \ {m} : timer'[i] = timer[i]
    BY <1>6, <2>1, TickSetEffect
  <2>3. /\ timer'[m].count = 0 /\ timer'[m].state = 2 /\ timer'[m].fires = timer[m].fires
        /\ timer'[m].age = timer[m].age /\ Same(timer'[m], timer[m])
    BY <1>6, <2>1, TickSetEffect DEF Same
  <2>4. OnceClock'
    BY <1>00, <2>1, <2>2, Places DEF OnceClock
  <2>5. Marks'
    BY <1>00, <2>1, <2>2, <2>3, Places DEF Marks
  <2>6. ASSUME NEW i \in repeatSet, i # m PROVE Pace(timer'[i], Lag(i)', Resetting(i)', Marked(i)')
    <3>1. timer'[i] = timer[i]
      BY <2>2, <2>6, Places
    <3>2. Lag(i)' = Lag(i) /\ ~ Marked(i)' /\ (Resetting(i)' <=> Resetting(i))
      BY <2>1, <2>6 DEF Lag, Marked, Resetting
    <3>3. Pace(timer[i], Lag(i), Resetting(i), Marked(i))
      BY <1>00 DEF RepeatClock
    <3>. QED BY <3>1, <3>2, <3>3 DEF Pace
  <2>7. Pace(timer'[m], Lag(m)', Resetting(m)', Marked(m)')
    <3>1. timer[m].state <= 1 /\ timer[m].state \in 0..3
      BY <1>0, <1>00, <2>1, Fields DEF Marks
    <3>2. Lag(m) = 0 /\ Lag(m)' = 0 /\ Marked(m) /\ ~ Marked(m)'
      BY <2>1 DEF Lag, Marked
    <3>3. ~ Resetting(m) /\ ~ Resetting(m)'
      BY <1>00, <2>1, <3>1 DEF Marks, Resetting
    <3>4. Pace(timer[m], Lag(m), Resetting(m), Marked(m))
      BY <1>00, <2>1 DEF RepeatClock
    <3>5. Pace(timer[m], 0, FALSE, TRUE)
      BY <3>2, <3>3, <3>4 DEF Pace
    <3>6. timer[m] \in Timers /\ timer'[m] \in Timers
      BY <1>0, <2>1
    <3>7. Pace(timer'[m], 0, FALSE, FALSE)
      BY <2>3, <3>1, <3>5, <3>6, PaceSet
    <3>. QED BY <3>2, <3>3, <3>7 DEF Pace
  <2>8. RepeatClock'
    BY <2>1, <2>6, <2>7 DEF RepeatClock
  <2>. QED BY <2>4, <2>5, <2>8
<1>7. ASSUME TickFault PROVE OnceClock' /\ RepeatClock' /\ Marks'
  <2>1. /\ tickAt # "set" /\ tickAt' = "end"
        /\ UNCHANGED <<timer, onceLst, repeatSet, repeatAt, left>>
    BY <1>7 DEF TickFault
  <2>2. OnceClock' /\ Marks'
    BY <1>00, <2>1 DEF OnceClock, Marks
  <2>3. ASSUME NEW i \in repeatSet PROVE Pace(timer'[i], Lag(i)', Resetting(i)', Marked(i)')
    <3>1. Lag(i) \in {0, 1} /\ Lag(i)' = 0 /\ ~ Marked(i) /\ ~ Marked(i)'
          /\ (Resetting(i)' <=> Resetting(i)) /\ Resetting(i) \in BOOLEAN
      BY <2>1 DEF Lag, Marked, Resetting
    <3>2. Pace(timer[i], Lag(i), Resetting(i), Marked(i))
      BY <1>00 DEF RepeatClock
    <3>3. Pace(timer[i], Lag(i), Resetting(i), FALSE) /\ timer[i] \in Timers
      BY <3>1, <3>2, Places DEF Pace
    <3>4. Pace(timer[i], 0, Resetting(i), FALSE)
      BY <3>1, <3>3, PacePass
    <3>. QED BY <2>1, <3>1, <3>4 DEF Pace
  <2>4. RepeatClock'
    BY <2>1, <2>3 DEF RepeatClock
  <2>. QED BY <2>2, <2>4
<1>. QED BY <1>2, <1>3, <1>4, <1>5, <1>6, <1>7 DEF Tick

\* The steps of OnceProcess and RepeatProcess.
LEMMA ClockProcess ==
    ASSUME TypeInv, TypeInv', SafeInv, ClockInv, OnceProcess \/ RepeatProcess PROVE ClockInv'
<1>0. /\ timer \in [Ids -> Timers] /\ timer' \in [Ids -> Timers]
      /\ onceLst \subseteq OnceIds /\ repeatSet \subseteq RepeatIds
  BY DEF TypeInv, TypeOK
<1> SUFFICES ASSUME MaxTicks > 0 PROVE OnceClock' /\ RepeatClock' /\ Marks'
  BY DEF ClockInv
<1>00. OnceClock /\ RepeatClock /\ Marks
  BY DEF ClockInv
<1> USE DEF sems, tickVars, repeatVars, bounds, lists
<1>1. ASSUME onceLst' \subseteq onceLst, UNCHANGED <<repeatSet, tickAt, todo>>,
             \A i \in onceLst' \cup repeatSet : timer'[i] = timer[i],
             \/ UNCHANGED <<repeatAt, left>>
             \/ repeatAt # "reset" /\ repeatAt' # "reset"
      PROVE  OnceClock' /\ RepeatClock' /\ Marks'
  <2>1. \A i : Lag(i)' = Lag(i) /\ (Marked(i)' <=> Marked(i)) /\ (Resetting(i)' <=> Resetting(i))
    BY <1>1 DEF Lag, Marked, Resetting
  <2>2. OnceClock'
    BY <1>00, <1>1 DEF OnceClock
  <2>3. Marks'
    BY <1>00, <1>1, Places DEF Marks
  <2>4. RepeatClock'
    BY <1>00, <1>1, <2>1 DEF RepeatClock, Pace
  <2>. QED BY <2>2, <2>3, <2>4
<1>2. ASSUME \/ OnceTest \/ OnceWait \/ DealOnceHandle
             \/ RepeatTest \/ RepeatWait \/ DealLock \/ DealUnlock \/ DealFault
      PROVE  OnceClock' /\ RepeatClock' /\ Marks'
  <2>1. CASE OnceTest
    BY <1>1, <2>1 DEF OnceTest
  <2>2. CASE OnceWait
    BY <1>1, <2>2 DEF OnceWait
  <2>3. CASE DealOnceHandle
    <3>1. /\ onceLst' \subseteq onceLst /\ UNCHANGED <<repeatSet, tickAt, todo, repeatAt, left>>
      BY <2>3 DEF DealOnceHandle, Remaining
    <3>2. \A i \in onceLst' \cup repeatSet : timer'[i] = timer[i]
      BY <2>3, Places DEF DealOnceHandle, Remaining
    <3>. QED BY <1>1, <3>1, <3>2
  <2>4. CASE RepeatTest
    BY <1>1, <2>4 DEF RepeatTest
  <2>5. CASE RepeatWait
    BY <1>1, <2>5 DEF RepeatWait
  <2>6. CASE DealLock
    BY <1>1, <2>6 DEF DealLock
  <2>7. CASE DealUnlock
    BY <1>1, <2>7 DEF DealUnlock
  <2>8. CASE DealFault
    BY <1>1, <2>8 DEF DealFault
  <2>. QED BY <1>2, <2>1, <2>2, <2>3, <2>4, <2>5, <2>6, <2>7, <2>8
<1>3. ASSUME DealVisit PROVE OnceClock' /\ RepeatClock' /\ Marks'
  <2>0. PICK m : m = Min(left)
    OBVIOUS
  <2> USE <2>0
  <2>1. /\ repeatAt = "loop" /\ UNCHANGED <<onceLst, repeatSet, tickAt, todo>>
        /\ m \in repeatSet /\ m \in Ids
        /\ \A i \in Ids \ {m} : timer'[i] = timer[i]
    BY <1>3, DealVisitEffect DEF DealVisit, Ids
  <2>2. CASE ~ IsTimeout(timer[m])
    <3>1. timer'[m] = timer[m] /\ repeatAt' = "loop"
      BY <1>3, <2>2, DealVisitEffect
    <3>2. \A i \in onceLst' \cup repeatSet : timer'[i] = timer[i]
      BY <2>1, <3>1, Places
    <3>. QED BY <1>1, <2>1, <3>1, <3>2
  <2>3. CASE IsTimeout(timer[m])
    <3>1. /\ repeatAt' = "reset" /\ left' = left
          /\ timer'[m].fires = timer[m].fires + 1 /\ timer'[m].count = timer[m].count
          /\ timer'[m].state = timer[m].state /\ timer'[m].age = timer[m].age
          /\ Same(timer'[m], timer[m])
      BY <1>3, <2>3, DealVisitEffect DEF Same
    <3>2. OnceClock'
      BY <1>00, <2>1, Places DEF OnceClock
    <3>3. timer[m].state > 1 /\ timer[m].state \in 0..3
      BY <1>0, <2>1, <2>3, Fields DEF IsTimeout
    <3>4. \A i \in Ids : timer'[i].state = timer[i].state
      BY <2>1, <3>1
    <3>5. Marks'
      BY <1>00, <2>1, <3>1, <3>3, <3>4, Places DEF Marks
    <3>6. ASSUME NEW i \in repeatSet, i # m PROVE Pace(timer'[i], Lag(i)', Resetting(i)', Marked(i)')
      <4>1. timer'[i] = timer[i]
        BY <2>1, <3>6, Places
      <4>2. Lag(i)' = Lag(i) /\ (Marked(i)' <=> Marked(i)) /\ ~ Resetting(i)' /\ ~ Resetting(i)
        BY <2>1, <3>1, <3>6 DEF Lag, Marked, Resetting
      <4>3. Pace(timer[i], Lag(i), Resetting(i), Marked(i))
        BY <1>00 DEF RepeatClock
      <4>. QED BY <4>1, <4>2, <4>3 DEF Pace
    <3>7. Pace(timer'[m], Lag(m)', Resetting(m)', Marked(m)')
      <4>1. /\ Lag(m)' = Lag(m) /\ Lag(m) \in {0, 1} /\ ~ Resetting(m) /\ Resetting(m)'
            /\ (Marked(m)' <=> Marked(m))
        BY <2>1, <3>1 DEF Lag, Marked, Resetting
      <4>2. ~ Marked(m)
        BY <1>00, <3>3 DEF Marks, Marked
      <4>3. Pace(timer[m], Lag(m), Resetting(m), Marked(m))
        BY <1>00, <2>1 DEF RepeatClock
      <4>4. Pace(timer[m], Lag(m), FALSE, FALSE)
        BY <4>1, <4>2, <4>3 DEF Pace
      <4>5. timer[m] \in Timers /\ timer'[m] \in Timers
        BY <1>0, <2>1
      <4>6. Pace(timer'[m], Lag(m), TRUE, FALSE)
        BY <3>1, <3>3, <4>1, <4>4, <4>5, PaceFire
      <4>. QED BY <4>1, <4>2, <4>6 DEF Pace
    <3>8. RepeatClock'
      BY <2>1, <3>6, <3>7 DEF RepeatClock
    <3>. QED BY <3>2, <3>5, <3>8
  <2>. QED BY <2>2, <2>3
<1>4. ASSUME DealReset PROVE OnceClock' /\ RepeatClock' /\ Marks'
  <2>0. PICK m : m = Min(left)
    OBVIOUS
  <2> USE <2>0
  <2>1. /\ repeatAt = "reset" /\ repeatAt' = "loop" /\ UNCHANGED <<onceLst, repeatSet, tickAt, todo>>
        /\ m \in repeatSet /\ m \in Ids
    BY <1>4, Places DEF DealReset
  <2>2. \A i \in Ids \ {m} : timer'[i] = timer[i]
    BY <1>4, <2>1, DealResetEffect
  <2>3. /\ timer'[m].state = 1 /\ timer'[m].count = timer[m].count
        /\ timer'[m].fires = timer[m].fires /\ timer'[m].age = timer[m].age
        /\ Same(timer'[m], timer[m])
    BY <1>4, <2>1, DealResetEffect DEF Same
  <2>4. OnceClock'
    BY <1>00, <2>1, <2>2, Places DEF OnceClock
  <2>5. Marks'
    BY <1>00, <2>1, <2>2, <2>3, Places DEF Marks
  <2>6. ASSUME NEW i \in repeatSet, i # m PROVE Pace(timer'[i], Lag(i)', Resetting(i)', Marked(i)')
    <3>1. timer'[i] = timer[i]
      BY <2>2, <2>6, Places
    <3>2. Lag(i)' = Lag(i) /\ (Marked(i)' <=> Marked(i)) /\ ~ Resetting(i)' /\ ~ Resetting(i)
      BY <2>1, <2>6 DEF Lag, Marked, Resetting
    <3>3. Pace(timer[i], Lag(i), Resetting(i), Marked(i))
      BY <1>00 DEF RepeatClock
    <3>. QED BY <3>1, <3>2, <3>3 DEF Pace
  <2>7. Pace(timer'[m], Lag(m)', Resetting(m)', Marked(m)')
    <3>1. timer[m].state > 1 /\ timer[m].state \in 0..3
      BY <1>0, <1>00, <2>1, Fields DEF Marks
    <3>2. /\ Lag(m)' = Lag(m) /\ Lag(m) \in {0, 1} /\ Resetting(m) /\ ~ Resetting(m)'
          /\ (Marked(m)' <=> Marked(m))
      BY <2>1 DEF Lag, Marked, Resetting
    <3>3. ~ Marked(m)
      BY <1>00, <3>1 DEF Marks, Marked
    <3>4. Pace(timer[m], Lag(m), Resetting(m), Marked(m))
      BY <1>00, <2>1 DEF RepeatClock
    <3>5. Pace(timer[m], Lag(m), TRUE, FALSE)
      BY <3>2, <3>3, <3>4 DEF Pace
    <3>6. timer[m] \in Timers /\ timer'[m] \in Timers
      BY <1>0, <2>1
    <3>7. Pace(timer'[m], Lag(m), FALSE, FALSE)
      BY <2>3, <3>1, <3>2, <3>5, <3>6, PaceReset
    <3>. QED BY <3>2, <3>3, <3>7 DEF Pace
  <2>8. RepeatClock'
    BY <2>1, <2>6, <2>7 DEF RepeatClock
  <2>. QED BY <2>4, <2>5, <2>8
<1>. QED BY <1>2, <1>3, <1>4 DEF OnceProcess, RepeatProcess

\* A step of Stop.
LEMMA ClockStop ==
    ASSUME TypeInv, SafeInv, ClockInv, Stop PROVE ClockInv'
<1>1. UNCHANGED <<onceLst, repeatSet, tickAt, todo, repeatAt, left>>
  BY DEF Stop, tickVars, repeatVars
<1>2. \A i \in Ids : Alike(timer'[i], timer[i])
  BY StopEffect DEF Alike, Same
<1>3. \A i : Lag(i)' = Lag(i) /\ (Resetting(i)' <=> Resetting(i)) /\ (Marked(i)' <=> Marked(i))
  BY <1>1 DEF Lag, Resetting, Marked
<1>4. MaxTicks > 0 => Marks'
  BY <1>1, <1>2, Places DEF ClockInv, Marks, Alike
<1>. QED BY <1>1, <1>2, <1>3, <1>4, ClockFrame, Places

\* The clocks imply the promise about the callbacks.
LEMMA ClockSound ==
    ASSUME TypeInv, SafeInv, ClockInv PROVE NotEarly
<1> SUFFICES ASSUME MaxTicks > 0 PROVE OnceNotEarly /\ RepeatPace
  BY DEF NotEarly
<1>1. OnceNotEarly
  BY DEF ClockInv, OnceClock, OnceNotEarly
<1>2. ASSUME NEW i \in repeatSet, timer[i].clean, timer[i].fixed,
             NEW n, n = timer[i].fires + (IF IsTimeout(timer[i]) /\ ~ Resetting(i) THEN 1 ELSE 0),
             n > 0
      PROVE  timer[i].age * Precision >= timer[i].start + (n - 1) * timer[i].interval
  <2> DEFINE r == timer[i]
  <2>1. r \in Timers
    BY Places
  <2>2. Pace(r, Lag(i), Resetting(i), Marked(i))
    BY DEF ClockInv, RepeatClock
  <2>3. Lag(i) \in {0, 1} /\ Resetting(i) \in BOOLEAN
    BY DEF Lag, Resetting
  <2>4. r.clean /\ r.fixed
    BY <1>2
  <2>5. n = r.fires + (IF r.state > 1 /\ ~ Resetting(i) THEN 1 ELSE 0)
    BY <1>2 DEF IsTimeout
  <2>6. r.state = 0 \/ r.state = 1 \/ r.state = 2 \/ r.state = 3
    BY <2>1, Fields
  <2> HIDE DEF r
  <2>7. Lag(i) * Precision \in Nat /\ r.count * Precision \in Nat
    BY <2>1, <2>3, Numbers
  <2>8. CASE r.state = 0
    <3>1. r.fires = 0
      BY <2>2, <2>4, <2>8 DEF Pace
    <3>. QED BY <1>2, <2>5, <2>8, <3>1
  <2>9. CASE r.state = 1
    <3>1. /\ r.age * Precision >= r.start + (r.fires - 1) * r.interval + r.count * Precision + Lag(i) * Precision
          /\ n = r.fires
      BY <2>1, <2>2, <2>4, <2>5, <2>9, Numbers DEF Pace
    <3>2. r.age * Precision >= r.start + (r.fires - 1) * r.interval
      BY <2>1, <2>7, <3>1, Numbers
    <3>. QED BY <3>1, <3>2 DEF r
  <2>10. CASE r.state = 2
    <3>1. r.age * Precision >=
             r.start + (IF Resetting(i) THEN r.fires - 1 ELSE r.fires) * r.interval + Lag(i) * Precision
      BY <2>2, <2>4, <2>10 DEF Pace
    <3>2. n - 1 = IF Resetting(i) THEN r.fires - 1 ELSE r.fires
      BY <2>1, <2>5, <2>10, Numbers
    <3>3. r.age * Precision >= r.start + (n - 1) * r.interval + Lag(i) * Precision
      BY <3>1, <3>2
    <3>4. r.start \in Nat /\ (n - 1) * r.interval \in Int /\ r.age * Precision \in Nat
      BY <2>1, <3>2, Numbers
    <3>. QED BY <2>7, <3>3, <3>4 DEF r
  <2>11. r.state # 3
    BY <2>2, <2>4 DEF Pace
  <2>. QED BY <2>6, <2>8, <2>9, <2>10, <2>11
<1>3. RepeatPace
  BY <1>2 DEF RepeatPace, Resetting
<1>. QED BY <1>1, <1>3

\* No callback comes early, for any precision, times and number of ticks: nCount, which the
\* timer thread counts and RestCount clears, never runs ahead of the SIGALRMs taken.
THEOREM NotEarlySafe == Spec => []NotEarly
<1>1. Init => ClockInv
  BY DEF Init, ClockInv, OnceClock, RepeatClock, Marks
<1>2. TypeInv /\ TypeInv' /\ SafeInv /\ ClockInv /\ [Next]_vars => ClockInv'
  <2> SUFFICES ASSUME TypeInv, TypeInv', SafeInv, ClockInv, [Next]_vars PROVE ClockInv'
    OBVIOUS
  <2>1. CASE Next
    BY <2>1, ClockProgram, ClockTick, ClockProcess, ClockStop DEF Next
  <2>2. CASE UNCHANGED vars
    BY <2>2 DEF vars, lists, sems, tickVars, repeatVars, bounds, ClockInv, OnceClock, RepeatClock,
                Marks, Lag, Marked, Resetting
  <2>. QED BY <2>1, <2>2
<1>3. TypeInv /\ SafeInv /\ ClockInv => NotEarly
  BY ClockSound
<1>4. Spec => []TypeInv
  BY TypeCorrect, PTL DEF TypeInv
<1>. QED BY <1>1, <1>2, <1>3, <1>4, SafeInductive, PTL DEF Spec

=============================================================================
