------------------------------ MODULE TimerMgr ------------------------------
(***************************************************************************)
(* Thread/TimerMgrImpl_Linux: SIGALRM posts m_timeSync, a timer thread     *)
(* counts every timer one tick further (TimerHandle), and two pool threads *)
(* run the callbacks of the timers that became due (DealOnceHandle,        *)
(* DealRepeatHandle).  Once timers are under a mutex, so each loop over    *)
(* them is one step; repeat timers are under a read-write lock whose       *)
(* readers, TimerHandle and DealRepeatHandle, run at the same time: their  *)
(* loops are one step per access.  A repeat timer's name is its identity,  *)
(* and its number the place of the name in the map.                        *)
(* A thread that uses freed memory raises `fault` and is followed no       *)
(* further.                                                                *)
(***************************************************************************)
EXTENDS Integers, FiniteSets, FiniteSetsExt

CONSTANTS
    OnceIds, RepeatIds, \* timer objects
    Starts, Intervals,  \* milliseconds given to timers
    Precision,          \* TIMERPRECISION
    Width,              \* nCount is an unsigned short: 2^16 in the code
    Garbage,            \* <<nCount, nFinish>> a constructor may leave: not initialised
    MaxTicks,           \* bound: SIGALRMs; 0 for no bound (and no ages)
    MaxPending,         \* bound: permits in a semaphore
    MaxModify           \* bound: ModifyRepeatTimer calls

Ids == OnceIds \cup RepeatIds

ASSUME TimerAssumption ==
    /\ RepeatIds \subseteq Nat /\ IsFiniteSet(Ids) /\ OnceIds \cap RepeatIds = {}
    /\ Starts \subseteq Nat /\ Starts # {} /\ Intervals \subseteq Nat \ {0}
    /\ Precision \in Nat \ {0} /\ Width \in Nat \ {0}
    /\ <<0, 0>> \in Garbage /\ Garbage \subseteq (0..(Width - 1)) \X (0..3)
    /\ MaxTicks \in Nat /\ MaxPending \in Nat \ {0} /\ MaxModify \in Nat

VARIABLES
    timer,          \* each object: its fields, and history
    onceLst,        \* the once timers; their order matters to no other thread
    repeatSet,      \* the repeat timers
    semOnce, semRepeat, timeSync,   \* semaphores
    tickAt,         \* where the timer thread is
    todo,           \* timers its loop has still to visit
    flagRepeat,     \* bFlagRepeat
    onceAt,         \* where the thread of OnceProcess is
    repeatAt,       \* where the thread of RepeatProcess is
    left,           \* timers its loop has still to visit
    stopped,        \* how many steps of Stop are done
    ticks, modified,\* bounds
    fault           \* freed memory was used

tickVars   == <<tickAt, todo, flagRepeat>>
repeatVars == <<repeatAt, left>>
lists      == <<timer, onceLst, repeatSet>>
sems       == <<semOnce, semRepeat, timeSync>>
bounds     == <<ticks, modified>>
vars == <<lists, sems, tickVars, onceAt, repeatVars, stopped, bounds, fault>>

Timers == [start : Starts, interval : Intervals \cup {0},
           count : 0..(Width - 1), state : 0..3,
           age : 0..MaxTicks, fires : Nat,
           clean : BOOLEAN, fixed : BOOLEAN, live : BOOLEAN]

TypeOK ==
    /\ timer \in [Ids -> Timers]
    /\ onceLst \subseteq OnceIds /\ repeatSet \subseteq RepeatIds
    /\ semOnce \in Nat /\ semRepeat \in Nat /\ timeSync \in Nat
    /\ tickAt \in {"test", "wait", "once", "lock", "loop", "set", "end"}
    /\ todo \subseteq RepeatIds /\ flagRepeat \in BOOLEAN
    /\ onceAt \in {"test", "wait", "deal", "end"}
    /\ repeatAt \in {"test", "wait", "lock", "loop", "reset", "end"}
    /\ left \subseteq RepeatIds
    /\ stopped \in 0..8 /\ ticks \in Nat /\ modified \in 0..MaxModify
    /\ fault \in BOOLEAN

NoTimer == [start |-> CHOOSE s \in Starts : TRUE, interval |-> 0, count |-> 0, state |-> 0,
            age |-> 0, fires |-> 0, clean |-> FALSE, fixed |-> FALSE, live |-> FALSE]

\* TimerMgrImpl::Init has returned: both tasks are in the hands of the pool's threads.
Init ==
    /\ timer = [i \in Ids |-> NoTimer]
    /\ onceLst = {} /\ repeatSet = {}
    /\ semOnce = 0 /\ semRepeat = 0 /\ timeSync = 0
    /\ tickAt = "test" /\ todo = {} /\ flagRepeat = FALSE
    /\ onceAt = "test" /\ repeatAt = "test" /\ left = {}
    /\ stopped = 0 /\ ticks = 0 /\ modified = 0 /\ fault = FALSE

\* pthread_rwlock_wrlock: no reader inside.
MutantWritable == repeatAt \notin {"loop", "reset"}     \* bug: the tick does not lock
Writable == tickAt \notin {"loop", "set"} /\ repeatAt \notin {"loop", "reset"}

-----------------------------------------------------------------------------
(* Calls of the program *)

\* new Timer: nCount and nFinish are whatever the memory held.
NewTimer(start, interval, g) ==
    [start |-> start, interval |-> interval, count |-> g[1], state |-> g[2],
     age |-> 0, fires |-> 0, clean |-> g = <<0, 0>>, fixed |-> TRUE, live |-> TRUE]

AddOnce(i, start, g) ==
    /\ stopped < 8 /\ i \notin onceLst
    /\ timer' = [timer EXCEPT ![i] = NewTimer(start, 0, g)]
    /\ onceLst' = onceLst \cup {i}
    /\ UNCHANGED <<repeatSet, sems, tickVars, onceAt, repeatVars, stopped, bounds, fault>>

\* A name that is in the map already is refused: nothing changes then.
AddRepeat(i, start, interval, g) ==
    /\ stopped < 8 /\ Writable /\ i \notin repeatSet
    /\ timer' = [timer EXCEPT ![i] = NewTimer(start, interval, g)]
    /\ repeatSet' = repeatSet \cup {i}
    /\ UNCHANGED <<onceLst, sems, tickVars, onceAt, repeatVars, stopped, bounds, fault>>

DelTimer(i) ==
    /\ stopped < 8 /\ Writable /\ i \in repeatSet
    /\ repeatSet' = repeatSet \ {i}
    /\ fault' = (fault \/ ~ timer[i].live)
    /\ timer' = [timer EXCEPT ![i] = NoTimer]
    /\ UNCHANGED <<onceLst, sems, tickVars, onceAt, repeatVars, stopped, bounds>>

ModifyRepeatTimer(i, start, interval) ==
    /\ stopped < 8 /\ Writable /\ i \in repeatSet /\ modified < MaxModify
    /\ timer' = [timer EXCEPT ![i].start = start, ![i].interval = interval, ![i].fixed = FALSE]
    /\ fault' = (fault \/ ~ timer[i].live)
    /\ modified' = modified + 1
    /\ UNCHANGED <<onceLst, repeatSet, sems, tickVars, onceAt, repeatVars, stopped, ticks>>

-----------------------------------------------------------------------------
(* The tick *)

\* TimerProc: the signal handler.
Sigalrm ==
    /\ timeSync < MaxPending
    /\ MaxTicks > 0 => ticks < MaxTicks
    /\ ticks' = IF MaxTicks > 0 THEN ticks + 1 ELSE 0
    /\ timeSync' = timeSync + 1
    /\ UNCHANGED <<lists, semOnce, semRepeat, tickVars, onceAt, repeatVars, stopped, modified, fault>>

\* while(m_bTimerFlag)
TickTest ==
    /\ tickAt = "test"
    /\ tickAt' = IF stopped = 0 THEN "wait" ELSE "end"
    /\ UNCHANGED <<lists, sems, todo, flagRepeat, onceAt, repeatVars, stopped, bounds, fault>>

TickWait ==
    /\ tickAt = "wait" /\ timeSync > 0
    /\ semOnce < MaxPending /\ semRepeat < MaxPending
    /\ timeSync' = timeSync - 1
    /\ tickAt' = "once"
    /\ flagRepeat' = FALSE
    /\ UNCHANGED <<lists, semOnce, semRepeat, todo, onceAt, repeatVars, stopped, bounds, fault>>

Older(r) == [r EXCEPT !.age = IF MaxTicks > 0 THEN @ + 1 ELSE 0]

\* ++nCount*TIMERPRECISION == ms, after which SetFinish
Incremented(r) == (r.count + 1) % Width
Reached(r, ms) == Incremented(r) * Precision = ms

MutantOnceDue(r) == Incremented(r) * Precision + Precision >= r.start    \* bug: one tick early
OnceDue(r) == Reached(r, r.start)

PostOnce(due) == IF due THEN 1 ELSE 0

TickOnce ==
    /\ tickAt = "once" /\ \A i \in onceLst : timer[i].live
    /\ timer' = [i \in Ids |->
                   IF i \notin onceLst THEN timer[i]
                   ELSE [Older(timer[i]) EXCEPT
                           !.count = Incremented(timer[i]),
                           !.state = IF OnceDue(timer[i]) THEN 2 ELSE @]]
    /\ semOnce' = semOnce + PostOnce(\E i \in onceLst : OnceDue(timer[i]))
    /\ tickAt' = "lock"
    /\ UNCHANGED <<onceLst, repeatSet, semRepeat, timeSync, todo, flagRepeat,
                   onceAt, repeatVars, stopped, bounds, fault>>

\* pthread_rwlock_rdlock: the loop over repeatSet begins; every timer is a tick older.
TickLock ==
    /\ tickAt = "lock"
    /\ tickAt' = "loop" /\ todo' = repeatSet
    /\ timer' = [i \in Ids |-> IF i \in repeatSet THEN Older(timer[i]) ELSE timer[i]]
    /\ UNCHANGED <<onceLst, repeatSet, sems, flagRepeat, onceAt, repeatVars, stopped, bounds, fault>>

\* case 0 compares with nStart, case 1 with nInterval; in state 2 (or garbage) no tick counts.
MutantTarget(r) == r.interval     \* bug: the first time is the interval, too
Target(r) == IF r.state = 0 THEN r.start ELSE r.interval

TickVisit ==
    /\ tickAt = "loop" /\ todo # {}
    /\ LET i == Min(todo) IN
         /\ i \in repeatSet /\ timer[i].live
         /\ IF timer[i].state > 1
            THEN tickAt' = "loop" /\ todo' = todo \ {i} /\ timer' = timer
            ELSE /\ timer' = [timer EXCEPT ![i].count = Incremented(timer[i])]
                 /\ IF Reached(timer[i], Target(timer[i]))
                    THEN tickAt' = "set" /\ todo' = todo
                    ELSE tickAt' = "loop" /\ todo' = todo \ {i}
    /\ UNCHANGED <<onceLst, repeatSet, sems, flagRepeat, onceAt, repeatVars, stopped, bounds, fault>>

\* SetFinish and RestCount
Finished(r) == [r EXCEPT !.state = 2, !.count = 0]

TickSet ==
    /\ tickAt = "set"
    /\ timer' = [timer EXCEPT ![Min(todo)] = Finished(@)]
    /\ flagRepeat' = TRUE
    /\ todo' = todo \ {Min(todo)} /\ tickAt' = "loop"
    /\ UNCHANGED <<onceLst, repeatSet, sems, onceAt, repeatVars, stopped, bounds, fault>>

MutantPostRepeat(due) == IF due /\ repeatAt = "wait" THEN 1 ELSE 0  \* bug: only to a waiting process
PostRepeat(due) == IF due THEN 1 ELSE 0

TickUnlock ==
    /\ tickAt = "loop" /\ todo = {}
    /\ semRepeat' = semRepeat + PostRepeat(flagRepeat)
    /\ tickAt' = "test"
    /\ UNCHANGED <<lists, semOnce, timeSync, todo, flagRepeat, onceAt, repeatVars, stopped, bounds, fault>>

\* The loops meet a timer that Stop deleted or that is no longer there.
TickFault ==
    /\ \/ tickAt = "once" /\ \E i \in onceLst : ~ timer[i].live
       \/ tickAt = "loop" /\ todo # {} /\ (Min(todo) \notin repeatSet \/ ~ timer[Min(todo)].live)
    /\ fault' = TRUE /\ tickAt' = "end" /\ todo' = {}
    /\ UNCHANGED <<lists, sems, flagRepeat, onceAt, repeatVars, stopped, bounds>>

-----------------------------------------------------------------------------
(* OnceProcess *)

\* while(m_bFlag): Stop's second step clears it, its sixth deletes the process.
OnceTest ==
    /\ onceAt = "test"
    /\ onceAt' = IF stopped < 2 THEN "wait" ELSE "end"
    /\ fault' = (fault \/ stopped >= 6)
    /\ UNCHANGED <<lists, sems, tickVars, repeatVars, stopped, bounds>>

MutantOncePermit == TRUE        \* bug: the result of a sem_trywait is ignored
OncePermit == semOnce > 0

OnceWait ==
    /\ onceAt = "wait" /\ OncePermit
    /\ semOnce' = semOnce - 1
    /\ onceAt' = IF stopped >= 6 THEN "end" ELSE "deal"
    /\ fault' = (fault \/ stopped >= 6)
    /\ UNCHANGED <<lists, semRepeat, timeSync, tickVars, repeatVars, stopped, bounds>>

MutantIsTimeout(r) == r.state > 2     \* bug: off by one
IsTimeout(r) == r.state > 1

Remaining == {i \in onceLst : ~ IsTimeout(timer[i])}

\* The callbacks of all due timers, which are then deleted and erased.
DealOnceHandle ==
    /\ onceAt = "deal"
    /\ onceLst' = Remaining
    /\ timer' = [i \in Ids |-> IF i \in onceLst /\ IsTimeout(timer[i]) THEN NoTimer ELSE timer[i]]
    /\ fault' = (fault \/ \E i \in onceLst : ~ timer[i].live)
    /\ onceAt' = "test"
    /\ UNCHANGED <<repeatSet, sems, tickVars, repeatVars, stopped, bounds>>

-----------------------------------------------------------------------------
(* RepeatProcess *)

RepeatTest ==
    /\ repeatAt = "test"
    /\ repeatAt' = IF stopped < 4 THEN "wait" ELSE "end"
    /\ fault' = (fault \/ stopped >= 6)
    /\ UNCHANGED <<lists, sems, tickVars, onceAt, left, stopped, bounds>>

RepeatWait ==
    /\ repeatAt = "wait" /\ semRepeat > 0
    /\ semRepeat' = semRepeat - 1
    /\ repeatAt' = IF stopped >= 6 THEN "end" ELSE "lock"
    /\ fault' = (fault \/ stopped >= 6)
    /\ UNCHANGED <<lists, semOnce, timeSync, tickVars, onceAt, left, stopped, bounds>>

DealLock ==
    /\ repeatAt = "lock"
    /\ repeatAt' = "loop" /\ left' = repeatSet
    /\ UNCHANGED <<lists, sems, tickVars, onceAt, stopped, bounds, fault>>

\* IsTimeout, and TimerProc if so
DealVisit ==
    /\ repeatAt = "loop" /\ left # {}
    /\ LET i == Min(left) IN
         /\ i \in repeatSet /\ timer[i].live
         /\ IF IsTimeout(timer[i])
            THEN /\ timer' = [timer EXCEPT ![i].fires = IF MaxTicks > 0 THEN @ + 1 ELSE 0]
                 /\ repeatAt' = "reset" /\ left' = left
            ELSE timer' = timer /\ repeatAt' = "loop" /\ left' = left \ {i}
    /\ UNCHANGED <<onceLst, repeatSet, sems, tickVars, onceAt, stopped, bounds, fault>>

\* ResetState
AfterReset(r) == [r EXCEPT !.state = 1]

DealReset ==
    /\ repeatAt = "reset"
    /\ timer' = [timer EXCEPT ![Min(left)] = AfterReset(@)]
    /\ left' = left \ {Min(left)} /\ repeatAt' = "loop"
    /\ UNCHANGED <<onceLst, repeatSet, sems, tickVars, onceAt, stopped, bounds, fault>>

DealUnlock ==
    /\ repeatAt = "loop" /\ left = {}
    /\ repeatAt' = "test"
    /\ UNCHANGED <<lists, sems, tickVars, onceAt, left, stopped, bounds, fault>>

DealFault ==
    /\ repeatAt = "loop" /\ left # {}
    /\ Min(left) \notin repeatSet \/ ~ timer[Min(left)].live
    /\ fault' = TRUE /\ repeatAt' = "end" /\ left' = {}
    /\ UNCHANGED <<lists, sems, tickVars, onceAt, stopped, bounds>>

-----------------------------------------------------------------------------
(* Stop, one step per statement: 1 m_bTimerFlag, 2 and 3 the flag and the  *)
(* permit of OnceProcess, 4 and 5 those of RepeatProcess, 6 the pool       *)
(* deletes both processes, 7 and 8 the timers are deleted; the lists keep  *)
(* their pointers.                                                         *)

Freed(ids) == timer' = [i \in Ids |-> IF i \in ids THEN [timer[i] EXCEPT !.live = FALSE] ELSE timer[i]]

Stop ==
    /\ stopped < 8
    /\ stopped' = stopped + 1
    /\ semOnce' = IF stopped = 2 THEN semOnce + 1 ELSE semOnce
    /\ semRepeat' = IF stopped = 4 THEN semRepeat + 1 ELSE semRepeat
    /\ stopped = 7 => Writable
    /\ Freed(CASE stopped = 6 -> onceLst [] stopped = 7 -> repeatSet [] OTHER -> {})
    /\ UNCHANGED <<onceLst, repeatSet, timeSync, tickVars, onceAt, repeatVars, bounds, fault>>

-----------------------------------------------------------------------------

Tick == TickTest \/ TickWait \/ TickOnce \/ TickLock \/ TickVisit \/ TickSet \/ TickUnlock \/ TickFault
OnceProcess == OnceTest \/ OnceWait \/ DealOnceHandle
RepeatProcess == RepeatTest \/ RepeatWait \/ DealLock \/ DealVisit \/ DealReset \/ DealUnlock \/ DealFault

Program ==
    \/ \E i \in OnceIds, s \in Starts, g \in Garbage : AddOnce(i, s, g)
    \/ \E i \in RepeatIds, s \in Starts, n \in Intervals, g \in Garbage : AddRepeat(i, s, n, g)
    \/ \E i \in RepeatIds : DelTimer(i)
    \/ \E i \in RepeatIds, s \in Starts, n \in Intervals : ModifyRepeatTimer(i, s, n)

Next == Program \/ Sigalrm \/ Tick \/ OnceProcess \/ RepeatProcess \/ Stop

Spec == Init /\ [][Next]_vars

\* The interval timer goes on for ever and the three threads run.
FairSpec == Spec /\ WF_vars(Sigalrm) /\ WF_vars(Tick) /\ WF_vars(OnceProcess) /\ WF_vars(RepeatProcess)

-----------------------------------------------------------------------------
(* Properties.  They are about timers whose memory happened to be zero     *)
(* (clean); what the others do is arbitrary.                               *)

\* Freed memory is used only once Stop has begun to delete processes and timers: adding,
\* deleting and modifying timers at any moment of the three loops is safe before.
FaultOnlyInStop == fault => stopped >= 6

\* A once timer that is due, or whose callback would run now, is at least nStart old.
OnceNotEarly ==
    \A i \in onceLst :
        timer[i].clean /\ IsTimeout(timer[i]) => timer[i].age * Precision >= timer[i].start

\* The n-th firing of an unmodified repeat timer comes no earlier than
\* nStart + (n-1) * nInterval after it was added, although TimerHandle and
\* DealRepeatHandle share nCount and nFinish as readers of one lock.
RepeatPace ==
    \A i \in repeatSet :
        LET r == timer[i]
            n == r.fires + (IF IsTimeout(r) /\ ~ (repeatAt = "reset" /\ i = Min(left)) THEN 1 ELSE 0)
        IN  r.clean /\ r.fixed /\ n > 0 => r.age * Precision >= r.start + (n - 1) * r.interval

\* No callback comes early (TimerHandle, lines 154 to 189): neither that of a once timer nor
\* the n-th one of a repeat timer.  (Ages are followed when the ticks are bounded.)
NotEarly == MaxTicks > 0 => OnceNotEarly /\ RepeatPace

\* A due timer is never forgotten: there is a permit for the process that will run its
\* callback, or that process is on its way to it.
DueIsAnnounced ==
    /\ (\E i \in onceLst : timer[i].clean /\ IsTimeout(timer[i])) => semOnce > 0 \/ onceAt \in {"deal", "end"}
    /\ \A i \in repeatSet :
          timer[i].clean /\ IsTimeout(timer[i]) =>
              \/ semRepeat > 0 \/ repeatAt \in {"lock", "end"} \/ i \in left
              \/ tickAt \in {"loop", "set"} /\ flagRepeat

\* While the manager is not stopped, a once timer whose nStart is a multiple of the
\* precision gets its callback.
OnceFires ==
    \A i \in OnceIds :
        (i \in onceLst /\ timer[i].clean /\ timer[i].start % Precision = 0)
            ~> (i \notin onceLst \/ stopped > 0)

\* While the manager is not stopped, a repeat timer that stays gets its callback again and
\* again, also after ModifyRepeatTimer has set an interval that the count has passed.
RepeatFires ==
    \A i \in RepeatIds :
        (i \in repeatSet /\ timer[i].clean)
            ~> (i \notin repeatSet \/ (repeatAt = "reset" /\ Min(left) = i) \/ stopped > 0)

=============================================================================
