--------------------------- MODULE TimerQueueWin ---------------------------
(***************************************************************************)
(* The Windows timer managers (TimerMgrImpl_Win32.cpp and the millisecond  *)
(* one, which differs by the factor 1000): a map from names to timers over *)
(* a system timer queue whose threads run the callbacks.                   *)
(***************************************************************************)
EXTENDS Integers, FiniteSets

CONSTANTS TimerNames, MaxWinTimers      \* bound: timers added

ASSUME TimerQueueAssumption == MaxWinTimers \in Nat /\ "none" \notin TimerNames

VARIABLES
    tqMap,      \* m_pTimers: name -> number of its timer, 0 when there is no entry
    tqArmed,    \* entries the queue still fires (external)
    tqBusy,     \* callbacks at work: the timers they were given
    tqMade, tqFreed,
    tqPc,       \* DelTimer is between its two calls for this name, or "none"
    tqLate      \* callbacks that used a deleted timer

tqVars == <<tqMap, tqArmed, tqBusy, tqMade, tqFreed, tqPc, tqLate>>

TqInit ==
    /\ tqMap = [n \in TimerNames |-> 0] /\ tqArmed = {} /\ tqBusy = {}
    /\ tqMade = 0 /\ tqFreed = {} /\ tqPc = "none" /\ tqLate = {}

\* A second timer of the same name is refused; the entry stays when the queue fails.
TqAddTimer(n) ==
    /\ tqPc = "none" /\ tqMap[n] = 0 /\ tqMade < MaxWinTimers
    /\ tqMade' = tqMade + 1
    /\ tqMap' = [tqMap EXCEPT ![n] = tqMade + 1]
    /\ \E ok \in BOOLEAN : tqArmed' = IF ok THEN tqArmed \cup {n} ELSE tqArmed
    /\ UNCHANGED <<tqBusy, tqFreed, tqPc, tqLate>>

\* Bug: the timer is deleted first.
MutantTqFirst(n) == tqFreed' = tqFreed \cup {tqMap[n]} /\ UNCHANGED tqArmed
\* DeleteTimerQueueTimer does not wait for a callback that is at work.
TqFirst(n) == tqArmed' = tqArmed \ {n} /\ UNCHANGED tqFreed
TqSecond(n) == tqFreed' = tqFreed \cup {tqMap[n]} /\ UNCHANGED tqArmed

\* DelTimer, also for every entry from the destructor.
TqDelTimer(n) ==
    /\ tqPc = "none" /\ tqMap[n] # 0
    /\ TqFirst(n)
    /\ tqPc' = n
    /\ UNCHANGED <<tqMap, tqBusy, tqMade, tqLate>>

TqDelTimerEnds(n) ==
    /\ tqPc = n
    /\ TqSecond(n)
    /\ tqMap' = [tqMap EXCEPT ![n] = 0] /\ tqPc' = "none"
    /\ UNCHANGED <<tqBusy, tqMade, tqLate>>

\* ModifyRepeatTimer stores the new times in the timer and gives the queue the address
\* of the handle instead of the handle, which the queue refuses: nothing changes here.

\* The queue fires: the callback begins with the entry's timer.
TimerRoutine(n) ==
    /\ n \in tqArmed /\ tqMap[n] # 0
    /\ tqBusy' = tqBusy \cup {tqMap[n]}
    /\ tqLate' = IF tqMap[n] \in tqFreed THEN tqLate \cup {<<tqMap[n], "begins">>} ELSE tqLate
    /\ UNCHANGED <<tqMap, tqArmed, tqMade, tqFreed, tqPc>>

\* TimerProc comes to its end.
TimerRoutineEnds(k) ==
    /\ k \in tqBusy
    /\ tqBusy' = tqBusy \ {k}
    /\ tqLate' = IF k \in tqFreed THEN tqLate \cup {<<k, "ends">>} ELSE tqLate
    /\ UNCHANGED <<tqMap, tqArmed, tqMade, tqFreed, tqPc>>

TqNext ==
    \/ \E n \in TimerNames : \/ TqAddTimer(n) \/ TqDelTimer(n) \/ TqDelTimerEnds(n)
                             \/ TimerRoutine(n)
    \/ \E k \in tqBusy : TimerRoutineEnds(k)

TqSpec == TqInit /\ [][TqNext]_tqVars

TqTypeOK ==
    /\ tqMap \in [TimerNames -> 0..MaxWinTimers] /\ tqArmed \subseteq TimerNames
    /\ tqBusy \subseteq 1..MaxWinTimers /\ tqFreed \subseteq 1..MaxWinTimers

\* DelTimer (TimerMgrImpl_Win32.cpp:38-48): a callback never begins with a timer that
\* has been deleted, and no entry names one.  One that had begun may still end with it:
\* nothing waits for it.
NoLateStart ==
    /\ \A k \in 1..MaxWinTimers : <<k, "begins">> \notin tqLate
    /\ \A n \in TimerNames : tqMap[n] \in tqFreed => tqPc = n
=============================================================================
