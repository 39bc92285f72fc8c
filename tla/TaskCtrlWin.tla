---------------------------- MODULE TaskCtrlWin ----------------------------
(***************************************************************************)
(* The Windows build of the round barrier (Thread/TaskCtrlImpl_Win32.cpp)  *)
(* with its group semaphore (SemaphoreExImpl_Win32.cpp): the coordinator   *)
(* pulses an event the workers wait on, and takes one unit per worker.     *)
(***************************************************************************)
EXTENDS Integers, FiniteSets

CONSTANTS
    CtrlWorkers,
    UnitLimit,      \* NSEMACOUNT: 10 in the code
    MaxWinRounds    \* bound: calls of SyncTaskOneTime

ASSUME CtrlWinAssumption == UnitLimit \in Nat \ {0} /\ MaxWinRounds \in Nat /\ IsFiniteSet(CtrlWorkers)

VARIABLES
    wbCoord, wbTaken,   \* where the coordinator is, and the units it has taken
    wbWorker,           \* "busy", "waiting", "working"
    wbOpen,             \* the event is set
    wbUnits,            \* the count of the semaphore
    wbRounds,           \* rounds begun
    wbDone              \* rounds each worker has done

wbVars == <<wbCoord, wbTaken, wbWorker, wbOpen, wbUnits, wbRounds, wbDone>>

WbInit ==
    /\ wbCoord = "idle" /\ wbTaken = 0 /\ wbWorker = [w \in CtrlWorkers |-> "busy"]
    /\ wbOpen = FALSE /\ wbUnits = 0 /\ wbRounds = 0 /\ wbDone = [w \in CtrlWorkers |-> 0]

\* Bug: SetEvent, which leaves the manual-reset event set.
MutantPulseEvent ==
    /\ wbOpen' = TRUE
    /\ wbWorker' = [w \in CtrlWorkers |-> IF wbWorker[w] = "waiting" THEN "working" ELSE wbWorker[w]]
\* PulseEvent: the threads that wait at this moment go on, the event stays reset.
PulseEvent ==
    /\ wbWorker' = [w \in CtrlWorkers |-> IF wbWorker[w] = "waiting" THEN "working" ELSE wbWorker[w]]
    /\ UNCHANGED wbOpen

\* SyncTaskOneTime: pulse, then SemWait for m_nWait units, one at a time.
SyncTaskOneTime ==
    /\ wbCoord = "idle" /\ wbRounds < MaxWinRounds
    /\ PulseEvent
    /\ wbCoord' = "taking" /\ wbTaken' = 0 /\ wbRounds' = wbRounds + 1
    /\ UNCHANGED <<wbUnits, wbDone>>

WbTake ==
    /\ wbCoord = "taking" /\ wbUnits > 0
    /\ wbUnits' = wbUnits - 1 /\ wbTaken' = wbTaken + 1
    /\ wbCoord' = IF wbTaken' = Cardinality(CtrlWorkers) THEN "idle" ELSE "taking"
    /\ UNCHANGED <<wbWorker, wbOpen, wbRounds, wbDone>>

\* wait
WbWaits(w) ==
    /\ wbWorker[w] = "busy"
    /\ wbWorker' = [wbWorker EXCEPT ![w] = IF wbOpen THEN "working" ELSE "waiting"]
    /\ UNCHANGED <<wbCoord, wbTaken, wbOpen, wbUnits, wbRounds, wbDone>>

\* The round's work and done(): SemSignal, which fails at the limit.
WbDone(w) ==
    /\ wbWorker[w] = "working"
    /\ wbUnits' = IF wbUnits < UnitLimit THEN wbUnits + 1 ELSE wbUnits
    /\ wbWorker' = [wbWorker EXCEPT ![w] = "busy"]
    /\ wbDone' = [wbDone EXCEPT ![w] = @ + 1]
    /\ UNCHANGED <<wbCoord, wbTaken, wbOpen, wbRounds>>

WbNext ==
    \/ SyncTaskOneTime \/ WbTake
    \/ \E w \in CtrlWorkers : WbWaits(w) \/ WbDone(w)

WbSpec == WbInit /\ [][WbNext]_wbVars

WbTypeOK ==
    /\ wbCoord \in {"idle", "taking"} /\ wbTaken \in 0..Cardinality(CtrlWorkers)
    /\ wbWorker \in [CtrlWorkers -> {"busy", "waiting", "working"}]
    /\ wbUnits \in 0..UnitLimit /\ wbRounds \in 0..MaxWinRounds
    /\ wbDone \in [CtrlWorkers -> Nat]

\* TaskCtrlImpl_Win32.cpp:20-26: when SyncTaskOneTime returns, every worker has done
\* every round exactly once.  A worker that was not waiting when the event was pulsed
\* is never waited out: the call then does not return at all.
WinRound == wbCoord = "idle" => \A w \in CtrlWorkers : wbDone[w] = wbRounds
=============================================================================
