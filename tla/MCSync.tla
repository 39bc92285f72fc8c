------------------------------- MODULE MCSync -------------------------------
(* The round barrier, and its two parts on their own, one of them in each    *)
(* behaviour: SemaphoreEx with several waiting threads, the gate of          *)
(* MultiThreadSync with threads that share a parameter, TaskCtrl, and the    *)
(* rounds of processes on a System V semaphore set (MultiSem).               *)
EXTENDS SemaphoreEx, TaskCtrl, MultiSem

VARIABLE part           \* which one runs

MCDefault == {-1}       \* SemSignal() and SemWait() without argument

Spare == CHOOSE p \in Params : TRUE      \* never registered when the gate runs on its own

MCInit ==
    /\ Init /\ StInit /\ part \in {"semaphore", "gate", "barrier", "stations"}
    /\ IF part = "gate" THEN SyncInit /\ CtrlStart ELSE CtrlInit

MCNext ==
    /\ \/ part = "semaphore" /\ Next /\ UNCHANGED <<barrierVars, stVars>>
       \/ part = "gate" /\ SyncNext /\ gate'[Spare] = -1
          /\ UNCHANGED <<vars, semVars, ctrlVars, stVars>>
       \/ part = "barrier" /\ CtrlNext /\ UNCHANGED <<vars, stVars>>
       \/ part = "stations" /\ StNext /\ UNCHANGED <<vars, barrierVars>>
    /\ UNCHANGED part

MCSpec == MCInit /\ [][MCNext]_<<vars, barrierVars, stVars, part>> /\ Fairness

\* The group semaphore (SemaphoreExImpl_Linux.cpp) is not overdrawn, and no thread sleeps
\* while its units are there and no wake-up is on its way; the master of MultiSem.c gets
\* one message per station of one round, and no station starts a round before the others.
UnitsSound ==
    /\ NotOverdrawn /\ NoLostWakeup
    /\ part = "stations" => SameRound /\ StartTogether

\* Every round of the barrier ends, and the processes of MultiSem.c, which wait for each
\* other in every step, never all sleep.
AllProceed == RoundEnds /\ [](part = "stations" => SomeoneMoves)
=============================================================================
