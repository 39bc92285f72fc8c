------------------------------ MODULE TaskCtrl ------------------------------
(***************************************************************************)
(* Thread/TaskCtrlImpl_Linux.cpp: the round barrier made of a gate         *)
(* (MultiThreadSync) that lets every worker through once and a semaphore   *)
(* (SemaphoreEx) on which the coordinator collects one unit per worker.    *)
(* The coordinator calls SyncTaskOneTime; a worker loops over wait, its    *)
(* part, and done, as a TaskProcess does.                                  *)
(***************************************************************************)
EXTENDS MultiThreadSync, FiniteSets

CONSTANTS Workers, Main,
          N,            \* TaskCtrl(n)
          MaxRounds,    \* bound: SyncTaskOneTime calls
          Leaving       \* workers that may leave with DelThread and come back

\* One unit per worker; SemaphoreExImpl keeps n in an unsigned char.  A worker waits with
\* itself as the parameter.
ASSUME CtrlAssumption ==
    /\ Workers \subseteq Callers /\ Workers \subseteq Params /\ Main \notin Workers
    /\ IsFiniteSet(Workers) /\ N = Cardinality(Workers) /\ N \in 1..255
    /\ MaxRounds \in Nat

VARIABLES semCount, semNeed, semAsleep, semPosts, semPosted, semTaken,  \* the semaphore
          mainAt,       \* where the coordinator is
          workerAt,     \* where each worker is
          parts,        \* history: parts each worker has done
          rounds,       \* history: SyncTaskOneTime calls that returned
          everLeft      \* history: some worker has called DelThread

Sem == INSTANCE SemaphoreEx
         WITH Threads <- Workers \cup {Main}, NCount <- 0, NWait <- N, NPost <- 1,
              SignalArgs <- {-1}, WaitArgs <- {-1}, Width <- 256,
              MaxPosts <- MaxRounds * N,
              count <- semCount, need <- semNeed, asleep <- semAsleep, posts <- semPosts,
              posted <- semPosted, taken <- semTaken

semVars  == <<semCount, semNeed, semAsleep, semPosts, semPosted, semTaken>>
ctrlVars == <<mainAt, workerAt, parts, rounds, everLeft>>
barrierVars == <<syncVars, semVars, ctrlVars>>

CtrlTypeOK ==
    /\ SyncTypeOK /\ Sem!TypeOK
    /\ mainAt \in {"idle", "call", "wait"}
    /\ workerAt \in [Workers -> {"wait", "part", "done", "left"}]
    /\ parts \in [Workers -> Nat] /\ rounds \in Nat
    /\ everLeft \in BOOLEAN

\* TaskCtrl(n), and one AddThread per worker before the rounds begin.
CtrlStart ==
    /\ Sem!Init
    /\ mainAt = "idle" /\ workerAt = [w \in Workers |-> "wait"]
    /\ parts = [w \in Workers |-> 0] /\ rounds = 0 /\ everLeft = FALSE
CtrlInit ==
    /\ CtrlStart
    /\ gate = [p \in Params |-> 0] /\ waiting = [t \in Callers |-> {}] /\ dozing = {}
    /\ gone = FALSE /\ signals = 0 /\ passes = [p \in Params |-> 0]

-----------------------------------------------------------------------------
(* SyncTaskOneTime *)

SyncSignal ==
    /\ mainAt = "idle" /\ Signal
    /\ mainAt' = "call"
    /\ UNCHANGED <<semVars, workerAt, parts, rounds, everLeft>>

SyncSemWait ==
    /\ mainAt = "call" /\ Sem!SemWait(Main, -1)
    /\ mainAt' = "wait"
    /\ UNCHANGED <<syncVars, workerAt, parts, rounds, everLeft>>

SyncSleep ==
    /\ Sem!WaitSleep(Main) \/ Sem!Spurious(Main)
    /\ UNCHANGED <<syncVars, ctrlVars>>

SyncReturn ==
    /\ mainAt = "wait" /\ Sem!WaitTake(Main)
    /\ mainAt' = "idle"
    /\ rounds' = rounds + 1
    /\ UNCHANGED <<syncVars, workerAt, parts, everLeft>>

-----------------------------------------------------------------------------
(* A worker: wait(w), its part, done() *)

WorkerPass(w) ==
    /\ workerAt[w] = "wait" /\ WaitPass(w, w)
    /\ workerAt' = [workerAt EXCEPT ![w] = "part"]
    /\ UNCHANGED <<semVars, mainAt, parts, rounds, everLeft>>

WorkerSleep(w) ==
    /\ workerAt[w] = "wait" /\ (WaitDoze(w, w) \/ SyncSpurious(w))
    /\ UNCHANGED <<semVars, ctrlVars>>

WorkerPart(w) ==
    /\ workerAt[w] = "part"
    /\ parts' = [parts EXCEPT ![w] = @ + 1]
    /\ workerAt' = [workerAt EXCEPT ![w] = "done"]
    /\ UNCHANGED <<syncVars, semVars, mainAt, rounds, everLeft>>

WorkerDone(w) ==
    /\ workerAt[w] = "done" /\ Sem!SemSignal(w, -1)
    /\ workerAt' = [workerAt EXCEPT ![w] = "wait"]
    /\ UNCHANGED <<syncVars, mainAt, parts, rounds, everLeft>>

\* A worker outside wait() takes itself out, and may register again.
WorkerLeave(w) ==
    /\ w \in Leaving /\ workerAt[w] = "wait" /\ waiting[w] = {}
    /\ DelThread(w)
    /\ workerAt' = [workerAt EXCEPT ![w] = "left"]
    /\ everLeft' = TRUE
    /\ UNCHANGED <<semVars, mainAt, parts, rounds>>

WorkerJoin(w) ==
    /\ workerAt[w] = "left"
    /\ AddThread(w)
    /\ workerAt' = [workerAt EXCEPT ![w] = "wait"]
    /\ UNCHANGED <<semVars, mainAt, parts, rounds, everLeft>>

Coordinator == SyncSignal \/ SyncSemWait \/ SyncSleep \/ SyncReturn

Worker(w) ==
    \/ WorkerPass(w) \/ WorkerSleep(w) \/ WorkerPart(w) \/ WorkerDone(w)
    \/ WorkerLeave(w) \/ WorkerJoin(w)

CtrlNext == Coordinator \/ \E w \in Workers : Worker(w)

CtrlSpec == CtrlInit /\ [][CtrlNext]_barrierVars

\* Threads run: the coordinator finishes a call it has begun, workers keep looping.
\* Wake-ups without a signal are not counted on.
Fairness ==
    /\ WF_barrierVars(SyncSemWait) /\ WF_barrierVars(SyncReturn)
    /\ \A w \in Workers : WF_barrierVars(WorkerPass(w)) /\ WF_barrierVars(WorkerPart(w)) /\ WF_barrierVars(WorkerDone(w))

FairSpec == CtrlSpec /\ Fairness

-----------------------------------------------------------------------------
(* Properties *)

\* TaskCtrl implements the abstract round barrier.
Barrier == INSTANCE RoundBarrier
ImplementsBarrier == Barrier!Spec

\* Unless a worker has left, every round ends: SyncTaskOneTime returns.
RoundEnds == (mainAt # "idle") ~> (mainAt = "idle" \/ everLeft)
=============================================================================
