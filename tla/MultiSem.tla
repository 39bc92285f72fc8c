------------------------------ MODULE MultiSem ------------------------------
(***************************************************************************)
(* The rounds of misc/MultiSem.c: a master process collects one message    *)
(* per round from every station process.  All of them meet on one System V *)
(* semaphore set: M (end of the round), C (its beginning) and one          *)
(* semaphore per station.  The code has two stations, A and B, and four    *)
(* rounds.  SEM_UNDO has nothing to undo: every process leaves a round     *)
(* with a balance of zero on each semaphore.                               *)
(***************************************************************************)
EXTENDS Integers, Sequences, FiniteSets

CONSTANTS
    Stations,
    Boss,           \* the master process
    Loops           \* rounds: 4 in the code

ASSUME StationAssumption ==
    /\ IsFiniteSet(Stations) /\ Stations \cap {Boss, "M", "C"} = {} /\ Loops \in Nat \ {0}

VARIABLES
    stSem,          \* the values of the semaphores
    stSet,          \* the set and the queue have not been removed
    stQueue,        \* messages sent and not received
    stAt, stLoop,   \* where each process is, and in which round
    stGot           \* what the master has received in this round

stVars == <<stSem, stSet, stQueue, stAt, stLoop, stGot>>

Semaphores == Stations \cup {"M", "C"}

StInit ==
    /\ stSem = [s \in Semaphores |-> IF s \in Stations THEN 2 ELSE Cardinality(Stations)]
    /\ stSet = TRUE /\ stQueue = <<>> /\ stGot = <<>>
    /\ stAt = [p \in Stations \cup {Boss} |-> "begin"]
    /\ stLoop = [p \in Stations \cup {Boss} |-> 1]

\* semop: all the operations at once, or the caller sleeps; 0 waits for the value 0.
\* Once the set is removed it returns an error, which nobody looks at.
semop(ops) ==
    IF stSet
    THEN /\ \A s \in DOMAIN ops : IF ops[s] = 0 THEN stSem[s] = 0 ELSE stSem[s] + ops[s] >= 0
         /\ stSem' = [s \in Semaphores |-> stSem[s] + IF s \in DOMAIN ops THEN ops[s] ELSE 0]
    ELSE UNCHANGED stSem

Goes(p, from, to) == stAt[p] = from /\ stAt' = [stAt EXCEPT ![p] = to]

\* Step 1: the station is ready.
StationReady(i) ==
    /\ Goes(i, "begin", "ready")
    /\ semop([s \in {i, "C"} |-> -1])
    /\ UNCHANGED <<stSet, stQueue, stLoop, stGot>>

\* Step 3: it waits for the master's start.
StationStart(i) ==
    /\ Goes(i, "ready", "working")
    /\ semop([s \in {i, "C"} |-> IF s = "C" THEN 1 ELSE 0])
    /\ UNCHANGED <<stSet, stQueue, stLoop, stGot>>

StationSend(i) ==
    /\ Goes(i, "working", "sent")
    /\ stQueue' = IF stSet THEN Append(stQueue, [no |-> i, data |-> stLoop[i]]) ELSE stQueue
    /\ UNCHANGED <<stSem, stSet, stLoop, stGot>>

\* Step 4: its part is done.
StationDone(i) ==
    /\ Goes(i, "sent", "done")
    /\ semop([s \in {"M"} |-> -1])
    /\ UNCHANGED <<stSet, stQueue, stLoop, stGot>>

\* Step 7: it waits for the master's end of the round.
StationEnd(i) ==
    /\ Goes(i, "done", "ended")
    /\ semop([s \in {i, "M"} |-> IF s = "M" THEN 1 ELSE -1])
    /\ UNCHANGED <<stSet, stQueue, stLoop, stGot>>

\* Step 8: its semaphore gets its first value back, and the next round begins.
StationReset(i) ==
    /\ Goes(i, "ended", IF stLoop[i] = Loops THEN "exit" ELSE "begin")
    /\ semop([s \in {i} |-> 2])
    /\ stLoop' = [stLoop EXCEPT ![i] = IF @ = Loops THEN @ ELSE @ + 1]
    /\ UNCHANGED <<stSet, stQueue, stGot>>

\* Bug: the start does not wait for C to be zero.
MutantMasterOps == [s \in Stations |-> -1]
\* The operations of step 2: all stations ready, each told to start.
MasterOps == [s \in Stations \cup {"C"} |-> IF s = "C" THEN 0 ELSE -1]

\* Step 2
MasterStart ==
    /\ Goes(Boss, "begin", "started")
    /\ semop(MasterOps)
    /\ UNCHANGED <<stSet, stQueue, stLoop, stGot>>

\* Step 5: all stations are done.
MasterWait ==
    /\ Goes(Boss, "started", "receiving")
    /\ semop([s \in {"M"} |-> 0])
    /\ UNCHANGED <<stSet, stQueue, stLoop, stGot>>

\* msgrcv of one message per station.
MasterReceive ==
    /\ stQueue # <<>>
    /\ Goes(Boss, "receiving", IF Len(stGot) + 1 = Cardinality(Stations) THEN "full" ELSE "receiving")
    /\ stGot' = Append(stGot, Head(stQueue)) /\ stQueue' = Tail(stQueue)
    /\ UNCHANGED <<stSem, stSet, stLoop>>

\* Step 6: the round ends.
MasterEnd ==
    /\ Goes(Boss, "full", IF stLoop[Boss] = Loops THEN "over" ELSE "begin")
    /\ semop([s \in Stations |-> 1])
    /\ stLoop' = [stLoop EXCEPT ![Boss] = IF @ = Loops THEN @ ELSE @ + 1]
    /\ stGot' = <<>>
    /\ UNCHANGED <<stSet, stQueue>>

\* IPC_RMID of both, which wakes and fails the stations that sleep in semop.
MasterRemove ==
    /\ Goes(Boss, "over", "exit")
    /\ stSet' = FALSE /\ stQueue' = <<>>
    /\ UNCHANGED <<stSem, stLoop, stGot>>

Station(i) ==
    \/ StationReady(i) \/ StationStart(i) \/ StationSend(i)
    \/ StationDone(i) \/ StationEnd(i) \/ StationReset(i)

Master == MasterStart \/ MasterWait \/ MasterReceive \/ MasterEnd \/ MasterRemove

StNext == Master \/ \E i \in Stations : Station(i)

StSpec == StInit /\ [][StNext]_stVars

\* misc/MultiSem.c:2 "the master must have the data of all stations of the same moment
\* before it starts again": what it received is one message of this round from each.
SameRound ==
    stAt[Boss] = "full" =>
        {stGot[k] : k \in DOMAIN stGot} = [no : Stations, data : {stLoop[Boss]}]

\* misc/MultiSem.c:3 "no station may start again before another one": a station works in
\* a round only when every other station has ended the round before.
StartTogether ==
    \A i, j \in Stations :
        stAt[i] \in {"working", "sent", "done"} =>
            stLoop[j] >= stLoop[i] \/ stAt[j] = "exit"

\* The processes do not all sleep on each other: until all have left, one of them moves.
SomeoneMoves == (\E p \in DOMAIN stAt : stAt[p] # "exit") => ENABLED StNext
=============================================================================
