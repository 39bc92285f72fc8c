---------------------------- MODULE BalanceHandle ----------------------------
(***************************************************************************)
(* The server's clients, Net/BalanceHandle: a list of sessions under a     *)
(* read-write lock, cut into one range per worker thread, the heart-beat   *)
(* timers that look for silent clients and the thread that removes them.   *)
(* Here the Linux build, and the operations both builds share;             *)
(* BalanceHandleWin adds the Windows build.  Any number of network threads *)
(* calls the operations.  A socket number is free again when it is closed, *)
(* sessions are numbered in the order of their creation.                   *)
(***************************************************************************)
EXTENDS Integers, FiniteSets, SequencesExt

CONSTANTS
    IoThreads,      \* the threads that call in
    WinThreads,     \* and those of the Windows build
    Monitor,        \* the LoseHeartBitThread
    NoThread,
    ThreadCount,    \* THREAD_COUNT
    Socks,
    MaxSessions,    \* bound: sessions made
    MaxLost         \* bound: handles in m_lostHeartbit

ASSUME BhAssumption ==
    /\ ThreadCount \in Nat \ {0} /\ MaxSessions \in Nat /\ MaxLost \in Nat
    /\ IsFiniteSet(IoThreads \cup WinThreads) /\ Monitor \notin IoThreads \cup WinThreads
    /\ NoThread # Monitor

VARIABLES
    bhBuild,        \* "linux" or "win32"
    bhFlag,         \* m_bStart, m_WorkorFlag, m_HeartBitFlag
    bhClients,      \* m_clientInfos
    bhRange,        \* m_itrs: the sessions of each worker
    bhFd,           \* the socket of each session made
    bhOpen,         \* the sockets that are open
    bhDead,         \* the sessions destroyed
    bhSem,          \* m_sem
    bhReaders,      \* m_rwLock: the readers counted in; a write section is one step
    bhHeart,        \* the holder of m_heartCtrl
    bhLost,         \* m_lostHeartbit
    bhPc,           \* where the callers and the monitor are
    bhWorker,       \* where the workers are, and the sessions still to deal with
    bhMain,         \* where the owner is
    bhDeadUse       \* who has used a session after its destruction

bhLists == <<bhClients, bhRange>>
bhSess == <<bhFd, bhOpen, bhDead>>
bhBeat == <<bhHeart, bhLost>>
bhVars == <<bhBuild, bhFlag, bhLists, bhSess, bhSem, bhReaders, bhBeat, bhPc, bhWorker,
            bhMain, bhDeadUse>>

Workers == 1..ThreadCount
Sessions == 1..MaxSessions
Callers == IoThreads \cup WinThreads \cup {Monitor}

Pc(at, s, n) == [at |-> at, s |-> s, n |-> n]
IdlePc == Pc("idle", 0, 0)
GoTo(t, pc) == bhPc' = [bhPc EXCEPT ![t] = pc]
Working(i, at, todo) == bhWorker' = [bhWorker EXCEPT ![i] = [at |-> at, todo |-> todo]]

\* The members the Linux constructor leaves as they are: the three flags.
BhMembers ==
    /\ bhClients = <<>> /\ bhRange = [i \in Workers |-> <<>>]
    /\ bhFd = <<>> /\ bhOpen = {} /\ bhDead = {}
    /\ bhSem = [i \in Workers |-> 0] /\ bhReaders = 0
    /\ bhHeart = NoThread /\ bhLost = <<>>
    /\ bhPc = [t \in Callers |-> IF t = Monitor THEN Pc("off", 0, 0) ELSE IdlePc]
    /\ bhWorker = [i \in Workers |-> [at |-> "off", todo |-> <<>>]]
    /\ bhMain = "made" /\ bhDeadUse = {}

BhInit ==
    /\ bhBuild = "linux"
    /\ bhFlag \in [start : BOOLEAN, work : BOOLEAN, heart : BOOLEAN]
    /\ BhMembers

-----------------------------------------------------------------------------
(* What the operations are made of *)

MutantInitIterator(list) ==
    LET pos == Len(list) \div ThreadCount
    IN  [i \in Workers |-> SubSeq(list, (i - 1) * pos + 1, i * pos)]

\* InitIterator: equal shares, the last worker takes the rest.
InitIterator(list) ==
    LET pos == Len(list) \div ThreadCount
    IN  [i \in Workers |-> SubSeq(list, (i - 1) * pos + 1,
                                  IF i = ThreadCount THEN Len(list) ELSE i * pos)]

\* find_if with SessionCampare: the place of the first session with this socket, and the
\* session; 0 if there is none.
FindPos(fd) == SelectInSeq(bhClients, LAMBDA s : bhFd[s] = fd)
Find(fd) == IF FindPos(fd) = 0 THEN 0 ELSE bhClients[FindPos(fd)]

\* LockWrite returns when nobody is counted in.
MutantCanWrite == TRUE
CanWrite == bhReaders = 0

\* who uses the sessions
Uses(who, sessions) == bhDeadUse' = bhDeadUse \cup (IF sessions \cap bhDead # {} THEN {who} ELSE {})

MutantWake(range) ==
    /\ bhSem' = [bhSem EXCEPT ![1] = @ + IF range[1] # <<>> THEN 1 ELSE 0]
    /\ UNCHANGED bhWorker

\* The workers that have clients are called: SemPost, or on Windows
\* WakeAllConditionVariable, which only a sleeper notices.
Wake(range) ==
    IF bhBuild = "linux"
    THEN /\ bhSem' = [i \in Workers |-> bhSem[i] + IF range[i] # <<>> THEN 1 ELSE 0]
         /\ UNCHANGED bhWorker
    ELSE /\ bhWorker' = [i \in Workers |->
               [bhWorker[i] EXCEPT !.at = IF @ = "sleep" /\ range[i] # <<>> THEN "woken" ELSE @]]
         /\ UNCHANGED bhSem

\* The list is changed, under the write lock.
Publish(list) ==
    /\ bhClients' = list /\ bhRange' = InitIterator(list)
    /\ Wake(InitIterator(list))

\* The Linux operations begin with if(!m_bStart)return.
Serving == bhBuild = "win32" \/ bhFlag.start

\* AppendNewClient: the session is made, entered in the list under the lock and used after it.
MakeSession(t) ==
    /\ bhPc[t] = IdlePc /\ Serving /\ Len(bhFd) < MaxSessions
    /\ \E fd \in Socks \ bhOpen : bhFd' = Append(bhFd, fd) /\ bhOpen' = bhOpen \cup {fd}
    /\ GoTo(t, Pc("append", Len(bhFd) + 1, 0))
    /\ UNCHANGED <<bhBuild, bhFlag, bhLists, bhDead, bhSem, bhReaders, bhBeat, bhWorker, bhMain,
                   bhDeadUse>>
EnterSession(t) ==
    /\ bhPc[t].at = "append" /\ CanWrite
    /\ Publish(Append(bhClients, bhPc[t].s))
    /\ GoTo(t, [bhPc[t] EXCEPT !.at = "entered"])
    /\ UNCHANGED <<bhBuild, bhFlag, bhSess, bhReaders, bhBeat, bhMain, bhDeadUse>>
UseSession(t) ==
    /\ bhPc[t].at = "entered"
    /\ Uses("PostRecv", {bhPc[t].s}) /\ GoTo(t, IdlePc)
    /\ UNCHANGED <<bhBuild, bhFlag, bhLists, bhSess, bhSem, bhReaders, bhBeat, bhWorker, bhMain>>
AppendNewClient(t) == MakeSession(t) \/ EnterSession(t) \/ UseSession(t)

\* The monitor goes on to the next handle, the other callers return.
After(t) == IF t = Monitor THEN Pc("kick", 0, bhPc[t].n + 1) ELSE IdlePc

\* close(hSock), before the lock
CloseSock(t, fd) ==
    /\ bhOpen' = bhOpen \ {fd}
    /\ GoTo(t, Pc("close", fd, bhPc[t].n))
    /\ UNCHANGED <<bhBuild, bhFlag, bhLists, bhFd, bhDead, bhSem, bhReaders, bhBeat, bhWorker,
                   bhMain, bhDeadUse>>

\* m_clientInfos.erase(it)
MutantErased(list, k) == list
Erased(list, k) == RemoveAt(list, k)

\* LockWrite, find_if, DestroySocketSession, erase, InitIterator, the wake-ups, UnlockWrite
Erase(t, k) ==
    /\ CanWrite
    /\ IF k = 0 THEN UNCHANGED <<bhLists, bhDead, bhSem, bhWorker>>
       ELSE /\ Publish(Erased(bhClients, k))
            /\ bhDead' = bhDead \cup {bhClients[k]}
    /\ GoTo(t, After(t))
    /\ UNCHANGED <<bhBuild, bhFlag, bhFd, bhOpen, bhReaders, bhBeat, bhMain, bhDeadUse>>

CloseThenErase(t) == bhPc[t].at = "close" /\ Erase(t, FindPos(bhPc[t].s))

\* KickClient, by the owner's program or by the monitor: the handle of any session there was.
KickClient(t, fd) == Serving /\ CloseSock(t, fd)
\* RemoveClient, by the network when a connection ends
RemoveClient(t, fd) == Serving /\ CloseSock(t, fd)

\* The operations that look a session up and use it under the read lock.
UnderReadLock(t, fd) ==
    /\ Serving
    /\ bhReaders' = bhReaders + 1
    /\ GoTo(t, Pc("reading", Find(fd), 0))
    /\ UNCHANGED <<bhBuild, bhFlag, bhLists, bhSess, bhSem, bhBeat, bhWorker, bhMain,
                   bhDeadUse>>
Access(t) ==
    /\ bhPc[t].at = "reading"
    /\ Uses("reader", {bhPc[t].s})
    /\ bhReaders' = bhReaders - 1 /\ GoTo(t, IdlePc)
    /\ UNCHANGED <<bhBuild, bhFlag, bhLists, bhSess, bhSem, bhBeat, bhWorker, bhMain>>

RecvClientData(t, fd) == UnderReadLock(t, fd)
ActivateWrite(t, fd) == UnderReadLock(t, fd)
RecvNetPackage(t, fd) == UnderReadLock(t, fd)
Alloc(t, fd) == UnderReadLock(t, fd)
Free(t, fd) == UnderReadLock(t, fd)
SendNetPackage(t, fd) == UnderReadLock(t, fd)

Operations(t) ==
    \/ AppendNewClient(t) \/ CloseThenErase(t) \/ Access(t)
    \/ /\ bhPc[t] = IdlePc
       /\ \E s \in 1..Len(bhFd) :
             \/ KickClient(t, bhFd[s]) \/ RemoveClient(t, bhFd[s])
             \/ RecvClientData(t, bhFd[s]) \/ ActivateWrite(t, bhFd[s])
             \/ RecvNetPackage(t, bhFd[s]) \/ SendNetPackage(t, bhFd[s])
             \/ Alloc(t, bhFd[s]) \/ Free(t, bhFd[s])

-----------------------------------------------------------------------------
(* The threads of the Linux build *)

\* A thread is only started, never joined: ThreadImpl::stop clears the handle.
Start ==
    /\ bhMain = "made" /\ bhMain' = "running"
    /\ IF bhFlag.start THEN UNCHANGED <<bhFlag, bhPc, bhWorker>>
       ELSE /\ bhFlag' = [bhFlag EXCEPT !.start = TRUE]
            /\ GoTo(Monitor, Pc("test", 0, 0))
            /\ bhWorker' = [i \in Workers |-> [at |-> "test", todo |-> <<>>]]
    /\ UNCHANGED <<bhBuild, bhLists, bhSess, bhSem, bhReaders, bhBeat, bhDeadUse>>

\* Stop: the flags, a unit for every worker, a wake-up for the monitor; then, without the
\* lock, every session is closed, destroyed and erased.  The ranges keep their iterators.
StopFlags ==
    /\ bhMain = "running" /\ bhFlag.start
    /\ bhMain' = "stopping" /\ bhFlag' = [start |-> FALSE, work |-> FALSE, heart |-> FALSE]
    /\ bhSem' = [i \in Workers |-> bhSem[i] + 1]
    /\ bhPc' = [bhPc EXCEPT ![Monitor].at = IF @ = "sleep" THEN "woken" ELSE @]
    /\ UNCHANGED <<bhBuild, bhLists, bhSess, bhReaders, bhBeat, bhWorker, bhDeadUse>>
StopClear ==
    /\ bhMain = "stopping" /\ bhMain' = "stopped"
    /\ bhOpen' = bhOpen \ {bhFd[s] : s \in ToSet(bhClients)}
    /\ bhDead' = bhDead \cup ToSet(bhClients) /\ bhClients' = <<>>
    /\ UNCHANGED <<bhBuild, bhFlag, bhRange, bhFd, bhSem, bhReaders, bhBeat, bhPc, bhWorker, bhDeadUse>>

\* run and the first part of runImpl: with an empty range the worker sleeps.
Run(i) ==
    /\ bhWorker[i].at = "test"
    /\ IF ~ bhFlag.work
       THEN Working(i, "ended", <<>>) /\ UNCHANGED bhReaders
       ELSE IF bhRange[i] = <<>>
       THEN Working(i, "wait", <<>>) /\ UNCHANGED bhReaders
       ELSE Working(i, "deal", bhRange[i]) /\ bhReaders' = bhReaders + 1
    /\ UNCHANGED <<bhBuild, bhFlag, bhLists, bhSess, bhSem, bhBeat, bhPc, bhMain, bhDeadUse>>
\* SemWait, LockRead: the range is dealt with as it is now, without another look.
Woken(i) ==
    /\ bhWorker[i].at = "wait" /\ bhSem[i] > 0
    /\ bhSem' = [bhSem EXCEPT ![i] = @ - 1]
    /\ bhReaders' = bhReaders + 1 /\ Working(i, "deal", bhRange[i])
    /\ UNCHANGED <<bhBuild, bhFlag, bhLists, bhSess, bhBeat, bhPc, bhMain, bhDeadUse>>
\* DealData: ParseData and PostSend of each session of the range it was called with, and
\* UnlockRead.
DealData(i) ==
    /\ bhWorker[i].at = "deal"
    /\ Uses("worker", ToSet(bhWorker[i].todo))
    /\ Working(i, "test", <<>>) /\ bhReaders' = bhReaders - 1
    /\ UNCHANGED <<bhBuild, bhFlag, bhLists, bhSess, bhSem, bhBeat, bhPc, bhMain>>

\* HeartBitHandle, from the timer thread: the silent clients of a range are noted under
\* both locks (one step: nobody else waits for m_heartCtrl with the other lock in hand).
\* The timers run from the constructor to the destructor.
HeartBitHandle(i) ==
    /\ bhHeart = NoThread /\ Len(bhLost) < MaxLost
    /\ \E m \in 0..Len(bhRange[i]) : \E late \in [1..m -> 1..Len(bhRange[i])] :
          /\ \A j, k \in 1..m : j < k => late[j] < late[k]
          /\ bhLost' = bhLost \o [k \in 1..m |-> bhFd[bhRange[i][late[k]]]]
    /\ bhPc' = [bhPc EXCEPT ![Monitor].at = IF @ = "sleep" /\ bhLost' # <<>> THEN "woken" ELSE @]
    /\ Uses("timer", ToSet(bhRange[i]))
    /\ UNCHANGED <<bhBuild, bhFlag, bhLists, bhSess, bhSem, bhReaders, bhHeart, bhWorker, bhMain>>

\* LoseHeartBitThread.  At the end of a round it releases a read lock it does not hold and
\* keeps m_heartCtrl: its next Lock waits for itself.
LoseHeartBitThread ==
    LET m == bhPc[Monitor]
    IN  \/ /\ m.at = "test" /\ ~ bhFlag.heart /\ GoTo(Monitor, Pc("ended", 0, 0))
           /\ UNCHANGED <<bhReaders, bhHeart, bhLost>>
        \/ /\ (m.at = "test" /\ bhFlag.heart) \/ m.at = "woken"
           /\ bhHeart = NoThread
           /\ IF bhLost = <<>> THEN GoTo(Monitor, Pc("sleep", 0, 0)) /\ UNCHANGED bhHeart
              ELSE GoTo(Monitor, Pc("kick", 0, 1)) /\ bhHeart' = Monitor
           /\ UNCHANGED <<bhReaders, bhLost>>
        \/ /\ m.at = "kick" /\ m.n <= Len(bhLost) /\ ~ Serving
           /\ GoTo(Monitor, After(Monitor)) /\ UNCHANGED <<bhReaders, bhHeart, bhLost>>
        \/ /\ m.at = "kick" /\ m.n > Len(bhLost)
           /\ bhLost' = <<>> /\ bhReaders' = bhReaders - 1
           /\ GoTo(Monitor, Pc("test", 0, 0)) /\ UNCHANGED bhHeart

BhNext ==
    /\ bhBuild = "linux"
    /\ \/ Start \/ StopFlags \/ StopClear
       \/ \E t \in IoThreads : Operations(t)
       \/ \E i \in Workers : Run(i) \/ Woken(i) \/ DealData(i) \/ HeartBitHandle(i)
       \/ /\ LoseHeartBitThread
          /\ UNCHANGED <<bhBuild, bhFlag, bhLists, bhSess, bhSem, bhWorker, bhMain,
                         bhDeadUse>>
       \/ CloseThenErase(Monitor)
       \/ /\ bhPc[Monitor].at = "kick" /\ bhPc[Monitor].n <= Len(bhLost)
          /\ KickClient(Monitor, bhLost[bhPc[Monitor].n])

-----------------------------------------------------------------------------
(* Properties *)

BhTypeOK ==
    /\ bhFlag \in [start : BOOLEAN, work : BOOLEAN, heart : BOOLEAN]
    /\ bhClients \in Seq(Sessions) /\ bhRange \in [Workers -> Seq(Sessions)]
    /\ bhFd \in Seq(Socks) /\ bhOpen \subseteq Socks /\ bhDead \subseteq Sessions
    /\ bhSem \in [Workers -> Nat] /\ bhReaders \in Int
    /\ bhHeart \in {Monitor, NoThread}
    /\ bhLost \in Seq(Socks)
    /\ IsInjective(bhClients) /\ (ToSet(bhClients) \cap bhDead = {})

\* InitIterator gives every client of the list to exactly one worker, in the order of the
\* list, whatever has been entered and erased; Stop alone leaves the ranges behind.
ClientsCovered ==
    bhMain # "stopped" => FlattenSeq([i \in 1..ThreadCount |-> bhRange[i]]) = bhClients

\* A worker asleep in SemWait, or on its condition variable, has no client: the wake-ups of
\* AppendNewClient, KickClient and RemoveClient leave nobody asleep over work.
SleeperHasNoClient ==
    \A i \in Workers :
        (bhWorker[i].at = "wait" /\ bhSem[i] = 0) \/ bhWorker[i].at = "sleep" => bhRange[i] = <<>>

\* The round of LoseHeartBitThread is over: it has released a lock it did not hold.
OverReleased == bhHeart = Monitor /\ bhPc[Monitor].at \in {"test", "ended"}

\* While the server runs and nobody has released a lock of others, a destroyed session is
\* used by nobody but the PostRecv that follows AppendNewClient's unlock.
DeadUseKnown ==
    bhDeadUse \subseteq {"PostRecv"} \/ bhMain = "stopped" \/ OverReleased
=============================================================================
