--------------------------- MODULE BalanceHandleWin ---------------------------
(* Net/BalanceHandle_Win32.cpp: the same list and ranges with a slim lock and *)
(* a condition variable per worker.  The operations do not test m_bStart; the *)
(* heart-beat timers and their thread are compiled out (#if 0).               *)
EXTENDS BalanceHandle

WinInit ==
    /\ bhBuild = "win32"
    /\ bhFlag = [start |-> FALSE, work |-> TRUE, heart |-> TRUE]
    /\ BhMembers

WinStart ==
    /\ bhMain = "made" /\ bhMain' = "running"
    /\ bhFlag' = [bhFlag EXCEPT !.start = TRUE]
    /\ bhWorker' = [i \in Workers |-> [at |-> "test", todo |-> <<>>]]
    /\ UNCHANGED <<bhBuild, bhLists, bhSess, bhSem, bhReaders, bhBeat, bhPc, bhDeadUse>>

\* Stop: the flags, then a wake-up for the workers that have clients only, then the wait
\* for all of them.  (The heart-beat handle waited for first was never set.)
WinStopFlags ==
    /\ bhMain = "running" /\ bhMain' = "stopping"
    /\ bhFlag' = [bhFlag EXCEPT !.work = FALSE, !.heart = FALSE]
    /\ Wake(bhRange)
    /\ UNCHANGED <<bhBuild, bhLists, bhSess, bhReaders, bhBeat, bhPc, bhDeadUse>>
WinStopClear ==
    /\ bhMain = "stopping" /\ \A i \in Workers : bhWorker[i].at = "ended"
    /\ bhMain' = "stopped" /\ bhFlag' = [bhFlag EXCEPT !.start = FALSE]
    /\ bhDead' = bhDead \cup ToSet(bhClients) /\ bhClients' = <<>>
    /\ UNCHANGED <<bhBuild, bhRange, bhFd, bhOpen, bhSem, bhReaders, bhBeat, bhPc, bhWorker, bhDeadUse>>

\* ThreadProc and run: SleepConditionVariableSRW gives the lock up and takes it again, and
\* the range is dealt with without another look.
WinThreadProc(i) ==
    /\ bhWorker[i].at = "test"
    /\ IF ~ bhFlag.work THEN Working(i, "ended", <<>>) /\ UNCHANGED bhReaders
       ELSE IF bhRange[i] = <<>>
       THEN Working(i, "sleep", <<>>) /\ UNCHANGED bhReaders
       ELSE Working(i, "deal", bhRange[i]) /\ bhReaders' = bhReaders + 1
    /\ UNCHANGED <<bhBuild, bhFlag, bhLists, bhSess, bhSem, bhBeat, bhPc, bhMain, bhDeadUse>>
WinRun(i) ==
    /\ bhWorker[i].at = "woken"
    /\ bhReaders' = bhReaders + 1 /\ Working(i, "deal", bhRange[i])
    /\ UNCHANGED <<bhBuild, bhFlag, bhLists, bhSess, bhSem, bhBeat, bhPc, bhMain, bhDeadUse>>

\* The operations, call for call those of the other build.
WinAppendNewClient(t) == AppendNewClient(t)
WinKickClient(t, fd) == CloseSock(t, fd)
WinRemoveClient(t, fd) == CloseSock(t, fd)
WinRecvClientData(t, fd) == UnderReadLock(t, fd)
WinActivateWrite(t, fd) == UnderReadLock(t, fd)
WinRecvNetPackage(t, fd) == UnderReadLock(t, fd)
WinAlloc(t, fd) == UnderReadLock(t, fd)
WinFree(t, fd) == UnderReadLock(t, fd)
WinSendNetPackage(t, fd) == UnderReadLock(t, fd)
WinDealData(i) == DealData(i)

WinNext ==
    /\ bhBuild = "win32"
    /\ \/ WinStart \/ WinStopFlags \/ WinStopClear
       \/ \E i \in Workers : WinThreadProc(i) \/ WinRun(i) \/ WinDealData(i)
       \/ \E t \in WinThreads :
             \/ WinAppendNewClient(t) \/ CloseThenErase(t) \/ Access(t)
             \/ /\ bhPc[t] = IdlePc
                /\ \E s \in 1..Len(bhFd) :
                      \/ WinKickClient(t, bhFd[s]) \/ WinRemoveClient(t, bhFd[s])
                      \/ WinRecvClientData(t, bhFd[s]) \/ WinActivateWrite(t, bhFd[s])
                      \/ WinRecvNetPackage(t, bhFd[s]) \/ WinSendNetPackage(t, bhFd[s])
                      \/ WinAlloc(t, bhFd[s]) \/ WinFree(t, bhFd[s])

BalanceSpec == (BhInit \/ WinInit) /\ [][BhNext \/ WinNext]_bhVars
=============================================================================
