------------------------------ MODULE MCSystem ------------------------------
(* The components around the core, one of them in each behaviour: a database *)
(* call, the pool of connections, the tree of classes, the signal-driven     *)
(* timers, the clock values, and the Windows builds of the pool, the barrier *)
(* and the timers, and its services.                                         *)
EXTENDS DBAccess, DBConnPool, TreeRelation, MsTimerMgr, TimerQueueWin,
        ThreadPoolWin, TaskCtrlWin, TimeInfo, WinService

VARIABLE part           \* which one runs

\* A base class, and classes down to four levels below it.
MCParents == [a |-> "base", b |-> "a", c |-> "b", d |-> "a", e |-> "c"]

\* Ends of years and months, leap days, noon; steps of a second to a century's days.
MCStarts == {<<2000, 1, 1, 0, 0, 0>>, <<2003, 12, 31, 23, 59, 59>>, <<2004, 2, 29, 12, 0, 0>>,
             <<2005, 3, 31, 23, 30, 0>>, <<2019, 1, 31, 6, 7, 8>>, <<2063, 12, 31, 23, 59, 59>>}
MCTexts == {<<2004, 2, 29, 1, 2, 3>>, <<2005, 2, 29, 1, 2, 3>>, <<2005, 13, 1, 0, 0, 0>>,
            <<1999, 12, 0, 23, 59, 59>>, <<2010, 6, 30, 24, 0, 0>>}
MCSeconds == {1, 3600, 86399, 31622400}
MCDays == {-31, -1, 1, 29}
MCMonths == {-3, -1, 1, 3, 11}
MCYears == {-1, 1, 3}

MCInit ==
    /\ AcInit /\ CpInit /\ TrInit /\ MsInit /\ TqInit /\ WpInit /\ WbInit /\ TiInit /\ SvInit
    /\ part \in {"call", "conns", "tree", "signal", "queue", "winpool", "winctrl", "clock", "service"}
    /\ part # "call" => acDriver = "mysql"
    /\ part # "conns" => cpDriver = "mysql"
    /\ part # "tree" => trAsserts
    /\ part # "clock" => ti = FromInts(<<2000, 1, 1, 0, 0, 0>>)

Call == part = "call" /\ AcNext
        /\ UNCHANGED <<cpVars, trVars, msVars, tqVars, wpVars, wbVars, tiVars, svVars, part>>
Conns == part = "conns" /\ CpNext
        /\ UNCHANGED <<acVars, trVars, msVars, tqVars, wpVars, wbVars, tiVars, svVars, part>>
Tree == part = "tree" /\ TrNext
        /\ UNCHANGED <<acVars, cpVars, msVars, tqVars, wpVars, wbVars, tiVars, svVars, part>>
Signal == part = "signal" /\ MsNext
        /\ UNCHANGED <<acVars, cpVars, trVars, tqVars, wpVars, wbVars, tiVars, svVars, part>>
Queue == part = "queue" /\ TqNext
        /\ UNCHANGED <<acVars, cpVars, trVars, msVars, wpVars, wbVars, tiVars, svVars, part>>
WinPool == part = "winpool" /\ WpNext
        /\ UNCHANGED <<acVars, cpVars, trVars, msVars, tqVars, wbVars, tiVars, svVars, part>>
WinCtrl == part = "winctrl" /\ WbNext
        /\ UNCHANGED <<acVars, cpVars, trVars, msVars, tqVars, wpVars, tiVars, svVars, part>>
Clock == part = "clock" /\ TiNext
        /\ UNCHANGED <<acVars, cpVars, trVars, msVars, tqVars, wpVars, wbVars, svVars, part>>

WinServices == part = "service" /\ SvNext
        /\ UNCHANGED <<acVars, cpVars, trVars, msVars, tqVars, wpVars, wbVars, tiVars, part>>

MCNext == Call \/ Conns \/ Tree \/ Signal \/ Queue \/ WinPool \/ WinCtrl \/ Clock
          \/ WinServices

MCSpec == MCInit /\ [][MCNext]_<<acVars, cpVars, trVars, msVars, tqVars, wpVars, wbVars, tiVars,
                                  svVars, part>>

\* Clients and threads of the pool are interchangeable.
MCSymmetry == Permutations(WinClients) \cup Permutations(WinWorkers)

\* The variables of the component that runs keep their types.
SystemTypeOK ==
    CASE part = "call" -> AcTypeOK
      [] part = "conns" -> CpTypeOK
      [] part = "tree" -> TrTypeOK
      [] part = "signal" -> MsTypeOK
      [] part = "queue" -> TqTypeOK
      [] part = "winpool" -> WpTypeOK
      [] part = "winctrl" -> WbTypeOK
      [] part = "clock" -> TiTypeOK
      [] part = "service" -> SvTypeOK

\* Both halves of a driver give back what the client library handed out: the statements
\* of a call (MysqlAccess.cpp) and the handles of the connections (DBConnPool.cpp).
DatabaseClosed ==
    /\ part = "call" => StatementsClosed
    /\ part = "conns" => ConnsClosed

\* The values the rest is built on: a lineage is as long as its depth (TreeRelation.h),
\* and the arithmetic on packed moments is exact (TimeInfo.cpp).
ValuesSound ==
    /\ part = "tree" => LineageIsDepth
    /\ part = "clock" => ClockSound

\* The timer managers that are not the default one: a due timer is announced
\* (MsTimerMgrImpl_Linux.cpp), a deleted one is not started (TimerMgrImpl_Win32.cpp).
TimersSound ==
    /\ part = "signal" => MsAnnounced
    /\ part = "queue" => NoLateStart

\* The Windows builds: permits match jobs (ThreadPoolImpl_Win32.cpp), rounds match the
\* workers (TaskCtrlImpl_Win32.cpp), a service's table, reports and handles are in order
\* (Service_Win32.cpp).
WinSound ==
    /\ part = "winpool" => WinPermits
    /\ part = "winctrl" => WinRound
    /\ part = "service" => TableSound /\ ReportedLast /\ HandlesGiven
=============================================================================
