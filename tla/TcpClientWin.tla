----------------------------- MODULE TcpClientWin -----------------------------
(***************************************************************************)
(* Net/TcpClientImpl_Win32.cpp: a client with a thread at the completion   *)
(* port (1), a thread that parses and sends every 30 ms (2), a heart-beat  *)
(* timer, and Stop, which ends them.  The session is the queue of packages *)
(* it has still to send.  The first receive is posted by nobody, so the    *)
(* completions are those of the connection and of sends.                   *)
(***************************************************************************)
EXTENDS Naturals, Sequences

CONSTANTS MaxOut, MaxTcPort     \* bounds: packages waiting, completions at the port

VARIABLES
    tcMain,     \* where the owner is
    tcFlag,     \* m_flag
    tcTh,       \* m_th[i] is not NULL
    tcAt,       \* where the threads are
    tcPort,     \* completions at m_hIocp
    tcTimer,    \* m_hHeartBit exists
    tcOut,      \* the session's packages
    tcWire      \* the kinds of packages posted to the socket

tcVars == <<tcMain, tcFlag, tcTh, tcAt, tcPort, tcTimer, tcOut, tcWire>>

TcInit ==
    /\ tcMain = "made" /\ tcFlag = TRUE /\ tcTh = [i \in 1..2 |-> FALSE]
    /\ tcAt = [i \in 1..2 |-> "off"] /\ tcPort = <<>> /\ tcTimer = FALSE
    /\ tcOut = <<>> /\ tcWire = {}

\* Start: FALSE from any of its calls before the threads, or from the timer after them,
\* which leaves the threads running and m_bStart unset.
TcStart ==
    /\ tcMain = "made"
    /\ \/ tcMain' = "failed" /\ UNCHANGED <<tcTh, tcAt, tcPort, tcTimer>>
       \/ /\ tcMain' \in {"failed", "started"} /\ tcTimer' = (tcMain' = "started")
          /\ tcTh' = [i \in 1..2 |-> TRUE] /\ tcAt' = [i \in 1..2 |-> "loop"]
          /\ tcPort' = <<"connect">>
    /\ UNCHANGED <<tcFlag, tcOut, tcWire>>

Sends(package) == Len(tcOut) < MaxOut /\ tcOut' = Append(tcOut, package)

\* SendNetPackage by the program, TimerRoutine with a heart beat.
TcSendNetPackage ==
    /\ tcMain = "started" /\ Sends("data")
    /\ UNCHANGED <<tcMain, tcFlag, tcTh, tcAt, tcPort, tcTimer, tcWire>>
TimerRoutine ==
    /\ tcTimer /\ Sends("beat")
    /\ UNCHANGED <<tcMain, tcFlag, tcTh, tcAt, tcPort, tcTimer, tcWire>>

\* Leaving its loop a thread clears its handle, then returns.
Leaves(i) == tcTh' = [tcTh EXCEPT ![i] = FALSE] /\ tcAt' = [tcAt EXCEPT ![i] = "left"]
Returns(i) ==
    /\ tcAt[i] = "left" /\ tcAt' = [tcAt EXCEPT ![i] = "ended"]
    /\ UNCHANGED <<tcMain, tcFlag, tcTh, tcPort, tcTimer, tcOut, tcWire>>

\* threadWorker: ended by the flag, by a failure of the port (an operation that was
\* aborted) and by the quit packet.
threadWorker ==
    /\ tcAt[1] = "loop"
    /\ \/ ~ tcFlag /\ Leaves(1) /\ UNCHANGED tcPort
       \/ /\ tcPort # <<>> /\ tcPort' = Tail(tcPort)
          /\ IF Head(tcPort) \in {"quit", "error"} THEN Leaves(1) ELSE UNCHANGED <<tcTh, tcAt>>
    /\ UNCHANGED <<tcMain, tcFlag, tcTimer, tcOut, tcWire>>

\* run: ParseData, PostSend
TcRun ==
    /\ tcAt[2] = "loop"
    /\ \/ ~ tcFlag /\ Leaves(2) /\ UNCHANGED <<tcPort, tcOut, tcWire>>
       \/ /\ tcFlag /\ tcOut # <<>> /\ Len(tcPort) < MaxTcPort
          /\ tcWire' = tcWire \cup {Head(tcOut)} /\ tcOut' = Tail(tcOut)
          /\ tcPort' \in {Append(tcPort, "send"), Append(tcPort, "error")}
          /\ UNCHANGED <<tcTh, tcAt>>
    /\ UNCHANGED <<tcMain, tcFlag, tcTimer>>

\* Stop: the close notice is queued (DisconnServer), the timer deleted, the flag cleared and
\* the quit packet posted; then each thread in turn is waited for, 100 ms at a time with
\* another quit packet, until it has ended or its handle is NULL.
DisconnServer ==
    /\ tcMain = "started" /\ tcMain' = "noticed" /\ tcOut' = Append(tcOut, "close")
    /\ UNCHANGED <<tcFlag, tcTh, tcAt, tcPort, tcTimer, tcWire>>
StopFlag ==
    /\ tcMain = "noticed" /\ tcMain' = "join1"
    /\ tcFlag' = FALSE /\ tcTimer' = FALSE /\ tcPort' = Append(tcPort, "quit")
    /\ UNCHANGED <<tcTh, tcAt, tcOut, tcWire>>
MutantJoin(i, next) ==
    /\ tcMain' = next /\ tcTh' = [tcTh EXCEPT ![i] = FALSE] /\ UNCHANGED tcPort
Join(i, next) ==
    \/ ~ tcTh[i] /\ tcMain' = next /\ UNCHANGED <<tcTh, tcPort>>
    \/ tcAt[i] = "ended" /\ tcMain' = next /\ tcTh' = [tcTh EXCEPT ![i] = FALSE] /\ UNCHANGED tcPort
    \/ /\ tcTh[i] /\ tcAt[i] # "ended" /\ Len(tcPort) < MaxTcPort
       /\ tcPort' = Append(tcPort, "quit") /\ UNCHANGED <<tcMain, tcTh>>
StopJoins ==
    /\ \/ tcMain = "join1" /\ Join(1, "join2")
       \/ tcMain = "join2" /\ Join(2, "stopped")
    /\ UNCHANGED <<tcFlag, tcAt, tcTimer, tcOut, tcWire>>

TcNext ==
    \/ TcStart \/ TcSendNetPackage \/ TimerRoutine \/ threadWorker \/ TcRun
    \/ DisconnServer \/ StopFlag \/ StopJoins
    \/ \E i \in 1..2 : Returns(i)

TcSpec == TcInit /\ [][TcNext]_tcVars

-----------------------------------------------------------------------------
(* Properties *)

TcTypeOK ==
    /\ tcTh \in [1..2 -> BOOLEAN] /\ tcAt \in [1..2 -> {"off", "loop", "left", "ended"}]
    /\ tcWire \subseteq {"data", "beat", "close"}

\* When Stop returns, both threads have left their loops, whatever ended them and whatever
\* the handle was when Stop looked: nobody uses the port or the session any more.
StopWaits == tcMain = "stopped" => \A i \in 1..2 : tcAt[i] \in {"left", "ended"}

=============================================================================
