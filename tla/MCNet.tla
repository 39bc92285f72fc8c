-------------------------------- MODULE MCNet --------------------------------
(* The network components, one of them in each behaviour: the server's list  *)
(* of clients in both builds, the completion port server, the epoll server   *)
(* and the completion port client.                                           *)
EXTENDS BalanceHandleWin, TcpServerWin, AsyncServer, TcpClientWin, TLC

VARIABLE part           \* which one runs

MCInit ==
    /\ BhInit \/ WinInit
    /\ TsInit /\ AsInit /\ TcInit
    /\ part \in {"balance", "iocp", "epoll", "client"}
    /\ part # "balance" => WinInit

MCNext ==
    /\ \/ part = "balance" /\ (BhNext \/ WinNext) /\ UNCHANGED <<tsVars, asVars, tcVars>>
       \/ part = "iocp" /\ TsNext /\ UNCHANGED <<bhVars, asVars, tcVars>>
       \/ part = "epoll" /\ AsNext /\ UNCHANGED <<bhVars, tsVars, tcVars>>
       \/ part = "client" /\ TcNext /\ UNCHANGED <<bhVars, tsVars, asVars>>
    /\ UNCHANGED part

MCSpec == MCInit /\ [][MCNext]_<<bhVars, tsVars, asVars, tcVars, part>>

\* Sockets and pool threads are interchangeable.
MCSymmetry == Permutations(Socks) \cup Permutations(AsPool)

\* The variables of the component that runs keep their types.
NetTypeOK ==
    CASE part = "balance" -> BhTypeOK
      [] part = "iocp" -> TsTypeOK
      [] part = "epoll" -> AsTypeOK
      [] part = "client" -> TcTypeOK

\* The completion ports: no accept request of the server is lost or shares its socket
\* (WorkerThread, TcpServerImpl_Win32.cpp), and Stop of the client returns only when both
\* its threads have left their loops (TcpClientImpl_Win32.cpp).
IocpSound ==
    /\ part = "iocp" => AcceptsKept
    /\ part = "client" => StopWaits
=============================================================================
