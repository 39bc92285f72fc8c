----------------------------- MODULE TcpServerWin -----------------------------
(***************************************************************************)
(* Net/TcpServerImpl_Win32.cpp: the completion port, its worker threads,   *)
(* the AcceptEx requests, and the receives and sends of the clients.  The  *)
(* clients' list (m_Manager) is the set of sockets registered with it.     *)
(* Socket numbers are not reused.  The port and Winsock are modelled from  *)
(* how the code uses them: completions come in any order of the requests   *)
(* and are taken first in first out.                                       *)
(***************************************************************************)
EXTENDS Naturals, FiniteSets, SequencesExt

CONSTANTS
    IocpThreads,    \* the worker threads
    AcceptNodes,    \* MAX_POST_ACCEPT requests
    MaxSock,        \* bound: sockets made
    MaxPort,        \* bound: completions waiting at the port
    MaxQuits        \* bound: quit packets among them

ASSUME IocpAssumption ==
    /\ IsFiniteSet(IocpThreads) /\ MaxSock \in Nat /\ MaxQuits >= Cardinality(IocpThreads)

VARIABLES
    tsMain,         \* where the owner is
    tsPort,         \* the completions queued at m_completeport
    tsWorker,       \* where each WorkerThread is, with its request
    tsNode,         \* the accept requests: posted, the socket, deleted
    tsSock,         \* the state of each socket made
    tsClients,      \* the sockets registered with m_Manager
    tsRecv, tsSend  \* the sockets with a receive or a send posted

tsVars == <<tsMain, tsPort, tsWorker, tsNode, tsSock, tsClients, tsRecv, tsSend>>
tsIo == <<tsClients, tsRecv, tsSend>>

Invalid == 0
TsAccept(n) == [op |-> "accept", n |-> n, zero |-> FALSE]
Transfer(op, s, zero) == [op |-> op, n |-> s, zero |-> zero]
TsQuit == [op |-> "quit", n |-> 0, zero |-> FALSE]

TsInit ==
    /\ tsMain = "made" /\ tsPort = <<>>
    /\ tsWorker = [w \in IocpThreads |-> [at |-> "off", n |-> 0]]
    /\ tsNode = [n \in AcceptNodes |-> [at |-> "none", sock |-> Invalid]]
    /\ tsSock = <<>> /\ tsClients = {} /\ tsRecv = {} /\ tsSend = {}

TsConnected(s) == s # Invalid /\ tsSock[s] = "connected"
Socket(state) == tsSock' = Append(tsSock, state)

\* Start, step by step.  InitializeIOCP makes the port and its threads; where a later step
\* fails the threads stay.
StartStep(from, to) == tsMain = from /\ tsMain' \in {"failed", to}

InitializeIOCP ==
    /\ StartStep("made", "port")
    /\ tsWorker' = IF tsMain' = "failed" THEN tsWorker
                   ELSE [w \in IocpThreads |-> [at |-> "get", n |-> 0]]
    /\ UNCHANGED <<tsPort, tsNode, tsSock, tsIo>>
\* InitializeSocket: the listening socket, joined to the port, bound, listening.
InitializeSocket ==
    /\ StartStep("port", "listening")
    /\ UNCHANGED <<tsPort, tsWorker, tsNode, tsSock, tsIo>>
GetAcceptExFuction ==
    /\ StartStep("listening", "posting")
    /\ UNCHANGED <<tsPort, tsWorker, tsNode, tsSock, tsIo>>

\* The next request of Start, and a request taken out of m_AsyncReqs and deleted.
GetNewIOData == CHOOSE n \in AcceptNodes : tsNode[n].at = "none"
RemoveIOData(n) == tsNode' = [tsNode EXCEPT ![n] = [at |-> "deleted", sock |-> Invalid]]

\* PostAcceptEx: a new socket and AcceptEx on it.  Without a socket the request is left as
\* it is; when AcceptEx fails the socket is closed and the request deleted (RemoveIOData).
PostAcceptEx(n) ==
    \/ /\ tsNode' = [tsNode EXCEPT ![n] = [at |-> "idle", sock |-> Invalid]]
       /\ UNCHANGED tsSock
    \/ /\ Len(tsSock) < MaxSock /\ Socket("made")
       /\ tsNode' = [tsNode EXCEPT ![n] = [at |-> "posted", sock |-> Len(tsSock) + 1]]
    \/ /\ Len(tsSock) < MaxSock /\ Socket("closed") /\ RemoveIOData(n)

\* The accept requests are posted one by one; then m_bStart is set.
PostAccepts ==
    /\ tsMain = "posting"
    /\ IF \E n \in AcceptNodes : tsNode[n].at = "none"
       THEN /\ PostAcceptEx(GetNewIOData)
            /\ UNCHANGED tsMain
       ELSE tsMain' = "started" /\ UNCHANGED <<tsNode, tsSock>>
    /\ UNCHANGED <<tsPort, tsWorker, tsIo>>

\* Winsock: a client connects, data or the end of a stream comes, a send is done.
TsCompletion ==
    /\ \/ \E n \in AcceptNodes :
             /\ tsNode[n].at = "posted"
             /\ tsNode' = [tsNode EXCEPT ![n].at = "queued"]
             /\ tsSock' = [tsSock EXCEPT ![tsNode[n].sock] = "connected"]
             /\ tsPort' = Append(tsPort, TsAccept(n))
             /\ UNCHANGED <<tsRecv, tsSend>>
       \/ \E s \in tsRecv, zero \in BOOLEAN :
             /\ tsRecv' = tsRecv \ {s}
             /\ tsPort' = Append(tsPort, Transfer("recv", s, zero))
             /\ UNCHANGED <<tsNode, tsSock, tsSend>>
       \/ \E s \in tsRecv :                     \* error 64: the peer is gone
             /\ tsRecv' = tsRecv \ {s}
             /\ tsPort' = Append(tsPort, Transfer("error", s, FALSE))
             /\ UNCHANGED <<tsNode, tsSock, tsSend>>
       \/ \E s \in tsSend :
             /\ tsSend' = tsSend \ {s}
             /\ tsPort' = Append(tsPort, Transfer("send", s, FALSE))
             /\ UNCHANGED <<tsNode, tsSock, tsRecv>>
    /\ UNCHANGED <<tsMain, tsWorker, tsClients>>

TsGoes(w, at, n) == tsWorker' = [tsWorker EXCEPT ![w] = [at |-> at, n |-> n]]

\* m_Manager.RemoveClient: the socket is closed with what is posted on it, the client erased.
TsRemoveClient(s) ==
    /\ tsSock' = [tsSock EXCEPT ![s] = "closed"]
    /\ tsClients' = tsClients \ {s} /\ tsRecv' = tsRecv \ {s} /\ tsSend' = tsSend \ {s}

\* Joins the socket to the port: what it may answer.
DoAcceptEx(s) == {FALSE, s # Invalid}

\* Bug: the request is not posted again.
MutantAcceptPosted(w) ==
    /\ tsWorker[w].at = "accept"
    /\ TsGoes(w, "get", 0) /\ tsClients' = tsClients \cup {tsNode[tsWorker[w].n].sock}
    /\ UNCHANGED <<tsMain, tsPort, tsNode, tsSock, tsRecv, tsSend>>

\* The accept branch takes the request as PostAcceptEx has left it: DoAcceptEx joins
\* acceptsocket, by now the new socket, to the port and AppendNewClient registers it.  A
\* socket that is not connected refuses the receive.
AcceptPosted(w) ==
    LET n == tsWorker[w].n
        s == tsNode[n].sock
    IN  \/ /\ tsWorker[w].at = "accept"
           /\ PostAcceptEx(n) /\ TsGoes(w, "append", n)
           /\ UNCHANGED <<tsMain, tsPort, tsIo>>
        \/ /\ tsWorker[w].at = "append"
           /\ TsGoes(w, "get", 0)
           /\ \E joined \in DoAcceptEx(s) :
                 /\ tsClients' = IF joined THEN tsClients \cup {s} ELSE tsClients
                 /\ tsRecv' = IF joined /\ TsConnected(s) THEN tsRecv \cup {s} ELSE tsRecv
           /\ UNCHANGED tsSend
           /\ UNCHANGED <<tsMain, tsPort, tsNode, tsSock>>

\* What a worker does with a completion: an error 64 or an empty transfer ends the client,
\* the quit packet ends the thread, the data of a receive and the end of a send go to the
\* session.
TsTaken(w, c) ==
    CASE c.op = "quit" -> TsGoes(w, "ended", 0) /\ UNCHANGED <<tsNode, tsSock, tsIo>>
      [] c.op = "error" \/ c.zero -> TsRemoveClient(c.n) /\ TsGoes(w, "get", 0) /\ UNCHANGED tsNode
      [] c.op = "accept" -> /\ TsGoes(w, "accept", c.n)
                            /\ tsNode' = [tsNode EXCEPT ![c.n].at = "taken"]
                            /\ UNCHANGED <<tsSock, tsIo>>
      [] OTHER -> TsGoes(w, "get", 0) /\ UNCHANGED <<tsNode, tsSock, tsIo>>

WorkerThread(w) ==
    \/ /\ tsWorker[w].at = "get" /\ tsPort # <<>>
       /\ TsTaken(w, Head(tsPort)) /\ tsPort' = Tail(tsPort)
       /\ UNCHANGED tsMain
    \/ AcceptPosted(w)

\* PostRecvReq and PostSendReq, when the session asks for them.
TsPostRecvReq(s) ==
    /\ s \in tsClients /\ s \notin tsRecv /\ TsConnected(s)
    /\ tsRecv' = tsRecv \cup {s}
    /\ UNCHANGED <<tsMain, tsPort, tsWorker, tsNode, tsSock, tsClients, tsSend>>
TsPostSendReq(s) ==
    /\ s \in tsClients /\ s \notin tsSend /\ TsConnected(s)
    /\ tsSend' = tsSend \cup {s}
    /\ UNCHANGED <<tsMain, tsPort, tsWorker, tsNode, tsSock, tsClients, tsRecv>>
\* KickClient
TsKickClient(s) ==
    /\ s \in tsClients /\ TsRemoveClient(s)
    /\ UNCHANGED <<tsMain, tsPort, tsWorker, tsNode>>

\* Stop, also after a Start that failed: a quit packet for each thread, and one more
\* whenever a thread has not ended in 100 ms; then m_Manager.Stop and the handles are closed.
TsMade == {w \in IocpThreads : tsWorker[w].at # "off"}
TsStop ==
    /\ \/ /\ tsMain \in {"started", "failed"} /\ tsMain' = "stopping"
          /\ tsPort' = tsPort \o [i \in 1..Cardinality(TsMade) |-> TsQuit]
          /\ UNCHANGED tsIo
       \/ /\ tsMain = "stopping" /\ \E w \in TsMade : tsWorker[w].at # "ended"
          /\ Len(SelectSeq(tsPort, LAMBDA c : c = TsQuit)) < MaxQuits
          /\ tsPort' = Append(tsPort, TsQuit)
          /\ UNCHANGED <<tsMain, tsIo>>
       \/ /\ tsMain = "stopping" /\ \A w \in TsMade : tsWorker[w].at = "ended"
          /\ tsMain' = "stopped" /\ tsPort' = <<>>
          /\ tsClients' = {} /\ UNCHANGED <<tsRecv, tsSend>>
    /\ UNCHANGED <<tsWorker, tsNode, tsSock>>

TsNext ==
    \/ InitializeIOCP \/ InitializeSocket \/ GetAcceptExFuction \/ PostAccepts \/ TsStop
    \/ tsMain # "stopped" /\ Len(tsPort) < MaxPort /\ TsCompletion
    \/ \E w \in IocpThreads : WorkerThread(w)
    \/ tsMain # "stopped" /\ \E s \in tsClients : TsPostRecvReq(s) \/ TsPostSendReq(s) \/ TsKickClient(s)

TsSpec == TsInit /\ [][TsNext]_tsVars

-----------------------------------------------------------------------------
(* Properties *)

TsTypeOK ==
    /\ tsNode \in [AcceptNodes -> [at : {"none", "idle", "posted", "queued", "taken", "deleted"},
                                   sock : 0..MaxSock]]
    /\ tsSock \in Seq({"made", "connected", "closed"})
    /\ tsClients \cup tsRecv \cup tsSend \subseteq 1..Len(tsSock)

\* While the threads run no accept request is lost: it is posted, queued, with exactly one
\* worker, or given up because the socket or AcceptEx failed; so the server goes on
\* accepting.  And no two requests share a socket.
AcceptsKept ==
    /\ \A n \in AcceptNodes :
         tsMain # "stopped" =>
           /\ tsNode[n].at = "queued" <=> TsAccept(n) \in ToSet(tsPort)
           /\ tsNode[n].at = "taken" => \E w \in IocpThreads : tsWorker[w] = [at |-> "accept", n |-> n]
    /\ \A n, m \in AcceptNodes :
         n # m /\ tsNode[n].sock = tsNode[m].sock => tsNode[n].sock = Invalid

=============================================================================
