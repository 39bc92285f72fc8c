----------------------------- MODULE AsyncServer -----------------------------
(***************************************************************************)
(* The asynchronous sockets of the Linux server (Net/AsyncServer,          *)
(* AsyncNetDefine.h, AsyncNetServerImpl_Linux) and what TcpServerImpl_Linux *)
(* does with them: requests are queued by socket, epoll events become      *)
(* tasks of a thread pool, a task takes a request of its socket and        *)
(* serves it, and what is done is put into a list that the server's        *)
(* threads take from.  TcpServerImpl makes those threads and never starts  *)
(* them (nothing calls start() of m_th), so a thread of AsyncServer's user *)
(* has to run EpollThread's loop; ThreadStarts is that user's step.  A     *)
(* buffer is Cap units long.  A socket number is free again when it is     *)
(* closed; connections are numbered.  A server is started once.            *)
(* External: epoll (edge-triggered: an edge is reported once, with all     *)
(* that is ready then), the sockets, the thread pool (it runs the tasks in *)
(* any order and drops a write task that is already waiting).              *)
(***************************************************************************)
EXTENDS Integers, FiniteSets, SequencesExt, Maps

CONSTANTS
    AsFds, AsPool, AsThreads,   \* socket numbers, pool threads, EpollThreads
    Cap,                        \* nCount of a request
    MaxConn, MaxReq,            \* bounds: connections, requests
    MaxTasks                    \* bound: tasks waiting in the pool

ASSUME AsAssumption == Cap \in Nat \ {0} /\ MaxConn \in Nat

VARIABLES
    asRun,      \* m_bRun
    asCrash,    \* the process is gone
    asData,     \* m_data
    asRq, asWq, \* m_ReadQue, m_WriteQue: the requests of each socket that is entered
    asTasks,    \* the tasks of m_thPool
    asPool,     \* where its threads are
    asLoop,     \* where HandleThread is, and whether m_serSocket listens
    asDeal,     \* where the EpollThreads are
    asKnown,    \* the sockets m_Manager has a client for
    asReq,      \* requests made
    asConn,     \* kernel: the connection of each open socket, 0 if closed
    asConns,    \* kernel: connections so far, of which asBacklog wait to be accepted
    asBacklog,
    asRx, asFin,\* kernel: units that can be read, the end of the stream
    asFull,     \* kernel: sockets that did not take all that was sent
    asEdge      \* kernel: events not reported yet

asKernel == <<asConn, asConns, asBacklog, asRx, asFin, asFull, asEdge>>
asQueues == <<asRq, asWq>>
asVars == <<asRun, asCrash, asData, asQueues, asTasks, asPool, asLoop, asDeal, asKnown, asReq,
            asKernel>>

Listener == 0                   \* m_serSocket
NoNode == [id |-> 0, valid |-> FALSE]
FreeThread == [at |-> "free", fd |-> Listener, node |-> NoNode, got |-> 0]
InLoop(at, fd) == asLoop' = [asLoop EXCEPT !.at = at, !.fd = fd]
At(w, rec) == asPool' = [asPool EXCEPT ![w] = rec]

AsInit ==
    /\ asRun = FALSE /\ asCrash = FALSE /\ asData = <<>> /\ asRq = EmptyMap /\ asWq = EmptyMap
    /\ asTasks = <<>> /\ asPool = [w \in AsPool |-> FreeThread]
    /\ asLoop = [at |-> "made", fd |-> Listener, hears |-> FALSE]
    /\ asDeal = [c \in AsThreads |-> [at |-> "off"]] /\ asKnown = {} /\ asReq = 0
    /\ asConn = [f \in AsFds |-> 0] /\ asConns = 0 /\ asBacklog = 0
    /\ asRx = [f \in AsFds |-> 0] /\ asFin = [f \in AsFds |-> FALSE]
    /\ asFull = {} /\ asEdge = {}

-----------------------------------------------------------------------------
(* The outside world *)

Connect ==
    /\ asRun /\ asLoop.hears /\ asConns < MaxConn
    /\ asConns' = asConns + 1 /\ asBacklog' = asBacklog + 1
    /\ asEdge' = asEdge \cup {Listener}
    /\ UNCHANGED <<asConn, asRx, asFin, asFull>>
PeerSends(f) ==
    /\ asConn[f] # 0 /\ ~ asFin[f] /\ asRx[f] < Cap
    /\ \E n \in 1..(Cap - asRx[f]) : asRx' = [asRx EXCEPT ![f] = @ + n]
    /\ asEdge' = asEdge \cup {f}
    /\ UNCHANGED <<asConn, asConns, asBacklog, asFin, asFull>>
PeerCloses(f) ==
    /\ asConn[f] # 0 /\ ~ asFin[f]
    /\ asFin' = [asFin EXCEPT ![f] = TRUE] /\ asEdge' = asEdge \cup {f}
    /\ UNCHANGED <<asConn, asConns, asBacklog, asRx, asFull>>
Drained(f) ==
    /\ f \in asFull /\ asFull' = asFull \ {f} /\ asEdge' = asEdge \cup {f}
    /\ UNCHANGED <<asConn, asConns, asBacklog, asRx, asFin>>

\* close(fd): the kernel forgets the socket and its events.
Closed(f) ==
    /\ asConn' = [asConn EXCEPT ![f] = 0] /\ asRx' = [asRx EXCEPT ![f] = 0]
    /\ asFin' = [asFin EXCEPT ![f] = FALSE]
    /\ asFull' = asFull \ {f} /\ asEdge' = asEdge \ {f}
    /\ UNCHANGED <<asConns, asBacklog>>

-----------------------------------------------------------------------------
(* DispatchData and the list of completions *)

\* AppendNew: a queue that is there already is kept.
AppendNew(que, f) == Inserted(que, f, <<>>)
DeleteOut(que, f) == Without(que, f)
AppendData(que, f, node) == IF f \in DOMAIN que THEN [que EXCEPT ![f] = Append(@, node)] ELSE que
MutantPushBack(que, f, node) == IF f \in DOMAIN que THEN [que EXCEPT ![f] = <<node, node>>] ELSE que
PushBack(que, f, node) == IF f \in DOMAIN que THEN [que EXCEPT ![f] = <<node>> \o @] ELSE que

\* GetAndPopFront: what it returns, and the queues after it.
FrontNode(que, f) ==
    IF f \in DOMAIN que /\ que[f] # <<>> THEN Head(que[f]) ELSE NoNode
Popped(que, f) ==
    IF f \in DOMAIN que /\ que[f] # <<>> THEN [que EXCEPT ![f] = Tail(@)] ELSE que
\* Pop_front of an empty list is undefined: the process ends in free, or goes on with
\* a node that is not valid.
EmptyPop(que, f) ==
    \/ UNCHANGED asCrash
    \/ f \in DOMAIN que /\ que[f] = <<>> /\ asCrash' = TRUE

Done(op, f, id) == [op |-> op, fd |-> f, conn |-> asConn[f], id |-> id]
\* ProduceNode
ProduceNode(c) ==
    /\ asData' = IF asRun THEN Append(asData, c) ELSE asData
    /\ UNCHANGED <<asRun, asCrash>>

\* postQuest, by PostRecvReq and PostSendReq of the server.  They hand on a request whose
\* pData and nCount nobody has set (not valid); a program that fills them in has a valid one.
postQuest(f, read) ==
    \E valid \in BOOLEAN :
        LET node == [id |-> asReq + 1, valid |-> valid]
        IN  /\ asReq' = asReq + 1
            /\ asRq' = IF asRun /\ read THEN AppendData(asRq, f, node) ELSE asRq
            /\ asWq' = IF asRun /\ ~ read THEN AppendData(asWq, f, node) ELSE asWq
            /\ UNCHANGED <<asRun, asCrash, asData, asTasks, asPool, asLoop, asDeal, asKnown,
                           asKernel>>
PostRecvReq(f) == postQuest(f, TRUE)
PostSendReq(f) == postQuest(f, FALSE)

-----------------------------------------------------------------------------
(* HandleThread *)

\* InitSocket: what it returns and whether the socket listens.  A bind that fails gives
\* false, which is not -1.
InitSocket == {[ret |-> 1, hears |-> TRUE], [ret |-> 0, hears |-> FALSE], [ret |-> -1, hears |-> FALSE]}

\* Init: the listening socket, epoll, the pool with its readers and writers, the thread.
\* When a step fails there is no thread, and m_bRun stays set.
InitServer ==
    /\ ~ asRun /\ asLoop.at = "made"
    /\ asRun' = TRUE
    /\ \E r \in InitSocket, at \in {"off", "wait"} :
          /\ r.ret = -1 => at = "off"
          /\ asLoop' = [at |-> at, fd |-> Listener, hears |-> r.hears]
    /\ UNCHANGED <<asCrash, asData, asQueues, asTasks, asPool, asDeal, asKnown, asReq, asKernel>>

\* on_accept_callback: one accept for an event, the new socket is watched for both kinds.
\* accept fails when nobody is there any more, or no descriptor is free.
on_accept_callback ==
    /\ asLoop.at = "wait" /\ asRun /\ Listener \in asEdge
    /\ \/ /\ asBacklog = 0 \/ \A f \in AsFds : asConn[f] # 0
          /\ asEdge' = asEdge \ {Listener}
          /\ UNCHANGED <<asLoop, asConn, asBacklog, asRx, asFin>>
       \/ \E f \in AsFds :
             /\ asBacklog > 0 /\ asConn[f] = 0
             /\ asBacklog' = asBacklog - 1
             /\ asConn' = [asConn EXCEPT ![f] = asConns - asBacklog + 1]
             /\ asRx' = [asRx EXCEPT ![f] = 0] /\ asFin' = [asFin EXCEPT ![f] = FALSE]
             /\ asEdge' = (asEdge \ {Listener}) \cup {f}
             /\ InLoop("accepted", f)
    /\ UNCHANGED <<asRun, asCrash, asData, asQueues, asTasks, asPool, asDeal, asKnown, asReq,
                   asConns, asFull>>

\* submit_job_req: write tasks are merged.
Submitted(t) == IF ~ t.read /\ t \in ToSet(asTasks) THEN asTasks ELSE Append(asTasks, t)

\* The other branches: readable makes a read task, else writable a write task.
HandleThread ==
    \/ /\ asLoop.at = "wait" /\ ~ asRun /\ InLoop("off", Listener)
       /\ UNCHANGED <<asRun, asCrash, asData, asQueues, asTasks, asKernel>>
    \/ /\ asLoop.at = "accepted" /\ InLoop("entering", asLoop.fd)
       /\ ProduceNode(Done("accept", asLoop.fd, 0))
       /\ UNCHANGED <<asQueues, asTasks, asKernel>>
    \/ /\ asLoop.at = "entering" /\ InLoop("wait", Listener)
       /\ asRq' = AppendNew(asRq, asLoop.fd) /\ asWq' = AppendNew(asWq, asLoop.fd)
       /\ UNCHANGED <<asRun, asCrash, asData, asTasks, asKernel>>
    \/ /\ asLoop.at = "wait" /\ asRun /\ Len(asTasks) < MaxTasks
       /\ \E f \in asEdge \ {Listener} :
             /\ asEdge' = asEdge \ {f}
             /\ asTasks' = Submitted([fd |-> f, read |-> asRx[f] > 0 \/ asFin[f]])
       /\ UNCHANGED <<asRun, asCrash, asData, asQueues, asLoop,
                      asConn, asConns, asBacklog, asRx, asFin, asFull>>

-----------------------------------------------------------------------------
(* PostSockReader and PostSockWriter *)

\* A pool thread takes a task and pops a request of its socket; none, or one that is not
\* valid, ends the task.
TakeTask(w) ==
    /\ asPool[w].at = "free"
    /\ \E i \in 1..Len(asTasks) :
          LET t == asTasks[i]
              que == IF t.read THEN asRq ELSE asWq
              node == FrontNode(que, t.fd)
          IN  /\ asTasks' = RemoveAt(asTasks, i)
              /\ At(w, IF node.valid
                       THEN [at |-> IF t.read THEN "recv" ELSE "send", fd |-> t.fd, node |-> node, got |-> 0]
                       ELSE FreeThread)
              /\ asRq' = IF t.read THEN Popped(asRq, t.fd) ELSE asRq
              /\ asWq' = IF t.read THEN asWq ELSE Popped(asWq, t.fd)
              /\ EmptyPop(que, t.fd)
    /\ UNCHANGED <<asRun, asData, asLoop, asDeal, asKnown, asReq, asKernel>>

\* One turn of the reader's loop.  errno is never looked at: a read that would block puts
\* the request back, with what it had got lost; a request that was filled by two reads is
\* read with length 0, which returns 0, taken for the end of the stream, or -1.
PostSockReader(w) ==
    LET p == asPool[w]
        f == p.fd
        n == IF asRx[f] < Cap - p.got THEN asRx[f] ELSE Cap - p.got
        eof == asConn[f] # 0 /\ asRx[f] = 0 /\ asFin[f]
    IN  /\ p.at = "recv"
        /\ \/ /\ ~ eof /\ n = 0                                    \* -1
              /\ asRq' = PushBack(asRq, f, p.node) /\ At(w, FreeThread)
              /\ UNCHANGED <<asRun, asCrash, asData, asKernel>>
           \/ /\ eof \/ (p.got = Cap /\ asConn[f] # 0)
              /\ At(w, [p EXCEPT !.at = "close", !.node = NoNode])
              /\ UNCHANGED <<asRun, asCrash, asData, asRq, asKernel>>
           \/ /\ n \in 1..(Cap - 1)
              /\ At(w, [p EXCEPT !.got = @ + n])
              /\ asRx' = [asRx EXCEPT ![f] = @ - n]
              /\ UNCHANGED <<asRun, asCrash, asData, asRq, asConn, asConns, asBacklog, asFin,
                             asFull, asEdge>>
           \/ /\ n = Cap
              /\ ProduceNode(Done("read", f, p.node.id))
              /\ asRx' = [asRx EXCEPT ![f] = 0]
              /\ At(w, [p EXCEPT !.at = "next", !.node = NoNode])
              /\ UNCHANGED <<asRq, asConn, asConns, asBacklog, asFin, asFull, asEdge>>
\* After a full buffer the next request is popped.
NextRequest(w) ==
    LET p == asPool[w]
        node == FrontNode(asRq, p.fd)
    IN  /\ p.at = "next"
        /\ At(w, IF node.valid THEN [p EXCEPT !.at = "recv", !.node = node, !.got = 0] ELSE FreeThread)
        /\ asRq' = Popped(asRq, p.fd)
        /\ EmptyPop(asRq, p.fd)
        /\ UNCHANGED <<asRun, asData, asKernel>>

\* FdDel: close, the queues, the completion.
FdDel(w) ==
    LET f == asPool[w].fd
    IN  \/ /\ asPool[w].at = "close" /\ Closed(f)
           /\ At(w, [asPool[w] EXCEPT !.at = "delete"])
           /\ UNCHANGED <<asRun, asCrash, asData, asQueues>>
        \/ /\ asPool[w].at = "delete"
           /\ asRq' = DeleteOut(asRq, f) /\ asWq' = DeleteOut(asWq, f)
           /\ ProduceNode(Done("exit", f, 0))
           /\ At(w, FreeThread) /\ UNCHANGED asKernel

\* A send that takes a part counts as done; one that takes nothing puts the request back.
PostSockWriter(w) ==
    LET p == asPool[w]
    IN  /\ p.at = "send" /\ At(w, FreeThread)
        /\ \/ /\ asWq' = PushBack(asWq, p.fd, p.node)
              /\ asFull' = IF asConn[p.fd] # 0 THEN asFull \cup {p.fd} ELSE asFull
              /\ UNCHANGED <<asRun, asCrash, asData>>
           \/ /\ asConn[p.fd] # 0 /\ asFull' \in {asFull, asFull \cup {p.fd}}
              /\ ProduceNode(Done("write", p.fd, p.node.id))
              /\ UNCHANGED asWq
        /\ UNCHANGED <<asConn, asConns, asBacklog, asRx, asFin, asEdge>>

-----------------------------------------------------------------------------
(* The server *)

ThreadStarts(c) ==
    /\ asRun /\ asDeal[c].at = "off" /\ asDeal' = [asDeal EXCEPT ![c] = [at |-> "get"]]
    /\ UNCHANGED <<asRun, asCrash, asData, asQueues, asTasks, asPool, asLoop, asKnown, asReq,
                   asKernel>>

\* GetQueueComplateStatus by an EpollThread: m_bRun is tested before the wait only.
GetQueueComplateStatus(c) ==
    /\ \/ /\ asDeal[c].at = "get" /\ ~ asRun
          /\ asDeal' = [asDeal EXCEPT ![c] = [at |-> "off"]] /\ UNCHANGED asData
       \/ /\ asDeal[c].at = "get" /\ asRun /\ asData = <<>>
          /\ asDeal' = [asDeal EXCEPT ![c] = [at |-> "wait"]] /\ UNCHANGED asData
       \/ /\ asDeal[c].at \in {"get", "wait"} /\ asData # <<>>
          /\ asDeal' = [asDeal EXCEPT ![c] = [at |-> "got", item |-> Head(asData)]]
          /\ asData' = Tail(asData)
    /\ UNCHANGED <<asRun, asCrash, asQueues, asTasks, asPool, asLoop, asKnown, asReq, asKernel>>

\* EpollThread: the completion of a request has the oType its memory had, any of the four.
\* RemoveClient closes the socket once more.
EpollThread(c) ==
    /\ asDeal[c].at = "got"
    /\ LET item == asDeal[c].item
       IN  \E op \in IF item.id = 0 THEN {item.op} ELSE {"accept", "exit", "read", "write"} :
              /\ asKnown' = CASE op = "accept" -> asKnown \cup {item.fd}
                              [] op = "exit" -> asKnown \ {item.fd}
                              [] OTHER -> asKnown
              /\ IF op = "exit" THEN Closed(item.fd) ELSE UNCHANGED asKernel
    /\ asDeal' = [asDeal EXCEPT ![c] = [at |-> "get"]]
    /\ UNCHANGED <<asRun, asCrash, asData, asQueues, asTasks, asPool, asLoop, asReq>>

\* Stop: the loop and the pool's tasks are ended, the listening socket and epoll closed;
\* the clients' sockets stay open.
StopServer ==
    /\ asRun /\ asRun' = FALSE
    /\ asTasks' = <<>> /\ asLoop' = [asLoop EXCEPT !.hears = FALSE]
    /\ asBacklog' = 0 /\ asEdge' = {}
    /\ UNCHANGED <<asCrash, asData, asQueues, asPool, asDeal, asKnown, asReq,
                   asConn, asConns, asRx, asFin, asFull>>

AsNext ==
    /\ ~ asCrash
    /\ \/ InitServer \/ on_accept_callback \/ StopServer
       \/ /\ HandleThread
          /\ UNCHANGED <<asPool, asDeal, asKnown, asReq>>
       \/ \E w \in AsPool : TakeTask(w)
       \/ /\ \E w \in AsPool :
                \/ (PostSockReader(w) \/ NextRequest(w)) /\ UNCHANGED asWq
                \/ PostSockWriter(w) /\ UNCHANGED asRq
                \/ FdDel(w)
          /\ UNCHANGED <<asTasks, asLoop, asDeal, asKnown, asReq>>
       \/ \E c \in AsThreads : ThreadStarts(c) \/ GetQueueComplateStatus(c) \/ EpollThread(c)
       \/ \E f \in asKnown : asReq < MaxReq /\ (PostRecvReq(f) \/ PostSendReq(f))
       \/ /\ Connect \/ \E f \in AsFds : PeerSends(f) \/ PeerCloses(f) \/ Drained(f)
          /\ UNCHANGED <<asRun, asCrash, asData, asQueues, asTasks, asPool, asLoop, asDeal, asKnown,
                         asReq>>

AsSpec == AsInit /\ [][AsNext]_asVars

-----------------------------------------------------------------------------
(* Properties *)

AsTypeOK ==
    /\ {asRun, asCrash} \subseteq BOOLEAN
    /\ DOMAIN asRq \subseteq AsFds /\ DOMAIN asWq \subseteq AsFds
    /\ asConn \in [AsFds -> 0..MaxConn] /\ asRx \in [AsFds -> 0..Cap]
    /\ asEdge \subseteq AsFds \cup {Listener}
    /\ \A f, g \in AsFds : f # g /\ asConn[f] = asConn[g] => asConn[f] = 0

\* The places of a request in the queues.
PlacesOf(que, id) ==
    UNION {{<<f, i>> : i \in {i \in 1..Len(que[f]) : que[f][i].id = id}} : f \in DOMAIN que}

\* A request has one owner: it waits in one queue, or one task serves it, or its completion
\* is in the list; PushBack, ProduceNode and the pops hand it on and never copy it.
RequestOnce ==
    \A id \in 1..asReq :
        Cardinality(PlacesOf(asRq, id)) + Cardinality(PlacesOf(asWq, id))
        + Cardinality({w \in AsPool : asPool[w].node.id = id})
        + Cardinality({i \in 1..Len(asData) : asData[i].id = id})
        + Cardinality({c \in AsThreads : asDeal[c].at = "got" /\ asDeal[c].item.id = id}) <= 1
=============================================================================
