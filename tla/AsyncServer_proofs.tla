------------------------- MODULE AsyncServer_proofs -------------------------
(***************************************************************************)
(* The servers and the client of MCNet.                                    *)
(*                                                                         *)
(* The epoll server, for any sockets, pool threads, users, buffer length   *)
(* and number of requests and connections.  A request is owned by a queue, *)
(* a task, the list of completions or a thread that deals with one; what   *)
(* each of these owns is a set of request numbers without twins, and the   *)
(* five sets have nothing in common (OwnInv).  An operation takes a number *)
(* out of one set before it enters it into another.                        *)
(*                                                                         *)
(* The completion port server, for any threads and requests: a request is  *)
(* queued when and only when the port holds its one completion, and taken  *)
(* while one thread has it (RequestsKept).  The completion port client:    *)
(* a handle that is NULL tells that its thread has left the loop (TcInv).  *)
(***************************************************************************)
EXTENDS MCNet, SequenceTheorems, FiniteSetTheorems, TLAPS

-----------------------------------------------------------------------------
(* Types *)

Node == [id : Nat \ {0}, valid : BOOLEAN]
AnyNode == Node \cup {NoNode}
PoolTask == [fd : AsFds, read : BOOLEAN]
Stages == {"free", "recv", "send", "next", "close", "delete"}
Thread == [at : Stages, fd : AsFds \cup {Listener}, node : AnyNode, got : Nat]
Item == [op : {"accept", "exit", "read", "write"}, fd : AsFds, conn : Nat, id : Nat]
Taker == [at : {"off", "get", "wait"}] \cup [at : {"got"}, item : Item]
LoopState == [at : {"made", "off", "wait", "accepted", "entering"}, fd : AsFds \cup {Listener},
              hears : BOOLEAN]

QueueOK(que) == que \in [DOMAIN que -> Seq(Node)] /\ DOMAIN que \subseteq AsFds

\* A thread that serves a request has one, a thread at work has a socket.
PoolInv ==
    /\ asPool \in [AsPool -> Thread]
    /\ \A w \in AsPool :
          /\ asPool[w].got <= Cap
          /\ asPool[w].at # "free" => asPool[w].fd \in AsFds
          /\ asPool[w].at \in {"recv", "send"} => asPool[w].node \in Node
          /\ asPool[w].at \notin {"recv", "send"} => asPool[w].node = NoNode

LoopInv ==
    /\ asLoop \in LoopState
    /\ asLoop.at \in {"accepted", "entering"} => asLoop.fd \in AsFds

\* Connections are numbered in the order in which they are accepted.
KernelInv ==
    /\ asConn \in [AsFds -> Nat] /\ asConns \in 0..MaxConn /\ asBacklog \in 0..asConns
    /\ asRx \in [AsFds -> 0..Cap] /\ asFin \in [AsFds -> BOOLEAN]
    /\ asFull \subseteq AsFds /\ asEdge \subseteq AsFds \cup {Listener}
    /\ \A f \in AsFds : asConn[f] <= asConns - asBacklog
    /\ \A f, g \in AsFds : f # g /\ asConn[f] = asConn[g] => asConn[f] = 0

StateInv ==
    /\ asRun \in BOOLEAN /\ asCrash \in BOOLEAN /\ asReq \in Nat
    /\ asTasks \in Seq(PoolTask) /\ asKnown \subseteq AsFds

ListInv == asData \in Seq(Item) /\ asDeal \in [AsThreads -> Taker]

-----------------------------------------------------------------------------
(* Owners *)

QueIds(que) == {id \in Nat \ {0} : \E f \in DOMAIN que : \E i \in 1..Len(que[f]) : que[f][i].id = id}
ListIds(list) == {id \in Nat \ {0} : \E i \in 1..Len(list) : list[i].id = id}
PoolIds == {id \in Nat \ {0} : \E w \in AsPool : asPool[w].node.id = id}
DealIds == {id \in Nat \ {0} : \E c \in AsThreads : asDeal[c].at = "got" /\ asDeal[c].item.id = id}

\* No number is there twice.
QueOne(que) ==
    \A f, g \in DOMAIN que : \A i \in 1..Len(que[f]), j \in 1..Len(que[g]) :
        que[f][i].id = que[g][j].id => f = g /\ i = j
ListOne(list) ==
    \A i, j \in 1..Len(list) : list[i].id = list[j].id => list[i].id = 0 \/ i = j
PoolOne == \A w, v \in AsPool : asPool[w].node.id = asPool[v].node.id => asPool[w].node.id = 0 \/ w = v
DealOne ==
    \A c, d \in AsThreads : asDeal[c].at = "got" /\ asDeal[d].at = "got" =>
        (asDeal[c].item.id = asDeal[d].item.id => asDeal[c].item.id = 0 \/ c = d)

Apart(A, B) == \A x \in A : x \notin B

\* The five sets of owned requests.
Owned(A, B, C, D, E, n) ==
    /\ A \cup B \cup C \cup D \cup E \subseteq 1..n
    /\ Apart(A, B) /\ Apart(A, C) /\ Apart(A, D) /\ Apart(A, E) /\ Apart(B, C)
    /\ Apart(B, D) /\ Apart(B, E) /\ Apart(C, D) /\ Apart(C, E) /\ Apart(D, E)

OwnInv ==
    /\ QueOne(asRq) /\ QueOne(asWq) /\ PoolOne /\ ListOne(asData) /\ DealOne
    /\ Owned(QueIds(asRq), QueIds(asWq), PoolIds, ListIds(asData), DealIds, asReq)

\* What the operations on requests deal with, and the rest.
CoreInv == QueueOK(asRq) /\ QueueOK(asWq) /\ PoolInv /\ ListInv /\ OwnInv
AInv == CoreInv /\ LoopInv /\ KernelInv /\ StateInv

-----------------------------------------------------------------------------
(* What DispatchData's operations do to the requests of a queue *)

LEMMA Entry ==
    ASSUME NEW que, QueueOK(que), NEW f \in DOMAIN que
    PROVE  /\ que[f] \in Seq(Node) /\ Len(que[f]) \in Nat
           /\ \A i \in 1..Len(que[f]) : que[f][i] \in Node /\ que[f][i].id \in QueIds(que)
<1>1. que[f] \in Seq(Node) /\ Len(que[f]) \in Nat
  BY DEF QueueOK
<1>2. ASSUME NEW i \in 1..Len(que[f]) PROVE que[f][i] \in Node /\ que[f][i].id \in QueIds(que)
  <2>1. que[f][i] \in Node
    BY <1>1
  <2>2. que[f][i].id \in Nat \ {0}
    BY <2>1 DEF Node
  <2>. QED BY <2>1, <2>2 DEF QueIds
<1>. QED BY <1>1, <1>2

\* The queue of one socket is replaced by one that has its requests and at most a new one.
LEMMA Edited ==
    ASSUME NEW que, QueueOK(que), QueOne(que), NEW f \in DOMAIN que, NEW s \in Seq(Node),
           NEW n, n \notin QueIds(que),
           \A i \in 1..Len(s) : s[i].id = n \/ \E k \in 1..Len(que[f]) : s[i] = que[f][k],
           \A i, j \in 1..Len(s) : s[i].id = s[j].id => i = j,
           NEW q, q = [que EXCEPT ![f] = s]
    PROVE  QueueOK(q) /\ QueOne(q) /\ QueIds(q) \subseteq QueIds(que) \cup {n}
<1>0. que \in [DOMAIN que -> Seq(Node)] /\ DOMAIN que \subseteq AsFds
  BY DEF QueueOK
<1>1. DOMAIN q = DOMAIN que /\ q[f] = s /\ \A g \in DOMAIN que : g # f => q[g] = que[g]
  BY <1>0
<1>2. QueueOK(q)
  BY <1>0, <1>1 DEF QueueOK
<1>3. \A i \in 1..Len(s) : s[i].id = n \/ s[i].id \in QueIds(que)
  BY Entry
<1>4. ASSUME NEW g \in DOMAIN que, g # f, NEW i \in 1..Len(s), NEW j \in 1..Len(que[g])
      PROVE  s[i].id # que[g][j].id
  <2>1. CASE s[i].id = n
    BY <2>1, Entry
  <2>2. CASE \E k \in 1..Len(que[f]) : s[i] = que[f][k]
    BY <1>4, <2>2 DEF QueOne
  <2>. QED BY <2>1, <2>2
<1>5. QueOne(q)
  <2> SUFFICES ASSUME NEW g \in DOMAIN que, NEW h \in DOMAIN que, NEW i \in 1..Len(q[g]), NEW j \in 1..Len(q[h]),
                      q[g][i].id = q[h][j].id
               PROVE  g = h /\ i = j
    BY <1>1 DEF QueOne
  <2>1. CASE g = f /\ h = f
    BY <1>1, <2>1
  <2>2. CASE g = f /\ h # f
    BY <1>1, <1>4, <2>2
  <2>3. CASE g # f /\ h = f
    BY <1>1, <1>4, <2>3
  <2>4. CASE g # f /\ h # f
    BY <1>1, <2>4 DEF QueOne
  <2>. QED BY <2>1, <2>2, <2>3, <2>4
<1>6. QueIds(q) \subseteq QueIds(que) \cup {n}
  <2> SUFFICES ASSUME NEW g \in DOMAIN que, NEW i \in 1..Len(q[g]) PROVE q[g][i].id \in QueIds(que) \cup {n}
    BY <1>1 DEF QueIds
  <2>1. CASE g = f
    BY <1>1, <1>3, <2>1
  <2>2. CASE g # f
    BY <1>1, <2>2, Entry
  <2>. QED BY <2>1, <2>2
<1>. QED BY <1>2, <1>5, <1>6

LEMMA Pushed ==
    ASSUME NEW que, QueueOK(que), QueOne(que), NEW f, NEW node \in Node, node.id \notin QueIds(que),
           NEW q, q = PushBack(que, f, node)
    PROVE  QueueOK(q) /\ QueOne(q) /\ QueIds(q) \subseteq QueIds(que) \cup {node.id}
<1>1. CASE f \notin DOMAIN que
  BY <1>1 DEF PushBack
<1>2. CASE f \in DOMAIN que
  <2>1. PICK t, s : t = que[f] /\ s = <<node>> \o t
    OBVIOUS
  <2>2. t \in Seq(Node) /\ Len(t) \in Nat /\ \A i \in 1..Len(t) : t[i].id \in QueIds(que)
    BY <1>2, <2>1, Entry
  <2>3. /\ s \in Seq(Node) /\ Len(s) = Len(t) + 1 /\ s[1] = node
        /\ \A i \in 2..(Len(t) + 1) : s[i] = t[i - 1]
    BY <2>1, <2>2
  <2>4. \A i \in 1..Len(s) : s[i].id = node.id \/ \E k \in 1..Len(que[f]) : s[i] = que[f][k]
    <3> SUFFICES ASSUME NEW i \in 1..Len(s), i # 1 PROVE \E k \in 1..Len(que[f]) : s[i] = que[f][k]
      BY <2>3
    <3>1. i \in 2..(Len(t) + 1) /\ i - 1 \in 1..Len(t)
      BY <2>2, <2>3
    <3>. QED BY <2>1, <2>3, <3>1
  <2>5. \A i, j \in 1..Len(s) : s[i].id = s[j].id => i = j
    <3> SUFFICES ASSUME NEW i \in 1..Len(s), NEW j \in 1..Len(s), i < j PROVE s[i].id # s[j].id
      <4>1. \A i, j \in 1..Len(s) : i # j => i < j \/ j < i
        BY <2>2, <2>3
      <4>. QED BY <4>1
    <3>1. j \in 2..(Len(t) + 1) /\ j - 1 \in 1..Len(t)
      BY <2>2, <2>3
    <3>2. s[j] = t[j - 1]
      BY <2>3, <3>1
    <3>3. CASE i = 1
      BY <2>2, <2>3, <3>1, <3>2, <3>3
    <3>4. CASE i # 1
      <4>1. i \in 2..(Len(t) + 1) /\ i - 1 \in 1..Len(t) /\ i - 1 # j - 1
        BY <2>2, <2>3, <3>4
      <4>2. s[i] = t[i - 1]
        BY <2>3, <4>1
      <4>3. t[i - 1].id # t[j - 1].id
        <5>1. \A x, y \in 1..Len(t) : t[x].id = t[y].id => x = y
          BY <1>2, <2>1 DEF QueOne
        <5>. QED BY <3>1, <4>1, <5>1
      <4>. QED BY <3>2, <4>2, <4>3
    <3>. QED BY <3>3, <3>4
  <2>6. q = [que EXCEPT ![f] = s]
    BY <1>2, <2>1 DEF PushBack
  <2>7. PICK n : n = node.id
    OBVIOUS
  <2>8. n \notin QueIds(que) /\ \A i \in 1..Len(s) : s[i].id = n \/ \E k \in 1..Len(que[f]) : s[i] = que[f][k]
    BY <2>4, <2>7
  <2>9. QueueOK(q) /\ QueOne(q) /\ QueIds(q) \subseteq QueIds(que) \cup {n}
    BY <1>2, <2>3, <2>5, <2>6, <2>8, Edited
  <2>. QED BY <2>7, <2>9
<1>. QED BY <1>1, <1>2

LEMMA Appended ==
    ASSUME NEW que, QueueOK(que), QueOne(que), NEW f, NEW node \in Node, node.id \notin QueIds(que),
           NEW q, q = AppendData(que, f, node)
    PROVE  QueueOK(q) /\ QueOne(q) /\ QueIds(q) \subseteq QueIds(que) \cup {node.id}
<1>1. CASE f \notin DOMAIN que
  BY <1>1 DEF AppendData
<1>2. CASE f \in DOMAIN que
  <2>1. PICK t, s : t = que[f] /\ s = Append(t, node)
    OBVIOUS
  <2>2. t \in Seq(Node) /\ Len(t) \in Nat /\ \A i \in 1..Len(t) : t[i].id \in QueIds(que)
    BY <1>2, <2>1, Entry
  <2>3. /\ s \in Seq(Node) /\ Len(s) = Len(t) + 1 /\ s[Len(t) + 1] = node
        /\ \A i \in 1..Len(t) : s[i] = t[i]
    BY <2>1, <2>2
  <2>4. \A i \in 1..Len(s) : i = Len(t) + 1 \/ i \in 1..Len(t)
    BY <2>2, <2>3
  <2>5. \A i, j \in 1..Len(t) : t[i].id = t[j].id => i = j
    BY <1>2, <2>1 DEF QueOne
  <2>6. \A i, j \in 1..Len(s) : s[i].id = s[j].id => i = j
    BY <2>2, <2>3, <2>4, <2>5
  <2>7. PICK n : n = node.id
    OBVIOUS
  <2>8. n \notin QueIds(que) /\ \A i \in 1..Len(s) : s[i].id = n \/ \E k \in 1..Len(que[f]) : s[i] = que[f][k]
    BY <2>1, <2>3, <2>4, <2>7
  <2>9. q = [que EXCEPT ![f] = s]
    BY <1>2, <2>1 DEF AppendData
  <2>10. QueueOK(q) /\ QueOne(q) /\ QueIds(q) \subseteq QueIds(que) \cup {n}
    BY <1>2, <2>3, <2>6, <2>8, <2>9, Edited
  <2>. QED BY <2>7, <2>10
<1>. QED BY <1>1, <1>2

\* A pop takes the request out of the queue.
LEMMA Taken ==
    ASSUME NEW que, QueueOK(que), QueOne(que), NEW f, NEW q, q = Popped(que, f),
           NEW node, node = FrontNode(que, f)
    PROVE  /\ QueueOK(q) /\ QueOne(q) /\ QueIds(q) \subseteq QueIds(que)
           /\ \/ node = NoNode
              \/ node \in Node /\ node.id \in QueIds(que) /\ node.id \notin QueIds(q)
<1>1. CASE ~ (f \in DOMAIN que /\ que[f] # <<>>)
  <2>1. q = que /\ node = NoNode
    BY <1>1 DEF Popped, FrontNode
  <2>. QED BY <2>1
<1>2. CASE f \in DOMAIN que /\ que[f] # <<>>
  <2>1. PICK t, s : t = que[f] /\ s = Tail(t)
    OBVIOUS
  <2>2. t \in Seq(Node) /\ Len(t) \in Nat /\ t # <<>> /\ \A i \in 1..Len(t) : t[i] \in Node /\ t[i].id \in QueIds(que)
    BY <1>2, <2>1, Entry
  <2>3. /\ s \in Seq(Node) /\ Len(s) = Len(t) - 1 /\ 1 \in 1..Len(t)
        /\ \A i \in 1..Len(s) : s[i] = t[i + 1] /\ i + 1 \in 1..Len(t) /\ i + 1 # 1
    <3>1. Len(t) # 0
      BY <2>2
    <3>2. s \in Seq(Node) /\ Len(s) = Len(t) - 1 /\ \A i \in 1..Len(s) : s[i] = t[i + 1]
      BY <2>1, <2>2, HeadTailProperties
    <3>. QED BY <2>2, <3>1, <3>2
  <2>4. \A i, j \in 1..Len(t) : t[i].id = t[j].id => i = j
    BY <1>2, <2>1 DEF QueOne
  <2>5. \A i, j \in 1..Len(s) : s[i].id = s[j].id => i = j
    <3> SUFFICES ASSUME NEW i \in 1..Len(s), NEW j \in 1..Len(s), s[i].id = s[j].id PROVE i = j
      OBVIOUS
    <3>1. s[i] = t[i + 1] /\ i + 1 \in 1..Len(t) /\ s[j] = t[j + 1] /\ j + 1 \in 1..Len(t)
      BY <2>3
    <3>2. t[i + 1].id = t[j + 1].id
      BY <3>1, Zenon
    <3>3. i + 1 = j + 1
      BY <2>4, <3>1, <3>2, Zenon
    <3>4. Len(s) \in Nat
      BY <2>2, <2>3
    <3>. QED BY <3>3, <3>4
  <2>6. q = [que EXCEPT ![f] = s] /\ node = t[1]
    BY <1>2, <2>1, <2>2 DEF Popped, FrontNode
  <2>7. 0 \notin QueIds(que) /\ \A i \in 1..Len(s) : s[i].id = 0 \/ \E k \in 1..Len(que[f]) : s[i] = que[f][k]
    BY <2>1, <2>3 DEF QueIds
  <2>8. QueueOK(q) /\ QueOne(q) /\ QueIds(q) \subseteq QueIds(que) \cup {0}
    <3>1. PICK n : n = 0
      OBVIOUS
    <3>2. n \notin QueIds(que) /\ \A i \in 1..Len(s) : s[i].id = n \/ \E k \in 1..Len(que[f]) : s[i] = que[f][k]
      BY <2>7, <3>1
    <3>3. QueueOK(q) /\ QueOne(q) /\ QueIds(q) \subseteq QueIds(que) \cup {n}
      <4>1. f \in DOMAIN que /\ s \in Seq(Node) /\ q = [que EXCEPT ![f] = s]
        BY <1>2, <2>3, <2>6
      <4>. QED BY <2>5, <3>2, <4>1, Edited
    <3>. QED BY <3>1, <3>3
  <2>9. QueIds(q) \subseteq QueIds(que)
    BY <2>8 DEF QueIds
  <2>10. node \in Node /\ node.id \in QueIds(que)
    BY <2>2, <2>3, <2>6
  <2>11. node.id \notin QueIds(q)
    <3> SUFFICES ASSUME NEW g \in DOMAIN q, NEW i \in 1..Len(q[g]), q[g][i].id = node.id PROVE FALSE
      BY DEF QueIds
    <3>1. g \in DOMAIN que /\ que \in [DOMAIN que -> Seq(Node)]
      BY <2>6 DEF QueueOK
    <3>2. CASE g = f
      <4>1. q[g] = s
        BY <2>6, <3>1, <3>2
      <4>. QED BY <2>3, <2>4, <2>6, <4>1
    <3>3. CASE g # f
      <4>1. q[g] = que[g]
        BY <2>6, <3>1, <3>3
      <4>2. que[g][i].id = que[f][1].id /\ i \in 1..Len(que[g]) /\ 1 \in 1..Len(que[f])
        BY <2>1, <2>3, <2>6, <4>1
      <4>. QED BY <1>2, <3>1, <3>3, <4>2 DEF QueOne
    <3>. QED BY <3>2, <3>3
  <2>. QED BY <2>8, <2>9, <2>10, <2>11
<1>. QED BY <1>1, <1>2

LEMMA Entered ==
    ASSUME NEW que, QueueOK(que), QueOne(que), NEW f \in AsFds, NEW q, q = AppendNew(que, f)
    PROVE  QueueOK(q) /\ QueOne(q) /\ QueIds(q) \subseteq QueIds(que)
<1>1. CASE f \in DOMAIN que
  BY <1>1 DEF AppendNew, Inserted
<1>2. CASE f \notin DOMAIN que
  <2>1. q = [x \in DOMAIN que \cup {f} |-> IF x = f THEN <<>> ELSE que[x]]
    BY <1>2 DEF AppendNew, Inserted, With
  <2>2. /\ DOMAIN q = DOMAIN que \cup {f} /\ q[f] = <<>> /\ Len(q[f]) = 0
        /\ \A g \in DOMAIN que : q[g] = que[g]
    BY <1>2, <2>1
  <2>3. \A g \in DOMAIN q : \A i \in 1..Len(q[g]) : g \in DOMAIN que /\ q[g] = que[g]
    BY <2>2
  <2>4. QueueOK(q)
    BY <2>1, <2>2 DEF QueueOK
  <2>5. QueOne(q)
    BY <2>3 DEF QueOne
  <2>6. QueIds(q) \subseteq QueIds(que)
    BY <2>3 DEF QueIds
  <2>. QED BY <2>4, <2>5, <2>6
<1>. QED BY <1>1, <1>2

LEMMA Deleted ==
    ASSUME NEW que, QueueOK(que), QueOne(que), NEW f, NEW q, q = DeleteOut(que, f)
    PROVE  QueueOK(q) /\ QueOne(q) /\ QueIds(q) \subseteq QueIds(que)
<1>1. q = [x \in DOMAIN que \ {f} |-> que[x]]
  BY DEF DeleteOut, Without, Restrict
<1>2. DOMAIN q \subseteq DOMAIN que /\ \A g \in DOMAIN q : q[g] = que[g]
  BY <1>1
<1>3. QueueOK(q)
  BY <1>1 DEF QueueOK
<1>4. QueOne(q)
  BY <1>2 DEF QueOne
<1>5. QueIds(q) \subseteq QueIds(que)
  BY <1>2 DEF QueIds
<1>. QED BY <1>3, <1>4, <1>5

-----------------------------------------------------------------------------
(* The list of completions, the pool's threads and the threads that take *)

LEMMA ListAppended ==
    ASSUME NEW list \in Seq(Item), ListOne(list), NEW c \in Item, c.id = 0 \/ c.id \notin ListIds(list),
           NEW t, t = Append(list, c)
    PROVE  t \in Seq(Item) /\ ListOne(t) /\ ListIds(t) \subseteq ListIds(list) \cup {c.id}
<1>1. /\ t \in Seq(Item) /\ Len(list) \in Nat /\ Len(t) = Len(list) + 1 /\ t[Len(list) + 1] = c
      /\ \A i \in 1..Len(list) : t[i] = list[i]
  OBVIOUS
<1>2. \A i \in 1..Len(t) : i = Len(list) + 1 \/ i \in 1..Len(list)
  BY <1>1
<1>3. \A i \in 1..Len(list) : list[i].id \in Nat
  <2>1. \A i \in 1..Len(list) : list[i] \in Item
    OBVIOUS
  <2>. QED BY <2>1 DEF Item
<1>4. \A i \in 1..Len(list) : list[i].id = c.id => c.id = 0
  BY <1>3 DEF ListIds
<1>5. ListOne(t)
  BY <1>1, <1>2, <1>4 DEF ListOne
<1>6. ListIds(t) \subseteq ListIds(list) \cup {c.id}
  BY <1>1, <1>2 DEF ListIds
<1>. QED BY <1>1, <1>5, <1>6

LEMMA ListTaken ==
    ASSUME NEW list \in Seq(Item), ListOne(list), list # <<>>, NEW t, t = Tail(list), NEW c, c = Head(list)
    PROVE  /\ c \in Item /\ t \in Seq(Item) /\ ListOne(t) /\ ListIds(t) \subseteq ListIds(list)
           /\ c.id = 0 \/ (c.id \in ListIds(list) /\ c.id \notin ListIds(t))
<1>1. /\ t \in Seq(Item) /\ Len(t) = Len(list) - 1 /\ Len(list) \in Nat \ {0}
      /\ \A i \in 1..Len(t) : t[i] = list[i + 1]
  BY HeadTailProperties, EmptySeq
<1>2. 1 \in 1..Len(list) /\ \A i \in 1..Len(t) : i + 1 \in 1..Len(list) /\ i + 1 # 1
  BY <1>1
<1>3. c = list[1] /\ c \in Item
  BY <1>2
<1>4. c.id \in Nat
  BY <1>3 DEF Item
<1>5. ListOne(t)
  <2> SUFFICES ASSUME NEW i \in 1..Len(t), NEW j \in 1..Len(t), t[i].id = t[j].id, t[i].id # 0 PROVE i = j
    BY DEF ListOne
  <2>1. i + 1 = j + 1
    BY <1>1, <1>2 DEF ListOne
  <2>. QED BY <1>1, <2>1
<1>6. ListIds(t) \subseteq ListIds(list)
  BY <1>1, <1>2 DEF ListIds
<1>7. c.id # 0 => c.id \in ListIds(list)
  BY <1>2, <1>3, <1>4 DEF ListIds
<1>8. ASSUME c.id # 0, c.id \in ListIds(t) PROVE FALSE
  <2>1. PICK i \in 1..Len(t) : t[i].id = c.id
    BY <1>8 DEF ListIds
  <2>2. i + 1 \in 1..Len(list) /\ list[i + 1].id = list[1].id /\ i + 1 # 1
    BY <1>1, <1>2, <1>3, <2>1
  <2>. QED BY <1>2, <1>3, <1>8, <2>2 DEF ListOne
<1>. QED BY <1>1, <1>3, <1>5, <1>6, <1>7, <1>8

LEMMA NodeIds == ASSUME NEW n \in AnyNode PROVE n.id \in Nat /\ (n \in Node => n.id # 0)
  BY DEF AnyNode, Node, NoNode

\* Thread w goes on with rec.
LEMMA PoolMoved ==
    ASSUME PoolInv, PoolOne, NEW w \in AsPool, NEW rec \in Thread, At(w, rec),
           rec.got <= Cap, rec.at # "free" => rec.fd \in AsFds,
           rec.at \in {"recv", "send"} => rec.node \in Node,
           rec.at \notin {"recv", "send"} => rec.node = NoNode,
           rec.node = asPool[w].node \/ rec.node.id = 0 \/ rec.node.id \notin PoolIds
    PROVE  /\ PoolInv' /\ PoolOne' /\ PoolIds' \subseteq PoolIds \cup {rec.node.id}
           /\ rec.node.id # asPool[w].node.id => asPool[w].node.id \notin PoolIds'
           /\ asPool[w].node.id = 0 \/ asPool[w].node.id \in PoolIds
<1>1. asPool \in [AsPool -> Thread] /\ asPool' = [asPool EXCEPT ![w] = rec]
  BY DEF PoolInv, At
<1>2. asPool'[w] = rec /\ \A v \in AsPool : v # w => asPool'[v] = asPool[v]
  BY <1>1
<1>3. \A v \in AsPool : asPool[v].node.id \in Nat
  <2>1. \A v \in AsPool : asPool[v].node \in AnyNode
    BY <1>1 DEF Thread
  <2>. QED BY <2>1, NodeIds
<1>4. PoolInv'
  <2>1. asPool' \in [AsPool -> Thread]
    BY <1>1
  <2>2. ASSUME NEW v \in AsPool
        PROVE  /\ asPool'[v].got <= Cap
               /\ asPool'[v].at # "free" => asPool'[v].fd \in AsFds
               /\ asPool'[v].at \in {"recv", "send"} => asPool'[v].node \in Node
               /\ asPool'[v].at \notin {"recv", "send"} => asPool'[v].node = NoNode
    BY <1>2 DEF PoolInv
  <2>. QED BY <2>1, <2>2 DEF PoolInv
<1>5. \A v \in AsPool : v # w /\ asPool[v].node.id = rec.node.id => rec.node.id = 0
  BY <1>3 DEF PoolOne, PoolIds
<1>6. PoolOne'
  BY <1>2, <1>5 DEF PoolOne
<1>7. PoolIds' \subseteq PoolIds \cup {rec.node.id}
  BY <1>2 DEF PoolIds
<1>8. asPool[w].node.id = 0 \/ asPool[w].node.id \in PoolIds
  BY <1>3 DEF PoolIds
<1>9. ASSUME rec.node.id # asPool[w].node.id, asPool[w].node.id \in PoolIds' PROVE FALSE
  <2>1. PICK v \in AsPool : asPool'[v].node.id = asPool[w].node.id /\ asPool[w].node.id # 0
    BY <1>9 DEF PoolIds
  <2>2. v # w
    BY <1>2, <1>9, <2>1
  <2>. QED BY <1>2, <2>1, <2>2 DEF PoolOne
<1>. QED BY <1>4, <1>6, <1>7, <1>8, <1>9

\* Thread c goes on with rec.
LEMMA DealMoved ==
    ASSUME asDeal \in [AsThreads -> Taker], DealOne, NEW c \in AsThreads, NEW rec \in Taker,
           asDeal' = [asDeal EXCEPT ![c] = rec],
           rec.at = "got" => rec.item.id = 0 \/ rec.item.id \notin DealIds
    PROVE  /\ asDeal' \in [AsThreads -> Taker] /\ DealOne'
           /\ \A id \in DealIds' : id \in DealIds \/ (rec.at = "got" /\ id = rec.item.id)
<1>1. asDeal'[c] = rec /\ \A d \in AsThreads : d # c => asDeal'[d] = asDeal[d]
  OBVIOUS
<1>2. \A d \in AsThreads : asDeal[d].at = "got" => asDeal[d].item.id \in Nat
  <2>1. ASSUME NEW d \in AsThreads, asDeal[d].at = "got" PROVE asDeal[d].item \in Item
    <3>1. asDeal[d] \in Taker
      OBVIOUS
    <3>. QED BY <2>1, <3>1 DEF Taker
  <2>. QED BY <2>1 DEF Item
<1>3. \A d \in AsThreads : /\ d # c /\ asDeal[d].at = "got" /\ rec.at = "got"
                           /\ asDeal[d].item.id = rec.item.id
                           => rec.item.id = 0
  BY <1>2 DEF DealIds
<1>4. DealOne'
  BY <1>1, <1>3 DEF DealOne
<1>5. \A id \in DealIds' : id \in DealIds \/ (rec.at = "got" /\ id = rec.item.id)
  BY <1>1 DEF DealIds
<1>. QED BY <1>4, <1>5

-----------------------------------------------------------------------------
(* The kernel, the loop and the rest *)

LEMMA KernelFrame == ASSUME KernelInv, UNCHANGED asKernel PROVE KernelInv'
  BY DEF KernelInv, asKernel

LEMMA KernelClosed == ASSUME KernelInv, NEW f \in AsFds, Closed(f) PROVE KernelInv'
<1>1. /\ asConn \in [AsFds -> Nat] /\ asRx \in [AsFds -> 0..Cap] /\ asFin \in [AsFds -> BOOLEAN]
      /\ asConns \in Nat /\ asBacklog \in 0..asConns /\ Cap \in Nat
  BY AsAssumption DEF KernelInv
<1>2. /\ asConn' = [asConn EXCEPT ![f] = 0] /\ asRx' = [asRx EXCEPT ![f] = 0]
      /\ asFin' = [asFin EXCEPT ![f] = FALSE] /\ asFull' \subseteq asFull /\ asEdge' \subseteq asEdge
      /\ UNCHANGED <<asConns, asBacklog>>
  BY DEF Closed
<1>3. asConn' \in [AsFds -> Nat] /\ asConn'[f] = 0 /\ \A g \in AsFds : g # f => asConn'[g] = asConn[g]
  BY <1>1, <1>2
<1>4. asRx' \in [AsFds -> 0..Cap]
  BY <1>1, <1>2
<1>5. asFin' \in [AsFds -> BOOLEAN]
  BY <1>1, <1>2
<1>6. \A g \in AsFds : asConn'[g] <= asConns - asBacklog
  BY <1>1, <1>3 DEF KernelInv
<1>7. \A g, h \in AsFds : g # h /\ asConn'[g] = asConn'[h] => asConn'[g] = 0
  BY <1>3 DEF KernelInv
<1>. QED BY <1>2, <1>3, <1>4, <1>5, <1>6, <1>7 DEF KernelInv

LEMMA KernelWorld ==
    ASSUME KernelInv, Connect \/ \E f \in AsFds : PeerSends(f) \/ PeerCloses(f) \/ Drained(f)
    PROVE  KernelInv'
<1>0. /\ asRx \in [AsFds -> 0..Cap] /\ asFin \in [AsFds -> BOOLEAN]
      /\ asConns \in 0..MaxConn /\ asBacklog \in 0..asConns /\ Cap \in Nat /\ MaxConn \in Nat
  BY AsAssumption DEF KernelInv
<1>1. CASE Connect
  <2>1. /\ asConns' = asConns + 1 /\ asBacklog' = asBacklog + 1 /\ asConns < MaxConn
        /\ asEdge' = asEdge \cup {Listener} /\ UNCHANGED <<asConn, asRx, asFin, asFull>>
    BY <1>1 DEF Connect
  <2>2. asConns' \in 0..MaxConn /\ asBacklog' \in 0..asConns' /\ asConns' - asBacklog' = asConns - asBacklog
    BY <1>0, <2>1
  <2>. QED BY <2>1, <2>2 DEF KernelInv
<1>2. ASSUME NEW f \in AsFds, PeerSends(f) PROVE KernelInv'
  <2>1. PICK n \in 1..(Cap - asRx[f]) : asRx' = [asRx EXCEPT ![f] = @ + n]
    BY <1>2 DEF PeerSends
  <2>2. asRx[f] + n \in 0..Cap
    BY <1>0
  <2>3. asRx' \in [AsFds -> 0..Cap]
    BY <1>0, <2>1, <2>2
  <2>4. asEdge' = asEdge \cup {f} /\ UNCHANGED <<asConn, asConns, asBacklog, asFin, asFull>>
    BY <1>2 DEF PeerSends
  <2>. QED BY <2>3, <2>4 DEF KernelInv
<1>3. ASSUME NEW f \in AsFds, PeerCloses(f) PROVE KernelInv'
  <2>1. /\ asFin' = [asFin EXCEPT ![f] = TRUE] /\ asEdge' = asEdge \cup {f}
        /\ UNCHANGED <<asConn, asConns, asBacklog, asRx, asFull>>
    BY <1>3 DEF PeerCloses
  <2>2. asFin' \in [AsFds -> BOOLEAN]
    BY <1>0, <2>1
  <2>. QED BY <2>1, <2>2 DEF KernelInv
<1>4. ASSUME NEW f \in AsFds, Drained(f) PROVE KernelInv'
  BY <1>4 DEF Drained, KernelInv
<1>. QED BY <1>1, <1>2, <1>3, <1>4

\* A new connection has a number above all others.
LEMMA KernelAccept == ASSUME KernelInv, LoopInv, on_accept_callback PROVE KernelInv' /\ LoopInv'
<1>0. /\ asConn \in [AsFds -> Nat] /\ asRx \in [AsFds -> 0..Cap] /\ asFin \in [AsFds -> BOOLEAN]
      /\ asConns \in Nat /\ asBacklog \in 0..asConns /\ Cap \in Nat
      /\ \A g \in AsFds : asConn[g] <= asConns - asBacklog
  BY AsAssumption DEF KernelInv
<1>1. UNCHANGED <<asConns, asFull>>
  BY DEF on_accept_callback
<1>2. CASE asEdge' = asEdge \ {Listener} /\ UNCHANGED <<asLoop, asConn, asBacklog, asRx, asFin>>
  BY <1>1, <1>2 DEF KernelInv, LoopInv
<1>3. ASSUME NEW f \in AsFds, asBacklog > 0, asConn[f] = 0, asBacklog' = asBacklog - 1,
             asConn' = [asConn EXCEPT ![f] = asConns - asBacklog + 1],
             asRx' = [asRx EXCEPT ![f] = 0], asFin' = [asFin EXCEPT ![f] = FALSE],
             asEdge' = (asEdge \ {Listener}) \cup {f}, InLoop("accepted", f)
      PROVE  KernelInv' /\ LoopInv'
  <2>1. PICK n : n = asConns - asBacklog + 1
    OBVIOUS
  <2>2. n \in Nat \ {0} /\ asBacklog' \in 0..asConns /\ asConns - asBacklog' = n
        /\ \A g \in AsFds : asConn[g] < n
    BY <1>0, <1>3, <2>1
  <2>3. asConn' \in [AsFds -> Nat] /\ asConn'[f] = n /\ \A g \in AsFds : g # f => asConn'[g] = asConn[g]
    BY <1>0, <1>3, <2>1, <2>2
  <2>4. asRx' \in [AsFds -> 0..Cap]
    BY <1>0, <1>3
  <2>5. asFin' \in [AsFds -> BOOLEAN]
    BY <1>0, <1>3
  <2>6. \A g \in AsFds : asConn'[g] <= n
    BY <1>0, <2>2, <2>3
  <2>7. \A g \in AsFds : asConn[g] \in Nat /\ asConn[g] # n
    BY <1>0, <2>2
  <2>8. \A g, h \in AsFds : g # h /\ asConn'[g] = asConn'[h] => asConn'[g] = 0
    BY <2>3, <2>7 DEF KernelInv
  <2>9. KernelInv'
    BY <1>1, <1>3, <2>2, <2>3, <2>4, <2>5, <2>6, <2>8 DEF KernelInv
  <2>10. asLoop' \in LoopState /\ asLoop'.fd = f
    BY <1>3 DEF InLoop, LoopInv, LoopState
  <2>. QED BY <2>9, <2>10 DEF LoopInv
<1>. QED BY <1>2, <1>3 DEF on_accept_callback

LEMMA LoopFrame == ASSUME LoopInv, UNCHANGED asLoop PROVE LoopInv'
  BY DEF LoopInv

LEMMA CoreFrame ==
    ASSUME CoreInv, UNCHANGED <<asRq, asWq, asPool, asData, asDeal, asReq>> PROVE CoreInv'
<1>1. QueueOK(asRq)' /\ QueueOK(asWq)' /\ QueOne(asRq)' /\ QueOne(asWq)'
      /\ QueIds(asRq)' = QueIds(asRq) /\ QueIds(asWq)' = QueIds(asWq)
  BY DEF CoreInv, OwnInv
<1>2. PoolInv' /\ PoolOne' /\ PoolIds' = PoolIds
  BY DEF CoreInv, OwnInv, PoolInv, PoolOne, PoolIds
<1>3. ListInv' /\ ListOne(asData)' /\ DealOne' /\ ListIds(asData)' = ListIds(asData) /\ DealIds' = DealIds
  BY DEF CoreInv, OwnInv, ListInv, DealOne, DealIds
<1>. QED BY <1>1, <1>2, <1>3 DEF CoreInv, OwnInv

LEMMA PoolFrame == ASSUME PoolInv, PoolOne, UNCHANGED asPool PROVE PoolInv' /\ PoolOne' /\ PoolIds' = PoolIds
  BY DEF PoolInv, PoolOne, PoolIds

LEMMA DealFrame ==
    ASSUME asDeal \in [AsThreads -> Taker], DealOne, UNCHANGED asDeal
    PROVE  asDeal' \in [AsThreads -> Taker] /\ DealOne' /\ DealIds' = DealIds
  BY DEF DealOne, DealIds

LEMMA CoreParts ==
    ASSUME CoreInv
    PROVE  /\ QueueOK(asRq) /\ QueueOK(asWq) /\ QueOne(asRq) /\ QueOne(asWq) /\ PoolInv /\ PoolOne
           /\ asData \in Seq(Item) /\ ListOne(asData) /\ asDeal \in [AsThreads -> Taker] /\ DealOne
           /\ Owned(QueIds(asRq), QueIds(asWq), PoolIds, ListIds(asData), DealIds, asReq)
  BY DEF CoreInv, OwnInv, ListInv

LEMMA CoreJoined ==
    ASSUME QueueOK(asRq)', QueueOK(asWq)', QueOne(asRq)', QueOne(asWq)', PoolInv', PoolOne',
           asData' \in Seq(Item), ListOne(asData)', asDeal' \in [AsThreads -> Taker], DealOne',
           Owned(QueIds(asRq)', QueIds(asWq)', PoolIds', ListIds(asData)', DealIds', asReq')
    PROVE  CoreInv'
  BY DEF CoreInv, OwnInv, ListInv

LEMMA Produced ==
    ASSUME CoreInv, NEW c \in Item, c.id = 0 \/ c.id \notin ListIds(asData), ProduceNode(c)
    PROVE  asData' \in Seq(Item) /\ ListOne(asData)' /\ ListIds(asData)' \subseteq ListIds(asData) \cup {c.id}
<1>0. asData \in Seq(Item) /\ ListOne(asData)
  BY CoreParts
<1>1. CASE asData' = asData
  BY <1>0, <1>1
<1>2. CASE asData' = Append(asData, c)
  <2>1. PICK l, t : l = asData /\ t = asData'
    OBVIOUS
  <2>2. t \in Seq(Item) /\ ListOne(t) /\ ListIds(t) \subseteq ListIds(l) \cup {c.id}
    BY <1>0, <1>2, <2>1, ListAppended
  <2>. QED BY <2>1, <2>2
<1>. QED BY <1>1, <1>2 DEF ProduceNode

LEMMA ItemDone ==
    ASSUME KernelInv, NEW op \in {"accept", "exit", "read", "write"}, NEW f \in AsFds, NEW id \in Nat
    PROVE  Done(op, f, id) \in Item /\ Done(op, f, id).id = id
<1>1. asConn[f] \in Nat
  BY DEF KernelInv
<1>. QED BY <1>1 DEF Done, Item

-----------------------------------------------------------------------------
(* The steps *)

\* Completions of accept and exit are no requests.
LEMMA NoZero == 0 \notin ListIds(asData) /\ 0 \notin ListIds(asData)'
  BY DEF ListIds

LEMMA StepHandle ==
    ASSUME AInv, HandleThread, UNCHANGED <<asPool, asDeal, asKnown, asReq>> PROVE AInv'
<1>0. CoreInv /\ LoopInv /\ KernelInv /\ StateInv
  BY DEF AInv
<1>1. CASE /\ asLoop.at = "wait" /\ InLoop("off", Listener)
           /\ UNCHANGED <<asRun, asCrash, asData, asQueues, asTasks, asKernel>>
  <2>1. LoopInv'
    BY <1>0, <1>1 DEF LoopInv, InLoop, LoopState
  <2>2. StateInv'
    BY <1>0, <1>1 DEF StateInv
  <2>. QED BY <1>0, <1>1, <2>1, <2>2, CoreFrame, KernelFrame DEF AInv, asQueues
<1>2. CASE /\ asLoop.at = "accepted" /\ InLoop("entering", asLoop.fd)
           /\ ProduceNode(Done("accept", asLoop.fd, 0)) /\ UNCHANGED <<asQueues, asTasks, asKernel>>
  <2>1. LoopInv'
    BY <1>0, <1>2 DEF LoopInv, InLoop, LoopState
  <2>2. StateInv'
    BY <1>0, <1>2 DEF StateInv, ProduceNode
  <2>3. CoreInv'
    <3>1. PICK c : c = Done("accept", asLoop.fd, 0)
      OBVIOUS
    <3>2. asLoop.fd \in AsFds
      BY <1>0, <1>2 DEF LoopInv
    <3>3. c \in Item /\ c.id = 0
      BY <1>0, <3>1, <3>2, ItemDone
    <3>4. /\ asData' \in Seq(Item) /\ ListOne(asData)'
          /\ ListIds(asData)' \subseteq ListIds(asData) \cup {0}
      BY <1>0, <1>2, <3>1, <3>3, Produced
    <3>5. ListIds(asData)' \subseteq ListIds(asData)
      BY <3>4, NoZero
    <3>6. asRq' = asRq /\ asWq' = asWq
      BY <1>2 DEF asQueues
    <3>7. PoolInv' /\ PoolOne' /\ PoolIds' = PoolIds /\ asDeal' \in [AsThreads -> Taker] /\ DealOne'
          /\ DealIds' = DealIds
      BY <1>0, CoreParts, PoolFrame, DealFrame
    <3>8. Owned(QueIds(asRq)', QueIds(asWq)', PoolIds', ListIds(asData)', DealIds', asReq')
      <4>1. Owned(QueIds(asRq), QueIds(asWq), PoolIds, ListIds(asData), DealIds, asReq)
        BY <1>0, CoreParts
      <4>. QED BY <3>5, <3>6, <3>7, <4>1 DEF Owned, Apart
    <3>. QED BY <1>0, <3>4, <3>6, <3>7, <3>8, CoreParts, CoreJoined
  <2>. QED BY <1>0, <1>2, <2>1, <2>2, <2>3, KernelFrame DEF AInv
<1>3. CASE /\ asLoop.at = "entering" /\ InLoop("wait", Listener)
           /\ asRq' = AppendNew(asRq, asLoop.fd) /\ asWq' = AppendNew(asWq, asLoop.fd)
           /\ UNCHANGED <<asRun, asCrash, asData, asTasks, asKernel>>
  <2>1. LoopInv'
    BY <1>0, <1>3 DEF LoopInv, InLoop, LoopState
  <2>2. StateInv'
    BY <1>0, <1>3 DEF StateInv
  <2>3. CoreInv'
    <3>1. PICK f, r, w, s, v : f = asLoop.fd /\ r = asRq /\ w = asWq /\ s = asRq' /\ v = asWq'
      OBVIOUS
    <3>2. f \in AsFds
      BY <1>0, <1>3, <3>1 DEF LoopInv
    <3>3. QueueOK(r) /\ QueueOK(w) /\ QueOne(r) /\ QueOne(w)
      BY <1>0, <3>1, CoreParts
    <3>4. s = AppendNew(r, f) /\ v = AppendNew(w, f)
      BY <1>3, <3>1
    <3>5. QueueOK(s) /\ QueOne(s) /\ QueIds(s) \subseteq QueIds(r)
      BY <3>2, <3>3, <3>4, Entered
    <3>6. QueueOK(v) /\ QueOne(v) /\ QueIds(v) \subseteq QueIds(w)
      BY <3>2, <3>3, <3>4, Entered
    <3>7. PoolInv' /\ PoolOne' /\ PoolIds' = PoolIds /\ asDeal' \in [AsThreads -> Taker] /\ DealOne'
          /\ DealIds' = DealIds
      BY <1>0, CoreParts, PoolFrame, DealFrame
    <3>8. Owned(QueIds(asRq)', QueIds(asWq)', PoolIds', ListIds(asData)', DealIds', asReq')
      <4>1. Owned(QueIds(asRq), QueIds(asWq), PoolIds, ListIds(asData), DealIds, asReq)
        BY <1>0, CoreParts
      <4>2. asData' = asData
        BY <1>3
      <4>3. QueIds(asRq)' \subseteq QueIds(asRq) /\ QueIds(asWq)' \subseteq QueIds(asWq)
        BY <3>1, <3>5, <3>6
      <4>. QED BY <3>7, <4>1, <4>2, <4>3 DEF Owned, Apart
    <3>9. asData' \in Seq(Item) /\ ListOne(asData)'
      BY <1>0, <1>3, CoreParts
    <3>. QED BY <3>1, <3>5, <3>6, <3>7, <3>8, <3>9, CoreJoined
  <2>. QED BY <1>0, <1>3, <2>1, <2>2, <2>3, KernelFrame DEF AInv
<1>4. CASE /\ \E f \in asEdge \ {Listener} :
                 /\ asEdge' = asEdge \ {f}
                 /\ asTasks' = Submitted([fd |-> f, read |-> asRx[f] > 0 \/ asFin[f]])
           /\ UNCHANGED <<asRun, asCrash, asData, asQueues, asLoop, asConn, asConns, asBacklog, asRx, asFin, asFull>>
  <2>1. PICK f \in asEdge \ {Listener} :
                 /\ asEdge' = asEdge \ {f}
                 /\ asTasks' = Submitted([fd |-> f, read |-> asRx[f] > 0 \/ asFin[f]])
    BY <1>4
  <2>2. KernelInv'
    BY <1>0, <1>4, <2>1 DEF KernelInv
  <2>3. StateInv'
    <3>1. PICK t : t = [fd |-> f, read |-> asRx[f] > 0 \/ asFin[f]]
      OBVIOUS
    <3>2. f \in AsFds /\ (asRx[f] > 0 \/ asFin[f]) \in BOOLEAN
      BY <1>0 DEF KernelInv
    <3>3. t \in PoolTask
      BY <3>1, <3>2 DEF PoolTask
    <3>4. asTasks' \in Seq(PoolTask)
      BY <1>0, <2>1, <3>1, <3>3 DEF StateInv, Submitted
    <3>. QED BY <1>0, <1>4, <3>4 DEF StateInv
  <2>. QED BY <1>0, <1>4, <2>2, <2>3, CoreFrame, LoopFrame DEF AInv, asQueues
<1>. QED BY <1>1, <1>2, <1>3, <1>4 DEF HandleThread

LEMMA Freed ==
    /\ FreeThread \in Thread /\ FreeThread.got <= Cap /\ FreeThread.at = "free"
    /\ FreeThread.node = NoNode /\ FreeThread.node.id = 0
<1>1. FreeThread \in Thread /\ FreeThread.got = 0 /\ FreeThread.at = "free" /\ FreeThread.node = NoNode
  BY DEF FreeThread, Thread, Stages, AnyNode
<1>2. NoNode.id = 0
  BY DEF NoNode
<1>. QED BY <1>1, <1>2, AsAssumption

\* A pool thread pops a request of read or write queue que, which becomes q, and serves it.
LEMMA Serve ==
    ASSUME CoreInv, NEW w \in AsPool, NEW f \in AsFds, asPool[w].node = NoNode,
           NEW que, NEW q, que \in {asRq, asWq}, q = Popped(que, f), NEW at \in {"recv", "send"},
           NEW node, node = FrontNode(que, f), NEW rec, At(w, rec),
           \/ rec = FreeThread
           \/ /\ node.valid /\ rec.at = at /\ rec.fd = f /\ rec.node = node /\ rec.got = 0
              /\ node \in Node => rec \in Thread
    PROVE  /\ QueueOK(q) /\ QueOne(q) /\ QueIds(q) \subseteq QueIds(que) /\ PoolInv' /\ PoolOne'
           /\ \A id \in PoolIds' : id \in PoolIds \/ (id \in QueIds(que) /\ id \notin QueIds(q))
<1>2. QueueOK(que) /\ QueOne(que) /\ PoolInv /\ PoolOne
  BY CoreParts
<1>3. /\ QueueOK(q) /\ QueOne(q) /\ QueIds(q) \subseteq QueIds(que)
      /\ \/ node = NoNode
         \/ node \in Node /\ node.id \in QueIds(que) /\ node.id \notin QueIds(q)
  BY <1>2, Taken
<1>4. Cap \in Nat
  BY AsAssumption
<1>5. CASE rec = FreeThread
  <2>2. rec \in Thread /\ rec.got <= Cap /\ rec.at = "free" /\ rec.node = NoNode /\ rec.node.id = 0
    BY <1>5, Freed
  <2>3. PoolInv' /\ PoolOne' /\ PoolIds' \subseteq PoolIds \cup {rec.node.id}
    BY <1>2, <2>2, PoolMoved
  <2>4. PoolIds' \subseteq PoolIds
    BY <2>2, <2>3 DEF PoolIds
  <2>. QED BY <1>3, <2>3, <2>4
<1>6. CASE /\ node.valid /\ rec.at = at /\ rec.fd = f /\ rec.node = node /\ rec.got = 0
           /\ node \in Node => rec \in Thread
  <2>1. node # NoNode
    BY <1>6 DEF NoNode
  <2>2. node \in Node /\ node.id \in QueIds(que) /\ node.id \notin QueIds(q)
    BY <1>3, <2>1
  <2>3. rec \in Thread /\ rec.got = 0 /\ rec.fd = f /\ rec.node = node /\ rec.at \in {"recv", "send"}
    BY <1>6, <2>2
  <2>4. node.id \notin PoolIds
    <3>1. Owned(QueIds(asRq), QueIds(asWq), PoolIds, ListIds(asData), DealIds, asReq)
      BY CoreParts
    <3>. QED BY <2>2, <3>1 DEF Owned, Apart
  <2>5. rec.got <= Cap
    BY <1>4, <2>3
  <2>6. PoolInv' /\ PoolOne' /\ PoolIds' \subseteq PoolIds \cup {rec.node.id}
    BY <1>2, <2>2, <2>3, <2>4, <2>5, PoolMoved
  <2>. QED BY <1>3, <2>2, <2>3, <2>6
<1>. QED BY <1>5, <1>6

LEMMA TaskRemoved ==
    ASSUME StateInv, NEW i \in 1..Len(asTasks)
    PROVE  RemoveAt(asTasks, i) \in Seq(PoolTask) /\ asTasks[i] \in PoolTask
<1>1. asTasks \in Seq(PoolTask) /\ Len(asTasks) \in Nat
  BY DEF StateInv
<1>2. \A k \in 1..(i - 1) : asTasks[k] \in PoolTask
  BY <1>1
<1>3. \A k \in (i + 1)..Len(asTasks) : asTasks[k] \in PoolTask
  BY <1>1
<1>4. SubSeq(asTasks, 1, i - 1) \in Seq(PoolTask)
  <2>1. PICK n : n = i - 1
    OBVIOUS
  <2>2. n \in Int /\ 1 \in Int /\ \A k \in 1..n : asTasks[k] \in PoolTask
    BY <1>1, <1>2, <2>1
  <2>3. SubSeq(asTasks, 1, n) \in Seq(PoolTask)
    BY <2>2, SubSeqProperties
  <2>. QED BY <2>1, <2>3
<1>5. SubSeq(asTasks, i + 1, Len(asTasks)) \in Seq(PoolTask)
  <2>1. PICK m, n : m = i + 1 /\ n = Len(asTasks)
    OBVIOUS
  <2>2. n \in Int /\ m \in Int /\ \A k \in m..n : asTasks[k] \in PoolTask
    BY <1>1, <1>3, <2>1
  <2>3. SubSeq(asTasks, m, n) \in Seq(PoolTask)
    BY <2>2, SubSeqProperties
  <2>. QED BY <2>1, <2>3
<1>6. asTasks[i] \in PoolTask
  BY <1>1
<1>. QED BY <1>4, <1>5, <1>6 DEF RemoveAt

LEMMA CrashType == ASSUME StateInv, NEW que, NEW f, EmptyPop(que, f) PROVE asCrash' \in BOOLEAN
  BY DEF StateInv, EmptyPop

LEMMA StepTake == ASSUME AInv, NEW w \in AsPool, TakeTask(w) PROVE AInv'
<1>0. CoreInv /\ LoopInv /\ KernelInv /\ StateInv
  BY DEF AInv
<1>n. asPool[w].node = NoNode
  BY <1>0 DEF CoreInv, PoolInv, TakeTask
<1>1. PICK i \in 1..Len(asTasks) :
          LET t == asTasks[i]
              que == IF t.read THEN asRq ELSE asWq
              node == FrontNode(que, t.fd)
          IN  /\ asTasks' = RemoveAt(asTasks, i)
              /\ At(w, IF node.valid
                       THEN [at |-> IF t.read THEN "recv" ELSE "send", fd |-> t.fd, node |-> node, got |-> 0]
                       ELSE FreeThread)
              /\ asRq' = IF t.read THEN Popped(asRq, t.fd) ELSE asRq
              /\ asWq' = IF t.read THEN asWq ELSE Popped(asWq, t.fd)
              /\ EmptyPop(que, t.fd)
  BY DEF TakeTask
<1>2. UNCHANGED <<asRun, asData, asLoop, asDeal, asKnown, asReq, asKernel>>
  BY DEF TakeTask
<1>3. PICK f : f = asTasks[i].fd
  OBVIOUS
<1>4. f \in AsFds /\ asTasks' \in Seq(PoolTask)
  <2>1. asTasks[i] \in PoolTask /\ asTasks' \in Seq(PoolTask)
    BY <1>0, <1>1, TaskRemoved
  <2>. QED BY <1>3, <2>1 DEF PoolTask
<1>5. StateInv'
  <2>1. asCrash' \in BOOLEAN
    BY <1>0, <1>1, CrashType
  <2>. QED BY <1>0, <1>2, <1>4, <2>1 DEF StateInv
<1>6. asData' \in Seq(Item) /\ ListOne(asData)' /\ asDeal' \in [AsThreads -> Taker] /\ DealOne'
      /\ DealIds' = DealIds /\ ListIds(asData)' = ListIds(asData) /\ asReq' = asReq
  BY <1>0, <1>2, CoreParts, DealFrame
<1>7. Owned(QueIds(asRq), QueIds(asWq), PoolIds, ListIds(asData), DealIds, asReq)
  BY <1>0, CoreParts
<1>8. CASE asTasks[i].read
  <2>1. PICK node, rec : /\ node = FrontNode(asRq, f)
                         /\ rec = IF node.valid THEN [at |-> "recv", fd |-> f, node |-> node, got |-> 0] ELSE FreeThread
    OBVIOUS
  <2>n. \/ rec = FreeThread
        \/ /\ node.valid /\ rec.at = "recv" /\ rec.fd = f /\ rec.node = node /\ rec.got = 0
           /\ node \in Node => rec \in Thread
    BY <1>4, <2>1 DEF Thread, Stages, AnyNode
  <2>2. asRq' = Popped(asRq, f) /\ asWq' = asWq /\ At(w, rec)
    BY <1>1, <1>3, <1>8, <2>1
  <2>3. PICK r, q : r = asRq /\ q = asRq'
    OBVIOUS
  <2>4. /\ QueueOK(q) /\ QueOne(q) /\ QueIds(q) \subseteq QueIds(r) /\ PoolInv' /\ PoolOne'
        /\ \A id \in PoolIds' : id \in PoolIds \/ (id \in QueIds(r) /\ id \notin QueIds(q))
    <3>1. r \in {asRq, asWq} /\ q = Popped(r, f) /\ node = FrontNode(r, f) /\ At(w, rec)
      BY <2>1, <2>2, <2>3
    <3>2. CoreInv /\ f \in AsFds /\ asPool[w].node = NoNode
      BY <1>0, <1>4, <1>n
    <3>. QED BY <2>n, <3>1, <3>2, Serve
  <2>5. Owned(QueIds(asRq)', QueIds(asWq)', PoolIds', ListIds(asData)', DealIds', asReq')
    BY <1>6, <1>7, <2>2, <2>3, <2>4 DEF Owned, Apart
  <2>6. CoreInv'
    BY <1>0, <1>6, <2>2, <2>3, <2>4, <2>5, CoreParts, CoreJoined
  <2>. QED BY <1>0, <1>2, <1>5, <2>6, LoopFrame, KernelFrame DEF AInv
<1>9. CASE ~ asTasks[i].read
  <2>1. PICK node, rec : /\ node = FrontNode(asWq, f)
                         /\ rec = IF node.valid THEN [at |-> "send", fd |-> f, node |-> node, got |-> 0] ELSE FreeThread
    OBVIOUS
  <2>n. \/ rec = FreeThread
        \/ /\ node.valid /\ rec.at = "send" /\ rec.fd = f /\ rec.node = node /\ rec.got = 0
           /\ node \in Node => rec \in Thread
    BY <1>4, <2>1 DEF Thread, Stages, AnyNode
  <2>2. asWq' = Popped(asWq, f) /\ asRq' = asRq /\ At(w, rec)
    BY <1>1, <1>3, <1>9, <2>1
  <2>3. PICK r, q : r = asWq /\ q = asWq'
    OBVIOUS
  <2>4. /\ QueueOK(q) /\ QueOne(q) /\ QueIds(q) \subseteq QueIds(r) /\ PoolInv' /\ PoolOne'
        /\ \A id \in PoolIds' : id \in PoolIds \/ (id \in QueIds(r) /\ id \notin QueIds(q))
    <3>1. r \in {asRq, asWq} /\ q = Popped(r, f) /\ node = FrontNode(r, f) /\ At(w, rec)
      BY <2>1, <2>2, <2>3
    <3>2. CoreInv /\ f \in AsFds /\ asPool[w].node = NoNode
      BY <1>0, <1>4, <1>n
    <3>. QED BY <2>n, <3>1, <3>2, Serve
  <2>5. Owned(QueIds(asRq)', QueIds(asWq)', PoolIds', ListIds(asData)', DealIds', asReq')
    BY <1>6, <1>7, <2>2, <2>3, <2>4 DEF Owned, Apart
  <2>6. CoreInv'
    BY <1>0, <1>6, <2>2, <2>3, <2>4, <2>5, CoreParts, CoreJoined
  <2>. QED BY <1>0, <1>2, <1>5, <2>6, LoopFrame, KernelFrame DEF AInv
<1>. QED BY <1>8, <1>9

LEMMA StepNext ==
    ASSUME AInv, NEW w \in AsPool, NextRequest(w),
           UNCHANGED <<asWq, asTasks, asLoop, asDeal, asKnown, asReq>>
    PROVE  AInv'
<1>0. CoreInv /\ LoopInv /\ KernelInv /\ StateInv
  BY DEF AInv
<1>n. asPool[w].node = NoNode
  BY <1>0 DEF CoreInv, PoolInv, NextRequest
<1>1. PICK f : f = asPool[w].fd
  OBVIOUS
<1>2. f \in AsFds /\ asPool[w] \in Thread
  BY <1>0, <1>1 DEF CoreInv, PoolInv, NextRequest
<1>3. PICK node, rec :
          /\ node = FrontNode(asRq, f)
          /\ rec = IF node.valid THEN [asPool[w] EXCEPT !.at = "recv", !.node = node, !.got = 0] ELSE FreeThread
  OBVIOUS
<1>4. asRq' = Popped(asRq, f) /\ At(w, rec) /\ UNCHANGED <<asRun, asData, asKernel>> /\ EmptyPop(asRq, f)
  BY <1>1, <1>3 DEF NextRequest
<1>r. \/ rec = FreeThread
      \/ /\ node.valid /\ rec.at = "recv" /\ rec.fd = f /\ rec.node = node /\ rec.got = 0
         /\ node \in Node => rec \in Thread
  BY <1>1, <1>2, <1>3 DEF Thread, Stages, AnyNode
<1>5. StateInv'
  BY <1>0, <1>4, CrashType DEF StateInv
<1>6. asData' \in Seq(Item) /\ ListOne(asData)' /\ asDeal' \in [AsThreads -> Taker] /\ DealOne'
      /\ DealIds' = DealIds /\ ListIds(asData)' = ListIds(asData) /\ asReq' = asReq
  BY <1>0, <1>4, CoreParts, DealFrame
<1>7. Owned(QueIds(asRq), QueIds(asWq), PoolIds, ListIds(asData), DealIds, asReq)
  BY <1>0, CoreParts
<1>8. PICK r, q : r = asRq /\ q = asRq'
  OBVIOUS
<1>9. /\ QueueOK(q) /\ QueOne(q) /\ QueIds(q) \subseteq QueIds(r) /\ PoolInv' /\ PoolOne'
      /\ \A id \in PoolIds' : id \in PoolIds \/ (id \in QueIds(r) /\ id \notin QueIds(q))
  <2>1. r \in {asRq, asWq} /\ q = Popped(r, f) /\ node = FrontNode(r, f) /\ At(w, rec)
    BY <1>3, <1>4, <1>8
  <2>2. CoreInv /\ f \in AsFds /\ asPool[w].node = NoNode
    BY <1>0, <1>2, <1>n
  <2>. QED BY <1>r, <2>1, <2>2, Serve
<1>10. Owned(QueIds(asRq)', QueIds(asWq)', PoolIds', ListIds(asData)', DealIds', asReq')
  BY <1>6, <1>7, <1>8, <1>9 DEF Owned, Apart
<1>11. CoreInv'
  BY <1>0, <1>6, <1>8, <1>9, <1>10, CoreParts, CoreJoined
<1>. QED BY <1>0, <1>4, <1>5, <1>11, LoopFrame, KernelFrame DEF AInv

\* A thread gives its request back to the queue que, which becomes q.
LEMMA PutBack ==
    ASSUME CoreInv, NEW w \in AsPool, asPool[w].at \in {"recv", "send"}, NEW f \in AsFds,
           NEW que \in {asRq, asWq}, NEW node \in {asPool[w].node},
           NEW q \in {PushBack(que, f, node)}, At(w, FreeThread)
    PROVE  /\ QueueOK(q) /\ QueOne(q) /\ PoolInv' /\ PoolOne' /\ PoolIds' \subseteq PoolIds
           /\ \A id \in QueIds(q) : id \in QueIds(que) \/ (id \in PoolIds /\ id \notin PoolIds')
<1>1. QueueOK(que) /\ QueOne(que) /\ PoolInv /\ PoolOne
  BY CoreParts
<1>2. node = asPool[w].node
  OBVIOUS
<1>3. node \in Node
  BY <1>1, <1>2 DEF PoolInv
<1>4. node.id \in Nat \ {0}
  BY <1>3 DEF Node
<1>5. /\ PoolInv' /\ PoolOne' /\ PoolIds' \subseteq PoolIds \cup {0}
      /\ node.id \notin PoolIds' /\ node.id \in PoolIds
  <2>1. PICK rec : rec = FreeThread
    OBVIOUS
  <2>2. rec \in Thread /\ rec.got <= Cap /\ rec.at = "free" /\ rec.node = NoNode /\ rec.node.id = 0 /\ At(w, rec)
    BY <2>1, Freed
  <2>3. /\ PoolInv' /\ PoolOne' /\ PoolIds' \subseteq PoolIds \cup {rec.node.id}
        /\ rec.node.id # asPool[w].node.id => asPool[w].node.id \notin PoolIds'
        /\ asPool[w].node.id = 0 \/ asPool[w].node.id \in PoolIds
    BY <1>1, <2>2, PoolMoved
  <2>. QED BY <1>2, <1>4, <2>2, <2>3
<1>6. PoolIds' \subseteq PoolIds
  BY <1>5 DEF PoolIds
<1>7. node.id \notin QueIds(que)
  <2>1. Owned(QueIds(asRq), QueIds(asWq), PoolIds, ListIds(asData), DealIds, asReq)
    BY CoreParts
  <2>. QED BY <1>5, <2>1 DEF Owned, Apart
<1>8. QueueOK(q) /\ QueOne(q) /\ QueIds(q) \subseteq QueIds(que) \cup {node.id}
  BY <1>1, <1>2, <1>3, <1>7, Pushed
<1>. QED BY <1>5, <1>6, <1>8

\* A thread reports its request: the completion has its number.
LEMMA Reported ==
    ASSUME CoreInv, KernelInv, NEW w \in AsPool, asPool[w].at \in {"recv", "send"},
           NEW op \in {"read", "write"}, ProduceNode(Done(op, asPool[w].fd, asPool[w].node.id)),
           NEW rec \in Thread, rec.got <= Cap, rec.at \notin {"recv", "send"}, rec.node = NoNode,
           rec.at # "free" => rec.fd \in AsFds, At(w, rec)
    PROVE  /\ PoolInv' /\ PoolOne' /\ PoolIds' \subseteq PoolIds /\ asData' \in Seq(Item) /\ ListOne(asData)'
           /\ \A id \in ListIds(asData)' : id \in ListIds(asData) \/ (id \in PoolIds /\ id \notin PoolIds')
<1>1. PoolInv /\ PoolOne
  BY CoreParts
<1>2. PICK f, n : f = asPool[w].fd /\ n = asPool[w].node.id
  OBVIOUS
<1>3. f \in AsFds /\ n \in Nat \ {0}
  <2>1. f \in AsFds /\ asPool[w].node \in Node
    BY <1>1, <1>2 DEF PoolInv
  <2>. QED BY <1>2, <2>1 DEF Node
<1>4. NoNode.id = 0
  BY DEF NoNode
<1>5. /\ PoolInv' /\ PoolOne' /\ PoolIds' \subseteq PoolIds \cup {rec.node.id}
      /\ rec.node.id # asPool[w].node.id => asPool[w].node.id \notin PoolIds'
      /\ asPool[w].node.id = 0 \/ asPool[w].node.id \in PoolIds
  BY <1>1, <1>4, PoolMoved
<1>6. n \notin PoolIds' /\ n \in PoolIds
  BY <1>2, <1>3, <1>4, <1>5
<1>7. PoolIds' \subseteq PoolIds
  BY <1>4, <1>5 DEF PoolIds
<1>8. n \notin ListIds(asData)
  <2>1. Owned(QueIds(asRq), QueIds(asWq), PoolIds, ListIds(asData), DealIds, asReq)
    BY CoreParts
  <2>. QED BY <1>6, <2>1 DEF Owned, Apart
<1>9. PICK c : c = Done(op, f, n)
  OBVIOUS
<1>10. c \in Item /\ c.id = n
  BY <1>3, <1>9, ItemDone
<1>11. asData' \in Seq(Item) /\ ListOne(asData)' /\ ListIds(asData)' \subseteq ListIds(asData) \cup {c.id}
  BY <1>2, <1>8, <1>9, <1>10, Produced
<1>. QED BY <1>5, <1>6, <1>7, <1>10, <1>11

LEMMA ReadUnits ==
    ASSUME KernelInv, NEW f \in AsFds, NEW n \in 0..asRx[f], asRx' = [asRx EXCEPT ![f] = @ - n],
           UNCHANGED <<asConn, asConns, asBacklog, asFin, asFull, asEdge>>
    PROVE  KernelInv'
<1>1. asRx \in [AsFds -> 0..Cap] /\ Cap \in Nat
  BY AsAssumption DEF KernelInv
<1>2. asRx[f] - n \in 0..Cap
  BY <1>1
<1>3. asRx' \in [AsFds -> 0..Cap]
  BY <1>1, <1>2
<1>. QED BY <1>3 DEF KernelInv

LEMMA StepReader ==
    ASSUME AInv, NEW w \in AsPool, PostSockReader(w),
           UNCHANGED <<asWq, asTasks, asLoop, asDeal, asKnown, asReq>>
    PROVE  AInv'
<1>0. CoreInv /\ LoopInv /\ KernelInv /\ StateInv
  BY DEF AInv
<1>1. PICK p, f : p = asPool[w] /\ f = p.fd
  OBVIOUS
<1>2. p.at = "recv" /\ f \in AsFds /\ p \in Thread /\ p.got \in Nat /\ p.got <= Cap /\ p.node \in Node
  <2>1. p.at = "recv" /\ p \in Thread /\ f \in AsFds /\ p.got <= Cap /\ p.node \in Node
    BY <1>0, <1>1 DEF CoreInv, PoolInv, PostSockReader
  <2>. QED BY <2>1 DEF Thread
<1>3. PICK n : n = IF asRx[f] < Cap - p.got THEN asRx[f] ELSE Cap - p.got
  OBVIOUS
<1>4. asRx[f] \in 0..Cap /\ Cap \in Nat \ {0} /\ n \in 0..asRx[f] /\ n <= Cap - p.got
  <2>1. asRx[f] \in 0..Cap /\ Cap \in Nat \ {0}
    BY <1>0, <1>2, AsAssumption DEF KernelInv
  <2>. QED BY <1>2, <1>3, <2>1
<1>5. /\ LoopInv' /\ asDeal' \in [AsThreads -> Taker] /\ DealOne' /\ DealIds' = DealIds
      /\ QueueOK(asWq)' /\ QueOne(asWq)' /\ QueIds(asWq)' = QueIds(asWq)
  BY <1>0, LoopFrame, CoreParts, DealFrame
<1>6. Owned(QueIds(asRq), QueIds(asWq), PoolIds, ListIds(asData), DealIds, asReq)
  BY <1>0, CoreParts
<1>7. CASE /\ asRq' = PushBack(asRq, f, p.node) /\ At(w, FreeThread)
           /\ UNCHANGED <<asRun, asCrash, asData, asKernel>>
  <2>1. PICK r, q : r = asRq /\ q = asRq'
    OBVIOUS
  <2>2. /\ QueueOK(q) /\ QueOne(q) /\ PoolInv' /\ PoolOne' /\ PoolIds' \subseteq PoolIds
        /\ \A id \in QueIds(q) : id \in QueIds(r) \/ (id \in PoolIds /\ id \notin PoolIds')
    <3>1. PICK node : node = asPool[w].node
      OBVIOUS
    <3>2. /\ CoreInv /\ f \in AsFds /\ r \in {asRq, asWq} /\ node \in {asPool[w].node} /\ q \in {PushBack(r, f, node)}
          /\ asPool[w].at \in {"recv", "send"} /\ At(w, FreeThread)
      BY <1>0, <1>1, <1>2, <1>7, <2>1, <3>1
    <3>. QED BY <3>2, PutBack
  <2>3. asData' \in Seq(Item) /\ ListOne(asData)' /\ ListIds(asData)' = ListIds(asData)
    BY <1>0, <1>7, CoreParts
  <2>4. Owned(QueIds(asRq)', QueIds(asWq)', PoolIds', ListIds(asData)', DealIds', asReq')
    BY <1>5, <1>6, <2>1, <2>2, <2>3 DEF Owned, Apart
  <2>5. CoreInv'
    BY <1>5, <2>1, <2>2, <2>3, <2>4, CoreJoined
  <2>6. StateInv'
    BY <1>0, <1>7 DEF StateInv
  <2>. QED BY <1>0, <1>5, <1>7, <2>5, <2>6, KernelFrame DEF AInv
<1>8. CASE At(w, [p EXCEPT !.at = "close", !.node = NoNode]) /\ UNCHANGED <<asRun, asCrash, asData, asRq, asKernel>>
  <2>1. PICK rec : rec = [p EXCEPT !.at = "close", !.node = NoNode]
    OBVIOUS
  <2>2. rec \in Thread /\ rec.at = "close" /\ rec.fd = f /\ rec.node = NoNode /\ rec.got = p.got
    BY <1>1, <1>2, <2>1 DEF Thread, Stages, AnyNode
  <2>3. NoNode.id = 0
    BY DEF NoNode
  <2>4. PoolInv' /\ PoolOne' /\ PoolIds' \subseteq PoolIds \cup {rec.node.id}
    <3>1. PoolInv /\ PoolOne /\ At(w, rec) /\ rec.got <= Cap /\ rec.fd \in AsFds /\ rec.at \notin {"recv", "send"}
          /\ rec.node.id = 0
      BY <1>0, <1>2, <1>8, <2>1, <2>2, <2>3, CoreParts
    <3>. QED BY <2>2, <3>1, PoolMoved
  <2>5. PoolIds' \subseteq PoolIds
    BY <2>2, <2>3, <2>4 DEF PoolIds
  <2>6. asData' \in Seq(Item) /\ ListOne(asData)' /\ ListIds(asData)' = ListIds(asData)
        /\ QueueOK(asRq)' /\ QueOne(asRq)' /\ QueIds(asRq)' = QueIds(asRq)
    BY <1>0, <1>8, CoreParts
  <2>7. Owned(QueIds(asRq)', QueIds(asWq)', PoolIds', ListIds(asData)', DealIds', asReq')
    BY <1>5, <1>6, <2>5, <2>6 DEF Owned, Apart
  <2>8. CoreInv'
    BY <1>5, <2>4, <2>6, <2>7, CoreJoined
  <2>9. StateInv'
    BY <1>0, <1>8 DEF StateInv
  <2>. QED BY <1>0, <1>5, <1>8, <2>8, <2>9, KernelFrame DEF AInv
<1>9. CASE /\ n \in 1..(Cap - 1) /\ At(w, [p EXCEPT !.got = @ + n]) /\ asRx' = [asRx EXCEPT ![f] = @ - n]
           /\ UNCHANGED <<asRun, asCrash, asData, asRq, asConn, asConns, asBacklog, asFin, asFull, asEdge>>
  <2>1. PICK rec : rec = [p EXCEPT !.got = @ + n]
    OBVIOUS
  <2>g. p.got + n \in Nat /\ p.got + n <= Cap
    BY <1>2, <1>4
  <2>2. rec \in Thread /\ rec.at = "recv" /\ rec.fd = f /\ rec.node = p.node /\ rec.got = p.got + n
    BY <1>1, <1>2, <2>1, <2>g DEF Thread
  <2>4. PoolInv' /\ PoolOne' /\ PoolIds' \subseteq PoolIds \cup {rec.node.id} /\ rec.node.id \in PoolIds
    <3>1. PoolInv /\ PoolOne /\ At(w, rec) /\ rec.got <= Cap /\ rec.fd \in AsFds /\ rec.at = "recv"
          /\ rec.node = asPool[w].node /\ rec.node \in Node
      BY <1>0, <1>1, <1>2, <1>9, <2>1, <2>2, <2>g, CoreParts
    <3>2. /\ PoolInv' /\ PoolOne' /\ PoolIds' \subseteq PoolIds \cup {rec.node.id}
          /\ asPool[w].node.id = 0 \/ asPool[w].node.id \in PoolIds
      BY <2>2, <3>1, PoolMoved
    <3>3. rec.node.id # 0
      BY <3>1 DEF Node
    <3>. QED BY <3>1, <3>2, <3>3
  <2>5. PoolIds' \subseteq PoolIds
    BY <2>4
  <2>6. asData' \in Seq(Item) /\ ListOne(asData)' /\ ListIds(asData)' = ListIds(asData)
        /\ QueueOK(asRq)' /\ QueOne(asRq)' /\ QueIds(asRq)' = QueIds(asRq)
    BY <1>0, <1>9, CoreParts
  <2>7. Owned(QueIds(asRq)', QueIds(asWq)', PoolIds', ListIds(asData)', DealIds', asReq')
    BY <1>5, <1>6, <2>5, <2>6 DEF Owned, Apart
  <2>8. CoreInv'
    BY <1>5, <2>4, <2>6, <2>7, CoreJoined
  <2>9. StateInv'
    BY <1>0, <1>9 DEF StateInv
  <2>10. KernelInv'
    BY <1>0, <1>2, <1>4, <1>9, ReadUnits
  <2>. QED BY <1>5, <2>8, <2>9, <2>10 DEF AInv
<1>10. CASE /\ n = Cap /\ ProduceNode(Done("read", f, p.node.id)) /\ asRx' = [asRx EXCEPT ![f] = 0]
            /\ At(w, [p EXCEPT !.at = "next", !.node = NoNode])
            /\ UNCHANGED <<asRq, asConn, asConns, asBacklog, asFin, asFull, asEdge>>
  <2>1. PICK rec : rec = [p EXCEPT !.at = "next", !.node = NoNode]
    OBVIOUS
  <2>2. rec \in Thread /\ rec.at = "next" /\ rec.fd = f /\ rec.node = NoNode /\ rec.got = p.got
    BY <1>1, <1>2, <2>1 DEF Thread, Stages, AnyNode
  <2>4. /\ PoolInv' /\ PoolOne' /\ PoolIds' \subseteq PoolIds /\ asData' \in Seq(Item) /\ ListOne(asData)'
        /\ \A id \in ListIds(asData)' : id \in ListIds(asData) \/ (id \in PoolIds /\ id \notin PoolIds')
    <3>1. /\ At(w, rec) /\ rec.got <= Cap /\ rec.fd \in AsFds /\ rec.at \notin {"recv", "send"}
          /\ asPool[w].at \in {"recv", "send"}
      BY <1>1, <1>2, <1>10, <2>1, <2>2
    <3>2. ProduceNode(Done("read", asPool[w].fd, asPool[w].node.id))
      BY <1>1, <1>10
    <3>. QED BY <1>0, <2>2, <3>1, <3>2, Reported
  <2>6. QueueOK(asRq)' /\ QueOne(asRq)' /\ QueIds(asRq)' = QueIds(asRq)
    BY <1>0, <1>10, CoreParts
  <2>7. Owned(QueIds(asRq)', QueIds(asWq)', PoolIds', ListIds(asData)', DealIds', asReq')
    BY <1>5, <1>6, <2>4, <2>6 DEF Owned, Apart
  <2>8. CoreInv'
    BY <1>5, <2>4, <2>6, <2>7, CoreJoined
  <2>9. StateInv'
    BY <1>0, <1>10 DEF StateInv, ProduceNode
  <2>10. KernelInv'
    <3>1. asRx[f] \in 0..asRx[f] /\ asRx[f] - asRx[f] = 0
      BY <1>4
    <3>2. asRx' = [asRx EXCEPT ![f] = @ - asRx[f]]
      BY <1>10, <3>1
    <3>3. PICK m : m = asRx[f]
      OBVIOUS
    <3>4. m \in 0..asRx[f] /\ asRx' = [asRx EXCEPT ![f] = @ - m]
      BY <3>1, <3>2, <3>3
    <3>. QED BY <1>0, <1>2, <1>10, <3>4, ReadUnits
  <2>. QED BY <1>5, <2>8, <2>9, <2>10 DEF AInv
<1>. QED BY <1>1, <1>3, <1>7, <1>8, <1>9, <1>10 DEF PostSockReader

LEMMA StepWriter ==
    ASSUME AInv, NEW w \in AsPool, PostSockWriter(w),
           UNCHANGED <<asRq, asTasks, asLoop, asDeal, asKnown, asReq>>
    PROVE  AInv'
<1>0. CoreInv /\ LoopInv /\ KernelInv /\ StateInv
  BY DEF AInv
<1>1. PICK p, f : p = asPool[w] /\ f = p.fd
  OBVIOUS
<1>2. p.at = "send" /\ f \in AsFds /\ At(w, FreeThread) /\ UNCHANGED <<asConn, asConns, asBacklog, asRx, asFin, asEdge>>
  BY <1>0, <1>1 DEF CoreInv, PoolInv, PostSockWriter
<1>3. asFull' \subseteq asFull \cup {f}
  BY <1>1 DEF PostSockWriter
<1>4. KernelInv'
  BY <1>0, <1>2, <1>3 DEF KernelInv
<1>5. /\ LoopInv' /\ asDeal' \in [AsThreads -> Taker] /\ DealOne' /\ DealIds' = DealIds
      /\ QueueOK(asRq)' /\ QueOne(asRq)' /\ QueIds(asRq)' = QueIds(asRq)
  BY <1>0, LoopFrame, CoreParts, DealFrame
<1>6. Owned(QueIds(asRq), QueIds(asWq), PoolIds, ListIds(asData), DealIds, asReq)
  BY <1>0, CoreParts
<1>7. CASE asWq' = PushBack(asWq, f, p.node) /\ UNCHANGED <<asRun, asCrash, asData>>
  <2>1. PICK r, q : r = asWq /\ q = asWq'
    OBVIOUS
  <2>2. /\ QueueOK(q) /\ QueOne(q) /\ PoolInv' /\ PoolOne' /\ PoolIds' \subseteq PoolIds
        /\ \A id \in QueIds(q) : id \in QueIds(r) \/ (id \in PoolIds /\ id \notin PoolIds')
    <3>1. PICK node : node = asPool[w].node
      OBVIOUS
    <3>2. /\ CoreInv /\ f \in AsFds /\ r \in {asRq, asWq} /\ node \in {asPool[w].node} /\ q \in {PushBack(r, f, node)}
          /\ asPool[w].at \in {"recv", "send"} /\ At(w, FreeThread)
      BY <1>0, <1>1, <1>2, <1>7, <2>1, <3>1
    <3>. QED BY <3>2, PutBack
  <2>3. asData' \in Seq(Item) /\ ListOne(asData)' /\ ListIds(asData)' = ListIds(asData)
    BY <1>0, <1>7, CoreParts
  <2>4. Owned(QueIds(asRq)', QueIds(asWq)', PoolIds', ListIds(asData)', DealIds', asReq')
    BY <1>5, <1>6, <2>1, <2>2, <2>3 DEF Owned, Apart
  <2>5. CoreInv'
    BY <1>5, <2>1, <2>2, <2>3, <2>4, CoreJoined
  <2>6. StateInv'
    BY <1>0, <1>7 DEF StateInv
  <2>. QED BY <1>4, <1>5, <2>5, <2>6 DEF AInv
<1>8. CASE ProduceNode(Done("write", f, p.node.id)) /\ UNCHANGED asWq
  <2>4. /\ PoolInv' /\ PoolOne' /\ PoolIds' \subseteq PoolIds /\ asData' \in Seq(Item) /\ ListOne(asData)'
        /\ \A id \in ListIds(asData)' : id \in ListIds(asData) \/ (id \in PoolIds /\ id \notin PoolIds')
    <3>1. PICK rec : rec = FreeThread
      OBVIOUS
    <3>2. /\ rec \in Thread /\ rec.got <= Cap /\ rec.at = "free" /\ rec.node = NoNode
          /\ At(w, rec) /\ asPool[w].at \in {"recv", "send"}
      BY <1>1, <1>2, <3>1, Freed
    <3>3. ProduceNode(Done("write", asPool[w].fd, asPool[w].node.id))
      BY <1>1, <1>8
    <3>. QED BY <1>0, <3>2, <3>3, Reported
  <2>6. QueueOK(asWq)' /\ QueOne(asWq)' /\ QueIds(asWq)' = QueIds(asWq)
    BY <1>0, <1>8, CoreParts
  <2>7. Owned(QueIds(asRq)', QueIds(asWq)', PoolIds', ListIds(asData)', DealIds', asReq')
    BY <1>5, <1>6, <2>4, <2>6 DEF Owned, Apart
  <2>8. CoreInv'
    BY <1>5, <2>4, <2>6, <2>7, CoreJoined
  <2>9. StateInv'
    BY <1>0, <1>8 DEF StateInv, ProduceNode
  <2>. QED BY <1>4, <1>5, <2>8, <2>9 DEF AInv
<1>. QED BY <1>1, <1>7, <1>8 DEF PostSockWriter

LEMMA StepFdDel ==
    ASSUME AInv, NEW w \in AsPool, FdDel(w), UNCHANGED <<asTasks, asLoop, asDeal, asKnown, asReq>>
    PROVE  AInv'
<1>0. CoreInv /\ LoopInv /\ KernelInv /\ StateInv
  BY DEF AInv
<1>1. PICK p, f : p = asPool[w] /\ f = p.fd
  OBVIOUS
<1>2. /\ p.at \in {"close", "delete"} /\ f \in AsFds /\ p \in Thread /\ p.got <= Cap /\ p.node = NoNode
      /\ NoNode.id = 0 /\ PoolInv /\ PoolOne
  <2>1. p.at \in {"close", "delete"}
    BY <1>1 DEF FdDel
  <2>2. PoolInv /\ PoolOne
    BY <1>0, CoreParts
  <2>. QED BY <1>1, <2>1, <2>2 DEF PoolInv, NoNode
<1>5. /\ LoopInv' /\ asDeal' \in [AsThreads -> Taker] /\ DealOne' /\ DealIds' = DealIds
  BY <1>0, LoopFrame, CoreParts, DealFrame
<1>6. Owned(QueIds(asRq), QueIds(asWq), PoolIds, ListIds(asData), DealIds, asReq)
  BY <1>0, CoreParts
<1>7. CASE /\ Closed(f) /\ At(w, [p EXCEPT !.at = "delete"]) /\ UNCHANGED <<asRun, asCrash, asData, asQueues>>
  <2>1. PICK rec : rec = [p EXCEPT !.at = "delete"]
    OBVIOUS
  <2>2. rec \in Thread /\ rec.at = "delete" /\ rec.fd = f /\ rec.node = NoNode /\ rec.got = p.got
    BY <1>1, <1>2, <2>1 DEF Thread, Stages
  <2>3. PoolInv' /\ PoolOne' /\ PoolIds' \subseteq PoolIds \cup {rec.node.id}
    <3>1. At(w, rec) /\ rec.got <= Cap /\ rec.fd \in AsFds /\ rec.at \notin {"recv", "send"} /\ rec.node.id = 0
      BY <1>2, <1>7, <2>1, <2>2
    <3>. QED BY <1>2, <2>2, <3>1, PoolMoved
  <2>4. PoolIds' \subseteq PoolIds
    BY <1>2, <2>2, <2>3 DEF PoolIds
  <2>5. /\ asData' \in Seq(Item) /\ ListOne(asData)' /\ ListIds(asData)' = ListIds(asData)
        /\ QueueOK(asRq)' /\ QueOne(asRq)' /\ QueIds(asRq)' = QueIds(asRq)
        /\ QueueOK(asWq)' /\ QueOne(asWq)' /\ QueIds(asWq)' = QueIds(asWq)
    BY <1>0, <1>7, CoreParts DEF asQueues
  <2>6. Owned(QueIds(asRq)', QueIds(asWq)', PoolIds', ListIds(asData)', DealIds', asReq')
    BY <1>5, <1>6, <2>4, <2>5 DEF Owned, Apart
  <2>7. CoreInv'
    BY <1>5, <2>3, <2>5, <2>6, CoreJoined
  <2>8. StateInv'
    BY <1>0, <1>7 DEF StateInv
  <2>. QED BY <1>0, <1>2, <1>5, <1>7, <2>7, <2>8, KernelClosed DEF AInv
<1>8. CASE /\ asRq' = DeleteOut(asRq, f) /\ asWq' = DeleteOut(asWq, f) /\ ProduceNode(Done("exit", f, 0))
           /\ At(w, FreeThread) /\ UNCHANGED asKernel
  <2>1. PICK r, q, u, v : r = asRq /\ q = asRq' /\ u = asWq /\ v = asWq'
    OBVIOUS
  <2>2. QueueOK(r) /\ QueOne(r) /\ QueueOK(u) /\ QueOne(u) /\ q = DeleteOut(r, f) /\ v = DeleteOut(u, f)
    BY <1>0, <1>8, <2>1, CoreParts
  <2>3. QueueOK(q) /\ QueOne(q) /\ QueIds(q) \subseteq QueIds(r)
    BY <2>2, Deleted
  <2>4. QueueOK(v) /\ QueOne(v) /\ QueIds(v) \subseteq QueIds(u)
    BY <2>2, Deleted
  <2>5. PoolInv' /\ PoolOne' /\ PoolIds' \subseteq PoolIds
    <3>1. PICK rec : rec = FreeThread
      OBVIOUS
    <3>2. rec \in Thread /\ rec.got <= Cap /\ rec.at = "free" /\ rec.node = NoNode /\ rec.node.id = 0 /\ At(w, rec)
      BY <1>8, <3>1, Freed
    <3>3. PoolInv' /\ PoolOne' /\ PoolIds' \subseteq PoolIds \cup {rec.node.id}
      BY <1>2, <3>2, PoolMoved
    <3>. QED BY <3>2, <3>3 DEF PoolIds
  <2>6. asData' \in Seq(Item) /\ ListOne(asData)' /\ ListIds(asData)' \subseteq ListIds(asData)
    <3>1. PICK c : c = Done("exit", f, 0)
      OBVIOUS
    <3>2. c \in Item /\ c.id = 0
      BY <1>0, <1>2, <3>1, ItemDone
    <3>3. /\ asData' \in Seq(Item) /\ ListOne(asData)'
          /\ ListIds(asData)' \subseteq ListIds(asData) \cup {0}
      BY <1>0, <1>8, <3>1, <3>2, Produced
    <3>. QED BY <3>3, NoZero
  <2>7. Owned(QueIds(asRq)', QueIds(asWq)', PoolIds', ListIds(asData)', DealIds', asReq')
    BY <1>5, <1>6, <2>1, <2>3, <2>4, <2>5, <2>6 DEF Owned, Apart
  <2>8. CoreInv'
    BY <1>5, <2>1, <2>3, <2>4, <2>5, <2>6, <2>7, CoreJoined
  <2>9. StateInv'
    BY <1>0, <1>8 DEF StateInv, ProduceNode
  <2>. QED BY <1>0, <1>5, <1>8, <2>8, <2>9, KernelFrame DEF AInv
<1>. QED BY <1>1, <1>7, <1>8 DEF FdDel

\* The threads that take completions.
LEMMA StepDeal ==
    ASSUME AInv, NEW c \in AsThreads, ThreadStarts(c) \/ GetQueueComplateStatus(c) \/ EpollThread(c)
    PROVE  AInv'
<1>0. CoreInv /\ LoopInv /\ KernelInv /\ StateInv
  BY DEF AInv
<1>1. /\ asData \in Seq(Item) /\ ListOne(asData) /\ asDeal \in [AsThreads -> Taker] /\ DealOne
      /\ Owned(QueIds(asRq), QueIds(asWq), PoolIds, ListIds(asData), DealIds, asReq)
  BY <1>0, CoreParts
<1>2. UNCHANGED <<asRun, asCrash, asQueues, asTasks, asPool, asLoop, asReq>>
  BY DEF ThreadStarts, GetQueueComplateStatus, EpollThread
<1>3. LoopInv' /\ PoolInv' /\ PoolOne' /\ PoolIds' = PoolIds /\ QueIds(asRq)' = QueIds(asRq)
      /\ QueIds(asWq)' = QueIds(asWq) /\ QueueOK(asRq)' /\ QueOne(asRq)' /\ QueueOK(asWq)' /\ QueOne(asWq)'
  BY <1>0, <1>2, LoopFrame, PoolFrame, CoreParts DEF asQueues
\* A thread that goes on without a completion.
<1>4. ASSUME NEW at \in {"off", "get", "wait"}, asDeal' = [asDeal EXCEPT ![c] = [at |-> at]], asData' = asData
      PROVE  CoreInv'
  <2>1. PICK rec : rec = [at |-> at]
    OBVIOUS
  <2>2. rec \in Taker /\ rec.at # "got"
    BY <2>1 DEF Taker
  <2>3. /\ asDeal' \in [AsThreads -> Taker] /\ DealOne'
        /\ \A id \in DealIds' : id \in DealIds \/ (rec.at = "got" /\ id = rec.item.id)
    BY <1>1, <1>4, <2>1, <2>2, DealMoved
  <2>4. DealIds' \subseteq DealIds
    BY <2>2, <2>3
  <2>5. asData' \in Seq(Item) /\ ListOne(asData)' /\ ListIds(asData)' = ListIds(asData)
    BY <1>1, <1>4
  <2>6. Owned(QueIds(asRq)', QueIds(asWq)', PoolIds', ListIds(asData)', DealIds', asReq')
    BY <1>1, <1>2, <1>3, <2>4, <2>5 DEF Owned, Apart
  <2>. QED BY <1>3, <2>3, <2>5, <2>6, CoreJoined
<1>5. CASE ThreadStarts(c)
  <2>1. asDeal' = [asDeal EXCEPT ![c] = [at |-> "get"]] /\ asData' = asData /\ UNCHANGED <<asKnown, asKernel>>
    BY <1>5 DEF ThreadStarts
  <2>2. StateInv'
    BY <1>0, <1>2, <2>1 DEF StateInv
  <2>. QED BY <1>0, <1>3, <1>4, <2>1, <2>2, KernelFrame DEF AInv
<1>6. CASE GetQueueComplateStatus(c)
  <2>1. UNCHANGED <<asKnown, asKernel>>
    BY <1>6 DEF GetQueueComplateStatus
  <2>2. StateInv'
    BY <1>0, <1>2, <2>1 DEF StateInv
  <2>3. CASE asData # <<>> /\ asDeal' = [asDeal EXCEPT ![c] = [at |-> "got", item |-> Head(asData)]] /\ asData' = Tail(asData)
    <3>1. PICK l, t, h, rec : l = asData /\ t = asData' /\ h = Head(asData) /\ rec = [at |-> "got", item |-> h]
      OBVIOUS
    <3>2. /\ h \in Item /\ t \in Seq(Item) /\ ListOne(t) /\ ListIds(t) \subseteq ListIds(l)
          /\ h.id = 0 \/ (h.id \in ListIds(l) /\ h.id \notin ListIds(t))
      <4>1. l \in Seq(Item) /\ ListOne(l) /\ l # <<>> /\ t = Tail(l) /\ h = Head(l)
        BY <1>1, <2>3, <3>1
      <4>. QED BY <4>1, ListTaken
    <3>3. rec \in Taker /\ rec.at = "got" /\ rec.item = h
      BY <3>1, <3>2 DEF Taker
    <3>4. h.id = 0 \/ h.id \notin DealIds
      BY <1>1, <3>1, <3>2 DEF Owned, Apart
    <3>5. /\ asDeal' \in [AsThreads -> Taker] /\ DealOne'
          /\ \A id \in DealIds' : id \in DealIds \/ (rec.at = "got" /\ id = rec.item.id)
      <4>1. asDeal' = [asDeal EXCEPT ![c] = rec] /\ (rec.at = "got" => rec.item.id = 0 \/ rec.item.id \notin DealIds)
        BY <2>3, <3>1, <3>3, <3>4
      <4>. QED BY <1>1, <3>3, <4>1, DealMoved
    <3>6. 0 \notin DealIds'
      BY DEF DealIds
    <3>7. \A id \in DealIds' : id \in DealIds \/ (id \in ListIds(l) /\ id \notin ListIds(t))
      BY <3>2, <3>3, <3>5, <3>6
    <3>8. Owned(QueIds(asRq)', QueIds(asWq)', PoolIds', ListIds(asData)', DealIds', asReq')
      <4>1. asReq' = asReq /\ ListIds(asData)' = ListIds(t)
        BY <1>2, <3>1
      <4>. QED BY <1>1, <1>3, <3>1, <3>2, <3>7, <4>1 DEF Owned, Apart
    <3>9. CoreInv'
      BY <1>3, <3>1, <3>2, <3>5, <3>8, CoreJoined
    <3>. QED BY <1>0, <1>3, <2>1, <2>2, <3>9, KernelFrame DEF AInv
  <2>4. CASE UNCHANGED asData /\ \E at \in {"off", "wait"} : asDeal' = [asDeal EXCEPT ![c] = [at |-> at]]
    BY <1>0, <1>3, <1>4, <2>1, <2>2, <2>4, KernelFrame DEF AInv
  <2>. QED BY <1>6, <2>3, <2>4 DEF GetQueueComplateStatus
<1>7. CASE EpollThread(c)
  <2>1. PICK item : item = asDeal[c].item
    OBVIOUS
  <2>2. item \in Item /\ item.fd \in AsFds
    <3>1. asDeal[c] \in Taker /\ asDeal[c].at = "got"
      BY <1>1, <1>7 DEF EpollThread
    <3>2. item \in Item
      BY <2>1, <3>1 DEF Taker
    <3>. QED BY <3>2 DEF Item
  <2>3. PICK op : /\ asKnown' = CASE op = "accept" -> asKnown \cup {item.fd}
                                  [] op = "exit" -> asKnown \ {item.fd}
                                  [] OTHER -> asKnown
                  /\ IF op = "exit" THEN Closed(item.fd) ELSE UNCHANGED asKernel
    BY <1>7, <2>1 DEF EpollThread
  <2>4. asKnown' \subseteq AsFds
    BY <1>0, <2>2, <2>3 DEF StateInv
  <2>5. StateInv'
    BY <1>0, <1>2, <2>4 DEF StateInv
  <2>6. KernelInv'
    BY <1>0, <2>2, <2>3, KernelFrame, KernelClosed
  <2>7. asDeal' = [asDeal EXCEPT ![c] = [at |-> "get"]] /\ asData' = asData
    BY <1>7 DEF EpollThread
  <2>. QED BY <1>3, <1>4, <2>5, <2>6, <2>7 DEF AInv
<1>. QED BY <1>5, <1>6, <1>7

\* A new request has a number of its own.
LEMMA StepPost ==
    ASSUME AInv, NEW f \in asKnown, NEW read \in BOOLEAN, postQuest(f, read) PROVE AInv'
<1>0. CoreInv /\ LoopInv /\ KernelInv /\ StateInv
  BY DEF AInv
<1>1. PICK valid \in BOOLEAN :
        LET node == [id |-> asReq + 1, valid |-> valid]
        IN  /\ asReq' = asReq + 1
            /\ asRq' = IF asRun /\ read THEN AppendData(asRq, f, node) ELSE asRq
            /\ asWq' = IF asRun /\ ~ read THEN AppendData(asWq, f, node) ELSE asWq
            /\ UNCHANGED <<asRun, asCrash, asData, asTasks, asPool, asLoop, asDeal, asKnown, asKernel>>
  BY DEF postQuest
<1>2. PICK node : node = [id |-> asReq + 1, valid |-> valid]
  OBVIOUS
<1>3. asReq \in Nat /\ asReq' = asReq + 1 /\ node \in Node /\ node.id = asReq + 1
  BY <1>0, <1>1, <1>2 DEF StateInv, Node
<1>4. /\ asData' = asData /\ asPool' = asPool /\ asDeal' = asDeal /\ UNCHANGED <<asRun, asCrash, asTasks, asLoop, asKnown, asKernel>>
  BY <1>1
<1>5. StateInv' /\ LoopInv' /\ KernelInv'
  <2>1. StateInv'
    BY <1>0, <1>3, <1>4 DEF StateInv
  <2>. QED BY <1>0, <1>4, <2>1, LoopFrame, KernelFrame
<1>6. PoolInv' /\ PoolOne' /\ PoolIds' = PoolIds /\ asDeal' \in [AsThreads -> Taker] /\ DealOne' /\ DealIds' = DealIds
      /\ asData' \in Seq(Item) /\ ListOne(asData)' /\ ListIds(asData)' = ListIds(asData)
  BY <1>0, <1>4, CoreParts, PoolFrame, DealFrame
<1>7. /\ QueueOK(asRq) /\ QueOne(asRq) /\ QueueOK(asWq) /\ QueOne(asWq)
      /\ Owned(QueIds(asRq), QueIds(asWq), PoolIds, ListIds(asData), DealIds, asReq)
  BY <1>0, CoreParts
<1>8. \A id \in QueIds(asRq) \cup QueIds(asWq) \cup PoolIds \cup ListIds(asData) \cup DealIds :
          id # node.id /\ id \in 1..asReq'
  <2>1. \A id \in QueIds(asRq) \cup QueIds(asWq) \cup PoolIds \cup ListIds(asData) \cup DealIds : id \in 1..asReq
    BY <1>7 DEF Owned
  <2>. QED BY <1>3, <2>1
<1>9. node.id \in 1..asReq'
  BY <1>3
<1>10. CASE asRq' = asRq /\ asWq' = asWq
  <2>1. Owned(QueIds(asRq)', QueIds(asWq)', PoolIds', ListIds(asData)', DealIds', asReq')
    BY <1>6, <1>7, <1>8, <1>10 DEF Owned, Apart
  <2>2. CoreInv'
    BY <1>6, <1>7, <1>10, <2>1, CoreJoined
  <2>. QED BY <1>5, <2>2 DEF AInv
<1>11. CASE asRq' = AppendData(asRq, f, node) /\ asWq' = asWq
  <2>1. PICK r, q : r = asRq /\ q = asRq'
    OBVIOUS
  <2>2. QueueOK(q) /\ QueOne(q) /\ QueIds(q) \subseteq QueIds(r) \cup {node.id}
    BY <1>3, <1>7, <1>8, <1>11, <2>1, Appended
  <2>3. Owned(QueIds(asRq)', QueIds(asWq)', PoolIds', ListIds(asData)', DealIds', asReq')
    BY <1>6, <1>7, <1>8, <1>9, <1>11, <2>1, <2>2 DEF Owned, Apart
  <2>4. CoreInv'
    BY <1>6, <1>7, <1>11, <2>1, <2>2, <2>3, CoreJoined
  <2>. QED BY <1>5, <2>4 DEF AInv
<1>12. CASE asWq' = AppendData(asWq, f, node) /\ asRq' = asRq
  <2>1. PICK r, q : r = asWq /\ q = asWq'
    OBVIOUS
  <2>2. QueueOK(q) /\ QueOne(q) /\ QueIds(q) \subseteq QueIds(r) \cup {node.id}
    BY <1>3, <1>7, <1>8, <1>12, <2>1, Appended
  <2>3. Owned(QueIds(asRq)', QueIds(asWq)', PoolIds', ListIds(asData)', DealIds', asReq')
    BY <1>6, <1>7, <1>8, <1>9, <1>12, <2>1, <2>2 DEF Owned, Apart
  <2>4. CoreInv'
    BY <1>6, <1>7, <1>12, <2>1, <2>2, <2>3, CoreJoined
  <2>. QED BY <1>5, <2>4 DEF AInv
<1>. QED BY <1>1, <1>2, <1>10, <1>11, <1>12

LEMMA StepServer == ASSUME AInv, InitServer \/ on_accept_callback \/ StopServer PROVE AInv'
<1>0. CoreInv /\ LoopInv /\ KernelInv /\ StateInv
  BY DEF AInv
<1>1. CASE InitServer
  <2>1. asRun' = TRUE /\ UNCHANGED <<asCrash, asData, asQueues, asTasks, asPool, asDeal, asKnown, asReq, asKernel>>
    BY <1>1 DEF InitServer
  <2>2. LoopInv'
    <3>1. PICK r \in InitSocket, at \in {"off", "wait"} : asLoop' = [at |-> at, fd |-> Listener, hears |-> r.hears]
      BY <1>1 DEF InitServer
    <3>2. r.hears \in BOOLEAN
      <4>1. r = [ret |-> 1, hears |-> TRUE] \/ r = [ret |-> 0, hears |-> FALSE] \/ r = [ret |-> -1, hears |-> FALSE]
        BY DEF InitSocket
      <4>2. CASE r = [ret |-> 1, hears |-> TRUE]
        BY <4>2
      <4>3. CASE r = [ret |-> 0, hears |-> FALSE]
        BY <4>3
      <4>4. CASE r = [ret |-> -1, hears |-> FALSE]
        BY <4>4
      <4>. QED BY <4>1, <4>2, <4>3, <4>4
    <3>. QED BY <3>1, <3>2 DEF LoopInv, LoopState
  <2>3. StateInv'
    BY <1>0, <2>1 DEF StateInv
  <2>. QED BY <1>0, <2>1, <2>2, <2>3, CoreFrame, KernelFrame DEF AInv, asQueues
<1>2. CASE on_accept_callback
  <2>1. UNCHANGED <<asRun, asCrash, asData, asQueues, asTasks, asPool, asDeal, asKnown, asReq>>
    BY <1>2 DEF on_accept_callback
  <2>2. StateInv'
    BY <1>0, <2>1 DEF StateInv
  <2>. QED BY <1>0, <1>2, <2>1, <2>2, CoreFrame, KernelAccept DEF AInv, asQueues
<1>3. CASE StopServer
  <2>1. /\ asRun' = FALSE /\ asTasks' = <<>> /\ asLoop' = [asLoop EXCEPT !.hears = FALSE]
        /\ asBacklog' = 0 /\ asEdge' = {}
        /\ UNCHANGED <<asCrash, asData, asQueues, asPool, asDeal, asKnown, asReq, asConn, asConns, asRx, asFin, asFull>>
    BY <1>3 DEF StopServer
  <2>2. LoopInv'
    BY <1>0, <2>1 DEF LoopInv, LoopState
  <2>3. StateInv'
    <3>1. asTasks' \in Seq(PoolTask)
      BY <2>1
    <3>. QED BY <1>0, <2>1, <3>1 DEF StateInv
  <2>4. KernelInv'
    <3>1. asConns \in Nat /\ asBacklog \in 0..asConns /\ asConn \in [AsFds -> Nat]
          /\ \A f \in AsFds : asConn[f] <= asConns - asBacklog
      BY <1>0, AsAssumption DEF KernelInv
    <3>2. \A f \in AsFds : asConn[f] <= asConns - 0
      BY <3>1
    <3>3. 0 \in 0..asConns
      BY <3>1
    <3>. QED BY <1>0, <2>1, <3>2, <3>3 DEF KernelInv
  <2>. QED BY <1>0, <2>1, <2>2, <2>3, <2>4, CoreFrame DEF AInv, asQueues
<1>. QED BY <1>1, <1>2, <1>3

\* The world's steps touch nothing but the kernel.
LEMMA StepWorld ==
    ASSUME AInv, Connect \/ \E f \in AsFds : PeerSends(f) \/ PeerCloses(f) \/ Drained(f),
           UNCHANGED <<asRun, asCrash, asData, asQueues, asTasks, asPool, asLoop, asDeal, asKnown, asReq>>
    PROVE  AInv'
<1>0. CoreInv /\ LoopInv /\ KernelInv /\ StateInv
  BY DEF AInv
<1>1. KernelInv'
  BY <1>0, KernelWorld
<1>2. StateInv'
  BY <1>0 DEF StateInv
<1>3. CoreInv'
  BY <1>0, CoreFrame DEF asQueues
<1>. QED BY <1>0, <1>1, <1>2, <1>3, LoopFrame DEF AInv

LEMMA InitHolds == ASSUME AsInit PROVE AInv
<1>1. /\ asRun = FALSE /\ asCrash = FALSE /\ asData = <<>> /\ asRq = EmptyMap /\ asWq = EmptyMap
      /\ asTasks = <<>> /\ asKnown = {} /\ asReq = 0
  BY DEF AsInit
<1>2. asPool = [w \in AsPool |-> FreeThread] /\ asDeal = [c \in AsThreads |-> [at |-> "off"]]
  BY DEF AsInit
<1>3. DOMAIN EmptyMap = {} /\ QueueOK(EmptyMap) /\ QueOne(EmptyMap) /\ QueIds(EmptyMap) = {}
  <2>1. DOMAIN EmptyMap = {} /\ EmptyMap = [a \in {} |-> 0]
    BY DEF EmptyMap
  <2>2. EmptyMap \in [{} -> Seq(Node)]
    BY <2>1
  <2>. QED BY <2>1, <2>2 DEF QueueOK, QueOne, QueIds
<1>4. FreeThread \in Thread /\ FreeThread.got <= Cap /\ FreeThread.at = "free" /\ FreeThread.node = NoNode
      /\ NoNode.id = 0
  <2>1. NoNode.id = 0
    BY DEF NoNode
  <2>. QED BY <2>1, Freed
<1>5. PoolInv /\ PoolOne /\ PoolIds = {}
  BY <1>2, <1>4 DEF PoolInv, PoolOne, PoolIds
<1>6. asDeal \in [AsThreads -> Taker] /\ DealOne /\ DealIds = {}
  <2>1. [at |-> "off"] \in Taker /\ [at |-> "off"].at # "got"
    BY DEF Taker
  <2>. QED BY <1>2, <2>1 DEF DealOne, DealIds
<1>7. asData \in Seq(Item) /\ ListOne(asData) /\ ListIds(asData) = {} /\ asTasks \in Seq(PoolTask)
  BY <1>1 DEF ListOne, ListIds
<1>8. OwnInv
  BY <1>1, <1>3, <1>5, <1>6, <1>7 DEF OwnInv, Owned, Apart
<1>9. CoreInv
  BY <1>1, <1>3, <1>5, <1>6, <1>7, <1>8 DEF CoreInv, ListInv
<1>10. LoopInv
  BY DEF AsInit, LoopInv, LoopState
<1>11. StateInv
  BY <1>1, <1>7 DEF StateInv
<1>12. KernelInv
  BY AsAssumption DEF AsInit, KernelInv
<1>. QED BY <1>9, <1>10, <1>11, <1>12 DEF AInv

LEMMA NextHolds == ASSUME AInv, [AsNext]_asVars PROVE AInv'
<1>1. CASE UNCHANGED asVars
  <2>1. UNCHANGED <<asRun, asCrash, asData, asRq, asWq, asTasks, asPool, asLoop, asDeal, asKnown, asReq, asKernel>>
    BY <1>1 DEF asVars, asQueues
  <2>2. CoreInv /\ LoopInv /\ KernelInv /\ StateInv
    BY DEF AInv
  <2>3. StateInv'
    BY <2>1, <2>2 DEF StateInv
  <2>. QED BY <2>1, <2>2, <2>3, CoreFrame, LoopFrame, KernelFrame DEF AInv
<1>2. CASE InitServer \/ on_accept_callback \/ StopServer
  BY <1>2, StepServer
<1>3. CASE HandleThread /\ UNCHANGED <<asPool, asDeal, asKnown, asReq>>
  BY <1>3, StepHandle
<1>4. ASSUME NEW w \in AsPool, TakeTask(w) PROVE AInv'
  BY <1>4, StepTake
<1>5. ASSUME NEW w \in AsPool, UNCHANGED <<asTasks, asLoop, asDeal, asKnown, asReq>>,
             \/ (PostSockReader(w) \/ NextRequest(w)) /\ UNCHANGED asWq
             \/ PostSockWriter(w) /\ UNCHANGED asRq
             \/ FdDel(w)
      PROVE  AInv'
  <2>1. CASE PostSockReader(w) /\ UNCHANGED asWq
    BY <1>5, <2>1, StepReader
  <2>2. CASE NextRequest(w) /\ UNCHANGED asWq
    BY <1>5, <2>2, StepNext
  <2>3. CASE PostSockWriter(w) /\ UNCHANGED asRq
    BY <1>5, <2>3, StepWriter
  <2>4. CASE FdDel(w)
    BY <1>5, <2>4, StepFdDel
  <2>. QED BY <1>5, <2>1, <2>2, <2>3, <2>4
<1>6. ASSUME NEW c \in AsThreads, ThreadStarts(c) \/ GetQueueComplateStatus(c) \/ EpollThread(c) PROVE AInv'
  BY <1>6, StepDeal
<1>7. ASSUME NEW f \in asKnown, PostRecvReq(f) \/ PostSendReq(f) PROVE AInv'
  <2>1. PICK read \in BOOLEAN : postQuest(f, read)
    BY <1>7 DEF PostRecvReq, PostSendReq
  <2>. QED BY <2>1, StepPost
<1>8. CASE /\ Connect \/ \E f \in AsFds : PeerSends(f) \/ PeerCloses(f) \/ Drained(f)
           /\ UNCHANGED <<asRun, asCrash, asData, asQueues, asTasks, asPool, asLoop, asDeal, asKnown, asReq>>
  BY <1>8, StepWorld
<1>. QED BY <1>1, <1>2, <1>3, <1>4, <1>5, <1>6, <1>7, <1>8 DEF AsNext

-----------------------------------------------------------------------------
(* The results *)

LEMMA TypeHolds == ASSUME AInv PROVE AsTypeOK
<1>1. QueueOK(asRq) /\ QueueOK(asWq) /\ KernelInv /\ StateInv
  BY DEF AInv, CoreInv
<1>2. asConn \in [AsFds -> 0..MaxConn]
  <2>1. /\ asConn \in [AsFds -> Nat] /\ asConns \in 0..MaxConn /\ asBacklog \in 0..asConns
        /\ \A f \in AsFds : asConn[f] <= asConns - asBacklog
    BY <1>1 DEF KernelInv
  <2>2. \A f \in AsFds : asConn[f] \in 0..MaxConn
    BY <2>1, AsAssumption
  <2>. QED BY <2>1, <2>2
<1>3. {asRun, asCrash} \subseteq BOOLEAN
  BY <1>1 DEF StateInv
<1>. QED BY <1>1, <1>2, <1>3 DEF AsTypeOK, QueueOK, KernelInv

\* A set with no two elements.
LEMMA AtMostOne ==
    ASSUME NEW S, \A x, y \in S : x = y
    PROVE  /\ Cardinality(S) \in {0, 1}
           /\ S = {} => Cardinality(S) = 0
<1>1. CASE S = {}
  BY <1>1, FS_EmptySet
<1>2. CASE S # {}
  <2>1. PICK x : x \in S
    BY <1>2
  <2>2. S = {x}
    BY <2>1
  <2>. QED BY <1>2, <2>2, FS_Singleton
<1>. QED BY <1>1, <1>2

LEMMA OnePlace ==
    ASSUME NEW que, QueueOK(que), QueOne(que), NEW id \in Nat \ {0}
    PROVE  /\ Cardinality(PlacesOf(que, id)) \in {0, 1}
           /\ id \notin QueIds(que) => Cardinality(PlacesOf(que, id)) = 0
<1>1. PICK P : P = PlacesOf(que, id)
  OBVIOUS
<1>2. \A x \in P : \E f \in DOMAIN que : \E i \in 1..Len(que[f]) : x = <<f, i>> /\ que[f][i].id = id
  BY <1>1 DEF PlacesOf
<1>3. \A x, y \in P : x = y
  BY <1>2 DEF QueOne
<1>4. id \notin QueIds(que) => P = {}
  BY <1>2 DEF QueIds
<1>. QED BY <1>1, <1>3, <1>4, AtMostOne

LEMMA OnceHolds == ASSUME AInv PROVE RequestOnce
<1>1. /\ QueueOK(asRq) /\ QueOne(asRq) /\ QueueOK(asWq) /\ QueOne(asWq)
      /\ PoolOne /\ ListOne(asData) /\ DealOne
      /\ Owned(QueIds(asRq), QueIds(asWq), PoolIds, ListIds(asData), DealIds, asReq)
  BY DEF AInv, CoreInv, OwnInv
<1> SUFFICES ASSUME NEW id \in 1..asReq
             PROVE  Cardinality(PlacesOf(asRq, id)) + Cardinality(PlacesOf(asWq, id))
                    + Cardinality({w \in AsPool : asPool[w].node.id = id})
                    + Cardinality({i \in 1..Len(asData) : asData[i].id = id})
                    + Cardinality({c \in AsThreads : asDeal[c].at = "got" /\ asDeal[c].item.id = id}) <= 1
  BY DEF RequestOnce
<1>2. id \in Nat \ {0}
  BY DEF AInv, StateInv
<1>3. PICK a, b, c, d, e : /\ a = Cardinality(PlacesOf(asRq, id))
                           /\ b = Cardinality(PlacesOf(asWq, id))
                           /\ c = Cardinality({w \in AsPool : asPool[w].node.id = id})
                           /\ d = Cardinality({i \in 1..Len(asData) : asData[i].id = id})
                           /\ e = Cardinality({t \in AsThreads : asDeal[t].at = "got" /\ asDeal[t].item.id = id})
  OBVIOUS
<1>4. a \in {0, 1} /\ (id \notin QueIds(asRq) => a = 0)
  BY <1>1, <1>2, <1>3, OnePlace
<1>5. b \in {0, 1} /\ (id \notin QueIds(asWq) => b = 0)
  BY <1>1, <1>2, <1>3, OnePlace
<1>6. c \in {0, 1} /\ (id \notin PoolIds => c = 0)
  <2>1. PICK S : S = {w \in AsPool : asPool[w].node.id = id}
    OBVIOUS
  <2>2. \A x, y \in S : x = y
    BY <1>1, <1>2, <2>1 DEF PoolOne
  <2>3. id \notin PoolIds => S = {}
    BY <1>2, <2>1 DEF PoolIds
  <2>. QED BY <1>3, <2>1, <2>2, <2>3, AtMostOne
<1>7. d \in {0, 1} /\ (id \notin ListIds(asData) => d = 0)
  <2>1. PICK S : S = {i \in 1..Len(asData) : asData[i].id = id}
    OBVIOUS
  <2>2. \A x, y \in S : x = y
    BY <1>1, <1>2, <2>1 DEF ListOne
  <2>3. id \notin ListIds(asData) => S = {}
    BY <1>2, <2>1 DEF ListIds
  <2>. QED BY <1>3, <2>1, <2>2, <2>3, AtMostOne
<1>8. e \in {0, 1} /\ (id \notin DealIds => e = 0)
  <2>1. PICK S : S = {t \in AsThreads : asDeal[t].at = "got" /\ asDeal[t].item.id = id}
    OBVIOUS
  <2>2. \A x, y \in S : x = y
    BY <1>1, <1>2, <2>1 DEF DealOne
  <2>3. id \notin DealIds => S = {}
    BY <1>2, <2>1 DEF DealIds
  <2>. QED BY <1>3, <2>1, <2>2, <2>3, AtMostOne
<1>9. /\ a = 0 \/ b = 0
      /\ a = 0 \/ c = 0
      /\ a = 0 \/ d = 0
      /\ a = 0 \/ e = 0
      /\ b = 0 \/ c = 0
      /\ b = 0 \/ d = 0
      /\ b = 0 \/ e = 0
      /\ c = 0 \/ d = 0
      /\ c = 0 \/ e = 0
      /\ d = 0 \/ e = 0
  BY <1>1, <1>4, <1>5, <1>6, <1>7, <1>8 DEF Owned, Apart
<1>10. a + b + c + d + e <= 1
  BY <1>4, <1>5, <1>6, <1>7, <1>8, <1>9
<1>. QED BY <1>3, <1>10

\* The server's state is well typed after any number of steps: no queue and no edge belongs
\* to anything but a socket, and no two open sockets have the same connection.
THEOREM TypeCorrect == AsSpec => []AsTypeOK
<1>1. AsInit => AInv
  BY InitHolds
<1>2. AInv /\ [AsNext]_asVars => AInv'
  BY NextHolds
<1>3. AInv => AsTypeOK
  BY TypeHolds
<1>. QED BY <1>1, <1>2, <1>3, PTL DEF AsSpec

\* A posted request never has two owners, whatever the pool's threads, the event loop, the
\* threads of the user and the peers do: PushBack, ProduceNode and the pops of
\* GetAndPopFront hand it on, also while a socket is closed and its number used again.
THEOREM RequestSafe == AsSpec => []RequestOnce
<1>1. AsInit => AInv
  BY InitHolds
<1>2. AInv /\ [AsNext]_asVars => AInv'
  BY NextHolds
<1>3. AInv => RequestOnce
  BY OnceHolds
<1>. QED BY <1>1, <1>2, <1>3, PTL DEF AsSpec

-----------------------------------------------------------------------------
(* TcpClientWin *)

\* Leaving its loop a thread of the client clears its handle first, so a handle that is
\* NULL once the threads were started tells Stop that the loop has been left.
TcInv ==
    /\ tcMain \in {"made", "failed", "started", "noticed", "join1", "join2", "stopped"}
    /\ tcTh \in [1..2 -> BOOLEAN] /\ tcAt \in [1..2 -> {"off", "loop", "left", "ended"}]
    /\ tcMain \in {"started", "noticed", "join1", "join2", "stopped"} => \A i \in 1..2 : tcAt[i] # "off"
    /\ \A i \in 1..2 : tcAt[i] = "loop" => tcTh[i]
    /\ tcMain \in {"join2", "stopped"} => tcAt[1] \in {"left", "ended"}
    /\ tcMain = "stopped" => tcAt[2] \in {"left", "ended"}

LEMMA TcInvInit == TcInit => TcInv
  BY DEF TcInit, TcInv

LEMMA TcInvNext == TcInv /\ [TcNext]_tcVars => TcInv'
<1> SUFFICES ASSUME TcInv, [TcNext]_tcVars PROVE TcInv'
  OBVIOUS
<1>1. CASE UNCHANGED tcVars
  BY <1>1 DEF tcVars, TcInv
<1>2. CASE TcStart
  BY <1>2 DEF TcStart, TcInv
<1>3. CASE TcSendNetPackage
  BY <1>3 DEF TcSendNetPackage, TcInv
<1>10. CASE TimerRoutine
  BY <1>10 DEF TimerRoutine, TcInv
<1>4. ASSUME NEW i \in 1..2, Leaves(i), tcAt[i] = "loop", UNCHANGED tcMain PROVE TcInv'
  BY <1>4 DEF Leaves, TcInv
<1>5. CASE threadWorker
  <2>1. CASE Leaves(1)
    BY <1>5, <2>1, <1>4 DEF threadWorker
  <2>2. CASE UNCHANGED <<tcTh, tcAt>>
    BY <1>5, <2>2 DEF threadWorker, TcInv
  <2>. QED BY <1>5, <2>1, <2>2 DEF threadWorker
<1>6. CASE TcRun
  <2>1. CASE Leaves(2)
    BY <1>6, <2>1, <1>4 DEF TcRun
  <2>2. CASE UNCHANGED <<tcTh, tcAt>>
    BY <1>6, <2>2 DEF TcRun, TcInv
  <2>. QED BY <1>6, <2>1, <2>2 DEF TcRun
<1>7. CASE DisconnServer \/ StopFlag
  BY <1>7 DEF DisconnServer, StopFlag, TcInv
<1>8. CASE StopJoins
  <2>1. ASSUME NEW i \in 1..2, NEW next \in {"join2", "stopped"}, tcMain \in {"join1", "join2"}, tcMain # next,
               Join(i, next), UNCHANGED tcAt
        PROVE  /\ tcMain' \in {tcMain, next} /\ tcTh' \in [1..2 -> BOOLEAN]
               /\ \A j \in 1..2 : tcAt[j] = "loop" => tcTh'[j]
               /\ tcMain' = next => tcAt[i] \in {"left", "ended"}
    <3>0. tcAt[i] \in {"off", "loop", "left", "ended"} /\ tcAt[i] # "off"
      BY <2>1 DEF TcInv
    <3>1. CASE ~ tcTh[i] /\ tcMain' = next /\ UNCHANGED tcTh
      BY <3>0, <3>1 DEF TcInv
    <3>2. CASE tcAt[i] = "ended" /\ tcMain' = next /\ tcTh' = [tcTh EXCEPT ![i] = FALSE]
      BY <3>2 DEF TcInv
    <3>3. CASE UNCHANGED <<tcMain, tcTh>>
      BY <2>1, <3>3 DEF TcInv
    <3>. QED BY <2>1, <3>1, <3>2, <3>3 DEF Join
  <2>2. UNCHANGED tcAt
    BY <1>8 DEF StopJoins
  <2>3. CASE tcMain = "join1" /\ Join(1, "join2")
    BY <2>1, <2>2, <2>3 DEF TcInv
  <2>4. CASE tcMain = "join2" /\ Join(2, "stopped")
    BY <2>1, <2>2, <2>4 DEF TcInv
  <2>. QED BY <1>8, <2>3, <2>4 DEF StopJoins
<1>9. ASSUME NEW i \in 1..2, Returns(i) PROVE TcInv'
  BY <1>9 DEF Returns, TcInv
<1>. QED BY <1>1, <1>2, <1>3, <1>5, <1>6, <1>7, <1>8, <1>9, <1>10 DEF TcNext

LEMMA TcInvSound == TcInv => StopWaits
  BY DEF TcInv, StopWaits

\* TcpClientImpl_Win32.cpp: whatever ends the threads, the flag, the quit packet or a failure
\* of the port, and whatever Stop finds in the handles, Stop returns after both loops ended.
THEOREM StopWaitsAlways == TcSpec => []StopWaits
  BY TcInvInit, TcInvNext, TcInvSound, PTL DEF TcSpec

-----------------------------------------------------------------------------
(* TcpServerWin *)

\* What can be queued at the port.
AcceptPackets == {TsAccept(n) : n \in AcceptNodes}
OtherPackets == {TsQuit} \cup {Transfer(op, s, zero) : op \in {"recv", "send", "error"}, s \in Nat, zero \in BOOLEAN}
Queued(n) == \E i \in 1..Len(tsPort) : tsPort[i] = TsAccept(n)

TsTypes ==
    /\ tsSock \in Seq({"made", "connected", "closed"})
    /\ tsNode \in [AcceptNodes -> [at : {"none", "idle", "posted", "queued", "taken", "deleted"}, sock : Nat]]
    /\ tsWorker \in [IocpThreads -> [at : {"off", "get", "accept", "append", "ended"}, n : AcceptNodes \cup {0}]]
    /\ \A w \in IocpThreads : tsWorker[w].at \in {"accept", "append"} => tsWorker[w].n \in AcceptNodes
    /\ tsPort \in Seq(AcceptPackets \cup OtherPackets)
    /\ tsClients \subseteq Nat /\ tsRecv \subseteq Nat /\ tsSend \subseteq Nat
    /\ tsMain = "made" => \A w \in IocpThreads : tsWorker[w].at = "off"

\* Every request has a socket of its own, of those made so far.
SocksApart ==
    /\ \A n \in AcceptNodes : tsNode[n].sock <= Len(tsSock)
    /\ \A n, m \in AcceptNodes : n # m /\ tsNode[n].sock = tsNode[m].sock => tsNode[n].sock = Invalid

\* A request is queued exactly once or not at all, and is with one worker or none.
RequestsKept ==
    /\ \A n \in AcceptNodes : tsNode[n].at = "queued" <=> Queued(n)
    /\ \A n \in AcceptNodes, i, j \in 1..Len(tsPort) : tsPort[i] = TsAccept(n) /\ tsPort[j] = TsAccept(n) => i = j
    /\ \A w \in IocpThreads : tsWorker[w].at = "accept" => tsNode[tsWorker[w].n].at = "taken"
    /\ \A w, v \in IocpThreads :
          tsWorker[w].at = "accept" /\ tsWorker[v].at = "accept" /\ tsWorker[w].n = tsWorker[v].n => w = v
    /\ \A n \in AcceptNodes : tsNode[n].at = "taken" => \E w \in IocpThreads : tsWorker[w] = [at |-> "accept", n |-> n]

TsInv == TsTypes /\ SocksApart /\ (tsMain # "stopped" => RequestsKept)

LEMMA Packets ==
    /\ \A n, m \in AcceptNodes : TsAccept(n) = TsAccept(m) => n = m
    /\ \A n \in AcceptNodes, c \in OtherPackets : c # TsAccept(n)
    /\ \A c \in AcceptPackets \cup OtherPackets : c.op = "accept" => c.n \in AcceptNodes /\ c = TsAccept(c.n)
    /\ \A c \in AcceptPackets \cup OtherPackets : (c.op = "error" \/ c.zero) => c \in OtherPackets /\ c.n \in Nat
    /\ \A c \in AcceptPackets \cup OtherPackets : c.op # "accept" => c \in OtherPackets
<1>1. \A n \in AcceptNodes : TsAccept(n).op = "accept" /\ TsAccept(n).n = n /\ TsAccept(n).zero = FALSE
  BY DEF TsAccept
<1>2. ASSUME NEW c \in OtherPackets PROVE c.op # "accept" /\ ((c.op = "error" \/ c.zero) => c.n \in Nat)
  BY DEF OtherPackets, TsQuit, Transfer
<1>3. \A c \in AcceptPackets : \E n \in AcceptNodes : c = TsAccept(n)
  BY DEF AcceptPackets
<1>. QED BY <1>1, <1>2, <1>3

LEMMA TsInvInit == TsInit => TsInv
  BY DEF TsInit, TsInv, TsTypes, SocksApart, RequestsKept, Queued, Invalid

\* The port is only read, or a packet that is no accept is added.
LEMMA OtherAppended ==
    ASSUME RequestsKept, TsTypes, NEW c \in OtherPackets, tsPort' = Append(tsPort, c), UNCHANGED <<tsNode, tsWorker>>
    PROVE  RequestsKept' /\ tsPort' \in Seq(AcceptPackets \cup OtherPackets)
<1>1. /\ Len(tsPort) \in Nat /\ Len(tsPort') = Len(tsPort) + 1 /\ tsPort'[Len(tsPort) + 1] = c
      /\ \A i \in 1..Len(tsPort) : tsPort'[i] = tsPort[i]
      /\ tsPort' \in Seq(AcceptPackets \cup OtherPackets)
  BY DEF TsTypes
<1>2. \A n \in AcceptNodes, i \in 1..Len(tsPort') : tsPort'[i] = TsAccept(n) => i \in 1..Len(tsPort) /\ tsPort[i] = TsAccept(n)
  <2> TAKE n \in AcceptNodes, i \in 1..Len(tsPort')
  <2>1. i \in 1..Len(tsPort) \/ i = Len(tsPort) + 1
    BY <1>1
  <2>. QED BY <2>1, <1>1, Packets
<1>3. \A n \in AcceptNodes : Queued(n)' <=> Queued(n)
  <2> TAKE n \in AcceptNodes
  <2>1. Queued(n)' => Queued(n)
    BY <1>2 DEF Queued
  <2>2. ASSUME Queued(n) PROVE Queued(n)'
    <3>1. PICK i \in 1..Len(tsPort) : tsPort[i] = TsAccept(n)
      BY <2>2 DEF Queued
    <3>2. i \in 1..Len(tsPort') /\ tsPort'[i] = TsAccept(n)
      BY <3>1, <1>1
    <3>. QED BY <3>2 DEF Queued
  <2>. QED BY <2>1, <2>2
<1>4. \A n \in AcceptNodes, i, j \in 1..Len(tsPort') : tsPort'[i] = TsAccept(n) /\ tsPort'[j] = TsAccept(n) => i = j
  BY <1>2 DEF RequestsKept
<1>. QED BY <1>1, <1>3, <1>4 DEF RequestsKept

\* The port is left alone, and no request moves in or out of a queue.
LEMMA RequestsStay ==
    ASSUME TsTypes, RequestsKept, tsPort' = tsPort, tsWorker' = tsWorker,
           \A n \in AcceptNodes : tsNode'[n].at = "queued" <=> tsNode[n].at = "queued",
           \A n \in AcceptNodes : tsNode'[n].at = "taken" <=> tsNode[n].at = "taken"
    PROVE  RequestsKept'
<1>1. \A n \in AcceptNodes : Queued(n)' <=> Queued(n)
  BY DEF Queued
<1>2. \A n \in AcceptNodes : tsNode'[n].at = "queued" <=> Queued(n)'
  BY <1>1 DEF RequestsKept
<1>3. \A n \in AcceptNodes, i, j \in 1..Len(tsPort') : tsPort'[i] = TsAccept(n) /\ tsPort'[j] = TsAccept(n) => i = j
  BY DEF RequestsKept
<1>4. \A w \in IocpThreads : tsWorker'[w].at = "accept" => tsNode'[tsWorker'[w].n].at = "taken"
  BY DEF RequestsKept, TsTypes
<1>5. \A w, v \in IocpThreads :
        tsWorker'[w].at = "accept" /\ tsWorker'[v].at = "accept" /\ tsWorker'[w].n = tsWorker'[v].n => w = v
  BY DEF RequestsKept
<1>6. \A n \in AcceptNodes : tsNode'[n].at = "taken" => \E w \in IocpThreads : tsWorker'[w] = [at |-> "accept", n |-> n]
  BY DEF RequestsKept
<1>. QED BY <1>2, <1>3, <1>4, <1>5, <1>6 DEF RequestsKept

\* PostAcceptEx of one request: a new socket or none.
LEMMA Posted ==
    ASSUME TsTypes, SocksApart, NEW n \in AcceptNodes, PostAcceptEx(n)
    PROVE  /\ tsNode' \in [AcceptNodes -> [at : {"none", "idle", "posted", "queued", "taken", "deleted"}, sock : Nat]]
           /\ tsSock' \in Seq({"made", "connected", "closed"})
           /\ SocksApart' /\ tsNode'[n].at \in {"idle", "posted", "deleted"}
           /\ \A m \in AcceptNodes : m # n => tsNode'[m] = tsNode[m]
<1>1. tsNode \in [AcceptNodes -> [at : {"none", "idle", "posted", "queued", "taken", "deleted"}, sock : Nat]]
        /\ tsSock \in Seq({"made", "connected", "closed"}) /\ Len(tsSock) \in Nat
  BY DEF TsTypes
<1>2. PICK at \in {"idle", "posted", "deleted"}, k \in Nat :
        /\ tsNode' = [tsNode EXCEPT ![n] = [at |-> at, sock |-> k]]
        /\ \/ k = Invalid /\ UNCHANGED tsSock
           \/ \E st \in {"made", "closed"} : tsSock' = Append(tsSock, st) /\ k \in {Invalid, Len(tsSock) + 1}
  <2>1. CASE tsNode' = [tsNode EXCEPT ![n] = [at |-> "idle", sock |-> Invalid]] /\ UNCHANGED tsSock
    BY <2>1 DEF Invalid
  <2>2. CASE Socket("made") /\ tsNode' = [tsNode EXCEPT ![n] = [at |-> "posted", sock |-> Len(tsSock) + 1]]
    <3>1. Len(tsSock) + 1 \in Nat
      BY <1>1
    <3>. QED BY <2>2, <3>1 DEF Socket
  <2>3. CASE Socket("closed") /\ RemoveIOData(n)
    BY <2>3 DEF Socket, RemoveIOData, Invalid
  <2>. QED BY <2>1, <2>2, <2>3 DEF PostAcceptEx
<1>3. /\ tsNode'[n] = [at |-> at, sock |-> k] /\ \A m \in AcceptNodes : m # n => tsNode'[m] = tsNode[m]
      /\ tsNode' \in [AcceptNodes -> [at : {"none", "idle", "posted", "queued", "taken", "deleted"}, sock : Nat]]
  BY <1>1, <1>2
<1>4. /\ tsSock' \in Seq({"made", "connected", "closed"}) /\ Len(tsSock') \in Nat /\ Len(tsSock') >= Len(tsSock)
      /\ k # Invalid => k = Len(tsSock) + 1 /\ Len(tsSock') = Len(tsSock) + 1
  <2>1. CASE k = Invalid /\ UNCHANGED tsSock
    BY <2>1, <1>1
  <2>2. ASSUME NEW st \in {"made", "closed"}, tsSock' = Append(tsSock, st), k \in {Invalid, Len(tsSock) + 1}
        PROVE  /\ tsSock' \in Seq({"made", "connected", "closed"}) /\ Len(tsSock') \in Nat /\ Len(tsSock') >= Len(tsSock)
               /\ k # Invalid => k = Len(tsSock) + 1 /\ Len(tsSock') = Len(tsSock) + 1
    <3>1. /\ tsSock' \in Seq({"made", "connected", "closed"}) /\ Len(tsSock') = Len(tsSock) + 1
      BY <2>2, <1>1
    <3>. QED BY <2>2, <3>1, <1>1
  <2>. QED BY <1>2, <2>1, <2>2
<1>5. \A m \in AcceptNodes : tsNode[m].sock \in Nat /\ tsNode[m].sock <= Len(tsSock)
  BY <1>1 DEF SocksApart
<1>6. \A m \in AcceptNodes : tsNode'[m].sock <= Len(tsSock')
  <2> TAKE m \in AcceptNodes
  <2>1. CASE m = n
    BY <2>1, <1>1, <1>3, <1>4 DEF Invalid
  <2>2. CASE m # n
    BY <2>2, <1>1, <1>3, <1>4, <1>5
  <2>. QED BY <2>1, <2>2
<1>7. \A l, m \in AcceptNodes : l # m /\ tsNode'[l].sock = tsNode'[m].sock => tsNode'[l].sock = Invalid
  <2> SUFFICES ASSUME NEW l \in AcceptNodes, NEW m \in AcceptNodes, l # m, tsNode'[l].sock = tsNode'[m].sock,
                      tsNode'[l].sock # Invalid
               PROVE  FALSE
    OBVIOUS
  <2>1. CASE l = n
    BY <2>1, <1>1, <1>3, <1>4, <1>5
  <2>2. CASE m = n
    BY <2>2, <1>1, <1>3, <1>4, <1>5
  <2>3. CASE l # n /\ m # n
    BY <2>3, <1>3 DEF SocksApart
  <2>. QED BY <2>1, <2>2, <2>3
<1>. QED BY <1>3, <1>4, <1>6, <1>7 DEF SocksApart

LEMMA QuitsAppended ==
    ASSUME RequestsKept, TsTypes, NEW k \in Nat, tsPort' = tsPort \o [i \in 1..k |-> TsQuit], UNCHANGED <<tsNode, tsWorker>>
    PROVE  RequestsKept' /\ tsPort' \in Seq(AcceptPackets \cup OtherPackets)
<1>0. TsQuit \in OtherPackets
  BY DEF OtherPackets
<1>1. PICK q \in Seq(OtherPackets) : Len(q) = k /\ tsPort' = tsPort \o q
  <2>1. [i \in 1..k |-> TsQuit] \in Seq(OtherPackets) /\ Len([i \in 1..k |-> TsQuit]) = k
    BY <1>0
  <2>. QED BY <2>1
<1>2. tsPort \in Seq(AcceptPackets \cup OtherPackets) /\ q \in Seq(AcceptPackets \cup OtherPackets) /\ Len(tsPort) \in Nat
  BY <1>1 DEF TsTypes
<1>3. /\ tsPort' \in Seq(AcceptPackets \cup OtherPackets) /\ Len(tsPort') = Len(tsPort) + k
      /\ \A i \in 1..Len(tsPort') : tsPort'[i] = IF i <= Len(tsPort) THEN tsPort[i] ELSE q[i - Len(tsPort)]
  <2>0. \A p \in Seq(AcceptPackets \cup OtherPackets) : 
          /\ tsPort \o p \in Seq(AcceptPackets \cup OtherPackets) /\ Len(tsPort \o p) = Len(tsPort) + Len(p)
          /\ \A i \in 1..Len(tsPort) + Len(p) : (tsPort \o p)[i] = IF i <= Len(tsPort) THEN tsPort[i] ELSE p[i - Len(tsPort)]
    BY <1>2, ConcatProperties
  <2>. QED BY <2>0, <1>1, <1>2
<1>4. \A n \in AcceptNodes, i \in 1..Len(tsPort') : tsPort'[i] = TsAccept(n) => i \in 1..Len(tsPort) /\ tsPort[i] = TsAccept(n)
  <2> SUFFICES ASSUME NEW n \in AcceptNodes, NEW i \in 1..Len(tsPort'), tsPort'[i] = TsAccept(n)
               PROVE  i \in 1..Len(tsPort) /\ tsPort[i] = TsAccept(n)
    OBVIOUS
  <2>1. CASE i <= Len(tsPort)
    BY <2>1, <1>2, <1>3
  <2>2. CASE ~ i <= Len(tsPort)
    <3>1. i - Len(tsPort) \in 1..k
      BY <2>2, <1>2, <1>3
    <3>2. q[i - Len(tsPort)] \in OtherPackets
      BY <3>1, <1>1
    <3>. QED BY <2>2, <3>2, <1>3, Packets
  <2>. QED BY <2>1, <2>2
<1>5. \A n \in AcceptNodes : Queued(n)' <=> Queued(n)
  <2> TAKE n \in AcceptNodes
  <2>1. Queued(n)' => Queued(n)
    BY <1>4 DEF Queued
  <2>2. ASSUME Queued(n) PROVE Queued(n)'
    <3>1. PICK i \in 1..Len(tsPort) : tsPort[i] = TsAccept(n)
      BY <2>2 DEF Queued
    <3>2. i \in 1..Len(tsPort') /\ tsPort'[i] = TsAccept(n)
      BY <3>1, <1>2, <1>3
    <3>. QED BY <3>2 DEF Queued
  <2>. QED BY <2>1, <2>2
<1>6. \A n \in AcceptNodes, i, j \in 1..Len(tsPort') : tsPort'[i] = TsAccept(n) /\ tsPort'[j] = TsAccept(n) => i = j
  BY <1>4 DEF RequestsKept
<1>. QED BY <1>3, <1>5, <1>6 DEF RequestsKept

\* A client connects: the request is queued, once.
LEMMA AcceptQueued ==
    ASSUME RequestsKept, TsTypes, NEW n \in AcceptNodes, tsNode[n].at = "posted",
           tsPort' = Append(tsPort, TsAccept(n)), tsWorker' = tsWorker,
           \A m \in AcceptNodes : m # n => tsNode'[m].at = tsNode[m].at, tsNode'[n].at = "queued"
    PROVE  RequestsKept' /\ tsPort' \in Seq(AcceptPackets \cup OtherPackets)
<1>1. /\ Len(tsPort) \in Nat /\ Len(tsPort') = Len(tsPort) + 1 /\ tsPort'[Len(tsPort) + 1] = TsAccept(n)
      /\ \A i \in 1..Len(tsPort) : tsPort'[i] = tsPort[i]
      /\ tsPort' \in Seq(AcceptPackets \cup OtherPackets)
  <2>1. TsAccept(n) \in AcceptPackets \cup OtherPackets
    BY DEF AcceptPackets
  <2>. QED BY <2>1 DEF TsTypes
<1>2. ~ Queued(n)
  BY DEF RequestsKept
<1>3. \A m \in AcceptNodes, i \in 1..Len(tsPort') :
        tsPort'[i] = TsAccept(m) <=> IF i = Len(tsPort) + 1 THEN m = n ELSE i \in 1..Len(tsPort) /\ tsPort[i] = TsAccept(m)
  <2> TAKE m \in AcceptNodes, i \in 1..Len(tsPort')
  <2>1. CASE i = Len(tsPort) + 1
    BY <2>1, <1>1, Packets
  <2>2. CASE i # Len(tsPort) + 1
    <3>1. i \in 1..Len(tsPort)
      BY <2>2, <1>1
    <3>. QED BY <2>2, <3>1, <1>1
  <2>. QED BY <2>1, <2>2
<1>4. \A m \in AcceptNodes : Queued(m)' <=> Queued(m) \/ m = n
  <2> TAKE m \in AcceptNodes
  <2>1. Queued(m)' => Queued(m) \/ m = n
    BY <1>3 DEF Queued
  <2>2. ASSUME Queued(m) PROVE Queued(m)'
    <3>1. PICK i \in 1..Len(tsPort) : tsPort[i] = TsAccept(m)
      BY <2>2 DEF Queued
    <3>2. i \in 1..Len(tsPort') /\ tsPort'[i] = TsAccept(m)
      BY <3>1, <1>1
    <3>. QED BY <3>2 DEF Queued
  <2>3. ASSUME m = n PROVE Queued(m)'
    <3>1. Len(tsPort) + 1 \in 1..Len(tsPort')
      BY <1>1
    <3>. QED BY <2>3, <3>1, <1>1 DEF Queued
  <2>. QED BY <2>1, <2>2, <2>3
<1>5. \A m \in AcceptNodes, i, j \in 1..Len(tsPort') : tsPort'[i] = TsAccept(m) /\ tsPort'[j] = TsAccept(m) => i = j
  <2> SUFFICES ASSUME NEW m \in AcceptNodes, NEW i \in 1..Len(tsPort'), NEW j \in 1..Len(tsPort'),
                      tsPort'[i] = TsAccept(m), tsPort'[j] = TsAccept(m)
               PROVE  i = j
    OBVIOUS
  <2>1. CASE m = n
    <3>1. ASSUME NEW l \in 1..Len(tsPort) PROVE tsPort[l] # TsAccept(n)
      BY <1>2 DEF Queued
    <3>. QED BY <2>1, <3>1, <1>3
  <2>2. CASE m # n
    BY <2>2, <1>3 DEF RequestsKept
  <2>. QED BY <2>1, <2>2
<1>6. \A m \in AcceptNodes : tsNode'[m].at = "queued" <=> Queued(m)'
  BY <1>4 DEF RequestsKept
<1>7. \A m \in AcceptNodes : tsNode'[m].at = "taken" <=> tsNode[m].at = "taken"
  OBVIOUS
<1>8. \A w \in IocpThreads : tsWorker'[w].at = "accept" => tsNode'[tsWorker'[w].n].at = "taken"
  BY <1>7 DEF RequestsKept, TsTypes
<1>9. \A m \in AcceptNodes : tsNode'[m].at = "taken" => \E w \in IocpThreads : tsWorker'[w] = [at |-> "accept", n |-> m]
  BY <1>7 DEF RequestsKept
<1>10. \A w, v \in IocpThreads :
         tsWorker'[w].at = "accept" /\ tsWorker'[v].at = "accept" /\ tsWorker'[w].n = tsWorker'[v].n => w = v
  BY DEF RequestsKept
<1>. QED BY <1>1, <1>5, <1>6, <1>8, <1>9, <1>10 DEF RequestsKept

\* The oldest completion is taken out of the port.
LEMMA HeadTaken ==
    ASSUME TsTypes, RequestsKept, tsPort # <<>>, tsPort' = Tail(tsPort)
    PROVE  /\ Head(tsPort) \in AcceptPackets \cup OtherPackets /\ tsPort' \in Seq(AcceptPackets \cup OtherPackets)
           /\ \A n \in AcceptNodes : Queued(n)' <=> Queued(n) /\ Head(tsPort) # TsAccept(n)
           /\ \A n \in AcceptNodes : Head(tsPort) = TsAccept(n) => Queued(n)
           /\ \A n \in AcceptNodes, i, j \in 1..Len(tsPort') : tsPort'[i] = TsAccept(n) /\ tsPort'[j] = TsAccept(n) => i = j
<1>1. tsPort \in Seq(AcceptPackets \cup OtherPackets)
  BY DEF TsTypes
<1>2. /\ Head(tsPort) \in AcceptPackets \cup OtherPackets /\ Head(tsPort) = tsPort[1]
      /\ tsPort' \in Seq(AcceptPackets \cup OtherPackets)
      /\ Len(tsPort) \in Nat /\ Len(tsPort) >= 1 /\ Len(tsPort') = Len(tsPort) - 1
      /\ \A i \in 1..Len(tsPort') : tsPort'[i] = tsPort[i + 1]
  BY <1>1, HeadTailProperties
<1>3. \A i \in 1..Len(tsPort') : i + 1 \in 1..Len(tsPort)
  BY <1>2
<1>4. ASSUME NEW n \in AcceptNodes, Queued(n)' PROVE Queued(n) /\ Head(tsPort) # TsAccept(n)
  <2>1. PICK i \in 1..Len(tsPort') : tsPort'[i] = TsAccept(n)
    BY <1>4 DEF Queued
  <2>2. i + 1 \in 1..Len(tsPort) /\ tsPort[i + 1] = TsAccept(n) /\ 1 \in 1..Len(tsPort) /\ i + 1 # 1
    BY <2>1, <1>2, <1>3
  <2>3. tsPort[1] # TsAccept(n)
    BY <2>2 DEF RequestsKept
  <2>. QED BY <2>2, <2>3, <1>2 DEF Queued
<1>5. ASSUME NEW n \in AcceptNodes, Queued(n), Head(tsPort) # TsAccept(n) PROVE Queued(n)'
  <2>1. PICK i \in 1..Len(tsPort) : tsPort[i] = TsAccept(n)
    BY <1>5 DEF Queued
  <2>2. i # 1
    BY <2>1, <1>5, <1>2
  <2>3. i - 1 \in 1..Len(tsPort') /\ (i - 1) + 1 = i
    BY <2>2, <1>2
  <2>4. tsPort'[i - 1] = TsAccept(n)
    BY <2>1, <2>3, <1>2
  <2>. QED BY <2>3, <2>4 DEF Queued
<1>6. \A n \in AcceptNodes : Head(tsPort) = TsAccept(n) => Queued(n)
  BY <1>2 DEF Queued
<1>7. \A n \in AcceptNodes, i, j \in 1..Len(tsPort') : tsPort'[i] = TsAccept(n) /\ tsPort'[j] = TsAccept(n) => i = j
  <2> SUFFICES ASSUME NEW n \in AcceptNodes, NEW i \in 1..Len(tsPort'), NEW j \in 1..Len(tsPort'),
                      tsPort'[i] = TsAccept(n), tsPort'[j] = TsAccept(n)
               PROVE  i = j
    OBVIOUS
  <2>1. i + 1 = j + 1
    BY <1>2, <1>3 DEF RequestsKept
  <2>. QED BY <2>1
<1>. QED BY <1>2, <1>4, <1>5, <1>6, <1>7

\* A worker that has no request takes none.
LEMMA NoRequestTaken ==
    ASSUME TsTypes, RequestsKept, NEW w \in IocpThreads, tsWorker[w].at # "accept",
           tsWorker'[w].at # "accept", \A v \in IocpThreads : v # w => tsWorker'[v] = tsWorker[v],
           tsNode' = tsNode, \A n \in AcceptNodes : Queued(n)' <=> Queued(n),
           \A n \in AcceptNodes, i, j \in 1..Len(tsPort') : tsPort'[i] = TsAccept(n) /\ tsPort'[j] = TsAccept(n) => i = j
    PROVE  RequestsKept'
<1>1. \A n \in AcceptNodes : tsNode'[n].at = "queued" <=> Queued(n)'
  BY DEF RequestsKept
<1>2. \A v \in IocpThreads : tsWorker'[v].at = "accept" => v # w /\ tsWorker'[v] = tsWorker[v]
  OBVIOUS
<1>3. \A v \in IocpThreads : tsWorker'[v].at = "accept" => tsNode'[tsWorker'[v].n].at = "taken"
  BY <1>2 DEF RequestsKept
<1>4. \A u, v \in IocpThreads :
        tsWorker'[u].at = "accept" /\ tsWorker'[v].at = "accept" /\ tsWorker'[u].n = tsWorker'[v].n => u = v
  BY <1>2 DEF RequestsKept
<1>5. ASSUME NEW n \in AcceptNodes, tsNode'[n].at = "taken"
      PROVE  \E v \in IocpThreads : tsWorker'[v] = [at |-> "accept", n |-> n]
  <2>1. PICK v \in IocpThreads : tsWorker[v] = [at |-> "accept", n |-> n]
    BY <1>5 DEF RequestsKept
  <2>2. v # w
    BY <2>1
  <2>. QED BY <2>1, <2>2
<1>. QED BY <1>1, <1>3, <1>4, <1>5 DEF RequestsKept

\* A worker takes the request that was queued.
LEMMA RequestTaken ==
    ASSUME TsTypes, RequestsKept, NEW w \in IocpThreads, tsWorker[w].at # "accept", NEW m \in AcceptNodes,
           tsNode[m].at = "queued",
           tsWorker'[w] = [at |-> "accept", n |-> m], \A v \in IocpThreads : v # w => tsWorker'[v] = tsWorker[v],
           tsNode'[m].at = "taken", \A n \in AcceptNodes : n # m => tsNode'[n] = tsNode[n],
           \A n \in AcceptNodes : Queued(n)' <=> Queued(n) /\ n # m,
           \A n \in AcceptNodes, i, j \in 1..Len(tsPort') : tsPort'[i] = TsAccept(n) /\ tsPort'[j] = TsAccept(n) => i = j
    PROVE  RequestsKept'
<1>1. \A n \in AcceptNodes : tsNode'[n].at = "queued" <=> Queued(n)'
  BY DEF RequestsKept
<1>2. \A v \in IocpThreads : tsWorker'[v].at = "accept" =>
        v = w \/ (tsWorker'[v] = tsWorker[v] /\ tsWorker'[v].n # m /\ tsWorker'[v].n \in AcceptNodes)
  BY DEF RequestsKept, TsTypes
<1>3. \A v \in IocpThreads : tsWorker'[v].at = "accept" => tsNode'[tsWorker'[v].n].at = "taken"
  <2> SUFFICES ASSUME NEW v \in IocpThreads, tsWorker'[v].at = "accept" PROVE tsNode'[tsWorker'[v].n].at = "taken"
    OBVIOUS
  <2>1. CASE v = w
    <3>1. tsWorker'[v].n = m
      BY <2>1
    <3>. QED BY <3>1
  <2>2. CASE v # w
    <3>1. tsNode[tsWorker[v].n].at = "taken" /\ tsWorker'[v].n = tsWorker[v].n
      BY <2>2, <1>2 DEF RequestsKept
    <3>. QED BY <3>1, <2>2, <1>2
  <2>. QED BY <2>1, <2>2
<1>4. \A u, v \in IocpThreads :
        tsWorker'[u].at = "accept" /\ tsWorker'[v].at = "accept" /\ tsWorker'[u].n = tsWorker'[v].n => u = v
  <2> SUFFICES ASSUME NEW u \in IocpThreads, NEW v \in IocpThreads, tsWorker'[u].at = "accept", tsWorker'[v].at = "accept",
                      tsWorker'[u].n = tsWorker'[v].n
               PROVE  u = v
    OBVIOUS
  <2>0. tsWorker'[w].n = m
    OBVIOUS
  <2>1. CASE u = w \/ v = w
    BY <2>0, <2>1, <1>2
  <2>2. CASE u # w /\ v # w
    BY <2>2, <1>2 DEF RequestsKept
  <2>. QED BY <2>1, <2>2
<1>5. ASSUME NEW n \in AcceptNodes, tsNode'[n].at = "taken"
      PROVE  \E v \in IocpThreads : tsWorker'[v] = [at |-> "accept", n |-> n]
  <2>1. CASE n = m
    BY <2>1
  <2>2. CASE n # m
    <3>1. PICK v \in IocpThreads : tsWorker[v] = [at |-> "accept", n |-> n]
      BY <1>5, <2>2 DEF RequestsKept
    <3>2. v # w
      BY <3>1
    <3>. QED BY <3>1, <3>2
  <2>. QED BY <2>1, <2>2
<1>. QED BY <1>1, <1>3, <1>4, <1>5 DEF RequestsKept

\* A worker has done with its request.
LEMMA RequestDone ==
    ASSUME TsTypes, RequestsKept, NEW w \in IocpThreads, NEW m \in AcceptNodes, tsWorker[w].at = "accept", tsWorker[w].n = m,
           tsWorker'[w].at # "accept", \A v \in IocpThreads : v # w => tsWorker'[v] = tsWorker[v],
           tsNode'[m].at \in {"idle", "posted", "deleted"}, \A n \in AcceptNodes : n # m => tsNode'[n] = tsNode[n],
           tsPort' = tsPort
    PROVE  RequestsKept'
<1>0. tsNode[m].at = "taken" /\ ~ Queued(m)
  BY DEF RequestsKept
<1>1. \A n \in AcceptNodes : tsNode'[n].at = "queued" <=> Queued(n)'
  <2> TAKE n \in AcceptNodes
  <2>0. Queued(n)' <=> Queued(n)
    BY DEF Queued
  <2>1. CASE n = m
    BY <2>0, <2>1, <1>0
  <2>2. CASE n # m
    BY <2>0, <2>2 DEF RequestsKept
  <2>. QED BY <2>1, <2>2
<1>2. \A v \in IocpThreads : tsWorker'[v].at = "accept" =>
        v # w /\ tsWorker'[v] = tsWorker[v] /\ tsWorker'[v].n # m /\ tsWorker'[v].n \in AcceptNodes
  BY DEF RequestsKept, TsTypes
<1>3. \A v \in IocpThreads : tsWorker'[v].at = "accept" => tsNode'[tsWorker'[v].n].at = "taken"
  BY <1>2 DEF RequestsKept
<1>4. \A u, v \in IocpThreads :
        tsWorker'[u].at = "accept" /\ tsWorker'[v].at = "accept" /\ tsWorker'[u].n = tsWorker'[v].n => u = v
  BY <1>2 DEF RequestsKept
<1>5. ASSUME NEW n \in AcceptNodes, tsNode'[n].at = "taken"
      PROVE  \E v \in IocpThreads : tsWorker'[v] = [at |-> "accept", n |-> n]
  <2>0. n # m
    BY <1>5
  <2>1. PICK v \in IocpThreads : tsWorker[v] = [at |-> "accept", n |-> n]
    BY <1>5, <2>0 DEF RequestsKept
  <2>2. v # w
    BY <2>0, <2>1
  <2>. QED BY <2>1, <2>2
<1>6. \A n \in AcceptNodes, i, j \in 1..Len(tsPort') : tsPort'[i] = TsAccept(n) /\ tsPort'[j] = TsAccept(n) => i = j
  BY DEF RequestsKept
<1>. QED BY <1>1, <1>3, <1>4, <1>5, <1>6 DEF RequestsKept

LEMMA StartKeeps ==
    ASSUME TsInv, InitializeIOCP \/ InitializeSocket \/ GetAcceptExFuction
    PROVE  TsInv'
<1>1. CASE InitializeIOCP
  <2>1. /\ tsMain = "made" /\ UNCHANGED <<tsPort, tsNode, tsSock, tsIo>> /\ tsMain' \in {"failed", "port"}
        /\ tsWorker' = tsWorker \/ tsWorker' = [w \in IocpThreads |-> [at |-> "get", n |-> 0]]
    BY <1>1 DEF InitializeIOCP, StartStep
  <2>2. \A w \in IocpThreads : tsWorker[w].at = "off" /\ tsWorker'[w].at \in {"off", "get"}
    BY <2>1 DEF TsInv, TsTypes
  <2>3. tsWorker' \in [IocpThreads -> [at : {"off", "get", "accept", "append", "ended"}, n : AcceptNodes \cup {0}]]
    BY <2>1 DEF TsInv, TsTypes
  <2>4. TsTypes' /\ SocksApart'
    BY <2>1, <2>2, <2>3 DEF TsInv, TsTypes, SocksApart, tsIo
  <2>5. RequestsKept
    BY <2>1 DEF TsInv
  <2>6. \A n \in AcceptNodes : tsNode[n].at # "taken"
    <3> SUFFICES ASSUME NEW n \in AcceptNodes, tsNode[n].at = "taken" PROVE FALSE
      OBVIOUS
    <3>1. PICK w \in IocpThreads : tsWorker[w] = [at |-> "accept", n |-> n]
      BY <2>5 DEF RequestsKept
    <3>. QED BY <3>1, <2>2
  <2>7. \A n \in AcceptNodes : Queued(n)' <=> Queued(n)
    BY <2>1 DEF Queued
  <2>8. RequestsKept'
    BY <2>1, <2>2, <2>5, <2>6, <2>7 DEF RequestsKept
  <2>. QED BY <2>4, <2>8 DEF TsInv
<1>2. CASE InitializeSocket \/ GetAcceptExFuction
  <2>1. tsMain \in {"port", "listening"} /\ tsMain' # "made" /\ UNCHANGED <<tsPort, tsWorker, tsNode, tsSock, tsIo>>
    BY <1>2 DEF InitializeSocket, GetAcceptExFuction, StartStep
  <2>2. TsTypes' /\ SocksApart'
    BY <2>1 DEF TsInv, TsTypes, SocksApart, tsIo
  <2>3. TsTypes /\ RequestsKept
    BY <2>1 DEF TsInv
  <2>4. RequestsKept'
    BY <2>1, <2>3, RequestsStay
  <2>. QED BY <2>2, <2>4 DEF TsInv
<1>. QED BY <1>1, <1>2

LEMMA PostAcceptsKeeps == ASSUME TsInv, PostAccepts PROVE TsInv'
<1>1. tsMain = "posting" /\ tsMain' \in {"posting", "started"} /\ UNCHANGED <<tsPort, tsWorker, tsClients, tsRecv, tsSend>>
  BY DEF PostAccepts, tsIo
<1>2. TsTypes /\ SocksApart /\ RequestsKept
  BY <1>1 DEF TsInv
<1>3. CASE \E n \in AcceptNodes : tsNode[n].at = "none"
  <2>1. PICK n \in AcceptNodes : tsNode[n].at = "none" /\ PostAcceptEx(n)
    BY <1>3 DEF PostAccepts, GetNewIOData
  <2>2. /\ tsNode' \in [AcceptNodes -> [at : {"none", "idle", "posted", "queued", "taken", "deleted"}, sock : Nat]]
        /\ tsSock' \in Seq({"made", "connected", "closed"})
        /\ SocksApart' /\ tsNode'[n].at \in {"idle", "posted", "deleted"}
        /\ \A m \in AcceptNodes : m # n => tsNode'[m] = tsNode[m]
    BY <1>2, <2>1, Posted
  <2>3. TsTypes'
    BY <1>1, <1>2, <2>2 DEF TsTypes
  <2>4. /\ \A m \in AcceptNodes : tsNode'[m].at = "queued" <=> tsNode[m].at = "queued"
        /\ \A m \in AcceptNodes : tsNode'[m].at = "taken" <=> tsNode[m].at = "taken"
    BY <2>1, <2>2
  <2>5. RequestsKept'
    BY <1>1, <1>2, <2>4, RequestsStay
  <2>. QED BY <2>2, <2>3, <2>5 DEF TsInv
<1>4. CASE ~ \E n \in AcceptNodes : tsNode[n].at = "none"
  <2>1. UNCHANGED <<tsNode, tsSock>>
    BY <1>4 DEF PostAccepts
  <2>2. TsTypes' /\ SocksApart'
    BY <1>1, <1>2, <2>1 DEF TsTypes, SocksApart
  <2>3. RequestsKept'
    BY <1>1, <1>2, <2>1, RequestsStay
  <2>. QED BY <2>2, <2>3 DEF TsInv
<1>. QED BY <1>3, <1>4

LEMMA TsStopKeeps == ASSUME TsInv, TsStop PROVE TsInv'
<1>0. TsTypes /\ SocksApart /\ RequestsKept /\ UNCHANGED <<tsWorker, tsNode, tsSock>> /\ tsMain # "made"
      /\ tsMain' # "made" /\ SocksApart'
  <2>1. tsMain # "stopped" /\ UNCHANGED <<tsWorker, tsNode, tsSock>> /\ tsMain # "made" /\ tsMain' # "made"
    BY DEF TsStop
  <2>. QED BY <2>1 DEF TsInv, SocksApart
<1>1. ASSUME tsPort' = tsPort \o [i \in 1..Cardinality(TsMade) |-> TsQuit], UNCHANGED tsIo PROVE TsInv'
  <2>1. IsFiniteSet(TsMade)
    BY IocpAssumption, FS_Subset DEF TsMade
  <2>2. Cardinality(TsMade) \in Nat
    BY <2>1, FS_CardinalityType
  <2>3. RequestsKept' /\ tsPort' \in Seq(AcceptPackets \cup OtherPackets)
    BY <1>0, <1>1, <2>2, QuitsAppended
  <2>4. TsTypes'
    BY <1>0, <1>1, <2>3 DEF TsTypes, tsIo
  <2>. QED BY <1>0, <2>3, <2>4 DEF TsInv
<1>2. ASSUME tsPort' = Append(tsPort, TsQuit), UNCHANGED tsIo PROVE TsInv'
  <2>1. TsQuit \in OtherPackets
    BY DEF OtherPackets
  <2>2. RequestsKept' /\ tsPort' \in Seq(AcceptPackets \cup OtherPackets)
    BY <1>0, <1>2, <2>1, OtherAppended
  <2>3. TsTypes'
    BY <1>0, <1>2, <2>2 DEF TsTypes, tsIo
  <2>. QED BY <1>0, <2>2, <2>3 DEF TsInv
<1>3. ASSUME tsMain' = "stopped", tsPort' = <<>>, tsClients' = {}, UNCHANGED <<tsRecv, tsSend>> PROVE TsInv'
  <2>1. TsTypes'
    BY <1>0, <1>3 DEF TsTypes
  <2>. QED BY <1>0, <1>3, <2>1 DEF TsInv
<1>. QED BY <1>1, <1>2, <1>3 DEF TsStop

\* A socket changes its state.
LEMMA SockSet ==
    ASSUME TsTypes, NEW s, NEW state \in {"made", "connected", "closed"}, tsSock' = [tsSock EXCEPT ![s] = state]
    PROVE  tsSock' \in Seq({"made", "connected", "closed"}) /\ Len(tsSock') = Len(tsSock)
<1>0. tsSock \in Seq({"made", "connected", "closed"})
  BY DEF TsTypes
<1>1. CASE s \in 1..Len(tsSock)
  BY <1>0, <1>1, ExceptSeq
<1>2. CASE s \notin 1..Len(tsSock)
  <2>1. DOMAIN tsSock = 1..Len(tsSock) /\ tsSock = [i \in DOMAIN tsSock |-> tsSock[i]]
    BY <1>0
  <2>2. tsSock' = tsSock
    BY <1>2, <2>1
  <2>. QED BY <1>0, <2>2
<1>. QED BY <1>1, <1>2

LEMMA TsCompletionKeeps == ASSUME TsInv, tsMain # "stopped", TsCompletion PROVE TsInv'
<1>0. TsTypes /\ SocksApart /\ RequestsKept /\ UNCHANGED <<tsMain, tsWorker, tsClients>>
  BY DEF TsInv, TsCompletion
<1>1. ASSUME NEW n \in AcceptNodes, tsNode[n].at = "posted",
             tsNode' = [tsNode EXCEPT ![n].at = "queued"], tsSock' = [tsSock EXCEPT ![tsNode[n].sock] = "connected"],
             tsPort' = Append(tsPort, TsAccept(n)), UNCHANGED <<tsRecv, tsSend>>
      PROVE  TsInv'
  <2>1. /\ tsNode'[n].at = "queued" /\ \A m \in AcceptNodes : m # n => tsNode'[m].at = tsNode[m].at
        /\ \A m \in AcceptNodes : tsNode'[m].sock = tsNode[m].sock
        /\ tsNode' \in [AcceptNodes -> [at : {"none", "idle", "posted", "queued", "taken", "deleted"}, sock : Nat]]
    BY <1>0, <1>1 DEF TsTypes
  <2>2. tsSock' \in Seq({"made", "connected", "closed"}) /\ Len(tsSock') = Len(tsSock)
    BY <1>0, <1>1, SockSet
  <2>3. SocksApart'
    BY <1>0, <2>1, <2>2 DEF SocksApart
  <2>4. RequestsKept' /\ tsPort' \in Seq(AcceptPackets \cup OtherPackets)
    BY <1>0, <1>1, <2>1, AcceptQueued
  <2>5. TsTypes'
    BY <1>0, <1>1, <2>1, <2>2, <2>4 DEF TsTypes
  <2>. QED BY <2>3, <2>4, <2>5 DEF TsInv
<1>2. ASSUME NEW c \in OtherPackets, tsPort' = Append(tsPort, c), UNCHANGED <<tsNode, tsSock>>,
             tsRecv' \subseteq tsRecv, tsSend' \subseteq tsSend
      PROVE  TsInv'
  <2>1. RequestsKept' /\ tsPort' \in Seq(AcceptPackets \cup OtherPackets)
    BY <1>0, <1>2, OtherAppended
  <2>2. TsTypes' /\ SocksApart'
    BY <1>0, <1>2, <2>1 DEF TsTypes, SocksApart
  <2>. QED BY <2>1, <2>2 DEF TsInv
<1>3. \A op \in {"recv", "send", "error"}, s \in tsRecv \cup tsSend, zero \in BOOLEAN : Transfer(op, s, zero) \in OtherPackets
  BY <1>0 DEF OtherPackets, TsTypes
<1>4. ASSUME NEW s \in tsRecv, NEW zero \in BOOLEAN, tsRecv' = tsRecv \ {s}, tsPort' = Append(tsPort, Transfer("recv", s, zero)),
             UNCHANGED <<tsNode, tsSock, tsSend>>
      PROVE  TsInv'
  <2>1. Transfer("recv", s, zero) \in OtherPackets
    BY <1>3
  <2>. QED BY <2>1, <1>2, <1>4
<1>5. ASSUME NEW s \in tsRecv, tsRecv' = tsRecv \ {s}, tsPort' = Append(tsPort, Transfer("error", s, FALSE)),
             UNCHANGED <<tsNode, tsSock, tsSend>>
      PROVE  TsInv'
  <2>1. Transfer("error", s, FALSE) \in OtherPackets
    BY <1>3
  <2>. QED BY <2>1, <1>2, <1>5
<1>6. ASSUME NEW s \in tsSend, tsSend' = tsSend \ {s}, tsPort' = Append(tsPort, Transfer("send", s, FALSE)),
             UNCHANGED <<tsNode, tsSock, tsRecv>>
      PROVE  TsInv'
  <2>1. Transfer("send", s, FALSE) \in OtherPackets
    BY <1>3
  <2>. QED BY <2>1, <1>2, <1>6
<1>. QED BY <1>1, <1>4, <1>5, <1>6 DEF TsCompletion

LEMMA WorkerTypes ==
    ASSUME TsTypes, NEW w \in IocpThreads, NEW at \in {"get", "accept", "append", "ended"}, NEW n \in AcceptNodes \cup {0},
           at \in {"accept", "append"} => n \in AcceptNodes, TsGoes(w, at, n), tsWorker[w].at # "off"
    PROVE  /\ tsWorker'[w] = [at |-> at, n |-> n] /\ \A v \in IocpThreads : v # w => tsWorker'[v] = tsWorker[v]
           /\ tsWorker' \in [IocpThreads -> [at : {"off", "get", "accept", "append", "ended"}, n : AcceptNodes \cup {0}]]
           /\ \A v \in IocpThreads : tsWorker'[v].at \in {"accept", "append"} => tsWorker'[v].n \in AcceptNodes
           /\ tsMain # "made"
<1>1. /\ tsWorker'[w] = [at |-> at, n |-> n] /\ \A v \in IocpThreads : v # w => tsWorker'[v] = tsWorker[v]
      /\ tsWorker' \in [IocpThreads -> [at : {"off", "get", "accept", "append", "ended"}, n : AcceptNodes \cup {0}]]
  BY DEF TsGoes, TsTypes
<1>2. tsWorker'[w].at = at /\ tsWorker'[w].n = n
  BY <1>1
<1>3. ASSUME NEW v \in IocpThreads, tsWorker'[v].at \in {"accept", "append"} PROVE tsWorker'[v].n \in AcceptNodes
  <2>1. CASE v = w
    BY <2>1, <1>2, <1>3
  <2>2. CASE v # w
    BY <2>2, <1>1, <1>3 DEF TsTypes
  <2>. QED BY <2>1, <2>2
<1>. QED BY <1>1, <1>3 DEF TsTypes

\* A worker's next completion.
LEMMA TakenKeeps ==
    ASSUME TsInv, NEW w \in IocpThreads, tsWorker[w].at = "get", tsPort # <<>>,
           TsTaken(w, Head(tsPort)), tsPort' = Tail(tsPort), UNCHANGED tsMain, tsMain # "stopped"
    PROVE  TsInv'
<1>0. TsTypes /\ SocksApart /\ RequestsKept
  BY DEF TsInv
<1>1. PICK c \in AcceptPackets \cup OtherPackets : c = Head(tsPort) /\ TsTaken(w, c)
  BY <1>0, HeadTaken
<1>2. /\ tsPort' \in Seq(AcceptPackets \cup OtherPackets)
      /\ \A n \in AcceptNodes : Queued(n)' <=> Queued(n) /\ c # TsAccept(n)
      /\ \A n \in AcceptNodes : c = TsAccept(n) => Queued(n)
      /\ \A n \in AcceptNodes, i, j \in 1..Len(tsPort') : tsPort'[i] = TsAccept(n) /\ tsPort'[j] = TsAccept(n) => i = j
  BY <1>0, <1>1, HeadTaken
<1>3. ASSUME c \in OtherPackets, NEW at \in {"get", "ended"}, TsGoes(w, at, 0), UNCHANGED tsNode,
             tsSock' \in Seq({"made", "connected", "closed"}), Len(tsSock') = Len(tsSock),
             tsClients' \subseteq tsClients, tsRecv' \subseteq tsRecv, tsSend' \subseteq tsSend
      PROVE  TsInv'
  <2>1. /\ tsWorker'[w] = [at |-> at, n |-> 0] /\ \A v \in IocpThreads : v # w => tsWorker'[v] = tsWorker[v]
        /\ tsWorker' \in [IocpThreads -> [at : {"off", "get", "accept", "append", "ended"}, n : AcceptNodes \cup {0}]]
        /\ \A v \in IocpThreads : tsWorker'[v].at \in {"accept", "append"} => tsWorker'[v].n \in AcceptNodes
        /\ tsMain # "made"
    BY <1>0, <1>3, WorkerTypes
  <2>2. \A n \in AcceptNodes : Queued(n)' <=> Queued(n)
    BY <1>2, <1>3, Packets
  <2>3. tsWorker[w].at # "accept" /\ tsWorker'[w].at # "accept"
    BY <2>1
  <2>4. RequestsKept'
    BY <1>0, <1>2, <1>3, <2>1, <2>2, <2>3, NoRequestTaken
  <2>5. TsTypes' /\ SocksApart'
    BY <1>0, <1>2, <1>3, <2>1 DEF TsTypes, SocksApart
  <2>. QED BY <2>4, <2>5 DEF TsInv
<1>4. CASE c.op = "quit"
  <2>1. c \in OtherPackets
    BY <1>4, Packets
  <2>2. c.zero = FALSE
    BY <1>4, <2>1 DEF OtherPackets, TsQuit, Transfer
  <2>3. TsGoes(w, "ended", 0) /\ UNCHANGED <<tsNode, tsSock, tsIo>>
    BY <1>1, <1>4, <2>2 DEF TsTaken
  <2>. QED BY <2>1, <2>3, <1>3, <1>0 DEF tsIo, TsTypes
<1>5. CASE c.op # "quit" /\ (c.op = "error" \/ c.zero)
  <2>1. c \in OtherPackets /\ c.op # "accept"
    BY <1>5, Packets DEF OtherPackets, TsQuit, Transfer
  <2>2. TsRemoveClient(c.n) /\ TsGoes(w, "get", 0) /\ UNCHANGED tsNode
    BY <1>1, <1>5, <2>1 DEF TsTaken
  <2>3. tsSock' \in Seq({"made", "connected", "closed"}) /\ Len(tsSock') = Len(tsSock)
    BY <1>0, <2>2, SockSet DEF TsRemoveClient
  <2>4. tsClients' \subseteq tsClients /\ tsRecv' \subseteq tsRecv /\ tsSend' \subseteq tsSend
    BY <2>2 DEF TsRemoveClient
  <2>. QED BY <2>1, <2>2, <2>3, <2>4, <1>3
<1>6. CASE c.op = "accept"
  <2>1. PICK m \in AcceptNodes : c = TsAccept(m) /\ c.n = m
    BY <1>6, Packets
  <2>2. ~ (c.op = "error" \/ c.zero) /\ c.op # "quit"
    BY <2>1 DEF TsAccept
  <2>3. TsGoes(w, "accept", m) /\ tsNode' = [tsNode EXCEPT ![m].at = "taken"] /\ UNCHANGED <<tsSock, tsIo>>
    BY <1>1, <1>6, <2>1, <2>2 DEF TsTaken
  <2>4. /\ tsWorker'[w] = [at |-> "accept", n |-> m] /\ \A v \in IocpThreads : v # w => tsWorker'[v] = tsWorker[v]
        /\ tsWorker' \in [IocpThreads -> [at : {"off", "get", "accept", "append", "ended"}, n : AcceptNodes \cup {0}]]
        /\ \A v \in IocpThreads : tsWorker'[v].at \in {"accept", "append"} => tsWorker'[v].n \in AcceptNodes
        /\ tsMain # "made"
    BY <1>0, <2>3, WorkerTypes
  <2>5. /\ tsNode'[m].at = "taken" /\ \A n \in AcceptNodes : n # m => tsNode'[n] = tsNode[n]
        /\ \A n \in AcceptNodes : tsNode'[n].sock = tsNode[n].sock
        /\ tsNode' \in [AcceptNodes -> [at : {"none", "idle", "posted", "queued", "taken", "deleted"}, sock : Nat]]
    BY <1>0, <2>3 DEF TsTypes
  <2>6. /\ tsNode[m].at = "queued"
        /\ \A n \in AcceptNodes : Queued(n)' <=> Queued(n) /\ n # m
    BY <1>0, <1>2, <2>1, Packets DEF RequestsKept
  <2>7. tsWorker[w].at # "accept"
    OBVIOUS
  <2>8. RequestsKept'
    BY <1>0, <1>2, <2>4, <2>5, <2>6, <2>7, RequestTaken
  <2>9. TsTypes' /\ SocksApart'
    BY <1>0, <1>2, <2>3, <2>4, <2>5 DEF TsTypes, SocksApart, tsIo
  <2>. QED BY <2>8, <2>9 DEF TsInv
<1>7. CASE c.op # "quit" /\ ~ (c.op = "error" \/ c.zero) /\ c.op # "accept"
  <2>1. c \in OtherPackets
    BY <1>7, Packets
  <2>2. TsGoes(w, "get", 0) /\ UNCHANGED <<tsNode, tsSock, tsIo>>
    BY <1>1, <1>7 DEF TsTaken
  <2>. QED BY <2>1, <2>2, <1>3, <1>0 DEF tsIo, TsTypes
<1>. QED BY <1>4, <1>5, <1>6, <1>7

LEMMA AcceptPostedKeeps ==
    ASSUME TsInv, NEW w \in IocpThreads, AcceptPosted(w), tsMain # "stopped"
    PROVE  TsInv'
<1>0. TsTypes /\ SocksApart /\ RequestsKept
  BY DEF TsInv
<1>1. ASSUME tsWorker[w].at = "accept", PostAcceptEx(tsWorker[w].n), TsGoes(w, "append", tsWorker[w].n),
             UNCHANGED <<tsMain, tsPort, tsIo>>
      PROVE  TsInv'
  <2>1. PICK n \in AcceptNodes : tsWorker[w].n = n
    BY <1>0, <1>1 DEF TsTypes
  <2>2. /\ tsNode' \in [AcceptNodes -> [at : {"none", "idle", "posted", "queued", "taken", "deleted"}, sock : Nat]]
        /\ tsSock' \in Seq({"made", "connected", "closed"})
        /\ SocksApart' /\ tsNode'[n].at \in {"idle", "posted", "deleted"}
        /\ \A m \in AcceptNodes : m # n => tsNode'[m] = tsNode[m]
    BY <1>0, <1>1, <2>1, Posted
  <2>3. /\ tsWorker'[w] = [at |-> "append", n |-> n] /\ \A v \in IocpThreads : v # w => tsWorker'[v] = tsWorker[v]
        /\ tsWorker' \in [IocpThreads -> [at : {"off", "get", "accept", "append", "ended"}, n : AcceptNodes \cup {0}]]
        /\ \A v \in IocpThreads : tsWorker'[v].at \in {"accept", "append"} => tsWorker'[v].n \in AcceptNodes
        /\ tsMain # "made"
    BY <1>0, <1>1, <2>1, WorkerTypes
  <2>4. tsWorker'[w].at # "accept" /\ tsPort' = tsPort
    BY <2>3, <1>1
  <2>5. RequestsKept'
    BY <1>0, <1>1, <2>1, <2>2, <2>3, <2>4, RequestDone
  <2>6. TsTypes'
    BY <1>0, <1>1, <2>2, <2>3 DEF TsTypes, tsIo
  <2>. QED BY <2>2, <2>5, <2>6 DEF TsInv
<1>2. ASSUME tsWorker[w].at = "append", TsGoes(w, "get", 0), UNCHANGED <<tsMain, tsPort, tsNode, tsSock, tsSend>>,
             NEW s \in Nat, tsClients' \subseteq tsClients \cup {s}, tsRecv' \subseteq tsRecv \cup {s}
      PROVE  TsInv'
  <2>1. /\ tsWorker'[w] = [at |-> "get", n |-> 0] /\ \A v \in IocpThreads : v # w => tsWorker'[v] = tsWorker[v]
        /\ tsWorker' \in [IocpThreads -> [at : {"off", "get", "accept", "append", "ended"}, n : AcceptNodes \cup {0}]]
        /\ \A v \in IocpThreads : tsWorker'[v].at \in {"accept", "append"} => tsWorker'[v].n \in AcceptNodes
        /\ tsMain # "made"
    BY <1>0, <1>2, WorkerTypes
  <2>2. tsWorker[w].at # "accept" /\ tsWorker'[w].at # "accept" /\ tsNode' = tsNode
    BY <1>2, <2>1
  <2>3. \A n \in AcceptNodes : Queued(n)' <=> Queued(n)
    BY <1>2 DEF Queued
  <2>4. \A n \in AcceptNodes, i, j \in 1..Len(tsPort') : tsPort'[i] = TsAccept(n) /\ tsPort'[j] = TsAccept(n) => i = j
    BY <1>0, <1>2 DEF RequestsKept
  <2>5. RequestsKept'
    BY <1>0, <2>1, <2>2, <2>3, <2>4, NoRequestTaken
  <2>6. TsTypes' /\ SocksApart'
    BY <1>0, <1>2, <2>1 DEF TsTypes, SocksApart
  <2>. QED BY <2>5, <2>6 DEF TsInv
<1>3. CASE tsWorker[w].at = "accept"
  BY <1>1, <1>3 DEF AcceptPosted
<1>4. CASE tsWorker[w].at = "append"
  <2>1. tsNode[tsWorker[w].n].sock \in Nat
    BY <1>0, <1>4 DEF TsTypes
  <2>2. PICK s \in Nat : s = tsNode[tsWorker[w].n].sock
    BY <2>1
  <2>3. /\ TsGoes(w, "get", 0) /\ UNCHANGED <<tsMain, tsPort, tsNode, tsSock, tsSend>>
        /\ tsClients' \subseteq tsClients \cup {s} /\ tsRecv' \subseteq tsRecv \cup {s}
    BY <1>4, <2>2 DEF AcceptPosted
  <2>. QED BY <1>2, <1>4, <2>3
<1>. QED BY <1>3, <1>4 DEF AcceptPosted

\* The receives and sends a session asks for, and a client kicked: no request is concerned.
LEMMA ClientKeeps ==
    ASSUME TsInv, NEW s \in tsClients, TsPostRecvReq(s) \/ TsPostSendReq(s) \/ TsKickClient(s), tsMain # "stopped"
    PROVE  TsInv'
<1>0. TsTypes /\ SocksApart /\ RequestsKept /\ s \in Nat
  BY DEF TsInv, TsTypes
<1>1. /\ UNCHANGED <<tsMain, tsPort, tsWorker, tsNode>> /\ tsClients' \subseteq tsClients
      /\ tsRecv' \subseteq tsRecv \cup {s} /\ tsSend' \subseteq tsSend \cup {s}
      /\ UNCHANGED tsSock \/ tsSock' = [tsSock EXCEPT ![s] = "closed"]
  <2>1. CASE TsPostRecvReq(s)
    BY <2>1 DEF TsPostRecvReq
  <2>2. CASE TsPostSendReq(s)
    BY <2>2 DEF TsPostSendReq
  <2>3. CASE TsKickClient(s)
    BY <2>3 DEF TsKickClient, TsRemoveClient
  <2>. QED BY <2>1, <2>2, <2>3
<1>2. tsSock' \in Seq({"made", "connected", "closed"}) /\ Len(tsSock') = Len(tsSock)
  BY <1>0, <1>1, SockSet DEF TsTypes
<1>3. RequestsKept'
  BY <1>0, <1>1, RequestsStay
<1>4. TsTypes' /\ SocksApart'
  BY <1>0, <1>1, <1>2 DEF TsTypes, SocksApart
<1>. QED BY <1>3, <1>4 DEF TsInv

\* Once the port is closed no thread is left in its loop.
AllEnded == tsMain = "stopped" => \A w \in IocpThreads : tsWorker[w].at \in {"off", "ended"}

LEMMA AllEndedNext == TsTypes /\ AllEnded /\ [TsNext]_tsVars => AllEnded'
<1> SUFFICES ASSUME TsTypes, AllEnded, [TsNext]_tsVars PROVE AllEnded'
  OBVIOUS
<1>1. CASE tsMain = "stopped"
  <2>1. \A w \in IocpThreads : ~ WorkerThread(w)
    BY <1>1 DEF AllEnded, WorkerThread, AcceptPosted
  <2>. QED BY <1>1, <2>1 DEF AllEnded, TsNext, tsVars, InitializeIOCP, InitializeSocket, GetAcceptExFuction, StartStep, PostAccepts, TsStop
<1>2. CASE tsMain # "stopped"
  <2>1. ASSUME tsMain' = "stopped" PROVE TsStop
    <3>1. \A w \in IocpThreads : WorkerThread(w) => UNCHANGED tsMain
      BY DEF WorkerThread, AcceptPosted
    <3>2. \A s \in tsClients : TsPostRecvReq(s) \/ TsPostSendReq(s) \/ TsKickClient(s) => UNCHANGED tsMain
      BY DEF TsPostRecvReq, TsPostSendReq, TsKickClient
    <3>3. ~ (InitializeIOCP \/ InitializeSocket \/ GetAcceptExFuction)
      BY <2>1 DEF InitializeIOCP, InitializeSocket, GetAcceptExFuction, StartStep
    <3>4. ~ PostAccepts
      BY <2>1 DEF PostAccepts
    <3>. QED BY <1>2, <2>1, <3>1, <3>2, <3>3, <3>4 DEF TsNext, tsVars, TsCompletion
  <2>2. ASSUME tsMain' = "stopped" PROVE \A w \in IocpThreads : tsWorker'[w].at \in {"off", "ended"}
    BY <1>2, <2>1, <2>2 DEF TsStop, TsMade
  <2>. QED BY <2>2 DEF AllEnded
<1>. QED BY <1>1, <1>2

LEMMA TsInvNext == TsInv /\ AllEnded /\ [TsNext]_tsVars => TsInv'
<1> SUFFICES ASSUME TsInv, AllEnded, [TsNext]_tsVars PROVE TsInv'
  OBVIOUS
<1>1. CASE UNCHANGED tsVars
  BY <1>1 DEF tsVars, TsInv, TsTypes, SocksApart, RequestsKept, Queued
<1>2. CASE InitializeIOCP \/ InitializeSocket \/ GetAcceptExFuction
  BY <1>2, StartKeeps
<1>3. CASE PostAccepts
  BY <1>3, PostAcceptsKeeps
<1>4. CASE TsStop
  BY <1>4, TsStopKeeps
<1>5. CASE tsMain # "stopped" /\ TsCompletion
  BY <1>5, TsCompletionKeeps
<1>6. ASSUME NEW w \in IocpThreads, WorkerThread(w) PROVE TsInv'
  <2>0. tsMain # "stopped"
    BY <1>6 DEF AllEnded, WorkerThread, AcceptPosted
  <2>1. CASE AcceptPosted(w)
    BY <2>0, <2>1, AcceptPostedKeeps
  <2>2. CASE ~ AcceptPosted(w)
    BY <1>6, <2>0, <2>2, TakenKeeps DEF WorkerThread
  <2>. QED BY <2>1, <2>2
<1>7. ASSUME tsMain # "stopped", NEW s \in tsClients, TsPostRecvReq(s) \/ TsPostSendReq(s) \/ TsKickClient(s) PROVE TsInv'
  BY <1>7, ClientKeeps
<1>. QED BY <1>1, <1>2, <1>3, <1>4, <1>5, <1>6, <1>7 DEF TsNext

LEMMA TsInvSound == TsInv => AcceptsKept
<1> SUFFICES ASSUME TsInv PROVE AcceptsKept
  OBVIOUS
<1>1. ToSet(tsPort) = {tsPort[i] : i \in 1..Len(tsPort)}
  BY DEF ToSet, TsInv, TsTypes
<1>2. \A n \in AcceptNodes : TsAccept(n) \in ToSet(tsPort) <=> Queued(n)
  BY <1>1 DEF Queued
<1>. QED BY <1>2 DEF AcceptsKept, TsInv, SocksApart, RequestsKept

\* TcpServerImpl_Win32.cpp: through any order of completions, requests and Stop, an accept
\* request is queued exactly when the port holds its completion, one that was taken is with a
\* worker until it is posted again, and no two of them share a socket.
THEOREM AcceptsKeptAlways == TsSpec => []AcceptsKept
<1>1. TsInit => TsInv /\ AllEnded
  BY TsInvInit DEF TsInit, AllEnded
<1>2. TsInv /\ AllEnded /\ [TsNext]_tsVars => TsInv' /\ AllEnded'
  BY TsInvNext, AllEndedNext DEF TsInv
<1>3. TsInv /\ AllEnded => AcceptsKept
  BY TsInvSound
<1>. QED BY <1>1, <1>2, <1>3, PTL DEF TsSpec

\* The completion ports in the run's composition.
THEOREM IocpCorrect == MCSpec => []IocpSound
<1>1. MCInit => TsInit /\ TcInit
  BY DEF MCInit
<1>2. [MCNext]_<<bhVars, tsVars, asVars, tcVars, part>> => [TsNext]_tsVars /\ [TcNext]_tcVars
  <2>1. ASSUME MCNext PROVE [TsNext]_tsVars /\ [TcNext]_tcVars
    BY <2>1 DEF MCNext
  <2>2. ASSUME UNCHANGED <<bhVars, tsVars, asVars, tcVars, part>> PROVE [TsNext]_tsVars /\ [TcNext]_tcVars
    BY <2>2
  <2>. QED BY <2>1, <2>2
<1>3. MCSpec => TsSpec /\ TcSpec
  BY <1>1, <1>2, PTL DEF MCSpec, TsSpec, TcSpec
<1>4. AcceptsKept /\ StopWaits => IocpSound
  BY DEF IocpSound
<1>. QED BY <1>3, <1>4, AcceptsKeptAlways, StopWaitsAlways, PTL
=============================================================================
