------------------------ MODULE BalanceHandle_proofs ------------------------
(***************************************************************************)
(* The server's list of clients, both builds, for any number of threads,   *)
(* workers, sockets and sessions.  TypeInv: the types, the list has each   *)
(* session once and none that is destroyed, and what AppendNewClient has   *)
(* yet to enter is in no list.  SleepInv: a worker that waits without a    *)
(* unit has no client.  LockInv: until Stop or the end of a round of the   *)
(* monitor, the read lock counts exactly those who have sessions in hand   *)
(* and these sessions are in the list; LockWrite then waits for nobody to  *)
(* be left.  RangesCurrent: the ranges are those of the list.              *)
(***************************************************************************)
EXTENDS BalanceHandleWin, SequenceTheorems, FiniteSetTheorems, WellFoundedInduction, TLAPS

-----------------------------------------------------------------------------
(* Operators *)

\* What RemoveAt leaves in place and what it moves.
LEMMA RemovedAt ==
    ASSUME NEW S, NEW list \in Seq(S), NEW k \in 1..Len(list)
    PROVE  /\ RemoveAt(list, k) \in Seq(S)
           /\ Len(RemoveAt(list, k)) = Len(list) - 1
           /\ \A j \in 1..(Len(list) - 1) :
                 RemoveAt(list, k)[j] = IF j < k THEN list[j] ELSE list[j + 1]
<1> DEFINE a == SubSeq(list, 1, k - 1)
           b == SubSeq(list, k + 1, Len(list))
<1>0. Len(list) \in Nat /\ \A j \in 1..Len(list) : list[j] \in S
  OBVIOUS
<1>1. a \in Seq(S) /\ Len(a) = k - 1 /\ \A j \in 1..(k - 1) : a[j] = list[j]
  <2>1. \A j \in 1..(k - 1) : list[j] \in S
    BY <1>0
  <2>2. k - 1 \in Int
    OBVIOUS
  <2> HIDE DEF a
  <2>3. /\ a \in Seq(S) /\ Len(a) = IF 1 <= k - 1 THEN k - 1 - 1 + 1 ELSE 0
        /\ \A j \in 1..(k - 1 - 1 + 1) : a[j] = list[1 + j - 1]
    BY <2>1, <2>2, SubSeqProperties DEF a
  <2>. QED BY <2>3, <1>0
<1>2. /\ b \in Seq(S) /\ Len(b) = Len(list) - k
      /\ \A j \in 1..(Len(list) - k) : b[j] = list[k + j]
  <2>1. \A j \in (k + 1)..Len(list) : list[j] \in S
    BY <1>0
  <2>2. k + 1 \in Int
    OBVIOUS
  <2> HIDE DEF b
  <2>3. /\ b \in Seq(S) /\ Len(b) = IF k + 1 <= Len(list) THEN Len(list) - (k + 1) + 1 ELSE 0
        /\ \A j \in 1..(Len(list) - (k + 1) + 1) : b[j] = list[k + 1 + j - 1]
    BY <1>0, <2>1, <2>2, SubSeqProperties DEF b
  <2>. QED BY <2>3, <1>0
<1> HIDE DEF a, b
<1>3. /\ a \o b \in Seq(S) /\ Len(a \o b) = Len(a) + Len(b)
      /\ \A i \in 1..(Len(a) + Len(b)) : (a \o b)[i] = IF i <= Len(a) THEN a[i] ELSE b[i - Len(a)]
  BY <1>1, <1>2, ConcatProperties
<1>4. RemoveAt(list, k) = a \o b
  BY DEF RemoveAt, a, b
<1>5. Len(a) + Len(b) = Len(list) - 1
  BY <1>0, <1>1, <1>2
<1>6. ASSUME NEW j \in 1..(Len(list) - 1)
      PROVE  (a \o b)[j] = IF j < k THEN list[j] ELSE list[j + 1]
  <2>1. (a \o b)[j] = IF j <= Len(a) THEN a[j] ELSE b[j - Len(a)]
    BY <1>3, <1>5
  <2>2. CASE j < k
    BY <2>1, <2>2, <1>1
  <2>3. CASE ~ (j < k)
    <3>1. j - (k - 1) \in 1..(Len(list) - k) /\ ~ (j <= k - 1)
      BY <2>3, <1>0
    <3>2. (a \o b)[j] = b[j - (k - 1)]
      BY <3>1, <2>1, <1>1
    <3>. QED BY <3>1, <3>2, <1>2, <2>3
  <2>. QED BY <2>2, <2>3
<1>. QED BY <1>3, <1>4, <1>5, <1>6

\* erase takes the one session out of the list and keeps the others.
LEMMA RemovedOne ==
    ASSUME NEW S, NEW list \in Seq(S), NEW k \in 1..Len(list), IsInjective(list)
    PROVE  /\ RemoveAt(list, k) \in Seq(S) /\ IsInjective(RemoveAt(list, k))
           /\ ToSet(RemoveAt(list, k)) = ToSet(list) \ {list[k]}
<1> PICK r : r = RemoveAt(list, k)
  OBVIOUS
<1>1. /\ r \in Seq(S) /\ Len(r) = Len(list) - 1 /\ Len(list) \in Nat
      /\ \A j \in 1..(Len(list) - 1) : r[j] = IF j < k THEN list[j] ELSE list[j + 1]
  BY RemovedAt
<1>2. DOMAIN r = 1..(Len(list) - 1) /\ DOMAIN list = 1..Len(list)
  BY <1>1
<1>3. \A a, b \in 1..Len(list) : list[a] = list[b] => a = b
  BY <1>2 DEF IsInjective
<1>4. IsInjective(r)
  <2> SUFFICES ASSUME NEW a \in 1..(Len(list) - 1), NEW b \in 1..(Len(list) - 1), r[a] = r[b]
               PROVE  a = b
    BY <1>2 DEF IsInjective
  <2>. QED BY <1>1, <1>3
<1>5. ToSet(r) \subseteq ToSet(list) \ {list[k]}
  <2> SUFFICES ASSUME NEW j \in 1..(Len(list) - 1)
               PROVE  r[j] \in ToSet(list) /\ r[j] # list[k]
    BY <1>2 DEF ToSet
  <2>1. PICK i \in 1..Len(list) : r[j] = list[i] /\ i # k
    BY <1>1
  <2>. QED BY <2>1, <1>2, <1>3 DEF ToSet
<1>6. ToSet(list) \ {list[k]} \subseteq ToSet(r)
  <2> SUFFICES ASSUME NEW i \in 1..Len(list), i # k
               PROVE  \E j \in 1..(Len(list) - 1) : list[i] = r[j]
    BY <1>2 DEF ToSet
  <2>1. CASE i < k
    <3>1. i \in 1..(Len(list) - 1)
      BY <2>1, <1>1
    <3>. QED BY <3>1, <2>1, <1>1
  <2>2. CASE i > k
    <3>1. i - 1 \in 1..(Len(list) - 1) /\ ~ (i - 1 < k) /\ i - 1 + 1 = i
      BY <2>2, <1>1
    <3>. QED BY <3>1, <1>1
  <2>. QED BY <2>1, <2>2, <1>1
<1>. QED BY <1>1, <1>4, <1>5, <1>6

\* What push_back adds to the list.
LEMMA AppendedOne ==
    ASSUME NEW S, NEW list \in Seq(S), NEW s \in S
    PROVE  /\ Append(list, s) \in Seq(S)
           /\ ToSet(Append(list, s)) = ToSet(list) \cup {s}
           /\ IsInjective(list) /\ s \notin ToSet(list) => IsInjective(Append(list, s))
<1> PICK r : r = Append(list, s)
  OBVIOUS
<1>1. /\ r \in Seq(S) /\ Len(list) \in Nat /\ Len(r) = Len(list) + 1
      /\ \A j \in 1..Len(list) : r[j] = list[j]
      /\ r[Len(list) + 1] = s
  OBVIOUS
<1>2. DOMAIN r = 1..(Len(list) + 1) /\ DOMAIN list = 1..Len(list)
  BY <1>1
<1>3. ToSet(r) = ToSet(list) \cup {s}
  <2>1. \A j \in DOMAIN r : r[j] \in ToSet(list) \cup {s}
    <3> SUFFICES ASSUME NEW j \in 1..(Len(list) + 1) PROVE r[j] \in ToSet(list) \cup {s}
      BY <1>2
    <3>1. j = Len(list) + 1 \/ j \in 1..Len(list)
      BY <1>1
    <3>. QED BY <3>1, <1>1, <1>2 DEF ToSet
  <2>2. \A j \in DOMAIN list : list[j] \in ToSet(r)
    <3> SUFFICES ASSUME NEW j \in 1..Len(list) PROVE list[j] \in ToSet(r)
      BY <1>2
    <3>1. j \in DOMAIN r /\ r[j] = list[j]
      BY <1>1, <1>2
    <3>. QED BY <3>1 DEF ToSet
  <2>3. s \in ToSet(r)
    <3>1. Len(list) + 1 \in DOMAIN r
      BY <1>1, <1>2
    <3>. QED BY <3>1, <1>1 DEF ToSet
  <2>4. ToSet(r) \subseteq ToSet(list) \cup {s}
    BY <2>1 DEF ToSet
  <2>5. ToSet(list) \subseteq ToSet(r)
    BY <2>2 DEF ToSet
  <2>. QED BY <2>3, <2>4, <2>5
<1>4. ASSUME IsInjective(list), s \notin ToSet(list) PROVE IsInjective(r)
  <2>1. \A j \in 1..Len(list) : list[j] # s
    BY <1>2, <1>4 DEF ToSet
  <2>2. \A a, b \in 1..Len(list) : list[a] = list[b] => a = b
    BY <1>2, <1>4 DEF IsInjective
  <2> SUFFICES ASSUME NEW a \in 1..(Len(list) + 1), NEW b \in 1..(Len(list) + 1), r[a] = r[b]
               PROVE  a = b
    BY <1>2 DEF IsInjective
  <2>3. (a = Len(list) + 1 \/ a \in 1..Len(list)) /\ (b = Len(list) + 1 \/ b \in 1..Len(list))
    BY <1>1
  <2>. QED BY <2>1, <2>2, <2>3, <1>1
<1>. QED BY <1>1, <1>3, <1>4

LEMMA Monotone ==
    ASSUME NEW a \in Nat, NEW b \in Nat, NEW p \in Nat, a <= b
    PROVE  a * p <= b * p
  OBVIOUS

\* Equal shares do not reach past the list.
LEMMA Shares ==
    ASSUME NEW n \in Nat, NEW T \in Nat \ {0}, NEW i \in 1..T
    PROVE  /\ n \div T \in Nat /\ T * (n \div T) <= n
           /\ i * (n \div T) \in Nat /\ (i - 1) * (n \div T) \in Nat
           /\ i * (n \div T) <= n
<1> PICK p : p = n \div T
  OBVIOUS
<1>1. p \in Nat /\ T * p <= n
  OBVIOUS
<1>2. i \in Nat /\ i - 1 \in Nat /\ T \in Nat /\ i <= T
  OBVIOUS
<1>3. i * p \in Nat /\ (i - 1) * p \in Nat /\ T * p \in Nat
  BY <1>1, <1>2
<1>4. i * p <= T * p
  BY <1>1, <1>2, Monotone
<1>5. i * p <= n
  BY <1>1, <1>3, <1>4
<1>. QED BY <1>1, <1>3, <1>5

\* The place find_if returns is a place of the list.
LEMMA FoundPlace ==
    ASSUME NEW fd, bhClients \in Seq(Sessions)
    PROVE  FindPos(fd) \in 0..Len(bhClients)
<1> DEFINE T == {k \in 1..Len(bhClients) : bhFd[bhClients[k]] = fd}
           R == {ss \in Nat \X Nat : ss[1] < ss[2]}
<1>0. Len(bhClients) \in Nat
  OBVIOUS
<1>1. FindPos(fd) = IF T # {} THEN Min(T) ELSE 0
  BY DEF FindPos, SelectInSeq
<1>2. CASE T = {}
  BY <1>0, <1>1, <1>2
<1>3. CASE T # {}
  <2>1. IsWellFoundedOn(R, Nat)
    BY NatLessThanWellFounded DEF OpToRel
  <2>2. T \subseteq Nat
    BY <1>0
  <2> HIDE DEF R
  <2>3. PICK x \in T : \A y \in T : ~ (<<y, x>> \in R)
    BY <2>1, <2>2, <1>3, WFMin
  <2>4. ASSUME NEW y \in T PROVE x <= y
    <3>1. ~ (<<y, x>> \in R) /\ x \in Nat /\ y \in Nat
      BY <2>3, <2>2
    <3>. QED BY <3>1 DEF R
  <2> HIDE DEF T
  <2>5. Min(T) \in T
    BY <2>4 DEF Min
  <2>. QED BY <2>5, <1>0, <1>1, <1>3 DEF T
<1>. QED BY <1>2, <1>3

\* The first and the last place of a worker's range.
FromPlace(list, i) == (i - 1) * (Len(list) \div ThreadCount) + 1
ToPlace(list, i) == IF i = ThreadCount THEN Len(list) ELSE i * (Len(list) \div ThreadCount)

\* The ranges of InitIterator are made of the clients of the list.
LEMMA Ranges ==
    ASSUME NEW list \in Seq(Sessions)
    PROVE  /\ InitIterator(list) \in [Workers -> Seq(Sessions)]
           /\ \A i \in Workers :
                 /\ FromPlace(list, i) \in Nat \ {0} /\ ToPlace(list, i) \in 0..Len(list)
                 /\ ToSet(InitIterator(list)[i]) = {list[j] : j \in FromPlace(list, i)..ToPlace(list, i)}
<1>0. Len(list) \in Nat /\ ThreadCount \in Nat \ {0}
  BY BhAssumption
<1>1. ASSUME NEW i \in Workers
      PROVE  /\ InitIterator(list)[i] \in Seq(Sessions)
             /\ FromPlace(list, i) \in Nat \ {0} /\ ToPlace(list, i) \in 0..Len(list)
             /\ ToSet(InitIterator(list)[i]) = {list[j] : j \in FromPlace(list, i)..ToPlace(list, i)}
  <2>1. i \in 1..ThreadCount
    BY DEF Workers
  <2>a. PICK a, b : a = FromPlace(list, i) /\ b = ToPlace(list, i)
    OBVIOUS
  <2>2. a \in Nat \ {0} /\ b \in 0..Len(list)
    <3>1. PICK p : p = Len(list) \div ThreadCount
      OBVIOUS
    <3>2. i * p \in Nat /\ (i - 1) * p \in Nat /\ i * p <= Len(list)
      BY <1>0, <2>1, <3>1, Shares
    <3>3. a = (i - 1) * p + 1 /\ b = IF i = ThreadCount THEN Len(list) ELSE i * p
      BY <2>a, <3>1 DEF FromPlace, ToPlace
    <3>. QED BY <1>0, <3>2, <3>3
  <2>3. InitIterator(list)[i] = SubSeq(list, a, b)
    BY <2>a DEF InitIterator, FromPlace, ToPlace
  <2>4. \A j \in a..b : list[j] \in Sessions
    BY <2>2, <1>0
  <2>r. PICK r : r = SubSeq(list, a, b)
    OBVIOUS
  <2>5. /\ r \in Seq(Sessions) /\ Len(r) = IF a <= b THEN b - a + 1 ELSE 0
        /\ \A j \in 1..(b - a + 1) : r[j] = list[a + j - 1]
    BY <2>2, <2>4, <2>r, SubSeqProperties
  <2>6. DOMAIN r = 1..Len(r) /\ Len(r) \in Nat
    BY <2>5
  <2>7. ASSUME NEW j \in DOMAIN r PROVE \E k \in a..b : r[j] = list[k]
    <3>1. j \in 1..(b - a + 1) /\ a + j - 1 \in a..b
      BY <2>2, <2>5, <2>6, <2>7
    <3>. QED BY <3>1, <2>5
  <2>8. ASSUME NEW k \in a..b PROVE \E j \in DOMAIN r : r[j] = list[k]
    <3>1. k - a + 1 \in 1..(b - a + 1) /\ k - a + 1 \in DOMAIN r /\ a + (k - a + 1) - 1 = k
      BY <2>2, <2>5, <2>6, <2>8
    <3>. QED BY <3>1, <2>5
  <2>9. ToSet(r) = {list[j] : j \in a..b}
    <3>1. ToSet(r) = {r[j] : j \in DOMAIN r}
      BY DEF ToSet
    <3>2. ToSet(r) \subseteq {list[j] : j \in a..b}
      BY <2>7, <3>1
    <3>3. {list[j] : j \in a..b} \subseteq ToSet(r)
      BY <2>8, <3>1
    <3>. QED BY <3>2, <3>3
  <2>. QED BY <2>2, <2>3, <2>5, <2>9, <2>a, <2>r
<1>2. InitIterator(list) = [i \in Workers |-> InitIterator(list)[i]]
  BY DEF InitIterator
<1>3. InitIterator(list) \in [Workers -> Seq(Sessions)]
  BY <1>1, <1>2
<1>. QED BY <1>1, <1>3

\* InitIterator, without the order: each client is in the range of exactly one worker.
LEMMA OnePerClient ==
    ASSUME NEW list \in Seq(Sessions), IsInjective(list), NEW s \in ToSet(list)
    PROVE  \E i \in Workers : /\ s \in ToSet(InitIterator(list)[i])
                              /\ \A j \in Workers \ {i} : s \notin ToSet(InitIterator(list)[j])
<1>a. PICK n, T : n = Len(list) /\ T = ThreadCount
  OBVIOUS
<1>b. PICK p : p = n \div T
  OBVIOUS
<1>0. n \in Nat /\ T \in Nat \ {0} /\ p \in Nat /\ Workers = 1..T /\ (T - 1) * p \in Nat
  <2>1. n \in Nat /\ T \in Nat \ {0} /\ Workers = 1..T /\ T \in 1..T
    BY <1>a, BhAssumption DEF Workers
  <2>. QED BY <1>b, <2>1, Shares
<1>1. PICK k \in 1..n : s = list[k]
  BY <1>a DEF ToSet
<1>2. \A i \in Workers : /\ FromPlace(list, i) = (i - 1) * p + 1
                         /\ ToPlace(list, i) = IF i = T THEN n ELSE i * p
  BY <1>a, <1>b DEF FromPlace, ToPlace
<1>3. ASSUME NEW i \in Workers
      PROVE  s \in ToSet(InitIterator(list)[i]) <=> k \in FromPlace(list, i)..ToPlace(list, i)
  <2>1. /\ FromPlace(list, i) \in Nat \ {0} /\ ToPlace(list, i) \in 0..n
        /\ ToSet(InitIterator(list)[i]) = {list[j] : j \in FromPlace(list, i)..ToPlace(list, i)}
    BY <1>a, Ranges
  <2>2. \A j \in FromPlace(list, i)..ToPlace(list, i) : j \in 1..n /\ (list[j] = list[k] => j = k)
    BY <2>1, <1>0, <1>1, <1>a DEF IsInjective
  <2>. QED BY <2>1, <2>2, <1>1
<1>4. \A i, j \in 1..T : i < j => i * p <= (j - 1) * p /\ i * p \in Nat /\ (j - 1) * p \in Nat
  <2> SUFFICES ASSUME NEW i \in 1..T, NEW j \in 1..T, i < j
               PROVE  i * p <= (j - 1) * p /\ i * p \in Nat /\ (j - 1) * p \in Nat
    OBVIOUS
  <2>1. i \in Nat /\ j - 1 \in Nat /\ i <= j - 1
    BY <1>0
  <2>. QED BY <2>1, <1>0, Monotone
<1>5. ASSUME NEW i \in 1..T, NEW j \in 1..T, i < j,
             k \in FromPlace(list, i)..ToPlace(list, i), k \in FromPlace(list, j)..ToPlace(list, j)
      PROVE  FALSE
  <2>1. i # T /\ i \in Workers /\ j \in Workers
    BY <1>0, <1>5
  <2>2. k <= i * p /\ k >= (j - 1) * p + 1 /\ i * p <= (j - 1) * p
    BY <2>1, <1>2, <1>4, <1>5
  <2>. QED BY <2>2, <1>0, <1>4, <1>5
<1>6. \E i \in 1..T : k \in FromPlace(list, i)..ToPlace(list, i)
  <2>0. T \in Workers /\ (T - 1) * p \in Nat /\ T \in 1..T
    BY <1>0
  <2>1. CASE k > (T - 1) * p
    <3>1. k \in ((T - 1) * p + 1)..n
      BY <2>0, <2>1, <1>0
    <3>. QED BY <3>1, <2>0, <1>2
  <2>2. CASE ~ (k > (T - 1) * p)
    <3>1. p \in Nat \ {0}
      BY <2>2, <1>0, <2>0
    <3>q. PICK q : q = (k - 1) \div p
      OBVIOUS
    <3>2. k - 1 \in Nat
      OBVIOUS
    <3>3. q \in Nat /\ q * p <= k - 1 /\ k - 1 < q * p + p /\ q * p \in Nat
      BY <3>1, <3>2, <3>q
    <3>4. (q + 1) * p = q * p + p
      BY <3>1, <3>3
    <3>5. q < T - 1
      <4> SUFFICES ASSUME T - 1 <= q PROVE FALSE
        BY <3>3, <1>0
      <4>1. (T - 1) * p <= q * p
        BY <3>1, <3>3, <1>0, Monotone
      <4>. QED BY <4>1, <3>3, <2>0, <2>2
    <3>6. q + 1 \in 1..T /\ q + 1 # T /\ q + 1 \in Workers /\ (q + 1) - 1 = q
      BY <3>3, <3>5, <1>0
    <3>7. FromPlace(list, q + 1) = q * p + 1 /\ ToPlace(list, q + 1) = q * p + p
      BY <3>4, <3>6, <1>2
    <3>8. k \in (q * p + 1)..(q * p + p)
      BY <3>1, <3>3
    <3>. QED BY <3>6, <3>7, <3>8
  <2>. QED BY <2>1, <2>2
<1>7. PICK i \in 1..T : k \in FromPlace(list, i)..ToPlace(list, i)
  BY <1>6
<1>8. ASSUME NEW j \in Workers \ {i} PROVE s \notin ToSet(InitIterator(list)[j])
  <2>1. j \in 1..T /\ (i < j \/ j < i)
    BY <1>0
  <2>. QED BY <2>1, <1>3, <1>5, <1>7
<1>. QED BY <1>0, <1>3, <1>7, <1>8

-----------------------------------------------------------------------------
(* The steps of both builds *)

Io == IoThreads \cup WinThreads

CallerStep(t) ==
    \/ MakeSession(t) \/ EnterSession(t) \/ UseSession(t) \/ CloseThenErase(t) \/ Access(t)
    \/ \E s \in 1..Len(bhFd) :
          bhPc[t] = IdlePc /\ (CloseSock(t, bhFd[s]) \/ UnderReadLock(t, bhFd[s]))
WorkerStep(i) ==
    \/ bhBuild = "linux" /\ (Run(i) \/ Woken(i) \/ HeartBitHandle(i))
    \/ bhBuild = "win32" /\ (WinThreadProc(i) \/ WinRun(i))
    \/ DealData(i)
OwnerStep == Start \/ StopFlags \/ StopClear \/ WinStart \/ WinStopFlags \/ WinStopClear
MonitorStep ==
    \/ /\ LoseHeartBitThread
       /\ UNCHANGED <<bhBuild, bhFlag, bhLists, bhSess, bhSem, bhWorker, bhMain, bhDeadUse>>
    \/ CloseThenErase(Monitor)
    \/ /\ bhPc[Monitor].at = "kick" /\ bhPc[Monitor].n <= Len(bhLost)
       /\ CloseSock(Monitor, bhLost[bhPc[Monitor].n])

LEMMA Steps ==
    ASSUME BhNext \/ WinNext
    PROVE  \/ \E t \in Io : CallerStep(t)
           \/ \E i \in Workers : WorkerStep(i)
           \/ OwnerStep \/ MonitorStep
<1>1. ASSUME NEW t \in IoThreads, Operations(t) PROVE CallerStep(t)
  BY <1>1 DEF CallerStep, Operations, AppendNewClient, KickClient, RemoveClient, RecvClientData,
     ActivateWrite, RecvNetPackage, SendNetPackage, Alloc, Free
<1>2. CASE BhNext
  <2>1. ASSUME NEW t \in IoThreads, Operations(t) PROVE \E u \in Io : CallerStep(u)
    BY <1>1, <2>1 DEF Io
  <2>. QED BY <1>2, <2>1 DEF BhNext, WorkerStep, OwnerStep, MonitorStep, KickClient
<1>3. CASE WinNext
  <2>1. ASSUME NEW t \in WinThreads,
               \/ WinAppendNewClient(t) \/ CloseThenErase(t) \/ Access(t)
               \/ /\ bhPc[t] = IdlePc
                  /\ \E s \in 1..Len(bhFd) :
                        \/ WinKickClient(t, bhFd[s]) \/ WinRemoveClient(t, bhFd[s])
                        \/ WinRecvClientData(t, bhFd[s]) \/ WinActivateWrite(t, bhFd[s])
                        \/ WinRecvNetPackage(t, bhFd[s]) \/ WinSendNetPackage(t, bhFd[s])
                        \/ WinAlloc(t, bhFd[s]) \/ WinFree(t, bhFd[s])
        PROVE  CallerStep(t)
    BY <2>1 DEF CallerStep, AppendNewClient, WinAppendNewClient, WinKickClient, WinRemoveClient,
       WinRecvClientData, WinActivateWrite, WinRecvNetPackage, WinSendNetPackage, WinAlloc, WinFree
  <2>. QED BY <1>3, <2>1 DEF WinNext, WorkerStep, OwnerStep, WinDealData, Io
<1>. QED BY <1>2, <1>3

-----------------------------------------------------------------------------
(* Types *)

Live == ToSet(bhClients)
Made == 1..Len(bhFd)

\* The list has each session once, no destroyed one and only sessions that were made.
ListInv ==
    /\ bhClients \in Seq(Sessions) /\ bhRange \in [Workers -> Seq(Sessions)]
    /\ bhFd \in Seq(Socks) /\ Len(bhFd) <= MaxSessions
    /\ IsInjective(bhClients) /\ Live \cap bhDead = {}
    /\ Live \subseteq Made /\ bhDead \subseteq Made
    /\ \A i \in Workers : ToSet(bhRange[i]) \subseteq Made

Places == {"idle", "append", "entered", "close", "reading", "off", "test", "sleep", "woken", "kick", "ended"}
WorkPlaces == {"off", "test", "wait", "sleep", "woken", "deal", "ended"}
PcSet == [at : Places, s : Socks \cup Nat, n : Nat]
WorkerSet == [at : WorkPlaces, todo : Seq(Sessions)]

StateInv ==
    /\ bhBuild \in {"linux", "win32"}
    /\ bhFlag \in [start : BOOLEAN, work : BOOLEAN, heart : BOOLEAN]
    /\ bhOpen \subseteq Socks /\ bhSem \in [Workers -> Nat] /\ bhReaders \in Int
    /\ bhHeart \in {Monitor, NoThread} /\ bhLost \in Seq(Socks)
    /\ bhPc \in [Callers -> PcSet]
    /\ bhWorker \in [Workers -> WorkerSet]

\* A session that AppendNewClient has yet to enter is in no list and with no one else.
Pending ==
    /\ \A t \in Callers : bhPc[t].at = "append" => bhPc[t].s \in Made \ (Live \cup bhDead)
    /\ \A t, u \in Callers :
          bhPc[t].at = "append" /\ bhPc[u].at = "append" /\ bhPc[t].s = bhPc[u].s => t = u

\* LoseHeartBitThread is nowhere else, and kicks with m_heartCtrl in hand.
MonitorInv ==
    /\ bhPc[Monitor].at \in {"off", "test", "sleep", "woken", "kick", "close", "ended"}
    /\ bhPc[Monitor].at \in {"kick", "close"} => bhHeart = Monitor /\ bhPc[Monitor].n > 0

TypeInv == ListInv /\ StateInv /\ Pending /\ MonitorInv

LEMMA Threads ==
    /\ Workers = 1..ThreadCount /\ ThreadCount \in Workers /\ Io \subseteq Callers
    /\ Monitor \in Callers /\ Monitor \notin Io /\ Callers = Io \cup {Monitor}
  BY BhAssumption DEF Workers, Callers, Io

LEMMA PcTyped ==
    ASSUME NEW at \in Places, NEW s \in Socks \cup Nat, NEW n \in Nat
    PROVE  Pc(at, s, n) \in PcSet /\ Pc(at, s, n).at = at /\ Pc(at, s, n).s = s /\ Pc(at, s, n).n = n
  BY DEF Pc, PcSet

LEMMA IdleTyped == IdlePc \in PcSet /\ IdlePc.at = "idle"
  BY DEF IdlePc, Pc, PcSet, Places

LEMMA PcMoved ==
    ASSUME NEW r \in PcSet, NEW at \in Places
    PROVE  /\ [r EXCEPT !.at = at] \in PcSet /\ [r EXCEPT !.at = at].at = at
           /\ [r EXCEPT !.at = at].s = r.s /\ [r EXCEPT !.at = at].n = r.n
  BY DEF PcSet

LEMMA WorkerTyped ==
    ASSUME NEW r \in WorkerSet, NEW at \in WorkPlaces
    PROVE  /\ [r EXCEPT !.at = at] \in WorkerSet /\ [r EXCEPT !.at = at].at = at
           /\ [r EXCEPT !.at = at].todo = r.todo /\ r.at \in WorkPlaces /\ r.todo \in Seq(Sessions)
  BY DEF WorkerSet

\* The wake-ups keep the types.
LEMMA WakeTypes ==
    ASSUME bhSem \in [Workers -> Nat], bhWorker \in [Workers -> WorkerSet],
           NEW range, Wake(range)
    PROVE  bhSem' \in [Workers -> Nat] /\ bhWorker' \in [Workers -> WorkerSet]
<1>1. CASE bhBuild = "linux"
  BY <1>1 DEF Wake
<1>2. CASE bhBuild # "linux"
  <2>1. bhSem' = bhSem
    BY <1>2 DEF Wake
  <2>2. bhWorker' = [i \in Workers |->
           [bhWorker[i] EXCEPT !.at = IF @ = "sleep" /\ range[i] # <<>> THEN "woken" ELSE @]]
    BY <1>2 DEF Wake
  <2>3. ASSUME NEW i \in Workers
        PROVE  [bhWorker[i] EXCEPT !.at = IF @ = "sleep" /\ range[i] # <<>> THEN "woken" ELSE @] \in WorkerSet
    <3>1. (IF bhWorker[i].at = "sleep" /\ range[i] # <<>> THEN "woken" ELSE bhWorker[i].at) \in WorkPlaces
      <4>1. bhWorker[i].at \in WorkPlaces
        BY DEF WorkerSet
      <4>. QED BY <4>1 DEF WorkPlaces
    <3>. QED BY <3>1, WorkerTyped
  <2>. QED BY <2>1, <2>2, <2>3
<1>. QED BY <1>1, <1>2

LEMMA RangesOfList ==
    ASSUME NEW list \in Seq(Sessions), NEW i \in Workers
    PROVE  ToSet(InitIterator(list)[i]) \subseteq ToSet(list)
<1>1. /\ FromPlace(list, i) \in Nat \ {0} /\ ToPlace(list, i) \in 0..Len(list)
      /\ ToSet(InitIterator(list)[i]) = {list[j] : j \in FromPlace(list, i)..ToPlace(list, i)}
  BY Ranges
<1>2. FromPlace(list, i)..ToPlace(list, i) \subseteq DOMAIN list
  BY <1>1
<1>. QED BY <1>1, <1>2 DEF ToSet

\* A list without destroyed sessions is published.
LEMMA PublishTypes ==
    ASSUME ListInv, StateInv, NEW list \in Seq(Sessions), IsInjective(list), Publish(list),
           bhFd' = bhFd, bhDead' \subseteq Made, ToSet(list) \subseteq Made, ToSet(list) \cap bhDead' = {}
    PROVE  /\ ListInv' /\ Live' = ToSet(list) /\ bhSem' \in [Workers -> Nat]
           /\ bhWorker' \in [Workers -> WorkerSet]
<1>1. bhClients' = list /\ bhRange' = InitIterator(list) /\ Wake(InitIterator(list))
  BY DEF Publish
<1>2. /\ bhRange' \in [Workers -> Seq(Sessions)]
      /\ \A i \in Workers : ToSet(bhRange'[i]) \subseteq ToSet(list)
  BY <1>1, Ranges, RangesOfList
<1>3. Live' = ToSet(list) /\ Made' = Made
  BY <1>1 DEF Live, Made
<1>4. ListInv'
  BY <1>1, <1>2, <1>3 DEF ListInv
<1>. QED BY <1>1, <1>3, <1>4, WakeTypes DEF StateInv

\* What a step that leaves the sessions alone has to keep.
LEMMA PcTypes ==
    ASSUME TypeInv, UNCHANGED <<bhClients, bhRange, bhFd, bhDead>>, StateInv', MonitorInv',
           \A t \in Callers : bhPc'[t].at = "append" => bhPc'[t] = bhPc[t]
    PROVE  TypeInv'
<1>1. Live' = Live /\ Made' = Made
  BY DEF Live, Made
<1>2. ListInv'
  BY <1>1 DEF TypeInv, ListInv
<1>3. Pending'
  BY <1>1 DEF TypeInv, Pending
<1>. QED BY <1>2, <1>3 DEF TypeInv

\* A caller goes on, and the lists stay as they are.
LEMMA MoveTypes ==
    ASSUME TypeInv, NEW t \in Io, NEW x \in PcSet, x.at # "append", bhPc' = [bhPc EXCEPT ![t] = x],
           UNCHANGED <<bhClients, bhRange, bhFd, bhDead>>,
           UNCHANGED <<bhBuild, bhFlag, bhSem, bhHeart, bhLost, bhWorker>>,
           bhOpen' \subseteq bhOpen, bhReaders' \in Int
    PROVE  TypeInv'
<1>1. t \in Callers /\ t # Monitor /\ bhPc \in [Callers -> PcSet] /\ Monitor \in Callers
  BY Threads DEF TypeInv, StateInv
<1>2. StateInv'
  <2>1. bhPc' \in [Callers -> PcSet]
    BY <1>1
  <2>2. bhOpen' \subseteq Socks
    BY DEF TypeInv, StateInv
  <2>. QED BY <2>1, <2>2 DEF TypeInv, StateInv
<1>3. bhPc'[Monitor] = bhPc[Monitor]
  BY <1>1
<1>4. MonitorInv'
  BY <1>3 DEF TypeInv, MonitorInv
<1>5. \A u \in Callers : bhPc'[u].at = "append" => bhPc'[u] = bhPc[u]
  BY <1>1
<1>. QED BY <1>2, <1>4, <1>5, PcTypes

\* KickClient and RemoveClient take the session found out of the list.
LEMMA EraseLists ==
    ASSUME TypeInv, NEW t, Erase(t, FindPos(bhPc[t].s))
    PROVE  /\ ListInv' /\ bhSem' \in [Workers -> Nat] /\ bhWorker' \in [Workers -> WorkerSet]
           /\ Live \cup bhDead = Live' \cup bhDead' /\ bhFd' = bhFd
<1>0. ListInv /\ StateInv /\ bhClients \in Seq(Sessions) /\ IsInjective(bhClients)
  BY DEF TypeInv, ListInv
<1>1. PICK k \in 0..Len(bhClients) : k = FindPos(bhPc[t].s)
  BY <1>0, FoundPlace
<1>2. /\ bhFd' = bhFd
      /\ IF k = 0 THEN UNCHANGED <<bhClients, bhRange, bhDead, bhSem, bhWorker>>
         ELSE Publish(RemoveAt(bhClients, k)) /\ bhDead' = bhDead \cup {bhClients[k]}
  BY <1>1 DEF Erase, Erased, bhLists
<1>3. CASE k = 0
  <2>1. Live' = Live /\ Made' = Made
    BY <1>2, <1>3 DEF Live, Made
  <2>2. ListInv'
    BY <1>0, <1>2, <1>3, <2>1 DEF ListInv
  <2>. QED BY <1>0, <1>2, <1>3, <2>1, <2>2 DEF StateInv
<1>4. CASE k # 0
  <2>1. k \in 1..Len(bhClients) /\ bhClients[k] \in Live
    BY <1>0, <1>4 DEF Live, ToSet
  <2>2. /\ RemoveAt(bhClients, k) \in Seq(Sessions) /\ IsInjective(RemoveAt(bhClients, k))
        /\ ToSet(RemoveAt(bhClients, k)) = Live \ {bhClients[k]}
    BY <1>0, <2>1, RemovedOne DEF Live
  <2>3. /\ bhDead' \subseteq Made /\ Live \ {bhClients[k]} \subseteq Made
        /\ (Live \ {bhClients[k]}) \cap bhDead' = {}
    BY <1>0, <1>2, <1>4, <2>1 DEF ListInv
  <2>4. /\ ListInv' /\ Live' = Live \ {bhClients[k]} /\ bhSem' \in [Workers -> Nat]
        /\ bhWorker' \in [Workers -> WorkerSet]
    BY <1>0, <1>2, <1>4, <2>2, <2>3, PublishTypes
  <2>. QED BY <1>2, <1>4, <2>1, <2>4
<1>. QED BY <1>3, <1>4

LEMMA EraseTypes ==
    ASSUME TypeInv, NEW t \in Callers, CloseThenErase(t), After(t) \in PcSet, After(t).at # "append",
           MonitorInv'
    PROVE  TypeInv'
<1>0. /\ bhPc' = [bhPc EXCEPT ![t] = After(t)]
      /\ UNCHANGED <<bhBuild, bhFlag, bhFd, bhOpen, bhReaders, bhHeart, bhLost>>
      /\ Erase(t, FindPos(bhPc[t].s))
  BY DEF CloseThenErase, Erase, GoTo, bhBeat
<1>1. /\ ListInv' /\ bhSem' \in [Workers -> Nat] /\ bhWorker' \in [Workers -> WorkerSet]
      /\ Live \cup bhDead = Live' \cup bhDead' /\ Made' = Made
  BY <1>0, EraseLists DEF Made
<1>2. bhPc \in [Callers -> PcSet]
  BY DEF TypeInv, StateInv
<1>3. StateInv'
  <2>1. bhPc' \in [Callers -> PcSet]
    BY <1>0, <1>2
  <2>. QED BY <1>0, <1>1, <2>1 DEF TypeInv, StateInv
<1>4. Pending'
  <2>1. \A u \in Callers : bhPc'[u].at = "append" => bhPc'[u] = bhPc[u]
    BY <1>0, <1>2
  <2>. QED BY <1>1, <2>1 DEF TypeInv, Pending
<1>. QED BY <1>1, <1>3, <1>4 DEF TypeInv

LEMMA TypeCaller ==
    ASSUME TypeInv, NEW t \in Io, CallerStep(t) PROVE TypeInv'
<1> USE Threads DEF bhLists, bhSess, bhBeat, GoTo
<1>0. /\ t \in Callers /\ t # Monitor /\ StateInv /\ ListInv /\ Pending /\ MonitorInv
      /\ bhFd \in Seq(Socks) /\ Len(bhFd) \in Nat /\ MaxSessions \in Nat
      /\ bhClients \in Seq(Sessions) /\ bhPc \in [Callers -> PcSet] /\ bhReaders \in Int
  <2>1. StateInv /\ ListInv /\ Pending /\ MonitorInv
    BY DEF TypeInv
  <2>2. bhFd \in Seq(Socks) /\ bhClients \in Seq(Sessions)
    BY <2>1 DEF ListInv
  <2>3. bhPc \in [Callers -> PcSet] /\ bhReaders \in Int
    BY <2>1 DEF StateInv
  <2>. QED BY <2>1, <2>2, <2>3, BhAssumption
<1>1. ASSUME MakeSession(t) PROVE TypeInv'
  <2>1. PICK fd \in Socks : bhFd' = Append(bhFd, fd) /\ bhOpen' = bhOpen \cup {fd}
    BY <1>1 DEF MakeSession
  <2>2. /\ bhPc' = [bhPc EXCEPT ![t] = Pc("append", Len(bhFd) + 1, 0)] /\ Len(bhFd) < MaxSessions
        /\ UNCHANGED <<bhBuild, bhFlag, bhClients, bhRange, bhDead, bhSem, bhReaders, bhHeart, bhLost, bhWorker>>
    BY <1>1 DEF MakeSession
  <2>3. bhFd' \in Seq(Socks) /\ Len(bhFd') = Len(bhFd) + 1
    BY <1>0, <2>1 DEF ListInv
  <2>4. Made \subseteq Made' /\ Len(bhFd) + 1 \in Made' \ Made /\ Live' = Live
    BY <1>0, <2>2, <2>3 DEF Made, Live
  <2>5. ListInv'
    BY <1>0, <2>2, <2>3, <2>4 DEF ListInv
  <2>6. StateInv'
    <3>1. Pc("append", Len(bhFd) + 1, 0) \in PcSet
      <4>1. Len(bhFd) + 1 \in Socks \cup Nat /\ "append" \in Places
        BY <1>0 DEF Places
      <4>. QED BY <4>1, PcTyped
    <3>2. bhPc' \in [Callers -> PcSet]
      BY <1>0, <2>2, <3>1
    <3>. QED BY <1>0, <2>1, <2>2, <3>2 DEF StateInv
  <2>7. Pending'
    <3>1. bhPc'[t].s = Len(bhFd) + 1 /\ \A u \in Callers \ {t} : bhPc'[u] = bhPc[u]
      BY <1>0, <2>2 DEF Pc
    <3>2. Len(bhFd) + 1 \notin Live \cup bhDead
      BY <1>0, <2>4 DEF ListInv
    <3>3. ASSUME NEW u \in Callers, bhPc'[u].at = "append"
          PROVE  bhPc'[u].s \in Made' \ (Live' \cup bhDead')
      BY <1>0, <2>2, <2>4, <3>1, <3>2, <3>3 DEF Pending
    <3>4. ASSUME NEW u \in Callers, NEW v \in Callers, bhPc'[u].at = "append", bhPc'[v].at = "append",
                 bhPc'[u].s = bhPc'[v].s
          PROVE  u = v
      <4>1. \A w \in Callers \ {t} : bhPc[w].at = "append" => bhPc[w].s # Len(bhFd) + 1
        BY <1>0, <2>4 DEF Pending
      <4>. QED BY <1>0, <3>1, <3>4, <4>1 DEF Pending
    <3>. QED BY <3>3, <3>4 DEF Pending
  <2>8. MonitorInv'
    BY <1>0, <2>2 DEF MonitorInv
  <2>. QED BY <2>5, <2>6, <2>7, <2>8 DEF TypeInv
<1>2. ASSUME EnterSession(t) PROVE TypeInv'
  <2>1. /\ bhPc[t].at = "append" /\ Publish(Append(bhClients, bhPc[t].s))
        /\ bhPc' = [bhPc EXCEPT ![t] = [bhPc[t] EXCEPT !.at = "entered"]]
        /\ UNCHANGED <<bhBuild, bhFlag, bhFd, bhOpen, bhDead, bhReaders, bhHeart, bhLost>>
    BY <1>2 DEF EnterSession
  <2>2. bhPc[t].s \in Made \ (Live \cup bhDead) /\ Made \subseteq Sessions
    BY <1>0, <2>1 DEF Pending, ListInv, Made, Sessions
  <2>3. /\ Append(bhClients, bhPc[t].s) \in Seq(Sessions) /\ IsInjective(Append(bhClients, bhPc[t].s))
        /\ ToSet(Append(bhClients, bhPc[t].s)) = Live \cup {bhPc[t].s}
    BY <1>0, <2>2, AppendedOne DEF ListInv, Live
  <2>4. /\ ListInv' /\ Live' = Live \cup {bhPc[t].s} /\ bhSem' \in [Workers -> Nat]
        /\ bhWorker' \in [Workers -> WorkerSet]
    <3>1. /\ bhDead' \subseteq Made /\ Live \cup {bhPc[t].s} \subseteq Made
          /\ (Live \cup {bhPc[t].s}) \cap bhDead' = {}
      BY <1>0, <2>1, <2>2 DEF ListInv
    <3>. QED BY <1>0, <2>1, <2>3, <3>1, PublishTypes
  <2>5. StateInv'
    <3>1. bhPc' \in [Callers -> PcSet]
      BY <1>0, <2>1, PcMoved DEF Places
    <3>. QED BY <1>0, <2>1, <2>4, <3>1 DEF StateInv
  <2>6. Pending'
    <3>1. \A u \in Callers : bhPc'[u].at = "append" => u # t /\ bhPc'[u] = bhPc[u]
      BY <1>0, <2>1
    <3>2. Made' = Made /\ bhDead' = bhDead
      BY <2>1 DEF Made
    <3>. QED BY <1>0, <2>1, <2>4, <3>1, <3>2 DEF Pending
  <2>7. MonitorInv'
    BY <1>0, <2>1 DEF MonitorInv
  <2>. QED BY <2>4, <2>5, <2>6, <2>7 DEF TypeInv
<1>3. ASSUME UseSession(t) PROVE TypeInv'
  BY <1>0, <1>3, IdleTyped, MoveTypes DEF UseSession
<1>4. ASSUME Access(t) PROVE TypeInv'
  <2>1. bhReaders' \in Int
    BY <1>0, <1>4 DEF Access
  <2>. QED BY <1>4, <2>1, IdleTyped, MoveTypes DEF Access
<1>5. ASSUME NEW s \in 1..Len(bhFd), CloseSock(t, bhFd[s]) PROVE TypeInv'
  <2>1. bhFd[s] \in Socks /\ bhPc[t].n \in Nat
    BY <1>0 DEF PcSet
  <2>2. PICK x : x = Pc("close", bhFd[s], bhPc[t].n)
    OBVIOUS
  <2>3. x \in PcSet /\ x.at # "append"
    BY <2>1, <2>2, PcTyped DEF Places
  <2>. QED BY <1>0, <1>5, <2>2, <2>3, MoveTypes DEF CloseSock
<1>6. ASSUME NEW s \in 1..Len(bhFd), UnderReadLock(t, bhFd[s]) PROVE TypeInv'
  <2>1. Find(bhFd[s]) \in Nat
    BY <1>0, FoundPlace DEF Find, Sessions
  <2>2. PICK x : x = Pc("reading", Find(bhFd[s]), 0)
    OBVIOUS
  <2>3. x \in PcSet /\ x.at # "append"
    BY <2>1, <2>2, PcTyped DEF Places
  <2>4. bhReaders' \in Int
    BY <1>0, <1>6 DEF UnderReadLock
  <2>. QED BY <1>6, <2>2, <2>3, <2>4, MoveTypes DEF UnderReadLock
<1>7. ASSUME CloseThenErase(t) PROVE TypeInv'
  <2>1. After(t) \in PcSet /\ After(t).at # "append"
    BY <1>0, IdleTyped DEF After
  <2>2. bhPc' = [bhPc EXCEPT ![t] = After(t)] /\ bhHeart' = bhHeart
    BY <1>7 DEF CloseThenErase, Erase
  <2>3. MonitorInv'
    BY <1>0, <2>2 DEF MonitorInv
  <2>. QED BY <1>0, <1>7, <2>1, <2>3, EraseTypes
<1>. QED BY <1>1, <1>2, <1>3, <1>4, <1>5, <1>6, <1>7 DEF CallerStep

\* The monitor is woken, or not.
LEMMA AlarmTypes ==
    ASSUME TypeInv, NEW b,
           bhPc' = [bhPc EXCEPT ![Monitor].at = IF @ = "sleep" /\ b THEN "woken" ELSE @],
           UNCHANGED <<bhClients, bhRange, bhFd, bhDead>>, UNCHANGED <<bhBuild, bhOpen, bhHeart, bhWorker>>,
           bhFlag' \in [start : BOOLEAN, work : BOOLEAN, heart : BOOLEAN],
           bhSem' \in [Workers -> Nat], bhReaders' = bhReaders, bhLost' \in Seq(Socks)
    PROVE  TypeInv'
<1>0. bhPc \in [Callers -> PcSet] /\ Monitor \in Callers /\ MonitorInv /\ StateInv
  BY Threads DEF TypeInv, StateInv
<1>1. PICK x : x = [bhPc[Monitor] EXCEPT !.at = IF @ = "sleep" /\ b THEN "woken" ELSE @]
  OBVIOUS
<1>2. /\ x \in PcSet /\ x.at = IF bhPc[Monitor].at = "sleep" /\ b THEN "woken" ELSE bhPc[Monitor].at
      /\ x.n = bhPc[Monitor].n
  <2>1. (IF bhPc[Monitor].at = "sleep" /\ b THEN "woken" ELSE bhPc[Monitor].at) \in Places
    BY <1>0 DEF PcSet, Places
  <2>. QED BY <1>0, <1>1, <2>1, PcMoved
<1>3. bhPc' = [bhPc EXCEPT ![Monitor] = x] /\ bhPc' \in [Callers -> PcSet] /\ bhPc'[Monitor] = x
  BY <1>0, <1>1, <1>2
<1>4. StateInv'
  BY <1>0, <1>3 DEF StateInv
<1>5. MonitorInv'
  BY <1>0, <1>2, <1>3 DEF MonitorInv
<1>6. \A u \in Callers : bhPc'[u].at = "append" => bhPc'[u] = bhPc[u]
  BY <1>0, <1>2, <1>3 DEF MonitorInv
<1>. QED BY <1>4, <1>5, <1>6, PcTypes

LEMMA TypeWorker ==
    ASSUME TypeInv, NEW i \in Workers, WorkerStep(i) PROVE TypeInv'
<1> USE Threads DEF bhLists, bhSess, bhBeat
<1>0. /\ bhWorker \in [Workers -> WorkerSet] /\ bhRange[i] \in Seq(Sessions) /\ bhReaders \in Int
      /\ <<>> \in Seq(Sessions) /\ bhSem \in [Workers -> Nat] /\ StateInv /\ MonitorInv
  <2>1. bhRange \in [Workers -> Seq(Sessions)]
    BY DEF TypeInv, ListInv
  <2>2. bhWorker \in [Workers -> WorkerSet] /\ bhReaders \in Int /\ bhSem \in [Workers -> Nat]
    BY DEF TypeInv, StateInv
  <2>. QED BY <2>1, <2>2 DEF TypeInv
\* A worker goes on.
<1>1. ASSUME NEW at \in WorkPlaces, NEW todo \in Seq(Sessions), Working(i, at, todo), bhReaders' \in Int,
             bhSem' \in [Workers -> Nat], UNCHANGED <<bhClients, bhRange, bhFd, bhDead>>,
             UNCHANGED <<bhBuild, bhFlag, bhOpen, bhHeart, bhLost, bhPc>>
      PROVE  TypeInv'
  <2>1. bhWorker' \in [Workers -> WorkerSet]
    <3>1. [at |-> at, todo |-> todo] \in WorkerSet
      BY DEF WorkerSet
    <3>. QED BY <1>0, <1>1, <3>1 DEF Working
  <2>2. StateInv'
    BY <1>0, <1>1, <2>1 DEF StateInv
  <2>3. MonitorInv'
    BY <1>0, <1>1 DEF MonitorInv
  <2>. QED BY <1>1, <2>2, <2>3, PcTypes
<1>2. {"ended", "wait", "sleep", "deal", "test"} \subseteq WorkPlaces
  BY DEF WorkPlaces
<1>3. ASSUME Run(i) PROVE TypeInv'
  <2>1. bhReaders' \in Int
    BY <1>0, <1>3 DEF Run
  <2>2. bhSem' \in [Workers -> Nat] /\ UNCHANGED <<bhClients, bhRange, bhFd, bhDead>>
        /\ UNCHANGED <<bhBuild, bhFlag, bhOpen, bhHeart, bhLost, bhPc>>
    BY <1>0, <1>3 DEF Run
  <2>3. \/ Working(i, "ended", <<>>) \/ Working(i, "wait", <<>>) \/ Working(i, "deal", bhRange[i])
    BY <1>3 DEF Run
  <2>. QED BY <1>0, <1>1, <1>2, <2>1, <2>2, <2>3
<1>4. ASSUME WinThreadProc(i) PROVE TypeInv'
  <2>1. bhReaders' \in Int
    BY <1>0, <1>4 DEF WinThreadProc
  <2>2. bhSem' \in [Workers -> Nat] /\ UNCHANGED <<bhClients, bhRange, bhFd, bhDead>>
        /\ UNCHANGED <<bhBuild, bhFlag, bhOpen, bhHeart, bhLost, bhPc>>
    BY <1>0, <1>4 DEF WinThreadProc
  <2>3. \/ Working(i, "ended", <<>>) \/ Working(i, "sleep", <<>>) \/ Working(i, "deal", bhRange[i])
    BY <1>4 DEF WinThreadProc
  <2>. QED BY <1>0, <1>1, <1>2, <2>1, <2>2, <2>3
<1>5. ASSUME Woken(i) PROVE TypeInv'
  <2>1. bhReaders' \in Int /\ bhSem' \in [Workers -> Nat] /\ Working(i, "deal", bhRange[i])
    BY <1>0, <1>5 DEF Woken
  <2>2. UNCHANGED <<bhClients, bhRange, bhFd, bhDead>>
        /\ UNCHANGED <<bhBuild, bhFlag, bhOpen, bhHeart, bhLost, bhPc>>
    BY <1>5 DEF Woken
  <2>. QED BY <1>0, <1>1, <1>2, <2>1, <2>2
<1>6. ASSUME WinRun(i) PROVE TypeInv'
  <2>1. bhReaders' \in Int /\ bhSem' \in [Workers -> Nat] /\ Working(i, "deal", bhRange[i])
    BY <1>0, <1>6 DEF WinRun
  <2>2. UNCHANGED <<bhClients, bhRange, bhFd, bhDead>>
        /\ UNCHANGED <<bhBuild, bhFlag, bhOpen, bhHeart, bhLost, bhPc>>
    BY <1>6 DEF WinRun
  <2>. QED BY <1>0, <1>1, <1>2, <2>1, <2>2
<1>7. ASSUME DealData(i) PROVE TypeInv'
  <2>1. bhReaders' \in Int /\ bhSem' \in [Workers -> Nat] /\ Working(i, "test", <<>>)
    BY <1>0, <1>7 DEF DealData
  <2>2. UNCHANGED <<bhClients, bhRange, bhFd, bhDead>>
        /\ UNCHANGED <<bhBuild, bhFlag, bhOpen, bhHeart, bhLost, bhPc>>
    BY <1>7 DEF DealData
  <2>. QED BY <1>0, <1>1, <1>2, <2>1, <2>2
<1>8. ASSUME HeartBitHandle(i) PROVE TypeInv'
  <2>0. PICK m \in 0..Len(bhRange[i]) : \E late \in [1..m -> 1..Len(bhRange[i])] :
           bhLost' = bhLost \o [k \in 1..m |-> bhFd[bhRange[i][late[k]]]]
    BY <1>8 DEF HeartBitHandle
  <2>1. PICK late \in [1..m -> 1..Len(bhRange[i])] :
           bhLost' = bhLost \o [k \in 1..m |-> bhFd[bhRange[i][late[k]]]]
    BY <2>0
  <2>2. bhLost' \in Seq(Socks)
    <3>1. bhFd \in Seq(Socks) /\ bhLost \in Seq(Socks) /\ ToSet(bhRange[i]) \subseteq Made /\ m \in Nat
      BY <1>0 DEF TypeInv, ListInv, StateInv
    <3>2. ASSUME NEW k \in 1..m PROVE bhFd[bhRange[i][late[k]]] \in Socks
      <4>1. late[k] \in DOMAIN bhRange[i]
        BY <1>0
      <4>2. bhRange[i][late[k]] \in Made
        BY <3>1, <4>1 DEF ToSet
      <4>. QED BY <3>1, <4>2 DEF Made
    <3>3. [k \in 1..m |-> bhFd[bhRange[i][late[k]]]] \in Seq(Socks)
      BY <3>1, <3>2
    <3>. QED BY <2>1, <3>1, <3>3, ConcatProperties
  <2>3. /\ UNCHANGED <<bhClients, bhRange, bhFd, bhDead>>
        /\ UNCHANGED <<bhBuild, bhFlag, bhOpen, bhSem, bhReaders, bhHeart, bhWorker>>
        /\ bhPc' = [bhPc EXCEPT ![Monitor].at = IF @ = "sleep" /\ bhLost' # <<>> THEN "woken" ELSE @]
    BY <1>8 DEF HeartBitHandle
  <2>4. PICK b : b = (bhLost' # <<>>)
    OBVIOUS
  <2>5. /\ bhPc' = [bhPc EXCEPT ![Monitor].at = IF @ = "sleep" /\ b THEN "woken" ELSE @]
        /\ bhFlag' \in [start : BOOLEAN, work : BOOLEAN, heart : BOOLEAN] /\ bhSem' \in [Workers -> Nat]
    BY <1>0, <2>3, <2>4 DEF StateInv
  <2>. QED BY <2>2, <2>3, <2>5, AlarmTypes
<1>. QED BY <1>3, <1>4, <1>5, <1>6, <1>7, <1>8 DEF WorkerStep

LEMMA TypeOwner ==
    ASSUME TypeInv, OwnerStep PROVE TypeInv'
<1> USE Threads DEF bhLists, bhSess, bhBeat, GoTo
<1>0. /\ StateInv /\ MonitorInv /\ ListInv /\ bhPc \in [Callers -> PcSet] /\ bhSem \in [Workers -> Nat]
      /\ bhFlag \in [start : BOOLEAN, work : BOOLEAN, heart : BOOLEAN]
  BY DEF TypeInv, StateInv
<1>1. [i \in Workers |-> [at |-> "test", todo |-> <<>>]] \in [Workers -> WorkerSet]
  <2>1. [at |-> "test", todo |-> <<>>] \in WorkerSet
    BY DEF WorkerSet, WorkPlaces
  <2>. QED BY <2>1
<1>2. ASSUME Start PROVE TypeInv'
  <2>1. /\ UNCHANGED <<bhClients, bhRange, bhFd, bhDead>>
        /\ UNCHANGED <<bhBuild, bhOpen, bhSem, bhReaders, bhHeart, bhLost>>
        /\ \/ UNCHANGED <<bhFlag, bhPc, bhWorker>>
           \/ /\ bhFlag' = [bhFlag EXCEPT !.start = TRUE]
              /\ bhPc' = [bhPc EXCEPT ![Monitor] = Pc("test", 0, 0)]
              /\ bhWorker' = [i \in Workers |-> [at |-> "test", todo |-> <<>>]]
    BY <1>2 DEF Start
  <2>2. Pc("test", 0, 0) \in PcSet /\ Pc("test", 0, 0).at = "test"
    BY DEF Pc, PcSet, Places
  <2>3. CASE UNCHANGED <<bhFlag, bhPc, bhWorker>>
    <3>1. StateInv' /\ MonitorInv'
      BY <1>0, <2>1, <2>3 DEF StateInv, MonitorInv
    <3>. QED BY <2>1, <2>3, <3>1, PcTypes
  <2>4. CASE /\ bhFlag' = [bhFlag EXCEPT !.start = TRUE]
             /\ bhPc' = [bhPc EXCEPT ![Monitor] = Pc("test", 0, 0)]
             /\ bhWorker' = [i \in Workers |-> [at |-> "test", todo |-> <<>>]]
    <3>1. bhPc' \in [Callers -> PcSet] /\ bhPc'[Monitor].at = "test"
      BY <1>0, <2>2, <2>4
    <3>2. bhFlag' \in [start : BOOLEAN, work : BOOLEAN, heart : BOOLEAN]
      BY <1>0, <2>4
    <3>3. StateInv' /\ MonitorInv'
      BY <1>0, <1>1, <2>1, <2>4, <3>1, <3>2 DEF StateInv, MonitorInv
    <3>4. \A u \in Callers : bhPc'[u].at = "append" => bhPc'[u] = bhPc[u]
      BY <1>0, <2>4, <3>1
    <3>. QED BY <2>1, <3>3, <3>4, PcTypes
  <2>. QED BY <2>1, <2>3, <2>4
<1>3. ASSUME StopFlags PROVE TypeInv'
  <2>1. /\ UNCHANGED <<bhClients, bhRange, bhFd, bhDead>> /\ UNCHANGED <<bhBuild, bhOpen, bhHeart, bhWorker>>
        /\ UNCHANGED <<bhReaders, bhLost>>
        /\ bhFlag' = [start |-> FALSE, work |-> FALSE, heart |-> FALSE]
        /\ bhSem' = [i \in Workers |-> bhSem[i] + 1]
        /\ bhPc' = [bhPc EXCEPT ![Monitor].at = IF @ = "sleep" THEN "woken" ELSE @]
    BY <1>3 DEF StopFlags
  <2>2. /\ bhFlag' \in [start : BOOLEAN, work : BOOLEAN, heart : BOOLEAN] /\ bhSem' \in [Workers -> Nat]
        /\ bhLost' \in Seq(Socks)
    BY <1>0, <2>1 DEF StateInv
  <2>3. PICK b : b = TRUE
    OBVIOUS
  <2>4. bhPc' = [bhPc EXCEPT ![Monitor].at = IF @ = "sleep" /\ b THEN "woken" ELSE @]
    BY <2>1, <2>3
  <2>. QED BY <2>1, <2>2, <2>4, AlarmTypes
<1>4. ASSUME WinStart PROVE TypeInv'
  <2>1. /\ UNCHANGED <<bhClients, bhRange, bhFd, bhDead>>
        /\ UNCHANGED <<bhBuild, bhOpen, bhSem, bhReaders, bhHeart, bhLost, bhPc>>
        /\ bhFlag' = [bhFlag EXCEPT !.start = TRUE]
        /\ bhWorker' = [i \in Workers |-> [at |-> "test", todo |-> <<>>]]
    BY <1>4 DEF WinStart
  <2>2. bhFlag' \in [start : BOOLEAN, work : BOOLEAN, heart : BOOLEAN]
    BY <1>0, <2>1
  <2>3. StateInv' /\ MonitorInv'
    BY <1>0, <1>1, <2>1, <2>2 DEF StateInv, MonitorInv
  <2>. QED BY <2>1, <2>3, PcTypes
<1>5. ASSUME WinStopFlags PROVE TypeInv'
  <2>1. /\ UNCHANGED <<bhClients, bhRange, bhFd, bhDead>>
        /\ UNCHANGED <<bhBuild, bhOpen, bhReaders, bhHeart, bhLost, bhPc>>
        /\ bhFlag' = [bhFlag EXCEPT !.work = FALSE, !.heart = FALSE] /\ Wake(bhRange)
    BY <1>5 DEF WinStopFlags
  <2>2. bhFlag' \in [start : BOOLEAN, work : BOOLEAN, heart : BOOLEAN]
    BY <1>0, <2>1
  <2>3. bhSem' \in [Workers -> Nat] /\ bhWorker' \in [Workers -> WorkerSet]
    BY <1>0, <2>1, WakeTypes DEF StateInv
  <2>4. StateInv' /\ MonitorInv'
    BY <1>0, <2>1, <2>2, <2>3 DEF StateInv, MonitorInv
  <2>. QED BY <2>1, <2>4, PcTypes
\* Stop destroys every session of the list.
<1>6. ASSUME bhDead' = bhDead \cup Live, bhClients' = <<>>, UNCHANGED <<bhRange, bhFd>>,
             UNCHANGED <<bhBuild, bhSem, bhReaders, bhHeart, bhLost, bhPc, bhWorker>>,
             bhOpen' \subseteq bhOpen, bhFlag' \in [start : BOOLEAN, work : BOOLEAN, heart : BOOLEAN]
      PROVE  TypeInv'
  <2>1. Live' = {} /\ Made' = Made /\ bhClients' \in Seq(Sessions) /\ IsInjective(bhClients')
    BY <1>6 DEF Live, Made, ToSet, IsInjective
  <2>2. ListInv'
    BY <1>0, <1>6, <2>1 DEF ListInv
  <2>3. StateInv' /\ MonitorInv'
    BY <1>0, <1>6 DEF StateInv, MonitorInv
  <2>4. Pending'
    BY <1>6, <2>1 DEF TypeInv, Pending
  <2>. QED BY <2>2, <2>3, <2>4 DEF TypeInv
<1>7. ASSUME StopClear PROVE TypeInv'
  <2>1. bhOpen' \subseteq bhOpen
    BY <1>7 DEF StopClear
  <2>. QED BY <1>0, <1>6, <1>7, <2>1 DEF StopClear, Live
<1>8. ASSUME WinStopClear PROVE TypeInv'
  <2>1. bhFlag' \in [start : BOOLEAN, work : BOOLEAN, heart : BOOLEAN]
    BY <1>0, <1>8 DEF WinStopClear
  <2>. QED BY <1>0, <1>6, <1>8, <2>1 DEF WinStopClear, Live
<1>. QED BY <1>2, <1>3, <1>4, <1>5, <1>7, <1>8 DEF OwnerStep

LEMMA TypeMonitor ==
    ASSUME TypeInv, MonitorStep PROVE TypeInv'
<1> USE Threads DEF bhLists, bhSess, bhBeat, GoTo
<1>0. /\ StateInv /\ MonitorInv /\ ListInv /\ bhPc \in [Callers -> PcSet] /\ bhReaders \in Int
      /\ bhPc[Monitor].n \in Nat /\ bhLost \in Seq(Socks) /\ Monitor \in Callers
  <2>1. StateInv /\ MonitorInv /\ ListInv
    BY DEF TypeInv
  <2>2. bhPc \in [Callers -> PcSet] /\ bhReaders \in Int /\ bhLost \in Seq(Socks)
    BY <2>1 DEF StateInv
  <2>. QED BY <2>1, <2>2 DEF PcSet
\* The monitor goes on.
<1>1. ASSUME NEW at \in {"test", "sleep", "kick", "close", "ended"}, NEW s \in Socks \cup Nat, NEW n \in Nat,
             bhPc' = [bhPc EXCEPT ![Monitor] = Pc(at, s, n)],
             UNCHANGED <<bhClients, bhRange, bhFd, bhDead>>,
             UNCHANGED <<bhBuild, bhFlag, bhSem, bhWorker>>,
             bhOpen' \subseteq bhOpen, bhReaders' \in Int, bhLost' \in Seq(Socks),
             bhHeart' \in {Monitor, NoThread}, at \in {"kick", "close"} => bhHeart' = Monitor /\ n > 0
      PROVE  TypeInv'
  <2>1. at \in Places
    BY DEF Places
  <2>2. Pc(at, s, n) \in PcSet /\ Pc(at, s, n).at = at /\ Pc(at, s, n).n = n
    BY <2>1, PcTyped
  <2>3. bhPc' \in [Callers -> PcSet] /\ bhPc'[Monitor].at = at /\ bhPc'[Monitor].n = n
    BY <1>0, <1>1, <2>2
  <2>4. StateInv'
    BY <1>0, <1>1, <2>3 DEF StateInv
  <2>5. MonitorInv'
    BY <1>1, <2>3 DEF MonitorInv
  <2>6. \A u \in Callers : bhPc'[u].at = "append" => bhPc'[u] = bhPc[u]
    BY <1>0, <1>1, <2>3
  <2>. QED BY <1>1, <2>4, <2>5, <2>6, PcTypes
<1>2. ASSUME LoseHeartBitThread,
             UNCHANGED <<bhBuild, bhFlag, bhLists, bhSess, bhSem, bhWorker, bhMain, bhDeadUse>>
      PROVE  TypeInv'
  <2>0. bhHeart \in {Monitor, NoThread} /\ <<>> \in Seq(Socks) /\ 0 \in Nat /\ 1 \in Nat /\ 1 > 0
    BY <1>0 DEF StateInv
  <2>1. CASE /\ bhPc' = [bhPc EXCEPT ![Monitor] = Pc("ended", 0, 0)] /\ UNCHANGED <<bhReaders, bhHeart, bhLost>>
    BY <1>0, <1>1, <1>2, <2>0, <2>1
  <2>2. CASE /\ bhPc' = [bhPc EXCEPT ![Monitor] = Pc("sleep", 0, 0)] /\ UNCHANGED <<bhReaders, bhHeart, bhLost>>
    BY <1>0, <1>1, <1>2, <2>0, <2>2
  <2>3. CASE /\ bhPc' = [bhPc EXCEPT ![Monitor] = Pc("kick", 0, 1)] /\ bhHeart' = Monitor
             /\ UNCHANGED <<bhReaders, bhLost>>
    BY <1>0, <1>1, <1>2, <2>0, <2>3
  <2>4. CASE /\ bhPc[Monitor].at = "kick" /\ UNCHANGED <<bhReaders, bhHeart, bhLost>>
             /\ bhPc' = [bhPc EXCEPT ![Monitor] = Pc("kick", 0, bhPc[Monitor].n + 1)]
    <3>1. bhHeart = Monitor /\ bhPc[Monitor].n + 1 \in Nat /\ bhPc[Monitor].n + 1 > 0
      BY <1>0, <2>4 DEF MonitorInv
    <3>. QED BY <1>0, <1>1, <1>2, <2>0, <2>4, <3>1
  <2>5. CASE /\ bhPc' = [bhPc EXCEPT ![Monitor] = Pc("test", 0, 0)] /\ bhLost' = <<>>
             /\ bhReaders' = bhReaders - 1 /\ bhHeart' = bhHeart
    <3>1. bhReaders' \in Int
      BY <1>0, <2>5
    <3>. QED BY <1>0, <1>1, <1>2, <2>0, <2>5, <3>1
  <2>. QED BY <1>2, <2>1, <2>2, <2>3, <2>4, <2>5 DEF LoseHeartBitThread, After
<1>3. ASSUME CloseThenErase(Monitor) PROVE TypeInv'
  <2>1. After(Monitor) = Pc("kick", 0, bhPc[Monitor].n + 1) /\ bhPc[Monitor].n + 1 \in Nat
        /\ bhPc[Monitor].n + 1 > 0
    BY <1>0 DEF After
  <2>2. After(Monitor) \in PcSet /\ After(Monitor).at = "kick" /\ After(Monitor).n > 0
    <3>1. PICK n \in Nat : n = bhPc[Monitor].n + 1 /\ n > 0
      BY <2>1
    <3>2. Pc("kick", 0, n) \in PcSet /\ Pc("kick", 0, n).at = "kick" /\ Pc("kick", 0, n).n = n
      BY DEF Pc, PcSet, Places
    <3>. QED BY <2>1, <3>1, <3>2
  <2>3. bhPc' = [bhPc EXCEPT ![Monitor] = After(Monitor)] /\ bhHeart' = bhHeart /\ bhPc[Monitor].at = "close"
    BY <1>3 DEF CloseThenErase, Erase
  <2>4. MonitorInv'
    BY <1>0, <2>2, <2>3 DEF MonitorInv
  <2>. QED BY <1>0, <1>3, <2>2, <2>4, EraseTypes
<1>4. ASSUME bhPc[Monitor].at = "kick", bhPc[Monitor].n <= Len(bhLost),
             CloseSock(Monitor, bhLost[bhPc[Monitor].n])
      PROVE  TypeInv'
  <2>1. bhHeart = Monitor /\ bhPc[Monitor].n > 0 /\ bhLost[bhPc[Monitor].n] \in Socks
    BY <1>0, <1>4 DEF MonitorInv
  <2>2. /\ bhPc' = [bhPc EXCEPT ![Monitor] = Pc("close", bhLost[bhPc[Monitor].n], bhPc[Monitor].n)]
        /\ UNCHANGED <<bhClients, bhRange, bhFd, bhDead>> /\ bhOpen' \subseteq bhOpen
        /\ UNCHANGED <<bhBuild, bhFlag, bhSem, bhWorker, bhReaders, bhHeart, bhLost>>
    BY <1>4 DEF CloseSock
  <2>. QED BY <1>0, <1>1, <2>1, <2>2
<1>. QED BY <1>2, <1>3, <1>4 DEF MonitorStep

LEMMA TypeInit == ASSUME BhInit \/ WinInit PROVE TypeInv
<1> USE Threads
<1>0. BhMembers /\ bhBuild \in {"linux", "win32"}
  BY DEF BhInit, WinInit
<1>1. bhFlag \in [start : BOOLEAN, work : BOOLEAN, heart : BOOLEAN]
  <2>1. CASE BhInit
    BY <2>1 DEF BhInit
  <2>2. CASE WinInit
    BY <2>2 DEF WinInit
  <2>. QED BY <2>1, <2>2
<1>2. ListInv
  <2>1. ToSet(<<>>) = {} /\ IsInjective(<<>>)
    BY DEF ToSet, IsInjective
  <2>. QED BY <1>0, <2>1, BhAssumption DEF BhMembers, ListInv, Live
<1>3. Pc("off", 0, 0) \in PcSet /\ Pc("off", 0, 0).at = "off"
  BY DEF Pc, PcSet, Places
<1>4. bhPc \in [Callers -> PcSet] /\ bhPc[Monitor].at = "off"
      /\ \A t \in Callers : bhPc[t].at # "append"
  BY <1>0, <1>3, IdleTyped DEF BhMembers
<1>5. bhWorker \in [Workers -> WorkerSet]
  <2>1. [at |-> "off", todo |-> <<>>] \in WorkerSet
    BY DEF WorkerSet, WorkPlaces
  <2>. QED BY <1>0, <2>1 DEF BhMembers
<1>6. StateInv
  <2>1. bhSem \in [Workers -> Nat] /\ bhReaders \in Int /\ bhLost \in Seq(Socks)
    BY <1>0 DEF BhMembers
  <2>2. bhOpen \subseteq Socks /\ bhHeart \in {Monitor, NoThread}
    BY <1>0 DEF BhMembers
  <2>. QED BY <1>0, <1>1, <1>4, <1>5, <2>1, <2>2 DEF StateInv
<1>. QED BY <1>2, <1>4, <1>6 DEF TypeInv, Pending, MonitorInv

LEMMA TypeStep == ASSUME TypeInv, [BhNext \/ WinNext]_bhVars PROVE TypeInv'
<1>1. CASE BhNext \/ WinNext
  BY <1>1, Steps, TypeCaller, TypeWorker, TypeOwner, TypeMonitor
<1>2. CASE UNCHANGED bhVars
  <2>1. /\ UNCHANGED <<bhClients, bhRange, bhFd, bhDead>>
        /\ UNCHANGED <<bhBuild, bhFlag, bhOpen, bhSem, bhReaders, bhHeart, bhLost, bhPc, bhWorker>>
    BY <1>2 DEF bhVars, bhLists, bhSess, bhBeat
  <2>2. StateInv' /\ MonitorInv'
    BY <2>1 DEF TypeInv, StateInv, MonitorInv
  <2>. QED BY <2>1, <2>2, PcTypes
<1>. QED BY <1>1, <1>2

LEMMA TypeFacts == ASSUME TypeInv PROVE BhTypeOK
<1>1. Made \subseteq Sessions
  BY BhAssumption DEF TypeInv, ListInv, Made, Sessions
<1>2. bhDead \subseteq Sessions
  BY <1>1 DEF TypeInv, ListInv
<1>. QED BY <1>2 DEF TypeInv, ListInv, StateInv, BhTypeOK, Live

\* The variables of the balance keep their types in both builds; a session is in the list at
\* most once and not after it was destroyed (AppendNewClient, KickClient, RemoveClient, Stop).
THEOREM TypeCorrect == BalanceSpec => []BhTypeOK
<1>1. BalanceSpec => []TypeInv
  <2>1. BhInit \/ WinInit => TypeInv
    BY TypeInit
  <2>2. TypeInv /\ [BhNext \/ WinNext]_bhVars => TypeInv'
    BY TypeStep
  <2>. QED BY <2>1, <2>2, PTL DEF BalanceSpec
<1>2. TypeInv => BhTypeOK
  BY TypeFacts
<1>. QED BY <1>1, <1>2, PTL

-----------------------------------------------------------------------------
(* Wake-ups *)

\* Where the workers of each build wait.
WaitPlaces ==
    \A i \in Workers : bhWorker[i].at \notin (IF bhBuild = "linux" THEN {"sleep", "woken"} ELSE {"wait"})
SleepInv == WaitPlaces /\ SleeperHasNoClient

\* The wake-ups reach every worker that has clients.
LEMMA WakeReaches ==
    ASSUME TypeInv, SleepInv, bhBuild' = bhBuild, Wake(bhRange') PROVE SleepInv'
<1>0. bhSem \in [Workers -> Nat] /\ bhWorker \in [Workers -> WorkerSet] /\ bhBuild \in {"linux", "win32"}
  BY DEF TypeInv, StateInv
<1>1. CASE bhBuild = "linux"
  <2>1. bhWorker' = bhWorker /\ \A i \in Workers : bhRange'[i] # <<>> => bhSem'[i] = bhSem[i] + 1
    BY <1>1 DEF Wake
  <2>2. WaitPlaces'
    BY <2>1 DEF SleepInv, WaitPlaces
  <2>3. ASSUME NEW i \in Workers,
               (bhWorker'[i].at = "wait" /\ bhSem'[i] = 0) \/ bhWorker'[i].at = "sleep"
        PROVE  bhRange'[i] = <<>>
    BY <1>0, <1>1, <2>1, <2>3 DEF SleepInv, WaitPlaces
  <2>. QED BY <2>2, <2>3 DEF SleepInv, SleeperHasNoClient
<1>2. CASE bhBuild = "win32"
  <2>1. ASSUME NEW i \in Workers
        PROVE  bhWorker'[i].at = IF bhWorker[i].at = "sleep" /\ bhRange'[i] # <<>> THEN "woken"
                                 ELSE bhWorker[i].at
    <3>1. bhWorker'[i] =
            [bhWorker[i] EXCEPT !.at = IF @ = "sleep" /\ bhRange'[i] # <<>> THEN "woken" ELSE @]
      BY <1>2 DEF Wake
    <3>2. bhWorker[i] \in WorkerSet
      BY <1>0
    <3>. QED BY <3>1, <3>2 DEF WorkerSet
  <2>2. WaitPlaces'
    BY <1>2, <2>1 DEF SleepInv, WaitPlaces
  <2>3. SleeperHasNoClient'
    BY <1>2, <2>1, <2>2 DEF WaitPlaces, SleeperHasNoClient
  <2>. QED BY <2>2, <2>3 DEF SleepInv
<1>. QED BY <1>0, <1>1, <1>2

\* Nobody's sleep or range is touched.
LEMMA SleepFrame ==
    ASSUME SleepInv, UNCHANGED <<bhBuild, bhRange, bhSem, bhWorker>> PROVE SleepInv'
  BY DEF SleepInv, WaitPlaces, SleeperHasNoClient

LEMMA SleepErase ==
    ASSUME TypeInv, SleepInv, NEW t, CloseThenErase(t) PROVE SleepInv'
<1>1. bhBuild' = bhBuild
  BY DEF CloseThenErase, Erase
<1>2. UNCHANGED <<bhRange, bhSem, bhWorker>> \/ Wake(bhRange')
  BY DEF CloseThenErase, Erase, Publish, bhLists
<1>. QED BY <1>1, <1>2, SleepFrame, WakeReaches

LEMMA SleepWorker ==
    ASSUME TypeInv, SleepInv, NEW i \in Workers, WorkerStep(i) PROVE SleepInv'
<1> USE DEF bhLists, bhSess, bhBeat
<1>0. /\ bhWorker \in [Workers -> WorkerSet] /\ bhSem \in [Workers -> Nat]
      /\ bhBuild \in {"linux", "win32"}
  BY DEF TypeInv, StateInv
\* A worker goes to sleep with an empty range only.
<1>1. ASSUME NEW at, NEW todo, Working(i, at, todo), UNCHANGED <<bhBuild, bhRange>>,
             \A j \in Workers \ {i} : bhSem'[j] = bhSem[j],
             at \in {"wait", "sleep"} => bhRange[i] = <<>>,
             at \notin (IF bhBuild = "linux" THEN {"sleep", "woken"} ELSE {"wait"})
      PROVE  SleepInv'
  <2>1. bhWorker'[i].at = at /\ \A j \in Workers \ {i} : bhWorker'[j] = bhWorker[j]
    BY <1>0, <1>1 DEF Working
  <2>2. WaitPlaces'
    BY <1>1, <2>1 DEF SleepInv, WaitPlaces
  <2>3. SleeperHasNoClient'
    BY <1>1, <2>1 DEF SleepInv, SleeperHasNoClient
  <2>. QED BY <2>2, <2>3 DEF SleepInv
<1>2. CASE bhBuild = "linux" /\ Run(i)
  <2>1. UNCHANGED <<bhBuild, bhRange, bhSem>>
    BY <1>2 DEF Run
  <2>2. \/ Working(i, "ended", <<>>)
        \/ bhRange[i] = <<>> /\ Working(i, "wait", <<>>)
        \/ Working(i, "deal", bhRange[i])
    BY <1>2 DEF Run
  <2>. QED BY <1>1, <1>2, <2>1, <2>2
<1>3. CASE bhBuild = "linux" /\ Woken(i)
  <2>1. UNCHANGED <<bhBuild, bhRange>> /\ Working(i, "deal", bhRange[i])
        /\ \A j \in Workers \ {i} : bhSem'[j] = bhSem[j]
    BY <1>0, <1>3 DEF Woken
  <2>. QED BY <1>1, <1>3, <2>1
<1>4. CASE bhBuild = "win32" /\ WinThreadProc(i)
  <2>1. UNCHANGED <<bhBuild, bhRange, bhSem>>
    BY <1>4 DEF WinThreadProc
  <2>2. \/ Working(i, "ended", <<>>)
        \/ bhRange[i] = <<>> /\ Working(i, "sleep", <<>>)
        \/ Working(i, "deal", bhRange[i])
    BY <1>4 DEF WinThreadProc
  <2>. QED BY <1>1, <1>4, <2>1, <2>2
<1>5. CASE WinRun(i)
  <2>1. UNCHANGED <<bhBuild, bhRange, bhSem>> /\ Working(i, "deal", bhRange[i])
    BY <1>5 DEF WinRun
  <2>. QED BY <1>1, <2>1
<1>6. CASE DealData(i)
  <2>1. UNCHANGED <<bhBuild, bhRange, bhSem>> /\ Working(i, "test", <<>>)
    BY <1>6 DEF DealData
  <2>. QED BY <1>1, <2>1
<1>7. CASE HeartBitHandle(i)
  <2>1. UNCHANGED <<bhBuild, bhRange, bhSem, bhWorker>>
    BY <1>7 DEF HeartBitHandle
  <2>. QED BY <2>1, SleepFrame
<1>. QED BY <1>2, <1>3, <1>4, <1>5, <1>6, <1>7 DEF WorkerStep

LEMMA SleepOwner ==
    ASSUME TypeInv, SleepInv, OwnerStep PROVE SleepInv'
<1> USE DEF bhLists, bhSess, bhBeat
<1>0. bhWorker \in [Workers -> WorkerSet] /\ bhSem \in [Workers -> Nat]
  BY DEF TypeInv, StateInv
<1>1. ASSUME bhBuild' = bhBuild, bhWorker' = [i \in Workers |-> [at |-> "test", todo |-> <<>>]]
      PROVE  SleepInv'
  <2>1. \A i \in Workers : bhWorker'[i].at = "test"
    BY <1>1
  <2>. QED BY <1>1, <2>1 DEF SleepInv, WaitPlaces, SleeperHasNoClient
<1>2. CASE Start
  <2>1. UNCHANGED <<bhBuild, bhRange, bhSem>>
        /\ (bhWorker' = bhWorker \/ bhWorker' = [i \in Workers |-> [at |-> "test", todo |-> <<>>]])
    BY <1>2 DEF Start
  <2>. QED BY <1>1, <2>1, SleepFrame
<1>3. CASE WinStart
  BY <1>1, <1>3 DEF WinStart
<1>4. CASE StopFlags
  <2>1. UNCHANGED <<bhBuild, bhRange, bhWorker>> /\ \A i \in Workers : bhSem'[i] = bhSem[i] + 1
    BY <1>4 DEF StopFlags
  <2>2. \A i \in Workers : bhSem'[i] # 0
    BY <1>0, <2>1
  <2>. QED BY <2>1, <2>2 DEF SleepInv, WaitPlaces, SleeperHasNoClient
<1>5. CASE WinStopFlags
  <2>1. bhBuild' = bhBuild /\ bhRange' = bhRange /\ Wake(bhRange)
    BY <1>5 DEF WinStopFlags
  <2>2. Wake(bhRange')
    BY <2>1
  <2>. QED BY <2>1, <2>2, WakeReaches
<1>6. CASE StopClear \/ WinStopClear
  <2>1. UNCHANGED <<bhBuild, bhRange, bhSem, bhWorker>>
    BY <1>6 DEF StopClear, WinStopClear
  <2>. QED BY <2>1, SleepFrame
<1>. QED BY <1>2, <1>3, <1>4, <1>5, <1>6 DEF OwnerStep

LEMMA SleepStep ==
    ASSUME TypeInv, SleepInv, [BhNext \/ WinNext]_bhVars PROVE SleepInv'
<1> USE DEF bhLists, bhSess, bhBeat
<1>1. ASSUME NEW t \in Io, CallerStep(t) PROVE SleepInv'
  <2>1. CASE EnterSession(t)
    <3>1. bhBuild' = bhBuild /\ Wake(bhRange')
      BY <2>1 DEF EnterSession, Publish
    <3>. QED BY <3>1, WakeReaches
  <2>2. CASE CloseThenErase(t)
    BY <2>2, SleepErase
  <2>3. CASE MakeSession(t) \/ UseSession(t) \/ Access(t)
    <3>1. UNCHANGED <<bhBuild, bhRange, bhSem, bhWorker>>
      BY <2>3 DEF MakeSession, UseSession, Access
    <3>. QED BY <3>1, SleepFrame
  <2>4. ASSUME NEW fd, CloseSock(t, fd) \/ UnderReadLock(t, fd) PROVE SleepInv'
    <3>1. UNCHANGED <<bhBuild, bhRange, bhSem, bhWorker>>
      BY <2>4 DEF CloseSock, UnderReadLock
    <3>. QED BY <3>1, SleepFrame
  <2>. QED BY <1>1, <2>1, <2>2, <2>3, <2>4 DEF CallerStep
<1>2. CASE MonitorStep
  <2>1. ASSUME NEW fd, CloseSock(Monitor, fd) PROVE SleepInv'
    <3>1. UNCHANGED <<bhBuild, bhRange, bhSem, bhWorker>>
      BY <2>1 DEF CloseSock
    <3>. QED BY <3>1, SleepFrame
  <2>2. CASE UNCHANGED <<bhBuild, bhFlag, bhLists, bhSess, bhSem, bhWorker, bhMain, bhDeadUse>>
    BY <2>2, SleepFrame
  <2>. QED BY <1>2, <2>1, <2>2, SleepErase DEF MonitorStep
<1>3. CASE UNCHANGED bhVars
  BY <1>3, SleepFrame DEF bhVars
<1>. QED BY <1>1, <1>2, <1>3, Steps, SleepWorker, SleepOwner

\* No worker sleeps, in SemWait or on its condition variable, while it has clients: the
\* wake-ups of AppendNewClient, KickClient and RemoveClient in both builds.
THEOREM SleepersSafe == BalanceSpec => []SleeperHasNoClient
<1>1. BhInit \/ WinInit => TypeInv /\ SleepInv
  <2> SUFFICES ASSUME BhInit \/ WinInit PROVE TypeInv /\ SleepInv
    OBVIOUS
  <2>1. \A i \in Workers : bhWorker[i].at = "off"
    BY DEF BhInit, WinInit, BhMembers
  <2>. QED BY <2>1, TypeInit DEF SleepInv, WaitPlaces, SleeperHasNoClient
<1>2. (TypeInv /\ SleepInv) /\ [BhNext \/ WinNext]_bhVars => (TypeInv /\ SleepInv)'
  BY TypeStep, SleepStep
<1>3. TypeInv /\ SleepInv => SleeperHasNoClient
  BY DEF SleepInv
<1>. QED BY <1>1, <1>2, <1>3, PTL DEF BalanceSpec

-----------------------------------------------------------------------------
(* The life of sessions *)

\* The server runs and nobody has released a lock of others.
Running == bhMain # "stopped" /\ ~ OverReleased

Reading == {t \in Callers : bhPc[t].at = "reading"}
Dealing == {i \in Workers : bhWorker[i].at = "deal"}

\* m_rwLock counts those who use sessions, and what they use is in the list.
Counted == bhReaders = Cardinality(Reading) + Cardinality(Dealing)
Sheltered ==
    /\ \A t \in Reading : bhPc[t].s \in Live \cup {0}
    /\ \A i \in Dealing : ToSet(bhWorker[i].todo) \subseteq Live
    /\ \A i \in Workers : ToSet(bhRange[i]) \subseteq Live
    /\ bhDeadUse \subseteq {"PostRecv"}
NotStarted == bhMain = "made" => \A i \in Workers : bhWorker[i].at = "off"
LockInv == NotStarted /\ (Running => Counted /\ Sheltered)

LEMMA Finite ==
    /\ IsFiniteSet(Reading) /\ Cardinality(Reading) \in Nat
    /\ IsFiniteSet(Dealing) /\ Cardinality(Dealing) \in Nat
<1>1. IsFiniteSet(Callers)
  BY BhAssumption, FS_AddElement DEF Callers
<1>2. IsFiniteSet(Workers)
  BY BhAssumption, FS_Interval DEF Workers
<1>3. IsFiniteSet(Reading) /\ IsFiniteSet(Dealing)
  BY <1>1, <1>2, FS_Subset DEF Reading, Dealing
<1>. QED BY <1>3, FS_CardinalityType

\* LockWrite waits for all of them.
LEMMA Alone ==
    ASSUME Counted, CanWrite PROVE Reading = {} /\ Dealing = {}
<1>1. Cardinality(Reading) = 0 /\ Cardinality(Dealing) = 0
  BY Finite DEF Counted, CanWrite
<1>. QED BY <1>1, Finite, FS_EmptySet

\* A step that leaves the readers, the lists and the owner alone.
LEMMA LockFrame ==
    ASSUME LockInv, Running' => Running, bhReaders' = bhReaders, Reading' = Reading, Dealing' = Dealing,
           \A t \in Reading : bhPc'[t].s = bhPc[t].s, \A i \in Dealing : bhWorker'[i].todo = bhWorker[i].todo,
           UNCHANGED <<bhClients, bhRange>>, bhDeadUse' \subseteq bhDeadUse \cup {"PostRecv"}, NotStarted'
    PROVE  LockInv'
<1> SUFFICES ASSUME Running' PROVE Counted' /\ Sheltered'
  BY DEF LockInv
<1>1. Counted /\ Sheltered /\ Live' = Live
  BY DEF LockInv, Live
<1>2. Counted'
  BY <1>1 DEF Counted
<1>3. Sheltered'
  <2>1. \A t \in Reading' : bhPc'[t].s \in Live' \cup {0}
    BY <1>1 DEF Sheltered
  <2>2. \A i \in Dealing' : ToSet(bhWorker'[i].todo) \subseteq Live'
    BY <1>1 DEF Sheltered
  <2>3. \A i \in Workers : ToSet(bhRange'[i]) \subseteq Live'
    BY <1>1 DEF Sheltered
  <2>4. bhDeadUse' \subseteq {"PostRecv"}
    BY <1>1 DEF Sheltered
  <2>. QED BY <2>1, <2>2, <2>3, <2>4 DEF Sheltered
<1>. QED BY <1>2, <1>3

\* The wake-ups move sleepers only.
LEMMA WakeMoves ==
    ASSUME bhWorker \in [Workers -> WorkerSet], NEW range, Wake(range), NEW i \in Workers
    PROVE  /\ bhWorker'[i].todo = bhWorker[i].todo
           /\ \/ bhWorker'[i].at = bhWorker[i].at
              \/ bhWorker[i].at = "sleep" /\ bhWorker'[i].at = "woken"
<1>1. CASE bhBuild = "linux"
  <2>1. bhWorker' = bhWorker
    BY <1>1 DEF Wake
  <2>. QED BY <2>1
<1>2. CASE bhBuild # "linux"
  <2>1. bhWorker'[i] =
           [bhWorker[i] EXCEPT !.at = IF @ = "sleep" /\ range[i] # <<>> THEN "woken" ELSE @]
    BY <1>2 DEF Wake
  <2>2. bhWorker[i] \in WorkerSet
    OBVIOUS
  <2>3. /\ bhWorker'[i].todo = bhWorker[i].todo
        /\ bhWorker'[i].at = IF bhWorker[i].at = "sleep" /\ range[i] # <<>> THEN "woken"
                             ELSE bhWorker[i].at
    BY <2>1, <2>2 DEF WorkerSet
  <2>. QED BY <2>3
<1>. QED BY <1>1, <1>2

\* The list is changed when nobody reads it.
LEMMA LockPublish ==
    ASSUME TypeInv, LockInv, CanWrite, NEW list \in Seq(Sessions), Publish(list),
           \A u \in Callers : bhPc'[u].at = "reading" => bhPc[u].at = "reading",
           bhReaders' = bhReaders, bhDeadUse' = bhDeadUse, bhMain' = bhMain, Running' => Running
    PROVE  LockInv'
<1>0. /\ bhClients' = list /\ bhRange' = InitIterator(list) /\ Wake(InitIterator(list))
      /\ bhWorker \in [Workers -> WorkerSet]
  BY DEF Publish, TypeInv, StateInv
<1>1. \A i \in Workers : \/ bhWorker'[i].at = bhWorker[i].at
                         \/ bhWorker[i].at = "sleep" /\ bhWorker'[i].at = "woken"
  BY <1>0, WakeMoves
<1>2. NotStarted'
  BY <1>1 DEF LockInv, NotStarted
<1> SUFFICES ASSUME Running' PROVE Counted' /\ Sheltered'
  BY <1>2 DEF LockInv
<1>3. Counted /\ Sheltered
  BY DEF LockInv
<1>4. Reading = {} /\ Dealing = {}
  BY <1>3, Alone
<1>5. Reading' = {} /\ Dealing' = {}
  BY <1>1, <1>4 DEF Reading, Dealing
<1>6. Counted'
  BY <1>3, <1>4, <1>5 DEF Counted
<1>7. \A i \in Workers : ToSet(bhRange'[i]) \subseteq Live'
  BY <1>0, RangesOfList DEF Live
<1>8. Sheltered'
  BY <1>3, <1>5, <1>7 DEF Sheltered
<1>. QED BY <1>6, <1>8

\* Who is counted in, and who goes.
LEMMA CountIn ==
    ASSUME NEW S, IsFiniteSet(S), NEW x
    PROVE  /\ x \notin S => Cardinality(S \cup {x}) = Cardinality(S) + 1
           /\ x \in S => Cardinality(S \ {x}) = Cardinality(S) - 1
  BY FS_AddElement, FS_RemoveElement

\* The sessions used are in the list, so none of them is destroyed.
LEMMA UseSheltered ==
    ASSUME TypeInv, NEW who, NEW S, S \subseteq Live \cup {0}, Uses(who, S) PROVE bhDeadUse' = bhDeadUse
<1>1. S \cap bhDead = {}
  BY DEF TypeInv, ListInv, Made
<1>. QED BY <1>1 DEF Uses

\* A caller that is not the monitor starts and ends no round of the monitor.
LEMMA StillRunning ==
    ASSUME TypeInv, NEW t \in Io, NEW x, bhPc' = [bhPc EXCEPT ![t] = x],
           bhMain' = bhMain, bhHeart' = bhHeart
    PROVE  Running' <=> Running
<1>1. bhPc'[Monitor] = bhPc[Monitor]
  BY Threads DEF TypeInv, StateInv
<1>. QED BY <1>1 DEF Running, OverReleased

\* A caller goes on outside the read lock.
LEMMA LockMove ==
    ASSUME TypeInv, LockInv, NEW t \in Callers, NEW x, bhPc' = [bhPc EXCEPT ![t] = x],
           bhPc[t].at # "reading", x.at # "reading", Running' => Running,
           UNCHANGED <<bhReaders, bhWorker, bhClients, bhRange, bhMain>>,
           bhDeadUse' \subseteq bhDeadUse \cup {"PostRecv"}
    PROVE  LockInv'
<1>0. bhPc \in [Callers -> PcSet]
  BY DEF TypeInv, StateInv
<1>1. bhPc'[t] = x /\ \A u \in Callers \ {t} : bhPc'[u] = bhPc[u]
  BY <1>0
<1>2. Reading' = Reading /\ \A u \in Reading : bhPc'[u].s = bhPc[u].s
  BY <1>1 DEF Reading
<1>3. Dealing' = Dealing /\ \A i \in Dealing : bhWorker'[i].todo = bhWorker[i].todo
  BY DEF Dealing
<1>4. NotStarted'
  BY DEF LockInv, NotStarted
<1>. QED BY <1>2, <1>3, <1>4, LockFrame

\* KickClient and RemoveClient change the list with the write lock in hand, or find nothing.
LEMMA LockErase ==
    ASSUME TypeInv, LockInv, NEW t \in Callers, CloseThenErase(t), After(t).at # "reading",
           Running' => Running
    PROVE  LockInv'
<1>0. /\ bhClients \in Seq(Sessions) /\ IsInjective(bhClients) /\ bhPc \in [Callers -> PcSet]
  BY DEF TypeInv, ListInv, StateInv
<1>1. PICK k \in 0..Len(bhClients) : k = FindPos(bhPc[t].s)
  BY <1>0, FoundPlace
<1>2. /\ bhPc[t].at = "close" /\ bhPc' = [bhPc EXCEPT ![t] = After(t)] /\ CanWrite
      /\ UNCHANGED <<bhReaders, bhMain, bhDeadUse>>
      /\ IF k = 0 THEN UNCHANGED <<bhClients, bhRange, bhWorker>>
         ELSE Publish(RemoveAt(bhClients, k))
  BY <1>1 DEF CloseThenErase, Erase, Erased, GoTo, bhLists
<1>3. CASE k = 0
  BY <1>2, <1>3, LockMove
<1>4. CASE k # 0
  <2>1. RemoveAt(bhClients, k) \in Seq(Sessions)
    BY <1>0, <1>4, RemovedOne
  <2>2. \A u \in Callers : bhPc'[u].at = "reading" => bhPc[u].at = "reading"
    BY <1>0, <1>2
  <2>. QED BY <1>2, <1>4, <2>1, <2>2, LockPublish
<1>. QED BY <1>3, <1>4

\* LockRead and UnlockRead of a caller.
LEMMA LockReader ==
    ASSUME TypeInv, LockInv, NEW t \in Io, NEW x, bhPc' = [bhPc EXCEPT ![t] = x],
           UNCHANGED <<bhWorker, bhClients, bhRange, bhMain, bhHeart>>,
           Running => bhDeadUse' = bhDeadUse,
           \/ /\ bhPc[t].at # "reading" /\ x.at = "reading" /\ x.s \in Live \cup {0}
              /\ bhReaders' = bhReaders + 1
           \/ /\ bhPc[t].at = "reading" /\ x.at # "reading"
              /\ bhReaders' = bhReaders - 1
    PROVE  LockInv'
<1>0. bhPc \in [Callers -> PcSet] /\ t \in Callers
  BY Threads DEF TypeInv, StateInv
<1>1. bhPc'[t] = x /\ \A u \in Callers \ {t} : bhPc'[u] = bhPc[u]
  BY <1>0
<1>2. NotStarted'
  BY DEF LockInv, NotStarted
<1> SUFFICES ASSUME Running' PROVE Counted' /\ Sheltered'
  BY <1>2 DEF LockInv
<1>3. Counted /\ Sheltered /\ Live' = Live /\ Dealing' = Dealing /\ bhDeadUse' = bhDeadUse
  BY StillRunning DEF LockInv, Live, Dealing
<1>4. \A u \in Reading' : bhPc'[u].s \in Live' \cup {0}
  BY <1>1, <1>3 DEF Reading, Sheltered
<1>5. Sheltered'
  BY <1>3, <1>4 DEF Sheltered
<1>6. CASE bhPc[t].at # "reading" /\ x.at = "reading" /\ bhReaders' = bhReaders + 1
  <2>1. Reading' = Reading \cup {t} /\ t \notin Reading
    BY <1>0, <1>1, <1>6 DEF Reading
  <2>2. Cardinality(Reading') = Cardinality(Reading) + 1
    BY <2>1, Finite, CountIn
  <2>3. Counted'
    BY <1>3, <1>6, <2>2, Finite DEF Counted
  <2>. QED BY <1>5, <2>3
<1>7. CASE bhPc[t].at = "reading" /\ x.at # "reading" /\ bhReaders' = bhReaders - 1
  <2>1. Reading' = Reading \ {t} /\ t \in Reading
    BY <1>0, <1>1, <1>7 DEF Reading
  <2>2. Cardinality(Reading') = Cardinality(Reading) - 1
    BY <2>1, Finite, CountIn
  <2>3. Counted'
    BY <1>3, <1>7, <2>2, Finite DEF Counted
  <2>. QED BY <1>5, <2>3
<1>. QED BY <1>6, <1>7

LEMMA LockCaller ==
    ASSUME TypeInv, LockInv, NEW t \in Io, CallerStep(t) PROVE LockInv'
<1> USE DEF bhLists, bhSess, bhBeat, GoTo
<1>0. /\ t \in Callers /\ t # Monitor /\ bhPc \in [Callers -> PcSet] /\ bhClients \in Seq(Sessions)
      /\ IdlePc.at = "idle"
  BY Threads, IdleTyped DEF TypeInv, StateInv, ListInv
<1>1. ASSUME MakeSession(t) PROVE LockInv'
  <2>x. PICK x : x = Pc("append", Len(bhFd) + 1, 0)
    OBVIOUS
  <2>1. /\ bhPc[t].at = "idle" /\ x.at = "append" /\ bhPc' = [bhPc EXCEPT ![t] = x]
        /\ UNCHANGED <<bhReaders, bhWorker, bhClients, bhRange, bhMain, bhHeart, bhDeadUse>>
    BY <1>0, <1>1, <2>x DEF MakeSession, Pc
  <2>2. Running' => Running
    BY <2>1, StillRunning
  <2>. QED BY <1>0, <2>1, <2>2, LockMove
<1>2. ASSUME EnterSession(t) PROVE LockInv'
  <2>1. /\ bhPc[t].at = "append" /\ CanWrite /\ Publish(Append(bhClients, bhPc[t].s))
        /\ bhPc' = [bhPc EXCEPT ![t] = [bhPc[t] EXCEPT !.at = "entered"]]
        /\ UNCHANGED <<bhReaders, bhMain, bhHeart, bhDeadUse>>
    BY <1>2 DEF EnterSession
  <2>2. bhPc[t].s \in Sessions
    <3>1. bhPc[t].s \in Made /\ Made \subseteq Sessions
      BY <1>0, <2>1, BhAssumption DEF TypeInv, Pending, ListInv, Made, Sessions
    <3>. QED BY <3>1
  <2>3. Append(bhClients, bhPc[t].s) \in Seq(Sessions)
    BY <1>0, <2>2
  <2>4. \A u \in Callers : bhPc'[u].at = "reading" => bhPc[u].at = "reading"
    BY <1>0, <2>1, PcMoved DEF Places
  <2>5. Running' => Running
    BY <2>1, StillRunning
  <2>. QED BY <2>1, <2>3, <2>4, <2>5, LockPublish
<1>3. ASSUME UseSession(t) PROVE LockInv'
  <2>1. /\ bhPc[t].at = "entered" /\ bhPc' = [bhPc EXCEPT ![t] = IdlePc]
        /\ UNCHANGED <<bhReaders, bhWorker, bhClients, bhRange, bhMain, bhHeart>>
    BY <1>3 DEF UseSession
  <2>2. bhDeadUse' \subseteq bhDeadUse \cup {"PostRecv"}
    BY <1>3 DEF UseSession, Uses
  <2>3. Running' => Running
    BY <2>1, StillRunning
  <2>. QED BY <1>0, <2>1, <2>2, <2>3, LockMove
<1>4. ASSUME NEW s \in 1..Len(bhFd), bhPc[t] = IdlePc, CloseSock(t, bhFd[s]) PROVE LockInv'
  <2>x. PICK x : x = Pc("close", bhFd[s], bhPc[t].n)
    OBVIOUS
  <2>1. /\ bhPc[t].at = "idle" /\ x.at = "close" /\ bhPc' = [bhPc EXCEPT ![t] = x]
        /\ UNCHANGED <<bhReaders, bhWorker, bhClients, bhRange, bhMain, bhHeart, bhDeadUse>>
    BY <1>0, <1>4, <2>x DEF CloseSock, Pc
  <2>2. Running' => Running
    BY <2>1, StillRunning
  <2>. QED BY <1>0, <2>1, <2>2, LockMove
<1>5. ASSUME CloseThenErase(t) PROVE LockInv'
  <2>1. bhPc' = [bhPc EXCEPT ![t] = After(t)] /\ UNCHANGED <<bhMain, bhHeart>>
    BY <1>5 DEF CloseThenErase, Erase
  <2>2. Running' => Running
    BY <2>1, StillRunning
  <2>3. After(t).at # "reading"
    BY <1>0 DEF After
  <2>. QED BY <1>0, <1>5, <2>2, <2>3, LockErase
<1>6. ASSUME NEW s \in 1..Len(bhFd), bhPc[t] = IdlePc, UnderReadLock(t, bhFd[s]) PROVE LockInv'
  <2>x. PICK x : x = Pc("reading", Find(bhFd[s]), 0)
    OBVIOUS
  <2>1. /\ bhPc[t].at = "idle" /\ x.at = "reading" /\ x.s = Find(bhFd[s])
        /\ bhPc' = [bhPc EXCEPT ![t] = x] /\ bhReaders' = bhReaders + 1
        /\ UNCHANGED <<bhWorker, bhClients, bhRange, bhMain, bhHeart, bhDeadUse>>
    BY <1>0, <1>6, <2>x DEF UnderReadLock, Pc
  <2>2. Find(bhFd[s]) \in Live \cup {0}
    BY <1>0, FoundPlace DEF Find, Live, ToSet
  <2>. QED BY <2>1, <2>2, LockReader
<1>7. ASSUME Access(t) PROVE LockInv'
  <2>1. /\ bhPc[t].at = "reading" /\ bhPc' = [bhPc EXCEPT ![t] = IdlePc]
        /\ bhReaders' = bhReaders - 1 /\ Uses("reader", {bhPc[t].s})
        /\ UNCHANGED <<bhWorker, bhClients, bhRange, bhMain, bhHeart>>
    BY <1>7 DEF Access
  <2>2. ASSUME Running PROVE bhDeadUse' = bhDeadUse
    <3>1. {bhPc[t].s} \subseteq Live \cup {0}
      BY <1>0, <2>1, <2>2 DEF LockInv, Sheltered, Reading
    <3>. QED BY <2>1, <3>1, UseSheltered
  <2>. QED BY <1>0, <2>1, <2>2, LockReader
<1>. QED BY <1>1, <1>2, <1>3, <1>4, <1>5, <1>6, <1>7 DEF CallerStep

\* A worker goes on, with or without the read lock.
LEMMA LockWorking ==
    ASSUME TypeInv, LockInv, NEW i \in Workers, NEW at, NEW todo, Working(i, at, todo),
           bhWorker[i].at # "off",
           UNCHANGED <<bhPc, bhClients, bhRange, bhMain, bhHeart>>,
           Running => bhDeadUse' = bhDeadUse,
           \/ bhWorker[i].at # "deal" /\ at # "deal" /\ bhReaders' = bhReaders
           \/ /\ bhWorker[i].at # "deal" /\ at = "deal" /\ todo = bhRange[i]
              /\ bhReaders' = bhReaders + 1
           \/ /\ bhWorker[i].at = "deal" /\ at # "deal"
              /\ bhReaders' = bhReaders - 1
    PROVE  LockInv'
<1>0. bhWorker \in [Workers -> WorkerSet]
  BY DEF TypeInv, StateInv
<1>1. /\ bhWorker'[i].at = at /\ bhWorker'[i].todo = todo
      /\ \A j \in Workers \ {i} : bhWorker'[j] = bhWorker[j]
  BY <1>0 DEF Working
<1>2. NotStarted'
  BY DEF LockInv, NotStarted
<1> SUFFICES ASSUME Running' PROVE Counted' /\ Sheltered'
  BY <1>2 DEF LockInv
<1>3. Running
  BY DEF Running, OverReleased
<1>4. Counted /\ Sheltered /\ Live' = Live /\ Reading' = Reading /\ bhDeadUse' = bhDeadUse
  BY <1>3 DEF LockInv, Live, Reading
<1>5. \A j \in Dealing' : ToSet(bhWorker'[j].todo) \subseteq Live'
  BY <1>1, <1>4 DEF Dealing, Sheltered
<1>6. Sheltered'
  BY <1>4, <1>5 DEF Sheltered
<1>7. CASE bhWorker[i].at # "deal" /\ at # "deal" /\ bhReaders' = bhReaders
  <2>1. Dealing' = Dealing
    BY <1>1, <1>7 DEF Dealing
  <2>. QED BY <1>4, <1>6, <1>7, <2>1 DEF Counted
<1>8. CASE bhWorker[i].at # "deal" /\ at = "deal" /\ bhReaders' = bhReaders + 1
  <2>1. Dealing' = Dealing \cup {i} /\ i \notin Dealing
    BY <1>1, <1>8 DEF Dealing
  <2>2. Cardinality(Dealing') = Cardinality(Dealing) + 1
    BY <2>1, Finite, CountIn
  <2>3. Counted'
    BY <1>4, <1>8, <2>2, Finite DEF Counted
  <2>. QED BY <1>6, <2>3
<1>9. CASE bhWorker[i].at = "deal" /\ at # "deal" /\ bhReaders' = bhReaders - 1
  <2>1. Dealing' = Dealing \ {i} /\ i \in Dealing
    BY <1>1, <1>9 DEF Dealing
  <2>2. Cardinality(Dealing') = Cardinality(Dealing) - 1
    BY <2>1, Finite, CountIn
  <2>3. Counted'
    BY <1>4, <1>9, <2>2, Finite DEF Counted
  <2>. QED BY <1>6, <2>3
<1>. QED BY <1>7, <1>8, <1>9

\* A wake-up of the monitor changes nobody else.
LEMMA Alarm ==
    ASSUME bhPc \in [Callers -> PcSet], Monitor \in Callers, NEW b, NEW u \in Callers,
           bhPc' = [bhPc EXCEPT ![Monitor].at = IF @ = "sleep" /\ b THEN "woken" ELSE @]
    PROVE  /\ bhPc'[u].s = bhPc[u].s
           /\ \/ bhPc'[u].at = bhPc[u].at
              \/ bhPc[u].at = "sleep" /\ bhPc'[u].at = "woken"
<1>x. PICK x : x = [bhPc[Monitor] EXCEPT !.at = IF @ = "sleep" /\ b THEN "woken" ELSE @]
  OBVIOUS
<1>1. bhPc' = [bhPc EXCEPT ![Monitor] = x]
  BY <1>x
<1>2. x.s = bhPc[Monitor].s /\ x.at = IF bhPc[Monitor].at = "sleep" /\ b THEN "woken" ELSE bhPc[Monitor].at
  <2>1. bhPc[Monitor] \in PcSet
    OBVIOUS
  <2>2. (IF bhPc[Monitor].at = "sleep" /\ b THEN "woken" ELSE bhPc[Monitor].at) \in Places
    BY <2>1 DEF PcSet, Places
  <2>. QED BY <1>x, <2>1, <2>2, PcMoved
<1>3. CASE u # Monitor
  <2>1. bhPc'[u] = bhPc[u]
    BY <1>1, <1>3
  <2>. QED BY <2>1
<1>4. CASE u = Monitor
  <2>1. bhPc'[u] = x
    BY <1>1, <1>4
  <2>. QED BY <1>2, <1>4, <2>1
<1>. QED BY <1>3, <1>4

LEMMA LockWorker ==
    ASSUME TypeInv, LockInv, NEW i \in Workers, WorkerStep(i) PROVE LockInv'
<1> USE DEF bhLists, bhSess, bhBeat
<1>0. bhPc \in [Callers -> PcSet] /\ Monitor \in Callers
  BY Threads DEF TypeInv, StateInv
<1>1. ASSUME Run(i) \/ WinThreadProc(i) PROVE LockInv'
  <2>1. /\ bhWorker[i].at = "test"
        /\ UNCHANGED <<bhPc, bhClients, bhRange, bhMain, bhHeart, bhDeadUse>>
    BY <1>1 DEF Run, WinThreadProc
  <2>2. \/ \E at \in {"ended", "wait", "sleep"} : Working(i, at, <<>>) /\ bhReaders' = bhReaders
        \/ Working(i, "deal", bhRange[i]) /\ bhReaders' = bhReaders + 1
    BY <1>1 DEF Run, WinThreadProc
  <2>3. ASSUME NEW at \in {"ended", "wait", "sleep"}, Working(i, at, <<>>), bhReaders' = bhReaders
        PROVE  LockInv'
    BY <2>1, <2>3, LockWorking
  <2>4. ASSUME Working(i, "deal", bhRange[i]), bhReaders' = bhReaders + 1 PROVE LockInv'
    BY <2>1, <2>4, LockWorking
  <2>. QED BY <2>2, <2>3, <2>4
<1>2. ASSUME Woken(i) \/ WinRun(i) PROVE LockInv'
  <2>1. /\ bhWorker[i].at \in {"wait", "woken"}
        /\ UNCHANGED <<bhPc, bhClients, bhRange, bhMain, bhHeart, bhDeadUse>>
        /\ Working(i, "deal", bhRange[i]) /\ bhReaders' = bhReaders + 1
    BY <1>2 DEF Woken, WinRun
  <2>. QED BY <2>1, LockWorking
<1>3. ASSUME DealData(i) PROVE LockInv'
  <2>1. /\ bhWorker[i].at = "deal" /\ Uses("worker", ToSet(bhWorker[i].todo))
        /\ UNCHANGED <<bhPc, bhClients, bhRange, bhMain, bhHeart>>
        /\ Working(i, "test", <<>>) /\ bhReaders' = bhReaders - 1
    BY <1>3 DEF DealData
  <2>2. ASSUME Running PROVE bhDeadUse' = bhDeadUse
    <3>1. ToSet(bhWorker[i].todo) \subseteq Live \cup {0}
      BY <2>1, <2>2 DEF LockInv, Sheltered, Dealing
    <3>. QED BY <2>1, <3>1, UseSheltered
  <2>. QED BY <2>1, <2>2, LockWorking
<1>4. ASSUME HeartBitHandle(i) PROVE LockInv'
  <2>1. /\ bhPc' = [bhPc EXCEPT ![Monitor].at = IF @ = "sleep" /\ bhLost' # <<>> THEN "woken" ELSE @]
        /\ Uses("timer", ToSet(bhRange[i]))
        /\ UNCHANGED <<bhReaders, bhHeart, bhClients, bhRange, bhWorker, bhMain>>
    BY <1>4 DEF HeartBitHandle
  <2>2. /\ \A u \in Callers : bhPc'[u].s = bhPc[u].s
        /\ \A u \in Callers : \/ bhPc'[u].at = bhPc[u].at
                              \/ bhPc[u].at = "sleep" /\ bhPc'[u].at = "woken"
    BY <1>0, <2>1, Alarm
  <2>3. Running' => Running
    BY <1>0, <2>1, <2>2 DEF Running, OverReleased
  <2>4. Reading' = Reading /\ Dealing' = Dealing
    BY <2>1, <2>2 DEF Reading, Dealing
  <2>5. NotStarted'
    BY <2>1 DEF LockInv, NotStarted
  <2>6. CASE Running
    <3>1. ToSet(bhRange[i]) \subseteq Live \cup {0}
      BY <2>6 DEF LockInv, Sheltered
    <3>2. bhDeadUse' = bhDeadUse
      BY <2>1, <3>1, UseSheltered
    <3>3. /\ \A u \in Reading : bhPc'[u].s = bhPc[u].s
          /\ \A j \in Dealing : bhWorker'[j].todo = bhWorker[j].todo
      BY <2>1, <2>2 DEF Reading
    <3>. QED BY <2>1, <2>3, <2>4, <2>5, <3>2, <3>3, LockFrame
  <2>7. CASE ~ Running
    BY <2>3, <2>5, <2>7 DEF LockInv
  <2>. QED BY <2>6, <2>7
<1>. QED BY <1>1, <1>2, <1>3, <1>4 DEF WorkerStep

LEMMA LockOwner ==
    ASSUME TypeInv, LockInv, OwnerStep PROVE LockInv'
<1> USE DEF bhLists, bhSess, bhBeat, GoTo
<1>0. /\ bhPc \in [Callers -> PcSet] /\ Monitor \in Callers /\ MonitorInv
      /\ bhWorker \in [Workers -> WorkerSet]
  BY Threads DEF TypeInv, StateInv
\* The workers start with nothing in hand.
<1>1. ASSUME Start \/ WinStart PROVE LockInv'
  <2>1. /\ bhMain = "made" /\ bhMain' = "running"
        /\ UNCHANGED <<bhReaders, bhHeart, bhClients, bhRange, bhDeadUse>>
        /\ bhWorker' = bhWorker \/ bhWorker' = [i \in Workers |-> [at |-> "test", todo |-> <<>>]]
        /\ bhPc' = bhPc \/ bhPc' = [bhPc EXCEPT ![Monitor] = Pc("test", 0, 0)]
    BY <1>1 DEF Start, WinStart
  <2>2. \A i \in Workers : bhWorker[i].at = "off" /\ bhWorker'[i].at \in {"off", "test"}
    BY <2>1 DEF LockInv, NotStarted
  <2>3. Dealing' = Dealing /\ Dealing = {}
    BY <2>2 DEF Dealing
  <2>4. bhPc'[Monitor].at \in {bhPc[Monitor].at, "test"} /\ \A u \in Callers \ {Monitor} : bhPc'[u] = bhPc[u]
    BY <1>0, <2>1 DEF Pc
  <2>5. Running' => Running
    BY <2>1, <2>4 DEF Running, OverReleased
  <2>6. Reading' = Reading /\ Monitor \notin Reading
    BY <1>0, <2>4 DEF Reading, MonitorInv
  <2>7. \A u \in Reading : bhPc'[u].s = bhPc[u].s
    BY <2>4, <2>6 DEF Reading
  <2>8. NotStarted' /\ bhDeadUse' \subseteq bhDeadUse \cup {"PostRecv"}
    BY <2>1 DEF NotStarted
  <2>. QED BY <2>1, <2>3, <2>5, <2>6, <2>7, <2>8, LockFrame
<1>2. ASSUME StopFlags PROVE LockInv'
  <2>1. /\ bhMain = "running" /\ bhMain' = "stopping"
        /\ bhPc' = [bhPc EXCEPT ![Monitor].at = IF @ = "sleep" THEN "woken" ELSE @]
        /\ UNCHANGED <<bhReaders, bhHeart, bhClients, bhRange, bhWorker, bhDeadUse>>
    BY <1>2 DEF StopFlags
  <2>2. bhPc' = [bhPc EXCEPT ![Monitor].at = IF @ = "sleep" /\ TRUE THEN "woken" ELSE @]
    BY <2>1
  <2>3. /\ \A u \in Callers : bhPc'[u].s = bhPc[u].s
        /\ \A u \in Callers : \/ bhPc'[u].at = bhPc[u].at
                              \/ bhPc[u].at = "sleep" /\ bhPc'[u].at = "woken"
    BY <1>0, <2>2, Alarm
  <2>4. Running' => Running
    BY <1>0, <2>1, <2>3 DEF Running, OverReleased
  <2>5. /\ Reading' = Reading /\ Dealing' = Dealing
        /\ \A u \in Reading : bhPc'[u].s = bhPc[u].s
    BY <2>1, <2>3 DEF Reading, Dealing
  <2>6. NotStarted' /\ \A j \in Dealing : bhWorker'[j].todo = bhWorker[j].todo
    BY <2>1 DEF NotStarted
  <2>. QED BY <2>1, <2>4, <2>5, <2>6, LockFrame
<1>3. ASSUME WinStopFlags PROVE LockInv'
  <2>1. /\ bhMain = "running" /\ bhMain' = "stopping" /\ Wake(bhRange)
        /\ UNCHANGED <<bhReaders, bhHeart, bhClients, bhRange, bhPc, bhDeadUse>>
    BY <1>3 DEF WinStopFlags
  <2>2. \A i \in Workers : /\ bhWorker'[i].todo = bhWorker[i].todo
                           /\ \/ bhWorker'[i].at = bhWorker[i].at
                              \/ bhWorker[i].at = "sleep" /\ bhWorker'[i].at = "woken"
    BY <1>0, <2>1, WakeMoves
  <2>3. Running' => Running
    BY <2>1 DEF Running, OverReleased
  <2>4. /\ Reading' = Reading /\ Dealing' = Dealing
        /\ \A j \in Dealing : bhWorker'[j].todo = bhWorker[j].todo
    BY <2>1, <2>2 DEF Reading, Dealing
  <2>5. NotStarted' /\ \A u \in Reading : bhPc'[u].s = bhPc[u].s
    BY <2>1 DEF NotStarted
  <2>. QED BY <2>1, <2>3, <2>4, <2>5, LockFrame
<1>4. ASSUME StopClear \/ WinStopClear PROVE LockInv'
  <2>1. bhMain' = "stopped"
    BY <1>4 DEF StopClear, WinStopClear
  <2>. QED BY <2>1 DEF LockInv, NotStarted, Running
<1>. QED BY <1>1, <1>2, <1>3, <1>4 DEF OwnerStep

\* LoseHeartBitThread: its round ends with the lock of others released, or leaves it alone.
LEMMA LockMonitor ==
    ASSUME TypeInv, LockInv, MonitorStep PROVE LockInv'
<1> USE DEF bhLists, bhSess, bhBeat, GoTo
<1>0. /\ bhPc \in [Callers -> PcSet] /\ Monitor \in Callers /\ MonitorInv /\ NoThread # Monitor
  BY Threads, BhAssumption DEF TypeInv, StateInv
<1>1. bhPc[Monitor].at # "reading"
  BY <1>0 DEF MonitorInv
<1>2. ASSUME CloseThenErase(Monitor) PROVE LockInv'
  <2>1. bhPc[Monitor].at = "close" /\ bhMain' = bhMain
    BY <1>2 DEF CloseThenErase, Erase
  <2>2. Running' => Running
    BY <2>1 DEF Running, OverReleased
  <2>3. After(Monitor).at # "reading"
    BY DEF After, Pc
  <2>. QED BY <1>0, <1>2, <2>2, <2>3, LockErase
<1>3. ASSUME NEW fd, bhPc[Monitor].at = "kick", CloseSock(Monitor, fd) PROVE LockInv'
  <2>x. PICK x : x = Pc("close", fd, bhPc[Monitor].n)
    OBVIOUS
  <2>1. /\ x.at = "close" /\ bhPc' = [bhPc EXCEPT ![Monitor] = x]
        /\ UNCHANGED <<bhReaders, bhWorker, bhClients, bhRange, bhMain, bhDeadUse>>
    BY <1>3, <2>x DEF CloseSock, Pc
  <2>2. Running' => Running
    BY <1>3, <2>1 DEF Running, OverReleased
  <2>. QED BY <1>0, <1>1, <2>1, <2>2, LockMove
<1>4. ASSUME LoseHeartBitThread,
             UNCHANGED <<bhBuild, bhFlag, bhLists, bhSess, bhSem, bhWorker, bhMain, bhDeadUse>>
      PROVE  LockInv'
  <2>0. UNCHANGED <<bhWorker, bhClients, bhRange, bhMain, bhDeadUse>>
    BY <1>4
  <2>1. ASSUME NEW x, bhPc' = [bhPc EXCEPT ![Monitor] = x], x.at # "reading", bhReaders' = bhReaders,
               OverReleased => OverReleased'
        PROVE  LockInv'
    <3>1. Running' => Running
      BY <2>0, <2>1 DEF Running
    <3>. QED BY <1>0, <1>1, <2>0, <2>1, <3>1, LockMove
  <2>2. CASE /\ bhPc[Monitor].at = "test" /\ bhPc' = [bhPc EXCEPT ![Monitor] = Pc("ended", 0, 0)]
             /\ UNCHANGED <<bhReaders, bhHeart>>
    <3>1. Pc("ended", 0, 0).at = "ended" /\ bhPc'[Monitor].at = "ended"
      BY <1>0, <2>2 DEF Pc
    <3>2. OverReleased => OverReleased'
      BY <2>2, <3>1 DEF OverReleased
    <3>. QED BY <2>1, <2>2, <3>1, <3>2
  <2>3. CASE /\ bhHeart = NoThread /\ bhReaders' = bhReaders
             /\ \/ bhPc' = [bhPc EXCEPT ![Monitor] = Pc("sleep", 0, 0)]
                \/ bhPc' = [bhPc EXCEPT ![Monitor] = Pc("kick", 0, 1)]
    <3>1. Pc("sleep", 0, 0).at = "sleep" /\ Pc("kick", 0, 1).at = "kick"
      BY DEF Pc
    <3>2. ~ OverReleased
      BY <1>0, <2>3 DEF OverReleased
    <3>. QED BY <2>1, <2>3, <3>1, <3>2
  <2>4. CASE /\ bhPc[Monitor].at = "kick" /\ bhPc' = [bhPc EXCEPT ![Monitor] = After(Monitor)]
             /\ UNCHANGED <<bhReaders, bhHeart>>
    <3>1. After(Monitor).at = "kick"
      BY DEF After, Pc
    <3>2. ~ OverReleased
      BY <2>4 DEF OverReleased
    <3>. QED BY <2>1, <2>4, <3>1, <3>2
  <2>5. CASE /\ bhPc[Monitor].at = "kick" /\ bhPc' = [bhPc EXCEPT ![Monitor] = Pc("test", 0, 0)]
             /\ bhHeart' = bhHeart
    <3>1. bhHeart = Monitor
      BY <1>0, <2>5 DEF MonitorInv
    <3>2. bhPc'[Monitor].at = "test"
      BY <1>0, <2>5 DEF Pc
    <3>3. ~ Running'
      BY <2>5, <3>1, <3>2 DEF Running, OverReleased
    <3>4. NotStarted'
      BY <2>0 DEF LockInv, NotStarted
    <3>. QED BY <3>3, <3>4 DEF LockInv
  <2>. QED BY <1>4, <2>2, <2>3, <2>4, <2>5 DEF LoseHeartBitThread
<1>. QED BY <1>2, <1>3, <1>4 DEF MonitorStep

LEMMA LockStep ==
    ASSUME TypeInv, LockInv, [BhNext \/ WinNext]_bhVars PROVE LockInv'
<1>1. CASE BhNext \/ WinNext
  BY <1>1, Steps, LockCaller, LockWorker, LockOwner, LockMonitor
<1>2. CASE UNCHANGED bhVars
  <2>1. UNCHANGED <<bhClients, bhRange, bhReaders, bhHeart, bhPc, bhWorker, bhMain, bhDeadUse>>
    BY <1>2 DEF bhVars, bhLists, bhSess, bhBeat
  <2>2. Reading' = Reading /\ Dealing' = Dealing /\ (Running' => Running) /\ NotStarted'
    BY <2>1 DEF Reading, Dealing, Running, OverReleased, LockInv, NotStarted
  <2>3. /\ \A t \in Reading : bhPc'[t].s = bhPc[t].s
        /\ \A i \in Dealing : bhWorker'[i].todo = bhWorker[i].todo
    BY <2>1
  <2>. QED BY <2>1, <2>2, <2>3, LockFrame
<1>. QED BY <1>1, <1>2

LEMMA LockInit == ASSUME BhInit \/ WinInit PROVE LockInv
<1>0. BhMembers
  BY DEF BhInit, WinInit
<1>1. \A i \in Workers : bhWorker[i].at = "off" /\ bhRange[i] = <<>>
  BY <1>0 DEF BhMembers
<1>2. \A t \in Callers : bhPc[t].at # "reading"
  BY <1>0, IdleTyped DEF BhMembers, Pc
<1>3. Reading = {} /\ Dealing = {}
  BY <1>1, <1>2 DEF Reading, Dealing
<1>4. Counted
  BY <1>0, <1>3, FS_EmptySet DEF Counted, BhMembers
<1>5. Sheltered
  BY <1>0, <1>1, <1>3 DEF Sheltered, BhMembers, ToSet
<1>. QED BY <1>1, <1>4, <1>5 DEF LockInv, NotStarted

\* While the server runs and the monitor has not released a lock of others, a destroyed
\* session is used by nobody but the PostRecv after AppendNewClient's unlock: KickClient and
\* RemoveClient destroy only what no reader, no worker and no timer has in hand.
THEOREM DeadUseSafe == BalanceSpec => []DeadUseKnown
<1>1. BhInit \/ WinInit => TypeInv /\ LockInv
  BY TypeInit, LockInit
<1>2. (TypeInv /\ LockInv) /\ [BhNext \/ WinNext]_bhVars => (TypeInv /\ LockInv)'
  BY TypeStep, LockStep
<1>3. TypeInv /\ LockInv => DeadUseKnown
  BY DEF LockInv, Running, Sheltered, DeadUseKnown
<1>. QED BY <1>1, <1>2, <1>3, PTL DEF BalanceSpec

-----------------------------------------------------------------------------
(* One worker for each client *)

\* Until Stop, m_itrs are the ranges of the list as it is.
RangesCurrent == bhMain # "stopped" => bhRange = InitIterator(bhClients)

\* A client of the list is in the range of exactly one worker, and no range has anybody else.
OneWorker ==
    bhMain # "stopped" =>
        /\ \A s \in Live : \E i \in Workers : /\ s \in ToSet(bhRange[i])
                                              /\ \A j \in Workers \ {i} : s \notin ToSet(bhRange[j])
        /\ \A i \in Workers : ToSet(bhRange[i]) \subseteq Live

LEMMA EmptyRanges == InitIterator(<<>>) = [i \in Workers |-> <<>>]
<1>0. <<>> \in Seq(Sessions) /\ Len(<<>>) = 0
  OBVIOUS
<1>1. ASSUME NEW i \in Workers PROVE InitIterator(<<>>)[i] = <<>>
  <2>r. PICK r : r = InitIterator(<<>>)[i]
    OBVIOUS
  <2>1. /\ r \in Seq(Sessions) /\ FromPlace(<<>>, i) \in Nat \ {0} /\ ToPlace(<<>>, i) \in 0..0
        /\ ToSet(r) = {<<>>[j] : j \in FromPlace(<<>>, i)..ToPlace(<<>>, i)}
    BY <1>0, <2>r, Ranges
  <2>2. FromPlace(<<>>, i)..ToPlace(<<>>, i) = {}
    BY <2>1
  <2>3. ToSet(r) = {}
    BY <2>1, <2>2
  <2>4. DOMAIN r = {} /\ DOMAIN r = 1..Len(r) /\ Len(r) \in Nat
    BY <2>1, <2>3 DEF ToSet
  <2>5. Len(r) = 0
    BY <2>4
  <2>. QED BY <2>1, <2>5, <2>r
<1>2. InitIterator(<<>>) = [i \in Workers |-> InitIterator(<<>>)[i]]
  BY DEF InitIterator
<1>. QED BY <1>1, <1>2

LEMMA CurrentStep ==
    ASSUME RangesCurrent, [BhNext \/ WinNext]_bhVars PROVE RangesCurrent'
<1> USE DEF bhLists, bhSess, bhBeat
<1>1. ASSUME UNCHANGED <<bhClients, bhRange>>, bhMain' # "stopped" => bhMain # "stopped" PROVE RangesCurrent'
  BY <1>1 DEF RangesCurrent
<1>2. ASSUME NEW list, Publish(list) PROVE RangesCurrent'
  BY <1>2 DEF Publish, RangesCurrent
<1>3. ASSUME NEW t, CloseThenErase(t) PROVE RangesCurrent'
  <2>1. \/ UNCHANGED <<bhClients, bhRange, bhMain>>
        \/ Publish(Erased(bhClients, FindPos(bhPc[t].s)))
    BY <1>3 DEF CloseThenErase, Erase
  <2>. QED BY <1>1, <1>2, <2>1
<1>4. ASSUME NEW t \in Io, CallerStep(t) PROVE RangesCurrent'
  <2>1. CASE EnterSession(t)
    BY <1>2, <2>1 DEF EnterSession
  <2>2. CASE MakeSession(t) \/ UseSession(t) \/ Access(t)
    <3>1. UNCHANGED <<bhClients, bhRange, bhMain>>
      BY <2>2 DEF MakeSession, UseSession, Access
    <3>. QED BY <1>1, <3>1
  <2>3. ASSUME NEW fd, CloseSock(t, fd) \/ UnderReadLock(t, fd) PROVE RangesCurrent'
    <3>1. UNCHANGED <<bhClients, bhRange, bhMain>>
      BY <2>3 DEF CloseSock, UnderReadLock
    <3>. QED BY <1>1, <3>1
  <2>. QED BY <1>3, <1>4, <2>1, <2>2, <2>3 DEF CallerStep
<1>5. ASSUME NEW i \in Workers, WorkerStep(i) PROVE RangesCurrent'
  <2>1. UNCHANGED <<bhClients, bhRange, bhMain>>
    BY <1>5 DEF WorkerStep, Run, Woken, HeartBitHandle, WinThreadProc, WinRun, DealData
  <2>. QED BY <1>1, <2>1
<1>6. CASE OwnerStep
  <2>1. CASE Start \/ StopFlags \/ WinStart \/ WinStopFlags
    <3>1. UNCHANGED <<bhClients, bhRange>> /\ bhMain \in {"made", "running"}
      BY <2>1 DEF Start, StopFlags, WinStart, WinStopFlags
    <3>. QED BY <1>1, <3>1
  <2>2. CASE StopClear \/ WinStopClear
    BY <2>2 DEF StopClear, WinStopClear, RangesCurrent
  <2>. QED BY <1>6, <2>1, <2>2 DEF OwnerStep
<1>7. CASE MonitorStep
  <2>1. ASSUME NEW fd, CloseSock(Monitor, fd) PROVE RangesCurrent'
    <3>1. UNCHANGED <<bhClients, bhRange, bhMain>>
      BY <2>1 DEF CloseSock
    <3>. QED BY <1>1, <3>1
  <2>2. CASE UNCHANGED <<bhBuild, bhFlag, bhLists, bhSess, bhSem, bhWorker, bhMain, bhDeadUse>>
    BY <1>1, <2>2
  <2>. QED BY <1>3, <1>7, <2>1, <2>2 DEF MonitorStep
<1>8. CASE UNCHANGED bhVars
  BY <1>1, <1>8 DEF bhVars
<1>. QED BY <1>4, <1>5, <1>6, <1>7, <1>8, Steps

\* InitIterator and its callers: until Stop every client has exactly one worker, however many
\* have come and gone.
THEOREM OneWorkerSafe == BalanceSpec => []OneWorker
<1>1. BhInit \/ WinInit => TypeInv /\ RangesCurrent
  <2> SUFFICES ASSUME BhInit \/ WinInit PROVE RangesCurrent
    BY TypeInit
  <2>1. bhClients = <<>> /\ bhRange = [i \in Workers |-> <<>>]
    BY DEF BhInit, WinInit, BhMembers
  <2>. QED BY <2>1, EmptyRanges DEF RangesCurrent
<1>2. (TypeInv /\ RangesCurrent) /\ [BhNext \/ WinNext]_bhVars => (TypeInv /\ RangesCurrent)'
  BY TypeStep, CurrentStep
<1>3. TypeInv /\ RangesCurrent => OneWorker
  <2> SUFFICES ASSUME TypeInv, RangesCurrent, bhMain # "stopped"
               PROVE  /\ \A s \in Live : \E i \in Workers :
                            /\ s \in ToSet(bhRange[i])
                            /\ \A j \in Workers \ {i} : s \notin ToSet(bhRange[j])
                      /\ \A i \in Workers : ToSet(bhRange[i]) \subseteq Live
    BY DEF OneWorker
  <2>1. bhRange = InitIterator(bhClients) /\ bhClients \in Seq(Sessions) /\ IsInjective(bhClients)
    BY DEF RangesCurrent, TypeInv, ListInv
  <2>. QED BY <2>1, OnePerClient, RangesOfList DEF Live
<1>. QED BY <1>1, <1>2, <1>3, PTL DEF BalanceSpec
=============================================================================
