---------------------------- MODULE System_proofs ----------------------------
(***************************************************************************)
(* Proofs about the components around the core, for any constants: the     *)
(* Windows builds of the pool, the barrier and the timers and its          *)
(* services, the signal-driven timers, the database call and the pool of   *)
(* connections.  Each component has an inductive invariant of its own; in  *)
(* a behaviour of MCSpec one of them runs and the others stay as they      *)
(* were, so the three composite invariants follow from those parts.        *)
(***************************************************************************)
EXTENDS MCSystem, FiniteSetTheorems, SequenceTheorems, WellFoundedInduction, TLAPS

-----------------------------------------------------------------------------
(* Operators *)

\* The least element of a set of numbers: what a CHOOSE of the models picks.
LEMMA LeastIn ==
    ASSUME NEW T \in SUBSET Nat, T # {}
    PROVE  \E x \in T : \A y \in T : x <= y
<1> DEFINE R == {ss \in Nat \X Nat : ss[1] < ss[2]}
<1>1. IsWellFoundedOn(R, Nat)
  BY NatLessThanWellFounded DEF OpToRel
<1> HIDE DEF R
<1>2. PICK x \in T : \A y \in T : ~ (<<y, x>> \in R)
  BY <1>1, WFMin
<1>3. ASSUME NEW y \in T PROVE x <= y
  <2>1. ~ (<<y, x>> \in R) /\ x \in Nat /\ y \in Nat
    BY <1>2
  <2>2. ~ (y < x)
    BY <2>1 DEF R
  <2>. QED BY <2>1, <2>2
<1>. QED BY <1>3

-----------------------------------------------------------------------------
(* The Windows thread pool (ThreadPoolImpl_Win32.cpp) *)

\* How the number of threads with a permit in hand changes when one of them moves.
LEMMA WorkerMoves ==
    ASSUME DOMAIN wpWorker = WinWorkers, NEW x \in WinWorkers, DOMAIN wpWorker' = WinWorkers,
           \A y \in WinWorkers \ {x} : wpWorker'[y] = wpWorker[y]
    PROVE  /\ wpWorker[x] # "take" /\ wpWorker'[x] # "take" => WpCount(wpWorker', "take") = WpCount(wpWorker, "take")
           /\ wpWorker[x] = "take" /\ wpWorker'[x] # "take" => /\ WpCount(wpWorker', "take") = WpCount(wpWorker, "take") - 1
                                              /\ WpCount(wpWorker, "take") > 0
           /\ wpWorker[x] # "take" /\ wpWorker'[x] = "take" => WpCount(wpWorker', "take") = WpCount(wpWorker, "take") + 1
<1> DEFINE A == {y \in WinWorkers : wpWorker[y] = "take"}
           B == {y \in WinWorkers : wpWorker'[y] = "take"}
<1>1. WpCount(wpWorker, "take") = Cardinality(A) /\ WpCount(wpWorker', "take") = Cardinality(B)
  BY DEF WpCount
<1>2. A \subseteq WinWorkers /\ B \subseteq WinWorkers
  OBVIOUS
<1>3. IsFiniteSet(A) /\ IsFiniteSet(B)
  BY <1>2, FS_Subset, WinPoolAssumption
<1>4. Cardinality(A) \in Nat /\ Cardinality(B) \in Nat
  BY <1>3, FS_CardinalityType
<1>5. CASE wpWorker[x] # "take" /\ wpWorker'[x] # "take"
  <2>1. A = B
    BY <1>5
  <2>. QED BY <2>1, <1>1, <1>4, <1>5
<1>6. CASE wpWorker[x] = "take" /\ wpWorker'[x] # "take"
  <2>1. A = B \cup {x} /\ x \notin B
    BY <1>6
  <2>2. Cardinality(A) = Cardinality(B) + 1
    BY <2>1, <1>3, FS_AddElement
  <2>. QED BY <2>2, <1>1, <1>4, <1>6
<1>7. CASE wpWorker[x] # "take" /\ wpWorker'[x] = "take"
  <2>1. B = A \cup {x} /\ x \notin A
    BY <1>7
  <2>2. Cardinality(B) = Cardinality(A) + 1
    BY <2>1, <1>3, FS_AddElement
  <2>. QED BY <2>2, <1>1, <1>4, <1>7
<1>. QED BY <1>5, <1>6, <1>7

\* How the number of clients about to give a permit changes when one of them moves.
LEMMA ClientMoves ==
    ASSUME DOMAIN wpClient = WinClients, NEW x \in WinClients, DOMAIN wpClient' = WinClients,
           \A y \in WinClients \ {x} : wpClient'[y] = wpClient[y]
    PROVE  /\ wpClient[x] # "release" /\ wpClient'[x] # "release" => WpCount(wpClient', "release") = WpCount(wpClient, "release")
           /\ wpClient[x] = "release" /\ wpClient'[x] # "release" => /\ WpCount(wpClient', "release") = WpCount(wpClient, "release") - 1
                                              /\ WpCount(wpClient, "release") > 0
           /\ wpClient[x] # "release" /\ wpClient'[x] = "release" => WpCount(wpClient', "release") = WpCount(wpClient, "release") + 1
<1> DEFINE A == {y \in WinClients : wpClient[y] = "release"}
           B == {y \in WinClients : wpClient'[y] = "release"}
<1>1. WpCount(wpClient, "release") = Cardinality(A) /\ WpCount(wpClient', "release") = Cardinality(B)
  BY DEF WpCount
<1>2. A \subseteq WinClients /\ B \subseteq WinClients
  OBVIOUS
<1>3. IsFiniteSet(A) /\ IsFiniteSet(B)
  BY <1>2, FS_Subset, WinPoolAssumption
<1>4. Cardinality(A) \in Nat /\ Cardinality(B) \in Nat
  BY <1>3, FS_CardinalityType
<1>5. CASE wpClient[x] # "release" /\ wpClient'[x] # "release"
  <2>1. A = B
    BY <1>5
  <2>. QED BY <2>1, <1>1, <1>4, <1>5
<1>6. CASE wpClient[x] = "release" /\ wpClient'[x] # "release"
  <2>1. A = B \cup {x} /\ x \notin B
    BY <1>6
  <2>2. Cardinality(A) = Cardinality(B) + 1
    BY <2>1, <1>3, FS_AddElement
  <2>. QED BY <2>2, <1>1, <1>4, <1>6
<1>7. CASE wpClient[x] # "release" /\ wpClient'[x] = "release"
  <2>1. B = A \cup {x} /\ x \notin A
    BY <1>7
  <2>2. Cardinality(B) = Cardinality(A) + 1
    BY <2>1, <1>3, FS_AddElement
  <2>. QED BY <2>2, <1>1, <1>4, <1>7
<1>. QED BY <1>5, <1>6, <1>7

\* erase of one element of a list.
LEMMA WithoutOne ==
    ASSUME NEW S, NEW s \in Seq(S), NEW i \in 1..Len(s),
           NEW r \in {SubSeq(s, 1, i - 1) \o SubSeq(s, i + 1, Len(s))}
    PROVE  /\ r \in Seq(S) /\ Len(r) = Len(s) - 1
           /\ \A k \in 1..Len(r) : r[k] = s[IF k < i THEN k ELSE k + 1]
<1>0. Len(s) \in Nat /\ i \in Nat /\ i >= 1 /\ i <= Len(s)
  OBVIOUS
<1> DEFINE u == SubSeq(s, 1, i - 1)
           v == SubSeq(s, i + 1, Len(s))
<1>x. 1 \in Int /\ i - 1 \in Int /\ i + 1 \in Int /\ Len(s) \in Int
  BY <1>0
<1>y. (\A k \in 1..(i - 1) : s[k] \in S) /\ (\A k \in (i + 1)..Len(s) : s[k] \in S)
  BY <1>0
<1>1. u \in Seq(S) /\ Len(u) = i - 1 /\ \A k \in 1..(i - 1) : u[k] = s[k]
  <2>1. /\ u \in Seq(S) /\ Len(u) = IF 1 <= i - 1 THEN (i - 1) - 1 + 1 ELSE 0
        /\ \A k \in 1..((i - 1) - 1 + 1) : u[k] = s[1 + k - 1]
    BY <1>x, <1>y, SubSeqProperties
  <2>2. (i - 1) - 1 + 1 = i - 1 /\ (IF 1 <= i - 1 THEN (i - 1) - 1 + 1 ELSE 0) = i - 1
    BY <1>0
  <2>3. \A k \in 1..(i - 1) : 1 + k - 1 = k
    BY <1>0
  <2>. QED BY <2>1, <2>2, <2>3
<1>2. v \in Seq(S) /\ Len(v) = Len(s) - i /\ \A k \in 1..(Len(s) - i) : v[k] = s[k + i]
  <2>1. /\ v \in Seq(S) /\ Len(v) = IF i + 1 <= Len(s) THEN Len(s) - (i + 1) + 1 ELSE 0
        /\ \A k \in 1..(Len(s) - (i + 1) + 1) : v[k] = s[(i + 1) + k - 1]
    BY <1>x, <1>y, SubSeqProperties
  <2>2. Len(s) - (i + 1) + 1 = Len(s) - i /\ (IF i + 1 <= Len(s) THEN Len(s) - (i + 1) + 1 ELSE 0) = Len(s) - i
    BY <1>0
  <2>3. \A k \in 1..(Len(s) - i) : (i + 1) + k - 1 = k + i
    BY <1>0
  <2>. QED BY <2>1, <2>2, <2>3
<1>3. r = u \o v
  OBVIOUS
<1> HIDE DEF u, v
<1>l. Len(u) = i - 1 /\ Len(v) = Len(s) - i
  BY <1>1, <1>2
<1>4. r \in Seq(S) /\ Len(r) = Len(u) + Len(v)
  BY <1>1, <1>2, <1>3, ConcatProperties
<1>a. Len(u) \in Nat /\ Len(v) \in Nat /\ Len(r) = Len(s) - 1
  <2>1. Len(r) = (i - 1) + (Len(s) - i)
    BY <1>l, <1>4
  <2>2. (i - 1) + (Len(s) - i) = Len(s) - 1 /\ i - 1 \in Nat /\ Len(s) - i \in Nat
    BY <1>0
  <2>. QED BY <2>1, <2>2, <1>l
<1>5. ASSUME NEW k \in 1..Len(r) PROVE r[k] = s[IF k < i THEN k ELSE k + 1]
  <2>1. r[k] = IF k <= Len(u) THEN u[k] ELSE v[k - Len(u)]
    <3>1. k \in 1..(Len(u) + Len(v))
      BY <1>4
    <3>2. u \in Seq(S) /\ v \in Seq(S)
      BY <1>1, <1>2
    <3>3. (u \o v)[k] = IF k <= Len(u) THEN u[k] ELSE v[k - Len(u)]
      BY <3>1, <3>2, ConcatProperties
    <3>. QED BY <3>3, <1>3
  <2>k. k \in Nat /\ k >= 1 /\ k <= Len(s) - 1
    <3>1. k \in 1..(Len(s) - 1)
      BY <1>a
    <3>. QED BY <3>1, <1>0
  <2>2. CASE k < i
    <3>1. k \in 1..(i - 1) /\ k <= Len(u)
      BY <2>2, <2>k, <1>0, <1>1
    <3>. QED BY <3>1, <2>1, <2>2, <1>1
  <2>3. CASE k >= i
    <3>1. k - Len(u) \in 1..(Len(s) - i) /\ (k - Len(u)) + i = k + 1 /\ ~(k <= Len(u)) /\ ~(k < i)
      BY <2>3, <2>k, <1>0, <1>1
    <3>2. v[k - Len(u)] = s[(k - Len(u)) + i]
      BY <3>1, <1>2
    <3>. QED BY <3>1, <3>2, <2>1
  <2>4. k < i \/ k >= i
    BY <2>k, <1>0
  <2>. QED BY <2>2, <2>3, <2>4
<1>. QED BY <1>4, <1>a, <1>5

\* The place Take takes from is a place of the list.
LEMMA WpIndexInList ==
    ASSUME NEW S, wpJobs \in Seq(S), wpJobs # <<>>
    PROVE  WpIndex \in 1..Len(wpJobs)
<1> DEFINE first == {k \in DOMAIN wpJobs : wpJobs[k][2] = "first"}
<1>0. DOMAIN wpJobs = 1..Len(wpJobs) /\ Len(wpJobs) \in Nat /\ Len(wpJobs) > 0
  OBVIOUS
<1>1. first \subseteq 1..Len(wpJobs)
  BY <1>0
<1>2. WpIndex = IF first = {} THEN 1 ELSE CHOOSE k \in first : \A l \in first : k <= l
  BY DEF WpIndex
<1> HIDE DEF first
<1>3. CASE first = {}
  BY <1>0, <1>2, <1>3
<1>4. CASE first # {}
  <2>2. first \subseteq Nat
    BY <1>1
  <2>3. \E x \in first : \A y \in first : x <= y
    BY <2>2, <1>4, LeastIn
  <2>5. (CHOOSE k \in first : \A l \in first : k <= l) \in first
    BY <2>3
  <2>. QED BY <2>5, <1>1, <1>2, <1>4
<1>. QED BY <1>3, <1>4

\* Until Stop clears m_tasks: permits, hands and refusals add up to the jobs in the list;
\* a task is in the list once or in one hand, and has not been deleted.
WpCounts ==
    /\ wpSem \in 0..SemLimit /\ wpMade \in Nat /\ wpLost \in Nat
    /\ Len(wpJobs) = wpSem + WpCount(wpWorker, "take") + WpCount(wpClient, "release") + wpLost
    /\ Len(wpJobs) <= wpMade
    /\ wpLost > 0 => wpMade > SemLimit

WpPlaces ==
    /\ wpJobs \in Seq(Nat \X WinTypes)
    /\ DOMAIN wpClient = WinClients /\ DOMAIN wpWorker = WinWorkers
    /\ wpTask \in [WinWorkers -> Nat \X WinTypes]
    /\ wpOwner # "drain" /\ (~wpUp => \A w \in WinWorkers : wpWorker[w] = "none")

WpInHand(w) ==
    /\ wpTask[w][1] \in 1..wpMade /\ wpTask[w][1] \notin wpFreed
    /\ \A i \in 1..Len(wpJobs) : wpJobs[i][1] # wpTask[w][1]
    /\ \A v \in WinWorkers : v # w /\ wpWorker[v] = "work" => wpTask[v][1] # wpTask[w][1]

WpOnce ==
    /\ wpFreed \subseteq 1..wpMade
    /\ \A i \in 1..Len(wpJobs) : wpJobs[i][1] \in 1..wpMade /\ wpJobs[i][1] \notin wpFreed
    /\ \A i, j \in 1..Len(wpJobs) : i # j => wpJobs[i][1] # wpJobs[j][1]
    /\ \A w \in WinWorkers : wpWorker[w] = "work" => WpInHand(w)
    /\ wpFault \notin {"empty list", "freed task"}

WpRunInv == WpCounts /\ WpPlaces /\ WpOnce
WpInv == wpTasks => WpRunInv

\* The two counts are numbers.
LEMMA WpCountsNat ==
    ASSUME DOMAIN wpClient = WinClients, DOMAIN wpWorker = WinWorkers
    PROVE  \A p : WpCount(wpWorker, p) \in Nat /\ WpCount(wpClient, p) \in Nat
<1> SUFFICES ASSUME NEW p PROVE WpCount(wpWorker, p) \in Nat /\ WpCount(wpClient, p) \in Nat
  OBVIOUS
<1> DEFINE A == {x \in WinWorkers : wpWorker[x] = p}
           B == {x \in WinClients : wpClient[x] = p}
<1>1. A \subseteq WinWorkers /\ B \subseteq WinClients
  OBVIOUS
<1>2. Cardinality(A) \in Nat /\ Cardinality(B) \in Nat
  BY <1>1, WinPoolAssumption, FS_Subset, FS_CardinalityType
<1>. QED BY <1>2 DEF WpCount

\* A step that neither queues, takes nor deletes a task keeps WpOnce.
LEMMA OnceKept ==
    ASSUME WpOnce, UNCHANGED <<wpJobs, wpMade, wpFreed, wpTask>>,
           \A w \in WinWorkers : wpWorker'[w] = "work" => wpWorker[w] = "work",
           wpFault' \notin {"empty list", "freed task"}
    PROVE  WpOnce'
<1>1. \A w \in WinWorkers : wpWorker'[w] = "work" => WpInHand(w)'
  BY DEF WpOnce, WpInHand
<1>. QED BY <1>1 DEF WpOnce

LEMMA WpInvInit == WpInit => WpInv
<1> SUFFICES ASSUME WpInit PROVE WpRunInv
  BY DEF WpInv
<1>1. DOMAIN wpClient = WinClients /\ DOMAIN wpWorker = WinWorkers
  BY DEF WpInit
<1>2. WpPlaces
  BY DEF WpInit, WpPlaces, NoJob, WinTypes
<1>3. WpCount(wpWorker, "take") = 0 /\ WpCount(wpClient, "release") = 0
  <2>1. {x \in DOMAIN wpWorker : wpWorker[x] = "take"} = {} /\ {x \in DOMAIN wpClient : wpClient[x] = "release"} = {}
    BY DEF WpInit
  <2>. QED BY <2>1, FS_EmptySet DEF WpCount
<1>4. WpCounts
  BY <1>3, WinPoolAssumption DEF WpInit, WpCounts
<1>5. WpOnce
  BY DEF WpInit, WpOnce
<1>. QED BY <1>2, <1>4, <1>5 DEF WpRunInv

\* One step per action; once m_tasks is cleared nothing is claimed.
LEMMA WpInvNext == WpInv /\ [WpNext]_wpVars => WpInv'
<1> SUFFICES ASSUME WpInv, [WpNext]_wpVars, wpTasks' PROVE WpRunInv'
  BY DEF WpInv
<1>0. wpTasks /\ UNCHANGED wpTasks
  BY DEF WpNext, wpVars, WpCreate, WpFlagSet, WpSubmit, WpRelease, WpWait, WpTest, WpWake, WpTake,
         WpWork, WpStop, WpPermits, WpDrain
<1>i. WpCounts /\ WpPlaces /\ WpOnce
  BY <1>0 DEF WpInv, WpRunInv
<1>n. /\ Len(wpJobs) \in Nat /\ SemLimit \in Nat /\ SemLimit > 0 /\ MaxWinJobs \in Nat
      /\ IsFiniteSet(WinWorkers) /\ IsFiniteSet(WinClients)
      /\ \A p : WpCount(wpWorker, p) \in Nat /\ WpCount(wpClient, p) \in Nat
      /\ DOMAIN wpClient = WinClients /\ DOMAIN wpWorker = WinWorkers
  BY <1>i, WinPoolAssumption, WpCountsNat DEF WpPlaces
<1>1. CASE UNCHANGED wpVars
  <2>0. UNCHANGED <<wpUp, wpOwner, wpSem, wpJobs, wpMade, wpFreed, wpClient, wpWorker, wpTask, wpLost, wpFault>>
    BY <1>1 DEF wpVars
  <2>1. WpCounts'
    BY <2>0, <1>i DEF WpCounts
  <2>2. WpPlaces'
    BY <2>0, <1>i DEF WpPlaces
  <2>3. WpOnce'
    <3>1. wpFault' \notin {"empty list", "freed task"}
      BY <2>0, <1>i DEF WpOnce
    <3>. QED BY <2>0, <3>1, <1>i, OnceKept
  <2>. QED BY <2>1, <2>2, <2>3 DEF WpRunInv
<1>2. CASE WpCreate
  <2>0. /\ ~wpUp /\ wpOwner' = "created" /\ wpUp' = TRUE /\ wpWorker' = [w \in WinWorkers |-> "test"]
        /\ UNCHANGED <<wpSem, wpJobs, wpMade, wpFreed, wpClient, wpTask, wpLost, wpFault>>
    BY <1>2 DEF WpCreate
  <2>1. \A w \in WinWorkers : wpWorker[w] = "none"
    BY <2>0, <1>i DEF WpPlaces
  <2>2. WpCount(wpWorker', "take") = WpCount(wpWorker, "take")
    <3>1. {x \in DOMAIN wpWorker : wpWorker[x] = "take"} = {x \in DOMAIN wpWorker' : wpWorker'[x] = "take"}
      BY <2>0, <2>1, <1>n
    <3>. QED BY <3>1 DEF WpCount
  <2>3. WpCounts'
    BY <2>0, <2>2, <1>i DEF WpCounts
  <2>4. WpPlaces'
    BY <2>0, <1>i DEF WpPlaces
  <2>5. WpOnce'
    BY <2>0, <1>i DEF WpOnce, WpInHand
  <2>. QED BY <2>3, <2>4, <2>5 DEF WpRunInv
<1>3. CASE WpFlagSet \/ WpStop
  <2>0. /\ wpOwner' # "drain"
        /\ UNCHANGED <<wpUp, wpSem, wpJobs, wpMade, wpFreed, wpClient, wpWorker, wpTask, wpLost, wpFault>>
    BY <1>3 DEF WpFlagSet, WpStop
  <2>3. WpCounts'
    BY <2>0, <1>i DEF WpCounts
  <2>4. WpPlaces'
    BY <2>0, <1>i DEF WpPlaces
  <2>5. WpOnce'
    BY <2>0, <1>i DEF WpOnce, WpInHand
  <2>. QED BY <2>3, <2>4, <2>5 DEF WpRunInv
<1>4. CASE WpPermits \/ WpDrain
  BY <1>4, <1>0, <1>i DEF WpPermits, WpDrain, WpPlaces
<1>5. ASSUME NEW c \in WinClients, NEW type \in WinTypes, WpSubmit(c, type) PROVE WpRunInv'
  <2>0. /\ wpMade' = wpMade + 1 /\ wpClient[c] = "idle"
        /\ UNCHANGED <<wpUp, wpOwner, wpSem, wpWorker, wpTask, wpLost, wpFault>>
    BY <1>5 DEF WpSubmit
  <2>n. wpMade \in Nat /\ wpMade + 1 \notin 1..wpMade /\ 1..wpMade \subseteq 1..wpMade' /\ wpMade + 1 \in 1..wpMade'
    BY <2>0, <1>i DEF WpCounts
  <2>1. CASE wpFreed' = wpFreed \cup {wpMade + 1} /\ UNCHANGED <<wpJobs, wpClient>>
    <3>1. WpCounts'
      BY <2>0, <2>1, <1>i, <1>n DEF WpCounts
    <3>2. WpPlaces'
      BY <2>0, <2>1, <1>i DEF WpPlaces
    <3>3. WpOnce'
      BY <2>0, <2>1, <2>n, <1>i DEF WpOnce, WpInHand
    <3>. QED BY <3>1, <3>2, <3>3 DEF WpRunInv
  <2>2. CASE /\ wpJobs' = Append(wpJobs, <<wpMade + 1, type>>) /\ UNCHANGED wpFreed
             /\ wpClient' = [wpClient EXCEPT ![c] = "release"]
    <3> DEFINE j == <<wpMade + 1, type>>
    <3>0. j \in Nat \X WinTypes /\ j[1] = wpMade + 1
      BY <2>n
    <3> HIDE DEF j
    <3>1. /\ wpJobs' \in Seq(Nat \X WinTypes) /\ Len(wpJobs') = Len(wpJobs) + 1
          /\ wpJobs'[Len(wpJobs) + 1] = j
      BY <2>2, <1>i, <3>0 DEF WpPlaces, j
    <3>2. \A k \in 1..Len(wpJobs) : wpJobs'[k] = wpJobs[k]
      BY <2>2, <1>i, <3>0 DEF WpPlaces, j
    <3>3. WpCount(wpClient', "release") = WpCount(wpClient, "release") + 1
      <4>1. /\ DOMAIN wpClient' = WinClients /\ \A y \in WinClients \ {c} : wpClient'[y] = wpClient[y]
            /\ wpClient'[c] = "release"
        BY <2>0, <2>2, <1>n
      <4>2. DOMAIN wpClient = WinClients
        BY <1>n
      <4>. QED BY <2>0, <2>2, <1>n, <4>1, <4>2, ClientMoves
    <3>4. WpCounts'
      <4>1. /\ Len(wpJobs) = wpSem + WpCount(wpWorker, "take") + WpCount(wpClient, "release") + wpLost
            /\ Len(wpJobs) <= wpMade /\ wpSem \in 0..SemLimit /\ wpLost \in Nat /\ wpSem \in Nat
            /\ wpLost > 0 => wpMade > SemLimit
        BY <1>i, <1>n DEF WpCounts
      <4>2. WpCount(wpWorker', "take") = WpCount(wpWorker, "take") /\ WpCount(wpWorker, "take") \in Nat
               /\ WpCount(wpClient, "release") \in Nat
        BY <2>0, <1>n
      <4>3. Len(wpJobs') = wpSem + WpCount(wpWorker', "take") + WpCount(wpClient', "release") + wpLost
        BY <4>1, <4>2, <3>1, <3>3
      <4>4. Len(wpJobs') <= wpMade' /\ (wpLost > 0 => wpMade' > SemLimit)
        <5>1. Len(wpJobs) + 1 <= wpMade + 1 /\ (wpMade > SemLimit => wpMade + 1 > SemLimit)
          BY <4>1, <2>n, <1>n
        <5>. QED BY <5>1, <4>1, <3>1, <2>0
      <4>. QED BY <4>1, <4>3, <4>4, <2>0, <2>n DEF WpCounts
    <3>5. WpPlaces'
      BY <2>0, <2>2, <3>1, <1>i DEF WpPlaces
    <3>6. ASSUME NEW i \in 1..Len(wpJobs')
          PROVE  /\ wpJobs'[i][1] \in 1..wpMade' /\ wpJobs'[i][1] \notin wpFreed
                 /\ i \in 1..Len(wpJobs) => wpJobs'[i][1] = wpJobs[i][1] /\ wpJobs'[i][1] \in 1..wpMade
                 /\ i \notin 1..Len(wpJobs) => wpJobs'[i][1] = wpMade + 1 /\ i = Len(wpJobs) + 1
      <4>1. CASE i \in 1..Len(wpJobs)
        BY <4>1, <3>2, <2>n, <1>i DEF WpOnce
      <4>2. CASE i = Len(wpJobs) + 1
        <5>1. wpJobs'[i][1] = wpMade + 1 /\ i \notin 1..Len(wpJobs)
          BY <4>2, <3>0, <3>1, <1>n
        <5>2. wpMade + 1 \notin wpFreed
          BY <2>n, <1>i DEF WpOnce
        <5>. QED BY <5>1, <5>2, <4>2, <2>n
      <4>. QED BY <4>1, <4>2, <3>1, <1>n
    <3>7. \A i, k \in 1..Len(wpJobs') : i # k => wpJobs'[i][1] # wpJobs'[k][1]
      <4> SUFFICES ASSUME NEW i \in 1..Len(wpJobs'), NEW k \in 1..Len(wpJobs'), i # k
                   PROVE  wpJobs'[i][1] # wpJobs'[k][1]
        OBVIOUS
      <4>1. CASE i \in 1..Len(wpJobs) /\ k \in 1..Len(wpJobs)
        <5>1. wpJobs[i][1] # wpJobs[k][1]
          BY <4>1, <1>i DEF WpOnce
        <5>. QED BY <4>1, <5>1, <3>6
      <4>2. CASE i \notin 1..Len(wpJobs)
        BY <4>2, <3>6, <2>n
      <4>3. CASE k \notin 1..Len(wpJobs)
        BY <4>3, <3>6, <2>n
      <4>. QED BY <4>1, <4>2, <4>3
    <3>8. ASSUME NEW w \in WinWorkers, wpWorker[w] = "work"
          PROVE  WpInHand(w)'
      <4>1. /\ wpTask[w][1] \in 1..wpMade /\ wpTask[w][1] \notin wpFreed
            /\ \A i \in 1..Len(wpJobs) : wpJobs[i][1] # wpTask[w][1]
            /\ \A v \in WinWorkers : v # w /\ wpWorker[v] = "work" => wpTask[v][1] # wpTask[w][1]
        BY <3>8, <1>i DEF WpOnce, WpInHand
      <4>2. \A i \in 1..Len(wpJobs') : wpJobs'[i][1] # wpTask[w][1]
        BY <4>1, <3>6, <2>n
      <4>3. wpTask[w][1] \in 1..wpMade'
        BY <4>1, <2>n
      <4>. QED BY <4>1, <4>2, <4>3, <2>0, <2>2 DEF WpInHand
    <3>9. WpOnce'
      <4>1. wpFreed \subseteq 1..wpMade' /\ wpFault' \notin {"empty list", "freed task"}
        BY <2>0, <2>n, <1>i DEF WpOnce
      <4>2. \A i \in 1..Len(wpJobs') : wpJobs'[i][1] \in 1..wpMade' /\ wpJobs'[i][1] \notin wpFreed
        BY <3>6
      <4>3. \A w \in WinWorkers : wpWorker'[w] = "work" => WpInHand(w)'
        BY <3>8, <2>0
      <4>. QED BY <4>1, <4>2, <4>3, <3>7, <2>2 DEF WpOnce
    <3>. QED BY <3>4, <3>5, <3>9 DEF WpRunInv
  <2>. QED BY <1>5, <2>1, <2>2 DEF WpSubmit
<1>6. ASSUME NEW c \in WinClients, WpRelease(c) PROVE WpRunInv'
  <2>0. /\ wpClient[c] = "release" /\ wpClient' = [wpClient EXCEPT ![c] = "wait"] /\ ReleaseSemaphore
        /\ UNCHANGED <<wpUp, wpOwner, wpJobs, wpMade, wpFreed, wpWorker, wpTask, wpFault>>
    BY <1>6 DEF WpRelease
  <2>1. WpCount(wpClient', "release") = WpCount(wpClient, "release") - 1 /\ WpCount(wpClient, "release") > 0
    <3>1. /\ DOMAIN wpClient' = WinClients /\ \A y \in WinClients \ {c} : wpClient'[y] = wpClient[y]
          /\ wpClient'[c] = "wait"
      BY <2>0, <1>n
    <3>2. DOMAIN wpClient = WinClients
      BY <1>n
    <3>. QED BY <2>0, <1>n, <3>1, <3>2, ClientMoves
  <2>2. WpCounts'
    <3>0. WpCount(wpWorker, "take") \in Nat /\ WpCount(wpClient, "release") \in Nat /\ WpCount(wpWorker', "take") = WpCount(wpWorker, "take")
      BY <2>0, <1>n
    <3>1. CASE wpSem < SemLimit
      <4>1. wpSem' = wpSem + 1 /\ wpLost' = wpLost
        BY <3>1, <2>0 DEF ReleaseSemaphore
      <4>2. /\ Len(wpJobs) = wpSem + WpCount(wpWorker, "take") + WpCount(wpClient, "release") + wpLost
            /\ wpSem \in 0..SemLimit /\ wpLost \in Nat /\ SemLimit \in Nat
        BY <1>i, <1>n DEF WpCounts
      <4>3. Len(wpJobs') = wpSem' + WpCount(wpWorker', "take") + WpCount(wpClient', "release") + wpLost'
        <5>1. WpCount(wpClient', "release") = WpCount(wpClient, "release") - 1 /\ wpSem \in Nat /\ wpJobs' = wpJobs
          BY <2>0, <2>1, <4>2
        <5>2. Len(wpJobs) = (wpSem + 1) + WpCount(wpWorker, "take") + (WpCount(wpClient, "release") - 1) + wpLost
          BY <4>2, <5>1, <3>0
        <5>. QED BY <4>1, <5>1, <5>2, <3>0
      <4>4. wpSem' \in 0..SemLimit
        BY <4>1, <4>2, <3>1
      <4>. QED BY <4>1, <4>3, <4>4, <2>0, <1>i DEF WpCounts
    <3>2. CASE ~(wpSem < SemLimit)
      <4>1. wpLost' = wpLost + 1 /\ wpSem' = wpSem
        BY <3>2, <2>0 DEF ReleaseSemaphore
      <4>2. wpSem = SemLimit
        BY <3>2, <1>i, <1>n DEF WpCounts
      <4>3. Len(wpJobs) > SemLimit
        BY <4>2, <3>0, <2>1, <1>i, <1>n DEF WpCounts
      <4>4. /\ Len(wpJobs) = wpSem + WpCount(wpWorker, "take") + WpCount(wpClient, "release") + wpLost
            /\ Len(wpJobs) <= wpMade /\ wpMade \in Nat /\ wpLost \in Nat /\ wpSem \in 0..SemLimit
        BY <1>i DEF WpCounts
      <4>5. Len(wpJobs) = wpSem + WpCount(wpWorker, "take") + (WpCount(wpClient, "release") - 1) + (wpLost + 1)
        BY <4>2, <4>4, <3>0, <1>n
      <4>6. Len(wpJobs') = wpSem' + WpCount(wpWorker', "take") + WpCount(wpClient', "release") + wpLost'
        BY <4>1, <4>5, <3>0, <2>0, <2>1
      <4>7. wpMade > SemLimit /\ wpLost + 1 \in Nat
        BY <4>3, <4>4, <1>n
      <4>. QED BY <4>1, <4>4, <4>6, <4>7, <2>0 DEF WpCounts
    <3>. QED BY <3>1, <3>2
  <2>3. WpPlaces'
    BY <2>0, <1>i DEF WpPlaces
  <2>4. WpOnce'
    BY <2>0, <1>i DEF WpOnce, WpInHand
  <2>. QED BY <2>2, <2>3, <2>4 DEF WpRunInv
<1>7. ASSUME NEW c \in WinClients, WpWait(c) PROVE WpRunInv'
  <2>0. /\ wpClient[c] = "wait" /\ wpClient' = [wpClient EXCEPT ![c] = "idle"]
        /\ wpFault' \in {"late wait", wpFault}
        /\ UNCHANGED <<wpUp, wpOwner, wpSem, wpJobs, wpMade, wpFreed, wpWorker, wpTask, wpLost>>
    BY <1>7 DEF WpWait
  <2>1. WpCount(wpClient', "release") = WpCount(wpClient, "release")
    <3>1. /\ DOMAIN wpClient' = WinClients /\ \A y \in WinClients \ {c} : wpClient'[y] = wpClient[y]
          /\ wpClient'[c] = "idle"
      BY <2>0, <1>n
    <3>2. DOMAIN wpClient = WinClients
      BY <1>n
    <3>. QED BY <2>0, <1>n, <3>1, <3>2, ClientMoves
  <2>2. WpCounts'
    BY <2>0, <2>1, <1>i DEF WpCounts
  <2>3. WpPlaces'
    BY <2>0, <1>i DEF WpPlaces
  <2>4. WpOnce'
    BY <2>0, <1>i DEF WpOnce, WpInHand
  <2>. QED BY <2>2, <2>3, <2>4 DEF WpRunInv
<1>8. ASSUME NEW w \in WinWorkers, WpTest(w) PROVE WpRunInv'
  <2>0. PICK q \in {"wait", "ended"} :
        /\ wpWorker[w] = "test" /\ wpWorker' = [wpWorker EXCEPT ![w] = q]
        /\ UNCHANGED <<wpUp, wpOwner, wpSem, wpJobs, wpMade, wpFreed, wpClient, wpTask, wpLost, wpFault>>
    BY <1>8 DEF WpTest
  <2>1. WpCount(wpWorker', "take") = WpCount(wpWorker, "take")
    <3>1. /\ DOMAIN wpWorker' = WinWorkers /\ \A y \in WinWorkers \ {w} : wpWorker'[y] = wpWorker[y]
          /\ wpWorker'[w] = q
      BY <2>0, <1>n
    <3>2. DOMAIN wpWorker = WinWorkers
      BY <1>n
    <3>. QED BY <2>0, <1>n, <3>1, <3>2, WorkerMoves
  <2>2. WpCounts'
    BY <2>0, <2>1, <1>i DEF WpCounts
  <2>3. WpPlaces'
    BY <2>0, <1>i DEF WpPlaces
  <2>4. WpOnce'
    <3>1. \A v \in WinWorkers : wpWorker'[v] = "work" => wpWorker[v] = "work"
      BY <2>0, <1>n
    <3>2. wpFault' \notin {"empty list", "freed task"}
      BY <2>0, <1>i DEF WpOnce
    <3>. QED BY <2>0, <3>1, <3>2, <1>i, OnceKept
  <2>. QED BY <2>2, <2>3, <2>4 DEF WpRunInv
<1>9. ASSUME NEW w \in WinWorkers, WpWake(w) PROVE WpRunInv'
  <2>0. /\ wpWorker[w] = "wait" /\ wpWorker' = [wpWorker EXCEPT ![w] = "take"]
        /\ wpSem > 0 /\ wpSem' = wpSem - 1
        /\ UNCHANGED <<wpUp, wpOwner, wpJobs, wpMade, wpFreed, wpClient, wpTask, wpLost, wpFault>>
    BY <1>9 DEF WpWake, WpAcquire
  <2>1. WpCount(wpWorker', "take") = WpCount(wpWorker, "take") + 1
    <3>1. /\ DOMAIN wpWorker' = WinWorkers /\ \A y \in WinWorkers \ {w} : wpWorker'[y] = wpWorker[y]
          /\ wpWorker'[w] = "take"
      BY <2>0, <1>n
    <3>2. DOMAIN wpWorker = WinWorkers
      BY <1>n
    <3>. QED BY <2>0, <1>n, <3>1, <3>2, WorkerMoves
  <2>2. WpCounts'
    BY <2>0, <2>1, <1>i, <1>n DEF WpCounts
  <2>3. WpPlaces'
    BY <2>0, <1>i DEF WpPlaces
  <2>4. WpOnce'
    <3>1. \A v \in WinWorkers : wpWorker'[v] = "work" => wpWorker[v] = "work"
      BY <2>0, <1>n
    <3>2. wpFault' \notin {"empty list", "freed task"}
      BY <2>0, <1>i DEF WpOnce
    <3>. QED BY <2>0, <3>1, <3>2, <1>i, OnceKept
  <2>. QED BY <2>2, <2>3, <2>4 DEF WpRunInv
<1>10. ASSUME NEW w \in WinWorkers, WpTake(w) PROVE WpRunInv'
  <2>0. /\ wpWorker[w] = "take"
        /\ UNCHANGED <<wpUp, wpOwner, wpSem, wpMade, wpFreed, wpClient, wpLost>>
    BY <1>10 DEF WpTake
  <2>t. wpJobs \in Seq(Nat \X WinTypes)
    BY <1>i DEF WpPlaces
  <2>1. wpJobs # <<>>
    <3>1. WpCount(wpWorker, "take") > 0
      <4> DEFINE A == {x \in WinWorkers : wpWorker[x] = "take"}
      <4>1. w \in A /\ A \subseteq WinWorkers
        BY <2>0
      <4>2. IsFiniteSet(A) /\ A # {}
        BY <4>1, <1>n, FS_Subset
      <4>3. Cardinality(A) \in Nat /\ Cardinality(A) # 0
        BY <4>2, FS_EmptySet, FS_CardinalityType
      <4>. QED BY <4>3, <1>n DEF WpCount
    <3>2. Len(wpJobs) > 0
      BY <3>1, <1>i, <1>n DEF WpCounts
    <3>. QED BY <3>2, <2>t
  <2>2. WpIndex \in 1..Len(wpJobs)
    BY <2>1, <2>t, WpIndexInList
  <2>3. PICK e \in 1..Len(wpJobs) :
           /\ wpTask' = [wpTask EXCEPT ![w] = wpJobs[e]]
           /\ wpJobs' = SubSeq(wpJobs, 1, e - 1) \o SubSeq(wpJobs, e + 1, Len(wpJobs))
           /\ wpWorker' = [wpWorker EXCEPT ![w] = "work"] /\ UNCHANGED wpFault
    BY <1>10, <2>1, <2>2 DEF WpTake
  <2>4. wpJobs' \in Seq(Nat \X WinTypes) /\ Len(wpJobs') = Len(wpJobs) - 1
           /\ \A k \in 1..Len(wpJobs') : wpJobs'[k] = wpJobs[IF k < e THEN k ELSE k + 1]
    <3>1. wpJobs' \in {SubSeq(wpJobs, 1, e - 1) \o SubSeq(wpJobs, e + 1, Len(wpJobs))}
      BY <2>3
    <3>. QED BY <3>1, <2>t, WithoutOne
  <2>5. WpCount(wpWorker', "take") = WpCount(wpWorker, "take") - 1
    <3>1. /\ DOMAIN wpWorker' = WinWorkers /\ \A y \in WinWorkers \ {w} : wpWorker'[y] = wpWorker[y]
          /\ wpWorker'[w] = "work"
      BY <2>0, <2>3, <1>n
    <3>2. DOMAIN wpWorker = WinWorkers
      BY <1>n
    <3>. QED BY <2>0, <2>3, <1>n, <3>1, <3>2, WorkerMoves
  <2>6. WpCounts'
    <3>1. /\ Len(wpJobs) = wpSem + WpCount(wpWorker, "take") + WpCount(wpClient, "release") + wpLost
          /\ Len(wpJobs) <= wpMade /\ wpMade \in Nat /\ wpLost \in Nat /\ wpSem \in Nat /\ wpSem \in 0..SemLimit
          /\ wpLost > 0 => wpMade > SemLimit
      BY <1>i, <1>n DEF WpCounts
    <3>2. Len(wpJobs) - 1 = wpSem + (WpCount(wpWorker, "take") - 1) + WpCount(wpClient, "release") + wpLost
             /\ Len(wpJobs) - 1 <= wpMade
      BY <3>1, <1>n
    <3>3. Len(wpJobs') = wpSem + WpCount(wpWorker', "take") + WpCount(wpClient', "release") + wpLost /\ Len(wpJobs') <= wpMade
      BY <3>2, <2>0, <2>4, <2>5
    <3>. QED BY <3>1, <3>3, <2>0 DEF WpCounts
  <2>7. wpJobs[e] \in Nat \X WinTypes
    BY <2>t
  <2>8. WpPlaces'
    BY <2>0, <2>3, <2>4, <2>7, <1>i DEF WpPlaces
  <2>9. ASSUME NEW k \in 1..Len(wpJobs')
        PROVE  \E l \in 1..Len(wpJobs) : l # e /\ wpJobs'[k] = wpJobs[l] /\ l = (IF k < e THEN k ELSE k + 1)
    <3>1. (IF k < e THEN k ELSE k + 1) \in 1..Len(wpJobs) /\ (IF k < e THEN k ELSE k + 1) # e
      BY <2>4, <1>n
    <3>. QED BY <3>1, <2>4
  <2>10. \A k \in 1..Len(wpJobs') : wpJobs'[k][1] \in 1..wpMade /\ wpJobs'[k][1] \notin wpFreed
                                      /\ wpJobs'[k][1] # wpJobs[e][1]
    <3> TAKE k \in 1..Len(wpJobs')
    <3>1. PICK l \in 1..Len(wpJobs) : l # e /\ wpJobs'[k] = wpJobs[l]
      BY <2>9
    <3>. QED BY <3>1, <1>i DEF WpOnce
  <2>11. ASSUME NEW i \in 1..Len(wpJobs'), NEW k \in 1..Len(wpJobs'), i # k
         PROVE  wpJobs'[i][1] # wpJobs'[k][1]
    <3>1. PICK a \in 1..Len(wpJobs) : wpJobs'[i] = wpJobs[a] /\ a = (IF i < e THEN i ELSE i + 1)
      BY <2>9
    <3>2. PICK b \in 1..Len(wpJobs) : wpJobs'[k] = wpJobs[b] /\ b = (IF k < e THEN k ELSE k + 1)
      BY <2>9
    <3>3. a # b
      <4>1. i \in Nat /\ k \in Nat /\ e \in Nat
        BY <2>4, <1>n
      <4>. QED BY <4>1, <3>1, <3>2, <2>11
    <3>. QED BY <3>1, <3>2, <3>3, <1>i DEF WpOnce
  <2>12. wpTask'[w] = wpJobs[e] /\ wpWorker'[w] = "work"
           /\ \A v \in WinWorkers : v # w => wpTask'[v] = wpTask[v] /\ wpWorker'[v] = wpWorker[v]
    BY <2>3, <1>i DEF WpPlaces
  <2>13. wpJobs[e][1] \in 1..wpMade /\ wpJobs[e][1] \notin wpFreed
    BY <1>i DEF WpOnce
  <2>14. ASSUME NEW v \in WinWorkers, v # w, wpWorker[v] = "work"
         PROVE  /\ wpTask[v][1] \in 1..wpMade /\ wpTask[v][1] \notin wpFreed
                /\ wpTask[v][1] # wpJobs[e][1]
                /\ \A k \in 1..Len(wpJobs') : wpJobs'[k][1] # wpTask[v][1]
                /\ \A u \in WinWorkers : u # v /\ wpWorker[u] = "work" => wpTask[u][1] # wpTask[v][1]
    <3>1. /\ wpTask[v][1] \in 1..wpMade /\ wpTask[v][1] \notin wpFreed
          /\ \A k \in 1..Len(wpJobs) : wpJobs[k][1] # wpTask[v][1]
          /\ \A u \in WinWorkers : u # v /\ wpWorker[u] = "work" => wpTask[u][1] # wpTask[v][1]
      BY <2>14, <1>i DEF WpOnce, WpInHand
    <3>2. ASSUME NEW k \in 1..Len(wpJobs') PROVE wpJobs'[k][1] # wpTask[v][1]
      <4>1. PICK l \in 1..Len(wpJobs) : l # e /\ wpJobs'[k] = wpJobs[l]
        BY <2>9
      <4>. QED BY <4>1, <3>1
    <3>. QED BY <3>1, <3>2
  <2>15. ASSUME NEW v \in WinWorkers, wpWorker'[v] = "work"
         PROVE  /\ wpTask'[v][1] \in 1..wpMade /\ wpTask'[v][1] \notin wpFreed
                /\ \A k \in 1..Len(wpJobs') : wpJobs'[k][1] # wpTask'[v][1]
                /\ \A u \in WinWorkers : u # v /\ wpWorker'[u] = "work" => wpTask'[u][1] # wpTask'[v][1]
    <3>1. CASE v = w
      <4>1. ASSUME NEW u \in WinWorkers, u # v, wpWorker'[u] = "work" PROVE wpTask'[u][1] # wpTask'[v][1]
        BY <4>1, <3>1, <2>12, <2>14
      <4>. QED BY <4>1, <3>1, <2>10, <2>12, <2>13
    <3>2. CASE v # w
      <4>0. wpTask'[v] = wpTask[v] /\ wpWorker[v] = "work"
        BY <3>2, <2>12, <2>15
      <4>1. ASSUME NEW u \in WinWorkers, u # v, wpWorker'[u] = "work" PROVE wpTask'[u][1] # wpTask'[v][1]
        <5>1. CASE u = w
          BY <5>1, <4>0, <3>2, <2>12, <2>14
        <5>2. CASE u # w
          BY <5>2, <4>0, <4>1, <3>2, <2>12, <2>14
        <5>. QED BY <5>1, <5>2
      <4>. QED BY <4>0, <4>1, <3>2, <2>14
    <3>. QED BY <3>1, <3>2
  <2>16. WpOnce'
    <3>1. \A v \in WinWorkers : wpWorker'[v] = "work" => WpInHand(v)'
      BY <2>0, <2>15 DEF WpInHand
    <3>2. wpFreed' \subseteq 1..wpMade' /\ wpFault' \notin {"empty list", "freed task"}
      BY <2>0, <2>3, <1>i DEF WpOnce
    <3>. QED BY <3>1, <3>2, <2>0, <2>10, <2>11 DEF WpOnce
  <2>. QED BY <2>6, <2>8, <2>16 DEF WpRunInv
<1>11. ASSUME NEW w \in WinWorkers, WpWork(w) PROVE WpRunInv'
  <2>0. /\ wpWorker[w] = "work" /\ wpWorker' = [wpWorker EXCEPT ![w] = "test"]
        /\ wpTask' = [wpTask EXCEPT ![w] = NoJob]
        /\ UNCHANGED <<wpUp, wpOwner, wpSem, wpJobs, wpMade, wpClient, wpLost>>
    BY <1>11 DEF WpWork
  <2>1. WpInHand(w) /\ wpTask[w][1] \notin wpFreed /\ wpTask[w][1] \in 1..wpMade
    BY <2>0, <1>i DEF WpOnce, WpInHand
  <2>2. wpFreed' \in {wpFreed, wpFreed \cup {wpTask[w][1]}} /\ UNCHANGED wpFault
    BY <1>11, <2>1 DEF WpWork
  <2>3. WpCount(wpWorker', "take") = WpCount(wpWorker, "take")
    <3>1. /\ DOMAIN wpWorker' = WinWorkers /\ \A y \in WinWorkers \ {w} : wpWorker'[y] = wpWorker[y]
          /\ wpWorker'[w] = "test"
      BY <2>0, <1>n
    <3>2. DOMAIN wpWorker = WinWorkers
      BY <1>n
    <3>. QED BY <2>0, <1>n, <3>1, <3>2, WorkerMoves
  <2>4. WpCounts'
    BY <2>0, <2>3, <1>i DEF WpCounts
  <2>5. NoJob \in Nat \X WinTypes
    BY DEF NoJob, WinTypes
  <2>6. WpPlaces'
    BY <2>0, <2>5, <1>i DEF WpPlaces
  <2>7. \A v \in WinWorkers : wpWorker'[v] = "work" =>
           v # w /\ wpWorker[v] = "work" /\ wpTask'[v] = wpTask[v]
    BY <2>0, <1>i DEF WpPlaces
  <2>8. \A i \in 1..Len(wpJobs) : wpJobs[i][1] \notin wpFreed'
    <3> TAKE i \in 1..Len(wpJobs)
    <3>1. wpJobs[i][1] \notin wpFreed /\ wpJobs[i][1] # wpTask[w][1]
      BY <2>1, <1>i DEF WpOnce, WpInHand
    <3>. QED BY <3>1, <2>2
  <2>9. wpFreed' \subseteq 1..wpMade
    BY <2>1, <2>2, <1>i DEF WpOnce
  <2>10. ASSUME NEW v \in WinWorkers, wpWorker'[v] = "work"
         PROVE  WpInHand(v)'
    <3>1. v # w /\ wpWorker[v] = "work" /\ wpTask'[v] = wpTask[v]
      BY <2>7, <2>10
    <3>2. WpInHand(v) /\ wpTask[v][1] # wpTask[w][1]
      BY <2>0, <2>1, <3>1, <1>i DEF WpOnce, WpInHand
    <3>3. wpTask'[v][1] \in 1..wpMade' /\ wpTask'[v][1] \notin wpFreed'
      BY <2>0, <2>2, <3>1, <3>2 DEF WpInHand
    <3>4. \A k \in 1..Len(wpJobs') : wpJobs'[k][1] # wpTask'[v][1]
      BY <2>0, <3>1, <3>2 DEF WpInHand
    <3>5. ASSUME NEW u \in WinWorkers, u # v, wpWorker'[u] = "work" PROVE wpTask'[u][1] # wpTask'[v][1]
      <4>1. wpWorker[u] = "work" /\ wpTask'[u] = wpTask[u]
        BY <2>7, <3>5
      <4>. QED BY <3>1, <3>2, <3>5, <4>1 DEF WpInHand
    <3>. QED BY <3>3, <3>4, <3>5 DEF WpInHand
  <2>11. WpOnce'
    <3>1. \A i \in 1..Len(wpJobs') : wpJobs'[i][1] \in 1..wpMade' /\ wpJobs'[i][1] \notin wpFreed'
      BY <2>0, <2>8, <1>i DEF WpOnce
    <3>2. \A i, j \in 1..Len(wpJobs') : i # j => wpJobs'[i][1] # wpJobs'[j][1]
      BY <2>0, <1>i DEF WpOnce
    <3>3. wpFault' \notin {"empty list", "freed task"}
      BY <2>2, <1>i DEF WpOnce
    <3>. QED BY <3>1, <3>2, <3>3, <2>0, <2>9, <2>10 DEF WpOnce
  <2>. QED BY <2>4, <2>6, <2>11 DEF WpRunInv
<1>. QED BY <1>1, <1>2, <1>3, <1>4, <1>5, <1>6, <1>7, <1>8, <1>9, <1>10, <1>11 DEF WpNext

LEMMA WpInvSound == WpInv => WinPermits
  BY DEF WpInv, WpRunInv, WpCounts, WpOnce, WinPermits

\* ThreadPoolImpl_Win32.cpp:39-76: until Stop clears m_tasks, whatever the number of threads
\* and clients and whatever the limit of the semaphore, no thread takes from an empty list
\* or a deleted task, and permits are refused only when more jobs than the limit were made.
THEOREM WinPermitsMatch == WpSpec => []WinPermits
  BY WpInvInit, WpInvNext, WpInvSound, PTL DEF WpSpec

-----------------------------------------------------------------------------
(* The Windows barrier (TaskCtrlImpl_Win32.cpp) *)

\* The workers that have done the round that is on.
WbThrough == {w \in CtrlWorkers : wbDone[w] = wbRounds}

\* Between rounds everybody is through and no unit is left over; within one a worker is
\* at most one round behind, works only in a round it has not done, and every unit, in
\* the semaphore or taken, comes from a worker that is through.
WbInv ==
    /\ wbCoord \in {"idle", "taking"} /\ wbTaken \in Nat /\ wbUnits \in Nat /\ wbRounds \in Nat
    /\ wbWorker \in [CtrlWorkers -> {"busy", "waiting", "working"}]
    /\ wbDone \in [CtrlWorkers -> Int]
    /\ wbOpen = FALSE
    /\ wbCoord = "idle" => /\ wbUnits = 0
                           /\ \A w \in CtrlWorkers : wbDone[w] = wbRounds /\ wbWorker[w] # "working"
    /\ wbCoord = "taking" => /\ wbTaken + wbUnits <= Cardinality(WbThrough)
                             /\ \A w \in CtrlWorkers : wbDone[w] \in {wbRounds - 1, wbRounds}
    /\ \A w \in CtrlWorkers : wbWorker[w] = "working" => wbDone[w] = wbRounds - 1

LEMMA WbInvInit == WbInit => WbInv
  BY DEF WbInit, WbInv

\* All workers are through when as many are as there are workers.
LEMMA WbThroughFinite ==
    IsFiniteSet(WbThrough) /\ Cardinality(WbThrough) \in Nat
      /\ Cardinality(WbThrough) <= Cardinality(CtrlWorkers) /\ Cardinality(CtrlWorkers) \in Nat
      /\ (Cardinality(WbThrough) = Cardinality(CtrlWorkers) => WbThrough = CtrlWorkers)
<1>1. WbThrough \subseteq CtrlWorkers /\ IsFiniteSet(CtrlWorkers)
  BY CtrlWinAssumption DEF WbThrough
<1>. QED BY <1>1, FS_Subset, FS_CardinalityType

LEMMA WbInvNext == WbInv /\ [WbNext]_wbVars => WbInv'
<1> SUFFICES ASSUME WbInv, [WbNext]_wbVars PROVE WbInv'
  OBVIOUS
<1>1. CASE UNCHANGED wbVars
  <2>1. UNCHANGED WbThrough
    BY <1>1 DEF wbVars, WbThrough
  <2>. QED BY <1>1, <2>1 DEF wbVars, WbInv
<1>2. CASE SyncTaskOneTime
  <2>0. wbCoord = "idle" /\ wbCoord' = "taking" /\ wbTaken' = 0 /\ wbRounds' = wbRounds + 1
           /\ UNCHANGED <<wbUnits, wbDone, wbOpen>>
           /\ wbWorker' = [w \in CtrlWorkers |-> IF wbWorker[w] = "waiting" THEN "working" ELSE wbWorker[w]]
    BY <1>2 DEF SyncTaskOneTime, PulseEvent
  <2>1. Cardinality(WbThrough') \in Nat
    <3>1. WbThrough' \subseteq CtrlWorkers
      BY DEF WbThrough
    <3>. QED BY <3>1, CtrlWinAssumption, FS_Subset, FS_CardinalityType
  <2>. QED BY <2>0, <2>1 DEF WbInv
<1>3. CASE WbTake
  <2>0. wbCoord = "taking" /\ wbUnits > 0 /\ wbUnits' = wbUnits - 1 /\ wbTaken' = wbTaken + 1
           /\ wbCoord' = (IF wbTaken' = Cardinality(CtrlWorkers) THEN "idle" ELSE "taking")
           /\ UNCHANGED <<wbWorker, wbOpen, wbRounds, wbDone>>
    BY <1>3 DEF WbTake
  <2>1. UNCHANGED WbThrough
    BY <2>0 DEF WbThrough
  <2>2. wbTaken + wbUnits <= Cardinality(WbThrough)
    BY <2>0 DEF WbInv
  <2>3. CASE wbTaken' = Cardinality(CtrlWorkers)
    <3>1. Cardinality(WbThrough) = Cardinality(CtrlWorkers) /\ wbUnits' = 0
      BY <2>0, <2>2, <2>3, WbThroughFinite DEF WbInv
    <3>2. \A w \in CtrlWorkers : wbDone[w] = wbRounds
      BY <3>1, WbThroughFinite DEF WbThrough
    <3>. QED BY <2>0, <2>3, <3>1, <3>2 DEF WbInv
  <2>4. CASE wbTaken' # Cardinality(CtrlWorkers)
    BY <2>0, <2>1, <2>2, <2>4, WbThroughFinite DEF WbInv
  <2>. QED BY <2>3, <2>4
<1>4. ASSUME NEW w \in CtrlWorkers, WbWaits(w) PROVE WbInv'
  <2>0. wbWorker[w] = "busy" /\ wbWorker' = [wbWorker EXCEPT ![w] = "waiting"]
           /\ UNCHANGED <<wbCoord, wbTaken, wbOpen, wbUnits, wbRounds, wbDone>>
    BY <1>4 DEF WbWaits, WbInv
  <2>1. UNCHANGED WbThrough
    BY <2>0 DEF WbThrough
  <2>. QED BY <2>0, <2>1 DEF WbInv
<1>5. ASSUME NEW w \in CtrlWorkers, WbDone(w) PROVE WbInv'
  <2>0. /\ wbWorker[w] = "working" /\ wbUnits' = (IF wbUnits < UnitLimit THEN wbUnits + 1 ELSE wbUnits)
        /\ wbWorker' = [wbWorker EXCEPT ![w] = "busy"]
        /\ wbDone' = [wbDone EXCEPT ![w] = wbDone[w] + 1]
        /\ UNCHANGED <<wbCoord, wbTaken, wbOpen, wbRounds>>
    BY <1>5 DEF WbDone
  <2>1. wbCoord = "taking" /\ wbDone[w] = wbRounds - 1 /\ wbUnits' <= wbUnits + 1 /\ wbUnits' \in Nat
    BY <2>0, CtrlWinAssumption DEF WbInv
  <2>2. WbThrough' = WbThrough \cup {w} /\ w \notin WbThrough
    BY <2>0, <2>1 DEF WbThrough, WbInv
  <2>3. Cardinality(WbThrough') = Cardinality(WbThrough) + 1
    BY <2>2, WbThroughFinite, FS_AddElement
  <2>4. wbTaken + wbUnits <= Cardinality(WbThrough)
    BY <2>1 DEF WbInv
  <2>5. wbTaken' + wbUnits' <= Cardinality(WbThrough')
    BY <2>0, <2>1, <2>3, <2>4, WbThroughFinite DEF WbInv
  <2>. QED BY <2>0, <2>1, <2>5 DEF WbInv
<1>. QED BY <1>1, <1>2, <1>3, <1>4, <1>5 DEF WbNext

LEMMA WbInvSound == WbInv => WinRound
  BY DEF WbInv, WinRound

\* TaskCtrlImpl_Win32.cpp:20-26: for any set of workers and any limit of the semaphore, a
\* SyncTaskOneTime that returns finds every round done by every worker exactly once.
THEOREM WinRounds == WbSpec => []WinRound
  BY WbInvInit, WbInvNext, WbInvSound, PTL DEF WbSpec

-----------------------------------------------------------------------------
(* Windows services (Service_Win32.cpp) *)

\* Up to the limit the table is the registered services and the mark; past it the part
\* up to the first mark, at place MaxService, is no longer touched.
TableInv ==
    /\ svNames \in Seq(SvNames) /\ svTab \in Seq(SvNames \cup {NoEntry}) /\ svRoom \in Nat
    /\ svNames = <<>> => svTab = <<>> /\ svRoom = MaxService
    /\ svNames # <<>> =>
          /\ svTab # <<>> /\ svTab[Len(svTab)] = NoEntry
          /\ Len(svNames) < MaxService =>
                /\ svRoom = MaxService /\ Len(svTab) = Len(svNames) + 1
                /\ \A i \in 1..Len(svNames) : svTab[i] = svNames[i]
          /\ Len(svNames) >= MaxService =>
                /\ Len(svTab) > MaxService /\ svTab[MaxService] = NoEntry
                /\ \A i \in 1..(MaxService - 1) : svTab[i] = svNames[i]

\* A report that is not the record is about to be replaced: by the main function on its
\* way out or by the handler.  Before the first report nobody else has a say.
ReportInv ==
    /\ svTold # Blank /\ svCtl.at # "handled" /\ svMain # "leaving" => svTold = svRec
    /\ svMain = "entered" => svTold = Blank /\ svCtl = NoCtl /\ svScm.state = "start_pending"
    /\ svScm \in [installed : BOOLEAN, deleted : BOOLEAN,
                  state : {"none", "start_pending", "running", "paused", "stopped"}]
    /\ svRec.state \in {"none", "start_pending", "running", "paused", "stopped"}

\* A call with a handle is somewhere between its first step and its return.
HandleInv ==
    /\ svCaller \in [op : {"none", "Create", "IsInstalled", "Stop", "Delete", "Start"},
                    at : {"none", "manager", "service", "control", "asked", "polling"}]
    /\ svCaller.at = "none" => svHandles = {}

SvInv == TableInv /\ ReportInv /\ HandleInv

LEMMA SvInvInit == SvInit => SvInv
<1> SUFFICES ASSUME SvInit PROVE SvInv
  OBVIOUS
<1>1. TableInv
  BY ServiceAssumption DEF SvInit, TableInv
<1>2. ReportInv
  BY DEF SvInit, ReportInv, Blank, NoCtl
<1>3. HandleInv
  BY DEF SvInit, HandleInv, NoSvCall
<1>. QED BY <1>1, <1>2, <1>3 DEF SvInv

\* One registration.
LEMMA TableStep ==
    ASSUME TableInv, NEW n \in SvNames, RegisterService(n)
    PROVE  TableInv'
<1>1. CASE svRoom = Len(svTab) - 1
  <2>1. UNCHANGED <<svTab, svRoom, svNames>>
    BY <1>1 DEF RegisterService, svTable
  <2>. QED BY <2>1 DEF TableInv
<1>2. CASE svRoom # Len(svTab) - 1
  <2> DEFINE p == Placed(n)
  <2>0. /\ svTab' = Append(p, NoEntry) /\ svNames' = Append(svNames, n)
        /\ svRoom' = IF Len(svTab') > svRoom THEN svRoom + svRoom \div 2 ELSE svRoom
    BY <1>2 DEF RegisterService
  <2>1. /\ svNames \in Seq(SvNames) /\ svTab \in Seq(SvNames \cup {NoEntry}) /\ svRoom \in Nat
        /\ Len(svTab) \in Nat /\ Len(svNames) \in Nat /\ MaxService \in Nat /\ MaxService > 1
    BY ServiceAssumption DEF TableInv
  <2>2. /\ svNames' \in Seq(SvNames) /\ Len(svNames') = Len(svNames) + 1 /\ svNames' # <<>>
        /\ svNames'[Len(svNames) + 1] = n
        /\ \A i \in 1..Len(svNames) : svNames'[i] = svNames[i]
    <3>1. svNames' = Append(svNames, n) /\ n \in SvNames /\ svNames \in Seq(SvNames)
      BY <2>0, <2>1
    <3>2. svNames' \in Seq(SvNames) /\ Len(svNames') = Len(svNames) + 1
      BY <3>1, AppendProperties
    <3>3. svNames' # <<>>
      BY <3>1, AppendProperties
    <3>4. svNames'[Len(svNames) + 1] = n
      BY <3>1, AppendProperties
    <3>5. \A i \in 1..Len(svNames) : svNames'[i] = svNames[i]
      BY <3>1, AppendProperties
    <3>. QED BY <3>2, <3>3, <3>4, <3>5
  <2>3. /\ p \in Seq(SvNames \cup {NoEntry})
        /\ svRoom <= Len(svTab) => p = svTab
        /\ svRoom > Len(svTab) /\ svTab = <<>> => Len(p) = 1 /\ p[1] = n
        /\ svRoom > Len(svTab) /\ svTab # <<>> =>
              /\ Len(p) = Len(svTab) /\ p[Len(svTab)] = n
              /\ \A i \in 1..(Len(svTab) - 1) : p[i] = svTab[i]
    <3>1. CASE svRoom <= Len(svTab)
      <4>1. p = svTab
        <5>1. svTab # <<>>
          BY <3>1, <2>1 DEF TableInv
        <5>. QED BY <5>1, <3>1 DEF Placed
      <4>. QED BY <4>1, <3>1, <2>1
    <3>2. CASE svRoom > Len(svTab) /\ svTab = <<>>
      <4>1. p = <<n>>
        BY <3>2, <2>1 DEF Placed
      <4>. QED BY <4>1, <3>2, <2>1
    <3>3. CASE svRoom > Len(svTab) /\ svTab # <<>>
      <4>1. p = [svTab EXCEPT ![Len(svTab)] = n]
        BY <3>3, <2>1 DEF Placed
      <4>2. Len(svTab) \in 1..Len(svTab)
        BY <3>3, <2>1
      <4>. QED BY <4>1, <4>2, <3>3, <2>1
    <3>. QED BY <3>1, <3>2, <3>3, <2>1
  <2> HIDE DEF p
  <2>4. /\ svTab' \in Seq(SvNames \cup {NoEntry}) /\ Len(svTab') = Len(p) + 1 /\ svTab' # <<>>
        /\ svTab'[Len(p) + 1] = NoEntry /\ \A i \in 1..Len(p) : svTab'[i] = p[i]
        /\ Len(p) \in Nat
    BY <2>0, <2>3
  <2>5. svRoom' \in Nat
    BY <2>0, <2>1, <2>4
  <2>6. CASE svNames = <<>>
    <3>1. svTab = <<>> /\ svRoom = MaxService /\ Len(svTab) = 0 /\ Len(svNames) = 0
      BY <2>6 DEF TableInv
    <3>2. Len(p) = 1 /\ p[1] = n
      BY <3>1, <2>3, <2>1
    <3>3. svRoom' = MaxService
      BY <3>1, <3>2, <2>0, <2>4, <2>1
    <3>. QED BY <3>1, <3>2, <3>3, <2>1, <2>2, <2>4, <2>5 DEF TableInv
  <2>7. CASE svNames # <<>> /\ Len(svNames) < MaxService
    <3>1. /\ svTab # <<>> /\ svTab[Len(svTab)] = NoEntry
          /\ svRoom = MaxService /\ Len(svTab) = Len(svNames) + 1
          /\ \A i \in 1..Len(svNames) : svTab[i] = svNames[i]
      BY <2>7 DEF TableInv
    <3>2. CASE Len(svTab) < MaxService
      <4>1. /\ Len(p) = Len(svTab) /\ p[Len(svTab)] = n
            /\ \A i \in 1..(Len(svTab) - 1) : p[i] = svTab[i]
        BY <3>1, <3>2, <2>3, <2>1
      <4>2. svRoom' = MaxService /\ Len(svTab') = Len(svNames') + 1 /\ Len(svNames') < MaxService
        BY <4>1, <3>1, <3>2, <2>0, <2>1, <2>2, <2>4
      <4>3. \A i \in 1..Len(svNames') : svTab'[i] = svNames'[i]
        BY <4>1, <3>1, <2>1, <2>2, <2>4
      <4>4. svTab'[Len(svTab')] = NoEntry
        BY <2>4
      <4>. QED BY <4>2, <4>3, <4>4, <2>2, <2>4, <2>5, <2>1 DEF TableInv
    <3>3. CASE Len(svTab) >= MaxService
      <4>1. p = svTab /\ Len(svTab) = MaxService
        BY <3>1, <3>3, <2>7, <2>3, <2>1
      <4>2. Len(svTab') > MaxService /\ svTab'[MaxService] = NoEntry /\ Len(svNames') = MaxService
        BY <4>1, <3>1, <2>1, <2>2, <2>4
      <4>3. \A i \in 1..(MaxService - 1) : svTab'[i] = svNames'[i]
        BY <4>1, <3>1, <2>1, <2>2, <2>4
      <4>4. svTab'[Len(svTab')] = NoEntry
        BY <2>4
      <4>. QED BY <4>2, <4>3, <4>4, <2>2, <2>4, <2>5, <2>1 DEF TableInv
    <3>. QED BY <3>2, <3>3, <2>1
  <2>8. CASE svNames # <<>> /\ Len(svNames) >= MaxService
    <3>1. /\ Len(svTab) > MaxService /\ svTab[MaxService] = NoEntry /\ svTab # <<>>
          /\ \A i \in 1..(MaxService - 1) : svTab[i] = svNames[i]
      BY <2>8 DEF TableInv
    <3>2. Len(p) = Len(svTab) /\ \A i \in 1..(Len(svTab) - 1) : p[i] = svTab[i]
      BY <3>1, <2>3, <2>1
    <3>3. Len(svTab') > MaxService /\ svTab'[MaxService] = NoEntry /\ Len(svNames') >= MaxService
      <4>1. MaxService \in 1..(Len(svTab) - 1) /\ MaxService \in 1..Len(p)
        BY <3>1, <3>2, <2>1
      <4>2. svTab'[MaxService] = p[MaxService] /\ p[MaxService] = svTab[MaxService]
        BY <4>1, <3>2, <2>4
      <4>3. Len(svTab') > MaxService /\ Len(svNames') >= MaxService
        BY <3>1, <3>2, <2>8, <2>1, <2>2, <2>4
      <4>. QED BY <4>2, <4>3, <3>1
    <3>4. \A i \in 1..(MaxService - 1) : svTab'[i] = svNames'[i]
      <4> TAKE i \in 1..(MaxService - 1)
      <4>1. svTab[i] = svNames[i] /\ i \in 1..(Len(svTab) - 1) /\ i \in 1..Len(svNames) /\ i \in 1..Len(p)
        BY <3>1, <3>2, <2>8, <2>1
      <4>2. svTab'[i] = p[i] /\ p[i] = svTab[i] /\ svNames'[i] = svNames[i]
        BY <4>1, <3>2, <2>2, <2>4
      <4>. QED BY <4>1, <4>2
    <3>5. svTab'[Len(svTab')] = NoEntry
      BY <2>4
    <3>. QED BY <3>3, <3>4, <3>5, <2>2, <2>4, <2>5, <2>1 DEF TableInv
  <2>. QED BY <2>6, <2>7, <2>8, <2>1
<1>. QED BY <1>1, <1>2

\* Every other step leaves the table alone.
LEMMA TableKept == TableInv /\ UNCHANGED svTable => TableInv'
  BY DEF TableInv, svTable

LEMMA SvInvNext == SvInv /\ [SvNext]_svVars => SvInv'
<1> SUFFICES ASSUME SvInv, [SvNext]_svVars PROVE SvInv'
  OBVIOUS
<1> USE DEF SvInv
<1>1. ASSUME NEW n \in SvNames, RegisterService(n) PROVE SvInv'
  <2>1. TableInv'
    BY <1>1, TableStep
  <2>2. UNCHANGED <<svRec, svTold, svMain, svCtl, svScm, svCaller, svHandles>>
    BY <1>1 DEF RegisterService, svProcess
  <2>. QED BY <2>1, <2>2 DEF ReportInv, HandleInv
<1>2. ASSUME UNCHANGED svTable, UNCHANGED <<svRec, svTold, svMain, svCtl, svScm>>, HandleInv' PROVE SvInv'
  <2>1. ReportInv'
    BY <1>2 DEF ReportInv
  <2>. QED BY <2>1, <1>2, TableKept
<1>3. ASSUME UNCHANGED svTable, UNCHANGED <<svCaller, svHandles>>, ReportInv' PROVE SvInv'
  <2>1. HandleInv'
    BY <1>3 DEF HandleInv
  <2>. QED BY <2>1, <1>3, TableKept
<1>4. ASSUME NEW rec, Tell(rec), rec.state \in {"none", "start_pending", "running", "paused", "stopped"}
      PROVE  /\ svTold' = rec /\ svScm' \in [installed : BOOLEAN, deleted : BOOLEAN,
                                 state : {"none", "start_pending", "running", "paused", "stopped"}]
    BY <1>4 DEF Tell, ReportInv
<1>5. CASE RegisterHandle
  <2>1. svMain = "entered" /\ svMain' = "loop" /\ svTold = Blank /\ UNCHANGED <<svCtl, svCaller, svHandles>>
           /\ UNCHANGED svTable
    BY <1>5 DEF RegisterHandle, ReportInv
  <2>2. CASE svRec' = [state |-> "running", exit |-> 0] /\ Tell(svRec')
    <3>1. svRec'.state = "running"
      BY <2>2
    <3>2. ReportInv'
      BY <2>1, <2>2, <3>1, <1>4 DEF ReportInv
    <3>. QED BY <2>1, <3>2, <1>3
  <2>3. CASE svRec' = [state |-> "start_pending", exit |-> 0] /\ UNCHANGED <<svTold, svScm>>
    <3>1. svRec'.state = "start_pending"
      BY <2>3
    <3>2. ReportInv'
      BY <2>1, <2>3, <3>1 DEF ReportInv
    <3>. QED BY <2>1, <3>2, <1>3
  <2>. QED BY <1>5, <2>2, <2>3 DEF RegisterHandle
<1>6. CASE StopWrite
  <2>1. svRec'.state = "stopped" /\ svMain' = "leaving" /\ UNCHANGED <<svTold, svCtl, svScm, svCaller, svHandles>>
           /\ UNCHANGED svTable
    BY <1>6 DEF StopWrite
  <2>2. ReportInv'
    BY <2>1 DEF ReportInv
  <2>. QED BY <2>1, <2>2, <1>3
<1>7. CASE StopReport
  <2>1. svMain = "leaving" /\ svMain' = "loop" /\ UNCHANGED <<svRec, svCtl, svCaller, svHandles>>
           /\ UNCHANGED svTable
    BY <1>7 DEF StopReport
  <2>2. CASE svTold = Blank /\ UNCHANGED <<svTold, svScm>>
    <3>1. ReportInv'
      BY <2>1, <2>2 DEF ReportInv
    <3>. QED BY <2>1, <3>1, <1>3
  <2>3. CASE Tell(svRec)
    <3>1. svRec.state \in {"none", "start_pending", "running", "paused", "stopped"}
      BY DEF ReportInv
    <3>2. ReportInv'
      BY <2>1, <2>3, <3>1, <1>4 DEF ReportInv
    <3>. QED BY <2>1, <3>2, <1>3
  <2>. QED BY <1>7, <2>2, <2>3 DEF StopReport
<1>8. CASE MainEnds
  <2>1. svMain' = "ended" /\ svMain = "loop" /\ UNCHANGED <<svRec, svTold, svCtl, svScm, svCaller, svHandles>>
           /\ UNCHANGED svTable
    BY <1>8 DEF MainEnds
  <2>2. ReportInv'
    BY <2>1 DEF ReportInv
  <2>. QED BY <2>1, <2>2, <1>3
<1>9. ASSUME NEW ctl \in {"stop", "shutdown", "pause", "continue", "interrogate"}, Send(ctl)
      PROVE  svMain # "entered" /\ svCtl'.at = "sent" /\ svCtl = NoCtl
  BY <1>9 DEF Send, Accepts, ReportInv
<1>10. ASSUME NEW ctl \in {"stop", "shutdown", "pause", "continue", "interrogate"}, ManagerSends(ctl) PROVE SvInv'
  <2>1. Send(ctl) /\ UNCHANGED <<svRec, svTold, svMain, svScm, svCaller, svHandles>> /\ UNCHANGED svTable
    BY <1>10 DEF ManagerSends
  <2>2. svMain # "entered" /\ svCtl'.at = "sent" /\ svCtl = NoCtl
    BY <2>1, <1>9
  <2>3. ReportInv'
    BY <2>1, <2>2 DEF ReportInv, NoCtl
  <2>. QED BY <2>1, <2>3, <1>3
<1>11. CASE Handle
  <2>1. /\ svCtl.at = "sent" /\ svCtl' = [svCtl EXCEPT !.at = "handled"]
        /\ UNCHANGED <<svTold, svMain, svScm, svCaller, svHandles>> /\ UNCHANGED svTable
    BY <1>11 DEF Handle
  <2>2. svMain # "entered"
    BY <2>1 DEF ReportInv, NoCtl
  <2>3. svRec'.state \in {"none", "start_pending", "running", "paused", "stopped"}
    <3>1. \/ svRec' = [state |-> "stopped", exit |-> 0] \/ svRec' = [state |-> "paused", exit |-> 0]
          \/ svRec' = [state |-> "running", exit |-> 0] \/ svRec' = svRec
      BY <1>11 DEF Handle
    <3>. QED BY <3>1 DEF ReportInv
  <2>4. svTold # Blank /\ svCtl'.at # "handled" /\ svMain # "leaving" => svTold = svRec'
    BY <2>1
  <2>5. ReportInv'
    BY <2>1, <2>2, <2>3, <2>4 DEF ReportInv
  <2>. QED BY <2>1, <2>5, <1>3
<1>12. CASE CtrlHandleEx
  <2>1. /\ svCtl.at = "handled" /\ svCtl' = NoCtl /\ Tell(svRec)
        /\ UNCHANGED <<svRec, svMain, svCaller, svHandles>> /\ UNCHANGED svTable
    BY <1>12 DEF CtrlHandleEx
  <2>2. svRec.state \in {"none", "start_pending", "running", "paused", "stopped"} /\ svMain # "entered"
    BY <2>1 DEF ReportInv, NoCtl
  <2>3. ReportInv'
    BY <2>1, <2>2, <1>4 DEF ReportInv
  <2>. QED BY <2>1, <2>3, <1>3
<1>13. Leave => HandleInv'
  BY DEF Leave, HandleInv, NoSvCall
<1>14. ASSUME NEW a, NEW b \in {"service", "control", "asked", "polling"}, Step(a, b) PROVE HandleInv'
  BY <1>14 DEF Step, HandleInv
<1>15. ASSUME NEW op \in {"Create", "IsInstalled", "Stop", "Delete", "Start"}, OpenSCManager(op) PROVE SvInv'
  <2>1. UNCHANGED svTable /\ UNCHANGED <<svRec, svTold, svMain, svCtl, svScm>>
    BY <1>15 DEF OpenSCManager, svProcess
  <2>2. HandleInv'
    BY <1>15 DEF OpenSCManager, HandleInv
  <2>. QED BY <2>1, <2>2, <1>2
<1>16. CASE OpenService \/ Create \/ IsInstalled \/ Query \/ Stop \/ Delete \/ Forget \/ StartPoll
  <2>1. UNCHANGED svTable /\ UNCHANGED <<svRec, svTold, svMain, svCtl>>
    BY <1>16 DEF OpenService, Create, IsInstalled, Query, Stop, Delete, Forget, StartPoll, svProcess
  <2>2. svScm'.state = svScm.state /\ svScm' \in [installed : BOOLEAN, deleted : BOOLEAN,
                  state : {"none", "start_pending", "running", "paused", "stopped"}]
    <3>1. svScm \in [installed : BOOLEAN, deleted : BOOLEAN,
                  state : {"none", "start_pending", "running", "paused", "stopped"}]
      BY DEF ReportInv
    <3>2. \/ svScm' = svScm \/ svScm' = [svScm EXCEPT !.installed = TRUE]
          \/ svScm' = [svScm EXCEPT !.deleted = TRUE]
          \/ svScm' = [svScm EXCEPT !.deleted = FALSE, !.installed = FALSE]
      BY <1>16 DEF OpenService, Create, IsInstalled, Query, Stop, Delete, Forget, StartPoll
    <3>. QED BY <3>1, <3>2
  <2>3. ReportInv'
    BY <2>1, <2>2 DEF ReportInv
  <2>4. CASE OpenService
    <3>1. Step("manager", "service") \/ Leave
      BY <2>4 DEF OpenService
    <3>. QED BY <3>1, <1>13, <1>14, <2>1, <2>3, TableKept
  <2>5. CASE Create \/ IsInstalled \/ Stop \/ Delete \/ StartPoll
    <3>1. Leave
      BY <2>5 DEF Create, IsInstalled, Stop, Delete, StartPoll
    <3>. QED BY <3>1, <1>13, <2>1, <2>3, TableKept
  <2>6. CASE Query
    <3>1. Step("service", "control") \/ Step("service", "asked")
      BY <2>6 DEF Query
    <3>. QED BY <3>1, <1>14, <2>1, <2>3, TableKept
  <2>7. CASE Forget
    <3>1. HandleInv'
      BY <2>7 DEF Forget, HandleInv
    <3>. QED BY <3>1, <2>1, <2>3, TableKept
  <2>. QED BY <1>16, <2>4, <2>5, <2>6, <2>7
<1>17. CASE ControlService
  <2>1. Step("control", "asked") /\ UNCHANGED svTable /\ UNCHANGED <<svRec, svTold, svMain, svScm>>
    BY <1>17 DEF ControlService
  <2>2. HandleInv'
    BY <2>1, <1>14
  <2>3. CASE Send("stop")
    <3>1. svMain # "entered" /\ svCtl'.at = "sent" /\ svCtl = NoCtl
      BY <2>3, <1>9
    <3>2. ReportInv'
      BY <2>1, <3>1 DEF ReportInv, NoCtl
    <3>. QED BY <3>2, <2>1, <2>2, TableKept
  <2>4. CASE UNCHANGED svCtl
    BY <2>1, <2>2, <2>4, <1>2
  <2>. QED BY <1>17, <2>3, <2>4 DEF ControlService
<1>18. CASE Start
  <2>1. CASE /\ svScm' = [svScm EXCEPT !.state = "start_pending"]
             /\ svRec' = Blank /\ svTold' = Blank /\ svMain' = "entered" /\ svCtl' = NoCtl
             /\ Step("service", "polling") /\ UNCHANGED svTable
    <3>1. HandleInv'
      BY <2>1, <1>14
    <3>2. ReportInv'
      BY <2>1 DEF ReportInv, Blank
    <3>. QED BY <3>1, <3>2, <2>1, TableKept
  <2>2. CASE Leave /\ UNCHANGED <<svScm, svRec, svTold, svMain, svCtl>> /\ UNCHANGED svTable
    BY <2>2, <1>13, <1>2
  <2>. QED BY <1>18, <2>1, <2>2 DEF Start
<1>19. CASE UNCHANGED svVars
  <2>1. UNCHANGED svTable /\ UNCHANGED <<svRec, svTold, svMain, svCtl, svScm>> /\ UNCHANGED <<svCaller, svHandles>>
    BY <1>19 DEF svVars, svTable
  <2>2. HandleInv'
    BY <2>1 DEF HandleInv
  <2>. QED BY <2>1, <2>2, <1>2
<1>. QED BY <1>1, <1>5, <1>6, <1>7, <1>8, <1>10, <1>11, <1>12, <1>15, <1>16, <1>17, <1>18, <1>19 DEF SvNext

\* The first mark of the table stands behind the services that fit.
LEMMA SvInvSound == SvInv => TableSound /\ ReportedLast /\ HandlesGiven
<1> SUFFICES ASSUME SvInv PROVE TableSound /\ ReportedLast /\ HandlesGiven
  OBVIOUS
<1>1. ReportedLast
  BY DEF SvInv, ReportInv, ReportedLast, NoCtl
<1>2. HandlesGiven
  BY DEF SvInv, HandleInv, HandlesGiven, NoSvCall
<1>3. ASSUME svTab # <<>>
      PROVE  /\ Last(svTab) = NoEntry
             /\ LET end == CHOOSE k \in DOMAIN svTab :
                          svTab[k] = NoEntry /\ \A j \in 1..k-1 : svTab[j] # NoEntry
                    n == IF Len(svNames) < MaxService THEN Len(svNames) ELSE MaxService - 1
                IN SubSeq(svTab, 1, end - 1) = SubSeq(svNames, 1, n)
  <2>1. svNames \in Seq(SvNames) /\ svTab \in Seq(SvNames \cup {NoEntry})
           /\ NoEntry \notin SvNames /\ MaxService \in Nat /\ MaxService > 1
           /\ Len(svTab) \in Nat /\ Len(svNames) \in Nat /\ DOMAIN svTab = 1..Len(svTab)
    BY ServiceAssumption DEF SvInv, TableInv
  <2>2. svNames # <<>> /\ svTab[Len(svTab)] = NoEntry
    BY <1>3 DEF SvInv, TableInv
  <2>3. Last(svTab) = NoEntry
    BY <2>2 DEF Last
  <2> DEFINE n == IF Len(svNames) < MaxService THEN Len(svNames) ELSE MaxService - 1
             P(k) == svTab[k] = NoEntry /\ \A j \in 1..k-1 : svTab[j] # NoEntry
             end == CHOOSE k \in DOMAIN svTab : P(k)
  <2>4. /\ n \in Nat /\ n <= Len(svNames) /\ n + 1 <= Len(svTab) /\ svTab[n + 1] = NoEntry
        /\ \A i \in 1..n : svTab[i] = svNames[i]
    <3>1. CASE Len(svNames) < MaxService
      BY <3>1, <2>1, <2>2 DEF SvInv, TableInv
    <3>2. CASE Len(svNames) >= MaxService
      <4>1. /\ Len(svTab) > MaxService /\ svTab[MaxService] = NoEntry
            /\ \A i \in 1..(MaxService - 1) : svTab[i] = svNames[i]
        BY <3>2, <2>2 DEF SvInv, TableInv
      <4>2. n = MaxService - 1 /\ n + 1 = MaxService
        BY <3>2, <2>1
      <4>. QED BY <4>1, <4>2, <3>2, <2>1
    <3>. QED BY <3>1, <3>2, <2>1
  <2> HIDE DEF n
  <2>5. \A i \in 1..n : svTab[i] # NoEntry
    <3> TAKE i \in 1..n
    <3>1. svNames[i] \in SvNames
      BY <2>1, <2>4
    <3>. QED BY <3>1, <2>1, <2>4
  <2>6. n + 1 \in DOMAIN svTab /\ P(n + 1)
    BY <2>1, <2>4, <2>5
  <2>7. ASSUME NEW k \in DOMAIN svTab, P(k) PROVE k = n + 1
    BY <2>7, <2>1, <2>4, <2>5
  <2>8. end = n + 1
    BY <2>6, <2>7
  <2>9. SubSeq(svTab, 1, n) = SubSeq(svNames, 1, n)
    BY <2>1, <2>4
  <2>10. SubSeq(svTab, 1, end - 1) = SubSeq(svNames, 1, n)
    <3> HIDE DEF end
    <3>1. end - 1 = n
      BY <2>8, <2>4
    <3>. QED BY <3>1, <2>9
  <2>. QED BY <2>3, <2>10 DEF n
<1>4. TableSound
  BY <1>3 DEF TableSound
<1>. QED BY <1>1, <1>2, <1>4

\* Service_Win32.cpp:22-45,132,144-307,315: for any names and any limit above one, the table
\* handed to the dispatcher holds the services that fit in front of its mark, the last
\* report is the record, and no call returns with a handle.
THEOREM ServicesSound == SvSpec => [](TableSound /\ ReportedLast /\ HandlesGiven)
  BY SvInvInit, SvInvNext, SvInvSound, PTL DEF SvSpec

-----------------------------------------------------------------------------
(* The Windows timers (TimerMgrImpl_Win32.cpp) *)

\* Every name has a timer of its own; the deleted ones are no longer in the map, and the
\* entry DelTimer is at work on is still there.
TqInv ==
    /\ tqMade \in Nat /\ tqMap \in [TimerNames -> 0..tqMade] /\ tqFreed \subseteq 1..tqMade
    /\ \A n \in TimerNames : tqMap[n] \notin tqFreed
    /\ \A m, n \in TimerNames : tqMap[m] # 0 /\ tqMap[m] = tqMap[n] => m = n
    /\ tqPc \in TimerNames => tqMap[tqPc] # 0
    /\ \A k \in 1..MaxWinTimers : <<k, "begins">> \notin tqLate

LEMMA TqInvInit == TqInit => TqInv
  BY TimerQueueAssumption DEF TqInit, TqInv

LEMMA TqInvNext == TqInv /\ [TqNext]_tqVars => TqInv'
<1> SUFFICES ASSUME TqInv, [TqNext]_tqVars PROVE TqInv'
  OBVIOUS
<1> USE TimerQueueAssumption
<1>1. CASE UNCHANGED tqVars
  BY <1>1 DEF tqVars, TqInv
<1>2. ASSUME NEW n \in TimerNames, TqAddTimer(n) PROVE TqInv'
  <2>1. /\ tqPc = "none" /\ tqMap[n] = 0 /\ tqMade' = tqMade + 1
        /\ tqMap' = [tqMap EXCEPT ![n] = tqMade + 1] /\ UNCHANGED <<tqFreed, tqPc, tqLate>>
    BY <1>2 DEF TqAddTimer
  <2>. QED BY <2>1 DEF TqInv
<1>3. ASSUME NEW n \in TimerNames, TqDelTimer(n) PROVE TqInv'
  <2>1. tqMap[n] # 0 /\ tqPc' = n /\ UNCHANGED <<tqMap, tqMade, tqLate, tqFreed>>
    BY <1>3 DEF TqDelTimer, TqFirst
  <2>. QED BY <2>1 DEF TqInv
<1>4. ASSUME NEW n \in TimerNames, TqDelTimerEnds(n) PROVE TqInv'
  <2>1. /\ tqPc = n /\ tqFreed' = tqFreed \cup {tqMap[n]} /\ tqMap' = [tqMap EXCEPT ![n] = 0]
        /\ tqPc' = "none" /\ UNCHANGED <<tqMade, tqLate>>
    BY <1>4 DEF TqDelTimerEnds, TqSecond
  <2>2. tqMap[n] # 0 /\ tqMap[n] \in 1..tqMade /\ tqFreed \subseteq 1..tqMade /\ tqMade \in Nat
    BY <2>1 DEF TqInv
  <2>3. \A m \in TimerNames : tqMap'[m] \notin tqFreed'
    <3> TAKE m \in TimerNames
    <3>1. CASE m = n
      <4>1. tqMap'[m] = 0
        BY <3>1, <2>1 DEF TqInv
      <4>2. 0 \notin tqFreed'
        BY <2>1, <2>2
      <4>. QED BY <4>1, <4>2
    <3>2. CASE m # n
      BY <3>2, <2>1, <2>2 DEF TqInv
    <3>. QED BY <3>1, <3>2
  <2>4. /\ tqMap' \in [TimerNames -> 0..tqMade'] /\ tqFreed' \subseteq 1..tqMade'
        /\ tqMade' \in Nat /\ tqPc' \notin TimerNames
    <3>1. tqMap \in [TimerNames -> 0..tqMade] /\ n \in TimerNames
      BY DEF TqInv
    <3>2. tqMap' \in [TimerNames -> 0..tqMade]
      BY <3>1, <2>1, <2>2
    <3>3. tqFreed' \subseteq 1..tqMade
      BY <2>1, <2>2
    <3>. QED BY <3>2, <3>3, <2>1, <2>2
  <2>5. \A m, l \in TimerNames : tqMap'[m] # 0 /\ tqMap'[m] = tqMap'[l] => m = l
    BY <2>1 DEF TqInv
  <2>. QED BY <2>1, <2>3, <2>4, <2>5 DEF TqInv
<1>5. ASSUME NEW n \in TimerNames, TimerRoutine(n) PROVE TqInv'
  <2>1. tqMap[n] \notin tqFreed
    BY DEF TqInv
  <2>2. UNCHANGED <<tqMap, tqMade, tqFreed, tqPc, tqLate>>
    BY <1>5, <2>1 DEF TimerRoutine
  <2>. QED BY <2>2 DEF TqInv
<1>6. ASSUME NEW k \in tqBusy, TimerRoutineEnds(k) PROVE TqInv'
  <2>1. tqLate' \subseteq tqLate \cup {<<k, "ends">>} /\ UNCHANGED <<tqMap, tqMade, tqFreed, tqPc>>
    BY <1>6 DEF TimerRoutineEnds
  <2>2. \A l \in 1..MaxWinTimers : <<l, "begins">> \notin tqLate'
    BY <2>1 DEF TqInv
  <2>. QED BY <2>1, <2>2 DEF TqInv
<1>. QED BY <1>1, <1>2, <1>3, <1>4, <1>5, <1>6 DEF TqNext

LEMMA TqInvSound == TqInv => NoLateStart
  BY DEF TqInv, NoLateStart

\* TimerMgrImpl_Win32.cpp:38-48: with any number of timers, no callback begins with a timer
\* that DelTimer has deleted.
THEOREM LateStartNever == TqSpec => []NoLateStart
  BY TqInvInit, TqInvNext, TqInvSound, PTL DEF TqSpec

-----------------------------------------------------------------------------
(* The signal-driven timers (MsTimerMgrImpl_Linux.cpp) *)

\* The place of the handler at which it raises the semaphore of kind k.
PostPlace(k) == IF k = "once" THEN "postOnce" ELSE "postRepeat"
\* The semaphore of kind k is up, or a handler with the flag raised is about to raise it.
Coming(k) == msSem[k] > 0 \/ (msFlag[k] /\ \E t \in MsAll : msH[t] = PostPlace(k))

\* A timer that is due is announced, and a handler that still has to announce it carries
\* the flag; so does one that found a repeat timer while its thread was at work.
MsRunInv ==
    /\ \A k \in Kinds : msDue[k] => Coming(k) \/ msIn[k] \in {"woken", "once", "read"}
    /\ msFresh /\ msIn["repeat"] = "read" => Coming("repeat")

MsInv ==
    /\ msIn \in [MsAll -> {"out", "woken", "once", "read", "write"}]
    /\ msH \in [MsAll -> {"none", "lockOnce", "postOnce", "lockRepeat", "postRepeat"}]
    /\ msFlag \in [Kinds -> BOOLEAN] /\ msDue \in [Kinds -> BOOLEAN] /\ msSem \in [Kinds -> Nat]
    /\ msArmed \in [Kinds -> Nat] /\ msFresh \in BOOLEAN /\ msOverlap \in BOOLEAN
    /\ msIn["repeat"] # "once" /\ msIn["once"] # "read"
    /\ ~msOverlap => MsRunInv

LEMMA MsInvInit == MsInit => MsInv
<1> SUFFICES ASSUME MsInit PROVE MsInv
  OBVIOUS
<1>1. /\ "once" \in MsAll /\ "repeat" \in MsAll
  BY DEF MsAll, Kinds
<1>2. MsRunInv
  BY DEF MsInit, MsRunInv
<1>. QED BY <1>1, <1>2 DEF MsInit, MsInv

LEMMA MsInvNext == MsInv /\ [MsNext]_msVars => MsInv'
<1> SUFFICES ASSUME MsInv, [MsNext]_msVars PROVE MsInv'
  OBVIOUS
<1>k. /\ Kinds \subseteq MsAll /\ MsApps \subseteq MsAll /\ "once" \in Kinds /\ "repeat" \in Kinds
      /\ "once" \notin MsApps /\ "repeat" \notin MsApps /\ \A k \in Kinds : k = "once" \/ k = "repeat"
  BY MsAssumption DEF MsAll, Kinds
<1>1. CASE UNCHANGED msVars
  BY <1>1 DEF msVars, MsInv, MsRunInv, Coming
<1>2. CASE MsStart
  BY <1>2 DEF MsStart, MsInv, MsRunInv, Coming
<1>3. ASSUME NEW t \in MsApps, NEW lock \in {"once", "write"}, Enter(t, lock) PROVE MsInv'
  <2>1. msIn' = [msIn EXCEPT ![t] = lock] /\ UNCHANGED <<msH, msFlag, msSem, msArmed, msDue, msFresh, msOverlap>>
    BY <1>3 DEF Enter
  <2>2. \A k \in Kinds : msIn'[k] = msIn[k]
    BY <2>1, <1>k DEF MsInv
  <2>3. \A k \in Kinds : Coming(k)' = Coming(k)
    BY <2>1 DEF Coming
  <2>4. ~msOverlap' => MsRunInv'
    BY <2>1, <2>2, <2>3, <1>k DEF MsInv, MsRunInv
  <2>. QED BY <2>1, <2>2, <2>4, <1>k DEF MsInv
<1>4. ASSUME NEW t \in MsApps, MsLeave(t) PROVE MsInv'
  <2>1. /\ msIn' = [msIn EXCEPT ![t] = "out"]
        /\ UNCHANGED <<msH, msFlag, msSem, msFresh, msOverlap>>
    BY <1>4 DEF MsLeave
  <2>2. PICK k \in {"once", "repeat"} :
          \/ msArmed' = [msArmed EXCEPT ![k] = @ + 1] /\ UNCHANGED msDue
          \/ msArmed[k] > 0 /\ msArmed' = [msArmed EXCEPT ![k] = @ - 1] /\ UNCHANGED msDue
          \/ msDue' \in {msDue, [msDue EXCEPT ![k] = FALSE]} /\ UNCHANGED msArmed
          \/ UNCHANGED <<msArmed, msDue>>
    BY <1>4 DEF MsLeave
  <2>3. msArmed' \in [Kinds -> Nat] /\ msDue' \in [Kinds -> BOOLEAN] /\ \A l \in Kinds : msDue'[l] => msDue[l]
    <3>1. /\ msArmed \in [Kinds -> Nat] /\ msDue \in [Kinds -> BOOLEAN] /\ k \in Kinds
      BY <1>k DEF MsInv
    <3>2. CASE msArmed' = [msArmed EXCEPT ![k] = @ + 1] /\ UNCHANGED msDue
      BY <3>1, <3>2
    <3>3. CASE msArmed[k] > 0 /\ msArmed' = [msArmed EXCEPT ![k] = @ - 1] /\ UNCHANGED msDue
      BY <3>1, <3>3
    <3>4. CASE msDue' \in {msDue, [msDue EXCEPT ![k] = FALSE]} /\ UNCHANGED msArmed
      BY <3>1, <3>4
    <3>5. CASE UNCHANGED <<msArmed, msDue>>
      BY <3>1, <3>5
    <3>. QED BY <2>2, <3>2, <3>3, <3>4, <3>5
  <2>4. \A l \in Kinds : msIn'[l] = msIn[l]
    BY <2>1, <1>k DEF MsInv
  <2>5. \A l \in Kinds : Coming(l)' = Coming(l)
    BY <2>1 DEF Coming
  <2>6. ~msOverlap' => MsRunInv'
    BY <2>1, <2>3, <2>4, <2>5, <1>k DEF MsInv, MsRunInv
  <2>. QED BY <2>1, <2>3, <2>4, <2>6, <1>k DEF MsInv
<1>5. ASSUME NEW t \in MsApps, MsStop(t) PROVE MsInv'
  BY <1>5 DEF MsStop, MsInv, MsRunInv, Coming
<1>6. ASSUME NEW t \in MsAll, SigHandle(t) PROVE MsInv'
  <2>1. /\ msOverlap' = (msOverlap \/ \E u \in MsAll : msH[u] # "none")
        /\ msFlag' = [k \in Kinds |-> FALSE] /\ msH' = [msH EXCEPT ![t] = "lockOnce"]
        /\ UNCHANGED <<msIn, msSem, msArmed, msDue, msFresh>>
    BY <1>6 DEF SigHandle
  <2>2. ASSUME ~msOverlap' PROVE MsRunInv'
    <3>1. ~msOverlap /\ \A u \in MsAll : msH[u] = "none"
      BY <2>1, <2>2
    <3>2. \A k \in Kinds : Coming(k) => Coming(k)'
      <4> SUFFICES ASSUME NEW k \in Kinds, Coming(k) PROVE Coming(k)'
        OBVIOUS
      <4>1. ~ \E u \in MsAll : msH[u] = PostPlace(k)
        BY <3>1 DEF PostPlace
      <4>. QED BY <4>1, <2>1 DEF Coming
    <3>3. MsRunInv
      BY <3>1 DEF MsInv
    <3>. QED BY <3>2, <3>3, <2>1, <1>k DEF MsRunInv
  <2>. QED BY <2>1, <2>2 DEF MsInv
<1>7. ASSUME NEW t \in MsAll, NEW k \in Kinds, Scan(k), msH' = [msH EXCEPT ![t] = PostPlace(k)],
             msH[t] \in {"lockOnce", "lockRepeat"}, UNCHANGED <<msIn, msSem, msOverlap>>
      PROVE  MsInv'
  <2>1. PICK n \in 0..msArmed[k] :
           /\ msArmed' = [msArmed EXCEPT ![k] = @ - n]
           /\ msDue' = [msDue EXCEPT ![k] = @ \/ n > 0]
           /\ msFlag' = [msFlag EXCEPT ![k] = @ \/ n > 0]
           /\ msFresh' = (msFresh \/ (k = "repeat" /\ n > 0 /\ msIn["repeat"] = "read"))
    BY <1>7 DEF Scan
  <2>2. /\ msArmed' \in [Kinds -> Nat] /\ msDue' \in [Kinds -> BOOLEAN] /\ msFlag' \in [Kinds -> BOOLEAN]
        /\ msFresh' \in BOOLEAN
    BY <2>1 DEF MsInv
  <2>3. msH' \in [MsAll -> {"none", "lockOnce", "postOnce", "lockRepeat", "postRepeat"}] /\ msH'[t] = PostPlace(k)
    BY <1>7 DEF MsInv, PostPlace
  <2>4. \A l \in Kinds : msFlag[l] => msFlag'[l]
    BY <2>1 DEF MsInv
  <2>5. \A l \in Kinds : Coming(l) => Coming(l)'
    <3> SUFFICES ASSUME NEW l \in Kinds, Coming(l) PROVE Coming(l)'
      OBVIOUS
    <3>1. CASE msSem[l] > 0
      BY <3>1, <1>7 DEF Coming
    <3>2. CASE msFlag[l] /\ \E u \in MsAll : msH[u] = PostPlace(l)
      <4>1. PICK u \in MsAll : msH[u] = PostPlace(l)
        BY <3>2
      <4>2. u # t
        BY <4>1, <1>7 DEF PostPlace
      <4>3. msH'[u] = PostPlace(l)
        BY <4>1, <4>2, <1>7 DEF MsInv
      <4>. QED BY <4>3, <3>2, <2>4 DEF Coming
    <3>. QED BY <3>1, <3>2 DEF Coming
  <2>6. msDue'[k] /\ ~msDue[k] => msFlag'[k]
    BY <2>1 DEF MsInv
  <2>7. \A l \in Kinds : l # k => msDue'[l] = msDue[l]
    BY <2>1 DEF MsInv
  <2>8. msFlag'[k] => Coming(k)'
    BY <2>3 DEF Coming
  <2>9. ASSUME ~msOverlap' PROVE MsRunInv'
    <3>1. MsRunInv
      BY <2>9, <1>7 DEF MsInv
    <3>2. ASSUME NEW l \in Kinds, msDue'[l] PROVE Coming(l)' \/ msIn'[l] \in {"woken", "once", "read"}
      <4>1. CASE msDue[l]
        BY <4>1, <3>1, <2>5, <1>7 DEF MsRunInv
      <4>2. CASE ~msDue[l]
        BY <4>2, <3>2, <2>6, <2>7, <2>8
      <4>. QED BY <4>1, <4>2
    <3>3. ASSUME msFresh', msIn'["repeat"] = "read" PROVE Coming("repeat")'
      <4>1. CASE msFresh
        BY <4>1, <3>1, <3>3, <2>5, <1>7, <1>k DEF MsRunInv
      <4>2. CASE ~msFresh
        <5>1. k = "repeat" /\ n > 0
          BY <4>2, <3>3, <2>1
        <5>2. msFlag'[k]
          BY <5>1, <2>1 DEF MsInv
        <5>. QED BY <5>1, <5>2, <2>8
      <4>. QED BY <4>1, <4>2
    <3>. QED BY <3>2, <3>3 DEF MsRunInv
  <2>. QED BY <2>2, <2>3, <2>9, <1>7 DEF MsInv
<1>8. ASSUME NEW t \in MsAll, NEW k \in Kinds, msSem' = [msSem EXCEPT ![k] = IF msFlag[k] THEN @ + 1 ELSE @],
             NEW p \in {"none", "lockRepeat"}, msH' = [msH EXCEPT ![t] = p], msH[t] = PostPlace(k),
             UNCHANGED <<msIn, msFlag, msArmed, msDue, msFresh, msOverlap>>
      PROVE  MsInv'
  <2>1. msSem' \in [Kinds -> Nat] /\ \A l \in Kinds : msSem[l] > 0 => msSem'[l] > 0
    BY <1>8 DEF MsInv
  <2>2. msFlag[k] => msSem'[k] > 0
    BY <1>8 DEF MsInv
  <2>3. \A l \in Kinds : Coming(l) => Coming(l)'
    <3> SUFFICES ASSUME NEW l \in Kinds, Coming(l) PROVE Coming(l)'
      OBVIOUS
    <3>1. CASE msSem[l] > 0
      BY <3>1, <2>1 DEF Coming
    <3>2. CASE msFlag[l] /\ \E u \in MsAll : msH[u] = PostPlace(l)
      <4>1. PICK u \in MsAll : msH[u] = PostPlace(l)
        BY <3>2
      <4>2. CASE l = k
        BY <4>2, <3>2, <2>2 DEF Coming
      <4>3. CASE l # k
        <5>1. u # t
          BY <4>1, <4>3, <1>8, <1>k DEF PostPlace
        <5>2. msH'[u] = PostPlace(l)
          BY <5>1, <4>1, <1>8 DEF MsInv
        <5>. QED BY <5>2, <3>2, <1>8 DEF Coming
      <4>. QED BY <4>2, <4>3
    <3>. QED BY <3>1, <3>2 DEF Coming
  <2>4. ~msOverlap' => MsRunInv'
    BY <2>3, <1>8, <1>k DEF MsInv, MsRunInv
  <2>. QED BY <2>1, <2>4, <1>8 DEF MsInv
<1>9. ASSUME NEW t \in MsAll, HandleOnce(t) PROVE MsInv'
  BY <1>9, <1>7, <1>k DEF HandleOnce, PostPlace
<1>10. ASSUME NEW t \in MsAll, HandleOncePost(t) PROVE MsInv'
  BY <1>10, <1>8, <1>k DEF HandleOncePost, PostPlace, Post, Raised
<1>11. ASSUME NEW t \in MsAll, HandleRepeat(t) PROVE MsInv'
  <2>1. CASE UNCHANGED <<msIn, msH, msFlag, msSem, msArmed, msDue, msFresh, msOverlap>>
    BY <2>1 DEF MsInv, MsRunInv, Coming
  <2>2. CASE Scan("repeat") /\ msH' = [msH EXCEPT ![t] = "postRepeat"] /\ UNCHANGED <<msIn, msSem, msOverlap>>
    BY <1>11, <2>2, <1>7, <1>k DEF HandleRepeat, PostPlace
  <2>. QED BY <1>11, <2>1, <2>2 DEF HandleRepeat
<1>12. ASSUME NEW t \in MsAll, HandleRepeatPost(t) PROVE MsInv'
  BY <1>12, <1>8, <1>k DEF HandleRepeatPost, PostPlace, Post, Raised
<1>13. ASSUME NEW k \in Kinds, WakeUp(k) PROVE MsInv'
  <2>1. /\ msIn[k] = "out" /\ msSem[k] > 0 /\ msSem' = [msSem EXCEPT ![k] = @ - 1]
        /\ msIn' = [msIn EXCEPT ![k] = "woken"]
        /\ UNCHANGED <<msH, msFlag, msArmed, msDue, msFresh, msOverlap>>
    BY <1>13 DEF WakeUp
  <2>2. msSem' \in [Kinds -> Nat] /\ msIn'[k] = "woken" /\ \A l \in Kinds : l # k => msIn'[l] = msIn[l] /\ msSem'[l] = msSem[l]
    BY <2>1, <1>k DEF MsInv
  <2>3. \A l \in Kinds : l # k => Coming(l)' = Coming(l)
    BY <2>1, <2>2 DEF Coming
  <2>4. ~msOverlap' => MsRunInv'
    BY <2>1, <2>2, <2>3, <1>k DEF MsInv, MsRunInv
  <2>5. msIn' \in [MsAll -> {"out", "woken", "once", "read", "write"}]
    BY <2>1, <1>k DEF MsInv
  <2>. QED BY <2>1, <2>2, <2>4, <2>5, <1>k DEF MsInv
<1>14. ASSUME NEW k \in Kinds, DealEnter(k) PROVE MsInv'
  <2>1. /\ msIn' = [msIn EXCEPT ![k] = IF k = "once" THEN "once" ELSE "read"]
        /\ msFresh' = (msFresh /\ k = "once")
        /\ UNCHANGED <<msH, msFlag, msSem, msArmed, msDue, msOverlap>>
    BY <1>14 DEF DealEnter
  <2>2. msIn'[k] = (IF k = "once" THEN "once" ELSE "read") /\ \A l \in Kinds : l # k => msIn'[l] = msIn[l]
    BY <2>1, <1>k DEF MsInv
  <2>3. \A l \in Kinds : Coming(l)' = Coming(l)
    BY <2>1 DEF Coming
  <2>4. ~msOverlap' => MsRunInv'
    BY <2>1, <2>2, <2>3, <1>k DEF MsInv, MsRunInv
  <2>5. msIn' \in [MsAll -> {"out", "woken", "once", "read", "write"}] /\ msFresh' \in BOOLEAN
    BY <2>1, <1>k DEF MsInv
  <2>. QED BY <2>1, <2>2, <2>4, <2>5, <1>k DEF MsInv
<1>15. ASSUME NEW k \in Kinds, DealLeave(k) PROVE MsInv'
  <2>1. /\ msIn[k] \in {"once", "read"} /\ msIn' = [msIn EXCEPT ![k] = "out"]
        /\ UNCHANGED <<msH, msFlag, msSem, msFresh, msOverlap>>
    BY <1>15 DEF DealLeave
  <2>2. PICK missed \in BOOLEAN : msDue' = [msDue EXCEPT ![k] = missed] /\ (missed => k = "repeat" /\ msFresh)
    BY <1>15 DEF DealLeave
  <2>3. msArmed' \in [Kinds -> Nat]
    BY <1>15 DEF DealLeave, MsInv
  <2>4. msDue' \in [Kinds -> BOOLEAN] /\ msDue'[k] = missed /\ \A l \in Kinds : l # k => msDue'[l] = msDue[l]
    BY <2>2 DEF MsInv
  <2>5. msIn'[k] = "out" /\ \A l \in Kinds : l # k => msIn'[l] = msIn[l]
    BY <2>1, <1>k DEF MsInv
  <2>6. \A l \in Kinds : Coming(l)' = Coming(l)
    BY <2>1 DEF Coming
  <2>7. ASSUME ~msOverlap' PROVE MsRunInv'
    <3>1. MsRunInv
      BY <2>7, <2>1 DEF MsInv
    <3>2. missed => Coming(k)
      BY <2>1, <2>2, <3>1 DEF MsRunInv, MsInv
    <3>. QED BY <3>1, <3>2, <2>1, <2>4, <2>5, <2>6, <1>k DEF MsRunInv
  <2>8. msIn' \in [MsAll -> {"out", "woken", "once", "read", "write"}]
    BY <2>1, <1>k DEF MsInv
  <2>. QED BY <2>1, <2>3, <2>4, <2>5, <2>7, <2>8, <1>k DEF MsInv
<1>. QED BY <1>1, <1>2, <1>3, <1>4, <1>5, <1>6, <1>9, <1>10, <1>11, <1>12, <1>13, <1>14, <1>15 DEF MsNext

LEMMA MsInvSound == MsInv => MsAnnounced
  BY DEF MsInv, MsRunInv, MsAnnounced, Announced, Coming, PostPlace, Kinds

\* MsTimerMgrImpl_Linux.cpp:156-191: whichever threads the signals interrupt, a timer that
\* is due is on the way to its thread as long as no handler interrupts another.
THEOREM MsAnnouncedAlways == MsSpec => []MsAnnounced
  BY MsInvInit, MsInvNext, MsInvSound, PTL DEF MsSpec

-----------------------------------------------------------------------------
(* The pool of connections (DBConnPool.cpp) *)

\* What the drivers have in common: a handle is not there from the start, and one that
\* is made somewhere is closed by the destructor.
LEMMA Drivers ==
    ASSUME cpDriver \in DOMAIN Driver
    PROVE  /\ D.start \in {"unset", "null"} /\ D.makes \in {"init", "connect", "never"}
           /\ D.destroys = FALSE => D.makes = "never" /\ D.start = "null" /\ D.disconnects = FALSE
           /\ D.destroys \in BOOLEAN /\ D.disconnects \in BOOLEAN
           /\ D.fails \subseteq {"lib", "init", "connect"}
<1>1. \/ D = MysqlDriver \/ D = AdoDriver \/ D = Stub
  BY DEF D, Driver, OracleDriver, OdbcDriver, PostgreDriver, SqliteDriver, MangoDriver
<1>2. CASE D = MysqlDriver
  BY <1>2 DEF MysqlDriver
<1>3. CASE D = AdoDriver
  BY <1>3 DEF AdoDriver
<1>4. CASE D = Stub
  BY <1>4 DEF Stub
<1>. QED BY <1>1, <1>2, <1>3, <1>4

\* FreeSlots is searched from the front.
LEMMA LowestIn ==
    ASSUME NEW S \in SUBSET Nat, S # {}
    PROVE  Lowest(S) \in S
  BY LeastIn DEF Lowest

\* The built slots are 1..n; a handle that is there, and a slot in use, belong to a caller.
CpInv ==
    /\ cpDriver \in DOMAIN Driver
    /\ cpObj \in [ConnSlots -> {"none", "built", "used", "destroyed"}]
    /\ cpHandle \in [ConnSlots -> {"unset", "null", "made", "open"}]
    /\ cpFlag \in [ConnSlots -> {0, 1}] /\ cpHeld \subseteq ConnSlots
    /\ cpUp = "new" => cpHeld = {} /\ \A s \in ConnSlots : cpObj[s] = "none"
    /\ \E n \in Nat : Built = 1..n
    /\ cpFault = "none" =>
          /\ \A s \in ConnSlots : cpHandle[s] \in {"made", "open"} => s \in cpHeld /\ D.destroys
          /\ \A s \in cpHeld : cpObj[s] = "used" /\ cpFlag[s] = 1

LEMMA CpInvInit == CpInit => CpInv
<1> SUFFICES ASSUME CpInit PROVE CpInv
  OBVIOUS
<1>1. Built = 1..0
  BY DEF CpInit, Built
<1>. QED BY <1>1 DEF CpInit, CpInv

LEMMA CpInvNext == CpInv /\ [CpNext]_cpVars => CpInv'
<1> SUFFICES ASSUME CpInv, [CpNext]_cpVars PROVE CpInv'
  OBVIOUS
<1>d. /\ D.start \in {"unset", "null"} /\ D.makes \in {"init", "connect", "never"}
      /\ D.destroys = FALSE => D.makes = "never" /\ D.start = "null" /\ D.disconnects = FALSE
      /\ D.destroys \in BOOLEAN /\ D.disconnects \in BOOLEAN
      /\ D.fails \subseteq {"lib", "init", "connect"}
  BY Drivers DEF CpInv
<1>u. UNCHANGED cpDriver /\ D' = D
  BY DEF D, CpNext, cpVars, AddSupportDBengine, DeleteSupportDBengine, CpStart, CpGrow, GetNewConnect,
         DestroyPool, ReleaseConn, BeginTrans, CommitTrans, GetDBAccessProxy, ReleaseDBAccessProxy, OnHeld
<1>h. ASSUME UNCHANGED <<cpObj, cpHandle, cpFlag, cpHeld>>, cpFault' = "none" => cpFault = "none",
             cpUp' = "new" => cpUp = "new"
      PROVE  CpInv'
  <2>1. Built' = Built
    BY <1>h DEF Built
  <2>. QED BY <1>h, <2>1, <1>u DEF CpInv
<1>1. CASE UNCHANGED cpVars
  BY <1>1, <1>h DEF cpVars
<1>2. CASE AddSupportDBengine \/ DeleteSupportDBengine
  BY <1>2, <1>h DEF AddSupportDBengine, DeleteSupportDBengine
<1>3. ASSUME NEW s \in ConnSlots,
             BeginTrans(s) \/ CommitTrans(s) \/ GetDBAccessProxy(s) \/ ReleaseDBAccessProxy(s)
      PROVE  CpInv'
  BY <1>3, <1>h DEF BeginTrans, CommitTrans, GetDBAccessProxy, ReleaseDBAccessProxy, OnHeld, CpRuns
<1>4. ASSUME NEW S, Build(S), UNCHANGED <<cpFlag, cpHeld, cpFault>>, cpUp' # "new", S \cap cpHeld = {},
             \E n \in Nat : Built \cup S = 1..n, S \subseteq ConnSlots
      PROVE  CpInv'
  <2>1. /\ cpObj' = [s \in ConnSlots |-> IF s \in S THEN "built" ELSE cpObj[s]]
        /\ cpHandle' = [s \in ConnSlots |-> IF s \in S THEN D.start ELSE cpHandle[s]]
    BY <1>4 DEF Build
  <2>2. cpObj' \in [ConnSlots -> {"none", "built", "used", "destroyed"}]
    BY <2>1 DEF CpInv
  <2>3. cpHandle' \in [ConnSlots -> {"unset", "null", "made", "open"}]
    BY <2>1, <1>d DEF CpInv
  <2>4. Built' = Built \cup S
    BY <2>1, <1>4 DEF Built
  <2>5. ASSUME cpFault' = "none"
        PROVE  /\ \A s \in ConnSlots : cpHandle'[s] \in {"made", "open"} => s \in cpHeld' /\ D'.destroys
               /\ \A s \in cpHeld' : cpObj'[s] = "used" /\ cpFlag'[s] = 1
    <3>1. \A s \in ConnSlots : cpHandle'[s] \in {"made", "open"} => s \in cpHeld' /\ D'.destroys
      BY <2>1, <2>5, <1>4, <1>d, <1>u DEF CpInv
    <3>2. \A s \in cpHeld' : cpObj'[s] = "used" /\ cpFlag'[s] = 1
      <4> SUFFICES ASSUME NEW s \in cpHeld PROVE cpObj'[s] = "used" /\ cpFlag'[s] = 1
        BY <1>4
      <4>1. s \in ConnSlots /\ s \notin S /\ cpObj[s] = "used" /\ cpFlag[s] = 1
        BY <2>5, <1>4 DEF CpInv
      <4>. QED BY <4>1, <2>1, <1>4
    <3>. QED BY <3>1, <3>2
  <2>. QED BY <2>2, <2>3, <2>4, <2>5, <1>4, <1>u DEF CpInv
<1>5. CASE CpStart
  <2>1. cpUp = "new" /\ cpUp' # "new" /\ UNCHANGED <<cpFlag, cpHeld, cpFault>>
    BY <1>5 DEF CpStart
  <2>2. CASE Build(1..ConnSize)
    <3>1. Built = {} /\ cpHeld = {}
      BY <2>1 DEF CpInv, Built
    <3>2. 1..ConnSize \subseteq ConnSlots /\ ConnSize \in Nat
      BY ConnPoolAssumption
    <3>. QED BY <3>1, <3>2, <2>1, <2>2, <1>4
  <2>3. CASE UNCHANGED <<cpObj, cpHandle>>
    BY <2>1, <2>3, <1>h
  <2>. QED BY <1>5, <2>2, <2>3 DEF CpStart
<1>6. CASE CpGrow
  <2>1. PICK n \in Nat : Built = 1..n
    BY DEF CpInv
  <2>2. Cardinality(Built) = n
    BY <2>1, FS_Interval
  <2>3. /\ CpRuns /\ 2 * n \in ConnSlots /\ Build((n + 1)..(2 * n))
        /\ UNCHANGED <<cpUp, cpFlag, cpHeld, cpFault>>
    BY <1>6, <2>2 DEF CpGrow
  <2>4. (n + 1)..(2 * n) \subseteq ConnSlots
    <3>1. 1..(2 * n) \subseteq ConnSlots
      BY <2>3, ConnPoolAssumption
    <3>2. (n + 1)..(2 * n) \subseteq 1..(2 * n)
      OBVIOUS
    <3>. QED BY <3>1, <3>2
  <2>5. cpHeld \subseteq 1..n
    BY <2>1, <2>3 DEF CpInv, CpRuns, Built
  <2>6. ((n + 1)..(2 * n)) \cap cpHeld = {}
    BY <2>5
  <2>7. Built \cup ((n + 1)..(2 * n)) = 1..(2 * n) /\ 2 * n \in Nat
    BY <2>1
  <2>8. cpUp' # "new"
    BY <2>3 DEF CpRuns
  <2>. QED BY <2>3, <2>4, <2>6, <2>7, <2>8, <1>4
<1>7. CASE GetNewConnect
  <2>1. /\ cpUp = "up" /\ cpFault = "none" /\ FreeSlots # {} /\ UNCHANGED cpUp
    BY <1>7 DEF GetNewConnect, CpRuns
  <2> DEFINE s == Lowest(FreeSlots)
  <2>2. s \in ConnSlots /\ cpObj[s] # "none" /\ cpFlag[s] = 0
    <3>1. FreeSlots \in SUBSET Nat
      BY ConnPoolAssumption DEF FreeSlots, Built
    <3>2. s \in FreeSlots
      BY <3>1, <2>1, LowestIn
    <3>. QED BY <3>2 DEF FreeSlots, Built
  <2> HIDE DEF s
  <2>3. s \notin cpHeld
    BY <2>1, <2>2 DEF CpInv
  <2>4. PICK f \in {"proxies", "ok"} \cup (D.fails \ {"lib"}) :
        IF cpObj[s] = "destroyed"
          THEN Broken("destroyed object") /\ UNCHANGED <<cpFlag, cpHeld>>
        ELSE IF f = "ok"
          THEN /\ cpObj' = [cpObj EXCEPT ![s] = "used"]
               /\ cpHandle' = [cpHandle EXCEPT ![s] = HandleAt(@, f)]
               /\ cpFlag' = [cpFlag EXCEPT ![s] = 1]
               /\ cpHeld' = cpHeld \cup {s} /\ UNCHANGED cpFault
        ELSE /\ IF CloseFaults(HandleAt(cpHandle[s], f)) THEN Broken("handle never set")
                ELSE /\ cpObj' = [cpObj EXCEPT ![s] = "destroyed"]
                     /\ cpHandle' = [cpHandle EXCEPT ![s] = Destroyed(HandleAt(@, f))]
                     /\ UNCHANGED cpFault
             /\ UNCHANGED <<cpFlag, cpHeld>>
    BY <1>7 DEF GetNewConnect, s
  <2>5. CASE (cpFault' = "destroyed object" \/ cpFault' = "handle never set")
               /\ UNCHANGED <<cpObj, cpHandle, cpFlag, cpHeld>>
    BY <2>5, <2>1, <1>h
  <2>h. /\ HandleAt(cpHandle[s], f) \in {"unset", "null", "made", "open"}
        /\ ~D.destroys => HandleAt(cpHandle[s], f) = cpHandle[s]
    <3>1. cpHandle[s] \in {"unset", "null", "made", "open"} /\ f \in {"proxies", "ok", "init", "connect"}
      BY <2>2, <1>d DEF CpInv
    <3>. QED BY <3>1, <1>d DEF HandleAt
  <2>6. ASSUME NEW o \in {"used", "destroyed"}, NEW h \in {"unset", "null", "made", "open"},
               cpObj' = [cpObj EXCEPT ![s] = o], cpHandle' = [cpHandle EXCEPT ![s] = h],
               cpFlag' \in [ConnSlots -> {0, 1}], cpHeld' \subseteq cpHeld \cup {s}, cpHeld \subseteq cpHeld',
               \A r \in ConnSlots : r # s => cpFlag'[r] = cpFlag[r],
               s \in cpHeld' => o = "used" /\ cpFlag'[s] = 1,
               h \in {"made", "open"} => s \in cpHeld' /\ D.destroys
        PROVE  CpInv'
    <3>1. cpObj' \in [ConnSlots -> {"none", "built", "used", "destroyed"}]
      BY <2>6 DEF CpInv
    <3>2. cpHandle' \in [ConnSlots -> {"unset", "null", "made", "open"}]
      BY <2>6 DEF CpInv
    <3>3. Built' = Built
      BY <2>6, <2>2 DEF Built, CpInv
    <3>4. cpHeld' \subseteq ConnSlots /\ cpUp' # "new"
      BY <2>6, <2>1, <2>2 DEF CpInv
    <3>5. \A r \in ConnSlots : cpHandle'[r] \in {"made", "open"} => r \in cpHeld' /\ D'.destroys
      BY <2>6, <2>1, <2>2, <1>u DEF CpInv
    <3>6. \A r \in cpHeld' : cpObj'[r] = "used" /\ cpFlag'[r] = 1
      <4> SUFFICES ASSUME NEW r \in cpHeld' PROVE cpObj'[r] = "used" /\ cpFlag'[r] = 1
        OBVIOUS
      <4>1. CASE r = s
        BY <4>1, <2>6, <2>2 DEF CpInv
      <4>2. CASE r # s
        <5>1. r \in cpHeld /\ r \in ConnSlots
          BY <4>2, <2>6 DEF CpInv
        <5>2. cpObj[r] = "used" /\ cpFlag[r] = 1
          BY <5>1, <2>1 DEF CpInv
        <5>3. cpObj'[r] = cpObj[r] /\ cpFlag'[r] = cpFlag[r]
          BY <5>1, <4>2, <2>6 DEF CpInv
        <5>. QED BY <5>2, <5>3
      <4>. QED BY <4>1, <4>2
    <3>. QED BY <3>1, <3>2, <3>3, <3>4, <3>5, <3>6, <2>6, <1>u DEF CpInv
  <2>7. CASE /\ f = "ok" /\ cpObj' = [cpObj EXCEPT ![s] = "used"]
             /\ cpHandle' = [cpHandle EXCEPT ![s] = HandleAt(cpHandle[s], f)]
             /\ cpFlag' = [cpFlag EXCEPT ![s] = 1] /\ cpHeld' = cpHeld \cup {s}
    <3>1. PICK h \in {"unset", "null", "made", "open"} : h = HandleAt(cpHandle[s], f)
      BY <2>h
    <3>2. h \in {"made", "open"} => D.destroys
      <4>1. ~D.destroys => h = cpHandle[s]
        BY <3>1, <2>h
      <4>2. cpHandle[s] \in {"made", "open"} => D.destroys
        BY <2>1, <2>2 DEF CpInv
      <4>. QED BY <4>1, <4>2
    <3>3. cpFlag' \in [ConnSlots -> {0, 1}] /\ cpFlag'[s] = 1 /\ \A r \in ConnSlots : r # s => cpFlag'[r] = cpFlag[r]
      BY <2>7, <2>2 DEF CpInv
    <3>4. cpHandle' = [cpHandle EXCEPT ![s] = h]
      BY <2>7, <3>1
    <3>. QED BY <3>2, <3>3, <3>4, <2>7, <2>6
  <2>8. CASE /\ cpObj' = [cpObj EXCEPT ![s] = "destroyed"]
             /\ cpHandle' = [cpHandle EXCEPT ![s] = Destroyed(HandleAt(cpHandle[s], f))]
             /\ UNCHANGED <<cpFlag, cpHeld>>
    <3>1. PICK h \in {"unset", "null", "made", "open"} : h = Destroyed(HandleAt(cpHandle[s], f))
      BY <2>h DEF Destroyed
    <3>2. h \notin {"made", "open"}
      <4>1. CASE D.destroys
        BY <4>1, <3>1 DEF Destroyed
      <4>2. CASE ~D.destroys
        <5>1. h = cpHandle[s]
          BY <4>2, <3>1, <2>h DEF Destroyed
        <5>. QED BY <5>1, <4>2, <2>1, <2>2 DEF CpInv
      <4>. QED BY <4>1, <4>2
    <3>3. cpFlag' \in [ConnSlots -> {0, 1}] /\ \A r \in ConnSlots : r # s => cpFlag'[r] = cpFlag[r]
      BY <2>8 DEF CpInv
    <3>4. cpHandle' = [cpHandle EXCEPT ![s] = h]
      BY <2>8, <3>1
    <3>. QED BY <3>2, <3>3, <3>4, <2>8, <2>3, <2>6
  <2>. QED BY <2>4, <2>5, <2>7, <2>8 DEF Broken
<1>8. ASSUME NEW s \in ConnSlots, ReleaseConn(s) PROVE CpInv'
  <2>1. /\ cpUp = "up" /\ cpFault = "none" /\ s \in cpHeld /\ UNCHANGED cpUp
        /\ cpFlag' = [cpFlag EXCEPT ![s] = 0] /\ cpHeld' = cpHeld \ {s}
    BY <1>8 DEF ReleaseConn, CpRuns
  <2>t. cpFlag' \in [ConnSlots -> {0, 1}] /\ cpHeld' \subseteq ConnSlots
          /\ \A r \in ConnSlots : r # s => cpFlag'[r] = cpFlag[r]
    BY <2>1 DEF CpInv
  <2>2. CASE cpFault' = "destroyed object" /\ UNCHANGED <<cpObj, cpHandle>>
    <3>1. Built' = Built
      BY <2>2 DEF Built
    <3>. QED BY <2>1, <2>t, <2>2, <3>1, <1>u DEF CpInv
  <2>3. CASE /\ cpObj' = [cpObj EXCEPT ![s] = "destroyed"] /\ cpFault' = cpFault
             /\ cpHandle' = [cpHandle EXCEPT ![s] = Destroyed(Disconnected(cpHandle[s]))]
    <3>1. cpHandle[s] \in {"unset", "null", "made", "open"}
      BY DEF CpInv
    <3>2. Destroyed(Disconnected(cpHandle[s])) \in {"unset", "null"}
      <4>1. CASE D.destroys
        BY <4>1 DEF Destroyed
      <4>2. CASE ~D.destroys
        <5>1. Destroyed(Disconnected(cpHandle[s])) = cpHandle[s]
          BY <4>2, <1>d DEF Destroyed, Disconnected
        <5>. QED BY <5>1, <4>2, <3>1, <2>1 DEF CpInv
      <4>. QED BY <4>1, <4>2
    <3>3. cpHandle' \in [ConnSlots -> {"unset", "null", "made", "open"}]
             /\ \A r \in ConnSlots : cpHandle'[r] \in {"made", "open"} => r # s /\ cpHandle[r] \in {"made", "open"}
      BY <2>3, <3>2 DEF CpInv
    <3>4. cpObj' \in [ConnSlots -> {"none", "built", "used", "destroyed"}]
             /\ \A r \in ConnSlots : r # s => cpObj'[r] = cpObj[r]
      BY <2>3 DEF CpInv
    <3>5. Built' = Built
      <4>1. cpObj[s] # "none"
        BY <2>1 DEF CpInv
      <4>. QED BY <4>1, <2>3 DEF Built, CpInv
    <3>6. \A r \in ConnSlots : cpHandle'[r] \in {"made", "open"} => r \in cpHeld' /\ D'.destroys
      BY <3>3, <2>1, <1>u DEF CpInv
    <3>7. \A r \in cpHeld' : cpObj'[r] = "used" /\ cpFlag'[r] = 1
      BY <3>4, <2>1, <2>t DEF CpInv
    <3>. QED BY <2>1, <2>t, <3>3, <3>4, <3>5, <3>6, <3>7, <1>u DEF CpInv
  <2>. QED BY <1>8, <2>2, <2>3 DEF ReleaseConn, Broken
<1>9. CASE DestroyPool
  <2>1. cpFault = "none" /\ cpUp' = "down" /\ cpHeld' = {} /\ UNCHANGED cpFlag
    BY <1>9 DEF DestroyPool
  <2>2. CASE cpFault' # "none" /\ UNCHANGED <<cpObj, cpHandle>>
    <3>1. Built' = Built
      BY <2>2 DEF Built
    <3>. QED BY <2>1, <2>2, <3>1, <1>u DEF CpInv
  <2>3. CASE /\ cpObj' = [s \in ConnSlots |-> "none"]
             /\ cpHandle' = [s \in ConnSlots |-> Destroyed(cpHandle[s])]
    <3>1. Built' = 1..0
      BY <2>3 DEF Built
    <3>2. ASSUME NEW s \in ConnSlots PROVE Destroyed(cpHandle[s]) \in {"unset", "null"}
      <4>1. CASE D.destroys
        BY <4>1 DEF Destroyed
      <4>2. CASE ~D.destroys
        <5>1. Destroyed(cpHandle[s]) = cpHandle[s] /\ cpHandle[s] \in {"unset", "null", "made", "open"}
          BY <4>2 DEF Destroyed, CpInv
        <5>. QED BY <5>1, <4>2, <2>1 DEF CpInv
      <4>. QED BY <4>1, <4>2
    <3>3. cpHandle' \in [ConnSlots -> {"unset", "null"}]
      BY <2>3, <3>2
    <3>. QED BY <2>1, <2>3, <3>1, <3>3, <1>u DEF CpInv
  <2>. QED BY <1>9, <2>2, <2>3 DEF DestroyPool, Broken
<1>. QED BY <1>1, <1>2, <1>3, <1>5, <1>6, <1>7, <1>8, <1>9 DEF CpNext

LEMMA CpInvSound == CpInv => ConnsClosed
  BY DEF CpInv, ConnsClosed

\* DBConnPool.cpp:48-67: for any driver and any size of the pool, a handle of the client
\* library that is still open belongs to a caller, and each connection to one caller.
THEOREM ConnsClosedAlways == CpSpec => []ConnsClosed
  BY CpInvInit, CpInvNext, CpInvSound, PTL DEF CpSpec

-----------------------------------------------------------------------------
(* The database call (MysqlAccess.cpp, AdoAccess.cpp) *)

\* What a call holds at each of its places.
AcInv ==
    /\ acPc \in {"idle", "init", "prepare", "bind", "execute", "result", "fetch"}
    /\ acLive \subseteq {"bind", "stmt", "meta", "out"}
    /\ acDriver # "mysql" => acLive \subseteq {"bind"}
    /\ acPc = "init" => acLive \subseteq {"bind"}
    /\ acPc \in {"prepare", "bind"} => acLive \subseteq {"bind", "stmt"} /\ "stmt" \in acLive
    /\ acPc \in {"prepare", "bind", "execute", "result", "fetch"} => acOp = "queryArgs"
    /\ StatementsClosed

LEMMA AcInvInit == AcInit => AcInv
  BY DEF AcInit, AcInv, StatementsClosed

\* AcLeave ends the call with nothing but the array of bound arguments.
LEMMA AcLeaves ==
    ASSUME AcInv, NEW ret, AcLeave(ret), acOp' = acOp, acDriver' = acDriver, acOp = "queryArgs",
           acPc \in {"prepare", "bind"} \/ FreesOutput(ret)
    PROVE  AcInv'
<1>1. acPc' = "idle" /\ acLive' \subseteq {"bind"}
  <2>1. CASE FreesOutput(ret)
    BY <2>1 DEF AcLeave, AcReturn, AcInv
  <2>2. CASE ~FreesOutput(ret)
    BY <2>2 DEF AcLeave, AcReturn, AcInv
  <2>. QED BY <2>1, <2>2
<1>. QED BY <1>1 DEF AcInv, StatementsClosed

LEMMA AcInvNext == AcInv /\ [AcNext]_acVars => AcInv'
<1> SUFFICES ASSUME AcInv, [AcNext]_acVars PROVE AcInv'
  OBVIOUS
<1>1. CASE UNCHANGED acVars
  <2>1. UNCHANGED <<acPc, acLive, acDriver, acOp, acFault, acRet>>
    BY <1>1 DEF acVars, acInput
  <2>. QED BY <2>1 DEF AcInv, StatementsClosed
<1>2. ASSUME acPc' = "idle", acLive' \subseteq {"bind"} PROVE AcInv'
  BY <1>2 DEF AcInv, StatementsClosed
<1>3. CASE MysqlExecute \/ MysqlQuery \/ AdoExecute \/ AdoQuery
  BY <1>3, <1>2 DEF MysqlExecute, MysqlQuery, AdoExecute, AdoQuery, Plain, AcReturn, AcBreak
<1>4. ASSUME NEW op \in {"executeArgs", "queryArgs"}, NEW sql, NEW types, Begin(op, sql, types) PROVE AcInv'
  <2>1. acLive' \subseteq {"bind"} /\ acPc' \in {"idle", "init"}
    BY <1>4 DEF Begin, AcBreak
  <2>. QED BY <2>1 DEF AcInv, StatementsClosed
<1>5. CASE ExecuteSteps
  <2>1. acDriver = "mysql" /\ acOp = "executeArgs" /\ acPc = "init" /\ UNCHANGED <<acDriver, acOp>>
    BY <1>5 DEF ExecuteSteps, AcStep, acInput
  <2>2. acLive \subseteq {"bind"}
    BY <2>1 DEF AcInv
  <2>3. CASE acLive' = acLive /\ AcBreak("null")
    BY <2>2, <2>3, <1>2 DEF AcBreak
  <2>4. CASE acLive' = acLive \cup {"stmt"} /\ AcReturn(1)
    BY <2>1, <2>2, <2>4 DEF AcReturn, AcInv, StatementsClosed
  <2>5. CASE acLive' = acLive \cup {"stmt"} /\ AcBreak("overrun")
    BY <2>1, <2>2, <2>5 DEF AcBreak, AcInv, StatementsClosed
  <2>6. CASE acLive' = acLive \ {"bind"} /\ AcReturn(0)
    BY <2>2, <2>6, <1>2 DEF AcReturn
  <2>. QED BY <1>5, <2>3, <2>4, <2>5, <2>6 DEF ExecuteSteps
<1>6. ASSUME NEW p \in {"prepare", "bind", "execute", "result", "fetch"}, AcStep("queryArgs", p)
      PROVE  acDriver = "mysql" /\ acOp = "queryArgs" /\ acPc = p /\ UNCHANGED <<acDriver, acOp>>
  BY <1>6 DEF AcStep, acInput
<1>7. CASE StmtInit
  <2>1. acDriver = "mysql" /\ acOp = "queryArgs" /\ acPc = "init" /\ UNCHANGED <<acDriver, acOp>>
    BY <1>7 DEF StmtInit, AcStep, acInput
  <2>2. acLive \subseteq {"bind"}
    BY <2>1 DEF AcInv
  <2>3. CASE acLive' = acLive \cup {"stmt"} /\ Go("prepare")
    BY <2>1, <2>2, <2>3 DEF Go, AcInv, StatementsClosed
  <2>4. CASE UNCHANGED acLive /\ AcReturn(-4)
    BY <2>2, <2>4, <1>2 DEF AcReturn
  <2>. QED BY <1>7, <2>3, <2>4 DEF StmtInit
<1>8. CASE Prepare
  <2>1. acDriver = "mysql" /\ acOp = "queryArgs" /\ acPc = "prepare" /\ UNCHANGED <<acDriver, acOp>>
    BY <1>8, <1>6 DEF Prepare
  <2>2. CASE UNCHANGED acLive /\ Go("bind")
    BY <2>1, <2>2 DEF Go, AcInv, StatementsClosed
  <2>3. CASE AcLeave(1)
    BY <2>1, <2>3, AcLeaves
  <2>. QED BY <1>8, <2>2, <2>3 DEF Prepare
<1>9. CASE BindParam
  <2>1. acDriver = "mysql" /\ acOp = "queryArgs" /\ acPc = "bind" /\ UNCHANGED <<acDriver, acOp>>
    BY <1>9, <1>6 DEF BindParam
  <2>2. CASE AcBreak("overrun") /\ UNCHANGED acLive
    BY <2>1, <2>2 DEF AcBreak, AcInv, StatementsClosed
  <2>3. CASE AcLeave(2)
    BY <2>1, <2>3, AcLeaves
  <2>4. CASE AcLeave(3)
    BY <2>1, <2>4, AcLeaves
  <2>5. CASE acLive' = acLive \cup {"meta", "out"} /\ Go("execute")
    <3>1. "stmt" \in acLive
      BY <2>1 DEF AcInv
    <3>. QED BY <2>1, <2>5, <3>1 DEF Go, AcInv, StatementsClosed
  <2>. QED BY <1>9, <2>2, <2>3, <2>4, <2>5 DEF BindParam
<1>10. CASE ExecuteStmt
  <2>1. acDriver = "mysql" /\ acOp = "queryArgs" /\ acPc = "execute" /\ UNCHANGED <<acDriver, acOp>>
    BY <1>10, <1>6 DEF ExecuteStmt
  <2>2. CASE AcLeave(4)
    BY <2>1, <2>2, AcLeaves DEF FreesOutput
  <2>3. CASE UNCHANGED acLive /\ Go("result")
    BY <2>1, <2>3 DEF Go, AcInv, StatementsClosed
  <2>. QED BY <1>10, <2>2, <2>3 DEF ExecuteStmt
<1>11. CASE BindResult
  <2>1. acDriver = "mysql" /\ acOp = "queryArgs" /\ acPc = "result" /\ UNCHANGED <<acDriver, acOp>>
    BY <1>11, <1>6 DEF BindResult
  <2>2. CASE AcBreak("overrun") /\ UNCHANGED acLive
    BY <2>1, <2>2 DEF AcBreak, AcInv, StatementsClosed
  <2>3. CASE AcLeave(5)
    BY <2>1, <2>3, AcLeaves DEF FreesOutput
  <2>4. CASE AcLeave(6)
    BY <2>1, <2>4, AcLeaves DEF FreesOutput
  <2>5. CASE UNCHANGED acLive /\ Go("fetch")
    BY <2>1, <2>5 DEF Go, AcInv, StatementsClosed
  <2>. QED BY <1>11, <2>2, <2>3, <2>4, <2>5 DEF BindResult
<1>12. CASE Fetch
  <2>1. acDriver = "mysql" /\ acOp = "queryArgs" /\ acPc = "fetch" /\ UNCHANGED <<acDriver, acOp>>
    BY <1>12, <1>6 DEF Fetch
  <2>2. CASE UNCHANGED <<acPc, acLive, acRet, acFault>>
    BY <2>1, <2>2 DEF AcInv, StatementsClosed
  <2>3. CASE AcLeave(7)
    BY <2>1, <2>3, AcLeaves DEF FreesOutput
  <2>4. CASE AcLeave(0)
    BY <2>1, <2>4, AcLeaves DEF FreesOutput
  <2>. QED BY <1>12, <2>2, <2>3, <2>4 DEF Fetch
<1>13. CASE AdoExecuteArgs \/ AdoQueryArgs \/ AdoFetch
  <2>1. acDriver = "ado" /\ UNCHANGED <<acDriver, acOp, acLive>>
    BY <1>13 DEF AdoExecuteArgs, AdoQueryArgs, AdoFetch, AdoStep, acInput
  <2>2. acPc' = "idle" \/ (acPc' = "fetch" /\ acOp = "queryArgs")
    <3>1. CASE AdoExecuteArgs
      BY <3>1 DEF AdoExecuteArgs, AcReturn, AcBreak
    <3>2. CASE AdoQueryArgs
      BY <3>2 DEF AdoQueryArgs, AdoStep, AcReturn, Go
    <3>3. CASE AdoFetch
      BY <3>3 DEF AdoFetch, AdoStep, AcReturn
    <3>. QED BY <1>13, <3>1, <3>2, <3>3
  <2>3. acLive' \subseteq {"bind"}
    BY <2>1 DEF AcInv
  <2>. QED BY <2>1, <2>2, <2>3 DEF AcInv, StatementsClosed
<1>. QED BY <1>1, <1>3, <1>4, <1>5, <1>7, <1>8, <1>9, <1>10, <1>11, <1>12, <1>13
         DEF AcNext, ExecuteArgs, QueryArgs

LEMMA AcInvSound == AcInv => StatementsClosed
  BY DEF AcInv

\* MysqlAccess.cpp:49-118,197-402: on every way out of a call, for any text and arguments,
\* the statement, its metadata and the output arrays are given back, up to the known leaks.
THEOREM StatementsClosedAlways == AcSpec => []StatementsClosed
  BY AcInvInit, AcInvNext, AcInvSound, PTL DEF AcSpec

-----------------------------------------------------------------------------
(* One component in each behaviour *)

\* MCSystem as a whole: what every component's own steps keep.
WinInv == WpInv /\ WbInv /\ SvInv
LateInv == TqInv /\ MsInv
DbInv == CpInv /\ AcInv

LEMMA SystemInit == MCInit => WinInv /\ LateInv /\ DbInv
  BY WpInvInit, WbInvInit, SvInvInit, TqInvInit, MsInvInit, CpInvInit, AcInvInit
     DEF MCInit, WinInv, LateInv, DbInv

\* A step of the system is a step of each component, or leaves it alone.
LEMMA SystemSteps ==
    [MCNext]_<<acVars, cpVars, trVars, msVars, tqVars, wpVars, wbVars, tiVars, svVars, part>>
      => /\ [WpNext]_wpVars /\ [WbNext]_wbVars /\ [SvNext]_svVars /\ [TqNext]_tqVars
         /\ [MsNext]_msVars /\ [CpNext]_cpVars /\ [AcNext]_acVars
  BY DEF MCNext, Call, Conns, Tree, Signal, Queue, WinPool, WinCtrl, Clock, WinServices

\* Thread pool, barrier and services of the Windows builds: permits match the jobs until
\* Stop, a round that ends has been done by everybody exactly once, and a service's
\* table, reports and handles are in order.
THEOREM WinCorrect == MCSpec => []WinSound
<1>1. WinInv /\ [MCNext]_<<acVars, cpVars, trVars, msVars, tqVars, wpVars, wbVars, tiVars, svVars, part>> => WinInv'
  BY SystemSteps, WpInvNext, WbInvNext, SvInvNext DEF WinInv
<1>2. WinInv => WinSound
  BY WpInvSound, WbInvSound, SvInvSound DEF WinInv, WinSound
<1>. QED BY <1>1, <1>2, SystemInit, PTL DEF MCSpec

\* The timer managers that are not the default one: a due timer is announced as long as
\* no two handlers overlap, and a deleted one is never started.
THEOREM TimersCorrect == MCSpec => []TimersSound
<1>1. LateInv /\ [MCNext]_<<acVars, cpVars, trVars, msVars, tqVars, wpVars, wbVars, tiVars, svVars, part>> => LateInv'
  BY SystemSteps, TqInvNext, MsInvNext DEF LateInv
<1>2. LateInv => TimersSound
  BY TqInvSound, MsInvSound DEF LateInv, TimersSound
<1>. QED BY <1>1, <1>2, SystemInit, PTL DEF MCSpec

\* The drivers give back what the client library handed out: the statement, metadata and
\* output arrays of a call, and every handle that no caller holds any more.
THEOREM DatabaseCorrect == MCSpec => []DatabaseClosed
<1>1. DbInv /\ [MCNext]_<<acVars, cpVars, trVars, msVars, tqVars, wpVars, wbVars, tiVars, svVars, part>> => DbInv'
  BY SystemSteps, CpInvNext, AcInvNext DEF DbInv
<1>2. DbInv => DatabaseClosed
  BY CpInvSound, AcInvSound DEF DbInv, DatabaseClosed
<1>. QED BY <1>1, <1>2, SystemInit, PTL DEF MCSpec
=============================================================================
