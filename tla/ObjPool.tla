------------------------------- MODULE ObjPool -------------------------------
(***************************************************************************)
(* The object pool template Mem/ObjPool.h: a vector of slots, each with an *)
(* object and a flag that says whether it is handed out.  Threads allocate *)
(* runs of neighbouring slots and free them by the address of the first    *)
(* object; the vector doubles when no run fits.  Objects are numbers, 0 is *)
(* NULL; deleted numbers are not used again.                               *)
(***************************************************************************)
EXTENDS Integers, Sequences, FiniteSets

CONSTANTS
    Threads,
    InitSize,   \* Init(size)
    MaxN,       \* bound: the largest n of Alloc(n)
    MaxCap,     \* bound: the pool is not asked to grow past this capacity
    MaxResets,  \* bound: ClearPool and RetryInitObj calls
    UseLock,    \* the template parameter bUseLock
    Width,      \* m_nMax is an unsigned short: 2^16 in the code
    Nobody      \* m_lock is not held

ASSUME ConstantAssumption ==
    /\ InitSize \in Nat \ {0} /\ MaxN \in Nat \ {0} /\ MaxCap \in Nat
    /\ MaxResets \in Nat /\ UseLock \in BOOLEAN /\ Width \in Nat \ {0}
    /\ IsFiniteSet(Threads) /\ Nobody \notin Threads

VARIABLES
    nMax,       \* m_nMax
    flags,      \* nFlag of each slot
    objs,       \* pData of each slot
    born,       \* number of objects InitObj has made
    dead,       \* the objects Destroy has deleted
    lock,       \* the holder of m_lock
    pc, req,    \* where each thread is in Alloc, and its n
    idx,        \* nIndex, the slot it decided on
    held,       \* the allocations each thread holds: <<first object, n>>
    stale,      \* ClearPool ran and no RetryInitObj has succeeded since
    resets,
    fault       \* Alloc indexed m_vecPMem with -1

slotVars == <<nMax, flags, objs, born, dead>>
vars == <<slotVars, lock, pc, req, idx, held, stale, resets, fault>>

Size == Len(flags)

TypeOK ==
    /\ nMax \in 0..(Width - 1)
    /\ flags \in Seq({0, 1}) /\ objs \in Seq(0..born) /\ Len(objs) = Size
    /\ born \in Nat /\ dead \subseteq 1..born
    /\ lock \in Threads \cup {Nobody}
    /\ pc \in [Threads -> {"idle", "find", "mark"}]
    /\ req \in [Threads -> 0..MaxN] /\ idx \in [Threads -> Nat]
    /\ held \in [Threads -> SUBSET ((1..born) \X (1..MaxN))]
    /\ stale \in BOOLEAN /\ fault \in BOOLEAN /\ resets \in 0..MaxResets

Init ==
    /\ nMax = InitSize
    /\ flags = [i \in 1..InitSize |-> 0]
    /\ objs = [i \in 1..InitSize |-> i]
    /\ born = InitSize /\ dead = {}
    /\ lock = Nobody
    /\ pc = [t \in Threads |-> "idle"] /\ req = [t \in Threads |-> 0]
    /\ idx = [t \in Threads |-> 0] /\ held = [t \in Threads |-> {}]
    /\ stale = FALSE /\ resets = 0 /\ fault = FALSE

-----------------------------------------------------------------------------
(* FindAvailable *)

\* Bug: the start of the run is not moved when a run is broken.
MutantScanned(fl, n, r, i) ==
    IF r.count = n \/ fl[i] # 0 THEN r
    ELSE IF r.count > 0 /\ i = r.next
      THEN [count |-> r.count + 1, start |-> r.start, next |-> i + 1]
      ELSE [count |-> 1, start |-> IF r.count > 0 THEN r.start ELSE i, next |-> i + 1]

\* One turn of the loop: slot i extends the run of free slots that ended before it,
\* or starts a new one; the loop has left as soon as the run has length n.
Scanned(fl, n, r, i) ==
    IF r.count = n \/ fl[i] # 0 THEN r
    ELSE IF r.count > 0 /\ i = r.next
      THEN [count |-> r.count + 1, start |-> r.start, next |-> i + 1]
      ELSE [count |-> 1, start |-> i, next |-> i + 1]

\* What the loop knows after each slot.
Scan(fl, n) ==
    LET scan[i \in 0..Len(fl)] ==
          IF i = 0 THEN [count |-> 0, start |-> 0, next |-> 0]
          ELSE Scanned(fl, n, scan[i - 1], i)
    IN  scan

\* The first slot of the run found, or -1.
FindAvailable(fl, n) ==
    LET r == Scan(fl, n)[Len(fl)]
    IN  IF r.count = n THEN r.start ELSE -1

-----------------------------------------------------------------------------
(* Alloc *)

\* m_lock.Lock(), when the pool is a locking one; nothing is said after a fault.
MayEnter == ~ fault /\ (UseLock => lock = Nobody)

AllocEnter(t, n) ==
    /\ pc[t] = "idle" /\ MayEnter
    /\ lock' = IF UseLock THEN t ELSE lock
    /\ pc' = [pc EXCEPT ![t] = "find"]
    /\ req' = [req EXCEPT ![t] = n]
    /\ UNCHANGED <<slotVars, idx, held, stale, resets, fault>>

Leave == lock' = Nobody

\* A run fits: remember its slot and give up the lock.  The slots are not yet marked.
AllocFits(t) ==
    /\ pc[t] = "find"
    /\ FindAvailable(flags, req[t]) # -1
    /\ idx' = [idx EXCEPT ![t] = FindAvailable(flags, req[t])]
    /\ Leave
    /\ pc' = [pc EXCEPT ![t] = "mark"]
    /\ UNCHANGED <<slotVars, req, held, stale, resets, fault>>

\* expand(): twice the slots, InitObj for slots nMax/2 .. ; it makes k objects and
\* fails at the next one unless that was the last.
MutantDoubled == 2 * nMax               \* bug: wider than m_nMax
Doubled == (2 * nMax) % Width

Expand(k) ==
    /\ nMax' = Doubled
    /\ flags' = [i \in 1..Doubled |-> IF i <= Size THEN flags[i] ELSE 0]
    /\ objs' = [i \in 1..Doubled |->
                  IF i <= Doubled \div 2 THEN objs[i]
                  ELSE IF i <= Doubled \div 2 + k THEN born + i - Doubled \div 2
                  ELSE 0]
    /\ born' = born + k

Fresh == Doubled - Doubled \div 2

\* No run fits, and every InitObj of the expansion succeeds: look again.  A run longer
\* than what is free even now leaves nIndex = -1.
AllocGrows(t) ==
    /\ pc[t] = "find"
    /\ FindAvailable(flags, req[t]) = -1
    /\ Doubled <= MaxCap
    /\ Expand(Fresh)
    /\ LET i == FindAvailable(flags', req[t])
       IN  /\ idx' = [idx EXCEPT ![t] = IF i = -1 THEN 0 ELSE i]
           /\ fault' = (i = -1)
           /\ pc' = [pc EXCEPT ![t] = IF i = -1 THEN "idle" ELSE "mark"]
    /\ Leave
    /\ UNCHANGED <<dead, req, held, stale, resets>>

\* The expansion fails half-way: Alloc returns NULL; the slots stay.
AllocFails(t) ==
    /\ pc[t] = "find"
    /\ FindAvailable(flags, req[t]) = -1
    /\ Doubled <= MaxCap
    /\ \E k \in 0..(Fresh - 1) : Expand(k)
    /\ Leave
    /\ pc' = [pc EXCEPT ![t] = "idle"]
    /\ UNCHANGED <<dead, req, idx, held, stale, resets, fault>>

\* Bug: only the first slot of the run is marked.
MutantWithFlags(from, n, f) == [flags EXCEPT ![from] = f]
\* nFlag = f for n slots.
WithFlags(from, n, f) ==
    [i \in 1..Size |-> IF i \in from..(from + n - 1) THEN f ELSE flags[i]]

\* After the unlock: nFlag = 1 for the n slots, unless the object is NULL.
AllocMark(t) ==
    /\ pc[t] = "mark"
    /\ IF objs[idx[t]] # 0
         THEN /\ flags' = WithFlags(idx[t], req[t], 1)
              /\ held' = [held EXCEPT ![t] = @ \cup {<<objs[idx[t]], req[t]>>}]
         ELSE UNCHANGED <<flags, held>>
    /\ pc' = [pc EXCEPT ![t] = "idle"]
    /\ UNCHANGED <<nMax, objs, born, dead, lock, req, idx, stale, resets, fault>>

-----------------------------------------------------------------------------
(* Free, ClearPool, RetryInitObj: one critical section each *)

\* find_if by address; an unknown address is ignored.
FirstWith(p) == CHOOSE i \in 1..Size : objs[i] = p /\ \A j \in 1..(i - 1) : objs[j] # p

Free(t, a) ==
    /\ pc[t] = "idle" /\ MayEnter /\ a \in held[t]
    /\ flags' = IF \E i \in 1..Size : objs[i] = a[1]
                  THEN WithFlags(FirstWith(a[1]), a[2], 0) ELSE flags
    /\ held' = [held EXCEPT ![t] = @ \ {a}]
    /\ UNCHANGED <<nMax, objs, born, dead, lock, pc, req, idx, stale, resets, fault>>

\* Every flag is reset and every object deleted; the addresses stay in the slots, and
\* in the hands of those who hold them.
ClearPool(t) ==
    /\ pc[t] = "idle" /\ MayEnter /\ resets < MaxResets
    /\ flags' = [i \in 1..Size |-> 0]
    /\ dead' = dead \cup ({objs[i] : i \in 1..Size} \ {0})
    /\ stale' = TRUE
    /\ resets' = resets + 1
    /\ UNCHANGED <<nMax, objs, born, lock, pc, req, idx, held, fault>>

\* Bug: the first slot is left out.
MutantRetryFrom == 2
RetryFrom == 1

\* A new object for every slot; it stops at the first InitObj that fails.
RetryInitObj(t) ==
    /\ pc[t] = "idle" /\ MayEnter /\ resets < MaxResets
    /\ \E k \in 0..Size :
          /\ objs' = [i \in 1..Size |->
                        IF i \in RetryFrom..k THEN born + i
                        ELSE IF i = k + 1 THEN 0 ELSE objs[i]]
          /\ born' = born + k
          /\ stale' = (stale /\ k < Size)
    /\ resets' = resets + 1
    /\ UNCHANGED <<nMax, flags, dead, lock, pc, req, idx, held, fault>>

Next ==
    \E t \in Threads :
        \/ \E n \in 1..MaxN : AllocEnter(t, n)
        \/ AllocFits(t) \/ AllocGrows(t) \/ AllocFails(t) \/ AllocMark(t)
        \/ \E a \in held[t] : Free(t, a)
        \/ ClearPool(t) \/ RetryInitObj(t)

Spec == Init /\ [][Next]_vars

-----------------------------------------------------------------------------
(* Properties *)

Holdings == UNION {{<<t, a>> : a \in held[t]} : t \in Threads}

\* The slots of an allocation whose object is still the pool's.
Slots(a) == {i \in 1..Size : \E j \in 1..Size : objs[j] = a[1] /\ i \in j..(j + a[2] - 1)}

\* The scan of FindAvailable (lines 242-270) is the first fit: the least slot at which
\* n free slots begin, and -1 when there is none.
FirstFit ==
    \A n \in 1..MaxN :
        LET Fits == {i \in 1..Size : i + n - 1 <= Size
                                     /\ \A j \in i..(i + n - 1) : flags[j] = 0}
        IN  IF Fits = {} THEN FindAvailable(flags, n) = -1
            ELSE /\ FindAvailable(flags, n) \in Fits
                 /\ \A i \in Fits : FindAvailable(flags, n) <= i

\* What the comments on lines 20 and 22 say of the locking pool ("thread safe"): two
\* allocations never share a slot.
NoSharing ==
    \A x, y \in Holdings : x # y => Slots(x[2]) \cap Slots(y[2]) = {}

\* For one thread that does not reset the pool, the marked slots are those of its
\* allocations: nothing is handed out twice, and nothing stays marked after Free.
MarkedAreHeld ==
    (Cardinality(Threads) = 1 /\ resets = 0) =>
        /\ NoSharing
        /\ {i \in 1..Size : flags[i] = 1} = UNION {Slots(x[2]) : x \in Holdings}

\* Unless ClearPool was not followed by a RetryInitObj that succeeded, no slot holds a
\* deleted object.
NoDeadObject == ~ stale => {objs[i] : i \in 1..Size} \cap dead = {}

\* The marked slots are the ones handed out, also after an expansion that failed half-way
\* (Alloc, Free), and a slot keeps a deleted object only between ClearPool and a complete
\* RetryInitObj.
ObjectsHeld == MarkedAreHeld /\ NoDeadObject
=============================================================================
