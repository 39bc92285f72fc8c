----------------------------- MODULE SemaphoreEx -----------------------------
(***************************************************************************)
(* The counting semaphore Thread/SemaphoreExImpl_Linux.cpp, whose callers  *)
(* post and take several units at once: a byte counter, a mutex and one    *)
(* condition variable.  A critical section is one step; a thread in        *)
(* pthread_cond_wait is in `asleep` until a signal, or nothing at all,     *)
(* wakes it.                                                               *)
(***************************************************************************)
EXTENDS Integers, FiniteSets

CONSTANTS
    Threads,
    NCount, NWait, NPost,   \* the arguments of Init
    SignalArgs, WaitArgs,   \* the arguments callers pass; -1 is the default
    Width,                  \* m_nCount is an unsigned char: 2^8 in the code
    MaxPosts                \* bound: SemSignal calls

ASSUME ConstantAssumption ==
    /\ IsFiniteSet(Threads) /\ Width \in Nat \ {0}
    /\ NCount \in 0..(Width - 1) /\ NWait \in 1..(Width - 1) /\ NPost \in 1..(Width - 1)
    /\ SignalArgs \subseteq Int /\ WaitArgs \subseteq Int
    /\ MaxPosts \in Nat

VARIABLES
    count,      \* m_nCount
    need,       \* nWait of each thread inside SemWait, 0 outside
    asleep,     \* the threads in pthread_cond_wait
    posts,      \* SemSignal calls so far
    posted,     \* history: units added to m_nCount
    taken       \* history: units taken

vars == <<count, need, asleep, posts, posted, taken>>

TypeOK ==
    /\ count \in 0..(Width - 1)
    /\ need \in [Threads -> 0..NWait]
    /\ asleep \subseteq {t \in Threads : need[t] > 0}
    /\ posts \in 0..MaxPosts
    /\ posted \in Nat /\ taken \in Nat

Init ==
    /\ count = NCount
    /\ need = [t \in Threads |-> 0]
    /\ asleep = {}
    /\ posts = 0 /\ posted = 0 /\ taken = 0

\* (n > 0 && n < limit) ? n : limit
Units(n, limit) == IF n > 0 /\ n < limit THEN n ELSE limit

\* pthread_cond_signal wakes one sleeper, if there is one.
MutantWakeOne ==            \* bug: signals only when the count was 0
    IF asleep = {} \/ count # 0 THEN asleep' = asleep
    ELSE \E u \in asleep : asleep' = asleep \ {u}
WakeOne ==
    IF asleep = {} THEN asleep' = asleep
    ELSE \E u \in asleep : asleep' = asleep \ {u}

SemSignal(t, n) ==
    /\ need[t] = 0 /\ posts < MaxPosts
    /\ count' = (count + Units(n, NPost)) % Width
    /\ WakeOne
    /\ posts' = posts + 1
    /\ posted' = posted + Units(n, NPost)
    /\ UNCHANGED <<need, taken>>

\* The call, up to the mutex.
SemWait(t, n) ==
    /\ need[t] = 0
    /\ need' = [need EXCEPT ![t] = Units(n, NWait)]
    /\ UNCHANGED <<count, asleep, posts, posted, taken>>

\* while(m_nCount < nWait) pthread_cond_wait: tested on entry and after every wake-up.
MutantEnough(t) == count > 0    \* bug: any unit will do
Enough(t) == count >= need[t]

WaitSleep(t) ==
    /\ need[t] > 0 /\ t \notin asleep /\ ~ Enough(t)
    /\ asleep' = asleep \cup {t}
    /\ UNCHANGED <<count, need, posts, posted, taken>>

WaitTake(t) ==
    /\ need[t] > 0 /\ t \notin asleep /\ Enough(t)
    /\ count' = (count - need[t]) % Width
    /\ taken' = taken + need[t]
    /\ need' = [need EXCEPT ![t] = 0]
    /\ UNCHANGED <<asleep, posts, posted>>

\* pthread_cond_wait may return without a signal.
Spurious(t) ==
    /\ t \in asleep
    /\ asleep' = asleep \ {t}
    /\ UNCHANGED <<count, need, posts, posted, taken>>

Next ==
    \E t \in Threads :
        \/ \E n \in SignalArgs : SemSignal(t, n)
        \/ \E n \in WaitArgs : SemWait(t, n)
        \/ WaitSleep(t) \/ WaitTake(t) \/ Spurious(t)

Spec == Init /\ [][Next]_vars

-----------------------------------------------------------------------------
(* Properties *)

\* Never more units are taken than were there at Init or were posted since, with
\* callers overtaking woken sleepers and wake-ups without a signal.
NotOverdrawn == taken <= NCount + posted

\* When posts are single units and all callers take the same number, a sleeper whose
\* units are there is never forgotten: some thread is awake inside SemWait to take
\* them (lines 22 and 29, one signal per post).
NoLostWakeup ==
    (NPost = 1 /\ \A n, m \in WaitArgs : Units(n, NWait) = Units(m, NWait)) =>
        ((\E t \in asleep : Enough(t)) => \E t \in Threads : need[t] > 0 /\ t \notin asleep)
=============================================================================
