--------------------------- MODULE MultiThreadSync ---------------------------
(***************************************************************************)
(* Thread/MultiThreadSync_Linux.cpp: a gate with one flag per registered   *)
(* parameter.  Signal opens the gate once for every registered one, Wait   *)
(* passes it and closes the caller's flag; a caller that is not registered *)
(* passes at once.  A critical section is one step.                        *)
(***************************************************************************)
EXTENDS Integers

CONSTANTS Callers,      \* threads that call Wait
          Params,       \* the void* keys of m_threads
          MaxSignals    \* bound: Signal calls

ASSUME SignalsAssumption == MaxSignals \in Nat

VARIABLES gate,         \* m_threads: 0 or 1 for a registered parameter, else -1
          waiting,      \* the parameter each sleeping or woken caller waits for
          dozing,       \* the callers in pthread_cond_wait
          gone,         \* a woken caller found its parameter erased: line 32 used end()
          signals,      \* history: Signal calls
          passes        \* history: times a registered caller passed, per parameter

syncVars == <<gate, waiting, dozing, gone, signals, passes>>

SyncTypeOK ==
    /\ gate \in [Params -> {-1, 0, 1}]
    /\ waiting \in [Callers -> {{}} \cup {{p} : p \in Params}]
    /\ dozing \subseteq {t \in Callers : waiting[t] # {}}
    /\ gone \in BOOLEAN
    /\ signals \in 0..MaxSignals /\ passes \in [Params -> Nat]

SyncInit ==
    /\ gate = [p \in Params |-> -1]
    /\ waiting = [t \in Callers |-> {}]
    /\ dozing = {}
    /\ gone = FALSE /\ signals = 0 /\ passes = [p \in Params |-> 0]

AddThread(p) ==
    /\ gate' = IF gate[p] = -1 THEN [gate EXCEPT ![p] = 0] ELSE gate
    /\ UNCHANGED <<waiting, dozing, gone, signals, passes>>

DelThread(p) ==
    /\ gate' = [gate EXCEPT ![p] = -1]
    /\ UNCHANGED <<waiting, dozing, gone, signals, passes>>

\* pthread_cond_broadcast, unless m_threads is empty.
MutantBroadcast == dozing' = dozing     \* bug: the broadcast is forgotten
Broadcast == dozing' = IF \A p \in Params : gate[p] = -1 THEN dozing ELSE {}

\* it->second=1 for every registered parameter.
Opened == [p \in Params |-> IF gate[p] = -1 THEN -1 ELSE 1]

\* Every flag is set and every sleeper woken.
Signal ==
    /\ signals < MaxSignals
    /\ gate' = Opened
    /\ Broadcast
    /\ signals' = signals + 1
    /\ UNCHANGED <<waiting, gone, passes>>

\* Who is at the test of Wait: a caller that enters, or one that was woken.
AtTest(t, p) == t \notin dozing /\ (waiting[t] = {} \/ waiting[t] = {p})

MutantClosed(p) == gate         \* bug: the flag stays set
Closed(p) == [gate EXCEPT ![p] = 0]

WaitPass(t, p) ==
    /\ AtTest(t, p) /\ gate[p] = 1
    /\ gate' = Closed(p)
    /\ waiting' = [waiting EXCEPT ![t] = {}]
    /\ passes' = [passes EXCEPT ![p] = @ + 1]
    /\ UNCHANGED <<dozing, gone, signals>>

WaitDoze(t, p) ==
    /\ AtTest(t, p) /\ gate[p] = 0
    /\ waiting' = [waiting EXCEPT ![t] = {p}]
    /\ dozing' = dozing \cup {t}
    /\ UNCHANGED <<gate, gone, signals, passes>>

\* Not registered on entry: the caller passes at once.
WaitSkip(t, p) ==
    /\ waiting[t] = {} /\ gate[p] = -1
    /\ UNCHANGED syncVars

\* Erased while the caller slept: m_threads.find(param) is end(), and what is read as
\* its flag may be anything.  A caller that passes registers the parameter again.
WaitGone(t, p) ==
    /\ t \notin dozing /\ waiting[t] = {p} /\ gate[p] = -1
    /\ gone' = TRUE
    /\ \/ /\ dozing' = dozing \cup {t}
          /\ UNCHANGED <<gate, waiting>>
       \/ /\ gate' = Closed(p)
          /\ waiting' = [waiting EXCEPT ![t] = {}]
          /\ UNCHANGED dozing
    /\ UNCHANGED <<signals, passes>>

SyncSpurious(t) ==
    /\ t \in dozing
    /\ dozing' = dozing \ {t}
    /\ UNCHANGED <<gate, waiting, gone, signals, passes>>

SyncNext ==
    \/ Signal
    \/ \E p \in Params : AddThread(p) \/ DelThread(p)
    \/ \E t \in Callers : SyncSpurious(t)
    \/ \E t \in Callers, p \in Params :
          WaitPass(t, p) \/ WaitDoze(t, p) \/ WaitSkip(t, p) \/ WaitGone(t, p)

SyncSpec == SyncInit /\ [][SyncNext]_syncVars

\* One Signal lets at most one caller through per registered parameter, also when
\* several callers share the parameter or register and leave in between.
OncePerSignal == \A p \in Params : passes[p] <= signals

\* Nobody sleeps in front of an open gate: a caller in pthread_cond_wait waits for a
\* flag that is not set.
NoSleeperAtOpenGate == \A t \in dozing : \A p \in waiting[t] : gate[p] # 1
=============================================================================
