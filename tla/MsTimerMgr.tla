----------------------------- MODULE MsTimerMgr -----------------------------
(***************************************************************************)
(* The signal-driven timer manager (Thread/MsTimerMgrImpl_Linux.cpp).  The *)
(* lists, locks and workers are those of TimerMgr; here the clock is the   *)
(* SIGALRM handler, which runs TimerHandle on the stack of whichever       *)
(* thread the signal interrupts.  What matters is who holds which lock and *)
(* what the handler leaves in the two flags, so timers are only counted:   *)
(* armed ones, and whether some are due and not yet served.                *)
(***************************************************************************)
EXTENDS Integers, FiniteSets

CONSTANTS
    MsApps,     \* threads that call AddTimer, DelTimer, ModifyRepeatTimer
    MaxMsTicks, \* bound: signals
    MaxMsAdds   \* bound: timers added

Kinds == {"once", "repeat"}         \* also the names of the two pool threads
MsAll == MsApps \cup Kinds

ASSUME MsAssumption == MaxMsTicks \in Nat /\ MaxMsAdds \in Nat /\ MsApps \cap Kinds = {}

VARIABLES
    msUp,       \* pThis # NULL and the interval timer runs
    msIn,       \* what each thread does outside the handler
    msH,        \* where the handler on its stack is
    msFlag,     \* bFlagOnce, bFlagRepeat
    msSem,      \* m_SemOnce, m_SemRepeat
    msArmed,    \* timers of onceLst and repeatSet that are not due
    msDue,      \* some timer is finished and its callback has not run
    msFresh,    \* a repeat timer became due while DealRepeatHandle was at work
    msOverlap,  \* two handlers have been active at the same time
    msTicks, msAdds, msFault

msVars == <<msUp, msIn, msH, msFlag, msSem, msArmed, msDue, msFresh, msOverlap,
            msTicks, msAdds, msFault>>

MsInit ==
    /\ msUp = FALSE /\ msIn = [t \in MsAll |-> "out"] /\ msH = [t \in MsAll |-> "none"]
    /\ msFlag = [k \in Kinds |-> FALSE] /\ msSem = [k \in Kinds |-> 0]
    /\ msArmed = [k \in Kinds |-> 0] /\ msDue = [k \in Kinds |-> FALSE]
    /\ msFresh = FALSE /\ msOverlap = FALSE /\ msTicks = 0 /\ msAdds = 0 /\ msFault = "none"

\* A thread goes on with its own code only when no handler is on its stack.
MsGoes(t) == msFault = "none" /\ msH[t] = "none"

Who(in, h) == {t \in MsAll : msIn[t] = in} \cup {t \in MsAll : msH[t] = h}
OnceFree == Who("once", "postOnce") = {}
ReadFree == Who("write", "no") = {}
WriteFree == ReadFree /\ Who("read", "postRepeat") = {}

\* Init starts the threads and the interval timer.
MsStart ==
    /\ ~ msUp /\ msTicks = 0 /\ msUp' = TRUE
    /\ UNCHANGED <<msIn, msH, msFlag, msSem, msArmed, msDue, msFresh, msOverlap,
                   msTicks, msAdds, msFault>>

-----------------------------------------------------------------------------
(* AddTimer, DelTimer, ModifyRepeatTimer *)

Enter(t, lock) ==
    /\ msUp /\ MsGoes(t) /\ msIn[t] = "out" /\ msAdds < MaxMsAdds
    /\ IF lock = "once" THEN OnceFree ELSE WriteFree
    /\ msIn' = [msIn EXCEPT ![t] = lock]
    /\ msAdds' = msAdds + 1
    /\ UNCHANGED <<msUp, msH, msFlag, msSem, msArmed, msDue, msFresh, msOverlap, msTicks, msFault>>

\* The list is changed and the lock given up: a timer more; or a repeat timer less,
\* a waiting or a due one; or new times for one, which change neither.
MsLeave(t) ==
    /\ MsGoes(t) /\ t \in MsApps /\ msIn[t] \in {"once", "write"}
    /\ msIn' = [msIn EXCEPT ![t] = "out"]
    /\ \E k \in {IF msIn[t] = "once" THEN "once" ELSE "repeat"} :
          \/ msArmed' = [msArmed EXCEPT ![k] = @ + 1] /\ UNCHANGED msDue
          \/ k = "repeat" /\ msArmed[k] > 0 /\ msArmed' = [msArmed EXCEPT ![k] = @ - 1] /\ UNCHANGED msDue
          \/ k = "repeat" /\ msDue[k] /\ msDue' \in {msDue, [msDue EXCEPT ![k] = FALSE]} /\ UNCHANGED msArmed
          \/ k = "repeat" /\ UNCHANGED <<msArmed, msDue>>
    /\ UNCHANGED <<msUp, msH, msFlag, msSem, msFresh, msOverlap, msTicks, msAdds, msFault>>

-----------------------------------------------------------------------------
(* sigHandle and TimerHandle, on the stack of thread t *)

\* The signal; bFlagRepeat = bFlagOnce = 0 without a lock.
SigHandle(t) ==
    /\ msUp /\ MsGoes(t) /\ msTicks < MaxMsTicks
    /\ msTicks' = msTicks + 1
    /\ msOverlap' = (msOverlap \/ \E u \in MsAll : msH[u] # "none")
    /\ msFlag' = [k \in Kinds |-> FALSE]
    /\ msH' = [msH EXCEPT ![t] = "lockOnce"]
    /\ UNCHANGED <<msUp, msIn, msSem, msArmed, msDue, msFresh, msAdds, msFault>>

\* The timers of a list are counted up; those that have run out become due.
Scan(k) ==
    \E n \in 0..msArmed[k] :
        /\ msArmed' = [msArmed EXCEPT ![k] = @ - n]
        /\ msDue' = [msDue EXCEPT ![k] = @ \/ n > 0]
        /\ msFlag' = [msFlag EXCEPT ![k] = @ \/ n > 0]
        /\ msFresh' = (msFresh \/ (k = "repeat" /\ n > 0 /\ msIn["repeat"] = "read"))

\* pthread_mutex_lock(&m_OnceLock): a handler that interrupted the holder waits for good.
HandleOnce(t) ==
    /\ msFault = "none" /\ msH[t] = "lockOnce" /\ OnceFree
    /\ Scan("once")
    /\ msH' = [msH EXCEPT ![t] = "postOnce"]
    /\ UNCHANGED <<msUp, msIn, msSem, msOverlap, msTicks, msAdds, msFault>>

\* Bug: the test for the repeat timers looks at the wrong flag.
MutantRaised(k) == msFlag["once"]
Raised(k) == msFlag[k]

Post(k) == msSem' = [msSem EXCEPT ![k] = IF Raised(k) THEN @ + 1 ELSE @]

HandleOncePost(t) ==
    /\ msFault = "none" /\ msH[t] = "postOnce"
    /\ Post("once")
    /\ msH' = [msH EXCEPT ![t] = "lockRepeat"]
    /\ UNCHANGED <<msUp, msIn, msFlag, msArmed, msDue, msFresh, msOverlap, msTicks, msAdds, msFault>>

\* pthread_rwlock_rdlock(&m_Repeatlock): refused to the thread that writes, and the
\* handler walks the half-changed map; else it waits for a writer.
HandleRepeat(t) ==
    /\ msFault = "none" /\ msH[t] = "lockRepeat"
    /\ \/ /\ ReadFree /\ Scan("repeat")
          /\ msH' = [msH EXCEPT ![t] = "postRepeat"]
          /\ UNCHANGED <<msUp, msIn, msSem, msOverlap, msTicks, msAdds, msFault>>
       \/ /\ msIn[t] = "write" /\ msFault' = "map in change"
          /\ UNCHANGED <<msUp, msIn, msH, msFlag, msSem, msArmed, msDue, msFresh, msOverlap,
                         msTicks, msAdds>>

HandleRepeatPost(t) ==
    /\ msFault = "none" /\ msH[t] = "postRepeat"
    /\ Post("repeat")
    /\ msH' = [msH EXCEPT ![t] = "none"]
    /\ UNCHANGED <<msUp, msIn, msFlag, msArmed, msDue, msFresh, msOverlap, msTicks, msAdds, msFault>>

-----------------------------------------------------------------------------
(* The two pool threads: WaitOnce, DealOnceHandle; WaitRepeat, DealRepeatHandle *)

WakeUp(k) ==
    /\ MsGoes(k) /\ msIn[k] = "out" /\ msSem[k] > 0
    /\ msSem' = [msSem EXCEPT ![k] = @ - 1]
    /\ msIn' = [msIn EXCEPT ![k] = "woken"]
    /\ UNCHANGED <<msUp, msH, msFlag, msArmed, msDue, msFresh, msOverlap, msTicks, msAdds, msFault>>

DealEnter(k) ==
    /\ MsGoes(k) /\ msIn[k] = "woken"
    /\ IF k = "once" THEN OnceFree ELSE ReadFree
    /\ msIn' = [msIn EXCEPT ![k] = IF k = "once" THEN "once" ELSE "read"]
    /\ msFresh' = (msFresh /\ k = "once")
    /\ UNCHANGED <<msUp, msH, msFlag, msSem, msArmed, msDue, msOverlap, msTicks, msAdds, msFault>>

\* The callbacks of the due timers have run; one-shot timers are deleted, repeat timers
\* armed again.  The loop may have passed a timer that became due in the meantime.
DealLeave(k) ==
    /\ MsGoes(k) /\ msIn[k] \in {"once", "read"}
    /\ msIn' = [msIn EXCEPT ![k] = "out"]
    /\ \E missed \in IF k = "repeat" /\ msFresh THEN BOOLEAN ELSE {FALSE} :
          msDue' = [msDue EXCEPT ![k] = missed]
    /\ msArmed' = IF k = "repeat" /\ msDue[k] /\ ~ msDue'[k]
                    THEN [msArmed EXCEPT ![k] = @ + 1] ELSE msArmed
    /\ UNCHANGED <<msUp, msH, msFlag, msSem, msFresh, msOverlap, msTicks, msAdds, msFault>>

\* Stop: the interval timer is switched off, stop_pool deletes the two processes, and
\* their stop() is called after that.
MsStop(t) ==
    /\ msUp /\ MsGoes(t) /\ t \in MsApps /\ msIn[t] = "out"
    /\ msUp' = FALSE /\ msFault' = "freed process"
    /\ UNCHANGED <<msIn, msH, msFlag, msSem, msArmed, msDue, msFresh, msOverlap, msTicks, msAdds>>

MsNext ==
    \/ MsStart
    \/ \E t \in MsApps : \/ \E lock \in {"once", "write"} : Enter(t, lock)
                         \/ MsLeave(t) \/ MsStop(t)
    \/ \E t \in MsAll : \/ SigHandle(t) \/ HandleOnce(t) \/ HandleOncePost(t)
                        \/ HandleRepeat(t) \/ HandleRepeatPost(t)
    \/ \E k \in Kinds : WakeUp(k) \/ DealEnter(k) \/ DealLeave(k)

MsSpec == MsInit /\ [][MsNext]_msVars

-----------------------------------------------------------------------------
(* Properties *)

MsTypeOK ==
    /\ msIn \in [MsAll -> {"out", "woken", "once", "read", "write"}]
    /\ msH \in [MsAll -> {"none", "lockOnce", "postOnce", "lockRepeat", "postRepeat"}]
    /\ msSem \in [Kinds -> 0..MaxMsTicks] /\ msArmed \in [Kinds -> 0..MaxMsAdds]
    /\ msTicks \in 0..MaxMsTicks /\ msAdds \in 0..MaxMsAdds

Announced(k) ==
    \/ msSem[k] > 0 \/ msIn[k] \in {"woken", "once", "read"}
    \/ \E t \in MsAll : msH[t] = IF k = "once" THEN "postOnce" ELSE "postRepeat"

\* TimerHandle (MsTimerMgrImpl_Linux.cpp:156-191): a timer that is due is about to be
\* served: its semaphore is up, its thread is on the way, or the handler has still to
\* raise it.  This needs that a handler ends before the next signal comes: the flags are
\* members, and a second handler clears them under the first.
MsAnnounced == ~ msOverlap /\ msFault = "none" => \A k \in Kinds : msDue[k] => Announced(k)
=============================================================================
