--------------------------- MODULE ThreadPoolWin ---------------------------
(***************************************************************************)
(* The Windows build of the thread pool (Thread/ThreadPoolImpl_Win32.cpp): *)
(* a kernel semaphore with an upper limit, a spin lock around the list of  *)
(* jobs, tasks of the plain class Task (wait and done do nothing).         *)
(***************************************************************************)
EXTENDS Integers, Sequences, FiniteSets

CONSTANTS
    WinClients, WinWorkers,
    SemLimit,       \* NSEMACOUNT: 10 in the code
    MaxWinJobs      \* bound: tasks submitted

ASSUME WinPoolAssumption ==
    /\ SemLimit \in Nat \ {0} /\ MaxWinJobs \in Nat
    /\ IsFiniteSet(WinWorkers) /\ IsFiniteSet(WinClients)

\* Task types: "plain", one the pool has been told to merge, one it has been told to
\* serve first, and one nobody registered a process for.
WinTypes == {"plain", "merge", "first", "unknown"}

VARIABLES
    wpUp,       \* m_pools # NULL
    wpFlag,     \* m_flag
    wpOwner,    \* where the owner is in Init and Stop
    wpSem,      \* the count of m_ctrl
    wpJobs,     \* m_jobs: <<number, type>>
    wpMade,     \* tasks made so far
    wpFreed,    \* the tasks that have been deleted
    wpClient, wpMine,   \* where each client is in submit_job_req, and its job
    wpWorker, wpTask,   \* where each thread is, and its t
    wpTasks,    \* m_tasks has not been cleared
    wpLost,     \* permits ReleaseSemaphore refused
    wpFault

wpVars == <<wpUp, wpFlag, wpOwner, wpSem, wpJobs, wpMade, wpFreed, wpClient, wpMine,
            wpWorker, wpTask, wpTasks, wpLost, wpFault>>

NoJob == <<0, "plain">>

WpInit ==
    /\ wpUp = FALSE /\ wpFlag = FALSE /\ wpOwner = "idle" /\ wpSem = 0
    /\ wpJobs = <<>> /\ wpMade = 0 /\ wpFreed = {}
    /\ wpClient = [c \in WinClients |-> "idle"] /\ wpMine = [c \in WinClients |-> NoJob]
    /\ wpWorker = [w \in WinWorkers |-> "none"] /\ wpTask = [w \in WinWorkers |-> NoJob]
    /\ wpTasks = TRUE /\ wpLost = 0 /\ wpFault = "none"

WpGoes == wpFault = "none"

MutantReleaseSemaphore == wpSem' = wpSem + 1 /\ UNCHANGED wpLost    \* bug: made without a limit

\* ReleaseSemaphore: at the limit it fails, and nobody looks.
ReleaseSemaphore ==
    IF wpSem < SemLimit THEN wpSem' = wpSem + 1 /\ UNCHANGED wpLost
    ELSE wpLost' = wpLost + 1 /\ UNCHANGED wpSem

-----------------------------------------------------------------------------
(* Init: the threads are there before m_flag is set *)

WpCreate ==
    /\ WpGoes /\ wpOwner = "idle" /\ ~ wpUp /\ wpTasks
    /\ wpUp' = TRUE /\ wpOwner' = "created"
    /\ wpWorker' = [w \in WinWorkers |-> "test"]
    /\ UNCHANGED <<wpFlag, wpSem, wpJobs, wpMade, wpFreed, wpClient, wpMine, wpTask,
                   wpTasks, wpLost, wpFault>>

WpFlagSet ==
    /\ WpGoes /\ wpOwner = "created"
    /\ wpFlag' = TRUE /\ wpOwner' = "idle"
    /\ UNCHANGED <<wpUp, wpSem, wpJobs, wpMade, wpFreed, wpClient, wpMine, wpWorker,
                   wpTask, wpTasks, wpLost, wpFault>>

-----------------------------------------------------------------------------
(* submit_job_req *)

\* The test of m_flag and the critical section: a task of the merged type is deleted
\* when another one is queued.
WpSubmit(c, type) ==
    /\ WpGoes /\ wpClient[c] = "idle" /\ wpFlag /\ wpMade < MaxWinJobs
    /\ wpMade' = wpMade + 1
    /\ IF type = "merge" /\ \E k \in DOMAIN wpJobs : wpJobs[k][2] = "merge"
         THEN wpFreed' = wpFreed \cup {wpMade + 1} /\ UNCHANGED <<wpJobs, wpClient, wpMine>>
         ELSE /\ wpJobs' = Append(wpJobs, <<wpMade + 1, type>>)
              /\ wpClient' = [wpClient EXCEPT ![c] = "release"]
              /\ wpMine' = [wpMine EXCEPT ![c] = <<wpMade + 1, type>>]
              /\ UNCHANGED wpFreed
    /\ UNCHANGED <<wpUp, wpFlag, wpOwner, wpSem, wpWorker, wpTask, wpTasks, wpLost, wpFault>>

WpRelease(c) ==
    /\ WpGoes /\ wpClient[c] = "release"
    /\ ReleaseSemaphore
    /\ wpClient' = [wpClient EXCEPT ![c] = "wait"]
    /\ UNCHANGED <<wpUp, wpFlag, wpOwner, wpJobs, wpMade, wpFreed, wpMine, wpWorker,
                   wpTask, wpTasks, wpFault>>

\* job->wait(), on a task that may be gone by now.
WpWait(c) ==
    /\ WpGoes /\ wpClient[c] = "wait"
    /\ wpClient' = [wpClient EXCEPT ![c] = "idle"]
    /\ wpMine' = [wpMine EXCEPT ![c] = NoJob]
    /\ wpFault' = IF wpMine[c][1] \in wpFreed THEN "late wait" ELSE wpFault
    /\ UNCHANGED <<wpUp, wpFlag, wpOwner, wpSem, wpJobs, wpMade, wpFreed, wpWorker,
                   wpTask, wpTasks, wpLost>>

-----------------------------------------------------------------------------
(* thread_func and run *)

WpTest(w) ==
    /\ WpGoes /\ wpWorker[w] = "test"
    /\ wpWorker' = [wpWorker EXCEPT ![w] = IF wpFlag THEN "wait" ELSE "ended"]
    /\ UNCHANGED <<wpUp, wpFlag, wpOwner, wpSem, wpJobs, wpMade, wpFreed, wpClient, wpMine,
                   wpTask, wpTasks, wpLost, wpFault>>

\* Bug: the wait is left out.
MutantWpAcquire == UNCHANGED wpSem
WpAcquire == wpSem > 0 /\ wpSem' = wpSem - 1

WpWake(w) ==
    /\ WpGoes /\ wpWorker[w] = "wait"
    /\ WpAcquire
    /\ wpWorker' = [wpWorker EXCEPT ![w] = "take"]
    /\ UNCHANGED <<wpUp, wpFlag, wpOwner, wpJobs, wpMade, wpFreed, wpClient, wpMine,
                   wpTask, wpTasks, wpLost, wpFault>>

\* The first task of the preferred type, else the first; an empty list has no front.
WpIndex ==
    LET first == {k \in DOMAIN wpJobs : wpJobs[k][2] = "first"}
    IN  IF first = {} THEN 1 ELSE CHOOSE k \in first : \A l \in first : k <= l

WpTake(w) ==
    /\ WpGoes /\ wpWorker[w] = "take"
    /\ IF wpJobs = <<>> THEN wpFault' = "empty list" /\ UNCHANGED <<wpJobs, wpTask, wpWorker>>
       ELSE /\ wpTask' = [wpTask EXCEPT ![w] = wpJobs[WpIndex]]
            /\ wpJobs' = SubSeq(wpJobs, 1, WpIndex - 1) \o SubSeq(wpJobs, WpIndex + 1, Len(wpJobs))
            /\ wpWorker' = [wpWorker EXCEPT ![w] = "work"]
            /\ UNCHANGED wpFault
    /\ UNCHANGED <<wpUp, wpFlag, wpOwner, wpSem, wpMade, wpFreed, wpClient, wpMine, wpTasks, wpLost>>

\* The process of the task's type, done(0), delete; without a process the task is lost.
WpWork(w) ==
    /\ WpGoes /\ wpWorker[w] = "work"
    /\ IF wpTask[w][1] \in wpFreed THEN wpFault' = "freed task" /\ UNCHANGED wpFreed
       ELSE /\ wpFreed' = IF wpTasks /\ wpTask[w][2] # "unknown"
                            THEN wpFreed \cup {wpTask[w][1]} ELSE wpFreed
            /\ UNCHANGED wpFault
    /\ wpTask' = [wpTask EXCEPT ![w] = NoJob]
    /\ wpWorker' = [wpWorker EXCEPT ![w] = "test"]
    /\ UNCHANGED <<wpUp, wpFlag, wpOwner, wpSem, wpJobs, wpMade, wpClient, wpMine, wpTasks, wpLost>>

-----------------------------------------------------------------------------
(* Stop *)

WpStop ==
    /\ WpGoes /\ wpOwner = "idle" /\ wpFlag
    /\ wpFlag' = FALSE /\ wpOwner' = "permits"
    /\ UNCHANGED <<wpUp, wpSem, wpJobs, wpMade, wpFreed, wpClient, wpMine, wpWorker,
                   wpTask, wpTasks, wpLost, wpFault>>

\* One permit for every thread, as far as the limit allows; then the processes go.
WpPermits ==
    /\ WpGoes /\ wpOwner = "permits"
    /\ LET n == Cardinality(WinWorkers)
           ok == IF wpSem + n <= SemLimit THEN n ELSE SemLimit - wpSem
       IN  wpSem' = wpSem + ok /\ wpLost' = wpLost + n - ok
    /\ wpTasks' = FALSE /\ wpOwner' = "drain"
    /\ UNCHANGED <<wpUp, wpFlag, wpJobs, wpMade, wpFreed, wpClient, wpMine, wpWorker,
                   wpTask, wpFault>>

\* done(1), delete and pop of the front task, without the lock; at the end m_pools.
WpDrain ==
    /\ WpGoes /\ wpOwner = "drain"
    /\ IF wpJobs # <<>>
         THEN /\ wpFreed' = wpFreed \cup {Head(wpJobs)[1]} /\ wpJobs' = Tail(wpJobs)
              /\ UNCHANGED <<wpUp, wpOwner>>
         ELSE /\ wpUp' = FALSE /\ wpOwner' = "idle"
              /\ UNCHANGED <<wpFreed, wpJobs>>
    /\ UNCHANGED <<wpFlag, wpSem, wpMade, wpClient, wpMine, wpWorker, wpTask, wpTasks,
                   wpLost, wpFault>>

WpNext ==
    \/ WpCreate \/ WpFlagSet \/ WpStop \/ WpPermits \/ WpDrain
    \/ \E c \in WinClients : \/ \E type \in WinTypes : WpSubmit(c, type)
                             \/ WpRelease(c) \/ WpWait(c)
    \/ \E w \in WinWorkers : WpTest(w) \/ WpWake(w) \/ WpTake(w) \/ WpWork(w)

WpSpec == WpInit /\ [][WpNext]_wpVars

-----------------------------------------------------------------------------
(* Properties *)

WpTypeOK ==
    /\ wpSem \in 0..SemLimit /\ wpMade \in 0..MaxWinJobs /\ wpFreed \subseteq 1..MaxWinJobs
    /\ wpClient \in [WinClients -> {"idle", "release", "wait"}]
    /\ wpWorker \in [WinWorkers -> {"none", "test", "wait", "take", "work", "ended"}]
    /\ wpLost \in Nat

WpCount(f, p) == Cardinality({x \in DOMAIN f : f[x] = p})

\* ThreadPoolImpl_Win32.cpp:39-76: until Stop, the jobs in the list are the permits of
\* the semaphore, the threads that have one in hand, the clients about to give one and
\* the permits the full semaphore refused; so no thread takes from an empty list, and
\* the pool forgets a job only when more than NSEMACOUNT of them were waiting.
WinPermits ==
    wpTasks /\ wpOwner # "permits" =>
        /\ Len(wpJobs) = wpSem + WpCount(wpWorker, "take") + WpCount(wpClient, "release") + wpLost
        /\ wpFault \notin {"empty list", "freed task"}
        /\ wpLost > 0 => wpMade > SemLimit
=============================================================================
