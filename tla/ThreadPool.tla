----------------------------- MODULE ThreadPool -----------------------------
(***************************************************************************)
(* The Linux thread pool (Thread/ThreadPoolImpl_Linux.cpp): a job list     *)
(* under a mutex, a counting semaphore that announces jobs, detached       *)
(* workers, any number of submitting threads, and one owner thread that    *)
(* registers processes, configures, starts and stops the pool.             *)
(*                                                                         *)
(* A step is what one thread does between two points at which another      *)
(* thread can observe or disturb it.  Undefined behaviour of the code      *)
(* (using a deleted task or process, front() of an empty list, an          *)
(* unlocked list access that overlaps a locked one) is a choice between    *)
(* the program carrying on and `crash`, after which nothing happens.       *)
(***************************************************************************)
EXTENDS Integers, Sequences, FiniteSets

CONSTANTS
    Workers,    \* slots for worker threads; alive ones are those not "none"
    Clients,    \* threads that call submit_job_req
    Tasks,      \* the Task objects the clients may create
    Types,      \* the jobtype values in use
    TypeOf,     \* Task::m_type of each task
    KeyOf,      \* what a tCompare override tells apart (AsyncNetRWTask: m_cSock)
    Sync,       \* the tasks whose wait() blocks until done() was called
    ThreadSum,  \* m_thread_sum
    MaxStops,   \* bound: Stop() calls considered
    Restart,    \* FALSE: Init is not called again after Stop
    NoType,     \* the jobtype "-1": no such type set
    NoTask,     \* NULL
    Free        \* m_lock is not held

ASSUME ConstantAssumption ==
    /\ IsFiniteSet(Workers) /\ IsFiniteSet(Clients)
    /\ Workers \cap Clients = {}
    /\ TypeOf \in [Tasks -> Types]
    /\ Sync \subseteq Tasks
    /\ ThreadSum \in Nat \ {0}
    /\ MaxStops \in Nat
    /\ Restart \in BOOLEAN
    /\ NoType \notin Types
    /\ NoTask \notin Tasks
    /\ Free \notin Workers \cup Clients

VARIABLES
    flag,       \* m_flag
    pools,      \* m_pools # NULL
    jobs,       \* m_jobs
    sem,        \* the value of m_ctrl
    lock,       \* the holder of m_lock
    tasks,      \* the types in m_tasks
    maxType,    \* m_MaxPriority
    mergeType,  \* m_LowPriority
    cmp,        \* m_taskCmp # NULL
    fixed,      \* this program calls the setters before Init and the submissions only
    wpc, wtask, \* where each worker is in thread_func/run, and its t
    cpc, cjob,  \* where each client is in submit_job_req, and its job
    opc, otask, \* where the owner is in Init/Stop, and its pTask
    runs,       \* how often each task was processed
    notes,      \* the arguments of the done() calls of each task
    freed,      \* the deleted tasks
    verdict,    \* what submit_job_req decided about each task
    arrived,    \* history: the tasks in the order they entered m_jobs
    stops,      \* Stop() calls that got past the m_flag test
    crash       \* the undefined behaviour that ended the program

poolVars   == <<flag, pools, jobs, sem, lock>>
configVars == <<tasks, maxType, mergeType, cmp, fixed>>
workerVars == <<wpc, wtask>>
clientVars == <<cpc, cjob>>
ownerVars  == <<opc, otask, stops>>
taskVars   == <<runs, notes, freed, verdict, arrived>>
vars == <<poolVars, configVars, workerVars, clientVars, ownerVars, taskVars, crash>>

WorkerPcs == {"none", "loop", "sem", "lock", "take", "find", "run", "stale",
              "done", "delete"}
ClientPcs == {"idle", "lock", "find", "push", "drop", "post", "wait"}
OwnerPcs  == {"idle", "init", "post", "procs", "clear", "fetch", "cancel", "pop"}
Crashes   == {"none", "emptyList", "listRace", "freedTask", "freedProcess",
              "lateWait"}

TypeOK ==
    /\ flag \in BOOLEAN /\ pools \in BOOLEAN /\ cmp \in BOOLEAN /\ fixed \in BOOLEAN
    /\ jobs \in Seq(Tasks)
    /\ arrived \in Seq(Tasks)
    /\ sem \in Nat
    /\ lock \in Workers \cup Clients \cup {Free}
    /\ tasks \subseteq Types
    /\ maxType \in Types \cup {NoType}
    /\ mergeType \in Types \cup {NoType}
    /\ wpc \in [Workers -> WorkerPcs]
    /\ wtask \in [Workers -> Tasks \cup {NoTask}]
    /\ cpc \in [Clients -> ClientPcs]
    /\ cjob \in [Clients -> Tasks \cup {NoTask}]
    /\ opc \in OwnerPcs
    /\ otask \in Tasks \cup {NoTask}
    /\ runs \in [Tasks -> Nat]
    /\ notes \in [Tasks -> SUBSET {0, 1}]
    /\ freed \subseteq Tasks
    /\ verdict \in [Tasks -> {"new", "pending", "queued", "rejected", "merged"}]
    /\ stops \in 0..MaxStops
    /\ crash \in Crashes

Init ==
    /\ flag = TRUE /\ pools = FALSE /\ jobs = << >> /\ sem = 0 /\ lock = Free
    /\ tasks = {} /\ maxType = NoType /\ mergeType = NoType /\ cmp = FALSE
    /\ fixed \in BOOLEAN
    /\ wpc = [w \in Workers |-> "none"] /\ wtask = [w \in Workers |-> NoTask]
    /\ cpc = [c \in Clients |-> "idle"] /\ cjob = [c \in Clients |-> NoTask]
    /\ opc = "idle" /\ otask = NoTask /\ stops = 0
    /\ runs = [t \in Tasks |-> 0] /\ notes = [t \in Tasks |-> {}]
    /\ freed = {} /\ verdict = [t \in Tasks |-> "new"] /\ arrived = << >>
    /\ crash = "none"

\* Undefined behaviour of the given kind when bad holds: carry on, or crash.
Undefined(bad, kind) == crash' \in IF bad THEN {"none", kind} ELSE {"none"}

\* The program counters; a crashed program takes no step.
ClientAt(c, pc) == crash = "none" /\ cpc[c] = pc
WorkerAt(w, pc) == crash = "none" /\ wpc[w] = pc
OwnerAt(pc)     == crash = "none" /\ opc = pc

\* pthread_mutex_lock, sem_post, sem_wait and Task::done, as the pool uses them.
MutantLockFree == TRUE                      \* bug: the mutex is not taken
LockFree == lock = Free

MutantSemUpLost(n) == sem' = sem            \* bug: the post is forgotten
MutantSemUpOne(n) == sem' = sem + 1         \* bug: Stop posts only once
SemUp(n) == sem' = sem + n

MutantSemDown == sem' = sem - 1             \* bug: goes on without a permit
SemDown == sem > 0 /\ sem' = sem - 1

MutantNotify(t, n) == notes' = notes        \* bug: done() is not called
Notify(t, n) == notes' = [notes EXCEPT ![t] = @ \cup {n}]

Queued == {jobs[i] : i \in 1..Len(jobs)}

\* s without its i-th element: list::erase.  (Bug: the neighbour is erased.)
MutantWithoutAt(s, i) ==
    [j \in 1..(Len(s) - 1) |-> IF j <= i THEN s[j] ELSE s[j + 1]]
WithoutAt(s, i) == [j \in 1..(Len(s) - 1) |-> IF j < i THEN s[j] ELSE s[j + 1]]

-----------------------------------------------------------------------------
(* submit_job_req *)

\* The lock-free reading of m_flag and the client's choice of a job.
SubmitEnter(c, t) ==
    /\ ClientAt(c, "idle") /\ verdict[t] = "new" /\ flag
    /\ verdict' = [verdict EXCEPT ![t] = "pending"]
    /\ cpc' = [cpc EXCEPT ![c] = "lock"]
    /\ cjob' = [cjob EXCEPT ![c] = t]
    /\ UNCHANGED <<poolVars, configVars, workerVars, ownerVars, runs, notes, freed,
                   arrived, crash>>

\* return -1; the job stays the caller's.
SubmitRefused(c, t) ==
    /\ ClientAt(c, "idle") /\ verdict[t] = "new" /\ ~ flag
    /\ verdict' = [verdict EXCEPT ![t] = "rejected"]
    /\ UNCHANGED <<poolVars, configVars, workerVars, clientVars, ownerVars, runs, notes,
                   freed, arrived, crash>>

SubmitLock(c) ==
    /\ ClientAt(c, "lock") /\ LockFree
    /\ lock' = c
    /\ cpc' = [cpc EXCEPT ![c] = "find"]
    /\ UNCHANGED <<flag, pools, jobs, sem, configVars, workerVars, cjob, ownerVars,
                   taskVars, crash>>

\* Bug: the comparison function is never used.
MutantTaskTypeCompare(other, job) == TypeOf[other] = mergeType

\* TaskTypeCompare(m_LowPriority, job, m_taskCmp) applied to a queued task.
\* With a comparison, it is the tCompare override of AsyncNetRWTask.
TaskTypeCompare(other, job) ==
    IF cmp
      THEN /\ KeyOf[other] = KeyOf[job]
           /\ TypeOf[other] = TypeOf[job]
           /\ TypeOf[other] = mergeType
      ELSE TypeOf[other] = mergeType

MergeHit(job) == mergeType # NoType /\ \E o \in Queued : TaskTypeCompare(o, job)

SubmitFind(c) ==
    /\ ClientAt(c, "find")
    /\ cpc' = [cpc EXCEPT ![c] = IF MergeHit(cjob[c]) THEN "drop" ELSE "push"]
    /\ UNCHANGED <<poolVars, configVars, workerVars, cjob, ownerVars, taskVars, crash>>

\* delete job, unlock, return -2.
SubmitDrop(c) ==
    /\ ClientAt(c, "drop")
    /\ freed' = freed \cup {cjob[c]}
    /\ verdict' = [verdict EXCEPT ![cjob[c]] = "merged"]
    /\ lock' = Free
    /\ cpc' = [cpc EXCEPT ![c] = "idle"]
    /\ cjob' = [cjob EXCEPT ![c] = NoTask]
    /\ UNCHANGED <<flag, pools, jobs, sem, configVars, workerVars, ownerVars, runs,
                   notes, arrived, crash>>

SubmitPush(c) ==
    /\ ClientAt(c, "push")
    /\ jobs' = Append(jobs, cjob[c])
    /\ arrived' = Append(arrived, cjob[c])
    /\ verdict' = [verdict EXCEPT ![cjob[c]] = "queued"]
    /\ lock' = Free
    /\ cpc' = [cpc EXCEPT ![c] = "post"]
    /\ UNCHANGED <<flag, pools, sem, configVars, workerVars, cjob, ownerVars, runs,
                   notes, freed, crash>>

SubmitPost(c) ==
    /\ ClientAt(c, "post")
    /\ SemUp(1)
    /\ cpc' = [cpc EXCEPT ![c] = "wait"]
    /\ UNCHANGED <<flag, pools, jobs, lock, configVars, workerVars, cjob, ownerVars,
                   taskVars, crash>>

\* return job->wait(): the worker may already have deleted the job.
SubmitWait(c) ==
    /\ ClientAt(c, "wait")
    /\ cjob[c] \in Sync => notes[cjob[c]] # {}
    /\ Undefined(cjob[c] \in freed, "lateWait")
    /\ cpc' = [cpc EXCEPT ![c] = "idle"]
    /\ cjob' = [cjob EXCEPT ![c] = NoTask]
    /\ UNCHANGED <<poolVars, configVars, workerVars, ownerVars, taskVars>>

-----------------------------------------------------------------------------
(* thread_func and run *)

\* while(obj->m_flag)
WorkerLoop(w) ==
    /\ WorkerAt(w, "loop")
    /\ wpc' = [wpc EXCEPT ![w] = IF flag THEN "sem" ELSE "none"]
    /\ UNCHANGED <<poolVars, configVars, wtask, clientVars, ownerVars, taskVars, crash>>

WorkerSemWait(w) ==
    /\ WorkerAt(w, "sem") /\ SemDown
    /\ wpc' = [wpc EXCEPT ![w] = "lock"]
    /\ UNCHANGED <<flag, pools, jobs, lock, configVars, wtask, clientVars, ownerVars,
                   taskVars, crash>>

WorkerLock(w) ==
    /\ WorkerAt(w, "lock") /\ LockFree
    /\ lock' = w
    /\ wpc' = [wpc EXCEPT ![w] = "take"]
    /\ UNCHANGED <<flag, pools, jobs, sem, configVars, wtask, clientVars, ownerVars,
                   taskVars, crash>>

\* The position run() takes: the first task of m_MaxPriority, else the front.
Urgent(i) == maxType # NoType /\ TypeOf[jobs[i]] = maxType

\* Bug: any task of the priority type is taken.
MutantTakenAt(i) == IF \E k \in 1..Len(jobs) : Urgent(k) THEN Urgent(i) ELSE i = 1

TakenAt(i) ==
    IF \E k \in 1..Len(jobs) : Urgent(k)
      THEN Urgent(i) /\ \A k \in 1..(i - 1) : ~ Urgent(k)
      ELSE i = 1

WorkerTake(w) ==
    /\ WorkerAt(w, "take")
    /\ \E i \in 1..Len(jobs) :
          /\ TakenAt(i)
          /\ wtask' = [wtask EXCEPT ![w] = jobs[i]]
          /\ jobs' = WithoutAt(jobs, i)
    /\ lock' = Free
    /\ wpc' = [wpc EXCEPT ![w] = "find"]
    /\ UNCHANGED <<flag, pools, sem, configVars, clientVars, ownerVars, taskVars, crash>>

\* front() and pop_front() of the empty list: with luck t is NULL and is skipped.
WorkerTakeNothing(w) ==
    /\ WorkerAt(w, "take") /\ jobs = << >>
    /\ lock' = Free
    /\ wpc' = [wpc EXCEPT ![w] = "loop"]
    /\ Undefined(TRUE, "emptyList")
    /\ UNCHANGED <<flag, pools, jobs, sem, configVars, wtask, clientVars, ownerVars,
                   taskVars>>

\* The unlocked look-up in m_tasks; during Stop it may find a deleted process.
WorkerFind(w) ==
    /\ WorkerAt(w, "find") /\ TypeOf[wtask[w]] \in tasks
    /\ wpc' = [wpc EXCEPT ![w] = IF opc = "clear" THEN "stale" ELSE "run"]
    /\ Undefined(wtask[w] \in freed, "freedTask")
    /\ UNCHANGED <<poolVars, configVars, wtask, clientVars, ownerVars, taskVars>>

\* A task of a type without a process is dropped, neither done() nor deleted.
WorkerFindNone(w) ==
    /\ WorkerAt(w, "find") /\ TypeOf[wtask[w]] \notin tasks
    /\ wpc' = [wpc EXCEPT ![w] = "loop"]
    /\ wtask' = [wtask EXCEPT ![w] = NoTask]
    /\ Undefined(wtask[w] \in freed, "freedTask")
    /\ UNCHANGED <<poolVars, configVars, clientVars, ownerVars, taskVars>>

\* (*process)(t); in "stale" the process was deleted by Stop.
WorkerRun(w) ==
    /\ WorkerAt(w, "run") \/ WorkerAt(w, "stale")
    /\ runs' = [runs EXCEPT ![wtask[w]] = @ + 1]
    /\ wpc' = [wpc EXCEPT ![w] = "done"]
    /\ Undefined(wpc[w] = "stale", "freedProcess")
    /\ UNCHANGED <<poolVars, configVars, wtask, clientVars, ownerVars, notes, freed,
                   verdict, arrived>>

WorkerDone(w) ==
    /\ WorkerAt(w, "done")
    /\ Notify(wtask[w], 0)
    /\ wpc' = [wpc EXCEPT ![w] = "delete"]
    /\ Undefined(wtask[w] \in freed, "freedTask")
    /\ UNCHANGED <<poolVars, configVars, wtask, clientVars, ownerVars, runs, freed,
                   verdict, arrived>>

WorkerDelete(w) ==
    /\ WorkerAt(w, "delete")
    /\ freed' = freed \cup {wtask[w]}
    /\ wtask' = [wtask EXCEPT ![w] = NoTask]
    /\ wpc' = [wpc EXCEPT ![w] = "loop"]
    /\ Undefined(wtask[w] \in freed, "freedTask")
    /\ UNCHANGED <<poolVars, configVars, clientVars, ownerVars, runs, notes, verdict,
                   arrived>>

-----------------------------------------------------------------------------
(* The owner: Init, Register_taskProcess, the setters, Stop *)

\* Init creates the threads first ...
InitThreads ==
    /\ OwnerAt("idle") /\ ~ pools /\ (Restart \/ stops = 0)
    /\ \E S \in SUBSET {w \in Workers : wpc[w] = "none"} :
          /\ Cardinality(S) = ThreadSum
          /\ wpc' = [w \in Workers |-> IF w \in S THEN "loop" ELSE wpc[w]]
    /\ pools' = TRUE
    /\ opc' = "init"
    /\ UNCHANGED <<flag, jobs, sem, lock, configVars, wtask, clientVars, otask, stops,
                   taskVars, crash>>

\* ... and then sets m_flag.
InitFlag ==
    /\ OwnerAt("init")
    /\ flag' = TRUE
    /\ opc' = "idle"
    /\ UNCHANGED <<pools, jobs, sem, lock, configVars, workerVars, clientVars, otask,
                   stops, taskVars, crash>>

Register_taskProcess(type) ==
    /\ OwnerAt("idle") /\ type \notin tasks
    /\ tasks' = tasks \cup {type}
    /\ UNCHANGED <<poolVars, maxType, mergeType, cmp, fixed, workerVars, clientVars,
                   ownerVars, taskVars, crash>>

MayConfigure ==
    /\ OwnerAt("idle")
    /\ fixed => ~ pools /\ \A t \in Tasks : verdict[t] = "new"

setMaxPriorityType(type) ==
    /\ MayConfigure
    /\ maxType' = type
    /\ UNCHANGED <<poolVars, tasks, mergeType, cmp, fixed, workerVars, clientVars,
                   ownerVars, taskVars, crash>>

setMergeTaskType(type) ==
    /\ MayConfigure
    /\ mergeType' = type
    /\ UNCHANGED <<poolVars, tasks, maxType, cmp, fixed, workerVars, clientVars,
                   ownerVars, taskVars, crash>>

setTaskCmp(f) ==
    /\ MayConfigure
    /\ cmp' = f
    /\ UNCHANGED <<poolVars, tasks, maxType, mergeType, fixed, workerVars, clientVars,
                   ownerVars, taskVars, crash>>

StopFlag ==
    /\ OwnerAt("idle") /\ flag /\ stops < MaxStops
    /\ flag' = FALSE
    /\ stops' = stops + 1
    /\ opc' = "post"
    /\ UNCHANGED <<pools, jobs, sem, lock, configVars, workerVars, clientVars, otask,
                   taskVars, crash>>

\* m_thread_sum calls of sem_post.
StopPost ==
    /\ OwnerAt("post")
    /\ SemUp(ThreadSum)
    /\ opc' = "procs"
    /\ UNCHANGED <<flag, pools, jobs, lock, configVars, workerVars, clientVars, otask,
                   stops, taskVars, crash>>

\* delete it->second: a worker inside a process is left with a deleted one.
StopProcs ==
    /\ OwnerAt("procs")
    /\ wpc' = [w \in Workers |-> IF wpc[w] = "run" THEN "stale" ELSE wpc[w]]
    /\ opc' = "clear"
    /\ UNCHANGED <<poolVars, configVars, wtask, clientVars, otask, stops, taskVars, crash>>

StopClear ==
    /\ OwnerAt("clear")
    /\ tasks' = {}
    /\ opc' = "fetch"
    /\ UNCHANGED <<poolVars, maxType, mergeType, cmp, fixed, workerVars, clientVars, otask,
                   stops, taskVars, crash>>

\* while(!m_jobs.empty()) pTask = m_jobs.front(), without the lock.
StopFetch ==
    /\ OwnerAt("fetch") /\ jobs # << >>
    /\ otask' = jobs[1]
    /\ opc' = "cancel"
    /\ Undefined(lock # Free, "listRace")
    /\ UNCHANGED <<poolVars, configVars, workerVars, clientVars, stops, taskVars>>

StopCancel ==
    /\ OwnerAt("cancel")
    /\ Notify(otask, 1)
    /\ freed' = freed \cup {otask}
    /\ opc' = "pop"
    /\ Undefined(otask \in freed, "freedTask")
    /\ UNCHANGED <<poolVars, configVars, workerVars, clientVars, otask, stops, runs,
                   verdict, arrived>>

\* pop_front removes whatever is in front by now.
StopPop ==
    /\ OwnerAt("pop")
    /\ jobs' = IF jobs = << >> THEN jobs ELSE WithoutAt(jobs, 1)
    /\ opc' = "fetch"
    /\ crash' \in {"none"} \cup (IF jobs = << >> THEN {"emptyList"} ELSE {})
                           \cup (IF lock # Free THEN {"listRace"} ELSE {})
    /\ UNCHANGED <<flag, pools, sem, lock, configVars, workerVars, clientVars, otask,
                   stops, taskVars>>

\* delete [] m_pools, once the list is empty.
StopEnd ==
    /\ OwnerAt("fetch") /\ jobs = << >>
    /\ pools' = FALSE
    /\ otask' = NoTask
    /\ opc' = "idle"
    /\ Undefined(lock # Free, "listRace")
    /\ UNCHANGED <<flag, jobs, sem, lock, configVars, workerVars, clientVars, stops,
                   taskVars>>

-----------------------------------------------------------------------------
Client(c) ==
    \/ \E t \in Tasks : SubmitEnter(c, t) \/ SubmitRefused(c, t)
    \/ SubmitLock(c) \/ SubmitFind(c) \/ SubmitDrop(c)
    \/ SubmitPush(c) \/ SubmitPost(c) \/ SubmitWait(c)

Worker(w) ==
    \/ WorkerLoop(w) \/ WorkerSemWait(w) \/ WorkerLock(w)
    \/ WorkerTake(w) \/ WorkerTakeNothing(w) \/ WorkerFind(w)
    \/ WorkerFindNone(w)
    \/ WorkerRun(w) \/ WorkerDone(w) \/ WorkerDelete(w)

Stop == StopPost \/ StopProcs \/ StopClear \/ StopFetch \/ StopCancel \/ StopPop
        \/ StopEnd

Configure ==
    \/ \E type \in Types : Register_taskProcess(type)
    \/ \E type \in Types \cup {NoType} : setMaxPriorityType(type)
    \/ \E type \in Types \cup {NoType} : setMergeTaskType(type)
    \/ \E f \in BOOLEAN : setTaskCmp(f)

Next ==
    \/ \E c \in Clients : Client(c)
    \/ \E w \in Workers : Worker(w)
    \/ InitThreads \/ InitFlag \/ Configure \/ StopFlag \/ Stop

Spec == Init /\ [][Next]_vars

\* What a thread has begun it continues: a client inside submit_job_req, a
\* worker (processes return), the owner inside Init or Stop.
Fairness ==
    /\ \A c \in Clients : WF_vars(cpc[c] # "idle" /\ Client(c))
    /\ \A w \in Workers : WF_vars(Worker(w))
    /\ WF_vars(InitFlag \/ Stop)

FairSpec == Spec /\ Fairness

-----------------------------------------------------------------------------
(* Properties *)

Awake   == {w \in Workers : wpc[w] \in {"lock", "take"}}
Posting == {c \in Clients : cpc[c] = "post"}
Holding(w) == wpc[w] \in {"find", "run", "stale", "done", "delete"}

\* Before the first Stop, every job in m_jobs is matched by one thing that will
\* have it taken: a permit of m_ctrl, a worker between sem_wait and the pop, or a
\* submitter between the unlock and sem_post.  So front() in run() (line 60) never
\* meets an empty list, and no queued job is forgotten.
PermitPerJob ==
    stops = 0 =>
        Len(jobs) = sem + Cardinality(Awake) + Cardinality(Posting)

\* Before the first Stop, a task is in one place: once in m_jobs and not deleted,
\* or in the hands of one worker and not deleted, or in neither.
SingleOwner ==
    stops = 0 =>
        /\ \A i, j \in 1..Len(jobs) : jobs[i] = jobs[j] => i = j
        /\ Queued \cap freed = {}
        /\ \A w \in Workers : Holding(w) =>
              /\ wtask[w] \notin Queued \cup freed
              /\ \A v \in Workers \ {w} : Holding(v) => wtask[v] # wtask[w]

\* Before the first Stop, the only undefined behaviour run() and submit_job_req()
\* can meet is the job->wait() of line 47 on a job its worker has deleted.
OnlyLateWait == stops = 0 => crash \in {"none", "lateWait"}

\* Before the first Stop, a task the pool deletes was either merged away, never
\* processed and never done(), or was processed exactly once and done(0).
ProcessedOnce ==
    stops = 0 =>
        \A t \in Tasks :
            /\ runs[t] <= 1
            /\ t \in freed =>
                 IF verdict[t] = "merged" THEN runs[t] = 0 /\ notes[t] = {}
                 ELSE runs[t] = 1 /\ notes[t] = {0}

\* Before the first Stop, jobs of one type leave m_jobs in the order they entered
\* it, however m_MaxPriority is changed in between.
FifoPerType ==
    stops = 0 =>
        \A i, j \in 1..Len(arrived) :
            (i < j /\ TypeOf[arrived[i]] = TypeOf[arrived[j]] /\ arrived[i] \in Queued)
                => arrived[j] \in Queued

\* Serving (run, lines 56 to 67): a job is processed at most once, and jobs of one type in
\* the order they were queued, whatever the priority is set to in between.
ServedInOrder == ProcessedOnce /\ FifoPerType

\* m_jobs never holds a job together with an earlier one that the look-up of line 39 should
\* have found for it: the look-up and the push_back are one critical section.
MergeUnique ==
    mergeType # NoType =>
        \A i, j \in 1..Len(jobs) : i < j => ~ TaskTypeCompare(jobs[i], jobs[j])

\* With the comparison of the asynchronous sockets (AsyncNetRWTask) set, the pool ignores
\* a job only for an accepted one of its type and socket.
MergedForTwin ==
    cmp =>
        \A t \in Tasks : verdict[t] = "merged" =>
            /\ TypeOf[t] = mergeType
            /\ \E o \in Tasks : verdict[o] = "queued" /\ KeyOf[o] = KeyOf[t]
                                /\ TypeOf[o] = TypeOf[t]

\* Merging (submit_job_req, line 39), when the settings are made beforehand: no two queued
\* tasks of the merge type do the same work, and a task is dropped only for a queued one
\* that does its work.
MergeSound == fixed => MergeUnique /\ MergedForTwin

\* What ThreadPoolImpl_Linux.h:24 says of setMergeTaskType: when a task of the merge
\* type is queued, new tasks of the same type may be ignored.
MergeSameType ==
    fixed => \A t \in Tasks : verdict[t] = "merged" => TypeOf[t] = mergeType

Ended == stops > 0 \/ crash # "none"

\* Once Init has run, a queued job whose type has a process is processed, unless the
\* pool is stopped.
JobServed ==
    \A t \in Tasks :
        (pools /\ t \in Queued /\ TypeOf[t] \in tasks) ~> (runs[t] > 0 \/ Ended)

\* Once Init has run, submit_job_req returns for a queued job whose type has a process, also when the
\* job's wait() blocks until done(), unless the pool is stopped.
SubmitReturns ==
    \A c \in Clients :
        (pools /\ cpc[c] # "idle" /\ cjob[c] \in Queued /\ TypeOf[cjob[c]] \in tasks)
            ~> (cpc[c] = "idle" \/ Ended)

\* When m_flag stays FALSE, every worker ends: Stop posts enough permits for the
\* ones asleep in sem_wait (lines 89-90).
WorkersEnd ==
    <>[](~ flag) => <>[](crash # "none" \/ \A w \in Workers : wpc[w] = "none")
=============================================================================
