-------------------------- MODULE ThreadPool_proofs --------------------------
(***************************************************************************)
(* Proofs about the thread pool, for any number of workers, clients and    *)
(* tasks.  Up to the first Stop, the permits of the semaphore match the    *)
(* queued jobs, a task has one owner, is processed once and in the order   *)
(* of its type, and the only undefined behaviour is a submitter's late     *)
(* wait().  With the settings made beforehand, merging is sound.           *)
(***************************************************************************)
EXTENDS ThreadPool, FiniteSetTheorems, TLAPS

\* A thread past the choice of its task has one.
HasTask ==
    /\ \A w \in Workers : Holding(w) => wtask[w] \in Tasks
    /\ \A c \in Clients : cpc[c] # "idle" => cjob[c] \in Tasks
    /\ opc \in {"cancel", "pop"} => otask \in Tasks

\* list::erase keeps the other elements, in order, and is one shorter.
LEMMA WithoutAtShape ==
    ASSUME NEW S, NEW s \in Seq(S), NEW i \in 1..Len(s)
    PROVE  /\ WithoutAt(s, i) \in Seq(S)
           /\ Len(WithoutAt(s, i)) = Len(s) - 1
           /\ \A j \in 1..(Len(s) - 1) :
                 WithoutAt(s, i)[j] = IF j < i THEN s[j] ELSE s[j + 1]
<1> DEFINE n == Len(s) - 1
           r == WithoutAt(s, i)
<1>1. n \in Nat /\ Len(s) \in Nat
  OBVIOUS
<1>2. r = [j \in 1..n |-> IF j < i THEN s[j] ELSE s[j + 1]]
  BY DEF WithoutAt
<1>3. ASSUME NEW j \in 1..n PROVE (IF j < i THEN s[j] ELSE s[j + 1]) \in S
  <2>1. j \in 1..Len(s) /\ j + 1 \in 1..Len(s)
    BY <1>1
  <2>. QED BY <2>1
<1>4. r \in [1..n -> S]
  BY <1>2, <1>3
<1>5. r \in Seq(S) /\ Len(r) = n
  BY <1>1, <1>4
<1>. QED BY <1>2, <1>5

\* The initial state is typed, and no thread holds a task.
LEMMA TypeInit == Init => TypeOK /\ HasTask
<1> SUFFICES ASSUME Init PROVE TypeOK /\ HasTask
  OBVIOUS
<1> USE ConstantAssumption DEF Init, WorkerPcs, ClientPcs, OwnerPcs, Crashes
<1>1. flag \in BOOLEAN /\ pools \in BOOLEAN /\ cmp \in BOOLEAN
  BY Zenon
<1>2. jobs \in Seq(Tasks) /\ arrived \in Seq(Tasks)
  OBVIOUS
<1>3. wpc \in [Workers -> WorkerPcs] /\ wtask \in [Workers -> Tasks \cup {NoTask}]
  OBVIOUS
<1>4. cpc \in [Clients -> ClientPcs] /\ cjob \in [Clients -> Tasks \cup {NoTask}]
  OBVIOUS
<1>5. notes \in [Tasks -> SUBSET {0, 1}] /\ runs \in [Tasks -> Nat]
  OBVIOUS
<1>6. verdict \in [Tasks -> {"new", "pending", "queued", "rejected", "merged"}]
  OBVIOUS
<1>7. TypeOK
  BY <1>1, <1>2, <1>3, <1>4, <1>5, <1>6 DEF TypeOK
<1>8. HasTask
  BY DEF HasTask, Holding
<1>. QED BY <1>7, <1>8

\* A step of submit_job_req keeps the types.
LEMMA TypeClient ==
    ASSUME TypeOK, HasTask, NEW c \in Clients, Client(c)
    PROVE  TypeOK' /\ HasTask'
<1> USE ConstantAssumption
    DEF TypeOK, HasTask, Holding, WorkerPcs, ClientPcs, OwnerPcs, Crashes, ClientAt,
        poolVars, configVars, workerVars, clientVars, ownerVars, taskVars
<1>1. ASSUME NEW t \in Tasks, SubmitEnter(c, t) PROVE TypeOK' /\ HasTask'
  BY <1>1 DEF SubmitEnter
<1>8. ASSUME NEW t \in Tasks, SubmitRefused(c, t) PROVE TypeOK' /\ HasTask'
  BY <1>8 DEF SubmitRefused
<1>2. ASSUME SubmitLock(c) PROVE TypeOK' /\ HasTask'
  BY <1>2 DEF SubmitLock
<1>3. ASSUME SubmitFind(c) PROVE TypeOK' /\ HasTask'
  BY <1>3 DEF SubmitFind
<1>4. ASSUME SubmitDrop(c) PROVE TypeOK' /\ HasTask'
  BY <1>4 DEF SubmitDrop
<1>5. ASSUME SubmitPush(c) PROVE TypeOK' /\ HasTask'
  BY <1>5 DEF SubmitPush
<1>6. ASSUME SubmitPost(c) PROVE TypeOK' /\ HasTask'
  BY <1>6 DEF SubmitPost, SemUp
<1>7. ASSUME SubmitWait(c) PROVE TypeOK' /\ HasTask'
  BY <1>7 DEF SubmitWait, Undefined
<1>. QED BY <1>1, <1>2, <1>3, <1>4, <1>5, <1>6, <1>7, <1>8 DEF Client

\* A step of a worker (run, thread_func) keeps the types.
LEMMA TypeWorker ==
    ASSUME TypeOK, HasTask, NEW w \in Workers, Worker(w)
    PROVE  TypeOK' /\ HasTask'
<1> USE ConstantAssumption
    DEF TypeOK, HasTask, Holding, WorkerPcs, ClientPcs, OwnerPcs, Crashes, WorkerAt,
        poolVars, configVars, workerVars, clientVars, ownerVars, taskVars
<1>1. ASSUME WorkerLoop(w) PROVE TypeOK' /\ HasTask'
  BY <1>1 DEF WorkerLoop
<1>2. ASSUME WorkerSemWait(w) PROVE TypeOK' /\ HasTask'
  BY <1>2 DEF WorkerSemWait, SemDown
<1>3. ASSUME WorkerLock(w) PROVE TypeOK' /\ HasTask'
  BY <1>3 DEF WorkerLock
<1>4. ASSUME WorkerTake(w) PROVE TypeOK' /\ HasTask'
  <2>1. PICK i \in 1..Len(jobs) : /\ wtask' = [wtask EXCEPT ![w] = jobs[i]]
                                  /\ jobs' = WithoutAt(jobs, i)
    BY <1>4 DEF WorkerTake
  <2>2. jobs' \in Seq(Tasks) /\ jobs[i] \in Tasks
    BY <2>1, WithoutAtShape
  <2>. QED BY <1>4, <2>1, <2>2 DEF WorkerTake
<1>5. ASSUME WorkerTakeNothing(w) PROVE TypeOK' /\ HasTask'
  BY <1>5 DEF WorkerTakeNothing, Undefined
<1>6. ASSUME WorkerFind(w) PROVE TypeOK' /\ HasTask'
  BY <1>6 DEF WorkerFind, Undefined
<1>7. ASSUME WorkerFindNone(w) PROVE TypeOK' /\ HasTask'
  BY <1>7 DEF WorkerFindNone, Undefined
<1>8. ASSUME WorkerRun(w) PROVE TypeOK' /\ HasTask'
  BY <1>8 DEF WorkerRun, Undefined
<1>9. ASSUME WorkerDone(w) PROVE TypeOK' /\ HasTask'
  BY <1>9 DEF WorkerDone, Undefined, Notify
<1>10. ASSUME WorkerDelete(w) PROVE TypeOK' /\ HasTask'
  BY <1>10 DEF WorkerDelete, Undefined
<1>. QED
  BY <1>1, <1>2, <1>3, <1>4, <1>5, <1>6, <1>7, <1>8, <1>9, <1>10 DEF Worker

\* A step of Init, Stop or a setter keeps the types.
LEMMA TypeOwner ==
    ASSUME TypeOK, HasTask, InitThreads \/ InitFlag \/ Configure \/ StopFlag \/ Stop
    PROVE  TypeOK' /\ HasTask'
<1> USE ConstantAssumption
    DEF TypeOK, HasTask, Holding, WorkerPcs, ClientPcs, OwnerPcs, Crashes, OwnerAt,
        poolVars, configVars, workerVars, clientVars, ownerVars, taskVars
<1>1. ASSUME InitThreads PROVE TypeOK' /\ HasTask'
  BY <1>1 DEF InitThreads
<1>2. ASSUME InitFlag PROVE TypeOK' /\ HasTask'
  BY <1>2 DEF InitFlag
<1>3. ASSUME NEW type \in Types, Register_taskProcess(type) PROVE TypeOK' /\ HasTask'
  BY <1>3 DEF Register_taskProcess
<1>4. ASSUME NEW type \in Types \cup {NoType}, setMaxPriorityType(type) PROVE TypeOK' /\ HasTask'
  BY <1>4 DEF setMaxPriorityType, MayConfigure
<1>5. ASSUME NEW type \in Types \cup {NoType}, setMergeTaskType(type) PROVE TypeOK' /\ HasTask'
  BY <1>5 DEF setMergeTaskType, MayConfigure
<1>6. ASSUME NEW f \in BOOLEAN, setTaskCmp(f) PROVE TypeOK' /\ HasTask'
  BY <1>6 DEF setTaskCmp, MayConfigure
<1>7. ASSUME StopFlag PROVE TypeOK' /\ HasTask'
  <2>1. stops' \in 0..MaxStops
    BY <1>7 DEF StopFlag
  <2>2. flag' \in BOOLEAN
    BY <1>7, Zenon DEF StopFlag
  <2>. QED BY <1>7, <2>1, <2>2 DEF StopFlag
<1>8. ASSUME StopPost PROVE TypeOK' /\ HasTask'
  BY <1>8 DEF StopPost, SemUp
<1>9. ASSUME StopProcs PROVE TypeOK' /\ HasTask'
  BY <1>9 DEF StopProcs
<1>10. ASSUME StopClear PROVE TypeOK' /\ HasTask'
  BY <1>10 DEF StopClear
<1>11. ASSUME StopFetch PROVE TypeOK' /\ HasTask'
  BY <1>11 DEF StopFetch, Undefined
<1>12. ASSUME StopCancel PROVE TypeOK' /\ HasTask'
  BY <1>12 DEF StopCancel, Undefined, Notify
<1>13. ASSUME StopPop PROVE TypeOK' /\ HasTask'
  <2>1. jobs' \in Seq(Tasks)
    <3>1. CASE jobs = << >>
      BY <1>13, <3>1 DEF StopPop
    <3>2. CASE jobs # << >>
      <4>1. 1 \in 1..Len(jobs)
        BY <3>2
      <4>. QED BY <1>13, <3>2, <4>1, WithoutAtShape DEF StopPop
    <3>. QED BY <3>1, <3>2
  <2>2. crash' \in Crashes
    BY <1>13 DEF StopPop
  <2>. QED BY <1>13, <2>1, <2>2 DEF StopPop
<1>14. ASSUME StopEnd PROVE TypeOK' /\ HasTask'
  BY <1>14 DEF StopEnd, Undefined
<1>. QED
  BY <1>1, <1>2, <1>3, <1>4, <1>5, <1>6, <1>7, <1>8, <1>9, <1>10, <1>11, <1>12, <1>13, <1>14 DEF Configure, Stop

\* Every value of every variable stays in its type (TypeOK), for all constants.
THEOREM TypeCorrect == Spec => [](TypeOK /\ HasTask)
<1>1. Init => TypeOK /\ HasTask
  BY TypeInit
<1>2. TypeOK /\ HasTask /\ [Next]_vars => TypeOK' /\ HasTask'
  <2> SUFFICES ASSUME TypeOK, HasTask, [Next]_vars PROVE TypeOK' /\ HasTask'
    OBVIOUS
  <2>1. CASE Next
    BY <2>1, TypeClient, TypeWorker, TypeOwner DEF Next
  <2>2. CASE UNCHANGED vars
    BY <2>2 DEF vars, poolVars, configVars, workerVars, clientVars, ownerVars, taskVars,
                TypeOK, HasTask, Holding
  <2>. QED BY <2>1, <2>2
<1>. QED BY <1>1, <1>2, PTL DEF Spec

-----------------------------------------------------------------------------
(* Ownership up to the first Stop *)

Submitting(c) == cpc[c] \in {"lock", "find", "push", "drop"}

\* Until Stop is called the owner is not inside it and no process is deleted.
BeforeStop == stops = 0 => opc \in {"idle", "init"} /\ \A w \in Workers : wpc[w] # "stale"

\* The verdict on a task tells where it can be.
VerdictTells ==
    stops = 0 =>
        /\ \A t \in Queued : verdict[t] = "queued"
        /\ \A w \in Workers : Holding(w) => verdict[wtask[w]] = "queued"
        /\ \A t \in freed : verdict[t] \in {"queued", "merged"}
        /\ \A c \in Clients : Submitting(c) =>
              /\ verdict[cjob[c]] = "pending"
              /\ \A d \in Clients \ {c} : Submitting(d) => cjob[d] # cjob[c]

OwnInv == TypeOK /\ HasTask /\ BeforeStop /\ VerdictTells /\ SingleOwner

\* push_back adds its task, and nothing else, to the queued ones.
LEMMA QueuedPush ==
    ASSUME TypeOK, NEW t \in Tasks, jobs' = Append(jobs, t), t \notin Queued,
           \A i, j \in 1..Len(jobs) : jobs[i] = jobs[j] => i = j
    PROVE  /\ Queued' = Queued \cup {t}
           /\ \A i, j \in 1..Len(jobs') : jobs'[i] = jobs'[j] => i = j
<1>1. jobs \in Seq(Tasks) /\ Len(jobs) \in Nat
  BY DEF TypeOK
<1>2. Len(jobs') = Len(jobs) + 1 /\ jobs'[Len(jobs) + 1] = t
  BY <1>1
<1>3. \A i \in 1..Len(jobs) : jobs'[i] = jobs[i]
  BY <1>1
<1>4. \A i \in 1..Len(jobs) : jobs[i] # t
  BY DEF Queued
<1>5. Queued' = Queued \cup {t}
  BY <1>1, <1>2, <1>3 DEF Queued
<1>6. \A i, j \in 1..Len(jobs') : jobs'[i] = jobs'[j] => i = j
  BY <1>1, <1>2, <1>3, <1>4
<1>. QED BY <1>5, <1>6

\* Taking the task at position k removes it, and nothing else, from a list without
\* repetitions.
LEMMA QueuedTake ==
    ASSUME TypeOK, NEW k \in 1..Len(jobs), jobs' = WithoutAt(jobs, k),
           \A i, j \in 1..Len(jobs) : jobs[i] = jobs[j] => i = j
    PROVE  /\ Queued' = Queued \ {jobs[k]}
           /\ jobs[k] \in Queued
           /\ \A i, j \in 1..Len(jobs') : jobs'[i] = jobs'[j] => i = j
<1>1. jobs \in Seq(Tasks) /\ Len(jobs) \in Nat
  BY DEF TypeOK
<1>2. /\ Len(jobs') = Len(jobs) - 1
      /\ \A j \in 1..(Len(jobs) - 1) : jobs'[j] = IF j < k THEN jobs[j] ELSE jobs[j + 1]
  BY <1>1, WithoutAtShape
<1>3. \A i, j \in 1..Len(jobs') : jobs'[i] = jobs'[j] => i = j
  BY <1>1, <1>2
<1>4. ASSUME NEW t \in Queued' PROVE t \in Queued \ {jobs[k]}
  <2>1. PICK j \in 1..Len(jobs') : t = jobs'[j]
    BY DEF Queued
  <2>2. j \in 1..Len(jobs) /\ j + 1 \in 1..Len(jobs)
    BY <1>1, <1>2
  <2>3. CASE j < k
    BY <1>1, <1>2, <2>1, <2>2, <2>3 DEF Queued
  <2>4. CASE ~ (j < k)
    <3>1. t = jobs[j + 1] /\ j + 1 # k
      BY <1>1, <1>2, <2>1, <2>2, <2>4
    <3>. QED BY <2>2, <3>1 DEF Queued
  <2>. QED BY <2>3, <2>4
<1>5. ASSUME NEW t \in Queued, t # jobs[k] PROVE t \in Queued'
  <2>1. PICK j \in 1..Len(jobs) : t = jobs[j]
    BY DEF Queued
  <2>2. CASE j < k
    <3>1. j \in 1..Len(jobs') /\ jobs'[j] = t
      BY <1>1, <1>2, <2>1, <2>2
    <3>. QED BY <3>1 DEF Queued
  <2>3. CASE j > k
    <3>1. j - 1 \in 1..Len(jobs') /\ jobs'[j - 1] = t
      BY <1>1, <1>2, <2>1, <2>3
    <3>. QED BY <3>1 DEF Queued
  <2>4. j # k
    BY <1>5, <2>1
  <2>. QED BY <1>1, <2>2, <2>3, <2>4
<1>6. jobs[k] \in Queued
  BY DEF Queued
<1>7. Queued' = Queued \ {jobs[k]}
  BY <1>4, <1>5
<1>. QED BY <1>3, <1>6, <1>7

\* A step of submit_job_req keeps every task with one owner.
LEMMA OwnClient ==
    ASSUME OwnInv, TypeOK', HasTask', NEW c \in Clients, Client(c)
    PROVE  BeforeStop' /\ VerdictTells' /\ SingleOwner'
<1> USE DEF OwnInv, BeforeStop, VerdictTells, SingleOwner, Submitting, Holding, TypeOK,
            HasTask, WorkerPcs, ClientPcs, OwnerPcs, ClientAt,
            poolVars, configVars, workerVars, clientVars, ownerVars, taskVars
<1>1. ASSUME NEW t \in Tasks, SubmitEnter(c, t)
      PROVE  BeforeStop' /\ VerdictTells' /\ SingleOwner'
  <2>1. Queued' = Queued
    BY <1>1 DEF SubmitEnter, Queued
  <2>. QED BY <1>1, <2>1 DEF SubmitEnter
<1>2. ASSUME NEW t \in Tasks, SubmitRefused(c, t)
      PROVE  BeforeStop' /\ VerdictTells' /\ SingleOwner'
  <2>1. Queued' = Queued
    BY <1>2 DEF SubmitRefused, Queued
  <2>. QED BY <1>2, <2>1 DEF SubmitRefused
<1>3. ASSUME SubmitLock(c)
      PROVE  BeforeStop' /\ VerdictTells' /\ SingleOwner'
  <2>1. Queued' = Queued
    BY <1>3 DEF SubmitLock, Queued
  <2>. QED BY <1>3, <2>1 DEF SubmitLock
<1>4. ASSUME SubmitFind(c)
      PROVE  BeforeStop' /\ VerdictTells' /\ SingleOwner'
  <2>1. Queued' = Queued
    BY <1>4 DEF SubmitFind, Queued
  <2>. QED BY <1>4, <2>1 DEF SubmitFind
<1>5. ASSUME SubmitDrop(c)
      PROVE  BeforeStop' /\ VerdictTells' /\ SingleOwner'
  <2>1. Queued' = Queued
    BY <1>5 DEF SubmitDrop, Queued
  <2>. QED BY <1>5, <2>1 DEF SubmitDrop
<1>6. ASSUME SubmitPush(c)
      PROVE  BeforeStop' /\ VerdictTells' /\ SingleOwner'
  <2> SUFFICES ASSUME stops = 0 PROVE BeforeStop' /\ VerdictTells' /\ SingleOwner'
    BY <1>6 DEF SubmitPush
  <2>1. cjob[c] \in Tasks /\ cjob[c] \notin Queued
    BY <1>6 DEF SubmitPush
  <2>2. /\ Queued' = Queued \cup {cjob[c]}
        /\ \A i, j \in 1..Len(jobs') : jobs'[i] = jobs'[j] => i = j
    BY <1>6, <2>1, QueuedPush DEF SubmitPush
  <2>3. /\ verdict' = [verdict EXCEPT ![cjob[c]] = "queued"]
        /\ cpc' = [cpc EXCEPT ![c] = "post"]
        /\ UNCHANGED <<cjob, wpc, wtask, freed, opc, stops>>
    BY <1>6 DEF SubmitPush
  <2>4. verdict[cjob[c]] = "pending"
    BY <1>6 DEF SubmitPush
  <2>5. BeforeStop'
    BY <2>3
  <2>6. VerdictTells'
    <3>1. \A t \in Queued' : verdict'[t] = "queued"
      BY <2>1, <2>2, <2>3
    <3>2. \A d \in Clients : Submitting(d)' => Submitting(d) /\ d # c
      BY <2>3
    <3>3. \A d \in Clients : Submitting(d)' =>
             /\ verdict'[cjob'[d]] = "pending"
             /\ \A e \in Clients \ {d} : Submitting(e)' => cjob'[e] # cjob'[d]
      BY <2>1, <2>3, <3>2, <1>6 DEF SubmitPush
    <3>. QED BY <2>1, <2>3, <3>1, <3>3
  <2>7. SingleOwner'
    <3>1. cjob[c] \notin freed /\ \A w \in Workers : Holding(w) => wtask[w] # cjob[c]
      BY <2>4
    <3>2. Queued' \cap freed' = {}
      BY <2>2, <2>3, <3>1
    <3>3. \A w \in Workers : (Holding(w))' =>
             /\ wtask'[w] \notin Queued' \cup freed'
             /\ \A v \in Workers \ {w} : (Holding(v))' => wtask'[v] # wtask'[w]
      BY <2>2, <2>3, <3>1
    <3>. QED BY <2>2, <3>2, <3>3
  <2>. QED BY <2>5, <2>6, <2>7
<1>7. ASSUME SubmitPost(c)
      PROVE  BeforeStop' /\ VerdictTells' /\ SingleOwner'
  <2>1. Queued' = Queued
    BY <1>7 DEF SubmitPost, Queued
  <2>. QED BY <1>7, <2>1 DEF SubmitPost
<1>8. ASSUME SubmitWait(c)
      PROVE  BeforeStop' /\ VerdictTells' /\ SingleOwner'
  <2>1. Queued' = Queued
    BY <1>8 DEF SubmitWait, Queued
  <2>. QED BY <1>8, <2>1 DEF SubmitWait
<1>. QED
  BY <1>1, <1>2, <1>3, <1>4, <1>5, <1>6, <1>7, <1>8 DEF Client

\* A step of a worker keeps every task with one owner.
LEMMA OwnWorker ==
    ASSUME OwnInv, TypeOK', HasTask', NEW w \in Workers, Worker(w)
    PROVE  BeforeStop' /\ VerdictTells' /\ SingleOwner'
<1> USE DEF OwnInv, BeforeStop, VerdictTells, SingleOwner, Submitting, Holding, TypeOK,
            HasTask, WorkerPcs, ClientPcs, OwnerPcs, WorkerAt,
            poolVars, configVars, workerVars, clientVars, ownerVars, taskVars
<1>1. ASSUME WorkerLoop(w)
      PROVE  BeforeStop' /\ VerdictTells' /\ SingleOwner'
  <2>1. Queued' = Queued
    BY <1>1 DEF WorkerLoop, Queued
  <2>. QED BY <1>1, <2>1 DEF WorkerLoop
<1>2. ASSUME WorkerSemWait(w)
      PROVE  BeforeStop' /\ VerdictTells' /\ SingleOwner'
  <2>1. Queued' = Queued
    BY <1>2 DEF WorkerSemWait, Queued
  <2>. QED BY <1>2, <2>1 DEF WorkerSemWait
<1>3. ASSUME WorkerLock(w)
      PROVE  BeforeStop' /\ VerdictTells' /\ SingleOwner'
  <2>1. Queued' = Queued
    BY <1>3 DEF WorkerLock, Queued
  <2>. QED BY <1>3, <2>1 DEF WorkerLock
<1>4. ASSUME WorkerTake(w)
      PROVE  BeforeStop' /\ VerdictTells' /\ SingleOwner'
  <2> SUFFICES ASSUME stops = 0 PROVE BeforeStop' /\ VerdictTells' /\ SingleOwner'
    BY <1>4 DEF WorkerTake
  <2>1. PICK k \in 1..Len(jobs) : /\ wtask' = [wtask EXCEPT ![w] = jobs[k]]
                                  /\ jobs' = WithoutAt(jobs, k)
    BY <1>4 DEF WorkerTake
  <2>2. /\ Queued' = Queued \ {jobs[k]}
        /\ jobs[k] \in Queued
        /\ \A i, j \in 1..Len(jobs') : jobs'[i] = jobs'[j] => i = j
    BY <2>1, QueuedTake
  <2>. QED BY <1>4, <2>1, <2>2 DEF WorkerTake
<1>5. ASSUME WorkerTakeNothing(w)
      PROVE  BeforeStop' /\ VerdictTells' /\ SingleOwner'
  <2>1. Queued' = Queued
    BY <1>5 DEF WorkerTakeNothing, Queued
  <2>. QED BY <1>5, <2>1 DEF WorkerTakeNothing
<1>6. ASSUME WorkerFind(w)
      PROVE  BeforeStop' /\ VerdictTells' /\ SingleOwner'
  <2>1. Queued' = Queued
    BY <1>6 DEF WorkerFind, Queued
  <2>. QED BY <1>6, <2>1 DEF WorkerFind
<1>7. ASSUME WorkerFindNone(w)
      PROVE  BeforeStop' /\ VerdictTells' /\ SingleOwner'
  <2>1. Queued' = Queued
    BY <1>7 DEF WorkerFindNone, Queued
  <2>. QED BY <1>7, <2>1 DEF WorkerFindNone
<1>8. ASSUME WorkerRun(w)
      PROVE  BeforeStop' /\ VerdictTells' /\ SingleOwner'
  <2>1. Queued' = Queued
    BY <1>8 DEF WorkerRun, Queued
  <2>. QED BY <1>8, <2>1 DEF WorkerRun
<1>9. ASSUME WorkerDone(w)
      PROVE  BeforeStop' /\ VerdictTells' /\ SingleOwner'
  <2>1. Queued' = Queued
    BY <1>9 DEF WorkerDone, Queued
  <2>. QED BY <1>9, <2>1 DEF WorkerDone
<1>10. ASSUME WorkerDelete(w)
      PROVE  BeforeStop' /\ VerdictTells' /\ SingleOwner'
  <2>1. Queued' = Queued
    BY <1>10 DEF WorkerDelete, Queued
  <2>. QED BY <1>10, <2>1 DEF WorkerDelete
<1>. QED
  BY <1>1, <1>2, <1>3, <1>4, <1>5, <1>6, <1>7, <1>8, <1>9, <1>10 DEF Worker

\* Starting and configuring the pool keep every task with one owner; after StopFlag
\* nothing is claimed.
LEMMA OwnOwner ==
    ASSUME OwnInv, TypeOK', HasTask', InitThreads \/ InitFlag \/ Configure \/ StopFlag \/ Stop
    PROVE  BeforeStop' /\ VerdictTells' /\ SingleOwner'
<1> USE DEF OwnInv, BeforeStop, VerdictTells, SingleOwner, Submitting, Holding, TypeOK,
            HasTask, WorkerPcs, ClientPcs, OwnerPcs, OwnerAt,
            poolVars, configVars, workerVars, clientVars, ownerVars, taskVars
<1>1. ASSUME InitThreads
      PROVE  BeforeStop' /\ VerdictTells' /\ SingleOwner'
  <2>1. Queued' = Queued
    BY <1>1 DEF InitThreads, Queued
  <2>. QED BY <1>1, <2>1 DEF InitThreads
<1>2. ASSUME InitFlag
      PROVE  BeforeStop' /\ VerdictTells' /\ SingleOwner'
  <2>1. Queued' = Queued
    BY <1>2 DEF InitFlag, Queued
  <2>. QED BY <1>2, <2>1 DEF InitFlag
<1>3. ASSUME NEW type \in Types, Register_taskProcess(type)
      PROVE  BeforeStop' /\ VerdictTells' /\ SingleOwner'
  <2>1. Queued' = Queued
    BY <1>3 DEF Register_taskProcess, Queued
  <2>. QED BY <1>3, <2>1 DEF Register_taskProcess
<1>4. ASSUME NEW type \in Types \cup {NoType}, setMaxPriorityType(type)
      PROVE  BeforeStop' /\ VerdictTells' /\ SingleOwner'
  <2>1. Queued' = Queued
    BY <1>4 DEF setMaxPriorityType, MayConfigure, Queued
  <2>. QED BY <1>4, <2>1 DEF setMaxPriorityType, MayConfigure
<1>5. ASSUME NEW type \in Types \cup {NoType}, setMergeTaskType(type)
      PROVE  BeforeStop' /\ VerdictTells' /\ SingleOwner'
  <2>1. Queued' = Queued
    BY <1>5 DEF setMergeTaskType, MayConfigure, Queued
  <2>. QED BY <1>5, <2>1 DEF setMergeTaskType, MayConfigure
<1>6. ASSUME NEW f \in BOOLEAN, setTaskCmp(f)
      PROVE  BeforeStop' /\ VerdictTells' /\ SingleOwner'
  <2>1. Queued' = Queued
    BY <1>6 DEF setTaskCmp, MayConfigure, Queued
  <2>. QED BY <1>6, <2>1 DEF setTaskCmp, MayConfigure
<1>7. ASSUME StopFlag
      PROVE  BeforeStop' /\ VerdictTells' /\ SingleOwner'
  BY <1>7 DEF StopFlag
<1>8. ASSUME Stop
      PROVE  BeforeStop' /\ VerdictTells' /\ SingleOwner'
  BY <1>8 DEF Stop, StopPost, StopProcs, StopClear, StopFetch, StopCancel, StopPop, StopEnd
<1>. QED
  BY <1>1, <1>2, <1>3, <1>4, <1>5, <1>6, <1>7, <1>8 DEF Configure

-----------------------------------------------------------------------------
(* Permits match jobs up to the first Stop *)

\* The workers between sem_wait and pop, and the submitters between push and sem_post,
\* can be counted.
LEMMA Counts ==
    /\ IsFiniteSet(Awake) /\ Cardinality(Awake) \in Nat
    /\ IsFiniteSet(Posting) /\ Cardinality(Posting) \in Nat
<1>1. Awake \subseteq Workers /\ Posting \subseteq Clients
  BY DEF Awake, Posting
<1>2. IsFiniteSet(Awake) /\ IsFiniteSet(Posting)
  BY <1>1, FS_Subset, ConstantAssumption
<1>. QED BY <1>2, FS_CardinalityType

\* A step of submit_job_req keeps permits and jobs in balance.
LEMMA PermitClient ==
    ASSUME OwnInv, PermitPerJob, NEW c \in Clients, Client(c)
    PROVE  PermitPerJob'
<1> SUFFICES ASSUME stops = 0, stops' = 0
             PROVE  Len(jobs') = sem' + Cardinality(Awake') + Cardinality(Posting')
  BY DEF PermitPerJob, Client, SubmitEnter, SubmitRefused, SubmitLock, SubmitFind,
         SubmitDrop, SubmitPush, SubmitPost, SubmitWait, ownerVars
<1> DEFINE A == Cardinality(Awake)
           Q == Cardinality(Posting)
<1>1. A \in Nat /\ Q \in Nat /\ sem \in Nat /\ jobs \in Seq(Tasks) /\ cpc \in [Clients -> ClientPcs]
  BY Counts DEF OwnInv, TypeOK
<1>2. Len(jobs) = sem + A + Q
  BY DEF PermitPerJob
<1>3. Awake' = Awake
  BY DEF Awake, Client, SubmitEnter, SubmitRefused, SubmitLock, SubmitFind, SubmitDrop,
         SubmitPush, SubmitPost, SubmitWait, workerVars
<1>4. CASE SubmitPush(c)
  <2>1. Posting' = Posting \cup {c} /\ c \notin Posting
    BY <1>1, <1>4 DEF SubmitPush, Posting, ClientAt
  <2>2. Cardinality(Posting') = Q + 1
    BY <2>1, Counts, FS_AddElement
  <2>3. Len(jobs') = Len(jobs) + 1 /\ sem' = sem
    BY <1>1, <1>4 DEF SubmitPush
  <2>. QED BY <1>1, <1>2, <1>3, <2>2, <2>3
<1>5. CASE SubmitPost(c)
  <2>1. Posting' = Posting \ {c} /\ c \in Posting
    BY <1>1, <1>5 DEF SubmitPost, Posting, ClientAt
  <2>2. Cardinality(Posting') = Q - 1
    BY <2>1, Counts, FS_RemoveElement
  <2>3. Len(jobs') = Len(jobs) /\ sem' = sem + 1
    BY <1>1, <1>5 DEF SubmitPost, SemUp
  <2>. QED BY <1>1, <1>2, <1>3, <2>2, <2>3
<1>6. CASE \/ \E t \in Tasks : SubmitEnter(c, t) \/ SubmitRefused(c, t)
           \/ SubmitLock(c) \/ SubmitFind(c) \/ SubmitDrop(c) \/ SubmitWait(c)
  <2>1. Posting' = Posting
    BY <1>1, <1>6 DEF Posting, SubmitEnter, SubmitRefused, SubmitLock, SubmitFind,
         SubmitDrop, SubmitWait, ClientAt, clientVars
  <2>2. jobs' = jobs /\ sem' = sem
    BY <1>6 DEF SubmitEnter, SubmitRefused, SubmitLock, SubmitFind, SubmitDrop,
         SubmitWait, poolVars
  <2>. QED BY <1>2, <1>3, <2>1, <2>2
<1>. QED BY <1>4, <1>5, <1>6 DEF Client

\* A step of a worker keeps the balance, and never finds the list empty.
LEMMA PermitWorker ==
    ASSUME OwnInv, PermitPerJob, NEW w \in Workers, Worker(w)
    PROVE  PermitPerJob' /\ (stops = 0 => ~ WorkerTakeNothing(w))
<1> USE DEF WorkerAt
<1>0. Posting' = Posting /\ stops' = stops
  BY DEF Posting, Worker, WorkerLoop, WorkerSemWait, WorkerLock, WorkerTake,
         WorkerTakeNothing, WorkerFind, WorkerFindNone, WorkerRun, WorkerDone,
         WorkerDelete, clientVars, ownerVars
<1> SUFFICES ASSUME stops = 0
             PROVE  /\ Len(jobs') = sem' + Cardinality(Awake') + Cardinality(Posting)
                    /\ ~ WorkerTakeNothing(w)
  BY <1>0 DEF PermitPerJob
<1> DEFINE A == Cardinality(Awake)
           Q == Cardinality(Posting)
<1>1. A \in Nat /\ Q \in Nat /\ sem \in Nat /\ jobs \in Seq(Tasks) /\ wpc \in [Workers -> WorkerPcs]
  BY Counts DEF OwnInv, TypeOK
<1>2. Len(jobs) = sem + A + Q
  BY DEF PermitPerJob
<1>3. ~ WorkerTakeNothing(w)
  <2> SUFFICES ASSUME WorkerTakeNothing(w) PROVE FALSE
    OBVIOUS
  <2>1. w \in Awake /\ Len(jobs) = 0
    BY <1>1 DEF WorkerTakeNothing, Awake
  <2>2. A = 0
    BY <1>1, <1>2, <2>1
  <2>3. Awake = {}
    BY <2>2, Counts, FS_EmptySet
  <2>. QED BY <2>1, <2>3
<1>4. CASE WorkerSemWait(w)
  <2>1. Awake' = Awake \cup {w} /\ w \notin Awake
    BY <1>1, <1>4 DEF WorkerSemWait, Awake
  <2>2. Cardinality(Awake') = A + 1
    BY <2>1, Counts, FS_AddElement
  <2>3. jobs' = jobs /\ sem' = sem - 1
    BY <1>4 DEF WorkerSemWait, SemDown
  <2>. QED BY <1>1, <1>2, <1>3, <2>2, <2>3
<1>5. CASE WorkerTake(w)
  <2>1. Awake' = Awake \ {w} /\ w \in Awake
    BY <1>1, <1>5 DEF WorkerTake, Awake
  <2>2. Cardinality(Awake') = A - 1
    BY <2>1, Counts, FS_RemoveElement
  <2>3. Len(jobs') = Len(jobs) - 1 /\ sem' = sem
    BY <1>1, <1>5, WithoutAtShape DEF WorkerTake
  <2>. QED BY <1>1, <1>2, <1>3, <2>2, <2>3
<1>6. CASE \/ WorkerLoop(w) \/ WorkerLock(w) \/ WorkerFind(w) \/ WorkerFindNone(w)
           \/ WorkerRun(w) \/ WorkerDone(w) \/ WorkerDelete(w)
  <2>1. Awake' = Awake
    BY <1>1, <1>6 DEF Awake, WorkerLoop, WorkerLock, WorkerFind, WorkerFindNone,
         WorkerRun, WorkerDone, WorkerDelete
  <2>2. jobs' = jobs /\ sem' = sem
    BY <1>6 DEF WorkerLoop, WorkerLock, WorkerFind, WorkerFindNone, WorkerRun,
         WorkerDone, WorkerDelete, poolVars
  <2>. QED BY <1>2, <1>3, <2>1, <2>2
<1>. QED BY <1>3, <1>4, <1>5, <1>6 DEF Worker

\* Starting and configuring the pool keep the balance.
LEMMA PermitOwner ==
    ASSUME OwnInv, PermitPerJob, InitThreads \/ InitFlag \/ Configure \/ StopFlag \/ Stop
    PROVE  PermitPerJob'
<1> SUFFICES ASSUME stops' = 0
             PROVE  Len(jobs') = sem' + Cardinality(Awake') + Cardinality(Posting')
  BY DEF PermitPerJob
<1> USE DEF OwnerAt, poolVars, workerVars, clientVars, ownerVars
<1>1. ~ StopFlag
  BY DEF StopFlag, OwnInv, TypeOK
<1>2. ~ Stop
  BY DEF Stop, StopPost, StopProcs, StopClear, StopFetch, StopCancel, StopPop, StopEnd,
         OwnInv, BeforeStop
<1>3. CASE InitThreads
  <2>1. Awake' = Awake /\ Posting' = Posting
    BY <1>3 DEF Awake, Posting, InitThreads, OwnInv, TypeOK
  <2>. QED BY <1>3, <2>1 DEF PermitPerJob, InitThreads
<1>4. CASE InitFlag \/ Configure
  <2>1. UNCHANGED <<wpc, cpc, jobs, sem, stops>>
    BY <1>4 DEF InitFlag, Configure, Register_taskProcess, setMaxPriorityType,
         setMergeTaskType, setTaskCmp
  <2>2. Awake' = Awake /\ Posting' = Posting
    BY <2>1 DEF Awake, Posting
  <2>. QED BY <2>1, <2>2 DEF PermitPerJob
<1>. QED BY <1>1, <1>2, <1>3, <1>4

-----------------------------------------------------------------------------
(* The theorems *)

IInv == OwnInv /\ PermitPerJob /\ OnlyLateWait

\* No step but the late job->wait() is undefined before Stop.
LEMMA LateWaitStep ==
    ASSUME IInv, Next PROVE OnlyLateWait'
<1> USE DEF IInv, OwnInv, OnlyLateWait, SingleOwner, BeforeStop, Holding, Undefined
<1>1. ASSUME NEW c \in Clients, Client(c) PROVE OnlyLateWait'
  BY <1>1 DEF Client, ClientAt, SubmitEnter, SubmitRefused, SubmitLock, SubmitFind,
       SubmitDrop, SubmitPush, SubmitPost, SubmitWait, ownerVars
<1>2. ASSUME NEW w \in Workers, Worker(w) PROVE OnlyLateWait'
  <2>1. stops = 0 => ~ WorkerTakeNothing(w)
    BY <1>2, PermitWorker
  <2>. QED BY <1>2, <2>1 DEF Worker, WorkerAt, WorkerLoop, WorkerSemWait, WorkerLock,
             WorkerTake, WorkerTakeNothing, WorkerFind, WorkerFindNone, WorkerRun,
             WorkerDone, WorkerDelete, ownerVars
<1>3. ASSUME InitThreads \/ InitFlag \/ Configure \/ StopFlag \/ Stop PROVE OnlyLateWait'
  <2>1. CASE StopFlag
    BY <2>1 DEF StopFlag, TypeOK
  <2>2. CASE InitThreads \/ InitFlag \/ Configure
    BY <2>2 DEF InitThreads, InitFlag, Configure, Register_taskProcess, MayConfigure,
         setMaxPriorityType, setMergeTaskType, setTaskCmp, OwnerAt, ownerVars
  <2>3. CASE Stop
    BY <2>3 DEF Stop, StopPost, StopProcs, StopClear, StopFetch, StopCancel, StopPop,
         StopEnd, OwnerAt
  <2>. QED BY <1>3, <2>1, <2>2, <2>3
<1>. QED BY <1>1, <1>2, <1>3 DEF Next

\* The inductive invariant: types, ownership of tasks and the balance of permits.
THEOREM Inductive == Spec => []IInv
<1>1. Init => IInv
  <2> SUFFICES ASSUME Init PROVE IInv
    OBVIOUS
  <2>1. TypeOK /\ HasTask
    BY TypeInit
  <2>2. BeforeStop /\ VerdictTells /\ SingleOwner /\ OnlyLateWait
    BY DEF Init, BeforeStop, VerdictTells, SingleOwner, OnlyLateWait, Holding, Queued,
           Submitting
  <2>3. PermitPerJob
    <3>1. Awake = {} /\ Posting = {}
      BY DEF Init, Awake, Posting
    <3>. QED BY <3>1, FS_EmptySet DEF Init, PermitPerJob
  <2>. QED BY <2>1, <2>2, <2>3 DEF IInv, OwnInv
<1>2. IInv /\ [Next]_vars => IInv'
  <2> SUFFICES ASSUME IInv, [Next]_vars PROVE IInv'
    OBVIOUS
  <2>1. CASE Next
    <3>1. TypeOK' /\ HasTask'
      BY <2>1, TypeClient, TypeWorker, TypeOwner DEF Next, IInv, OwnInv
    <3>2. BeforeStop' /\ VerdictTells' /\ SingleOwner'
      BY <2>1, <3>1, OwnClient, OwnWorker, OwnOwner DEF Next, IInv
    <3>3. PermitPerJob'
      BY <2>1, PermitClient, PermitWorker, PermitOwner DEF Next, IInv
    <3>4. OnlyLateWait'
      BY <2>1, LateWaitStep
    <3>. QED BY <3>1, <3>2, <3>3, <3>4 DEF IInv, OwnInv
  <2>2. CASE UNCHANGED vars
    BY <2>2 DEF vars, poolVars, configVars, workerVars, clientVars, ownerVars, taskVars,
         IInv, OwnInv, TypeOK, HasTask, BeforeStop, VerdictTells, SingleOwner, Holding,
         Submitting, Queued, PermitPerJob, Awake, Posting, OnlyLateWait
  <2>. QED BY <2>1, <2>2
<1>. QED BY <1>1, <1>2, PTL DEF Spec

\* Before the first Stop every queued job is matched by a permit, a worker about to
\* pop or a submitter about to post (ThreadPoolImpl_Linux.cpp, lines 43-46 and 54-61).
THEOREM PermitSafe == Spec => []PermitPerJob
<1>1. IInv => PermitPerJob
  BY DEF IInv
<1>. QED BY <1>1, Inductive, PTL

\* Before the first Stop a task is queued once, held by one worker, or neither, and
\* no queued or held task is deleted.
THEOREM OwnerSafe == Spec => []SingleOwner
<1>1. IInv => SingleOwner
  BY DEF IInv, OwnInv
<1>. QED BY <1>1, Inductive, PTL

\* Before the first Stop the pool meets no undefined behaviour but the wait() of
\* line 47 on a deleted job.
THEOREM LateWaitOnly == Spec => []OnlyLateWait
<1>1. IInv => OnlyLateWait
  BY DEF IInv
<1>. QED BY <1>1, Inductive, PTL

-----------------------------------------------------------------------------
(* Merging, for settings made beforehand *)

\* Who is between lock and unlock of m_lock holds it.
LockHeld ==
    /\ \A c \in Clients : cpc[c] \in {"find", "push", "drop"} => lock = c
    /\ \A w \in Workers : wpc[w] = "take" => lock = w

\* A queued task was accepted, and a task under submission is pending and has one submitter,
\* also during and after Stop.
Accounted ==
    /\ \A t \in Queued : verdict[t] = "queued"
    /\ \A c \in Clients : Submitting(c) =>
          /\ verdict[cjob[c]] = "pending"
          /\ \A d \in Clients \ {c} : Submitting(d) => cjob[d] # cjob[c]

\* What the look-up has found stays true until the unlock.
LookedUp ==
    fixed => \A c \in Clients :
        /\ cpc[c] = "push" /\ mergeType # NoType =>
              \A o \in Queued : ~ TaskTypeCompare(o, cjob[c])
        /\ cpc[c] = "drop" /\ cmp =>
              /\ TypeOf[cjob[c]] = mergeType
              /\ \E o \in Tasks : verdict[o] = "queued" /\ KeyOf[o] = KeyOf[cjob[c]]
                                  /\ TypeOf[o] = TypeOf[cjob[c]]

MergeInv == LockHeld /\ Accounted /\ LookedUp /\ MergeSound

\* What the merge invariant says depends on these variables only, and list::erase only
\* takes tasks away.
LEMMA MergeFrame ==
    ASSUME TypeOK, MergeInv,
           UNCHANGED <<cpc, cjob, verdict, mergeType, cmp, fixed>>,
           \/ jobs' = jobs
           \/ \E k \in 1..Len(jobs) : jobs' = WithoutAt(jobs, k)
    PROVE  Accounted' /\ LookedUp' /\ MergeSound'
<1> USE DEF MergeInv
<1>1. /\ Queued' \subseteq Queued
      /\ \A i, j \in 1..Len(jobs') : i < j =>
            \E m, n \in 1..Len(jobs) : m < n /\ jobs'[i] = jobs[m] /\ jobs'[j] = jobs[n]
  <2>1. jobs \in Seq(Tasks) /\ Len(jobs) \in Nat
    BY DEF TypeOK
  <2>2. CASE jobs' = jobs
    BY <2>2 DEF Queued
  <2>3. ASSUME NEW k \in 1..Len(jobs), jobs' = WithoutAt(jobs, k)
        PROVE  /\ Queued' \subseteq Queued
               /\ \A i, j \in 1..Len(jobs') : i < j =>
                     \E m, n \in 1..Len(jobs) : m < n /\ jobs'[i] = jobs[m] /\ jobs'[j] = jobs[n]
    <3>1. /\ Len(jobs') = Len(jobs) - 1
          /\ \A j \in 1..(Len(jobs) - 1) : jobs'[j] = IF j < k THEN jobs[j] ELSE jobs[j + 1]
      BY <2>1, <2>3, WithoutAtShape
    <3> DEFINE old(j) == IF j < k THEN j ELSE j + 1
    <3>2. \A j \in 1..Len(jobs') : old(j) \in 1..Len(jobs) /\ jobs'[j] = jobs[old(j)]
      BY <2>1, <3>1
    <3>3. \A i, j \in 1..Len(jobs') : i < j => old(i) < old(j)
      BY <2>1, <3>1
    <3>4. Queued' \subseteq Queued
      BY <3>2 DEF Queued
    <3> HIDE DEF old
    <3>. QED BY <3>2, <3>3, <3>4
  <2>. QED BY <2>2, <2>3
<1>3. \A o, t : TaskTypeCompare(o, t)' = TaskTypeCompare(o, t)
  BY DEF TaskTypeCompare
<1>4. Accounted'
  BY <1>1 DEF Accounted, Submitting
<1>5. LookedUp'
  BY <1>1, <1>3 DEF LookedUp
<1>6. MergeSound'
  <2>1. fixed' => MergeUnique'
    BY <1>1, <1>3 DEF MergeSound, MergeUnique
  <2>2. fixed' => MergedForTwin'
    BY DEF MergeSound, MergedForTwin
  <2>. QED BY <2>1, <2>2 DEF MergeSound
<1>. QED BY <1>4, <1>5, <1>6

\* A step of submit_job_req keeps the merge invariant.
LEMMA MergeClient ==
    ASSUME TypeOK, HasTask, MergeInv, NEW c \in Clients, Client(c)
    PROVE  MergeInv'
<1> USE ConstantAssumption
    DEF ClientAt, poolVars, configVars, workerVars, clientVars, ownerVars, taskVars
<1>0. /\ jobs \in Seq(Tasks) /\ Len(jobs) \in Nat
      /\ cpc \in [Clients -> ClientPcs] /\ cjob \in [Clients -> Tasks \cup {NoTask}]
      /\ verdict \in [Tasks -> {"new", "pending", "queued", "rejected", "merged"}]
      /\ \A d \in Clients : cpc[d] # "idle" => cjob[d] \in Tasks
  BY DEF TypeOK, HasTask
<1>1. \A o, t : mergeType' = mergeType /\ cmp' = cmp => TaskTypeCompare(o, t)' = TaskTypeCompare(o, t)
  BY DEF TaskTypeCompare
<1>2. ASSUME NEW t \in Tasks, SubmitEnter(c, t) PROVE MergeInv'
  <2>1. Queued' = Queued /\ UNCHANGED <<jobs, lock, wpc, mergeType, cmp, fixed>>
    BY <1>2 DEF SubmitEnter, Queued
  <2>2. LockHeld'
    BY <1>0, <1>2 DEF SubmitEnter, LockHeld, MergeInv
  <2>3. Accounted'
    BY <1>0, <1>2, <2>1 DEF SubmitEnter, Accounted, Submitting, MergeInv
  <2>4. LookedUp'
    <3>1. \A o \in Tasks : verdict[o] = "queued" => verdict'[o] = "queued"
      BY <1>0, <1>2 DEF SubmitEnter
    <3>2. \A d \in Clients : cpc'[d] \in {"push", "drop"} => cpc'[d] = cpc[d] /\ cjob'[d] = cjob[d]
      BY <1>0, <1>2 DEF SubmitEnter
    <3>. QED BY <1>1, <2>1, <3>1, <3>2 DEF LookedUp, MergeInv
  <2>5. MergeSound'
    BY <1>0, <1>1, <1>2, <2>1 DEF SubmitEnter, MergeSound, MergeUnique, MergedForTwin, MergeInv
  <2>. QED BY <2>2, <2>3, <2>4, <2>5 DEF MergeInv
<1>3. ASSUME NEW t \in Tasks, SubmitRefused(c, t) PROVE MergeInv'
  <2>1. Queued' = Queued /\ UNCHANGED <<jobs, lock, wpc, cpc, cjob, mergeType, cmp, fixed>>
    BY <1>3 DEF SubmitRefused, Queued
  <2>2. LockHeld'
    BY <2>1 DEF LockHeld, MergeInv
  <2>3. Accounted'
    BY <1>0, <1>3, <2>1 DEF SubmitRefused, Accounted, Submitting, MergeInv
  <2>4. LookedUp'
    BY <1>0, <1>1, <1>3, <2>1 DEF SubmitRefused, LookedUp, MergeInv
  <2>5. MergeSound'
    BY <1>0, <1>1, <1>3, <2>1 DEF SubmitRefused, MergeSound, MergeUnique, MergedForTwin, MergeInv
  <2>. QED BY <2>2, <2>3, <2>4, <2>5 DEF MergeInv
<1>4. ASSUME SubmitLock(c) PROVE MergeInv'
  <2>1. Queued' = Queued /\ UNCHANGED <<jobs, wpc, cjob, verdict, mergeType, cmp, fixed>>
    BY <1>4 DEF SubmitLock, Queued
  <2>2. LockHeld'
    BY <1>0, <1>4 DEF SubmitLock, LockFree, LockHeld, MergeInv
  <2>3. Accounted'
    BY <1>0, <1>4, <2>1 DEF SubmitLock, Accounted, Submitting, MergeInv
  <2>4. LookedUp'
    BY <1>0, <1>1, <1>4, <2>1 DEF SubmitLock, LookedUp, MergeInv
  <2>5. MergeSound'
    BY <1>1, <2>1 DEF MergeSound, MergeUnique, MergedForTwin, MergeInv
  <2>. QED BY <2>2, <2>3, <2>4, <2>5 DEF MergeInv
<1>5. ASSUME SubmitFind(c) PROVE MergeInv'
  <2>1. Queued' = Queued /\ UNCHANGED <<jobs, lock, wpc, cjob, verdict, mergeType, cmp, fixed>>
    BY <1>5 DEF SubmitFind, Queued
  <2>2. LockHeld'
    BY <1>0, <1>5 DEF SubmitFind, LockHeld, MergeInv
  <2>3. Accounted'
    BY <1>0, <1>5, <2>1 DEF SubmitFind, Accounted, Submitting, MergeInv
  <2>4. LookedUp'
    <3>1. \A o \in Queued : o \in Tasks /\ verdict[o] = "queued"
      BY <1>0 DEF Queued, Accounted, MergeInv
    <3>2. cpc'[c] = IF MergeHit(cjob[c]) THEN "drop" ELSE "push"
      BY <1>0, <1>5 DEF SubmitFind
    <3>3. cpc'[c] = "push" /\ mergeType # NoType => \A o \in Queued : ~ TaskTypeCompare(o, cjob[c])
      BY <3>2 DEF MergeHit
    <3>4. cpc'[c] = "drop" /\ cmp =>
              /\ TypeOf[cjob[c]] = mergeType
              /\ \E o \in Tasks : verdict[o] = "queued" /\ KeyOf[o] = KeyOf[cjob[c]]
                                  /\ TypeOf[o] = TypeOf[cjob[c]]
      BY <3>1, <3>2 DEF MergeHit, TaskTypeCompare
    <3>5. \A d \in Clients \ {c} : cpc'[d] = cpc[d]
      BY <1>0, <1>5 DEF SubmitFind
    <3>. QED BY <1>1, <2>1, <3>3, <3>4, <3>5 DEF LookedUp, MergeInv
  <2>5. MergeSound'
    BY <1>1, <2>1 DEF MergeSound, MergeUnique, MergedForTwin, MergeInv
  <2>. QED BY <2>2, <2>3, <2>4, <2>5 DEF MergeInv
<1>6. ASSUME SubmitDrop(c) PROVE MergeInv'
  <2>1. Queued' = Queued /\ UNCHANGED <<jobs, wpc, mergeType, cmp, fixed>>
    BY <1>6 DEF SubmitDrop, Queued
  <2>2. LockHeld'
    BY <1>0, <1>6 DEF SubmitDrop, LockHeld, MergeInv
  <2>3. Accounted'
    BY <1>0, <1>6, <2>1 DEF SubmitDrop, Accounted, Submitting, MergeInv
  <2>4. \A o \in Tasks : verdict[o] = "queued" => verdict'[o] = "queued"
    BY <1>0, <1>6 DEF SubmitDrop, Accounted, Submitting, MergeInv
  <2>5. LookedUp'
    <3>1. \A d \in Clients : cpc'[d] \in {"push", "drop"} => cpc'[d] = cpc[d] /\ cjob'[d] = cjob[d]
      BY <1>0, <1>6 DEF SubmitDrop
    <3>. QED BY <1>1, <2>1, <2>4, <3>1 DEF LookedUp, MergeInv
  <2>6. fixed' => MergeUnique'
    BY <1>1, <2>1 DEF MergeSound, MergeUnique, MergeInv
  <2>7. fixed' => MergedForTwin'
    <3>1. \A t \in Tasks : verdict'[t] = "merged" => verdict[t] = "merged" \/ t = cjob[c]
      BY <1>0, <1>6 DEF SubmitDrop
    <3>2. cpc[c] = "drop"
      BY <1>6 DEF SubmitDrop
    <3>. QED BY <2>1, <2>4, <3>1, <3>2 DEF MergeSound, MergedForTwin, LookedUp, MergeInv
  <2>. QED BY <2>2, <2>3, <2>5, <2>6, <2>7 DEF MergeSound, MergeInv
<1>7. ASSUME SubmitPush(c) PROVE MergeInv'
  <2>1. /\ UNCHANGED <<wpc, cjob, mergeType, cmp, fixed>>
        /\ jobs' = Append(jobs, cjob[c]) /\ verdict' = [verdict EXCEPT ![cjob[c]] = "queued"]
        /\ cpc' = [cpc EXCEPT ![c] = "post"] /\ cpc[c] = "push" /\ cjob[c] \in Tasks
    BY <1>0, <1>7 DEF SubmitPush
  <2>2. LockHeld'
    BY <1>0, <1>7 DEF SubmitPush, LockHeld, MergeInv
  <2>3. /\ Len(jobs') = Len(jobs) + 1 /\ jobs'[Len(jobs) + 1] = cjob[c]
        /\ \A i \in 1..Len(jobs) : jobs'[i] = jobs[i] /\ jobs[i] \in Queued
    BY <1>0, <2>1 DEF Queued
  <2>4. Queued' = Queued \cup {cjob[c]}
    <3>1. Queued = {jobs[i] : i \in 1..Len(jobs)} /\ Queued' = {jobs'[i] : i \in 1..(Len(jobs) + 1)}
      BY <2>3 DEF Queued
    <3>2. \A i \in 1..(Len(jobs) + 1) : i = Len(jobs) + 1 \/ i \in 1..Len(jobs)
      BY <1>0
    <3>3. Len(jobs) + 1 \in 1..(Len(jobs) + 1) /\ 1..Len(jobs) \subseteq 1..(Len(jobs) + 1)
      BY <1>0
    <3>. QED BY <2>3, <3>1, <3>2, <3>3
  <2>5. Accounted'
    BY <1>0, <2>1, <2>4 DEF Accounted, Submitting, MergeInv
  <2>6. \A o \in Tasks : verdict[o] = "queued" => verdict'[o] = "queued"
    BY <1>0, <2>1
  <2>7. LookedUp'
    <3>1. \A d \in Clients : cpc'[d] # "push"
      BY <1>0, <2>1 DEF LockHeld, MergeInv
    <3>2. \A d \in Clients : cpc'[d] = "drop" => cpc[d] = "drop"
      BY <1>0, <2>1
    <3>. QED BY <2>1, <2>6, <3>1, <3>2 DEF LookedUp, MergeInv
  <2>8. fixed' => MergeUnique'
    <3>1. ASSUME fixed, mergeType # NoType, NEW i \in 1..Len(jobs'), NEW j \in 1..Len(jobs'), i < j
          PROVE  ~ TaskTypeCompare(jobs'[i], jobs'[j])
      <4>1. i \in 1..Len(jobs) /\ jobs'[i] \in Queued
        BY <1>0, <2>3, <3>1
      <4>2. CASE j = Len(jobs) + 1
        BY <2>1, <2>3, <3>1, <4>1, <4>2 DEF LookedUp, MergeInv
      <4>3. CASE j \in 1..Len(jobs)
        BY <2>3, <3>1, <4>1, <4>3 DEF MergeSound, MergeUnique, MergeInv
      <4>. QED BY <1>0, <2>3, <4>2, <4>3
    <3>2. fixed' = fixed /\ mergeType' = mergeType
      BY <2>1
    <3>3. \A o, t : TaskTypeCompare(o, t)' = TaskTypeCompare(o, t)
      BY <1>1, <2>1
    <3>. QED BY <3>1, <3>2, <3>3 DEF MergeUnique
  <2>9. fixed' => MergedForTwin'
    <3>1. \A t \in Tasks : verdict'[t] = "merged" => verdict[t] = "merged"
      BY <1>0, <2>1
    <3>. QED BY <2>1, <2>6, <3>1 DEF MergeSound, MergedForTwin, MergeInv
  <2>. QED BY <2>2, <2>5, <2>7, <2>8, <2>9 DEF MergeSound, MergeInv
<1>8. ASSUME SubmitPost(c) \/ SubmitWait(c) PROVE MergeInv'
  <2>1. /\ Queued' = Queued /\ UNCHANGED <<jobs, lock, wpc, verdict, mergeType, cmp, fixed>>
        /\ \A d \in Clients : cpc'[d] \in {"lock", "find", "push", "drop"} =>
              cpc'[d] = cpc[d] /\ cjob'[d] = cjob[d]
    BY <1>0, <1>8 DEF SubmitPost, SubmitWait, Queued
  <2>2. LockHeld'
    BY <2>1 DEF LockHeld, MergeInv
  <2>3. Accounted'
    BY <2>1 DEF Accounted, Submitting, MergeInv
  <2>4. LookedUp'
    BY <1>1, <2>1 DEF LookedUp, MergeInv
  <2>5. MergeSound'
    BY <1>1, <2>1 DEF MergeSound, MergeUnique, MergedForTwin, MergeInv
  <2>. QED BY <2>2, <2>3, <2>4, <2>5 DEF MergeInv
<1>. QED BY <1>2, <1>3, <1>4, <1>5, <1>6, <1>7, <1>8 DEF Client

\* Workers only take tasks away, and only with the lock.
LEMMA MergeWorker ==
    ASSUME TypeOK, HasTask, MergeInv, NEW w \in Workers, Worker(w)
    PROVE  MergeInv'
<1> USE DEF WorkerAt, poolVars, configVars, workerVars, clientVars, ownerVars, taskVars
<1>1. UNCHANGED <<cpc, cjob, verdict, mergeType, cmp, fixed>>
  BY DEF Worker, WorkerLoop, WorkerSemWait, WorkerLock, WorkerTake, WorkerTakeNothing,
         WorkerFind, WorkerFindNone, WorkerRun, WorkerDone, WorkerDelete
<1>2. \/ jobs' = jobs
      \/ \E k \in 1..Len(jobs) : jobs' = WithoutAt(jobs, k)
  BY DEF Worker, WorkerLoop, WorkerSemWait, WorkerLock, WorkerTake, WorkerTakeNothing,
         WorkerFind, WorkerFindNone, WorkerRun, WorkerDone, WorkerDelete
<1>3. Accounted' /\ LookedUp' /\ MergeSound'
  BY <1>1, <1>2, MergeFrame
<1>4. LockHeld'
  <2>1. wpc \in [Workers -> WorkerPcs] /\ Workers \cap Clients = {} /\ Free \notin Workers \cup Clients
    BY ConstantAssumption DEF TypeOK
  <2>2. CASE WorkerLock(w)
    BY <1>1, <2>1, <2>2 DEF WorkerLock, LockFree, LockHeld, MergeInv
  <2>3. CASE WorkerTake(w) \/ WorkerTakeNothing(w)
    BY <1>1, <2>1, <2>3 DEF WorkerTake, WorkerTakeNothing, LockHeld, MergeInv
  <2>4. CASE \/ WorkerLoop(w) \/ WorkerSemWait(w) \/ WorkerFind(w) \/ WorkerFindNone(w)
             \/ WorkerRun(w) \/ WorkerDone(w) \/ WorkerDelete(w)
    BY <1>1, <2>1, <2>4 DEF WorkerLoop, WorkerSemWait, WorkerFind, WorkerFindNone, WorkerRun,
         WorkerDone, WorkerDelete, LockHeld, MergeInv
  <2>. QED BY <2>2, <2>3, <2>4 DEF Worker
<1>. QED BY <1>3, <1>4 DEF MergeInv

\* The owner changes the settings only while nothing has been submitted, and Stop only
\* takes tasks away.
LEMMA MergeOwner ==
    ASSUME TypeOK, HasTask, MergeInv, InitThreads \/ InitFlag \/ Configure \/ StopFlag \/ Stop
    PROVE  MergeInv'
<1> USE DEF OwnerAt, poolVars, configVars, workerVars, clientVars, ownerVars, taskVars
<1>1. LockHeld'
  <2>1. UNCHANGED <<lock, cpc>>
    BY DEF InitThreads, InitFlag, Configure, Register_taskProcess, setMaxPriorityType,
         setMergeTaskType, setTaskCmp, StopFlag, Stop, StopPost, StopProcs, StopClear,
         StopFetch, StopCancel, StopPop, StopEnd
  <2>2. \A w \in Workers : wpc'[w] = "take" => wpc[w] = "take"
    <3>1. CASE InitThreads
      BY <3>1 DEF InitThreads
    <3>2. CASE StopProcs
      BY <3>2 DEF StopProcs
    <3>3. CASE ~ InitThreads /\ ~ StopProcs
      BY <3>3 DEF InitFlag, Configure, Register_taskProcess, setMaxPriorityType,
           setMergeTaskType, setTaskCmp, StopFlag, Stop, StopPost, StopClear,
           StopFetch, StopCancel, StopPop, StopEnd
    <3>. QED BY <3>1, <3>2, <3>3
  <2>. QED BY <2>1, <2>2 DEF LockHeld, MergeInv
<1>2. CASE ~ Configure
  <2>1. UNCHANGED <<cpc, cjob, verdict, mergeType, cmp, fixed>>
    BY <1>2 DEF InitThreads, InitFlag, StopFlag, Stop, StopPost, StopProcs, StopClear,
         StopFetch, StopCancel, StopPop, StopEnd
  <2>2. jobs' = jobs \/ \E k \in 1..Len(jobs) : jobs' = WithoutAt(jobs, k)
    <3>1. CASE StopPop
      <4>1. jobs # << >> => 1 \in 1..Len(jobs)
        BY DEF TypeOK
      <4>. QED BY <3>1, <4>1 DEF StopPop
    <3>2. CASE ~ StopPop
      BY <1>2, <3>2 DEF InitThreads, InitFlag, StopFlag, Stop, StopPost, StopProcs, StopClear,
         StopFetch, StopCancel, StopEnd
    <3>. QED BY <3>1, <3>2
  <2>. QED BY <1>1, <2>1, <2>2, MergeFrame DEF MergeInv
<1>3. CASE Configure
  <2>1. UNCHANGED <<cpc, cjob, verdict, jobs, fixed>> /\ Queued' = Queued
    BY <1>3 DEF Configure, Register_taskProcess, setMaxPriorityType, setMergeTaskType,
         setTaskCmp, Queued
  <2>2. Accounted'
    BY <2>1 DEF Accounted, Submitting, MergeInv
  <2>3. CASE UNCHANGED <<mergeType, cmp>>
    BY <1>1, <2>1, <2>3, MergeFrame DEF MergeInv
  <2>4. CASE fixed /\ ~ UNCHANGED <<mergeType, cmp>>
    <3>1. \A t \in Tasks : verdict[t] = "new"
      BY <1>3, <2>4 DEF Configure, Register_taskProcess, setMaxPriorityType,
           setMergeTaskType, setTaskCmp, MayConfigure
    <3>2. Queued = {}
      <4>1. \A t \in Queued : t \in Tasks
        BY DEF Queued, TypeOK
      <4>2. \A t \in Queued : verdict[t] = "queued"
        BY DEF Accounted, MergeInv
      <4>. QED BY <3>1, <4>1, <4>2
    <3>3. \A c \in Clients : ~ Submitting(c)
      BY <3>1 DEF Accounted, MergeInv, Submitting, HasTask
    <3>4. LookedUp'
      BY <2>1, <3>3 DEF LookedUp, Submitting
    <3>5. MergeUnique'
      <4>1. 1..Len(jobs) = {}
        BY <3>2 DEF Queued
      <4>. QED BY <2>1, <4>1 DEF MergeUnique
    <3>6. MergedForTwin'
      BY <2>1, <3>1 DEF MergedForTwin
    <3>. QED BY <1>1, <2>2, <3>4, <3>5, <3>6 DEF MergeInv, MergeSound
  <2>5. CASE ~ fixed
    BY <1>1, <2>1, <2>2, <2>5 DEF MergeInv, MergeSound, LookedUp
  <2>. QED BY <2>3, <2>4, <2>5
<1>. QED BY <1>2, <1>3

\* When the settings are made before Init and the submissions, m_jobs never holds two
\* tasks of the merge type that do the same work, and a task is merged away only for one
\* that was queued (submit_job_req, lines 38-45).
THEOREM MergeSafe == Spec => []MergeSound
<1>1. Init => MergeInv
  BY DEF Init, MergeInv, LockHeld, Accounted, Submitting, LookedUp, MergeSound, MergeUnique,
         MergedForTwin, Queued
<1>2. TypeOK /\ HasTask /\ MergeInv /\ [Next]_vars => MergeInv'
  <2> SUFFICES ASSUME TypeOK, HasTask, MergeInv, [Next]_vars PROVE MergeInv'
    OBVIOUS
  <2>1. CASE Next
    BY <2>1, MergeClient, MergeWorker, MergeOwner DEF Next
  <2>2. CASE UNCHANGED vars
    <3>1. UNCHANGED <<cpc, cjob, verdict, mergeType, cmp, fixed, jobs, lock, wpc>>
      BY <2>2 DEF vars, poolVars, configVars, workerVars, clientVars, ownerVars, taskVars
    <3>2. LockHeld'
      BY <3>1 DEF LockHeld, MergeInv
    <3>. QED BY <3>1, <3>2, MergeFrame DEF MergeInv
  <2>. QED BY <2>1, <2>2
<1>3. MergeInv => MergeSound
  BY DEF MergeInv
<1>. QED BY <1>1, <1>2, <1>3, TypeCorrect, PTL DEF Spec

-----------------------------------------------------------------------------
(* Serving order and once-only processing, up to the first Stop *)

\* m_jobs is in the order of arrival, and no task arrives twice.
ArrivedOnce == \A i, j \in 1..Len(arrived) : arrived[i] = arrived[j] => i = j
ArrivedQueued == \A i \in 1..Len(arrived) : verdict[arrived[i]] = "queued"
SameOrder ==
    \A p, q \in 1..Len(jobs), i, j \in 1..Len(arrived) :
        arrived[i] = jobs[p] /\ arrived[j] = jobs[q] /\ p < q => i < j
Ordered == stops = 0 => ArrivedOnce /\ ArrivedQueued /\ SameOrder

\* Where a task is tells how often it was processed and what it was told.
Fresh(t) == runs[t] = 0 /\ notes[t] = {}
Progress ==
    stops = 0 =>
        /\ \A t \in Tasks : runs[t] <= 1 /\ (verdict[t] # "queued" => Fresh(t))
        /\ \A t \in Queued : Fresh(t)
        /\ \A w \in Workers :
              /\ wpc[w] \in {"find", "run"} => Fresh(wtask[w])
              /\ wpc[w] = "done" => runs[wtask[w]] = 1 /\ notes[wtask[w]] = {}
              /\ wpc[w] = "delete" => runs[wtask[w]] = 1 /\ notes[wtask[w]] = {0}

\* The task run() takes is the first of its type in m_jobs.
LEMMA TakesFirst ==
    ASSUME TypeOK, NEW k \in 1..Len(jobs), TakenAt(k), NEW p \in 1..Len(jobs),
           TypeOf[jobs[p]] = TypeOf[jobs[k]]
    PROVE  p >= k
<1>1. Len(jobs) \in Nat
  BY DEF TypeOK
<1>2. CASE \E m \in 1..Len(jobs) : Urgent(m)
  BY <1>1, <1>2 DEF TakenAt, Urgent
<1>3. CASE ~ \E m \in 1..Len(jobs) : Urgent(m)
  BY <1>1, <1>3 DEF TakenAt
<1>. QED BY <1>2, <1>3

\* Taking a task keeps the order of the others.
LEMMA OrderTake ==
    ASSUME IInv, Ordered, FifoPerType, stops = 0, stops' = 0, UNCHANGED <<arrived, verdict>>,
           NEW k \in 1..Len(jobs), TakenAt(k), jobs' = WithoutAt(jobs, k)
    PROVE  Ordered' /\ FifoPerType'
<1>1. jobs \in Seq(Tasks) /\ Len(jobs) \in Nat /\ arrived \in Seq(Tasks) /\ Len(arrived) \in Nat
  BY DEF IInv, OwnInv, TypeOK
<1>2. /\ Queued' = Queued \ {jobs[k]}
      /\ jobs[k] \in Queued
  BY QueuedTake DEF IInv, OwnInv, SingleOwner
<1>3. /\ Len(jobs') = Len(jobs) - 1
      /\ \A j \in 1..(Len(jobs) - 1) : jobs'[j] = IF j < k THEN jobs[j] ELSE jobs[j + 1]
  BY <1>1, WithoutAtShape
<1> DEFINE old(j) == IF j < k THEN j ELSE j + 1
<1>4. \A j \in 1..Len(jobs') : old(j) \in 1..Len(jobs) /\ jobs'[j] = jobs[old(j)]
  BY <1>1, <1>3
<1>5. \A i, j \in 1..Len(jobs') : i < j => old(i) < old(j)
  BY <1>1, <1>3
<1> HIDE DEF old
<1>6. Ordered'
  <2>1. ASSUME NEW p \in 1..Len(jobs'), NEW q \in 1..Len(jobs'), p < q,
               NEW i \in 1..Len(arrived), NEW j \in 1..Len(arrived),
               arrived[i] = jobs'[p], arrived[j] = jobs'[q]
        PROVE  i < j
    <3>1. /\ old(p) \in 1..Len(jobs) /\ old(q) \in 1..Len(jobs) /\ old(p) < old(q)
          /\ arrived[i] = jobs[old(p)] /\ arrived[j] = jobs[old(q)]
      BY <1>4, <1>5, <2>1
    <3>. QED BY <3>1 DEF Ordered, SameOrder
  <2>2. SameOrder'
    <3>1. arrived' = arrived
      OBVIOUS
    <3>. QED BY <2>1, <3>1 DEF SameOrder
  <2>3. ArrivedOnce' /\ ArrivedQueued'
    <3>1. arrived' = arrived /\ verdict' = verdict /\ ArrivedOnce /\ ArrivedQueued
      BY DEF Ordered
    <3>. QED BY <3>1 DEF ArrivedOnce, ArrivedQueued
  <2>. QED BY <2>2, <2>3 DEF Ordered
<1>7. ASSUME NEW i \in 1..Len(arrived), NEW j \in 1..Len(arrived), i < j,
             TypeOf[arrived[i]] = TypeOf[arrived[j]], arrived[i] \in Queued'
      PROVE  arrived[j] \in Queued'
  <2>1. arrived[i] \in Queued /\ arrived[i] # jobs[k] /\ arrived[j] \in Queued
    BY <1>2, <1>7 DEF FifoPerType
  <2>2. ASSUME arrived[j] = jobs[k] PROVE FALSE
    <3>1. PICK p \in 1..Len(jobs) : arrived[i] = jobs[p]
      BY <2>1 DEF Queued
    <3>2. p # k
      BY <2>1, <3>1
    <3>3. p >= k
      BY <1>7, <2>2, <3>1, TakesFirst DEF IInv, OwnInv
    <3>4. k < p
      BY <1>1, <3>2, <3>3
    <3>5. j < i
      BY <2>2, <3>1, <3>4 DEF Ordered, SameOrder
    <3>. QED BY <1>1, <1>7, <3>5
  <2>. QED BY <1>2, <2>1, <2>2
<1>8. FifoPerType'
  BY <1>7 DEF FifoPerType
<1>. QED BY <1>6, <1>8

\* A task that is pushed arrives last.
LEMMA OrderPush ==
    ASSUME IInv, Ordered, FifoPerType, stops = 0, stops' = 0, NEW t \in Tasks,
           verdict[t] = "pending", verdict' = [verdict EXCEPT ![t] = "queued"],
           jobs' = Append(jobs, t), arrived' = Append(arrived, t)
    PROVE  Ordered' /\ FifoPerType'
<1>1. /\ jobs \in Seq(Tasks) /\ Len(jobs) \in Nat /\ arrived \in Seq(Tasks) /\ Len(arrived) \in Nat
      /\ verdict \in [Tasks -> {"new", "pending", "queued", "rejected", "merged"}]
  BY DEF IInv, OwnInv, TypeOK
<1>2. t \notin Queued /\ \A i \in 1..Len(arrived) : arrived[i] # t
  BY DEF IInv, OwnInv, VerdictTells, Ordered, ArrivedQueued
<1>3. Queued' = Queued \cup {t}
  BY <1>2, QueuedPush DEF IInv, OwnInv, SingleOwner
<1>4. /\ Len(jobs') = Len(jobs) + 1 /\ jobs'[Len(jobs) + 1] = t
      /\ \A i \in 1..Len(jobs) : jobs'[i] = jobs[i] /\ jobs[i] # t
  BY <1>1, <1>2 DEF Queued
<1>5. /\ Len(arrived') = Len(arrived) + 1 /\ arrived'[Len(arrived) + 1] = t
      /\ \A i \in 1..Len(arrived) : arrived'[i] = arrived[i] /\ arrived[i] # t /\ arrived[i] \in Tasks
  BY <1>1, <1>2
<1>6. Ordered'
  <2>1. \A i, j \in 1..Len(arrived') : arrived'[i] = arrived'[j] => i = j
    BY <1>1, <1>5 DEF Ordered, ArrivedOnce
  <2>2. \A i \in 1..Len(arrived') : verdict'[arrived'[i]] = "queued"
    BY <1>1, <1>5 DEF Ordered, ArrivedQueued
  <2>3. ASSUME NEW p \in 1..(Len(jobs) + 1), NEW q \in 1..(Len(jobs) + 1),
               NEW i \in 1..(Len(arrived) + 1), NEW j \in 1..(Len(arrived) + 1),
               arrived'[i] = jobs'[p], arrived'[j] = jobs'[q], p < q
        PROVE  i < j
    <3>1. p \in 1..Len(jobs) /\ i \in 1..Len(arrived)
      BY <1>1, <1>4, <1>5, <2>3
    <3>2. CASE q = Len(jobs) + 1
      BY <1>1, <1>4, <1>5, <2>3, <3>1, <3>2
    <3>3. CASE q \in 1..Len(jobs)
      <4>1. j # Len(arrived) + 1
        BY <1>4, <1>5, <2>3, <3>3
      <4>2. j \in 1..Len(arrived)
        BY <1>1, <1>5, <4>1
      <4>. QED BY <1>4, <1>5, <2>3, <3>1, <3>3, <4>2 DEF Ordered, SameOrder
    <3>4. q = Len(jobs) + 1 \/ q \in 1..Len(jobs)
      BY <1>1
    <3>. QED BY <3>2, <3>3, <3>4
  <2>4. SameOrder'
    <3>1. Len(jobs') = Len(jobs) + 1 /\ Len(arrived') = Len(arrived) + 1
      BY <1>4, <1>5
    <3>. QED BY <2>3, <3>1 DEF SameOrder
  <2>5. ArrivedOnce' /\ ArrivedQueued'
    BY <2>1, <2>2 DEF ArrivedOnce, ArrivedQueued
  <2>. QED BY <2>4, <2>5 DEF Ordered
<1>7. FifoPerType'
  <2>1. ASSUME NEW i \in 1..Len(arrived'), NEW j \in 1..Len(arrived'), i < j,
               TypeOf[arrived'[i]] = TypeOf[arrived'[j]], arrived'[i] \in Queued'
        PROVE  arrived'[j] \in Queued'
    <3>1. i \in 1..Len(arrived)
      BY <1>1, <1>5, <2>1
    <3>2. CASE j = Len(arrived) + 1
      BY <1>3, <1>5, <3>2
    <3>3. CASE j \in 1..Len(arrived)
      BY <1>3, <1>5, <2>1, <3>1, <3>3 DEF FifoPerType
    <3>. QED BY <1>1, <1>5, <3>2, <3>3
  <2>. QED BY <2>1 DEF FifoPerType
<1>. QED BY <1>6, <1>7

\* Up to the first Stop: what is queued is in order, and what a worker holds or the pool
\* has deleted was processed accordingly.
ServeInv == Ordered /\ FifoPerType /\ Progress /\ ProcessedOnce

\* A step that leaves m_jobs and the tasks alone leaves the order alone.
LEMMA OrderFrame ==
    ASSUME Ordered, FifoPerType, UNCHANGED <<jobs, arrived, stops>>,
           stops = 0 => \A i \in 1..Len(arrived) : verdict'[arrived[i]] = verdict[arrived[i]]
    PROVE  Ordered' /\ FifoPerType'
<1>1. Queued' = Queued
  BY DEF Queued
<1>2. Ordered'
  BY DEF Ordered, ArrivedOnce, ArrivedQueued, SameOrder
<1>3. FifoPerType'
  BY <1>1 DEF FifoPerType
<1>. QED BY <1>2, <1>3

\* A step of submit_job_req keeps the order and what is known of every task.
LEMMA ServeClient ==
    ASSUME IInv, ServeInv, NEW c \in Clients, Client(c)
    PROVE  ServeInv'
<1>1. UNCHANGED <<stops, wpc, wtask, runs, notes>>
  BY DEF Client, SubmitEnter, SubmitRefused, SubmitLock, SubmitFind, SubmitDrop, SubmitPush,
         SubmitPost, SubmitWait, workerVars, ownerVars, taskVars
<1> SUFFICES ASSUME stops = 0 PROVE ServeInv'
  BY <1>1 DEF ServeInv, Ordered, ArrivedOnce, ArrivedQueued, SameOrder, FifoPerType, Progress, ProcessedOnce
<1>2. /\ verdict \in [Tasks -> {"new", "pending", "queued", "rejected", "merged"}]
      /\ freed \subseteq Tasks /\ Queued \subseteq Tasks
      /\ \A w \in Workers : Holding(w) => wtask[w] \in Tasks /\ verdict[wtask[w]] = "queued"
  BY DEF IInv, OwnInv, TypeOK, HasTask, VerdictTells, Queued
<1>3. ASSUME NEW t \in Tasks, verdict[t] = "new", NEW v \in {"pending", "rejected"},
             verdict' = [verdict EXCEPT ![t] = v], UNCHANGED <<jobs, arrived, freed>>
      PROVE  ServeInv'
  <2>1. Ordered' /\ FifoPerType'
    <3>1. \A i \in 1..Len(arrived) : verdict'[arrived[i]] = verdict[arrived[i]]
      BY <1>2, <1>3 DEF ServeInv, Ordered, ArrivedQueued
    <3>. QED BY <1>1, <1>3, <3>1, OrderFrame DEF ServeInv
  <2>2. Queued' = Queued
    BY <1>3 DEF Queued
  <2>3. Progress'
    BY <1>1, <1>2, <1>3, <2>2 DEF ServeInv, Progress, Fresh
  <2>4. t \notin freed
    BY <1>3 DEF IInv, OwnInv, VerdictTells
  <2>5. ProcessedOnce'
    BY <1>1, <1>2, <1>3, <2>4 DEF ServeInv, ProcessedOnce
  <2>. QED BY <2>1, <2>3, <2>5 DEF ServeInv
<1>4. ASSUME UNCHANGED <<jobs, arrived, freed, verdict>> PROVE ServeInv'
  <2>1. Ordered' /\ FifoPerType'
    BY <1>1, <1>4, OrderFrame DEF ServeInv
  <2>2. Queued' = Queued
    BY <1>4 DEF Queued
  <2>. QED BY <1>1, <1>4, <2>1, <2>2 DEF ServeInv, Progress, ProcessedOnce, Fresh
<1>5. ASSUME SubmitDrop(c) PROVE ServeInv'
  <2>1. /\ cjob[c] \in Tasks /\ verdict[cjob[c]] = "pending"
        /\ verdict' = [verdict EXCEPT ![cjob[c]] = "merged"]
        /\ freed' = freed \cup {cjob[c]} /\ UNCHANGED <<jobs, arrived>>
    BY <1>5 DEF SubmitDrop, ClientAt, IInv, OwnInv, HasTask, VerdictTells, Submitting
  <2>2. Ordered' /\ FifoPerType'
    <3>1. \A i \in 1..Len(arrived) : verdict'[arrived[i]] = verdict[arrived[i]]
      BY <1>2, <2>1 DEF ServeInv, Ordered, ArrivedQueued
    <3>. QED BY <1>1, <2>1, <3>1, OrderFrame DEF ServeInv
  <2>3. Queued' = Queued
    BY <2>1 DEF Queued
  <2>4. Progress'
    BY <1>1, <1>2, <2>1, <2>3 DEF ServeInv, Progress, Fresh
  <2>5. ProcessedOnce'
    <3>1. Fresh(cjob[c])
      BY <2>1 DEF ServeInv, Progress
    <3>. QED BY <1>1, <1>2, <2>1, <3>1 DEF ServeInv, ProcessedOnce, Fresh
  <2>. QED BY <2>2, <2>4, <2>5 DEF ServeInv
<1>6. ASSUME SubmitPush(c) PROVE ServeInv'
  <2>1. /\ cjob[c] \in Tasks /\ verdict[cjob[c]] = "pending"
        /\ verdict' = [verdict EXCEPT ![cjob[c]] = "queued"]
        /\ jobs' = Append(jobs, cjob[c]) /\ arrived' = Append(arrived, cjob[c])
        /\ freed' = freed
    BY <1>6 DEF SubmitPush, ClientAt, IInv, OwnInv, HasTask, VerdictTells, Submitting
  <2>2. Ordered' /\ FifoPerType'
    BY <1>1, <2>1, OrderPush DEF ServeInv
  <2>3. Fresh(cjob[c]) /\ cjob[c] \notin Queued /\ cjob[c] \notin freed
    BY <2>1 DEF ServeInv, Progress, IInv, OwnInv, VerdictTells
  <2>4. Queued' = Queued \cup {cjob[c]}
    BY <2>1, <2>3, QueuedPush DEF IInv, OwnInv, SingleOwner
  <2>5. Progress'
    BY <1>1, <1>2, <2>1, <2>3, <2>4 DEF ServeInv, Progress, Fresh
  <2>6. ProcessedOnce'
    BY <1>1, <1>2, <2>1, <2>3 DEF ServeInv, ProcessedOnce
  <2>. QED BY <2>2, <2>5, <2>6 DEF ServeInv
<1>7. ASSUME NEW t \in Tasks, SubmitEnter(c, t) PROVE ServeInv'
  BY <1>3, <1>7 DEF SubmitEnter, poolVars
<1>8. ASSUME NEW t \in Tasks, SubmitRefused(c, t) PROVE ServeInv'
  BY <1>3, <1>8 DEF SubmitRefused, poolVars
<1>9. ASSUME SubmitLock(c) \/ SubmitFind(c) \/ SubmitPost(c) \/ SubmitWait(c) PROVE ServeInv'
  BY <1>4, <1>9 DEF SubmitLock, SubmitFind, SubmitPost, SubmitWait, poolVars, taskVars
<1>. QED BY <1>5, <1>6, <1>7, <1>8, <1>9 DEF Client

\* A step of a worker takes the first task of its type, and processes, reports and deletes
\* a task no other thread has.
LEMMA ServeWorker ==
    ASSUME IInv, ServeInv, NEW w \in Workers, Worker(w)
    PROVE  ServeInv'
<1>1. UNCHANGED <<stops, arrived, verdict>>
  BY DEF Worker, WorkerLoop, WorkerSemWait, WorkerLock, WorkerTake, WorkerTakeNothing,
         WorkerFind, WorkerFindNone, WorkerRun, WorkerDone, WorkerDelete, ownerVars, taskVars
<1> SUFFICES ASSUME stops = 0 PROVE ServeInv'
  BY <1>1 DEF ServeInv, Ordered, ArrivedOnce, ArrivedQueued, SameOrder, FifoPerType, Progress, ProcessedOnce
<1>2. /\ wpc \in [Workers -> WorkerPcs] /\ wtask \in [Workers -> Tasks \cup {NoTask}]
      /\ runs \in [Tasks -> Nat] /\ notes \in [Tasks -> SUBSET {0, 1}]
      /\ freed \subseteq Tasks /\ Queued \subseteq Tasks
      /\ \A v \in Workers : wpc[v] # "stale"
      /\ \A v \in Workers : Holding(v) =>
            wtask[v] \in Tasks /\ verdict[wtask[v]] = "queued" /\ wtask[v] \notin Queued \cup freed
      /\ \A u, v \in Workers : Holding(u) /\ Holding(v) /\ u # v => wtask[u] # wtask[v]
  BY DEF IInv, OwnInv, TypeOK, HasTask, VerdictTells, Queued, SingleOwner, BeforeStop
<1>3. ASSUME jobs' = jobs PROVE Queued' = Queued /\ Ordered' /\ FifoPerType'
  BY <1>1, <1>3, OrderFrame DEF ServeInv, Queued
<1>4. CASE WorkerLoop(w) \/ WorkerSemWait(w) \/ WorkerLock(w) \/ WorkerTakeNothing(w)
  <2>1. /\ UNCHANGED <<jobs, wtask, runs, notes, freed>>
        /\ \E pc \in {"none", "sem", "lock", "take", "loop"} : wpc' = [wpc EXCEPT ![w] = pc]
    BY <1>4 DEF WorkerLoop, WorkerSemWait, WorkerLock, WorkerTakeNothing, poolVars, taskVars
  <2>2. Progress' /\ ProcessedOnce'
    BY <1>1, <1>2, <1>3, <2>1 DEF ServeInv, Progress, ProcessedOnce, Fresh
  <2>. QED BY <1>3, <2>1, <2>2 DEF ServeInv
<1>5. CASE WorkerTake(w)
  <2>1. PICK k \in 1..Len(jobs) : /\ TakenAt(k)
                                  /\ wtask' = [wtask EXCEPT ![w] = jobs[k]]
                                  /\ jobs' = WithoutAt(jobs, k)
    BY <1>5 DEF WorkerTake
  <2>2. Ordered' /\ FifoPerType'
    BY <1>1, <2>1, OrderTake DEF ServeInv
  <2>3. Queued' = Queued \ {jobs[k]} /\ jobs[k] \in Queued
    BY <2>1, QueuedTake DEF IInv, OwnInv, SingleOwner
  <2>4. wpc' = [wpc EXCEPT ![w] = "find"] /\ UNCHANGED <<runs, notes, freed>>
    BY <1>5 DEF WorkerTake, taskVars
  <2>5. Progress' /\ ProcessedOnce'
    BY <1>1, <1>2, <2>1, <2>3, <2>4 DEF ServeInv, Progress, ProcessedOnce, Fresh
  <2>. QED BY <2>2, <2>5 DEF ServeInv
<1>6. CASE WorkerFind(w) \/ WorkerFindNone(w)
  <2>1. /\ UNCHANGED <<jobs, runs, notes, freed>> /\ wpc[w] = "find"
        /\ \/ wpc' = [wpc EXCEPT ![w] = "run"] /\ wtask' = wtask
           \/ wpc' = [wpc EXCEPT ![w] = "loop"] /\ wtask' = [wtask EXCEPT ![w] = NoTask]
    BY <1>6 DEF WorkerFind, WorkerFindNone, WorkerAt, poolVars, taskVars, IInv, OwnInv, BeforeStop
  <2>2. Progress' /\ ProcessedOnce'
    BY <1>1, <1>2, <1>3, <2>1 DEF ServeInv, Progress, ProcessedOnce, Fresh
  <2>. QED BY <1>3, <2>1, <2>2 DEF ServeInv
<1>7. CASE WorkerRun(w)
  <2>1. /\ UNCHANGED <<jobs, wtask, notes, freed>> /\ wpc[w] = "run"
        /\ wpc' = [wpc EXCEPT ![w] = "done"]
        /\ runs' = [runs EXCEPT ![wtask[w]] = @ + 1]
    BY <1>2, <1>7 DEF WorkerRun, WorkerAt, poolVars
  <2>2. Holding(w) /\ Fresh(wtask[w])
    BY <2>1 DEF ServeInv, Progress, Holding
  <2>3. /\ runs'[wtask[w]] = 1 /\ wtask[w] \in Tasks
        /\ \A t \in Tasks \ {wtask[w]} : runs'[t] = runs[t]
    BY <1>2, <2>1, <2>2 DEF Fresh
  <2>4. Progress'
    <3>1. \A t \in Tasks : runs'[t] <= 1 /\ (verdict[t] # "queued" => (Fresh(t))')
      BY <1>2, <2>1, <2>2, <2>3 DEF ServeInv, Progress, Fresh
    <3>2. \A t \in Queued : (Fresh(t))'
      BY <1>2, <2>1, <2>2, <2>3 DEF ServeInv, Progress, Fresh
    <3>3. ASSUME NEW v \in Workers
          PROVE  /\ wpc'[v] \in {"find", "run"} => (Fresh(wtask[v]))'
                 /\ wpc'[v] = "done" => runs'[wtask[v]] = 1 /\ notes[wtask[v]] = {}
                 /\ wpc'[v] = "delete" => runs'[wtask[v]] = 1 /\ notes[wtask[v]] = {0}
      BY <1>2, <2>1, <2>2, <2>3 DEF ServeInv, Progress, Fresh, Holding
    <3>. QED BY <1>1, <1>3, <2>1, <3>1, <3>2, <3>3 DEF Progress, Fresh
  <2>5. ProcessedOnce'
    BY <1>1, <1>2, <2>1, <2>2, <2>3 DEF ServeInv, ProcessedOnce
  <2>. QED BY <1>3, <2>1, <2>4, <2>5 DEF ServeInv
<1>8. CASE WorkerDone(w)
  <2>1. /\ UNCHANGED <<jobs, wtask, runs, freed>> /\ wpc[w] = "done"
        /\ wpc' = [wpc EXCEPT ![w] = "delete"]
        /\ notes' = [notes EXCEPT ![wtask[w]] = @ \cup {0}]
    BY <1>8 DEF WorkerDone, WorkerAt, Notify, poolVars
  <2>2. Holding(w) /\ runs[wtask[w]] = 1 /\ notes[wtask[w]] = {}
    BY <2>1 DEF ServeInv, Progress, Holding
  <2>3. /\ notes'[wtask[w]] = {0} /\ wtask[w] \in Tasks
        /\ \A t \in Tasks \ {wtask[w]} : notes'[t] = notes[t]
    BY <1>2, <2>1, <2>2
  <2>4. Progress'
    <3>1. \A t \in Tasks : runs[t] <= 1 /\ (verdict[t] # "queued" => (Fresh(t))')
      BY <1>2, <2>1, <2>2, <2>3 DEF ServeInv, Progress, Fresh
    <3>2. \A t \in Queued : (Fresh(t))'
      BY <1>2, <2>1, <2>2, <2>3 DEF ServeInv, Progress, Fresh
    <3>3. ASSUME NEW v \in Workers
          PROVE  /\ wpc'[v] \in {"find", "run"} => (Fresh(wtask[v]))'
                 /\ wpc'[v] = "done" => runs[wtask[v]] = 1 /\ notes'[wtask[v]] = {}
                 /\ wpc'[v] = "delete" => runs[wtask[v]] = 1 /\ notes'[wtask[v]] = {0}
      BY <1>2, <2>1, <2>2, <2>3 DEF ServeInv, Progress, Fresh, Holding
    <3>. QED BY <1>1, <1>3, <2>1, <3>1, <3>2, <3>3 DEF Progress, Fresh
  <2>5. ProcessedOnce'
    BY <1>1, <1>2, <2>1, <2>2, <2>3 DEF ServeInv, ProcessedOnce
  <2>. QED BY <1>3, <2>1, <2>4, <2>5 DEF ServeInv
<1>9. CASE WorkerDelete(w)
  <2>1. /\ UNCHANGED <<jobs, runs, notes>> /\ wpc[w] = "delete"
        /\ wpc' = [wpc EXCEPT ![w] = "loop"] /\ wtask' = [wtask EXCEPT ![w] = NoTask]
        /\ freed' = freed \cup {wtask[w]}
    BY <1>9 DEF WorkerDelete, WorkerAt, poolVars
  <2>2. /\ wtask[w] \in Tasks /\ verdict[wtask[w]] = "queued"
        /\ runs[wtask[w]] = 1 /\ notes[wtask[w]] = {0}
    BY <1>2, <2>1 DEF ServeInv, Progress, Holding
  <2>3. Progress'
    BY <1>1, <1>2, <1>3, <2>1 DEF ServeInv, Progress, Fresh
  <2>4. ProcessedOnce'
    BY <1>1, <2>1, <2>2 DEF ServeInv, ProcessedOnce
  <2>. QED BY <1>3, <2>1, <2>3, <2>4 DEF ServeInv
<1>. QED BY <1>4, <1>5, <1>6, <1>7, <1>8, <1>9 DEF Worker

\* Starting and configuring the pool touch no task; after StopFlag nothing is claimed.
LEMMA ServeOwner ==
    ASSUME IInv, ServeInv, InitThreads \/ InitFlag \/ Configure \/ StopFlag \/ Stop
    PROVE  ServeInv'
<1> SUFFICES ASSUME stops' = 0 PROVE ServeInv'
  BY DEF ServeInv, Ordered, ArrivedOnce, ArrivedQueued, SameOrder, FifoPerType, Progress, ProcessedOnce
<1> USE DEF OwnerAt, poolVars, workerVars, clientVars, ownerVars, taskVars
<1>1. ~ StopFlag
  BY DEF StopFlag, IInv, OwnInv, TypeOK
<1>2. stops = 0
  BY <1>1 DEF InitThreads, InitFlag, Configure, Register_taskProcess, setMaxPriorityType,
              setMergeTaskType, setTaskCmp, Stop, StopPost, StopProcs, StopClear, StopFetch,
              StopCancel, StopPop, StopEnd
<1>3. ~ Stop
  BY <1>2 DEF Stop, StopPost, StopProcs, StopClear, StopFetch, StopCancel, StopPop, StopEnd,
              IInv, OwnInv, BeforeStop
<1>4. UNCHANGED <<jobs, arrived, verdict, runs, notes, freed, stops, wtask>>
  BY <1>1, <1>3 DEF InitThreads, InitFlag, Configure, Register_taskProcess,
                    setMaxPriorityType, setMergeTaskType, setTaskCmp
<1>5. Queued' = Queued /\ Ordered' /\ FifoPerType' /\ ProcessedOnce'
  BY <1>4, OrderFrame DEF ServeInv, Queued, ProcessedOnce
<1>6. \A w \in Workers : wpc'[w] \in {"find", "run", "done", "delete"} => wpc'[w] = wpc[w]
  BY <1>1, <1>3 DEF InitThreads, InitFlag, Configure, Register_taskProcess,
                    setMaxPriorityType, setMergeTaskType, setTaskCmp, IInv, OwnInv, TypeOK
<1>7. Progress'
  BY <1>2, <1>4, <1>5, <1>6 DEF ServeInv, Progress, Fresh
<1>. QED BY <1>5, <1>7 DEF ServeInv

\* Up to the first Stop a task is processed at most once, is deleted only after it was
\* processed and told so or when it was merged away, and tasks of one type leave m_jobs in
\* the order they entered it (run, lines 56-67).
THEOREM ServedSafe == Spec => []ServedInOrder
<1>1. Init => ServeInv
  <2> SUFFICES ASSUME Init PROVE ServeInv
    OBVIOUS
  <2>1. Len(jobs) = 0 /\ Len(arrived) = 0 /\ Queued = {}
    BY DEF Init, Queued
  <2>2. Ordered /\ FifoPerType
    BY <2>1 DEF Ordered, ArrivedOnce, ArrivedQueued, SameOrder, FifoPerType
  <2>3. Progress /\ ProcessedOnce
    BY <2>1 DEF Init, Progress, ProcessedOnce, Fresh
  <2>. QED BY <2>2, <2>3 DEF ServeInv
<1>2. IInv /\ ServeInv /\ [Next]_vars => ServeInv'
  <2> SUFFICES ASSUME IInv, ServeInv, [Next]_vars PROVE ServeInv'
    OBVIOUS
  <2>1. CASE Next
    BY <2>1, ServeClient, ServeWorker, ServeOwner DEF Next
  <2>2. CASE UNCHANGED vars
    <3>1. UNCHANGED <<jobs, arrived, verdict, runs, notes, freed, stops, wpc, wtask>>
      BY <2>2 DEF vars, poolVars, workerVars, ownerVars, taskVars
    <3>2. Queued' = Queued /\ Ordered' /\ FifoPerType'
      BY <3>1, OrderFrame DEF ServeInv, Queued
    <3>. QED BY <3>1, <3>2 DEF ServeInv, Progress, ProcessedOnce, Fresh
  <2>. QED BY <2>1, <2>2
<1>3. ServeInv => ServedInOrder
  BY DEF ServeInv, ServedInOrder
<1>. QED BY <1>1, <1>2, <1>3, Inductive, PTL DEF Spec

=============================================================================
