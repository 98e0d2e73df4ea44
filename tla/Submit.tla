-------------------------------- MODULE Submit --------------------------------
(***************************************************************************)
(* Post, Submit, BulkPost and BulkSubmit of CYExecutor, on an executor     *)
(* that runs each task on a thread of its own: how the CYTask, the         *)
(* coroutine or callable inside it, and the result belong together.        *)
(*                                                                         *)
(* A job is one callable.  Submit and BulkSubmit make a coroutine of it,   *)
(* which suspends before the callable and is put into a CYTask as a        *)
(* CYAwaitViaFunctor; Post and BulkPost put the callable itself into the   *)
(* CYTask.  The CYTask is moved from its caller to the lambda of the       *)
(* thread.  A functor that is destroyed before it was called resumes its   *)
(* coroutine as interrupted.  Jobs are numbered in the order of the calls; *)
(* a job that is running may make calls too.                               *)
(***************************************************************************)
EXTENDS ThreadExecutor

CONSTANT Callers  \* threads outside the executor; they are no tasks

VARIABLES
  task,      \* the CYTasks of each job whose m_vtable is set
  frame,     \* the coroutine, or the callable, of each job
  result,    \* the result of each job
  consumer,  \* who has the CYResult of each job
  offered,   \* how many jobs there have been
  cpc,       \* where each thread is in a call of Submit or its like
  kind,      \* the call
  batch      \* and its jobs

jobs == <<task, frame, result>>
calling == <<offered, cpc, kind, batch>>
vars == <<xvars, jobs, consumer, calling>>

(* The two CYTasks that a job passes through: the caller's, a temporary or *)
(* an element of its vector, and the one in the lambda of the thread.      *)
(* Post is a BulkPost of one job; the outcome of a callable is the value   *)
(* that it returns or the exception that it throws.                        *)
Places == {"caller", "thread"}
Kinds == {"BulkPost", "Submit", "BulkSubmit"}
Submits == {"Submit", "BulkSubmit"}

TypeOK ==
  /\ ThreadTypeOK
  /\ task \in [Tasks -> SUBSET Places]
  /\ frame \in [Tasks -> {"none", "suspended", "running", "completed", "destroyed"}]
  /\ result \in [Tasks -> {"none", "outcome", "interrupted"}]
  /\ consumer \in [Tasks -> {"none", "call", "holds", "dropped"}]
  /\ offered \in 0 .. N
  /\ cpc \in [Callers \cup Tasks -> {"idle", "enqueue", "drop", "clear"}]
  /\ kind \in [Callers \cup Tasks -> Kinds]
  /\ batch \in [Callers \cup Tasks -> SUBSET Tasks]

Init ==
  /\ ThreadInit
  /\ task = [j \in Tasks |-> {}]
  /\ frame = [j \in Tasks |-> "none"]
  /\ result = [j \in Tasks |-> "none"]
  /\ consumer = [j \in Tasks |-> "none"]
  /\ offered = 0
  /\ cpc = [c \in Callers \cup Tasks |-> "idle"]
  /\ kind = [c \in Callers \cup Tasks |-> "BulkPost"]
  /\ batch = [c \in Callers \cup Tasks |-> {}]

(* A thread that may make a call.                                          *)
CanCall(c) == cpc[c] = "idle" /\ (c \in Tasks => tpc[c] = "run")

-----------------------------------------------------------------------------
(* CYTask.                                                                 *)

(* A faulty variant: the source of a move keeps its m_vtable.              *)
MoveTask_Copies(of) ==
  task' = [j \in Tasks |-> IF j \in of /\ "caller" \in task[j] THEN Places ELSE task[j]]

(* CYTask(CYTask&&): the target takes m_vtable and the functor, and the    *)
(* source is left empty.                                                   *)
MoveTask(of) ==
  task' = [j \in Tasks |->
             IF j \in of /\ "caller" \in task[j] THEN {"thread"} ELSE task[j]]

(* operator(): the task is empty before its callable runs.                 *)
ExecuteTask(j, p) ==
  /\ task' = [task EXCEPT ![j] = @ \ {p}]
  /\ frame' = [frame EXCEPT ![j] = IF p \in task[j] THEN "running" ELSE @]

(* A faulty variant: the coroutine does not wait at its end for the        *)
(* consumer, and its frame goes with the result in it.                     *)
Published_Destroys(j) == IF consumer[j] = "call" THEN "completed" ELSE "destroyed"

(* ResultPublisher: the coroutine completes its result, and is destroyed   *)
(* at once if the consumer has gone, else by the consumer.                 *)
Published(j) == IF consumer[j] \in {"call", "holds"} THEN "completed" ELSE "destroyed"

(* The destructors of the CYTasks at p of the jobs.  An empty one does     *)
(* nothing; a functor resumes its coroutine, which throws before it comes  *)
(* to the callable; a callable is just destroyed.                          *)
ClearTasks(of, p) ==
  LET full == {j \in of : p \in task[j]} IN
  /\ task' = [j \in Tasks |-> IF j \in of THEN task[j] \ {p} ELSE task[j]]
  /\ frame' = [j \in Tasks |-> IF j \in full THEN Published(j) ELSE frame[j]]
  /\ result' = [j \in Tasks |->
                  IF j \in full /\ consumer[j] # "none" THEN "interrupted" ELSE result[j]]

-----------------------------------------------------------------------------
(* The calls, by any thread c.                                             *)

(* A coroutine for each job, suspended at its start, or the bound callable *)
(* goes into a CYTask of the caller, and the CYResults come to be.         *)
Prepare(c) ==
  /\ CanCall(c) /\ offered < N
  /\ \E k \in Kinds, n \in 1 .. N - offered :
       LET new == offered + 1 .. offered + n IN
       /\ k = "Submit" => n = 1
       /\ kind' = [kind EXCEPT ![c] = k]
       /\ batch' = [batch EXCEPT ![c] = new]
       /\ offered' = offered + n
       /\ task' = [j \in Tasks |-> IF j \in new THEN {"caller"} ELSE task[j]]
       /\ frame' = [j \in Tasks |-> IF j \in new THEN "suspended" ELSE frame[j]]
       /\ consumer' = [j \in Tasks |->
                         IF j \in new /\ k \in Submits THEN "call" ELSE consumer[j]]
  /\ cpc' = [cpc EXCEPT ![c] = "enqueue"]
  /\ UNCHANGED <<xvars, result>>

Enqueue(c) ==
  /\ cpc[c] = "enqueue"
  /\ \/ Accept(batch[c]) /\ MoveTask(batch[c])
     \/ Refuse(batch[c]) /\ UNCHANGED task
  /\ cpc' = [cpc EXCEPT ![c] = IF abort /\ kind[c] = "BulkSubmit" THEN "drop" ELSE "clear"]
  /\ UNCHANGED <<frame, result, consumer, offered, kind, batch>>

(* Enqueue has thrown out of BulkSubmit: its vector of results is          *)
(* destroyed before its vector of tasks.                                   *)
DropResults(c) ==
  /\ cpc[c] = "drop"
  /\ consumer' = [j \in Tasks |-> IF j \in batch[c] THEN "dropped" ELSE consumer[j]]
  /\ cpc' = [cpc EXCEPT ![c] = "clear"]
  /\ UNCHANGED <<xvars, jobs, offered, kind, batch>>

(* A faulty variant: the tasks that are left over are forgotten.           *)
EndCall_Forgets(c) ==
  /\ cpc[c] = "clear"
  /\ consumer' = [j \in Tasks |-> IF j \in batch[c] /\ consumer[j] = "call"
                                  THEN "holds" ELSE consumer[j]]
  /\ cpc' = [cpc EXCEPT ![c] = "idle"]
  /\ batch' = [batch EXCEPT ![c] = {}]
  /\ kind' = [kind EXCEPT ![c] = "BulkPost"]
  /\ UNCHANGED <<xvars, jobs, offered>>

(* The CYTasks of the caller are destroyed, and it has the results.        *)
EndCall(c) ==
  /\ cpc[c] = "clear"
  /\ ClearTasks(batch[c], "caller")
  /\ consumer' = [j \in Tasks |-> IF j \in batch[c] /\ consumer[j] = "call"
                                  THEN "holds" ELSE consumer[j]]
  /\ cpc' = [cpc EXCEPT ![c] = "idle"]
  /\ batch' = [batch EXCEPT ![c] = {}]
  /\ kind' = [kind EXCEPT ![c] = "BulkPost"]
  /\ UNCHANGED <<xvars, offered>>

(* The owner of a CYResult drops it, at any time: CompleteConsumer.        *)
DropResult(j) ==
  /\ consumer[j] = "holds"
  /\ consumer' = [consumer EXCEPT ![j] = "dropped"]
  /\ frame' = [frame EXCEPT ![j] = IF @ = "completed" THEN "destroyed" ELSE @]
  /\ UNCHANGED <<xvars, task, result, calling>>

-----------------------------------------------------------------------------
(* The thread of job j.                                                    *)

RunTask(j) ==
  /\ StartTask(j)
  /\ ExecuteTask(j, "thread")
  /\ UNCHANGED <<result, consumer, calling>>

(* The callable returns, or throws, which ends in the result of a          *)
(* coroutine and is caught around a callable that was posted.  The         *)
(* coroutine may be gone before the functor is, which does not touch it.   *)
EndTask(j) ==
  /\ FinishTask(j) /\ cpc[j] = "idle"
  /\ result' = [result EXCEPT ![j] = IF consumer[j] = "none" THEN @ ELSE "outcome"]
  /\ frame' = [frame EXCEPT ![j] = Published(j)]
  /\ UNCHANGED <<task, consumer, calling>>

(* The thread ends, and with its lambda the CYTask, which is empty.        *)
EndThread(j) ==
  /\ JoinPrevious(j)
  /\ ClearTasks({j}, "thread")
  /\ UNCHANGED <<consumer, calling>>

Retire(j) ==
  /\ RetireWorker(j) \/ NotifyOne(j)
  /\ UNCHANGED <<jobs, consumer, calling>>

ShutDownStep(s) ==
  /\ ShutDown(s) \/ CloserStep(s)
  /\ UNCHANGED <<jobs, consumer, calling>>

CallStep(c) == Enqueue(c) \/ DropResults(c) \/ EndCall(c)
JobStep(j) == RunTask(j) \/ EndTask(j) \/ Retire(j) \/ EndThread(j)

Next ==
  \/ \E c \in Callers \cup Tasks : Prepare(c) \/ CallStep(c)
  \/ \E j \in Tasks : JobStep(j) \/ DropResult(j)
  \/ \E s \in Closers : ShutDownStep(s)

(* Threads run, a callable returns, and whoever is in ShutDown goes on.    *)
Spec ==
  /\ Init /\ [][Next]_vars
  /\ \A c \in Callers \cup Tasks : WF_vars(CallStep(c))
  /\ \A j \in Tasks : WF_vars(JobStep(j))
  /\ \A s \in Closers : WF_vars(CloserStep(s) /\ UNCHANGED <<jobs, consumer, calling>>)

-----------------------------------------------------------------------------
(* Every coroutine that is suspended is in one CYTask that is not empty,   *)
(* so that it is resumed once; and a CYTask that is not empty holds one    *)
(* that is suspended, although the coroutine may run to its end, or be     *)
(* freed, on the new thread before the caller is out of Enqueue.           *)
SuspendedIsInOneTask ==
  /\ TypeOK
  /\ \A j \in Tasks :
       Cardinality(task[j]) = (IF frame[j] = "suspended" THEN 1 ELSE 0)

(* What the owner of a result sees agrees with what the executor did: a    *)
(* value or the callable's exception if and only if the executor ran the   *)
(* job, and an interruption only if it refused it (that it comes then is   *)
(* for EveryJobEnds to say).  A frame is freed only when both sides are    *)
(* done with it: the job has run or was refused, and the result was        *)
(* dropped.                                                                *)
ResultsTellTheTruth ==
  \A j \in Tasks :
    /\ result[j] = "outcome" <=> fate[j] = "executed" /\ consumer[j] # "none"
    /\ result[j] = "interrupted" => fate[j] = "refused"
    /\ frame[j] = "destroyed" => /\ fate[j] \in {"executed", "refused"}
                                 /\ consumer[j] \in {"none", "dropped"}
    /\ frame[j] = "completed" => result[j] # "none" /\ consumer[j] \in {"call", "holds"}

(* Submit never throws and never hands out a result that nobody completes: *)
(* a job that was offered leaves the CYTasks, run or not, whenever the     *)
(* executor is shut down.                                                  *)
EveryJobEnds ==
  []<>(\A j \in Tasks : frame[j] \in {"none", "completed", "destroyed"})
=============================================================================
