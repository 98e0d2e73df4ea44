----------------------------- MODULE SubmitProofs -----------------------------
(***************************************************************************)
(* CYThreadExecutor and the calls that hand jobs to it, for any number of  *)
(* jobs, of threads that call Submit and of threads that call ShutDown:    *)
(* where the coroutine of a job is, what its result says, who still lives  *)
(* when ShutDown has returned, and the contract of the executors.          *)
(***************************************************************************)
EXTENDS Submit, FiniteSetTheorems, TLAPS

(* Where the thread of a task is tells the fate of the task, and which     *)
(* threads are in m_lstWorkers.                                            *)
ThreadOfTask ==
  \A t \in Tasks :
    /\ tpc[t] = "none" <=> fate[t] \in {"new", "refused"}
    /\ tpc[t] = "start" <=> fate[t] = "queued"
    /\ tpc[t] = "run" <=> fate[t] = "running"
    /\ t \in workers <=> tpc[t] \in {"start", "run", "retire"}

Retired == {t \in Tasks : tpc[t] \in {"notify", "join", "ended"}}

(* R relates a thread to those that retired after it.  One that has ended  *)
(* leaves only ended ones behind it; one that has not ended has taken the  *)
(* thread over that retired just before it, unless all those before it had *)
(* ended and were joined; and m_lstLastRetired has the last of them all.   *)
RetiredInOrder ==
  \E R \in SUBSET (Tasks \X Tasks) :
    /\ \A t \in Retired, u \in Retired : <<u, t>> \in R =>
         \/ tpc[u] = "ended"
         \/ /\ tpc[t] # "ended"
            /\ \E p \in previous[t] \cap Retired : u = p \/ <<u, p>> \in R
    /\ lastRetired \subseteq Retired
    /\ \A t \in lastRetired : \A u \in Retired : u = t \/ <<u, t>> \in R
    /\ lastRetired = {} => \A t \in Retired : tpc[t] = "ended"

(* Whoever is in ShutDown has asked for it; and until the queue is closed, *)
(* someone who has set m_bAbort is still in it.                            *)
ShutDownGoesOn ==
  /\ abort => atomicAbort
  /\ \A s \in Closers :
       /\ spc[s] \in {"abort", "sleep", "woken", "join"} => atomicAbort
       /\ spc[s] \in {"sleep", "woken", "join"} => abort
       /\ spc[s] = "join" => workers = {}
  /\ abort => \/ \E s \in Closers : spc[s] \in {"sleep", "woken", "join"}
              \/ workers = {} /\ lastRetired = {}

ThreadInv == ThreadTypeOK /\ ThreadOfTask /\ RetiredInOrder /\ ShutDownGoesOn

(* A job belongs to at most one call, and to none before it is offered.    *)
BatchesApart ==
  \A c \in Callers \cup Tasks :
    /\ cpc[c] = "idle" => batch[c] = {}
    /\ \A j \in batch[c] : j <= offered
    /\ \A d \in Callers \cup Tasks : c # d => batch[c] \cap batch[d] = {}

InCall(j, where) == \E c \in Callers \cup Tasks : j \in batch[c] /\ cpc[c] \in where

(* The result that a job has in the end.                                   *)
ResultOf(j, r) == IF consumer[j] = "none" THEN "none" ELSE r

(* The CYTasks, the frame and the result of a job follow its fate; a job   *)
(* that was refused keeps its coroutine until its caller clears the CYTask.*)
JobOK(j) ==
  /\ fate[j] = "new" /\ j > offered =>
       task[j] = {} /\ frame[j] = "none" /\ result[j] = "none" /\ consumer[j] = "none"
  /\ j > offered => fate[j] = "new"
  /\ fate[j] = "new" /\ j <= offered =>
       /\ task[j] = {"caller"} /\ frame[j] = "suspended" /\ result[j] = "none"
       /\ InCall(j, {"enqueue"})
  /\ fate[j] = "queued" =>
       task[j] = {"thread"} /\ frame[j] = "suspended" /\ result[j] = "none"
  /\ fate[j] = "running" =>
       task[j] = {} /\ frame[j] = "running" /\ result[j] = "none"
  /\ fate[j] = "executed" =>
       task[j] = {} /\ frame[j] = Published(j) /\ result[j] = ResultOf(j, "outcome")
  /\ fate[j] = "refused" =>
       \/ /\ InCall(j, {"drop", "clear"})
          /\ task[j] = {"caller"} /\ frame[j] = "suspended" /\ result[j] = "none"
       \/ /\ task[j] = {} /\ frame[j] = Published(j)
          /\ result[j] = ResultOf(j, "interrupted")

JobFollowsFate == \A j \in Tasks : JobOK(j)

(* The jobs of a call: all are new before Enqueue and none is after it;    *)
(* only jobs that were refused lose their results.                         *)
CallKnowsItsJobs ==
  \A c \in Callers \cup Tasks : \A j \in batch[c] :
    /\ cpc[c] = "enqueue" => fate[j] = "new"
    /\ cpc[c] \in {"drop", "clear"} => fate[j] # "new"
    /\ cpc[c] = "drop" => fate[j] = "refused" /\ consumer[j] = "call" /\ task[j] = {"caller"}
    /\ cpc[c] = "enqueue" /\ kind[c] = "BulkSubmit" => consumer[j] = "call"

IInv == TypeOK /\ ThreadInv /\ BatchesApart /\ JobFollowsFate /\ CallKnowsItsJobs

-----------------------------------------------------------------------------
(* The executor: what its steps do to the invariant of the threads.        *)

LEMMA InitThreadInv == ThreadInit => ThreadInv
<1> SUFFICES ASSUME ThreadInit PROVE ThreadInv
  OBVIOUS
<1> USE DEF ThreadInit
<1>1. ThreadTypeOK
  BY DEF ThreadTypeOK
<1>2. ThreadOfTask
  BY DEF ThreadOfTask
<1>3. RetiredInOrder
  <2>1. Retired = {} /\ {} \in SUBSET (Tasks \X Tasks)
    BY DEF Retired
  <2> QED
    BY <2>1 DEF RetiredInOrder
<1>4. ShutDownGoesOn
  BY DEF ShutDownGoesOn
<1> QED
  BY <1>1, <1>2, <1>3, <1>4 DEF ThreadInv

(* A step that leaves the retired threads alone keeps their order.         *)
LEMMA SameRetired ==
  ASSUME RetiredInOrder, UNCHANGED <<lastRetired, previous>>, Retired' = Retired,
         \A t \in Retired : tpc'[t] = "ended" <=> tpc[t] = "ended"
  PROVE  RetiredInOrder'
BY DEF RetiredInOrder

LEMMA ThreadsUntouched ==
  ASSUME ThreadInv, UNCHANGED xvars
  PROVE  ThreadInv'
<1> USE DEF ThreadInv, xvars, lists, aborts, threads
<1>1. RetiredInOrder'
  BY SameRetired DEF Retired
<1> QED
  BY <1>1 DEF ThreadTypeOK, ThreadOfTask, ShutDownGoesOn

(* A span of new tasks gets its threads.                                   *)
LEMMA AcceptThreadInv ==
  ASSUME ThreadInv, NEW of \in SUBSET Tasks, Accept(of), \A t \in of : fate[t] = "new"
  PROVE  ThreadInv'
<1> USE DEF ThreadInv
<1>1. /\ ~abort /\ workers' = workers \cup of
      /\ tpc' = [t \in Tasks |-> IF t \in of THEN "start" ELSE tpc[t]]
      /\ fate' = [t \in Tasks |-> IF t \in of THEN "queued" ELSE fate[t]]
      /\ UNCHANGED <<lastRetired, abort, atomicAbort, previous, spc>>
  BY DEF Accept, aborts
<1>2. ThreadTypeOK'
  BY <1>1 DEF ThreadTypeOK
<1>3. ThreadOfTask'
  BY <1>1 DEF ThreadOfTask
<1>4. RetiredInOrder'
  <2>1. \A t \in of : tpc[t] = "none"
    BY DEF ThreadOfTask
  <2>2. Retired' = Retired /\ \A t \in Retired : tpc'[t] = tpc[t]
    BY <1>1, <2>1 DEF Retired
  <2> QED
    BY <1>1, <2>2, SameRetired
<1>5. ShutDownGoesOn'
  BY <1>1 DEF ShutDownGoesOn
<1> QED
  BY <1>2, <1>3, <1>4, <1>5

LEMMA RefuseThreadInv ==
  ASSUME ThreadInv, NEW of \in SUBSET Tasks, Refuse(of), \A t \in of : fate[t] = "new"
  PROVE  ThreadInv'
<1> USE DEF ThreadInv
<1>1. /\ fate' = [t \in Tasks |-> IF t \in of THEN "refused" ELSE fate[t]]
      /\ UNCHANGED <<workers, lastRetired, abort, atomicAbort, tpc, previous, spc>>
  BY DEF Refuse, lists, aborts, threads
<1>2. ThreadTypeOK'
  BY <1>1 DEF ThreadTypeOK
<1>3. ThreadOfTask'
  BY <1>1 DEF ThreadOfTask
<1>4. RetiredInOrder'
  BY <1>1, SameRetired DEF Retired
<1>5. ShutDownGoesOn'
  BY <1>1 DEF ShutDownGoesOn
<1> QED
  BY <1>2, <1>3, <1>4, <1>5

(* A thread moves on without retiring.                                     *)
LEMMA StartTaskThreadInv ==
  ASSUME ThreadInv, NEW t \in Tasks, StartTask(t)
  PROVE  ThreadInv'
<1> USE DEF ThreadInv
<1>1. /\ tpc[t] = "start" /\ tpc' = [tpc EXCEPT ![t] = "run"]
      /\ fate' = [fate EXCEPT ![t] = "running"]
      /\ UNCHANGED <<workers, lastRetired, abort, atomicAbort, previous, spc>>
  BY DEF StartTask, Moves, lists, aborts
<1>2. ThreadTypeOK'
  BY <1>1 DEF ThreadTypeOK
<1>3. ThreadOfTask'
  BY <1>1 DEF ThreadOfTask, ThreadTypeOK
<1>4. RetiredInOrder'
  <2>1. Retired' = Retired /\ \A u \in Retired : tpc'[u] = tpc[u]
    BY <1>1 DEF Retired, ThreadTypeOK
  <2> QED
    BY <1>1, <2>1, SameRetired
<1>5. ShutDownGoesOn'
  BY <1>1 DEF ShutDownGoesOn
<1> QED
  BY <1>2, <1>3, <1>4, <1>5

LEMMA FinishTaskThreadInv ==
  ASSUME ThreadInv, NEW t \in Tasks, FinishTask(t)
  PROVE  ThreadInv'
<1> USE DEF ThreadInv
<1>1. /\ tpc[t] = "run" /\ tpc' = [tpc EXCEPT ![t] = "retire"]
      /\ fate' = [fate EXCEPT ![t] = "executed"]
      /\ UNCHANGED <<workers, lastRetired, abort, atomicAbort, previous, spc>>
  BY DEF FinishTask, Moves, lists, aborts
<1>2. ThreadTypeOK'
  BY <1>1 DEF ThreadTypeOK
<1>3. ThreadOfTask'
  BY <1>1 DEF ThreadOfTask, ThreadTypeOK
<1>4. RetiredInOrder'
  <2>1. Retired' = Retired /\ \A u \in Retired : tpc'[u] = tpc[u]
    BY <1>1 DEF Retired, ThreadTypeOK
  <2> QED
    BY <1>1, <2>1, SameRetired
<1>5. ShutDownGoesOn'
  BY <1>1 DEF ShutDownGoesOn
<1> QED
  BY <1>2, <1>3, <1>4, <1>5

(* A thread retires: it comes after all the others in the order, and the   *)
(* thread that it takes with it was the last of them.                      *)
LEMMA RetireWorkerThreadInv ==
  ASSUME ThreadInv, NEW t \in Tasks, RetireWorker(t)
  PROVE  ThreadInv'
<1> USE DEF ThreadInv
<1>1. /\ tpc[t] = "retire" /\ tpc' = [tpc EXCEPT ![t] = "notify"]
      /\ previous' = [previous EXCEPT ![t] = lastRetired]
      /\ lastRetired' = {t} /\ workers' = workers \ {t}
      /\ UNCHANGED <<abort, atomicAbort, spc, fate>>
  BY DEF RetireWorker, Moves, aborts
<1>2. ThreadTypeOK'
  BY <1>1 DEF ThreadTypeOK
<1>3. ThreadOfTask'
  BY <1>1 DEF ThreadOfTask, ThreadTypeOK
<1>4. RetiredInOrder'
  <2>1. PICK R \in SUBSET (Tasks \X Tasks) :
          /\ \A v \in Retired, u \in Retired : <<u, v>> \in R =>
               \/ tpc[u] = "ended"
               \/ /\ tpc[v] # "ended"
                  /\ \E p \in previous[v] \cap Retired : u = p \/ <<u, p>> \in R
          /\ lastRetired \subseteq Retired
          /\ \A v \in lastRetired : \A u \in Retired : u = v \/ <<u, v>> \in R
          /\ lastRetired = {} => \A v \in Retired : tpc[v] = "ended"
    BY DEF RetiredInOrder
  <2> DEFINE S == {q \in R : q[1] # t /\ q[2] # t} \cup (Retired \X {t})
  <2>2. /\ t \notin Retired /\ Retired' = Retired \cup {t} /\ tpc'[t] = "notify"
        /\ previous'[t] = lastRetired
        /\ \A u \in Retired : u # t /\ u \in Tasks /\ tpc'[u] = tpc[u] /\ previous'[u] = previous[u]
    BY <1>1 DEF Retired, ThreadTypeOK
  <2>3. S \in SUBSET (Tasks \X Tasks)
    BY DEF Retired
  <2>4. \A u \in Retired, v \in Retired : <<u, v>> \in S <=> <<u, v>> \in R
    BY <2>2
  <2>5. \A u \in Retired : <<u, t>> \in S
    OBVIOUS
  <2>6. \A u \in Tasks : <<t, u>> \notin S
    BY <2>2
  <2> HIDE DEF S
  <2>7. \A v \in Retired', u \in Retired' : <<u, v>> \in S =>
          \/ tpc'[u] = "ended"
          \/ /\ tpc'[v] # "ended"
             /\ \E p \in previous'[v] \cap Retired' : u = p \/ <<u, p>> \in S
    <3>1. ASSUME NEW u \in Retired, NEW v \in Retired, <<u, v>> \in S
          PROVE  \/ tpc'[u] = "ended"
                 \/ /\ tpc'[v] # "ended"
                    /\ \E p \in previous'[v] \cap Retired' : u = p \/ <<u, p>> \in S
      BY <2>1, <2>2, <2>4, <3>1
    <3>2. ASSUME NEW u \in Retired
          PROVE  \/ tpc'[u] = "ended"
                 \/ \E p \in previous'[t] \cap Retired' : u = p \/ <<u, p>> \in S
      <4>1. CASE lastRetired = {}
        BY <2>1, <2>2, <4>1
      <4>2. CASE lastRetired # {}
        <5>1. PICK p \in lastRetired : TRUE
          BY <4>2
        <5> QED
          BY <2>1, <2>2, <2>4, <5>1
      <4> QED
        BY <4>1, <4>2
    <3> QED
      BY <2>2, <2>6, <3>1, <3>2, t \in Tasks
  <2>8. lastRetired' \subseteq Retired' /\ lastRetired' # {}
        /\ \A v \in lastRetired' : \A u \in Retired' : u = v \/ <<u, v>> \in S
    BY <1>1, <2>2, <2>5
  <2> QED
    BY <2>3, <2>7, <2>8 DEF RetiredInOrder
<1>5. ShutDownGoesOn'
  <2>1. workers # {}
    BY <1>1 DEF ThreadOfTask
  <2> QED
    BY <1>1, <2>1 DEF ShutDownGoesOn
<1> QED
  BY <1>2, <1>3, <1>4, <1>5

LEMMA NotifyOneThreadInv ==
  ASSUME ThreadInv, NEW t \in Tasks, NotifyOne(t)
  PROVE  ThreadInv'
<1> USE DEF ThreadInv
<1>1. /\ tpc[t] = "notify" /\ tpc' = [tpc EXCEPT ![t] = "join"]
      /\ spc' = [s \in Closers |-> IF spc[s] = "sleep" THEN "woken" ELSE spc[s]]
      /\ UNCHANGED <<workers, lastRetired, abort, atomicAbort, previous, fate>>
  BY DEF NotifyOne, Moves, lists, aborts
<1>2. ThreadTypeOK'
  BY <1>1 DEF ThreadTypeOK
<1>3. ThreadOfTask'
  BY <1>1 DEF ThreadOfTask, ThreadTypeOK
<1>4. RetiredInOrder'
  <2>1. Retired' = Retired /\ \A u \in Retired : tpc'[u] = "ended" <=> tpc[u] = "ended"
    BY <1>1 DEF Retired, ThreadTypeOK
  <2> QED
    BY <1>1, <2>1, SameRetired
<1>5. ShutDownGoesOn'
  BY <1>1 DEF ShutDownGoesOn
<1> QED
  BY <1>2, <1>3, <1>4, <1>5

(* A thread ends after the one that it has taken over, which ended after   *)
(* all those that retired before it.                                       *)
LEMMA JoinPreviousThreadInv ==
  ASSUME ThreadInv, NEW t \in Tasks, JoinPrevious(t)
  PROVE  ThreadInv'
<1> USE DEF ThreadInv
<1>1. /\ tpc[t] = "join" /\ tpc' = [tpc EXCEPT ![t] = "ended"]
      /\ \A p \in previous[t] : tpc[p] = "ended"
      /\ previous' = [previous EXCEPT ![t] = {}]
      /\ UNCHANGED <<workers, lastRetired, abort, atomicAbort, spc, fate>>
  BY DEF JoinPrevious, Moves, lists, aborts
<1>2. ThreadTypeOK'
  BY <1>1 DEF ThreadTypeOK
<1>3. ThreadOfTask'
  BY <1>1 DEF ThreadOfTask, ThreadTypeOK
<1>4. RetiredInOrder'
  <2>1. PICK R \in SUBSET (Tasks \X Tasks) :
          /\ \A v \in Retired, u \in Retired : <<u, v>> \in R =>
               \/ tpc[u] = "ended"
               \/ /\ tpc[v] # "ended"
                  /\ \E p \in previous[v] \cap Retired : u = p \/ <<u, p>> \in R
          /\ lastRetired \subseteq Retired
          /\ \A v \in lastRetired : \A u \in Retired : u = v \/ <<u, v>> \in R
          /\ lastRetired = {} => \A v \in Retired : tpc[v] = "ended"
    BY DEF RetiredInOrder
  <2>2. /\ t \in Retired /\ Retired' = Retired /\ tpc'[t] = "ended"
        /\ \A u \in Retired : u # t => tpc'[u] = tpc[u] /\ previous'[u] = previous[u]
        /\ \A u \in Retired : tpc[u] = "ended" => tpc'[u] = "ended"
    BY <1>1 DEF Retired, ThreadTypeOK
  <2>3. \A u \in Retired : <<u, t>> \in R => tpc[u] = "ended"
    <3> SUFFICES ASSUME NEW u \in Retired, <<u, t>> \in R, tpc[u] # "ended" PROVE FALSE
      OBVIOUS
    <3>1. PICK p \in previous[t] \cap Retired : u = p \/ <<u, p>> \in R
      BY <2>1, <2>2
    <3>2. tpc[p] = "ended"
      BY <1>1, <3>1
    <3> QED
      BY <2>1, <3>1, <3>2
  <2>4. \A v \in Retired, u \in Retired : <<u, v>> \in R =>
          \/ tpc'[u] = "ended"
          \/ /\ tpc'[v] # "ended"
             /\ \E p \in previous'[v] \cap Retired : u = p \/ <<u, p>> \in R
    <3> SUFFICES ASSUME NEW v \in Retired, NEW u \in Retired, <<u, v>> \in R, tpc'[u] # "ended"
                 PROVE  /\ tpc'[v] # "ended"
                        /\ \E p \in previous'[v] \cap Retired : u = p \/ <<u, p>> \in R
      OBVIOUS
    <3>1. v # t /\ tpc[u] # "ended"
      BY <2>2, <2>3
    <3>2. tpc'[v] = tpc[v] /\ previous'[v] = previous[v]
      BY <2>2, <3>1
    <3> QED
      BY <2>1, <3>1, <3>2
  <2>5. /\ lastRetired' \subseteq Retired'
        /\ \A v \in lastRetired' : \A u \in Retired' : u = v \/ <<u, v>> \in R
        /\ lastRetired' = {} => \A v \in Retired' : tpc'[v] = "ended"
    BY <1>1, <2>1, <2>2
  <2>6. \A v \in Retired', u \in Retired' : <<u, v>> \in R =>
          \/ tpc'[u] = "ended"
          \/ /\ tpc'[v] # "ended"
             /\ \E p \in previous'[v] \cap Retired' : u = p \/ <<u, p>> \in R
    BY <2>2, <2>4
  <2> QED
    BY <2>5, <2>6 DEF RetiredInOrder
<1>5. ShutDownGoesOn'
  BY <1>1 DEF ShutDownGoesOn
<1> QED
  BY <1>2, <1>3, <1>4, <1>5

(* The steps of ShutDown.  The one that joins the thread that retired last *)
(* has by then joined them all.                                            *)
LEMMA ShutDownThreadInv ==
  ASSUME ThreadInv, NEW s \in Closers, ShutDown(s) \/ CloserStep(s)
  PROVE  ThreadInv'
<1> USE DEF ThreadInv
<1>1. CASE ShutDown(s)
  <2>1. /\ atomicAbort' = TRUE /\ spc[s] = "idle"
        /\ spc' = [spc EXCEPT ![s] = IF atomicAbort THEN "returned" ELSE "abort"]
        /\ UNCHANGED <<workers, lastRetired, abort, tpc, previous, fate>>
    BY <1>1 DEF ShutDown, lists, threads
  <2>2. ThreadTypeOK' /\ ThreadOfTask'
    BY <2>1 DEF ThreadTypeOK, ThreadOfTask
  <2>3. RetiredInOrder'
    BY <2>1, SameRetired DEF Retired
  <2>4. ShutDownGoesOn'
    BY <2>1 DEF ShutDownGoesOn, ThreadTypeOK
  <2> QED
    BY <2>2, <2>3, <2>4
<1>2. CASE AwaitWorkers(s)
  <2>1. /\ abort' = TRUE /\ spc[s] \in {"abort", "woken"}
        /\ spc' = [spc EXCEPT ![s] = IF workers # {} THEN "sleep"
                                     ELSE IF lastRetired = {} THEN "returned" ELSE "join"]
        /\ UNCHANGED <<workers, lastRetired, atomicAbort, tpc, previous, fate>>
    BY <1>2 DEF AwaitWorkers, lists, threads
  <2>2. ThreadTypeOK' /\ ThreadOfTask'
    BY <2>1 DEF ThreadTypeOK, ThreadOfTask
  <2>3. RetiredInOrder'
    BY <2>1, SameRetired DEF Retired
  <2>4. ShutDownGoesOn'
    BY <2>1 DEF ShutDownGoesOn, ThreadTypeOK
  <2> QED
    BY <2>2, <2>3, <2>4
<1>3. CASE JoinLast(s)
  <2>1. /\ lastRetired' = {} /\ spc[s] = "join" /\ \A t \in lastRetired : tpc[t] = "ended"
        /\ spc' = [spc EXCEPT ![s] = "returned"]
        /\ UNCHANGED <<workers, abort, atomicAbort, tpc, previous, fate>>
    BY <1>3 DEF JoinLast, aborts, threads
  <2>2. ThreadTypeOK' /\ ThreadOfTask'
    BY <2>1 DEF ThreadTypeOK, ThreadOfTask
  <2>3. \A t \in Retired : tpc[t] = "ended"
    BY <2>1 DEF RetiredInOrder
  <2>4. RetiredInOrder'
    <3>1. {} \in SUBSET (Tasks \X Tasks) /\ Retired' = Retired
      BY <2>1 DEF Retired
    <3> QED
      BY <2>1, <2>3, <3>1 DEF RetiredInOrder
  <2>5. ShutDownGoesOn'
    BY <2>1 DEF ShutDownGoesOn, ThreadTypeOK
  <2> QED
    BY <2>2, <2>4, <2>5
<1> QED
  BY <1>1, <1>2, <1>3 DEF CloserStep

-----------------------------------------------------------------------------
(* The calls and the jobs.                                                 *)

LEMMA InitIInv == Init => IInv
<1> SUFFICES ASSUME Init PROVE IInv
  OBVIOUS
<1> USE DEF Init
<1>1. ThreadInv
  BY InitThreadInv
<1>2. TypeOK
  BY <1>1, ThreadAssumption DEF TypeOK, ThreadInv, Kinds
<1>3. BatchesApart /\ CallKnowsItsJobs
  BY DEF BatchesApart, CallKnowsItsJobs
<1>4. JobFollowsFate
  BY ThreadAssumption DEF JobFollowsFate, JobOK, ThreadInit, Tasks
<1> QED
  BY <1>1, <1>2, <1>3, <1>4 DEF IInv

(* What a job is follows from what is recorded of it alone.                *)
LEMMA JobUntouched ==
  ASSUME NEW j \in Tasks, JobOK(j), UNCHANGED offered,
         fate'[j] = fate[j], task'[j] = task[j], frame'[j] = frame[j], result'[j] = result[j],
         consumer'[j] = consumer[j],
         InCall(j, {"enqueue"}) => InCall(j, {"enqueue"})',
         InCall(j, {"drop", "clear"}) => InCall(j, {"drop", "clear"})'
  PROVE  JobOK(j)'
BY DEF JobOK, Published, ResultOf

LEMMA PrepareIInv ==
  ASSUME IInv, NEW c \in Callers \cup Tasks, Prepare(c)
  PROVE  IInv'
<1> USE DEF IInv
<1> DEFINE All == Callers \cup Tasks
<1>1. PICK k \in Kinds, n \in 1 .. N - offered :
        LET new == offered + 1 .. offered + n IN
        /\ kind' = [kind EXCEPT ![c] = k]
        /\ batch' = [batch EXCEPT ![c] = new]
        /\ offered' = offered + n
        /\ task' = [j \in Tasks |-> IF j \in new THEN {"caller"} ELSE task[j]]
        /\ frame' = [j \in Tasks |-> IF j \in new THEN "suspended" ELSE frame[j]]
        /\ consumer' = [j \in Tasks |->
                          IF j \in new /\ k \in Submits THEN "call" ELSE consumer[j]]
  BY DEF Prepare
<1> DEFINE new == offered + 1 .. offered + n
<1>2. /\ cpc[c] = "idle" /\ cpc' = [cpc EXCEPT ![c] = "enqueue"] /\ UNCHANGED <<xvars, result>>
      /\ batch[c] = {}
  BY DEF Prepare, CanCall, BatchesApart
<1>3. /\ new \subseteq Tasks /\ offered' \in 0 .. N /\ offered' > offered
      /\ \A j \in new : j > offered /\ j <= offered'
      /\ \A j \in Tasks : j > offered' => j > offered
      /\ \A j \in Tasks : j \notin new /\ j <= offered' => j <= offered
  BY <1>1, ThreadAssumption DEF TypeOK, Tasks
<1>4. /\ kind' = [kind EXCEPT ![c] = k] /\ batch' = [batch EXCEPT ![c] = new]
      /\ task' = [j \in Tasks |-> IF j \in new THEN {"caller"} ELSE task[j]]
      /\ frame' = [j \in Tasks |-> IF j \in new THEN "suspended" ELSE frame[j]]
      /\ consumer' = [j \in Tasks |->
                        IF j \in new /\ k \in Submits THEN "call" ELSE consumer[j]]
  BY <1>1
<1> HIDE DEF new
<1>5. /\ batch'[c] = new /\ cpc'[c] = "enqueue" /\ kind'[c] = k
      /\ \A d \in All : d # c => batch'[d] = batch[d] /\ cpc'[d] = cpc[d] /\ kind'[d] = kind[d]
  BY <1>2, <1>4 DEF TypeOK
<1>6. \A d \in All : batch[d] \subseteq Tasks /\ batch[d] \cap new = {}
                     /\ \A j \in batch[d] : j <= offered
  <2>1. ASSUME NEW d \in All, NEW j \in batch[d] PROVE j <= offered /\ j \in Tasks /\ j \notin new
    <3>1. j <= offered /\ j \in Tasks
      BY DEF BatchesApart, TypeOK
    <3>2. ~(j > offered)
      BY <3>1, ThreadAssumption DEF TypeOK, Tasks
    <3> QED
      BY <1>3, <3>1, <3>2
  <2> QED
    BY <2>1
<1>7. ThreadInv'
  BY <1>2, ThreadsUntouched
<1>8. TypeOK'
  <2>1. consumer' \in [Tasks -> {"none", "call", "holds", "dropped"}]
    BY <1>4 DEF TypeOK
  <2>2. task' \in [Tasks -> SUBSET Places] /\ "caller" \in Places
    BY <1>4 DEF TypeOK, Places
  <2>3. frame' \in [Tasks -> {"none", "suspended", "running", "completed", "destroyed"}]
    BY <1>4 DEF TypeOK
  <2>4. batch' \in [Callers \cup Tasks -> SUBSET Tasks]
    BY <1>3, <1>4 DEF TypeOK
  <2> QED
    BY <1>2, <1>3, <1>4, <1>7, <2>1, <2>2, <2>3, <2>4 DEF TypeOK, ThreadInv
<1>9. BatchesApart'
  <2>1. ASSUME NEW d \in All PROVE cpc'[d] = "idle" => batch'[d] = {}
    BY <1>5 DEF BatchesApart
  <2>2. ASSUME NEW d \in All, NEW j \in batch'[d] PROVE j <= offered'
    <3>1. CASE d = c
      BY <1>3, <1>5, <2>2, <3>1
    <3>2. CASE d # c
      <4>1. j \in Tasks /\ j <= offered
        BY <1>5, <1>6, <2>2, <3>2
      <4> QED
        BY <1>3, <4>1, ThreadAssumption DEF TypeOK, Tasks
    <3> QED
      BY <3>1, <3>2
  <2>3. ASSUME NEW d \in All, NEW e \in All, d # e PROVE batch'[d] \cap batch'[e] = {}
    BY <1>5, <1>6, <2>3 DEF BatchesApart
  <2> QED
    BY <2>1, <2>2, <2>3 DEF BatchesApart
<1>10. fate' = fate /\ \A j \in new : fate[j] = "new" /\ result[j] = "none"
  BY <1>2, <1>3 DEF xvars, JobFollowsFate, JobOK
<1>11. JobFollowsFate'
  <2>1. ASSUME NEW j \in new PROVE JobOK(j)'
    <3>1. /\ fate'[j] = "new" /\ task'[j] = {"caller"} /\ frame'[j] = "suspended"
          /\ result'[j] = "none" /\ j \in Tasks
      BY <1>2, <1>3, <1>4, <1>10
    <3>2. InCall(j, {"enqueue"})'
      BY <1>5 DEF InCall
    <3>3. ~(j > offered')
      BY <1>3, <3>1, ThreadAssumption DEF TypeOK, Tasks
    <3> QED
      BY <3>1, <3>2, <3>3 DEF JobOK
  <2>2. ASSUME NEW j \in Tasks, j \notin new PROVE JobOK(j)'
    <3>1. /\ fate'[j] = fate[j] /\ task'[j] = task[j] /\ frame'[j] = frame[j]
          /\ result'[j] = result[j] /\ consumer'[j] = consumer[j]
      BY <1>2, <1>4, <1>10, <2>2
    <3>2. ASSUME NEW d \in All, j \in batch[d] PROVE j \in batch'[d] /\ cpc'[d] = cpc[d]
      BY <1>2, <1>5, <3>2
    <3>3. /\ InCall(j, {"enqueue"}) => InCall(j, {"enqueue"})'
          /\ InCall(j, {"drop", "clear"}) => InCall(j, {"drop", "clear"})'
      BY <3>2 DEF InCall
    <3>4. JobOK(j)
      BY DEF JobFollowsFate
    <3>5. (j > offered' => j > offered) /\ (j <= offered' => j <= offered)
      BY <1>3, <2>2
    <3> QED
      BY <3>1, <3>3, <3>4, <3>5 DEF JobOK, Published, ResultOf
  <2> QED
    BY <2>1, <2>2 DEF JobFollowsFate
<1>12. CallKnowsItsJobs'
  <2>1. ASSUME NEW j \in batch'[c]
        PROVE  fate'[j] = "new" /\ (kind'[c] = "BulkSubmit" => consumer'[j] = "call")
    <3>1. j \in new /\ j \in Tasks
      BY <1>3, <1>5
    <3> QED
      BY <1>4, <1>5, <1>10, <3>1 DEF Submits
  <2>2. ASSUME NEW d \in All, d # c, NEW j \in batch'[d]
        PROVE  /\ j \in batch[d] /\ fate'[j] = fate[j] /\ consumer'[j] = consumer[j]
               /\ task'[j] = task[j]
    <3>1. j \in batch[d] /\ j \in Tasks /\ j \notin new
      BY <1>5, <1>6, <2>2
    <3> QED
      BY <1>4, <1>10, <3>1
  <2>3. ASSUME NEW d \in All, NEW j \in batch'[d]
        PROVE  /\ cpc'[d] = "enqueue" => fate'[j] = "new"
               /\ cpc'[d] \in {"drop", "clear"} => fate'[j] # "new"
               /\ cpc'[d] = "drop" =>
                    fate'[j] = "refused" /\ consumer'[j] = "call" /\ task'[j] = {"caller"}
               /\ cpc'[d] = "enqueue" /\ kind'[d] = "BulkSubmit" => consumer'[j] = "call"
    <3>1. CASE d = c
      BY <1>5, <2>1, <2>3, <3>1
    <3>2. CASE d # c
      BY <1>5, <2>2, <2>3, <3>2 DEF CallKnowsItsJobs
    <3> QED
      BY <3>1, <3>2
  <2> QED
    BY <2>3 DEF CallKnowsItsJobs
<1> QED
  BY <1>7, <1>8, <1>9, <1>11, <1>12

(* Enqueue gives every job of the call to a thread of its own, or refuses  *)
(* them all; BulkSubmit then drops their results.                          *)
LEMMA EnqueueIInv ==
  ASSUME IInv, NEW c \in Callers \cup Tasks, Enqueue(c)
  PROVE  IInv'
<1> USE DEF IInv
<1> DEFINE All == Callers \cup Tasks
           of == batch[c]
<1>1. /\ cpc[c] = "enqueue" /\ UNCHANGED <<frame, result, consumer, offered, kind, batch>>
      /\ cpc' = [cpc EXCEPT ![c] = IF abort /\ kind[c] = "BulkSubmit" THEN "drop" ELSE "clear"]
  BY DEF Enqueue
<1>2. /\ of \subseteq Tasks
      /\ \A j \in of : /\ fate[j] = "new" /\ j <= offered /\ task[j] = {"caller"}
                       /\ frame[j] = "suspended" /\ result[j] = "none"
                       /\ kind[c] = "BulkSubmit" => consumer[j] = "call"
  BY <1>1 DEF TypeOK, CallKnowsItsJobs, BatchesApart, JobFollowsFate, JobOK
<1>3. /\ cpc'[c] = "clear" \/ (cpc'[c] = "drop" /\ kind[c] = "BulkSubmit")
      /\ \A d \in All : d # c => cpc'[d] = cpc[d]
      /\ cpc' \in [All -> {"idle", "enqueue", "drop", "clear"}]
  BY <1>1 DEF TypeOK
<1> HIDE DEF of
<1>4. /\ ThreadInv' /\ task' \in [Tasks -> SUBSET Places]
      /\ \A j \in Tasks \ of : fate'[j] = fate[j] /\ task'[j] = task[j]
      /\ \A j \in of : \/ fate'[j] = "queued" /\ task'[j] = {"thread"} /\ cpc'[c] = "clear"
                       \/ fate'[j] = "refused" /\ task'[j] = {"caller"}
  <2>1. CASE Accept(of) /\ MoveTask(of)
    <3>1. ThreadInv'
      BY <1>2, <2>1, AcceptThreadInv
    <3>2. /\ ~abort /\ fate' = [t \in Tasks |-> IF t \in of THEN "queued" ELSE fate[t]]
          /\ task' = [j \in Tasks |->
                        IF j \in of /\ "caller" \in task[j] THEN {"thread"} ELSE task[j]]
      BY <2>1 DEF Accept, MoveTask
    <3>3. cpc'[c] = "clear"
      BY <1>1, <3>2 DEF TypeOK
    <3>4. task' \in [Tasks -> SUBSET Places]
      BY <3>2 DEF TypeOK, Places
    <3> QED
      BY <1>2, <3>1, <3>2, <3>3, <3>4
  <2>2. CASE Refuse(of) /\ UNCHANGED task
    <3>1. ThreadInv'
      BY <1>2, <2>2, RefuseThreadInv
    <3>2. fate' = [t \in Tasks |-> IF t \in of THEN "refused" ELSE fate[t]]
      BY <2>2 DEF Refuse
    <3> QED
      BY <1>2, <2>2, <3>1, <3>2 DEF TypeOK
  <2> QED
    BY <2>1, <2>2 DEF Enqueue, of
<1>5. TypeOK'
  BY <1>1, <1>3, <1>4 DEF TypeOK, ThreadInv
<1>6. BatchesApart'
  BY <1>1, <1>3 DEF BatchesApart
<1>7. JobFollowsFate'
  <2>1. ASSUME NEW j \in of PROVE JobOK(j)'
    <3>1. InCall(j, {"drop", "clear"})'
      BY <1>1, <1>3 DEF InCall, of
    <3>2. ~(j > offered')
      BY <1>1, <1>2, ThreadAssumption DEF TypeOK, Tasks
    <3> QED
      BY <1>1, <1>2, <1>4, <3>1, <3>2 DEF JobOK
  <2>2. ASSUME NEW j \in Tasks \ of PROVE JobOK(j)'
    <3>1. ASSUME NEW d \in All, j \in batch[d] PROVE j \in batch'[d] /\ cpc'[d] = cpc[d]
      BY <1>1, <1>3, <2>2, <3>1 DEF of
    <3>2. /\ InCall(j, {"enqueue"}) => InCall(j, {"enqueue"})'
          /\ InCall(j, {"drop", "clear"}) => InCall(j, {"drop", "clear"})'
      BY <3>1 DEF InCall
    <3> QED
      BY <1>1, <1>4, <3>2, JobUntouched DEF JobFollowsFate
  <2> QED
    BY <2>1, <2>2 DEF JobFollowsFate
<1>8. CallKnowsItsJobs'
  <2>1. ASSUME NEW d \in All, NEW j \in batch'[d]
        PROVE  /\ cpc'[d] = "enqueue" => fate'[j] = "new"
               /\ cpc'[d] \in {"drop", "clear"} => fate'[j] # "new"
               /\ cpc'[d] = "drop" =>
                    fate'[j] = "refused" /\ consumer'[j] = "call" /\ task'[j] = {"caller"}
               /\ cpc'[d] = "enqueue" /\ kind'[d] = "BulkSubmit" => consumer'[j] = "call"
    <3>1. CASE d = c
      BY <1>1, <1>2, <1>3, <1>4, <2>1, <3>1 DEF of
    <3>2. CASE d # c
      <4>1. j \in Tasks \ of /\ j \in batch[d]
        BY <1>1, <2>1, <3>2 DEF BatchesApart, TypeOK, of
      <4> QED
        BY <1>1, <1>3, <1>4, <3>2, <4>1 DEF CallKnowsItsJobs
    <3> QED
      BY <3>1, <3>2
  <2> QED
    BY <2>1 DEF CallKnowsItsJobs
<1> QED
  BY <1>4, <1>5, <1>6, <1>7, <1>8

LEMMA DropResultsIInv ==
  ASSUME IInv, NEW c \in Callers \cup Tasks, DropResults(c)
  PROVE  IInv'
<1> USE DEF IInv
<1> DEFINE All == Callers \cup Tasks
           of == batch[c]
<1>1. /\ cpc[c] = "drop" /\ cpc' = [cpc EXCEPT ![c] = "clear"]
      /\ consumer' = [j \in Tasks |-> IF j \in of THEN "dropped" ELSE consumer[j]]
      /\ UNCHANGED <<xvars, task, frame, result, offered, kind, batch>>
  BY DEF DropResults, jobs
<1>2. /\ of \subseteq Tasks /\ fate' = fate
      /\ \A j \in of : fate[j] = "refused" /\ task[j] = {"caller"} /\ j <= offered
  BY <1>1 DEF TypeOK, CallKnowsItsJobs, BatchesApart, xvars
<1>3. /\ cpc'[c] = "clear" /\ \A d \in All : d # c => cpc'[d] = cpc[d]
      /\ cpc' \in [All -> {"idle", "enqueue", "drop", "clear"}]
  BY <1>1 DEF TypeOK
<1> HIDE DEF of
<1>4. ThreadInv'
  BY <1>1, ThreadsUntouched
<1>5. TypeOK'
  <2>1. consumer' \in [Tasks -> {"none", "call", "holds", "dropped"}]
    BY <1>1 DEF TypeOK
  <2> QED
    BY <1>1, <1>3, <1>4, <2>1 DEF TypeOK, ThreadInv
<1>6. BatchesApart'
  BY <1>1, <1>3 DEF BatchesApart
<1>7. JobFollowsFate'
  <2>1. ASSUME NEW j \in of PROVE JobOK(j)'
    <3>1. InCall(j, {"drop", "clear"})' /\ j \in Tasks
      BY <1>1, <1>2, <1>3 DEF InCall, of
    <3>2. ~(j > offered')
      BY <1>1, <1>2, ThreadAssumption DEF TypeOK, Tasks
    <3>3. frame[j] = "suspended" /\ result[j] = "none"
      BY <1>2, <3>1 DEF JobFollowsFate, JobOK
    <3> QED
      BY <1>1, <1>2, <3>1, <3>2, <3>3 DEF JobOK
  <2>2. ASSUME NEW j \in Tasks \ of PROVE JobOK(j)'
    <3>1. ASSUME NEW d \in All, j \in batch[d] PROVE j \in batch'[d] /\ cpc'[d] = cpc[d]
      BY <1>1, <1>3, <2>2, <3>1 DEF of
    <3>2. /\ InCall(j, {"enqueue"}) => InCall(j, {"enqueue"})'
          /\ InCall(j, {"drop", "clear"}) => InCall(j, {"drop", "clear"})'
      BY <3>1 DEF InCall
    <3>3. consumer'[j] = consumer[j]
      BY <1>1
    <3> QED
      BY <1>1, <1>2, <3>2, <3>3, JobUntouched DEF JobFollowsFate
  <2> QED
    BY <2>1, <2>2 DEF JobFollowsFate
<1>8. CallKnowsItsJobs'
  <2>1. ASSUME NEW d \in All, d # c, NEW j \in batch[d] PROVE consumer'[j] = consumer[j]
    BY <1>1, <2>1 DEF BatchesApart, TypeOK, of
  <2> QED
    BY <1>1, <1>2, <1>3, <2>1 DEF CallKnowsItsJobs, of
<1> QED
  BY <1>4, <1>5, <1>6, <1>7, <1>8

(* The CYTasks of a call are destroyed: those that were moved are empty,   *)
(* and those that were refused resume their coroutines, or drop their      *)
(* callables.                                                              *)
LEMMA EndCallIInv ==
  ASSUME IInv, NEW c \in Callers \cup Tasks, EndCall(c)
  PROVE  IInv'
<1> USE DEF IInv
<1> DEFINE All == Callers \cup Tasks
           of == batch[c]
           full == {j \in of : "caller" \in task[j]}
<1>1. /\ cpc[c] = "clear" /\ cpc' = [cpc EXCEPT ![c] = "idle"]
      /\ batch' = [batch EXCEPT ![c] = {}] /\ kind' = [kind EXCEPT ![c] = "BulkPost"]
      /\ UNCHANGED <<xvars, offered>>
  BY DEF EndCall
<1>2. /\ consumer' = [j \in Tasks |-> IF j \in of /\ consumer[j] = "call"
                                      THEN "holds" ELSE consumer[j]]
      /\ task' = [j \in Tasks |-> IF j \in of THEN task[j] \ {"caller"} ELSE task[j]]
      /\ frame' = [j \in Tasks |-> IF j \in full THEN Published(j) ELSE frame[j]]
      /\ result' = [j \in Tasks |->
                      IF j \in full /\ consumer[j] # "none" THEN "interrupted" ELSE result[j]]
  BY DEF EndCall, ClearTasks
<1>3. /\ of \subseteq Tasks /\ full \subseteq of /\ fate' = fate
      /\ \A j \in of : fate[j] # "new"
  BY <1>1 DEF TypeOK, CallKnowsItsJobs, xvars
<1>4. \A j \in full : fate[j] = "refused" /\ result[j] = "none" /\ task[j] = {"caller"}
  <2>1. ASSUME NEW j \in full PROVE j \in Tasks /\ "caller" \in task[j] /\ JobOK(j) /\ fate[j] # "new"
    BY <1>3 DEF JobFollowsFate
  <2>2. ASSUME NEW j \in Tasks
        PROVE  fate[j] \in {"new", "queued", "running", "executed", "refused"}
    BY DEF ThreadInv, ThreadTypeOK
  <2> QED
    BY <2>1, <2>2 DEF JobOK
<1>5. \A j \in of \ full : task[j] \ {"caller"} = task[j]
  OBVIOUS
<1>6. /\ cpc'[c] = "idle" /\ batch'[c] = {}
      /\ \A d \in All : d # c => cpc'[d] = cpc[d] /\ batch'[d] = batch[d] /\ kind'[d] = kind[d]
      /\ cpc' \in [All -> {"idle", "enqueue", "drop", "clear"}]
      /\ batch' \in [All -> SUBSET Tasks] /\ kind' \in [All -> Kinds]
  BY <1>1 DEF TypeOK, Kinds
<1> HIDE DEF of, full
<1>7. ThreadInv'
  BY <1>1, ThreadsUntouched
<1>8. TypeOK'
  <2>1. consumer' \in [Tasks -> {"none", "call", "holds", "dropped"}]
    BY <1>2 DEF TypeOK
  <2>2. task' \in [Tasks -> SUBSET Places]
    BY <1>2 DEF TypeOK
  <2>3. frame' \in [Tasks -> {"none", "suspended", "running", "completed", "destroyed"}]
    BY <1>2 DEF TypeOK, Published
  <2>4. result' \in [Tasks -> {"none", "outcome", "interrupted"}]
    BY <1>2 DEF TypeOK
  <2> QED
    BY <1>1, <1>6, <1>7, <2>1, <2>2, <2>3, <2>4 DEF TypeOK, ThreadInv
<1>9. BatchesApart'
  BY <1>1, <1>6 DEF BatchesApart
<1>10. \A j \in Tasks : (consumer'[j] \in {"call", "holds"} <=> consumer[j] \in {"call", "holds"})
                        /\ (consumer'[j] = "none" <=> consumer[j] = "none")
  BY <1>2
<1>11. \A j \in Tasks : Published(j)' = Published(j) /\ \A r : ResultOf(j, r)' = ResultOf(j, r)
  BY <1>10 DEF Published, ResultOf
<1>12. JobFollowsFate'
  <2>1. ASSUME NEW j \in full PROVE JobOK(j)'
    <3>1. j \in Tasks /\ j \in of /\ j <= offered
      BY <1>3 DEF BatchesApart, of
    <3>2. ~(j > offered')
      BY <1>1, <3>1, ThreadAssumption DEF TypeOK, Tasks
    <3>3. task'[j] = {} /\ frame'[j] = Published(j)
      BY <1>2, <1>4, <3>1
    <3>4. result'[j] = ResultOf(j, "interrupted")
      BY <1>2, <1>4, <3>1 DEF ResultOf
    <3> QED
      BY <1>3, <1>4, <1>11, <3>1, <3>2, <3>3, <3>4 DEF JobOK
  <2>2. ASSUME NEW j \in of \ full PROVE JobOK(j)'
    <3>1. /\ j \in Tasks /\ task'[j] = task[j] /\ frame'[j] = frame[j] /\ result'[j] = result[j]
          /\ fate[j] # "new" /\ "caller" \notin task[j]
      BY <1>2, <1>3, <1>5 DEF full
    <3>2. JobOK(j)
      BY <3>1 DEF JobFollowsFate
    <3> QED
      BY <1>1, <1>3, <1>11, <3>1, <3>2 DEF JobOK
  <2>3. ASSUME NEW j \in Tasks \ of PROVE JobOK(j)'
    <3>1. ASSUME NEW d \in All, j \in batch[d] PROVE j \in batch'[d] /\ cpc'[d] = cpc[d]
      BY <1>6, <2>3, <3>1 DEF of
    <3>2. /\ InCall(j, {"enqueue"}) => InCall(j, {"enqueue"})'
          /\ InCall(j, {"drop", "clear"}) => InCall(j, {"drop", "clear"})'
      BY <3>1 DEF InCall
    <3>3. /\ consumer'[j] = consumer[j] /\ task'[j] = task[j] /\ frame'[j] = frame[j]
          /\ result'[j] = result[j]
      BY <1>2, <1>3
    <3> QED
      BY <1>1, <1>3, <3>2, <3>3, JobUntouched DEF JobFollowsFate
  <2> QED
    BY <2>1, <2>2, <2>3 DEF JobFollowsFate
<1>13. CallKnowsItsJobs'
  <2>1. ASSUME NEW d \in All, NEW j \in batch'[d]
        PROVE  /\ d # c /\ j \in batch[d] /\ cpc'[d] = cpc[d] /\ kind'[d] = kind[d]
               /\ fate'[j] = fate[j] /\ consumer'[j] = consumer[j] /\ task'[j] = task[j]
    <3>1. d # c /\ j \in batch[d]
      BY <1>6, <2>1
    <3>2. j \in Tasks \ of
      BY <3>1 DEF BatchesApart, TypeOK, of
    <3> QED
      BY <1>2, <1>3, <1>6, <3>1, <3>2
  <2> QED
    BY <2>1 DEF CallKnowsItsJobs
<1> QED
  BY <1>7, <1>8, <1>9, <1>12, <1>13

(* A step on one job, by its thread or by the owner of its result, leaves  *)
(* the calls alone.                                                        *)
LEMMA OneJob ==
  ASSUME IInv, NEW j \in Tasks, UNCHANGED calling, ThreadInv',
         task' \in [Tasks -> SUBSET Places],
         frame' \in [Tasks -> {"none", "suspended", "running", "completed", "destroyed"}],
         result' \in [Tasks -> {"none", "outcome", "interrupted"}],
         consumer' \in [Tasks -> {"none", "call", "holds", "dropped"}],
         JobOK(j)',
         fate[j] = "new" <=> fate'[j] = "new",
         fate[j] = "refused" => fate'[j] = "refused" /\ task'[j] = task[j],
         consumer[j] = "call" => consumer'[j] = "call",
         \A k \in Tasks \ {j} :
           /\ fate'[k] = fate[k] /\ task'[k] = task[k] /\ frame'[k] = frame[k]
           /\ result'[k] = result[k] /\ consumer'[k] = consumer[k]
  PROVE  IInv'
<1> USE DEF IInv
<1>1. UNCHANGED <<offered, cpc, kind, batch>>
  BY DEF calling
<1>2. TypeOK' /\ BatchesApart'
  BY <1>1 DEF TypeOK, BatchesApart, ThreadInv
<1>3. JobFollowsFate'
  <2>1. ASSUME NEW k \in Tasks \ {j} PROVE JobOK(k)'
    <3>1. /\ InCall(k, {"enqueue"}) => InCall(k, {"enqueue"})'
          /\ InCall(k, {"drop", "clear"}) => InCall(k, {"drop", "clear"})'
      BY <1>1 DEF InCall
    <3> QED
      BY <1>1, <3>1, JobUntouched DEF JobFollowsFate
  <2> QED
    BY <2>1 DEF JobFollowsFate
<1>4. CallKnowsItsJobs'
  <2>1. ASSUME NEW c \in Callers \cup Tasks, NEW k \in batch[c]
        PROVE  /\ k \in Tasks /\ (fate[k] = "new" <=> fate'[k] = "new")
               /\ fate[k] = "refused" => fate'[k] = "refused" /\ task'[k] = task[k]
               /\ consumer[k] = "call" => consumer'[k] = "call"
    <3>1. k \in Tasks
      BY <2>1 DEF TypeOK
    <3>2. CASE k = j
      BY <3>1, <3>2
    <3>3. CASE k # j
      BY <3>1, <3>3
    <3> QED
      BY <3>2, <3>3
  <2>2. ASSUME NEW c \in Callers \cup Tasks, NEW k \in batch[c]
        PROVE  /\ cpc[c] = "enqueue" => fate'[k] = "new"
               /\ cpc[c] \in {"drop", "clear"} => fate'[k] # "new"
               /\ cpc[c] = "drop" =>
                    fate'[k] = "refused" /\ consumer'[k] = "call" /\ task'[k] = {"caller"}
               /\ cpc[c] = "enqueue" /\ kind[c] = "BulkSubmit" => consumer'[k] = "call"
    BY <2>1, <2>2 DEF CallKnowsItsJobs
  <2> QED
    BY <1>1, <2>2 DEF CallKnowsItsJobs
<1> QED
  BY <1>2, <1>3, <1>4

(* And a step of the executor that ends no task leaves the jobs alone too. *)
LEMMA NoJob ==
  ASSUME IInv, ThreadInv', UNCHANGED <<fate, jobs, consumer, calling>>
  PROVE  IInv'
<1> USE DEF IInv, jobs, calling
<1>1. TypeOK'
  BY DEF TypeOK, ThreadInv
<1>2. JobFollowsFate'
  BY JobUntouched DEF JobFollowsFate, InCall
<1> QED
  BY <1>1, <1>2 DEF BatchesApart, CallKnowsItsJobs

LEMMA DropResultIInv ==
  ASSUME IInv, NEW j \in Tasks, DropResult(j)
  PROVE  IInv'
<1> USE DEF IInv
<1>1. /\ consumer[j] = "holds" /\ consumer' = [consumer EXCEPT ![j] = "dropped"]
      /\ frame' = [frame EXCEPT ![j] = IF frame[j] = "completed" THEN "destroyed" ELSE frame[j]]
      /\ UNCHANGED <<xvars, task, result, calling>>
  BY DEF DropResult
<1>2. UNCHANGED <<fate, offered, cpc, batch>>
  BY <1>1 DEF xvars, calling
<1>3. /\ consumer'[j] = "dropped"
      /\ frame'[j] = IF frame[j] = "completed" THEN "destroyed" ELSE frame[j]
      /\ \A k \in Tasks \ {j} : frame'[k] = frame[k] /\ consumer'[k] = consumer[k]
      /\ consumer' \in [Tasks -> {"none", "call", "holds", "dropped"}]
      /\ frame' \in [Tasks -> {"none", "suspended", "running", "completed", "destroyed"}]
  BY <1>1 DEF TypeOK
<1>4. ThreadInv'
  BY <1>1, ThreadsUntouched
<1>5. JobOK(j)'
  <2>1. JobOK(j)
    BY DEF JobFollowsFate
  <2>2. /\ InCall(j, {"enqueue"}) => InCall(j, {"enqueue"})'
        /\ InCall(j, {"drop", "clear"}) => InCall(j, {"drop", "clear"})'
    BY <1>2 DEF InCall
  <2>3. frame[j] = Published(j) => frame'[j] = Published(j)'
    BY <1>1, <1>3 DEF Published
  <2>4. \A r : ResultOf(j, r)' = ResultOf(j, r)
    BY <1>1, <1>3 DEF ResultOf
  <2> QED
    BY <1>1, <1>2, <1>3, <2>1, <2>2, <2>3, <2>4 DEF JobOK
<1>6. task' \in [Tasks -> SUBSET Places] /\ result' \in [Tasks -> {"none", "outcome", "interrupted"}]
  BY <1>1 DEF TypeOK
<1> QED
  BY <1>1, <1>2, <1>3, <1>4, <1>5, <1>6, OneJob

LEMMA RunTaskIInv ==
  ASSUME IInv, NEW j \in Tasks, RunTask(j)
  PROVE  IInv'
<1> USE DEF IInv
<1>1. /\ ThreadInv' /\ fate[j] = "queued" /\ fate' = [fate EXCEPT ![j] = "running"]
  BY StartTaskThreadInv DEF RunTask, StartTask, Moves, ThreadInv, ThreadOfTask
<1>2. /\ task[j] = {"thread"} /\ frame[j] = "suspended" /\ result[j] = "none" /\ ~(j > offered)
  BY <1>1 DEF JobFollowsFate, JobOK
<1>3. /\ task' = [task EXCEPT ![j] = {}] /\ frame' = [frame EXCEPT ![j] = "running"]
      /\ UNCHANGED <<result, consumer, calling>>
  BY <1>2 DEF RunTask, ExecuteTask
<1>4. /\ fate'[j] = "running" /\ task'[j] = {} /\ frame'[j] = "running"
      /\ \A k \in Tasks \ {j} : fate'[k] = fate[k] /\ task'[k] = task[k] /\ frame'[k] = frame[k]
      /\ task' \in [Tasks -> SUBSET Places]
      /\ frame' \in [Tasks -> {"none", "suspended", "running", "completed", "destroyed"}]
  BY <1>1, <1>3 DEF TypeOK, ThreadInv, ThreadTypeOK
<1>5. JobOK(j)'
  BY <1>2, <1>3, <1>4 DEF JobOK, calling
<1> QED
  BY <1>1, <1>3, <1>4, <1>5, OneJob DEF TypeOK

LEMMA EndTaskIInv ==
  ASSUME IInv, NEW j \in Tasks, EndTask(j)
  PROVE  IInv'
<1> USE DEF IInv
<1>1. /\ ThreadInv' /\ fate[j] = "running" /\ fate' = [fate EXCEPT ![j] = "executed"]
  BY FinishTaskThreadInv DEF EndTask, FinishTask, Moves, ThreadInv, ThreadOfTask
<1>2. task[j] = {} /\ result[j] = "none" /\ ~(j > offered)
  BY <1>1 DEF JobFollowsFate, JobOK
<1>3. /\ result' = [result EXCEPT ![j] = ResultOf(j, "outcome")]
      /\ frame' = [frame EXCEPT ![j] = Published(j)]
      /\ UNCHANGED <<task, consumer, calling>>
  BY <1>2 DEF EndTask, ResultOf
<1>4. /\ ResultOf(j, "outcome") \in {"none", "outcome"}
      /\ Published(j) \in {"completed", "destroyed"}
  BY DEF ResultOf, Published
<1>5. /\ fate'[j] = "executed" /\ result'[j] = ResultOf(j, "outcome") /\ frame'[j] = Published(j)
      /\ \A k \in Tasks \ {j} : fate'[k] = fate[k] /\ result'[k] = result[k] /\ frame'[k] = frame[k]
      /\ result' \in [Tasks -> {"none", "outcome", "interrupted"}]
      /\ frame' \in [Tasks -> {"none", "suspended", "running", "completed", "destroyed"}]
  BY <1>1, <1>3, <1>4 DEF TypeOK, ThreadInv, ThreadTypeOK
<1>6. JobOK(j)'
  BY <1>2, <1>3, <1>5 DEF JobOK, ResultOf, Published, calling
<1> QED
  BY <1>1, <1>3, <1>5, <1>6, OneJob DEF TypeOK

(* The CYTask in the lambda of a thread that ends is empty.                *)
LEMMA EndThreadIInv ==
  ASSUME IInv, NEW j \in Tasks, EndThread(j)
  PROVE  IInv'
<1> USE DEF IInv
<1>1. /\ ThreadInv' /\ UNCHANGED fate /\ fate[j] = "executed"
  <2>1. tpc[j] = "join"
    BY DEF EndThread, JoinPrevious, Moves
  <2>2. fate[j] \in {"new", "queued", "running", "executed", "refused"}
    BY DEF ThreadInv, ThreadTypeOK
  <2> QED
    BY <2>1, <2>2, JoinPreviousThreadInv DEF EndThread, JoinPrevious, ThreadInv, ThreadOfTask
<1>2. task[j] = {}
  BY <1>1 DEF JobFollowsFate, JobOK
<1>3. /\ task' = [k \in Tasks |-> IF k \in {j} THEN task[k] \ {"thread"} ELSE task[k]]
      /\ frame' = [k \in Tasks |-> IF k \in {i \in {j} : "thread" \in task[i]}
                                   THEN Published(k) ELSE frame[k]]
      /\ result' = [k \in Tasks |-> IF k \in {i \in {j} : "thread" \in task[i]} /\ consumer[k] # "none"
                                    THEN "interrupted" ELSE result[k]]
      /\ UNCHANGED <<consumer, calling>>
  BY DEF EndThread, ClearTasks
<1>4. {i \in {j} : "thread" \in task[i]} = {}
  BY <1>2
<1>5. frame' = frame /\ result' = result
  BY <1>3, <1>4 DEF TypeOK
<1>6. task' = task
  BY <1>2, <1>3 DEF TypeOK
<1> QED
  BY <1>1, <1>3, <1>5, <1>6, NoJob DEF jobs

LEMMA RetireIInv ==
  ASSUME IInv, NEW j \in Tasks, Retire(j)
  PROVE  IInv'
<1>1. ThreadInv' /\ UNCHANGED fate
  BY RetireWorkerThreadInv, NotifyOneThreadInv DEF Retire, RetireWorker, NotifyOne, IInv
<1> QED
  BY <1>1, NoJob DEF Retire

LEMMA ShutDownStepIInv ==
  ASSUME IInv, NEW s \in Closers, ShutDownStep(s)
  PROVE  IInv'
<1>1. ThreadInv' /\ UNCHANGED fate
  BY ShutDownThreadInv DEF ShutDownStep, ShutDown, CloserStep, AwaitWorkers, JoinLast, IInv
<1> QED
  BY <1>1, NoJob DEF ShutDownStep

LEMMA NextIInv == IInv /\ [Next]_vars => IInv'
<1> SUFFICES ASSUME IInv, [Next]_vars PROVE IInv'
  OBVIOUS
<1>1. ASSUME NEW c \in Callers \cup Tasks, Prepare(c) \/ CallStep(c) PROVE IInv'
  BY <1>1, PrepareIInv, EnqueueIInv, DropResultsIInv, EndCallIInv DEF CallStep
<1>2. ASSUME NEW j \in Tasks, JobStep(j) \/ DropResult(j) PROVE IInv'
  BY <1>2, RunTaskIInv, EndTaskIInv, RetireIInv, EndThreadIInv, DropResultIInv DEF JobStep
<1>3. ASSUME NEW s \in Closers, ShutDownStep(s) PROVE IInv'
  BY <1>3, ShutDownStepIInv
<1>4. CASE UNCHANGED vars
  <2>1. ThreadInv' /\ UNCHANGED fate
    BY <1>4, ThreadsUntouched DEF IInv, vars, xvars
  <2> QED
    BY <1>4, <2>1, NoJob DEF vars
<1> QED
  BY <1>1, <1>2, <1>3, <1>4 DEF Next

(* The inductive invariant: what the fate of a job says of its CYTasks,    *)
(* its frame and its result, which call still has it, and in which order   *)
(* the threads retired.                                                    *)
THEOREM Invariance == Spec => []IInv
BY InitIInv, NextIInv, PTL DEF Spec

-----------------------------------------------------------------------------
(* A coroutine that is suspended is in exactly one CYTask that is not      *)
(* empty, and such a CYTask holds a suspended one: whatever is moved, run, *)
(* refused or destroyed, it is resumed once.                               *)
THEOREM OneTaskPerCoroutine == Spec => []SuspendedIsInOneTask
<1>1. ASSUME IInv PROVE SuspendedIsInOneTask
  <2>1. ASSUME NEW j \in Tasks
        PROVE  Cardinality(task[j]) = (IF frame[j] = "suspended" THEN 1 ELSE 0)
    <3>1. /\ JobOK(j) /\ fate[j] \in {"new", "queued", "running", "executed", "refused"}
          /\ j > offered \/ j <= offered
      BY <1>1, ThreadAssumption
         DEF IInv, JobFollowsFate, TypeOK, ThreadTypeOK, Tasks
    <3>2. \/ task[j] \in {{"caller"}, {"thread"}} /\ frame[j] = "suspended"
          \/ task[j] = {} /\ frame[j] # "suspended"
      BY <3>1 DEF JobOK, Published
    <3> QED
      BY <3>2, FS_EmptySet, FS_Singleton
  <2> QED
    BY <1>1, <2>1 DEF IInv, SuspendedIsInOneTask
<1> QED
  BY <1>1, Invariance, PTL

(* A result has a value or the callable's exception exactly if the         *)
(* executor ran the job, and an interruption only if it refused it; a      *)
(* frame is freed only when the job has ended and its result is gone.      *)
THEOREM TruthOfResults == Spec => []ResultsTellTheTruth
<1>1. ASSUME IInv PROVE ResultsTellTheTruth
  <2>1. ASSUME NEW j \in Tasks
        PROVE  /\ result[j] = "outcome" <=> fate[j] = "executed" /\ consumer[j] # "none"
               /\ result[j] = "interrupted" => fate[j] = "refused"
               /\ frame[j] = "destroyed" => /\ fate[j] \in {"executed", "refused"}
                                            /\ consumer[j] \in {"none", "dropped"}
               /\ frame[j] = "completed" => result[j] # "none" /\ consumer[j] \in {"call", "holds"}
    <3>1. /\ JobOK(j) /\ fate[j] \in {"new", "queued", "running", "executed", "refused"}
          /\ j > offered \/ j <= offered
          /\ consumer[j] \in {"none", "call", "holds", "dropped"}
      BY <1>1, ThreadAssumption
         DEF IInv, JobFollowsFate, TypeOK, ThreadTypeOK, Tasks
    <3>2. CASE fate[j] = "new"
      BY <3>1, <3>2 DEF JobOK
    <3>3. CASE fate[j] \in {"queued", "running"}
      BY <3>1, <3>3 DEF JobOK
    <3>4. CASE fate[j] = "executed"
      BY <3>1, <3>4 DEF JobOK, Published, ResultOf
    <3>5. CASE fate[j] = "refused"
      BY <3>1, <3>5 DEF JobOK, Published, ResultOf
    <3> QED
      BY <3>1, <3>2, <3>3, <3>4, <3>5
  <2> QED
    BY <2>1 DEF ResultsTellTheTruth
<1> QED
  BY <1>1, Invariance, PTL

(* ShutDown joins only the thread that retired last; when it has returned  *)
(* nevertheless every thread has ended, and the lists are empty.           *)
LEMMA ClosedIsQuiet ==
  ASSUME ThreadInv
  PROVE  QuietAfterShutDown
<1> SUFFICES ASSUME Closed
             PROVE  /\ workers = {} /\ lastRetired = {}
                    /\ \A t \in Tasks : tpc[t] \in {"none", "ended"}
  BY DEF QuietAfterShutDown
<1> USE DEF ThreadInv
<1>1. workers = {} /\ lastRetired = {}
  BY DEF Closed, ShutDownGoesOn
<1>2. \A t \in Tasks : tpc[t] \in {"none", "start", "run", "retire", "notify", "join", "ended"}
  BY DEF ThreadTypeOK
<1>3. \A t \in Tasks : tpc[t] \notin {"start", "run", "retire"}
  BY <1>1 DEF ThreadOfTask
<1>4. \A t \in Retired : tpc[t] = "ended"
  BY <1>1 DEF RetiredInOrder
<1> QED
  BY <1>1, <1>2, <1>3, <1>4 DEF Retired

(* When ShutDown has returned, no thread of the executor runs and none is  *)
(* left unjoined, however many retired while it ran                        *)
(* (CYThreadExecutor::ShutDown and RetireWorker).                          *)
THEOREM QuietWhenClosed == Spec => []QuietAfterShutDown
BY Invariance, ClosedIsQuiet, PTL DEF IInv

-----------------------------------------------------------------------------
(* The contract of the executors.                                          *)

(* A step of the executor that is not one of ShutDown leaves what the      *)
(* contract knows of the shutdown.                                         *)
LEMMA SameShutDown ==
  ASSUME ThreadTypeOK, UNCHANGED <<abort, atomicAbort>>,
         \/ UNCHANGED spc
         \/ spc' = [s \in Closers |-> IF spc[s] = "sleep" THEN "woken" ELSE spc[s]]
  PROVE  Closed' = Closed /\ UNCHANGED atomicAbort
BY DEF Closed, ThreadTypeOK

LEMMA EnqueueSimulates ==
  ASSUME IInv, NEW c \in Callers \cup Tasks, Enqueue(c)
  PROVE  Contract!ENext
<1>1. batch[c] \in SUBSET {t \in Tasks : fate[t] = "new"} /\ ThreadInv
  BY DEF Enqueue, IInv, TypeOK, CallKnowsItsJobs
<1>2. Closed' = Closed /\ UNCHANGED atomicAbort
  BY <1>1, SameShutDown DEF Enqueue, Accept, Refuse, aborts, ThreadInv
<1>3. CASE Accept(batch[c])
  <2>1. ~Closed
    BY <1>3 DEF Accept, Closed
  <2>2. Contract!Accept
    BY <1>1, <1>2, <1>3, <2>1 DEF Accept, Contract!Accept
  <2> QED
    BY <2>2 DEF Contract!ENext
<1>4. CASE Refuse(batch[c])
  <2>1. atomicAbort
    BY <1>1, <1>4 DEF Refuse, ThreadInv, ShutDownGoesOn
  <2>2. Contract!Refuse
    BY <1>1, <1>2, <1>4, <2>1 DEF Refuse, Contract!Refuse
  <2> QED
    BY <2>2 DEF Contract!ENext
<1> QED
  BY <1>3, <1>4 DEF Enqueue

LEMMA JobSimulates ==
  ASSUME IInv, NEW j \in Tasks, JobStep(j)
  PROVE  Contract!ENext \/ UNCHANGED Contract!evars
<1>1. ThreadInv /\ ThreadTypeOK
  BY DEF IInv, ThreadInv
<1>2. CASE RunTask(j)
  <2>1. Closed' = Closed /\ UNCHANGED atomicAbort
    BY <1>1, <1>2, SameShutDown DEF RunTask, StartTask, aborts
  <2>2. fate[j] = "queued" /\ fate' = [fate EXCEPT ![j] = "running"]
    BY <1>1, <1>2 DEF RunTask, StartTask, Moves, ThreadInv, ThreadOfTask
  <2>3. Contract!Start(j)
    BY <2>1, <2>2 DEF Contract!Start
  <2> QED
    BY <2>3 DEF Contract!ENext
<1>3. CASE EndTask(j)
  <2>1. Closed' = Closed /\ UNCHANGED atomicAbort
    BY <1>1, <1>3, SameShutDown DEF EndTask, FinishTask, aborts
  <2>2. fate[j] = "running" /\ fate' = [fate EXCEPT ![j] = "executed"]
    BY <1>1, <1>3 DEF EndTask, FinishTask, Moves, ThreadInv, ThreadOfTask
  <2>3. Contract!Finish(j)
    BY <2>1, <2>2 DEF Contract!Finish
  <2> QED
    BY <2>3 DEF Contract!ENext
<1>4. CASE Retire(j) \/ EndThread(j)
  <2>1. /\ UNCHANGED <<fate, abort, atomicAbort>>
        /\ \/ UNCHANGED spc
           \/ spc' = [s \in Closers |-> IF spc[s] = "sleep" THEN "woken" ELSE spc[s]]
    BY <1>4 DEF Retire, RetireWorker, NotifyOne, EndThread, JoinPrevious, aborts
  <2>2. Closed' = Closed /\ UNCHANGED atomicAbort
    BY <1>1, <2>1, SameShutDown
  <2> QED
    BY <2>1, <2>2 DEF Contract!evars
<1> QED
  BY <1>2, <1>3, <1>4 DEF JobStep

(* The step of ShutDown that returns closes the executor, which has        *)
(* nothing left that is queued or running.                                 *)
LEMMA ShutDownSimulates ==
  ASSUME IInv, NEW s \in Closers, ShutDownStep(s)
  PROVE  Contract!ENext \/ UNCHANGED Contract!evars
<1>1. ThreadInv /\ ThreadTypeOK /\ ThreadInv'
  BY ShutDownThreadInv DEF IInv, ThreadInv, ShutDownStep
<1>2. CASE ShutDown(s)
  <2>1. /\ atomicAbort' = TRUE /\ UNCHANGED <<fate, abort>>
        /\ spc[s] = "idle"
        /\ spc' = [spc EXCEPT ![s] = IF atomicAbort THEN "returned" ELSE "abort"]
    BY <1>2 DEF ShutDown
  <2>2. Closed' = Closed
    <3>1. CASE atomicAbort
      BY <1>1, <2>1, <3>1 DEF Closed, ThreadTypeOK
    <3>2. CASE ~atomicAbort
      BY <1>1, <2>1, <3>2 DEF Closed, ThreadInv, ShutDownGoesOn
    <3> QED
      BY <3>1, <3>2
  <2>3. Contract!Request
    BY <2>1, <2>2 DEF Contract!Request
  <2> QED
    BY <2>3 DEF Contract!ENext
<1>3. CASE CloserStep(s)
  <2>1. /\ UNCHANGED <<fate, atomicAbort>> /\ spc[s] \in {"abort", "woken", "join"}
        /\ atomicAbort
    BY <1>1, <1>3 DEF CloserStep, AwaitWorkers, JoinLast, aborts, ThreadInv, ShutDownGoesOn
  <2>2. ~Closed
    BY <2>1 DEF Closed
  <2>3. CASE Closed'
    <3>1. workers' = {}
      BY <1>1, <2>3, ClosedIsQuiet DEF Closed, ThreadInv, ShutDownGoesOn
    <3>2. \A t \in Tasks : fate[t] \notin {"queued", "running"}
      BY <1>1, <2>1, <3>1 DEF ThreadInv, ThreadOfTask
    <3>3. fate' = [t \in Tasks |-> CASE fate[t] = "queued" -> "destroyed"
                                     [] fate[t] = "running" -> "executed"
                                     [] OTHER -> fate[t]]
      BY <1>1, <2>1, <3>2 DEF ThreadTypeOK
    <3>4. Contract!Close
      BY <2>1, <2>3, <3>3, Closed' = TRUE DEF Contract!Close
    <3> QED
      BY <3>4 DEF Contract!ENext
  <2>4. CASE ~Closed'
    BY <2>1, <2>2, <2>4 DEF Contract!evars, Closed
  <2> QED
    BY <2>3, <2>4
<1> QED
  BY <1>2, <1>3 DEF ShutDownStep

(* The safety part of ImplementsContract: each job is run once or, after a *)
(* shutdown was requested, refused; and when ShutDown has returned nothing *)
(* is left and nothing comes any more.                                     *)
THEOREM KeepsContract ==
  Spec => Contract!EInit /\ [][Contract!ENext]_(Contract!evars)
<1>1. Init => Contract!EInit
  BY DEF Init, ThreadInit, Contract!EInit, Closed
<1>2. IInv /\ [Next]_vars => [Contract!ENext]_(Contract!evars)
  <2> SUFFICES ASSUME IInv, [Next]_vars
               PROVE  Contract!ENext \/ UNCHANGED Contract!evars
    OBVIOUS
  <2>1. CASE UNCHANGED xvars
    BY <2>1 DEF xvars, aborts, Contract!evars, Closed
  <2>2. ASSUME NEW c \in Callers \cup Tasks, Prepare(c) \/ CallStep(c)
        PROVE  UNCHANGED xvars \/ Contract!ENext
    BY <2>2, EnqueueSimulates DEF Prepare, CallStep, DropResults, EndCall
  <2>3. ASSUME NEW j \in Tasks, JobStep(j) \/ DropResult(j)
        PROVE  UNCHANGED xvars \/ Contract!ENext \/ UNCHANGED Contract!evars
    BY <2>3, JobSimulates DEF DropResult
  <2> QED
    BY <2>1, <2>2, <2>3, ShutDownSimulates DEF Next, vars
<1> QED
  BY <1>1, <1>2, Invariance, PTL DEF Spec
=============================================================================
