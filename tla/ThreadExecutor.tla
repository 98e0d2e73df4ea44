---------------------------- MODULE ThreadExecutor ----------------------------
(***************************************************************************)
(* CYThreadExecutor runs every task on a thread of its own.  Threads that  *)
(* are done retire: each waits for the one that retired before it, and     *)
(* ShutDown waits until all have retired, and then for the last of them.   *)
(* A thread is named after its task.                                       *)
(*                                                                         *)
(* A step is one critical section of m_lock, one notification, or a step   *)
(* of a thread outside it.  The module has no specification of its own:    *)
(* Submit says who calls Enqueue and with what.                            *)
(***************************************************************************)
EXTENDS Integers, FiniteSets

CONSTANTS
  N,        \* the tasks are 1 .. N
  Closers   \* the threads that call ShutDown; they are no tasks

Tasks == 1 .. N

ASSUME ThreadAssumption == N \in Nat \ {0}

VARIABLES
  workers,      \* m_lstWorkers
  lastRetired,  \* m_lstLastRetired
  abort,        \* m_bAbort
  atomicAbort,  \* m_bAtomicAbort
  tpc,          \* where the thread of each task is
  previous,     \* lstLastRetired of each thread that retires
  spc,          \* where each caller of ShutDown is
  fate          \* what has become of each task

lists == <<workers, lastRetired>>
aborts == <<abort, atomicAbort>>
threads == <<tpc, previous>>
xvars == <<lists, aborts, threads, spc, fate>>

ThreadTypeOK ==
  /\ workers \in SUBSET Tasks /\ lastRetired \in SUBSET Tasks
  /\ abort \in BOOLEAN /\ atomicAbort \in BOOLEAN
  /\ tpc \in [Tasks -> {"none", "start", "run", "retire", "notify", "join", "ended"}]
  /\ previous \in [Tasks -> SUBSET Tasks]
  /\ spc \in [Closers -> {"idle", "abort", "sleep", "woken", "join", "returned"}]
  /\ fate \in [Tasks -> {"new", "queued", "running", "executed", "refused"}]

ThreadInit ==
  /\ workers = {}
  /\ lastRetired = {}
  /\ abort = FALSE
  /\ atomicAbort = FALSE
  /\ tpc = [t \in Tasks |-> "none"]
  /\ previous = [t \in Tasks |-> {}]
  /\ spc = [s \in Closers |-> "idle"]
  /\ fate = [t \in Tasks |-> "new"]

(* ShutDown joins the last thread without giving m_lock up.                *)
Locked == \E s \in Closers : spc[s] = "join"

(* Enqueue of a task, or of a span of tasks under one lock: each gets a    *)
(* thread, or all are refused.                                             *)
Accept(batch) ==
  /\ ~Locked /\ ~abort
  /\ workers' = workers \cup batch
  /\ tpc' = [t \in Tasks |-> IF t \in batch THEN "start" ELSE tpc[t]]
  /\ fate' = [t \in Tasks |-> IF t \in batch THEN "queued" ELSE fate[t]]
  /\ UNCHANGED <<lastRetired, aborts, previous, spc>>

(* A faulty variant: Enqueue does not look at m_bAbort.                    *)
Refuse_Accepts(batch) ==
  /\ ~Locked /\ abort
  /\ workers' = workers \cup batch
  /\ tpc' = [t \in Tasks |-> IF t \in batch THEN "start" ELSE tpc[t]]
  /\ fate' = [t \in Tasks |-> IF t \in batch THEN "queued" ELSE fate[t]]
  /\ UNCHANGED <<lastRetired, aborts, previous, spc>>

Refuse(batch) ==
  /\ ~Locked /\ abort
  /\ fate' = [t \in Tasks |-> IF t \in batch THEN "refused" ELSE fate[t]]
  /\ UNCHANGED <<lists, aborts, threads, spc>>

-----------------------------------------------------------------------------
(* The thread of task t.                                                   *)

Moves(t, from, to) ==
  /\ tpc[t] = from
  /\ tpc' = [tpc EXCEPT ![t] = to]

StartTask(t) ==
  /\ Moves(t, "start", "run")
  /\ fate' = [fate EXCEPT ![t] = "running"]
  /\ UNCHANGED <<lists, aborts, previous, spc>>

FinishTask(t) ==
  /\ Moves(t, "run", "retire")
  /\ fate' = [fate EXCEPT ![t] = "executed"]
  /\ UNCHANGED <<lists, aborts, previous, spc>>

(* A faulty variant: the thread is retired beside the one before it, for   *)
(* which nobody waits.                                                     *)
RetireWorker_Replaces(t) ==
  /\ Moves(t, "retire", "notify")
  /\ ~Locked
  /\ lastRetired' = {t}
  /\ workers' = workers \ {t}
  /\ UNCHANGED <<aborts, previous, spc, fate>>

(* RetireWorker, under m_lock: it takes the thread that retired last with  *)
(* it, and leaves itself in its place.                                     *)
RetireWorker(t) ==
  /\ Moves(t, "retire", "notify")
  /\ ~Locked
  /\ previous' = [previous EXCEPT ![t] = lastRetired]
  /\ lastRetired' = {t}
  /\ workers' = workers \ {t}
  /\ UNCHANGED <<aborts, spc, fate>>

(* notify_one: only the first caller of ShutDown can be waiting.           *)
NotifyOne(t) ==
  /\ Moves(t, "notify", "join")
  /\ spc' = [s \in Closers |-> IF spc[s] = "sleep" THEN "woken" ELSE spc[s]]
  /\ UNCHANGED <<lists, aborts, previous, fate>>

(* It joins the thread that it has taken, and ends.                        *)
JoinPrevious(t) ==
  /\ Moves(t, "join", "ended")
  /\ \A p \in previous[t] : tpc[p] = "ended"
  /\ previous' = [previous EXCEPT ![t] = {}]
  /\ UNCHANGED <<lists, aborts, spc, fate>>

-----------------------------------------------------------------------------
(* ShutDown.                                                               *)

(* Only the first call goes on.                                            *)
ShutDown(s) ==
  /\ spc[s] = "idle"
  /\ atomicAbort' = TRUE
  /\ spc' = [spc EXCEPT ![s] = IF atomicAbort THEN "returned" ELSE "abort"]
  /\ UNCHANGED <<lists, abort, threads, fate>>

(* Under m_lock: it waits until there is no worker, and has then nothing   *)
(* to join or joins the last that retired.                                 *)
AwaitWorkers(s) ==
  /\ spc[s] \in {"abort", "woken"}
  /\ abort' = TRUE
  /\ spc' = [spc EXCEPT ![s] = IF workers # {} THEN "sleep"
                               ELSE IF lastRetired = {} THEN "returned" ELSE "join"]
  /\ UNCHANGED <<lists, atomicAbort, threads, fate>>

JoinLast(s) ==
  /\ spc[s] = "join"
  /\ \A t \in lastRetired : tpc[t] = "ended"
  /\ lastRetired' = {}
  /\ spc' = [spc EXCEPT ![s] = "returned"]
  /\ UNCHANGED <<workers, aborts, threads, fate>>

(* What the thread of a task, and a caller of ShutDown, do by themselves.  *)
ThreadStep(t) == RetireWorker(t) \/ NotifyOne(t) \/ JoinPrevious(t)
CloserStep(s) == AwaitWorkers(s) \/ JoinLast(s)

-----------------------------------------------------------------------------
(* The caller of ShutDown that did the work has returned.                  *)
Closed == abort /\ \A s \in Closers : spc[s] \in {"idle", "returned"}

(* Once ShutDown has returned no thread is left that could touch the       *)
(* executor, and the assertions of its destructor hold.  It joins only the *)
(* thread that retired last; that one has joined the one before it, and so *)
(* on.                                                                     *)
QuietAfterShutDown ==
  Closed => /\ workers = {} /\ lastRetired = {}
            /\ \A t \in Tasks : tpc[t] \in {"none", "ended"}

Contract == INSTANCE ExecutorContract WITH
  requested <- atomicAbort, closed <- Closed

(* The executor implements the contract of all executors: an accepted task *)
(* is executed, and a shutdown that was requested completes.               *)
ImplementsContract == Contract!ESpec
=============================================================================
