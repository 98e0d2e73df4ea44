------------------------- MODULE ThreadPoolExecutor -------------------------
(***************************************************************************)
(* CYThreadPoolExecutor and its CYThreadPoolWorkers: every worker has a    *)
(* private queue for its own thread, a public queue behind m_lock, and a   *)
(* semaphore on which it sleeps until a deadline, after which its thread   *)
(* ends; the next task that is enqueued to it starts another thread.  A    *)
(* worker with several tasks gives some of them to workers that are marked *)
(* in the set of idle workers.                                             *)
(*                                                                         *)
(* A step is one critical section of a worker's m_lock, one operation on   *)
(* its semaphore or its flags, or a step of a thread on its own queue.     *)
(* A search of the idle set takes any of the workers that are marked, or   *)
(* misses them: it reads a size that may be out of date and the flags one  *)
(* after the other.  Tasks are numbered in the order of the calls of       *)
(* Enqueue.                                                                *)
(***************************************************************************)
EXTENDS Integers, Sequences, FiniteSets

CONSTANTS
  N,          \* the tasks are 1 .. N
  W,          \* the workers are 1 .. W
  Producers,  \* threads outside the pool that enqueue
  MayTimeOut  \* whether m_maxIdleTime can pass

Tasks == 1 .. N
Workers == 1 .. W
Moved == 0      \* a task that was moved out of its place in a queue
Nobody == 0

ASSUME PoolAssumption ==
  /\ N \in Nat \ {0} /\ W \in Nat \ {0} /\ MayTimeOut \in BOOLEAN
  /\ Producers \cap Workers = {}

VARIABLES
  publicQueue,   \* m_lstPublicTaskQueue of each worker
  privateQueue,  \* m_lstPrivTaskQueue of each worker
  idleSet,       \* the workers whose flag in m_objIdleWorkers is idle
  idle,          \* m_bIdle: the worker has no thread, or one that is ending
  found,         \* m_bTaskFoundOrAbort
  signalled,     \* the flag of m_semaphore
  abort,         \* m_bAbort
  atomicAbort,   \* m_bAtomicAbort
  idleBuffer,    \* m_lstIdleWorker: the workers to which it donates
  donated,       \* how many of them have got their share
  wpc,           \* where the thread of each worker is
  current,       \* the task that it runs
  target,        \* the worker to which a thread, of a worker or a producer,
                 \* is enqueueing
  carried,       \* and the shares of the tasks that it has still to enqueue
  ppc,           \* where each producer is
  cursor,        \* m_nRoundRobinCursor, modulo the number of workers
  poolAbort,     \* CYThreadPoolExecutor::m_bAbort
  spc,           \* where the caller of ShutDown is, and
  closing,       \* the worker that it shuts down
  offered,       \* how many tasks have been offered
  fate           \* what has become of each task

queues  == <<publicQueue, privateQueue>>
flags   == <<found, signalled>>
aborts  == <<abort, atomicAbort, poolAbort>>
balance == <<idleBuffer, donated>>
closer  == <<spc, closing>>
tasks   == <<offered, fate>>
sending == <<target, carried>>
vars == <<queues, idleSet, idle, flags, aborts, balance, wpc, current, sending, ppc,
          cursor, closer, tasks>>

WorkerPCs == {"off", "drain", "markIdle", "wait", "recheck", "ending", "balance",
              "donate", "releaseDonation", "pop", "run", "enqueue", "release"}
ProducerPCs == {"idle", "enqueue", "release", "next"}
CloserPCs == {"idle", "atomic", "abort", "found", "release", "join", "clear", "closed"}

(* Some of the tasks of a call of Enqueue, and the worker to which they    *)
(* go, or Nobody if that is still to be found.                             *)
Share == [tasks : Seq(Tasks), to : Workers \cup {Nobody}]

(* The tasks of a queue.                                                   *)
In(queue) == {queue[k] : k \in DOMAIN queue} \ {Moved}

TypeOK ==
  /\ publicQueue \in [Workers -> Seq(Tasks \cup {Moved})]
  /\ privateQueue \in [Workers -> Seq(Tasks \cup {Moved})]
  /\ idleSet \in SUBSET Workers
  /\ \A f \in {idle, found, signalled, abort, atomicAbort} : f \in [Workers -> BOOLEAN]
  /\ idleBuffer \in [Workers -> Seq(Workers)]
  /\ donated \in [Workers -> Nat]
  /\ wpc \in [Workers -> WorkerPCs]
  /\ current \in [Workers -> Tasks \cup {Nobody}]
  /\ target \in [Workers \cup Producers -> Workers \cup {Nobody}]
  /\ carried \in [Workers \cup Producers -> Seq(Share)]
  /\ ppc \in [Producers -> ProducerPCs]
  /\ cursor \in 0 .. W - 1
  /\ poolAbort \in BOOLEAN
  /\ spc \in CloserPCs
  /\ closing \in 1 .. W + 1
  /\ offered \in 0 .. N
  /\ fate \in [Tasks -> {"new", "queued", "running", "executed", "destroyed", "refused"}]

Init ==
  /\ publicQueue = [w \in Workers |-> <<>>]
  /\ privateQueue = [w \in Workers |-> <<>>]
  /\ idleSet = Workers
  /\ idle = [w \in Workers |-> TRUE]
  /\ found = [w \in Workers |-> FALSE]
  /\ signalled = [w \in Workers |-> FALSE]
  /\ abort = [w \in Workers |-> FALSE]
  /\ atomicAbort = [w \in Workers |-> FALSE]
  /\ idleBuffer = [w \in Workers |-> <<>>]
  /\ donated = [w \in Workers |-> 0]
  /\ wpc = [w \in Workers |-> "off"]
  /\ current = [w \in Workers |-> Nobody]
  /\ target = [s \in Workers \cup Producers |-> Nobody]
  /\ carried = [s \in Workers \cup Producers |-> <<>>]
  /\ ppc = [p \in Producers |-> "idle"]
  /\ cursor = 0
  /\ poolAbort = FALSE
  /\ spc = "idle"
  /\ closing = 1
  /\ offered = 0
  /\ fate = [t \in Tasks |-> "new"]

(* The next n tasks are offered; those of the batch become the worker's,   *)
(* or are refused.                                                         *)
Span(n) == [k \in 1 .. n |-> offered + k]
Offer(n) == offered' = offered + n
Offered(batch, result) ==
  fate' = [t \in Tasks |-> IF t \in batch THEN result ELSE fate[t]]

(* The flags of CYIdleWorkerSet.  A search may miss a marked worker, which *)
(* stands for the approximate size that is kept beside the flags.          *)
SetIdle(w) == idleSet' = idleSet \cup {w}
SetActive(w) == idleSet' = idleSet \ {w}
TryAcquireFlag(w) == w \in idleSet /\ SetActive(w)

(* n tasks are divided evenly into k + 1 shares, and the first ones get    *)
(* one more until the remainder is used up: the end of the share j.        *)
DonationEnd(n, k, j) ==
  j * (n \div (k + 1)) + IF j < n % (k + 1) THEN j ELSE n % (k + 1)

-----------------------------------------------------------------------------
(* CYThreadPoolWorker::EnqueueForeign on worker v, by any thread.          *)

(* The critical section: the tasks are stored, and a worker without a      *)
(* thread gets one.  pcs is where the other threads are afterwards.        *)
Push(v, batch, pcs) ==
  /\ found' = [found EXCEPT ![v] = TRUE]
  /\ publicQueue' = [publicQueue EXCEPT ![v] = @ \o batch]
  /\ idle' = [idle EXCEPT ![v] = FALSE]
  /\ wpc' = [pcs EXCEPT ![v] = IF idle[v] THEN "drain" ELSE @]

(* EnsureWorkerActive releases the semaphore if the worker has a thread    *)
(* and its queue was empty.                                                *)
MustRelease(v) == ~idle[v] /\ publicQueue[v] = <<>>

-----------------------------------------------------------------------------
(* A thread outside the pool.                                              *)

(* The shares of a call with n tasks: one task by one, or one for each     *)
(* worker if there are enough.                                             *)
OneByOne(n) == [k \in 1 .. n |-> [tasks |-> <<offered + k>>, to |-> Nobody]]
Spread(n) ==
  [j \in Workers |->
     [tasks |-> SubSeq(Span(n), DonationEnd(n, W - 1, j - 1) + 1, DonationEnd(n, W - 1, j)),
      to |-> j]]
Shares(n) == (IF n = 1 \/ n < W THEN {OneByOne(n)} ELSE {})
             \cup (IF n >= W THEN {Spread(n)} ELSE {})

(* The worker for a share of p: the one that it is for, or one that is     *)
(* marked idle, or the next one in turn.                                   *)
FindWorker(p, share) ==
  /\ \/ /\ share.to # Nobody
        /\ target' = [target EXCEPT ![p] = share.to]
        /\ UNCHANGED <<idleSet, cursor>>
     \/ /\ share.to = Nobody
        /\ \E v \in Workers : TryAcquireFlag(v) /\ target' = [target EXCEPT ![p] = v]
        /\ UNCHANGED cursor
     \/ /\ share.to = Nobody
        /\ target' = [target EXCEPT ![p] = cursor + 1]
        /\ cursor' = (cursor + 1) % W
        /\ UNCHANGED idleSet
  /\ ppc' = [ppc EXCEPT ![p] = "enqueue"]
  /\ UNCHANGED <<queues, idle, flags, aborts, balance, wpc, current, closer, fate>>

(* CYThreadPoolExecutor::Enqueue of a task or of a span.                   *)
Enqueue(p) ==
  /\ ppc[p] = "idle"
  /\ \E n \in 1 .. N - offered : \E shares \in Shares(n) :
       /\ Offer(n)
       /\ carried' = [carried EXCEPT ![p] = shares]
       /\ FindWorker(p, Head(shares))

(* The next share of the span.                                             *)
EnqueueNext(p) ==
  /\ ppc[p] = "next"
  /\ FindWorker(p, Head(carried[p]))
  /\ UNCHANGED <<carried, offered>>

(* Where p is after a share, if those that are left follow, and if it has  *)
(* yet to release the semaphore of the worker.                             *)
Returns(p, left, releases) ==
  /\ carried' = [carried EXCEPT ![p] = left]
  /\ target' = [target EXCEPT ![p] = IF releases THEN @ ELSE Nobody]
  /\ ppc' = [ppc EXCEPT ![p] = IF releases THEN "release"
                               ELSE IF left = <<>> THEN "idle" ELSE "next"]

(* A faulty variant: the abort flag of the worker is not looked at.        *)
EnqueueForeign_IgnoresAbort(p) ==
  /\ ppc[p] = "enqueue"
  /\ LET v == target[p] IN
       /\ Push(v, Head(carried[p]).tasks, wpc)
       /\ Offered(In(Head(carried[p]).tasks), "queued")
       /\ Returns(p, Tail(carried[p]), MustRelease(v))
  /\ UNCHANGED <<privateQueue, idleSet, signalled, aborts, balance, current, cursor, closer,
                 offered>>

(* A faulty variant: a full queue instead of an empty one is signalled.    *)
EnqueueForeign_InvertsTest(p) ==
  /\ ppc[p] = "enqueue" /\ ~abort[target[p]]
  /\ LET v == target[p] IN
       /\ Push(v, Head(carried[p]).tasks, wpc)
       /\ Offered(In(Head(carried[p]).tasks), "queued")
       /\ Returns(p, Tail(carried[p]), ~idle[v] /\ publicQueue[v] # <<>>)
  /\ UNCHANGED <<privateQueue, idleSet, signalled, aborts, balance, current, cursor, closer,
                 offered>>

(* The worker takes the share, or its refusal ends the call, with all the  *)
(* tasks that are left of it.                                              *)
EnqueueForeign(p) ==
  /\ ppc[p] = "enqueue"
  /\ LET v == target[p]
         batch == Head(carried[p]).tasks
         left == UNION {In(carried[p][k].tasks) : k \in DOMAIN carried[p]}
     IN \/ /\ ~abort[v]
           /\ Push(v, batch, wpc)
           /\ Offered(In(batch), "queued")
           /\ Returns(p, Tail(carried[p]), MustRelease(v))
        \/ /\ abort[v]
           /\ Offered(left, "refused")
           /\ Returns(p, <<>>, FALSE)
           /\ UNCHANGED <<publicQueue, found, idle, wpc>>
  /\ UNCHANGED <<privateQueue, idleSet, signalled, aborts, balance, current, cursor, closer,
                 offered>>

Release(p) ==
  /\ ppc[p] = "release"
  /\ signalled' = [signalled EXCEPT ![target[p]] = TRUE]
  /\ Returns(p, carried[p], FALSE)
  /\ UNCHANGED <<queues, idleSet, idle, found, aborts, balance, wpc, current, cursor, closer,
                 tasks>>

-----------------------------------------------------------------------------
(* The thread of worker w waits for tasks.                                 *)

(* The end of DrainQueue, in the critical section that found a task or the *)
(* abort.                                                                  *)
TakeQueue(w) ==
  /\ found' = [found EXCEPT ![w] = FALSE]
  /\ IF abort[w]
       THEN /\ idle' = [idle EXCEPT ![w] = TRUE]
            /\ wpc' = [wpc EXCEPT ![w] = "off"]
            /\ UNCHANGED queues
       ELSE /\ privateQueue' = [privateQueue EXCEPT ![w] = publicQueue[w]]
            /\ publicQueue' = [publicQueue EXCEPT ![w] = privateQueue[w]]
            /\ wpc' = [wpc EXCEPT ![w] = "balance"]
            /\ UNCHANGED idle

(* DrainQueue until WaitForTask gives up the lock.                         *)
DrainQueue(w) ==
  /\ wpc[w] = "drain"
  /\ \/ /\ publicQueue[w] # <<>> \/ abort[w]
        /\ TakeQueue(w)
     \/ /\ publicQueue[w] = <<>> /\ ~abort[w]
        /\ wpc' = [wpc EXCEPT ![w] = "markIdle"]
        /\ UNCHANGED <<queues, idle, found>>
  /\ UNCHANGED <<idleSet, signalled, aborts, balance, current, sending, ppc, cursor,
                 closer, tasks>>

(* A faulty variant: the worker is not marked again.                       *)
MarkIdle_Skips(w) ==
  /\ wpc[w] = "markIdle"
  /\ wpc' = [wpc EXCEPT ![w] = "wait"]
  /\ UNCHANGED <<queues, idleSet, idle, flags, aborts, balance, current, sending, ppc,
                 cursor, closer, tasks>>

MarkIdle(w) ==
  /\ wpc[w] = "markIdle"
  /\ SetIdle(w)
  /\ wpc' = [wpc EXCEPT ![w] = "wait"]
  /\ UNCHANGED <<queues, idle, flags, aborts, balance, current, sending, ppc, cursor,
                 closer, tasks>>

(* try_acquire_until succeeds; a signal whose task is already gone is      *)
(* passed over.                                                            *)
Acquire(w) ==
  /\ wpc[w] = "wait" /\ signalled[w]
  /\ signalled' = [signalled EXCEPT ![w] = FALSE]
  /\ wpc' = [wpc EXCEPT ![w] = IF found[w] THEN "recheck" ELSE "wait"]
  /\ UNCHANGED <<queues, idleSet, idle, found, aborts, balance, current, sending, ppc,
                 cursor, closer, tasks>>

(* The test under the lock after a signal.  A worker that has found tasks  *)
(* marks itself active and takes them in the same critical section.        *)
Recheck(w) ==
  /\ wpc[w] = "recheck"
  /\ \/ /\ publicQueue[w] = <<>> /\ ~abort[w]
        /\ wpc' = [wpc EXCEPT ![w] = "wait"]
        /\ UNCHANGED <<queues, idleSet, idle, found>>
     \/ /\ abort[w]
        /\ idle' = [idle EXCEPT ![w] = TRUE]
        /\ wpc' = [wpc EXCEPT ![w] = "off"]
        /\ UNCHANGED <<queues, idleSet, found>>
     \/ /\ publicQueue[w] # <<>> /\ ~abort[w]
        /\ SetActive(w)
        /\ TakeQueue(w)
  /\ UNCHANGED <<signalled, aborts, balance, current, sending, ppc, cursor, closer, tasks>>

(* The deadline has passed.                                                *)
TimeOut(w) ==
  /\ MayTimeOut
  /\ wpc[w] = "wait" /\ ~signalled[w]
  /\ wpc' = [wpc EXCEPT ![w] = "ending"]
  /\ UNCHANGED <<queues, idleSet, idle, flags, aborts, balance, current, sending, ppc,
                 cursor, closer, tasks>>

(* The thread ends after its deadline, after an abort or after an          *)
(* exception: under the lock it only sets m_bIdle.                         *)
EndThread(w) ==
  /\ wpc[w] = "ending"
  /\ idle' = [idle EXCEPT ![w] = TRUE]
  /\ wpc' = [wpc EXCEPT ![w] = "off"]
  /\ UNCHANGED <<queues, idleSet, flags, aborts, balance, current, sending, ppc, cursor,
                 closer, tasks>>

-----------------------------------------------------------------------------
(* BalanceWork: of its tasks, a worker gives a share to each of the idle   *)
(* workers and keeps the last one.                                         *)

(* The workers that FindIdleWorkers adds, in the order of the ring that    *)
(* begins after the caller.                                                *)
Distance(w, v) == IF v > w THEN v - w ELSE v - w + W
InRing(w, chosen) ==
  [i \in 1 .. Cardinality(chosen) |->
     CHOOSE v \in chosen :
       Cardinality({u \in chosen : Distance(w, u) < Distance(w, v)}) = i - 1]

(* The head of the loop in DrainQueueImpl and the first part of            *)
(* BalanceWork.                                                            *)
StartBalance(w) ==
  /\ wpc[w] = "balance"
  /\ LET n == Len(privateQueue[w])
         max == IF W - 1 < n - 1 THEN W - 1 ELSE n - 1
     IN  \/ /\ n = 0
            /\ wpc' = [wpc EXCEPT ![w] = "drain"]
            /\ UNCHANGED <<idleSet, idleBuffer>>
         \/ /\ n > 0
            /\ \E chosen \in SUBSET (idleSet \ {w}) :
                 /\ Cardinality(chosen) <= max
                 /\ idleSet' = idleSet \ chosen
                 /\ LET buffer == idleBuffer[w] \o InRing(w, chosen)
                        balanced == n < 2 \/ W = 1 \/ buffer = <<>>
                    IN  /\ idleBuffer' = [idleBuffer EXCEPT ![w] = IF n < 2 THEN @ ELSE buffer]
                        /\ wpc' = [wpc EXCEPT ![w] = IF balanced THEN "pop" ELSE "donate"]
  /\ donated' = [donated EXCEPT ![w] = 0]
  /\ UNCHANGED <<queues, idle, flags, aborts, current, sending, ppc, cursor, closer, tasks>>

(* A faulty variant: each share ends one task too late.                    *)
Donate_OffByOne(w) ==
  /\ wpc[w] = "donate" /\ donated[w] < Len(idleBuffer[w])
  /\ LET n == Len(privateQueue[w])
         k == Len(idleBuffer[w])
         j == donated[w]
         v == idleBuffer[w][j + 1]
         first == DonationEnd(n, k, j) + 1
         last == DonationEnd(n, k, j + 1) + 1
     IN  /\ ~abort[v]
         /\ Push(v, SubSeq(privateQueue[w], first, last),
                 [wpc EXCEPT ![w] = IF MustRelease(v) THEN "releaseDonation" ELSE "donate"])
         /\ privateQueue' = [privateQueue EXCEPT ![w] =
                               [i \in DOMAIN @ |-> IF i \in first .. last THEN Moved ELSE @[i]]]
  /\ target' = [target EXCEPT ![w] = idleBuffer[w][donated[w] + 1]]
  /\ donated' = [donated EXCEPT ![w] = @ + 1]
  /\ UNCHANGED <<idleSet, signalled, aborts, idleBuffer, current, carried, ppc, cursor, closer, tasks>>

(* One donation.  A worker that was shut down throws; the exception ends   *)
(* the thread of the donor.                                                *)
Donate(w) ==
  /\ wpc[w] = "donate" /\ donated[w] < Len(idleBuffer[w])
  /\ LET n == Len(privateQueue[w])
         k == Len(idleBuffer[w])
         j == donated[w]
         v == idleBuffer[w][j + 1]
         first == DonationEnd(n, k, j) + 1
         last == DonationEnd(n, k, j + 1)
     IN  \/ /\ ~abort[v]
            /\ Push(v, SubSeq(privateQueue[w], first, last),
                    [wpc EXCEPT ![w] = IF MustRelease(v) THEN "releaseDonation" ELSE "donate"])
            /\ privateQueue' = [privateQueue EXCEPT ![w] =
                                  [i \in DOMAIN @ |-> IF i \in first .. last THEN Moved ELSE @[i]]]
            /\ target' = [target EXCEPT ![w] = v]
            /\ donated' = [donated EXCEPT ![w] = j + 1]
         \/ /\ abort[v]
            /\ wpc' = [wpc EXCEPT ![w] = "ending"]
            /\ UNCHANGED <<queues, idle, found, target, donated>>
  /\ UNCHANGED <<idleSet, signalled, aborts, idleBuffer, current, carried, ppc, cursor, closer, tasks>>

(* The release that belongs to an enqueue by the worker's thread.          *)
ReleaseOther(w) ==
  /\ wpc[w] \in {"releaseDonation", "release"}
  /\ signalled' = [signalled EXCEPT ![target[w]] = TRUE]
  /\ wpc' = [wpc EXCEPT ![w] = IF @ = "release" THEN "run" ELSE "donate"]
  /\ UNCHANGED <<queues, idleSet, idle, found, aborts, balance, current, sending, ppc,
                 cursor, closer, tasks>>

(* The places of the donated tasks are erased.                             *)
FinishBalance(w) ==
  /\ wpc[w] = "donate" /\ donated[w] = Len(idleBuffer[w])
  /\ LET n == Len(privateQueue[w])
         k == Len(idleBuffer[w])
     IN  privateQueue' = [privateQueue EXCEPT ![w] = SubSeq(@, DonationEnd(n, k, k) + 1, n)]
  /\ idleBuffer' = [idleBuffer EXCEPT ![w] = <<>>]
  /\ wpc' = [wpc EXCEPT ![w] = "pop"]
  /\ UNCHANGED <<publicQueue, idleSet, idle, flags, aborts, donated, current, sending, ppc,
                 cursor, closer, tasks>>

-----------------------------------------------------------------------------
(* The thread of worker w runs tasks.                                      *)

(* A faulty variant: an abort throws away the task that it finds.          *)
PopTask_Forgets(w) ==
  /\ wpc[w] = "pop"
  /\ LET t == privateQueue[w][Len(privateQueue[w])] IN
       /\ privateQueue' = [privateQueue EXCEPT ![w] = SubSeq(@, 1, Len(@) - 1)]
       /\ IF atomicAbort[w]
            THEN wpc' = [wpc EXCEPT ![w] = "ending"] /\ UNCHANGED <<current, fate>>
            ELSE /\ wpc' = [wpc EXCEPT ![w] = "run"]
                 /\ current' = [current EXCEPT ![w] = t]
                 /\ fate' = [fate EXCEPT ![t] = "running"]
  /\ UNCHANGED <<publicQueue, idleSet, idle, flags, aborts, balance, sending, ppc, cursor,
                 closer, offered>>

(* DrainQueueImpl after BalanceWork: an abort leaves the tasks where they  *)
(* are; otherwise the youngest is taken.  What was moved out of a task     *)
(* does nothing.                                                           *)
PopTask(w) ==
  /\ wpc[w] = "pop"
  /\ \/ /\ atomicAbort[w]
        /\ wpc' = [wpc EXCEPT ![w] = "ending"]
        /\ UNCHANGED <<privateQueue, current, fate>>
     \/ /\ ~atomicAbort[w]
        /\ LET t == privateQueue[w][Len(privateQueue[w])] IN
             /\ privateQueue' = [privateQueue EXCEPT ![w] = SubSeq(@, 1, Len(@) - 1)]
             /\ wpc' = [wpc EXCEPT ![w] = IF t = Moved THEN "balance" ELSE "run"]
             /\ current' = [current EXCEPT ![w] = t]
             /\ fate' = IF t = Moved THEN fate ELSE [fate EXCEPT ![t] = "running"]
  /\ UNCHANGED <<publicQueue, idleSet, idle, flags, aborts, balance, sending, ppc, cursor,
                 closer, offered>>

(* EnqueueLocal of a task or of a span.                                    *)
EnqueueLocal(w) ==
  /\ \E n \in 1 .. N - offered :
       /\ Offer(n)
       /\ \/ /\ atomicAbort[w]
             /\ Offered(In(Span(n)), "refused")
             /\ UNCHANGED privateQueue
          \/ /\ ~atomicAbort[w]
             /\ Offered(In(Span(n)), "queued")
             /\ privateQueue' = [privateQueue EXCEPT ![w] = @ \o Span(n)]
  /\ UNCHANGED <<idleSet, wpc, sending>>

(* Enqueue by the running task: to its own worker if that appears empty,   *)
(* if no other worker is found idle, or if it is a span.                   *)
EnqueueFromTask(w) ==
  /\ wpc[w] = "run"
  /\ LET appearsEmpty == privateQueue[w] = <<>> /\ ~found[w] IN
       \/ EnqueueLocal(w)
       \/ /\ ~appearsEmpty /\ offered < N
          /\ \E v \in Workers \ {w} :
               TryAcquireFlag(v) /\ target' = [target EXCEPT ![w] = v]
          /\ Offer(1)
          /\ carried' = [carried EXCEPT ![w] = OneByOne(1)]
          /\ wpc' = [wpc EXCEPT ![w] = "enqueue"]
          /\ UNCHANGED <<privateQueue, fate>>
  /\ UNCHANGED <<publicQueue, idle, flags, aborts, balance, current, ppc, cursor, closer>>

EnqueueOther(w) ==
  /\ wpc[w] = "enqueue"
  /\ LET v == target[w]
         batch == Head(carried[w]).tasks
     IN \/ /\ ~abort[v]
           /\ Push(v, batch, [wpc EXCEPT ![w] = IF MustRelease(v) THEN "release" ELSE "run"])
           /\ Offered(In(batch), "queued")
        \/ /\ abort[v]
           /\ Offered(In(batch), "refused")
           /\ wpc' = [wpc EXCEPT ![w] = "run"]
           /\ UNCHANGED <<publicQueue, found, idle>>
  /\ carried' = [carried EXCEPT ![w] = <<>>]
  /\ UNCHANGED <<privateQueue, idleSet, signalled, aborts, balance, current, target, ppc,
                 cursor, closer, offered>>

FinishTask(w) ==
  /\ wpc[w] = "run"
  /\ fate' = [fate EXCEPT ![current[w]] = "executed"]
  /\ current' = [current EXCEPT ![w] = Nobody]
  /\ wpc' = [wpc EXCEPT ![w] = "balance"]
  /\ UNCHANGED <<queues, idleSet, idle, flags, aborts, balance, sending, ppc, cursor,
                 closer, offered>>

WorkerStep(w) ==
  \/ DrainQueue(w) \/ MarkIdle(w) \/ Acquire(w) \/ Recheck(w) \/ EndThread(w)
  \/ StartBalance(w) \/ Donate(w) \/ ReleaseOther(w) \/ FinishBalance(w)
  \/ PopTask(w) \/ EnqueueOther(w) \/ FinishTask(w)

-----------------------------------------------------------------------------
(* ShutDown, by a thread outside the pool: one worker after the other.     *)

ShutDown ==
  /\ spc = "idle"
  /\ poolAbort' = TRUE
  /\ spc' = "atomic"
  /\ UNCHANGED <<queues, idleSet, idle, flags, abort, atomicAbort, balance, wpc, current,
                 sending, ppc, cursor, closing, tasks>>

SetAtomicAbort ==
  /\ spc = "atomic"
  /\ atomicAbort' = [atomicAbort EXCEPT ![closing] = TRUE]
  /\ spc' = "abort"
  /\ UNCHANGED <<queues, idleSet, idle, flags, abort, poolAbort, balance, wpc, current,
                 sending, ppc, cursor, closing, tasks>>

SetAbort ==
  /\ spc = "abort"
  /\ abort' = [abort EXCEPT ![closing] = TRUE]
  /\ spc' = "found"
  /\ UNCHANGED <<queues, idleSet, idle, flags, atomicAbort, poolAbort, balance, wpc,
                 current, sending, ppc, cursor, closing, tasks>>

SetFound ==
  /\ spc = "found"
  /\ found' = [found EXCEPT ![closing] = TRUE]
  /\ spc' = "release"
  /\ UNCHANGED <<queues, idleSet, idle, signalled, aborts, balance, wpc, current, sending,
                 ppc, cursor, closing, tasks>>

ReleaseForAbort ==
  /\ spc = "release"
  /\ signalled' = [signalled EXCEPT ![closing] = TRUE]
  /\ spc' = "join"
  /\ UNCHANGED <<queues, idleSet, idle, found, aborts, balance, wpc, current, sending, ppc,
                 cursor, closing, tasks>>

Join ==
  /\ spc = "join" /\ wpc[closing] = "off"
  /\ spc' = "clear"
  /\ UNCHANGED <<queues, idleSet, idle, flags, aborts, balance, wpc, current, sending, ppc,
                 cursor, closing, tasks>>

ClearQueues ==
  /\ spc = "clear"
  /\ LET left == In(publicQueue[closing]) \cup In(privateQueue[closing])
     IN  fate' = [t \in Tasks |-> IF t \in left THEN "destroyed" ELSE fate[t]]
  /\ publicQueue' = [publicQueue EXCEPT ![closing] = <<>>]
  /\ privateQueue' = [privateQueue EXCEPT ![closing] = <<>>]
  /\ closing' = closing + 1
  /\ spc' = IF closing = W THEN "closed" ELSE "atomic"
  /\ UNCHANGED <<idleSet, idle, flags, aborts, balance, wpc, current, sending, ppc, cursor,
                 offered>>

CloserStep ==
  \/ SetAtomicAbort \/ SetAbort \/ SetFound \/ ReleaseForAbort \/ Join \/ ClearQueues

-----------------------------------------------------------------------------
(* Nobody has anything left to do.                                         *)
Quiet ==
  /\ spc = "closed" /\ offered = N
  /\ \A p \in Producers : ppc[p] = "idle"
  /\ UNCHANGED vars

Next ==
  \/ \E p \in Producers :
       Enqueue(p) \/ EnqueueNext(p) \/ EnqueueForeign(p) \/ Release(p)
  \/ \E w \in Workers : WorkerStep(w) \/ TimeOut(w) \/ EnqueueFromTask(w)
  \/ ShutDown \/ CloserStep
  \/ Quiet

(* Threads that are not asleep go on, and a task that runs returns.        *)
Fairness ==
  /\ \A w \in Workers : WF_vars(WorkerStep(w))
  /\ \A p \in Producers : WF_vars(EnqueueNext(p) \/ EnqueueForeign(p) \/ Release(p))
  /\ WF_vars(CloserStep)

Spec == Init /\ [][Next]_vars /\ Fairness

-----------------------------------------------------------------------------
(* Properties.                                                             *)

Queued == {t \in Tasks : fate[t] = "queued"}
Closed == spc = "closed"

(* The threads that are about to signal worker w.                          *)
WillSignal(w) ==
  \/ \E p \in Producers : ppc[p] = "release" /\ target[p] = w
  \/ \E v \in Workers : wpc[v] \in {"release", "releaseDonation"} /\ target[v] = w
  \/ spc \in {"found", "release"} /\ closing = w

(* The places of a task in the queues of the workers.                      *)
Places(t, queue) ==
  UNION {{<<w, k>> : k \in {i \in DOMAIN queue[w] : queue[w][i] = t}} : w \in Workers}

(* Across swaps, donations, donations that fail, restarted threads and the *)
(* clearing of the queues no task is lost or doubled: a task whose fate is *)
(* open is in one place of one queue, any other task in none.              *)
QueuesHoldOpenTasks ==
  /\ TypeOK
  /\ \A t \in Tasks :
       Cardinality(Places(t, publicQueue)) + Cardinality(Places(t, privateQueue))
         = IF t \in Queued THEN 1 ELSE 0

(* A worker never sleeps on tasks or on an abort without a signal that is  *)
(* there or on its way, and the flag m_bTaskFoundOrAbort never lets it     *)
(* pass over the signal of a task that is still there.  A worker whose     *)
(* thread has ended and that has no work is marked idle, so that Enqueue   *)
(* and BalanceWork find it.                                                *)
NoLostWakeup ==
  \A w \in Workers :
    /\ wpc[w] \in {"markIdle", "wait"} /\ (publicQueue[w] # <<>> \/ abort[w]) =>
         /\ signalled[w] \/ WillSignal(w)
         /\ found[w] \/ (spc = "found" /\ closing = w /\ publicQueue[w] = <<>>)
    /\ wpc[w] = "off" /\ ~poolAbort /\ publicQueue[w] = <<>> =>
         \/ w \in idleSet
         \/ \E p \in Producers : ppc[p] = "enqueue" /\ target[p] = w
         \/ \E v \in Workers : wpc[v] = "enqueue" /\ target[v] = w
         \/ \E v \in Workers : wpc[v] \in {"donate", "releaseDonation"}
                               /\ \E k \in donated[v] + 1 .. Len(idleBuffer[v]) : idleBuffer[v][k] = w

(* The asserts in BalanceWork and DrainQueueImpl: until the pool is shut   *)
(* down, every donation is a range of tasks that are still there, and the  *)
(* donor keeps one.  (A worker that was shut down throws, which leaves the *)
(* list of idle workers as it was; a thread that is started again on the   *)
(* donor's queue would use it.)  And the asserts of the worker's           *)
(* destructor: when ShutDown has returned, no thread runs and no task is   *)
(* left.                                                                   *)
AssertsHold ==
  /\ \A w \in Workers :
       LET n == Len(privateQueue[w])
           k == Len(idleBuffer[w])
           d == donated[w]
       IN  /\ wpc[w] = "donate" /\ d < k /\ ~poolAbort
                => /\ k < n
                   /\ DonationEnd(n, k, d) < DonationEnd(n, k, d + 1)
                   /\ \A i \in DonationEnd(n, k, d) + 1 .. n : privateQueue[w][i] # Moved
           /\ wpc[w] = "pop" => n > 0
  /\ Closed => /\ \A w \in Workers : wpc[w] = "off" /\ idle[w]
               /\ \A t \in Tasks : fate[t] \notin {"queued", "running"}

(* The assert in DrainQueue before the queues are swapped.  It does not    *)
(* hold: a task that is enqueued while ShutDown is at work can start a     *)
(* second thread on a private queue that is not cleared yet.               *)
SwapsEmptyQueue ==
  \A w \in Workers : wpc[w] \in {"drain", "recheck"} /\ publicQueue[w] # <<>> /\ ~abort[w]
                       => privateQueue[w] = <<>>

Contract == INSTANCE ExecutorContract WITH requested <- poolAbort, closed <- Closed

(* Every step is one that the contract of an executor allows.              *)
KeepsContract == Contract!EInit /\ [][Contract!ENext]_(Contract!evars)

(* A task that the pool has accepted is run or destroyed, also if nobody   *)
(* enqueues anything else.                                                 *)
TasksProgress == Contract!Progress

(* While no worker's idle time passes, the pool keeps the whole contract:  *)
(* ShutDown returns too, whatever the workers are doing.                   *)
ImplementsContract == Contract!ESpec
=============================================================================
