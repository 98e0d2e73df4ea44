--------------------------- MODULE ExecutorProofs ---------------------------
(***************************************************************************)
(* First, the queues of the worker-thread executor, its wake-ups, the      *)
(* order of its tasks and its promises, for any number of tasks, any       *)
(* length of a span, and any producers and callers of ShutDown.  Then the  *)
(* same for the manual executor, whose specification is the instance       *)
(* Manual: the queue, the threads that wait and its promises, for any      *)
(* number of tasks, of threads and of calls.                               *)
(***************************************************************************)
EXTENDS WorkerThreadExecutor, FiniteSetTheorems, TLAPS

(* Tasks are offered in order; the one that runs is the current one.       *)
FatesInOrder ==
  /\ \A t \in Tasks : fate[t] = "new" <=> t > offered
  /\ \A t \in Tasks : fate[t] = "running" <=> t = current
  /\ \A t \in local : t <= offered

(* Two or one queues: the worker's private queue is empty whenever it is   *)
(* not busy with it, unless it has seen the abort.                         *)
PrivateEmpty == wpc \in {"none", "drain", "acquire"} => privateQueue = <<>>

(* The tasks of foreign threads are in order, first the private queue,     *)
(* then the public one, which holds no others.                             *)
ForeignSorted ==
  /\ \A k \in DOMAIN publicQueue : publicQueue[k] \notin local
  /\ \A q \in {publicQueue, privateQueue} :
       \A j, k \in DOMAIN q : j < k /\ q[j] \notin local /\ q[k] \notin local => q[j] < q[k]
  /\ \A j \in DOMAIN privateQueue, k \in DOMAIN publicQueue :
       privateQueue[j] \notin local => privateQueue[j] < publicQueue[k]

(* One caller shuts the executor down, and its place says which flags are  *)
(* set; once it has joined, there is no worker and there will be none.     *)
ShutDownByOne ==
  /\ \A s, r \in Closers :
       spc[s] \notin {"idle", "tooLate"} /\ spc[r] \notin {"idle", "tooLate"} => s = r
  /\ \A s \in Closers : spc[s] # "idle" => atomicAbort
  /\ atomicAbort => \E s \in Closers : spc[s] \notin {"idle", "tooLate"}
  /\ publicAbort <=> \E s \in Closers : spc[s] \notin {"idle", "tooLate", "public"}
  /\ privateAbort <=> \E s \in Closers : spc[s] \notin {"idle", "tooLate", "public", "private"}
  /\ wpc = "exited" => publicAbort
  /\ \A s \in Closers : spc[s] \in {"clear", "closed"} => wpc \in {"none", "exited"}

(* The parts of NoTaskLost besides the types.                              *)
QueuesHoldQueued ==
  /\ In(publicQueue) \cup In(privateQueue) = Queued
  /\ In(publicQueue) \cap In(privateQueue) = {}
  /\ \A j, k \in DOMAIN publicQueue : j # k => publicQueue[j] # publicQueue[k]
  /\ \A j, k \in DOMAIN privateQueue : j # k => privateQueue[j] # privateQueue[k]

NoLostWakeup ==
  wpc = "acquire" /\ (publicQueue # <<>> \/ publicAbort) =>
    \/ signalled
    \/ \E p \in Producers : ppc[p] = "release"
    \/ \E s \in Closers : spc[s] \in {"private", "release"}

IInv ==
  /\ TypeOK /\ QueuesHoldQueued /\ NoLostWakeup
  /\ FatesInOrder /\ PrivateEmpty /\ ForeignSorted /\ ShutDownByOne

-----------------------------------------------------------------------------
(* What the operations on the queues do.                                   *)

LEMMA TailOfQueue ==
  ASSUME NEW q \in Seq(Tasks), q # <<>>
  PROVE  /\ Head(q) = q[1] /\ Head(q) \in Tasks /\ 1 \in DOMAIN q
         /\ Tail(q) \in Seq(Tasks)
         /\ \A k \in DOMAIN Tail(q) : k \in Nat /\ k + 1 \in DOMAIN q /\ Tail(q)[k] = q[k + 1]
         /\ In(q) = {Head(q)} \cup In(Tail(q))
<1>1. /\ Len(q) \in Nat \ {0} /\ DOMAIN q = 1 .. Len(q)
      /\ Head(q) = q[1] /\ Head(q) \in Tasks /\ Tail(q) \in Seq(Tasks)
      /\ DOMAIN Tail(q) = 1 .. Len(q) - 1
      /\ \A k \in 1 .. Len(q) - 1 : Tail(q)[k] = q[k + 1]
  OBVIOUS
<1>2. In(q) \subseteq {Head(q)} \cup In(Tail(q))
  <2> SUFFICES ASSUME NEW k \in DOMAIN q, k # 1 PROVE q[k] \in In(Tail(q))
    BY <1>1 DEF In
  <2>1. k - 1 \in DOMAIN Tail(q) /\ Tail(q)[k - 1] = q[k]
    BY <1>1
  <2> QED
    BY <2>1 DEF In
<1>3. {Head(q)} \cup In(Tail(q)) \subseteq In(q)
  BY <1>1 DEF In
<1> QED
  BY <1>1, <1>2, <1>3

LEMMA BatchAppended ==
  ASSUME NEW q \in Seq(Tasks), NEW k \in Sizes, offered \in 0 .. N
  PROVE  /\ k \in Nat \ {0} /\ offered + k \in 0 .. N
         /\ offered + 1 .. offered + k \subseteq Tasks
         /\ q \o Batch(k) \in Seq(Tasks)
         /\ Len(q) \in Nat /\ DOMAIN q = 1 .. Len(q)
         /\ DOMAIN (q \o Batch(k)) = 1 .. Len(q) + k
         /\ \A j \in 1 .. Len(q) + k :
              (q \o Batch(k))[j] = IF j <= Len(q) THEN q[j] ELSE offered + (j - Len(q))
         /\ In(Batch(k)) = offered + 1 .. offered + k
         /\ In(q \o Batch(k)) = In(q) \cup offered + 1 .. offered + k
<1>1. /\ k \in Nat \ {0} /\ offered + k \in 0 .. N /\ offered \in Nat
      /\ offered + 1 .. offered + k \subseteq Tasks
  BY WorkerAssumption DEF Sizes, Tasks
<1>2. \A j \in 1 .. k : offered + j \in Tasks
  BY <1>1, WorkerAssumption DEF Tasks
<1>3. Batch(k) \in Seq(Tasks) /\ Len(Batch(k)) = k /\ \A j \in 1 .. k : Batch(k)[j] = offered + j
  BY <1>1, <1>2 DEF Batch
<1>4. /\ q \o Batch(k) \in Seq(Tasks)
      /\ Len(q) \in Nat /\ DOMAIN q = 1 .. Len(q)
      /\ DOMAIN (q \o Batch(k)) = 1 .. Len(q) + k
      /\ \A j \in 1 .. Len(q) + k :
           (q \o Batch(k))[j] = IF j <= Len(q) THEN q[j] ELSE Batch(k)[j - Len(q)]
  BY <1>1, <1>3
<1>5. \A j \in 1 .. Len(q) + k :
        (q \o Batch(k))[j] = IF j <= Len(q) THEN q[j] ELSE offered + (j - Len(q))
  BY <1>1, <1>3, <1>4
<1>6. In(Batch(k)) = offered + 1 .. offered + k
  <2>1. DOMAIN Batch(k) = 1 .. k
    BY <1>1 DEF Batch
  <2>2. ASSUME NEW t \in offered + 1 .. offered + k PROVE t \in In(Batch(k))
    <3>1. t - offered \in 1 .. k /\ Batch(k)[t - offered] = t
      BY <1>1, <1>3
    <3> QED
      BY <3>1, <2>1 DEF In
  <2> QED
    BY <1>1, <1>3, <2>1, <2>2 DEF In
<1>7. In(q \o Batch(k)) = In(q) \cup offered + 1 .. offered + k
  <2>1. ASSUME NEW t \in In(q) PROVE t \in In(q \o Batch(k))
    <3>1. PICK j \in 1 .. Len(q) : t = q[j]
      BY <1>4 DEF In
    <3> QED
      BY <3>1, <1>1, <1>4 DEF In
  <2>2. ASSUME NEW t \in offered + 1 .. offered + k PROVE t \in In(q \o Batch(k))
    <3> DEFINE j == Len(q) + (t - offered)
    <3>1. /\ j \in 1 .. Len(q) + k /\ ~(j <= Len(q)) /\ offered + (j - Len(q)) = t
      <4>1. Len(q) \in Nat
        BY <1>4
      <4> QED
        BY <4>1, <1>1
    <3>2. (q \o Batch(k))[j] = t
      <4> HIDE DEF j
      <4> QED
        BY <3>1, <1>5
    <3> HIDE DEF j
    <3> QED
      BY <3>1, <3>2, <1>4 DEF In
  <2>3. ASSUME NEW j \in 1 .. Len(q) + k
        PROVE  (q \o Batch(k))[j] \in In(q) \cup offered + 1 .. offered + k
    <3>1. CASE j <= Len(q)
      BY <3>1, <1>4, <1>5 DEF In
    <3>2. CASE j > Len(q)
      BY <3>2, <1>1, <1>4, <1>5
    <3> QED
      BY <3>1, <3>2, <1>1, <1>4
  <2> QED
    BY <1>4, <2>1, <2>2, <2>3 DEF In
<1> QED
  BY <1>1, <1>4, <1>5, <1>6, <1>7

-----------------------------------------------------------------------------
(* The invariant holds initially and is kept by every step.                *)

LEMMA InitIInv == Init => IInv
<1> SUFFICES ASSUME Init PROVE IInv
  OBVIOUS
<1>1. /\ publicQueue = <<>> /\ privateQueue = <<>> /\ DOMAIN publicQueue = {}
      /\ DOMAIN privateQueue = {}
  BY DEF Init
<1>2. TypeOK
  <2>1. 0 \in 0 .. N /\ 0 \notin Tasks
    BY WorkerAssumption DEF Tasks
  <2>2. publicQueue \in Seq(Tasks) /\ privateQueue \in Seq(Tasks)
    BY <1>1
  <2>3. /\ fate \in [Tasks -> {"new", "queued", "running", "executed", "destroyed", "refused"}]
        /\ ppc \in [Producers -> {"idle", "release"}] /\ spc \in [Closers -> CloserPCs]
    BY DEF Init, CloserPCs
  <2> QED
    BY <2>1, <2>2, <2>3 DEF Init, TypeOK, WorkerPCs
<1>3. QueuesHoldQueued
  BY <1>1 DEF Init, QueuesHoldQueued, In, Queued
<1>4. FatesInOrder
  BY WorkerAssumption DEF Init, FatesInOrder, Tasks
<1>5. NoLostWakeup /\ PrivateEmpty /\ ForeignSorted /\ ShutDownByOne
  BY <1>1 DEF Init, NoLostWakeup, PrivateEmpty, ForeignSorted, ShutDownByOne
<1> QED
  BY <1>2, <1>3, <1>4, <1>5 DEF IInv

(* A span of foreign tasks goes to the end of the public queue.            *)
LEMMA EnqueueForeignIInv ==
  ASSUME NEW p \in Producers, IInv, EnqueueForeign(p)
  PROVE  IInv'
<1> USE DEF IInv
<1>1. PICK n \in Sizes : publicQueue' = publicQueue \o Batch(n) /\ Offer(n, "queued")
  BY DEF EnqueueForeign
<1>2. /\ ppc[p] = "idle" /\ ~publicAbort
      /\ wpc' = IF wpc = "none" THEN "drain" ELSE wpc
      /\ ppc' = [ppc EXCEPT ![p] = IF wpc # "none" /\ publicQueue = <<>> THEN "release" ELSE "idle"]
      /\ UNCHANGED <<privateQueue, aborts, signalled, current, spc, local>>
  BY DEF EnqueueForeign
<1> DEFINE new == offered + 1 .. offered + n
<1>3. /\ n \in Nat \ {0} /\ offered \in Nat /\ offered + n \in 0 .. N /\ new \subseteq Tasks
      /\ publicQueue' \in Seq(Tasks)
      /\ Len(publicQueue) \in Nat /\ DOMAIN publicQueue = 1 .. Len(publicQueue)
      /\ DOMAIN publicQueue' = 1 .. Len(publicQueue) + n
      /\ \A j \in 1 .. Len(publicQueue) + n :
           publicQueue'[j] = IF j <= Len(publicQueue) THEN publicQueue[j]
                             ELSE offered + (j - Len(publicQueue))
      /\ In(publicQueue') = In(publicQueue) \cup new
  <2>1. publicQueue \in Seq(Tasks) /\ offered \in 0 .. N /\ publicQueue' = publicQueue \o Batch(n)
    BY <1>1 DEF TypeOK
  <2>2. PICK q : q = publicQueue \o Batch(n)
    OBVIOUS
  <2>3. /\ n \in Nat \ {0} /\ offered + n \in 0 .. N /\ new \subseteq Tasks
        /\ q \in Seq(Tasks) /\ Len(publicQueue) \in Nat
        /\ DOMAIN publicQueue = 1 .. Len(publicQueue) /\ DOMAIN q = 1 .. Len(publicQueue) + n
        /\ \A j \in 1 .. Len(publicQueue) + n :
             q[j] = IF j <= Len(publicQueue) THEN publicQueue[j]
                    ELSE offered + (j - Len(publicQueue))
        /\ In(q) = In(publicQueue) \cup new
    BY <2>1, <2>2, BatchAppended
  <2>4. publicQueue' = q /\ offered \in Nat
    BY <2>1, <2>2
  <2>. QED  BY <2>3, <2>4
<1>4. /\ offered' = offered + n
      /\ fate' = [t \in Tasks |-> IF t \in new THEN "queued" ELSE fate[t]]
  BY <1>1 DEF Offer
<1>5. /\ \A t \in new : fate[t] = "new" /\ t \notin local /\ t # current
      /\ \A t \in Queued : t \notin new /\ t <= offered
  BY <1>3 DEF FatesInOrder, Queued, TypeOK, Tasks
<1>6. TypeOK'
  <2>1. ppc' \in [Producers -> {"idle", "release"}] /\ wpc' \in WorkerPCs
    BY <1>2 DEF TypeOK, WorkerPCs
  <2>2. current' \in Tasks \cup {0} /\ (current' # 0 <=> wpc' = "run")
    BY <1>2 DEF TypeOK
  <2> QED
    BY <1>2, <1>3, <1>4, <2>1, <2>2 DEF TypeOK, aborts
<1>7. QueuesHoldQueued'
  <2>1. Queued' = Queued \cup new
    BY <1>3, <1>4, <1>5 DEF Queued
  <2>2. In(publicQueue') \cap In(privateQueue') = {}
    BY <1>2, <1>3, <1>5 DEF QueuesHoldQueued
  <2>3. \A j, k \in DOMAIN publicQueue' : j # k => publicQueue'[j] # publicQueue'[k]
    <3>1. \A j \in 1 .. Len(publicQueue) : publicQueue[j] \in Queued
      BY <1>3 DEF QueuesHoldQueued, In
    <3> QED
      BY <1>3, <1>5, <3>1 DEF QueuesHoldQueued, Queued, Tasks
  <2> QED
    BY <1>2, <1>3, <2>1, <2>2, <2>3 DEF QueuesHoldQueued
<1>8. NoLostWakeup'
  <2>1. CASE wpc = "acquire" /\ publicQueue = <<>>
    BY <1>2, <2>1 DEF NoLostWakeup, TypeOK
  <2>2. CASE wpc = "acquire" /\ publicQueue # <<>>
    BY <1>2, <2>2 DEF NoLostWakeup, TypeOK
  <2> QED
    BY <1>2, <2>1, <2>2 DEF NoLostWakeup
<1>9. FatesInOrder'
  BY <1>2, <1>3, <1>4, <1>5 DEF FatesInOrder, TypeOK, Tasks
<1>10. PrivateEmpty'
  BY <1>2 DEF PrivateEmpty
<1>11. ForeignSorted'
  <2>1. \A j \in 1 .. Len(publicQueue) : publicQueue[j] \in Queued
    BY <1>3 DEF QueuesHoldQueued, In
  <2>2. \A k \in DOMAIN privateQueue : privateQueue[k] \in Queued
    BY DEF QueuesHoldQueued, In
  <2>3. \A k \in DOMAIN publicQueue' : publicQueue'[k] \notin local'
    BY <1>2, <1>3, <1>5 DEF ForeignSorted
  <2>4. \A j, k \in DOMAIN publicQueue' : j < k => publicQueue'[j] < publicQueue'[k]
    BY <1>3, <1>5, <2>1 DEF ForeignSorted, Queued, Tasks
  <2>5. \A j \in DOMAIN privateQueue', k \in DOMAIN publicQueue' :
          privateQueue'[j] \notin local' => privateQueue'[j] < publicQueue'[k]
    BY <1>2, <1>3, <1>5, <2>2 DEF ForeignSorted, Queued, Tasks
  <2> QED
    BY <1>2, <2>3, <2>4, <2>5 DEF ForeignSorted
<1>12. ShutDownByOne'
  BY <1>2 DEF ShutDownByOne, aborts
<1> QED
  BY <1>6, <1>7, <1>8, <1>9, <1>10, <1>11, <1>12

(* The worker's part under the lock: what is queued stays queued, perhaps  *)
(* in the other queue.                                                     *)
LEMMA DrainQueueIInv == IInv /\ DrainQueue => IInv'
<1> SUFFICES ASSUME IInv, DrainQueue PROVE IInv'
  OBVIOUS
<1> USE DEF IInv, DrainQueue, aborts, others, tasks
<1>1. privateQueue = <<>> /\ DOMAIN privateQueue = {} /\ In(privateQueue) = {}
  BY DEF PrivateEmpty, In
<1>2. TypeOK'
  BY DEF TypeOK, WorkerPCs
<1>3. QueuesHoldQueued'
  BY DEF QueuesHoldQueued, Queued
<1>4. NoLostWakeup'
  BY DEF NoLostWakeup
<1>5. FatesInOrder'
  BY DEF FatesInOrder
<1>6. PrivateEmpty'
  BY <1>1 DEF PrivateEmpty
<1>7. ForeignSorted'
  BY <1>1 DEF ForeignSorted
<1>8. ShutDownByOne'
  BY DEF ShutDownByOne
<1> QED
  BY <1>2, <1>3, <1>4, <1>5, <1>6, <1>7, <1>8

LEMMA PopTaskIInv == IInv /\ PopTask => IInv'
<1> SUFFICES ASSUME IInv, PopTask PROVE IInv'
  OBVIOUS
<1> USE DEF IInv
<1>1. wpc = "pop" /\ UNCHANGED <<publicQueue, aborts, signalled, others, offered, local>>
  BY DEF PopTask
<1>2. CASE privateQueue = <<>>
  <2>1. UNCHANGED <<privateQueue, current, fate>> /\ wpc' = "drain"
    BY <1>2 DEF PopTask
  <2> QED
    BY <1>1, <1>2, <2>1 DEF TypeOK, WorkerPCs, QueuesHoldQueued, Queued, NoLostWakeup,
          FatesInOrder, PrivateEmpty, ForeignSorted, ShutDownByOne, aborts, others
<1>3. CASE privateQueue # <<>>
  <2> DEFINE h == Head(privateQueue)
  <2>1. /\ h = privateQueue[1] /\ h \in Tasks /\ 1 \in DOMAIN privateQueue
        /\ privateQueue' = Tail(privateQueue) /\ privateQueue' \in Seq(Tasks)
        /\ \A k \in DOMAIN privateQueue' :
             k \in Nat /\ k + 1 \in DOMAIN privateQueue /\ privateQueue'[k] = privateQueue[k + 1]
        /\ In(privateQueue) = {h} \cup In(privateQueue')
    <3>1. privateQueue \in Seq(Tasks) /\ privateQueue' = Tail(privateQueue)
      BY <1>3 DEF PopTask, TypeOK
    <3> QED
      BY <1>3, <3>1, TailOfQueue
  <2>2. \/ /\ privateAbort /\ wpc' = "exited" /\ UNCHANGED current
           /\ fate' = [fate EXCEPT ![h] = "destroyed"]
        \/ /\ ~privateAbort /\ wpc' = "run" /\ current' = h
           /\ fate' = [fate EXCEPT ![h] = "running"]
    BY <1>3 DEF PopTask
  <2>3. fate[h] = "queued" /\ h \notin In(publicQueue) /\ h <= offered
    BY <2>1 DEF QueuesHoldQueued, Queued, FatesInOrder, TypeOK, Tasks
  <2>4. h \notin In(privateQueue')
    BY <2>1 DEF QueuesHoldQueued, In
  <2>5. current = 0 /\ 0 \notin Tasks
    BY <1>1, WorkerAssumption DEF TypeOK, Tasks
  <2>6. TypeOK'
    BY <1>1, <2>1, <2>2, <2>5 DEF TypeOK, WorkerPCs, aborts, others
  <2>7. QueuesHoldQueued'
    <3>1. Queued' = Queued \ {h}
      BY <2>1, <2>2 DEF Queued, TypeOK
    <3>2. In(publicQueue') = In(publicQueue)
      BY <1>1
    <3>3. \A j, k \in DOMAIN privateQueue' : j # k => privateQueue'[j] # privateQueue'[k]
      BY <2>1 DEF QueuesHoldQueued
    <3> QED
      BY <1>1, <2>1, <2>3, <2>4, <3>1, <3>2, <3>3 DEF QueuesHoldQueued
  <2>8. NoLostWakeup' /\ PrivateEmpty'
    BY <2>2 DEF NoLostWakeup, PrivateEmpty
  <2>9. FatesInOrder'
    BY <1>1, <2>1, <2>2, <2>3, <2>5 DEF FatesInOrder, TypeOK
  <2>10. ForeignSorted'
    BY <1>1, <2>1 DEF ForeignSorted
  <2>11. ShutDownByOne'
    BY <1>1, <2>2 DEF ShutDownByOne, aborts, others
  <2> QED
    BY <2>6, <2>7, <2>8, <2>9, <2>10, <2>11
<1> QED
  BY <1>2, <1>3

(* The running task's own span goes to the end of the private queue.       *)
LEMMA EnqueueLocalIInv == IInv /\ EnqueueLocal => IInv'
<1> SUFFICES ASSUME IInv, EnqueueLocal PROVE IInv'
  OBVIOUS
<1> USE DEF IInv
<1>1. /\ wpc = "run"
      /\ UNCHANGED <<publicQueue, aborts, signalled, wpc, current, others>>
  BY DEF EnqueueLocal
<1>2. PICK n \in Sizes :
        \/ privateAbort /\ Offer(n, "refused") /\ UNCHANGED <<privateQueue, local>>
        \/ /\ ~privateAbort /\ Offer(n, "queued")
           /\ privateQueue' = privateQueue \o Batch(n) /\ local' = local \cup In(Batch(n))
  BY DEF EnqueueLocal
<1> DEFINE new == offered + 1 .. offered + n
<1>3. /\ n \in Nat \ {0} /\ offered \in Nat /\ offered + n \in 0 .. N /\ new \subseteq Tasks
      /\ privateQueue \o Batch(n) \in Seq(Tasks)
      /\ Len(privateQueue) \in Nat /\ DOMAIN privateQueue = 1 .. Len(privateQueue)
      /\ DOMAIN (privateQueue \o Batch(n)) = 1 .. Len(privateQueue) + n
      /\ \A j \in 1 .. Len(privateQueue) + n :
           (privateQueue \o Batch(n))[j] = IF j <= Len(privateQueue) THEN privateQueue[j]
                             ELSE offered + (j - Len(privateQueue))
      /\ In(Batch(n)) = new
      /\ In(privateQueue \o Batch(n)) = In(privateQueue) \cup new
  <2>1. privateQueue \in Seq(Tasks) /\ offered \in 0 .. N /\ offered \in Nat
    BY WorkerAssumption DEF TypeOK
  <2> QED
    BY <2>1, BatchAppended
<1>4. /\ \A t \in new : fate[t] = "new" /\ t \notin local /\ t # current
      /\ \A t \in Queued : t \notin new /\ t <= offered
  BY <1>3 DEF FatesInOrder, Queued, TypeOK, Tasks
<1>5. NoLostWakeup' /\ PrivateEmpty' /\ ShutDownByOne'
  BY <1>1 DEF NoLostWakeup, PrivateEmpty, ShutDownByOne, aborts, others
<1>6. CASE privateAbort /\ Offer(n, "refused") /\ UNCHANGED <<privateQueue, local>>
  <2>1. /\ offered' = offered + n
        /\ fate' = [t \in Tasks |-> IF t \in new THEN "refused" ELSE fate[t]]
    BY <1>6 DEF Offer
  <2>2. TypeOK'
    BY <1>1, <1>3, <1>6, <2>1 DEF TypeOK, aborts, others
  <2>3. Queued' = Queued
    BY <1>4, <2>1 DEF Queued
  <2>4. QueuesHoldQueued'
    BY <1>1, <1>6, <2>3 DEF QueuesHoldQueued
  <2>5. FatesInOrder'
    BY <1>1, <1>3, <1>4, <1>6, <2>1 DEF FatesInOrder, TypeOK, Tasks
  <2>6. ForeignSorted'
    BY <1>1, <1>6 DEF ForeignSorted
  <2> QED
    BY <1>5, <2>2, <2>4, <2>5, <2>6
<1>7. CASE /\ ~privateAbort /\ Offer(n, "queued")
           /\ privateQueue' = privateQueue \o Batch(n) /\ local' = local \cup In(Batch(n))
  <2>1. /\ offered' = offered + n
        /\ fate' = [t \in Tasks |-> IF t \in new THEN "queued" ELSE fate[t]]
    BY <1>7 DEF Offer
  <2>2. TypeOK'
    BY <1>1, <1>3, <1>7, <2>1 DEF TypeOK, aborts, others
  <2>3. Queued' = Queued \cup new
    BY <1>3, <1>4, <2>1 DEF Queued
  <2>4. \A j \in DOMAIN privateQueue : privateQueue[j] \in Queued
    BY DEF QueuesHoldQueued, In
  <2>5. QueuesHoldQueued'
    <3>1. \A j, k \in DOMAIN privateQueue' : j # k => privateQueue'[j] # privateQueue'[k]
      <4>1. \A j \in 1 .. Len(privateQueue) : privateQueue[j] \in Int /\ privateQueue[j] <= offered
        BY <1>3, <1>4, <2>4 DEF Queued, Tasks
      <4>2. /\ DOMAIN privateQueue' = 1 .. Len(privateQueue) + n
            /\ \A j \in 1 .. Len(privateQueue) + n :
                 privateQueue'[j] = IF j <= Len(privateQueue) THEN privateQueue[j]
                                    ELSE offered + (j - Len(privateQueue))
        BY <1>3, <1>7
      <4>3. \A j, k \in 1 .. Len(privateQueue) : j # k => privateQueue[j] # privateQueue[k]
        BY <1>3 DEF QueuesHoldQueued
      <4> HIDE DEF IInv
      <4> QED
        BY <1>3, <4>1, <4>2, <4>3
    <3>2. In(publicQueue') \cap In(privateQueue') = {}
      BY <1>1, <1>3, <1>4, <1>7 DEF QueuesHoldQueued
    <3> QED
      BY <1>1, <1>3, <1>7, <2>3, <3>1, <3>2 DEF QueuesHoldQueued
  <2>6. FatesInOrder'
    BY <1>1, <1>3, <1>4, <1>7, <2>1 DEF FatesInOrder, TypeOK, Tasks
  <2>7. ForeignSorted'
    <3>1. \A k \in DOMAIN publicQueue : publicQueue[k] \in Queued
      BY DEF QueuesHoldQueued, In
    <3>2. \A k \in DOMAIN publicQueue' : publicQueue'[k] \notin local'
      BY <1>1, <1>3, <1>4, <1>7, <3>1 DEF ForeignSorted
    <3>3. \A j \in DOMAIN privateQueue' :
            privateQueue'[j] \notin local'
              => /\ j \in DOMAIN privateQueue /\ privateQueue'[j] = privateQueue[j]
                 /\ privateQueue[j] \notin local
      BY <1>3, <1>7
    <3> QED
      BY <1>1, <3>2, <3>3, <1>7 DEF ForeignSorted
  <2> QED
    BY <1>5, <2>2, <2>5, <2>6, <2>7
<1> QED
  BY <1>2, <1>6, <1>7

(* A refused span, and the steps of a producer and of the worker that move *)
(* no task from one queue to another.                                      *)
LEMMA RefuseForeignIInv ==
  ASSUME NEW p \in Producers, IInv, RefuseForeign(p)
  PROVE  IInv'
<1> USE DEF IInv
<1>1. PICK n \in Sizes : Offer(n, "refused")
  BY DEF RefuseForeign
<1>2. UNCHANGED <<publicQueue, privateQueue, aborts, signalled, wpc, current, local, others>>
  BY DEF RefuseForeign
<1> DEFINE new == offered + 1 .. offered + n
<1>3. /\ n \in Nat \ {0} /\ offered \in Nat /\ offered + n \in 0 .. N /\ new \subseteq Tasks
      /\ offered' = offered + n
      /\ fate' = [t \in Tasks |-> IF t \in new THEN "refused" ELSE fate[t]]
  BY <1>1, WorkerAssumption DEF Sizes, Offer, TypeOK, Tasks
<1>4. \A t \in new : fate[t] = "new" /\ t \notin local /\ t # current
  BY <1>3 DEF FatesInOrder, Tasks, TypeOK
<1>5. TypeOK'
  BY <1>2, <1>3 DEF TypeOK, aborts, others
<1>6. Queued' = Queued
  BY <1>3, <1>4 DEF Queued
<1>7. QueuesHoldQueued'
  BY <1>2, <1>6 DEF QueuesHoldQueued
<1>8. FatesInOrder'
  BY <1>2, <1>3, <1>4 DEF FatesInOrder, TypeOK, Tasks
<1>9. NoLostWakeup' /\ PrivateEmpty' /\ ForeignSorted' /\ ShutDownByOne'
  BY <1>2 DEF NoLostWakeup, PrivateEmpty, ForeignSorted, ShutDownByOne, aborts, others
<1> QED
  BY <1>5, <1>7, <1>8, <1>9

LEMMA ReleaseIInv ==
  ASSUME NEW p \in Producers, IInv, Release(p)
  PROVE  IInv'
BY DEF Release, IInv, TypeOK, QueuesHoldQueued, Queued, NoLostWakeup, FatesInOrder, PrivateEmpty,
       ForeignSorted, ShutDownByOne, aborts, tasks

LEMMA AcquireIInv == IInv /\ Acquire => IInv'
<1> SUFFICES ASSUME IInv, Acquire PROVE IInv'
  OBVIOUS
<1> USE DEF IInv
<1>1. /\ wpc = "acquire" /\ wpc' = "drain" /\ signalled' = FALSE
      /\ UNCHANGED <<publicQueue, privateQueue, aborts, current, others, tasks>>
  BY DEF Acquire
<1>2. TypeOK'
  BY <1>1 DEF TypeOK, WorkerPCs, aborts, others, tasks
<1>3. QueuesHoldQueued' /\ FatesInOrder' /\ ForeignSorted'
  BY <1>1 DEF QueuesHoldQueued, Queued, FatesInOrder, ForeignSorted, tasks
<1>4. NoLostWakeup' /\ PrivateEmpty' /\ ShutDownByOne'
  BY <1>1 DEF NoLostWakeup, PrivateEmpty, ShutDownByOne, aborts, others
<1> QED
  BY <1>2, <1>3, <1>4

LEMMA FinishTaskIInv == IInv /\ FinishTask => IInv'
<1> SUFFICES ASSUME IInv, FinishTask PROVE IInv'
  OBVIOUS
<1> USE DEF IInv
<1>1. /\ wpc = "run" /\ wpc' = "pop" /\ current' = 0
      /\ fate' = [fate EXCEPT ![current] = "executed"]
      /\ UNCHANGED <<publicQueue, privateQueue, aborts, signalled, others, offered, local>>
  BY DEF FinishTask
<1>2. current \in Tasks /\ fate[current] = "running" /\ 0 \notin Tasks
  BY <1>1, WorkerAssumption DEF TypeOK, FatesInOrder, Tasks
<1>3. TypeOK'
  BY <1>1, <1>2 DEF TypeOK, WorkerPCs, aborts, others
<1>4. Queued' = Queued
  BY <1>1, <1>2 DEF Queued, TypeOK
<1>5. QueuesHoldQueued'
  BY <1>1, <1>4 DEF QueuesHoldQueued
<1>6. FatesInOrder'
  BY <1>1, <1>2 DEF FatesInOrder, TypeOK
<1>7. NoLostWakeup' /\ PrivateEmpty' /\ ForeignSorted' /\ ShutDownByOne'
  BY <1>1 DEF NoLostWakeup, PrivateEmpty, ForeignSorted, ShutDownByOne, aborts, others
<1> QED
  BY <1>3, <1>5, <1>6, <1>7

(* The steps of ShutDown before the queues are cleared change flags only.  *)
LEMMA ShutDownIInv ==
  ASSUME NEW s \in Closers, IInv,
         \/ ShutDown(s) \/ SetPublicAbort(s) \/ SetPrivateAbort(s) \/ ReleaseForAbort(s) \/ Join(s)
  PROVE  IInv'
<1> USE DEF IInv
<1>1. UNCHANGED <<publicQueue, privateQueue, wpc, current, ppc, tasks>>
  BY DEF ShutDown, SetPublicAbort, SetPrivateAbort, ReleaseForAbort, Join
<1>2. TypeOK'
  BY <1>1 DEF TypeOK, CloserPCs, ShutDown, SetPublicAbort, SetPrivateAbort, ReleaseForAbort, Join,
              aborts, tasks
<1>3. QueuesHoldQueued' /\ FatesInOrder' /\ PrivateEmpty' /\ ForeignSorted'
  BY <1>1 DEF QueuesHoldQueued, Queued, FatesInOrder, PrivateEmpty, ForeignSorted, tasks
<1>4. NoLostWakeup' /\ ShutDownByOne'
  <2> USE DEF NoLostWakeup, ShutDownByOne, TypeOK
  <2>1. CASE ShutDown(s)
    BY <2>1 DEF ShutDown
  <2>2. CASE SetPublicAbort(s)
    BY <2>2 DEF SetPublicAbort
  <2>3. CASE SetPrivateAbort(s)
    BY <2>3 DEF SetPrivateAbort
  <2>4. CASE ReleaseForAbort(s)
    BY <2>4 DEF ReleaseForAbort, aborts
  <2>5. CASE Join(s)
    BY <2>5 DEF Join, aborts
  <2> QED
    BY <2>1, <2>2, <2>3, <2>4, <2>5
<1> QED
  BY <1>2, <1>3, <1>4

LEMMA ClearQueuesIInv ==
  ASSUME NEW s \in Closers, IInv, ClearQueues(s)
  PROVE  IInv'
<1> USE DEF IInv
<1>1. /\ spc[s] = "clear" /\ spc' = [spc EXCEPT ![s] = "closed"]
      /\ fate' = [t \in Tasks |-> IF t \in Queued THEN "destroyed" ELSE fate[t]]
      /\ publicQueue' = <<>> /\ privateQueue' = <<>>
      /\ DOMAIN publicQueue' = {} /\ DOMAIN privateQueue' = {}
      /\ In(publicQueue') = {} /\ In(privateQueue') = {}
      /\ UNCHANGED <<aborts, signalled, wpc, current, ppc, offered, local>>
  BY DEF ClearQueues, QueuesHoldQueued, In
<1>2. TypeOK'
  <2>1. publicQueue' \in Seq(Tasks) /\ privateQueue' \in Seq(Tasks)
    BY <1>1
  <2>2. spc' \in [Closers -> CloserPCs]
    BY <1>1 DEF TypeOK, CloserPCs
  <2> QED
    BY <1>1, <2>1, <2>2 DEF TypeOK, aborts
<1>3. QueuesHoldQueued'
  <2>1. Queued' = {}
    BY <1>1 DEF Queued
  <2> QED
    BY <1>1, <2>1 DEF QueuesHoldQueued
<1>4. FatesInOrder'
  BY <1>1 DEF FatesInOrder, Queued
<1>5. NoLostWakeup' /\ PrivateEmpty' /\ ForeignSorted' /\ ShutDownByOne'
  BY <1>1 DEF NoLostWakeup, PrivateEmpty, ForeignSorted, ShutDownByOne, aborts, TypeOK
<1> QED
  BY <1>2, <1>3, <1>4, <1>5

LEMMA NextIInv == IInv /\ [Next]_vars => IInv'
<1> SUFFICES ASSUME IInv, [Next]_vars PROVE IInv'
  OBVIOUS
<1>1. CASE UNCHANGED vars
  BY <1>1 DEF vars, IInv, TypeOK, QueuesHoldQueued, Queued, NoLostWakeup, FatesInOrder,
              PrivateEmpty, ForeignSorted, ShutDownByOne
<1> QED
  BY <1>1, EnqueueForeignIInv, RefuseForeignIInv, ReleaseIInv, DrainQueueIInv, AcquireIInv,
     PopTaskIInv, FinishTaskIInv, EnqueueLocalIInv, ShutDownIInv, ClearQueuesIInv
     DEF Next, WorkerStep, CloserStep, Quiet

LEMMA Invariance == Spec => []IInv
BY InitIInv, NextIInv, PTL DEF Spec

-----------------------------------------------------------------------------
(* The queues hold the tasks whose fate is open, each once, and the worker *)
(* does not sleep on one, although only an enqueue that finds the public   *)
(* queue empty releases the semaphore, and outside the lock                *)
(* (CYWorkerThreadExecutor::EnqueueForeign, WaitForTask).                  *)
THEOREM TasksKept == Spec => []NoTaskLost
<1>1. IInv => NoTaskLost
  BY DEF IInv, NoTaskLost, QueuesHoldQueued, NoLostWakeup
<1> QED
  BY <1>1, Invariance, PTL

(* The worker starts the tasks of foreign threads in the order in which    *)
(* they came, whatever it enqueues itself in between                       *)
(* (CYWorkerThreadExecutor::DrainQueueImpl).                               *)
THEOREM ForeignTasksInOrder == Spec => ForeignInOrder
<1>1. ASSUME IInv, [Next]_vars,
             NEW t \in Tasks \ local, fate[t] = "queued", fate'[t] = "running",
             NEW u \in Queued \ local
      PROVE  t <= u
  <2>1. PopTask
    <3>1. ~ UNCHANGED fate
      BY <1>1
    <3>2. ~ \E n \in Sizes : Offer(n, "queued") \/ Offer(n, "refused")
      BY <1>1 DEF Offer
    <3>3. ~FinishTask /\ ~\E s \in Closers : ClearQueues(s)
      BY <1>1 DEF FinishTask, ClearQueues, IInv, TypeOK
    <3> QED
      BY <1>1, <3>1, <3>2, <3>3
         DEF Next, vars, tasks, WorkerStep, CloserStep, EnqueueForeign, RefuseForeign, Release,
             DrainQueue, Acquire, EnqueueLocal, ShutDown, SetPublicAbort, SetPrivateAbort,
             ReleaseForAbort, Join, Quiet
  <2>2. privateQueue # <<>> /\ t = Head(privateQueue)
    BY <1>1, <2>1 DEF PopTask, IInv, TypeOK
  <2>3. 1 \in DOMAIN privateQueue /\ t = privateQueue[1] /\ DOMAIN privateQueue \subseteq Nat \ {0}
    <3>1. privateQueue \in Seq(Tasks)
      BY <1>1 DEF IInv, TypeOK
    <3> QED
      BY <2>2, <3>1
  <2>4. CASE u \in In(privateQueue)
    <3>1. PICK k \in DOMAIN privateQueue : u = privateQueue[k]
      BY <2>4 DEF In
    <3>2. k = 1 \/ 1 < k
      BY <2>3
    <3>3. CASE k = 1
      BY <2>3, <3>1, <3>3 DEF Tasks
    <3>4. CASE 1 < k
      <4>1. privateQueue[1] < privateQueue[k]
        BY <1>1, <2>3, <3>1, <3>4 DEF IInv, ForeignSorted
      <4> QED
        BY <1>1, <2>3, <3>1, <4>1, WorkerAssumption DEF Tasks, Queued
    <3> QED
      BY <3>2, <3>3, <3>4
  <2>5. CASE u \in In(publicQueue)
    BY <1>1, <2>3, <2>5 DEF IInv, ForeignSorted, In, Tasks, Queued
  <2> QED
    BY <1>1, <2>4, <2>5 DEF IInv, QueuesHoldQueued
<1>2. IInv /\ [Next]_vars =>
        [\A t \in Tasks \ local : fate[t] = "queued" /\ fate'[t] = "running"
           => \A u \in Queued \ local : t <= u]_vars
  BY <1>1
<1> QED
  BY <1>2, Invariance, PTL DEF Spec, ForeignInOrder

-----------------------------------------------------------------------------
(* The refinement of ExecutorContract, one lemma for each kind of step.    *)

LEMMA OfferSimulates ==
  ASSUME NEW n \in Sizes, IInv, UNCHANGED <<atomicAbort, Closed>>,
         \/ Offer(n, "queued") /\ ~Closed
         \/ Offer(n, "refused") /\ atomicAbort
  PROVE  Contract!ENext
<1> DEFINE batch == offered + 1 .. offered + n
<1>1. batch \in SUBSET {t \in Tasks : fate[t] = "new"}
  BY WorkerAssumption DEF IInv, TypeOK, FatesInOrder, Sizes, Tasks
<1>2. CASE Offer(n, "queued") /\ ~Closed
  <2>1. Contract!Accept
    BY <1>1, <1>2 DEF Contract!Accept, Offer
  <2> QED
    BY <2>1 DEF Contract!ENext
<1>3. CASE Offer(n, "refused") /\ atomicAbort
  <2>1. Contract!Refuse
    BY <1>1, <1>3 DEF Contract!Refuse, Offer
  <2> QED
    BY <2>1 DEF Contract!ENext
<1> QED
  BY <1>2, <1>3

LEMMA WorkerSimulates ==
  ASSUME IInv, WorkerStep \/ EnqueueLocal
  PROVE  [Contract!ENext]_(Contract!evars)
<1>1. UNCHANGED <<atomicAbort, Closed>>
  BY DEF WorkerStep, EnqueueLocal, DrainQueue, Acquire, PopTask, FinishTask, aborts, others, Closed
<1>2. CASE DrainQueue \/ Acquire
  BY <1>1, <1>2 DEF DrainQueue, Acquire, tasks, Contract!evars
<1>3. CASE PopTask
  <2>1. CASE privateQueue = <<>>
    BY <1>1, <1>3, <2>1 DEF PopTask, Contract!evars
  <2>2. CASE privateQueue # <<>>
    <3> DEFINE h == Head(privateQueue)
    <3>1. h \in Tasks /\ fate[h] = "queued"
      BY <2>2, TailOfQueue DEF IInv, TypeOK, QueuesHoldQueued, Queued
    <3>2. CASE privateAbort /\ fate' = [fate EXCEPT ![h] = "destroyed"]
      <4>1. atomicAbort
        BY <3>2 DEF IInv, ShutDownByOne
      <4>2. fate' = [t \in Tasks |-> IF t \in {h} THEN "destroyed" ELSE fate[t]]
        BY <3>1, <3>2 DEF IInv, TypeOK
      <4>3. Contract!Destroy
        BY <1>1, <3>1, <4>1, <4>2 DEF Contract!Destroy
      <4> QED
        BY <4>3 DEF Contract!ENext
    <3>3. CASE fate' = [fate EXCEPT ![h] = "running"]
      BY <1>1, <3>1, <3>3 DEF Contract!Start, Contract!ENext
    <3> QED
      BY <1>3, <2>2, <3>2, <3>3 DEF PopTask
  <2> QED
    BY <2>1, <2>2
<1>4. CASE FinishTask
  <2>1. current \in Tasks /\ fate[current] = "running"
    BY <1>4, WorkerAssumption DEF FinishTask, IInv, TypeOK, FatesInOrder
  <2> QED
    BY <1>1, <1>4, <2>1 DEF FinishTask, Contract!Finish, Contract!ENext
<1>5. CASE EnqueueLocal
  <2>1. ~Closed /\ (privateAbort => atomicAbort)
    BY <1>5 DEF EnqueueLocal, Closed, IInv, ShutDownByOne
  <2>2. PICK n \in Sizes : \/ privateAbort /\ Offer(n, "refused")
                           \/ Offer(n, "queued")
    BY <1>5 DEF EnqueueLocal
  <2> QED
    BY <1>1, <2>1, <2>2, OfferSimulates
<1> QED
  BY <1>2, <1>3, <1>4, <1>5 DEF WorkerStep

LEMMA ProducerSimulates ==
  ASSUME NEW p \in Producers, IInv, EnqueueForeign(p) \/ RefuseForeign(p) \/ Release(p)
  PROVE  [Contract!ENext]_(Contract!evars)
<1>1. UNCHANGED <<atomicAbort, Closed>>
  BY DEF EnqueueForeign, RefuseForeign, Release, aborts, others, Closed
<1>2. CASE EnqueueForeign(p)
  <2>1. ~Closed
    BY <1>2 DEF EnqueueForeign, Closed, IInv, ShutDownByOne
  <2> QED
    BY <1>1, <1>2, <2>1, OfferSimulates DEF EnqueueForeign
<1>3. CASE RefuseForeign(p)
  <2>1. atomicAbort
    BY <1>3 DEF RefuseForeign, IInv, ShutDownByOne
  <2> QED
    BY <1>1, <1>3, <2>1, OfferSimulates DEF RefuseForeign
<1>4. CASE Release(p)
  BY <1>1, <1>4 DEF Release, tasks, Contract!evars
<1> QED
  BY <1>2, <1>3, <1>4

LEMMA CloserSimulates ==
  ASSUME NEW s \in Closers, IInv, ShutDown(s) \/ CloserStep(s)
  PROVE  [Contract!ENext]_(Contract!evars)
<1>1. CASE ShutDown(s)
  <2>1. UNCHANGED <<fate, Closed>> /\ atomicAbort' = TRUE
    BY <1>1 DEF ShutDown, tasks, Closed, IInv, TypeOK
  <2> QED
    BY <2>1 DEF Contract!Request, Contract!ENext
<1>2. CASE SetPublicAbort(s) \/ SetPrivateAbort(s) \/ ReleaseForAbort(s) \/ Join(s)
  <2>1. UNCHANGED <<fate, atomicAbort, Closed>>
    BY <1>2 DEF SetPublicAbort, SetPrivateAbort, ReleaseForAbort, Join, aborts, tasks, Closed,
                IInv, TypeOK
  <2> QED
    BY <2>1 DEF Contract!evars
<1>3. CASE ClearQueues(s)
  <2>1. /\ atomicAbort /\ current = 0 /\ \A t \in Tasks : fate[t] # "running"
    BY <1>3, WorkerAssumption DEF ClearQueues, IInv, TypeOK, ShutDownByOne, FatesInOrder, Tasks
  <2>2. fate' = [t \in Tasks |-> IF t \in Queued THEN "destroyed" ELSE fate[t]]
    BY <1>3 DEF ClearQueues, IInv, QueuesHoldQueued
  <2>3. fate' = [t \in Tasks |-> CASE fate[t] = "queued" -> "destroyed"
                                   [] fate[t] = "running" -> "executed"
                                   [] OTHER -> fate[t]]
    BY <2>1, <2>2 DEF Queued
  <2>4. Closed' = TRUE /\ UNCHANGED atomicAbort
    BY <1>3 DEF ClearQueues, Closed, IInv, TypeOK, aborts
  <2> QED
    BY <2>1, <2>3, <2>4 DEF Contract!Close, Contract!ENext
<1> QED
  BY <1>1, <1>2, <1>3 DEF CloserStep

(* The safety part of ImplementsContract: whatever the interleaving of     *)
(* foreign and local enqueues, the worker and ShutDown, each task is run   *)
(* or, after a shutdown was requested, destroyed, once; a task is refused  *)
(* only then; and when ShutDown has returned nothing is left and nothing   *)
(* comes any more.                                                         *)
THEOREM KeepsContract ==
  Spec => Contract!EInit /\ [][Contract!ENext]_(Contract!evars)
<1>1. Init => Contract!EInit
  BY DEF Init, Contract!EInit, Closed
<1>2. IInv /\ [Next]_vars => [Contract!ENext]_(Contract!evars)
  <2>1. CASE Quiet \/ UNCHANGED vars
    BY <2>1 DEF Quiet, vars, Contract!evars, Closed
  <2> QED
    BY <2>1, ProducerSimulates, WorkerSimulates, CloserSimulates DEF Next
<1> QED
  BY <1>1, <1>2, Invariance, PTL DEF Spec

-----------------------------------------------------------------------------
(* The manual executor.                                                    *)

CONSTANTS Users, MaxCalls

(* The names that both executors have - N, atomicAbort, offered, fate -    *)
(* stand for the manual executor's own in what follows.                    *)
VARIABLES queue, abort, pc, call, count, running, taken, calls, cleared

Manual == INSTANCE ManualExecutor

Fates == {"new", "queued", "running", "executed", "destroyed", "refused"}

(* Where the tasks are that were accepted and not started: in m_lstTasks,  *)
(* once, or with the one call of Clear or ShutDown that has taken them.    *)
TasksInPlace ==
  /\ \A j, k \in DOMAIN queue : queue[j] = queue[k] => j = k
  /\ \A u \in Users : Manual!In(queue) \cap taken[u] = {}
  /\ \A u, v \in Users : u # v => taken[u] \cap taken[v] = {}
  /\ \A t \in Manual!Tasks :
       fate[t] = "queued" <=> t \in Manual!In(queue) \/ \E u \in Users : t \in taken[u]
  /\ \A t \in Manual!Tasks : t > offered => fate[t] = "new"

(* Each task that runs is run by one thread.                               *)
RunsInPlace ==
  /\ \A u \in Users : running[u] # Manual!None => fate[running[u]] = "running"
  /\ \A u, v \in Users : running[u] # Manual!None /\ running[u] = running[v] => u = v
  /\ \A t \in Manual!Tasks : fate[t] = "running" => \E u \in Users : running[u] = t

(* What a thread holds where it is: a task only inside a call of Loop that *)
(* may still run one, tasks to destroy only until it has destroyed them.   *)
ThreadInOrder(u) ==
  /\ pc[u] = "run" => running[u] # Manual!None
  /\ pc[u] \in {"idle", "loop", "sleep", "late"} => running[u] = Manual!None
  /\ running[u] # Manual!None => call[u] \in Manual!Looping /\ count[u] > 0
  /\ pc[u] = "sleep" => count[u] > 0
  /\ pc[u] = "loop" /\ call[u] \notin Manual!Looping => count[u] > 0
  /\ taken[u] # {} => pc[u] \in {"destroy", "notifyAbort"} /\ (atomicAbort \/ cleared)

ThreadsInOrder == \A u \in Users : ThreadInOrder(u)

(* One caller of ShutDown goes on from the atomic flag to the other, which *)
(* it sets in the critical section that empties the queue for good.        *)
ShutDownOnce ==
  /\ \A u \in Users : pc[u] = "abort" => atomicAbort /\ ~abort
  /\ \A u, v \in Users : pc[u] = "abort" /\ pc[v] = "abort" => u = v
  /\ atomicAbort => abort \/ \E u \in Users : pc[u] = "abort"
  /\ abort => atomicAbort /\ queue = <<>>
  /\ \A u \in Users : pc[u] = "notifyAbort" => abort

(* The last part of NoTaskLost.                                            *)
SleepersNotified ==
  \A u \in Users :
    pc[u] = "sleep" /\ Manual!Predicate(u)
      => \E v \in Users : pc[v] \in {"notify", "notifyAbort"}

ManualIInv ==
  /\ Manual!TypeOK /\ TasksInPlace /\ RunsInPlace /\ ThreadsInOrder /\ ShutDownOnce
  /\ SleepersNotified

-----------------------------------------------------------------------------
(* The types, variable by variable, and what follows for a queue.          *)
LEMMA Types ==
  ASSUME Manual!TypeOK
  PROVE  /\ queue \in Seq(Manual!Tasks) /\ abort \in BOOLEAN /\ atomicAbort \in BOOLEAN
         /\ cleared \in BOOLEAN /\ offered \in 0 .. N
         /\ pc \in [Users -> Manual!PCs] /\ call \in [Users -> Manual!Calls]
         /\ count \in [Users -> Nat] /\ running \in [Users -> Manual!Tasks \cup {Manual!None}]
         /\ taken \in [Users -> SUBSET Manual!Tasks] /\ fate \in [Manual!Tasks -> Fates]
         /\ N \in Nat \ {0} /\ Manual!None \notin Manual!Tasks
         /\ Len(queue) \in Nat /\ DOMAIN queue = 1 .. Len(queue)
         /\ Manual!In(queue) \subseteq Manual!Tasks
<1>1. queue \in Seq(Manual!Tasks)
  BY DEF Manual!TypeOK
<1>2. /\ Len(queue) \in Nat /\ DOMAIN queue = 1 .. Len(queue)
      /\ \A k \in DOMAIN queue : queue[k] \in Manual!Tasks
  BY <1>1
<1>3. Manual!None \notin Manual!Tasks /\ N \in Nat \ {0}
  BY WorkerAssumption DEF Manual!None, Manual!Tasks
<1>. QED  BY <1>1, <1>2, <1>3 DEF Manual!TypeOK, Manual!In, Fates

(* A span of tasks at the end of the queue.                                *)
WithSpan(n) == queue \o [k \in 1 .. n |-> offered + k]

LEMMA SpanAppended ==
  ASSUME Manual!TypeOK, NEW n \in 1 .. N - offered, NEW q, q = WithSpan(n)
  PROVE  /\ q \in Seq(Manual!Tasks) /\ offered + n \in 0 .. N
         /\ offered + 1 .. offered + n \subseteq Manual!Tasks
         /\ Len(q) = Len(queue) + n /\ DOMAIN q = 1 .. Len(queue) + n
         /\ \A k \in DOMAIN q :
              q[k] = IF k <= Len(queue) THEN queue[k] ELSE offered + (k - Len(queue))
         /\ Manual!In(q) = Manual!In(queue) \cup offered + 1 .. offered + n
<1> DEFINE span == [k \in 1 .. n |-> offered + k]
<1>1. /\ queue \in Seq(Manual!Tasks) /\ Len(queue) \in Nat /\ DOMAIN queue = 1 .. Len(queue)
      /\ offered \in 0 .. N /\ N \in Nat \ {0}
  BY Types
<1>2. n \in Nat \ {0} /\ offered \in Nat /\ offered + n \in 0 .. N
      /\ offered + 1 .. offered + n \subseteq Manual!Tasks
  BY <1>1 DEF Manual!Tasks
<1>3. \A k \in 1 .. n : offered + k \in Manual!Tasks
  BY <1>1, <1>2 DEF Manual!Tasks
<1>4. span \in Seq(Manual!Tasks) /\ Len(span) = n /\ \A k \in 1 .. n : span[k] = offered + k
  BY <1>2, <1>3
<1> HIDE DEF span
<1>5. q = queue \o span
  BY DEF span, WithSpan
<1>6. /\ q \in Seq(Manual!Tasks) /\ Len(q) = Len(queue) + n /\ DOMAIN q = 1 .. Len(queue) + n
      /\ \A k \in 1 .. Len(queue) + n :
           q[k] = IF k <= Len(queue) THEN queue[k] ELSE span[k - Len(queue)]
  <2>1. queue \in Seq(Manual!Tasks) /\ span \in Seq(Manual!Tasks) /\ Len(span) = n
    BY <1>1, <1>4
  <2>2. /\ queue \o span \in Seq(Manual!Tasks) /\ Len(queue \o span) = Len(queue) + Len(span)
        /\ DOMAIN (queue \o span) = 1 .. Len(queue) + Len(span)
        /\ \A k \in 1 .. Len(queue) + Len(span) :
             (queue \o span)[k] = IF k <= Len(queue) THEN queue[k] ELSE span[k - Len(queue)]
    BY <2>1
  <2>. QED  BY ONLY <1>5, <2>1, <2>2
<1>7. \A k \in DOMAIN q :
        q[k] = IF k <= Len(queue) THEN queue[k] ELSE offered + (k - Len(queue))
  BY <1>1, <1>2, <1>4, <1>6
<1>8. Manual!In(q) \subseteq Manual!In(queue) \cup offered + 1 .. offered + n
  <2> SUFFICES ASSUME NEW k \in DOMAIN q
               PROVE  q[k] \in Manual!In(queue) \cup offered + 1 .. offered + n
    BY DEF Manual!In
  <2>1. CASE k <= Len(queue)
    <3>1. k \in DOMAIN queue /\ q[k] = queue[k]
      BY <1>1, <1>6, <1>7, <2>1
    <3>. QED  BY <3>1 DEF Manual!In
  <2>2. CASE k > Len(queue)
    BY <1>1, <1>2, <1>6, <1>7, <2>2
  <2>. QED  BY <1>1, <1>6, <2>1, <2>2
<1>9. Manual!In(queue) \subseteq Manual!In(q)
  <2>1. \A k \in DOMAIN queue : k \in DOMAIN q /\ q[k] = queue[k]
    BY <1>1, <1>2, <1>6, <1>7
  <2>. QED  BY <2>1 DEF Manual!In
<1>10. ASSUME NEW t \in offered + 1 .. offered + n PROVE t \in Manual!In(q)
  <2>1. PICK k \in DOMAIN q : k = Len(queue) + (t - offered)
    BY <1>1, <1>2, <1>6
  <2>2. q[k] = t
    BY <1>1, <1>2, <1>7, <2>1
  <2>. QED  BY <2>2 DEF Manual!In
<1>. QED  BY <1>2, <1>6, <1>7, <1>8, <1>9, <1>10

LEMMA HeadTaken ==
  ASSUME NEW q \in Seq(Manual!Tasks), q # <<>>, \A j, k \in DOMAIN q : q[j] = q[k] => j = k
  PROVE  /\ Head(q) \in Manual!In(q) /\ Head(q) \in Manual!Tasks /\ Tail(q) \in Seq(Manual!Tasks)
         /\ Len(Tail(q)) = Len(q) - 1
         /\ \A j, k \in DOMAIN Tail(q) : Tail(q)[j] = Tail(q)[k] => j = k
         /\ Manual!In(Tail(q)) = Manual!In(q) \ {Head(q)}
<1>1. /\ Len(q) \in Nat \ {0} /\ DOMAIN q = 1 .. Len(q) /\ Head(q) = q[1]
      /\ Head(q) \in Manual!Tasks /\ Tail(q) \in Seq(Manual!Tasks)
      /\ Len(Tail(q)) = Len(q) - 1 /\ DOMAIN Tail(q) = 1 .. Len(q) - 1
      /\ \A k \in 1 .. Len(q) - 1 : Tail(q)[k] = q[k + 1]
  OBVIOUS
<1>2. Head(q) \in Manual!In(q)
  BY <1>1 DEF Manual!In
<1>3. \A j, k \in DOMAIN Tail(q) : Tail(q)[j] = Tail(q)[k] => j = k
  BY <1>1
<1>4. Manual!In(Tail(q)) \subseteq Manual!In(q) \ {Head(q)}
  BY <1>1 DEF Manual!In
<1>5. ASSUME NEW k \in DOMAIN q, q[k] # Head(q) PROVE q[k] \in Manual!In(Tail(q))
  <2>1. k - 1 \in DOMAIN Tail(q) /\ Tail(q)[k - 1] = q[k]
    BY <1>1, <1>5
  <2>. QED  BY <2>1 DEF Manual!In
<1>6. Manual!In(q) \ {Head(q)} \subseteq Manual!In(Tail(q))
  BY <1>5 DEF Manual!In
<1>. QED  BY <1>1, <1>2, <1>3, <1>4, <1>6

-----------------------------------------------------------------------------
(* The invariant holds initially.                                          *)
LEMMA ManualInitIInv == ASSUME Manual!ManualAssumption, Manual!Init PROVE ManualIInv
<1> USE DEF Manual!Init
<1>1. <<>> \in Seq(Manual!Tasks) /\ Manual!In(<<>>) = {} /\ Len(<<>>) = 0
  BY DEF Manual!In
<1>2. Manual!TypeOK
  <2>1. calls \in 0 .. MaxCalls /\ offered \in 0 .. N
    BY DEF Manual!ManualAssumption
  <2>2. /\ pc \in [Users -> Manual!PCs] /\ call \in [Users -> Manual!Calls]
        /\ count \in [Users -> Nat]
        /\ taken \in [Users -> SUBSET Manual!Tasks]
    BY DEF Manual!PCs, Manual!Calls
  <2>3. fate \in [Manual!Tasks -> Fates] /\ running \in [Users -> Manual!Tasks \cup {Manual!None}]
    BY DEF Fates
  <2>. QED  BY <1>1, <2>1, <2>2, <2>3 DEF Manual!TypeOK, Fates
<1>3. TasksInPlace
  BY <1>1 DEF TasksInPlace
<1>4. RunsInPlace /\ ThreadsInOrder /\ ShutDownOnce /\ SleepersNotified
  BY DEF RunsInPlace, ThreadsInOrder, ThreadInOrder, ShutDownOnce, SleepersNotified
<1>. QED  BY <1>2, <1>3, <1>4 DEF ManualIInv

(* A step that leaves every task where it is.                              *)
LEMMA TasksStay ==
  ASSUME TasksInPlace, RunsInPlace, UNCHANGED <<queue, running, taken, Manual!tasks>>
  PROVE  TasksInPlace' /\ RunsInPlace'
BY DEF TasksInPlace, RunsInPlace, Manual!tasks

(* A thread goes from x to y and touches nothing that is shared.           *)
LEMMA ThreadMoves ==
  ASSUME ManualIInv, NEW u \in Users, NEW y \in Manual!PCs,
         pc' = [pc EXCEPT ![u] = y],
         UNCHANGED <<Manual!shared, running, taken, Manual!tasks, cleared>>,
         Manual!TypeOK', ThreadInOrder(u)',
         \A v \in Users : v # u => call'[v] = call[v] /\ count'[v] = count[v],
         pc[u] \notin {"notify", "notifyAbort", "abort"},
         y \notin {"abort", "notifyAbort"},
         y = "sleep" => ~Manual!Predicate(u)'
  PROVE  ManualIInv'
<1>1. /\ Manual!TypeOK /\ TasksInPlace /\ RunsInPlace
      /\ ThreadsInOrder /\ ShutDownOnce /\ SleepersNotified
  BY DEF ManualIInv
<1>2. pc'[u] = y /\ \A v \in Users : v # u => pc'[v] = pc[v]
  BY <1>1, Types
<1>3. TasksInPlace' /\ RunsInPlace'
  BY <1>1, TasksStay DEF Manual!shared
<1>4. ThreadsInOrder'
  BY <1>1, <1>2 DEF ThreadsInOrder, ThreadInOrder, Manual!shared
<1>5. ShutDownOnce'
  BY <1>1, <1>2 DEF ShutDownOnce, Manual!shared
<1>6. SleepersNotified'
  <2> SUFFICES ASSUME NEW v \in Users, pc'[v] = "sleep", Manual!Predicate(v)'
               PROVE  \E w \in Users : pc'[w] \in {"notify", "notifyAbort"}
    BY DEF SleepersNotified
  <2>1. v # u
    BY <1>2
  <2>2. pc[v] = "sleep" /\ Manual!Predicate(v)
    BY <1>2, <2>1 DEF Manual!Predicate, Manual!shared
  <2>3. PICK w \in Users : pc[w] \in {"notify", "notifyAbort"}
    BY <1>1, <2>2 DEF SleepersNotified
  <2>. QED  BY <1>2, <2>3
<1>. QED  BY <1>1, <1>3, <1>4, <1>5, <1>6 DEF ManualIInv

LEMMA ReturnIInv ==
  ASSUME ManualIInv, NEW u \in Users, pc[u] \in {"loop", "late"}, Manual!Return(u),
         UNCHANGED <<Manual!shared, running, taken, calls, Manual!tasks, cleared>>
  PROVE  ManualIInv'
<1>1. Manual!TypeOK /\ ThreadInOrder(u)
  BY DEF ManualIInv, ThreadsInOrder
<1>2. /\ pc'[u] = "idle" /\ call'[u] = "Other" /\ count'[u] = 0
      /\ \A v \in Users : v # u => call'[v] = call[v] /\ count'[v] = count[v]
  BY <1>1, Types DEF Manual!Return
<1>3. Manual!TypeOK'
  BY <1>1 DEF Manual!TypeOK, Manual!Return, Manual!shared, Manual!tasks, Manual!PCs, Manual!Calls
<1>4. ThreadInOrder(u)'
  BY <1>1, <1>2 DEF ThreadInOrder, Manual!shared
<1>5. "idle" \in Manual!PCs
  BY DEF Manual!PCs
<1>. QED  BY <1>2, <1>3, <1>4, <1>5, ThreadMoves DEF Manual!Return

LEMMA CallIInv ==
  ASSUME Manual!ManualAssumption, ManualIInv, NEW u \in Users, Manual!Call(u)
  PROVE  ManualIInv'
<1>1. Manual!TypeOK /\ ThreadInOrder(u)
  BY DEF ManualIInv, ThreadsInOrder
<1>2. PICK c \in Manual!Calls \ {"Other"}, n \in 1 .. N :
        call' = [call EXCEPT ![u] = c] /\ count' = [count EXCEPT ![u] = n]
  BY DEF Manual!Call
<1>3. /\ pc'[u] = "loop" /\ call'[u] = c /\ count'[u] = n /\ n \in Nat \ {0}
      /\ pc[u] = "idle" /\ running' = running /\ taken' = taken
      /\ \A v \in Users : v # u => call'[v] = call[v] /\ count'[v] = count[v]
  BY <1>1, <1>2, Types DEF Manual!Call
<1>4. "loop" \in Manual!PCs
  BY DEF Manual!PCs
<1>5. Manual!TypeOK'
  <2>1. calls' \in 0 .. MaxCalls
    BY <1>1, Manual!ManualAssumption DEF Manual!ManualAssumption, Manual!TypeOK, Manual!Call,
                                         Manual!Counted
  <2>2. /\ pc' \in [Users -> Manual!PCs] /\ call' \in [Users -> Manual!Calls]
        /\ count' \in [Users -> Nat]
    BY <1>1, <1>2, <1>3, <1>4, Types DEF Manual!Call
  <2>. QED  BY <1>1, <2>1, <2>2 DEF Manual!TypeOK, Manual!Call, Manual!shared, Manual!tasks
<1>6. ThreadInOrder(u)'
  BY <1>1, <1>3 DEF ThreadInOrder
<1>. QED  BY <1>3, <1>4, <1>5, <1>6, ThreadMoves DEF Manual!Call

LEMMA SleepIInv == ASSUME ManualIInv, NEW u \in Users, Manual!Sleep(u) PROVE ManualIInv'
<1>1. Manual!TypeOK /\ ThreadInOrder(u)
  BY DEF ManualIInv, ThreadsInOrder
<1>2. pc'[u] = "sleep" /\ pc[u] = "loop" /\ "sleep" \in Manual!PCs
  BY <1>1, Types DEF Manual!Sleep, Manual!PCs
<1>3. Manual!TypeOK'
  BY <1>1, <1>2 DEF Manual!TypeOK, Manual!Sleep, Manual!shared, Manual!tasks
<1>4. ThreadInOrder(u)'
  BY <1>1, <1>2 DEF ThreadInOrder, Manual!Sleep, Manual!shared
<1>5. ~Manual!Predicate(u)'
  BY DEF Manual!Sleep, Manual!Predicate, Manual!shared
<1>. QED  BY <1>2, <1>3, <1>4, <1>5, ThreadMoves DEF Manual!Sleep

LEMMA TimeOutIInv == ASSUME ManualIInv, NEW u \in Users, Manual!TimeOut(u) PROVE ManualIInv'
<1>1. Manual!TypeOK /\ ThreadInOrder(u)
  BY DEF ManualIInv, ThreadsInOrder
<1>2. pc'[u] = "late" /\ pc[u] = "sleep" /\ "late" \in Manual!PCs
  BY <1>1, Types DEF Manual!TimeOut, Manual!PCs
<1>3. Manual!TypeOK'
  BY <1>1, <1>2 DEF Manual!TypeOK, Manual!TimeOut, Manual!shared, Manual!tasks
<1>4. ThreadInOrder(u)'
  BY <1>1, <1>2 DEF ThreadInOrder, Manual!TimeOut, Manual!shared
<1>. QED  BY <1>2, <1>3, <1>4, ThreadMoves DEF Manual!TimeOut

(* Where a call returns that a task may have made.                         *)
LEMMA BackInCall ==
  ASSUME Manual!TypeOK, NEW u \in Users
  PROVE  /\ Manual!Back(u) \in {"idle", "run"} /\ Manual!Back(u) \in Manual!PCs
         /\ Manual!Back(u) = "run" <=> running[u] # Manual!None
BY DEF Manual!Back, Manual!PCs

(* Whoever slept looks at its predicate again.                             *)
LEMMA NotifyIInv ==
  ASSUME ManualIInv, NEW u \in Users,
         NEW y \in Manual!PCs \ {"sleep", "loop", "abort", "notifyAbort"},
         pc[u] \in {"notify", "notifyAbort"}, pc' = [Manual!Woken(pc) EXCEPT ![u] = y],
         UNCHANGED <<Manual!shared, call, count, running, taken, calls, Manual!tasks, cleared>>,
         ThreadInOrder(u)'
  PROVE  ManualIInv'
<1>1. Manual!TypeOK /\ TasksInPlace /\ RunsInPlace /\ ThreadsInOrder /\ ShutDownOnce
  BY DEF ManualIInv
<1>2. Manual!Woken(pc) \in [Users -> Manual!PCs]
  BY <1>1, Types DEF Manual!Woken, Manual!PCs
<1>3. /\ pc'[u] = y /\ pc' \in [Users -> Manual!PCs]
      /\ \A v \in Users : v # u => pc'[v] = IF pc[v] = "sleep" THEN "loop" ELSE pc[v]
  BY <1>2 DEF Manual!Woken
<1>4. Manual!TypeOK'
  BY <1>1, <1>3 DEF Manual!TypeOK, Manual!shared, Manual!tasks
<1>5. TasksInPlace' /\ RunsInPlace'
  BY <1>1, TasksStay DEF Manual!shared
<1>6. ThreadsInOrder'
  <2> SUFFICES ASSUME NEW v \in Users, v # u PROVE ThreadInOrder(v)'
    BY DEF ThreadsInOrder
  <2>1. ThreadInOrder(v)
    BY <1>1 DEF ThreadsInOrder
  <2>. QED  BY <1>3, <2>1 DEF ThreadInOrder, Manual!shared
<1>7. ShutDownOnce'
  <2>1. \A v \in Users : pc'[v] = "abort" <=> pc[v] = "abort"
    BY <1>3
  <2>2. \A v \in Users : pc'[v] = "notifyAbort" => pc[v] = "notifyAbort"
    BY <1>3
  <2>. QED  BY <1>1, <2>1, <2>2 DEF ShutDownOnce, Manual!shared
<1>8. SleepersNotified'
  BY <1>3 DEF SleepersNotified
<1>. QED  BY <1>4, <1>5, <1>6, <1>7, <1>8 DEF ManualIInv

LEMMA NotifyAllIInv == ASSUME ManualIInv, NEW u \in Users, Manual!NotifyAll(u) PROVE ManualIInv'
<1>1. Manual!TypeOK /\ ThreadInOrder(u)
  BY DEF ManualIInv, ThreadsInOrder
<1>2. Manual!Back(u) \in Manual!PCs \ {"sleep", "loop", "abort", "notifyAbort"}
  BY <1>1, BackInCall
<1>3. pc'[u] = Manual!Back(u)
  BY <1>1, Types DEF Manual!NotifyAll, Manual!Woken
<1>4. ThreadInOrder(u)'
  BY <1>1, <1>3, BackInCall DEF ThreadInOrder, Manual!NotifyAll, Manual!shared
<1>. QED  BY <1>2, <1>4, NotifyIInv DEF Manual!NotifyAll

LEMMA NotifyAbortIInv == ASSUME ManualIInv, NEW u \in Users, Manual!NotifyAbort(u) PROVE ManualIInv'
<1>1. Manual!TypeOK /\ ThreadInOrder(u)
  BY DEF ManualIInv, ThreadsInOrder
<1>2. "destroy" \in Manual!PCs \ {"sleep", "loop", "abort", "notifyAbort"}
  BY DEF Manual!PCs
<1>3. pc'[u] = "destroy"
  BY <1>1, Types DEF Manual!NotifyAbort, Manual!Woken
<1>4. ThreadInOrder(u)'
  BY <1>1, <1>3 DEF ThreadInOrder, Manual!NotifyAbort, Manual!shared
<1>. QED  BY <1>2, <1>4, NotifyIInv DEF Manual!NotifyAbort

-----------------------------------------------------------------------------
(* The steps that move tasks.                                              *)

(* Enqueue accepts a span or refuses it.                                   *)
LEMMA EnqueueIInv ==
  ASSUME Manual!ManualAssumption, ManualIInv, NEW u \in Users, Manual!Enqueue(u)
  PROVE  ManualIInv'
<1>1. /\ Manual!TypeOK /\ TasksInPlace /\ RunsInPlace
      /\ ThreadsInOrder /\ ShutDownOnce /\ SleepersNotified
  BY DEF ManualIInv
<1>2. PICK n \in 1 .. N - offered :
        /\ offered' = offered + n
        /\ IF abort
           THEN /\ Manual!Becomes(offered + 1 .. offered + n, "refused")
                /\ UNCHANGED <<queue, pc>>
           ELSE /\ Manual!Becomes(offered + 1 .. offered + n, "queued")
                /\ queue' = queue \o [k \in 1 .. n |-> offered + k]
                /\ pc' = [pc EXCEPT ![u] = "notify"]
  BY DEF Manual!Enqueue
<1> DEFINE batch == offered + 1 .. offered + n
<1>3. /\ offered \in Nat /\ n \in Nat \ {0} /\ offered + n \in 0 .. N
      /\ batch \subseteq Manual!Tasks /\ \A t \in batch : fate[t] = "new"
      /\ \A t \in Manual!Tasks : t > offered + n => t \notin batch /\ t > offered
  <2>1. /\ offered \in Nat /\ n \in Nat \ {0} /\ offered + n \in 0 .. N
        /\ offered + 1 .. offered + n \subseteq Manual!Tasks
    BY <1>1, Types DEF Manual!Tasks
  <2>2. \A t \in batch : t > offered
    BY <2>1
  <2>3. \A t \in Manual!Tasks : t > offered + n => t \notin batch /\ t > offered
    BY <2>1 DEF Manual!Tasks
  <2>. QED  BY <1>1, <2>1, <2>2, <2>3 DEF TasksInPlace
<1>4. calls' \in 0 .. MaxCalls
  BY <1>1, Manual!ManualAssumption DEF Manual!ManualAssumption, Manual!TypeOK, Manual!Enqueue,
                                       Manual!Free, Manual!Counted
<1>5. \A t \in Manual!Tasks : t \in batch =>
        /\ t \notin Manual!In(queue) /\ \A v \in Users : t \notin taken[v] /\ running[v] # t
  <2> SUFFICES ASSUME NEW t \in Manual!Tasks, t \in batch
               PROVE  /\ t \notin Manual!In(queue)
                      /\ \A v \in Users : t \notin taken[v] /\ running[v] # t
    OBVIOUS
  <2>1. fate[t] = "new" /\ t # Manual!None
    BY <1>1, <1>3, Types
  <2>2. t \notin Manual!In(queue) /\ \A v \in Users : t \notin taken[v]
    BY <1>1, <2>1 DEF TasksInPlace
  <2>. QED  BY <1>1, <2>1, <2>2 DEF RunsInPlace
<1>6. UNCHANGED <<abort, atomicAbort, call, count, running, taken, cleared>>
  BY DEF Manual!Enqueue
<1>7. pc[u] \in {"idle", "run"}
  BY DEF Manual!Enqueue, Manual!Free
<1>8. CASE abort
  <2>1. /\ UNCHANGED <<queue, pc>>
        /\ fate' = [t \in Manual!Tasks |-> IF t \in batch THEN "refused" ELSE fate[t]]
    BY <1>2, <1>8 DEF Manual!Becomes
  <2>2. Manual!TypeOK'
    <3>1. fate' \in [Manual!Tasks -> Fates]
      BY <1>1, <2>1, Types DEF Fates
    <3>. QED  BY <1>1, <1>2, <1>3, <1>4, <1>6, <2>1, <3>1 DEF Manual!TypeOK, Fates
  <2>3. \A t \in Manual!Tasks : fate'[t] = IF t \in batch THEN "refused" ELSE fate[t]
    BY <2>1
  <2>4. TasksInPlace'
    <3>1. \A t \in Manual!Tasks :
            fate'[t] = "queued" <=> t \in Manual!In(queue) \/ \E v \in Users : t \in taken[v]
      BY <1>1, <1>3, <2>3 DEF TasksInPlace
    <3>2. \A t \in Manual!Tasks : t > offered' => fate'[t] = "new"
      BY <1>1, <1>2, <1>3, <2>3 DEF TasksInPlace
    <3>. QED  BY <1>1, <1>6, <2>1, <3>1, <3>2 DEF TasksInPlace
  <2>5. RunsInPlace'
    <3>1. \A t \in Manual!Tasks : fate'[t] = "running" <=> fate[t] = "running"
      BY <1>3, <2>3
    <3>2. \A v \in Users : running[v] # Manual!None => running[v] \in Manual!Tasks
      BY <1>1, Types
    <3>. QED  BY <1>1, <1>6, <3>1, <3>2 DEF RunsInPlace
  <2>6. ThreadsInOrder' /\ ShutDownOnce' /\ SleepersNotified'
    BY <1>1, <1>6, <2>1
       DEF ThreadsInOrder, ThreadInOrder, ShutDownOnce, SleepersNotified, Manual!Predicate
  <2>. QED  BY <2>2, <2>4, <2>5, <2>6 DEF ManualIInv
<1>9. CASE ~abort
  <2>1. /\ queue' = queue \o [k \in 1 .. n |-> offered + k]
        /\ pc' = [pc EXCEPT ![u] = "notify"]
        /\ fate' = [t \in Manual!Tasks |-> IF t \in batch THEN "queued" ELSE fate[t]]
    BY <1>2, <1>9 DEF Manual!Becomes
  <2>2. /\ queue' \in Seq(Manual!Tasks) /\ Len(queue') = Len(queue) + n
        /\ DOMAIN queue' = 1 .. Len(queue) + n
        /\ \A k \in DOMAIN queue' :
             queue'[k] = IF k <= Len(queue) THEN queue[k] ELSE offered + (k - Len(queue))
        /\ Manual!In(queue') = Manual!In(queue) \cup batch
    <3>1. Manual!TypeOK /\ queue' = WithSpan(n)
      BY <1>1, <2>1 DEF WithSpan
    <3>. QED  BY <3>1, SpanAppended
  <2>3. /\ pc'[u] = "notify" /\ \A v \in Users : v # u => pc'[v] = pc[v]
        /\ \A t \in Manual!Tasks : fate'[t] = IF t \in batch THEN "queued" ELSE fate[t]
    BY <1>1, <2>1, Types
  <2>4. Manual!TypeOK'
    <3>1. fate' \in [Manual!Tasks -> Fates]
      BY <1>1, <2>1, Types DEF Fates
    <3>2. pc' \in [Users -> Manual!PCs]
      BY <1>1, <2>1, Types DEF Manual!PCs
    <3>. QED  BY <1>1, <1>2, <1>3, <1>4, <1>6, <2>2, <3>1, <3>2 DEF Manual!TypeOK, Fates
  <2>5. TasksInPlace'
    <3>1. \A j, k \in DOMAIN queue' : queue'[j] = queue'[k] => j = k
      <4> SUFFICES ASSUME NEW j \in DOMAIN queue', NEW k \in DOMAIN queue',
                          j <= k, queue'[j] = queue'[k]
                   PROVE  j = k
        BY <1>1, <1>3, <2>2, Types
      <4>1. Len(queue) \in Nat /\ DOMAIN queue = 1 .. Len(queue) /\ j \in Nat /\ k \in Nat
        BY <1>1, <1>3, <2>2, Types
      <4>2. CASE k <= Len(queue)
        BY <1>1, <2>2, <4>1, <4>2 DEF TasksInPlace
      <4>3. CASE j > Len(queue)
        BY <1>3, <2>2, <4>1, <4>3
      <4>4. CASE j <= Len(queue) /\ k > Len(queue)
        <5>1. queue[j] \in Manual!In(queue) /\ queue[j] = offered + (k - Len(queue))
          BY <2>2, <4>1, <4>4 DEF Manual!In
        <5>2. offered + (k - Len(queue)) \in batch
          BY <1>3, <2>2, <4>1, <4>4
        <5>. QED  BY <1>3, <1>5, <5>1, <5>2
      <4>. QED  BY <4>1, <4>2, <4>3, <4>4
    <3>2. \A v \in Users : Manual!In(queue') \cap taken'[v] = {}
      BY <1>1, <1>3, <1>5, <1>6, <2>2 DEF TasksInPlace
    <3>3. \A t \in Manual!Tasks :
            fate'[t] = "queued" <=> t \in Manual!In(queue') \/ \E v \in Users : t \in taken[v]
      BY <1>1, <2>2, <2>3 DEF TasksInPlace
    <3>4. \A t \in Manual!Tasks : t > offered' => fate'[t] = "new"
      BY <1>1, <1>2, <1>3, <2>3 DEF TasksInPlace
    <3>. QED  BY <1>1, <1>6, <3>1, <3>2, <3>3, <3>4 DEF TasksInPlace, Manual!In
  <2>6. RunsInPlace'
    <3>1. \A t \in Manual!Tasks : fate'[t] = "running" <=> fate[t] = "running"
      BY <1>3, <2>3
    <3>2. \A v \in Users : running[v] # Manual!None => running[v] \in Manual!Tasks
      BY <1>1, Types
    <3>. QED  BY <1>1, <1>6, <3>1, <3>2 DEF RunsInPlace
  <2>7. ThreadsInOrder'
    BY <1>1, <1>6, <1>7, <2>3 DEF ThreadsInOrder, ThreadInOrder
  <2>8. ShutDownOnce'
    BY <1>1, <1>6, <1>7, <1>9, <2>3 DEF ShutDownOnce
  <2>9. SleepersNotified'
    BY <2>3 DEF SleepersNotified
  <2>. QED  BY <2>4, <2>5, <2>6, <2>7, <2>8, <2>9 DEF ManualIInv
<1>. QED  BY <1>8, <1>9

(* A looping thread takes the first task and will run it.                  *)
LEMMA ManualPopTaskIInv == ASSUME ManualIInv, NEW u \in Users, Manual!PopTask(u) PROVE ManualIInv'
<1>1. /\ Manual!TypeOK /\ TasksInPlace /\ RunsInPlace
      /\ ThreadsInOrder /\ ShutDownOnce /\ SleepersNotified
  BY DEF ManualIInv
<1>2. /\ queue # <<>> /\ queue' = Tail(queue) /\ running' = [running EXCEPT ![u] = Head(queue)]
      /\ fate' = [t \in Manual!Tasks |-> IF t \in {Head(queue)} THEN "running" ELSE fate[t]]
      /\ pc' = [pc EXCEPT ![u] = "run"] /\ pc[u] \in {"loop", "late"}
      /\ call[u] \in Manual!Looping /\ count[u] > 0 /\ ~abort
      /\ UNCHANGED <<abort, atomicAbort, call, count, taken, calls, offered, cleared>>
  BY DEF Manual!PopTask, Manual!Becomes
<1>3. PICK h \in Manual!Tasks : h = Head(queue) /\ h \in Manual!In(queue) /\ h # Manual!None
  <2>1. queue \in Seq(Manual!Tasks) /\ \A j, k \in DOMAIN queue : queue[j] = queue[k] => j = k
    BY <1>1, Types DEF TasksInPlace
  <2>2. Head(queue) \in Manual!In(queue) /\ Head(queue) \in Manual!Tasks
    BY <1>2, <2>1, HeadTaken
  <2>. QED  BY <1>1, <2>2, Types
<1>4. /\ queue' \in Seq(Manual!Tasks) /\ Len(queue') = Len(queue) - 1
      /\ \A j, k \in DOMAIN queue' : queue'[j] = queue'[k] => j = k
      /\ Manual!In(queue') = Manual!In(queue) \ {h}
  <2>1. queue \in Seq(Manual!Tasks) /\ \A j, k \in DOMAIN queue : queue[j] = queue[k] => j = k
    BY <1>1, Types DEF TasksInPlace
  <2>2. PICK q : q = Tail(queue)
    OBVIOUS
  <2>3. /\ q \in Seq(Manual!Tasks) /\ Len(q) = Len(queue) - 1
        /\ \A j, k \in DOMAIN q : q[j] = q[k] => j = k
        /\ Manual!In(q) = Manual!In(queue) \ {h}
    BY <1>2, <1>3, <2>1, <2>2, HeadTaken
  <2>4. queue' = q
    BY <1>2, <2>2
  <2>. QED  BY <2>3, <2>4
<1>5. /\ pc'[u] = "run" /\ \A v \in Users : v # u => pc'[v] = pc[v]
      /\ running'[u] = h /\ \A v \in Users : v # u => running'[v] = running[v]
      /\ fate'[h] = "running" /\ \A t \in Manual!Tasks : t # h => fate'[t] = fate[t]
  BY <1>1, <1>2, <1>3, Types
<1>6. fate[h] = "queued" /\ \A v \in Users : h \notin taken[v] /\ running[v] # h
  <2>1. fate[h] = "queued" /\ \A v \in Users : h \notin taken[v]
    BY <1>1, <1>3 DEF TasksInPlace
  <2>. QED  BY <1>1, <1>3, <2>1 DEF RunsInPlace
<1>7. Manual!TypeOK'
  <2>1. fate' \in [Manual!Tasks -> Fates] /\ pc' \in [Users -> Manual!PCs]
        /\ running' \in [Users -> Manual!Tasks \cup {Manual!None}]
    BY <1>1, <1>2, <1>3, Types DEF Fates, Manual!PCs
  <2>. QED  BY <1>1, <1>2, <1>4, <2>1 DEF Manual!TypeOK, Fates
<1>8. TasksInPlace'
  <2>1. \A t \in Manual!Tasks :
          fate'[t] = "queued" <=> t \in Manual!In(queue') \/ \E v \in Users : t \in taken[v]
    BY <1>1, <1>4, <1>5, <1>6 DEF TasksInPlace
  <2>2. \A t \in Manual!Tasks : t > offered => fate'[t] = "new"
    BY <1>1, <1>5, <1>6 DEF TasksInPlace
  <2>3. \A v \in Users : Manual!In(queue') \cap taken[v] = {}
    BY <1>1, <1>4 DEF TasksInPlace
  <2>. QED  BY <1>1, <1>2, <1>4, <2>1, <2>2, <2>3 DEF TasksInPlace, Manual!In
<1>9. RunsInPlace'
  <2>1. \A v \in Users : running[v] # Manual!None => running[v] \in Manual!Tasks
    BY <1>1, Types
  <2>2. \A v \in Users : running'[v] # Manual!None => fate'[running'[v]] = "running"
    BY <1>1, <1>3, <1>5, <2>1 DEF RunsInPlace
  <2>3. \A v, w \in Users : running'[v] # Manual!None /\ running'[v] = running'[w] => v = w
    BY <1>1, <1>3, <1>5, <1>6 DEF RunsInPlace
  <2>4. ASSUME NEW t \in Manual!Tasks, fate'[t] = "running" PROVE \E v \in Users : running'[v] = t
    <3>1. CASE t = h
      BY <1>5, <3>1
    <3>2. CASE t # h
      <4>1. PICK v \in Users : running[v] = t
        BY <1>1, <1>5, <2>4, <3>2 DEF RunsInPlace
      <4>2. v # u
        BY <1>1, <1>2, <4>1, Types DEF ThreadsInOrder, ThreadInOrder
      <4>. QED  BY <1>5, <4>1, <4>2
    <3>. QED  BY <3>1, <3>2
  <2>. QED  BY <2>2, <2>3, <2>4 DEF RunsInPlace
<1>10. ThreadsInOrder'
  <2> SUFFICES ASSUME NEW v \in Users PROVE ThreadInOrder(v)'
    BY DEF ThreadsInOrder
  <2>1. ThreadInOrder(v) /\ ThreadInOrder(u)
    BY <1>1 DEF ThreadsInOrder
  <2>2. CASE v = u
    BY <1>2, <1>3, <1>5, <2>1, <2>2 DEF ThreadInOrder
  <2>3. CASE v # u
    BY <1>2, <1>5, <2>1, <2>3 DEF ThreadInOrder
  <2>. QED  BY <2>2, <2>3
<1>11. ShutDownOnce'
  BY <1>1, <1>2, <1>5 DEF ShutDownOnce
<1>12. SleepersNotified'
  <2> SUFFICES ASSUME NEW v \in Users, pc'[v] = "sleep", Manual!Predicate(v)'
               PROVE  \E w \in Users : pc'[w] \in {"notify", "notifyAbort"}
    BY DEF SleepersNotified
  <2>1. v # u /\ pc[v] = "sleep" /\ count[v] \in Nat /\ Len(queue) \in Nat
    BY <1>1, <1>5, Types
  <2>2. Manual!Predicate(v)
    BY <1>2, <1>4, <2>1 DEF Manual!Predicate
  <2>3. PICK w \in Users : pc[w] \in {"notify", "notifyAbort"}
    BY <1>1, <2>1, <2>2 DEF SleepersNotified
  <2>. QED  BY <1>2, <1>5, <2>3
<1>. QED  BY <1>7, <1>8, <1>9, <1>10, <1>11, <1>12 DEF ManualIInv

LEMMA ManualFinishTaskIInv ==
  ASSUME ManualIInv, NEW u \in Users, Manual!FinishTask(u)
  PROVE  ManualIInv'
<1>1. /\ Manual!TypeOK /\ TasksInPlace /\ RunsInPlace
      /\ ThreadsInOrder /\ ShutDownOnce /\ SleepersNotified
  BY DEF ManualIInv
<1>2. /\ pc[u] = "run" /\ running' = [running EXCEPT ![u] = Manual!None]
      /\ fate' = [t \in Manual!Tasks |-> IF t \in {running[u]} THEN "executed" ELSE fate[t]]
      /\ count' = [count EXCEPT ![u] = count[u] - 1] /\ pc' = [pc EXCEPT ![u] = "loop"]
      /\ UNCHANGED <<Manual!shared, call, taken, calls, offered, cleared>>
  BY DEF Manual!FinishTask, Manual!Becomes
<1>3. PICK h \in Manual!Tasks : /\ h = running[u] /\ fate[h] = "running"
                                /\ \A v \in Users : v # u => running[v] # h
  BY <1>1, <1>2, Types DEF ThreadsInOrder, ThreadInOrder, RunsInPlace
<1>4. call[u] \in Manual!Looping /\ count[u] \in Nat \ {0}
  <2>1. count[u] \in Nat
    BY <1>1, Types
  <2>. QED  BY <1>1, <1>2, <2>1 DEF ThreadsInOrder, ThreadInOrder
<1>5. /\ pc'[u] = "loop" /\ \A v \in Users : v # u => pc'[v] = pc[v]
      /\ running'[u] = Manual!None /\ \A v \in Users : v # u => running'[v] = running[v]
      /\ \A v \in Users : v # u => count'[v] = count[v]
      /\ fate'[h] = "executed" /\ \A t \in Manual!Tasks : t # h => fate'[t] = fate[t]
  BY <1>1, <1>2, <1>3, Types
<1>6. Manual!TypeOK'
  <2>1. fate' \in [Manual!Tasks -> Fates] /\ pc' \in [Users -> Manual!PCs]
        /\ running' \in [Users -> Manual!Tasks \cup {Manual!None}]
    BY <1>1, <1>2, <1>3, Types DEF Fates, Manual!PCs
  <2>2. count' \in [Users -> Nat]
    BY <1>1, <1>2, <1>4, Types
  <2>. QED  BY <1>1, <1>2, <2>1, <2>2 DEF Manual!TypeOK, Fates, Manual!shared
<1>7. TasksInPlace'
  <2>1. \A t \in Manual!Tasks :
          fate'[t] = "queued" <=> t \in Manual!In(queue) \/ \E v \in Users : t \in taken[v]
    BY <1>1, <1>3, <1>5 DEF TasksInPlace
  <2>2. \A t \in Manual!Tasks : t > offered => fate'[t] = "new"
    BY <1>1, <1>3, <1>5 DEF TasksInPlace
  <2>. QED  BY <1>1, <1>2, <2>1, <2>2 DEF TasksInPlace, Manual!shared
<1>8. RunsInPlace'
  <2>1. \A v \in Users : running[v] # Manual!None => running[v] \in Manual!Tasks
    BY <1>1, Types
  <2>2. \A t \in Manual!Tasks : fate'[t] = "running" => t # h /\ fate[t] = "running"
    BY <1>5
  <2>. QED  BY <1>1, <1>3, <1>5, <2>1, <2>2 DEF RunsInPlace
<1>9. ThreadsInOrder'
  <2> SUFFICES ASSUME NEW v \in Users PROVE ThreadInOrder(v)'
    BY DEF ThreadsInOrder
  <2>1. ThreadInOrder(v)
    BY <1>1 DEF ThreadsInOrder
  <2>. QED  BY <1>2, <1>4, <1>5, <2>1 DEF ThreadInOrder, Manual!shared
<1>10. ShutDownOnce'
  BY <1>1, <1>2, <1>5 DEF ShutDownOnce, Manual!shared
<1>11. SleepersNotified'
  <2> SUFFICES ASSUME NEW v \in Users, pc'[v] = "sleep", Manual!Predicate(v)'
               PROVE  \E w \in Users : pc'[w] \in {"notify", "notifyAbort"}
    BY DEF SleepersNotified
  <2>1. v # u /\ pc[v] = "sleep" /\ Manual!Predicate(v)
    BY <1>2, <1>5 DEF Manual!Predicate, Manual!shared
  <2>2. PICK w \in Users : pc[w] \in {"notify", "notifyAbort"}
    BY <1>1, <2>1 DEF SleepersNotified
  <2>. QED  BY <1>2, <1>5, <2>2
<1>. QED  BY <1>6, <1>7, <1>8, <1>9, <1>10, <1>11 DEF ManualIInv

-----------------------------------------------------------------------------
(* Clear and ShutDown.                                                     *)

(* The caller moves the whole queue out, which nobody else has then.       *)
LEMMA QueueMovedOut ==
  ASSUME ManualIInv, NEW u \in Users, taken[u] = {},
         taken' = [taken EXCEPT ![u] = Manual!In(queue)], queue' = <<>>,
         UNCHANGED <<running, Manual!tasks>>
  PROVE  /\ TasksInPlace' /\ RunsInPlace'
         /\ queue' \in Seq(Manual!Tasks) /\ taken' \in [Users -> SUBSET Manual!Tasks]
         /\ taken'[u] = Manual!In(queue) /\ \A v \in Users : v # u => taken'[v] = taken[v]
<1>1. Manual!TypeOK /\ TasksInPlace /\ RunsInPlace
  BY DEF ManualIInv
<1>2. /\ taken' \in [Users -> SUBSET Manual!Tasks]
      /\ taken'[u] = Manual!In(queue) /\ \A v \in Users : v # u => taken'[v] = taken[v]
  BY <1>1, Types
<1>3. queue' \in Seq(Manual!Tasks) /\ Manual!In(queue') = {} /\ DOMAIN queue' = {}
  BY DEF Manual!In
<1>4. RunsInPlace'
  BY <1>1 DEF RunsInPlace, Manual!tasks
<1>5. \A v, w \in Users : v # w => taken'[v] \cap taken'[w] = {}
  BY <1>1, <1>2 DEF TasksInPlace
<1>6. \A t \in Manual!Tasks : (\E v \in Users : t \in taken'[v])
                         <=> t \in Manual!In(queue) \/ \E v \in Users : t \in taken[v]
  BY <1>2
<1>7. \A t \in Manual!Tasks : fate[t] = "queued" <=> \E v \in Users : t \in taken'[v]
  BY <1>1, <1>6 DEF TasksInPlace
<1>8. TasksInPlace'
  BY <1>1, <1>3, <1>5, <1>7 DEF TasksInPlace, Manual!tasks
<1>. QED  BY <1>2, <1>3, <1>4, <1>8

LEMMA ClearIInv ==
  ASSUME Manual!ManualAssumption, ManualIInv, NEW u \in Users, Manual!Clear(u)
  PROVE  ManualIInv'
<1>1. Manual!TypeOK /\ ThreadsInOrder /\ ShutDownOnce /\ SleepersNotified
  BY DEF ManualIInv
<1>2. /\ pc[u] \in {"idle", "run"} /\ ~abort
      /\ taken' = [taken EXCEPT ![u] = Manual!In(queue)] /\ queue' = <<>>
      /\ cleared' = (cleared \/ queue # <<>>) /\ pc' = [pc EXCEPT ![u] = "destroy"]
      /\ UNCHANGED <<abort, atomicAbort, call, count, running, Manual!tasks>>
  BY DEF Manual!Clear, Manual!Free
<1>3. ThreadInOrder(u) /\ taken[u] = {}
  BY <1>1, <1>2 DEF ThreadsInOrder, ThreadInOrder
<1>4. /\ TasksInPlace' /\ RunsInPlace'
      /\ queue' \in Seq(Manual!Tasks) /\ taken' \in [Users -> SUBSET Manual!Tasks]
      /\ taken'[u] = Manual!In(queue) /\ \A v \in Users : v # u => taken'[v] = taken[v]
  BY <1>2, <1>3, QueueMovedOut
<1>5. pc'[u] = "destroy" /\ \A v \in Users : v # u => pc'[v] = pc[v]
  BY <1>1, <1>2, Types
<1>6. Manual!TypeOK'
  <2>1. calls' \in 0 .. MaxCalls
    BY <1>1, Manual!ManualAssumption DEF Manual!ManualAssumption, Manual!TypeOK, Manual!Clear,
                                         Manual!Free, Manual!Counted
  <2>2. pc' \in [Users -> Manual!PCs]
    BY <1>1, <1>2, Types DEF Manual!PCs
  <2>. QED  BY <1>1, <1>2, <1>4, <2>1, <2>2 DEF Manual!TypeOK, Manual!tasks
<1>7. ThreadsInOrder'
  <2> SUFFICES ASSUME NEW v \in Users PROVE ThreadInOrder(v)'
    BY DEF ThreadsInOrder
  <2>1. ThreadInOrder(v)
    BY <1>1 DEF ThreadsInOrder
  <2>2. CASE v = u
    <3>1. Manual!In(queue) # {} => cleared'
      <4>1. Manual!In(<<>>) = {}
        BY DEF Manual!In
      <4>. QED  BY <1>2, <4>1
    <3>. QED  BY <1>2, <1>4, <1>5, <2>1, <2>2, <3>1 DEF ThreadInOrder
  <2>3. CASE v # u
    BY <1>2, <1>4, <1>5, <2>1, <2>3 DEF ThreadInOrder
  <2>. QED  BY <2>2, <2>3
<1>8. ShutDownOnce'
  BY <1>1, <1>2, <1>5 DEF ShutDownOnce
<1>9. SleepersNotified'
  <2> SUFFICES ASSUME NEW v \in Users, pc'[v] = "sleep", Manual!Predicate(v)' PROVE FALSE
    BY DEF SleepersNotified
  <2>1. pc[v] = "sleep" /\ count[v] \in Nat /\ count[v] > 0
    BY <1>1, <1>5, Types DEF ThreadsInOrder, ThreadInOrder
  <2>2. Len(queue') = 0
    BY <1>2
  <2>. QED  BY <1>2, <2>1, <2>2 DEF Manual!Predicate
<1>. QED  BY <1>4, <1>6, <1>7, <1>8, <1>9 DEF ManualIInv

LEMMA SetAbortIInv == ASSUME ManualIInv, NEW u \in Users, Manual!SetAbort(u) PROVE ManualIInv'
<1>1. Manual!TypeOK /\ ThreadsInOrder /\ ShutDownOnce
  BY DEF ManualIInv
<1>2. /\ pc[u] = "abort" /\ abort' = TRUE
      /\ taken' = [taken EXCEPT ![u] = Manual!In(queue)] /\ queue' = <<>>
      /\ pc' = [pc EXCEPT ![u] = "notifyAbort"]
      /\ UNCHANGED <<atomicAbort, call, count, running, calls, Manual!tasks, cleared>>
  BY DEF Manual!SetAbort
<1>3. ThreadInOrder(u) /\ taken[u] = {} /\ atomicAbort
  BY <1>1, <1>2 DEF ThreadsInOrder, ThreadInOrder, ShutDownOnce
<1>4. /\ TasksInPlace' /\ RunsInPlace'
      /\ queue' \in Seq(Manual!Tasks) /\ taken' \in [Users -> SUBSET Manual!Tasks]
      /\ taken'[u] = Manual!In(queue) /\ \A v \in Users : v # u => taken'[v] = taken[v]
  BY <1>2, <1>3, QueueMovedOut
<1>5. pc'[u] = "notifyAbort" /\ \A v \in Users : v # u => pc'[v] = pc[v]
  BY <1>1, <1>2, Types
<1>6. Manual!TypeOK'
  <2>1. pc' \in [Users -> Manual!PCs]
    BY <1>1, <1>2, Types DEF Manual!PCs
  <2>. QED  BY <1>1, <1>2, <1>4, <2>1 DEF Manual!TypeOK, Manual!tasks
<1>7. ThreadsInOrder'
  <2> SUFFICES ASSUME NEW v \in Users PROVE ThreadInOrder(v)'
    BY DEF ThreadsInOrder
  <2>1. ThreadInOrder(v)
    BY <1>1 DEF ThreadsInOrder
  <2>2. CASE v = u
    BY <1>2, <1>3, <1>4, <1>5, <2>1, <2>2 DEF ThreadInOrder
  <2>3. CASE v # u
    BY <1>2, <1>4, <1>5, <2>1, <2>3 DEF ThreadInOrder
  <2>. QED  BY <2>2, <2>3
<1>8. ShutDownOnce'
  <2>1. \A v \in Users : pc'[v] # "abort"
    BY <1>1, <1>2, <1>5 DEF ShutDownOnce
  <2>. QED  BY <1>2, <1>3, <2>1 DEF ShutDownOnce
<1>9. SleepersNotified'
  BY <1>5 DEF SleepersNotified
<1>. QED  BY <1>4, <1>6, <1>7, <1>8, <1>9 DEF ManualIInv

LEMMA ManualShutDownIInv ==
  ASSUME Manual!ManualAssumption, ManualIInv, NEW u \in Users, Manual!ShutDown(u)
  PROVE  ManualIInv'
<1>1. /\ Manual!TypeOK /\ TasksInPlace /\ RunsInPlace
      /\ ThreadsInOrder /\ ShutDownOnce /\ SleepersNotified
  BY DEF ManualIInv
<1>2. /\ pc[u] \in {"idle", "run"} /\ atomicAbort' = TRUE
      /\ pc' = [pc EXCEPT ![u] = IF atomicAbort THEN pc[u] ELSE "abort"]
      /\ UNCHANGED <<queue, abort, call, count, running, taken, Manual!tasks, cleared>>
  BY DEF Manual!ShutDown, Manual!Free
<1>3. /\ pc'[u] = IF atomicAbort THEN pc[u] ELSE "abort"
      /\ \A v \in Users : v # u => pc'[v] = pc[v]
  BY <1>1, <1>2, Types
<1>4. Manual!TypeOK'
  <2>1. calls' \in 0 .. MaxCalls
    BY <1>1, Manual!ManualAssumption DEF Manual!ManualAssumption, Manual!TypeOK,
                                         Manual!ShutDown, Manual!Free, Manual!Counted
  <2>2. pc[u] \in Manual!PCs /\ "abort" \in Manual!PCs
    BY <1>1, Types DEF Manual!PCs
  <2>3. pc' \in [Users -> Manual!PCs]
    BY <1>1, <1>2, <2>2, Types
  <2>. QED  BY <1>1, <1>2, <2>1, <2>3 DEF Manual!TypeOK, Manual!tasks
<1>5. TasksInPlace' /\ RunsInPlace'
  BY <1>1, <1>2, TasksStay
<1>6. ThreadsInOrder'
  <2> SUFFICES ASSUME NEW v \in Users PROVE ThreadInOrder(v)'
    BY DEF ThreadsInOrder
  <2>1. ThreadInOrder(v)
    BY <1>1 DEF ThreadsInOrder
  <2>. QED  BY <1>2, <1>3, <2>1 DEF ThreadInOrder
<1>7. ShutDownOnce'
  <2>1. CASE atomicAbort
    BY <1>1, <1>2, <1>3, <2>1 DEF ShutDownOnce
  <2>2. CASE ~atomicAbort
    <3>1. ~abort /\ \A v \in Users : pc[v] \notin {"abort", "notifyAbort"}
      BY <1>1, <2>2 DEF ShutDownOnce
    <3>. QED  BY <1>2, <1>3, <2>2, <3>1 DEF ShutDownOnce
  <2>. QED  BY <2>1, <2>2
<1>8. SleepersNotified'
  <2> SUFFICES ASSUME NEW v \in Users, pc'[v] = "sleep", Manual!Predicate(v)'
               PROVE  \E w \in Users : pc'[w] \in {"notify", "notifyAbort"}
    BY DEF SleepersNotified
  <2>1. pc[v] = "sleep" /\ Manual!Predicate(v)
    BY <1>2, <1>3 DEF Manual!Predicate
  <2>2. PICK w \in Users : pc[w] \in {"notify", "notifyAbort"}
    BY <1>1, <2>1 DEF SleepersNotified
  <2>. QED  BY <1>2, <1>3, <2>2
<1>. QED  BY <1>4, <1>5, <1>6, <1>7, <1>8 DEF ManualIInv

LEMMA DestroyTasksIInv ==
  ASSUME ManualIInv, NEW u \in Users, Manual!DestroyTasks(u)
  PROVE  ManualIInv'
<1>1. /\ Manual!TypeOK /\ TasksInPlace /\ RunsInPlace
      /\ ThreadsInOrder /\ ShutDownOnce /\ SleepersNotified
  BY DEF ManualIInv
<1>2. /\ pc[u] = "destroy"
      /\ fate' = [t \in Manual!Tasks |-> IF t \in taken[u] THEN "destroyed" ELSE fate[t]]
      /\ taken' = [taken EXCEPT ![u] = {}] /\ pc' = [pc EXCEPT ![u] = Manual!Back(u)]
      /\ UNCHANGED <<Manual!shared, call, count, running, calls, offered, cleared>>
  BY DEF Manual!DestroyTasks, Manual!Becomes
<1>3. /\ pc'[u] = Manual!Back(u) /\ \A v \in Users : v # u => pc'[v] = pc[v]
      /\ taken'[u] = {} /\ \A v \in Users : v # u => taken'[v] = taken[v]
      /\ \A t \in Manual!Tasks : fate'[t] = IF t \in taken[u] THEN "destroyed" ELSE fate[t]
  BY <1>1, <1>2, Types
<1>4. \A t \in Manual!Tasks : t \in taken[u] => fate[t] = "queued"
  BY <1>1 DEF TasksInPlace
<1>5. /\ Manual!Back(u) \in {"idle", "run"} /\ Manual!Back(u) \in Manual!PCs
      /\ Manual!Back(u) = "run" <=> running[u] # Manual!None
  BY <1>1, BackInCall
<1>6. Manual!TypeOK'
  <2>1. /\ fate' \in [Manual!Tasks -> Fates] /\ taken' \in [Users -> SUBSET Manual!Tasks]
        /\ pc' \in [Users -> Manual!PCs]
    BY <1>1, <1>2, <1>5, Types DEF Fates
  <2>. QED  BY <1>1, <1>2, <2>1 DEF Manual!TypeOK, Fates, Manual!shared
<1>7. TasksInPlace'
  <2>1. ASSUME NEW t \in Manual!Tasks
        PROVE  fate'[t] = "queued" <=> t \in Manual!In(queue) \/ \E v \in Users : t \in taken'[v]
    <3>1. CASE t \in taken[u]
      BY <1>1, <1>3, <3>1 DEF TasksInPlace
    <3>2. CASE t \notin taken[u]
      BY <1>1, <1>3, <3>2 DEF TasksInPlace
    <3>. QED  BY <3>1, <3>2
  <2>2. \A t \in Manual!Tasks : t > offered => fate'[t] = "new"
    BY <1>1, <1>3, <1>4 DEF TasksInPlace
  <2>3. \A v \in Users : Manual!In(queue) \cap taken'[v] = {}
    BY <1>1, <1>3 DEF TasksInPlace
  <2>4. \A v, w \in Users : v # w => taken'[v] \cap taken'[w] = {}
    BY <1>1, <1>3 DEF TasksInPlace
  <2>. QED  BY <1>1, <1>2, <2>1, <2>2, <2>3, <2>4 DEF TasksInPlace, Manual!shared
<1>8. RunsInPlace'
  <2>1. \A t \in Manual!Tasks : fate'[t] = "running" <=> fate[t] = "running"
    BY <1>3, <1>4
  <2>2. \A v \in Users : running[v] # Manual!None => running[v] \in Manual!Tasks
    BY <1>1, Types
  <2>. QED  BY <1>1, <1>2, <2>1, <2>2 DEF RunsInPlace
<1>9. ThreadsInOrder'
  <2> SUFFICES ASSUME NEW v \in Users PROVE ThreadInOrder(v)'
    BY DEF ThreadsInOrder
  <2>1. ThreadInOrder(v)
    BY <1>1 DEF ThreadsInOrder
  <2>2. CASE v = u
    BY <1>2, <1>3, <1>5, <2>1, <2>2 DEF ThreadInOrder, Manual!shared
  <2>3. CASE v # u
    BY <1>2, <1>3, <2>1, <2>3 DEF ThreadInOrder, Manual!shared
  <2>. QED  BY <2>2, <2>3
<1>10. ShutDownOnce'
  BY <1>1, <1>2, <1>3, <1>5 DEF ShutDownOnce, Manual!shared
<1>11. SleepersNotified'
  <2> SUFFICES ASSUME NEW v \in Users, pc'[v] = "sleep", Manual!Predicate(v)'
               PROVE  \E w \in Users : pc'[w] \in {"notify", "notifyAbort"}
    BY DEF SleepersNotified
  <2>1. pc[v] = "sleep" /\ Manual!Predicate(v)
    BY <1>2, <1>3, <1>5 DEF Manual!Predicate, Manual!shared
  <2>2. PICK w \in Users : pc[w] \in {"notify", "notifyAbort"}
    BY <1>1, <2>1 DEF SleepersNotified
  <2>. QED  BY <1>2, <1>3, <2>2
<1>. QED  BY <1>6, <1>7, <1>8, <1>9, <1>10, <1>11 DEF ManualIInv

LEMMA ManualNextIInv ==
  ASSUME Manual!ManualAssumption, ManualIInv, [Manual!Next]_(Manual!vars)
  PROVE  ManualIInv'
<1>1. CASE UNCHANGED Manual!vars
  <2>1. Manual!TypeOK'
    BY <1>1 DEF ManualIInv, Manual!TypeOK, Manual!vars, Manual!shared, Manual!thread, Manual!tasks
  <2>2. TasksInPlace' /\ RunsInPlace'
    BY <1>1, TasksStay DEF ManualIInv, Manual!vars, Manual!shared, Manual!thread, Manual!tasks
  <2>3. ThreadsInOrder' /\ ShutDownOnce' /\ SleepersNotified'
    BY <1>1 DEF ManualIInv, ThreadsInOrder, ThreadInOrder, ShutDownOnce, SleepersNotified,
                Manual!Predicate,
                Manual!vars, Manual!shared, Manual!thread, Manual!tasks
  <2>. QED  BY <2>1, <2>2, <2>3 DEF ManualIInv
<1>2. ASSUME NEW u \in Users,
             Manual!Enqueue(u) \/ Manual!Call(u) \/ Manual!Clear(u) \/ Manual!ShutDown(u)
      PROVE  ManualIInv'
  BY <1>2, EnqueueIInv, CallIInv, ClearIInv, ManualShutDownIInv
<1>3. ASSUME NEW u \in Users,
             \/ Manual!DeadlinePassed(u) \/ Manual!RanAll(u)
             \/ Manual!LeaveLoop(u) \/ Manual!StopWaiting(u)
      PROVE  ManualIInv'
  <2>1. /\ pc[u] \in {"loop", "late"} /\ Manual!Return(u)
        /\ UNCHANGED <<Manual!shared, running, taken, calls, Manual!tasks, cleared>>
    BY <1>3 DEF Manual!DeadlinePassed, Manual!RanAll, Manual!LeaveLoop, Manual!StopWaiting
  <2>. QED  BY <2>1, ReturnIInv
<1>4. ASSUME NEW u \in Users,
             \/ Manual!NotifyAll(u) \/ Manual!PopTask(u) \/ Manual!Sleep(u)
             \/ Manual!TimeOut(u) \/ Manual!FinishTask(u)
      PROVE  ManualIInv'
  BY <1>4, NotifyAllIInv, ManualPopTaskIInv, SleepIInv, TimeOutIInv, ManualFinishTaskIInv
<1>5. ASSUME NEW u \in Users,
             Manual!DestroyTasks(u) \/ Manual!SetAbort(u) \/ Manual!NotifyAbort(u)
      PROVE  ManualIInv'
  BY <1>5, DestroyTasksIInv, SetAbortIInv, NotifyAbortIInv
<1>. QED  BY <1>1, <1>2, <1>3, <1>4, <1>5 DEF Manual!Next, Manual!Proceed

LEMMA ManualInvariance == ASSUME Manual!ManualAssumption PROVE Manual!Spec => []ManualIInv
<1>1. Manual!Init => ManualIInv
  BY ManualInitIInv
<1>2. ManualIInv /\ [Manual!Next]_(Manual!vars) => ManualIInv'
  BY ManualNextIInv
<1>. QED  BY <1>1, <1>2, PTL DEF Manual!Spec

(* There is nothing or one thing of a certain kind.                        *)
LEMMA OneOrNone ==
  ASSUME NEW S, \A x, y \in S : x = y
  PROVE  Manual!Cardinality(S) = IF S = {} THEN 0 ELSE 1
<1>1. Cardinality(S) = IF S = {} THEN 0 ELSE 1
  <2>1. CASE S = {}
    BY <2>1, FS_EmptySet
  <2>2. CASE S # {}
    <3>1. PICK x \in S : S = {x}
      BY <2>2
    <3>. QED  BY <2>2, <3>1, FS_Singleton
  <2>. QED  BY <2>1, <2>2
<1>2. Manual!Cardinality(S) = Cardinality(S)
  BY DEF Manual!Cardinality, Cardinality
<1>. QED  BY <1>1, <1>2

(* No task of the manual executor is lost, doubled or run twice, whoever   *)
(* loops, clears the queue or shuts it down; and a thread that waits gets  *)
(* its notification: it does not sleep on tasks that are there, nor on a   *)
(* shutdown, unless somebody is about to notify.                           *)
THEOREM ManualTasksKept ==
  ASSUME Manual!ManualAssumption PROVE Manual!Spec => []Manual!NoTaskLost
<1>1. ASSUME ManualIInv PROVE Manual!NoTaskLost
  <2>1. Manual!TypeOK /\ TasksInPlace /\ RunsInPlace /\ SleepersNotified
    BY <1>1 DEF ManualIInv
  <2>2. ASSUME NEW t \in Manual!Tasks
        PROVE  Manual!Cardinality({k \in DOMAIN queue : queue[k] = t})
                 + Manual!Cardinality({u \in Users : t \in taken[u]})
               = (IF fate[t] = "queued" THEN 1 ELSE 0)
    <3> DEFINE places == {k \in DOMAIN queue : queue[k] = t}
               takers == {u \in Users : t \in taken[u]}
    <3>1. Manual!Cardinality(places) = IF t \in Manual!In(queue) THEN 1 ELSE 0
      <4>1. \A j, k \in places : j = k
        BY <2>1 DEF TasksInPlace
      <4>2. places = {} <=> t \notin Manual!In(queue)
        BY DEF Manual!In
      <4> HIDE DEF places
      <4>. QED  BY <4>1, <4>2, OneOrNone
    <3>2. Manual!Cardinality(takers) = IF \E u \in Users : t \in taken[u] THEN 1 ELSE 0
      <4>1. \A u, v \in takers : u = v
        BY <2>1 DEF TasksInPlace
      <4>2. takers = {} <=> ~\E u \in Users : t \in taken[u]
        OBVIOUS
      <4> HIDE DEF takers
      <4>. QED  BY <4>1, <4>2, OneOrNone
    <3>3. ~(t \in Manual!In(queue) /\ \E u \in Users : t \in taken[u])
      BY <2>1 DEF TasksInPlace
    <3>4. fate[t] = "queued" <=> t \in Manual!In(queue) \/ \E u \in Users : t \in taken[u]
      BY <2>1 DEF TasksInPlace
    <3> HIDE DEF places, takers
    <3>5. Manual!Cardinality(places) + Manual!Cardinality(takers)
          = (IF fate[t] = "queued" THEN 1 ELSE 0)
      BY <3>1, <3>2, <3>3, <3>4
    <3>. QED  BY <3>5 DEF places, takers
  <2>3. ASSUME NEW t \in Manual!Tasks
        PROVE  Manual!Cardinality({u \in Users : running[u] = t})
               = (IF fate[t] = "running" THEN 1 ELSE 0)
    <3> DEFINE runners == {u \in Users : running[u] = t}
    <3>1. t # Manual!None
      BY <2>1, Types
    <3>2. \A u, v \in runners : u = v
      BY <2>1, <3>1 DEF RunsInPlace
    <3>3. runners = {} <=> fate[t] # "running"
      BY <2>1, <3>1 DEF RunsInPlace
    <3> HIDE DEF runners
    <3>4. Manual!Cardinality(runners) = (IF fate[t] = "running" THEN 1 ELSE 0)
      BY <3>2, <3>3, OneOrNone
    <3>. QED  BY <3>4 DEF runners
  <2>. QED  BY <2>1, <2>2, <2>3 DEF Manual!NoTaskLost, SleepersNotified
<1>. QED  BY <1>1, ManualInvariance, PTL

-----------------------------------------------------------------------------
(* The contract.                                                           *)

(* Only a shut-down executor is rid of its tasks, and it has none then.    *)
LEMMA RidIsShutDown ==
  ASSUME ManualIInv, Manual!Rid
  PROVE  abort /\ \A t \in Manual!Tasks : fate[t] \notin {"queued", "running"}
<1>1. Manual!TypeOK /\ TasksInPlace /\ RunsInPlace /\ ShutDownOnce
  BY DEF ManualIInv
<1>2. abort /\ queue = <<>>
  BY <1>1 DEF ShutDownOnce, Manual!Rid
<1>3. Manual!In(queue) = {}
  BY <1>2 DEF Manual!In
<1>4. \A t \in Manual!Tasks : t # Manual!None
  BY <1>1, Types
<1>5. \A t \in Manual!Tasks : fate[t] # "queued"
  BY <1>1, <1>3 DEF TasksInPlace, Manual!Rid
<1>6. \A t \in Manual!Tasks : fate[t] # "running"
  BY <1>1, <1>4 DEF RunsInPlace, Manual!Rid
<1>. QED  BY <1>2, <1>5, <1>6

LEMMA RidIsShutDownAfter ==
  ASSUME ManualIInv', Manual!Rid'
  PROVE  abort' /\ \A t \in Manual!Tasks : fate'[t] \notin {"queued", "running"}
<1>1. (ManualIInv /\ Manual!Rid =>
         abort /\ \A t \in Manual!Tasks : fate[t] \notin {"queued", "running"})'
  BY RidIsShutDown, PTL
<1>. QED  BY <1>1

(* A thread that moves on between calls changes nothing for the contract.  *)
LEMMA MoveKeepsRid ==
  ASSUME NEW busy, busy = {"abort", "notifyAbort", "destroy"},
         \A v \in Users : pc'[v] \in busy <=> pc[v] \in busy,
         UNCHANGED <<atomicAbort, running, taken, cleared, fate>>
  PROVE  UNCHANGED Manual!Contract!evars
<1>1. Manual!Rid' <=> Manual!Rid
  BY DEF Manual!Rid
<1>. QED  BY <1>1 DEF Manual!Contract!evars, Manual!Rid

LEMMA MovesStutter ==
  ASSUME ManualIInv, NEW u \in Users,
         \/ Manual!Call(u) \/ Manual!DeadlinePassed(u) \/ Manual!RanAll(u)
         \/ Manual!LeaveLoop(u) \/ Manual!StopWaiting(u)
         \/ Manual!Sleep(u) \/ Manual!TimeOut(u) \/ Manual!NotifyAll(u)
  PROVE  UNCHANGED Manual!Contract!evars
<1> DEFINE busy == {"abort", "notifyAbort", "destroy"}
<1>1. Manual!TypeOK /\ pc \in [Users -> Manual!PCs]
  BY Types DEF ManualIInv
<1>2. UNCHANGED <<atomicAbort, running, taken, cleared, fate>>
  BY DEF Manual!Call, Manual!DeadlinePassed, Manual!RanAll, Manual!LeaveLoop,
         Manual!StopWaiting, Manual!Sleep, Manual!TimeOut, Manual!NotifyAll,
         Manual!shared, Manual!tasks
<1>3. CASE Manual!NotifyAll(u)
  <2>1. /\ pc[u] = "notify" /\ pc'[u] = Manual!Back(u) /\ Manual!Back(u) \in {"idle", "run"}
        /\ \A v \in Users : v # u => pc'[v] = IF pc[v] = "sleep" THEN "loop" ELSE pc[v]
    BY <1>1, <1>3, BackInCall DEF Manual!NotifyAll, Manual!Woken
  <2>2. \A v \in Users : pc'[v] \in busy <=> pc[v] \in busy
    BY <2>1
  <2>. QED  BY <1>2, <2>2, MoveKeepsRid
<1>4. CASE ~Manual!NotifyAll(u)
  <2>1. PICK y \in {"idle", "loop", "sleep", "late"} : pc' = [pc EXCEPT ![u] = y]
    BY <1>4 DEF Manual!Call, Manual!DeadlinePassed, Manual!RanAll, Manual!LeaveLoop,
                Manual!StopWaiting, Manual!Sleep, Manual!TimeOut, Manual!Return
  <2>2. pc[u] \in {"idle", "loop", "sleep", "late"}
    BY <1>4 DEF Manual!Call, Manual!DeadlinePassed, Manual!RanAll, Manual!LeaveLoop,
                Manual!StopWaiting, Manual!Sleep, Manual!TimeOut
  <2>3. \A v \in Users : pc'[v] \in busy <=> pc[v] \in busy
    BY <1>1, <2>1, <2>2
  <2>. QED  BY <1>2, <2>3, MoveKeepsRid
<1>. QED  BY <1>3, <1>4

LEMMA EnqueueKeeps ==
  ASSUME ManualIInv, ManualIInv', NEW u \in Users, Manual!Enqueue(u)
  PROVE  Manual!Contract!Accept \/ Manual!Contract!Refuse
<1>1. Manual!TypeOK /\ TasksInPlace /\ ShutDownOnce
  BY DEF ManualIInv
<1>2. PICK n \in 1 .. N - offered :
        IF abort
        THEN /\ Manual!Becomes(offered + 1 .. offered + n, "refused")
             /\ UNCHANGED <<queue, pc>>
        ELSE /\ Manual!Becomes(offered + 1 .. offered + n, "queued")
             /\ queue' = queue \o [k \in 1 .. n |-> offered + k]
             /\ pc' = [pc EXCEPT ![u] = "notify"]
  BY DEF Manual!Enqueue
<1>3. UNCHANGED <<abort, atomicAbort, running, taken, cleared>>
  BY DEF Manual!Enqueue
<1>4. PICK batch : batch = offered + 1 .. offered + n
  OBVIOUS
<1>5. batch \in SUBSET {t \in Manual!Tasks : fate[t] = "new"}
  <2>1. batch \subseteq Manual!Tasks /\ \A t \in batch : t > offered
    BY <1>1, <1>4, Types DEF Manual!Tasks
  <2>. QED  BY <1>1, <2>1 DEF TasksInPlace
<1>6. CASE abort
  <2>1. fate' = [t \in Manual!Tasks |-> IF t \in batch THEN "refused" ELSE fate[t]] /\ pc' = pc
    BY <1>2, <1>4, <1>6 DEF Manual!Becomes
  <2>2. atomicAbort /\ (Manual!Rid' <=> Manual!Rid)
    BY <1>1, <1>3, <1>6, <2>1 DEF ShutDownOnce, Manual!Rid
  <2>. QED  BY <1>3, <1>5, <2>1, <2>2 DEF Manual!Contract!Refuse, Manual!Rid
<1>7. CASE ~abort
  <2>1. fate' = [t \in Manual!Tasks |-> IF t \in batch THEN "queued" ELSE fate[t]]
    BY <1>2, <1>4, <1>7 DEF Manual!Becomes
  <2>2. ~Manual!Rid /\ ~Manual!Rid'
    BY <1>3, <1>7, RidIsShutDown, RidIsShutDownAfter
  <2>. QED  BY <1>3, <1>5, <2>1, <2>2 DEF Manual!Contract!Accept, Manual!Rid
<1>. QED  BY <1>6, <1>7

LEMMA PopTaskKeeps ==
  ASSUME ManualIInv, ManualIInv', NEW u \in Users, Manual!PopTask(u)
  PROVE  \E t \in Manual!Tasks : Manual!Contract!Start(t)
<1>1. Manual!TypeOK /\ TasksInPlace
  BY DEF ManualIInv
<1>2. /\ queue # <<>> /\ ~abort
      /\ fate' = [t \in Manual!Tasks |-> IF t \in {Head(queue)} THEN "running" ELSE fate[t]]
      /\ UNCHANGED <<abort, atomicAbort, cleared>>
  BY DEF Manual!PopTask, Manual!Becomes
<1>3. PICK h \in Manual!Tasks : h = Head(queue) /\ h \in Manual!In(queue)
  <2>1. queue \in Seq(Manual!Tasks) /\ \A j, k \in DOMAIN queue : queue[j] = queue[k] => j = k
    BY <1>1, Types DEF TasksInPlace
  <2>. QED  BY <1>2, <2>1, HeadTaken
<1>4. fate[h] = "queued" /\ fate \in [Manual!Tasks -> Fates]
  BY <1>1, <1>3, Types DEF TasksInPlace
<1>5. fate' = [fate EXCEPT ![h] = "running"]
  BY <1>2, <1>3, <1>4
<1>6. ~Manual!Rid /\ ~Manual!Rid'
  BY <1>2, RidIsShutDown, RidIsShutDownAfter
<1>7. Manual!Rid' = Manual!Rid
  BY <1>6 DEF Manual!Rid
<1>. QED  BY <1>2, <1>4, <1>5, <1>7 DEF Manual!Contract!Start

LEMMA FinishTaskKeeps ==
  ASSUME ManualIInv, ManualIInv', NEW u \in Users, Manual!FinishTask(u)
  PROVE  Manual!Contract!Close \/ \E t \in Manual!Tasks : Manual!Contract!Finish(t)
<1>1. Manual!TypeOK /\ TasksInPlace /\ RunsInPlace /\ ThreadsInOrder
  BY DEF ManualIInv
<1>2. /\ pc[u] = "run" /\ running' = [running EXCEPT ![u] = Manual!None]
      /\ fate' = [t \in Manual!Tasks |-> IF t \in {running[u]} THEN "executed" ELSE fate[t]]
      /\ UNCHANGED <<Manual!shared, taken, cleared>>
  BY DEF Manual!FinishTask, Manual!Becomes
<1>3. PICK h \in Manual!Tasks : h = running[u] /\ fate[h] = "running" /\ h # Manual!None
  BY <1>1, <1>2, Types DEF ThreadsInOrder, ThreadInOrder, RunsInPlace
<1>4. fate \in [Manual!Tasks -> Fates] /\ fate' = [fate EXCEPT ![h] = "executed"]
  BY <1>1, <1>2, <1>3, Types
<1>5. ~Manual!Rid
  BY <1>3 DEF Manual!Rid
<1>6. CASE Manual!Rid'
  <2>1. atomicAbort /\ cleared' = cleared /\ atomicAbort' = atomicAbort
    BY <1>2, <1>6 DEF Manual!Rid, Manual!shared
  <2>2. \A t \in Manual!Tasks : fate'[t] \notin {"queued", "running"}
    BY <1>6, RidIsShutDownAfter
  <2>3. \A t \in Manual!Tasks : t # h => fate'[t] = fate[t]
    BY <1>4
  <2>4. fate' = [t \in Manual!Tasks |-> CASE fate[t] = "queued" -> "destroyed"
                                          [] fate[t] = "running" -> "executed"
                                          [] OTHER -> fate[t]]
    BY <1>3, <1>4, <2>2, <2>3
  <2>. QED  BY <1>6, <2>1, <2>4 DEF Manual!Contract!Close
<1>7. CASE ~Manual!Rid'
  <2>1. Manual!Rid' = Manual!Rid
    BY <1>5, <1>7 DEF Manual!Rid
  <2>. QED  BY <1>2, <1>3, <1>4, <2>1 DEF Manual!Contract!Finish, Manual!shared
<1>. QED  BY <1>6, <1>7

LEMMA DestroyTasksKeeps ==
  ASSUME ManualIInv, ManualIInv', NEW u \in Users, Manual!DestroyTasks(u)
  PROVE  Manual!Contract!Close \/ Manual!Contract!Destroy \/ UNCHANGED Manual!Contract!evars
<1>1. Manual!TypeOK /\ TasksInPlace /\ RunsInPlace /\ ThreadsInOrder
  BY DEF ManualIInv
<1>2. /\ pc[u] = "destroy"
      /\ fate' = [t \in Manual!Tasks |-> IF t \in taken[u] THEN "destroyed" ELSE fate[t]]
      /\ UNCHANGED <<atomicAbort, cleared, running>>
  BY DEF Manual!DestroyTasks, Manual!Becomes, Manual!shared
<1>3. /\ fate \in [Manual!Tasks -> Fates]
      /\ \A t \in Manual!Tasks : t \in taken[u] => fate[t] = "queued"
  BY <1>1, Types DEF TasksInPlace
<1>4. taken[u] \in SUBSET {t \in Manual!Tasks : fate[t] = "queued"}
  BY <1>1, <1>3, Types
<1>5. ~Manual!Rid
  BY <1>2 DEF Manual!Rid
<1>6. CASE Manual!Rid'
  <2>1. atomicAbort
    BY <1>2, <1>6 DEF Manual!Rid
  <2>2. \A t \in Manual!Tasks : fate'[t] \notin {"queued", "running"}
    BY <1>6, RidIsShutDownAfter
  <2>3. \A t \in Manual!Tasks : fate'[t] = IF t \in taken[u] THEN "destroyed" ELSE fate[t]
    BY <1>2
  <2>4. fate' = [t \in Manual!Tasks |-> CASE fate[t] = "queued" -> "destroyed"
                                          [] fate[t] = "running" -> "executed"
                                          [] OTHER -> fate[t]]
    BY <1>2, <1>3, <2>2, <2>3
  <2>. QED  BY <1>2, <1>6, <2>1, <2>4 DEF Manual!Contract!Close
<1>7. CASE ~Manual!Rid' /\ taken[u] # {}
  <2>1. atomicAbort \/ cleared
    BY <1>1, <1>7 DEF ThreadsInOrder, ThreadInOrder
  <2>2. Manual!Rid' = Manual!Rid
    BY <1>5, <1>7 DEF Manual!Rid
  <2>. QED  BY <1>2, <1>4, <2>1, <2>2 DEF Manual!Contract!Destroy
<1>8. CASE ~Manual!Rid' /\ taken[u] = {}
  <2>1. fate' = fate
    BY <1>2, <1>3, <1>8
  <2>2. Manual!Rid' = Manual!Rid
    BY <1>5, <1>8 DEF Manual!Rid
  <2>. QED  BY <1>2, <2>1, <2>2 DEF Manual!Contract!evars
<1>. QED  BY <1>6, <1>7, <1>8

LEMMA ShutDownKeeps ==
  ASSUME ManualIInv, NEW u \in Users, Manual!ShutDown(u)
  PROVE  Manual!Contract!Request \/ UNCHANGED Manual!Contract!evars
<1>1. Manual!TypeOK
  BY DEF ManualIInv
<1>2. /\ atomicAbort' = TRUE /\ pc' = [pc EXCEPT ![u] = IF atomicAbort THEN pc[u] ELSE "abort"]
      /\ UNCHANGED <<running, taken, cleared, fate>>
  BY DEF Manual!ShutDown, Manual!tasks
<1>3. CASE atomicAbort
  <2>1. pc' = pc
    BY <1>1, <1>2, <1>3, Types
  <2>2. Manual!Rid' <=> Manual!Rid
    BY <1>2, <1>3, <2>1 DEF Manual!Rid
  <2>. QED  BY <1>2, <1>3, <2>2 DEF Manual!Contract!evars, Manual!Rid
<1>4. CASE ~atomicAbort
  <2>1. pc'[u] = "abort"
    BY <1>1, <1>2, <1>4, Types
  <2>2. ~Manual!Rid /\ ~Manual!Rid'
    BY <1>4, <2>1 DEF Manual!Rid
  <2>3. Manual!Rid' = Manual!Rid
    BY <2>2 DEF Manual!Rid
  <2>. QED  BY <1>2, <2>3 DEF Manual!Contract!Request
<1>. QED  BY <1>3, <1>4

LEMMA ClearKeeps ==
  ASSUME ManualIInv, ManualIInv', NEW u \in Users, Manual!Clear(u)
  PROVE  Manual!Contract!Request \/ UNCHANGED Manual!Contract!evars
<1>1. /\ ~abort /\ cleared' = (cleared \/ queue # <<>>)
      /\ UNCHANGED <<abort, atomicAbort, fate>>
  BY DEF Manual!Clear, Manual!tasks
<1>2. ~Manual!Rid /\ ~Manual!Rid'
  BY <1>1, RidIsShutDown, RidIsShutDownAfter
<1>. Manual!Rid' = Manual!Rid
  BY <1>2 DEF Manual!Rid
<1>3. CASE cleared' = cleared
  BY <1>1, <1>3 DEF Manual!Contract!evars
<1>4. CASE cleared' # cleared
  <2>1. cleared' = TRUE
    BY <1>1, <1>4 DEF ManualIInv, Manual!TypeOK
  <2>. QED  BY <1>1, <2>1 DEF Manual!Contract!Request
<1>. QED  BY <1>3, <1>4

LEMMA AbortStutters ==
  ASSUME ManualIInv, NEW u \in Users, Manual!SetAbort(u) \/ Manual!NotifyAbort(u)
  PROVE  UNCHANGED Manual!Contract!evars
<1>1. Manual!TypeOK
  BY DEF ManualIInv
<1>2. /\ pc[u] \in {"abort", "notifyAbort"} /\ UNCHANGED <<atomicAbort, cleared, fate>>
  BY DEF Manual!SetAbort, Manual!NotifyAbort, Manual!shared, Manual!tasks
<1>3. pc'[u] \in {"notifyAbort", "destroy"}
  BY <1>1, Types DEF Manual!SetAbort, Manual!NotifyAbort, Manual!Woken
<1>4. ~Manual!Rid /\ ~Manual!Rid'
  BY <1>2, <1>3 DEF Manual!Rid
<1>5. Manual!Rid' = Manual!Rid
  BY <1>4 DEF Manual!Rid
<1>. QED  BY <1>2, <1>5 DEF Manual!Contract!evars

(* Each step of the manual executor is a step of the contract or none: a   *)
(* task is destroyed only after Clear or ShutDown has asked for it, and    *)
(* once the executor is rid of its tasks after a shutdown, it stays so.    *)
THEOREM ManualKeepsContract ==
  ASSUME Manual!ManualAssumption PROVE Manual!Spec => Manual!KeepsContract
<1>1. Manual!Init => Manual!Contract!EInit
  BY DEF Manual!Init, Manual!Contract!EInit, Manual!Rid
<1>2. ManualIInv /\ [Manual!Next]_(Manual!vars) => [Manual!Contract!ENext]_(Manual!Contract!evars)
  <2> SUFFICES ASSUME ManualIInv, [Manual!Next]_(Manual!vars)
               PROVE  [Manual!Contract!ENext]_(Manual!Contract!evars)
    OBVIOUS
  <2>1. ManualIInv'
    BY ManualNextIInv
  <2>2. CASE UNCHANGED Manual!vars
    BY <2>2 DEF Manual!vars, Manual!shared, Manual!thread, Manual!tasks, Manual!Contract!evars,
                Manual!Rid
  <2>3. ASSUME NEW u \in Users, Manual!Enqueue(u) \/ Manual!PopTask(u) \/ Manual!FinishTask(u)
        PROVE  [Manual!Contract!ENext]_(Manual!Contract!evars)
    BY <2>1, <2>3, EnqueueKeeps, PopTaskKeeps, FinishTaskKeeps DEF Manual!Contract!ENext
  <2>4. ASSUME NEW u \in Users, Manual!DestroyTasks(u) \/ Manual!ShutDown(u) \/ Manual!Clear(u)
        PROVE  [Manual!Contract!ENext]_(Manual!Contract!evars)
    BY <2>1, <2>4, DestroyTasksKeeps, ShutDownKeeps, ClearKeeps DEF Manual!Contract!ENext
  <2>5. ASSUME NEW u \in Users, Manual!SetAbort(u) \/ Manual!NotifyAbort(u)
        PROVE  [Manual!Contract!ENext]_(Manual!Contract!evars)
    BY <2>5, AbortStutters
  <2>6. ASSUME NEW u \in Users,
               \/ Manual!Call(u) \/ Manual!DeadlinePassed(u) \/ Manual!RanAll(u)
               \/ Manual!LeaveLoop(u) \/ Manual!StopWaiting(u)
               \/ Manual!Sleep(u) \/ Manual!TimeOut(u) \/ Manual!NotifyAll(u)
        PROVE  [Manual!Contract!ENext]_(Manual!Contract!evars)
    BY <2>6, MovesStutter
  <2>. QED  BY <2>2, <2>3, <2>4, <2>5, <2>6 DEF Manual!Next, Manual!Proceed
<1>. QED  BY <1>1, <1>2, ManualInvariance, PTL DEF Manual!Spec, Manual!KeepsContract
=============================================================================
