--------------------------- MODULE TimerQueueProofs ---------------------------
(***************************************************************************)
(* The timer queue, for any number of timers and of calls of ShutDown: no  *)
(* timer is forgotten while the thread comes and goes, no coroutine of a   *)
(* delay object is dropped, and a queue that was shut down is quiet.       *)
(***************************************************************************)
EXTENDS TimerQueue, FiniteSetTheorems, TLAPS

(* Where a timer is.                                                       *)
Requested(t) == \E k \in DOMAIN requests : requests[k] = [timer |-> t, what |-> "add"]
InSet(t) == \E g \in Generations : t \in timers[g]

(* The generations are made in their order, each by a timer of its own.    *)
GenerationsInOrder ==
  \E n \in 0 .. Cardinality(Timers) :
    /\ \A g \in Generations : wpc[g] # "none" <=> g <= n
    /\ n <= Cardinality({t \in Timers : Added(t)})

(* One thread runs unless the queue is idle or aborted, and only it has    *)
(* timers; a thread that was told to go may still have some.               *)
OneThread ==
  /\ \A g \in Generations : InLoop(g) => g = thread /\ ~idle
  /\ ~abort /\ ~idle => thread \in Generations /\ InLoop(thread)
  /\ \A g \in Generations :
       timers[g] # {} => g = thread /\ (InLoop(g) \/ (wpc[g] = "exit" /\ abort))

(* What the queue is asked to do: a timer is added once, and removed by    *)
(* whoever has cancelled it.                                               *)
RequestsOnce ==
  /\ \A j, k \in DOMAIN requests :
       requests[j].what = "add" /\ requests[k] = requests[j] => j = k
  /\ \A k \in DOMAIN requests :
       IF requests[k].what = "add" THEN ~InSet(requests[k].timer) ELSE cancelled[requests[k].timer]
  /\ idle \/ (abort /\ Unlocked) => \A t \in Timers : ~Requested(t)

(* A timer that was not made yet is nowhere, and delay objects are not     *)
(* cancelled.                                                              *)
CallsInOrder ==
  /\ \A t \in Timers : upc[t] = "new" =>
       /\ ~InSet(t) /\ \A k \in DOMAIN requests : requests[k].timer # t
       /\ posted[t] = 0 /\ outcome[t] = "none" /\ ~cancelled[t] /\ t \notin fired
  /\ \A t \in Timers : upc[t] = "push" => cancelled[t]
  /\ \A t \in Timers : cancelled[t] => kind[t] # "delay"

(* A timer that has to fire is in a request or with a thread.              *)
PendingIsKept == \A t \in Timers : Pending(t) => Requested(t) \/ InSet(t)

(* Something holds the coroutine of a delay object as long as it has not   *)
(* gone on; before the shutdown it is a request, the thread or the task,   *)
(* and one of them only.                                                   *)
DelaysAreHeld ==
  \A t \in Timers :
    /\ kind[t] # "delay" => posted[t] = 0
    /\ kind[t] = "delay" =>
         /\ Requested(t) \/ InSet(t) => posted[t] = 0 /\ outcome[t] = "none"
         /\ posted[t] <= 1 /\ (posted[t] = 1 => outcome[t] = "none")
         /\ Added(t) /\ outcome[t] = "none" => Held(t)
         /\ Added(t) /\ outcome[t] = "none" /\ ~abort =>
              Requested(t) \/ InSet(t) \/ posted[t] > 0
    /\ outcome[t] = "interrupted" => abort

(* One call of ShutDown goes on, and the engine waits for it.              *)
Came(s) == spc[s] \in {"lock", "notify", "join", "stuck", "done"}

ShutDownInOrder ==
  /\ \A s \in Closers : spc[s] \in {"notify", "join", "stuck", "done"} => abort
  /\ \A s \in Closers : spc[s] = "done" => thread = 0
  /\ \A s \in Closers : spc[s] = "tooLate" => atomicAbort
  /\ atomicAbort <=> \E s \in Closers : Came(s)
  /\ \A r, s \in Closers : Came(r) /\ Came(s) => r = s
  /\ ~open => abort

(* A thread does not sleep on a request that nobody will announce.         *)
Announced ==
  \A g \in Generations : wpc[g] = "wait" /\ Predicate =>
    \/ \E t \in Timers : upc[t] = "notify"
    \/ \E s \in Closers : spc[s] \in {"notify", "stuck"}

IInv ==
  /\ TypeOK /\ GenerationsInOrder /\ OneThread /\ RequestsOnce /\ CallsInOrder
  /\ PendingIsKept /\ DelaysAreHeld /\ ShutDownInOrder /\ Announced

-----------------------------------------------------------------------------
(* Requests, generations and sets.                                         *)

(* The parts of a request.                                                 *)
LEMMA RequestParts ==
  ASSUME requests \in Seq(Request)
  PROVE  /\ Len(requests) \in Nat /\ DOMAIN requests = 1 .. Len(requests)
         /\ \A k \in DOMAIN requests :
              /\ requests[k].timer \in Timers /\ requests[k].what \in {"add", "remove"}
              /\ \A t \in Timers : requests[k] = [timer |-> t, what |-> "add"]
                                     <=> requests[k].timer = t /\ requests[k].what = "add"
              /\ \A j \in DOMAIN requests :
                   requests[j] = requests[k] <=> /\ requests[j].timer = requests[k].timer
                                                 /\ requests[j].what = requests[k].what
<1>1. /\ Len(requests) \in Nat /\ DOMAIN requests = 1 .. Len(requests)
      /\ \A k \in DOMAIN requests : requests[k] \in Request
  OBVIOUS
<1>2. ASSUME NEW k \in DOMAIN requests
      PROVE  /\ requests[k].timer \in Timers /\ requests[k].what \in {"add", "remove"}
             /\ \A t \in Timers : requests[k] = [timer |-> t, what |-> "add"]
                                    <=> requests[k].timer = t /\ requests[k].what = "add"
             /\ \A j \in DOMAIN requests :
                  requests[j] = requests[k] <=> /\ requests[j].timer = requests[k].timer
                                                /\ requests[j].what = requests[k].what
  BY <1>1 DEF Request
<1>. QED  BY <1>1, <1>2

(* One request more.                                                       *)
LEMMA OneMoreRequest ==
  ASSUME requests \in Seq(Request), NEW t \in Timers, NEW what \in {"add", "remove"},
         requests' = Append(requests, [timer |-> t, what |-> what])
  PROVE  /\ requests' \in Seq(Request) /\ requests' # <<>>
         /\ Len(requests) + 1 \in DOMAIN requests'
         /\ requests'[Len(requests) + 1].timer = t /\ requests'[Len(requests) + 1].what = what
         /\ \A k \in DOMAIN requests : k \in DOMAIN requests' /\ requests'[k] = requests[k]
         /\ \A k \in DOMAIN requests' : k = Len(requests) + 1 \/ k \in DOMAIN requests
         /\ \A u \in Timers : Requested(u)' <=> Requested(u) \/ (u = t /\ what = "add")
<1>1. [timer |-> t, what |-> what] \in Request
  BY DEF Request
<1>2. /\ Len(requests) \in Nat /\ DOMAIN requests = 1 .. Len(requests)
      /\ requests' \in Seq(Request) /\ DOMAIN requests' = 1 .. Len(requests) + 1
      /\ requests'[Len(requests) + 1] = [timer |-> t, what |-> what]
      /\ \A k \in DOMAIN requests : requests'[k] = requests[k]
  BY <1>1
<1>3. ASSUME NEW u \in Timers
      PROVE  Requested(u)' <=> Requested(u) \/ (u = t /\ what = "add")
  <2>1. [timer |-> t, what |-> what] = [timer |-> u, what |-> "add"] <=> u = t /\ what = "add"
    OBVIOUS
  <2>2. \A k \in DOMAIN requests' : k = Len(requests) + 1 \/ k \in DOMAIN requests
    BY <1>2
  <2>3. Len(requests) + 1 \in DOMAIN requests' /\ \A k \in DOMAIN requests : k \in DOMAIN requests'
    BY <1>2
  <2>. QED  BY <1>2, <2>1, <2>2, <2>3 DEF Requested
<1>4. requests' # <<>>
  BY <1>2
<1>. QED  BY <1>2, <1>3, <1>4

(* No requests.                                                            *)
LEMMA NoRequests ==
  ASSUME requests' = <<>>
  PROVE  requests' \in Seq(Request) /\ DOMAIN requests' = {} /\ \A t \in Timers : ~Requested(t)'
BY DEF Requested

(* What the thread makes of the requests: it learns of nothing else, and   *)
(* nothing that is not cancelled is lost.                                  *)
LEMMA ProcessedRequests ==
  ASSUME TypeOK, RequestsOnce, NEW g \in Generations, NEW t \in Timers
  PROVE  /\ t \in ProcessRequestQueue(timers[g]) => t \in timers[g] \/ Requested(t)
         /\ ~cancelled[t] /\ (t \in timers[g] \/ Requested(t)) => t \in ProcessRequestQueue(timers[g])
<1>0. /\ requests \in Seq(Request) /\ Len(requests) \in Nat /\ DOMAIN requests = 1 .. Len(requests)
      /\ \A k \in DOMAIN requests :
           /\ requests[k].timer \in Timers /\ requests[k].what \in {"add", "remove"}
           /\ requests[k] = [timer |-> t, what |-> "add"]
                <=> requests[k].timer = t /\ requests[k].what = "add"
  BY RequestParts DEF TypeOK
<1>1. t \in ProcessRequestQueue(timers[g]) => t \in timers[g] \/ Requested(t)
  BY DEF ProcessRequestQueue, Adds, Requested
<1>2. ASSUME ~cancelled[t], t \in timers[g] PROVE t \in ProcessRequestQueue(timers[g])
  <2>1. ASSUME NEW k \in DOMAIN requests, requests[k].timer = t PROVE FALSE
    BY <1>0, <1>2, <2>1 DEF RequestsOnce, InSet
  <2>. QED  BY <1>2, <2>1 DEF ProcessRequestQueue
<1>3. ASSUME ~cancelled[t], Requested(t) PROVE t \in ProcessRequestQueue(timers[g])
  <2>1. PICK k \in DOMAIN requests : requests[k] = [timer |-> t, what |-> "add"]
    BY <1>3 DEF Requested
  <2>2. ASSUME NEW j \in DOMAIN requests, requests[j].timer = t PROVE j <= k
    <3>1. requests[j].what = "add"
      BY <1>0, <1>3, <2>2 DEF RequestsOnce
    <3>2. requests[j] = requests[k]
      BY <1>0, <2>1, <2>2, <3>1
    <3>3. j = k
      BY <3>1, <3>2 DEF RequestsOnce
    <3>. QED  BY <1>0, <3>3
  <2>3. k \in Adds(t)
    BY <2>1 DEF Adds
  <2>. QED  BY <2>2, <2>3 DEF ProcessRequestQueue
<1>. QED  BY <1>1, <1>2, <1>3

(* The generation that EnsureWorkerThread makes is new.                    *)
LEMMA NewGeneration ==
  ASSUME TypeOK, GenerationsInOrder, NEW t \in Timers, upc[t] = "new"
  PROVE  LET new == 1 + Cardinality({g \in Generations : wpc[g] # "none"})
         IN /\ new \in Generations /\ wpc[new] = "none"
            /\ \A g \in Generations : wpc[g] # "none" <=> g <= new - 1
            /\ new - 1 <= Cardinality({u \in Timers : Added(u)})
<1> DEFINE used == {g \in Generations : wpc[g] # "none"}
           added == {u \in Timers : Added(u)}
<1>1. PICK n \in 0 .. Cardinality(Timers) :
        (\A g \in Generations : wpc[g] # "none" <=> g <= n) /\ n <= Cardinality(added)
  BY DEF GenerationsInOrder
<1>2. IsFiniteSet(Timers) /\ Cardinality(Timers) \in Nat
  BY TimerAssumption, FS_CardinalityType
<1>3. n \in Nat /\ used = 1 .. n
  BY <1>1, <1>2 DEF Generations
<1>4. Cardinality(used) = n
  <2>1. Cardinality(1 .. n) = IF 1 > n THEN 0 ELSE n - 1 + 1
    BY <1>3, FS_Interval
  <2>2. Cardinality(1 .. n) = n
    BY <1>3, <2>1
  <2> HIDE DEF used
  <2>. QED  BY <1>3, <2>2
<1>5. added \subseteq Timers \ {t}
  BY DEF Added
<1>6. IsFiniteSet(Timers \ {t}) /\ Cardinality(Timers \ {t}) = Cardinality(Timers) - 1
  BY <1>2, FS_RemoveElement
<1>7. Cardinality(added) \in Nat /\ Cardinality(added) <= Cardinality(Timers) - 1
  BY <1>5, <1>6, FS_Subset, FS_CardinalityType
<1>8. n + 1 \in Generations
  BY <1>1, <1>2, <1>3, <1>7 DEF Generations
<1>9. wpc[n + 1] = "none"
  BY <1>1, <1>3, <1>8
<1> HIDE DEF used, added
<1>10. LET new == 1 + Cardinality(used)
       IN /\ new \in Generations /\ wpc[new] = "none"
          /\ \A g \in Generations : wpc[g] # "none" <=> g <= new - 1
          /\ new - 1 <= Cardinality(added)
  BY <1>1, <1>3, <1>4, <1>8, <1>9
<1>. QED  BY <1>10 DEF used, added

-----------------------------------------------------------------------------
(* What a step leaves alone.                                               *)

LEMMA Frames ==
  /\ GenerationsInOrder /\ UNCHANGED <<wpc, upc>> => GenerationsInOrder'
  /\ OneThread /\ UNCHANGED <<wpc, thread, idle, abort, timers>> => OneThread'
  /\ RequestsOnce /\ UNCHANGED <<requests, timers, cancelled, idle, abort, spc>>
       => RequestsOnce'
  /\ CallsInOrder /\ UNCHANGED <<upc, timers, requests, posted, outcome, cancelled, fired, kind>>
       => CallsInOrder'
  /\ PendingIsKept /\ UNCHANGED <<upc, cancelled, abort, kind, fired, requests, timers>>
       => PendingIsKept'
  /\ DelaysAreHeld /\ UNCHANGED <<kind, posted, outcome, requests, timers, upc, abort>>
       => DelaysAreHeld'
  /\ ShutDownInOrder /\ UNCHANGED <<spc, abort, thread, atomicAbort, open>> => ShutDownInOrder'
  /\ Announced /\ UNCHANGED <<wpc, requests, abort, upc, spc>> => Announced'
<1>1. GenerationsInOrder /\ UNCHANGED <<wpc, upc>> => GenerationsInOrder'
  BY DEF GenerationsInOrder, Added
<1>2. OneThread /\ UNCHANGED <<wpc, thread, idle, abort, timers>> => OneThread'
  BY DEF OneThread, InLoop
<1>3. RequestsOnce /\ UNCHANGED <<requests, timers, cancelled, idle, abort, spc>>
       => RequestsOnce'
  BY DEF RequestsOnce, InSet, Requested, Unlocked
<1>4. CallsInOrder /\ UNCHANGED <<upc, timers, requests, posted, outcome, cancelled, fired, kind>>
        => CallsInOrder'
  BY DEF CallsInOrder, InSet
<1>5. PendingIsKept /\ UNCHANGED <<upc, cancelled, abort, kind, fired, requests, timers>>
        => PendingIsKept'
  BY DEF PendingIsKept, Pending, Added, IsOneShot, Requested, InSet
<1>6. DelaysAreHeld /\ UNCHANGED <<kind, posted, outcome, requests, timers, upc, abort>>
        => DelaysAreHeld'
  BY DEF DelaysAreHeld, Requested, InSet, Added, Held
<1>7. ShutDownInOrder /\ UNCHANGED <<spc, abort, thread, atomicAbort, open>> => ShutDownInOrder'
  BY DEF ShutDownInOrder, Came
<1>8. Announced /\ UNCHANGED <<wpc, requests, abort, upc, spc>> => Announced'
  BY DEF Announced, Predicate
<1>. QED  BY <1>1, <1>2, <1>3, <1>4, <1>5, <1>6, <1>7, <1>8

(* Generations that only go on, and callers that only do.                  *)
LEMMA MoreAdded ==
  ASSUME GenerationsInOrder, \A u \in Timers : Added(u) => Added(u)',
         \A g \in Generations : wpc'[g] = "none" <=> wpc[g] = "none"
  PROVE  GenerationsInOrder'
<1> DEFINE before == {u \in Timers : Added(u)}
           after == {u \in Timers : Added(u)}'
<1>1. PICK n \in 0 .. Cardinality(Timers) :
        (\A g \in Generations : wpc[g] # "none" <=> g <= n) /\ n <= Cardinality(before)
  BY DEF GenerationsInOrder
<1>2. before \subseteq after /\ after \subseteq Timers
  OBVIOUS
<1>3. IsFiniteSet(after) /\ Cardinality(Timers) \in Nat
  BY <1>2, TimerAssumption, FS_Subset, FS_CardinalityType
<1>4. /\ Cardinality(before) \in Nat /\ Cardinality(after) \in Nat
      /\ Cardinality(before) <= Cardinality(after)
  BY <1>2, <1>3, FS_Subset, FS_CardinalityType
<1>5. n <= Cardinality(after)
  BY <1>1, <1>3, <1>4
<1> HIDE DEF before
<1>. QED  BY <1>1, <1>5 DEF GenerationsInOrder

(* The step that drops a reference: what is not held any more goes on with *)
(* an interruption, which needs a shutdown.                                *)
LEMMA AfterDrop ==
  ASSUME DropUnheld, posted' \in [Timers -> Nat],
         \A t \in Timers :
           /\ kind'[t] # "delay" => posted'[t] = 0
           /\ kind'[t] = "delay" =>
                /\ Requested(t)' \/ InSet(t)' => posted'[t] = 0 /\ outcome[t] = "none"
                /\ posted'[t] <= 1 /\ (posted'[t] = 1 => outcome[t] = "none")
                /\ Added(t)' /\ outcome[t] = "none" /\ ~abort' =>
                     Requested(t)' \/ InSet(t)' \/ posted'[t] > 0
           /\ outcome[t] = "interrupted" => abort'
  PROVE  DelaysAreHeld'
<1>1. \A t \in Timers : Requested(t)' \/ InSet(t)' \/ posted'[t] > 0 => Held(t)'
  BY DEF Requested, InSet, Held
<1>2. ASSUME NEW t \in Timers
      PROVE  outcome'[t] = IF kind'[t] = "delay" /\ Added(t)' /\ outcome[t] = "none" /\ ~ Held(t)'
                           THEN "interrupted" ELSE outcome[t]
  BY DEF DropUnheld, Added
<1>3. ASSUME NEW t \in Timers
      PROVE  /\ kind'[t] # "delay" => posted'[t] = 0
             /\ kind'[t] = "delay" =>
                  /\ Requested(t)' \/ InSet(t)' => posted'[t] = 0 /\ outcome'[t] = "none"
                  /\ posted'[t] <= 1 /\ (posted'[t] = 1 => outcome'[t] = "none")
                  /\ Added(t)' /\ outcome'[t] = "none" => Held(t)'
                  /\ Added(t)' /\ outcome'[t] = "none" /\ ~abort' =>
                       Requested(t)' \/ InSet(t)' \/ posted'[t] > 0
             /\ outcome'[t] = "interrupted" => abort'
  <2>1. posted'[t] \in Nat
    OBVIOUS
  <2>2. CASE kind'[t] = "delay" /\ Added(t)' /\ outcome[t] = "none" /\ ~ Held(t)'
    <3>1. outcome'[t] = "interrupted" /\ ~Requested(t)' /\ ~InSet(t)' /\ posted'[t] = 0
      BY <1>1, <1>2, <2>1, <2>2
    <3>. QED  BY <2>2, <3>1
  <2>3. CASE ~(kind'[t] = "delay" /\ Added(t)' /\ outcome[t] = "none" /\ ~ Held(t)')
    <3>1. outcome'[t] = outcome[t]
      BY <1>2, <2>3
    <3>. QED  BY <2>3, <3>1
  <2>. QED  BY <2>2, <2>3
<1>. QED  BY <1>3 DEF DelaysAreHeld

(* The outcomes keep their type.                                           *)
LEMMA DropType ==
  ASSUME outcome \in [Timers -> {"none", "resumed", "interrupted"}], DropUnheld
  PROVE  outcome' \in [Timers -> {"none", "resumed", "interrupted"}]
BY DEF DropUnheld

-----------------------------------------------------------------------------
LEMMA InitIInv == Init => IInv
<1> SUFFICES ASSUME Init PROVE IInv
  OBVIOUS
<1>1. TypeOK
  <2>1. /\ abort \in BOOLEAN /\ atomicAbort \in BOOLEAN /\ idle \in BOOLEAN /\ open \in BOOLEAN
        /\ cancelled \in [Timers -> BOOLEAN]
    BY DEF Init
  <2>2. /\ requests \in Seq(Request) /\ thread \in Generations \cup {0}
        /\ seen \in Nat /\ clock \in 0 .. MaxTime /\ fired \in SUBSET Timers
    BY TimerAssumption DEF Init
  <2>3. /\ wpc \in [Generations -> {"none", "look", "wait", "fire", "exit", "ended"}]
        /\ timers \in [Generations -> SUBSET Timers]
        /\ kind \in [Timers -> Kinds]
        /\ deadline \in [Timers -> Nat]
        /\ upc \in [Timers -> {"new", "notify", "join", "made", "push", "done"}]
        /\ joins \in [Timers -> Generations \cup {0}]
        /\ spc \in [Closers -> {"idle", "lock", "notify", "join", "stuck", "done", "tooLate"}]
        /\ posted \in [Timers -> Nat]
        /\ outcome \in [Timers -> {"none", "resumed", "interrupted"}]
    BY DEF Init, Kinds
  <2>. QED  BY <2>1, <2>2, <2>3 DEF TypeOK
<1>2. GenerationsInOrder
  <2>1. {t \in Timers : Added(t)} = {} /\ Cardinality({}) = 0
    BY FS_EmptySet DEF Init, Added
  <2>2. Cardinality(Timers) \in Nat
    BY TimerAssumption, FS_CardinalityType
  <2>3. \A g \in Generations : wpc[g] = "none" /\ ~(g <= 0)
    BY <2>2 DEF Init, Generations
  <2>4. 0 \in 0 .. Cardinality(Timers)
    BY <2>2
  <2>. QED  BY <2>1, <2>3, <2>4 DEF GenerationsInOrder
<1>3. OneThread
  BY DEF Init, OneThread, InLoop
<1>4. \A t \in Timers : ~Requested(t) /\ ~InSet(t)
  BY DEF Init, Requested, InSet
<1>5. RequestsOnce
  BY <1>4 DEF Init, RequestsOnce
<1>6. CallsInOrder
  BY <1>4 DEF Init, CallsInOrder
<1>7. PendingIsKept
  BY DEF Init, PendingIsKept, Pending, Added
<1>8. DelaysAreHeld
  BY <1>4 DEF Init, DelaysAreHeld, Added
<1>9. ShutDownInOrder
  BY DEF Init, ShutDownInOrder, Came
<1>10. Announced
  BY DEF Init, Announced
<1>. QED  BY <1>1, <1>2, <1>3, <1>5, <1>6, <1>7, <1>8, <1>9, <1>10 DEF IInv

-----------------------------------------------------------------------------
(* The callers.                                                            *)

(* A timer that is made is that of its caller alone.                       *)
LEMMA Constructed ==
  ASSUME TypeOK, NEW t \in Timers, Construct(t)
  PROVE  /\ upc[t] = "new"
         /\ kind' \in [Timers -> Kinds] /\ \A u \in Timers : u # t => kind'[u] = kind[u]
         /\ deadline' \in [Timers -> Nat]
BY TimerAssumption DEF TypeOK, Construct

LEMMA RefuseTimerIInv ==
  ASSUME IInv, NEW t \in Timers, RefuseTimer(t)
  PROVE  IInv'
<1>0. /\ TypeOK /\ GenerationsInOrder /\ OneThread /\ RequestsOnce /\ CallsInOrder
      /\ PendingIsKept /\ DelaysAreHeld /\ ShutDownInOrder /\ Announced
  BY DEF IInv
<1>1. /\ upc[t] = "new" /\ abort
      /\ kind' \in [Timers -> Kinds] /\ \A u \in Timers : u # t => kind'[u] = kind[u]
      /\ deadline' \in [Timers -> Nat]
      /\ upc' = [upc EXCEPT ![t] = "done"]
      /\ UNCHANGED <<requests, abort, atomicAbort, idle, thread, wpc, timers, seen, clock,
                     cancelled, joins, spc, open, posted, fired>>
      /\ DropUnheld
  BY <1>0, Constructed DEF RefuseTimer, queue, worker, executor
<1>2. /\ upc \in [Timers -> {"new", "notify", "join", "made", "push", "done"}]
      /\ upc' \in [Timers -> {"new", "notify", "join", "made", "push", "done"}]
      /\ upc'[t] = "done" /\ \A u \in Timers : u # t => upc'[u] = upc[u]
      /\ posted \in [Timers -> Nat]
      /\ outcome \in [Timers -> {"none", "resumed", "interrupted"}]
  BY <1>0, <1>1 DEF TypeOK
<1>3. TypeOK'
  BY <1>0, <1>1, <1>2, DropType DEF TypeOK
<1>4. GenerationsInOrder'
  BY <1>0, <1>1, <1>2, MoreAdded DEF Added
<1>5. OneThread' /\ RequestsOnce' /\ ShutDownInOrder'
  BY <1>0, <1>1, Frames
<1>6. \A u \in Timers : /\ Requested(u)' <=> Requested(u)
                        /\ InSet(u)' <=> InSet(u)
  BY <1>1 DEF Requested, InSet
<1>7. CallsInOrder'
  <2>1. \A u \in Timers : upc'[u] = "new" => outcome'[u] = outcome[u]
    BY <1>1 DEF DropUnheld
  <2>. QED  BY <1>0, <1>1, <1>2, <1>6, <2>1 DEF CallsInOrder
<1>8. PendingIsKept'
  BY <1>1 DEF PendingIsKept, Pending
<1>9. DelaysAreHeld'
  <2>1. posted[t] = 0 /\ outcome[t] = "none" /\ ~InSet(t) /\ ~Requested(t)
    BY <1>0, <1>1 DEF CallsInOrder, Requested
  <2>. QED  BY <1>0, <1>1, <1>2, <1>6, <2>1, AfterDrop DEF DelaysAreHeld, Added
<1>10. Announced'
  BY <1>0, <1>1, <1>2 DEF Announced, Predicate
<1>. QED  BY <1>3, <1>4, <1>5, <1>7, <1>8, <1>9, <1>10 DEF IInv

LEMMA AddTimerIInv ==
  ASSUME IInv, NEW t \in Timers, AddTimer(t)
  PROVE  IInv'
<1>0. /\ TypeOK /\ GenerationsInOrder /\ OneThread /\ RequestsOnce /\ CallsInOrder
      /\ PendingIsKept /\ DelaysAreHeld /\ ShutDownInOrder /\ Announced
  BY DEF IInv
<1>1. /\ upc[t] = "new" /\ ~abort
      /\ kind' \in [Timers -> Kinds] /\ \A u \in Timers : u # t => kind'[u] = kind[u]
      /\ deadline' \in [Timers -> Nat]
      /\ requests' = Append(requests, [timer |-> t, what |-> "add"])
      /\ upc' = [upc EXCEPT ![t] = "notify"]
      /\ UNCHANGED <<abort, atomicAbort, timers, seen, clock, cancelled, spc, open, posted, fired,
                     outcome>>
      /\ EnsureWorkerThread(t)
  BY <1>0, Constructed DEF AddTimer, executor
<1>2. /\ upc \in [Timers -> {"new", "notify", "join", "made", "push", "done"}]
      /\ upc' \in [Timers -> {"new", "notify", "join", "made", "push", "done"}]
      /\ upc'[t] = "notify" /\ \A u \in Timers : u # t => upc'[u] = upc[u]
      /\ wpc \in [Generations -> {"none", "look", "wait", "fire", "exit", "ended"}]
      /\ requests \in Seq(Request)
  BY <1>0, <1>1 DEF TypeOK
<1>3. /\ posted[t] = 0 /\ outcome[t] = "none" /\ ~cancelled[t] /\ t \notin fired
      /\ ~InSet(t) /\ \A k \in DOMAIN requests : requests[k].timer # t
  BY <1>0, <1>1 DEF CallsInOrder
<1>4. /\ requests' \in Seq(Request) /\ requests' # <<>>
      /\ Len(requests) + 1 \in DOMAIN requests'
      /\ requests'[Len(requests) + 1].timer = t /\ requests'[Len(requests) + 1].what = "add"
      /\ \A k \in DOMAIN requests : k \in DOMAIN requests' /\ requests'[k] = requests[k]
      /\ \A k \in DOMAIN requests' : k = Len(requests) + 1 \/ k \in DOMAIN requests
      /\ \A u \in Timers : Requested(u)' <=> Requested(u) \/ u = t
  BY <1>1, <1>2, OneMoreRequest
<1>5. \A u \in Timers : InSet(u)' <=> InSet(u)
  BY <1>1 DEF InSet
(* The thread that runs then.                                              *)
<1>6. ASSUME ~idle
      PROVE  TypeOK' /\ OneThread' /\ GenerationsInOrder' /\ ShutDownInOrder' /\ ~idle'
  <2>1. UNCHANGED <<wpc, thread, joins, idle>>
    BY <1>1, <1>6 DEF EnsureWorkerThread
  <2>2. OneThread' /\ ShutDownInOrder'
    BY <1>0, <1>1, <2>1, Frames
  <2>3. GenerationsInOrder'
    BY <1>0, <1>1, <1>2, <2>1, MoreAdded DEF Added
  <2>4. TypeOK'
    BY <1>0, <1>1, <1>2, <1>4, <2>1 DEF TypeOK
  <2>. QED  BY <1>6, <2>1, <2>2, <2>3, <2>4
<1>7. ASSUME idle
      PROVE  TypeOK' /\ OneThread' /\ GenerationsInOrder' /\ ShutDownInOrder' /\ ~idle'
  <2> DEFINE new == 1 + Cardinality({g \in Generations : wpc[g] # "none"})
  <2>1. /\ new \in Generations /\ wpc[new] = "none"
        /\ \A g \in Generations : wpc[g] # "none" <=> g <= new - 1
        /\ new - 1 <= Cardinality({u \in Timers : Added(u)})
    BY <1>0, <1>1, NewGeneration
  <2>2. /\ wpc' = [wpc EXCEPT ![new] = "look"] /\ thread' = new
        /\ joins' = [joins EXCEPT ![t] = thread] /\ idle' = FALSE
    BY <1>1, <1>7 DEF EnsureWorkerThread
  <2> HIDE DEF new
  <2>3. TypeOK'
    BY <1>0, <1>1, <1>2, <1>4, <2>1, <2>2 DEF TypeOK
  <2>4. OneThread'
    <3>1. \A g \in Generations : ~InLoop(g) /\ timers[g] = {}
      BY <1>0, <1>1, <1>7 DEF OneThread
    <3>2. \A g \in Generations : (g # new => wpc'[g] = wpc[g]) /\ wpc'[new] = "look"
      BY <1>2, <2>1, <2>2
    <3>. QED  BY <1>1, <2>1, <2>2, <3>1, <3>2 DEF OneThread, InLoop
  <2>5. GenerationsInOrder'
    <3>1. {u \in Timers : Added(u)}' = {u \in Timers : Added(u)} \cup {t}
      BY <1>2 DEF Added
    <3>2. t \notin {u \in Timers : Added(u)}
      BY <1>1 DEF Added
    <3>3. IsFiniteSet({u \in Timers : Added(u)})
      BY TimerAssumption, FS_Subset
    <3>4. /\ Cardinality({u \in Timers : Added(u)}') = Cardinality({u \in Timers : Added(u)}) + 1
          /\ Cardinality({u \in Timers : Added(u)}) \in Nat
      BY <3>1, <3>2, <3>3, FS_AddElement, FS_CardinalityType
    <3>5. Cardinality(Timers) \in Nat
      BY TimerAssumption, FS_CardinalityType
    <3>6. new \in 0 .. Cardinality(Timers) /\ new <= Cardinality({u \in Timers : Added(u)}')
      BY <2>1, <3>4, <3>5 DEF Generations
    <3>7. \A g \in Generations : wpc'[g] # "none" <=> g <= new
      BY <1>2, <2>1, <2>2, <3>5 DEF Generations
    <3>. QED  BY <3>6, <3>7 DEF GenerationsInOrder
  <2>6. ShutDownInOrder' /\ ~idle'
    <3>1. \A s \in Closers : spc[s] # "done"
      BY <1>0, <1>1 DEF ShutDownInOrder
    <3>. QED  BY <1>0, <1>1, <2>2, <3>1 DEF ShutDownInOrder, Came
  <2>. QED  BY <2>3, <2>4, <2>5, <2>6
<1>8. TypeOK' /\ OneThread' /\ GenerationsInOrder' /\ ShutDownInOrder' /\ ~idle'
  BY <1>6, <1>7
<1>9. RequestsOnce'
  <2>1. \A j, k \in DOMAIN requests' :
          requests'[j].what = "add" /\ requests'[k] = requests'[j] => j = k
    BY <1>0, <1>3, <1>4 DEF RequestsOnce
  <2>2. \A k \in DOMAIN requests' :
          IF requests'[k].what = "add" THEN ~InSet(requests'[k].timer)
                                       ELSE cancelled[requests'[k].timer]
    BY <1>0, <1>3, <1>4 DEF RequestsOnce
  <2>3. \A k \in DOMAIN requests' :
          IF requests'[k].what = "add"
          THEN \A g \in Generations : requests'[k].timer \notin timers'[g]
          ELSE cancelled'[requests'[k].timer]
    BY <1>1, <2>2 DEF InSet
  <2>. QED  BY <1>1, <1>8, <2>1, <2>3 DEF RequestsOnce, InSet
<1>10. CallsInOrder'
  <2>1. ASSUME NEW u \in Timers, upc'[u] = "new"
        PROVE  /\ ~InSet(u)' /\ \A k \in DOMAIN requests' : requests'[k].timer # u
               /\ posted'[u] = 0 /\ outcome'[u] = "none" /\ ~cancelled'[u] /\ u \notin fired'
    BY <1>0, <1>1, <1>2, <1>4, <1>5, <2>1 DEF CallsInOrder
  <2>2. \A u \in Timers : upc'[u] = "push" => cancelled'[u]
    BY <1>0, <1>1, <1>2 DEF CallsInOrder
  <2>3. \A u \in Timers : cancelled'[u] => kind'[u] # "delay"
    BY <1>0, <1>1, <1>3 DEF CallsInOrder
  <2>. QED  BY <2>1, <2>2, <2>3 DEF CallsInOrder
<1>11. PendingIsKept'
  BY <1>0, <1>1, <1>2, <1>4, <1>5 DEF PendingIsKept, Pending, Added, IsOneShot
<1>12. DelaysAreHeld'
  <2>1. \A u \in Timers : Held(u) /\ u # t => Held(u)'
    BY <1>1, <1>2, <1>4 DEF Held
  <2>2. Requested(t)' /\ Held(t)'
    BY <1>2, <1>4 DEF Held
  <2>. QED  BY <1>0, <1>1, <1>2, <1>3, <1>4, <1>5, <2>1, <2>2 DEF DelaysAreHeld, Added
<1>13. Announced'
  BY <1>2 DEF Announced
<1>. QED  BY <1>8, <1>9, <1>10, <1>11, <1>12, <1>13 DEF IInv

(* A notification wakes the thread up and does nothing else.               *)
LEMMA AfterNotified ==
  ASSUME IInv, wpc' = Notified, UNCHANGED <<thread, idle, abort, timers>>,
         \A u \in Timers : Added(u) => Added(u)'
  PROVE  /\ wpc' \in [Generations -> {"none", "look", "wait", "fire", "exit", "ended"}]
         /\ OneThread' /\ GenerationsInOrder' /\ Announced'
<1>0. TypeOK /\ OneThread /\ GenerationsInOrder
  BY DEF IInv
<1>1. wpc \in [Generations -> {"none", "look", "wait", "fire", "exit", "ended"}]
  BY <1>0 DEF TypeOK
<1>2. /\ wpc' \in [Generations -> {"none", "look", "wait", "fire", "exit", "ended"}]
      /\ \A g \in Generations : wpc'[g] = IF wpc[g] = "wait" THEN "look" ELSE wpc[g]
  BY <1>1 DEF Notified
<1>3. OneThread'
  BY <1>0, <1>2 DEF OneThread, InLoop
<1>4. GenerationsInOrder'
  BY <1>0, <1>2, MoreAdded
<1>5. Announced'
  BY <1>2 DEF Announced
<1>. QED  BY <1>2, <1>3, <1>4, <1>5

(* A call goes on, and lets its reference to the timer go.                 *)
LEMMA CallGoesOn ==
  ASSUME IInv, DropUnheld,
         UNCHANGED <<requests, timers, kind, cancelled, posted, fired, abort, idle, spc>>,
         \A u \in Timers : (Added(u)' <=> Added(u)) /\ (upc'[u] = "push" => upc[u] = "push")
  PROVE  /\ outcome' \in [Timers -> {"none", "resumed", "interrupted"}]
         /\ RequestsOnce' /\ CallsInOrder' /\ PendingIsKept' /\ DelaysAreHeld'
<1>0. TypeOK /\ RequestsOnce /\ CallsInOrder /\ PendingIsKept /\ DelaysAreHeld
  BY DEF IInv
<1>1. outcome' \in [Timers -> {"none", "resumed", "interrupted"}]
  BY <1>0, DropType DEF TypeOK
<1>2. RequestsOnce'
  BY <1>0, Frames
<1>3. \A u \in Timers : /\ Requested(u)' <=> Requested(u)
                        /\ InSet(u)' <=> InSet(u)
  BY DEF Requested, InSet
<1>4. CallsInOrder'
  <2>1. \A u \in Timers : upc'[u] = "new" => upc[u] = "new" /\ outcome'[u] = outcome[u]
    BY DEF DropUnheld, Added
  <2>. QED  BY <1>0, <1>3, <2>1 DEF CallsInOrder
<1>5. PendingIsKept'
  BY <1>0, <1>3 DEF PendingIsKept, Pending, IsOneShot
<1>6. DelaysAreHeld'
  <2>1. posted' \in [Timers -> Nat]
    BY <1>0 DEF TypeOK
  <2>. QED  BY <1>0, <1>3, <2>1, AfterDrop DEF DelaysAreHeld
<1>. QED  BY <1>1, <1>2, <1>4, <1>5, <1>6

LEMMA NotifyAddedIInv ==
  ASSUME IInv, NEW t \in Timers, NotifyAdded(t)
  PROVE  IInv'
<1>0. TypeOK /\ ShutDownInOrder
  BY DEF IInv
<1>1. /\ upc[t] = "notify" /\ wpc' = Notified
      /\ upc' = [upc EXCEPT ![t] = IF joins[t] # 0 THEN "join" ELSE "made"]
      /\ UNCHANGED <<requests, abort, atomicAbort, idle, thread, timers, seen, clock, kind,
                     deadline, cancelled, joins, spc, open, posted, fired>>
      /\ DropUnheld
  BY DEF NotifyAdded, queue, objects, executor
<1>2. /\ upc' \in [Timers -> {"new", "notify", "join", "made", "push", "done"}]
      /\ upc'[t] \in {"join", "made"} /\ \A u \in Timers : u # t => upc'[u] = upc[u]
  BY <1>0, <1>1 DEF TypeOK
<1>3. \A u \in Timers : (Added(u)' <=> Added(u)) /\ (upc'[u] = "push" => upc[u] = "push")
  BY <1>1, <1>2 DEF Added
<1>4. /\ wpc' \in [Generations -> {"none", "look", "wait", "fire", "exit", "ended"}]
      /\ OneThread' /\ GenerationsInOrder' /\ Announced'
  BY <1>1, <1>3, AfterNotified
<1>5. /\ outcome' \in [Timers -> {"none", "resumed", "interrupted"}]
      /\ RequestsOnce' /\ CallsInOrder' /\ PendingIsKept' /\ DelaysAreHeld'
  BY <1>1, <1>3, CallGoesOn
<1>6. TypeOK'
  BY <1>0, <1>1, <1>2, <1>4, <1>5 DEF TypeOK
<1>7. ShutDownInOrder'
  BY <1>0, <1>1, Frames
<1>. QED  BY <1>4, <1>5, <1>6, <1>7 DEF IInv

LEMMA JoinOldIInv ==
  ASSUME IInv, NEW t \in Timers, JoinOld(t)
  PROVE  IInv'
<1>0. TypeOK /\ ShutDownInOrder /\ OneThread /\ GenerationsInOrder /\ Announced
  BY DEF IInv
<1>1. /\ upc[t] = "join" /\ upc' = [upc EXCEPT ![t] = "made"]
      /\ joins' = [joins EXCEPT ![t] = 0]
      /\ UNCHANGED <<requests, abort, atomicAbort, idle, thread, wpc, timers, seen, clock, kind,
                     deadline, cancelled, spc, open, posted, fired>>
      /\ DropUnheld
  BY DEF JoinOld, queue, worker, objects, executor
<1>2. /\ upc' \in [Timers -> {"new", "notify", "join", "made", "push", "done"}]
      /\ upc'[t] = "made" /\ \A u \in Timers : u # t => upc'[u] = upc[u]
      /\ joins' \in [Timers -> Generations \cup {0}]
  BY <1>0, <1>1 DEF TypeOK
<1>3. \A u \in Timers : (Added(u)' <=> Added(u)) /\ (upc'[u] = "push" => upc[u] = "push")
  BY <1>1, <1>2 DEF Added
<1>4. OneThread' /\ ShutDownInOrder'
  BY <1>0, <1>1, Frames
<1>5. GenerationsInOrder'
  BY <1>0, <1>1, <1>3, MoreAdded
<1>6. /\ outcome' \in [Timers -> {"none", "resumed", "interrupted"}]
      /\ RequestsOnce' /\ CallsInOrder' /\ PendingIsKept' /\ DelaysAreHeld'
  BY <1>1, <1>3, CallGoesOn
<1>7. TypeOK'
  BY <1>0, <1>1, <1>2, <1>6 DEF TypeOK
<1>8. Announced'
  BY <1>0, <1>1, <1>2 DEF Announced, Predicate
<1>. QED  BY <1>4, <1>5, <1>6, <1>7, <1>8 DEF IInv

LEMMA CancelIInv ==
  ASSUME IInv, NEW t \in Timers, Cancel(t)
  PROVE  IInv'
<1>0. /\ TypeOK /\ GenerationsInOrder /\ OneThread /\ RequestsOnce /\ CallsInOrder
      /\ PendingIsKept /\ DelaysAreHeld /\ ShutDownInOrder /\ Announced
  BY DEF IInv
<1>1. /\ upc[t] = "made" /\ kind[t] # "delay"
      /\ cancelled' = [cancelled EXCEPT ![t] = TRUE]
      /\ upc' = [upc EXCEPT ![t] = "push"]
      /\ UNCHANGED <<requests, abort, atomicAbort, idle, thread, wpc, timers, seen, clock, kind,
                     deadline, joins, spc, open, posted, fired, outcome>>
  BY DEF Cancel, queue, worker, executor
<1>2. /\ upc' \in [Timers -> {"new", "notify", "join", "made", "push", "done"}]
      /\ upc'[t] = "push" /\ \A u \in Timers : u # t => upc'[u] = upc[u]
      /\ cancelled'[t] /\ \A u \in Timers : u # t => cancelled'[u] = cancelled[u]
  BY <1>0, <1>1 DEF TypeOK
<1>3. cancelled' \in [Timers -> BOOLEAN]
  BY <1>0, <1>1 DEF TypeOK
<1>4. \A u \in Timers : /\ Requested(u)' <=> Requested(u)
                        /\ InSet(u)' <=> InSet(u)
                        /\ Added(u)' <=> Added(u)
  BY <1>1, <1>2 DEF Requested, InSet, Added
<1>5. TypeOK'
  BY <1>0, <1>1, <1>2, <1>3 DEF TypeOK
<1>6. OneThread' /\ ShutDownInOrder'
  BY <1>0, <1>1, Frames
<1>7. GenerationsInOrder'
  BY <1>0, <1>1, <1>4, MoreAdded
<1>8. RequestsOnce'
  <2>1. \A k \in DOMAIN requests : requests[k].timer \in Timers
    BY <1>0, RequestParts DEF TypeOK
  <2>. QED  BY <1>0, <1>1, <1>2, <2>1 DEF RequestsOnce, InSet, Requested, Unlocked
<1>9. CallsInOrder'
  BY <1>0, <1>1, <1>2, <1>4 DEF CallsInOrder
<1>10. PendingIsKept'
  BY <1>0, <1>1, <1>2, <1>4 DEF PendingIsKept, Pending, IsOneShot
<1>11. DelaysAreHeld'
  <2>1. \A u \in Timers : Held(u) => Held(u)'
    BY <1>1, <1>2 DEF Held
  <2>. QED  BY <1>0, <1>1, <1>4, <2>1 DEF DelaysAreHeld
<1>12. Announced'
  BY <1>0, <1>1, <1>2 DEF Announced, Predicate
<1>. QED  BY <1>5, <1>6, <1>7, <1>8, <1>9, <1>10, <1>11, <1>12 DEF IInv

LEMMA RemoveInternalTimerIInv ==
  ASSUME IInv, NEW t \in Timers, RemoveInternalTimer(t)
  PROVE  IInv'
<1>0. /\ TypeOK /\ GenerationsInOrder /\ OneThread /\ RequestsOnce /\ CallsInOrder
      /\ PendingIsKept /\ DelaysAreHeld /\ ShutDownInOrder /\ Announced
  BY DEF IInv
<1>1. /\ upc[t] = "push" /\ wpc' = Notified
      /\ requests' = Append(requests, [timer |-> t, what |-> "remove"])
      /\ upc' = [upc EXCEPT ![t] = "done"]
      /\ UNCHANGED <<abort, atomicAbort, idle, thread, timers, seen, clock, kind, deadline,
                     cancelled, joins, spc, open, posted, fired, outcome>>
  BY DEF RemoveInternalTimer, objects, executor
<1>2. /\ upc' \in [Timers -> {"new", "notify", "join", "made", "push", "done"}]
      /\ upc'[t] = "done" /\ \A u \in Timers : u # t => upc'[u] = upc[u]
  BY <1>0, <1>1 DEF TypeOK
<1>3. /\ requests' \in Seq(Request)
      /\ requests'[Len(requests) + 1].timer = t /\ requests'[Len(requests) + 1].what = "remove"
      /\ \A k \in DOMAIN requests : k \in DOMAIN requests' /\ requests'[k] = requests[k]
      /\ \A k \in DOMAIN requests' : k = Len(requests) + 1 \/ k \in DOMAIN requests
      /\ \A u \in Timers : Requested(u)' <=> Requested(u)
  <2>1. requests \in Seq(Request)
    BY <1>0 DEF TypeOK
  <2>. QED  BY <1>1, <2>1, OneMoreRequest
<1>4. cancelled[t] /\ kind[t] # "delay"
  BY <1>0, <1>1 DEF CallsInOrder
<1>5. \A u \in Timers : (InSet(u)' <=> InSet(u)) /\ (Added(u)' <=> Added(u))
  BY <1>1, <1>2 DEF InSet, Added
<1>6. /\ wpc' \in [Generations -> {"none", "look", "wait", "fire", "exit", "ended"}]
      /\ OneThread' /\ GenerationsInOrder' /\ Announced'
  BY <1>1, <1>5, AfterNotified
<1>7. TypeOK'
  BY <1>0, <1>1, <1>2, <1>3, <1>6 DEF TypeOK
<1>8. RequestsOnce'
  <2>1. \A j, k \in DOMAIN requests' :
          requests'[j].what = "add" /\ requests'[k] = requests'[j] => j = k
    BY <1>0, <1>3 DEF RequestsOnce
  <2>2. \A k \in DOMAIN requests' :
          IF requests'[k].what = "add"
          THEN \A g \in Generations : requests'[k].timer \notin timers'[g]
          ELSE cancelled'[requests'[k].timer]
    BY <1>0, <1>1, <1>3, <1>4 DEF RequestsOnce, InSet
  <2>. QED  BY <1>0, <1>1, <1>3, <2>1, <2>2 DEF RequestsOnce, InSet, Unlocked
<1>9. CallsInOrder'
  BY <1>0, <1>1, <1>2, <1>3, <1>5 DEF CallsInOrder
<1>10. PendingIsKept'
  BY <1>0, <1>1, <1>3, <1>5 DEF PendingIsKept, Pending, IsOneShot
<1>11. DelaysAreHeld'
  <2>1. \A u \in Timers : Held(u) => Held(u)'
    BY <1>1, <1>2, <1>3 DEF Held
  <2>. QED  BY <1>0, <1>1, <1>3, <1>5, <2>1 DEF DelaysAreHeld
<1>12. ShutDownInOrder'
  BY <1>0, <1>1, Frames
<1>. QED  BY <1>6, <1>7, <1>8, <1>9, <1>10, <1>11, <1>12 DEF IInv

LEMMA ExecuteIInv ==
  ASSUME IInv, NEW t \in Timers, Execute(t)
  PROVE  IInv'
<1>0. /\ TypeOK /\ GenerationsInOrder /\ OneThread /\ RequestsOnce /\ CallsInOrder
      /\ PendingIsKept /\ DelaysAreHeld /\ ShutDownInOrder /\ Announced
  BY DEF IInv
<1>1. /\ posted[t] > 0 /\ posted' = [posted EXCEPT ![t] = @ - 1]
      /\ outcome' = [outcome EXCEPT ![t] = "resumed"]
      /\ UNCHANGED <<requests, abort, atomicAbort, idle, thread, wpc, timers, seen, clock, kind,
                     deadline, cancelled, upc, joins, spc, open, fired>>
  BY DEF Execute, queue, worker, objects, callers
<1>2. posted \in [Timers -> Nat] /\ outcome \in [Timers -> {"none", "resumed", "interrupted"}]
  BY <1>0 DEF TypeOK
<1>3. /\ kind[t] = "delay" /\ posted[t] = 1 /\ outcome[t] = "none" /\ ~Requested(t) /\ ~InSet(t)
  BY <1>0, <1>1, <1>2 DEF DelaysAreHeld
<1>4. /\ posted' \in [Timers -> Nat] /\ posted'[t] = 0
      /\ outcome' \in [Timers -> {"none", "resumed", "interrupted"}] /\ outcome'[t] = "resumed"
      /\ \A u \in Timers : u # t => posted'[u] = posted[u] /\ outcome'[u] = outcome[u]
  BY <1>1, <1>2, <1>3
<1>5. TypeOK'
  BY <1>0, <1>1, <1>4 DEF TypeOK
<1>6. /\ GenerationsInOrder' /\ OneThread' /\ RequestsOnce' /\ PendingIsKept'
      /\ ShutDownInOrder' /\ Announced'
  BY <1>0, <1>1, Frames
<1>7. \A u \in Timers : /\ Requested(u)' <=> Requested(u)
                        /\ InSet(u)' <=> InSet(u)
                        /\ Added(u)' <=> Added(u)
  BY <1>1 DEF Requested, InSet, Added
<1>8. CallsInOrder'
  BY <1>0, <1>1, <1>3, <1>4, <1>7 DEF CallsInOrder
<1>9. DelaysAreHeld'
  <2>1. \A u \in Timers : Held(u) /\ u # t => Held(u)'
    BY <1>1, <1>4 DEF Held
  <2>. QED  BY <1>0, <1>1, <1>2, <1>3, <1>4, <1>7, <2>1 DEF DelaysAreHeld
<1>. QED  BY <1>5, <1>6, <1>8, <1>9 DEF IInv

-----------------------------------------------------------------------------
(* The thread of the queue.                                                *)

(* The thread g goes from one place of its loop to another.                *)
LEMMA ThreadGoesOn ==
  ASSUME IInv, NEW g \in Generations, NEW to \in {"look", "wait", "fire", "exit", "ended"},
         wpc[g] # "none", wpc' = [wpc EXCEPT ![g] = to], UNCHANGED upc
  PROVE  /\ wpc' \in [Generations -> {"none", "look", "wait", "fire", "exit", "ended"}]
         /\ wpc'[g] = to /\ \A h \in Generations : h # g => wpc'[h] = wpc[h]
         /\ GenerationsInOrder'
<1>0. TypeOK /\ GenerationsInOrder
  BY DEF IInv
<1>1. /\ wpc' \in [Generations -> {"none", "look", "wait", "fire", "exit", "ended"}]
      /\ wpc'[g] = to /\ \A h \in Generations : h # g => wpc'[h] = wpc[h]
  BY <1>0 DEF TypeOK
<1>2. GenerationsInOrder'
  BY <1>0, <1>1, MoreAdded DEF Added
<1>. QED  BY <1>1, <1>2

LEMMA SleepIInv ==
  ASSUME IInv, NEW g \in Generations, Sleep(g)
  PROVE  IInv'
<1>0. /\ TypeOK /\ OneThread /\ RequestsOnce /\ CallsInOrder
      /\ PendingIsKept /\ DelaysAreHeld /\ ShutDownInOrder /\ Announced
  BY DEF IInv
<1>1. /\ wpc[g] = "look" /\ ~Predicate /\ wpc' = [wpc EXCEPT ![g] = "wait"]
      /\ UNCHANGED <<requests, abort, atomicAbort, idle, thread, timers, seen, clock, kind,
                     deadline, cancelled, upc, joins, spc, open, posted, fired, outcome>>
  BY DEF Sleep, queue, objects, callers, executor
<1>2. /\ wpc' \in [Generations -> {"none", "look", "wait", "fire", "exit", "ended"}]
      /\ wpc'[g] = "wait" /\ \A h \in Generations : h # g => wpc'[h] = wpc[h]
      /\ GenerationsInOrder'
  BY <1>1, ThreadGoesOn
<1>3. TypeOK'
  BY <1>0, <1>1, <1>2 DEF TypeOK
<1>4. RequestsOnce' /\ CallsInOrder' /\ PendingIsKept' /\ DelaysAreHeld' /\ ShutDownInOrder'
  BY <1>0, <1>1, Frames
<1>5. OneThread'
  BY <1>0, <1>1, <1>2 DEF OneThread, InLoop
<1>6. Announced'
  BY <1>1 DEF Announced, Predicate
<1>. QED  BY <1>2, <1>3, <1>4, <1>5, <1>6 DEF IInv

LEMMA EndIdleIInv ==
  ASSUME IInv, NEW g \in Generations, EndIdle(g)
  PROVE  IInv'
<1>0. /\ TypeOK /\ OneThread /\ RequestsOnce /\ CallsInOrder
      /\ PendingIsKept /\ DelaysAreHeld /\ ShutDownInOrder /\ Announced
  BY DEF IInv
<1>1. /\ wpc[g] = "wait" /\ timers[g] = {} /\ requests = <<>> /\ ~abort
      /\ idle' = TRUE /\ wpc' = [wpc EXCEPT ![g] = "exit"]
      /\ UNCHANGED <<requests, abort, atomicAbort, thread, timers, seen, clock, kind,
                     deadline, cancelled, upc, joins, spc, open, posted, fired, outcome>>
  BY DEF EndIdle, TimedOut, Predicate, objects, callers, executor
<1>2. /\ wpc' \in [Generations -> {"none", "look", "wait", "fire", "exit", "ended"}]
      /\ wpc'[g] = "exit" /\ \A h \in Generations : h # g => wpc'[h] = wpc[h]
      /\ GenerationsInOrder'
  BY <1>1, ThreadGoesOn
<1>3. TypeOK'
  BY <1>0, <1>1, <1>2 DEF TypeOK
<1>4. CallsInOrder' /\ PendingIsKept' /\ DelaysAreHeld' /\ ShutDownInOrder'
  BY <1>0, <1>1, Frames
<1>5. OneThread'
  <2>1. g = thread
    BY <1>0, <1>1 DEF OneThread, InLoop
  <2>2. \A h \in Generations : ~InLoop(h)'
    BY <1>0, <1>1, <1>2, <2>1 DEF OneThread, InLoop
  <2>3. \A h \in Generations : timers'[h] = {}
    BY <1>0, <1>1, <2>1 DEF OneThread
  <2>. QED  BY <1>1, <2>2, <2>3 DEF OneThread
<1>6. RequestsOnce'
  <2>1. \A u \in Timers : ~Requested(u)'
    BY <1>1 DEF Requested
  <2>. QED  BY <1>0, <1>1, <2>1 DEF RequestsOnce, InSet
<1>7. Announced'
  BY <1>1 DEF Announced, Predicate
<1>. QED  BY <1>2, <1>3, <1>4, <1>5, <1>6, <1>7 DEF IInv

LEMMA EndAbortedIInv ==
  ASSUME IInv, NEW g \in Generations, EndAborted(g)
  PROVE  IInv'
<1>0. /\ TypeOK /\ OneThread /\ RequestsOnce /\ CallsInOrder
      /\ PendingIsKept /\ DelaysAreHeld /\ ShutDownInOrder /\ Announced
  BY DEF IInv
<1>1. /\ wpc[g] \in {"look", "wait"} /\ abort /\ wpc' = [wpc EXCEPT ![g] = "exit"]
      /\ UNCHANGED <<requests, abort, atomicAbort, idle, thread, timers, seen, clock, kind,
                     deadline, cancelled, upc, joins, spc, open, posted, fired, outcome>>
  BY DEF EndAborted, TimedOut, queue, objects, callers, executor
<1>2. /\ wpc' \in [Generations -> {"none", "look", "wait", "fire", "exit", "ended"}]
      /\ wpc'[g] = "exit" /\ \A h \in Generations : h # g => wpc'[h] = wpc[h]
      /\ GenerationsInOrder'
  BY <1>1, ThreadGoesOn
<1>3. TypeOK'
  BY <1>0, <1>1, <1>2 DEF TypeOK
<1>4. RequestsOnce' /\ CallsInOrder' /\ PendingIsKept' /\ DelaysAreHeld' /\ ShutDownInOrder'
  BY <1>0, <1>1, Frames
<1>5. OneThread'
  BY <1>0, <1>1, <1>2 DEF OneThread, InLoop
<1>6. Announced'
  <2>1. \A h \in Generations : wpc'[h] = "wait" => wpc[h] = "wait"
    BY <1>2
  <2>. QED  BY <1>0, <1>1, <2>1 DEF Announced, Predicate
<1>. QED  BY <1>2, <1>3, <1>4, <1>5, <1>6 DEF IInv

LEMMA TakeRequestsIInv ==
  ASSUME IInv, NEW g \in Generations, TakeRequests(g)
  PROVE  IInv'
<1>0. /\ TypeOK /\ OneThread /\ RequestsOnce /\ CallsInOrder
      /\ PendingIsKept /\ DelaysAreHeld /\ ShutDownInOrder /\ Announced
  BY DEF IInv
<1>1. /\ ~abort /\ wpc[g] \in {"look", "wait"}
      /\ timers' = [timers EXCEPT ![g] = ProcessRequestQueue(timers[g])]
      /\ requests' = <<>> /\ seen' = clock /\ wpc' = [wpc EXCEPT ![g] = "fire"]
      /\ UNCHANGED <<abort, atomicAbort, idle, thread, clock, kind,
                     deadline, cancelled, upc, joins, spc, open, posted, fired>>
      /\ DropUnheld
  BY DEF TakeRequests, TimedOut, objects, callers, executor
<1>2. /\ wpc' \in [Generations -> {"none", "look", "wait", "fire", "exit", "ended"}]
      /\ wpc'[g] = "fire" /\ \A h \in Generations : h # g => wpc'[h] = wpc[h]
      /\ GenerationsInOrder'
  BY <1>1, ThreadGoesOn
<1>3. /\ requests' \in Seq(Request) /\ DOMAIN requests' = {} /\ \A u \in Timers : ~Requested(u)'
  BY <1>1, NoRequests
(* Only g has timers.                                                      *)
<1>4. /\ g = thread /\ ~idle
      /\ \A h \in Generations : h # g => timers[h] = {}
  BY <1>0, <1>1 DEF OneThread, InLoop
<1>5. /\ timers' \in [Generations -> SUBSET Timers]
      /\ timers'[g] = ProcessRequestQueue(timers[g])
      /\ \A h \in Generations : h # g => timers'[h] = {}
  <2>1. timers \in [Generations -> SUBSET Timers]
    BY <1>0 DEF TypeOK
  <2>2. ProcessRequestQueue(timers[g]) \in SUBSET Timers
    BY DEF ProcessRequestQueue
  <2>. QED  BY <1>1, <1>4, <2>1, <2>2
<1>6. \A u \in Timers : /\ InSet(u) <=> u \in timers[g]
                        /\ InSet(u)' <=> u \in timers'[g]
                        /\ InSet(u)' => InSet(u) \/ Requested(u)
                        /\ ~cancelled[u] /\ (InSet(u) \/ Requested(u)) => InSet(u)'
  <2>1. \A u \in Timers : (InSet(u) <=> u \in timers[g]) /\ (InSet(u)' <=> u \in timers'[g])
    BY <1>4, <1>5 DEF InSet
  <2>. QED  BY <1>0, <1>5, <2>1, ProcessedRequests
<1>7. TypeOK'
  <2>1. outcome' \in [Timers -> {"none", "resumed", "interrupted"}]
    BY <1>0, <1>1, DropType DEF TypeOK
  <2>2. seen' \in Nat
    BY <1>0, <1>1, TimerAssumption DEF TypeOK
  <2>. QED  BY <1>0, <1>1, <1>2, <1>3, <1>5, <2>1, <2>2 DEF TypeOK
<1>8. OneThread'
  BY <1>0, <1>1, <1>2, <1>4, <1>5 DEF OneThread, InLoop
<1>9. RequestsOnce'
  BY <1>3 DEF RequestsOnce
<1>10. CallsInOrder'
  <2>1. \A u \in Timers : upc[u] = "new" => ~InSet(u)' /\ outcome'[u] = outcome[u]
    BY <1>0, <1>1, <1>6 DEF CallsInOrder, Requested, DropUnheld
  <2>. QED  BY <1>0, <1>1, <1>3, <2>1 DEF CallsInOrder
<1>11. PendingIsKept'
  BY <1>0, <1>1, <1>6 DEF PendingIsKept, Pending, IsOneShot, Added
<1>12. DelaysAreHeld'
  <2>1. posted' \in [Timers -> Nat] /\ \A u \in Timers : Added(u)' <=> Added(u)
    BY <1>0, <1>1 DEF TypeOK, Added
  <2>2. \A u \in Timers : kind[u] = "delay" => ~cancelled[u]
    BY <1>0 DEF CallsInOrder
  <2>. QED  BY <1>0, <1>1, <1>3, <1>6, <2>1, <2>2, AfterDrop DEF DelaysAreHeld
<1>13. ShutDownInOrder'
  BY <1>0, <1>1, Frames
<1>14. Announced'
  BY <1>1 DEF Announced, Predicate
<1>. QED  BY <1>2, <1>7, <1>8, <1>9, <1>10, <1>11, <1>12, <1>13, <1>14 DEF IInv

LEMMA FireTimerIInv ==
  ASSUME IInv, NEW g \in Generations, FireTimer(g)
  PROVE  IInv'
<1>0. /\ TypeOK /\ GenerationsInOrder /\ OneThread /\ RequestsOnce /\ CallsInOrder
      /\ PendingIsKept /\ DelaysAreHeld /\ ShutDownInOrder /\ Announced
  BY DEF IInv
<1>1. /\ wpc[g] = "fire"
      /\ UNCHANGED <<requests, abort, atomicAbort, idle, thread, wpc, seen, clock, kind,
                     cancelled, upc, joins, spc, open>>
      /\ DropUnheld
  BY DEF FireTimer, queue, callers
<1>2. PICK t \in Timers :
        /\ t \in timers[g] /\ Post(t)
        /\ \E f \in Frequencies :
             deadline' = [deadline EXCEPT ![t] = IF IsOneShot(t) THEN 0 ELSE clock + f]
        /\ timers' = IF IsOneShot(t) THEN [timers EXCEPT ![g] = @ \ {t}] ELSE timers
  BY <1>0 DEF FireTimer, Expired, TypeOK
<1>3. /\ InSet(t) /\ ~Requested(t) /\ g = thread /\ Added(t)
      /\ \A h \in Generations : h # g => timers[h] = {}
  <2>1. InSet(t)
    BY <1>2 DEF InSet
  <2>2. ~Requested(t)
    BY <1>0, <2>1, RequestParts DEF RequestsOnce, Requested, TypeOK
  <2>. QED  BY <1>0, <1>1, <2>1, <2>2 DEF OneThread, InLoop, CallsInOrder, Added
<1>4. /\ timers' \in [Generations -> SUBSET Timers]
      /\ \A h \in Generations : h # g => timers'[h] = timers[h]
      /\ timers'[g] = IF IsOneShot(t) THEN timers[g] \ {t} ELSE timers[g]
  BY <1>0, <1>2 DEF TypeOK
<1>5. /\ deadline' \in [Timers -> Nat]
  <2>1. \A f \in Frequencies : clock + f \in Nat
    BY <1>0, TimerAssumption DEF TypeOK
  <2>. QED  BY <1>0, <1>2, <2>1 DEF TypeOK
<1>6. /\ posted' \in [Timers -> Nat]
      /\ \A u \in Timers : posted'[u] = IF u = t /\ kind[t] = "delay" THEN posted[t] + 1 ELSE posted[u]
      /\ fired' \in SUBSET Timers
      /\ \A u \in Timers : u \in fired' <=> u \in fired \/ (u = t /\ IsOneShot(t))
  BY <1>0, <1>2 DEF TypeOK, Post
<1>7. \A u \in Timers : /\ Requested(u)' <=> Requested(u)
                        /\ Added(u)' <=> Added(u)
                        /\ InSet(u)' <=> InSet(u) /\ (u = t => ~IsOneShot(t))
  BY <1>1, <1>3, <1>4 DEF Requested, Added, InSet
<1>8. TypeOK'
  <2>1. outcome' \in [Timers -> {"none", "resumed", "interrupted"}]
    BY <1>0, <1>1, DropType DEF TypeOK
  <2>. QED  BY <1>0, <1>1, <1>4, <1>5, <1>6, <2>1 DEF TypeOK
<1>9. GenerationsInOrder' /\ ShutDownInOrder' /\ Announced'
  BY <1>0, <1>1, Frames
<1>10. OneThread'
  BY <1>0, <1>1, <1>4 DEF OneThread, InLoop
<1>11. RequestsOnce'
  <2>1. \A k \in DOMAIN requests : requests[k].timer \in Timers
    BY <1>0, RequestParts DEF TypeOK
  <2>2. \A k \in DOMAIN requests :
          IF requests[k].what = "add"
          THEN \A h \in Generations : requests[k].timer \notin timers'[h]
          ELSE cancelled[requests[k].timer]
    BY <1>0, <1>4, <2>1 DEF RequestsOnce, InSet
  <2>. QED  BY <1>0, <1>1, <1>7, <2>2 DEF RequestsOnce, InSet, Unlocked
<1>12. CallsInOrder'
  <2>1. \A u \in Timers : upc[u] = "new" => u # t /\ outcome'[u] = outcome[u]
    BY <1>1, <1>3 DEF Added, DropUnheld
  <2>. QED  BY <1>0, <1>1, <1>6, <1>7, <2>1 DEF CallsInOrder
<1>13. PendingIsKept'
  BY <1>0, <1>1, <1>6, <1>7 DEF PendingIsKept, Pending, IsOneShot
<1>14. DelaysAreHeld'
  <2>1. kind[t] = "delay" => posted[t] = 0 /\ outcome[t] = "none" /\ IsOneShot(t)
    BY <1>0, <1>3 DEF DelaysAreHeld, IsOneShot
  <2>. QED  BY <1>0, <1>1, <1>3, <1>6, <1>7, <2>1, AfterDrop DEF DelaysAreHeld
<1>. QED  BY <1>8, <1>9, <1>10, <1>11, <1>12, <1>13, <1>14 DEF IInv

LEMMA ForgetTimerIInv ==
  ASSUME IInv, NEW g \in Generations, ForgetTimer(g)
  PROVE  IInv'
<1>0. /\ TypeOK /\ GenerationsInOrder /\ OneThread /\ RequestsOnce /\ CallsInOrder
      /\ PendingIsKept /\ DelaysAreHeld /\ ShutDownInOrder /\ Announced
  BY DEF IInv
<1>1. /\ wpc[g] = "fire"
      /\ UNCHANGED <<requests, abort, atomicAbort, idle, thread, wpc, seen, clock, kind,
                     cancelled, upc, joins, spc, open, posted, fired, outcome>>
  BY DEF ForgetTimer, queue, callers, executor
<1>2. PICK t \in Timers :
        /\ t \in timers[g] /\ cancelled[t]
        /\ timers' = [timers EXCEPT ![g] = @ \ {t}]
        /\ deadline' = [deadline EXCEPT ![t] = 0]
  BY <1>0 DEF ForgetTimer, Expired, TypeOK
<1>3. /\ timers' \in [Generations -> SUBSET Timers]
      /\ \A h \in Generations : h # g => timers'[h] = timers[h]
      /\ timers'[g] = timers[g] \ {t}
      /\ deadline' \in [Timers -> Nat]
  BY <1>0, <1>2 DEF TypeOK
<1>4. \A u \in Timers : /\ Requested(u)' <=> Requested(u)
                        /\ Added(u)' <=> Added(u)
                        /\ InSet(u)' => InSet(u)
                        /\ u # t /\ InSet(u) => InSet(u)'
  BY <1>1, <1>3 DEF Requested, Added, InSet
<1>5. kind[t] # "delay"
  BY <1>0, <1>2 DEF CallsInOrder
<1>6. TypeOK'
  BY <1>0, <1>1, <1>3 DEF TypeOK
<1>7. GenerationsInOrder' /\ ShutDownInOrder' /\ Announced'
  BY <1>0, <1>1, Frames
<1>8. OneThread'
  BY <1>0, <1>1, <1>3 DEF OneThread, InLoop
<1>9. RequestsOnce'
  <2>1. \A k \in DOMAIN requests : requests[k].timer \in Timers
    BY <1>0, RequestParts DEF TypeOK
  <2>2. \A k \in DOMAIN requests :
          IF requests[k].what = "add"
          THEN \A h \in Generations : requests[k].timer \notin timers'[h]
          ELSE cancelled[requests[k].timer]
    BY <1>0, <1>3, <2>1 DEF RequestsOnce, InSet
  <2>. QED  BY <1>0, <1>1, <1>4, <2>2 DEF RequestsOnce, InSet, Unlocked
<1>10. CallsInOrder'
  BY <1>0, <1>1, <1>4 DEF CallsInOrder
<1>11. PendingIsKept'
  BY <1>0, <1>1, <1>2, <1>4 DEF PendingIsKept, Pending, IsOneShot
<1>12. DelaysAreHeld'
  <2>1. \A u \in Timers : u # t /\ Held(u) => Held(u)'
    BY <1>1, <1>3 DEF Held
  <2>. QED  BY <1>0, <1>1, <1>4, <1>5, <2>1 DEF DelaysAreHeld
<1>. QED  BY <1>6, <1>7, <1>8, <1>9, <1>10, <1>11, <1>12 DEF IInv

LEMMA EndProcessIInv ==
  ASSUME IInv, NEW g \in Generations, EndProcess(g)
  PROVE  IInv'
<1>0. /\ TypeOK /\ OneThread /\ RequestsOnce /\ CallsInOrder
      /\ PendingIsKept /\ DelaysAreHeld /\ ShutDownInOrder /\ Announced
  BY DEF IInv
<1>1. /\ wpc[g] = "fire" /\ wpc' = [wpc EXCEPT ![g] = "look"] /\ seen' = 0
      /\ UNCHANGED <<requests, abort, atomicAbort, idle, thread, timers, clock, kind,
                     deadline, cancelled, upc, joins, spc, open, posted, fired, outcome>>
  BY DEF EndProcess, queue, objects, callers, executor
<1>2. /\ wpc' \in [Generations -> {"none", "look", "wait", "fire", "exit", "ended"}]
      /\ wpc'[g] = "look" /\ \A h \in Generations : h # g => wpc'[h] = wpc[h]
      /\ GenerationsInOrder'
  BY <1>1, ThreadGoesOn
<1>3. TypeOK'
  BY <1>0, <1>1, <1>2 DEF TypeOK
<1>4. RequestsOnce' /\ CallsInOrder' /\ PendingIsKept' /\ DelaysAreHeld' /\ ShutDownInOrder'
  BY <1>0, <1>1, Frames
<1>5. OneThread'
  BY <1>0, <1>1, <1>2 DEF OneThread, InLoop
<1>6. Announced'
  <2>1. \A h \in Generations : wpc'[h] = "wait" => wpc[h] = "wait"
    BY <1>2
  <2>. QED  BY <1>0, <1>1, <2>1 DEF Announced, Predicate
<1>. QED  BY <1>2, <1>3, <1>4, <1>5, <1>6 DEF IInv

(* A thread that ends has timers only if the queue was shut down.          *)
LEMMA EndThreadIInv ==
  ASSUME IInv, NEW g \in Generations, EndThread(g)
  PROVE  IInv'
<1>0. /\ TypeOK /\ OneThread /\ RequestsOnce /\ CallsInOrder
      /\ PendingIsKept /\ DelaysAreHeld /\ ShutDownInOrder /\ Announced
  BY DEF IInv
<1>1. /\ wpc[g] = "exit" /\ wpc' = [wpc EXCEPT ![g] = "ended"]
      /\ timers' = [timers EXCEPT ![g] = {}]
      /\ UNCHANGED <<requests, abort, atomicAbort, idle, thread, seen, clock, kind,
                     deadline, cancelled, upc, joins, spc, open, posted, fired>>
      /\ DropUnheld
  BY DEF EndThread, queue, objects, callers, executor
<1>2. /\ wpc' \in [Generations -> {"none", "look", "wait", "fire", "exit", "ended"}]
      /\ wpc'[g] = "ended" /\ \A h \in Generations : h # g => wpc'[h] = wpc[h]
      /\ GenerationsInOrder'
  BY <1>1, ThreadGoesOn
<1>3. /\ timers' \in [Generations -> SUBSET Timers] /\ timers'[g] = {}
      /\ \A h \in Generations : h # g => timers'[h] = timers[h]
  BY <1>0, <1>1 DEF TypeOK
<1>4. timers[g] # {} => abort
  BY <1>0, <1>1 DEF OneThread, InLoop
<1>5. \A u \in Timers : /\ Requested(u)' <=> Requested(u)
                        /\ Added(u)' <=> Added(u)
                        /\ InSet(u)' => InSet(u)
                        /\ ~abort /\ InSet(u) => InSet(u)'
  BY <1>1, <1>3, <1>4 DEF Requested, Added, InSet
<1>6. TypeOK'
  <2>1. outcome' \in [Timers -> {"none", "resumed", "interrupted"}]
    BY <1>0, <1>1, DropType DEF TypeOK
  <2>. QED  BY <1>0, <1>1, <1>2, <1>3, <2>1 DEF TypeOK
<1>7. OneThread'
  BY <1>0, <1>1, <1>2, <1>3, <1>4 DEF OneThread, InLoop
<1>8. RequestsOnce'
  <2>1. \A k \in DOMAIN requests : requests[k].timer \in Timers
    BY <1>0, RequestParts DEF TypeOK
  <2>2. \A k \in DOMAIN requests :
          IF requests[k].what = "add"
          THEN \A h \in Generations : requests[k].timer \notin timers'[h]
          ELSE cancelled[requests[k].timer]
    BY <1>0, <1>3, <2>1 DEF RequestsOnce, InSet
  <2>. QED  BY <1>0, <1>1, <1>5, <2>2 DEF RequestsOnce, InSet, Unlocked
<1>9. CallsInOrder'
  <2>1. \A u \in Timers : upc[u] = "new" => outcome'[u] = outcome[u]
    BY <1>1 DEF DropUnheld
  <2>. QED  BY <1>0, <1>1, <1>5, <2>1 DEF CallsInOrder
<1>10. PendingIsKept'
  BY <1>0, <1>1, <1>5 DEF PendingIsKept, Pending, IsOneShot
<1>11. DelaysAreHeld'
  <2>1. posted' \in [Timers -> Nat]
    BY <1>0, <1>1 DEF TypeOK
  <2>. QED  BY <1>0, <1>1, <1>5, <2>1, AfterDrop DEF DelaysAreHeld
<1>12. ShutDownInOrder'
  BY <1>0, <1>1, Frames
<1>13. Announced'
  <2>1. \A h \in Generations : wpc'[h] = "wait" => wpc[h] = "wait"
    BY <1>2
  <2>. QED  BY <1>0, <1>1, <2>1 DEF Announced, Predicate
<1>. QED  BY <1>2, <1>6, <1>7, <1>8, <1>9, <1>10, <1>11, <1>12, <1>13 DEF IInv

-----------------------------------------------------------------------------
(* ShutDown, the executors and the clock.                                  *)

LEMMA RequestShutDownIInv ==
  ASSUME IInv, NEW s \in Closers, RequestShutDown(s)
  PROVE  IInv'
<1>0. /\ TypeOK /\ GenerationsInOrder /\ OneThread /\ RequestsOnce /\ CallsInOrder
      /\ PendingIsKept /\ DelaysAreHeld /\ ShutDownInOrder /\ Announced
  BY DEF IInv
<1>1. /\ spc[s] = "idle" /\ spc' = [spc EXCEPT ![s] = IF atomicAbort THEN "tooLate" ELSE "lock"]
      /\ atomicAbort' = TRUE
      /\ UNCHANGED <<requests, abort, idle, thread, wpc, timers, seen, clock, kind, deadline,
                     cancelled, upc, joins, open, posted, fired, outcome>>
  BY DEF RequestShutDown, worker, objects, executor
<1>2. /\ spc' \in [Closers -> {"idle", "lock", "notify", "join", "stuck", "done", "tooLate"}]
      /\ spc'[s] = (IF atomicAbort THEN "tooLate" ELSE "lock")
      /\ \A c \in Closers : c # s => spc'[c] = spc[c]
  BY <1>0, <1>1 DEF TypeOK
<1>3. TypeOK'
  BY <1>0, <1>1, <1>2 DEF TypeOK
<1>4. GenerationsInOrder' /\ OneThread' /\ CallsInOrder' /\ PendingIsKept' /\ DelaysAreHeld'
  BY <1>0, <1>1, Frames
<1>5. RequestsOnce'
  <2>1. Unlocked' <=> Unlocked
    BY <1>1, <1>2 DEF Unlocked
  <2>. QED  BY <1>0, <1>1, <2>1 DEF RequestsOnce, InSet, Requested
<1>6. ShutDownInOrder'
  BY <1>0, <1>1, <1>2 DEF ShutDownInOrder, Came
<1>7. Announced'
  BY <1>0, <1>1, <1>2 DEF Announced, Predicate
<1>. QED  BY <1>3, <1>4, <1>5, <1>6, <1>7 DEF IInv

(* The one call of ShutDown that goes on: no other is anywhere.            *)
LEMMA CloserGoesOn ==
  ASSUME TypeOK, ShutDownInOrder, NEW s \in Closers, spc[s] \in {"lock", "notify", "join"},
         NEW pc \in {"notify", "join", "stuck", "done"}, spc' = [spc EXCEPT ![s] = pc],
         UNCHANGED <<atomicAbort, open>>, abort', pc = "done" => thread' = 0
  PROVE  /\ spc' \in [Closers -> {"idle", "lock", "notify", "join", "stuck", "done", "tooLate"}]
         /\ spc'[s] = pc /\ \A c \in Closers : c # s => spc'[c] = spc[c]
         /\ Unlocked /\ (pc # "stuck" => Unlocked')
         /\ ShutDownInOrder'
<1>1. /\ spc' \in [Closers -> {"idle", "lock", "notify", "join", "stuck", "done", "tooLate"}]
      /\ spc'[s] = pc /\ \A c \in Closers : c # s => spc'[c] = spc[c]
  BY DEF TypeOK
<1>2. Came(s) /\ \A c \in Closers : c # s => ~Came(c)
  BY DEF ShutDownInOrder, Came
<1>3. Unlocked /\ (pc # "stuck" => Unlocked')
  BY <1>1, <1>2 DEF Unlocked, Came
<1>4. \A c \in Closers : Came(c)' <=> Came(c)
  BY <1>1, <1>2 DEF Came
<1>5. \A c \in Closers : c # s => spc'[c] \in {"idle", "tooLate"}
  BY <1>1, <1>2 DEF TypeOK, Came
<1>6. ShutDownInOrder'
  BY <1>1, <1>2, <1>4, <1>5 DEF ShutDownInOrder
<1>. QED  BY <1>1, <1>3, <1>6

(* Clearing the requests leaves a part of them.                            *)
LEMMA PartOfRequests ==
  ASSUME requests \in Seq(Request), NEW k \in DOMAIN requests, ClearedUpTo(k)
  PROVE  /\ requests' \in Seq(Request)
         /\ \E shift \in Nat : \A i \in DOMAIN requests' :
              i + shift \in DOMAIN requests /\ requests'[i] = requests[i + shift]
<1>1. Len(requests) \in Nat /\ DOMAIN requests = 1 .. Len(requests) /\ k \in 1 .. Len(requests)
  OBVIOUS
<1>2. CASE requests' = SubSeq(requests, k + 1, Len(requests))
  <2>1. /\ requests' \in Seq(Request) /\ DOMAIN requests' = 1 .. (Len(requests) - k)
        /\ \A i \in 1 .. (Len(requests) - k) : requests'[i] = requests[i + k]
    BY <1>1, <1>2
  <2>2. k \in Nat /\ \A i \in 1 .. (Len(requests) - k) : i + k \in 1 .. Len(requests)
    BY <1>1
  <2>. QED  BY <1>1, <2>1, <2>2
<1>3. CASE requests' = SubSeq(requests, 1, k - 1)
  <2>1. /\ requests' \in Seq(Request) /\ DOMAIN requests' = 1 .. (k - 1)
        /\ \A i \in 1 .. (k - 1) : requests'[i] = requests[i]
    BY <1>1, <1>3
  <2>2. \A i \in DOMAIN requests' : i + 0 \in DOMAIN requests /\ requests'[i] = requests[i + 0]
    BY <1>1, <2>1
  <2>. QED  BY <2>1, <2>2
<1>. QED  BY <1>2, <1>3 DEF ClearedUpTo

LEMMA AbortQueueIInv ==
  ASSUME IInv, NEW s \in Closers, AbortQueue(s)
  PROVE  IInv'
<1>0. /\ TypeOK /\ GenerationsInOrder /\ OneThread /\ RequestsOnce /\ CallsInOrder
      /\ PendingIsKept /\ DelaysAreHeld /\ ShutDownInOrder /\ Announced
  BY DEF IInv
<1>1. /\ spc[s] = "lock" /\ Unlocked /\ abort' = TRUE
      /\ UNCHANGED <<atomicAbort, idle, thread, wpc, timers, seen, clock, kind, deadline,
                     cancelled, upc, joins, open, posted, fired>>
      /\ DropUnheld
  BY DEF AbortQueue, worker, objects, executor
<1>2. PICK pc \in {"notify", "stuck", "done"} :
        /\ spc' = [spc EXCEPT ![s] = pc]
        /\ pc = "done" => thread = 0 /\ requests' = requests
        /\ pc = "notify" => thread # 0 /\ requests' = <<>>
        /\ pc = "stuck" => thread # 0 /\ \E k \in Relocking : ClearedUpTo(k)
  BY DEF AbortQueue
<1>3. /\ spc' \in [Closers -> {"idle", "lock", "notify", "join", "stuck", "done", "tooLate"}]
      /\ spc'[s] = pc /\ (pc # "stuck" => Unlocked') /\ (pc = "stuck" => ~Unlocked')
      /\ ShutDownInOrder'
  <2>1. /\ spc' \in [Closers -> {"idle", "lock", "notify", "join", "stuck", "done", "tooLate"}]
        /\ spc'[s] = pc /\ (pc # "stuck" => Unlocked') /\ ShutDownInOrder'
    BY <1>0, <1>1, <1>2, CloserGoesOn
  <2>. QED  BY <2>1 DEF Unlocked
(* Without a thread, nothing was asked for.                                *)
<1>4. thread = 0 => /\ \A u \in Timers : ~Requested(u)
                    /\ \A g \in Generations : ~InLoop(g)
  <2>1. 0 \notin Generations
    BY DEF Generations
  <2>. QED  BY <1>0, <1>1, <2>1 DEF OneThread, RequestsOnce
(* What is left is a part of what there was, and nothing but in a queue    *)
(* whose lock is gone.                                                     *)
<1>5. /\ requests' \in Seq(Request)
      /\ \E shift \in Nat : \A i \in DOMAIN requests' :
           i + shift \in DOMAIN requests /\ requests'[i] = requests[i + shift]
  <2>0. requests \in Seq(Request)
    BY <1>0 DEF TypeOK
  <2>1. CASE pc = "done"
    <3>1. \A i \in DOMAIN requests : i + 0 = i
      BY <2>0
    <3>. QED  BY <1>2, <2>0, <2>1, <3>1
  <2>2. CASE pc = "notify"
    BY <1>2, <2>2, NoRequests
  <2>3. CASE pc = "stuck"
    BY <1>2, <2>0, <2>3, PartOfRequests DEF Relocking
  <2>. QED  BY <2>1, <2>2, <2>3
<1>6. PICK shift \in Nat : \A i \in DOMAIN requests' :
        i + shift \in DOMAIN requests /\ requests'[i] = requests[i + shift]
  BY <1>5
<1>7. Unlocked' => \A u \in Timers : ~Requested(u)'
  BY <1>2, <1>3, <1>4, NoRequests DEF Requested
<1>8. \A u \in Timers : /\ Requested(u)' => Requested(u)
                        /\ InSet(u)' <=> InSet(u)
                        /\ Added(u)' <=> Added(u)
  BY <1>1, <1>6 DEF Requested, InSet, Added
<1>9. TypeOK'
  <2>1. outcome' \in [Timers -> {"none", "resumed", "interrupted"}]
    BY <1>0, <1>1, DropType DEF TypeOK
  <2>. QED  BY <1>0, <1>1, <1>3, <1>5, <2>1 DEF TypeOK
<1>10. GenerationsInOrder'
  BY <1>0, <1>1, Frames
<1>11. OneThread'
  BY <1>0, <1>1 DEF OneThread, InLoop
<1>12. RequestsOnce'
  <2>1. \A j, k \in DOMAIN requests' :
          requests'[j].what = "add" /\ requests'[k] = requests'[j] => j = k
    <3> SUFFICES ASSUME NEW j \in DOMAIN requests', NEW k \in DOMAIN requests',
                        requests'[j].what = "add", requests'[k] = requests'[j]
                 PROVE  j = k
      OBVIOUS
    <3>1. j + shift = k + shift
      BY <1>0, <1>6 DEF RequestsOnce
    <3>2. j \in Int /\ k \in Int /\ shift \in Int
      BY <1>5
    <3>3. \A a, b, c \in Int : a + c = b + c => a = b
      OBVIOUS
    <3>. QED  BY <3>1, <3>2, <3>3
  <2>2. \A k \in DOMAIN requests' :
          IF requests'[k].what = "add" THEN ~InSet(requests'[k].timer)
                                       ELSE cancelled[requests'[k].timer]
    BY <1>0, <1>6 DEF RequestsOnce
  <2>3. \A k \in DOMAIN requests' :
          IF requests'[k].what = "add"
          THEN \A g \in Generations : requests'[k].timer \notin timers'[g]
          ELSE cancelled'[requests'[k].timer]
    BY <1>1, <2>2 DEF InSet
  <2>4. idle => \A u \in Timers : ~Requested(u)'
    BY <1>0, <1>8 DEF RequestsOnce
  <2>. QED  BY <1>1, <1>7, <2>1, <2>3, <2>4 DEF RequestsOnce, InSet
<1>13. CallsInOrder'
  <2>1. \A u \in Timers : upc[u] = "new" => outcome'[u] = outcome[u]
    BY <1>1 DEF DropUnheld
  <2>2. \A u \in Timers : upc[u] = "new" => \A k \in DOMAIN requests' : requests'[k].timer # u
    BY <1>0, <1>6 DEF CallsInOrder
  <2>. QED  BY <1>0, <1>1, <1>8, <2>1, <2>2 DEF CallsInOrder
<1>14. PendingIsKept'
  BY <1>1 DEF PendingIsKept, Pending
<1>15. DelaysAreHeld'
  <2>1. posted' \in [Timers -> Nat]
    BY <1>0, <1>1 DEF TypeOK
  <2>. QED  BY <1>0, <1>1, <1>8, <2>1, AfterDrop DEF DelaysAreHeld
<1>16. Announced'
  <2>1. ASSUME NEW g \in Generations, wpc'[g] = "wait" PROVE spc'[s] \in {"notify", "stuck"}
    BY <1>1, <1>2, <1>3, <1>4, <2>1 DEF InLoop
  <2>. QED  BY <2>1 DEF Announced
<1>. QED  BY <1>3, <1>9, <1>10, <1>11, <1>12, <1>13, <1>14, <1>15, <1>16 DEF IInv

LEMMA NotifyShutDownIInv ==
  ASSUME IInv, NEW s \in Closers, NotifyShutDown(s)
  PROVE  IInv'
<1>0. /\ TypeOK /\ RequestsOnce /\ CallsInOrder /\ PendingIsKept /\ DelaysAreHeld
      /\ ShutDownInOrder
  BY DEF IInv
<1>1. /\ spc[s] = "notify" /\ wpc' = Notified /\ spc' = [spc EXCEPT ![s] = "join"]
      /\ UNCHANGED <<requests, abort, atomicAbort, idle, thread, timers, seen, clock, kind,
                     deadline, cancelled, upc, joins, open, posted, fired, outcome>>
  BY DEF NotifyShutDown, queue, objects, executor
<1>2. /\ spc' \in [Closers -> {"idle", "lock", "notify", "join", "stuck", "done", "tooLate"}]
      /\ ShutDownInOrder' /\ Unlocked' /\ Unlocked
  <2>1. abort
    BY <1>0, <1>1 DEF ShutDownInOrder
  <2>. QED  BY <1>0, <1>1, <2>1, CloserGoesOn
<1>3. /\ wpc' \in [Generations -> {"none", "look", "wait", "fire", "exit", "ended"}]
      /\ OneThread' /\ GenerationsInOrder' /\ Announced'
  BY <1>1, AfterNotified DEF Added
<1>4. TypeOK'
  BY <1>0, <1>1, <1>2, <1>3 DEF TypeOK
<1>5. CallsInOrder' /\ PendingIsKept' /\ DelaysAreHeld'
  BY <1>0, <1>1, Frames
<1>6. RequestsOnce'
  BY <1>0, <1>1, <1>2 DEF RequestsOnce, InSet, Requested
<1>. QED  BY <1>2, <1>3, <1>4, <1>5, <1>6 DEF IInv

LEMMA JoinIInv ==
  ASSUME IInv, NEW s \in Closers, Join(s)
  PROVE  IInv'
<1>0. /\ TypeOK /\ GenerationsInOrder /\ OneThread /\ RequestsOnce /\ CallsInOrder
      /\ PendingIsKept /\ DelaysAreHeld /\ ShutDownInOrder /\ Announced
  BY DEF IInv
<1>1. /\ spc[s] = "join" /\ wpc[thread] = "ended" /\ thread' = 0
      /\ spc' = [spc EXCEPT ![s] = "done"]
      /\ UNCHANGED <<requests, abort, atomicAbort, idle, wpc, timers, seen, clock, kind, deadline,
                     cancelled, upc, joins, open, posted, fired, outcome>>
  BY DEF Join, worker, objects, executor
<1>2. abort
  BY <1>0, <1>1 DEF ShutDownInOrder
<1>3. /\ spc' \in [Closers -> {"idle", "lock", "notify", "join", "stuck", "done", "tooLate"}]
      /\ spc'[s] = "done" /\ \A c \in Closers : c # s => spc'[c] = spc[c]
      /\ ShutDownInOrder' /\ Unlocked' /\ Unlocked
  BY <1>0, <1>1, <1>2, CloserGoesOn
<1>4. TypeOK'
  BY <1>0, <1>1, <1>3 DEF TypeOK
<1>5. GenerationsInOrder' /\ CallsInOrder' /\ PendingIsKept' /\ DelaysAreHeld'
  BY <1>0, <1>1, Frames
<1>6. OneThread'
  BY <1>0, <1>1, <1>2 DEF OneThread, InLoop
<1>7. RequestsOnce'
  BY <1>0, <1>1, <1>3 DEF RequestsOnce, InSet, Requested
<1>8. Announced'
  BY <1>0, <1>1, <1>3 DEF Announced, Predicate
<1>. QED  BY <1>3, <1>4, <1>5, <1>6, <1>7, <1>8 DEF IInv

(* The engine shuts its executors down after the queue.                    *)
LEMMA ShutDownExecutorsIInv ==
  ASSUME IInv, ShutDownExecutors
  PROVE  IInv'
<1>0. /\ TypeOK /\ GenerationsInOrder /\ OneThread /\ RequestsOnce /\ CallsInOrder
      /\ PendingIsKept /\ DelaysAreHeld /\ ShutDownInOrder /\ Announced
  BY DEF IInv
<1>1. /\ \A s \in Closers : spc[s] \in {"done", "tooLate"}
      /\ open' = FALSE /\ posted' = [t \in Timers |-> 0]
      /\ UNCHANGED <<requests, abort, atomicAbort, idle, thread, wpc, timers, seen, clock, kind,
                     deadline, cancelled, upc, joins, spc, fired>>
      /\ DropUnheld
  BY DEF ShutDownExecutors, queue, worker, objects, callers
<1>2. abort
  <2>1. PICK s \in Closers : TRUE
    BY TimerAssumption
  <2>2. CASE spc[s] = "tooLate"
    <3>1. PICK c \in Closers : Came(c)
      BY <1>0, <2>2 DEF ShutDownInOrder
    <3>. QED  BY <1>0, <1>1, <3>1 DEF ShutDownInOrder, Came
  <2>. QED  BY <1>0, <1>1, <2>1, <2>2 DEF ShutDownInOrder
<1>3. \A u \in Timers : /\ Requested(u)' <=> Requested(u)
                        /\ InSet(u)' <=> InSet(u)
                        /\ Added(u)' <=> Added(u)
  BY <1>1 DEF Requested, InSet, Added
<1>4. posted' \in [Timers -> Nat] /\ \A u \in Timers : posted'[u] = 0
  BY <1>1
<1>5. TypeOK'
  <2>1. outcome' \in [Timers -> {"none", "resumed", "interrupted"}]
    BY <1>0, <1>1, DropType DEF TypeOK
  <2>. QED  BY <1>0, <1>1, <1>4, <2>1 DEF TypeOK
<1>6. /\ GenerationsInOrder' /\ OneThread' /\ RequestsOnce' /\ PendingIsKept' /\ Announced'
  BY <1>0, <1>1, Frames
<1>7. CallsInOrder'
  <2>1. \A u \in Timers : upc[u] = "new" => outcome'[u] = outcome[u]
    BY <1>1 DEF DropUnheld
  <2>. QED  BY <1>0, <1>1, <1>3, <1>4, <2>1 DEF CallsInOrder
<1>8. DelaysAreHeld'
  BY <1>0, <1>1, <1>2, <1>3, <1>4, AfterDrop DEF DelaysAreHeld
<1>9. ShutDownInOrder'
  BY <1>0, <1>1, <1>2 DEF ShutDownInOrder, Came
<1>. QED  BY <1>5, <1>6, <1>7, <1>8, <1>9 DEF IInv

LEMMA TickIInv ==
  ASSUME IInv, Tick
  PROVE  IInv'
<1>0. /\ TypeOK /\ GenerationsInOrder /\ OneThread /\ RequestsOnce /\ CallsInOrder
      /\ PendingIsKept /\ DelaysAreHeld /\ ShutDownInOrder /\ Announced
  BY DEF IInv
<1>1. /\ clock < MaxTime /\ clock' = clock + 1
      /\ UNCHANGED <<requests, abort, atomicAbort, idle, thread, wpc, timers, seen, kind, deadline,
                     cancelled, upc, joins, spc, open, posted, fired, outcome>>
  BY DEF Tick, queue, worker, objects, callers, executor
<1>2. clock' \in 0 .. MaxTime
  BY <1>0, <1>1, TimerAssumption DEF TypeOK
<1>3. TypeOK'
  BY <1>0, <1>1, <1>2 DEF TypeOK
<1>. QED  BY <1>0, <1>1, <1>3, Frames DEF IInv

-----------------------------------------------------------------------------
(* The invariant, and what follows from it.                                *)

LEMMA NextIInv ==
  ASSUME IInv, [Next]_vars
  PROVE  IInv'
<1>1. CASE UNCHANGED vars
  <2>1. UNCHANGED <<requests, abort, atomicAbort, idle, thread, wpc, timers, seen, clock, kind,
                    deadline, cancelled, upc, joins, spc, open, posted, fired, outcome>>
    BY <1>1 DEF vars, queue, worker, objects, callers, executor
  <2>2. TypeOK'
    BY <2>1 DEF IInv, TypeOK
  <2>. QED  BY <2>1, <2>2, Frames DEF IInv
<1>2. ASSUME NEW t \in Timers,
             RefuseTimer(t) \/ AddTimer(t) \/ CallerStep(t) \/ Cancel(t) \/ Execute(t)
      PROVE  IInv'
  BY <1>2, RefuseTimerIInv, AddTimerIInv, NotifyAddedIInv, JoinOldIInv, RemoveInternalTimerIInv,
     CancelIInv, ExecuteIInv DEF CallerStep
<1>3. ASSUME NEW g \in Generations, ThreadStep(g)
      PROVE  IInv'
  BY <1>3, SleepIInv, EndIdleIInv, EndAbortedIInv, TakeRequestsIInv, FireTimerIInv,
     ForgetTimerIInv, EndProcessIInv, EndThreadIInv DEF ThreadStep
<1>4. ASSUME NEW s \in Closers, RequestShutDown(s) \/ CloserStep(s)
      PROVE  IInv'
  BY <1>4, RequestShutDownIInv, AbortQueueIInv, NotifyShutDownIInv, JoinIInv DEF CloserStep
<1>. QED  BY <1>1, <1>2, <1>3, <1>4, ShutDownExecutorsIInv, TickIInv DEF Next

(* The parts above hold in every state that the queue can reach: this is   *)
(* the invariant from which the theorems below follow.                     *)
THEOREM Invariance == Spec => []IInv
<1>1. Init => IInv
  BY InitIInv
<1>2. IInv /\ [Next]_vars => IInv'
  BY NextIInv
<1>. QED  BY <1>1, <1>2, PTL DEF Spec

(* However many timers come while the thread goes, each pending timer is   *)
(* in exactly one place, one thread runs for it, and that thread does not  *)
(* sleep on an unannounced request (CYTimerQueue::EnsureWorkerThread and   *)
(* WorkLoop).                                                              *)
THEOREM NothingForgotten == Spec => []NoTimerForgotten
<1>1. IInv => NoTimerForgotten
  <2> SUFFICES ASSUME IInv PROVE NoTimerForgotten
    OBVIOUS
  <2>0. TypeOK /\ OneThread /\ RequestsOnce /\ PendingIsKept /\ Announced
    BY DEF IInv
  <2>1. ASSUME NEW t \in Timers, Pending(t)
        PROVE  Cardinality(Adds(t))
                 + Cardinality({g \in Generations : InLoop(g) /\ t \in timers[g]}) = 1
    <3> DEFINE holders == {g \in Generations : InLoop(g) /\ t \in timers[g]}
    <3>0. ~abort /\ (Requested(t) \/ InSet(t))
      BY <2>0, <2>1 DEF PendingIsKept, Pending
    <3>1. CASE Requested(t)
      <4>1. ~InSet(t)
        BY <2>0, <3>1, RequestParts DEF RequestsOnce, Requested, TypeOK
      <4>2. holders = {}
        BY <4>1 DEF InSet
      <4>3. PICK k \in DOMAIN requests : requests[k] = [timer |-> t, what |-> "add"]
        BY <3>1 DEF Requested
      <4>4. Adds(t) = {k}
        BY <2>0, <4>3 DEF Adds, RequestsOnce
      <4>5. Cardinality(Adds(t)) = 1 /\ Cardinality(holders) = 0
        BY <4>2, <4>4, FS_EmptySet, FS_Singleton
      <4>. QED  BY <4>5
    <3>2. CASE ~Requested(t)
      <4>1. PICK g \in Generations : t \in timers[g]
        BY <3>0, <3>2 DEF InSet
      <4>2. holders = {g}
        BY <2>0, <3>0, <4>1 DEF OneThread
      <4>3. Adds(t) = {}
        BY <3>2 DEF Adds, Requested
      <4>4. Cardinality(Adds(t)) = 0 /\ Cardinality(holders) = 1
        BY <4>2, <4>3, FS_EmptySet, FS_Singleton
      <4>. QED  BY <4>4
    <3>. QED  BY <3>1, <3>2
  <2>2. ~abort => \/ idle /\ \A g \in Generations : ~InLoop(g)
                  \/ ~idle /\ InLoop(thread) /\ \A g \in Generations : InLoop(g) => g = thread
    BY <2>0 DEF OneThread
  <2>3. idle /\ ~abort => \A t \in Timers : Adds(t) = {}
    BY <2>0 DEF RequestsOnce, Requested, Adds
  <2>. QED  BY <2>0, <2>1, <2>2, <2>3 DEF NoTimerForgotten, Announced
<1>. QED  BY <1>1, Invariance, PTL

(* The asserts of AddTimerInternal, RemoveTimerInternal and of             *)
(* CYAwaitViaFunctor::operator() hold.                                     *)
THEOREM QueueAsserts == Spec => []AssertsHold
<1>1. IInv => AssertsHold
  <2> SUFFICES ASSUME IInv PROVE AssertsHold
    OBVIOUS
  <2>0. TypeOK /\ RequestsOnce /\ DelaysAreHeld
    BY DEF IInv
  <2>1. ASSUME NEW k \in DOMAIN requests
        PROVE  LET t == requests[k].timer
               IN IF requests[k].what = "add"
                  THEN \A g \in Generations : t \notin timers[g]
                  ELSE IsOneShot(t) \/ cancelled[t]
    BY <2>0 DEF RequestsOnce, InSet
  <2>2. ASSUME NEW t \in Timers, kind[t] = "delay"
        PROVE  posted[t] + (IF outcome[t] = "none" THEN 0 ELSE 1) <= 1
    <3>1. posted[t] \in Nat /\ posted[t] <= 1 /\ (posted[t] = 1 => outcome[t] = "none")
      BY <2>0, <2>2 DEF TypeOK, DelaysAreHeld
    <3>. QED  BY <3>1
  <2>. QED  BY <2>0, <2>1, <2>2 DEF AssertsHold
<1>. QED  BY <1>1, Invariance, PTL

(* Only a shutdown interrupts the coroutine of a delay object: no step     *)
(* drops the last reference to it before (CYTimerQueue::MakeDelayObject,   *)
(* CYTimerState::Fire, CYAwaitViaFunctor).                                 *)
THEOREM DelaysGoOn == Spec => []InterruptedOnlyByShutDown
<1>1. IInv => InterruptedOnlyByShutDown
  BY DEF IInv, DelaysAreHeld, InterruptedOnlyByShutDown
<1>. QED  BY <1>1, Invariance, PTL

(* A queue whose ShutDown has returned is quiet: no thread of it runs,     *)
(* nothing is asked of it, and every delay object has gone on or is with   *)
(* its call or its executor (CYTimerQueue::ShutDown).                      *)
THEOREM QuietWhenClosed == Spec => []QuietAfterShutDown
<1>1. IInv => QuietAfterShutDown
  <2> SUFFICES ASSUME IInv, NEW s \in Closers, spc[s] = "done"
               PROVE  /\ \A g \in Generations :
                           wpc[g] \in {"none", "ended"} \/ (wpc[g] = "exit" /\ g # thread)
                      /\ \A t \in Timers : Adds(t) = {}
                      /\ \A t \in Timers : kind[t] = "delay" /\ posted[t] = 0 =>
                           upc[t] \in {"new", "notify", "join"} \/ outcome[t] # "none"
    BY DEF QuietAfterShutDown
  <2>0. TypeOK /\ OneThread /\ RequestsOnce /\ CallsInOrder /\ DelaysAreHeld /\ ShutDownInOrder
    BY DEF IInv
  <2>1. thread = 0 /\ abort /\ Unlocked /\ 0 \notin Generations
    BY <2>0 DEF ShutDownInOrder, Came, Unlocked, Generations
  <2>2. \A g \in Generations : ~InLoop(g) /\ timers[g] = {} /\ g # thread
    BY <2>0, <2>1 DEF OneThread
  <2>3. \A g \in Generations : wpc[g] \in {"none", "ended"} \/ (wpc[g] = "exit" /\ g # thread)
    <3>1. \A g \in Generations : wpc[g] \in {"none", "look", "wait", "fire", "exit", "ended"}
      BY <2>0 DEF TypeOK
    <3>. QED  BY <2>2, <3>1 DEF InLoop
  <2>4. \A t \in Timers : Adds(t) = {}
    BY <2>0, <2>1 DEF RequestsOnce, Requested, Adds
  <2>5. ASSUME NEW t \in Timers, kind[t] = "delay", posted[t] = 0, outcome[t] = "none",
               upc[t] \notin {"new", "notify", "join"}
        PROVE  FALSE
    <3>1. Held(t)
      BY <2>0, <2>5 DEF DelaysAreHeld, Added
    <3>2. PICK k \in DOMAIN requests : requests[k].timer = t
      BY <2>2, <2>5, <3>1 DEF Held
    <3>3. requests[k].what = "remove"
      BY <2>0, <2>1, <3>2, RequestParts DEF RequestsOnce, Requested, TypeOK
    <3>4. cancelled[t]
      BY <2>0, <3>2, <3>3 DEF RequestsOnce
    <3>. QED  BY <2>0, <2>5, <3>4 DEF CallsInOrder
  <2>. QED  BY <2>3, <2>4, <2>5
<1>. QED  BY <1>1, Invariance, PTL
=============================================================================
