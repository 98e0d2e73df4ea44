---------------------------- MODULE SharedResult ----------------------------
(***************************************************************************)
(* A shared result: CYSharedResult and CYSharedResultState, the consumer   *)
(* of one CYResultState whose producer runs on another thread.  One user   *)
(* makes the shared result out of a CYResult and shares it; others copy    *)
(* it.  Users poll, wait, wait with a deadline and await, all at once, and *)
(* drop their copies; who drops the last one runs the destructor, which    *)
(* takes the registration back and gives the state up.                     *)
(*                                                                         *)
(* A step is one operation on shared memory.  The coroutines that the      *)
(* finished result resumes, one after the other on one stack, go on in     *)
(* any order.                                                              *)
(***************************************************************************)
EXTENDS Integers, FiniteSets, SequencesExt

CONSTANTS
  Users,      \* coroutines and threads that hold a copy
  Maker,      \* the user that shares the result
  Nil,        \* no awaiter
  Outcomes,   \* what a producer can store: values and exceptions
  Idle,       \* STATUS_RESULT_IDLE
  Permits     \* m_semaphore.max() / 2

ASSUME SharedAssumption ==
  /\ Maker \in Users /\ Nil \notin Users
  /\ IsFiniteSet(Users)
  /\ Idle \notin Outcomes
  /\ Permits \in Nat /\ Permits >= Cardinality(Users)

VARIABLES
  state,      \* m_eResultState of the CYResultState
  context,    \* m_objConsumer.m_status
  outcome,    \* m_objProducer
  deletes,    \* how often the CYResultState was deleted
  ppc,        \* where the producer is
  status,     \* m_status of the shared state
  epoch,      \* CYAtomicBase::m_epoch of m_status
  permits,    \* the count of m_semaphore
  signals,    \* the parity of i in the loop of CYCountingSemaphore::release
  awaiters,   \* m_awaiters: the list, its head first
  ready,      \* m_awaiters holds ResultReadyConstant()
  fpc,        \* where OnResultFinished is, run by the producer or the maker
  resuming,   \* the awaiters that it has still to resume
  upc,        \* where each user is
  expected,   \* the head of the list that a user has read in await
  arrived,    \* history: the suspended users, in the order of their exchanges
  dpc         \* where the destructor of the shared state is

stateVars  == <<state, context, outcome, deletes>>
sharedVars == <<status, epoch, permits, signals>>
listVars   == <<awaiters, ready>>
finishVars == <<fpc, resuming>>
userVars   == <<upc, expected, arrived>>
vars == <<stateVars, ppc, sharedVars, listVars, finishVars, userVars, dpc>>

Finishers == {"producer", "maker"}
FinisherPCs == {"none", "store", "notify", "release", "signal", "swap", "resume", "done"}
UserPCs == {"new", "shareLoad", "shareSet", "shareCas", "sharing", "holds", "status",
            "waitImpl", "cvWait", "poll", "acquire", "asleep", "load", "push", "suspended", "take",
            "gone"}

TypeOK ==
  /\ state \in {"IDLE", "CONSUMER_SET", "CONSUMER_DONE", "PRODUCER_DONE"}
  /\ context \in {"IDLE", "SHARED"}
  /\ outcome \in Outcomes \cup {Idle}
  /\ deletes \in 0 .. 1
  /\ ppc \in {"producing", "copy", "lock", "finishing", "delete", "unknown", "done"}
  /\ status \in Outcomes \cup {Idle}
  /\ epoch \in 0 - Cardinality(Users) .. 2
  /\ permits \in 0 .. Permits /\ signals \in 0 .. 1
  /\ awaiters \in Seq(Users) /\ ready \in BOOLEAN
  /\ fpc \in [Finishers -> FinisherPCs]
  /\ resuming \in Seq(Users)
  /\ upc \in [Users -> UserPCs]
  /\ expected \in [Users -> Users \cup {Nil}]
  /\ arrived \in Seq(Users)
  /\ dpc \in {"no", "rewindLoad", "rewindCas", "clear", "dropLoad", "dropExchange", "done"}

(* The constructor has moved the CYResult in and is about to share it.     *)
Init ==
  /\ state = "IDLE" /\ context = "IDLE" /\ outcome = Idle /\ deletes = 0
  /\ ppc = "producing"
  /\ status = Idle /\ epoch = 0 /\ permits = 0 /\ signals = 0
  /\ awaiters = <<>> /\ ready = FALSE
  /\ fpc = [f \in Finishers |-> "none"] /\ resuming = <<>>
  /\ upc = [u \in Users |-> IF u = Maker THEN "shareLoad" ELSE "new"]
  /\ expected = [u \in Users |-> Nil]
  /\ arrived = <<>>
  /\ dpc = "no"

Goes(u, to) == upc' = [upc EXCEPT ![u] = to]
Finisher(f, to) == fpc' = [fpc EXCEPT ![f] = to]

(* Who holds a strong pointer to the shared state: the users, and the      *)
(* producer that has locked its weak pointer.                              *)
Holders == {u \in Users : upc[u] \notin {"new", "gone"}}
ProducerHolds == ppc = "finishing"

-----------------------------------------------------------------------------
(* The producer.                                                           *)

CompleteProducer ==
  /\ ppc = "producing"
  /\ \E v \in Outcomes : outcome' = v
  /\ state' = "PRODUCER_DONE"
  /\ \/ state = "CONSUMER_SET"  /\ ppc' = "copy"
     \/ state = "IDLE"          /\ ppc' = "done"
     \/ state = "CONSUMER_DONE" /\ ppc' = "delete"
  /\ UNCHANGED <<context, deletes, sharedVars, listVars, finishVars, userVars, dpc>>

(* ResumeConsumer copies the weak pointer; in a state that was deleted     *)
(* already it finds anything, also a status that is none of the five.      *)
CopyWeak ==
  /\ ppc = "copy"
  /\ IF deletes = 0
       THEN ppc' = IF context = "SHARED" THEN "lock" ELSE "done"
       ELSE ppc' \in {"lock", "done", "unknown"}
  /\ UNCHANGED <<stateVars, sharedVars, listVars, finishVars, userVars, dpc>>

(* ptrWeakSharedCtx.lock().                                                *)
LockWeak ==
  /\ ppc = "lock"
  /\ \/ /\ Holders # {}
        /\ ppc' = "finishing"
        /\ Finisher("producer", "store")
     \/ /\ Holders = {}
        /\ ppc' = "done"
        /\ UNCHANGED fpc
  /\ UNCHANGED <<stateVars, sharedVars, listVars, resuming, userVars, dpc>>

ProducerDeletes ==
  /\ ppc = "delete"
  /\ deletes' = deletes + 1
  /\ ppc' = "done"
  /\ UNCHANGED <<state, context, outcome, sharedVars, listVars, finishVars, userVars, dpc>>

-----------------------------------------------------------------------------
(* OnResultFinished, run by the producer or by Share.                      *)

(* m_status.store, which counts the epoch up.                              *)
StoreStatus(f) ==
  /\ fpc[f] = "store"
  /\ status' = outcome
  /\ epoch' = epoch + 1
  /\ Finisher(f, "notify")
  /\ UNCHANGED <<stateVars, ppc, permits, signals, listVars, resuming, userVars, dpc>>

NotifyAll(f) ==
  /\ fpc[f] = "notify"
  /\ epoch' = epoch + 1
  /\ Finisher(f, "release")
  /\ UNCHANGED <<stateVars, ppc, status, permits, signals, listVars, resuming, userVars, dpc>>

(* A faulty variant: one permit, for the first who waits.                  *)
ReleasePermits_One(f) ==
  /\ fpc[f] = "release"
  /\ permits' = permits + 1
  /\ Finisher(f, "signal")
  /\ UNCHANGED <<stateVars, ppc, status, epoch, signals, listVars, resuming, userVars, dpc>>

(* m_semaphore.release(m_semaphore.max() / 2): the count.  The semaphore   *)
(* is CYCountingSemaphore, as on Apple and Unix systems.  The standard     *)
(* one, elsewhere, behaves as if nobody slept and the loop ended at once.  *)
ReleasePermits(f) ==
  /\ fpc[f] = "release"
  /\ permits' = permits + Permits
  /\ Finisher(f, "signal")
  /\ UNCHANGED <<stateVars, ppc, status, epoch, signals, listVars, resuming, userVars, dpc>>

Asleep == {u \in Users : upc[u] = "asleep"}

(* One turn of the loop in CYCountingSemaphore::release, which notifies    *)
(* one sleeper, if there is one, for each permit: max() / 2 times.  Nobody *)
(* sees the end of 2^62 turns, so here the loop may go on for ever.        *)
SignalPermit(f) ==
  /\ fpc[f] = "signal"
  /\ signals' = 1 - signals
  /\ \/ \E u \in Asleep : Goes(u, "acquire")
     \/ Asleep = {} /\ UNCHANGED upc
  /\ UNCHANGED <<stateVars, ppc, status, epoch, permits, listVars, finishVars, expected, arrived,
                 dpc>>

(* The loop ends; there are more turns than sleepers.                      *)
EndSignals(f) ==
  /\ fpc[f] = "signal"
  /\ Asleep = {}
  /\ Finisher(f, "swap")
  /\ UNCHANGED <<stateVars, ppc, sharedVars, listVars, resuming, userVars, dpc>>

(* A faulty variant: only the coroutine at the head of the list is resumed.*)
SwapAwaiters_Head(f) ==
  /\ fpc[f] = "swap"
  /\ resuming' = IF awaiters = <<>> THEN <<>> ELSE <<Head(awaiters)>>
  /\ awaiters' = <<>> /\ ready' = TRUE
  /\ Finisher(f, "resume")
  /\ UNCHANGED <<stateVars, ppc, sharedVars, userVars, dpc>>

(* m_awaiters.exchange, and the reversal of the list that it returns.      *)
SwapAwaiters(f) ==
  /\ fpc[f] = "swap"
  /\ resuming' = Reverse(awaiters)
  /\ awaiters' = <<>> /\ ready' = TRUE
  /\ Finisher(f, "resume")
  /\ UNCHANGED <<stateVars, ppc, sharedVars, userVars, dpc>>

(* A user leaves a wait: Get and co_await go on to take the outcome, Wait  *)
(* and Resolve return.                                                     *)
LeavesWait(u) == \E to \in {"take", "holds"} : Goes(u, to)

(* A list without the place of one of its members.                         *)
Without(list, u) == RemoveAt(list, CHOOSE k \in DOMAIN list : list[k] = u)

(* The next awaiter is resumed.                                            *)
ResumeAwaiter(f) ==
  /\ fpc[f] = "resume"
  /\ resuming # <<>>
  /\ LeavesWait(Head(resuming))
  /\ resuming' = Tail(resuming)
  /\ arrived' = Without(arrived, Head(resuming))
  /\ UNCHANGED <<stateVars, ppc, sharedVars, listVars, fpc, expected, dpc>>

(* OnResultFinished returns; the producer drops its strong pointer, which  *)
(* may be the last one.                                                    *)
ReturnFromFinished(f) ==
  /\ fpc[f] = "resume"
  /\ resuming = <<>>
  /\ Finisher(f, "done")
  /\ \/ /\ f = "maker"
        /\ Goes(Maker, "holds")
        /\ UNCHANGED <<ppc, dpc>>
     \/ /\ f = "producer"
        /\ ppc' = "done"
        /\ dpc' = IF Holders = {} THEN "rewindLoad" ELSE dpc
        /\ UNCHANGED upc
  /\ UNCHANGED <<stateVars, sharedVars, listVars, resuming, expected, arrived>>

FinisherStep ==
  \E f \in Finishers :
    \/ StoreStatus(f) \/ NotifyAll(f) \/ ReleasePermits(f) \/ SignalPermit(f) \/ EndSignals(f)
    \/ SwapAwaiters(f) \/ ResumeAwaiter(f) \/ ReturnFromFinished(f)

ProducerStep == CompleteProducer \/ CopyWeak \/ LockWeak \/ ProducerDeletes

-----------------------------------------------------------------------------
(* Share, by the maker.                                                    *)

ShareLoad ==
  /\ upc[Maker] = "shareLoad"
  /\ \/ /\ state = "PRODUCER_DONE"
        /\ Goes(Maker, "sharing")
        /\ Finisher("maker", "store")
     \/ /\ state # "PRODUCER_DONE"
        /\ Goes(Maker, "shareSet")
        /\ UNCHANGED fpc
  /\ UNCHANGED <<stateVars, ppc, sharedVars, listVars, resuming, expected, arrived, dpc>>

SetSharedContext ==
  /\ upc[Maker] = "shareSet"
  /\ context' = "SHARED"
  /\ Goes(Maker, "shareCas")
  /\ UNCHANGED <<state, outcome, deletes, ppc, sharedVars, listVars, finishVars, expected, arrived,
                 dpc>>

RegisterShared ==
  /\ upc[Maker] = "shareCas"
  /\ \/ /\ state = "IDLE"
        /\ state' = "CONSUMER_SET"
        /\ Goes(Maker, "holds")
        /\ UNCHANGED fpc
     \/ /\ state # "IDLE"
        /\ Goes(Maker, "sharing")
        /\ Finisher("maker", "store")
        /\ UNCHANGED state
  /\ UNCHANGED <<context, outcome, deletes, ppc, sharedVars, listVars, resuming, expected, arrived,
                 dpc>>

ShareStep == ShareLoad \/ SetSharedContext \/ RegisterShared

-----------------------------------------------------------------------------
(* The users.                                                              *)

(* A user is given a copy by one that has one.                             *)
Copy(u) ==
  /\ upc[u] = "new"
  /\ \E v \in Holders : upc[v] \notin {"shareLoad", "shareSet", "shareCas", "sharing"}
  /\ Goes(u, "holds")
  /\ UNCHANGED <<stateVars, ppc, sharedVars, listVars, finishVars, expected, arrived, dpc>>

(* Wait or Get; WaitFor or WaitUntil; co_await or Resolve.                 *)
StartCall(u) ==
  /\ upc[u] = "holds"
  /\ \E to \in {"status", "poll", "load"} : Goes(u, to)
  /\ UNCHANGED <<stateVars, ppc, sharedVars, listVars, finishVars, expected, arrived, dpc>>

(* Wait(), which calls CYAtomicBase::wait once and not in a loop.          *)
WaitStatus(u) ==
  /\ upc[u] \in {"status", "waitImpl"}
  /\ \/ status # Idle /\ LeavesWait(u)
     \/ status = Idle /\ Goes(u, IF upc[u] = "status" THEN "waitImpl" ELSE "cvWait")
  /\ UNCHANGED <<stateVars, ppc, sharedVars, listVars, finishVars, expected, arrived, dpc>>

(* wait_for looks at its predicate at least every 100 ms.                  *)
CvWake(u) ==
  /\ upc[u] = "cvWait"
  /\ status # Idle \/ epoch > 0
  /\ epoch' = epoch - 1
  /\ LeavesWait(u)
  /\ UNCHANGED <<stateVars, ppc, status, permits, signals, listVars, finishVars, expected, arrived,
                 dpc>>

(* WaitUntil: the head of the loop.                                        *)
Poll(u) ==
  /\ upc[u] = "poll"
  /\ Goes(u, IF status # Idle THEN "holds" ELSE "acquire")
  /\ UNCHANGED <<stateVars, ppc, sharedVars, listVars, finishVars, expected, arrived, dpc>>

(* try_acquire_until.  The standard semaphore waits until there is a       *)
(* permit; the library's own one sleeps on its condition variable.         *)
Acquire(u) ==
  /\ upc[u] = "acquire"
  /\ permits > 0
  /\ permits' = permits - 1
  /\ Goes(u, "poll")
  /\ UNCHANGED <<stateVars, ppc, status, epoch, signals, listVars, finishVars, expected, arrived,
                 dpc>>

Sleep(u) ==
  /\ upc[u] = "acquire"
  /\ permits = 0
  /\ Goes(u, "asleep")
  /\ UNCHANGED <<stateVars, ppc, sharedVars, listVars, finishVars, expected, arrived, dpc>>

(* The deadline has passed, before or in try_acquire_until; a sleeper looks*)
(* at the count once more.                                                 *)
Expire(u) ==
  /\ upc[u] \in {"poll", "acquire", "asleep"}
  /\ upc[u] = "acquire" => permits = 0
  /\ Goes(u, IF upc[u] = "asleep" THEN "acquire" ELSE "holds")
  /\ UNCHANGED <<stateVars, ppc, sharedVars, listVars, finishVars, expected, arrived, dpc>>

(* What m_awaiters points to.                                              *)
First(list) == IF list = <<>> THEN Nil ELSE Head(list)

(* await: the head of the list is read.                                    *)
LoadAwaiters(u) ==
  /\ upc[u] = "load"
  /\ \/ ready  /\ LeavesWait(u)
     \/ ~ready /\ Goes(u, "push")
  /\ expected' = [expected EXCEPT ![u] = First(awaiters)]
  /\ UNCHANGED <<stateVars, ppc, sharedVars, listVars, finishVars, arrived, dpc>>

(* A faulty variant: a store in place of the compare_exchange.             *)
PushAwaiter_Stores(u) ==
  /\ upc[u] = "push"
  /\ awaiters' = <<u>> \o (IF expected[u] = Nil THEN <<>>
                           ELSE SubSeq(awaiters,
                                       CHOOSE k \in DOMAIN awaiters : awaiters[k] = expected[u],
                                       Len(awaiters)))
  /\ arrived' = Append(arrived, u)
  /\ Goes(u, "suspended")
  /\ UNCHANGED <<stateVars, ppc, sharedVars, ready, finishVars, expected, dpc>>

(* await: the compare_exchange_weak, which may also fail for no reason.    *)
PushAwaiter(u) ==
  /\ upc[u] = "push"
  /\ \/ /\ ~ready
        /\ expected[u] = First(awaiters)
        /\ awaiters' = <<u>> \o awaiters
        /\ arrived' = Append(arrived, u)
        /\ Goes(u, "suspended")
     \/ /\ Goes(u, "load")
        /\ UNCHANGED <<awaiters, arrived>>
  /\ expected' = [expected EXCEPT ![u] = Nil]
  /\ UNCHANGED <<stateVars, ppc, sharedVars, ready, finishVars, dpc>>

(* CYSharedResultState::Get, GetRef: the outcome is read.                  *)
TakeResult(u) ==
  /\ upc[u] = "take"
  /\ Goes(u, "holds")
  /\ UNCHANGED <<stateVars, ppc, sharedVars, listVars, finishVars, expected, arrived, dpc>>

(* A faulty variant: the producer does not keep the pointer it has locked. *)
Drop_IgnoresProducer(u) ==
  /\ upc[u] = "holds"
  /\ Goes(u, "gone")
  /\ dpc' = IF Holders = {u} THEN "rewindLoad" ELSE dpc
  /\ UNCHANGED <<stateVars, ppc, sharedVars, listVars, finishVars, expected, arrived>>

(* A copy is dropped; the last one takes the shared state with it.         *)
Drop(u) ==
  /\ upc[u] = "holds"
  /\ Goes(u, "gone")
  /\ dpc' = IF Holders = {u} /\ ~ProducerHolds THEN "rewindLoad" ELSE dpc
  /\ UNCHANGED <<stateVars, ppc, sharedVars, listVars, finishVars, expected, arrived>>

UserStep(u) ==
  \/ WaitStatus(u) \/ CvWake(u) \/ Poll(u) \/ Acquire(u) \/ Sleep(u)
  \/ LoadAwaiters(u) \/ PushAwaiter(u) \/ TakeResult(u)

-----------------------------------------------------------------------------
(* ~CYSharedResultState: TryRewindConsumer, then CompleteConsumer.         *)

RewindLoad ==
  /\ dpc = "rewindLoad"
  /\ dpc' = IF state = "CONSUMER_SET" THEN "rewindCas" ELSE "dropLoad"
  /\ UNCHANGED <<stateVars, ppc, sharedVars, listVars, finishVars, userVars>>

(* A faulty variant: a store in place of the compare_exchange.             *)
RewindCas_Stores ==
  /\ dpc = "rewindCas"
  /\ state' = "IDLE"
  /\ dpc' = "clear"
  /\ UNCHANGED <<context, outcome, deletes, ppc, sharedVars, listVars, finishVars, userVars>>

RewindCas ==
  /\ dpc = "rewindCas"
  /\ \/ state = "CONSUMER_SET" /\ state' = "IDLE" /\ dpc' = "clear"
     \/ state # "CONSUMER_SET" /\ dpc' = "dropLoad" /\ UNCHANGED state
  /\ UNCHANGED <<context, outcome, deletes, ppc, sharedVars, listVars, finishVars, userVars>>

ClearContext ==
  /\ dpc = "clear"
  /\ context' = "IDLE"
  /\ dpc' = "dropLoad"
  /\ UNCHANGED <<state, outcome, deletes, ppc, sharedVars, listVars, finishVars, userVars>>

DropLoad ==
  /\ dpc = "dropLoad"
  /\ \/ state = "PRODUCER_DONE" /\ deletes' = deletes + 1 /\ dpc' = "done"
     \/ state # "PRODUCER_DONE" /\ dpc' = "dropExchange" /\ UNCHANGED deletes
  /\ UNCHANGED <<state, context, outcome, ppc, sharedVars, listVars, finishVars, userVars>>

DropExchange ==
  /\ dpc = "dropExchange"
  /\ state' = "CONSUMER_DONE"
  /\ deletes' = IF state = "PRODUCER_DONE" THEN deletes + 1 ELSE deletes
  /\ dpc' = "done"
  /\ UNCHANGED <<context, outcome, ppc, sharedVars, listVars, finishVars, userVars>>

DestructorStep == RewindLoad \/ RewindCas \/ ClearContext \/ DropLoad \/ DropExchange

-----------------------------------------------------------------------------
(* Nobody holds a copy and everything is over.                             *)
Terminated ==
  /\ ppc \in {"done", "unknown"} /\ dpc = "done"
  /\ UNCHANGED vars

Next ==
  \/ ProducerStep \/ FinisherStep \/ ShareStep \/ DestructorStep
  \/ \E u \in Users : Copy(u) \/ StartCall(u) \/ UserStep(u) \/ Expire(u) \/ Drop(u)
  \/ Terminated

(* Threads that are in a call go on; the exchange of await does not fail   *)
(* for ever for no reason.  Nobody has to call, to drop its copy, or to    *)
(* let a deadline pass; the producer eventually completes.                 *)
Fairness ==
  /\ WF_vars(ProducerStep) /\ WF_vars(FinisherStep) /\ WF_vars(ShareStep)
  /\ WF_vars(DestructorStep)
  /\ \A u \in Users : WF_vars(UserStep(u)) /\ SF_vars(PushAwaiter(u) /\ upc'[u] = "suspended")

Spec == Init /\ [][Next]_vars /\ Fairness

-----------------------------------------------------------------------------
(* Properties.                                                             *)

(* The lock-free list forgets nobody, holds nobody twice and keeps the     *)
(* order, whatever exchanges meet, and when the result finishes at the     *)
(* same time: the part of it that is being resumed and the rest are the    *)
(* suspended users in the order in which they suspended.                   *)
ListHoldsSuspended ==
  /\ TypeOK
  /\ arrived = resuming \o Reverse(awaiters)
  /\ ToSet(arrived) = {u \in Users : upc[u] = "suspended"}
  /\ Len(arrived) = Cardinality({u \in Users : upc[u] = "suspended"})

(* The completion of the producer and what the other side does with the    *)
(* registration exclude each other through the state word: OnResultFinished*)
(* runs at most once, in the producer or in Share, and the context is      *)
(* neither set nor cleared while the producer copies it.  So the asserts   *)
(* on the state hold: the outcome is there when Get and OnResultFinished   *)
(* read it, the destructor never finds the registration that it should     *)
(* have taken back, and the context is free when Share sets it.            *)
OneSideActs ==
  /\ fpc["producer"] = "none" \/ fpc["maker"] = "none"
  /\ ppc = "copy" => dpc # "clear" /\ upc[Maker] # "shareSet"
  /\ \A u \in Users : upc[u] = "take" => state = "PRODUCER_DONE"
  /\ \A f \in Finishers : fpc[f] = "store" => state = "PRODUCER_DONE"
  /\ dpc = "rewindCas" => state \in {"CONSUMER_SET", "PRODUCER_DONE"}
  /\ dpc = "dropExchange" => state \in {"IDLE", "PRODUCER_DONE"}
  /\ upc[Maker] = "shareSet" => context = "IDLE"

(* The result's state is deleted when the last copy is gone and both the   *)
(* producer and the destructor have finished, and not before nobody uses   *)
(* it: no copy, not the finisher that has locked the shared state, not the *)
(* destructor.  (What the producer does before it locks is the subject of  *)
(* KnownContext.)                                                          *)
DeletedExactlyOnce ==
  /\ deletes > 0 => Holders = {} /\ ~ProducerHolds /\ dpc \in {"no", "done"}
  /\ dpc = "done" /\ ppc \in {"unknown", "done"} => deletes = 1

(* ResumeConsumer finds one of the five kinds of context: the assert on    *)
(* its last line.                                                          *)
KnownContext == ppc # "unknown"

(* Whoever blocks its thread, with or without a deadline, goes on when the *)
(* result has finished: no notification of the condition variables is      *)
(* missed, and there is a permit for every waiter.  (m_semaphore.release   *)
(* counts up before it notifies, and try_acquire_until sleeps only on 0.)  *)
(* And a coroutine that awaits suspends or goes on: its exchange does not  *)
(* fail for ever.                                                          *)
WaitersGoOn ==
  \A u \in Users :
    upc[u] \in {"cvWait", "acquire", "asleep", "push"} ~> upc[u] \in {"take", "holds", "suspended"}

(* The loop of notifications in release ends.  TLC refutes it, as nothing  *)
(* in the code makes 2^62 turns short (section 7 of README.md).            *)
Signalling == \E f \in Finishers : fpc[f] = "signal"
SignalsEnd == []<>~Signalling

(* A suspended coroutine is resumed, unless the loop of notifications is   *)
(* in the way: OnResultFinished, run by whichever of the two, comes to the *)
(* awaiters and leaves none, and nobody suspends after it.  (No coroutine  *)
(* suspends again, so that there is a time when all have been resumed.)    *)
AwaitersGoOn == []<>(Signalling \/ \A u \in Users : upc[u] # "suspended")

(* Nobody is left behind by the result, in either way of waiting.          *)
EveryoneGoesOn == WaitersGoOn /\ AwaitersGoOn

-----------------------------------------------------------------------------
(* The inductive invariant behind OneSideActs and DeletedExactlyOnce.      *)

(* The types that it needs; the bounds on the counters are not among them. *)
Typed ==
  /\ outcome \in Outcomes \cup {Idle} /\ epoch \in Int
  /\ awaiters \in Seq(Users) /\ resuming \in Seq(Users) /\ ready \in BOOLEAN
  /\ fpc \in [Finishers -> FinisherPCs]
  /\ upc \in [Users -> UserPCs]
  /\ ppc \in {"producing", "copy", "lock", "finishing", "delete", "unknown", "done"}
  /\ dpc \in {"no", "rewindLoad", "rewindCas", "clear", "dropLoad", "dropExchange", "done"}

Published == ppc # "producing"
Registering == upc[Maker] \in {"shareLoad", "shareSet", "shareCas"}
Sharing == Registering \/ upc[Maker] = "sharing"

(* Before the producer's exchange the state mirrors Share and the          *)
(* destructor alone; afterwards only the destructor's exchange changes it. *)
StateWord ==
  /\ ~Published =>
       state = IF Registering THEN "IDLE"
               ELSE IF dpc \in {"no", "rewindLoad", "rewindCas"} THEN "CONSUMER_SET"
               ELSE IF dpc = "done" THEN "CONSUMER_DONE"
               ELSE "IDLE"
  /\ Published /\ dpc # "done" => state = "PRODUCER_DONE"
  /\ ppc = "copy" => dpc \notin {"clear", "dropExchange"}
  /\ ppc = "delete" => dpc = "done"
  /\ deletes = IF Published /\ dpc = "done" /\ ppc # "delete" THEN 1 ELSE 0

(* Nobody can learn of the result before it is published.                  *)
NothingEarly ==
  /\ ~Published => status = Idle /\ epoch <= 0 /\ ~ready /\ resuming = <<>>
  /\ \A u \in Users : upc[u] = "take" => Published

(* The maker is alone until Share returns.                                 *)
MakerAlone ==
  Sharing =>
    /\ \A u \in Users \ {Maker} : upc[u] = "new"
    /\ ppc \in {"producing", "done"}
    /\ awaiters = <<>> /\ resuming = <<>>
    /\ upc[Maker] \in {"shareLoad", "shareSet"} => context = "IDLE"

(* Who runs OnResultFinished.                                              *)
OneFinisher ==
  /\ Registering => fpc["maker"] = "none" /\ fpc["producer"] = "none"
  /\ upc[Maker] = "sharing" <=> fpc["maker"] \notin {"none", "done"}
  /\ fpc["maker"] # "none" => ppc = "done" /\ fpc["producer"] = "none"
  /\ ppc = "finishing" <=> fpc["producer"] \notin {"none", "done"}
  /\ fpc["producer"] = "done" => ppc = "done"

(* The destructor runs when, and only when, nobody holds the shared state. *)
DestructorLast == dpc = "no" <=> Holders # {} \/ ProducerHolds

IInv == Typed /\ StateWord /\ NothingEarly /\ MakerAlone /\ OneFinisher /\ DestructorLast
=============================================================================
