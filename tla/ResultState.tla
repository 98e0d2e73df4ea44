----------------------------- MODULE ResultState -----------------------------
(***************************************************************************)
(* The rendezvous between one producer and one consumer of a result:       *)
(* CYResultState, the CYConsumerContext it embeds and the CYResult,        *)
(* CYResultPromise and awaitable objects that drive it.                    *)
(*                                                                         *)
(* A step is one access to memory that the two threads share: an operation *)
(* on the atomic m_eResultState, a read or write of m_objConsumer, an      *)
(* operation on the semaphore of WaitFor or on the epoch of                *)
(* CYAtomicBase::wait, the construction of the value, the deletion of the  *)
(* state.  A CYResult is not shared by its consumers, so the consumer runs *)
(* one call at a time.                                                     *)
(***************************************************************************)
EXTENDS Integers

CONSTANTS
  Outcomes,   \* what a producer can store: the values and the exceptions
  Idle        \* STATUS_RESULT_IDLE: nothing has been stored

ASSUME OutcomesAssumption == Idle \notin Outcomes

VARIABLES
  state,      \* CYResultStateBase::m_eResultState
  producer,   \* m_objProducer: Idle or the outcome that was built
  context,    \* m_objConsumer.m_status
  signalled,  \* the flag of the semaphore that the last WaitFor made
  epoch,      \* CYAtomicBase::m_epoch of m_eResultState
  deletes,    \* how often DeleteSelf ran
  ppc,        \* where the producer is
  cpc,        \* where the consumer is
  call,       \* the call of CYResult that the consumer last started
  seen,       \* what Status or WaitFor last returned
  got         \* what Get or co_await returned, Idle before

vars == <<state, producer, context, signalled, epoch, deletes, ppc, cpc, call,
          seen, got>>

States == {"IDLE", "CONSUMER_SET", "CONSUMER_WAIT", "CONSUMER_DONE",
           "PRODUCER_DONE"}
Contexts == {"IDLE", "AWAIT", "WAITFOR"}

(* Wait and Get block the thread, Await (co_await) and Resolve suspend the *)
(* coroutine, WaitFor blocks the thread until a deadline.                  *)
Waits == {"Wait", "Get"}
Awaits == {"Await", "Resolve"}
Calls == Waits \cup Awaits \cup {"WaitFor"}

ProducerPCs == {"producing", "exchange", "resume", "release", "notify",
                "delete", "done"}
ConsumerPCs == {"holds", "load", "set", "cas", "waitLoop", "waitImpl",
                "cvWait", "acquire", "rewind", "clear", "suspended", "joined",
                "dropExchange", "gone"}

(* Where the thread of Wait() and Get() is while it is registered.         *)
ThreadWaits == {"waitLoop", "waitImpl", "cvWait"}

TypeOK ==
  /\ state \in States
  /\ producer \in Outcomes \cup {Idle}
  /\ context \in Contexts
  /\ signalled \in BOOLEAN
  /\ epoch \in -1 .. 1
  /\ deletes \in Nat
  /\ ppc \in ProducerPCs
  /\ cpc \in ConsumerPCs
  /\ call \in Calls
  /\ seen \in Outcomes \cup {Idle}
  /\ got \in Outcomes \cup {Idle}

(* A coroutine promise or a CYResultPromise has just handed out the        *)
(* CYResult.                                                               *)
Init ==
  /\ state = "IDLE"
  /\ producer = Idle
  /\ context = "IDLE"
  /\ signalled = FALSE
  /\ epoch = 0
  /\ deletes = 0
  /\ ppc = "producing"
  /\ cpc = "holds"
  /\ call = "Wait"
  /\ seen = Idle
  /\ got = Idle

-----------------------------------------------------------------------------
(* The producer.                                                           *)

(* SetResult, SetException, FromCallable: build the outcome in place.  A   *)
(* promise that is destroyed unfulfilled builds an exception.              *)
BuildResult ==
  /\ ppc = "producing"
  /\ \E v \in Outcomes : producer' = v
  /\ ppc' = "exchange"
  /\ UNCHANGED <<state, context, signalled, epoch, deletes, cpc, call, seen, got>>

(* Faulty variants of CompleteProducer: it overlooks the suspended          *)
(* coroutine, or the consumer that has already left.                       *)
CompleteProducer_SkipsResume ==
  /\ ppc = "exchange"
  /\ state' = "PRODUCER_DONE"
  /\ \/ state \in {"CONSUMER_SET", "IDLE"} /\ ppc' = "done"
     \/ state = "CONSUMER_WAIT" /\ ppc' = "notify"
     \/ state = "CONSUMER_DONE" /\ ppc' = "delete"
  /\ UNCHANGED <<producer, context, signalled, epoch, deletes, cpc, call, seen, got>>

CompleteProducer_SkipsDelete ==
  /\ ppc = "exchange"
  /\ state' = "PRODUCER_DONE"
  /\ \/ state = "CONSUMER_SET"  /\ ppc' = "resume"
     \/ state = "CONSUMER_WAIT" /\ ppc' = "notify"
     \/ state \in {"CONSUMER_DONE", "IDLE"} /\ ppc' = "done"
  /\ UNCHANGED <<producer, context, signalled, epoch, deletes, cpc, call, seen, got>>

CompleteProducer ==
  /\ ppc = "exchange"
  /\ state' = "PRODUCER_DONE"
  /\ \/ state = "CONSUMER_SET"  /\ ppc' = "resume"
     \/ state = "IDLE"          /\ ppc' = "done"
     \/ state = "CONSUMER_WAIT" /\ ppc' = "notify"
     \/ state = "CONSUMER_DONE" /\ ppc' = "delete"
  /\ UNCHANGED <<producer, context, signalled, epoch, deletes, cpc, call, seen, got>>

(* m_eResultState.notify_one() after the exchange.                         *)
NotifyOne ==
  /\ ppc = "notify"
  /\ epoch' = epoch + 1
  /\ ppc' = "done"
  /\ UNCHANGED <<state, producer, context, signalled, deletes, cpc, call, seen, got>>

(* DeleteSelf by the producer, which found CONSUMER_DONE.                  *)
ProducerDeletes ==
  /\ ppc = "delete"
  /\ deletes' = deletes + 1
  /\ ppc' = "done"
  /\ UNCHANGED <<state, producer, context, signalled, epoch, cpc, call, seen, got>>

(* What the consumer does once it knows that the producer is done: Get and *)
(* co_await go on to take the value, WaitFor returns the status, Wait and  *)
(* Resolve return.                                                         *)
FinishCall ==
  /\ cpc' = IF call \in {"Get", "Await"} THEN "joined" ELSE "holds"
  /\ seen' = IF call = "WaitFor" THEN producer ELSE seen

(* CYConsumerContext::ResumeConsumer reads m_status: it resumes the        *)
(* suspended coroutine on this thread, copies the shared pointer to the    *)
(* semaphore, or returns.  In a state that was already deleted it reads    *)
(* whatever is left there.                                                 *)
ResumeConsumer ==
  /\ ppc = "resume"
  /\ \/ /\ context = "AWAIT"
        /\ FinishCall
        /\ ppc' = "done"
     \/ /\ context = "WAITFOR"
        /\ ppc' = "release"
        /\ UNCHANGED <<cpc, seen>>
     \/ /\ context = "IDLE" \/ deletes > 0
        /\ ppc' = "done"
        /\ UNCHANGED <<cpc, seen>>
  /\ UNCHANGED <<state, producer, context, signalled, epoch, deletes, call, got>>

(* ptrWaitCtx->release() on the copied pointer: the flag saturates.        *)
Release ==
  /\ ppc = "release"
  /\ signalled' = TRUE
  /\ ppc' = "done"
  /\ UNCHANGED <<state, producer, context, epoch, deletes, cpc, call, seen, got>>

ProducerNext ==
  \/ BuildResult \/ CompleteProducer \/ NotifyOne \/ ProducerDeletes
  \/ ResumeConsumer \/ Release

-----------------------------------------------------------------------------
(* The consumer.                                                           *)

(* Status(): IDLE, or what the producer built.                             *)
Status ==
  /\ cpc = "holds"
  /\ seen' = IF state = "IDLE" THEN Idle ELSE producer
  /\ UNCHANGED <<state, producer, context, signalled, epoch, deletes, ppc, cpc, call, got>>

StartCall ==
  /\ cpc = "holds"
  /\ call' \in Calls
  /\ cpc' = "load"
  /\ UNCHANGED <<state, producer, context, signalled, epoch, deletes, ppc, seen, got>>

(* The load with which Wait, WaitFor and await begin.                      *)
Load ==
  /\ cpc = "load"
  /\ \/ /\ state = "PRODUCER_DONE"
        /\ FinishCall
     \/ /\ state # "PRODUCER_DONE"
        /\ cpc' = IF call \in Waits THEN "cas" ELSE "set"
        /\ UNCHANGED seen
  /\ UNCHANGED <<state, producer, context, signalled, epoch, deletes, ppc, call, got>>

(* SetWaitForContext with a new semaphore, or SetAwaitHandle.              *)
SetContext ==
  /\ cpc = "set"
  /\ context' = IF call = "WaitFor" THEN "WAITFOR" ELSE "AWAIT"
  /\ signalled' = (signalled /\ call # "WaitFor")
  /\ cpc' = "cas"
  /\ UNCHANGED <<state, producer, epoch, deletes, ppc, call, seen, got>>

(* A faulty variant: the coroutine suspends whether or not the exchange    *)
(* from IDLE succeeded.                                                    *)
RegisterConsumer_IgnoresFailure ==
  /\ cpc = "cas"
  /\ state' = IF state # "IDLE" THEN state
              ELSE IF call \in Waits THEN "CONSUMER_WAIT" ELSE "CONSUMER_SET"
  /\ cpc' = IF call \in Waits THEN "waitLoop"
            ELSE IF call \in Awaits THEN "suspended" ELSE "acquire"
  /\ UNCHANGED <<producer, context, signalled, epoch, deletes, ppc, call, seen, got>>

(* The compare_exchange from IDLE of Wait, WaitFor and await.              *)
RegisterConsumer ==
  /\ cpc = "cas"
  /\ \/ /\ state = "IDLE"
        /\ state' = IF call \in Waits THEN "CONSUMER_WAIT" ELSE "CONSUMER_SET"
        /\ cpc' = IF call \in Waits THEN "waitLoop"
                  ELSE IF call \in Awaits THEN "suspended" ELSE "acquire"
        /\ UNCHANGED seen
     \/ /\ state # "IDLE"
        /\ FinishCall
        /\ UNCHANGED state
  /\ UNCHANGED <<producer, context, signalled, epoch, deletes, ppc, call, got>>

(* The loop of Wait() around CYAtomicBase::wait.                           *)
WaitLoop ==
  /\ cpc = "waitLoop"
  /\ \/ /\ state = "PRODUCER_DONE"
        /\ FinishCall
     \/ /\ state # "PRODUCER_DONE"
        /\ cpc' = "waitImpl"
        /\ UNCHANGED seen
  /\ UNCHANGED <<state, producer, context, signalled, epoch, deletes, ppc, call, got>>

(* wait_impl: the test without the mutex.                                  *)
WaitImpl ==
  /\ cpc = "waitImpl"
  /\ cpc' = IF state # "CONSUMER_WAIT" THEN "waitLoop" ELSE "cvWait"
  /\ UNCHANGED <<state, producer, context, signalled, epoch, deletes, ppc, call, seen, got>>

(* The predicate of cv_.wait_for is evaluated on a notification and every  *)
(* 100 ms, so a notification that comes too early for the condition        *)
(* variable is not lost.                                                   *)
CvWake ==
  /\ cpc = "cvWait"
  /\ state # "CONSUMER_WAIT" \/ epoch > 0
  /\ epoch' = epoch - 1
  /\ cpc' = "waitLoop"
  /\ UNCHANGED <<state, producer, context, signalled, deletes, ppc, call, seen, got>>

(* try_acquire_for returned true, or false at the deadline.                *)
Acquire ==
  /\ cpc = "acquire"
  /\ signalled
  /\ signalled' = FALSE
  /\ FinishCall
  /\ UNCHANGED <<state, producer, context, epoch, deletes, ppc, call, got>>

TimeOut ==
  /\ cpc = "acquire"
  /\ ~signalled
  /\ cpc' = "rewind"
  /\ UNCHANGED <<state, producer, context, signalled, epoch, deletes, ppc, call, seen, got>>

(* A faulty variant: a plain store in place of the compare_exchange.       *)
RewindWaitFor_Stores ==
  /\ cpc = "rewind"
  /\ state' = "IDLE"
  /\ cpc' = "clear"
  /\ UNCHANGED <<producer, context, signalled, epoch, deletes, ppc, call, seen, got>>

(* After the deadline: take the registration back, unless the producer     *)
(* was faster.                                                             *)
RewindWaitFor ==
  /\ cpc = "rewind"
  /\ \/ /\ state = "CONSUMER_SET"
        /\ state' = "IDLE"
        /\ cpc' = "clear"
        /\ UNCHANGED seen
     \/ /\ state # "CONSUMER_SET"
        /\ FinishCall
        /\ UNCHANGED state
  /\ UNCHANGED <<producer, context, signalled, epoch, deletes, ppc, call, got>>

(* m_objConsumer.Clear(), then return STATUS_RESULT_IDLE.                  *)
ClearContext ==
  /\ cpc = "clear"
  /\ context' = "IDLE"
  /\ seen' = Idle
  /\ cpc' = "holds"
  /\ UNCHANGED <<state, producer, signalled, epoch, deletes, ppc, call, got>>

(* Get and await_resume: the joined pointer moves the outcome out and      *)
(* deletes the state.                                                      *)
TakeResult ==
  /\ cpc = "joined"
  /\ got' = producer
  /\ deletes' = deletes + 1
  /\ cpc' = "gone"
  /\ UNCHANGED <<state, producer, context, signalled, epoch, ppc, call, seen>>

(* CompleteConsumer, run by the destructor of an unused CYResult: a load,  *)
(* then an exchange unless the load already found the producer done.       *)
DropLoad ==
  /\ cpc = "holds"
  /\ \/ /\ state = "PRODUCER_DONE"
        /\ deletes' = deletes + 1
        /\ cpc' = "gone"
     \/ /\ state # "PRODUCER_DONE"
        /\ cpc' = "dropExchange"
        /\ UNCHANGED deletes
  /\ UNCHANGED <<state, producer, context, signalled, epoch, ppc, call, seen, got>>

(* A faulty variant: the value that the exchange returned is not looked at.*)
DropExchange_IgnoresOld ==
  /\ cpc = "dropExchange"
  /\ state' = "CONSUMER_DONE"
  /\ cpc' = "gone"
  /\ UNCHANGED <<producer, context, signalled, epoch, deletes, ppc, call, seen, got>>

DropExchange ==
  /\ cpc = "dropExchange"
  /\ state' = "CONSUMER_DONE"
  /\ deletes' = IF state = "PRODUCER_DONE" THEN deletes + 1 ELSE deletes
  /\ cpc' = "gone"
  /\ UNCHANGED <<producer, context, signalled, epoch, ppc, call, seen, got>>

(* The steps that the consumer takes once it has started a call.           *)
ConsumerStep ==
  \/ Load \/ SetContext \/ RegisterConsumer \/ WaitLoop \/ WaitImpl \/ CvWake
  \/ Acquire \/ RewindWaitFor \/ ClearContext \/ TakeResult \/ DropExchange

ConsumerNext == ConsumerStep \/ Status \/ StartCall \/ TimeOut \/ DropLoad

-----------------------------------------------------------------------------
(* Both parties have left: the system stops.                               *)
Terminated ==
  /\ ppc = "done" /\ cpc = "gone"
  /\ UNCHANGED vars

Next == ProducerNext \/ ConsumerNext \/ Terminated

(* A thread that is in a call goes on; no caller has to start another      *)
(* call, to drop its result, or to let a deadline pass.  The producer      *)
(* eventually builds an outcome, because a task is executed or destroyed   *)
(* and a promise that is destroyed builds an exception.                    *)
Fairness == WF_vars(ProducerNext) /\ WF_vars(ConsumerStep)

Spec == Init /\ [][Next]_vars /\ Fairness

-----------------------------------------------------------------------------
(* Properties.                                                             *)

(* The producer's exchange in CompleteProducer has happened.               *)
Published == ppc \notin {"producing", "exchange"}

(* The state is deleted at most once, and when both parties have left it   *)
(* has been deleted: CompleteProducer, CompleteConsumer and                *)
(* CompleteJoinedConsumer agree on who runs DeleteSelf.                    *)
DeletedExactlyOnce ==
  /\ deletes <= 1
  /\ ppc = "done" /\ cpc = "gone" => deletes = 1

(* A coroutine that suspended in await() on a result that is now published *)
(* has a producer that is about to resume it: no order of the two          *)
(* exchanges loses the wake-up.                                            *)
NoLostResume ==
  cpc = "suspended" /\ Published => ppc = "resume" /\ context = "AWAIT"

(* ResumeConsumer finds a coroutine handle only of a coroutine that is     *)
(* suspended, in a state that still exists: a coroutine is never resumed   *)
(* twice, nor while it runs.                                               *)
ResumesOnlySuspended ==
  ppc = "resume" /\ context = "AWAIT" => cpc = "suspended" /\ deletes = 0

(* A coroutine that awaits is resumed exactly once.                        *)
ResumedExactlyOnce == NoLostResume /\ ResumesOnlySuspended

(* m_objConsumer has no lock: while the producer is about to read it, the  *)
(* consumer is neither about to set nor about to clear it.  And the        *)
(* AssertDone() after every failed compare_exchange and in                 *)
(* CompleteJoinedConsumer, the assert in CompleteConsumer that no          *)
(* registration is left, and the assert in Set*Context that the context is *)
(* free.                                                                   *)
NoContextRace ==
  /\ ppc = "resume" => cpc \notin {"set", "clear"}
  /\ cpc = "cas" => state \in {"IDLE", "PRODUCER_DONE"}
  /\ cpc = "rewind" => state \in {"CONSUMER_SET", "PRODUCER_DONE"}
  /\ cpc \in {"holds", "dropExchange"} => state \in {"IDLE", "PRODUCER_DONE"}
  /\ cpc = "joined" => state = "PRODUCER_DONE"
  /\ cpc = "set" => context = "IDLE"

(* Whatever Status, WaitFor, Get and co_await return is what the producer  *)
(* built, and only after the producer has published it.                    *)
ReturnsWhatWasBuilt ==
  /\ seen # Idle => Published /\ seen = producer
  /\ got # Idle => Published /\ got = producer

(* The producer reads the consumer context only of a state that exists.    *)
(* The assert on the semaphore pointer in ResumeConsumer takes this for    *)
(* granted.                                                                *)
ContextOutlivesResume == ppc = "resume" => deletes = 0

(* Every blocked thread and every suspended coroutine goes on.             *)
WaitersGoOn ==
  cpc \in ThreadWaits \cup {"acquire", "suspended"}
    ~> cpc \in {"holds", "joined", "gone", "rewind"}

-----------------------------------------------------------------------------
(* The inductive invariant behind the safety properties.                   *)

(* Before the producer's exchange the state mirrors the consumer alone.    *)
StateBeforePublication ==
  ~Published =>
    /\ ppc = "producing" <=> producer = Idle
    /\ epoch = 0
    /\ deletes = 0
    /\ cpc # "joined" /\ got = Idle
    /\ state = IF cpc \in ThreadWaits THEN "CONSUMER_WAIT"
               ELSE IF cpc \in {"acquire", "rewind", "suspended"} THEN "CONSUMER_SET"
               ELSE IF cpc = "gone" THEN "CONSUMER_DONE"
               ELSE "IDLE"
    /\ cpc \in {"holds", "load", "set", "dropExchange"} => context = "IDLE"

StateAfterPublication ==
  Published =>
    /\ producer # Idle
    /\ cpc # "gone" => state = "PRODUCER_DONE"
    /\ deletes = IF cpc = "gone" /\ ppc # "delete" THEN 1 ELSE 0

(* Where the other party can be while the producer finishes, and what the  *)
(* context holds.                                                          *)
ProducerTail ==
  /\ ppc = "delete" => cpc = "gone"
  /\ ppc = "resume" =>
       \/ cpc = "suspended" /\ context = "AWAIT"
       \/ /\ context = "WAITFOR"
          /\ cpc \in {"acquire", "rewind", "holds", "load", "joined", "gone"}
  /\ ppc = "release" => cpc # "suspended"
  /\ ppc = "notify" => epoch <= 0 /\ cpc # "suspended"
  /\ ppc = "done" => cpc # "suspended"

ConsumerRegistration ==
  /\ cpc = "set" => context = "IDLE"
  /\ cpc \in {"set", "suspended"} => call \notin Waits
  /\ cpc \in {"acquire", "rewind", "clear"} => context = "WAITFOR" /\ call = "WaitFor"
  /\ cpc = "suspended" => context = "AWAIT" /\ call \in Awaits
  /\ cpc = "cas" => context = IF call \in Waits THEN "IDLE"
                              ELSE IF call \in Awaits THEN "AWAIT" ELSE "WAITFOR"
  /\ cpc \in ThreadWaits => call \in Waits
  /\ cpc = "cvWait" => epoch >= 0
  /\ signalled => Published

IInv ==
  /\ TypeOK
  /\ StateBeforePublication
  /\ StateAfterPublication
  /\ ProducerTail
  /\ ConsumerRegistration
  /\ ReturnsWhatWasBuilt

-----------------------------------------------------------------------------
(* The protocol implements ResultContract; the exchange in CompleteProducer*)
(* is the delivery.                                                        *)
Contract == INSTANCE ResultContract WITH
  outcome <- IF Published THEN producer ELSE Idle,
  blocked <- IF cpc \in ThreadWaits \cup {"suspended"} THEN "forever"
             ELSE IF cpc \in {"acquire", "rewind"} THEN "timed" ELSE "no",
  taken <- got,
  gone <- cpc = "gone",
  freed <- deletes > 0

(* The steps of the protocol are steps of the contract, and what the       *)
(* contract says must eventually happen does.                              *)
ImplementsContract == Contract!CSpec
=============================================================================
