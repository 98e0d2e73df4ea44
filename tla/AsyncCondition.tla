--------------------------- MODULE AsyncCondition ---------------------------
(***************************************************************************)
(* CYAsyncCondition on top of the asynchronous lock: coroutines that own   *)
(* the lock await the condition until a flag, which the lock protects, is  *)
(* set; others notify one of them or all.                                  *)
(*                                                                         *)
(* The awaiter holds the condition's mutex while it unlocks the lock, and  *)
(* that may resume other coroutines on its stack.  Assumed of the users:   *)
(* a coroutine that is resumed so does not call the condition before it    *)
(* suspends, as it would lock the mutex that its own thread holds.         *)
(***************************************************************************)
EXTENDS AsyncLock

VARIABLES
  waiters,   \* m_awaiters of the condition
  cpc,       \* where each coroutine is in CYAsyncCondition::await
  resuming,  \* the awaiters that each notifying coroutine still has to resume
  ready,     \* the flag that the predicate looks at
  announcer  \* who has set it and has yet to notify

lockVars == <<locked, awaiters, pc, waited, owns, inUnLock, calls>>
condVars == <<waiters, cpc, resuming, ready, announcer>>
allVars  == <<lockVars, condVars>>

CondInit ==
  /\ Init
  /\ waiters = <<>>
  /\ cpc = [c \in Coroutines |-> "none"]
  /\ resuming = [c \in Coroutines |-> <<>>]
  /\ ready = FALSE
  /\ announcer = Nobody

CondTypeOK ==
  /\ TypeOK
  /\ waiters \in Seq(Coroutines)
  /\ cpc \in [Coroutines -> {"none", "unlocking", "waiting", "resumeOn", "posted"}]
  /\ resuming \in [Coroutines -> Seq(Coroutines)]
  /\ ready \in BOOLEAN
  /\ announcer \in Coroutines \cup {Nobody}

(* A coroutine that is in no call of the condition.                        *)
Free(c) == cpc[c] = "none" /\ resuming[c] = <<>>

(* A faulty variant: the awaiter locks the mutex only to be listed, after  *)
(* it has freed the lock.                                                  *)
MutexFree_Early == TRUE

(* m_lock of the condition: held from the beginning to the end of          *)
(* await_suspend; notifications hold it for one step.                      *)
MutexFree == \A c \in Coroutines : cpc[c] # "unlocking"

-----------------------------------------------------------------------------
(* await_suspend: the mutex, then UnLock, whose resumed coroutine may run  *)
(* on this stack.                                                          *)
Await(c) ==
  /\ Free(c) /\ ~ready
  /\ MutexFree
  /\ UnLock(c)
  /\ cpc' = [cpc EXCEPT ![c] = "unlocking"]
  /\ UNCHANGED <<waiters, resuming, ready, announcer>>

(* A faulty variant: the awaiter is suspended without being listed.        *)
PushBack_Skips(c) ==
  /\ cpc[c] = "unlocking" /\ Runs(c)
  /\ Goes(c, "outside")
  /\ owns' = [owns EXCEPT ![c] = FALSE]
  /\ inUnLock' = [inUnLock EXCEPT ![c] = Nobody]
  /\ cpc' = [cpc EXCEPT ![c] = "waiting"]
  /\ UNCHANGED <<locked, awaiters, waited, calls, waiters, resuming, ready, announcer>>

(* UnLock has returned: the awaiter is listed and suspended, the mutex     *)
(* free.                                                                   *)
PushBack(c) ==
  /\ cpc[c] = "unlocking" /\ Runs(c)
  /\ Goes(c, "outside")
  /\ owns' = [owns EXCEPT ![c] = FALSE]
  /\ inUnLock' = [inUnLock EXCEPT ![c] = Nobody]
  /\ waiters' = Append(waiters, c)
  /\ cpc' = [cpc EXCEPT ![c] = "waiting"]
  /\ UNCHANGED <<locked, awaiters, waited, calls, resuming, ready, announcer>>

(* A coroutine that owns the lock sets the flag, and owes a notification.  *)
SetReady(c) ==
  /\ pc[c] = "inside" /\ Runs(c) /\ Free(c)
  /\ ~ready
  /\ ready' = TRUE
  /\ announcer' = c
  /\ UNCHANGED <<lockVars, waiters, cpc, resuming>>

(* c is not on the stack of an await_suspend, see above.                   *)
MayCall(c) ==
  /\ pc[c] \in {"inside", "outside"} /\ Runs(c) /\ Free(c)
  /\ inUnLock[c] = Nobody

(* NotifyOne, as far as it holds the mutex, by anybody at any time.        *)
NotifyOne(c) ==
  /\ MayCall(c) /\ MutexFree
  /\ waiters # <<>> /\ calls[c] < MaxCalls
  /\ calls' = [calls EXCEPT ![c] = @ + 1]
  /\ resuming' = [resuming EXCEPT ![c] = <<Head(waiters)>>]
  /\ waiters' = Tail(waiters)
  /\ UNCHANGED <<locked, awaiters, pc, waited, owns, inUnLock, cpc, ready, announcer>>

(* NotifyALL, as far as it holds the mutex, by the coroutine that owes it. *)
NotifyALL(c) ==
  /\ MayCall(c) /\ MutexFree
  /\ announcer = c
  /\ announcer' = Nobody
  /\ resuming' = [resuming EXCEPT ![c] = waiters]
  /\ waiters' = <<>>
  /\ UNCHANGED <<lockVars, cpc, ready>>

(* The notifying coroutine resumes the next awaiter on its own stack.      *)
ResumeAwaiter(c) ==
  /\ resuming[c] # <<>> /\ Runs(c)
  /\ LET h == Head(resuming[c]) IN
       /\ resuming' = [resuming EXCEPT ![c] = Tail(@)]
       /\ cpc' = [cpc EXCEPT ![h] = "resumeOn"]
       /\ inUnLock' = [inUnLock EXCEPT ![h] = c]
  /\ UNCHANGED <<locked, awaiters, pc, waited, owns, calls, waiters, ready, announcer>>

(* The awaiter is on its executor and calls lock.Lock.                     *)
LockAgain(c) ==
  /\ cpc' = [cpc EXCEPT ![c] = "none"]
  /\ waited' = [waited EXCEPT ![c] = FALSE]
  /\ Goes(c, "try")

(* Its executor is gone: await throws, and the lock is not owned.          *)
Throw(c) ==
  /\ "closed" \in Executors
  /\ cpc' = [cpc EXCEPT ![c] = "none"]
  /\ UNCHANGED <<pc, waited>>

(* co_await ResumeOn(ptrResumeExecutor) of AWaitImpl.                      *)
ResumeOnExecutor(c) ==
  /\ cpc[c] = "resumeOn" /\ Runs(c)
  /\ \/ /\ "posts" \in Executors
        /\ cpc' = [cpc EXCEPT ![c] = "posted"]
        /\ inUnLock' = [inUnLock EXCEPT ![c] = Nobody]
        /\ UNCHANGED <<pc, waited>>
     \/ /\ "inline" \in Executors
        /\ LockAgain(c)
        /\ UNCHANGED inUnLock
     \/ Throw(c) /\ UNCHANGED inUnLock
  /\ UNCHANGED <<locked, awaiters, owns, calls, waiters, resuming, ready, announcer>>

(* The posted task is run, or destroyed.                                   *)
ContinueOnExecutor(c) ==
  /\ cpc[c] = "posted"
  /\ LockAgain(c) \/ Throw(c)
  /\ UNCHANGED <<locked, awaiters, owns, inUnLock, calls, waiters, resuming, ready, announcer>>

-----------------------------------------------------------------------------
(* The steps of the lock, by coroutines that are not in the condition.     *)
LockStep(c) == Free(c) /\ Step(c) /\ UNCHANGED condVars
LockCall(c) == Free(c) /\ (Lock(c) \/ TryLock(c)) /\ UNCHANGED condVars
LockSuspend(c) == Free(c) /\ Suspend(c) /\ UNCHANGED condVars

CondStep(c) ==
  \/ PushBack(c) \/ NotifyALL(c) \/ ResumeAwaiter(c)
  \/ ResumeOnExecutor(c) \/ ContinueOnExecutor(c)

CondNext ==
  \E c \in Coroutines :
    \/ LockStep(c) \/ LockCall(c) \/ LockSuspend(c)
    \/ Await(c) \/ SetReady(c) \/ NotifyOne(c) \/ CondStep(c)

(* As for the lock; and who has set the flag notifies.                     *)
CondFairness ==
  \A c \in Coroutines :
    WF_allVars(LockStep(c)) /\ WF_allVars(LockSuspend(c)) /\ WF_allVars(CondStep(c))

CondSpec == CondInit /\ [][CondNext]_allVars /\ CondFairness

-----------------------------------------------------------------------------
(* Properties.                                                             *)

Listed(c, list) == \E k \in DOMAIN list : list[k] = c

(* Whoever has suspended in the condition is in exactly one list, the      *)
(* condition's or that of the one notification that took it out, so that   *)
(* nobody is resumed twice or never (CYAWaiter::await_suspend, NotifyOne,  *)
(* NotifyALL).  And no notification is lost between the predicate and the  *)
(* suspension: once the flag is set and its notification given, nobody     *)
(* waits any more, or is about to (await_suspend holds m_lock over UnLock  *)
(* and PushBack).                                                          *)
NoLostNotification ==
  /\ CondTypeOK
  /\ \A c \in Coroutines : cpc[c] = "waiting" =>
       Listed(c, waiters) # \E d \in Coroutines : Listed(c, resuming[d])
  /\ \A c \in Coroutines : Listed(c, waiters) \/ (\E d \in Coroutines : Listed(c, resuming[d]))
       => cpc[c] = "waiting"
  /\ \A d, e \in Coroutines : \A c \in Coroutines :
       Listed(c, resuming[d]) /\ Listed(c, resuming[e]) => d = e
  /\ ready /\ announcer = Nobody => waiters = <<>> /\ MutexFree

(* Every coroutine that waits for the lock gets it, or the exception of    *)
(* its executor, if it is not overtaken for ever: the calls are bounded,   *)
(* so that in the end nobody may be left waiting.  And whoever awaits the  *)
(* condition when the flag is set gets the lock back, or the exception: no *)
(* round is begun any more then, so that in the end nobody is in the       *)
(* condition.                                                              *)
AwaitersGoOn ==
  []<>(\A c \in Coroutines : pc[c] # "suspended" /\ (ready => cpc[c] = "none"))

=============================================================================
