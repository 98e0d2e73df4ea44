------------------------------ MODULE AsyncLock ------------------------------
(***************************************************************************)
(* CAsyncLock and CScopedAsyncLock: a lock for coroutines.  A coroutine    *)
(* that finds it taken suspends in m_lstAwaiters; UnLock frees the lock,   *)
(* takes the first of them out of the list and resumes it inside the call, *)
(* to try again.  The lock may meanwhile be taken by somebody else.  A     *)
(* coroutine that had to suspend continues on the executor it was given.   *)
(*                                                                         *)
(* A step is one critical section of m_mutexAwaiter, or one suspension or  *)
(* resumption.                                                             *)
(***************************************************************************)
EXTENDS Integers, Sequences

CONSTANTS
  Coroutines,
  Nobody,
  MaxCalls,    \* bound: how often a coroutine calls Lock or TryLock
  Executors    \* what the executor of a coroutine may do with it: "posts" it
               \* to another thread, runs it "inline", or is "closed"

ASSUME AsyncLockAssumption ==
  /\ Nobody \notin Coroutines
  /\ MaxCalls \in Nat
  /\ Executors \subseteq {"posts", "inline", "closed"}

VARIABLES
  locked,    \* m_bLocked
  awaiters,  \* m_lstAwaiters
  pc,        \* where each coroutine is
  waited,    \* ~resume_synchronously of LockImpl
  owns,      \* m_bOwns of the CScopedAsyncLock of each coroutine
  inUnLock,  \* the coroutine whose UnLock has resumed this one and that goes
             \* on when this one suspends
  calls      \* how many calls each coroutine has made

vars == <<locked, awaiters, pc, waited, owns, inUnLock, calls>>

PCs == {"outside", "try", "suspended", "resumeOn", "posted", "interrupted",
        "inside", "unlocking", "throwing"}

TypeOK ==
  /\ locked \in BOOLEAN
  /\ awaiters \in Seq(Coroutines)
  /\ pc \in [Coroutines -> PCs]
  /\ waited \in [Coroutines -> BOOLEAN]
  /\ owns \in [Coroutines -> BOOLEAN]
  /\ \A c \in Coroutines : owns[c] <=> pc[c] \in {"inside", "unlocking"}
  /\ inUnLock \in [Coroutines -> Coroutines \cup {Nobody}]
  /\ calls \in [Coroutines -> 0 .. MaxCalls]

Init ==
  /\ locked = FALSE
  /\ awaiters = <<>>
  /\ pc = [c \in Coroutines |-> "outside"]
  /\ waited = [c \in Coroutines |-> FALSE]
  /\ owns = [c \in Coroutines |-> FALSE]
  /\ inUnLock = [c \in Coroutines |-> Nobody]
  /\ calls = [c \in Coroutines |-> 0]

Goes(c, to) == pc' = [pc EXCEPT ![c] = to]

(* A coroutine that is resumed inside an UnLock runs before the caller of  *)
(* that UnLock does.                                                       *)
Runs(c) == \A d \in Coroutines : inUnLock[d] # c

-----------------------------------------------------------------------------
(* LockImpl.                                                               *)

Lock(c) ==
  /\ pc[c] = "outside" /\ calls[c] < MaxCalls /\ Runs(c)
  /\ calls' = [calls EXCEPT ![c] = @ + 1]
  /\ waited' = [waited EXCEPT ![c] = FALSE]
  /\ Goes(c, "try")
  /\ UNCHANGED <<locked, awaiters, owns, inUnLock>>

(* A faulty variant: a coroutine that is resumed takes it that the lock    *)
(* was handed to it.                                                       *)
TryToLock_TrustsResume(c) ==
  /\ pc[c] = "try" /\ Runs(c)
  /\ \/ /\ ~locked \/ waited[c]
        /\ locked' = TRUE
        /\ Goes(c, IF waited[c] THEN "resumeOn" ELSE "inside")
        /\ owns' = [owns EXCEPT ![c] = ~waited[c]]
        /\ UNCHANGED <<awaiters, waited, inUnLock>>
     \/ /\ locked /\ ~waited[c]
        /\ awaiters' = Append(awaiters, c)
        /\ Goes(c, "suspended")
        /\ waited' = [waited EXCEPT ![c] = TRUE]
        /\ inUnLock' = [inUnLock EXCEPT ![c] = Nobody]
        /\ UNCHANGED <<locked, owns>>
  /\ UNCHANGED calls

(* One round of the loop: take the lock, or put the coroutine at the end   *)
(* of the list and suspend, which the mutex covers both.                   *)
TryToLock(c) ==
  /\ pc[c] = "try" /\ Runs(c)
  /\ \/ /\ ~locked
        /\ locked' = TRUE
        /\ Goes(c, IF waited[c] THEN "resumeOn" ELSE "inside")
        /\ owns' = [owns EXCEPT ![c] = ~waited[c]]
        /\ UNCHANGED <<awaiters, waited, inUnLock>>
     \/ /\ locked
        /\ awaiters' = Append(awaiters, c)
        /\ Goes(c, "suspended")
        /\ waited' = [waited EXCEPT ![c] = TRUE]
        /\ inUnLock' = [inUnLock EXCEPT ![c] = Nobody]
        /\ UNCHANGED <<locked, owns>>
  /\ UNCHANGED calls

(* co_await ResumeOn(ptrResumeExecutor), the lock being held.  An executor *)
(* that is closed refuses the task, whose destructor resumes the coroutine *)
(* with an exception.                                                      *)
ResumeOn(c) ==
  /\ pc[c] = "resumeOn"
  /\ \/ /\ "posts" \in Executors
        /\ Goes(c, "posted")
        /\ inUnLock' = [inUnLock EXCEPT ![c] = Nobody]
        /\ UNCHANGED owns
     \/ /\ "inline" \in Executors
        /\ Goes(c, "inside")
        /\ owns' = [owns EXCEPT ![c] = TRUE]
        /\ UNCHANGED inUnLock
     \/ /\ "closed" \in Executors
        /\ Goes(c, "interrupted")
        /\ UNCHANGED <<owns, inUnLock>>
  /\ UNCHANGED <<locked, awaiters, waited, calls>>

(* The task is run by the executor, or destroyed when that is shut down.   *)
Resumed(c) ==
  /\ pc[c] = "posted"
  /\ \/ /\ Goes(c, "inside")
        /\ owns' = [owns EXCEPT ![c] = TRUE]
     \/ /\ "closed" \in Executors
        /\ Goes(c, "interrupted")
        /\ UNCHANGED owns
  /\ UNCHANGED <<locked, awaiters, waited, inUnLock, calls>>

(* PopFront and, out of the mutex, retry() by coroutine c, which goes to   *)
(* pc next.                                                                *)
RetryFirst(c, next) ==
  \/ /\ awaiters = <<>>
     /\ Goes(c, next)
     /\ UNCHANGED <<awaiters, inUnLock>>
  \/ /\ awaiters # <<>>
     /\ awaiters' = Tail(awaiters)
     /\ pc' = [pc EXCEPT ![c] = next, ![Head(awaiters)] = "try"]
     /\ inUnLock' = [inUnLock EXCEPT ![Head(awaiters)] = c]

(* A faulty variant: the lock is freed and nobody is told.                 *)
GiveUp_Silently(c) ==
  /\ pc[c] = "interrupted"
  /\ locked' = FALSE
  /\ Goes(c, "throwing")
  /\ UNCHANGED <<awaiters, waited, owns, inUnLock, calls>>

(* The handler in LockImpl: the lock was won, but its executor is gone.    *)
GiveUp(c) ==
  /\ pc[c] = "interrupted"
  /\ locked' = FALSE
  /\ RetryFirst(c, "throwing")
  /\ UNCHANGED <<waited, owns, calls>>

(* TryLock.                                                                *)
TryLock(c) ==
  /\ pc[c] = "outside" /\ calls[c] < MaxCalls /\ Runs(c)
  /\ calls' = [calls EXCEPT ![c] = @ + 1]
  /\ locked' = TRUE
  /\ IF locked
       THEN UNCHANGED <<pc, owns>>
       ELSE Goes(c, "inside") /\ owns' = [owns EXCEPT ![c] = TRUE]
  /\ UNCHANGED <<awaiters, waited, inUnLock>>

(* A faulty variant: the first awaiter is resumed but stays in the list.   *)
UnLock_Peeks(c) ==
  /\ pc[c] = "inside" /\ Runs(c)
  /\ locked' = FALSE
  /\ pc' = [d \in Coroutines |-> IF d = c THEN "unlocking"
                                 ELSE IF awaiters # <<>> /\ d = Head(awaiters) THEN "try"
                                 ELSE pc[d]]
  /\ UNCHANGED <<awaiters, waited, owns, inUnLock, calls>>

(* CScopedAsyncLock::UnLock or its destructor, as far as CAsyncLock::UnLock*)
(* goes before it resumes the first awaiter.                               *)
UnLock(c) ==
  /\ pc[c] = "inside" /\ Runs(c)
  /\ locked' = FALSE
  /\ RetryFirst(c, "unlocking")
  /\ UNCHANGED <<waited, owns, calls>>

(* The resumed coroutine has suspended: UnLock or the handler goes on.     *)
Return(c) ==
  /\ pc[c] \in {"unlocking", "throwing"} /\ Runs(c)
  /\ owns' = [owns EXCEPT ![c] = FALSE]
  /\ Goes(c, "outside")
  /\ UNCHANGED <<locked, awaiters, waited, inUnLock, calls>>

(* A coroutine that was resumed inside an UnLock ends, or suspends for     *)
(* something else, in the critical section or out of it.                   *)
Suspend(c) ==
  /\ pc[c] \in {"inside", "outside"} /\ Runs(c)
  /\ inUnLock[c] # Nobody
  /\ inUnLock' = [inUnLock EXCEPT ![c] = Nobody]
  /\ UNCHANGED <<locked, awaiters, pc, waited, owns, calls>>

Step(c) ==
  \/ TryToLock(c) \/ ResumeOn(c) \/ Resumed(c) \/ GiveUp(c) \/ UnLock(c) \/ Return(c)

-----------------------------------------------------------------------------
Quiet ==
  /\ \A c \in Coroutines : pc[c] = "outside" /\ calls[c] = MaxCalls /\ inUnLock[c] = Nobody
  /\ UNCHANGED vars

Next ==
  \/ \E c \in Coroutines : Lock(c) \/ TryLock(c) \/ Step(c) \/ Suspend(c)
  \/ Quiet

(* A coroutine in a call goes on, executors run what they accept, and      *)
(* every critical section and every coroutine ends.                        *)
Fairness ==
  \A c \in Coroutines : WF_vars(Step(c)) /\ WF_vars(Suspend(c))

Spec == Init /\ [][Next]_vars /\ Fairness

-----------------------------------------------------------------------------
(* Properties.                                                             *)

(* From the moment a coroutine wins the lock in LockImpl until it frees    *)
(* it, on whatever thread it continues.                                    *)
Holds(c) == pc[c] \in {"resumeOn", "posted", "interrupted", "inside"}

(* The counter of the debug build (m_nThreadCountInCriticalSection is 0    *)
(* before and 1 after locking): two coroutines never hold the lock, and    *)
(* m_bLocked says whether one does, also while the winner is on its way to *)
(* its executor and when it fails to get there.                            *)
MutualExclusion ==
  /\ \A c, d \in Coroutines : Holds(c) /\ Holds(d) => c = d
  /\ locked <=> \E c \in Coroutines : Holds(c)

(* The intrusive list holds the suspended coroutines, each once: none is   *)
(* resumed twice, none is forgotten.                                       *)
ListHoldsSuspended ==
  /\ \A c \in Coroutines :
       pc[c] = "suspended" <=> \E k \in DOMAIN awaiters : awaiters[k] = c
  /\ \A j, k \in DOMAIN awaiters : awaiters[j] = awaiters[k] => j = k

(* While coroutines wait for a lock that is free, one of those that UnLock *)
(* has woken, or a newcomer, is about to try: a lock that was snatched     *)
(* away from the woken coroutine still gets to the others.                 *)
NoStrandedAwaiter ==
  ~locked /\ awaiters # <<>> => \E c \in Coroutines : pc[c] = "try"
=============================================================================
