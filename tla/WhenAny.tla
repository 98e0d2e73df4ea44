------------------------------- MODULE WhenAny -------------------------------
(***************************************************************************)
(* co_await WhenAny(executor, results...): one coroutine registers with    *)
(* several results, in order, and is resumed by the first that finishes.   *)
(* The results finish on threads of their own.  Modelled are               *)
(* CYWhenAnyAwaitable, CYWhenAnyContext, CYResultStateBase::WhenAny and    *)
(* TryRewindConsumer, and the producers' side of all of them.              *)
(*                                                                         *)
(* A step is one operation on shared memory.  The coroutine calls WhenAny  *)
(* again on the results that are left, so a producer may still be busy     *)
(* with the context of an earlier call; in the end, or at once, it may     *)
(* await them all with WhenALL, which awaits one after the other.          *)
(***************************************************************************)
EXTENDS Integers, FiniteSetsExt

CONSTANTS
  N,        \* the results are 1 .. N
  Rounds    \* how often the coroutine calls WhenAny

ASSUME WhenAnyAssumption == N \in Nat \ {0} /\ Rounds \in Nat \ {0}

Results == 1 .. N

(* Values of CYWhenAnyContext::m_status besides the results.               *)
Processing == -1
DoneProcessing == 0

(* The context that await() sets: the coroutine's handle.                  *)
Handle == -1

VARIABLES
  state,    \* m_eResultState of each result
  context,  \* the context in m_objConsumer of each result, 0 for none
  ppc,      \* where the producer of each result is
  held,     \* the context that the producer of each result has copied
  status,   \* m_status of each context
  apc,      \* where the awaiting coroutine is
  awaited,  \* the results passed to the current call
  i,        \* its loop variable
  round,    \* the number of the current call, and of its context
  chosen    \* the index that the last call returned, 0 before

vars == <<state, context, ppc, held, status, apc, awaited, i, round, chosen>>
resultVars == <<state, context>>
callVars == <<awaited, round, chosen>>

Resuming == {"resume", "load", "casDone", "casProcessing"}
Gathering == {"awaitLoad", "awaitSet", "awaitCas", "awaiting"}  \* in WhenALL
ProducerPCs == {"producing", "done"} \cup Resuming
AwaiterPCs == {"check", "load", "set", "cas", "inline", "finish", "suspended",
               "rewindLoad", "rewindCas", "clear", "returned", "gathered"} \cup Gathering

TypeOK ==
  /\ state \in [Results -> {"IDLE", "CONSUMER_SET", "PRODUCER_DONE"}]
  /\ context \in [Results -> Handle .. round]
  /\ ppc \in [Results -> ProducerPCs]
  /\ held \in [Results -> 0 .. round]
  /\ status \in [1 .. Rounds -> Results \cup {Processing, DoneProcessing}]
  /\ apc \in AwaiterPCs
  /\ awaited \in SUBSET Results /\ awaited # {}
  /\ i \in Results
  /\ round \in 1 .. Rounds
  /\ chosen \in 0 .. N

(* await_suspend has just made the context of the first call; or that call *)
(* is WhenALL.                                                             *)
Init ==
  /\ state = [r \in Results |-> "IDLE"]
  /\ context = [r \in Results |-> 0]
  /\ ppc = [r \in Results |-> "producing"]
  /\ held = [r \in Results |-> 0]
  /\ status = [k \in 1 .. Rounds |-> Processing]
  /\ apc \in {"check", "awaitLoad"}
  /\ awaited = Results
  /\ i = 1
  /\ round = 1
  /\ chosen = 0

First == Min(awaited)

(* The loops of await_suspend and await_resume: the next result, or what   *)
(* follows the loop.                                                       *)
Advance(again, after) ==
  LET later == {r \in awaited : r > i}
  IN  IF later = {} THEN apc' = after /\ i' = i
      ELSE apc' = again /\ i' = Min(later)

(* The coroutine runs await_resume.                                        *)
ResumeCoroutine == apc' = "rewindLoad" /\ i' = First

-----------------------------------------------------------------------------
(* The producer of result r.                                               *)

(* CompleteProducer.                                                       *)
CompleteProducer(r) ==
  /\ ppc[r] = "producing"
  /\ state' = [state EXCEPT ![r] = "PRODUCER_DONE"]
  /\ ppc' = [ppc EXCEPT ![r] = IF state[r] = "CONSUMER_SET" THEN "resume" ELSE "done"]
  /\ UNCHANGED <<context, held, status, apc, i, callVars>>

(* ResumeConsumer copies the shared pointer to the context, or resumes the *)
(* coroutine, which goes on to the next result of WhenALL on this thread.  *)
ResumeConsumer(r) ==
  /\ ppc[r] = "resume"
  /\ \/ /\ context[r] # Handle
        /\ held' = [held EXCEPT ![r] = context[r]]
        /\ ppc' = [ppc EXCEPT ![r] = IF context[r] = 0 THEN "done" ELSE "load"]
        /\ UNCHANGED <<apc, i>>
     \/ /\ context[r] = Handle
        /\ ppc' = [ppc EXCEPT ![r] = "done"]
        /\ Advance("awaitLoad", "gathered")
        /\ UNCHANGED held
  /\ UNCHANGED <<resultVars, status, callVars>>

(* TryResume: the load at the head of the loop.                            *)
TryResumeLoad(r) ==
  /\ ppc[r] = "load"
  /\ ppc' = [ppc EXCEPT ![r] = IF status[held[r]] = DoneProcessing THEN "casDone"
                               ELSE IF status[held[r]] = Processing THEN "casProcessing"
                               ELSE "done"]
  /\ UNCHANGED <<resultVars, held, status, apc, i, callVars>>

(* A faulty variant: a store in place of the compare_exchange.             *)
TryResumeDone_Stores(r) ==
  /\ ppc[r] = "casDone"
  /\ ppc' = [ppc EXCEPT ![r] = "done"]
  /\ status' = [status EXCEPT ![held[r]] = r]
  /\ ResumeCoroutine
  /\ UNCHANGED <<resultVars, held, callVars>>

(* TryResume: DoneProcessing -> this result, and the coroutine resumes on  *)
(* this thread.                                                            *)
TryResumeDone(r) ==
  /\ ppc[r] = "casDone"
  /\ ppc' = [ppc EXCEPT ![r] = "done"]
  /\ \/ /\ status[held[r]] = DoneProcessing
        /\ status' = [status EXCEPT ![held[r]] = r]
        /\ ResumeCoroutine
     \/ /\ status[held[r]] # DoneProcessing
        /\ UNCHANGED <<status, apc, i>>
  /\ UNCHANGED <<resultVars, held, callVars>>

(* A faulty variant: it does not try again when the compare_exchange from  *)
(* Processing fails.                                                       *)
TryResumeProcessing_GivesUp(r) ==
  /\ ppc[r] = "casProcessing"
  /\ ppc' = [ppc EXCEPT ![r] = "done"]
  /\ status' = [status EXCEPT ![held[r]] = IF @ = Processing THEN r ELSE @]
  /\ UNCHANGED <<resultVars, held, apc, i, callVars>>

(* TryResume: Processing -> this result; the coroutine is still            *)
(* registering and will find it.                                           *)
TryResumeProcessing(r) ==
  /\ ppc[r] = "casProcessing"
  /\ \/ /\ status[held[r]] = Processing
        /\ status' = [status EXCEPT ![held[r]] = r]
        /\ ppc' = [ppc EXCEPT ![r] = "done"]
     \/ /\ status[held[r]] # Processing
        /\ ppc' = [ppc EXCEPT ![r] = "load"]
        /\ UNCHANGED status
  /\ UNCHANGED <<resultVars, held, apc, i, callVars>>

ProducerStep(r) ==
  \/ CompleteProducer(r) \/ ResumeConsumer(r) \/ TryResumeLoad(r)
  \/ TryResumeDone(r) \/ TryResumeProcessing(r)

-----------------------------------------------------------------------------
(* await_suspend.                                                          *)

(* AnyResultFinished().                                                    *)
AnyResultFinished ==
  /\ apc = "check"
  /\ \/ /\ status[round] # Processing
        /\ ResumeCoroutine
     \/ /\ status[round] = Processing
        /\ apc' = "load"
        /\ UNCHANGED i
  /\ UNCHANGED <<resultVars, ppc, held, status, callVars>>

(* CYResultStateBase::WhenAny.  It returns the state it has loaded here,   *)
(* also when the compare_exchange in Register then fails.                  *)
WhenAnyLoad ==
  /\ apc = "load"
  /\ apc' = IF state[i] = "PRODUCER_DONE" THEN "inline" ELSE "set"
  /\ UNCHANGED <<resultVars, ppc, held, status, i, callVars>>

SetWhenAnyContext ==
  /\ apc = "set"
  /\ context' = [context EXCEPT ![i] = round]
  /\ apc' = "cas"
  /\ UNCHANGED <<state, ppc, held, status, i, callVars>>

(* A faulty variant: the loop ends one result early.                       *)
Register_SkipsLast ==
  /\ apc = "cas"
  /\ state' = [state EXCEPT ![i] = IF @ = "IDLE" /\ i < N THEN "CONSUMER_SET" ELSE @]
  /\ Advance("check", "finish")
  /\ UNCHANGED <<context, ppc, held, status, callVars>>

Register ==
  /\ apc = "cas"
  /\ state' = [state EXCEPT ![i] = IF @ = "IDLE" THEN "CONSUMER_SET" ELSE @]
  /\ Advance("check", "finish")
  /\ UNCHANGED <<context, ppc, held, status, callVars>>

ResumeInline ==
  /\ apc = "inline"
  /\ status' = [status EXCEPT ![round] = IF @ = Processing THEN i ELSE @]
  /\ ResumeCoroutine
  /\ UNCHANGED <<resultVars, ppc, held, callVars>>

FinishProcessing ==
  /\ apc = "finish"
  /\ \/ /\ status[round] = Processing
        /\ status' = [status EXCEPT ![round] = DoneProcessing]
        /\ apc' = "suspended"
        /\ UNCHANGED i
     \/ /\ status[round] # Processing
        /\ ResumeCoroutine
        /\ UNCHANGED status
  /\ UNCHANGED <<resultVars, ppc, held, callVars>>

-----------------------------------------------------------------------------
(* await_resume: take every registration back and look for the result that *)
(* finished.                                                               *)

ReturnOrAdvance ==
  /\ Advance("rewindLoad", "returned")
  /\ chosen' = IF apc' = "returned" THEN status[round] ELSE chosen

RewindLoad ==
  /\ apc = "rewindLoad"
  /\ \/ /\ state[i] = "CONSUMER_SET"
        /\ apc' = "rewindCas"
        /\ UNCHANGED <<i, chosen>>
     \/ /\ state[i] # "CONSUMER_SET"
        /\ ReturnOrAdvance
  /\ UNCHANGED <<resultVars, ppc, held, status, awaited, round>>

(* A faulty variant: a store in place of the compare_exchange.             *)
RewindCas_Stores ==
  /\ apc = "rewindCas"
  /\ state' = [state EXCEPT ![i] = "IDLE"]
  /\ apc' = "clear"
  /\ UNCHANGED <<context, ppc, held, status, i, callVars>>

RewindCas ==
  /\ apc = "rewindCas"
  /\ \/ /\ state[i] = "CONSUMER_SET"
        /\ state' = [state EXCEPT ![i] = "IDLE"]
        /\ apc' = "clear"
        /\ UNCHANGED <<i, chosen>>
     \/ /\ state[i] # "CONSUMER_SET"
        /\ ReturnOrAdvance
        /\ UNCHANGED state
  /\ UNCHANGED <<context, ppc, held, status, awaited, round>>

(* A faulty variant: the context of the previous call stays.               *)
ClearContext_Skips ==
  /\ apc = "clear"
  /\ ReturnOrAdvance
  /\ UNCHANGED <<resultVars, ppc, held, status, awaited, round>>

ClearContext ==
  /\ apc = "clear"
  /\ context' = [context EXCEPT ![i] = 0]
  /\ ReturnOrAdvance
  /\ UNCHANGED <<state, ppc, held, status, awaited, round>>

(* The caller consumes the finished result and awaits the others.          *)
AwaitTheRest ==
  /\ apc = "returned"
  /\ round < Rounds
  /\ awaited \ {chosen} # {}
  /\ awaited' = awaited \ {chosen}
  /\ round' = round + 1
  /\ apc' = "check"
  /\ i' = Min(awaited')
  /\ UNCHANGED <<resultVars, ppc, held, status, chosen>>

-----------------------------------------------------------------------------
(* WhenALL: CYResultStateBase::await on one result after the other.        *)

(* The caller consumes the finished result and awaits all the others; an   *)
(* empty WhenALL returns at once.                                          *)
WhenALL ==
  /\ apc = "returned"
  /\ awaited \ {chosen} # {}
  /\ awaited' = awaited \ {chosen}
  /\ apc' = "awaitLoad"
  /\ i' = Min(awaited')
  /\ UNCHANGED <<resultVars, ppc, held, status, round, chosen>>

AwaitLoad ==
  /\ apc = "awaitLoad"
  /\ \/ /\ state[i] = "PRODUCER_DONE"
        /\ Advance("awaitLoad", "gathered")
     \/ /\ state[i] # "PRODUCER_DONE"
        /\ apc' = "awaitSet"
        /\ UNCHANGED i
  /\ UNCHANGED <<resultVars, ppc, held, status, callVars>>

SetAwaitHandle ==
  /\ apc = "awaitSet"
  /\ context' = [context EXCEPT ![i] = Handle]
  /\ apc' = "awaitCas"
  /\ UNCHANGED <<state, ppc, held, status, i, callVars>>

(* The coroutine suspends, or goes on if the result has finished.          *)
Await ==
  /\ apc = "awaitCas"
  /\ \/ /\ state[i] = "IDLE"
        /\ state' = [state EXCEPT ![i] = "CONSUMER_SET"]
        /\ apc' = "awaiting"
        /\ UNCHANGED i
     \/ /\ state[i] # "IDLE"
        /\ Advance("awaitLoad", "gathered")
        /\ UNCHANGED state
  /\ UNCHANGED <<context, ppc, held, status, callVars>>

-----------------------------------------------------------------------------
(* The steps of the running coroutine.                                     *)
AwaiterStep ==
  \/ AnyResultFinished \/ WhenAnyLoad \/ SetWhenAnyContext \/ Register
  \/ ResumeInline \/ FinishProcessing \/ RewindLoad \/ RewindCas \/ ClearContext
  \/ AwaitLoad \/ SetAwaitHandle \/ Await

(* Nothing is left to do: every producer is done and the coroutine has     *)
(* returned, or hangs.                                                     *)
Quiet ==
  /\ \A r \in Results : ppc[r] = "done"
  /\ apc \in {"returned", "suspended", "gathered"}
  /\ UNCHANGED vars

Next ==
  \/ \E r \in Results : ProducerStep(r)
  \/ AwaiterStep \/ AwaitTheRest \/ WhenALL \/ Quiet

(* Every result is eventually produced, and a running coroutine goes on.   *)
Fairness ==
  /\ \A r \in Results : WF_vars(ProducerStep(r))
  /\ WF_vars(AwaiterStep)

Spec == Init /\ [][Next]_vars /\ Fairness

-----------------------------------------------------------------------------
(* Properties.                                                             *)

(* The handle of the coroutine is called only while it is suspended in the *)
(* call that the context belongs to: however many results finish at the    *)
(* same time, and whatever is left over from an earlier WhenAny, it is     *)
(* resumed once, and WhenALL by the result that it has come to.            *)
ResumesOnlySuspended ==
  [][\A r \in Results :
       /\ ppc[r] = "casDone" /\ ppc'[r] = "done" /\ status'[held[r]] = r
            => apc = "suspended" /\ held[r] = round
       /\ ppc[r] = "resume" /\ context[r] = Handle => apc = "awaiting" /\ i = r]_vars

(* The assert at the end of await_resume: the result that is returned is   *)
(* one of those awaited, and it really is finished.  The others can be     *)
(* awaited, waited for or dropped as if nothing had happened.  WhenALL     *)
(* returns when all are finished.                                          *)
ReturnsFinished ==
  /\ apc = "returned" =>
       /\ chosen \in awaited /\ state[chosen] = "PRODUCER_DONE"
       /\ \A r \in awaited :
            \/ state[r] = "IDLE" /\ context[r] = 0
            \/ state[r] = "PRODUCER_DONE"
  /\ apc = "gathered" => \A r \in awaited : state[r] = "PRODUCER_DONE"

(* m_objConsumer of a result is not written while its producer is about to *)
(* read it; and the asserts in CYWhenAnyContext, in CYConsumerContext and  *)
(* in CYResultStateBase: the context is never DoneProcessing while the     *)
(* coroutine still registers, it is set only where none is left, and a     *)
(* registration only fails because the producer is done.                   *)
NoContextRace ==
  /\ TypeOK
  /\ \A r \in Results :
       ppc[r] = "resume" => ~(apc \in {"set", "clear", "awaitSet"} /\ i = r)
  /\ apc \in {"check", "load", "set", "cas", "inline", "finish"}
       => status[round] # DoneProcessing
  /\ apc \in {"set", "awaitSet"} => context[i] = 0
  /\ apc \in {"cas", "awaitCas"} => state[i] \in {"IDLE", "PRODUCER_DONE"}
  /\ apc = "rewindCas" => state[i] \in {"CONSUMER_SET", "PRODUCER_DONE"}

(* While the coroutine is suspended, every result it awaits that is not    *)
(* finished will find the coroutine's context; in WhenALL, the one that it *)
(* has come to.                                                            *)
SuspendedIsRegistered ==
  /\ apc = "suspended" =>
       \A r \in awaited :
         \/ state[r] = "CONSUMER_SET" /\ context[r] = round
         \/ state[r] = "PRODUCER_DONE"
  /\ apc = "awaiting" =>
       /\ context[i] = Handle
       /\ state[i] = "CONSUMER_SET" \/ ppc[i] = "resume"

(* A coroutine does not stay suspended if one of its results has its       *)
(* registration, or has a producer that found the registration; and        *)
(* WhenALL returns.                                                        *)
RegisteredIsResumed ==
  /\ (apc = "suspended" /\ \E r \in awaited : state[r] = "CONSUMER_SET" \/ ppc[r] \in Resuming)
       ~> apc # "suspended"
  /\ apc \in Gathering ~> apc = "gathered"

(* FinishProcessing: the coroutine suspends only if no result finished     *)
(* before the compare_exchange, or one that did is still going to resume   *)
(* it.                                                                     *)
SuspendsOnlyIfNoneFinished ==
  apc = "suspended" /\ (\E r \in awaited : state[r] = "PRODUCER_DONE")
    => \E r \in awaited : ppc[r] \in Resuming
=============================================================================
