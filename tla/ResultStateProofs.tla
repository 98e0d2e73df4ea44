-------------------------- MODULE ResultStateProofs --------------------------
(***************************************************************************)
(* Proofs about ResultState for every set of outcomes.  IInv is inductive; *)
(* the safety properties and the step simulation of ResultContract follow  *)
(* from it.                                                                *)
(***************************************************************************)
EXTENDS ResultState, TLAPS

(* The invariant holds when the CYResult has just been handed out.         *)
LEMMA InitIInv == Init => IInv
<1> SUFFICES ASSUME Init PROVE IInv
  OBVIOUS
<1> USE OutcomesAssumption DEF Init, Published, ThreadWaits
<1>1. TypeOK
  <2>1. signalled \in BOOLEAN
    OBVIOUS
  <2> QED
    BY <2>1 DEF TypeOK, States, Contexts, Calls, Waits, Awaits, ProducerPCs, ConsumerPCs
<1>2. StateBeforePublication /\ StateAfterPublication
  BY DEF StateBeforePublication, StateAfterPublication
<1>3. ProducerTail /\ ConsumerRegistration /\ ReturnsWhatWasBuilt
  BY DEF ProducerTail, ConsumerRegistration, ReturnsWhatWasBuilt, Waits, Awaits
<1> QED
  BY <1>1, <1>2, <1>3 DEF IInv

(* Every step of the producer preserves the invariant.                     *)
LEMMA ProducerIInv == IInv /\ ProducerNext => IInv'
<1> SUFFICES ASSUME IInv, ProducerNext PROVE IInv'
  OBVIOUS
<1> USE OutcomesAssumption
        DEF IInv, TypeOK, States, Contexts, Calls, Waits, Awaits, ProducerPCs,
            ConsumerPCs, StateBeforePublication, StateAfterPublication, ProducerTail,
            ConsumerRegistration, ReturnsWhatWasBuilt, Published, ThreadWaits
<1>1. CASE BuildResult
  BY <1>1 DEF BuildResult
<1>2. CASE CompleteProducer
  BY <1>2 DEF CompleteProducer
<1>3. CASE NotifyOne
  BY <1>3 DEF NotifyOne
<1>4. CASE ProducerDeletes
  BY <1>4 DEF ProducerDeletes
<1>5. CASE ResumeConsumer
  BY <1>5 DEF ResumeConsumer, FinishCall
<1>6. CASE Release
  BY <1>6 DEF Release
<1> QED
  BY <1>1, <1>2, <1>3, <1>4, <1>5, <1>6 DEF ProducerNext

(* Every step of the consumer preserves the invariant.                     *)
LEMMA ConsumerIInv == IInv /\ ConsumerNext => IInv'
<1> SUFFICES ASSUME IInv, ConsumerNext PROVE IInv'
  OBVIOUS
<1> USE OutcomesAssumption
        DEF IInv, TypeOK, States, Contexts, Calls, Waits, Awaits, ProducerPCs,
            ConsumerPCs, StateBeforePublication, StateAfterPublication, ProducerTail,
            ConsumerRegistration, ReturnsWhatWasBuilt, Published, ThreadWaits
<1>1. CASE Status
  BY <1>1 DEF Status
<1>2. CASE StartCall
  BY <1>2 DEF StartCall
<1>3. CASE Load
  BY <1>3 DEF Load, FinishCall
<1>4. CASE SetContext
  BY <1>4 DEF SetContext
<1>5. CASE RegisterConsumer
  BY <1>5 DEF RegisterConsumer, FinishCall
<1>6. CASE WaitLoop
  BY <1>6 DEF WaitLoop, FinishCall
<1>7. CASE WaitImpl
  BY <1>7 DEF WaitImpl
<1>8. CASE CvWake
  BY <1>8 DEF CvWake
<1>9. CASE Acquire
  BY <1>9 DEF Acquire, FinishCall
<1>10. CASE TimeOut
  BY <1>10 DEF TimeOut
<1>11. CASE RewindWaitFor
  BY <1>11 DEF RewindWaitFor, FinishCall
<1>12. CASE ClearContext
  BY <1>12 DEF ClearContext
<1>13. CASE TakeResult
  BY <1>13 DEF TakeResult
<1>14. CASE DropLoad
  BY <1>14 DEF DropLoad
<1>15. CASE DropExchange
  BY <1>15 DEF DropExchange
<1> QED
  BY <1>1, <1>2, <1>3, <1>4, <1>5, <1>6, <1>7, <1>8, <1>9, <1>10, <1>11, <1>12,
     <1>13, <1>14, <1>15 DEF ConsumerNext, ConsumerStep

(* The strengthened invariant holds throughout, whatever the outcomes are. *)
THEOREM Invariance == Spec => []IInv
<1>1. IInv /\ [Next]_vars => IInv'
  <2> SUFFICES ASSUME IInv, [Next]_vars PROVE IInv'
    OBVIOUS
  <2>1. CASE Terminated \/ UNCHANGED vars
    BY <2>1 DEF Terminated, vars, IInv, TypeOK, StateBeforePublication,
            StateAfterPublication, ProducerTail, ConsumerRegistration,
            ReturnsWhatWasBuilt, Published
  <2> QED
    BY <2>1, ProducerIInv, ConsumerIInv DEF Next
<1> QED
  BY <1>1, InitIInv, PTL DEF Spec

-----------------------------------------------------------------------------
(* The safety properties of the runs, for every set of outcomes.           *)

(* Every member and every local variable keeps the values its type allows. *)
THEOREM TypeCorrect == Spec => []TypeOK
<1>1. IInv => TypeOK
  BY DEF IInv
<1> QED
  BY <1>1, Invariance, PTL

(* DeleteSelf runs once and only once: no order of CompleteProducer and    *)
(* CompleteConsumer frees the state twice or leaks it.                     *)
THEOREM DeletedOnce == Spec => []DeletedExactlyOnce
<1>1. IInv => DeletedExactlyOnce
  BY DEF IInv, StateBeforePublication, StateAfterPublication, DeletedExactlyOnce,
         Published
<1> QED
  BY <1>1, Invariance, PTL

(* A coroutine that suspended on a published result is about to be         *)
(* resumed, and nothing but a suspended coroutine ever is.                 *)
THEOREM ResumeSafety == Spec => []ResumedExactlyOnce
<1>1. IInv => NoLostResume
  BY DEF IInv, TypeOK, ProducerPCs, ProducerTail, NoLostResume, Published
<1>2. IInv => ResumesOnlySuspended
  BY DEF IInv, StateAfterPublication, ProducerTail, ResumesOnlySuspended, Published
<1> QED
  BY <1>1, <1>2, Invariance, PTL DEF ResumedExactlyOnce

(* The consumer context, which has no lock, is never written while the     *)
(* producer is about to read it, and the asserts of the protocol hold.     *)
THEOREM ContextSafety == Spec => []NoContextRace
<1>1. IInv => NoContextRace
  BY DEF IInv, TypeOK, StateBeforePublication, StateAfterPublication, ProducerTail,
         ConsumerRegistration, NoContextRace, Published, ThreadWaits
<1> QED
  BY <1>1, Invariance, PTL

(* Nothing is returned but the outcome that was built, after publication.  *)
THEOREM ResultSafety == Spec => []ReturnsWhatWasBuilt
<1>1. IInv => ReturnsWhatWasBuilt
  BY DEF IInv
<1> QED
  BY <1>1, Invariance, PTL

-----------------------------------------------------------------------------
(* The protocol implements the contract, as far as safety goes.            *)

(* A step of the producer delivers, unblocks, frees, or changes nothing    *)
(* that the contract speaks about.                                         *)
LEMMA ProducerSimulates == IInv /\ ProducerNext => [Contract!CNext]_(Contract!cvars)
<1> SUFFICES ASSUME IInv, ProducerNext PROVE [Contract!CNext]_(Contract!cvars)
  OBVIOUS
<1> USE OutcomesAssumption
        DEF Contract!cvars, IInv, TypeOK, StateBeforePublication, StateAfterPublication, ProducerTail,
            ConsumerRegistration, ReturnsWhatWasBuilt, Published, ThreadWaits
<1>1. CASE BuildResult
  BY <1>1 DEF BuildResult
<1>2. CASE CompleteProducer
  <2>1. Contract!Deliver
    BY <1>2 DEF CompleteProducer, Contract!Deliver
  <2> QED
    BY <2>1 DEF Contract!CNext
<1>3. CASE NotifyOne
  BY <1>3 DEF NotifyOne
<1>4. CASE ProducerDeletes
  <2>1. Contract!Free
    BY <1>4 DEF ProducerDeletes, Contract!Free
  <2> QED
    BY <2>1 DEF Contract!CNext
<1>5. CASE ResumeConsumer
  <2>1. CASE context = "AWAIT"
    <3>1. Contract!Unblock
      BY <1>5, <2>1 DEF ResumeConsumer, FinishCall, Contract!Unblock
    <3> QED
      BY <3>1 DEF Contract!CNext
  <2>2. CASE context # "AWAIT"
    BY <1>5, <2>2 DEF ResumeConsumer
  <2> QED
    BY <2>1, <2>2
<1>6. CASE Release
  BY <1>6 DEF Release
<1> QED
  BY <1>1, <1>2, <1>3, <1>4, <1>5, <1>6 DEF ProducerNext

(* A step of the consumer blocks, unblocks, expires, takes, abandons, or   *)
(* changes nothing that the contract speaks about.                         *)
LEMMA ConsumerSimulates == IInv /\ ConsumerNext => [Contract!CNext]_(Contract!cvars)
<1> SUFFICES ASSUME IInv, ConsumerNext PROVE [Contract!CNext]_(Contract!cvars)
  OBVIOUS
<1> USE OutcomesAssumption
        DEF Contract!cvars, IInv, TypeOK, StateBeforePublication, StateAfterPublication,
            ProducerTail, ConsumerRegistration, ReturnsWhatWasBuilt, Published,
            ThreadWaits, Waits, Awaits, Calls
<1>1. CASE Status \/ StartCall \/ Load \/ SetContext \/ WaitImpl \/ CvWake \/ TimeOut
  BY <1>1 DEF Status, StartCall, Load, FinishCall, SetContext, WaitImpl, CvWake, TimeOut
<1>2. CASE RegisterConsumer
  <2>1. CASE state = "IDLE"
    <3>1. Contract!Block
      BY <1>2, <2>1 DEF RegisterConsumer, Contract!Block
    <3> QED
      BY <3>1 DEF Contract!CNext
  <2>2. CASE state # "IDLE"
    BY <1>2, <2>2 DEF RegisterConsumer, FinishCall
  <2> QED
    BY <2>1, <2>2
<1>3. CASE WaitLoop
  <2>1. CASE state = "PRODUCER_DONE"
    <3>1. Contract!Unblock
      BY <1>3, <2>1 DEF WaitLoop, FinishCall, Contract!Unblock
    <3> QED
      BY <3>1 DEF Contract!CNext
  <2>2. CASE state # "PRODUCER_DONE"
    BY <1>3, <2>2 DEF WaitLoop
  <2> QED
    BY <2>1, <2>2
<1>4. CASE Acquire \/ RewindWaitFor
  <2>1. Contract!Expire
    BY <1>4 DEF Acquire, RewindWaitFor, FinishCall, Contract!Expire
  <2> QED
    BY <2>1 DEF Contract!CNext
<1>5. CASE ClearContext
  BY <1>5 DEF ClearContext
<1>6. CASE TakeResult
  <2>1. Contract!Take
    BY <1>6 DEF TakeResult, Contract!Take
  <2> QED
    BY <2>1 DEF Contract!CNext
<1>7. CASE DropLoad
  <2>1. CASE state = "PRODUCER_DONE"
    <3>1. Contract!Abandon
      BY <1>7, <2>1 DEF DropLoad, Contract!Abandon
    <3> QED
      BY <3>1 DEF Contract!CNext
  <2>2. CASE state # "PRODUCER_DONE"
    BY <1>7, <2>2 DEF DropLoad
  <2> QED
    BY <2>1, <2>2
<1>8. CASE DropExchange
  <2>1. Contract!Abandon
    BY <1>8 DEF DropExchange, Contract!Abandon
  <2> QED
    BY <2>1 DEF Contract!CNext
<1> QED
  BY <1>1, <1>2, <1>3, <1>4, <1>5, <1>6, <1>7, <1>8 DEF ConsumerNext, ConsumerStep

(* The safety part of ImplementsContract: every behaviour of the protocol  *)
(* is, through the mapping, one that the contract allows.                  *)
THEOREM Implements ==
  Spec => Contract!CInit /\ [][Contract!CNext]_(Contract!cvars)
<1>1. Init => Contract!CInit
  BY DEF Init, Contract!CInit, Published, ThreadWaits
<1>2. IInv /\ [Next]_vars => [Contract!CNext]_(Contract!cvars)
  <2>1. CASE Terminated \/ UNCHANGED vars
    BY <2>1 DEF Terminated, vars, Contract!cvars, Published
  <2> QED
    BY <2>1, ProducerSimulates, ConsumerSimulates DEF Next
<1> QED
  BY <1>1, <1>2, Invariance, PTL DEF Spec
=============================================================================
