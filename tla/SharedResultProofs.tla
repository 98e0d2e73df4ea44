------------------------- MODULE SharedResultProofs -------------------------
(***************************************************************************)
(* The state word of a shared result, for any number of users: who runs    *)
(* OnResultFinished, which asserts hold, and when the state is deleted;    *)
(* and the lock-free list of those who await it.                           *)
(***************************************************************************)
EXTENDS SharedResult, FiniteSetTheorems, TLAPS

(* The constructor establishes the invariant.                              *)
LEMMA InitIInv == Init => IInv
<1> SUFFICES ASSUME Init PROVE IInv
  OBVIOUS
<1>1. Typed
  <2>1. ready \in BOOLEAN
    BY DEF Init
  <2>2. /\ fpc \in [Finishers -> FinisherPCs]
        /\ upc \in [Users -> UserPCs]
    BY DEF Init, UserPCs, Finishers, FinisherPCs
  <2>3. /\ outcome \in Outcomes \cup {Idle} /\ epoch \in Int
        /\ awaiters \in Seq(Users) /\ resuming \in Seq(Users)
        /\ ppc = "producing" /\ dpc = "no"
    BY DEF Init
  <2>. QED  BY <2>1, <2>2, <2>3 DEF Typed
<1>2. StateWord /\ NothingEarly
  BY SharedAssumption DEF Init, StateWord, NothingEarly, Published, Registering
<1>3. MakerAlone /\ OneFinisher
  BY SharedAssumption DEF Init, MakerAlone, OneFinisher, Sharing, Registering, Finishers
<1>4. DestructorLast
  BY SharedAssumption DEF Init, DestructorLast, Holders
<1> QED
  BY <1>1, <1>2, <1>3, <1>4 DEF IInv

(* The steps of the producer keep the invariant.                           *)
LEMMA ProducerIInv == IInv /\ ProducerStep => IInv'
<1> SUFFICES ASSUME IInv, ProducerStep PROVE IInv'
  OBVIOUS
<1> USE DEF IInv, Typed, FinisherPCs, StateWord, NothingEarly, MakerAlone, OneFinisher,
            DestructorLast, Published, Registering, Sharing, Holders, ProducerHolds, Finishers,
            Finisher, stateVars, sharedVars, listVars, finishVars, userVars
<1>1. CASE CompleteProducer
  BY <1>1, SharedAssumption DEF CompleteProducer
<1>2. CASE CopyWeak
  BY <1>2 DEF CopyWeak
<1>3. CASE LockWeak
  BY <1>3 DEF LockWeak
<1>4. CASE ProducerDeletes
  BY <1>4 DEF ProducerDeletes
<1> QED
  BY <1>1, <1>2, <1>3, <1>4 DEF ProducerStep

(* The steps of OnResultFinished keep the invariant.                       *)
LEMMA FinisherIInv == IInv /\ FinisherStep => IInv'
<1> SUFFICES ASSUME IInv, NEW f \in Finishers,
                    \/ StoreStatus(f) \/ NotifyAll(f) \/ ReleasePermits(f)
                    \/ SignalPermit(f) \/ EndSignals(f) \/ SwapAwaiters(f)
                    \/ ResumeAwaiter(f) \/ ReturnFromFinished(f)
             PROVE  IInv'
  BY DEF FinisherStep
<1>0. fpc[f] \notin {"none", "done"} => Published /\ dpc = "no"
  BY SharedAssumption DEF IInv, OneFinisher, Published, DestructorLast, ProducerHolds, Holders,
     Finishers
<1> USE DEF IInv, Typed, FinisherPCs, StateWord, NothingEarly, MakerAlone, OneFinisher,
            DestructorLast, Published, Registering, Sharing, Holders, ProducerHolds, Finishers,
            Finisher, stateVars, sharedVars, listVars, finishVars, userVars
<1>1. CASE StoreStatus(f)
  BY <1>0, <1>1 DEF StoreStatus
<1>2. CASE NotifyAll(f)
  BY <1>0, <1>2 DEF NotifyAll
<1>3. CASE ReleasePermits(f)
  BY <1>0, <1>3 DEF ReleasePermits
<1>4. CASE SwapAwaiters(f)
  <2>1. Reverse(awaiters) \in Seq(Users) /\ (awaiters = <<>> => Reverse(awaiters) = <<>>)
    BY DEF Reverse
  <2> QED
    BY <1>0, <1>4, <2>1 DEF SwapAwaiters
<1>5. CASE ResumeAwaiter(f)
  BY <1>0, <1>5 DEF ResumeAwaiter, LeavesWait, Goes, UserPCs
<1>6. CASE ReturnFromFinished(f)
  BY <1>0, <1>6, SharedAssumption DEF ReturnFromFinished, Goes, UserPCs
<1>7. CASE SignalPermit(f)
  <2>1. CASE UNCHANGED upc
    BY <1>0, <1>7, <2>1 DEF SignalPermit
  <2>2. CASE \E u \in Users : upc[u] = "asleep" /\ Goes(u, "acquire")
    BY <1>0, <1>7, <2>2 DEF SignalPermit, Goes, UserPCs
  <2> QED
    BY <1>7, <2>1, <2>2 DEF SignalPermit, Asleep
<1>8. CASE EndSignals(f)
  BY <1>0, <1>8 DEF EndSignals
<1> QED
  BY <1>1, <1>2, <1>3, <1>4, <1>5, <1>6, <1>7, <1>8

(* The steps of Share keep the invariant.                                  *)
LEMMA ShareIInv == IInv /\ ShareStep => IInv'
<1> SUFFICES ASSUME IInv, ShareStep PROVE IInv'
  OBVIOUS
<1> USE SharedAssumption
    DEF IInv, Typed, FinisherPCs, StateWord, NothingEarly, MakerAlone, OneFinisher, DestructorLast,
        Published, Registering, Sharing, Holders, ProducerHolds, Finishers, Finisher, Goes, UserPCs,
        stateVars, sharedVars, listVars, finishVars, userVars
<1>1. CASE ShareLoad
  BY <1>1 DEF ShareLoad
<1>2. CASE SetSharedContext
  BY <1>2 DEF SetSharedContext
<1>3. CASE RegisterShared
  BY <1>3 DEF RegisterShared
<1> QED
  BY <1>1, <1>2, <1>3 DEF ShareStep

LEMMA PushedIsSeq ==
  ASSUME NEW S, NEW e \in S, NEW s \in Seq(S)
  PROVE  <<e>> \o s \in Seq(S)
  OBVIOUS

(* The steps of the users keep the invariant.                              *)
LEMMA UserIInv ==
  ASSUME IInv, NEW u \in Users,
         Copy(u) \/ StartCall(u) \/ UserStep(u) \/ Expire(u) \/ Drop(u)
  PROVE  IInv'
<1> USE SharedAssumption
    DEF IInv, Typed, FinisherPCs, StateWord, NothingEarly, MakerAlone, OneFinisher, DestructorLast,
        Published, Registering, Sharing, Holders, ProducerHolds, Finishers, Goes, UserPCs,
        stateVars, sharedVars, listVars, finishVars, userVars
<1>1. CASE Copy(u)
  BY <1>1 DEF Copy
<1>2. CASE StartCall(u)
  BY <1>2 DEF StartCall
<1>3. CASE WaitStatus(u)
  BY <1>3 DEF WaitStatus, LeavesWait
<1>4. CASE CvWake(u)
  BY <1>4 DEF CvWake, LeavesWait
<1>5. CASE Poll(u)
  BY <1>5 DEF Poll
<1>6. CASE Acquire(u)
  BY <1>6 DEF Acquire
<1>7. CASE LoadAwaiters(u)
  BY <1>7 DEF LoadAwaiters, LeavesWait
<1>8. CASE PushAwaiter(u)
  <2>1. ~Sharing
    BY <1>8 DEF PushAwaiter
  <2>2. awaiters' \in Seq(Users)
    <3>1. awaiters \in Seq(Users)
      OBVIOUS
    <3>2. <<u>> \o awaiters \in Seq(Users)
      BY <3>1, PushedIsSeq
    <3>3. awaiters' = <<u>> \o awaiters \/ awaiters' = awaiters
      BY <1>8 DEF PushAwaiter
    <3> QED
      BY <3>1, <3>2, <3>3
  <2>3. upc' = [upc EXCEPT ![u] = "suspended"] \/ upc' = [upc EXCEPT ![u] = "load"]
    BY <1>8 DEF PushAwaiter
  <2>4. UNCHANGED <<stateVars, ppc, sharedVars, ready, finishVars, dpc>>
    BY <1>8 DEF PushAwaiter
  <2>5. upc[u] = "push"
    BY <1>8 DEF PushAwaiter
  <2> QED
    BY <2>1, <2>2, <2>3, <2>4, <2>5
<1>9. CASE TakeResult(u)
  BY <1>9 DEF TakeResult
<1>10. CASE Expire(u)
  BY <1>10 DEF Expire
<1>11. CASE Drop(u)
  BY <1>11 DEF Drop
<1>12. CASE Sleep(u)
  BY <1>12 DEF Sleep
<1> QED
  BY <1>1, <1>2, <1>3, <1>4, <1>5, <1>6, <1>7, <1>8, <1>9, <1>10, <1>11, <1>12 DEF UserStep

(* The steps of the destructor keep the invariant.                         *)
LEMMA DestructorIInv == IInv /\ DestructorStep => IInv'
<1> SUFFICES ASSUME IInv, DestructorStep PROVE IInv'
  OBVIOUS
<1>0. ~Sharing
  BY SharedAssumption DEF IInv, DestructorLast, Holders, Sharing, Registering, DestructorStep,
     RewindLoad, RewindCas, ClearContext, DropLoad, DropExchange
<1> USE DEF IInv, Typed, FinisherPCs, StateWord, NothingEarly, MakerAlone, OneFinisher,
            DestructorLast, Published, Registering, Sharing, Holders, ProducerHolds,
            stateVars, sharedVars, listVars, finishVars, userVars
<1>1. CASE RewindLoad
  BY <1>0, <1>1 DEF RewindLoad
<1>2. CASE RewindCas
  BY <1>0, <1>2 DEF RewindCas
<1>3. CASE ClearContext
  BY <1>0, <1>3 DEF ClearContext
<1>4. CASE DropLoad
  BY <1>0, <1>4 DEF DropLoad
<1>5. CASE DropExchange
  BY <1>0, <1>5 DEF DropExchange
<1> QED
  BY <1>1, <1>2, <1>3, <1>4, <1>5 DEF DestructorStep

LEMMA StepIInv ==
  ASSUME IInv, [Next]_vars
  PROVE  IInv'
<1>1. CASE ProducerStep
  BY <1>1, ProducerIInv
<1>2. CASE FinisherStep
  BY <1>2, FinisherIInv
<1>3. CASE ShareStep
  BY <1>3, ShareIInv
<1>4. CASE DestructorStep
  BY <1>4, DestructorIInv
<1>5. CASE \E u \in Users : Copy(u) \/ StartCall(u) \/ UserStep(u) \/ Expire(u) \/ Drop(u)
  BY <1>5, UserIInv
<1>6. CASE Terminated \/ UNCHANGED vars
  BY <1>6 DEF Terminated, vars, stateVars, sharedVars, listVars, finishVars, userVars,
     IInv, Typed, StateWord, NothingEarly, MakerAlone, OneFinisher, DestructorLast,
     Published, Registering, Sharing, Holders, ProducerHolds
<1> QED
  BY <1>1, <1>2, <1>3, <1>4, <1>5, <1>6 DEF Next

THEOREM Invariance == Spec => []IInv
BY InitIInv, StepIInv, PTL DEF Spec

(* OnResultFinished runs at most once, in the producer or in Share, and    *)
(* the context is not touched while the producer copies it: Share and      *)
(* TryRewindConsumer agree with CompleteProducer through the state word.   *)
(* The asserts on the state and the context hold whenever they are         *)
(* evaluated, and Get finds an outcome.                                    *)
THEOREM OneSide == Spec => []OneSideActs
<1>1. IInv => OneSideActs
  BY SharedAssumption DEF IInv, Typed, StateWord, NothingEarly, MakerAlone, OneFinisher,
     DestructorLast, OneSideActs, Published, Sharing, Registering, Holders, ProducerHolds,
     Finishers
<1> QED
  BY <1>1, Invariance, PTL

(* The state is deleted once, after the last user, the producer that holds *)
(* the shared state and the destructor.                                    *)
THEOREM DeletedOnce == Spec => []DeletedExactlyOnce
<1>1. IInv => DeletedExactlyOnce
  BY DEF IInv, StateWord, DestructorLast, DeletedExactlyOnce, Published
<1> QED
  BY <1>1, Invariance, PTL

-----------------------------------------------------------------------------
(* The list of awaiters.                                                   *)

Suspended == {u \in Users : upc[u] = "suspended"}
InCvWait == {u \in Users : upc[u] = "cvWait"}

(* The list, half of which may be on its way to be resumed, and the users  *)
(* that have suspended in it.                                              *)
ListInv ==
  /\ arrived \in Seq(Users)
  /\ arrived = resuming \o Reverse(awaiters)
  /\ \A j, k \in DOMAIN arrived : arrived[j] = arrived[k] => j = k
  /\ \A u \in Users : upc[u] = "suspended" <=> \E k \in DOMAIN arrived : arrived[k] = u
  /\ Len(arrived) = Cardinality(Suspended)
  /\ resuming # <<>> => \E f \in Finishers : fpc[f] = "resume"

(* The counters: m_semaphore is released once, and m_epoch counted up      *)
(* twice; everybody who counts it down has entered wait_impl before the    *)
(* status was stored, or has found it counted up.                          *)
CounterInv ==
  /\ state \in {"IDLE", "CONSUMER_SET", "CONSUMER_DONE", "PRODUCER_DONE"}
  /\ context \in {"IDLE", "SHARED"}
  /\ status \in Outcomes \cup {Idle}
  /\ expected \in [Users -> Users \cup {Nil}]
  /\ Published => outcome \in Outcomes
  /\ permits \in 0 .. Permits /\ signals \in 0 .. 1
  /\ permits # 0 => \E f \in Finishers : fpc[f] \in {"signal", "swap", "resume", "done"}
  /\ epoch \in Int /\ epoch <= 2
  /\ epoch > 0 => \E f \in Finishers : fpc[f] \in FinisherPCs \ {"none", "store"}
  /\ epoch > 1 => \E f \in Finishers : fpc[f] \in FinisherPCs \ {"none", "store", "notify"}
  /\ status = Idle => epoch >= 0
  /\ epoch >= Cardinality(InCvWait) - Cardinality(Users)

ListIInv == IInv /\ ListInv /\ CounterInv

(* An awaiter that is put at the head of the list is the last one to be    *)
(* resumed.                                                                *)
LEMMA ReverseOfPushed ==
  ASSUME NEW u \in Users, NEW list \in Seq(Users)
  PROVE  Reverse(<<u>> \o list) = Append(Reverse(list), u)
<1> DEFINE n == Len(list)
           pushed == <<u>> \o list
           left == Reverse(pushed)
           right == Append(Reverse(list), u)
<1>1. /\ n \in Nat /\ pushed \in Seq(Users) /\ Len(pushed) = n + 1
      /\ pushed[1] = u
      /\ \A k \in 1 .. n : pushed[k + 1] = list[k]
  OBVIOUS
<1>2. /\ Reverse(list) \in Seq(Users) /\ Len(Reverse(list)) = n
      /\ \A k \in 1 .. n : Reverse(list)[k] = list[n - k + 1]
  BY <1>1 DEF Reverse
<1>3. /\ left \in Seq(Users) /\ Len(left) = n + 1
      /\ \A k \in 1 .. n + 1 : left[k] = pushed[n + 1 - k + 1]
  BY <1>1 DEF Reverse
<1>4. /\ right \in Seq(Users) /\ Len(right) = n + 1
      /\ right[n + 1] = u
      /\ \A k \in 1 .. n : right[k] = Reverse(list)[k]
  BY <1>1, <1>2
<1>5. ASSUME NEW k \in 1 .. n + 1 PROVE left[k] = right[k]
  <2>1. CASE k = n + 1
    BY <1>1, <1>3, <1>4, <2>1
  <2>2. CASE k # n + 1
    <3>1. k \in 1 .. n /\ n - k + 1 \in 1 .. n /\ n + 1 - k + 1 = (n - k + 1) + 1
      BY <1>1, <2>2
    <3>2. left[k] = list[n - k + 1]
      BY <1>1, <1>3, <3>1
    <3>. QED  BY <1>2, <1>4, <3>1, <3>2
  <2>. QED  BY <2>1, <2>2
<1> HIDE DEF left, right, n
<1>6. left = right
  <2>1. /\ left = [k \in 1 .. n + 1 |-> left[k]]
        /\ right = [k \in 1 .. n + 1 |-> right[k]]
    BY <1>1, <1>3, <1>4
  <2>. QED  BY <1>5, <2>1
<1>. QED  BY <1>6 DEF left, right

(* The last one of a list is the last one of what ends in it.              *)
LEMMA AppendToTail ==
  ASSUME NEW r \in Seq(Users), NEW t \in Seq(Users), NEW u \in Users
  PROVE  r \o Append(t, u) = Append(r \o t, u)
OBVIOUS

(* The first of a list without repetitions is taken out.                   *)
LEMMA WithoutFirst ==
  ASSUME NEW list \in Seq(Users), list # <<>>,
         \A j, k \in DOMAIN list : list[j] = list[k] => j = k
  PROVE  Without(list, list[1]) = Tail(list)
<1>1. /\ Len(list) \in Nat /\ Len(list) > 0 /\ DOMAIN list = 1 .. Len(list) /\ 1 \in DOMAIN list
  OBVIOUS
<1>2. \A k \in DOMAIN list : list[k] = list[1] <=> k = 1
  BY <1>1
<1>3. (CHOOSE k \in DOMAIN list : list[k] = list[1]) = 1
  BY <1>1, <1>2
<1>4. RemoveAt(list, 1) = SubSeq(list, 1, 0) \o SubSeq(list, 2, Len(list))
  BY DEF RemoveAt
<1>5. /\ SubSeq(list, 1, 0) = <<>>
      /\ SubSeq(list, 2, Len(list)) = Tail(list) /\ Tail(list) \in Seq(Users)
  BY <1>1
<1>6. RemoveAt(list, 1) = Tail(list)
  <2>1. \A t \in Seq(Users) : <<>> \o t = t
    OBVIOUS
  <2>. QED  BY <1>4, <1>5, <2>1
<1>7. Without(list, list[1]) = RemoveAt(list, CHOOSE k \in DOMAIN list : list[k] = list[1])
  BY DEF Without
<1>. QED  BY <1>3, <1>6, <1>7

(* The tail of a list that is followed by another.                         *)
LEMMA TailOfConcat ==
  ASSUME NEW r \in Seq(Users), NEW t \in Seq(Users), r # <<>>
  PROVE  /\ r \o t \in Seq(Users) /\ r \o t # <<>>
         /\ Tail(r \o t) = Tail(r) \o t /\ Tail(r) \in Seq(Users)
         /\ Head(r) = (r \o t)[1] /\ Head(r) \in Users
OBVIOUS

LEMMA ListInit == Init => ListIInv
<1> SUFFICES ASSUME Init PROVE ListIInv
  OBVIOUS
<1>1. IInv
  BY InitIInv
<1>2. Suspended = {} /\ InCvWait = {}
  BY DEF Init, Suspended, InCvWait
<1>3. Cardinality({}) = 0 /\ Cardinality(Users) \in Nat
  BY SharedAssumption, FS_EmptySet, FS_CardinalityType
<1>4. ListInv
  <2>1. arrived = <<>> /\ resuming = <<>> /\ Reverse(awaiters) = <<>>
    BY DEF Init, Reverse
  <2>2. \A u \in Users : upc[u] # "suspended"
    BY DEF Init
  <2>. QED  BY <1>2, <1>3, <2>1, <2>2 DEF ListInv
<1>5. CounterInv
  BY <1>2, <1>3, SharedAssumption DEF Init, CounterInv, Published
<1>. QED  BY <1>1, <1>4, <1>5 DEF ListIInv

(* Steps by which nobody suspends or is resumed.                           *)
LEMMA ListUntouched ==
  ASSUME ListInv, UNCHANGED <<arrived, resuming, awaiters>>,
         \A u \in Users : upc'[u] = "suspended" <=> upc[u] = "suspended",
         (\E f \in Finishers : fpc[f] = "resume") /\ resuming # <<>>
           => \E f \in Finishers : fpc'[f] = "resume"
  PROVE  ListInv'
<1>1. Suspended' = Suspended
  BY DEF Suspended
<1>2. Reverse(awaiters)' = Reverse(awaiters)
  BY DEF Reverse
<1>. QED  BY <1>1, <1>2 DEF ListInv

(* Users that come and go: how many are in the condition variable.         *)
LEMMA CvWaitCount ==
  ASSUME upc \in [Users -> UserPCs]
  PROVE  /\ IsFiniteSet(InCvWait) /\ Cardinality(InCvWait) \in Nat
         /\ Cardinality(Users) \in Nat /\ Cardinality(InCvWait) <= Cardinality(Users)
<1>1. InCvWait \subseteq Users
  BY DEF InCvWait
<1>. QED  BY <1>1, SharedAssumption, FS_Subset, FS_CardinalityType

(* One user moves, and is or is not in the condition variable then.        *)
LEMMA CvWaitMove ==
  ASSUME NEW u \in Users, NEW to \in UserPCs, upc \in [Users -> UserPCs], Goes(u, to)
  PROVE  /\ to # "cvWait" /\ upc[u] = "cvWait"
              => Cardinality(InCvWait') = Cardinality(InCvWait) - 1
         /\ to # "cvWait" /\ upc[u] # "cvWait" => InCvWait' = InCvWait
         /\ Cardinality(InCvWait') \in Nat /\ Cardinality(InCvWait') <= Cardinality(Users)
<1>1. /\ upc' \in [Users -> UserPCs] /\ upc'[u] = to
      /\ \A v \in Users : v # u => upc'[v] = upc[v]
  BY DEF Goes
<1>2. IsFiniteSet(InCvWait) /\ Cardinality(InCvWait) \in Nat
  BY CvWaitCount
<1>3. ASSUME to # "cvWait", upc[u] = "cvWait"
      PROVE  Cardinality(InCvWait') = Cardinality(InCvWait) - 1
  <2>1. InCvWait' = InCvWait \ {u} /\ u \in InCvWait
    BY <1>1, <1>3 DEF InCvWait
  <2>. QED  BY <1>2, <2>1, FS_RemoveElement
<1>4. ASSUME to # "cvWait", upc[u] # "cvWait"
      PROVE  InCvWait' = InCvWait
  BY <1>1, <1>4 DEF InCvWait
<1>5. InCvWait' \subseteq Users
  BY DEF InCvWait
<1>6. Cardinality(InCvWait') \in Nat /\ Cardinality(InCvWait') <= Cardinality(Users)
  BY <1>5, SharedAssumption, FS_Subset, FS_CardinalityType
<1>. QED  BY <1>3, <1>4, <1>6

(* The list through the steps of those that are not suspended.             *)
LEMMA ListOfOthers ==
  ASSUME ListIInv,
         \/ ProducerStep \/ ShareStep \/ DestructorStep
         \/ \E f \in Finishers : \/ StoreStatus(f) \/ NotifyAll(f) \/ ReleasePermits(f)
                                 \/ SignalPermit(f) \/ EndSignals(f) \/ ReturnFromFinished(f)
  PROVE  ListInv'
<1>0. /\ IInv /\ ListInv /\ Maker \in Users
      /\ fpc \in [Finishers -> FinisherPCs]
      /\ upc \in [Users -> UserPCs]
  BY SharedAssumption DEF ListIInv, IInv, Typed
<1>1. CASE ProducerStep
  <2>1. UNCHANGED <<arrived, resuming, awaiters, upc>>
    BY <1>1 DEF ProducerStep, CompleteProducer, CopyWeak, LockWeak, ProducerDeletes,
       userVars, listVars, finishVars
  <2>2. \A f \in Finishers : fpc[f] = "resume" => fpc'[f] = "resume"
    <3>1. CASE LockWeak
      <4>1. fpc["producer"] # "resume"
        BY <1>0, <3>1 DEF LockWeak, IInv, OneFinisher
      <4>. QED  BY <1>0, <3>1, <4>1 DEF LockWeak, Finisher
    <3>. QED  BY <1>1, <3>1 DEF ProducerStep, CompleteProducer, CopyWeak, ProducerDeletes,
                                       finishVars
  <2>. QED  BY <1>0, <2>1, <2>2, ListUntouched
<1>2. CASE ShareStep
  <2>1. UNCHANGED <<arrived, resuming, awaiters>>
    BY <1>2 DEF ShareStep, ShareLoad, SetSharedContext, RegisterShared, listVars, finishVars
  <2>2. Registering
    BY <1>2 DEF ShareStep, ShareLoad, SetSharedContext, RegisterShared, Registering
  <2>3. \A f \in Finishers : fpc[f] = "resume" => fpc'[f] = "resume"
    <3>1. fpc["maker"] = "none"
      BY <1>0, <2>2 DEF IInv, OneFinisher
    <3>. QED  BY <1>0, <1>2, <3>1 DEF ShareStep, ShareLoad, SetSharedContext, RegisterShared,
                                       Finisher, finishVars
  <2>4. \E to \in {"sharing", "shareSet", "shareCas", "holds"} : Goes(Maker, to)
    BY <1>2 DEF ShareStep, ShareLoad, SetSharedContext, RegisterShared
  <2>5. \A u \in Users : upc'[u] = "suspended" <=> upc[u] = "suspended"
    BY <1>0, <2>2, <2>4 DEF Goes, Registering
  <2>. QED  BY <1>0, <2>1, <2>3, <2>5, ListUntouched
<1>3. CASE DestructorStep
  <2>1. UNCHANGED <<arrived, resuming, awaiters, upc, fpc>>
    BY <1>3 DEF DestructorStep, RewindLoad, RewindCas, ClearContext, DropLoad, DropExchange,
       userVars, listVars, finishVars
  <2>. QED  BY <1>0, <2>1, ListUntouched
<1>4. ASSUME NEW f \in Finishers, StoreStatus(f) \/ NotifyAll(f) \/ ReleasePermits(f)
      PROVE  ListInv'
  <2>1. UNCHANGED <<arrived, resuming, awaiters, upc>>
    BY <1>4 DEF StoreStatus, NotifyAll, ReleasePermits, userVars, listVars
  <2>2. \A g \in Finishers : fpc[g] = "resume" => fpc'[g] = "resume"
    BY <1>0, <1>4 DEF StoreStatus, NotifyAll, ReleasePermits, Finisher
  <2>. QED  BY <1>0, <2>1, <2>2, ListUntouched
<1>6. ASSUME NEW f \in Finishers, SignalPermit(f) \/ EndSignals(f)
      PROVE  ListInv'
  <2>1. UNCHANGED <<arrived, resuming, awaiters>>
    BY <1>6 DEF SignalPermit, EndSignals, userVars, listVars, finishVars
  <2>2. \A g \in Finishers : fpc[g] = "resume" => fpc'[g] = "resume"
    BY <1>0, <1>6 DEF SignalPermit, EndSignals, Finisher, finishVars
  <2>3. \A u \in Users : upc'[u] = "suspended" <=> upc[u] = "suspended"
    <3>1. UNCHANGED upc \/ \E u \in Users : upc[u] = "asleep" /\ Goes(u, "acquire")
      BY <1>6 DEF SignalPermit, EndSignals, Asleep, userVars
    <3>. QED  BY <1>0, <3>1 DEF Goes
  <2>. QED  BY <1>0, <2>1, <2>2, <2>3, ListUntouched
<1>5. ASSUME NEW f \in Finishers, ReturnFromFinished(f)
      PROVE  ListInv'
  <2>1. UNCHANGED <<arrived, resuming, awaiters>> /\ resuming = <<>>
    BY <1>5 DEF ReturnFromFinished, listVars
  <2>2. \A u \in Users : upc'[u] = "suspended" <=> upc[u] = "suspended"
    <3>1. CASE f = "maker"
      <4>1. upc[Maker] = "sharing"
        BY <1>0, <1>5, <3>1 DEF ReturnFromFinished, IInv, OneFinisher
      <4>. QED  BY <1>0, <1>5, <3>1, <4>1 DEF ReturnFromFinished, Goes
    <3>2. CASE f # "maker"
      BY <1>5, <3>2 DEF ReturnFromFinished
    <3>. QED  BY <3>1, <3>2
  <2>. QED  BY <1>0, <2>1, <2>2, ListUntouched
<1>. QED  BY <1>1, <1>2, <1>3, <1>4, <1>5, <1>6

(* OnResultFinished takes the whole list, to resume it from its end.       *)
LEMMA ListSwapped ==
  ASSUME ListIInv, NEW f \in Finishers, SwapAwaiters(f)
  PROVE  ListInv'
<1>0. /\ IInv /\ ListInv
      /\ fpc \in [Finishers -> FinisherPCs]
      /\ awaiters \in Seq(Users)
  BY DEF ListIInv, IInv, Typed
<1>1. /\ UNCHANGED <<arrived, upc>> /\ fpc[f] = "swap"
      /\ resuming' = Reverse(awaiters) /\ awaiters' = <<>>
      /\ fpc'[f] = "resume"
  BY <1>0 DEF SwapAwaiters, userVars, Finisher
<1>2. resuming = <<>>
  <2>1. \A g \in Finishers : fpc[g] # "resume"
    BY <1>0, <1>1 DEF IInv, OneFinisher, Finishers
  <2>. QED  BY <1>0, <2>1 DEF ListInv
<1>3. Suspended' = Suspended
  BY <1>1 DEF Suspended
<1>4. arrived' = resuming' \o Reverse(awaiters')
  <2>1. Reverse(awaiters) \in Seq(Users) /\ Reverse(<<>>) = <<>>
    BY <1>0 DEF Reverse
  <2>2. \A t \in Seq(Users) : <<>> \o t = t /\ t \o <<>> = t
    OBVIOUS
  <2>3. arrived = <<>> \o Reverse(awaiters)
    BY <1>0, <1>2 DEF ListInv
  <2>. QED  BY <1>1, <2>1, <2>2, <2>3
<1>5. Reverse(awaiters)' = Reverse(awaiters')
  BY DEF Reverse
<1>. QED  BY <1>0, <1>1, <1>3, <1>4, <1>5 DEF ListInv

(* The first to suspend is the first to be resumed.                        *)
LEMMA ListResumed ==
  ASSUME ListIInv, NEW f \in Finishers, ResumeAwaiter(f)
  PROVE  ListInv'
<1> DEFINE h == Head(resuming)
<1>0. /\ ListInv /\ resuming \in Seq(Users) /\ awaiters \in Seq(Users)
      /\ upc \in [Users -> UserPCs] /\ arrived \in Seq(Users)
      /\ arrived = resuming \o Reverse(awaiters)
      /\ \A j, k \in DOMAIN arrived : arrived[j] = arrived[k] => j = k
  BY DEF ListIInv, IInv, Typed, ListInv
<1>1. /\ UNCHANGED <<awaiters, fpc>> /\ fpc[f] = "resume" /\ resuming # <<>>
      /\ resuming' = Tail(resuming) /\ arrived' = Without(arrived, h)
  BY DEF ResumeAwaiter, listVars
<1>2. PICK to \in {"take", "holds"} : upc' = [upc EXCEPT ![h] = to]
  BY DEF ResumeAwaiter, LeavesWait, Goes
<1>3. Reverse(awaiters) \in Seq(Users)
  BY <1>0 DEF Reverse
<1>4. /\ arrived # <<>> /\ Tail(arrived) = Tail(resuming) \o Reverse(awaiters)
      /\ h = arrived[1] /\ h \in Users
  BY <1>0, <1>1, <1>3, TailOfConcat
<1> HIDE DEF h
<1>5. arrived' = Tail(arrived)
  BY <1>0, <1>1, <1>4, WithoutFirst
<1>6. /\ Len(arrived) \in Nat /\ Len(arrived) > 0 /\ DOMAIN arrived = 1 .. Len(arrived)
      /\ Tail(arrived) \in Seq(Users) /\ Len(Tail(arrived)) = Len(arrived) - 1
      /\ DOMAIN Tail(arrived) = 1 .. Len(arrived) - 1
      /\ \A k \in 1 .. Len(arrived) - 1 : Tail(arrived)[k] = arrived[k + 1]
  BY <1>0, <1>4
<1>7. upc[h] = "suspended"
  <2>0. 1 \in DOMAIN arrived
    BY <1>6
  <2>1. arrived[1] = h /\ h \in Users
    BY <1>4
  <2>2. \A u \in Users : upc[u] = "suspended" <=> \E k \in DOMAIN arrived : arrived[k] = u
    BY <1>0 DEF ListInv
  <2>. QED  BY <2>0, <2>1, <2>2
<1>8. Reverse(awaiters)' = Reverse(awaiters)
  BY <1>1 DEF Reverse
<1> DEFINE n == Len(arrived)
<1>a. /\ n \in Nat /\ n > 0 /\ DOMAIN arrived = 1 .. n /\ DOMAIN arrived' = 1 .. n - 1
      /\ \A k \in 1 .. n - 1 : k + 1 \in 1 .. n /\ arrived'[k] = arrived[k + 1]
  BY <1>5, <1>6
<1> HIDE DEF n
<1>b. \A j, k \in 1 .. n : arrived[j] = arrived[k] => j = k
  BY <1>0, <1>a
<1>9. \A j, k \in DOMAIN arrived' : arrived'[j] = arrived'[k] => j = k
  BY <1>a, <1>b
<1>10. ASSUME NEW u \in Users
       PROVE  upc'[u] = "suspended" <=> \E k \in DOMAIN arrived' : arrived'[k] = u
  <2>1. CASE u = h
    <3>1. upc'[u] # "suspended"
      BY <1>0, <1>2, <1>4, <2>1
    <3>2. ASSUME NEW k \in DOMAIN arrived', arrived'[k] = h PROVE FALSE
      <4>1. k \in 1 .. n - 1 /\ k + 1 \in 1 .. n /\ 1 \in 1 .. n /\ k + 1 # 1
        BY <1>a
      <4>2. arrived[k + 1] = arrived[1]
        BY <1>4, <1>a, <3>2, <4>1
      <4>. QED  BY <1>b, <4>1, <4>2
    <3>. QED  BY <2>1, <3>1, <3>2
  <2>2. CASE u # h
    <3>1. upc'[u] = upc[u]
      BY <1>0, <1>2, <2>2
    <3>2. (\E k \in DOMAIN arrived : arrived[k] = u) <=> \E k \in DOMAIN arrived' : arrived'[k] = u
      <4>1. ASSUME NEW k \in DOMAIN arrived, arrived[k] = u
            PROVE  \E i \in DOMAIN arrived' : arrived'[i] = u
        <5>1. k # 1 /\ k - 1 \in DOMAIN arrived' /\ arrived'[k - 1] = u
          <6>1. k \in 1 .. n /\ k # 1
            BY <1>4, <1>a, <2>2, <4>1
          <6>2. k - 1 \in 1 .. n - 1 /\ (k - 1) + 1 = k
            BY <1>a, <6>1
          <6>. QED  BY <1>a, <4>1, <6>1, <6>2
        <5>. QED  BY <5>1
      <4>2. ASSUME NEW k \in DOMAIN arrived', arrived'[k] = u
            PROVE  \E i \in DOMAIN arrived : arrived[i] = u
        <5>1. k + 1 \in DOMAIN arrived /\ arrived[k + 1] = u
          BY <1>a, <4>2
        <5>. QED  BY <5>1
      <4>. QED  BY <4>1, <4>2
    <3>. QED  BY <1>0, <3>1, <3>2 DEF ListInv
  <2>. QED  BY <2>1, <2>2
<1>11. Len(arrived') = Cardinality(Suspended')
  <2>1. Suspended' = Suspended \ {h} /\ h \in Suspended
    BY <1>0, <1>2, <1>4, <1>7 DEF Suspended
  <2>2. IsFiniteSet(Suspended)
    BY SharedAssumption, FS_Subset DEF Suspended
  <2>. QED  BY <1>0, <1>5, <1>6, <2>1, <2>2, FS_RemoveElement DEF ListInv
<1>. QED  BY <1>0, <1>1, <1>4, <1>5, <1>6, <1>8, <1>9, <1>10, <1>11 DEF ListInv

(* A coroutine suspends at the head of the list: it will be the last.      *)
LEMMA ListPushed ==
  ASSUME ListIInv, NEW u \in Users, PushAwaiter(u), Goes(u, "suspended"),
         awaiters' = <<u>> \o awaiters, arrived' = Append(arrived, u)
  PROVE  ListInv'
<1>0. /\ ListInv /\ resuming \in Seq(Users) /\ awaiters \in Seq(Users)
      /\ upc \in [Users -> UserPCs] /\ arrived \in Seq(Users)
      /\ arrived = resuming \o Reverse(awaiters)
      /\ \A j, k \in DOMAIN arrived : arrived[j] = arrived[k] => j = k
  BY DEF ListIInv, IInv, Typed, ListInv
<1>1. /\ upc[u] = "push" /\ UNCHANGED <<resuming, fpc>>
      /\ upc' = [upc EXCEPT ![u] = "suspended"]
  BY DEF PushAwaiter, Goes, finishVars
<1>2. Reverse(awaiters') = Append(Reverse(awaiters), u) /\ Reverse(awaiters) \in Seq(Users)
  <2>1. Reverse(<<u>> \o awaiters) = Append(Reverse(awaiters), u)
    BY <1>0, ReverseOfPushed
  <2>2. Reverse(awaiters) \in Seq(Users)
    BY <1>0 DEF Reverse
  <2>. QED  BY <2>1, <2>2
<1>3. arrived' = resuming' \o Reverse(awaiters')
  <2> DEFINE t == Reverse(awaiters)
  <2>1. t \in Seq(Users)
    BY <1>2
  <2>2. arrived' = Append(resuming \o t, u)
    BY <1>0
  <2>3. Append(resuming \o t, u) = resuming \o Append(t, u)
    <3> HIDE DEF t
    <3>. QED  BY <1>0, <2>1, AppendToTail
  <2>. QED  BY <1>1, <1>2, <2>2, <2>3
<1>4. Reverse(awaiters)' = Reverse(awaiters')
  BY DEF Reverse
<1> DEFINE n == Len(arrived)
<1>5. /\ n \in Nat /\ DOMAIN arrived = 1 .. n /\ DOMAIN arrived' = 1 .. n + 1
      /\ arrived' \in Seq(Users) /\ Len(arrived') = n + 1
      /\ \A k \in 1 .. n : arrived'[k] = arrived[k]
      /\ arrived'[n + 1] = u
  BY <1>0
<1> HIDE DEF n
<1>6. \A k \in DOMAIN arrived : arrived[k] # u
  BY <1>0, <1>1 DEF ListInv
<1>7. \A j, k \in DOMAIN arrived' : arrived'[j] = arrived'[k] => j = k
  <2>1. \A j, k \in 1 .. n : arrived[j] = arrived[k] => j = k
    BY <1>0, <1>5
  <2>2. \A k \in 1 .. n : arrived'[k] # u
    BY <1>5, <1>6
  <2>3. \A k \in 1 .. n + 1 : k \in 1 .. n \/ k = n + 1
    BY <1>5
  <2>. QED  BY <1>5, <2>1, <2>2, <2>3
<1>8. ASSUME NEW v \in Users
      PROVE  upc'[v] = "suspended" <=> \E k \in DOMAIN arrived' : arrived'[k] = v
  <2>1. CASE v = u
    <3>1. upc'[v] = "suspended"
      BY <1>0, <1>1, <2>1
    <3>2. n + 1 \in DOMAIN arrived' /\ arrived'[n + 1] = v
      BY <1>5, <2>1
    <3>. QED  BY <3>1, <3>2
  <2>2. CASE v # u
    <3>1. upc'[v] = upc[v]
      BY <1>0, <1>1, <2>2
    <3>2. (\E k \in DOMAIN arrived : arrived[k] = v) <=> \E k \in DOMAIN arrived' : arrived'[k] = v
      BY <1>5, <2>2
    <3>. QED  BY <1>0, <3>1, <3>2 DEF ListInv
  <2>. QED  BY <2>1, <2>2
<1>9. Len(arrived') = Cardinality(Suspended')
  <2>1. Suspended' = Suspended \cup {u} /\ u \notin Suspended
    BY <1>0, <1>1 DEF Suspended
  <2>2. IsFiniteSet(Suspended)
    BY SharedAssumption, FS_Subset DEF Suspended
  <2>3. Cardinality(Suspended) = n
    BY <1>0 DEF ListInv, n
  <2>. QED  BY <1>5, <2>1, <2>2, <2>3, FS_AddElement
<1>. QED  BY <1>0, <1>1, <1>3, <1>4, <1>5, <1>7, <1>8, <1>9 DEF ListInv

(* The list through the steps of the users.                                *)
LEMMA ListOfUsers ==
  ASSUME ListIInv, NEW u \in Users,
         Copy(u) \/ StartCall(u) \/ UserStep(u) \/ Expire(u) \/ Drop(u)
  PROVE  ListInv'
<1>0. ListInv /\ upc \in [Users -> UserPCs]
  BY DEF ListIInv, IInv, Typed
<1>1. CASE PushAwaiter(u) /\ Goes(u, "suspended")
  <2>1. awaiters' = <<u>> \o awaiters /\ arrived' = Append(arrived, u)
    BY <1>0, <1>1 DEF PushAwaiter, Goes
  <2>. QED  BY <1>1, <2>1, ListPushed
<1>2. CASE ~(PushAwaiter(u) /\ Goes(u, "suspended"))
  <2>1. /\ UNCHANGED <<arrived, resuming, awaiters, fpc>> /\ upc[u] # "suspended"
        /\ \E to \in UserPCs \ {"suspended"} : Goes(u, to)
    <3> USE DEF finishVars, listVars, UserPCs, LeavesWait
    <3>1. CASE Copy(u) \/ StartCall(u) \/ Expire(u) \/ Drop(u)
      BY <3>1 DEF Copy, StartCall, Expire, Drop
    <3>2. CASE WaitStatus(u) \/ CvWake(u) \/ Poll(u) \/ Acquire(u) \/ Sleep(u)
      BY <3>2 DEF WaitStatus, CvWake, Poll, Acquire, Sleep
    <3>3. CASE LoadAwaiters(u) \/ PushAwaiter(u) \/ TakeResult(u)
      BY <1>2, <3>3 DEF LoadAwaiters, PushAwaiter, TakeResult
    <3>. QED  BY <3>1, <3>2, <3>3 DEF UserStep
  <2>2. \A v \in Users : upc'[v] = "suspended" <=> upc[v] = "suspended"
    BY <1>0, <2>1 DEF Goes
  <2>. QED  BY <1>0, <2>1, <2>2, ListUntouched
<1>. QED  BY <1>1, <1>2

-----------------------------------------------------------------------------
(* The counters.                                                           *)

(* Steps that leave the counters alone, and enter no wait_impl.            *)
LEMMA CountersUntouched ==
  ASSUME IInv, CounterInv, UNCHANGED <<permits, epoch, status>>, signals' \in 0 .. 1,
         state' \in {"IDLE", "CONSUMER_SET", "CONSUMER_DONE", "PRODUCER_DONE"},
         context' \in {"IDLE", "SHARED"}, expected' \in [Users -> Users \cup {Nil}],
         Published' => outcome' \in Outcomes,
         \A f \in Finishers : fpc[f] \in FinisherPCs \ {"none", "store"}
            => \/ fpc'[f] = fpc[f]
               \/ fpc[f] \in {"signal", "swap", "resume"} /\ fpc'[f] \in {"swap", "resume", "done"},
         InCvWait' = InCvWait
            \/ (\E u \in Users : Goes(u, "cvWait") /\ status = Idle)
            \/ (\E u \in Users, to \in UserPCs \ {"cvWait"} : Goes(u, to) /\ upc[u] # "cvWait")
  PROVE  CounterInv'
<1>1. epoch >= Cardinality(InCvWait') - Cardinality(Users)
  <2>0. /\ upc \in [Users -> UserPCs] /\ epoch \in Int
        /\ epoch >= Cardinality(InCvWait) - Cardinality(Users)
        /\ status = Idle => epoch >= 0
    BY DEF IInv, Typed, CounterInv
  <2>1. CASE InCvWait' = InCvWait
    BY <2>0, <2>1
  <2>2. ASSUME NEW u \in Users, Goes(u, "cvWait"), status = Idle
        PROVE  epoch >= Cardinality(InCvWait') - Cardinality(Users)
    <3>1. Cardinality(InCvWait') \in Nat /\ Cardinality(InCvWait') <= Cardinality(Users)
      BY <2>0, <2>2, CvWaitMove DEF UserPCs
    <3>. QED  BY <2>0, <2>2, <3>1, CvWaitCount
  <2>3. ASSUME NEW u \in Users, NEW to \in UserPCs \ {"cvWait"}, Goes(u, to), upc[u] # "cvWait"
        PROVE  epoch >= Cardinality(InCvWait') - Cardinality(Users)
    BY <2>0, <2>3, CvWaitMove
  <2>. QED  BY <2>1, <2>2, <2>3
<1>2. /\ permits' \in 0 .. Permits /\ signals' \in 0 .. 1 /\ epoch' \in Int /\ epoch' <= 2
      /\ status' \in Outcomes \cup {Idle}
      /\ status' = Idle => epoch' >= 0
  BY DEF CounterInv
<1>3. /\ permits' # 0 => \E f \in Finishers : fpc'[f] \in {"signal", "swap", "resume", "done"}
      /\ epoch' > 0 => \E f \in Finishers : fpc'[f] \in FinisherPCs \ {"none", "store"}
      /\ epoch' > 1 => \E f \in Finishers : fpc'[f] \in FinisherPCs \ {"none", "store", "notify"}
  BY DEF CounterInv, FinisherPCs
<1>. QED  BY <1>1, <1>2, <1>3 DEF CounterInv

(* A waiter that has been woken counts the epoch down.                     *)
LEMMA EpochDown ==
  ASSUME IInv, CounterInv, NEW u \in Users, CvWake(u)
  PROVE  CounterInv'
<1>1. /\ upc[u] = "cvWait" /\ (status # Idle \/ epoch > 0) /\ epoch' = epoch - 1
      /\ UNCHANGED <<state, context, outcome, ppc, status, permits, signals, fpc, expected>>
  BY DEF CvWake, stateVars, finishVars
<1>2. PICK to \in {"take", "holds"} : Goes(u, to)
  BY DEF CvWake, LeavesWait
<1>3. Cardinality(InCvWait') = Cardinality(InCvWait) - 1
  BY <1>1, <1>2, CvWaitMove DEF UserPCs, IInv, Typed
<1>4. Cardinality(InCvWait) \in Nat /\ Cardinality(Users) \in Nat
  BY CvWaitCount DEF IInv, Typed
<1>5. epoch \in Int /\ epoch >= Cardinality(InCvWait) - Cardinality(Users)
  BY DEF CounterInv
<1>6. epoch' >= Cardinality(InCvWait') - Cardinality(Users)
  BY <1>1, <1>3, <1>4, <1>5
<1>. QED  BY <1>1, <1>5, <1>6 DEF CounterInv, Published

(* OnResultFinished stores the status, notifies and releases.              *)
LEMMA CountersUp ==
  ASSUME IInv, CounterInv, NEW f \in Finishers,
         StoreStatus(f) \/ NotifyAll(f) \/ ReleasePermits(f)
  PROVE  CounterInv'
<1>0. /\ fpc \in [Finishers -> FinisherPCs]
      /\ epoch \in Int /\ permits \in 0 .. Permits /\ Permits \in Nat
      /\ Cardinality(InCvWait) \in Nat /\ Cardinality(Users) \in Nat
      /\ epoch >= Cardinality(InCvWait) - Cardinality(Users)
  BY SharedAssumption, CvWaitCount DEF IInv, Typed, CounterInv
<1>1. /\ UNCHANGED <<state, context, outcome, ppc, signals, expected, upc>>
      /\ fpc[f] \in {"store", "notify", "release"}
  BY DEF StoreStatus, NotifyAll, ReleasePermits, stateVars, userVars
<1>2. Published /\ \A g \in Finishers : g # f => fpc[g] = "none"
  BY <1>0, <1>1 DEF IInv, OneFinisher, Published, Finishers
<1>3. InCvWait' = InCvWait
  BY <1>1 DEF InCvWait
<1>4. Published' = Published
  BY <1>1 DEF Published
<1>5. CASE StoreStatus(f)
  <2>1. /\ status' = outcome /\ epoch' = epoch + 1 /\ UNCHANGED permits /\ fpc[f] = "store"
        /\ fpc'[f] = "notify" /\ \A g \in Finishers : g # f => fpc'[g] = fpc[g]
    BY <1>0, <1>5 DEF StoreStatus, Finisher
  <2>2. epoch <= 0 /\ permits = 0
    BY <1>0, <1>2, <2>1 DEF CounterInv
  <2>3. outcome \in Outcomes /\ outcome # Idle
    BY <1>2, SharedAssumption DEF CounterInv
  <2>. QED  BY <1>0, <1>1, <1>2, <1>3, <1>4, <2>1, <2>2, <2>3 DEF CounterInv, FinisherPCs
<1>6. CASE NotifyAll(f)
  <2>1. /\ epoch' = epoch + 1 /\ UNCHANGED <<permits, status>> /\ fpc[f] = "notify"
        /\ fpc'[f] = "release" /\ \A g \in Finishers : g # f => fpc'[g] = fpc[g]
    BY <1>0, <1>6 DEF NotifyAll, Finisher
  <2>2. epoch <= 1 /\ permits = 0
    BY <1>0, <1>2, <2>1 DEF CounterInv
  <2>3. status = Idle => epoch >= 0
    BY DEF CounterInv
  <2>. QED  BY <1>0, <1>1, <1>2, <1>3, <1>4, <2>1, <2>2, <2>3 DEF CounterInv, FinisherPCs
<1>7. CASE ReleasePermits(f)
  <2>1. /\ permits' = permits + Permits /\ UNCHANGED <<epoch, status>> /\ fpc[f] = "release"
        /\ fpc'[f] \in {"signal", "swap"} /\ \A g \in Finishers : g # f => fpc'[g] = fpc[g]
    BY <1>0, <1>7 DEF ReleasePermits, Finisher
  <2>2. permits = 0
    BY <1>0, <1>2, <2>1 DEF CounterInv
  <2>3. permits' \in 0 .. Permits
    BY <1>0, <2>1, <2>2
  <2>. QED  BY <1>0, <1>1, <1>2, <1>3, <1>4, <2>1, <2>3 DEF CounterInv, FinisherPCs
<1>. QED  BY <1>5, <1>6, <1>7

(* The counters through the steps of the threads that do not wait.         *)
LEMMA CountersOfOthers ==
  ASSUME ListIInv, ProducerStep \/ FinisherStep \/ ShareStep \/ DestructorStep
  PROVE  CounterInv'
<1>0. /\ IInv /\ ListInv /\ CounterInv /\ Maker \in Users
      /\ fpc \in [Finishers -> FinisherPCs]
      /\ upc \in [Users -> UserPCs]
      /\ state \in {"IDLE", "CONSUMER_SET", "CONSUMER_DONE", "PRODUCER_DONE"}
      /\ context \in {"IDLE", "SHARED"} /\ expected \in [Users -> Users \cup {Nil}]
      /\ Published => outcome \in Outcomes
      /\ signals \in 0 .. 1
  BY SharedAssumption DEF ListIInv, IInv, Typed, CounterInv
<1>1. CASE ProducerStep
  <2>1. UNCHANGED <<permits, epoch, status, signals, context, expected, upc>>
    BY <1>1 DEF ProducerStep, CompleteProducer, CopyWeak, LockWeak, ProducerDeletes,
       stateVars, sharedVars, userVars
  <2>2. state' \in {"IDLE", "CONSUMER_SET", "CONSUMER_DONE", "PRODUCER_DONE"}
    BY <1>0, <1>1 DEF ProducerStep, CompleteProducer, CopyWeak, LockWeak, ProducerDeletes, stateVars
  <2>3. Published' => outcome' \in Outcomes
    BY <1>0, <1>1 DEF ProducerStep, CompleteProducer, CopyWeak, LockWeak, ProducerDeletes,
       stateVars, Published
  <2>4. \A f \in Finishers : fpc[f] \notin {"none", "store"} => fpc'[f] = fpc[f]
    <3>1. CASE LockWeak
      <4>1. fpc["producer"] = "none"
        BY <1>0, <3>1 DEF LockWeak, IInv, OneFinisher, Finishers
      <4>. QED  BY <1>0, <3>1, <4>1 DEF LockWeak, Finisher
    <3>. QED  BY <1>1, <3>1 DEF ProducerStep, CompleteProducer, CopyWeak, ProducerDeletes,
                                       finishVars
  <2>5. InCvWait' = InCvWait
    BY <2>1 DEF InCvWait
  <2>. QED  BY <1>0, <2>1, <2>2, <2>3, <2>4, <2>5, CountersUntouched
<1>2. CASE ShareStep
  <2>1. /\ UNCHANGED <<permits, epoch, status, signals, expected, outcome, ppc>>
        /\ state' \in {state, "CONSUMER_SET"} /\ context' \in {context, "SHARED"}
    BY <1>2 DEF ShareStep, ShareLoad, SetSharedContext, RegisterShared, stateVars, sharedVars
  <2>2. Registering
    BY <1>2 DEF ShareStep, ShareLoad, SetSharedContext, RegisterShared, Registering
  <2>3. \A f \in Finishers : fpc[f] # "none" => fpc'[f] = fpc[f]
    <3>1. fpc["maker"] = "none"
      BY <1>0, <2>2 DEF IInv, OneFinisher
    <3>. QED  BY <1>0, <1>2, <3>1 DEF ShareStep, ShareLoad, SetSharedContext, RegisterShared,
                                       Finisher, finishVars
  <2>4. \E to \in {"sharing", "shareSet", "shareCas", "holds"} : Goes(Maker, to)
    BY <1>2 DEF ShareStep, ShareLoad, SetSharedContext, RegisterShared
  <2>5. upc[Maker] # "cvWait" /\ \E to \in UserPCs \ {"cvWait"} : Goes(Maker, to)
    BY <2>2, <2>4 DEF Registering, UserPCs
  <2>6. Published' => outcome' \in Outcomes
    BY <1>0, <2>1 DEF Published
  <2>. QED  BY <1>0, <2>1, <2>3, <2>5, <2>6, CountersUntouched
<1>3. CASE DestructorStep
  <2>1. /\ UNCHANGED <<permits, epoch, status, signals, expected, outcome, ppc, upc, fpc>>
        /\ state' \in {state, "IDLE", "CONSUMER_DONE"} /\ context' \in {context, "IDLE"}
    BY <1>3 DEF DestructorStep, RewindLoad, RewindCas, ClearContext, DropLoad, DropExchange,
       stateVars, sharedVars, userVars, finishVars
  <2>2. InCvWait' = InCvWait /\ (Published' => outcome' \in Outcomes)
    BY <1>0, <2>1 DEF InCvWait, Published
  <2>. QED  BY <1>0, <2>1, <2>2, CountersUntouched
<1>4. ASSUME NEW f \in Finishers, StoreStatus(f) \/ NotifyAll(f) \/ ReleasePermits(f)
      PROVE  CounterInv'
  BY <1>0, <1>4, CountersUp
<1>5. ASSUME NEW f \in Finishers,
             \/ SignalPermit(f) \/ EndSignals(f) \/ SwapAwaiters(f) \/ ResumeAwaiter(f)
             \/ ReturnFromFinished(f)
      PROVE  CounterInv'
  <2>1. UNCHANGED <<permits, epoch, status, state, context, expected, outcome>>
    BY <1>5 DEF SignalPermit, EndSignals, SwapAwaiters, ResumeAwaiter, ReturnFromFinished,
       stateVars, sharedVars, userVars
  <2>a. signals' \in 0 .. 1
    BY <1>0, <1>5 DEF SignalPermit, EndSignals, SwapAwaiters, ResumeAwaiter, ReturnFromFinished,
       sharedVars
  <2>2. \A g \in Finishers : \/ fpc'[g] = fpc[g]
                             \/ /\ fpc[g] \in {"signal", "swap", "resume"}
                                /\ fpc'[g] \in {"swap", "resume", "done"}
    BY <1>0, <1>5 DEF SignalPermit, EndSignals, SwapAwaiters, ResumeAwaiter, ReturnFromFinished,
       Finisher, finishVars
  <2>3. Published' => outcome' \in Outcomes
    <3>1. Published
      BY <1>0, <1>5 DEF IInv, OneFinisher, Published, Finishers,
         SignalPermit, EndSignals, SwapAwaiters, ResumeAwaiter, ReturnFromFinished
    <3>. QED  BY <1>0, <2>1, <3>1
  <2>4. \/ InCvWait' = InCvWait
        \/ \E u \in Users, to \in UserPCs \ {"cvWait"} : Goes(u, to) /\ upc[u] # "cvWait"
    <3>1. CASE SwapAwaiters(f)
      BY <3>1 DEF SwapAwaiters, userVars, InCvWait
    <3>2. CASE ResumeAwaiter(f)
      <4>1. resuming \in Seq(Users) /\ resuming # <<>> /\ Reverse(awaiters) \in Seq(Users)
        BY <1>0, <3>2 DEF ResumeAwaiter, IInv, Typed, Reverse
      <4>2. /\ arrived = resuming \o Reverse(awaiters) /\ arrived \in Seq(Users) /\ arrived # <<>>
            /\ Head(resuming) = arrived[1] /\ Head(resuming) \in Users
        BY <1>0, <4>1, TailOfConcat DEF ListInv
      <4>3. 1 \in DOMAIN arrived
        BY <4>2
      <4>4. upc[Head(resuming)] = "suspended"
        BY <1>0, <4>2, <4>3 DEF ListInv
      <4>5. \E to \in UserPCs \ {"cvWait"} : Goes(Head(resuming), to)
        BY <3>2 DEF ResumeAwaiter, LeavesWait, UserPCs
      <4>. QED  BY <4>2, <4>4, <4>5
    <3>3. CASE ReturnFromFinished(f)
      <4>1. CASE f = "maker"
        <5>1. upc[Maker] = "sharing" /\ Goes(Maker, "holds")
          BY <1>0, <3>3, <4>1 DEF ReturnFromFinished, IInv, OneFinisher
        <5>. QED  BY <1>0, <5>1 DEF UserPCs
      <4>2. CASE f # "maker"
        BY <3>3, <4>2 DEF ReturnFromFinished, InCvWait
      <4>. QED  BY <4>1, <4>2
    <3>4. CASE SignalPermit(f)
      <4>1. UNCHANGED upc \/ \E u \in Users : upc[u] = "asleep" /\ Goes(u, "acquire")
        BY <3>4 DEF SignalPermit, Asleep
      <4>. QED  BY <4>1 DEF InCvWait, UserPCs
    <3>5. CASE EndSignals(f)
      BY <3>5 DEF EndSignals, userVars, InCvWait
    <3>. QED  BY <1>5, <3>1, <3>2, <3>3, <3>4, <3>5
  <2>. QED  BY <1>0, <2>1, <2>a, <2>2, <2>3, <2>4, CountersUntouched
<1>. QED  BY <1>1, <1>2, <1>3, <1>4, <1>5 DEF FinisherStep

(* The counters through the steps of the users.                            *)
LEMMA CountersOfUsers ==
  ASSUME ListIInv, NEW u \in Users,
         Copy(u) \/ StartCall(u) \/ UserStep(u) \/ Expire(u) \/ Drop(u)
  PROVE  CounterInv'
<1>0. /\ IInv /\ CounterInv /\ upc \in [Users -> UserPCs]
      /\ state \in {"IDLE", "CONSUMER_SET", "CONSUMER_DONE", "PRODUCER_DONE"}
      /\ context \in {"IDLE", "SHARED"} /\ expected \in [Users -> Users \cup {Nil}]
      /\ Published => outcome \in Outcomes
      /\ awaiters \in Seq(Users) /\ signals \in 0 .. 1
  BY DEF ListIInv, IInv, Typed, CounterInv
<1>1. CASE CvWake(u)
  BY <1>0, <1>1, EpochDown
<1>2. UNCHANGED <<state, context, outcome, ppc, fpc>>
  <2> USE DEF stateVars, finishVars
  <2>1. CASE Copy(u) \/ StartCall(u) \/ Expire(u) \/ Drop(u)
    BY <2>1 DEF Copy, StartCall, Expire, Drop
  <2>2. CASE WaitStatus(u) \/ CvWake(u) \/ Poll(u) \/ Acquire(u) \/ Sleep(u)
    BY <2>2 DEF WaitStatus, CvWake, Poll, Acquire, Sleep
  <2>3. CASE LoadAwaiters(u) \/ PushAwaiter(u) \/ TakeResult(u)
    BY <2>3 DEF LoadAwaiters, PushAwaiter, TakeResult
  <2>. QED  BY <2>1, <2>2, <2>3 DEF UserStep
<1>3. Published' => outcome' \in Outcomes
  BY <1>0, <1>2 DEF Published
<1>4. CASE Acquire(u)
  <2>1. /\ UNCHANGED <<epoch, status, signals, expected>> /\ permits > 0 /\ permits' = permits - 1
        /\ Goes(u, "poll") /\ upc[u] = "acquire"
    BY <1>4 DEF Acquire
  <2>2. InCvWait' = InCvWait
    BY <1>0, <2>1, CvWaitMove DEF UserPCs
  <2>3. permits' \in 0 .. Permits /\ permits # 0
    BY <1>0, <2>1, SharedAssumption DEF CounterInv
  <2>. QED  BY <1>0, <1>2, <1>3, <2>1, <2>2, <2>3 DEF CounterInv
<1>5. CASE ~CvWake(u) /\ ~Acquire(u)
  <2>1. UNCHANGED <<epoch, status, permits, signals>>
    <3> USE DEF sharedVars
    <3>1. CASE Copy(u) \/ StartCall(u) \/ Expire(u) \/ Drop(u)
      BY <3>1 DEF Copy, StartCall, Expire, Drop
    <3>2. CASE \/ WaitStatus(u) \/ Poll(u) \/ Sleep(u) \/ LoadAwaiters(u) \/ PushAwaiter(u)
               \/ TakeResult(u)
      BY <3>2 DEF WaitStatus, Poll, Sleep, LoadAwaiters, PushAwaiter, TakeResult
    <3>. QED  BY <1>5, <3>1, <3>2 DEF UserStep
  <2>2. expected' \in [Users -> Users \cup {Nil}]
    <3>1. First(awaiters) \in Users \cup {Nil}
      BY <1>0 DEF First
    <3>2. CASE LoadAwaiters(u) \/ PushAwaiter(u)
      BY <1>0, <3>1, <3>2 DEF LoadAwaiters, PushAwaiter
    <3>3. CASE ~(LoadAwaiters(u) \/ PushAwaiter(u))
      BY <1>0, <1>5, <3>3 DEF UserStep, Copy, StartCall, Expire, Drop, WaitStatus, Poll, Sleep,
         TakeResult
    <3>. QED  BY <3>2, <3>3
  <2>3. \/ Goes(u, "cvWait") /\ status = Idle
        \/ \E to \in UserPCs \ {"cvWait"} : Goes(u, to) /\ upc[u] # "cvWait"
    <3> USE DEF UserPCs, LeavesWait
    <3>1. CASE Copy(u) \/ StartCall(u) \/ Expire(u) \/ Drop(u)
      BY <3>1 DEF Copy, StartCall, Expire, Drop
    <3>2. CASE WaitStatus(u)
      BY <3>2 DEF WaitStatus
    <3>3. CASE Poll(u) \/ Sleep(u) \/ LoadAwaiters(u) \/ PushAwaiter(u) \/ TakeResult(u)
      BY <3>3 DEF Poll, Sleep, LoadAwaiters, PushAwaiter, TakeResult
    <3>. QED  BY <1>5, <3>1, <3>2, <3>3 DEF UserStep
  <2>. QED  BY <1>0, <1>2, <1>3, <2>1, <2>2, <2>3, CountersUntouched
<1>. QED  BY <1>1, <1>4, <1>5

LEMMA ListInvariance == Spec => []ListIInv
<1>1. ASSUME ListIInv, [Next]_vars PROVE ListIInv'
  <2>0. IInv'
    BY <1>1, StepIInv DEF ListIInv
  <2>1. CASE ProducerStep \/ FinisherStep \/ ShareStep \/ DestructorStep
    <3>1. CounterInv'
      BY <1>1, <2>1, CountersOfOthers
    <3>2. ListInv'
      BY <1>1, <2>1, ListOfOthers, ListSwapped, ListResumed DEF FinisherStep
    <3>. QED  BY <2>0, <3>1, <3>2 DEF ListIInv
  <2>2. CASE \E u \in Users : Copy(u) \/ StartCall(u) \/ UserStep(u) \/ Expire(u) \/ Drop(u)
    BY <1>1, <2>0, <2>2, ListOfUsers, CountersOfUsers DEF ListIInv
  <2>3. CASE Terminated \/ UNCHANGED vars
    <3>1. UNCHANGED <<state, context, outcome, deletes, ppc, status, epoch, permits, signals,
                      awaiters, ready, fpc, resuming, upc, expected, arrived, dpc>>
      BY <2>3 DEF Terminated, vars, stateVars, sharedVars, listVars, finishVars, userVars
    <3>2. ListInv'
      BY <1>1, <3>1, ListUntouched DEF ListIInv
    <3>3. CounterInv'
      <4>1. InCvWait' = InCvWait /\ Published' = Published
        BY <3>1 DEF InCvWait, Published
      <4>. QED  BY <1>1, <3>1, <4>1 DEF ListIInv, CounterInv
    <3>. QED  BY <2>0, <3>2, <3>3 DEF ListIInv
  <2>. QED  BY <1>1, <2>1, <2>2, <2>3 DEF Next
<1>. QED  BY <1>1, ListInit, PTL DEF Spec

(* The compare-exchange list of CYSharedResultStateBase::await forgets no  *)
(* awaiter, holds none twice, and resumes them in the order in which they  *)
(* suspended; and the semaphore and the epoch keep within their bounds.    *)
THEOREM AwaitersListed == Spec => []ListHoldsSuspended
<1>1. ASSUME ListIInv PROVE ListHoldsSuspended
  <2>0. IInv /\ ListInv /\ CounterInv
    BY <1>1 DEF ListIInv
  <2>1. TypeOK
    <3>1. deletes \in 0 .. 1
      BY <2>0 DEF IInv, StateWord
    <3>2. epoch \in 0 - Cardinality(Users) .. 2
      BY <2>0, CvWaitCount DEF IInv, Typed, CounterInv
    <3>3. ready \in BOOLEAN
      BY <2>0 DEF IInv, Typed
    <3>. QED  BY <2>0, <3>1, <3>2, <3>3 DEF IInv, Typed, ListInv, CounterInv, TypeOK
  <2>2. ToSet(arrived) = Suspended
    <3>1. \A u \in Users : u \in ToSet(arrived) <=> \E k \in DOMAIN arrived : arrived[k] = u
      BY DEF ToSet
    <3>2. \A u \in Users : u \in Suspended <=> upc[u] = "suspended"
      BY DEF Suspended
    <3>3. \A u \in Users : upc[u] = "suspended" <=> \E k \in DOMAIN arrived : arrived[k] = u
      BY <2>0 DEF ListInv
    <3>4. arrived \in Seq(Users)
      BY <2>0 DEF ListInv
    <3>5. ToSet(arrived) \subseteq Users
      BY <3>4 DEF ToSet
    <3>6. Suspended \subseteq Users
      BY DEF Suspended
    <3>. QED  BY <3>1, <3>2, <3>3, <3>5, <3>6
  <2>. QED  BY <2>0, <2>1, <2>2 DEF ListInv, ListHoldsSuspended, Suspended
<1>. QED  BY <1>1, ListInvariance, PTL
=============================================================================
