--------------------------- MODULE AsyncLockProofs ---------------------------
(***************************************************************************)
(* Mutual exclusion, the list of awaiters and the absence of stranded      *)
(* awaiters, for any set of coroutines and any executors; and, in the      *)
(* second part, the same and the lists of the condition for coroutines     *)
(* that also use a condition with the lock.                                *)
(***************************************************************************)
EXTENDS AsyncCondition, TLAPS

(* The three safety properties are inductive together with the types.      *)
IInv == TypeOK /\ MutualExclusion /\ ListHoldsSuspended /\ NoStrandedAwaiter

(* The steps at which a coroutine hands on the lock.                       *)
LEMMA RetryFirstKeepsList ==
  ASSUME NEW c \in Coroutines, NEW next \in {"unlocking", "throwing"},
         TypeOK, ListHoldsSuspended, pc[c] \in {"inside", "interrupted"},
         RetryFirst(c, next), locked' = FALSE
  PROVE  /\ pc' \in [Coroutines -> PCs]
         /\ awaiters' \in Seq(Coroutines)
         /\ inUnLock' \in [Coroutines -> Coroutines \cup {Nobody}]
         /\ \A d \in Coroutines : d # c => pc'[d] = pc[d] \/ (pc[d] = "suspended" /\ pc'[d] = "try")
         /\ pc'[c] = next
         /\ ListHoldsSuspended'
         /\ NoStrandedAwaiter'
<1>1. CASE awaiters = <<>>
  BY <1>1 DEF TypeOK, ListHoldsSuspended, NoStrandedAwaiter, RetryFirst, Goes, PCs
<1>2. CASE awaiters # <<>>
  <2> DEFINE h == Head(awaiters)
  <2>1. /\ awaiters \in Seq(Coroutines) /\ Len(awaiters) \in Nat /\ Len(awaiters) > 0
        /\ h = awaiters[1] /\ 1 \in DOMAIN awaiters
        /\ h \in Coroutines
    BY <1>2 DEF TypeOK
  <2>2. pc[h] = "suspended" /\ h # c
    BY <2>1 DEF ListHoldsSuspended
  <2>3. /\ awaiters' = Tail(awaiters)
        /\ pc' = [pc EXCEPT ![c] = next, ![h] = "try"]
        /\ inUnLock' = [inUnLock EXCEPT ![h] = c]
    BY <1>2 DEF RetryFirst
  <2>4. /\ pc' \in [Coroutines -> PCs] /\ pc'[h] = "try" /\ pc'[c] = next
        /\ \A d \in Coroutines : d # c /\ d # h => pc'[d] = pc[d]
    BY <2>1, <2>2, <2>3 DEF TypeOK, PCs
  <2>5. /\ awaiters' \in Seq(Coroutines)
        /\ inUnLock' \in [Coroutines -> Coroutines \cup {Nobody}]
    BY <2>1, <2>3 DEF TypeOK
  <2>6. /\ DOMAIN awaiters' = 1 .. Len(awaiters) - 1
        /\ \A k \in DOMAIN awaiters' : k + 1 \in DOMAIN awaiters /\ awaiters'[k] = awaiters[k + 1]
        /\ \A k \in DOMAIN awaiters : k # 1 => k - 1 \in DOMAIN awaiters' /\ awaiters'[k - 1] = awaiters[k]
    BY <2>1, <2>3
  <2>7. \A j, k \in DOMAIN awaiters' : awaiters'[j] = awaiters'[k] => j = k
    BY <2>1, <2>6 DEF ListHoldsSuspended
  <2>8. ASSUME NEW d \in Coroutines
        PROVE  pc'[d] = "suspended" <=> \E k \in DOMAIN awaiters' : awaiters'[k] = d
    <3>1. CASE d = h
      <4>1. \A k \in DOMAIN awaiters' : awaiters'[k] # h
        BY <2>1, <2>6 DEF ListHoldsSuspended
      <4>. QED  BY <3>1, <4>1, <2>4
    <3>2. CASE d = c
      <4>1. \A k \in DOMAIN awaiters' : awaiters'[k] # c
        BY <2>6 DEF ListHoldsSuspended
      <4>. QED  BY <3>2, <4>1, <2>4
    <3>3. CASE d # h /\ d # c
      <4>1. pc'[d] = pc[d]
        BY <3>3, <2>4
      <4>2. pc[d] = "suspended" <=> \E k \in DOMAIN awaiters : awaiters[k] = d
        BY DEF ListHoldsSuspended
      <4>3. (\E k \in DOMAIN awaiters : awaiters[k] = d)
              <=> \E k \in DOMAIN awaiters' : awaiters'[k] = d
        BY <3>3, <2>1, <2>6
      <4>. QED  BY <4>1, <4>2, <4>3
    <3>. QED  BY <3>1, <3>2, <3>3
  <2>. QED  BY <2>2, <2>4, <2>1, <2>5, <2>7, <2>8 DEF ListHoldsSuspended, NoStrandedAwaiter
<1>. QED  BY <1>1, <1>2

LEMMA InitIInv == Init => IInv
<1> SUFFICES ASSUME Init PROVE IInv
  OBVIOUS
<1>1. TypeOK
  <2>1. calls \in [Coroutines -> 0 .. MaxCalls]
    BY AsyncLockAssumption DEF Init
  <2>2. awaiters \in Seq(Coroutines)
    BY DEF Init
  <2>3. /\ owns \in [Coroutines -> BOOLEAN] /\ waited \in [Coroutines -> BOOLEAN]
        /\ locked \in BOOLEAN
    BY DEF Init
  <2>4. /\ pc \in [Coroutines -> PCs]
        /\ inUnLock \in [Coroutines -> Coroutines \cup {Nobody}]
    BY DEF Init, PCs
  <2>5. \A c \in Coroutines : owns[c] <=> pc[c] \in {"inside", "unlocking"}
    BY DEF Init
  <2>. QED  BY <2>1, <2>2, <2>3, <2>4, <2>5 DEF TypeOK
<1>2. MutualExclusion
  BY DEF Init, MutualExclusion, Holds
<1>3. ListHoldsSuspended
  <2>1. DOMAIN awaiters = {}
    BY DEF Init
  <2>. QED  BY <2>1 DEF Init, ListHoldsSuspended
<1>4. NoStrandedAwaiter
  BY DEF Init, NoStrandedAwaiter
<1>. QED  BY <1>1, <1>2, <1>3, <1>4 DEF IInv

LEMMA TryToLockIInv ==
  ASSUME NEW c \in Coroutines, IInv, TryToLock(c)
  PROVE  IInv'
<1> USE DEF IInv, TryToLock
<1>1. CASE ~locked
  <2>1. /\ locked' = TRUE /\ UNCHANGED <<awaiters, waited, inUnLock, calls>>
        /\ pc' = [pc EXCEPT ![c] = IF waited[c] THEN "resumeOn" ELSE "inside"]
        /\ owns' = [owns EXCEPT ![c] = ~waited[c]]
    BY <1>1 DEF TypeOK, Goes
  <2>2. /\ pc' \in [Coroutines -> PCs]
        /\ pc'[c] = IF waited[c] THEN "resumeOn" ELSE "inside"
        /\ \A d \in Coroutines : d # c => pc'[d] = pc[d]
    BY <2>1 DEF TypeOK, PCs
  <2>3. TypeOK'
    BY <2>1, <2>2 DEF TypeOK
  <2>4. MutualExclusion'
    BY <1>1, <2>1, <2>2 DEF MutualExclusion, Holds
  <2>5. ListHoldsSuspended'
    BY <2>1, <2>2 DEF ListHoldsSuspended
  <2>. QED  BY <2>1, <2>3, <2>4, <2>5 DEF NoStrandedAwaiter
<1>2. CASE locked
  <2>1. /\ awaiters' = Append(awaiters, c) /\ UNCHANGED <<locked, owns, calls>>
        /\ pc' = [pc EXCEPT ![c] = "suspended"]
        /\ waited' = [waited EXCEPT ![c] = TRUE]
        /\ inUnLock' = [inUnLock EXCEPT ![c] = Nobody]
    BY <1>2 DEF TypeOK, Goes
  <2>2. /\ pc' \in [Coroutines -> PCs] /\ pc'[c] = "suspended"
        /\ \A d \in Coroutines : d # c => pc'[d] = pc[d]
    BY <2>1 DEF TypeOK, PCs
  <2>3. /\ awaiters' \in Seq(Coroutines) /\ Len(awaiters) \in Nat
        /\ DOMAIN awaiters = 1 .. Len(awaiters)
        /\ DOMAIN awaiters' = 1 .. Len(awaiters) + 1
        /\ awaiters'[Len(awaiters) + 1] = c
        /\ \A k \in DOMAIN awaiters : awaiters'[k] = awaiters[k]
    BY <2>1 DEF TypeOK
  <2>4. TypeOK'
    BY <2>1, <2>2, <2>3 DEF TypeOK
  <2>5. MutualExclusion'
    BY <2>1, <2>2 DEF MutualExclusion, Holds
  <2>6. ListHoldsSuspended'
    <3>1. \A k \in DOMAIN awaiters : awaiters[k] # c
      BY DEF ListHoldsSuspended
    <3>2. \A j, k \in DOMAIN awaiters' : awaiters'[j] = awaiters'[k] => j = k
      BY <3>1, <2>3 DEF ListHoldsSuspended
    <3>3. ASSUME NEW d \in Coroutines
          PROVE  pc'[d] = "suspended" <=> \E k \in DOMAIN awaiters' : awaiters'[k] = d
      <4>1. CASE d = c
        BY <4>1, <2>2, <2>3
      <4>2. CASE d # c
        BY <4>2, <2>2, <2>3 DEF ListHoldsSuspended
      <4>. QED  BY <4>1, <4>2
    <3>. QED  BY <3>2, <3>3 DEF ListHoldsSuspended
  <2>. QED  BY <1>2, <2>1, <2>4, <2>5, <2>6 DEF NoStrandedAwaiter
<1>. QED  BY <1>1, <1>2 DEF TypeOK

(* GiveUp and UnLock.                                                      *)
LEMMA HandOnIInv ==
  ASSUME NEW c \in Coroutines, NEW next \in {"unlocking", "throwing"}, IInv,
         pc[c] = IF next = "unlocking" THEN "inside" ELSE "interrupted",
         RetryFirst(c, next), locked' = FALSE, UNCHANGED <<waited, owns, calls>>
  PROVE  IInv'
<1>1. /\ pc' \in [Coroutines -> PCs]
      /\ awaiters' \in Seq(Coroutines)
      /\ inUnLock' \in [Coroutines -> Coroutines \cup {Nobody}]
      /\ \A d \in Coroutines : d # c => pc'[d] = pc[d] \/ (pc[d] = "suspended" /\ pc'[d] = "try")
      /\ pc'[c] = next
      /\ ListHoldsSuspended'
      /\ NoStrandedAwaiter'
  BY RetryFirstKeepsList DEF IInv
<1>2. \A d \in Coroutines : owns'[d] <=> pc'[d] \in {"inside", "unlocking"}
  <2>1. \A d \in Coroutines : owns[d] <=> pc[d] \in {"inside", "unlocking"}
    BY DEF IInv, TypeOK
  <2>. QED  BY <1>1, <2>1
<1>3. TypeOK'
  BY <1>1, <1>2 DEF IInv, TypeOK
<1>4. MutualExclusion'
  <2>1. \A d \in Coroutines : ~Holds(d)'
    BY <1>1 DEF IInv, MutualExclusion, Holds
  <2>. QED  BY <2>1 DEF MutualExclusion
<1>. QED  BY <1>1, <1>3, <1>4 DEF IInv

(* A step that moves c alone, neither into nor out of the list, and keeps  *)
(* or does not keep the lock consistently.                                 *)
LEMMA MoveIInv ==
  ASSUME NEW c \in Coroutines, NEW to \in PCs \ {"suspended"}, IInv,
         Goes(c, to), pc[c] # "suspended", pc[c] # "try",
         UNCHANGED awaiters, TypeOK',
         \/ Holds(c) /\ to \in {"posted", "interrupted", "inside"} /\ UNCHANGED locked
         \/ ~Holds(c) /\ to \in {"outside", "try"} /\ UNCHANGED locked
         \/ ~Holds(c) /\ to = "inside" /\ locked = FALSE /\ locked' = TRUE
  PROVE  IInv'
<1>1. /\ pc'[c] = to
      /\ \A d \in Coroutines : d # c => pc'[d] = pc[d]
  BY DEF IInv, TypeOK, Goes
<1>2. MutualExclusion'
  BY <1>1 DEF IInv, MutualExclusion, Holds
<1>3. ListHoldsSuspended'
  BY <1>1 DEF IInv, ListHoldsSuspended
<1>4. NoStrandedAwaiter'
  BY <1>1 DEF IInv, NoStrandedAwaiter, TypeOK
<1>. QED  BY <1>2, <1>3, <1>4 DEF IInv

LEMMA NextIInv == IInv /\ [Next]_vars => IInv'
<1> SUFFICES ASSUME IInv, [Next]_vars PROVE IInv'
  OBVIOUS
<1>1. ASSUME NEW c \in Coroutines, Lock(c) PROVE IInv'
  <2>1. TypeOK'
    BY <1>1, AsyncLockAssumption DEF IInv, TypeOK, Lock, Goes, PCs
  <2>. QED  BY <1>1, <2>1, MoveIInv DEF Lock, Holds, PCs
<1>2. ASSUME NEW c \in Coroutines, TryLock(c) PROVE IInv'
  <2>1. calls' \in [Coroutines -> 0 .. MaxCalls]
    BY <1>2, AsyncLockAssumption DEF IInv, TypeOK, TryLock
  <2>2. CASE locked
    <3>1. UNCHANGED <<locked, awaiters, pc, owns, waited, inUnLock>>
      BY <1>2, <2>2 DEF TryLock, IInv, TypeOK
    <3>. QED  BY <2>1, <3>1 DEF IInv, TypeOK, MutualExclusion, ListHoldsSuspended,
                                NoStrandedAwaiter, Holds
  <2>3. CASE ~locked
    <3>1. /\ Goes(c, "inside") /\ owns' = [owns EXCEPT ![c] = TRUE] /\ locked' = TRUE
          /\ UNCHANGED <<awaiters, waited, inUnLock>> /\ pc[c] = "outside"
      BY <1>2, <2>3 DEF TryLock
    <3>2. TypeOK'
      BY <2>1, <3>1 DEF IInv, TypeOK, Goes, PCs
    <3>3. locked = FALSE
      BY <2>3 DEF IInv, TypeOK
    <3>. QED  BY <3>1, <3>2, <3>3, MoveIInv DEF Holds, PCs
  <2>. QED  BY <2>2, <2>3
<1>3. ASSUME NEW c \in Coroutines, TryToLock(c) PROVE IInv'
  BY <1>3, TryToLockIInv
<1>4. ASSUME NEW c \in Coroutines, ResumeOn(c) PROVE IInv'
  <2>1. TypeOK'
    BY <1>4 DEF IInv, TypeOK, ResumeOn, Goes, PCs
  <2>. QED  BY <1>4, <2>1, MoveIInv DEF ResumeOn, Holds, PCs
<1>5. ASSUME NEW c \in Coroutines, Resumed(c) PROVE IInv'
  <2>1. TypeOK'
    BY <1>5 DEF IInv, TypeOK, Resumed, Goes, PCs
  <2>. QED  BY <1>5, <2>1, MoveIInv DEF Resumed, Holds, PCs
<1>6. ASSUME NEW c \in Coroutines, GiveUp(c) PROVE IInv'
  BY <1>6, HandOnIInv DEF GiveUp
<1>7. ASSUME NEW c \in Coroutines, UnLock(c) PROVE IInv'
  BY <1>7, HandOnIInv DEF UnLock
<1>8. ASSUME NEW c \in Coroutines, Return(c) PROVE IInv'
  <2>1. TypeOK'
    BY <1>8 DEF IInv, TypeOK, Return, Goes, PCs
  <2>. QED  BY <1>8, <2>1, MoveIInv DEF Return, Holds, PCs
<1>9. ASSUME NEW c \in Coroutines, Suspend(c) PROVE IInv'
  <2>1. TypeOK'
    BY <1>9 DEF IInv, TypeOK, Suspend
  <2>. QED  BY <1>9, <2>1 DEF Suspend, IInv, MutualExclusion, ListHoldsSuspended,
                              NoStrandedAwaiter, Holds
<1>10. CASE UNCHANGED vars
  BY <1>10 DEF vars, IInv, TypeOK, MutualExclusion, ListHoldsSuspended, NoStrandedAwaiter, Holds
<1>. QED  BY <1>1, <1>2, <1>3, <1>4, <1>5, <1>6, <1>7, <1>8, <1>9, <1>10 DEF Next, Step, Quiet

(* The state variables keep their types, and m_bOwns of a scoped lock is   *)
(* set exactly from the moment its coroutine is inside until UnLock        *)
(* returns to it.                                                          *)
THEOREM TypeCorrect == Spec => []TypeOK
<1>1. IInv => TypeOK  BY DEF IInv
<1>. QED  BY <1>1, InitIInv, NextIInv, PTL DEF Spec

(* CAsyncLock keeps coroutines apart, whatever their number, also when an  *)
(* executor refuses the coroutine that has just won the lock.              *)
THEOREM LockExclusion == Spec => []MutualExclusion
<1>1. IInv => MutualExclusion  BY DEF IInv
<1>. QED  BY <1>1, InitIInv, NextIInv, PTL DEF Spec

(* The list of awaiters is the set of suspended coroutines.                *)
THEOREM AwaitersListed == Spec => []ListHoldsSuspended
<1>1. IInv => ListHoldsSuspended  BY DEF IInv
<1>. QED  BY <1>1, InitIInv, NextIInv, PTL DEF Spec

(* UnLock and the handler of LockImpl never leave awaiters on a free lock  *)
(* with nobody on the way to it.                                           *)
THEOREM AwaitersNotStranded == Spec => []NoStrandedAwaiter
<1>1. IInv => NoStrandedAwaiter  BY DEF IInv
<1>. QED  BY <1>1, InitIInv, NextIInv, PTL DEF Spec

-----------------------------------------------------------------------------
(* The condition on top of the lock.                                       *)

(* No coroutine is in a list twice.                                        *)
Distinct(list) == \A j, k \in DOMAIN list : list[j] = list[k] => j = k

(* A coroutine that is in a call of the condition does not move in the     *)
(* lock, but for the UnLock that the condition calls.                      *)
PlaceInLock ==
  \A c \in Coroutines :
    /\ cpc[c] = "unlocking" => pc[c] = "unlocking"
    /\ cpc[c] \in {"waiting", "resumeOn", "posted"} => pc[c] = "outside"

(* Whoever waits is in one list, once; whoever does not is in none.        *)
ListsHoldWaiting ==
  /\ Distinct(waiters)
  /\ \A d \in Coroutines : Distinct(resuming[d])
  /\ \A c, d \in Coroutines : ~(Listed(c, waiters) /\ Listed(c, resuming[d]))
  /\ \A c, d, e \in Coroutines : Listed(c, resuming[d]) /\ Listed(c, resuming[e]) => d = e
  /\ \A c \in Coroutines :
       cpc[c] = "waiting" <=> Listed(c, waiters) \/ \E d \in Coroutines : Listed(c, resuming[d])

(* Nobody waits, or is about to, when the flag is set and the notification *)
(* given: Await asks for the flag, and m_lock covers what follows.         *)
NobodyLate == ready /\ announcer = Nobody => waiters = <<>> /\ MutexFree

CondIInv == IInv /\ CondTypeOK /\ PlaceInLock /\ ListsHoldWaiting /\ NobodyLate

(* A list without its head.                                                *)
LEMMA TailOfDistinct ==
  ASSUME NEW list \in Seq(Coroutines), list # <<>>, Distinct(list)
  PROVE  /\ Head(list) \in Coroutines /\ Tail(list) \in Seq(Coroutines)
         /\ Distinct(Tail(list))
         /\ \A c : Listed(c, Tail(list)) <=> Listed(c, list) /\ c # Head(list)
         /\ Listed(Head(list), list)
<1>1. /\ Len(list) \in Nat /\ Len(list) > 0 /\ DOMAIN list = 1 .. Len(list)
      /\ Head(list) = list[1] /\ 1 \in DOMAIN list
      /\ Tail(list) \in Seq(Coroutines) /\ list[1] \in Coroutines
  OBVIOUS
<1>2. /\ DOMAIN Tail(list) = 1 .. Len(list) - 1
      /\ \A k \in DOMAIN Tail(list) : k + 1 \in DOMAIN list /\ Tail(list)[k] = list[k + 1]
      /\ \A k \in DOMAIN list : k # 1 => k - 1 \in DOMAIN Tail(list) /\ Tail(list)[k - 1] = list[k]
  BY <1>1
<1>3. Distinct(Tail(list))
  BY <1>1, <1>2 DEF Distinct
<1>4. ASSUME NEW c PROVE Listed(c, Tail(list)) <=> Listed(c, list) /\ c # Head(list)
  <2>1. ASSUME Listed(c, Tail(list)) PROVE Listed(c, list) /\ c # Head(list)
    <3>1. PICK k \in DOMAIN Tail(list) : Tail(list)[k] = c
      BY <2>1 DEF Listed
    <3>2. k + 1 \in DOMAIN list /\ list[k + 1] = c /\ k + 1 # 1
      BY <3>1, <1>2
    <3>. QED  BY <3>2, <1>1 DEF Distinct, Listed
  <2>2. ASSUME Listed(c, list), c # Head(list) PROVE Listed(c, Tail(list))
    BY <2>2, <1>1, <1>2 DEF Listed
  <2>. QED  BY <2>1, <2>2
<1>5. Listed(Head(list), list)
  BY <1>1 DEF Listed
<1>. QED  BY <1>1, <1>3, <1>4, <1>5

(* A list with one coroutine more.                                         *)
LEMMA AppendToDistinct ==
  ASSUME NEW list \in Seq(Coroutines), NEW c \in Coroutines, ~Listed(c, list), Distinct(list)
  PROVE  /\ Append(list, c) \in Seq(Coroutines)
         /\ Distinct(Append(list, c))
         /\ \A d : Listed(d, Append(list, c)) <=> Listed(d, list) \/ d = c
<1>1. /\ Len(list) \in Nat /\ DOMAIN list = 1 .. Len(list)
      /\ DOMAIN Append(list, c) = 1 .. Len(list) + 1
      /\ Append(list, c)[Len(list) + 1] = c
      /\ \A k \in DOMAIN list : Append(list, c)[k] = list[k]
      /\ Append(list, c) \in Seq(Coroutines)
  OBVIOUS
<1>2. Distinct(Append(list, c))
  BY <1>1 DEF Distinct, Listed
<1>3. ASSUME NEW d PROVE Listed(d, Append(list, c)) <=> Listed(d, list) \/ d = c
  BY <1>1 DEF Listed
<1>. QED  BY <1>1, <1>2, <1>3

(* An empty list and a list of one.                                        *)
LEMMA ShortLists ==
  /\ \A c : ~Listed(c, <<>>)
  /\ Distinct(<<>>) /\ <<>> \in Seq(Coroutines)
  /\ \A c \in Coroutines : /\ <<c>> \in Seq(Coroutines) /\ Distinct(<<c>>)
                           /\ \A d : Listed(d, <<c>>) <=> d = c
BY DEF Listed, Distinct

(* Steps that change no list.                                              *)
LEMMA SameLists ==
  ASSUME ListsHoldWaiting, UNCHANGED <<waiters, resuming>>,
         \A d \in Coroutines : cpc'[d] = "waiting" <=> cpc[d] = "waiting"
  PROVE  ListsHoldWaiting'
BY DEF ListsHoldWaiting

LEMMA CondInitIInv == CondInit => CondIInv
<1> SUFFICES ASSUME CondInit PROVE CondIInv
  OBVIOUS
<1>1. IInv
  BY InitIInv DEF CondInit
<1>2. CondTypeOK
  BY <1>1, ShortLists DEF CondInit, CondTypeOK, IInv
<1>3. PlaceInLock
  BY DEF CondInit, PlaceInLock
<1>4. ListsHoldWaiting
  BY ShortLists DEF CondInit, ListsHoldWaiting
<1>5. NobodyLate
  BY DEF CondInit, NobodyLate
<1>. QED  BY <1>1, <1>2, <1>3, <1>4, <1>5 DEF CondIInv

(* The steps of the lock move only the coroutine that takes them and the   *)
(* one that is resumed, which had suspended.                               *)
LEMMA LockMoves ==
  ASSUME NEW c \in Coroutines, IInv,
         Step(c) \/ Lock(c) \/ TryLock(c) \/ Suspend(c)
  PROVE  /\ IInv'
         /\ \A d \in Coroutines : d # c /\ pc[d] # "suspended" => pc'[d] = pc[d]
<1>1. IInv'
  BY NextIInv DEF Next
<1>2. pc \in [Coroutines -> PCs]
  BY DEF IInv, TypeOK
<1>3. ASSUME NEW next, RetryFirst(c, next)
      PROVE  \A d \in Coroutines : d # c /\ pc[d] # "suspended" => pc'[d] = pc[d]
  <2>1. CASE awaiters = <<>>
    BY <1>2, <1>3, <2>1 DEF RetryFirst, Goes
  <2>2. CASE awaiters # <<>>
    <3>1. awaiters \in Seq(Coroutines) /\ Head(awaiters) \in Coroutines
          /\ 1 \in DOMAIN awaiters /\ Head(awaiters) = awaiters[1]
      BY <2>2 DEF IInv, TypeOK
    <3>2. pc[Head(awaiters)] = "suspended"
      BY <3>1 DEF IInv, ListHoldsSuspended
    <3>3. pc' = [pc EXCEPT ![c] = next, ![Head(awaiters)] = "try"]
      BY <1>3, <2>2 DEF RetryFirst
    <3>. QED  BY <1>2, <3>1, <3>2, <3>3
  <2>. QED  BY <2>1, <2>2
<1>4. CASE GiveUp(c) \/ UnLock(c)
  BY <1>1, <1>3, <1>4 DEF GiveUp, UnLock
<1>5. CASE ~(GiveUp(c) \/ UnLock(c))
  BY <1>1, <1>2, <1>5 DEF Step, Lock, TryLock, Suspend, TryToLock, ResumeOn, Resumed, Return, Goes
<1>. QED  BY <1>4, <1>5

LEMMA CondNextIInv == CondIInv /\ [CondNext]_allVars => CondIInv'
<1> SUFFICES ASSUME CondIInv, [CondNext]_allVars PROVE CondIInv'
  OBVIOUS
<1>0. /\ IInv /\ CondTypeOK /\ PlaceInLock /\ ListsHoldWaiting /\ NobodyLate
      /\ waiters \in Seq(Coroutines)
      /\ cpc \in [Coroutines -> {"none", "unlocking", "waiting", "resumeOn", "posted"}]
      /\ resuming \in [Coroutines -> Seq(Coroutines)]
      /\ ready \in BOOLEAN /\ announcer \in Coroutines \cup {Nobody}
      /\ pc \in [Coroutines -> PCs]
  BY DEF CondIInv, CondTypeOK, TypeOK
(* The lock alone.                                                         *)
<1>1. ASSUME NEW c \in Coroutines, Free(c), UNCHANGED condVars,
             Step(c) \/ Lock(c) \/ TryLock(c) \/ Suspend(c)
      PROVE  CondIInv'
  <2>1. /\ IInv'
        /\ \A d \in Coroutines : d # c /\ pc[d] # "suspended" => pc'[d] = pc[d]
    BY <1>0, <1>1, LockMoves
  <2>2. UNCHANGED <<waiters, cpc, resuming, ready, announcer>>
    BY <1>1 DEF condVars
  <2>3. CondTypeOK'
    BY <1>0, <2>1, <2>2 DEF IInv, CondTypeOK
  <2>4. PlaceInLock'
    BY <1>0, <1>1, <2>1, <2>2 DEF PlaceInLock, Free
  <2>5. ListsHoldWaiting'
    BY <1>0, <2>2 DEF ListsHoldWaiting, Listed, Distinct
  <2>6. NobodyLate'
    BY <1>0, <2>2 DEF NobodyLate, MutexFree
  <2>. QED  BY <2>1, <2>3, <2>4, <2>5, <2>6 DEF CondIInv
<1>2. ASSUME NEW c \in Coroutines, Await(c) PROVE CondIInv'
  <2>1. /\ IInv'
        /\ \A d \in Coroutines : d # c /\ pc[d] # "suspended" => pc'[d] = pc[d]
    BY <1>0, <1>2, LockMoves DEF Await, Step
  <2>2. /\ UNCHANGED <<waiters, resuming, ready, announcer>> /\ cpc[c] = "none" /\ ~ready
        /\ cpc' = [cpc EXCEPT ![c] = "unlocking"]
    BY <1>2 DEF Await, Free
  <2>3. pc'[c] = "unlocking"
    <3>1. pc[c] = "inside" /\ RetryFirst(c, "unlocking")
      BY <1>2 DEF Await, UnLock
    <3>2. locked' = FALSE /\ TypeOK /\ ListHoldsSuspended
      BY <1>0, <1>2 DEF Await, UnLock, IInv
    <3>. QED  BY <3>1, <3>2, RetryFirstKeepsList
  <2>4. CondTypeOK'
    BY <1>0, <2>1, <2>2 DEF IInv, CondTypeOK
  <2>5. PlaceInLock'
    BY <1>0, <2>1, <2>2, <2>3 DEF PlaceInLock
  <2>6. \A d \in Coroutines : cpc'[d] = "waiting" <=> cpc[d] = "waiting"
    BY <1>0, <2>2
  <2>7. ListsHoldWaiting'
    BY <1>0, <2>1, <2>2, <2>6, SameLists
  <2>8. NobodyLate'
    BY <2>2 DEF NobodyLate
  <2>. QED  BY <2>1, <2>4, <2>5, <2>7, <2>8 DEF CondIInv
<1>3. ASSUME NEW c \in Coroutines, PushBack(c) PROVE CondIInv'
  <2>1. /\ UNCHANGED <<locked, awaiters, waited, calls, resuming, ready, announcer>>
        /\ waiters' = Append(waiters, c) /\ cpc' = [cpc EXCEPT ![c] = "waiting"]
        /\ cpc[c] = "unlocking" /\ Goes(c, "outside")
        /\ owns' = [owns EXCEPT ![c] = FALSE]
        /\ inUnLock' = [inUnLock EXCEPT ![c] = Nobody]
    BY <1>3 DEF PushBack
  <2>2. pc[c] = "unlocking"
    BY <1>0, <2>1 DEF PlaceInLock
  <2>3. TypeOK'
    BY <1>0, <2>1, <2>2 DEF IInv, TypeOK, Goes, PCs
  <2>4. IInv'
    BY <1>0, <2>1, <2>2, <2>3, MoveIInv DEF Holds, PCs
  <2>5. ~Listed(c, waiters) /\ \A d \in Coroutines : ~Listed(c, resuming[d])
    BY <1>0, <2>1 DEF ListsHoldWaiting
  <2>6. /\ waiters' \in Seq(Coroutines) /\ Distinct(waiters')
        /\ \A d : Listed(d, waiters') <=> Listed(d, waiters) \/ d = c
    BY <1>0, <2>1, <2>5, AppendToDistinct DEF ListsHoldWaiting
  <2>7. CondTypeOK'
    BY <1>0, <2>1, <2>3, <2>6 DEF CondTypeOK
  <2>8. PlaceInLock'
    BY <1>0, <2>1 DEF PlaceInLock, Goes
  <2>9. ListsHoldWaiting'
    <3>1. cpc'[c] = "waiting" /\ \A d \in Coroutines : d # c => cpc'[d] = cpc[d]
      BY <1>0, <2>1
    <3>2. resuming' = resuming
      BY <2>1
    <3>. QED  BY <1>0, <2>5, <2>6, <3>1, <3>2 DEF ListsHoldWaiting
  <2>10. NobodyLate'
    BY <1>0, <2>1 DEF NobodyLate, MutexFree
  <2>. QED  BY <2>4, <2>7, <2>8, <2>9, <2>10 DEF CondIInv
<1>4. ASSUME NEW c \in Coroutines, SetReady(c) PROVE CondIInv'
  <2>1. UNCHANGED <<vars, waiters, cpc, resuming>> /\ ready' = TRUE /\ announcer' = c
    BY <1>4 DEF SetReady, lockVars, vars
  <2>2. IInv'
    BY <1>0, <2>1, NextIInv
  <2>3. CondTypeOK'
    BY <1>0, <2>1, <2>2 DEF CondTypeOK, IInv
  <2>4. PlaceInLock' /\ ListsHoldWaiting'
    BY <1>0, <2>1 DEF PlaceInLock, ListsHoldWaiting, Listed, Distinct, vars
  <2>5. NobodyLate'
    BY <2>1, AsyncLockAssumption DEF NobodyLate
  <2>. QED  BY <2>2, <2>3, <2>4, <2>5 DEF CondIInv
(* A notification, of one awaiter or of all.                               *)
<1>5. ASSUME NEW c \in Coroutines, NotifyOne(c) PROVE CondIInv'
  <2>1. /\ UNCHANGED <<locked, awaiters, pc, waited, owns, inUnLock, cpc, ready, announcer>>
        /\ calls' = [calls EXCEPT ![c] = @ + 1] /\ calls[c] < MaxCalls
        /\ waiters # <<>> /\ waiters' = Tail(waiters) /\ resuming[c] = <<>>
        /\ resuming' = [resuming EXCEPT ![c] = <<Head(waiters)>>]
    BY <1>5 DEF NotifyOne, MayCall, Free
  <2>2. TypeOK'
    <3>1. calls' \in [Coroutines -> 0 .. MaxCalls]
      <4>1. /\ calls \in [Coroutines -> 0 .. MaxCalls] /\ calls[c] < MaxCalls
            /\ calls' = [calls EXCEPT ![c] = @ + 1]
        BY <1>0, <2>1 DEF IInv, TypeOK
      <4>2. MaxCalls \in Nat
        BY AsyncLockAssumption
      <4>. QED  BY <4>1, <4>2
    <3>. QED  BY <1>0, <2>1, <3>1 DEF IInv, TypeOK
  <2>3. IInv'
    BY <1>0, <2>1, <2>2 DEF IInv, MutualExclusion, Holds, ListHoldsSuspended, NoStrandedAwaiter
  <2>4. /\ Head(waiters) \in Coroutines /\ waiters' \in Seq(Coroutines) /\ Distinct(waiters')
        /\ \A d : Listed(d, waiters') <=> Listed(d, waiters) /\ d # Head(waiters)
        /\ Listed(Head(waiters), waiters)
    BY <1>0, <2>1, TailOfDistinct DEF ListsHoldWaiting
  <2>5. /\ resuming'[c] = <<Head(waiters)>> /\ <<Head(waiters)>> \in Seq(Coroutines)
        /\ Distinct(resuming'[c]) /\ \A d : Listed(d, resuming'[c]) <=> d = Head(waiters)
        /\ \A d : ~Listed(d, resuming[c])
        /\ \A d \in Coroutines : d # c => resuming'[d] = resuming[d]
    BY <1>0, <2>1, <2>4, ShortLists
  <2>6. CondTypeOK'
    BY <1>0, <2>1, <2>2, <2>4, <2>5 DEF CondTypeOK
  <2>7. PlaceInLock'
    BY <1>0, <2>1 DEF PlaceInLock
  <2>8. ListsHoldWaiting'
    <3>1. \A d, e \in Coroutines : Listed(d, resuming'[e])
            <=> Listed(d, resuming[e]) \/ (e = c /\ d = Head(waiters))
      BY <2>5
    <3>2. \A e \in Coroutines : Distinct(resuming'[e])
      BY <1>0, <2>5 DEF ListsHoldWaiting
    <3>3. cpc' = cpc
      BY <2>1
    <3>4. \A d \in Coroutines : ~Listed(Head(waiters), resuming[d])
      BY <1>0, <2>4 DEF ListsHoldWaiting
    <3>5. \A d \in Coroutines : Listed(d, waiters) \/ (\E e \in Coroutines : Listed(d, resuming[e]))
            <=> Listed(d, waiters') \/ (\E e \in Coroutines : Listed(d, resuming'[e]))
      BY <2>4, <3>1
    <3>6. \A d, e \in Coroutines : ~(Listed(d, waiters') /\ Listed(d, resuming'[e]))
      BY <1>0, <2>4, <3>1 DEF ListsHoldWaiting
    <3>7. ASSUME NEW d \in Coroutines, NEW e \in Coroutines, NEW f \in Coroutines,
                 Listed(d, resuming'[e]), Listed(d, resuming'[f])
          PROVE  e = f
      <4>1. CASE d = Head(waiters)
        BY <3>1, <3>4, <3>7, <4>1
      <4>2. CASE d # Head(waiters)
        BY <1>0, <3>1, <3>7, <4>2 DEF ListsHoldWaiting
      <4>. QED  BY <4>1, <4>2
    <3>. QED  BY <1>0, <2>4, <3>2, <3>3, <3>5, <3>6, <3>7 DEF ListsHoldWaiting
  <2>9. NobodyLate'
    BY <1>0, <2>1 DEF NobodyLate
  <2>. QED  BY <2>3, <2>6, <2>7, <2>8, <2>9 DEF CondIInv
<1>6. ASSUME NEW c \in Coroutines, NotifyALL(c) PROVE CondIInv'
  <2>1. /\ UNCHANGED vars /\ UNCHANGED <<cpc, ready>> /\ MutexFree
        /\ waiters' = <<>> /\ announcer' = Nobody /\ resuming[c] = <<>>
        /\ resuming' = [resuming EXCEPT ![c] = waiters]
    BY <1>6 DEF NotifyALL, MayCall, Free, lockVars, vars
  <2>2. IInv'
    BY <1>0, <2>1, NextIInv
  <2>3. /\ resuming'[c] = waiters /\ \A d : ~Listed(d, resuming[c]) /\ ~Listed(d, waiters')
        /\ \A d \in Coroutines : d # c => resuming'[d] = resuming[d]
    BY <1>0, <2>1, ShortLists
  <2>4. CondTypeOK'
    BY <1>0, <2>1, <2>2, ShortLists DEF CondTypeOK, IInv
  <2>5. PlaceInLock'
    BY <1>0, <2>1 DEF PlaceInLock, vars
  <2>6. ListsHoldWaiting'
    <3>1. \A d, e \in Coroutines : Listed(d, resuming'[e])
            <=> Listed(d, resuming[e]) \/ (e = c /\ Listed(d, waiters))
      BY <2>3
    <3>2. \A e \in Coroutines : Distinct(resuming'[e])
      BY <1>0, <2>3 DEF ListsHoldWaiting
    <3>3. cpc' = cpc /\ Distinct(waiters')
      BY <2>1, ShortLists
    <3>. QED  BY <1>0, <2>3, <3>1, <3>2, <3>3 DEF ListsHoldWaiting
  <2>7. NobodyLate'
    BY <2>1 DEF NobodyLate, MutexFree
  <2>. QED  BY <2>2, <2>4, <2>5, <2>6, <2>7 DEF CondIInv
<1>7. ASSUME NEW c \in Coroutines, ResumeAwaiter(c) PROVE CondIInv'
  <2> DEFINE h == Head(resuming[c])
  <2>1. /\ UNCHANGED <<locked, awaiters, pc, waited, owns, calls, waiters, ready, announcer>>
        /\ resuming[c] # <<>> /\ resuming' = [resuming EXCEPT ![c] = Tail(@)]
        /\ cpc' = [cpc EXCEPT ![h] = "resumeOn"]
        /\ inUnLock' = [inUnLock EXCEPT ![h] = c]
    BY <1>7 DEF ResumeAwaiter
  <2>2. /\ h \in Coroutines /\ Tail(resuming[c]) \in Seq(Coroutines) /\ Distinct(Tail(resuming[c]))
        /\ \A d : Listed(d, Tail(resuming[c])) <=> Listed(d, resuming[c]) /\ d # h
        /\ Listed(h, resuming[c])
    BY <1>0, <2>1, TailOfDistinct DEF ListsHoldWaiting
  <2>3. TypeOK'
    BY <1>0, <2>1, <2>2 DEF IInv, TypeOK
  <2>4. IInv'
    BY <1>0, <2>1, <2>3 DEF IInv, MutualExclusion, Holds, ListHoldsSuspended, NoStrandedAwaiter
  <2>5. cpc[h] = "waiting" /\ pc[h] = "outside"
    BY <1>0, <2>2 DEF ListsHoldWaiting, PlaceInLock
  <2> HIDE DEF h
  <2>6. /\ cpc'[h] = "resumeOn" /\ \A d \in Coroutines : d # h => cpc'[d] = cpc[d]
        /\ resuming'[c] = Tail(resuming[c])
        /\ \A d \in Coroutines : d # c => resuming'[d] = resuming[d]
    BY <1>0, <2>1, <2>2
  <2>7. CondTypeOK'
    BY <1>0, <2>1, <2>2, <2>3 DEF CondTypeOK
  <2>8. PlaceInLock'
    BY <1>0, <2>1, <2>5, <2>6 DEF PlaceInLock
  <2>9. ListsHoldWaiting'
    <3>1. ASSUME NEW d \in Coroutines, NEW e \in Coroutines
          PROVE  Listed(d, resuming'[e]) <=> Listed(d, resuming[e]) /\ d # h
      <4>1. CASE e = c
        BY <4>1, <2>2, <2>6 DEF h
      <4>2. CASE e # c
        BY <4>2, <1>0, <2>2, <2>6 DEF ListsHoldWaiting, h
      <4>. QED  BY <4>1, <4>2
    <3>2. \A e \in Coroutines : Distinct(resuming'[e])
      BY <1>0, <2>2, <2>6 DEF ListsHoldWaiting
    <3>3. waiters' = waiters /\ ~Listed(h, waiters)
      BY <1>0, <2>1, <2>2 DEF ListsHoldWaiting
    <3>. QED  BY <1>0, <2>6, <3>1, <3>2, <3>3 DEF ListsHoldWaiting
  <2>10. NobodyLate'
    BY <1>0, <2>1, <2>6 DEF NobodyLate, MutexFree
  <2>. QED  BY <2>4, <2>7, <2>8, <2>9, <2>10 DEF CondIInv
(* The awaiter on its way back to the lock.                                *)
<1>8. ASSUME NEW c \in Coroutines, ResumeOnExecutor(c) \/ ContinueOnExecutor(c) PROVE CondIInv'
  <2>1. /\ UNCHANGED <<locked, awaiters, owns, calls, waiters, resuming, ready, announcer>>
        /\ cpc[c] \in {"resumeOn", "posted"} /\ pc[c] = "outside"
        /\ \/ Goes(c, "try") /\ waited' = [waited EXCEPT ![c] = FALSE]
           \/ UNCHANGED <<pc, waited>>
        /\ \/ UNCHANGED inUnLock
           \/ inUnLock' = [inUnLock EXCEPT ![c] = Nobody]
        /\ \/ cpc' = [cpc EXCEPT ![c] = "none"]
           \/ cpc' = [cpc EXCEPT ![c] = "posted"] /\ UNCHANGED pc
    BY <1>0, <1>8 DEF ResumeOnExecutor, ContinueOnExecutor, LockAgain, Throw, PlaceInLock
  <2>2. TypeOK'
    BY <1>0, <2>1 DEF IInv, TypeOK, Goes, PCs
  <2>3. IInv'
    <3>1. CASE Goes(c, "try")
      BY <1>0, <2>1, <2>2, <3>1, MoveIInv DEF Holds, PCs
    <3>2. CASE UNCHANGED pc
      BY <1>0, <2>1, <2>2, <3>2
         DEF IInv, MutualExclusion, Holds, ListHoldsSuspended, NoStrandedAwaiter
    <3>. QED  BY <2>1, <3>1, <3>2
  <2>4. CondTypeOK'
    BY <1>0, <2>1, <2>2 DEF CondTypeOK
  <2>5. PlaceInLock'
    BY <1>0, <2>1 DEF PlaceInLock, Goes
  <2>6. \A d \in Coroutines : /\ cpc'[d] = "waiting" <=> cpc[d] = "waiting"
                              /\ cpc'[d] = "unlocking" <=> cpc[d] = "unlocking"
    BY <1>0, <2>1
  <2>7. ListsHoldWaiting'
    BY <1>0, <2>1, <2>6, SameLists
  <2>8. NobodyLate'
    BY <1>0, <2>1, <2>6 DEF NobodyLate, MutexFree
  <2>. QED  BY <2>3, <2>4, <2>5, <2>7, <2>8 DEF CondIInv
<1>9. CASE UNCHANGED allVars
  <2>1. UNCHANGED <<vars, waiters, cpc, resuming, ready, announcer>>
    BY <1>9 DEF allVars, lockVars, condVars, vars
  <2>2. IInv'
    BY <1>0, <2>1, NextIInv
  <2>. QED  BY <1>0, <2>1, <2>2 DEF CondIInv, IInv, CondTypeOK, PlaceInLock, ListsHoldWaiting,
                                    Listed, Distinct, NobodyLate, MutexFree, vars
<1>. QED  BY <1>1, <1>2, <1>3, <1>4, <1>5, <1>6, <1>7, <1>8, <1>9
          DEF CondNext, CondStep, LockStep, LockCall, LockSuspend

LEMMA CondInvariance == CondSpec => []CondIInv
BY CondInitIInv, CondNextIInv, PTL DEF CondSpec

(* Each awaiter of the condition is in exactly one list, and none is left  *)
(* behind by the notification of the flag it waits for (await_suspend,     *)
(* NotifyOne and NotifyALL of CYAsyncCondition).                           *)
THEOREM NotificationsKept == CondSpec => []NoLostNotification
<1>1. CondIInv => NoLostNotification
  BY DEF CondIInv, ListsHoldWaiting, NobodyLate, NoLostNotification
<1>. QED  BY <1>1, CondInvariance, PTL

(* The lock keeps its coroutines apart also when awaiters of a condition   *)
(* give it back inside await_suspend and take it again when resumed.       *)
THEOREM ExclusionWithCondition == CondSpec => []MutualExclusion
<1>1. CondIInv => MutualExclusion  BY DEF CondIInv, IInv
<1>. QED  BY <1>1, CondInvariance, PTL

(* And so its list of awaiters remains the set of its suspended coroutines *)
(* and leaves nobody on a free lock.                                       *)
THEOREM AwaitersWithCondition == CondSpec => [](ListHoldsSuspended /\ NoStrandedAwaiter)
<1>1. CondIInv => ListHoldsSuspended /\ NoStrandedAwaiter  BY DEF CondIInv, IInv
<1>. QED  BY <1>1, CondInvariance, PTL
=============================================================================
