---------------------------- MODULE WhenAnyProofs ----------------------------
(***************************************************************************)
(* WhenAny and WhenALL on any number of results and for any number of      *)
(* calls: who resumes the coroutine, what it returns, and in which state   *)
(* the other results are left.                                             *)
(***************************************************************************)
EXTENDS WhenAny, WellFoundedInduction, TLAPS

Finished(r) == state[r] = "PRODUCER_DONE"
Registered(r) == state[r] = "CONSUMER_SET" /\ context[r] = round
Untouched(r) == state[r] = "IDLE" /\ context[r] = 0

InWhenAll == apc \in Gathering \cup {"gathered"}

(* A producer is done with its result exactly after the exchange; one that *)
(* is going to resume has found a context, and one that has copied it      *)
(* holds it.  The context of a handle is that of WhenALL's current result. *)
ProducerTail ==
  \A r \in Results :
    /\ Finished(r) <=> ppc[r] # "producing"
    /\ state[r] = "CONSUMER_SET" \/ ppc[r] = "resume" =>
         \/ context[r] \in 1 .. round
         \/ context[r] = Handle /\ apc = "awaiting" /\ i = r
    /\ ppc[r] \in {"load", "casDone", "casProcessing"} => held[r] \in 1 .. round

(* m_status of the contexts: an earlier call has its result, a later one   *)
(* none yet, and the current one is DoneProcessing exactly while the       *)
(* coroutine is suspended in it.  A result that is in it has finished.     *)
StatusOfCalls ==
  /\ \A k \in 1 .. Rounds : k < round => status[k] \in Results
  /\ \A k \in 1 .. Rounds : k > round => status[k] = Processing
  /\ status[round] = DoneProcessing <=> apc = "suspended"
  /\ apc \in {"rewindLoad", "rewindCas", "clear", "returned"} => status[round] \in awaited
  /\ apc = "returned" => chosen = status[round]
  /\ \A k \in 1 .. Rounds : status[k] \in Results => Finished(status[k])
  /\ ~InWhenAll => status[round] \in awaited \cup {Processing, DoneProcessing}

(* The context that the producer of a result is going to resume.           *)
Carried(r) == IF ppc[r] = "resume" THEN context[r] ELSE held[r]

(* Only awaited results know the context of the current call, only those   *)
(* that the loop has come to; and no result is in a context that its own   *)
(* producer still has to look at.                                          *)
ContextsOfCall ==
  /\ i \in awaited
  /\ \A r \in Results \ awaited : Finished(r)
  /\ ~InWhenAll => \A r \in Results \ awaited :
       context[r] # round /\ (ppc[r] \in Resuming => Carried(r) # round)
  /\ apc \in {"check", "load", "set", "cas", "inline"} => \A r \in awaited :
       /\ r > i => context[r] # round
       /\ r >= i /\ ppc[r] \in Resuming => Carried(r) # round
  /\ apc \in {"check", "load", "set", "inline"} => context[i] # round
  /\ \A r \in Results : ppc[r] \in Resuming /\ Carried(r) # Handle => status[Carried(r)] # r

(* What the loop has done to the results before i, and not yet to those    *)
(* after it.                                                               *)
LoopOfCall ==
  /\ apc \in {"check", "load", "set", "cas", "inline"} => \A r \in awaited :
       /\ r < i => Registered(r) \/ Finished(r)
       /\ r > i => Untouched(r) \/ Finished(r)
  /\ apc \in {"check", "load"} => Untouched(i) \/ Finished(i)
  /\ apc = "inline" => Finished(i)
  /\ apc \in {"set", "cas", "awaitSet", "awaitCas", "clear"} =>
       state[i] = "IDLE" \/ ppc[i] = "done"
  /\ apc \in {"set", "awaitSet"} => context[i] = 0
  /\ apc = "cas" => context[i] = round
  /\ apc \in {"finish", "suspended"} => \A r \in awaited : Registered(r) \/ Finished(r)
  /\ apc \in {"rewindLoad", "rewindCas", "clear"} => \A r \in awaited :
       /\ r < i => Untouched(r) \/ Finished(r)
       /\ r > i => Registered(r) \/ Untouched(r) \/ Finished(r)
  /\ apc = "rewindLoad" => Registered(i) \/ Untouched(i) \/ Finished(i)
  /\ apc = "rewindCas" => Registered(i) \/ Finished(i)
  /\ apc = "returned" => \A r \in awaited : Untouched(r) \/ Finished(r)
  /\ apc \in Gathering => \A r \in awaited :
       /\ r < i => Finished(r)
       /\ r > i => Untouched(r) \/ Finished(r)
  /\ apc = "awaitLoad" => Untouched(i) \/ Finished(i)
  /\ apc \in {"awaitCas", "awaiting"} => context[i] = Handle
  /\ apc = "awaiting" => state[i] = "CONSUMER_SET" \/ ppc[i] = "resume"
  /\ apc = "gathered" => \A r \in awaited : Finished(r)

IInv == TypeOK /\ ProducerTail /\ StatusOfCalls /\ ContextsOfCall /\ LoopOfCall

-----------------------------------------------------------------------------
(* The loops over the awaited results.                                     *)

LEMMA MinIsLeast ==
  ASSUME NEW S \in SUBSET Results, S # {}
  PROVE  Min(S) \in S /\ \A y \in S : Min(S) <= y
<1>0. S \subseteq Nat
  BY WhenAnyAssumption DEF Results
<1>1. IsWellFoundedOn(OpToRel(<, Nat), Nat)
  BY NatLessThanWellFounded
<1>2. PICK x \in S : \A y \in S : ~ (<<y, x>> \in OpToRel(<, Nat))
  BY <1>0, <1>1, WFMin
<1>3. \A y \in S : x <= y
  <2> SUFFICES ASSUME NEW y \in S, y < x PROVE FALSE
    BY <1>0
  <2>1. <<y, x>> \in Nat \X Nat /\ <<y, x>>[1] < <<y, x>>[2]
    BY <1>0
  <2>2. <<y, x>> \in OpToRel(<, Nat)
    BY <2>1 DEF OpToRel
  <2> QED
    BY <1>2, <2>2
<1> QED
  BY <1>2, <1>3 DEF Min

LEMMA AdvanceGoesOn ==
  ASSUME NEW again, NEW after, TypeOK, i \in awaited, Advance(again, after)
  PROVE  \/ apc' = after /\ i' = i /\ \A r \in awaited : r <= i
         \/ /\ apc' = again /\ i' \in awaited /\ i' > i
            /\ \A r \in awaited : r < i' => r <= i
<1> DEFINE later == {r \in awaited : r > i}
<1>1. CASE later = {}
  BY <1>1, WhenAnyAssumption DEF Advance, TypeOK, Results
<1>2. CASE later # {}
  <2>1. apc' = again /\ i' = Min(later)
    BY <1>2 DEF Advance
  <2>2. Min(later) \in later /\ \A y \in later : Min(later) <= y
    BY <1>2, MinIsLeast DEF TypeOK
  <2> QED
    <3>1. \A r \in awaited : r \in Nat
      BY WhenAnyAssumption DEF TypeOK, Results
    <3>2. i' \in later /\ i \in Nat /\ \A y \in later : i' <= y
      BY <2>1, <2>2, <3>1
    <3>3. ASSUME NEW r \in awaited, r < i' PROVE r <= i
      BY <3>1, <3>2, <3>3
    <3> QED
      BY <2>1, <3>2, <3>3
<1> QED
  BY <1>1, <1>2

LEMMA FirstIsLeast ==
  ASSUME TypeOK
  PROVE  First \in awaited /\ \A r \in awaited : First <= r
BY MinIsLeast DEF TypeOK, First

LEMMA InitIInv == Init => IInv
<1> SUFFICES ASSUME Init PROVE IInv
  OBVIOUS
<1> USE WhenAnyAssumption DEF Init
<1>1. TypeOK
  <2>1. /\ 1 \in Results /\ 1 \in 1 .. Rounds /\ 0 \in Handle .. 1
        /\ 0 \in 0 .. 1 /\ 0 \in 0 .. N
    BY DEF Results, Handle
  <2>2. /\ state \in [Results -> {"IDLE", "CONSUMER_SET", "PRODUCER_DONE"}]
        /\ context \in [Results -> Handle .. round] /\ held \in [Results -> 0 .. round]
        /\ ppc \in [Results -> ProducerPCs]
        /\ status \in [1 .. Rounds -> Results \cup {Processing, DoneProcessing}]
    BY <2>1 DEF ProducerPCs
  <2>3. apc \in AwaiterPCs
    BY DEF AwaiterPCs, Gathering
  <2> QED
    BY <2>1, <2>2, <2>3 DEF TypeOK, Results
<1>2. ProducerTail
  BY DEF ProducerTail, Finished
<1>3. StatusOfCalls
  BY DEF StatusOfCalls, Processing, DoneProcessing, Results
<1>4. ContextsOfCall
  BY DEF ContextsOfCall, Results, Resuming
<1>5. LoopOfCall
  BY DEF LoopOfCall, Results, Untouched, Gathering
<1> QED
  BY <1>1, <1>2, <1>3, <1>4, <1>5 DEF IInv

-----------------------------------------------------------------------------
(* The steps of a producer.                                                *)

LEMMA CompleteProducerIInv ==
  ASSUME NEW r \in Results, IInv, CompleteProducer(r)
  PROVE  IInv'
<1> USE DEF IInv
<1>1. /\ ppc[r] = "producing" /\ UNCHANGED <<context, held, status, apc, i, callVars>>
      /\ state' = [state EXCEPT ![r] = "PRODUCER_DONE"]
      /\ ppc' = [ppc EXCEPT ![r] = IF state[r] = "CONSUMER_SET" THEN "resume" ELSE "done"]
  BY DEF CompleteProducer
<1>2. /\ state'[r] = "PRODUCER_DONE" /\ \A q \in Results : q # r => state'[q] = state[q]
      /\ ppc'[r] = IF state[r] = "CONSUMER_SET" THEN "resume" ELSE "done"
      /\ \A q \in Results : q # r => ppc'[q] = ppc[q]
  BY <1>1 DEF TypeOK
<1>3. TypeOK'
  BY <1>1 DEF TypeOK, ProducerPCs, Resuming, callVars
<1>4. ProducerTail'
  BY <1>1, <1>2 DEF ProducerTail, Finished, callVars
<1>5. StatusOfCalls'
  BY <1>1, <1>2 DEF StatusOfCalls, Finished, InWhenAll, callVars
<1>6. ContextsOfCall'
  <2>1. \A k \in 1 .. Rounds : status[k] # r
    BY <1>1 DEF StatusOfCalls, ProducerTail
  <2>2. \A q \in Results \ {r} : Carried(q)' = Carried(q) /\ ppc'[q] = ppc[q]
    BY <1>1, <1>2 DEF Carried
  <2>3. ppc'[r] \in Resuming =>
          /\ state[r] = "CONSUMER_SET" /\ Carried(r)' = context[r]
          /\ context[r] \in 1 .. round \/ context[r] = Handle
    BY <1>1, <1>2 DEF Carried, Resuming, ProducerTail
  <2>4. \A q \in Results : ppc'[q] \in Resuming /\ Carried(q)' # Handle => status'[Carried(q)'] # q
    <3>1. 1 .. round \subseteq 1 .. Rounds
      BY WhenAnyAssumption DEF TypeOK
    <3>2. status' = status
      BY <1>1
    <3>3. ASSUME NEW q \in Results \ {r}, ppc'[q] \in Resuming, Carried(q)' # Handle
          PROVE  status'[Carried(q)'] # q
      BY <2>2, <3>2, <3>3 DEF ContextsOfCall
    <3>4. ASSUME ppc'[r] \in Resuming, Carried(r)' # Handle
          PROVE  status'[Carried(r)'] # r
      BY <2>1, <2>3, <3>1, <3>2, <3>4
    <3> QED
      BY <3>3, <3>4
  <2>5. ~InWhenAll' => \A q \in Results \ awaited' :
          context'[q] # round' /\ (ppc'[q] \in Resuming => Carried(q)' # round')
    <3>1. r \in awaited
      BY <1>1 DEF ContextsOfCall, ProducerTail
    <3> QED
      BY <1>1, <2>2, <3>1 DEF ContextsOfCall, InWhenAll, callVars
  <2>6. apc' \in {"check", "load", "set", "cas", "inline"} => \A q \in awaited' :
          /\ q > i' => context'[q] # round'
          /\ q >= i' /\ ppc'[q] \in Resuming => Carried(q)' # round'
    <3>1. apc \in {"check", "load", "set", "cas", "inline"} /\ r \in awaited /\ r >= i
            => state[r] # "CONSUMER_SET"
      BY <1>1 DEF LoopOfCall, Untouched, Finished, TypeOK, Results
    <3>2. awaited \subseteq Results
      BY DEF TypeOK
    <3> QED
      BY <1>1, <2>2, <2>3, <3>1, <3>2 DEF ContextsOfCall, callVars
  <2> QED
    BY <1>1, <1>2, <2>4, <2>5, <2>6 DEF ContextsOfCall, Finished, callVars
<1>7. LoopOfCall'
  BY <1>1, <1>2 DEF LoopOfCall, Registered, Untouched, Finished, callVars
<1> QED
  BY <1>3, <1>4, <1>5, <1>6, <1>7

(* A producer that finds a handle resumes the coroutine in WhenALL; one    *)
(* that finds a context takes it.                                          *)
LEMMA ResumeConsumerIInv ==
  ASSUME NEW r \in Results, IInv, ResumeConsumer(r)
  PROVE  IInv'
<1> USE DEF IInv
<1>1. ppc[r] = "resume" /\ Finished(r) /\ UNCHANGED <<resultVars, status, callVars>>
  BY DEF ResumeConsumer, ProducerTail
<1>2. CASE context[r] # Handle
  <2>1. /\ context[r] \in 1 .. round /\ held' = [held EXCEPT ![r] = context[r]]
        /\ ppc' = [ppc EXCEPT ![r] = "load"] /\ UNCHANGED <<apc, i>>
    BY <1>1, <1>2, WhenAnyAssumption DEF ResumeConsumer, ProducerTail, TypeOK
  <2>2. /\ ppc'[r] = "load" /\ held'[r] = context[r] /\ held'[r] \in 0 .. round
        /\ \A q \in Results : q # r => ppc'[q] = ppc[q] /\ held'[q] = held[q]
    BY <2>1, WhenAnyAssumption DEF TypeOK
  <2>3. TypeOK'
    BY <1>1, <2>1, <2>2 DEF TypeOK, ProducerPCs, Resuming, callVars, resultVars
  <2>4. ProducerTail'
    BY <1>1, <2>1, <2>2 DEF ProducerTail, Finished, callVars, resultVars
  <2>5. StatusOfCalls'
    BY <1>1, <2>1 DEF StatusOfCalls, Finished, InWhenAll, callVars, resultVars
  <2>6. \A q \in Results : Carried(q)' = Carried(q) /\ (ppc'[q] \in Resuming <=> ppc[q] \in Resuming)
    BY <1>1, <2>1, <2>2 DEF Carried, Resuming, resultVars
  <2>7. ContextsOfCall'
    BY <1>1, <2>1, <2>6 DEF ContextsOfCall, Finished, InWhenAll, callVars, resultVars, TypeOK
  <2>8. LoopOfCall'
    <3>1. apc = "awaiting" /\ i = r => context[r] = Handle
      BY DEF LoopOfCall
    <3> QED
      BY <1>1, <1>2, <2>1, <2>2, <3>1 DEF LoopOfCall, Registered, Untouched, Finished, callVars, resultVars,
                                   TypeOK
  <2> QED
    BY <2>3, <2>4, <2>5, <2>7, <2>8
<1>3. CASE context[r] = Handle
  <2>1. /\ apc = "awaiting" /\ i = r /\ UNCHANGED held /\ ppc' = [ppc EXCEPT ![r] = "done"]
        /\ Advance("awaitLoad", "gathered")
    BY <1>1, <1>3, WhenAnyAssumption DEF ResumeConsumer, ProducerTail, TypeOK, Handle
  <2>2. \/ apc' = "gathered" /\ i' = i /\ \A q \in awaited : q <= i
        \/ /\ apc' = "awaitLoad" /\ i' \in awaited /\ i' > i
           /\ \A q \in awaited : q < i' => q <= i
    BY <2>1, AdvanceGoesOn DEF ContextsOfCall
  <2>3. ppc'[r] = "done" /\ \A q \in Results : q # r => ppc'[q] = ppc[q]
    BY <2>1 DEF TypeOK
  <2>4. TypeOK'
    BY <1>1, <2>1, <2>2, <2>3 DEF TypeOK, ProducerPCs, AwaiterPCs, Gathering, callVars, resultVars
  <2>5. ProducerTail'
    <3>1. \A q \in Results : q # r => ~(state[q] = "CONSUMER_SET" /\ context[q] = Handle)
      BY <2>1 DEF ProducerTail, Handle
    <3> QED
      BY <1>1, <2>1, <2>3, <3>1 DEF ProducerTail, Finished, callVars, resultVars
  <2>6. StatusOfCalls' /\ InWhenAll /\ InWhenAll'
    BY <1>1, <2>1, <2>2 DEF StatusOfCalls, Finished, InWhenAll, Gathering, callVars, resultVars
  <2>7. ContextsOfCall'
    <3>1. \A q \in Results : ppc'[q] \in Resuming => ppc[q] \in Resuming /\ Carried(q)' = Carried(q)
      BY <1>1, <2>1, <2>3 DEF Carried, Resuming, resultVars
    <3> QED
      BY <1>1, <2>1, <2>2, <2>6, <3>1 DEF ContextsOfCall, Finished, callVars, resultVars
  <2>8. LoopOfCall'
    <3>1. \A q \in awaited : q \in Results /\ (q < i' => Finished(q)')
      BY <1>1, <2>1, <2>2, WhenAnyAssumption DEF LoopOfCall, Gathering, Finished, resultVars, TypeOK, Results
    <3>2. \A q \in awaited : q > i => Untouched(q)' \/ Finished(q)'
      BY <1>1, <2>1 DEF LoopOfCall, Gathering, Finished, Untouched, resultVars
    <3>3. apc' = "gathered" => \A q \in awaited : Finished(q)'
      BY <1>1, <2>1, <2>2, <3>1, WhenAnyAssumption DEF TypeOK, Results, Finished, resultVars
    <3>4. CASE apc' = "gathered"
      BY <1>1, <3>3, <3>4 DEF LoopOfCall, Gathering, callVars
    <3>5. CASE apc' = "awaitLoad"
      <4>1. awaited' = awaited /\ i' \in awaited /\ i' > i
        BY <1>1, <2>2, <3>5 DEF callVars
      <4>2. \A q \in awaited : q > i' => q > i
        BY <4>1, WhenAnyAssumption DEF TypeOK, Results
      <4> QED
        BY <3>1, <3>2, <3>5, <4>1, <4>2 DEF LoopOfCall, Gathering
    <3> QED
      BY <2>2, <3>4, <3>5
  <2> QED
    BY <2>4, <2>5, <2>6, <2>7, <2>8
<1> QED
  BY <1>2, <1>3

LEMMA TryResumeLoadIInv ==
  ASSUME NEW r \in Results, IInv, TryResumeLoad(r)
  PROVE  IInv'
<1> USE DEF IInv
<1>1. /\ ppc[r] = "load" /\ UNCHANGED <<resultVars, held, status, apc, i, callVars>>
      /\ \E to \in {"casDone", "casProcessing", "done"} : ppc' = [ppc EXCEPT ![r] = to]
  BY DEF TryResumeLoad
<1>2. /\ ppc'[r] \in {"casDone", "casProcessing", "done"}
      /\ \A q \in Results : q # r => ppc'[q] = ppc[q]
  BY <1>1 DEF TypeOK
<1>3. TypeOK'
  BY <1>1, <1>2 DEF TypeOK, ProducerPCs, Resuming, callVars, resultVars
<1>4. ProducerTail'
  BY <1>1, <1>2 DEF ProducerTail, Finished, callVars, resultVars
<1>5. StatusOfCalls'
  BY <1>1 DEF StatusOfCalls, Finished, InWhenAll, callVars, resultVars
<1>6. ContextsOfCall'
  <2>1. \A q \in Results : ppc'[q] \in Resuming => ppc[q] \in Resuming /\ Carried(q)' = Carried(q)
    BY <1>1, <1>2 DEF Carried, Resuming, resultVars
  <2> QED
    BY <1>1, <2>1 DEF ContextsOfCall, Finished, InWhenAll, callVars, resultVars, TypeOK
<1>7. LoopOfCall'
  BY <1>1, <1>2 DEF LoopOfCall, Registered, Untouched, Finished, callVars, resultVars
<1> QED
  BY <1>3, <1>4, <1>5, <1>6, <1>7

(* Wherever the coroutine leaves await_suspend, one of its results is in   *)
(* the context, and await_resume starts with the first result.             *)
LEMMA ResumeCoroutineIInv ==
  ASSUME IInv, ResumeCoroutine, apc \in {"check", "inline", "finish", "suspended"},
         UNCHANGED <<resultVars, held, callVars>>,
         \/ UNCHANGED ppc
         \/ \E r \in Results : ppc[r] = "casDone" /\ ppc' = [ppc EXCEPT ![r] = "done"],
         \/ UNCHANGED status
         \/ \E r \in awaited : /\ Finished(r) /\ status' = [status EXCEPT ![round] = r]
                               /\ ppc'[r] \in Resuming => Carried(r) # round,
         status'[round] \in awaited
  PROVE  IInv'
<1> USE DEF IInv
<1>1. /\ apc' = "rewindLoad" /\ i' \in awaited /\ \A r \in awaited : i' <= r
      /\ awaited' = awaited /\ round' = round /\ chosen' = chosen
      /\ state' = state /\ context' = context /\ held' = held
  BY FirstIsLeast DEF ResumeCoroutine, resultVars, callVars
<1>2. /\ ppc' \in [Results -> ProducerPCs]
      /\ \A r \in Results : ppc'[r] = ppc[r] \/ (ppc[r] = "casDone" /\ ppc'[r] = "done")
  <2>1. CASE UNCHANGED ppc
    BY <2>1 DEF TypeOK
  <2>2. CASE \E r \in Results : ppc[r] = "casDone" /\ ppc' = [ppc EXCEPT ![r] = "done"]
    BY <2>2 DEF TypeOK, ProducerPCs
  <2> QED
    BY <2>1, <2>2
<1>3. /\ status' \in [1 .. Rounds -> Results \cup {Processing, DoneProcessing}]
      /\ \A k \in 1 .. Rounds : k # round => status'[k] = status[k]
      /\ round \in 1 .. Rounds /\ awaited \subseteq Results
  BY DEF TypeOK
<1>4. Processing \notin Results /\ DoneProcessing \notin Results /\ Processing # DoneProcessing
  BY WhenAnyAssumption DEF Results, Processing, DoneProcessing
<1>5. TypeOK'
  BY <1>1, <1>2, <1>3 DEF TypeOK, AwaiterPCs
<1>6. ProducerTail'
  BY <1>1, <1>2 DEF ProducerTail, Finished
<1>7. StatusOfCalls'
  <2>1. \A k \in 1 .. Rounds : status'[k] \in Results => Finished(status'[k])
    BY <1>3 DEF StatusOfCalls, TypeOK
  <2> QED
    BY <1>1, <1>3, <1>4, <2>1 DEF StatusOfCalls, Finished, InWhenAll
<1>8. \A r \in Results : ppc'[r] \in Resuming => ppc[r] \in Resuming /\ Carried(r)' = Carried(r)
  BY <1>1, <1>2 DEF Carried, Resuming
<1>9. ContextsOfCall'
  <2>1. ASSUME NEW q \in Results, ppc'[q] \in Resuming, Carried(q)' # Handle
        PROVE  status'[Carried(q)'] # q
    <3>1. Carried(q)' = Carried(q) /\ ppc[q] \in Resuming
      BY <1>8, <2>1
    <3>2. Carried(q) \in 1 .. Rounds /\ status[Carried(q)] # q
      BY <1>3, <2>1, <3>1, WhenAnyAssumption DEF ContextsOfCall, ProducerTail, Carried, Resuming
    <3> QED
      BY <1>3, <2>1, <3>1, <3>2 DEF TypeOK
  <2> QED
    BY <1>1, <1>8, <2>1, <1>3 DEF ContextsOfCall, Finished, InWhenAll, Gathering
<1>10. LoopOfCall'
  <2>1. \A r \in awaited : Registered(r) \/ Untouched(r) \/ Finished(r)
    BY DEF LoopOfCall, ContextsOfCall, TypeOK, Results
  <2> QED
    BY <1>1, <1>3, <2>1, WhenAnyAssumption
       DEF LoopOfCall, Registered, Untouched, Finished, Gathering, Results
<1> QED
  BY <1>5, <1>6, <1>7, <1>9, <1>10

LEMMA TryResumeDoneIInv ==
  ASSUME NEW r \in Results, IInv, TryResumeDone(r)
  PROVE  IInv'
<1> USE DEF IInv
<1>1. /\ ppc[r] = "casDone" /\ ppc' = [ppc EXCEPT ![r] = "done"] /\ held[r] \in 1 .. round
      /\ Finished(r) /\ UNCHANGED <<resultVars, held, callVars>> /\ round \in 1 .. Rounds
      /\ ppc'[r] = "done"
  BY DEF TryResumeDone, ProducerTail, TypeOK
<1>2. CASE /\ status[held[r]] = DoneProcessing /\ ResumeCoroutine
           /\ status' = [status EXCEPT ![held[r]] = r]
  <2>1. held[r] = round /\ apc = "suspended"
    BY <1>1, <1>2, WhenAnyAssumption DEF StatusOfCalls, Results, DoneProcessing
  <2>2. r \in awaited
    BY <1>1, <2>1 DEF ContextsOfCall, InWhenAll, Gathering, Carried, Resuming
  <2>3. status'[round] = r
    BY <1>1, <1>2, <2>1 DEF TypeOK
  <2> QED
    BY <1>1, <1>2, <2>1, <2>2, <2>3, ResumeCoroutineIInv DEF Resuming
<1>3. CASE UNCHANGED <<status, apc, i>>
  <2>1. \A q \in Results : ppc'[q] \in Resuming => ppc[q] \in Resuming /\ Carried(q)' = Carried(q)
    BY <1>1, <1>3 DEF Carried, Resuming, resultVars, TypeOK
  <2>2. TypeOK' /\ ProducerTail'
    BY <1>1, <1>3 DEF TypeOK, ProducerTail, ProducerPCs, Finished, callVars, resultVars
  <2>3. StatusOfCalls' /\ LoopOfCall'
    BY <1>1, <1>3 DEF StatusOfCalls, LoopOfCall, Registered, Untouched, Finished, InWhenAll,
                      callVars, resultVars, TypeOK
  <2>4. ContextsOfCall'
    BY <1>1, <1>3, <2>1 DEF ContextsOfCall, Finished, InWhenAll, callVars, resultVars, TypeOK
  <2> QED
    BY <2>2, <2>3, <2>4
<1> QED
  BY <1>2, <1>3 DEF TryResumeDone

LEMMA TryResumeProcessingIInv ==
  ASSUME NEW r \in Results, IInv, TryResumeProcessing(r)
  PROVE  IInv'
<1> USE DEF IInv
<1>1. /\ ppc[r] = "casProcessing" /\ held[r] \in 1 .. round /\ held[r] \in 1 .. Rounds
      /\ Finished(r) /\ UNCHANGED <<resultVars, held, apc, i, callVars>>
  BY WhenAnyAssumption DEF TryResumeProcessing, ProducerTail, TypeOK
<1>2. /\ ppc'[r] \in {"load", "done"} /\ ppc' \in [Results -> ProducerPCs]
      /\ \A q \in Results : q # r => ppc'[q] = ppc[q]
  BY <1>1 DEF TryResumeProcessing, TypeOK, ProducerPCs, Resuming
<1>3. \/ UNCHANGED status
      \/ status[held[r]] = Processing /\ status' = [status EXCEPT ![held[r]] = r] /\ ppc'[r] = "done"
  BY <1>1 DEF TryResumeProcessing, TypeOK
<1>4. Processing \notin Results /\ DoneProcessing \notin Results /\ Processing # DoneProcessing
  BY WhenAnyAssumption DEF Results, Processing, DoneProcessing
<1>5. status' # status => held[r] = round
  BY <1>1, <1>3, <1>4, WhenAnyAssumption DEF StatusOfCalls, TypeOK
<1>6. \A q \in Results : ppc'[q] \in Resuming => ppc[q] \in Resuming /\ Carried(q)' = Carried(q)
  BY <1>1, <1>2 DEF Carried, Resuming, resultVars
<1>7. TypeOK'
  BY <1>1, <1>2, <1>3 DEF TypeOK, callVars, resultVars
<1>8. ProducerTail'
  BY <1>1, <1>2 DEF ProducerTail, Finished, callVars, resultVars
<1>9. StatusOfCalls'
  <2>1. CASE UNCHANGED status
    BY <1>1, <2>1 DEF StatusOfCalls, Finished, InWhenAll, callVars, resultVars
  <2>2. CASE status' # status
    <3>1. /\ status'[round] = r /\ status[round] = Processing
          /\ \A k \in 1 .. Rounds : k # round => status'[k] = status[k]
      BY <1>1, <1>3, <1>5, <2>2 DEF TypeOK
    <3>2. InWhenAll \/ r \in awaited
      BY <1>1, <1>5, <2>2 DEF ContextsOfCall, Carried, Resuming
    <3>3. apc \notin {"suspended", "rewindLoad", "rewindCas", "clear", "returned"}
      BY <1>4, <3>1 DEF StatusOfCalls, TypeOK
    <3> QED
      BY <1>1, <1>4, <3>1, <3>2, <3>3 DEF StatusOfCalls, Finished, InWhenAll, callVars, resultVars
  <2> QED
    BY <2>1, <2>2
<1>10. ContextsOfCall'
  <2>1. ASSUME NEW q \in Results, ppc'[q] \in Resuming, Carried(q)' # Handle
        PROVE  status'[Carried(q)'] # q
    <3>1. Carried(q)' = Carried(q) /\ ppc[q] \in Resuming
      BY <1>6, <2>1
    <3>2. Carried(q) \in 1 .. Rounds /\ status[Carried(q)] # q
      BY <2>1, <3>1, WhenAnyAssumption DEF ContextsOfCall, ProducerTail, Carried, Resuming, TypeOK
    <3>3. q = r => UNCHANGED status
      BY <1>3, <2>1 DEF Resuming
    <3> QED
      BY <1>1, <1>3, <3>1, <3>2, <3>3 DEF TypeOK
  <2> QED
    BY <1>1, <1>6, <2>1 DEF ContextsOfCall, Finished, InWhenAll, callVars, resultVars, TypeOK
<1>11. LoopOfCall'
  BY <1>1, <1>2 DEF LoopOfCall, Registered, Untouched, Finished, callVars, resultVars, TypeOK
<1> QED
  BY <1>7, <1>8, <1>9, <1>10, <1>11

-----------------------------------------------------------------------------
(* The steps of await_suspend.                                             *)

LEMMA AnyResultFinishedIInv == IInv /\ AnyResultFinished => IInv'
<1> SUFFICES ASSUME IInv, AnyResultFinished PROVE IInv'
  OBVIOUS
<1> USE DEF IInv
<1>1. /\ apc = "check" /\ UNCHANGED <<resultVars, ppc, held, status, callVars>>
      /\ status[round] # DoneProcessing /\ status[round] \in awaited \cup {Processing}
  BY DEF AnyResultFinished, StatusOfCalls, InWhenAll, Gathering
<1>2. CASE status[round] # Processing
  BY <1>1, <1>2, ResumeCoroutineIInv DEF AnyResultFinished, callVars
<1>3. CASE status[round] = Processing
  <2>1. apc' = "load" /\ UNCHANGED i
    BY <1>3 DEF AnyResultFinished
  <2> QED
    BY <1>1, <2>1 DEF TypeOK, AwaiterPCs, ProducerTail, StatusOfCalls, ContextsOfCall, LoopOfCall,
          Registered, Untouched, Finished, InWhenAll, Gathering, Carried, callVars, resultVars
<1> QED
  BY <1>2, <1>3

LEMMA WhenAnyLoadIInv == IInv /\ WhenAnyLoad => IInv'
<1> SUFFICES ASSUME IInv, WhenAnyLoad PROVE IInv'
  OBVIOUS
<1> USE DEF IInv
<1>1. /\ apc = "load" /\ apc' \in {"inline", "set"} /\ (apc' = "inline" <=> Finished(i))
      /\ UNCHANGED <<resultVars, ppc, held, status, i, callVars>>
  BY DEF WhenAnyLoad, Finished
<1>2. TypeOK' /\ ProducerTail'
  BY <1>1 DEF TypeOK, AwaiterPCs, ProducerTail, Finished, callVars, resultVars
<1>3. StatusOfCalls' /\ ContextsOfCall'
  BY <1>1 DEF StatusOfCalls, ContextsOfCall, Finished, InWhenAll, Gathering, Carried, callVars, resultVars
<1>4. LoopOfCall'
  BY <1>1 DEF LoopOfCall, Registered, Untouched, Finished, Gathering, callVars, resultVars
<1> QED
  BY <1>2, <1>3, <1>4

(* Writing the context of the current result, which no producer is going   *)
(* to read, disturbs nobody.                                               *)
LEMMA ContextWritten ==
  ASSUME IInv, state[i] = "IDLE" \/ ppc[i] = "done",
         NEW c \in Handle .. round, context' = [context EXCEPT ![i] = c],
         UNCHANGED <<state, ppc, held, status, awaited, round>>
  PROVE  /\ context' \in [Results -> Handle .. round] /\ context'[i] = c
         /\ \A q \in Results : q # i => context'[q] = context[q]
         /\ ppc[i] \notin Resuming /\ state[i] # "CONSUMER_SET"
         /\ \A q \in Results : ppc'[q] \in Resuming => Carried(q)' = Carried(q)
<1>1. /\ context' \in [Results -> Handle .. round] /\ context'[i] = c
      /\ \A q \in Results : q # i => context'[q] = context[q]
  BY DEF IInv, TypeOK
<1>2. ppc[i] \notin Resuming /\ state[i] # "CONSUMER_SET"
  BY DEF IInv, TypeOK, ProducerTail, Finished, Resuming
<1>3. \A q \in Results : ppc'[q] \in Resuming => Carried(q)' = Carried(q)
  BY <1>1, <1>2 DEF Carried
<1> QED
  BY <1>1, <1>2, <1>3

LEMMA SetWhenAnyContextIInv == IInv /\ SetWhenAnyContext => IInv'
<1> SUFFICES ASSUME IInv, SetWhenAnyContext PROVE IInv'
  OBVIOUS
<1> USE DEF IInv
<1>1. /\ apc = "set" /\ apc' = "cas" /\ context' = [context EXCEPT ![i] = round]
      /\ UNCHANGED <<state, ppc, held, status, i, awaited, round, chosen>>
  BY DEF SetWhenAnyContext, callVars
<1>2. /\ state[i] = "IDLE" \/ ppc[i] = "done"
      /\ round \in Handle .. round /\ i \in Results /\ awaited \subseteq Results
  BY <1>1, WhenAnyAssumption DEF LoopOfCall, TypeOK, Handle
<1>3. /\ context' \in [Results -> Handle .. round] /\ context'[i] = round
      /\ \A q \in Results : q # i => context'[q] = context[q]
      /\ ppc[i] \notin Resuming /\ state[i] # "CONSUMER_SET"
      /\ \A q \in Results : ppc'[q] \in Resuming => Carried(q)' = Carried(q)
  BY <1>1, <1>2, ContextWritten
<1>4. TypeOK'
  BY <1>1, <1>3 DEF TypeOK, AwaiterPCs
<1>5. ProducerTail'
  BY <1>1, <1>3 DEF ProducerTail, Finished, Resuming
<1>6. StatusOfCalls'
  BY <1>1 DEF StatusOfCalls, Finished, InWhenAll, Gathering
<1>7. ContextsOfCall'
  <2>1. i \in awaited /\ \A q \in Results \ awaited : q # i
    BY DEF ContextsOfCall
  <2>2. \A q \in Results \ awaited :
          context'[q] # round' /\ (ppc'[q] \in Resuming => Carried(q)' # round')
    BY <1>1, <1>3, <2>1 DEF ContextsOfCall, InWhenAll, Gathering
  <2>3. \A q \in awaited : /\ q > i => context'[q] # round'
                           /\ q >= i /\ ppc'[q] \in Resuming => Carried(q)' # round'
    <3>1. ASSUME NEW q \in awaited, q > i PROVE context'[q] # round'
      BY <1>1, <1>2, <1>3, <3>1, WhenAnyAssumption DEF ContextsOfCall, Results
    <3>2. ASSUME NEW q \in awaited, q >= i, ppc'[q] \in Resuming PROVE Carried(q)' # round'
      BY <1>1, <1>2, <1>3, <3>2 DEF ContextsOfCall
    <3> QED
      BY <3>1, <3>2
  <2>4. \A q \in Results : ppc'[q] \in Resuming /\ Carried(q)' # Handle => status'[Carried(q)'] # q
    BY <1>1, <1>3 DEF ContextsOfCall
  <2> QED
    BY <1>1, <2>1, <2>2, <2>3, <2>4 DEF ContextsOfCall, Finished
<1>8. LoopOfCall'
  BY <1>1, <1>2, <1>3, WhenAnyAssumption
     DEF LoopOfCall, Registered, Untouched, Finished, Gathering, Results
<1> QED
  BY <1>4, <1>5, <1>6, <1>7, <1>8

LEMMA RegisterIInv == IInv /\ Register => IInv'
<1> SUFFICES ASSUME IInv, Register PROVE IInv'
  OBVIOUS
<1> USE DEF IInv
<1>1. /\ apc = "cas" /\ Advance("check", "finish")
      /\ state' = [state EXCEPT ![i] = IF state[i] = "IDLE" THEN "CONSUMER_SET" ELSE state[i]]
      /\ UNCHANGED <<context, ppc, held, status, awaited, round, chosen>>
  BY DEF Register, callVars
<1>2. /\ i \in Results /\ i \in awaited /\ awaited \subseteq Results /\ context[i] = round
      /\ state[i] = "IDLE" \/ Finished(i)
  BY <1>1 DEF LoopOfCall, TypeOK, ContextsOfCall, ProducerTail
<1>3. /\ state' \in [Results -> {"IDLE", "CONSUMER_SET", "PRODUCER_DONE"}]
      /\ \A q \in Results : q # i => state'[q] = state[q]
      /\ state[i] = "IDLE" => state'[i] = "CONSUMER_SET"
      /\ Finished(i) => state'[i] = "PRODUCER_DONE"
  BY <1>1, <1>2 DEF TypeOK, Finished
<1>4. \/ apc' = "finish" /\ i' = i /\ \A r \in awaited : r <= i
      \/ /\ apc' = "check" /\ i' \in awaited /\ i' > i
         /\ \A r \in awaited : r < i' => r <= i
  BY <1>1, <1>2, AdvanceGoesOn
<1>5. TypeOK'
  BY <1>1, <1>2, <1>3, <1>4 DEF TypeOK, AwaiterPCs
<1>6. \A q \in Results : (Finished(q)' <=> Finished(q)) /\ Carried(q)' = Carried(q)
  BY <1>1, <1>2, <1>3 DEF Finished, Carried
<1>7. ProducerTail'
  <2>1. round \in 1 .. round
    BY WhenAnyAssumption DEF TypeOK
  <2> QED
    BY <1>1, <1>2, <1>3, <1>6, <2>1 DEF ProducerTail
<1>8. StatusOfCalls'
  BY <1>1, <1>4, <1>6 DEF StatusOfCalls, InWhenAll, Gathering, TypeOK
<1>9. ContextsOfCall'
  <2>1. ASSUME NEW q \in awaited, q > i
        PROVE  context'[q] # round' /\ (ppc'[q] \in Resuming => Carried(q)' # round')
    <3>1. q \in Results /\ q >= i
      BY <1>2, <2>1, WhenAnyAssumption DEF Results
    <3>2. context[q] # round /\ (ppc[q] \in Resuming => Carried(q) # round)
      BY <1>1, <2>1, <3>1 DEF ContextsOfCall
    <3> QED
      BY <1>1, <1>6, <3>1, <3>2
  <2>2. ASSUME apc' = "check"
        PROVE  i' \in awaited /\ i' > i /\ \A q \in awaited : q >= i' => q > i
    <3>1. i' \in awaited /\ i' > i
      BY <1>4, <2>2
    <3>2. \A q \in awaited : q >= i' => q > i
      BY <1>2, <3>1, WhenAnyAssumption DEF Results
    <3> QED
      BY <3>1, <3>2
  <2>3. i' \in awaited /\ \A q \in Results \ awaited : Finished(q)'
    BY <1>2, <1>4, <1>6 DEF ContextsOfCall
  <2>4. \A q \in Results \ awaited :
          context'[q] # round' /\ (ppc'[q] \in Resuming => Carried(q)' # round')
    BY <1>1, <1>6 DEF ContextsOfCall, InWhenAll, Gathering
  <2>5. \A q \in Results : ppc'[q] \in Resuming /\ Carried(q)' # Handle => status'[Carried(q)'] # q
    BY <1>1, <1>6 DEF ContextsOfCall
  <2>6. apc' \in {"finish", "check"}
    BY <1>4
  <2>7. apc' = "check" => \A q \in awaited :
          /\ q > i' => context'[q] # round'
          /\ q >= i' /\ ppc'[q] \in Resuming => Carried(q)' # round'
    <3>1. \A q \in awaited : q > i' => q >= i'
      BY <1>2, <2>3, WhenAnyAssumption DEF Results
    <3> QED
      BY <2>1, <2>2, <3>1
  <2>8. apc' = "check" => context'[i'] # round'
    BY <2>1, <2>2
  <2> QED
    BY <1>1, <2>3, <2>4, <2>5, <2>6, <2>7, <2>8 DEF ContextsOfCall
<1>10. LoopOfCall'
  <2>1. \A q \in awaited : q <= i => Registered(q)' \/ Finished(q)'
    BY <1>1, <1>2, <1>3, <1>6, WhenAnyAssumption DEF LoopOfCall, Registered, Finished, Results
  <2>2. \A q \in awaited : q > i => Untouched(q)' \/ Finished(q)'
    BY <1>1, <1>2, <1>3, <1>6, WhenAnyAssumption DEF LoopOfCall, Untouched, Finished, Results
  <2>3. CASE apc' = "finish"
    BY <1>1, <1>4, <2>1, <2>3 DEF LoopOfCall, Gathering
  <2>4. CASE apc' = "check"
    <3>1. i' \in awaited /\ i' > i /\ \A q \in awaited : q < i' => q <= i
      BY <1>4, <2>4
    <3>2. \A q \in awaited : q >= i' => q > i
      BY <1>2, <3>1, WhenAnyAssumption DEF Results
    <3>3. i' >= i' /\ \A q \in awaited : q > i' => q >= i'
      BY <1>2, <3>1, WhenAnyAssumption DEF Results
    <3> QED
      BY <1>1, <2>1, <2>2, <2>4, <3>1, <3>2, <3>3 DEF LoopOfCall, Gathering
  <2> QED
    BY <1>4, <2>3, <2>4
<1> QED
  BY <1>5, <1>7, <1>8, <1>9, <1>10

LEMMA ResumeInlineIInv == IInv /\ ResumeInline => IInv'
<1> SUFFICES ASSUME IInv, ResumeInline PROVE IInv'
  OBVIOUS
<1> USE DEF IInv
<1>1. /\ apc = "inline" /\ ResumeCoroutine /\ UNCHANGED <<resultVars, ppc, held, callVars>>
      /\ Finished(i) /\ i \in awaited /\ round \in 1 .. Rounds
      /\ status[round] \in awaited \cup {Processing}
  BY DEF ResumeInline, LoopOfCall, ContextsOfCall, StatusOfCalls, TypeOK, InWhenAll, Gathering
<1>2. CASE status[round] = Processing
  <2>1. status' = [status EXCEPT ![round] = i] /\ status'[round] = i
    BY <1>1, <1>2 DEF ResumeInline, TypeOK
  <2>2. ppc[i] \in Resuming => Carried(i) # round
    BY <1>1, WhenAnyAssumption DEF ContextsOfCall, TypeOK, Results
  <2> QED
    BY <1>1, <2>1, <2>2, ResumeCoroutineIInv
<1>3. CASE status[round] # Processing
  <2>1. status' = status
    BY <1>3 DEF ResumeInline, TypeOK
  <2> QED
    BY <1>1, <1>3, <2>1, ResumeCoroutineIInv
<1> QED
  BY <1>2, <1>3

LEMMA FinishProcessingIInv == IInv /\ FinishProcessing => IInv'
<1> SUFFICES ASSUME IInv, FinishProcessing PROVE IInv'
  OBVIOUS
<1> USE DEF IInv
<1>1. /\ apc = "finish" /\ UNCHANGED <<resultVars, ppc, held, callVars>>
      /\ status[round] \in awaited \cup {Processing} /\ round \in 1 .. Rounds
  BY DEF FinishProcessing, StatusOfCalls, TypeOK, InWhenAll, Gathering
<1>2. CASE status[round] # Processing
  BY <1>1, <1>2, ResumeCoroutineIInv DEF FinishProcessing, callVars
<1>3. CASE status[round] = Processing
  <2>1. /\ status' = [status EXCEPT ![round] = DoneProcessing] /\ apc' = "suspended" /\ UNCHANGED i
        /\ status'[round] = DoneProcessing
        /\ \A k \in 1 .. Rounds : k # round => status'[k] = status[k]
    BY <1>1, <1>3 DEF FinishProcessing, TypeOK
  <2>2. DoneProcessing \notin Results
    BY WhenAnyAssumption DEF DoneProcessing, Results
  <2>3. TypeOK' /\ ProducerTail'
    BY <1>1, <2>1 DEF TypeOK, AwaiterPCs, ProducerTail, Finished, callVars, resultVars
  <2>4. StatusOfCalls'
    BY <1>1, <2>1, <2>2 DEF StatusOfCalls, Finished, InWhenAll, Gathering, callVars, resultVars
  <2>5. ContextsOfCall'
    <3>1. \A q \in Results : Carried(q)' = Carried(q) /\ ppc'[q] = ppc[q]
      BY <1>1 DEF Carried, resultVars
    <3>2. ASSUME NEW q \in Results, ppc[q] \in Resuming, Carried(q) # Handle
          PROVE  status'[Carried(q)] # q
      <4>1. Carried(q) \in 1 .. Rounds /\ status[Carried(q)] # q
        BY <3>2, WhenAnyAssumption DEF ContextsOfCall, ProducerTail, Carried, Resuming, TypeOK
      <4> QED
        BY <2>1, <2>2, <4>1
    <3> QED
      BY <1>1, <2>1, <3>1, <3>2
         DEF ContextsOfCall, Finished, InWhenAll, Gathering, callVars, resultVars
  <2>6. LoopOfCall'
    BY <1>1, <2>1 DEF LoopOfCall, Registered, Finished, Gathering, callVars, resultVars
  <2> QED
    BY <2>3, <2>4, <2>5, <2>6
<1> QED
  BY <1>2, <1>3

-----------------------------------------------------------------------------
(* The steps of await_resume.                                              *)

(* The loop goes on or returns after a result that is as if nothing had    *)
(* happened; what the step does to that result is in the hypotheses.       *)
LEMMA ReturnOrAdvanceIInv ==
  ASSUME IInv, apc \in {"rewindLoad", "rewindCas", "clear"}, ReturnOrAdvance,
         UNCHANGED <<state, ppc, held, status, awaited, round>>,
         (state[i] = "IDLE" /\ context'[i] = 0) \/ Finished(i),
         \/ UNCHANGED context
         \/ apc = "clear" /\ context' = [context EXCEPT ![i] = 0]
  PROVE  IInv'
<1> USE DEF IInv
<1>1. /\ i \in Results /\ i \in awaited /\ awaited \subseteq Results /\ round \in 1 .. Rounds
      /\ Handle = -1 /\ round # 0
  BY WhenAnyAssumption DEF TypeOK, ContextsOfCall, Handle
<1>2. /\ context' \in [Results -> Handle .. round]
      /\ \A q \in Results : q # i => context'[q] = context[q]
      /\ context'[i] = context[i] \/ (context'[i] = 0 /\ ppc[i] \notin Resuming /\ state[i] # "CONSUMER_SET")
      /\ \A q \in Results : ppc[q] \in Resuming => Carried(q)' = Carried(q)
  <2>1. CASE UNCHANGED context
    BY <2>1 DEF TypeOK, Carried
  <2>2. CASE apc = "clear" /\ context' = [context EXCEPT ![i] = 0]
    <3>1. 0 \in Handle .. round /\ (state[i] = "IDLE" \/ ppc[i] = "done")
      BY <1>1, <2>2, WhenAnyAssumption DEF LoopOfCall, Handle
    <3> QED
      BY <1>1, <2>2, <3>1, ContextWritten
  <2> QED
    BY <2>1, <2>2
<1>3. /\ \/ apc' = "returned" /\ i' = i /\ \A r \in awaited : r <= i
         \/ /\ apc' = "rewindLoad" /\ i' \in awaited /\ i' > i
            /\ \A r \in awaited : r < i' => r <= i
      /\ chosen' = IF apc' = "returned" THEN status[round] ELSE chosen
  <2>1. Advance("rewindLoad", "returned")
    BY DEF ReturnOrAdvance
  <2> QED
    BY <1>1, <2>1, AdvanceGoesOn DEF ReturnOrAdvance
<1>4. status[round] \in awaited /\ apc' \in {"returned", "rewindLoad"} /\ i' \in awaited
  BY <1>1, <1>3 DEF StatusOfCalls
<1>5. TypeOK'
  <2>1. chosen' \in 0 .. N
    BY <1>1, <1>3, <1>4, WhenAnyAssumption DEF TypeOK, Results
  <2> QED
    BY <1>1, <1>2, <1>4, <2>1 DEF TypeOK, AwaiterPCs
<1>6. ProducerTail'
  BY <1>1, <1>2, <1>4 DEF ProducerTail, Finished, Resuming
<1>7. StatusOfCalls'
  BY <1>3, <1>4 DEF StatusOfCalls, Finished, InWhenAll, Gathering
<1>8. ContextsOfCall'
  BY <1>1, <1>2, <1>4 DEF ContextsOfCall, Finished, InWhenAll, Gathering
<1>9. LoopOfCall'
  <2>1. \A q \in awaited : q <= i => Untouched(q)' \/ Finished(q)'
    <3>1. ASSUME NEW q \in awaited, q < i PROVE Untouched(q)' \/ Finished(q)'
      <4>1. Untouched(q) \/ Finished(q)
        BY <3>1 DEF LoopOfCall
      <4>2. q \in Results /\ q # i
        BY <1>1, <3>1, WhenAnyAssumption DEF Results
      <4>3. context'[q] = context[q]
        BY <1>2, <4>2
      <4> QED
        BY <4>1, <4>3 DEF Untouched, Finished
    <3>2. \A q \in awaited : q = i => Untouched(q)' \/ Finished(q)'
      BY DEF Untouched, Finished
    <3>3. \A q \in awaited : q <= i => q < i \/ q = i
      BY <1>1, WhenAnyAssumption DEF Results
    <3> QED
      BY <3>1, <3>2, <3>3
  <2>2. \A q \in awaited : q > i => Registered(q)' \/ Untouched(q)' \/ Finished(q)'
    BY <1>1, <1>2, WhenAnyAssumption DEF LoopOfCall, Registered, Untouched, Finished, Results
  <2>3. CASE apc' = "returned"
    BY <1>3, <2>1, <2>3 DEF LoopOfCall, Gathering
  <2>4. CASE apc' = "rewindLoad"
    <3>1. i' \in awaited /\ i' > i /\ \A q \in awaited : q < i' => q <= i
      BY <1>3, <2>4
    <3>2. \A q \in awaited : q >= i' => q > i
      BY <1>1, <3>1, WhenAnyAssumption DEF Results
    <3>3. i' >= i' /\ \A q \in awaited : q > i' => q >= i'
      BY <1>1, <3>1, WhenAnyAssumption DEF Results
    <3> QED
      BY <2>1, <2>2, <2>4, <3>1, <3>2, <3>3 DEF LoopOfCall, Gathering
  <2> QED
    BY <1>4, <2>3, <2>4
<1> QED
  BY <1>5, <1>6, <1>7, <1>8, <1>9

LEMMA RewindLoadIInv == IInv /\ RewindLoad => IInv'
<1> SUFFICES ASSUME IInv, RewindLoad PROVE IInv'
  OBVIOUS
<1> USE DEF IInv
<1>1. /\ apc = "rewindLoad" /\ UNCHANGED <<state, context, ppc, held, status, awaited, round>>
      /\ Registered(i) \/ Untouched(i) \/ Finished(i)
  BY DEF RewindLoad, LoopOfCall, resultVars
<1>2. CASE state[i] = "CONSUMER_SET"
  <2>1. apc' = "rewindCas" /\ UNCHANGED <<i, chosen>> /\ Registered(i)
    BY <1>1, <1>2 DEF RewindLoad, Registered, Untouched, Finished
  <2>2. TypeOK' /\ ProducerTail' /\ StatusOfCalls'
    BY <1>1, <2>1 DEF TypeOK, AwaiterPCs, ProducerTail, StatusOfCalls, Finished, InWhenAll, Gathering
  <2>3. ContextsOfCall'
    BY <1>1, <2>1 DEF ContextsOfCall, Finished, InWhenAll, Gathering, Carried
  <2>4. LoopOfCall'
    BY <1>1, <2>1 DEF LoopOfCall, Registered, Untouched, Finished, Gathering
  <2> QED
    BY <2>2, <2>3, <2>4
<1>3. CASE state[i] # "CONSUMER_SET"
  <2>1. ReturnOrAdvance /\ ((state[i] = "IDLE" /\ context'[i] = 0) \/ Finished(i))
    BY <1>1, <1>3 DEF RewindLoad, Registered, Untouched, Finished
  <2> QED
    BY <1>1, <2>1, ReturnOrAdvanceIInv
<1> QED
  BY <1>2, <1>3

LEMMA RewindCasIInv == IInv /\ RewindCas => IInv'
<1> SUFFICES ASSUME IInv, RewindCas PROVE IInv'
  OBVIOUS
<1> USE DEF IInv
<1>1. /\ apc = "rewindCas" /\ UNCHANGED <<context, ppc, held, status, awaited, round>>
      /\ Registered(i) \/ Finished(i)
      /\ i \in Results /\ i \in awaited /\ awaited \subseteq Results
  BY DEF RewindCas, LoopOfCall, TypeOK, ContextsOfCall
<1>2. CASE state[i] = "CONSUMER_SET"
  <2>1. /\ apc' = "clear" /\ UNCHANGED <<i, chosen>>
        /\ state' = [state EXCEPT ![i] = "IDLE"]
    BY <1>2 DEF RewindCas
  <2>2. /\ state' \in [Results -> {"IDLE", "CONSUMER_SET", "PRODUCER_DONE"}]
        /\ state'[i] = "IDLE" /\ \A q \in Results : q # i => state'[q] = state[q]
    BY <1>1, <2>1 DEF TypeOK
  <2>3. \A q \in Results : (Finished(q)' <=> Finished(q)) /\ Carried(q)' = Carried(q)
    BY <1>1, <1>2, <2>2 DEF Finished, Carried
  <2>4. TypeOK' /\ ProducerTail'
    BY <1>1, <2>1, <2>2, <2>3 DEF TypeOK, AwaiterPCs, ProducerTail
  <2>5. StatusOfCalls'
    BY <1>1, <2>1, <2>3 DEF StatusOfCalls, InWhenAll, Gathering, TypeOK
  <2>6. ContextsOfCall'
    BY <1>1, <2>1, <2>3 DEF ContextsOfCall, InWhenAll, Gathering
  <2>7. LoopOfCall'
    <3>1. ASSUME NEW q \in awaited, q # i
          PROVE  (Registered(q)' <=> Registered(q)) /\ (Untouched(q)' <=> Untouched(q))
      BY <1>1, <2>2, <3>1 DEF Registered, Untouched
    <3>2. \A q \in awaited : (q < i \/ q > i) => q # i
      BY <1>1, WhenAnyAssumption DEF Results
    <3> QED
      BY <1>1, <2>1, <2>2, <2>3, <3>1, <3>2 DEF LoopOfCall, Gathering
  <2> QED
    BY <2>4, <2>5, <2>6, <2>7
<1>3. CASE state[i] # "CONSUMER_SET"
  <2>1. ReturnOrAdvance /\ UNCHANGED state /\ Finished(i)
    BY <1>1, <1>3 DEF RewindCas, Registered, Finished
  <2> QED
    BY <1>1, <2>1, ReturnOrAdvanceIInv
<1> QED
  BY <1>2, <1>3

LEMMA ClearContextIInv == IInv /\ ClearContext => IInv'
<1> SUFFICES ASSUME IInv, ClearContext PROVE IInv'
  OBVIOUS
<1> USE DEF IInv
<1>1. /\ apc = "clear" /\ ReturnOrAdvance /\ context' = [context EXCEPT ![i] = 0]
      /\ UNCHANGED <<state, ppc, held, status, awaited, round>>
      /\ state[i] = "IDLE" \/ Finished(i)
  BY DEF ClearContext, LoopOfCall, ProducerTail, TypeOK
<1>2. context'[i] = 0
  BY <1>1 DEF TypeOK
<1> QED
  BY <1>1, <1>2, ReturnOrAdvanceIInv

(* The caller awaits the others, which nobody has touched yet, with a new  *)
(* context.                                                                *)
LEMMA AwaitTheRestIInv == IInv /\ AwaitTheRest => IInv'
<1> SUFFICES ASSUME IInv, AwaitTheRest PROVE IInv'
  OBVIOUS
<1> USE DEF IInv
<1>1. /\ apc = "returned" /\ round < Rounds /\ awaited \ {chosen} # {}
      /\ awaited' = awaited \ {chosen} /\ round' = round + 1 /\ apc' = "check"
      /\ UNCHANGED <<state, context, ppc, held, status, chosen>>
  BY DEF AwaitTheRest, resultVars
<1>2. i' = Min(awaited') /\ awaited' \in SUBSET Results /\ awaited' # {}
  BY <1>1 DEF AwaitTheRest, TypeOK
<1>3. i' \in awaited' /\ \A q \in awaited' : i' <= q
  BY <1>2, MinIsLeast
<1>4. /\ round \in 1 .. Rounds /\ Rounds \in Nat /\ round' \in 1 .. Rounds
      /\ chosen = status[round] /\ chosen \in awaited /\ Finished(chosen)
  BY <1>1, WhenAnyAssumption DEF TypeOK, StatusOfCalls
<1>5. TypeOK'
  <2>1. Handle .. round \subseteq Handle .. round' /\ 0 .. round \subseteq 0 .. round'
    BY <1>1, <1>4 DEF Handle
  <2>2. context \in [Results -> Handle .. round'] /\ held \in [Results -> 0 .. round']
    BY <2>1 DEF TypeOK
  <2> QED
    BY <1>1, <1>2, <1>3, <1>4, <2>2 DEF TypeOK, AwaiterPCs
<1>6. ProducerTail'
  <2>1. 1 .. round \subseteq 1 .. round'
    BY <1>1, <1>4
  <2> QED
    BY <1>1, <2>1 DEF ProducerTail, Finished
<1>7. StatusOfCalls'
  <2>1. \A k \in 1 .. Rounds : k < round' => status[k] \in Results
    <3>1. ASSUME NEW k \in 1 .. Rounds, k < round' PROVE k < round \/ k = round
      BY <1>1, <1>4, <3>1
    <3>2. status[round] \in Results
      BY <1>4 DEF TypeOK
    <3> QED
      BY <3>1, <3>2 DEF StatusOfCalls
  <2>2. status[round'] = Processing /\ \A k \in 1 .. Rounds : k > round' => status[k] = Processing
    <3>1. round' > round /\ \A k \in 1 .. Rounds : k > round' => k > round
      BY <1>1, <1>4
    <3> QED
      BY <1>4, <3>1 DEF StatusOfCalls
  <2> QED
    BY <1>1, <2>1, <2>2 DEF StatusOfCalls, Finished, Processing, DoneProcessing
<1>8. ContextsOfCall'
  <2>1. \A q \in Results : context[q] # round' /\ (ppc[q] \in Resuming => Carried(q) # round')
    BY <1>1, <1>4 DEF TypeOK, Carried, Handle
  <2>2. \A q \in Results : Carried(q)' = Carried(q)
    BY <1>1 DEF Carried
  <2>3. \A q \in Results \ awaited' : Finished(q)'
    BY <1>1, <1>4 DEF ContextsOfCall, Finished
  <2>4. awaited' \subseteq Results /\ i' \in Results
    BY <1>2, <1>3
  <2> QED
    BY <1>1, <1>3, <2>1, <2>2, <2>3, <2>4 DEF ContextsOfCall
<1>9. LoopOfCall'
  <2>1. \A q \in awaited' : Untouched(q)' \/ Finished(q)'
    BY <1>1 DEF LoopOfCall, Untouched, Finished
  <2>2. \A q \in awaited' : ~(q < i')
    BY <1>2, <1>3, WhenAnyAssumption DEF Results
  <2> QED
    BY <1>1, <1>3, <2>1, <2>2 DEF LoopOfCall, Gathering
<1> QED
  BY <1>5, <1>6, <1>7, <1>8, <1>9

-----------------------------------------------------------------------------
(* The steps of WhenALL.                                                   *)

LEMMA WhenALLIInv == IInv /\ WhenALL => IInv'
<1> SUFFICES ASSUME IInv, WhenALL PROVE IInv'
  OBVIOUS
<1> USE DEF IInv
<1>1. /\ apc = "returned" /\ awaited \ {chosen} # {} /\ awaited' = awaited \ {chosen}
      /\ apc' = "awaitLoad" /\ UNCHANGED <<state, context, ppc, held, status, round, chosen>>
  BY DEF WhenALL, resultVars
<1>2. i' = Min(awaited') /\ awaited' \in SUBSET Results /\ awaited' # {}
  BY <1>1 DEF WhenALL, TypeOK
<1>3. i' \in awaited' /\ \A q \in awaited' : i' <= q
  BY <1>2, MinIsLeast
<1>4. chosen \in awaited /\ Finished(chosen)
  BY <1>1 DEF TypeOK, StatusOfCalls
<1>5. TypeOK' /\ ProducerTail'
  BY <1>1, <1>2, <1>3 DEF TypeOK, AwaiterPCs, Gathering, ProducerTail, Finished
<1>6. StatusOfCalls'
  BY <1>1 DEF StatusOfCalls, Finished, InWhenAll, Gathering
<1>7. ContextsOfCall'
  BY <1>1, <1>3, <1>4 DEF ContextsOfCall, Finished, InWhenAll, Gathering, Carried
<1>8. LoopOfCall'
  <2>1. \A q \in awaited' : Untouched(q)' \/ Finished(q)'
    BY <1>1 DEF LoopOfCall, Untouched, Finished
  <2>2. \A q \in awaited' : ~(q < i')
    BY <1>2, <1>3, WhenAnyAssumption DEF Results
  <2> QED
    BY <1>1, <1>3, <2>1, <2>2 DEF LoopOfCall, Gathering
<1> QED
  BY <1>5, <1>6, <1>7, <1>8

(* WhenALL's loop goes on after a result that has finished.                *)
LEMMA NextOfWhenALLIInv ==
  ASSUME IInv, apc \in {"awaitLoad", "awaitCas"}, Finished(i), Advance("awaitLoad", "gathered"),
         UNCHANGED <<state, context, ppc, held, status, awaited, round, chosen>>
  PROVE  IInv'
<1> USE DEF IInv
<1>1. i \in Results /\ i \in awaited /\ awaited \subseteq Results
  BY DEF TypeOK, ContextsOfCall
<1>2. \/ apc' = "gathered" /\ i' = i /\ \A q \in awaited : q <= i
      \/ /\ apc' = "awaitLoad" /\ i' \in awaited /\ i' > i
         /\ \A q \in awaited : q < i' => q <= i
  BY <1>1, AdvanceGoesOn
<1>3. apc' \in {"gathered", "awaitLoad"} /\ i' \in awaited
  BY <1>1, <1>2
<1>4. TypeOK' /\ ProducerTail'
  BY <1>1, <1>3 DEF TypeOK, AwaiterPCs, Gathering, ProducerTail, Finished
<1>5. StatusOfCalls' /\ ContextsOfCall'
  BY <1>3 DEF StatusOfCalls, ContextsOfCall, Finished, InWhenAll, Gathering, Carried
<1>6. LoopOfCall'
  <2>1. \A q \in awaited : q <= i => Finished(q)'
    <3>1. \A q \in awaited : q <= i => q < i \/ q = i
      BY <1>1, WhenAnyAssumption DEF Results
    <3> QED
      BY <3>1 DEF LoopOfCall, Gathering, Finished
  <2>2. \A q \in awaited : q > i => Untouched(q)' \/ Finished(q)'
    BY DEF LoopOfCall, Gathering, Untouched, Finished
  <2>3. CASE apc' = "gathered"
    BY <1>2, <2>1, <2>3 DEF LoopOfCall, Gathering
  <2>4. CASE apc' = "awaitLoad"
    <3>1. i' \in awaited /\ i' > i /\ \A q \in awaited : q < i' => q <= i
      BY <1>2, <2>4
    <3>2. \A q \in awaited : q > i' => q > i
      BY <1>1, <3>1, WhenAnyAssumption DEF Results
    <3> QED
      BY <2>1, <2>2, <2>4, <3>1, <3>2 DEF LoopOfCall, Gathering
  <2> QED
    BY <1>3, <2>3, <2>4
<1> QED
  BY <1>4, <1>5, <1>6

LEMMA AwaitLoadIInv == IInv /\ AwaitLoad => IInv'
<1> SUFFICES ASSUME IInv, AwaitLoad PROVE IInv'
  OBVIOUS
<1> USE DEF IInv
<1>1. /\ apc = "awaitLoad" /\ (Untouched(i) \/ Finished(i))
      /\ UNCHANGED <<state, context, ppc, held, status, awaited, round, chosen>>
  BY DEF AwaitLoad, LoopOfCall, resultVars, callVars
<1>2. CASE Finished(i)
  BY <1>1, <1>2, NextOfWhenALLIInv DEF AwaitLoad, Finished
<1>3. CASE ~Finished(i)
  <2>1. apc' = "awaitSet" /\ UNCHANGED i /\ Untouched(i)
    BY <1>1, <1>3 DEF AwaitLoad, Finished
  <2>2. TypeOK' /\ ProducerTail'
    BY <1>1, <2>1 DEF TypeOK, AwaiterPCs, Gathering, ProducerTail, Finished
  <2>3. StatusOfCalls' /\ ContextsOfCall'
    BY <1>1, <2>1 DEF StatusOfCalls, ContextsOfCall, Finished, InWhenAll, Gathering, Carried
  <2>4. LoopOfCall'
    BY <1>1, <2>1 DEF LoopOfCall, Untouched, Finished, Gathering
  <2> QED
    BY <2>2, <2>3, <2>4
<1> QED
  BY <1>2, <1>3

LEMMA SetAwaitHandleIInv == IInv /\ SetAwaitHandle => IInv'
<1> SUFFICES ASSUME IInv, SetAwaitHandle PROVE IInv'
  OBVIOUS
<1> USE DEF IInv
<1>1. /\ apc = "awaitSet" /\ apc' = "awaitCas" /\ context' = [context EXCEPT ![i] = Handle]
      /\ UNCHANGED <<state, ppc, held, status, i, awaited, round, chosen>>
  BY DEF SetAwaitHandle, callVars
<1>2. /\ state[i] = "IDLE" \/ ppc[i] = "done"
      /\ Handle \in Handle .. round /\ i \in Results /\ awaited \subseteq Results
  BY <1>1, WhenAnyAssumption DEF LoopOfCall, TypeOK, Handle
<1>3. /\ context' \in [Results -> Handle .. round] /\ context'[i] = Handle
      /\ \A q \in Results : q # i => context'[q] = context[q]
      /\ ppc[i] \notin Resuming /\ state[i] # "CONSUMER_SET"
      /\ \A q \in Results : ppc'[q] \in Resuming => Carried(q)' = Carried(q)
  BY <1>1, <1>2, ContextWritten
<1>4. TypeOK' /\ ProducerTail'
  BY <1>1, <1>2, <1>3 DEF TypeOK, AwaiterPCs, Gathering, ProducerTail, Finished, Resuming
<1>5. StatusOfCalls' /\ ContextsOfCall'
  BY <1>1, <1>3 DEF StatusOfCalls, ContextsOfCall, Finished, InWhenAll, Gathering
<1>6. LoopOfCall'
  <2>1. \A q \in awaited : q > i => Untouched(q)' \/ Finished(q)'
    BY <1>1, <1>2, <1>3, WhenAnyAssumption DEF LoopOfCall, Gathering, Untouched, Finished, Results
  <2> QED
    BY <1>1, <1>2, <1>3, <2>1 DEF LoopOfCall, Finished, Gathering
<1> QED
  BY <1>4, <1>5, <1>6

LEMMA AwaitIInv == IInv /\ Await => IInv'
<1> SUFFICES ASSUME IInv, Await PROVE IInv'
  OBVIOUS
<1> USE DEF IInv
<1>1. /\ apc = "awaitCas" /\ UNCHANGED <<context, ppc, held, status, awaited, round, chosen>>
      /\ i \in Results /\ i \in awaited /\ awaited \subseteq Results
      /\ context[i] = Handle /\ (state[i] = "IDLE" \/ Finished(i))
  BY DEF Await, LoopOfCall, TypeOK, ContextsOfCall, ProducerTail, callVars
<1>2. CASE state[i] = "IDLE"
  <2>1. /\ apc' = "awaiting" /\ UNCHANGED i
        /\ state' = [state EXCEPT ![i] = "CONSUMER_SET"]
    BY <1>2 DEF Await
  <2>2. /\ state' \in [Results -> {"IDLE", "CONSUMER_SET", "PRODUCER_DONE"}]
        /\ state'[i] = "CONSUMER_SET" /\ \A q \in Results : q # i => state'[q] = state[q]
    BY <1>1, <2>1 DEF TypeOK
  <2>3. \A q \in Results : (Finished(q)' <=> Finished(q)) /\ Carried(q)' = Carried(q)
    BY <1>1, <1>2, <2>2 DEF Finished, Carried
  <2>4. TypeOK' /\ ProducerTail'
    BY <1>1, <2>1, <2>2, <2>3 DEF TypeOK, AwaiterPCs, Gathering, ProducerTail
  <2>5. StatusOfCalls' /\ ContextsOfCall'
    BY <1>1, <2>1, <2>3 DEF StatusOfCalls, ContextsOfCall, InWhenAll, Gathering, TypeOK
  <2>6. LoopOfCall'
    <3>1. \A q \in awaited : q > i => Untouched(q)' \/ Finished(q)'
      BY <1>1, <2>2, <2>3, WhenAnyAssumption DEF LoopOfCall, Gathering, Untouched, Results
    <3>2. \A q \in awaited : q < i => Finished(q)'
      BY <1>1, <2>3 DEF LoopOfCall, Gathering
    <3> QED
      BY <1>1, <2>1, <2>2, <3>1, <3>2 DEF LoopOfCall, Gathering
  <2> QED
    BY <2>4, <2>5, <2>6
<1>3. CASE state[i] # "IDLE"
  BY <1>1, <1>3, NextOfWhenALLIInv DEF Await
<1> QED
  BY <1>2, <1>3

-----------------------------------------------------------------------------
LEMMA NextIInv == IInv /\ [Next]_vars => IInv'
<1> SUFFICES ASSUME IInv, [Next]_vars PROVE IInv'
  OBVIOUS
<1>1. ASSUME NEW r \in Results, ProducerStep(r) PROVE IInv'
  BY <1>1, CompleteProducerIInv, ResumeConsumerIInv, TryResumeLoadIInv, TryResumeDoneIInv,
     TryResumeProcessingIInv DEF ProducerStep
<1>2. CASE AwaiterStep
  BY <1>2, AnyResultFinishedIInv, WhenAnyLoadIInv, SetWhenAnyContextIInv, RegisterIInv,
     ResumeInlineIInv, FinishProcessingIInv, RewindLoadIInv, RewindCasIInv, ClearContextIInv,
     AwaitLoadIInv, SetAwaitHandleIInv, AwaitIInv DEF AwaiterStep
<1>3. CASE UNCHANGED vars
  BY <1>3 DEF IInv, TypeOK, ProducerTail, StatusOfCalls, ContextsOfCall, LoopOfCall, vars,
              Registered, Untouched, Finished, InWhenAll, Carried
<1> QED
  BY <1>1, <1>2, <1>3, AwaitTheRestIInv, WhenALLIInv DEF Next, Quiet

(* The inductive invariant: where the loops are, what the contexts and     *)
(* their statuses say of it, and what the producers still carry.           *)
THEOREM Invariance == Spec => []IInv
BY InitIInv, NextIInv, PTL DEF Spec

(* WhenAny returns one of the results it was given, and that one has       *)
(* finished; every other result has finished or is as if WhenAny had never *)
(* been called on it.  WhenALL returns when all have finished.             *)
THEOREM TheOthersUntouched == Spec => []ReturnsFinished
<1>1. IInv => ReturnsFinished
  BY DEF IInv, TypeOK, StatusOfCalls, LoopOfCall, ReturnsFinished, Finished, Untouched
<1> QED
  BY <1>1, Invariance, PTL

(* No context is written while a producer may read it, the asserts of      *)
(* CYWhenAnyContext and CYResultState hold, and a registration only fails  *)
(* because its producer is done.                                           *)
THEOREM NoRaceOnContexts == Spec => []NoContextRace
<1>1. ASSUME IInv PROVE NoContextRace
  <2>1. \A r \in Results :
          ppc[r] = "resume" => ~(apc \in {"set", "clear", "awaitSet"} /\ i = r)
    BY <1>1 DEF IInv, LoopOfCall, ProducerTail, Finished
  <2>2. apc \in {"cas", "awaitCas"} => state[i] \in {"IDLE", "PRODUCER_DONE"}
    BY <1>1 DEF IInv, TypeOK, LoopOfCall, ProducerTail, Finished
  <2>3. apc = "rewindCas" => state[i] \in {"CONSUMER_SET", "PRODUCER_DONE"}
    BY <1>1 DEF IInv, LoopOfCall, Registered, Finished
  <2> QED
    BY <1>1, <2>1, <2>2, <2>3 DEF IInv, StatusOfCalls, LoopOfCall, NoContextRace
<1> QED
  BY <1>1, Invariance, PTL

(* A suspended coroutine has its context with every result it awaits that  *)
(* is not finished; in WhenALL, with the one that it has come to.          *)
THEOREM RegisteredWhileSuspended == Spec => []SuspendedIsRegistered
<1>1. IInv => SuspendedIsRegistered
  BY DEF IInv, LoopOfCall, SuspendedIsRegistered, Registered, Finished
<1> QED
  BY <1>1, Invariance, PTL

(* However many results finish at the same time, and whatever producers    *)
(* still hold a context of an earlier call, the coroutine is resumed only  *)
(* while it is suspended in the call that the context belongs to.          *)
THEOREM ResumedOnce == Spec => ResumesOnlySuspended
<1> DEFINE Resumes(r) ==
      /\ ppc[r] = "casDone" /\ ppc'[r] = "done" /\ status'[held[r]] = r
           => apc = "suspended" /\ held[r] = round
      /\ ppc[r] = "resume" /\ context[r] = Handle => apc = "awaiting" /\ i = r
<1>1. ASSUME IInv, [Next]_vars, NEW r \in Results PROVE Resumes(r)
  <2> USE DEF IInv
  <2>1. ppc[r] = "resume" /\ context[r] = Handle => apc = "awaiting" /\ i = r
    BY <1>1, WhenAnyAssumption DEF ProducerTail, Handle, TypeOK
  <2>2. ASSUME ppc[r] = "casDone", ppc'[r] = "done", status'[held[r]] = r
        PROVE  apc = "suspended" /\ held[r] = round
    <3>1. /\ held[r] \in 1 .. round /\ held[r] \in 1 .. Rounds
          /\ status[held[r]] # r
      <4>1. held[r] \in 1 .. round /\ held[r] \in 1 .. Rounds /\ held[r] # Handle
        BY <1>1, <2>2, WhenAnyAssumption DEF ProducerTail, TypeOK, Handle
      <4>2. ppc[r] \in Resuming /\ Carried(r) = held[r]
        BY <2>2 DEF Carried, Resuming
      <4> QED
        BY <1>1, <4>1, <4>2 DEF ContextsOfCall
    <3>2. TryResumeDone(r)
      <4>1. ~UNCHANGED ppc
        BY <2>2
      <4>2. ASSUME NEW q \in Results, ProducerStep(q) PROVE q = r
        BY <1>1, <2>2, <4>2 DEF ProducerStep, CompleteProducer, ResumeConsumer, TryResumeLoad,
              TryResumeDone, TryResumeProcessing, TypeOK
      <4>3. ~AwaiterStep /\ ~AwaitTheRest /\ ~WhenALL /\ ~Quiet /\ ~UNCHANGED vars
        BY <4>1 DEF AwaiterStep, AnyResultFinished, WhenAnyLoad, SetWhenAnyContext, Register,
              ResumeInline, FinishProcessing, RewindLoad, RewindCas, ClearContext, AwaitLoad,
              SetAwaitHandle, Await, AwaitTheRest, WhenALL, Quiet, vars
      <4>4. ProducerStep(r)
        BY <1>1, <4>2, <4>3 DEF Next
      <4> QED
        BY <2>2, <4>4 DEF ProducerStep, CompleteProducer, ResumeConsumer, TryResumeLoad,
              TryResumeProcessing
    <3>3. status[held[r]] = DoneProcessing
      BY <2>2, <3>1, <3>2 DEF TryResumeDone
    <3>4. held[r] = round
      <4>1. DoneProcessing \notin Results
        BY WhenAnyAssumption DEF DoneProcessing, Results
      <4>2. ~(held[r] < round)
        BY <1>1, <3>1, <3>3, <4>1 DEF StatusOfCalls
      <4> QED
        BY <1>1, <3>1, <4>2, WhenAnyAssumption DEF TypeOK
    <3> QED
      BY <1>1, <3>3, <3>4 DEF StatusOfCalls
  <2> QED
    BY <2>1, <2>2
<1>2. IInv /\ [Next]_vars => [\A r \in Results : Resumes(r)]_vars
  BY <1>1
<1> QED
  BY <1>2, Invariance, PTL DEF Spec, ResumesOnlySuspended
=============================================================================
