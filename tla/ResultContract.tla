--------------------------- MODULE ResultContract ---------------------------
(***************************************************************************)
(* What a result promises its two parties, without saying how: an outcome  *)
(* is delivered once, a consumer that waits for it is let go when it is    *)
(* there (or, if it waits with a deadline, earlier), the outcome that is   *)
(* taken is the one delivered, and the storage goes away when the last     *)
(* party has left.                                                         *)
(***************************************************************************)
CONSTANTS Outcomes, Idle

VARIABLES
  outcome,   \* what has been delivered, Idle before
  blocked,   \* how the consumer waits: "no", "forever" or "timed"
  taken,     \* what the consumer took
  gone,      \* the consumer has given up its handle
  freed      \* the storage has been released

cvars == <<outcome, blocked, taken, gone, freed>>

CInit ==
  /\ outcome = Idle
  /\ blocked = "no"
  /\ taken = Idle
  /\ gone = FALSE
  /\ freed = FALSE

Deliver ==
  /\ outcome = Idle
  /\ \E v \in Outcomes : outcome' = v
  /\ UNCHANGED <<blocked, taken, gone, freed>>

Block ==
  /\ ~gone /\ blocked = "no" /\ outcome = Idle
  /\ blocked' \in {"forever", "timed"}
  /\ UNCHANGED <<outcome, taken, gone, freed>>

(* Only the outcome releases a consumer that waits without a deadline.     *)
Unblock ==
  /\ blocked = "forever" /\ outcome # Idle
  /\ blocked' = "no"
  /\ UNCHANGED <<outcome, taken, gone, freed>>

Expire ==
  /\ blocked = "timed"
  /\ blocked' = "no"
  /\ UNCHANGED <<outcome, taken, gone, freed>>

(* The consumer that takes the outcome is the last party.                  *)
Take ==
  /\ ~gone /\ blocked = "no" /\ outcome # Idle
  /\ taken' = outcome
  /\ gone' = TRUE
  /\ freed' = TRUE
  /\ UNCHANGED <<outcome, blocked>>

Abandon ==
  /\ ~gone /\ blocked = "no"
  /\ gone' = TRUE
  /\ freed' = (outcome # Idle)
  /\ UNCHANGED <<outcome, blocked, taken>>

(* The producer delivered to a consumer that had already left.             *)
Free ==
  /\ gone /\ outcome # Idle /\ ~freed
  /\ freed' = TRUE
  /\ UNCHANGED <<outcome, blocked, taken, gone>>

CNext == Deliver \/ Block \/ Unblock \/ Expire \/ Take \/ Abandon \/ Free

CSpec ==
  CInit /\ [][CNext]_cvars /\ WF_cvars(Deliver) /\ WF_cvars(Unblock) /\ WF_cvars(Free)
=============================================================================
