-------------------------- MODULE ExecutorContract --------------------------
(***************************************************************************)
(* What an executor promises for the tasks that are handed to it, without  *)
(* saying how: a task that it accepts is run or, after a shutdown was      *)
(* requested, destroyed - one of the two, once, and eventually.  A task is *)
(* refused only after a shutdown was requested, and when the shutdown has  *)
(* completed the executor is rid of every task.                            *)
(***************************************************************************)
CONSTANT Tasks

VARIABLES
  fate,       \* what has become of each task
  requested,  \* a shutdown has been requested
  closed      \* the shutdown has completed

evars == <<fate, requested, closed>>

Fates == {"new", "queued", "running", "executed", "destroyed", "refused"}

(* The tasks that the executor still has to take care of.                  *)
Pending == {"queued", "running"}

EInit ==
  /\ fate = [t \in Tasks |-> "new"]
  /\ requested = FALSE
  /\ closed = FALSE

(* A span of tasks is accepted or refused as a whole.                      *)
Accept ==
  /\ ~closed
  /\ \E batch \in SUBSET {t \in Tasks : fate[t] = "new"} :
       fate' = [t \in Tasks |-> IF t \in batch THEN "queued" ELSE fate[t]]
  /\ UNCHANGED <<requested, closed>>

Refuse ==
  /\ requested
  /\ \E batch \in SUBSET {t \in Tasks : fate[t] = "new"} :
       fate' = [t \in Tasks |-> IF t \in batch THEN "refused" ELSE fate[t]]
  /\ UNCHANGED <<requested, closed>>

Start(t) ==
  /\ fate[t] = "queued"
  /\ fate' = [fate EXCEPT ![t] = "running"]
  /\ UNCHANGED <<requested, closed>>

Finish(t) ==
  /\ fate[t] = "running"
  /\ fate' = [fate EXCEPT ![t] = "executed"]
  /\ UNCHANGED <<requested, closed>>

Destroy ==
  /\ requested
  /\ \E batch \in SUBSET {t \in Tasks : fate[t] = "queued"} :
       fate' = [t \in Tasks |-> IF t \in batch THEN "destroyed" ELSE fate[t]]
  /\ UNCHANGED <<requested, closed>>

Request ==
  /\ requested' = TRUE
  /\ UNCHANGED <<fate, closed>>

(* The step that completes a shutdown destroys what is left; it may be the *)
(* one that ends the last task.                                            *)
Close ==
  /\ requested
  /\ fate' = [t \in Tasks |-> CASE fate[t] = "queued" -> "destroyed"
                                [] fate[t] = "running" -> "executed"
                                [] OTHER -> fate[t]]
  /\ closed' = TRUE
  /\ UNCHANGED requested

ENext ==
  \/ Accept \/ Refuse \/ Destroy \/ Request \/ Close
  \/ \E t \in Tasks : Start(t) \/ Finish(t)

(* An accepted task does not stay where it is: the tasks are finitely many *)
(* and none is offered twice, so that at last none of them is pending.     *)
Progress == []<>(\A t \in Tasks : fate[t] \notin Pending)

(* A shutdown that was requested completes.                                *)
Closing == []<>(requested => closed)

ESpec == EInit /\ [][ENext]_evars /\ Progress /\ Closing
=============================================================================
