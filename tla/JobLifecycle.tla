---------------------------- MODULE JobLifecycle ----------------------------
(***************************************************************************)
(* What the job store promises about one job, whatever leases, clocks,     *)
(* keys and transactions do underneath: a job is created once, started at  *)
(* most max_attempts times, ends in exactly one terminal status, never     *)
(* leaves it, and is deleted only from there.                              *)
(***************************************************************************)
EXTENDS Integers

CONSTANT Jobs

VARIABLE life   \* where each job stands

Ended == {"succeeded", "failed", "cancelled"}
Lives == [status : {"unused", "pending", "running", "deleted"} \union Ended,
          attempts : Nat, max_attempts : Nat]

Unborn == [status |-> "unused", attempts |-> 0, max_attempts |-> 0]

Init == life = [j \in Jobs |-> Unborn]

(***************************************************************************)
(* One transition of one job.                                              *)
(***************************************************************************)
Create(a, b) ==
  /\ a = Unborn
  /\ b.status = "pending" /\ b.attempts = 0 /\ b.max_attempts > 0

Start(a, b) ==
  /\ a.status \in {"pending", "running"}
  /\ a.attempts < a.max_attempts
  /\ b = [status |-> "running", attempts |-> a.attempts + 1,
          max_attempts |-> a.max_attempts]

Retry(a, b) ==
  /\ a.status = "running"
  /\ a.attempts < a.max_attempts
  /\ b = [a EXCEPT !.status = "pending"]

Discard(a, b) ==
  a.status = "pending" /\ b = [a EXCEPT !.status = "cancelled"]

End(a, b) ==
  /\ a.status = "running"
  /\ \E s \in Ended : b = [a EXCEPT !.status = s]

Delete(a, b) ==
  a.status \in Ended /\ b = [Unborn EXCEPT !.status = "deleted"]

JobStep(a, b) ==
  \/ Create(a, b) \/ Start(a, b) \/ Retry(a, b)
  \/ Discard(a, b) \/ End(a, b) \/ Delete(a, b)

(***************************************************************************)
(* One store operation may move several jobs: a claim settles expired      *)
(* leases beside the job it starts, a cleanup deletes a batch.             *)
(***************************************************************************)
Next ==
  /\ life' \in [Jobs -> Lives]
  /\ \A j \in Jobs : life'[j] = life[j] \/ JobStep(life[j], life'[j])

vars == <<life>>
Spec == Init /\ [][Next]_vars
=============================================================================
