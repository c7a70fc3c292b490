---------------------------- MODULE MCJobOutbox ----------------------------
(***************************************************************************)
(* Small instances of JobOutbox.                                           *)
(***************************************************************************)
EXTENDS JobOutbox, TLC

CONSTANTS j1, j2, w1, w2, email, k1

Job(max, delay, mode, key) ==
  [job_type |-> email, max_attempts |-> max, delay |-> delay,
   mode |-> mode, key |-> key]

MCHandles == [w \in Workers |-> JobTypes]
MCRetention == [s \in Terminal |-> 0]

\* A producer without keys of a job due before it was created, one with an
\* idempotency key, and one of each deduplication mode, two attempts where a
\* retry matters.
MCNewJobs ==
  {Job(1, -1, "idempotency", None), Job(2, 0, "idempotency", k1),
   Job(2, 0, "active", k1), Job(2, 0, "pending", k1)}

Symmetric == Permutations(Jobs) \union Permutations(Workers)
=============================================================================
