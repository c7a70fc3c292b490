---------------------------- MODULE MCJobRunner ----------------------------
(***************************************************************************)
(* Small instances of JobRunner.                                           *)
(***************************************************************************)
EXTENDS JobRunner, TLC

CONSTANTS j1, j2, w1, w2, s1, s2, email

Job(max, delay) ==
  [job_type |-> email, max_attempts |-> max, delay |-> delay,
   mode |-> "idempotency", key |-> None]

TwoAttempts == {Job(2, 0)}

Symmetric == Permutations(Jobs) \union Permutations(Workers)
               \union Permutations(Slots)
=============================================================================
