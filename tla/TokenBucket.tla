----------------------------- MODULE TokenBucket -----------------------------
(***************************************************************************)
(* What a rate-limit store promises (RateLimitStore, store.rs): every key   *)
(* has one bucket that refills steadily up to its capacity.  A store that   *)
(* has no place for every key may forget a bucket, which is full then, when *)
(* it needs the place for another one.  A level counts parts of a token:    *)
(* one request costs Cost parts, and Rate parts come back each tick.        *)
(***************************************************************************)
EXTENDS Integers, FiniteSets

CONSTANTS Keys, Rate, Cost, Capacity, MaxBuckets

VARIABLE level

Refilled(parts) == IF parts > Capacity THEN Capacity ELSE parts

Init == level = [k \in Keys |-> Capacity]

Take(k) ==
  /\ level[k] >= Cost
  /\ level' = [level EXCEPT ![k] = @ - Cost]

Pass == level' = [k \in Keys |-> Refilled(level[k] + Rate)]

Crowded == ~(IsFiniteSet(Keys) /\ Cardinality(Keys) <= MaxBuckets)

(* Only a full bucket is not kept, so only one that was full takes a place. *)
Displace(k, j) ==
  /\ Crowded /\ j # k
  /\ level[k] = Capacity /\ level[k] >= Cost
  /\ level' = [level EXCEPT ![k] = @ - Cost, ![j] = Capacity]

Next ==
  \/ Pass
  \/ \E k \in Keys : Take(k) \/ \E j \in Keys : Displace(k, j)

Spec == Init /\ [][Next]_level
==============================================================================
