---------------------------- MODULE MCHttpProofs ----------------------------
(***************************************************************************)
(* Theorems about the machines of MCHttp: those that limit requests and    *)
(* amounts, those whose writes take effect at most once, and the one that  *)
(* keeps serving under load.  They hold for any subjects, addresses and    *)
(* callers, rates, periods, bursts, limits and windows.                    *)
(***************************************************************************)
EXTENDS MCHttp, Sequences, FiniteSetTheorems, FunctionTheorems, TLAPS

-----------------------------------------------------------------------------
(* Parts of a token, rounded up. *)
LEMMA Ceiling ==
  ASSUME NEW x \in Nat, NEW r \in Nat \ {0}
  PROVE  /\ (x + r - 1) \div r \in Nat
         /\ ((x + r - 1) \div r) * r >= x
<1>1. PICK q, m : q = (x + r - 1) \div r /\ m = (x + r - 1) % r
  OBVIOUS
<1>2. q \in Int /\ m \in 0..(r - 1) /\ x + r - 1 = r * q + m
  BY <1>1
<1>3. q >= 0
  <2> SUFFICES ASSUME q <= -1 PROVE FALSE
    BY <1>2
  <2>1. r * q <= -r
    BY <1>2
  <2> QED
    BY <1>2, <2>1
<1>4. r * q = q * r
  BY <1>2
<1> QED
  BY <1>1, <1>2, <1>3, <1>4

LEMMA Product == \A a \in Nat, r \in Nat : a * r \in Nat /\ (a + 1) * r = (a * r) + r
OBVIOUS

LEMMA CapacityHolds ==
  ASSUME NEW rate \in Nat \ {0}, NEW burst \in Nat, NEW period \in Nat \ {0}
  PROVE  (rate + burst) * period \in Nat /\ (rate + burst) * period >= period
<1>1. (rate + burst) - 1 \in Nat
  OBVIOUS
<1>2. ((rate + burst) - 1) * period \in Nat
  BY <1>1, Product
<1>3. (rate + burst) * period = (((rate + burst) - 1) * period) + period
  BY <1>1, Product
<1> QED
  BY <1>2, <1>3
-----------------------------------------------------------------------------
(* Buckets, for any keys and addresses, a capacity cap in parts, an idle    *)
(* time ttl in which a bucket fills and a price of period parts.            *)
BucketParams(cap, ttl, period) ==
  /\ RequestsPerPeriod \in Nat \ {0} /\ period \in Nat \ {0} /\ None \notin Nat
  /\ MaxEntries \in Nat \ {0}
  /\ cap \in Nat /\ cap >= period
  /\ ttl \in Nat /\ ttl * RequestsPerPeriod >= cap

Filled(parts, cap) == IF parts > cap THEN cap ELSE parts
Held == DOMAIN entries
Level(k, cap) ==
  IF k \in Held THEN Filled(entries[k].tokens + entries[k].age * RequestsPerPeriod, cap) ELSE cap
EntryOf(cap, ttl) == [tokens : 0 .. cap, age : 0 .. ttl]

RateBuckets(keys, addresses, cap, ttl) ==
  /\ Held \subseteq keys /\ IsFiniteSet(Held) /\ Cardinality(Held) <= MaxEntries
  /\ entries \in [Held -> EntryOf(cap, ttl)]
  /\ caller \in [RateCallers -> addresses \cup {None}]

(* Who waits out what is rest of its hint finds a token.                     *)
RateWaits(keys, cap, period) ==
  /\ wait = [k \in keys |-> wait[k]]
  /\ \A k \in keys : wait[k] # None =>
       wait[k] \in Nat /\ Level(k, cap) + (wait[k] * RequestsPerPeriod) >= period

RateInv(keys, addresses, cap, ttl, period) ==
  RateBuckets(keys, addresses, cap, ttl) /\ RateWaits(keys, cap, period)

(* A check keeps the buckets ks of those held: each that is not full, or all *)
(* but one when a full bucket needs its place.                               *)
Live(ttl) == {k \in Held : entries[k].age < ttl}
RoomFor(keys) == IsFiniteSet(keys) /\ Cardinality(keys) <= MaxEntries
Keeps(keys, k, ks, ttl) ==
  /\ ks \subseteq Held /\ Cardinality(ks \cup {k}) <= MaxEntries
  /\ \/ Live(ttl) \subseteq ks
     \/ /\ ~RoomFor(keys) /\ k \notin Live(ttl)
        /\ \E j \in keys \ {k} : Live(ttl) \ {j} \subseteq ks
PartsOf(k, ks, cap) == IF k \in ks THEN Level(k, cap) ELSE cap
HintOf(parts, period) == (period - parts + RequestsPerPeriod - 1) \div RequestsPerPeriod
Charges(k, ks, allowed, cap, period) ==
  LET parts == PartsOf(k, ks, cap)
      rest == IF allowed THEN parts - period ELSE parts
  IN /\ allowed = (parts >= period)
     /\ entries' = [j \in ks \cup {k} |-> IF j = k THEN [tokens |-> rest, age |-> 0]
                                          ELSE entries[j]]
     /\ wait' = [wait EXCEPT ![k] = IF allowed THEN None ELSE HintOf(parts, period)]
RateChecks(keys, k, allowed, cap, ttl, period) ==
  \E ks : Keeps(keys, k, ks, ttl) /\ Charges(k, ks, allowed, cap, period)

RateAges(keys, ttl) ==
  /\ entries' = [k \in Held |->
       [entries[k] EXCEPT !.age = IF entries[k].age < ttl THEN entries[k].age + 1
                                  ELSE entries[k].age]]
  /\ wait' = [k \in keys |-> IF wait[k] \in {None, 0} THEN wait[k] ELSE wait[k] - 1]

(* A store error hints a period or nothing. *)
RateFails(keys, period) ==
  /\ entries' = entries
  /\ wait' = wait \/ \E k \in keys : wait' = [wait EXCEPT ![k] = period]

RateActs(keys, addresses, cap, ttl, period) ==
  /\ caller' \in [RateCallers -> addresses \cup {None}]
  /\ \/ \E k \in keys, allowed \in BOOLEAN : RateChecks(keys, k, allowed, cap, ttl, period)
     \/ RateFails(keys, period)
     \/ RateAges(keys, ttl)

(* What the bucket of each key does.                                         *)
LevelTaken(keys, k, cap, period) ==
  /\ Level(k, cap) >= period /\ Level(k, cap)' = Level(k, cap) - period
  /\ \A j \in keys \ {k} : Level(j, cap)' = Level(j, cap)
LevelPassed(keys, cap) ==
  \A k \in keys : Level(k, cap)' = Filled(Level(k, cap) + RequestsPerPeriod, cap)
LevelDisplaced(keys, k, j, cap, period) ==
  /\ Level(k, cap) = cap /\ Level(k, cap)' = cap - period
  /\ Level(j, cap)' = cap
  /\ \A i \in keys \ {k, j} : Level(i, cap)' = Level(i, cap)
LevelsMove(keys, cap, period) ==
  \/ \A k \in keys : Level(k, cap)' = Level(k, cap)
  \/ \E k \in keys : LevelTaken(keys, k, cap, period)
  \/ /\ ~RoomFor(keys)
     /\ \E k \in keys : \E j \in keys \ {k} : LevelDisplaced(keys, k, j, cap, period)
  \/ LevelPassed(keys, cap)

LEMMA LevelTyped ==
  ASSUME NEW keys, NEW addresses, NEW cap, NEW ttl, NEW period, BucketParams(cap, ttl, period),
         RateBuckets(keys, addresses, cap, ttl), NEW k
  PROVE  /\ Level(k, cap) \in 0 .. cap /\ Level(k, cap) \in Nat /\ Level(k, cap) <= cap
         /\ k \in Held /\ ~(entries[k].age < ttl) => Level(k, cap) = cap
<1>1. CASE k \in Held
  <2>1. entries[k] \in EntryOf(cap, ttl)
    BY <1>1 DEF RateBuckets
  <2>2. PICK a \in 0 .. ttl, t \in 0 .. cap : a = entries[k].age /\ t = entries[k].tokens
    BY <2>1 DEF EntryOf
  <2>3. /\ a \in Nat /\ t \in Nat /\ RequestsPerPeriod \in Nat /\ ttl \in Nat /\ cap \in Nat
        /\ ttl * RequestsPerPeriod >= cap
    BY <2>2 DEF BucketParams
  <2>4. PICK p \in Nat : p = a * RequestsPerPeriod
    BY <2>3, Product
  <2>5. Level(k, cap) = IF t + p > cap THEN cap ELSE t + p
    BY <1>1, <2>2, <2>4 DEF Level, Filled
  <2>6. ~(a < ttl) => p >= cap
    BY <2>2, <2>3, <2>4
  <2>7. Level(k, cap) \in 0 .. cap /\ Level(k, cap) \in Nat /\ Level(k, cap) <= cap
    BY <2>3, <2>4, <2>5
  <2>8. ~(a < ttl) => Level(k, cap) = cap
    BY <2>3, <2>4, <2>5, <2>6
  <2> QED
    BY <2>2, <2>7, <2>8
<1>2. CASE k \notin Held
  BY <1>2 DEF Level, BucketParams
<1> QED
  BY <1>1, <1>2

LEMMA HintSuffices ==
  ASSUME NEW cap, NEW ttl, NEW period, BucketParams(cap, ttl, period), NEW parts \in Nat,
         parts < period
  PROVE  /\ HintOf(parts, period) \in Nat
         /\ parts + (HintOf(parts, period) * RequestsPerPeriod) >= period
<1>1. /\ RequestsPerPeriod \in Nat \ {0} /\ period - parts \in Nat /\ period \in Nat
  BY DEF BucketParams
<1>2. /\ HintOf(parts, period) \in Nat
      /\ HintOf(parts, period) * RequestsPerPeriod >= period - parts
  BY <1>1, Ceiling DEF HintOf
<1>3. PICK p \in Nat : p = HintOf(parts, period) * RequestsPerPeriod
  BY <1>1, <1>2, Product
<1> QED
  BY <1>1, <1>2, <1>3

LEMMA RateCheckSound ==
  ASSUME NEW keys, NEW addresses, NEW cap, NEW ttl, NEW period, BucketParams(cap, ttl, period),
         RateInv(keys, addresses, cap, ttl, period),
         caller' \in [RateCallers -> addresses \cup {None}],
         NEW k \in keys, NEW allowed \in BOOLEAN, RateChecks(keys, k, allowed, cap, ttl, period)
  PROVE  /\ RateInv(keys, addresses, cap, ttl, period)'
         /\ LevelsMove(keys, cap, period)
<1>1. PICK ks : Keeps(keys, k, ks, ttl) /\ Charges(k, ks, allowed, cap, period)
  BY DEF RateChecks
<1>2. ks \subseteq Held /\ ks \subseteq keys
  BY <1>1 DEF Keeps, RateInv, RateBuckets
<1>3. PICK parts \in Nat : parts = PartsOf(k, ks, cap) /\ parts <= cap
  <2>1. Level(k, cap) \in Nat /\ Level(k, cap) <= cap
    BY LevelTyped DEF RateInv
  <2>2. cap \in Nat /\ cap <= cap
    BY DEF BucketParams
  <2> QED
    BY <2>1, <2>2 DEF PartsOf
<1>4. (allowed => parts >= period) /\ (~allowed => ~(parts >= period))
  <2>1. allowed = (parts >= period)
    BY <1>1, <1>3 DEF Charges
  <2> QED
    BY <2>1, Zenon
<1>5. PICK rest \in 0 .. cap : rest = IF allowed THEN parts - period ELSE parts
  <2>1. parts \in 0 .. cap /\ (parts >= period => parts - period \in 0 .. cap)
    BY <1>3 DEF BucketParams
  <2>2. CASE allowed
    BY <1>4, <2>1, <2>2
  <2>3. CASE ~allowed
    BY <2>1, <2>3
  <2> QED
    BY <2>2, <2>3
<1>6. /\ entries' = [j \in ks \cup {k} |-> IF j = k THEN [tokens |-> rest, age |-> 0]
                                           ELSE entries[j]]
      /\ wait' = [wait EXCEPT ![k] = IF allowed THEN None ELSE HintOf(parts, period)]
  BY <1>1, <1>3, <1>5 DEF Charges
<1>7. Held' = ks \cup {k}
  BY <1>6 DEF Held
<1>8. /\ entries'[k] = [tokens |-> rest, age |-> 0]
      /\ \A j \in ks \ {k} : entries'[j] = entries[j]
  BY <1>6
<1>9. Level(k, cap)' = rest
  <2>1. Level(k, cap)' = Filled(rest + 0 * RequestsPerPeriod, cap)
    BY <1>7, <1>8 DEF Level
  <2>2. rest + 0 * RequestsPerPeriod = rest /\ rest <= cap
    BY <1>5 DEF BucketParams
  <2> QED
    BY <2>1, <2>2, <1>5 DEF Filled, BucketParams
<1>10. \A j \in keys \ {k} : Level(j, cap)' = IF j \in ks THEN Level(j, cap) ELSE cap
  BY <1>2, <1>7, <1>8 DEF Level
<1>11. RateBuckets(keys, addresses, cap, ttl)'
  <2>1. Held' \subseteq keys /\ Cardinality(Held') <= MaxEntries
    BY <1>1, <1>2, <1>7 DEF Keeps
  <2>2. IsFiniteSet(Held')
    BY <1>2, <1>7, FS_Subset, FS_AddElement DEF RateInv, RateBuckets
  <2>3. [tokens |-> rest, age |-> 0] \in EntryOf(cap, ttl)
    BY <1>5 DEF EntryOf, BucketParams
  <2>4. \A j \in ks : entries[j] \in EntryOf(cap, ttl)
    BY <1>2 DEF RateInv, RateBuckets
  <2>5. entries' \in [ks \cup {k} -> EntryOf(cap, ttl)]
    BY <1>6, <2>3, <2>4
  <2> QED
    BY <1>7, <2>1, <2>2, <2>5 DEF RateBuckets
<1>12. RateWaits(keys, cap, period)'
  <2>1. \A j \in keys :
          wait'[j] = IF j = k THEN (IF allowed THEN None ELSE HintOf(parts, period)) ELSE wait[j]
    BY <1>6 DEF RateInv, RateWaits
  <2>2. wait' = [j \in keys |-> wait'[j]]
    BY <1>6 DEF RateInv, RateWaits
  <2>3. ASSUME ~allowed
        PROVE  /\ HintOf(parts, period) \in Nat
               /\ rest + (HintOf(parts, period) * RequestsPerPeriod) >= period
    <3>1. ~(parts >= period) /\ rest = parts
      BY <1>4, <1>5, <2>3
    <3>2. parts < period
      BY <1>3, <3>1 DEF BucketParams
    <3> QED
      BY <3>1, <3>2, HintSuffices
  <2>4. ASSUME NEW j \in keys \ {k}, wait[j] # None
        PROVE  wait[j] \in Nat /\ Level(j, cap)' + (wait[j] * RequestsPerPeriod) >= period
    <3>1. wait[j] \in Nat /\ Level(j, cap) + (wait[j] * RequestsPerPeriod) >= period
      BY <2>4 DEF RateInv, RateWaits
    <3>2. PICK p \in Nat : p = wait[j] * RequestsPerPeriod
      BY <3>1, Product DEF BucketParams
    <3>3. /\ Level(j, cap) \in Nat /\ Level(j, cap)' \in Nat /\ period \in Nat
          /\ Level(j, cap)' >= Level(j, cap)
      BY <1>10, LevelTyped DEF RateInv, BucketParams
    <3> QED
      BY <3>1, <3>2, <3>3
  <2>5. \A j \in keys : wait'[j] # None =>
          wait'[j] \in Nat /\ Level(j, cap)' + (wait'[j] * RequestsPerPeriod) >= period
    BY <1>9, <2>1, <2>3, <2>4
  <2> QED
    BY <2>2, <2>5 DEF RateWaits
<1>13. \A j \in keys : j \notin Live(ttl) => Level(j, cap) = cap
  BY LevelTyped DEF RateInv, Live, Level
<1>14. ASSUME \A j \in keys \ ks : Level(j, cap) = cap
       PROVE  LevelsMove(keys, cap, period)
  <2>1. \A j \in keys \ {k} : Level(j, cap)' = Level(j, cap)
    BY <1>10, <1>14
  <2>2. parts = Level(k, cap)
    BY <1>3, <1>14 DEF PartsOf
  <2>3. CASE allowed
    BY <1>4, <1>5, <1>9, <2>1, <2>2, <2>3 DEF LevelsMove, LevelTaken
  <2>4. CASE ~allowed
    BY <1>5, <1>9, <2>1, <2>2, <2>4 DEF LevelsMove
  <2> QED
    BY <2>3, <2>4
<1>15. ASSUME Live(ttl) \subseteq ks PROVE LevelsMove(keys, cap, period)
  <2>1. \A j \in keys \ ks : Level(j, cap) = cap
    BY <1>13, <1>15
  <2> QED
    BY <1>14, <2>1
<1>16. ASSUME ~RoomFor(keys), k \notin Live(ttl), NEW j \in keys \ {k},
              Live(ttl) \ {j} \subseteq ks
       PROVE  LevelsMove(keys, cap, period)
  <2>1. \A i \in keys : i \notin ks /\ i # j => Level(i, cap) = cap
    BY <1>13, <1>16
  <2>2. CASE j \in ks
    BY <1>14, <2>1, <2>2
  <2>3. CASE j \notin ks
    <3>1. Level(j, cap)' = cap /\ \A i \in keys \ {k, j} : Level(i, cap)' = Level(i, cap)
      BY <1>10, <2>1, <2>3
    <3>2. Level(k, cap) = cap /\ parts = cap
      BY <1>3, <1>13, <1>16 DEF PartsOf
    <3>3. allowed
      BY <1>4, <3>2 DEF BucketParams
    <3>4. rest = cap - period
      BY <1>5, <3>2, <3>3
    <3>5. LevelDisplaced(keys, k, j, cap, period)
      BY <1>9, <3>1, <3>2, <3>4 DEF LevelDisplaced
    <3> QED
      BY <1>16, <3>5 DEF LevelsMove
  <2> QED
    BY <2>2, <2>3
<1>17. LevelsMove(keys, cap, period)
  <2>1. \/ Live(ttl) \subseteq ks
        \/ /\ ~RoomFor(keys) /\ k \notin Live(ttl)
           /\ \E j \in keys \ {k} : Live(ttl) \ {j} \subseteq ks
    BY <1>1 DEF Keeps
  <2> QED
    BY <1>15, <1>16, <2>1
<1> QED
  BY <1>11, <1>12, <1>17 DEF RateInv

LEMMA RateFailsSound ==
  ASSUME NEW keys, NEW addresses, NEW cap, NEW ttl, NEW period, BucketParams(cap, ttl, period),
         RateInv(keys, addresses, cap, ttl, period),
         caller' \in [RateCallers -> addresses \cup {None}], RateFails(keys, period)
  PROVE  /\ RateInv(keys, addresses, cap, ttl, period)'
         /\ \A k \in keys : Level(k, cap)' = Level(k, cap)
<1>1. entries' = entries /\ Held' = Held /\ \A k : Level(k, cap)' = Level(k, cap)
  BY DEF RateFails, Held, Level, Filled
<1>2. RateBuckets(keys, addresses, cap, ttl)'
  BY <1>1 DEF RateInv, RateBuckets
<1>3. \A k \in keys : Level(k, cap) + (period * RequestsPerPeriod) >= period
  <2>1. period \in Nat /\ RequestsPerPeriod - 1 \in Nat /\ RequestsPerPeriod \in Nat
    BY DEF BucketParams
  <2>2. PICK p \in Nat : p = (RequestsPerPeriod - 1) * period
    BY <2>1, Product
  <2>3. period * RequestsPerPeriod = p + period
    <3>1. ((RequestsPerPeriod - 1) + 1) * period = p + period
      BY <2>1, <2>2, Product
    <3>2. (RequestsPerPeriod - 1) + 1 = RequestsPerPeriod
      BY <2>1
    <3>3. RequestsPerPeriod * period = period * RequestsPerPeriod
      BY <2>1
    <3> QED
      BY <3>1, <3>2, <3>3
  <2> QED
    BY <2>1, <2>2, <2>3, LevelTyped DEF RateInv
<1>4. period \in Nat
  BY DEF BucketParams
<1>5. ASSUME wait' = wait PROVE RateWaits(keys, cap, period)'
  BY <1>1, <1>5 DEF RateInv, RateWaits
<1>6. ASSUME NEW k \in keys, wait' = [wait EXCEPT ![k] = period]
      PROVE  RateWaits(keys, cap, period)'
  <2>1. /\ wait' = [j \in keys |-> wait'[j]]
        /\ \A j \in keys : wait'[j] = IF j = k THEN period ELSE wait[j]
    BY <1>6 DEF RateInv, RateWaits
  <2>2. \A j \in keys : wait'[j] # None =>
          wait'[j] \in Nat /\ Level(j, cap)' + (wait'[j] * RequestsPerPeriod) >= period
    BY <1>1, <1>3, <1>4, <2>1 DEF RateInv, RateWaits
  <2> QED
    BY <2>1, <2>2 DEF RateWaits
<1> QED
  BY <1>1, <1>2, <1>5, <1>6 DEF RateFails, RateInv

LEMMA RateAgesSound ==
  ASSUME NEW keys, NEW addresses, NEW cap, NEW ttl, NEW period, BucketParams(cap, ttl, period),
         RateInv(keys, addresses, cap, ttl, period),
         caller' \in [RateCallers -> addresses \cup {None}], RateAges(keys, ttl)
  PROVE  RateInv(keys, addresses, cap, ttl, period)' /\ LevelPassed(keys, cap)
<1>1. Held' = Held
  BY DEF RateAges, Held
<1>2. ASSUME NEW k \in Held
      PROVE  /\ entries'[k] \in EntryOf(cap, ttl)
             /\ entries'[k].tokens = entries[k].tokens
             /\ entries'[k].age = IF entries[k].age < ttl THEN entries[k].age + 1
                                  ELSE entries[k].age
  <2>1. PICK e \in EntryOf(cap, ttl) : e = entries[k]
    BY <1>2 DEF RateInv, RateBuckets
  <2>2. PICK a \in 0 .. ttl : a = IF e.age < ttl THEN e.age + 1 ELSE e.age
    BY <2>1 DEF EntryOf, BucketParams
  <2>3. entries'[k] = [e EXCEPT !.age = a]
    BY <1>2, <2>1, <2>2 DEF RateAges
  <2> QED
    BY <2>1, <2>2, <2>3 DEF EntryOf
<1>3. RateBuckets(keys, addresses, cap, ttl)'
  <2>1. entries' \in [Held -> EntryOf(cap, ttl)]
    BY <1>2 DEF RateAges
  <2> QED
    BY <1>1, <2>1 DEF RateInv, RateBuckets
<1>4. /\ RequestsPerPeriod \in Nat /\ RequestsPerPeriod > 0 /\ cap \in Nat /\ ttl \in Nat
      /\ ttl * RequestsPerPeriod >= cap /\ period \in Nat /\ None \notin Nat
  BY DEF BucketParams
<1>5. ASSUME NEW k \in keys
      PROVE  Level(k, cap)' = Filled(Level(k, cap) + RequestsPerPeriod, cap)
  <2>1. CASE k \in Held
    <3>1. PICK a \in 0 .. ttl, t \in 0 .. cap : a = entries[k].age /\ t = entries[k].tokens
      <4>1. entries[k] \in EntryOf(cap, ttl)
        BY <2>1 DEF RateInv, RateBuckets
      <4> QED
        BY <4>1 DEF EntryOf
    <3>2. PICK p \in Nat : p = a * RequestsPerPeriod
      BY <1>4, <3>1, Product
    <3>3. Level(k, cap) = Filled(t + p, cap)
      BY <2>1, <3>1, <3>2 DEF Level
    <3>4. CASE a < ttl
      <4>1. Level(k, cap)' = Filled(t + (a + 1) * RequestsPerPeriod, cap)
        BY <1>1, <1>2, <2>1, <3>1, <3>4 DEF Level
      <4>2. (a + 1) * RequestsPerPeriod = p + RequestsPerPeriod
        BY <1>4, <3>1, <3>2, Product
      <4> QED
        BY <1>4, <3>2, <3>3, <4>1, <4>2 DEF Filled
    <3>5. CASE ~(a < ttl)
      <4>1. Level(k, cap)' = Filled(t + p, cap)
        BY <1>1, <1>2, <2>1, <3>1, <3>2, <3>5 DEF Level
      <4>2. a = ttl
        BY <1>4, <3>1, <3>5
      <4>3. p >= cap
        BY <1>4, <3>2, <4>2
      <4> QED
        BY <1>4, <3>2, <3>3, <4>1, <4>3 DEF Filled
    <3> QED
      BY <3>4, <3>5
  <2>2. CASE k \notin Held
    BY <1>1, <1>4, <2>2 DEF Level, Filled
  <2> QED
    BY <2>1, <2>2
<1>6. RateWaits(keys, cap, period)'
  <2>1. wait' = [k \in keys |-> wait'[k]]
        /\ \A k \in keys : wait'[k] = IF wait[k] \in {None, 0} THEN wait[k] ELSE wait[k] - 1
    BY DEF RateAges
  <2>2. ASSUME NEW k \in keys, wait'[k] # None
        PROVE  wait'[k] \in Nat /\ Level(k, cap)' + (wait'[k] * RequestsPerPeriod) >= period
    <3>1. wait[k] # None
      BY <2>1, <2>2
    <3>2. PICK n \in Nat : n = wait[k]
      BY <3>1 DEF RateInv, RateWaits
    <3>3. PICK v \in Nat : v = Level(k, cap) /\ v <= cap
      BY LevelTyped DEF RateInv
    <3>4. v + (n * RequestsPerPeriod) >= period
      BY <3>1, <3>2, <3>3 DEF RateInv, RateWaits
    <3>5. Level(k, cap)' = IF v + RequestsPerPeriod > cap THEN cap ELSE v + RequestsPerPeriod
      BY <1>5, <3>3 DEF Filled
    <3>6. cap >= period
      BY DEF BucketParams
    <3>7. CASE n = 0
      <4>1. wait'[k] = 0
        BY <2>1, <3>2, <3>7
      <4>2. 0 * RequestsPerPeriod = 0
        BY <1>4
      <4> QED
        BY <1>4, <3>3, <3>4, <3>5, <3>6, <3>7, <4>1, <4>2
    <3>8. CASE n # 0
      <4>1. PICK m \in Nat : m = n - 1 /\ n = m + 1
        BY <3>8
      <4>2. wait'[k] = m
        BY <2>1, <3>1, <3>2, <3>8, <4>1
      <4>3. PICK p \in Nat : p = m * RequestsPerPeriod
        BY <1>4, Product
      <4>4. n * RequestsPerPeriod = p + RequestsPerPeriod
        BY <1>4, <4>1, <4>3, Product
      <4> QED
        BY <1>4, <3>3, <3>4, <3>5, <3>6, <4>2, <4>3, <4>4
    <3> QED
      BY <3>7, <3>8
  <2> QED
    BY <2>1, <2>2 DEF RateWaits
<1> QED
  BY <1>3, <1>5, <1>6 DEF RateInv, LevelPassed

LEMMA RateActsSound ==
  ASSUME NEW keys, NEW addresses, NEW cap, NEW ttl, NEW period, BucketParams(cap, ttl, period),
         RateInv(keys, addresses, cap, ttl, period),
         RateActs(keys, addresses, cap, ttl, period)
  PROVE  /\ RateInv(keys, addresses, cap, ttl, period)'
         /\ LevelsMove(keys, cap, period)
<1>1. ASSUME RateFails(keys, period), caller' \in [RateCallers -> addresses \cup {None}]
      PROVE  RateInv(keys, addresses, cap, ttl, period)' /\ LevelsMove(keys, cap, period)
  BY <1>1, RateFailsSound DEF LevelsMove
<1>2. ASSUME RateAges(keys, ttl), caller' \in [RateCallers -> addresses \cup {None}]
      PROVE  RateInv(keys, addresses, cap, ttl, period)' /\ LevelsMove(keys, cap, period)
  BY <1>2, RateAgesSound DEF LevelsMove
<1> QED
  BY <1>1, <1>2, RateCheckSound DEF RateActs

LEMMA RateStart ==
  ASSUME NEW keys, NEW addresses, NEW cap, NEW ttl, NEW period, BucketParams(cap, ttl, period),
         entries = <<>>, caller = [c \in RateCallers |-> None], wait = [k \in keys |-> None]
  PROVE  RateInv(keys, addresses, cap, ttl, period)
<1>1. Held = {} /\ IsFiniteSet({}) /\ Cardinality({}) = 0
  BY FS_EmptySet DEF Held
<1> QED
  BY <1>1 DEF RateInv, RateBuckets, RateWaits, BucketParams

LEMMA RateWaitSuffices ==
  ASSUME NEW keys, NEW addresses, NEW cap, NEW ttl, NEW period, BucketParams(cap, ttl, period),
         RateInv(keys, addresses, cap, ttl, period), NEW k \in keys, wait[k] = 0
  PROVE  Level(k, cap) >= period
<1>1. wait[k] # None /\ RequestsPerPeriod \in Nat /\ period \in Nat
  BY DEF BucketParams
<1>2. Level(k, cap) + (0 * RequestsPerPeriod) >= period /\ Level(k, cap) \in Nat
  BY <1>1, LevelTyped DEF RateInv, RateWaits
<1> QED
  BY <1>1, <1>2

-----------------------------------------------------------------------------
(* The two machines of MCHttp take these steps. *)
LEMMA LimiterBounds ==
  /\ BucketParams(Limiter!Capacity, Limiter!IdleTtl, Period)
  /\ BucketParams(LimiterFull!Capacity, LimiterFull!IdleTtl, 2)
<1>1. /\ RequestsPerPeriod \in Nat \ {0} /\ Burst \in Nat /\ MaxEntries \in Nat \ {0}
      /\ Period \in Nat \ {0} /\ None \notin Nat /\ 2 \in Nat \ {0}
  BY HttpAssumption DEF Limiter!RateLimitAssumption
<1>2. /\ Limiter!Capacity \in Nat /\ Limiter!Capacity >= Period
      /\ LimiterFull!Capacity \in Nat /\ LimiterFull!Capacity >= 2
  BY <1>1, CapacityHolds DEF Limiter!Capacity, LimiterFull!Capacity
<1>3. /\ Limiter!IdleTtl \in Nat /\ Limiter!IdleTtl * RequestsPerPeriod >= Limiter!Capacity
      /\ LimiterFull!IdleTtl \in Nat
      /\ LimiterFull!IdleTtl * RequestsPerPeriod >= LimiterFull!Capacity
  BY <1>1, <1>2, Ceiling DEF Limiter!IdleTtl, LimiterFull!IdleTtl
<1> QED
  BY <1>1, <1>2, <1>3 DEF BucketParams

(* What memory.rs keeps when it makes room. *)
PrunedOf(k, ttl) ==
  LET spared == IF Cardinality(Held) >= MaxEntries THEN {Live(ttl)} ELSE {Held, Live(ttl)}
      First(ks) == {j \in ks : \A i \in ks : entries[j].age >= entries[i].age}
  IN UNION {IF k \in ks \/ Cardinality(ks) < MaxEntries THEN {ks}
            ELSE {ks \ {j} : j \in First(ks)} : ks \in spared}

LEMMA PrunedKeeps ==
  ASSUME NEW keys, NEW addresses, NEW cap, NEW ttl, NEW period, BucketParams(cap, ttl, period),
         RateBuckets(keys, addresses, cap, ttl), NEW k \in keys, NEW ks \in PrunedOf(k, ttl)
  PROVE  Keeps(keys, k, ks, ttl)
<1>1. PICK ls \in {Held, Live(ttl)} :
        \/ (k \in ls \/ Cardinality(ls) < MaxEntries) /\ ks = ls
        \/ ~(k \in ls \/ Cardinality(ls) < MaxEntries) /\ \E j \in ls : ks = ls \ {j}
  BY DEF PrunedOf
<1>2. /\ Live(ttl) \subseteq ls /\ ls \subseteq Held /\ IsFiniteSet(ls)
      /\ Cardinality(ls) \in Nat /\ Cardinality(ls) <= MaxEntries /\ MaxEntries \in Nat
  <2>1. Live(ttl) \subseteq ls /\ ls \subseteq Held
    BY <1>1 DEF Live
  <2>2. IsFiniteSet(Held) /\ Cardinality(Held) <= MaxEntries /\ MaxEntries \in Nat
    BY DEF RateBuckets, BucketParams
  <2>3. IsFiniteSet(ls) /\ Cardinality(ls) <= Cardinality(Held)
    BY <2>1, <2>2, FS_Subset
  <2> QED
    BY <2>1, <2>2, <2>3, FS_CardinalityType
<1>3. CASE k \in ls /\ ks = ls
  <2>1. ks \cup {k} = ls
    BY <1>3
  <2> QED
    BY <1>2, <1>3, <2>1 DEF Keeps
<1>4. CASE k \notin ls /\ Cardinality(ls) < MaxEntries /\ ks = ls
  <2>1. Cardinality(ls \cup {k}) = Cardinality(ls) + 1
    BY <1>2, <1>4, FS_AddElement
  <2> QED
    BY <1>2, <1>4, <2>1 DEF Keeps
<1>5. ASSUME k \notin ls, ~(Cardinality(ls) < MaxEntries), NEW j \in ls, ks = ls \ {j}
      PROVE  Keeps(keys, k, ks, ttl)
  <2>1. IsFiniteSet(ks) /\ Cardinality(ks) = Cardinality(ls) - 1
    BY <1>2, <1>5, FS_RemoveElement
  <2>2. Cardinality(ks \cup {k}) = Cardinality(ks) + 1
    BY <1>5, <2>1, FS_AddElement
  <2>3. ~RoomFor(keys)
    <3> SUFFICES ASSUME RoomFor(keys) PROVE FALSE
      OBVIOUS
    <3>1. ls \cup {k} \subseteq keys
      BY <1>2 DEF RateBuckets
    <3>2. Cardinality(ls \cup {k}) <= Cardinality(keys) /\ Cardinality(keys) \in Nat
      BY <3>1, FS_Subset, FS_CardinalityType DEF RoomFor
    <3>3. Cardinality(ls \cup {k}) = Cardinality(ls) + 1
      BY <1>2, <1>5, FS_AddElement
    <3> QED
      BY <1>2, <1>5, <3>2, <3>3 DEF RoomFor
  <2>4. j \in keys \ {k} /\ k \notin Live(ttl) /\ Live(ttl) \ {j} \subseteq ks
    BY <1>2, <1>5 DEF RateBuckets
  <2>5. Cardinality(ks \cup {k}) <= MaxEntries
    BY <1>2, <2>1, <2>2
  <2> QED
    BY <1>2, <1>5, <2>3, <2>4, <2>5 DEF Keeps
<1> QED
  BY <1>1, <1>3, <1>4, <1>5

LEMMA LimiterPrunes ==
  /\ \A k : Limiter!Pruned(k) = PrunedOf(k, Limiter!IdleTtl)
  /\ \A k : LimiterFull!Pruned(k) = PrunedOf(k, LimiterFull!IdleTtl)
<1>1. \A S : Limiter!Cardinality(S) = Cardinality(S) /\ LimiterFull!Cardinality(S) = Cardinality(S)
  BY DEF Limiter!Cardinality, LimiterFull!Cardinality, Cardinality
<1>2. /\ Limiter!Kept = Held /\ Limiter!Unexpired = Live(Limiter!IdleTtl)
      /\ LimiterFull!Kept = Held /\ LimiterFull!Unexpired = Live(LimiterFull!IdleTtl)
  BY DEF Limiter!Kept, Limiter!Unexpired, LimiterFull!Kept, LimiterFull!Unexpired, Held, Live
<1>3. \A k : Limiter!Pruned(k) = PrunedOf(k, Limiter!IdleTtl)
  BY <1>1, <1>2 DEF Limiter!Pruned, PrunedOf
<1>4. \A k : LimiterFull!Pruned(k) = PrunedOf(k, LimiterFull!IdleTtl)
  BY <1>1, <1>2 DEF LimiterFull!Pruned, PrunedOf
<1> QED
  BY <1>3, <1>4

LEMMA LimiterLevels ==
  /\ \A k : Limiter!LevelOf(k) = Level(k, Limiter!Capacity)
  /\ \A k : LimiterFull!LevelOf(k) = Level(k, LimiterFull!Capacity)
BY DEF Limiter!LevelOf, Limiter!Kept, Limiter!Refilled, LimiterFull!LevelOf, LimiterFull!Kept,
  LimiterFull!Refilled, Level, Held, Filled

LEMMA LimiterChecks ==
  ASSUME NEW k, NEW allowed \in BOOLEAN
  PROVE  /\ k \in Limiter!Keys /\ Limiter!Check(k, allowed)
            /\ RateBuckets(Limiter!Keys, RateAddresses, Limiter!Capacity, Limiter!IdleTtl)
            => RateChecks(Limiter!Keys, k, allowed, Limiter!Capacity, Limiter!IdleTtl, Period)
         /\ k \in LimiterFull!Keys /\ LimiterFull!Check(k, allowed)
            /\ RateBuckets(LimiterFull!Keys, {a1, a2}, LimiterFull!Capacity, LimiterFull!IdleTtl)
            => RateChecks(LimiterFull!Keys, k, allowed, LimiterFull!Capacity,
                          LimiterFull!IdleTtl, 2)
<1>1. ASSUME k \in Limiter!Keys, Limiter!Check(k, allowed),
             RateBuckets(Limiter!Keys, RateAddresses, Limiter!Capacity, Limiter!IdleTtl)
      PROVE  RateChecks(Limiter!Keys, k, allowed, Limiter!Capacity, Limiter!IdleTtl, Period)
  <2>1. PICK ks \in Limiter!Pruned(k) : Charges(k, ks, allowed, Limiter!Capacity, Period)
    BY <1>1, LimiterLevels DEF Limiter!Check, Charges, PartsOf, HintOf, Limiter!LevelIn,
      Limiter!RetryAfter
  <2>2. Keeps(Limiter!Keys, k, ks, Limiter!IdleTtl)
    BY <1>1, PrunedKeeps, LimiterPrunes, LimiterBounds
  <2> QED
    BY <2>1, <2>2 DEF RateChecks
<1>2. ASSUME k \in LimiterFull!Keys, LimiterFull!Check(k, allowed),
             RateBuckets(LimiterFull!Keys, {a1, a2}, LimiterFull!Capacity, LimiterFull!IdleTtl)
      PROVE  RateChecks(LimiterFull!Keys, k, allowed, LimiterFull!Capacity,
                        LimiterFull!IdleTtl, 2)
  <2>1. PICK ks \in LimiterFull!Pruned(k) : Charges(k, ks, allowed, LimiterFull!Capacity, 2)
    BY <1>2, LimiterLevels DEF LimiterFull!Check, Charges, PartsOf, HintOf, LimiterFull!LevelIn,
      LimiterFull!RetryAfter
  <2>2. Keeps(LimiterFull!Keys, k, ks, LimiterFull!IdleTtl)
    BY <1>2, PrunedKeeps, LimiterPrunes, LimiterBounds
  <2> QED
    BY <2>1, <2>2 DEF RateChecks
<1> QED
  BY <1>1, <1>2

LEMMA LimiterActs ==
  ASSUME RateInv(Limiter!Keys, RateAddresses, Limiter!Capacity, Limiter!IdleTtl, Period), Limiter!RateNext
  PROVE  RateActs(Limiter!Keys, RateAddresses, Limiter!Capacity, Limiter!IdleTtl, Period)
<1>1. /\ RateBuckets(Limiter!Keys, RateAddresses, Limiter!Capacity, Limiter!IdleTtl)
      /\ caller \in [RateCallers -> RateAddresses \cup {None}]
  BY DEF RateInv, RateBuckets
<1>2. ASSUME NEW k \in Limiter!Keys, NEW allowed \in BOOLEAN, Limiter!Evaluate(k, allowed),
             caller' \in [RateCallers -> RateAddresses \cup {None}]
      PROVE  RateActs(Limiter!Keys, RateAddresses, Limiter!Capacity, Limiter!IdleTtl, Period)
  <2>1. Limiter!Check(k, allowed) => RateChecks(Limiter!Keys, k, allowed, Limiter!Capacity, Limiter!IdleTtl, Period)
    BY <1>1, LimiterChecks
  <2>2. Limiter!StoreFails(k, allowed) => RateFails(Limiter!Keys, Period)
    BY DEF Limiter!StoreFails, RateFails
  <2> QED
    BY <1>2, <2>1, <2>2 DEF Limiter!Evaluate, RateActs
<1>3. ASSUME NEW c \in RateCallers, NEW a \in RateAddresses
      PROVE  [caller EXCEPT ![c] = a] \in [RateCallers -> RateAddresses \cup {None}]
  BY <1>1
<1>4. ASSUME NEW c \in RateCallers
      PROVE  [caller EXCEPT ![c] = None] \in [RateCallers -> RateAddresses \cup {None}]
  BY <1>1
<1>5. ASSUME NEW c \in RateCallers, NEW a \in RateAddresses, Limiter!Anonymous(c, a)
      PROVE  RateActs(Limiter!Keys, RateAddresses, Limiter!Capacity, Limiter!IdleTtl, Period)
  BY <1>3, <1>5 DEF Limiter!Anonymous, RateActs, RateFails
<1>6. ASSUME NEW c \in RateCallers, NEW a \in RateAddresses, NEW s \in Subjects, Limiter!IdentityScope(c, s, a)
      PROVE  RateActs(Limiter!Keys, RateAddresses, Limiter!Capacity, Limiter!IdleTtl, Period)
  <2>1. s \in Limiter!Keys /\ caller' \in [RateCallers -> RateAddresses \cup {None}]
        /\ \E allowed \in BOOLEAN : Limiter!Evaluate(s, allowed)
    BY <1>1, <1>3, <1>6 DEF Limiter!IdentityScope, Limiter!Keys
  <2> QED
    BY <1>2, <2>1
<1>7. ASSUME NEW c \in RateCallers, Limiter!IpScope(c)
      PROVE  RateActs(Limiter!Keys, RateAddresses, Limiter!Capacity, Limiter!IdleTtl, Period)
  <2>1. caller[c] \in Limiter!Keys /\ caller' \in [RateCallers -> RateAddresses \cup {None}]
        /\ \E allowed \in BOOLEAN : Limiter!Evaluate(caller[c], allowed)
    BY <1>1, <1>4, <1>7 DEF Limiter!IpScope, Limiter!Keys
  <2> QED
    BY <1>2, <2>1
<1>8. Limiter!Tick => RateActs(Limiter!Keys, RateAddresses, Limiter!Capacity, Limiter!IdleTtl, Period)
  BY <1>1 DEF Limiter!Tick, Limiter!Older, Limiter!Kept, RateAges, RateActs, Held
<1> QED
  BY <1>5, <1>6, <1>7, <1>8 DEF Limiter!RateNext

LEMMA LimiterFullActs ==
  ASSUME RateInv(LimiterFull!Keys, {a1, a2}, LimiterFull!Capacity, LimiterFull!IdleTtl, 2), LimiterFull!RateNext
  PROVE  RateActs(LimiterFull!Keys, {a1, a2}, LimiterFull!Capacity, LimiterFull!IdleTtl, 2)
<1>1. /\ RateBuckets(LimiterFull!Keys, {a1, a2}, LimiterFull!Capacity, LimiterFull!IdleTtl)
      /\ caller \in [RateCallers -> {a1, a2} \cup {None}]
  BY DEF RateInv, RateBuckets
<1>2. ASSUME NEW k \in LimiterFull!Keys, NEW allowed \in BOOLEAN, LimiterFull!Evaluate(k, allowed),
             caller' \in [RateCallers -> {a1, a2} \cup {None}]
      PROVE  RateActs(LimiterFull!Keys, {a1, a2}, LimiterFull!Capacity, LimiterFull!IdleTtl, 2)
  <2>1. LimiterFull!Check(k, allowed) => RateChecks(LimiterFull!Keys, k, allowed, LimiterFull!Capacity, LimiterFull!IdleTtl, 2)
    BY <1>1, LimiterChecks
  <2>2. LimiterFull!StoreFails(k, allowed) => RateFails(LimiterFull!Keys, 2)
    BY DEF LimiterFull!StoreFails, RateFails
  <2> QED
    BY <1>2, <2>1, <2>2 DEF LimiterFull!Evaluate, RateActs
<1>3. ASSUME NEW c \in RateCallers, NEW a \in {a1, a2}
      PROVE  [caller EXCEPT ![c] = a] \in [RateCallers -> {a1, a2} \cup {None}]
  BY <1>1
<1>4. ASSUME NEW c \in RateCallers
      PROVE  [caller EXCEPT ![c] = None] \in [RateCallers -> {a1, a2} \cup {None}]
  BY <1>1
<1>5. ASSUME NEW c \in RateCallers, NEW a \in {a1, a2}, LimiterFull!Anonymous(c, a)
      PROVE  RateActs(LimiterFull!Keys, {a1, a2}, LimiterFull!Capacity, LimiterFull!IdleTtl, 2)
  BY <1>3, <1>5 DEF LimiterFull!Anonymous, RateActs, RateFails
<1>6. ASSUME NEW c \in RateCallers, NEW a \in {a1, a2}, NEW s \in Subjects, LimiterFull!IdentityScope(c, s, a)
      PROVE  RateActs(LimiterFull!Keys, {a1, a2}, LimiterFull!Capacity, LimiterFull!IdleTtl, 2)
  <2>1. s \in LimiterFull!Keys /\ caller' \in [RateCallers -> {a1, a2} \cup {None}]
        /\ \E allowed \in BOOLEAN : LimiterFull!Evaluate(s, allowed)
    BY <1>1, <1>3, <1>6 DEF LimiterFull!IdentityScope, LimiterFull!Keys
  <2> QED
    BY <1>2, <2>1
<1>7. ASSUME NEW c \in RateCallers, LimiterFull!IpScope(c)
      PROVE  RateActs(LimiterFull!Keys, {a1, a2}, LimiterFull!Capacity, LimiterFull!IdleTtl, 2)
  <2>1. caller[c] \in LimiterFull!Keys /\ caller' \in [RateCallers -> {a1, a2} \cup {None}]
        /\ \E allowed \in BOOLEAN : LimiterFull!Evaluate(caller[c], allowed)
    BY <1>1, <1>4, <1>7 DEF LimiterFull!IpScope, LimiterFull!Keys
  <2> QED
    BY <1>2, <2>1
<1>8. LimiterFull!Tick => RateActs(LimiterFull!Keys, {a1, a2}, LimiterFull!Capacity, LimiterFull!IdleTtl, 2)
  BY <1>1 DEF LimiterFull!Tick, LimiterFull!Older, LimiterFull!Kept, RateAges, RateActs, Held
<1> QED
  BY <1>5, <1>6, <1>7, <1>8 DEF LimiterFull!RateNext

LEMMA LimitersStart ==
  /\ Limiter!RateInit =>
       RateInv(Limiter!Keys, RateAddresses, Limiter!Capacity, Limiter!IdleTtl, Period)
  /\ LimiterFull!RateInit =>
       RateInv(LimiterFull!Keys, {a1, a2}, LimiterFull!Capacity, LimiterFull!IdleTtl, 2)
BY RateStart, LimiterBounds DEF Limiter!RateInit, LimiterFull!RateInit

(* The limiter is one token bucket for each key. *)
LEMMA LimiterRefines ==
  ASSUME RateInv(Limiter!Keys, RateAddresses, Limiter!Capacity, Limiter!IdleTtl, Period),
         LevelsMove(Limiter!Keys, Limiter!Capacity, Period)
  PROVE  Limiter!ImplementsTokenBucket
<1>1. \A k : Limiter!LevelOf(k) = Level(k, Limiter!Capacity)
             /\ Limiter!LevelOf(k)' = Level(k, Limiter!Capacity)'
  BY DEF Limiter!LevelOf, Limiter!Kept, Limiter!Refilled, Level, Held, Filled
<1>2. CASE \A k \in Limiter!Keys : Level(k, Limiter!Capacity)' = Level(k, Limiter!Capacity)
  BY <1>1, <1>2 DEF Limiter!ImplementsTokenBucket, Limiter!Keys
<1>3. ASSUME NEW k \in Limiter!Keys, LevelTaken(Limiter!Keys, k, Limiter!Capacity, Period)
      PROVE  Limiter!ImplementsTokenBucket
  <2>1. Limiter!Bucket!Take(k)
    BY <1>1, <1>3 DEF LevelTaken, Limiter!Bucket!Take, Limiter!Keys
  <2> QED
    BY <2>1 DEF Limiter!ImplementsTokenBucket, Limiter!Bucket!Next
<1>4. CASE LevelPassed(Limiter!Keys, Limiter!Capacity)
  <2>1. Limiter!Bucket!Pass
    BY <1>1, <1>4 DEF LevelPassed, Limiter!Bucket!Pass, Limiter!Bucket!Refilled, Filled,
      Limiter!Keys
  <2> QED
    BY <2>1 DEF Limiter!ImplementsTokenBucket, Limiter!Bucket!Next
<1>5. ASSUME ~RoomFor(Limiter!Keys), NEW k \in Limiter!Keys, NEW j \in Limiter!Keys \ {k},
             LevelDisplaced(Limiter!Keys, k, j, Limiter!Capacity, Period)
      PROVE  Limiter!ImplementsTokenBucket
  <2>1. Limiter!Bucket!Crowded
    BY <1>5 DEF RoomFor, Limiter!Bucket!Crowded, Limiter!Bucket!IsFiniteSet, Limiter!Bucket!Cardinality,
      IsFiniteSet, Cardinality, Limiter!Keys
  <2>2. Limiter!Capacity >= Period
    BY LimiterBounds DEF BucketParams
  <2>3. Limiter!Bucket!Displace(k, j)
    BY <1>1, <1>5, <2>1, <2>2 DEF LevelDisplaced, Limiter!Bucket!Displace, Limiter!Keys
  <2> QED
    BY <1>5, <2>3 DEF Limiter!ImplementsTokenBucket, Limiter!Bucket!Next
<1> QED
  BY <1>2, <1>3, <1>4, <1>5 DEF LevelsMove

LEMMA LimiterFullRefines ==
  ASSUME RateInv(LimiterFull!Keys, {a1, a2}, LimiterFull!Capacity, LimiterFull!IdleTtl, 2),
         LevelsMove(LimiterFull!Keys, LimiterFull!Capacity, 2)
  PROVE  LimiterFull!ImplementsTokenBucket
<1>1. \A k : LimiterFull!LevelOf(k) = Level(k, LimiterFull!Capacity)
             /\ LimiterFull!LevelOf(k)' = Level(k, LimiterFull!Capacity)'
  BY DEF LimiterFull!LevelOf, LimiterFull!Kept, LimiterFull!Refilled, Level, Held, Filled
<1>2. CASE \A k \in LimiterFull!Keys : Level(k, LimiterFull!Capacity)' = Level(k, LimiterFull!Capacity)
  BY <1>1, <1>2 DEF LimiterFull!ImplementsTokenBucket, LimiterFull!Keys
<1>3. ASSUME NEW k \in LimiterFull!Keys, LevelTaken(LimiterFull!Keys, k, LimiterFull!Capacity, 2)
      PROVE  LimiterFull!ImplementsTokenBucket
  <2>1. LimiterFull!Bucket!Take(k)
    BY <1>1, <1>3 DEF LevelTaken, LimiterFull!Bucket!Take, LimiterFull!Keys
  <2> QED
    BY <2>1 DEF LimiterFull!ImplementsTokenBucket, LimiterFull!Bucket!Next
<1>4. CASE LevelPassed(LimiterFull!Keys, LimiterFull!Capacity)
  <2>1. LimiterFull!Bucket!Pass
    BY <1>1, <1>4 DEF LevelPassed, LimiterFull!Bucket!Pass, LimiterFull!Bucket!Refilled, Filled,
      LimiterFull!Keys
  <2> QED
    BY <2>1 DEF LimiterFull!ImplementsTokenBucket, LimiterFull!Bucket!Next
<1>5. ASSUME ~RoomFor(LimiterFull!Keys), NEW k \in LimiterFull!Keys, NEW j \in LimiterFull!Keys \ {k},
             LevelDisplaced(LimiterFull!Keys, k, j, LimiterFull!Capacity, 2)
      PROVE  LimiterFull!ImplementsTokenBucket
  <2>1. LimiterFull!Bucket!Crowded
    BY <1>5 DEF RoomFor, LimiterFull!Bucket!Crowded, LimiterFull!Bucket!IsFiniteSet, LimiterFull!Bucket!Cardinality,
      IsFiniteSet, Cardinality, LimiterFull!Keys
  <2>2. LimiterFull!Capacity >= 2
    BY LimiterBounds DEF BucketParams
  <2>3. LimiterFull!Bucket!Displace(k, j)
    BY <1>1, <1>5, <2>1, <2>2 DEF LevelDisplaced, LimiterFull!Bucket!Displace, LimiterFull!Keys
  <2> QED
    BY <1>5, <2>3 DEF LimiterFull!ImplementsTokenBucket, LimiterFull!Bucket!Next
<1> QED
  BY <1>2, <1>3, <1>4, <1>5 DEF LevelsMove

(* What the invariant promises. *)
LEMMA LimitersPromise ==
  /\ RateInv(Limiter!Keys, RateAddresses, Limiter!Capacity, Limiter!IdleTtl, Period) =>
       Limiter!RateTypeOK /\ Limiter!RetryAfterSuffices
  /\ RateInv(LimiterFull!Keys, {a1, a2}, LimiterFull!Capacity, LimiterFull!IdleTtl, 2) =>
       LimiterFull!RetryAfterSuffices
<1>1. RateInv(Limiter!Keys, RateAddresses, Limiter!Capacity, Limiter!IdleTtl, Period) =>
        Limiter!RateTypeOK
  BY DEF RateInv, RateBuckets, EntryOf, Held, Limiter!RateTypeOK, Limiter!Kept,
    Limiter!Cardinality, Cardinality
<1>2. RateInv(Limiter!Keys, RateAddresses, Limiter!Capacity, Limiter!IdleTtl, Period) =>
        Limiter!RetryAfterSuffices
  BY RateWaitSuffices, LimiterBounds, LimiterLevels DEF Limiter!RetryAfterSuffices
<1>3. RateInv(LimiterFull!Keys, {a1, a2}, LimiterFull!Capacity, LimiterFull!IdleTtl, 2) =>
        LimiterFull!RetryAfterSuffices
  BY RateWaitSuffices, LimiterBounds, LimiterLevels DEF LimiterFull!RetryAfterSuffices
<1> QED
  BY <1>1, <1>2, <1>3

-----------------------------------------------------------------------------
(* The budget.  A release under way that is due owes its window the units it *)
(* returns: they are no longer granted, and still counted.                   *)
BudgetCallOf ==
  [op : {"consume", "release"}, window : 0 .. BudgetMaxWindow, amount : 1 .. BudgetLimit,
   tries : 1 .. 2, due : BOOLEAN]
BudgetHeldOf == [window : 0 .. BudgetMaxWindow, amount : 1 .. BudgetLimit]
BudgetTypes ==
  /\ window \in 0 .. BudgetMaxWindow
  /\ counter \in [0 .. BudgetMaxWindow -> 0 .. BudgetLimit]
  /\ call \in [BudgetCallers -> BudgetCallOf \cup {None}]
  /\ held \in [BudgetCallers -> BudgetHeldOf \cup {None}]
  /\ budgetGranted \in [0 .. BudgetMaxWindow -> Int]
  /\ slipped \in [0 .. BudgetMaxWindow -> Nat]
BudgetCallsInv ==
  \A c \in BudgetCallers : /\ call[c] # None => call[c].window <= window
                           /\ held[c] # None => held[c].window <= window
BudgetWindows ==
  \A w \in 0 .. BudgetMaxWindow : /\ budgetGranted[w] <= BudgetLimit + slipped[w]
                                  /\ w > window => counter[w] = 0 /\ budgetGranted[w] = 0

(* The units calls owe to window w, one by one. *)
OwedBy(r, w) == IF r # None /\ r.due /\ r.window = w THEN r.amount ELSE 0
Owing(calls, w) == [c \in BudgetCallers |-> OwedBy(calls[c], w)]
UnitsOf(owed) == {p \in BudgetCallers \X (1 .. BudgetLimit) : p[2] <= owed[p[1]]}
Owed(calls, w) == UnitsOf(Owing(calls, w))
BudgetCovered ==
  /\ IsFiniteSet(Owed(call, window))
  /\ budgetGranted[window] + Cardinality(Owed(call, window)) <= counter[window] + slipped[window]

BudgetInv == BudgetTypes /\ BudgetCallsInv /\ BudgetWindows /\ BudgetCovered

LEMMA BudgetBounds ==
  BudgetLimit \in Nat \ {0} /\ BudgetMaxWindow \in Nat
BY HttpAssumption DEF Limiter!AmountBudgetAssumption

LEMMA BudgetTyped ==
  ASSUME BudgetTypes
  PROVE  /\ window \in 0 .. BudgetMaxWindow /\ window \in Int
         /\ \A w \in 0 .. BudgetMaxWindow : counter[w] \in 0 .. BudgetLimit /\ counter[w] \in Int
         /\ \A w \in 0 .. BudgetMaxWindow : budgetGranted[w] \in Int /\ w \in Int
         /\ \A w \in 0 .. BudgetMaxWindow : slipped[w] \in Nat
         /\ \A c \in BudgetCallers : call[c] \in BudgetCallOf \cup {None}
         /\ \A c \in BudgetCallers : held[c] \in BudgetHeldOf \cup {None}
<1>1. window \in Int /\ \A w \in 0 .. BudgetMaxWindow : w \in Int
  BY BudgetBounds DEF BudgetTypes
<1>2. \A w \in 0 .. BudgetMaxWindow : counter[w] \in 0 .. BudgetLimit /\ counter[w] \in Int
  BY BudgetBounds DEF BudgetTypes
<1> QED
  BY <1>1, <1>2 DEF BudgetTypes

LEMMA OwedTyped ==
  ASSUME NEW r \in BudgetCallOf \cup {None}, NEW w
  PROVE  OwedBy(r, w) \in 0 .. BudgetLimit
BY BudgetBounds DEF OwedBy, BudgetCallOf

(* One caller's units, and how many there are when only they change. *)
LEMMA UnitsAdded ==
  ASSUME NEW o \in [BudgetCallers -> 0 .. BudgetLimit], NEW c \in BudgetCallers,
         NEW a \in 0 .. BudgetLimit, o[c] = 0, IsFiniteSet(UnitsOf(o))
  PROVE  /\ IsFiniteSet(UnitsOf([o EXCEPT ![c] = a]))
         /\ Cardinality(UnitsOf([o EXCEPT ![c] = a])) = Cardinality(UnitsOf(o)) + a
<1> DEFINE N == {c} \X (1 .. a)
<1>1. BudgetLimit \in Nat /\ a \in Nat /\ 1 .. a \subseteq 1 .. BudgetLimit
  BY BudgetBounds
<1>2. IsFiniteSet(1 .. a) /\ Cardinality(1 .. a) = a
  <2>1. /\ IsFiniteSet(1 .. a)
        /\ Cardinality(1 .. a) = IF 1 > a THEN 0 ELSE a - 1 + 1
    <3>1. 1 \in Int /\ a \in Int
      BY <1>1
    <3> QED
      BY <3>1, FS_Interval
  <2> QED
    BY <1>1, <2>1
<1>3. IsFiniteSet({c}) /\ Cardinality({c}) = 1
  BY FS_Singleton
<1>4. IsFiniteSet(N) /\ Cardinality(N) = 1 * a
  BY <1>2, <1>3, FS_Product
<1>5. UnitsOf([o EXCEPT ![c] = a]) = UnitsOf(o) \cup N
  <2>1. ASSUME NEW p \in BudgetCallers \X (1 .. BudgetLimit)
        PROVE  p[2] <= [o EXCEPT ![c] = a][p[1]] <=> p[2] <= o[p[1]] \/ p \in N
    <3>1. PICK d \in BudgetCallers, i \in 1 .. BudgetLimit : p = <<d, i>>
      OBVIOUS
    <3>2. p \in N <=> d = c /\ i <= a
      BY <1>1, <3>1
    <3>3. i >= 1 /\ p[1] = d /\ p[2] = i
      BY <1>1, <3>1
    <3>4. CASE d = c
      BY <1>1, <3>2, <3>3, <3>4
    <3>5. CASE d # c
      BY <3>2, <3>3, <3>5
    <3> QED
      BY <3>4, <3>5
  <2>2. N \subseteq BudgetCallers \X (1 .. BudgetLimit)
    BY <1>1
  <2> QED
    BY <2>1, <2>2 DEF UnitsOf
<1>6. UnitsOf(o) \cap N = {}
  <2> SUFFICES ASSUME NEW p \in UnitsOf(o), p \in N PROVE FALSE
    OBVIOUS
  <2>1. PICK i \in 1 .. BudgetLimit : p[2] = i /\ p[1] = c
    BY <1>1 DEF UnitsOf
  <2>2. i <= 0 /\ i >= 1
    BY <1>1, <2>1 DEF UnitsOf
  <2> QED
    BY <1>1, <2>1, <2>2
<1>7. Cardinality(UnitsOf(o) \cap N) = 0
  BY <1>6, FS_EmptySet
<1>8. /\ IsFiniteSet(UnitsOf(o) \cup N)
      /\ Cardinality(UnitsOf(o) \cup N) = Cardinality(UnitsOf(o)) + Cardinality(N)
                                            - Cardinality(UnitsOf(o) \cap N)
  BY <1>4, FS_Union
<1>9. Cardinality(UnitsOf(o)) \in Nat /\ 1 * a = a
  BY <1>1, FS_CardinalityType
<1>10. Cardinality(UnitsOf(o) \cup N) = Cardinality(UnitsOf(o)) + a
  BY <1>1, <1>4, <1>7, <1>8, <1>9
<1> QED
  BY <1>5, <1>8, <1>10

LEMMA UnitsMoved ==
  ASSUME NEW o \in [BudgetCallers -> 0 .. BudgetLimit], NEW c \in BudgetCallers,
         NEW a \in 0 .. BudgetLimit, IsFiniteSet(UnitsOf(o))
  PROVE  /\ IsFiniteSet(UnitsOf([o EXCEPT ![c] = a]))
         /\ Cardinality(UnitsOf([o EXCEPT ![c] = a])) = (Cardinality(UnitsOf(o)) - o[c]) + a
<1>1. BudgetLimit \in Nat /\ 0 \in 0 .. BudgetLimit /\ o[c] \in 0 .. BudgetLimit /\ o[c] \in Nat
  BY BudgetBounds
<1>2. PICK b \in [BudgetCallers -> 0 .. BudgetLimit] : b = [o EXCEPT ![c] = 0]
  BY <1>1
<1>3. b[c] = 0 /\ [b EXCEPT ![c] = o[c]] = o /\ [b EXCEPT ![c] = a] = [o EXCEPT ![c] = a]
  BY <1>2
<1>4. UnitsOf(b) \subseteq UnitsOf(o)
  <2> SUFFICES ASSUME NEW d \in BudgetCallers, NEW i \in 1 .. BudgetLimit, i <= b[d]
               PROVE  i <= o[d]
    BY DEF UnitsOf
  <2> QED
    BY <1>1, <1>2
<1>5. IsFiniteSet(UnitsOf(b)) /\ Cardinality(UnitsOf(b)) \in Nat
  BY <1>4, FS_Subset, FS_CardinalityType
<1>6. Cardinality(UnitsOf(o)) = Cardinality(UnitsOf(b)) + o[c]
  BY <1>1, <1>3, <1>5, UnitsAdded
<1>7. /\ IsFiniteSet(UnitsOf([o EXCEPT ![c] = a]))
      /\ Cardinality(UnitsOf([o EXCEPT ![c] = a])) = Cardinality(UnitsOf(b)) + a
  <2>1. /\ IsFiniteSet(UnitsOf([b EXCEPT ![c] = a]))
        /\ Cardinality(UnitsOf([b EXCEPT ![c] = a])) = Cardinality(UnitsOf(b)) + a
    BY <1>3, <1>5, UnitsAdded
  <2> QED
    BY <1>3, <2>1
<1> QED
  BY <1>1, <1>5, <1>6, <1>7

(* A step of one caller that moves what window v granted, counted and let   *)
(* slip, and what the caller owes, so that what was covered stays covered.  *)
LEMMA BudgetStep ==
  ASSUME BudgetInv, window' = window, NEW c \in BudgetCallers,
         NEW r \in BudgetCallOf \cup {None}, call' = [call EXCEPT ![c] = r],
         r # None => r.window <= window,
         NEW h \in BudgetHeldOf \cup {None}, held' = [held EXCEPT ![c] = h],
         h # None => h.window <= window,
         NEW v \in 0 .. BudgetMaxWindow, v <= window,
         NEW x \in 0 .. BudgetLimit, counter' = [counter EXCEPT ![v] = x],
         NEW g \in Int, budgetGranted' = [budgetGranted EXCEPT ![v] = g],
         NEW s \in Nat, slipped' = [slipped EXCEPT ![v] = s],
         v = window => g + OwedBy(r, window) + counter[v] + slipped[v]
                         <= budgetGranted[v] + OwedBy(call[c], window) + x + s,
         v # window => /\ g + slipped[v] <= budgetGranted[v] + s
                       /\ OwedBy(r, window) <= OwedBy(call[c], window)
  PROVE  BudgetInv'
<1>1. /\ window \in 0 .. BudgetMaxWindow /\ window \in Int /\ v \in Int
      /\ counter[window] \in Int /\ counter[v] \in Int /\ x \in Int /\ x <= BudgetLimit
      /\ budgetGranted[window] \in Int /\ budgetGranted[v] \in Int
      /\ slipped[window] \in Nat /\ slipped[v] \in Nat /\ BudgetLimit \in Nat
  BY BudgetTyped, BudgetBounds DEF BudgetInv
<1>2. BudgetTypes'
  BY DEF BudgetInv, BudgetTypes
<1>3. /\ call'[c] = r /\ \A d \in BudgetCallers : d # c => call'[d] = call[d]
      /\ held'[c] = h /\ \A d \in BudgetCallers : d # c => held'[d] = held[d]
  BY DEF BudgetInv, BudgetTypes
<1>4. BudgetCallsInv'
  BY <1>3 DEF BudgetInv, BudgetCallsInv
<1>5. /\ counter'[v] = x /\ budgetGranted'[v] = g /\ slipped'[v] = s
      /\ \A w \in 0 .. BudgetMaxWindow : w # v =>
           /\ counter'[w] = counter[w] /\ budgetGranted'[w] = budgetGranted[w]
           /\ slipped'[w] = slipped[w]
  BY DEF BudgetInv, BudgetTypes
<1>6. PICK o \in [BudgetCallers -> 0 .. BudgetLimit] : o = Owing(call, window)
  BY BudgetTyped, OwedTyped DEF Owing, BudgetInv
<1>7. o[c] = OwedBy(call[c], window) /\ o[c] \in Nat
  BY <1>6, BudgetBounds DEF Owing
<1>8. PICK a \in 0 .. BudgetLimit : a = OwedBy(r, window)
  BY OwedTyped
<1>9. Owing(call', window) = [o EXCEPT ![c] = a]
  BY <1>3, <1>6, <1>8 DEF Owing
<1>10. PICK n \in Nat : n = Cardinality(UnitsOf(o))
  BY <1>6, FS_CardinalityType DEF BudgetInv, BudgetCovered, Owed
<1>11. /\ IsFiniteSet(Owed(call', window))
       /\ Cardinality(Owed(call', window)) = (n - o[c]) + a
  <2>1. IsFiniteSet(UnitsOf(o))
    BY <1>6 DEF BudgetInv, BudgetCovered, Owed
  <2>2. /\ IsFiniteSet(UnitsOf([o EXCEPT ![c] = a]))
        /\ Cardinality(UnitsOf([o EXCEPT ![c] = a])) = (Cardinality(UnitsOf(o)) - o[c]) + a
    BY <2>1, UnitsMoved
  <2> QED
    BY <1>9, <1>10, <2>2 DEF Owed
<1>12. budgetGranted[window] + n <= counter[window] + slipped[window]
  BY <1>6, <1>10 DEF BudgetInv, BudgetCovered, Owed
<1>13. budgetGranted'[window] + ((n - o[c]) + a) <= counter'[window] + slipped'[window]
  <2>1. CASE v = window
    BY <1>1, <1>5, <1>7, <1>8, <1>12, <2>1
  <2>2. CASE v # window
    <3>1. a <= o[c] /\ a \in Int
      BY <1>1, <1>7, <1>8, <2>2
    <3> QED
      BY <1>1, <1>5, <1>7, <1>12, <2>2, <3>1
  <2> QED
    BY <2>1, <2>2
<1>14. BudgetCovered'
  BY <1>11, <1>13 DEF BudgetCovered
<1>15. BudgetWindows'
  <2>1. budgetGranted'[v] <= BudgetLimit + slipped'[v]
    <3>1. CASE v = window
      <4>1. Cardinality(Owed(call', window)) \in Nat
        BY <1>11, FS_CardinalityType
      <4> QED
        BY <1>1, <1>5, <1>11, <1>13, <3>1, <4>1
    <3>2. CASE v # window
      <4>1. budgetGranted[v] <= BudgetLimit + slipped[v]
        BY DEF BudgetInv, BudgetWindows
      <4> QED
        BY <1>1, <1>5, <3>2, <4>1
    <3> QED
      BY <3>1, <3>2
  <2>2. \A w \in 0 .. BudgetMaxWindow : w > window => w # v
    BY <1>1
  <2> QED
    BY <1>5, <2>1, <2>2 DEF BudgetInv, BudgetWindows
<1> QED
  BY <1>2, <1>4, <1>14, <1>15 DEF BudgetInv

(* What is left alone. *)
LEMMA Same ==
  ASSUME NEW S, NEW T, NEW f \in [S -> T], NEW i \in S
  PROVE  f = [f EXCEPT ![i] = f[i]]
OBVIOUS

LEMMA BudgetSame ==
  ASSUME BudgetInv, NEW c \in BudgetCallers, NEW v \in 0 .. BudgetMaxWindow
  PROVE  /\ counter = [counter EXCEPT ![v] = counter[v]]
         /\ budgetGranted = [budgetGranted EXCEPT ![v] = budgetGranted[v]]
         /\ slipped = [slipped EXCEPT ![v] = slipped[v]]
         /\ call = [call EXCEPT ![c] = call[c]]
         /\ held = [held EXCEPT ![c] = held[c]]
BY Same DEF BudgetInv, BudgetTypes

LEMMA BudgetKeeps ==
  ASSUME BudgetInv, NEW c \in BudgetCallers, Limiter!Keep(c)
  PROVE  BudgetInv'
<1>1. /\ UNCHANGED <<window, counter, call, budgetGranted, slipped>>
      /\ held' = [held EXCEPT ![c] = None]
  BY DEF Limiter!Keep
<1>2. /\ window \in 0 .. BudgetMaxWindow /\ window <= window
      /\ counter[window] \in 0 .. BudgetLimit /\ budgetGranted[window] \in Int
      /\ slipped[window] \in Nat /\ call[c] \in BudgetCallOf \cup {None}
      /\ call[c] # None => call[c].window <= window
  BY BudgetTyped DEF BudgetInv, BudgetCallsInv
<1>3. OwedBy(call[c], window) \in Int /\ counter[window] \in Int
  BY <1>2, OwedTyped, BudgetBounds
<1>4. budgetGranted[window] + OwedBy(call[c], window) + counter[window] + slipped[window]
        <= budgetGranted[window] + OwedBy(call[c], window) + counter[window] + slipped[window]
  BY <1>2, <1>3
<1>5. /\ counter' = [counter EXCEPT ![window] = counter[window]]
      /\ budgetGranted' = [budgetGranted EXCEPT ![window] = budgetGranted[window]]
      /\ slipped' = [slipped EXCEPT ![window] = slipped[window]]
      /\ call' = [call EXCEPT ![c] = call[c]] /\ window' = window
  BY <1>1, <1>2, BudgetSame
<1>6. PICK r \in BudgetCallOf \cup {None} : r = call[c]
  BY <1>2
<1>7. /\ call' = [call EXCEPT ![c] = r] /\ (r # None => r.window <= window)
      /\ held' = [held EXCEPT ![c] = None]
      /\ budgetGranted[window] + OwedBy(r, window) + counter[window] + slipped[window]
           <= budgetGranted[window] + OwedBy(call[c], window) + counter[window] + slipped[window]
  BY <1>1, <1>2, <1>4, <1>5, <1>6
<1> QED
  BY <1>2, <1>5, <1>7, BudgetStep

LEMMA BudgetConsumes ==
  ASSUME BudgetInv, NEW c \in BudgetCallers, NEW amount \in 1 .. BudgetLimit,
         Limiter!Consume(c, amount)
  PROVE  BudgetInv'
<1>1. UNCHANGED <<window, counter, held, budgetGranted, slipped>> /\ held[c] = None
  BY DEF Limiter!Consume
<1>2. /\ window \in 0 .. BudgetMaxWindow /\ window <= window
      /\ counter[window] \in 0 .. BudgetLimit /\ budgetGranted[window] \in Int
      /\ slipped[window] \in Nat /\ call[c] \in BudgetCallOf \cup {None}
  BY BudgetTyped DEF BudgetInv
<1>3. PICK r : r = [op |-> "consume", window |-> window, amount |-> amount,
                    tries |-> 2, due |-> FALSE]
  OBVIOUS
<1>4. call' = [call EXCEPT ![c] = r]
  BY <1>3 DEF Limiter!Consume, Limiter!Calls
<1>5. r \in BudgetCallOf /\ r.window <= window /\ OwedBy(r, window) = 0
  <2>1. 2 \in 1 .. 2
    OBVIOUS
  <2> QED
    BY <1>2, <1>3, <2>1 DEF BudgetCallOf, OwedBy
<1>6. OwedBy(call[c], window) \in 0 .. BudgetLimit /\ BudgetLimit \in Nat
  BY <1>2, OwedTyped, BudgetBounds
<1>7. budgetGranted[window] + OwedBy(r, window) + counter[window] + slipped[window]
        <= budgetGranted[window] + OwedBy(call[c], window) + counter[window] + slipped[window]
  BY <1>2, <1>5, <1>6
<1>8. /\ counter' = [counter EXCEPT ![window] = counter[window]]
      /\ budgetGranted' = [budgetGranted EXCEPT ![window] = budgetGranted[window]]
      /\ slipped' = [slipped EXCEPT ![window] = slipped[window]]
      /\ held' = [held EXCEPT ![c] = None] /\ window' = window
  BY <1>1, <1>2, BudgetSame
<1> QED
  BY <1>2, <1>4, <1>5, <1>7, <1>8, BudgetStep

(* A release takes its units from the grants of the window they were         *)
(* reserved in, and owes them if that is the window it returns them to.      *)
LEMMA BudgetReleases ==
  ASSUME BudgetInv, NEW c \in BudgetCallers, NEW amount \in 1 .. BudgetLimit,
         Limiter!Release(c, amount)
  PROVE  BudgetInv'
<1>1. /\ UNCHANGED <<window, counter, slipped>> /\ call[c] = None /\ held[c] # None
      /\ held' = [held EXCEPT ![c] = None]
  BY DEF Limiter!Release, Limiter!Idle
<1>2. /\ window \in 0 .. BudgetMaxWindow /\ window \in Int /\ amount \in Nat
      /\ held[c] \in BudgetHeldOf /\ held[c].window <= window
  BY <1>1, BudgetTyped, BudgetBounds DEF BudgetInv, BudgetCallsInv
<1>3. PICK v \in 0 .. BudgetMaxWindow : v = held[c].window
  BY <1>2 DEF BudgetHeldOf
<1>4. /\ counter[v] \in 0 .. BudgetLimit /\ counter[v] \in Int /\ budgetGranted[v] \in Int
      /\ slipped[v] \in Nat
  BY BudgetTyped DEF BudgetInv
<1>5. PICK r : r = [op |-> "release", window |-> window, amount |-> amount, tries |-> 2,
                    due |-> v = window]
  OBVIOUS
<1>6. call' = [call EXCEPT ![c] = r]
  BY <1>3, <1>5 DEF Limiter!Release, Limiter!Calls
<1>7. r \in BudgetCallOf /\ r.window = window /\ r.amount = amount /\ r.due = (v = window)
  <2>1. 2 \in 1 .. 2 /\ (v = window) \in BOOLEAN
    OBVIOUS
  <2> QED
    BY <1>2, <1>5, <2>1 DEF BudgetCallOf
<1>8. /\ v = window => OwedBy(r, window) <= amount
      /\ v # window => OwedBy(r, window) = 0
      /\ OwedBy(r, window) \in 0 .. BudgetLimit /\ BudgetLimit \in Nat
  <2>1. v # window => ~r.due
    BY <1>7, Zenon
  <2>2. OwedBy(r, window) = 0 \/ OwedBy(r, window) = amount
    BY <1>7 DEF OwedBy
  <2>3. v # window => OwedBy(r, window) = 0
    BY <2>1 DEF OwedBy
  <2> QED
    BY <1>2, <1>7, <2>2, <2>3, OwedTyped, BudgetBounds
<1>9. OwedBy(call[c], window) = 0
  BY <1>1 DEF OwedBy
<1>10. budgetGranted' = [budgetGranted EXCEPT ![v] = budgetGranted[v] - amount]
  BY <1>3 DEF Limiter!Release
<1>11. PICK g \in Int : g = budgetGranted[v] - amount
  BY <1>2, <1>4
<1>12. v = window => g + OwedBy(r, window) + counter[v] + slipped[v]
                       <= budgetGranted[v] + OwedBy(call[c], window) + counter[v] + slipped[v]
  BY <1>2, <1>4, <1>8, <1>9, <1>11
<1>13. v # window => /\ g + slipped[v] <= budgetGranted[v] + slipped[v]
                     /\ OwedBy(r, window) <= OwedBy(call[c], window)
  BY <1>2, <1>4, <1>8, <1>9, <1>11
<1>14. /\ counter' = [counter EXCEPT ![v] = counter[v]]
       /\ slipped' = [slipped EXCEPT ![v] = slipped[v]] /\ window' = window
  BY <1>1, BudgetSame
<1>15. v <= window /\ r.window <= window
  BY <1>2, <1>3, <1>7
<1> QED
  <2>1. budgetGranted' = [budgetGranted EXCEPT ![v] = g]
    BY <1>10, <1>11
  <2>2. r \in BudgetCallOf \cup {None} /\ None \in BudgetHeldOf \cup {None}
        /\ held' = [held EXCEPT ![c] = None]
    BY <1>1, <1>7
  <2> QED
    BY <1>4, <1>6, <1>12, <1>13, <1>14, <1>15, <2>1, <2>2, BudgetStep

(* The script of a consume under way adds what fits to a running window.     *)
LEMMA ConsumeScripts ==
  ASSUME BudgetInv, NEW c \in BudgetCallers, call[c] # None, call[c].op = "consume",
         Limiter!ConsumeScript(c) \/ UNCHANGED counter
  PROVE  \E x \in 0 .. BudgetLimit :
           /\ counter' = [counter EXCEPT ![call[c].window] = x]
           /\ x >= counter[call[c].window]
           /\ Limiter!ConsumeScript(c) =>
                (call[c].window = window /\ Limiter!Fits(counter[window], call[c].amount)
                   => x = counter[window] + call[c].amount)
<1>1. PICK v \in 0 .. BudgetMaxWindow, a \in 1 .. BudgetLimit :
        v = call[c].window /\ a = call[c].amount /\ v <= window
  BY BudgetTyped DEF BudgetInv, BudgetCallOf, BudgetCallsInv
<1>2. /\ counter[v] \in 0 .. BudgetLimit /\ counter[v] \in Int /\ BudgetLimit \in Nat
      /\ window \in Int /\ v \in Int /\ a \in Nat
  BY BudgetTyped, BudgetBounds DEF BudgetInv
<1>3. counter = [counter EXCEPT ![v] = counter[v]]
  BY BudgetSame
<1>4. CASE counter' = counter /\ ~Limiter!ConsumeScript(c)
  BY <1>1, <1>2, <1>3, <1>4
<1>5. CASE Limiter!ConsumeScript(c) /\ ~Limiter!Fits(counter[v], a)
  <2>1. counter' = counter
    BY <1>1, <1>5 DEF Limiter!ConsumeScript, Limiter!Consumed
  <2> QED
    BY <1>1, <1>2, <1>3, <1>5, <2>1
<1>6. CASE Limiter!ConsumeScript(c) /\ v < window
  <2>1. counter' = counter
    BY <1>1, <1>6 DEF Limiter!ConsumeScript, Limiter!Consumed, Limiter!Expired
  <2>2. v # window
    BY <1>2, <1>6
  <2> QED
    BY <1>1, <1>2, <1>3, <1>6, <2>1, <2>2
<1>7. CASE Limiter!ConsumeScript(c) /\ Limiter!Fits(counter[v], a) /\ ~(v < window)
  <2>1. counter' = [counter EXCEPT ![v] = counter[v] + a] /\ v = window
    BY <1>1, <1>2, <1>7 DEF Limiter!ConsumeScript, Limiter!Consumed, Limiter!Expired
  <2>2. counter[v] + a \in 0 .. BudgetLimit /\ counter[v] + a >= counter[v]
    BY <1>2, <1>7 DEF Limiter!Fits
  <2> QED
    BY <1>1, <2>1, <2>2
<1> QED
  BY <1>4, <1>5, <1>6, <1>7

(* Who is allowed holds the units of its call. *)
LEMMA Allows ==
  ASSUME BudgetInv, NEW c \in BudgetCallers, call[c] # None, Limiter!Allow(c)
  PROVE  \E h \in BudgetHeldOf :
           /\ held' = [held EXCEPT ![c] = h] /\ h.window <= window
           /\ budgetGranted' = [budgetGranted EXCEPT ![call[c].window] =
                                  budgetGranted[call[c].window] + call[c].amount]
<1>1. call[c] \in BudgetCallOf /\ call[c].window <= window
  BY BudgetTyped DEF BudgetInv, BudgetCallsInv
<1>2. PICK h : h = [window |-> call[c].window, amount |-> call[c].amount]
  OBVIOUS
<1>3. h \in BudgetHeldOf /\ h.window <= window
  BY <1>1, <1>2 DEF BudgetHeldOf, BudgetCallOf
<1> QED
  BY <1>2, <1>3 DEF Limiter!Allow

LEMMA BudgetConsumeAnswered ==
  ASSUME BudgetInv, NEW c \in BudgetCallers, Limiter!ConsumeAnswered(c)
  PROVE  BudgetInv'
<1>1. /\ call[c] # None /\ call[c].op = "consume" /\ Limiter!ConsumeScript(c)
      /\ window' = window /\ call' = [call EXCEPT ![c] = None]
  BY DEF Limiter!ConsumeAnswered, Limiter!Awaits, Limiter!Idle
<1>2. PICK v \in 0 .. BudgetMaxWindow, a \in 1 .. BudgetLimit :
        v = call[c].window /\ a = call[c].amount /\ v <= window
  BY <1>1, BudgetTyped DEF BudgetInv, BudgetCallOf, BudgetCallsInv
<1>3. /\ counter[v] \in Int /\ budgetGranted[v] \in Int /\ slipped[v] \in Nat
      /\ window \in Int /\ v \in Int /\ a \in Nat /\ BudgetLimit \in Nat
  BY BudgetTyped, BudgetBounds DEF BudgetInv
<1>4. PICK x \in 0 .. BudgetLimit :
        /\ counter' = [counter EXCEPT ![v] = x] /\ x >= counter[v]
        /\ v = window /\ Limiter!Fits(counter[v], a) => x = counter[v] + a
  BY <1>1, <1>2, ConsumeScripts
<1>5. OwedBy(None, window) = 0 /\ OwedBy(call[c], window) \in 0 .. BudgetLimit
  BY BudgetTyped, OwedTyped DEF OwedBy, BudgetInv
<1>6. CASE Limiter!Fits(counter[v], a) /\ Limiter!Allow(c)
           /\ Limiter!Slips(v, IF Limiter!Expired(v) THEN a ELSE 0)
  <2>1. PICK h \in BudgetHeldOf :
          /\ held' = [held EXCEPT ![c] = h] /\ h.window <= window
          /\ budgetGranted' = [budgetGranted EXCEPT ![v] = budgetGranted[v] + a]
    BY <1>1, <1>2, <1>6, Allows
  <2>2. PICK s \in Nat : /\ slipped' = [slipped EXCEPT ![v] = s]
                         /\ s = IF v < window THEN slipped[v] + a ELSE slipped[v]
    <3>1. CASE v < window
      <4>1. slipped' = [slipped EXCEPT ![v] = slipped[v] + a] /\ slipped[v] + a \in Nat
        BY <1>3, <1>6, <3>1 DEF Limiter!Slips, Limiter!Expired
      <4> QED
        BY <3>1, <4>1
    <3>2. CASE ~(v < window)
      <4>1. slipped' = [slipped EXCEPT ![v] = slipped[v] + 0] /\ slipped[v] + 0 = slipped[v]
        BY <1>3, <1>6, <3>2 DEF Limiter!Slips, Limiter!Expired
      <4> QED
        BY <1>3, <3>2, <4>1
    <3> QED
      BY <3>1, <3>2
  <2>3. v = window =>
          (budgetGranted[v] + a) + OwedBy(None, window) + counter[v] + slipped[v]
            <= budgetGranted[v] + OwedBy(call[c], window) + x + s
    BY <1>3, <1>4, <1>5, <1>6, <2>2
  <2>4. v # window => /\ (budgetGranted[v] + a) + slipped[v] <= budgetGranted[v] + s
                      /\ OwedBy(None, window) <= OwedBy(call[c], window)
    BY <1>2, <1>3, <1>5, <2>2
  <2>5. budgetGranted[v] + a \in Int
    BY <1>3
  <2> QED
    BY <1>1, <1>2, <1>4, <2>1, <2>2, <2>3, <2>4, <2>5, BudgetStep
<1>7. CASE UNCHANGED <<held, budgetGranted, slipped>>
  <2>1. /\ held' = [held EXCEPT ![c] = held[c]]
        /\ budgetGranted' = [budgetGranted EXCEPT ![v] = budgetGranted[v]]
        /\ slipped' = [slipped EXCEPT ![v] = slipped[v]]
    BY <1>7, BudgetSame
  <2>2. /\ held[c] \in BudgetHeldOf \cup {None}
        /\ held[c] # None => held[c].window <= window
    BY BudgetTyped DEF BudgetInv, BudgetCallsInv
  <2>3. /\ budgetGranted[v] + OwedBy(None, window) + counter[v] + slipped[v]
             <= budgetGranted[v] + OwedBy(call[c], window) + x + slipped[v]
        /\ budgetGranted[v] + slipped[v] <= budgetGranted[v] + slipped[v]
        /\ OwedBy(None, window) <= OwedBy(call[c], window)
    BY <1>3, <1>4, <1>5
  <2> QED
    BY <1>1, <1>2, <1>3, <1>4, <2>1, <2>2, <2>3, BudgetStep
<1> QED
  BY <1>2, <1>6, <1>7 DEF Limiter!ConsumeAnswered

(* What a call becomes that fails: it owes nothing that it did not owe.      *)
LEMMA RetriedTyped ==
  ASSUME BudgetInv, NEW c \in BudgetCallers, call[c] # None,
         NEW due \in {FALSE, call[c].due}
  PROVE  /\ Limiter!Retried(c, due) \in BudgetCallOf \cup {None}
         /\ Limiter!Retried(c, due) # None => Limiter!Retried(c, due).window <= window
         /\ OwedBy(Limiter!Retried(c, due), window) <= OwedBy(call[c], window)
         /\ OwedBy(Limiter!Retried(c, FALSE), window) = 0
         /\ OwedBy(Limiter!Retried(c, due), window) \in 0 .. BudgetLimit
<1>1. PICK k \in BudgetCallOf : k = call[c] /\ k.window <= window
  BY BudgetTyped DEF BudgetInv, BudgetCallsInv
<1>2. k.due \in BOOLEAN /\ due \in BOOLEAN /\ 1 \in 1 .. 2
  <2>1. k.due \in BOOLEAN
    BY DEF BudgetCallOf
  <2>2. due \in {FALSE, k.due}
    BY <1>1
  <2>3. due \in BOOLEAN
    BY <2>1, <2>2, Zenon
  <2> QED
    BY <2>1, <2>3
<1>3. ASSUME NEW b \in BOOLEAN
      PROVE  \E r \in BudgetCallOf \cup {None} :
               /\ Limiter!Retried(c, b) = r
               /\ r # None => /\ r.window = k.window /\ r.amount = k.amount
                              /\ r.due = b
  <2>1. PICK r : r = [k EXCEPT !.tries = 1, !.due = b]
    OBVIOUS
  <2>2. r \in BudgetCallOf /\ r.window = k.window /\ r.amount = k.amount /\ r.due = b
    BY <1>2, <2>1 DEF BudgetCallOf
  <2>3. Limiter!Retried(c, b) = IF k.tries = 1 THEN None ELSE r
    BY <1>1, <2>1 DEF Limiter!Retried
  <2> QED
    BY <2>2, <2>3
<1>4. PICK f \in BudgetCallOf \cup {None} :
        /\ Limiter!Retried(c, FALSE) = f /\ (f # None => f.due = FALSE)
  BY <1>3
<1>5. OwedBy(f, window) = 0
  BY <1>4 DEF OwedBy
<1>6. PICK r \in BudgetCallOf \cup {None} :
        /\ Limiter!Retried(c, due) = r
        /\ r # None => /\ r.window = k.window /\ r.amount = k.amount /\ r.due = due
  BY <1>2, <1>3
<1>7. OwedBy(r, window) = 0 \/ OwedBy(r, window) = OwedBy(k, window)
  <2>1. CASE r = None \/ due = FALSE
    BY <1>6, <2>1 DEF OwedBy
  <2>2. CASE r # None /\ due = k.due
    <3>1. k # None
      BY <1>1
    <3> QED
      BY <1>6, <2>2, <3>1 DEF OwedBy
  <2> QED
    BY <1>1, <2>1, <2>2
<1>8. OwedBy(k, window) \in 0 .. BudgetLimit /\ OwedBy(r, window) \in 0 .. BudgetLimit
  BY OwedTyped
<1>9. OwedBy(r, window) <= OwedBy(k, window)
  BY <1>7, <1>8, BudgetBounds
<1>10. r # None => r.window <= window
  BY <1>1, <1>6
<1> QED
  BY <1>1, <1>4, <1>5, <1>6, <1>8, <1>9, <1>10

LEMMA BudgetConsumeFails ==
  ASSUME BudgetInv, NEW c \in BudgetCallers, Limiter!ConsumeFails(c)
  PROVE  BudgetInv'
<1>1. /\ call[c] # None /\ call[c].op = "consume" /\ window' = window
      /\ Limiter!ConsumeScript(c) \/ UNCHANGED counter
      /\ call' = [call EXCEPT ![c] = Limiter!Retried(c, FALSE)]
  BY DEF Limiter!ConsumeFails, Limiter!Awaits, Limiter!Idle
<1>2. PICK v \in 0 .. BudgetMaxWindow, a \in 1 .. BudgetLimit :
        v = call[c].window /\ a = call[c].amount /\ v <= window
  BY <1>1, BudgetTyped DEF BudgetInv, BudgetCallOf, BudgetCallsInv
<1>3. /\ counter[v] \in Int /\ budgetGranted[v] \in Int /\ slipped[v] \in Nat
      /\ a \in Nat /\ BudgetLimit \in Nat
  BY BudgetTyped, BudgetBounds DEF BudgetInv
<1>4. PICK x \in 0 .. BudgetLimit : counter' = [counter EXCEPT ![v] = x] /\ x >= counter[v]
  BY <1>1, <1>2, ConsumeScripts
<1>5. PICK r \in BudgetCallOf \cup {None} :
        /\ call' = [call EXCEPT ![c] = r] /\ (r # None => r.window <= window)
        /\ OwedBy(r, window) = 0
  BY <1>1, RetriedTyped
<1>6. OwedBy(call[c], window) \in 0 .. BudgetLimit
  BY BudgetTyped, OwedTyped DEF BudgetInv
<1>7. CASE Limiter!Allow(c) /\ Limiter!Slips(v, a)
  <2>1. PICK h \in BudgetHeldOf :
          /\ held' = [held EXCEPT ![c] = h] /\ h.window <= window
          /\ budgetGranted' = [budgetGranted EXCEPT ![v] = budgetGranted[v] + a]
    BY <1>1, <1>2, <1>7, Allows
  <2>2. slipped' = [slipped EXCEPT ![v] = slipped[v] + a] /\ slipped[v] + a \in Nat
    BY <1>3, <1>7 DEF Limiter!Slips
  <2>3. /\ (budgetGranted[v] + a) + OwedBy(r, window) + counter[v] + slipped[v]
             <= budgetGranted[v] + OwedBy(call[c], window) + x + (slipped[v] + a)
        /\ (budgetGranted[v] + a) + slipped[v] <= budgetGranted[v] + (slipped[v] + a)
        /\ OwedBy(r, window) <= OwedBy(call[c], window)
    BY <1>3, <1>4, <1>5, <1>6
  <2>4. budgetGranted[v] + a \in Int
    BY <1>3
  <2> QED
    BY <1>1, <1>2, <1>4, <1>5, <2>1, <2>2, <2>3, <2>4, BudgetStep
<1>8. CASE UNCHANGED <<held, budgetGranted, slipped>>
  <2>1. /\ held' = [held EXCEPT ![c] = held[c]]
        /\ budgetGranted' = [budgetGranted EXCEPT ![v] = budgetGranted[v]]
        /\ slipped' = [slipped EXCEPT ![v] = slipped[v]]
    BY <1>8, BudgetSame
  <2>2. /\ held[c] \in BudgetHeldOf \cup {None}
        /\ held[c] # None => held[c].window <= window
    BY BudgetTyped DEF BudgetInv, BudgetCallsInv
  <2>3. /\ budgetGranted[v] + OwedBy(r, window) + counter[v] + slipped[v]
             <= budgetGranted[v] + OwedBy(call[c], window) + x + slipped[v]
        /\ budgetGranted[v] + slipped[v] <= budgetGranted[v] + slipped[v]
        /\ OwedBy(r, window) <= OwedBy(call[c], window)
    BY <1>3, <1>4, <1>5, <1>6
  <2> QED
    BY <1>1, <1>2, <1>3, <1>4, <1>5, <2>1, <2>2, <2>3, BudgetStep
<1> QED
  BY <1>2, <1>7, <1>8 DEF Limiter!ConsumeFails

(* The script of a release takes no more than it returns, and what it takes  *)
(* was owed or slips.  The caller owes nothing afterwards.                    *)
LEMMA BudgetReleaseRuns ==
  ASSUME BudgetInv, NEW c \in BudgetCallers, call[c] # None, Limiter!ReleaseScript(c),
         UNCHANGED <<window, held, budgetGranted>>,
         NEW r \in BudgetCallOf \cup {None}, call' = [call EXCEPT ![c] = r],
         r # None => r.window <= window, OwedBy(r, window) = 0
  PROVE  BudgetInv'
<1>1. PICK v \in 0 .. BudgetMaxWindow, a \in 1 .. BudgetLimit :
        v = call[c].window /\ a = call[c].amount /\ v <= window
  BY BudgetTyped DEF BudgetInv, BudgetCallOf, BudgetCallsInv
<1>2. /\ counter[v] \in 0 .. BudgetLimit /\ counter[v] \in Int /\ budgetGranted[v] \in Int
      /\ slipped[v] \in Nat /\ window \in Int /\ v \in Int /\ a \in Nat /\ BudgetLimit \in Nat
  BY BudgetTyped, BudgetBounds DEF BudgetInv
<1>3. PICK x \in 0 .. BudgetLimit :
        /\ counter' = [counter EXCEPT ![v] = x] /\ counter'[v] = x /\ x <= counter[v]
        /\ v = window => x >= counter[v] - a
  <2>1. CASE v < window
    <3>1. counter' = counter
      BY <1>1, <2>1 DEF Limiter!ReleaseScript, Limiter!Released, Limiter!Expired
    <3> QED
      BY <1>2, <2>1, <3>1, BudgetSame
  <2>2. CASE ~(v < window)
    <3>1. PICK x \in 0 .. BudgetLimit : x = IF counter[v] > a THEN counter[v] - a ELSE 0
      BY <1>2
    <3>2. counter' = [counter EXCEPT ![v] = x]
      BY <1>1, <2>2, <3>1 DEF Limiter!ReleaseScript, Limiter!Released, Limiter!Expired
    <3>3. counter'[v] = x
      BY <3>2 DEF BudgetInv, BudgetTypes
    <3>4. x <= counter[v] /\ x >= counter[v] - a
      BY <1>2, <3>1
    <3> QED
      BY <3>2, <3>3, <3>4
  <2> QED
    BY <2>1, <2>2
<1>4. x \in Int
  BY <1>2
<1>5. PICK s \in Nat : /\ slipped' = [slipped EXCEPT ![v] = s]
                       /\ \/ call[c].due = TRUE /\ s = slipped[v]
                          \/ s = slipped[v] + (counter[v] - x)
  <2>1. Limiter!Slips(v, IF call[c].due THEN 0 ELSE counter[v] - x)
    BY <1>1, <1>3 DEF Limiter!ReleaseScript
  <2>2. call[c].due \in BOOLEAN
    BY BudgetTyped DEF BudgetInv, BudgetCallOf
  <2>3. counter[v] - x \in Nat
    BY <1>2, <1>3, <1>4
  <2>4. CASE call[c].due = TRUE
    <3>1. slipped' = [slipped EXCEPT ![v] = slipped[v] + 0]
      BY <2>1, <2>4 DEF Limiter!Slips
    <3>2. slipped[v] + 0 = slipped[v]
      BY <1>2
    <3> QED
      BY <1>2, <2>4, <3>1, <3>2
  <2>5. CASE call[c].due = FALSE
    <3>1. slipped' = [slipped EXCEPT ![v] = slipped[v] + (counter[v] - x)]
      BY <2>1, <2>5 DEF Limiter!Slips
    <3>2. PICK s \in Nat : s = slipped[v] + (counter[v] - x)
      BY <1>2, <2>3
    <3> QED
      BY <3>1, <3>2
  <2> QED
    BY <2>2, <2>4, <2>5
<1>6. PICK o \in 0 .. BudgetLimit :
        o = OwedBy(call[c], window) /\ (v = window /\ call[c].due = TRUE => o = a)
  <2>1. OwedBy(call[c], window) \in 0 .. BudgetLimit
    BY BudgetTyped, OwedTyped DEF BudgetInv
  <2>2. v = window /\ call[c].due = TRUE => OwedBy(call[c], window) = a
    BY <1>1 DEF OwedBy
  <2> QED
    BY <2>1, <2>2
<1>7. v = window => budgetGranted[v] + OwedBy(r, window) + counter[v] + slipped[v]
                      <= budgetGranted[v] + OwedBy(call[c], window) + x + s
  <2>1. o \in Nat
    BY <1>2, <1>6
  <2>2. v = window => counter[v] + slipped[v] <= o + x + s
    BY <1>2, <1>3, <1>4, <1>5, <1>6, <2>1
  <2> QED
    BY <1>2, <1>4, <1>6, <2>1, <2>2
<1>8. v # window => /\ budgetGranted[v] + slipped[v] <= budgetGranted[v] + s
                    /\ OwedBy(r, window) <= OwedBy(call[c], window)
  BY <1>2, <1>3, <1>4, <1>5, <1>6
<1>9. /\ held' = [held EXCEPT ![c] = held[c]] /\ window' = window
      /\ budgetGranted' = [budgetGranted EXCEPT ![v] = budgetGranted[v]]
  BY BudgetSame
<1>10. /\ held[c] \in BudgetHeldOf \cup {None}
       /\ held[c] # None => held[c].window <= window
  BY BudgetTyped DEF BudgetInv, BudgetCallsInv
<1> QED
  BY <1>1, <1>2, <1>3, <1>5, <1>7, <1>8, <1>9, <1>10, BudgetStep

LEMMA BudgetReleaseAnswered ==
  ASSUME BudgetInv, NEW c \in BudgetCallers, Limiter!ReleaseAnswered(c)
  PROVE  BudgetInv'
<1>1. /\ call[c] # None /\ Limiter!ReleaseScript(c) /\ UNCHANGED <<window, held, budgetGranted>>
      /\ call' = [call EXCEPT ![c] = None]
  BY DEF Limiter!ReleaseAnswered, Limiter!Awaits, Limiter!Idle
<1>2. OwedBy(None, window) = 0
  BY DEF OwedBy
<1> QED
  BY <1>1, <1>2, BudgetReleaseRuns

LEMMA BudgetReleaseFails ==
  ASSUME BudgetInv, NEW c \in BudgetCallers, Limiter!ReleaseFails(c)
  PROVE  BudgetInv'
<1>1. call[c] # None /\ UNCHANGED <<window, held, budgetGranted>>
  BY DEF Limiter!ReleaseFails, Limiter!Awaits, Limiter!Idle
<1>2. CASE Limiter!ReleaseScript(c) /\ call' = [call EXCEPT ![c] = Limiter!Retried(c, FALSE)]
  <2>1. PICK r \in BudgetCallOf \cup {None} :
          /\ call' = [call EXCEPT ![c] = r] /\ (r # None => r.window <= window)
          /\ OwedBy(r, window) = 0
    BY <1>1, <1>2, RetriedTyped
  <2> QED
    BY <1>1, <1>2, <2>1, BudgetReleaseRuns
<1>3. CASE /\ call' = [call EXCEPT ![c] = Limiter!Retried(c, call[c].due)]
           /\ UNCHANGED <<counter, slipped>>
  <2>1. PICK r \in BudgetCallOf \cup {None} :
          /\ call' = [call EXCEPT ![c] = r] /\ (r # None => r.window <= window)
          /\ OwedBy(r, window) <= OwedBy(call[c], window)
          /\ OwedBy(r, window) \in 0 .. BudgetLimit
    BY <1>1, <1>3, RetriedTyped
  <2>2. /\ window \in 0 .. BudgetMaxWindow /\ window <= window
        /\ counter[window] \in 0 .. BudgetLimit /\ counter[window] \in Int
        /\ budgetGranted[window] \in Int /\ slipped[window] \in Nat
        /\ held[c] \in BudgetHeldOf \cup {None} /\ BudgetLimit \in Nat
        /\ OwedBy(call[c], window) \in 0 .. BudgetLimit
        /\ held[c] # None => held[c].window <= window
    BY BudgetTyped, BudgetBounds, OwedTyped DEF BudgetInv, BudgetCallsInv
  <2>3. budgetGranted[window] + OwedBy(r, window) + counter[window] + slipped[window]
          <= budgetGranted[window] + OwedBy(call[c], window) + counter[window] + slipped[window]
    BY <2>1, <2>2
  <2>4. /\ held' = [held EXCEPT ![c] = held[c]] /\ window' = window
        /\ counter' = [counter EXCEPT ![window] = counter[window]]
        /\ budgetGranted' = [budgetGranted EXCEPT ![window] = budgetGranted[window]]
        /\ slipped' = [slipped EXCEPT ![window] = slipped[window]]
    BY <1>1, <1>3, <2>2, BudgetSame
  <2> QED
    BY <2>1, <2>2, <2>3, <2>4, BudgetStep
<1> QED
  BY <1>2, <1>3 DEF Limiter!ReleaseFails

(* Nobody owes anything to a window that begins. *)
LEMMA NothingOwed ==
  ASSUME NEW calls \in [BudgetCallers -> BudgetCallOf \cup {None}], NEW w,
         \A c \in BudgetCallers : OwedBy(calls[c], w) = 0
  PROVE  IsFiniteSet(Owed(calls, w)) /\ Cardinality(Owed(calls, w)) = 0
<1>1. Owed(calls, w) = {}
  <2> SUFFICES ASSUME NEW d \in BudgetCallers, NEW i \in 1 .. BudgetLimit, i <= 0
               PROVE  FALSE
    BY DEF Owed, UnitsOf, Owing
  <2> QED
    BY BudgetBounds
<1> QED
  BY <1>1, FS_EmptySet

LEMMA BudgetNextWindow ==
  ASSUME BudgetInv, Limiter!NextWindow
  PROVE  BudgetInv'
<1>1. /\ window < BudgetMaxWindow /\ window' = window + 1
      /\ counter' = [counter EXCEPT ![window] = 0]
      /\ UNCHANGED <<call, held, budgetGranted, slipped>>
  BY DEF Limiter!NextWindow
<1>2. /\ window \in 0 .. BudgetMaxWindow /\ window \in Int /\ BudgetMaxWindow \in Nat
      /\ BudgetLimit \in Nat
  BY BudgetTyped, BudgetBounds DEF BudgetInv
<1>3. window' \in 0 .. BudgetMaxWindow /\ window' > window /\ window' \in Int
  BY <1>1, <1>2
<1>4. /\ counter' \in [0 .. BudgetMaxWindow -> 0 .. BudgetLimit]
      /\ \A w \in 0 .. BudgetMaxWindow : w > window => counter'[w] = counter[w]
  <2>1. 0 \in 0 .. BudgetLimit /\ \A w \in 0 .. BudgetMaxWindow : w > window => w # window
    BY <1>2
  <2> QED
    BY <1>1, <2>1 DEF BudgetInv, BudgetTypes
<1>5. BudgetTypes'
  BY <1>1, <1>3, <1>4 DEF BudgetInv, BudgetTypes
<1>6. ASSUME NEW c \in BudgetCallers
      PROVE  /\ call[c] # None => call[c].window <= window' /\ call[c].window # window'
             /\ held[c] # None => held[c].window <= window'
  <2>1. call[c] # None => call[c].window \in Int /\ call[c].window <= window
    BY BudgetTyped, BudgetBounds DEF BudgetInv, BudgetCallsInv, BudgetCallOf
  <2>2. held[c] # None => held[c].window \in Int /\ held[c].window <= window
    BY BudgetTyped, BudgetBounds DEF BudgetInv, BudgetCallsInv, BudgetHeldOf
  <2> QED
    BY <1>2, <1>3, <2>1, <2>2
<1>7. BudgetCallsInv'
  BY <1>1, <1>6 DEF BudgetCallsInv
<1>8. \A w \in 0 .. BudgetMaxWindow : w > window' => w > window
  BY <1>2, <1>3
<1>9. BudgetWindows'
  BY <1>1, <1>4, <1>8 DEF BudgetInv, BudgetWindows
<1>10. BudgetCovered'
  <2>1. counter'[window'] = 0 /\ budgetGranted'[window'] = 0
    BY <1>1, <1>3, <1>4 DEF BudgetInv, BudgetWindows
  <2>2. \A c \in BudgetCallers : OwedBy(call'[c], window') = 0
    BY <1>1, <1>6 DEF OwedBy
  <2>3. call' \in [BudgetCallers -> BudgetCallOf \cup {None}]
    BY <1>5 DEF BudgetTypes
  <2>4. IsFiniteSet(Owed(call', window')) /\ Cardinality(Owed(call', window')) = 0
    BY <2>2, <2>3, NothingOwed
  <2>5. slipped'[window'] \in Nat
    BY <1>3, <1>5 DEF BudgetTypes
  <2> QED
    BY <2>1, <2>4, <2>5 DEF BudgetCovered
<1> QED
  BY <1>5, <1>7, <1>9, <1>10 DEF BudgetInv

LEMMA BudgetStart == Limiter!BudgetInit => BudgetInv
<1> SUFFICES ASSUME Limiter!BudgetInit PROVE BudgetInv
  OBVIOUS
<1>1. /\ window = 0 /\ counter = [w \in 0 .. BudgetMaxWindow |-> 0]
      /\ call = [c \in BudgetCallers |-> None] /\ held = [c \in BudgetCallers |-> None]
      /\ budgetGranted = [w \in 0 .. BudgetMaxWindow |-> 0]
      /\ slipped = [w \in 0 .. BudgetMaxWindow |-> 0]
  BY DEF Limiter!BudgetInit, Limiter!Windows
<1>2. BudgetLimit \in Nat /\ BudgetMaxWindow \in Nat /\ 0 \in 0 .. BudgetMaxWindow
      /\ 0 \in 0 .. BudgetLimit
  BY BudgetBounds
<1>3. BudgetTypes
  BY <1>1, <1>2 DEF BudgetTypes
<1>4. BudgetCallsInv /\ BudgetWindows
  BY <1>1, <1>2 DEF BudgetCallsInv, BudgetWindows
<1>5. BudgetCovered
  <2>1. IsFiniteSet(Owed(call, 0)) /\ Cardinality(Owed(call, 0)) = 0
    <3>1. call \in [BudgetCallers -> BudgetCallOf \cup {None}]
          /\ \A c \in BudgetCallers : OwedBy(call[c], 0) = 0
      BY <1>1 DEF OwedBy
    <3> QED
      BY <3>1, NothingOwed
  <2> QED
    BY <1>1, <1>2, <2>1 DEF BudgetCovered
<1> QED
  BY <1>3, <1>4, <1>5 DEF BudgetInv

LEMMA BudgetMovesSound ==
  ASSUME BudgetInv, Limiter!BudgetNext
  PROVE  BudgetInv'
<1>1. ASSUME NEW c \in BudgetCallers,
             \/ Limiter!Keep(c) \/ Limiter!ConsumeAnswered(c) \/ Limiter!ReleaseAnswered(c)
             \/ Limiter!ConsumeFails(c) \/ Limiter!ReleaseFails(c)
      PROVE  BudgetInv'
  BY <1>1, BudgetKeeps, BudgetConsumeAnswered, BudgetReleaseAnswered, BudgetConsumeFails,
    BudgetReleaseFails
<1>2. ASSUME NEW c \in BudgetCallers, NEW amount \in 1 .. BudgetLimit,
             Limiter!Consume(c, amount) \/ Limiter!Release(c, amount)
      PROVE  BudgetInv'
  BY <1>2, BudgetConsumes, BudgetReleases
<1> QED
  BY <1>1, <1>2, BudgetNextWindow DEF Limiter!BudgetNext

LEMMA BudgetPromise ==
  ASSUME BudgetInv
  PROVE  Limiter!BudgetTypeOK /\ Limiter!WindowLimit /\ Limiter!CounterCoversGranted
<1>1. Limiter!BudgetTypeOK
  BY DEF BudgetInv, BudgetTypes, BudgetHeldOf, Limiter!BudgetTypeOK, Limiter!Windows
<1>2. Limiter!WindowLimit
  BY DEF BudgetInv, BudgetWindows, Limiter!WindowLimit, Limiter!Windows
<1>3. Limiter!CounterCoversGranted
  <2>1. Cardinality(Owed(call, window)) \in Nat
    BY FS_CardinalityType DEF BudgetInv, BudgetCovered
  <2>2. /\ budgetGranted[window] \in Int /\ counter[window] \in Int /\ slipped[window] \in Nat
        /\ budgetGranted[window] + Cardinality(Owed(call, window))
             <= counter[window] + slipped[window]
    BY BudgetTyped DEF BudgetInv, BudgetCovered
  <2> QED
    BY <2>1, <2>2 DEF Limiter!CounterCoversGranted
<1> QED
  BY <1>1, <1>2, <1>3

-----------------------------------------------------------------------------
(* What every machine keeps: a behaviour of another one moves no limiter.    *)
RateInvs ==
  /\ part = "rate" =>
       RateInv(Limiter!Keys, RateAddresses, Limiter!Capacity, Limiter!IdleTtl, Period)
  /\ part = "full" =>
       RateInv(LimiterFull!Keys, {a1, a2}, LimiterFull!Capacity, LimiterFull!IdleTtl, 2)
LimitsInv == RateInvs /\ (part = "budget" => BudgetInv)

LEMMA RateStays ==
  ASSUME NEW keys, NEW addresses, NEW cap, NEW ttl, NEW period, UNCHANGED rateState,
         RateInv(keys, addresses, cap, ttl, period)
  PROVE  RateInv(keys, addresses, cap, ttl, period)'
BY DEF rateState, RateInv, RateBuckets, RateWaits, Held, Level

LEMMA BudgetStays ==
  ASSUME UNCHANGED budgetState, BudgetInv
  PROVE  BudgetInv'
<1>1. UNCHANGED <<window, counter, call, held, budgetGranted, slipped>>
  BY DEF budgetState
<1> QED
  BY <1>1 DEF BudgetInv, BudgetTypes, BudgetCallsInv, BudgetWindows, BudgetCovered

(* Which machine takes a step. *)
LEMMA LimitMachines ==
  /\ Init => /\ part = "rate" => Limiter!RateInit
             /\ part = "full" => LimiterFull!RateInit
             /\ part = "budget" => Limiter!BudgetInit
  /\ [Next]_vars => /\ part' = part
                    /\ \/ UNCHANGED rateState
                       \/ part = "rate" /\ Limiter!RateNext
                       \/ part = "full" /\ LimiterFull!RateNext
                    /\ \/ UNCHANGED budgetState
                       \/ part = "budget" /\ Limiter!BudgetNext
<1>1. Init => /\ part = "rate" => Limiter!RateInit
              /\ part = "full" => LimiterFull!RateInit
              /\ part = "budget" => Limiter!BudgetInit
  BY DEF Init, PipelineStarts, CondStarts, KeyedStarts, GuardStarts, BodyStarts, UpstreamStarts,
    RateStarts, BudgetStarts, HttpStarts, LocksStarts, PagesStarts, MediaStarts, CsvStarts
<1>2. ASSUME RateMoves \/ BudgetMoves
      PROVE  /\ part' = part
             /\ \/ UNCHANGED rateState
                \/ part = "rate" /\ Limiter!RateNext
                \/ part = "full" /\ LimiterFull!RateNext
             /\ \/ UNCHANGED budgetState
                \/ part = "budget" /\ Limiter!BudgetNext
  BY <1>2 DEF RateMoves, BudgetMoves
<1>3. ASSUME \/ PipelineMoves \/ CondMoves \/ KeyedMoves \/ GuardMoves \/ BodyMoves
             \/ UpstreamMoves \/ HttpMoves \/ LocksMoves \/ PagesMoves \/ MediaMoves \/ CsvMoves
      PROVE  part' = part /\ UNCHANGED rateState /\ UNCHANGED budgetState
  BY <1>3 DEF PipelineMoves, CondMoves, KeyedMoves, GuardMoves, BodyMoves, UpstreamMoves,
    HttpMoves, LocksMoves, PagesMoves, MediaMoves, CsvMoves
<1>4. UNCHANGED vars => part' = part /\ UNCHANGED rateState /\ UNCHANGED budgetState
  BY DEF vars
<1> QED
  BY <1>1, <1>2, <1>3, <1>4 DEF Next

LEMMA LimitsStart == Init => LimitsInv
BY LimitMachines, LimitersStart, BudgetStart DEF LimitsInv, RateInvs

LEMMA LimitsKeep ==
  ASSUME LimitsInv, [Next]_vars
  PROVE  LimitsInv' /\ [LimitsHoldSteps]_vars
<1>1. part' = part
  BY LimitMachines
<1>2. ASSUME part = "rate"
      PROVE  /\ RateInv(Limiter!Keys, RateAddresses, Limiter!Capacity, Limiter!IdleTtl, Period)'
             /\ Limiter!ImplementsTokenBucket
  <2>1. RateInv(Limiter!Keys, RateAddresses, Limiter!Capacity, Limiter!IdleTtl, Period)
    BY <1>2 DEF LimitsInv, RateInvs
  <2>2. CASE UNCHANGED rateState
    <3>1. RateInv(Limiter!Keys, RateAddresses, Limiter!Capacity, Limiter!IdleTtl, Period)'
      BY <2>1, <2>2, RateStays
    <3>2. UNCHANGED [k \in Limiter!Keys |-> Limiter!LevelOf(k)]
      BY <2>2 DEF rateState, Limiter!LevelOf, Limiter!Kept
    <3> QED
      BY <3>1, <3>2 DEF Limiter!ImplementsTokenBucket
  <2>3. CASE Limiter!RateNext
    <3>1. RateActs(Limiter!Keys, RateAddresses, Limiter!Capacity, Limiter!IdleTtl, Period)
      BY <2>1, <2>3, LimiterActs
    <3>2. /\ RateInv(Limiter!Keys, RateAddresses, Limiter!Capacity, Limiter!IdleTtl, Period)'
          /\ LevelsMove(Limiter!Keys, Limiter!Capacity, Period)
      BY <2>1, <3>1, LimiterBounds, RateActsSound
    <3> QED
      BY <2>1, <3>2, LimiterRefines
  <2> QED
    BY <1>2, <2>2, <2>3, LimitMachines
<1>3. ASSUME part = "full"
      PROVE  /\ RateInv(LimiterFull!Keys, {a1, a2}, LimiterFull!Capacity, LimiterFull!IdleTtl, 2)'
             /\ LimiterFull!ImplementsTokenBucket
  <2>1. RateInv(LimiterFull!Keys, {a1, a2}, LimiterFull!Capacity, LimiterFull!IdleTtl, 2)
    BY <1>3 DEF LimitsInv, RateInvs
  <2>2. CASE UNCHANGED rateState
    <3>1. RateInv(LimiterFull!Keys, {a1, a2}, LimiterFull!Capacity, LimiterFull!IdleTtl, 2)'
      BY <2>1, <2>2, RateStays
    <3>2. UNCHANGED [k \in LimiterFull!Keys |-> LimiterFull!LevelOf(k)]
      BY <2>2 DEF rateState, LimiterFull!LevelOf, LimiterFull!Kept
    <3> QED
      BY <3>1, <3>2 DEF LimiterFull!ImplementsTokenBucket
  <2>3. CASE LimiterFull!RateNext
    <3>1. RateActs(LimiterFull!Keys, {a1, a2}, LimiterFull!Capacity, LimiterFull!IdleTtl, 2)
      BY <2>1, <2>3, LimiterFullActs
    <3>2. /\ RateInv(LimiterFull!Keys, {a1, a2}, LimiterFull!Capacity, LimiterFull!IdleTtl, 2)'
          /\ LevelsMove(LimiterFull!Keys, LimiterFull!Capacity, 2)
      BY <2>1, <3>1, LimiterBounds, RateActsSound
    <3> QED
      BY <2>1, <3>2, LimiterFullRefines
  <2> QED
    BY <1>3, <2>2, <2>3, LimitMachines
<1>4. part = "budget" => BudgetInv'
  BY BudgetStays, BudgetMovesSound, LimitMachines DEF LimitsInv
<1> QED
  BY <1>1, <1>2, <1>3, <1>4 DEF LimitsInv, RateInvs, LimitsHoldSteps

LEMMA LimitsPromise == LimitsInv => LimitsHoldHolds
BY LimitersPromise, BudgetPromise DEF LimitsInv, RateInvs, LimitsHoldHolds

(* However checks of concurrent callers, store errors, dropped buckets and  *)
(* the clock interleave, the store keeps no more buckets than it may and a   *)
(* caller that waits out its Retry-After finds a token; however reservations *)
(* of a budget are answered, retried, lost and released, in their window or  *)
(* after it, a window grants no more than its limit and what slipped, and    *)
(* its counter covers all other grants (memory.rs, axum_layer.rs,            *)
(* amount_budget.rs, redis_store.rs).                                        *)
(* Moreover, the store that drops idle buckets cannot be told from one token *)
(* bucket for each key, forgotten only where there are more keys than        *)
(* entries and a full bucket takes the place (TokenBucket).                   *)
THEOREM LimitsKept == Spec => LimitsHold
<1>1. LimitsInv /\ [Next]_vars => LimitsInv' /\ [LimitsHoldSteps]_vars
  BY LimitsKeep
<1> QED
  BY <1>1, LimitsStart, LimitsPromise, PTL DEF Spec, LimitsHold

-----------------------------------------------------------------------------
(* Keyed mutations. A request with a key that the rule accepts is keyed; one  *)
(* without a key is run on its own, and never sent again.                     *)
KeyFor(c) == Pipe!KeyOf(chosen[c])
HasKey(c) == KeyFor(c).ok /\ KeyFor(c).key # None
Runs(c) == stage[c] = "running"
KeyedTypes ==
  /\ chosen \in [KeyedClients -> {<<>>} \cup {<<k>> : k \in KeyedKeys} \cup {<<k, k>> : k \in KeyedKeys}]
  /\ stage = [c \in KeyedClients |-> stage[c]]
  /\ records \in [KeyedKeys -> KeyedClients \cup {None}]
  /\ effects \in [KeyedClients -> Nat]
(* The record of a key tells whose mutation took effect under it, and a       *)
(* mutation that runs is the only one of its key, which has no record yet.    *)
KeyedRecords ==
  /\ \A c \in KeyedClients : HasKey(c) =>
       /\ effects[c] = IF records[KeyFor(c).key] = c THEN 1 ELSE 0
       /\ Runs(c) => records[KeyFor(c).key] = None
  /\ \A k \in KeyedKeys : records[k] # None =>
       HasKey(records[k]) /\ KeyFor(records[k]).key = k
  /\ \A c, d \in KeyedClients :
       c # d /\ HasKey(c) /\ HasKey(d) /\ Runs(c) /\ Runs(d) => KeyFor(c).key # KeyFor(d).key
KeyedStages ==
  \A c \in KeyedClients :
    /\ Runs(c) => HasKey(c) \/ (chosen[c] = <<>> /\ KeyFor(c).ok)
    /\ ~HasKey(c) => \/ effects[c] = 0 /\ stage[c] # "result"
                     \/ effects[c] = 1 /\ chosen[c] = <<>> /\ stage[c] \in {"result", "unknown"}
    /\ HasKey(c) /\ stage[c] = "result" => records[KeyFor(c).key] = c
    /\ stage[c] = "idempotency_key_reused" =>
         HasKey(c) /\ records[KeyFor(c).key] \notin {c, None}
KeyedInv == KeyedTypes /\ KeyedRecords /\ KeyedStages

LEMMA KeyedBounds == None \notin KeyedKeys /\ None \notin KeyedClients
BY HttpAssumption DEF Pipe!KeyedAssumption

(* KeyOf: a key is the only header, and one the client chose. *)
LEMMA KeysOf ==
  ASSUME KeyedTypes, NEW c \in KeyedClients
  PROVE  /\ HasKey(c) => KeyFor(c).key \in KeyedKeys /\ chosen[c] = <<KeyFor(c).key>>
         /\ KeyFor(c).ok /\ ~HasKey(c) => chosen[c] = <<>> /\ KeyFor(c).key = None
         /\ ~KeyFor(c).ok => \/ Pipe!Refusal(KeyFor(c).why) = "idempotency_key_required"
                             \/ Pipe!Refusal(KeyFor(c).why) = "invalid_idempotency_key"
<1>1. PICK hs : hs = chosen[c]
  OBVIOUS
<1>2. ~KeyFor(c).ok => \/ Pipe!Refusal(KeyFor(c).why) = "idempotency_key_required"
                       \/ Pipe!Refusal(KeyFor(c).why) = "invalid_idempotency_key"
  BY DEF Pipe!Refusal
<1>3. CASE hs = <<>>
  <2>1. Pipe!Optional(hs) = [ok |-> TRUE, key |-> None]
    BY <1>3 DEF Pipe!Optional
  <2>2. KeyFor(c) = IF KeyRequired THEN [ok |-> FALSE, why |-> "required"]
                    ELSE [ok |-> TRUE, key |-> None]
    BY <1>1, <2>1 DEF KeyFor, Pipe!KeyOf, Pipe!KeyedBad
  <2>3. ~HasKey(c) /\ (KeyFor(c).ok => KeyFor(c).key = None)
    BY <2>2 DEF HasKey
  <2> QED
    BY <1>1, <1>2, <1>3, <2>3
<1>4. ASSUME NEW k \in KeyedKeys, hs = <<k>>
      PROVE  /\ HasKey(c) => KeyFor(c).key = k
             /\ KeyFor(c).ok => HasKey(c)
  <2>1. Len(hs) = 1 /\ hs[1] = k /\ hs # <<>>
    BY <1>4
  <2>2. Pipe!Optional(hs) = Pipe!KeyedParse(k)
    BY <2>1 DEF Pipe!Optional
  <2>3. PICK p : p = Pipe!KeyedParse(k)
    OBVIOUS
  <2>4. \/ p = [ok |-> TRUE, key |-> k]
        \/ \E why : p = [ok |-> FALSE, why |-> why]
    <3>1. \/ p = Pipe!KeyedBad("empty") \/ p = Pipe!KeyedBad("invalid_character")
          \/ p = Pipe!KeyedBad("too_short") \/ p = Pipe!KeyedBad("too_long")
          \/ p = [ok |-> TRUE, key |-> k]
      <4>1. CASE Length[k] = 0
        BY <2>3, <4>1 DEF Pipe!KeyedParse
      <4>2. CASE Length[k] # 0 /\ k \notin Graphic
        BY <2>3, <4>2 DEF Pipe!KeyedParse
      <4>3. CASE Length[k] # 0 /\ k \in Graphic /\ Length[k] < MinBytes
        BY <2>3, <4>3 DEF Pipe!KeyedParse
      <4>4. CASE Length[k] # 0 /\ k \in Graphic /\ ~(Length[k] < MinBytes) /\ Length[k] > MaxBytes
        BY <2>3, <4>4 DEF Pipe!KeyedParse
      <4>5. CASE Length[k] # 0 /\ k \in Graphic /\ ~(Length[k] < MinBytes) /\ ~(Length[k] > MaxBytes)
        BY <2>3, <4>5 DEF Pipe!KeyedParse
      <4> QED
        BY <4>1, <4>2, <4>3, <4>4, <4>5
    <3> QED
      BY <3>1 DEF Pipe!KeyedBad
  <2>5. k # None
    BY KeyedBounds
  <2>6. KeyFor(c) = p
    BY <1>1, <2>2, <2>3, <2>4, <2>5 DEF KeyFor, Pipe!KeyOf
  <2> QED
    BY <2>4, <2>5, <2>6 DEF HasKey
<1>5. ASSUME NEW k \in KeyedKeys, hs = <<k, k>>
      PROVE  ~KeyFor(c).ok
  <2>1. Len(hs) > 1 /\ hs # <<>>
    BY <1>5
  <2>2. Pipe!Optional(hs) = [ok |-> FALSE, why |-> "repeated_header"]
    BY <2>1 DEF Pipe!Optional, Pipe!KeyedBad
  <2> QED
    BY <1>1, <2>2 DEF KeyFor, Pipe!KeyOf
<1>6. \/ hs = <<>> \/ \E k \in KeyedKeys : hs = <<k>> \/ hs = <<k, k>>
  BY <1>1 DEF KeyedTypes
<1> QED
  BY <1>1, <1>2, <1>3, <1>4, <1>5, <1>6 DEF HasKey

(* A step that moves one client's stage and nothing else. *)
LEMMA StageMoves ==
  ASSUME KeyedInv, NEW c \in KeyedClients, NEW s, UNCHANGED <<chosen, records, effects>>,
         stage' = [stage EXCEPT ![c] = s],
         s = "running" =>
           \/ HasKey(c) /\ records[KeyFor(c).key] = None
              /\ \A d \in KeyedClients : HasKey(d) /\ Runs(d) => KeyFor(d).key # KeyFor(c).key
           \/ ~HasKey(c) /\ chosen[c] = <<>> /\ KeyFor(c).ok,
         ~HasKey(c) => \/ effects[c] = 0 /\ s # "result"
                       \/ effects[c] = 1 /\ chosen[c] = <<>> /\ s \in {"result", "unknown"},
         HasKey(c) /\ s = "result" => records[KeyFor(c).key] = c,
         s = "idempotency_key_reused" => HasKey(c) /\ records[KeyFor(c).key] \notin {c, None}
  PROVE  KeyedInv'
<1>1. /\ stage' = [d \in KeyedClients |-> stage'[d]]
      /\ stage'[c] = s /\ \A d \in KeyedClients : d # c => stage'[d] = stage[d]
  BY DEF KeyedInv, KeyedTypes
<1>2. \A d : KeyFor(d)' = KeyFor(d) /\ (HasKey(d)' <=> HasKey(d))
  BY DEF KeyFor, HasKey
<1>3. KeyedTypes'
  BY <1>1 DEF KeyedInv, KeyedTypes
<1>4. KeyedRecords'
  BY <1>1, <1>2 DEF KeyedInv, KeyedRecords, Runs
<1>5. KeyedStages'
  <2>1. ASSUME NEW d \in KeyedClients
        PROVE  /\ stage'[d] = "running" => HasKey(d) \/ (chosen[d] = <<>> /\ KeyFor(d).ok)
               /\ ~HasKey(d) => \/ effects[d] = 0 /\ stage'[d] # "result"
                                \/ effects[d] = 1 /\ chosen[d] = <<>> /\ stage'[d] \in {"result", "unknown"}
               /\ HasKey(d) /\ stage'[d] = "result" => records[KeyFor(d).key] = d
               /\ stage'[d] = "idempotency_key_reused" =>
                    HasKey(d) /\ records[KeyFor(d).key] \notin {d, None}
    <3>1. CASE d = c
      <4>1. stage'[d] = s
        BY <1>1, <3>1
      <4>2. ~HasKey(d) => \/ effects[d] = 0 /\ s # "result"
                          \/ effects[d] = 1 /\ chosen[d] = <<>> /\ s \in {"result", "unknown"}
        BY <3>1
      <4> QED
        BY <3>1, <4>1, <4>2
    <3>2. CASE d # c
      BY <1>1, <3>2 DEF KeyedInv, KeyedStages, Runs
    <3> QED
      BY <3>1, <3>2
  <2> QED
    BY <1>2, <2>1 DEF KeyedStages, Runs
<1> QED
  BY <1>3, <1>4, <1>5 DEF KeyedInv

LEMMA KeyedSends ==
  ASSUME KeyedInv, NEW c \in KeyedClients, Pipe!KeyedSend(c)
  PROVE  KeyedInv'
<1>1. /\ stage[c] \in {"new", "again"} /\ UNCHANGED <<chosen, records, effects>>
      /\ stage' = [stage EXCEPT ![c] = "sent"]
  BY DEF Pipe!KeyedSend, Pipe!Becomes
<1>2. ~HasKey(c) => effects[c] = 0
  BY <1>1 DEF KeyedInv, KeyedStages
<1> QED
  BY <1>1, <1>2, StageMoves

LEMMA KeyedBegins ==
  ASSUME KeyedInv, NEW c \in KeyedClients, Pipe!Begin(c)
  PROVE  KeyedInv'
<1>1. stage[c] = "sent" /\ UNCHANGED <<chosen, records, effects>>
  BY DEF Pipe!Begin
<1>2. PICK s : /\ stage' = [stage EXCEPT ![c] = s]
               /\ s = IF ~KeyFor(c).ok THEN Pipe!Refusal(KeyFor(c).why)
                      ELSE IF KeyFor(c).key = None THEN "running"
                      ELSE IF Pipe!Holder(KeyFor(c).key) # {} THEN "idempotency_key_in_progress"
                      ELSE IF records[KeyFor(c).key] = None THEN "running"
                      ELSE IF records[KeyFor(c).key] = c THEN "result"
                      ELSE "idempotency_key_reused"
  BY DEF Pipe!Begin, Pipe!Becomes, KeyFor
<1>3. /\ HasKey(c) => KeyFor(c).key \in KeyedKeys
      /\ KeyFor(c).ok /\ ~HasKey(c) => chosen[c] = <<>> /\ KeyFor(c).key = None
      /\ ~KeyFor(c).ok => s \in {"idempotency_key_required", "invalid_idempotency_key"}
  BY <1>2, KeysOf DEF KeyedInv
<1>4. ~HasKey(c) => effects[c] = 0
  BY <1>1 DEF KeyedInv, KeyedStages
<1>5. CASE ~KeyFor(c).ok
  <2>1. ~HasKey(c) /\ s \in {"idempotency_key_required", "invalid_idempotency_key"}
    BY <1>3, <1>5 DEF HasKey
  <2> QED
    BY <1>1, <1>2, <1>4, <2>1, StageMoves
<1>6. CASE KeyFor(c).ok /\ ~HasKey(c)
  <2>1. s = "running" /\ chosen[c] = <<>> /\ KeyFor(c).ok
    BY <1>2, <1>3, <1>6
  <2> QED
    BY <1>1, <1>2, <1>4, <1>6, <2>1, StageMoves
<1>7. CASE HasKey(c)
  <2>1. KeyFor(c).ok /\ KeyFor(c).key # None
    BY <1>7 DEF HasKey
  <2>2. s = "running" =>
          /\ records[KeyFor(c).key] = None
          /\ \A d \in KeyedClients : HasKey(d) /\ Runs(d) => KeyFor(d).key # KeyFor(c).key
    BY <1>2, <2>1 DEF Pipe!Holder, Runs, KeyFor
  <2>3. s = "result" => records[KeyFor(c).key] = c
    BY <1>2, <2>1
  <2>4. s = "idempotency_key_reused" => records[KeyFor(c).key] \notin {c, None}
    BY <1>2, <2>1
  <2> QED
    BY <1>1, <1>2, <1>7, <2>2, <2>3, <2>4, StageMoves
<1> QED
  BY <1>5, <1>6, <1>7

LEMMA KeyedCommits ==
  ASSUME KeyedInv, NEW c \in KeyedClients, Pipe!Commit(c)
  PROVE  KeyedInv'
<1>1. /\ Runs(c) /\ UNCHANGED chosen /\ effects' = [effects EXCEPT ![c] = effects[c] + 1]
      /\ records' = IF KeyFor(c).key = None THEN records ELSE [records EXCEPT ![KeyFor(c).key] = c]
      /\ stage' = [stage EXCEPT ![c] = "result"]
  BY DEF Pipe!Commit, Pipe!Becomes, Runs, KeyFor
<1>2. /\ stage' = [d \in KeyedClients |-> stage'[d]]
      /\ stage'[c] = "result" /\ \A d \in KeyedClients : d # c => stage'[d] = stage[d]
  BY <1>1 DEF KeyedInv, KeyedTypes
<1>3. /\ effects' \in [KeyedClients -> Nat] /\ effects'[c] = effects[c] + 1
      /\ \A d \in KeyedClients : d # c => effects'[d] = effects[d]
  BY <1>1 DEF KeyedInv, KeyedTypes
<1>4. \A d : KeyFor(d)' = KeyFor(d) /\ (HasKey(d)' <=> HasKey(d))
  BY <1>1 DEF KeyFor, HasKey
<1>5. CASE HasKey(c)
  <2>1. PICK k \in KeyedKeys : k = KeyFor(c).key
    BY <1>5, KeysOf DEF KeyedInv
  <2>2. k # None /\ c # None /\ records[k] = None /\ effects[c] = 0
    BY <1>1, <1>5, <2>1, KeyedBounds DEF KeyedInv, KeyedRecords
  <2>3. /\ records' \in [KeyedKeys -> KeyedClients \cup {None}] /\ records'[k] = c
        /\ \A j \in KeyedKeys : j # k => records'[j] = records[j]
    BY <1>1, <2>1, <2>2 DEF KeyedInv, KeyedTypes
  <2>4. KeyedTypes'
    BY <1>1, <1>2, <1>3, <2>3 DEF KeyedInv, KeyedTypes
  <2>5. \A d \in KeyedClients : HasKey(d) => KeyFor(d).key \in KeyedKeys
    BY KeysOf DEF KeyedInv
  <2>6. KeyedRecords'
    <3>1. \A d \in KeyedClients : HasKey(d) =>
            /\ effects'[d] = IF records'[KeyFor(d).key] = d THEN 1 ELSE 0
            /\ d # c /\ Runs(d) => records'[KeyFor(d).key] = None
      <4>1. SUFFICES ASSUME NEW d \in KeyedClients, HasKey(d)
                     PROVE  /\ effects'[d] = IF records'[KeyFor(d).key] = d THEN 1 ELSE 0
                            /\ d # c /\ Runs(d) => records'[KeyFor(d).key] = None
        OBVIOUS
      <4>2. PICK j \in KeyedKeys : j = KeyFor(d).key
        BY <4>1, <2>5
      <4>3. /\ effects[d] = IF records[j] = d THEN 1 ELSE 0
            /\ Runs(d) => records[j] = None
            /\ d # c /\ Runs(d) => j # k
        BY <1>1, <1>5, <2>1, <4>1, <4>2 DEF KeyedInv, KeyedRecords
      <4>4. CASE d = c
        BY <1>3, <2>1, <2>2, <2>3, <4>2, <4>4
      <4>5. CASE d # c
        <5>1. effects'[d] = effects[d] /\ (records'[j] = d <=> records[j] = d)
          BY <1>3, <2>2, <2>3, <4>3, <4>5, KeyedBounds
        <5> QED
          BY <2>3, <4>2, <4>3, <4>5, <5>1
      <4> QED
        BY <4>4, <4>5
    <3>2. \A j \in KeyedKeys : records'[j] # None =>
            HasKey(records'[j]) /\ KeyFor(records'[j]).key = j
      BY <1>5, <2>1, <2>3 DEF KeyedInv, KeyedRecords
    <3> QED
      BY <1>2, <1>4, <3>1, <3>2 DEF KeyedInv, KeyedRecords, Runs
  <2>7. KeyedStages'
    <3>1. \A d \in KeyedClients : HasKey(d) /\ records[KeyFor(d).key] # None =>
            records'[KeyFor(d).key] = records[KeyFor(d).key]
      BY <2>2, <2>3, <2>5
    <3> QED
      BY <1>1, <1>2, <1>3, <1>4, <1>5, <2>1, <2>3, <3>1, KeyedBounds DEF KeyedInv, KeyedStages, Runs
  <2> QED
    BY <2>4, <2>6, <2>7 DEF KeyedInv
<1>6. CASE ~HasKey(c)
  <2>1. chosen[c] = <<>> /\ effects[c] = 0
    BY <1>1, <1>6 DEF KeyedInv, KeyedStages, Runs
  <2>2. records' = records
    <3>1. KeyFor(c).key = None
      BY <1>1, <1>6 DEF KeyedInv, KeyedStages, HasKey
    <3> QED
      BY <1>1, <3>1
  <2>3. KeyedTypes'
    BY <1>1, <1>2, <1>3, <2>2 DEF KeyedInv, KeyedTypes
  <2>4. KeyedRecords'
    BY <1>2, <1>3, <1>4, <1>6, <2>2 DEF KeyedInv, KeyedRecords, Runs
  <2>5. KeyedStages'
    BY <1>1, <1>2, <1>3, <1>4, <1>6, <2>1, <2>2 DEF KeyedInv, KeyedStages, Runs
  <2> QED
    BY <2>3, <2>4, <2>5 DEF KeyedInv
<1> QED
  BY <1>5, <1>6

(* A crash and a lost answer send a keyed mutation again, and no other. *)
LEMMA KeyedRepeats ==
  ASSUME KeyedInv, NEW c \in KeyedClients, Pipe!Crash(c) \/ Pipe!Lose(c) \/ Pipe!Wait(c)
  PROVE  KeyedInv'
<1>1. UNCHANGED <<chosen, records, effects>>
  BY DEF Pipe!Crash, Pipe!Lose, Pipe!Wait
<1>2. PICK s : /\ stage' = [stage EXCEPT ![c] = s]
               /\ \/ s = "again" /\ (chosen[c] # <<>> \/ stage[c] = "idempotency_key_in_progress")
                  \/ s = "unknown" /\ chosen[c] = <<>> /\ stage[c] # "idempotency_key_in_progress"
  BY DEF Pipe!Crash, Pipe!Lose, Pipe!Wait, Pipe!Becomes, Pipe!Retryable
<1>3. ~HasKey(c) => \/ effects[c] = 0 /\ s # "result"
                    \/ effects[c] = 1 /\ chosen[c] = <<>> /\ s \in {"result", "unknown"}
  BY <1>2 DEF KeyedInv, KeyedStages
<1> QED
  BY <1>1, <1>2, <1>3, StageMoves

LEMMA KeyedStart ==
  ASSUME Pipe!KeyedInit
  PROVE  KeyedInv
<1>1. /\ stage = [c \in KeyedClients |-> "new"] /\ records = [k \in KeyedKeys |-> None]
      /\ effects = [c \in KeyedClients |-> 0]
      /\ chosen \in [KeyedClients -> {<<>>} \cup {<<k>> : k \in KeyedKeys} \cup {<<k, k>> : k \in KeyedKeys}]
  BY DEF Pipe!KeyedInit
<1>2. KeyedTypes
  BY <1>1 DEF KeyedTypes
<1>3. \A c \in KeyedClients : HasKey(c) => KeyFor(c).key \in KeyedKeys
  BY <1>2, KeysOf
<1>4. KeyedRecords
  BY <1>1, <1>3, KeyedBounds DEF KeyedRecords, Runs
<1>5. KeyedStages
  BY <1>1 DEF KeyedStages, Runs
<1> QED
  BY <1>2, <1>4, <1>5 DEF KeyedInv

LEMMA KeyedSteps ==
  ASSUME KeyedInv, Pipe!KeyedNext
  PROVE  KeyedInv'
<1>1. PICK c \in KeyedClients : Pipe!Steps(c) \/ Pipe!Crash(c) \/ Pipe!Lose(c)
  BY DEF Pipe!KeyedNext
<1> QED
  BY <1>1, KeyedSends, KeyedBegins, KeyedCommits, KeyedRepeats DEF Pipe!Steps

LEMMA KeyedPromises ==
  ASSUME KeyedInv
  PROVE  Pipe!OncePerMutation /\ Pipe!ReusedMeansNoEffect
<1>1. ASSUME NEW c \in KeyedClients
      PROVE  effects[c] <= 1 /\ (stage[c] = "result" => effects[c] = 1)
  BY DEF KeyedInv, KeyedRecords, KeyedStages
<1>2. ASSUME NEW c \in KeyedClients, stage[c] = "idempotency_key_reused"
      PROVE  effects[c] = 0 /\ \E d \in KeyedClients \ {c} : chosen[d] = chosen[c] /\ effects[d] = 1
  <2>1. HasKey(c) /\ records[KeyFor(c).key] \notin {c, None}
    BY <1>2 DEF KeyedInv, KeyedStages
  <2>2. PICK k \in KeyedKeys : k = KeyFor(c).key /\ chosen[c] = <<k>>
    BY <2>1, KeysOf DEF KeyedInv
  <2>3. PICK d \in KeyedClients : d = records[k] /\ d # c
    BY <2>1, <2>2 DEF KeyedInv, KeyedTypes
  <2>4. d # None /\ HasKey(d) /\ KeyFor(d).key = k
    BY <2>3, KeyedBounds DEF KeyedInv, KeyedRecords
  <2>5. chosen[d] = <<k>>
    BY <2>4, KeysOf DEF KeyedInv
  <2>6. effects[d] = 1 /\ effects[c] = 0
    BY <2>1, <2>2, <2>3, <2>4 DEF KeyedInv, KeyedRecords
  <2> QED
    BY <2>2, <2>3, <2>5, <2>6
<1> QED
  BY <1>1, <1>2 DEF Pipe!OncePerMutation, Pipe!ReusedMeansNoEffect

-----------------------------------------------------------------------------
(* Only an erasure and a cleanup delete a link: the one with its owner, the   *)
(* other one that is not used.                                                *)
LEMMA CleanupSpares ==
  ASSUME Serve!LocksNext
  PROVE  Serve!CleanupSparesUsed
<1>1. PICK s \in Sessions : \/ Serve!Begin(s) \/ Serve!Acquire(s) \/ Serve!Query(s)
                            \/ Serve!Commit(s) \/ Serve!CommitUnsent(s)
  BY DEF Serve!LocksNext
<1>2. CASE used' = used
  BY <1>2 DEF Serve!CleanupSparesUsed
<1>3. CASE Serve!Begin(s)
  BY <1>2, <1>3 DEF Serve!Begin, Serve!data
<1>4. CASE Serve!Acquire(s)
  BY <1>2, <1>4, Zenon DEF Serve!Acquire, Serve!data
<1>5. CASE Serve!Query(s)
  BY <1>2, <1>5, Zenon DEF Serve!Query, Serve!data
<1>6. CASE Serve!CommitUnsent(s)
  BY <1>2, <1>6 DEF Serve!CommitUnsent, Serve!data
<1>7. CASE Serve!Commit(s)
  <2>1. CASE UNCHANGED Serve!data
    BY <1>2, <2>1 DEF Serve!data
  <2>2. PICK n : n = tx[s].of
    OBVIOUS
  <2>3. CASE Serve!Erased(s, n)
    <3>1. people' = people \ {n} /\ used' = used \ Serve!LinksOf(n)
      BY <2>3 DEF Serve!Erased, Serve!Rows
    <3> QED
      BY <3>1 DEF Serve!LinksOf, Serve!CleanupSparesUsed
  <2>4. CASE Serve!Cleaned(s)
    <3>1. used' = used \ Serve!Expired(s)
      BY <2>4 DEF Serve!Cleaned, Serve!Rows
    <3> QED
      BY <1>2, <3>1 DEF Serve!Expired
  <2>5. CASE \/ Serve!Requested(n) \/ Serve!Coded(n) \/ Serve!Exchanged(s, n) \/ Serve!Completed(s, n)
             \/ Serve!Updated(s) \/ Serve!QueuedFor(s, n) \/ Serve!Recorded(n) \/ Serve!Emitted(s)
    <3>1. used' = used
      BY <2>5 DEF Serve!Requested, Serve!Coded, Serve!Exchanged, Serve!Completed, Serve!Updated,
                  Serve!QueuedFor, Serve!Recorded, Serve!Emitted, Serve!JobsAre, Serve!Rows
    <3> QED
      BY <1>2, <3>1
  <2>6. CASE Serve!Delivered(s, n) \/ Serve!Received(n)
    <3>1. used \subseteq used'
      BY <2>6 DEF Serve!Delivered, Serve!Received, Serve!Rows
    <3> QED
      BY <3>1 DEF Serve!CleanupSparesUsed
  <2>7. UNCHANGED Serve!data \/ Serve!Written(s)
    BY <1>7 DEF Serve!Commit
  <2> QED
    BY <2>1, <2>2, <2>3, <2>4, <2>5, <2>6, <2>7 DEF Serve!Written
<1> QED
  BY <1>1, <1>3, <1>4, <1>5, <1>6, <1>7

-----------------------------------------------------------------------------
(* A provider and its importer. The wait the provider means, and what the     *)
(* importer makes of it.                                                      *)
UpstreamTimes == upstreamNow \in 0..UpstreamMaxTime /\ until \in 0..UpstreamMaxTime
Waits == IF until - upstreamNow < 0 THEN 0 ELSE until - upstreamNow
Means(cap, d) == d \in Nat /\ (d = Waits \/ (cap # None /\ d = cap))

(* What the importer reads from the headers: no delay from silent ones, and   *)
(* the wait the provider means, or the cap, from the ones that name a time.   *)
LEMMA OutReads ==
  ASSUME UpstreamTimes, NEW h \in Out!UpstreamHeaders, NEW code
  PROVE  LET r == Out!Response(code, h)
             d == Out!HeaderDelay(r)
         IN  /\ h \in Out!Silent => d = None
             /\ d = None \/ Means(Cap, d)
             /\ \/ h.vendor # None /\ (h.vendor.kind = "seconds" \/ (h.vendor.kind = "list" /\ FirstField))
                \/ h.standard # None /\ h.standard.kind \in {"seconds", "date"}
                => d # None
             /\ h \in Out!Silent => h.remaining # 0
             /\ h.reset \in {None, until}
<1>1. PICK w \in Nat : w = Waits
  BY DEF UpstreamTimes, Waits
<1>2. Out!AtLeastZero(until - upstreamNow) = w /\ Out!AtLeastZero(w) = w
  BY <1>1 DEF UpstreamTimes, Waits, Out!AtLeastZero
<1>3. None \notin Nat
  BY HttpAssumption DEF Out!UpstreamAssumption
<1>4. \A v \in {Out!Seconds(w), Out!List(w), Out!Date(until), Out!Junk} : v # None
  <2>1. w \in Int /\ until \in Int
    BY <1>1 DEF UpstreamTimes
  <2>2. \A v \in {Out!Seconds(w), Out!List(w), Out!Date(until), Out!Junk} : v \in Out!HeaderValues
    BY <2>1 DEF Out!HeaderValues, Out!Seconds, Out!List, Out!Date, Out!Junk
  <2> QED
    BY <2>2, HttpAssumption DEF Out!UpstreamAssumption
<1>5. /\ Out!Parsed(None) = None /\ Out!Parsed(Out!Seconds(w)) = w /\ Out!Parsed(Out!Date(until)) = w
      /\ Out!Parsed(Out!List(w)) = None /\ Out!Parsed(Out!Junk) = None
  <2>1. /\ Out!Seconds(w).kind = "seconds" /\ Out!Seconds(w).n = w /\ Out!Date(until).kind = "date"
        /\ Out!Date(until).n = until /\ Out!List(w).kind = "list" /\ Out!Junk.kind = "junk"
    BY DEF Out!Seconds, Out!Date, Out!List, Out!Junk
  <2>2. Out!Parsed(None) = None
    BY DEF Out!Parsed
  <2>3. Out!Parsed(Out!Seconds(w)) = w
    BY <1>4, <2>1 DEF Out!Parsed
  <2>4. Out!Parsed(Out!Date(until)) = w
    BY <1>2, <1>4, <2>1 DEF Out!Parsed
  <2>5. Out!Parsed(Out!List(w)) = None /\ Out!Parsed(Out!Junk) = None
    BY <1>4, <2>1 DEF Out!Parsed
  <2> QED
    BY <2>2, <2>3, <2>4, <2>5
<1>6. /\ Out!Vendor(None) = None /\ Out!Vendor(Out!Junk) = None /\ Out!Vendor(Out!Seconds(w)) = w
      /\ Out!Vendor(Out!List(w)) = IF FirstField THEN w ELSE None
  <2>1. /\ Out!Seconds(w).kind = "seconds" /\ Out!List(w).kind = "list" /\ Out!List(w).n = w /\ Out!Junk.kind = "junk"
    BY DEF Out!Seconds, Out!List, Out!Junk
  <2> QED
    BY <1>4, <1>5, <2>1 DEF Out!Vendor
<1>7. Means(Cap, Out!Capped(w)) /\ Out!Capped(w) # None
  BY <1>1, <1>3, HttpAssumption DEF Out!Capped, Out!UpstreamAssumption, Means, Waits
<1>8. PICK r : r = Out!Response(code, h)
  OBVIOUS
<1>14. r.vendor = h.vendor /\ r.standard = h.standard
  BY <1>8 DEF Out!Response
<1>9. Out!HeaderDelay(r) =
        IF Out!Vendor(h.vendor) # None THEN Out!Capped(Out!Vendor(h.vendor))
        ELSE IF Out!Parsed(h.standard) # None THEN Out!Capped(Out!Parsed(h.standard)) ELSE None
  BY <1>14 DEF Out!HeaderDelay
<1>10. CASE h \in Out!Silent
  <2>1. /\ h.vendor \in {None, Out!Junk} /\ h.standard \in {None, Out!Junk} /\ h.remaining \in {None, 1}
        /\ h.reset = None
    BY <1>10 DEF Out!Silent
  <2>2. h.remaining # 0
    BY <1>3, <2>1
  <2>3. Out!HeaderDelay(r) = None
    BY <1>5, <1>6, <1>9, <2>1
  <2>4. Out!Junk.kind = "junk"
    BY DEF Out!Junk
  <2> QED
    BY <1>8, <2>1, <2>2, <2>3, <2>4
<1>11. CASE /\ h.vendor \in {Out!Seconds(w), Out!List(w)} /\ h.standard \in {None, Out!Date(until)}
            /\ h \notin Out!Silent /\ h.reset = None
  <2>1. /\ Out!Vendor(h.vendor) \in {w, None} /\ Out!Parsed(h.standard) \in {w, None}
        /\ h.vendor.kind = "seconds" \/ (h.vendor.kind = "list" /\ FirstField) => Out!Vendor(h.vendor) = w
        /\ h.standard # None => Out!Parsed(h.standard) = w
    <3>1. Out!Seconds(w).kind = "seconds" /\ Out!List(w).kind = "list"
      BY DEF Out!Seconds, Out!List
    <3> QED
      BY <1>5, <1>6, <1>11, <3>1
  <2> QED
    BY <1>1, <1>3, <1>7, <1>8, <1>9, <1>11, <2>1
<1>12. CASE /\ h.vendor \in {None, Out!Junk} /\ h.standard \in {Out!Seconds(w), Out!Date(until)}
            /\ h \notin Out!Silent /\ h.reset = None
  BY <1>1, <1>3, <1>5, <1>6, <1>7, <1>8, <1>9, <1>12
<1>13. CASE /\ h.vendor = None /\ h.standard = None
            /\ h \notin Out!Silent /\ h.reset \in {None, until}
  BY <1>5, <1>6, <1>8, <1>9, <1>13
<1> QED
  <2>1. \/ h \in Out!Silent
        \/ h.vendor \in {Out!Seconds(w), Out!List(w)} /\ h.standard \in {None, Out!Date(until)} /\ h.reset = None
        \/ h.vendor \in {None, Out!Junk} /\ h.standard \in {Out!Seconds(w), Out!Date(until)} /\ h.reset = None
        \/ h.vendor = None /\ h.standard = None /\ h.reset \in {None, until}
    BY <1>2 DEF Out!UpstreamHeaders
  <2> QED
    BY <1>10, <1>11, <1>12, <1>13, <2>1

(* A response of the provider: revoked means refused, and a time it named is  *)
(* waited for, or the cap.                                                    *)
LEMMA OutClasses ==
  ASSUME UpstreamTimes, NEW h \in Out!UpstreamHeaders, NEW code \in Out!Codes(h)
  PROVE  LET r == Out!Response(code, h)
             c == Out!Classify(r)
         IN  /\ c.kind = Revoked <=> ~upstreamGranted
             /\ c.kind \in {UpstreamRetryAfter, UpstreamRateLimited, Unavailable, UpstreamTimeout, Revoked, Permanent}
             /\ c.kind = UpstreamRetryAfter => Means(Cap, c.delay)
             /\ upstreamGranted /\ ~broken /\ upstreamNow < until /\ Out!Names(r) => c.kind = UpstreamRetryAfter
<1>1. PICK r : r = Out!Response(code, h)
  OBVIOUS
<1>2. /\ r.code = code /\ r.vendor = h.vendor /\ r.standard = h.standard /\ r.remaining = h.remaining
      /\ r.reset = h.reset
  BY <1>1 DEF Out!Response
<1>3. PICK d : d = Out!HeaderDelay(r)
  OBVIOUS
<1>4. /\ h \in Out!Silent => d = None /\ h.remaining # 0
      /\ d = None \/ Means(Cap, d)
      /\ \/ h.vendor # None /\ (h.vendor.kind = "seconds" \/ (h.vendor.kind = "list" /\ FirstField))
         \/ h.standard # None /\ h.standard.kind \in {"seconds", "date"}
         => d # None
      /\ h.reset \in {None, until}
  BY <1>1, <1>3, OutReads
<1>5. /\ TransportFailed \notin Nat /\ TransportTimeout \notin Nat /\ None \notin Nat
      /\ TransportFailed # TransportTimeout
      /\ Revoked \notin {UpstreamRetryAfter, UpstreamRateLimited, Unavailable, UpstreamTimeout, Permanent}
      /\ UpstreamRetryAfter \notin {UpstreamRateLimited, Unavailable, UpstreamTimeout, Permanent}
  BY HttpAssumption DEF Out!UpstreamAssumption
<1>6. PICK c : c = Out!Classify(r)
  OBVIOUS
<1>7. PICK reset : reset = Out!Class(UpstreamRetryAfter, Out!Capped(Out!AtLeastZero(h.reset - upstreamNow)))
  OBVIOUS
<1>8. reset.kind = UpstreamRetryAfter /\ (h.reset # None => Means(Cap, reset.delay))
  <2>1. reset.kind = UpstreamRetryAfter /\ reset.delay = Out!Capped(Out!AtLeastZero(h.reset - upstreamNow))
    BY <1>7 DEF Out!Class
  <2>2. ASSUME h.reset # None
        PROVE  Means(Cap, reset.delay)
    <3>1. Out!AtLeastZero(h.reset - upstreamNow) = Waits /\ Waits \in Nat
      BY <1>4, <2>2 DEF Out!AtLeastZero, Waits, UpstreamTimes
    <3>2. PICK w \in Nat : w = Waits
      BY <3>1
    <3>3. reset.delay = Out!Capped(w)
      BY <2>1, <3>1, <3>2
    <3> QED
      BY <3>2, <3>3, HttpAssumption DEF Out!Capped, Out!UpstreamAssumption, Means
  <2> QED
    BY <2>1, <2>2
<1>9. \A fallback : /\ d # None => Out!Delayed(d, fallback) = [kind |-> UpstreamRetryAfter, delay |-> d]
                    /\ d = None => Out!Delayed(d, fallback) = [kind |-> fallback, delay |-> 0]
  BY DEF Out!Delayed, Out!Class
<1>10. CASE ~upstreamGranted
  <2>1. code = 401 \/ (code = 403 /\ h \in Out!Silent)
    BY <1>10 DEF Out!Codes
  <2>2. c.kind = Revoked
    <3>1. CASE code = 401
      <4>1. c = Out!Class(Revoked, 0)
        BY <1>2, <1>5, <1>6, <3>1 DEF Out!Classify
      <4> QED
        BY <4>1 DEF Out!Class
    <3>2. CASE code = 403 /\ h \in Out!Silent
      <4>1. Out!ForbiddenClass(r) = Out!Class(Revoked, 0)
        BY <1>2, <1>3, <1>4, <3>2 DEF Out!ForbiddenClass
      <4>2. c = Out!Class(Revoked, 0)
        BY <1>2, <1>5, <1>6, <3>2, <4>1 DEF Out!Classify
      <4> QED
        BY <4>2 DEF Out!Class
    <3> QED
      BY <2>1, <3>1, <3>2
  <2> QED
    BY <1>1, <1>5, <1>6, <1>10, <2>2
<1>11. CASE upstreamGranted /\ broken
  <2>1. code \in {400, 404}
    BY <1>11 DEF Out!Codes
  <2>2. c = Out!Class(Permanent, 0)
    BY <1>2, <1>5, <1>6, <2>1 DEF Out!Classify
  <2>3. c.kind = Permanent
    BY <2>2 DEF Out!Class
  <2> QED
    BY <1>1, <1>5, <1>6, <1>11, <2>3
<1>12. CASE upstreamGranted /\ ~broken /\ upstreamNow < until
  <2>1. code \in {429, 500, 503, 504} \/ (code = 403 /\ Forbidden /\ h.remaining = 0)
    BY <1>12 DEF Out!Codes
  <2>2. Out!Names(r) => d # None \/ (code = 403 /\ h.remaining = 0 /\ h.reset # None)
    BY <1>2, <1>4 DEF Out!Names
  <2>3. CASE code \in {429, 500, 503, 504}
    <3>1. \/ c = Out!Delayed(d, UpstreamRateLimited) \/ c = Out!Delayed(d, UpstreamTimeout)
          \/ c = Out!Delayed(d, Unavailable)
      <4>1. CASE code = 429
        BY <1>2, <1>3, <1>5, <1>6, <4>1 DEF Out!Classify
      <4>2. CASE code = 504
        BY <1>2, <1>3, <1>5, <1>6, <4>2 DEF Out!Classify
      <4>3. CASE code \in {500, 503}
        BY <1>2, <1>3, <1>5, <1>6, <4>3 DEF Out!Classify
      <4> QED
        BY <2>3, <4>1, <4>2, <4>3
    <3>2. CASE d # None
      <4>1. c.kind = UpstreamRetryAfter /\ c.delay = d
        BY <1>9, <3>1, <3>2
      <4> QED
        BY <1>1, <1>4, <1>5, <1>6, <1>12, <3>2, <4>1
    <3>3. CASE d = None
      <4>1. c.kind \in {UpstreamRateLimited, UpstreamTimeout, Unavailable}
        BY <1>9, <3>1, <3>3
      <4>2. ~Out!Names(r)
        BY <2>2, <2>3, <3>3
      <4> QED
        BY <1>1, <1>5, <1>6, <1>12, <4>1, <4>2
    <3> QED
      BY <3>2, <3>3
  <2>4. CASE code = 403 /\ Forbidden /\ h.remaining = 0
    <3>1. c = Out!ForbiddenClass(r)
      <4>1. r.code = 403 /\ r.code # TransportTimeout /\ r.code # TransportFailed /\ Forbidden
        BY <1>2, <1>5, <2>4
      <4> QED
        BY <1>6, <4>1 DEF Out!Classify
    <3>2. CASE d # None
      <4>1. c = Out!Class(UpstreamRetryAfter, d)
        BY <1>3, <3>1, <3>2 DEF Out!ForbiddenClass
      <4>2. c.kind = UpstreamRetryAfter /\ c.delay = d
        BY <4>1 DEF Out!Class
      <4> QED
        BY <1>1, <1>4, <1>5, <1>6, <1>12, <3>2, <4>2
    <3>3. CASE d = None /\ h.reset = None
      <4>1. c = Out!Class(UpstreamRateLimited, 0)
        BY <1>2, <1>3, <2>4, <3>1, <3>3 DEF Out!ForbiddenClass
      <4>2. c.kind = UpstreamRateLimited
        BY <4>1 DEF Out!Class
      <4>3. ~Out!Names(r)
        BY <2>2, <3>3
      <4> QED
        BY <1>1, <1>5, <1>6, <1>12, <4>2, <4>3
    <3>4. CASE d = None /\ h.reset # None
      <4>1. c = reset
        BY <1>2, <1>3, <1>7, <2>4, <3>1, <3>4 DEF Out!ForbiddenClass
      <4> QED
        BY <1>1, <1>5, <1>6, <1>8, <1>12, <3>4, <4>1
    <3> QED
      BY <3>2, <3>3, <3>4
  <2> QED
    BY <2>1, <2>3, <2>4
<1>13. CASE upstreamGranted /\ ~broken /\ ~(upstreamNow < until)
  <2>1. code \in {TransportFailed, TransportTimeout, 408, 425, 500, 504}
    BY <1>13 DEF Out!Codes
  <2>2. \/ c = Out!Class(UpstreamTimeout, 0) \/ c = Out!Class(Unavailable, 0)
        \/ c = Out!Delayed(d, UpstreamTimeout) \/ c = Out!Delayed(d, Unavailable)
    <3>1. CASE code = TransportTimeout
      <4>1. r.code = TransportTimeout /\ r.code # TransportFailed
            /\ r.code \notin {401, 403, 408, 425, 429, 500, 503, 504}
        BY <1>2, <1>5, <3>1
      <4>2. c = Out!Class(UpstreamTimeout, 0)
        BY <1>6, <4>1 DEF Out!Classify
      <4> QED
        BY <4>2
    <3>2. CASE code = TransportFailed
      BY <1>2, <1>5, <1>6, <3>2 DEF Out!Classify
    <3>3. CASE code = 408
      BY <1>2, <1>5, <1>6, <3>3 DEF Out!Classify
    <3>4. CASE code = 425
      BY <1>2, <1>5, <1>6, <3>4 DEF Out!Classify
    <3>5. CASE code = 500
      BY <1>2, <1>3, <1>5, <1>6, <3>5 DEF Out!Classify
    <3>6. CASE code = 504
      BY <1>2, <1>3, <1>5, <1>6, <3>6 DEF Out!Classify
    <3> QED
      BY <2>1, <3>1, <3>2, <3>3, <3>4, <3>5, <3>6
  <2>3. CASE c = Out!Class(UpstreamTimeout, 0) \/ c = Out!Class(Unavailable, 0)
    <3>1. c.kind \in {UpstreamTimeout, Unavailable}
      BY <2>3 DEF Out!Class
    <3> QED
      BY <1>1, <1>5, <1>6, <1>13, <3>1
  <2>4. CASE c = Out!Delayed(d, UpstreamTimeout) \/ c = Out!Delayed(d, Unavailable)
    <3>1. CASE d # None
      <4>1. c.kind = UpstreamRetryAfter /\ c.delay = d
        BY <1>9, <2>4, <3>1
      <4> QED
        BY <1>1, <1>4, <1>5, <1>6, <1>13, <3>1, <4>1
    <3>2. CASE d = None
      <4>1. c.kind \in {UpstreamTimeout, Unavailable}
        BY <1>9, <2>4, <3>2
      <4> QED
        BY <1>1, <1>5, <1>6, <1>13, <4>1
    <3> QED
      BY <3>1, <3>2
  <2> QED
    BY <2>2, <2>3, <2>4
<1> QED
  BY <1>10, <1>11, <1>12, <1>13

(* What the importer reads from the headers: no delay from silent ones, and   *)
(* the wait the provider means, or the cap, from the ones that name a time.   *)
LEMMA OutCappedReads ==
  ASSUME UpstreamTimes, NEW h \in OutCapped!UpstreamHeaders, NEW code
  PROVE  LET r == OutCapped!Response(code, h)
             d == OutCapped!HeaderDelay(r)
         IN  /\ h \in OutCapped!Silent => d = None
             /\ d = None \/ Means(2, d)
             /\ \/ h.vendor # None /\ (h.vendor.kind = "seconds" \/ (h.vendor.kind = "list" /\ FALSE))
                \/ h.standard # None /\ h.standard.kind \in {"seconds", "date"}
                => d # None
             /\ h \in OutCapped!Silent => h.remaining # 0
             /\ h.reset \in {None, until}
<1>1. PICK w \in Nat : w = Waits
  BY DEF UpstreamTimes, Waits
<1>2. OutCapped!AtLeastZero(until - upstreamNow) = w /\ OutCapped!AtLeastZero(w) = w
  BY <1>1 DEF UpstreamTimes, Waits, OutCapped!AtLeastZero
<1>3. None \notin Nat
  BY HttpAssumption DEF OutCapped!UpstreamAssumption
<1>4. \A v \in {OutCapped!Seconds(w), OutCapped!List(w), OutCapped!Date(until), OutCapped!Junk} : v # None
  <2>1. w \in Int /\ until \in Int
    BY <1>1 DEF UpstreamTimes
  <2>2. \A v \in {OutCapped!Seconds(w), OutCapped!List(w), OutCapped!Date(until), OutCapped!Junk} :
          v \in OutCapped!HeaderValues
    BY <2>1 DEF OutCapped!HeaderValues, OutCapped!Seconds, OutCapped!List, OutCapped!Date, OutCapped!Junk
  <2> QED
    BY <2>2, HttpAssumption DEF OutCapped!UpstreamAssumption
<1>5. /\ OutCapped!Parsed(None) = None /\ OutCapped!Parsed(OutCapped!Seconds(w)) = w
      /\ OutCapped!Parsed(OutCapped!Date(until)) = w
      /\ OutCapped!Parsed(OutCapped!List(w)) = None /\ OutCapped!Parsed(OutCapped!Junk) = None
  <2>1. /\ OutCapped!Seconds(w).kind = "seconds" /\ OutCapped!Seconds(w).n = w /\ OutCapped!Date(until).kind = "date"
        /\ OutCapped!Date(until).n = until /\ OutCapped!List(w).kind = "list" /\ OutCapped!Junk.kind = "junk"
    BY DEF OutCapped!Seconds, OutCapped!Date, OutCapped!List, OutCapped!Junk
  <2>2. OutCapped!Parsed(None) = None
    BY DEF OutCapped!Parsed
  <2>3. OutCapped!Parsed(OutCapped!Seconds(w)) = w
    BY <1>4, <2>1 DEF OutCapped!Parsed
  <2>4. OutCapped!Parsed(OutCapped!Date(until)) = w
    BY <1>2, <1>4, <2>1 DEF OutCapped!Parsed
  <2>5. OutCapped!Parsed(OutCapped!List(w)) = None /\ OutCapped!Parsed(OutCapped!Junk) = None
    BY <1>4, <2>1 DEF OutCapped!Parsed
  <2> QED
    BY <2>2, <2>3, <2>4, <2>5
<1>6. /\ OutCapped!Vendor(None) = None /\ OutCapped!Vendor(OutCapped!Junk) = None
      /\ OutCapped!Vendor(OutCapped!Seconds(w)) = w
      /\ OutCapped!Vendor(OutCapped!List(w)) = IF FALSE THEN w ELSE None
  <2>1. /\ OutCapped!Seconds(w).kind = "seconds" /\ OutCapped!List(w).kind = "list"
        /\ OutCapped!List(w).n = w /\ OutCapped!Junk.kind = "junk"
    BY DEF OutCapped!Seconds, OutCapped!List, OutCapped!Junk
  <2> QED
    BY <1>4, <1>5, <2>1 DEF OutCapped!Vendor
<1>7. Means(2, OutCapped!Capped(w)) /\ OutCapped!Capped(w) # None
  BY <1>1, <1>3, HttpAssumption DEF OutCapped!Capped, OutCapped!UpstreamAssumption, Means, Waits
<1>8. PICK r : r = OutCapped!Response(code, h)
  OBVIOUS
<1>14. r.vendor = h.vendor /\ r.standard = h.standard
  BY <1>8 DEF OutCapped!Response
<1>9. OutCapped!HeaderDelay(r) =
        IF OutCapped!Vendor(h.vendor) # None THEN OutCapped!Capped(OutCapped!Vendor(h.vendor))
        ELSE IF OutCapped!Parsed(h.standard) # None THEN OutCapped!Capped(OutCapped!Parsed(h.standard)) ELSE None
  BY <1>14 DEF OutCapped!HeaderDelay
<1>10. CASE h \in OutCapped!Silent
  <2>1. /\ h.vendor \in {None, OutCapped!Junk} /\ h.standard \in {None, OutCapped!Junk}
        /\ h.remaining \in {None, 1} /\ h.reset = None
    BY <1>10 DEF OutCapped!Silent
  <2>2. h.remaining # 0
    BY <1>3, <2>1
  <2>3. OutCapped!HeaderDelay(r) = None
    BY <1>5, <1>6, <1>9, <2>1
  <2>4. OutCapped!Junk.kind = "junk"
    BY DEF OutCapped!Junk
  <2> QED
    BY <1>8, <2>1, <2>2, <2>3, <2>4
<1>11. CASE /\ h.vendor \in {OutCapped!Seconds(w), OutCapped!List(w)} /\ h.standard \in {None, OutCapped!Date(until)}
            /\ h \notin OutCapped!Silent /\ h.reset = None
  <2>1. /\ OutCapped!Vendor(h.vendor) \in {w, None} /\ OutCapped!Parsed(h.standard) \in {w, None}
        /\ h.vendor.kind = "seconds" \/ (h.vendor.kind = "list" /\ FALSE) => OutCapped!Vendor(h.vendor) = w
        /\ h.standard # None => OutCapped!Parsed(h.standard) = w
    <3>1. OutCapped!Seconds(w).kind = "seconds" /\ OutCapped!List(w).kind = "list"
      BY DEF OutCapped!Seconds, OutCapped!List
    <3> QED
      BY <1>5, <1>6, <1>11, <3>1
  <2> QED
    BY <1>1, <1>3, <1>7, <1>8, <1>9, <1>11, <2>1
<1>12. CASE /\ h.vendor \in {None, OutCapped!Junk} /\ h.standard \in {OutCapped!Seconds(w), OutCapped!Date(until)}
            /\ h \notin OutCapped!Silent /\ h.reset = None
  BY <1>1, <1>3, <1>5, <1>6, <1>7, <1>8, <1>9, <1>12
<1>13. CASE /\ h.vendor = None /\ h.standard = None
            /\ h \notin OutCapped!Silent /\ h.reset \in {None, until}
  BY <1>5, <1>6, <1>8, <1>9, <1>13
<1> QED
  <2>1. \/ h \in OutCapped!Silent
        \/ h.vendor \in {OutCapped!Seconds(w), OutCapped!List(w)} /\ h.standard \in {None, OutCapped!Date(until)}
           /\ h.reset = None
        \/ h.vendor \in {None, OutCapped!Junk} /\ h.standard \in {OutCapped!Seconds(w), OutCapped!Date(until)}
           /\ h.reset = None
        \/ h.vendor = None /\ h.standard = None /\ h.reset \in {None, until}
    BY <1>2 DEF OutCapped!UpstreamHeaders
  <2> QED
    BY <1>10, <1>11, <1>12, <1>13, <2>1

(* A response of the provider: revoked means refused, and a time it named is  *)
(* waited for, or the cap.                                                    *)
LEMMA OutCappedClasses ==
  ASSUME UpstreamTimes, NEW h \in OutCapped!UpstreamHeaders, NEW code \in OutCapped!Codes(h)
  PROVE  LET r == OutCapped!Response(code, h)
             c == OutCapped!Classify(r)
         IN  /\ c.kind = Revoked <=> ~upstreamGranted
             /\ c.kind \in {UpstreamRetryAfter, UpstreamRateLimited, Unavailable, UpstreamTimeout, Revoked, Permanent}
             /\ c.kind = UpstreamRetryAfter => Means(2, c.delay)
             /\ upstreamGranted /\ ~broken /\ upstreamNow < until /\ OutCapped!Names(r) => c.kind = UpstreamRetryAfter
<1>1. PICK r : r = OutCapped!Response(code, h)
  OBVIOUS
<1>2. /\ r.code = code /\ r.vendor = h.vendor /\ r.standard = h.standard /\ r.remaining = h.remaining
      /\ r.reset = h.reset
  BY <1>1 DEF OutCapped!Response
<1>3. PICK d : d = OutCapped!HeaderDelay(r)
  OBVIOUS
<1>4. /\ h \in OutCapped!Silent => d = None /\ h.remaining # 0
      /\ d = None \/ Means(2, d)
      /\ \/ h.vendor # None /\ (h.vendor.kind = "seconds" \/ (h.vendor.kind = "list" /\ FALSE))
         \/ h.standard # None /\ h.standard.kind \in {"seconds", "date"}
         => d # None
      /\ h.reset \in {None, until}
  BY <1>1, <1>3, OutCappedReads
<1>5. /\ TransportFailed \notin Nat /\ TransportTimeout \notin Nat /\ None \notin Nat
      /\ TransportFailed # TransportTimeout
      /\ Revoked \notin {UpstreamRetryAfter, UpstreamRateLimited, Unavailable, UpstreamTimeout, Permanent}
      /\ UpstreamRetryAfter \notin {UpstreamRateLimited, Unavailable, UpstreamTimeout, Permanent}
  BY HttpAssumption DEF OutCapped!UpstreamAssumption
<1>6. PICK c : c = OutCapped!Classify(r)
  OBVIOUS
<1>7. PICK reset :
        reset = OutCapped!Class(UpstreamRetryAfter, OutCapped!Capped(OutCapped!AtLeastZero(h.reset - upstreamNow)))
  OBVIOUS
<1>8. reset.kind = UpstreamRetryAfter /\ (h.reset # None => Means(2, reset.delay))
  <2>1. /\ reset.kind = UpstreamRetryAfter
        /\ reset.delay = OutCapped!Capped(OutCapped!AtLeastZero(h.reset - upstreamNow))
    BY <1>7 DEF OutCapped!Class
  <2>2. ASSUME h.reset # None
        PROVE  Means(2, reset.delay)
    <3>1. OutCapped!AtLeastZero(h.reset - upstreamNow) = Waits /\ Waits \in Nat
      BY <1>4, <2>2 DEF OutCapped!AtLeastZero, Waits, UpstreamTimes
    <3>2. PICK w \in Nat : w = Waits
      BY <3>1
    <3>3. reset.delay = OutCapped!Capped(w)
      BY <2>1, <3>1, <3>2
    <3> QED
      BY <3>2, <3>3, HttpAssumption DEF OutCapped!Capped, OutCapped!UpstreamAssumption, Means
  <2> QED
    BY <2>1, <2>2
<1>9. \A fallback : /\ d # None => OutCapped!Delayed(d, fallback) = [kind |-> UpstreamRetryAfter, delay |-> d]
                    /\ d = None => OutCapped!Delayed(d, fallback) = [kind |-> fallback, delay |-> 0]
  BY DEF OutCapped!Delayed, OutCapped!Class
<1>10. CASE ~upstreamGranted
  <2>1. code = 401 \/ (code = 403 /\ h \in OutCapped!Silent)
    BY <1>10 DEF OutCapped!Codes
  <2>2. c.kind = Revoked
    <3>1. CASE code = 401
      <4>1. c = OutCapped!Class(Revoked, 0)
        BY <1>2, <1>5, <1>6, <3>1 DEF OutCapped!Classify
      <4> QED
        BY <4>1 DEF OutCapped!Class
    <3>2. CASE code = 403 /\ h \in OutCapped!Silent
      <4>1. OutCapped!ForbiddenClass(r) = OutCapped!Class(Revoked, 0)
        BY <1>2, <1>3, <1>4, <3>2 DEF OutCapped!ForbiddenClass
      <4>2. c = OutCapped!Class(Revoked, 0)
        BY <1>2, <1>5, <1>6, <3>2, <4>1 DEF OutCapped!Classify
      <4> QED
        BY <4>2 DEF OutCapped!Class
    <3> QED
      BY <2>1, <3>1, <3>2
  <2> QED
    BY <1>1, <1>5, <1>6, <1>10, <2>2
<1>11. CASE upstreamGranted /\ broken
  <2>1. code \in {400, 404}
    BY <1>11 DEF OutCapped!Codes
  <2>2. c = OutCapped!Class(Permanent, 0)
    BY <1>2, <1>5, <1>6, <2>1 DEF OutCapped!Classify
  <2>3. c.kind = Permanent
    BY <2>2 DEF OutCapped!Class
  <2> QED
    BY <1>1, <1>5, <1>6, <1>11, <2>3
<1>12. CASE upstreamGranted /\ ~broken /\ upstreamNow < until
  <2>1. code \in {429, 500, 503, 504} \/ (code = 403 /\ FALSE /\ h.remaining = 0)
    BY <1>12 DEF OutCapped!Codes
  <2>2. OutCapped!Names(r) => d # None \/ (code = 403 /\ h.remaining = 0 /\ h.reset # None)
    BY <1>2, <1>4 DEF OutCapped!Names
  <2>3. CASE code \in {429, 500, 503, 504}
    <3>1. \/ c = OutCapped!Delayed(d, UpstreamRateLimited) \/ c = OutCapped!Delayed(d, UpstreamTimeout)
          \/ c = OutCapped!Delayed(d, Unavailable)
      <4>1. CASE code = 429
        BY <1>2, <1>3, <1>5, <1>6, <4>1 DEF OutCapped!Classify
      <4>2. CASE code = 504
        BY <1>2, <1>3, <1>5, <1>6, <4>2 DEF OutCapped!Classify
      <4>3. CASE code \in {500, 503}
        BY <1>2, <1>3, <1>5, <1>6, <4>3 DEF OutCapped!Classify
      <4> QED
        BY <2>3, <4>1, <4>2, <4>3
    <3>2. CASE d # None
      <4>1. c.kind = UpstreamRetryAfter /\ c.delay = d
        BY <1>9, <3>1, <3>2
      <4> QED
        BY <1>1, <1>4, <1>5, <1>6, <1>12, <3>2, <4>1
    <3>3. CASE d = None
      <4>1. c.kind \in {UpstreamRateLimited, UpstreamTimeout, Unavailable}
        BY <1>9, <3>1, <3>3
      <4>2. ~OutCapped!Names(r)
        BY <2>2, <2>3, <3>3
      <4> QED
        BY <1>1, <1>5, <1>6, <1>12, <4>1, <4>2
    <3> QED
      BY <3>2, <3>3
  <2>4. CASE code = 403 /\ FALSE /\ h.remaining = 0
    <3>1. c = OutCapped!ForbiddenClass(r)
      <4>1. r.code = 403 /\ r.code # TransportTimeout /\ r.code # TransportFailed /\ FALSE
        BY <1>2, <1>5, <2>4
      <4> QED
        BY <1>6, <4>1 DEF OutCapped!Classify
    <3>2. CASE d # None
      <4>1. c = OutCapped!Class(UpstreamRetryAfter, d)
        BY <1>3, <3>1, <3>2 DEF OutCapped!ForbiddenClass
      <4>2. c.kind = UpstreamRetryAfter /\ c.delay = d
        BY <4>1 DEF OutCapped!Class
      <4> QED
        BY <1>1, <1>4, <1>5, <1>6, <1>12, <3>2, <4>2
    <3>3. CASE d = None /\ h.reset = None
      <4>1. c = OutCapped!Class(UpstreamRateLimited, 0)
        BY <1>2, <1>3, <2>4, <3>1, <3>3 DEF OutCapped!ForbiddenClass
      <4>2. c.kind = UpstreamRateLimited
        BY <4>1 DEF OutCapped!Class
      <4>3. ~OutCapped!Names(r)
        BY <2>2, <3>3
      <4> QED
        BY <1>1, <1>5, <1>6, <1>12, <4>2, <4>3
    <3>4. CASE d = None /\ h.reset # None
      <4>1. c = reset
        BY <1>2, <1>3, <1>7, <2>4, <3>1, <3>4 DEF OutCapped!ForbiddenClass
      <4> QED
        BY <1>1, <1>5, <1>6, <1>8, <1>12, <3>4, <4>1
    <3> QED
      BY <3>2, <3>3, <3>4
  <2> QED
    BY <2>1, <2>3, <2>4
<1>13. CASE upstreamGranted /\ ~broken /\ ~(upstreamNow < until)
  <2>1. code \in {TransportFailed, TransportTimeout, 408, 425, 500, 504}
    BY <1>13 DEF OutCapped!Codes
  <2>2. \/ c = OutCapped!Class(UpstreamTimeout, 0) \/ c = OutCapped!Class(Unavailable, 0)
        \/ c = OutCapped!Delayed(d, UpstreamTimeout) \/ c = OutCapped!Delayed(d, Unavailable)
    <3>1. CASE code = TransportTimeout
      <4>1. r.code = TransportTimeout /\ r.code # TransportFailed
            /\ r.code \notin {401, 403, 408, 425, 429, 500, 503, 504}
        BY <1>2, <1>5, <3>1
      <4>2. c = OutCapped!Class(UpstreamTimeout, 0)
        BY <1>6, <4>1 DEF OutCapped!Classify
      <4> QED
        BY <4>2
    <3>2. CASE code = TransportFailed
      BY <1>2, <1>5, <1>6, <3>2 DEF OutCapped!Classify
    <3>3. CASE code = 408
      BY <1>2, <1>5, <1>6, <3>3 DEF OutCapped!Classify
    <3>4. CASE code = 425
      BY <1>2, <1>5, <1>6, <3>4 DEF OutCapped!Classify
    <3>5. CASE code = 500
      BY <1>2, <1>3, <1>5, <1>6, <3>5 DEF OutCapped!Classify
    <3>6. CASE code = 504
      BY <1>2, <1>3, <1>5, <1>6, <3>6 DEF OutCapped!Classify
    <3> QED
      BY <2>1, <3>1, <3>2, <3>3, <3>4, <3>5, <3>6
  <2>3. CASE c = OutCapped!Class(UpstreamTimeout, 0) \/ c = OutCapped!Class(Unavailable, 0)
    <3>1. c.kind \in {UpstreamTimeout, Unavailable}
      BY <2>3 DEF OutCapped!Class
    <3> QED
      BY <1>1, <1>5, <1>6, <1>13, <3>1
  <2>4. CASE c = OutCapped!Delayed(d, UpstreamTimeout) \/ c = OutCapped!Delayed(d, Unavailable)
    <3>1. CASE d # None
      <4>1. c.kind = UpstreamRetryAfter /\ c.delay = d
        BY <1>9, <2>4, <3>1
      <4> QED
        BY <1>1, <1>4, <1>5, <1>6, <1>13, <3>1, <4>1
    <3>2. CASE d = None
      <4>1. c.kind \in {UpstreamTimeout, Unavailable}
        BY <1>9, <2>4, <3>2
      <4> QED
        BY <1>1, <1>5, <1>6, <1>13, <4>1
    <3> QED
      BY <3>1, <3>2
  <2> QED
    BY <2>2, <2>3, <2>4
<1> QED
  BY <1>10, <1>11, <1>12, <1>13

(* What the owner sees of the connection hangs together, and its next attempt *)
(* is no sooner than the provider told, or than the importer's cap.           *)
UpstreamStatus ==
  [health : {Healthy, Degraded, NeedsReconnect, Failed}, success : (0..UpstreamMaxTime) \cup {None},
   attempt : (0..UpstreamMaxTime) \cup {None}, retry : Nat \cup {None}, failed : 0..MaxAttempts]
UpstreamInv(cap) ==
  /\ UpstreamTimes /\ blocks \in 0..MaxBlocks /\ status \in UpstreamStatus
  /\ status.health = Healthy => status.failed = 0 /\ status.retry = None
  /\ status.health # Healthy => status.failed > 0
  /\ status.health = Degraded /\ status.failed < MaxAttempts => status.retry # None
  /\ status.retry # None =>
       /\ status.health = Degraded /\ status.failed < MaxAttempts
       /\ status.attempt \in 0..UpstreamMaxTime /\ status.retry >= status.attempt
  /\ upstreamTold # None =>
       /\ upstreamTold \in 0..UpstreamMaxTime /\ status.health # Healthy
       /\ status.retry # None =>
            status.retry >= upstreamTold \/ (cap # None /\ status.retry >= status.attempt + cap)

LEMMA UpstreamConstants ==
  /\ Cap \in Nat \cup {None} /\ None \notin Nat /\ Backoff \in Nat /\ MaxAttempts \in Nat \ {0}
  /\ UpstreamMaxTime \in Nat /\ UpstreamMaxWindow \in Nat /\ MaxBlocks \in Nat
  /\ Healthy \notin {Degraded, NeedsReconnect, Failed} /\ Failed \notin {Degraded, NeedsReconnect}
  /\ Degraded # NeedsReconnect /\ Revoked # Permanent
  /\ Revoked \notin {UpstreamRetryAfter, UpstreamRateLimited, Unavailable, UpstreamTimeout, Permanent}
  /\ Permanent \notin {UpstreamRetryAfter, UpstreamRateLimited, Unavailable, UpstreamTimeout}
BY HttpAssumption DEF Out!UpstreamAssumption

(* An attempt is not made before the time the provider told, or the cap. *)
LEMMA TriesWhenTold ==
  ASSUME NEW cap \in Nat \cup {None}, UpstreamInv(cap), Out!MayAttempt, upstreamTold # None
  PROVE  \/ upstreamNow >= upstreamTold
         \/ cap # None /\ upstreamNow >= status.attempt + cap
<1>1. status.health # Healthy /\ upstreamTold \in 0..UpstreamMaxTime
  BY DEF UpstreamInv
<1>2. status.retry # None /\ upstreamNow >= status.retry
  BY <1>1 DEF Out!MayAttempt
<1>3. status.retry \in Nat /\ upstreamNow \in Nat /\ status.attempt \in Nat
  BY <1>2, UpstreamConstants DEF UpstreamInv, UpstreamStatus, UpstreamTimes
<1>4. status.retry >= upstreamTold \/ (cap # None /\ status.retry >= status.attempt + cap)
  BY <1>2 DEF UpstreamInv
<1> QED
  BY <1>1, <1>2, <1>3, <1>4, UpstreamConstants

(* A failure: the class decides what the owner sees and when the importer     *)
(* tries again.                                                               *)
LEMMA FailureKeeps ==
  ASSUME NEW cap \in Nat \cup {None}, UpstreamInv(cap), Out!MayAttempt, NEW c,
         c.kind \in {UpstreamRetryAfter, UpstreamRateLimited, Unavailable, UpstreamTimeout, Revoked, Permanent},
         c.kind = UpstreamRetryAfter => Means(cap, c.delay),
         status' = Out!Recorded(c), UNCHANGED <<upstreamNow, until>>, blocks' \in 0..MaxBlocks,
         upstreamTold' = None \/ (upstreamTold' = until /\ upstreamNow < until /\ c.kind = UpstreamRetryAfter)
  PROVE  UpstreamInv(cap)' /\ (status'.health = NeedsReconnect <=> c.kind = Revoked)
<1>1. PICK n : n = Out!NextRetry(c)
  OBVIOUS
<1>2. PICK h : h = Out!AfterFailure(c)
  OBVIOUS
<1>3. status \in UpstreamStatus /\ UpstreamTimes
  BY DEF UpstreamInv
<1>4. status' = [health |-> h, success |-> status.success, attempt |-> upstreamNow, retry |-> n,
                 failed |-> status.failed + 1]
  BY <1>1, <1>2, <1>3 DEF Out!Recorded, UpstreamStatus
<1>5. /\ status'.health = h /\ status'.attempt = upstreamNow /\ status'.retry = n
      /\ status'.failed = status.failed + 1 /\ status'.success = status.success
  BY <1>4
<1>6. status.failed \in Nat /\ status.failed < MaxAttempts
  BY <1>3, UpstreamConstants DEF UpstreamInv, UpstreamStatus, Out!MayAttempt
<1>7. /\ c.kind = Revoked => h = NeedsReconnect
      /\ c.kind = Permanent => h = Failed
      /\ c.kind \notin {Revoked, Permanent} => h = Degraded
  BY <1>2, UpstreamConstants DEF Out!AfterFailure
<1>8. Out!Retryable(c) <=> c.kind \notin {Revoked, Permanent}
  BY UpstreamConstants DEF Out!Retryable
<1>9. /\ ~(Out!Retryable(c) /\ status.failed + 1 < MaxAttempts) => n = None
      /\ Out!Retryable(c) /\ status.failed + 1 < MaxAttempts =>
           n = upstreamNow + (IF c.kind = UpstreamRetryAfter THEN c.delay ELSE Backoff)
  BY <1>1 DEF Out!NextRetry
<1>10. n # None =>
         /\ n \in Nat /\ n >= upstreamNow /\ h = Degraded /\ status.failed + 1 < MaxAttempts
         /\ c.kind = UpstreamRetryAfter => n = upstreamNow + c.delay
  BY <1>3, <1>7, <1>8, <1>9, UpstreamConstants DEF Means, UpstreamTimes
<1>11. h \in {Degraded, NeedsReconnect, Failed} /\ (h = NeedsReconnect <=> c.kind = Revoked)
  BY <1>7, UpstreamConstants
<1>12. status' \in UpstreamStatus
  BY <1>3, <1>4, <1>6, <1>10, <1>11, UpstreamConstants DEF UpstreamStatus, UpstreamTimes
<1>13. upstreamNow + Backoff \in Nat /\ (c.kind = UpstreamRetryAfter => upstreamNow + c.delay \in Nat)
  BY <1>3, UpstreamConstants DEF Means, UpstreamTimes
<1>14. h = Degraded /\ status.failed + 1 < MaxAttempts => n # None
  BY <1>7, <1>8, <1>9, <1>13, UpstreamConstants
<1>15. upstreamTold' # None =>
         /\ upstreamTold' \in 0..UpstreamMaxTime
         /\ n # None => n >= upstreamTold' \/ (cap # None /\ n >= upstreamNow + cap)
  BY <1>3, <1>10, UpstreamConstants DEF Means, Waits, UpstreamTimes
<1>16. status'.health # Healthy /\ status'.failed > 0
  BY <1>5, <1>6, <1>11, UpstreamConstants
<1>17. UpstreamTimes'
  BY <1>3 DEF UpstreamTimes
<1>18. status'.retry # None =>
         /\ status'.health = Degraded /\ status'.failed < MaxAttempts
         /\ status'.attempt \in 0..UpstreamMaxTime /\ status'.retry >= status'.attempt
  BY <1>3, <1>5, <1>10 DEF UpstreamTimes
<1>19. status'.health = Degraded /\ status'.failed < MaxAttempts => status'.retry # None
  BY <1>5, <1>14
<1>20. upstreamTold' # None =>
         /\ upstreamTold' \in 0..UpstreamMaxTime
         /\ status'.retry # None =>
              status'.retry >= upstreamTold' \/ (cap # None /\ status'.retry >= status'.attempt + cap)
  BY <1>5, <1>15
<1> QED
  BY <1>5, <1>11, <1>12, <1>16, <1>17, <1>18, <1>19, <1>20 DEF UpstreamInv

(* A success, and a connection its owner makes anew. *)
LEMMA SuccessKeeps ==
  ASSUME NEW cap \in Nat \cup {None}, UpstreamInv(cap), NEW at \in (0..UpstreamMaxTime) \cup {None},
         NEW success \in (0..UpstreamMaxTime) \cup {None},
         status' = [health |-> Healthy, success |-> success, attempt |-> at, retry |-> None, failed |-> 0],
         upstreamTold' = None, UNCHANGED <<upstreamNow, until, blocks>>
  PROVE  UpstreamInv(cap)'
<1>1. status' \in UpstreamStatus
  BY UpstreamConstants DEF UpstreamStatus
<1>2. status'.health = Healthy /\ status'.retry = None /\ status'.failed = 0
  OBVIOUS
<1>3. UpstreamTimes' /\ blocks' \in 0..MaxBlocks
  BY DEF UpstreamInv, UpstreamTimes
<1> QED
  BY <1>1, <1>2, <1>3, UpstreamConstants DEF UpstreamInv

(* The provider's turns and the clock leave the status alone. *)
LEMMA ProviderKeeps ==
  ASSUME NEW cap \in Nat \cup {None}, UpstreamInv(cap), UNCHANGED <<status, upstreamTold>>,
         UpstreamTimes', blocks' \in 0..MaxBlocks
  PROVE  UpstreamInv(cap)'
BY DEF UpstreamInv

LEMMA UpstreamBegins ==
  ASSUME NEW cap \in Nat \cup {None}, Out!UpstreamInit
  PROVE  UpstreamInv(cap)
<1>1. /\ upstreamNow = 0 /\ until = 0 /\ blocks = 0 /\ upstreamTold = None
      /\ status = [health |-> Healthy, success |-> None, attempt |-> None, retry |-> None, failed |-> 0]
  BY DEF Out!UpstreamInit
<1>2. status \in UpstreamStatus /\ status.health = Healthy /\ status.retry = None /\ status.failed = 0
  BY <1>1, UpstreamConstants DEF UpstreamStatus
<1> QED
  BY <1>1, <1>2, UpstreamConstants DEF UpstreamInv, UpstreamTimes

LEMMA OutSteps ==
  ASSUME UpstreamInv(Cap), Out!UpstreamNext
  PROVE  UpstreamInv(Cap)' /\ Out!NotBeforeTold /\ Out!ReconnectMeansRevoked
<1>1. Cap \in Nat \cup {None} /\ None \notin Nat /\ status \in UpstreamStatus /\ UpstreamTimes
  BY UpstreamConstants DEF UpstreamInv
<1>2. Out!MayAttempt <=> Out!MayAttempt
  BY DEF Out!MayAttempt, Out!MayAttempt
<1>3. ASSUME NEW h \in Out!UpstreamHeaders, NEW code \in Out!Codes(h),
             Out!MayAttempt, status' = Out!Recorded(Out!Classify(Out!Response(code, h))),
             UNCHANGED <<upstreamNow, until>>, blocks' \in 0..MaxBlocks,
             \/ upstreamTold' = None
             \/ /\ upstreamTold' = until /\ upstreamGranted /\ ~broken /\ upstreamNow < until
                /\ Out!Names(Out!Response(code, h))
      PROVE  UpstreamInv(Cap)' /\ Out!NotBeforeTold /\ Out!ReconnectMeansRevoked
  <2>1. PICK c : c = Out!Classify(Out!Response(code, h))
    OBVIOUS
  <2>2. /\ c.kind = Revoked <=> ~upstreamGranted
        /\ c.kind \in {UpstreamRetryAfter, UpstreamRateLimited, Unavailable, UpstreamTimeout, Revoked, Permanent}
        /\ c.kind = UpstreamRetryAfter => Means(Cap, c.delay)
        /\ upstreamGranted /\ ~broken /\ upstreamNow < until /\ Out!Names(Out!Response(code, h)) =>
             c.kind = UpstreamRetryAfter
    BY <1>1, <2>1, OutClasses
  <2>3. status' = Out!Recorded(c)
    BY <1>3, <2>1 DEF Out!Recorded, Out!Recorded, Out!AfterFailure, Out!AfterFailure, Out!NextRetry, Out!NextRetry,
                      Out!Retryable, Out!Retryable
  <2>4. upstreamTold' = None \/ (upstreamTold' = until /\ upstreamNow < until /\ c.kind = UpstreamRetryAfter)
    BY <1>3, <2>2
  <2>5. UpstreamInv(Cap)' /\ (status'.health = NeedsReconnect <=> c.kind = Revoked)
    BY <1>1, <1>2, <1>3, <2>2, <2>3, <2>4, FailureKeeps
  <2>6. Out!NotBeforeTold
    BY <1>1, <1>2, <1>3, TriesWhenTold DEF Out!NotBeforeTold
  <2> QED
    BY <2>2, <2>5, <2>6 DEF Out!ReconnectMeansRevoked
<1>4. CASE Out!Succeed
  <2>1. /\ Out!MayAttempt /\ upstreamGranted /\ upstreamTold' = None /\ UNCHANGED <<upstreamNow, until, blocks>>
        /\ status' = [health |-> Healthy, success |-> upstreamNow, attempt |-> upstreamNow,
                      retry |-> None, failed |-> 0]
    BY <1>4 DEF Out!Succeed
  <2>2. UpstreamInv(Cap)'
    BY <1>1, <2>1, SuccessKeeps DEF UpstreamTimes
  <2>3. Out!NotBeforeTold
    BY <1>1, <1>2, <2>1, TriesWhenTold DEF Out!NotBeforeTold
  <2>4. status'.health # NeedsReconnect
    BY <2>1, UpstreamConstants
  <2> QED
    BY <2>1, <2>2, <2>3, <2>4 DEF Out!ReconnectMeansRevoked
<1>5. CASE Out!Reconnect
  <2>1. /\ upstreamTold' = None /\ UNCHANGED <<upstreamNow, until, blocks>>
        /\ status' = [status EXCEPT !.health = Healthy, !.retry = None, !.failed = 0]
    BY <1>5 DEF Out!Reconnect
  <2>2. status' = [health |-> Healthy, success |-> status.success, attempt |-> status.attempt,
                   retry |-> None, failed |-> 0]
    BY <1>1, <2>1 DEF UpstreamStatus
  <2>3. UpstreamInv(Cap)'
    <3>1. status.attempt \in (0..UpstreamMaxTime) \cup {None} /\ status.success \in (0..UpstreamMaxTime) \cup {None}
      BY <1>1 DEF UpstreamStatus
    <3> QED
      BY <1>1, <2>1, <2>2, <3>1, SuccessKeeps
  <2>4. status'.attempt = status.attempt
    BY <2>2
  <2> QED
    BY <2>3, <2>4 DEF Out!NotBeforeTold, Out!ReconnectMeansRevoked
<1>6. CASE Out!Revoke \/ Out!Break \/ Out!UpstreamTick \/ \E n \in 1..UpstreamMaxWindow : Out!Limit(n)
  <2>1. UNCHANGED <<status, upstreamTold>>
    BY <1>6 DEF Out!Revoke, Out!Break, Out!UpstreamTick, Out!Limit
  <2>2. UpstreamTimes'
    BY <1>1, <1>6, UpstreamConstants DEF Out!Revoke, Out!Break, Out!UpstreamTick, Out!Limit, UpstreamTimes
  <2>3. blocks' \in 0..MaxBlocks
    BY <1>6, UpstreamConstants DEF Out!Revoke, Out!Break, Out!UpstreamTick, Out!Limit, UpstreamInv
  <2>4. UpstreamInv(Cap)'
    BY <1>1, <2>1, <2>2, <2>3, ProviderKeeps
  <2> QED
    BY <2>1, <2>4 DEF Out!NotBeforeTold, Out!ReconnectMeansRevoked
<1>7. ASSUME NEW h \in Out!UpstreamHeaders, NEW code \in Out!Codes(h), Out!UpstreamFail(Out!Response(code, h))
      PROVE  UpstreamInv(Cap)' /\ Out!NotBeforeTold /\ Out!ReconnectMeansRevoked
  <2>1. blocks' \in 0..MaxBlocks
    BY <1>7 DEF Out!UpstreamFail, UpstreamInv
  <2>2. /\ Out!MayAttempt /\ status' = Out!Recorded(Out!Classify(Out!Response(code, h)))
        /\ UNCHANGED <<upstreamNow, until>>
        /\ \/ upstreamTold' = None
           \/ /\ upstreamTold' = until /\ upstreamGranted /\ ~broken /\ upstreamNow < until
              /\ Out!Names(Out!Response(code, h))
    BY <1>7 DEF Out!UpstreamFail
  <2> QED
    BY <1>3, <2>1, <2>2
<1>8. ASSUME NEW h \in Out!UpstreamHeaders, NEW code \in Out!Codes(h), Out!FailFlaky(h, code)
      PROVE  UpstreamInv(Cap)' /\ Out!NotBeforeTold /\ Out!ReconnectMeansRevoked
  <2>1. blocks' \in 0..MaxBlocks
    BY <1>8, UpstreamConstants DEF Out!FailFlaky, UpstreamInv
  <2>2. /\ Out!MayAttempt /\ status' = Out!Recorded(Out!Classify(Out!Response(code, h)))
        /\ UNCHANGED <<upstreamNow, until>> /\ upstreamTold' = None
    BY <1>8 DEF Out!FailFlaky
  <2> QED
    BY <1>3, <2>1, <2>2
<1> QED
  BY <1>4, <1>5, <1>6, <1>7, <1>8 DEF Out!UpstreamNext

LEMMA OutPromises ==
  ASSUME UpstreamInv(Cap)
  PROVE  Out!UpstreamTypeOK /\ Out!StatusCoherent
<1>1. status \in UpstreamStatus
  BY DEF UpstreamInv
<1>2. Out!UpstreamTypeOK
  BY <1>1 DEF Out!UpstreamTypeOK, Out!Times, UpstreamInv, UpstreamTimes, UpstreamStatus
<1>3. Out!StatusCoherent
  BY DEF Out!StatusCoherent, UpstreamInv
<1> QED
  BY <1>2, <1>3

LEMMA OutCappedSteps ==
  ASSUME UpstreamInv(2), OutCapped!UpstreamNext
  PROVE  UpstreamInv(2)' /\ OutCapped!NotBeforeTold /\ OutCapped!ReconnectMeansRevoked
<1>1. 2 \in Nat \cup {None} /\ None \notin Nat /\ status \in UpstreamStatus /\ UpstreamTimes
  BY UpstreamConstants DEF UpstreamInv
<1>2. OutCapped!MayAttempt <=> Out!MayAttempt
  BY DEF OutCapped!MayAttempt, Out!MayAttempt
<1>3. ASSUME NEW h \in OutCapped!UpstreamHeaders, NEW code \in OutCapped!Codes(h),
             OutCapped!MayAttempt, status' = OutCapped!Recorded(OutCapped!Classify(OutCapped!Response(code, h))),
             UNCHANGED <<upstreamNow, until>>, blocks' \in 0..MaxBlocks,
             \/ upstreamTold' = None
             \/ /\ upstreamTold' = until /\ upstreamGranted /\ ~broken /\ upstreamNow < until
                /\ OutCapped!Names(OutCapped!Response(code, h))
      PROVE  UpstreamInv(2)' /\ OutCapped!NotBeforeTold /\ OutCapped!ReconnectMeansRevoked
  <2>1. PICK c : c = OutCapped!Classify(OutCapped!Response(code, h))
    OBVIOUS
  <2>2. /\ c.kind = Revoked <=> ~upstreamGranted
        /\ c.kind \in {UpstreamRetryAfter, UpstreamRateLimited, Unavailable, UpstreamTimeout, Revoked, Permanent}
        /\ c.kind = UpstreamRetryAfter => Means(2, c.delay)
        /\ upstreamGranted /\ ~broken /\ upstreamNow < until /\ OutCapped!Names(OutCapped!Response(code, h)) =>
             c.kind = UpstreamRetryAfter
    BY <1>1, <2>1, OutCappedClasses
  <2>3. status' = Out!Recorded(c)
    BY <1>3, <2>1 DEF OutCapped!Recorded, Out!Recorded, OutCapped!AfterFailure, Out!AfterFailure,
                      OutCapped!NextRetry, Out!NextRetry,
                      OutCapped!Retryable, Out!Retryable
  <2>4. upstreamTold' = None \/ (upstreamTold' = until /\ upstreamNow < until /\ c.kind = UpstreamRetryAfter)
    BY <1>3, <2>2
  <2>5. UpstreamInv(2)' /\ (status'.health = NeedsReconnect <=> c.kind = Revoked)
    BY <1>1, <1>2, <1>3, <2>2, <2>3, <2>4, FailureKeeps
  <2>6. OutCapped!NotBeforeTold
    BY <1>1, <1>2, <1>3, TriesWhenTold DEF OutCapped!NotBeforeTold
  <2> QED
    BY <2>2, <2>5, <2>6 DEF OutCapped!ReconnectMeansRevoked
<1>4. CASE OutCapped!Succeed
  <2>1. /\ OutCapped!MayAttempt /\ upstreamGranted /\ upstreamTold' = None /\ UNCHANGED <<upstreamNow, until, blocks>>
        /\ status' = [health |-> Healthy, success |-> upstreamNow, attempt |-> upstreamNow,
                      retry |-> None, failed |-> 0]
    BY <1>4 DEF OutCapped!Succeed
  <2>2. UpstreamInv(2)'
    BY <1>1, <2>1, SuccessKeeps DEF UpstreamTimes
  <2>3. OutCapped!NotBeforeTold
    BY <1>1, <1>2, <2>1, TriesWhenTold DEF OutCapped!NotBeforeTold
  <2>4. status'.health # NeedsReconnect
    BY <2>1, UpstreamConstants
  <2> QED
    BY <2>1, <2>2, <2>3, <2>4 DEF OutCapped!ReconnectMeansRevoked
<1>5. CASE OutCapped!Reconnect
  <2>1. /\ upstreamTold' = None /\ UNCHANGED <<upstreamNow, until, blocks>>
        /\ status' = [status EXCEPT !.health = Healthy, !.retry = None, !.failed = 0]
    BY <1>5 DEF OutCapped!Reconnect
  <2>2. status' = [health |-> Healthy, success |-> status.success, attempt |-> status.attempt,
                   retry |-> None, failed |-> 0]
    BY <1>1, <2>1 DEF UpstreamStatus
  <2>3. UpstreamInv(2)'
    <3>1. status.attempt \in (0..UpstreamMaxTime) \cup {None} /\ status.success \in (0..UpstreamMaxTime) \cup {None}
      BY <1>1 DEF UpstreamStatus
    <3> QED
      BY <1>1, <2>1, <2>2, <3>1, SuccessKeeps
  <2>4. status'.attempt = status.attempt
    BY <2>2
  <2> QED
    BY <2>3, <2>4 DEF OutCapped!NotBeforeTold, OutCapped!ReconnectMeansRevoked
<1>6. CASE \/ OutCapped!Revoke \/ OutCapped!Break \/ OutCapped!UpstreamTick
           \/ \E n \in 1..UpstreamMaxWindow : OutCapped!Limit(n)
  <2>1. UNCHANGED <<status, upstreamTold>>
    BY <1>6 DEF OutCapped!Revoke, OutCapped!Break, OutCapped!UpstreamTick, OutCapped!Limit
  <2>2. UpstreamTimes'
    BY <1>1, <1>6, UpstreamConstants DEF OutCapped!Revoke, OutCapped!Break, OutCapped!UpstreamTick,
                                         OutCapped!Limit, UpstreamTimes
  <2>3. blocks' \in 0..MaxBlocks
    BY <1>6, UpstreamConstants DEF OutCapped!Revoke, OutCapped!Break, OutCapped!UpstreamTick,
                                   OutCapped!Limit, UpstreamInv
  <2>4. UpstreamInv(2)'
    BY <1>1, <2>1, <2>2, <2>3, ProviderKeeps
  <2> QED
    BY <2>1, <2>4 DEF OutCapped!NotBeforeTold, OutCapped!ReconnectMeansRevoked
<1>7. ASSUME NEW h \in OutCapped!UpstreamHeaders, NEW code \in OutCapped!Codes(h),
             OutCapped!UpstreamFail(OutCapped!Response(code, h))
      PROVE  UpstreamInv(2)' /\ OutCapped!NotBeforeTold /\ OutCapped!ReconnectMeansRevoked
  <2>1. blocks' \in 0..MaxBlocks
    BY <1>7 DEF OutCapped!UpstreamFail, UpstreamInv
  <2>2. /\ OutCapped!MayAttempt /\ status' = OutCapped!Recorded(OutCapped!Classify(OutCapped!Response(code, h)))
        /\ UNCHANGED <<upstreamNow, until>>
        /\ \/ upstreamTold' = None
           \/ /\ upstreamTold' = until /\ upstreamGranted /\ ~broken /\ upstreamNow < until
              /\ OutCapped!Names(OutCapped!Response(code, h))
    BY <1>7 DEF OutCapped!UpstreamFail
  <2> QED
    BY <1>3, <2>1, <2>2
<1>8. ASSUME NEW h \in OutCapped!UpstreamHeaders, NEW code \in OutCapped!Codes(h), OutCapped!FailFlaky(h, code)
      PROVE  UpstreamInv(2)' /\ OutCapped!NotBeforeTold /\ OutCapped!ReconnectMeansRevoked
  <2>1. blocks' \in 0..MaxBlocks
    BY <1>8, UpstreamConstants DEF OutCapped!FailFlaky, UpstreamInv
  <2>2. /\ OutCapped!MayAttempt /\ status' = OutCapped!Recorded(OutCapped!Classify(OutCapped!Response(code, h)))
        /\ UNCHANGED <<upstreamNow, until>> /\ upstreamTold' = None
    BY <1>8 DEF OutCapped!FailFlaky
  <2> QED
    BY <1>3, <2>1, <2>2
<1> QED
  BY <1>4, <1>5, <1>6, <1>7, <1>8 DEF OutCapped!UpstreamNext

LEMMA OutCappedPromises ==
  ASSUME UpstreamInv(2)
  PROVE  OutCapped!UpstreamTypeOK /\ OutCapped!StatusCoherent
<1>1. status \in UpstreamStatus
  BY DEF UpstreamInv
<1>2. OutCapped!UpstreamTypeOK
  BY <1>1 DEF OutCapped!UpstreamTypeOK, OutCapped!Times, UpstreamInv, UpstreamTimes, UpstreamStatus
<1>3. OutCapped!StatusCoherent
  BY DEF OutCapped!StatusCoherent, UpstreamInv
<1> QED
  BY <1>2, <1>3

-----------------------------------------------------------------------------
(* Writes: a behaviour of another machine moves none of these.               *)
WritesInv ==
  /\ part = "keyed" => KeyedInv
  /\ part = "upstream" => UpstreamInv(Cap)
  /\ part = "capped" => UpstreamInv(2)

LEMMA KeyedStays ==
  ASSUME UNCHANGED keyedState, KeyedInv
  PROVE  KeyedInv'
<1>1. UNCHANGED <<chosen, stage, records, effects>>
  BY DEF keyedState
<1>2. \A c : KeyFor(c)' = KeyFor(c) /\ (HasKey(c)' <=> HasKey(c)) /\ (Runs(c)' <=> Runs(c))
  BY <1>1 DEF KeyFor, HasKey, Runs
<1> QED
  BY <1>1, <1>2 DEF KeyedInv, KeyedTypes, KeyedRecords, KeyedStages

LEMMA UpstreamStays ==
  ASSUME NEW cap, UNCHANGED upstreamState, UpstreamInv(cap)
  PROVE  UpstreamInv(cap)'
BY DEF upstreamState, UpstreamInv, UpstreamTimes

(* Which machine takes a step. *)
LEMMA WriteMachines ==
  /\ Init => /\ part = "keyed" => Pipe!KeyedInit
             /\ part = "upstream" => Out!UpstreamInit
             /\ part = "capped" => OutCapped!UpstreamInit
  /\ [Next]_vars => /\ part' = part
                    /\ UNCHANGED keyedState \/ (part = "keyed" /\ Pipe!KeyedNext)
                    /\ \/ UNCHANGED upstreamState
                       \/ part = "upstream" /\ Out!UpstreamNext
                       \/ part = "capped" /\ OutCapped!UpstreamNext
                    /\ UNCHANGED locksState \/ (part = "locks" /\ Serve!LocksNext)
<1>1. Init => /\ part = "keyed" => Pipe!KeyedInit
              /\ part = "upstream" => Out!UpstreamInit
              /\ part = "capped" => OutCapped!UpstreamInit
  BY DEF Init, PipelineStarts, CondStarts, KeyedStarts, GuardStarts, BodyStarts, UpstreamStarts,
    RateStarts, BudgetStarts, HttpStarts, LocksStarts, PagesStarts, MediaStarts, CsvStarts
<1>2. ASSUME KeyedMoves \/ UpstreamMoves \/ LocksMoves
      PROVE  /\ part' = part
             /\ UNCHANGED keyedState \/ (part = "keyed" /\ Pipe!KeyedNext)
             /\ \/ UNCHANGED upstreamState
                \/ part = "upstream" /\ Out!UpstreamNext
                \/ part = "capped" /\ OutCapped!UpstreamNext
             /\ UNCHANGED locksState \/ (part = "locks" /\ Serve!LocksNext)
  BY <1>2 DEF KeyedMoves, UpstreamMoves, LocksMoves
<1>3. ASSUME \/ PipelineMoves \/ CondMoves \/ GuardMoves \/ BodyMoves \/ RateMoves \/ BudgetMoves
             \/ HttpMoves \/ PagesMoves \/ MediaMoves \/ CsvMoves
      PROVE  part' = part /\ UNCHANGED keyedState /\ UNCHANGED upstreamState /\ UNCHANGED locksState
  BY <1>3 DEF PipelineMoves, CondMoves, GuardMoves, BodyMoves, RateMoves, BudgetMoves, HttpMoves,
    PagesMoves, MediaMoves, CsvMoves
<1>4. UNCHANGED vars => part' = part /\ UNCHANGED keyedState /\ UNCHANGED upstreamState /\ UNCHANGED locksState
  BY DEF vars
<1> QED
  BY <1>1, <1>2, <1>3, <1>4 DEF Next

LEMMA WritesStart == Init => WritesInv
<1>1. OutCapped!UpstreamInit => Out!UpstreamInit
  BY DEF OutCapped!UpstreamInit, Out!UpstreamInit
<1>2. Cap \in Nat \cup {None} /\ 2 \in Nat \cup {None}
  BY UpstreamConstants
<1>3. Out!UpstreamInit => UpstreamInv(Cap) /\ UpstreamInv(2)
  BY <1>2, UpstreamBegins
<1> QED
  BY <1>1, <1>3, WriteMachines, KeyedStart DEF WritesInv

LEMMA WritesKeep ==
  ASSUME WritesInv, [Next]_vars
  PROVE  WritesInv' /\ WritesOnceSteps
<1>1. part' = part
  BY WriteMachines
<1>2. part = "keyed" => KeyedInv'
  BY KeyedStays, KeyedSteps, WriteMachines DEF WritesInv
<1>3. /\ part = "upstream" => UpstreamInv(Cap)' /\ Out!NotBeforeTold /\ Out!ReconnectMeansRevoked
      /\ part = "capped" => UpstreamInv(2)' /\ OutCapped!NotBeforeTold /\ OutCapped!ReconnectMeansRevoked
  <2>1. CASE UNCHANGED upstreamState
    <3>1. status'.attempt = status.attempt
      BY <2>1 DEF upstreamState
    <3>2. /\ Out!NotBeforeTold /\ Out!ReconnectMeansRevoked
          /\ OutCapped!NotBeforeTold /\ OutCapped!ReconnectMeansRevoked
      BY <3>1 DEF Out!NotBeforeTold, Out!ReconnectMeansRevoked,
                  OutCapped!NotBeforeTold, OutCapped!ReconnectMeansRevoked
    <3> QED
      BY <2>1, <3>2, UpstreamStays DEF WritesInv
  <2>2. CASE part = "upstream" /\ Out!UpstreamNext
    BY <2>2, OutSteps DEF WritesInv
  <2>3. CASE part = "capped" /\ OutCapped!UpstreamNext
    BY <2>3, OutCappedSteps DEF WritesInv
  <2> QED
    BY <2>1, <2>2, <2>3, WriteMachines
<1>4. part = "locks" => Serve!CleanupSparesUsed
  <2>1. UNCHANGED locksState => Serve!CleanupSparesUsed
    BY DEF locksState, Serve!CleanupSparesUsed
  <2> QED
    BY <2>1, CleanupSpares, WriteMachines
<1> QED
  BY <1>1, <1>2, <1>3, <1>4 DEF WritesInv, WritesOnceSteps

LEMMA WritesPromise == WritesInv => WritesOnceHolds
BY KeyedPromises, OutPromises, OutCappedPromises DEF WritesInv, WritesOnceHolds

(* However clients retry, lose answers and crash the process that serves     *)
(* them, a keyed mutation takes effect once; however a provider limits,      *)
(* revokes and fails, an importer comes back no sooner than it was told and  *)
(* its owner reconnects only a revoked credential; and a cleanup deletes no  *)
(* link that was used meanwhile (idempotency.rs, retry.rs, health.rs,        *)
(* postgres/mod.rs).                                                         *)
THEOREM WritesKept == Spec => WritesOnce
<1>1. WritesInv /\ [Next]_vars => WritesInv' /\ [WritesOnceSteps]_vars
  BY WritesKeep
<1> QED
  BY <1>1, WritesStart, WritesPromise, PTL DEF Spec, WritesOnce


-----------------------------------------------------------------------------
(* The suite's routes. Whatever a handler or an extractor says is in the      *)
(* route's contract, and no error of a service is a limit's.                  *)
Waiting == {"Unavailable", "ReplayTooSoon", "QuotaExceeded"}
SoundRoute(h) ==
  /\ \A code \in h.ok : code \in h.documented /\ code \notin {429, 503}
  /\ \A error \in h.raises : Serve!Status(error) \in h.documented /\ error # "RateLimited"
  /\ \A i \in DOMAIN h.parts : \A code \in Serve!Refusals(h.parts[i]) : code \in h.documented

LEMMA StatusOfWaiting ==
  ASSUME NEW error, error \notin Waiting, error # "RateLimited"
  PROVE  Serve!Status(error) \notin {429, 503}
BY DEF Waiting, Serve!Status

(* A handler's contract holds what it answers of its own accord. *)
LEMMA SoundHandler ==
  ASSUME NEW parts, NEW raises, NEW ok, NEW documented,
         429 \notin ok /\ 503 \notin ok,
         \A error \in raises : Serve!Status(error) \in documented \cup {500, 504},
         "RateLimited" \notin raises,
         \A i \in DOMAIN parts : \A code \in Serve!Refusals(parts[i]) : code \in documented
  PROVE  SoundRoute(Serve!Handler(parts, raises, ok, documented))
<1>1. PICK h : h = Serve!Handler(parts, raises, ok, documented)
  OBVIOUS
<1>2. /\ h.parts = parts /\ h.raises = raises \cup {"Storage"} /\ h.ok = ok
      /\ h.documented = documented \cup ok \cup {500, 504}
  BY <1>1 DEF Serve!Handler
<1>3. Serve!Status("Storage") = 500
  BY DEF Serve!Status
<1> QED
  BY <1>1, <1>2, <1>3 DEF SoundRoute

LEMMA PartRefusals ==
  /\ Serve!Refusals("bearer") = {401} /\ Serve!Refusals("json") = {400, 413, 415, 422}
  /\ Serve!Refusals("path") = {400} /\ Serve!Refusals("query") = {400}
BY DEF Serve!Refusals, Serve!Body

LEMMA SoundHandlers ==
  /\ SoundRoute(Serve!peers) /\ SoundRoute(Serve!start) /\ SoundRoute(Serve!complete)
  /\ SoundRoute(Serve!list) /\ SoundRoute(Serve!get) /\ SoundRoute(Serve!reenable)
  /\ SoundRoute(Serve!update) /\ SoundRoute(Serve!disconnect) /\ SoundRoute(Serve!test)
  /\ SoundRoute(Serve!replay) /\ SoundRoute(Serve!deliveries) /\ SoundRoute(Serve!preview)
  /\ SoundRoute(Serve!authorize) /\ SoundRoute(Serve!deny) /\ SoundRoute(Serve!callback)
  /\ SoundRoute(Serve!exchange) /\ SoundRoute(Serve!revoke) /\ SoundRoute(Serve!http_inbound)
<1>1. SoundRoute(Serve!peers)
  <2>1. \A i \in DOMAIN <<"bearer">> : \A code \in Serve!Refusals(<<"bearer">>[i]) : code \in Serve!User
    BY PartRefusals DEF Serve!User, Serve!Body
  <2> QED
    BY <2>1, SoundHandler DEF Serve!peers
<1>2. SoundRoute(Serve!start)
  <2>1. \A error \in {"PeerUnknown", "Disabled", "ReturnUrlInvalid", "PayloadInvalid"} :
         Serve!Status(error) \in (Serve!User \cup Serve!Body \cup {404}) \cup {500, 504}
    BY DEF Serve!Status, Serve!User, Serve!Body
  <2>2. \A i \in DOMAIN <<"bearer", "json">> :
         \A code \in Serve!Refusals(<<"bearer", "json">>[i]) : code \in Serve!User \cup Serve!Body \cup {404}
    BY PartRefusals DEF Serve!User, Serve!Body
  <2> QED
    BY <2>1, <2>2, SoundHandler DEF Serve!start
<1>3. SoundRoute(Serve!complete)
  <2>1. \A error \in {"NotFound", "CodeInvalid", "PeerUnknown", "Disabled", "AccountMismatch", "PeerUnreachable",
           "PayloadInvalid"} :
         Serve!Status(error) \in (Serve!User \cup Serve!Body \cup {404, 409, 502}) \cup {500, 504}
    BY DEF Serve!Status, Serve!User, Serve!Body
  <2>2. \A i \in DOMAIN <<"bearer", "path", "json">> :
         \A code \in Serve!Refusals(<<"bearer", "path",
           "json">>[i]) : code \in Serve!User \cup Serve!Body \cup {404, 409, 502}
    BY PartRefusals DEF Serve!User, Serve!Body
  <2> QED
    BY <2>1, <2>2, SoundHandler DEF Serve!complete
<1>4. SoundRoute(Serve!list)
  <2>1. \A i \in DOMAIN <<"bearer">> : \A code \in Serve!Refusals(<<"bearer">>[i]) : code \in Serve!User
    BY PartRefusals DEF Serve!User, Serve!Body
  <2> QED
    BY <2>1, SoundHandler DEF Serve!list
<1>5. SoundRoute(Serve!get)
  <2>1. \A error \in {"NotFound"} : Serve!Status(error) \in (Serve!User \cup {400, 404}) \cup {500, 504}
    BY DEF Serve!Status, Serve!User, Serve!Body
  <2>2. \A i \in DOMAIN <<"bearer", "path">> :
         \A code \in Serve!Refusals(<<"bearer", "path">>[i]) : code \in Serve!User \cup {400, 404}
    BY PartRefusals DEF Serve!User, Serve!Body
  <2> QED
    BY <2>1, <2>2, SoundHandler DEF Serve!get
<1>6. SoundRoute(Serve!reenable)
  <2>1. \A error \in {"NotFound"} : Serve!Status(error) \in (Serve!User \cup {400, 404}) \cup {500, 504}
    BY DEF Serve!Status, Serve!User, Serve!Body
  <2>2. \A i \in DOMAIN <<"bearer", "path">> :
         \A code \in Serve!Refusals(<<"bearer", "path">>[i]) : code \in Serve!User \cup {400, 404}
    BY PartRefusals DEF Serve!User, Serve!Body
  <2> QED
    BY <2>1, <2>2, SoundHandler DEF Serve!reenable
<1>7. SoundRoute(Serve!update)
  <2>1. \A error \in {"NotFound", "PayloadInvalid"} :
         Serve!Status(error) \in (Serve!User \cup Serve!Body \cup {404}) \cup {500, 504}
    BY DEF Serve!Status, Serve!User, Serve!Body
  <2>2. \A i \in DOMAIN <<"bearer", "path", "json">> :
         \A code \in Serve!Refusals(<<"bearer", "path", "json">>[i]) : code \in Serve!User \cup Serve!Body \cup {404}
    BY PartRefusals DEF Serve!User, Serve!Body
  <2> QED
    BY <2>1, <2>2, SoundHandler DEF Serve!update
<1>8. SoundRoute(Serve!disconnect)
  <2>1. \A error \in {"NotFound"} : Serve!Status(error) \in (Serve!User \cup {400, 404}) \cup {500, 504}
    BY DEF Serve!Status, Serve!User, Serve!Body
  <2>2. \A i \in DOMAIN <<"bearer", "path">> :
         \A code \in Serve!Refusals(<<"bearer", "path">>[i]) : code \in Serve!User \cup {400, 404}
    BY PartRefusals DEF Serve!User, Serve!Body
  <2> QED
    BY <2>1, <2>2, SoundHandler DEF Serve!disconnect
<1>9. SoundRoute(Serve!test)
  <2>1. \A error \in {"NotFound", "LinkRevoked", "LinkInactive", "PeerUnknown", "Disabled"} :
         Serve!Status(error) \in (Serve!User \cup {400, 404, 409, 410}) \cup {500, 504}
    BY DEF Serve!Status, Serve!User, Serve!Body
  <2>2. \A i \in DOMAIN <<"bearer", "path">> :
         \A code \in Serve!Refusals(<<"bearer", "path">>[i]) : code \in Serve!User \cup {400, 404, 409, 410}
    BY PartRefusals DEF Serve!User, Serve!Body
  <2> QED
    BY <2>1, <2>2, SoundHandler DEF Serve!test
<1>10. SoundRoute(Serve!replay)
  <2>1. \A error \in {"NotFound", "LinkRevoked", "LinkInactive", "PeerUnknown", "Disabled", "ReplayWindow",
           "ReplayTooSoon"} :
         Serve!Status(error) \in (Serve!User \cup Serve!Body \cup {404, 409, 410, 429}) \cup {500, 504}
    BY DEF Serve!Status, Serve!User, Serve!Body
  <2>2. \A i \in DOMAIN <<"bearer", "path", "json">> :
         \A code \in Serve!Refusals(<<"bearer", "path",
           "json">>[i]) : code \in Serve!User \cup Serve!Body \cup {404, 409, 410, 429}
    BY PartRefusals DEF Serve!User, Serve!Body
  <2> QED
    BY <2>1, <2>2, SoundHandler DEF Serve!replay
<1>11. SoundRoute(Serve!deliveries)
  <2>1. \A error \in {"NotFound"} : Serve!Status(error) \in (Serve!User \cup {400, 404}) \cup {500, 504}
    BY DEF Serve!Status, Serve!User, Serve!Body
  <2>2. \A i \in DOMAIN <<"bearer", "path">> :
         \A code \in Serve!Refusals(<<"bearer", "path">>[i]) : code \in Serve!User \cup {400, 404}
    BY PartRefusals DEF Serve!User, Serve!Body
  <2> QED
    BY <2>1, <2>2, SoundHandler DEF Serve!deliveries
<1>12. SoundRoute(Serve!preview)
  <2>1. \A error \in {"PeerUnknown", "Disabled"} :
         Serve!Status(error) \in (Serve!User \cup {400}) \cup {500, 504}
    BY DEF Serve!Status, Serve!User, Serve!Body
  <2>2. \A i \in DOMAIN <<"bearer", "query">> :
         \A code \in Serve!Refusals(<<"bearer", "query">>[i]) : code \in Serve!User \cup {400}
    BY PartRefusals DEF Serve!User, Serve!Body
  <2> QED
    BY <2>1, <2>2, SoundHandler DEF Serve!preview
<1>13. SoundRoute(Serve!authorize)
  <2>1. \A error \in {"PeerUnknown", "Disabled", "PayloadInvalid"} :
         Serve!Status(error) \in (Serve!User \cup Serve!Body) \cup {500, 504}
    BY DEF Serve!Status, Serve!User, Serve!Body
  <2>2. \A i \in DOMAIN <<"bearer", "json">> :
         \A code \in Serve!Refusals(<<"bearer", "json">>[i]) : code \in Serve!User \cup Serve!Body
    BY PartRefusals DEF Serve!User, Serve!Body
  <2> QED
    BY <2>1, <2>2, SoundHandler DEF Serve!authorize
<1>14. SoundRoute(Serve!deny)
  <2>1. \A error \in {"PeerUnknown", "Disabled", "PayloadInvalid"} :
         Serve!Status(error) \in (Serve!User \cup Serve!Body) \cup {500, 504}
    BY DEF Serve!Status, Serve!User, Serve!Body
  <2>2. \A i \in DOMAIN <<"bearer", "json">> :
         \A code \in Serve!Refusals(<<"bearer", "json">>[i]) : code \in Serve!User \cup Serve!Body
    BY PartRefusals DEF Serve!User, Serve!Body
  <2> QED
    BY <2>1, <2>2, SoundHandler DEF Serve!deny
<1>15. SoundRoute(Serve!callback)
  <2>1. \A error \in {"CallbackInvalid"} : Serve!Status(error) \in ({400, 403, 422}) \cup {500, 504}
    BY DEF Serve!Status, Serve!User, Serve!Body
  <2>2. \A i \in DOMAIN <<"query">> : \A code \in Serve!Refusals(<<"query">>[i]) : code \in {400, 403, 422}
    BY PartRefusals DEF Serve!User, Serve!Body
  <2> QED
    BY <2>1, <2>2, SoundHandler DEF Serve!callback
<1>16. SoundRoute(Serve!exchange)
  <2>1. \A error \in {"PeerUnknown", "Disabled", "NotFound"} :
         Serve!Status(error) \in (Serve!Body \cup {403, 404, 409, 429}) \cup {500, 504}
    BY DEF Serve!Status, Serve!User, Serve!Body
  <2>2. \A i \in DOMAIN <<"json">> :
         \A code \in Serve!Refusals(<<"json">>[i]) : code \in Serve!Body \cup {403, 404, 409, 429}
    BY PartRefusals DEF Serve!User, Serve!Body
  <2> QED
    BY <2>1, <2>2, SoundHandler DEF Serve!exchange
<1>17. SoundRoute(Serve!revoke)
  <2>1. \A error \in {"NotFound"} : Serve!Status(error) \in ({400, 401, 403, 404, 422, 429}) \cup {500, 504}
    BY DEF Serve!Status, Serve!User, Serve!Body
  <2>2. \A i \in DOMAIN <<"path">> :
         \A code \in Serve!Refusals(<<"path">>[i]) : code \in {400, 401, 403, 404, 422, 429}
    BY PartRefusals DEF Serve!User, Serve!Body
  <2> QED
    BY <2>1, <2>2, SoundHandler DEF Serve!revoke
<1>18. SoundRoute(Serve!http_inbound)
  <2>1. \A error \in {"NotFound", "PayloadInvalid", "InboundInvalid", "EventIdConflict", "QuotaExceeded",
           "Unavailable"} :
         Serve!Status(error) \in ({400, 401, 403, 404, 410, 422, 429, 503}) \cup {500, 504}
    BY DEF Serve!Status, Serve!User, Serve!Body
  <2>2. \A i \in DOMAIN <<"path">> :
         \A code \in Serve!Refusals(<<"path">>[i]) : code \in {400, 401, 403, 404, 410, 422, 429, 503}
    BY PartRefusals DEF Serve!User, Serve!Body
  <2> QED
    BY <2>1, <2>2, SoundHandler DEF Serve!http_inbound
<1> QED
  BY <1>1, <1>2, <1>3, <1>4, <1>5, <1>6, <1>7, <1>8, <1>9, <1>10, <1>11, <1>12, <1>13, <1>14, <1>15, <1>16, <1>17,
           <1>18

ServeRoutes == DOMAIN Serve!router
LEMMA SoundRouter ==
  /\ \A route \in ServeRoutes : SoundRoute(Serve!router[route])
  /\ {"exchange", "revoke", "inbound"} \subseteq ServeRoutes
  /\ Serve!router["exchange"] = Serve!exchange /\ Serve!router["revoke"] = Serve!revoke
  /\ Serve!router["inbound"] = Serve!http_inbound
BY SoundHandlers DEF Serve!router, ServeRoutes

(* What a refused caller is told, and the counters the limiter keeps.         *)
AnswerFits ==
  /\ answer = [route |-> answer.route, status |-> answer.status, error |-> answer.error,
               envelope |-> answer.envelope, retry |-> answer.retry, of |-> answer.of, valid |-> answer.valid]
  /\ Serve!Documented /\ Serve!LinksKeepTheirBudget /\ Serve!ValidCodesPass /\ Serve!WaitIsEnough
ServeKeys ==
  {<<"exchange", p>> : p \in Peers} \cup {<<"unknown", p>> : p \in Peers}
    \cup {<<"link", l>> : l \in HttpLinks \ Unknown}
ServeTypes ==
  /\ httpNow \in 0..(Window - 1)
  /\ asked \in [HttpLinks -> Nat] /\ httpTold \in [Peers -> Nat]
  /\ DOMAIN spent \subseteq ServeKeys /\ \A key \in DOMAIN spent : spent[key] \in Nat
(* A known link's requests are all counted in its own key, and a peer learns *)
(* of no failed exchange that its key does not count.                        *)
ServeCounts ==
  /\ \A l \in HttpLinks \ Unknown :
       Serve!Spent(<<"link", l>>) <= asked[l] /\ Serve!Spent(<<"link", l>>) <= LinkLimit
  /\ \A p \in Peers :
       httpTold[p] <= Serve!Spent(<<"exchange", p>>) /\ Serve!Spent(<<"exchange", p>>) <= FailureLimit
ServeInv == ServeTypes /\ ServeCounts /\ AnswerFits

LEMMA ServeBounds ==
  Window \in Nat \ {0} /\ UnknownLimit \in Nat /\ LinkLimit \in Nat /\ FailureLimit \in Nat
BY HttpAssumption DEF Serve!ServeAssumption

LEMMA Replies ==
  ASSUME NEW route \in ServeRoutes, NEW code, NEW error, NEW retry, NEW of, NEW valid, NEW envelope,
         Serve!Reply(route, code, error, retry, of, valid, envelope),
         code \in Serve!router[route].documented,
         route \in {"inbound", "revoke"} /\ of # "none" /\ error = "RateLimited" => asked'[of] > LinkLimit,
         route = "exchange" /\ valid => code # 429,
         code \in {429, 503} => retry >= 1 /\ httpNow' + 2 * retry >= Window
  PROVE  AnswerFits'
<1>1. answer' = [route |-> route, status |-> code, error |-> error, envelope |-> envelope,
                 retry |-> retry, of |-> of, valid |-> valid]
  BY DEF Serve!Reply
<1>2. /\ answer'.route = route /\ answer'.status = code /\ answer'.error = error /\ answer'.envelope = envelope
      /\ answer'.retry = retry /\ answer'.of = of /\ answer'.valid = valid
  BY <1>1
<1> QED
  BY <1>1, <1>2 DEF AnswerFits, Serve!Documented, Serve!LinksKeepTheirBudget, Serve!ValidCodesPass, Serve!WaitIsEnough

LEMMA Succeeds ==
  ASSUME NEW route \in ServeRoutes, NEW of, NEW valid, Serve!Succeed(route, of, valid)
  PROVE  AnswerFits'
<1>1. PICK code \in Serve!router[route].ok : Serve!Reply(route, code, "none", 0, of, valid, TRUE)
  BY DEF Serve!Succeed
<1>2. code \in Serve!router[route].documented /\ code \notin {429, 503}
  BY <1>1, SoundRouter DEF SoundRoute
<1> QED
  BY <1>1, <1>2, Replies

(* The wait of a limit reaches its window's end, and so does a product's own. *)
LEMMA WaitReaches ==
  ASSUME httpNow \in 0..(Window - 1)
  PROVE  /\ Serve!RetryAfter >= 1 /\ httpNow + 2 * Serve!RetryAfter >= Window
         /\ Window >= 1 /\ httpNow + 2 * Window >= Window
<1>1. PICK rest \in Nat \ {0} : rest = Window - httpNow
  BY ServeBounds
<1>2. (rest + 1) \div 2 >= 1 /\ 2 * ((rest + 1) \div 2) >= rest
  BY <1>1
<1>3. Serve!RetryAfter = (rest + 1) \div 2
  BY <1>1 DEF Serve!RetryAfter
<1>4. PICK waits \in Nat : waits = Serve!RetryAfter
  BY <1>2, <1>3
<1> QED
  BY <1>1, <1>2, <1>3, <1>4, ServeBounds

LEMMA Fails ==
  ASSUME NEW route \in ServeRoutes, NEW error, NEW retry, NEW of, Serve!Fail(route, error, retry, of, FALSE),
         httpNow \in 0..(Window - 1), UNCHANGED httpNow,
         Serve!Status(error) \in Serve!router[route].documented,
         error = "RateLimited" =>
           retry = Serve!RetryAfter /\ (route \in {"inbound", "revoke"} /\ of # "none" => asked'[of] > LinkLimit)
  PROVE  AnswerFits'
<1>1. PICK waits : waits = IF error \in Waiting THEN Window ELSE retry
  OBVIOUS
<1>2. Serve!Reply(route, Serve!Status(error), error, waits, of, FALSE, TRUE)
  BY <1>1 DEF Serve!Fail, Waiting
<1>3. Serve!Status(error) \in {429, 503} => waits >= 1 /\ httpNow' + 2 * waits >= Window
  <2>1. CASE error \in Waiting
    BY <1>1, <2>1, WaitReaches
  <2>2. CASE error = "RateLimited"
    <3>1. waits = Serve!RetryAfter
      BY <1>1, <2>2 DEF Waiting
    <3> QED
      BY <3>1, WaitReaches
  <2>3. CASE error \notin Waiting /\ error # "RateLimited"
    BY <2>3, StatusOfWaiting
  <2> QED
    BY <2>1, <2>2, <2>3
<1> QED
  BY <1>2, <1>3, Replies

(* A service's own error is in the contract. *)
LEMMA Raises ==
  ASSUME NEW route \in ServeRoutes, NEW error \in Serve!router[route].raises, NEW of,
         Serve!Fail(route, error, 0, of, FALSE), httpNow \in 0..(Window - 1), UNCHANGED httpNow
  PROVE  AnswerFits'
<1>1. Serve!Status(error) \in Serve!router[route].documented /\ error # "RateLimited"
  BY SoundRouter DEF SoundRoute
<1> QED
  BY <1>1, Fails

(* What the limited routes say beside that. *)
LEMMA LimitedContracts ==
  /\ \A error \in Serve!Guesses \cup {"PeerUnknown", "Disabled", "PayloadInvalid", "RateLimited"} :
       Serve!Status(error) \in Serve!router["exchange"].documented
  /\ \A error \in {"SignatureInvalid", "PayloadInvalid", "RateLimited", "LinkRevoked"} :
       Serve!Status(error) \in Serve!router["inbound"].documented
  /\ \A error \in {"SignatureInvalid", "PayloadInvalid", "RateLimited"} :
       Serve!Status(error) \in Serve!router["revoke"].documented
<1>1. /\ Serve!Status("CodeInvalid") = 422 /\ Serve!Status("AccountMismatch") = 409
      /\ Serve!Status("PayloadInvalid") = 422 /\ Serve!Status("PeerUnknown") = 400
      /\ Serve!Status("Disabled") = 403 /\ Serve!Status("RateLimited") = 429
      /\ Serve!Status("SignatureInvalid") = 401 /\ Serve!Status("LinkRevoked") = 410
  BY DEF Serve!Status
<1>2. {422, 409, 400, 403, 429} \subseteq Serve!exchange.documented
  BY DEF Serve!exchange, Serve!Handler, Serve!Body
<1>3. {401, 422, 429, 410} \subseteq Serve!http_inbound.documented
  BY DEF Serve!http_inbound, Serve!Handler
<1>4. {401, 422, 429} \subseteq Serve!revoke.documented
  BY DEF Serve!revoke, Serve!Handler
<1> QED
  BY <1>1, <1>2, <1>3, <1>4, SoundRouter DEF Serve!Guesses

(* A charge counts once, under its key, up to the limit. *)
LEMMA Counts ==
  ASSUME ServeTypes, NEW key \in ServeKeys, NEW count \in Nat, Serve!Charge(key, count)
  PROVE  /\ DOMAIN spent' \subseteq ServeKeys /\ \A k \in DOMAIN spent' : spent'[k] \in Nat
         /\ \A k : k # key => Serve!Spent(k)' = Serve!Spent(k)
         /\ Serve!Spent(key)' = IF Serve!Allowed(key, count) THEN Serve!Spent(key) + 1 ELSE Serve!Spent(key)
         /\ \A k : Serve!Spent(k) \in Nat
<1>1. \A k : Serve!Spent(k) \in Nat
  BY DEF ServeTypes, Serve!Spent
<1>2. /\ DOMAIN spent' = DOMAIN spent \cup {key}
      /\ \A k \in DOMAIN spent' :
           spent'[k] = IF k = key /\ Serve!Allowed(key, count) THEN Serve!Spent(k) + 1 ELSE Serve!Spent(k)
  BY DEF Serve!Charge
<1>3. DOMAIN spent' \subseteq ServeKeys /\ \A k \in DOMAIN spent' : spent'[k] \in Nat
  BY <1>1, <1>2 DEF ServeTypes
<1>4. ASSUME NEW k
      PROVE  Serve!Spent(k)' = IF k = key /\ Serve!Allowed(key, count) THEN Serve!Spent(k) + 1 ELSE Serve!Spent(k)
  <2>1. CASE k \in DOMAIN spent'
    BY <1>2, <2>1 DEF Serve!Spent
  <2>2. CASE k \notin DOMAIN spent'
    BY <1>2, <2>2 DEF Serve!Spent
  <2> QED
    BY <2>1, <2>2
<1> QED
  BY <1>1, <1>3, <1>4

(* A request that no limit counts. *)
LEMMA Untouched ==
  ASSUME ServeInv, UNCHANGED <<spent, asked, httpTold, httpNow>>, AnswerFits'
  PROVE  ServeInv'
<1>1. ServeTypes'
  BY DEF ServeInv, ServeTypes
<1>2. \A k : Serve!Spent(k)' = Serve!Spent(k)
  BY DEF Serve!Spent
<1>3. ServeCounts'
  BY <1>2 DEF ServeInv, ServeCounts
<1> QED
  BY <1>1, <1>3 DEF ServeInv

LEMMA Unextracts ==
  ASSUME ServeInv, NEW route \in ServeRoutes, Serve!Unextracted(route)
  PROVE  ServeInv'
<1>1. PICK i \in DOMAIN Serve!router[route].parts :
        \E code \in Serve!Refusals(Serve!router[route].parts[i]) :
          /\ Serve!Reply(route, code, "part", 0, "none", FALSE, Serve!router[route].parts[i] # "query")
          /\ Serve!Untouched
  BY DEF Serve!Unextracted
<1>2. PICK code \in Serve!Refusals(Serve!router[route].parts[i]) :
        /\ Serve!Reply(route, code, "part", 0, "none", FALSE, Serve!router[route].parts[i] # "query")
        /\ Serve!Untouched
  BY <1>1
<1>3. code \in Serve!router[route].documented
  BY <1>1, <1>2, SoundRouter DEF SoundRoute
<1>4. code \notin {429, 503}
  BY <1>2 DEF Serve!Refusals, Serve!Body
<1>5. AnswerFits'
  BY <1>2, <1>3, <1>4, Replies
<1> QED
  BY <1>2, <1>5, Untouched DEF Serve!Untouched

LEMMA Calls ==
  ASSUME ServeInv, NEW route \in ServeRoutes, Serve!Call(route)
  PROVE  ServeInv'
<1>1. UNCHANGED <<spent, asked, httpTold, httpNow>>
  BY DEF Serve!Call, Serve!Untouched
<1>2. CASE Serve!Succeed(route, "none", FALSE)
  BY <1>1, <1>2, Succeeds, Untouched
<1>3. CASE \E error \in Serve!router[route].raises : Serve!Fail(route, error, 0, "none", FALSE)
  BY <1>1, <1>3, Raises, Untouched DEF ServeInv, ServeTypes
<1> QED
  BY <1>2, <1>3 DEF Serve!Call

LEMMA UnknownExchanges ==
  ASSUME ServeInv, Serve!ExchangeUnknown
  PROVE  ServeInv'
<1>1. UNCHANGED <<spent, asked, httpTold, httpNow>>
  BY DEF Serve!ExchangeUnknown, Serve!Untouched
<1>2. PICK error \in {"PeerUnknown", "Disabled", "PayloadInvalid"} : Serve!Fail("exchange", error, 0, "none", FALSE)
  BY DEF Serve!ExchangeUnknown
<1>3. AnswerFits'
  BY <1>1, <1>2, LimitedContracts, SoundRouter, Fails DEF ServeInv, ServeTypes
<1> QED
  BY <1>1, <1>3, Untouched

(* A peer is told of a failed exchange only while its key allows it. *)
LEMMA Exchanges ==
  ASSUME ServeInv, NEW p \in Peers, Serve!Exchange(p)
  PROVE  ServeInv'
<1>1. PICK result \in {"ok"} \cup Serve!Guesses \cup Serve!exchange.raises : Serve!LimitExchange(p, result)
  BY DEF Serve!Exchange
<1>2. UNCHANGED <<asked, httpNow>> /\ ServeTypes /\ ServeCounts
  BY DEF Serve!Exchange, ServeInv
<1>3. PICK key \in ServeKeys : key = <<"exchange", p>>
  BY DEF ServeKeys
<1>4. "exchange" \in ServeRoutes /\ Serve!router["exchange"].raises = Serve!exchange.raises
  BY SoundRouter
<1>5. /\ \A l \in HttpLinks : <<"link", l>> # key
      /\ \A q \in Peers : q # p => <<"exchange", q>> # key
  BY <1>3
<1>6. CASE result \in Serve!Guesses
  <2>1. Serve!Charge(key, FailureLimit)
    BY <1>1, <1>3, <1>6 DEF Serve!LimitExchange
  <2>2. /\ DOMAIN spent' \subseteq ServeKeys /\ \A k \in DOMAIN spent' : spent'[k] \in Nat
        /\ \A k : k # key => Serve!Spent(k)' = Serve!Spent(k)
        /\ Serve!Spent(key)' = IF Serve!Allowed(key, FailureLimit) THEN Serve!Spent(key) + 1 ELSE Serve!Spent(key)
        /\ \A k : Serve!Spent(k) \in Nat
    BY <1>2, <2>1, ServeBounds, Counts
  <2>3. result # "ok"
    BY <1>6 DEF Serve!Guesses
  <2>4. \A l \in HttpLinks \ Unknown : Serve!Spent(<<"link", l>>)' = Serve!Spent(<<"link", l>>)
    BY <1>5, <2>2
  <2>5. \A q \in Peers : q # p => Serve!Spent(<<"exchange", q>>)' = Serve!Spent(<<"exchange", q>>)
    BY <1>5, <2>2
  <2>6. CASE ~Serve!Allowed(key, FailureLimit)
    <3>1. Serve!Fail("exchange", "RateLimited", Serve!RetryAfter, p, FALSE) /\ UNCHANGED httpTold
      BY <1>1, <1>3, <1>6, <2>6 DEF Serve!LimitExchange
    <3>2. AnswerFits'
      BY <1>2, <1>4, <3>1, LimitedContracts, Fails DEF ServeTypes
    <3>3. ServeTypes'
      BY <1>2, <2>2, <3>1 DEF ServeTypes
    <3>4. Serve!Spent(<<"exchange", p>>)' = Serve!Spent(<<"exchange", p>>)
      BY <1>3, <2>2, <2>6
    <3>5. ServeCounts'
      BY <1>2, <2>4, <2>5, <3>1, <3>4 DEF ServeCounts
    <3> QED
      BY <3>2, <3>3, <3>5 DEF ServeInv
  <2>7. CASE Serve!Allowed(key, FailureLimit)
    <3>1. Serve!Fail("exchange", result, 0, p, FALSE) /\ httpTold' = [httpTold EXCEPT ![p] = @ + 1]
      BY <1>1, <1>3, <1>6, <2>3, <2>7 DEF Serve!LimitExchange
    <3>2. result # "RateLimited"
      BY <1>6 DEF Serve!Guesses
    <3>3. AnswerFits'
      BY <1>2, <1>4, <1>6, <3>1, <3>2, LimitedContracts, Fails DEF ServeTypes
    <3>4. /\ httpTold' \in [Peers -> Nat] /\ httpTold'[p] = httpTold[p] + 1
          /\ \A q \in Peers : q # p => httpTold'[q] = httpTold[q]
      BY <1>2, <3>1 DEF ServeTypes
    <3>5. ServeTypes'
      BY <1>2, <2>2, <3>4 DEF ServeTypes
    <3>6. /\ Serve!Spent(<<"exchange", p>>)' = Serve!Spent(<<"exchange", p>>) + 1
          /\ Serve!Spent(<<"exchange", p>>) < FailureLimit /\ Serve!Spent(<<"exchange", p>>) \in Nat
          /\ httpTold[p] \in Nat
      BY <1>2, <1>3, <2>2, <2>7 DEF Serve!Allowed, ServeTypes
    <3>7. ASSUME NEW q \in Peers
          PROVE  httpTold'[q] <= Serve!Spent(<<"exchange", q>>)' /\ Serve!Spent(<<"exchange", q>>)' <= FailureLimit
      <4>1. httpTold[q] <= Serve!Spent(<<"exchange", q>>) /\ Serve!Spent(<<"exchange", q>>) <= FailureLimit
        BY <1>2 DEF ServeCounts
      <4>2. CASE q = p
        BY <3>4, <3>6, <4>1, <4>2, ServeBounds
      <4>3. CASE q # p
        BY <2>5, <3>4, <4>1, <4>3
      <4> QED
        BY <4>2, <4>3
    <3>8. ServeCounts'
      BY <1>2, <2>4, <3>7 DEF ServeCounts
    <3> QED
      BY <3>3, <3>5, <3>8 DEF ServeInv
  <2> QED
    BY <2>6, <2>7
<1>7. CASE result \notin Serve!Guesses
  <2>1. /\ IF result = "ok" THEN Serve!Succeed("exchange", p, TRUE) ELSE Serve!Fail("exchange", result, 0, p, FALSE)
        /\ UNCHANGED spent
        /\ httpTold' = [httpTold EXCEPT ![p] = @]
    BY <1>1, <1>7 DEF Serve!LimitExchange
  <2>2. UNCHANGED httpTold
    BY <1>2, <2>1 DEF ServeTypes
  <2>3. AnswerFits'
    <3>1. CASE result = "ok"
      BY <1>4, <2>1, <3>1, Succeeds
    <3>2. CASE result # "ok"
      BY <1>1, <1>2, <1>4, <1>7, <2>1, <3>2, Raises DEF ServeTypes
    <3> QED
      BY <3>1, <3>2
  <2> QED
    BY <1>2, <2>1, <2>2, <2>3, Untouched
<1> QED
  BY <1>6, <1>7

(* A request in a link's name: what the limits count, and what is answered.  *)
LEMMA Authenticates ==
  ASSUME ServeInv, NEW route \in {"inbound", "revoke"}, NEW l \in HttpLinks, NEW s \in Peers \cup Strangers,
         NEW signed, NEW then,
         Serve!Authenticate(route, l, s, signed, then), UNCHANGED <<httpTold, httpNow>>,
         then => AnswerFits'
  PROVE  ServeInv'
<1>1. ServeTypes /\ ServeCounts /\ httpNow \in 0..(Window - 1)
  BY DEF ServeInv, ServeTypes
<1>2. /\ route \in ServeRoutes
      /\ Serve!Status("SignatureInvalid") \in Serve!router[route].documented
      /\ Serve!Status("RateLimited") \in Serve!router[route].documented
  BY LimitedContracts, SoundRouter
<1>3. CASE s \notin Peers
  <2>1. Serve!Key(l, s) = <<>>
    BY <1>3 DEF Serve!Key
  <2>2. Serve!Fail(route, "SignatureInvalid", 0, "none", FALSE) /\ UNCHANGED <<spent, asked>>
    BY <2>1 DEF Serve!Authenticate
  <2>3. AnswerFits'
    BY <1>1, <1>2, <2>2, Fails
  <2> QED
    BY <2>2, <2>3, Untouched
<1>4. CASE s \in Peers
  <2>1. PICK key \in ServeKeys : key = Serve!Key(l, s) /\ key # <<>>
    <3>1. CASE l \in Unknown
      <4>1. Serve!Key(l, s) = <<"unknown", s>>
        BY <1>4, <3>1 DEF Serve!Key
      <4>2. <<"unknown", s>> \in ServeKeys /\ <<"unknown", s>> # <<>>
        BY <1>4 DEF ServeKeys
      <4> QED
        BY <4>1, <4>2
    <3>2. CASE l \notin Unknown
      <4>1. Serve!Key(l, s) = <<"link", l>>
        BY <1>4, <3>2 DEF Serve!Key
      <4>2. <<"link", l>> \in ServeKeys /\ <<"link", l>> # <<>>
        BY <3>2 DEF ServeKeys
      <4> QED
        BY <4>1, <4>2
    <3> QED
      BY <3>1, <3>2
  <2>2. PICK limit \in Nat : limit = Serve!Limit(l)
    BY ServeBounds DEF Serve!Limit
  <2>3. /\ Serve!Charge(key, limit)
        /\ asked' = [asked EXCEPT ![l] = IF l \in Unknown \/ @ > LinkLimit THEN @ ELSE @ + 1]
        /\ \/ ~Serve!Allowed(key, limit) /\ Serve!Fail(route, "RateLimited", Serve!RetryAfter, Serve!Of(l), FALSE)
           \/ Serve!Fail(route, "SignatureInvalid", 0, Serve!Of(l), FALSE)
           \/ then
    BY <2>1, <2>2 DEF Serve!Authenticate
  <2>4. /\ DOMAIN spent' \subseteq ServeKeys /\ \A k \in DOMAIN spent' : spent'[k] \in Nat
        /\ \A k : k # key => Serve!Spent(k)' = Serve!Spent(k)
        /\ Serve!Spent(key)' = IF Serve!Allowed(key, limit) THEN Serve!Spent(key) + 1 ELSE Serve!Spent(key)
        /\ \A k : Serve!Spent(k) \in Nat
    BY <1>1, <2>3, Counts
  <2>5. /\ asked' \in [HttpLinks -> Nat]
        /\ asked'[l] = IF l \in Unknown \/ asked[l] > LinkLimit THEN asked[l] ELSE asked[l] + 1
        /\ \A m \in HttpLinks : m # l => asked'[m] = asked[m]
    BY <1>1, <2>3, ServeBounds DEF ServeTypes
  <2>6. ServeTypes'
    BY <1>1, <2>4, <2>5 DEF ServeTypes
  <2>7. l \notin Unknown => key = <<"link", l>> /\ limit = LinkLimit
    BY <1>4, <2>1, <2>2 DEF Serve!Key, Serve!Limit
  <2>8. \A p \in Peers : Serve!Spent(<<"exchange", p>>)' = Serve!Spent(<<"exchange", p>>)
    <3>1. \A p \in Peers : <<"exchange", p>> # key
      BY <1>4, <2>1 DEF Serve!Key
    <3> QED
      BY <2>4, <3>1
  <2>9. ASSUME NEW m \in HttpLinks \ Unknown
        PROVE  Serve!Spent(<<"link", m>>)' <= asked'[m] /\ Serve!Spent(<<"link", m>>)' <= LinkLimit
    <3>1. /\ Serve!Spent(<<"link", m>>) <= asked[m] /\ Serve!Spent(<<"link", m>>) <= LinkLimit
          /\ Serve!Spent(<<"link", m>>) \in Nat /\ asked[m] \in Nat
      BY <1>1, <2>4 DEF ServeCounts, ServeTypes
    <3>2. CASE m = l
      <4>1. key = <<"link", m>> /\ limit = LinkLimit
        BY <2>7, <3>2
      <4>2. Serve!Spent(<<"link", m>>)' =
              IF Serve!Spent(<<"link", m>>) < LinkLimit
              THEN Serve!Spent(<<"link", m>>) + 1 ELSE Serve!Spent(<<"link", m>>)
        BY <2>4, <4>1 DEF Serve!Allowed
      <4>3. asked'[m] = IF asked[m] > LinkLimit THEN asked[m] ELSE asked[m] + 1
        BY <2>5, <3>2
      <4> QED
        BY <3>1, <4>2, <4>3, ServeBounds
    <3>3. CASE m # l
      <4>1. <<"link", m>> # key
        BY <1>4, <2>1, <3>3 DEF Serve!Key
      <4> QED
        BY <2>4, <2>5, <3>1, <3>3, <4>1
    <3> QED
      BY <3>2, <3>3
  <2>10. ServeCounts'
    <3>1. UNCHANGED httpTold
      OBVIOUS
    <3> QED
      BY <1>1, <2>8, <2>9, <3>1 DEF ServeCounts
  <2>11. AnswerFits'
    <3>1. CASE ~Serve!Allowed(key, limit) /\ Serve!Fail(route, "RateLimited", Serve!RetryAfter, Serve!Of(l), FALSE)
      <4>1. ASSUME Serve!Of(l) # "none"
            PROVE  asked'[Serve!Of(l)] > LinkLimit
        <5>1. l \notin Unknown /\ Serve!Of(l) = l
          BY <4>1 DEF Serve!Of
        <5>2. ~(Serve!Spent(<<"link", l>>) < LinkLimit) /\ Serve!Spent(<<"link", l>>) \in Nat
          BY <2>4, <2>7, <3>1, <5>1 DEF Serve!Allowed
        <5>3. Serve!Spent(<<"link", l>>) <= asked[l] /\ asked[l] \in Nat
          BY <1>1, <5>1 DEF ServeCounts, ServeTypes
        <5> QED
          BY <2>5, <5>1, <5>2, <5>3, ServeBounds
      <4> QED
        BY <1>1, <1>2, <3>1, <4>1, Fails
    <3>2. CASE Serve!Fail(route, "SignatureInvalid", 0, Serve!Of(l), FALSE)
      BY <1>1, <1>2, <3>2, Fails
    <3> QED
      BY <2>3, <3>1, <3>2
  <2> QED
    BY <2>6, <2>10, <2>11 DEF ServeInv
<1> QED
  BY <1>3, <1>4

LEMMA Ingests ==
  ASSUME ServeInv, NEW l \in HttpLinks, NEW s \in Peers \cup Strangers, NEW signed, Serve!Ingest(l, s, signed)
  PROVE  ServeInv'
<1>1. UNCHANGED <<httpTold, httpNow>> /\ httpNow \in 0..(Window - 1)
  BY DEF Serve!Ingest, ServeInv, ServeTypes
<1>2. "inbound" \in ServeRoutes /\ Serve!router["inbound"].raises = Serve!http_inbound.raises
  BY SoundRouter
<1>3. CASE \E error \in {"SignatureInvalid", "PayloadInvalid"} : Serve!Fail("inbound", error, 0, "none", FALSE)
           /\ UNCHANGED <<spent, asked, revoked>>
  <2>1. AnswerFits'
    BY <1>1, <1>2, <1>3, LimitedContracts, Fails
  <2> QED
    BY <1>1, <1>3, <2>1, Untouched
<1>4. PICK then \in BOOLEAN :
        then <=> /\ IF l \in revoked THEN Serve!Fail("inbound", "LinkRevoked", 0, l, FALSE)
                    ELSE \/ Serve!Succeed("inbound", l, TRUE)
                         \/ \E error \in Serve!http_inbound.raises \cup {"LinkRevoked"} :
                              Serve!Fail("inbound", error, 0, l, FALSE)
                 /\ UNCHANGED revoked
  OBVIOUS
<1>5. then => AnswerFits'
  <2>1. Serve!Fail("inbound", "LinkRevoked", 0, l, FALSE) => AnswerFits'
    BY <1>1, <1>2, LimitedContracts, Fails
  <2>2. Serve!Succeed("inbound", l, TRUE) => AnswerFits'
    BY <1>2, Succeeds
  <2>3. ASSUME NEW error \in Serve!http_inbound.raises, Serve!Fail("inbound", error, 0, l, FALSE)
        PROVE  AnswerFits'
    BY <1>1, <1>2, <2>3, Raises
  <2> QED
    BY <1>4, <2>1, <2>2, <2>3
<1>6. CASE Serve!Authenticate("inbound", l, s, signed, then)
  BY <1>1, <1>5, <1>6, Authenticates
<1> QED
  BY <1>3, <1>4, <1>6 DEF Serve!Ingest, Serve!Authenticate

LEMMA Revokes ==
  ASSUME ServeInv, NEW l \in HttpLinks, NEW s \in Peers \cup Strangers, NEW signed, Serve!RevokeFromPeer(l, s, signed)
  PROVE  ServeInv'
<1>1. UNCHANGED <<httpTold, httpNow>> /\ httpNow \in 0..(Window - 1)
  BY DEF Serve!RevokeFromPeer, ServeInv, ServeTypes
<1>2. "revoke" \in ServeRoutes /\ Serve!router["revoke"].raises = Serve!revoke.raises
  BY SoundRouter
<1>3. CASE \E error \in {"SignatureInvalid", "PayloadInvalid"} : Serve!Fail("revoke", error, 0, "none", FALSE)
           /\ UNCHANGED <<spent, asked, revoked>>
  <2>1. AnswerFits'
    BY <1>1, <1>2, <1>3, LimitedContracts, Fails
  <2> QED
    BY <1>1, <1>3, <2>1, Untouched
<1>4. PICK then \in BOOLEAN :
        then <=> \/ Serve!Succeed("revoke", l, TRUE) /\ revoked' = revoked \cup {l}
                 \/ l \notin revoked /\ (\E error \in Serve!revoke.raises : Serve!Fail("revoke", error, 0, l, FALSE))
                    /\ UNCHANGED revoked
  OBVIOUS
<1>5. then => AnswerFits'
  <2>1. Serve!Succeed("revoke", l, TRUE) => AnswerFits'
    BY <1>2, Succeeds
  <2>2. ASSUME NEW error \in Serve!revoke.raises, Serve!Fail("revoke", error, 0, l, FALSE)
        PROVE  AnswerFits'
    BY <1>1, <1>2, <2>2, Raises
  <2> QED
    BY <1>4, <2>1, <2>2
<1>6. CASE Serve!Authenticate("revoke", l, s, signed, then)
  BY <1>1, <1>5, <1>6, Authenticates
<1> QED
  BY <1>3, <1>4, <1>6 DEF Serve!RevokeFromPeer, Serve!Authenticate

(* A window ends, and every counter with it. *)
LEMMA Passes ==
  ASSUME ServeInv, Serve!Pass
  PROVE  ServeInv'
<1>1. /\ answer'.route = "none" /\ answer'.status = 200
      /\ answer' = [route |-> answer'.route, status |-> answer'.status, error |-> answer'.error,
                    envelope |-> answer'.envelope, retry |-> answer'.retry, of |-> answer'.of,
                    valid |-> answer'.valid]
  BY DEF Serve!Pass, ServeInv, AnswerFits
<1>2. AnswerFits'
  BY <1>1 DEF AnswerFits, Serve!Documented, Serve!LinksKeepTheirBudget, Serve!ValidCodesPass, Serve!WaitIsEnough
<1>3. CASE httpNow + 1 = Window
  <2>1. /\ httpNow' = 0 /\ spent' = <<>> /\ asked' = [l \in HttpLinks |-> 0] /\ httpTold' = [p \in Peers |-> 0]
    BY <1>3 DEF Serve!Pass
  <2>2. DOMAIN spent' = {}
    BY <2>1
  <2>3. ServeTypes'
    BY <2>1, <2>2, ServeBounds DEF ServeTypes
  <2>4. \A k : Serve!Spent(k)' = 0
    BY <2>2 DEF Serve!Spent
  <2>5. ServeCounts'
    BY <2>1, <2>4, ServeBounds DEF ServeCounts
  <2> QED
    BY <1>2, <2>3, <2>5 DEF ServeInv
<1>4. CASE httpNow + 1 # Window
  <2>1. httpNow' = httpNow + 1 /\ UNCHANGED <<spent, asked, httpTold>>
    BY <1>4 DEF Serve!Pass
  <2>2. ServeTypes'
    BY <1>4, <2>1, ServeBounds DEF ServeInv, ServeTypes
  <2>3. \A k : Serve!Spent(k)' = Serve!Spent(k)
    BY <2>1 DEF Serve!Spent
  <2>4. ServeCounts'
    BY <2>1, <2>3 DEF ServeInv, ServeCounts
  <2> QED
    BY <1>2, <2>2, <2>4 DEF ServeInv
<1> QED
  BY <1>3, <1>4

LEMMA ServeStart == Serve!HttpInit => ServeInv
<1> SUFFICES ASSUME Serve!HttpInit PROVE ServeInv
  OBVIOUS
<1>1. /\ httpNow = 0 /\ spent = <<>> /\ asked = [l \in HttpLinks |-> 0] /\ httpTold = [p \in Peers |-> 0]
      /\ answer = [route |-> "none", status |-> 200, error |-> "none", envelope |-> TRUE, retry |-> 0, of |-> "none",
                   valid |-> FALSE]
  BY DEF Serve!HttpInit
<1>2. DOMAIN spent = {}
  BY <1>1
<1>3. ServeTypes
  BY <1>1, <1>2, ServeBounds DEF ServeTypes
<1>4. \A k : Serve!Spent(k) = 0
  BY <1>2 DEF Serve!Spent
<1>5. ServeCounts
  BY <1>1, <1>4, ServeBounds DEF ServeCounts
<1>6. AnswerFits
  BY <1>1 DEF AnswerFits, Serve!Documented, Serve!LinksKeepTheirBudget, Serve!ValidCodesPass, Serve!WaitIsEnough
<1> QED
  BY <1>3, <1>5, <1>6 DEF ServeInv

LEMMA ServeSteps ==
  ASSUME ServeInv, Serve!HttpNext
  PROVE  ServeInv'
<1>1. CASE \E route \in ServeRoutes : Serve!Unextracted(route) \/ Serve!Call(route)
  BY <1>1, Unextracts, Calls
<1>2. CASE (\E p \in Peers : Serve!Exchange(p)) \/ Serve!ExchangeUnknown
  BY <1>2, Exchanges, UnknownExchanges
<1>3. CASE \E l \in HttpLinks, s \in Peers \cup Strangers, signed \in BOOLEAN :
             Serve!Ingest(l, s, signed) \/ Serve!RevokeFromPeer(l, s, signed)
  BY <1>3, Ingests, Revokes
<1>4. CASE Serve!Pass
  BY <1>4, Passes
<1> QED
  BY <1>1, <1>2, <1>3, <1>4 DEF Serve!HttpNext, ServeRoutes

LEMMA ServePromises ==
  ASSUME ServeInv
  PROVE  /\ Serve!Documented /\ Serve!LinksKeepTheirBudget /\ Serve!ValidCodesPass
         /\ Serve!GuessesAreBounded /\ Serve!KeysAreBounded /\ Serve!WaitIsEnough
<1>1. Serve!GuessesAreBounded
  <2>1. \A k : Serve!Spent(k) \in Nat
    BY DEF ServeInv, ServeTypes, Serve!Spent
  <2>2. \A p \in Peers : httpTold[p] \in Nat
    BY DEF ServeInv, ServeTypes
  <2>3. ASSUME NEW p \in Peers
        PROVE  httpTold[p] <= FailureLimit
    <3>1. PICK n \in Nat : n = Serve!Spent(<<"exchange", p>>)
      BY <2>1
    <3>2. httpTold[p] <= n /\ n <= FailureLimit
      BY <3>1 DEF ServeInv, ServeCounts
    <3> QED
      BY <2>2, <3>2, ServeBounds
  <2> QED
    BY <2>3 DEF Serve!GuessesAreBounded
<1>2. Serve!KeysAreBounded
  <2>1. ASSUME NEW key \in DOMAIN spent
        PROVE  key \in {<<k, p>> : k \in {"exchange", "unknown"}, p \in Peers}
                         \cup {<<"link", l>> : l \in HttpLinks \ Unknown}
    <3>1. key \in ServeKeys
      BY DEF ServeInv, ServeTypes
    <3> QED
      BY <3>1 DEF ServeKeys
  <2> QED
    BY <2>1 DEF Serve!KeysAreBounded
<1> QED
  BY <1>1, <1>2 DEF ServeInv, AnswerFits

LEMMA ServeStays ==
  ASSUME UNCHANGED httpState, ServeInv
  PROVE  ServeInv'
<1>1. UNCHANGED <<spent, httpNow, answer, asked, httpTold>>
  BY DEF httpState
<1>2. AnswerFits'
  BY <1>1 DEF ServeInv, AnswerFits, Serve!Documented, Serve!LinksKeepTheirBudget, Serve!ValidCodesPass,
              Serve!WaitIsEnough
<1> QED
  BY <1>1, <1>2, Untouched

(* Which machine takes a step. *)
LEMMA ServeMachine ==
  /\ Init => (part = "serving" => Serve!HttpInit)
  /\ [Next]_vars => part' = part /\ (UNCHANGED httpState \/ (part = "serving" /\ Serve!HttpNext))
<1>1. Init => (part = "serving" => Serve!HttpInit)
  BY DEF Init, PipelineStarts, CondStarts, KeyedStarts, GuardStarts, BodyStarts, UpstreamStarts,
    RateStarts, BudgetStarts, HttpStarts, LocksStarts, PagesStarts, MediaStarts, CsvStarts
<1>2. HttpMoves => part' = part /\ part = "serving" /\ Serve!HttpNext
  BY DEF HttpMoves
<1>3. ASSUME \/ PipelineMoves \/ CondMoves \/ KeyedMoves \/ GuardMoves \/ BodyMoves \/ UpstreamMoves
             \/ RateMoves \/ BudgetMoves \/ LocksMoves \/ PagesMoves \/ MediaMoves \/ CsvMoves
      PROVE  part' = part /\ UNCHANGED httpState
  BY <1>3 DEF PipelineMoves, CondMoves, KeyedMoves, GuardMoves, BodyMoves, UpstreamMoves, RateMoves,
    BudgetMoves, LocksMoves, PagesMoves, MediaMoves, CsvMoves
<1>4. UNCHANGED vars => part' = part /\ UNCHANGED httpState
  BY DEF vars
<1> QED
  BY <1>1, <1>2, <1>3, <1>4 DEF Next

(* However requests with any path, source, signature and code interleave    *)
(* with the clock, every answer is in its route's contract, a known link is  *)
(* refused for its own traffic alone, a valid code passes, a peer learns of  *)
(* no more failed codes than the limit, the limiter's keys are bounded and a *)
(* hinted wait suffices (adapters/http.rs).                                  *)
THEOREM ServedKept == Spec => []ServedUnderLoad
<1> DEFINE Inv == part = "serving" => ServeInv
<1>1. Init => Inv
  BY ServeMachine, ServeStart
<1>2. Inv /\ [Next]_vars => Inv'
  <2> SUFFICES ASSUME Inv, [Next]_vars, part = "serving" PROVE ServeInv'
    BY ServeMachine
  <2>1. CASE UNCHANGED httpState
    BY <2>1, ServeStays
  <2>2. CASE Serve!HttpNext
    BY <2>2, ServeSteps
  <2> QED
    BY <2>1, <2>2, ServeMachine
<1>3. Inv => ServedUnderLoad
  BY ServePromises DEF ServedUnderLoad
<1> QED
  BY <1>1, <1>2, <1>3, PTL DEF Spec
=============================================================================
