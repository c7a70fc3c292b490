------------------------------ MODULE RateLimit ------------------------------
(***************************************************************************)
(* baukit-ratelimit: the in-memory token buckets behind the HTTP layer     *)
(* (Rate...), and budgets of amounts (Budget...).                          *)
(***************************************************************************)
EXTENDS Integers, FiniteSets

-----------------------------------------------------------------------------
(***************************************************************************)
(* The request limiter: rate_limit_request (axum_layer.rs) asks the bucket  *)
(* of the caller's identity and then the bucket of its address, each with   *)
(* one locked InMemoryRateLimitStore::check_at (memory.rs).  A bucket that  *)
(* was idle for idle_ttl is dropped, and the store keeps MaxEntries.        *)
(* Tokens are counted in parts: one token is Period parts and Requests      *)
(* parts come back each tick.  An entry holds its age, not its instants.    *)
(***************************************************************************)

CONSTANTS Subjects, Addresses, RateCallers, RequestsPerPeriod, Period, Burst,
          MaxEntries, FailOpen, None

RateLimitAssumption ==
  /\ RequestsPerPeriod \in Nat \ {0} /\ Period \in Nat \ {0} /\ Burst \in Nat
  /\ MaxEntries \in Nat \ {0} /\ FailOpen \in BOOLEAN
  /\ Subjects \cap Addresses = {} /\ None \notin Nat

Keys == Subjects \cup Addresses

VARIABLES
  entries,  \* the store: [tokens, age] for each kept key
  caller,   \* a request between its two checks: [subject, address], or None
  wait      \* ghost: ticks left of the Retry-After each caller was given, per key

rateVars == <<entries, caller, wait>>

Capacity == (RequestsPerPeriod + Burst) * Period
IdleTtl == (Capacity + RequestsPerPeriod - 1) \div RequestsPerPeriod

RateInit ==
  /\ entries = <<>>
  /\ caller = [c \in RateCallers |-> None]
  /\ wait = [k \in Keys |-> None]

Kept == DOMAIN entries
\* Mutant: a bucket fills beyond its capacity.
RefilledUncapped(parts) == parts

Refilled(parts) == IF parts > Capacity THEN Capacity ELSE parts
LevelOf(k) ==
  IF k \in Kept THEN Refilled(entries[k].tokens + entries[k].age * RequestsPerPeriod)
  ELSE Capacity

Unexpired == {k \in Kept : entries[k].age < IdleTtl}

Pruned(k) ==
  LET left == IF Cardinality(Kept) >= MaxEntries THEN {Unexpired} ELSE {Kept, Unexpired}
      First(ks) == {j \in ks : \A i \in ks : entries[j].age >= entries[i].age}
  IN UNION {IF k \in ks \/ Cardinality(ks) < MaxEntries THEN {ks}
            ELSE {ks \ {j} : j \in First(ks)} : ks \in left}

LevelIn(k, ks) == IF k \in ks THEN LevelOf(k) ELSE Capacity

RetryAfter(parts) == (Period - parts + RequestsPerPeriod - 1) \div RequestsPerPeriod

(* One locked check: allowed says what the caller is told. *)
Check(k, allowed) ==
  \E ks \in Pruned(k) :
    LET parts == LevelIn(k, ks)  left == IF allowed THEN parts - Period ELSE parts IN
      /\ allowed = (parts >= Period)
      /\ entries' = [j \in ks \cup {k} |-> IF j = k THEN [tokens |-> left, age |-> 0] ELSE entries[j]]
      /\ wait' = [wait EXCEPT ![k] = IF allowed THEN None ELSE RetryAfter(parts)]

(* A store error consumes nothing; the fail mode decides, and a refusal     *)
(* hints a whole period. The ghost keeps the shorter of two hints.          *)
StoreFails(k, allowed) ==
  /\ allowed = FailOpen
  /\ wait' = IF FailOpen \/ (wait[k] # None /\ wait[k] < Period) THEN wait
             ELSE [wait EXCEPT ![k] = Period]
  /\ UNCHANGED entries

Evaluate(k, allowed) == Check(k, allowed) \/ StoreFails(k, allowed)

IdentityScope(c, s, a) ==
  /\ caller[c] = None
  /\ \/ Evaluate(s, TRUE) /\ caller' = [caller EXCEPT ![c] = a]
     \/ Evaluate(s, FALSE) /\ UNCHANGED caller

Anonymous(c, a) ==
  /\ caller[c] = None
  /\ caller' = [caller EXCEPT ![c] = a]
  /\ UNCHANGED <<entries, wait>>

IpScope(c) ==
  /\ caller[c] # None
  /\ \E allowed \in BOOLEAN : Evaluate(caller[c], allowed)
  /\ caller' = [caller EXCEPT ![c] = None]

Older(e) == [e EXCEPT !.age = IF @ < IdleTtl THEN @ + 1 ELSE @]

Tick ==
  /\ entries' = [k \in Kept |-> Older(entries[k])]
  /\ wait' = [k \in Keys |-> IF wait[k] \in {None, 0} THEN wait[k] ELSE wait[k] - 1]
  /\ UNCHANGED caller

RateNext ==
  \/ \E c \in RateCallers, a \in Addresses :
       Anonymous(c, a) \/ \E s \in Subjects : IdentityScope(c, s, a)
  \/ \E c \in RateCallers : IpScope(c)
  \/ Tick

RateSpec == RateInit /\ [][RateNext]_rateVars

(* The store never holds more than MaxEntries buckets. *)
RateTypeOK ==
  /\ Kept \subseteq Keys /\ Cardinality(Kept) <= MaxEntries
  /\ \A k \in Kept : entries[k].tokens \in 0..Capacity /\ entries[k].age \in 0..IdleTtl
  /\ caller \in [RateCallers -> Addresses \cup {None}]

(* Dropping idle buckets cannot be told from a store that forgets none; a   *)
(* live bucket is forgotten only to make room for a full one that is taken  *)
(* from, and only if there are more keys than entries.                      *)
Bucket == INSTANCE TokenBucket WITH
  Rate <- RequestsPerPeriod, Cost <- Period, MaxBuckets <- MaxEntries,
  level <- [k \in Keys |-> LevelOf(k)]

ImplementsTokenBucket == Bucket!Next \/ UNCHANGED [k \in Keys |-> LevelOf(k)]

(* A caller that waits out its Retry-After while nobody takes a token of    *)
(* that bucket is not refused again.                                        *)
RetryAfterSuffices == \A k \in Keys : wait[k] = 0 => LevelOf(k) >= Period
-----------------------------------------------------------------------------
(***************************************************************************)
(* FixedWindowAmountBudget (amount_budget.rs) of one subject over the Redis *)
(* store (redis_store.rs): a product reserves an amount, accepts part of it *)
(* and releases the rest.  The window is read from the clock before the     *)
(* script runs; a script sent through Sentinel runs again when its reply is *)
(* lost.  FailModes: whether the processes that share the budget fail open. *)
(* MaxSlipped bounds the units of a window that a run lets slip.            *)
(***************************************************************************)

CONSTANTS BudgetCallers, Limit, MaxWindow, FailModes, MaxSlipped

AmountBudgetAssumption ==
  /\ Limit \in Nat \ {0} /\ MaxWindow \in Nat /\ MaxSlipped \in Nat
  /\ FailModes \subseteq BOOLEAN

Windows == 0..MaxWindow

VARIABLES
  window,   \* the window the clock is in
  counter,  \* the consumed total under each window's key
  call,     \* [op, window, amount, tries, due] each caller awaits, or None
  held,     \* [window, amount] a caller was allowed, or None
  granted,  \* ghost: units allowed and not rejected, per window of the consume
  slipped   \* ghost: units of each window its counter misses, by their cause:
            \* allowed after the window or by a process that fails open, or
            \* given back that the counter did not hold for that release

budgetVars == <<window, counter, call, held, granted, slipped>>

BudgetInit ==
  /\ window = 0 /\ counter = [w \in Windows |-> 0]
  /\ call = [c \in BudgetCallers |-> None] /\ held = [c \in BudgetCallers |-> None]
  /\ granted = [w \in Windows |-> 0] /\ slipped = [w \in Windows |-> 0]

Idle(c) == call[c] = None

(* due: the release's units are counted under its window's key.             *)
Calls(c, op, amount, due) ==
  call' = [call EXCEPT ![c] = [op |-> op, window |-> window, amount |-> amount,
                               tries |-> 2, due |-> due]]

Slips(w, amount) ==
  /\ slipped[w] + amount <= MaxSlipped
  /\ slipped' = [slipped EXCEPT ![w] = @ + amount]

Allow(c) ==
  /\ held' = [held EXCEPT ![c] = [window |-> call[c].window, amount |-> call[c].amount]]
  /\ granted' = [granted EXCEPT ![call[c].window] = @ + call[c].amount]

Consume(c, amount) ==
  /\ Idle(c) /\ held[c] = None
  /\ Calls(c, "consume", amount, FALSE)
  /\ UNCHANGED <<window, counter, held, granted, slipped>>

(* The product rejected part of what it holds; it keeps the rest.  The key  *)
(* is that of the window the clock is in by then.                           *)
Release(c, amount) ==
  /\ Idle(c) /\ held[c] # None /\ amount <= held[c].amount
  /\ Calls(c, "release", amount, held[c].window = window)
  /\ granted' = [granted EXCEPT ![held[c].window] = @ - amount]
  /\ held' = [held EXCEPT ![c] = None]
  /\ UNCHANGED <<window, counter, slipped>>

(* Everything was accepted. *)
Keep(c) ==
  /\ Idle(c) /\ held[c] # None
  /\ held' = [held EXCEPT ![c] = None]
  /\ UNCHANGED <<window, counter, call, granted, slipped>>

Fits(current, amount) == current <= Limit /\ amount <= Limit - current
Expired(w) == w < window

(* AMOUNT_BUDGET_SCRIPT; PEXPIREAT in the past drops the key at once.       *)
Consumed(w, amount) ==
  IF ~Fits(counter[w], amount) \/ Expired(w) THEN counter
  ELSE [counter EXCEPT ![w] = @ + amount]

Awaits(c, op) == ~Idle(c) /\ call[c].op = op
ConsumeScript(c) == counter' = Consumed(call[c].window, call[c].amount)

(* RELEASE_AMOUNT_SCRIPT *)
Released(w, amount) ==
  IF Expired(w) THEN counter
  ELSE [counter EXCEPT ![w] = IF @ > amount THEN @ - amount ELSE 0]

ReleaseScript(c) ==
  LET w == call[c].window IN
    /\ counter' = Released(w, call[c].amount)
    /\ Slips(w, IF call[c].due THEN 0 ELSE counter[w] - counter'[w])

ConsumeAnswered(c) ==
  /\ Awaits(c, "consume") /\ ConsumeScript(c)
  /\ call' = [call EXCEPT ![c] = None]
  /\ LET w == call[c].window  amount == call[c].amount IN
       \/ /\ Fits(counter[w], amount) /\ Allow(c)
          /\ Slips(w, IF Expired(w) THEN amount ELSE 0)
       \/ ~Fits(counter[w], amount) /\ UNCHANGED <<held, granted, slipped>>
  /\ UNCHANGED window

ReleaseAnswered(c) ==
  /\ Awaits(c, "release") /\ ReleaseScript(c)
  /\ call' = [call EXCEPT ![c] = None]
  /\ UNCHANGED <<window, held, granted>>

(* An error, before the script or after it, is retried once; after the      *)
(* second one the fail mode decides about a consume.                        *)
Retried(c, due) ==
  IF call[c].tries = 1 THEN None ELSE [call[c] EXCEPT !.tries = 1, !.due = due]

ConsumeFails(c) ==
  /\ Awaits(c, "consume")
  /\ ConsumeScript(c) \/ UNCHANGED counter
  /\ call' = [call EXCEPT ![c] = Retried(c, FALSE)]
  /\ \/ /\ call[c].tries = 2 \/ FALSE \in FailModes
        /\ UNCHANGED <<held, granted, slipped>>
     \/ /\ call[c].tries = 1 /\ TRUE \in FailModes
        /\ Allow(c) /\ Slips(call[c].window, call[c].amount)
  /\ UNCHANGED window

ReleaseFails(c) ==
  /\ Awaits(c, "release")
  /\ \/ ReleaseScript(c) /\ call' = [call EXCEPT ![c] = Retried(c, FALSE)]
     \/ /\ call' = [call EXCEPT ![c] = Retried(c, call[c].due)]
        /\ UNCHANGED <<counter, slipped>>
  /\ UNCHANGED <<window, held, granted>>

(* The clock enters the next window; the old one's key expires.             *)
NextWindow ==
  /\ window < MaxWindow
  /\ window' = window + 1
  /\ counter' = [counter EXCEPT ![window] = 0]
  /\ UNCHANGED <<call, held, granted, slipped>>

BudgetNext ==
  \/ \E c \in BudgetCallers :
       \/ Keep(c) \/ ConsumeAnswered(c) \/ ReleaseAnswered(c)
       \/ ConsumeFails(c) \/ ReleaseFails(c)
       \/ \E amount \in 1..Limit : Consume(c, amount) \/ Release(c, amount)
  \/ NextWindow

BudgetSpec == BudgetInit /\ [][BudgetNext]_budgetVars

BudgetTypeOK ==
  /\ window \in Windows /\ counter \in [Windows -> 0..Limit]
  /\ \A c \in BudgetCallers : held[c] = None \/ held[c].amount \in 1..Limit

(* "The maximum units allowed in one window": what callers were allowed and *)
(* did not give back exceeds the limit by no more than slipped, whatever is *)
(* retried or lost.                                                         *)
WindowLimit == \A w \in Windows : granted[w] <= Limit + slipped[w]

(* A lost release leaves units unused, but no unit a caller was allowed is  *)
(* missing from the running window's counter, save those that slipped.      *)
CounterCoversGranted == granted[window] <= counter[window] + slipped[window]

(* Not kept: the limit itself.  A unit slips when a script runs after its    *)
(* window, a reservation is released in a later one, a release's reply is   *)
(* lost and its script runs again, or a process fails open.                  *)
WindowNeverOvergrants == \A w \in Windows : granted[w] <= Limit
==============================================================================
