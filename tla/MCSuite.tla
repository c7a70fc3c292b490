------------------------------- MODULE MCSuite -------------------------------
(***************************************************************************)
(* Small instances of the machines of baukit-suite. A behaviour is of one  *)
(* machine, named by part; the variables of the others stay 0.             *)
(***************************************************************************)
EXTENDS TLC

CONSTANTS
  Machines,  \* the machines a run starts
  Requests, Codes, Completers, Senders, MaxLinks, NoRequest, RewardEvents,
  RewardWorkers, Failures, MaxAttempts, Nobody, PlanCallers, PlanWorkers,
  Bodies, Life, FreeLife, MaxRev, PlanMaxTime, PlanMaxFaults, MaxForgets,
  MaxPurges, None, Denied, HubCallers, Lifetime, Margin, Deadline, HubMaxTime,
  MaxTokens, HubMaxCalls, HubMaxFaults, MaxRevocations, HubAnswer,
  Unauthorized, Unavailable, Refused, TicketCallers, Keys, Claims, Forged,
  Ttl, Cooldown, TicketMaxTime, TicketMaxCalls, TicketMaxFaults, MaxRotations,
  TicketAccepted, Invalid, Expired, WrongAudience, KeysUnavailable, a1, p1,
  b1, b2, w1, c1, w2

VARIABLES
  part,  \* the machine this behaviour is of
  request, code, linkLink, revoke, delivery, linkCall, late, prepared,
  returned,
  rewardLink, job, recorded, counted, rewardCall, inbox, rewards,
  planNow, planHub, planCache, flight, planCall, work, receipts, acked,
  applied, planLeft,
  hubNow, hub, hubCache, hubLock, hubCall, refused, hubLeft,
  ticketNow, published, since, until, ticketCache, ticketLock, ticketCall,
  attempts, failed, ticketLeft

linkState == <<request, code, linkLink, revoke, delivery, linkCall, late,
    prepared, returned>>
rewardState == <<rewardLink, job, recorded, counted, rewardCall, inbox,
    rewards>>
planState == <<planNow, planHub, planCache, flight, planCall, work, receipts,
    acked, applied, planLeft>>
hubState == <<hubNow, hub, hubCache, hubLock, hubCall, refused, hubLeft>>
ticketState == <<ticketNow, published, since, until, ticketCache, ticketLock,
    ticketCall, attempts, failed, ticketLeft>>
vars == <<part, linkState, rewardState, planState, hubState, ticketState>>

Pairing == INSTANCE SuiteLink WITH link <- linkLink, call <- linkCall
PairingSends == INSTANCE SuiteLink WITH link <- linkLink, call <- linkCall,
  Requests <- {a1}, Completers <- {p1}, Senders <- {"i", "a"}
Rewards == INSTANCE SuiteDelivery WITH link <- rewardLink, call <- rewardCall,
  Events <- RewardEvents, Workers <- RewardWorkers
RewardsCircuit == INSTANCE SuiteDelivery WITH link <- rewardLink,
  call <- rewardCall, Events <- {b1, b2}, Workers <- {w1}, Failures <- 2,
  MaxAttempts <- 1
Platform == INSTANCE SuitePlatform WITH Workers <- PlanWorkers,
  Answer <- HubAnswer
PlatformEvents == INSTANCE SuitePlatform WITH Answer <- HubAnswer,
  PlanCallers <- {c1}, Workers <- {w1, w2}, Bodies <- {b1, b2}, Life <- 1,
  PlanMaxTime <- 0

ASSUME SuiteAssumption ==
  /\ Pairing!LinkAssumption
  /\ PairingSends!LinkAssumption
  /\ Rewards!DeliveryAssumption
  /\ RewardsCircuit!DeliveryAssumption
  /\ Platform!PlanAssumption /\ PlatformEvents!PlanAssumption
  /\ Platform!HubAssumption /\ Platform!TicketAssumption

LinkOff ==
  /\ request = 0 /\ code = 0 /\ linkLink = 0 /\ revoke = 0
  /\ delivery = 0 /\ linkCall = 0 /\ late = 0 /\ prepared = 0
  /\ returned = 0
RewardOff ==
  /\ rewardLink = 0 /\ job = 0 /\ recorded = 0 /\ counted = 0
  /\ rewardCall = 0 /\ inbox = 0 /\ rewards = 0
PlanOff ==
  /\ planNow = 0 /\ planHub = 0 /\ planCache = 0 /\ flight = 0
  /\ planCall = 0 /\ work = 0 /\ receipts = 0 /\ acked = 0 /\ applied = 0
  /\ planLeft = 0
HubOff ==
  /\ hubNow = 0 /\ hub = 0 /\ hubCache = 0 /\ hubLock = 0 /\ hubCall = 0
  /\ refused = 0 /\ hubLeft = 0
TicketOff ==
  /\ ticketNow = 0 /\ published = 0 /\ since = 0 /\ until = 0
  /\ ticketCache = 0 /\ ticketLock = 0 /\ ticketCall = 0 /\ attempts = 0
  /\ failed = 0 /\ ticketLeft = 0

LinkStarts ==
  /\ \/ part = "link" /\ Pairing!Init
     \/ part = "sends" /\ PairingSends!Init
  /\ RewardOff /\ PlanOff /\ HubOff /\ TicketOff
RewardStarts ==
  /\ \/ part = "reward" /\ Rewards!Init
     \/ part = "circuit" /\ RewardsCircuit!Init
  /\ LinkOff /\ PlanOff /\ HubOff /\ TicketOff
PlanStarts ==
  /\ \/ part = "plan" /\ Platform!PlanInit
     \/ part = "events" /\ PlatformEvents!PlanInit
  /\ LinkOff /\ RewardOff /\ HubOff /\ TicketOff
HubStarts ==
  /\ part = "hub" /\ Platform!HubInit
  /\ LinkOff /\ RewardOff /\ PlanOff /\ TicketOff
TicketStarts ==
  /\ part = "ticket" /\ Platform!TicketInit
  /\ LinkOff /\ RewardOff /\ PlanOff /\ HubOff

Init ==
  /\ part \in Machines
  /\ \/ LinkStarts \/ RewardStarts \/ PlanStarts \/ HubStarts
     \/ TicketStarts

LinkMoves ==
  /\ \/ part = "link" /\ Pairing!Next
     \/ part = "sends" /\ PairingSends!Next
  /\ UNCHANGED <<part, rewardState, planState, hubState, ticketState>>
RewardMoves ==
  /\ \/ part = "reward" /\ Rewards!Next
     \/ part = "circuit" /\ RewardsCircuit!Next
  /\ UNCHANGED <<part, linkState, planState, hubState, ticketState>>
PlanMoves ==
  /\ \/ part = "plan" /\ Platform!PlanNext
     \/ part = "events" /\ PlatformEvents!PlanNext
  /\ UNCHANGED <<part, linkState, rewardState, hubState, ticketState>>
HubMoves ==
  /\ part = "hub" /\ Platform!HubNext
  /\ UNCHANGED <<part, linkState, rewardState, planState, ticketState>>
TicketMoves ==
  /\ part = "ticket" /\ Platform!TicketNext
  /\ UNCHANGED <<part, linkState, rewardState, planState, hubState>>

Next ==
  \/ LinkMoves \/ RewardMoves \/ PlanMoves \/ HubMoves \/ TicketMoves

Spec == Init /\ [][Next]_vars

-----------------------------------------------------------------------------
Symmetry == Permutations(Requests) \cup Permutations(Codes) \cup Permutations(Completers)

(* Two products that authorize, complete, retry, refresh and revoke a link *)
(* at the same time, over answers that get lost, agree on the one usable   *)
(* link; retries return one link and a revoked one is final (baukit-suite  *)
(* service).                                                               *)
LinksPairHolds ==
  /\ part = "link" =>
       /\ Pairing!TypeOK /\ Pairing!OneUsableLink
       /\ Pairing!PairsAgree /\ Pairing!RetriesReturnOneLink
  /\ part = "sends" => PairingSends!TypeOK

LinksPairSteps ==
  /\ part = "link" => Pairing!SupersededStaysDead
  /\ part = "sends" => PairingSends!RevokedIsFinal

LinksPair == []LinksPairHolds /\ [][LinksPairSteps]_vars

(* Workers that take over each other's deliveries, with answers lost, count*)
(* a failure once and reward an event once, and nothing is enqueued while  *)
(* the circuit is open (baukit-suite delivery).                            *)
CountedOnceHolds ==
  /\ part = "reward" =>
       /\ Rewards!TypeOK
       /\ Rewards!FailureCountedOnce /\ Rewards!RewardedOnce
       /\ Rewards!DeliveredIsRewarded
  /\ part = "circuit" => RewardsCircuit!FailureCountedOnce

CountedOnceSteps ==
  /\ part = "circuit" => RewardsCircuit!NoEnqueueWhileOpen

CountedOnce == []CountedOnceHolds /\ [][CountedOnceSteps]_vars

(* What a product holds of the platform under overlapping calls, faults and*)
(* a moving clock: a served plan is current and the cache never goes back, *)
(* one token request is under way and only a refused token is dropped, key *)
(* fetches are bounded and a rotated key is accepted (baukit-suite hub,    *)
(* entitlements and tickets).                                              *)
PlatformStaysCurrentHolds ==
  /\ part = "plan" =>
       /\ Platform!PlanTypeOK
       /\ Platform!ServedIsCurrent /\ Platform!OnePull
  /\ part = "events" =>
       /\ PlatformEvents!PlanTypeOK
       /\ PlatformEvents!ReceiptInForce /\ PlatformEvents!OneBodyAcknowledged
  /\ part = "hub" =>
       /\ Platform!HubTypeOK
       /\ Platform!OneTokenRequest /\ Platform!ExpiryIsAvoided
  /\ part = "ticket" =>
       /\ Platform!TicketTypeOK
       /\ Platform!FetchesBounded

PlatformStaysCurrentSteps ==
  /\ part = "plan" => Platform!CacheNeverRegresses
  /\ part = "hub" =>
       /\ Platform!TakenUnexpired
       /\ Platform!OnlyRefusedDropped
  /\ part = "ticket" =>
       /\ Platform!WithdrawnKeysEnd
       /\ Platform!RotatedKeyAccepted

PlatformStaysCurrent == []PlatformStaysCurrentHolds /\ [][PlatformStaysCurrentSteps]_vars
==============================================================================
