------------------------------- MODULE MCPush --------------------------------
(***************************************************************************)
(* Small instances of the push machines. A behaviour is of one machine,    *)
(* named by part; the variables of the others stay 0.                      *)
(***************************************************************************)
EXTENDS TLC

CONSTANTS
  Machines,  \* the machines a run starts
  RegistryOwners, RegistryTokens, Clients, NoToken, NoOwner,
  RegistryDevicesPerOwner, RegistryMaxTime, DeliveryDevices, Workers, Pollers,
  BatchSize, Limit, DeliveryMaxTime, MayStop, MayExpire, StoresOwners,
  StoresTokens, StoresTickets, Kinds, ByBytes(_), Collated(_), Platforms,
  StoresDevicesPerOwner, Limits, MaxTime, ExpoBatch, MaxBatchSize, ExpoSizes,
  TicketIds

VARIABLES
  part,  \* the machine this behaviour is of
  device, tx, registryNow,
  claimed, worker, served, registered, delivered, verdict, pending, due,
  poller, closed, deliveryNow,
  devices, receipts, claims, call, answer,
  options, phase, expoAt, said, receipt, failedReceipts, outcomes, error,
  polled

registryState == <<device, tx, registryNow>>
deliveryState == <<claimed, worker, served, registered, delivered, verdict,
    pending, due, poller, closed, deliveryNow>>
storesState == <<devices, receipts, claims, call, answer>>
expoState == <<options, phase, expoAt, said, receipt, failedReceipts,
    outcomes, error, polled>>
vars == <<part, registryState, deliveryState, storesState, expoState>>

Bytes(x) == x

Send == INSTANCE Push WITH Owners <- RegistryOwners, Tokens <- RegistryTokens,
  DevicesPerOwner <- RegistryDevicesPerOwner
Adapt == INSTANCE PushAdapters WITH Owners <- StoresOwners,
  Tokens <- StoresTokens, DevicesPerOwner <- StoresDevicesPerOwner,
  Batch <- ExpoBatch
AdaptReceipts == INSTANCE PushAdapters WITH Owners <- StoresOwners,
  DevicesPerOwner <- StoresDevicesPerOwner, Batch <- ExpoBatch, Tokens <- {},
  StoresTickets <- {1, 2, 3}, Limits <- {1, 2}
AdaptClaims == INSTANCE PushAdapters WITH Owners <- StoresOwners,
  DevicesPerOwner <- StoresDevicesPerOwner, Batch <- ExpoBatch, Tokens <- {},
  Kinds <- {1, 2}, Limits <- {1, 2, 3}, MaxTime <- 2

ASSUME PushAssumption ==
  /\ Send!CapIsPositive
  /\ Send!NoneIsNoValue
  /\ Send!Sizes

RegistryOff ==
  /\ device = 0 /\ tx = 0 /\ registryNow = 0
DeliveryOff ==
  /\ claimed = 0 /\ worker = 0 /\ served = 0 /\ registered = 0
  /\ delivered = 0 /\ verdict = 0 /\ pending = 0 /\ due = 0 /\ poller = 0
  /\ closed = 0 /\ deliveryNow = 0
StoresOff ==
  /\ devices = 0 /\ receipts = 0 /\ claims = 0 /\ call = 0 /\ answer = 0
ExpoOff ==
  /\ options = 0 /\ phase = 0 /\ expoAt = 0 /\ said = 0 /\ receipt = 0
  /\ failedReceipts = 0 /\ outcomes = 0 /\ error = 0 /\ polled = 0

RegistryStarts ==
  /\ part = "devices" /\ Send!RegistryInit
  /\ DeliveryOff /\ StoresOff /\ ExpoOff
DeliveryStarts ==
  /\ part = "delivery" /\ Send!DeliveryInit
  /\ RegistryOff /\ StoresOff /\ ExpoOff
StoresStarts ==
  /\ \/ part = "stored" /\ Adapt!StoresInit
     \/ part = "receipts" /\ AdaptReceipts!StoresInit
     \/ part = "claims" /\ AdaptClaims!StoresInit
  /\ RegistryOff /\ DeliveryOff /\ ExpoOff
ExpoStarts ==
  /\ part = "expo" /\ Adapt!ExpoInit
  /\ RegistryOff /\ DeliveryOff /\ StoresOff

Init ==
  /\ part \in Machines
  /\ \/ RegistryStarts \/ DeliveryStarts \/ StoresStarts \/ ExpoStarts

RegistryMoves ==
  /\ part = "devices" /\ Send!RegistryNext
  /\ UNCHANGED <<part, deliveryState, storesState, expoState>>
DeliveryMoves ==
  /\ part = "delivery" /\ Send!DeliveryNext
  /\ UNCHANGED <<part, registryState, storesState, expoState>>
StoresMoves ==
  /\ \/ part = "stored" /\ Adapt!StoresNext
     \/ part = "receipts" /\ AdaptReceipts!StoresNext
     \/ part = "claims" /\ AdaptClaims!StoresNext
  /\ UNCHANGED <<part, registryState, deliveryState, expoState>>
ExpoMoves ==
  /\ part = "expo" /\ Adapt!ExpoNext
  /\ UNCHANGED <<part, registryState, deliveryState, storesState>>

Next ==
  \/ RegistryMoves \/ DeliveryMoves \/ StoresMoves \/ ExpoMoves

Spec == Init /\ [][Next]_vars

-----------------------------------------------------------------------------
Symmetry == Permutations(RegistryOwners) \cup Permutations(Clients) \cup Permutations(RegistryTokens)

(* Owners that register, rotate and lose devices at the same time never    *)
(* exceed the cap, evict on a rotation or lose a registration to a stale   *)
(* one, and the in-memory and the PostgreSQL store answer the same (baukit-*)
(* push).                                                                  *)
RegistryKeepsItsWordHolds ==
  /\ part = "devices" =>
       /\ Send!RegistryTypeOK /\ Send!CapHolds
       /\ Send!RotationEvictsNobody
  /\ part = "stored" =>
       /\ Adapt!SameDevices /\ Adapt!SameAnswers
  /\ part = "receipts" =>
       /\ AdaptReceipts!SameReceipts
       /\ AdaptReceipts!SameAnswers
  /\ part = "claims" =>
       /\ AdaptClaims!SameClaims
       /\ AdaptClaims!SameAnswers

RegistryKeepsItsWordSteps ==
  /\ part = "devices" =>
       /\ Send!RegisteredIsKept
       /\ Send!StaleRegistrationKeepsInstant
  /\ part = "stored" => Adapt!RetryIsSafe

RegistryKeepsItsWord == []RegistryKeepsItsWordHolds /\ [][RegistryKeepsItsWordSteps]_vars

(* Of several workers one sends a notification; a batch sent in chunks gives*)
(* every notification one outcome, its own verdict, and its tickets survive*)
(* a failure to read their receipts; pollers drop a device only when it is *)
(* dead and settled, and never one that was registered again meanwhile     *)
(* (baukit-push).                                                          *)
SentOnceHolds ==
  /\ part = "delivery" =>
       /\ Send!DeliveryTypeOK /\ Send!OneSender
       /\ Send!SettledDeadIsGone
  /\ part = "expo" =>
       /\ Adapt!OneOutcomeEach /\ Adapt!OwnVerdict
       /\ Adapt!TicketsSurvive /\ Adapt!ChunksFit

SentOnceSteps ==
  /\ part = "delivery" => Send!NeverDropsReinstalled

SentOnce == []SentOnceHolds /\ [][SentOnceSteps]_vars
==============================================================================
