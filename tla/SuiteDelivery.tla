---------------------------- MODULE SuiteDelivery ----------------------------
(***************************************************************************)
(* Delivery over one recorded link of baukit-suite: the sender's           *)
(* suite.events.deliver jobs and the workers that run them, its delivery   *)
(* circuit, and the receiver's inbox.  A worker reads the link, calls the  *)
(* peer, records the answer and settles its job in separate transactions;  *)
(* its lease may expire and it may die between any two of them.  Failed    *)
(* jobs are only recorded by a trigger and are counted later, by whichever *)
(* transaction locks the link next.                                        *)
(***************************************************************************)
EXTENDS Naturals, FiniteSets

CONSTANTS Events,       \* events the product emits
          Workers,      \* delivery workers
          Failures,     \* SUITE_CIRCUIT_FAILURES
          MaxAttempts,  \* SUITE_MAX_ATTEMPTS
          Nobody        \* the worker of a job that does not run

DeliveryAssumption == Failures \in Nat \ {0} /\ MaxAttempts \in Nat \ {0} /\ Nobody \notin Workers

VARIABLES link,      \* status, delivery health and consecutive failures
          job,       \* the delivery job of each event, live and replayed
          recorded,  \* suite_failed_delivery_jobs not yet accounted
          counted,   \* how often each failed job was counted
          call,      \* what each worker is doing
          inbox,     \* suite_inbound_events of the receiver: event -> outcome
          rewards    \* rewards the receiver's product granted per event
vars == <<link, job, recorded, counted, call, inbox, rewards>>

Jobs == Events \X {"live", "replay"}
Idle == [at |-> "idle"]
NoJob == [status |-> "none", worker |-> Nobody, attempts |-> 0]

Init == /\ link = [status |-> "active", health |-> "healthy", failures |-> 0]
        /\ job = [j \in Jobs |-> NoJob]
        /\ recorded = {} /\ counted = [j \in Jobs |-> 0]
        /\ call = [w \in Workers |-> Idle]
        /\ inbox = [e \in Events |-> "none"] /\ rewards = [e \in Events |-> 0]

Accounted ==
    LET total == link.failures + Cardinality(recorded) IN
    IF link.status = "revoked" \/ recorded = {} THEN link
    ELSE [link EXCEPT !.failures = IF total > Failures THEN Failures ELSE total,
                      !.health = IF @ = "disabled" \/ total >= Failures THEN "disabled"
                                 ELSE IF @ = "needs_attention" THEN @ ELSE "degraded"]
CountRecorded == /\ counted' = [j \in Jobs |-> IF j \in recorded THEN counted[j] + 1 ELSE counted[j]]
                 /\ recorded' = {}

CanEnqueue(l) == l.status = "active" /\ l.health # "disabled" /\ l.failures < Failures
Enqueue(js) == job' = [j \in Jobs |-> IF j \in js /\ job[j].status = "none"
                                      THEN [NoJob EXCEPT !.status = "pending"] ELSE job[j]]

\* Mutant: the emission enqueues without the accounting of the tick.
EmitUncounted(e) == /\ CanEnqueue(link) /\ Enqueue({<<e, "live">>})
                    /\ UNCHANGED <<link, recorded, counted, call, inbox, rewards>>

(* The product's write enqueues its event unless the circuit is open; when *)
(* the owner lock is busy the emission is skipped, which is no step.       *)
Emit(e) == /\ CanEnqueue(Accounted) /\ Enqueue({<<e, "live">>})
           /\ link' = Accounted /\ CountRecorded
           /\ UNCHANGED <<call, inbox, rewards>>
(* A requested replay enqueues what was emitted, under keys of its own.    *)
Replay == /\ CanEnqueue(Accounted)
          /\ \A e \in Events : job[<<e, "replay">>].status = "none"
          /\ Enqueue({<<e, "replay">> : e \in {e \in Events : job[<<e, "live">>].status # "none"}})
          /\ link' = Accounted /\ CountRecorded
          /\ UNCHANGED <<call, inbox, rewards>>

Claim(w, j) ==
    /\ call[w] = Idle /\ job[j].status = "pending"
    /\ job' = [job EXCEPT ![j] = [status |-> "running", worker |-> w, attempts |-> @.attempts + 1]]
    /\ call' = [call EXCEPT ![w] = [at |-> "read", job |-> j, action |-> "none"]]
    /\ UNCHANGED <<link, recorded, counted, inbox, rewards>>

(* find_link counts recorded failures, then the preflight decides.         *)
Preflight(l) == CASE l.status = "revoked" -> "finished"
                  [] l.status # "revoked" /\ (l.health = "disabled" \/ l.failures >= Failures) -> "permanent"
                  [] OTHER -> "send"
Read(w) ==
    /\ call[w].at = "read"
    /\ link' = Accounted /\ CountRecorded
    /\ call' = [call EXCEPT ![w] = IF Preflight(Accounted) = "send" THEN [@ EXCEPT !.at = "send"]
                                   ELSE [@ EXCEPT !.at = "settle", !.action = Preflight(Accounted)]]
    /\ UNCHANGED <<job, inbox, rewards>>

Ingest(e, kind) ==
    IF inbox[e] # "none" THEN UNCHANGED <<inbox, rewards>>
    ELSE /\ inbox' = [inbox EXCEPT ![e] = IF kind = "live" THEN "granted" ELSE "no_rule"]
         /\ rewards' = [rewards EXCEPT ![e] = IF kind = "live" THEN @ + 1 ELSE @]

Send(w) ==
    /\ call[w].at = "send"
    /\ \E action \in {"delivered", "retry", "unauthorized", "revoked", "rejected"} :
         /\ call' = [call EXCEPT ![w].at = "record", ![w].action = action]
         /\ \/ action \in {"delivered", "retry"} /\ Ingest(call[w].job[1], call[w].job[2])
            \/ action # "delivered" /\ UNCHANGED <<inbox, rewards>>
    /\ UNCHANGED <<link, job, recorded, counted>>

AfterDelivery(l, action) ==
    CASE action = "delivered" /\ l.health = "disabled" -> l
      [] action = "delivered" /\ l.health # "disabled" -> [l EXCEPT !.health = "healthy", !.failures = 0]
      [] action = "unauthorized" -> [l EXCEPT !.status = "needs_attention", !.health = "needs_attention"]
      [] action = "revoked" -> [l EXCEPT !.status = "revoked"]
      [] OTHER -> l

HoldsLease(w) == LET j == call[w].job IN job[j].status = "running" /\ job[j].worker = w
EndJob(w, status) == job' = [job EXCEPT ![call[w].job].status = status, ![call[w].job].worker = Nobody]

(* complete_delivery: the link and the job in one transaction, undone when *)
(* the lease is lost; the worker's error then meets the same lease check.  *)
CompleteDelivery(w) ==
    /\ call[w].at = "record" /\ call[w].action = "delivered"
    /\ IF HoldsLease(w)
       THEN link' = AfterDelivery(Accounted, "delivered") /\ CountRecorded /\ EndJob(w, "succeeded")
       ELSE UNCHANGED <<link, recorded, counted, job>>
    /\ call' = [call EXCEPT ![w] = Idle]
    /\ UNCHANGED <<inbox, rewards>>
(* record_delivery: any other answer updates the link, whoever holds the   *)
(* job by now.                                                             *)
RecordDelivery(w) ==
    /\ call[w].at = "record" /\ call[w].action # "delivered"
    /\ link' = IF Accounted.status = "revoked" THEN Accounted ELSE AfterDelivery(Accounted, call[w].action)
    /\ CountRecorded
    /\ call' = [call EXCEPT ![w].at = "settle",
                            ![w].action = IF @ = "retry" THEN "retry" ELSE "permanent"]
    /\ UNCHANGED <<job, inbox, rewards>>

(* The runner settles the job under its lease; a failed job is recorded by *)
(* the trigger.                                                            *)
TryAgain(j) == IF job[j].attempts < MaxAttempts THEN "pending" ELSE "failed"
Settle(w) ==
    /\ call[w].at = "settle"
    /\ IF HoldsLease(w)
       THEN LET j == call[w].job
                status == CASE call[w].action = "finished" -> "succeeded"
                            [] call[w].action = "permanent" -> "failed"
                            [] OTHER -> TryAgain(j)
            IN EndJob(w, status) /\ recorded' = IF status = "failed" THEN recorded \cup {j} ELSE recorded
       ELSE UNCHANGED <<job, recorded>>
    /\ call' = [call EXCEPT ![w] = Idle]
    /\ UNCHANGED <<link, counted, inbox, rewards>>

LeaseExpires(j) ==
    /\ job[j].status = "running"
    /\ job' = [job EXCEPT ![j].status = TryAgain(j), ![j].worker = Nobody]
    /\ recorded' = IF TryAgain(j) = "failed" THEN recorded \cup {j} ELSE recorded
    /\ UNCHANGED <<link, counted, call, inbox, rewards>>
WorkerDies(w) == /\ call[w] # Idle /\ call' = [call EXCEPT ![w] = Idle]
                 /\ UNCHANGED <<link, job, recorded, counted, inbox, rewards>>

Reenable == /\ Accounted.status = "active"
            /\ link' = [Accounted EXCEPT !.health = "healthy", !.failures = 0]
            /\ CountRecorded /\ UNCHANGED <<job, call, inbox, rewards>>
Revoke == /\ link.status # "revoked"
          /\ link' = [Accounted EXCEPT !.status = "revoked"]
          /\ CountRecorded /\ UNCHANGED <<job, call, inbox, rewards>>
Cleanup == /\ recorded # {} /\ link' = Accounted /\ CountRecorded
           /\ UNCHANGED <<job, call, inbox, rewards>>

Next == \/ \E e \in Events : Emit(e)
        \/ Replay \/ Reenable \/ Revoke \/ Cleanup
        \/ \E j \in Jobs : LeaseExpires(j) \/ \E w \in Workers : Claim(w, j)
        \/ \E w \in Workers : Read(w) \/ Send(w) \/ CompleteDelivery(w) \/ RecordDelivery(w)
                              \/ Settle(w) \/ WorkerDies(w)
Spec == Init /\ [][Next]_vars

(* Workers keep claiming and make progress, leases of lost claims expire,  *)
(* the cleanup runs every hour.                                            *)
Progress(w) == Read(w) \/ Send(w) \/ CompleteDelivery(w) \/ RecordDelivery(w) \/ Settle(w)
-----------------------------------------------------------------------------
TypeOK ==
    /\ link \in [status : {"active", "needs_attention", "revoked"},
                 health : {"healthy", "degraded", "needs_attention", "disabled"}, failures : 0 .. Failures]
    /\ job \in [Jobs -> [status : {"none", "pending", "running", "succeeded", "failed"},
                         worker : Workers \cup {Nobody}, attempts : 0 .. MaxAttempts]]
    /\ recorded \subseteq Jobs /\ counted \in [Jobs -> Nat]
    /\ inbox \in [Events -> {"none", "granted", "no_rule"}] /\ rewards \in [Events -> Nat]

(* A failed job is counted exactly once, by whichever of the transactions  *)
(* that lock the link comes first: it is recorded until then, and neither  *)
(* an expired lease nor a late answer records it again.                    *)
FailureCountedOnce == \A j \in Jobs :
    counted[j] + (IF j \in recorded THEN 1 ELSE 0) = (IF job[j].status = "failed" THEN 1 ELSE 0)

(* However often an event is sent (lost answers, expired leases, dead      *)
(* workers, replays), its reward is granted at most once.                  *)
RewardedOnce == \A e \in Events : rewards[e] <= 1

(* A live event whose delivery succeeded was granted its reward, unless a  *)
(* replay of it came first.                                                *)
DeliveredIsRewarded == \A e \in Events :
    job[<<e, "live">>].status = "succeeded" /\ job[<<e, "replay">>].status = "none" /\ link.status # "revoked"
        => rewards[e] = 1

(* An event is enqueued only while fewer failures than the circuit allows  *)
(* lie behind it, those that nobody has counted yet included.              *)
NoEnqueueWhileOpen ==
  (\E j \in Jobs : job[j].status = "none" /\ job'[j].status = "pending")
     => link.failures + Cardinality(recorded) < Failures

(* "Twenty consecutive permanent failures disable delivery; reenable       *)
(* resets the count": no delivery's answer closes the open circuit.        *)
OpenUntilReenabled ==
  link.failures = Failures /\ link'.failures < Failures => call' = call

==============================================================================
