---------------------------- MODULE MCSuiteProofs ----------------------------
(***************************************************************************)
(* The machines of MCSuite that deliver events (SuiteDelivery), for any    *)
(* events, workers, attempts and threshold of the circuit, the two that    *)
(* pair products (SuiteLink), for any requests, codes, calls and number of *)
(* links, and the four of the platform (SuitePlatform), for any callers,   *)
(* workers, bodies, tokens, keys and bounds on time.  What is proved of    *)
(* them as parts of MCSuite holds whatever its other machines do.          *)
(***************************************************************************)
EXTENDS MCSuite, Integers, FiniteSetTheorems, TLAPS

-----------------------------------------------------------------------------
(* Each failed job is recorded or counted, and that once. *)
Tally(jobs, rec, cnt, j) ==
  cnt[j] + (IF j \in rec THEN 1 ELSE 0) = (IF jobs[j].status = "failed" THEN 1 ELSE 0)

CallsOf(jobs) ==
  [at : {"idle"}] \cup
  [at : {"read", "send", "record", "settle"}, job : jobs,
   action : {"none", "finished", "permanent", "delivered", "retry", "unauthorized",
             "revoked", "rejected"}]

LinksOf(threshold) ==
  [status : {"active", "needs_attention", "revoked"},
   health : {"healthy", "degraded", "needs_attention", "disabled"}, failures : 0..threshold]

JobsOf(workers, most) ==
  [status : {"none", "pending", "running", "succeeded", "failed"},
   worker : workers \cup {Nobody}, attempts : 0..most]

-----------------------------------------------------------------------------
(* What a job may still do: a pending one has attempts left. *)
JobInv ==
  /\ job \in [Rewards!Jobs -> JobsOf(RewardWorkers, MaxAttempts)]
  /\ \A j \in Rewards!Jobs :
       /\ job[j].status = "none" => job[j].attempts = 0
       /\ job[j].status = "pending" => job[j].attempts < MaxAttempts
       /\ job[j].status = "running" => job[j].worker \in RewardWorkers

LinkInv == rewardLink \in LinksOf(Failures)

FailureInv ==
  /\ recorded \subseteq Rewards!Jobs /\ IsFiniteSet(recorded)
  /\ counted \in [Rewards!Jobs -> Nat]
  /\ \A j \in Rewards!Jobs : Tally(job, recorded, counted, j)

(* The inbox remembers what was rewarded; an event it took without a reward *)
(* came by a replay.                                                        *)
InboxInv ==
  /\ inbox \in [RewardEvents -> {"none", "granted", "no_rule"}]
  /\ rewards \in [RewardEvents -> Nat]
  /\ \A e \in RewardEvents :
       /\ rewards[e] = IF inbox[e] = "granted" THEN 1 ELSE 0
       /\ inbox[e] = "no_rule" => job[<<e, "replay">>].status # "none"

(* What a live event's job has brought about when it ends, and before. *)
Arrived(e) == job[<<e, "replay">>].status = "none" => rewards[e] = 1

CallSound(w) ==
  rewardCall[w].at # "idle" =>
    /\ job[rewardCall[w].job].status # "none"
    /\ rewardCall[w].at = "record" /\ rewardCall[w].action = "delivered" =>
         \A e \in RewardEvents : rewardCall[w].job = <<e, "live">> => Arrived(e)
    /\ rewardCall[w].at = "settle" =>
         /\ rewardCall[w].action \in {"finished", "permanent", "retry"}
         /\ rewardCall[w].action = "finished" => rewardLink.status = "revoked"

CallInv ==
  /\ rewardCall \in [RewardWorkers -> CallsOf(Rewards!Jobs)]
  /\ \A w \in RewardWorkers : CallSound(w)

DoneInv ==
  \A e \in RewardEvents :
    job[<<e, "live">>].status = "succeeded" =>
      rewardLink.status = "revoked" \/ Arrived(e)

RewardInv == JobInv /\ LinkInv /\ FailureInv /\ InboxInv /\ CallInv /\ DoneInv

Keeps == \A j \in Rewards!Jobs : job[j].status # "none" => job'[j].status # "none"
Stays == rewardLink.status = "revoked" => rewardLink'.status = "revoked"

LEMMA Bounds == /\ Failures \in Nat \ {0} /\ MaxAttempts \in Nat \ {0}
                /\ Nobody \notin RewardWorkers
BY SuiteAssumption DEF Rewards!DeliveryAssumption

LEMMA SameCardinality == \A S : Rewards!Cardinality(S) = Cardinality(S)
BY DEF Rewards!Cardinality, Cardinality

LEMMA AccountedSound ==
  ASSUME LinkInv, FailureInv
  PROVE  /\ Rewards!Accounted \in LinksOf(Failures)
         /\ Rewards!Accounted.status = rewardLink.status
<1> DEFINE total == rewardLink.failures + Cardinality(recorded)
<1>1. /\ rewardLink.status \in {"active", "needs_attention", "revoked"}
      /\ rewardLink.health \in {"healthy", "degraded", "needs_attention", "disabled"}
      /\ rewardLink.failures \in 0..Failures
      /\ rewardLink = [status |-> rewardLink.status, health |-> rewardLink.health,
                       failures |-> rewardLink.failures]
  BY DEF LinkInv, LinksOf
<1>2. Failures \in Nat /\ Cardinality(recorded) \in Nat
  BY Bounds, FS_CardinalityType DEF FailureInv
<1>3. total \in Nat
  BY <1>1, <1>2
<1>4. (IF total > Failures THEN Failures ELSE total) \in 0..Failures
  BY <1>2, <1>3
<1>5. \/ Rewards!Accounted = rewardLink
      \/ Rewards!Accounted =
           [status |-> rewardLink.status,
            health |-> IF rewardLink.health = "disabled" \/ total >= Failures THEN "disabled"
                       ELSE IF rewardLink.health = "needs_attention" THEN rewardLink.health
                       ELSE "degraded",
            failures |-> IF total > Failures THEN Failures ELSE total]
  BY <1>1, SameCardinality DEF Rewards!Accounted
<1> HIDE DEF total
<1> QED
  BY <1>1, <1>4, <1>5 DEF LinksOf

LEMMA CountedSound ==
  ASSUME FailureInv, Rewards!CountRecorded,
         \A j \in Rewards!Jobs : job'[j].status = "failed" <=> job[j].status = "failed"
  PROVE  FailureInv'
<1>1. /\ recorded' = {}
      /\ counted' = [j \in Rewards!Jobs |-> IF j \in recorded THEN counted[j] + 1 ELSE counted[j]]
  BY DEF Rewards!CountRecorded
<1>2. \A j \in Rewards!Jobs : counted[j] \in Nat /\ Tally(job, recorded, counted, j)
  BY DEF FailureInv
<1>3. counted' \in [Rewards!Jobs -> Nat]
  BY <1>1, <1>2
<1>4. \A j \in Rewards!Jobs : Tally(job, recorded, counted, j)'
  BY <1>1, <1>2 DEF Tally
<1> QED
  BY <1>1, <1>3, <1>4, FS_EmptySet DEF FailureInv

(* A job that ends is recorded if it failed. *)
LEMMA EndedSound ==
  ASSUME FailureInv, NEW j \in Rewards!Jobs, job[j].status # "failed",
         \A i \in Rewards!Jobs : i # j => job'[i].status = job[i].status,
         recorded' = IF job'[j].status = "failed" THEN recorded \cup {j} ELSE recorded,
         UNCHANGED counted
  PROVE  FailureInv'
<1>1. \A i \in Rewards!Jobs : counted[i] \in Nat /\ Tally(job, recorded, counted, i)
  BY DEF FailureInv
<1>2. j \notin recorded /\ counted[j] = 0
  BY <1>1 DEF Tally
<1>3. \A i \in Rewards!Jobs : Tally(job, recorded, counted, i)'
  BY <1>1, <1>2 DEF Tally
<1>4. IsFiniteSet(recorded')
  BY FS_AddElement DEF FailureInv
<1> QED
  BY <1>3, <1>4 DEF FailureInv

(* What does not depend on who moves: no job is forgotten, a revoked link   *)
(* stays revoked and the receiver's state is left alone.                    *)
LEMMA StillSound ==
  ASSUME RewardInv, Keeps, Stays, UNCHANGED <<inbox, rewards>>
  PROVE  /\ InboxInv'
         /\ \A e \in RewardEvents : Arrived(e) => Arrived(e)'
         /\ \A w \in RewardWorkers : rewardCall'[w] = rewardCall[w] => CallSound(w)'
<1>1. \A e \in RewardEvents : <<e, "replay">> \in Rewards!Jobs /\ <<e, "live">> \in Rewards!Jobs
  BY DEF Rewards!Jobs
<1>2. InboxInv'
  BY <1>1 DEF RewardInv, InboxInv, Keeps
<1>3. \A e \in RewardEvents : Arrived(e) => Arrived(e)'
  BY <1>1 DEF Arrived, Keeps
<1>4. ASSUME NEW w \in RewardWorkers, rewardCall'[w] = rewardCall[w] PROVE CallSound(w)'
  <2>1. CallSound(w)
    BY DEF RewardInv, CallInv
  <2>2. rewardCall[w].at # "idle" => rewardCall[w].job \in Rewards!Jobs
    BY DEF RewardInv, CallInv, CallsOf
  <2> QED
    BY <1>3, <1>4, <2>1, <2>2 DEF CallSound, Keeps, Stays
<1> QED
  BY <1>2, <1>3, <1>4

(* The link alone changes, and what was recorded is counted. *)
LEMMA LinkSound ==
  ASSUME RewardInv, Rewards!CountRecorded, Stays, UNCHANGED <<job, inbox, rewards>>,
         rewardLink' \in LinksOf(Failures)
  PROVE  /\ JobInv' /\ LinkInv' /\ FailureInv' /\ InboxInv' /\ DoneInv'
         /\ \A w \in RewardWorkers : rewardCall'[w] = rewardCall[w] => CallSound(w)'
<1>1. Keeps
  BY DEF Keeps
<1>2. FailureInv'
  BY CountedSound DEF RewardInv
<1>3. DoneInv'
  BY <1>1, StillSound DEF RewardInv, DoneInv, Stays
<1> QED
  BY <1>1, <1>2, <1>3, StillSound DEF RewardInv, JobInv, LinkInv

LEMMA EnqueueSound ==
  ASSUME RewardInv, NEW js, Rewards!Enqueue(js), rewardLink' = Rewards!Accounted,
         Rewards!CountRecorded, UNCHANGED <<rewardCall, inbox, rewards>>
  PROVE  RewardInv'
<1>1. Rewards!Accounted \in LinksOf(Failures) /\ Rewards!Accounted.status = rewardLink.status
  BY AccountedSound DEF RewardInv
<1>2. \A j \in Rewards!Jobs :
        \/ job'[j] = job[j]
        \/ /\ job[j].status = "none" /\ job[j].attempts = 0
           /\ job'[j] = [status |-> "pending", worker |-> Nobody, attempts |-> 0]
  BY DEF RewardInv, JobInv, Rewards!Enqueue, Rewards!NoJob
<1>3. job' = [j \in Rewards!Jobs |-> job'[j]]
  BY DEF Rewards!Enqueue
<1>4. JobInv'
  <2>1. \A j \in Rewards!Jobs : job'[j] \in JobsOf(RewardWorkers, MaxAttempts)
    BY <1>2, Bounds DEF RewardInv, JobInv, JobsOf
  <2> QED
    BY <1>2, <1>3, <2>1, Bounds DEF RewardInv, JobInv
<1>5. Keeps /\ Stays
  BY <1>1, <1>2 DEF Keeps, Stays
<1>6. FailureInv'
  BY <1>2, CountedSound DEF RewardInv
<1>7. DoneInv'
  <2>1. \A e \in RewardEvents : <<e, "live">> \in Rewards!Jobs
    BY DEF Rewards!Jobs
  <2> QED
    BY <1>1, <1>2, <1>5, <2>1, StillSound DEF RewardInv, DoneInv
<1>8. LinkInv' /\ InboxInv' /\ CallInv'
  BY <1>1, <1>5, StillSound DEF RewardInv, LinkInv, CallInv
<1> QED
  BY <1>4, <1>6, <1>7, <1>8 DEF RewardInv

(* One worker's call changes, to a sound one. *)
LEMMA CallsSound ==
  ASSUME RewardInv, NEW w \in RewardWorkers, NEW c \in CallsOf(Rewards!Jobs),
         rewardCall' = [rewardCall EXCEPT ![w] = c], c.at # "idle" => CallSound(w)',
         \A v \in RewardWorkers : rewardCall'[v] = rewardCall[v] => CallSound(v)'
  PROVE  CallInv'
<1>1. \A v \in RewardWorkers : rewardCall'[v] = IF v = w THEN c ELSE rewardCall[v]
  BY DEF RewardInv, CallInv
<1>2. rewardCall' \in [RewardWorkers -> CallsOf(Rewards!Jobs)]
  BY DEF RewardInv, CallInv
<1>3. CallSound(w)'
  BY <1>1 DEF CallSound
<1> QED
  BY <1>1, <1>2, <1>3 DEF CallInv

LEMMA IdleCall == Rewards!Idle \in CallsOf(Rewards!Jobs) /\ Rewards!Idle.at = "idle"
BY DEF CallsOf, Rewards!Idle

LEMMA ClaimSound ==
  ASSUME RewardInv, NEW w \in RewardWorkers, NEW j \in Rewards!Jobs, Rewards!Claim(w, j)
  PROVE  RewardInv'
<1>1. /\ rewardCall[w] = Rewards!Idle /\ job[j].status = "pending"
      /\ job' = [job EXCEPT ![j] = [status |-> "running", worker |-> w,
                                    attempts |-> job[j].attempts + 1]]
      /\ rewardCall' = [rewardCall EXCEPT ![w] = [at |-> "read", job |-> j, action |-> "none"]]
      /\ UNCHANGED <<rewardLink, recorded, counted, inbox, rewards>>
  BY DEF Rewards!Claim
<1>2. job \in [Rewards!Jobs -> JobsOf(RewardWorkers, MaxAttempts)]
  BY DEF RewardInv, JobInv
<1>3. job[j].attempts + 1 \in 0..MaxAttempts
  <2>1. job[j].attempts \in 0..MaxAttempts /\ job[j].attempts < MaxAttempts
    BY <1>1, <1>2 DEF RewardInv, JobInv, JobsOf
  <2> QED
    BY <2>1, Bounds
<1>4. \A i \in Rewards!Jobs :
        job'[i] = IF i = j THEN [status |-> "running", worker |-> w,
                                 attempts |-> job[j].attempts + 1] ELSE job[i]
  BY <1>1, <1>2
<1>5. JobInv'
  <2>1. job' \in [Rewards!Jobs -> JobsOf(RewardWorkers, MaxAttempts)]
    BY <1>1, <1>2, <1>3 DEF JobsOf
  <2> QED
    BY <1>4, <2>1 DEF RewardInv, JobInv
<1>6. Keeps /\ Stays
  BY <1>1, <1>4 DEF Keeps, Stays
<1>7. LinkInv'
  BY <1>1 DEF RewardInv, LinkInv
<1>8. FailureInv'
  <2>1. \A i \in Rewards!Jobs : Tally(job, recorded, counted, i)'
    BY <1>1, <1>4 DEF RewardInv, FailureInv, Tally
  <2> QED
    BY <1>1, <2>1 DEF RewardInv, FailureInv
<1>9. InboxInv' /\ DoneInv'
  <2>1. \A e \in RewardEvents : <<e, "live">> \in Rewards!Jobs
    BY DEF Rewards!Jobs
  <2> QED
    BY <1>1, <1>4, <1>6, <2>1, StillSound DEF RewardInv, DoneInv
<1>10. CallInv'
  <2>1. rewardCall' \in [RewardWorkers -> CallsOf(Rewards!Jobs)]
    BY <1>1 DEF RewardInv, CallInv, CallsOf
  <2>2. CallSound(w)'
    BY <1>1, <1>4 DEF CallSound, RewardInv, CallInv
  <2>3. \A v \in RewardWorkers : v # w => rewardCall'[v] = rewardCall[v]
    BY <1>1 DEF RewardInv, CallInv
  <2> QED
    BY <1>1, <1>6, <2>1, <2>2, <2>3, StillSound DEF CallInv
<1> QED
  BY <1>5, <1>7, <1>8, <1>9, <1>10 DEF RewardInv

LEMMA ReadSound ==
  ASSUME RewardInv, NEW w \in RewardWorkers, Rewards!Read(w) PROVE RewardInv'
<1>1. /\ rewardCall[w].at = "read" /\ rewardLink' = Rewards!Accounted
      /\ Rewards!CountRecorded /\ UNCHANGED <<job, inbox, rewards>>
      /\ rewardCall' = [rewardCall EXCEPT ![w] =
           IF Rewards!Preflight(Rewards!Accounted) = "send"
           THEN [rewardCall[w] EXCEPT !.at = "send"]
           ELSE [rewardCall[w] EXCEPT !.at = "settle",
                                      !.action = Rewards!Preflight(Rewards!Accounted)]]
  BY DEF Rewards!Read
<1>2. Rewards!Accounted \in LinksOf(Failures) /\ Rewards!Accounted.status = rewardLink.status
  BY AccountedSound DEF RewardInv
<1>3. /\ Rewards!Preflight(rewardLink') \in {"finished", "permanent", "send"}
      /\ Rewards!Preflight(rewardLink') = "finished" => rewardLink'.status = "revoked"
  BY DEF Rewards!Preflight
<1>4. Stays
  BY <1>1, <1>2 DEF Stays
<1>5. /\ JobInv' /\ LinkInv' /\ FailureInv' /\ InboxInv' /\ DoneInv'
      /\ \A v \in RewardWorkers : rewardCall'[v] = rewardCall[v] => CallSound(v)'
  BY <1>1, <1>2, <1>4, LinkSound
<1>6. rewardCall[w].at # "idle" /\ rewardCall[w] \in CallsOf(Rewards!Jobs)
  BY <1>1 DEF RewardInv, CallInv
<1>7. \/ rewardCall'[w] = [rewardCall[w] EXCEPT !.at = "send"]
      \/ /\ rewardCall'[w] = [rewardCall[w] EXCEPT !.at = "settle",
                                !.action = Rewards!Preflight(rewardLink')]
         /\ Rewards!Preflight(rewardLink') # "send"
  BY <1>1 DEF RewardInv, CallInv
<1>8. /\ rewardCall'[w] \in CallsOf(Rewards!Jobs)
      /\ rewardCall'[w].job = rewardCall[w].job /\ rewardCall'[w].at \in {"send", "settle"}
      /\ rewardCall'[w].at = "settle" => /\ rewardCall'[w].action = Rewards!Preflight(rewardLink')
                                         /\ rewardCall'[w].action # "send"
  BY <1>3, <1>6, <1>7 DEF CallsOf
<1>9. CallSound(w)'
  BY <1>1, <1>3, <1>6, <1>8 DEF RewardInv, CallInv, CallSound
<1>10. CallInv'
  <2>1. rewardCall' = [rewardCall EXCEPT ![w] = rewardCall'[w]]
    BY <1>1 DEF RewardInv, CallInv
  <2>2. PICK c : c = rewardCall'[w]
    OBVIOUS
  <2> QED
    BY <1>5, <1>8, <1>9, <2>1, <2>2, CallsSound
<1> QED
  BY <1>5, <1>10 DEF RewardInv

(* What arrives first decides: a live event is rewarded, a replayed one not.*)
LEMMA SendSound ==
  ASSUME RewardInv, NEW w \in RewardWorkers, Rewards!Send(w) PROVE RewardInv'
<1> DEFINE e == rewardCall[w].job[1]
           kind == rewardCall[w].job[2]
<1>1. /\ rewardCall[w].at = "send" /\ UNCHANGED <<rewardLink, job, recorded, counted>>
  BY DEF Rewards!Send
<1>2. PICK action \in {"delivered", "retry", "unauthorized", "revoked", "rejected"} :
        /\ rewardCall' = [rewardCall EXCEPT ![w].at = "record", ![w].action = action]
        /\ \/ action \in {"delivered", "retry"} /\ Rewards!Ingest(e, kind)
           \/ action # "delivered" /\ UNCHANGED <<inbox, rewards>>
  BY DEF Rewards!Send
<1>3. /\ rewardCall[w] \in CallsOf(Rewards!Jobs) /\ CallSound(w)
      /\ rewardCall[w].job \in Rewards!Jobs
  BY <1>1 DEF RewardInv, CallInv, CallsOf
<1>4. /\ e \in RewardEvents /\ kind \in {"live", "replay"} /\ rewardCall[w].job = <<e, kind>>
      /\ job[<<e, kind>>].status # "none"
  BY <1>1, <1>3 DEF Rewards!Jobs, CallSound
<1>5. PICK c : c = [rewardCall[w] EXCEPT !.at = "record", !.action = action]
  OBVIOUS
<1>6. /\ c \in CallsOf(Rewards!Jobs) /\ c.at = "record" /\ c.action = action
      /\ c.job = rewardCall[w].job /\ rewardCall' = [rewardCall EXCEPT ![w] = c]
      /\ rewardCall'[w] = c
  <2>1. c \in CallsOf(Rewards!Jobs) /\ c.at = "record" /\ c.action = action
        /\ c.job = rewardCall[w].job
    BY <1>1, <1>3, <1>5 DEF CallsOf
  <2>2. rewardCall' = [rewardCall EXCEPT ![w] = c]
    BY <1>2, <1>5 DEF RewardInv, CallInv
  <2> QED
    BY <2>1, <2>2 DEF RewardInv, CallInv
<1>7. \A d \in RewardEvents :
        /\ inbox[d] \in {"none", "granted", "no_rule"} /\ rewards[d] \in Nat
        /\ rewards[d] = IF inbox[d] = "granted" THEN 1 ELSE 0
        /\ inbox[d] = "no_rule" => job[<<d, "replay">>].status # "none"
  BY DEF RewardInv, InboxInv
<1>8. /\ inbox' \in [RewardEvents -> {"none", "granted", "no_rule"}]
      /\ rewards' \in [RewardEvents -> Nat]
      /\ \A d \in RewardEvents :
           \/ inbox'[d] = inbox[d] /\ rewards'[d] = rewards[d]
           \/ /\ inbox[d] = "none" /\ d = e /\ kind = "live"
              /\ inbox'[d] = "granted" /\ rewards'[d] = 1
           \/ /\ inbox[d] = "none" /\ d = e /\ kind = "replay"
              /\ inbox'[d] = "no_rule" /\ rewards'[d] = 0
      /\ action = "delivered" => inbox'[e] # "none"
  <2>1. CASE UNCHANGED <<inbox, rewards>> /\ (action = "delivered" => inbox[e] # "none")
    BY <2>1 DEF RewardInv, InboxInv
  <2>2. CASE /\ inbox[e] = "none"
             /\ inbox' = [inbox EXCEPT ![e] = IF kind = "live" THEN "granted" ELSE "no_rule"]
             /\ rewards' = [rewards EXCEPT ![e] = IF kind = "live" THEN rewards[e] + 1
                                                  ELSE rewards[e]]
    <3> HIDE DEF e, kind
    <3>1. rewards[e] = 0
      BY <1>4, <1>7, <2>2
    <3> QED
      BY <1>4, <1>7, <2>2, <3>1 DEF RewardInv, InboxInv
  <2> QED
    BY <1>2, <2>1, <2>2 DEF Rewards!Ingest
<1> HIDE DEF e, kind
<1>9. \A d \in RewardEvents :
        /\ rewards'[d] = IF inbox'[d] = "granted" THEN 1 ELSE 0
        /\ inbox'[d] = "no_rule" => job'[<<d, "replay">>].status # "none"
  BY <1>1, <1>4, <1>7, <1>8
<1>10. InboxInv'
  BY <1>8, <1>9 DEF InboxInv
<1>11. \A d \in RewardEvents : Arrived(d) => Arrived(d)'
  BY <1>1, <1>7, <1>8 DEF Arrived
<1>12. DoneInv'
  BY <1>1, <1>11 DEF RewardInv, DoneInv
<1>13. JobInv' /\ LinkInv' /\ FailureInv'
  BY <1>1 DEF RewardInv, JobInv, LinkInv, FailureInv, Tally
<1>14. CallInv'
  <2>1. CallSound(w)'
    <3>1. ASSUME action = "delivered", NEW d \in RewardEvents, c.job = <<d, "live">>
          PROVE  Arrived(d)'
      <4>1. d = e /\ inbox'[e] # "none"
        BY <1>4, <1>6, <1>8, <3>1
      <4> QED
        BY <1>8, <1>9, <4>1 DEF Arrived
    <3> QED
      BY <1>1, <1>4, <1>6, <3>1 DEF CallSound
  <2>2. ASSUME NEW v \in RewardWorkers, rewardCall'[v] = rewardCall[v] PROVE CallSound(v)'
    BY <1>1, <1>11, <2>2 DEF RewardInv, CallInv, CallSound
  <2> QED
    BY <1>6, <2>1, <2>2, CallsSound
<1> QED
  BY <1>10, <1>12, <1>13, <1>14 DEF RewardInv

(* A running job leaves its worker. *)
LEMMA JobEnds ==
  ASSUME RewardInv, NEW j \in Rewards!Jobs, job[j].status = "running",
         NEW s \in {"succeeded", "failed", "pending"},
         s = "pending" => job[j].attempts < MaxAttempts,
         job' = [job EXCEPT ![j].status = s, ![j].worker = Nobody]
  PROVE  /\ JobInv' /\ Keeps /\ job'[j].status = s
         /\ \A i \in Rewards!Jobs : i # j => job'[i] = job[i]
<1>1. job \in [Rewards!Jobs -> JobsOf(RewardWorkers, MaxAttempts)]
  BY DEF RewardInv, JobInv
<1>2. job[j] \in JobsOf(RewardWorkers, MaxAttempts)
  BY <1>1
<1>3. PICK d : d = [job[j] EXCEPT !.status = s, !.worker = Nobody]
  OBVIOUS
<1>4. /\ d \in JobsOf(RewardWorkers, MaxAttempts) /\ d.status = s /\ d.attempts = job[j].attempts
  BY <1>2, <1>3 DEF JobsOf
<1>5. job' = [job EXCEPT ![j] = d]
  BY <1>1, <1>3
<1>6. \A i \in Rewards!Jobs : job'[i] = IF i = j THEN d ELSE job[i]
  BY <1>1, <1>5
<1>7. job' \in [Rewards!Jobs -> JobsOf(RewardWorkers, MaxAttempts)]
  BY <1>1, <1>4, <1>5
<1>8. JobInv'
  BY <1>4, <1>6, <1>7 DEF RewardInv, JobInv
<1> QED
  BY <1>4, <1>6, <1>8 DEF Keeps

LEMMA TryAgainSound ==
  ASSUME RewardInv, NEW j \in Rewards!Jobs
  PROVE  /\ Rewards!TryAgain(j) \in {"pending", "failed"}
         /\ Rewards!TryAgain(j) = "pending" => job[j].attempts < MaxAttempts
BY DEF Rewards!TryAgain

(* A job that is given up or tried again, its call over or not. *)
LEMMA SettledSound ==
  ASSUME RewardInv, NEW j \in Rewards!Jobs, job[j].status = "running",
         NEW s \in {"succeeded", "failed", "pending"},
         s = "pending" => job[j].attempts < MaxAttempts,
         s = "succeeded" => rewardLink.status = "revoked",
         job' = [job EXCEPT ![j].status = s, ![j].worker = Nobody],
         recorded' = IF s = "failed" THEN recorded \cup {j} ELSE recorded,
         UNCHANGED <<rewardLink, counted, inbox, rewards>>
  PROVE  /\ JobInv' /\ LinkInv' /\ FailureInv' /\ InboxInv' /\ DoneInv'
         /\ \A w \in RewardWorkers : rewardCall'[w] = rewardCall[w] => CallSound(w)'
<1>1. /\ JobInv' /\ Keeps /\ job'[j].status = s
      /\ \A i \in Rewards!Jobs : i # j => job'[i] = job[i]
  BY JobEnds
<1>2. Stays /\ LinkInv'
  BY DEF Stays, RewardInv, LinkInv
<1>3. FailureInv'
  BY <1>1, EndedSound DEF RewardInv
<1>4. DoneInv'
  <2>1. \A e \in RewardEvents : <<e, "live">> \in Rewards!Jobs
    BY DEF Rewards!Jobs
  <2>2. \A e \in RewardEvents :
          job'[<<e, "live">>].status = "succeeded" =>
            job[<<e, "live">>].status = "succeeded" \/ rewardLink.status = "revoked"
    BY <1>1, <2>1
  <2> QED
    BY <1>1, <1>2, <2>2, StillSound DEF RewardInv, DoneInv
<1> QED
  BY <1>1, <1>2, <1>3, <1>4, StillSound

LEMMA HeldJob ==
  ASSUME RewardInv, NEW w \in RewardWorkers, rewardCall[w].at # "idle"
  PROVE  /\ rewardCall[w] \in CallsOf(Rewards!Jobs) /\ CallSound(w)
         /\ rewardCall[w].job \in Rewards!Jobs
         /\ Rewards!HoldsLease(w) => job[rewardCall[w].job].status = "running"
BY DEF RewardInv, CallInv, CallsOf, Rewards!HoldsLease

LEMMA SettleSound ==
  ASSUME RewardInv, NEW w \in RewardWorkers, Rewards!Settle(w) PROVE RewardInv'
<1>1. /\ rewardCall[w].at = "settle" /\ rewardCall' = [rewardCall EXCEPT ![w] = Rewards!Idle]
      /\ UNCHANGED <<rewardLink, counted, inbox, rewards>>
  BY DEF Rewards!Settle
<1>2. PICK j : j = rewardCall[w].job
  OBVIOUS
<1>3. /\ j \in Rewards!Jobs /\ CallSound(w)
      /\ Rewards!HoldsLease(w) => job[j].status = "running"
  BY <1>1, <1>2, HeldJob
<1>4. /\ JobInv' /\ LinkInv' /\ FailureInv' /\ InboxInv' /\ DoneInv'
      /\ \A v \in RewardWorkers : rewardCall'[v] = rewardCall[v] => CallSound(v)'
  <2>1. CASE Rewards!HoldsLease(w)
    <3>1. PICK s : s = CASE rewardCall[w].action = "finished" -> "succeeded"
                         [] rewardCall[w].action = "permanent" -> "failed"
                         [] OTHER -> Rewards!TryAgain(j)
      OBVIOUS
    <3>2. /\ job' = [job EXCEPT ![j].status = s, ![j].worker = Nobody]
          /\ recorded' = IF s = "failed" THEN recorded \cup {j} ELSE recorded
      BY <1>2, <2>1, <3>1 DEF Rewards!Settle, Rewards!EndJob
    <3>3. /\ s \in {"succeeded", "failed", "pending"}
          /\ s = "pending" => job[j].attempts < MaxAttempts
          /\ s = "succeeded" => rewardLink.status = "revoked"
      BY <1>1, <1>3, <3>1, TryAgainSound DEF CallSound
    <3> QED
      BY <1>1, <1>3, <2>1, <3>2, <3>3, SettledSound
  <2>2. CASE ~Rewards!HoldsLease(w)
    <3>1. UNCHANGED <<job, recorded>>
      BY <2>2 DEF Rewards!Settle
    <3>2. Keeps /\ Stays
      BY <1>1, <3>1 DEF Keeps, Stays
    <3>3. JobInv' /\ LinkInv' /\ FailureInv'
      BY <1>1, <3>1 DEF RewardInv, JobInv, LinkInv, FailureInv, Tally
    <3>4. DoneInv'
      BY <1>1, <3>1, <3>2, StillSound DEF RewardInv, DoneInv
    <3> QED
      BY <1>1, <3>2, <3>3, <3>4, StillSound
  <2> QED
    BY <2>1, <2>2
<1>5. CallInv'
  BY <1>1, <1>4, IdleCall, CallsSound
<1> QED
  BY <1>4, <1>5 DEF RewardInv

LEMMA ExpireSound ==
  ASSUME RewardInv, NEW j \in Rewards!Jobs, Rewards!LeaseExpires(j) PROVE RewardInv'
<1>1. PICK s : s = Rewards!TryAgain(j)
  OBVIOUS
<1>2. /\ job[j].status = "running" /\ UNCHANGED <<rewardLink, counted, rewardCall, inbox, rewards>>
      /\ job' = [job EXCEPT ![j].status = s, ![j].worker = Nobody]
      /\ recorded' = IF s = "failed" THEN recorded \cup {j} ELSE recorded
  BY <1>1 DEF Rewards!LeaseExpires
<1>3. /\ s \in {"pending", "failed"}
      /\ s = "pending" => job[j].attempts < MaxAttempts
  BY <1>1, TryAgainSound
<1>4. /\ JobInv' /\ LinkInv' /\ FailureInv' /\ InboxInv' /\ DoneInv'
      /\ \A v \in RewardWorkers : rewardCall'[v] = rewardCall[v] => CallSound(v)'
  BY <1>2, <1>3, SettledSound
<1> QED
  BY <1>2, <1>4 DEF RewardInv, CallInv

LEMMA DeathSound ==
  ASSUME RewardInv, NEW w \in RewardWorkers, Rewards!WorkerDies(w) PROVE RewardInv'
<1>1. /\ rewardCall' = [rewardCall EXCEPT ![w] = Rewards!Idle]
      /\ UNCHANGED <<rewardLink, job, recorded, counted, inbox, rewards>>
  BY DEF Rewards!WorkerDies
<1>2. Keeps /\ Stays
  BY <1>1 DEF Keeps, Stays
<1>3. CallInv'
  BY <1>1, <1>2, IdleCall, CallsSound, StillSound
<1>4. JobInv' /\ LinkInv' /\ FailureInv'
  BY <1>1 DEF RewardInv, JobInv, LinkInv, FailureInv, Tally
<1>5. InboxInv' /\ DoneInv'
  BY <1>1, <1>2, StillSound DEF RewardInv, DoneInv
<1> QED
  BY <1>3, <1>4, <1>5 DEF RewardInv

(* The answer changes the link: never a revoked one back. *)
LEMMA AfterDeliverySound ==
  ASSUME NEW l \in LinksOf(Failures),
         NEW action \in {"delivered", "retry", "unauthorized", "revoked", "rejected"}
  PROVE  /\ Rewards!AfterDelivery(l, action) \in LinksOf(Failures)
         /\ action = "delivered" => Rewards!AfterDelivery(l, action).status = l.status
<1>1. 0 \in 0..Failures
  BY Bounds
<1> QED
  BY <1>1 DEF LinksOf, Rewards!AfterDelivery

LEMMA RecordSound ==
  ASSUME RewardInv, NEW w \in RewardWorkers, Rewards!RecordDelivery(w) PROVE RewardInv'
<1>1. /\ rewardCall[w].at = "record" /\ rewardCall[w].action # "delivered"
      /\ Rewards!CountRecorded /\ UNCHANGED <<job, inbox, rewards>>
      /\ rewardLink' = IF Rewards!Accounted.status = "revoked" THEN Rewards!Accounted
                       ELSE Rewards!AfterDelivery(Rewards!Accounted, rewardCall[w].action)
  BY DEF Rewards!RecordDelivery
<1>2. PICK c : c = [rewardCall[w] EXCEPT !.at = "settle",
                      !.action = IF rewardCall[w].action = "retry" THEN "retry" ELSE "permanent"]
  OBVIOUS
<1>3. rewardCall[w] \in CallsOf(Rewards!Jobs) /\ CallSound(w) /\ rewardCall[w].job \in Rewards!Jobs
  BY <1>1, HeldJob
<1>4. /\ c \in CallsOf(Rewards!Jobs) /\ c.at = "settle" /\ c.action \in {"retry", "permanent"}
      /\ c.job = rewardCall[w].job
  BY <1>1, <1>2, <1>3 DEF CallsOf
<1>5. rewardCall' = [rewardCall EXCEPT ![w] = c] /\ rewardCall'[w] = c
  BY <1>2 DEF Rewards!RecordDelivery, RewardInv, CallInv
<1>6. Rewards!Accounted \in LinksOf(Failures) /\ Rewards!Accounted.status = rewardLink.status
  BY AccountedSound DEF RewardInv
<1>7. rewardLink' \in LinksOf(Failures) /\ Stays
  <2>1. rewardCall[w].action \in {"none", "finished", "permanent", "retry", "unauthorized",
                                  "revoked", "rejected"}
    BY <1>1, <1>3 DEF CallsOf
  <2>2. \A l \in LinksOf(Failures) : \A a \in {"none", "finished", "permanent"} :
          Rewards!AfterDelivery(l, a) = l
    BY DEF Rewards!AfterDelivery
  <2> QED
    BY <1>1, <1>6, <2>1, <2>2, AfterDeliverySound DEF Stays
<1>8. /\ JobInv' /\ LinkInv' /\ FailureInv' /\ InboxInv' /\ DoneInv'
      /\ \A v \in RewardWorkers : rewardCall'[v] = rewardCall[v] => CallSound(v)'
  BY <1>1, <1>7, LinkSound
<1>9. CallSound(w)'
  BY <1>1, <1>3, <1>4, <1>5 DEF CallSound
<1>10. CallInv'
  BY <1>4, <1>5, <1>8, <1>9, CallsSound
<1> QED
  BY <1>8, <1>10 DEF RewardInv

(* The link is healthy again and the job succeeded, or nothing happened. *)
LEMMA CompleteSound ==
  ASSUME RewardInv, NEW w \in RewardWorkers, Rewards!CompleteDelivery(w) PROVE RewardInv'
<1>1. /\ rewardCall[w].at = "record" /\ rewardCall[w].action = "delivered"
      /\ rewardCall' = [rewardCall EXCEPT ![w] = Rewards!Idle] /\ UNCHANGED <<inbox, rewards>>
  BY DEF Rewards!CompleteDelivery
<1>2. PICK j : j = rewardCall[w].job
  OBVIOUS
<1>3. /\ j \in Rewards!Jobs /\ CallSound(w)
      /\ Rewards!HoldsLease(w) => job[j].status = "running"
  BY <1>1, <1>2, HeldJob
<1>4. CASE ~Rewards!HoldsLease(w)
  <2>1. UNCHANGED <<rewardLink, recorded, counted, job>>
    BY <1>4 DEF Rewards!CompleteDelivery
  <2>2. Keeps /\ Stays
    BY <2>1 DEF Keeps, Stays
  <2>3. CallInv'
    BY <1>1, <2>2, IdleCall, CallsSound, StillSound
  <2>4. JobInv' /\ LinkInv' /\ FailureInv'
    BY <2>1 DEF RewardInv, JobInv, LinkInv, FailureInv, Tally
  <2>5. InboxInv' /\ DoneInv'
    BY <1>1, <2>1, <2>2, StillSound DEF RewardInv, DoneInv
  <2> QED
    BY <2>3, <2>4, <2>5 DEF RewardInv
<1>5. CASE Rewards!HoldsLease(w)
  <2>1. /\ rewardLink' = Rewards!AfterDelivery(Rewards!Accounted, "delivered")
        /\ Rewards!CountRecorded
        /\ job' = [job EXCEPT ![j].status = "succeeded", ![j].worker = Nobody]
    BY <1>2, <1>5 DEF Rewards!CompleteDelivery, Rewards!EndJob
  <2>2. /\ JobInv' /\ Keeps /\ job'[j].status = "succeeded"
        /\ \A i \in Rewards!Jobs : i # j => job'[i] = job[i]
    BY <1>3, <1>5, <2>1, JobEnds
  <2>3. rewardLink' \in LinksOf(Failures) /\ rewardLink'.status = rewardLink.status
    BY <2>1, AccountedSound, AfterDeliverySound DEF RewardInv
  <2>4. Stays /\ LinkInv'
    BY <2>3 DEF Stays, LinkInv
  <2>5. FailureInv'
    <3>1. \A i \in Rewards!Jobs : job'[i].status = "failed" <=> job[i].status = "failed"
      BY <1>3, <1>5, <2>2
    <3> QED
      BY <2>1, <3>1, CountedSound DEF RewardInv
  <2>6. DoneInv'
    <3>1. \A e \in RewardEvents : <<e, "live">> \in Rewards!Jobs
      BY DEF Rewards!Jobs
    <3>2. \A e \in RewardEvents : j = <<e, "live">> => Arrived(e)
      BY <1>1, <1>2, <1>3 DEF CallSound
    <3> QED
      BY <1>1, <2>2, <2>3, <2>4, <3>1, <3>2, StillSound DEF RewardInv, DoneInv
  <2>7. CallInv' /\ InboxInv'
    BY <1>1, <2>2, <2>4, IdleCall, CallsSound, StillSound
  <2> QED
    BY <2>2, <2>4, <2>5, <2>6, <2>7 DEF RewardInv
<1> QED
  BY <1>4, <1>5

LEMMA RewardStep == RewardInv /\ Rewards!Next => RewardInv'
<1> SUFFICES ASSUME RewardInv, Rewards!Next PROVE RewardInv'
  OBVIOUS
<1>1. ASSUME NEW e \in RewardEvents, Rewards!Emit(e) PROVE RewardInv'
  BY <1>1, EnqueueSound DEF Rewards!Emit
<1>2. CASE Rewards!Replay
  BY <1>2, EnqueueSound DEF Rewards!Replay
<1>3. CASE Rewards!Reenable \/ Rewards!Revoke \/ Rewards!Cleanup
  <2>1. Rewards!Accounted \in LinksOf(Failures) /\ Rewards!Accounted.status = rewardLink.status
    BY AccountedSound DEF RewardInv
  <2>2. 0 \in 0..Failures
    BY Bounds
  <2>3. rewardLink' \in LinksOf(Failures) /\ Stays
    BY <1>3, <2>1, <2>2 DEF Rewards!Reenable, Rewards!Revoke, Rewards!Cleanup, LinksOf, Stays
  <2>4. Rewards!CountRecorded /\ UNCHANGED <<job, rewardCall, inbox, rewards>>
    BY <1>3 DEF Rewards!Reenable, Rewards!Revoke, Rewards!Cleanup
  <2> QED
    BY <2>3, <2>4, LinkSound DEF RewardInv, CallInv
<1>4. ASSUME NEW j \in Rewards!Jobs,
             Rewards!LeaseExpires(j) \/ \E w \in RewardWorkers : Rewards!Claim(w, j)
      PROVE  RewardInv'
  BY <1>4, ExpireSound, ClaimSound
<1>5. ASSUME NEW w \in RewardWorkers,
             \/ Rewards!Read(w) \/ Rewards!Send(w) \/ Rewards!CompleteDelivery(w)
             \/ Rewards!RecordDelivery(w) \/ Rewards!Settle(w) \/ Rewards!WorkerDies(w)
      PROVE  RewardInv'
  BY <1>5, ReadSound, SendSound, CompleteSound, RecordSound, SettleSound, DeathSound
<1> QED
  BY <1>1, <1>2, <1>3, <1>4, <1>5 DEF Rewards!Next

LEMMA RewardStart == Rewards!Init => RewardInv
<1> SUFFICES ASSUME Rewards!Init PROVE RewardInv
  OBVIOUS
<1>1. /\ rewardLink = [status |-> "active", health |-> "healthy", failures |-> 0]
      /\ job = [j \in Rewards!Jobs |-> [status |-> "none", worker |-> Nobody, attempts |-> 0]]
      /\ recorded = {} /\ counted = [j \in Rewards!Jobs |-> 0]
      /\ rewardCall = [w \in RewardWorkers |-> Rewards!Idle]
      /\ inbox = [e \in RewardEvents |-> "none"] /\ rewards = [e \in RewardEvents |-> 0]
  BY DEF Rewards!Init, Rewards!NoJob
<1>2. JobInv /\ LinkInv
  BY <1>1, Bounds DEF JobInv, JobsOf, LinkInv, LinksOf
<1>3. FailureInv
  BY <1>1, FS_EmptySet DEF FailureInv, Tally
<1>4. InboxInv /\ CallInv
  BY <1>1, IdleCall DEF InboxInv, CallInv, CallSound
<1>5. DoneInv
  <2>1. \A e \in RewardEvents : <<e, "live">> \in Rewards!Jobs
    BY DEF Rewards!Jobs
  <2> QED
    BY <1>1, <2>1 DEF DoneInv
<1> QED
  BY <1>2, <1>3, <1>4, <1>5 DEF RewardInv

LEMMA RewardPromise ==
  RewardInv => /\ Rewards!TypeOK /\ Rewards!FailureCountedOnce /\ Rewards!RewardedOnce
               /\ Rewards!DeliveredIsRewarded
<1> SUFFICES ASSUME RewardInv
             PROVE  /\ Rewards!TypeOK /\ Rewards!FailureCountedOnce /\ Rewards!RewardedOnce
                    /\ Rewards!DeliveredIsRewarded
  OBVIOUS
<1>1. Rewards!TypeOK
  BY DEF Rewards!TypeOK, RewardInv, JobInv, LinkInv, FailureInv, InboxInv, JobsOf, LinksOf
<1>2. Rewards!FailureCountedOnce
  BY DEF Rewards!FailureCountedOnce, RewardInv, FailureInv, Tally
<1>3. Rewards!RewardedOnce
  <2>1. \A e \in RewardEvents : rewards[e] = IF inbox[e] = "granted" THEN 1 ELSE 0
    BY DEF RewardInv, InboxInv
  <2>2. \A e \in RewardEvents : rewards[e] <= 1
    BY <2>1
  <2> QED
    BY <2>2 DEF Rewards!RewardedOnce
<1>4. Rewards!DeliveredIsRewarded
  BY DEF Rewards!DeliveredIsRewarded, RewardInv, DoneInv, Arrived
<1> QED
  BY <1>1, <1>2, <1>3, <1>4

-----------------------------------------------------------------------------
(* The circuit: one worker, two failures, and what lies behind an enqueue.  *)
CircuitInv ==
  /\ job \in [RewardsCircuit!Jobs ->
                [status : {"none", "pending", "running", "succeeded", "failed"},
                 worker : {w1, Nobody}, attempts : Nat]]
  /\ rewardLink \in LinksOf(2)
  /\ rewardCall \in [{w1} -> CallsOf(RewardsCircuit!Jobs)]
  /\ recorded \subseteq RewardsCircuit!Jobs /\ IsFiniteSet(recorded)
  /\ counted \in [RewardsCircuit!Jobs -> Nat]
  /\ \A j \in RewardsCircuit!Jobs : Tally(job, recorded, counted, j)

Opens == \E j \in RewardsCircuit!Jobs : job[j].status = "none" /\ job'[j].status = "pending"

LEMMA CircuitAccounted ==
  ASSUME CircuitInv
  PROVE  /\ RewardsCircuit!Accounted \in LinksOf(2)
         /\ RewardsCircuit!CanEnqueue(RewardsCircuit!Accounted) =>
              rewardLink.failures + RewardsCircuit!Cardinality(recorded) < 2
<1> DEFINE total == rewardLink.failures + RewardsCircuit!Cardinality(recorded)
<1>1. /\ rewardLink.status \in {"active", "needs_attention", "revoked"}
      /\ rewardLink.health \in {"healthy", "degraded", "needs_attention", "disabled"}
      /\ rewardLink.failures \in 0..2
      /\ rewardLink = [status |-> rewardLink.status, health |-> rewardLink.health,
                       failures |-> rewardLink.failures]
  BY DEF CircuitInv, LinksOf
<1>2. RewardsCircuit!Cardinality(recorded) = Cardinality(recorded)
  BY DEF RewardsCircuit!Cardinality, Cardinality
<1>3. /\ Cardinality(recorded) \in Nat
      /\ recorded = {} => Cardinality(recorded) = 0
  BY FS_CardinalityType, FS_EmptySet DEF CircuitInv
<1>4. total \in Nat /\ (recorded = {} => total = rewardLink.failures)
  BY <1>1, <1>2, <1>3
<1>5. (IF total > 2 THEN 2 ELSE total) \in 0..2
  BY <1>4
<1>6. \/ RewardsCircuit!Accounted = rewardLink /\ (rewardLink.status = "revoked" \/ recorded = {})
      \/ RewardsCircuit!Accounted =
           [status |-> rewardLink.status,
            health |-> IF rewardLink.health = "disabled" \/ total >= 2 THEN "disabled"
                       ELSE IF rewardLink.health = "needs_attention" THEN rewardLink.health
                       ELSE "degraded",
            failures |-> IF total > 2 THEN 2 ELSE total]
  BY <1>1 DEF RewardsCircuit!Accounted
<1> HIDE DEF total
<1>7. RewardsCircuit!Accounted \in LinksOf(2)
  BY <1>1, <1>5, <1>6 DEF LinksOf
<1>8. RewardsCircuit!CanEnqueue(RewardsCircuit!Accounted) => total < 2
  BY <1>4, <1>6 DEF RewardsCircuit!CanEnqueue
<1> QED
  BY <1>7, <1>8 DEF total

(* What was recorded is counted, and no job fails. *)
LEMMA CircuitCounted ==
  ASSUME CircuitInv, RewardsCircuit!CountRecorded, rewardLink' \in LinksOf(2),
         job' \in [RewardsCircuit!Jobs ->
                     [status : {"none", "pending", "running", "succeeded", "failed"},
                      worker : {w1, Nobody}, attempts : Nat]],
         \A j \in RewardsCircuit!Jobs : job'[j].status = "failed" <=> job[j].status = "failed",
         rewardCall' \in [{w1} -> CallsOf(RewardsCircuit!Jobs)]
  PROVE  CircuitInv'
<1>1. /\ recorded' = {}
      /\ counted' = [j \in RewardsCircuit!Jobs |->
                       IF j \in recorded THEN counted[j] + 1 ELSE counted[j]]
  BY DEF RewardsCircuit!CountRecorded
<1>2. \A j \in RewardsCircuit!Jobs : counted[j] \in Nat /\ Tally(job, recorded, counted, j)
  BY DEF CircuitInv
<1>3. counted' \in [RewardsCircuit!Jobs -> Nat]
  BY <1>1, <1>2
<1>4. \A j \in RewardsCircuit!Jobs : Tally(job, recorded, counted, j)'
  BY <1>1, <1>2 DEF Tally
<1> QED
  BY <1>1, <1>3, <1>4, FS_EmptySet DEF CircuitInv

(* A running job leaves its worker, and is recorded if it failed. *)
LEMMA CircuitEnded ==
  ASSUME CircuitInv, NEW j \in RewardsCircuit!Jobs, job[j].status = "running",
         NEW s \in {"succeeded", "failed", "pending"},
         job' = [job EXCEPT ![j].status = s, ![j].worker = Nobody],
         recorded' = IF s = "failed" THEN recorded \cup {j} ELSE recorded,
         UNCHANGED <<rewardLink, counted>>,
         rewardCall' \in [{w1} -> CallsOf(RewardsCircuit!Jobs)]
  PROVE  CircuitInv' /\ ~Opens
<1>1. PICK d : d = [job[j] EXCEPT !.status = s, !.worker = Nobody]
  OBVIOUS
<1>2. /\ d \in [status : {"none", "pending", "running", "succeeded", "failed"},
                worker : {w1, Nobody}, attempts : Nat]
      /\ d.status = s
  BY <1>1 DEF CircuitInv
<1>3. job' = [job EXCEPT ![j] = d]
  BY <1>1 DEF CircuitInv
<1>4. /\ \A i \in RewardsCircuit!Jobs : job'[i] = IF i = j THEN d ELSE job[i]
      /\ job' \in [RewardsCircuit!Jobs ->
                     [status : {"none", "pending", "running", "succeeded", "failed"},
                      worker : {w1, Nobody}, attempts : Nat]]
  <2>1. PICK D : /\ D = [status : {"none", "pending", "running", "succeeded", "failed"},
                         worker : {w1, Nobody}, attempts : Nat]
                 /\ job \in [RewardsCircuit!Jobs -> D] /\ d \in D
    BY <1>2 DEF CircuitInv
  <2>2. /\ \A i \in RewardsCircuit!Jobs : job'[i] = IF i = j THEN d ELSE job[i]
        /\ job' \in [RewardsCircuit!Jobs -> D]
    BY <1>3, <2>1
  <2> QED
    BY <2>1, <2>2
<1>5. \A i \in RewardsCircuit!Jobs : counted[i] \in Nat /\ Tally(job, recorded, counted, i)
  BY DEF CircuitInv
<1>6. \A i \in RewardsCircuit!Jobs : Tally(job, recorded, counted, i)'
  BY <1>2, <1>4, <1>5 DEF Tally
<1>7. IsFiniteSet(recorded') /\ recorded' \subseteq RewardsCircuit!Jobs
  BY FS_AddElement DEF CircuitInv
<1>8. ~Opens
  BY <1>4 DEF Opens
<1> QED
  BY <1>4, <1>6, <1>7, <1>8 DEF CircuitInv

LEMMA CircuitEnqueues ==
  ASSUME CircuitInv, NEW js, RewardsCircuit!Enqueue(js), rewardLink' = RewardsCircuit!Accounted,
         RewardsCircuit!CountRecorded, UNCHANGED rewardCall
  PROVE  CircuitInv'
<1>1. \A j \in RewardsCircuit!Jobs :
        \/ job'[j] = job[j]
        \/ /\ job[j].status = "none"
           /\ job'[j] = [status |-> "pending", worker |-> Nobody, attempts |-> 0]
  BY DEF CircuitInv, RewardsCircuit!Enqueue, RewardsCircuit!NoJob
<1>2. job' = [j \in RewardsCircuit!Jobs |-> job'[j]]
  BY DEF RewardsCircuit!Enqueue
<1>3. job' \in [RewardsCircuit!Jobs ->
                  [status : {"none", "pending", "running", "succeeded", "failed"},
                   worker : {w1, Nobody}, attempts : Nat]]
  BY <1>1, <1>2 DEF CircuitInv
<1>4. \A j \in RewardsCircuit!Jobs : job'[j].status = "failed" <=> job[j].status = "failed"
  BY <1>1
<1> QED
  BY <1>3, <1>4, CircuitAccounted, CircuitCounted DEF CircuitInv

(* A link whose fields are changed to admissible ones. *)
LEMMA LinkChange ==
  ASSUME NEW l \in LinksOf(2)
  PROVE  /\ [l EXCEPT !.health = "healthy", !.failures = 0] \in LinksOf(2)
         /\ [l EXCEPT !.status = "needs_attention", !.health = "needs_attention"] \in LinksOf(2)
         /\ [l EXCEPT !.status = "revoked"] \in LinksOf(2)
<1>1. 0 \in 0..2
  OBVIOUS
<1> QED
  BY <1>1 DEF LinksOf

LEMMA CircuitAnswer ==
  ASSUME NEW l \in LinksOf(2), NEW action
  PROVE  RewardsCircuit!AfterDelivery(l, action) \in LinksOf(2)
<1>1. \/ RewardsCircuit!AfterDelivery(l, action) = l
      \/ RewardsCircuit!AfterDelivery(l, action) = [l EXCEPT !.health = "healthy", !.failures = 0]
      \/ RewardsCircuit!AfterDelivery(l, action) =
           [l EXCEPT !.status = "needs_attention", !.health = "needs_attention"]
      \/ RewardsCircuit!AfterDelivery(l, action) = [l EXCEPT !.status = "revoked"]
  BY DEF RewardsCircuit!AfterDelivery
<1> QED
  BY <1>1, LinkChange

LEMMA CircuitIdle == RewardsCircuit!Idle \in CallsOf(RewardsCircuit!Jobs)
BY DEF CallsOf, RewardsCircuit!Idle

LEMMA CircuitWorks ==
  ASSUME CircuitInv,
         \/ RewardsCircuit!Read(w1) \/ RewardsCircuit!Send(w1)
         \/ RewardsCircuit!CompleteDelivery(w1) \/ RewardsCircuit!RecordDelivery(w1)
         \/ RewardsCircuit!Settle(w1) \/ RewardsCircuit!WorkerDies(w1)
  PROVE  CircuitInv' /\ ~Opens
<1>1. /\ rewardCall[w1] \in CallsOf(RewardsCircuit!Jobs)
      /\ RewardsCircuit!Accounted \in LinksOf(2)
  BY CircuitAccounted DEF CircuitInv
<1>2. rewardCall[w1].at # "idle" =>
        /\ rewardCall[w1].job \in RewardsCircuit!Jobs
        /\ \A a \in {"none", "finished", "permanent", "delivered", "retry", "unauthorized",
                     "revoked", "rejected"}, p \in {"send", "record", "settle"} :
             [rewardCall[w1] EXCEPT !.at = p, !.action = a] \in CallsOf(RewardsCircuit!Jobs)
  BY <1>1 DEF CallsOf
<1>3. CASE UNCHANGED <<rewardLink, job, recorded, counted>> /\
           rewardCall' \in [{w1} -> CallsOf(RewardsCircuit!Jobs)]
  BY <1>3 DEF CircuitInv, Tally, Opens
<1>4. CASE /\ RewardsCircuit!CountRecorded /\ rewardLink' \in LinksOf(2) /\ UNCHANGED job
           /\ rewardCall' \in [{w1} -> CallsOf(RewardsCircuit!Jobs)]
  <2>1. CircuitInv'
    BY <1>4, CircuitCounted DEF CircuitInv
  <2> QED
    BY <1>4, <2>1 DEF Opens
<1>5. CASE RewardsCircuit!Read(w1)
  <2>1. PICK p : p = RewardsCircuit!Preflight(RewardsCircuit!Accounted)
    OBVIOUS
  <2>2. p \in {"finished", "permanent", "send"}
    BY <2>1 DEF RewardsCircuit!Preflight
  <2>3. /\ rewardCall[w1].at = "read"
        /\ rewardCall' = [rewardCall EXCEPT ![w1] =
             IF p = "send" THEN [rewardCall[w1] EXCEPT !.at = "send"]
             ELSE [rewardCall[w1] EXCEPT !.at = "settle", !.action = p]]
    BY <1>5, <2>1 DEF RewardsCircuit!Read
  <2>4. [rewardCall[w1] EXCEPT !.at = "send"] \in CallsOf(RewardsCircuit!Jobs)
    BY <1>1, <2>3 DEF CallsOf
  <2>5. rewardCall' \in [{w1} -> CallsOf(RewardsCircuit!Jobs)]
    BY <1>2, <2>2, <2>3, <2>4 DEF CircuitInv
  <2> QED
    BY <1>1, <1>4, <1>5, <2>5 DEF RewardsCircuit!Read
<1>6. CASE RewardsCircuit!Send(w1)
  <2>1. PICK a \in {"delivered", "retry", "unauthorized", "revoked", "rejected"} :
          rewardCall' = [rewardCall EXCEPT ![w1].at = "record", ![w1].action = a]
    BY <1>6 DEF RewardsCircuit!Send
  <2>2. rewardCall[w1].at # "idle"
    BY <1>6 DEF RewardsCircuit!Send
  <2>3. rewardCall' \in [{w1} -> CallsOf(RewardsCircuit!Jobs)]
    BY <1>2, <2>1, <2>2 DEF CircuitInv
  <2> QED
    BY <1>3, <1>6, <2>3 DEF RewardsCircuit!Send
<1>7. CASE RewardsCircuit!RecordDelivery(w1)
  <2>1. /\ rewardCall[w1].at # "idle"
        /\ rewardCall' = [rewardCall EXCEPT ![w1].at = "settle", ![w1].action =
                            IF rewardCall[w1].action = "retry" THEN "retry" ELSE "permanent"]
    BY <1>7 DEF RewardsCircuit!RecordDelivery, CircuitInv
  <2>2. rewardCall' \in [{w1} -> CallsOf(RewardsCircuit!Jobs)]
    BY <1>2, <2>1 DEF CircuitInv
  <2>3. rewardLink' \in LinksOf(2)
    BY <1>1, <1>7, CircuitAnswer DEF RewardsCircuit!RecordDelivery
  <2> QED
    BY <1>4, <1>7, <2>2, <2>3 DEF RewardsCircuit!RecordDelivery
<1>8. CASE RewardsCircuit!WorkerDies(w1)
  <2>1. rewardCall' \in [{w1} -> CallsOf(RewardsCircuit!Jobs)]
    BY <1>8, CircuitIdle DEF RewardsCircuit!WorkerDies, CircuitInv
  <2> QED
    BY <1>3, <1>8, <2>1 DEF RewardsCircuit!WorkerDies
<1>9. CASE RewardsCircuit!CompleteDelivery(w1)
  <2>1. rewardCall' \in [{w1} -> CallsOf(RewardsCircuit!Jobs)]
    BY <1>9, CircuitIdle DEF RewardsCircuit!CompleteDelivery, CircuitInv
  <2>2. CASE ~RewardsCircuit!HoldsLease(w1)
    BY <1>3, <1>9, <2>1, <2>2 DEF RewardsCircuit!CompleteDelivery
  <2>3. CASE RewardsCircuit!HoldsLease(w1)
    <3>1. PICK j : j = rewardCall[w1].job
      OBVIOUS
    <3>2. j \in RewardsCircuit!Jobs /\ job[j].status = "running"
      BY <1>2, <1>9, <2>3, <3>1
         DEF RewardsCircuit!CompleteDelivery, RewardsCircuit!HoldsLease
    <3>3. /\ RewardsCircuit!CountRecorded
          /\ job' = [job EXCEPT ![j].status = "succeeded", ![j].worker = Nobody]
          /\ rewardLink' \in LinksOf(2)
      BY <1>1, <1>9, <2>3, <3>1, CircuitAnswer
         DEF RewardsCircuit!CompleteDelivery, RewardsCircuit!EndJob
    <3>4. /\ job' \in [RewardsCircuit!Jobs ->
                         [status : {"none", "pending", "running", "succeeded", "failed"},
                          worker : {w1, Nobody}, attempts : Nat]]
          /\ \A i \in RewardsCircuit!Jobs :
               job'[i].status = IF i = j THEN "succeeded" ELSE job[i].status
      BY <3>2, <3>3 DEF CircuitInv
    <3>5. \A i \in RewardsCircuit!Jobs : job'[i].status = "failed" <=> job[i].status = "failed"
      BY <3>2, <3>4
    <3> QED
      BY <2>1, <3>2, <3>3, <3>4, <3>5, CircuitCounted DEF Opens
  <2> QED
    BY <2>2, <2>3
<1>10. CASE RewardsCircuit!Settle(w1)
  <2>1. rewardCall' \in [{w1} -> CallsOf(RewardsCircuit!Jobs)]
    BY <1>10, CircuitIdle DEF RewardsCircuit!Settle, CircuitInv
  <2>2. CASE ~RewardsCircuit!HoldsLease(w1)
    BY <1>3, <1>10, <2>1, <2>2 DEF RewardsCircuit!Settle
  <2>3. CASE RewardsCircuit!HoldsLease(w1)
    <3>1. PICK j : j = rewardCall[w1].job
      OBVIOUS
    <3>2. j \in RewardsCircuit!Jobs /\ job[j].status = "running"
      BY <1>2, <1>10, <2>3, <3>1 DEF RewardsCircuit!Settle, RewardsCircuit!HoldsLease
    <3>3. PICK s : s = CASE rewardCall[w1].action = "finished" -> "succeeded"
                         [] rewardCall[w1].action = "permanent" -> "failed"
                         [] OTHER -> RewardsCircuit!TryAgain(j)
      OBVIOUS
    <3>4. /\ job' = [job EXCEPT ![j].status = s, ![j].worker = Nobody]
          /\ recorded' = IF s = "failed" THEN recorded \cup {j} ELSE recorded
          /\ UNCHANGED <<rewardLink, counted>>
      BY <1>10, <2>3, <3>1, <3>3 DEF RewardsCircuit!Settle, RewardsCircuit!EndJob
    <3>5. s \in {"succeeded", "failed", "pending"}
      BY <3>3 DEF RewardsCircuit!TryAgain
    <3> QED
      BY <2>1, <3>2, <3>4, <3>5, CircuitEnded
  <2> QED
    BY <2>2, <2>3
<1> QED
  BY <1>5, <1>6, <1>7, <1>8, <1>9, <1>10

LEMMA CircuitStep ==
  CircuitInv /\ RewardsCircuit!Next => CircuitInv' /\ RewardsCircuit!NoEnqueueWhileOpen
<1> SUFFICES ASSUME CircuitInv, RewardsCircuit!Next
             PROVE  CircuitInv' /\ RewardsCircuit!NoEnqueueWhileOpen
  OBVIOUS
<1>1. ~Opens => RewardsCircuit!NoEnqueueWhileOpen
  BY DEF Opens, RewardsCircuit!NoEnqueueWhileOpen
<1>2. ASSUME NEW e \in {b1, b2}, RewardsCircuit!Emit(e)
      PROVE  CircuitInv' /\ RewardsCircuit!NoEnqueueWhileOpen
  BY <1>2, CircuitEnqueues, CircuitAccounted
     DEF RewardsCircuit!Emit, RewardsCircuit!NoEnqueueWhileOpen
<1>3. CASE RewardsCircuit!Replay
  BY <1>3, CircuitEnqueues, CircuitAccounted
     DEF RewardsCircuit!Replay, RewardsCircuit!NoEnqueueWhileOpen
<1>4. CASE RewardsCircuit!Reenable \/ RewardsCircuit!Revoke \/ RewardsCircuit!Cleanup
  <2>1. RewardsCircuit!Accounted \in LinksOf(2)
    BY CircuitAccounted
  <2>2. rewardLink' \in LinksOf(2)
    BY <1>4, <2>1, LinkChange
       DEF RewardsCircuit!Reenable, RewardsCircuit!Revoke, RewardsCircuit!Cleanup
  <2>3. RewardsCircuit!CountRecorded /\ UNCHANGED <<job, rewardCall>>
    BY <1>4 DEF RewardsCircuit!Reenable, RewardsCircuit!Revoke, RewardsCircuit!Cleanup
  <2>4. CircuitInv'
    BY <2>2, <2>3, CircuitCounted DEF CircuitInv
  <2> QED
    BY <1>1, <2>3, <2>4 DEF Opens
<1>5. ASSUME NEW j \in RewardsCircuit!Jobs, RewardsCircuit!LeaseExpires(j)
      PROVE  CircuitInv' /\ ~Opens
  <2>1. PICK s : s = RewardsCircuit!TryAgain(j)
    OBVIOUS
  <2>2. s \in {"pending", "failed"}
    BY <2>1 DEF RewardsCircuit!TryAgain
  <2>3. /\ job[j].status = "running" /\ UNCHANGED <<rewardLink, counted, rewardCall>>
        /\ job' = [job EXCEPT ![j].status = s, ![j].worker = Nobody]
        /\ recorded' = IF s = "failed" THEN recorded \cup {j} ELSE recorded
    BY <1>5, <2>1 DEF RewardsCircuit!LeaseExpires
  <2>4. rewardCall' \in [{w1} -> CallsOf(RewardsCircuit!Jobs)]
    BY <2>3 DEF CircuitInv
  <2> QED
    BY <2>2, <2>3, <2>4, CircuitEnded
<1>6. ASSUME NEW j \in RewardsCircuit!Jobs, RewardsCircuit!Claim(w1, j)
      PROVE  CircuitInv' /\ ~Opens
  <2>1. /\ job[j].status = "pending" /\ UNCHANGED <<rewardLink, recorded, counted>>
        /\ job' = [job EXCEPT ![j] = [status |-> "running", worker |-> w1,
                                      attempts |-> job[j].attempts + 1]]
        /\ rewardCall' = [rewardCall EXCEPT ![w1] =
                            [at |-> "read", job |-> j, action |-> "none"]]
    BY <1>6 DEF RewardsCircuit!Claim
  <2>2. /\ job' \in [RewardsCircuit!Jobs ->
                       [status : {"none", "pending", "running", "succeeded", "failed"},
                        worker : {w1, Nobody}, attempts : Nat]]
        /\ \A i \in RewardsCircuit!Jobs :
             job'[i].status = IF i = j THEN "running" ELSE job[i].status
    BY <2>1 DEF CircuitInv
  <2>3. rewardCall' \in [{w1} -> CallsOf(RewardsCircuit!Jobs)]
    BY <2>1 DEF CircuitInv, CallsOf
  <2>4. \A i \in RewardsCircuit!Jobs : Tally(job, recorded, counted, i)'
    BY <2>1, <2>2 DEF CircuitInv, Tally
  <2> QED
    BY <2>1, <2>2, <2>3, <2>4 DEF CircuitInv, Opens
<1> QED
  BY <1>1, <1>2, <1>3, <1>4, <1>5, <1>6, CircuitWorks DEF RewardsCircuit!Next

LEMMA CircuitStart == RewardsCircuit!Init => CircuitInv
<1> SUFFICES ASSUME RewardsCircuit!Init PROVE CircuitInv
  OBVIOUS
<1>1. /\ rewardLink = [status |-> "active", health |-> "healthy", failures |-> 0]
      /\ job = [j \in RewardsCircuit!Jobs |->
                  [status |-> "none", worker |-> Nobody, attempts |-> 0]]
      /\ recorded = {} /\ counted = [j \in RewardsCircuit!Jobs |-> 0]
      /\ rewardCall = [w \in {w1} |-> RewardsCircuit!Idle]
  BY DEF RewardsCircuit!Init, RewardsCircuit!NoJob
<1>2. rewardLink \in LinksOf(2) /\ rewardCall \in [{w1} -> CallsOf(RewardsCircuit!Jobs)]
  BY <1>1, CircuitIdle DEF LinksOf
<1>3. \A j \in RewardsCircuit!Jobs : Tally(job, recorded, counted, j)
  BY <1>1 DEF Tally
<1> QED
  BY <1>1, <1>2, <1>3, FS_EmptySet DEF CircuitInv

LEMMA CircuitPromise == CircuitInv => RewardsCircuit!FailureCountedOnce
BY DEF CircuitInv, RewardsCircuit!FailureCountedOnce, Tally

-----------------------------------------------------------------------------
DeliverySound ==
  /\ part = "reward" => RewardInv
  /\ part = "circuit" => CircuitInv

LEMMA DeliveryMachines ==
  /\ Init => /\ part = "reward" => Rewards!Init
             /\ part = "circuit" => RewardsCircuit!Init
  /\ [Next]_vars => /\ part' = part
                    /\ \/ part = "reward" => Rewards!Next
                       \/ UNCHANGED rewardState
                    /\ \/ part = "circuit" => RewardsCircuit!Next
                       \/ UNCHANGED rewardState
<1>1. Init => /\ part = "reward" => Rewards!Init
              /\ part = "circuit" => RewardsCircuit!Init
  BY DEF Init, LinkStarts, RewardStarts, PlanStarts, HubStarts, TicketStarts
<1>2. [Next]_vars => /\ part' = part
                     /\ \/ part = "reward" => Rewards!Next
                        \/ UNCHANGED rewardState
                     /\ \/ part = "circuit" => RewardsCircuit!Next
                        \/ UNCHANGED rewardState
  BY DEF Next, LinkMoves, RewardMoves, PlanMoves, HubMoves, TicketMoves, vars
<1> QED
  BY <1>1, <1>2

(* Each failed delivery is counted once, by whichever transaction locks the *)
(* link next, and each event rewarded once, over lost answers, expired      *)
(* leases, dead workers and replays; an event is enqueued only while fewer  *)
(* failures than the circuit allows lie behind it (baukit-suite delivery).  *)
THEOREM DeliveriesCounted == Spec => CountedOnce
<1>1. Init => DeliverySound
  BY DeliveryMachines, RewardStart, CircuitStart DEF DeliverySound
<1>2. RewardInv /\ UNCHANGED rewardState => RewardInv'
  BY DEF rewardState, RewardInv, JobInv, LinkInv, FailureInv, Tally, InboxInv, CallInv,
    CallSound, DoneInv, Arrived
<1>3. CircuitInv /\ UNCHANGED rewardState => CircuitInv' /\ RewardsCircuit!NoEnqueueWhileOpen
  BY DEF rewardState, CircuitInv, Tally, RewardsCircuit!NoEnqueueWhileOpen
<1>4. DeliverySound /\ [Next]_vars => DeliverySound'
  BY <1>2, <1>3, DeliveryMachines, RewardStep, CircuitStep DEF DeliverySound
<1>5. DeliverySound => CountedOnceHolds
  BY RewardPromise, CircuitPromise DEF DeliverySound, CountedOnceHolds
<1>6. DeliverySound /\ [Next]_vars => [CountedOnceSteps]_vars
  BY <1>3, DeliveryMachines, CircuitStep DEF DeliverySound, CountedOnceSteps
<1> QED
  BY <1>1, <1>4, <1>5, <1>6, PTL DEF Spec, CountedOnce

-----------------------------------------------------------------------------
(* Links. What the two sides hold, for any requests rs, codes cs and calls  *)
(* ps: the same for the run of the pairing and for that of its deliveries.  *)
LinkIds == 1 .. MaxLinks
RowOf == [status : {"none", "active", "needs_attention", "revoked"},
          remote : 0 .. MaxLinks, secret : 0 .. MaxLinks]
RequestOf == [status : {"none", "open", "consumed"}, exchange : 0 .. MaxLinks,
              link : 0 .. MaxLinks]
CodeOf(rs) == [request : rs \cup {NoRequest}, consumed : BOOLEAN, link : 0 .. MaxLinks]
MessageOf(rs, cs) == [request : rs, code : cs, id : LinkIds, secret : LinkIds]
ExchangeOf(rs, cs) == [at : {"exchange"}, request : rs, code : cs, id : LinkIds,
                       secret : LinkIds, retried : BOOLEAN]
CommitOf(rs) == [at : {"commit"}, request : rs, id : LinkIds, secret : LinkIds,
                 remote : LinkIds]

PairTypes(rs, cs, ps) ==
  /\ request \in [rs -> RequestOf]
  /\ code \in [cs -> CodeOf(rs)]
  /\ linkLink \in [{"i", "a"} -> [LinkIds -> RowOf]]
  /\ revoke \in [{"i", "a"} -> [LinkIds -> {"none", "pending", "done", "failed"}]]
  /\ delivery \in [{"i", "a"} ->
                     [LinkIds -> {"none", "pending", "delivered", "unauthorized", "revoked"}]]
  /\ linkCall \in [ps -> {[at |-> "idle"]} \cup ExchangeOf(rs, cs) \cup CommitOf(rs)]
  /\ late \subseteq MessageOf(rs, cs)
  /\ prepared \in 0 .. MaxLinks
  /\ returned \in [rs -> SUBSET LinkIds]

Holds(s, l) == linkLink[s][l].status # "none"
InUse(s, l) == linkLink[s][l].status \in {"active", "needs_attention"}

HoldsNext(s, l) == linkLink'[s][l].status # "none"
UsesNext(s, l) == linkLink'[s][l].status \in {"active", "needs_attention"}

(* The links of the two sides: the authorizer numbers its own one by one,   *)
(* each side uses at most one, and the initiator's names the authorizer's,  *)
(* which names it back with the same secret.                                *)
RowsInv ==
  /\ \E n \in 0 .. MaxLinks : \A l \in LinkIds : Holds("a", l) <=> l <= n
  /\ \A s \in {"i", "a"} : \A k, l \in LinkIds : InUse(s, k) /\ InUse(s, l) => k = l
  /\ \A s \in {"i", "a"}, l \in LinkIds : delivery[s][l] # "none" => Holds(s, l)
  /\ \A l \in LinkIds :
       /\ Holds("a", l) => linkLink["a"][l].secret = linkLink["a"][l].remote
       /\ Holds("i", l) =>
            /\ l <= prepared /\ linkLink["i"][l].secret = l
            /\ linkLink["i"][l].remote \in LinkIds
            /\ Holds("a", linkLink["i"][l].remote)
            /\ linkLink["a"][linkLink["i"][l].remote].remote = l

(* A prepared exchange belongs to one open request and to a link that is    *)
(* not recorded; a request that is over has returned the one link it names. *)
RequestsInv(rs, cs) ==
  /\ \A r \in rs :
       /\ request[r].exchange <= prepared
       /\ request[r].exchange # 0 =>
            request[r].status = "open" /\ ~Holds("i", request[r].exchange)
       /\ returned[r] \subseteq IF request[r].status = "consumed" THEN {request[r].link} ELSE {}
  /\ \A q, r \in rs : request[r].exchange # 0 /\ request[q].exchange = request[r].exchange => q = r
  /\ \A c \in cs : code[c].consumed => code[c].link \in LinkIds /\ Holds("a", code[c].link)

(* A completion carries the exchange of its request, if that is still open, *)
(* and an answer that names a link of the authorizer's.                     *)
CompletionSound(p) ==
  /\ linkCall[p].at # "idle" =>
       /\ linkCall[p].secret = linkCall[p].id /\ linkCall[p].id <= prepared
       /\ request[linkCall[p].request].status # "none"
       /\ request[linkCall[p].request].status = "open" =>
            request[linkCall[p].request].exchange = linkCall[p].id
  /\ linkCall[p].at = "commit" =>
       /\ Holds("a", linkCall[p].remote)
       /\ linkLink["a"][linkCall[p].remote].remote = linkCall[p].id

CompletionsInv(ps) ==
  /\ \A p \in ps : CompletionSound(p)
  /\ \A x \in late : x.secret = x.id

PairInv(rs, cs, ps) ==
  PairTypes(rs, cs, ps) /\ RowsInv /\ RequestsInv(rs, cs) /\ CompletionsInv(ps)

PairingInv ==
  /\ part = "link" => PairInv(Requests, Codes, Completers)
  /\ part = "sends" => PairInv({a1}, Codes, {p1})

-----------------------------------------------------------------------------
LEMMA LinkBounds == MaxLinks \in Nat \ {0} /\ NoRequest \notin Requests
BY SuiteAssumption DEF Pairing!LinkAssumption

LEMMA PairingCardinality == \A S : Pairing!Cardinality(S) = Cardinality(S)
BY DEF Pairing!Cardinality, Cardinality

(* The authorizer's next link is one it does not hold yet. *)
Fresh == Pairing!NextAuthorizerId

LEMMA FreshSound ==
  ASSUME RowsInv
  PROVE  /\ Fresh \in Nat
         /\ Fresh <= MaxLinks =>
              /\ Fresh \in LinkIds /\ ~Holds("a", Fresh)
              /\ \A l \in LinkIds : Holds("a", l) \/ l = Fresh <=> l <= Fresh
<1>1. PICK n \in 0 .. MaxLinks : \A l \in LinkIds : Holds("a", l) <=> l <= n
  BY DEF RowsInv
<1>2. {l \in Pairing!Ids : Pairing!Known("a", l)} = 1 .. n
  BY <1>1, LinkBounds DEF Pairing!Ids, LinkIds, Pairing!Known, Holds
<1>3. Cardinality(1 .. n) = n
  BY <1>1, FS_Interval
<1>4. Fresh = n + 1
  BY <1>2, <1>3, PairingCardinality DEF Fresh, Pairing!NextAuthorizerId
<1> QED
  BY <1>1, <1>4, LinkBounds DEF LinkIds

(* A link that replaces the one in use. *)
Replaces(s, l, row) ==
  /\ linkLink' = [linkLink EXCEPT ![s] =
       [k \in LinkIds |-> IF k = l THEN row
          ELSE IF InUse(s, k) THEN [linkLink[s][k] EXCEPT !.status = "revoked"]
          ELSE linkLink[s][k]]]
  /\ revoke' \in [{"i", "a"} -> [LinkIds -> {"none", "pending", "done", "failed"}]]
  /\ delivery' \in {delivery, [delivery EXCEPT ![s][l] = "pending"]}

LEMMA PairingReplaces ==
  ASSUME NEW rs, NEW cs, NEW ps, PairTypes(rs, cs, ps), NEW s \in {"i", "a"}, NEW l, NEW row,
         Pairing!Replace(s, l, row) \/ PairingSends!Replace(s, l, row)
  PROVE  Replaces(s, l, row)
<1>1. /\ linkLink' = [linkLink EXCEPT ![s] =
           [k \in LinkIds |-> IF k = l THEN row
              ELSE IF InUse(s, k) THEN [linkLink[s][k] EXCEPT !.status = "revoked"]
              ELSE linkLink[s][k]]]
      /\ delivery' \in {delivery, [delivery EXCEPT ![s][l] = "pending"]}
      /\ \E ks : revoke' = [revoke EXCEPT ![s] =
           [k \in LinkIds |-> IF k \in ks THEN "pending" ELSE revoke[s][k]]]
  <2>1. CASE Pairing!Replace(s, l, row)
    BY <2>1 DEF InUse, LinkIds, Pairing!Replace, Pairing!Ids, Pairing!Usable,
      Pairing!Revoked, Pairing!QueueRevokes, Pairing!QueueReplay
  <2>2. CASE PairingSends!Replace(s, l, row)
    BY <2>2 DEF InUse, LinkIds, PairingSends!Replace, PairingSends!Ids, PairingSends!Usable,
      PairingSends!Revoked, PairingSends!QueueRevokes, PairingSends!QueueReplay
  <2> QED
    BY <2>1, <2>2
<1>2. revoke' \in [{"i", "a"} -> [LinkIds -> {"none", "pending", "done", "failed"}]]
  BY <1>1 DEF PairTypes
<1> QED
  BY <1>1, <1>2 DEF Replaces

LEMMA RowEnds == \A row \in RowOf : [row EXCEPT !.status = "revoked"] \in RowOf
BY DEF RowOf

LEMMA ReplacedRows ==
  ASSUME NEW rs, NEW cs, NEW ps, PairTypes(rs, cs, ps), NEW s \in {"i", "a"},
         NEW l \in LinkIds, NEW row \in RowOf, Replaces(s, l, row)
  PROVE  /\ linkLink' \in [{"i", "a"} -> [LinkIds -> RowOf]]
         /\ delivery' \in [{"i", "a"} ->
              [LinkIds -> {"none", "pending", "delivered", "unauthorized", "revoked"}]]
         /\ linkLink'[s][l] = row
         /\ \A t \in {"i", "a"} \ {s} : linkLink'[t] = linkLink[t]
         /\ \A k \in LinkIds \ {l} :
              /\ linkLink'[s][k].remote = linkLink[s][k].remote
              /\ linkLink'[s][k].secret = linkLink[s][k].secret
              /\ HoldsNext(s, k) <=> Holds(s, k)
              /\ ~UsesNext(s, k)
              /\ linkLink[s][k].status = "revoked" => linkLink'[s][k].status = "revoked"
         /\ \A t \in {"i", "a"}, k \in LinkIds :
              delivery'[t][k] = delivery[t][k] \/ (t = s /\ k = l)
<1>1. ASSUME NEW k \in LinkIds
      PROVE  linkLink[s][k] \in RowOf /\ [linkLink[s][k] EXCEPT !.status = "revoked"] \in RowOf
  BY RowEnds DEF PairTypes
<1>2. linkLink' \in [{"i", "a"} -> [LinkIds -> RowOf]] /\ linkLink'[s][l] = row
  BY <1>1 DEF PairTypes, Replaces
<1>3. \A t \in {"i", "a"} \ {s} : linkLink'[t] = linkLink[t]
  BY DEF PairTypes, Replaces
<1>4. ASSUME NEW k \in LinkIds \ {l}
      PROVE  linkLink'[s][k] = IF InUse(s, k) THEN [linkLink[s][k] EXCEPT !.status = "revoked"]
                               ELSE linkLink[s][k]
  BY DEF PairTypes, Replaces
<1>5. ASSUME NEW k \in LinkIds \ {l}
      PROVE  /\ linkLink'[s][k].remote = linkLink[s][k].remote
             /\ linkLink'[s][k].secret = linkLink[s][k].secret
             /\ HoldsNext(s, k) <=> Holds(s, k)
             /\ ~UsesNext(s, k)
             /\ linkLink[s][k].status = "revoked" => linkLink'[s][k].status = "revoked"
  BY <1>1, <1>4 DEF RowOf, Holds, InUse, HoldsNext, UsesNext
<1>6. /\ delivery' \in [{"i", "a"} ->
           [LinkIds -> {"none", "pending", "delivered", "unauthorized", "revoked"}]]
      /\ \A t \in {"i", "a"}, k \in LinkIds :
           delivery'[t][k] = delivery[t][k] \/ (t = s /\ k = l)
  <2>1. delivery \in [{"i", "a"} ->
          [LinkIds -> {"none", "pending", "delivered", "unauthorized", "revoked"}]]
    BY DEF PairTypes
  <2>2. CASE delivery' = delivery
    BY <2>1, <2>2
  <2>3. CASE delivery' = [delivery EXCEPT ![s][l] = "pending"]
    BY <2>1, <2>3
  <2> QED
    BY <2>2, <2>3 DEF Replaces
<1> QED
  BY <1>2, <1>3, <1>5, <1>6

(* What a side holds it keeps, under the same numbers and secret. *)
RowsGrow ==
  \A s \in {"i", "a"}, l \in LinkIds :
    Holds(s, l) => /\ HoldsNext(s, l)
                   /\ linkLink'[s][l].remote = linkLink[s][l].remote
                   /\ linkLink'[s][l].secret = linkLink[s][l].secret
                   /\ linkLink[s][l].status = "revoked" => linkLink'[s][l].status = "revoked"

(* The authorizer's transaction for an exchange: a new link, or none. *)
Creates(x) ==
  /\ code[x.code].request = x.request /\ ~code[x.code].consumed /\ Fresh <= MaxLinks
  /\ Replaces("a", Fresh, [status |-> "active", remote |-> x.id, secret |-> x.secret])
  /\ code' = [code EXCEPT ![x.code] = [@ EXCEPT !.consumed = TRUE, !.link = Fresh]]

Used(d, l) == [d EXCEPT !.consumed = TRUE, !.link = l]

LEMMA UsedCode ==
  ASSUME NEW rs, NEW d \in CodeOf(rs), NEW l \in 0 .. MaxLinks
  PROVE  Used(d, l) \in CodeOf(rs) /\ Used(d, l).link = l
BY DEF CodeOf, Used

LEMMA CreatesSound ==
  ASSUME NEW rs, NEW cs, NEW ps, PairInv(rs, cs, ps),
         NEW x \in MessageOf(rs, cs), x.secret = x.id, Creates(x),
         NEW f, f = Fresh,
         UNCHANGED <<request, prepared, returned>>
  PROVE  /\ code' \in [cs -> CodeOf(rs)]
         /\ linkLink' \in [{"i", "a"} -> [LinkIds -> RowOf]]
         /\ RowsInv' /\ RequestsInv(rs, cs)' /\ RowsGrow
         /\ f \in LinkIds /\ HoldsNext("a", f) /\ linkLink'["a"][f].remote = x.id
<1> DEFINE row == [status |-> "active", remote |-> x.id, secret |-> x.secret]
<1>1. row \in RowOf /\ x.id \in LinkIds /\ x.code \in cs
  BY LinkBounds DEF MessageOf, RowOf, LinkIds
<1>2. f \in LinkIds /\ ~Holds("a", f) /\ f \in 0 .. MaxLinks
  BY FreshSound, LinkBounds DEF Creates, PairInv, LinkIds
<1>3. /\ linkLink' \in [{"i", "a"} -> [LinkIds -> RowOf]]
      /\ linkLink'["a"][f] = row /\ linkLink'["i"] = linkLink["i"]
      /\ \A k \in LinkIds \ {f} :
           /\ linkLink'["a"][k].remote = linkLink["a"][k].remote
           /\ linkLink'["a"][k].secret = linkLink["a"][k].secret
           /\ HoldsNext("a", k) <=> Holds("a", k)
           /\ ~UsesNext("a", k)
           /\ linkLink["a"][k].status = "revoked" => linkLink'["a"][k].status = "revoked"
      /\ \A t \in {"i", "a"}, k \in LinkIds :
           delivery'[t][k] = delivery[t][k] \/ (t = "a" /\ k = f)
  BY <1>1, <1>2, ReplacedRows DEF Creates, PairInv
<1>4. RowsGrow
  BY <1>2, <1>3 DEF RowsGrow, Holds, HoldsNext
<1>5. HoldsNext("a", f) /\ linkLink'["a"][f].remote = x.id
      /\ linkLink'["a"][f].secret = x.id
  BY <1>3 DEF Holds, HoldsNext
<1>6. \A l \in LinkIds : HoldsNext("a", l) <=> l <= f
  BY <1>2, <1>3, <1>5, FreshSound DEF Creates, PairInv
<1>7. RowsInv'
  <2>1. \A s \in {"i", "a"} : \A k, l \in LinkIds : UsesNext(s, k) /\ UsesNext(s, l) => k = l
    BY <1>3 DEF PairInv, RowsInv, InUse, UsesNext
  <2>2. \A s \in {"i", "a"}, l \in LinkIds : delivery'[s][l] # "none" => HoldsNext(s, l)
    BY <1>3, <1>4, <1>5 DEF PairInv, RowsInv, RowsGrow
  <2>3. \A l \in LinkIds :
          HoldsNext("a", l) => linkLink'["a"][l].secret = linkLink'["a"][l].remote
    BY <1>3, <1>5 DEF PairInv, RowsInv
  <2>4. ASSUME NEW l \in LinkIds, HoldsNext("i", l)
        PROVE  /\ l <= prepared' /\ linkLink'["i"][l].secret = l
               /\ linkLink'["i"][l].remote \in LinkIds
               /\ HoldsNext("a", linkLink'["i"][l].remote)
               /\ linkLink'["a"][linkLink'["i"][l].remote].remote = l
    <3>1. Holds("i", l)
      BY <1>3, <2>4 DEF Holds, HoldsNext
    <3> QED
      BY <1>3, <1>4, <3>1 DEF PairInv, RowsInv, RowsGrow
  <2> QED
    BY <1>2, <1>6, <2>1, <2>2, <2>3, <2>4 DEF RowsInv, Holds, InUse, HoldsNext, UsesNext
<1>8. /\ code' \in [cs -> CodeOf(rs)] /\ code'[x.code].link = f
      /\ \A c \in cs \ {x.code} : code'[c] = code[c]
  <2>1. code \in [cs -> CodeOf(rs)]
    BY DEF PairInv, PairTypes
  <2>2. PICK d \in CodeOf(rs) : d = code[x.code]
    BY <1>1, <2>1
  <2>3. Used(d, f) \in CodeOf(rs) /\ Used(d, f).link = f
    BY <1>2, UsedCode
  <2>4. code' = [code EXCEPT ![x.code] = Used(d, f)]
    BY <2>2 DEF Creates, Used
  <2> QED
    BY <1>1, <2>1, <2>3, <2>4
<1>10. RequestsInv(rs, cs)'
  <2>1. \A l \in LinkIds : HoldsNext("i", l) <=> Holds("i", l)
    BY <1>3 DEF Holds, HoldsNext
  <2>2. \A r \in rs : request[r].exchange # 0 => request[r].exchange \in LinkIds
    BY LinkBounds DEF PairInv, PairTypes, RequestOf, LinkIds
  <2>3. ASSUME NEW c \in cs, code'[c].consumed
        PROVE  code'[c].link \in LinkIds /\ HoldsNext("a", code'[c].link)
    <3>1. CASE c = x.code
      BY <1>2, <1>5, <1>8, <3>1
    <3>2. CASE c # x.code
      BY <1>4, <1>8, <2>3, <3>2 DEF PairInv, RequestsInv, RowsGrow
    <3> QED
      BY <3>1, <3>2
  <2> QED
    BY <2>1, <2>2, <2>3 DEF PairInv, RequestsInv, Holds, HoldsNext
<1> QED
  BY <1>2, <1>3, <1>4, <1>5, <1>7, <1>8, <1>10

Served(x) ==
  \/ Creates(x)
  \/ /\ code[x.code].request # x.request \/ code[x.code].consumed
     /\ UNCHANGED <<linkLink, revoke, delivery, code>>

LEMMA PairingServes ==
  ASSUME NEW rs, NEW cs, NEW ps, PairTypes(rs, cs, ps), NEW x,
         \/ Pairing!ExchangeCreates(x) \/ Pairing!ExchangeKeeps(x)
         \/ PairingSends!ExchangeCreates(x) \/ PairingSends!ExchangeKeeps(x)
  PROVE  Served(x)
<1>1. PairingSends!NextAuthorizerId = Fresh
  BY DEF Fresh, Pairing!NextAuthorizerId, PairingSends!NextAuthorizerId, Pairing!Known,
    PairingSends!Known, Pairing!Ids, PairingSends!Ids, Pairing!Cardinality,
    PairingSends!Cardinality
<1>2. CASE Pairing!ExchangeCreates(x) \/ PairingSends!ExchangeCreates(x)
  BY <1>1, <1>2, PairingReplaces DEF Served, Creates, Fresh, Pairing!ExchangeCreates,
    PairingSends!ExchangeCreates, Pairing!ValidExchange, PairingSends!ValidExchange,
    Pairing!NewLink, PairingSends!NewLink, Pairing!ConsumeCode, PairingSends!ConsumeCode
<1>3. CASE Pairing!ExchangeKeeps(x) \/ PairingSends!ExchangeKeeps(x)
  BY <1>3 DEF Served, Pairing!ExchangeKeeps, PairingSends!ExchangeKeeps,
    Pairing!ValidExchange, PairingSends!ValidExchange
<1> QED
  BY <1>2, <1>3

RowTypesNext ==
  /\ linkLink' \in [{"i", "a"} -> [LinkIds -> RowOf]]
  /\ revoke' \in [{"i", "a"} -> [LinkIds -> {"none", "pending", "done", "failed"}]]
  /\ delivery' \in [{"i", "a"} ->
       [LinkIds -> {"none", "pending", "delivered", "unauthorized", "revoked"}]]

LEMMA ServedSound ==
  ASSUME NEW rs, NEW cs, NEW ps, PairInv(rs, cs, ps),
         NEW x \in MessageOf(rs, cs), x.secret = x.id, Served(x),
         UNCHANGED <<request, prepared, returned>>
  PROVE  /\ code' \in [cs -> CodeOf(rs)] /\ RowTypesNext
         /\ RowsInv' /\ RequestsInv(rs, cs)' /\ RowsGrow
         /\ Pairing!Answer(x) # 0 =>
              /\ Pairing!Answer(x) \in LinkIds /\ HoldsNext("a", Pairing!Answer(x))
              /\ linkLink'["a"][Pairing!Answer(x)].remote = x.id
<1>1. x.code \in cs /\ x.id \in LinkIds
  BY DEF MessageOf
<1>2. CASE Creates(x)
  <2>1. PICK f : f = Fresh
    OBVIOUS
  <2>2. f \in LinkIds /\ [status |-> "active", remote |-> x.id, secret |-> x.secret] \in RowOf
    BY <1>1, <1>2, <2>1, FreshSound, LinkBounds DEF Creates, PairInv, RowOf, LinkIds
  <2>3. RowTypesNext
    <3>1. PairTypes(rs, cs, ps) /\ "a" \in {"i", "a"}
      BY DEF PairInv
    <3>2. Replaces("a", f, [status |-> "active", remote |-> x.id, secret |-> x.secret])
      BY <1>2, <2>1 DEF Creates
    <3> QED
      BY <2>2, <3>1, <3>2, ReplacedRows DEF RowTypesNext, Replaces
  <2>4. Pairing!Answer(x) = f
    BY <1>2, <2>1 DEF Creates, Pairing!Answer, Pairing!ValidExchange, Fresh
  <2> QED
    BY <1>2, <2>1, <2>3, <2>4, CreatesSound
<1>3. CASE /\ code[x.code].request # x.request \/ code[x.code].consumed
           /\ UNCHANGED <<linkLink, revoke, delivery, code>>
  <2>1. RowTypesNext /\ code' \in [cs -> CodeOf(rs)]
    BY <1>3 DEF RowTypesNext, PairInv, PairTypes
  <2>2. RowsInv' /\ RequestsInv(rs, cs)' /\ RowsGrow
    <3>1. RowsGrow
      BY <1>3 DEF RowsGrow, Holds, HoldsNext
    <3>2. RowsInv'
      BY <1>3 DEF PairInv, RowsInv, Holds, InUse
    <3>3. RequestsInv(rs, cs)'
      BY <1>3 DEF PairInv, RequestsInv, Holds
    <3> QED
      BY <3>1, <3>2, <3>3
  <2>3. Pairing!Answer(x) # 0 =>
          /\ Pairing!Answer(x) \in LinkIds /\ HoldsNext("a", Pairing!Answer(x))
          /\ linkLink'["a"][Pairing!Answer(x)].remote = x.id
    BY <1>1, <1>3 DEF PairInv, RequestsInv, Pairing!Answer, Pairing!ValidExchange,
      Pairing!Existing, Holds, HoldsNext
  <2> QED
    BY <2>1, <2>2, <2>3
<1> QED
  BY <1>2, <1>3 DEF Served

(* A call that a step leaves alone stays sound: the authorizer forgets no   *)
(* link, and an open request keeps its exchange.                            *)
RequestsGrow(rs) ==
  /\ prepared <= prepared'
  /\ \A r \in rs : request[r].status # "none" =>
       /\ request'[r].status # "none"
       /\ request'[r].status = "open" =>
            /\ request[r].status = "open"
            /\ request[r].exchange # 0 => request'[r].exchange = request[r].exchange

LEMMA CallKept ==
  ASSUME NEW rs, NEW cs, NEW ps, PairInv(rs, cs, ps), NEW p \in ps,
         RowsGrow, RequestsGrow(rs), prepared' \in 0 .. MaxLinks, linkCall'[p] = linkCall[p]
  PROVE  CompletionSound(p)'
<1>1. CompletionSound(p) /\ prepared \in 0 .. MaxLinks
  BY DEF PairInv, CompletionsInv, PairTypes
<1>2. \/ linkCall[p] = [at |-> "idle"]
      \/ linkCall[p] \in ExchangeOf(rs, cs) \/ linkCall[p] \in CommitOf(rs)
  BY DEF PairInv, PairTypes
<1>3. CASE linkCall[p] = [at |-> "idle"]
  BY <1>3 DEF CompletionSound
<1>4. CASE linkCall[p] \in ExchangeOf(rs, cs)
  <2>1. /\ linkCall[p].at = "exchange" /\ linkCall[p].request \in rs
        /\ linkCall[p].id \in Nat \ {0}
    BY <1>4, LinkBounds DEF ExchangeOf, LinkIds
  <2> QED
    BY <1>1, <2>1, LinkBounds DEF CompletionSound, RequestsGrow
<1>5. CASE linkCall[p] \in CommitOf(rs)
  <2>1. /\ linkCall[p].at = "commit" /\ linkCall[p].request \in rs
        /\ linkCall[p].id \in Nat \ {0} /\ linkCall[p].remote \in LinkIds
    BY <1>5, LinkBounds DEF CommitOf, LinkIds
  <2>2. Holds("a", linkCall[p].remote)' /\ linkLink'["a"][linkCall[p].remote].remote = linkCall[p].id
    BY <1>1, <2>1 DEF CompletionSound, RowsGrow, Holds, HoldsNext
  <2> QED
    BY <1>1, <2>1, <2>2, LinkBounds DEF CompletionSound, RequestsGrow
<1> QED
  BY <1>2, <1>3, <1>4, <1>5

LEMMA CallsKept ==
  ASSUME NEW rs, NEW cs, NEW ps, PairInv(rs, cs, ps),
         RowsGrow, RequestsGrow(rs), prepared' \in 0 .. MaxLinks,
         \A p \in ps : linkCall'[p] = linkCall[p] \/ CompletionSound(p)',
         \A x \in late' : x.secret = x.id
  PROVE  CompletionsInv(ps)'
BY CallKept DEF CompletionsInv

(* The steps that touch no row. *)
RowsSame == UNCHANGED <<linkLink, revoke, delivery, code>>

LEMMA SameRows ==
  ASSUME NEW rs, NEW cs, NEW ps, PairInv(rs, cs, ps), RowsSame,
         prepared' \in 0 .. MaxLinks, prepared <= prepared'
  PROVE  RowTypesNext /\ code' \in [cs -> CodeOf(rs)] /\ RowsGrow /\ RowsInv'
<1>1. RowTypesNext /\ code' \in [cs -> CodeOf(rs)] /\ RowsGrow
  BY DEF RowsSame, PairInv, PairTypes, RowTypesNext, RowsGrow, Holds, HoldsNext
<1>2. \A l \in LinkIds : l <= prepared => l <= prepared'
  BY LinkBounds DEF PairInv, PairTypes, LinkIds
<1>3. /\ \A s \in {"i", "a"} : \A l \in LinkIds :
           (InUse(s, l)' <=> InUse(s, l)) /\ (Holds(s, l)' <=> Holds(s, l))
      /\ linkLink' = linkLink /\ delivery' = delivery
  BY DEF RowsSame, Holds, InUse
<1>4. RowsInv'
  BY <1>2, <1>3 DEF PairInv, RowsInv, Holds, InUse
<1> QED
  BY <1>1, <1>4

Superseded(q) ==
  IF q.status = "open" THEN [q EXCEPT !.status = "consumed", !.exchange = 0] ELSE q

Starts(rs, r) ==
  /\ request[r].status = "none"
  /\ request' = [q \in rs |-> IF q = r THEN [request[r] EXCEPT !.status = "open"]
                              ELSE Superseded(request[q])]
  /\ RowsSame /\ UNCHANGED <<linkCall, late, prepared, returned>>

Ended(q, e, l) == [q EXCEPT !.status = "consumed", !.exchange = e, !.link = l]

LEMMA EndedRow ==
  ASSUME NEW q \in RequestOf, NEW e \in 0 .. MaxLinks, NEW l \in 0 .. MaxLinks
  PROVE  /\ Ended(q, e, l) \in RequestOf /\ Ended(q, e, l).status = "consumed"
         /\ Ended(q, e, l).exchange = e /\ Ended(q, e, l).link = l
BY DEF RequestOf, Ended

LEMMA RequestEnds ==
  ASSUME NEW q \in RequestOf, NEW e \in 0 .. MaxLinks
  PROVE  /\ [q EXCEPT !.status = "consumed", !.exchange = e] \in RequestOf
         /\ [q EXCEPT !.status = "consumed", !.exchange = e].status = "consumed"
         /\ [q EXCEPT !.status = "consumed", !.exchange = e].exchange = e
BY DEF RequestOf

LEMMA OpenedRow ==
  \A q \in RequestOf :
    /\ [q EXCEPT !.status = "open"] \in RequestOf
    /\ [q EXCEPT !.status = "open"].status = "open"
    /\ [q EXCEPT !.status = "open"].exchange = q.exchange
    /\ Superseded(q) \in RequestOf
    /\ q.status = "open" => Superseded(q).status = "consumed" /\ Superseded(q).exchange = 0
    /\ q.status # "open" => Superseded(q) = q
<1> SUFFICES ASSUME NEW q \in RequestOf
             PROVE  /\ [q EXCEPT !.status = "open"] \in RequestOf
                    /\ [q EXCEPT !.status = "open"].status = "open"
                    /\ [q EXCEPT !.status = "open"].exchange = q.exchange
                    /\ Superseded(q) \in RequestOf
                    /\ q.status = "open" =>
                         Superseded(q).status = "consumed" /\ Superseded(q).exchange = 0
                    /\ q.status # "open" => Superseded(q) = q
  OBVIOUS
<1>1. /\ [q EXCEPT !.status = "open"] \in RequestOf
      /\ [q EXCEPT !.status = "open"].status = "open"
      /\ [q EXCEPT !.status = "open"].exchange = q.exchange
  BY DEF RequestOf
<1>2. /\ [q EXCEPT !.status = "consumed", !.exchange = 0] \in RequestOf
      /\ [q EXCEPT !.status = "consumed", !.exchange = 0].status = "consumed"
      /\ [q EXCEPT !.status = "consumed", !.exchange = 0].exchange = 0
  <2>1. 0 \in 0 .. MaxLinks
    BY LinkBounds
  <2> QED
    BY <2>1, RequestEnds
<1> QED
  BY <1>1, <1>2 DEF Superseded

LEMMA StartsSound ==
  ASSUME NEW rs, NEW cs, NEW ps, PairInv(rs, cs, ps), NEW r \in rs, Starts(rs, r)
  PROVE  PairInv(rs, cs, ps)'
<1>1. /\ RowsSame /\ prepared' = prepared /\ returned' = returned
      /\ linkCall' = linkCall /\ late' = late
      /\ prepared \in 0 .. MaxLinks /\ request \in [rs -> RequestOf]
  BY DEF Starts, PairInv, PairTypes
<1>2. request[r].status = "none" /\ request[r].exchange = 0 /\ returned[r] = {}
  BY DEF Starts, PairInv, RequestsInv
<1>3. ASSUME NEW q \in rs
      PROVE  /\ request'[q] \in RequestOf
             /\ q = r => request'[q].status = "open" /\ request'[q].exchange = 0
             /\ q # r /\ request[q].status # "open" => request'[q] = request[q]
             /\ q # r /\ request[q].status = "open" =>
                  request'[q].status = "consumed" /\ request'[q].exchange = 0
  <2>1. CASE q = r
    BY <1>1, <1>2, <2>1, OpenedRow DEF Starts
  <2>2. CASE q # r
    BY <1>1, <2>2, OpenedRow DEF Starts
  <2> QED
    BY <2>1, <2>2
<1>4. request' \in [rs -> RequestOf]
  BY <1>3 DEF Starts
<1>5. RowTypesNext /\ code' \in [cs -> CodeOf(rs)] /\ RowsGrow /\ RowsInv'
  BY <1>1, SameRows, LinkBounds
<1>6. RequestsInv(rs, cs)'
  <2>1. \A q \in rs : request'[q].exchange # 0 => request'[q] = request[q] /\ q # r
    BY <1>2, <1>3 DEF PairInv, RequestsInv
  <2>2. \A q \in rs : returned[q] \subseteq IF request'[q].status = "consumed"
                                            THEN {request'[q].link} ELSE {}
    BY <1>2, <1>3 DEF PairInv, RequestsInv
  <2>3. \A q \in rs : request'[q].exchange <= prepared
    BY <1>1, <1>2, <1>3, LinkBounds DEF PairInv, RequestsInv
  <2> QED
    BY <1>1, <2>1, <2>2, <2>3 DEF PairInv, RequestsInv, RowsSame, Holds
<1>7. RequestsGrow(rs)
  BY <1>1, <1>2, <1>3 DEF RequestsGrow
<1>8. CompletionsInv(ps)'
  <2>1. \A p \in ps : linkCall'[p] = linkCall[p]
    BY <1>1
  <2>2. \A x \in late' : x.secret = x.id
    BY <1>1 DEF PairInv, CompletionsInv
  <2> QED
    BY <1>1, <1>5, <1>7, <2>1, <2>2, CallsKept
<1> QED
  BY <1>1, <1>4, <1>5, <1>6, <1>8 DEF PairInv, PairTypes, RowTypesNext

(* Steps that leave the requests alone too: a crash, an authorization, an   *)
(* exchange answered without a link.                                        *)
LEMMA CallOver ==
  ASSUME NEW rs, NEW cs, NEW ps, PairInv(rs, cs, ps), NEW p \in ps,
         RowsSame, UNCHANGED <<request, late, prepared>>,
         linkCall' = [linkCall EXCEPT ![p] = [at |-> "idle"]],
         returned' \in [rs -> SUBSET LinkIds],
         \A r \in rs : returned'[r] = returned[r] \/
           (request[r].status = "consumed" /\ returned'[r] \subseteq {request[r].link})
  PROVE  PairInv(rs, cs, ps)'
<1>1. prepared \in 0 .. MaxLinks /\ prepared' = prepared /\ prepared <= prepared'
  BY LinkBounds DEF PairInv, PairTypes
<1>2. RowTypesNext /\ code' \in [cs -> CodeOf(rs)] /\ RowsGrow /\ RowsInv'
  BY <1>1, SameRows
<1>3. linkCall' \in [ps -> {[at |-> "idle"]} \cup ExchangeOf(rs, cs) \cup CommitOf(rs)]
  BY DEF PairInv, PairTypes
<1>4. \A q \in ps : linkCall'[q] = linkCall[q] \/ CompletionSound(q)'
  <2>1. \A q \in ps \ {p} : linkCall'[q] = linkCall[q]
    BY DEF PairInv, PairTypes
  <2>2. linkCall'[p] = [at |-> "idle"]
    BY DEF PairInv, PairTypes
  <2>3. CompletionSound(p)'
    BY <2>2 DEF CompletionSound
  <2> QED
    BY <2>1, <2>3
<1>5. CompletionsInv(ps)'
  <2>1. RequestsGrow(rs)
    BY <1>1 DEF RequestsGrow
  <2>2. \A x \in late' : x.secret = x.id
    BY DEF PairInv, CompletionsInv
  <2> QED
    BY <1>1, <1>2, <1>4, <2>1, <2>2, CallsKept
<1>6. RequestsInv(rs, cs)'
  BY DEF PairInv, RequestsInv, RowsSame, Holds
<1> QED
  BY <1>1, <1>2, <1>3, <1>5, <1>6 DEF PairInv, PairTypes, RowTypesNext

LEMMA ReturnsSound ==
  ASSUME NEW rs, NEW cs, NEW ps, PairInv(rs, cs, ps), NEW p \in ps, NEW r \in rs,
         Pairing!ReturnExisting(p, r)
  PROVE  PairInv(rs, cs, ps)'
<1>1. request[r].status = "consumed" /\ request[r].link \in 0 .. MaxLinks
      /\ returned[r] \subseteq {request[r].link} /\ returned \in [rs -> SUBSET LinkIds]
  BY DEF Pairing!ReturnExisting, PairInv, PairTypes, RequestOf, RequestsInv
<1>2. \/ returned' = returned
      \/ request[r].link \in LinkIds /\ Pairing!Return(r, request[r].link)
  BY <1>1, LinkBounds DEF Pairing!ReturnExisting, LinkIds
<1>3. /\ returned' \in [rs -> SUBSET LinkIds]
      /\ \A q \in rs : returned'[q] = returned[q] \/
           (request[q].status = "consumed" /\ returned'[q] \subseteq {request[q].link})
  <2>1. CASE returned' = returned
    BY <1>1, <2>1
  <2>2. CASE request[r].link \in LinkIds /\ Pairing!Return(r, request[r].link)
    <3>1. PICK X \in SUBSET {request[r].link} : returned' = [returned EXCEPT ![r] = @ \cup X]
      BY <2>2 DEF Pairing!Return
    <3> QED
      BY <1>1, <2>2, <3>1
  <2> QED
    BY <1>2, <2>1, <2>2
<1> QED
  BY <1>3, CallOver DEF Pairing!ReturnExisting, Pairing!Idle, RowsSame

LEMMA CrashesSound ==
  ASSUME NEW rs, NEW cs, NEW ps, PairInv(rs, cs, ps), NEW p \in ps, Pairing!Crash(p)
  PROVE  PairInv(rs, cs, ps)'
<1>1. returned' = returned /\ returned \in [rs -> SUBSET LinkIds]
  BY DEF Pairing!Crash, PairInv, PairTypes
<1> QED
  BY <1>1, CallOver DEF Pairing!Crash, Pairing!Idle, RowsSame

LEMMA AuthorizesSound ==
  ASSUME NEW rs, NEW cs, NEW ps, PairInv(rs, cs, ps), NEW c \in cs, NEW r \in rs,
         Pairing!Authorize(c, r)
  PROVE  PairInv(rs, cs, ps)'
<1>1. \A d \in CodeOf(rs) : [d EXCEPT !.request = r] \in CodeOf(rs)
        /\ [d EXCEPT !.request = r].consumed = d.consumed /\ [d EXCEPT !.request = r].link = d.link
  BY DEF CodeOf
<1>2. /\ code' \in [cs -> CodeOf(rs)]
      /\ \A d \in cs : code'[d].consumed = code[d].consumed /\ code'[d].link = code[d].link
  <2>1. code \in [cs -> CodeOf(rs)] /\ code' = [code EXCEPT ![c] = [code[c] EXCEPT !.request = r]]
    BY DEF Pairing!Authorize, PairInv, PairTypes
  <2> QED
    BY <1>1, <2>1
<1>3. PairTypes(rs, cs, ps)'
  BY <1>2 DEF Pairing!Authorize, PairInv, PairTypes
<1>4. RowsInv' /\ CompletionsInv(ps)'
  BY DEF Pairing!Authorize, PairInv, RowsInv, CompletionsInv, CompletionSound, Holds, InUse
<1>5. RequestsInv(rs, cs)'
  BY <1>2 DEF Pairing!Authorize, PairInv, RequestsInv, Holds
<1> QED
  BY <1>3, <1>4, <1>5 DEF PairInv

LEMMA PreparedRow ==
  ASSUME NEW q \in RequestOf, NEW e \in 0 .. MaxLinks
  PROVE  /\ [q EXCEPT !.exchange = e] \in RequestOf
         /\ [q EXCEPT !.exchange = e].exchange = e
         /\ [q EXCEPT !.exchange = e].status = q.status
         /\ [q EXCEPT !.exchange = e].link = q.link
BY DEF RequestOf

LEMMA PreparesSound ==
  ASSUME NEW rs, NEW cs, NEW ps, PairInv(rs, cs, ps), NEW p \in ps, NEW r \in rs, NEW c \in cs,
         Pairing!PrepareExchange(p, r, c)
  PROVE  PairInv(rs, cs, ps)'
<1> DEFINE id == IF request[r].exchange = 0 THEN prepared + 1 ELSE request[r].exchange
           exchange == [at |-> "exchange", request |-> r, code |-> c, id |-> id,
                        secret |-> id, retried |-> FALSE]
<1>1. /\ prepared \in 0 .. MaxLinks /\ request \in [rs -> RequestOf]
      /\ request[r].status = "open" /\ request[r].exchange \in 0 .. MaxLinks
      /\ request[r].exchange <= prepared /\ MaxLinks \in Nat \ {0}
  BY LinkBounds DEF PairInv, PairTypes, RequestsInv, RequestOf, Pairing!PrepareExchange
<1>2. PICK e \in LinkIds : e = id /\ (request[r].exchange = 0 => e = prepared + 1)
                           /\ (request[r].exchange # 0 => e = request[r].exchange)
  BY <1>1 DEF Pairing!PrepareExchange, LinkIds
<1>3. /\ request' = [request EXCEPT ![r] = [request[r] EXCEPT !.exchange = e]]
      /\ prepared' = IF request[r].exchange = 0 THEN e ELSE prepared
      /\ linkCall' = [linkCall EXCEPT ![p] = [at |-> "exchange", request |-> r, code |-> c,
                                              id |-> e, secret |-> e, retried |-> FALSE]]
      /\ RowsSame /\ UNCHANGED <<late, returned>>
  BY <1>2 DEF Pairing!PrepareExchange, RowsSame
<1>4. prepared' \in 0 .. MaxLinks /\ prepared <= prepared' /\ e <= prepared'
  BY <1>1, <1>2, <1>3 DEF LinkIds
<1>5. /\ request' \in [rs -> RequestOf]
      /\ request'[r].exchange = e /\ request'[r].status = "open"
      /\ \A q \in rs \ {r} : request'[q] = request[q]
      /\ \A q \in rs : request'[q].status = request[q].status /\ request'[q].link = request[q].link
  <2>1. e \in 0 .. MaxLinks
    BY <1>2 DEF LinkIds
  <2>2. PICK q \in RequestOf : q = request[r]
    BY <1>1
  <2> DEFINE row == [q EXCEPT !.exchange = e]
  <2>3. row \in RequestOf /\ row.exchange = e /\ row.status = q.status /\ row.link = q.link
    BY <2>1, PreparedRow
  <2>4. request' = [request EXCEPT ![r] = row]
    BY <1>3, <2>2
  <2> HIDE DEF row
  <2> QED
    BY <1>1, <2>2, <2>3, <2>4
<1>6. RowTypesNext /\ code' \in [cs -> CodeOf(rs)] /\ RowsGrow /\ RowsInv'
  BY <1>3, <1>4, SameRows
<1>7. linkCall' \in [ps -> {[at |-> "idle"]} \cup ExchangeOf(rs, cs) \cup CommitOf(rs)]
  <2>1. [at |-> "exchange", request |-> r, code |-> c, id |-> e, secret |-> e, retried |-> FALSE]
          \in ExchangeOf(rs, cs)
    BY <1>2 DEF ExchangeOf
  <2> QED
    BY <1>3, <2>1 DEF PairInv, PairTypes
<1>8. RequestsInv(rs, cs)'
  <2>1. ~Holds("i", e)
    BY <1>1, <1>2 DEF PairInv, RowsInv, RequestsInv
  <2>2. \A q \in rs \ {r} : request[q].exchange # 0 => request[q].exchange # e
    BY <1>1, <1>2 DEF PairInv, RequestsInv
  <2>3. \A q \in rs : /\ request'[q].exchange <= prepared'
                      /\ request'[q].exchange # 0 =>
                           request'[q].status = "open" /\ ~Holds("i", request'[q].exchange)
    <3>1. request'[r].exchange = e /\ e <= prepared' /\ request'[r].status = "open" /\ ~Holds("i", e)
      BY <1>4, <1>5, <2>1
    <3>2. ASSUME NEW q \in rs \ {r}
          PROVE  /\ request'[q].exchange <= prepared'
                 /\ request'[q].exchange # 0 =>
                      request'[q].status = "open" /\ ~Holds("i", request'[q].exchange)
      <4>1. request[q].exchange \in 0 .. MaxLinks /\ request'[q] = request[q]
        BY <1>1, <1>5 DEF RequestOf
      <4>2. /\ request[q].exchange <= prepared
            /\ request[q].exchange # 0 =>
                 request[q].status = "open" /\ ~Holds("i", request[q].exchange)
        BY DEF PairInv, RequestsInv
      <4> QED
        BY <1>1, <1>4, <4>1, <4>2
    <3> QED
      BY <3>1, <3>2
  <2>4. \A q \in rs : returned'[q] \subseteq IF request'[q].status = "consumed"
                                             THEN {request'[q].link} ELSE {}
    BY <1>3, <1>5 DEF PairInv, RequestsInv
  <2>5. \A q, s \in rs : request'[s].exchange # 0 /\ request'[q].exchange = request'[s].exchange
                         => q = s
    BY <1>5, <2>2 DEF PairInv, RequestsInv
  <2> QED
    BY <1>3, <2>3, <2>4, <2>5 DEF PairInv, RequestsInv, RowsSame, Holds
<1>9. RequestsGrow(rs)
  BY <1>1, <1>2, <1>4, <1>5 DEF RequestsGrow
<1>10. CompletionsInv(ps)'
  <2>1. linkCall'[p] = [at |-> "exchange", request |-> r, code |-> c, id |-> e, secret |-> e,
                        retried |-> FALSE]
        /\ \A q \in ps \ {p} : linkCall'[q] = linkCall[q]
    BY <1>3 DEF PairInv, PairTypes
  <2>2. CompletionSound(p)'
    BY <1>4, <1>5, <2>1 DEF CompletionSound
  <2>3. \A x \in late' : x.secret = x.id
    BY <1>3 DEF PairInv, CompletionsInv
  <2> QED
    BY <1>4, <1>6, <1>9, <2>1, <2>2, <2>3, CallsKept
<1> QED
  BY <1>3, <1>4, <1>5, <1>6, <1>7, <1>8, <1>10 DEF PairInv, PairTypes, RowTypesNext

(* An exchange: the authorizer's transaction, now or later, and what the    *)
(* call makes of its answer.                                                *)
Exchanges(p) ==
  LET x == Pairing!Message(p) IN
  /\ linkCall[p].at = "exchange"
  /\ \/ /\ Served(x) /\ late' = late
        /\ Pairing!Answered(p, Pairing!Answer(x)) \/ Pairing!TimedOut(p)
     \/ /\ RowsSame /\ late' \in {late, late \cup {x}}
        /\ Pairing!Answered(p, 0) \/ Pairing!TimedOut(p)
  /\ UNCHANGED <<request, prepared, returned>>

LEMMA PairingExchanges ==
  ASSUME NEW rs, NEW cs, NEW ps, PairTypes(rs, cs, ps), NEW p \in ps,
         Pairing!Exchange(p) \/ PairingSends!Exchange(p)
  PROVE  Exchanges(p)
<1>1. /\ PairingSends!Message(p) = Pairing!Message(p)
      /\ PairingSends!Answered(p, 0) <=> Pairing!Answered(p, 0)
      /\ PairingSends!TimedOut(p) <=> Pairing!TimedOut(p)
  BY DEF PairingSends!Message, Pairing!Message, PairingSends!Answered, Pairing!Answered,
    PairingSends!TimedOut, Pairing!TimedOut, Pairing!Idle, PairingSends!Idle
<1>2. \A x : PairingSends!Answer(x) = Pairing!Answer(x)
  BY DEF PairingSends!Answer, Pairing!Answer, Pairing!NextAuthorizerId,
    PairingSends!NextAuthorizerId, Pairing!Known, PairingSends!Known, Pairing!Ids,
    PairingSends!Ids, Pairing!Cardinality, PairingSends!Cardinality, Pairing!Existing,
    PairingSends!Existing, Pairing!ValidExchange, PairingSends!ValidExchange
<1>3. \A a : PairingSends!Answered(p, a) <=> Pairing!Answered(p, a)
  BY DEF PairingSends!Answered, Pairing!Answered, Pairing!Idle, PairingSends!Idle
<1> QED
  BY <1>1, <1>2, <1>3, PairingServes
     DEF Exchanges, RowsSame, Pairing!Exchange, PairingSends!Exchange

LEMMA RetriedCall ==
  ASSUME NEW rs, NEW cs, NEW k \in ExchangeOf(rs, cs)
  PROVE  /\ [k EXCEPT !.retried = TRUE] \in ExchangeOf(rs, cs)
         /\ [k EXCEPT !.retried = TRUE].request = k.request
         /\ [k EXCEPT !.retried = TRUE].id = k.id
         /\ [k EXCEPT !.retried = TRUE].secret = k.secret
         /\ [k EXCEPT !.retried = TRUE].at = "exchange"
         /\ k.at = "exchange" /\ k.request \in rs /\ k.code \in cs /\ k.id \in LinkIds
         /\ k.secret \in LinkIds
BY DEF ExchangeOf

LEMMA ExchangesSound ==
  ASSUME NEW rs, NEW cs, NEW ps, PairInv(rs, cs, ps), NEW p \in ps, Exchanges(p)
  PROVE  PairInv(rs, cs, ps)' /\ RowsGrow
<1>1. linkCall[p] \in ExchangeOf(rs, cs)
  BY DEF PairInv, PairTypes, Exchanges, CommitOf
<1>2. PICK k \in ExchangeOf(rs, cs) : k = linkCall[p]
  BY <1>1
<1>10. /\ [k EXCEPT !.retried = TRUE] \in ExchangeOf(rs, cs)
      /\ [k EXCEPT !.retried = TRUE].request = k.request
      /\ [k EXCEPT !.retried = TRUE].id = k.id
      /\ [k EXCEPT !.retried = TRUE].secret = k.secret
      /\ [k EXCEPT !.retried = TRUE].at = "exchange"
  BY RetriedCall
<1>3. PICK x \in MessageOf(rs, cs) :
        /\ x = Pairing!Message(p) /\ x.secret = x.id /\ x.id = k.id /\ x.request = k.request
  <2>1. k.secret = k.id
    BY <1>2, RetriedCall DEF PairInv, CompletionsInv, CompletionSound
  <2> DEFINE m == [request |-> k.request, code |-> k.code, id |-> k.id, secret |-> k.secret]
  <2>2. m = Pairing!Message(p)
    BY <1>2 DEF Pairing!Message
  <2>3. m \in MessageOf(rs, cs) /\ m.secret = k.secret /\ m.id = k.id /\ m.request = k.request
    BY RetriedCall DEF MessageOf
  <2> HIDE DEF m
  <2> QED
    BY <2>1, <2>2, <2>3
<1>4. /\ UNCHANGED <<request, prepared, returned>> /\ late' \in {late, late \cup {x}}
      /\ prepared \in 0 .. MaxLinks /\ prepared <= prepared' /\ prepared' \in 0 .. MaxLinks
  BY <1>3, LinkBounds DEF Exchanges, PairInv, PairTypes
<1>5. PICK a : /\ Pairing!Answered(p, a) \/ Pairing!TimedOut(p)
               /\ code' \in [cs -> CodeOf(rs)] /\ RowTypesNext
               /\ RowsInv' /\ RequestsInv(rs, cs)' /\ RowsGrow
               /\ a # 0 => a \in LinkIds /\ HoldsNext("a", a) /\ linkLink'["a"][a].remote = k.id
  <2>1. CASE Served(x) /\ (Pairing!Answered(p, Pairing!Answer(x)) \/ Pairing!TimedOut(p))
    BY <1>3, <1>4, <2>1, ServedSound
  <2>2. CASE RowsSame /\ (Pairing!Answered(p, 0) \/ Pairing!TimedOut(p))
    <3>1. RequestsInv(rs, cs)'
      BY <1>4, <2>2 DEF PairInv, RequestsInv, RowsSame, Holds
    <3> QED
      BY <1>4, <2>2, <3>1, SameRows
  <2> QED
    BY <1>3, <2>1, <2>2 DEF Exchanges
<1>6. PICK n : /\ linkCall' = [linkCall EXCEPT ![p] = n]
               /\ \/ n = [at |-> "idle"] \/ n = [k EXCEPT !.retried = TRUE]
                  \/ /\ n = [at |-> "commit", request |-> k.request, id |-> k.id,
                             secret |-> k.secret, remote |-> a]
                     /\ a # 0
  BY <1>2, <1>5 DEF Pairing!Answered, Pairing!TimedOut, Pairing!Idle
<1>7. n \in {[at |-> "idle"]} \cup ExchangeOf(rs, cs) \cup CommitOf(rs)
  <2>1. CASE n = [at |-> "idle"]
    BY <2>1
  <2>2. CASE n = [k EXCEPT !.retried = TRUE]
    BY <2>2, RetriedCall
  <2>3. CASE /\ n = [at |-> "commit", request |-> k.request, id |-> k.id,
                     secret |-> k.secret, remote |-> a]
             /\ a # 0
    BY <1>5, <2>3, RetriedCall DEF CommitOf
  <2> QED
    BY <1>6, <2>1, <2>2, <2>3
<1>8. PairTypes(rs, cs, ps)'
  <2>1. linkCall' \in [ps -> {[at |-> "idle"]} \cup ExchangeOf(rs, cs) \cup CommitOf(rs)]
    BY <1>6, <1>7 DEF PairInv, PairTypes
  <2> QED
    BY <1>4, <1>5, <2>1 DEF PairInv, PairTypes, RowTypesNext
<1>9. CompletionsInv(ps)'
  <2>1. linkCall'[p] = n /\ \A q \in ps \ {p} : linkCall'[q] = linkCall[q]
    BY <1>6 DEF PairInv, PairTypes
  <2>2. /\ k.secret = k.id /\ k.id <= prepared /\ request[k.request].status # "none"
        /\ request[k.request].status = "open" => request[k.request].exchange = k.id
    BY <1>2, RetriedCall DEF PairInv, CompletionsInv, CompletionSound
  <2>3. CASE n = [at |-> "idle"]
    <3>1. CompletionSound(p)'
      BY <2>1, <2>3 DEF CompletionSound
    <3> QED
      BY <1>3, <1>4, <1>5, <2>1, <3>1, CallsKept DEF RequestsGrow, PairInv, CompletionsInv
  <2>4. CASE n = [k EXCEPT !.retried = TRUE]
    <3>0. n.at = "exchange" /\ n.request = k.request /\ n.id = k.id /\ n.secret = k.secret
      BY <1>10, <2>4
    <3>1. CompletionSound(p)'
      BY <1>4, <2>1, <2>2, <3>0 DEF CompletionSound
    <3> QED
      BY <1>3, <1>4, <1>5, <2>1, <3>1, CallsKept DEF RequestsGrow, PairInv, CompletionsInv
  <2>5. CASE /\ n = [at |-> "commit", request |-> k.request, id |-> k.id,
                     secret |-> k.secret, remote |-> a]
             /\ a # 0
    <3>1. CompletionSound(p)'
      BY <1>4, <1>5, <2>1, <2>2, <2>5 DEF CompletionSound, Holds, HoldsNext
    <3> QED
      BY <1>3, <1>4, <1>5, <2>1, <3>1, CallsKept DEF RequestsGrow, PairInv, CompletionsInv
  <2> QED
    BY <1>6, <2>3, <2>4, <2>5
<1> QED
  BY <1>5, <1>8, <1>9 DEF PairInv

LEMMA LateSound ==
  ASSUME NEW rs, NEW cs, NEW ps, PairInv(rs, cs, ps), NEW x \in late, Served(x),
         late' = late \ {x}, UNCHANGED <<request, linkCall, prepared, returned>>
  PROVE  PairInv(rs, cs, ps)' /\ RowsGrow
<1>1. x \in MessageOf(rs, cs) /\ x.secret = x.id /\ prepared \in 0 .. MaxLinks
      /\ prepared <= prepared'
  BY LinkBounds DEF PairInv, PairTypes, CompletionsInv
<1>2. /\ code' \in [cs -> CodeOf(rs)] /\ RowTypesNext
      /\ RowsInv' /\ RequestsInv(rs, cs)' /\ RowsGrow
  BY <1>1, ServedSound
<1>3. CompletionsInv(ps)'
  <2>1. RequestsGrow(rs)
    BY <1>1 DEF RequestsGrow
  <2>2. \A y \in late' : y.secret = y.id
    BY DEF PairInv, CompletionsInv
  <2> QED
    BY <1>1, <1>2, <2>1, <2>2, CallsKept
<1> QED
  BY <1>1, <1>2, <1>3 DEF PairInv, PairTypes, RowTypesNext

(* The initiator records the link of a request that is still open.          *)
Records(p) ==
  LET r == linkCall[p].request  l == linkCall[p].id IN
  /\ linkCall[p].at = "commit" /\ request[r].status = "open"
  /\ Replaces("i", l, [status |-> "active", remote |-> linkCall[p].remote,
                       secret |-> linkCall[p].secret])
  /\ request' = [request EXCEPT ![r] = [@ EXCEPT !.status = "consumed", !.exchange = 0, !.link = l]]
  /\ returned' = [returned EXCEPT ![r] = @ \cup {l}]
  /\ linkCall' = [linkCall EXCEPT ![p] = [at |-> "idle"]]
  /\ UNCHANGED <<code, late, prepared>>

LEMMA PairingRecords ==
  ASSUME NEW rs, NEW cs, NEW ps, PairTypes(rs, cs, ps), NEW p \in ps, linkCall[p].at = "commit",
         Pairing!RecordLink(p) \/ PairingSends!RecordLink(p)
  PROVE  Records(p)
BY PairingReplaces DEF Records, Pairing!RecordLink, PairingSends!RecordLink, Pairing!NewLink,
  PairingSends!NewLink, Pairing!Consume, PairingSends!Consume, Pairing!Idle, PairingSends!Idle

LEMMA RecordsSound ==
  ASSUME NEW rs, NEW cs, NEW ps, PairInv(rs, cs, ps), NEW p \in ps, Records(p)
  PROVE  PairInv(rs, cs, ps)' /\ RowsGrow
<1> DEFINE row == [status |-> "active", remote |-> linkCall[p].remote,
                   secret |-> linkCall[p].secret]
<1>1. PICK k \in CommitOf(rs) : k = linkCall[p]
  BY DEF PairInv, PairTypes, Records, ExchangeOf
<1>2. PICK r \in rs, l \in LinkIds, a \in LinkIds :
        r = k.request /\ l = k.id /\ a = k.remote /\ k.secret \in LinkIds /\ k.at = "commit"
  BY <1>1 DEF CommitOf
<1>3. /\ k.secret = l /\ l <= prepared /\ request[r].exchange = l
      /\ Holds("a", a) /\ linkLink["a"][a].remote = l
  BY <1>1, <1>2 DEF PairInv, CompletionsInv, CompletionSound, Records
<1>4. /\ request[r].status = "open" /\ row \in RowOf
      /\ Replaces("i", l, row)
      /\ request' = [request EXCEPT ![r] = [request[r] EXCEPT !.status = "consumed",
                                              !.exchange = 0, !.link = l]]
      /\ returned' = [returned EXCEPT ![r] = @ \cup {l}]
      /\ linkCall' = [linkCall EXCEPT ![p] = [at |-> "idle"]]
      /\ UNCHANGED <<code, late, prepared>>
  BY <1>1, <1>2 DEF Records, RowOf, LinkIds
<1>5. ~Holds("i", l) /\ returned[r] = {} /\ l # 0
  BY <1>3, <1>4, LinkBounds DEF PairInv, RequestsInv, LinkIds
<1>6. /\ RowTypesNext
      /\ linkLink'["i"][l] = row /\ linkLink'["a"] = linkLink["a"]
      /\ \A j \in LinkIds \ {l} :
           /\ linkLink'["i"][j].remote = linkLink["i"][j].remote
           /\ linkLink'["i"][j].secret = linkLink["i"][j].secret
           /\ HoldsNext("i", j) <=> Holds("i", j)
           /\ ~UsesNext("i", j)
           /\ linkLink["i"][j].status = "revoked" => linkLink'["i"][j].status = "revoked"
      /\ \A t \in {"i", "a"}, j \in LinkIds :
           delivery'[t][j] = delivery[t][j] \/ (t = "i" /\ j = l)
  <2>1. PairTypes(rs, cs, ps) /\ "i" \in {"i", "a"} /\ "a" \in {"i", "a"} \ {"i"}
    BY DEF PairInv
  <2> HIDE DEF row
  <2>2. revoke' \in [{"i", "a"} -> [LinkIds -> {"none", "pending", "done", "failed"}]]
    BY <1>4 DEF Replaces
  <2> QED
    BY <1>4, <2>1, <2>2, ReplacedRows DEF RowTypesNext
<1> HIDE DEF row
<1>7. /\ row.remote = a /\ row.secret = l /\ HoldsNext("i", l)
  BY <1>1, <1>2, <1>3, <1>6 DEF row, HoldsNext
<1>8. RowsGrow
  BY <1>5, <1>6 DEF RowsGrow, Holds, HoldsNext
<1>9. /\ request' \in [rs -> RequestOf]
      /\ request'[r].status = "consumed" /\ request'[r].exchange = 0 /\ request'[r].link = l
      /\ \A q \in rs \ {r} : request'[q] = request[q]
  <2>1. l \in 0 .. MaxLinks
    BY LinkBounds DEF LinkIds
  <2>2. PICK e \in 0 .. MaxLinks : e = 0
    BY LinkBounds
  <2>3. request[r] \in RequestOf /\ request \in [rs -> RequestOf]
    BY DEF PairInv, PairTypes
  <2>4. PICK q \in RequestOf : q = request[r]
    BY <2>3
  <2>5. /\ Ended(q, e, l) \in RequestOf /\ Ended(q, e, l).status = "consumed"
        /\ Ended(q, e, l).exchange = e /\ Ended(q, e, l).link = l
    BY <2>1, EndedRow
  <2>6. request' = [request EXCEPT ![r] = Ended(q, e, l)]
    BY <1>4, <2>2, <2>4 DEF Ended
  <2> QED
    BY <2>2, <2>3, <2>5, <2>6
<1>10. RowsInv'
  <2>1. \E n \in 0 .. MaxLinks : \A j \in LinkIds : HoldsNext("a", j) <=> j <= n
    BY <1>6 DEF PairInv, RowsInv, Holds, HoldsNext
  <2>2. \A s \in {"i", "a"} : \A j, m \in LinkIds : UsesNext(s, j) /\ UsesNext(s, m) => j = m
    BY <1>6 DEF PairInv, RowsInv, InUse, UsesNext
  <2>3. \A s \in {"i", "a"}, j \in LinkIds : delivery'[s][j] # "none" => HoldsNext(s, j)
    BY <1>6, <1>7, <1>8 DEF PairInv, RowsInv, RowsGrow
  <2>4. \A j \in LinkIds :
          HoldsNext("a", j) => linkLink'["a"][j].secret = linkLink'["a"][j].remote
    BY <1>6 DEF PairInv, RowsInv, Holds, HoldsNext
  <2>5. ASSUME NEW j \in LinkIds, HoldsNext("i", j)
        PROVE  /\ j <= prepared' /\ linkLink'["i"][j].secret = j
               /\ linkLink'["i"][j].remote \in LinkIds
               /\ HoldsNext("a", linkLink'["i"][j].remote)
               /\ linkLink'["a"][linkLink'["i"][j].remote].remote = j
    <3>1. CASE j = l
      BY <1>3, <1>4, <1>6, <1>7, <3>1 DEF Holds, HoldsNext
    <3>2. CASE j # l
      BY <1>4, <1>6, <2>5, <3>2 DEF PairInv, RowsInv, Holds, HoldsNext
    <3> QED
      BY <3>1, <3>2
  <2> QED
    BY <2>1, <2>2, <2>3, <2>4, <2>5 DEF RowsInv, Holds, InUse, HoldsNext, UsesNext
<1>11. RequestsInv(rs, cs)'
  <2>1. \A q \in rs : request'[q].exchange # 0 =>
          q # r /\ request'[q] = request[q] /\ request[q].exchange # l
    BY <1>3, <1>5, <1>9 DEF PairInv, RequestsInv
  <2>2. \A q \in rs : request'[q].exchange # 0 =>
          /\ request'[q].exchange \in LinkIds /\ request'[q].status = "open"
          /\ ~HoldsNext("i", request'[q].exchange)
    <3>1. \A q \in rs : request[q].exchange \in 0 .. MaxLinks
      BY DEF PairInv, PairTypes, RequestOf
    <3> QED
      BY <1>6, <2>1, <3>1, LinkBounds DEF PairInv, RequestsInv, LinkIds
  <2>3. returned'[r] = {l} /\ \A q \in rs \ {r} : returned'[q] = returned[q]
    BY <1>4, <1>5 DEF PairInv, PairTypes
  <2>4. \A q \in rs : /\ request'[q].exchange <= prepared'
                      /\ returned'[q] \subseteq IF request'[q].status = "consumed"
                                                THEN {request'[q].link} ELSE {}
    BY <1>4, <1>9, <2>3, LinkBounds DEF PairInv, RequestsInv, PairTypes
  <2>5. \A c \in cs : code'[c].consumed => code'[c].link \in LinkIds /\ HoldsNext("a", code'[c].link)
    BY <1>4, <1>6 DEF PairInv, RequestsInv, Holds, HoldsNext
  <2>6. \A q, s \in rs : request'[s].exchange # 0 /\ request'[q].exchange = request'[s].exchange
                         => q = s
    BY <2>1 DEF PairInv, RequestsInv
  <2> QED
    BY <2>2, <2>4, <2>5, <2>6 DEF RequestsInv, Holds, HoldsNext
<1>12. PairTypes(rs, cs, ps)'
  <2>1. linkCall' \in [ps -> {[at |-> "idle"]} \cup ExchangeOf(rs, cs) \cup CommitOf(rs)]
    BY <1>4 DEF PairInv, PairTypes
  <2>2. returned' \in [rs -> SUBSET LinkIds]
    BY <1>4 DEF PairInv, PairTypes
  <2> QED
    BY <1>4, <1>6, <1>9, <2>1, <2>2 DEF PairInv, PairTypes, RowTypesNext
<1>13. CompletionsInv(ps)'
  <2>1. linkCall'[p] = [at |-> "idle"] /\ \A q \in ps \ {p} : linkCall'[q] = linkCall[q]
    BY <1>4 DEF PairInv, PairTypes
  <2>2. CompletionSound(p)'
    BY <2>1 DEF CompletionSound
  <2>3. RequestsGrow(rs)
    BY <1>4, <1>9, LinkBounds DEF RequestsGrow, PairInv, PairTypes
  <2>4. prepared' \in 0 .. MaxLinks /\ \A x \in late' : x.secret = x.id
    BY <1>4 DEF PairInv, PairTypes, CompletionsInv
  <2> QED
    BY <1>8, <2>1, <2>2, <2>3, <2>4, CallsKept
<1> QED
  BY <1>8, <1>10, <1>11, <1>12, <1>13 DEF PairInv

-----------------------------------------------------------------------------
(* Between completions a link only ages: a disconnection, a revoke job, an  *)
(* event or the answer to one changes its status, and revives none.         *)
RowsAge ==
  \A s \in {"i", "a"}, l \in LinkIds :
    /\ linkLink'[s][l].remote = linkLink[s][l].remote
    /\ linkLink'[s][l].secret = linkLink[s][l].secret
    /\ HoldsNext(s, l) <=> Holds(s, l)
    /\ UsesNext(s, l) => InUse(s, l)
    /\ linkLink[s][l].status = "revoked" => linkLink'[s][l].status = "revoked"

Ages ==
  /\ linkLink' \in [{"i", "a"} -> [LinkIds -> RowOf]] /\ RowsAge
  /\ revoke' \in [{"i", "a"} -> [LinkIds -> {"none", "pending", "done", "failed"}]]
  /\ delivery' \in [{"i", "a"} ->
       [LinkIds -> {"none", "pending", "delivered", "unauthorized", "revoked"}]]
  /\ \A s \in {"i", "a"}, l \in LinkIds :
       delivery'[s][l] = "none" \/ delivery[s][l] # "none" \/ Holds(s, l)
  /\ UNCHANGED <<request, code, linkCall, late, prepared, returned>>

LEMMA AgesSound ==
  ASSUME NEW rs, NEW cs, NEW ps, PairInv(rs, cs, ps), Ages
  PROVE  PairInv(rs, cs, ps)' /\ RowsGrow
<1>1. RowsGrow
  BY DEF Ages, RowsAge, RowsGrow
<1>2. prepared \in 0 .. MaxLinks /\ prepared' = prepared /\ prepared <= prepared'
  BY LinkBounds DEF Ages, PairInv, PairTypes
<1>3. PairTypes(rs, cs, ps)'
  BY DEF Ages, PairInv, PairTypes
<1>4. RowsInv'
  <2>1. \E n \in 0 .. MaxLinks : \A l \in LinkIds : HoldsNext("a", l) <=> l <= n
    BY DEF Ages, RowsAge, PairInv, RowsInv
  <2>2. \A s \in {"i", "a"} : \A k, l \in LinkIds : UsesNext(s, k) /\ UsesNext(s, l) => k = l
    BY DEF Ages, RowsAge, PairInv, RowsInv
  <2>3. \A s \in {"i", "a"}, l \in LinkIds : delivery'[s][l] # "none" => HoldsNext(s, l)
    BY DEF Ages, RowsAge, PairInv, RowsInv
  <2>4. \A l \in LinkIds :
          /\ HoldsNext("a", l) => linkLink'["a"][l].secret = linkLink'["a"][l].remote
          /\ HoldsNext("i", l) =>
               /\ l <= prepared' /\ linkLink'["i"][l].secret = l
               /\ linkLink'["i"][l].remote \in LinkIds
               /\ HoldsNext("a", linkLink'["i"][l].remote)
               /\ linkLink'["a"][linkLink'["i"][l].remote].remote = l
    BY <1>2 DEF Ages, RowsAge, PairInv, RowsInv
  <2> QED
    BY <2>1, <2>2, <2>3, <2>4 DEF RowsInv, Holds, InUse, HoldsNext, UsesNext
<1>5. RequestsInv(rs, cs)'
  <2>1. \A r \in rs : request[r].exchange # 0 => request[r].exchange \in LinkIds
    BY LinkBounds DEF PairInv, PairTypes, RequestOf, LinkIds
  <2>2. \A s \in {"i", "a"}, l \in LinkIds : HoldsNext(s, l) <=> Holds(s, l)
    BY DEF Ages, RowsAge
  <2> QED
    BY <2>1, <2>2 DEF Ages, PairInv, RequestsInv, Holds, HoldsNext
<1>6. CompletionsInv(ps)'
  <2>1. RequestsGrow(rs)
    BY <1>2 DEF Ages, RequestsGrow
  <2> QED
    BY <1>1, <1>2, <2>1, CallsKept DEF Ages, PairInv, CompletionsInv
<1> QED
  BY <1>1, <1>3, <1>4, <1>5, <1>6 DEF PairInv

LEMMA TurnedRow ==
  ASSUME NEW q \in RowOf, NEW st \in {"active", "needs_attention", "revoked"}
  PROVE  /\ [q EXCEPT !.status = st] \in RowOf /\ [q EXCEPT !.status = st].status = st
         /\ [q EXCEPT !.status = st].remote = q.remote
         /\ [q EXCEPT !.status = st].secret = q.secret
BY DEF RowOf

LEMMA TurnSound ==
  ASSUME NEW rs, NEW cs, NEW ps, PairTypes(rs, cs, ps), NEW s \in {"i", "a"}, NEW l \in LinkIds,
         NEW st \in {"active", "needs_attention", "revoked"},
         Holds(s, l), linkLink[s][l].status = "revoked" => st = "revoked",
         linkLink' = [linkLink EXCEPT ![s][l] = [linkLink[s][l] EXCEPT !.status = st]]
  PROVE  linkLink' \in [{"i", "a"} -> [LinkIds -> RowOf]] /\ RowsAge
<1>1. linkLink \in [{"i", "a"} -> [LinkIds -> RowOf]] /\ linkLink[s][l] \in RowOf
  BY DEF PairTypes
<1>0. PICK q \in RowOf : q = linkLink[s][l]
  BY <1>1
<1> DEFINE row == [q EXCEPT !.status = st]
<1>7. row \in RowOf /\ row.status = st /\ row.remote = q.remote /\ row.secret = q.secret
  BY TurnedRow
<1>3. linkLink' = [linkLink EXCEPT ![s] = [linkLink[s] EXCEPT ![l] = row]]
  BY <1>0
<1>2. /\ row \in RowOf /\ row.status = st /\ row.remote = linkLink[s][l].remote
      /\ row.secret = linkLink[s][l].secret
  BY <1>0, <1>7
<1> HIDE DEF row
<1>4. /\ linkLink' \in [{"i", "a"} -> [LinkIds -> RowOf]] /\ linkLink'[s][l] = row
      /\ \A t \in {"i", "a"}, k \in LinkIds : t # s \/ k # l => linkLink'[t][k] = linkLink[t][k]
  BY <1>1, <1>2, <1>3
<1>5. linkLink[s][l].status \in {"active", "needs_attention", "revoked"}
  BY <1>1 DEF Holds, RowOf
<1>6. RowsAge
  BY <1>2, <1>4, <1>5 DEF RowsAge, Holds, HoldsNext, InUse, UsesNext
<1> QED
  BY <1>4, <1>6

LEMMA SameRowsAge ==
  ASSUME NEW rs, NEW cs, NEW ps, PairTypes(rs, cs, ps), linkLink' = linkLink
  PROVE  linkLink' \in [{"i", "a"} -> [LinkIds -> RowOf]] /\ RowsAge
BY DEF PairTypes, RowsAge, Holds, HoldsNext, InUse, UsesNext

Disconnects(s, l) == Pairing!Disconnect(s, l) \/ PairingSends!Disconnect(s, l)
RevokesPeer(s, l) == Pairing!RevokePeer(s, l) \/ PairingSends!RevokePeer(s, l)
Sends(s, l) ==
  \/ Pairing!Emit(s, l) \/ Pairing!Deliver(s, l) \/ Pairing!RecordDelivery(s, l)
  \/ PairingSends!Emit(s, l) \/ PairingSends!Deliver(s, l) \/ PairingSends!RecordDelivery(s, l)

LEMMA DisconnectAges ==
  ASSUME NEW rs, NEW cs, NEW ps, PairInv(rs, cs, ps), NEW s \in {"i", "a"}, NEW l \in LinkIds,
         Disconnects(s, l)
  PROVE  Ages
<1>1. /\ InUse(s, l) /\ UNCHANGED <<request, code, delivery, linkCall, late, prepared, returned>>
      /\ linkLink' = [linkLink EXCEPT ![s][l] = [linkLink[s][l] EXCEPT !.status = "revoked"]]
      /\ revoke' = [revoke EXCEPT ![s] =
           [k \in LinkIds |-> IF k \in {l} THEN "pending" ELSE revoke[s][k]]]
  BY DEF Disconnects, Pairing!Disconnect, PairingSends!Disconnect, Pairing!Usable,
    PairingSends!Usable, InUse, Pairing!Revoked, PairingSends!Revoked, Pairing!QueueRevokes,
    PairingSends!QueueRevokes, Pairing!Ids, PairingSends!Ids, LinkIds
<1>2. Holds(s, l) /\ PairTypes(rs, cs, ps)
  BY <1>1 DEF InUse, Holds, PairInv
<1>3. linkLink' \in [{"i", "a"} -> [LinkIds -> RowOf]] /\ RowsAge
  BY <1>1, <1>2, TurnSound
<1> QED
  BY <1>1, <1>2, <1>3 DEF Ages, PairTypes

LEMMA RevokeAges ==
  ASSUME NEW rs, NEW cs, NEW ps, PairInv(rs, cs, ps), NEW s \in {"i", "a"}, NEW l \in LinkIds,
         RevokesPeer(s, l)
  PROVE  Ages
<1> DEFINE t == IF s = "i" THEN "a" ELSE "i"
<1>1. PICK m : m = linkLink[s][l].remote
  OBVIOUS
<1>2. m \in 0 .. MaxLinks /\ t \in {"i", "a"} /\ PairTypes(rs, cs, ps)
  BY <1>1 DEF PairInv, PairTypes, RowOf
<1>3. /\ UNCHANGED <<request, code, delivery, linkCall, late, prepared, returned>>
      /\ revoke' \in [{"i", "a"} -> [LinkIds -> {"none", "pending", "done", "failed"}]]
      /\ \/ linkLink' = linkLink
         \/ /\ m # 0 /\ linkLink[t][m].status # "none"
            /\ linkLink' = [linkLink EXCEPT ![t][m] = [linkLink[t][m] EXCEPT !.status = "revoked"]]
  <2>1. UNCHANGED <<request, code, delivery, linkCall, late, prepared, returned>>
    BY DEF RevokesPeer, Pairing!RevokePeer, PairingSends!RevokePeer
  <2>2. \E v \in {"pending", "done", "failed"} : revoke' = [revoke EXCEPT ![s][l] = v]
    BY DEF RevokesPeer, Pairing!RevokePeer, PairingSends!RevokePeer
  <2>3. revoke' \in [{"i", "a"} -> [LinkIds -> {"none", "pending", "done", "failed"}]]
    BY <1>2, <2>2 DEF PairTypes
  <2>4. Pairing!Peer(s) = t /\ PairingSends!Peer(s) = t
    BY DEF Pairing!Peer, PairingSends!Peer
  <2> HIDE DEF t
  <2>5. \/ linkLink' = linkLink
        \/ /\ m # 0 /\ linkLink[t][m].status # "none"
           /\ linkLink' = [linkLink EXCEPT ![t][m] = [linkLink[t][m] EXCEPT !.status = "revoked"]]
    BY <1>1, <2>4 DEF RevokesPeer, Pairing!RevokePeer, PairingSends!RevokePeer, Pairing!Known,
      PairingSends!Known, Pairing!RevokeFromPeer, PairingSends!RevokeFromPeer, Pairing!Revoked,
      PairingSends!Revoked
  <2> QED
    BY <2>1, <2>3, <2>5
<1> HIDE DEF t
<1>4. linkLink' \in [{"i", "a"} -> [LinkIds -> RowOf]] /\ RowsAge
  <2>1. CASE linkLink' = linkLink
    BY <1>2, <2>1, SameRowsAge
  <2>2. CASE /\ m # 0 /\ linkLink[t][m].status # "none"
             /\ linkLink' = [linkLink EXCEPT ![t][m] = [linkLink[t][m] EXCEPT !.status = "revoked"]]
    <3>1. m \in LinkIds /\ Holds(t, m)
      BY <1>2, <2>2, LinkBounds DEF LinkIds, Holds
    <3> QED
      BY <1>2, <2>2, <3>1, TurnSound
  <2> QED
    BY <1>3, <2>1, <2>2
<1> QED
  BY <1>2, <1>3, <1>4 DEF Ages, PairTypes

LEMMA SendsAge ==
  ASSUME NEW rs, NEW cs, NEW ps, PairInv(rs, cs, ps), NEW s \in {"i", "a"}, NEW l \in LinkIds,
         Sends(s, l)
  PROVE  Ages
<1>1. PairTypes(rs, cs, ps) /\ linkLink[s][l] \in RowOf
      /\ linkLink[s][l].status \in {"none", "active", "needs_attention", "revoked"}
      /\ (delivery[s][l] # "none" => Holds(s, l))
  BY DEF PairInv, PairTypes, RowsInv, RowOf
<1>2. /\ UNCHANGED <<request, code, revoke, linkCall, late, prepared, returned>>
      /\ delivery' \in [{"i", "a"} ->
           [LinkIds -> {"none", "pending", "delivered", "unauthorized", "revoked"}]]
      /\ \A t \in {"i", "a"}, k \in LinkIds :
           delivery'[t][k] = "none" \/ delivery[t][k] # "none" \/ Holds(t, k)
      /\ \/ linkLink' = linkLink
         \/ /\ delivery[s][l] # "none"
            /\ \E st \in {"active", "needs_attention", "revoked"} :
                 /\ linkLink[s][l].status = "revoked" => st = "revoked"
                 /\ linkLink' = [linkLink EXCEPT ![s][l] = [linkLink[s][l] EXCEPT !.status = st]]
  <2>1. CASE Pairing!Emit(s, l) \/ PairingSends!Emit(s, l)
    BY <1>1, <2>1 DEF Pairing!Emit, PairingSends!Emit, PairTypes, Holds
  <2>2. CASE Pairing!Deliver(s, l) \/ PairingSends!Deliver(s, l)
    <3>1. \A peer : /\ Pairing!PeerAction(peer) \in {"unauthorized", "revoked", "delivered"}
                    /\ PairingSends!PeerAction(peer) \in {"unauthorized", "revoked", "delivered"}
      BY DEF Pairing!PeerAction, PairingSends!PeerAction
    <3>2. /\ delivery[s][l] = "pending"
          /\ \E v \in {"none", "unauthorized", "revoked", "delivered"} :
               delivery' = [delivery EXCEPT ![s][l] = v]
          /\ UNCHANGED <<request, code, linkLink, revoke, linkCall, late, prepared, returned>>
      BY <2>2, <3>1 DEF Pairing!Deliver, PairingSends!Deliver
    <3> QED
      BY <1>1, <3>2 DEF PairTypes
  <2>3. CASE Pairing!RecordDelivery(s, l) \/ PairingSends!RecordDelivery(s, l)
    <3> DEFINE st == Pairing!AfterDelivery(linkLink[s][l].status, delivery[s][l])
    <3>1. /\ delivery[s][l] # "none"
          /\ UNCHANGED <<request, code, revoke, linkCall, late, prepared, returned>>
          /\ linkLink' = [linkLink EXCEPT ![s][l] = [linkLink[s][l] EXCEPT !.status = st]]
          /\ delivery' = [delivery EXCEPT ![s][l] = "none"]
      BY <2>3 DEF Pairing!RecordDelivery, PairingSends!RecordDelivery, Pairing!AfterDelivery,
        PairingSends!AfterDelivery
    <3>2. st \in {"active", "needs_attention", "revoked"}
          /\ (linkLink[s][l].status = "revoked" => st = "revoked")
      BY <1>1, <3>1 DEF Pairing!AfterDelivery, Holds
    <3>3. /\ delivery' \in [{"i", "a"} ->
               [LinkIds -> {"none", "pending", "delivered", "unauthorized", "revoked"}]]
          /\ \A t \in {"i", "a"}, k \in LinkIds :
               delivery'[t][k] = "none" \/ delivery[t][k] # "none"
      BY <1>1, <3>1 DEF PairTypes
    <3> HIDE DEF st
    <3> QED
      BY <3>1, <3>2, <3>3
  <2> QED
    BY <2>1, <2>2, <2>3 DEF Sends
<1>3. linkLink' \in [{"i", "a"} -> [LinkIds -> RowOf]] /\ RowsAge
  <2>1. CASE linkLink' = linkLink
    BY <1>1, <2>1, SameRowsAge
  <2>2. CASE linkLink' # linkLink
    <3>1. PICK st \in {"active", "needs_attention", "revoked"} :
            /\ delivery[s][l] # "none" /\ (linkLink[s][l].status = "revoked" => st = "revoked")
            /\ linkLink' = [linkLink EXCEPT ![s][l] = [linkLink[s][l] EXCEPT !.status = st]]
      BY <1>2, <2>2
    <3> QED
      BY <1>1, <3>1, TurnSound
  <2> QED
    BY <2>1, <2>2
<1> QED
  BY <1>1, <1>2, <1>3 DEF Ages, PairTypes

-----------------------------------------------------------------------------
(* Every step of either run is one of these.                                *)
PairMoves(rs, cs, ps) ==
  \/ \E r \in rs : Starts(rs, r)
  \/ \E r \in rs, c \in cs : Pairing!Authorize(c, r)
  \/ \E p \in ps, r \in rs : Pairing!ReturnExisting(p, r)
  \/ \E p \in ps, r \in rs, c \in cs : Pairing!PrepareExchange(p, r, c)
  \/ \E p \in ps : Exchanges(p) \/ Records(p) \/ Pairing!Crash(p)
  \/ \E x \in late : /\ Served(x) /\ late' = late \ {x}
                     /\ UNCHANGED <<request, linkCall, prepared, returned>>
  \/ Ages

LEMMA PairMovesSound ==
  ASSUME NEW rs, NEW cs, NEW ps, PairInv(rs, cs, ps), PairMoves(rs, cs, ps)
  PROVE  PairInv(rs, cs, ps)' /\ RowsGrow
<1>0. RowsSame => RowsGrow
  BY DEF RowsSame, RowsGrow, Holds, HoldsNext
<1>1. ASSUME NEW r \in rs, Starts(rs, r) PROVE PairInv(rs, cs, ps)' /\ RowsGrow
  BY <1>0, <1>1, StartsSound DEF Starts
<1>2. ASSUME NEW r \in rs, NEW c \in cs, Pairing!Authorize(c, r)
      PROVE  PairInv(rs, cs, ps)' /\ RowsGrow
  BY <1>2, AuthorizesSound DEF Pairing!Authorize, RowsGrow, Holds, HoldsNext
<1>3. ASSUME NEW p \in ps, NEW r \in rs, Pairing!ReturnExisting(p, r)
      PROVE  PairInv(rs, cs, ps)' /\ RowsGrow
  BY <1>0, <1>3, ReturnsSound DEF Pairing!ReturnExisting, RowsSame
<1>4. ASSUME NEW p \in ps, NEW r \in rs, NEW c \in cs, Pairing!PrepareExchange(p, r, c)
      PROVE  PairInv(rs, cs, ps)' /\ RowsGrow
  BY <1>0, <1>4, PreparesSound DEF Pairing!PrepareExchange, RowsSame
<1>5. ASSUME NEW p \in ps, Exchanges(p) PROVE PairInv(rs, cs, ps)' /\ RowsGrow
  BY <1>5, ExchangesSound
<1>6. ASSUME NEW p \in ps, Records(p) PROVE PairInv(rs, cs, ps)' /\ RowsGrow
  BY <1>6, RecordsSound
<1>7. ASSUME NEW p \in ps, Pairing!Crash(p) PROVE PairInv(rs, cs, ps)' /\ RowsGrow
  BY <1>0, <1>7, CrashesSound DEF Pairing!Crash, RowsSame
<1>8. ASSUME NEW x \in late, Served(x), late' = late \ {x},
             UNCHANGED <<request, linkCall, prepared, returned>>
      PROVE  PairInv(rs, cs, ps)' /\ RowsGrow
  BY <1>8, LateSound
<1>9. CASE Ages
  BY <1>9, AgesSound
<1> QED
  BY <1>1, <1>2, <1>3, <1>4, <1>5, <1>6, <1>7, <1>8, <1>9 DEF PairMoves

(* A request that is over stays as it is.                                   *)
LEMMA PairMovesKeep ==
  ASSUME NEW rs, NEW cs, NEW ps, PairInv(rs, cs, ps), PairMoves(rs, cs, ps),
         NEW q \in rs, request[q].status = "consumed"
  PROVE  request'[q] = request[q]
<1>0. request \in [rs -> RequestOf]
  BY DEF PairInv, PairTypes
<1>1. ASSUME NEW r \in rs, Starts(rs, r) PROVE request'[q] = request[q]
  <2>1. q # r /\ request'[q] = Superseded(request[q])
    BY <1>1 DEF Starts
  <2> QED
    BY <2>1 DEF Superseded
<1>2. ASSUME NEW p \in ps, NEW r \in rs, NEW c \in cs, Pairing!PrepareExchange(p, r, c)
      PROVE  request'[q] = request[q]
  <2>1. r # q /\ \E e : request' = [request EXCEPT ![r] = e]
    BY <1>2 DEF Pairing!PrepareExchange
  <2> QED
    BY <1>0, <2>1
<1>3. ASSUME NEW p \in ps, Records(p) PROVE request'[q] = request[q]
  <2>1. \E r : r # q /\ \E e : request' = [request EXCEPT ![r] = e]
    BY <1>3 DEF Records
  <2> QED
    BY <1>0, <2>1
<1>4. PairMoves(rs, cs, ps) =>
        \/ request' = request
        \/ \E r \in rs : Starts(rs, r)
        \/ \E p \in ps, r \in rs, c \in cs : Pairing!PrepareExchange(p, r, c)
        \/ \E p \in ps : Records(p)
  BY DEF PairMoves, Pairing!Authorize, Pairing!ReturnExisting, Exchanges, Pairing!Crash, Ages
<1> QED
  BY <1>1, <1>2, <1>3, <1>4

(* The two runs take these steps.                                           *)
LEMMA CompletionsMove ==
  ASSUME NEW rs, NEW cs, NEW ps, PairInv(rs, cs, ps), NEW p \in ps,
         Pairing!Commit(p) \/ PairingSends!Commit(p)
  PROVE  PairMoves(rs, cs, ps)
<1>1. linkCall[p] \in CommitOf(rs) /\ linkCall[p].at = "commit" /\ PairTypes(rs, cs, ps)
  BY DEF PairInv, PairTypes, ExchangeOf, Pairing!Commit, PairingSends!Commit
<1>2. linkCall[p].request \in rs
  BY <1>1 DEF CommitOf
<1>3. CASE Pairing!RecordLink(p) \/ PairingSends!RecordLink(p)
  BY <1>1, <1>3, PairingRecords DEF PairMoves
<1>4. CASE \/ Pairing!ReturnExisting(p, linkCall[p].request)
           \/ PairingSends!ReturnExisting(p, linkCall[p].request)
  <2>1. Pairing!ReturnExisting(p, linkCall[p].request)
    BY <1>4 DEF Pairing!ReturnExisting, PairingSends!ReturnExisting, Pairing!Return,
      PairingSends!Return, Pairing!Idle, PairingSends!Idle
  <2> QED
    BY <1>2, <2>1 DEF PairMoves
<1> QED
  BY <1>3, <1>4 DEF Pairing!Commit, PairingSends!Commit

LEMMA ExchangesMove ==
  ASSUME NEW rs, NEW cs, NEW ps, PairInv(rs, cs, ps)
  PROVE  /\ \A p \in ps : Pairing!Exchange(p) \/ PairingSends!Exchange(p) => PairMoves(rs, cs, ps)
         /\ \A x \in late : Pairing!LateExchange(x) \/ PairingSends!LateExchange(x)
                             => PairMoves(rs, cs, ps)
<1>1. PairTypes(rs, cs, ps)
  BY DEF PairInv
<1>2. ASSUME NEW x \in late, Pairing!LateExchange(x) \/ PairingSends!LateExchange(x)
      PROVE  PairMoves(rs, cs, ps)
  <2>1. Served(x)
    BY <1>1, <1>2, PairingServes DEF Pairing!LateExchange, PairingSends!LateExchange
  <2> QED
    BY <1>2, <2>1 DEF PairMoves, Pairing!LateExchange, PairingSends!LateExchange
<1> QED
  BY <1>1, <1>2, PairingExchanges DEF PairMoves

LEMMA LinksAge ==
  ASSUME NEW rs, NEW cs, NEW ps, PairInv(rs, cs, ps), NEW s \in {"i", "a"}, NEW l \in LinkIds,
         Disconnects(s, l) \/ RevokesPeer(s, l) \/ Sends(s, l)
  PROVE  PairMoves(rs, cs, ps)
BY DisconnectAges, RevokeAges, SendsAge DEF PairMoves

LEMMA PairingMoves ==
  ASSUME PairInv(Requests, Codes, Completers), Pairing!Next
  PROVE  PairMoves(Requests, Codes, Completers)
<1>1. ASSUME NEW r \in Requests, Pairing!Start(r) PROVE PairMoves(Requests, Codes, Completers)
  BY <1>1 DEF PairMoves, Starts, RowsSame, Superseded, Pairing!Start, Pairing!Supersede
<1>2. ASSUME NEW p \in Completers, NEW r \in Requests, Pairing!CompleteAgain(p, r)
      PROVE  PairMoves(Requests, Codes, Completers)
  BY <1>2 DEF PairMoves, Pairing!CompleteAgain
<1>3. ASSUME NEW s \in {"i", "a"}, NEW l \in LinkIds,
             \/ Pairing!Disconnect(s, l) \/ Pairing!RevokePeer(s, l) \/ Pairing!Emit(s, l)
             \/ Pairing!Deliver(s, l) \/ Pairing!RecordDelivery(s, l)
      PROVE  PairMoves(Requests, Codes, Completers)
  BY <1>3, LinksAge DEF Disconnects, RevokesPeer, Sends
<1>4. \/ \E r \in Requests : Pairing!Start(r) \/ \E c \in Codes : Pairing!Authorize(c, r)
      \/ \E p \in Completers, r \in Requests :
           Pairing!CompleteAgain(p, r) \/ \E c \in Codes : Pairing!PrepareExchange(p, r, c)
      \/ \E p \in Completers : Pairing!Exchange(p) \/ Pairing!Commit(p) \/ Pairing!Crash(p)
      \/ \E x \in late : Pairing!LateExchange(x)
      \/ \E s \in {"i", "a"}, l \in LinkIds :
           \/ Pairing!Disconnect(s, l) \/ Pairing!RevokePeer(s, l) \/ Pairing!Emit(s, l)
           \/ Pairing!Deliver(s, l) \/ Pairing!RecordDelivery(s, l)
  BY DEF Pairing!Next, Pairing!Sides, Pairing!Ids, LinkIds
<1>5. /\ \A r \in Requests, c \in Codes : Pairing!Authorize(c, r) => PairMoves(Requests, Codes, Completers)
      /\ \A p \in Completers, r \in Requests, c \in Codes :
           Pairing!PrepareExchange(p, r, c) => PairMoves(Requests, Codes, Completers)
      /\ \A p \in Completers : Pairing!Crash(p) => PairMoves(Requests, Codes, Completers)
  BY DEF PairMoves
<1> QED
  BY <1>1, <1>2, <1>3, <1>4, <1>5, CompletionsMove, ExchangesMove

LEMMA PairingSendsMoves ==
  ASSUME PairInv({a1}, Codes, {p1}), PairingSends!Next
  PROVE  PairMoves({a1}, Codes, {p1})
<1>1. PairingSends!Start(a1) => PairMoves({a1}, Codes, {p1})
  <2>1. PairingSends!Start(a1) => Starts({a1}, a1)
    BY DEF Starts, RowsSame, Superseded, PairingSends!Start, PairingSends!Supersede
  <2> QED
    BY <2>1 DEF PairMoves
<1>2. \A c : PairingSends!Authorize(c, a1) => Pairing!Authorize(c, a1)
  BY DEF PairingSends!Authorize, Pairing!Authorize
<1>3. PairingSends!CompleteAgain(p1, a1) => Pairing!ReturnExisting(p1, a1)
  BY DEF PairingSends!CompleteAgain, PairingSends!ReturnExisting, Pairing!ReturnExisting,
    Pairing!Return, PairingSends!Return, Pairing!Idle, PairingSends!Idle
<1>4. \A c : PairingSends!PrepareExchange(p1, a1, c) => Pairing!PrepareExchange(p1, a1, c)
  BY DEF PairingSends!PrepareExchange, Pairing!PrepareExchange, Pairing!Idle, PairingSends!Idle
<1>5. PairingSends!Crash(p1) => Pairing!Crash(p1)
  BY DEF PairingSends!Crash, Pairing!Crash, Pairing!Idle, PairingSends!Idle
<1>6. ASSUME NEW s \in {"i", "a"}, NEW l \in LinkIds,
             \/ PairingSends!Disconnect(s, l) \/ PairingSends!RevokePeer(s, l)
             \/ PairingSends!Emit(s, l) \/ PairingSends!Deliver(s, l)
             \/ PairingSends!RecordDelivery(s, l)
      PROVE  PairMoves({a1}, Codes, {p1})
  BY <1>6, LinksAge DEF Disconnects, RevokesPeer, Sends
<1>7. \/ PairingSends!Start(a1) \/ \E c \in Codes : PairingSends!Authorize(c, a1)
      \/ PairingSends!CompleteAgain(p1, a1)
      \/ \E c \in Codes : PairingSends!PrepareExchange(p1, a1, c)
      \/ PairingSends!Exchange(p1) \/ PairingSends!Commit(p1) \/ PairingSends!Crash(p1)
      \/ \E x \in late : PairingSends!LateExchange(x)
      \/ \E s \in {"i", "a"}, l \in LinkIds :
           \/ PairingSends!Disconnect(s, l) \/ PairingSends!RevokePeer(s, l)
           \/ PairingSends!Emit(s, l) \/ PairingSends!Deliver(s, l)
           \/ PairingSends!RecordDelivery(s, l)
  BY DEF PairingSends!Next, PairingSends!Sides, PairingSends!Ids, LinkIds
<1>8. /\ \A c \in Codes : Pairing!Authorize(c, a1) => PairMoves({a1}, Codes, {p1})
      /\ Pairing!ReturnExisting(p1, a1) => PairMoves({a1}, Codes, {p1})
      /\ \A c \in Codes : Pairing!PrepareExchange(p1, a1, c) => PairMoves({a1}, Codes, {p1})
      /\ Pairing!Crash(p1) => PairMoves({a1}, Codes, {p1})
  BY DEF PairMoves
<1>9. PairingSends!Exchange(p1) \/ PairingSends!Commit(p1) => PairMoves({a1}, Codes, {p1})
  BY CompletionsMove, ExchangesMove
<1>10. \A x \in late : PairingSends!LateExchange(x) => PairMoves({a1}, Codes, {p1})
  BY ExchangesMove
<1> QED
  BY <1>1, <1>2, <1>3, <1>4, <1>5, <1>6, <1>7, <1>8, <1>9, <1>10

LEMMA PairStart ==
  /\ Pairing!Init => PairInv(Requests, Codes, Completers)
  /\ PairingSends!Init => PairInv({a1}, Codes, {p1})
<1>1. /\ [status |-> "none", remote |-> 0, secret |-> 0] \in RowOf
      /\ [status |-> "none", exchange |-> 0, link |-> 0] \in RequestOf
      /\ 0 \in 0 .. MaxLinks
      /\ \A rs : [request |-> NoRequest, consumed |-> FALSE, link |-> 0] \in CodeOf(rs)
  BY LinkBounds DEF RowOf, RequestOf, CodeOf
<1>2. \A l \in LinkIds : ~(l <= 0)
  BY DEF LinkIds
<1>3. ASSUME Pairing!Init PROVE PairInv(Requests, Codes, Completers)
  <2>1. PairTypes(Requests, Codes, Completers)
    BY <1>1, <1>3 DEF Pairing!Init, PairTypes, Pairing!Sides, Pairing!Ids, LinkIds,
      Pairing!NoLink, Pairing!Idle
  <2>2. RowsInv
    BY <1>1, <1>2, <1>3 DEF Pairing!Init, RowsInv, Pairing!Sides, Pairing!Ids, LinkIds,
      Pairing!NoLink, Holds, InUse
  <2>3. RequestsInv(Requests, Codes) /\ CompletionsInv(Completers)
    BY <1>1, <1>3 DEF Pairing!Init, RequestsInv, CompletionsInv, CompletionSound, Pairing!Idle
  <2> QED
    BY <2>1, <2>2, <2>3 DEF PairInv
<1>4. ASSUME PairingSends!Init PROVE PairInv({a1}, Codes, {p1})
  <2>1. PairTypes({a1}, Codes, {p1})
    BY <1>1, <1>4 DEF PairingSends!Init, PairTypes, PairingSends!Sides, PairingSends!Ids, LinkIds,
      PairingSends!NoLink, PairingSends!Idle
  <2>2. RowsInv
    BY <1>1, <1>2, <1>4 DEF PairingSends!Init, RowsInv, PairingSends!Sides, PairingSends!Ids,
      LinkIds, PairingSends!NoLink, Holds, InUse
  <2>3. RequestsInv({a1}, Codes) /\ CompletionsInv({p1})
    BY <1>1, <1>4 DEF PairingSends!Init, RequestsInv, CompletionsInv, CompletionSound,
      PairingSends!Idle
  <2> QED
    BY <2>1, <2>2, <2>3 DEF PairInv
<1> QED
  BY <1>3, <1>4

(* What the invariant promises.                                             *)
LEMMA PairPromise ==
  /\ PairInv(Requests, Codes, Completers) =>
       /\ Pairing!TypeOK /\ Pairing!OneUsableLink
       /\ Pairing!PairsAgree /\ Pairing!RetriesReturnOneLink
  /\ PairInv({a1}, Codes, {p1}) => PairingSends!TypeOK
<1>1. ASSUME NEW S, \A x, y \in S : x = y PROVE Pairing!Cardinality(S) <= 1
  <2>1. CASE S = {}
    BY <2>1, PairingCardinality, FS_EmptySet
  <2>2. CASE S # {}
    <3>1. PICK x \in S : S = {x}
      BY <1>1, <2>2
    <3>2. Cardinality({x}) = 1
      BY FS_Singleton
    <3>3. Pairing!Cardinality({x}) = Cardinality({x})
      BY PairingCardinality
    <3> QED
      BY <3>1, <3>2, <3>3
  <2> QED
    BY <2>1, <2>2
<1>2. ASSUME PairInv(Requests, Codes, Completers)
      PROVE  /\ Pairing!TypeOK /\ Pairing!OneUsableLink
             /\ Pairing!PairsAgree /\ Pairing!RetriesReturnOneLink
  <2>1. Pairing!TypeOK
    BY <1>2 DEF PairInv, PairTypes, Pairing!TypeOK, RequestOf, CodeOf, RowOf, Pairing!Sides,
      Pairing!Ids, LinkIds
  <2>2. Pairing!OneUsableLink
    <3>1. ASSUME NEW s \in {"i", "a"} PROVE \A k, l \in Pairing!Usable(s) : k = l
      BY <1>2 DEF PairInv, RowsInv, Pairing!Usable, Pairing!Ids, LinkIds, InUse
    <3> QED
      BY <1>1, <3>1 DEF Pairing!OneUsableLink, Pairing!Sides
  <2>3. Pairing!PairsAgree
    BY <1>2, LinkBounds DEF PairInv, RowsInv, Pairing!PairsAgree, Pairing!Known, Holds,
      Pairing!Ids, LinkIds
  <2>4. Pairing!RetriesReturnOneLink
    <3>1. ASSUME NEW r \in Requests PROVE \A k, l \in returned[r] : k = l
      BY <1>2 DEF PairInv, RequestsInv
    <3> QED
      BY <1>1, <3>1 DEF Pairing!RetriesReturnOneLink
  <2> QED
    BY <2>1, <2>2, <2>3, <2>4
<1>3. PairInv({a1}, Codes, {p1}) => PairingSends!TypeOK
  BY DEF PairInv, PairTypes, PairingSends!TypeOK, RequestOf, CodeOf, RowOf, PairingSends!Sides,
    PairingSends!Ids, LinkIds
<1> QED
  BY <1>2, <1>3

LEMMA PairRests ==
  ASSUME NEW rs, NEW cs, NEW ps, PairInv(rs, cs, ps), UNCHANGED linkState
  PROVE  PairInv(rs, cs, ps)'
<1>1. PairTypes(rs, cs, ps)'
  BY DEF PairInv, PairTypes, linkState
<1>2. RowsInv'
  BY DEF PairInv, RowsInv, Holds, InUse, linkState
<1>3. RequestsInv(rs, cs)'
  BY DEF PairInv, RequestsInv, Holds, linkState
<1>4. CompletionsInv(ps)'
  BY DEF PairInv, CompletionsInv, CompletionSound, Holds, linkState
<1> QED
  BY <1>1, <1>2, <1>3, <1>4 DEF PairInv

LEMMA PairMachines ==
  /\ Init => /\ part = "link" => Pairing!Init
             /\ part = "sends" => PairingSends!Init
  /\ [Next]_vars => /\ part' = part
                    /\ part = "link" => Pairing!Next \/ UNCHANGED linkState
                    /\ part = "sends" => PairingSends!Next \/ UNCHANGED linkState
<1>1. Init => /\ part = "link" => Pairing!Init
              /\ part = "sends" => PairingSends!Init
  BY DEF Init, LinkStarts, RewardStarts, PlanStarts, HubStarts, TicketStarts
<1>2. [Next]_vars => /\ part' = part
                     /\ part = "link" => Pairing!Next \/ UNCHANGED linkState
                     /\ part = "sends" => PairingSends!Next \/ UNCHANGED linkState
  BY DEF Next, LinkMoves, RewardMoves, PlanMoves, HubMoves, TicketMoves, vars
<1> QED
  BY <1>1, <1>2

(* Either side uses at most one link with its peer and every link of the    *)
(* initiator's is the one the authorizer holds under the same secret,       *)
(* however completions, timed-out and late exchanges, disconnections and    *)
(* crashes interleave; a request returns one link at most and a superseded  *)
(* one none; and a revoked link stays revoked (baukit-suite links).         *)
THEOREM LinksPaired == Spec => LinksPair
<1>1. Init => PairingInv
  BY PairMachines, PairStart DEF PairingInv
<1>2. PairingInv /\ [Next]_vars =>
        /\ part = "link" => PairMoves(Requests, Codes, Completers) \/ UNCHANGED linkState
        /\ part = "sends" => PairMoves({a1}, Codes, {p1}) \/ UNCHANGED linkState
  BY PairMachines, PairingMoves, PairingSendsMoves DEF PairingInv
<1>3. PairingInv /\ [Next]_vars => PairingInv'
  BY <1>2, PairMachines, PairMovesSound, PairRests DEF PairingInv
<1>4. PairingInv => LinksPairHolds
  BY PairPromise DEF PairingInv, LinksPairHolds
<1>5. PairingInv /\ [Next]_vars => LinksPairSteps
  <2>1. PairingInv /\ [Next]_vars /\ part = "link" => Pairing!SupersededStaysDead
    BY <1>2, PairMovesKeep DEF PairingInv, Pairing!SupersededStaysDead, linkState
  <2>2. PairingInv /\ [Next]_vars /\ part = "sends" => PairingSends!RevokedIsFinal
    <3>1. RowsGrow => PairingSends!RevokedIsFinal
      BY DEF RowsGrow, PairingSends!RevokedIsFinal, PairingSends!Sides, PairingSends!Ids,
        LinkIds, Holds
    <3>2. UNCHANGED linkState => PairingSends!RevokedIsFinal
      BY DEF linkState, PairingSends!RevokedIsFinal
    <3> QED
      BY <1>2, <3>1, <3>2, PairMovesSound DEF PairingInv
  <2> QED
    BY <2>1, <2>2 DEF LinksPairSteps
<1> QED
  BY <1>1, <1>3, <1>4, <1>5, PTL DEF Spec, LinksPair

-----------------------------------------------------------------------------
(* Plans, for any callers cs, workers ws, bodies bs and lifetime of a       *)
(* ticket, until time last.                                                 *)
SnapsOf(life, last) ==
  [rev : 0 .. MaxRev, free : BOOLEAN, until : 0 .. (last + life + FreeLife)]
PlanLocks(cs) == 1 .. Cardinality(cs)
Pulling == {"locked", "missed again", "asking", "answered", "stored"}
PlanReadsOf(cs, life, last) ==
  [pc : Pulling \cup {"idle", "missed", "waiting", "refreshing", "done"},
   at : 0 .. last, lock : PlanLocks(cs) \cup {0}, rev : 0 .. MaxRev, floor : 0 .. MaxRev,
   ans : SnapsOf(life, last) \cup {None, Denied}]
WorkOf(bs, life, last) ==
  [pc : {"idle", "new", "asking", "prepared"}, ev : 0 .. MaxRev, body : bs \cup {None},
   rev : 0 .. MaxRev, ans : SnapsOf(life, last) \cup {None}]

PlanTypes(cs, ws, bs, life, last) ==
  /\ planNow \in 0 .. last
  /\ planHub \in [rev : 0 .. MaxRev, known : BOOLEAN]
  /\ planCache \in SnapsOf(life, last) \cup {None}
  /\ flight \in PlanLocks(cs) \cup {0}
  /\ planCall \in [cs -> PlanReadsOf(cs, life, last)]
  /\ work \in [ws -> WorkOf(bs, life, last)]
  /\ receipts \in [1 .. MaxRev -> bs \cup {None}]
  /\ acked \in [1 .. MaxRev -> SUBSET bs]
  /\ applied \in 0 .. MaxRev

(* A read k that holds a lock holds the one the map names, l. It takes what *)
(* is committed by then, n, as its floor, and what it serves is not older   *)
(* and had not expired when it began.                                       *)
PlanCallSound(k, t, n, l) ==
  /\ k.lock # 0 => k.lock = l
  /\ k.lock # 0 <=> k.pc \in Pulling \cup {"waiting"}
  /\ k.at <= t /\ k.floor <= n
  /\ k.pc = "answered" => k.ans # None
  /\ k.pc = "refreshing" => k.floor = 0
  /\ k.pc = "done" /\ k.ans \notin {None, Denied} => k.ans.rev >= k.floor /\ k.ans.until > k.at
PlanCallsInv(cs) ==
  /\ \A c \in cs : PlanCallSound(planCall[c], planNow, applied, flight)
  /\ \A c, d \in cs : planCall[c].pc \in Pulling /\ planCall[d].pc \in Pulling => c = d

(* What a delivery pulled is at least as new as its event.                  *)
WorkSound(k) ==
  /\ k.pc # "idle" => k.ev # 0 /\ k.body # None
  /\ k.pc \in {"asking", "prepared"} => k.rev >= k.ev
  /\ k.pc = "prepared" => k.ans # None /\ k.ans.rev >= k.ev
PlanWorkInv(ws) == \A w \in ws : WorkSound(work[w])

PlanInForce == applied > 0 => planCache # None /\ planCache.rev >= applied
PlanReceipts ==
  \A e \in 1 .. MaxRev : acked[e] \subseteq IF receipts[e] = None THEN {} ELSE {receipts[e]}

PlanInv(cs, ws, bs, life, last) ==
  /\ PlanTypes(cs, ws, bs, life, last)
  /\ PlanCallsInv(cs) /\ PlanWorkInv(ws) /\ PlanInForce /\ PlanReceipts

(* An exchange is shorter than the renewal margin and than half a lifetime. *)
HubMargin == Deadline <= Platform!Early /\ 2 * Deadline < Lifetime

(* The hub's token. The caller that asks for one holds the cache's lock. A  *)
(* token lives at least as long as its request's answer says, and the cache *)
(* lets go of it a margin earlier.                                          *)
HubCallOf ==
  [pc : {"idle", "token", "requesting", "issued", "send", "accepted", "refused", "done"},
   token : 0 .. MaxTokens, refreshed : BOOLEAN, asked : 0 .. HubMaxTime, sent : 0 .. 2,
   first : 0 .. MaxTokens, out : {None, HubAnswer, Unauthorized, Unavailable, Refused}]
HubCacheOf == [token : 1 .. MaxTokens, refreshAt : 0 .. (HubMaxTime + Lifetime)]

HubTypes ==
  /\ hubNow \in 0 .. HubMaxTime
  /\ hub \in [issued : 0 .. MaxTokens, expires : [1 .. MaxTokens -> Nat],
              revoked : SUBSET (1 .. MaxTokens)]
  /\ hubCache \in HubCacheOf \cup {None}
  /\ hubLock \in HubCallers \cup {None}
  /\ hubCall \in [HubCallers -> HubCallOf]
  /\ refused \in SUBSET (1 .. MaxTokens)
  /\ hubLeft \in [call : Int, fault : Int, revoke : 0 .. MaxRevocations]

HubCallSound(k, t, q, denied) ==
  /\ k.asked <= t
  /\ k.pc \in {"requesting", "issued", "send"} => t <= k.asked + Deadline
  /\ k.pc \in {"issued", "send", "accepted", "refused"} => k.token \in 1 .. q.issued
  /\ k.pc = "issued" => q.expires[k.token] >= k.asked + Lifetime
  /\ HubMargin /\ k.pc = "send" => k.asked + Deadline < q.expires[k.token]
  /\ k.pc \in {"token", "requesting", "issued", "send"} => k.sent = IF k.refreshed THEN 1 ELSE 0
  /\ k.pc = "refused" => k.token \in denied /\ (~k.refreshed => k.sent = 1)

HubCallsInv ==
  \A c \in HubCallers :
    /\ hubCall[c].pc \in {"requesting", "issued"} <=> hubLock = c
    /\ HubCallSound(hubCall[c], hubNow, hub, refused)

HubCacheInv ==
  hubCache # None => /\ hubCache.token \in 1 .. hub.issued
                     /\ hubCache.refreshAt + Platform!Early <= hub.expires[hubCache.token]

HubCalm == HubMargin /\ hubLeft.revoke = MaxRevocations => refused = {} /\ hub.revoked = {}

HubInv == HubTypes /\ HubCallsInv /\ HubCacheInv /\ HubCalm

(* The ticket keys. The caller that holds the lock is the one that fetches.  *)
(* A key in the cache is published or was withdrawn after the fetch, and a  *)
(* published one is in the cache or came later; an unknown key's fetch is   *)
(* under way, answered or failed.                                           *)
TicketCallOf ==
  [pc : {"idle", "first", "waiting", "missed", "fetching", "done"},
   key : Keys \cup {Forged, None}, claims : Claims \cup {"good"},
   out : {TicketAccepted, Invalid, Expired, WrongAudience, KeysUnavailable, None}]
KeyTimes == 0 - Ttl - Cooldown .. TicketMaxTime
KeyCacheOf ==
  [keys : SUBSET Keys, fetched : KeyTimes, attempted : KeyTimes, unknown : KeyTimes]
KeyFound(k, q, t) == t - q.fetched < Ttl /\ k \in q.keys

TicketTypes ==
  /\ ticketNow \in 0 .. TicketMaxTime
  /\ published \in SUBSET Keys
  /\ since \in [Keys -> Int] /\ until \in [Keys -> Int] /\ failed \in Int
  /\ ticketCache \in KeyCacheOf
  /\ ticketLock \in TicketCallers \cup {None}
  /\ ticketCall \in [TicketCallers -> TicketCallOf]
  /\ attempts \in [0 .. TicketMaxTime -> Nat]

KeysInv ==
  /\ ticketCache.fetched <= ticketNow /\ ticketCache.attempted <= ticketNow
  /\ ticketCache.unknown <= ticketNow
  /\ \A k \in ticketCache.keys : k \in published \/ until[k] >= ticketCache.fetched
  /\ \A k \in published : k \in ticketCache.keys \/ since[k] >= ticketCache.fetched

TicketCallsInv ==
  /\ \A c \in TicketCallers :
       /\ ticketCall[c].pc \in {"missed", "fetching"} <=> ticketLock = c
       /\ ticketCall[c].pc = "missed" => ~KeyFound(ticketCall[c].key, ticketCache, ticketNow)
  /\ \/ \E c \in TicketCallers : ticketCall[c].pc = "fetching"
     \/ ticketCache.fetched >= ticketCache.unknown \/ failed >= ticketCache.unknown

(* The fetches begun: those for an expired set follow any other after a     *)
(* cool-down, and those for an unknown key follow each other so.            *)
Apart(S) == \A t, u \in S : t = u \/ t - u >= Cooldown \/ u - t >= Cooldown
FetchKinds(stale, unknown) ==
  /\ \A t \in 0 .. TicketMaxTime :
       attempts[t] = (IF t \in stale THEN 1 ELSE 0) + (IF t \in unknown THEN 1 ELSE 0)
  /\ Apart(stale) /\ Apart(unknown)
  /\ \A t \in unknown : t <= ticketCache.unknown
  /\ \A t \in stale \cup unknown : t <= ticketCache.attempted
FetchesInv == \E stale, unknown \in SUBSET (0 .. TicketMaxTime) : FetchKinds(stale, unknown)

TicketInv == TicketTypes /\ KeysInv /\ TicketCallsInv /\ FetchesInv

PlatformInv ==
  /\ part = "plan" => PlanInv(PlanCallers, PlanWorkers, Bodies, Life, PlanMaxTime)
  /\ part = "events" => PlanInv({c1}, {w1, w2}, {b1, b2}, 1, 0)
  /\ part = "hub" => HubInv
  /\ part = "ticket" => TicketInv

-----------------------------------------------------------------------------
PlanParams(cs, bs, life, last) ==
  /\ IsFiniteSet(cs) /\ life \in Nat /\ life > 0 /\ last \in Nat
  /\ None \notin bs /\ None # Denied
  /\ None \notin SnapsOf(life, last) /\ Denied \notin SnapsOf(life, last)

LEMMA PlanBounds ==
  /\ MaxRev \in Nat /\ FreeLife \in Nat /\ FreeLife > 0 /\ None # Denied
  /\ PlanParams(PlanCallers, Bodies, Life, PlanMaxTime)
  /\ PlanParams({c1}, {b1, b2}, 1, 0)
<1>1. /\ MaxRev \in Nat /\ FreeLife \in Nat /\ FreeLife > 0 /\ None # Denied
      /\ Life \in Nat /\ Life > 0 /\ PlanMaxTime \in Nat
  BY SuiteAssumption DEF Platform!PlanAssumption
<1>2. PlanParams(PlanCallers, Bodies, Life, PlanMaxTime)
  <2>1. IsFiniteSet(PlanCallers)
    BY SuiteAssumption DEF Platform!PlanAssumption, Platform!IsFiniteSet, IsFiniteSet
  <2>2. /\ None \notin Bodies
        /\ None \notin SnapsOf(Life, PlanMaxTime) /\ Denied \notin SnapsOf(Life, PlanMaxTime)
    BY SuiteAssumption DEF Platform!PlanAssumption, Platform!Snapshots, SnapsOf
  <2> QED
    BY <1>1, <2>1, <2>2 DEF PlanParams
<1>3. PlanParams({c1}, {b1, b2}, 1, 0)
  <2>1. IsFiniteSet({c1})
    BY FS_Singleton
  <2>2. /\ None \notin {b1, b2}
        /\ None \notin SnapsOf(1, 0) /\ Denied \notin SnapsOf(1, 0)
    BY SuiteAssumption DEF PlatformEvents!PlanAssumption, PlatformEvents!Snapshots, SnapsOf
  <2> QED
    BY <1>1, <2>1, <2>2 DEF PlanParams
<1> QED
  BY <1>1, <1>2, <1>3

LEMMA SnapTyped ==
  ASSUME NEW life, NEW last, NEW s \in SnapsOf(life, last)
  PROVE  s.rev \in 0 .. MaxRev /\ s.rev \in Int /\ s.until \in Int
BY PlanBounds DEF SnapsOf

LEMMA PlanTyped ==
  ASSUME NEW cs, NEW ws, NEW bs, NEW life, NEW last, PlanParams(cs, bs, life, last),
         PlanTypes(cs, ws, bs, life, last)
  PROVE  /\ planNow \in Int /\ 0 <= planNow /\ planNow <= last
         /\ planHub.rev \in 0 .. MaxRev /\ planHub.rev \in Int
         /\ applied \in Int /\ 0 <= applied
         /\ \A c \in cs : planCall[c] \in PlanReadsOf(cs, life, last)
         /\ \A w \in ws : work[w] \in WorkOf(bs, life, last)
         /\ Platform!Revision \in 0 .. MaxRev /\ Platform!Revision \in Int
<1>1. planNow \in Int /\ 0 <= planNow /\ planNow <= last
  BY DEF PlanTypes, PlanParams
<1>2. planHub.rev \in 0 .. MaxRev /\ planHub.rev \in Int /\ applied \in Int /\ 0 <= applied
  BY PlanBounds DEF PlanTypes
<1>3. /\ \A c \in cs : planCall[c] \in PlanReadsOf(cs, life, last)
      /\ \A w \in ws : work[w] \in WorkOf(bs, life, last)
  BY DEF PlanTypes
<1>4. Platform!Revision \in 0 .. MaxRev /\ Platform!Revision \in Int
  BY SnapTyped, PlanBounds DEF PlanTypes, Platform!Revision
<1> QED
  BY <1>1, <1>2, <1>3, <1>4

(* Storing never takes the cache back.                                       *)
CacheGrows ==
  planCache # None /\ planCache' # None =>
    \/ planCache'.rev > planCache.rev
    \/ planCache'.rev = planCache.rev /\ planCache'.until >= planCache.until

LEMMA StoredGrows ==
  ASSUME NEW cs, NEW bs, NEW life, NEW last, PlanParams(cs, bs, life, last),
         planCache \in SnapsOf(life, last) \cup {None}, NEW s \in SnapsOf(life, last),
         planCache' = Platform!Stored(s)
  PROVE  /\ planCache' \in SnapsOf(life, last) /\ planCache' # None
         /\ planCache'.rev >= s.rev /\ planCache'.rev \in Int
         /\ planCache # None => planCache'.rev >= planCache.rev
         /\ CacheGrows
<1>1. None \notin SnapsOf(life, last) /\ s.rev \in Int /\ s.until \in Int
  BY SnapTyped DEF PlanParams
<1>2. planCache # None => planCache.rev \in Int /\ planCache.until \in Int
  BY SnapTyped
<1>3. CASE Platform!Newer(s)
  BY <1>1, <1>2, <1>3 DEF Platform!Stored, Platform!Newer, CacheGrows
<1>4. CASE ~Platform!Newer(s)
  BY <1>1, <1>2, <1>4 DEF Platform!Stored, Platform!Newer, CacheGrows
<1> QED
  BY <1>3, <1>4

(* A read moves to r, and may store what it pulled.                          *)
PlanTo(cs, c, r) ==
  /\ planCall' = [planCall EXCEPT ![c] = r]
  /\ flight' = flight \/ \A d \in cs : planCall[d].lock = 0
  /\ r.pc \in Pulling =>
       planCall[c].pc \in Pulling \/ \A d \in cs : planCall[d].pc \notin Pulling
  /\ PlanCallSound(r, planNow, applied, flight')
  /\ UNCHANGED <<planNow, planHub, work, receipts, acked, applied>>

LEMMA PlanToTyped ==
  ASSUME NEW cs, NEW ws, NEW bs, NEW life, NEW last, PlanTypes(cs, ws, bs, life, last),
         NEW c \in cs, NEW r \in PlanReadsOf(cs, life, last), PlanTo(cs, c, r)
  PROVE  /\ planCall' \in [cs -> PlanReadsOf(cs, life, last)]
         /\ planCall'[c] = r /\ \A d \in cs : d # c => planCall'[d] = planCall[d]
BY DEF PlanTypes, PlanTo

LEMMA PlanCallsMove ==
  ASSUME NEW cs, NEW ws, NEW bs, NEW life, NEW last, PlanParams(cs, bs, life, last),
         PlanInv(cs, ws, bs, life, last), NEW c \in cs, NEW r \in PlanReadsOf(cs, life, last),
         PlanTo(cs, c, r), flight' \in PlanLocks(cs) \cup {0},
         \/ planCache' = planCache
         \/ \E s \in SnapsOf(life, last) : planCache' = Platform!Stored(s)
  PROVE  PlanInv(cs, ws, bs, life, last)' /\ CacheGrows
<1>1. /\ PlanTypes(cs, ws, bs, life, last) /\ planCache \in SnapsOf(life, last) \cup {None}
      /\ applied \in Int
  BY PlanTyped DEF PlanInv, PlanTypes
<1>2. /\ planCache' \in SnapsOf(life, last) \cup {None} /\ CacheGrows
      /\ planCache # None => planCache' # None /\ planCache'.rev >= planCache.rev
                             /\ planCache'.rev \in Int /\ planCache.rev \in Int
  <2>1. CASE planCache' = planCache
    BY <1>1, <2>1, SnapTyped DEF CacheGrows
  <2>2. CASE \E s \in SnapsOf(life, last) : planCache' = Platform!Stored(s)
    BY <1>1, <2>2, StoredGrows, SnapTyped
  <2> QED
    BY <2>1, <2>2
<1>3. PlanTypes(cs, ws, bs, life, last)'
  BY <1>1, <1>2, PlanToTyped DEF PlanTypes, PlanTo
<1>4. PlanCallsInv(cs)'
  <2>1. ASSUME NEW d \in cs PROVE PlanCallSound(planCall'[d], planNow', applied', flight')
    <3>1. CASE d = c
      BY <1>1, <3>1, PlanToTyped DEF PlanTo
    <3>2. CASE d # c
      <4>1. planCall'[d] = planCall[d] /\ PlanCallSound(planCall[d], planNow, applied, flight)
        BY <1>1, <3>2, PlanToTyped DEF PlanInv, PlanCallsInv
      <4> QED
        BY <4>1 DEF PlanTo, PlanCallSound
    <3> QED
      BY <3>1, <3>2
  <2>2. ASSUME NEW d \in cs, NEW e \in cs, planCall'[d].pc \in Pulling, planCall'[e].pc \in Pulling
        PROVE  d = e
    BY <1>1, <2>2, PlanToTyped DEF PlanTo, PlanInv, PlanCallsInv
  <2> QED
    BY <2>1, <2>2 DEF PlanCallsInv
<1>5. PlanInForce'
  BY <1>1, <1>2 DEF PlanInv, PlanInForce, PlanTo
<1>6. PlanWorkInv(ws)' /\ PlanReceipts'
  BY DEF PlanInv, PlanWorkInv, PlanReceipts, PlanTo
<1> QED
  BY <1>2, <1>3, <1>4, <1>5, <1>6 DEF PlanInv

(* A read returns: what it serves is what it may.                            *)
LEMMA PlanReturns ==
  ASSUME NEW cs, NEW ws, NEW bs, NEW life, NEW last, PlanParams(cs, bs, life, last),
         PlanInv(cs, ws, bs, life, last), NEW c \in cs,
         NEW ans \in SnapsOf(life, last) \cup {None, Denied}, Platform!PlanReturn(c, ans),
         ans \notin {None, Denied} => ans.rev >= planCall[c].floor /\ ans.until > planCall[c].at,
         UNCHANGED <<planNow, planHub, flight, work, receipts, acked, applied>>,
         \/ planCache' = planCache
         \/ \E s \in SnapsOf(life, last) : planCache' = Platform!Stored(s)
  PROVE  PlanInv(cs, ws, bs, life, last)' /\ CacheGrows
<1>1. PlanTypes(cs, ws, bs, life, last)
  BY DEF PlanInv
<1>2. PICK k \in PlanReadsOf(cs, life, last) : k = planCall[c]
  BY <1>1, PlanTyped
<1>3. PICK l : l = 0
  OBVIOUS
<1>4. PICK r : r = [k EXCEPT !.pc = "done", !.lock = l, !.ans = ans]
  OBVIOUS
<1>5. /\ r \in PlanReadsOf(cs, life, last) /\ r.pc = "done" /\ r.lock = l /\ r.ans = ans
      /\ r.at = k.at /\ r.floor = k.floor
  BY <1>3, <1>4 DEF PlanReadsOf
<1>6. PlanCallSound(r, planNow, applied, flight)
  <2>1. k.at <= planNow /\ k.floor <= applied
    BY <1>2 DEF PlanInv, PlanCallsInv, PlanCallSound
  <2> QED
    BY <1>2, <1>3, <1>5, <2>1 DEF PlanCallSound, Pulling
<1>7. planCall' = [planCall EXCEPT ![c] = r]
  BY <1>2, <1>3, <1>4 DEF Platform!PlanReturn, Platform!PlanSet
<1>8. PlanTo(cs, c, r)
  BY <1>5, <1>6, <1>7 DEF PlanTo, Pulling
<1>9. flight' \in PlanLocks(cs) \cup {0}
  BY <1>1 DEF PlanTypes
<1> QED
  BY <1>5, <1>8, <1>9, PlanCallsMove

(* A read takes its next step.                                               *)
LEMMA PlanSteps ==
  ASSUME NEW cs, NEW ws, NEW bs, NEW life, NEW last, PlanParams(cs, bs, life, last),
         PlanInv(cs, ws, bs, life, last), NEW c \in cs, NEW r \in PlanReadsOf(cs, life, last),
         planCall' = [planCall EXCEPT ![c] = r],
         UNCHANGED <<planNow, planHub, planCache, flight, work, receipts, acked, applied>>,
         r.pc \in Pulling =>
           planCall[c].pc \in Pulling \/ \A d \in cs : planCall[d].pc \notin Pulling,
         PlanCallSound(r, planNow, applied, flight)
  PROVE  PlanInv(cs, ws, bs, life, last)' /\ CacheGrows
<1>1. PlanTo(cs, c, r)
  BY DEF PlanTo
<1>2. flight' \in PlanLocks(cs) \cup {0}
  BY DEF PlanInv, PlanTypes
<1> QED
  BY <1>1, <1>2, PlanCallsMove

LEMMA PlanCurrents ==
  ASSUME NEW cs, NEW ws, NEW bs, NEW life, NEW last, PlanParams(cs, bs, life, last),
         PlanInv(cs, ws, bs, life, last), NEW c \in cs, Platform!Current(c)
  PROVE  PlanInv(cs, ws, bs, life, last)' /\ CacheGrows
<1>1. /\ PlanTypes(cs, ws, bs, life, last) /\ PlanInForce
      /\ planNow \in Int /\ applied \in Int /\ 0 <= applied
  BY PlanTyped DEF PlanInv
<1>2. PICK t \in 0 .. last : t = planNow
  BY <1>1 DEF PlanTypes
<1>3. PICK n \in 0 .. MaxRev : n = applied
  BY <1>1 DEF PlanTypes
<1>4. PICK pc \in {"done", "missed"} : pc = IF Platform!Hit(planNow) THEN "done" ELSE "missed"
  OBVIOUS
<1>5. PICK ans \in SnapsOf(life, last) \cup {None} :
        ans = IF Platform!Hit(planNow) THEN planCache ELSE None
  BY <1>1 DEF PlanTypes
<1>6. PICK r : r = [Platform!IdleCall EXCEPT !.at = t, !.floor = n, !.pc = pc, !.ans = ans]
  OBVIOUS
<1>7. /\ r \in PlanReadsOf(cs, life, last) /\ r.at = t /\ r.floor = n /\ r.pc = pc /\ r.ans = ans
      /\ r.lock = 0
  <2>1. 0 \in 0 .. MaxRev
    BY PlanBounds
  <2> QED
    BY <1>6, <2>1 DEF PlanReadsOf, Platform!IdleCall
<1>8. planCall' = [planCall EXCEPT ![c] = r]
      /\ UNCHANGED <<planNow, planHub, planCache, flight, work, receipts, acked, applied>>
  BY <1>2, <1>3, <1>4, <1>5, <1>6 DEF Platform!Current, Platform!PlanSet
<1>9. pc = "done" => ans.rev >= n /\ ans.until > t
  <2> SUFFICES ASSUME Platform!Hit(planNow) PROVE ans.rev >= n /\ ans.until > t
    BY <1>4
  <2>1. ans = planCache /\ planCache # None /\ planNow < planCache.until
    BY <1>5 DEF Platform!Hit
  <2>2. ans \in SnapsOf(life, last) /\ ans.rev \in Int /\ ans.until \in Int /\ 0 <= ans.rev
    BY <1>5, <2>1, SnapTyped, PlanBounds
  <2> QED
    BY <1>1, <1>2, <1>3, <2>1, <2>2 DEF PlanInForce
<1>10. PlanCallSound(r, planNow, applied, flight)
  BY <1>1, <1>2, <1>3, <1>4, <1>7, <1>9 DEF PlanCallSound, Pulling
<1> QED
  BY <1>4, <1>7, <1>8, <1>10, PlanSteps DEF Pulling

(* The read takes the lock the map names, or a new one.                      *)
PlanJoins(cs, c) ==
  /\ planCall[c].pc = "missed"
  /\ LET alive(k) == \E d \in cs : planCall[d].lock = k
         l == IF flight # 0 /\ alive(flight) THEN flight
              ELSE CHOOSE k \in PlanLocks(cs) : ~alive(k)
     IN /\ flight' = l
        /\ planCall' = [planCall EXCEPT ![c] = [planCall[c] EXCEPT !.pc = "waiting", !.lock = l]]
  /\ UNCHANGED <<planNow, planHub, planCache, work, receipts, acked, applied>>

LEMMA PlanJoinsSound ==
  ASSUME NEW cs, NEW ws, NEW bs, NEW life, NEW last, PlanParams(cs, bs, life, last),
         PlanInv(cs, ws, bs, life, last), NEW c \in cs, PlanJoins(cs, c)
  PROVE  PlanInv(cs, ws, bs, life, last)' /\ CacheGrows
<1>1. PlanTypes(cs, ws, bs, life, last) /\ flight \in PlanLocks(cs) \cup {0}
  BY DEF PlanInv, PlanTypes
<1>2. \A d \in cs : planCall[d].lock # 0 => planCall[d].lock = flight
  BY DEF PlanInv, PlanCallsInv, PlanCallSound
<1>3. PICK l \in PlanLocks(cs) :
        /\ flight' = l /\ (l = flight \/ \A d \in cs : planCall[d].lock = 0)
        /\ planCall' = [planCall EXCEPT ![c] = [planCall[c] EXCEPT !.pc = "waiting", !.lock = l]]
  <2>1. CASE flight # 0 /\ \E d \in cs : planCall[d].lock = flight
    BY <1>1, <2>1 DEF PlanJoins
  <2>2. CASE ~(flight # 0 /\ \E d \in cs : planCall[d].lock = flight)
    <3>1. \A d \in cs : planCall[d].lock = 0
      BY <1>2, <2>2
    <3>2. 1 \in PlanLocks(cs)
      <4>1. Cardinality(cs) \in Nat /\ Cardinality(cs) # 0
        BY FS_CardinalityType, FS_EmptySet DEF PlanParams
      <4> QED
        BY <4>1 DEF PlanLocks
    <3>3. \E k \in PlanLocks(cs) : ~\E d \in cs : planCall[d].lock = k
      BY <3>1, <3>2
    <3>4. PICK l : l = CHOOSE k \in PlanLocks(cs) : ~\E d \in cs : planCall[d].lock = k
      OBVIOUS
    <3>5. l \in PlanLocks(cs)
      BY <3>3, <3>4
    <3> QED
      BY <2>2, <3>1, <3>4, <3>5 DEF PlanJoins
  <2> QED
    BY <2>1, <2>2
<1>4. PICK k \in PlanReadsOf(cs, life, last) : k = planCall[c]
  BY <1>1, PlanTyped
<1>5. PICK r : r = [k EXCEPT !.pc = "waiting", !.lock = l]
  OBVIOUS
<1>6. /\ r \in PlanReadsOf(cs, life, last) /\ r.pc = "waiting" /\ r.lock = l
      /\ r.at = k.at /\ r.floor = k.floor
  BY <1>5 DEF PlanReadsOf
<1>7. l # 0
  <2>1. Cardinality(cs) \in Nat
    BY FS_CardinalityType DEF PlanParams
  <2> QED
    BY <2>1 DEF PlanLocks
<1>8. PlanCallSound(r, planNow, applied, l)
  <2>1. k.at <= planNow /\ k.floor <= applied
    BY <1>4 DEF PlanInv, PlanCallsInv, PlanCallSound
  <2> QED
    BY <1>6, <1>7, <2>1 DEF PlanCallSound
<1>9. PlanTo(cs, c, r)
  BY <1>3, <1>4, <1>5, <1>6, <1>8 DEF PlanTo, PlanJoins, Pulling
<1> QED
  BY <1>3, <1>6, <1>9, PlanCallsMove DEF PlanJoins

PlanTakes(cs, c) ==
  /\ planCall[c].pc = "waiting"
  /\ \A d \in cs : planCall[d].lock = planCall[c].lock => planCall[d].pc \notin Pulling
  /\ planCall' = [planCall EXCEPT ![c] = [planCall[c] EXCEPT !.pc = "locked"]]
  /\ UNCHANGED <<planNow, planHub, planCache, flight, work, receipts, acked, applied>>

LEMMA PlanTakesSound ==
  ASSUME NEW cs, NEW ws, NEW bs, NEW life, NEW last, PlanParams(cs, bs, life, last),
         PlanInv(cs, ws, bs, life, last), NEW c \in cs, PlanTakes(cs, c)
  PROVE  PlanInv(cs, ws, bs, life, last)' /\ CacheGrows
<1>1. PICK k \in PlanReadsOf(cs, life, last) : k = planCall[c]
  BY PlanTyped DEF PlanInv
<1>2. k.pc = "waiting" /\ PlanCallSound(k, planNow, applied, flight)
  BY <1>1 DEF PlanTakes, PlanInv, PlanCallsInv
<1>3. \A d \in cs : planCall[d].pc \notin Pulling
  <2>1. \A d \in cs : planCall[d].pc \in Pulling => planCall[d].lock = flight
    BY DEF PlanInv, PlanCallsInv, PlanCallSound
  <2>2. planCall[c].lock = flight
    BY <1>1, <1>2 DEF PlanCallSound
  <2> QED
    BY <2>1, <2>2 DEF PlanTakes
<1>4. PICK r : r = [k EXCEPT !.pc = "locked"]
  OBVIOUS
<1>5. /\ r \in PlanReadsOf(cs, life, last) /\ r.pc = "locked" /\ r.lock = k.lock
      /\ r.at = k.at /\ r.floor = k.floor
  BY <1>4 DEF PlanReadsOf, Pulling
<1>6. PlanCallSound(r, planNow, applied, flight)
  BY <1>2, <1>5 DEF PlanCallSound, Pulling
<1> QED
  BY <1>1, <1>3, <1>4, <1>5, <1>6, PlanSteps DEF PlanTakes

LEMMA PlanRechecks ==
  ASSUME NEW cs, NEW ws, NEW bs, NEW life, NEW last, PlanParams(cs, bs, life, last),
         PlanInv(cs, ws, bs, life, last), NEW c \in cs,
         Platform!Recheck(c) \/ Platform!ReadBack(c)
  PROVE  PlanInv(cs, ws, bs, life, last)' /\ CacheGrows
<1>1. PICK k \in PlanReadsOf(cs, life, last) : k = planCall[c]
  BY PlanTyped DEF PlanInv
<1>2. /\ k.pc \in {"locked", "stored"} /\ PlanCallSound(k, planNow, applied, flight)
      /\ UNCHANGED <<planNow, planHub, planCache, flight, work, receipts, acked, applied>>
  BY <1>1 DEF Platform!Recheck, Platform!ReadBack, PlanInv, PlanCallsInv
<1>3. CASE Platform!Hit(k.at) /\ Platform!PlanReturn(c, planCache)
  <2>1. planCache # None /\ k.at < planCache.until
    BY <1>3 DEF Platform!Hit
  <2>2. planCache \in SnapsOf(life, last)
    BY <2>1 DEF PlanInv, PlanTypes
  <2>3. /\ planCache.rev \in Int /\ planCache.until \in Int /\ 0 <= planCache.rev
        /\ applied \in Int /\ 0 <= applied /\ k.floor \in Int /\ k.at \in Int /\ k.floor <= applied
    <3>1. planCache.rev \in 0 .. MaxRev /\ MaxRev \in Nat /\ last \in Nat
      BY <2>2, SnapTyped, PlanBounds DEF PlanParams
    <3>2. k.floor \in 0 .. MaxRev /\ k.at \in 0 .. last
      BY DEF PlanReadsOf
    <3> QED
      BY <1>2, <2>2, <3>1, <3>2, SnapTyped, PlanTyped DEF PlanInv, PlanCallSound
  <2>4. planCache.rev >= k.floor /\ planCache.until > k.at
    BY <2>1, <2>3 DEF PlanInv, PlanInForce
  <2> QED
    BY <1>1, <1>2, <1>3, <2>2, <2>4, PlanReturns
<1>4. CASE Platform!PlanReturn(c, Denied)
  BY <1>1, <1>2, <1>4, PlanReturns
<1>5. CASE Platform!PlanStep(c, "missed again") /\ k.pc = "locked"
  <2>1. PICK r : r = [k EXCEPT !.pc = "missed again"]
    OBVIOUS
  <2>2. /\ r \in PlanReadsOf(cs, life, last) /\ r.pc = "missed again" /\ r.lock = k.lock
        /\ r.at = k.at /\ r.floor = k.floor
    BY <2>1 DEF PlanReadsOf, Pulling
  <2>3. planCall' = [planCall EXCEPT ![c] = r]
    BY <1>1, <1>5, <2>1 DEF Platform!PlanStep, Platform!PlanSet
  <2>4. PlanCallSound(r, planNow, applied, flight)
    BY <1>2, <1>5, <2>2 DEF PlanCallSound, Pulling
  <2> QED
    BY <1>1, <1>2, <1>5, <2>2, <2>3, <2>4, PlanSteps DEF Pulling
<1>6. Platform!ReadBack(c) => Platform!PlanReturn(c, IF Platform!Hit(k.at) THEN planCache ELSE Denied)
  BY <1>1 DEF Platform!ReadBack
<1>7. Platform!Recheck(c) =>
        /\ k.pc = "locked"
        /\ IF Platform!Hit(k.at) THEN Platform!PlanReturn(c, planCache)
           ELSE Platform!PlanStep(c, "missed again")
  BY <1>1 DEF Platform!Recheck
<1> QED
  BY <1>3, <1>4, <1>5, <1>6, <1>7

LEMMA PlanReads ==
  ASSUME NEW cs, NEW ws, NEW bs, NEW life, NEW last, PlanParams(cs, bs, life, last),
         PlanInv(cs, ws, bs, life, last), NEW c \in cs, Platform!ReadRevision(c)
  PROVE  PlanInv(cs, ws, bs, life, last)' /\ CacheGrows
<1>1. PICK k \in PlanReadsOf(cs, life, last) : k = planCall[c]
  BY PlanTyped DEF PlanInv
<1>2. PICK n \in 0 .. MaxRev : n = Platform!Revision
  BY PlanTyped DEF PlanInv
<1>3. PICK r : r = [k EXCEPT !.pc = "asking", !.rev = n]
  OBVIOUS
<1>4. /\ r \in PlanReadsOf(cs, life, last) /\ r.pc = "asking" /\ r.lock = k.lock
      /\ r.at = k.at /\ r.floor = k.floor
  BY <1>3 DEF PlanReadsOf, Pulling
<1>5. /\ k.pc = "missed again" /\ PlanCallSound(k, planNow, applied, flight)
      /\ planCall' = [planCall EXCEPT ![c] = r]
      /\ UNCHANGED <<planNow, planHub, planCache, flight, work, receipts, acked, applied>>
  BY <1>1, <1>2, <1>3 DEF Platform!ReadRevision, Platform!PlanSet, PlanInv, PlanCallsInv
<1>6. PlanCallSound(r, planNow, applied, flight)
  BY <1>4, <1>5 DEF PlanCallSound, Pulling
<1> QED
  BY <1>1, <1>4, <1>5, <1>6, PlanSteps DEF Pulling

(* The hub's answers, and what a pull makes of them.                         *)
PlanAnswers(life) ==
  IF planHub.known
  THEN {[rev |-> r, free |-> FALSE, until |-> planNow + life] : r \in 0 .. planHub.rev}
  ELSE {Denied}

LEMMA AnswersTyped ==
  ASSUME NEW cs, NEW ws, NEW bs, NEW life, NEW last, PlanParams(cs, bs, life, last),
         PlanTypes(cs, ws, bs, life, last), NEW a \in PlanAnswers(life)
  PROVE  a = Denied \/ (a \in SnapsOf(life, last) /\ a.until > planNow)
<1>1. CASE planHub.known
  <2>1. PICK n \in 0 .. planHub.rev : a = [rev |-> n, free |-> FALSE, until |-> planNow + life]
    BY <1>1 DEF PlanAnswers
  <2>2. n \in 0 .. MaxRev
    BY PlanTyped, PlanBounds
  <2>3. planNow + life \in 0 .. (last + life + FreeLife) /\ planNow + life > planNow
    BY PlanTyped, PlanBounds DEF PlanParams
  <2> QED
    BY <2>1, <2>2, <2>3 DEF SnapsOf
<1> QED
  BY <1>1 DEF PlanAnswers

LEMMA PulledTyped ==
  ASSUME NEW cs, NEW bs, NEW life, NEW last, PlanParams(cs, bs, life, last),
         NEW a \in SnapsOf(life, last) \cup {Denied}, NEW r \in 0 .. MaxRev, NEW t \in 0 .. last
  PROVE  /\ Platform!Pulled(a, r, t) \in SnapsOf(life, last)
         /\ a = Denied => Platform!Pulled(a, r, t).until > t
         /\ a # Denied => Platform!Pulled(a, r, t) = a
<1>1. t + FreeLife \in 0 .. (last + life + FreeLife) /\ t + FreeLife > t
  BY PlanBounds DEF PlanParams
<1>2. [rev |-> r, free |-> TRUE, until |-> t + FreeLife] \in SnapsOf(life, last)
  BY <1>1 DEF SnapsOf
<1>3. CASE a = Denied
  <2>1. Platform!Pulled(a, r, t) = [rev |-> r, free |-> TRUE, until |-> t + FreeLife]
    BY <1>3 DEF Platform!Pulled, Platform!Free
  <2> QED
    BY <1>1, <1>2, <1>3, <2>1
<1>4. CASE a # Denied
  BY <1>4 DEF Platform!Pulled
<1> QED
  BY <1>3, <1>4

PlanReplies(c, life) ==
  /\ planCall[c].pc = "asking"
  /\ \E a \in PlanAnswers(life) :
       planCall' = [planCall EXCEPT ![c] = [planCall[c] EXCEPT !.pc = "answered", !.ans = a]]
  /\ UNCHANGED <<planNow, planHub, planCache, flight, work, receipts, acked, applied>>

LEMMA PlanRepliesSound ==
  ASSUME NEW cs, NEW ws, NEW bs, NEW life, NEW last, PlanParams(cs, bs, life, last),
         PlanInv(cs, ws, bs, life, last), NEW c \in cs, PlanReplies(c, life)
  PROVE  PlanInv(cs, ws, bs, life, last)' /\ CacheGrows
<1>1. PICK k \in PlanReadsOf(cs, life, last) : k = planCall[c]
  BY PlanTyped DEF PlanInv
<1>2. PICK a \in PlanAnswers(life) :
        planCall' = [planCall EXCEPT ![c] = [planCall[c] EXCEPT !.pc = "answered", !.ans = a]]
  BY DEF PlanReplies
<1>3. a \in SnapsOf(life, last) \cup {Denied} /\ a # None
  BY AnswersTyped DEF PlanInv, PlanParams
<1>4. PICK r : r = [k EXCEPT !.pc = "answered", !.ans = a]
  OBVIOUS
<1>5. /\ r \in PlanReadsOf(cs, life, last) /\ r.pc = "answered" /\ r.lock = k.lock
      /\ r.at = k.at /\ r.floor = k.floor /\ r.ans = a
  BY <1>3, <1>4 DEF PlanReadsOf, Pulling
<1>6. /\ k.pc = "asking" /\ PlanCallSound(k, planNow, applied, flight)
      /\ planCall' = [planCall EXCEPT ![c] = r]
      /\ UNCHANGED <<planNow, planHub, planCache, flight, work, receipts, acked, applied>>
  BY <1>1, <1>2, <1>4 DEF PlanReplies, PlanInv, PlanCallsInv
<1>7. PlanCallSound(r, planNow, applied, flight)
  BY <1>3, <1>5, <1>6 DEF PlanCallSound, Pulling
<1> QED
  BY <1>1, <1>5, <1>6, <1>7, PlanSteps DEF Pulling

LEMMA PlanStores ==
  ASSUME NEW cs, NEW ws, NEW bs, NEW life, NEW last, PlanParams(cs, bs, life, last),
         PlanInv(cs, ws, bs, life, last), NEW c \in cs, Platform!Store(c)
  PROVE  PlanInv(cs, ws, bs, life, last)' /\ CacheGrows
<1>1. PICK k \in PlanReadsOf(cs, life, last) : k = planCall[c]
  BY PlanTyped DEF PlanInv
<1>2. /\ k.pc = "answered" /\ PlanCallSound(k, planNow, applied, flight)
      /\ UNCHANGED <<planNow, planHub, flight, work, receipts, acked, applied>>
  BY <1>1 DEF Platform!Store, PlanInv, PlanCallsInv
<1>3. PICK s \in SnapsOf(life, last) : s = Platform!Pulled(k.ans, k.rev, k.at)
  <2>1. k.ans \in SnapsOf(life, last) \cup {Denied}
    BY <1>2 DEF PlanReadsOf, PlanCallSound
  <2>2. k.rev \in 0 .. MaxRev /\ k.at \in 0 .. last
    BY DEF PlanReadsOf
  <2> QED
    BY <2>1, <2>2, PulledTyped
<1>4. CASE Platform!Usable(k.ans, k.rev, k.at) /\ s.until > k.at
  <2>1. planCache' = Platform!Stored(s) /\ Platform!PlanStep(c, "stored")
    BY <1>1, <1>3, <1>4 DEF Platform!Store
  <2>2. PICK r : r = [k EXCEPT !.pc = "stored"]
    OBVIOUS
  <2>3. /\ r \in PlanReadsOf(cs, life, last) /\ r.pc = "stored" /\ r.lock = k.lock
        /\ r.at = k.at /\ r.floor = k.floor
    BY <2>2 DEF PlanReadsOf, Pulling
  <2>4. planCall' = [planCall EXCEPT ![c] = r]
    BY <1>1, <2>1, <2>2 DEF Platform!PlanStep, Platform!PlanSet
  <2>5. PlanCallSound(r, planNow, applied, flight)
    BY <1>2, <2>3 DEF PlanCallSound, Pulling
  <2>6. PlanTo(cs, c, r)
    BY <1>1, <1>2, <2>3, <2>4, <2>5 DEF PlanTo, Pulling
  <2>7. flight' \in PlanLocks(cs) \cup {0}
    BY <1>2 DEF PlanInv, PlanTypes
  <2> QED
    BY <2>1, <2>3, <2>6, <2>7, PlanCallsMove
<1>5. CASE ~(Platform!Usable(k.ans, k.rev, k.at) /\ s.until > k.at)
  <2>1. Platform!PlanReturn(c, Denied) /\ planCache' = planCache
    BY <1>1, <1>3, <1>5 DEF Platform!Store
  <2> QED
    BY <1>2, <2>1, PlanReturns
<1> QED
  BY <1>4, <1>5

LEMMA PlanGivesUp ==
  ASSUME NEW cs, NEW ws, NEW bs, NEW life, NEW last, PlanParams(cs, bs, life, last),
         PlanInv(cs, ws, bs, life, last), NEW c \in cs, Platform!GiveUp(c)
  PROVE  PlanInv(cs, ws, bs, life, last)' /\ CacheGrows
BY PlanReturns DEF Platform!GiveUp

LEMMA PlanRefreshes ==
  ASSUME NEW cs, NEW ws, NEW bs, NEW life, NEW last, PlanParams(cs, bs, life, last),
         PlanInv(cs, ws, bs, life, last), NEW c \in cs, Platform!Refresh(c)
  PROVE  PlanInv(cs, ws, bs, life, last)' /\ CacheGrows
<1>1. planNow \in Int /\ applied \in Int /\ 0 <= applied /\ MaxRev \in Nat
  BY PlanTyped, PlanBounds DEF PlanInv
<1>2. PICK t \in 0 .. last : t = planNow
  BY DEF PlanInv, PlanTypes
<1>3. PICK r : r = [Platform!IdleCall EXCEPT !.at = t, !.pc = "refreshing"]
  OBVIOUS
<1>4. /\ r \in PlanReadsOf(cs, life, last) /\ r.pc = "refreshing" /\ r.lock = 0
      /\ r.at = t /\ r.floor = 0
  <2>1. 0 \in 0 .. MaxRev
    BY <1>1
  <2> QED
    BY <1>3, <2>1 DEF PlanReadsOf, Platform!IdleCall
<1>5. /\ planCall' = [planCall EXCEPT ![c] = r]
      /\ UNCHANGED <<planNow, planHub, planCache, flight, work, receipts, acked, applied>>
  BY <1>2, <1>3 DEF Platform!Refresh, Platform!PlanSet
<1>6. PlanCallSound(r, planNow, applied, flight)
  BY <1>1, <1>2, <1>4 DEF PlanCallSound, Pulling
<1> QED
  BY <1>4, <1>5, <1>6, PlanSteps DEF Pulling

PlanRefreshed(c, life) ==
  /\ planCall[c].pc = "refreshing"
  /\ \E a \in PlanAnswers(life) :
       /\ planCache' = IF a = Denied THEN planCache ELSE Platform!Stored(a)
       /\ Platform!PlanReturn(c, Platform!Pulled(a, Platform!Revision, planNow))
  /\ UNCHANGED <<planNow, planHub, flight, work, receipts, acked, applied>>

LEMMA PlanRefreshedSound ==
  ASSUME NEW cs, NEW ws, NEW bs, NEW life, NEW last, PlanParams(cs, bs, life, last),
         PlanInv(cs, ws, bs, life, last), NEW c \in cs, PlanRefreshed(c, life)
  PROVE  PlanInv(cs, ws, bs, life, last)' /\ CacheGrows
<1>1. PICK a \in PlanAnswers(life) :
        /\ planCache' = IF a = Denied THEN planCache ELSE Platform!Stored(a)
        /\ Platform!PlanReturn(c, Platform!Pulled(a, Platform!Revision, planNow))
  BY DEF PlanRefreshed
<1>2. a = Denied \/ (a \in SnapsOf(life, last) /\ a.until > planNow)
  BY AnswersTyped DEF PlanInv
<1>3. PICK n \in 0 .. MaxRev : n = Platform!Revision
  BY PlanTyped DEF PlanInv
<1>4. PICK t \in 0 .. last : t = planNow
  BY DEF PlanInv, PlanTypes
<1>5. PICK s : s = Platform!Pulled(a, n, t)
  OBVIOUS
<1>6. s \in SnapsOf(life, last) /\ s.until > t /\ s.rev \in 0 .. MaxRev /\ s.until \in Int
  BY <1>2, <1>4, <1>5, PulledTyped, SnapTyped
<1>7. planCall[c].floor = 0 /\ planCall[c].at <= t /\ planCall[c].at \in 0 .. last
  <2>1. planCall[c] \in PlanReadsOf(cs, life, last)
    BY PlanTyped DEF PlanInv
  <2> QED
    BY <1>4, <2>1 DEF PlanRefreshed, PlanInv, PlanCallsInv, PlanCallSound, PlanReadsOf
<1>8. s.rev >= planCall[c].floor /\ s.until > planCall[c].at
  BY <1>4, <1>6, <1>7, PlanBounds DEF PlanParams
<1>9. Platform!PlanReturn(c, s)
  BY <1>1, <1>3, <1>4, <1>5
<1>10. planCache' = planCache \/ \E v \in SnapsOf(life, last) : planCache' = Platform!Stored(v)
  BY <1>1, <1>2
<1> QED
  BY <1>6, <1>8, <1>9, <1>10, PlanReturns DEF PlanRefreshed

(* A delivery moves to q.                                                    *)
LEMMA PlanWorks ==
  ASSUME NEW cs, NEW ws, NEW bs, NEW life, NEW last, PlanParams(cs, bs, life, last),
         PlanInv(cs, ws, bs, life, last), NEW w \in ws, NEW q \in WorkOf(bs, life, last),
         work' = [work EXCEPT ![w] = q], WorkSound(q),
         UNCHANGED <<planNow, planHub, flight, planCall>>,
         planCache' \in SnapsOf(life, last) \cup {None},
         receipts' \in [1 .. MaxRev -> bs \cup {None}], acked' \in [1 .. MaxRev -> SUBSET bs],
         applied' \in 0 .. MaxRev, applied <= applied', PlanInForce', PlanReceipts'
  PROVE  PlanInv(cs, ws, bs, life, last)'
<1>1. PlanTypes(cs, ws, bs, life, last)'
  BY DEF PlanInv, PlanTypes
<1>2. PlanCallsInv(cs)'
  <2>1. ASSUME NEW c \in cs PROVE PlanCallSound(planCall[c], planNow, applied', flight)
    <3>1. planCall[c].floor \in Int /\ applied \in Int /\ applied' \in Int
      BY PlanTyped, PlanBounds DEF PlanInv, PlanReadsOf
    <3>2. PlanCallSound(planCall[c], planNow, applied, flight)
      BY DEF PlanInv, PlanCallsInv
    <3> QED
      BY <3>1, <3>2 DEF PlanCallSound
  <2> QED
    BY <2>1 DEF PlanInv, PlanCallsInv
<1>3. PlanWorkInv(ws)'
  <2>1. \A v \in ws : work'[v] = IF v = w THEN q ELSE work[v]
    BY DEF PlanInv, PlanTypes
  <2> QED
    BY <2>1 DEF PlanInv, PlanWorkInv
<1> QED
  BY <1>1, <1>2, <1>3 DEF PlanInv

LEMMA WorkSteps ==
  ASSUME NEW cs, NEW ws, NEW bs, NEW life, NEW last, PlanParams(cs, bs, life, last),
         PlanInv(cs, ws, bs, life, last), NEW w \in ws, NEW q \in WorkOf(bs, life, last),
         work' = [work EXCEPT ![w] = q], WorkSound(q),
         UNCHANGED <<planNow, planHub, planCache, flight, planCall, receipts, acked, applied>>
  PROVE  PlanInv(cs, ws, bs, life, last)' /\ CacheGrows
<1>1. /\ planCache' \in SnapsOf(life, last) \cup {None}
      /\ receipts' \in [1 .. MaxRev -> bs \cup {None}] /\ acked' \in [1 .. MaxRev -> SUBSET bs]
      /\ applied' \in 0 .. MaxRev /\ applied <= applied' /\ applied' = applied
  BY PlanTyped DEF PlanInv, PlanTypes
<1>2. PlanInForce' /\ PlanReceipts'
  BY DEF PlanInv, PlanInForce, PlanReceipts
<1>3. CacheGrows
  BY <1>1, SnapTyped DEF CacheGrows
<1> QED
  BY <1>1, <1>2, <1>3, PlanWorks

LEMMA IdleWorkSound ==
  ASSUME NEW bs, NEW life, NEW last
  PROVE  Platform!IdleWork \in WorkOf(bs, life, last) /\ WorkSound(Platform!IdleWork)
<1>1. 0 \in 0 .. MaxRev
  BY PlanBounds
<1> QED
  BY <1>1 DEF Platform!IdleWork, WorkOf, WorkSound

(* A receipt that exists settles a delivery.                                 *)
LEMMA WorkSettles ==
  ASSUME NEW cs, NEW ws, NEW bs, NEW life, NEW last, PlanParams(cs, bs, life, last),
         PlanInv(cs, ws, bs, life, last), NEW w \in ws, NEW e \in 1 .. MaxRev, NEW b \in bs,
         Platform!Settle(w, e, b),
         UNCHANGED <<planNow, planHub, planCache, flight, planCall, receipts, applied>>
  PROVE  PlanInv(cs, ws, bs, life, last)' /\ CacheGrows
<1>1. PICK q \in WorkOf(bs, life, last) : q = Platform!IdleWork /\ WorkSound(q)
  BY IdleWorkSound
<1>2. work' = [work EXCEPT ![w] = q]
  BY <1>1 DEF Platform!Settle, Platform!SetWork
<1>3. CASE receipts[e] = b
  <2>1. acked' = [acked EXCEPT ![e] = @ \cup {b}]
    BY <1>3 DEF Platform!Settle, Platform!Acknowledge
  <2>2. acked \in [1 .. MaxRev -> SUBSET bs]
    BY DEF PlanInv, PlanTypes
  <2>3. \A d \in 1 .. MaxRev : acked'[d] = IF d = e THEN acked[e] \cup {b} ELSE acked[d]
    BY <2>1, <2>2
  <2>4. acked' \in [1 .. MaxRev -> SUBSET bs]
    BY <2>1, <2>2
  <2>5. b # None
    BY DEF PlanParams
  <2>6. PlanReceipts'
    BY <1>3, <2>3, <2>5 DEF PlanInv, PlanReceipts
  <2>7. PlanInForce'
    BY DEF PlanInv, PlanInForce
  <2>8. /\ planCache' \in SnapsOf(life, last) \cup {None}
        /\ receipts' \in [1 .. MaxRev -> bs \cup {None}]
        /\ applied' \in 0 .. MaxRev /\ applied <= applied' /\ applied' = applied
    BY PlanTyped DEF PlanInv, PlanTypes
  <2>9. CacheGrows
    BY <2>8, SnapTyped DEF CacheGrows
  <2> QED
    BY <1>1, <1>2, <2>4, <2>6, <2>7, <2>8, <2>9, PlanWorks
<1>4. CASE receipts[e] # b
  <2>1. acked' = acked
    BY <1>4 DEF Platform!Settle
  <2> QED
    BY <1>1, <1>2, <2>1, WorkSteps
<1> QED
  BY <1>3, <1>4

LEMMA PlanDelivers ==
  ASSUME NEW cs, NEW ws, NEW bs, NEW life, NEW last, PlanParams(cs, bs, life, last),
         PlanInv(cs, ws, bs, life, last), NEW w \in ws, NEW e \in 1 .. MaxRev, NEW b \in bs,
         Platform!Deliver(w, e, b)
  PROVE  PlanInv(cs, ws, bs, life, last)' /\ CacheGrows
<1>1. UNCHANGED <<planNow, planHub, planCache, flight, planCall, receipts, applied>>
  BY DEF Platform!Deliver
<1>2. CASE receipts[e] # None
  BY <1>1, <1>2, WorkSettles DEF Platform!Deliver
<1>3. CASE receipts[e] = None
  <2>1. PICK q : q = [Platform!IdleWork EXCEPT !.pc = "new", !.ev = e, !.body = b]
    OBVIOUS
  <2>2. b # None /\ e # 0 /\ e \in 0 .. MaxRev /\ 0 \in 0 .. MaxRev
    BY PlanBounds DEF PlanParams
  <2>3. q \in WorkOf(bs, life, last) /\ q.pc = "new" /\ q.ev = e /\ q.body = b
    BY <2>1, <2>2 DEF Platform!IdleWork, WorkOf
  <2>4. WorkSound(q)
    BY <2>2, <2>3 DEF WorkSound
  <2>5. work' = [work EXCEPT ![w] = q] /\ acked' = acked
    BY <1>3, <2>1 DEF Platform!Deliver, Platform!SetWork
  <2> QED
    BY <1>1, <2>3, <2>4, <2>5, WorkSteps
<1> QED
  BY <1>2, <1>3

LEMMA PlanPrepares ==
  ASSUME NEW cs, NEW ws, NEW bs, NEW life, NEW last, PlanParams(cs, bs, life, last),
         PlanInv(cs, ws, bs, life, last), NEW w \in ws, Platform!Prepare(w)
  PROVE  PlanInv(cs, ws, bs, life, last)' /\ CacheGrows
<1>1. PICK k \in WorkOf(bs, life, last) : k = work[w]
  BY PlanTyped DEF PlanInv
<1>2. k.pc = "new" /\ WorkSound(k) /\ k.ev \in 0 .. MaxRev /\ k.ev \in Int
  BY <1>1, PlanBounds DEF Platform!Prepare, PlanInv, PlanWorkInv, WorkOf
<1>3. PICK n \in 0 .. MaxRev : n = Platform!MaxOf(Platform!Revision, k.ev) /\ n >= k.ev
  BY <1>2, PlanTyped DEF PlanInv, Platform!MaxOf
<1>4. PICK q : q = [k EXCEPT !.pc = "asking", !.rev = n]
  OBVIOUS
<1>5. /\ q \in WorkOf(bs, life, last) /\ q.pc = "asking" /\ q.rev = n /\ q.ev = k.ev
      /\ q.body = k.body
  BY <1>4 DEF WorkOf
<1>6. WorkSound(q)
  BY <1>2, <1>3, <1>5 DEF WorkSound
<1>7. work' = [work EXCEPT ![w] = q]
      /\ UNCHANGED <<planNow, planHub, planCache, flight, planCall, receipts, acked, applied>>
  BY <1>1, <1>3, <1>4 DEF Platform!Prepare, Platform!SetWork
<1> QED
  BY <1>5, <1>6, <1>7, WorkSteps

PlanPrepared(w, life) ==
  /\ work[w].pc = "asking"
  /\ \E a \in PlanAnswers(life) :
       IF Platform!Usable(a, work[w].rev, planNow)
       THEN work' = [work EXCEPT ![w] = [work[w] EXCEPT
              !.pc = "prepared", !.ans = Platform!Pulled(a, work[w].rev, planNow)]]
       ELSE work' = [work EXCEPT ![w] = Platform!IdleWork]
  /\ UNCHANGED <<planNow, planHub, planCache, flight, planCall, receipts, acked, applied>>

LEMMA PlanPreparedSound ==
  ASSUME NEW cs, NEW ws, NEW bs, NEW life, NEW last, PlanParams(cs, bs, life, last),
         PlanInv(cs, ws, bs, life, last), NEW w \in ws, PlanPrepared(w, life)
  PROVE  PlanInv(cs, ws, bs, life, last)' /\ CacheGrows
<1>1. PICK k \in WorkOf(bs, life, last) : k = work[w]
  BY PlanTyped DEF PlanInv
<1>2. k.pc = "asking" /\ WorkSound(k) /\ k.rev \in 0 .. MaxRev
  BY <1>1 DEF PlanPrepared, PlanInv, PlanWorkInv, WorkOf
<1>3. PICK a \in PlanAnswers(life) :
        IF Platform!Usable(a, k.rev, planNow)
        THEN work' = [work EXCEPT ![w] = [work[w] EXCEPT
               !.pc = "prepared", !.ans = Platform!Pulled(a, work[w].rev, planNow)]]
        ELSE work' = [work EXCEPT ![w] = Platform!IdleWork]
  BY <1>1 DEF PlanPrepared
<1>4. CASE Platform!Usable(a, k.rev, planNow)
  <2>1. PICK s \in SnapsOf(life, last) : s = Platform!Pulled(a, k.rev, planNow)
    <3>1. a \in SnapsOf(life, last) \cup {Denied} /\ planNow \in 0 .. last
      BY AnswersTyped DEF PlanInv, PlanTypes
    <3> QED
      BY <1>2, <3>1, PulledTyped
  <2>2. s.rev >= k.rev /\ s # None /\ s.rev \in Int /\ k.rev \in Int /\ k.ev \in Int
    BY <1>2, <1>4, <2>1, SnapTyped, PlanBounds DEF Platform!Usable, PlanParams, WorkOf
  <2>3. PICK q : q = [k EXCEPT !.pc = "prepared", !.ans = s]
    OBVIOUS
  <2>4. /\ q \in WorkOf(bs, life, last) /\ q.pc = "prepared" /\ q.rev = k.rev /\ q.ev = k.ev
        /\ q.body = k.body /\ q.ans = s
    BY <2>3 DEF WorkOf
  <2>5. WorkSound(q)
    BY <1>2, <2>2, <2>4 DEF WorkSound
  <2>6. work' = [work EXCEPT ![w] = q]
    BY <1>1, <1>3, <1>4, <2>1, <2>3
  <2> QED
    BY <2>4, <2>5, <2>6, WorkSteps DEF PlanPrepared
<1>5. CASE ~Platform!Usable(a, k.rev, planNow)
  <2>1. PICK q \in WorkOf(bs, life, last) : q = Platform!IdleWork /\ WorkSound(q)
    BY IdleWorkSound
  <2>2. work' = [work EXCEPT ![w] = q]
    BY <1>3, <1>5, <2>1
  <2> QED
    BY <2>1, <2>2, WorkSteps DEF PlanPrepared
<1> QED
  BY <1>4, <1>5

LEMMA PlanAborts ==
  ASSUME NEW cs, NEW ws, NEW bs, NEW life, NEW last, PlanParams(cs, bs, life, last),
         PlanInv(cs, ws, bs, life, last), NEW w \in ws, Platform!Abort(w)
  PROVE  PlanInv(cs, ws, bs, life, last)' /\ CacheGrows
<1>1. PICK q \in WorkOf(bs, life, last) : q = Platform!IdleWork /\ WorkSound(q)
  BY IdleWorkSound
<1>2. work' = [work EXCEPT ![w] = q]
      /\ UNCHANGED <<planNow, planHub, planCache, flight, planCall, receipts, acked, applied>>
  BY <1>1 DEF Platform!Abort, Platform!SetWork
<1> QED
  BY <1>1, <1>2, WorkSteps

(* The receipt and the snapshot commit together.                             *)
LEMMA PlanCommits ==
  ASSUME NEW cs, NEW ws, NEW bs, NEW life, NEW last, PlanParams(cs, bs, life, last),
         PlanInv(cs, ws, bs, life, last), NEW w \in ws, Platform!Commit(w)
  PROVE  PlanInv(cs, ws, bs, life, last)' /\ CacheGrows
<1>1. PICK k \in WorkOf(bs, life, last) : k = work[w]
  BY PlanTyped DEF PlanInv
<1>2. /\ k.pc = "prepared" /\ WorkSound(k)
      /\ UNCHANGED <<planNow, planHub, flight, planCall, planLeft>>
  BY <1>1 DEF Platform!Commit, PlanInv, PlanWorkInv
<1>3. PICK e \in 1 .. MaxRev : e = k.ev
  BY <1>2, PlanBounds DEF WorkSound, WorkOf
<1>4. PICK b \in bs : b = k.body
  BY <1>2 DEF WorkSound, WorkOf
<1>5. PICK s \in SnapsOf(life, last) : s = k.ans /\ s.rev >= e
  BY <1>2, <1>3 DEF WorkSound, WorkOf
<1>6. CASE receipts[e] # None
  <2>1. Platform!Settle(w, e, b) /\ UNCHANGED <<planCache, receipts, applied>>
    BY <1>1, <1>3, <1>4, <1>6 DEF Platform!Commit
  <2> QED
    BY <1>2, <2>1, WorkSettles
<1>7. CASE receipts[e] = None
  <2>1. /\ receipts' = [receipts EXCEPT ![e] = b] /\ planCache' = Platform!Stored(s)
        /\ applied' = Platform!MaxOf(applied, e)
        /\ acked' = [acked EXCEPT ![e] = @ \cup {b}]
        /\ work' = [work EXCEPT ![w] = Platform!IdleWork]
    BY <1>1, <1>3, <1>4, <1>5, <1>7 DEF Platform!Commit, Platform!Acknowledge, Platform!SetWork
  <2>2. PICK q \in WorkOf(bs, life, last) : q = Platform!IdleWork /\ WorkSound(q)
    BY IdleWorkSound
  <2>3. /\ planCache \in SnapsOf(life, last) \cup {None}
        /\ receipts \in [1 .. MaxRev -> bs \cup {None}] /\ acked \in [1 .. MaxRev -> SUBSET bs]
        /\ applied \in 0 .. MaxRev /\ applied \in Int /\ 0 <= applied
    BY PlanTyped DEF PlanInv, PlanTypes
  <2>4. /\ planCache' \in SnapsOf(life, last) /\ planCache' # None /\ CacheGrows
        /\ planCache'.rev >= s.rev /\ planCache'.rev \in Int
        /\ planCache # None => planCache'.rev >= planCache.rev
    BY <2>1, <2>3, StoredGrows
  <2>5. /\ applied' \in 0 .. MaxRev /\ applied <= applied' /\ applied' \in Int
        /\ applied' = applied \/ applied' = e
    BY <2>1, <2>3, PlanBounds DEF Platform!MaxOf
  <2>6. PlanInForce'
    <3>1. s.rev \in Int
      BY SnapTyped
    <3>2. CASE applied' = e
      BY <1>5, <2>4, <3>1, <3>2 DEF PlanInForce
    <3>3. CASE applied' = applied
      <4> SUFFICES ASSUME applied > 0 PROVE planCache'.rev >= applied
        BY <2>4, <3>3 DEF PlanInForce
      <4>1. planCache # None /\ planCache.rev >= applied
        BY DEF PlanInv, PlanInForce
      <4>2. planCache.rev \in Int
        BY <2>3, <4>1, SnapTyped
      <4> QED
        BY <2>3, <2>4, <4>1, <4>2
    <3> QED
      BY <2>5, <3>2, <3>3
  <2>7. receipts' \in [1 .. MaxRev -> bs \cup {None}] /\ acked' \in [1 .. MaxRev -> SUBSET bs]
    BY <2>1, <2>3
  <2>8. PlanReceipts'
    <3>1. /\ \A d \in 1 .. MaxRev : acked'[d] = IF d = e THEN acked[e] \cup {b} ELSE acked[d]
          /\ \A d \in 1 .. MaxRev : receipts'[d] = IF d = e THEN b ELSE receipts[d]
      BY <2>1, <2>3
    <3>2. acked[e] = {} /\ b # None
      BY <1>7 DEF PlanInv, PlanReceipts, PlanParams
    <3> QED
      BY <3>1, <3>2 DEF PlanInv, PlanReceipts
  <2> QED
    BY <1>2, <2>1, <2>2, <2>4, <2>5, <2>6, <2>7, <2>8, PlanWorks
<1> QED
  BY <1>6, <1>7

LEMMA PlanPurges ==
  ASSUME NEW cs, NEW ws, NEW bs, NEW life, NEW last, PlanParams(cs, bs, life, last),
         PlanInv(cs, ws, bs, life, last), NEW e \in 1 .. MaxRev, Platform!Purge(e)
  PROVE  PlanInv(cs, ws, bs, life, last)' /\ CacheGrows
<1>1. /\ receipts' = [receipts EXCEPT ![e] = None] /\ acked' = [acked EXCEPT ![e] = {}]
      /\ UNCHANGED <<planNow, planHub, planCache, flight, planCall, work, applied>>
  BY DEF Platform!Purge
<1>2. /\ receipts \in [1 .. MaxRev -> bs \cup {None}] /\ acked \in [1 .. MaxRev -> SUBSET bs]
      /\ planCache \in SnapsOf(life, last) \cup {None}
  BY DEF PlanInv, PlanTypes
<1>3. PlanTypes(cs, ws, bs, life, last)'
  BY <1>1, <1>2 DEF PlanInv, PlanTypes
<1>4. PlanCallsInv(cs)' /\ PlanWorkInv(ws)' /\ PlanInForce'
  BY <1>1 DEF PlanInv, PlanCallsInv, PlanWorkInv, PlanInForce
<1>5. PlanReceipts'
  <2>1. /\ \A d \in 1 .. MaxRev : acked'[d] = IF d = e THEN {} ELSE acked[d]
        /\ \A d \in 1 .. MaxRev : receipts'[d] = IF d = e THEN None ELSE receipts[d]
    BY <1>1, <1>2
  <2> QED
    BY <2>1 DEF PlanInv, PlanReceipts
<1>6. CacheGrows
  BY <1>1, <1>2, SnapTyped DEF CacheGrows
<1> QED
  BY <1>3, <1>4, <1>5, <1>6 DEF PlanInv

(* The account is erased: what reads take as their floor with it.            *)
PlanForgets(cs) ==
  /\ planCache' = None /\ applied' = 0
  /\ planCall' = [c \in cs |-> [planCall[c] EXCEPT !.floor = 0]]
  /\ UNCHANGED <<planNow, planHub, flight, work, receipts, acked>>

LEMMA PlanForgetsSound ==
  ASSUME NEW cs, NEW ws, NEW bs, NEW life, NEW last, PlanParams(cs, bs, life, last),
         PlanInv(cs, ws, bs, life, last), PlanForgets(cs)
  PROVE  PlanInv(cs, ws, bs, life, last)' /\ CacheGrows
<1>1. ASSUME NEW c \in cs
      PROVE  /\ planCall'[c] \in PlanReadsOf(cs, life, last) /\ planCall'[c].pc = planCall[c].pc
             /\ PlanCallSound(planCall'[c], planNow, 0, flight)
  <2>1. PICK k \in PlanReadsOf(cs, life, last) : k = planCall[c]
    BY PlanTyped DEF PlanInv
  <2>2. PICK n \in 0 .. MaxRev : n = 0
    BY PlanBounds
  <2>3. PICK r : r = [k EXCEPT !.floor = n]
    OBVIOUS
  <2>4. /\ r \in PlanReadsOf(cs, life, last) /\ r.pc = k.pc /\ r.lock = k.lock /\ r.at = k.at
        /\ r.ans = k.ans /\ r.floor = n
    BY <2>3 DEF PlanReadsOf
  <2>5. planCall'[c] = r
    BY <2>1, <2>2, <2>3 DEF PlanForgets
  <2>6. PlanCallSound(k, planNow, applied, flight)
    BY <2>1 DEF PlanInv, PlanCallsInv
  <2>7. k.ans \notin {None, Denied} => k.ans.rev >= 0
    <3> SUFFICES ASSUME k.ans \in SnapsOf(life, last) PROVE k.ans.rev >= 0
      BY DEF PlanReadsOf
    <3> QED
      BY SnapTyped, PlanBounds
  <2>8. PlanCallSound(r, planNow, 0, flight)
    BY <2>2, <2>4, <2>6, <2>7 DEF PlanCallSound
  <2> QED
    BY <2>1, <2>4, <2>5, <2>8
<1>2. planCall' \in [cs -> PlanReadsOf(cs, life, last)]
  BY <1>1 DEF PlanForgets
<1>3. PlanTypes(cs, ws, bs, life, last)'
  BY <1>2, PlanBounds DEF PlanInv, PlanTypes, PlanForgets
<1>4. PlanCallsInv(cs)'
  BY <1>1 DEF PlanInv, PlanCallsInv, PlanForgets
<1>5. PlanWorkInv(ws)' /\ PlanInForce' /\ PlanReceipts' /\ CacheGrows
  BY DEF PlanInv, PlanWorkInv, PlanInForce, PlanReceipts, PlanForgets, CacheGrows
<1> QED
  BY <1>3, <1>4, <1>5 DEF PlanInv

(* The hub changes the plan or the standing, or time passes.                 *)
PlanElsewhere(last) ==
  /\ planHub' \in [rev : 0 .. MaxRev, known : BOOLEAN]
  /\ planNow' \in 0 .. last /\ planNow <= planNow'
  /\ UNCHANGED <<planCache, flight, planCall, work, receipts, acked, applied>>

LEMMA PlanElsewhereSound ==
  ASSUME NEW cs, NEW ws, NEW bs, NEW life, NEW last, PlanParams(cs, bs, life, last),
         PlanInv(cs, ws, bs, life, last), PlanElsewhere(last)
  PROVE  PlanInv(cs, ws, bs, life, last)' /\ CacheGrows
<1>1. PlanTypes(cs, ws, bs, life, last)'
  BY DEF PlanInv, PlanTypes, PlanElsewhere
<1>2. PlanCallsInv(cs)'
  <2>1. ASSUME NEW c \in cs PROVE PlanCallSound(planCall[c], planNow', applied, flight)
    <3>1. planCall[c].at \in Int /\ planNow \in Int /\ planNow' \in Int
      BY PlanTyped DEF PlanInv, PlanReadsOf, PlanElsewhere, PlanParams
    <3>2. PlanCallSound(planCall[c], planNow, applied, flight)
      BY DEF PlanInv, PlanCallsInv
    <3> QED
      BY <3>1, <3>2 DEF PlanCallSound, PlanElsewhere
  <2> QED
    BY <2>1 DEF PlanInv, PlanCallsInv, PlanElsewhere
<1>3. PlanWorkInv(ws)' /\ PlanInForce' /\ PlanReceipts'
  BY DEF PlanInv, PlanWorkInv, PlanInForce, PlanReceipts, PlanElsewhere
<1>4. CacheGrows
  <2>1. planCache \in SnapsOf(life, last) \cup {None} /\ planCache' = planCache
    BY DEF PlanInv, PlanTypes, PlanElsewhere
  <2> QED
    BY <2>1, SnapTyped DEF CacheGrows
<1> QED
  BY <1>1, <1>2, <1>3, <1>4 DEF PlanInv

PlanActs(cs, ws, bs, life, last) ==
  \/ \E c \in cs :
       \/ Platform!Current(c) \/ PlanJoins(cs, c) \/ PlanTakes(cs, c) \/ Platform!Recheck(c)
       \/ Platform!ReadRevision(c) \/ PlanReplies(c, life) \/ Platform!Store(c)
       \/ Platform!ReadBack(c) \/ Platform!GiveUp(c) \/ Platform!Refresh(c)
       \/ PlanRefreshed(c, life)
  \/ \E w \in ws, e \in 1 .. MaxRev, b \in bs : Platform!Deliver(w, e, b)
  \/ \E w \in ws : Platform!Prepare(w) \/ PlanPrepared(w, life) \/ Platform!Commit(w)
                   \/ Platform!Abort(w)
  \/ \E e \in 1 .. MaxRev : Platform!Purge(e)
  \/ PlanForgets(cs) \/ PlanElsewhere(last)

LEMMA PlanMovesSound ==
  ASSUME NEW cs, NEW ws, NEW bs, NEW life, NEW last, PlanParams(cs, bs, life, last),
         PlanInv(cs, ws, bs, life, last), PlanActs(cs, ws, bs, life, last)
  PROVE  PlanInv(cs, ws, bs, life, last)' /\ CacheGrows
<1>1. ASSUME NEW c \in cs,
             \/ Platform!Current(c) \/ PlanJoins(cs, c) \/ PlanTakes(cs, c)
             \/ Platform!Recheck(c) \/ Platform!ReadRevision(c) \/ PlanReplies(c, life)
      PROVE  PlanInv(cs, ws, bs, life, last)' /\ CacheGrows
  BY <1>1, PlanCurrents, PlanJoinsSound, PlanTakesSound, PlanRechecks, PlanReads,
    PlanRepliesSound
<1>2. ASSUME NEW c \in cs,
             \/ Platform!Store(c) \/ Platform!ReadBack(c) \/ Platform!GiveUp(c)
             \/ Platform!Refresh(c) \/ PlanRefreshed(c, life)
      PROVE  PlanInv(cs, ws, bs, life, last)' /\ CacheGrows
  BY <1>2, PlanStores, PlanRechecks, PlanGivesUp, PlanRefreshes, PlanRefreshedSound
<1>3. ASSUME NEW w \in ws,
             \/ \E e \in 1 .. MaxRev, b \in bs : Platform!Deliver(w, e, b)
             \/ Platform!Prepare(w) \/ PlanPrepared(w, life) \/ Platform!Commit(w)
             \/ Platform!Abort(w)
      PROVE  PlanInv(cs, ws, bs, life, last)' /\ CacheGrows
  BY <1>3, PlanDelivers, PlanPrepares, PlanPreparedSound, PlanCommits, PlanAborts
<1>4. ASSUME \/ \E e \in 1 .. MaxRev : Platform!Purge(e)
             \/ PlanForgets(cs) \/ PlanElsewhere(last)
      PROVE  PlanInv(cs, ws, bs, life, last)' /\ CacheGrows
  BY <1>4, PlanPurges, PlanForgetsSound, PlanElsewhereSound
<1> QED
  BY <1>1, <1>2, <1>3, <1>4 DEF PlanActs

LEMMA StandingTyped ==
  ASSUME planHub \in [rev : 0 .. MaxRev, known : BOOLEAN],
         planHub' = [planHub EXCEPT !.known = ~@]
  PROVE  planHub' \in [rev : 0 .. MaxRev, known : BOOLEAN]
<1>1. PICK b \in BOOLEAN : b = ~planHub.known
  OBVIOUS
<1>2. planHub' = [planHub EXCEPT !.known = b]
  BY <1>1
<1> QED
  BY <1>2

(* The two runs take these steps.                                            *)
LEMMA PlatformPlanMoves ==
  ASSUME PlanInv(PlanCallers, PlanWorkers, Bodies, Life, PlanMaxTime), Platform!PlanNext
  PROVE  PlanActs(PlanCallers, PlanWorkers, Bodies, Life, PlanMaxTime)
<1>0. Platform!Answers = PlanAnswers(Life)
  BY DEF Platform!Answers, PlanAnswers
<1>1. ASSUME NEW c \in PlanCallers
      PROVE  /\ Platform!Join(c) => PlanJoins(PlanCallers, c)
             /\ Platform!PlanLock(c) => PlanTakes(PlanCallers, c)
             /\ Platform!HubAnswers(c) => PlanReplies(c, Life)
             /\ Platform!Refreshed(c) => PlanRefreshed(c, Life)
  <2>1. Platform!Join(c) => PlanJoins(PlanCallers, c)
    BY DEF Platform!Join, PlanJoins, Platform!Alive, Platform!Locks, PlanLocks, Platform!PlanSet,
      Platform!Cardinality, Cardinality
  <2>2. Platform!PlanLock(c) => PlanTakes(PlanCallers, c)
    BY DEF Platform!PlanLock, PlanTakes, Platform!Holding, Pulling, Platform!PlanStep,
      Platform!PlanSet
  <2>3. Platform!HubAnswers(c) => PlanReplies(c, Life)
    BY <1>0 DEF Platform!HubAnswers, PlanReplies, Platform!PlanSet
  <2>4. Platform!Refreshed(c) => PlanRefreshed(c, Life)
    BY <1>0 DEF Platform!Refreshed, PlanRefreshed
  <2> QED
    BY <2>1, <2>2, <2>3, <2>4
<1>2. ASSUME NEW w \in PlanWorkers, Platform!Prepared(w) PROVE PlanPrepared(w, Life)
  BY <1>0, <1>2 DEF Platform!Prepared, PlanPrepared, Platform!SetWork
<1>3. Platform!Forget => PlanForgets(PlanCallers)
  BY DEF Platform!Forget, PlanForgets
<1>4. Platform!Change \/ Platform!Standing \/ Platform!PlanTick => PlanElsewhere(PlanMaxTime)
  <2>1. /\ planHub \in [rev : 0 .. MaxRev, known : BOOLEAN] /\ planNow \in 0 .. PlanMaxTime
        /\ MaxRev \in Nat /\ PlanMaxTime \in Nat
    BY PlanBounds DEF PlanInv, PlanTypes, PlanParams
  <2>2. Platform!Change => PlanElsewhere(PlanMaxTime)
    BY <2>1 DEF Platform!Change, PlanElsewhere
  <2>3. Platform!Standing => PlanElsewhere(PlanMaxTime)
    BY <2>1, StandingTyped DEF Platform!Standing, PlanElsewhere
  <2>4. Platform!PlanTick => PlanElsewhere(PlanMaxTime)
    BY <2>1 DEF Platform!PlanTick, PlanElsewhere
  <2> QED
    BY <2>2, <2>3, <2>4
<1> QED
  BY <1>1, <1>2, <1>3, <1>4 DEF PlanActs, Platform!PlanNext, Platform!CallStep,
    Platform!Events

LEMMA EventsPulls ==
  /\ PlatformEvents!Revision = Platform!Revision
  /\ \A t : PlatformEvents!Hit(t) <=> Platform!Hit(t)
  /\ \A s : PlatformEvents!Stored(s) = Platform!Stored(s)
  /\ \A a, r, t : /\ PlatformEvents!Pulled(a, r, t) = Platform!Pulled(a, r, t)
                  /\ PlatformEvents!Usable(a, r, t) <=> Platform!Usable(a, r, t)
  /\ PlatformEvents!IdleCall = Platform!IdleCall /\ PlatformEvents!IdleWork = Platform!IdleWork
  /\ \A x, y : PlatformEvents!MaxOf(x, y) = Platform!MaxOf(x, y)
  /\ PlatformEvents!Answers = PlanAnswers(1)
<1>1. PlatformEvents!Revision = Platform!Revision
  BY DEF PlatformEvents!Revision, Platform!Revision
<1>2. \A t : PlatformEvents!Hit(t) <=> Platform!Hit(t)
  BY DEF PlatformEvents!Hit, Platform!Hit
<1>3. \A s : PlatformEvents!Stored(s) = Platform!Stored(s)
  BY DEF PlatformEvents!Stored, Platform!Stored, PlatformEvents!Newer, Platform!Newer
<1>4. \A a, r, t : PlatformEvents!Pulled(a, r, t) = Platform!Pulled(a, r, t)
  BY DEF PlatformEvents!Pulled, Platform!Pulled, PlatformEvents!Free, Platform!Free
<1>5. \A a, r, t : PlatformEvents!Usable(a, r, t) <=> Platform!Usable(a, r, t)
  BY <1>4 DEF PlatformEvents!Usable, Platform!Usable
<1>6. PlatformEvents!IdleCall = Platform!IdleCall /\ PlatformEvents!IdleWork = Platform!IdleWork
  BY DEF PlatformEvents!IdleCall, Platform!IdleCall, PlatformEvents!IdleWork, Platform!IdleWork
<1>7. \A x, y : PlatformEvents!MaxOf(x, y) = Platform!MaxOf(x, y)
  BY DEF PlatformEvents!MaxOf, Platform!MaxOf
<1>8. PlatformEvents!Answers = PlanAnswers(1)
  BY DEF PlatformEvents!Answers, PlanAnswers
<1> QED
  BY <1>1, <1>2, <1>3, <1>4, <1>5, <1>6, <1>7, <1>8

LEMMA EventsReads ==
  ASSUME NEW c
  PROVE  /\ PlatformEvents!Current(c) => Platform!Current(c)
         /\ PlatformEvents!Refresh(c) => Platform!Refresh(c)
         /\ PlatformEvents!Recheck(c) => Platform!Recheck(c)
         /\ PlatformEvents!ReadRevision(c) => Platform!ReadRevision(c)
         /\ PlatformEvents!Store(c) => Platform!Store(c)
         /\ PlatformEvents!ReadBack(c) => Platform!ReadBack(c)
         /\ PlatformEvents!GiveUp(c) => Platform!GiveUp(c)
         /\ PlatformEvents!HubAnswers(c) => PlanReplies(c, 1)
         /\ PlatformEvents!Refreshed(c) => PlanRefreshed(c, 1)
<1>0. /\ \A r : PlatformEvents!PlanSet(c, r) <=> Platform!PlanSet(c, r)
      /\ \A pc : PlatformEvents!PlanStep(c, pc) <=> Platform!PlanStep(c, pc)
      /\ \A ans : PlatformEvents!PlanReturn(c, ans) <=> Platform!PlanReturn(c, ans)
  BY DEF PlatformEvents!PlanSet, Platform!PlanSet, PlatformEvents!PlanStep, Platform!PlanStep,
    PlatformEvents!PlanReturn, Platform!PlanReturn
<1>1. PlatformEvents!Current(c) => Platform!Current(c)
  BY EventsPulls DEF PlatformEvents!Current, Platform!Current, PlatformEvents!PlanSet,
    Platform!PlanSet
<1>2. PlatformEvents!Refresh(c) => Platform!Refresh(c)
  BY EventsPulls DEF PlatformEvents!Refresh, Platform!Refresh, PlatformEvents!PlanSet,
    Platform!PlanSet
<1>3. PlatformEvents!Recheck(c) => Platform!Recheck(c)
  BY <1>0, EventsPulls DEF PlatformEvents!Recheck, Platform!Recheck
<1>4. PlatformEvents!ReadRevision(c) => Platform!ReadRevision(c)
  BY EventsPulls DEF PlatformEvents!ReadRevision, Platform!ReadRevision,
    PlatformEvents!PlanSet, Platform!PlanSet
<1>5. PlatformEvents!Store(c) => Platform!Store(c)
  BY <1>0, EventsPulls DEF PlatformEvents!Store, Platform!Store
<1>6. PlatformEvents!ReadBack(c) => Platform!ReadBack(c)
  <2>1. CASE Platform!Hit(planCall[c].at)
    BY <1>0, <2>1, EventsPulls DEF PlatformEvents!ReadBack, Platform!ReadBack
  <2>2. CASE ~Platform!Hit(planCall[c].at)
    BY <1>0, <2>2, EventsPulls DEF PlatformEvents!ReadBack, Platform!ReadBack
  <2> QED
    BY <2>1, <2>2
<1>7. PlatformEvents!GiveUp(c) => Platform!GiveUp(c)
  BY <1>0 DEF PlatformEvents!GiveUp, Platform!GiveUp
<1>8. PlatformEvents!HubAnswers(c) => PlanReplies(c, 1)
  BY EventsPulls DEF PlatformEvents!HubAnswers, PlanReplies, PlatformEvents!PlanSet
<1>9. PlatformEvents!Refreshed(c) => PlanRefreshed(c, 1)
  BY <1>0, EventsPulls DEF PlatformEvents!Refreshed, PlanRefreshed
<1> QED
  BY <1>1, <1>2, <1>3, <1>4, <1>5, <1>6, <1>7, <1>8, <1>9

LEMMA EventsWorks ==
  ASSUME NEW w
  PROVE  /\ \A e, b : PlatformEvents!Deliver(w, e, b) => Platform!Deliver(w, e, b)
         /\ PlatformEvents!Prepare(w) => Platform!Prepare(w)
         /\ PlatformEvents!Prepared(w) => PlanPrepared(w, 1)
         /\ PlatformEvents!Commit(w) => Platform!Commit(w)
         /\ PlatformEvents!Abort(w) => Platform!Abort(w)
         /\ \A e : PlatformEvents!Purge(e) => Platform!Purge(e)
<1>0. /\ \A q : PlatformEvents!SetWork(w, q) <=> Platform!SetWork(w, q)
      /\ \A e, b : PlatformEvents!Acknowledge(e, b) <=> Platform!Acknowledge(e, b)
  BY DEF PlatformEvents!SetWork, Platform!SetWork, PlatformEvents!Acknowledge,
    Platform!Acknowledge
<1>1. \A e, b : PlatformEvents!Settle(w, e, b) <=> Platform!Settle(w, e, b)
  BY <1>0, EventsPulls DEF PlatformEvents!Settle, Platform!Settle
<1>2. \A e, b : PlatformEvents!Deliver(w, e, b) => Platform!Deliver(w, e, b)
  BY <1>0, <1>1, EventsPulls DEF PlatformEvents!Deliver, Platform!Deliver
<1>3. PlatformEvents!Prepare(w) => Platform!Prepare(w)
  BY EventsPulls DEF PlatformEvents!Prepare, Platform!Prepare, PlatformEvents!SetWork,
    Platform!SetWork
<1>4. PlatformEvents!Prepared(w) => PlanPrepared(w, 1)
  BY EventsPulls DEF PlatformEvents!Prepared, PlanPrepared, PlatformEvents!SetWork
<1>5. PlatformEvents!Commit(w) => Platform!Commit(w)
  BY <1>0, <1>1, EventsPulls DEF PlatformEvents!Commit, Platform!Commit
<1>6. PlatformEvents!Abort(w) => Platform!Abort(w)
  BY <1>0, EventsPulls DEF PlatformEvents!Abort, Platform!Abort
<1>7. \A e : PlatformEvents!Purge(e) => Platform!Purge(e)
  BY DEF PlatformEvents!Purge, Platform!Purge
<1> QED
  BY <1>2, <1>3, <1>4, <1>5, <1>6, <1>7

LEMMA EventsPlanMoves ==
  ASSUME PlanInv({c1}, {w1, w2}, {b1, b2}, 1, 0), PlatformEvents!PlanNext
  PROVE  PlanActs({c1}, {w1, w2}, {b1, b2}, 1, 0)
<1>1. PlatformEvents!Join(c1) => PlanJoins({c1}, c1)
  BY DEF PlatformEvents!Join, PlanJoins, PlatformEvents!Alive, PlatformEvents!Locks, PlanLocks,
    PlatformEvents!PlanSet, PlatformEvents!Cardinality, Cardinality
<1>2. PlatformEvents!PlanLock(c1) => PlanTakes({c1}, c1)
  BY DEF PlatformEvents!PlanLock, PlanTakes, PlatformEvents!Holding, Pulling,
    PlatformEvents!PlanStep, PlatformEvents!PlanSet
<1>3. PlatformEvents!Forget => PlanForgets({c1})
  BY DEF PlatformEvents!Forget, PlanForgets
<1>4. PlatformEvents!Change \/ PlatformEvents!Standing \/ PlatformEvents!PlanTick
      => PlanElsewhere(0)
  <2>1. /\ planHub \in [rev : 0 .. MaxRev, known : BOOLEAN] /\ planNow \in 0 .. 0
        /\ MaxRev \in Nat
    BY PlanBounds DEF PlanInv, PlanTypes
  <2>2. PlatformEvents!Change => PlanElsewhere(0)
    BY <2>1 DEF PlatformEvents!Change, PlanElsewhere
  <2>3. PlatformEvents!Standing => PlanElsewhere(0)
    BY <2>1, StandingTyped DEF PlatformEvents!Standing, PlanElsewhere
  <2>4. PlatformEvents!PlanTick => PlanElsewhere(0)
    BY <2>1 DEF PlatformEvents!PlanTick, PlanElsewhere
  <2> QED
    BY <2>2, <2>3, <2>4
<1> QED
  BY <1>1, <1>2, <1>3, <1>4, EventsReads, EventsWorks DEF PlanActs, PlatformEvents!PlanNext,
    PlatformEvents!CallStep, PlatformEvents!Events

(* Both start with nothing cached.                                           *)
LEMMA PlanBegins ==
  ASSUME NEW cs, NEW ws, NEW bs, NEW life, NEW last, PlanParams(cs, bs, life, last),
         planNow = 0, planHub = [rev |-> 0, known |-> TRUE], planCache = None, flight = 0,
         planCall = [c \in cs |-> Platform!IdleCall], work = [w \in ws |-> Platform!IdleWork],
         receipts = [e \in 1 .. MaxRev |-> None], acked = [e \in 1 .. MaxRev |-> {}], applied = 0
  PROVE  PlanInv(cs, ws, bs, life, last)
<1>1. 0 \in 0 .. last /\ 0 \in 0 .. MaxRev
  BY PlanBounds DEF PlanParams
<1>2. /\ Platform!IdleCall \in PlanReadsOf(cs, life, last) /\ Platform!IdleCall.pc = "idle"
      /\ PlanCallSound(Platform!IdleCall, 0, 0, 0)
  <2>1. /\ Platform!IdleCall \in PlanReadsOf(cs, life, last) /\ Platform!IdleCall.pc = "idle"
        /\ Platform!IdleCall.lock = 0 /\ Platform!IdleCall.at = 0 /\ Platform!IdleCall.floor = 0
    BY <1>1 DEF Platform!IdleCall, PlanReadsOf
  <2> QED
    BY <2>1 DEF PlanCallSound, Pulling
<1>3. Platform!IdleWork \in WorkOf(bs, life, last) /\ WorkSound(Platform!IdleWork)
  BY IdleWorkSound
<1>4. PlanTypes(cs, ws, bs, life, last)
  BY <1>1, <1>2, <1>3 DEF PlanTypes
<1>5. PlanCallsInv(cs)
  BY <1>2 DEF PlanCallsInv, Pulling
<1>6. PlanWorkInv(ws) /\ PlanInForce /\ PlanReceipts
  BY <1>3 DEF PlanWorkInv, PlanInForce, PlanReceipts
<1> QED
  BY <1>4, <1>5, <1>6 DEF PlanInv

LEMMA PlanStart ==
  /\ Platform!PlanInit => PlanInv(PlanCallers, PlanWorkers, Bodies, Life, PlanMaxTime)
  /\ PlatformEvents!PlanInit => PlanInv({c1}, {w1, w2}, {b1, b2}, 1, 0)
<1>1. Platform!PlanInit => PlanInv(PlanCallers, PlanWorkers, Bodies, Life, PlanMaxTime)
  BY PlanBounds, PlanBegins DEF Platform!PlanInit, Platform!Events
<1>2. PlatformEvents!PlanInit => PlanInv({c1}, {w1, w2}, {b1, b2}, 1, 0)
  BY PlanBounds, PlanBegins, EventsPulls DEF PlatformEvents!PlanInit, PlatformEvents!Events
<1> QED
  BY <1>1, <1>2

(* What the invariant promises.                                              *)
LEMMA PlanPromise ==
  /\ PlanInv(PlanCallers, PlanWorkers, Bodies, Life, PlanMaxTime) =>
       Platform!PlanTypeOK /\ Platform!ServedIsCurrent /\ Platform!OnePull
  /\ PlanInv({c1}, {w1, w2}, {b1, b2}, 1, 0) =>
       /\ PlatformEvents!PlanTypeOK /\ PlatformEvents!ReceiptInForce
       /\ PlatformEvents!OneBodyAcknowledged
<1>0. ASSUME NEW S, \A x, y \in S : x = y PROVE Cardinality(S) <= 1
  <2>1. CASE S = {}
    BY <2>1, FS_EmptySet
  <2>2. CASE S # {}
    <3>1. PICK x : S = {x}
      BY <1>0, <2>2
    <3> QED
      BY <3>1, FS_Singleton
  <2> QED
    BY <2>1, <2>2
<1>1. ASSUME PlanInv(PlanCallers, PlanWorkers, Bodies, Life, PlanMaxTime)
      PROVE  Platform!PlanTypeOK /\ Platform!ServedIsCurrent /\ Platform!OnePull
  <2>1. Platform!PlanTypeOK
    BY <1>1 DEF PlanInv, PlanTypes, Platform!PlanTypeOK, SnapsOf, PlanReadsOf, WorkOf, Pulling,
      PlanLocks, Platform!Snapshots, Platform!Locks, Platform!Holding, Platform!Events,
      Platform!Cardinality, Cardinality
  <2>2. Platform!ServedIsCurrent
    BY <1>1 DEF PlanInv, PlanCallsInv, PlanCallSound, Platform!ServedIsCurrent
  <2>3. PICK S : S = {c \in PlanCallers : planCall[c].pc \in Platform!Holding}
    OBVIOUS
  <2>4. \A x, y \in S : x = y
    BY <1>1, <2>3 DEF PlanInv, PlanCallsInv, Platform!Holding, Pulling
  <2>5. Platform!Cardinality(S) = Cardinality(S)
    BY DEF Platform!Cardinality, Cardinality
  <2> QED
    BY <1>0, <2>1, <2>2, <2>3, <2>4, <2>5 DEF Platform!OnePull
<1>2. ASSUME PlanInv({c1}, {w1, w2}, {b1, b2}, 1, 0)
      PROVE  /\ PlatformEvents!PlanTypeOK /\ PlatformEvents!ReceiptInForce
             /\ PlatformEvents!OneBodyAcknowledged
  <2>1. PlatformEvents!PlanTypeOK
    BY <1>2 DEF PlanInv, PlanTypes, PlatformEvents!PlanTypeOK, SnapsOf, PlanReadsOf, WorkOf, Pulling,
      PlanLocks, PlatformEvents!Snapshots, PlatformEvents!Locks, PlatformEvents!Holding,
      PlatformEvents!Events, PlatformEvents!Cardinality, Cardinality
  <2>2. PlatformEvents!ReceiptInForce
    BY <1>2 DEF PlanInv, PlanInForce, PlatformEvents!ReceiptInForce
  <2>3. ASSUME NEW e \in 1 .. MaxRev PROVE PlatformEvents!Cardinality(acked[e]) <= 1
    <3>1. \A x, y \in acked[e] : x = y
      BY <1>2 DEF PlanInv, PlanReceipts
    <3>2. PlatformEvents!Cardinality(acked[e]) = Cardinality(acked[e])
      BY DEF PlatformEvents!Cardinality, Cardinality
    <3> QED
      BY <1>0, <3>1, <3>2
  <2> QED
    BY <2>1, <2>2, <2>3 DEF PlatformEvents!OneBodyAcknowledged, PlatformEvents!Events
<1> QED
  BY <1>1, <1>2

-----------------------------------------------------------------------------
LEMMA HubBounds ==
  /\ Lifetime \in Int /\ Lifetime > 0 /\ Deadline \in Int /\ Deadline >= 0
  /\ HubMaxTime \in Nat /\ MaxTokens \in Nat /\ MaxRevocations \in Nat
  /\ HubMaxCalls \in Int /\ HubMaxFaults \in Int
  /\ None \notin HubCallers /\ None \notin HubCacheOf
  /\ Platform!Early \in Int /\ 0 <= Platform!Early /\ Platform!Early <= Lifetime
<1>1. /\ Lifetime \in Nat /\ Lifetime > 0 /\ Deadline \in Nat /\ Margin \in Nat
      /\ HubMaxTime \in Nat /\ MaxTokens \in Nat /\ MaxRevocations \in Nat
      /\ HubMaxCalls \in Int /\ HubMaxFaults \in Int
      /\ None \notin HubCallers /\ None \notin HubCacheOf
  BY SuiteAssumption DEF Platform!HubAssumption, Platform!HubTokens, Platform!Tokens, HubCacheOf
<1>2. Platform!Half \in Int /\ 0 <= Platform!Half /\ Platform!Half <= Lifetime
  BY <1>1 DEF Platform!Half
<1>3. Platform!Early \in Int /\ 0 <= Platform!Early /\ Platform!Early <= Lifetime
  BY <1>1, <1>2 DEF Platform!Early
<1> QED
  BY <1>1, <1>3

HubTo(c, r) ==
  /\ c \in HubCallers /\ r \in HubCallOf
  /\ hubCall' = [hubCall EXCEPT ![c] = r]

LEMMA HubToTyped ==
  ASSUME HubTypes, NEW c, NEW r, HubTo(c, r)
  PROVE  /\ hubCall' \in [HubCallers -> HubCallOf]
         /\ hubCall'[c] = r
         /\ \A d \in HubCallers : d # c => hubCall'[d] = hubCall[d]
BY DEF HubTypes, HubTo

LEMMA HubTyped ==
  ASSUME HubTypes
  PROVE  /\ hubNow \in Int /\ 0 <= hubNow /\ hubNow <= HubMaxTime
         /\ hub.issued \in 0 .. MaxTokens /\ hub.expires \in [1 .. MaxTokens -> Nat]
         /\ hub.revoked \in SUBSET (1 .. MaxTokens)
         /\ hubLeft.revoke \in 0 .. MaxRevocations
         /\ \A c \in HubCallers : hubCall[c] \in HubCallOf
BY HubBounds DEF HubTypes

LEMMA HubTokenRange ==
  ASSUME HubTypes, NEW t \in 1 .. hub.issued
  PROVE  /\ t \in Int /\ t \in 1 .. MaxTokens /\ t \in 0 .. MaxTokens
         /\ hub.expires[t] \in Nat /\ hub.expires[t] \in Int
<1>1. hub.issued \in 0 .. MaxTokens /\ MaxTokens \in Nat
  BY HubTyped, HubBounds
<1>2. t \in Int /\ t \in 1 .. MaxTokens /\ t \in 0 .. MaxTokens
  BY <1>1
<1>3. hub.expires[t] \in Nat
  BY <1>2, HubTyped
<1> QED
  BY <1>2, <1>3

(* A caller's record with another pc, and with the fields a step sets.       *)
LEMMA HubCallsKept ==
  ASSUME HubTypes, HubCallsInv, NEW c, NEW r, HubTo(c, r),
         r.pc \in {"requesting", "issued"} <=> hubLock' = c,
         hubLock' = hubLock \/ (hubLock \in {c, None} /\ hubLock' \in {c, None}),
         HubCallSound(r, hubNow', hub', refused'),
         \A k \in HubCallOf : HubCallSound(k, hubNow, hub, refused)
                              => HubCallSound(k, hubNow', hub', refused')
  PROVE  HubCallsInv'
<1>1. /\ c \in HubCallers /\ hubCall'[c] = r
      /\ \A d \in HubCallers : d # c => hubCall'[d] = hubCall[d]
  BY HubToTyped DEF HubTo
<1> SUFFICES ASSUME NEW d \in HubCallers
             PROVE  /\ hubCall'[d].pc \in {"requesting", "issued"} <=> hubLock' = d
                    /\ HubCallSound(hubCall'[d], hubNow', hub', refused')
  BY DEF HubCallsInv
<1>2. CASE d = c
  BY <1>1, <1>2
<1>3. CASE d # c
  <2>1. hubCall'[d] = hubCall[d] /\ d # None /\ c # None /\ hubCall[d] \in HubCallOf
    BY <1>1, <1>3, HubBounds, HubTyped
  <2>2. hubLock' = d <=> hubLock = d
    BY <1>3, <2>1
  <2> QED
    BY <2>1, <2>2 DEF HubCallsInv
<1> QED
  BY <1>2, <1>3

(* A step that leaves the hub, its time and the refusals as they are.        *)
LEMMA HubSteps ==
  ASSUME HubInv, NEW c, NEW r, HubTo(c, r), UNCHANGED <<hubNow, hub, hubCache, refused>>,
         hubLeft' \in [call : Int, fault : Int, revoke : 0 .. MaxRevocations],
         hubLeft'.revoke = hubLeft.revoke,
         r.pc \in {"requesting", "issued"} <=> hubLock' = c,
         hubLock' = hubLock \/ (hubLock \in {c, None} /\ hubLock' \in {c, None}),
         HubCallSound(r, hubNow, hub, refused)
  PROVE  HubInv'
<1>1. HubTypes'
  <2>1. hubLock' \in HubCallers \cup {None}
    BY DEF HubInv, HubTypes, HubTo
  <2> QED
    BY <2>1, HubToTyped DEF HubInv, HubTypes
<1>2. HubCallsInv'
  BY HubCallsKept DEF HubInv
<1>3. HubCacheInv' /\ HubCalm'
  BY DEF HubInv, HubCacheInv, HubCalm, Platform!Early, Platform!Half
<1> QED
  BY <1>1, <1>2, <1>3 DEF HubInv

HubLeftOf == [call : Int, fault : Int, revoke : 0 .. MaxRevocations]

LEMMA HubBegins ==
  ASSUME HubInv, NEW c \in HubCallers, Platform!HubBegin(c)
  PROVE  HubInv'
<1>1. PICK r : r = [Platform!HubIdle EXCEPT !.pc = "token"]
  OBVIOUS
<1>2. r \in HubCallOf /\ r.pc = "token" /\ r.asked = 0 /\ r.sent = 0 /\ r.refreshed = FALSE
  <2>1. 0 \in 0 .. HubMaxTime /\ 0 \in 0 .. MaxTokens /\ 0 \in 0 .. 2
    BY HubBounds
  <2> QED
    BY <1>1, <2>1 DEF HubCallOf, Platform!HubIdle
<1>3. HubTo(c, r) /\ hubCall[c].pc \in {"idle", "done"}
      /\ UNCHANGED <<hubNow, hub, hubCache, hubLock, refused>>
  BY <1>1, <1>2 DEF Platform!HubBegin, Platform!HubSet, HubTo
<1>4. hubLock # c
  BY <1>3 DEF HubInv, HubCallsInv
<1>5. hubLeft' \in HubLeftOf /\ hubLeft'.revoke = hubLeft.revoke
  BY DEF Platform!HubBegin, HubInv, HubTypes, HubLeftOf
<1>6. HubCallSound(r, hubNow, hub, refused)
  BY <1>2, HubTyped DEF HubCallSound, HubInv
<1> QED
  BY <1>2, <1>3, <1>4, <1>5, <1>6, HubSteps DEF HubLeftOf

LEMMA HubTakes ==
  ASSUME HubInv, NEW c \in HubCallers, Platform!Token(c)
  PROVE  HubInv'
<1>1. /\ hubCall[c].pc = "token" /\ hubLock = None /\ hubCall[c] \in HubCallOf /\ c # None
      /\ UNCHANGED <<hubNow, hub, hubCache, refused, hubLeft>>
      /\ HubCallSound(hubCall[c], hubNow, hub, refused)
  BY HubTyped, HubBounds DEF Platform!Token, HubInv, HubCallsInv
<1>2. /\ hubNow \in 0 .. HubMaxTime /\ hubNow \in Int /\ Deadline \in Int /\ Deadline >= 0
      /\ hubLeft' \in HubLeftOf /\ hubLeft'.revoke = hubLeft.revoke
      /\ hub.issued \in 0 .. MaxTokens /\ hub.expires \in [1 .. MaxTokens -> Nat]
  BY <1>1, HubBounds, HubTyped DEF HubInv, HubTypes, HubLeftOf
<1>3. CASE hubCache # None /\ hubNow < hubCache.refreshAt
  <2>1. PICK t : t = hubCache.token
    OBVIOUS
  <2>2. t \in 1 .. hub.issued /\ t \in 0 .. MaxTokens
        /\ hubCache.refreshAt + Platform!Early <= hub.expires[t] /\ hubCache \in HubCacheOf
    <3>1. t \in 1 .. hub.issued /\ hubCache.refreshAt + Platform!Early <= hub.expires[t]
      BY <1>3, <2>1 DEF HubInv, HubCacheInv
    <3>2. hubCache \in HubCacheOf
      BY <1>3 DEF HubInv, HubTypes
    <3> QED
      BY <3>1, <3>2, HubTokenRange DEF HubInv
  <2>3. PICK k \in HubCallOf : k = hubCall[c]
    BY <1>1
  <2>4. PICK n \in 0 .. HubMaxTime : n = hubNow
    BY <1>2
  <2>5. PICK r : r = [k EXCEPT !.pc = "send", !.token = t, !.asked = n]
    OBVIOUS
  <2>6. /\ r \in HubCallOf /\ r.pc = "send" /\ r.token = t /\ r.asked = n
        /\ r.sent = k.sent /\ r.refreshed = k.refreshed
    BY <2>2, <2>5 DEF HubCallOf
  <2>7. HubTo(c, r) /\ hubLock' = hubLock
    BY <1>3, <2>1, <2>3, <2>4, <2>5, <2>6 DEF Platform!Token, Platform!HubSet, HubTo
  <2>8. HubMargin => hubNow + Deadline < hub.expires[t]
    <3>1. hubCache.refreshAt \in Int /\ hub.expires[t] \in Int
      BY <2>2, HubTokenRange DEF HubCacheOf, HubInv
    <3> QED
      BY <1>2, <1>3, <2>2, <3>1, HubBounds DEF HubMargin
  <2>9. HubCallSound(r, hubNow, hub, refused)
    BY <1>1, <1>2, <2>2, <2>3, <2>4, <2>6, <2>8 DEF HubCallSound
  <2> QED
    BY <1>1, <1>2, <2>6, <2>7, <2>9, HubSteps DEF HubLeftOf
<1>4. CASE ~(hubCache # None /\ hubNow < hubCache.refreshAt)
  <2>1. PICK k \in HubCallOf : k = hubCall[c]
    BY <1>1
  <2>2. PICK n \in 0 .. HubMaxTime : n = hubNow
    BY <1>2
  <2>3. PICK r : r = [k EXCEPT !.pc = "requesting", !.asked = n]
    OBVIOUS
  <2>4. /\ r \in HubCallOf /\ r.pc = "requesting" /\ r.asked = n
        /\ r.sent = k.sent /\ r.refreshed = k.refreshed
    BY <2>3 DEF HubCallOf
  <2>5. HubTo(c, r) /\ hubLock' = c
    BY <1>4, <2>1, <2>2, <2>3, <2>4 DEF Platform!Token, Platform!HubSet, HubTo
  <2>6. HubCallSound(r, hubNow, hub, refused)
    BY <1>1, <1>2, <2>1, <2>2, <2>4 DEF HubCallSound
  <2> QED
    BY <1>1, <1>2, <2>4, <2>5, <2>6, HubSteps DEF HubLeftOf
<1> QED
  BY <1>3, <1>4

(* The endpoint issues the next token.                                       *)
LEMMA HubIssues ==
  ASSUME HubInv, NEW c \in HubCallers, Platform!Issue(c)
  PROVE  HubInv'
<1>1. /\ hubCall[c].pc = "requesting" /\ hub.issued < MaxTokens /\ hubCall[c] \in HubCallOf
      /\ UNCHANGED <<hubNow, hubCache, hubLock, refused, hubLeft>>
      /\ HubCallSound(hubCall[c], hubNow, hub, refused) /\ hubLock = c
  BY HubTyped DEF Platform!Issue, HubInv, HubCallsInv
<1>2. /\ hubNow \in Nat /\ Lifetime \in Int /\ Lifetime > 0 /\ MaxTokens \in Nat
      /\ hub.issued \in 0 .. MaxTokens /\ hub.expires \in [1 .. MaxTokens -> Nat]
  BY HubBounds, HubTyped DEF HubInv, HubTypes
<1>3. PICK t : t = hub.issued + 1
  OBVIOUS
<1>4. t \in 1 .. MaxTokens /\ t \in 0 .. MaxTokens
  BY <1>1, <1>2, <1>3
<1>5. /\ hub' = [hub EXCEPT !.issued = t, !.expires[t] = hubNow + Lifetime]
      /\ hubCall' = [hubCall EXCEPT ![c] = [hubCall[c] EXCEPT !.pc = "issued", !.token = t]]
  BY <1>3 DEF Platform!Issue, Platform!HubSet
<1>6. /\ hub' \in [issued : 0 .. MaxTokens, expires : [1 .. MaxTokens -> Nat],
                   revoked : SUBSET (1 .. MaxTokens)]
      /\ hub'.issued = t /\ hub'.expires[t] = hubNow + Lifetime /\ hub'.revoked = hub.revoked
      /\ \A s \in 1 .. hub.issued : s \in 1 .. t /\ hub'.expires[s] = hub.expires[s]
  <2>0. hubNow + Lifetime \in Nat
    BY <1>2
  <2>1. PICK e \in [1 .. MaxTokens -> Nat] : e = [hub.expires EXCEPT ![t] = hubNow + Lifetime]
    BY <1>2, <2>0
  <2>2. hub' = [hub EXCEPT !.issued = t, !.expires = e]
    BY <1>5, <2>1
  <2>3. hub \in [issued : 0 .. MaxTokens, expires : [1 .. MaxTokens -> Nat],
                 revoked : SUBSET (1 .. MaxTokens)]
    BY DEF HubInv, HubTypes
  <2>4. /\ hub' \in [issued : 0 .. MaxTokens, expires : [1 .. MaxTokens -> Nat],
                     revoked : SUBSET (1 .. MaxTokens)]
        /\ hub'.issued = t /\ hub'.expires = e /\ hub'.revoked = hub.revoked
    BY <1>4, <2>2, <2>3
  <2>5. e[t] = hubNow + Lifetime
    BY <1>2, <1>4, <2>1
  <2>6. ASSUME NEW s \in 1 .. hub.issued PROVE s \in 1 .. t /\ e[s] = hub.expires[s]
    <3>1. s \in Int /\ s \in 1 .. MaxTokens /\ s # t /\ s \in 1 .. t
      BY <1>2, <1>3
    <3> QED
      BY <1>2, <2>1, <3>1
  <2> QED
    BY <2>4, <2>5, <2>6
<1>7. PICK k \in HubCallOf : k = hubCall[c]
  BY <1>1
<1>8. PICK r : r = [k EXCEPT !.pc = "issued", !.token = t]
  OBVIOUS
<1>9. /\ r \in HubCallOf /\ r.pc = "issued" /\ r.token = t /\ r.asked = k.asked
      /\ r.sent = k.sent /\ r.refreshed = k.refreshed
  BY <1>4, <1>8 DEF HubCallOf
<1>10. HubTo(c, r)
  BY <1>5, <1>7, <1>8, <1>9 DEF HubTo
<1>11. HubTypes'
  BY <1>1, <1>6, <1>10, HubToTyped DEF HubInv, HubTypes
<1>12. HubCallsInv'
  <2>1. HubCallSound(r, hubNow, hub', refused)
    <3>1. k.asked \in Int /\ k.asked <= hubNow /\ t \in 1 .. t
      BY <1>1, <1>4, <1>7 DEF HubCallSound, HubCallOf
    <3>2. hub'.expires[t] >= k.asked + Lifetime
      BY <1>2, <1>6, <3>1
    <3> QED
      BY <1>1, <1>6, <1>7, <1>9, <3>1, <3>2 DEF HubCallSound
  <2>2. \A d \in HubCallOf : HubCallSound(d, hubNow, hub, refused)
                             => HubCallSound(d, hubNow, hub', refused)
    BY <1>6 DEF HubCallSound
  <2> QED
    BY <1>1, <1>9, <1>10, <2>1, <2>2, HubCallsKept DEF HubInv
<1>13. HubCacheInv'
  BY <1>1, <1>6 DEF HubInv, HubCacheInv, Platform!Early, Platform!Half
<1>14. HubCalm'
  BY <1>1, <1>6 DEF HubInv, HubCalm
<1> QED
  BY <1>11, <1>12, <1>13, <1>14 DEF HubInv

(* Its answer arrives and is cached.                                         *)
LEMMA HubReceives ==
  ASSUME HubInv, NEW c \in HubCallers, Platform!Receive(c)
  PROVE  HubInv' /\ hubCache' # None
<1>1. /\ hubCall[c].pc = "issued" /\ hubCall[c] \in HubCallOf /\ c # None
      /\ UNCHANGED <<hubNow, hub, refused, hubLeft>> /\ hubLock' = None
      /\ HubCallSound(hubCall[c], hubNow, hub, refused) /\ hubLock = c
  BY HubTyped, HubBounds DEF Platform!Receive, HubInv, HubCallsInv
<1>2. /\ hubNow \in 0 .. HubMaxTime /\ hubNow \in Int /\ HubMaxTime \in Int
      /\ Lifetime \in Int /\ Deadline \in Int /\ Deadline >= 0
      /\ Platform!Early \in Int /\ 0 <= Platform!Early /\ Platform!Early <= Lifetime
      /\ hub.issued \in 0 .. MaxTokens /\ hub.expires \in [1 .. MaxTokens -> Nat]
  BY HubBounds, HubTyped DEF HubInv, HubTypes
<1>3. PICK k \in HubCallOf : k = hubCall[c]
  BY <1>1
<1>4. /\ k.asked \in 0 .. HubMaxTime /\ k.asked \in Int /\ k.token \in 1 .. hub.issued
      /\ hub.expires[k.token] \in Int /\ k.token \in 1 .. MaxTokens
      /\ hub.expires[k.token] >= k.asked + Lifetime /\ hubNow <= k.asked + Deadline
  <2>1. k.asked \in 0 .. HubMaxTime
    BY DEF HubCallOf
  <2>2. /\ k.token \in 1 .. hub.issued /\ hub.expires[k.token] >= k.asked + Lifetime
        /\ hubNow <= k.asked + Deadline
    BY <1>1, <1>3 DEF HubCallSound
  <2> QED
    BY <1>2, <2>1, <2>2, HubTokenRange DEF HubInv
<1>5. PICK n \in 0 .. HubMaxTime : n = hubNow
  BY <1>2
<1>6. PICK r : r = [k EXCEPT !.pc = "send", !.asked = n]
  OBVIOUS
<1>7. /\ r \in HubCallOf /\ r.pc = "send" /\ r.token = k.token /\ r.asked = n
      /\ r.sent = k.sent /\ r.refreshed = k.refreshed
  BY <1>6 DEF HubCallOf
<1>8. HubTo(c, r)
  BY <1>3, <1>5, <1>6, <1>7 DEF Platform!Receive, Platform!HubSet, HubTo
<1>9. hubCache' = [token |-> k.token, refreshAt |-> k.asked + Lifetime - Platform!Early]
  BY <1>3 DEF Platform!Receive
<1>10. hubCache' \in HubCacheOf
  BY <1>2, <1>4, <1>9 DEF HubCacheOf
<1>11. HubTypes'
  BY <1>1, <1>8, <1>10, HubToTyped DEF HubInv, HubTypes
<1>12. HubCallsInv'
  <2>1. HubMargin => hubNow + Deadline < hub.expires[k.token]
    <3>1. PICK e \in Int : e = hub.expires[k.token]
      BY <1>4
    <3>2. hubNow <= k.asked + Deadline /\ e >= k.asked + Lifetime /\ k.asked \in Int
      BY <1>4, <3>1
    <3>3. 2 * Deadline < Lifetime => hubNow + Deadline < e
      BY <1>2, <3>1, <3>2
    <3> QED
      BY <3>1, <3>3 DEF HubMargin
  <2>2. HubCallSound(r, hubNow, hub, refused)
    BY <1>1, <1>2, <1>3, <1>4, <1>5, <1>7, <2>1 DEF HubCallSound
  <2> QED
    BY <1>1, <1>7, <1>8, <2>2, HubCallsKept DEF HubInv
<1>13. HubCacheInv'
  <2>1. k.asked + Lifetime - Platform!Early + Platform!Early <= hub.expires[k.token]
    BY <1>2, <1>4
  <2> QED
    BY <1>1, <1>4, <1>9, <2>1 DEF HubCacheInv, Platform!Early, Platform!Half
<1>14. HubCalm'
  BY <1>1 DEF HubInv, HubCalm
<1> QED
  BY <1>10, <1>11, <1>12, <1>13, <1>14, HubBounds DEF HubInv

(* A call ends, with or without its token.                                   *)
LEMMA HubFinishes ==
  ASSUME HubInv, NEW c \in HubCallers,
         NEW out \in {None, HubAnswer, Unauthorized, Unavailable, Refused},
         Platform!Finish(c, out), UNCHANGED <<hubNow, hub, hubCache, refused>>,
         hubLeft' \in HubLeftOf, hubLeft'.revoke = hubLeft.revoke, hubLock' # c,
         hubLock' = hubLock \/ (hubLock = c /\ hubLock' = None)
  PROVE  HubInv'
<1>1. PICK k \in HubCallOf : k = hubCall[c]
  BY HubTyped DEF HubInv
<1>2. PICK r : r = [k EXCEPT !.pc = "done", !.out = out]
  OBVIOUS
<1>3. k.asked <= hubNow
  BY <1>1 DEF HubInv, HubCallsInv, HubCallSound
<1>4. r \in HubCallOf /\ r.pc = "done"
  BY <1>2 DEF HubCallOf
<1>5. HubCallSound(r, hubNow, hub, refused)
  <2>1. r.asked = k.asked
    BY <1>2 DEF HubCallOf
  <2> QED
    BY <1>3, <1>4, <2>1 DEF HubCallSound
<1>6. HubTo(c, r)
  BY <1>1, <1>2, <1>4 DEF Platform!Finish, Platform!HubSet, HubTo
<1> QED
  BY <1>4, <1>5, <1>6, HubSteps DEF HubLeftOf

LEMMA HubNoTokens ==
  ASSUME HubInv, NEW c \in HubCallers, Platform!NoToken(c)
  PROVE  HubInv'
<1>1. PICK out \in {Unauthorized, Unavailable} : Platform!Finish(c, out)
  BY DEF Platform!NoToken
<1>2. hubCall[c].pc \in {"requesting", "issued"} /\ hubLock' = None /\ c # None
      /\ UNCHANGED <<hubNow, hub, hubCache, refused>>
  BY HubBounds DEF Platform!NoToken
<1>3. hubLock = c
  BY <1>2 DEF HubInv, HubCallsInv
<1>4. hubLeft' \in HubLeftOf /\ hubLeft'.revoke = hubLeft.revoke
  BY DEF Platform!NoToken, HubInv, HubTypes, HubLeftOf
<1> QED
  BY <1>1, <1>2, <1>3, <1>4, HubFinishes

LEMMA HubFails ==
  ASSUME HubInv, NEW c \in HubCallers, Platform!Fail(c)
  PROVE  HubInv'
<1>1. /\ Platform!Finish(c, Unavailable)
      /\ hubCall[c].pc \in {"token", "send", "accepted", "refused"}
      /\ UNCHANGED <<hubNow, hub, hubCache, hubLock, refused>>
  BY DEF Platform!Fail
<1>2. hubLock # c
  BY <1>1 DEF HubInv, HubCallsInv
<1>3. hubLeft' \in HubLeftOf /\ hubLeft'.revoke = hubLeft.revoke
  BY DEF Platform!Fail, HubInv, HubTypes, HubLeftOf
<1> QED
  BY <1>1, <1>2, <1>3, HubFinishes

LEMMA HubAccepts ==
  ASSUME HubInv, NEW c \in HubCallers, Platform!HubAccepted(c)
  PROVE  HubInv'
<1>1. PICK out \in {HubAnswer, Refused} : Platform!Finish(c, out)
  BY DEF Platform!HubAccepted
<1>2. /\ hubCall[c].pc = "accepted"
      /\ UNCHANGED <<hubNow, hub, hubCache, hubLock, refused, hubLeft>>
  BY DEF Platform!HubAccepted
<1>3. hubLock # c
  BY <1>2 DEF HubInv, HubCallsInv
<1>4. hubLeft' \in HubLeftOf
  BY <1>2 DEF HubInv, HubTypes, HubLeftOf
<1> QED
  BY <1>1, <1>2, <1>3, <1>4, HubFinishes

(* The hub sees a request.                                                   *)
LEMMA HubArrives ==
  ASSUME HubInv, NEW c \in HubCallers, Platform!Arrive(c)
  PROVE  HubInv'
<1>1. /\ hubCall[c].pc = "send" /\ UNCHANGED <<hubNow, hub, hubCache, hubLock, hubLeft>>
      /\ hubCall[c] \in HubCallOf /\ HubCallSound(hubCall[c], hubNow, hub, refused)
      /\ hubLock # c
  BY HubTyped DEF Platform!Arrive, HubInv, HubCallsInv
<1>2. PICK k \in HubCallOf : k = hubCall[c]
  BY <1>1
<1>3. k.token \in 1 .. hub.issued /\ k.token \in 1 .. MaxTokens
  BY <1>1, <1>2, HubTokenRange DEF HubCallSound, HubInv
<1>4. PICK pc \in {"accepted", "refused"} :
        pc = IF Platform!Valid(k.token) THEN "accepted" ELSE "refused"
  OBVIOUS
<1>5. PICK n : n = k.sent + 1
  OBVIOUS
<1>6. n = (IF k.refreshed THEN 2 ELSE 1) /\ n \in 0 .. 2
  BY <1>1, <1>2, <1>5 DEF HubCallSound
<1>7. PICK r : r = [k EXCEPT !.pc = pc, !.sent = n]
  OBVIOUS
<1>8. /\ r \in HubCallOf /\ r.pc = pc /\ r.sent = n /\ r.asked = k.asked /\ r.token = k.token
      /\ r.refreshed = k.refreshed
  BY <1>6, <1>7 DEF HubCallOf
<1>9. HubTo(c, r)
  BY <1>2, <1>4, <1>5, <1>7, <1>8 DEF Platform!Arrive, Platform!HubSet, HubTo
<1>10. refused' = IF Platform!Valid(k.token) THEN refused ELSE refused \cup {k.token}
  BY <1>2 DEF Platform!Arrive
<1>11. HubTypes'
  <2>1. refused' \in SUBSET (1 .. MaxTokens)
    BY <1>3, <1>10 DEF HubInv, HubTypes
  <2> QED
    BY <1>1, <1>9, <2>1, HubToTyped DEF HubInv, HubTypes
<1>12. HubCallsInv'
  <2>1. pc = "refused" => k.token \in refused'
    BY <1>4, <1>10
  <2>2. k.asked <= hubNow
    BY <1>1, <1>2 DEF HubCallSound
  <2>3. HubCallSound(r, hubNow, hub, refused')
    BY <1>3, <1>4, <1>6, <1>8, <2>1, <2>2 DEF HubCallSound
  <2>4. refused \subseteq refused'
    BY <1>10
  <2>5. \A d \in HubCallOf : HubCallSound(d, hubNow, hub, refused)
                             => HubCallSound(d, hubNow, hub, refused')
    BY <2>4 DEF HubCallSound
  <2> QED
    BY <1>1, <1>4, <1>8, <1>9, <2>3, <2>5, HubCallsKept DEF HubInv
<1>13. HubCacheInv'
  BY <1>1 DEF HubInv, HubCacheInv, Platform!Early, Platform!Half
<1>14. HubCalm'
  <2> SUFFICES ASSUME HubMargin, hubLeft.revoke = MaxRevocations
               PROVE  refused' = {} /\ hub.revoked = {}
    BY <1>1 DEF HubCalm
  <2>1. refused = {} /\ hub.revoked = {}
    BY DEF HubInv, HubCalm
  <2>2. hubNow <= k.asked + Deadline /\ k.asked + Deadline < hub.expires[k.token]
    BY <1>1, <1>2 DEF HubCallSound
  <2>3. /\ hubNow \in Int /\ k.asked \in Int /\ Deadline \in Int /\ hub.expires[k.token] \in Int
    BY <1>3, HubBounds, HubTyped, HubTokenRange DEF HubInv, HubCallOf
  <2>4. Platform!Valid(k.token)
    BY <2>1, <2>2, <2>3 DEF Platform!Valid
  <2> QED
    BY <1>10, <2>1, <2>4
<1> QED
  BY <1>11, <1>12, <1>13, <1>14 DEF HubInv

(* A 401 drops the token that is still cached, once.                         *)
LEMMA HubRefuses ==
  ASSUME HubInv, NEW c \in HubCallers, Platform!Refusal(c)
  PROVE  HubInv'
<1>1. /\ hubCall[c].pc = "refused" /\ UNCHANGED <<hubNow, hub, hubLock, refused, hubLeft>>
      /\ hubCall[c] \in HubCallOf /\ HubCallSound(hubCall[c], hubNow, hub, refused)
      /\ hubLock # c
  BY HubTyped DEF Platform!Refusal, HubInv, HubCallsInv
<1>2. hubLeft' \in HubLeftOf
  BY <1>1 DEF HubInv, HubTypes, HubLeftOf
<1>3. CASE hubCall[c].refreshed
  <2>1. Platform!Finish(c, Unauthorized) /\ hubCache' = hubCache
    BY <1>3 DEF Platform!Refusal
  <2> QED
    BY <1>1, <1>2, <2>1, HubFinishes
<1>4. CASE ~hubCall[c].refreshed
  <2>1. PICK k \in HubCallOf : k = hubCall[c]
    BY <1>1
  <2>2. PICK n \in 0 .. MaxTokens : n = hub.issued
    BY HubTyped DEF HubInv
  <2>3. PICK b \in BOOLEAN : b = TRUE
    OBVIOUS
  <2>4. PICK r : r = [k EXCEPT !.pc = "token", !.refreshed = b, !.first = n]
    OBVIOUS
  <2>5. /\ r \in HubCallOf /\ r.pc = "token" /\ r.sent = k.sent /\ r.asked = k.asked
        /\ r.refreshed = b
    BY <2>4 DEF HubCallOf
  <2>6. HubTo(c, r)
    BY <1>4, <2>1, <2>2, <2>3, <2>4, <2>5 DEF Platform!Refusal, Platform!HubSet, HubTo
  <2>7. hubCache' \in {hubCache, None}
    BY <1>4 DEF Platform!Refusal
  <2>8. HubTypes'
    BY <1>1, <2>6, <2>7, HubToTyped DEF HubInv, HubTypes
  <2>9. HubCallsInv'
    <3>1. k.sent = 1 /\ k.asked <= hubNow
      BY <1>1, <1>4, <2>1 DEF HubCallSound
    <3>2. HubCallSound(r, hubNow, hub, refused)
      BY <2>3, <2>5, <3>1 DEF HubCallSound
    <3> QED
      BY <1>1, <2>5, <2>6, <3>2, HubCallsKept DEF HubInv
  <2>10. HubCacheInv' /\ HubCalm'
    BY <1>1, <2>7 DEF HubInv, HubCacheInv, HubCalm, Platform!Early, Platform!Half
  <2> QED
    BY <2>8, <2>9, <2>10 DEF HubInv
<1> QED
  BY <1>3, <1>4

LEMMA HubRevokes ==
  ASSUME HubInv, Platform!Revoke
  PROVE  HubInv'
<1>1. /\ hubLeft.revoke > 0 /\ UNCHANGED <<hubNow, hubCache, hubLock, hubCall, refused>>
      /\ hub' = [hub EXCEPT !.revoked = 1 .. hub.issued]
      /\ hubLeft' = [hubLeft EXCEPT !.revoke = @ - 1]
  BY DEF Platform!Revoke
<1>2. /\ hub \in [issued : 0 .. MaxTokens, expires : [1 .. MaxTokens -> Nat],
                  revoked : SUBSET (1 .. MaxTokens)]
      /\ hubLeft \in HubLeftOf /\ MaxRevocations \in Nat /\ MaxTokens \in Nat
  BY HubBounds DEF HubInv, HubTypes, HubLeftOf
<1>3. 1 .. hub.issued \in SUBSET (1 .. MaxTokens)
  BY HubTokenRange DEF HubInv
<1>4. /\ hub' \in [issued : 0 .. MaxTokens, expires : [1 .. MaxTokens -> Nat],
                   revoked : SUBSET (1 .. MaxTokens)]
      /\ hub'.issued = hub.issued /\ hub'.expires = hub.expires
  BY <1>1, <1>2, <1>3
<1>5. hubLeft' \in HubLeftOf /\ hubLeft'.revoke < MaxRevocations
  BY <1>1, <1>2 DEF HubLeftOf
<1>6. HubTypes'
  BY <1>1, <1>4, <1>5 DEF HubInv, HubTypes, HubLeftOf
<1>7. HubCallsInv'
  BY <1>1, <1>4 DEF HubInv, HubCallsInv, HubCallSound
<1>8. HubCacheInv'
  BY <1>1, <1>4 DEF HubInv, HubCacheInv, Platform!Early, Platform!Half
<1>9. HubCalm'
  BY <1>2, <1>5 DEF HubCalm
<1> QED
  BY <1>6, <1>7, <1>8, <1>9 DEF HubInv

LEMMA HubTicks ==
  ASSUME HubInv, Platform!HubTick
  PROVE  HubInv'
<1>1. /\ hubNow < HubMaxTime /\ hubNow' = hubNow + 1
      /\ UNCHANGED <<hub, hubCache, hubLock, hubCall, refused, hubLeft>>
      /\ \A c \in HubCallers : hubCall[c].pc \in {"requesting", "issued", "send"}
                               => hubNow < hubCall[c].asked + Deadline
  BY DEF Platform!HubTick
<1>2. hubNow \in Int /\ 0 <= hubNow /\ HubMaxTime \in Int /\ Deadline \in Int
  BY HubTyped, HubBounds DEF HubInv
<1>3. HubTypes'
  BY <1>1, <1>2 DEF HubInv, HubTypes
<1>4. HubCallsInv'
  <2> SUFFICES ASSUME NEW c \in HubCallers
               PROVE  /\ hubCall[c].pc \in {"requesting", "issued"} <=> hubLock = c
                      /\ HubCallSound(hubCall[c], hubNow + 1, hub, refused)
    BY <1>1 DEF HubCallsInv
  <2>1. HubCallSound(hubCall[c], hubNow, hub, refused) /\ hubCall[c].asked \in Int
        /\ (hubCall[c].pc \in {"requesting", "issued"} <=> hubLock = c)
    BY HubTyped DEF HubInv, HubCallsInv, HubCallOf
  <2> QED
    BY <1>1, <1>2, <2>1 DEF HubCallSound
<1>5. HubCacheInv' /\ HubCalm'
  BY <1>1 DEF HubInv, HubCacheInv, HubCalm, Platform!Early, Platform!Half
<1> QED
  BY <1>3, <1>4, <1>5 DEF HubInv

LEMMA HubMovesSound ==
  ASSUME HubInv, Platform!HubNext
  PROVE  HubInv'
BY HubBegins, HubTakes, HubIssues, HubReceives, HubNoTokens, HubFails, HubAccepts, HubArrives,
  HubRefuses, HubRevokes, HubTicks DEF Platform!HubNext, Platform!HubStep

LEMMA HubStart == Platform!HubInit => HubInv
<1> SUFFICES ASSUME Platform!HubInit PROVE HubInv
  OBVIOUS
<1>1. /\ hubNow = 0 /\ hubCache = None /\ hubLock = None /\ refused = {}
      /\ hub = [issued |-> 0, expires |-> [t \in 1 .. MaxTokens |-> 0], revoked |-> {}]
      /\ hubCall = [c \in HubCallers |-> Platform!HubIdle]
      /\ hubLeft = [call |-> HubMaxCalls, fault |-> HubMaxFaults, revoke |-> MaxRevocations]
  BY DEF Platform!HubInit, Platform!Tokens
<1>2. /\ Platform!HubIdle \in HubCallOf /\ Platform!HubIdle.pc = "idle"
      /\ Platform!HubIdle.asked = 0
  <2>1. 0 \in 0 .. HubMaxTime /\ 0 \in 0 .. MaxTokens /\ 0 \in 0 .. 2
    BY HubBounds
  <2> QED
    BY <2>1 DEF Platform!HubIdle, HubCallOf
<1>3. HubTypes
  BY <1>1, <1>2, HubBounds DEF HubTypes
<1>4. HubCallsInv
  <2>1. HubCallSound(Platform!HubIdle, 0, hub, {})
    BY <1>2 DEF HubCallSound
  <2> QED
    BY <1>1, <1>2, <2>1, HubBounds DEF HubCallsInv
<1>5. HubCacheInv /\ HubCalm
  BY <1>1 DEF HubCacheInv, HubCalm
<1> QED
  BY <1>3, <1>4, <1>5 DEF HubInv

LEMMA HubPromise ==
  HubInv => /\ Platform!HubTypeOK /\ Platform!OneTokenRequest
            /\ HubMargin => Platform!ExpiryIsAvoided
<1>1. HubInv => Platform!HubTypeOK
  BY DEF HubInv, HubTypes, HubCallOf, HubCacheOf, Platform!HubTypeOK, Platform!HubTokens,
    Platform!Tokens, Platform!Outcomes
<1>2. ASSUME HubInv PROVE Platform!OneTokenRequest
  <2> DEFINE S == {c \in HubCallers : hubCall[c].pc \in {"requesting", "issued"}}
  <2>1. S \subseteq {hubLock}
    BY <1>2 DEF HubInv, HubCallsInv
  <2>2. Cardinality(S) <= 1
    <3>1. IsFiniteSet({hubLock}) /\ Cardinality({hubLock}) = 1
      BY FS_Singleton
    <3> QED
      BY <2>1, <3>1, FS_Subset, FS_CardinalityType
  <2>3. Platform!Cardinality(S) = Cardinality(S)
    BY DEF Platform!Cardinality, Cardinality
  <2> QED
    BY <2>2, <2>3 DEF Platform!OneTokenRequest
<1>3. HubInv /\ HubMargin => Platform!ExpiryIsAvoided
  BY DEF HubInv, HubCalm, Platform!ExpiryIsAvoided
<1> QED
  BY <1>1, <1>2, <1>3

LEMMA HubMovesKeep ==
  ASSUME HubInv, Platform!HubNext
  PROVE  Platform!TakenUnexpired /\ Platform!OnlyRefusedDropped
<1>1. ASSUME NEW d \in HubCallers, hubCall[d].pc = "token", hubCall'[d].pc = "send"
      PROVE  hubNow < hub.expires[hubCall'[d].token]
  <2>1. ASSUME NEW c \in HubCallers, NEW r, hubCall' = [hubCall EXCEPT ![c] = r]
        PROVE  d = c /\ r = hubCall'[d]
    <3>1. hubCall'[d] = IF d = c THEN r ELSE hubCall[d]
      BY <2>1 DEF HubInv, HubTypes
    <3> QED
      BY <1>1, <3>1
  <2>2. ASSUME NEW c \in HubCallers, Platform!Token(c)
        PROVE  hubNow < hub.expires[hubCall'[d].token]
    <3>1. CASE hubCache # None /\ hubNow < hubCache.refreshAt
      <4>1. PICK r : /\ r = [hubCall[c] EXCEPT !.pc = "send", !.token = hubCache.token,
                                               !.asked = hubNow]
                     /\ hubCall' = [hubCall EXCEPT ![c] = r]
        BY <2>2, <3>1 DEF Platform!Token, Platform!HubSet
      <4>2. hubCall'[d].token = hubCache.token
        BY <2>1, <4>1, HubTyped DEF HubInv, HubCallOf
      <4>3. /\ hubCache.token \in 1 .. hub.issued /\ hubCache \in HubCacheOf
            /\ hubCache.refreshAt + Platform!Early <= hub.expires[hubCache.token]
        BY <3>1 DEF HubInv, HubCacheInv, HubTypes
      <4>4. /\ hubNow \in Int /\ hubCache.refreshAt \in Int
            /\ hub.expires[hubCache.token] \in Int
            /\ Platform!Early \in Int /\ 0 <= Platform!Early
        BY <4>3, HubTyped, HubBounds, HubTokenRange DEF HubInv, HubCacheOf
      <4> QED
        BY <3>1, <4>2, <4>3, <4>4
    <3>2. CASE ~(hubCache # None /\ hubNow < hubCache.refreshAt)
      <4>1. PICK r : /\ r = [hubCall[c] EXCEPT !.pc = "requesting", !.asked = hubNow]
                     /\ hubCall' = [hubCall EXCEPT ![c] = r]
        BY <2>2, <3>2 DEF Platform!Token, Platform!HubSet
      <4> QED
        BY <1>1, <2>1, <4>1, HubTyped DEF HubInv, HubCallOf
    <3> QED
      BY <3>1, <3>2
  <2>3. \A c \in HubCallers : Platform!HubBegin(c) => FALSE
    <3> SUFFICES ASSUME NEW c \in HubCallers, Platform!HubBegin(c) PROVE FALSE
      OBVIOUS
    <3>1. hubCall' = [hubCall EXCEPT ![c] = [Platform!HubIdle EXCEPT !.pc = "token"]]
      BY DEF Platform!HubBegin, Platform!HubSet
    <3> QED
      BY <1>1, <2>1, <3>1 DEF Platform!HubIdle
  <2>4. ASSUME NEW c \in HubCallers, hubCall[c].pc # "token",
               NEW r, hubCall' = [hubCall EXCEPT ![c] = r]
        PROVE  FALSE
    BY <1>1, <2>1, <2>4
  <2>5. ASSUME NEW c \in HubCallers, NEW out, Platform!Finish(c, out) PROVE FALSE
    <3>1. PICK r : /\ r = [hubCall[c] EXCEPT !.pc = "done", !.out = out]
                   /\ hubCall' = [hubCall EXCEPT ![c] = r]
      BY <2>5 DEF Platform!Finish, Platform!HubSet
    <3> QED
      BY <1>1, <2>1, <3>1, HubTyped DEF HubInv, HubCallOf
  <2>6. ASSUME NEW c \in HubCallers,
               \/ Platform!Issue(c) \/ Platform!Receive(c) \/ Platform!Arrive(c)
               \/ Platform!Refusal(c)
        PROVE  FALSE
    BY <2>4, <2>5, <2>6 DEF Platform!Issue, Platform!Receive, Platform!Arrive, Platform!Refusal,
      Platform!HubSet
  <2>7. ASSUME NEW c \in HubCallers,
               Platform!NoToken(c) \/ Platform!Fail(c) \/ Platform!HubAccepted(c)
        PROVE  FALSE
    BY <2>5, <2>7 DEF Platform!NoToken, Platform!Fail, Platform!HubAccepted
  <2>8. Platform!Revoke \/ Platform!HubTick => FALSE
    BY <1>1 DEF Platform!Revoke, Platform!HubTick
  <2> QED
    BY <2>2, <2>3, <2>6, <2>7, <2>8 DEF Platform!HubNext, Platform!HubStep
<1>2. ASSUME hubCache # None, hubCache' = None PROVE hubCache.token \in refused
  <2>1. PICK c \in HubCallers : Platform!Receive(c) \/ Platform!Refusal(c)
    BY <1>2 DEF Platform!HubNext, Platform!HubStep, Platform!HubBegin, Platform!Token,
      Platform!Issue, Platform!NoToken, Platform!Arrive, Platform!HubAccepted, Platform!Fail,
      Platform!Revoke, Platform!HubTick
  <2>2. CASE Platform!Receive(c)
    BY <1>2, <2>2, HubReceives, HubBounds
  <2>3. CASE Platform!Refusal(c)
    <3>1. hubCall[c].pc = "refused" /\ hubCache.token = hubCall[c].token
      BY <1>2, <2>3 DEF Platform!Refusal
    <3> QED
      BY <3>1 DEF HubInv, HubCallsInv, HubCallSound
  <2> QED
    BY <2>1, <2>2, <2>3
<1> QED
  BY <1>1, <1>2 DEF Platform!TakenUnexpired, Platform!OnlyRefusedDropped

-----------------------------------------------------------------------------
LEMMA TicketBounds ==
  /\ Ttl \in Nat /\ Cooldown \in Nat /\ Cooldown > 0 /\ TicketMaxTime \in Nat
  /\ Platform!Never = 0 - Ttl - Cooldown /\ Platform!Never \in KeyTimes /\ Platform!Never <= 0
  /\ None \notin TicketCallers /\ Forged \notin Keys
  /\ TicketAccepted \notin {None, Invalid, Expired, WrongAudience, KeysUnavailable}
  /\ Invalid \notin {None, KeysUnavailable}
  /\ KeyTimes \subseteq Int
BY SuiteAssumption DEF Platform!TicketAssumption, Platform!Never, KeyTimes

LEMMA KeyTimesHold ==
  ASSUME NEW t \in 0 .. TicketMaxTime
  PROVE  t \in KeyTimes /\ t \in Int
BY TicketBounds DEF KeyTimes

LEMMA TicketTyped ==
  ASSUME TicketTypes
  PROVE  /\ ticketNow \in Int /\ 0 <= ticketNow /\ ticketNow <= TicketMaxTime
         /\ ticketNow \in KeyTimes
         /\ ticketCache.fetched \in Int /\ ticketCache.attempted \in Int
         /\ ticketCache.unknown \in Int /\ ticketCache.keys \in SUBSET Keys
         /\ Platform!Fresh <=> ticketNow - ticketCache.fetched < Ttl
         /\ \A c \in TicketCallers : ticketCall[c] \in TicketCallOf
         /\ \A k \in Keys : since[k] \in Int /\ until[k] \in Int
<1>1. ticketNow \in KeyTimes
  BY KeyTimesHold DEF TicketTypes
<1>2. ticketCache.fetched \in KeyTimes /\ ticketCache.attempted \in KeyTimes
      /\ ticketCache.unknown \in KeyTimes /\ ticketCache.keys \in SUBSET Keys
  BY DEF TicketTypes, KeyCacheOf
<1>3. \A t \in KeyTimes : t \in Int
  BY TicketBounds
<1>4. ticketNow \in Int /\ 0 <= ticketNow /\ ticketNow <= TicketMaxTime
  BY TicketBounds DEF TicketTypes
<1>5. Platform!Fresh <=> ticketNow - ticketCache.fetched < Ttl
  BY DEF Platform!Fresh
<1>6. \A c \in TicketCallers : ticketCall[c] \in TicketCallOf
  BY DEF TicketTypes
<1>7. \A k \in Keys : since[k] \in Int /\ until[k] \in Int
  BY DEF TicketTypes
<1> QED
  BY <1>1, <1>2, <1>3, <1>4, <1>5, <1>6, <1>7

(* A caller's next record. *)
TicketTo(c, r) ==
  /\ c \in TicketCallers /\ r \in TicketCallOf
  /\ ticketCall' = [ticketCall EXCEPT ![c] = r]

LEMMA TicketToTyped ==
  ASSUME TicketTypes, NEW c, NEW r, TicketTo(c, r)
  PROVE  /\ ticketCall' \in [TicketCallers -> TicketCallOf]
         /\ ticketCall'[c] = r
         /\ \A d \in TicketCallers : d # c => ticketCall'[d] = ticketCall[d]
BY DEF TicketTypes, TicketTo

TicketDone(out) == [Platform!TicketIdle EXCEPT !.pc = "done", !.out = out]

LEMMA TicketDoneTyped ==
  ASSUME NEW out \in {TicketAccepted, Invalid, Expired, WrongAudience, KeysUnavailable}
  PROVE  /\ TicketDone(out) \in TicketCallOf
         /\ TicketDone(out).pc = "done" /\ TicketDone(out).out = out
BY DEF TicketDone, TicketCallOf, Platform!TicketIdle

LEMMA Verdicts ==
  ASSUME NEW k
  PROVE  Platform!Verdict(k) \in {TicketAccepted, Invalid, Expired, WrongAudience, KeysUnavailable}
BY DEF Platform!Verdict

(* A caller at a place: its record with another pc. *)
LEMMA TicketAt ==
  ASSUME NEW k \in TicketCallOf,
         NEW pc \in {"idle", "first", "waiting", "missed", "fetching", "done"}
  PROVE  /\ [k EXCEPT !.pc = pc] \in TicketCallOf
         /\ [k EXCEPT !.pc = pc].pc = pc /\ [k EXCEPT !.pc = pc].key = k.key
         /\ [k EXCEPT !.pc = pc].out = k.out
BY DEF TicketCallOf

(* A caller moves on, and the fetching one leaves a fetch answered or failed. *)
LEMMA TicketCallsKept ==
  ASSUME TicketTypes, TicketCallsInv, NEW c, NEW r, TicketTo(c, r),
         r.pc \in {"missed", "fetching"} <=> ticketLock' = c,
         ticketLock' = ticketLock \/ (ticketLock \in {c, None} /\ ticketLock' \in {c, None}),
         r.pc = "missed" => ~KeyFound(r.key, ticketCache', ticketNow'),
         \/ \A k : KeyFound(k, ticketCache', ticketNow') => KeyFound(k, ticketCache, ticketNow)
         \/ ticketLock = c,
         \/ r.pc = "fetching"
         \/ ticketCall[c].pc # "fetching" /\ UNCHANGED <<ticketCache, failed>>
         \/ ticketCache'.fetched >= ticketCache'.unknown
         \/ failed' >= ticketCache'.unknown
  PROVE  TicketCallsInv'
<1>1. /\ c \in TicketCallers /\ ticketCall'[c] = r
      /\ \A d \in TicketCallers : d # c => ticketCall'[d] = ticketCall[d]
  BY TicketToTyped DEF TicketTo
<1>2. c # None
  BY <1>1, TicketBounds
<1>3. ASSUME NEW d \in TicketCallers
      PROVE  /\ ticketCall'[d].pc \in {"missed", "fetching"} <=> ticketLock' = d
             /\ ticketCall'[d].pc = "missed" =>
                  ~KeyFound(ticketCall'[d].key, ticketCache', ticketNow')
  <2>1. CASE d = c
    BY <1>1, <2>1
  <2>2. CASE d # c
    <3>1. ticketCall'[d] = ticketCall[d] /\ d # None
      BY <1>1, <2>2, TicketBounds
    <3>2. ticketLock' = d <=> ticketLock = d
      BY <1>2, <2>2, <3>1
    <3>3. ticketLock = c => ticketCall[d].pc # "missed"
      BY <2>2 DEF TicketCallsInv
    <3> QED
      BY <3>1, <3>2, <3>3 DEF TicketCallsInv
  <2> QED
    BY <2>1, <2>2
<1>4. \/ \E d \in TicketCallers : ticketCall'[d].pc = "fetching"
      \/ ticketCache'.fetched >= ticketCache'.unknown \/ failed' >= ticketCache'.unknown
  <2>1. CASE r.pc = "fetching"
    BY <1>1, <2>1
  <2>2. CASE ticketCall[c].pc # "fetching" /\ UNCHANGED <<ticketCache, failed>>
    <3>1. ASSUME NEW d \in TicketCallers, ticketCall[d].pc = "fetching"
          PROVE  ticketCall'[d].pc = "fetching"
      BY <1>1, <2>2, <3>1
    <3> QED
      BY <2>2, <3>1 DEF TicketCallsInv
  <2> QED
    BY <2>1, <2>2
<1> QED
  BY <1>3, <1>4 DEF TicketCallsInv

(* What the hub's keys, the cache, the fetches and the clock stay as.        *)
KeysRest == UNCHANGED <<ticketNow, published, since, until, failed>>

LEMMA FetchesRest ==
  ASSUME FetchesInv, UNCHANGED attempts,
         ticketCache'.unknown = ticketCache.unknown,
         ticketCache'.attempted = ticketCache.attempted
  PROVE  FetchesInv'
BY DEF FetchesInv, FetchKinds

(* A call that begins, finds its key, waits or gives up.                     *)
LEMMA TicketSteps ==
  ASSUME TicketInv, NEW c, NEW r, TicketTo(c, r), KeysRest, UNCHANGED <<ticketCache, attempts>>,
         ticketCall[c].pc # "fetching",
         r.pc \in {"missed", "fetching"} <=> ticketLock' = c,
         ticketLock' = ticketLock \/ (ticketLock \in {c, None} /\ ticketLock' \in {c, None}),
         r.pc = "missed" => ~KeyFound(r.key, ticketCache, ticketNow)
  PROVE  TicketInv'
<1>1. TicketTypes'
  <2>1. ticketLock' \in TicketCallers \cup {None}
    BY DEF TicketInv, TicketTypes, TicketTo
  <2> QED
    BY <2>1, TicketToTyped DEF TicketInv, TicketTypes, KeysRest
<1>2. KeysInv'
  BY DEF TicketInv, KeysInv, KeysRest
<1>3. TicketCallsInv'
  BY TicketCallsKept DEF TicketInv, KeysRest
<1>4. FetchesInv'
  BY FetchesRest DEF TicketInv
<1> QED
  BY <1>1, <1>2, <1>3, <1>4 DEF TicketInv

LEMMA KeyFoundMeans ==
  /\ \A k : Platform!Cached(k) <=> KeyFound(k, ticketCache, ticketNow)
  /\ Platform!Fresh <=> ticketNow - ticketCache.fetched < Ttl
BY DEF Platform!Cached, Platform!Fresh, KeyFound

LEMMA TicketBegins ==
  ASSUME TicketInv, NEW c \in TicketCallers, Platform!TicketBegin(c)
  PROVE  TicketInv'
<1>1. PICK k \in Keys \cup {Forged}, cl \in Claims :
        ticketCall' = [ticketCall EXCEPT ![c] =
          [Platform!TicketIdle EXCEPT !.pc = "first", !.key = k, !.claims = cl]]
  BY DEF Platform!TicketBegin, Platform!TicketSet
<1>2. PICK r : r = [Platform!TicketIdle EXCEPT !.pc = "first", !.key = k, !.claims = cl]
  OBVIOUS
<1>3. r \in TicketCallOf /\ r.pc = "first"
  BY <1>2 DEF TicketCallOf, Platform!TicketIdle
<1>4. TicketTo(c, r)
  BY <1>1, <1>2, <1>3 DEF TicketTo
<1>5. ticketCall[c].pc \in {"idle", "done"}
      /\ UNCHANGED <<ticketNow, published, since, until, ticketCache, ticketLock, attempts, failed>>
  BY DEF Platform!TicketBegin
<1>6. ticketLock # c
  BY <1>5 DEF TicketInv, TicketCallsInv
<1> QED
  BY <1>3, <1>4, <1>5, <1>6, TicketSteps DEF KeysRest

LEMMA TicketFirsts ==
  ASSUME TicketInv, NEW c \in TicketCallers, Platform!First(c)
  PROVE  TicketInv'
<1>1. ticketCall[c].pc = "first" /\ ticketCall[c] \in TicketCallOf
      /\ UNCHANGED <<ticketNow, published, since, until, ticketCache, ticketLock, attempts, failed>>
  BY TicketTyped DEF Platform!First, TicketInv
<1>2. ticketLock # c
  BY <1>1 DEF TicketInv, TicketCallsInv
<1>3. PICK r \in TicketCallOf : TicketTo(c, r) /\ r.pc \in {"done", "waiting"}
  <2>1. CASE Platform!Cached(ticketCall[c].key)
    <3>1. PICK out \in {TicketAccepted, Invalid, Expired, WrongAudience, KeysUnavailable} :
            ticketCall' = [ticketCall EXCEPT ![c] = TicketDone(out)]
      BY <2>1, Verdicts DEF Platform!First, Platform!TicketReturn, Platform!TicketSet, TicketDone
    <3> QED
      BY <3>1, TicketDoneTyped DEF TicketTo
  <2>2. CASE ~Platform!Cached(ticketCall[c].key)
    <3>1. ticketCall' = [ticketCall EXCEPT ![c] = [ticketCall[c] EXCEPT !.pc = "waiting"]]
      BY <2>2 DEF Platform!First, Platform!TicketSet
    <3> QED
      BY <1>1, <3>1, TicketAt DEF TicketTo
  <2> QED
    BY <2>1, <2>2
<1> QED
  BY <1>1, <1>2, <1>3, TicketSteps DEF KeysRest

LEMMA TicketLocks ==
  ASSUME TicketInv, NEW c \in TicketCallers, Platform!TicketLock(c)
  PROVE  TicketInv'
<1>1. ticketCall[c].pc = "waiting" /\ ticketCall[c] \in TicketCallOf /\ ticketLock = None
      /\ UNCHANGED <<ticketNow, published, since, until, ticketCache, attempts, failed>>
  BY TicketTyped DEF Platform!TicketLock, TicketInv
<1>2. c # None
  BY TicketBounds
<1>3. CASE Platform!Cached(ticketCall[c].key)
  <2>1. PICK out \in {TicketAccepted, Invalid, Expired, WrongAudience, KeysUnavailable} :
          ticketCall' = [ticketCall EXCEPT ![c] = TicketDone(out)] /\ UNCHANGED ticketLock
    BY <1>3, Verdicts DEF Platform!TicketLock, Platform!TicketReturn, Platform!TicketSet, TicketDone
  <2>2. PICK r \in TicketCallOf : r = TicketDone(out) /\ r.pc = "done"
    BY TicketDoneTyped
  <2>3. TicketTo(c, r)
    BY <2>1, <2>2 DEF TicketTo
  <2> QED
    BY <1>1, <1>2, <2>1, <2>2, <2>3, TicketSteps DEF KeysRest
<1>4. CASE ~Platform!Cached(ticketCall[c].key)
  <2>1. PICK r : r = [ticketCall[c] EXCEPT !.pc = "missed"]
    OBVIOUS
  <2>2. TicketTo(c, r) /\ r.pc = "missed" /\ r.key = ticketCall[c].key /\ ticketLock' = c
    BY <1>1, <1>4, <2>1, TicketAt DEF Platform!TicketLock, Platform!TicketSet, TicketTo
  <2>3. ~KeyFound(r.key, ticketCache, ticketNow)
    BY <1>4, <2>2, KeyFoundMeans
  <2> QED
    BY <1>1, <2>2, <2>3, TicketSteps DEF KeysRest
<1> QED
  BY <1>3, <1>4

LEMMA FetchFailsSound ==
  ASSUME TicketInv, NEW c \in TicketCallers, Platform!FetchFails(c)
  PROVE  TicketInv'
<1>1. ticketCall[c].pc = "fetching" /\ failed' = ticketNow
      /\ UNCHANGED <<ticketNow, published, since, until, ticketCache, attempts>>
  BY DEF Platform!FetchFails
<1>2. ticketLock = c /\ ticketLock' = None
  BY <1>1 DEF Platform!FetchFails, Platform!Unlock, TicketInv, TicketCallsInv
<1>3. TicketTo(c, TicketDone(KeysUnavailable)) /\ TicketDone(KeysUnavailable).pc = "done"
  BY TicketDoneTyped DEF Platform!FetchFails, Platform!TicketReturn, Platform!TicketSet,
    TicketDone, TicketTo
<1>4. TicketTypes'
  BY <1>1, <1>2, <1>3, TicketToTyped, TicketTyped DEF TicketInv, TicketTypes
<1>5. KeysInv'
  BY <1>1 DEF TicketInv, KeysInv
<1>6. TicketCallsInv'
  <2>1. failed' >= ticketCache'.unknown
    BY <1>1 DEF TicketInv, KeysInv
  <2>2. c # None
    BY TicketBounds
  <2> QED
    BY <1>1, <1>2, <1>3, <2>1, <2>2, TicketCallsKept DEF TicketInv
<1>7. FetchesInv'
  BY <1>1, FetchesRest DEF TicketInv
<1> QED
  BY <1>4, <1>5, <1>6, <1>7 DEF TicketInv

LEMMA FetchedSound ==
  ASSUME TicketInv, NEW c \in TicketCallers, Platform!Fetched(c)
  PROVE  TicketInv'
<1>1. ticketCall[c].pc = "fetching"
      /\ UNCHANGED <<ticketNow, published, since, until, attempts, failed>>
  BY DEF Platform!Fetched
<1>2. ticketLock = c /\ ticketLock' = None
  BY <1>1 DEF Platform!Fetched, Platform!Unlock, TicketInv, TicketCallsInv
<1>3. PICK out \in {TicketAccepted, Invalid, Expired, WrongAudience, KeysUnavailable} :
        ticketCall' = [ticketCall EXCEPT ![c] = TicketDone(out)]
  BY Verdicts DEF Platform!Fetched, Platform!TicketReturn, Platform!TicketSet, TicketDone
<1>4. TicketTo(c, TicketDone(out)) /\ TicketDone(out).pc = "done"
  BY <1>3, TicketDoneTyped DEF TicketTo
<1>5. /\ ticketCache' \in KeyCacheOf
      /\ ticketCache'.keys = published /\ ticketCache'.fetched = ticketNow
      /\ ticketCache'.attempted = ticketCache.attempted
      /\ ticketCache'.unknown = ticketCache.unknown
  <2>1. /\ ticketCache' = [ticketCache EXCEPT !.keys = published, !.fetched = ticketNow]
        /\ ticketCache \in KeyCacheOf /\ published \in SUBSET Keys /\ ticketNow \in KeyTimes
    BY TicketTyped DEF Platform!Fetched, TicketInv, TicketTypes
  <2>2. PICK k \in KeyCacheOf : k = ticketCache
    BY <2>1
  <2>3. PICK S \in SUBSET Keys : S = published
    BY <2>1
  <2>4. PICK t \in KeyTimes : t = ticketNow
    BY <2>1
  <2>5. PICK q : q = ticketCache'
    OBVIOUS
  <2>6. q = [k EXCEPT !.keys = S, !.fetched = t]
    BY <2>1, <2>2, <2>3, <2>4, <2>5
  <2>7. /\ q \in KeyCacheOf
        /\ q.keys = S /\ q.fetched = t /\ q.attempted = k.attempted /\ q.unknown = k.unknown
    BY <2>6 DEF KeyCacheOf
  <2> QED
    BY <2>2, <2>3, <2>4, <2>5, <2>7
<1>6. TicketTypes'
  BY <1>1, <1>2, <1>4, <1>5, TicketToTyped DEF TicketInv, TicketTypes
<1>7. KeysInv'
  <2>1. ticketNow \in Int
    BY TicketTyped DEF TicketInv
  <2> QED
    BY <1>1, <1>5, <2>1 DEF TicketInv, KeysInv
<1>8. TicketCallsInv'
  <2>1. ticketCache'.fetched >= ticketCache'.unknown
    BY <1>1, <1>5 DEF TicketInv, KeysInv
  <2>2. c # None
    BY TicketBounds
  <2> QED
    BY <1>2, <1>4, <2>1, <2>2, TicketCallsKept DEF TicketInv
<1>9. FetchesInv'
  BY <1>1, <1>5, FetchesRest DEF TicketInv
<1> QED
  BY <1>6, <1>7, <1>8, <1>9 DEF TicketInv

(* A fetch begins.                                                           *)
LEMMA AttemptKinds ==
  ASSUME TicketTypes, KeysInv, FetchesInv, NEW q \in KeyCacheOf,
         ticketCache' = q, q.attempted = ticketNow,
         q.unknown = (IF ticketNow - ticketCache.fetched < Ttl THEN ticketNow
                      ELSE ticketCache.unknown),
         ticketNow - (IF ticketNow - ticketCache.fetched < Ttl THEN ticketCache.unknown
                      ELSE ticketCache.attempted) >= Cooldown,
         attempts' = [attempts EXCEPT ![ticketNow] = @ + 1]
  PROVE  FetchesInv'
<1>1. PICK stale \in SUBSET (0 .. TicketMaxTime), unknown \in SUBSET (0 .. TicketMaxTime) :
        FetchKinds(stale, unknown)
  BY DEF FetchesInv
<1>2. PICK now : now = ticketNow
  OBVIOUS
<1>3. /\ now \in 0 .. TicketMaxTime /\ now \in Int
      /\ Cooldown \in Int /\ Cooldown > 0 /\ Ttl \in Int
      /\ ticketCache.fetched \in Int /\ ticketCache.attempted \in Int /\ ticketCache.unknown \in Int
      /\ ticketCache.attempted <= now /\ ticketCache.unknown <= now
  BY <1>2, TicketTyped, TicketBounds DEF TicketTypes, KeysInv
<1>4. \A t \in 0 .. TicketMaxTime :
        attempts'[t] = IF t = now THEN attempts[t] + 1 ELSE attempts[t]
  BY <1>2 DEF TicketTypes
<1>5. \A t \in 0 .. TicketMaxTime : t \in Int
  BY TicketBounds
<1>6. CASE now - ticketCache.fetched < Ttl
  <2>1. \A t \in unknown : now - t >= Cooldown
    BY <1>1, <1>2, <1>3, <1>5, <1>6 DEF FetchKinds
  <2>2. now \notin unknown
    BY <1>3, <2>1
  <2>3. Apart(stale) /\ Apart(unknown \cup {now})
    BY <1>1, <1>3, <2>1 DEF FetchKinds, Apart
  <2>4. \A t \in 0 .. TicketMaxTime :
          attempts'[t] = (IF t \in stale THEN 1 ELSE 0)
                         + (IF t \in unknown \cup {now} THEN 1 ELSE 0)
    BY <1>1, <1>4, <2>2 DEF FetchKinds
  <2>5. q.unknown = now /\ q.attempted = now
    BY <1>2, <1>6
  <2>6. \A t \in stale \cup unknown \cup {now} : t <= now
    BY <1>1, <1>3, <1>5 DEF FetchKinds
  <2>7. FetchKinds(stale, unknown \cup {now})'
    BY <2>3, <2>4, <2>5, <2>6 DEF FetchKinds
  <2> QED
    BY <1>3, <2>7 DEF FetchesInv
<1>7. CASE ~(now - ticketCache.fetched < Ttl)
  <2>1. \A t \in stale \cup unknown : now - t >= Cooldown
    BY <1>1, <1>2, <1>3, <1>5, <1>7 DEF FetchKinds
  <2>2. now \notin stale
    BY <1>3, <2>1
  <2>3. Apart(stale \cup {now}) /\ Apart(unknown)
    BY <1>1, <1>3, <2>1 DEF FetchKinds, Apart
  <2>4. \A t \in 0 .. TicketMaxTime :
          attempts'[t] = (IF t \in stale \cup {now} THEN 1 ELSE 0)
                         + (IF t \in unknown THEN 1 ELSE 0)
    BY <1>1, <1>4, <2>2 DEF FetchKinds
  <2>5. q.unknown = ticketCache.unknown /\ q.attempted = now
    BY <1>2, <1>7
  <2>6. \A t \in stale \cup unknown \cup {now} : t <= now
    BY <1>1, <1>3, <1>5 DEF FetchKinds
  <2>7. FetchKinds(stale \cup {now}, unknown)'
    BY <1>1, <2>3, <2>4, <2>5, <2>6 DEF FetchKinds
  <2> QED
    BY <1>3, <2>7 DEF FetchesInv
<1> QED
  BY <1>6, <1>7

LEMMA AttemptsSound ==
  ASSUME TicketInv, NEW c \in TicketCallers, Platform!Attempt(c)
  PROVE  TicketInv'
<1>1. ticketCall[c].pc = "missed" /\ ticketCall[c] \in TicketCallOf /\ c # None
      /\ KeysRest
  BY TicketTyped, TicketBounds DEF Platform!Attempt, TicketInv, KeysRest
<1>2. ticketLock = c
  BY <1>1 DEF TicketInv, TicketCallsInv
<1>3. CASE ticketNow - (IF Platform!Fresh THEN ticketCache.unknown ELSE ticketCache.attempted)
             < Cooldown
  <2>1. PICK out \in {TicketAccepted, Invalid, Expired, WrongAudience, KeysUnavailable} :
          ticketCall' = [ticketCall EXCEPT ![c] = TicketDone(out)]
    BY <1>3 DEF Platform!Attempt, Platform!TicketReturn, Platform!TicketSet, TicketDone
  <2>2. PICK r \in TicketCallOf : r = TicketDone(out) /\ r.pc = "done"
    BY TicketDoneTyped
  <2>3. TicketTo(c, r)
    BY <2>1, <2>2 DEF TicketTo
  <2>4. ticketLock' = None /\ UNCHANGED <<ticketCache, attempts>>
    BY <1>2, <1>3 DEF Platform!Attempt, Platform!Unlock
  <2> QED
    BY <1>1, <1>2, <2>2, <2>3, <2>4, TicketSteps
<1>4. CASE ~(ticketNow - (IF Platform!Fresh THEN ticketCache.unknown ELSE ticketCache.attempted)
               < Cooldown)
  <2>1. /\ ticketCache' = [ticketCache EXCEPT !.attempted = ticketNow,
                                              !.unknown = IF Platform!Fresh THEN ticketNow ELSE @]
        /\ attempts' = [attempts EXCEPT ![ticketNow] = @ + 1]
        /\ ticketCall' = [ticketCall EXCEPT ![c] = [ticketCall[c] EXCEPT !.pc = "fetching"]]
        /\ ticketLock' = ticketLock
    BY <1>4 DEF Platform!Attempt, Platform!TicketSet
  <2>2. PICK k \in KeyCacheOf : k = ticketCache
    BY DEF TicketInv, TicketTypes
  <2>3. PICK t \in KeyTimes : t = ticketNow
    BY TicketTyped DEF TicketInv
  <2>4. PICK u \in KeyTimes : u = IF Platform!Fresh THEN ticketNow ELSE ticketCache.unknown
    BY <2>2, <2>3 DEF KeyCacheOf
  <2>5. PICK q : q = ticketCache'
    OBVIOUS
  <2>6. q = [k EXCEPT !.attempted = t, !.unknown = u]
    BY <2>1, <2>2, <2>3, <2>4, <2>5
  <2>7. /\ q \in KeyCacheOf
        /\ q.attempted = t /\ q.unknown = u /\ q.keys = k.keys /\ q.fetched = k.fetched
    BY <2>6 DEF KeyCacheOf
  <2>8. PICK r : r = [ticketCall[c] EXCEPT !.pc = "fetching"]
    OBVIOUS
  <2>9. TicketTo(c, r) /\ r.pc = "fetching"
    BY <1>1, <2>1, <2>8, TicketAt DEF TicketTo
  <2>10. TicketTypes'
    <3>1. attempts' \in [0 .. TicketMaxTime -> Nat]
      BY <2>1 DEF TicketInv, TicketTypes
    <3> QED
      BY <1>1, <2>1, <2>5, <2>7, <2>9, <3>1, TicketToTyped DEF TicketInv, TicketTypes, KeysRest
  <2>11. KeysInv'
    <3>1. ticketNow \in Int /\ u <= ticketNow
      BY <2>4, TicketTyped DEF TicketInv, KeysInv
    <3> QED
      BY <1>1, <2>2, <2>3, <2>5, <2>7, <3>1 DEF TicketInv, KeysInv, KeysRest
  <2>12. TicketCallsInv'
    BY <1>2, <2>1, <2>9, TicketCallsKept DEF TicketInv
  <2>13. FetchesInv'
    <3>1. q.unknown = (IF ticketNow - ticketCache.fetched < Ttl THEN ticketNow
                       ELSE ticketCache.unknown)
      BY <2>4, <2>7, KeyFoundMeans
    <3>2. /\ ticketNow \in Int /\ ticketCache.attempted \in Int /\ ticketCache.unknown \in Int
          /\ Cooldown \in Int
      BY TicketTyped, TicketBounds DEF TicketInv
    <3>3. ticketNow - (IF ticketNow - ticketCache.fetched < Ttl THEN ticketCache.unknown
                       ELSE ticketCache.attempted) >= Cooldown
      BY <1>4, <3>2, KeyFoundMeans
    <3> QED
      BY <2>1, <2>3, <2>5, <2>7, <3>1, <3>3, AttemptKinds DEF TicketInv
  <2> QED
    BY <2>10, <2>11, <2>12, <2>13 DEF TicketInv
<1> QED
  BY <1>3, <1>4

(* The hub's keys change; time passes.                                       *)
LEMMA RotationsSound ==
  ASSUME TicketInv, NEW k \in Keys, Platform!Rotate(k)
  PROVE  TicketInv'
<1>1. UNCHANGED <<ticketNow, ticketCache, ticketLock, ticketCall, attempts, failed>>
  BY DEF Platform!Rotate
<1>2. ticketNow \in Int /\ ticketCache.fetched \in Int /\ ticketCache.fetched <= ticketNow
      /\ ticketCache.keys \in SUBSET Keys
  BY TicketTyped DEF TicketInv, KeysInv
<1>3. CASE k \in published
  <2>1. published' = published \ {k} /\ since' = since
        /\ until' = [until EXCEPT ![k] = ticketNow]
    BY <1>3 DEF Platform!Rotate
  <2>2. TicketTypes'
    BY <1>1, <1>2, <2>1 DEF TicketInv, TicketTypes
  <2>3. \A j \in Keys : until'[j] = IF j = k THEN ticketNow ELSE until[j]
    BY <2>1 DEF TicketInv, TicketTypes
  <2>4. KeysInv'
    BY <1>1, <1>2, <2>1, <2>3 DEF TicketInv, KeysInv
  <2> QED
    BY <1>1, <2>2, <2>4, FetchesRest DEF TicketInv, TicketCallsInv
<1>4. CASE k \notin published
  <2>1. published' = published \cup {k} /\ until' = until
        /\ since' = [since EXCEPT ![k] = ticketNow]
    BY <1>4 DEF Platform!Rotate
  <2>2. TicketTypes'
    BY <1>1, <1>2, <2>1 DEF TicketInv, TicketTypes
  <2>3. \A j \in Keys : since'[j] = IF j = k THEN ticketNow ELSE since[j]
    BY <2>1 DEF TicketInv, TicketTypes
  <2>4. published \subseteq Keys
    BY DEF TicketInv, TicketTypes
  <2>5. KeysInv'
    BY <1>1, <1>2, <2>1, <2>3, <2>4 DEF TicketInv, KeysInv
  <2> QED
    BY <1>1, <2>2, <2>5, FetchesRest DEF TicketInv, TicketCallsInv
<1> QED
  BY <1>3, <1>4

LEMMA TicketTicks ==
  ASSUME TicketInv, Platform!TicketTick
  PROVE  TicketInv'
<1>1. /\ ticketNow' = ticketNow + 1 /\ ticketNow < TicketMaxTime
      /\ UNCHANGED <<published, since, until, ticketCache, ticketLock, ticketCall, attempts, failed>>
  BY DEF Platform!TicketTick
<1>2. /\ ticketNow \in Int /\ 0 <= ticketNow /\ Ttl \in Int /\ TicketMaxTime \in Int
      /\ ticketCache.fetched \in Int /\ ticketCache.attempted \in Int /\ ticketCache.unknown \in Int
  BY TicketTyped, TicketBounds DEF TicketInv
<1>3. TicketTypes'
  BY <1>1, <1>2 DEF TicketInv, TicketTypes
<1>4. KeysInv'
  BY <1>1, <1>2 DEF TicketInv, KeysInv
<1>5. \A j : KeyFound(j, ticketCache, ticketNow') => KeyFound(j, ticketCache, ticketNow)
  BY <1>1, <1>2 DEF KeyFound
<1>6. TicketCallsInv'
  BY <1>1, <1>5 DEF TicketInv, TicketCallsInv
<1>7. FetchesInv'
  BY <1>1, FetchesRest DEF TicketInv
<1> QED
  BY <1>3, <1>4, <1>6, <1>7 DEF TicketInv

LEMMA TicketMovesSound ==
  ASSUME TicketInv, Platform!TicketNext
  PROVE  TicketInv'
<1>1. \/ \E c \in TicketCallers :
           \/ Platform!TicketBegin(c) \/ Platform!First(c) \/ Platform!TicketLock(c)
           \/ Platform!Attempt(c) \/ Platform!Fetched(c) \/ Platform!FetchFails(c)
      \/ \E k \in Keys : Platform!Rotate(k)
      \/ Platform!TicketTick
  BY DEF Platform!TicketNext, Platform!TicketStep
<1> QED
  BY <1>1, TicketBegins, TicketFirsts, TicketLocks, AttemptsSound, FetchedSound, FetchFailsSound,
    RotationsSound, TicketTicks

LEMMA TicketStart == Platform!TicketInit => TicketInv
<1> SUFFICES ASSUME Platform!TicketInit PROVE TicketInv
  OBVIOUS
<1>1. PICK k \in Keys : /\ published = {k}
                        /\ since = [j \in Keys |-> IF j = k THEN 0 ELSE Platform!Never]
  BY DEF Platform!TicketInit
<1>2. /\ ticketNow = 0 /\ until = [j \in Keys |-> Platform!Never]
      /\ ticketCache = [keys |-> {}, fetched |-> Platform!Never,
                        attempted |-> Platform!Never, unknown |-> Platform!Never]
      /\ ticketLock = None /\ ticketCall = [c \in TicketCallers |-> Platform!TicketIdle]
      /\ attempts = [t \in 0 .. TicketMaxTime |-> 0] /\ failed = Platform!Never
  BY DEF Platform!TicketInit
<1>3. /\ Platform!Never \in Int /\ Platform!Never <= 0 /\ Platform!Never \in KeyTimes
      /\ 0 \in 0 .. TicketMaxTime
  BY TicketBounds
<1>4. Platform!TicketIdle \in TicketCallOf /\ Platform!TicketIdle.pc = "idle"
  BY DEF Platform!TicketIdle, TicketCallOf
<1>5. ticketCache \in KeyCacheOf
  BY <1>2, <1>3 DEF KeyCacheOf
<1>6. TicketTypes
  BY <1>1, <1>2, <1>3, <1>4, <1>5 DEF TicketTypes
<1>7. KeysInv
  BY <1>1, <1>2, <1>3 DEF KeysInv
<1>8. TicketCallsInv
  BY <1>2, <1>3, <1>4, TicketBounds DEF TicketCallsInv
<1>9. FetchKinds({}, {})
  BY <1>2 DEF FetchKinds, Apart
<1> QED
  BY <1>6, <1>7, <1>8, <1>9 DEF TicketInv, FetchesInv

LEMMA AtMostTwo ==
  ASSUME NEW S, NEW a, NEW b, S \subseteq {a, b}
  PROVE  Cardinality(S) <= 2
<1>1. /\ IsFiniteSet({}) /\ Cardinality({}) = 0
  BY FS_EmptySet
<1>2. IsFiniteSet({a}) /\ Cardinality({a}) <= 1
  <2>1. IsFiniteSet({a}) /\ Cardinality({a}) = 1
    BY FS_Singleton
  <2> QED
    BY <2>1
<1>3. PICK T : T = {a}
  OBVIOUS
<1>4. IsFiniteSet({a, b}) /\ Cardinality({a, b}) <= 2
  <2>1. IsFiniteSet(T) /\ Cardinality(T) <= 1 /\ Cardinality(T) \in Nat
    BY <1>2, <1>3, FS_CardinalityType
  <2>2. IsFiniteSet(T \cup {b}) /\ Cardinality(T \cup {b}) <= 2
    BY <2>1, FS_AddElement
  <2>3. T \cup {b} = {a, b}
    BY <1>3
  <2> QED
    BY <2>2, <2>3
<1>5. Cardinality(S) <= Cardinality({a, b}) /\ Cardinality(S) \in Nat /\ Cardinality({a, b}) \in Nat
  BY <1>4, FS_Subset, FS_CardinalityType
<1> QED
  BY <1>4, <1>5

(* What the invariant promises of the keys.                                  *)
LEMMA FetchesStayBounded == TicketInv => Platform!FetchesBounded
<1> SUFFICES ASSUME TicketInv, NEW t \in 0 .. TicketMaxTime
             PROVE  Platform!Cardinality({f \in Platform!Begun : t - Cooldown < f[1] /\ f[1] <= t}) <= 2
  BY DEF Platform!FetchesBounded
<1> DEFINE W == {f \in Platform!Begun : t - Cooldown < f[1] /\ f[1] <= t}
<1>1. PICK stale \in SUBSET (0 .. TicketMaxTime), unknown \in SUBSET (0 .. TicketMaxTime) :
        FetchKinds(stale, unknown)
  BY DEF TicketInv, FetchesInv
<1>2. \A s \in 0 .. TicketMaxTime : s \in Int
  OBVIOUS
<1>3. ASSUME NEW S \in SUBSET (0 .. TicketMaxTime), Apart(S)
      PROVE  \E s : \A u \in S : t - Cooldown < u /\ u <= t => u = s
  <2>1. ASSUME NEW u \in S, NEW v \in S,
               t - Cooldown < u, u <= t, t - Cooldown < v, v <= t
        PROVE  u = v
    <3>1. u \in Int /\ v \in Int /\ t \in Int /\ Cooldown \in Int
      BY <1>2, TicketBounds
    <3>2. u = v \/ u - v >= Cooldown \/ v - u >= Cooldown
      BY <1>3 DEF Apart
    <3> QED
      BY <2>1, <3>1, <3>2
  <2> QED
    BY <2>1
<1>4. PICK s : \A u \in stale : t - Cooldown < u /\ u <= t => u = s
  BY <1>1, <1>3 DEF FetchKinds
<1>5. PICK n : \A u \in unknown : t - Cooldown < u /\ u <= t => u = n
  BY <1>1, <1>3 DEF FetchKinds
<1>6. W \subseteq {<<s, 1>>, <<n, IF s = n THEN 2 ELSE 1>>}
  <2> SUFFICES ASSUME NEW f \in W PROVE f = <<s, 1>> \/ f = <<n, IF s = n THEN 2 ELSE 1>>
    OBVIOUS
  <2>1. PICK u \in 0 .. TicketMaxTime, i \in 1 .. 3 :
          f = <<u, i>> /\ i <= attempts[u] /\ t - Cooldown < u /\ u <= t
    BY DEF Platform!Begun
  <2> QED
    BY <1>1, <1>4, <1>5, <2>1 DEF FetchKinds
<1> QED
  <2>1. Platform!Cardinality(W) = Cardinality(W)
    BY DEF Platform!Cardinality, Cardinality
  <2> QED
    BY <1>6, <2>1, AtMostTwo

(* How a call may end.                                                       *)
TicketAnswered(d) ==
  LET k == ticketCall[d]
      out == ticketCall'[d].out
  IN \/ out = Platform!Verdict(k) /\ (Platform!Cached(k.key) \/ k.key \in published)
     \/ out = KeysUnavailable
     \/ out = Invalid /\ k.key \notin published
     \/ /\ out = Invalid /\ k.pc = "missed"
        /\ ticketNow - ticketCache.fetched < Ttl /\ ticketNow - ticketCache.unknown < Cooldown

LEMMA TicketAnswers ==
  ASSUME TicketInv, Platform!TicketNext, NEW d \in TicketCallers,
         ticketCall[d].pc # "done", ticketCall'[d].pc = "done"
  PROVE  TicketAnswered(d)
<1>1. ASSUME NEW c \in TicketCallers, NEW r, ticketCall' = [ticketCall EXCEPT ![c] = r]
      PROVE  d = c /\ ticketCall'[d] = r
  BY <1>1 DEF TicketInv, TicketTypes
<1>2. ASSUME NEW out \in {TicketAccepted, Invalid, Expired, WrongAudience, KeysUnavailable},
             NEW c \in TicketCallers, Platform!TicketReturn(c, out)
      PROVE  d = c /\ ticketCall'[d].out = out
  BY <1>1, <1>2, TicketDoneTyped DEF Platform!TicketReturn, Platform!TicketSet, TicketDone
<1>3. ASSUME NEW c \in TicketCallers, Platform!TicketReturn(c, Platform!Verdict(ticketCall[c]))
      PROVE  d = c /\ ticketCall'[d].out = Platform!Verdict(ticketCall[d])
  BY <1>2, <1>3, Verdicts
<1>4. ASSUME NEW c \in TicketCallers, NEW pc \in {"first", "waiting", "missed", "fetching"},
             NEW k \in TicketCallOf, ticketCall' = [ticketCall EXCEPT ![c] = [k EXCEPT !.pc = pc]]
      PROVE  FALSE
  BY <1>1, <1>4, TicketAt
<1>5. ASSUME NEW c \in TicketCallers, Platform!TicketBegin(c) PROVE FALSE
  <2>1. PICK k \in Keys \cup {Forged}, cl \in Claims :
          ticketCall' = [ticketCall EXCEPT ![c] =
            [Platform!TicketIdle EXCEPT !.pc = "first", !.key = k, !.claims = cl]]
    BY <1>5 DEF Platform!TicketBegin, Platform!TicketSet
  <2> QED
    BY <1>1, <2>1 DEF Platform!TicketIdle
<1>6. ASSUME NEW c \in TicketCallers, Platform!First(c) PROVE TicketAnswered(d)
  <2>1. CASE Platform!Cached(ticketCall[c].key)
    <3>1. Platform!TicketReturn(c, Platform!Verdict(ticketCall[c]))
      BY <1>6, <2>1 DEF Platform!First
    <3> QED
      BY <1>3, <2>1, <3>1 DEF TicketAnswered
  <2>2. CASE ~Platform!Cached(ticketCall[c].key)
    <3>1. ticketCall' = [ticketCall EXCEPT ![c] = [ticketCall[c] EXCEPT !.pc = "waiting"]]
      BY <1>6, <2>2 DEF Platform!First, Platform!TicketSet
    <3> QED
      BY <1>4, <3>1, TicketTyped DEF TicketInv
  <2> QED
    BY <2>1, <2>2
<1>7. ASSUME NEW c \in TicketCallers, Platform!TicketLock(c) PROVE TicketAnswered(d)
  <2>1. CASE Platform!Cached(ticketCall[c].key)
    <3>1. Platform!TicketReturn(c, Platform!Verdict(ticketCall[c]))
      BY <1>7, <2>1 DEF Platform!TicketLock
    <3> QED
      BY <1>3, <2>1, <3>1 DEF TicketAnswered
  <2>2. CASE ~Platform!Cached(ticketCall[c].key)
    <3>1. ticketCall' = [ticketCall EXCEPT ![c] = [ticketCall[c] EXCEPT !.pc = "missed"]]
      BY <1>7, <2>2 DEF Platform!TicketLock, Platform!TicketSet
    <3> QED
      BY <1>4, <3>1, TicketTyped DEF TicketInv
  <2> QED
    BY <2>1, <2>2
<1>8. ASSUME NEW c \in TicketCallers, Platform!Attempt(c) PROVE TicketAnswered(d)
  <2>1. CASE ticketNow - (IF Platform!Fresh THEN ticketCache.unknown ELSE ticketCache.attempted)
               < Cooldown
    <3>1. Platform!TicketReturn(c, IF Platform!Fresh THEN Invalid ELSE KeysUnavailable)
          /\ ticketCall[c].pc = "missed"
      BY <1>8, <2>1 DEF Platform!Attempt
    <3>2. CASE Platform!Fresh
      BY <1>2, <2>1, <3>1, <3>2, KeyFoundMeans DEF TicketAnswered
    <3>3. CASE ~Platform!Fresh
      BY <1>2, <3>1, <3>3 DEF TicketAnswered
    <3> QED
      BY <3>2, <3>3
  <2>2. CASE ~(ticketNow - (IF Platform!Fresh THEN ticketCache.unknown
                            ELSE ticketCache.attempted) < Cooldown)
    <3>1. ticketCall' = [ticketCall EXCEPT ![c] = [ticketCall[c] EXCEPT !.pc = "fetching"]]
      BY <1>8, <2>2 DEF Platform!Attempt, Platform!TicketSet
    <3> QED
      BY <1>4, <3>1, TicketTyped DEF TicketInv
  <2> QED
    BY <2>1, <2>2
<1>9. ASSUME NEW c \in TicketCallers, Platform!Fetched(c) PROVE TicketAnswered(d)
  <2>1. CASE ticketCall[c].key \in published
    <3>1. Platform!TicketReturn(c, Platform!Verdict(ticketCall[c]))
      BY <1>9, <2>1 DEF Platform!Fetched
    <3> QED
      BY <1>3, <2>1, <3>1 DEF TicketAnswered
  <2>2. CASE ticketCall[c].key \notin published
    <3>1. Platform!TicketReturn(c, Invalid)
      BY <1>9, <2>2 DEF Platform!Fetched
    <3> QED
      BY <1>2, <2>2, <3>1 DEF TicketAnswered
  <2> QED
    BY <2>1, <2>2
<1>10. ASSUME NEW c \in TicketCallers, Platform!FetchFails(c) PROVE TicketAnswered(d)
  BY <1>2, <1>10 DEF Platform!FetchFails, TicketAnswered
<1>11. (\E k \in Keys : Platform!Rotate(k)) \/ Platform!TicketTick => FALSE
  BY DEF Platform!Rotate, Platform!TicketTick
<1> QED
  BY <1>5, <1>6, <1>7, <1>8, <1>9, <1>10, <1>11 DEF Platform!TicketNext, Platform!TicketStep

LEMMA KeysEndAndTurn ==
  ASSUME TicketInv, Platform!TicketNext
  PROVE  Platform!WithdrawnKeysEnd /\ Platform!RotatedKeyAccepted
<1>1. /\ Ttl \in Int /\ Cooldown \in Int /\ ticketNow \in Int /\ failed \in Int
      /\ ticketCache.fetched \in Int /\ ticketCache.unknown \in Int
      /\ ticketCache.keys \in SUBSET Keys /\ published \in SUBSET Keys
      /\ \A k \in Keys : since[k] \in Int /\ until[k] \in Int
  BY TicketTyped, TicketBounds DEF TicketInv, TicketTypes
<1>2. \A d \in TicketCallers :
        ticketCall[d].pc # "done" /\ ticketCall'[d].pc = "done" => TicketAnswered(d)
  BY TicketAnswers
<1>3. ASSUME NEW d \in TicketCallers, TicketAnswered(d), ticketCall'[d].out = TicketAccepted
      PROVE  ticketCall[d].key \in published \/ ticketNow - until[ticketCall[d].key] < Ttl
  <2>1. ticketCall[d].key \in published \/ Platform!Cached(ticketCall[d].key)
    BY <1>3, TicketBounds DEF TicketAnswered
  <2>2. CASE Platform!Cached(ticketCall[d].key)
    <3>1. ticketCall[d].key \in ticketCache.keys /\ ticketNow - ticketCache.fetched < Ttl
      BY <2>2, KeyFoundMeans DEF KeyFound
    <3>2. ticketCall[d].key \in published \/ until[ticketCall[d].key] >= ticketCache.fetched
      BY <3>1 DEF TicketInv, KeysInv
    <3> QED
      BY <1>1, <3>1, <3>2
  <2> QED
    BY <2>1, <2>2
<1>4. ASSUME NEW d \in TicketCallers, TicketAnswered(d), ticketCall'[d].out = Invalid
      PROVE  \/ Platform!Verdict(ticketCall[d]) = Invalid \/ ticketCall[d].key \notin published
             \/ ticketNow - since[ticketCall[d].key] < Cooldown \/ ticketNow - failed < Cooldown
  <2>1. SUFFICES ASSUME ticketCall[d].key \in published, ticketCall[d].pc = "missed",
                        ticketNow - ticketCache.fetched < Ttl,
                        ticketNow - ticketCache.unknown < Cooldown
                 PROVE  \/ ticketNow - since[ticketCall[d].key] < Cooldown
                        \/ ticketNow - failed < Cooldown
    BY <1>4, TicketBounds DEF TicketAnswered
  <2>2. ticketCall[d].key \notin ticketCache.keys
    BY <2>1 DEF TicketInv, TicketCallsInv, KeyFound
  <2>3. since[ticketCall[d].key] >= ticketCache.fetched
    BY <2>1, <2>2 DEF TicketInv, KeysInv
  <2>4. \A c \in TicketCallers : ticketCall[c].pc # "fetching"
    BY <2>1 DEF TicketInv, TicketCallsInv
  <2>5. ticketCache.fetched >= ticketCache.unknown \/ failed >= ticketCache.unknown
    BY <2>4 DEF TicketInv, TicketCallsInv
  <2>6. since[ticketCall[d].key] \in Int
    BY <1>1, <2>1
  <2> QED
    BY <1>1, <2>1, <2>3, <2>5, <2>6
<1> QED
  BY <1>2, <1>3, <1>4 DEF Platform!WithdrawnKeysEnd, Platform!RotatedKeyAccepted

LEMMA TicketPromise ==
  TicketInv => Platform!TicketTypeOK /\ Platform!FetchesBounded
<1>1. TicketTypes => Platform!TicketTypeOK
  BY DEF TicketTypes, Platform!TicketTypeOK, TicketCallOf, KeyCacheOf, KeyTimes, Platform!Times,
    Platform!Never, Platform!Outs
<1> QED
  BY <1>1, FetchesStayBounded DEF TicketInv

-----------------------------------------------------------------------------
(* The three machines of the platform at rest, and what runs them.          *)
LEMMA PlanRests ==
  ASSUME NEW cs, NEW ws, NEW bs, NEW life, NEW last,
         PlanInv(cs, ws, bs, life, last), UNCHANGED planState
  PROVE  PlanInv(cs, ws, bs, life, last)'
<1>1. PlanTypes(cs, ws, bs, life, last)'
  BY DEF PlanInv, PlanTypes, planState
<1>2. PlanCallsInv(cs)'
  BY DEF PlanInv, PlanCallsInv, PlanCallSound, planState
<1>3. PlanWorkInv(ws)' /\ PlanInForce' /\ PlanReceipts'
  BY DEF PlanInv, PlanWorkInv, WorkSound, PlanInForce, PlanReceipts, planState
<1> QED
  BY <1>1, <1>2, <1>3 DEF PlanInv

LEMMA HubRests ==
  ASSUME HubInv, UNCHANGED hubState
  PROVE  HubInv'
<1>1. HubTypes'
  BY DEF HubInv, HubTypes, hubState
<1>2. HubCallsInv'
  BY DEF HubInv, HubCallsInv, HubCallSound, HubMargin, Platform!Early, Platform!Half, hubState
<1>3. HubCacheInv' /\ HubCalm'
  BY DEF HubInv, HubCacheInv, HubCalm, HubMargin, Platform!Early, Platform!Half, hubState
<1> QED
  BY <1>1, <1>2, <1>3 DEF HubInv

LEMMA TicketRests ==
  ASSUME TicketInv, UNCHANGED ticketState
  PROVE  TicketInv'
<1>1. TicketTypes'
  BY DEF TicketInv, TicketTypes, ticketState
<1>2. KeysInv'
  BY DEF TicketInv, KeysInv, ticketState
<1>3. TicketCallsInv'
  BY DEF TicketInv, TicketCallsInv, KeyFound, ticketState
<1>4. FetchesInv'
  BY DEF TicketInv, FetchesInv, FetchKinds, Apart, ticketState
<1> QED
  BY <1>1, <1>2, <1>3, <1>4 DEF TicketInv

LEMMA PlatformMachines ==
  /\ Init => /\ part = "plan" => Platform!PlanInit
             /\ part = "events" => PlatformEvents!PlanInit
             /\ part = "hub" => Platform!HubInit
             /\ part = "ticket" => Platform!TicketInit
  /\ [Next]_vars => /\ part' = part
                    /\ part = "plan" => Platform!PlanNext \/ UNCHANGED planState
                    /\ part = "events" => PlatformEvents!PlanNext \/ UNCHANGED planState
                    /\ part = "hub" => Platform!HubNext \/ UNCHANGED hubState
                    /\ part = "ticket" => Platform!TicketNext \/ UNCHANGED ticketState
<1>1. Init => /\ part = "plan" => Platform!PlanInit
              /\ part = "events" => PlatformEvents!PlanInit
              /\ part = "hub" => Platform!HubInit
              /\ part = "ticket" => Platform!TicketInit
  BY DEF Init, LinkStarts, RewardStarts, PlanStarts, HubStarts, TicketStarts
<1>2. [Next]_vars => /\ part' = part
                     /\ part = "plan" => Platform!PlanNext \/ UNCHANGED planState
                     /\ part = "events" => PlatformEvents!PlanNext \/ UNCHANGED planState
                     /\ part = "hub" => Platform!HubNext \/ UNCHANGED hubState
                     /\ part = "ticket" => Platform!TicketNext \/ UNCHANGED ticketState
  BY DEF Next, LinkMoves, RewardMoves, PlanMoves, HubMoves, TicketMoves, vars
<1> QED
  BY <1>1, <1>2

LEMMA PlatformKeeps ==
  ASSUME PlatformInv, [Next]_vars
  PROVE  PlatformInv' /\ PlatformStaysCurrentSteps
<1>1. ASSUME part = "plan"
      PROVE  /\ PlanInv(PlanCallers, PlanWorkers, Bodies, Life, PlanMaxTime)'
             /\ Platform!CacheNeverRegresses
  <2>1. PlanInv(PlanCallers, PlanWorkers, Bodies, Life, PlanMaxTime)
    BY <1>1 DEF PlatformInv
  <2>2. CASE Platform!PlanNext
    <3>1. CacheGrows => Platform!CacheNeverRegresses
      BY DEF CacheGrows, Platform!CacheNeverRegresses
    <3> QED
      BY <2>1, <2>2, <3>1, PlatformPlanMoves, PlanMovesSound, PlanBounds
  <2>3. CASE UNCHANGED planState
    <3>1. planCache \in SnapsOf(Life, PlanMaxTime) \cup {None} /\ planCache' = planCache
      BY <2>1, <2>3 DEF PlanInv, PlanTypes, planState
    <3>2. Platform!CacheNeverRegresses
      BY <3>1, SnapTyped DEF Platform!CacheNeverRegresses
    <3> QED
      BY <2>1, <2>3, <3>2, PlanRests
  <2> QED
    BY <1>1, <2>2, <2>3, PlatformMachines
<1>2. ASSUME part = "events" PROVE PlanInv({c1}, {w1, w2}, {b1, b2}, 1, 0)'
  <2>1. PlanInv({c1}, {w1, w2}, {b1, b2}, 1, 0)
    BY <1>2 DEF PlatformInv
  <2>2. CASE PlatformEvents!PlanNext
    BY <2>1, <2>2, EventsPlanMoves, PlanMovesSound, PlanBounds
  <2>3. CASE UNCHANGED planState
    BY <2>1, <2>3, PlanRests
  <2> QED
    BY <1>2, <2>2, <2>3, PlatformMachines
<1>3. ASSUME part = "hub"
      PROVE  HubInv' /\ Platform!TakenUnexpired /\ Platform!OnlyRefusedDropped
  <2>1. HubInv
    BY <1>3 DEF PlatformInv
  <2>2. CASE Platform!HubNext
    BY <2>1, <2>2, HubMovesSound, HubMovesKeep
  <2>3. CASE UNCHANGED hubState
    <3>1. Platform!TakenUnexpired /\ Platform!OnlyRefusedDropped
      BY <2>3 DEF hubState, Platform!TakenUnexpired, Platform!OnlyRefusedDropped
    <3> QED
      BY <2>1, <2>3, <3>1, HubRests
  <2> QED
    BY <1>3, <2>2, <2>3, PlatformMachines
<1>4. ASSUME part = "ticket"
      PROVE  TicketInv' /\ Platform!WithdrawnKeysEnd /\ Platform!RotatedKeyAccepted
  <2>1. TicketInv
    BY <1>4 DEF PlatformInv
  <2>2. CASE Platform!TicketNext
    BY <2>1, <2>2, TicketMovesSound, KeysEndAndTurn
  <2>3. CASE UNCHANGED ticketState
    <3>1. Platform!WithdrawnKeysEnd /\ Platform!RotatedKeyAccepted
      BY <2>3 DEF ticketState, Platform!WithdrawnKeysEnd, Platform!RotatedKeyAccepted
    <3> QED
      BY <2>1, <2>3, <3>1, TicketRests
  <2> QED
    BY <1>4, <2>2, <2>3, PlatformMachines
<1>5. part' = part
  BY PlatformMachines
<1>6. PlatformInv'
  BY <1>1, <1>2, <1>3, <1>4, <1>5 DEF PlatformInv
<1>7. PlatformStaysCurrentSteps
  BY <1>1, <1>3, <1>4 DEF PlatformStaysCurrentSteps
<1> QED
  BY <1>6, <1>7

(* However reads, deliveries, forgotten locks, faults and changes at the    *)
(* platform interleave: a plan served is no older than what was committed   *)
(* when its read took the lock and had not expired when it began, one read  *)
(* pulls at a time, the cache never goes back and an acknowledged event is  *)
(* in force under one body. One token request is under way, a token is      *)
(* taken unexpired and dropped only once refused, and while the platform    *)
(* revokes none, none is refused, given that an exchange is shorter than    *)
(* the renewal margin and than half a lifetime. Two key fetches begin in a  *)
(* cool-down at most, a withdrawn key ends with the cache's lifetime and a  *)
(* rotated one is accepted (baukit-suite hub, entitlements and tickets).    *)
THEOREM PlatformCurrent == HubMargin => (Spec => PlatformStaysCurrent)
<1> SUFFICES ASSUME HubMargin PROVE Spec => PlatformStaysCurrent
  OBVIOUS
<1>1. Init => PlatformInv
  BY PlatformMachines, PlanStart, HubStart, TicketStart DEF PlatformInv
<1>2. PlatformInv /\ [Next]_vars => PlatformInv'
  BY PlatformKeeps
<1>3. PlatformInv => PlatformStaysCurrentHolds
  BY PlanPromise, HubPromise, TicketPromise DEF PlatformInv, PlatformStaysCurrentHolds
<1>4. PlatformInv /\ [Next]_vars => [PlatformStaysCurrentSteps]_vars
  BY PlatformKeeps
<1> QED
  BY <1>1, <1>2, <1>3, <1>4, PTL DEF Spec, PlatformStaysCurrent
=============================================================================
