--------------------------- MODULE ClientSessions ----------------------------
(***************************************************************************)
(* Sessions of the TypeScript packages: the command line's credential file *)
(* (Device...), the browser's session (Web...), the native app's           *)
(* (Native...) and tokens fetched silently (Silent...).                    *)
(***************************************************************************)
EXTENDS Integers, FiniteSets

-----------------------------------------------------------------------------
(***************************************************************************)
(* auth-node, DeviceFlowClient over NodeTokenCache: processes of one user  *)
(* share a JSON document of profiles and an adjacent lock file.  Calls log *)
(* in, read or refresh the access token, and log out.  The provider        *)
(* rotates refresh tokens, so presenting one twice ends the session there. *)
(***************************************************************************)

CONSTANTS
  Callers,   \* concurrent calls, each within one process for one profile
  Processes, ProcessOf, Profiles, ProfileOf,
  DeviceMaxTokens, \* bound: tokens the provider issues
  MaxCrashes, \* bound
  None, DeviceRejected, Dead \* Dead: the lock file of a process that is gone

CallersAssumption ==
  ProcessOf \in [Callers -> Processes] /\ ProfileOf \in [Callers -> Profiles]

VARIABLES
  doc,     \* the cache document: the profile's token pair, or None
  lock,    \* the lock file: the caller that created it, None or Dead
  pc, op,  \* where the call is, and what was asked
  obs,     \* the pair it read without the lock (observed)
  pair,    \* the pair it sends, then the pair it writes
  copy,    \* the document it read in order to replace it
  flight,  \* refreshFlights of each process: the leading caller, or None
  sent,    \* refresh requests at the provider
  answer,  \* the provider's answer on its way to the caller
  usable,  \* refresh tokens the provider accepts
  deviceStale,   \* access tokens inside the refresh window
  deviceCount,   \* tokens issued
  lost,    \* refresh tokens whose use had no effect on the cache
  reused,  \* refresh tokens presented after they were rotated away
  left,    \* profiles whose last completed change was a logout
  crashes

deviceVars == <<doc, lock, pc, op, obs, pair, copy, flight, sent, answer, usable, deviceStale, deviceCount, lost,
                reused, left, crashes>>
provider == <<sent, answer, usable, deviceStale, deviceCount, reused>>

Places == {"idle", "reading", "decide", "polling", "waiting", "joined", "held", "posted",
           "copy", "replace", "stat", "unlink"}
Holding == {"held", "posted", "copy", "replace", "stat", "unlink"}
Pairs == [at : 1..DeviceMaxTokens, rt : 1..DeviceMaxTokens]

DeviceInit ==
  /\ doc = [f \in Profiles |-> None] /\ lock = None
  /\ pc = [c \in Callers |-> "idle"] /\ op = [c \in Callers |-> None]
  /\ obs = [c \in Callers |-> None] /\ pair = [c \in Callers |-> None]
  /\ copy = [c \in Callers |-> None]
  /\ flight = [p \in Processes |-> [f \in Profiles |-> None]]
  /\ sent = {} /\ answer = [c \in Callers |-> None]
  /\ usable = {} /\ deviceStale = {} /\ deviceCount = 0
  /\ lost = {} /\ reused = {} /\ left = {} /\ crashes = 0

Fresh(t) == t.at \notin deviceStale
Goto(c, place) == pc' = [pc EXCEPT ![c] = place]
MyFlight(c) == flight[ProcessOf[c]][ProfileOf[c]]
SetFlight(c, x) == flight' = [flight EXCEPT ![ProcessOf[c]][ProfileOf[c]] = x]

\* The call ends; those that joined the flight it leads end with it.
Finish(c) ==
  /\ pc' = [d \in Callers |-> IF d = c \/ (MyFlight(c) = c /\ pc[d] = "joined"
                                           /\ ProcessOf[d] = ProcessOf[c]
                                           /\ ProfileOf[d] = ProfileOf[c])
                              THEN "idle" ELSE pc[d]]
  /\ IF MyFlight(c) = c THEN SetFlight(c, None) ELSE UNCHANGED flight
  /\ obs' = [obs EXCEPT ![c] = None] /\ pair' = [pair EXCEPT ![c] = None]
  /\ copy' = [copy EXCEPT ![c] = None]
  /\ op' = [d \in Callers |-> IF pc'[d] = "idle" THEN None ELSE op[d]]

\* Back to the release of the lock, with nothing left to send or write.
Release(c) ==
  /\ Goto(c, "stat")
  /\ obs' = [obs EXCEPT ![c] = None] /\ pair' = [pair EXCEPT ![c] = None]
  /\ copy' = [copy EXCEPT ![c] = None]

Call(c, o) ==
  /\ pc[c] = "idle" /\ op' = [op EXCEPT ![c] = o]
  /\ Goto(c, CASE o \in {"access", "force"} -> "reading" [] o = "login" -> "polling"
               [] o = "logout" -> "waiting")
  /\ UNCHANGED <<doc, lock, obs, pair, copy, flight, provider, lost, left, crashes>>

\* The cache is read without the lock.
Read(c) ==
  /\ pc[c] = "reading" /\ obs' = [obs EXCEPT ![c] = doc[ProfileOf[c]]]
  /\ Goto(c, "decide")
  /\ UNCHANGED <<doc, lock, op, pair, copy, flight, provider, lost, left, crashes>>

Decide(c) ==
  /\ pc[c] = "decide"
  /\ IF obs[c] = None \/ (op[c] = "access" /\ Fresh(obs[c])) THEN Finish(c)
     ELSE /\ IF MyFlight(c) # None THEN Goto(c, "joined") /\ UNCHANGED flight
             ELSE Goto(c, "waiting") /\ SetFlight(c, c)
          /\ UNCHANGED <<obs, pair, copy, op>>
  /\ UNCHANGED <<doc, lock, provider, lost, left, crashes>>

\* The device login: denied, expired, timed out or aborted; or authorized.
Poll(c) ==
  /\ pc[c] = "polling"
  /\ \/ Finish(c) /\ UNCHANGED provider
     \/ /\ deviceCount < DeviceMaxTokens /\ deviceCount' = deviceCount + 1
        /\ pair' = [pair EXCEPT ![c] = [at |-> deviceCount', rt |-> deviceCount']]
        /\ usable' = usable \union {deviceCount'}
        /\ Goto(c, "waiting") /\ UNCHANGED <<op, obs, copy, flight, sent, answer, deviceStale, reused>>
  /\ UNCHANGED <<doc, lock, lost, left, crashes>>

Acquire(c) ==
  /\ pc[c] = "waiting" /\ lock = None
  /\ lock' = c /\ Goto(c, "held")
  /\ UNCHANGED <<doc, op, obs, pair, copy, flight, provider, lost, left, crashes>>

\* cache_lock_timeout, or the call's signal.
GiveUp(c) ==
  /\ pc[c] = "waiting" /\ lock # None /\ Finish(c)
  /\ UNCHANGED <<doc, lock, provider, lost, left, crashes>>

\* The profile is read again; it may have gone, changed or be fresh now.
Held(c) ==
  LET now == doc[ProfileOf[c]] IN
  /\ pc[c] = "held"
  /\ IF op[c] \in {"access", "force"}
     THEN IF now = None \/ now.at # obs[c].at \/ (op[c] = "access" /\ Fresh(now))
          THEN Release(c) /\ UNCHANGED sent
          ELSE /\ pair' = [pair EXCEPT ![c] = now]
               /\ sent' = sent \union {[by |-> c, rt |-> now.rt]} /\ Goto(c, "posted")
               /\ UNCHANGED <<obs, copy>>
     ELSE /\ IF op[c] = "logout" /\ now = None THEN Release(c)
             ELSE Goto(c, "copy") /\ UNCHANGED <<obs, pair, copy>>
          /\ UNCHANGED sent
  /\ UNCHANGED <<doc, lock, op, flight, answer, usable, deviceStale, deviceCount, lost, reused,
                 left, crashes>>

DeviceAnswered(c) ==
  /\ pc[c] = "posted" /\ answer[c] # None
  /\ answer' = [answer EXCEPT ![c] = None]
  /\ IF answer[c] # DeviceRejected
     THEN pair' = [pair EXCEPT ![c] = answer[c]] /\ Goto(c, "copy") /\ UNCHANGED <<obs, copy>>
     ELSE Release(c)
  /\ UNCHANGED <<doc, lock, op, flight, sent, usable, deviceStale, deviceCount, lost, reused, left,
                 crashes>>

\* The request's timeout or the leader's signal; the provider may have served it.
Timeout(c) ==
  /\ pc[c] = "posted" /\ Release(c)
  /\ answer' = [answer EXCEPT ![c] = None] /\ lost' = lost \union {pair[c].rt}
  /\ UNCHANGED <<doc, lock, op, flight, sent, usable, deviceStale, deviceCount, reused, left, crashes>>

Copy(c) ==
  /\ pc[c] = "copy" /\ copy' = [copy EXCEPT ![c] = doc] /\ Goto(c, "replace")
  /\ UNCHANGED <<doc, lock, op, obs, pair, flight, provider, lost, left, crashes>>

\* The document is written aside and renamed over the old one; or that fails.
Replace(c) ==
  LET f == ProfileOf[c] IN
  /\ pc[c] = "replace" /\ Release(c)
  /\ \/ /\ doc' = [copy[c] EXCEPT ![f] = IF op[c] = "logout" THEN None ELSE pair[c]]
        /\ left' = IF op[c] = "logout" THEN left \union {f}
                   ELSE IF op[c] = "login" THEN left \ {f} ELSE left
        /\ UNCHANGED lost
     \/ /\ lost' = lost \union (IF op[c] \in {"access", "force"} THEN {obs[c].rt} ELSE {})
        /\ UNCHANGED <<doc, left>>
  /\ UNCHANGED <<lock, op, flight, provider, crashes>>

Stat(c) ==
  /\ pc[c] = "stat"
  /\ IF lock = c THEN Goto(c, "unlink") /\ UNCHANGED <<op, obs, pair, copy, flight>> ELSE Finish(c)
  /\ UNCHANGED <<doc, lock, provider, lost, left, crashes>>

Unlink(c) ==
  /\ pc[c] = "unlink" /\ lock' = None /\ Finish(c)
  /\ UNCHANGED <<doc, provider, lost, left, crashes>>

(* The provider, time and failures. *)
Serve(q) ==
  /\ sent' = sent \ {q}
  /\ \/ /\ q.rt \in usable /\ deviceCount < DeviceMaxTokens /\ deviceCount' = deviceCount + 1
        \* with a rotated refresh token, or with none
        /\ \E rt \in {deviceCount', q.rt} :
             /\ usable' = (usable \ {q.rt}) \union {rt}
             /\ answer' = IF pc[q.by] = "posted" /\ pair[q.by].rt = q.rt
                          THEN [answer EXCEPT ![q.by] = [at |-> deviceCount', rt |-> rt]] ELSE answer
        /\ UNCHANGED reused
     \/ /\ q.rt \notin usable
        /\ reused' = reused \union {q.rt} /\ UNCHANGED usable
        /\ answer' = IF pc[q.by] = "posted" /\ pair[q.by].rt = q.rt
                     THEN [answer EXCEPT ![q.by] = DeviceRejected] ELSE answer
        /\ UNCHANGED deviceCount
  /\ UNCHANGED <<doc, lock, pc, op, obs, pair, copy, flight, deviceStale, lost, left, crashes>>

Expire ==
  /\ \E t \in (1..deviceCount) \ deviceStale : deviceStale' = deviceStale \union {t}
  /\ UNCHANGED <<doc, lock, pc, op, obs, pair, copy, flight, sent, answer, usable, deviceCount, lost,
                 reused, left, crashes>>

\* A process dies; its lock file stays.
Crash(p) ==
  LET mine == {c \in Callers : ProcessOf[c] = p}
      busy == {c \in mine : op[c] \in {"access", "force"}
                            /\ pc[c] \in {"posted", "copy", "replace"}} IN
  /\ crashes < MaxCrashes /\ crashes' = crashes + 1
  /\ \E c \in mine : pc[c] # "idle"
  /\ pc' = [c \in Callers |-> IF c \in mine THEN "idle" ELSE pc[c]]
  /\ obs' = [c \in Callers |-> IF c \in mine THEN None ELSE obs[c]]
  /\ pair' = [c \in Callers |-> IF c \in mine THEN None ELSE pair[c]]
  /\ copy' = [c \in Callers |-> IF c \in mine THEN None ELSE copy[c]]
  /\ answer' = [c \in Callers |-> IF c \in mine THEN None ELSE answer[c]]
  /\ flight' = [flight EXCEPT ![p] = [f \in Profiles |-> None]]
  /\ lock' = IF lock \in mine THEN Dead ELSE lock
  /\ lost' = lost \union {obs[c].rt : c \in busy}
  /\ op' = [c \in Callers |-> IF c \in mine THEN None ELSE op[c]]
  /\ UNCHANGED <<doc, sent, usable, deviceStale, deviceCount, reused, left>>

\* The user removes the lock file of a process that is gone.
RemoveLock ==
  /\ lock = Dead /\ lock' = None
  /\ UNCHANGED <<doc, pc, op, obs, pair, copy, flight, provider, lost, left, crashes>>

Step(c) ==
  \/ Read(c) \/ Decide(c) \/ Poll(c) \/ Acquire(c) \/ GiveUp(c) \/ Held(c) \/ DeviceAnswered(c)
  \/ Timeout(c) \/ Copy(c) \/ Replace(c) \/ Stat(c) \/ Unlink(c)

DeviceNext ==
  \/ \E c \in Callers : Step(c) \/ \E o \in {"access", "force", "login", "logout"} : Call(c, o)
  \/ \E q \in sent : Serve(q)
  \/ \E p \in Processes : Crash(p)
  \/ Expire \/ RemoveLock

DeviceSpec == DeviceInit /\ [][DeviceNext]_deviceVars

DeviceTypeOK ==
  /\ doc \in [Profiles -> Pairs \union {None}] /\ lock \in Callers \union {None, Dead}
  /\ pc \in [Callers -> Places]
  /\ obs \in [Callers -> Pairs \union {None}] /\ pair \in [Callers -> Pairs \union {None}]
  /\ answer \in [Callers -> Pairs \union {None, DeviceRejected}]
  /\ usable \union deviceStale \union lost \union reused \subseteq 1..DeviceMaxTokens
  /\ \A p \in Processes, f \in Profiles :
       flight[p][f] # None => pc[flight[p][f]] \in Holding \union {"waiting"}

\* Across processes a refresh token is presented again after its rotation only
\* if an answer to it, or the write of that answer, was lost.
ReuseOnlyAfterLoss == reused \subseteq lost

\* No refresh that was under way brings a profile back after a logout.
LogoutStays == \A f \in left : doc[f] = None

\* A refresh replaces the very pair whose refresh token it sent: never a newer
\* login, never another process's refresh.
RefreshReplacesWhatItSent ==
  \A c \in Callers : op[c] \in {"access", "force"} /\ pc[c] \in {"posted", "copy", "replace"} =>
    doc[ProfileOf[c]] = obs[c]

\* A change of one profile keeps the others of the document.
OtherProfilesKept ==
  \A f \in Profiles : doc'[f] # doc[f] =>
    \E c \in Callers : ProfileOf[c] = f /\ pc[c] = "replace" /\ pc'[c] # "replace"

-----------------------------------------------------------------------------
(***************************************************************************)
(* auth-web, OidcClient in the tabs of one browser: tokens and the         *)
(* force-login marker in localStorage, which the tabs share, the login     *)
(* transaction in each tab's sessionStorage, sessionRevision and the       *)
(* promises in its page.  Calls overlap at the provider's requests; a      *)
(* navigation discards the page.  A token is its number, the tab that      *)
(* stored it and the epoch in which its request began, an epoch being the  *)
(* time between two ends of a session.                                     *)
(***************************************************************************)

CONSTANTS
  Tabs,
  WebMaxTokens, WebMaxEpoch, MaxPages \* bounds

VARIABLES
  tokens, webMarker, \* localStorage
  tab,       \* each tab's sessionStorage and page
  webCount,  \* tokens and flights so far
  webEpoch,  \* ended sessions
  ended,     \* the epoch that each tab's last end began
  erased,    \* the last erasure's tab and epoch, until a sign-in answers it
  exchanged  \* codes sent to the token endpoint, with how often

webVars == <<tokens, webMarker, tab, webCount, webEpoch, ended, erased, exchanged>>

NoToken == [n |-> 0, by |-> None, born |-> 0, renews |-> FALSE]
NoErasure == [by |-> None, epoch |-> 0]

\* A page: the number it has in its tab, which names its login transaction tx
\* and the callback returned to it; sessionRevision; callbackPromise ("none",
\* "exchanging" or "settled") with the revision and epoch it began at; the
\* refresh that refreshPromise waits for; metadataPromise; and whether the last
\* failure was said to be retryable.
Page(number, transaction, to) ==
  [page |-> number, tx |-> transaction, returned |-> to, revision |-> 0,
   callback |-> "none", began |-> [revision |-> 0, epoch |-> 0],
   flight |-> None, metadata |-> "none", retryable |-> FALSE]

WebInit ==
  /\ tokens = NoToken /\ webMarker = FALSE /\ tab = [t \in Tabs |-> Page(1, None, None)]
  /\ webCount = 0 /\ webEpoch = 0
  /\ ended = [t \in Tabs |-> 0] /\ erased = NoErasure
  /\ exchanged = [t \in Tabs |-> [p \in 1..MaxPages |-> 0]]

Becomes(t, me) == tab' = [tab EXCEPT ![t] = me]

\* A page knows the provider after one discovery, and keeps its failure.
Discoveries(me) ==
  {[me EXCEPT !.metadata = m] : m \in {"known", "failed"} \
     (IF me.metadata = "known" THEN {"failed"} ELSE IF me.metadata = "failed" THEN {"known"} ELSE {})}

\* clearSession and expireSession of tab t, whose page is me.
WebEnd(t, me, reason) ==
  /\ webEpoch < WebMaxEpoch /\ webEpoch' = webEpoch + 1
  /\ tokens' = NoToken /\ Becomes(t, [me EXCEPT !.revision = @ + 1, !.tx = None])
  /\ ended' = [ended EXCEPT ![t] = webEpoch']
  /\ webMarker' = (webMarker \/ reason = "profile_erased")
  /\ erased' = IF reason = "profile_erased" THEN [by |-> t, epoch |-> webEpoch'] ELSE erased

WebClear(t, reason) ==
  WebEnd(t, tab[t], reason) /\ UNCHANGED <<webCount, exchanged>>

\* A new page: what the old one awaited is gone.
Navigate(t, to) ==
  /\ tab[t].page < MaxPages /\ Becomes(t, Page(tab[t].page + 1, tab[t].tx, to))
  /\ UNCHANGED <<tokens, webMarker, webCount, webEpoch, ended, erased, exchanged>>

\* login, and the provider sends the user back to a new page with a code.
WebLogin(t) ==
  /\ \E me \in Discoveries(tab[t]) :
       Becomes(t, IF me.metadata = "known" THEN [me EXCEPT !.tx = me.page] ELSE me)
  /\ UNCHANGED <<tokens, webMarker, webCount, webEpoch, ended, erased, exchanged>>

Return(t) == tab[t].tx # None /\ Navigate(t, tab[t].tx)

Reload(t) == Navigate(t, None)

\* handleCallback, called by each repeated effect: it sends the code, or meets
\* a failed discovery, a state mismatch, another issuer or the provider's error.
HandleCallback(t) ==
  /\ tab[t].returned # None /\ tab[t].callback = "none"
  /\ \/ /\ tab[t].tx = tab[t].returned
        /\ \E me \in Discoveries(tab[t]) :
             /\ Becomes(t, [me EXCEPT !.tx = None,
                              !.callback = IF me.metadata = "known" THEN "exchanging" ELSE "settled",
                              !.began = [revision |-> me.revision, epoch |-> webEpoch]])
             /\ exchanged' = IF me.metadata = "failed" THEN exchanged
                             ELSE [exchanged EXCEPT ![t][me.returned] = @ + 1]
     \/ /\ Becomes(t, [tab[t] EXCEPT !.tx = None, !.callback = "settled"]) /\ UNCHANGED exchanged
  /\ UNCHANGED <<tokens, webMarker, webCount, webEpoch, ended, erased>>

\* A sign-in answers an erasure if it began later, or in another tab.
Answers(t, epoch) == epoch >= erased.epoch \/ t # erased.by

\* The code is exchanged or refused.
Exchanged(t) ==
  LET me == [tab[t] EXCEPT !.callback = "settled"] IN
  /\ tab[t].callback = "exchanging"
  /\ \/ /\ webCount < WebMaxTokens /\ webCount' = webCount + 1
        /\ me.revision = me.began.revision /\ Becomes(t, [me EXCEPT !.revision = @ + 1])
        /\ \E renews \in BOOLEAN :
             tokens' = [n |-> webCount', by |-> t, born |-> me.began.epoch, renews |-> renews]
        /\ webMarker' = FALSE
        /\ erased' = IF Answers(t, me.began.epoch) THEN NoErasure ELSE erased
     \/ Becomes(t, me) /\ UNCHANGED <<tokens, webMarker, webCount, erased>>
  /\ UNCHANGED <<webEpoch, ended, exchanged>>

\* accessToken, which forceRefresh calls at any age of the token: the stored
\* one, the shared refresh, a new one, or the end.
WebAccess(t) ==
  /\ tokens # NoToken
  /\ IF ~tokens.renews
     THEN WebEnd(t, tab[t], "refresh_unavailable") /\ UNCHANGED webCount
     ELSE /\ tab[t].flight = None /\ webCount < WebMaxTokens
          /\ \E me \in Discoveries(tab[t]) :
               IF me.metadata = "known"
               THEN /\ webCount' = webCount + 1
                    /\ Becomes(t, [me EXCEPT !.flight =
                         [n |-> webCount', of |-> tokens, revision |-> me.revision, epoch |-> webEpoch]])
               ELSE Becomes(t, [me EXCEPT !.retryable = TRUE]) /\ UNCHANGED webCount
          /\ UNCHANGED <<tokens, webMarker, webEpoch, ended, erased>>
  /\ UNCHANGED <<exchanged>>

\* The refresh is answered; the next call does not join it.
Landed(t) == tab[t].flight # None
PageAfter(t) == [tab[t] EXCEPT !.flight = None]

\* refresh: tokens; stored only if the page saw no change of session meanwhile.
Refreshed(t) ==
  LET f == tab[t].flight IN
  /\ Landed(t)
  /\ IF f.revision = tab[t].revision
     THEN /\ tokens' = [n |-> f.n, by |-> t, born |-> f.epoch, renews |-> TRUE]
          /\ Becomes(t, [PageAfter(t) EXCEPT !.revision = @ + 1])
     ELSE Becomes(t, PageAfter(t)) /\ UNCHANGED <<tokens>>
  /\ UNCHANGED <<webMarker, webCount, webEpoch, ended, erased, exchanged>>

\* A plausible bug: any rejection ends the session that is there.
RejectedAnyway(t) ==
  /\ Landed(t) /\ WebEnd(t, PageAfter(t), "refresh_rejected")
  /\ UNCHANGED <<webCount, exchanged>>

\* refresh: invalid_grant, 400 or 401.
WebRejected(t) ==
  /\ Landed(t)
  /\ IF tab[t].flight.revision = tab[t].revision THEN WebEnd(t, PageAfter(t), "refresh_rejected")
     ELSE Becomes(t, PageAfter(t)) /\ UNCHANGED <<tokens, webMarker, webEpoch, ended, erased>>
  /\ UNCHANGED <<webCount, exchanged>>

\* refresh: the network, a 5xx or a malformed answer.
Transient(t) ==
  /\ Landed(t) /\ Becomes(t, [PageAfter(t) EXCEPT !.retryable = TRUE])
  /\ UNCHANGED <<tokens, webMarker, webCount, webEpoch, ended, erased, exchanged>>

WebNext ==
  \E t \in Tabs :
    \/ \E reason \in {"logout", "profile_erased"} : WebClear(t, reason)
    \/ WebLogin(t) \/ Return(t) \/ Reload(t) \/ HandleCallback(t) \/ Exchanged(t)
    \/ WebAccess(t) \/ Refreshed(t) \/ WebRejected(t) \/ Transient(t)

WebSpec == WebInit /\ [][WebNext]_webVars

WebTypeOK ==
  /\ tokens \in [n : 0..WebMaxTokens, by : Tabs \union {None}, born : 0..WebMaxEpoch,
                 renews : BOOLEAN]
  /\ \A t \in Tabs : /\ tab[t].callback \in {"none", "exchanging", "settled"}
                     /\ tab[t].metadata \in {"none", "known", "failed"}

\* No request that a tab sent before it ended the session brings one back.
WebEndedStays == tokens # NoToken => tokens.born >= ended[tokens.by]

\* After profile_erased the marker stays until a sign-in, which in the tab that
\* was told of the erasure is one begun since then.
WebMarkerStays == erased # NoErasure => webMarker

\* A code is sent to the token endpoint once, however often effects run.
CodeOnce == \A t \in Tabs, p \in 1..MaxPages : exchanged[t][p] <= 1

\* A rejection ends only the session whose refresh token was rejected, or one
\* that another tab has stored since.
WebNoLateExpiry ==
  \A t \in Tabs : tab[t].flight # None /\ tab'[t].flight = None /\ tab'[t].page = tab[t].page
    /\ tokens # NoToken /\ tokens' = NoToken
      => tokens = tab[t].flight.of \/ tokens.by # t

\* README.md:33 and :35 across tabs: what another tab sent before a session's
\* end brings none back, and a marker waits for a sign-in begun since then.
EndedInEveryTab == tokens # NoToken => tokens.born = webEpoch

\* A failure said to be retryable may succeed when it is tried again.
RetryCanSucceed == \A t \in Tabs : tab[t].retryable => tab[t].metadata # "failed"
-----------------------------------------------------------------------------
(***************************************************************************)
(* auth-native, NativeOidcClient: the session in memory and in the secure  *)
(* store, with the force-login marker beside it.  Every store call is      *)
(* awaited and may fail; the app may be killed at any time.  A session is  *)
(* its number, its subject, the epoch in which its sign-in was called and  *)
(* the epoch in which that sign-in stored it.                              *)
(***************************************************************************)

CONSTANTS
  Subjects,
  MaxSessions, NativeMaxEpoch, MaxStarts, \* bounds
  Overlapping \* the product starts calls while another's store write is pending,
               \* and signs in over a session

OverlappingAssumption == Overlapping \in BOOLEAN

VARIABLES
  current, ready,    \* currentSession, initialized
  disk, nativeMarker,      \* the secure store
  nativeSignin, refresh, ender, \* the calls in progress
  leaving,             \* a sign-out waits for the end-session endpoint
  nativeCount, starts,
  nativeEpoch, done,       \* session ends so far; the last one that completed
  owed               \* the epoch whose end requires prompt=login, or 0

nativeVars == <<current, ready, disk, nativeMarker, nativeSignin, refresh, ender, leaving, nativeCount, starts,
                nativeEpoch, done, owed>>

NoSession == [n |-> 0, sub |-> None, began |-> 0, born |-> 0, renews |-> FALSE]
NoSignin == [at |-> "none", began |-> 0, session |-> NoSession]
NoRefresh == [at |-> "none", of |-> NoSession, session |-> NoSession]
NoEnder == [at |-> "none", why |-> "none", epoch |-> 0]

NativeInit ==
  /\ current = NoSession /\ ready = FALSE /\ disk = NoSession /\ nativeMarker = FALSE
  /\ nativeSignin = NoSignin /\ refresh = NoRefresh /\ ender = NoEnder /\ leaving = FALSE
  /\ nativeCount = 0 /\ starts = 1 /\ nativeEpoch = 0 /\ done = 0 /\ owed = 0

\* No store write of another call is pending.
Quiet == Overlapping \/ (nativeSignin.at \notin {"setting", "unmark"} /\ refresh.at # "setting"
                         /\ ender.at = "none")
NewSession(sub, began, born, renews) ==
  [n |-> nativeCount + 1, sub |-> sub, began |-> began, born |-> born, renews |-> renews]

(* initialize *)
Initialize ==
  /\ ~ready /\ ready' = TRUE /\ current' = disk
  /\ UNCHANGED <<disk, leaving, nativeMarker, nativeSignin, refresh, ender, nativeCount, starts, nativeEpoch, done, owed>>

\* The app is killed and started again; pending store calls did not happen.
Restart ==
  /\ starts < MaxStarts /\ starts' = starts + 1
  /\ current' = NoSession /\ ready' = FALSE
  /\ nativeSignin' = NoSignin /\ refresh' = NoRefresh /\ ender' = NoEnder /\ leaving' = FALSE
  /\ UNCHANGED <<disk, nativeMarker, nativeCount, nativeEpoch, done, owed>>

(* signIn *)
SignIn ==
  /\ ready /\ nativeSignin.at = "none" /\ Quiet
  /\ Overlapping \/ current = NoSession
  /\ nativeSignin' = [NoSignin EXCEPT !.at = "asked", !.began = nativeEpoch]
  /\ UNCHANGED <<current, ready, disk, nativeMarker, refresh, ender, leaving, nativeCount, starts,
                 nativeEpoch, done, owed>>

\* discover and readForceLogin fail, or the browser opens.
Asked ==
  /\ nativeSignin.at = "asked"
  /\ \/ nativeSignin' = NoSignin
     \/ nativeSignin' = [nativeSignin EXCEPT !.at = IF nativeMarker THEN "prompted" ELSE "browser"]
  /\ UNCHANGED <<current, ready, disk, nativeMarker, refresh, ender, leaving, nativeCount, starts,
                 nativeEpoch, done, owed>>

\* Cancelled, dismissed, failed or refused; or a code, which is exchanged, or
\* the exchange's tokens, for whose subject userinfo is asked.
Authorized ==
  /\ nativeSignin.at \in {"browser", "prompted", "exchanging"}
  /\ \/ nativeSignin' = NoSignin
     \/ nativeSignin' = [nativeSignin EXCEPT !.at = IF @ = "exchanging" THEN "subject" ELSE "exchanging"]
  /\ UNCHANGED <<current, ready, disk, nativeMarker, refresh, ender, leaving, nativeCount, starts,
                 nativeEpoch, done, owed>>

\* The subject is refused or known: the session is written with no look at what
\* happened since the sign-in was called.
SubjectKnown ==
  /\ nativeSignin.at = "subject"
  /\ \/ nativeSignin' = NoSignin /\ UNCHANGED nativeCount
     \/ /\ nativeCount < MaxSessions /\ nativeCount' = nativeCount + 1 /\ Quiet
        /\ \E sub \in Subjects, renews \in BOOLEAN :
             nativeSignin' = [nativeSignin EXCEPT !.at = "setting",
               !.session = NewSession(sub, nativeSignin.began, nativeEpoch, renews)]
  /\ UNCHANGED <<current, ready, disk, nativeMarker, refresh, ender, leaving, starts, nativeEpoch, done, owed>>

\* writeSession
SignedIn ==
  /\ nativeSignin.at = "setting"
  /\ \/ /\ disk' = nativeSignin.session /\ current' = nativeSignin.session
        /\ nativeSignin' = [nativeSignin EXCEPT !.at = "unmark"]
        /\ owed' = IF nativeSignin.session.born >= owed THEN 0 ELSE owed
     \/ nativeSignin' = NoSignin /\ UNCHANGED <<disk, current, owed>>
  /\ UNCHANGED <<ready, leaving, nativeMarker, refresh, ender, nativeCount, starts, nativeEpoch, done>>

\* deleteForceLoginBestEffort
Unmarked ==
  /\ nativeSignin.at = "unmark" /\ nativeSignin' = NoSignin
  /\ nativeMarker' \in {FALSE, nativeMarker}
  /\ UNCHANGED <<current, ready, leaving, disk, refresh, ender, nativeCount, starts, nativeEpoch, done, owed>>

(* signOut, clearSession and expireSession *)

\* What runs before the first await: memory is cleared, the store follows.
NativeEnd(why) ==
  /\ nativeEpoch < NativeMaxEpoch /\ nativeEpoch' = nativeEpoch + 1 /\ current' = NoSession
  /\ ender' = [at |-> "deleting", why |-> why, epoch |-> nativeEpoch + 1]

NativeClear(why) ==
  /\ ready /\ ender.at = "none" /\ Quiet /\ NativeEnd(why)
  /\ UNCHANGED <<ready, leaving, disk, nativeMarker, nativeSignin, refresh, nativeCount, starts, done, owed>>

Deleted ==
  /\ ender.at = "deleting"
  /\ \/ /\ disk' = NoSession /\ done' = ender.epoch
        /\ ender' = IF ender.why \in {"signout", "profile_erased"}
                    THEN [ender EXCEPT !.at = "marking"] ELSE NoEnder
     \/ ender' = NoEnder /\ UNCHANGED <<disk, done>>
  /\ UNCHANGED <<current, ready, leaving, nativeMarker, nativeSignin, refresh, nativeCount, starts, nativeEpoch, owed>>

\* setForceLogin
Marked ==
  /\ ender.at = "marking"
  /\ \/ /\ nativeMarker' = TRUE /\ owed' = ender.epoch
        /\ leaving' = (leaving \/ ender.why = "signout")
     \/ UNCHANGED <<nativeMarker, owed, leaving>>
  /\ ender' = NoEnder
  /\ UNCHANGED <<current, ready, disk, nativeSignin, refresh, nativeCount, starts, nativeEpoch, done>>

\* The end-session endpoint: completed, or failed, cancelled or unavailable.
ProviderLogout ==
  /\ leaving /\ leaving' = FALSE
  /\ \/ nativeMarker' \in {FALSE, nativeMarker} /\ owed' = 0
     \/ UNCHANGED <<nativeMarker, owed>>
  /\ UNCHANGED <<current, ready, disk, nativeSignin, refresh, ender, nativeCount, starts, nativeEpoch, done>>

(* accessToken, which forceRefresh calls at any age of the token, and refresh *)
NativeAccess ==
  /\ ready /\ current # NoSession
  /\ IF current.renews
     THEN /\ refresh.at = "none"
          /\ refresh' = [at |-> "posted", of |-> current, session |-> NoSession]
          /\ UNCHANGED <<current, ender, nativeEpoch>>
     ELSE ender.at = "none" /\ Quiet /\ NativeEnd("refresh_unavailable") /\ UNCHANGED refresh
  /\ UNCHANGED <<ready, leaving, disk, nativeMarker, nativeSignin, nativeCount, starts, done, owed>>

NativeAnswered ==
  /\ refresh.at = "posted"
  /\ \/ /\ current = refresh.of /\ nativeCount < MaxSessions /\ nativeCount' = nativeCount + 1
        /\ refresh' = [refresh EXCEPT !.at = "setting",
                         !.session = NewSession(refresh.of.sub, refresh.of.began, refresh.of.born, TRUE)]
     \* superseded, or the network, a 5xx or a malformed answer
     \/ refresh' = NoRefresh /\ UNCHANGED nativeCount
  /\ UNCHANGED <<current, ready, leaving, disk, nativeMarker, nativeSignin, ender, starts, nativeEpoch, done, owed>>

NativeRejected ==
  /\ refresh.at = "posted" /\ refresh' = NoRefresh
  /\ IF current = refresh.of THEN ender.at = "none" /\ Quiet /\ NativeEnd("refresh_rejected")
     ELSE UNCHANGED <<current, ender, nativeEpoch>>
  /\ UNCHANGED <<ready, leaving, disk, nativeMarker, nativeSignin, nativeCount, starts, done, owed>>

\* writeSession: the store, and then memory without another look.
Stored ==
  /\ refresh.at = "setting" /\ refresh' = NoRefresh
  /\ \/ disk' = refresh.session /\ current' = refresh.session
     \/ UNCHANGED <<disk, current>>
  /\ UNCHANGED <<ready, leaving, nativeMarker, nativeSignin, ender, nativeCount, starts, nativeEpoch, done, owed>>

NativeNext ==
  \/ Initialize \/ Restart \/ SignIn \/ Asked \/ Authorized \/ SubjectKnown \/ SignedIn \/ Unmarked
  \/ \E why \in {"signout", "clear", "profile_erased"} : NativeClear(why)
  \/ Deleted \/ Marked \/ ProviderLogout \/ NativeAccess \/ NativeAnswered \/ NativeRejected \/ Stored

NativeSpec == NativeInit /\ [][NativeNext]_nativeVars

NativeTypeOK ==
  /\ {current.n, disk.n} \subseteq 0..nativeCount /\ {current.sub, disk.sub} \subseteq Subjects \union {None}
  /\ nativeSignin.at \in {"none", "asked", "browser", "prompted", "exchanging", "subject", "setting",
                          "unmark"}
  /\ refresh.at \in {"none", "posted", "setting"}
  /\ ender.at \in {"none", "deleting", "marking"} /\ leaving \in BOOLEAN
  /\ ~ready => current = NoSession /\ nativeSignin = NoSignin /\ ender = NoEnder /\ refresh = NoRefresh /\ ~leaving

\* After a sign-out that completed, only a sign-in that stored its session since
\* then brings one, in memory or after a restart: never a refresh.
NativeEndedStays ==
  \A s \in {current, disk} : s # NoSession => s.born >= done

\* After a sign-out whose provider logout did not complete, or an erasure, the
\* next sign-in prompts, unless one under way has stored its session meanwhile.
NativeMarkerStays == owed # 0 => nativeMarker

\* README.md:35 and :37 of the sign-in under way: it was called since the end.
NativeCalledSince ==
  \A s \in {current, disk} : s # NoSession => s.began >= done

\* A refresh keeps the subject; only a sign-in changes it.
SubjectKept ==
  current # NoSession /\ current' # NoSession /\ current'.sub # current.sub
    => nativeSignin.at = "setting"

\* A rejection ends only the session whose refresh token was rejected.
NativeNoLateExpiry ==
  refresh # NoRefresh /\ refresh' = NoRefresh /\ ready' /\ current' = NoSession
    => current \in {NoSession, refresh.of}

-----------------------------------------------------------------------------
(***************************************************************************)
(* auth-web, SilentTokenBroker: per product a cached access token, one     *)
(* pending authorization in a hidden frame or a popup, and a remembered    *)
(* failure.  The answers of the provider are named by what is wrong with   *)
(* them.  Times count down, in units of the expiry leeway.                 *)
(***************************************************************************)

CONSTANTS
  Products,
  MaxLife, MaxTime, MaxOpened \* bounds

VARIABLES
  cache,    \* life left and how much of it is the renewal margin (doubled)
  pending,  \* None, or the authorization in progress
  failure,  \* the remembered result, or None
  disposed,
  opened,   \* windows opened so far
  latched,  \* a failure was remembered and neither reset nor overcome since
  given     \* what the last call or authorization resolved with

silentVars == <<cache, pending, failure, disposed, opened, latched, given>>

\* What a token response may be, and what verifyTokenClaims and its callers
\* make of it: the first fault met decides.
Faults == {"http", "shape", "signature", "nonce", "client", "audience", "subject", "azp", "binding",
           "expired"}
Verdict(faults) ==
  IF faults = {} THEN "ok"
  ELSE IF faults \cap {"http", "shape", "signature", "nonce", "client", "audience"} # {} THEN "error"
  ELSE IF faults \cap {"subject", "azp", "binding"} # {} THEN "account_mismatch"
  ELSE "error"

\* callbackCode: what the redirect may bring instead of a code.
Callbacks == [invalid |-> "error", login_required |-> "login_required",
              consent_required |-> "consent_required", rejected |-> "error"]

Give(status, faults, life) == given' = [status |-> status, faults |-> faults, life |-> life]
Fail(status) == Give(status, {}, 0)
Min2(a, b) == IF a < b THEN a ELSE b

SilentInit ==
  /\ cache = [p \in Products |-> None] /\ pending = [p \in Products |-> None]
  /\ failure = [p \in Products |-> None] /\ disposed = FALSE /\ opened = 0
  /\ latched = [p \in Products |-> FALSE] /\ given = None

\* start, and authorize up to its first wait.
Start(p, interactive) ==
  /\ opened < MaxOpened /\ opened' = opened + 1
  /\ cache' = [cache EXCEPT ![p] = None]
  /\ pending' = [pending EXCEPT ![p] = [interactive |-> interactive, left |-> MaxTime]]
  /\ UNCHANGED <<failure, disposed, latched>>

\* renewAt is not reached.
Current(c) == c # None /\ 2 * c.life > c.margin

GetToken(p) ==
  /\ ~disposed
  /\ IF Current(cache[p])
     THEN Give("ok", cache[p].faults, cache[p].life)
          /\ UNCHANGED <<cache, pending, failure, disposed, opened, latched>>
     ELSE IF pending[p] # None \/ failure[p] # None
     THEN /\ cache' = [cache EXCEPT ![p] = None]
          /\ IF pending[p] = None THEN Fail(failure[p]) ELSE UNCHANGED given
          /\ UNCHANGED <<pending, failure, disposed, opened, latched>>
     ELSE Start(p, FALSE) /\ UNCHANGED given

\* login joins what is pending; popups may be blocked.
SilentLogin(p) ==
  /\ ~disposed /\ pending[p] = None /\ Start(p, TRUE) /\ UNCHANGED given

Invalidate(p) ==
  /\ ~disposed /\ cache' = [cache EXCEPT ![p] = None]
  /\ UNCHANGED <<pending, failure, disposed, opened, latched, given>>

ResetFailure(p) ==
  /\ ~disposed /\ failure' = [failure EXCEPT ![p] = None]
  /\ latched' = [latched EXCEPT ![p] = FALSE]
  /\ UNCHANGED <<cache, pending, disposed, opened, given>>

\* A blocked popup does not replace an earlier failure.
Remember(p, status) ==
  [failure EXCEPT ![p] = IF @ # None /\ status = "popup_blocked" THEN @ ELSE status]

\* min(leeway, lifetime / 2), doubled.
Margin(life) == Min2(2, life)

Settle(p, status, faults, life) ==
  /\ pending[p] # None /\ pending' = [pending EXCEPT ![p] = None]
  /\ Give(status, faults, life)
  /\ IF status = "ok"
     THEN /\ cache' = [cache EXCEPT ![p] =
                         [life |-> life, margin |-> Margin(life), faults |-> faults]]
          /\ failure' = [failure EXCEPT ![p] = None] /\ latched' = [latched EXCEPT ![p] = FALSE]
     ELSE /\ failure' = Remember(p, status) /\ latched' = [latched EXCEPT ![p] = TRUE]
          /\ UNCHANGED cache
  /\ UNCHANGED <<disposed, opened>>

\* exchange and verifyTokenClaims; the callback's refusal; a blocked popup.
SilentAnswered(p) ==
  \/ \E faults \in SUBSET {"nonce", "subject", "binding", "expired"}, life \in 1..MaxLife :
       Settle(p, Verdict(faults), faults, life)
  \/ \E c \in DOMAIN Callbacks : Settle(p, Callbacks[c], {}, 0)
  \/ \E fault \in Faults \ {"expired"} : Settle(p, Verdict({fault}), {}, 0)
  \/ pending[p] # None /\ pending[p].interactive /\ Settle(p, "popup_blocked", {}, 0)

\* The popup was closed, or the flow's time is over.
Aborted(p) ==
  /\ pending[p] # None /\ (pending[p].interactive \/ pending[p].left = 0)
  /\ Settle(p, "login_required", {}, 0)

Dispose ==
  /\ ~disposed /\ disposed' = TRUE
  /\ cache' = [p \in Products |-> None] /\ failure' = [p \in Products |-> None]
  /\ pending' = [p \in Products |-> None]
  /\ IF \E p \in Products : pending[p] # None THEN Fail("disposed") ELSE UNCHANGED given
  /\ UNCHANGED <<opened, latched>>

\* Time passes; a token may expire in the cache, a flow does not outlive its timer.
Tick ==
  /\ \A p \in Products : pending[p] # None => pending[p].left > 0
  /\ cache' = [p \in Products |-> IF cache[p] = None THEN None
                                  ELSE [cache[p] EXCEPT !.life = IF @ > 0 THEN @ - 1 ELSE 0]]
  /\ pending' = [p \in Products |-> IF pending[p] = None THEN None
                                    ELSE [pending[p] EXCEPT !.left = @ - 1]]
  /\ UNCHANGED <<failure, disposed, opened, latched, given>>

SilentNext ==
  \/ \E p \in Products : GetToken(p) \/ SilentLogin(p) \/ Invalidate(p) \/ ResetFailure(p) \/ SilentAnswered(p)
                         \/ Aborted(p)
  \/ Dispose \/ Tick

SilentSpec == SilentInit /\ [][SilentNext]_silentVars

Failures == {"error", "login_required", "consent_required", "account_mismatch", "popup_blocked"}

SilentTypeOK ==
  /\ given # None => given.status \in Failures \union {"ok", "disposed"}
  /\ \A p \in Products : failure[p] \in Failures \union {None}
  /\ disposed => cache = [p \in Products |-> None] /\ failure = cache /\ pending = cache

\* A token that is handed out has time left and no fault in it.
GivenIsGood == given # None /\ given.status = "ok" => given.life > 0 /\ given.faults = {}

\* No frame is opened behind a remembered failure: only a reset, or an
\* interactive login, opens the next window.
NoSilentStorm ==
  \A p \in Products : latched[p] /\ latched'[p] /\ opened' > opened
    => pending'[p] = pending[p] \/ pending'[p].interactive

\* One window per product: what is pending is not replaced.
OneWindow ==
  \A p \in Products : pending[p] # None /\ pending'[p] # None
    => pending'[p].interactive = pending[p].interactive /\ pending'[p].left <= pending[p].left
       /\ opened' - opened <= Cardinality({q \in Products : pending[q] = None})

\* A blocked popup hides no earlier failure, such as a missing consent.
EarlierFailureKept ==
  \A p \in Products : failure[p] \notin {None, "popup_blocked"} => failure'[p] # "popup_blocked"

==============================================================================
