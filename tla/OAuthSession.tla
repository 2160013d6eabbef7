---------------------------- MODULE OAuthSession ----------------------------
(***************************************************************************)
(* OAuthSessionManager of src/oauth/sessionManager.ts: the refresh shared  *)
(* by its callers, the background timer that keeps refreshing, and the     *)
(* switch from one deployment to another while both are in flight.         *)
(*                                                                         *)
(* "ops" are the calls of executeTokenRefresh: reading the stored tokens,  *)
(* posting to the server, storing its answer, then ended with waiters that *)
(* are still to run.  Every await is a point where other actions step in.  *)
(***************************************************************************)
EXTENDS Naturals, FiniteSets

CONSTANTS
  Hosts, None,
  Slots,      \* refreshes in flight at once (a bound of the model)
  Timers,     \* timeouts armed at once, leaked ones included (a bound)
  MaxPending, \* reads, events, switches and refreshes pending when the owner
              \* or another window acts (a bound)
  MaxWaiters, \* background attempts that wait for one refresh (a bound)
  MaxReads    \* overlapping scheduleNextRefresh reads of one host (a bound)

ASSUME OAuthAssumption ==
  /\ None \notin Hosts /\ None \notin Slots /\ None \notin Timers
  /\ MaxReads \in Nat \ {0} /\ MaxPending \in Nat /\ MaxWaiters \in Nat

VARIABLES
  deployment,      \* this.deployment
  stored,          \* secret storage: what is stored for each host
  ops,             \* the calls of executeTokenRefresh
  refreshPromise,  \* the call this.refreshPromise belongs to
  abortController, \* the call this.refreshAbortController belongs to
  refreshTimer,    \* the timeout this.refreshTimer refers to
  timers,          \* the timeouts of the runtime: off, waiting or ready to fire
  listener,        \* host of tokenChangeListener
  tokenEvents,     \* hosts whose change event is still to be handled
  reads,           \* scheduleNextRefresh calls reading the tokens of a host
  setters,         \* calls of setDeployment at an await
  disposed

refreshVars == <<ops, refreshPromise, abortController>>
timerVars   == <<refreshTimer, timers>>
vars == <<deployment, stored, ops, refreshPromise, abortController, refreshTimer,
          timers, listener, tokenEvents, reads, setters, disposed>>

\* No OAuth tokens (nothing, or the token of another login method), or OAuth
\* tokens by the time left to their expiry: beyond the threshold at which they
\* are refreshed, or due for it (expired or not: a choice where it matters).
Stored == {"none", "fresh", "due"}
OAuth  == {"fresh", "due"}

Running == {"reading", "posting", "storing"}
Ended   == {"done", "failed", "reAuth"}

FreeOp   == [pc |-> "free", host |-> None, aborted |-> FALSE, background |-> 0]
OpOf(h)  == [FreeOp EXCEPT !.pc = "reading", !.host = h]

InFlight(i) == ops[i].pc \in Running

Init ==
  /\ deployment \in Hosts \cup {None}
  /\ stored \in [Hosts -> Stored]
  /\ ops = [i \in Slots |-> FreeOp]
  /\ refreshPromise = None /\ abortController = None
  /\ refreshTimer = None /\ timers = [t \in Timers |-> "off"]
  /\ listener = deployment
  /\ tokenEvents = {}
  /\ reads = [h \in Hosts |-> IF h = deployment THEN 1 ELSE 0]
  /\ setters = {}
  /\ disposed = FALSE

-----------------------------------------------------------------------------
(* The methods the handlers share. *)

Store(h, v) ==
  /\ stored' = [stored EXCEPT ![h] = v]
  /\ tokenEvents' = IF listener = h THEN tokenEvents \cup {h} ELSE tokenEvents

ClearTimer ==
  /\ timers' = IF refreshTimer = None THEN timers ELSE [timers EXCEPT ![refreshTimer] = "off"]
  /\ refreshTimer' = None

\* A timeout kept in refreshTimer, in the place of one that may be armed still.
ArmTimer(armed, state) ==
  \E t \in Timers :
    /\ armed[t] = "off"
    /\ timers' = [armed EXCEPT ![t] = state]
    /\ refreshTimer' = t

ClearRefreshState ==
  /\ ops' = IF abortController = None THEN ops
            ELSE [ops EXCEPT ![abortController].aborted = TRUE]
  /\ abortController' = None
  /\ refreshPromise' = None
  /\ ClearTimer
  /\ listener' = None

ScheduleNextRefresh(h) ==
  /\ ClearTimer
  /\ \/ h = None /\ UNCHANGED reads
     \/ h # None /\ reads[h] < MaxReads /\ reads' = [reads EXCEPT ![h] = @ + 1]

\* refreshToken(): shares the refresh in flight or starts one in slot i.
RefreshToken(i, background) ==
  \/ /\ refreshPromise = i
     /\ ops[i].background + background <= MaxWaiters
     /\ ops' = [ops EXCEPT ![i].background = @ + background]
     /\ UNCHANGED <<refreshPromise, abortController>>
  \/ /\ refreshPromise = None
     /\ ops[i].pc = "free"
     /\ deployment # None
     /\ ops' = [ops EXCEPT ![i] = [OpOf(deployment) EXCEPT !.background = background]]
     /\ refreshPromise' = i /\ abortController' = i

\* attemptRefreshWithRetry(): without a deployment refreshToken() throws, and
\* the retry is armed at once.
AttemptRefresh(armed) ==
  \/ disposed /\ timers' = armed /\ UNCHANGED <<refreshVars, refreshTimer>>
  \/ /\ ~disposed
     /\ refreshTimer' = None /\ timers' = armed
     /\ \E i \in Slots : RefreshToken(i, 1)
  \/ /\ ~disposed
     /\ refreshPromise = None /\ deployment = None
     /\ ArmTimer(armed, "ready")
     /\ UNCHANGED refreshVars

\* An ended call is forgotten once its last waiter has run.
Forget(calls, i, waiting) ==
  IF calls[i].background = 0 /\ ~\E s \in waiting : s.on = i
    THEN [calls EXCEPT ![i] = FreeOp] ELSE calls

-----------------------------------------------------------------------------
(* Calls of DeploymentManager and of the interceptor. *)

Setter(h, pc, on) == [host |-> h, pc |-> pc, on |-> on]

\* Nothing looks at disposed: a login in flight while the extension shuts down
\* sets the deployment of a disposed manager.
SetDeployment(h) ==
  /\ h # deployment
  /\ ~\E s \in setters : s.host = h
  /\ deployment' = h
  /\ ClearRefreshState
  /\ setters' = setters \cup {Setter(h, "reading", None)}
  /\ UNCHANGED <<stored, tokenEvents, reads, disposed>>

ClearDeployment ==
  /\ deployment # None
  /\ deployment' = None
  /\ ClearRefreshState
  /\ UNCHANGED <<stored, tokenEvents, reads, setters, disposed>>

Dispose ==
  /\ ~disposed
  /\ disposed' = TRUE
  /\ deployment' = None
  /\ ClearRefreshState
  /\ UNCHANGED <<stored, tokenEvents, reads, setters>>

\* tryOAuthRefresh of the interceptor, after a 401.
ReactiveRefresh ==
  /\ deployment # None
  /\ refreshPromise = None
  /\ stored[deployment] \in OAuth
  /\ \E i \in Slots : RefreshToken(i, 0)
  /\ UNCHANGED <<deployment, stored, timerVars, listener, tokenEvents, reads,
                 setters, disposed>>

\* Mutant: it goes on for the deployment it was called with.
FinishesItsOwn(s) ==
  /\ setters' = setters \ {s}
  /\ listener' = s.host
  /\ ScheduleNextRefresh(s.host)

\* The end of setDeployment: setupTokenListener and scheduleNextRefresh, both
\* for the deployment of that moment.
FinishSetter(s) ==
  /\ setters' = setters \ {s}
  /\ listener' = deployment
  /\ ScheduleNextRefresh(deployment)

\* setDeployment has read the tokens: it waits for a refresh when they have
\* expired, and getStoredTokens throws when the deployment was cleared.
SetterReads(s) ==
  /\ s.pc = "reading"
  /\ \/ /\ deployment = None /\ stored[s.host] \in OAuth
        /\ setters' = setters \ {s}
        /\ UNCHANGED <<refreshVars, timerVars, listener, reads>>
     \/ /\ deployment = s.host /\ stored[s.host] = "due"
        /\ \E i \in Slots :
             /\ RefreshToken(i, 0)
             /\ setters' = (setters \ {s}) \cup {Setter(s.host, "refreshing", i)}
        /\ UNCHANGED <<timerVars, listener, reads>>
     \/ /\ deployment # None \/ stored[s.host] \notin OAuth
        /\ FinishSetter(s)
        /\ UNCHANGED refreshVars
  /\ UNCHANGED <<deployment, stored, tokenEvents, disposed>>

SetterRefreshed(s) ==
  /\ s.pc = "refreshing"
  /\ ops[s.on].pc \in Ended
  /\ FinishSetter(s)
  /\ ops' = Forget(ops, s.on, setters \ {s})
  /\ UNCHANGED <<deployment, stored, refreshPromise, abortController,
                 tokenEvents, disposed>>

-----------------------------------------------------------------------------
(* The background loop. *)

\* scheduleNextRefresh has read the tokens of h.
ReadResolves(h) ==
  /\ reads[h] > 0
  /\ reads' = [reads EXCEPT ![h] = @ - 1]
  /\ \/ /\ deployment # h \/ stored[h] \notin OAuth
        /\ UNCHANGED <<refreshVars, timerVars>>
     \/ /\ deployment = h /\ stored[h] = "due"
        /\ AttemptRefresh(timers)
     \/ /\ deployment = h /\ stored[h] = "fresh"
        /\ ArmTimer(timers, "waiting")
        /\ UNCHANGED refreshVars
  /\ UNCHANGED <<deployment, stored, listener, tokenEvents, setters, disposed>>

TimerFires(t) ==
  /\ timers[t] = "ready"
  /\ AttemptRefresh([timers EXCEPT ![t] = "off"])
  /\ UNCHANGED <<deployment, stored, listener, tokenEvents, reads, setters, disposed>>

(* The then and catch of attemptRefreshWithRetry. *)

AfterBackground(i) == Forget([ops EXCEPT ![i].background = @ - 1], i, setters)

BackgroundSettles(i) ==
  /\ ops[i].pc = "done" \/ (ops[i].pc \in Ended /\ disposed)
  /\ ops' = AfterBackground(i)
  /\ UNCHANGED <<deployment, refreshPromise, abortController, timerVars, listener>>

\* Mutant: a failure is not retried.
GivesUp(i) ==
  /\ ops[i].pc = "failed" /\ ~disposed
  /\ ops' = AfterBackground(i)
  /\ UNCHANGED <<deployment, refreshPromise, abortController, timerVars, listener>>

\* Mutant: disposal is not looked at.
RetriesAlways(i) ==
  /\ ops[i].pc = "failed"
  /\ ops' = AfterBackground(i)
  /\ ArmTimer(timers, "ready")
  /\ UNCHANGED <<deployment, refreshPromise, abortController, listener>>

BackgroundRetries(i) ==
  /\ ops[i].pc = "failed" /\ ~disposed
  /\ ops' = AfterBackground(i)
  /\ ArmTimer(timers, "ready")
  /\ UNCHANGED <<deployment, refreshPromise, abortController, listener>>

\* onAuthRequired suspends the session, which clears the deployment.
BackgroundNeedsLogin(i) ==
  /\ ops[i].pc = "reAuth" /\ ~disposed
  /\ deployment' = None
  /\ ops' = IF abortController = None THEN AfterBackground(i)
            ELSE [AfterBackground(i) EXCEPT ![abortController].aborted = TRUE]
  /\ abortController' = None /\ refreshPromise' = None
  /\ ClearTimer
  /\ listener' = None

BackgroundEnds(i) ==
  /\ ops[i].background > 0
  /\ BackgroundSettles(i) \/ BackgroundRetries(i) \/ BackgroundNeedsLogin(i)
  /\ UNCHANGED <<stored, tokenEvents, reads, setters, disposed>>

-----------------------------------------------------------------------------
(* executeTokenRefresh. *)

\* The finally block: the controller is compared, the promise is not.
End(i, outcome) ==
  /\ ops' = Forget([ops EXCEPT ![i].pc = outcome], i, setters)
  /\ abortController' = IF abortController = i THEN None ELSE abortController
  /\ refreshPromise' = None

RefreshReads(i) ==
  /\ ops[i].pc = "reading"
  /\ \/ /\ deployment = ops[i].host /\ stored[ops[i].host] \in OAuth
        /\ ops' = [ops EXCEPT ![i].pc = "posting"]
        /\ UNCHANGED <<refreshPromise, abortController>>
     \/ /\ deployment # ops[i].host \/ stored[ops[i].host] \notin OAuth
        /\ End(i, "failed")
  /\ UNCHANGED <<deployment, stored, timerVars, listener, tokenEvents, reads,
                 setters, disposed>>

RefreshAnswered(i) ==
  /\ ops[i].pc = "posting"
  /\ ~ops[i].aborted
  /\ ops' = [ops EXCEPT ![i].pc = "storing"]
  /\ Store(ops[i].host, "fresh")
  /\ UNCHANGED <<deployment, refreshPromise, abortController, timerVars, listener,
                 reads, setters, disposed>>

RefreshStored(i) ==
  /\ ops[i].pc = "storing"
  /\ End(i, "done")
  /\ UNCHANGED <<deployment, stored, timerVars, listener, tokenEvents, reads,
                 setters, disposed>>

\* No network, no metadata, an aborted post, or a grant the server refuses.
RefreshFails(i) ==
  /\ ops[i].pc = "posting"
  /\ \E outcome \in IF ops[i].aborted THEN {"failed"} ELSE {"failed", "reAuth"} :
       End(i, outcome)
  /\ UNCHANGED <<deployment, stored, timerVars, listener, tokenEvents, reads,
                 setters, disposed>>

-----------------------------------------------------------------------------
(* Token changes and time. *)

\* The listener's callback runs with the tokens of its host, even when it was
\* disposed while they were read.
TokensChanged(h) ==
  /\ h \in tokenEvents
  /\ tokenEvents' = tokenEvents \ {h}
  /\ \/ /\ stored[h] \in OAuth
        /\ ScheduleNextRefresh(deployment)
        /\ UNCHANGED <<refreshVars, listener>>
     \/ /\ stored[h] \notin OAuth
        /\ ClearRefreshState
        /\ UNCHANGED reads
  /\ UNCHANGED <<deployment, stored, setters, disposed>>

\* A login or a logout in any window, or a refresh by another one.
OtherWindow(h) ==
  /\ \E v \in {"none", "fresh"} : Store(h, v)
  /\ UNCHANGED <<deployment, refreshVars, timerVars, listener, reads, setters, disposed>>

\* Timing assumption: a token is fresh for longer than it takes to store it.
Storing(h) == \E i \in Slots : ops[i].pc = "storing" /\ ops[i].host = h

TimePasses(h) ==
  /\ ~Storing(h)
  /\ stored[h] = "fresh" /\ stored' = [stored EXCEPT ![h] = "due"]
  /\ UNCHANGED <<deployment, refreshVars, timerVars, listener, tokenEvents, reads,
                 setters, disposed>>

\* The delay of a timeout set for a fresh token has passed.  The 5 minutes of a
\* retry are ready at any time.
DelayPasses(t) ==
  /\ ~\E h \in Hosts : Storing(h)
  /\ timers[t] = "waiting" /\ timers' = [timers EXCEPT ![t] = "ready"]
  /\ UNCHANGED <<deployment, stored, refreshVars, refreshTimer, listener, tokenEvents,
                 reads, setters, disposed>>

Calm ==
  Cardinality(setters) + Cardinality(tokenEvents) +
  Cardinality({h \in Hosts : reads[h] > 0}) +
  Cardinality({i \in Slots : ops[i].pc # "free"}) < MaxPending

Owner == (\E h \in Hosts : SetDeployment(h)) \/ ClearDeployment \/ Dispose \/ ReactiveRefresh

Background ==
  \/ \E h \in Hosts : ReadResolves(h) \/ TokensChanged(h)
  \/ \E t \in Timers : DelayPasses(t) \/ TimerFires(t)
  \/ \E i \in Slots : BackgroundEnds(i)
  \/ \E s \in setters : SetterReads(s) \/ SetterRefreshed(s)

Refresh ==
  \E i \in Slots :
    RefreshReads(i) \/ RefreshAnswered(i) \/ RefreshStored(i) \/ RefreshFails(i)

Environment == \E h \in Hosts : OtherWindow(h) \/ TimePasses(h)

Next == (Calm /\ (Owner \/ Environment)) \/ Background \/ Refresh

Spec == Init /\ [][Next]_vars

\* Reads of the storage, timeouts and requests all end.
Fairness ==
  /\ \A h \in Hosts : WF_vars(ReadResolves(h)) /\ WF_vars(TokensChanged(h))
  /\ \A t \in Timers : WF_vars(DelayPasses(t)) /\ WF_vars(TimerFires(t))
  /\ \A i \in Slots : WF_vars(BackgroundEnds(i)) /\
       WF_vars(RefreshReads(i) \/ RefreshAnswered(i) \/ RefreshStored(i) \/ RefreshFails(i))
  /\ WF_vars(\E s \in setters : SetterReads(s) \/ SetterRefreshed(s))

FairSpec == Spec /\ Fairness

-----------------------------------------------------------------------------
TypeOK ==
  /\ deployment \in Hosts \cup {None}
  /\ stored \in [Hosts -> Stored]
  /\ ops \in [Slots -> [pc : {"free"} \cup Running \cup Ended,
                        host : Hosts \cup {None}, aborted : BOOLEAN, background : Nat]]
  /\ refreshPromise \in Slots \cup {None}
  /\ abortController \in Slots \cup {None}
  /\ timers \in [Timers -> {"off", "waiting", "ready"}]
  /\ refreshTimer \in Timers \cup {None}
  /\ ~disposed /\ refreshTimer # None => timers[refreshTimer] # "off"
  /\ listener \in Hosts \cup {None}
  /\ tokenEvents \subseteq Hosts
  /\ reads \in [Hosts -> 0..MaxReads]
  /\ setters \subseteq [host : Hosts, pc : {"reading", "refreshing"},
                        on : Slots \cup {None}]
  /\ disposed \in BOOLEAN

\* A caller that shares a refresh shares one of the deployment in use, which
\* nothing has aborted and which leaving that deployment still can abort.
PromiseIsCurrent ==
  refreshPromise # None =>
    /\ abortController = refreshPromise
    /\ InFlight(refreshPromise)
    /\ ~ops[refreshPromise].aborted
    /\ ops[refreshPromise].host = deployment

\* Overlapping switches leave a listener of the deployment in use or none.
ListenerIsCurrent == listener # None => listener = deployment

\* What is shared, watched and aborted is of the deployment in use.
RefreshFollowsDeployment == TypeOK /\ PromiseIsCurrent /\ ListenerIsCurrent

\* While the tokens of the deployment are watched by a manager in use, something
\* will refresh them in time: the chain of timers, reads and events never breaks.
RefreshLoopAlive ==
  ~disposed /\ listener # None /\ stored[listener] \in OAuth =>
    \/ \E t \in Timers : timers[t] # "off"
    \/ reads[listener] > 0
    \/ listener \in tokenEvents
    \/ \E s \in setters : s.host = listener
    \/ \E i \in Slots : ops[i].background > 0

\* Whatever was in flight, a disposed manager attempts no refresh in the
\* background and arms no retry.  The one timeout it still arms is for a
\* deployment set anew after disposal, and that timeout fires to no effect.
DisposedStaysQuiet ==
  [][disposed =>
       /\ \A i \in Slots : ops'[i].background <= ops[i].background
       /\ \A t \in Timers :
            timers[t] = "off" /\ timers'[t] # "off" =>
              timers'[t] = "waiting" /\ deployment # None]_vars

\* "Uses a shared promise to handle concurrent refresh attempts": two refreshes
\* that nothing aborted are never in flight for one deployment.
SingleFlight ==
  \A i, j \in Slots :
    InFlight(i) /\ InFlight(j) /\ ~ops[i].aborted /\ ~ops[j].aborted => i = j
=============================================================================
