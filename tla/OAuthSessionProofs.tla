------------------------- MODULE OAuthSessionProofs -------------------------
(***************************************************************************)
(* For any deployments and any number of refreshes and timeouts: a refresh *)
(* that is shared and the listener are of the deployment in use, and the   *)
(* chain of timers, reads and events that refreshes its tokens never       *)
(* breaks.  Inv strengthens what the runs check by what keeps the chain    *)
(* whole while a refresh is being stored.                                  *)
(***************************************************************************)
EXTENDS OAuthSession, TLAPS

\* A call of executeTokenRefresh is for a deployment, and who waits for one
\* waits for a call.
CallsHaveHosts ==
  /\ \A i \in Slots : ops[i].pc # "free" => ops[i].host \in Hosts
  /\ \A s \in setters : s.pc = "refreshing" => s.on \in Slots

\* The timing assumption: what is being stored is not due yet.
StoringIsFresh == \A i \in Slots : ops[i].pc = "storing" => stored[ops[i].host] # "due"

\* Something other than a refresh in flight will look at the tokens of h.
WillLook(h) ==
  \/ reads[h] > 0
  \/ h \in tokenEvents
  \/ \E s \in setters : s.host = h
  \/ \E t \in Timers : timers[t] = "waiting"

\* A refresh of h that a background attempt waits for, and whose failure is
\* retried or whose answer will be stored.
Attempted(h) ==
  \E i \in Slots : /\ ops[i].background > 0 /\ ops[i].host = h
                   /\ ops[i].pc \in {"reading", "posting", "failed", "reAuth"}

\* A refresh that is being stored is no longer to be counted on: its waiters
\* end with nothing to do, and a timeout that fires meanwhile joins them.
ChainIsWhole ==
  ~disposed /\ listener # None /\ stored[listener] \in OAuth =>
    \/ WillLook(listener)
    \/ /\ ~Storing(listener)
       /\ (\E t \in Timers : timers[t] = "ready") \/ Attempted(listener)

Inv ==
  /\ TypeOK
  /\ PromiseIsCurrent
  /\ ListenerIsCurrent
  /\ CallsHaveHosts
  /\ StoringIsFresh
  /\ ChainIsWhole

\* What the assumption on the constants gives every proof.
LEMMA Constants ==
  /\ None \notin Hosts /\ None \notin Slots /\ None \notin Timers
  /\ MaxReads \in Nat \ {0} /\ MaxWaiters \in Nat
  BY OAuthAssumption DEF OAuthAssumption

CallRec == [pc : {"free"} \cup Running \cup Ended, host : Hosts \cup {None},
            aborted : BOOLEAN, background : Nat]
SetterRec == [host : Hosts, pc : {"reading", "refreshing"}, on : Slots \cup {None}]

\* The invariant by what each action can disturb: the calls of
\* executeTokenRefresh, the timeouts, and who reads and listens.
CallsOK ==
  /\ deployment \in Hosts \cup {None}
  /\ ops \in [Slots -> CallRec]
  /\ refreshPromise \in Slots \cup {None}
  /\ abortController \in Slots \cup {None}
  /\ PromiseIsCurrent
  /\ \A i \in Slots : ops[i].pc # "free" => ops[i].host \in Hosts

TimersOK ==
  /\ timers \in [Timers -> {"off", "waiting", "ready"}]
  /\ refreshTimer \in Timers \cup {None}
  /\ ~disposed /\ refreshTimer # None => timers[refreshTimer] # "off"

SettersOK ==
  /\ setters \subseteq SetterRec
  /\ \A s \in setters : s.pc = "refreshing" => s.on \in Slots

ReadsOK ==
  /\ listener \in Hosts \cup {None}
  /\ tokenEvents \subseteq Hosts
  /\ reads \in [Hosts -> 0..MaxReads]
  /\ ListenerIsCurrent

LastsOK ==
  /\ stored \in [Hosts -> Stored]
  /\ disposed \in BOOLEAN

LEMMA InvParts ==
  Inv <=> CallsOK /\ TimersOK /\ SettersOK /\ ReadsOK /\ LastsOK
          /\ StoringIsFresh /\ ChainIsWhole
  BY DEF Inv, TypeOK, CallsOK, TimersOK, SettersOK, ReadsOK, LastsOK, CallRec,
         SetterRec, CallsHaveHosts

LEMMA InvPartsNext ==
  Inv' <=> CallsOK' /\ TimersOK' /\ SettersOK' /\ ReadsOK' /\ LastsOK'
           /\ StoringIsFresh' /\ ChainIsWhole'
  BY DEF Inv, TypeOK, CallsOK, TimersOK, SettersOK, ReadsOK, LastsOK, CallRec,
         SetterRec, CallsHaveHosts

-----------------------------------------------------------------------------
\* Forgetting a call frees its slot, when nobody waits for it, and no other.
LEMMA ForgetCall ==
  ASSUME NEW calls \in [Slots -> CallRec], NEW i \in Slots, NEW waiting
  PROVE  /\ Forget(calls, i, waiting) \in [Slots -> CallRec]
         /\ \A j \in Slots \ {i} : Forget(calls, i, waiting)[j] = calls[j]
         /\ \/ Forget(calls, i, waiting)[i] = calls[i]
            \/ /\ Forget(calls, i, waiting)[i].pc = "free"
               /\ Forget(calls, i, waiting)[i].background = 0
               /\ calls[i].background = 0
  <1>1. FreeOp \in CallRec /\ FreeOp.pc = "free" /\ FreeOp.background = 0
    BY DEF FreeOp, CallRec
  <1> QED
    BY <1>1 DEF Forget

\* clearRefreshTimer() keeps the reference right and arms nothing.
LEMMA ClearTimerKeeps ==
  ASSUME TimersOK, ClearTimer
  PROVE  /\ TimersOK' /\ refreshTimer' = None
         /\ \A t \in Timers : timers[t] = "off" => timers'[t] = "off"
  BY Constants DEF TimersOK, ClearTimer

\* A timeout that is armed is one that was off.
LEMMA ArmTimerKeeps ==
  ASSUME NEW armed \in [Timers -> {"off", "waiting", "ready"}],
         NEW state \in {"waiting", "ready"}, ArmTimer(armed, state)
  PROVE  /\ TimersOK'
         /\ \E t \in Timers : timers'[t] = state
         /\ \A t \in Timers : armed[t] # "off" => timers'[t] = armed[t]
  BY DEF ArmTimer, TimersOK

\* refreshToken() hands out the one refresh of the deployment in use: it was in
\* flight before, or starts by reading.
LEMMA RefreshTokenKeeps ==
  ASSUME CallsOK, NEW i \in Slots, NEW b \in {0, 1}, RefreshToken(i, b),
         UNCHANGED deployment
  PROVE  /\ CallsOK'
         /\ deployment \in Hosts
         /\ ops'[i].pc \in Running /\ ops'[i].host = deployment
         /\ ops'[i].pc = "storing" => ops[i].pc = "storing" /\ ops[i].host = deployment
         /\ ops[i].pc # "free" =>
              ops'[i].pc = ops[i].pc /\ ops'[i].host = ops[i].host
              /\ ops'[i].background >= ops[i].background
         /\ b = 1 => ops'[i].background > 0
         /\ \A j \in Slots \ {i} : ops'[j] = ops[j]
  <1>0. /\ ops \in [Slots -> CallRec] /\ ops[i] \in CallRec /\ i # None
        /\ b \in Nat /\ deployment \in Hosts \cup {None}
    BY Constants DEF CallsOK
  <1>1. CASE /\ refreshPromise = i
             /\ ops' = [ops EXCEPT ![i].background = @ + b]
             /\ UNCHANGED <<refreshPromise, abortController>>
    <2>1. /\ ops[i].pc \in Running /\ ~ops[i].aborted /\ ops[i].host = deployment
          /\ ops[i].host \in Hosts /\ abortController = i
      BY <1>0, <1>1 DEF CallsOK, PromiseIsCurrent, InFlight, Running
    <2>2. /\ ops'[i] \in CallRec
          /\ ops'[i].pc = ops[i].pc /\ ops'[i].host = ops[i].host
          /\ ops'[i].aborted = ops[i].aborted
          /\ ops'[i].background = ops[i].background + b
      BY <1>0, <1>1 DEF CallRec
    <2>3. ops' \in [Slots -> CallRec] /\ \A j \in Slots \ {i} : ops'[j] = ops[j]
      BY <1>0, <1>1, <2>2
    <2>4. ops[i].background \in Nat /\ ops'[i].background >= ops[i].background
          /\ (b = 1 => ops'[i].background > 0)
      BY <1>0, <2>2 DEF CallRec
    <2>5. CallsOK'
      BY <1>0, <1>1, <2>1, <2>2, <2>3 DEF CallsOK, PromiseIsCurrent, InFlight
    <2> QED
      BY <1>0, <2>1, <2>2, <2>3, <2>4, <2>5
  <1>2. CASE /\ refreshPromise = None /\ ops[i].pc = "free" /\ deployment # None
             /\ ops' = [ops EXCEPT ![i] = [OpOf(deployment) EXCEPT !.background = b]]
             /\ refreshPromise' = i /\ abortController' = i
    <2> DEFINE call == [OpOf(deployment) EXCEPT !.background = b]
    <2>1. /\ call \in CallRec
          /\ call.pc = "reading" /\ call.host = deployment /\ ~call.aborted
          /\ call.background = b
      BY <1>0 DEF OpOf, FreeOp, CallRec, Running
    <2> HIDE DEF call
    <2>2. /\ ops'[i] = call /\ ops' \in [Slots -> CallRec]
          /\ \A j \in Slots \ {i} : ops'[j] = ops[j]
      BY <1>0, <1>2, <2>1 DEF call
    <2>3. "reading" \in Running /\ "reading" # "storing"
      BY DEF Running
    <2>4. CallsOK'
      BY <1>0, <1>2, <2>1, <2>2, <2>3 DEF CallsOK, PromiseIsCurrent, InFlight
    <2>5. ops'[i].background = b /\ (b = 1 => ops'[i].background > 0)
      BY <2>1, <2>2
    <2>6. ops'[i].pc = "reading" /\ ops'[i].host = deployment /\ deployment \in Hosts
      BY <1>0, <1>2, <2>1, <2>2
    <2> QED
      BY <1>2, <2>2, <2>3, <2>4, <2>5, <2>6
  <1> QED
    BY <1>1, <1>2 DEF RefreshToken

-----------------------------------------------------------------------------
\* Leaving a deployment takes the shared refresh, the timeout and the listener
\* along: nothing is left to keep alive.
LEMMA ClearRefreshStateKeeps ==
  ASSUME Inv, ClearRefreshState, deployment' \in Hosts \cup {None},
         disposed' \in BOOLEAN,
         UNCHANGED <<stored, reads>>, tokenEvents' \subseteq Hosts, SettersOK'
  PROVE  Inv'
  <1>1. CallsOK /\ TimersOK /\ ReadsOK /\ LastsOK /\ StoringIsFresh
    BY InvParts
  <1>2. /\ ops' = IF abortController = None THEN ops
                  ELSE [ops EXCEPT ![abortController].aborted = TRUE]
        /\ abortController' = None /\ refreshPromise' = None /\ listener' = None
        /\ ClearTimer
    BY DEF ClearRefreshState
  <1>3. /\ ops' \in [Slots -> CallRec]
        /\ \A i \in Slots : ops'[i].pc = ops[i].pc /\ ops'[i].host = ops[i].host
    <2>1. CASE abortController = None
      BY <1>1, <1>2, <2>1 DEF CallsOK
    <2>2. CASE abortController # None
      <3>1. abortController \in Slots /\ ops \in [Slots -> CallRec]
        BY <1>1, <2>2 DEF CallsOK
      <3>2. ops' = [ops EXCEPT ![abortController].aborted = TRUE]
        BY <1>2, <2>2
      <3> QED
        BY <3>1, <3>2 DEF CallRec
    <2> QED
      BY <2>1, <2>2
  <1>4. CallsOK'
    BY <1>1, <1>2, <1>3 DEF CallsOK, PromiseIsCurrent
  <1>5. TimersOK' /\ refreshTimer' = None
    BY <1>1, <1>2, ClearTimerKeeps
  <1>6. ReadsOK' /\ LastsOK'
    BY <1>1, <1>2, <1>5 DEF ReadsOK, ListenerIsCurrent, LastsOK
  <1>7. StoringIsFresh'
    BY <1>1, <1>3 DEF StoringIsFresh
  <1>8. ChainIsWhole'
    BY <1>2 DEF ChainIsWhole
  <1> QED
    BY <1>4, <1>5, <1>6, <1>7, <1>8, InvPartsNext

\* scheduleNextRefresh() for the deployment in use looks at its tokens anew.
LEMMA ScheduleKeeps ==
  ASSUME Inv, ScheduleNextRefresh(deployment), UNCHANGED <<deployment, stored, disposed>>,
         CallsOK', SettersOK', StoringIsFresh', tokenEvents' \subseteq Hosts,
         listener' = listener \/ listener' = deployment
  PROVE  Inv'
  <1>1. CallsOK /\ TimersOK /\ ReadsOK /\ LastsOK
    BY InvParts
  <1>2. TimersOK' /\ refreshTimer' = None
    BY <1>1, ClearTimerKeeps DEF ScheduleNextRefresh
  <1>3. deployment \in Hosts \cup {None}
    BY <1>1 DEF CallsOK
  <1>4. reads' \in [Hosts -> 0..MaxReads] /\ (deployment # None => reads'[deployment] > 0)
    <2>1. CASE deployment = None
      BY <1>1, <2>1 DEF ScheduleNextRefresh, ReadsOK
    <2>2. CASE deployment # None
      <3>1. /\ deployment \in Hosts /\ reads[deployment] < MaxReads
            /\ reads' = [reads EXCEPT ![deployment] = @ + 1]
            /\ reads \in [Hosts -> 0..MaxReads]
        BY <1>1, <1>3, <2>2 DEF ScheduleNextRefresh, ReadsOK
      <3>2. reads[deployment] \in 0..MaxReads
        BY <3>1
      <3> QED
        BY <3>1, <3>2, Constants
    <2> QED
      BY <2>1, <2>2
  <1>5. ReadsOK'
    BY <1>1, <1>3, <1>4 DEF ReadsOK, ListenerIsCurrent
  <1>6. LastsOK'
    BY <1>1, <1>2 DEF LastsOK
  <1>7. ChainIsWhole'
    BY <1>1, <1>4 DEF ChainIsWhole, WillLook, ReadsOK, ListenerIsCurrent
  <1> QED
    BY <1>2, <1>5, <1>6, <1>7, InvPartsNext

\* attemptRefreshWithRetry() waits for a refresh of the deployment in use, which
\* is not being stored yet unless something else will look at the tokens.
LEMMA AttemptKeeps ==
  ASSUME Inv, NEW armed \in [Timers -> {"off", "waiting", "ready"}], AttemptRefresh(armed),
         UNCHANGED <<deployment, stored, listener, tokenEvents, setters, disposed>>,
         reads' \in [Hosts -> 0..MaxReads],
         ~disposed /\ listener # None /\ stored[listener] \in OAuth =>
           \/ reads'[listener] > 0 \/ listener \in tokenEvents
           \/ \E s \in setters : s.host = listener
           \/ \E t \in Timers : armed[t] = "waiting"
           \/ ~Storing(listener)
  PROVE  Inv'
  <1>1. /\ CallsOK /\ TimersOK /\ SettersOK /\ ReadsOK /\ LastsOK /\ StoringIsFresh
        /\ listener # None => listener = deployment
    BY InvParts DEF ReadsOK, ListenerIsCurrent, LastsOK
  <1>2. SettersOK' /\ ReadsOK'
    BY <1>1 DEF SettersOK, ReadsOK, ListenerIsCurrent
  <1>3. CASE disposed /\ timers' = armed /\ UNCHANGED <<refreshVars, refreshTimer>>
    <2>1. CallsOK' /\ StoringIsFresh'
      BY <1>1, <1>3 DEF refreshVars, CallsOK, PromiseIsCurrent, InFlight, StoringIsFresh
    <2>2. TimersOK' /\ LastsOK'
      BY <1>1, <1>3 DEF TimersOK, LastsOK
    <2>3. ChainIsWhole'
      BY <1>1, <1>3 DEF ChainIsWhole
    <2> QED
      BY <1>2, <2>1, <2>2, <2>3, InvPartsNext
  <1>4. ASSUME ~disposed, refreshTimer' = None, timers' = armed,
               NEW i \in Slots, RefreshToken(i, 1)
        PROVE  Inv'
    <2>1. /\ CallsOK'
          /\ deployment \in Hosts
          /\ ops'[i].pc \in Running /\ ops'[i].host = deployment
          /\ ops'[i].pc = "storing" => ops[i].pc = "storing" /\ ops[i].host = deployment
          /\ ops'[i].background > 0
          /\ \A j \in Slots \ {i} : ops'[j] = ops[j]
      BY <1>1, <1>4, RefreshTokenKeeps
    <2>2. StoringIsFresh'
      BY <1>1, <2>1 DEF StoringIsFresh
    <2>3. TimersOK' /\ LastsOK'
      BY <1>1, <1>4 DEF TimersOK, LastsOK
    <2>4. ChainIsWhole'
      <3> SUFFICES ASSUME ~disposed, listener # None, stored[listener] \in OAuth, ~WillLook(listener)'
                   PROVE  ~Storing(listener)' /\ Attempted(listener)'
        BY DEF ChainIsWhole
      <3>1. ~Storing(listener) /\ listener = deployment
        BY <1>1, <1>4 DEF WillLook
      <3>2. ops'[i].pc # "storing"
        BY <2>1, <3>1 DEF Storing
      <3>3. ops'[i].pc \in {"reading", "posting"}
        BY <2>1, <3>2 DEF Running
      <3> QED
        BY <2>1, <3>1, <3>2, <3>3 DEF Storing, Attempted
    <2> QED
      BY <1>2, <2>1, <2>2, <2>3, <2>4, InvPartsNext
  <1>5. CASE /\ ~disposed /\ deployment = None
             /\ ArmTimer(armed, "ready") /\ UNCHANGED refreshVars
    <2>1. TimersOK'
      BY <1>5, ArmTimerKeeps
    <2>2. CallsOK' /\ StoringIsFresh'
      BY <1>1, <1>5 DEF refreshVars, CallsOK, PromiseIsCurrent, InFlight, StoringIsFresh
    <2>3. LastsOK'
      BY <1>1, <1>5 DEF LastsOK
    <2>4. ChainIsWhole'
      BY <1>1, <1>5 DEF ChainIsWhole
    <2> QED
      BY <1>2, <2>1, <2>2, <2>3, <2>4, InvPartsNext
  <1> QED
    BY <1>3, <1>4, <1>5 DEF AttemptRefresh

\* A step in which only calls of executeTokenRefresh change keeps the chain when
\* each that counts still does, and none is newly being stored.
LEMMA CallsChange ==
  ASSUME Inv, CallsOK',
         UNCHANGED <<stored, timers, listener, tokenEvents, reads, disposed>>,
         \A s \in setters : \E r \in setters' : r.host = s.host,
         \A i \in Slots :
           /\ ops'[i].pc = "storing" => ops[i].pc = "storing" /\ ops'[i].host = ops[i].host
           /\ /\ ops[i].background > 0
              /\ ops[i].pc \in {"reading", "posting", "failed", "reAuth"}
              => /\ ops'[i].background > 0 /\ ops'[i].host = ops[i].host
                 /\ ops'[i].pc \in {"reading", "posting", "failed", "reAuth"}
  PROVE  StoringIsFresh' /\ ChainIsWhole'
  <1>1. StoringIsFresh'
    BY DEF Inv, StoringIsFresh
  <1>2. /\ WillLook(listener) => WillLook(listener)'
        /\ Storing(listener)' => Storing(listener)
        /\ Attempted(listener) => Attempted(listener)'
    BY DEF WillLook, Storing, Attempted
  <1> QED
    BY <1>1, <1>2 DEF Inv, ChainIsWhole

\* The finally block ends a call: it is forgotten, or its waiters learn the
\* outcome, which is success only of what was being stored.
LEMMA EndKeeps ==
  ASSUME Inv, NEW i \in Slots, ops[i].pc \in Running, NEW outcome \in Ended,
         outcome = "done" => ops[i].pc = "storing", End(i, outcome),
         UNCHANGED <<deployment, stored, timerVars, listener, tokenEvents, reads,
                     setters, disposed>>
  PROVE  Inv'
  <1>1. CallsOK /\ TimersOK /\ SettersOK /\ ReadsOK /\ LastsOK
    BY InvParts
  <1> DEFINE calls == [ops EXCEPT ![i].pc = outcome]
  <1>2. ops \in [Slots -> CallRec] /\ ops[i] \in CallRec /\ ops[i].pc # "free"
    BY <1>1 DEF CallsOK, Running
  <1>3. /\ calls \in [Slots -> CallRec]
        /\ calls[i].pc = outcome /\ calls[i].host = ops[i].host
        /\ calls[i].background = ops[i].background
        /\ \A j \in Slots \ {i} : calls[j] = ops[j]
    BY <1>2 DEF CallRec
  <1> HIDE DEF calls
  <1>4. /\ ops' \in [Slots -> CallRec]
        /\ \A j \in Slots \ {i} : ops'[j] = ops[j]
        /\ \/ ops'[i] = calls[i]
           \/ ops'[i].pc = "free" /\ ops'[i].background = 0 /\ calls[i].background = 0
    <2>1. ops' = Forget(calls, i, setters)
      BY DEF End, calls
    <2> QED
      BY <1>3, <2>1, ForgetCall
  <1>5. CallsOK'
    <2>1. refreshPromise' = None /\ abortController' \in Slots \cup {None}
      BY <1>1 DEF End, CallsOK
    <2> QED
      BY <1>1, <1>2, <1>3, <1>4, <2>1 DEF CallsOK, PromiseIsCurrent
  <1>6. StoringIsFresh' /\ ChainIsWhole'
    <2>1. outcome \notin {"storing", "free"}
          /\ (outcome \in {"failed", "reAuth"} \/ outcome = "done")
      BY DEF Ended
    <2>2. ops[i].background \in Nat
      BY <1>2 DEF CallRec
    <2>3. \A j \in Slots :
           /\ ops'[j].pc = "storing" => ops[j].pc = "storing" /\ ops'[j].host = ops[j].host
           /\ /\ ops[j].background > 0
              /\ ops[j].pc \in {"reading", "posting", "failed", "reAuth"}
              => /\ ops'[j].background > 0 /\ ops'[j].host = ops[j].host
                 /\ ops'[j].pc \in {"reading", "posting", "failed", "reAuth"}
      BY <1>3, <1>4, <2>1, <2>2
    <2> QED
      BY <1>5, <2>3, CallsChange DEF timerVars
  <1>7. TimersOK' /\ SettersOK' /\ ReadsOK' /\ LastsOK'
    BY <1>1 DEF timerVars, TimersOK, SettersOK, ReadsOK, ListenerIsCurrent, LastsOK
  <1> QED
    BY <1>5, <1>6, <1>7, InvPartsNext

\* What is stored is announced to the listener, who will look at it.
LEMMA StoreKeeps ==
  ASSUME Inv, CallsOK', NEW h \in Hosts, NEW v \in {"none", "fresh"}, Store(h, v),
         UNCHANGED <<deployment, timerVars, listener, reads, setters, disposed>>,
         \A i \in Slots :
           \/ ops'[i] = ops[i]
           \/ ops[i].host = h /\ ops'[i].host = h /\ v = "fresh"
  PROVE  Inv'
  <1>1. CallsOK /\ TimersOK /\ SettersOK /\ ReadsOK /\ LastsOK /\ StoringIsFresh
        /\ ChainIsWhole
    BY InvParts
  <1>2. /\ stored' = [stored EXCEPT ![h] = v] /\ stored \in [Hosts -> Stored]
        /\ tokenEvents' = IF listener = h THEN tokenEvents \cup {h} ELSE tokenEvents
        /\ tokenEvents \subseteq Hosts /\ listener \in Hosts \cup {None}
        /\ v \in Stored /\ v # "due"
    BY <1>1 DEF Store, LastsOK, ReadsOK, Stored
  <1>3. TimersOK' /\ SettersOK' /\ ReadsOK' /\ LastsOK'
    <2>1. tokenEvents' \subseteq Hosts /\ stored' \in [Hosts -> Stored]
      BY <1>2
    <2> QED
      BY <1>1, <2>1 DEF timerVars, TimersOK, SettersOK, ReadsOK, ListenerIsCurrent,
                        LastsOK
  <1>4. StoringIsFresh'
    <2> SUFFICES ASSUME NEW i \in Slots, ops'[i].pc = "storing"
                 PROVE  stored'[ops'[i].host] # "due"
      BY DEF StoringIsFresh
    <2>1. ops'[i].host \in Hosts
      BY DEF CallsOK
    <2> QED
      BY <1>1, <1>2, <2>1 DEF StoringIsFresh
  <1>5. ChainIsWhole'
    <2> SUFFICES ASSUME ~disposed, listener # None, stored'[listener] \in OAuth
                 PROVE  \/ WillLook(listener)'
                        \/ /\ ~Storing(listener)'
                           /\ (\E t \in Timers : timers'[t] = "ready") \/ Attempted(listener)'
      BY DEF ChainIsWhole
    <2>1. CASE listener = h
      BY <1>2, <2>1 DEF WillLook
    <2>2. CASE listener # h
      <3>1. stored[listener] \in OAuth
        BY <1>2, <2>2
      <3>2. \A i \in Slots : ops[i].host = listener \/ ops'[i].host = listener =>
                               ops'[i] = ops[i]
        BY <2>2
      <3>3. /\ WillLook(listener) => WillLook(listener)'
            /\ Storing(listener)' => Storing(listener)
            /\ Attempted(listener) => Attempted(listener)'
        BY <1>2, <3>2 DEF WillLook, Storing, Attempted, timerVars
      <3> QED
        BY <1>1, <3>1, <3>3 DEF ChainIsWhole, timerVars
    <2> QED
      BY <2>1, <2>2
  <1> QED
    BY <1>3, <1>4, <1>5, InvPartsNext

LEMMA InitInv == Init => Inv
  <1> SUFFICES ASSUME Init PROVE Inv
    OBVIOUS
  <1>1. FreeOp \in CallRec /\ FreeOp.pc = "free" /\ FreeOp.background = 0
    BY DEF FreeOp, CallRec
  <1>2. CallsOK /\ StoringIsFresh
    BY <1>1 DEF Init, CallsOK, PromiseIsCurrent, StoringIsFresh
  <1>3. TimersOK /\ SettersOK /\ LastsOK
    BY Constants DEF Init, TimersOK, SettersOK, LastsOK
  <1>4. reads \in [Hosts -> 0..MaxReads] /\ (listener # None => reads[listener] > 0)
    BY Constants DEF Init
  <1>5. ReadsOK /\ ChainIsWhole
    BY <1>4 DEF Init, ReadsOK, ListenerIsCurrent, ChainIsWhole, WillLook
  <1> QED
    BY <1>2, <1>3, <1>5, InvParts

-----------------------------------------------------------------------------
\* The calls of DeploymentManager and of the interceptor.
LEMMA OwnerInv == Inv /\ Owner => Inv'
  <1> SUFFICES ASSUME Inv, Owner PROVE Inv'
    OBVIOUS
  <1>0. CallsOK /\ TimersOK /\ SettersOK /\ ReadsOK /\ LastsOK
    BY InvParts
  <1>1. ASSUME NEW h \in Hosts, SetDeployment(h) PROVE Inv'
    <2> DEFINE r == Setter(h, "reading", None)
    <2>0. r \in SetterRec /\ r.pc = "reading"
      BY DEF Setter, SetterRec
    <2>1. SettersOK'
      BY <1>0, <1>1, <2>0 DEF SetDeployment, SettersOK
    <2> QED
      BY <1>0, <1>1, <2>1, ClearRefreshStateKeeps DEF SetDeployment, ReadsOK, LastsOK
  <1>2. CASE ClearDeployment
    <2>1. SettersOK'
      BY <1>0, <1>2 DEF ClearDeployment, SettersOK
    <2> QED
      BY <1>0, <1>2, <2>1, ClearRefreshStateKeeps DEF ClearDeployment, ReadsOK, LastsOK
  <1>3. CASE Dispose
    <2>1. SettersOK'
      BY <1>0, <1>3 DEF Dispose, SettersOK
    <2> QED
      BY <1>0, <1>3, <2>1, ClearRefreshStateKeeps DEF Dispose, ReadsOK
  <1>4. CASE ReactiveRefresh
    <2>1. PICK i \in Slots : RefreshToken(i, 0)
      BY <1>4 DEF ReactiveRefresh
    <2>2. UNCHANGED <<deployment, stored, timerVars, listener, tokenEvents, reads,
                      setters, disposed>>
      BY <1>4 DEF ReactiveRefresh
    <2>3. /\ CallsOK'
          /\ ops'[i].pc = "storing" => ops[i].pc = "storing" /\ ops[i].host = deployment
          /\ ops'[i].pc \in Running /\ ops'[i].host = deployment
          /\ ops[i].pc # "free" =>
               ops'[i].pc = ops[i].pc /\ ops'[i].host = ops[i].host
               /\ ops'[i].background >= ops[i].background
          /\ \A j \in Slots \ {i} : ops'[j] = ops[j]
      BY <1>0, <2>1, <2>2, RefreshTokenKeeps
    <2>4. ops[i].background \in Nat /\ ops'[i].background \in Nat
      BY <1>0, <2>3 DEF CallsOK, CallRec
    <2>5. StoringIsFresh' /\ ChainIsWhole'
      BY <2>2, <2>3, <2>4, CallsChange DEF timerVars
    <2>6. TimersOK' /\ SettersOK' /\ ReadsOK' /\ LastsOK'
      BY <1>0, <2>2 DEF timerVars, TimersOK, SettersOK, ReadsOK, ListenerIsCurrent,
                        LastsOK
    <2> QED
      BY <2>3, <2>5, <2>6, InvPartsNext
  <1> QED
    BY <1>1, <1>2, <1>3, <1>4 DEF Owner

\* The continuations of setDeployment.
LEMMA SetterInv ==
  ASSUME Inv, NEW s \in setters, SetterReads(s) \/ SetterRefreshed(s)
  PROVE  Inv'
  <1>0. /\ CallsOK /\ TimersOK /\ SettersOK /\ ReadsOK /\ LastsOK /\ StoringIsFresh
        /\ s \in SetterRec /\ (s.pc = "refreshing" => s.on \in Slots)
    BY InvParts DEF SettersOK
  <1>1. ASSUME deployment = None, setters' = setters \ {s},
               UNCHANGED <<deployment, stored, tokenEvents, disposed, refreshVars,
                           timerVars, listener, reads>>
        PROVE  Inv'
    <2>1. /\ CallsOK' /\ TimersOK' /\ SettersOK' /\ ReadsOK' /\ LastsOK'
          /\ StoringIsFresh'
      BY <1>0, <1>1 DEF refreshVars, timerVars, CallsOK, PromiseIsCurrent, InFlight,
                        TimersOK, SettersOK, ReadsOK, ListenerIsCurrent, LastsOK, StoringIsFresh
    <2>2. ChainIsWhole'
      BY <1>0, <1>1 DEF ChainIsWhole, ReadsOK, ListenerIsCurrent
    <2> QED
      BY <2>1, <2>2, InvPartsNext
  <1>2. ASSUME NEW i \in Slots, RefreshToken(i, 0),
               setters' = (setters \ {s}) \cup {Setter(s.host, "refreshing", i)},
               UNCHANGED <<deployment, stored, tokenEvents, disposed, timerVars,
                           listener, reads>>
        PROVE  Inv'
    <2>1. /\ CallsOK'
          /\ ops'[i].pc = "storing" => ops[i].pc = "storing" /\ ops[i].host = deployment
          /\ ops'[i].pc \in Running /\ ops'[i].host = deployment
          /\ ops[i].pc # "free" =>
               ops'[i].pc = ops[i].pc /\ ops'[i].host = ops[i].host
               /\ ops'[i].background >= ops[i].background
          /\ \A j \in Slots \ {i} : ops'[j] = ops[j]
      BY <1>0, <1>2, RefreshTokenKeeps
    <2>2. ops[i].background \in Nat /\ ops'[i].background \in Nat
      BY <1>0, <2>1 DEF CallsOK, CallRec
    <2> DEFINE r == Setter(s.host, "refreshing", i)
    <2>3. r \in SetterRec /\ r.host = s.host /\ r.on = i
      BY <1>0 DEF Setter, SetterRec
    <2> HIDE DEF r
    <2>4. setters' = (setters \ {s}) \cup {r}
      BY <1>2 DEF r
    <2>5. SettersOK' /\ \A q \in setters : \E p \in setters' : p.host = q.host
      BY <1>0, <2>3, <2>4 DEF SettersOK
    <2>6. StoringIsFresh' /\ ChainIsWhole'
      BY <1>2, <2>1, <2>2, <2>5, CallsChange DEF timerVars
    <2>7. TimersOK' /\ ReadsOK' /\ LastsOK'
      BY <1>0, <1>2 DEF timerVars, TimersOK, ReadsOK, ListenerIsCurrent, LastsOK
    <2> QED
      BY <2>1, <2>5, <2>6, <2>7, InvPartsNext
  <1>3. ASSUME FinishSetter(s), CallsOK', StoringIsFresh',
               UNCHANGED <<deployment, stored, tokenEvents, disposed>>
        PROVE  Inv'
    <2>1. SettersOK' /\ tokenEvents' \subseteq Hosts
      BY <1>0, <1>3 DEF FinishSetter, SettersOK, ReadsOK
    <2> QED
      BY <1>3, <2>1, ScheduleKeeps DEF FinishSetter
  <1>4. CASE SetterReads(s)
    <2>1. UNCHANGED <<deployment, stored, tokenEvents, disposed>>
      BY <1>4 DEF SetterReads
    <2>2. ASSUME UNCHANGED refreshVars PROVE CallsOK' /\ StoringIsFresh'
      BY <1>0, <2>1, <2>2 DEF refreshVars, CallsOK, PromiseIsCurrent, InFlight,
                              StoringIsFresh
    <2> QED
      BY <1>1, <1>2, <1>3, <1>4, <2>1, <2>2 DEF SetterReads
  <1>5. CASE SetterRefreshed(s)
    <2>1. /\ s.on \in Slots /\ ops[s.on].pc \in Ended /\ FinishSetter(s)
          /\ ops' = Forget(ops, s.on, setters \ {s})
          /\ UNCHANGED <<deployment, stored, refreshPromise, abortController,
                         tokenEvents, disposed>>
      BY <1>0, <1>5 DEF SetterRefreshed
    <2>2. /\ ops' \in [Slots -> CallRec]
          /\ \A j \in Slots \ {s.on} : ops'[j] = ops[j]
          /\ ops'[s.on] = ops[s.on] \/ ops'[s.on].pc = "free"
      BY <1>0, <2>1, ForgetCall DEF CallsOK
    <2>3. refreshPromise # s.on
      BY <1>0, <2>1, Constants DEF CallsOK, PromiseIsCurrent, InFlight, Running, Ended
    <2>4. CallsOK'
      BY <1>0, <2>1, <2>2, <2>3 DEF CallsOK, PromiseIsCurrent, InFlight
    <2>5. StoringIsFresh'
      BY <1>0, <2>1, <2>2 DEF StoringIsFresh
    <2> QED
      BY <1>3, <2>1, <2>4, <2>5
  <1> QED
    BY <1>4, <1>5

\* The background loop.
LEMMA BackgroundInv == Inv /\ Background => Inv'
  <1> SUFFICES ASSUME Inv, Background PROVE Inv'
    OBVIOUS
  <1>0. /\ CallsOK /\ TimersOK /\ SettersOK /\ ReadsOK /\ LastsOK /\ StoringIsFresh
        /\ ChainIsWhole
        /\ listener # None => listener = deployment
        /\ ops \in [Slots -> CallRec]
        /\ timers \in [Timers -> {"off", "waiting", "ready"}]
        /\ reads \in [Hosts -> 0..MaxReads] /\ listener \in Hosts \cup {None}
        /\ stored \in [Hosts -> Stored]
    BY InvParts DEF ReadsOK, ListenerIsCurrent, LastsOK, CallsOK, TimersOK
  <1>1. ASSUME UNCHANGED <<deployment, stored, listener, tokenEvents, setters, disposed>>,
                UNCHANGED refreshVars, reads' \in [Hosts -> 0..MaxReads]
         PROVE  CallsOK' /\ SettersOK' /\ ReadsOK' /\ StoringIsFresh'
    BY <1>0, <1>1 DEF refreshVars, CallsOK, PromiseIsCurrent, InFlight, SettersOK,
                       ReadsOK, ListenerIsCurrent, StoringIsFresh
  <1>2. ASSUME NEW h \in Hosts, ReadResolves(h) PROVE Inv'
    <2>1. /\ reads[h] > 0 /\ reads' = [reads EXCEPT ![h] = @ - 1]
          /\ UNCHANGED <<deployment, stored, listener, tokenEvents, setters, disposed>>
      BY <1>2 DEF ReadResolves
    <2>2. /\ reads[h] \in 0..MaxReads /\ reads' \in [Hosts -> 0..MaxReads]
          /\ \A g \in Hosts : g # h => reads'[g] = reads[g]
      <3>1. reads[h] \in 0..MaxReads
        BY <1>0
      <3> QED
        BY <1>0, <2>1, <3>1, Constants
    <2>3. CASE /\ deployment # h \/ stored[h] \notin OAuth
               /\ UNCHANGED <<refreshVars, timerVars>>
      <3>1. TimersOK' /\ LastsOK'
        BY <1>0, <2>1, <2>3 DEF timerVars, TimersOK, LastsOK
      <3>2. ChainIsWhole'
        <4> SUFFICES ASSUME ~disposed, listener # None, stored[listener] \in OAuth
                     PROVE  \/ WillLook(listener)'
                            \/ /\ ~Storing(listener)'
                               /\ (\E t \in Timers : timers'[t] = "ready")
                                    \/ Attempted(listener)'
          BY <2>1 DEF ChainIsWhole
        <4>1. listener # h /\ listener \in Hosts
          BY <1>0, <2>3
        <4>2. /\ WillLook(listener) => WillLook(listener)'
              /\ Storing(listener)' <=> Storing(listener)
              /\ Attempted(listener)' <=> Attempted(listener)
          BY <2>1, <2>2, <2>3, <4>1
          DEF refreshVars, timerVars, WillLook, Storing, Attempted
        <4> QED
          BY <1>0, <2>3, <4>2 DEF ChainIsWhole, timerVars
      <3> QED
        BY <1>1, <2>1, <2>2, <2>3, <3>1, <3>2, InvPartsNext
    <2>4. CASE deployment = h /\ stored[h] = "due" /\ AttemptRefresh(timers)
      <3>1. ~Storing(h)
        BY <1>0, <2>4 DEF StoringIsFresh, Storing
      <3> QED
        BY <1>0, <2>1, <2>2, <2>4, <3>1, AttemptKeeps
    <2>5. CASE deployment = h /\ stored[h] = "fresh"
               /\ ArmTimer(timers, "waiting") /\ UNCHANGED refreshVars
      <3>1. TimersOK' /\ \E t \in Timers : timers'[t] = "waiting"
        BY <1>0, <2>5, ArmTimerKeeps
      <3>2. LastsOK'
        BY <1>0, <2>1, <2>5, Constants DEF LastsOK
      <3>3. ChainIsWhole'
        BY <2>1, <3>1 DEF ChainIsWhole, WillLook
      <3> QED
        BY <1>1, <2>1, <2>2, <2>5, <3>1, <3>2, <3>3, InvPartsNext
    <2> QED
      BY <1>2, <2>3, <2>4, <2>5 DEF ReadResolves
  <1>3. ASSUME NEW t \in Timers, TimerFires(t) PROVE Inv'
    <2> DEFINE armed == [timers EXCEPT ![t] = "off"]
    <2>1. /\ timers[t] = "ready" /\ AttemptRefresh(armed)
          /\ UNCHANGED <<deployment, stored, listener, tokenEvents, reads, setters, disposed>>
      BY <1>3 DEF TimerFires
    <2>2. /\ armed \in [Timers -> {"off", "waiting", "ready"}]
          /\ \A u \in Timers : timers[u] = "waiting" => armed[u] = "waiting"
      BY <1>0, <2>1
    <2> HIDE DEF armed
    <2>3. ~disposed /\ listener # None /\ stored[listener] \in OAuth =>
            \/ reads'[listener] > 0 \/ listener \in tokenEvents
            \/ \E s \in setters : s.host = listener
            \/ \E u \in Timers : armed[u] = "waiting"
            \/ ~Storing(listener)
      BY <1>0, <2>1, <2>2 DEF ChainIsWhole, WillLook
    <2>4. reads' \in [Hosts -> 0..MaxReads]
      BY <1>0, <2>1
    <2> QED
      BY <2>1, <2>2, <2>3, <2>4, AttemptKeeps
  <1>4. ASSUME NEW t \in Timers, DelayPasses(t) PROVE Inv'
    <2>1. /\ \A h \in Hosts : ~Storing(h)
          /\ timers[t] = "waiting" /\ timers' = [timers EXCEPT ![t] = "ready"]
          /\ UNCHANGED <<deployment, stored, refreshVars, refreshTimer, listener,
                         tokenEvents, reads, setters, disposed>>
      BY <1>4 DEF DelayPasses
    <2>2. TimersOK' /\ LastsOK' /\ timers'[t] = "ready"
      BY <1>0, <2>1 DEF TimersOK, LastsOK
    <2>3. ChainIsWhole'
      BY <1>0, <2>1, <2>2 DEF ChainIsWhole, Storing, refreshVars
    <2> QED
      BY <1>0, <1>1, <2>1, <2>2, <2>3, InvPartsNext
  <1>5. ASSUME NEW h \in Hosts, TokensChanged(h) PROVE Inv'
    <2>1. /\ tokenEvents' = tokenEvents \ {h} /\ tokenEvents' \subseteq Hosts
          /\ UNCHANGED <<deployment, stored, setters, disposed>>
      BY <1>0, <1>5 DEF TokensChanged, ReadsOK
    <2>2. SettersOK'
      BY <1>0, <2>1 DEF SettersOK
    <2>3. CASE ScheduleNextRefresh(deployment) /\ UNCHANGED <<refreshVars, listener>>
      <3>1. CallsOK' /\ StoringIsFresh'
        BY <1>0, <2>1, <2>3 DEF refreshVars, CallsOK, PromiseIsCurrent, InFlight,
                                StoringIsFresh
      <3> QED
        BY <2>1, <2>2, <2>3, <3>1, ScheduleKeeps
    <2>4. CASE ClearRefreshState /\ UNCHANGED reads
      BY <1>0, <2>1, <2>2, <2>4, ClearRefreshStateKeeps DEF CallsOK, LastsOK
    <2> QED
      BY <1>5, <2>3, <2>4 DEF TokensChanged
  <1>6. ASSUME NEW i \in Slots, BackgroundEnds(i) PROVE Inv'
    <2> DEFINE calls == [ops EXCEPT ![i].background = @ - 1]
               after == AfterBackground(i)
    <2>0. /\ ops[i] \in CallRec /\ ops[i].background > 0 /\ ops[i].background \in Nat
          /\ UNCHANGED <<stored, tokenEvents, reads, setters, disposed>>
      BY <1>0, <1>6 DEF BackgroundEnds, CallRec
    <2>1. /\ calls \in [Slots -> CallRec]
          /\ calls[i].pc = ops[i].pc /\ calls[i].host = ops[i].host
          /\ \A j \in Slots \ {i} : calls[j] = ops[j]
      BY <1>0, <2>0 DEF CallRec
    <2> HIDE DEF calls
    <2>2. /\ after \in [Slots -> CallRec]
          /\ \A j \in Slots \ {i} : after[j] = ops[j]
          /\ \/ after[i].pc = ops[i].pc /\ after[i].host = ops[i].host
             \/ after[i].pc = "free"
      BY <2>1, ForgetCall DEF AfterBackground, calls
    <2> HIDE DEF after
    <2>3. SettersOK'
      BY <1>0, <2>0 DEF SettersOK
    <2>4. ASSUME ops' = after, ops[i].pc \in Ended,
                 UNCHANGED <<deployment, refreshPromise, abortController, listener>>
          PROVE  CallsOK' /\ ReadsOK' /\ StoringIsFresh'
      <3>1. refreshPromise # i
        BY <1>0, <2>4, Constants DEF CallsOK, PromiseIsCurrent, InFlight, Running, Ended
      <3>2. CallsOK' /\ StoringIsFresh'
        BY <1>0, <2>0, <2>2, <2>4, <3>1
        DEF CallsOK, PromiseIsCurrent, InFlight, StoringIsFresh, Ended
      <3> QED
        BY <1>0, <2>0, <2>4, <3>2 DEF ReadsOK, ListenerIsCurrent
    <2>5. CASE BackgroundSettles(i)
      <3>1. /\ ops[i].pc = "done" \/ (ops[i].pc \in Ended /\ disposed)
            /\ ops' = after
            /\ UNCHANGED <<deployment, refreshPromise, abortController, timerVars, listener>>
        BY <2>5 DEF BackgroundSettles, after
      <3>2. "done" \in Ended
        BY DEF Ended
      <3>3. TimersOK' /\ LastsOK'
        BY <1>0, <2>0, <3>1 DEF timerVars, TimersOK, LastsOK
      <3>4. ChainIsWhole'
        <4>1. CASE disposed
          BY <2>0, <4>1 DEF ChainIsWhole
        <4>2. CASE ~disposed
          <5>1. ops[i].pc = "done" /\ after[i].pc \in {"done", "free"}
            BY <2>2, <3>1, <4>2
          <5>2. /\ WillLook(listener) => WillLook(listener)'
                /\ Storing(listener)' => Storing(listener)
                /\ Attempted(listener) => Attempted(listener)'
            BY <2>0, <2>2, <3>1, <5>1 DEF WillLook, Storing, Attempted, timerVars
          <5> QED
            BY <1>0, <2>0, <3>1, <5>2 DEF ChainIsWhole, timerVars
        <4> QED
          BY <4>1, <4>2
      <3> QED
        BY <2>3, <2>4, <3>1, <3>2, <3>3, <3>4, InvPartsNext
    <2>6. CASE BackgroundRetries(i)
      <3>1. /\ ops[i].pc = "failed" /\ ~disposed /\ ops' = after
            /\ ArmTimer(timers, "ready")
            /\ UNCHANGED <<deployment, refreshPromise, abortController, listener>>
        BY <2>6 DEF BackgroundRetries, after
      <3>2. "failed" \in Ended
        BY DEF Ended
      <3>3. /\ TimersOK' /\ \E t \in Timers : timers'[t] = "ready"
            /\ \A t \in Timers : timers[t] = "waiting" => timers'[t] = "waiting"
        BY <1>0, <3>1, ArmTimerKeeps
      <3>4. LastsOK'
        BY <1>0, <2>0, <3>1 DEF LastsOK
      <3>5. ChainIsWhole'
        <4>1. after[i].pc \in {"failed", "free"}
          BY <2>2, <3>1
        <4>2. /\ WillLook(listener) => WillLook(listener)'
              /\ Storing(listener)' => Storing(listener)
          BY <2>0, <2>2, <3>1, <3>3, <4>1 DEF WillLook, Storing
        <4> QED
          BY <1>0, <2>0, <3>1, <3>3, <4>2 DEF ChainIsWhole
      <3> QED
        BY <2>3, <2>4, <3>1, <3>2, <3>3, <3>4, <3>5, InvPartsNext
    <2>7. CASE BackgroundNeedsLogin(i)
      <3>1. /\ ~disposed /\ deployment' = None
            /\ ops' = IF abortController = None THEN after
                      ELSE [after EXCEPT ![abortController].aborted = TRUE]
            /\ abortController' = None /\ refreshPromise' = None
            /\ ClearTimer /\ listener' = None /\ ops[i].pc = "reAuth"
        BY <2>7 DEF BackgroundNeedsLogin, after
      <3>2. /\ ops' \in [Slots -> CallRec]
            /\ \A j \in Slots : ops'[j].pc = after[j].pc /\ ops'[j].host = after[j].host
        <4>1. CASE abortController = None
          BY <2>2, <3>1, <4>1
        <4>2. CASE abortController # None
          <5>1. abortController \in Slots
                /\ ops' = [after EXCEPT ![abortController].aborted = TRUE]
            BY <1>0, <3>1, <4>2 DEF CallsOK
          <5> QED
            BY <2>2, <5>1 DEF CallRec
        <4> QED
          BY <4>1, <4>2
      <3>3. CallsOK' /\ StoringIsFresh'
        BY <1>0, <2>0, <2>2, <3>1, <3>2 DEF CallsOK, PromiseIsCurrent, StoringIsFresh
      <3>4. TimersOK' /\ ReadsOK' /\ LastsOK'
        BY <1>0, <2>0, <3>1, ClearTimerKeeps
        DEF ReadsOK, ListenerIsCurrent, LastsOK
      <3>5. ChainIsWhole'
        BY <3>1 DEF ChainIsWhole
      <3> QED
        BY <2>3, <3>3, <3>4, <3>5, InvPartsNext
    <2> QED
      BY <1>6, <2>5, <2>6, <2>7 DEF BackgroundEnds
  <1> QED
    BY <1>2, <1>3, <1>4, <1>5, <1>6, SetterInv DEF Background

\* executeTokenRefresh, from the tokens it reads to the ones it stores.
LEMMA RefreshInv == Inv /\ Refresh => Inv'
  <1> SUFFICES ASSUME Inv, NEW i \in Slots,
                      RefreshReads(i) \/ RefreshAnswered(i) \/ RefreshStored(i)
                        \/ RefreshFails(i)
               PROVE  Inv'
    BY DEF Refresh
  <1>0. /\ CallsOK /\ TimersOK /\ SettersOK /\ ReadsOK /\ LastsOK /\ StoringIsFresh
        /\ ops \in [Slots -> CallRec] /\ ops[i] \in CallRec
        /\ ops[i].pc # "free" => ops[i].host \in Hosts
    BY InvParts DEF CallsOK
  <1>1. ASSUME NEW pc \in Running, ops[i].pc \in Running,
               ops' = [ops EXCEPT ![i].pc = pc],
               UNCHANGED <<deployment, refreshPromise, abortController>>
        PROVE  /\ CallsOK'
               /\ ops'[i].pc = pc /\ ops'[i].host = ops[i].host
               /\ ops'[i].background = ops[i].background
               /\ \A j \in Slots \ {i} : ops'[j] = ops[j]
    <2>1. /\ ops' \in [Slots -> CallRec]
          /\ ops'[i].pc = pc /\ ops'[i].host = ops[i].host
          /\ ops'[i].aborted = ops[i].aborted
          /\ ops'[i].background = ops[i].background
          /\ \A j \in Slots \ {i} : ops'[j] = ops[j]
      BY <1>0, <1>1 DEF CallRec
    <2>2. pc # "free" /\ ops[i].pc # "free"
      BY <1>1 DEF Running
    <2> QED
      BY <1>0, <1>1, <2>1, <2>2 DEF CallsOK, PromiseIsCurrent, InFlight
  <1>2. CASE RefreshReads(i)
    <2>1. /\ ops[i].pc = "reading"
          /\ UNCHANGED <<deployment, stored, timerVars, listener, tokenEvents, reads,
                         setters, disposed>>
          /\ "reading" \in Running /\ "posting" \in Running /\ "failed" \in Ended
      BY <1>2 DEF RefreshReads, Running, Ended
    <2>2. CASE End(i, "failed")
      BY <2>1, <2>2, EndKeeps
    <2>3. CASE /\ ops' = [ops EXCEPT ![i].pc = "posting"]
               /\ UNCHANGED <<refreshPromise, abortController>>
      <3>1. /\ CallsOK'
            /\ ops'[i].pc = "posting" /\ ops'[i].host = ops[i].host
            /\ ops'[i].background = ops[i].background
            /\ \A j \in Slots \ {i} : ops'[j] = ops[j]
        BY <1>1, <2>1, <2>3
      <3>2. StoringIsFresh' /\ ChainIsWhole'
        BY <2>1, <3>1, CallsChange DEF timerVars
      <3>3. TimersOK' /\ SettersOK' /\ ReadsOK' /\ LastsOK'
        BY <1>0, <2>1 DEF timerVars, TimersOK, SettersOK, ReadsOK, ListenerIsCurrent,
                          LastsOK
      <3> QED
        BY <3>1, <3>2, <3>3, InvPartsNext
    <2> QED
      BY <1>2, <2>2, <2>3 DEF RefreshReads
  <1>3. CASE RefreshAnswered(i)
    <2>1. /\ ops[i].pc = "posting" /\ ops' = [ops EXCEPT ![i].pc = "storing"]
          /\ Store(ops[i].host, "fresh")
          /\ UNCHANGED <<deployment, refreshPromise, abortController, timerVars, listener,
                         reads, setters, disposed>>
          /\ "posting" \in Running /\ "storing" \in Running
      BY <1>3 DEF RefreshAnswered, Running
    <2>2. /\ CallsOK' /\ ops'[i].host = ops[i].host
          /\ \A j \in Slots \ {i} : ops'[j] = ops[j]
      BY <1>1, <2>1
    <2>3. ops[i].host \in Hosts
      BY <1>0, <2>1
    <2> QED
      BY <2>1, <2>2, <2>3, StoreKeeps
  <1>4. CASE RefreshStored(i)
    <2>1. ops[i].pc \in Running /\ "done" \in Ended
      BY <1>4 DEF RefreshStored, Running, Ended
    <2> QED
      BY <1>4, <2>1, EndKeeps DEF RefreshStored
  <1>5. CASE RefreshFails(i)
    <2>1. ops[i].pc \in Running /\ "failed" \in Ended /\ "reAuth" \in Ended
      BY <1>5 DEF RefreshFails, Running, Ended
    <2>2. PICK outcome \in {"failed", "reAuth"} : End(i, outcome)
      BY <1>5 DEF RefreshFails
    <2> QED
      BY <1>5, <2>1, <2>2, EndKeeps DEF RefreshFails
  <1> QED
    BY <1>2, <1>3, <1>4, <1>5

\* Other windows, and time.
LEMMA EnvironmentInv == Inv /\ Environment => Inv'
  <1> SUFFICES ASSUME Inv, NEW h \in Hosts, OtherWindow(h) \/ TimePasses(h)
               PROVE  Inv'
    BY DEF Environment
  <1>0. /\ CallsOK /\ TimersOK /\ SettersOK /\ ReadsOK /\ LastsOK /\ StoringIsFresh
        /\ ChainIsWhole /\ stored \in [Hosts -> Stored]
    BY InvParts DEF LastsOK
  <1>1. UNCHANGED refreshVars /\ UNCHANGED deployment => CallsOK'
    BY <1>0 DEF refreshVars, CallsOK, PromiseIsCurrent, InFlight
  <1>2. CASE OtherWindow(h)
    <2>1. PICK v \in {"none", "fresh"} : Store(h, v)
      BY <1>2 DEF OtherWindow
    <2> QED
      BY <1>1, <1>2, <2>1, StoreKeeps DEF OtherWindow, refreshVars
  <1>3. CASE TimePasses(h)
    <2>1. /\ ~Storing(h) /\ stored[h] = "fresh" /\ stored' = [stored EXCEPT ![h] = "due"]
          /\ UNCHANGED <<deployment, refreshVars, timerVars, listener, tokenEvents, reads,
                         setters, disposed>>
      BY <1>3 DEF TimePasses
    <2>2. TimersOK' /\ SettersOK' /\ ReadsOK' /\ LastsOK'
      BY <1>0, <2>1 DEF timerVars, TimersOK, SettersOK, ReadsOK, ListenerIsCurrent,
                        LastsOK, Stored
    <2>3. StoringIsFresh'
      BY <1>0, <2>1 DEF StoringIsFresh, Storing, refreshVars
    <2>4. ChainIsWhole'
      <3> SUFFICES ASSUME ~disposed, listener # None, stored'[listener] \in OAuth
                   PROVE  \/ WillLook(listener)'
                          \/ /\ ~Storing(listener)'
                             /\ (\E t \in Timers : timers'[t] = "ready")
                                  \/ Attempted(listener)'
        BY <2>1 DEF ChainIsWhole
      <3>1. stored[listener] \in OAuth
        BY <1>0, <2>1 DEF OAuth
      <3>2. /\ WillLook(listener)' <=> WillLook(listener)
            /\ Storing(listener)' <=> Storing(listener)
            /\ Attempted(listener)' <=> Attempted(listener)
        BY <2>1 DEF WillLook, Storing, Attempted, timerVars, refreshVars
      <3> QED
        BY <1>0, <2>1, <3>1, <3>2 DEF ChainIsWhole, timerVars
    <2> QED
      BY <1>1, <2>1, <2>2, <2>3, <2>4, InvPartsNext
  <1> QED
    BY <1>2, <1>3

LEMMA StepInv == Inv /\ [Next]_vars => Inv'
  <1> SUFFICES ASSUME Inv, [Next]_vars PROVE Inv'
    OBVIOUS
  <1>1. CASE UNCHANGED vars
    <2>1. /\ CallsOK /\ TimersOK /\ SettersOK /\ ReadsOK /\ LastsOK /\ StoringIsFresh
          /\ ChainIsWhole
      BY InvParts
    <2>2. CallsOK' /\ TimersOK' /\ SettersOK' /\ ReadsOK' /\ LastsOK'
      BY <1>1, <2>1 DEF vars, CallsOK, PromiseIsCurrent, InFlight, TimersOK, SettersOK,
                        ReadsOK, ListenerIsCurrent, LastsOK
    <2>3. StoringIsFresh' /\ ChainIsWhole'
      BY <1>1, <2>1 DEF vars, StoringIsFresh, ChainIsWhole, WillLook, Storing, Attempted
    <2> QED
      BY <2>2, <2>3, InvPartsNext
  <1> QED
    BY <1>1, OwnerInv, EnvironmentInv, BackgroundInv, RefreshInv DEF Next

\* The inductive invariant holds of every behaviour of the manager.
THEOREM OAuthInvariant == Spec => []Inv
  BY InitInv, StepInv, PTL DEF Spec

\* However switches of deployment overlap with refreshes, a refresh that is
\* shared and the listener are of the deployment in use.
THEOREM CurrentDeploymentOnly == Spec => []RefreshFollowsDeployment
  <1>1. Inv => RefreshFollowsDeployment
    BY DEF Inv, RefreshFollowsDeployment
  <1> QED
    BY <1>1, OAuthInvariant, PTL

\* While its tokens are watched, a timeout, a read, an event or an attempt will
\* refresh them: no outcome of a refresh and no order of its waiters ends the loop.
THEOREM LoopNeverBreaks == Spec => []RefreshLoopAlive
  <1>1. Inv => RefreshLoopAlive
    <2> SUFFICES ASSUME Inv, ~disposed, listener # None, stored[listener] \in OAuth
                 PROVE  \/ \E t \in Timers : timers[t] # "off"
                        \/ reads[listener] > 0
                        \/ listener \in tokenEvents
                        \/ \E s \in setters : s.host = listener
                        \/ \E i \in Slots : ops[i].background > 0
      BY DEF RefreshLoopAlive
    <2> QED
      BY DEF Inv, ChainIsWhole, WillLook, Attempted
  <1> QED
    BY <1>1, OAuthInvariant, PTL

\* After dispose() no continuation attempts a refresh or arms a retry; a timeout
\* is armed for fresh tokens of a deployment set anew only.
THEOREM QuietAfterDispose == Spec => DisposedStaysQuiet
  <1> DEFINE Quiet == /\ \A i \in Slots : ops'[i].background <= ops[i].background
                      /\ \A t \in Timers :
                           timers[t] = "off" /\ timers'[t] # "off" =>
                             timers'[t] = "waiting" /\ deployment # None
  <1>1. Inv /\ [Next]_vars => [disposed => Quiet]_vars
    <2> SUFFICES ASSUME Inv, Next, disposed PROVE Quiet
      OBVIOUS
    <2>0. /\ CallsOK /\ TimersOK /\ SettersOK
          /\ ops \in [Slots -> CallRec]
          /\ timers \in [Timers -> {"off", "waiting", "ready"}]
      BY InvParts DEF CallsOK, TimersOK
    <2>1. \A i \in Slots : ops[i].background \in Nat
      BY <2>0 DEF CallRec
    <2> DEFINE NoAttempt == \A i \in Slots : ops'[i].background <= ops[i].background
               NoTimeout == \A t \in Timers : timers[t] = "off" => timers'[t] = "off"
    <2>2. UNCHANGED ops => NoAttempt
      BY <2>1
    <2>3. ASSUME ClearTimer PROVE NoTimeout
      BY <2>0, <2>3, ClearTimerKeeps
    <2>4. ASSUME NEW armed, AttemptRefresh(armed) PROVE NoAttempt /\ timers' = armed
      BY <2>2, <2>4 DEF AttemptRefresh, refreshVars
    <2>5. UNCHANGED timers => NoTimeout
      OBVIOUS
    <2>6. ASSUME NEW i \in Slots, RefreshToken(i, 0) PROVE NoAttempt
      <3>1. CASE refreshPromise = i /\ ops' = [ops EXCEPT ![i].background = @ + 0]
        <4>1. ops[i] \in CallRec /\ ops[i].background \in Nat
          BY <2>0, <2>1
        <4>2. ops'[i].background = ops[i].background + 0
              /\ \A j \in Slots \ {i} : ops'[j] = ops[j]
          BY <2>0, <3>1, <4>1 DEF CallRec
        <4> QED
          BY <2>1, <4>1, <4>2
      <3>2. CASE ops' = [ops EXCEPT ![i] = [OpOf(deployment) EXCEPT !.background = 0]]
        <4>1. [OpOf(deployment) EXCEPT !.background = 0].background = 0
          BY DEF OpOf, FreeOp
        <4>2. \A j \in Slots : ops'[j].background = 0 \/ ops'[j] = ops[j]
          BY <2>0, <3>2, <4>1
        <4> QED
          BY <2>1, <4>2
      <3> QED
        BY <2>6, <3>1, <3>2 DEF RefreshToken
    <2>7. ASSUME NEW calls \in [Slots -> CallRec], NEW i \in Slots, NEW waiting,
                 ops' = Forget(calls, i, waiting),
                 \A j \in Slots : calls[j].background <= ops[j].background
          PROVE  NoAttempt
      BY <2>1, <2>7, ForgetCall
    <2>8. ASSUME ClearRefreshState PROVE NoAttempt /\ NoTimeout
      <3>1. \/ ops' = ops
            \/ abortController \in Slots
               /\ ops' = [ops EXCEPT ![abortController].aborted = TRUE]
        BY <2>0, <2>8 DEF ClearRefreshState, CallsOK
      <3>2. \A i \in Slots : ops'[i].background = ops[i].background
        BY <2>0, <3>1 DEF CallRec
      <3> QED
        BY <2>1, <2>3, <2>8, <3>2 DEF ClearRefreshState
    <2>9. ASSUME NEW i \in Slots, NEW outcome \in Ended, End(i, outcome) PROVE NoAttempt
      <3> DEFINE calls == [ops EXCEPT ![i].pc = outcome]
      <3>1. calls \in [Slots -> CallRec]
            /\ \A j \in Slots : calls[j].background = ops[j].background
        BY <2>0 DEF CallRec
      <3> HIDE DEF calls
      <3>2. ops' = Forget(calls, i, setters)
        BY <2>9 DEF End, calls
      <3> QED
        BY <2>1, <2>7, <3>1, <3>2
    <2>10. CASE Owner
      BY <2>2, <2>5, <2>6, <2>8, <2>10
      DEF Owner, SetDeployment, ClearDeployment, Dispose, ReactiveRefresh, timerVars
    <2>11. CASE Environment
      BY <2>2, <2>5, <2>11 DEF Environment, OtherWindow, TimePasses, timerVars, refreshVars
    <2>12. ASSUME NEW i \in Slots, RefreshReads(i) \/ RefreshAnswered(i)
                                     \/ RefreshStored(i) \/ RefreshFails(i)
           PROVE  Quiet
      <3>1. UNCHANGED timers
        BY <2>12 DEF RefreshReads, RefreshAnswered, RefreshStored, RefreshFails, timerVars
      <3>2. CASE \E pc : ops' = [ops EXCEPT ![i].pc = pc]
        <4>1. \A j \in Slots : ops'[j].background = ops[j].background
          BY <2>0, <3>2 DEF CallRec
        <4> QED
          BY <2>1, <3>1, <4>1
      <3>3. {"failed", "reAuth", "done"} = Ended
        BY DEF Ended
      <3>4. CASE \E outcome \in Ended : End(i, outcome)
        BY <2>9, <3>1, <3>4
      <3> QED
        BY <2>12, <3>2, <3>3, <3>4
        DEF RefreshReads, RefreshAnswered, RefreshStored, RefreshFails
    <2>13. ASSUME NEW h \in Hosts, ReadResolves(h) PROVE Quiet
      <3>1. CASE UNCHANGED <<refreshVars, timerVars>>
        BY <2>2, <3>1 DEF refreshVars, timerVars
      <3>2. CASE AttemptRefresh(timers)
        BY <2>4, <3>2
      <3>3. CASE deployment = h /\ ArmTimer(timers, "waiting") /\ UNCHANGED refreshVars
        <4>1. deployment # None
          BY <3>3, Constants
        <4>2. \A t \in Timers : timers'[t] = timers[t] \/ timers'[t] = "waiting"
          BY <2>0, <3>3 DEF ArmTimer
        <4> QED
          BY <2>2, <3>3, <4>1, <4>2 DEF refreshVars
      <3> QED
        BY <2>13, <3>1, <3>2, <3>3 DEF ReadResolves
    <2>14. ASSUME NEW h \in Hosts, TokensChanged(h) PROVE Quiet
      BY <2>2, <2>3, <2>8, <2>14 DEF TokensChanged, ScheduleNextRefresh, refreshVars
    <2>15. ASSUME NEW u \in Timers, DelayPasses(u) \/ TimerFires(u) PROVE Quiet
      <3>1. CASE DelayPasses(u)
        BY <2>0, <2>2, <3>1 DEF DelayPasses, refreshVars
      <3>2. CASE TimerFires(u)
        <4>1. timers' = [timers EXCEPT ![u] = "off"] /\ NoAttempt
          BY <2>4, <3>2 DEF TimerFires
        <4> QED
          BY <2>0, <4>1
      <3> QED
        BY <2>15, <3>1, <3>2
    <2>16. ASSUME NEW i \in Slots, BackgroundEnds(i) PROVE Quiet
      <3> DEFINE calls == [ops EXCEPT ![i].background = @ - 1]
      <3>1. calls \in [Slots -> CallRec]
            /\ \A j \in Slots : calls[j].background <= ops[j].background
        <4>1. ops[i] \in CallRec /\ ops[i].background \in Nat /\ ops[i].background > 0
          BY <2>0, <2>1, <2>16 DEF BackgroundEnds
        <4>2. calls[i].background = ops[i].background - 1
              /\ \A j \in Slots \ {i} : calls[j] = ops[j]
          BY <2>0, <4>1 DEF CallRec
        <4>3. calls \in [Slots -> CallRec]
          BY <2>0, <4>1 DEF CallRec
        <4> QED
          BY <2>1, <4>1, <4>2, <4>3
      <3> HIDE DEF calls
      <3>2. BackgroundSettles(i)
        BY <2>16 DEF BackgroundEnds, BackgroundRetries, BackgroundNeedsLogin
      <3>3. ops' = Forget(calls, i, setters) /\ UNCHANGED timers
        BY <3>2 DEF BackgroundSettles, AfterBackground, timerVars, calls
      <3> QED
        BY <2>7, <3>1, <3>3
    <2>17. ASSUME NEW s \in setters, SetterReads(s) PROVE Quiet
      BY <2>2, <2>3, <2>5, <2>6, <2>17
      DEF SetterReads, FinishSetter, ScheduleNextRefresh, timerVars, refreshVars
    <2>18. ASSUME NEW s \in setters, SetterRefreshed(s) PROVE Quiet
      <3>1. s.on \in Slots /\ ops' = Forget(ops, s.on, setters \ {s})
        BY <2>0, <2>18 DEF SetterRefreshed, SettersOK
      <3>2. NoAttempt
        <4>1. \A j \in Slots : ops[j].background <= ops[j].background
          BY <2>1
        <4> QED
          BY <2>0, <2>7, <3>1, <4>1
      <3> QED
        BY <2>3, <2>18, <3>2 DEF SetterRefreshed, FinishSetter, ScheduleNextRefresh
    <2> QED
      BY <2>10, <2>11, <2>12, <2>13, <2>14, <2>15, <2>16, <2>17, <2>18
      DEF Next, Background, Refresh
  <1>2. Spec => [][disposed => Quiet]_vars
    BY <1>1, OAuthInvariant, PTL DEF Spec
  <1> QED
    BY <1>2 DEF DisposedStaysQuiet

=============================================================================
