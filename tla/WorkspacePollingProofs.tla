---------------------- MODULE WorkspacePollingProofs ----------------------
(***************************************************************************)
(* For any agents and any number of sessions: what a tree shows, watches   *)
(* and waits for belongs to the session in use.  Own strengthens what the  *)
(* runs check by what a fetch in flight knows of its session.              *)
(***************************************************************************)
EXTENDS WorkspacePolling, TLAPS

\* A fetch of the session in use is one of a user who is signed in, and the
\* watchers it is to open are not open yet.  A disposed tree shows nothing.
FetchKnowsSession ==
  /\ fetching => fetch.of <= session
  /\ fetching /\ fetch.of = session => kind = "signedIn"
  /\ fetch.pc = "watching" /\ fetch.of = session /\ ~disposed =>
       \A w \in agentWatchers : w.agent \notin fetch.new
  /\ disposed => workspaces = Undefined

Own ==
  /\ TypeOK
  /\ ShowsThisSession
  /\ WatchersOfThisSession
  /\ FetchesWhatIsMissing
  /\ HiddenIsQuiet
  /\ FetchKnowsSession

\* The parts of Own that talk of what is shown, fetched and armed.
Polls ==
  /\ workspaces \in [what : {"undefined", "empty", "failed", "list"}, of : 0..MaxSessions]
  /\ fetch \in [pc : {"idle", "requesting", "watching"}, of : 0..MaxSessions,
                new : SUBSET Agents, drop : SUBSET Agents]
  /\ refetchPending \in BOOLEAN
  /\ timeout \in {"none", "armed", "fired"}
  /\ timeout # "none" => mine
  /\ ShowsThisSession
  /\ FetchesWhatIsMissing
  /\ HiddenIsQuiet
  /\ FetchKnowsSession

Watches ==
  /\ agentWatchers \subseteq Watchers /\ sockets \subseteq Watchers
  /\ WatchersOfThisSession

Owned ==
  /\ mine \in BOOLEAN /\ visible \in BOOLEAN /\ disposed \in BOOLEAN
  /\ session \in 0..MaxSessions
  /\ kind \in {"signedIn", "signedOut"}

\* The invariant by what each action can disturb.
LEMMA OwnParts == Own <=> Owned /\ Polls /\ Watches
  BY DEF Own, Owned, Polls, Watches, TypeOK

\* What the assumption on the constants gives every proof.
LEMMA Constants == MaxSessions \in Nat
  BY PollingAssumption DEF PollingAssumption

-----------------------------------------------------------------------------
\* The record a new fetch starts from.
LEMMA RequestingType ==
  ASSUME NEW s \in 0..MaxSessions
  PROVE  /\ Requesting(s) \in [pc : {"idle", "requesting", "watching"}, of : 0..MaxSessions,
                               new : SUBSET Agents, drop : SUBSET Agents]
         /\ Requesting(s).pc = "requesting" /\ Requesting(s).of = s
  BY Constants DEF Requesting, Idle

\* The record of a provider that fetches nothing.
LEMMA IdleType ==
  /\ Idle \in [pc : {"idle", "requesting", "watching"}, of : 0..MaxSessions,
               new : SUBSET Agents, drop : SUBSET Agents]
  /\ Idle.pc = "idle"
  BY Constants DEF Idle

\* What is shown is the tree or the lack of one, and its session.
LEMMA ShownType ==
  ASSUME NEW what \in {"undefined", "empty", "failed", "list"}, NEW s \in 0..MaxSessions
  PROVE  /\ Shown(what, s) \in [what : {"undefined", "empty", "failed", "list"},
                                of : 0..MaxSessions]
         /\ Shown(what, s).what = what /\ Shown(what, s).of = s
         /\ what # "undefined" => Shown(what, s) # Undefined
  BY DEF Shown, Undefined

\* fetchAndRefresh() keeps Polls whatever the session and the view have become,
\* when what is shown was cleared unless the session is the same.
LEMMA FetchKeepsPolls ==
  ASSUME Owned, Owned', Polls, NEW shown, NEW handle \in {"none", "armed", "fired"},
         FetchAndRefresh(shown, handle),
         shown \in [what : {"undefined", "empty", "failed", "list"}, of : 0..MaxSessions],
         handle # "none" => mine' /\ visible' /\ ~disposed',
         shown.what = "list" => shown.of = session' /\ kind' = "signedIn",
         disposed' => shown = Undefined,
         fetching => fetch.of <= session',
         fetching /\ fetch.of = session' => kind' = "signedIn",
         fetch.pc = "watching" /\ fetch.of = session' /\ ~disposed' =>
           \A w \in agentWatchers' : w.agent \notin fetch.new
  PROVE  Polls'
  <1>1. CASE disposed' \/ ~visible'
    <2>1. /\ UNCHANGED <<fetch, refetchPending>>
          /\ workspaces' = shown /\ timeout' = handle
      BY <1>1 DEF FetchAndRefresh
    <2> QED
      BY <1>1, <2>1 DEF Polls, ShowsThisSession, FetchesWhatIsMissing, HiddenIsQuiet,
                        FetchKnowsSession, fetching
  <1>2. CASE ~disposed' /\ visible' /\ fetching
    <2>1. /\ UNCHANGED fetch
          /\ refetchPending' = TRUE
          /\ workspaces' = shown /\ timeout' = handle
      BY <1>2 DEF FetchAndRefresh
    <2> QED
      BY <1>2, <2>1 DEF Polls, ShowsThisSession, FetchesWhatIsMissing, HiddenIsQuiet,
                        FetchKnowsSession, fetching
  <1>3. CASE ~disposed' /\ visible' /\ ~fetching
    <2>1. Round /\ timeout' = "none"
      BY <1>3 DEF FetchAndRefresh
    <2>2. workspaces' = IF kind' = "signedOut" THEN Shown("empty", session') ELSE shown
      BY <1>3 DEF FetchAndRefresh
    <2>3. session' \in 0..MaxSessions
      BY DEF Owned
    <2>4. CASE kind' = "signedIn" /\ fetch' = Requesting(session')
      <3>1. workspaces' = shown
        BY <2>2, <2>4
      <3>2. fetch'.pc = "requesting" /\ fetch'.of = session'
        BY <2>3, <2>4, RequestingType
      <3>3. session' <= session'
        BY <2>3, Constants
      <3> QED
        BY <1>3, <2>1, <2>3, <2>4, <3>1, <3>2, <3>3, RequestingType
        DEF Polls, ShowsThisSession, FetchesWhatIsMissing, HiddenIsQuiet,
            FetchKnowsSession, fetching, Round
    <2>5. CASE kind' = "signedOut" /\ fetch' = Idle
      <3>1. workspaces' = Shown("empty", session')
        BY <2>2, <2>5
      <3>2. workspaces'.what = "empty" /\ workspaces' # Undefined
        BY <2>3, <3>1, ShownType
      <3> QED
        BY <1>3, <2>1, <2>3, <2>5, <3>1, <3>2, ShownType, IdleType
        DEF Polls, ShowsThisSession, FetchesWhatIsMissing, HiddenIsQuiet,
            FetchKnowsSession, fetching, Round
    <2> QED
      BY <2>1, <2>4, <2>5 DEF Round
  <1> QED
    BY <1>1, <1>2, <1>3 DEF Owned

\* The end of a round keeps Polls when what it shows belongs to the session and
\* fills the tree, unless another round is pending for it.
LEMMA SettleKeepsPolls ==
  ASSUME Owned, Polls, UNCHANGED owner, fetching, NEW shown, NEW failed \in BOOLEAN,
         Settle(shown, failed),
         shown \in [what : {"undefined", "empty", "failed", "list"}, of : 0..MaxSessions],
         shown.what = "list" => shown.of = session /\ kind = "signedIn",
         visible /\ ~disposed /\ shown = Undefined => refetchPending
  PROVE  Polls'
  <1>1. UNCHANGED <<mine, session, kind, visible, disposed>>
    BY DEF owner
  <1>2. session \in 0..MaxSessions /\ session <= session
    BY Constants DEF Owned
  <1>3. CASE refetchPending /\ ~disposed /\ visible
    <2>1. /\ Round /\ UNCHANGED timeout
          /\ workspaces' = IF kind = "signedOut" THEN Shown("empty", session) ELSE shown
      BY <1>3 DEF Settle
    <2>2. CASE kind = "signedIn" /\ fetch' = Requesting(session)
      <3>1. fetch'.pc = "requesting" /\ fetch'.of = session /\ workspaces' = shown
        BY <1>2, <2>1, <2>2, RequestingType
      <3> QED
        BY <1>1, <1>2, <1>3, <2>1, <2>2, <3>1, RequestingType
        DEF Polls, ShowsThisSession, FetchesWhatIsMissing, HiddenIsQuiet,
            FetchKnowsSession, fetching, Round
    <2>3. CASE kind = "signedOut" /\ fetch' = Idle
      <3>1. workspaces' = Shown("empty", session)
        BY <2>1, <2>3
      <3>2. /\ workspaces'.what = "empty" /\ workspaces' # Undefined
            /\ workspaces' \in [what : {"undefined", "empty", "failed", "list"},
                                of : 0..MaxSessions]
        BY <1>2, <3>1, ShownType
      <3>3. fetch'.pc = "idle" /\ refetchPending' = FALSE
        BY <2>1, <2>3, IdleType DEF Round
      <3>4. (timeout' # "none" => mine') /\ HiddenIsQuiet'
        BY <1>1, <2>1 DEF Polls, HiddenIsQuiet
      <3> QED
        BY <1>1, <1>3, <2>1, <2>3, <3>2, <3>3, <3>4, IdleType
        DEF Polls, ShowsThisSession, FetchesWhatIsMissing, FetchKnowsSession, fetching
    <2> QED
      BY <1>1, <2>1, <2>2, <2>3 DEF Round
  <1>4. CASE ~refetchPending \/ disposed \/ ~visible
    <2>1. fetch' = Idle /\ UNCHANGED refetchPending
      BY <1>4 DEF Settle
    <2>2. workspaces' = IF disposed THEN workspaces ELSE shown
      BY <1>4 DEF Settle
    <2>3. timeout' = IF ~failed /\ ~disposed /\ visible /\ kind = "signedIn"
                     THEN MaybeScheduleRefresh(timeout) ELSE timeout
      BY <1>4 DEF Settle
    <2>4. /\ timeout' \in {"none", "armed", "fired"}
          /\ timeout' # "none" => mine
          /\ ~visible \/ disposed => timeout' = "none"
      BY <2>3 DEF MaybeScheduleRefresh, Polls, HiddenIsQuiet
    <2>5. /\ visible /\ ~disposed => workspaces' # Undefined
          /\ disposed => workspaces' = Undefined
      BY <1>4, <2>2 DEF Polls, FetchKnowsSession
    <2> QED
      BY <1>1, <2>1, <2>2, <2>4, <2>5, IdleType
      DEF Polls, ShowsThisSession, FetchesWhatIsMissing, HiddenIsQuiet,
          FetchKnowsSession, fetching
  <1> QED
    BY <1>3, <1>4 DEF Owned

\* Watchers removed from the map and closed together keep Watches.
LEMMA DropKeepsWatches ==
  ASSUME Watches, UNCHANGED <<session, disposed>>, NEW drop,
         sockets' = sockets \ WatchersOf(drop),
         agentWatchers' = agentWatchers \ WatchersOf(drop)
  PROVE  Watches'
  BY DEF Watches, WatchersOfThisSession, WatchersOf, Watchers

\* So does a list that is complete.
LEMMA FinishKeepsOwn ==
  ASSUME Own, UNCHANGED owner, fetching, fetch.of = session, NEW drop, Finish(drop)
  PROVE  Own'
  <1>1. Owned /\ Polls /\ Watches
    BY OwnParts
  <1>2. Owned' /\ UNCHANGED <<session, disposed>>
    BY <1>1 DEF owner, Owned
  <1>3. Watches'
    BY <1>1, <1>2, DropKeepsWatches DEF Finish
  <1>4. kind = "signedIn" /\ session \in 0..MaxSessions
    BY <1>1 DEF Polls, Owned, FetchKnowsSession
  <1>5. Settle(Shown("list", session), FALSE)
    BY DEF Finish
  <1>6. Polls'
    BY <1>1, <1>4, <1>5, SettleKeepsPolls, ShownType
  <1> QED
    BY <1>2, <1>3, <1>6, OwnParts DEF Own, Owned, Polls, Watches, TypeOK

\* And a watcher that is kept, whether others are still to be opened or not.
LEMMA KeepKeepsOwn ==
  ASSUME Own, UNCHANGED owner, fetch.pc = "watching", fetch.of = session, ~disposed,
         NEW a \in fetch.new, KeepWatcher(a)
  PROVE  Own'
  <1> DEFINE w == [agent |-> a, of |-> fetch.of]
  <1>1. Owned /\ Polls /\ Watches /\ fetching
    BY OwnParts DEF fetching
  <1>2. Owned' /\ UNCHANGED <<mine, session, kind, visible, disposed>>
    BY <1>1 DEF owner, Owned
  <1>3. kind = "signedIn" /\ session \in 0..MaxSessions
    BY <1>1 DEF Polls, Owned, FetchKnowsSession
  <1>4. a \in Agents /\ w \in Watchers /\ w.agent = a /\ w.of = session
    BY <1>1, <1>3 DEF Polls, Watchers
  <1>5. \A v \in agentWatchers : v.agent # a
    BY <1>1 DEF Polls, FetchKnowsSession
  <1>6. CASE /\ fetch.new # {a}
             /\ fetch' = [fetch EXCEPT !.new = @ \ {a}]
             /\ sockets' = sockets \cup {w} /\ agentWatchers' = agentWatchers \cup {w}
             /\ UNCHANGED <<workspaces, refetchPending, timeout>>
    <2>1. Watches'
      BY <1>1, <1>2, <1>4, <1>5, <1>6 DEF Watches, WatchersOfThisSession
    <2>2. /\ fetch' \in [pc : {"idle", "requesting", "watching"}, of : 0..MaxSessions,
                          new : SUBSET Agents, drop : SUBSET Agents]
          /\ fetch'.pc = fetch.pc /\ fetch'.of = fetch.of
          /\ fetch'.new = fetch.new \ {a}
      BY <1>1, <1>6 DEF Polls
    <2>3. \A v \in agentWatchers' : v.agent \notin fetch'.new
      BY <1>1, <1>4, <1>6, <2>2 DEF Polls, FetchKnowsSession
    <2>4. Polls'
      BY <1>1, <1>2, <1>3, <1>6, <2>2, <2>3
      DEF Polls, ShowsThisSession, FetchesWhatIsMissing, HiddenIsQuiet,
          FetchKnowsSession, fetching
    <2> QED
      BY <1>2, <2>1, <2>4, OwnParts DEF Own, Owned, Polls, Watches, TypeOK
  <1>7. CASE /\ fetch.new = {a}
             /\ sockets' = (sockets \cup {w}) \ WatchersOf(fetch.drop)
             /\ agentWatchers' = (agentWatchers \cup {w}) \ WatchersOf(fetch.drop)
             /\ Settle(Shown("list", session), FALSE)
    <2>1. Watches'
      BY <1>1, <1>2, <1>4, <1>5, <1>7
      DEF Watches, WatchersOfThisSession, WatchersOf
    <2>2. Polls'
      BY <1>1, <1>3, <1>7, SettleKeepsPolls, ShownType
    <2> QED
      BY <1>2, <2>1, <2>2, OwnParts DEF Own, Owned, Polls, Watches, TypeOK
  <1> QED
    BY <1>6, <1>7 DEF KeepWatcher

\* A round that ends with nothing new to show.
LEMMA DroppedKeepsOwn ==
  ASSUME Own, UNCHANGED owner, UNCHANGED watcherVars, fetching,
         disposed \/ sessionChangedSince, Settle(workspaces, FALSE)
  PROVE  Own'
  <1>1. Owned /\ Polls /\ Watches
    BY OwnParts
  <1>2. Owned' /\ UNCHANGED <<session, disposed>>
    BY <1>1 DEF owner, Owned
  <1>3. Watches'
    BY <1>1, <1>2 DEF Watches, WatchersOfThisSession, watcherVars
  <1>4. visible /\ ~disposed /\ workspaces = Undefined => refetchPending
    BY <1>1 DEF Polls, FetchesWhatIsMissing, sessionChangedSince
  <1>5. Polls'
    BY <1>1, <1>4, SettleKeepsPolls DEF Polls, ShowsThisSession
  <1> QED
    BY <1>2, <1>3, <1>5, OwnParts DEF Own, Owned, Polls, Watches, TypeOK

-----------------------------------------------------------------------------
\* The first state.
THEOREM InitOwn == Init => Own
  <1> SUFFICES ASSUME Init PROVE Own
    OBVIOUS
  <1>1. 0 \in 0..MaxSessions
    BY Constants
  <1>2. Owned
    BY <1>1 DEF Init, Owned
  <1>3. workspaces.what = "undefined" /\ ~fetching /\ visible = FALSE
    BY IdleType DEF Init, fetching, Undefined, Shown
  <1>4. Polls
    BY <1>1, <1>3, IdleType, ShownType
    DEF Init, Polls, ShowsThisSession, FetchesWhatIsMissing, HiddenIsQuiet,
        FetchKnowsSession, fetching, Undefined
  <1>5. Watches
    BY DEF Init, Watches, WatchersOfThisSession
  <1> QED
    BY <1>2, <1>4, <1>5, OwnParts

\* A sign-in or sign-out clears the tree before it is fetched anew.
LEMMA SessionChangesOwn == Own /\ SessionChanges => Own'
  <1> SUFFICES ASSUME Own, SessionChanges PROVE Own'
    OBVIOUS
  <1>1. Owned /\ Polls /\ Watches
    BY OwnParts
  <1>2. Owned' /\ session' = session + 1
    BY <1>1, Constants DEF SessionChanges, Owned
  <1>3. fetching => fetch.of < session'
    BY <1>1, <1>2, Constants DEF Polls, Owned, FetchKnowsSession
  <1>4. CASE disposed /\ UNCHANGED <<fetchVars, watcherVars>>
    <2>1. UNCHANGED <<workspaces, fetch, refetchPending, timeout, agentWatchers, sockets>>
      BY <1>4 DEF fetchVars, watcherVars
    <2>2. disposed /\ disposed' /\ mine' = mine
      BY <1>4 DEF SessionChanges
    <2>3. Watches'
      BY <1>1, <2>1, <2>2 DEF Watches, WatchersOfThisSession
    <2>4. workspaces.what = "undefined"
      BY <1>1, <2>2 DEF Polls, FetchKnowsSession, Undefined, Shown
    <2>5. HiddenIsQuiet' /\ (timeout' # "none" => mine')
      BY <1>1, <2>1, <2>2 DEF Polls, HiddenIsQuiet
    <2>6. fetching' => fetch'.of < session'
      BY <1>3, <2>1 DEF fetching
    <2>7. FetchKnowsSession'
      BY <1>1, <1>2, <2>1, <2>2, <2>6, Constants
      DEF Polls, Owned, FetchKnowsSession, fetching
    <2>8. Polls'
      BY <1>1, <2>1, <2>2, <2>4, <2>5, <2>7
      DEF Polls, ShowsThisSession, FetchesWhatIsMissing
    <2> QED
      BY <1>2, <2>3, <2>8, OwnParts DEF Own, Owned, Polls, Watches, TypeOK
  <1>5. CASE /\ ~disposed
             /\ sockets' = sockets \ agentWatchers /\ agentWatchers' = {}
             /\ FetchAndRefresh(Undefined, "none")
    <2>1. Watches'
      BY <1>1, <1>5 DEF Watches, WatchersOfThisSession
    <2>2. /\ Undefined \in [what : {"undefined", "empty", "failed", "list"},
                             of : 0..MaxSessions]
          /\ Undefined.what = "undefined"
      BY Constants, ShownType DEF Undefined
    <2>3. fetching => fetch.of <= session' /\ fetch.of # session'
      BY <1>1, <1>2, <1>3, Constants DEF Polls, Owned
    <2>4. fetch.pc = "watching" => fetching
      BY DEF fetching
    <2>5. Polls'
      BY <1>1, <1>2, <1>5, <2>2, <2>3, <2>4, FetchKeepsPolls
    <2> QED
      BY <1>2, <2>1, <2>5, OwnParts DEF Own, Owned, Polls, Watches, TypeOK
  <1> QED
    BY <1>4, <1>5 DEF SessionChanges

\* What fetchAndRefresh() may assume when neither session nor disposal changed.
LEMMA FetchKeepsOwn ==
  ASSUME Own, NEW handle \in {"none", "armed", "fired"},
         UNCHANGED <<mine, session, kind, disposed, watcherVars>>, visible' \in BOOLEAN,
         handle # "none" => mine /\ visible' /\ ~disposed,
         FetchAndRefresh(workspaces, handle)
  PROVE  Own'
  <1>1. Owned /\ Polls /\ Watches
    BY OwnParts
  <1>2. Owned' /\ UNCHANGED <<mine, session, kind, disposed>>
    BY <1>1 DEF Owned
  <1>3. UNCHANGED <<agentWatchers, sockets>>
    BY DEF watcherVars
  <1>4. Watches'
    BY <1>1, <1>2, <1>3 DEF Watches, WatchersOfThisSession
  <1>5. handle # "none" => mine' /\ visible' /\ ~disposed'
    BY <1>2
  <1>6. Polls'
    BY <1>1, <1>2, <1>3, <1>5, FetchKeepsPolls
    DEF Polls, ShowsThisSession, FetchKnowsSession
  <1> QED
    BY <1>2, <1>4, <1>6, OwnParts DEF Own, Owned, Polls, Watches, TypeOK

\* Hiding the tree disarms the timer, showing it arms one or fetches.
LEMMA SetVisibilityOwn == Own /\ SetVisibility => Own'
  <1> SUFFICES ASSUME Own, SetVisibility PROVE Own'
    OBVIOUS
  <1>1. Owned /\ Polls /\ Watches
    BY OwnParts
  <1>2. /\ ~disposed /\ visible' \in BOOLEAN
        /\ UNCHANGED <<mine, session, kind, disposed, watcherVars>>
        /\ visible' = ~visible
    BY <1>1 DEF SetVisibility, Owned
  <1>3. Owned' /\ Watches'
    BY <1>1, <1>2 DEF Owned, Watches, WatchersOfThisSession, watcherVars
  <1>4. CASE visible /\ timeout' = "none" /\ UNCHANGED <<workspaces, fetch, refetchPending>>
    <2>1. ~visible'
      BY <1>1, <1>2, <1>4 DEF Owned
    <2>2. Polls'
      BY <1>1, <1>2, <1>4, <2>1
      DEF Polls, ShowsThisSession, FetchesWhatIsMissing, HiddenIsQuiet,
          FetchKnowsSession, fetching, watcherVars
    <2> QED
      BY <1>3, <2>2, OwnParts DEF Own, Owned, Polls, Watches, TypeOK
  <1>5. CASE /\ ~visible /\ workspaces # Undefined
             /\ timeout' = MaybeScheduleRefresh(timeout)
             /\ UNCHANGED <<workspaces, fetch, refetchPending>>
    <2>1. visible' = TRUE
      BY <1>1, <1>2, <1>5 DEF Owned
    <2>2. timeout' \in {"none", "armed", "fired"} /\ (timeout' # "none" => mine)
      BY <1>1, <1>5 DEF Polls, MaybeScheduleRefresh
    <2>3. Polls'
      BY <1>1, <1>2, <1>5, <2>1, <2>2
      DEF Polls, ShowsThisSession, FetchesWhatIsMissing, HiddenIsQuiet,
          FetchKnowsSession, fetching, watcherVars
    <2> QED
      BY <1>3, <2>3, OwnParts DEF Own, Owned, Polls, Watches, TypeOK
  <1>6. CASE ~visible /\ workspaces = Undefined /\ FetchAndRefresh(workspaces, timeout)
    <2>1. timeout = "none"
      BY <1>1, <1>6 DEF Polls, HiddenIsQuiet
    <2> QED
      BY <1>2, <1>6, <2>1, FetchKeepsOwn
  <1> QED
    BY <1>4, <1>5, <1>6 DEF SetVisibility

\* A poll and the refresh command are calls of fetchAndRefresh().
LEMMA RefreshOwn == Own /\ (RefreshWorkspaces \/ TimerFires) => Own'
  <1> SUFFICES ASSUME Own, RefreshWorkspaces \/ TimerFires PROVE Own'
    OBVIOUS
  <1>1. Owned /\ Polls
    BY OwnParts
  <1>2. /\ UNCHANGED <<mine, session, kind, disposed, watcherVars>>
        /\ visible' = visible /\ visible' \in BOOLEAN
    BY <1>1 DEF RefreshWorkspaces, TimerFires, owner, Owned
  <1>3. /\ timeout \in {"none", "armed", "fired"}
        /\ timeout # "none" => mine /\ visible /\ ~disposed
    BY <1>1 DEF Polls, HiddenIsQuiet, Owned
  <1>4. CASE RefreshWorkspaces
    BY <1>2, <1>3, <1>4, FetchKeepsOwn DEF RefreshWorkspaces
  <1>5. CASE TimerFires
    <2>1. timeout = "armed" /\ FetchAndRefresh(workspaces, "fired")
      BY <1>5 DEF TimerFires
    <2> QED
      BY <1>2, <1>3, <2>1, FetchKeepsOwn
  <1> QED
    BY <1>4, <1>5

\* Disposal clears everything but the fetch in flight.
LEMMA DisposeOwn == Own /\ Dispose => Own'
  <1> SUFFICES ASSUME Own, Dispose PROVE Own'
    OBVIOUS
  <1>1. Owned /\ Polls /\ Watches
    BY OwnParts
  <1>2. disposed' = TRUE /\ UNCHANGED <<mine, session, kind, visible, fetch, refetchPending>>
    BY DEF Dispose
  <1>3. Owned'
    BY <1>1, <1>2 DEF Owned
  <1>4. Watches'
    BY <1>1 DEF Dispose, Watches, WatchersOfThisSession
  <1>5. workspaces' = Undefined /\ timeout' = "none"
    BY DEF Dispose
  <1>6. 0 \in 0..MaxSessions
    BY Constants
  <1>7. workspaces'.what = "undefined"
    BY <1>5 DEF Undefined, Shown
  <1>8. Polls'
    BY <1>1, <1>2, <1>5, <1>6, <1>7, ShownType
    DEF Polls, ShowsThisSession, FetchesWhatIsMissing, HiddenIsQuiet,
        FetchKnowsSession, fetching, Undefined
  <1> QED
    BY <1>3, <1>4, <1>8, OwnParts DEF Own, Owned, Polls, Watches, TypeOK

\* A failure empties the tree, for the session in use as well.
LEMMA FetchFailsOwn == Own /\ FetchFails => Own'
  <1> SUFFICES ASSUME Own, FetchFails PROVE Own'
    OBVIOUS
  <1>1. Owned /\ Polls /\ Watches
    BY OwnParts
  <1>2. UNCHANGED owner /\ UNCHANGED watcherVars /\ fetching
    BY DEF FetchFails
  <1>3. Owned' /\ Watches'
    BY <1>1, <1>2 DEF Owned, Watches, WatchersOfThisSession, owner, watcherVars
  <1>4. Settle(Shown("failed", fetch.of), TRUE) /\ fetch.of \in 0..MaxSessions
    BY <1>1 DEF FetchFails, Polls
  <1>5. Polls'
    BY <1>1, <1>2, <1>4, SettleKeepsPolls, ShownType
  <1> QED
    BY <1>3, <1>5, OwnParts DEF Own, Owned, Polls, Watches, TypeOK

\* An answer is dropped, finishes the list or opens watchers that are new.
LEMMA AnsweredOwn == Own /\ WorkspacesAnswered => Own'
  <1> SUFFICES ASSUME Own, WorkspacesAnswered PROVE Own'
    OBVIOUS
  <1>1. Owned /\ Polls /\ Watches
    BY OwnParts
  <1>2. UNCHANGED owner /\ fetching /\ fetch.pc = "requesting"
    BY DEF WorkspacesAnswered, fetching
  <1>3. CASE sessionChangedSince /\ Settle(workspaces, FALSE) /\ UNCHANGED watcherVars
    BY <1>2, <1>3, DroppedKeepsOwn
  <1>4. CASE ~sessionChangedSince
    <2> DEFINE kept == {w.agent : w \in agentWatchers}
    <2>1. fetch.of = session /\ UNCHANGED <<mine, session, kind, visible, disposed>>
      BY <1>2, <1>4 DEF sessionChangedSince, owner
    <2>2. PICK agents \in IF mine THEN SUBSET Agents ELSE {{}} :
            \/ agents \subseteq kept /\ Finish(kept \ agents)
            \/ /\ ~(agents \subseteq kept)
               /\ fetch' = [fetch EXCEPT !.pc = "watching", !.new = agents \ kept,
                                         !.drop = kept \ agents]
               /\ UNCHANGED <<workspaces, refetchPending, timeout, watcherVars>>
      BY <1>4 DEF WorkspacesAnswered
    <2>3. agents \subseteq Agents /\ kept \subseteq Agents
      BY <1>1, <2>2 DEF Watches, Watchers
    <2>4. CASE agents \subseteq kept /\ Finish(kept \ agents)
      BY <1>2, <2>1, <2>4, FinishKeepsOwn
    <2>5. CASE /\ fetch' = [fetch EXCEPT !.pc = "watching", !.new = agents \ kept,
                                         !.drop = kept \ agents]
               /\ UNCHANGED <<workspaces, refetchPending, timeout, watcherVars>>
      <3>1. /\ fetch' \in [pc : {"idle", "requesting", "watching"}, of : 0..MaxSessions,
                            new : SUBSET Agents, drop : SUBSET Agents]
            /\ fetch'.pc = "watching" /\ fetch'.of = session
            /\ fetch'.new = agents \ kept
        BY <1>1, <2>1, <2>3, <2>5 DEF Polls
      <3>2. UNCHANGED <<agentWatchers, sockets>>
        BY <2>5 DEF watcherVars
      <3>3. \A w \in agentWatchers' : w.agent \notin fetch'.new
        BY <3>1, <3>2
      <3>4. session <= session /\ kind = "signedIn"
        BY <1>1, <1>2, <2>1, Constants DEF Polls, Owned, FetchKnowsSession
      <3>5. Polls'
        BY <1>1, <2>1, <2>5, <3>1, <3>3, <3>4
        DEF Polls, ShowsThisSession, FetchesWhatIsMissing, HiddenIsQuiet,
            FetchKnowsSession, fetching
      <3>6. Owned' /\ Watches'
        BY <1>1, <2>1, <3>2 DEF Owned, Watches, WatchersOfThisSession
      <3> QED
        BY <3>5, <3>6, OwnParts DEF Own, Owned, Polls, Watches, TypeOK
    <2> QED
      BY <2>2, <2>4, <2>5
  <1> QED
    BY <1>3, <1>4 DEF WorkspacesAnswered

\* A watcher is kept or, when it was overtaken, closed again.
LEMMA OpenedOwn == ASSUME NEW a \in Agents PROVE Own /\ WatcherOpened(a) => Own'
  <1> SUFFICES ASSUME Own, WatcherOpened(a) PROVE Own'
    OBVIOUS
  <1>1. fetch.pc = "watching" /\ a \in fetch.new /\ UNCHANGED owner /\ fetching
    BY DEF WatcherOpened, fetching
  <1>2. CASE /\ disposed \/ sessionChangedSince
             /\ Settle(workspaces, FALSE)
             /\ UNCHANGED watcherVars
    BY <1>1, <1>2, DroppedKeepsOwn
  <1>3. CASE ~disposed /\ ~sessionChangedSince /\ KeepWatcher(a)
    <2>1. fetch.of = session
      BY <1>3 DEF sessionChangedSince
    <2> QED
      BY <1>1, <1>3, <2>1, KeepKeepsOwn
  <1> QED
    BY <1>2, <1>3 DEF WatcherOpened

-----------------------------------------------------------------------------
\* Every step of the provider, its owner, the server and the timer keeps Own.
THEOREM StepOwn == Own /\ [Next]_vars => Own'
  <1> SUFFICES ASSUME Own, [Next]_vars PROVE Own'
    OBVIOUS
  <1>1. CASE SessionChanges
    BY <1>1, SessionChangesOwn
  <1>2. CASE SetVisibility
    BY <1>2, SetVisibilityOwn
  <1>3. CASE RefreshWorkspaces \/ TimerFires
    BY <1>3, RefreshOwn
  <1>4. CASE Dispose
    BY <1>4, DisposeOwn
  <1>5. CASE WorkspacesAnswered
    BY <1>5, AnsweredOwn
  <1>6. CASE FetchFails
    BY <1>6, FetchFailsOwn
  <1>7. CASE \E a \in Agents : WatcherOpened(a)
    BY <1>7, OpenedOwn
  <1>8. CASE UNCHANGED vars
    BY <1>8
    DEF vars, owner, fetchVars, watcherVars, Own, TypeOK, ShowsThisSession,
        WatchersOfThisSession, FetchesWhatIsMissing, HiddenIsQuiet,
        FetchKnowsSession, fetching
  <1> QED
    BY <1>1, <1>2, <1>3, <1>4, <1>5, <1>6, <1>7, <1>8 DEF Next

\* Types hold whatever the agents and however many sessions there are.
THEOREM PollingTypes == Spec => []TypeOK
  <1>1. Own => TypeOK
    BY DEF Own
  <1> QED
    BY InitOwn, StepOwn, <1>1, PTL DEF Spec

\* A list and a metadata watcher always belong to the session in use, although
\* fetches and openings of watchers are overtaken by sign-outs and disposal.
THEOREM OnlyThisSession == Spec => []TreeFollowsSession
  <1>1. Own => TreeFollowsSession
    BY DEF Own, TreeFollowsSession
  <1> QED
    BY InitOwn, StepOwn, <1>1, PTL DEF Spec

\* No visible tree is empty without a fetch for the session in use under way.
THEOREM NothingMissingForgotten == Spec => []FetchesWhatIsMissing
  <1>1. Own => FetchesWhatIsMissing
    BY DEF Own
  <1> QED
    BY InitOwn, StepOwn, <1>1, PTL DEF Spec

\* No timer outlives the visibility of the tree or the provider.
THEOREM QuietWhenHidden == Spec => []HiddenIsQuiet
  <1>1. Own => HiddenIsQuiet
    BY DEF Own
  <1> QED
    BY InitOwn, StepOwn, <1>1, PTL DEF Spec
=============================================================================
