-------------------------- MODULE WorkspacePolling --------------------------
(***************************************************************************)
(* WorkspaceProvider of src/workspace/workspacesProvider.ts: one tree of   *)
(* workspaces that polls while it is visible, the session that changes     *)
(* under its requests, and the metadata watchers it keeps per agent.       *)
(*                                                                         *)
(* A fetch is "requesting" the workspaces or "watching": opening the       *)
(* watchers of new agents one after the other.  What runs between two      *)
(* awaits of I/O is one step.                                              *)
(***************************************************************************)
EXTENDS Naturals

CONSTANTS
  Agents,      \* agents of the workspaces of all sessions
  MaxSessions  \* sessions in a behaviour (a bound of the model)

ASSUME PollingAssumption == MaxSessions \in Nat

VARIABLES
  mine,           \* the view polls and shows metadata (WorkspaceQuery.Mine)
  session,        \* identity of sessionState.current
  kind,           \* "signedIn" or "signedOut"
  visible,
  disposed,
  workspaces,     \* what is shown, with the session it was asked in
  fetch,          \* the fetch in flight
  refetchPending,
  timeout,        \* this.timeout: none, armed, or a handle whose timer fired
  agentWatchers,  \* the map: agents, each with the session it was opened in
  sockets         \* the metadata streams that are open

fetchVars   == <<workspaces, fetch, refetchPending, timeout>>
watcherVars == <<agentWatchers, sockets>>
owner       == <<mine, session, kind, visible, disposed>>
vars == <<owner, fetchVars, watcherVars>>

Shown(what, s) == [what |-> what, of |-> s]
Undefined == Shown("undefined", 0)

Idle == [pc |-> "idle", of |-> 0, new |-> {}, drop |-> {}]
Requesting(s) == [Idle EXCEPT !.pc = "requesting", !.of = s]
fetching == fetch.pc # "idle"

Watchers == [agent : Agents, of : 0..MaxSessions]
WatchersOf(agents) == {w \in agentWatchers : w.agent \in agents}

Init ==
  /\ mine \in BOOLEAN
  /\ session = 0 /\ kind = "signedOut"
  /\ visible = FALSE /\ disposed = FALSE
  /\ workspaces = Undefined
  /\ fetch = Idle /\ refetchPending = FALSE
  /\ timeout = "none"
  /\ agentWatchers = {} /\ sockets = {}

-----------------------------------------------------------------------------
(* The methods the handlers share, after the primed owner variables. *)

MaybeScheduleRefresh(handle) ==
  IF mine /\ handle = "none" THEN "armed" ELSE handle

\* One round of the loop: signed out, the answer is an empty list at once.
Round ==
  /\ refetchPending' = FALSE
  /\ \/ kind' = "signedIn" /\ fetch' = Requesting(session')
     \/ kind' = "signedOut" /\ fetch' = Idle

\* Mutant: a caller that finds a fetch in flight leaves no mark.
FetchForgets(shown, handle) ==
  \/ /\ disposed' \/ ~visible' \/ fetching
     /\ UNCHANGED <<fetch, refetchPending>>
     /\ workspaces' = shown /\ timeout' = handle
  \/ /\ ~disposed' /\ visible' /\ ~fetching
     /\ Round
     /\ timeout' = "none"
     /\ workspaces' = IF kind' = "signedOut" THEN Shown("empty", session') ELSE shown

\* fetchAndRefresh(), called with what is shown and the timer at that moment.
FetchAndRefresh(shown, handle) ==
  \/ /\ disposed' \/ ~visible'
     /\ UNCHANGED <<fetch, refetchPending>>
     /\ workspaces' = shown /\ timeout' = handle
  \/ /\ ~disposed' /\ visible' /\ fetching
     /\ refetchPending' = TRUE
     /\ UNCHANGED fetch
     /\ workspaces' = shown /\ timeout' = handle
  \/ /\ ~disposed' /\ visible' /\ ~fetching
     /\ Round
     /\ timeout' = "none"
     /\ workspaces' = IF kind' = "signedOut" THEN Shown("empty", session') ELSE shown

\* Mutant: the end of a fetch does not look whether the tree was hidden.
SettlesHidden(shown, failed) ==
  \/ /\ refetchPending /\ ~disposed /\ visible
     /\ Round
     /\ UNCHANGED timeout
     /\ workspaces' = IF kind = "signedOut" THEN Shown("empty", session) ELSE shown
  \/ /\ ~refetchPending \/ disposed \/ ~visible
     /\ fetch' = Idle /\ UNCHANGED refetchPending
     /\ workspaces' = IF disposed THEN workspaces ELSE shown
     /\ timeout' = IF ~failed /\ ~disposed /\ kind = "signedIn"
                   THEN MaybeScheduleRefresh(timeout) ELSE timeout

\* The end of a round of fetchAndRefresh(): another one, or the next poll.
Settle(shown, failed) ==
  \/ /\ refetchPending /\ ~disposed /\ visible
     /\ Round
     /\ UNCHANGED timeout
     /\ workspaces' = IF kind = "signedOut" THEN Shown("empty", session) ELSE shown
  \/ /\ ~refetchPending \/ disposed \/ ~visible
     /\ fetch' = Idle /\ UNCHANGED refetchPending
     /\ workspaces' = IF disposed THEN workspaces ELSE shown
     /\ timeout' = IF ~failed /\ ~disposed /\ visible /\ kind = "signedIn"
                   THEN MaybeScheduleRefresh(timeout) ELSE timeout

sessionChangedSince == session # fetch.of

-----------------------------------------------------------------------------
(* Calls from outside: the session, the view, the refresh command, disposal. *)

\* The session is replaced; a provider that is not disposed clears and fetches.
SessionChanges ==
  /\ session < MaxSessions
  /\ session' = session + 1
  /\ kind' \in {"signedIn", "signedOut"}
  /\ UNCHANGED <<mine, visible, disposed>>
  /\ \/ disposed /\ UNCHANGED <<fetchVars, watcherVars>>
     \/ /\ ~disposed
        /\ sockets' = sockets \ agentWatchers /\ agentWatchers' = {}
        /\ FetchAndRefresh(Undefined, "none")

SetVisibility ==
  /\ ~disposed
  /\ visible' = ~visible
  /\ UNCHANGED <<mine, session, kind, disposed, watcherVars>>
  /\ \/ /\ visible
        /\ timeout' = "none"
        /\ UNCHANGED <<workspaces, fetch, refetchPending>>
     \/ /\ ~visible /\ workspaces # Undefined
        /\ timeout' = MaybeScheduleRefresh(timeout)
        /\ UNCHANGED <<workspaces, fetch, refetchPending>>
     \/ /\ ~visible /\ workspaces = Undefined
        /\ FetchAndRefresh(workspaces, timeout)

\* The command coder.refreshWorkspaces.
RefreshWorkspaces ==
  /\ UNCHANGED <<owner, watcherVars>>
  /\ FetchAndRefresh(workspaces, timeout)

\* The callback leaves this.timeout set: only fetchAndRefresh may clear it.
TimerFires ==
  /\ timeout = "armed"
  /\ UNCHANGED <<owner, watcherVars>>
  /\ FetchAndRefresh(workspaces, "fired")

Dispose ==
  /\ ~disposed
  /\ disposed' = TRUE
  /\ timeout' = "none"
  /\ sockets' = sockets \ agentWatchers /\ agentWatchers' = {}
  /\ workspaces' = Undefined
  /\ UNCHANGED <<mine, session, kind, visible, fetch, refetchPending>>

-----------------------------------------------------------------------------
(* The fetch. *)

\* The list is complete: watchers of agents that are gone are disposed.
Finish(drop) ==
  /\ sockets' = sockets \ WatchersOf(drop)
  /\ agentWatchers' = agentWatchers \ WatchersOf(drop)
  /\ Settle(Shown("list", session), FALSE)

WorkspacesAnswered ==
  /\ fetch.pc = "requesting"
  /\ UNCHANGED owner
  /\ \/ /\ sessionChangedSince
        /\ Settle(workspaces, FALSE)
        /\ UNCHANGED watcherVars
     \/ /\ ~sessionChangedSince
        /\ \E agents \in IF mine THEN SUBSET Agents ELSE {{}} :
             LET kept == {w.agent : w \in agentWatchers}
             IN \/ agents \subseteq kept /\ Finish(kept \ agents)
                \/ /\ ~(agents \subseteq kept)
                   /\ fetch' = [fetch EXCEPT !.pc = "watching", !.new = agents \ kept,
                                             !.drop = kept \ agents]
                   /\ UNCHANGED <<workspaces, refetchPending, timeout, watcherVars>>

\* The watcher of one agent is open: kept, and the last one ends the list.
KeepWatcher(a) ==
  LET w == [agent |-> a, of |-> fetch.of]
  IN \/ /\ fetch.new # {a}
        /\ fetch' = [fetch EXCEPT !.new = @ \ {a}]
        /\ sockets' = sockets \cup {w} /\ agentWatchers' = agentWatchers \cup {w}
        /\ UNCHANGED <<workspaces, refetchPending, timeout>>
     \/ /\ fetch.new = {a}
        /\ sockets' = (sockets \cup {w}) \ WatchersOf(fetch.drop)
        /\ agentWatchers' = (agentWatchers \cup {w}) \ WatchersOf(fetch.drop)
        /\ Settle(Shown("list", session), FALSE)

\* Mutant: the watcher is kept without looking at what happened meanwhile.
WatcherKeptAnyway(a) ==
  /\ fetch.pc = "watching" /\ a \in fetch.new
  /\ UNCHANGED owner
  /\ KeepWatcher(a)

WatcherOpened(a) ==
  /\ fetch.pc = "watching" /\ a \in fetch.new
  /\ UNCHANGED owner
  /\ \/ /\ disposed \/ sessionChangedSince
        /\ Settle(workspaces, FALSE)
        /\ UNCHANGED watcherVars
     \/ /\ ~disposed /\ ~sessionChangedSince
        /\ KeepWatcher(a)

\* The request or the opening of a watcher fails: the tree is emptied.
FetchFails ==
  /\ fetching
  /\ UNCHANGED <<owner, watcherVars>>
  /\ Settle(Shown("failed", fetch.of), TRUE)

Next ==
  \/ SessionChanges \/ SetVisibility \/ RefreshWorkspaces \/ TimerFires \/ Dispose
  \/ WorkspacesAnswered \/ FetchFails
  \/ \E a \in Agents : WatcherOpened(a)

Spec == Init /\ [][Next]_vars

\* Timers fire and requests are answered or fail; nothing is promised about the
\* user or the session.
Fairness ==
  /\ WF_vars(TimerFires)
  /\ WF_vars(WorkspacesAnswered \/ FetchFails \/ \E a \in Agents : WatcherOpened(a))

FairSpec == Spec /\ Fairness

-----------------------------------------------------------------------------
(* Types, and a timer only where the view has an interval. *)
TypeOK ==
  /\ mine \in BOOLEAN /\ visible \in BOOLEAN /\ disposed \in BOOLEAN
  /\ session \in 0..MaxSessions
  /\ kind \in {"signedIn", "signedOut"}
  /\ workspaces \in [what : {"undefined", "empty", "failed", "list"}, of : 0..MaxSessions]
  /\ fetch \in [pc : {"idle", "requesting", "watching"}, of : 0..MaxSessions,
                new : SUBSET Agents, drop : SUBSET Agents]
  /\ refetchPending \in BOOLEAN
  /\ timeout \in {"none", "armed", "fired"}
  /\ timeout # "none" => mine
  /\ agentWatchers \subseteq Watchers /\ sockets \subseteq Watchers

\* A list is shown to the session it was asked for, never to its successor.
ShowsThisSession ==
  workspaces.what = "list" => workspaces.of = session /\ kind = "signedIn"

\* Every open metadata stream is one the map can close, of this session, and a
\* disposed provider has none.
WatchersOfThisSession ==
  /\ sockets = agentWatchers
  /\ \A w \in agentWatchers : w.of = session /\ ~disposed
  /\ \A v, w \in agentWatchers : v.agent = w.agent => v = w

\* The list and the watchers of the tree belong to the session in use.
TreeFollowsSession == TypeOK /\ ShowsThisSession /\ WatchersOfThisSession

\* A visible tree with nothing to show is being fetched for the session in use,
\* or will be as soon as the fetch in flight settles.
FetchesWhatIsMissing ==
  visible /\ ~disposed /\ workspaces = Undefined =>
    fetching /\ (fetch.of = session \/ refetchPending)

\* A tree that stays visible is filled or emptied in the end, however often the
\* session changed while it was fetched.
EventuallyShown ==
  visible /\ ~disposed ~> workspaces # Undefined \/ ~visible \/ disposed

\* A hidden or disposed tree keeps no timer, whatever was in flight when it was
\* hidden.
HiddenIsQuiet == ~visible \/ disposed => timeout = "none"

\* "Schedule the next poll, unless one is pending": a visible tree that shows
\* the workspaces of the session has a poll ahead.
PollingContinues ==
  mine /\ visible /\ ~disposed /\ workspaces.what = "list" /\ ~fetching =>
    timeout = "armed"
=============================================================================
