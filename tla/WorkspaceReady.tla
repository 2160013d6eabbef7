--------------------------- MODULE WorkspaceReady ---------------------------
(***************************************************************************)
(* The wait for a workspace, src/remote/workspaceStateMachine.ts, in the   *)
(* loop of waitForWorkspaceReady, src/remote/remote.ts: events of the      *)
(* workspace are processed one at a time, each may start or update the     *)
(* workspace, ask the user or open a log stream, and while one is at an    *)
(* await the server goes on and only the last event is kept.               *)
(*                                                                         *)
(* A workspace is the snapshot an event or a request brought: the status   *)
(* of its latest build, that build's number and the state of its agent.    *)
(* Every build makes new agents, so the build stands for the agent's id.   *)
(***************************************************************************)
EXTENDS Naturals

CONSTANTS
  None,
  MaxBuilds   \* builds of the workspace; the server refuses more (a bound)

ASSUME ReadyAssumption == MaxBuilds \in Nat \ {0}

VARIABLES
  server,     \* the workspace as the deployment has it
  news,       \* the deployment has not sent its latest state
  pc,         \* where the processing of a workspace is
  ws,         \* the workspace processed: WorkspaceStateMachine.workspace
  pending,    \* pendingWorkspace
  mode,       \* startupMode
  agent,      \* the build whose agent was selected, 0 for none
  buildLog, agentLog,   \* LazyStreams: "open" or "closed"
  failure     \* why the wait was rejected

readyVars == <<server, news, pc, ws, pending, mode, agent, buildLog, agentLog, failure>>
remote    == <<server, news>>
streams   == <<buildLog, agentLog>>

\* "stopped" stands for failed too, "starting" for pending, "gone" for the
\* statuses of deletion and cancellation.
Statuses == {"stopped", "starting", "stopping", "running", "gone"}

\* The agent's status and lifecycle as far as processWorkspace tells them apart:
\* "connecting" (or timed out, or created), "blocking" (start scripts that block
\* the login), "starting" (others), "ready" (or failed scripts), "lost"
\* (disconnected, shutting down, off).
Agents == {"none", "connecting", "blocking", "starting", "ready", "lost"}

Workspaces == [status : Statuses, build : 1..MaxBuilds, agent : Agents]
WithBuild(status) ==
  [status |-> status, build |-> server.build + 1, agent |-> "none"]
CanBuild == server.build < MaxBuilds

ReadyInit(startupMode) ==
  /\ \E s \in {"stopped", "starting", "running"} :
       server = [status |-> s, build |-> 1,
                 agent |-> IF s = "running" THEN "connecting" ELSE "none"]
  /\ news = FALSE
  /\ pc = "idle"
  /\ ws = None /\ pending = None
  /\ mode = startupMode
  /\ agent = 0
  /\ buildLog = "closed" /\ agentLog = "closed"
  /\ failure = "none"

-----------------------------------------------------------------------------
(* waitForWorkspaceReady: one workspace at a time, the last one kept. *)

Process(w) == pc' = "dispatch" /\ ws' = w /\ pending' = None

\* The subscription is disposed with the result: no event is heard any more.
Resolve == pc' = "resolved" /\ pending' = None /\ UNCHANGED <<ws, failure>>
Reject(why) == pc' = "rejected" /\ pending' = None /\ ws' = None /\ failure' = why

\* Not ready yet: the finally, and the event that came meanwhile.
Again ==
  /\ \/ pending # None /\ Process(pending)
     \/ pending = None /\ pc' = "waiting" /\ ws' = None /\ UNCHANGED pending
  /\ UNCHANGED failure

Waiting == pc \notin {"idle", "resolved", "rejected"}

\* Mutant: an event that comes while another is processed is dropped.
WorkspaceEventDropped ==
  /\ Waiting /\ news
  /\ news' = FALSE
  /\ \/ pc = "waiting" /\ Process(server)
     \/ pc # "waiting" /\ UNCHANGED <<pc, ws, pending>>
  /\ UNCHANGED <<server, mode, agent, streams, failure>>

\* WorkspaceMonitor's message: the state the deployment has by now.
WorkspaceEvent ==
  /\ Waiting /\ news
  /\ news' = FALSE
  /\ \/ pc = "waiting" /\ Process(server)
     \/ pc # "waiting" /\ pending' = server /\ UNCHANGED <<pc, ws>>
  /\ UNCHANGED <<server, mode, agent, streams, failure>>

-----------------------------------------------------------------------------
(* processWorkspace *)

At(p) == pc = p
Goto(p) == pc' = p /\ UNCHANGED <<ws, pending, failure>>

DispatchRunning ==
  /\ At("dispatch") /\ ws.status = "running"
  /\ buildLog' = "closed"
  /\ mode' = IF mode = "update" THEN "start" ELSE mode
  /\ Goto(IF mode = "update" THEN "collect" ELSE "agent")
  /\ UNCHANGED <<remote, agent, agentLog>>

DispatchStopped ==
  /\ At("dispatch") /\ ws.status = "stopped"
  /\ buildLog' = "closed"
  /\ mode' = IF mode = "update" THEN "start" ELSE mode
  /\ Goto([none |-> "confirm", update |-> "collect", start |-> "start"][mode])
  /\ UNCHANGED <<remote, agent, agentLog>>

\* LazyStream.open: nothing to do while the stream is open.
DispatchBuilding ==
  /\ At("dispatch") /\ ws.status \in {"starting", "stopping"}
  /\ agent' = 0 /\ agentLog' = "closed"
  /\ \/ buildLog = "closed" /\ Goto("openBuildLog")
     \/ buildLog = "open" /\ Again
  /\ UNCHANGED <<remote, mode, buildLog>>

DispatchGone ==
  /\ At("dispatch") /\ ws.status = "gone"
  /\ buildLog' = "closed"
  /\ Reject("gone")
  /\ UNCHANGED <<remote, mode, agent, agentLog>>

StreamBuildLogs ==
  /\ At("openBuildLog")
  /\ \/ buildLog' = "open" /\ Again
     \/ UNCHANGED buildLog /\ Reject("logs")
  /\ UNCHANGED <<remote, mode, agent, agentLog>>

\* A workspace is offered the update when it is outdated, whatever it is here.
ConfirmStartOrUpdate ==
  /\ At("confirm")
  /\ \/ mode' = "start" /\ Goto("start")
     \/ mode' = "start" /\ Goto("collect")
     \/ UNCHANGED mode /\ Reject("cancelled")
  /\ UNCHANGED <<remote, agent, streams>>

\* startWorkspace: the CLI starts a stopped workspace, waits for a build that
\* is under way, and otherwise finds nothing to do.
TriggerStart ==
  /\ At("start")
  /\ \/ /\ server.status = "stopped" /\ CanBuild
        /\ server' = WithBuild("starting") /\ news' = TRUE
        /\ Goto("startWait")
     \/ server.status # "stopped" /\ Goto("startWait") /\ UNCHANGED remote
     \/ Reject("start") /\ UNCHANGED remote
  /\ UNCHANGED <<mode, agent, streams>>

\* The CLI exits when the build has ended, and fails with it.
StartEnds ==
  /\ At("startWait") /\ server.status \notin {"starting", "stopping"}
  /\ \/ server.status = "running" /\ Again
     \/ Reject("start")
  /\ UNCHANGED <<remote, mode, agent, streams>>

-----------------------------------------------------------------------------
(* maybeUpdate.  The mode was set back beforehand, so that it is tried once. *)

\* Mutant: an update that failed leaves the stopped workspace to the next event.
UpdateFailsAndWaits ==
  \/ ws.status = "running" /\ Goto("agent")
  \/ ws.status # "running" /\ Again

\* "Continuing with the existing version": with the workspace as it was read.
UpdateFails == Goto(IF ws.status = "running" THEN "agent" ELSE "start")

\* A parameter of the new version, and the value the last build has for it.
Parameters == [mutable : BOOLEAN, required : BOOLEAN, form : {"text", "single", "multi"}]
Stored     == {"absent", "offered", "withdrawn", "unreadable"}

Drifted(param, stored) ==
  stored = "withdrawn" \/ (param.form = "multi" /\ stored = "unreadable")

PromptSpec(param, stored) ==
  IF stored = "absent" THEN ~param.mutable \/ param.required
                       ELSE param.form # "text" /\ Drifted(param, stored)

\* Two requests, then a prompt per parameter that needs one.
CollectUpdateParameters ==
  /\ At("collect")
  /\ \/ \E p \in Parameters, s \in Stored : PromptSpec(p, s) /\ UpdateFails  \* dismissed
     \/ Goto("update")
     \/ UpdateFails                                                          \* a request failed
  /\ UNCHANGED <<remote, mode, agent, streams>>

\* The workspace that was running when it was read is stopped first, by
\* `coder update` or by a request of our own.
UpdateStops ==
  /\ At("update")
  /\ \/ ws.status # "running" /\ Goto("updateStart") /\ UNCHANGED remote
     \/ /\ ws.status = "running" /\ server.status = "running" /\ CanBuild
        /\ server' = WithBuild("stopping") /\ news' = TRUE
        /\ Goto("updateWait")
     \/ ws.status = "running" /\ UpdateFails /\ UNCHANGED remote
  /\ UNCHANGED <<mode, agent, streams>>

UpdateStopped ==
  /\ At("updateWait") /\ server.status # "stopping"
  /\ Goto("updateStart") \/ UpdateFails
  /\ UNCHANGED <<remote, mode, agent, streams>>

\* The server refuses a build while another is under way.
UpdateStarts ==
  /\ At("updateStart")
  /\ \/ /\ server.status \in {"stopped", "running"} /\ CanBuild
        /\ server' = WithBuild("starting") /\ news' = TRUE
        /\ Goto("updated")
     \/ UpdateFails /\ UNCHANGED remote
  /\ UNCHANGED <<mode, agent, streams>>

\* Mutant: the agent selected before the update is kept.
UpdatedKeepsAgent ==
  /\ At("updated")
  /\ \/ server.status = "running" /\ pc' = "agent" /\ ws' = server /\ UNCHANGED <<pending, failure>>
     \/ server.status # "running" /\ Again
     \/ UpdateFails
  /\ UNCHANGED <<remote, mode, agent, streams>>

\* getWorkspace after the build was posted, or after the CLI saw it end.
Updated ==
  /\ At("updated")
  /\ \/ /\ agent' = 0
        /\ \/ server.status = "running" /\ pc' = "agent" /\ ws' = server /\ UNCHANGED <<pending, failure>>
           \/ server.status # "running" /\ Again
     \/ UpdateFails /\ UNCHANGED agent
  /\ UNCHANGED <<remote, mode, streams>>

-----------------------------------------------------------------------------
(* The agent. *)

\* The agent of a build that was replaced unseen is not among the agents.
CheckAgent ==
  \/ agent' # ws.build /\ Reject("agentNotFound") /\ UNCHANGED agentLog
  \/ /\ agent' = ws.build
     /\ CASE ws.agent = "connecting" -> Again /\ UNCHANGED agentLog
          [] ws.agent = "lost"       -> Reject("agent") /\ UNCHANGED agentLog
          [] ws.agent = "starting"   -> Resolve /\ UNCHANGED agentLog
          [] ws.agent = "ready"      -> Resolve /\ agentLog' = "closed"
          [] ws.agent = "blocking"   ->
               /\ UNCHANGED agentLog
               /\ IF agentLog = "open" THEN Again ELSE Goto("openAgentLog")

\* Mutant: an agent that was selected is taken for one of the workspace.
SelectAgentOnce ==
  /\ At("agent")
  /\ agent' = IF agent = 0 THEN ws.build ELSE agent
  /\ CASE ws.agent \in {"starting", "ready"} -> Resolve /\ UNCHANGED agentLog
       [] ws.agent = "lost" -> Reject("agent") /\ UNCHANGED agentLog
       [] OTHER -> Again /\ UNCHANGED agentLog
  /\ UNCHANGED <<remote, mode, buildLog>>

\* maybeAskAgent: the only one that matches, or the user's choice; none matches
\* or the user declines.
SelectAgent ==
  /\ At("agent")
  /\ \/ agent' = (IF agent = 0 THEN ws.build ELSE agent) /\ CheckAgent
     \/ agent = 0 /\ Reject("noAgent") /\ UNCHANGED <<agent, agentLog>>
  /\ UNCHANGED <<remote, mode, buildLog>>

StreamAgentLogs ==
  /\ At("openAgentLog")
  /\ \/ agentLog' = "open" /\ Again
     \/ UNCHANGED agentLog /\ Reject("logs")
  /\ UNCHANGED <<remote, mode, agent, buildLog>>

\* A step of the extension's own.
ReadyStep ==
  \/ DispatchRunning \/ DispatchStopped \/ DispatchBuilding \/ DispatchGone
  \/ StreamBuildLogs \/ ConfirmStartOrUpdate \/ TriggerStart \/ StartEnds
  \/ CollectUpdateParameters \/ UpdateStops \/ UpdateStopped \/ UpdateStarts \/ Updated
  \/ SelectAgent \/ StreamAgentLogs

-----------------------------------------------------------------------------
(* The deployment. *)

ServerMoves(w) ==
  /\ server' = w /\ news' = TRUE
  /\ UNCHANGED <<pc, ws, pending, mode, agent, streams, failure>>

BuildEnds ==
  \/ server.status = "stopping" /\ ServerMoves([server EXCEPT !.status = "stopped"])
  \/ /\ server.status = "starting"
     /\ \/ ServerMoves([server EXCEPT !.status = "running", !.agent = "connecting"])
        \/ ServerMoves([server EXCEPT !.status = "stopped"])

NextAgent ==
  [connecting |-> {"blocking", "starting", "ready", "lost"}, blocking |-> {"ready", "lost"},
   starting |-> {"ready"}, ready |-> {"lost"}, lost |-> {"connecting"}, none |-> {}]

AgentMoves ==
  /\ server.status = "running"
  /\ \E a \in NextAgent[server.agent] : ServerMoves([server EXCEPT !.agent = a])

\* Another user, another window, an autostop or an autostart.
OthersBuild ==
  \/ server.status = "stopped" /\ CanBuild /\ ServerMoves(WithBuild("starting"))
  \/ server.status = "running" /\ CanBuild /\ ServerMoves(WithBuild("stopping"))
  \/ server.status \in {"stopped", "running"} /\ CanBuild /\ ServerMoves(WithBuild("gone"))

Deployment == BuildEnds \/ AgentMoves \/ OthersBuild

-----------------------------------------------------------------------------

ReadyTypeOK ==
  /\ server \in Workspaces /\ news \in BOOLEAN
  /\ pc \in {"idle", "waiting", "dispatch", "openBuildLog", "confirm", "start", "startWait",
             "collect", "update", "updateWait", "updateStart", "updated", "agent",
             "openAgentLog", "resolved", "rejected"}
  /\ ws \in Workspaces \cup {None} /\ pending \in Workspaces \cup {None}
  /\ mode \in {"none", "start", "update"}
  /\ agent \in 0..MaxBuilds
  /\ buildLog \in {"open", "closed"} /\ agentLog \in {"open", "closed"}
  /\ failure \in {"none", "gone", "logs", "cancelled", "start", "agentNotFound", "agent", "noAgent"}
=============================================================================
