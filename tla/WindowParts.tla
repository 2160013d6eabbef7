----------------------------- MODULE WindowParts -----------------------------
(* The parts of a window that share no state with each other. Whatever one of  *)
(* them does leaves the others alone, so that their interleavings say nothing  *)
(* new: every behaviour is one part's, chosen in its first state.              *)
EXTENDS SshMonitor, TaskStreams, TasksPanel, Announcements, ApiRequests, ApiStreams,
        DuplicateWorkspace, CliCredentials, CliTerminal, WorkspaceMonitor, Telemetry,
        TelemetryExport

CONSTANT Parts   \* the parts that a run looks at

ASSUME PartsAssumption ==
  Parts \subseteq {"ssh", "streams", "tasks", "announcements", "requests", "sockets",
                   "duplicate", "credentials", "terminal", "monitor", "telemetry", "export"}

VARIABLE part   \* the part that moves

vars == <<part, sshVars, tsVars, tkVars, anVars, arVars, asVars, dwVars, ccVars, ctVars,
          wmVars, tlVars, exVars>>

Init ==
  /\ part \in Parts
  /\ SshInit /\ TsInit /\ TkInit /\ AnInit /\ ArInit /\ AsInit
  /\ DwInit /\ CcInit /\ CtInit /\ WmInit /\ TlInit /\ ExInit

Rests(name, state) == IF part = name THEN TRUE ELSE UNCHANGED state

\* what a step of the chosen part leaves alone
OthersRest ==
  /\ UNCHANGED part
  /\ Rests("ssh", sshVars) /\ Rests("streams", tsVars) /\ Rests("tasks", tkVars)
  /\ Rests("announcements", anVars) /\ Rests("requests", arVars) /\ Rests("sockets", asVars)
  /\ Rests("duplicate", dwVars) /\ Rests("credentials", ccVars) /\ Rests("terminal", ctVars)
  /\ Rests("monitor", wmVars) /\ Rests("telemetry", tlVars) /\ Rests("export", exVars)

Next ==
  \/ part = "ssh" /\ SshNext /\ OthersRest
  \/ part = "streams" /\ TsNext /\ OthersRest
  \/ part = "tasks" /\ TkNext /\ OthersRest
  \/ part = "announcements" /\ AnNext /\ OthersRest
  \/ part = "requests" /\ ArNext /\ OthersRest
  \/ part = "sockets" /\ AsNext /\ OthersRest
  \/ part = "duplicate" /\ DwNext /\ OthersRest
  \/ part = "credentials" /\ CcNext /\ OthersRest
  \/ part = "terminal" /\ CtNext /\ OthersRest
  \/ part = "monitor" /\ WmNext /\ OthersRest
  \/ part = "telemetry" /\ TlNext /\ OthersRest
  \/ part = "export" /\ ExNext /\ OthersRest

Spec == Init /\ [][Next]_vars

\* What each part asked of a timer, of the disk or of a server gets its answer.
Fairness ==
  /\ WF_sshVars(part = "ssh" /\ SshWorks)
  /\ WF_sshVars(part = "ssh" /\ SshAges)
  /\ SF_sshVars(part = "ssh" /\ SshFinds)
  /\ \A r \in Requests : WF_tkVars(part = "tasks" /\ RequestTimesOut(r))
  /\ WF_anVars(part = "announcements" /\ AnWorks)
  /\ SF_anVars(part = "announcements" /\ AnSurfaces)
  /\ WF_arVars(part = "requests" /\ LoginEnds)
  /\ \A c \in Calls : WF_arVars(part = "requests" /\ ArProceeds(c))
  /\ WF_ctVars(part = "terminal" /\ KillTimerFires)
  /\ WF_tlVars(part = "telemetry" /\ TlFlushes)
  /\ WF_tlVars(part = "telemetry" /\ FlushTimerFires)

FairSpec == Spec /\ Fairness

-----------------------------------------------------------------------------
TypeOK ==
  /\ SshTypeOK /\ TaskStreamsTypeOK /\ TasksPanelTypeOK /\ AnnouncementsTypeOK
  /\ ApiRequestsTypeOK /\ ApiStreamsTypeOK /\ DuplicateTypeOK /\ CredentialsTypeOK
  /\ TerminalTypeOK /\ MonitorTypeOK /\ TelemetryTypeOK /\ ExportTypeOK

(* The streams a window opens are held by whoever must close them; the agent   *)
(* logs are those of the task shown; and transports have the credentials of    *)
(* the client, but for those whose factory was overtaken by a change.          *)
StreamsAreKept == OpenStreamsAreHeld /\ AgentLogsAreOfTheTask /\ StreamsFollowClient

(* Telemetry on disk is what was logged, in order, and traces are whole.       *)
TelemetryIsWhole == FilesAreInOrder /\ TracesAreWhole

(* An export holds what it could read, in order and under its own resource,    *)
(* and replaces its target at once or not at all.                              *)
ExportIsWhole == MergeIsComplete /\ MetricsKeepTheirBlock /\ ExportIsAtomic

(* What was asked ends: a request of the tasks panel and a request of the API  *)
(* client settle, a CLI command that was interrupted ends, and telemetry that  *)
(* is buffered is flushed.                                                     *)
EverythingSettles ==
  EveryRequestSettles /\ EveryRequestEnds /\ StoppedCommandsEnd /\ BufferIsFlushed
=============================================================================
