----------------------------- MODULE TasksPanel -----------------------------
(* One task of the tasks panel: the requests of the page (useIpc), their       *)
(* handlers in TasksPanelProvider (webviews/tasks/tasksPanelProvider.ts), the  *)
(* cache of its chat logs, and the task at the server.                         *)
EXTENDS Naturals

CONSTANTS Requests,   \* slots for requests under way
          NoLogs, Failed,   \* nothing is shown or cached; a fetch that failed
          MaxLogs     \* bound of the model on how often the chat grows

ASSUME LogsAssumption == MaxLogs \in Nat

VARIABLES tkRequests,  \* each request: its kind, its handler's await, the page waits
          tkSelected,  \* the page shows the details of the task
          tkShown,     \* how much of the chat it shows
          tkCached,    \* cachedLogs
          tkLegacy,    \* useLegacyPauseResume
          tkServer     \* the task at the server: its phase and the length of its chat

tkVars == <<tkRequests, tkSelected, tkShown, tkCached, tkLegacy, tkServer>>

TaskActions == {"pause", "resume", "send", "delete"}
Stable == {"idle", "paused"}   \* isStableTask
Free == [kind |-> "none", at |-> "done", stable |-> FALSE, waiting |-> FALSE]

TasksPanelTypeOK ==
  /\ tkRequests \in [Requests -> [kind: {"none", "details"} \union TaskActions,
                                  at: {"done", "task", "logs", "confirm", "call", "legacy"},
                                  stable: BOOLEAN, waiting: BOOLEAN]]
  /\ tkSelected \in BOOLEAN /\ tkLegacy \in BOOLEAN
  /\ tkShown \in {NoLogs, Failed} \union 0 .. MaxLogs
  /\ tkCached \in {NoLogs, Failed} \union 0 .. MaxLogs
  /\ tkServer \in [phase: {"building", "working", "idle", "paused", "gone"}, logs: 0 .. MaxLogs]

TkInit ==
  /\ tkRequests = [r \in Requests |-> Free]
  /\ tkSelected = FALSE /\ tkLegacy = FALSE
  /\ tkShown = NoLogs /\ tkCached = NoLogs
  /\ tkServer = [phase |-> "idle", logs |-> 0]

-----------------------------------------------------------------------------
(* The page. The query library keeps one request for the details.            *)

\* request: sent with a timeout; the first await of the handler follows at once
Request(kind, at) ==
  \E r \in Requests :
    /\ tkRequests[r] = Free
    /\ tkRequests' = [tkRequests EXCEPT ![r] =
         [kind |-> kind, at |-> at, stable |-> FALSE, waiting |-> TRUE]]

PollDetails ==
  /\ tkSelected
  /\ \A r \in Requests : ~(tkRequests[r].kind = "details" /\ tkRequests[r].waiting)
  /\ Request("details", "task")
  /\ UNCHANGED <<tkSelected, tkShown, tkCached, tkLegacy, tkServer>>

\* run: one action at a time, until its request settles
StartAction(kind) ==
  /\ tkSelected
  /\ \A r \in Requests : ~(tkRequests[r].kind \in TaskActions /\ tkRequests[r].waiting)
  /\ Request(kind, CASE kind = "delete" -> "confirm" [] kind = "send" -> "task"
                     [] OTHER -> IF tkLegacy THEN "legacy" ELSE "call")
  /\ UNCHANGED <<tkSelected, tkShown, tkCached, tkLegacy, tkServer>>

\* the timeout of request(); the handler goes on
RequestTimesOut(r) ==
  /\ tkRequests[r].waiting
  /\ tkRequests' = [tkRequests EXCEPT ![r] =
       IF tkRequests[r].at = "done" THEN Free ELSE [@ EXCEPT !.waiting = FALSE]]
  /\ UNCHANGED <<tkSelected, tkShown, tkCached, tkLegacy, tkServer>>

Select ==
  /\ ~tkSelected /\ tkSelected' = TRUE
  /\ UNCHANGED <<tkRequests, tkShown, tkCached, tkLegacy, tkServer>>

\* the list is shown again, or the view is hidden and its page thrown away:
\* what it waits for is rejected
Leave(unmounts) ==
  /\ tkSelected /\ tkSelected' = FALSE /\ tkShown' = NoLogs
  /\ tkRequests' = [r \in Requests |->
       IF unmounts \/ tkRequests[r].kind = "details"
       THEN [tkRequests[r] EXCEPT !.waiting = FALSE] ELSE tkRequests[r]]
  /\ UNCHANGED <<tkCached, tkLegacy, tkServer>>

-----------------------------------------------------------------------------
(* The provider.                                                             *)

At(r, kind, at) == tkRequests[r].kind = kind /\ tkRequests[r].at = at

\* dispatchRequest answers, also when the handler threw; an answer nobody waits
\* for is dropped
Answer(r, logs) ==
  /\ tkRequests' = [tkRequests EXCEPT ![r] = Free]
  /\ tkShown' = IF tkRequests[r].waiting /\ tkSelected /\ logs # NoLogs THEN logs ELSE tkShown

GoOn(r, at, stable) ==
  /\ tkRequests' = [tkRequests EXCEPT ![r].at = at, ![r].stable = stable]
  /\ UNCHANGED tkShown

\* handleGetTaskDetails with the task, then getLogsWithCache
GetTaskDetails(r) ==
  LET stable == tkServer.phase \in Stable
  IN /\ At(r, "details", "task")
     /\ \/ Answer(r, NoLogs)   \* the request failed, or the task is gone
        \/ /\ tkServer.phase # "gone"
           /\ IF tkCached # NoLogs /\ stable THEN Answer(r, tkCached)
              ELSE GoOn(r, "logs", stable)
     /\ UNCHANGED <<tkSelected, tkCached, tkLegacy, tkServer>>

\* fetchTaskLogs: a failure is an answer without logs, and is cached as well
FetchTaskLogs(r) ==
  /\ At(r, "details", "logs")
  /\ \E logs \in {tkServer.logs, Failed} :
       /\ Answer(r, logs)
       /\ tkCached' = IF tkRequests[r].stable THEN logs ELSE tkCached
  /\ UNCHANGED <<tkSelected, tkLegacy, tkServer>>

\* what pause, resume and the input of a message do at the server
Effect(kind) ==
  CASE kind = "pause" -> "paused"
    [] kind = "resume" -> "building"
    [] kind = "send" -> "working"

Accepts(kind) ==
  CASE kind = "pause" -> tkServer.phase \in {"building", "working", "idle"}
    [] kind = "resume" -> tkServer.phase = "paused"
    [] kind = "send" -> tkServer.phase \in {"working", "idle"}

Done(r) ==
  \/ /\ Accepts(tkRequests[r].kind)
     /\ tkServer' = [tkServer EXCEPT !.phase = Effect(tkRequests[r].kind)]
     /\ Answer(r, NoLogs)
  \/ UNCHANGED tkServer /\ Answer(r, NoLogs)   \* refused or failed

\* pauseOrResumeTask: a 404 means a server without these calls, from then on
PauseOrResumeTask(r) ==
  /\ tkRequests[r].kind \in {"pause", "resume"} /\ tkRequests[r].at = "call"
  /\ \/ Done(r) /\ UNCHANGED tkLegacy
     \/ GoOn(r, "legacy", FALSE) /\ tkLegacy' = TRUE /\ UNCHANGED tkServer
  /\ UNCHANGED <<tkSelected, tkCached>>

LegacyPauseOrResume(r) ==
  /\ tkRequests[r].at = "legacy"
  /\ Done(r)
  /\ UNCHANGED <<tkSelected, tkCached, tkLegacy>>

\* handleSendMessage: a paused task is refused before the message is sent
SendMessage(r) ==
  /\ tkRequests[r].kind = "send"
  /\ \/ /\ tkRequests[r].at = "task"
        /\ \/ Answer(r, NoLogs)   \* the task could not be read, or is paused
           \/ tkServer.phase \notin {"paused", "gone"} /\ GoOn(r, "call", FALSE)
        /\ UNCHANGED tkServer
     \/ tkRequests[r].at = "call" /\ Done(r)
  /\ UNCHANGED <<tkSelected, tkCached, tkLegacy>>

\* handleDeleteTask: the dialog, then the request
DeleteTask(r) ==
  /\ tkRequests[r].kind = "delete"
  /\ \/ /\ tkRequests[r].at = "confirm"
        /\ Answer(r, NoLogs) \/ GoOn(r, "call", FALSE)
        /\ UNCHANGED <<tkServer, tkCached>>
     \/ /\ tkRequests[r].at = "call"
        /\ Answer(r, NoLogs)
        /\ \/ tkServer' = [tkServer EXCEPT !.phase = "gone"] /\ tkCached' = NoLogs
           \/ UNCHANGED <<tkServer, tkCached>>
  /\ UNCHANGED <<tkSelected, tkLegacy>>

\* refresh(), on sign-in and by command
RefreshTasks ==
  /\ tkCached' = NoLogs
  /\ UNCHANGED <<tkRequests, tkSelected, tkShown, tkLegacy, tkServer>>

\* the task at the server goes on by itself
TaskRuns ==
  /\ \/ tkServer.phase = "building" /\ tkServer' = [tkServer EXCEPT !.phase = "working"]
     \/ /\ tkServer.phase = "working" /\ tkServer.logs < MaxLogs
        /\ tkServer' = [tkServer EXCEPT !.logs = @ + 1]
     \/ tkServer.phase = "working" /\ tkServer' = [tkServer EXCEPT !.phase = "idle"]
  /\ UNCHANGED <<tkRequests, tkSelected, tkShown, tkCached, tkLegacy>>

Handle(r) ==
  \/ GetTaskDetails(r) \/ FetchTaskLogs(r) \/ PauseOrResumeTask(r)
  \/ LegacyPauseOrResume(r) \/ SendMessage(r) \/ DeleteTask(r)

TkNext ==
  \/ PollDetails \/ Select \/ RefreshTasks \/ TaskRuns
  \/ \E kind \in TaskActions : StartAction(kind)
  \/ \E unmounts \in BOOLEAN : Leave(unmounts)
  \/ \E r \in Requests : RequestTimesOut(r) \/ Handle(r)

-----------------------------------------------------------------------------
(* Every request of the page settles, also when its handler waits for the user *)
(* or the view was replaced: by its answer, its timeout or the unmounting.     *)
EveryRequestSettles ==
  \A r \in Requests : tkRequests[r].waiting ~> ~tkRequests[r].waiting
=============================================================================
