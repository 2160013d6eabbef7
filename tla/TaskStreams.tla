----------------------------- MODULE TaskStreams -----------------------------
(* The workspace log streams of the tasks panel: LazyStream (api/workspace.ts) *)
(* and streamWorkspaceLogs of TasksPanelProvider. Calls come from polls of the *)
(* page, which overlap and look at the task as the server described it.        *)
EXTENDS Naturals

CONSTANTS Tasks, NoTask

ASSUME TasksAssumption == NoTask \notin Tasks

Kinds == {"build", "agent"}   \* buildLogStream, agentLogStream

VARIABLES tsTask,   \* streamingTaskId
          tsLazy,   \* the two LazyStreams
          tsCalls   \* calls of streamWorkspaceLogs that await the workspace

tsVars == <<tsTask, tsLazy, tsCalls>>

(* stream: the task of the stream held; live: its socket is still open;        *)
(* opening: the task of the promise held, which stays held when it has failed; *)
(* dropped: promises in flight that close() let go; open: sockets really open. *)
LazyStates == [stream: Tasks \union {NoTask}, live: BOOLEAN,
               opening: Tasks \union {NoTask}, failed: BOOLEAN,
               dropped: SUBSET Tasks, open: 0 .. 2]
Closed == [stream |-> NoTask, live |-> FALSE, opening |-> NoTask, failed |-> FALSE,
           dropped |-> {}, open |-> 0]

TaskStreamsTypeOK ==
  /\ tsTask \in Tasks \union {NoTask}
  /\ tsLazy \in [Kinds -> LazyStates]
  /\ tsCalls \subseteq Tasks

TsInit == tsTask = NoTask /\ tsLazy = [k \in Kinds |-> Closed] /\ tsCalls = {}

\* LazyStream.open: nothing while a stream or a promise is held
Open(z, t) ==
  IF z.stream # NoTask \/ z.opening # NoTask THEN z ELSE [z EXCEPT !.opening = t]

\* LazyStream.close; letting go of a promise in flight cancels it
Close(z) ==
  [z EXCEPT !.stream = NoTask, !.live = FALSE, !.opening = NoTask, !.failed = FALSE,
            !.open = IF z.live THEN @ - 1 ELSE @,
            !.dropped = IF z.opening # NoTask /\ ~z.failed THEN @ \union {z.opening} ELSE @]

Hold(z, t) == [z EXCEPT !.stream = t, !.live = TRUE, !.open = @ + 1]

\* Mutant: a stream delivered for a promise that was let go is kept.
KeepsDropped(z, t, current) ==
  IF current THEN [Hold(z, t) EXCEPT !.opening = NoTask]
  ELSE Hold([z EXCEPT !.dropped = @ \ {t}], t)

\* the factory of LazyStream.open delivers; a promise let go closes its stream
Delivered(z, t, current) ==
  IF current THEN [Hold(z, t) EXCEPT !.opening = NoTask]
  ELSE [z EXCEPT !.dropped = @ \ {t}]

CloseBoth(lazy) == [k \in Kinds |-> Close(lazy[k])]

\* streamWorkspaceLogs, up to its first await
StreamWorkspaceLogs(t, phase) ==
  LET switched == IF t # tsTask THEN CloseBoth(tsLazy) ELSE tsLazy
  IN /\ tsTask' = t
     /\ tsCalls' = IF phase = "building" THEN tsCalls \union {t} ELSE tsCalls
     /\ tsLazy' = CASE phase = "building" -> [switched EXCEPT !["agent"] = Close(@)]
                    [] phase = "starting" -> [build |-> Close(switched["build"]),
                                              agent |-> Open(switched["agent"], t)]
                    [] OTHER -> CloseBoth(switched)

\* streamWorkspaceLogs goes on with the workspace, whatever happened meanwhile
WorkspaceRead(t) ==
  /\ t \in tsCalls
  /\ tsCalls' = tsCalls \ {t}
  /\ \/ tsLazy' = [tsLazy EXCEPT !["build"] = Open(@, t)]
     \/ tsLazy' = tsLazy   \* the request failed
  /\ UNCHANGED tsTask

FactorySettles(k) ==
  /\ \/ /\ tsLazy[k].opening # NoTask /\ ~tsLazy[k].failed
        /\ \/ tsLazy' = [tsLazy EXCEPT ![k] = Delivered(@, @.opening, TRUE)]
           \/ tsLazy' = [tsLazy EXCEPT ![k].failed = TRUE]
     \/ \E t \in tsLazy[k].dropped :
          \/ tsLazy' = [tsLazy EXCEPT ![k] = Delivered(@, t, FALSE)]
          \/ tsLazy' = [tsLazy EXCEPT ![k].dropped = @ \ {t}]
  /\ UNCHANGED <<tsTask, tsCalls>>

\* the build or the start script ended; the close listener only fetches the task
ServerCloses(k) ==
  /\ tsLazy[k].live
  /\ tsLazy' = [tsLazy EXCEPT ![k].live = FALSE, ![k].open = @ - 1]
  /\ UNCHANGED <<tsTask, tsCalls>>

\* stopStreamingWorkspaceLogs; dispose() does the same to the streams
StopStreaming ==
  /\ tsTask' = NoTask /\ tsLazy' = CloseBoth(tsLazy)
  /\ UNCHANGED tsCalls

TsNext ==
  \/ \E t \in Tasks, phase \in {"building", "starting", "ready"} : StreamWorkspaceLogs(t, phase)
  \/ \E t \in tsCalls : WorkspaceRead(t)
  \/ \E k \in Kinds : FactorySettles(k) \/ ServerCloses(k)
  \/ StopStreaming

-----------------------------------------------------------------------------
(* No stream is lost: a socket that is open is the one its LazyStream holds,   *)
(* so that close() reaches it, however openings, closings and the factories'   *)
(* answers overtake each other.                                                *)
OpenStreamsAreHeld ==
  \A k \in Kinds : tsLazy[k].open = (IF tsLazy[k].live THEN 1 ELSE 0)
                   /\ (tsLazy[k].live => tsLazy[k].stream # NoTask)

(* The agent logs are those of the task shown: after a stop or a change of     *)
(* task none of another is held or on its way. (The build logs are opened      *)
(* after a read of the workspace, when the task may have been left.)           *)
AgentLogsAreOfTheTask ==
  {tsLazy["agent"].stream, tsLazy["agent"].opening} \subseteq {NoTask, tsTask}
=============================================================================
