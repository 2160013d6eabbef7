-------------------------- MODULE RemoteSetupProofs --------------------------
(* What setup() and the wait inside it keep, for any number of builds and      *)
(* tokens. The wait is proved first, over its own variables: RemoteSetup runs  *)
(* a step of it, or leaves them alone, or enters or leaves the wait.           *)
EXTENDS RemoteSetup, SequenceTheorems, TLAPS

Processing == {"dispatch", "openBuildLog", "confirm", "start", "startWait", "collect", "update",
               "updateWait", "updateStart", "updated", "agent", "openAgentLog", "resolved"}

\* The workspaces a deployment shows: one that runs has agents.
Shown == {w \in Workspaces : w.status = "running" => w.agent # "none"}

\* While a workspace is processed there is one, an agent is selected of one that
\* runs only, and the wait resolves with an agent of that very build.
ReadyInv ==
  /\ ReadyTypeOK
  /\ server \in Shown /\ ws \in Shown \cup {None} /\ pending \in Shown \cup {None}
  /\ pc \in Processing => ws \in Shown
  /\ pc = "agent" => ws.status = "running"
  /\ ResolvesOwnAgent

-----------------------------------------------------------------------------
(* The ends of a step of the wait. *)

\* What the three ends of the processing keep, and a step to another await.
Lands ==
  /\ pc' \in Processing \cup {"waiting", "rejected"}
  /\ pc' \in Processing => ws' \in Shown
  /\ pc' = "agent" => ws'.status = "running"
  /\ pc' = "resolved" => ws' = ws /\ pc = "agent"
  /\ ws' \in Shown \cup {None} /\ pending' \in Shown \cup {None}
  /\ failure' \in {"none", "gone", "logs", "cancelled", "start", "agentNotFound", "agent",
      "noAgent"}

LEMMA AgainLands == ASSUME ReadyInv, Again PROVE Lands /\ pc' # "resolved"
BY DEF Again, Process, Lands, ReadyInv, ReadyTypeOK, Processing

LEMMA RejectLands ==
  ASSUME ReadyInv, NEW why \in {"gone", "logs", "cancelled", "start", "agentNotFound", "agent",
      "noAgent"},
         Reject(why)
  PROVE  Lands /\ pc' # "resolved"
BY DEF Reject, Lands, Processing

LEMMA GotoLands ==
  ASSUME ReadyInv, pc \in Processing, NEW p \in Processing \ {"resolved"}, Goto(p),
         p = "agent" => ws.status = "running"
  PROVE  Lands /\ pc' # "resolved"
BY DEF Goto, Lands, ReadyInv, ReadyTypeOK, Processing

LEMMA ResolveLands == ASSUME ReadyInv, pc = "agent", Resolve PROVE Lands
BY DEF Resolve, Lands, ReadyInv, ReadyTypeOK, Processing

\* A step that lands, keeps the types of the rest and resolves with its own agent.
LEMMA LandsInv ==
  ASSUME ReadyInv, Lands, server' \in Shown, news' \in BOOLEAN,
         mode' \in {"none", "start", "update"}, agent' \in 0..MaxBuilds,
         buildLog' \in {"open", "closed"}, agentLog' \in {"open", "closed"},
         pc' = "resolved" => agent' = ws'.build
  PROVE  ReadyInv' /\ pc' # "idle"
BY DEF Lands, Shown, ReadyInv, ReadyTypeOK, ResolvesOwnAgent, Processing

LEMMA BuildsAreWorkspaces ==
  ASSUME ReadyInv, CanBuild, NEW s \in Statuses \ {"running"}
  PROVE  WithBuild(s) \in Shown
<1>1. server \in Workspaces /\ server.build \in 1..MaxBuilds
  BY DEF ReadyInv, ReadyTypeOK, Workspaces
<1>2. server.build + 1 \in 1..MaxBuilds
  BY <1>1, ReadyAssumption DEF CanBuild
<1> QED
  BY <1>2 DEF WithBuild, Shown, Workspaces, Agents

-----------------------------------------------------------------------------
(* The steps of the wait. *)

LEMMA UpdateFailsLands ==
  ASSUME ReadyInv, pc \in Processing, UpdateFails
  PROVE  Lands /\ pc' # "resolved"
<1>1. (Goto("agent") /\ ws.status = "running") \/ Goto("start")
  BY DEF UpdateFails
<1> QED
  BY <1>1, GotoLands DEF Processing

LEMMA DispatchKeeps ==
  ASSUME ReadyInv, DispatchRunning \/ DispatchStopped \/ DispatchBuilding \/ DispatchGone
  PROVE  ReadyInv' /\ pc' # "idle"
<1> USE DEF Processing, remote
<1>0. pc = "dispatch" /\ pc \in Processing
  BY DEF DispatchRunning, DispatchStopped, DispatchBuilding, DispatchGone, At
<1>1. Lands /\ pc' # "resolved"
  <2>1. CASE DispatchRunning
    <3>1. Goto("collect") \/ (Goto("agent") /\ ws.status = "running")
      BY <2>1 DEF DispatchRunning
    <3> QED
      BY <1>0, <3>1, GotoLands
  <2>2. CASE DispatchStopped
    <3>1. PICK p \in {"confirm", "collect", "start"} : Goto(p)
      <4> DEFINE f == [none |-> "confirm", update |-> "collect", start |-> "start"]
      <4>1. mode \in {"none", "start", "update"}
        BY DEF ReadyInv, ReadyTypeOK
      <4>2. f[mode] \in {"confirm", "collect", "start"}
        BY <4>1
      <4>3. Goto(f[mode])
        BY <2>2 DEF DispatchStopped
      <4> HIDE DEF f
      <4> QED
        BY <4>2, <4>3
    <3> QED
      BY <1>0, <3>1, GotoLands
  <2>3. CASE DispatchBuilding
    <3>1. Goto("openBuildLog") \/ Again
      BY <2>3 DEF DispatchBuilding
    <3> QED
      BY <1>0, <3>1, GotoLands, AgainLands
  <2>4. CASE DispatchGone
    <3>1. Reject("gone")
      BY <2>4 DEF DispatchGone
    <3> QED
      BY <3>1, RejectLands
  <2> QED
    BY <2>1, <2>2, <2>3, <2>4
<1>2. /\ server' \in Shown /\ news' \in BOOLEAN
      /\ mode' \in {"none", "start", "update"} /\ agent' \in 0..MaxBuilds
      /\ buildLog' \in {"open", "closed"} /\ agentLog' \in {"open", "closed"}
  BY ReadyAssumption
  DEF ReadyInv, ReadyTypeOK, DispatchRunning, DispatchStopped, DispatchBuilding, DispatchGone,
      Goto, Again, Reject
<1> QED
  BY <1>1, <1>2, LandsInv

LEMMA AsksKeep ==
  ASSUME ReadyInv, StreamBuildLogs \/ ConfirmStartOrUpdate \/ StartEnds \/ StreamAgentLogs
                   \/ CollectUpdateParameters \/ UpdateStopped
  PROVE  ReadyInv' /\ pc' # "idle"
<1> USE DEF Processing, remote, streams
<1>0. pc \in Processing
  BY DEF StreamBuildLogs, ConfirmStartOrUpdate, StartEnds, StreamAgentLogs,
         CollectUpdateParameters, UpdateStopped, At
<1>1. \/ Again \/ Reject("logs") \/ Reject("cancelled") \/ Reject("start") \/ UpdateFails
      \/ Goto("start") \/ Goto("collect") \/ Goto("update") \/ Goto("updateStart")
  BY DEF StreamBuildLogs, ConfirmStartOrUpdate, StartEnds, StreamAgentLogs,
         CollectUpdateParameters, UpdateStopped
<1>2. Lands /\ pc' # "resolved"
  BY <1>0, <1>1, AgainLands, RejectLands, GotoLands, UpdateFailsLands
<1>3. /\ server' \in Shown /\ news' \in BOOLEAN
      /\ mode' \in {"none", "start", "update"} /\ agent' \in 0..MaxBuilds
      /\ buildLog' \in {"open", "closed"} /\ agentLog' \in {"open", "closed"}
  BY DEF ReadyInv, ReadyTypeOK, StreamBuildLogs, ConfirmStartOrUpdate, StartEnds,
         StreamAgentLogs, CollectUpdateParameters, UpdateStopped
<1> QED
  BY <1>2, <1>3, LandsInv

LEMMA BuildsKeep ==
  ASSUME ReadyInv, TriggerStart \/ UpdateStops \/ UpdateStarts
  PROVE  ReadyInv' /\ pc' # "idle"
<1> USE DEF Processing, remote, streams
<1>0. pc \in Processing
  BY DEF TriggerStart, UpdateStops, UpdateStarts, At
<1>1. \/ Reject("start") \/ UpdateFails
      \/ Goto("startWait") \/ Goto("updateStart") \/ Goto("updateWait") \/ Goto("updated")
  BY DEF TriggerStart, UpdateStops, UpdateStarts
<1>2. Lands /\ pc' # "resolved"
  BY <1>0, <1>1, RejectLands, GotoLands, UpdateFailsLands
<1>3. server' \in Shown /\ news' \in BOOLEAN
  BY BuildsAreWorkspaces
  DEF TriggerStart, UpdateStops, UpdateStarts, ReadyInv, ReadyTypeOK, Statuses
<1>4. /\ mode' \in {"none", "start", "update"} /\ agent' \in 0..MaxBuilds
      /\ buildLog' \in {"open", "closed"} /\ agentLog' \in {"open", "closed"}
  BY DEF ReadyInv, ReadyTypeOK, TriggerStart, UpdateStops, UpdateStarts
<1> QED
  BY <1>2, <1>3, <1>4, LandsInv

LEMMA UpdatedKeeps == ASSUME ReadyInv, Updated PROVE ReadyInv' /\ pc' # "idle"
<1> USE DEF Processing, remote, streams
<1>0. pc \in Processing
  BY DEF Updated, At
<1>1. Lands /\ pc' # "resolved"
  <2>1. CASE server.status = "running" /\ pc' = "agent" /\ ws' = server /\ UNCHANGED <<pending,
      failure>>
    BY <2>1 DEF Lands, ReadyInv, ReadyTypeOK
  <2>2. CASE Again \/ UpdateFails
    BY <1>0, <2>2, AgainLands, UpdateFailsLands
  <2> QED
    BY <2>1, <2>2 DEF Updated
<1>2. /\ server' \in Shown /\ news' \in BOOLEAN
      /\ mode' \in {"none", "start", "update"} /\ agent' \in 0..MaxBuilds
      /\ buildLog' \in {"open", "closed"} /\ agentLog' \in {"open", "closed"}
  BY ReadyAssumption DEF ReadyInv, ReadyTypeOK, Updated
<1> QED
  BY <1>1, <1>2, LandsInv

\* An agent that was selected before resolves the wait only if it is still one
\* of the workspace processed.
LEMMA SelectAgentKeeps == ASSUME ReadyInv, SelectAgent PROVE ReadyInv' /\ pc' # "idle"
<1> USE DEF Processing, remote
<1>0. pc = "agent" /\ pc \in Processing
  BY DEF SelectAgent, At
<1>1. ws \in Workspaces /\ ws.build \in 0..MaxBuilds /\ ws.agent \in Agents \ {"none"}
  BY <1>0, ReadyAssumption DEF ReadyInv, Shown, Workspaces
<1>2. /\ server' \in Shown /\ news' \in BOOLEAN
      /\ mode' \in {"none", "start", "update"} /\ buildLog' \in {"open", "closed"}
  BY DEF SelectAgent, ReadyInv, ReadyTypeOK
<1>3. agent' \in 0..MaxBuilds
  BY <1>1 DEF SelectAgent, ReadyInv, ReadyTypeOK
<1>4. CASE CheckAgent /\ agent' = ws.build
  <2>1. /\ Again \/ Reject("agentNotFound") \/ Reject("agent") \/ Resolve \/ Goto("openAgentLog")
        /\ agentLog' \in {agentLog, "closed"}
    <3>1. \/ ws.agent = "connecting" \/ ws.agent = "lost" \/ ws.agent = "starting"
          \/ ws.agent = "ready" \/ ws.agent = "blocking"
      BY <1>1 DEF Agents
    <3> QED
      BY <1>4, <3>1 DEF CheckAgent
  <2>2. Lands
    BY <1>0, <2>1, AgainLands, RejectLands, ResolveLands, GotoLands
  <2>3. pc' = "resolved" => agent' = ws'.build
    BY <1>4, <2>2 DEF Lands
  <2>4. agentLog' \in {"open", "closed"}
    BY <2>1 DEF ReadyInv, ReadyTypeOK
  <2> QED
    BY <1>2, <1>3, <2>2, <2>3, <2>4, LandsInv
<1>5. CASE (Reject("agentNotFound") \/ Reject("noAgent")) /\ UNCHANGED agentLog
  <2>1. Lands /\ pc' # "resolved"
    BY <1>5, RejectLands
  <2>2. agentLog' \in {"open", "closed"}
    BY <1>5 DEF ReadyInv, ReadyTypeOK
  <2> QED
    BY <1>2, <1>3, <2>1, <2>2, LandsInv
<1> QED
  BY <1>4, <1>5 DEF SelectAgent, CheckAgent

\* A step of the extension's own keeps what the wait keeps.
LEMMA ReadyStepKeeps == ASSUME ReadyInv, ReadyStep PROVE ReadyInv' /\ pc' # "idle"
BY DispatchKeeps, AsksKeep, BuildsKeep, UpdatedKeeps, SelectAgentKeeps DEF ReadyStep

\* So does an event, which is processed at once or kept.
LEMMA WorkspaceEventKeeps == ASSUME ReadyInv, WorkspaceEvent PROVE ReadyInv' /\ pc' # "idle"
<1>1. CASE pc = "waiting" /\ Process(server)
  BY <1>1
  DEF WorkspaceEvent, Process, Shown, ReadyInv, ReadyTypeOK, ResolvesOwnAgent, Processing, streams
<1>2. CASE pc # "waiting" /\ pending' = server /\ UNCHANGED <<pc, ws>>
  <2>1. /\ UNCHANGED <<server, mode, agent, buildLog, agentLog, failure, pc, ws>>
        /\ pending' = server /\ news' \in BOOLEAN /\ pc # "idle"
    BY <1>2 DEF WorkspaceEvent, Waiting, streams
  <2>2. server \in Workspaces
    BY DEF ReadyInv, ReadyTypeOK
  <2> QED
    BY <2>1, <2>2 DEF ReadyInv, ReadyTypeOK, ResolvesOwnAgent
<1> QED
  BY <1>1, <1>2 DEF WorkspaceEvent

\* And what the deployment does, of which the wait learns by events only.
LEMMA DeploymentKeeps == ASSUME ReadyInv, Deployment PROVE ReadyInv' /\ pc' = pc
<1>1. \A w \in Shown : ServerMoves(w) => ReadyInv' /\ pc' = pc
  BY DEF ServerMoves, Shown, ReadyInv, ReadyTypeOK, ResolvesOwnAgent, streams
<1>2. server \in Shown
  BY DEF ReadyInv
<1>3. CASE BuildEnds
  <2>1. /\ [server EXCEPT !.status = "stopped"] \in Shown
        /\ [server EXCEPT !.status = "running", !.agent = "connecting"] \in Shown
    BY <1>2 DEF Shown, Workspaces, Statuses, Agents
  <2> QED
    BY <1>1, <1>3, <2>1 DEF BuildEnds
<1>4. CASE AgentMoves
  <2>1. PICK a \in NextAgent[server.agent] : ServerMoves([server EXCEPT !.agent = a])
    BY <1>4 DEF AgentMoves
  <2>2. server.agent \in Agents
    BY <1>2 DEF Shown, Workspaces
  <2>3. NextAgent[server.agent] \subseteq Agents \ {"none"}
    BY <2>2 DEF NextAgent, Agents
  <2>4. [server EXCEPT !.agent = a] \in Shown
    BY <1>2, <2>3 DEF Shown, Workspaces
  <2> QED
    BY <1>1, <2>1, <2>4
<1>5. CASE OthersBuild
  <2>1. PICK s \in {"starting", "stopping", "gone"} : CanBuild /\ ServerMoves(WithBuild(s))
    BY <1>5 DEF OthersBuild
  <2>2. WithBuild(s) \in Shown
    BY <2>1, BuildsAreWorkspaces DEF Statuses
  <2> QED
    BY <1>1, <2>1, <2>2
<1> QED
  BY <1>3, <1>4, <1>5 DEF Deployment

-----------------------------------------------------------------------------
(* The options of an SSH block. *)

\* Blocks of the keys known, with any words.
Blocks == UNION {[keys -> Seq({"coder", "vscode", "other"})] : keys \in SUBSET Keys}

LEMMA KnownBlocks ==
  /\ \A marks \in BOOLEAN : Values(marks) \in Blocks
  /\ "SetEnv" \in DOMAIN Values(TRUE)
  /\ Values(TRUE)["SetEnv"][1] = "vscode" /\ Values(TRUE)["SetEnv"] # <<>>
  /\ Options \subseteq Blocks
<1> DEFINE Words == {"coder", "vscode", "other"}
<1>1. /\ <<"coder">> \in Seq(Words) /\ <<"vscode">> \in Seq(Words)
      /\ <<>> \in Seq(Words) /\ <<"other">> \in Seq(Words)
  OBVIOUS
<1>2. "SetEnv" \in DOMAIN Values(TRUE) /\ Values(TRUE)["SetEnv"] = <<"vscode">>
  BY DEF Values
<1>3. ASSUME NEW marks \in BOOLEAN PROVE Values(marks) \in Blocks
  <2>1. PICK keys \in SUBSET Keys :
          Values(marks) = [k \in keys |-> IF k = "SetEnv" THEN <<"vscode">> ELSE <<"coder">>]
    BY DEF Values, Keys
  <2>2. Values(marks) \in [keys -> Seq(Words)]
    <3> HIDE DEF Words
    <3> QED
      BY <1>1, <2>1
  <2> QED
    BY <2>2 DEF Blocks
<1>5. ASSUME NEW o \in Options PROVE o \in Blocks
  <2>1. PICK keys \in SUBSET Keys : o \in [keys -> {<<>>, <<"other">>}]
    BY DEF Options
  <2>2. o \in [keys -> Seq(Words)]
    <3> HIDE DEF Words
    <3> QED
      BY <1>1, <2>1
  <2> QED
    BY <2>2 DEF Blocks
<1>6. <<"vscode">>[1] = "vscode" /\ <<"vscode">> # <<>>
  OBVIOUS
<1> QED
  BY <1>2, <1>3, <1>5, <1>6

\* A merge of blocks is one, and what SetEnv begins with it keeps: an override
\* only adds to it.
LEMMA MergeKeeps ==
  ASSUME NEW config \in Blocks, NEW overrides \in Blocks
  PROVE  /\ MergeSshConfigValues(config, overrides) \in Blocks
         /\ "SetEnv" \in DOMAIN config /\ config["SetEnv"] # <<>> =>
              LET merged == MergeSshConfigValues(config, overrides) IN
              /\ "SetEnv" \in DOMAIN merged
              /\ merged["SetEnv"] # <<>> /\ merged["SetEnv"][1] = config["SetEnv"][1]
<1> DEFINE Words == {"coder", "vscode", "other"}
           both == DOMAIN config \cap DOMAIN overrides
           Value(k) == IF k \in both /\ k = "SetEnv" THEN config[k] \o overrides[k]
                       ELSE IF k \in DOMAIN overrides THEN overrides[k] ELSE config[k]
           removed == {k \in DOMAIN config : Value(k) = <<>>}
           keys == (DOMAIN config \cup DOMAIN overrides) \ removed
           merged == MergeSshConfigValues(config, overrides)
<1>1. merged = [k \in keys |-> Value(k)]
  BY DEF MergeSshConfigValues
<1>2. PICK K \in SUBSET Keys : config \in [K -> Seq(Words)]
  BY DEF Blocks
<1>3. PICK L \in SUBSET Keys : overrides \in [L -> Seq(Words)]
  BY DEF Blocks
<1>4. DOMAIN config = K /\ DOMAIN overrides = L /\ keys \in SUBSET Keys
  BY <1>2, <1>3
<1> HIDE DEF Words
<1>5. ASSUME NEW k \in keys PROVE Value(k) \in Seq(Words)
  <2>1. CASE k \in both /\ k = "SetEnv"
    <3>1. config[k] \in Seq(Words) /\ overrides[k] \in Seq(Words)
      BY <1>2, <1>3, <1>4, <2>1
    <3>2. config[k] \o overrides[k] \in Seq(Words)
      BY <3>1
    <3> QED
      BY <2>1, <3>2
  <2>2. CASE ~(k \in both /\ k = "SetEnv") /\ k \in DOMAIN overrides
    BY <1>3, <1>4, <2>2
  <2>3. CASE k \notin DOMAIN overrides
    BY <1>2, <1>4, <2>3
  <2> QED
    BY <2>1, <2>2, <2>3
<1> HIDE DEF Value, keys, merged
<1>6. merged \in [keys -> Seq(Words)]
  BY <1>1, <1>5
<1>7. merged \in Blocks
  <2>1. [keys -> Seq(Words)] \subseteq Blocks
    BY <1>4, Zenon DEF Blocks, Words
  <2> QED
    BY <1>6, <2>1
<1>8. ASSUME "SetEnv" \in DOMAIN config, config["SetEnv"] # <<>>
      PROVE  "SetEnv" \in keys /\ Value("SetEnv") # <<>> /\ Value("SetEnv")[1] = config["SetEnv"][1]
  <2>1. config["SetEnv"] \in Seq(Words)
    BY <1>2, <1>4, <1>8
  <2>2. CASE "SetEnv" \in DOMAIN overrides
    <3>1. overrides["SetEnv"] \in Seq(Words)
      BY <1>3, <1>4, <2>2
    <3>2. Value("SetEnv") = config["SetEnv"] \o overrides["SetEnv"]
      BY <1>8, <2>2 DEF Value
    <3>3. PICK s \in Seq(Words), t \in Seq(Words) :
            s = config["SetEnv"] /\ t = overrides["SetEnv"] /\ s # <<>>
      BY <1>8, <2>1, <3>1
    <3>4. s \o t # <<>> /\ (s \o t)[1] = s[1]
      <4>1. Len(s) \in Nat /\ Len(s) # 0 /\ Len(t) \in Nat
        BY <3>3, LenProperties, EmptySeq
      <4>2. Len(s \o t) = Len(s) + Len(t) /\ (s \o t)[1] = s[1]
        BY <4>1, ConcatProperties
      <4>3. Len(s \o t) # 0
        BY <4>1, <4>2
      <4> QED
        BY <4>2, <4>3
    <3>5. Value("SetEnv") # <<>> /\ Value("SetEnv")[1] = config["SetEnv"][1]
      BY <3>2, <3>3, <3>4
    <3>6. "SetEnv" \in keys
      BY <1>8, <3>5 DEF keys
    <3> QED
      BY <3>5, <3>6
  <2>3. CASE "SetEnv" \notin DOMAIN overrides
    <3>1. Value("SetEnv") = config["SetEnv"]
      BY <2>3 DEF Value
    <3>2. "SetEnv" \in keys
      BY <1>8, <3>1 DEF keys
    <3> QED
      BY <1>8, <3>1, <3>2
  <2> QED
    BY <2>2, <2>3
<1>9. ASSUME "SetEnv" \in DOMAIN config, config["SetEnv"] # <<>>
      PROVE  /\ "SetEnv" \in DOMAIN merged
             /\ merged["SetEnv"] # <<>> /\ merged["SetEnv"][1] = config["SetEnv"][1]
  BY <1>1, <1>8, <1>9
<1> QED
  BY <1>7, <1>9 DEF merged

\* Whatever the deployment, the CLI and the user set.
MarkedAsOurs(block) ==
  /\ "SetEnv" \in DOMAIN block /\ block["SetEnv"] \in Seq({"coder", "vscode", "other"})
  /\ block["SetEnv"] # <<>> /\ block["SetEnv"][1] = "vscode"

LEMMA WrittenBlocksAreOurs ==
  ASSUME NEW marks \in BOOLEAN, NEW b \in WrittenBlocks[marks]
  PROVE  DOMAIN b \subseteq Keys /\ (marks => MarkedAsOurs(b))
<1>1. PICK d \in Options, c \in Options, u \in Options :
        b = MergeSshConfigValues(Values(marks), MergeSshConfigValues(MergeSshConfigValues(d, c), u))
  BY DEF WrittenBlocks
<1>2. PICK o \in Blocks : o = MergeSshConfigValues(MergeSshConfigValues(d, c), u)
  <2>1. MergeSshConfigValues(d, c) \in Blocks
    BY KnownBlocks, MergeKeeps
  <2> QED
    BY <2>1, KnownBlocks, MergeKeeps
<1>3. PICK v \in Blocks : v = Values(marks)
  BY KnownBlocks
<1>4. b \in Blocks
  BY <1>1, <1>2, <1>3, MergeKeeps
<1>5. PICK keys \in SUBSET Keys : b \in [keys -> Seq({"coder", "vscode", "other"})]
  BY <1>4 DEF Blocks
<1>6. ASSUME marks PROVE "SetEnv" \in DOMAIN b /\ b["SetEnv"] # <<>> /\ b["SetEnv"][1] = "vscode"
  <2>1. v = Values(TRUE)
    BY <1>3, <1>6
  <2>2. "SetEnv" \in DOMAIN v /\ v["SetEnv"] # <<>> /\ v["SetEnv"][1] = "vscode"
    BY <2>1, KnownBlocks
  <2>3. b = MergeSshConfigValues(v, o)
    BY <1>1, <1>2, <1>3
  <2> QED
    BY <2>2, <2>3, MergeKeeps
<1> QED
  BY <1>5, <1>6 DEF MarkedAsOurs

-----------------------------------------------------------------------------
(* The set-up around the wait. *)

\* Outside the wait nothing is processed and no log stream is open; the monitor
\* is created for the workspace that was looked up.
WaitInv ==
  /\ phase = "wait" <=> pc # "idle"
  /\ phase # "wait" => buildLog = "closed" /\ agentLog = "closed"
  /\ phase = "monitor" => ws \in Shown

\* What is created and not registered is left by the step that creates it, or by
\* the failure of that very step.
LeftInv ==
  /\ phase \in {"closed", "failed", "disposed"} => held = {}
  /\ left # {} => phase \in {"monitor", "statusBar", "failed"}

\* From the update of the SSH config the block is marked if ssh can, and from the
\* check on it has our proxy command.
BlockInv ==
  /\ phase \in {"sshSave", "sshCheck", "settings", "settingsRead", "settingsWrite",
                "sshMonitor", "statusBar", "connected"} => (setEnv => MarkedAsOurs(sshBlock))
  /\ phase \in {"settings", "settingsRead", "settingsWrite", "sshMonitor", "statusBar",
                "connected"} => sshBlock["ProxyCommand"] = <<"coder">>

SetupInv ==
  /\ ReadyInv
  /\ TypeOK
  /\ WaitInv
  /\ LeftInv
  /\ BlockInv

LEMMA SetupInitially == Init => SetupInv
<1> SUFFICES ASSUME Init PROVE SetupInv
  OBVIOUS
<1>1. server \in Shown
  <2>1. PICK s \in {"stopped", "starting", "running"} :
          server = [status |-> s, build |-> 1,
                    agent |-> IF s = "running" THEN "connecting" ELSE "none"]
    BY DEF Init, ReadyInit
  <2>2. 1 \in 1..MaxBuilds
    BY ReadyAssumption
  <2> QED
    BY <2>1, <2>2 DEF Shown, Workspaces, Statuses, Agents
<1>2. ReadyInv
  <2>1. ReadyTypeOK
    <3>1. PICK m \in {"none", "start", "update"} : ReadyInit(m)
      BY DEF Init
    <3>2. server \in Workspaces /\ 0 \in 0..MaxBuilds
      BY <1>1, ReadyAssumption DEF Shown
    <3> QED
      BY <3>1, <3>2 DEF ReadyTypeOK, ReadyInit
  <2> QED
    BY <1>1, <2>1 DEF Init, ReadyInit, ReadyInv, Processing, ResolvesOwnAgent
<1>3. TypeOK
  <2>1. DOMAIN NoOptions \subseteq Keys
    BY DEF NoOptions
  <2>2. sshBlock = NoOptions /\ override = NoOverride
    BY DEF Init
  <2>3. stored \in 0..MaxTokens /\ client \in 0..MaxTokens
    BY SetupAssumption DEF Init
  <2>4. /\ phase = "migrate" /\ held = {} /\ left \in Unregistered /\ heard = FALSE /\ setEnv = FALSE
        /\ sshFile = {} /\ sshRead = {} /\ platforms = {} /\ read = {}
    BY DEF Init, Unregistered
  <2>5. ReadyTypeOK
    BY <1>2 DEF ReadyInv
  <2> QED
    BY <2>1, <2>2, <2>3, <2>4, <2>5 DEF TypeOK
<1> QED
  BY <1>2, <1>3 DEF Init, ReadyInit, SetupInv, WaitInv, LeftInv, BlockInv

\* The two ends of an await that release everything, and the next await.
LEMMA EndsRelease ==
  ASSUME SetupInv, Throws \/ (Closes /\ left = {}), ReadyInv', TypeOK', pc' = "idle",
         buildLog' = "closed", agentLog' = "closed"
  PROVE  SetupInv'
BY DEF Throws, Closes, SetupInv, WaitInv, LeftInv, BlockInv

\* A step that leaves the wait alone.
LEMMA SetupRests ==
  ASSUME SetupInv, UNCHANGED readyVars
  PROVE  /\ ReadyInv' /\ ReadyTypeOK'
         /\ (pc' = pc /\ buildLog' = buildLog /\ agentLog' = agentLog /\ ws' = ws)
         /\ (ws \in Shown)' = (ws \in Shown)
BY DEF SetupInv, ReadyInv, ReadyTypeOK, ResolvesOwnAgent, readyVars, remote, streams

\* From the migration to the listener.
LEMMA ConnectKeeps ==
  ASSUME SetupInv,
         \/ MigrateToSecretsStorage \/ LookUpSession \/ EnsureLoggedInAndRetry
         \/ ResolveRemoteBinary \/ CheckCompatibility \/ ConfigureAndWatch
  PROVE  SetupInv'
<1> USE DEF SetupInv, TypeOK, WaitInv, LeftInv, BlockInv,
        Next1, Throws, Closes, Registers, auth, ssh, settings, Ended, Resources, Unregistered
<1>1. CASE MigrateToSecretsStorage
  <2>1. stored' \in 0..MaxTokens
    BY <1>1, SetupAssumption DEF MigrateToSecretsStorage
  <2> QED
    BY <1>1, <2>1, SetupRests DEF MigrateToSecretsStorage
<1>2. CASE LookUpSession
  BY <1>2, SetupRests DEF LookUpSession, SetUpClient
<1>3. CASE EnsureLoggedInAndRetry
  <2>1. stored' \in 0..MaxTokens
    BY <1>3, SetupAssumption DEF EnsureLoggedInAndRetry
  <2> QED
    BY <1>3, <2>1, SetupRests DEF EnsureLoggedInAndRetry
<1>4. CASE ResolveRemoteBinary
  BY <1>4, SetupRests DEF ResolveRemoteBinary
<1>5. CASE CheckCompatibility
  BY <1>5, SetupRests DEF CheckCompatibility
<1>6. CASE ConfigureAndWatch
  BY <1>6, SetupRests DEF ConfigureAndWatch
<1> QED
  BY <1>1, <1>2, <1>3, <1>4, <1>5, <1>6

\* From the inbox to the check of what ssh makes of the block.
LEMMA ConfigureKeeps ==
  ASSUME SetupInv,
         \/ CreateInbox \/ GetDeploymentSSHConfig \/ LoadSSHConfig
         \/ BuildProxyCommand \/ UpdateSSHConfig \/ SaveSSHConfig
         \/ CheckSSHProperties
  PROVE  SetupInv'
<1> USE DEF SetupInv, TypeOK, WaitInv, LeftInv, BlockInv,
        Next1, Throws, Closes, Registers, auth, ssh, settings, Ended, Resources, Unregistered
<1>1. CASE CreateInbox
  BY <1>1, SetupRests DEF CreateInbox
<1>2. CASE GetDeploymentSSHConfig
  BY <1>2, SetupRests DEF GetDeploymentSSHConfig
<1>3. CASE LoadSSHConfig
  BY <1>3, SetupRests DEF LoadSSHConfig
<1>4. CASE BuildProxyCommand
  BY <1>4, SetupRests DEF BuildProxyCommand
<1>5. CASE UpdateSSHConfig
  BY <1>5, SetupRests, WrittenBlocksAreOurs DEF UpdateSSHConfig, Malformed, HasBlock, MarkedAsOurs
<1>6. CASE SaveSSHConfig
  BY <1>6, SetupRests DEF SaveSSHConfig
<1>7. CASE CheckSSHProperties
  BY <1>7, SetupRests DEF CheckSSHProperties, Matches, Values, Keys
<1> QED
  BY <1>1, <1>2, <1>3, <1>4, <1>5, <1>6, <1>7

\* The settings, the monitor and the status bar, and the disposal.
LEMMA FinishKeeps ==
  ASSUME SetupInv,
         \/ BuildSshOverrides \/ ReadSettings \/ ApplySettingOverrides
         \/ StartSshMonitor \/ CreateAgentMetadataStatusBar \/ DisposeDetails
  PROVE  SetupInv'
<1> USE DEF SetupInv, TypeOK, WaitInv, LeftInv, BlockInv,
        Next1, Throws, Closes, Registers, auth, ssh, settings, Ended, Resources, Unregistered
<1>1. CASE BuildSshOverrides
  BY <1>1, SetupRests DEF BuildSshOverrides
<1>2. CASE ReadSettings
  BY <1>2, SetupRests DEF ReadSettings
<1>3. CASE ApplySettingOverrides
  BY <1>3, SetupRests DEF ApplySettingOverrides
<1>4. CASE StartSshMonitor
  BY <1>4, SetupRests DEF StartSshMonitor
<1>5. CASE CreateAgentMetadataStatusBar
  BY <1>5, SetupRests DEF CreateAgentMetadataStatusBar
<1>6. CASE DisposeDetails
  BY <1>6, SetupRests DEF DisposeDetails
<1> QED
  BY <1>1, <1>2, <1>3, <1>4, <1>5, <1>6

\* What other windows write, and the listener that follows them.
LEMMA OthersKeep ==
  ASSUME SetupInv,
         \/ AuthChanged \/ OtherWindowStores \/ OtherWindowSavesSSHConfig
         \/ OtherWindowWritesSettings
  PROVE  SetupInv'
<1> USE DEF SetupInv, TypeOK, WaitInv, LeftInv, BlockInv,
        Next1, Throws, Closes, Registers, auth, ssh, settings, Ended, Resources, Unregistered
<1>1. CASE AuthChanged
  <2>1. /\ UNCHANGED <<readyVars, phase, held, left, stored, sshFile, sshRead, setEnv, sshBlock,
                       platforms, read, override>>
        /\ client' = stored /\ heard' = FALSE
    BY <1>1 DEF AuthChanged
  <2>2. ReadyInv' /\ ReadyTypeOK' /\ UNCHANGED <<pc, buildLog, agentLog, ws>>
    BY <2>1, SetupRests
  <2>3. TypeOK'
    BY <2>1, <2>2
  <2> QED
    BY <2>1, <2>2, <2>3 DEF Shown
<1>2. CASE OtherWindowStores
  <2>1. stored' \in 0..MaxTokens
    BY <1>2, SetupAssumption DEF OtherWindowStores, Change
  <2>2. PICK t : Change(t)
    BY <1>2 DEF OtherWindowStores
  <2>3. phase \in {"binary", "compatibility", "configure", "inbox"}
    BY <1>2 DEF OtherWindowStores
  <2> QED
    BY <2>1, <2>2, <2>3, SetupRests DEF Change
<1>3. CASE OtherWindowSavesSSHConfig
  BY <1>3, SetupRests DEF OtherWindowSavesSSHConfig
<1>4. CASE OtherWindowWritesSettings
  BY <1>4, SetupRests DEF OtherWindowWritesSettings
<1> QED
  BY <1>1, <1>2, <1>3, <1>4

\* The workspace that was looked up is the one the monitor and the wait begin with.
LEMMA LookupKeeps == ASSUME SetupInv, LookupWorkspace PROVE SetupInv'
<1>1. /\ pc = "idle" /\ phase = "lookup"
      /\ UNCHANGED <<server, news, pc, pending, mode, agent, buildLog, agentLog, failure>>
      /\ UNCHANGED <<stored, client, heard, ssh>>
  BY DEF SetupInv, WaitInv, LookupWorkspace, remote, streams, auth
<1>2. ws' = server \/ ws' = ws
  BY DEF LookupWorkspace
<1>3. ReadyInv'
  <2>1. server \in Shown /\ server \in Workspaces
    BY DEF SetupInv, ReadyInv, ReadyTypeOK
  <2>2. ReadyTypeOK'
    BY <1>1, <1>2, <2>1 DEF SetupInv, ReadyInv, ReadyTypeOK
  <2> QED
    BY <1>1, <1>2, <2>1, <2>2 DEF SetupInv, ReadyInv, ResolvesOwnAgent, Processing
<1>4. TypeOK'
  BY <1>1, <1>3
  DEF SetupInv, TypeOK, ReadyInv, LookupWorkspace, Throws, Closes, Ended, Resources, Unregistered, ssh, settings
<1>5. CASE Throws \/ Closes
  BY <1>1, <1>3, <1>4, <1>5, EndsRelease DEF SetupInv, WaitInv, LeftInv
<1>6. CASE ws' = server /\ phase' = "monitor" /\ held' = held \cup {"label"} /\ left' = {"monitor"}
  <2>1. server \in Shown
    BY DEF SetupInv, ReadyInv
  <2> QED
    BY <1>1, <1>3, <1>4, <1>6, <2>1
    DEF SetupInv, WaitInv, LeftInv, BlockInv
<1> QED
  BY <1>5, <1>6 DEF LookupWorkspace

LEMMA CreateMonitorKeeps == ASSUME SetupInv, CreateMonitor PROVE SetupInv'
<1>1. /\ pc = "idle" /\ phase = "monitor" /\ ws \in Shown
      /\ buildLog = "closed" /\ agentLog = "closed"
      /\ UNCHANGED <<server, pending, mode, agent, buildLog, agentLog, failure>>
      /\ UNCHANGED <<stored, client, heard, sshFile, sshRead, setEnv, sshBlock, platforms, read,
          override>>
  BY DEF SetupInv, WaitInv, CreateMonitor, streams, auth, ssh, settings
<1>2. CASE Registers({"monitor", "stateMachine"}, "wait") /\ pc' = "dispatch"
    /\ news' = TRUE /\ ws' = ws
  <2>1. ReadyInv'
    BY <1>1, <1>2 DEF SetupInv, ReadyInv, ReadyTypeOK, ResolvesOwnAgent, Processing
  <2>2. TypeOK'
    BY <1>1, <1>2, <2>1 DEF SetupInv, TypeOK, ReadyInv, Resources, Registers, Unregistered
  <2> QED
    BY <1>1, <1>2, <2>1, <2>2 DEF SetupInv, WaitInv, LeftInv, BlockInv, Registers
<1>3. CASE Throws /\ ws' = None /\ pc' = pc /\ news' = news
  <2>1. ReadyInv'
    BY <1>1, <1>3 DEF SetupInv, ReadyInv, ReadyTypeOK, ResolvesOwnAgent, Processing
  <2>2. TypeOK'
    BY <1>1, <1>3, <2>1 DEF SetupInv, TypeOK, ReadyInv, Throws, Ended
  <2> QED
    BY <1>1, <1>3, <2>1, <2>2, EndsRelease
<1> QED
  BY <1>2, <1>3 DEF CreateMonitor

\* The end of the wait closes the streams; with an agent of its own workspace
\* resolveAgent finds it.
LEMMA WorkspaceIsReadyKeeps == ASSUME SetupInv, WorkspaceIsReady PROVE SetupInv'
<1>1. /\ phase = "wait" /\ buildLog' = "closed" /\ agentLog' = "closed"
      /\ pc' = "idle" /\ ws' = None /\ mode' = "none" /\ agent' = 0 /\ failure' = "none"
      /\ UNCHANGED <<server, news, pending, stored, client, heard, sshFile, sshRead,
                     setEnv, sshBlock, platforms, read, override>>
  BY DEF WorkspaceIsReady, remote, auth, ssh, settings
<1>2. ReadyInv'
  <2>1. 0 \in 0..MaxBuilds
    BY ReadyAssumption
  <2>2. ReadyTypeOK'
    BY <1>1, <2>1 DEF SetupInv, ReadyInv, ReadyTypeOK
  <2> QED
    BY <1>1, <2>2 DEF SetupInv, ReadyInv, ResolvesOwnAgent, Processing
<1>3. TypeOK'
  BY <1>1, <1>2 DEF SetupInv, TypeOK, ReadyInv, WorkspaceIsReady, Throws, Next1, Ended
<1>4. CASE Throws
  BY <1>1, <1>2, <1>3, <1>4, EndsRelease
<1>5. CASE Next1("inbox")
  BY <1>1, <1>2, <1>3, <1>5
  DEF SetupInv, WaitInv, LeftInv, BlockInv, Next1
<1> QED
  BY <1>4, <1>5 DEF WorkspaceIsReady

\* A step of the wait, of the stream or of the deployment leaves the set-up alone.
LEMMA WaitKeeps == ASSUME SetupInv, Wait \/ DeploymentStep PROVE SetupInv'
<1>1. UNCHANGED <<phase, held, left, stored, client, heard, sshFile, sshRead, setEnv, sshBlock,
                  platforms, read, override>>
  BY DEF Wait, DeploymentStep, setupVars
<1>2. /\ ReadyInv'
      /\ \/ phase = "wait" /\ pc' # "idle"
         \/ phase \in {"monitor", "wait"} /\ pc' = pc
            /\ UNCHANGED <<ws, buildLog, agentLog>>
  <2>1. CASE Wait
    BY <2>1, ReadyStepKeeps, WorkspaceEventKeeps DEF Wait, SetupInv
  <2>2. CASE DeploymentStep
    <3>1. UNCHANGED <<ws, buildLog, agentLog>>
      BY <2>2
      DEF DeploymentStep, Deployment, BuildEnds, AgentMoves, OthersBuild, ServerMoves, streams
    <3> QED
      BY <2>2, <3>1, DeploymentKeeps DEF DeploymentStep, SetupInv
  <2> QED
    BY <2>1, <2>2
<1>3. TypeOK'
  BY <1>1, <1>2 DEF SetupInv, TypeOK, ReadyInv
<1> QED
  BY <1>1, <1>2, <1>3
  DEF SetupInv, WaitInv, LeftInv, BlockInv

\* And one that changes nothing.
LEMMA SetupRestsAlone == ASSUME SetupInv, UNCHANGED vars PROVE SetupInv'
<1> USE DEF vars, setupVars
<1>1. TypeOK'
  BY SetupRests DEF SetupInv, TypeOK
<1> QED
  BY <1>1, SetupRests DEF SetupInv, WaitInv, LeftInv, BlockInv

-----------------------------------------------------------------------------
(* Theorems *)

THEOREM SetupKeepsItsInvariant == Spec => []SetupInv
<1>1. SetupInv /\ [Next]_vars => SetupInv'
  <2> SUFFICES ASSUME SetupInv, [Next]_vars PROVE SetupInv'
    OBVIOUS
  <2>1. CASE SetupStep
    BY <2>1, ConnectKeeps, LookupKeeps, CreateMonitorKeeps, WorkspaceIsReadyKeeps,
       ConfigureKeeps, FinishKeeps DEF SetupStep
  <2>2. CASE DisposeDetails \/ AuthChanged \/ OtherWindowStores \/ OtherWindowSavesSSHConfig
             \/ OtherWindowWritesSettings
    BY <2>2, FinishKeeps, OthersKeep
  <2>3. CASE Wait \/ DeploymentStep
    BY <2>3, WaitKeeps
  <2>4. CASE UNCHANGED vars
    BY <2>4, SetupRestsAlone
  <2> QED
    BY <2>1, <2>2, <2>3, <2>4 DEF Next
<1> QED
  BY <1>1, SetupInitially, PTL DEF Spec

\* However setup() ends without a connection, nothing it registered is left, and of
\* what it had not registered only what the step that failed had created, for any
\* number of builds and tokens (the catch of setupCoderRemote).
THEOREM NothingLeftBehind == Spec => []SetupInvariant
<1>1. SetupInv => SetupInvariant
  BY DEF SetupInv, WaitInv, LeftInv, SetupInvariant, ReleasesWhatItHeld
<1> QED
  BY <1>1, SetupKeepsItsInvariant, PTL

\* The wait resolves with an agent of the workspace it resolves with, and the
\* window connects by our proxy command, its session marked as one of VS Code if
\* ssh can, whatever options the deployment, the CLI and the user set.
THEOREM ConnectsAsItShould == Spec => []ConnectsToItsOwn
<1>1. SetupInv => ConnectsToItsOwn
  <2> SUFFICES ASSUME SetupInv PROVE ConnectsToItsOwn
    OBVIOUS
  <2>1. ASSUME phase \in {"settings", "settingsRead", "settingsWrite", "sshMonitor", "statusBar",
                          "connected"}
        PROVE  /\ sshBlock["ProxyCommand"] = <<"coder">>
               /\ setEnv => \E i \in DOMAIN sshBlock["SetEnv"] : sshBlock["SetEnv"][i] = "vscode"
    <3>1. (setEnv => MarkedAsOurs(sshBlock)) /\ sshBlock["ProxyCommand"] = <<"coder">>
      BY <2>1 DEF SetupInv, BlockInv
    <3>2. ASSUME setEnv
          PROVE  \E i \in DOMAIN sshBlock["SetEnv"] : sshBlock["SetEnv"][i] = "vscode"
      <4>1. PICK s \in Seq({"coder", "vscode", "other"}) :
              s = sshBlock["SetEnv"] /\ s # <<>> /\ s[1] = "vscode"
        BY <3>1, <3>2 DEF MarkedAsOurs
      <4>2. 1 \in DOMAIN s
        BY <4>1, LenProperties, EmptySeq
      <4> QED
        BY <4>1, <4>2
    <3> QED
      BY <3>1, <3>2
  <2>2. ResolvesOwnAgent
    BY DEF SetupInv, ReadyInv
  <2> QED
    BY <2>1, <2>2 DEF ConnectsToItsOwn, ConnectsWithItsOptions
<1> QED
  BY <1>1, SetupKeepsItsInvariant, PTL
=============================================================================
