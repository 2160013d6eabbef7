---------------------------- MODULE RemoteSetup ----------------------------
(***************************************************************************)
(* Remote.setup of src/remote/remote.ts, around the wait of WorkspaceReady:*)
(* the awaits that open a remote window, in their order, what each of them *)
(* acquires for disposal, the session token it was started with and the    *)
(* SSH config file it shares with other windows.                           *)
(***************************************************************************)
EXTENDS WorkspaceReady, Sequences

CONSTANT MaxTokens   \* tokens ever issued for the deployment (a bound)

ASSUME SetupAssumption == MaxTokens \in Nat \ {0}

VARIABLES
  phase,      \* the await at which setup() is, or how it ended
  held,       \* disposables: what is registered and not disposed
  left,       \* what a step has created and registers only when it succeeds
  stored,     \* the token of the session in the secret storage, 0 for none
  client,     \* the token of workspaceClient
  heard,      \* a change of the session auth is being delivered
  sshFile,    \* blocks in the SSH config: of this deployment, of others
  sshRead,    \* the blocks load() read
  setEnv,     \* sshSupportsSetEnv(), once it was asked
  sshBlock,   \* the options written into the block of this deployment
  platforms,  \* remote.SSH.remotePlatform of the settings file: of this host, of others
  read,       \* the same, as applySettingOverrides read it
  override    \* the object to write for it, or NoOverride

setupVars == <<phase, held, left, stored, client, heard, sshFile, sshRead, setEnv, sshBlock,
               platforms, read, override>>
vars == <<readyVars, setupVars>>

auth == <<stored, client, heard>>
ssh  == <<sshFile, sshRead, setEnv, sshBlock, platforms, read, override>>
settings == <<platforms, read, override>>
NoOverride == {"none"}

Resources == {"env", "oauth", "client", "interceptor", "authListener", "label", "monitor",
              "stateMachine", "inbox", "sshMonitor", "statusBar", "listeners", "settings"}
\* The status bar item of WorkspaceMonitor's constructor; the listeners and the item
\* of the agent's metadata that are the arguments of one push.
Unregistered == {{}, {"monitor"}, {"listeners", "statusBar"}}
Ended == {"connected", "closed", "failed", "disposed"}

-----------------------------------------------------------------------------
(* The options of a block: values are the sequences of their words, keys are *)
(* compared without case.                                                    *)

\* An ssh before 7.8 has no SetEnv, and the session is not marked.
Values(marks) == [k \in {"ProxyCommand"} \cup (IF marks THEN {"SetEnv"} ELSE {}) |->
                    IF k = "SetEnv" THEN <<"vscode">> ELSE <<"coder">>]
Keys == {"ProxyCommand", "SetEnv"}
NoOptions == [k \in {} |-> <<>>]
Options == UNION {[keys -> {<<>>, <<"other">>}] : keys \in SUBSET Keys}

\* An override replaces, an empty one removes; SetEnv accumulates.
MergeSshConfigValues(config, overrides) ==
  LET both == DOMAIN config \cap DOMAIN overrides
      Value(k) == IF k \in both /\ k = "SetEnv" THEN config[k] \o overrides[k]
                  ELSE IF k \in DOMAIN overrides THEN overrides[k] ELSE config[k]
      removed == {k \in DOMAIN config : Value(k) = <<>>}
  IN [k \in (DOMAIN config \cup DOMAIN overrides) \ removed |-> Value(k)]

Init ==
  /\ \E startupMode \in {"none", "start", "update"} : ReadyInit(startupMode)
  /\ phase = "migrate" /\ held = {} /\ left = {}
  /\ stored \in {0, 1} /\ client = 0
  /\ heard = FALSE
  /\ sshFile = {} /\ sshRead = {} /\ setEnv = FALSE /\ sshBlock = NoOptions
  /\ platforms = {} /\ read = {} /\ override = NoOverride

-----------------------------------------------------------------------------
(* setup: migration, session, and the login that starts it all over. *)

\* Only what is registered is disposed.
Throws == phase' = "failed" /\ held' = {} /\ UNCHANGED left
Closes == phase' = "closed" /\ held' = {} /\ UNCHANGED left
Next1(p) == phase' = p /\ UNCHANGED <<held, left>>
Registers(S, p) == phase' = p /\ held' = held \cup S /\ left' = {}

\* The token file of older versions is renamed, then moved to the storage.
MigrateToSecretsStorage ==
  /\ phase = "migrate"
  /\ \/ Next1("session") /\ stored' \in (IF stored = 0 THEN {0, 1} ELSE {stored})
     \/ Throws /\ UNCHANGED stored
  /\ UNCHANGED <<readyVars, client, heard, ssh>>

SetUpClient ==
  /\ Registers({"env", "oauth", "client", "interceptor"}, "binary") /\ client' = stored

LookUpSession ==
  /\ phase = "session"
  /\ \/ stored = 0 /\ Next1("login") /\ UNCHANGED client
     \/ stored # 0 /\ SetUpClient
  /\ UNCHANGED <<readyVars, stored, heard, ssh>>

\* The login of this window or, under its dialog, of another one.
EnsureLoggedInAndRetry ==
  /\ phase = "login"
  /\ \/ Next1("migrate") /\ stored' \in {t \in {stored, stored + 1} : t \in 1..MaxTokens}
     \/ Closes /\ UNCHANGED stored
  /\ UNCHANGED <<readyVars, client, heard, ssh>>

-----------------------------------------------------------------------------
(* setupCoderRemote: one action per await, with what follows it at once. *)

ResolveRemoteBinary ==
  /\ phase = "binary"
  /\ Next1("compatibility") \/ Throws
  /\ UNCHANGED <<readyVars, auth, ssh>>

\* Too old a deployment: an explanation, and the window is closed.
CheckCompatibility ==
  /\ phase = "compatibility"
  /\ Next1("configure") \/ Closes \/ Throws
  /\ UNCHANGED <<readyVars, auth, ssh>>

\* configure() is awaited, then the listener is there.
ConfigureAndWatch ==
  /\ phase = "configure"
  /\ \/ Registers({"authListener"}, "lookup")
     \/ Throws
  /\ UNCHANGED <<readyVars, auth, ssh>>

\* Mutant: the missing workspace keeps what was acquired so far.
LookupKeepsDisposables ==
  /\ phase = "lookup"
  /\ \/ /\ ws' = server
        /\ phase' = "monitor" /\ held' = held \cup {"label"} /\ left' = {"monitor"}
     \/ Next1("closed") /\ UNCHANGED ws
     \/ Throws /\ UNCHANGED ws
  /\ UNCHANGED <<remote, pc, pending, mode, agent, streams, failure, auth, ssh>>

\* A 404 is explained, everything released, and another workspace offered.  Else
\* the monitor is constructed, status bar item and all, and then its stream opened.
LookupWorkspace ==
  /\ phase = "lookup"
  /\ \/ /\ ws' = server
        /\ phase' = "monitor" /\ held' = held \cup {"label"} /\ left' = {"monitor"}
     \/ Closes /\ UNCHANGED ws
     \/ Throws /\ UNCHANGED ws
  /\ UNCHANGED <<remote, pc, pending, mode, agent, streams, failure, auth, ssh>>

\* The stream first sends the state it finds.
CreateMonitor ==
  /\ phase = "monitor"
  /\ \/ /\ Registers({"monitor", "stateMachine"}, "wait")
        /\ pc' = "dispatch" /\ news' = TRUE
        /\ UNCHANGED ws
     \/ Throws /\ ws' = None /\ UNCHANGED <<pc, news>>
  /\ UNCHANGED <<server, pending, mode, agent, streams, failure, auth, ssh>>

\* The finally, and resolveAgent after it.
WorkspaceIsReady ==
  /\ phase = "wait" /\ pc \in {"resolved", "rejected"}
  /\ buildLog' = "closed" /\ agentLog' = "closed"
  /\ IF pc = "resolved" /\ agent = ws.build THEN Next1("inbox") ELSE Throws
  /\ pc' = "idle" /\ ws' = None
  /\ mode' = "none" /\ agent' = 0 /\ failure' = "none"  \* of no use any more
  /\ UNCHANGED <<remote, pending, auth, ssh>>

CreateInbox ==
  /\ phase = "inbox"
  /\ \/ Registers({"inbox"}, "sshOptions")
     \/ Throws
  /\ UNCHANGED <<readyVars, auth, ssh>>

\* A deployment without such options answers 404.
GetDeploymentSSHConfig ==
  /\ phase = "sshOptions"
  /\ Next1("sshLoad") \/ Throws
  /\ UNCHANGED <<readyVars, auth, ssh>>

\* No file is an empty one.  What is in it is chosen here, where it first matters.
LoadSSHConfig ==
  /\ phase = "sshLoad"
  /\ sshFile' \in SUBSET {"ours", "theirs", "malformed"} /\ sshRead' = sshFile'
  /\ Next1("proxyCommand")
  /\ UNCHANGED <<readyVars, auth, setEnv, sshBlock, settings>>

\* The directory of the proxy's logs is made first.
BuildProxyCommand ==
  /\ phase = "proxyCommand"
  /\ Next1("sshUpdate") \/ Throws
  /\ UNCHANGED <<readyVars, auth, ssh>>

\* getBlock refuses a file with half a block or two, and changes nothing.
HasBlock == "ours" \in sshRead
Malformed == "malformed" \in sshRead

\* The deployment's options, those of `coder config-ssh` and the user's.
WrittenBlocks ==
  [marks \in BOOLEAN |->
    {MergeSshConfigValues(Values(marks), MergeSshConfigValues(MergeSshConfigValues(d, c), u)) :
       d \in Options, c \in Options, u \in Options}]

\* The block is replaced or appended, in memory.
UpdateSSHConfig ==
  /\ phase = "sshUpdate"
  /\ setEnv' \in BOOLEAN
  /\ \/ /\ ~Malformed
        /\ sshRead' = IF HasBlock THEN sshRead ELSE sshRead \cup {"ours"}
        /\ sshBlock' \in WrittenBlocks[setEnv']
        /\ Next1("sshSave")
     \/ Malformed /\ Throws /\ UNCHANGED sshBlock /\ sshRead' = {}
  /\ UNCHANGED <<readyVars, auth, sshFile, settings>>

\* A file beside it is written and renamed, over whatever is there by now.
SaveSSHConfig ==
  /\ phase = "sshSave"
  /\ \/ sshFile' = sshRead /\ Next1("sshCheck")
     \/ Throws /\ UNCHANGED sshFile
  /\ sshRead' = {}
  /\ UNCHANGED <<readyVars, auth, setEnv, sshBlock, settings>>

Matches(key) == key \in DOMAIN sshBlock /\ sshBlock[key] = Values(setEnv)[key]

\* What ssh makes of the file: the block, unless an entry of the user's for all
\* hosts comes before it.  A mismatch is explained and the window closed.
CheckSSHProperties ==
  /\ phase = "sshCheck"
  /\ \/ Matches("ProxyCommand") /\ Next1("settings")
     \/ Throws
  /\ UNCHANGED <<readyVars, auth, ssh>>

\* The object for all hosts is made from the settings VS Code knows: our entry is
\* added, or taken out where the user's RemoteCommand needs that.  Timeouts too low
\* or not set make overrides of their own.
BuildSshOverrides ==
  /\ phase = "settings"
  /\ \E known \in SUBSET {"ours", "theirs"}, skipRemotePlatform, timeouts \in BOOLEAN :
       LET wanted == IF skipRemotePlatform THEN known \ {"ours"} ELSE known \cup {"ours"} IN
       /\ platforms' = known
       /\ override' = IF wanted = known THEN NoOverride ELSE wanted
       /\ Next1(IF wanted # known \/ timeouts THEN "settingsRead" ELSE "sshMonitor")
  /\ UNCHANGED <<readyVars, auth, sshFile, sshRead, setEnv, sshBlock, read>>

\* A file that cannot be read is taken for an empty one.
ReadSettings ==
  /\ phase = "settingsRead"
  /\ read' \in {platforms, {}}
  /\ Next1("settingsWrite")
  /\ UNCHANGED <<readyVars, auth, sshFile, sshRead, setEnv, sshBlock, platforms, override>>

\* The whole file is written, with the edits; if that fails it is not needed.
ApplySettingOverrides ==
  /\ phase = "settingsWrite"
  /\ \/ platforms' = IF override = NoOverride THEN read ELSE override
     \/ UNCHANGED platforms
  /\ read' = {} /\ override' = NoOverride
  /\ Next1("sshMonitor")
  /\ UNCHANGED <<readyVars, auth, sshFile, sshRead, setEnv, sshBlock>>

\* The listeners, among them the one that registers the label again, and the status
\* bar item are there before the stream of the metadata is awaited.
StartSshMonitor ==
  /\ phase = "sshMonitor"
  /\ phase' = "statusBar" /\ held' = held \cup {"sshMonitor"}
  /\ left' = {"listeners", "statusBar"}
  /\ platforms' = {}   \* of no use to this window any more
  /\ UNCHANGED <<readyVars, auth, sshFile, sshRead, setEnv, sshBlock, read, override>>

CreateAgentMetadataStatusBar ==
  /\ phase = "statusBar"
  /\ \/ Registers({"listeners", "statusBar", "settings"}, "connected")
     \/ Throws
  /\ UNCHANGED <<readyVars, auth, ssh>>

\* RemoteDetails.dispose, at deactivation.
DisposeDetails ==
  /\ phase = "connected"
  /\ phase' = "disposed" /\ held' = {} /\ UNCHANGED left
  /\ UNCHANGED <<readyVars, auth, ssh>>

-----------------------------------------------------------------------------
(* The session auth of the deployment, and other windows. *)

Change(t) ==
  /\ stored' = t
  /\ heard' = (heard \/ "authListener" \in held)
  /\ UNCHANGED <<readyVars, phase, held, left, client, ssh>>

\* A refresh or a login of another window, and its logout, at the awaits around
\* the one where they matter: a bound, the wait does not look at the token.
OtherWindowStores ==
  /\ phase \in {"binary", "compatibility", "configure", "inbox"}
  /\ \/ stored \in 1..(MaxTokens - 1) /\ Change(stored + 1)
     \/ stored # 0 /\ Change(0)

\* The configuration of the CLI that follows may fail and is its own component.
AuthChanged ==
  /\ heard /\ "authListener" \in held
  /\ heard' = FALSE
  /\ client' = stored
  /\ UNCHANGED <<readyVars, phase, held, left, stored, ssh>>

OtherWindowSavesSSHConfig ==
  /\ phase \in {"proxyCommand", "sshSave"}
  /\ sshFile' = sshFile \cup {"theirs"}
  /\ UNCHANGED <<readyVars, phase, held, left, auth, sshRead, setEnv, sshBlock, settings>>

\* Another window that connects enters its own host.
OtherWindowWritesSettings ==
  /\ phase \in {"settingsRead", "settingsWrite"}
  /\ platforms' = platforms \cup {"theirs"}
  /\ UNCHANGED <<readyVars, phase, held, left, auth, sshFile, sshRead, setEnv, sshBlock, read,
                 override>>

-----------------------------------------------------------------------------

SetupStep ==
  \/ MigrateToSecretsStorage \/ LookUpSession \/ EnsureLoggedInAndRetry
  \/ ResolveRemoteBinary \/ CheckCompatibility \/ ConfigureAndWatch
  \/ LookupWorkspace \/ CreateMonitor \/ WorkspaceIsReady \/ CreateInbox
  \/ GetDeploymentSSHConfig \/ LoadSSHConfig \/ BuildProxyCommand
  \/ UpdateSSHConfig \/ SaveSSHConfig \/ CheckSSHProperties
  \/ BuildSshOverrides \/ ReadSettings \/ ApplySettingOverrides
  \/ StartSshMonitor \/ CreateAgentMetadataStatusBar

Wait == phase = "wait" /\ (ReadyStep \/ WorkspaceEvent) /\ UNCHANGED setupVars
DeploymentStep ==
  phase \in {"monitor", "wait"} /\ Deployment /\ UNCHANGED setupVars

Next ==
  \/ SetupStep \/ DisposeDetails \/ AuthChanged
  \/ Wait \/ DeploymentStep
  \/ OtherWindowStores \/ OtherWindowSavesSSHConfig \/ OtherWindowWritesSettings

Spec == Init /\ [][Next]_vars

\* Requests are answered, dialogs closed, builds end and the stream delivers.
FairSpec ==
  /\ Spec
  /\ WF_vars(SetupStep)
  /\ WF_vars(phase = "wait" /\ ReadyStep /\ UNCHANGED setupVars)
  /\ WF_vars(phase = "wait" /\ WorkspaceEvent /\ UNCHANGED setupVars)
  /\ WF_vars(phase = "wait" /\ BuildEnds /\ UNCHANGED setupVars)

-----------------------------------------------------------------------------
(* Properties *)

\* Every variable stays within its type.
TypeOK ==
  /\ ReadyTypeOK
  /\ phase \in Ended \cup {"migrate", "session", "login", "binary", "compatibility", "configure",
       "lookup", "monitor", "wait", "inbox", "sshOptions", "sshLoad", "proxyCommand", "sshUpdate",
       "sshSave", "sshCheck", "settings", "settingsRead", "settingsWrite", "sshMonitor", "statusBar"}
  /\ held \subseteq Resources /\ left \in Unregistered
  /\ stored \in 0..MaxTokens /\ client \in 0..MaxTokens
  /\ heard \in BOOLEAN /\ setEnv \in BOOLEAN
  /\ sshFile \subseteq {"ours", "theirs", "malformed"}
  /\ sshRead \subseteq {"ours", "theirs", "malformed"}
  /\ DOMAIN sshBlock \subseteq Keys
  /\ platforms \subseteq {"ours", "theirs"} /\ read \subseteq {"ours", "theirs"}
  /\ override = NoOverride \/ override \subseteq {"ours", "theirs"}

\* However setup() ends without a connection, everything it registered is disposed
\* (the catch of setupCoderRemote, and the two ends that return).  What is left is
\* what the step that threw had created for itself: after any other end, nothing.
ReleasesWhatItHeld ==
  /\ phase \in {"closed", "failed", "disposed"} =>
       held = {} /\ buildLog = "closed" /\ agentLog = "closed"
  /\ left # {} => phase \in {"monitor", "statusBar", "failed"}

\* What is held fits the phase of the set-up.
SetupInvariant == TypeOK /\ ReleasesWhatItHeld

\* The agent the wait settled on belongs to the workspace it resolves with,
\* whatever was updated or rebuilt meanwhile: resolveAgent always finds it.
ResolvesOwnAgent == pc = "resolved" => agent = ws.build

\* Whatever the deployment, the CLI and the user set, a window connects through
\* our proxy command, and its session is marked as one of VS Code when ssh can.
ConnectsWithItsOptions ==
  phase \in {"settings", "settingsRead", "settingsWrite", "sshMonitor", "statusBar", "connected"} =>
    /\ sshBlock.ProxyCommand = <<"coder">>
    /\ setEnv => \E i \in DOMAIN sshBlock.SetEnv : sshBlock.SetEnv[i] = "vscode"

\* A window connects to the agent it waited for, the way its options say.
ConnectsToItsOwn == ResolvesOwnAgent /\ ConnectsWithItsOptions

\* A workspace that is ready and stays so is noticed: no event is lost between
\* the one processed and the last one kept.
ServerReady == server.status = "running" /\ server.agent = "ready"
ReadyIsNoticed == phase = "wait" /\ ServerReady ~> phase # "wait" \/ ~ServerReady

\* One that has stopped, before or in the middle of the wait, is not waited through:
\* the user is asked, it is started, or the set-up fails, also when the start or the
\* update that was tried has failed.
Stopped == server.status = "stopped"
StoppedIsActedOn == phase = "wait" /\ Stopped ~> phase # "wait" \/ ~Stopped
=============================================================================
