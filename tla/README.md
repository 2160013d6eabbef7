# Coder Remote, in TLA+

Specifications of the VS Code extension in `src/` (Coder Remote), the
configurations that check them with TLC, and theorems about them that TLAPS
proves. Paths below are relative to `src/src/` unless they start with
`packages/`.

The extension is one Node.js process per VS Code window. Its methods run to
completion on the event loop and interleave only at their awaits; the windows
of one user share secret storage, mementos and files. All the hard behaviour is
therefore in what may happen between an await and its continuation, and in what
another window writes meanwhile. The modules are written in that style: an
action is one uninterrupted run of the event loop, and a call suspended at an
await is a record in a set or a table that any other action may overtake.

## Layout

| module | models | checked by | proved in |
| --- | --- | --- | --- |
| `ReconnectingWebSocket` | one reconnecting stream and its transports | `ReconnectingWebSocket.cfg` | `ReconnectingWebSocketProofs` |
| `DeploymentSession` | the session of a window: sign-in, rotation, suspension, recovery, logout, other windows | `DeploymentSession.cfg`, `NewestTokenStays.cfg` | `DeploymentSessionProofs` |
| `OAuthSession` | token refresh of a window: shared refresh, background timer, deployment switch | `OAuthSession.cfg`, `SingleFlight.cfg` | `OAuthSessionProofs` |
| `WorkspacePolling` | a workspace tree: polling, visibility, session changes, metadata watchers | `WorkspacePolling.cfg`, `PollingContinues.cfg` | `WorkspacePollingProofs` |
| `InstalledBinary` | abstract: what fetching the CLI promises | refined by `BinaryDownload` | its refinement in `BinaryDownloadProofs` |
| `BinaryDownload` | fetching the CLI in windows that share a directory, a lock and can die | `BinaryDownload.cfg` | `BinaryDownloadProofs` |
| `WorkspaceReady` | the state machine that starts, updates and waits for a workspace | through `RemoteSetup` | `RemoteSetupProofs` |
| `RemoteSetup` | the awaits that open a remote window, around `WorkspaceReady` | `RemoteSetup.cfg` | `RemoteSetupProofs` |
| `SecretStore` | the session secrets shared by all windows, access times, pruning | through `Login` | `LoginProofs` |
| `OAuthAuthorizer` | the authorization code flow over the channel between windows, on `SecretStore` | through `Login` | `LoginProofs` |
| `Login` | the queue of logins, the dialog and its race, the sources of a token, on `OAuthAuthorizer` | `Login.cfg` | `LoginProofs` |
| `SshMonitor`, `TaskStreams`, `TasksPanel`, `Announcements`, `ApiRequests`, `ApiStreams`, `DuplicateWorkspace`, `CliCredentials`, `CliTerminal`, `WorkspaceMonitor`, `Telemetry`, `TelemetryExport` | the smaller parts of a window, one module each | through `WindowParts` | `WindowPartsProofs` |
| `WindowParts` | the sum of those twelve parts | `WindowParts.cfg`, `WindowLiveness.cfg` | `WindowPartsProofs` |

Each `MC<module>` extends its module with the values TLC needs. Operators
commented "Mutant" are the bugs each property is checked against: every
property of a passing run is violated when one mapped definition is replaced by
such an operator (`mutants` in `PROJECT.json`). The definitions map to about
10,000 lines of the source (`map`), 31% of the implementation.

## Inventory

For each part: its state, its operations, what makes it hard, and what makes it
correct. `PROJECT.json` lists the hazards at their lines, each with the
properties that would catch it or the reason why none does.

**Reconnecting WebSocket** (`websocket/reconnectingWebSocket.ts`, `codes.ts`,
`sseConnection.ts`, `oneWayWebSocket.ts`). State: a six-state reducer, the
current transport, the retry timer, the backoff, one flag for the certificate
refresh. Operations: `create`, `reconnect`, `disconnect`, `close`, and the
continuations of the socket factory, the timer, the refresh and the transport
events. Hard: factories and refreshes that settle after the state moved, two
transports alive at once, an SSE transport that reports its own close from
inside `close()`. Correct when one retry is armed exactly in AWAITING_RETRY,
CONNECTING always leads somewhere, and nothing in flight revives a disposed
instance.

**Deployment session** (`deployment/deploymentManager.ts`, `sessionStore.ts`).
State: the session (signed out, suspended, signed in), the shared API client,
the listener for one host's token, the recovery flags. Operations:
`setDeployment`, `verifyAndApplySession`, `verifyAndUpdateSession`,
`suspendSession`, `clearDeployment`, recovery after a settings change, and the
listeners of two storage keys. Hard: verifications overtaken by a login, a
logout or another window. Correct when client, listener, session and persisted
deployment agree at every point.

**OAuth session** (`oauth/sessionManager.ts`). State: the deployment, one shared
refresh promise, one abort controller, one timer handle, one token listener.
Hard: a refresh outlives the deployment it was started for; timers and reads of
storage overlap. Correct when callers share only a refresh of the deployment in
use and the chain of refreshes never ends.

**Login** (`login/loginCoordinator.ts`), **OAuth authorization**
(`oauth/authorizer.ts`), **Secrets and mementos** (`core/secretsManager.ts`,
`core/mementoManager.ts`). A queue of attempts, a dialog that races a login of
another window, sources of a token tried in turn, an authorization whose answer
may land in any window, and secrets that all windows write without a lock. Hard:
the dialog that lost its race goes on; a callback overwritten before it is read;
pruning while another window logs in. Correct when one login prompts at a time,
a code reaches its own flow, overlapping writes keep within the limit of stored
sessions, and every caller is told in the end.

**API client** (`api/coderApi.ts`, `api/authInterceptor.ts`,
`api/certificateRefresh.ts`). State: host, token, the set of reconnecting
sockets, one login in progress. Hard: requests refused together, a client that
moves to another deployment while a request is under way, sockets created
across a change, attempts of a socket that end in another order than they began.
Correct when one login serves all, every request ends, and a transport has other
credentials than its client only if they changed while its factory was in flight.

**CLI binary** (`core/cliManager.ts`, `core/binaryLock.ts`, `pgp.ts`). State:
the binary, its backups and temporary files on disk, a lock file with a
heartbeat. Hard: several windows, a stale lock, a crash between steps. Correct
when what is executed is complete and verified or waived, and a swap strands no
working binary.

**CLI credentials** (`core/cliCredentialManager.ts`, `settings/cli.ts`,
`core/cliExec.ts`). State: keyring and files, CLI processes under way. Hard:
three code paths select the store from settings and a version that change.
Correct when each reader looks where the writer wrote.

**Workspace start** (`remote/workspaceStateMachine.ts`, `api/workspace.ts`) and
**Remote connection** (`remote/remote.ts`, `sshConfig.ts`, `sshSupport.ts`).
State: the last workspace and agent, the log streams, the startup mode; the step
of the set-up and what it holds for disposal. Hard: updates that arrive while
one is processed, a workspace others build too, a failure at any step. Correct
when a ready workspace is noticed, the agent is the one of the workspace
connected to, one that stops is acted on, and an end without a connection
disposes everything that was registered.

**SSH process monitor** (`remote/sshProcess.ts`). One loop that searches a
process or polls its network file, with a search for its log beside it. Correct
when there is always one loop, and it finds the process that stays.

**Workspace monitor** (`workspace/workspaceMonitor.ts`, `inbox.ts`).
Notifications at most once per cause, none lost to the order of updates and
set-up.

**Workspace tree** (`workspace/workspacesProvider.ts`). State: what is shown,
one fetch in flight, a pending refetch, a timer handle, the map of watchers.
Hard: everything may happen during the two awaits of a fetch. Correct when
nothing of another session is shown or kept open and a visible tree keeps
polling.

**Cross-window messages** (`ipc/windowBroadcast.ts`,
`workspace/duplicateWorkspaceIpc.ts`). One-slot channels in shared storage: a
message may be overwritten before it is read, and its successor read twice.

**Telemetry pipeline** (`telemetry/service.ts`, `sinks/localJsonlSink.ts`) and
**Telemetry export** (`telemetry/export/`). A buffer, coalesced flushes and file
segments, over a restart of the host; a merge of the sessions' files into one
target that is replaced at once. Correct when what is on disk is what was
logged, and an export is whole or absent.

**Announcements** (`announcements/manager.ts`). Overlapping fetches by timer,
command and sign-in. Correct when the next fetch is always on its way, once.

**Tasks panel** (`webviews/tasks/`, `packages/webview-shared`,
`packages/tasks`). Requests with timeouts between page and provider, a cache,
two lazily opened streams. Correct when every request settles and every open
stream is held.

**Configuration watcher** (`configWatcher.ts`). A debounce, part of
`ApiStreams`. **Commands and activation** (`commands.ts`, `extension.ts`): see
*Not modelled*, as for certificate errors, the support bundle, instrumentation
and the webview pages.

## What is modelled

### ReconnectingWebSocket

`state`, `currentSocket`, `backoffMs` and `certRefreshAttempted` are the private
fields of the same names; `reconnectTimeoutId` is the handle and `timers` counts
the timeouts really armed, so that a leak shows as a difference. `sock` follows
each transport from the factory in flight to its end. `CanDispatch` is the
reducer; the other definitions are the methods, with the sockets as the event
left them passed as `base`. `FactoryResolves` covers delivery in any state;
`Connect` covers the synchronous close callbacks of an SSE stream.

*Run `ReconnectingWebSocket`* (three transports, backoff 1..3, two refreshes;
104 thousand states, with liveness): one armed retry exactly in AWAITING_RETRY
and nothing held while paused or disposed (`StateOwnsItsResources`), CONNECTING
with something under way and a lost transport held only with its retry armed
(`RetryLoopAlive`), disposal final, and a loss resolved in the end by a
transport or by a stop somebody decided (`LossIsResolved`; `pause` tells such a
stop from the one the socket causes itself). Three transports are the one in
use, one orphaned by an overlapping connect and one being opened. A backoff of 1, 2 and 3 has a start, a
step, and a cap that doubling overshoots. Fairness: timers fire, factories and refreshes settle (WF);
a server that is asked again and again delivers a transport some time (SF, on
the delivery while CONNECTING: without it the loop may fail for ever, which is
its right).

Two findings without a run: `connect()` over an SSE stream, live or lost, leaves
the connection paused, so that neither `reconnect()` nor the retry of a lost
stream connects again (`LossIsResolved` excepts that loss); a certificate refresh that ends after
`disconnect()` resumes it, against the comment of DISCONNECTED.

Seen while modelling, without a run: `waitForOpen` (`api/coderApi.ts`) consumes
the first "open" before the class listens, so a stream it delivers never
reaches CONNECTED and never resets the backoff (`Deliveries` has both kinds);
two factories in flight orphan the transport delivered first; `dispose()` of
the client misses a stream that is still being created.

### DeploymentSession

`auth` and `current` are the secret storage shared with other windows, which
`OtherWindow` writes at any time. `ops` holds the calls suspended at an await,
with the values they read before it; the identity comparison of the session
object is the field `moved`, set by every transition. Events are read one key
at a time (`ReadAuthChange`, `ReadCurrentChange`) and handled later with what
was read. `SetDeployment`, `ClearDeployment` and `AfterRecovery` are the shared
methods; each other action is one continuation.

*Run `DeploymentSession`* (two deployments; two users on the first; two calls
suspended; network failures; 1.4 million states): the shared client has the
host and a token of the user shown, and none while suspended, and the listener
is that of the session (`WindowFollowsSession`); exactly one recovery pass is in flight while the flag says
so; only the login a user went through moves a signed-in window to another
deployment; what is persisted is what is shown. Two suspended calls show every
pairwise race; three tokens tell a rotation of the same host and another user
apart from a switch.

*Run `NewestTokenStays`* (violation): two rotations of a token verified at once
are applied in the order of the answers; the client may keep the older one,
with no further change to handle.

Bounds and abstractions: `MaxOps` limits suspended calls; `ops` is a set, so two
identical calls at the same await are one; a login outlasts a listener's read of
the storage (it asks the server); logins of one window are serialised, as
`executeWithGuard` does. The branch for deployments without a token is left out.

### OAuthSession

`ops` are the calls of `executeTokenRefresh` by slot, each reading, posting,
storing or ended with waiters still to run. `refreshPromise`,
`abortController`, `refreshTimer` and `listener` are the fields; `timers` are
the timeouts of the runtime, which a lost handle leaves armed. `reads` are the
calls of `scheduleNextRefresh` at their await, `setters` those of
`setDeployment`. `End` is the finally block: it compares the controller, not
the promise. `BackgroundEnds` is the continuation of the background attempt.

*Run `OAuthSession`* (two deployments, two refreshes, two timeouts, two reads
per host; 1.5 million states): a shared refresh is in flight, of the deployment
in use, not aborted and still abortable, and the listener, when there is one, is
that of the deployment (`RefreshFollowsDeployment`); while OAuth tokens are watched there is always a timer,
a read, an event, a switch or a background attempt that will look at them
again; whatever was in flight, a disposed manager attempts no refresh in the
background and arms no retry (`DisposedStaysQuiet`). A `setDeployment` under way
at the disposal does set the manager up again: the listener it registers is
never disposed, and one timer is armed that fires to no effect.

*Run `SingleFlight`* (violation): the finally block of a refresh that was
aborted clears the promise of its successor, and a third refresh starts beside
it with the same refresh token. With a rotating refresh token the later post is
refused, which signs the user out although the first one stored good tokens;
and leaving the deployment aborts only the last of the two, so the other stores
its answer afterwards.

Bounds: `MaxPending` stops the owner and the environment while that many reads,
events, switches and refreshes are pending; `MaxWaiters` and `MaxReads` cap the
attempts that share a refresh and the overlapping reads. Internal steps are
never stopped by `MaxPending`. Token lifetimes are "fresh" or "due"; an expired
token is a "due" one for which `setDeployment` waits. Change events of one host
that are pending together are handled once, with the last value. Timing
assumption: a token stays fresh for longer than it takes to store it; a server
that issues tokens of less than ten minutes breaks it, and the code then
refreshes in a tight loop or loses the chain.

Seen while modelling, without a run: a stored token without OAuth disposes the
token listener (`sessionManager.ts:171`), so an OAuth login in another window is
not followed until the next sign-in here; overlapping schedules leak a timer,
which only refreshes early; without a deployment the retry polls every five
minutes for ever; `getStoredTokens` dereferences a deployment that was cleared
during its await, which its callers turn into a log line.

### WorkspacePolling

`session` is the identity of the session object as a number, `workspaces` what
is shown with the session it was asked in, `timeout` the handle: "fired" is a
handle whose callback has run, which the code does not clear. `fetch` is the
one fetch the flag `fetching` allows, with the watchers it still has to open and
those it will drop. `sockets` are the metadata streams really open, against
`agentWatchers`, those the map can close. What runs between two awaits of I/O is
one step; the microtasks in between are not interleaved.

*Run `WorkspacePolling`* (five sessions, two agents, views with and without an
interval; with liveness): lists and watchers are of the session in use and no
stream is leaked (`TreeFollowsSession`), a visible empty tree is always being fetched and filled in the
end, and no timer survives hiding or disposal. Fairness: timers fire and requests settle; nothing is
assumed of the user or the session. Two agents suffice for one watcher open
while another is being opened; four changes overtake a fetch, its repetition
and leave one more.

*Run `PollingContinues`* (violation): a timer armed by showing the tree during a
fetch fires before the fetch ends and leaves its handle behind; the visible
tree then stops polling without a failure.

Seen while modelling, without a run: a fetch of an earlier session that fails
while the tree is hidden empties the tree of its successor (`:137` does not
compare the session), and a view without an interval does not fetch again when
it is shown.

### BinaryDownload and InstalledBinary

`run[w]` is the call of `fetchBinary` in window `w`, at one of its awaits;
`disk` the files of the shared directory, each with the bytes written and how
far its signature was checked; the lock is that of `proper-lockfile`, with a
holder and whether its heartbeat has gone stale (`PollFails` is an error of a
waiter's poll other than that the lock is held); `alive[w]` tells a window that
runs from one that sleeps or has died. `InstalledBinary` is what all of this
promises: a binary appears at a path in one step, verified unless the user or
the settings waived it, stays until it is set aside, moved or replaced, and an
answer answers a call.

*Run `BinaryDownload`* (two windows, an upgrade of the server, one suspension or
death, two calls; 674 thousand states): `DownloadInvariant`, no two downloads at once unless a window
was suspended or died; `SwapLosesNothing`, a swap strands no working binary;
`FetchEnds`, every call of a living window ends; `ImplementsInstalledBinary`,
every step is a step of the abstract specification or changes nothing of it. Two
windows are a holder and one that waits or takes over; two versions are what is
there and what the server has. Fairness: each window that runs goes on (WF).
`CHECK_DEADLOCK FALSE` because `MaxCalls` bounds the calls.

A fallback checks a candidate, asks the user when its version differs, and
renames it, each a step of its own: another window may remove or replace the
candidate meanwhile. Abstractions: temporary files of a dead window count as gone, as nobody reads
them; the settings are fixed per behaviour; `rmOld` removes all or nothing; the
latest backup by time is one of the backups; the progress log is left out.

Seen while modelling: `pgp.verifySignature` (`pgp.ts:80`) wraps an invalid
signature again as one that could not be read, which changes the question the
user is asked.

### WorkspaceReady and RemoteSetup

`WorkspaceReady` is `processWorkspace` in the loop of `waitForWorkspaceReady`:
`ws` is the snapshot being processed, `pending` the last event kept meanwhile,
`server` the workspace as it is. A workspace is the status of its latest build,
that build's number and the state of its agent; every build makes new agents, so
the number stands for the agent's id. `RemoteSetup` has one action per await of
`setup` and `setupCoderRemote` around it; `held` is the list of disposables,
`left` what a step has created and registers only when it succeeds; `stored`,
`client` and `heard` are the session token, `setEnv` is what `sshSupportsSetEnv`
said, `sshFile` is the SSH config and `platforms` the hosts entered in settings.json, each with another
writer between our read and our write.

*Run `RemoteSetup`* (three builds, two tokens; 491 thousand states, with
liveness): an end without a connection has disposed everything that was
registered, and what is left is what the step that failed had made for itself
(`SetupInvariant`); the agent waited for is that of the workspace connected to,
by our proxy command, and its session is marked where ssh has SetEnv
(`ConnectsToItsOwn`); a ready workspace is noticed (`ReadyIsNoticed`) and one
that has stopped is not waited through (`StoppedIsActedOn`). Three builds are one
found, its stop, and a start of ours or of somebody else. Fairness: requests are
answered, dialogs closed, the stream delivers and builds end (WF); nothing is
assumed of what users and others do with the workspace.

Abstractions: one agent per build; statuses that are treated alike are merged, as
are agent states and updates by CLI and API; the stream delivers the latest
state; the token changes only at the awaits around the registration of its
listener; SSH blocks are sets and what `load()` sees is chosen when it reads, as
are the entries of settings.json.

Findings without a run: `workspaceStateMachine.ts:180` and `:315`; two steps that
leave what they created when their await fails (`remote.ts:451`); a token stored
by another window between its read and its listener, which reaches nobody
(`remote.ts:308`); the entry of another host that is lost from settings.json (`sshOverrides.ts:114`); the
startup mode, one memento of all windows, that the next window to activate takes
whichever workspace it was meant for (`commands.ts:1100`): `Init` therefore
starts a set-up in every mode. Seen while
modelling: an update that fails after the stop resolves the wait with the stale
running workspace.

### SecretStore, OAuthAuthorizer and Login

`SecretStore` has the steps of a write (store, record the access, read the keys,
delete those beyond the limit one by one) with awaits between them, for all
windows; each may be rejected, and `unpruned` remembers that one was. `OAuthAuthorizer` keeps each
authorization where it stands (`flow`), its promise (`outcome`), the one handle
`pendingAuthReject`, and the slot of the channel through which any window sends
the answer of the browser. `Login` composes both: `queue` holds the logins, each
at one of its awaits; a dialog that lost its race goes on and stores what it
obtains.

*Run `Login`* (two logins of one window, other windows that log in or out once,
every source of a token; 509 thousand states, with liveness): a code reaches its own flow
(`LoginInvariant`), one login whose caller waits is under way at a time
(`OneLoginAtATime`), once all writes have returned no more than `MaxCount`
sessions are stored, unless one failed and no other has read the keys since
(`KeepsWithinLimit`), and everyone is told in the end (`EveryLoginSettles`). The
session stored at the start is an expired one; a login of this window obtains
"ours", another window's leaves "theirs", also for the CLI. The logins are named
in the order of their calls. One known deployment out
of two (`MaxCount`) stands for ten: pruning then happens with two deployments.
Fairness: each login's awaits end, dialogs are closed and writes go on (WF).
`CHECK_DEADLOCK FALSE` because the logins are bounded.

Abstractions: the access times are kept as the order they give (`recent`), which
is all that pruning looks at; the answers of `keys()` are sorted in the step that
gets them, as in the code; a callback is read and handled in one step; a message without a
listener is forgotten; a registration for another redirect counts as none; a
typed token that is refused is an empty box; the URL of a dialog is not compared
with the host; the background write of a login to the CLI's store is in
`CliCredentials`; login without a token (mTLS) and the authorizer's disposal
with its window are left out.

Seen while modelling, without a run: the cleanup of a flow clears
`pendingAuthReject` of its successor (`authorizer.ts:309`), which then ends by
its timeout only; when `openExternal` fails, its timeout and listeners stay
armed; the dialog that lost may overlap the next prompt
(`loginCoordinator.ts:203`); overlapping prunings remove a session that was
stored again since its key was listed (`secretsManager.ts:212`), also one that
the caller of a login has just been told of.

### The parts of a window

Twelve modules model the parts that share no state with each other:

| module | code | state |
| --- | --- | --- |
| `SshMonitor` | `remote/sshProcess.ts` | the loop (searching or polling), the log searches, the process at the system |
| `TaskStreams` | `api/workspace.ts`, `streamWorkspaceLogs` | two `LazyStream`s, calls at their await, sockets really open |
| `TasksPanel` | `webviews/tasks/`, `useIpc.ts` | requests of the page, handlers, the chat cache, the task at the server |
| `Announcements` | `announcements/manager.ts` | fetches under way, the timer and its handle, banners, what was surfaced |
| `ApiRequests` | `api/authInterceptor.ts`, `api/coderApi.ts` | requests in their interceptors, the login in progress |
| `ApiStreams` | `api/coderApi.ts`, `configWatcher.ts` | sockets, the credentials read by each attempt and by the transport, the debounce |
| `DuplicateWorkspace` | `ipc/windowBroadcast.ts`, `duplicateWorkspaceIpc.ts` | two slots, events not yet handled, openers and connected windows |
| `CliCredentials` | `cliCredentialManager.ts`, `settings/cli.ts` | the stores, settings, CLI version, CLI processes under way |
| `CliTerminal` | `core/cliExec.ts` | a process, its terminal and the kill timer |
| `WorkspaceMonitor` | `workspace/workspaceMonitor.ts` | the state seen, causes flagged, messages shown, a fetch under way, the set-up flag |
| `Telemetry` | `telemetry/service.ts`, `localJsonlSink.ts` | a span with a phase, the buffer, the flush in flight, the files |
| `TelemetryExport` | `telemetry/export/` | the merge, the metric buffer and its block, the target and what is temporary |

`WindowParts` is their sum, not their product: a step of one leaves the
variables of the others alone and reads none of them, so that the interleaving
of two parts can show nothing that each does not show alone. The variable `part`
is chosen in the first state and every behaviour is that part's; fairness is
stated per part over that part's variables.

*Run `WindowParts`* (755 thousand states): per part, the invariants
`OneMonitorLoop`; `StreamsAreKept` (open log streams are held by whoever must
close them, the agent's is of the task on show, and a transport has other
credentials than its client only if they changed while its factory was in
flight); `AnnouncementsGoOn`;
`OneLoginForAll`; `OnlyAskedWindowsDuplicate`; `CliFindsItsToken`;
`ToldOnce` (no message twice, none but the autostop during the set-up, and what
the latest state calls for told after it, unless muted when it was judged);
`TelemetryIsWhole`; `ExportIsWhole`, over the types. The bounds
give two of each actor (processes, refreshes, requests, streams, openers,
windows, sessions): the one in use and the one that overtakes it; one socket is
enough, as sockets do not interact. Four events,
batches of two, a buffer of two and three segments reach overflow, a rotation
and a restart.

*Run `WindowLiveness`* (84 thousand states; the six parts that wait for
something, with one request, one deployment with news, three events and two
segments): `FollowsProcess`, a process that stays is the one monitored;
`NewsIsSurfaced`; `EverythingSettles`, requests of the panel and of the client
end, an interrupted command ends, and the buffer is flushed. Fairness: delays
pass, the disk answers, the network file of a dead process ages (WF), a search
repeated while the process stays finds it (SF); requests of the panel time out;
timers of the announcements fire and their fetches end (WF), and a server asked
for ever answers and the memento is written some time (SF); interceptors go on
and logins end; kill and flush timers fire.

Abstractions. `SshMonitor`: backoff values and the status bar are left out, log
files appear at any time. `TasksPanel`: one task; creating, listing and
downloading are left out. `Announcements`: one banner per deployment.
`ApiStreams`: each socket is reduced to its state and the credentials of its
attempts and its transport; attempts that read the same are one, and what
follows the refresh of a certificate follows at once.
`CliCredentials`: settings are a snapshot taken at the call, combinations of
keyring and override that select the same store are one; a binary that changes
while a CLI process executes does not change where that process writes
(`ResolvedAsWrites`). `Telemetry`: the change of day and the
clean-up of old files are left out; of an append that fails whole lines are left
or none, and what a line cut short does to the next one is not modelled. `TelemetryExport`: the lines of a file are
chosen when they are read, a day is one unit of time, formats are data.
`WorkspaceMonitor`: the inbox is left out. `CHECK_DEADLOCK FALSE` because parts
that are disposed, or at their bounds, stop.

Findings without a run are listed in `PROJECT.json` (log search of a replaced
process, streams opened after a stop, a rejected promise kept by `LazyStream`,
the chat cache of idle tasks, settings that open sockets do not pick up, sockets
registered too late, resource blocks of alternating sessions, events around
midnight, a second header after a restart or an append that failed halfway,
credentials left in the other store).
The properties are stated around them: `StreamsAreKept` excepts transports
whose factory was overtaken by a change, `TelemetryIsWhole` asks only for order
within each file once it holds lines the sink did not count, of an earlier host
or of a failed append.

Seen while modelling, without a run: a 401 answered after the client moved to
another host joins a login there or sets its token (`authInterceptor.ts:63`,
`:135`, `:154`); after a switch of deployments the banners of the first stay
until the second's fetch; the dialog of a deletion outlives the request's
timeout of thirty seconds, and the deletion still happens;
`notifiedOutdated` stays set when the template could not be fetched
(`workspaceMonitor.ts:231`), so that the update is never told (`Told` says so);
a client without `onAuthRequired` rejects a refused request (`Reject` of
`ApiRequests`), but both clients of the extension have one.

## What is proved

Every safety property a passing run checks, invariant or action property, is
also a theorem, and so is the refinement of `InstalledBinary`. The theorems
hold for every value of the constants, from the assumptions named in the modules:
the bounds are naturals, values that mean "nothing" (`None`, `NoSite`,
`NoToken` and their like) are not members of the sets they are missing from, and
sets that are counted are finite. TLC evaluates each assumption in its run.

An invariant of the runs is seldom inductive. Each `Proofs` module defines the
one that is, TLC checks it on the instance of the run, and the module proves that
the initial states have it, that every action keeps it, and that it implies the
properties.

**`ReconnectingWebSocketProofs`.** `Core` is the type invariant with
`OneRetryArmed` and `PausedHoldsNothing`. The three need each other: that
disarming a timer leaves none needs the count to be right before, and that a
pause holds nothing needs to know that DISCONNECTED and DISPOSED were entered
through `clearCurrentSocket`. Each shared method has a lemma (`ConnectCore`,
`DisconnectCore`, `ScheduleCore`, `ErrorCore`) that the actions cite.
`CoreInvariant`, `RetryLoop` and `DisposedIsForever` are the results.

**`WorkspacePollingProofs`.** `Own` joins the safety properties of the run with
`FetchKnowsSession`: a fetch of the session in use belongs to a signed-in user,
the watchers it will open are not open yet, and a disposed tree shows nothing.
Without the first a list could be shown to a signed-out session, without the
second the map could lose a stream. `FetchKeepsPolls` and `SettleKeepsPolls` are
the two ends of `fetchAndRefresh`; every action is a use of one of them.
`PollingTypes`, `OnlyThisSession`, `NothingMissingForgotten` and `QuietWhenHidden`
follow.

**`DeploymentSessionProofs`.** `Inv` adds what a suspended call still knows
(`CallsKnow`): an update or a settle whose session object was not replaced finds
the window signed in to the host it started from. That is what the identity
comparison in the code establishes, and what lets a continuation set the client
without looking again. The storage keeps a token under its own host
(`StoredByHost`), and the recovery flag is proved as "at most one call recovers,
and the flag says whether one does" before it becomes a count. Results:
`ClientFollowsSession`, `RecoveryFlag`, and the action properties
`LoginAloneSwitches` and `ShownIsPersisted`.

**`OAuthSessionProofs`.** `RefreshLoopAlive` is not inductive: a refresh that is
being stored is about to end with nothing left to do, so it must not be counted
among what keeps the loop alive, while the event its write will raise must.
`ChainIsWhole` says this precisely, and `StoringIsFresh` is the timing assumption
of the model carried along. The proof also found the assumption `MaxReads \in
Nat` too weak: the constructor already starts one read. Results:
`CurrentDeploymentOnly`, `LoopNeverBreaks`, and the action property
`QuietAfterDispose`.

**`BinaryDownloadProofs`.** `LockInv`: only a call that downloads holds the lock,
and without faults the lock file names the window that believes to have it, so
two believers are one. `FileInv`: without faults no file is partial, and wherever
a binary may be used from, or waits for its renames, it was verified or waived.
From both follow `OneDownloads`, the action property `SwapKeepsABinary`, and
`InstallsAsPromised`: every step of every window is a step of `InstalledBinary`
or leaves what it speaks of alone.

**`LoginProofs`.** `QueueOK` says that the queue holds each waiting login once
and that whoever runs with a waiting caller is its head; `OwnOutcome` that a
promise settles with the code of its own flow or an error, and that no flow goes
past its wait otherwise. `LimitInv` says what keeps the limit, or will:
a write that has not read the keys yet, one that deletes all but `MaxCount`, or
`unpruned` excuses it. The access times are an order relation in the model
(`recent`), so that pruning needs no clock. Results: `OwnCodeOnly`, `LoginsQueue`
and `SessionsStayWithinLimit`.

**`RemoteSetupProofs`.** The wait is proved first, over its own variables
(`ReadyInv`): while a workspace is processed there is one, and an agent is
selected only of one that runs and therefore has agents, which is what makes the
cases of `CheckAgent` exhaustive. `SetupInv` puts the set-up around it: outside
the wait nothing is processed and no log stream is open (`WaitInv`), what is not
registered yet belongs to the step under way or to one that failed (`LeftInv`),
from the update on the SSH block is marked where ssh can, and from the check on it
has our command (`BlockInv`). The lemma `MergeKeeps` shows for any two blocks that a merge only
adds to `SetEnv`; it found two overlapping cases in the model of the merge, whose
order was left to the choice of a `CASE`. Results: `NothingLeftBehind`,
`ConnectsAsItShould`.

**`WindowPartsProofs`.** Each part has an invariant of its own (`SshInv`, ...,
`ExInv`), proved over the variables of that part; `PartsAlone` says that a step
of the window is a step of one part and stutters in the others. What the parts
needed beyond the checked properties:

- `AnInv`: a timer is armed for a session only, and without one no fetch is
  current, or its answer would be shown to nobody.
- `ArInv`: a request at a refresh has a server to refresh for.
- `DwInv`: what a slot holds stays true of its sender and of the window it names,
  however late and often it is read.
- `CcInv`: a call that has its store writes where it was resolved to, for the
  settings it started with, whatever the binary becomes (`ResolvedAsWrites`); and
  the three code paths select one store (`PathsAgree`).
- `WmInv`: a flag, a message shown, a fetch under way and one that failed account
  for each other, one by one.
- `TsInv`: a stream held, opening or dropped is accounted for one by one.
- `AsInv`: an attempt in flight that nothing overtook has read what its client
  has now, so that whatever it delivers does too.
- `TlInv`: whatever is in a file was logged before all that is in the batch, and
  that before all that is in the buffer; and what the sink knows of its segment
  (size, header) is what is there, as long as it counted every line.
- `ExInv`: what was written of a session is what was read of it before the event
  that waits, nothing that waits is earlier than what was written unless a clock
  went back, buffered metrics are of the open block, and what is temporary exists
  from the opening to the rename.

`PartsKeepTheirTypes` and one theorem per property of the run are the results.
The merge of the export picks a least session and a least cursor by `CHOOSE`;
that they exist is the well-foundedness of the naturals. The properties of the
export count what was written instead of selecting it, because a selection from a
sequence is defined by recursion and nothing can be proved of it here.

**Only model-checked.** The liveness properties (`LossIsResolved`,
`EventuallyShown`, `FetchEnds`, `ReadyIsNoticed`, `EveryLoginSettles`,
`FollowsProcess`, `NewsIsSurfaced`, `EverythingSettles`): fairness and `ENABLED`
are beyond the prover. Their safety halves (a timer is armed, somebody will
look, the next fetch is on its way) are among the theorems. What the runs expect
to be violated stays with TLC by nature.

## Not modelled

- **Deployments without a token** (mTLS): a branch of sign-in, login and set-up
  that skips the token; certificates appear only in the refresh of
  `ReconnectingWebSocket` and `ApiRequests`.
- **Commands and activation** (`commands.ts`, `extension.ts`): login, logout, the
  removal of credentials and activation are actions of `DeploymentSession` and
  `Login`, opening a workspace and answering another window of
  `DuplicateWorkspace`. The rest are dialogs that forward to the parts above and
  keep no state but the startup mode, which `RemoteSetup` takes from any of them.
- **Revocation** of OAuth tokens, sent without waiting, and the storage migration
  of `secretsManager.ts:264` beyond the step of `RemoteSetup`.
- **The inbox** (`inbox.ts`) shows what its socket delivers; **network status**
  (`networkStatus.ts`), **logging** and the telemetry of each part observe.
- **Certificate errors** are a classification; **support bundle** copies files;
  the **webview pages** render; the **list of tasks** and the creation of a task
  are one request each.
- **Two windows that refresh one rotating token** (`sessionManager.ts:402`): the
  product of two `OAuthSession`s is beyond a run of minutes; `SingleFlight` shows
  the same loss inside one window.

## Plan

1. A composition of `ApiStreams` with `ReconnectingWebSocket` in place of the
   reduced sockets, with the lemmas of `ReconnectingWebSocketProofs` cited per
   socket.
2. Two windows over one token that rotates, as a module of two `OAuthSession`s
   with one refresh each, small enough to check.
3. Variants for the liveness properties: a measure that each fair step lowers
   and no other step raises is an action property, which can be proved.
