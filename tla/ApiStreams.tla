----------------------------- MODULE ApiStreams -----------------------------
(* The registry of reconnecting sockets of a CoderApi client (api/coderApi.ts) *)
(* and the debounced watcher of connection settings (configWatcher.ts). Each   *)
(* socket is the ReconnectingWebSocket of the module of that name, here with   *)
(* the credentials that its attempts to connect and its transport have read.   *)
EXTENDS Naturals

CONSTANTS Streams,         \* slots for streams
          Creds, NoCred    \* a host with a token; the client has no host

ASSUME CredsAssumption == NoCred \notin Creds

VARIABLES asCred,      \* the client's credentials
          asStreams,   \* each stream
          asPending,   \* idleTimer of the settings watcher is armed
          asDisposed

asVars == <<asCred, asStreams, asPending, asDisposed>>

\* A call of the socket factory, and the transport it delivers: what it read,
\* whether the credentials changed in flight, whether it fell back to events.
Attempts == [cred: Creds \union {NoCred}, overtaken: BOOLEAN, sse: BOOLEAN]
Attempt(c) == [cred |-> c, overtaken |-> FALSE, sse |-> FALSE]
NoTransport == Attempt(NoCred)   \* without a host the factory throws

\* attempts: those in flight; what read the same is one attempt here.
NoStream == [at |-> "none", transport |-> NoTransport, attempts |-> {}, registered |-> FALSE]

ApiStreamsTypeOK ==
  /\ asCred \in Creds \union {NoCred}
  /\ asStreams \in [Streams -> [at: {"none", "creating", "connecting", "open", "retrying", "paused"},
                                transport: Attempts, attempts: SUBSET Attempts,
                                registered: BOOLEAN]]
  /\ asPending \in BOOLEAN /\ asDisposed \in BOOLEAN

AsInit ==
  /\ asCred = NoCred /\ asStreams = [s \in Streams |-> NoStream]
  /\ asPending = FALSE /\ asDisposed = FALSE

-----------------------------------------------------------------------------
(* A socket of the registry.                                                   *)

\* connect(): attempts in flight go on; replacing an event stream pauses the
\* socket, see Connect of ReconnectingWebSocket
ConnectStream(x, c) ==
  [x EXCEPT !.at = IF x.transport.sse THEN "paused" ELSE "connecting",
            !.transport = NoTransport, !.attempts = @ \union {Attempt(c)}]

PauseStream(x) == [x EXCEPT !.at = "paused", !.transport = NoTransport]

\* what follows an error or a loss: nothing, a retry, a pause, or at once a
\* connection with the new certificate
Failing(x, c) ==
  {ConnectStream(x, c)} \union
  (IF x.at = "paused" THEN {x} ELSE {PauseStream(x), [x EXCEPT !.at = "retrying"]})

\* connect() after its await, in whichever order the attempts end: what one
\* delivers is closed if the socket connects no more
Deliver(x, a) == IF x.at = "connecting" THEN [x EXCEPT !.transport = a] ELSE x

Without(x, a) == [x EXCEPT !.attempts = @ \ {a}]

\* what becomes of a socket when an attempt of it ends
Ended(x, a, c) ==
  Failing(x, c) \union (IF a.cred # NoCred THEN {Deliver(x, a)} ELSE {})

\* Mutant: a socket that connects already is not told.
FollowsLater(x, c) ==
  IF x.at = "connecting" THEN x ELSE IF c = NoCred THEN PauseStream(x) ELSE ConnectStream(x, c)

Follow(x, c) == IF c = NoCred THEN PauseStream(x) ELSE ConnectStream(x, c)

Overtake(x) == [x EXCEPT !.attempts = {[a EXCEPT !.overtaken = TRUE] : a \in @}]

-----------------------------------------------------------------------------
\* watchWorkspace, watchAgentMetadata, watchInboxNotifications: the factory
\* reads the credentials; without a host it throws
Watch(s) ==
  /\ asStreams[s] = NoStream /\ asCred # NoCred
  /\ asStreams' = [asStreams EXCEPT ![s] = [NoStream EXCEPT !.at = "creating",
                                                            !.attempts = {Attempt(asCred)}]]
  /\ UNCHANGED <<asCred, asPending, asDisposed>>

\* createReconnectingSocket: registered only when the first attempt has ended,
\* whatever happened meanwhile
Created(s) ==
  /\ asStreams[s].at = "creating"
  /\ \E a \in asStreams[s].attempts :
       LET x == [asStreams[s] EXCEPT !.at = "connecting", !.registered = TRUE, !.attempts = {}]
       IN \E y \in Ended(x, a, asCred) : asStreams' = [asStreams EXCEPT ![s] = y]
  /\ UNCHANGED <<asCred, asPending, asDisposed>>

\* a later attempt ends; one that read the same may still be in flight
AttemptEnds(s) ==
  /\ asStreams[s].registered
  /\ \E a \in asStreams[s].attempts :
       \E x \in {asStreams[s], Without(asStreams[s], a)} :
         \E y \in Ended(x, a, asCred) : asStreams' = [asStreams EXCEPT ![s] = y]
  /\ UNCHANGED <<asCred, asPending, asDisposed>>

\* createStreamWithSseFallback: the event stream reads the credentials again
FallsBack(s) ==
  /\ \E a \in asStreams[s].attempts :
       /\ ~a.sse /\ a.cred # NoCred
       /\ asStreams' = [asStreams EXCEPT ![s].attempts =
                          (@ \ {a}) \union {[Attempt(asCred) EXCEPT !.sse = TRUE]}]
  /\ UNCHANGED <<asCred, asPending, asDisposed>>

\* the transport reports that it is open, fails or is lost; a retry is due
StreamMoves(s) ==
  /\ asStreams[s].registered
  /\ \/ /\ asStreams[s].transport # NoTransport
        /\ \/ /\ asStreams[s].at = "connecting"
              /\ asStreams' = [asStreams EXCEPT ![s].at = "open"]
           \/ \E y \in Failing(asStreams[s], asCred) : asStreams' = [asStreams EXCEPT ![s] = y]
     \/ /\ asStreams[s].at = "retrying"
        /\ asStreams' = [asStreams EXCEPT ![s] = ConnectStream(@, asCred)]
  /\ UNCHANGED <<asCred, asPending, asDisposed>>

CloseStream(s) ==
  /\ asStreams[s].registered
  /\ asStreams' = [asStreams EXCEPT ![s] = NoStream]
  /\ UNCHANGED <<asCred, asPending, asDisposed>>

\* setCredentials: registered sockets connect again, or pause without a host;
\* no attempt in flight is cancelled
SetStreamCredentials(c) ==
  /\ c # asCred /\ asCred' = c
  /\ asStreams' = [s \in Streams |->
       IF asStreams[s].registered THEN Follow(Overtake(asStreams[s]), c)
       ELSE Overtake(asStreams[s])]
  /\ UNCHANGED <<asPending, asDisposed>>

\* watchConfigurationChanges: every event arms the idle timer anew
SettingsChange ==
  /\ ~asDisposed /\ asPending' = TRUE
  /\ UNCHANGED <<asCred, asStreams, asDisposed>>

\* detectAndFire, then watchConfigChanges: only paused sockets reconnect, also
\* when the client has no host
SettingsSettle ==
  /\ asPending /\ asPending' = FALSE
  /\ \/ asStreams' = [s \in Streams |->
          IF asStreams[s].at = "paused" THEN ConnectStream(asStreams[s], asCred) ELSE asStreams[s]]
     \/ UNCHANGED asStreams   \* the values are those applied before
  /\ UNCHANGED <<asCred, asDisposed>>

\* dispose: the registered sockets are closed, the watcher ends
AsDispose ==
  /\ ~asDisposed /\ asDisposed' = TRUE /\ asPending' = FALSE
  /\ asStreams' = [s \in Streams |-> IF asStreams[s].registered THEN NoStream ELSE asStreams[s]]
  /\ UNCHANGED asCred

AsNext ==
  \/ \E s \in Streams : \/ Watch(s) \/ Created(s) \/ AttemptEnds(s) \/ FallsBack(s)
                        \/ StreamMoves(s) \/ CloseStream(s)
  \/ \E c \in Creds \union {NoCred} : SetStreamCredentials(c)
  \/ SettingsChange \/ SettingsSettle \/ AsDispose

-----------------------------------------------------------------------------
(* A transport of the registry has credentials other than the client's only    *)
(* if they changed while its factory was in flight: the socket was being       *)
(* created, and registered too late to be told, or it was told and an older    *)
(* attempt delivered after all. Every other one follows logins, rotations and  *)
(* logouts through its retries, pauses, fallbacks and changes of settings.     *)
StreamsFollowClient ==
  \A s \in Streams :
    asStreams[s].transport # NoTransport /\ ~asStreams[s].transport.overtaken
      => asStreams[s].transport.cred = asCred
=============================================================================
