----------------------- MODULE ReconnectingWebSocket -----------------------
(***************************************************************************)
(* One ReconnectingWebSocket of src/websocket/reconnectingWebSocket.ts     *)
(* with the transports its factory opens (api/coderApi.ts waitForOpen,     *)
(* websocket/oneWayWebSocket.ts, websocket/sseConnection.ts).              *)
(*                                                                         *)
(* The methods of the class run to completion on the JavaScript event      *)
(* loop; they interleave only at its awaits: the socket factory and the    *)
(* certificate refresh.  An action is one such uninterrupted run.          *)
(***************************************************************************)
EXTENDS Naturals

CONSTANTS
  Sockets,              \* transports alive at once (a bound of the model)
  None,                 \* null
  Kinds,                \* what the factory may deliver: "ws", "sse"
  Deliveries,           \* how a factory hands a transport over: "opening" or
                        \* "open"; waitForOpen in CoderApi only ever "open"
  InitialBackoff, MaxBackoff,
  MaxRefreshes          \* certificate refreshes awaited at once (a bound)

ASSUME KindsAssumption == Kinds \subseteq {"ws", "sse"}
ASSUME NoneAssumption == None \notin Sockets
ASSUME DeliveriesAssumption == Deliveries \subseteq {"opening", "open"}
ASSUME BackoffAssumption ==
  /\ InitialBackoff \in Nat \ {0}
  /\ MaxBackoff \in Nat
  /\ InitialBackoff <= MaxBackoff
ASSUME RefreshAssumption == MaxRefreshes \in Nat

VARIABLES
  state,                \* #state
  currentSocket,        \* #currentSocket
  sock,                 \* the life of each transport, see SocketLife
  kind,                 \* the class of each delivered transport
  reconnectTimeoutId,   \* #reconnectTimeoutId: "null" or "armed"
  timers,               \* the setTimeout callbacks armed in the runtime
  backoffMs,            \* #backoffMs
  certRefreshAttempted, \* #certRefreshAttempted
  refreshing,           \* calls of onCertificateRefreshNeeded being awaited
  created,              \* create() has returned the instance to its caller
  pause                 \* history, read by properties only: what the pause
                        \* that lasts now came from, see Pauses

timerVars == <<reconnectTimeoutId, timers>>
vars == <<state, currentSocket, sock, kind, reconnectTimeoutId, timers,
          backoffMs, certRefreshAttempted, refreshing, created, pause>>

ConnectionState == {"IDLE", "CONNECTING", "CONNECTED", "AWAITING_RETRY",
                    "DISCONNECTED", "DISPOSED"}

\* free: no transport.  connecting: its factory is in flight.  opening:
\* delivered, "open" still to come.  open: usable.  failing: an "error" was
\* emitted.  dead: closed by the other end while the class still holds it.
SocketLife == {"free", "connecting", "opening", "open", "failing", "dead"}

\* decided: disconnectWithReason() for a call of the owner, a close of the other
\* end that is final or an error that is.  ownClose: the same method, for the
\* closure connect() causes itself.
Pauses == {"none", "decided", "ownClose"}

\* What isUnrecoverableHttpError and ClientCertificateError make of an error.
Errors == {"unrecoverableHttp", "certRefreshable", "certFatal", "other"}

\* UNRECOVERABLE_WS_CLOSE_CODES, NORMAL_CLOSURE_CODES and every other code.
CloseCodes == {"unrecoverable", "normal", "abnormal"}

-----------------------------------------------------------------------------
(* The reducer: from which states an action moves the machine. *)

DisposedCanDisconnect(action) ==
  CASE action = "CONNECT"        -> state # "DISPOSED"
    [] action = "OPEN"           -> state = "CONNECTING"
    [] action = "SCHEDULE_RETRY" -> state \in {"CONNECTING", "CONNECTED"}
    [] action = "DISCONNECT"     -> state # "DISCONNECTED"
    [] action = "DISPOSE"        -> state # "DISPOSED"

CanDispatch(action) ==
  CASE action = "CONNECT"        -> state # "DISPOSED"
    [] action = "OPEN"           -> state = "CONNECTING"
    [] action = "SCHEDULE_RETRY" -> state \in {"CONNECTING", "CONNECTED"}
    [] action = "DISCONNECT"     -> state \notin {"DISCONNECTED", "DISPOSED"}
    [] action = "DISPOSE"        -> state # "DISPOSED"

Init ==
  /\ state = "IDLE"
  /\ currentSocket = None
  /\ sock = [s \in Sockets |-> "free"]
  /\ kind = [s \in Sockets |-> "ws"]
  /\ reconnectTimeoutId = "null"
  /\ timers = 0
  /\ backoffMs = InitialBackoff
  /\ certRefreshAttempted = FALSE
  /\ refreshing = 0
  /\ created = FALSE
  /\ pause = "none"

-----------------------------------------------------------------------------
(* Steps shared by the handlers.  "base" is the sockets as the event that is *)
(* being handled left them.                                                  *)

Doubled(ms) == IF 2 * ms <= MaxBackoff THEN 2 * ms ELSE MaxBackoff

Release(base, s) == [t \in Sockets |-> IF t = s THEN "free" ELSE base[t]]

ClearTimer ==
  /\ timers' = IF reconnectTimeoutId = "armed" THEN timers - 1 ELSE timers
  /\ reconnectTimeoutId' = "null"

ClearCurrentSocket(base) ==
  /\ ClearTimer
  /\ sock' = Release(base, currentSocket)
  /\ currentSocket' = None

\* An SseConnection runs its close callbacks inside close(), while
\* #currentSocket still refers to it: connect() then reads its own close as a
\* normal closure and pauses, and the factory it starts next is cancelled.
Connect(n) ==
  /\ CanDispatch("CONNECT")
  /\ sock[n] = "free" \/ n = currentSocket
  /\ sock' = [Release(sock, currentSocket) EXCEPT ![n] = "connecting"]
  /\ currentSocket' = None
  /\ state' = IF currentSocket # None /\ kind[currentSocket] = "sse"
                THEN "DISCONNECTED" ELSE "CONNECTING"
  /\ pause' = IF currentSocket # None /\ kind[currentSocket] = "sse"
                THEN "ownClose" ELSE "none"

ReconnectInternal(n) ==
  /\ state # "DISPOSED"
  /\ backoffMs' = IF state = "DISCONNECTED" THEN InitialBackoff ELSE backoffMs
  /\ certRefreshAttempted' = (certRefreshAttempted /\ state # "DISCONNECTED")
  /\ ClearTimer
  /\ Connect(n)

DisconnectWithReason(base) ==
  IF CanDispatch("DISCONNECT")
    THEN state' = "DISCONNECTED" /\ pause' = "decided" /\ ClearCurrentSocket(base)
    ELSE sock' = base /\ UNCHANGED <<state, pause, currentSocket, timerVars>>

\* Mutant: at the cap the state moves on but no timeout is armed.
GivesUpAtTheCap(base) ==
  /\ sock' = base
  /\ UNCHANGED <<currentSocket, pause>>
  /\ IF CanDispatch("SCHEDULE_RETRY")
       THEN /\ state' = "AWAITING_RETRY"
            /\ reconnectTimeoutId' = IF backoffMs < MaxBackoff THEN "armed" ELSE "null"
            /\ timers' = IF backoffMs < MaxBackoff THEN timers + 1 ELSE timers
            /\ backoffMs' = Doubled(backoffMs)
       ELSE UNCHANGED <<state, timerVars, backoffMs>>

ScheduleReconnect(base) ==
  /\ sock' = base
  /\ UNCHANGED <<currentSocket, pause>>
  /\ IF CanDispatch("SCHEDULE_RETRY")
       THEN /\ state' = "AWAITING_RETRY"
            /\ reconnectTimeoutId' = "armed"
            /\ timers' = timers + 1
            /\ backoffMs' = Doubled(backoffMs)
       ELSE UNCHANGED <<state, timerVars, backoffMs>>

StartsRefresh(e) ==
  /\ state \notin {"DISPOSED", "DISCONNECTED"}
  /\ e = "certRefreshable"
  /\ ~certRefreshAttempted

HandleConnectionError(e, base) ==
  \/ /\ state \in {"DISPOSED", "DISCONNECTED"}
     /\ sock' = base
     /\ UNCHANGED <<state, pause, currentSocket, timerVars, backoffMs,
                    certRefreshAttempted, refreshing>>
  \/ /\ StartsRefresh(e)
     /\ refreshing < MaxRefreshes
     /\ certRefreshAttempted' = TRUE
     /\ refreshing' = refreshing + 1
     /\ sock' = base
     /\ UNCHANGED <<state, pause, currentSocket, timerVars, backoffMs>>
  \/ /\ state \notin {"DISPOSED", "DISCONNECTED"}
     /\ e # "other" /\ ~StartsRefresh(e)
     /\ DisconnectWithReason(base)
     /\ UNCHANGED <<backoffMs, certRefreshAttempted, refreshing>>
  \/ /\ state \notin {"DISPOSED", "DISCONNECTED"}
     /\ e = "other"
     /\ ScheduleReconnect(base)
     /\ UNCHANGED <<certRefreshAttempted, refreshing>>

-----------------------------------------------------------------------------
(* Calls of the owner.  create() hands the instance over only once its       *)
(* initial connect() has settled.                                            *)

Create ==
  /\ state = "IDLE"
  /\ \E n \in Sockets : Connect(n)
  /\ UNCHANGED <<kind, timerVars, backoffMs, certRefreshAttempted, refreshing,
                 created>>

Reconnect ==
  /\ created
  /\ \E n \in Sockets : ReconnectInternal(n)
  /\ UNCHANGED <<kind, refreshing, created>>

Disconnect ==
  /\ created
  /\ CanDispatch("DISCONNECT")
  /\ DisconnectWithReason(sock)
  /\ UNCHANGED <<kind, backoffMs, certRefreshAttempted, refreshing, created>>

Close ==
  /\ created
  /\ CanDispatch("DISPOSE")
  /\ state' = "DISPOSED"
  /\ pause' = "none"
  /\ ClearCurrentSocket(sock)
  /\ UNCHANGED <<kind, backoffMs, certRefreshAttempted, refreshing, created>>

-----------------------------------------------------------------------------
(* Continuations of the class: the factory, the retry timer, the refresh. *)

\* Mutant: the state is not looked at again after the await.
AdoptedWhateverTheState(s, k, d) ==
  /\ sock[s] = "connecting"
  /\ created' = TRUE
  /\ UNCHANGED <<state, pause, timerVars, backoffMs, certRefreshAttempted,
                 refreshing>>
  /\ currentSocket' = s
  /\ sock' = [sock EXCEPT ![s] = d]
  /\ kind' = [kind EXCEPT ![s] = k]

\* A second factory that resolves while CONNECTING replaces #currentSocket
\* without closing what it held.
FactoryResolves(s, k, d) ==
  /\ sock[s] = "connecting"
  /\ created' = TRUE
  /\ UNCHANGED <<state, pause, timerVars, backoffMs, certRefreshAttempted,
                 refreshing>>
  /\ IF state # "CONNECTING"
       THEN sock' = Release(sock, s) /\ UNCHANGED <<currentSocket, kind>>
       ELSE /\ currentSocket' = s
            /\ sock' = [sock EXCEPT ![s] = d]
            /\ kind' = [kind EXCEPT ![s] = k]

FactoryRejects(s, e) ==
  /\ sock[s] = "connecting"
  /\ HandleConnectionError(e, Release(sock, s))
  /\ created' = (created \/ ~StartsRefresh(e))
  /\ UNCHANGED kind

TimerFires ==
  /\ timers > 0
  /\ timers' = timers - 1
  /\ reconnectTimeoutId' = "null"
  /\ \E n \in Sockets : Connect(n)
  /\ UNCHANGED <<kind, backoffMs, certRefreshAttempted, refreshing, created>>

RefreshSucceeds ==
  /\ refreshing > 0
  /\ refreshing' = refreshing - 1
  /\ created' = TRUE
  /\ UNCHANGED kind
  /\ \/ \E n \in Sockets : ReconnectInternal(n)
     \/ /\ state = "DISPOSED"
        /\ UNCHANGED <<state, pause, currentSocket, sock, timerVars, backoffMs,
                       certRefreshAttempted>>

\* Mutant: a failed refresh is only reported.
RefreshFailsQuietly ==
  /\ refreshing > 0
  /\ refreshing' = refreshing - 1
  /\ created' = TRUE
  /\ UNCHANGED <<state, pause, currentSocket, sock, kind, timerVars, backoffMs,
                 certRefreshAttempted>>

RefreshFails ==
  /\ refreshing > 0
  /\ refreshing' = refreshing - 1
  /\ created' = TRUE
  /\ DisconnectWithReason(sock)
  /\ UNCHANGED <<kind, backoffMs, certRefreshAttempted>>

-----------------------------------------------------------------------------
(* Events of the transports.  Listeners of a socket that is not current do   *)
(* nothing; only the life of the transport changes.                          *)

\* A WebSocket emits "open" once; an SSE stream again after each retry of its
\* own.  waitForOpen consumes the first one of what it delivers "open".
OpenEvent(s) ==
  /\ \/ sock[s] = "opening"
     \/ sock[s] = "failing" /\ kind[s] = "sse"
  /\ sock' = [sock EXCEPT ![s] = "open"]
  /\ IF s = currentSocket /\ CanDispatch("OPEN")
       THEN /\ state' = "CONNECTED"
            /\ backoffMs' = InitialBackoff
            /\ certRefreshAttempted' = FALSE
       ELSE UNCHANGED <<state, backoffMs, certRefreshAttempted>>
  /\ UNCHANGED <<pause, currentSocket, kind, timerVars, refreshing, created>>

\* An error the transport outlives for now: a WebSocket closes soon after, an
\* SSE stream retries by itself.
ErrorEvent(s, e) ==
  /\ \/ sock[s] \in {"opening", "open"}
     \/ sock[s] = "failing" /\ kind[s] = "sse"
  /\ LET base == [sock EXCEPT ![s] = "failing"]
     IN IF s = currentSocket
          THEN HandleConnectionError(e, base)
          ELSE /\ sock' = base
               /\ UNCHANGED <<state, pause, currentSocket, timerVars, backoffMs,
                              certRefreshAttempted, refreshing>>
  /\ UNCHANGED <<kind, created>>

\* handleSocketClose.  An SSE stream only ever reports an abnormal closure,
\* right after the error that ended it.
CloseEvent(s, code) ==
  /\ \/ sock[s] \in {"opening", "open", "failing"} /\ kind[s] = "ws"
     \/ sock[s] = "failing" /\ kind[s] = "sse" /\ code = "abnormal"
  /\ IF s # currentSocket
       THEN /\ sock' = Release(sock, s)
            /\ UNCHANGED <<state, pause, currentSocket, timerVars, backoffMs>>
       ELSE \/ /\ code \in {"unrecoverable", "normal"}
               /\ DisconnectWithReason([sock EXCEPT ![s] = "dead"])
               /\ UNCHANGED backoffMs
            \/ /\ code = "abnormal"
               /\ ScheduleReconnect([sock EXCEPT ![s] = "dead"])
  /\ UNCHANGED <<kind, certRefreshAttempted, refreshing, created>>

Owner == Reconnect \/ Disconnect \/ Close

FactorySettles(s) ==
  \/ \E k \in Kinds, d \in Deliveries : FactoryResolves(s, k, d)
  \/ \E e \in Errors : FactoryRejects(s, e)

Continuations ==
  \/ \E s \in Sockets : FactorySettles(s)
  \/ TimerFires
  \/ RefreshSucceeds
  \/ RefreshFails

Transport ==
  \E s \in Sockets :
    \/ OpenEvent(s)
    \/ \E e \in Errors : ErrorEvent(s, e)
    \/ \E c \in CloseCodes : CloseEvent(s, c)

Next == Create \/ Owner \/ Continuations \/ Transport

Spec == Init /\ [][Next]_vars

\* setTimeout callbacks run, handshakes and the refresh command settle, and a
\* server that is asked again and again answers some attempt.
Fairness ==
  /\ WF_vars(TimerFires)
  /\ WF_vars(RefreshSucceeds \/ RefreshFails)
  /\ \A s \in Sockets : WF_vars(FactorySettles(s))
  /\ SF_vars(/\ state = "CONNECTING"
             /\ \E s \in Sockets, k \in Kinds, d \in Deliveries :
                  FactoryResolves(s, k, d))

FairSpec == Spec /\ Fairness

-----------------------------------------------------------------------------
TypeOK ==
  /\ state \in ConnectionState
  /\ currentSocket \in Sockets \cup {None}
  /\ sock \in [Sockets -> SocketLife]
  /\ kind \in [Sockets -> {"ws", "sse"}]
  /\ reconnectTimeoutId \in {"null", "armed"}
  /\ timers \in Nat
  /\ backoffMs \in InitialBackoff..MaxBackoff
  /\ certRefreshAttempted \in BOOLEAN
  /\ refreshing \in 0..MaxRefreshes
  /\ created \in BOOLEAN
  /\ pause \in Pauses

\* Exactly one retry is armed while the machine waits for it and none
\* otherwise, whatever manual reconnects, errors and refreshes overlapped: no
\* timeout is leaked by overwriting #reconnectTimeoutId or left to fire late.
OneRetryArmed ==
  /\ timers = IF state = "AWAITING_RETRY" THEN 1 ELSE 0
  /\ reconnectTimeoutId = IF state = "AWAITING_RETRY" THEN "armed" ELSE "null"

\* A paused or disposed instance holds no transport.
PausedHoldsNothing ==
  state \in {"IDLE", "DISCONNECTED", "DISPOSED"} => currentSocket = None

\* In each of its states the machine owns the retry and the transport that the
\* state promises, and no other.
StateOwnsItsResources == TypeOK /\ OneRetryArmed /\ PausedHoldsNothing

\* CONNECTING never gets stuck: a transport is held, a factory is in flight or
\* a certificate refresh will decide.  The error paths of overlapping connects
\* must leave the state or start over.
ConnectingMakesProgress ==
  state = "CONNECTING" =>
    \/ currentSocket # None
    \/ \E s \in Sockets : sock[s] = "connecting"
    \/ refreshing > 0

\* A transport the other end has closed is held only while its retry is armed.
LostTransportIsRetried ==
  currentSocket # None /\ sock[currentSocket] = "dead"
    => state = "AWAITING_RETRY" /\ reconnectTimeoutId = "armed"

\* No state that is left by a retry, an attempt or a refresh waits for nothing.
RetryLoopAlive == ConnectingMakesProgress /\ LostTransportIsRetried

\* Once disposed, whatever is still in flight cannot bring the instance back.
DisposedForever ==
  [][state = "DISPOSED" => state' = "DISPOSED" /\ currentSocket' = None
                           /\ (timers' <= timers)]_vars

\* An SSE stream is held: the next connect() will pause the instance with the
\* closure it causes itself.
HoldsSse == currentSocket # None /\ kind[currentSocket] = "sse"

\* A transport is in use, or a decision ended the attempts.
Resolved ==
  \/ state = "DISPOSED"
  \/ state = "DISCONNECTED" /\ pause = "decided"
  \/ /\ state \in {"CONNECTING", "CONNECTED"}
     /\ currentSocket # None
     /\ sock[currentSocket] \in {"opening", "open"}

\* The loss of a WebSocket, and a failed handshake of either class, end in a
\* usable transport or in a stop that somebody decided: the retry loop never
\* dies half-way.  (A lost SSE stream is excepted: its own retry pauses it.)
LossIsResolved == state = "AWAITING_RETRY" /\ ~HoldsSse ~> Resolved
=============================================================================
