-------------------- MODULE ReconnectingWebSocketProofs --------------------
(***************************************************************************)
(* The invariants of ReconnectingWebSocket, for any number of transports,  *)
(* any backoff and any number of awaited refreshes.                        *)
(***************************************************************************)
EXTENDS ReconnectingWebSocket, TLAPS

Assumptions == /\ Kinds \subseteq {"ws", "sse"}
               /\ None \notin Sockets
               /\ Deliveries \subseteq {"opening", "open"}
               /\ InitialBackoff \in Nat \ {0}
               /\ MaxBackoff \in Nat
               /\ InitialBackoff <= MaxBackoff
               /\ MaxRefreshes \in Nat

\* What the assumptions on the constants give every proof.
LEMMA Constants == Assumptions
  BY KindsAssumption, NoneAssumption, DeliveriesAssumption, BackoffAssumption,
     RefreshAssumption DEF Assumptions

-----------------------------------------------------------------------------
(* The steps the handlers share. *)

\* Closing a transport leaves every other one as it was.
LEMMA ReleaseType ==
  ASSUME NEW base \in [Sockets -> SocketLife], NEW s
  PROVE  /\ Release(base, s) \in [Sockets -> SocketLife]
         /\ \A t \in Sockets : Release(base, s)[t] =
                                 IF t = s THEN "free" ELSE base[t]
  BY DEF Release, SocketLife

\* The doubled backoff stays between its bounds.
LEMMA DoubledBounds ==
  ASSUME NEW ms \in InitialBackoff..MaxBackoff
  PROVE  Doubled(ms) \in InitialBackoff..MaxBackoff
  BY Constants DEF Assumptions, Doubled

\* The timer is disarmed by whatever calls clearTimeout: what OneRetryArmed
\* says of it before the call makes the count right after it.
LEMMA ClearTimerDisarms ==
  ASSUME TypeOK, OneRetryArmed, ClearTimer
  PROVE  timers' = 0 /\ reconnectTimeoutId' = "null"
  BY DEF TypeOK, OneRetryArmed, ClearTimer

-----------------------------------------------------------------------------
(* The core invariant: types together with the timer, because the count of  *)
(* armed timeouts is a natural number only while clearTimeout hits the one  *)
(* that is armed; and no transport is held while paused, because the        *)
(* handlers of a held transport would otherwise arm a retry there.          *)

Core == TypeOK /\ OneRetryArmed /\ PausedHoldsNothing

\* What connect() leaves behind, for whoever has disarmed the timer.
LEMMA ConnectCore ==
  ASSUME Core, NEW n \in Sockets, Connect(n)
  PROVE  /\ state' \in {"CONNECTING", "DISCONNECTED"} /\ pause' \in Pauses
         /\ currentSocket' = None
         /\ sock' \in [Sockets -> SocketLife]
         /\ sock'[n] = "connecting"
  <1>1. Release(sock, currentSocket) \in [Sockets -> SocketLife]
    BY ReleaseType DEF Core, TypeOK
  <1> QED
    BY <1>1 DEF Connect, SocketLife, Pauses

\* #reconnectInternal() keeps what the invariant says of the timer and the transport.
LEMMA ReconnectInternalCore ==
  ASSUME Core, NEW n \in Sockets, ReconnectInternal(n)
  PROVE  /\ state' \in {"CONNECTING", "DISCONNECTED"} /\ pause' \in Pauses
         /\ currentSocket' = None
         /\ sock' \in [Sockets -> SocketLife]
         /\ sock'[n] = "connecting"
         /\ timers' = 0 /\ reconnectTimeoutId' = "null"
         /\ backoffMs' \in InitialBackoff..MaxBackoff
         /\ certRefreshAttempted' \in BOOLEAN
  <1>1. InitialBackoff \in InitialBackoff..MaxBackoff
    BY Constants DEF Assumptions
  <1>2. Connect(n) /\ ClearTimer
    BY DEF ReconnectInternal
  <1> QED
    BY <1>1, <1>2, ConnectCore, ClearTimerDisarms DEF ReconnectInternal, Core, TypeOK

\* The parts of the state that DisconnectWithReason and ScheduleReconnect set.
Held == /\ state \in ConnectionState
        /\ pause \in Pauses
        /\ currentSocket \in Sockets \cup {None}
        /\ sock \in [Sockets -> SocketLife]
        /\ reconnectTimeoutId \in {"null", "armed"}
        /\ timers \in Nat
        /\ OneRetryArmed
        /\ PausedHoldsNothing

\* So does disconnectWithReason(), whether or not the reducer refuses it.
LEMMA DisconnectCore ==
  ASSUME Core, NEW base \in [Sockets -> SocketLife], DisconnectWithReason(base)
  PROVE  Held'
  <1>1. CASE CanDispatch("DISCONNECT")
    <2>1. /\ state' = "DISCONNECTED" /\ currentSocket' = None
          /\ pause' = "decided"
          /\ sock' = Release(base, currentSocket) /\ ClearTimer
      BY <1>1 DEF DisconnectWithReason, ClearCurrentSocket
    <2>2. timers' = 0 /\ reconnectTimeoutId' = "null"
      BY <2>1, ClearTimerDisarms DEF Core
    <2> QED
      BY <2>1, <2>2, ReleaseType
      DEF Held, OneRetryArmed, PausedHoldsNothing, ConnectionState, Pauses
  <1>2. CASE ~CanDispatch("DISCONNECT")
    BY <1>2 DEF DisconnectWithReason, Core, TypeOK, Held, OneRetryArmed,
                PausedHoldsNothing, timerVars
  <1> QED
    BY <1>1, <1>2

\* So does scheduleReconnect(), which also keeps the backoff in its range.
LEMMA ScheduleCore ==
  ASSUME Core, NEW base \in [Sockets -> SocketLife], ScheduleReconnect(base)
  PROVE  Held' /\ backoffMs' \in InitialBackoff..MaxBackoff
  <1>1. CASE CanDispatch("SCHEDULE_RETRY")
    <2>1. state \in {"CONNECTING", "CONNECTED"}
      BY <1>1 DEF CanDispatch
    <2> QED
      BY <1>1, <2>1, DoubledBounds
      DEF ScheduleReconnect, Core, TypeOK, Held, OneRetryArmed,
          PausedHoldsNothing, ConnectionState
  <1>2. CASE ~CanDispatch("SCHEDULE_RETRY")
    BY <1>2 DEF ScheduleReconnect, Core, TypeOK, Held, OneRetryArmed,
                PausedHoldsNothing, timerVars
  <1> QED
    BY <1>1, <1>2

\* So does each branch of handleConnectionError().
LEMMA ErrorCore ==
  ASSUME Core, NEW e \in Errors, NEW base \in [Sockets -> SocketLife],
         HandleConnectionError(e, base)
  PROVE  /\ Held'
         /\ backoffMs' \in InitialBackoff..MaxBackoff
         /\ certRefreshAttempted' \in BOOLEAN
         /\ refreshing' \in 0..MaxRefreshes
  <1>1. CASE /\ sock' = base
             /\ UNCHANGED <<state, pause, currentSocket, timerVars, backoffMs>>
             /\ \/ UNCHANGED <<certRefreshAttempted, refreshing>>
                \/ /\ refreshing < MaxRefreshes
                   /\ certRefreshAttempted' = TRUE
                   /\ refreshing' = refreshing + 1
    <2>1. certRefreshAttempted' \in BOOLEAN
      BY <1>1 DEF Core, TypeOK
    <2>2. refreshing' \in 0..MaxRefreshes
      BY <1>1, Constants DEF Core, TypeOK, Assumptions
    <2>3. Held'
      BY <1>1 DEF Core, TypeOK, Held, OneRetryArmed, PausedHoldsNothing, timerVars
    <2>4. backoffMs' \in InitialBackoff..MaxBackoff
      BY <1>1 DEF Core, TypeOK
    <2> QED
      BY <2>1, <2>2, <2>3, <2>4
  <1>2. CASE /\ DisconnectWithReason(base)
             /\ UNCHANGED <<backoffMs, certRefreshAttempted, refreshing>>
    BY <1>2, DisconnectCore DEF Core, TypeOK
  <1>3. CASE /\ ScheduleReconnect(base)
             /\ UNCHANGED <<certRefreshAttempted, refreshing>>
    BY <1>3, ScheduleCore DEF Core, TypeOK
  <1> QED
    BY <1>1, <1>2, <1>3 DEF HandleConnectionError, timerVars

-----------------------------------------------------------------------------
\* A new instance satisfies the invariant.
THEOREM InitCore == Init => Core
  <1>1. InitialBackoff \in InitialBackoff..MaxBackoff
    BY Constants DEF Assumptions
  <1>2. Init => certRefreshAttempted \in BOOLEAN /\ created \in BOOLEAN
    BY DEF Init
  <1>3. Init => sock \in [Sockets -> SocketLife] /\ kind \in [Sockets -> {"ws", "sse"}]
    BY DEF Init, SocketLife
  <1>4. Init => OneRetryArmed /\ PausedHoldsNothing
    BY DEF Init, OneRetryArmed, PausedHoldsNothing
  <1>5. Init => /\ state \in ConnectionState
                /\ currentSocket \in Sockets \cup {None}
                /\ reconnectTimeoutId \in {"null", "armed"}
                /\ timers \in Nat
                /\ backoffMs \in InitialBackoff..MaxBackoff
                /\ refreshing \in 0..MaxRefreshes
                /\ pause \in Pauses
    BY <1>1, Constants DEF Init, ConnectionState, Assumptions, Pauses
  <1> QED
    BY <1>2, <1>3, <1>4, <1>5 DEF Core, TypeOK

\* Every call of the owner, continuation and transport event keeps it.
THEOREM StepCore == Core /\ [Next]_vars => Core'
  <1> SUFFICES ASSUME Core, [Next]_vars PROVE Core'
    OBVIOUS
  <1> USE DEF Core, Owner, Continuations, Transport
  <1>1. ASSUME Create PROVE Core'
    <2>1. PICK n \in Sockets : Connect(n)
      BY <1>1 DEF Create
    <2>2. /\ state = "IDLE"
          /\ UNCHANGED <<kind, timerVars, backoffMs, certRefreshAttempted,
                         refreshing, created>>
      BY <1>1 DEF Create
    <2> QED
      BY <2>1, <2>2, ConnectCore
      DEF TypeOK, OneRetryArmed, PausedHoldsNothing, timerVars, ConnectionState
  <1>2. ASSUME Reconnect PROVE Core'
    <2>1. PICK n \in Sockets : ReconnectInternal(n)
      BY <1>2 DEF Reconnect
    <2>2. UNCHANGED <<kind, refreshing, created>>
      BY <1>2 DEF Reconnect
    <2> QED
      BY <2>1, <2>2, ReconnectInternalCore
      DEF TypeOK, OneRetryArmed, PausedHoldsNothing, ConnectionState
  <1>3. ASSUME Disconnect PROVE Core'
    <2>1. DisconnectWithReason(sock) /\ sock \in [Sockets -> SocketLife]
      BY <1>3 DEF Disconnect, TypeOK
    <2> QED
      BY <2>1, <1>3, DisconnectCore
      DEF Disconnect, TypeOK, Held
  <1>4. ASSUME Close PROVE Core'
    <2>1. state' = "DISPOSED" /\ pause' \in Pauses /\ ClearCurrentSocket(sock)
      BY <1>4 DEF Close, Pauses
    <2>2. timers' = 0 /\ reconnectTimeoutId' = "null"
      BY <2>1, ClearTimerDisarms DEF ClearCurrentSocket
    <2>3. sock' \in [Sockets -> SocketLife] /\ currentSocket' = None
      BY <2>1, ReleaseType DEF ClearCurrentSocket, TypeOK
    <2> QED
      BY <2>1, <2>2, <2>3, <1>4
      DEF Close, TypeOK, OneRetryArmed, PausedHoldsNothing, ConnectionState
  <1>5. ASSUME NEW s \in Sockets, NEW k \in Kinds, NEW d \in Deliveries,
               FactoryResolves(s, k, d)
        PROVE  Core'
    <2>1. Release(sock, s) \in [Sockets -> SocketLife]
      BY ReleaseType DEF TypeOK
    <2> QED
      BY <1>5, <2>1, Constants
      DEF FactoryResolves, TypeOK, OneRetryArmed, PausedHoldsNothing, timerVars,
          SocketLife, Assumptions
  <1>6. ASSUME NEW s \in Sockets, NEW e \in Errors, FactoryRejects(s, e)
        PROVE  Core'
    <2>1. Release(sock, s) \in [Sockets -> SocketLife]
      BY ReleaseType DEF TypeOK
    <2>2. created' \in BOOLEAN /\ UNCHANGED kind
      BY <1>6 DEF FactoryRejects
    <2> QED
      BY <1>6, <2>1, <2>2, ErrorCore DEF FactoryRejects, TypeOK, Held
  <1>7. ASSUME TimerFires PROVE Core'
    <2>1. PICK n \in Sockets : Connect(n)
      BY <1>7 DEF TimerFires
    <2>2. timers = 1 /\ timers' = 0 /\ reconnectTimeoutId' = "null"
      BY <1>7 DEF TimerFires, TypeOK, OneRetryArmed
    <2> QED
      BY <2>1, <2>2, <1>7, ConnectCore
      DEF TimerFires, TypeOK, OneRetryArmed, PausedHoldsNothing, ConnectionState
  <1>8. ASSUME RefreshSucceeds PROVE Core'
    <2>1. /\ refreshing' \in 0..MaxRefreshes
          /\ created' = TRUE /\ UNCHANGED kind
      BY <1>8, Constants DEF RefreshSucceeds, TypeOK, Assumptions
    <2>2. CASE \E n \in Sockets : ReconnectInternal(n)
      BY <2>1, <2>2, ReconnectInternalCore
      DEF TypeOK, OneRetryArmed, PausedHoldsNothing, ConnectionState
    <2>3. CASE UNCHANGED <<state, pause, currentSocket, sock, timerVars,
                           backoffMs, certRefreshAttempted>>
      BY <2>1, <2>3 DEF TypeOK, OneRetryArmed, PausedHoldsNothing, timerVars
    <2> QED
      BY <1>8, <2>2, <2>3 DEF RefreshSucceeds
  <1>9. ASSUME RefreshFails PROVE Core'
    <2>1. /\ refreshing' \in 0..MaxRefreshes
          /\ created' = TRUE
          /\ UNCHANGED <<kind, backoffMs, certRefreshAttempted>>
      BY <1>9, Constants DEF RefreshFails, TypeOK, Assumptions
    <2>2. DisconnectWithReason(sock) /\ sock \in [Sockets -> SocketLife]
      BY <1>9 DEF RefreshFails, TypeOK
    <2> QED
      BY <2>1, <2>2, DisconnectCore DEF TypeOK, Held
  <1>10. ASSUME NEW s \in Sockets, OpenEvent(s) PROVE Core'
    <2>1. sock' \in [Sockets -> SocketLife]
      BY <1>10 DEF OpenEvent, TypeOK, SocketLife
    <2>2. InitialBackoff \in InitialBackoff..MaxBackoff
      BY Constants DEF Assumptions
    <2> QED
      BY <1>10, <2>1, <2>2
      DEF OpenEvent, TypeOK, OneRetryArmed, PausedHoldsNothing, timerVars,
          ConnectionState, CanDispatch
  <1>11. ASSUME NEW s \in Sockets, NEW e \in Errors, ErrorEvent(s, e)
         PROVE  Core'
    <2> DEFINE base == [sock EXCEPT ![s] = "failing"]
    <2>1. base \in [Sockets -> SocketLife]
      BY DEF TypeOK, SocketLife
    <2>2. UNCHANGED <<kind, created>>
      BY <1>11 DEF ErrorEvent
    <2>3. CASE s = currentSocket
      <3>1. HandleConnectionError(e, base)
        BY <1>11, <2>3 DEF ErrorEvent
      <3> HIDE DEF base
      <3> QED
        BY <3>1, <2>1, <2>2, ErrorCore DEF TypeOK, Held
    <2>4. CASE s # currentSocket
      BY <1>11, <2>1, <2>2, <2>4
      DEF ErrorEvent, TypeOK, OneRetryArmed, PausedHoldsNothing, timerVars
    <2> QED
      BY <2>3, <2>4
  <1>12. ASSUME NEW s \in Sockets, NEW c \in CloseCodes, CloseEvent(s, c)
         PROVE  Core'
    <2> DEFINE base == [sock EXCEPT ![s] = "dead"]
    <2>1. base \in [Sockets -> SocketLife]
      BY DEF TypeOK, SocketLife
    <2>2. UNCHANGED <<kind, certRefreshAttempted, refreshing, created>>
      BY <1>12 DEF CloseEvent
    <2>3. CASE s # currentSocket
      <3>1. Release(sock, s) \in [Sockets -> SocketLife]
        BY ReleaseType DEF TypeOK
      <3> QED
        BY <1>12, <3>1, <2>2, <2>3
        DEF CloseEvent, TypeOK, OneRetryArmed, PausedHoldsNothing, timerVars
    <2>4. CASE s = currentSocket
      <3>1. \/ DisconnectWithReason(base) /\ UNCHANGED backoffMs
            \/ ScheduleReconnect(base)
        BY <1>12, <2>4 DEF CloseEvent
      <3> HIDE DEF base
      <3> QED
        BY <3>1, <2>1, <2>2, DisconnectCore, ScheduleCore DEF TypeOK, Held
    <2> QED
      BY <2>3, <2>4
  <1>13. ASSUME UNCHANGED vars PROVE Core'
    BY <1>13 DEF vars, TypeOK, OneRetryArmed, PausedHoldsNothing
  <1> QED
    BY <1>1, <1>2, <1>3, <1>4, <1>5, <1>6, <1>7, <1>8, <1>9, <1>10, <1>11,
       <1>12, <1>13
    DEF Next, FactorySettles

\* Types, the single armed retry and the empty hands of a paused instance hold
\* in every behaviour of the class.
THEOREM CoreInvariant == Spec => []StateOwnsItsResources
  <1>1. Spec => []Core
    BY InitCore, StepCore, PTL DEF Spec
  <1>2. Core => StateOwnsItsResources
    BY DEF Core, StateOwnsItsResources
  <1> QED
    BY <1>1, <1>2, PTL

-----------------------------------------------------------------------------
(* What the shared steps do to a held transport. *)

\* After a pause no closed transport is held.
LEMMA DisconnectDrops ==
  ASSUME Core, NEW base, DisconnectWithReason(base)
  PROVE  currentSocket' = None
  <1>1. ASSUME ~CanDispatch("DISCONNECT") PROVE currentSocket = None
    BY <1>1 DEF CanDispatch, Core, PausedHoldsNothing
  <1> QED
    BY <1>1 DEF DisconnectWithReason, ClearCurrentSocket

\* After a loss the retry is armed.
LEMMA ScheduleArms ==
  ASSUME Core, NEW base, ScheduleReconnect(base)
  PROVE  /\ sock' = base /\ currentSocket' = currentSocket
         /\ state' \in {state, "AWAITING_RETRY"}
         /\ currentSocket # None => state' = "AWAITING_RETRY"
  <1>1. ASSUME ~CanDispatch("SCHEDULE_RETRY"), currentSocket # None
        PROVE  state = "AWAITING_RETRY"
    BY <1>1 DEF CanDispatch, Core, PausedHoldsNothing, TypeOK, ConnectionState
  <1> QED
    BY <1>1 DEF ScheduleReconnect

\* An error leaves the transport in use alive, drops it or arms the retry.
LEMMA ErrorKeepsOrDrops ==
  ASSUME Core, NEW e, NEW base, HandleConnectionError(e, base)
  PROVE  \/ currentSocket' = None
         \/ /\ sock' = base /\ currentSocket' = currentSocket
            /\ state' \in {state, "AWAITING_RETRY"}
  BY DisconnectDrops, ScheduleArms DEF HandleConnectionError

-----------------------------------------------------------------------------
(* A lost transport is retried: inductive over Core. *)

\* No step leaves a closed transport in use without a retry.
THEOREM StepRetried ==
  Core /\ LostTransportIsRetried /\ [Next]_vars => LostTransportIsRetried'
  <1> SUFFICES ASSUME Core, LostTransportIsRetried, [Next]_vars
               PROVE  LostTransportIsRetried'
    OBVIOUS
  <1>0. state' = "AWAITING_RETRY" => reconnectTimeoutId' = "armed"
    BY StepCore DEF Core, OneRetryArmed
  <1> SUFFICES ASSUME currentSocket' # None, sock'[currentSocket'] = "dead"
               PROVE  state' = "AWAITING_RETRY"
    BY <1>0 DEF LostTransportIsRetried
  <1>1. \A n \in Sockets : ~Connect(n)
    BY ConnectCore
  <1>2. \A n \in Sockets : ~ReconnectInternal(n)
    BY ReconnectInternalCore
  <1>3. ~DisconnectWithReason(sock)
    BY DisconnectDrops
  <1>4. ~ClearCurrentSocket(sock)
    BY DEF ClearCurrentSocket
  <1>5. sock \in [Sockets -> SocketLife] /\ currentSocket \in Sockets \cup {None}
    BY DEF Core, TypeOK
  <1>6. currentSocket # None /\ sock[currentSocket] = "dead"
          => state = "AWAITING_RETRY"
    BY DEF LostTransportIsRetried
  <1>7. ASSUME NEW s \in Sockets, NEW k \in Kinds, NEW d \in Deliveries,
               FactoryResolves(s, k, d)
        PROVE  state' = "AWAITING_RETRY"
    <2>1. CASE state = "CONNECTING"
      BY <1>5, <1>7, <2>1, Constants DEF FactoryResolves, Assumptions
    <2>2. CASE state # "CONNECTING"
      BY <1>5, <1>6, <1>7, <2>2 DEF FactoryResolves, Release
    <2> QED
      BY <2>1, <2>2
  <1>8. ASSUME NEW s \in Sockets, NEW e \in Errors, FactoryRejects(s, e)
        PROVE  state' = "AWAITING_RETRY"
    <2>1. /\ sock' = Release(sock, s) /\ currentSocket' = currentSocket
          /\ state' \in {state, "AWAITING_RETRY"}
      BY <1>8, ErrorKeepsOrDrops DEF FactoryRejects
    <2> QED
      BY <2>1, <1>5, <1>6 DEF Release
  <1>9. ASSUME NEW s \in Sockets, OpenEvent(s) PROVE state' = "AWAITING_RETRY"
    BY <1>5, <1>6, <1>9 DEF OpenEvent
  <1>10. ASSUME NEW s \in Sockets, NEW e \in Errors, ErrorEvent(s, e)
         PROVE  state' = "AWAITING_RETRY"
    <2>1. sock' = [sock EXCEPT ![s] = "failing"] /\ currentSocket' = currentSocket
      BY <1>10, ErrorKeepsOrDrops DEF ErrorEvent
    <2>2. s # currentSocket
      BY <1>5, <2>1
    <2> QED
      BY <2>1, <2>2, <1>5, <1>6, <1>10 DEF ErrorEvent
  <1>11. ASSUME NEW s \in Sockets, NEW c \in CloseCodes, CloseEvent(s, c)
         PROVE  state' = "AWAITING_RETRY"
    <2>1. CASE s # currentSocket
      BY <1>5, <1>6, <1>11, <2>1 DEF CloseEvent, Release
    <2>2. CASE s = currentSocket
      <3>1. ScheduleReconnect([sock EXCEPT ![s] = "dead"])
        BY <1>11, <2>2, DisconnectDrops DEF CloseEvent
      <3> QED
        BY <3>1, <2>2, ScheduleArms
    <2> QED
      BY <2>1, <2>2
  <1>12. CASE UNCHANGED vars
    BY <1>6, <1>12 DEF vars
  <1>13. CASE RefreshSucceeds
    BY <1>2, <1>6, <1>13 DEF RefreshSucceeds
  <1> QED
    BY <1>1, <1>2, <1>3, <1>4, <1>7, <1>8, <1>9, <1>10, <1>11, <1>12, <1>13
    DEF Next, Create, Owner, Reconnect, Disconnect, Close, Continuations,
        FactorySettles, TimerFires, RefreshFails, Transport

\* Whenever the transport in use is one the server has closed, a retry is armed.
THEOREM LostTransport == Spec => []LostTransportIsRetried
  <1>1. Init => LostTransportIsRetried
    BY DEF Init, LostTransportIsRetried
  <1>2. Spec => []Core
    BY InitCore, StepCore, PTL DEF Spec
  <1> QED
    BY <1>1, <1>2, StepRetried, PTL DEF Spec

-----------------------------------------------------------------------------
(* Disposal is final. *)

\* No step leaves DISPOSED or arms a timer there.
THEOREM StepDisposed ==
  Core /\ state = "DISPOSED" /\ [Next]_vars => state' = "DISPOSED"
  <1> SUFFICES ASSUME Core, state = "DISPOSED", [Next]_vars
               PROVE  state' = "DISPOSED"
    OBVIOUS
  <1>1. /\ ~CanDispatch("CONNECT") /\ ~CanDispatch("DISCONNECT")
        /\ ~CanDispatch("SCHEDULE_RETRY") /\ ~CanDispatch("OPEN")
    BY DEF CanDispatch
  <1>2. /\ \A n : ~Connect(n) /\ ~ReconnectInternal(n)
        /\ \A base : DisconnectWithReason(base) => state' = state
        /\ \A base : ScheduleReconnect(base) => state' = state
    BY <1>1 DEF Connect, ReconnectInternal, DisconnectWithReason, ScheduleReconnect
  <1>3. \A e, base : HandleConnectionError(e, base) => state' = state
    BY <1>2 DEF HandleConnectionError
  <1>4. \A s \in Sockets, e \in Errors : ErrorEvent(s, e) => state' = state
    BY <1>3 DEF ErrorEvent
  <1>5. \A s \in Sockets, c \in CloseCodes : CloseEvent(s, c) => state' = state
    BY <1>2 DEF CloseEvent
  <1>6. \A s \in Sockets : OpenEvent(s) => state' = state
    BY <1>1 DEF OpenEvent
  <1>7. Continuations => state' = state
    BY <1>2, <1>3 DEF Continuations, FactorySettles, FactoryResolves,
                      FactoryRejects, TimerFires, RefreshSucceeds, RefreshFails
  <1>8. Create \/ Owner => state' = state
    BY <1>2 DEF Create, Owner, Reconnect, Disconnect, Close
  <1> QED
    BY <1>4, <1>5, <1>6, <1>7, <1>8 DEF Next, Transport, vars

\* No callback that outlives close() revives the instance or arms a retry.
THEOREM DisposedIsForever == Spec => DisposedForever
  <1>1. Core /\ Core' /\ [Next]_vars =>
          [state = "DISPOSED" => state' = "DISPOSED" /\ currentSocket' = None
                                 /\ (timers' <= timers)]_vars
    <2> SUFFICES ASSUME Core, Core', [Next]_vars, state = "DISPOSED"
                 PROVE  state' = "DISPOSED" /\ currentSocket' = None
                        /\ timers' <= timers
      OBVIOUS
    <2>1. state' = "DISPOSED"
      BY StepDisposed
    <2> QED
      BY <2>1 DEF Core, OneRetryArmed, PausedHoldsNothing
  <1>2. Spec => []Core
    BY InitCore, StepCore, PTL DEF Spec
  <1> QED
    BY <1>1, <1>2, PTL DEF Spec, DisposedForever

-----------------------------------------------------------------------------
(* CONNECTING is never left without anything that will end it. *)

InFlight == \E s \in Sockets : sock[s] = "connecting"

\* No step leaves CONNECTING with nothing under way.
THEOREM StepProgress ==
  Core /\ ConnectingMakesProgress /\ [Next]_vars => ConnectingMakesProgress'
  <1> SUFFICES ASSUME Core, ConnectingMakesProgress, [Next]_vars,
                      state' = "CONNECTING"
               PROVE  currentSocket' # None \/ InFlight' \/ refreshing' > 0
    BY DEF ConnectingMakesProgress, InFlight
  <1>1. sock \in [Sockets -> SocketLife] /\ refreshing \in Nat
    BY Constants DEF Core, TypeOK, Assumptions
  <1>2. state = "CONNECTING" => currentSocket # None \/ InFlight \/ refreshing > 0
    BY DEF ConnectingMakesProgress, InFlight
  <1>3. \A n \in Sockets : Connect(n) \/ ReconnectInternal(n) => InFlight'
    BY ConnectCore, ReconnectInternalCore DEF InFlight
  <1>4. ASSUME NEW base, DisconnectWithReason(base) PROVE FALSE
    BY <1>4 DEF DisconnectWithReason, CanDispatch
  <1>5. ASSUME NEW base, ScheduleReconnect(base) PROVE FALSE
    BY <1>5 DEF ScheduleReconnect, CanDispatch
  <1>6. ASSUME NEW e, NEW base, HandleConnectionError(e, base)
        PROVE  refreshing' > 0
    <2>1. refreshing' = refreshing + 1
      BY <1>4, <1>5, <1>6 DEF HandleConnectionError
    <2> QED
      BY <2>1, <1>1
  <1>7. ASSUME NEW s \in Sockets, NEW k \in Kinds, NEW d \in Deliveries,
               FactoryResolves(s, k, d)
        PROVE  currentSocket' # None
    BY <1>7, Constants DEF FactoryResolves, Assumptions
  <1>9. ASSUME NEW s \in Sockets, OpenEvent(s)
        PROVE  currentSocket' # None \/ InFlight' \/ refreshing' > 0
    <2>1. /\ UNCHANGED <<currentSocket, refreshing>>
          /\ sock' = [sock EXCEPT ![s] = "open"]
          /\ sock[s] # "connecting"
          /\ s # currentSocket => state' = state
      BY <1>9 DEF OpenEvent
    <2>2. CASE s = currentSocket
      BY <2>1, <2>2, Constants DEF Assumptions
    <2>3. CASE s # currentSocket
      BY <2>1, <2>3, <1>1, <1>2 DEF InFlight
    <2> QED
      BY <2>2, <2>3
  <1>10. ASSUME NEW s \in Sockets, NEW e \in Errors, ErrorEvent(s, e)
         PROVE  currentSocket' # None \/ InFlight' \/ refreshing' > 0
    <2>1. CASE s = currentSocket
      BY <2>1, <1>6, <1>10 DEF ErrorEvent
    <2>2. CASE s # currentSocket
      <3>1. /\ UNCHANGED <<state, currentSocket, refreshing>>
            /\ sock' = [sock EXCEPT ![s] = "failing"]
            /\ sock[s] # "connecting"
        BY <2>2, <1>10 DEF ErrorEvent
      <3> QED
        BY <3>1, <1>1, <1>2 DEF InFlight
    <2> QED
      BY <2>1, <2>2
  <1>11. ASSUME NEW s \in Sockets, NEW c \in CloseCodes, CloseEvent(s, c)
         PROVE  currentSocket' # None \/ InFlight' \/ refreshing' > 0
    <2>1. s # currentSocket
      BY <1>4, <1>5, <1>11 DEF CloseEvent
    <2>2. /\ UNCHANGED <<state, currentSocket, refreshing>>
          /\ sock' = Release(sock, s)
          /\ sock[s] # "connecting"
      BY <2>1, <1>11 DEF CloseEvent
    <2> QED
      BY <2>2, <1>1, <1>2 DEF InFlight, Release
  <1>12. CASE UNCHANGED vars
    BY <1>2, <1>12 DEF vars, InFlight
  <1>13. CASE RefreshSucceeds
    BY <1>3, <1>13 DEF RefreshSucceeds
  <1> QED
    BY <1>3, <1>4, <1>6, <1>7, <1>9, <1>10, <1>11, <1>12, <1>13
    DEF Next, Create, Owner, Reconnect, Disconnect, Close, Continuations,
        FactorySettles, FactoryRejects, TimerFires, RefreshFails, Transport

\* Overlapping connects, failing handshakes and failing refreshes never leave
\* the machine CONNECTING with nothing under way.
THEOREM ConnectingProgress == Spec => []ConnectingMakesProgress
  <1>1. Init => ConnectingMakesProgress
    BY DEF Init, ConnectingMakesProgress
  <1>2. Spec => []Core
    BY InitCore, StepCore, PTL DEF Spec
  <1> QED
    BY <1>1, <1>2, StepProgress, PTL DEF Spec

\* Neither a lost transport nor a pending attempt is forgotten: the retry loop
\* of the class never waits for nothing.
THEOREM RetryLoop == Spec => []RetryLoopAlive
  <1>1. ConnectingMakesProgress /\ LostTransportIsRetried => RetryLoopAlive
    BY DEF RetryLoopAlive
  <1> QED
    BY <1>1, LostTransport, ConnectingProgress, PTL
=============================================================================
