------------------------- MODULE DeploymentSession -------------------------
(***************************************************************************)
(* The session of one VS Code window: DeploymentManager with its           *)
(* SessionStore (src/deployment), the login and logout commands that drive *)
(* it (src/commands.ts) and the secret storage it shares with the other    *)
(* windows, which are an environment writing to that storage at any time.  *)
(*                                                                         *)
(* "ops" holds the calls suspended at an await.  What a call compares by   *)
(* identity after its await, #sessionStore.current against the value read  *)
(* before, is the field "moved": whether a transition happened since.      *)
(***************************************************************************)
EXTENDS FiniteSets, Naturals

CONSTANTS
  Hosts,
  Tokens,    \* records [host, user, n]: where a token is valid, and whose it is
  Rejected,  \* tokens the server refuses
  Flaky,     \* whether a verification may also fail for want of a network
  None,
  MaxOps     \* calls suspended at once (a bound of the model)

ASSUME TokensAssumption ==
  /\ \A t \in Tokens : t.host \in Hosts
  /\ None \notin Hosts /\ None \notin Tokens
ASSUME RejectedAssumption == Rejected \subseteq Tokens
ASSUME FlakyAssumption == Flaky \in BOOLEAN
ASSUME MaxOpsAssumption == MaxOps \in Nat

VARIABLES
  auth,            \* secret storage: the session token of each host
  current,         \* secret storage: coder.currentDeployment
  session,         \* #sessionStore.current
  client,          \* host and token of the shared CoderApi
  listener,        \* host of #authListenerDisposable
  ops,             \* calls of this window suspended at an await
  authEvents,      \* hosts whose change event is still to be handled
  currentEvent,    \* a change of coder.currentDeployment is still to be handled
  recoveryRunning, \* #recoveryRunning
  recoveryPending, \* #recoveryPending
  disposed         \* #disposed

storage  == <<auth, current>>
events   == <<authEvents, currentEvent>>
recovery == <<recoveryRunning, recoveryPending>>
vars == <<auth, current, session, client, listener, ops, authEvents,
          currentEvent, recoveryRunning, recoveryPending, disposed>>

Users == {t.user : t \in Tokens}

SignedOut(h) == [kind |-> "signedOut", host |-> h, user |-> None]
SignedIn(t)  == [kind |-> "signedIn", host |-> t.host, user |-> t.user]
NoClient     == [host |-> None, token |-> None]

\* lookup, verify: verifyAndApplySession reading the stored token, then asking
\* the server.  update: verifyAndUpdateSession.  settle: setDeployment awaiting
\* the OAuth manager.  login: performLogin with its credentials stored.
\* logout: performLogout with its deployment cleared.  authChanged,
\* currentChanged: a listener that has read the storage.
Calls   == {"lookup", "verify", "update", "settle"}
OpKinds == Calls \cup {"login", "logout", "authChanged", "currentChanged"}

Op(kind, h, t, recovers) ==
  [kind |-> kind, host |-> h, token |-> t, recovers |-> recovers, moved |-> FALSE]

isAuthenticated == session.kind = "signedIn"

\* Each transition replaces the session object under the calls in flight.
Moved(calls) ==
  {IF o.kind \in Calls THEN [o EXCEPT !.moved = TRUE] ELSE o : o \in calls}

Room == Cardinality(ops) < MaxOps

-----------------------------------------------------------------------------
(* Secret storage: a change is announced to whoever listens at that moment. *)

StoreAuth(h, t) ==
  /\ auth' = [auth EXCEPT ![h] = t]
  /\ authEvents' = IF listener = h THEN authEvents \cup {h} ELSE authEvents

StoreCurrent(h) ==
  /\ current' = h
  /\ currentEvent' = (currentEvent \/ ~disposed)

-----------------------------------------------------------------------------
(* The steps of DeploymentManager.  "rest" is the other calls in flight. *)

SetDeployment(t, rest, recovers) ==
  /\ client' = [host |-> t.host, token |-> t]
  /\ session' = SignedIn(t)
  /\ listener' = t.host
  /\ ops' = Moved(rest) \cup {Op("settle", t.host, None, recovers)}

ClearDeployment(rest) ==
  /\ listener' = None
  /\ session' = SignedOut(None)
  /\ client' = NoClient
  /\ ops' = Moved(rest)
  /\ StoreCurrent(None)

\* Mutant: an early return of the second pass skips the reset of the flag.
RecoveryFlagSticks(o, rest) ==
  IF ~o.recovers
    THEN ops' = rest /\ UNCHANGED recovery
    ELSE /\ recoveryPending' = FALSE
         /\ recoveryRunning' = recoveryPending
         /\ ops' = IF recoveryPending /\ session.host # None /\ ~isAuthenticated
                     THEN rest \cup {Op("lookup", session.host, None, TRUE)}
                     ELSE rest

\* A recovery pass that ends: once more when settings changed meanwhile.
AfterRecovery(o, rest) ==
  IF ~o.recovers
    THEN ops' = rest /\ UNCHANGED recovery
    ELSE /\ recoveryPending' = FALSE
         /\ IF recoveryPending /\ ~disposed /\ session.host # None /\ ~isAuthenticated
              THEN /\ ops' = rest \cup {Op("lookup", session.host, None, TRUE)}
                   /\ UNCHANGED recoveryRunning
              ELSE /\ ops' = rest
                   /\ recoveryRunning' = FALSE

LookUp(o) ==
  /\ o.kind = "lookup"
  /\ ops' = (ops \ {o}) \cup {[o EXCEPT !.kind = "verify", !.token = auth[o.host]]}
  /\ UNCHANGED <<storage, events, session, client, listener, recovery, disposed>>

\* Mutant: the state is not looked at again after the verification.
AppliesWithoutLooking(o) ==
  /\ o.kind = "verify"
  /\ o.token # None /\ o.token \notin Rejected
  /\ SetDeployment(o.token, ops \ {o}, o.recovers)
  /\ UNCHANGED <<storage, events, recovery, disposed>>

VerifySucceeds(o) ==
  /\ o.kind = "verify"
  /\ o.token # None /\ o.token \notin Rejected
  /\ IF disposed \/ isAuthenticated \/ o.moved
       THEN /\ AfterRecovery(o, ops \ {o})
            /\ UNCHANGED <<session, client, listener>>
       ELSE /\ SetDeployment(o.token, ops \ {o}, o.recovers)
            /\ UNCHANGED recovery
  /\ UNCHANGED <<storage, events, disposed>>

VerifyFails(o) ==
  /\ o.kind \in {"verify", "update"}
  /\ Flaky \/ o.token = None \/ o.token \in Rejected
  /\ AfterRecovery(o, ops \ {o})
  /\ UNCHANGED <<storage, events, session, client, listener, disposed>>

\* Mutant: any change of token only replaces the credentials.
UpdatesAnyUser(o) ==
  /\ o.kind = "update"
  /\ o.token \notin Rejected
  /\ client' = IF disposed \/ o.moved THEN client
                                     ELSE [host |-> o.host, token |-> o.token]
  /\ ops' = ops \ {o}
  /\ UNCHANGED <<storage, events, session, listener, recovery, disposed>>

\* Same user and same session: only the credentials change.  A session that
\* moved is recovered when it is a suspension of this same deployment.
UpdateSucceeds(o) ==
  /\ o.kind = "update"
  /\ o.token \notin Rejected
  /\ IF disposed
       THEN ops' = ops \ {o} /\ UNCHANGED <<session, client, listener>>
       ELSE IF ~o.moved /\ session.user = o.token.user
       THEN /\ client' = [host |-> o.host, token |-> o.token]
            /\ ops' = ops \ {o}
            /\ UNCHANGED <<session, listener>>
       ELSE IF ~o.moved \/ (~isAuthenticated /\ session.host = o.host)
       THEN SetDeployment(o.token, ops \ {o}, FALSE)
       ELSE ops' = ops \ {o} /\ UNCHANGED <<session, client, listener>>
  /\ UNCHANGED <<storage, events, recovery, disposed>>

\* Mutant: persists whatever took over during the await.
SettlesAnyway(o) ==
  /\ o.kind = "settle"
  /\ AfterRecovery(o, ops \ {o})
  /\ StoreCurrent(o.host)
  /\ UNCHANGED <<auth, authEvents, session, client, listener, disposed>>

\* setDeployment after the OAuth manager: persist unless a transition took over.
Settle(o) ==
  /\ o.kind = "settle"
  /\ AfterRecovery(o, ops \ {o})
  /\ IF o.moved THEN UNCHANGED <<current, currentEvent>> ELSE StoreCurrent(o.host)
  /\ UNCHANGED <<auth, authEvents, session, client, listener, disposed>>

-----------------------------------------------------------------------------
(* What the user and the other parts of the window do. *)

\* persistSessionAuth has stored the token; setDeployment is still to come.
\* LoginCoordinator runs the attempts of a window one after the other, and an
\* attempt, which asks the server, outlasts a listener's read of the storage.
LoginStores(t) ==
  /\ Room
  /\ ~disposed
  /\ ~\E o \in ops : o.kind \in {"login", "authChanged"}
  /\ t \notin Rejected
  /\ StoreAuth(t.host, t)
  /\ ops' = ops \cup {Op("login", t.host, t, FALSE)}
  /\ UNCHANGED <<current, currentEvent, session, client, listener, recovery, disposed>>

LoginApplies(o) ==
  /\ o.kind = "login"
  /\ SetDeployment(o.token, ops \ {o}, FALSE)
  /\ UNCHANGED <<storage, events, recovery, disposed>>

Logout ==
  /\ Room
  /\ isAuthenticated /\ ~disposed
  /\ ClearDeployment(ops \cup {Op("logout", session.host, None, FALSE)})
  /\ UNCHANGED <<auth, authEvents, recovery, disposed>>

LogoutRemoves(o) ==
  /\ o.kind = "logout"
  /\ StoreAuth(o.host, None)
  /\ ops' = ops \ {o}
  /\ UNCHANGED <<current, currentEvent, session, client, listener, recovery, disposed>>

\* manageCredentials: of any deployment of the list, which is as old as the
\* dialogs; with "Remove All" of one after the other.  The session follows by
\* its listener.
RemoveCredentials(h) ==
  /\ ~disposed
  /\ StoreAuth(h, None)
  /\ UNCHANGED <<current, currentEvent, session, client, listener, ops, recovery, disposed>>

\* handleAuthFailure of extension.ts: a 401, or a refresh that needs a login.
SuspendSession ==
  /\ ~disposed
  /\ session' = SignedOut(session.host)
  /\ client' = NoClient
  /\ ops' = Moved(ops)
  /\ UNCHANGED <<storage, events, listener, recovery, disposed>>

OnAuthConfigChange ==
  /\ ~disposed
  /\ IF recoveryRunning
       THEN recoveryPending' = TRUE /\ UNCHANGED <<ops, recoveryRunning>>
       ELSE /\ Room
            /\ session.host # None /\ ~isAuthenticated
            /\ recoveryRunning' = TRUE
            /\ recoveryPending' = FALSE
            /\ ops' = ops \cup {Op("lookup", session.host, None, TRUE)}
  /\ UNCHANGED <<storage, events, session, client, listener, disposed>>

Dispose ==
  /\ ~disposed
  /\ disposed' = TRUE
  /\ listener' = None
  /\ UNCHANGED <<storage, events, session, client, ops, recovery>>

-----------------------------------------------------------------------------
(* Change events.  A listener first reads the storage, and so sees the last *)
(* of several changes; reads of one key are answered in their order.        *)

ReadAuthChange(h) ==
  /\ Room
  /\ h \in authEvents
  /\ ~\E o \in ops : o.kind = "authChanged" /\ o.host = h
  /\ authEvents' = authEvents \ {h}
  /\ ops' = ops \cup {Op("authChanged", h, auth[h], FALSE)}
  /\ UNCHANGED <<storage, currentEvent, session, client, listener, recovery, disposed>>

AuthChanged(o) ==
  /\ o.kind = "authChanged"
  /\ IF session.host = o.host /\ o.token = None
       THEN ClearDeployment(ops \ {o})
       ELSE /\ ops' = (ops \ {o}) \cup
                       (IF session.host # o.host THEN {}
                        ELSE {Op(IF isAuthenticated THEN "update" ELSE "verify",
                                 o.host, o.token, FALSE)})
            /\ UNCHANGED <<current, currentEvent, session, client, listener>>
  /\ UNCHANGED <<auth, authEvents, recovery, disposed>>

ReadCurrentChange ==
  /\ Room
  /\ currentEvent
  /\ ~\E o \in ops : o.kind = "currentChanged"
  /\ currentEvent' = FALSE
  /\ ops' = ops \cup (IF current = None THEN {}
                      ELSE {Op("currentChanged", current, None, FALSE)})
  /\ UNCHANGED <<storage, authEvents, session, client, listener, recovery, disposed>>

CurrentChanged(o) ==
  /\ o.kind = "currentChanged"
  /\ ops' = (ops \ {o}) \cup (IF isAuthenticated THEN {}
                             ELSE {Op("lookup", o.host, None, FALSE)})
  /\ UNCHANGED <<storage, events, session, client, listener, recovery, disposed>>

OtherWindow ==
  /\ \/ \E t \in Tokens : StoreAuth(t.host, t) /\ UNCHANGED <<current, currentEvent>>
     \/ \E h \in Hosts : StoreAuth(h, None) /\ UNCHANGED <<current, currentEvent>>
     \/ \E h \in Hosts \cup {None} : StoreCurrent(h) /\ UNCHANGED <<auth, authEvents>>
  /\ UNCHANGED <<session, client, listener, ops, recovery, disposed>>

-----------------------------------------------------------------------------
\* activate(): the client starts with what is stored, unverified.
Init ==
  /\ auth \in {a \in [Hosts -> Tokens \cup {None}] :
                 \A h \in Hosts : a[h] # None => a[h].host = h}
  /\ current \in Hosts \cup {None}
  /\ session = SignedOut(None)
  /\ client = IF current = None THEN NoClient
                                ELSE [host |-> current, token |-> auth[current]]
  /\ listener = None
  /\ ops = IF current = None THEN {}
                             ELSE {Op("lookup", current, None, FALSE)}
  /\ authEvents = {}
  /\ currentEvent = FALSE
  /\ recoveryRunning = FALSE
  /\ recoveryPending = FALSE
  /\ disposed = FALSE

Resume ==
  \E o \in ops :
    \/ LookUp(o)
    \/ VerifySucceeds(o)
    \/ VerifyFails(o)
    \/ UpdateSucceeds(o)
    \/ Settle(o)
    \/ LoginApplies(o)
    \/ LogoutRemoves(o)
    \/ AuthChanged(o)
    \/ CurrentChanged(o)

User ==
  \/ \E t \in Tokens : LoginStores(t)
  \/ Logout
  \/ \E h \in Hosts : RemoveCredentials(h)
  \/ SuspendSession
  \/ OnAuthConfigChange
  \/ Dispose

Next ==
  \/ User
  \/ Resume
  \/ \E h \in Hosts : ReadAuthChange(h)
  \/ ReadCurrentChange
  \/ OtherWindow

Spec == Init /\ [][Next]_vars
FairSpec == Spec /\ WF_vars(Resume)

-----------------------------------------------------------------------------
TypeOK ==
  /\ auth \in [Hosts -> Tokens \cup {None}]
  /\ current \in Hosts \cup {None}
  /\ session \in [kind : {"signedOut", "signedIn"}, host : Hosts \cup {None},
                  user : Users \cup {None}]
  /\ client \in [host : Hosts \cup {None}, token : Tokens \cup {None}]
  /\ listener \in Hosts \cup {None}
  /\ ops \subseteq [kind : OpKinds, host : Hosts,
                    token : Tokens \cup {None}, recovers : BOOLEAN, moved : BOOLEAN]
  /\ authEvents \subseteq Hosts
  /\ currentEvent \in BOOLEAN /\ disposed \in BOOLEAN
  /\ recoveryRunning \in BOOLEAN /\ recoveryPending \in BOOLEAN

\* Whatever verifications overlapped, the shared client talks to the host the
\* window shows, with a token of the user it shows, and a suspended session
\* sends nothing.
ClientMatchesSession ==
  /\ isAuthenticated =>
       /\ client.host = session.host
       /\ client.token # None
       /\ client.token.host = session.host /\ client.token.user = session.user
  /\ ~isAuthenticated /\ session.host # None => client = NoClient

\* A listener is registered for the deployment of the session, signed in or
\* suspended, and for no other.
ListenerMatchesSession == listener # None => listener = session.host

\* The client and the listener of the window belong to the session it shows.
WindowFollowsSession == TypeOK /\ ClientMatchesSession /\ ListenerMatchesSession

\* Exactly one recovery pass is in flight while #recoveryRunning says so: the
\* flag never sticks, which would disable recovery for good.
OneRecovery ==
  /\ Cardinality({o \in ops : o.recovers}) = IF recoveryRunning THEN 1 ELSE 0
  /\ recoveryPending => recoveryRunning

\* A verification in the background never takes a signed-in user to another
\* deployment: only the login the user went through does.
OnlyLoginSwitches ==
  [][isAuthenticated /\ session'.kind = "signedIn" /\ session'.host # session.host
       => \E o \in ops : o.kind = "login" /\ LoginApplies(o)]_vars

\* What this window announces as the current deployment is what it shows.
PersistsWhatItShows ==
  [][\A o \in ops : Settle(o) /\ current' # current => session.host = current'
                                                       /\ isAuthenticated]_vars

\* "Updates credentials when they change (token refresh, cross-window sync)":
\* an update that ends with no other change to handle leaves the stored token
\* in the client.  Two rotations verified at once are applied in the order the
\* server answers, and the older one may be last.
NewestTokenStays ==
  [][\A o \in ops :
       /\ UpdateSucceeds(o)
       /\ isAuthenticated /\ client.token = auth[session.host]
       /\ authEvents = {} /\ \A p \in ops \ {o} : p.kind = "settle"
       => client' = client]_vars
=============================================================================
