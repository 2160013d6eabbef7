--------------------------- MODULE OAuthAuthorizer ---------------------------
(* oauth/authorizer.ts: the authorization code flow of one window. The answer  *)
(* of the browser may land in any window and comes back through the one slot   *)
(* of a WindowBroadcast (ipc/windowBroadcast.ts), where the next message       *)
(* overwrites it. `flow` is where each login stands, `outcome` its promise.    *)
EXTENDS SecretStore

CONSTANTS Logins, None, Foreign   \* Foreign: the state of another window's flow

\* The window's flows are writers of the store too.
ASSUME FlowAssumption ==
  Logins \subseteq Writers /\ Logins \intersect {"none", "pending", "rejected"} = {}

VARIABLES
  flow,               \* where runLoginFlow is suspended
  outcome,            \* the promise of startAuthorization: its code names the flow it was issued to
  pendingAuthReject,  \* the flow whose promise it rejects, or None
  armed,              \* flows whose timeout and listeners are registered
  cancelled,          \* flows whose progress notification was cancelled
  pages,              \* authorization pages open in a browser
  slot,               \* the last message of the channel
  called              \* flows with a message they have not read

oauthVars == <<flow, outcome, pendingAuthReject, armed, cancelled, pages, slot, called>>

\* A message that no listener will read any more is forgotten (it changes nothing).
Silence == [state |-> Foreign, code |-> "none"]
Forgotten == slot' = IF called' = {} THEN Silence ELSE slot

OAuthInit ==
  /\ flow = [l \in Logins |-> "none"]
  /\ outcome = [l \in Logins |-> "none"]
  /\ pendingAuthReject = None
  /\ armed = {} /\ cancelled = {} /\ pages = {Foreign} /\ called = {}
  /\ slot = Silence

\* reportProgress throws once the notification was cancelled; the user of a
\* login in the middle of a step is asked at its end.
Proceeds(l, next) == flow' = [flow EXCEPT ![l] = IF l \in cancelled THEN "failed" ELSE next]
Fails(l) == flow' = [flow EXCEPT ![l] = "failed"]
OnlyFlow == UNCHANGED <<outcome, pendingAuthReject, armed, cancelled, pages, slot, called>>

\* Settling a promise that is settled has no effect.
Reject(l) == IF outcome[l] = "pending" THEN [outcome EXCEPT ![l] = "rejected"] ELSE outcome

\* getMetadata: the request, and the five checks of what the server supports.
GetMetadata(l) ==
  /\ flow[l] = "metadata"
  /\ Proceeds(l, "reading") \/ Fails(l)
  /\ OnlyFlow /\ UNCHANGED storeVars

\* The start of startAuthorization, after the check of the third progress report.
StartAuthorization(l) ==
  IF l \in cancelled
  THEN Fails(l) /\ OnlyFlow
  ELSE /\ flow' = [flow EXCEPT ![l] = "opening"]
       /\ outcome' = [(IF pendingAuthReject = None THEN outcome ELSE Reject(pendingAuthReject))
                        EXCEPT ![l] = "pending"]
       /\ pendingAuthReject' = l
       /\ armed' = armed \union {l}
       /\ UNCHANGED <<cancelled, pages, slot, called>>

\* registerClient: an existing client with our redirect URI, or a new one.
ReadRegistration(l) ==
  /\ flow[l] = "reading"
  /\ IF registered = "ours"
     THEN StartAuthorization(l)
     ELSE /\ flow' = [flow EXCEPT ![l] = "registering"] /\ OnlyFlow
  /\ UNCHANGED storeVars

Registered(l) ==
  /\ flow[l] = "registering"
  /\ \/ flow' = [flow EXCEPT ![l] = "saving"] /\ StoreRegistration(l)
     \/ Fails(l) /\ UNCHANGED <<registered, write>>
  /\ OnlyFlow /\ UNCHANGED <<session, recent, unpruned, watchers, notified>>

RegistrationSaved(l) ==
  /\ flow[l] = "saving" /\ Returned(l)
  /\ IF write[l].step = "rejected" THEN Fails(l) /\ OnlyFlow ELSE StartAuthorization(l)
  /\ write' = [write EXCEPT ![l] = Idle]
  /\ UNCHANGED <<session, recent, registered, unpruned, watchers, notified>>

\* openExternal: when it throws, the timeout and the listeners stay registered.
OpenExternal(l) ==
  /\ flow[l] = "opening"
  /\ \/ flow' = [flow EXCEPT ![l] = "waiting"] /\ pages' = pages \union {l}
     \/ Fails(l) /\ UNCHANGED pages
  /\ UNCHANGED <<outcome, pendingAuthReject, armed, cancelled, slot, called, storeVars>>

\* `cleanup` clears the reject handle whoever it belongs to.
Cleanup(l) == pendingAuthReject' = None /\ armed' = armed \ {l} /\ called' = called \ {l}

TimesOut(l) ==
  /\ l \in armed
  /\ Cleanup(l) /\ outcome' = Reject(l)
  /\ Forgotten /\ UNCHANGED <<flow, cancelled, pages, storeVars>>

CancelOAuth(l) ==
  /\ flow[l] \notin {"none", "failed", "granted"} /\ l \notin cancelled
  /\ cancelled' = cancelled \union {l}
  /\ IF l \in armed
     THEN Cleanup(l) /\ outcome' = Reject(l)
     ELSE UNCHANGED <<pendingAuthReject, armed, called, outcome>>
  /\ Forgotten /\ UNCHANGED <<flow, pages, storeVars>>

\* handleOAuthCallback of any window: the redirect of a page, once.
Redirected(s, c) ==
  /\ s \in pages
  /\ pages' = pages \ {s} /\ called' = armed
  /\ slot' = IF armed = {} THEN Silence ELSE [state |-> s, code |-> c]
  /\ UNCHANGED <<flow, outcome, pendingAuthReject, armed, cancelled, storeVars>>

\* Mutant: any callback answers the flow that waits.
ReceiveAnyCallback(l) ==
  /\ l \in called
  /\ Cleanup(l)
  /\ outcome' = IF slot.code = "code" /\ outcome[l] = "pending"
                THEN [outcome EXCEPT ![l] = slot.state] ELSE Reject(l)
  /\ Forgotten /\ UNCHANGED <<flow, cancelled, pages, storeVars>>

\* The listener reads what the slot holds by now and ignores another flow's state.
ReceiveCallback(l) ==
  /\ l \in called
  /\ IF slot.state # l
     THEN called' = called \ {l} /\ UNCHANGED <<pendingAuthReject, armed, outcome>>
     ELSE /\ Cleanup(l)
          /\ outcome' = IF slot.code = "code" /\ outcome[l] = "pending"
                        THEN [outcome EXCEPT ![l] = slot.state] ELSE Reject(l)
  /\ Forgotten /\ UNCHANGED <<flow, cancelled, pages, storeVars>>

Authorized(l) ==
  /\ flow[l] = "waiting" /\ outcome[l] # "pending"
  /\ IF outcome[l] = "rejected" THEN Fails(l) ELSE Proceeds(l, "exchanging")
  /\ OnlyFlow /\ UNCHANGED storeVars

\* exchangeToken: the server compares the verifier with the challenge of the code's flow.
ExchangeToken(l) ==
  /\ flow[l] = "exchanging"
  /\ (outcome[l] = l /\ Proceeds(l, "user")) \/ Fails(l)
  /\ OnlyFlow /\ UNCHANGED storeVars

FetchUser(l) ==
  /\ flow[l] = "user"
  /\ flow' = [flow EXCEPT ![l] = "granted"] \/ Fails(l)
  /\ OnlyFlow /\ UNCHANGED storeVars

OAuthSteps(l) ==
  \/ GetMetadata(l) \/ ReadRegistration(l) \/ Registered(l) \/ RegistrationSaved(l)
  \/ OpenExternal(l) \/ Authorized(l) \/ ExchangeToken(l) \/ FetchUser(l)

OAuthEvents(l) ==
  \/ CancelOAuth(l) \/ ReceiveCallback(l)
  \/ \E c \in {"code", "error"} : Redirected(l, c)

(* A code is exchanged by the flow it was issued to, whatever messages of      *)
(* other flows and other windows pass through the slot before it is read: the  *)
(* state check of the listener (authorizer.ts:281).                            *)
CodeOfOwnFlow == \A l \in Logins : flow[l] \in {"exchanging", "user", "granted"} => outcome[l] = l
=============================================================================
