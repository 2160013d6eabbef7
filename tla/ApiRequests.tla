----------------------------- MODULE ApiRequests -----------------------------
(* Requests of a CoderApi client through its interceptors: the client          *)
(* certificate refresh (api/coderApi.ts) and the recovery from a 401           *)
(* (api/authInterceptor.ts), while the client moves between deployments.       *)
EXTENDS Naturals, FiniteSets

CONSTANTS Servers, NoServer,   \* hosts; the client has none
          Calls                \* slots for requests under way

ASSUME RequestsAssumption == NoServer \notin Servers /\ IsFiniteSet(Calls)

VARIABLES arHost,     \* the client's host
          arToken,    \* the host whose token the client sends
          arCalls,    \* each request: its await, its retries, the host it recovers for
          arLogin,    \* authRequiredPromise: the host it was started for
          arPrompts   \* runs of onAuthRequired that have not ended

arVars == <<arHost, arToken, arCalls, arLogin, arPrompts>>

\* tries: _authConfigRetryAttempted, _certRetried, _retryAttempted;
\* changed: the authentication settings changed since it was sent
Tries == SUBSET {"settings", "certificate", "token"}
NoCall == [at |-> "idle", tries |-> {}, changed |-> FALSE, for |-> NoServer]
Recovering == {"oauth", "refresh", "login", "stored"}

ApiRequestsTypeOK ==
  /\ arHost \in Servers \union {NoServer} /\ arToken \in Servers \union {NoServer}
  /\ arCalls \in [Calls -> [at: {"idle", "sent", "certificate"} \union Recovering,
                            tries: Tries, changed: BOOLEAN, for: Servers \union {NoServer}]]
  /\ arLogin \in Servers \union {NoServer}
  /\ arPrompts \in 0 .. Cardinality(Calls)

ArInit ==
  /\ arHost = NoServer /\ arToken = NoServer
  /\ arCalls = [c \in Calls |-> NoCall]
  /\ arLogin = NoServer /\ arPrompts = 0

Move(c, at) == arCalls' = [arCalls EXCEPT ![c].at = at]
End(c) == arCalls' = [arCalls EXCEPT ![c] = NoCall]

Tried(call, why) == call.tries \union {why}

\* the same configuration through all interceptors again, with new settings
Retry(c, why) ==
  arCalls' = [arCalls EXCEPT ![c] = [at |-> "sent", tries |-> Tried(@, why),
                                     changed |-> FALSE, for |-> NoServer]]

\* setCredentials, as the deployment session calls it
SetCredentials(h) ==
  /\ <<arHost, arToken>> # <<h, h>>
  /\ arHost' = h /\ arToken' = h
  /\ UNCHANGED <<arCalls, arLogin, arPrompts>>

\* the request interceptor stamps the version of the settings
Send(c) ==
  /\ arCalls[c] = NoCall /\ arHost # NoServer
  /\ Move(c, "sent")
  /\ UNCHANGED <<arHost, arToken, arLogin, arPrompts>>

AuthConfigChanges ==
  /\ arCalls' = [c \in Calls |-> IF arCalls[c].at = "sent" THEN [arCalls[c] EXCEPT !.changed = TRUE]
                                ELSE arCalls[c]]
  /\ arCalls' # arCalls
  /\ UNCHANGED <<arHost, arToken, arLogin, arPrompts>>

\* an answer, or an error that no interceptor handles
Answered(c) ==
  /\ arCalls[c].at = "sent"
  /\ End(c)
  /\ UNCHANGED <<arHost, arToken, arLogin, arPrompts>>

\* tryRefreshClientCertificate
CertificateError(c) ==
  /\ arCalls[c].at = "sent"
  /\ IF "certificate" \in arCalls[c].tries THEN End(c)
     ELSE End(c) \/ Move(c, "certificate")   \* not refreshable, or refreshed
  /\ UNCHANGED <<arHost, arToken, arLogin, arPrompts>>

CertificateRefreshed(c) ==
  /\ arCalls[c].at = "certificate"
  /\ End(c) \/ Retry(c, "certificate")
  /\ UNCHANGED <<arHost, arToken, arLogin, arPrompts>>

\* handleError, recoverFromUnauthorized: the host recovered for is the client's
\* at this moment, not the one the request went to
Unauthorized(c) ==
  /\ arCalls[c].at = "sent"
  /\ IF arHost = NoServer THEN End(c)
     ELSE IF arCalls[c].changed /\ "settings" \notin arCalls[c].tries THEN Retry(c, "settings")
     ELSE IF "token" \in arCalls[c].tries THEN End(c)
     ELSE arCalls' = [arCalls EXCEPT ![c].at = "oauth", ![c].changed = FALSE, ![c].for = arHost]
  /\ UNCHANGED <<arHost, arToken, arLogin, arPrompts>>

\* Mutant: every refused request asks for a login of its own.
PromptsAlways == TRUE

MustPrompt == arLogin = NoServer

\* executeAuthRequired: one login for all, whichever host they recover for
ExecuteAuthRequired(c) ==
  /\ Move(c, "login")
  /\ arLogin' = IF MustPrompt THEN arCalls[c].for ELSE arLogin
  /\ arPrompts' = IF MustPrompt THEN arPrompts + 1 ELSE arPrompts

\* a client that was given no onAuthRequired, which is optional, rejects the
\* request; both clients of the extension have one
Reject(c) == End(c) /\ UNCHANGED <<arLogin, arPrompts>>

\* isLoggedInWithOAuth, which may fail
OAuthChecked(c) ==
  /\ arCalls[c].at = "oauth"
  /\ \/ Move(c, "refresh") /\ UNCHANGED <<arLogin, arPrompts>>
     \/ ExecuteAuthRequired(c) \/ Reject(c)
  /\ UNCHANGED <<arHost, arToken>>

\* tryOAuthRefresh: the new token is set whatever host the client has by now
Refreshed(c) ==
  /\ arCalls[c].at = "refresh"
  /\ \/ Retry(c, "token") /\ arToken' = arCalls[c].for /\ UNCHANGED <<arLogin, arPrompts>>
     \/ (ExecuteAuthRequired(c) \/ Reject(c)) /\ UNCHANGED arToken
  /\ UNCHANGED arHost

\* onAuthRequired ended: all who wait share its result
LoginEnds ==
  /\ arLogin # NoServer
  /\ \E at \in {"stored", "idle"} :
       arCalls' = [c \in Calls |-> IF arCalls[c].at # "login" THEN arCalls[c]
                                   ELSE IF at = "idle" THEN NoCall ELSE [arCalls[c] EXCEPT !.at = at]]
  /\ arLogin' = NoServer /\ arPrompts' = arPrompts - 1
  /\ UNCHANGED <<arHost, arToken>>

\* the session stored for the host, if there is one
AuthRead(c) ==
  /\ arCalls[c].at = "stored"
  /\ End(c) \/ Retry(c, "token")
  /\ UNCHANGED <<arHost, arToken, arLogin, arPrompts>>

ArProceeds(c) ==
  \/ Answered(c) \/ CertificateError(c) \/ Unauthorized(c) \/ CertificateRefreshed(c)
  \/ OAuthChecked(c) \/ Refreshed(c) \/ AuthRead(c)

ArNext ==
  \/ \E h \in Servers \union {NoServer} : SetCredentials(h)
  \/ \E c \in Calls : Send(c) \/ ArProceeds(c)
  \/ AuthConfigChanges \/ LoginEnds

-----------------------------------------------------------------------------
(* Requests refused together prompt the user once: a login is in progress      *)
(* exactly while some request waits for it, and it is the only one.            *)
OneLoginForAll ==
  /\ arPrompts = (IF arLogin # NoServer THEN 1 ELSE 0)
  /\ (arLogin # NoServer) = (\E c \in Calls : arCalls[c].at = "login")

(* Every request ends, whatever the server answers to its retries and however  *)
(* often the settings change: each interceptor retries it at most once.        *)
EveryRequestEnds == \A c \in Calls : arCalls[c].at # "idle" ~> arCalls[c].at = "idle"
=============================================================================
