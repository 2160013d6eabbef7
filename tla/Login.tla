------------------------------- MODULE Login -------------------------------
(* login/loginCoordinator.ts of one window: logins wait in a queue; a dialog   *)
(* races a login of another window; the sources of a token are tried in turn.  *)
(* A dialog that lost its race goes on after the queue has moved on, and       *)
(* stores what it obtains.                                                     *)
EXTENDS OAuthAuthorizer

CONSTANTS
  Valid,       \* the tokens the deployment accepts
  Pasted, Granted, Theirs,  \* what the user pastes, OAuth grants, another window stores
  MaxOthers    \* writes of other windows

ASSUME LoginAssumption ==
  /\ Valid \subseteq Tokens /\ {Pasted, Granted, Theirs} \subseteq Valid
  /\ MaxOthers \in Nat /\ None \notin Tokens \union {NoToken, Absent, "failed", "success"}
  /\ "other" \in Writers

VARIABLES
  login,       \* per login: where attemptLogin is suspended, and what it holds
  queue,       \* loginQueue: the head is the one that runs
  result,      \* what the caller was told: None, "failed" or "success"
  checking,    \* tokens of other windows that the listener of a login is checking
  others       \* writes of other windows so far

vars == <<login, queue, result, checking, others, oauthVars, storeVars>>

\* input: the token in the box; user: the token the deployment last answered for.
Fresh == [pc |-> "idle", dialog |-> FALSE, provided |-> None, known |-> None, input |-> None, user |-> None]

Init ==
  /\ StoreInit /\ OAuthInit
  /\ login = [l \in Logins |-> Fresh] /\ queue = <<>>
  /\ result = [l \in Logins |-> None]
  /\ checking = [l \in Logins |-> {}]
  /\ others = 0

At(l, pc) == login[l].pc = pc
Goto(l, pc) == login' = [login EXCEPT ![l].pc = pc]
OnlyLogin == UNCHANGED <<checking, others, oauthVars, storeVars>>

\* ensureLoggedIn, with or without a token of the caller.
EnsureLoggedIn(l, provided) ==
  /\ At(l, "idle")
  /\ login' = [login EXCEPT ![l].pc = "queued", ![l].provided = provided]
  /\ queue' = Append(queue, l)
  /\ UNCHANGED result /\ OnlyLogin

EnsureLoggedInWithDialog(l) ==
  /\ At(l, "idle")
  /\ login' = [login EXCEPT ![l].pc = "queued", ![l].dialog = TRUE]
  /\ queue' = Append(queue, l)
  /\ UNCHANGED result /\ OnlyLogin

\* Mutant: a login does not wait for the one before it.
StartsAtOnce(l) ==
  /\ At(l, "queued")
  /\ Goto(l, IF login[l].dialog THEN "box" ELSE IF login[l].provided # None THEN "provided" ELSE "stored")
  /\ watchers' = IF login[l].dialog THEN watchers \union {l} ELSE watchers
  /\ UNCHANGED <<queue, result, checking, others, oauthVars, session, recent, registered, write, unpruned, notified>>

\* executeWithGuard: the turn of a login comes when the one before it has settled.
ExecuteWithGuard(l) ==
  /\ At(l, "queued") /\ Head(queue) = l
  /\ Goto(l, IF login[l].dialog THEN "box" ELSE IF login[l].provided # None THEN "provided" ELSE "stored")
  /\ watchers' = IF login[l].dialog THEN watchers \union {l} ELSE watchers
  /\ UNCHANGED <<queue, result, checking, others, oauthVars, session, recent, registered, write, unpruned, notified>>

\* Mutant: a login that failed ends the queue.
SettleEndsQueue(l, r) ==
  IF result[l] # None THEN UNCHANGED <<result, queue, checking, watchers, notified>>
  ELSE /\ result' = [result EXCEPT ![l] = r]
       /\ queue' = IF r = "failed" THEN queue ELSE Tail(queue)
       /\ watchers' = watchers \ {l} /\ notified' = notified \ {l}
       /\ checking' = [checking EXCEPT ![l] = {}]

\* The guarded call settles, unless it has: Promise.race, its finally and the queue.
Settle(l, r) ==
  IF result[l] # None THEN UNCHANGED <<result, queue, checking, watchers, notified>>
  ELSE /\ result' = [result EXCEPT ![l] = r]
       /\ queue' = Tail(queue)
       /\ watchers' = watchers \ {l} /\ notified' = notified \ {l}
       /\ checking' = [checking EXCEPT ![l] = {}]   \* their answers change nothing any more

Ends(l, r) ==
  /\ login' = [login EXCEPT ![l] = [Fresh EXCEPT !.pc = "done"]]
  /\ Settle(l, r)
  /\ UNCHANGED <<others, oauthVars, session, recent, registered, write, unpruned>>

Stays == UNCHANGED <<queue, result>> /\ OnlyLogin

\* The message box, and the URL if the caller has none.
CloseBox(l) ==
  /\ At(l, "box")
  /\ (Goto(l, "url") /\ Stays) \/ Ends(l, "failed")

MaybeAskUrl(l) ==
  /\ At(l, "url")
  /\ (Goto(l, IF login[l].provided # None THEN "provided" ELSE "stored") /\ Stays) \/ Ends(l, "failed")

\* What was obtained is stored before the caller is told.
Obtained(l, t) ==
  /\ login' = [login EXCEPT ![l] = [Fresh EXCEPT !.pc = "persist", !.input = t]]
  /\ Stays

\* tryTokenAuth: a refused token leads to the next source, another error ends the login.
TryTokenAuth(l, t, next) ==
  \/ t \in Valid /\ Obtained(l, t)
  \/ t \notin Valid /\ next /\ Stays
  \/ Ends(l, "failed")

TryProvided(l) == At(l, "provided") /\ TryTokenAuth(l, login[l].provided, Goto(l, "stored"))

\* The stored token, unless it is the one just refused.
ReadStored(l) ==
  /\ At(l, "stored")
  /\ LET t == session[Host] IN
     login' = [login EXCEPT ![l].known = t,
                 ![l].pc = IF t \in Tokens /\ t # login[l].provided THEN "tryStored" ELSE "cli"]
  /\ Stays

TryStored(l) == At(l, "tryStored") /\ TryTokenAuth(l, login[l].known, Goto(l, "cli"))

\* The tokens that were tried are forgotten before the user is asked.
AsksMethod(l) == login' = [login EXCEPT ![l] = [Fresh EXCEPT !.pc = "method"]]

\* readToken of the CLI: it may be missing, too old, fail or be cancelled.
ReadCliToken(l) ==
  /\ At(l, "cli")
  /\ \E t \in {Absent, Theirs} :
       IF t \in Tokens \ {login[l].provided, login[l].known}
       THEN login' = [login EXCEPT ![l].pc = "tryCli", ![l].input = t]
       ELSE AsksMethod(l)
  /\ Stays

TryCliToken(l) ==
  /\ At(l, "tryCli")
  /\ TryTokenAuth(l, login[l].input, AsksMethod(l))

\* maybeAskAuthMethod, and the start of the method the user chose.
MaybeAskAuthMethod(l) ==
  /\ At(l, "method")
  /\ \/ login' = [login EXCEPT ![l].pc = "input", ![l].input = Absent] /\ Stays
     \/ /\ login' = [login EXCEPT ![l] = [Fresh EXCEPT !.pc = "oauth"]]
        /\ flow' = [flow EXCEPT ![l] = "metadata"]
        /\ OnlyFlow /\ UNCHANGED <<queue, result, checking, others, storeVars>>
     \/ Ends(l, "failed")

\* validateInput: a token the deployment accepts sets `user`, an empty box (or a
\* refused token, which Absent stands for too) leaves it as it was.
TypeToken(l) ==
  /\ At(l, "input")
  /\ \E t \in {Absent, Pasted} :
       /\ t # login[l].input
       /\ login' = [login EXCEPT ![l].input = t, ![l].user = IF t \in Valid THEN t ELSE login[l].user]
  /\ Stays

\* Enter needs a box without an error; closing the box is always possible. What
\* counts afterwards is whether `user` was ever set.
CloseInputBox(l) ==
  /\ At(l, "input")
  /\ \/ login[l].user = None /\ Ends(l, "failed")
     \/ login[l].user # None /\ login[l].input \in Valid /\ Obtained(l, login[l].input)
     \/ login[l].user # None /\ Obtained(l, NoToken)

LoginWithOAuth(l) ==
  /\ At(l, "oauth") /\ flow[l] \in {"granted", "failed"}
  /\ flow' = [flow EXCEPT ![l] = "none"] /\ cancelled' = cancelled \ {l}
  /\ outcome' = [outcome EXCEPT ![l] = IF l \in armed THEN @ ELSE "none"]
  /\ UNCHANGED <<pendingAuthReject, armed, pages, slot, called, others, session, recent, registered, write, unpruned>>
  /\ IF flow[l] = "granted"
     THEN /\ login' = [login EXCEPT ![l].pc = "persist", ![l].input = Granted]
          /\ UNCHANGED <<queue, result, checking, watchers, notified>>
     ELSE login' = [login EXCEPT ![l] = [Fresh EXCEPT !.pc = "done"]] /\ Settle(l, "failed")

\* persistSessionAuth: the session, then the URL history; a rejection of either is
\* one of the login. The CLI stores its copy in the background, for which see CliCredentials.
PersistSessionAuth(l) ==
  /\ At(l, "persist")
  /\ \/ /\ StoreSession(l, Host, login[l].input)
        /\ Goto(l, "persisting")
        /\ UNCHANGED <<queue, result, checking, others, oauthVars, recent, registered, unpruned, watchers>>
     \/ Ends(l, "failed")

Persisted(l) ==
  /\ At(l, "persisting") /\ Returned(l)
  /\ login' = [login EXCEPT ![l] = [Fresh EXCEPT !.pc = "done"]]
  /\ (write[l].step = "none" /\ Settle(l, "success")) \/ Settle(l, "failed")
  /\ write' = [write EXCEPT ![l] = Idle]
  /\ UNCHANGED <<others, oauthVars, session, recent, registered, unpruned>>

\* waitForCrossWindowLogin: a change is read, its token checked; a refused one
\* keeps the listener.
CrossWindowChange(l) ==
  /\ l \in notified
  /\ notified' = notified \ {l}
  /\ checking' = [checking EXCEPT ![l] = @ \union ({session[Host]} \intersect Tokens)]
  /\ UNCHANGED <<login, queue, result, others, oauthVars, session, recent, registered, write, unpruned, watchers>>

CrossWindowChecked(l, t) ==
  /\ t \in checking[l]
  /\ \/ t \in Valid /\ Settle(l, "success")
     \/ /\ checking' = [checking EXCEPT ![l] = @ \ {t}]
        /\ UNCHANGED <<queue, result, watchers, notified>>
  /\ UNCHANGED <<login, others, oauthVars, session, recent, registered, write, unpruned>>

\* Another window logs in to a deployment, or its session expires or ends.
OtherWindow ==
  /\ others < MaxOthers /\ Returned("other")
  /\ others' = others + 1
  /\ \/ \E h \in Hosts, t \in {Theirs} \union (Tokens \ Valid) :
          /\ h # Host => t = Theirs
          /\ StoreSession("other", h, t)
          /\ UNCHANGED <<recent, registered, unpruned, watchers>>
     \/ Forget({Host}) /\ UNCHANGED <<write, unpruned, watchers>>
  /\ UNCHANGED <<login, queue, result, checking, oauthVars>>

Writing(w) == WriteSteps(w) /\ UNCHANGED <<login, queue, result, checking, others, oauthVars>>

\* Logins are named in the order of their calls.
Calls(l) ==
  /\ At(l, "idle") /\ l = CHOOSE n \in Logins : At(n, "idle")
  /\ \/ \E p \in {None} \union (Tokens \ Valid) : EnsureLoggedIn(l, p)
     \/ EnsureLoggedInWithDialog(l)

Steps(l) ==
  \/ ExecuteWithGuard(l) \/ CloseBox(l) \/ MaybeAskUrl(l) \/ TryProvided(l) \/ ReadStored(l)
  \/ TryStored(l) \/ ReadCliToken(l) \/ TryCliToken(l) \/ MaybeAskAuthMethod(l) \/ CloseInputBox(l)
  \/ LoginWithOAuth(l) \/ PersistSessionAuth(l) \/ Persisted(l)

OnlyOAuth == UNCHANGED <<login, queue, result, checking, others>>

Works(l) == \/ Steps(l)
            \/ (OAuthSteps(l) \/ TimesOut(l)) /\ OnlyOAuth

Events(l) == \/ OAuthEvents(l) /\ OnlyOAuth
             \/ TypeToken(l) \/ CrossWindowChange(l) \/ \E t \in Tokens : CrossWindowChecked(l, t)

Next ==
  \/ \E l \in Logins : Calls(l) \/ Works(l) \/ Events(l)
  \/ \E w \in Writers : Writing(w)
  \/ Redirected(Foreign, "code") /\ OnlyOAuth
  \/ OtherWindow

Spec == Init /\ [][Next]_vars

(* Requests are answered and dialogs are closed some time; the five minutes of *)
(* an authorization pass.                                                      *)
FairSpec == Spec /\ (\A l \in Logins : WF_vars(Works(l))) /\ WF_vars(\E w \in Writers : Writing(w))

TypeOK ==
  /\ StoreTypeOK
  /\ \A l \in Logins : login[l].pc \in {"idle", "queued", "box", "url", "provided", "stored", "tryStored",
                         "cli", "tryCli", "method", "input", "oauth", "persist", "persisting", "done"}
  /\ \A l \in Logins : result[l] \in {None, "failed", "success"}
  /\ \A l \in Logins : checking[l] \subseteq Tokens

Prompting == {l \in Logins : login[l].pc \notin {"idle", "queued", "done"} /\ result[l] = None}

(* At most one login whose caller still waits is under way: the others wait in *)
(* the queue, whichever of them settles by a dialog, by another window or by   *)
(* an error (executeWithGuard, loginCoordinator.ts:205).                       *)
OneLoginAtATime == Cardinality(Prompting) <= 1 /\ \A l \in Prompting : l = Head(queue)

(* Whatever overlaps, a flow gets its own code only.                           *)
LoginInvariant == TypeOK /\ CodeOfOwnFlow

Waiting == {l \in Logins : login[l].pc # "idle" /\ result[l] = None}

(* Every login is answered in the end: no error, lost callback, overtaken      *)
(* dialog, rejected write or dead authorization blocks the queue behind it     *)
(* (each login is called once, so that all are when nobody waits).             *)
EveryLoginSettles == Waiting # {} ~> Waiting = {}
=============================================================================
