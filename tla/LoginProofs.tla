---------------------------- MODULE LoginProofs ----------------------------
(* What holds of the logins of a window for every number of logins, tokens,    *)
(* deployments and writes of other windows: the queue names the one that runs, *)
(* a flow exchanges its own code, and no more sessions stay than the limit.    *)
EXTENDS Login, FiniteSetTheorems, TLAPS

Pcs == {"idle", "queued", "box", "url", "provided", "stored", "tryStored", "cli", "tryCli",
        "method", "input", "oauth", "persist", "persisting", "done"}
Values == Tokens \union {None, NoToken, Absent}
Logs == [pc : Pcs, dialog : BOOLEAN, provided : Values, known : Values, input : Values,
         user : Values]
Results == {None, "failed", "success"}
Sessions == Tokens \union {NoToken, Absent}

FlowPcs == {"none", "metadata", "reading", "registering", "saving", "opening", "waiting",
            "exchanging", "user", "granted", "failed"}

LoginsOK ==
  /\ login \in [Logins -> Logs]
  /\ result \in [Logins -> Results]
  /\ checking \in [Logins -> SUBSET Tokens]

\* What is about to be stored is a token or none at all.
StoresATokenOrNone ==
  \A l \in Logins : login[l].pc \in {"persist", "persisting"} =>
                      login[l].input \in Tokens \union {NoToken}

\* A promise settles with the code of its own flow or with an error; whoever
\* waits for it has started it.
FlowsOK ==
  /\ flow \in [Logins -> FlowPcs] /\ pendingAuthReject \in Logins \union {None}
  /\ outcome \in [Logins -> Logins \union {"none", "pending", "rejected"}]
OwnOutcome ==
  \A l \in Logins :
    /\ outcome[l] \in {"none", "pending", "rejected", l}
    /\ flow[l] \in {"opening", "waiting"} => outcome[l] # "none"
    /\ flow[l] \in {"exchanging", "user", "granted"} => outcome[l] = l

\* The queue holds every login that waits, once, and who runs is its head; a
\* login that has not begun hears nothing of other windows.
InQueue(l) == \E i \in 1..Len(queue) : queue[i] = l
Begun(l) == login[l].pc \notin {"idle", "queued"}
QueueOK ==
  /\ queue \in Seq(Logins)
  /\ \A i, j \in 1..Len(queue) : queue[i] = queue[j] => i = j
  /\ \A l \in Logins :
       /\ InQueue(l) => login[l].pc # "idle"
       /\ login[l].pc = "queued" => InQueue(l)
       /\ Begun(l) /\ result[l] = None => queue # <<>> /\ Head(queue) = l
       /\ ~Begun(l) => l \notin watchers /\ checking[l] = {}

\* What keeps the number of sessions within the limit, or will: a write that has
\* not read the keys yet, or one that deletes all but MaxCount.
Leaves(w) == KnownSafeHostnames \ write[w].hosts
LimitInv ==
  \/ unpruned
  \/ \E w \in Writers : write[w].step \in {"record", "prune"}
  \/ \E w \in Writers : write[w].step = "delete" /\ Cardinality(Leaves(w)) <= MaxCount
  \/ Cardinality(KnownSafeHostnames) <= MaxCount

FlowInv == FlowsOK /\ OwnOutcome
RunInv == LoginsOK /\ StoresATokenOrNone /\ QueueOK
Inv == StoreTypeOK /\ FlowInv /\ RunInv /\ LimitInv

-----------------------------------------------------------------------------
(* The calls of attemptLogin. *)

\* A record of a login that has begun, and holds what it is about to store.
Running == {log \in Logs : /\ log.pc \notin {"idle", "queued"}
                           /\ log.pc \in {"persist", "persisting"} =>
                                log.input \in Tokens \union {NoToken}}
RunsOn(l) == \E log \in Running : login' = [login EXCEPT ![l] = log]

RunPcs == Pcs \ {"idle", "queued", "persist", "persisting"}

LEMMA LogsEdited ==
  ASSUME NEW log \in Logs, NEW pc \in RunPcs, NEW v \in Values, NEW u \in Values
  PROVE  /\ [log EXCEPT !.pc = pc] \in Running
         /\ [log EXCEPT !.pc = pc, !.input = v] \in Running
         /\ [log EXCEPT !.known = v, !.pc = pc] \in Running
         /\ log.pc = "input" => [log EXCEPT !.input = v, !.user = u] \in Running
BY DEF Logs, Running, RunPcs, Pcs

LEMMA LogsFresh ==
  ASSUME NEW log \in Logs, NEW pc \in RunPcs, NEW v \in Tokens \union {NoToken}
  PROVE  /\ Fresh \in Logs
         /\ [Fresh EXCEPT !.pc = pc] \in Running
         /\ [Fresh EXCEPT !.pc = "persist", !.input = v] \in Running
         /\ [log EXCEPT !.pc = "persist", !.input = v] \in Running
         /\ log.input = v => [log EXCEPT !.pc = "persisting"] \in Running
<1>1. Fresh \in Logs
  BY DEF Fresh, Logs, Pcs, Values
<1>2. v \in Values /\ pc \in Pcs /\ "persist" \in Pcs /\ "persisting" \in Pcs
  BY DEF Values, RunPcs, Pcs
<1>3. [Fresh EXCEPT !.pc = pc] \in Running
  BY <1>1, <1>2 DEF Fresh, Logs, Running, RunPcs
<1>4. [Fresh EXCEPT !.pc = "persist", !.input = v] \in Running
  BY <1>1, <1>2 DEF Fresh, Logs, Running
<1>5. [log EXCEPT !.pc = "persist", !.input = v] \in Running
  BY <1>2 DEF Logs, Running
<1>6. log.input = v => [log EXCEPT !.pc = "persisting"] \in Running
  BY <1>2 DEF Logs, Running
<1> QED
  BY <1>1, <1>3, <1>4, <1>5, <1>6

\* Each way of the code to write to the record of a login that runs.
LEMMA LoginEdits ==
  ASSUME LoginsOK, NEW l \in Logins
  PROVE  /\ \A pc \in RunPcs : Goto(l, pc) => RunsOn(l)
         /\ \A r \in Results : Ends(l, r) => RunsOn(l)
         /\ \A t \in Tokens \union {NoToken} : Obtained(l, t) => RunsOn(l)
         /\ AsksMethod(l) => RunsOn(l)
<1>0. login[l] \in Logs
  BY DEF LoginsOK
<1>1. ASSUME NEW pc \in RunPcs, Goto(l, pc)
      PROVE  RunsOn(l)
  <2>1. login' = [login EXCEPT ![l] = [login[l] EXCEPT !.pc = pc]]
    BY <1>1 DEF Goto, LoginsOK
  <2>2. [login[l] EXCEPT !.pc = pc] \in Running
    BY <1>0, LogsEdited DEF Values
  <2> QED
    BY <2>1, <2>2 DEF RunsOn
<1>2. ASSUME NEW r \in Results, Ends(l, r)
      PROVE  RunsOn(l)
  <2>1. "done" \in RunPcs
    BY DEF RunPcs, Pcs
  <2>2. [Fresh EXCEPT !.pc = "done"] \in Running
    BY <1>0, <2>1, LogsFresh
  <2> QED
    BY <1>2, <2>2 DEF RunsOn, Ends
<1>3. ASSUME NEW t \in Tokens \union {NoToken}, Obtained(l, t)
      PROVE  RunsOn(l)
  <2>1. "done" \in RunPcs
    BY DEF RunPcs, Pcs
  <2>2. [Fresh EXCEPT !.pc = "persist", !.input = t] \in Running
    BY <1>0, <2>1, LogsFresh
  <2> QED
    BY <1>3, <2>2 DEF RunsOn, Obtained
<1>4. ASSUME AsksMethod(l)
      PROVE  RunsOn(l)
  <2>1. "method" \in RunPcs
    BY DEF RunPcs, Pcs
  <2>2. [Fresh EXCEPT !.pc = "method"] \in Running
    BY <1>0, <2>1, LogsFresh
  <2> QED
    BY <1>4, <2>2 DEF RunsOn, AsksMethod
<1> QED
  BY <1>1, <1>2, <1>3, <1>4

-----------------------------------------------------------------------------
(* The queue. *)

\* A login that runs, and goes on to run, leaves the queue as it was.
LEMMA RunGoesOn ==
  ASSUME RunInv, NEW l \in Logins, RunsOn(l), UNCHANGED <<queue, result, checking>>,
         Begun(l) \/ (InQueue(l) /\ Head(queue) = l), watchers' \subseteq watchers \union {l}
  PROVE  RunInv'
<1>1. PICK log \in Running : login' = [login EXCEPT ![l] = log]
  BY DEF RunsOn
<1>2. log \in Logs /\ log.pc \notin {"idle", "queued"}
  BY DEF Running
<1>3. login'[l] = log /\ \A v \in Logins \ {l} : login'[v] = login[v]
  BY <1>1 DEF RunInv, LoginsOK
<1>4. LoginsOK'
  BY <1>1, <1>2 DEF RunInv, LoginsOK
<1>5. StoresATokenOrNone'
  BY <1>3 DEF RunInv, StoresATokenOrNone, Running
<1>6. \A v \in Logins \ {l} : Begun(v)' <=> Begun(v)
  BY <1>3 DEF Begun
<1>7. Begun(l)'
  BY <1>2, <1>3 DEF Begun
<1>8. ASSUME NEW v \in Logins
      PROVE  InQueue(v)' <=> InQueue(v)
  BY DEF InQueue
<1>9. ASSUME NEW v \in Logins
      PROVE  /\ InQueue(v)' => login'[v].pc # "idle"
             /\ login'[v].pc = "queued" => InQueue(v)'
             /\ Begun(v)' /\ result'[v] = None => queue' # <<>> /\ Head(queue') = v
             /\ ~Begun(v)' => v \notin watchers' /\ checking'[v] = {}
  <2>1. CASE v = l
    <3>1. InQueue(l) => queue # <<>>
      BY DEF InQueue, RunInv, QueueOK
    <3>2. Begun(l) /\ result[l] = None => queue # <<>> /\ Head(queue) = l
      BY DEF RunInv, QueueOK
    <3>3. UNCHANGED queue /\ UNCHANGED result
      OBVIOUS
    <3>4. result'[l] = None => queue' # <<>> /\ Head(queue') = l
      BY <3>1, <3>2, <3>3
    <3> QED
      BY <1>2, <1>3, <1>7, <2>1, <3>4
  <2>2. CASE v # l
    <3>1. login'[v] = login[v] /\ (Begun(v)' <=> Begun(v)) /\ (InQueue(v)' <=> InQueue(v))
      BY <1>3, <1>6, <1>8, <2>2
    <3>2. /\ InQueue(v) => login[v].pc # "idle"
          /\ login[v].pc = "queued" => InQueue(v)
          /\ Begun(v) /\ result[v] = None => queue # <<>> /\ Head(queue) = v
          /\ ~Begun(v) => v \notin watchers /\ checking[v] = {}
      BY DEF RunInv, QueueOK
    <3>3. v \in watchers' => v \in watchers
      BY <2>2
    <3> QED
      BY <3>1, <3>2, <3>3
  <2> QED
    BY <2>1, <2>2
<1>10. QueueOK'
  <2>1. queue' \in Seq(Logins) /\ \A i, j \in 1..Len(queue') : queue'[i] = queue'[j] => i = j
    BY DEF RunInv, QueueOK
  <2> QED
    BY <1>9, <2>1 DEF QueueOK
<1> QED
  BY <1>4, <1>5, <1>10 DEF RunInv

\* Whatever ends the promise of a login that runs: the next one gets its turn.
LEMMA RunSettles ==
  ASSUME LoginAssumption, RunInv, NEW l \in Logins, Begun(l),
         RunsOn(l) \/ UNCHANGED login,
         NEW r \in Results \ {None}, Settle(l, r)
  PROVE  RunInv'
<1>1. CASE result[l] # None
  <2>1. CASE RunsOn(l)
    BY <1>1, <2>1, RunGoesOn DEF Settle
  <2>2. CASE UNCHANGED login
    <3>1. UNCHANGED <<result, queue, checking, watchers>>
      BY <1>1 DEF Settle
    <3> QED
      BY <2>2, <3>1
         DEF RunInv, LoginsOK, StoresATokenOrNone, QueueOK, InQueue, Begun
  <2> QED
    BY <2>1, <2>2
<1>2. CASE result[l] = None
  <2>1. /\ result' = [result EXCEPT ![l] = r]
        /\ queue' = Tail(queue)
        /\ watchers' = watchers \ {l}
        /\ checking' = [checking EXCEPT ![l] = {}]
    BY <1>2 DEF Settle
  <2>2. queue \in Seq(Logins) /\ queue # <<>> /\ Head(queue) = l
    BY <1>2 DEF RunInv, QueueOK
  <2>3. /\ Tail(queue) \in Seq(Logins) /\ Len(Tail(queue)) = Len(queue) - 1
        /\ \A k \in 1..(Len(queue) - 1) : Tail(queue)[k] = queue[k + 1]
        /\ Len(queue) \in Nat /\ Len(queue) > 0 /\ queue[1] = l
    BY <2>2
  <2>4. /\ \A v \in Logins \ {l} : login'[v] = login[v]
        /\ Begun(l)'
        /\ LoginsOK' /\ StoresATokenOrNone'
    <3>1. result' \in [Logins -> Results] /\ checking' \in [Logins -> SUBSET Tokens]
      BY <2>1 DEF RunInv, LoginsOK
    <3>2. CASE UNCHANGED login
      BY <3>1, <3>2 DEF RunInv, LoginsOK, StoresATokenOrNone, Begun
    <3>3. CASE RunsOn(l)
      <4>1. PICK log \in Running : login' = [login EXCEPT ![l] = log]
        BY <3>3 DEF RunsOn
      <4>2. login'[l] = log /\ \A v \in Logins \ {l} : login'[v] = login[v]
        BY <4>1 DEF RunInv, LoginsOK
      <4>3. login' \in [Logins -> Logs]
        BY <4>1 DEF RunInv, LoginsOK, Running
      <4> QED
        BY <3>1, <4>2, <4>3 DEF RunInv, LoginsOK, StoresATokenOrNone, Running, Begun
    <3> QED
      BY <3>2, <3>3
  <2>5. \A v \in Logins : InQueue(v)' => InQueue(v) /\ v # l
    <3> SUFFICES ASSUME NEW v \in Logins, NEW k \in 1..(Len(queue) - 1), Tail(queue)[k] = v
                 PROVE  InQueue(v) /\ v # l
      BY <2>1, <2>3 DEF InQueue
    <3>1. k + 1 \in 1..Len(queue) /\ 1 \in 1..Len(queue) /\ k + 1 # 1 /\ queue[k + 1] = v
      BY <2>3
    <3>2. v # l
      BY <2>3, <3>1 DEF RunInv, QueueOK
    <3> QED
      BY <3>1, <3>2 DEF InQueue
  <2>6. \A v \in Logins \ {l} : InQueue(v) => InQueue(v)'
    <3> SUFFICES ASSUME NEW v \in Logins \ {l}, NEW k \in 1..Len(queue), queue[k] = v
                 PROVE  InQueue(v)'
      BY DEF InQueue
    <3>1. k # 1 /\ k - 1 \in 1..(Len(queue) - 1)
      BY <2>3
    <3>2. Tail(queue)[k - 1] = queue[k]
      BY <2>3, <3>1
    <3> QED
      BY <2>1, <2>3, <3>1, <3>2 DEF InQueue
  <2>7. \A i, j \in 1..Len(queue') : queue'[i] = queue'[j] => i = j
    <3> SUFFICES ASSUME NEW i \in 1..(Len(queue) - 1), NEW j \in 1..(Len(queue) - 1),
                        Tail(queue)[i] = Tail(queue)[j]
                 PROVE  i = j
      BY <2>1, <2>3
    <3>1. i + 1 \in 1..Len(queue) /\ j + 1 \in 1..Len(queue) /\ queue[i + 1] = queue[j + 1]
      BY <2>3
    <3>2. i + 1 = j + 1
      BY <3>1 DEF RunInv, QueueOK
    <3> QED
      BY <3>2
  <2>8. \A v \in Logins \ {l} : ~(Begun(v) /\ result[v] = None)
    BY <2>2 DEF RunInv, QueueOK
  <2>9. result'[l] # None /\ \A v \in Logins \ {l} : result'[v] = result[v] /\ checking'[v] = checking[v]
    BY <2>1 DEF RunInv, LoginsOK
  <2>10. ASSUME NEW v \in Logins
         PROVE  /\ InQueue(v)' => login'[v].pc # "idle"
                /\ login'[v].pc = "queued" => InQueue(v)'
                /\ Begun(v)' /\ result'[v] = None => queue' # <<>> /\ Head(queue') = v
                /\ ~Begun(v)' => v \notin watchers' /\ checking'[v] = {}
    <3>1. CASE v = l
      BY <2>4, <2>5, <2>9, <3>1 DEF Begun
    <3>2. CASE v # l
      <4>1. login'[v] = login[v] /\ (Begun(v)' <=> Begun(v)) /\ (InQueue(v)' <=> InQueue(v))
        BY <2>4, <2>5, <2>6, <3>2 DEF Begun
      <4>2. ~(Begun(v) /\ result'[v] = None) /\ checking'[v] = checking[v]
        BY <2>8, <2>9, <3>2
      <4>3. v \in watchers' => v \in watchers
        BY <2>1
      <4> QED
        BY <4>1, <4>2, <4>3 DEF RunInv, QueueOK
    <3> QED
      BY <3>1, <3>2
  <2>11. QueueOK'
    BY <2>1, <2>3, <2>7, <2>10 DEF QueueOK
  <2> QED
    BY <2>4, <2>11 DEF RunInv
<1> QED
  BY <1>1, <1>2

-----------------------------------------------------------------------------
(* The steps of the calls. *)

\* tryTokenAuth obtains, tries the next source or ends the login.
LEMMA TokenTried ==
  ASSUME LoginAssumption, RunInv, NEW l \in Logins, Begun(l), NEW t, NEW next \in BOOLEAN,
         TryTokenAuth(l, t, next), next => RunsOn(l)
  PROVE  RunInv'
<1>0. LoginsOK /\ "failed" \in Results \ {None}
  BY DEF RunInv, Results, LoginAssumption
<1>1. CASE t \in Valid /\ Obtained(l, t)
  <2>1. t \in Tokens \union {NoToken}
    BY <1>1 DEF LoginAssumption
  <2>2. RunsOn(l)
    BY <1>0, <1>1, <2>1, LoginEdits
  <2> QED
    BY <1>1, <2>2, RunGoesOn DEF Obtained, Stays, OnlyLogin, storeVars
<1>2. CASE next /\ Stays
  BY <1>2, RunGoesOn DEF Stays, OnlyLogin, storeVars
<1>3. CASE Ends(l, "failed")
  <2>1. RunsOn(l)
    BY <1>0, <1>3, LoginEdits
  <2> QED
    BY <1>0, <1>3, <2>1, RunSettles DEF Ends
<1> QED
  BY <1>1, <1>2, <1>3 DEF TryTokenAuth

LEMMA RunSteps ==
  ASSUME LoginAssumption, StoreAssumption, StoreTypeOK, RunInv, NEW l \in Logins, Steps(l)
  PROVE  RunInv'
<1>0. LoginsOK /\ login[l] \in Logs /\ "failed" \in Results \ {None}
  BY DEF RunInv, LoginsOK, Results, LoginAssumption
<1>1. {"box", "url", "provided", "stored", "tryStored", "cli", "tryCli", "method", "input",
       "oauth", "done"} \subseteq RunPcs
  BY DEF RunPcs, Pcs
<1>2. ASSUME Stays, RunsOn(l), Begun(l)
      PROVE  RunInv'
  BY <1>2, RunGoesOn DEF Stays, OnlyLogin, storeVars
<1>3. ASSUME NEW r \in Results \ {None}, Ends(l, r), Begun(l)
      PROVE  RunInv'
  <2>1. RunsOn(l)
    BY <1>0, <1>3, LoginEdits
  <2> QED
    BY <1>3, <2>1, RunSettles DEF Ends
<1>4. CASE ExecuteWithGuard(l)
  <2>1. InQueue(l) /\ Head(queue) = l
    BY <1>4 DEF ExecuteWithGuard, At, RunInv, QueueOK
  <2>2. RunsOn(l)
    BY <1>0, <1>1, <1>4, LoginEdits DEF ExecuteWithGuard
  <2>3. watchers' \subseteq watchers \union {l}
    BY <1>4 DEF ExecuteWithGuard
  <2> QED
    BY <1>4, <2>1, <2>2, <2>3, RunGoesOn DEF ExecuteWithGuard
<1>5. CASE CloseBox(l) \/ MaybeAskUrl(l)
  <2>1. Begun(l)
    BY <1>5 DEF CloseBox, MaybeAskUrl, At, Begun
  <2>2. (Goto(l, "url") \/ Goto(l, "provided") \/ Goto(l, "stored")) => RunsOn(l)
    BY <1>0, <1>1, LoginEdits
  <2> QED
    BY <1>0, <1>2, <1>3, <1>5, <2>1, <2>2 DEF CloseBox, MaybeAskUrl
<1>6. CASE TryProvided(l)
  <2>1. Begun(l)
    BY <1>6 DEF TryProvided, At, Begun
  <2>2. Goto(l, "stored") => RunsOn(l)
    BY <1>0, <1>1, LoginEdits
  <2>3. Goto(l, "stored") \in BOOLEAN
    BY DEF Goto
  <2> QED
    BY <1>6, <2>1, <2>2, <2>3, TokenTried DEF TryProvided
<1>7. CASE ReadStored(l)
  <2>1. Begun(l)
    BY <1>7 DEF ReadStored, At, Begun
  <2>2. session[Host] \in Values
    BY DEF StoreTypeOK, StoreAssumption, Values
  <2>3. PICK pc \in {"tryStored", "cli"} :
          login' = [login EXCEPT ![l].known = session[Host], ![l].pc = pc]
    BY <1>7 DEF ReadStored
  <2>4. login' = [login EXCEPT ![l] = [login[l] EXCEPT !.known = session[Host], !.pc = pc]]
    BY <1>0, <2>3 DEF LoginsOK
  <2>5. [login[l] EXCEPT !.known = session[Host], !.pc = pc] \in Running
    BY <1>0, <1>1, <2>2, LogsEdited
  <2> QED
    BY <1>2, <1>7, <2>1, <2>4, <2>5 DEF RunsOn, ReadStored
<1>8. CASE TryStored(l)
  <2>1. Begun(l)
    BY <1>8 DEF TryStored, At, Begun
  <2>2. Goto(l, "cli") => RunsOn(l)
    BY <1>0, <1>1, LoginEdits
  <2>3. Goto(l, "cli") \in BOOLEAN
    BY DEF Goto
  <2> QED
    BY <1>8, <2>1, <2>2, <2>3, TokenTried DEF TryStored
<1>9. CASE ReadCliToken(l)
  <2>1. Begun(l)
    BY <1>9 DEF ReadCliToken, At, Begun
  <2>2. RunsOn(l)
    <3>1. CASE AsksMethod(l)
      BY <1>0, <3>1, LoginEdits
    <3>2. ASSUME NEW t \in Tokens, login' = [login EXCEPT ![l].pc = "tryCli", ![l].input = t]
          PROVE  RunsOn(l)
      <4>1. login' = [login EXCEPT ![l] = [login[l] EXCEPT !.pc = "tryCli", !.input = t]]
        BY <1>0, <3>2 DEF LoginsOK
      <4>2. [login[l] EXCEPT !.pc = "tryCli", !.input = t] \in Running
        BY <1>0, <1>1, LogsEdited DEF Values
      <4> QED
        BY <4>1, <4>2 DEF RunsOn
    <3> QED
      BY <1>9, <3>1, <3>2 DEF ReadCliToken
  <2> QED
    BY <1>2, <1>9, <2>1, <2>2 DEF ReadCliToken
<1>10. CASE TryCliToken(l)
  <2>1. Begun(l)
    BY <1>10 DEF TryCliToken, At, Begun
  <2>2. AsksMethod(l) => RunsOn(l)
    BY <1>0, LoginEdits
  <2>3. AsksMethod(l) \in BOOLEAN
    BY DEF AsksMethod
  <2> QED
    BY <1>10, <2>1, <2>2, <2>3, TokenTried DEF TryCliToken
<1>11. CASE MaybeAskAuthMethod(l)
  <2>1. Begun(l)
    BY <1>11 DEF MaybeAskAuthMethod, At, Begun
  <2>2. CASE login' = [login EXCEPT ![l].pc = "input", ![l].input = Absent] /\ Stays
    <3>1. login' = [login EXCEPT ![l] = [login[l] EXCEPT !.pc = "input", !.input = Absent]]
      BY <1>0, <2>2 DEF LoginsOK
    <3>2. [login[l] EXCEPT !.pc = "input", !.input = Absent] \in Running
      BY <1>0, <1>1, LogsEdited DEF Values
    <3> QED
      BY <1>2, <2>1, <2>2, <3>1, <3>2 DEF RunsOn
  <2>3. CASE /\ login' = [login EXCEPT ![l] =
                            [Fresh EXCEPT !.pc = "oauth"]]
             /\ UNCHANGED <<queue, result, checking, others, storeVars>>
    <3>1. [Fresh EXCEPT !.pc = "oauth"] \in Running
      BY <1>0, <1>1, LogsFresh
    <3> QED
      BY <2>1, <2>3, <3>1, RunGoesOn DEF RunsOn, storeVars
  <2> QED
    BY <1>0, <1>3, <1>11, <2>1, <2>2, <2>3 DEF MaybeAskAuthMethod
<1>12. CASE CloseInputBox(l)
  <2>1. Begun(l)
    BY <1>12 DEF CloseInputBox, At, Begun
  <2>2. ASSUME NEW t \in Tokens \union {NoToken}, Obtained(l, t)
        PROVE  RunInv'
    <3>1. RunsOn(l)
      BY <1>0, <2>2, LoginEdits
    <3> QED
      BY <1>2, <2>1, <2>2, <3>1 DEF Obtained
  <2> QED
    BY <1>0, <1>3, <1>12, <2>1, <2>2 DEF CloseInputBox, LoginAssumption
<1>13. CASE LoginWithOAuth(l)
  <2>1. Begun(l)
    BY <1>13 DEF LoginWithOAuth, At, Begun
  <2>2. CASE /\ login' = [login EXCEPT ![l].pc = "persist", ![l].input = Granted]
             /\ UNCHANGED <<queue, result, checking, watchers, notified>>
    <3>1. login' = [login EXCEPT ![l] = [login[l] EXCEPT !.pc = "persist", !.input = Granted]]
      BY <1>0, <2>2 DEF LoginsOK
    <3>2. "done" \in RunPcs /\ Granted \in Tokens \union {NoToken}
      BY <1>1 DEF LoginAssumption
    <3>3. [login[l] EXCEPT !.pc = "persist", !.input = Granted] \in Running
      BY <1>0, <3>2, LogsFresh
    <3> QED
      BY <2>1, <2>2, <3>1, <3>3, RunGoesOn DEF RunsOn
  <2>3. CASE login' = [login EXCEPT ![l] = [Fresh EXCEPT !.pc = "done"]] /\ Settle(l, "failed")
    <3>1. [Fresh EXCEPT !.pc = "done"] \in Running
      BY <1>0, <1>1, LogsFresh
    <3> QED
      BY <1>0, <2>1, <2>3, <3>1, RunSettles DEF RunsOn
  <2> QED
    BY <1>13, <2>2, <2>3 DEF LoginWithOAuth
<1>14. CASE PersistSessionAuth(l)
  <2>1. Begun(l)
    BY <1>14 DEF PersistSessionAuth, At, Begun
  <2>2. CASE Ends(l, "failed")
    BY <1>0, <1>3, <2>1, <2>2
  <2>3. CASE Goto(l, "persisting") /\ UNCHANGED <<queue, result, checking, watchers>>
    <3>1. login' = [login EXCEPT ![l] = [login[l] EXCEPT !.pc = "persisting"]]
      BY <1>0, <2>3 DEF Goto, LoginsOK
    <3>2. login[l].input \in Tokens \union {NoToken} /\ "done" \in RunPcs
      BY <1>1, <1>14 DEF PersistSessionAuth, At, RunInv, StoresATokenOrNone
    <3>3. [login[l] EXCEPT !.pc = "persisting"] \in Running
      BY <1>0, <3>2, LogsFresh
    <3> QED
      BY <2>1, <2>3, <3>1, <3>3, RunGoesOn DEF RunsOn
  <2> QED
    BY <1>14, <2>2, <2>3 DEF PersistSessionAuth
<1>15. CASE Persisted(l)
  <2>1. Begun(l)
    BY <1>15 DEF Persisted, At, Begun
  <2>2. PICK r \in Results \ {None} : Settle(l, r)
    BY <1>0, <1>15 DEF Persisted, Results, LoginAssumption
  <2>3. [Fresh EXCEPT !.pc = "done"] \in Running
    BY <1>0, <1>1, LogsFresh
  <2> QED
    BY <1>15, <2>1, <2>2, <2>3, RunSettles DEF RunsOn, Persisted
<1> QED
  BY <1>4, <1>5, <1>6, <1>7, <1>8, <1>9, <1>10, <1>11, <1>12, <1>13, <1>14, <1>15 DEF Steps

\* A call that begins goes to the end of the queue.
LEMMA RunQueues ==
  ASSUME RunInv, NEW l \in Logins, At(l, "idle"), NEW log \in Logs, log.pc = "queued",
         login' = [login EXCEPT ![l] = log], queue' = Append(queue, l),
         UNCHANGED <<result, checking, watchers>>
  PROVE  RunInv'
<1>1. login'[l] = log /\ \A v \in Logins \ {l} : login'[v] = login[v]
  BY DEF RunInv, LoginsOK
<1>2. LoginsOK' /\ StoresATokenOrNone'
  BY <1>1 DEF RunInv, LoginsOK, StoresATokenOrNone
<1>3. /\ queue' \in Seq(Logins) /\ Len(queue') = Len(queue) + 1 /\ Len(queue) \in Nat
      /\ \A k \in 1..Len(queue) : queue'[k] = queue[k]
      /\ queue'[Len(queue) + 1] = l
      /\ queue' # <<>> /\ (queue # <<>> => Head(queue') = Head(queue))
  BY DEF RunInv, QueueOK
<1>4. ~InQueue(l)
  BY DEF At, RunInv, QueueOK
<1>5. \A v \in Logins : InQueue(v)' <=> InQueue(v) \/ v = l
  <2> TAKE v \in Logins
  <2>1. InQueue(v)' => InQueue(v) \/ v = l
    BY <1>3 DEF InQueue
  <2>2. InQueue(v) => InQueue(v)'
    BY <1>3 DEF InQueue
  <2>3. InQueue(l)'
    <3>1. Len(queue) + 1 \in 1..Len(queue')
      BY <1>3
    <3> QED
      BY <1>3, <3>1 DEF InQueue
  <2> QED
    BY <2>1, <2>2, <2>3
<1>6. ASSUME NEW j \in 1..Len(queue'), NEW k \in 1..Len(queue'), queue'[j] = queue'[k]
      PROVE  j = k
  <2>1. CASE j \in 1..Len(queue) /\ k \in 1..Len(queue)
    BY <1>3, <1>6, <2>1 DEF RunInv, QueueOK
  <2>2. CASE j = Len(queue) + 1 /\ k \in 1..Len(queue)
    BY <1>3, <1>4, <1>6, <2>2 DEF InQueue
  <2>3. CASE k = Len(queue) + 1 /\ j \in 1..Len(queue)
    BY <1>3, <1>4, <1>6, <2>3 DEF InQueue
  <2> QED
    BY <1>3, <2>1, <2>2, <2>3
<1>7. ASSUME NEW v \in Logins
      PROVE  /\ InQueue(v)' => login'[v].pc # "idle"
             /\ login'[v].pc = "queued" => InQueue(v)'
             /\ Begun(v)' /\ result'[v] = None => queue' # <<>> /\ Head(queue') = v
             /\ ~Begun(v)' => v \notin watchers' /\ checking'[v] = {}
  <2>1. CASE v = l
    BY <1>1, <1>5, <2>1 DEF RunInv, QueueOK, Begun, At
  <2>2. CASE v # l
    BY <1>1, <1>3, <1>5, <2>2 DEF RunInv, QueueOK, Begun
  <2> QED
    BY <2>1, <2>2
<1> QED
  BY <1>2, <1>3, <1>6, <1>7 DEF RunInv, QueueOK

\* Steps of the parts around leave the logins alone, and add no listener.
LEMMA RunFrame ==
  ASSUME RunInv, UNCHANGED <<login, queue, result>>, watchers' \subseteq watchers,
         checking' \in [Logins -> SUBSET Tokens],
         \A l \in Logins : ~Begun(l) => checking'[l] = {}
  PROVE  RunInv'
<1>1. LoginsOK' /\ StoresATokenOrNone'
  BY DEF RunInv, LoginsOK, StoresATokenOrNone
<1>2. QueueOK'
  BY DEF RunInv, QueueOK, InQueue, Begun
<1> QED
  BY <1>1, <1>2 DEF RunInv

LEMMA RunNext ==
  ASSUME LoginAssumption, StoreAssumption, StoreTypeOK, RunInv, [Next]_vars
  PROVE  RunInv'
<1>0. LoginsOK /\ QueueOK
  BY DEF RunInv
<1>1. ASSUME UNCHANGED <<login, queue, result, checking>>, UNCHANGED watchers
      PROVE  RunInv'
  BY <1>0, <1>1, RunFrame DEF LoginsOK, QueueOK
<1>2. CASE UNCHANGED vars
  BY <1>1, <1>2 DEF vars, storeVars
<1>3. CASE \/ Redirected(Foreign, "code") /\ OnlyOAuth
           \/ OtherWindow
           \/ \E w \in Writers : Writing(w)
  BY <1>1, <1>3 DEF Redirected, OnlyOAuth, OtherWindow, Writing, WriteSteps, RecordAccess, ReadKeys,
                    Prune, Forget, StoreSession, SetSessions, storeVars
<1>4. ASSUME NEW l \in Logins, OnlyOAuth, OAuthSteps(l) \/ TimesOut(l) \/ OAuthEvents(l)
      PROVE  RunInv'
  BY <1>1, <1>4 DEF OnlyOAuth, OAuthSteps, TimesOut, OAuthEvents, GetMetadata, ReadRegistration,
     Registered, RegistrationSaved, OpenExternal, Authorized, ExchangeToken, FetchUser, CancelOAuth,
     ReceiveCallback, Redirected, storeVars
<1>5. ASSUME NEW l \in Logins, Steps(l)
      PROVE  RunInv'
  BY <1>5, RunSteps
<1>6. ASSUME NEW l \in Logins, Calls(l)
      PROVE  RunInv'
  <2>0. login[l] \in Logs /\ "queued" \in Pcs
    BY <1>0 DEF LoginsOK, Pcs
  <2>1. ASSUME NEW p \in {None} \union (Tokens \ Valid), EnsureLoggedIn(l, p)
        PROVE  RunInv'
    <3>1. [login[l] EXCEPT !.pc = "queued", !.provided = p] \in Logs
      <4>1. p \in Values
        BY DEF Values
      <4> QED
        BY <2>0, <4>1 DEF Logs
    <3>2. login' = [login EXCEPT ![l] = [login[l] EXCEPT !.pc = "queued", !.provided = p]]
      BY <1>0, <2>1 DEF EnsureLoggedIn, LoginsOK
    <3>3. [login[l] EXCEPT !.pc = "queued", !.provided = p].pc = "queued"
      BY <2>0 DEF Logs
    <3> QED
      BY <2>1, <3>1, <3>2, <3>3, RunQueues DEF EnsureLoggedIn, OnlyLogin, storeVars
  <2>2. CASE EnsureLoggedInWithDialog(l)
    <3>1. [login[l] EXCEPT !.pc = "queued", !.dialog = TRUE] \in Logs
      BY <2>0 DEF Logs
    <3>2. login' = [login EXCEPT ![l] = [login[l] EXCEPT !.pc = "queued", !.dialog = TRUE]]
      BY <1>0, <2>2 DEF EnsureLoggedInWithDialog, LoginsOK
    <3>3. [login[l] EXCEPT !.pc = "queued", !.dialog = TRUE].pc = "queued"
      BY <2>0 DEF Logs
    <3> QED
      BY <2>2, <3>1, <3>2, <3>3, RunQueues DEF EnsureLoggedInWithDialog, OnlyLogin, storeVars
  <2> QED
    BY <1>6, <2>1, <2>2 DEF Calls
<1>7. ASSUME NEW l \in Logins, TypeToken(l)
      PROVE  RunInv'
  <2>0. login[l] \in Logs /\ login[l].pc = "input" /\ Begun(l)
    BY <1>0, <1>7 DEF TypeToken, At, LoginsOK, Begun
  <2>1. PICK t \in {Absent, Pasted} :
          login' = [login EXCEPT ![l].input = t,
                                 ![l].user = IF t \in Valid THEN t ELSE login[l].user]
    BY <1>7 DEF TypeToken
  <2> DEFINE u == IF t \in Valid THEN t ELSE login[l].user
  <2>2. t \in Values /\ u \in Values
    BY <2>0 DEF LoginAssumption, Values, Logs
  <2>3. login' = [login EXCEPT ![l] = [login[l] EXCEPT !.input = t, !.user = u]]
    BY <1>0, <2>1 DEF LoginsOK
  <2> HIDE DEF u
  <2>4. [login[l] EXCEPT !.input = t, !.user = u] \in Running
    <3>1. "done" \in RunPcs
      BY DEF RunPcs, Pcs
    <3> QED
      BY <2>0, <2>2, <3>1, LogsEdited
  <2> QED
    BY <1>7, <2>0, <2>3, <2>4, RunGoesOn DEF RunsOn, TypeToken, Stays, OnlyLogin, storeVars
<1>8. ASSUME NEW l \in Logins, CrossWindowChange(l)
      PROVE  RunInv'
  <2>1. Begun(l)
    BY <1>0, <1>8 DEF CrossWindowChange, StoreTypeOK, QueueOK
  <2>2. checking' \in [Logins -> SUBSET Tokens]
    BY <1>0, <1>8 DEF CrossWindowChange, LoginsOK
  <2>3. \A v \in Logins : ~Begun(v) => checking'[v] = {}
    BY <1>0, <1>8, <2>1 DEF CrossWindowChange, LoginsOK, QueueOK
  <2> QED
    BY <1>8, <2>2, <2>3, RunFrame DEF CrossWindowChange
<1>9. ASSUME NEW l \in Logins, NEW t \in Tokens, CrossWindowChecked(l, t)
      PROVE  RunInv'
  <2>1. Begun(l)
    BY <1>0, <1>9 DEF CrossWindowChecked, QueueOK
  <2>2. CASE Settle(l, "success")
    <3>1. "success" \in Results \ {None}
      BY DEF Results, LoginAssumption
    <3> QED
      BY <1>9, <2>1, <2>2, <3>1, RunSettles DEF CrossWindowChecked
  <2>3. CASE /\ checking' = [checking EXCEPT ![l] = @ \ {t}]
             /\ UNCHANGED <<queue, result, watchers, notified>>
    <3>1. checking' \in [Logins -> SUBSET Tokens]
      BY <1>0, <2>3 DEF LoginsOK
    <3>2. \A v \in Logins : ~Begun(v) => checking'[v] = {}
      BY <1>0, <2>1, <2>3 DEF LoginsOK, QueueOK
    <3> QED
      BY <1>9, <2>3, <3>1, <3>2, RunFrame DEF CrossWindowChecked
  <2> QED
    BY <1>9, <2>2, <2>3 DEF CrossWindowChecked
<1> QED
  BY <1>2, <1>3, <1>4, <1>5, <1>6, <1>7, <1>8, <1>9 DEF Next, Works, Events

-----------------------------------------------------------------------------
(* The authorization flows. *)

\* A flow moves on, with what it needs where it goes.
LEMMA FlowMoves ==
  ASSUME FlowInv, NEW l \in Logins, NEW step \in FlowPcs, flow' = [flow EXCEPT ![l] = step],
         UNCHANGED <<outcome, pendingAuthReject>>,
         step \in {"opening", "waiting"} => outcome[l] # "none",
         step \in {"exchanging", "user", "granted"} => outcome[l] = l
  PROVE  FlowInv'
<1>1. FlowsOK'
  BY DEF FlowInv, FlowsOK
<1>2. OwnOutcome'
  BY DEF FlowInv, FlowsOK, OwnOutcome
<1> QED
  BY <1>1, <1>2 DEF FlowInv

\* A promise settles: a rejection or its own code, if it was pending.
LEMMA OutcomeSettles ==
  ASSUME FlowAssumption, FlowInv, NEW l \in Logins, UNCHANGED flow,
         pendingAuthReject' \in Logins \union {None},
         \/ outcome' = Reject(l)
         \/ outcome[l] = "pending" /\ outcome' = [outcome EXCEPT ![l] = l]
  PROVE  FlowInv'
<1>1. FlowsOK'
  BY DEF FlowInv, FlowsOK, Reject
<1>2. OwnOutcome'
  BY DEF FlowInv, FlowsOK, OwnOutcome, Reject, FlowAssumption
<1> QED
  BY <1>1, <1>2 DEF FlowInv

LEMMA FlowStarts ==
  ASSUME FlowAssumption, FlowInv, NEW l \in Logins, StartAuthorization(l)
  PROVE  FlowInv'
<1>1. CASE l \in cancelled
  BY <1>1, FlowMoves DEF FlowPcs, StartAuthorization, Fails, OnlyFlow
<1>2. CASE l \notin cancelled
  <2> DEFINE before == IF pendingAuthReject = None THEN outcome ELSE Reject(pendingAuthReject)
  <2>1. /\ flow' = [flow EXCEPT ![l] = "opening"]
        /\ outcome' = [before EXCEPT ![l] = "pending"]
        /\ pendingAuthReject' = l
    BY <1>2 DEF StartAuthorization
  <2>2. before \in [Logins -> Logins \union {"none", "pending", "rejected"}]
    BY DEF FlowInv, FlowsOK, Reject
  <2>3. \A v \in Logins : before[v] = outcome[v] \/ (outcome[v] = "pending" /\ before[v] = "rejected")
    BY DEF FlowInv, FlowsOK, Reject
  <2> HIDE DEF before
  <2>4. FlowsOK'
    BY <2>1, <2>2 DEF FlowInv, FlowsOK, FlowPcs
  <2>5. \A v \in Logins : outcome'[v] = IF v = l THEN "pending" ELSE before[v]
    BY <2>1, <2>2
  <2>6. \A v \in Logins : flow'[v] = IF v = l THEN "opening" ELSE flow[v]
    BY <2>1 DEF FlowInv, FlowsOK
  <2>7. OwnOutcome'
    BY <2>3, <2>5, <2>6 DEF FlowInv, OwnOutcome, FlowAssumption
  <2> QED
    BY <2>4, <2>7 DEF FlowInv
<1> QED
  BY <1>1, <1>2

LEMMA FlowSteps ==
  ASSUME FlowAssumption, FlowInv, NEW l \in Logins, OAuthSteps(l)
  PROVE  FlowInv'
<1>1. CASE GetMetadata(l)
  <2>1. \/ flow' = [flow EXCEPT ![l] = "reading"]
        \/ flow' = [flow EXCEPT ![l] = "failed"]
    BY <1>1 DEF GetMetadata, Proceeds, Fails
  <2> QED
    BY <1>1, <2>1, FlowMoves DEF FlowPcs, GetMetadata, OnlyFlow
<1>2. CASE ReadRegistration(l)
  <2>1. CASE flow' = [flow EXCEPT ![l] = "registering"] /\ OnlyFlow
    BY <2>1, FlowMoves DEF FlowPcs, OnlyFlow
  <2> QED
    BY <1>2, <2>1, FlowStarts DEF ReadRegistration
<1>3. CASE Registered(l)
  <2>1. \/ flow' = [flow EXCEPT ![l] = "saving"]
        \/ flow' = [flow EXCEPT ![l] = "failed"]
    BY <1>3 DEF Registered, Fails
  <2> QED
    BY <1>3, <2>1, FlowMoves DEF FlowPcs, Registered, OnlyFlow
<1>4. CASE RegistrationSaved(l)
  <2>1. CASE flow' = [flow EXCEPT ![l] = "failed"] /\ OnlyFlow
    BY <2>1, FlowMoves DEF FlowPcs, OnlyFlow
  <2> QED
    BY <1>4, <2>1, FlowStarts DEF RegistrationSaved, Fails
<1>5. CASE OpenExternal(l)
  <2>1. outcome[l] # "none"
    BY <1>5 DEF OpenExternal, FlowInv, OwnOutcome
  <2>2. \/ flow' = [flow EXCEPT ![l] = "waiting"]
        \/ flow' = [flow EXCEPT ![l] = "failed"]
    BY <1>5 DEF OpenExternal, Fails
  <2> QED
    BY <1>5, <2>1, <2>2, FlowMoves DEF FlowPcs, OpenExternal
<1>6. CASE Authorized(l)
  <2>1. \/ flow' = [flow EXCEPT ![l] = "failed"]
        \/ flow' = [flow EXCEPT ![l] = "exchanging"] /\ outcome[l] # "rejected"
    BY <1>6 DEF Authorized, Fails, Proceeds
  <2>2. outcome[l] \in {"rejected", l}
    BY <1>6 DEF Authorized, FlowInv, OwnOutcome
  <2> QED
    BY <1>6, <2>1, <2>2, FlowMoves DEF FlowPcs, Authorized, OnlyFlow
<1>7. CASE ExchangeToken(l)
  <2>1. \/ flow' = [flow EXCEPT ![l] = "failed"]
        \/ flow' = [flow EXCEPT ![l] = "user"] /\ outcome[l] = l
    BY <1>7 DEF ExchangeToken, Fails, Proceeds
  <2> QED
    BY <1>7, <2>1, FlowMoves DEF FlowPcs, ExchangeToken, OnlyFlow
<1>8. CASE FetchUser(l)
  <2>1. \/ flow' = [flow EXCEPT ![l] = "failed"]
        \/ flow' = [flow EXCEPT ![l] = "granted"]
    BY <1>8 DEF FetchUser, Fails
  <2>2. outcome[l] = l
    BY <1>8 DEF FetchUser, FlowInv, OwnOutcome
  <2> QED
    BY <1>8, <2>1, <2>2, FlowMoves DEF FlowPcs, FetchUser, OnlyFlow
<1> QED
  BY <1>1, <1>2, <1>3, <1>4, <1>5, <1>6, <1>7, <1>8 DEF OAuthSteps

LEMMA FlowFrame ==
  ASSUME FlowInv, UNCHANGED <<flow, outcome, pendingAuthReject>>
  PROVE  FlowInv'
BY DEF FlowInv, FlowsOK, OwnOutcome

LEMMA FlowNext ==
  ASSUME FlowAssumption, FlowInv, [Next]_vars
  PROVE  FlowInv'
<1>1. CASE UNCHANGED oauthVars
  BY <1>1, FlowFrame DEF oauthVars
<1>2. CASE Redirected(Foreign, "code")
  BY <1>2, FlowFrame DEF Redirected
<1>3. ASSUME NEW l \in Logins, OAuthSteps(l)
      PROVE  FlowInv'
  BY <1>3, FlowSteps
<1>4. ASSUME NEW l \in Logins, TimesOut(l) \/ OAuthEvents(l)
      PROVE  FlowInv'
  <2>1. CASE TimesOut(l)
    BY <2>1, OutcomeSettles DEF TimesOut, Cleanup
  <2>2. CASE CancelOAuth(l)
    <3>1. CASE l \in armed
      BY <2>2, <3>1, OutcomeSettles DEF CancelOAuth, Cleanup
    <3>2. CASE l \notin armed
      BY <2>2, <3>2, FlowFrame DEF CancelOAuth
    <3> QED
      BY <3>1, <3>2
  <2>3. CASE ReceiveCallback(l)
    <3>1. CASE slot.state # l
      BY <2>3, <3>1, FlowFrame DEF ReceiveCallback
    <3>2. CASE slot.state = l
      BY <2>3, <3>2, OutcomeSettles DEF ReceiveCallback, Cleanup
    <3> QED
      BY <3>1, <3>2
  <2>4. ASSUME NEW c \in {"code", "error"}, Redirected(l, c)
        PROVE  FlowInv'
    BY <2>4, FlowFrame DEF Redirected
  <2> QED
    BY <1>4, <2>1, <2>2, <2>3, <2>4 DEF OAuthEvents
<1>5. ASSUME NEW l \in Logins, MaybeAskAuthMethod(l)
      PROVE  FlowInv'
  <2>1. CASE flow' = [flow EXCEPT ![l] = "metadata"] /\ OnlyFlow
    BY <2>1, FlowMoves DEF FlowPcs, OnlyFlow
  <2> QED
    BY <1>1, <1>5, <2>1 DEF MaybeAskAuthMethod, Stays, OnlyLogin, Ends
<1>6. ASSUME NEW l \in Logins, LoginWithOAuth(l)
      PROVE  FlowInv'
  <2>1. /\ flow' = [flow EXCEPT ![l] = "none"]
        /\ outcome' = outcome \/ outcome' = [outcome EXCEPT ![l] = "none"]
        /\ UNCHANGED pendingAuthReject
    BY <1>6 DEF LoginWithOAuth, FlowInv, FlowsOK
  <2>2. FlowsOK'
    BY <2>1 DEF FlowInv, FlowsOK, FlowPcs
  <2>3. OwnOutcome'
    BY <2>1 DEF FlowInv, FlowsOK, OwnOutcome
  <2> QED
    BY <2>2, <2>3 DEF FlowInv
<1>7. ASSUME NEW l \in Logins,
             \/ Calls(l) \/ ExecuteWithGuard(l) \/ CloseBox(l) \/ MaybeAskUrl(l) \/ TryProvided(l)
             \/ ReadStored(l) \/ TryStored(l) \/ ReadCliToken(l) \/ TryCliToken(l)
             \/ CloseInputBox(l) \/ PersistSessionAuth(l) \/ Persisted(l) \/ TypeToken(l)
             \/ CrossWindowChange(l) \/ \E t \in Tokens : CrossWindowChecked(l, t)
      PROVE  UNCHANGED oauthVars
  BY <1>7 DEF Calls, EnsureLoggedIn, EnsureLoggedInWithDialog, ExecuteWithGuard, CloseBox,
     MaybeAskUrl, TryProvided, ReadStored, TryStored, ReadCliToken, TryCliToken, CloseInputBox,
     PersistSessionAuth, Persisted, TypeToken, CrossWindowChange, CrossWindowChecked, TryTokenAuth,
     Obtained, Ends, Stays, OnlyLogin
<1>8. CASE OtherWindow \/ (\E w \in Writers : Writing(w)) \/ UNCHANGED vars
  BY <1>1, <1>8 DEF OtherWindow, Writing, vars
<1> QED
  BY <1>1, <1>2, <1>3, <1>4, <1>5, <1>6, <1>7, <1>8 DEF Next, Works, Events, Steps

-----------------------------------------------------------------------------
(* The secret store. *)

SessionsOK == session \in [Hosts -> Sessions] /\ registered \in {"none", "ours"}
RecentOK == /\ recent \subseteq Accessed \X Accessed
            /\ \A a, b \in Accessed : <<a, b>> \in recent \/ <<b, a>> \in recent
WriteRecords == [step : {"none", "record", "prune", "delete", "rejected"}, host : Hosts,
                 hosts : SUBSET Hosts]
WritesOK == write \in [Writers -> WriteRecords] /\ unpruned \in BOOLEAN
WatchersOK == notified \subseteq watchers /\ watchers \subseteq Writers

LEMMA StoreParts == StoreTypeOK <=> SessionsOK /\ RecentOK /\ WritesOK /\ WatchersOK
BY DEF StoreTypeOK, SessionsOK, RecentOK, WritesOK, WriteRecords, WatchersOK, Sessions

LEMMA StorePartsNext == StoreTypeOK' <=> SessionsOK' /\ RecentOK' /\ WritesOK' /\ WatchersOK'
BY DEF StoreTypeOK, SessionsOK, RecentOK, WritesOK, WriteRecords, WatchersOK, Sessions

LEMMA StoreFrame ==
  /\ SessionsOK /\ UNCHANGED <<session, registered>> => SessionsOK'
  /\ RecentOK /\ UNCHANGED recent => RecentOK'
  /\ WritesOK /\ UNCHANGED <<write, unpruned>> => WritesOK'
  /\ WatchersOK /\ UNCHANGED <<watchers, notified>> => WatchersOK'
BY DEF SessionsOK, RecentOK, WritesOK, WatchersOK, Accessed

\* What a write can be after a step of its own.
LEMMA WritesEdited ==
  ASSUME StoreAssumption, WritesOK, NEW w \in Writers, unpruned' \in BOOLEAN,
         \/ write' = [write EXCEPT ![w].step = "prune"]
         \/ write' = [write EXCEPT ![w] = [Idle EXCEPT !.step = "rejected"]]
         \/ write' = [write EXCEPT ![w] = Idle]
         \/ \E h \in Hosts : Begins(w, h)
         \/ \E hosts \in SUBSET Hosts : Deletes(w, hosts)
  PROVE  WritesOK'
<1>1. Idle \in WriteRecords /\ [Idle EXCEPT !.step = "rejected"] \in WriteRecords
  BY DEF StoreAssumption, Idle, WriteRecords
<1>2. CASE write' = [write EXCEPT ![w].step = "prune"]
  BY <1>2 DEF WritesOK, WriteRecords
<1>3. CASE \/ write' = [write EXCEPT ![w] = Idle]
           \/ write' = [write EXCEPT ![w] = [Idle EXCEPT !.step = "rejected"]]
  BY <1>1, <1>3 DEF WritesOK
<1>4. ASSUME NEW h \in Hosts, Begins(w, h)
      PROVE  WritesOK'
  BY <1>4 DEF Begins, WritesOK, WriteRecords
<1>5. ASSUME NEW hosts \in SUBSET Hosts, Deletes(w, hosts)
      PROVE  WritesOK'
  <2>1. [write[w] EXCEPT !.step = "delete", !.hosts = hosts] \in WriteRecords
    BY DEF WritesOK, WriteRecords
  <2> QED
    BY <1>1, <1>5, <2>1 DEF Deletes, WritesOK
<1> QED
  BY <1>2, <1>3, <1>4, <1>5

\* The access of a deployment makes it the latest, and keeps the order total.
LEMMA AccessOrders ==
  ASSUME WritesOK, RecentOK, NEW w \in Writers, RecordAccess(w)
  PROVE  RecentOK'
<1>0. CASE UNCHANGED recent
  BY <1>0, StoreFrame
<1> DEFINE h == write[w].host
           S == Accessed \union {h}
<1>1. h \in Hosts
  BY DEF WritesOK, WriteRecords
<1>2. CASE recent' = {p \in recent : p[2] # h} \union ({h} \X S)
  <2> HIDE DEF h
  <2>1. \A a, b \in S : <<a, b>> \in recent' <=> (<<a, b>> \in recent /\ b # h) \/ a = h
    BY <1>2
  <2>2. Accessed' = S
    BY <1>1, <1>2 DEF RecentOK, Accessed
  <2>3. recent' \subseteq S \X S
    BY <1>2 DEF RecentOK
  <2>4. \A a, b \in S : <<a, b>> \in recent' \/ <<b, a>> \in recent'
    BY <2>1 DEF RecentOK
  <2> HIDE DEF S
  <2> QED
    BY <2>2, <2>3, <2>4 DEF RecentOK
<1> QED
  BY <1>0, <1>2 DEF RecordAccess

\* What is forgotten leaves the order of the others alone.
LEMMA ForgetKeeps ==
  ASSUME StoreAssumption, SessionsOK, RecentOK, WatchersOK, NEW hosts \in SUBSET Hosts,
         Forget(hosts)
  PROVE  /\ SessionsOK' /\ RecentOK'
         /\ UNCHANGED watchers => WatchersOK'
<1>1. SessionsOK'
  BY DEF Forget, SetSessions, SessionsOK, Sessions
<1>2. recent' = {p \in recent : p[1] \notin hosts /\ p[2] \notin hosts}
  BY DEF Forget
<1>3. Accessed' = Accessed \ hosts
  BY <1>2 DEF Accessed
<1>4. RecentOK'
  <2>1. \A a, b \in Accessed \ hosts : <<a, b>> \in recent => <<a, b>> \in recent'
    BY <1>2
  <2>2. \A a, b \in Accessed \ hosts : <<a, b>> \in recent' \/ <<b, a>> \in recent'
    BY <2>1 DEF RecentOK
  <2>3. recent' \subseteq (Accessed \ hosts) \X (Accessed \ hosts)
    BY <1>2 DEF RecentOK
  <2> QED
    BY <1>3, <2>2, <2>3 DEF RecentOK
<1>5. UNCHANGED watchers => WatchersOK'
  BY DEF Forget, SetSessions, WatchersOK
<1> QED
  BY <1>1, <1>4, <1>5

LEMMA StoreWrites ==
  ASSUME StoreAssumption, SessionsOK, WritesOK, WatchersOK, NEW w \in Writers, NEW h \in Hosts,
         NEW t \in Sessions, StoreSession(w, h, t),
         UNCHANGED <<registered, unpruned, watchers>>
  PROVE  SessionsOK' /\ WritesOK' /\ WatchersOK'
<1>1. SessionsOK' /\ WatchersOK'
  BY DEF StoreSession, SetSessions, SessionsOK, WatchersOK
<1>2. WritesOK'
  BY WritesEdited DEF StoreSession, WritesOK
<1> QED
  BY <1>1, <1>2

LEMMA SettleStops ==
  ASSUME WatchersOK, NEW l \in Logins, NEW r, Settle(l, r)
  PROVE  WatchersOK'
BY DEF Settle, WatchersOK

LEMMA StoreSteps ==
  ASSUME StoreAssumption, FlowAssumption, LoginAssumption, RunInv,
         SessionsOK, RecentOK, WritesOK, WatchersOK, NEW l \in Logins, Steps(l)
  PROVE  SessionsOK' /\ RecentOK' /\ WritesOK' /\ WatchersOK'
<1>1. UNCHANGED storeVars => SessionsOK' /\ RecentOK' /\ WritesOK' /\ WatchersOK'
  BY StoreFrame DEF storeVars
<1>2. l \in Writers
  BY DEF FlowAssumption
<1>3. ASSUME NEW r, Settle(l, r), UNCHANGED <<session, recent, registered, write, unpruned>>
      PROVE  SessionsOK' /\ RecentOK' /\ WritesOK' /\ WatchersOK'
  BY <1>3, StoreFrame, SettleStops
<1>4. ASSUME NEW r, Ends(l, r)
      PROVE  SessionsOK' /\ RecentOK' /\ WritesOK' /\ WatchersOK'
  BY <1>3, <1>4 DEF Ends
<1>5. CASE ExecuteWithGuard(l)
  <2>1. WatchersOK'
    BY <1>2, <1>5 DEF ExecuteWithGuard, WatchersOK
  <2> QED
    BY <1>5, <2>1, StoreFrame DEF ExecuteWithGuard
<1>6. CASE \/ CloseBox(l) \/ MaybeAskUrl(l) \/ TryProvided(l) \/ ReadStored(l) \/ TryStored(l)
           \/ ReadCliToken(l) \/ TryCliToken(l) \/ MaybeAskAuthMethod(l) \/ CloseInputBox(l)
  <2>1. UNCHANGED storeVars \/ \E r \in {"failed"} : Ends(l, r)
    BY <1>6 DEF CloseBox, MaybeAskUrl, TryProvided, ReadStored, TryStored, ReadCliToken, TryCliToken,
       MaybeAskAuthMethod, CloseInputBox, TryTokenAuth, Obtained, Stays, OnlyLogin
  <2> QED
    BY <1>1, <1>4, <2>1
<1>7. CASE LoginWithOAuth(l)
  <2>1. CASE UNCHANGED <<queue, result, checking, watchers, notified>>
    BY <1>7, <2>1, StoreFrame DEF LoginWithOAuth
  <2>2. CASE Settle(l, "failed")
    BY <1>3, <1>7, <2>2 DEF LoginWithOAuth
  <2> QED
    BY <1>7, <2>1, <2>2 DEF LoginWithOAuth
<1>8. CASE PersistSessionAuth(l)
  <2>1. login[l].input \in Sessions /\ Host \in Hosts
    BY <1>8 DEF PersistSessionAuth, At, RunInv, StoresATokenOrNone, Sessions, StoreAssumption
  <2> QED
    BY <1>2, <1>4, <1>8, <2>1, StoreWrites, StoreFrame DEF PersistSessionAuth
<1>9. CASE Persisted(l)
  <2>1. WatchersOK'
    BY <1>9, SettleStops DEF Persisted
  <2>2. WritesOK'
    BY <1>2, <1>9, WritesEdited DEF Persisted, WritesOK
  <2> QED
    BY <1>9, <2>1, <2>2, StoreFrame DEF Persisted
<1> QED
  BY <1>5, <1>6, <1>7, <1>8, <1>9 DEF Steps

LEMMA StoreNext ==
  ASSUME StoreAssumption, FlowAssumption, LoginAssumption, RunInv, StoreTypeOK, [Next]_vars
  PROVE  StoreTypeOK'
<1>0. SessionsOK /\ RecentOK /\ WritesOK /\ WatchersOK
  BY StoreParts
<1> SUFFICES SessionsOK' /\ RecentOK' /\ WritesOK' /\ WatchersOK'
  BY StorePartsNext
<1>1. CASE UNCHANGED storeVars
  BY <1>0, <1>1, StoreFrame DEF storeVars
<1>2. ASSUME NEW l \in Logins, Steps(l)
      PROVE  SessionsOK' /\ RecentOK' /\ WritesOK' /\ WatchersOK'
  BY <1>0, <1>2, StoreSteps
<1>3. ASSUME NEW l \in Logins, \/ Calls(l) \/ TypeToken(l)
                               \/ GetMetadata(l) \/ ReadRegistration(l)
                               \/ OpenExternal(l) \/ Authorized(l) \/ ExchangeToken(l)
                               \/ FetchUser(l) \/ TimesOut(l) \/ OAuthEvents(l)
      PROVE  UNCHANGED storeVars
  BY <1>3 DEF Calls, EnsureLoggedIn, EnsureLoggedInWithDialog, TypeToken, Stays, OnlyLogin,
     GetMetadata, ReadRegistration, OpenExternal, Authorized, ExchangeToken,
     FetchUser, TimesOut, OAuthEvents, CancelOAuth, ReceiveCallback, Redirected
<1>4. ASSUME NEW l \in Logins, Registered(l) \/ RegistrationSaved(l)
      PROVE  SessionsOK' /\ RecentOK' /\ WritesOK' /\ WatchersOK'
  <2>1. SessionsOK'
    BY <1>0, <1>4 DEF Registered, RegistrationSaved, StoreRegistration, SessionsOK
  <2>2. UNCHANGED unpruned /\ l \in Writers /\ Host \in Hosts
    BY <1>4 DEF Registered, RegistrationSaved, FlowAssumption, StoreAssumption
  <2>3. UNCHANGED write \/ Begins(l, Host) \/ write' = [write EXCEPT ![l] = Idle]
    BY <1>4 DEF Registered, RegistrationSaved, StoreRegistration
  <2>4. WritesOK'
    BY <1>0, <2>2, <2>3, StoreFrame, WritesEdited DEF WritesOK
  <2> QED
    BY <1>0, <1>4, <2>1, <2>4, StoreFrame DEF Registered, RegistrationSaved
<1>5. ASSUME NEW l \in Logins, CrossWindowChange(l)
      PROVE  SessionsOK' /\ RecentOK' /\ WritesOK' /\ WatchersOK'
  <2>1. WatchersOK'
    BY <1>0, <1>5 DEF CrossWindowChange, WatchersOK
  <2> QED
    BY <1>0, <1>5, <2>1, StoreFrame DEF CrossWindowChange
<1>6. ASSUME NEW l \in Logins, NEW t \in Tokens, CrossWindowChecked(l, t)
      PROVE  SessionsOK' /\ RecentOK' /\ WritesOK' /\ WatchersOK'
  <2>1. WatchersOK'
    BY <1>0, <1>6, SettleStops, StoreFrame DEF CrossWindowChecked
  <2> QED
    BY <1>0, <1>6, <2>1, StoreFrame DEF CrossWindowChecked
<1>7. ASSUME NEW w \in Writers, Writing(w)
      PROVE  SessionsOK' /\ RecentOK' /\ WritesOK' /\ WatchersOK'
  <2>1. CASE RecordAccess(w)
    <3>1. WritesOK'
      BY <1>0, <2>1, WritesEdited DEF RecordAccess, WritesOK
    <3> QED
      BY <1>0, <2>1, <3>1, AccessOrders, StoreFrame DEF RecordAccess
  <2>2. CASE ReadKeys(w)
    <3>1. unpruned' \in BOOLEAN /\ KnownSafeHostnames \subseteq Hosts
      BY <2>2 DEF ReadKeys, PruneFails, KnownSafeHostnames
    <3>2. \/ \E hosts \in SUBSET Hosts : Deletes(w, hosts)
          \/ write' = [write EXCEPT ![w] = Idle]
      BY <2>2, <3>1 DEF ReadKeys, PruneFails
    <3>3. WritesOK'
      BY <1>0, <3>1, <3>2, WritesEdited
    <3> QED
      BY <1>0, <2>2, <3>3, StoreFrame DEF ReadKeys
  <2>3. ASSUME NEW h \in write[w].hosts, Forget({h}), Deletes(w, write[w].hosts \ {h}),
               UNCHANGED <<unpruned, watchers>>
        PROVE  SessionsOK' /\ RecentOK' /\ WritesOK' /\ WatchersOK'
    <3>1. write[w].hosts \subseteq Hosts
      BY <1>0 DEF WritesOK, WriteRecords
    <3>2. WritesOK'
      BY <1>0, <2>3, <3>1, WritesEdited DEF WritesOK
    <3> QED
      BY <1>0, <2>3, <3>1, <3>2, ForgetKeeps
  <2>4. CASE PruneFails(w) /\ UNCHANGED <<session, recent, registered, watchers, notified>>
    <3>1. WritesOK'
      BY <1>0, <2>4, WritesEdited DEF PruneFails
    <3> QED
      BY <1>0, <2>4, <3>1, StoreFrame
  <2> QED
    BY <1>7, <2>1, <2>2, <2>3, <2>4 DEF Writing, WriteSteps, Prune
<1>8. CASE OtherWindow
  <2>1. ASSUME NEW h \in Hosts, NEW t \in {Theirs} \union (Tokens \ Valid),
               StoreSession("other", h, t), UNCHANGED <<recent, registered, unpruned, watchers>>
        PROVE  SessionsOK' /\ RecentOK' /\ WritesOK' /\ WatchersOK'
    <3>1. t \in Sessions /\ "other" \in Writers
      BY DEF Sessions, LoginAssumption
    <3> QED
      BY <1>0, <2>1, <3>1, StoreWrites, StoreFrame
  <2>2. CASE Forget({Host}) /\ UNCHANGED <<write, unpruned, watchers>>
    <3>1. {Host} \in SUBSET Hosts
      BY DEF StoreAssumption
    <3> QED
      BY <1>0, <2>2, <3>1, ForgetKeeps, StoreFrame
  <2> QED
    BY <1>8, <2>1, <2>2 DEF OtherWindow
<1>9. CASE UNCHANGED vars \/ Redirected(Foreign, "code")
  BY <1>1, <1>9 DEF vars, Redirected
<1> QED
  BY <1>1, <1>2, <1>3, <1>4, <1>5, <1>6, <1>7, <1>8, <1>9 DEF Next, Works, Events, OAuthSteps

-----------------------------------------------------------------------------
(* The limit. *)

LEMMA FewerHosts ==
  ASSUME StoreAssumption, NEW A \in SUBSET Hosts, NEW B \in SUBSET A,
         Cardinality(A) <= MaxCount
  PROVE  Cardinality(B) <= MaxCount
<1>1. IsFiniteSet(A) /\ IsFiniteSet(B) /\ Cardinality(B) <= Cardinality(A)
  BY FS_Subset DEF StoreAssumption
<1>2. Cardinality(A) \in Nat /\ Cardinality(B) \in Nat /\ MaxCount \in Nat
  BY <1>1, FS_CardinalityType DEF StoreAssumption
<1> QED
  BY <1>1, <1>2

\* The writes go on or stay as they are, and no session is added.
LEMMA LimitFrame ==
  ASSUME StoreAssumption, LimitInv, KnownSafeHostnames' \subseteq KnownSafeHostnames,
         UNCHANGED <<write, unpruned>>
  PROVE  LimitInv'
<1>0. KnownSafeHostnames \in SUBSET Hosts
  BY DEF KnownSafeHostnames
<1>1. CASE Cardinality(KnownSafeHostnames) <= MaxCount
  <2>1. Cardinality(KnownSafeHostnames') <= MaxCount
    BY <1>0, <1>1, FewerHosts
  <2> QED
    BY <2>1 DEF LimitInv
<1>2. ASSUME NEW w \in Writers, write[w].step = "delete", Cardinality(Leaves(w)) <= MaxCount
      PROVE  LimitInv'
  <2>1. Leaves(w)' \subseteq Leaves(w) /\ Leaves(w) \in SUBSET Hosts
    BY <1>0 DEF Leaves
  <2>2. Cardinality(Leaves(w)') <= MaxCount
    BY <1>2, <2>1, FewerHosts
  <2> QED
    BY <1>2, <2>2 DEF LimitInv
<1> QED
  BY <1>1, <1>2 DEF LimitInv

\* A write that has returned is forgotten.
LEMMA LimitReturned ==
  ASSUME WritesOK, LimitInv, NEW w \in Writers, Returned(w), write' = [write EXCEPT ![w] = Idle],
         UNCHANGED <<session, unpruned>>
  PROVE  LimitInv'
<1>1. KnownSafeHostnames' = KnownSafeHostnames
  BY DEF KnownSafeHostnames
<1>2. \A v \in Writers : write[v].step \in {"record", "prune", "delete"} => write'[v] = write[v]
  BY DEF Returned, WritesOK
<1> QED
  BY <1>1, <1>2 DEF LimitInv, Leaves

LEMMA LimitBegins ==
  ASSUME WritesOK, NEW w \in Writers, NEW h, Begins(w, h)
  PROVE  LimitInv'
BY DEF Begins, WritesOK, LimitInv

LEMMA LimitWrites ==
  ASSUME StoreAssumption, SessionsOK, WritesOK, LimitInv, NEW w \in Writers, WriteSteps(w)
  PROVE  LimitInv'
<1>0. KnownSafeHostnames \in SUBSET Hosts
  BY DEF KnownSafeHostnames
<1>1. CASE RecordAccess(w)
  BY <1>1 DEF RecordAccess, WritesOK, WriteRecords, LimitInv
<1>2. CASE PruneFails(w)
  BY <1>2 DEF PruneFails, LimitInv
<1>3. ASSUME UNCHANGED session, NEW hosts \in SUBSET KnownSafeHostnames,
             Beyond(KnownSafeHostnames, hosts), Deletes(w, hosts)
      PROVE  LimitInv'
  <2>1. KnownSafeHostnames' = KnownSafeHostnames
    BY <1>3 DEF KnownSafeHostnames
  <2>2. Cardinality(KnownSafeHostnames \ hosts) <= MaxCount
    BY <1>3 DEF Beyond
  <2>3. CASE hosts = {}
    BY <2>1, <2>2, <2>3 DEF LimitInv
  <2>4. CASE hosts # {}
    <3>1. write'[w].step = "delete" /\ write'[w].hosts = hosts
      BY <1>3, <2>4 DEF Deletes, WritesOK, WriteRecords
    <3> QED
      BY <2>1, <2>2, <3>1 DEF LimitInv, Leaves
  <2> QED
    BY <2>3, <2>4
<1>4. CASE ReadKeys(w)
  BY <1>2, <1>3, <1>4 DEF ReadKeys
<1>5. ASSUME write[w].step = "delete", NEW h \in write[w].hosts, Forget({h}),
             Deletes(w, write[w].hosts \ {h}), UNCHANGED unpruned
      PROVE  LimitInv'
  <2>1. KnownSafeHostnames' = KnownSafeHostnames \ {h}
    BY <1>5 DEF Forget, SetSessions, KnownSafeHostnames
  <2>2. \A v \in Writers \ {w} : write'[v] = write[v]
    BY <1>5 DEF Deletes, WritesOK
  <2>3. CASE Cardinality(KnownSafeHostnames) <= MaxCount
    <3>1. Cardinality(KnownSafeHostnames') <= MaxCount
      BY <1>0, <2>1, <2>3, FewerHosts
    <3> QED
      BY <3>1 DEF LimitInv
  <2>4. CASE \E v \in Writers : write[v].step \in {"record", "prune"}
    BY <1>5, <2>2, <2>4 DEF LimitInv
  <2>5. ASSUME NEW v \in Writers \ {w}, write[v].step = "delete", Cardinality(Leaves(v)) <= MaxCount
        PROVE  LimitInv'
    <3>1. Leaves(v)' \subseteq Leaves(v) /\ Leaves(v) \in SUBSET Hosts
      BY <1>0, <2>1, <2>2 DEF Leaves
    <3>2. Cardinality(Leaves(v)') <= MaxCount
      BY <2>5, <3>1, FewerHosts
    <3> QED
      BY <2>2, <2>5, <3>2 DEF LimitInv
  <2>6. CASE Cardinality(Leaves(w)) <= MaxCount
    <3>1. CASE write[w].hosts = {h}
      <4>1. KnownSafeHostnames' = Leaves(w)
        BY <2>1, <3>1 DEF Leaves
      <4> QED
        BY <2>6, <4>1 DEF LimitInv
    <3>2. CASE write[w].hosts # {h}
      <4>1. write'[w].step = "delete" /\ write'[w].hosts = write[w].hosts \ {h}
        BY <1>5, <3>2 DEF Deletes, WritesOK, WriteRecords
      <4>2. Leaves(w)' = Leaves(w)
        BY <1>5, <2>1, <4>1 DEF Leaves
      <4> QED
        BY <2>6, <4>1, <4>2 DEF LimitInv
    <3> QED
      BY <3>1, <3>2
  <2> QED
    BY <1>5, <2>3, <2>4, <2>5, <2>6 DEF LimitInv
<1>6. CASE Prune(w)
  BY <1>2, <1>5, <1>6 DEF Prune
<1> QED
  BY <1>1, <1>4, <1>6 DEF WriteSteps

LEMMA LimitNext ==
  ASSUME StoreAssumption, FlowAssumption, LoginAssumption, StoreTypeOK, LimitInv, [Next]_vars
  PROVE  LimitInv'
<1>0. SessionsOK /\ WritesOK
  BY StoreParts
<1>1. ASSUME UNCHANGED <<session, write, unpruned>>
      PROVE  LimitInv'
  BY <1>1, LimitFrame DEF KnownSafeHostnames
<1>2. CASE UNCHANGED vars \/ Redirected(Foreign, "code")
  BY <1>1, <1>2 DEF vars, storeVars, Redirected
<1>3. ASSUME NEW l \in Logins, Steps(l), ~PersistSessionAuth(l), ~Persisted(l)
      PROVE  LimitInv'
  BY <1>1, <1>3 DEF storeVars, Steps, ExecuteWithGuard, CloseBox, MaybeAskUrl, TryProvided,
     ReadStored, TryStored, ReadCliToken, TryCliToken, MaybeAskAuthMethod, CloseInputBox,
     LoginWithOAuth, TryTokenAuth, Obtained, Ends, Stays, OnlyLogin
<1>4. ASSUME NEW l \in Logins, PersistSessionAuth(l) \/ Persisted(l)
      PROVE  LimitInv'
  <2>1. l \in Writers
    BY DEF FlowAssumption
  <2> QED
    BY <1>0, <1>1, <1>4, <2>1, LimitBegins, LimitReturned
       DEF PersistSessionAuth, Persisted, StoreSession, Ends
<1>5. ASSUME NEW l \in Logins, \/ Calls(l) \/ TypeToken(l) \/ CrossWindowChange(l)
                               \/ \E t \in Tokens : CrossWindowChecked(l, t)
                               \/ GetMetadata(l) \/ ReadRegistration(l)
                               \/ OpenExternal(l) \/ Authorized(l) \/ ExchangeToken(l)
                               \/ FetchUser(l) \/ TimesOut(l) \/ OAuthEvents(l)
      PROVE  LimitInv'
  BY <1>1, <1>5 DEF storeVars, Calls, EnsureLoggedIn, EnsureLoggedInWithDialog, TypeToken, Stays,
     OnlyLogin, CrossWindowChange, CrossWindowChecked, GetMetadata, ReadRegistration, OpenExternal,
     Authorized, ExchangeToken, FetchUser, TimesOut, OAuthEvents, CancelOAuth, ReceiveCallback,
     Redirected
<1>6. ASSUME NEW l \in Logins, Registered(l) \/ RegistrationSaved(l)
      PROVE  LimitInv'
  <2>1. l \in Writers
    BY DEF FlowAssumption
  <2> QED
    BY <1>0, <1>1, <1>6, <2>1, LimitBegins, LimitReturned
       DEF Registered, RegistrationSaved, StoreRegistration
<1>7. ASSUME NEW w \in Writers, Writing(w)
      PROVE  LimitInv'
  BY <1>0, <1>7, LimitWrites DEF Writing
<1>8. CASE OtherWindow
  <2>1. CASE Forget({Host}) /\ UNCHANGED <<write, unpruned, watchers>>
    BY <2>1, LimitFrame DEF Forget, SetSessions, KnownSafeHostnames
  <2>2. ASSUME NEW h, NEW t, StoreSession("other", h, t)
        PROVE  LimitInv'
    BY <1>0, <2>2, LimitBegins DEF StoreSession, LoginAssumption
  <2> QED
    BY <1>8, <2>1, <2>2 DEF OtherWindow
<1> QED
  BY <1>2, <1>3, <1>4, <1>5, <1>6, <1>7, <1>8 DEF Next, Works, Events, OAuthSteps

-----------------------------------------------------------------------------
(* The invariant. *)

LEMMA InvInit ==
  ASSUME StoreAssumption, FlowAssumption, LoginAssumption, Init
  PROVE  Inv
<1>1. StoreTypeOK
  <2>1. recent = {} /\ Accessed = {}
    BY DEF Init, StoreInit, Accessed
  <2>2. SessionsOK
    BY DEF Init, StoreInit, SessionsOK, Sessions, StoreAssumption
  <2>3. WritesOK /\ WatchersOK
    BY DEF Init, StoreInit, Idle, WritesOK, WriteRecords, WatchersOK, StoreAssumption
  <2> QED
    BY <2>1, <2>2, <2>3, StoreParts DEF RecentOK
<1>2. FlowInv
  BY DEF Init, OAuthInit, FlowInv, FlowsOK, FlowPcs, OwnOutcome
<1>3. Fresh \in Logs
  BY DEF Fresh, Logs, Pcs, Values
<1>4. LoginsOK /\ StoresATokenOrNone
  BY <1>3 DEF Init, Fresh, LoginsOK, StoresATokenOrNone, Results
<1>5. QueueOK
  <2>1. queue = <<>> /\ queue \in Seq(Logins) /\ Len(queue) = 0 /\ watchers = {}
    BY DEF Init, StoreInit
  <2>2. 1..0 = {}
    OBVIOUS
  <2>3. \A l \in Logins : login[l].pc = "idle" /\ checking[l] = {}
    BY DEF Init, Fresh
  <2> QED
    BY <2>1, <2>2, <2>3 DEF QueueOK, InQueue, Begun
<1>6. LimitInv
  <2>1. KnownSafeHostnames \subseteq {Host}
    BY DEF Init, StoreInit, KnownSafeHostnames
  <2>2. KnownSafeHostnames = {} \/ KnownSafeHostnames = {Host}
    BY <2>1
  <2>3. Cardinality(KnownSafeHostnames) \in {0, 1}
    BY <2>2, FS_EmptySet, FS_Singleton
  <2>4. Cardinality(KnownSafeHostnames) <= MaxCount
    BY <2>3 DEF StoreAssumption
  <2> QED
    BY <2>4 DEF LimitInv
<1> QED
  BY <1>1, <1>2, <1>4, <1>5, <1>6 DEF Inv, RunInv

LEMMA InvNext ==
  ASSUME StoreAssumption, FlowAssumption, LoginAssumption, Inv, [Next]_vars
  PROVE  Inv'
BY RunNext, FlowNext, StoreNext, LimitNext DEF Inv

\* Every state the logins of a window reach satisfies the invariant.
THEOREM LoginsInvariant == Spec => []Inv
<1>1. Init => Inv
  BY InvInit, StoreAssumption, FlowAssumption, LoginAssumption
<1>2. Inv /\ [Next]_vars => Inv'
  BY InvNext, StoreAssumption, FlowAssumption, LoginAssumption
<1> QED
  BY <1>1, <1>2, PTL DEF Spec

\* Whatever overlaps, a flow exchanges the code that was issued to it.
THEOREM OwnCodeOnly == Spec => []LoginInvariant
<1>1. Inv => TypeOK
  BY DEF Inv, RunInv, LoginsOK, TypeOK, Logs, Pcs, Results
<1>2. Inv => CodeOfOwnFlow
  BY DEF Inv, FlowInv, OwnOutcome, CodeOfOwnFlow
<1> QED
  BY <1>1, <1>2, LoginsInvariant, PTL DEF LoginInvariant

\* One login of the window is under way at a time, whatever settled the ones
\* before it: it is the head of the queue.
THEOREM LoginsQueue == Spec => []OneLoginAtATime
<1>1. ASSUME Inv
      PROVE  OneLoginAtATime
  <2>1. \A l \in Prompting : queue # <<>> /\ Head(queue) = l
    BY <1>1 DEF Prompting, Inv, RunInv, QueueOK, Begun
  <2>2. Prompting = {} \/ Prompting = {Head(queue)}
    BY <2>1
  <2>3. Cardinality(Prompting) <= 1
    BY <2>2, FS_EmptySet, FS_Singleton
  <2> QED
    BY <2>1, <2>3 DEF OneLoginAtATime
<1> QED
  BY <1>1, LoginsInvariant, PTL
\* Once every write has returned, at most MaxCount sessions are stored, unless
\* a write failed and no other has read the keys since.
THEOREM SessionsStayWithinLimit == Spec => []KeepsWithinLimit
<1>1. Inv => KeepsWithinLimit
  BY DEF Inv, LimitInv, KeepsWithinLimit, Returned
<1> QED
  BY <1>1, LoginsInvariant, PTL
=============================================================================
