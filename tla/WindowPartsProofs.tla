-------------------------- MODULE WindowPartsProofs --------------------------
(* Each part of a window keeps its type and its own invariant: it is proved of *)
(* the part alone, with the inductive invariant that part needs, and holds of  *)
(* the window because a step of it is a step of one part and leaves the others *)
(* alone.                                                                      *)
EXTENDS WindowParts, FiniteSetTheorems, SequenceTheorems, WellFoundedInduction, TLAPS

\* What a step of the window is for each part.
LEMMA PartsAlone ==
  ASSUME [Next]_vars
  PROVE  /\ SshNext \/ UNCHANGED sshVars
         /\ TsNext \/ UNCHANGED tsVars
         /\ TkNext \/ UNCHANGED tkVars
         /\ AnNext \/ UNCHANGED anVars
         /\ ArNext \/ UNCHANGED arVars
         /\ AsNext \/ UNCHANGED asVars
         /\ DwNext \/ UNCHANGED dwVars
         /\ CcNext \/ UNCHANGED ccVars
         /\ CtNext \/ UNCHANGED ctVars
         /\ WmNext \/ UNCHANGED wmVars
         /\ TlNext \/ UNCHANGED tlVars
         /\ ExNext \/ UNCHANGED exVars
BY Zenon DEF Next, vars, OthersRest, Rests

-----------------------------------------------------------------------------
(* SshMonitor. The loop that is not idle is one, or there is none after the    *)
(* monitor was disposed; each step of a loop keeps it, ends it or, when the    *)
(* search hands over to the polling, goes on in its place.                     *)

RunningLoops == {l \in Loops : sshLoop[l].at # "idle"}

SshInv ==
  /\ SshTypeOK
  /\ \A k, l \in RunningLoops : k = l
  /\ ~sshDisposed => RunningLoops # {}

LEMMA LoopRecords ==
  ASSUME NEW a \in {"idle", "find", "stat"} \union AtDelay
  PROVE  LoopAt(a) \in LoopStates /\ LoopAt(a).at = a
BY SshAssumption DEF LoopAt, LoopStates

LEMMA SshInitially == SshInit => SshInv
<1> SUFFICES ASSUME SshInit PROVE SshInv
  OBVIOUS
<1>1. FirstLoop \in Loops
  BY SshAssumption DEF FirstLoop
<1>2. \A l \in Loops : sshLoop[l] = LoopAt(IF l = FirstLoop THEN "find" ELSE "idle")
  BY DEF SshInit
<1>3. SshTypeOK
  <2>1. sshLoop \in [Loops -> LoopStates]
    BY LoopRecords DEF SshInit
  <2> QED
    BY <2>1 DEF SshInit, SshTypeOK
<1>4. RunningLoops = {FirstLoop}
  BY <1>1, <1>2, LoopRecords DEF RunningLoops
<1> QED
  BY <1>3, <1>4 DEF SshInv

\* A loop that runs goes to another await, or ends when the monitor is disposed.
LEMMA LoopMoves ==
  ASSUME SshInv, NEW l \in Loops, sshLoop[l].at # "idle", NEW loop \in LoopStates,
         sshLoop' = [sshLoop EXCEPT ![l] = loop], sshDisposed' = sshDisposed,
         loop.at = "idle" => sshDisposed
  PROVE  /\ sshLoop' \in [Loops -> LoopStates]
         /\ \A j, k \in RunningLoops' : j = k
         /\ ~sshDisposed' => RunningLoops' # {}
<1>1. sshLoop' \in [Loops -> LoopStates]
  BY DEF SshInv, SshTypeOK
<1>2. RunningLoops' \subseteq RunningLoops /\ (loop.at # "idle" => l \in RunningLoops')
  BY DEF SshInv, SshTypeOK, RunningLoops
<1> QED
  BY <1>1, <1>2 DEF SshInv

LEMMA ResumeMoves ==
  ASSUME SshInv, NEW l \in Loops, NEW a \in {"find", "stat", "backoff", "poll"},
         Resume(l, a)
  PROVE  \E loop \in LoopStates :
           /\ sshLoop' = [sshLoop EXCEPT ![l] = loop]
           /\ loop.at = "idle" => sshDisposed
<1> DEFINE loop == [sshLoop[l] EXCEPT !.at = IF sshDisposed THEN "idle" ELSE a]
<1>1. loop \in LoopStates /\ (loop.at = "idle" => sshDisposed)
  BY DEF SshInv, SshTypeOK, LoopStates, AtDelay
<1>2. sshLoop' = [sshLoop EXCEPT ![l] = loop]
  BY DEF Resume
<1> QED
  BY <1>1, <1>2

LEMMA SshStep == SshInv /\ SshNext => SshInv'
<1> SUFFICES ASSUME SshInv, SshNext PROVE SshInv'
  OBVIOUS
<1> USE DEF AtDelay
<1>1. ASSUME NEW l \in Loops, Found(l) PROVE SshInv'
  <2>1. LoopAt("stat") \in LoopStates /\ LoopAt("stat").at = "stat"
    BY LoopRecords
  <2>2. sshLoop' = [sshLoop EXCEPT ![l] = LoopAt("stat")]
    BY <1>1 DEF Found, StartMonitoring
  <2>3. /\ sshLoop' \in [Loops -> LoopStates]
        /\ \A j, k \in RunningLoops' : j = k
        /\ ~sshDisposed' => RunningLoops' # {}
    BY <1>1, <2>1, <2>2, LoopMoves DEF Found
  <2>4. SshTypeOK'
    BY <1>1, <2>3 DEF Found, SetCurrentPid, ProcessSeen, Discovered, SshInv, SshTypeOK
  <2> QED
    BY <2>3, <2>4 DEF SshInv
<1>2. ASSUME NEW l \in Loops, NotFound(l) PROVE SshInv'
  <2>1. /\ sshLoop' \in [Loops -> LoopStates]
        /\ \A j, k \in RunningLoops' : j = k
        /\ ~sshDisposed' => RunningLoops' # {}
    BY <1>2, ResumeMoves, LoopMoves DEF NotFound
  <2>2. SshTypeOK'
    BY <1>2, <2>1 DEF NotFound, SshInv, SshTypeOK
  <2> QED
    BY <2>1, <2>2 DEF SshInv
<1>3. ASSUME NEW l \in Loops, DelayEnds(l) PROVE SshInv'
  <2>1. /\ sshLoop' \in [Loops -> LoopStates]
        /\ \A j, k \in RunningLoops' : j = k
        /\ ~sshDisposed' => RunningLoops' # {}
    BY <1>3, ResumeMoves, LoopMoves DEF DelayEnds
  <2>2. SshTypeOK'
    BY <1>3, <2>1 DEF DelayEnds, SshInv, SshTypeOK
  <2> QED
    BY <2>1, <2>2 DEF SshInv
<1>4. ASSUME NEW l \in Loops, ReadInfo(l) PROVE SshInv'
  <2>1. PICK a \in {"idle", "poll", "throttle", "find"}, n \in 0 .. MaxReadFailures :
          /\ sshLoop' = [sshLoop EXCEPT ![l] = [at |-> a, failures |-> n]]
          /\ a = "idle" => sshDisposed
    <3>1. sshLoop[l].failures \in 0 .. MaxReadFailures
      BY DEF SshInv, SshTypeOK, LoopStates
    <3> DEFINE more == IF sshLoop[l].failures < MaxReadFailures THEN sshLoop[l].failures + 1
                       ELSE MaxReadFailures
               failures == IF sshInfo = "missing" THEN more ELSE 0
               search == SearchReason(failures) /\ ~sshRecent /\ ~sshDisposed
               next == IF ~SearchReason(failures) THEN "poll"
                       ELSE IF sshRecent THEN "throttle" ELSE "find"
               at == IF sshDisposed THEN "idle" ELSE next
               n == IF search THEN 0 ELSE failures
    <3>2. sshLoop' = [sshLoop EXCEPT ![l] = [at |-> at, failures |-> n]]
      BY <1>4 DEF ReadInfo
    <3>3. at \in {"idle", "poll", "throttle", "find"} /\ (at = "idle" => sshDisposed)
      OBVIOUS
    <3>4. n \in 0 .. MaxReadFailures
      BY <3>1, SshAssumption
    <3> QED
      BY <3>2, <3>3, <3>4
  <2>2. [at |-> a, failures |-> n] \in LoopStates
    BY DEF LoopStates
  <2>3. /\ sshLoop' \in [Loops -> LoopStates]
        /\ \A j, k \in RunningLoops' : j = k
        /\ ~sshDisposed' => RunningLoops' # {}
    BY <1>4, <2>1, <2>2, LoopMoves DEF ReadInfo
  <2>4. SshTypeOK'
    BY <1>4, <2>3 DEF ReadInfo, ProcessLost, SshInv, SshTypeOK
  <2> QED
    BY <2>3, <2>4 DEF SshInv
<1>5. ASSUME NEW s \in sshSearches, ReadLogDir(s) \/ LogDelayEnds(s) PROVE SshInv'
  <2>1. s \in [pid: Pids, at: {"read", "delay"}]
    BY DEF SshInv, SshTypeOK
  <2>2. /\ [s EXCEPT !.at = "delay"] \in [pid: Pids, at: {"read", "delay"}]
        /\ [s EXCEPT !.at = "read"] \in [pid: Pids, at: {"read", "delay"}]
    BY <2>1
  <2>3. SshTypeOK'
    BY <1>5, <2>1, <2>2 DEF ReadLogDir, LogDelayEnds, SshInv, SshTypeOK
  <2> QED
    BY <1>5, <2>3 DEF ReadLogDir, LogDelayEnds, SshInv, RunningLoops
<1>6. CASE SshDispose
  <2>1. LoopAt("idle") \in LoopStates /\ LoopAt("idle").at = "idle"
    BY LoopRecords
  <2>2. sshLoop' \in [Loops -> LoopStates] /\ RunningLoops' \subseteq RunningLoops
    BY <1>6, <2>1 DEF SshDispose, SshInv, SshTypeOK, RunningLoops
  <2>3. SshTypeOK'
    BY <1>6, <2>2 DEF SshDispose, SshInv, SshTypeOK
  <2> QED
    BY <1>6, <2>2, <2>3 DEF SshDispose, SshInv
<1>7. CASE ThresholdPasses \/ ProcessChanges \/ InfoChanges
  BY <1>7 DEF ThresholdPasses, ProcessChanges, InfoChanges, SshInv, SshTypeOK, RunningLoops
<1> QED
  BY <1>1, <1>2, <1>3, <1>4, <1>5, <1>6, <1>7 DEF SshNext

LEMMA SshRests == SshInv /\ UNCHANGED sshVars => SshInv'
BY DEF SshInv, sshVars, SshTypeOK, RunningLoops

THEOREM SshInvariant == Spec => []SshInv
<1>1. Init => SshInv
  BY SshInitially DEF Init
<1>2. SshInv /\ [Next]_vars => SshInv'
  BY PartsAlone, SshStep, SshRests
<1> QED
  BY <1>1, <1>2, PTL DEF Spec

LEMMA OneLoop == SshInv => OneMonitorLoop
<1> SUFFICES ASSUME SshInv PROVE OneMonitorLoop
  OBVIOUS
<1>1. CASE RunningLoops = {}
  BY <1>1, FS_EmptySet DEF OneMonitorLoop, RunningLoops, SshInv
<1>2. ASSUME NEW l \in RunningLoops PROVE OneMonitorLoop
  <2>1. RunningLoops = {l}
    BY <1>2 DEF SshInv
  <2>2. Cardinality(RunningLoops) = 1
    BY <2>1, FS_Singleton
  <2> QED
    BY <2>2 DEF OneMonitorLoop, RunningLoops
<1> QED
  BY <1>1, <1>2

(* Until it is disposed the monitor of the SSH process runs exactly one loop,  *)
(* searching or polling (SshProcessMonitor.searchForProcess, monitorNetwork).  *)
THEOREM MonitorRunsOneLoop == Spec => []OneMonitorLoop
BY SshInvariant, OneLoop, PTL

-----------------------------------------------------------------------------
(* ApiRequests. A request recovers for a host, so that a login that one of     *)
(* them starts is a login for a host; and those who wait for it are the        *)
(* requests at its await.                                                      *)

CallRecords == [at: {"idle", "sent", "certificate"} \union Recovering,
                tries: Tries, changed: BOOLEAN, for: Servers \union {NoServer}]

ArInv ==
  /\ ApiRequestsTypeOK
  /\ \A c \in Calls : arCalls[c].at \in {"oauth", "refresh"} => arCalls[c].for \in Servers
  /\ OneLoginForAll

LEMMA ArInitially == ArInit => ArInv
<1> SUFFICES ASSUME ArInit PROVE ArInv
  OBVIOUS
<1>1. NoCall \in CallRecords /\ NoCall.at = "idle"
  BY DEF NoCall, CallRecords, Tries
<1>2. Cardinality(Calls) \in Nat
  BY RequestsAssumption, FS_CardinalityType
<1>3. ApiRequestsTypeOK
  BY <1>1, <1>2 DEF ArInit, ApiRequestsTypeOK, CallRecords
<1> QED
  BY <1>1, <1>3 DEF ArInit, ArInv, OneLoginForAll

LEMMA SomeCallCounts == \A c \in Calls : 1 \in 0 .. Cardinality(Calls)
<1> SUFFICES ASSUME NEW c \in Calls PROVE 1 \in 0 .. Cardinality(Calls)
  OBVIOUS
<1>1. Cardinality({c}) = 1 /\ IsFiniteSet({c})
  BY FS_Singleton
<1>2. Cardinality({c}) <= Cardinality(Calls)
  BY RequestsAssumption, FS_Subset
<1>3. Cardinality(Calls) \in Nat
  BY RequestsAssumption, FS_CardinalityType
<1> QED
  BY <1>1, <1>2, <1>3

\* One request goes to another await and no login begins or ends.
LEMMA CallMoves ==
  ASSUME ArInv, NEW c \in Calls, NEW call \in CallRecords,
         arCalls' = [arCalls EXCEPT ![c] = call],
         arCalls[c].at # "login", call.at # "login",
         call.at \in {"oauth", "refresh"} => call.for \in Servers,
         arHost' \in Servers \union {NoServer}, arToken' \in Servers \union {NoServer},
         UNCHANGED <<arLogin, arPrompts>>
  PROVE  ArInv'
<1>1. ApiRequestsTypeOK'
  BY DEF ArInv, ApiRequestsTypeOK, CallRecords
<1>2. \A d \in Calls : (arCalls'[d].at = "login") <=> (arCalls[d].at = "login")
  BY DEF ArInv, ApiRequestsTypeOK
<1>3. OneLoginForAll'
  BY <1>2 DEF ArInv, OneLoginForAll
<1>4. \A d \in Calls : arCalls'[d].at \in {"oauth", "refresh"} => arCalls'[d].for \in Servers
  BY DEF ArInv, ApiRequestsTypeOK
<1> QED
  BY <1>1, <1>3, <1>4 DEF ArInv

\* The ways of the code to move a request.
LEMMA MoveIs ==
  ASSUME ArInv, NEW c \in Calls, NEW at \in {"sent", "certificate", "refresh", "login"},
         Move(c, at)
  PROVE  \E call \in CallRecords :
           arCalls' = [arCalls EXCEPT ![c] = call] /\ call.at = at /\ call.for = arCalls[c].for
<1> DEFINE call == [arCalls[c] EXCEPT !.at = at]
<1>1. arCalls[c] \in CallRecords
  BY DEF ArInv, ApiRequestsTypeOK, CallRecords
<1>2. call \in CallRecords /\ call.at = at /\ call.for = arCalls[c].for
  BY <1>1 DEF CallRecords, Recovering
<1>3. arCalls' = [arCalls EXCEPT ![c] = call]
  BY DEF Move
<1> QED
  BY <1>2, <1>3

LEMMA EndIs ==
  ASSUME NEW c \in Calls, End(c)
  PROVE  \E call \in CallRecords : arCalls' = [arCalls EXCEPT ![c] = call] /\ call.at = "idle"
<1>1. NoCall \in CallRecords /\ NoCall.at = "idle"
  BY DEF NoCall, CallRecords, Tries
<1> QED
  BY <1>1 DEF End

LEMMA RetryIs ==
  ASSUME ArInv, NEW c \in Calls, NEW why \in {"settings", "certificate", "token"}, Retry(c, why)
  PROVE  \E call \in CallRecords : arCalls' = [arCalls EXCEPT ![c] = call] /\ call.at = "sent"
<1> DEFINE call == [at |-> "sent", tries |-> Tried(arCalls[c], why), changed |-> FALSE,
                    for |-> NoServer]
<1>1. arCalls[c].tries \in Tries
  BY DEF ArInv, ApiRequestsTypeOK
<1>2. call \in CallRecords /\ call.at = "sent"
  BY <1>1 DEF CallRecords, Tries, Tried
<1>3. arCalls' = [arCalls EXCEPT ![c] = call]
  BY DEF Retry
<1> QED
  BY <1>2, <1>3

\* A request that asks for a login starts one, or joins the one that runs.
LEMMA AsksForLogin ==
  ASSUME ArInv, NEW c \in Calls, arCalls[c].at \in {"oauth", "refresh"},
         ExecuteAuthRequired(c), UNCHANGED <<arHost, arToken>>
  PROVE  ArInv'
<1>1. PICK call \in CallRecords : arCalls' = [arCalls EXCEPT ![c] = call] /\ call.at = "login"
  BY MoveIs DEF ExecuteAuthRequired
<1>2. arCalls' \in [Calls -> CallRecords] /\ arCalls'[c].at = "login"
  BY <1>1 DEF ArInv, ApiRequestsTypeOK, CallRecords
<1>3. arLogin' \in Servers /\ arPrompts' = 1
  BY RequestsAssumption DEF ExecuteAuthRequired, MustPrompt, ArInv, ApiRequestsTypeOK, OneLoginForAll
<1>4. ApiRequestsTypeOK'
  BY <1>2, <1>3, SomeCallCounts DEF ArInv, ApiRequestsTypeOK, CallRecords
<1>5. OneLoginForAll'
  BY <1>2, <1>3, RequestsAssumption DEF OneLoginForAll
<1>6. \A d \in Calls : arCalls'[d].at \in {"oauth", "refresh"} => arCalls'[d].for \in Servers
  BY <1>1 DEF ArInv, ApiRequestsTypeOK
<1> QED
  BY <1>4, <1>5, <1>6 DEF ArInv

LEMMA ArStep == ArInv /\ ArNext => ArInv'
<1> SUFFICES ASSUME ArInv, ArNext PROVE ArInv'
  OBVIOUS
<1>0. /\ arHost \in Servers \union {NoServer} /\ arToken \in Servers \union {NoServer}
      /\ arCalls \in [Calls -> CallRecords]
  BY DEF ArInv, ApiRequestsTypeOK, CallRecords
<1>1. ASSUME NEW h \in Servers \union {NoServer}, SetCredentials(h) PROVE ArInv'
  BY <1>1 DEF SetCredentials, ArInv, ApiRequestsTypeOK, OneLoginForAll
<1>2. ASSUME NEW c \in Calls, Send(c) PROVE ArInv'
  <2>1. arCalls[c].at = "idle"
    BY <1>2 DEF Send, NoCall
  <2>2. PICK call \in CallRecords : arCalls' = [arCalls EXCEPT ![c] = call] /\ call.at = "sent"
    BY <1>2, MoveIs DEF Send
  <2> QED
    BY <1>0, <1>2, <2>1, <2>2, CallMoves DEF Send
<1>3. ASSUME NEW c \in Calls, Answered(c) PROVE ArInv'
  BY <1>0, <1>3, EndIs, CallMoves DEF Answered
<1>4. ASSUME NEW c \in Calls, CertificateError(c) PROVE ArInv'
  <2>1. End(c) \/ Move(c, "certificate")
    BY <1>4 DEF CertificateError
  <2>2. arCalls[c].at # "login" /\ UNCHANGED <<arHost, arToken, arLogin, arPrompts>>
    BY <1>4 DEF CertificateError
  <2> QED
    BY <1>0, <2>1, <2>2, EndIs, MoveIs, CallMoves
<1>5. ASSUME NEW c \in Calls, CertificateRefreshed(c) PROVE ArInv'
  <2>1. End(c) \/ Retry(c, "certificate")
    BY <1>5 DEF CertificateRefreshed
  <2>2. arCalls[c].at # "login" /\ UNCHANGED <<arHost, arToken, arLogin, arPrompts>>
    BY <1>5 DEF CertificateRefreshed
  <2> QED
    BY <1>0, <2>1, <2>2, EndIs, RetryIs, CallMoves
<1>6. ASSUME NEW c \in Calls, Unauthorized(c) PROVE ArInv'
  <2> DEFINE call == [arCalls[c] EXCEPT !.at = "oauth", !.changed = FALSE, !.for = arHost]
  <2>1. \/ End(c) \/ Retry(c, "settings")
        \/ arHost # NoServer /\ arCalls' = [arCalls EXCEPT ![c] = call]
    BY <1>6 DEF Unauthorized
  <2>2. arCalls[c].at # "login" /\ UNCHANGED <<arHost, arToken, arLogin, arPrompts>>
    BY <1>6 DEF Unauthorized
  <2>3. CASE End(c) \/ Retry(c, "settings")
    BY <1>0, <2>2, <2>3, EndIs, RetryIs, CallMoves
  <2>4. CASE arHost # NoServer /\ arCalls' = [arCalls EXCEPT ![c] = call]
    <3>1. call \in CallRecords /\ call.at = "oauth" /\ call.for \in Servers
      BY <1>0, <2>4 DEF CallRecords, Recovering
    <3> HIDE DEF call
    <3> QED
      BY <1>0, <2>2, <2>4, <3>1, CallMoves
  <2> QED
    BY <2>1, <2>3, <2>4
<1>7. ASSUME NEW c \in Calls, OAuthChecked(c) PROVE ArInv'
  <2>1. arCalls[c].at = "oauth" /\ UNCHANGED <<arHost, arToken>>
    BY <1>7 DEF OAuthChecked
  <2>2. CASE Move(c, "refresh") /\ UNCHANGED <<arLogin, arPrompts>>
    <3>1. PICK call \in CallRecords :
            /\ arCalls' = [arCalls EXCEPT ![c] = call]
            /\ call.at = "refresh" /\ call.for = arCalls[c].for
      BY <2>2, MoveIs
    <3>2. call.for \in Servers
      BY <2>1, <3>1 DEF ArInv
    <3> QED
      BY <1>0, <2>1, <2>2, <3>1, <3>2, CallMoves
  <2>3. CASE ExecuteAuthRequired(c)
    BY <2>1, <2>3, AsksForLogin
  <2>4. CASE Reject(c)
    BY <1>0, <2>1, <2>4, EndIs, CallMoves DEF Reject
  <2> QED
    BY <1>7, <2>2, <2>3, <2>4 DEF OAuthChecked
<1>8. ASSUME NEW c \in Calls, Refreshed(c) PROVE ArInv'
  <2>1. arCalls[c].at = "refresh" /\ UNCHANGED arHost /\ arCalls[c].for \in Servers
    BY <1>8 DEF Refreshed, ArInv
  <2>2. CASE Retry(c, "token") /\ arToken' = arCalls[c].for /\ UNCHANGED <<arLogin, arPrompts>>
    BY <1>0, <2>1, <2>2, RetryIs, CallMoves
  <2>3. CASE ExecuteAuthRequired(c) /\ UNCHANGED arToken
    BY <2>1, <2>3, AsksForLogin
  <2>4. CASE Reject(c) /\ UNCHANGED arToken
    BY <1>0, <2>1, <2>4, EndIs, CallMoves DEF Reject
  <2> QED
    BY <1>8, <2>2, <2>3, <2>4 DEF Refreshed
<1>9. ASSUME NEW c \in Calls, AuthRead(c) PROVE ArInv'
  <2>1. End(c) \/ Retry(c, "token")
    BY <1>9 DEF AuthRead
  <2>2. arCalls[c].at # "login" /\ UNCHANGED <<arHost, arToken, arLogin, arPrompts>>
    BY <1>9 DEF AuthRead
  <2> QED
    BY <1>0, <2>1, <2>2, EndIs, RetryIs, CallMoves
<1>10. CASE AuthConfigChanges
  <2>1. \A c \in Calls : [arCalls[c] EXCEPT !.changed = TRUE] \in CallRecords
    BY <1>0 DEF CallRecords
  <2>2. arCalls' \in [Calls -> CallRecords]
    BY <1>0, <1>10, <2>1 DEF AuthConfigChanges
  <2>3. \A c \in Calls : arCalls'[c].at = arCalls[c].at /\ arCalls'[c].for = arCalls[c].for
    BY <1>0, <1>10 DEF AuthConfigChanges, CallRecords
  <2>4. ApiRequestsTypeOK'
    BY <1>10, <2>2 DEF AuthConfigChanges, ArInv, ApiRequestsTypeOK, CallRecords
  <2>5. OneLoginForAll'
    BY <1>10, <2>3 DEF AuthConfigChanges, ArInv, OneLoginForAll
  <2> QED
    BY <2>3, <2>4, <2>5 DEF ArInv
<1>11. CASE LoginEnds
  <2>1. PICK at \in {"stored", "idle"} :
          arCalls' = [c \in Calls |-> IF arCalls[c].at # "login" THEN arCalls[c]
                                      ELSE IF at = "idle" THEN NoCall
                                      ELSE [arCalls[c] EXCEPT !.at = at]]
    BY <1>11 DEF LoginEnds
  <2>2. arLogin' = NoServer /\ arPrompts' = 0
    BY <1>11 DEF LoginEnds, ArInv, OneLoginForAll
  <2>3. \A c \in Calls : [arCalls[c] EXCEPT !.at = at] \in CallRecords
    BY <1>0 DEF CallRecords, Recovering
  <2>4. NoCall \in CallRecords /\ NoCall.at = "idle"
    BY DEF NoCall, CallRecords, Tries
  <2>5. arCalls' \in [Calls -> CallRecords]
    BY <1>0, <2>1, <2>3, <2>4
  <2>6. \A c \in Calls : \/ arCalls'[c] = arCalls[c] /\ arCalls[c].at # "login"
                         \/ arCalls'[c].at \in {"stored", "idle"}
    BY <1>0, <2>1, <2>4 DEF CallRecords
  <2>7. 0 \in 0 .. Cardinality(Calls)
    BY RequestsAssumption, FS_CardinalityType
  <2>8. ApiRequestsTypeOK'
    BY <1>0, <1>11, <2>2, <2>5, <2>7 DEF LoginEnds, ApiRequestsTypeOK, CallRecords
  <2>9. OneLoginForAll'
    BY <2>2, <2>6 DEF OneLoginForAll
  <2> QED
    BY <2>6, <2>8, <2>9 DEF ArInv
<1> QED
  BY <1>1, <1>2, <1>3, <1>4, <1>5, <1>6, <1>7, <1>8, <1>9, <1>10, <1>11 DEF ArNext, ArProceeds

LEMMA ArRests == ArInv /\ UNCHANGED arVars => ArInv'
BY DEF ArInv, arVars, ApiRequestsTypeOK, OneLoginForAll

THEOREM ArInvariant == Spec => []ArInv
<1>1. Init => ArInv
  BY ArInitially DEF Init
<1>2. ArInv /\ [Next]_vars => ArInv'
  BY PartsAlone, ArStep, ArRests
<1> QED
  BY <1>1, <1>2, PTL DEF Spec

(* Requests refused together prompt the user once: a login is in progress      *)
(* exactly while some request waits for it (AuthInterceptor.executeAuthRequired). *)
THEOREM RefusedRequestsShareALogin == Spec => []OneLoginForAll
<1>1. ArInv => OneLoginForAll
  BY DEF ArInv
<1> QED
  BY <1>1, ArInvariant, PTL

-----------------------------------------------------------------------------
(* Announcements. The timer that is armed is the one whose handle is kept, and *)
(* it is armed for a session only: so the fetch that it begins is one of the   *)
(* session, and none that can still be applied is left when the session ends.  *)

RefreshRecords == [kind: {"none", "notify", "manual"}, site: Sites \union {NoSite},
                   current: BOOLEAN]

AnInv ==
  /\ AnnouncementsTypeOK
  /\ AnnouncementsGoOn
  /\ anTimer => anSession # NoSite /\ ~anDisposed
  /\ anSession = NoSite => \A r \in Refreshes : ~anRefresh[r].current

LEMMA TimersFit == 0 \in 0 .. Cardinality(Refreshes) + 1 /\ 1 \in 0 .. Cardinality(Refreshes) + 1
BY SitesAssumption, FS_CardinalityType

LEMMA NoRefreshType == NoRefresh \in RefreshRecords /\ NoRefresh.current = FALSE /\ NoRefresh.kind = "none"
BY DEF NoRefresh, RefreshRecords

LEMMA AnInitially == AnInit => AnInv
<1> SUFFICES ASSUME AnInit PROVE AnInv
  OBVIOUS
<1>1. anRefresh \in [Refreshes -> RefreshRecords] /\ \A r \in Refreshes : ~anRefresh[r].current
  BY NoRefreshType DEF AnInit
<1> QED
  BY <1>1, TimersFit DEF AnInit, AnInv, AnnouncementsTypeOK, AnnouncementsGoOn, RefreshRecords

\* A fetch begins; whoever is under way stays under way and is superseded.
LEMMA FetchBegins ==
  ASSUME AnInv, NEW r \in Refreshes, NEW kind \in {"notify", "manual"},
         NEW s \in Sites \union {NoSite}, Begin(r, kind, s)
  PROVE  anRefresh' \in [Refreshes -> RefreshRecords] /\ r \in Busy'
<1>1. anRefresh \in [Refreshes -> RefreshRecords]
  BY DEF AnInv, AnnouncementsTypeOK, RefreshRecords
<1>2. \A i \in Refreshes : [anRefresh[i] EXCEPT !.current = FALSE] \in RefreshRecords
  BY <1>1 DEF RefreshRecords
<1>3. [kind |-> kind, site |-> s, current |-> TRUE] \in RefreshRecords
  BY DEF RefreshRecords
<1>4. anRefresh' \in [Refreshes -> RefreshRecords]
  BY <1>1, <1>2, <1>3 DEF Begin
<1>5. anRefresh'[r] = [kind |-> kind, site |-> s, current |-> TRUE]
  BY DEF Begin
<1> QED
  BY <1>4, <1>5 DEF Busy, NoRefresh

\* A fetch ends: what it leaves is superseded, and the next one is scheduled.
LEMMA FetchEnds ==
  ASSUME AnInv, NEW r \in Refreshes, anRefresh' = [anRefresh EXCEPT ![r] = NoRefresh],
         ScheduleRefresh, UNCHANGED <<anSession, anDisposed>>
  PROVE  /\ anRefresh' \in [Refreshes -> RefreshRecords]
         /\ anTimer' \in BOOLEAN /\ anTimers' = (IF anTimer' THEN 1 ELSE 0)
         /\ anTimers' \in 0 .. Cardinality(Refreshes) + 1
         /\ anSession' # NoSite /\ ~anDisposed' => anTimer'
         /\ anTimer' => anSession' # NoSite /\ ~anDisposed'
         /\ anSession' = NoSite => \A i \in Refreshes : ~anRefresh'[i].current
<1>1. anRefresh \in [Refreshes -> RefreshRecords]
  BY DEF AnInv, AnnouncementsTypeOK, RefreshRecords
<1>2. /\ anTimer' \in BOOLEAN /\ anTimers' = (IF anTimer' THEN 1 ELSE 0)
      /\ anSession' # NoSite /\ ~anDisposed' => anTimer'
      /\ anTimer' => anSession' # NoSite /\ ~anDisposed'
  <2>1. /\ anTimer \in BOOLEAN /\ anTimers = (IF anTimer THEN 1 ELSE 0)
        /\ anTimer => anSession # NoSite /\ ~anDisposed
    BY DEF AnInv, AnnouncementsGoOn, AnnouncementsTypeOK
  <2>2. MayArm \in BOOLEAN /\ (MayArm => ~anTimer)
    BY DEF MayArm
  <2>3. CASE MayArm
    <3>1. anTimer' = TRUE
      BY <2>3, Zenon DEF ScheduleRefresh
    <3>2. anTimers' = 1
      BY <2>1, <2>2, <2>3 DEF ScheduleRefresh
    <3>3. anSession # NoSite /\ ~anDisposed
      BY <2>3 DEF MayArm
    <3> QED
      BY <3>1, <3>2, <3>3, Zenon
  <2>4. CASE ~MayArm
    <3>1. anTimer' = anTimer /\ anTimers' = anTimers
      BY <2>1, <2>4, Zenon DEF ScheduleRefresh
    <3>2. anSession # NoSite /\ ~anDisposed => anTimer
      BY <2>4 DEF MayArm
    <3> QED
      BY <2>1, <3>1, <3>2, Zenon
  <2> QED
    BY <2>3, <2>4
<1>3. anRefresh' \in [Refreshes -> RefreshRecords]
  BY <1>1, NoRefreshType
<1>4. \A i \in Refreshes : anRefresh'[i].current => anRefresh[i].current
  BY <1>1, NoRefreshType
<1> QED
  BY <1>2, <1>3, <1>4, TimersFit DEF AnInv

LEMMA SurfaceType ==
  ASSUME AnInv, NEW b \in Sites, anSession # NoSite, Surface(b)
  PROVE  anSurfaced' \subseteq Sites \X Sites
BY DEF AnInv, AnnouncementsTypeOK, Surface, AddSurfacedBanners

LEMMA Cancelled ==
  ASSUME AnInv, CancelRefresh
  PROVE  anTimer' = FALSE /\ anTimers' = 0
BY DEF AnInv, AnnouncementsGoOn, CancelRefresh, AnnouncementsTypeOK

LEMMA AnStep == AnInv /\ AnNext => AnInv'
<1> SUFFICES ASSUME AnInv, AnNext PROVE AnInv'
  OBVIOUS
<1>0. anRefresh \in [Refreshes -> RefreshRecords]
  BY DEF AnInv, AnnouncementsTypeOK, RefreshRecords
<1>1. ASSUME NEW s \in Sites \union {NoSite}, SessionChanges(s) PROVE AnInv'
  <2>1. anTimer' = FALSE /\ anTimers' = 0 /\ anSession' = s
    BY <1>1, Cancelled DEF SessionChanges
  <2>2. CASE s = NoSite
    <3>1. \A r \in Refreshes : [anRefresh[r] EXCEPT !.current = FALSE] \in RefreshRecords
      BY <1>0 DEF RefreshRecords
    <3>2. anRefresh' \in [Refreshes -> RefreshRecords]
      BY <1>1, <2>2, <3>1 DEF SessionChanges
    <3>3. \A r \in Refreshes : ~anRefresh'[r].current
      BY <1>0, <1>1, <2>2 DEF SessionChanges, RefreshRecords
    <3> QED
      BY <1>1, <2>1, <2>2, <3>2, <3>3, TimersFit
      DEF SessionChanges, AnInv, AnnouncementsTypeOK, AnnouncementsGoOn, RefreshRecords
  <2>3. CASE s # NoSite
    <3>1. PICK r \in Refreshes : Begin(r, "notify", s)
      BY <1>1, <2>3 DEF SessionChanges
    <3>2. anRefresh' \in [Refreshes -> RefreshRecords] /\ r \in Busy'
      BY <3>1, FetchBegins
    <3> QED
      BY <1>1, <2>1, <2>3, <3>2, TimersFit
      DEF SessionChanges, AnInv, AnnouncementsTypeOK, AnnouncementsGoOn, RefreshRecords
  <2> QED
    BY <2>2, <2>3
<1>2. CASE TimerFires
  <2>1. anTimer /\ anTimers' = 0 /\ anTimer' = FALSE /\ anSession # NoSite
    BY <1>2 DEF TimerFires, AnInv, AnnouncementsTypeOK, AnnouncementsGoOn
  <2>2. PICK r \in Refreshes : Begin(r, "notify", anSession)
    BY <1>2 DEF TimerFires
  <2>3. anRefresh' \in [Refreshes -> RefreshRecords] /\ r \in Busy'
    BY <2>2, FetchBegins DEF AnInv, AnnouncementsTypeOK
  <2> QED
    BY <1>2, <2>1, <2>3, TimersFit
    DEF TimerFires, AnInv, AnnouncementsTypeOK, AnnouncementsGoOn, RefreshRecords
<1>3. CASE ShowAnnouncements
  <2>1. anTimer' = FALSE /\ anTimers' = 0
    BY <1>3, Cancelled DEF ShowAnnouncements
  <2>2. CASE anSession = NoSite
    BY <1>3, <2>1, <2>2, TimersFit
    DEF ShowAnnouncements, AnInv, AnnouncementsTypeOK, AnnouncementsGoOn, Busy
  <2>3. CASE anSession # NoSite
    <3>1. PICK r \in Refreshes : Begin(r, "manual", anSession)
      BY <1>3, <2>3 DEF ShowAnnouncements
    <3>2. anRefresh' \in [Refreshes -> RefreshRecords] /\ r \in Busy'
      BY <3>1, FetchBegins DEF AnInv, AnnouncementsTypeOK
    <3> QED
      BY <1>3, <2>1, <2>3, <3>2, TimersFit
      DEF ShowAnnouncements, AnInv, AnnouncementsTypeOK, AnnouncementsGoOn, RefreshRecords
  <2> QED
    BY <2>2, <2>3
<1>4. ASSUME NEW r \in Refreshes, FetchAnswers(r) PROVE AnInv'
  <2> DEFINE shown == IF Applies(r) THEN Announced(anRefresh[r].site) ELSE anBanners
  <2>1. /\ anRefresh' \in [Refreshes -> RefreshRecords]
        /\ anTimer' \in BOOLEAN /\ anTimers' = (IF anTimer' THEN 1 ELSE 0)
        /\ anTimers' \in 0 .. Cardinality(Refreshes) + 1
        /\ anSession' # NoSite /\ ~anDisposed' => anTimer'
        /\ anTimer' => anSession' # NoSite /\ ~anDisposed'
        /\ anSession' = NoSite => \A i \in Refreshes : ~anRefresh'[i].current
    BY <1>4, FetchEnds DEF FetchAnswers
  <2>2. anBanners' = shown /\ shown \in Sites \union {NoSite}
    BY <1>4 DEF FetchAnswers, Announced, AnInv, AnnouncementsTypeOK
  <2>3. anSession = NoSite \/ anDisposed => shown = NoSite
    BY DEF Applies, AnInv, AnnouncementsGoOn
  <2>4. \/ anSurfaced' = anSurfaced
        \/ Surface(shown) /\ shown # NoSite /\ anSession # NoSite
    <3>1. Applies(r) => anSession # NoSite
      BY DEF Applies, AnInv
    <3> QED
      BY <1>4, <3>1 DEF FetchAnswers
  <2> HIDE DEF shown
  <2>5. anSurfaced' \subseteq Sites \X Sites
    BY <2>2, <2>4, SurfaceType DEF AnInv, AnnouncementsTypeOK
  <2> QED
    BY <1>4, <2>1, <2>2, <2>3, <2>5
    DEF FetchAnswers, AnInv, AnnouncementsTypeOK, AnnouncementsGoOn, RefreshRecords
<1>5. ASSUME NEW r \in Refreshes, FetchFails(r) PROVE AnInv'
  <2>1. /\ anRefresh' \in [Refreshes -> RefreshRecords]
        /\ anTimer' \in BOOLEAN /\ anTimers' = (IF anTimer' THEN 1 ELSE 0)
        /\ anTimers' \in 0 .. Cardinality(Refreshes) + 1
        /\ anSession' # NoSite /\ ~anDisposed' => anTimer'
        /\ anTimer' => anSession' # NoSite /\ ~anDisposed'
        /\ anSession' = NoSite => \A i \in Refreshes : ~anRefresh'[i].current
    BY <1>5, FetchEnds DEF FetchFails
  <2>2. anSurfaced' \subseteq Sites \X Sites
    BY <1>5, SurfaceType DEF FetchFails, AnInv, AnnouncementsTypeOK
  <2> QED
    BY <1>5, <2>1, <2>2
    DEF FetchFails, AnInv, AnnouncementsTypeOK, AnnouncementsGoOn, RefreshRecords
<1>6. CASE ViewPopup
  <2>1. anSurfaced' \subseteq Sites \X Sites
    BY <1>6, SurfaceType DEF ViewPopup, AnInv, AnnouncementsTypeOK
  <2> QED
    BY <1>6, <2>1 DEF ViewPopup, AnInv, AnnouncementsTypeOK, AnnouncementsGoOn, Busy
<1>7. CASE AnDispose
  <2>1. anTimer' = FALSE /\ anTimers' = 0
    BY <1>7, Cancelled DEF AnDispose
  <2> QED
    BY <1>7, <2>1, TimersFit DEF AnDispose, AnInv, AnnouncementsTypeOK, AnnouncementsGoOn
<1>8. ASSUME NEW s \in Sites, NewsChange(s) PROVE AnInv'
  BY <1>8 DEF NewsChange, AnInv, AnnouncementsTypeOK, AnnouncementsGoOn, Busy
<1>9. CASE SettingChanges
  BY <1>9 DEF SettingChanges, AnInv, AnnouncementsTypeOK, AnnouncementsGoOn, Busy
<1> QED
  BY <1>1, <1>2, <1>3, <1>4, <1>5, <1>6, <1>7, <1>8, <1>9 DEF AnNext

LEMMA AnRests == AnInv /\ UNCHANGED anVars => AnInv'
BY DEF AnInv, anVars, AnnouncementsTypeOK, AnnouncementsGoOn, Busy

THEOREM AnInvariant == Spec => []AnInv
<1>1. Init => AnInv
  BY AnInitially DEF Init
<1>2. AnInv /\ [Next]_vars => AnInv'
  BY PartsAlone, AnStep, AnRests
<1> QED
  BY <1>1, <1>2, PTL DEF Spec

(* While a user is signed in the next fetch of the announcements is under way  *)
(* or scheduled, by the one timer whose handle is kept, and without a session  *)
(* no banner is shown (AnnouncementManager.refresh, scheduleRefresh).          *)
THEOREM AnnouncementsNeverStop == Spec => []AnnouncementsGoOn
<1>1. AnInv => AnnouncementsGoOn
  BY DEF AnInv
<1> QED
  BY <1>1, AnInvariant, PTL

-----------------------------------------------------------------------------
(* DuplicateWorkspace. What the slots hold stays true of its sender and of the *)
(* window it names, however late it is read: an opener keeps what it wants, a  *)
(* window keeps the workspace it is connected to, and what an opener did with  *)
(* the user's answer is not taken back.                                        *)

RequestIsMeant ==
  /\ dwRequest.type = "ping" =>
       /\ dwOpeners[dwRequest.from].at # "idle"
       /\ dwOpeners[dwRequest.from].wants = dwRequest.to
  /\ dwRequest.type = "duplicate" =>
       /\ dwHas[dwRequest.to] # NoAuthority
       /\ dwOpeners[dwRequest.from] =
            [at |-> "done", wants |-> dwHas[dwRequest.to], window |-> dwRequest.to]

ResponseIsTrue ==
  dwResponse.type = "pong" =>
    /\ dwHas[dwResponse.from] # NoAuthority
    /\ dwOpeners[dwResponse.to].at # "idle"
    /\ dwOpeners[dwResponse.to].wants = dwHas[dwResponse.from]

PromptIsTrue ==
  \A o \in Openers : dwOpeners[o].at = "prompt" =>
    /\ dwOpeners[o].window \in Connected
    /\ dwHas[dwOpeners[o].window] # NoAuthority
    /\ dwOpeners[o].wants = dwHas[dwOpeners[o].window]

DuplicatesWereAsked ==
  \A w \in dwDuplicated :
    /\ dwHas[w] # NoAuthority
    /\ \E o \in Openers : dwOpeners[o] = [at |-> "done", wants |-> dwHas[w], window |-> w]

DwInv ==
  /\ DuplicateTypeOK
  /\ RequestIsMeant
  /\ ResponseIsTrue
  /\ PromptIsTrue
  /\ DuplicatesWereAsked

OpenerRecords == [at: {"idle", "waiting", "prompt", "done"},
                  wants: Authorities \union {NoAuthority}, window: Connected \union {Nobody}]

LEMMA SlotTypes ==
  ASSUME DuplicateTypeOK
  PROVE  /\ dwRequest.type = "ping" => dwRequest.from \in Openers /\ dwRequest.to \in Authorities
         /\ dwRequest.type = "duplicate" => dwRequest.from \in Openers /\ dwRequest.to \in Connected
         /\ dwResponse.type = "pong" => dwResponse.from \in Connected /\ dwResponse.to \in Openers
         /\ dwOpeners \in [Openers -> OpenerRecords]
BY DEF DuplicateTypeOK, Empty, Messages, OpenerRecords

LEMMA DwInitially == DwInit => DwInv
<1> SUFFICES ASSUME DwInit PROVE DwInv
  OBVIOUS
<1>1. DuplicateTypeOK
  BY WindowsAssumption DEF DwInit, DuplicateTypeOK, Nobody
<1> QED
  BY <1>1 DEF DwInit, DwInv, RequestIsMeant, ResponseIsTrue, PromptIsTrue, DuplicatesWereAsked, Empty

\* An opener keeps what it wants and what it has done, a window its workspace.
OpenersGoOn ==
  /\ \A o \in Openers :
       /\ dwOpeners[o].at # "idle" =>
            dwOpeners'[o].at # "idle" /\ dwOpeners'[o].wants = dwOpeners[o].wants
       /\ dwOpeners[o].at = "done" => dwOpeners'[o] = dwOpeners[o]
  /\ \A w \in Connected : dwHas[w] # NoAuthority => dwHas'[w] = dwHas[w]

LEMMA WhatWasSaidStays ==
  ASSUME DwInv, OpenersGoOn
  PROVE  /\ dwRequest' = dwRequest => RequestIsMeant'
         /\ dwResponse' = dwResponse => ResponseIsTrue'
         /\ dwDuplicated' = dwDuplicated => DuplicatesWereAsked'
<1>1. dwRequest' = dwRequest => RequestIsMeant'
  BY SlotTypes DEF DwInv, OpenersGoOn, RequestIsMeant
<1>2. dwResponse' = dwResponse => ResponseIsTrue'
  BY SlotTypes DEF DwInv, OpenersGoOn, ResponseIsTrue
<1>3. dwDuplicated' = dwDuplicated => DuplicatesWereAsked'
  <2> SUFFICES ASSUME dwDuplicated' = dwDuplicated, NEW w \in dwDuplicated
      PROVE  /\ dwHas'[w] # NoAuthority
             /\ \E o \in Openers : dwOpeners'[o] = [at |-> "done", wants |-> dwHas'[w], window |-> w]
    BY DEF DuplicatesWereAsked
  <2>1. w \in Connected /\ dwHas[w] # NoAuthority
    BY DEF DwInv, DuplicateTypeOK, DuplicatesWereAsked
  <2>2. PICK o \in Openers : dwOpeners[o] = [at |-> "done", wants |-> dwHas[w], window |-> w]
    BY DEF DwInv, DuplicatesWereAsked
  <2>3. dwOpeners[o].at = "done"
    BY <2>2
  <2> QED
    BY <2>1, <2>2, <2>3 DEF OpenersGoOn
<1> QED
  BY <1>1, <1>2, <1>3

LEMMA SentRequest ==
  ASSUME DwInv, NEW m, SendRequest(m)
  PROVE  dwRequest' = m /\ dwUnread' \in [Connected -> 0 .. MaxWindowEvents]
BY WindowsAssumption DEF SendRequest, More, DwInv, DuplicateTypeOK

LEMMA DwStep == DwInv /\ DwNext => DwInv'
<1> SUFFICES ASSUME DwInv, DwNext PROVE DwInv'
  OBVIOUS
<1>0. dwOpeners \in [Openers -> OpenerRecords] /\ dwHas \in [Connected -> Authorities \union {NoAuthority}]
  BY SlotTypes DEF DwInv, DuplicateTypeOK
<1>1. ASSUME NEW w \in Connected, OnRequest(w) PROVE DwInv'
  <2>1. OpenersGoOn /\ UNCHANGED <<dwHas, dwOpeners, dwRequest>>
    BY <1>1 DEF OnRequest, OpenersGoOn
  <2>2. RequestIsMeant' /\ PromptIsTrue'
    BY <2>1, WhatWasSaidStays DEF DwInv, PromptIsTrue
  <2>3. dwUnread' \in [Connected -> 0 .. MaxWindowEvents]
    BY <1>1, WindowsAssumption DEF OnRequest, DwInv, DuplicateTypeOK
  <2>4. DuplicatesWereAsked' /\ dwDuplicated' \subseteq Connected
    <3>1. CASE dwHas[w] # NoAuthority /\ dwRequest.type = "duplicate" /\ dwRequest.to = w
      <4>1. dwDuplicated' = dwDuplicated \union {w}
        BY <1>1, <3>1 DEF OnRequest
      <4>2. /\ dwRequest.from \in Openers
            /\ dwOpeners[dwRequest.from] = [at |-> "done", wants |-> dwHas[w], window |-> w]
        BY <3>1, SlotTypes DEF DwInv, RequestIsMeant
      <4> QED
        BY <2>1, <3>1, <4>1, <4>2 DEF DwInv, DuplicatesWereAsked, DuplicateTypeOK
    <3>2. CASE ~(dwHas[w] # NoAuthority /\ dwRequest.type = "duplicate" /\ dwRequest.to = w)
      BY <1>1, <2>1, <3>2, WhatWasSaidStays DEF OnRequest, DwInv, DuplicateTypeOK
    <3> QED
      BY <3>1, <3>2
  <2>5. CASE dwHas[w] # NoAuthority /\ dwRequest.type = "ping" /\ dwRequest.to = dwHas[w]
    <3>1. dwResponse' = [type |-> "pong", from |-> w, to |-> dwRequest.from]
      BY <1>1, <2>5 DEF OnRequest
    <3>2. dwRequest.from \in Openers
      BY <2>5, SlotTypes DEF DwInv
    <3>3. dwResponse' \in Messages("pong", Connected, Openers)
      BY <3>1, <3>2 DEF Messages
    <3>4. ResponseIsTrue'
      BY <2>1, <2>5, <3>1 DEF DwInv, RequestIsMeant, ResponseIsTrue
    <3>5. dwAnswers' \in [Openers -> 0 .. MaxWindowEvents]
      BY <1>1, <2>5, WindowsAssumption DEF OnRequest, More, DwInv, DuplicateTypeOK
    <3>6. DuplicateTypeOK'
      BY <2>1, <2>3, <2>4, <3>3, <3>5 DEF DwInv, DuplicateTypeOK
    <3> QED
      BY <2>2, <2>4, <3>4, <3>6 DEF DwInv
  <2>6. CASE ~(dwHas[w] # NoAuthority /\ dwRequest.type = "ping" /\ dwRequest.to = dwHas[w])
    <3>1. UNCHANGED <<dwResponse, dwAnswers>>
      BY <1>1, <2>6 DEF OnRequest
    <3>2. DuplicateTypeOK'
      BY <2>1, <2>3, <2>4, <3>1 DEF DwInv, DuplicateTypeOK
    <3> QED
      BY <2>1, <2>2, <2>4, <3>1, <3>2, WhatWasSaidStays DEF DwInv
  <2> QED
    BY <2>5, <2>6
<1>2. ASSUME NEW w \in Connected, NEW a \in Authorities, ConnectTo(w, a) PROVE DwInv'
  <2>1. OpenersGoOn /\ UNCHANGED <<dwOpeners, dwRequest, dwResponse, dwUnread, dwAnswers, dwDuplicated>>
    BY <1>0, <1>2 DEF ConnectTo, OpenersGoOn
  <2>2. DuplicateTypeOK'
    BY <1>2 DEF ConnectTo, DwInv, DuplicateTypeOK
  <2>3. PromptIsTrue'
    BY <1>0, <1>2 DEF ConnectTo, DwInv, PromptIsTrue
  <2> QED
    BY <2>1, <2>2, <2>3, WhatWasSaidStays DEF DwInv
<1>3. ASSUME NEW o \in Openers, PingTimesOut(o) PROVE DwInv'
  <2> DEFINE opener == [dwOpeners[o] EXCEPT !.at = "done"]
  <2>1. dwOpeners' = [dwOpeners EXCEPT ![o] = opener]
    BY <1>3 DEF PingTimesOut
  <2>2. opener \in OpenerRecords /\ opener.at = "done" /\ opener.wants = dwOpeners[o].wants
    BY <1>0 DEF OpenerRecords
  <2> HIDE DEF opener
  <2>3. dwOpeners' \in [Openers -> OpenerRecords]
    BY <1>0, <2>1, <2>2
  <2>4. OpenersGoOn
    BY <1>0, <1>3, <2>1, <2>2 DEF PingTimesOut, OpenersGoOn
  <2>5. PromptIsTrue'
    BY <1>0, <1>3, <2>1, <2>2 DEF PingTimesOut, DwInv, PromptIsTrue
  <2>6. DuplicateTypeOK'
    BY <1>3, <2>3, WindowsAssumption DEF PingTimesOut, DwInv, DuplicateTypeOK, OpenerRecords
  <2> QED
    BY <1>3, <2>4, <2>5, <2>6, WhatWasSaidStays DEF PingTimesOut, DwInv
<1>4. ASSUME NEW o \in Openers, OnResponse(o) PROVE DwInv'
  <2>1. dwAnswers' \in [Openers -> 0 .. MaxWindowEvents]
    BY <1>4, WindowsAssumption DEF OnResponse, DwInv, DuplicateTypeOK
  <2>2. CASE OwnPong(o)
    <3> DEFINE opener == [dwOpeners[o] EXCEPT !.at = "prompt", !.window = dwResponse.from]
    <3>1. dwOpeners' = [dwOpeners EXCEPT ![o] = opener]
      BY <1>4, <2>2 DEF OnResponse
    <3>2. /\ dwResponse.from \in Connected /\ dwHas[dwResponse.from] # NoAuthority
          /\ dwOpeners[o].wants = dwHas[dwResponse.from]
      BY <2>2, SlotTypes DEF OwnPong, DwInv, ResponseIsTrue
    <3>3. /\ opener \in OpenerRecords /\ opener.at = "prompt"
          /\ opener.wants = dwOpeners[o].wants /\ opener.window = dwResponse.from
      BY <1>0, <3>2 DEF OpenerRecords
    <3> HIDE DEF opener
    <3>4. dwOpeners' \in [Openers -> OpenerRecords]
      BY <1>0, <3>1, <3>3
    <3>5. OpenersGoOn
      BY <1>0, <1>4, <3>1, <3>3 DEF OnResponse, OpenersGoOn
    <3>6. PromptIsTrue'
      BY <1>0, <1>4, <3>1, <3>2, <3>3 DEF OnResponse, DwInv, PromptIsTrue
    <3>7. DuplicateTypeOK'
      BY <1>4, <2>1, <3>4 DEF OnResponse, DwInv, DuplicateTypeOK, OpenerRecords
    <3> QED
      BY <1>4, <3>5, <3>6, <3>7, WhatWasSaidStays DEF OnResponse, DwInv
  <2>3. CASE ~OwnPong(o)
    <3>1. UNCHANGED <<dwHas, dwOpeners, dwRequest, dwResponse, dwUnread, dwDuplicated>>
      BY <1>4, <2>3 DEF OnResponse
    <3>2. DuplicateTypeOK'
      BY <2>1, <3>1 DEF DwInv, DuplicateTypeOK
    <3> QED
      BY <3>1, <3>2
      DEF DwInv, RequestIsMeant, ResponseIsTrue, PromptIsTrue, DuplicatesWereAsked
  <2> QED
    BY <2>2, <2>3
<1>5. ASSUME NEW o \in Openers, Choose(o) PROVE DwInv'
  <2> DEFINE opener == [dwOpeners[o] EXCEPT !.at = "done"]
  <2>1. dwOpeners' = [dwOpeners EXCEPT ![o] = opener]
    BY <1>5 DEF Choose
  <2>2. /\ opener \in OpenerRecords /\ opener.wants = dwOpeners[o].wants
        /\ opener = [at |-> "done", wants |-> dwOpeners[o].wants, window |-> dwOpeners[o].window]
    BY <1>0 DEF OpenerRecords
  <2>3. opener.at = "done"
    BY <2>2
  <2> HIDE DEF opener
  <2>4. dwOpeners' \in [Openers -> OpenerRecords]
    BY <1>0, <2>1, <2>2
  <2>5. OpenersGoOn
    BY <1>0, <1>5, <2>1, <2>2, <2>3 DEF Choose, OpenersGoOn
  <2>6. PromptIsTrue'
    BY <1>0, <1>5, <2>1, <2>3 DEF Choose, DwInv, PromptIsTrue
  <2>7. /\ dwOpeners[o].window \in Connected
        /\ dwHas[dwOpeners[o].window] # NoAuthority
        /\ dwOpeners[o].wants = dwHas[dwOpeners[o].window]
    BY <1>5 DEF Choose, DwInv, PromptIsTrue
  <2>8. CASE SendRequest([type |-> "duplicate", from |-> o, to |-> dwOpeners[o].window])
    <3>1. /\ dwRequest' = [type |-> "duplicate", from |-> o, to |-> dwOpeners[o].window]
          /\ dwUnread' \in [Connected -> 0 .. MaxWindowEvents]
      BY <2>8, SentRequest
    <3>2. dwRequest' \in Messages("duplicate", Openers, Connected)
      BY <2>7, <3>1 DEF Messages
    <3>3. RequestIsMeant'
      BY <1>0, <1>5, <2>1, <2>2, <2>7, <3>1 DEF Choose, RequestIsMeant
    <3>4. DuplicateTypeOK'
      BY <1>5, <2>4, <3>1, <3>2 DEF Choose, DwInv, DuplicateTypeOK, OpenerRecords
    <3> QED
      BY <1>5, <2>5, <2>6, <3>3, <3>4, WhatWasSaidStays DEF Choose, DwInv
  <2>9. CASE UNCHANGED <<dwRequest, dwUnread>>
    <3>1. DuplicateTypeOK'
      BY <1>5, <2>4, <2>9 DEF Choose, DwInv, DuplicateTypeOK, OpenerRecords
    <3> QED
      BY <1>5, <2>5, <2>6, <2>9, <3>1, WhatWasSaidStays DEF Choose, DwInv
  <2> QED
    BY <1>5, <2>8, <2>9 DEF Choose
<1>6. ASSUME NEW o \in Openers, NEW a \in Authorities, SendPing(o, a) PROVE DwInv'
  <2> DEFINE opener == [dwOpeners[o] EXCEPT !.at = "waiting", !.wants = a]
  <2>1. dwOpeners' = [dwOpeners EXCEPT ![o] = opener] /\ dwOpeners[o].at = "idle"
    BY <1>6 DEF SendPing
  <2>2. opener \in OpenerRecords /\ opener.at = "waiting" /\ opener.wants = a
    BY <1>0 DEF OpenerRecords
  <2> HIDE DEF opener
  <2>3. dwOpeners' \in [Openers -> OpenerRecords]
    BY <1>0, <2>1, <2>2
  <2>4. OpenersGoOn
    BY <1>0, <1>6, <2>1, <2>2 DEF SendPing, OpenersGoOn
  <2>5. PromptIsTrue'
    BY <1>0, <1>6, <2>1, <2>2 DEF SendPing, DwInv, PromptIsTrue
  <2>6. /\ dwRequest' = [type |-> "ping", from |-> o, to |-> a]
        /\ dwUnread' \in [Connected -> 0 .. MaxWindowEvents]
    BY <1>6, SentRequest DEF SendPing
  <2>7. dwRequest' \in Messages("ping", Openers, Authorities)
    BY <2>6 DEF Messages
  <2>8. RequestIsMeant'
    BY <1>0, <2>1, <2>2, <2>6 DEF RequestIsMeant
  <2>9. DuplicateTypeOK'
    BY <1>6, <2>3, <2>6, <2>7 DEF SendPing, DwInv, DuplicateTypeOK, OpenerRecords
  <2> QED
    BY <1>6, <2>4, <2>5, <2>8, <2>9, WhatWasSaidStays DEF SendPing, DwInv
<1> QED
  BY <1>1, <1>2, <1>3, <1>4, <1>5, <1>6 DEF DwNext

LEMMA DwRests == DwInv /\ UNCHANGED dwVars => DwInv'
BY DEF DwInv, dwVars, DuplicateTypeOK, RequestIsMeant, ResponseIsTrue, PromptIsTrue,
       DuplicatesWereAsked

THEOREM DwInvariant == Spec => []DwInv
<1>1. Init => DwInv
  BY DwInitially DEF Init
<1>2. DwInv /\ [Next]_vars => DwInv'
  BY PartsAlone, DwStep, DwRests
<1> QED
  BY <1>1, <1>2, PTL DEF Spec

(* A window duplicates itself only for an opener whose user was told of it and *)
(* who wanted just that workspace, through slots that are overwritten and read *)
(* late (duplicateWorkspaceIpc.ts).                                            *)
THEOREM DuplicatesOnlyWhenAsked == Spec => []OnlyAskedWindowsDuplicate
<1>1. DwInv => OnlyAskedWindowsDuplicate
  BY DEF DwInv, DuplicatesWereAsked, OnlyAskedWindowsDuplicate
<1> QED
  BY <1>1, DwInvariant, PTL

-----------------------------------------------------------------------------
(* CliCredentials. A call that has its store has the one of its settings and   *)
(* of the CLI that it resolved, so whatever writes with those in use writes    *)
(* where the token is looked for; any other write either misses that store or  *)
(* takes the last token back.                                                  *)

ResolvedAsWrites ==
  \A job \in ccJobs : job.kind # "read" /\ job.store # "unresolved"
                        => /\ job.cli \in Versions
                           /\ job.store = ResolveWriteTransport(job.config, job.cli)

CcInv ==
  /\ CredentialsTypeOK /\ IsFiniteSet(ccJobs)
  /\ ResolvedAsWrites
  /\ CliFindsItsToken

\* The three code paths that select a store agree.
LEMMA PathsAgree ==
  ASSUME NEW config \in Configs, NEW version \in Versions
  PROVE  /\ ResolveWriteTransport(config, version) = ResolveCliAuth(config, version)
         /\ ResolveReadTransport(config, version) \in {"none", ResolveCliAuth(config, version)}
         /\ ResolveCliAuth(config, version) \in Stores
         /\ ResolveWriteTransport(config, version) \in Stores
         /\ ResolveReadTransport(config, version) \in Stores \union {"none"}
BY DEF Configs, Versions, Stores, ResolveWriteTransport, ResolveCliAuth, ResolveReadTransport,
       CliFileTransport, FlagsStore, IsKeyringEnabled

LEMMA CcInitially == CcInit => CcInv
<1> SUFFICES ASSUME CcInit PROVE CcInv
  OBVIOUS
<1>1. Cardinality(ccJobs) = 0 /\ IsFiniteSet(ccJobs)
  BY FS_EmptySet DEF CcInit
<1> QED
  BY <1>1, JobsAssumption
  DEF CcInit, CcInv, CredentialsTypeOK, ResolvedAsWrites, CliFindsItsToken, Configs, Versions, Stores

LEMMA OneMore ==
  ASSUME NEW S, NEW x, IsFiniteSet(S)
  PROVE  IsFiniteSet(S \union {x}) /\ Cardinality(S \union {x}) <= Cardinality(S) + 1
<1>1. Cardinality(S) \in Nat
  BY FS_CardinalityType
<1>2. /\ IsFiniteSet(S \union {x})
      /\ Cardinality(S \union {x}) = IF x \in S THEN Cardinality(S) ELSE Cardinality(S) + 1
  BY FS_AddElement, Zenon
<1> QED
  BY <1>1, <1>2

\* A call begins, goes on or ends.
LEMMA CallBegins ==
  ASSUME CcInv, NEW kind \in {"store", "clear", "read"}, NEW t \in Tokens \union {NoToken},
         Call(kind, t)
  PROVE  /\ ccJobs' \subseteq JobRecords /\ IsFiniteSet(ccJobs') /\ Cardinality(ccJobs') <= MaxJobs
         /\ ResolvedAsWrites'
<1> DEFINE new == [kind |-> kind, token |-> t, config |-> ccConfig,
                  cli |-> "unresolved", store |-> "unresolved"]
<1>1. new \in JobRecords /\ new.store = "unresolved"
  BY DEF JobRecords, CcInv, CredentialsTypeOK
<1>2. ccJobs' = ccJobs \union {new} /\ Cardinality(ccJobs) < MaxJobs
  BY DEF Call
<1> HIDE DEF new
<1>3. IsFiniteSet(ccJobs') /\ Cardinality(ccJobs') <= Cardinality(ccJobs) + 1
  BY <1>2, OneMore DEF CcInv
<1>4. Cardinality(ccJobs) \in Nat /\ Cardinality(ccJobs') \in Nat
  BY <1>3, FS_CardinalityType DEF CcInv
<1> QED
  BY <1>1, <1>2, <1>3, <1>4, JobsAssumption DEF CcInv, CredentialsTypeOK, ResolvedAsWrites

LEMMA CallEnds ==
  ASSUME CcInv, NEW job \in ccJobs, ccJobs' = ccJobs \ {job}
  PROVE  /\ ccJobs' \subseteq JobRecords /\ IsFiniteSet(ccJobs') /\ Cardinality(ccJobs') <= MaxJobs
         /\ ResolvedAsWrites'
<1>1. IsFiniteSet(ccJobs') /\ Cardinality(ccJobs') <= Cardinality(ccJobs)
  BY FS_Subset DEF CcInv
<1>2. Cardinality(ccJobs) \in Nat /\ Cardinality(ccJobs') \in Nat
  BY <1>1, FS_CardinalityType DEF CcInv
<1> QED
  BY <1>1, <1>2, JobsAssumption DEF CcInv, CredentialsTypeOK, ResolvedAsWrites

LEMMA CallResolves ==
  ASSUME CcInv, NEW job \in ccJobs, Transport(job) # "none",
         ccJobs' = (ccJobs \ {job}) \union
                   {[job EXCEPT !.cli = ccVersion, !.store = Transport(job)]}
  PROVE  /\ ccJobs' \subseteq JobRecords /\ IsFiniteSet(ccJobs') /\ Cardinality(ccJobs') <= MaxJobs
         /\ ResolvedAsWrites'
<1> DEFINE new == [job EXCEPT !.cli = ccVersion, !.store = Transport(job)]
           rest == ccJobs \ {job}
<1>1. job \in JobRecords /\ job.config \in Configs /\ ccVersion \in Versions
  BY DEF CcInv, CredentialsTypeOK, JobRecords
<1>2. Transport(job) \in Stores
  BY <1>1, PathsAgree DEF Transport
<1>3. /\ new \in JobRecords /\ new.store = Transport(job) /\ new.cli = ccVersion
      /\ new.kind = job.kind /\ new.config = job.config
  BY <1>1, <1>2 DEF JobRecords
<1>4. IsFiniteSet(rest) /\ Cardinality(rest) = Cardinality(ccJobs) - 1
  BY FS_RemoveElement DEF CcInv
<1> HIDE DEF new, rest
<1>5. ccJobs' = rest \union {new}
  BY DEF new, rest
<1>6. IsFiniteSet(ccJobs') /\ Cardinality(ccJobs') <= Cardinality(rest) + 1
  <2>1. IsFiniteSet(rest \union {new}) /\ Cardinality(rest \union {new}) <= Cardinality(rest) + 1
    BY <1>4, OneMore, Zenon
  <2> QED
    BY <1>5, <2>1
<1>7. Cardinality(ccJobs) \in Nat /\ Cardinality(ccJobs') \in Nat /\ Cardinality(rest) \in Nat
  BY <1>4, <1>6, FS_CardinalityType DEF CcInv
<1>8. IsFiniteSet(ccJobs') /\ Cardinality(ccJobs') <= MaxJobs
  BY <1>4, <1>6, <1>7, JobsAssumption DEF CcInv, CredentialsTypeOK
<1>9. ccJobs' \subseteq JobRecords
  BY <1>3, <1>5 DEF rest, CcInv, CredentialsTypeOK
<1>10. ResolvedAsWrites'
  BY <1>1, <1>3, <1>5 DEF rest, CcInv, ResolvedAsWrites, Transport
<1> QED
  BY <1>8, <1>9, <1>10

LEMMA CcStep == CcInv /\ CcNext => CcInv'
<1> SUFFICES ASSUME CcInv, CcNext PROVE CcInv'
  OBVIOUS
<1>0. ccConfig \in Configs /\ ccVersion \in Versions
  BY DEF CcInv, CredentialsTypeOK
<1>1. CASE ClearCredentials
  <2>1. ccStores' \in [Stores -> Tokens \union {NoToken}] /\ ccLatest' = NoToken
    BY <1>1 DEF ClearCredentials, CcInv, CredentialsTypeOK
  <2> QED
    BY <1>1, <2>1, CallBegins DEF ClearCredentials, CcInv, CredentialsTypeOK, CliFindsItsToken
<1>2. CASE ReadToken
  BY <1>2, CallBegins DEF ReadToken, CcInv, CredentialsTypeOK, CliFindsItsToken
<1>3. ASSUME NEW t \in Tokens, StoreCredentials(t) PROVE CcInv'
  BY <1>3, CallBegins DEF StoreCredentials, CcInv, CredentialsTypeOK, CliFindsItsToken
<1>4. ASSUME NEW job \in ccJobs, ResolveCli(job) PROVE CcInv'
  <2>1. UNCHANGED <<ccStores, ccConfig, ccVersion, ccLatest>>
    BY <1>4 DEF ResolveCli
  <2>2. /\ ccJobs' \subseteq JobRecords /\ IsFiniteSet(ccJobs') /\ Cardinality(ccJobs') <= MaxJobs
        /\ ResolvedAsWrites'
    BY <1>4, CallEnds, CallResolves DEF ResolveCli
  <2> QED
    BY <2>1, <2>2 DEF CcInv, CredentialsTypeOK, CliFindsItsToken
<1>5. ASSUME NEW job \in ccJobs, Executed(job) PROVE CcInv'
  <2>1. /\ ccJobs' \subseteq JobRecords /\ IsFiniteSet(ccJobs') /\ Cardinality(ccJobs') <= MaxJobs
        /\ ResolvedAsWrites'
    BY <1>5, CallEnds DEF Executed
  <2>2. job \in JobRecords /\ job.token \in Tokens \union {NoToken} /\ job.config \in Configs
    BY DEF CcInv, CredentialsTypeOK, JobRecords
  <2>3. /\ job.cli \in Versions /\ job.store \in Stores
        /\ job.store = ResolveCliAuth(job.config, job.cli)
    BY <1>5, <2>2, PathsAgree DEF Executed, CcInv, ResolvedAsWrites, Stores
  <2>4. ccStores' = [ccStores EXCEPT ![job.store] = job.token] /\ UNCHANGED <<ccConfig, ccVersion>>
    BY <1>5 DEF Executed
  <2>5. ccStores' \in [Stores -> Tokens \union {NoToken}] /\ ccLatest' \in Tokens \union {NoToken}
    BY <1>5, <2>2, <2>3, <2>4 DEF Executed, CcInv, CredentialsTypeOK
  <2>6. CliFindsItsToken'
    <3>1. CASE job.config = ccConfig /\ job.cli = ccVersion
      <4>1. ccLatest' = job.token
        BY <1>5, <3>1 DEF Executed
      <4> QED
        BY <1>0, <2>3, <2>4, <3>1, <4>1, PathsAgree
        DEF CliFindsItsToken, CcInv, CredentialsTypeOK
    <3>2. CASE /\ ~(job.config = ccConfig /\ job.cli = ccVersion)
               /\ job.store = ResolveCliAuth(ccConfig, ccVersion)
      BY <1>5, <3>2 DEF Executed, CliFindsItsToken
    <3>3. CASE /\ ~(job.config = ccConfig /\ job.cli = ccVersion)
               /\ job.store # ResolveCliAuth(ccConfig, ccVersion)
      <4>1. ccLatest' = ccLatest
        BY <1>5, <3>3 DEF Executed
      <4>2. ccStores'[ResolveCliAuth(ccConfig, ccVersion)] = ccStores[ResolveCliAuth(ccConfig, ccVersion)]
        BY <1>0, <2>4, <3>3, PathsAgree DEF CcInv, CredentialsTypeOK
      <4> QED
        BY <2>4, <4>1, <4>2 DEF CliFindsItsToken, CcInv
    <3> QED
      BY <3>1, <3>2, <3>3
  <2> QED
    BY <2>1, <2>4, <2>5, <2>6 DEF CcInv, CredentialsTypeOK
<1>6. ASSUME NEW job \in ccJobs, ChangedNothing(job) PROVE CcInv'
  BY <1>6, CallEnds DEF ChangedNothing, CcInv, CredentialsTypeOK, CliFindsItsToken
<1>7. ASSUME NEW config \in Configs, ConfigChanges(config) PROVE CcInv'
  BY <1>7 DEF ConfigChanges, CcInv, CredentialsTypeOK, ResolvedAsWrites, CliFindsItsToken
<1>8. ASSUME NEW version \in Versions, BinaryChanges(version) PROVE CcInv'
  BY <1>8 DEF BinaryChanges, CcInv, CredentialsTypeOK, ResolvedAsWrites, CliFindsItsToken
<1> QED
  BY <1>1, <1>2, <1>3, <1>4, <1>5, <1>6, <1>7, <1>8 DEF CcNext

LEMMA CcRests == CcInv /\ UNCHANGED ccVars => CcInv'
BY DEF CcInv, ccVars, CredentialsTypeOK, ResolvedAsWrites, CliFindsItsToken

THEOREM CcInvariant == Spec => []CcInv
<1>1. Init => CcInv
  BY CcInitially DEF Init
<1>2. CcInv /\ [Next]_vars => CcInv'
  BY PartsAlone, CcStep, CcRests
<1> QED
  BY <1>1, <1>2, PTL DEF Spec

(* What was written with the settings and the CLI in use is where the commands *)
(* and the SSH proxy look, whichever calls overlapped (cliCredentialManager.ts, *)
(* settings/cli.ts).                                                           *)
THEOREM TokensAreFound == Spec => []CliFindsItsToken
<1>1. CcInv => CliFindsItsToken
  BY DEF CcInv
<1> QED
  BY <1>1, CcInvariant, PTL

-----------------------------------------------------------------------------
(* WorkspaceMonitor. A flag that is set accounts for one message, or for one   *)
(* fetch of a template that comes before it, or for one that failed.           *)

WmAccounts ==
  /\ \A c \in Causes \ {"outdated"} : wmShown[c] = IF c \in wmNotified THEN 1 ELSE 0
  /\ "outdated" \in wmNotified =>
       \/ wmShown["outdated"] = 1 /\ wmFetches = 0
       \/ wmShown["outdated"] = 0 /\ (wmFetches = 1 \/ (wmFetches = 0 /\ wmFailed))
  /\ "outdated" \notin wmNotified => wmShown["outdated"] = 0 /\ wmFetches = 0

WmFlags ==
  /\ ~wmSetup => wmNotified \subseteq {"autostop"}
  /\ \A c \in CallsFor(wmSeen) \intersect wmHeard : c = "autostop" \/ wmSetup => c \in wmNotified
  /\ wmMonitor = "creating" => wmHeard = {}

WmInv == MonitorTypeOK /\ WmAccounts /\ WmFlags

LEMMA WmInitially == WmInit => WmInv
<1> SUFFICES ASSUME WmInit PROVE WmInv
  OBVIOUS
<1>1. wmSeen \in Workspaces
  BY DEF WmInit, Workspaces
<1> QED
  BY <1>1 DEF WmInit, WmInv, WmAccounts, WmFlags, MonitorTypeOK, Causes

\* What a judgement of a state leaves told.
LEMMA Judged ==
  ASSUME WmInv, NEW w \in Workspaces, NEW setup \in BOOLEAN, wmSetup => setup, MaybeNotify(w, setup),
         wmMonitor = "live",
         wmSeen' = w, wmSetup' = setup, UNCHANGED <<wmMonitor, wmMuted, wmFailed>>
  PROVE  WmInv'
<1> DEFINE due == Due(w, setup)
<1>1. /\ wmNotified' = wmNotified \union due
      /\ wmShown' = [c \in Causes |-> IF c \in due \ {"outdated"} THEN wmShown[c] + 1 ELSE wmShown[c]]
      /\ wmFetches' = IF "outdated" \in due THEN wmFetches + 1 ELSE wmFetches
      /\ wmHeard' = Heard
  BY DEF MaybeNotify
<1>2. /\ due \subseteq Causes /\ due \intersect wmNotified = {}
      /\ ~setup => due \subseteq {"autostop"}
      /\ \A c \in CallsFor(w) \intersect Heard : c = "autostop" \/ setup => c \in wmNotified \union due
  BY DEF Due, CallsFor
<1>3. Heard \subseteq Causes
  BY DEF Heard, WmInv, MonitorTypeOK
<1> HIDE DEF due
<1>4. "outdated" \in Causes
  BY DEF Causes
<1>5. MonitorTypeOK'
  BY <1>1, <1>2, <1>3 DEF WmInv, MonitorTypeOK
<1>6. WmAccounts'
  <2>1. ASSUME NEW c \in Causes \ {"outdated"}
        PROVE  wmShown'[c] = IF c \in wmNotified' THEN 1 ELSE 0
    BY <1>1, <1>2, <2>1 DEF WmInv, WmAccounts
  <2>2. wmShown'["outdated"] = wmShown["outdated"] /\ wmFailed' = wmFailed
    BY <1>1, <1>4
  <2>3. /\ "outdated" \in wmNotified' =>
             \/ wmShown'["outdated"] = 1 /\ wmFetches' = 0
             \/ wmShown'["outdated"] = 0 /\ (wmFetches' = 1 \/ (wmFetches' = 0 /\ wmFailed'))
        /\ "outdated" \notin wmNotified' => wmShown'["outdated"] = 0 /\ wmFetches' = 0
    <3>1. /\ wmFetches \in Nat
          /\ "outdated" \in due => "outdated" \notin wmNotified
          /\ "outdated" \in wmNotified' <=> "outdated" \in wmNotified \/ "outdated" \in due
      BY <1>1, <1>2 DEF WmInv, MonitorTypeOK
    <3>2. CASE "outdated" \in due
      <4>1. wmShown["outdated"] = 0 /\ wmFetches = 0
        BY <3>1, <3>2 DEF WmInv, WmAccounts
      <4>2. wmFetches' = 1
        BY <1>1, <3>2, <4>1
      <4>3. wmShown'["outdated"] = 0
        BY <2>2, <4>1
      <4>4. "outdated" \in wmNotified'
        BY <3>1, <3>2
      <4> QED
        BY <4>2, <4>3, <4>4, Zenon
    <3>3. CASE "outdated" \notin due
      <4>1. wmFetches' = wmFetches
        BY <1>1, <3>3
      <4> QED
        BY <2>2, <3>1, <3>3, <4>1 DEF WmInv, WmAccounts
    <3> QED
      BY <3>2, <3>3
  <2> QED
    BY <2>1, <2>3 DEF WmAccounts
<1>7. WmFlags'
  BY <1>1, <1>2 DEF WmInv, WmFlags, CallsFor
<1> QED
  BY <1>5, <1>6, <1>7 DEF WmInv

LEMMA WmStep == WmInv /\ WmNext => WmInv'
<1> SUFFICES ASSUME WmInv, WmNext PROVE WmInv'
  OBVIOUS
<1> USE DEF WmInv
<1>1. ASSUME NEW w \in Workspaces, Message(w) PROVE WmInv'
  BY <1>1, Judged DEF Message, MonitorTypeOK
<1>2. CASE MarkInitialSetupComplete
  BY <1>2, Judged DEF MarkInitialSetupComplete, MonitorTypeOK
<1>3. CASE TemplateFetched
  <2>1. wmFetches = 1 /\ wmShown["outdated"] = 0 /\ "outdated" \in wmNotified /\ wmFetches' = 0
    BY <1>3 DEF TemplateFetched, WmAccounts, MonitorTypeOK
  <2>2. UNCHANGED <<wmSeen, wmMonitor, wmSetup, wmMuted, wmNotified, wmHeard>>
    BY <1>3 DEF TemplateFetched
  <2>3. \/ wmShown' = [wmShown EXCEPT !["outdated"] = @ + 1] /\ UNCHANGED wmFailed
        \/ wmFailed' = TRUE /\ UNCHANGED wmShown
    BY <1>3, Zenon DEF TemplateFetched
  <2>4. WmFlags'
    BY <2>2 DEF WmFlags, CallsFor
  <2>5. "outdated" \in Causes
    BY DEF Causes
  <2>6. CASE wmShown' = [wmShown EXCEPT !["outdated"] = @ + 1] /\ UNCHANGED wmFailed
    <3>1. wmShown' \in [Causes -> Nat] /\ wmShown'["outdated"] = 1
      BY <2>1, <2>5, <2>6 DEF MonitorTypeOK
    <3>2. \A c \in Causes \ {"outdated"} : wmShown'[c] = wmShown[c]
      BY <2>5, <2>6 DEF MonitorTypeOK
    <3> QED
      BY <2>1, <2>2, <2>4, <2>6, <3>1, <3>2 DEF MonitorTypeOK, WmAccounts
  <2>7. CASE wmFailed' = TRUE /\ UNCHANGED wmShown
    BY <2>1, <2>2, <2>4, <2>7 DEF MonitorTypeOK, WmAccounts
  <2> QED
    BY <2>3, <2>6, <2>7
<1>4. CASE TimePasses
  <2>1. PICK ends, deleting \in BOOLEAN : wmSeen' = [wmSeen EXCEPT !.ends = ends, !.deleting = deleting]
    BY <1>4, Zenon DEF TimePasses
  <2>2. /\ wmSeen' \in Workspaces /\ wmSeen'.status = wmSeen.status
        /\ wmSeen'.outdated = wmSeen.outdated
    BY <2>1 DEF MonitorTypeOK, Workspaces
  <2>3. CallsFor(wmSeen') \ {"autostop", "deletion"} \subseteq CallsFor(wmSeen)
    BY <2>2 DEF CallsFor
  <2>4. WmFlags'
    BY <1>4, <2>3 DEF TimePasses, WmFlags
  <2> QED
    BY <1>4, <2>2, <2>4 DEF TimePasses, MonitorTypeOK, WmAccounts
<1>5. CASE MonitorCreated
  <2>1. wmHeard = {}
    BY <1>5 DEF MonitorCreated, WmFlags
  <2> QED
    BY <1>5, <2>1 DEF MonitorCreated, MonitorTypeOK, WmAccounts, WmFlags
<1>6. CASE WmDispose
  BY <1>6 DEF WmDispose, MonitorTypeOK, WmAccounts, WmFlags, CallsFor
<1>7. ASSUME NEW muted \in {"none", "updates", "all"}, NotificationsChange(muted) PROVE WmInv'
  BY <1>7 DEF NotificationsChange, MonitorTypeOK, WmAccounts, WmFlags, CallsFor
<1> QED
  BY <1>1, <1>2, <1>3, <1>4, <1>5, <1>6, <1>7 DEF WmNext

LEMMA WmRests == WmInv /\ UNCHANGED wmVars => WmInv'
BY DEF WmInv, wmVars, MonitorTypeOK, WmAccounts, WmFlags, CallsFor

THEOREM WmInvariant == Spec => []WmInv
<1>1. Init => WmInv
  BY WmInitially DEF Init
<1>2. WmInv /\ [Next]_vars => WmInv'
  BY PartsAlone, WmStep, WmRests
<1> QED
  BY <1>1, <1>2, PTL DEF Spec

(* Every message appears at most once, but for the autostop none during the    *)
(* set-up, and what the latest state calls for has been told, in whichever     *)
(* order states, settings and the end of the set-up came (WorkspaceMonitor's   *)
(* update, maybeNotify, markInitialSetupComplete).                             *)
THEOREM MonitorTellsOnce == Spec => []ToldOnce
<1>1. ASSUME WmInv PROVE ToldOnce
  <2>1. \A c \in Causes : wmShown[c] + (IF c = "outdated" THEN wmFetches ELSE 0) <= 1
    BY <1>1 DEF WmInv, WmAccounts, MonitorTypeOK
  <2>2. ~wmSetup => \A c \in Causes \ {"autostop"} : wmShown[c] = 0
    BY <1>1 DEF WmInv, WmAccounts, WmFlags, MonitorTypeOK
  <2>3. \A c \in wmNotified : Told(c)
    BY <1>1 DEF WmInv, WmAccounts, MonitorTypeOK, Told
  <2>4. \A c \in CallsFor(wmSeen) \intersect wmHeard : (c = "autostop" \/ wmSetup) => Told(c)
    BY <1>1, <2>3 DEF WmInv, WmFlags
  <2> QED
    BY <2>1, <2>2, <2>4 DEF ToldOnce
<1> QED
  BY <1>1, WmInvariant, PTL

-----------------------------------------------------------------------------
(* TaskStreams. A LazyStream that opens holds no stream, so that what the      *)
(* factory delivers replaces nothing.                                          *)

Sound(z) ==
  /\ z \in LazyStates
  /\ z.open = (IF z.live THEN 1 ELSE 0)
  /\ z.live => z.stream # NoTask
  /\ z.opening # NoTask => z.stream = NoTask

TsInv ==
  /\ tsTask \in Tasks \union {NoTask} /\ tsCalls \subseteq Tasks
  /\ DOMAIN tsLazy = Kinds /\ tsLazy = [k \in Kinds |-> tsLazy[k]]
  /\ \A k \in Kinds : Sound(tsLazy[k])

LEMMA ClosedIsSound == Sound(Closed)
BY DEF Sound, Closed, LazyStates

LEMMA OpenIsSound ==
  ASSUME NEW z, Sound(z), NEW t \in Tasks
  PROVE  Sound(Open(z, t))
<1>1. CASE z.stream # NoTask \/ z.opening # NoTask
  BY <1>1 DEF Open
<1>2. CASE ~(z.stream # NoTask \/ z.opening # NoTask)
  <2> DEFINE y == [z EXCEPT !.opening = t]
  <2>1. Open(z, t) = y
    BY <1>2 DEF Open
  <2>2. /\ y \in LazyStates /\ y.open = z.open /\ y.live = z.live
        /\ y.stream = z.stream
    BY DEF Sound, LazyStates
  <2> HIDE DEF y
  <2> QED
    BY <1>2, <2>1, <2>2 DEF Sound
<1> QED
  BY <1>1, <1>2

LEMMA CloseIsSound ==
  ASSUME NEW z, Sound(z)
  PROVE  Sound(Close(z))
<1> DEFINE n == IF z.live THEN z.open - 1 ELSE z.open
           d == IF z.opening # NoTask /\ ~z.failed THEN z.dropped \union {z.opening} ELSE z.dropped
           y == [z EXCEPT !.stream = NoTask, !.live = FALSE, !.opening = NoTask, !.failed = FALSE,
                          !.open = n, !.dropped = d]
<1>0. Close(z) = y
  BY DEF Close
<1>1. /\ z.stream \in Tasks \union {NoTask} /\ z.live \in BOOLEAN
      /\ z.opening \in Tasks \union {NoTask} /\ z.failed \in BOOLEAN
      /\ z.dropped \in SUBSET Tasks /\ z.open \in 0 .. 2
  BY DEF Sound, LazyStates
<1>2. n = 0
  BY DEF Sound
<1>3. d \in SUBSET Tasks
  BY <1>1
<1> HIDE DEF n, d
<1>4. /\ y \in LazyStates /\ y.open = 0 /\ y.live = FALSE
      /\ y.stream = NoTask /\ y.opening = NoTask
  <2>1. z \in LazyStates
    BY DEF Sound
  <2>2. n \in 0 .. 2 /\ NoTask \in Tasks \union {NoTask} /\ FALSE \in BOOLEAN
    BY <1>2
  <2>3. y \in LazyStates
    BY <1>3, <2>1, <2>2, ZenonT(30) DEF LazyStates
  <2>4. y.stream = NoTask /\ y.live = FALSE /\ y.opening = NoTask /\ y.open = n
    BY <2>1, ZenonT(30) DEF LazyStates
  <2> QED
    BY <1>2, <2>3, <2>4
<1> HIDE DEF y
<1>5. Sound(y)
  BY <1>4 DEF Sound
<1> QED
  BY <1>0, <1>5

LEMMA DeliveredIsSound ==
  ASSUME NEW z, Sound(z)
  PROVE  /\ z.opening # NoTask => Sound(Delivered(z, z.opening, TRUE))
         /\ \A t : Sound(Delivered(z, t, FALSE))
<1>1. ASSUME z.opening # NoTask PROVE Sound(Delivered(z, z.opening, TRUE))
  <2> DEFINE n == z.open + 1
             h == [z EXCEPT !.stream = z.opening, !.live = TRUE, !.open = n]
             y == [h EXCEPT !.opening = NoTask]
  <2>1. z.opening \in Tasks /\ z.open = 0 /\ z.live = FALSE
    BY <1>1 DEF Sound, LazyStates
  <2>2. h = Hold(z, z.opening)
    BY DEF Hold
  <2>3. n = 1 /\ z \in LazyStates
    BY <2>1 DEF Sound
  <2> HIDE DEF n
  <2>4. n \in 0 .. 2 /\ z.opening \in Tasks \union {NoTask} /\ TRUE \in BOOLEAN
    BY <2>1, <2>3
  <2>5. h \in LazyStates /\ h.stream = z.opening /\ h.live = TRUE /\ h.open = 1
    <3>1. h \in LazyStates
      BY <2>3, <2>4, ZenonT(30) DEF LazyStates
    <3>2. h.stream = z.opening /\ h.live = TRUE /\ h.open = n
      BY <2>3, ZenonT(30) DEF LazyStates
    <3> QED
      BY <2>3, <3>1, <3>2
  <2> HIDE DEF h
  <2>6. /\ y \in LazyStates /\ y.stream = z.opening /\ y.live = TRUE /\ y.open = 1
        /\ y.opening = NoTask
    BY <2>5 DEF LazyStates
  <2>7. Delivered(z, z.opening, TRUE) = y
    BY <2>2 DEF Delivered
  <2> HIDE DEF y
  <2> QED
    BY <1>1, <2>6, <2>7 DEF Sound
<1>2. ASSUME NEW t PROVE Sound(Delivered(z, t, FALSE))
  <2> DEFINE y == [z EXCEPT !.dropped = z.dropped \ {t}]
  <2>1. /\ y \in LazyStates /\ y.stream = z.stream /\ y.live = z.live
        /\ y.open = z.open /\ y.opening = z.opening
    BY DEF Sound, LazyStates
  <2>2. Delivered(z, t, FALSE) = y
    BY DEF Delivered
  <2> HIDE DEF y
  <2> QED
    BY <2>1, <2>2 DEF Sound
<1> QED
  BY <1>1, <1>2

LEMMA FailedIsSound ==
  ASSUME NEW z, Sound(z)
  PROVE  /\ Sound([z EXCEPT !.failed = TRUE])
         /\ \A t : Sound([z EXCEPT !.dropped = @ \ {t}])
         /\ z.live => Sound([z EXCEPT !.live = FALSE, !.open = @ - 1])
<1>1. Sound([z EXCEPT !.failed = TRUE])
  BY DEF Sound, LazyStates
<1>2. ASSUME NEW t PROVE Sound([z EXCEPT !.dropped = @ \ {t}])
  BY DEF Sound, LazyStates
<1>3. ASSUME z.live PROVE Sound([z EXCEPT !.live = FALSE, !.open = @ - 1])
  <2> DEFINE n == z.open - 1
             y == [z EXCEPT !.live = FALSE, !.open = n]
  <2>1. n = 0 /\ z \in LazyStates
    BY <1>3 DEF Sound
  <2> HIDE DEF n
  <2>2. /\ y \in LazyStates /\ y.stream = z.stream /\ y.live = FALSE
        /\ y.open = 0 /\ y.opening = z.opening
    <3>1. n \in 0 .. 2 /\ FALSE \in BOOLEAN
      BY <2>1
    <3>2. y \in LazyStates
      BY <2>1, <3>1, ZenonT(30) DEF LazyStates
    <3>3. y.stream = z.stream /\ y.live = FALSE /\ y.open = n /\ y.opening = z.opening
      BY <2>1, ZenonT(30) DEF LazyStates
    <3> QED
      BY <2>1, <3>2, <3>3
  <2> HIDE DEF y
  <2>3. Sound(y)
    BY <1>3, <2>2 DEF Sound
  <2> QED
    BY <2>3 DEF y, n
<1> QED
  BY <1>1, <1>2, <1>3

LEMMA TsInitially == TsInit => TsInv
BY ClosedIsSound DEF TsInit, TsInv

\* One stream changes, or both are closed.
LEMMA OneStream ==
  ASSUME TsInv, NEW k \in Kinds, NEW z, Sound(z), tsLazy' = [tsLazy EXCEPT ![k] = z]
  PROVE  /\ DOMAIN tsLazy' = Kinds /\ tsLazy' = [j \in Kinds |-> tsLazy'[j]]
         /\ \A j \in Kinds : Sound(tsLazy'[j])
BY DEF TsInv

LEMMA BothClosed ==
  ASSUME NEW lazy, \A k \in Kinds : Sound(lazy[k])
  PROVE  /\ DOMAIN CloseBoth(lazy) = Kinds
         /\ CloseBoth(lazy) = [k \in Kinds |-> CloseBoth(lazy)[k]]
         /\ \A k \in Kinds : Sound(CloseBoth(lazy)[k])
BY CloseIsSound DEF CloseBoth

LEMMA TsStep == TsInv /\ TsNext => TsInv'
<1> SUFFICES ASSUME TsInv, TsNext PROVE TsInv'
  OBVIOUS
<1>1. ASSUME NEW t \in Tasks, NEW phase \in {"building", "starting", "ready"},
             StreamWorkspaceLogs(t, phase)
      PROVE  TsInv'
  <2> DEFINE switched == IF t # tsTask THEN CloseBoth(tsLazy) ELSE tsLazy
  <2>1. /\ DOMAIN switched = Kinds /\ switched = [k \in Kinds |-> switched[k]]
        /\ \A k \in Kinds : Sound(switched[k])
    BY BothClosed DEF TsInv
  <2>2. tsTask' = t /\ tsCalls' \subseteq Tasks
    BY <1>1 DEF StreamWorkspaceLogs, TsInv
  <2>3. tsLazy' = CASE phase = "building" -> [switched EXCEPT !["agent"] = Close(switched["agent"])]
                    [] phase = "starting" -> [build |-> Close(switched["build"]),
                                              agent |-> Open(switched["agent"], t)]
                    [] OTHER -> CloseBoth(switched)
    BY <1>1 DEF StreamWorkspaceLogs
  <2> HIDE DEF switched
  <2>4. "build" \in Kinds /\ "agent" \in Kinds /\ Kinds = {"build", "agent"}
    BY DEF Kinds
  <2>5. CASE phase = "building"
    <3>1. tsLazy' = [switched EXCEPT !["agent"] = Close(switched["agent"])]
      BY <2>3, <2>5
    <3>2. Sound(Close(switched["agent"]))
      BY <2>1, <2>4, CloseIsSound
    <3> QED
      BY <2>1, <2>2, <3>1, <3>2 DEF TsInv
  <2>6. CASE phase = "starting"
    <3>1. tsLazy' = [build |-> Close(switched["build"]), agent |-> Open(switched["agent"], t)]
      BY <2>3, <2>6
    <3>2. Sound(Close(switched["build"])) /\ Sound(Open(switched["agent"], t))
      BY <2>1, <2>4, CloseIsSound, OpenIsSound
    <3>3. \A k \in Kinds : Sound(tsLazy'[k])
      BY <2>4, <3>1, <3>2
    <3>4. DOMAIN tsLazy' = Kinds /\ tsLazy' = [k \in Kinds |-> tsLazy'[k]]
      BY <2>4, <3>1
    <3> QED
      BY <2>2, <3>3, <3>4 DEF TsInv
  <2>7. CASE phase = "ready"
    <3>1. tsLazy' = CloseBoth(switched)
      BY <2>3, <2>7
    <3> QED
      BY <2>1, <2>2, <3>1, BothClosed DEF TsInv
  <2> QED
    BY <2>5, <2>6, <2>7
<1>2. ASSUME NEW t \in tsCalls, WorkspaceRead(t) PROVE TsInv'
  <2>1. t \in Tasks /\ "build" \in Kinds /\ tsTask' = tsTask /\ tsCalls' \subseteq Tasks
    BY <1>2 DEF WorkspaceRead, TsInv, Kinds
  <2>2. Sound(Open(tsLazy["build"], t))
    BY <2>1, OpenIsSound DEF TsInv
  <2>3. tsLazy' = tsLazy \/ tsLazy' = [tsLazy EXCEPT !["build"] = Open(tsLazy["build"], t)]
    BY <1>2 DEF WorkspaceRead
  <2> QED
    BY <2>1, <2>2, <2>3, OneStream DEF TsInv
<1>3. ASSUME NEW k \in Kinds, FactorySettles(k) PROVE TsInv'
  <2> DEFINE z == tsLazy[k]
  <2>1. Sound(z) /\ UNCHANGED <<tsTask, tsCalls>>
    BY <1>3 DEF FactorySettles, TsInv
  <2>2. \E y : Sound(y) /\ tsLazy' = [tsLazy EXCEPT ![k] = y]
    <3>1. CASE z.opening # NoTask /\ tsLazy' = [tsLazy EXCEPT ![k] = Delivered(z, z.opening, TRUE)]
      BY <2>1, <3>1, DeliveredIsSound, Zenon
    <3>2. CASE tsLazy' = [tsLazy EXCEPT ![k].failed = TRUE]
      <4>1. tsLazy' = [tsLazy EXCEPT ![k] = [z EXCEPT !.failed = TRUE]]
        BY <3>2
      <4> QED
        BY <2>1, <4>1, FailedIsSound, Zenon
    <3>3. ASSUME NEW t, tsLazy' = [tsLazy EXCEPT ![k] = Delivered(z, t, FALSE)]
          PROVE  \E y : Sound(y) /\ tsLazy' = [tsLazy EXCEPT ![k] = y]
      BY <2>1, <3>3, DeliveredIsSound, Zenon
    <3>4. ASSUME NEW t, tsLazy' = [tsLazy EXCEPT ![k].dropped = @ \ {t}]
          PROVE  \E y : Sound(y) /\ tsLazy' = [tsLazy EXCEPT ![k] = y]
      <4>1. tsLazy' = [tsLazy EXCEPT ![k] = [z EXCEPT !.dropped = @ \ {t}]]
        BY <3>4
      <4> QED
        BY <2>1, <4>1, FailedIsSound, Zenon
    <3> QED
      BY <1>3, <3>1, <3>2, <3>3, <3>4 DEF FactorySettles
  <2> QED
    BY <2>1, <2>2, OneStream DEF TsInv
<1>4. ASSUME NEW k \in Kinds, ServerCloses(k) PROVE TsInv'
  <2> DEFINE z == tsLazy[k]
             y == [z EXCEPT !.live = FALSE, !.open = @ - 1]
  <2>1. Sound(z) /\ z.live /\ UNCHANGED <<tsTask, tsCalls>>
    BY <1>4 DEF ServerCloses, TsInv
  <2>2. tsLazy' = [tsLazy EXCEPT ![k] = y]
    BY <1>4 DEF ServerCloses
  <2>3. Sound(y)
    BY <2>1, FailedIsSound
  <2> HIDE DEF y
  <2> QED
    BY <2>1, <2>2, <2>3, OneStream DEF TsInv
<1>5. CASE StopStreaming
  BY <1>5, BothClosed DEF StopStreaming, TsInv
<1> QED
  BY <1>1, <1>2, <1>3, <1>4, <1>5 DEF TsNext

\* What the agent's LazyStream holds or awaits is of task t.
Of(z, t) == z.stream \in {NoTask, t} /\ z.opening \in {NoTask, t}

LEMMA ClosedIsOfAny ==
  ASSUME NEW z, Sound(z), NEW t PROVE Of(Close(z), t)
BY DEF Of, Close, Sound, LazyStates

LEMMA OpenedIsOf ==
  ASSUME NEW z, Sound(z), NEW t, Of(z, t) PROVE Of(Open(z, t), t)
BY DEF Of, Open, Sound, LazyStates

LEMMA SettledIsOf ==
  ASSUME NEW z, Sound(z), NEW t, Of(z, t)
  PROVE  /\ z.opening # NoTask => Of(Delivered(z, z.opening, TRUE), t)
         /\ Of([z EXCEPT !.failed = TRUE], t)
         /\ \A u : Of(Delivered(z, u, FALSE), t) /\ Of([z EXCEPT !.dropped = @ \ {u}], t)
         /\ Of([z EXCEPT !.live = FALSE, !.open = @ - 1], t)
BY DEF Of, Delivered, Hold, Sound, LazyStates

LEMMA AgentLogsStep == TsInv /\ AgentLogsAreOfTheTask /\ TsNext => AgentLogsAreOfTheTask'
<1> SUFFICES ASSUME TsInv, AgentLogsAreOfTheTask, TsNext
             PROVE  Of(tsLazy'["agent"], tsTask')
  BY DEF AgentLogsAreOfTheTask, Of
<1>0. /\ Of(tsLazy["agent"], tsTask) /\ Sound(tsLazy["agent"])
      /\ "agent" \in Kinds /\ "build" # "agent" /\ DOMAIN tsLazy = Kinds
  BY DEF AgentLogsAreOfTheTask, Of, TsInv, Kinds
<1>1. ASSUME NEW t \in Tasks, NEW phase \in {"building", "starting", "ready"},
             StreamWorkspaceLogs(t, phase)
      PROVE  Of(tsLazy'["agent"], tsTask')
  <2> DEFINE switched == IF t # tsTask THEN CloseBoth(tsLazy) ELSE tsLazy
  <2>1. Sound(switched["agent"]) /\ Of(switched["agent"], t) /\ DOMAIN switched = Kinds
    BY <1>0, CloseIsSound, ClosedIsOfAny DEF CloseBoth
  <2>2. tsTask' = t
    BY <1>1 DEF StreamWorkspaceLogs
  <2>3. tsLazy' = CASE phase = "building" -> [switched EXCEPT !["agent"] = Close(switched["agent"])]
                    [] phase = "starting" -> [build |-> Close(switched["build"]),
                                              agent |-> Open(switched["agent"], t)]
                    [] OTHER -> CloseBoth(switched)
    BY <1>1 DEF StreamWorkspaceLogs
  <2> HIDE DEF switched
  <2>4. tsLazy'["agent"] \in {Close(switched["agent"]), Open(switched["agent"], t)}
    <3>1. CASE phase = "building"
      BY <1>0, <2>1, <2>3, <3>1
    <3>2. CASE phase = "starting"
      BY <2>3, <3>2
    <3>3. CASE phase = "ready"
      BY <1>0, <2>3, <3>3 DEF CloseBoth
    <3> QED
      BY <3>1, <3>2, <3>3
  <2> QED
    BY <2>1, <2>2, <2>4, ClosedIsOfAny, OpenedIsOf
<1>2. ASSUME NEW t \in tsCalls, WorkspaceRead(t) PROVE Of(tsLazy'["agent"], tsTask')
  BY <1>0, <1>2 DEF WorkspaceRead
<1>3. ASSUME NEW k \in Kinds, FactorySettles(k) PROVE Of(tsLazy'["agent"], tsTask')
  <2>1. CASE k # "agent"
    BY <1>0, <1>3, <2>1 DEF FactorySettles
  <2>2. CASE k = "agent"
    <3> DEFINE z == tsLazy["agent"]
    <3>1. \/ z.opening # NoTask /\ tsLazy'["agent"] = Delivered(z, z.opening, TRUE)
          \/ tsLazy'["agent"] = [z EXCEPT !.failed = TRUE]
          \/ \E u : tsLazy'["agent"] = Delivered(z, u, FALSE)
          \/ \E u : tsLazy'["agent"] = [z EXCEPT !.dropped = @ \ {u}]
      BY <1>0, <1>3, <2>2 DEF FactorySettles
    <3>2. tsTask' = tsTask /\ Of(z, tsTask) /\ Sound(z)
      BY <1>0, <1>3 DEF FactorySettles
    <3> HIDE DEF z
    <3>3. /\ z.opening # NoTask => Of(Delivered(z, z.opening, TRUE), tsTask)
          /\ Of([z EXCEPT !.failed = TRUE], tsTask)
          /\ \A u : Of(Delivered(z, u, FALSE), tsTask) /\ Of([z EXCEPT !.dropped = @ \ {u}], tsTask)
      BY <3>2, SettledIsOf, Zenon
    <3> QED
      BY <3>1, <3>2, <3>3, Zenon
  <2> QED
    BY <2>1, <2>2
<1>4. ASSUME NEW k \in Kinds, ServerCloses(k) PROVE Of(tsLazy'["agent"], tsTask')
  <2>1. tsTask' = tsTask /\ tsLazy' = [tsLazy EXCEPT ![k].live = FALSE, ![k].open = @ - 1]
    BY <1>4 DEF ServerCloses
  <2>2. \/ tsLazy'["agent"] = tsLazy["agent"]
        \/ tsLazy'["agent"] = [tsLazy["agent"] EXCEPT !.live = FALSE, !.open = @ - 1]
    BY <1>0, <2>1
  <2> QED
    BY <1>0, <2>1, <2>2, SettledIsOf, Zenon
<1>5. CASE StopStreaming
  BY <1>0, <1>5, ClosedIsOfAny DEF StopStreaming, CloseBoth
<1> QED
  BY <1>1, <1>2, <1>3, <1>4, <1>5 DEF TsNext

LEMMA TsRests == TsInv /\ UNCHANGED tsVars => TsInv'
BY DEF TsInv, tsVars

LEMMA TsTypeIs == TsInv => TaskStreamsTypeOK /\ OpenStreamsAreHeld
BY DEF TsInv, TaskStreamsTypeOK, OpenStreamsAreHeld, Sound

THEOREM TsInvariant == Spec => []TsInv
<1>1. Init => TsInv
  BY TsInitially DEF Init
<1>2. TsInv /\ [Next]_vars => TsInv'
  BY PartsAlone, TsStep, TsRests
<1> QED
  BY <1>1, <1>2, PTL DEF Spec

THEOREM AgentLogsInvariant == Spec => []AgentLogsAreOfTheTask
<1>1. Init => AgentLogsAreOfTheTask
  BY DEF Init, TsInit, Closed, Kinds, AgentLogsAreOfTheTask
<1>2. TsInv /\ AgentLogsAreOfTheTask /\ [Next]_vars => AgentLogsAreOfTheTask'
  <2>1. AgentLogsAreOfTheTask /\ UNCHANGED tsVars => AgentLogsAreOfTheTask'
    BY DEF AgentLogsAreOfTheTask, tsVars
  <2> QED
    BY <2>1, PartsAlone, AgentLogsStep
<1> QED
  BY <1>1, <1>2, TsInvariant, PTL DEF Spec

-----------------------------------------------------------------------------
(* ApiStreams. An attempt that no change overtook has the credentials of the   *)
(* client, also while its socket is being created; so has what it delivers.    *)

StreamRecords == [at: {"none", "creating", "connecting", "open", "retrying", "paused"},
                  transport: Attempts, attempts: SUBSET Attempts, registered: BOOLEAN]

Current(a, cred) == a \in Attempts /\ (~a.overtaken => a.cred = cred)

\* A stream of the registry, or one that is not registered yet.
Follows(x, cred) ==
  /\ x \in StreamRecords
  /\ x.transport # NoTransport => Current(x.transport, cred)
  /\ \A a \in x.attempts : Current(a, cred)
  /\ ~x.registered => x.transport = NoTransport

AsInv ==
  /\ asCred \in Creds \union {NoCred} /\ asPending \in BOOLEAN /\ asDisposed \in BOOLEAN
  /\ DOMAIN asStreams = Streams /\ asStreams = [s \in Streams |-> asStreams[s]]
  /\ \A s \in Streams : Follows(asStreams[s], asCred)

LEMMA AsInvIs == AsInv => ApiStreamsTypeOK
<1> SUFFICES ASSUME AsInv PROVE ApiStreamsTypeOK
  OBVIOUS
<1>1. asStreams \in [Streams -> StreamRecords]
  BY DEF AsInv, Follows
<1> QED
  BY <1>1 DEF AsInv, ApiStreamsTypeOK, StreamRecords

LEMMA AttemptIsCurrent ==
  ASSUME NEW cred \in Creds \union {NoCred} PROVE Current(Attempt(cred), cred)
BY DEF Current, Attempt, Attempts

LEMMA NoTransportType == NoTransport \in Attempts /\ NoTransport.cred = NoCred
BY DEF NoTransport, Attempt, Attempts

LEMMA NoStreamFollows == ASSUME NEW cred PROVE Follows(NoStream, cred)
BY NoTransportType DEF NoStream, Follows, StreamRecords

LEMMA AsInitially == AsInit => AsInv
BY NoStreamFollows DEF AsInit, AsInv

LEMMA ConnectFollows ==
  ASSUME NEW x \in StreamRecords, NEW cred \in Creds \union {NoCred},
         \A a \in x.attempts : Current(a, cred)
  PROVE  Follows(ConnectStream(x, cred), cred)
<1> DEFINE at == IF x.transport.sse THEN "paused" ELSE "connecting"
           attempts == x.attempts \union {Attempt(cred)}
           y == [x EXCEPT !.at = at, !.transport = NoTransport, !.attempts = attempts]
<1>1. at \in {"none", "creating", "connecting", "open", "retrying", "paused"}
  OBVIOUS
<1>2. \A a \in attempts : Current(a, cred)
  BY AttemptIsCurrent
<1>3. attempts \in SUBSET Attempts
  BY <1>2 DEF Current
<1>4. ConnectStream(x, cred) = y
  BY DEF ConnectStream
<1> HIDE DEF at, attempts
<1>5. y \in StreamRecords /\ y.transport = NoTransport /\ y.attempts = attempts
  BY <1>1, <1>3, NoTransportType DEF StreamRecords
<1> HIDE DEF y
<1> QED
  BY <1>2, <1>4, <1>5 DEF Follows

LEMMA PauseFollows ==
  ASSUME NEW x \in StreamRecords, NEW cred, \A a \in x.attempts : Current(a, cred)
  PROVE  Follows(PauseStream(x), cred)
<1> DEFINE y == PauseStream(x)
<1>1. y \in StreamRecords /\ y.transport = NoTransport /\ y.attempts = x.attempts
  BY NoTransportType DEF PauseStream, StreamRecords
<1> HIDE DEF y
<1>2. Follows(y, cred)
  BY <1>1 DEF Follows
<1> QED
  BY <1>2 DEF y

LEMMA StateFollows ==
  ASSUME NEW x, NEW cred, Follows(x, cred), NEW at \in {"open", "retrying"}
  PROVE  Follows([x EXCEPT !.at = at], cred)
<1> DEFINE y == [x EXCEPT !.at = at]
<1>1. /\ y \in StreamRecords /\ y.transport = x.transport /\ y.attempts = x.attempts
      /\ y.registered = x.registered
  BY DEF Follows, StreamRecords
<1> HIDE DEF y
<1>2. Follows(y, cred)
  BY <1>1 DEF Follows
<1> QED
  BY <1>2 DEF y

LEMMA FailingFollows ==
  ASSUME NEW x, NEW cred \in Creds \union {NoCred}, Follows(x, cred), NEW y \in Failing(x, cred)
  PROVE  Follows(y, cred)
<1>1. x \in StreamRecords /\ \A a \in x.attempts : Current(a, cred)
  BY DEF Follows
<1>2. \/ y = ConnectStream(x, cred) \/ y = x \/ y = PauseStream(x)
      \/ y = [x EXCEPT !.at = "retrying"]
  BY DEF Failing
<1>3. Follows(ConnectStream(x, cred), cred) /\ Follows(PauseStream(x), cred)
  BY <1>1, ConnectFollows, PauseFollows
<1>4. Follows([x EXCEPT !.at = "retrying"], cred)
  BY StateFollows, Zenon
<1> QED
  BY <1>2, <1>3, <1>4, Zenon

LEMMA EndedFollows ==
  ASSUME NEW x, NEW cred \in Creds \union {NoCred}, Follows(x, cred), x.registered,
         NEW a, Current(a, cred), NEW y \in Ended(x, a, cred)
  PROVE  Follows(y, cred)
<1>1. CASE y \in Failing(x, cred)
  BY <1>1, FailingFollows
<1>2. CASE y = Deliver(x, a)
  <2>1. CASE x.at # "connecting"
    BY <1>2, <2>1 DEF Deliver
  <2>2. CASE x.at = "connecting"
    <3> DEFINE z == [x EXCEPT !.transport = a]
    <3>1. /\ z \in StreamRecords /\ z.transport = a /\ z.attempts = x.attempts
          /\ z.registered = x.registered
      BY DEF Follows, StreamRecords, Current
    <3>2. y = z
      BY <1>2, <2>2 DEF Deliver
    <3> HIDE DEF z
    <3> QED
      BY <3>1, <3>2 DEF Follows
  <2> QED
    BY <2>1, <2>2
<1> QED
  BY <1>1, <1>2 DEF Ended

LEMMA WithoutFollows ==
  ASSUME NEW x, NEW cred, Follows(x, cred), NEW a
  PROVE  Follows(Without(x, a), cred) /\ Without(x, a).registered = x.registered
<1> DEFINE y == Without(x, a)
<1>1. /\ y \in StreamRecords /\ y.transport = x.transport /\ y.attempts = x.attempts \ {a}
      /\ y.registered = x.registered
  BY DEF Without, Follows, StreamRecords
<1> HIDE DEF y
<1>2. Follows(y, cred)
  BY <1>1 DEF Follows
<1> QED
  BY <1>1, <1>2 DEF y

\* A change of credentials marks what is in flight.
LEMMA OvertakenIsCurrent ==
  ASSUME NEW x \in StreamRecords, NEW cred
  PROVE  /\ Overtake(x) \in StreamRecords
         /\ Overtake(x).transport = x.transport /\ Overtake(x).registered = x.registered
         /\ \A a \in Overtake(x).attempts : Current(a, cred)
<1> DEFINE attempts == {[a EXCEPT !.overtaken = TRUE] : a \in x.attempts}
           y == [x EXCEPT !.attempts = attempts]
<1>1. \A a \in attempts : a \in Attempts /\ a.overtaken
  BY DEF StreamRecords, Attempts
<1>2. Overtake(x) = y
  BY DEF Overtake
<1> HIDE DEF attempts
<1>3. /\ y \in StreamRecords /\ y.transport = x.transport /\ y.registered = x.registered
      /\ y.attempts = attempts
  BY <1>1 DEF StreamRecords
<1> HIDE DEF y
<1> QED
  BY <1>1, <1>2, <1>3 DEF Current

LEMMA OneSocket ==
  ASSUME AsInv, NEW s \in Streams, NEW y, Follows(y, asCred),
         asStreams' = [asStreams EXCEPT ![s] = y], UNCHANGED <<asCred, asPending, asDisposed>>
  PROVE  AsInv'
BY DEF AsInv

LEMMA AsStep == AsInv /\ AsNext => AsInv'
<1> SUFFICES ASSUME AsInv, AsNext PROVE AsInv'
  OBVIOUS
<1>0. /\ asCred \in Creds \union {NoCred} /\ asPending \in BOOLEAN /\ asDisposed \in BOOLEAN
      /\ \A s \in Streams : Follows(asStreams[s], asCred) /\ asStreams[s] \in StreamRecords
  BY DEF AsInv, Follows
<1>1. ASSUME NEW s \in Streams, Watch(s) PROVE AsInv'
  <2> DEFINE y == [NoStream EXCEPT !.at = "creating", !.attempts = {Attempt(asCred)}]
  <2>1. /\ y \in StreamRecords /\ y.transport = NoTransport /\ y.attempts = {Attempt(asCred)}
    BY <1>0, AttemptIsCurrent, NoTransportType DEF NoStream, StreamRecords, Current
  <2>2. asStreams' = [asStreams EXCEPT ![s] = y] /\ UNCHANGED <<asCred, asPending, asDisposed>>
    BY <1>1 DEF Watch
  <2> HIDE DEF y
  <2>3. Follows(y, asCred)
    BY <1>0, <2>1, AttemptIsCurrent DEF Follows
  <2> QED
    BY <2>2, <2>3, OneSocket
<1>2. ASSUME NEW s \in Streams, Created(s) PROVE AsInv'
  <2> DEFINE x == [asStreams[s] EXCEPT !.at = "connecting", !.registered = TRUE, !.attempts = {}]
  <2>1. PICK a \in asStreams[s].attempts :
          \E y \in Ended(x, a, asCred) :
            asStreams' = [asStreams EXCEPT ![s] = y] /\ UNCHANGED <<asCred, asPending, asDisposed>>
    BY <1>2 DEF Created
  <2>2. /\ x \in StreamRecords /\ x.transport = asStreams[s].transport /\ x.attempts = {}
        /\ x.registered
    BY <1>0 DEF StreamRecords
  <2> HIDE DEF x
  <2>3. Follows(x, asCred)
    BY <1>0, <2>2 DEF Follows
  <2>4. Current(a, asCred)
    BY <1>0, <2>1 DEF Follows
  <2> QED
    BY <1>0, <2>1, <2>2, <2>3, <2>4, EndedFollows, OneSocket
<1>3. ASSUME NEW s \in Streams, AttemptEnds(s) PROVE AsInv'
  <2>0. PICK a \in asStreams[s].attempts :
          \E x \in {asStreams[s], Without(asStreams[s], a)} : \E y \in Ended(x, a, asCred) :
            asStreams' = [asStreams EXCEPT ![s] = y] /\ UNCHANGED <<asCred, asPending, asDisposed>>
    BY <1>3 DEF AttemptEnds
  <2>1. PICK x \in {asStreams[s], Without(asStreams[s], a)} :
          \E y \in Ended(x, a, asCred) :
            asStreams' = [asStreams EXCEPT ![s] = y] /\ UNCHANGED <<asCred, asPending, asDisposed>>
    BY <2>0
  <2>2. asStreams[s].registered
    BY <1>3 DEF AttemptEnds
  <2>3. Follows(x, asCred) /\ x.registered
    BY <1>0, <2>1, <2>2, WithoutFollows
  <2>4. Current(a, asCred)
    BY <1>0, <2>0 DEF Follows
  <2> QED
    BY <1>0, <2>1, <2>3, <2>4, EndedFollows, OneSocket
<1>4. ASSUME NEW s \in Streams, FallsBack(s) PROVE AsInv'
  <2> DEFINE b == [Attempt(asCred) EXCEPT !.sse = TRUE]
  <2>1. PICK a \in asStreams[s].attempts :
          asStreams' = [asStreams EXCEPT ![s].attempts = (@ \ {a}) \union {b}]
    BY <1>4 DEF FallsBack
  <2> DEFINE attempts == (asStreams[s].attempts \ {a}) \union {b}
             y == [asStreams[s] EXCEPT !.attempts = attempts]
  <2>2. Current(b, asCred)
    BY <1>0 DEF Attempt, Attempts, Current
  <2> HIDE DEF b
  <2>3. asStreams' = [asStreams EXCEPT ![s] = y]
    BY <2>1
  <2>4. \A c \in attempts : Current(c, asCred)
    BY <1>0, <2>2 DEF Follows
  <2> HIDE DEF attempts
  <2>5. /\ y \in StreamRecords /\ y.transport = asStreams[s].transport
        /\ y.attempts = attempts /\ y.registered = asStreams[s].registered
    BY <1>0, <2>4 DEF StreamRecords, Current
  <2> HIDE DEF y
  <2>6. Follows(y, asCred)
    BY <1>0, <2>4, <2>5 DEF Follows
  <2> QED
    BY <1>4, <2>3, <2>6, OneSocket DEF FallsBack
<1>5. ASSUME NEW s \in Streams, StreamMoves(s) PROVE AsInv'
  <2>1. Follows(asStreams[s], asCred) /\ UNCHANGED <<asCred, asPending, asDisposed>>
    BY <1>0, <1>5 DEF StreamMoves
  <2>2. \E y : Follows(y, asCred) /\ asStreams' = [asStreams EXCEPT ![s] = y]
    <3>1. CASE asStreams' = [asStreams EXCEPT ![s].at = "open"]
      <4>1. asStreams' = [asStreams EXCEPT ![s] = [asStreams[s] EXCEPT !.at = "open"]]
        BY <3>1
      <4> QED
        BY <2>1, <4>1, StateFollows
    <3>2. CASE \E y \in Failing(asStreams[s], asCred) : asStreams' = [asStreams EXCEPT ![s] = y]
      BY <1>0, <2>1, <3>2, FailingFollows
    <3>3. CASE asStreams' = [asStreams EXCEPT ![s] = ConnectStream(asStreams[s], asCred)]
      BY <1>0, <2>1, <3>3, ConnectFollows DEF Follows
    <3> QED
      BY <1>5, <3>1, <3>2, <3>3 DEF StreamMoves
  <2> QED
    BY <2>1, <2>2, OneSocket
<1>6. ASSUME NEW s \in Streams, CloseStream(s) PROVE AsInv'
  BY <1>6, NoStreamFollows, OneSocket DEF CloseStream
<1>7. ASSUME NEW c \in Creds \union {NoCred}, SetStreamCredentials(c) PROVE AsInv'
  <2>1. ASSUME NEW s \in Streams PROVE Follows(asStreams'[s], c)
    <3> DEFINE x == Overtake(asStreams[s])
    <3>1. /\ x \in StreamRecords /\ x.transport = asStreams[s].transport
          /\ x.registered = asStreams[s].registered /\ \A a \in x.attempts : Current(a, c)
      BY <1>0, OvertakenIsCurrent
    <3>2. asStreams'[s] = IF asStreams[s].registered THEN Follow(x, c) ELSE x
      BY <1>7 DEF SetStreamCredentials
    <3> HIDE DEF x
    <3>3. CASE asStreams[s].registered
      BY <3>1, <3>2, <3>3, ConnectFollows, PauseFollows DEF Follow
    <3>4. CASE ~asStreams[s].registered
      BY <1>0, <3>1, <3>2, <3>4 DEF Follows
    <3> QED
      BY <3>3, <3>4
  <2> QED
    BY <1>0, <1>7, <2>1 DEF SetStreamCredentials, AsInv
<1>8. CASE SettingsChange
  BY <1>8 DEF SettingsChange, AsInv
<1>9. CASE SettingsSettle
  <2>1. \A s \in Streams : Follows(ConnectStream(asStreams[s], asCred), asCred)
    BY <1>0, ConnectFollows DEF Follows
  <2> QED
    BY <1>9, <2>1 DEF SettingsSettle, AsInv
<1>10. CASE AsDispose
  BY <1>10, NoStreamFollows DEF AsDispose, AsInv
<1> QED
  BY <1>1, <1>2, <1>3, <1>4, <1>5, <1>6, <1>7, <1>8, <1>9, <1>10 DEF AsNext

LEMMA AsRests == AsInv /\ UNCHANGED asVars => AsInv'
BY DEF AsInv, asVars

THEOREM AsInvariant == Spec => []AsInv
<1>1. Init => AsInv
  BY AsInitially DEF Init
<1>2. AsInv /\ [Next]_vars => AsInv'
  BY PartsAlone, AsStep, AsRests
<1> QED
  BY <1>1, <1>2, PTL DEF Spec

(* No stream of the tasks panel is lost and its agent logs are those of the    *)
(* task shown (LazyStream, streamWorkspaceLogs); and the transports of the API *)
(* client's sockets have its credentials (CoderApi.setCredentials), but for    *)
(* those whose factory was in flight when they changed.                        *)
THEOREM StreamsStayKept == Spec => []StreamsAreKept
<1>1. TsInv /\ AgentLogsAreOfTheTask /\ AsInv => StreamsAreKept
  BY TsTypeIs DEF AsInv, Follows, Current, StreamsAreKept, StreamsFollowClient
<1> QED
  BY <1>1, TsInvariant, AgentLogsInvariant, AsInvariant, PTL

-----------------------------------------------------------------------------
(* TasksPanel: its type, for which the call that an older server needs must be *)
(* a pause or a resumption. CliTerminal: its type.                             *)

RequestRecords == [kind: {"none", "details"} \union TaskActions,
                   at: {"done", "task", "logs", "confirm", "call", "legacy"},
                   stable: BOOLEAN, waiting: BOOLEAN]

TkInv ==
  /\ TasksPanelTypeOK
  /\ \A r \in Requests : tkRequests[r].at = "legacy" => tkRequests[r].kind \in {"pause", "resume"}

LEMMA FreeType == Free \in RequestRecords /\ Free.at = "done"
BY DEF Free, RequestRecords

LEMMA TkInitially == TkInit => TkInv
<1> SUFFICES ASSUME TkInit PROVE TkInv
  OBVIOUS
<1>1. tkRequests \in [Requests -> RequestRecords] /\ \A r \in Requests : tkRequests[r].at = "done"
  BY FreeType DEF TkInit
<1>2. tkServer \in [phase: {"building", "working", "idle", "paused", "gone"}, logs: 0 .. MaxLogs]
  BY LogsAssumption DEF TkInit
<1> QED
  BY <1>1, <1>2 DEF TkInit, TkInv, TasksPanelTypeOK, RequestRecords

\* One request changes.
LEMMA OneRequest ==
  ASSUME TkInv, NEW r \in Requests, NEW request \in RequestRecords,
         request.at = "legacy" => request.kind \in {"pause", "resume"},
         tkRequests' = [tkRequests EXCEPT ![r] = request]
  PROVE  /\ tkRequests' \in [Requests -> RequestRecords]
         /\ \A q \in Requests : tkRequests'[q].at = "legacy" => tkRequests'[q].kind \in {"pause", "resume"}
BY DEF TkInv, TasksPanelTypeOK, RequestRecords

RequestsFit ==
  /\ tkRequests' \in [Requests -> RequestRecords]
  /\ \A q \in Requests : tkRequests'[q].at = "legacy" => tkRequests'[q].kind \in {"pause", "resume"}

LEMMA RequestFits ==
  ASSUME TkInv, NEW kind \in {"details"} \union TaskActions, NEW at \in {"task", "confirm", "call", "legacy"},
         at = "legacy" => kind \in {"pause", "resume"}, Request(kind, at)
  PROVE  RequestsFit
<1>1. PICK r \in Requests : tkRequests' = [tkRequests EXCEPT ![r] =
                              [kind |-> kind, at |-> at, stable |-> FALSE, waiting |-> TRUE]]
  BY DEF Request
<1>2. [kind |-> kind, at |-> at, stable |-> FALSE, waiting |-> TRUE] \in RequestRecords
  BY DEF RequestRecords
<1> QED
  BY <1>1, <1>2, OneRequest DEF RequestsFit

LEMMA AnswerFits ==
  ASSUME TkInv, NEW r \in Requests, NEW logs \in {NoLogs, Failed} \union 0 .. MaxLogs, Answer(r, logs)
  PROVE  RequestsFit /\ tkShown' \in {NoLogs, Failed} \union 0 .. MaxLogs
<1>1. RequestsFit
  BY FreeType, OneRequest DEF Answer, RequestsFit
<1>2. tkShown' \in {NoLogs, Failed} \union 0 .. MaxLogs
  BY DEF Answer, TkInv, TasksPanelTypeOK
<1> QED
  BY <1>1, <1>2

LEMMA GoOnFits ==
  ASSUME TkInv, NEW r \in Requests, NEW at \in {"logs", "call", "legacy"}, NEW stable \in BOOLEAN,
         at = "legacy" => tkRequests[r].kind \in {"pause", "resume"}, GoOn(r, at, stable)
  PROVE  RequestsFit /\ tkShown' = tkShown
<1> DEFINE request == [tkRequests[r] EXCEPT !.at = at, !.stable = stable]
<1>1. tkRequests' = [tkRequests EXCEPT ![r] = request] /\ tkShown' = tkShown
  BY DEF GoOn
<1>2. request \in RequestRecords /\ request.at = at /\ request.kind = tkRequests[r].kind
  <2>1. tkRequests[r] \in RequestRecords
    BY DEF TkInv, TasksPanelTypeOK, RequestRecords
  <2> QED
    BY <2>1 DEF RequestRecords
<1> HIDE DEF request
<1> QED
  BY <1>1, <1>2, OneRequest DEF RequestsFit

LEMMA DoneFits ==
  ASSUME TkInv, NEW r \in Requests, tkRequests[r].kind \in {"pause", "resume", "send"}, Done(r)
  PROVE  /\ RequestsFit /\ tkShown' \in {NoLogs, Failed} \union 0 .. MaxLogs
         /\ tkServer' \in [phase: {"building", "working", "idle", "paused", "gone"}, logs: 0 .. MaxLogs]
<1>1. Answer(r, NoLogs)
  BY DEF Done
<1>2. Effect(tkRequests[r].kind) \in {"paused", "building", "working"}
  BY DEF Effect
<1>3. tkServer' \in [phase: {"building", "working", "idle", "paused", "gone"}, logs: 0 .. MaxLogs]
  BY <1>2 DEF Done, TkInv, TasksPanelTypeOK
<1> QED
  BY <1>1, <1>3, AnswerFits

LEMMA TkStep == TkInv /\ TkNext => TkInv'
<1> SUFFICES ASSUME TkInv, TkNext PROVE TkInv'
  OBVIOUS
<1> DEFINE Logs == {NoLogs, Failed} \union 0 .. MaxLogs
           TaskStates == [phase: {"building", "working", "idle", "paused", "gone"}, logs: 0 .. MaxLogs]
<1>0. /\ tkRequests \in [Requests -> RequestRecords] /\ tkSelected \in BOOLEAN /\ tkLegacy \in BOOLEAN
      /\ tkShown \in Logs /\ tkCached \in Logs /\ tkServer \in TaskStates
  BY DEF TkInv, TasksPanelTypeOK, RequestRecords
<1>1. ASSUME RequestsFit, tkSelected' \in BOOLEAN, tkLegacy' \in BOOLEAN,
             tkShown' \in Logs, tkCached' \in Logs, tkServer' \in TaskStates
      PROVE  TkInv'
  BY <1>1 DEF RequestsFit, TkInv, TasksPanelTypeOK, RequestRecords
<1>2. NoLogs \in Logs /\ Failed \in Logs /\ tkServer.logs \in Logs /\ tkServer.logs \in 0 .. MaxLogs
  BY <1>0
<1>3. UNCHANGED tkRequests => RequestsFit
  BY <1>0 DEF RequestsFit, TkInv
<1> HIDE DEF Logs, TaskStates
<1>4. CASE PollDetails
  <2>1. RequestsFit
    BY <1>4, RequestFits DEF PollDetails
  <2> QED
    BY <1>0, <1>4, <1>1, <2>1 DEF PollDetails
<1>5. ASSUME NEW kind \in TaskActions, StartAction(kind) PROVE TkInv'
  <2>1. RequestsFit
    <3> DEFINE at == CASE kind = "delete" -> "confirm" [] kind = "send" -> "task"
                       [] OTHER -> IF tkLegacy THEN "legacy" ELSE "call"
    <3>1. at \in {"task", "confirm", "call", "legacy"} /\ (at = "legacy" => kind \in {"pause", "resume"})
      BY DEF TaskActions
    <3>2. Request(kind, at)
      BY <1>5 DEF StartAction
    <3> HIDE DEF at
    <3> QED
      BY <3>1, <3>2, RequestFits
  <2> QED
    BY <1>0, <1>5, <1>1, <2>1 DEF StartAction
<1>6. ASSUME NEW r \in Requests, RequestTimesOut(r) PROVE TkInv'
  <2> DEFINE request == IF tkRequests[r].at = "done" THEN Free
                        ELSE [tkRequests[r] EXCEPT !.waiting = FALSE]
  <2>1. tkRequests' = [tkRequests EXCEPT ![r] = request]
    BY <1>6 DEF RequestTimesOut
  <2>2. /\ request \in RequestRecords
        /\ request.at = "legacy" => request.kind \in {"pause", "resume"}
    <3>1. tkRequests[r] \in RequestRecords
      BY <1>0
    <3> QED
      BY <3>1, FreeType DEF TkInv, RequestRecords
  <2> HIDE DEF request
  <2>3. RequestsFit
    BY <2>1, <2>2, OneRequest DEF RequestsFit
  <2> QED
    BY <1>0, <1>6, <1>1, <2>3 DEF RequestTimesOut
<1>7. CASE Select
  BY <1>0, <1>7, <1>1, <1>3 DEF Select
<1>8. ASSUME NEW unmounts \in BOOLEAN, Leave(unmounts) PROVE TkInv'
  <2>1. \A r \in Requests : /\ [tkRequests[r] EXCEPT !.waiting = FALSE] \in RequestRecords
                            /\ [tkRequests[r] EXCEPT !.waiting = FALSE].at = tkRequests[r].at
                            /\ [tkRequests[r] EXCEPT !.waiting = FALSE].kind = tkRequests[r].kind
    BY <1>0 DEF RequestRecords
  <2>2. tkRequests' = [r \in Requests |->
                         IF unmounts \/ tkRequests[r].kind = "details"
                         THEN [tkRequests[r] EXCEPT !.waiting = FALSE] ELSE tkRequests[r]]
    BY <1>8 DEF Leave
  <2>3. RequestsFit
    BY <1>0, <2>1, <2>2 DEF RequestsFit, TkInv
  <2> QED
    BY <1>0, <1>8, <1>1, <1>2, <2>3 DEF Leave
<1>9. CASE RefreshTasks
  BY <1>0, <1>9, <1>1, <1>2, <1>3 DEF RefreshTasks
<1>10. CASE TaskRuns
  <2>1. tkServer' \in TaskStates
    BY <1>0, <1>10, LogsAssumption DEF TaskRuns, TaskStates
  <2> QED
    BY <1>0, <1>10, <1>1, <1>3, <2>1 DEF TaskRuns
<1>11. ASSUME NEW r \in Requests, GetTaskDetails(r) PROVE TkInv'
  <2>1. RequestsFit /\ tkShown' \in Logs
    <3>1. \/ Answer(r, NoLogs) \/ Answer(r, tkCached)
          \/ GoOn(r, "logs", tkServer.phase \in Stable)
      BY <1>11 DEF GetTaskDetails
    <3>2. CASE Answer(r, NoLogs) \/ Answer(r, tkCached)
      BY <1>0, <1>2, <3>2, AnswerFits DEF Logs
    <3>3. CASE GoOn(r, "logs", tkServer.phase \in Stable)
      <4>1. (tkServer.phase \in Stable) \in BOOLEAN
        OBVIOUS
      <4>2. RequestsFit /\ tkShown' = tkShown
        BY <3>3, <4>1, GoOnFits, Zenon
      <4> QED
        BY <1>0, <4>2
    <3> QED
      BY <3>1, <3>2, <3>3
  <2> QED
    BY <1>0, <1>11, <1>1, <2>1 DEF GetTaskDetails
<1>12. ASSUME NEW r \in Requests, FetchTaskLogs(r) PROVE TkInv'
  <2>1. PICK logs \in {tkServer.logs, Failed} :
          /\ Answer(r, logs)
          /\ tkCached' = IF tkRequests[r].stable THEN logs ELSE tkCached
    BY <1>12 DEF FetchTaskLogs
  <2>2. logs \in Logs
    BY <1>2
  <2>3. RequestsFit /\ tkShown' \in Logs
    BY <2>1, <2>2, AnswerFits DEF Logs
  <2> QED
    BY <1>0, <1>12, <1>1, <2>1, <2>2, <2>3 DEF FetchTaskLogs
<1>13. ASSUME NEW r \in Requests, PauseOrResumeTask(r) PROVE TkInv'
  <2>1. CASE Done(r) /\ UNCHANGED tkLegacy
    <3>1. RequestsFit /\ tkShown' \in Logs /\ tkServer' \in TaskStates
      BY <1>13, <2>1, DoneFits DEF PauseOrResumeTask, Logs, TaskStates
    <3> QED
      BY <1>0, <1>13, <1>1, <2>1, <3>1 DEF PauseOrResumeTask
  <2>2. CASE GoOn(r, "legacy", FALSE) /\ tkLegacy' = TRUE /\ UNCHANGED tkServer
    <3>1. RequestsFit /\ tkShown' = tkShown
      BY <1>13, <2>2, GoOnFits DEF PauseOrResumeTask
    <3> QED
      BY <1>0, <1>13, <1>1, <2>2, <3>1 DEF PauseOrResumeTask
  <2> QED
    BY <1>13, <2>1, <2>2 DEF PauseOrResumeTask
<1>14. ASSUME NEW r \in Requests, LegacyPauseOrResume(r) PROVE TkInv'
  <2>1. RequestsFit /\ tkShown' \in Logs /\ tkServer' \in TaskStates
    BY <1>14, DoneFits DEF LegacyPauseOrResume, TkInv, Logs, TaskStates
  <2> QED
    BY <1>0, <1>14, <1>1, <2>1 DEF LegacyPauseOrResume
<1>15. ASSUME NEW r \in Requests, SendMessage(r) PROVE TkInv'
  <2>1. RequestsFit /\ tkShown' \in Logs /\ tkServer' \in TaskStates
    <3>1. CASE Answer(r, NoLogs) /\ UNCHANGED tkServer
      BY <1>0, <3>1, AnswerFits DEF Logs
    <3>2. CASE GoOn(r, "call", FALSE) /\ UNCHANGED tkServer
      BY <1>0, <3>2, GoOnFits
    <3>3. CASE Done(r)
      BY <1>15, <3>3, DoneFits DEF SendMessage, Logs, TaskStates
    <3> QED
      BY <1>15, <3>1, <3>2, <3>3 DEF SendMessage
  <2> QED
    BY <1>0, <1>15, <1>1, <2>1 DEF SendMessage
<1>16. ASSUME NEW r \in Requests, DeleteTask(r) PROVE TkInv'
  <2>1. RequestsFit /\ tkShown' \in Logs
    <3>1. Answer(r, NoLogs) \/ GoOn(r, "call", FALSE)
      BY <1>16 DEF DeleteTask
    <3> QED
      BY <1>0, <3>1, AnswerFits, GoOnFits DEF Logs
  <2>2. tkServer' \in TaskStates /\ tkCached' \in Logs
    <3>1. UNCHANGED tkServer \/ tkServer' = [tkServer EXCEPT !.phase = "gone"]
      BY <1>16 DEF DeleteTask
    <3>2. UNCHANGED tkCached \/ tkCached' = NoLogs
      BY <1>16 DEF DeleteTask
    <3> QED
      BY <1>0, <1>2, <3>1, <3>2 DEF TaskStates
  <2> QED
    BY <1>0, <1>16, <1>1, <2>1, <2>2 DEF DeleteTask
<1> QED
  BY <1>4, <1>5, <1>6, <1>7, <1>8, <1>9, <1>10, <1>11, <1>12, <1>13, <1>14, <1>15, <1>16
  DEF TkNext, Handle

LEMMA TkRests == TkInv /\ UNCHANGED tkVars => TkInv'
BY DEF TkInv, tkVars, TasksPanelTypeOK

LEMMA CtInitially == CtInit => TerminalTypeOK
BY DEF CtInit, TerminalTypeOK

LEMMA CtStep == TerminalTypeOK /\ (CtNext \/ UNCHANGED ctVars) => TerminalTypeOK'
BY DEF CtNext, ctVars, TerminalTypeOK, Spawn, ProcessEnds, ReportEnd, CtrlC, KillTimerFires,
       CloseTerminal, Killed, ClearTimer, GracefulKill, Alive

-----------------------------------------------------------------------------
(* Telemetry. Events go from the buffer to a batch and from there to a file,   *)
(* so that whatever is in a file was logged before all that is in the batch,   *)
(* and that before all that is in the buffer. What the sink knows of its       *)
(* segment is what is there: its size, until there are lines that it did not    *)
(* count, and at any time whether it has a header.                             *)

Lines == Events \union {Header}
Sorted(s) == \A i, j \in 1 .. Len(s) : i < j => s[i] < s[j]
AllLess(s, t) == \A i \in 1 .. Len(s), j \in 1 .. Len(t) : s[i] < t[j]
Before(s, n) == \A i \in 1 .. Len(s) : s[i] < n

\* one file by itself
InOrder(f) ==
  /\ f \in Seq(Lines)
  /\ f # <<>> => f[1] = Header
  /\ \A i, j \in 1 .. Len(f) : i < j => f[i] = Header \/ f[j] = Header \/ f[i] < f[j]
OneHeader(f) == \A j \in 2 .. Len(f) : f[j] # Header

\* every event of f comes before every event of g
FileBefore(f, g) ==
  \A i \in 1 .. Len(f), j \in 1 .. Len(g) : f[i] = Header \/ g[j] = Header \/ f[i] < g[j]

SinkTypeOK ==
  /\ tlLevel \in BOOLEAN /\ tlQueued \in BOOLEAN /\ tlTimer \in BOOLEAN
  /\ tlTrace \in [span: {"none", "open", "ended"}, phase: {"none", "open", "ended"}, level: BOOLEAN]
  /\ tlEmitted \subseteq {"span", "phase"}
  /\ tlWaiters \subseteq {"queued", "running"}
  /\ tlService \in {"up", "queued", "running", "flushed", "disposed"}
  /\ tlRestarted \in BOOLEAN /\ tlUncounted \in BOOLEAN

\* whatever was emitted was so at the level of the trace
EmittedAtItsLevel ==
  \A p \in {"span", "phase"} :
    p \in tlEmitted <=> tlTrace[p] = "ended" /\ tlTrace.level

QueueInOrder ==
  /\ tlNext \in 1 .. MaxEvents + 1
  /\ tlBuffer \in Seq(Events) /\ Len(tlBuffer) <= BufferLimit
  /\ tlRun.at \in {"idle", "running"} /\ tlRun.batch \in Seq(Events)
  /\ Sorted(tlBuffer) /\ Sorted(tlRun.batch)
  /\ AllLess(tlRun.batch, tlBuffer)
  /\ Before(tlBuffer, tlNext) /\ Before(tlRun.batch, tlNext)

FilesBehind ==
  \A s \in Segments :
    /\ AllLess(tlFiles[s], tlRun.batch) /\ AllLess(tlFiles[s], tlBuffer)
    /\ Before(tlFiles[s], tlNext)

FilesInOrder ==
  /\ tlFiles \in [Segments -> Seq(Lines)]
  /\ \A s \in Segments : InOrder(tlFiles[s])
  /\ ~tlUncounted =>
       /\ \A s \in Segments : OneHeader(tlFiles[s])
       /\ \A s, t \in Segments : s < t => FileBefore(tlFiles[s], tlFiles[t])

\* what a sink that holds current knows of the files
Knows(current, files) ==
  /\ current \in [segment: 0 .. MaxSegments, size: Nat]
  /\ current = Unseeded \/ current.segment \in Segments
  /\ current.segment \in Segments /\ current.size > 0 => files[current.segment] # <<>>
  /\ ~tlUncounted =>
       /\ \A s \in Segments : s > current.segment => files[s] = <<>>
       /\ current.segment \in Segments => current.size = Len(files[current.segment])

SinkInv == QueueInOrder /\ FilesBehind /\ FilesInOrder /\ Knows(tlCurrent, tlFiles)

TlInv == SinkTypeOK /\ EmittedAtItsLevel /\ SinkInv

LEMMA Numbers ==
  /\ MaxEvents \in Nat \ {0} /\ MaxSegments \in Nat \ {0} /\ BufferLimit \in Nat \ {0}
  /\ FlushBatchSize \in Nat \ {0} /\ MaxFileSize \in Nat \ {0}
  /\ Events \subseteq Nat /\ Segments \subseteq Nat /\ 1 \in Segments
  /\ Lines \subseteq Nat /\ Header = 0 /\ Header \in Lines /\ Events \subseteq Lines /\ Header \notin Events
BY TelemetryAssumption DEF Events, Segments, Lines, Header

LEMMA NothingInOrder ==
  /\ \A S : <<>> \in Seq(S)
  /\ Len(<<>>) = 0 /\ Sorted(<<>>) /\ InOrder(<<>>) /\ OneHeader(<<>>)
  /\ \A s : AllLess(<<>>, s) /\ AllLess(s, <<>>) /\ FileBefore(<<>>, s) /\ FileBefore(s, <<>>)
  /\ \A n : Before(<<>>, n)
<1>1. (\A S : <<>> \in Seq(S)) /\ Len(<<>>) = 0
  BY EmptySeq
<1>2. 1 .. Len(<<>>) = {} /\ 2 .. Len(<<>>) = {}
  BY <1>1
<1> QED
  BY <1>1, <1>2 DEF Sorted, InOrder, OneHeader, AllLess, FileBefore, Before

\* The last of a sequence are elements of it, at a distance.
IsLast(r, s, n, S) ==
  \E k \in Nat :
    /\ r \in Seq(S) /\ Len(r) <= n /\ Len(r) + k = Len(s)
    /\ \A i \in 1 .. Len(r) : r[i] = s[i + k]

LEMMA LastOf ==
  ASSUME NEW S, NEW s \in Seq(S), NEW n \in Nat \ {0}
  PROVE  IsLast(LastN(s, n), s, n, S)
<1>1. Len(s) \in Nat
  BY LenProperties
<1>2. CASE Len(s) <= n
  <2>1. LastN(s, n) = s
    BY <1>2 DEF LastN
  <2>2. 0 \in Nat /\ Len(s) + 0 = Len(s) /\ \A i \in 1 .. Len(s) : s[i] = s[i + 0]
    BY <1>1
  <2> QED
    BY <1>2, <2>1, <2>2, Zenon DEF IsLast
<1>3. CASE ~(Len(s) <= n)
  <2> DEFINE m == Len(s) - n + 1
  <2>1. m \in Int /\ m \in 1 .. Len(s) /\ Len(s) \in Int
    BY <1>1, <1>3
  <2>2. \A i \in m .. Len(s) : s[i] \in S
    BY <1>1, <2>1, ElementOfSeq
  <2>3. /\ SubSeq(s, m, Len(s)) \in Seq(S)
        /\ Len(SubSeq(s, m, Len(s))) = IF m <= Len(s) THEN Len(s) - m + 1 ELSE 0
        /\ \A i \in 1 .. Len(s) - m + 1 : SubSeq(s, m, Len(s))[i] = s[m + i - 1]
    BY <2>1, <2>2, SubSeqProperties
  <2>4. LastN(s, n) = SubSeq(s, m, Len(s))
    BY <1>3 DEF LastN
  <2>5. Len(LastN(s, n)) = n
    BY <1>1, <1>3, <2>3, <2>4
  <2>6. Len(s) - n \in Nat /\ n + (Len(s) - n) = Len(s)
    BY <1>1, <1>3
  <2>7. \A i \in 1 .. n : LastN(s, n)[i] = s[i + (Len(s) - n)]
    <3> SUFFICES ASSUME NEW i \in 1 .. n PROVE LastN(s, n)[i] = s[i + (Len(s) - n)]
      OBVIOUS
    <3>1. i \in 1 .. Len(s) - m + 1 /\ m + i - 1 = i + (Len(s) - n)
      BY <1>1, <1>3
    <3> QED
      BY <2>3, <2>4, <3>1
  <2>8. LastN(s, n) \in Seq(S) /\ Len(LastN(s, n)) <= n
    BY <2>3, <2>4, <2>5
  <2> QED
    <3> DEFINE k == Len(s) - n
               r == LastN(s, n)
    <3>1. k \in Nat /\ r \in Seq(S) /\ Len(r) <= n /\ Len(r) + k = Len(s)
      BY <2>5, <2>6, <2>8
    <3>2. \A i \in 1 .. Len(r) : r[i] = s[i + k]
      BY <2>5, <2>7
    <3> HIDE DEF k
    <3> QED
      BY <3>1, <3>2, Zenon DEF IsLast
<1> QED
  BY <1>2, <1>3

LEMMA AppendOf ==
  ASSUME NEW S, NEW s \in Seq(S), NEW e \in S
  PROVE  /\ Append(s, e) \in Seq(S) /\ Len(Append(s, e)) = Len(s) + 1 /\ Len(s) \in Nat
         /\ \A i \in 1 .. Len(s) : Append(s, e)[i] = s[i]
         /\ Append(s, e)[Len(s) + 1] = e
BY AppendProperties, LenProperties

\* The buffer after an event was written: a part of it and the event.
LEMMA Written1 ==
  ASSUME QueueInOrder, tlNext <= MaxEvents, NEW b, b = LastN(Append(tlBuffer, tlNext), BufferLimit)
  PROVE  /\ b \in Seq(Events) /\ Len(b) <= BufferLimit
         /\ \A i \in 1 .. Len(b) : b[i] = tlNext \/ \E k \in 1 .. Len(tlBuffer) : b[i] = tlBuffer[k]
         /\ Sorted(b)
<1>0. BufferLimit \in Nat \ {0}
  BY TelemetryAssumption
<1> DEFINE a == Append(tlBuffer, tlNext)
<1>1. tlNext \in Events /\ tlBuffer \in Seq(Events)
  BY TelemetryAssumption DEF QueueInOrder, Events
<1>2. /\ a \in Seq(Events) /\ Len(a) = Len(tlBuffer) + 1 /\ Len(tlBuffer) \in Nat
      /\ \A i \in 1 .. Len(tlBuffer) : a[i] = tlBuffer[i]
      /\ a[Len(tlBuffer) + 1] = tlNext
  BY <1>1, AppendOf
<1> HIDE DEF a
<1>3. PICK k \in Nat :
        /\ b \in Seq(Events) /\ Len(b) <= BufferLimit /\ Len(b) + k = Len(a)
        /\ \A i \in 1 .. Len(b) : b[i] = a[i + k]
  <2>1. b = LastN(a, BufferLimit)
    BY DEF a
  <2>2. a \in Seq(Events)
    BY <1>2
  <2>3. IsLast(LastN(a, BufferLimit), a, BufferLimit, Events)
    BY <1>0, <2>2, LastOf, Zenon
  <2> QED
    BY <2>1, <2>3, Zenon DEF IsLast
<1>4. Len(b) \in Nat
  BY <1>3, LenProperties
<1>5. \A i, j \in 1 .. Len(a) : i < j => a[i] < a[j]
  <2> SUFFICES ASSUME NEW i \in 1 .. Len(a), NEW j \in 1 .. Len(a), i < j PROVE a[i] < a[j]
    OBVIOUS
  <2>1. i \in 1 .. Len(tlBuffer)
    BY <1>2
  <2>2. CASE j \in 1 .. Len(tlBuffer)
    BY <1>2, <2>1, <2>2 DEF QueueInOrder, Sorted
  <2>3. CASE j = Len(tlBuffer) + 1
    BY <1>2, <2>1, <2>3 DEF QueueInOrder, Before
  <2> QED
    BY <1>2, <2>2, <2>3
<1>6. \A i \in 1 .. Len(b) : i + k \in 1 .. Len(a)
  BY <1>2, <1>3, <1>4
<1>7. Sorted(b)
  <2> SUFFICES ASSUME NEW i \in 1 .. Len(b), NEW j \in 1 .. Len(b), i < j PROVE b[i] < b[j]
    BY DEF Sorted
  <2>1. i + k < j + k
    BY <1>4
  <2> QED
    BY <1>3, <1>5, <1>6, <2>1
<1>8. ASSUME NEW i \in 1 .. Len(b)
      PROVE  b[i] = tlNext \/ \E l \in 1 .. Len(tlBuffer) : b[i] = tlBuffer[l]
  <2>1. i + k \in 1 .. Len(tlBuffer) \/ i + k = Len(tlBuffer) + 1
    BY <1>2, <1>6
  <2> QED
    BY <1>2, <1>3, <2>1
<1> QED
  BY <1>3, <1>7, <1>8

\* What an append leaves of a file: its lines, then a header or none, then the batch.
Grown(g, f, h, batch) ==
  /\ g \in Seq(Lines) /\ Len(f) \in Nat /\ Len(h) \in Nat /\ Len(batch) \in Nat
  /\ Len(g) = Len(f) + Len(h) + Len(batch)
  /\ \A i \in 1 .. Len(f) : g[i] = f[i]
  /\ \A i \in 1 .. Len(h) : g[Len(f) + i] = Header
  /\ \A i \in 1 .. Len(batch) : g[Len(f) + Len(h) + i] = batch[i]

\* the second sequence after the first
Joined(r, s, t, S) ==
  /\ r \in Seq(S) /\ Len(r) = Len(s) + Len(t)
  /\ \A i \in 1 .. Len(s) + Len(t) : r[i] = IF i <= Len(s) THEN s[i] ELSE t[i - Len(s)]

LEMMA ConcatJoins ==
  ASSUME NEW S, NEW s \in Seq(S), NEW t \in Seq(S)
  PROVE  Joined(s \o t, s, t, S)
BY ConcatProperties DEF Joined

LEMMA Grows ==
  ASSUME NEW f \in Seq(Lines), NEW batch \in Seq(Events), NEW h, h \in {<<>>, <<Header>>}
  PROVE  /\ Grown(f \o (h \o batch), f, h, batch)
         /\ Len(h \o batch) = Len(h) + Len(batch)
         /\ Len(h) = IF h = <<>> THEN 0 ELSE 1
<1> DEFINE l == h \o batch
           g == f \o l
<1>1. h \in Seq(Lines) /\ Len(h) = (IF h = <<>> THEN 0 ELSE 1) /\ \A i \in 1 .. Len(h) : h[i] = Header
  <2>1. CASE h = <<>>
    BY <2>1, NothingInOrder
  <2>2. CASE h = <<Header>>
    BY <2>2, Numbers
  <2> QED
    BY <2>1, <2>2
<1>2. h \in Seq(Lines) /\ batch \in Seq(Lines)
  <2>1. Len(batch) \in Nat /\ batch \in [1 .. Len(batch) -> Events]
    BY LenProperties
  <2>2. Events \subseteq Lines
    BY DEF Lines
  <2>3. batch \in [1 .. Len(batch) -> Lines]
    BY <2>1, <2>2
  <2> QED
    BY <1>1, <2>1, <2>3
<1>3. /\ Len(f) \in Nat /\ Len(h) \in Nat /\ Len(batch) \in Nat
  BY <1>1, <1>2, LenProperties
<1>4. Joined(l, h, batch, Lines)
  BY <1>2, ConcatJoins, Zenon
<1>5. /\ l \in Seq(Lines) /\ Len(l) = Len(h) + Len(batch)
      /\ \A i \in 1 .. Len(h) + Len(batch) : l[i] = IF i <= Len(h) THEN h[i] ELSE batch[i - Len(h)]
  BY <1>4 DEF Joined
<1> HIDE DEF l
<1>6. Joined(g, f, l, Lines)
  BY <1>5, ConcatJoins, Zenon
<1>7. /\ g \in Seq(Lines) /\ Len(g) = Len(f) + Len(l)
      /\ \A i \in 1 .. Len(f) + Len(l) : g[i] = IF i <= Len(f) THEN f[i] ELSE l[i - Len(f)]
  BY <1>6 DEF Joined
<1> HIDE DEF g
<1>8. \A i \in 1 .. Len(f) : g[i] = f[i]
  BY <1>3, <1>5, <1>7
<1>9. \A i \in 1 .. Len(l) : g[Len(f) + i] = l[i]
  <2> SUFFICES ASSUME NEW i \in 1 .. Len(l) PROVE g[Len(f) + i] = l[i]
    OBVIOUS
  <2>1. Len(l) \in Nat /\ Len(f) \in Nat
    BY <1>3, <1>5
  <2>2. /\ Len(f) + i \in 1 .. Len(f) + Len(l) /\ ~(Len(f) + i <= Len(f))
        /\ (Len(f) + i) - Len(f) = i
    BY <2>1
  <2>3. PICK j \in 1 .. Len(f) + Len(l) : j = Len(f) + i /\ ~(j <= Len(f)) /\ j - Len(f) = i
    BY <2>2, Zenon
  <2>4. g[j] = IF j <= Len(f) THEN f[j] ELSE l[j - Len(f)]
    BY <1>7, <2>3, Zenon
  <2> QED
    BY <2>3, <2>4
<1>10. \A i \in 1 .. Len(h) : i \in 1 .. Len(l) /\ l[i] = Header
  BY <1>1, <1>3, <1>5
<1>11. \A i \in 1 .. Len(batch) : Len(h) + i \in 1 .. Len(l) /\ l[Len(h) + i] = batch[i]
  BY <1>3, <1>5
<1>12. \A i \in 1 .. Len(batch) : g[Len(f) + Len(h) + i] = batch[i]
  <2> SUFFICES ASSUME NEW i \in 1 .. Len(batch) PROVE g[Len(f) + Len(h) + i] = batch[i]
    OBVIOUS
  <2>1. Len(f) + Len(h) + i = Len(f) + (Len(h) + i)
    BY <1>3
  <2> QED
    BY <1>9, <1>11, <2>1
<1>13. \A i \in 1 .. Len(h) : g[Len(f) + i] = Header
  BY <1>9, <1>10
<1>14. Len(g) = Len(f) + Len(h) + Len(batch)
  BY <1>3, <1>5, <1>7
<1>15. Grown(g, f, h, batch)
  BY <1>3, <1>7, <1>8, <1>12, <1>13, <1>14 DEF Grown
<1> QED
  BY <1>1, <1>5, <1>15 DEF g, l

\* Where a line of such a file comes from.
ComesFrom(i, g, f, h, batch) ==
  \/ i \in 1 .. Len(f) /\ g[i] = f[i]
  \/ i > Len(f) /\ i - Len(f) \in 1 .. Len(h) /\ g[i] = Header
  \/ /\ i > Len(f) + Len(h) /\ i - Len(f) - Len(h) \in 1 .. Len(batch)
     /\ g[i] = batch[i - Len(f) - Len(h)]

LEMMA LineOf ==
  ASSUME NEW f, NEW h, NEW batch, NEW g, Grown(g, f, h, batch)
  PROVE  \A i \in 1 .. Len(g) : ComesFrom(i, g, f, h, batch)
<1> SUFFICES ASSUME NEW i \in 1 .. Len(g) PROVE ComesFrom(i, g, f, h, batch)
  OBVIOUS
<1>1. /\ Len(f) \in Nat /\ Len(h) \in Nat /\ Len(batch) \in Nat
      /\ Len(g) = Len(f) + Len(h) + Len(batch)
  BY DEF Grown
<1>2. CASE i <= Len(f)
  BY <1>1, <1>2 DEF Grown, ComesFrom
<1>3. CASE i > Len(f) /\ i <= Len(f) + Len(h)
  <2>1. i - Len(f) \in 1 .. Len(h) /\ i = Len(f) + (i - Len(f))
    BY <1>1, <1>3
  <2>2. g[Len(f) + (i - Len(f))] = Header
    BY <2>1 DEF Grown
  <2> QED
    BY <1>3, <2>1, <2>2 DEF ComesFrom
<1>4. CASE i > Len(f) + Len(h)
  <2>1. i - Len(f) - Len(h) \in 1 .. Len(batch) /\ i = Len(f) + Len(h) + (i - Len(f) - Len(h))
    BY <1>1, <1>4
  <2>2. g[Len(f) + Len(h) + (i - Len(f) - Len(h))] = batch[i - Len(f) - Len(h)]
    BY <2>1 DEF Grown
  <2> QED
    BY <1>4, <2>1, <2>2 DEF ComesFrom
<1> QED
  BY <1>1, <1>2, <1>3, <1>4

\* A file that grows by a later batch stays in order, and gets a second header
\* only if it was there without the sink knowing of it.
LEMMA GrowsInOrder ==
  ASSUME NEW f, NEW h, NEW batch, NEW g, Grown(g, f, h, batch),
         InOrder(f), Sorted(batch), AllLess(f, batch),
         Len(h) = IF h = <<>> THEN 0 ELSE 1, f = <<>> => h # <<>>, batch \in Seq(Events)
  PROVE  /\ InOrder(g)
         /\ OneHeader(f) /\ (h = <<>> \/ f = <<>>) => OneHeader(g)
<1>0. \A i \in 1 .. Len(g) : ComesFrom(i, g, f, h, batch)
  BY LineOf, Zenon
<1>1. /\ Len(f) \in Nat /\ Len(h) \in Nat /\ Len(batch) \in Nat /\ f \in Seq(Lines) /\ g \in Seq(Lines)
      /\ Len(g) = Len(f) + Len(h) + Len(batch)
  BY DEF Grown, InOrder
<1>2. \A i \in 1 .. Len(batch) : batch[i] # Header
  BY Numbers, <1>1, ElementOfSeq
<1>3. f = <<>> <=> Len(f) = 0
  BY <1>1, EmptySeq, LenProperties
<1>4. g # <<>> => g[1] = Header
  <2>1. CASE f # <<>>
    <3>1. 1 \in 1 .. Len(f)
      BY <1>1, <1>3, <2>1
    <3> QED
      BY <2>1, <3>1 DEF Grown, InOrder
  <2>2. CASE f = <<>>
    <3>1. Len(f) = 0 /\ Len(h) = 1
      BY <1>3, <2>2
    <3>2. 1 \in 1 .. Len(h) /\ g[Len(f) + 1] = Header
      BY <3>1 DEF Grown
    <3> QED
      BY <3>1, <3>2
  <2> QED
    BY <2>1, <2>2
<1>5. ASSUME NEW i \in 1 .. Len(g), NEW j \in 1 .. Len(g), i < j
      PROVE  g[i] = Header \/ g[j] = Header \/ g[i] < g[j]
  <2>1. \/ i \in 1 .. Len(f) /\ g[i] = f[i]
        \/ g[i] = Header
        \/ /\ i > Len(f) + Len(h) /\ i - Len(f) - Len(h) \in 1 .. Len(batch)
           /\ g[i] = batch[i - Len(f) - Len(h)]
    BY <1>0 DEF ComesFrom
  <2>2. \/ j \in 1 .. Len(f) /\ g[j] = f[j]
        \/ g[j] = Header
        \/ /\ j > Len(f) + Len(h) /\ j - Len(f) - Len(h) \in 1 .. Len(batch)
           /\ g[j] = batch[j - Len(f) - Len(h)]
    BY <1>0 DEF ComesFrom
  <2>3. CASE i \in 1 .. Len(f) /\ j \in 1 .. Len(f) /\ g[i] = f[i] /\ g[j] = f[j]
    BY <1>5, <2>3 DEF InOrder
  <2>4. CASE /\ i \in 1 .. Len(f) /\ g[i] = f[i]
             /\ j - Len(f) - Len(h) \in 1 .. Len(batch)
             /\ g[j] = batch[j - Len(f) - Len(h)]
    BY <2>4 DEF AllLess
  <2>5. CASE /\ i - Len(f) - Len(h) \in 1 .. Len(batch) /\ j - Len(f) - Len(h) \in 1 .. Len(batch)
             /\ g[i] = batch[i - Len(f) - Len(h)] /\ g[j] = batch[j - Len(f) - Len(h)]
    <3>1. i - Len(f) - Len(h) < j - Len(f) - Len(h)
      BY <1>1, <1>5
    <3> QED
      BY <2>5, <3>1 DEF Sorted
  <2>6. ~(i > Len(f) + Len(h) /\ j \in 1 .. Len(f))
    BY <1>1, <1>5
  <2> QED
    BY <2>1, <2>2, <2>3, <2>4, <2>5, <2>6
<1>6. ASSUME OneHeader(f), h = <<>> \/ f = <<>>, NEW j \in 2 .. Len(g)
      PROVE  g[j] # Header
  <2>1. j \in 1 .. Len(g)
    OBVIOUS
  <2>2. \/ j \in 1 .. Len(f) /\ g[j] = f[j]
        \/ j > Len(f) /\ j - Len(f) \in 1 .. Len(h) /\ g[j] = Header
        \/ /\ j - Len(f) - Len(h) \in 1 .. Len(batch)
           /\ g[j] = batch[j - Len(f) - Len(h)]
    BY <1>0, <2>1 DEF ComesFrom
  <2>3. ~(j - Len(f) \in 1 .. Len(h))
    BY <1>1, <1>3, <1>6
  <2> QED
    BY <1>1, <1>2, <1>6, <2>2, <2>3 DEF OneHeader
<1> QED
  BY <1>1, <1>4, <1>5, <1>6 DEF InOrder, OneHeader

LEMMA TlInitially == TlInit => TlInv
<1> SUFFICES ASSUME TlInit PROVE TlInv
  OBVIOUS
<1>1. SinkTypeOK /\ EmittedAtItsLevel
  BY DEF TlInit, SinkTypeOK, EmittedAtItsLevel, NoTrace
<1>2. tlBuffer = <<>> /\ tlRun.at = "idle" /\ tlRun.batch = <<>> /\ tlNext = 1
  BY DEF TlInit, IdleRun
<1>3. tlFiles \in [Segments -> Seq(Lines)] /\ \A s \in Segments : tlFiles[s] = <<>>
  BY NothingInOrder DEF TlInit
<1>4. QueueInOrder
  BY <1>2, NothingInOrder, Numbers DEF QueueInOrder
<1>5. FilesBehind
  BY <1>2, <1>3, NothingInOrder DEF FilesBehind
<1>6. FilesInOrder
  BY <1>3, NothingInOrder DEF FilesInOrder
<1>7. Knows(tlCurrent, tlFiles)
  <2>1. tlCurrent = Unseeded /\ Unseeded \in [segment: 0 .. MaxSegments, size: Nat]
        /\ Unseeded.segment = 0 /\ 0 \notin Segments
    BY Numbers DEF TlInit, Unseeded, Segments
  <2> QED
    BY <1>3, <2>1 DEF Knows
<1> QED
  BY <1>1, <1>4, <1>5, <1>6, <1>7 DEF TlInv, SinkInv

LEMMA SinkRests ==
  ASSUME SinkInv, UNCHANGED <<tlBuffer, tlRun, tlNext, tlFiles, tlCurrent, tlUncounted>>
  PROVE  SinkInv'
BY DEF SinkInv, QueueInOrder, FilesBehind, FilesInOrder, Knows

LEMMA EventsAreLines ==
  ASSUME NEW s \in Seq(Events)
  PROVE  s \in Seq(Lines) /\ \A i \in 1 .. Len(s) : s[i] \in Events
<1>1. Len(s) \in Nat /\ s \in [1 .. Len(s) -> Events]
  BY LenProperties
<1>2. s \in [1 .. Len(s) -> Lines]
  BY <1>1 DEF Lines
<1> QED
  BY <1>1, <1>2

\* What is before the next event stays before the one after it.
LEMMA LaterStill ==
  ASSUME NEW s \in Seq(Lines), NEW n \in Nat, Before(s, n)
  PROVE  Before(s, n + 1)
<1>1. \A i \in 1 .. Len(s) : s[i] \in Nat
  BY ElementOfSeq, Numbers
<1> QED
  BY <1>1 DEF Before

\* The sink after an event was numbered, whether the buffer took it or not.
LEMMA Buffered ==
  ASSUME SinkInv, tlNext <= MaxEvents, tlNext' = tlNext + 1,
         UNCHANGED <<tlRun, tlFiles, tlCurrent, tlUncounted>>,
         tlBuffer' \in Seq(Events), Len(tlBuffer') <= BufferLimit, Sorted(tlBuffer'),
         \A i \in 1 .. Len(tlBuffer') :
           tlBuffer'[i] = tlNext \/ \E k \in 1 .. Len(tlBuffer) : tlBuffer'[i] = tlBuffer[k]
  PROVE  SinkInv'
<1>1. /\ tlNext \in Nat /\ tlNext' \in 1 .. MaxEvents + 1
      /\ Before(tlBuffer, tlNext) /\ Before(tlRun.batch, tlNext)
      /\ tlRun.batch \in Seq(Lines) /\ \A i \in 1 .. Len(tlBuffer) : tlBuffer[i] \in Nat
  <2>1. /\ tlNext \in 1 .. MaxEvents + 1 /\ Before(tlBuffer, tlNext) /\ Before(tlRun.batch, tlNext)
        /\ tlBuffer \in Seq(Events) /\ tlRun.batch \in Seq(Events)
    BY DEF SinkInv, QueueInOrder
  <2>2. tlNext \in Nat /\ tlNext + 1 \in 1 .. MaxEvents + 1
    BY <2>1, Numbers
  <2>3. tlRun.batch \in Seq(Lines)
    BY <2>1, EventsAreLines
  <2>4. \A i \in 1 .. Len(tlBuffer) : tlBuffer[i] \in Nat
    BY <2>1, EventsAreLines, Numbers
  <2> QED
    BY <2>1, <2>2, <2>3, <2>4
<1>2. \A i \in 1 .. Len(tlBuffer') : tlBuffer'[i] < tlNext'
  BY <1>1 DEF Before
<1>3. ASSUME NEW s, AllLess(s, tlBuffer), Before(s, tlNext)
      PROVE  AllLess(s, tlBuffer')
  BY <1>3 DEF AllLess, Before
<1>4. QueueInOrder'
  <2>1. Before(tlRun.batch, tlNext')
    BY <1>1, LaterStill
  <2>2. AllLess(tlRun.batch, tlBuffer')
    BY <1>1, <1>3 DEF SinkInv, QueueInOrder
  <2>3. Before(tlBuffer', tlNext')
    BY <1>2 DEF Before
  <2> QED
    BY <1>1, <2>1, <2>2, <2>3 DEF SinkInv, QueueInOrder
<1>5. FilesBehind'
  <2> SUFFICES ASSUME NEW s \in Segments
               PROVE  /\ AllLess(tlFiles[s], tlRun.batch) /\ AllLess(tlFiles[s], tlBuffer')
                      /\ Before(tlFiles[s], tlNext')
    BY DEF FilesBehind
  <2>1. AllLess(tlFiles[s], tlRun.batch) /\ AllLess(tlFiles[s], tlBuffer) /\ Before(tlFiles[s], tlNext)
    BY DEF SinkInv, FilesBehind
  <2>2. tlFiles[s] \in Seq(Lines)
    BY DEF SinkInv, FilesInOrder
  <2>3. Before(tlFiles[s], tlNext')
    BY <1>1, <2>1, <2>2, LaterStill
  <2> QED
    BY <1>3, <2>1, <2>3
<1>6. FilesInOrder' /\ Knows(tlCurrent, tlFiles)'
  BY DEF SinkInv, FilesInOrder, Knows
<1> QED
  BY <1>4, <1>5, <1>6 DEF SinkInv

\* What an event that is emitted, or is not, does to the sink.
LEMMA Emitted ==
  ASSUME SinkInv, NEW level, Emit(level), tlQueued \in BOOLEAN,
         UNCHANGED <<tlRun, tlFiles, tlCurrent, tlUncounted>>
  PROVE  SinkInv' /\ tlQueued' \in BOOLEAN
<1>1. CASE UNCHANGED <<tlNext, tlBuffer, tlQueued>>
  BY <1>1, SinkRests
<1>2. CASE level /\ tlNext <= MaxEvents /\ Disposed
  <2>1. tlNext' = tlNext + 1 /\ UNCHANGED <<tlBuffer, tlQueued>>
    BY <1>2 DEF Emit, Write
  <2>2. /\ tlBuffer' \in Seq(Events) /\ Len(tlBuffer') <= BufferLimit /\ Sorted(tlBuffer')
        /\ \A i \in 1 .. Len(tlBuffer') : \E k \in 1 .. Len(tlBuffer) : tlBuffer'[i] = tlBuffer[k]
    BY <2>1 DEF SinkInv, QueueInOrder
  <2>3. SinkInv'
    BY <1>2, <2>1, <2>2, Buffered
  <2> QED
    BY <2>1, <2>3
<1>3. CASE level /\ tlNext <= MaxEvents /\ ~Disposed
  <2>1. /\ tlNext' = tlNext + 1 /\ tlBuffer' = LastN(Append(tlBuffer, tlNext), BufferLimit)
        /\ tlQueued' = (tlQueued \/ Len(tlBuffer') >= FlushBatchSize)
    BY <1>3 DEF Emit, Write
  <2>2. QueueInOrder
    BY DEF SinkInv
  <2>3. /\ tlBuffer' \in Seq(Events) /\ Len(tlBuffer') <= BufferLimit
        /\ \A i \in 1 .. Len(tlBuffer') :
             tlBuffer'[i] = tlNext \/ \E k \in 1 .. Len(tlBuffer) : tlBuffer'[i] = tlBuffer[k]
        /\ Sorted(tlBuffer')
    BY <1>3, <2>1, <2>2, Written1
  <2>4. SinkInv'
    BY <1>3, <2>1, <2>3, Buffered
  <2>5. tlQueued' \in BOOLEAN
    BY <2>1, Zenon
  <2> QED
    BY <2>4, <2>5
<1> QED
  BY <1>1, <1>2, <1>3 DEF Emit

LEMMA RunStartsInOrder == ASSUME SinkInv, RunStarts PROVE SinkInv'
<1>1. /\ tlRun = IdleRun /\ tlBuffer' = <<>> /\ UNCHANGED <<tlNext, tlFiles, tlCurrent, tlUncounted>>
      /\ tlRun' = IF tlBuffer = <<>> THEN IdleRun ELSE [at |-> "running", batch |-> tlBuffer]
  BY DEF RunStarts
<1>2. tlRun'.at \in {"idle", "running"} /\ tlRun'.batch = tlBuffer
  BY <1>1 DEF IdleRun
<1>3. QueueInOrder'
  BY <1>1, <1>2, NothingInOrder, Numbers DEF SinkInv, QueueInOrder
<1>4. FilesBehind'
  BY <1>1, <1>2, NothingInOrder DEF SinkInv, FilesBehind
<1> QED
  BY <1>1, <1>3, <1>4 DEF SinkInv, FilesInOrder, Knows

LEMMA RestartInOrder == ASSUME SinkInv, Restart PROVE SinkInv'
<1>1. /\ tlBuffer' = <<>> /\ tlRun'.at = "idle" /\ tlRun'.batch = <<>>
      /\ tlCurrent' = Unseeded /\ tlUncounted' /\ UNCHANGED <<tlNext, tlFiles>>
  BY DEF Restart, IdleRun
<1>2. QueueInOrder'
  BY <1>1, NothingInOrder, Numbers DEF SinkInv, QueueInOrder
<1>3. FilesBehind'
  BY <1>1, NothingInOrder DEF SinkInv, FilesBehind
<1>4. FilesInOrder'
  BY <1>1 DEF SinkInv, FilesInOrder
<1>5. Knows(tlCurrent, tlFiles)'
  <2>1. Unseeded \in [segment: 0 .. MaxSegments, size: Nat] /\ Unseeded.segment = 0 /\ 0 \notin Segments
    BY Numbers DEF Unseeded, Segments
  <2> QED
    BY <1>1, <2>1 DEF Knows
<1> QED
  BY <1>2, <1>3, <1>4, <1>5 DEF SinkInv

\* What the sink knows of the segment it appends to.
LEMMA SeededKnows ==
  ASSUME SinkInv
  PROVE  Seeded.segment \in Segments /\ Knows(Seeded, tlFiles)
<1>1. CASE tlCurrent # Unseeded
  BY <1>1 DEF SinkInv, Knows, Seeded
<1>2. CASE tlCurrent = Unseeded
  <2>1. Seeded = [segment |-> 1, size |-> Len(tlFiles[1])] /\ 1 \in Segments /\ tlFiles[1] \in Seq(Lines)
    BY <1>2, Numbers DEF Seeded, SinkInv, FilesInOrder
  <2>2. Len(tlFiles[1]) \in Nat /\ (Len(tlFiles[1]) > 0 => tlFiles[1] # <<>>)
    BY <2>1, LenProperties, NothingInOrder
  <2>3. 1 \in 0 .. MaxSegments
    BY Numbers
  <2>4. Seeded \in [segment: 0 .. MaxSegments, size: Nat]
    BY <2>1, <2>2, <2>3
  <2>5. ~tlUncounted => \A s \in Segments : tlFiles[s] = <<>>
    <3>1. \A s \in Segments : s > 0
      BY DEF Segments
    <3> QED
      BY <1>2, <3>1 DEF SinkInv, Knows, Unseeded
  <2> QED
    BY <2>1, <2>2, <2>4, <2>5 DEF Knows
<1> QED
  BY <1>1, <1>2

LEMMA NextKnows ==
  ASSUME SinkInv, NextFile.segment \in Segments
  PROVE  Knows(NextFile, tlFiles)
<1>1. Seeded.segment \in Segments /\ Knows(Seeded, tlFiles)
  BY SeededKnows
<1>2. CASE NextFile = Seeded
  BY <1>1, <1>2
<1>3. CASE NextFile = [segment |-> Seeded.segment + 1, size |-> 0]
  <2>1. Seeded.segment \in Nat /\ NextFile.segment = Seeded.segment + 1 /\ NextFile.size = 0
    BY <1>1, <1>3, Numbers
  <2>2. \A s \in Segments : s >= NextFile.segment => s > Seeded.segment
    BY <2>1, Numbers
  <2>3. NextFile \in [segment: 0 .. MaxSegments, size: Nat]
    BY <1>3, <2>1, Numbers DEF Segments
  <2>4. ~tlUncounted => /\ \A s \in Segments : s > NextFile.segment => tlFiles[s] = <<>>
                        /\ tlFiles[NextFile.segment] = <<>>
    BY <1>1, <2>1, <2>2, Numbers DEF Knows
  <2> QED
    BY <2>1, <2>3, <2>4, NothingInOrder DEF Knows
<1> QED
  BY <1>2, <1>3 DEF NextFile

\* Lines of the batch go to the end of the segment, behind a header if that is empty.
GrowsBy(lines) ==
  LET n == NextFile.segment
      h == HeaderOf(NextFile)
      g == tlFiles[n] \o (h \o lines)
  IN /\ n \in Segments
     /\ tlFiles' = [tlFiles EXCEPT ![n] = g]
     /\ Grown(g, tlFiles[n], h, lines)
     /\ Len(h \o lines) = Len(h) + Len(lines)
     /\ h = (IF NextFile.size = 0 THEN <<Header>> ELSE <<>>) /\ Len(h) = IF h = <<>> THEN 0 ELSE 1
     /\ tlFiles[n] \in Seq(Lines) /\ (tlFiles[n] = <<>> => h # <<>>)

\* They are as the batch is: in order, and between what is in the files and what is not.
Between(lines) ==
  /\ lines \in Seq(Events) /\ Sorted(lines)
  /\ AllLess(lines, tlBuffer) /\ Before(lines, tlNext)
  /\ \A s \in Segments : AllLess(tlFiles[s], lines)

LEMMA BatchIsBetween == SinkInv => Between(tlRun.batch)
BY DEF SinkInv, QueueInOrder, FilesBehind, Between

LEMMA FirstLines ==
  ASSUME SinkInv, NEW n \in 0 .. Len(tlRun.batch)
  PROVE  Between(SubSeq(tlRun.batch, 1, n))
<1> DEFINE batch == tlRun.batch
           lines == SubSeq(batch, 1, n)
<1>1. Between(batch)
  BY BatchIsBetween
<1>2. batch \in Seq(Events) /\ Len(batch) \in Nat /\ \A i \in 1 .. Len(batch) : batch[i] \in Events
  BY <1>1, EventsAreLines, LenProperties DEF Between
<1> HIDE DEF batch
<1>3. n \in Nat /\ n <= Len(batch)
  BY <1>2 DEF batch
<1>4. /\ lines \in Seq(Events) /\ Len(lines) = n
      /\ \A i \in 1 .. n : lines[i] = batch[i]
  <2>1. \A i \in 1 .. n : batch[i] \in Events
    BY <1>2, <1>3
  <2>2. /\ lines \in Seq(Events)
        /\ Len(lines) = IF 1 <= n THEN n - 1 + 1 ELSE 0
        /\ \A i \in 1 .. n - 1 + 1 : lines[i] = batch[1 + i - 1]
    BY <1>2, <1>3, <2>1, SubSeqProperties
  <2> QED
    BY <1>3, <2>2
<1>5. \A i \in 1 .. Len(lines) : i \in 1 .. Len(batch) /\ lines[i] = batch[i]
  BY <1>2, <1>3, <1>4
<1> HIDE DEF lines
<1>6. lines \in Seq(Events)
  BY <1>4
<1> QED
  <2>1. Between(lines)
    BY <1>1, <1>5, <1>6 DEF Between, Sorted, AllLess, Before
  <2> QED
    BY <2>1 DEF lines, batch

LEMMA LandsGrows ==
  ASSUME SinkInv, NEW lines, Between(lines), Lands(lines)
  PROVE  GrowsBy(lines)
<1> DEFINE n == NextFile.segment
           h == HeaderOf(NextFile)
<1>1. n \in Segments /\ tlFiles' = [tlFiles EXCEPT ![n] = tlFiles[n] \o (h \o lines)]
  BY DEF Lands
<1>2. Knows(NextFile, tlFiles) /\ tlFiles[n] \in Seq(Lines) /\ lines \in Seq(Events)
  BY <1>1, NextKnows DEF SinkInv, FilesInOrder, Between
<1>3. h = (IF NextFile.size = 0 THEN <<Header>> ELSE <<>>) /\ h \in {<<>>, <<Header>>}
  BY DEF HeaderOf
<1>4. tlFiles[n] = <<>> => h # <<>>
  BY <1>1, <1>2, <1>3 DEF Knows
<1> HIDE DEF n, h
<1>5. /\ Grown(tlFiles[n] \o (h \o lines), tlFiles[n], h, lines)
      /\ Len(h \o lines) = Len(h) + Len(lines) /\ Len(h) = IF h = <<>> THEN 0 ELSE 1
  BY <1>2, <1>3, Grows
<1> QED
  BY <1>1, <1>2, <1>3, <1>4, <1>5 DEF GrowsBy, n, h

\* What does not depend on what the sink counted.
LEMMA LandsInOrder ==
  ASSUME SinkInv, NEW lines, Between(lines), Lands(lines), tlRun' = IdleRun,
         UNCHANGED <<tlNext, tlBuffer>>
  PROVE  /\ QueueInOrder' /\ FilesBehind'
         /\ tlFiles' \in [Segments -> Seq(Lines)] /\ \A s \in Segments : InOrder(tlFiles'[s])
         /\ \A s \in Segments : tlFiles[s] # <<>> => tlFiles'[s] # <<>>
<1> DEFINE n == NextFile.segment
           h == HeaderOf(NextFile)
           f == tlFiles[n]
           g == f \o (h \o lines)
<1>1. /\ n \in Segments /\ tlFiles' = [tlFiles EXCEPT ![n] = g] /\ Grown(g, f, h, lines)
      /\ Len(h) = (IF h = <<>> THEN 0 ELSE 1) /\ f \in Seq(Lines) /\ (f = <<>> => h # <<>>)
  BY LandsGrows DEF GrowsBy
<1>2. /\ tlFiles \in [Segments -> Seq(Lines)] /\ \A s \in Segments : InOrder(tlFiles[s])
      /\ InOrder(f)
  BY <1>1 DEF SinkInv, FilesInOrder
<1>3. /\ lines \in Seq(Events) /\ Sorted(lines) /\ AllLess(lines, tlBuffer) /\ Before(lines, tlNext)
      /\ AllLess(f, lines)
  BY <1>1 DEF Between
<1>4. /\ AllLess(f, tlBuffer) /\ Before(f, tlNext)
      /\ tlNext \in 1 .. MaxEvents + 1 /\ tlBuffer \in Seq(Events)
  BY <1>1 DEF SinkInv, FilesBehind, QueueInOrder
<1> HIDE DEF n, h, f, g
<1>5. InOrder(g)
  BY <1>1, <1>2, <1>3, GrowsInOrder
<1>6. \A i \in 1 .. Len(g) : ComesFrom(i, g, f, h, lines)
  BY <1>1, LineOf
<1>7. \A i \in 1 .. Len(g) :
         \/ g[i] = Header
         \/ \E k \in 1 .. Len(f) : g[i] = f[k]
         \/ \E k \in 1 .. Len(lines) : g[i] = lines[k]
  BY <1>6 DEF ComesFrom
<1>8. \A s \in Segments : tlFiles'[s] = IF s = n THEN g ELSE tlFiles[s]
  BY <1>1, <1>2
<1>9. /\ g \in Seq(Lines) /\ Len(g) = Len(f) + Len(h) + Len(lines)
      /\ Len(f) \in Nat /\ Len(h) \in Nat /\ Len(lines) \in Nat
  BY <1>1 DEF Grown
<1>10. AllLess(g, tlBuffer) /\ Before(g, tlNext)
  <2>1. \A j \in 1 .. Len(tlBuffer) : Header < tlBuffer[j]
    BY <1>4, EventsAreLines, Numbers DEF Events
  <2>2. Header < tlNext
    BY <1>4, Numbers
  <2> QED
    BY <1>3, <1>4, <1>7, <2>1, <2>2 DEF AllLess, Before
<1>11. tlRun'.at = "idle" /\ tlRun'.batch = <<>>
  BY DEF IdleRun
<1>12. QueueInOrder'
  BY <1>11, NothingInOrder DEF SinkInv, QueueInOrder
<1>13. FilesBehind'
  <2>1. \A s \in Segments : AllLess(tlFiles'[s], tlBuffer) /\ Before(tlFiles'[s], tlNext)
    BY <1>8, <1>10 DEF SinkInv, FilesBehind
  <2> QED
    BY <1>11, <2>1, NothingInOrder DEF FilesBehind
<1>14. tlFiles' \in [Segments -> Seq(Lines)] /\ \A s \in Segments : InOrder(tlFiles'[s])
  BY <1>1, <1>2, <1>5, <1>8, <1>9
<1>15. f # <<>> => g # <<>>
  <2>1. f # <<>> => Len(f) > 0
    BY <1>1, <1>9, EmptySeq
  <2>2. f # <<>> => Len(g) > 0
    BY <1>9, <2>1
  <2> QED
    BY <2>2, NothingInOrder
<1>16. \A s \in Segments : tlFiles[s] # <<>> => tlFiles'[s] # <<>>
  BY <1>8, <1>15 DEF f
<1> QED
  BY <1>12, <1>13, <1>14, <1>16

\* What a whole batch leaves is what the sink counts.
LEMMA AppendInOrder ==
  ASSUME SinkInv, AppendBatch, tlRun' = IdleRun, UNCHANGED <<tlNext, tlBuffer>>
  PROVE  SinkInv'
<1> DEFINE file == NextFile
           n == file.segment
           h == HeaderOf(file)
           f == tlFiles[n]
           batch == tlRun.batch
           g == f \o (h \o batch)
<1>1. /\ Between(batch) /\ Lands(batch) /\ UNCHANGED tlUncounted
      /\ tlCurrent' = [file EXCEPT !.size = @ + Len(h \o batch)]
  BY BatchIsBetween DEF AppendBatch
<1>2. /\ n \in Segments /\ tlFiles' = [tlFiles EXCEPT ![n] = g] /\ Grown(g, f, h, batch)
      /\ Len(h \o batch) = Len(h) + Len(batch)
      /\ Len(h) = (IF h = <<>> THEN 0 ELSE 1) /\ f \in Seq(Lines) /\ (f = <<>> => h # <<>>)
      /\ h = IF file.size = 0 THEN <<Header>> ELSE <<>>
  BY <1>1, LandsGrows DEF GrowsBy
<1>3. /\ QueueInOrder' /\ FilesBehind'
      /\ tlFiles' \in [Segments -> Seq(Lines)] /\ \A s \in Segments : InOrder(tlFiles'[s])
  BY <1>1, LandsInOrder
<1>4. /\ file \in [segment: 0 .. MaxSegments, size: Nat]
      /\ ~tlUncounted => /\ \A s \in Segments : s > n => tlFiles[s] = <<>>
                         /\ file.size = Len(f)
  BY <1>2, NextKnows DEF Knows
<1>5. tlFiles \in [Segments -> Seq(Lines)] /\ InOrder(f)
  BY <1>2 DEF SinkInv, FilesInOrder
<1>6. batch \in Seq(Events) /\ Sorted(batch) /\ \A s \in Segments : AllLess(tlFiles[s], batch)
  BY <1>1 DEF Between
<1>7. AllLess(f, batch)
  BY <1>2, <1>6
<1> HIDE DEF file, h, n, f, batch, g
<1>8. OneHeader(f) /\ (h = <<>> \/ f = <<>>) => OneHeader(g)
  BY <1>2, <1>5, <1>6, <1>7, GrowsInOrder
<1>9. \A i \in 1 .. Len(g) :
         \/ g[i] = Header
         \/ \E k \in 1 .. Len(f) : g[i] = f[k]
         \/ \E k \in 1 .. Len(batch) : g[i] = batch[k]
  <2>1. \A i \in 1 .. Len(g) : ComesFrom(i, g, f, h, batch)
    BY <1>2, LineOf
  <2> QED
    BY <2>1 DEF ComesFrom
<1>10. \A s \in Segments : tlFiles'[s] = IF s = n THEN g ELSE tlFiles[s]
  BY <1>2, <1>5
<1>11. /\ g \in Seq(Lines) /\ Len(g) = Len(f) + Len(h) + Len(batch)
       /\ Len(f) \in Nat /\ Len(h) \in Nat /\ Len(batch) \in Nat
  BY <1>2 DEF Grown
<1>12. ASSUME ~tlUncounted PROVE \A s \in Segments : OneHeader(tlFiles'[s])
  <2>1. h = <<>> \/ f = <<>>
    BY <1>2, <1>4, <1>12, EmptySeq
  <2>2. \A s \in Segments : OneHeader(tlFiles[s])
    BY <1>12 DEF SinkInv, FilesInOrder
  <2>3. OneHeader(f)
    BY <1>2, <2>2 DEF f
  <2> QED
    BY <1>8, <1>10, <2>1, <2>2, <2>3
<1>13. ASSUME ~tlUncounted, NEW s \in Segments, NEW t \in Segments, s < t
       PROVE  FileBefore(tlFiles'[s], tlFiles'[t])
  <2>1. FileBefore(tlFiles[s], tlFiles[t])
    BY <1>13 DEF SinkInv, FilesInOrder
  <2>2. CASE s = n
    <3>1. tlFiles'[t] = <<>>
      BY <1>4, <1>10, <1>13, <2>2, Numbers
    <3> QED
      BY <3>1, NothingInOrder
  <2>3. CASE t = n
    <3>1. tlFiles'[s] = tlFiles[s] /\ tlFiles'[t] = g /\ tlFiles[t] = f
      BY <1>10, <1>13, <2>3, Numbers DEF f
    <3>2. AllLess(tlFiles[s], batch)
      BY <1>6
    <3> QED
      BY <1>9, <2>1, <3>1, <3>2 DEF FileBefore, AllLess
  <2>4. CASE s # n /\ t # n
    BY <1>10, <2>1, <2>4
  <2> QED
    BY <2>2, <2>3, <2>4
<1>14. FilesInOrder'
  BY <1>1, <1>3, <1>12, <1>13 DEF FilesInOrder
<1>15. Knows(tlCurrent, tlFiles)'
  <2>1. /\ tlCurrent'.segment = n /\ tlCurrent'.size = file.size + Len(h) + Len(batch)
        /\ tlCurrent' \in [segment: 0 .. MaxSegments, size: Nat]
    <3>1. tlCurrent' = [file EXCEPT !.size = file.size + Len(h \o batch)]
      BY <1>1
    <3>2. Len(h \o batch) = Len(h) + Len(batch) /\ Len(h \o batch) \in Nat /\ file.size \in Nat
      BY <1>2, <1>4, <1>11
    <3>3. file.size + Len(h \o batch) \in Nat /\ file.size + Len(h \o batch) = file.size + Len(h) + Len(batch)
      BY <1>11, <3>2
    <3> QED
      BY <1>4, <3>1, <3>3 DEF n
  <2>2. tlFiles'[n] = g
    BY <1>2, <1>10
  <2>3. tlCurrent'.size > 0 => g # <<>>
    <3>1. f # <<>> => Len(f) > 0
      BY <1>2, <1>11, EmptySeq
    <3>2. h # <<>> => Len(h) > 0
      BY <1>2
    <3>3. Len(g) > 0
      BY <1>2, <1>11, <3>1, <3>2
    <3> QED
      BY <3>3, NothingInOrder
  <2>4. ~tlUncounted => \A s \in Segments : s > n => tlFiles'[s] = <<>>
    BY <1>2, <1>4, <1>10, Numbers
  <2>5. ~tlUncounted => tlCurrent'.size = Len(g)
    BY <1>4, <1>11, <2>1
  <2> QED
    BY <1>1, <1>2, <2>1, <2>2, <2>3, <2>4, <2>5 DEF Knows
<1> QED
  BY <1>3, <1>14, <1>15 DEF SinkInv

\* Of an append that fails the first lines may be there, uncounted.
LEMMA FailsInOrder ==
  ASSUME SinkInv, AppendFails, tlRun' = IdleRun, UNCHANGED <<tlNext, tlBuffer>>
  PROVE  SinkInv'
<1>1. CASE UNCHANGED <<tlFiles, tlUncounted>>
  <2>1. tlRun'.at = "idle" /\ tlRun'.batch = <<>> /\ UNCHANGED tlCurrent
    BY DEF IdleRun, AppendFails
  <2> QED
    BY <1>1, <2>1, NothingInOrder DEF SinkInv, QueueInOrder, FilesBehind, FilesInOrder, Knows
<1>2. ASSUME NEW n \in 0 .. Len(tlRun.batch), Lands(SubSeq(tlRun.batch, 1, n)), tlUncounted' = TRUE
      PROVE  SinkInv'
  <2>1. /\ QueueInOrder' /\ FilesBehind'
        /\ tlFiles' \in [Segments -> Seq(Lines)] /\ \A s \in Segments : InOrder(tlFiles'[s])
        /\ \A s \in Segments : tlFiles[s] # <<>> => tlFiles'[s] # <<>>
    BY <1>2, FirstLines, LandsInOrder
  <2>2. FilesInOrder'
    BY <1>2, <2>1 DEF FilesInOrder
  <2>3. UNCHANGED tlCurrent
    BY DEF AppendFails
  <2>4. Knows(tlCurrent, tlFiles)'
    BY <1>2, <2>1, <2>3 DEF SinkInv, Knows
  <2> QED
    BY <2>1, <2>2, <2>4 DEF SinkInv
<1> QED
  BY <1>1, <1>2 DEF AppendFails

LEMMA TlStep == TlInv /\ TlNext => TlInv'
<1> SUFFICES ASSUME TlInv, TlNext PROVE TlInv'
  OBVIOUS
<1>0. /\ SinkTypeOK /\ EmittedAtItsLevel /\ SinkInv
  BY DEF TlInv
<1>1. CASE RunStarts
  <2>1. SinkTypeOK'
    <3>1. tlTimer' \in BOOLEAN
      BY <1>1, Zenon DEF RunStarts
    <3>2. tlService' \in {"up", "queued", "running", "flushed", "disposed"}
      BY <1>0, <1>1 DEF RunStarts, SinkTypeOK
    <3>3. /\ UNCHANGED <<tlSpans, tlRestarted, tlUncounted>> /\ tlQueued' = FALSE
          /\ tlWaiters' \subseteq {"queued", "running"}
      BY <1>1 DEF RunStarts
    <3> QED
      BY <1>0, <3>1, <3>2, <3>3 DEF SinkTypeOK, tlSpans
  <2>2. EmittedAtItsLevel'
    BY <1>0, <1>1 DEF RunStarts, EmittedAtItsLevel, tlSpans
  <2> QED
    BY <1>0, <1>1, <2>1, <2>2, RunStartsInOrder DEF TlInv
<1>2. ASSUME NEW ok \in BOOLEAN, RunEnds(ok) PROVE TlInv'
  <2>1. SinkTypeOK'
    <3>1. tlTimer' \in BOOLEAN
      <4>1. tlTimer' = (tlTimer \/ ("running" \in tlWaiters /\ ~Disposed))
        BY <1>2 DEF RunEnds, Rescheduled
      <4> QED
        BY <4>1, Zenon
    <3>2. tlUncounted' \in BOOLEAN
      BY <1>0, <1>2 DEF RunEnds, AppendBatch, AppendFails, SinkTypeOK
    <3>3. tlService' \in {"up", "queued", "running", "flushed", "disposed"}
      BY <1>0, <1>2 DEF RunEnds, SinkTypeOK
    <3>4. UNCHANGED <<tlSpans, tlQueued, tlRestarted>> /\ tlWaiters' = tlWaiters \ {"running"}
      BY <1>2 DEF RunEnds
    <3> QED
      BY <1>0, <3>1, <3>2, <3>3, <3>4 DEF SinkTypeOK, tlSpans
  <2>2. EmittedAtItsLevel'
    BY <1>0, <1>2 DEF RunEnds, EmittedAtItsLevel, tlSpans
  <2>3. tlRun' = IdleRun /\ UNCHANGED <<tlNext, tlBuffer>>
    BY <1>2 DEF RunEnds
  <2>4. CASE AppendBatch
    BY <1>0, <2>1, <2>2, <2>3, <2>4, AppendInOrder DEF TlInv
  <2>5. CASE AppendFails
    BY <1>0, <2>1, <2>2, <2>3, <2>5, FailsInOrder DEF TlInv
  <2> QED
    BY <1>2, <2>4, <2>5 DEF RunEnds
<1>3. CASE FlushTimerFires
  BY <1>0, <1>3, SinkRests DEF FlushTimerFires, tlLife, TlInv, SinkTypeOK, EmittedAtItsLevel, tlSpans
<1>4. CASE IntervalChanges
  BY <1>0, <1>4, SinkRests DEF IntervalChanges, tlLife, TlInv, SinkTypeOK, EmittedAtItsLevel, tlSpans
<1>5. CASE TlDispose \/ SinkDispose
  BY <1>0, <1>5, SinkRests DEF TlDispose, SinkDispose, TlInv, SinkTypeOK, EmittedAtItsLevel, tlSpans
<1>6. CASE Restart
  <2>1. SinkTypeOK' /\ EmittedAtItsLevel'
    BY <1>0, <1>6 DEF Restart, SinkTypeOK, EmittedAtItsLevel, NoTrace
  <2> QED
    BY <1>0, <1>6, <2>1, RestartInOrder DEF TlInv
<1>7. CASE Log
  <2>1. SinkInv' /\ tlQueued' \in BOOLEAN
    BY <1>0, <1>7, Emitted DEF Log, tlLife, SinkTypeOK
  <2> QED
    BY <1>0, <1>7, <2>1 DEF Log, tlLife, TlInv, SinkTypeOK, EmittedAtItsLevel, tlSpans
<1>8. CASE Trace
  <2>1. tlTrace' = [span |-> "open", phase |-> "none", level |-> tlLevel] /\ tlTrace = NoTrace
    BY <1>8 DEF Trace
  <2>2. EmittedAtItsLevel'
    BY <1>0, <1>8, <2>1 DEF Trace, tlLife, EmittedAtItsLevel, NoTrace
  <2>3. SinkTypeOK'
    BY <1>0, <1>8, <2>1 DEF Trace, tlLife, SinkTypeOK, tlSink
  <2> QED
    BY <1>0, <1>8, <2>2, <2>3, SinkRests DEF Trace, tlLife, TlInv, tlSink
<1>9. CASE Phase
  <2>1. tlTrace' = [tlTrace EXCEPT !.phase = "open"] /\ tlTrace.phase = "none"
    BY <1>9 DEF Phase
  <2>2. EmittedAtItsLevel'
    BY <1>0, <1>9, <2>1 DEF Phase, tlLife, EmittedAtItsLevel, SinkTypeOK
  <2>3. SinkTypeOK'
    BY <1>0, <1>9, <2>1 DEF Phase, tlLife, SinkTypeOK, tlSink
  <2> QED
    BY <1>0, <1>9, <2>2, <2>3, SinkRests DEF Phase, tlLife, TlInv, tlSink
<1>10. CASE LevelChanges
  <2>1. tlQueued' \in BOOLEAN /\ tlLevel' \in BOOLEAN
    BY <1>10, Zenon DEF LevelChanges
  <2> QED
    BY <1>0, <1>10, <2>1, SinkRests DEF LevelChanges, tlLife, TlInv, SinkTypeOK, EmittedAtItsLevel
<1>11. ASSUME NEW p \in {"span", "phase"}, SpanEnds(p) PROVE TlInv'
  <2>1. /\ tlTrace[p] = "open" /\ tlTrace' = [tlTrace EXCEPT ![p] = "ended"]
        /\ tlEmitted' = IF tlTrace.level THEN tlEmitted \union {p} ELSE tlEmitted
        /\ Emit(tlTrace.level)
        /\ UNCHANGED <<tlLevel, tlRun, tlTimer, tlWaiters, tlCurrent, tlFiles, tlLife>>
    BY <1>11 DEF SpanEnds, tlLife, TraceLevel
  <2>2. SinkInv' /\ tlQueued' \in BOOLEAN
    <3>1. UNCHANGED <<tlRun, tlFiles, tlCurrent, tlUncounted>>
      BY <2>1 DEF tlLife
    <3>2. Emit(tlTrace.level)
      BY <2>1
    <3>3. tlQueued \in BOOLEAN
      BY <1>0 DEF SinkTypeOK
    <3> QED
      BY <1>0, <3>1, <3>2, <3>3, Emitted
  <2>3. SinkTypeOK'
    BY <1>0, <1>11, <2>1, <2>2 DEF SinkTypeOK, tlLife
  <2>4. EmittedAtItsLevel'
    BY <1>0, <1>11, <2>1 DEF SinkTypeOK, EmittedAtItsLevel
  <2> QED
    BY <2>2, <2>3, <2>4 DEF TlInv
<1> QED
  BY <1>1, <1>2, <1>3, <1>4, <1>5, <1>6, <1>7, <1>8, <1>9, <1>10, <1>11 DEF TlNext

LEMMA TlRests == TlInv /\ UNCHANGED tlVars => TlInv'
<1> SUFFICES ASSUME TlInv, UNCHANGED tlVars PROVE TlInv'
  OBVIOUS
<1> QED
  BY SinkRests DEF TlInv, SinkTypeOK, EmittedAtItsLevel, tlVars

LEMMA TlTypeIs == TlInv => TelemetryTypeOK
BY DEF TlInv, SinkTypeOK, SinkInv, QueueInOrder, FilesInOrder, Knows, Lines, TelemetryTypeOK

LEMMA TlWhole == TlInv => FilesAreInOrder /\ TracesAreWhole
<1> SUFFICES ASSUME TlInv PROVE FilesAreInOrder /\ TracesAreWhole
  OBVIOUS
<1>1. TracesAreWhole
  BY DEF TlInv, EmittedAtItsLevel, TracesAreWhole
<1>2. /\ \A s \in Segments : InOrder(tlFiles[s])
      /\ ~tlUncounted => /\ \A s \in Segments : OneHeader(tlFiles[s])
                         /\ \A s, t \in Segments : s < t => FileBefore(tlFiles[s], tlFiles[t])
  BY DEF TlInv, SinkInv, FilesInOrder
<1>3. ASSUME NEW s \in Segments, NEW j \in 1 .. Len(tlFiles[s]), NEW i \in 1 .. j - 1
      PROVE  tlFiles[s][i] = Header \/ tlFiles[s][j] = Header \/ tlFiles[s][i] < tlFiles[s][j]
  <2>1. Len(tlFiles[s]) \in Nat /\ i < j
    BY <1>2, <1>3, LenProperties DEF InOrder
  <2>2. i \in 1 .. Len(tlFiles[s])
    BY <1>3, <2>1
  <2> QED
    BY <1>2, <2>1, <2>2 DEF InOrder
<1>4. \A s \in Segments : tlFiles[s] # <<>> => tlFiles[s][1] = Header
  BY <1>2 DEF InOrder
<1>5. ASSUME ~tlUncounted
      PROVE  /\ \A s \in Segments : \A j \in 2 .. Len(tlFiles[s]) : tlFiles[s][j] # Header
             /\ \A s, t \in Segments : s < t =>
                  \A i \in 1 .. Len(tlFiles[s]), j \in 1 .. Len(tlFiles[t]) :
                    tlFiles[s][i] = Header \/ tlFiles[t][j] = Header \/ tlFiles[s][i] < tlFiles[t][j]
  BY <1>2, <1>5 DEF OneHeader, FileBefore
<1> QED
  BY <1>1, <1>3, <1>4, <1>5 DEF FilesAreInOrder

THEOREM TlInvariant == Spec => []TlInv
<1>1. Init => TlInv
  BY TlInitially DEF Init
<1>2. TlInv /\ [Next]_vars => TlInv'
  BY PartsAlone, TlStep, TlRests
<1> QED
  BY <1>1, <1>2, PTL DEF Spec

(* What is on disk is what was logged, in order, each line once, and a phase   *)
(* is recorded with its span (telemetry/service.ts, LocalJsonlSink).           *)
THEOREM TelemetryStaysWhole == Spec => []TelemetryIsWhole
<1>1. TlInv => TelemetryIsWhole
  BY TlWhole DEF TelemetryIsWhole
<1> QED
  BY <1>1, TlInvariant, PTL

-----------------------------------------------------------------------------
(* TelemetryExport. The frontier holds the last event read of each session     *)
(* that waits for its turn; what was written of a session is what was read of  *)
(* it before that event. Since the writer takes the first of the frontier, no   *)
(* event that is written later is before one that is written now, unless the    *)
(* clock of its own session went back. What is temporary exists from the       *)
(* opening to the rename.                                                      *)

Blocks == {NoBlock} \union (ExSessions \X Times)
MetricRecords == [event: ExportEvents, block: Blocks]
Waiting(s) == \E c \in exFrontier : c.session = s
LastRead(s) == exRead[s][Len(exRead[s])]

ReadInOrder ==
  /\ exRead \in [ExSessions -> Seq(ExportEvents)]
  /\ \A s \in ExSessions : \A i \in 1 .. Len(exRead[s]) : exRead[s][i].session = s
  /\ exFrontier \subseteq ExportEvents
  /\ \A c \in exFrontier : /\ exRead[c.session] # <<>> /\ c = LastRead(c.session)
                           /\ c.session \notin exNeeds
  /\ exNeeds \subseteq ExSessions

WrittenInOrder ==
  /\ exOut \in Seq(ExportEvents)
  /\ \A s \in ExSessions : Len(exRead[s]) = Written(s) + (IF Waiting(s) THEN 1 ELSE 0)
  /\ \A k \in 1 .. Len(exOut) : exOut[k] = exRead[exOut[k].session][WrittenOf(exOut[k].session, k)]

NothingEarlierWaits ==
  (\A s \in ExSessions : Monotonic(exRead[s])) =>
    /\ Monotonic(exOut)
    /\ \A k \in 1 .. Len(exOut) :
         /\ \A c \in exFrontier : exOut[k].time <= c.time
         /\ \A s \in exNeeds : exRead[s] # <<>> /\ exOut[k].time <= LastRead(s).time

MetricsInOrder ==
  /\ exBuffer \in Seq(ExportEvents) /\ Len(exBuffer) <= MaxBuffered
  /\ exRecords \in Seq(MetricRecords) /\ exBlock \in Blocks
  /\ \A i \in 1 .. Len(exBuffer) : BlockOf(exBuffer[i]) = exBlock
  /\ \A i \in 1 .. Len(exRecords) : exRecords[i].block = BlockOf(exRecords[i].event)
  /\ exFormat = "otlp" => Len(exRecords) + Len(exBuffer) = MetricsWritten

StagesInOrder ==
  /\ exStage \in {"idle", "flush", "list", "open", "merge", "pack", "rename", "empty", "done", "failed"}
  /\ exFormat \in {"json", "otlp"} /\ exCancelled \in BOOLEAN
  /\ exPart \in [ExSessions -> 1 .. MaxParts + 1] /\ exLines \in [ExSessions -> 0 .. MaxLines]
  /\ \A s \in ExSessions : s \in exNeeds \/ Waiting(s) => exPart[s] <= MaxParts
  /\ exStage \in {"idle", "flush", "list", "open"} =>
       exOut = <<>> /\ exFrontier = {} /\ exBuffer = <<>> /\ exRecords = <<>>
  /\ exStage \in {"idle", "flush", "list"} =>
       exNeeds = {} /\ \A s \in ExSessions : exPart[s] <= MaxParts
  /\ exStage \in {"pack", "rename", "empty", "done"} =>
       exFrontier = {} /\ exNeeds = {} /\ exBuffer = <<>>

FilesKept ==
  /\ exReported \subseteq exLeft /\ exLeft \subseteq {"temp", "staging"}
  /\ exTarget \in {"old", "new", "none"}
  /\ exTarget # "old" => exStage \in {"empty", "done"}
  /\ exStage \in {"idle", "flush", "list", "open"} => exLeft = {}
  /\ exStage \in {"merge", "pack"} => exReported = {}
  /\ exStage = "merge" => exLeft = IF exFormat = "otlp" THEN {"temp", "staging"} ELSE {"temp"}
  /\ exStage = "pack" => exLeft = {"temp", "staging"}
  /\ exStage = "rename" => "temp" \notin exReported /\ exLeft \ {"temp"} \subseteq exReported
  /\ exStage \in {"empty", "done", "failed"} => exLeft \subseteq exReported

ExInv == ReadInOrder /\ WrittenInOrder /\ NothingEarlierWaits /\ MetricsInOrder /\ StagesInOrder /\ FilesKept

LEMMA LeastOf ==
  ASSUME NEW T, T \subseteq Nat, T # {}
  PROVE  \E x \in T : \A y \in T : x <= y
<1>1. IsWellFoundedOn(OpToRel(<, Nat), Nat)
  BY NatLessThanWellFounded, Zenon
<1>2. \E x \in T : \A y \in T : ~(<<y, x>> \in OpToRel(<, Nat))
  BY <1>1, WFMin, Zenon
<1>3. \A x, y \in Nat : ~(<<y, x>> \in OpToRel(<, Nat)) => ~(y < x)
  BY Zenon DEF OpToRel
<1>4. \E x \in T : \A y \in T : ~(y < x)
  BY <1>2, <1>3, Zenon
<1> QED
  BY <1>4

LEMMA LeastIs ==
  ASSUME NEW T, T \subseteq Nat, T # {}
  PROVE  Least(T) \in T
BY LeastOf DEF Least

LEMMA NextCursorIs ==
  ASSUME NEW F, F \subseteq ExportEvents, F # {}
  PROVE  NextCursor(F) \in F /\ \A d \in F : NextCursor(F).time <= d.time
<1> DEFINE ts == {c.time : c \in F}
<1>1. \A c \in F : c.time \in Nat /\ c.session \in Nat
  <2>1. \A c \in F : c.session \in ExSessions /\ c.time \in 0 .. 3
    BY DEF ExportEvents, Times
  <2>2. ExSessions \subseteq Nat /\ 0 .. 3 \subseteq Nat
    BY ExportAssumption
  <2> QED
    BY <2>1, <2>2, Zenon
<1>2. PICK t \in ts : \A u \in ts : t <= u
  BY <1>1, LeastOf
<1> DEFINE ss == {c.session : c \in {d \in F : d.time = t}}
<1>3. ss \subseteq Nat /\ ss # {}
  BY <1>1, <1>2
<1>4. PICK m \in ss : \A u \in ss : m <= u
  BY <1>3, LeastOf
<1>5. PICK c \in F : c.time = t /\ c.session = m
  BY <1>4
<1>6. \A d \in F : Precedes(c, d)
  <2> SUFFICES ASSUME NEW d \in F PROVE Precedes(c, d)
    OBVIOUS
  <2>1. c.time <= d.time /\ (d.time = t => c.session <= d.session)
    BY <1>2, <1>4, <1>5
  <2> QED
    BY <1>1, <1>5, <2>1 DEF Precedes
<1>7. NextCursor(F) \in F /\ \A d \in F : Precedes(NextCursor(F), d)
  BY <1>6 DEF NextCursor
<1> QED
  BY <1>1, <1>7 DEF Precedes

\* Adding an event to a sequence adds one to what is counted of it, if it counts.
LEMMA CountOf ==
  ASSUME NEW n \in Nat, NEW A, A \subseteq 1 .. n
  PROVE  /\ IsFiniteSet(A) /\ Cardinality(A) \in Nat
         /\ Cardinality(A \union {n + 1}) = Cardinality(A) + 1
<1>1. IsFiniteSet(1 .. n)
  BY FS_Interval
<1>2. IsFiniteSet(A)
  BY <1>1, FS_Subset
<1>3. n + 1 \notin A
  OBVIOUS
<1> QED
  BY <1>2, <1>3, FS_AddElement, FS_CardinalityType

\* What a writer that takes an event adds to the counts.
LEMMA CountsGrow ==
  ASSUME exOut \in Seq(ExportEvents), NEW c \in ExportEvents, exOut' = Append(exOut, c)
  PROVE  /\ exOut' \in Seq(ExportEvents) /\ Len(exOut') = Len(exOut) + 1 /\ Len(exOut) \in Nat
         /\ \A k \in 1 .. Len(exOut) : exOut'[k] = exOut[k]
         /\ exOut'[Len(exOut) + 1] = c
         /\ \A s : \A n \in 0 .. Len(exOut) : WrittenOf(s, n)' = WrittenOf(s, n)
         /\ \A s : \A n : n = Len(exOut) + 1 =>
              WrittenOf(s, n)' = Written(s) + (IF c.session = s THEN 1 ELSE 0)
         /\ \A s : Written(s)' = Written(s) + (IF c.session = s THEN 1 ELSE 0)
         /\ MetricsWritten' = MetricsWritten + (IF c.metric THEN 1 ELSE 0)
         /\ MetricsWritten \in Nat
<1>1. /\ exOut' \in Seq(ExportEvents) /\ Len(exOut') = Len(exOut) + 1 /\ Len(exOut) \in Nat
      /\ \A k \in 1 .. Len(exOut) : exOut'[k] = exOut[k]
      /\ exOut'[Len(exOut) + 1] = c
  BY AppendOf
<1>2. ASSUME NEW s, NEW n \in 0 .. Len(exOut)
      PROVE  WrittenOf(s, n)' = WrittenOf(s, n)
  <2>1. {k \in 1 .. n : exOut'[k].session = s} = {k \in 1 .. n : exOut[k].session = s}
    BY <1>1, <1>2
  <2> QED
    BY <2>1 DEF WrittenOf
<1>3. ASSUME NEW s, NEW n, n = Len(exOut) + 1
      PROVE  WrittenOf(s, n)' = Written(s) + (IF c.session = s THEN 1 ELSE 0)
  <2> DEFINE A == {k \in 1 .. Len(exOut) : exOut[k].session = s}
             B == {k \in 1 .. Len(exOut) + 1 : exOut'[k].session = s}
  <2>1. B = IF c.session = s THEN A \union {Len(exOut) + 1} ELSE A
    BY <1>1
  <2>2. Written(s) = Cardinality(A) /\ WrittenOf(s, n)' = Cardinality(B)
    BY <1>3 DEF Written, WrittenOf
  <2>3. Cardinality(A) \in Nat /\ Cardinality(A \union {Len(exOut) + 1}) = Cardinality(A) + 1
    BY <1>1, CountOf
  <2> HIDE DEF A, B
  <2> QED
    BY <2>1, <2>2, <2>3
<1>4. ASSUME NEW s
      PROVE  Written(s)' = Written(s) + (IF c.session = s THEN 1 ELSE 0)
  <2>1. PICK n : n = Len(exOut) + 1
    OBVIOUS
  <2>2. Written(s)' = WrittenOf(s, n)'
    BY <1>1, <2>1 DEF Written, WrittenOf
  <2> QED
    BY <1>3, <2>1, <2>2
<1>5. MetricsWritten' = MetricsWritten + (IF c.metric THEN 1 ELSE 0) /\ MetricsWritten \in Nat
  <2> DEFINE A == {k \in 1 .. Len(exOut) : exOut[k].metric}
             B == {k \in 1 .. Len(exOut) + 1 : exOut'[k].metric}
  <2>1. B = IF c.metric THEN A \union {Len(exOut) + 1} ELSE A
    BY <1>1
  <2>2. MetricsWritten = Cardinality(A) /\ MetricsWritten' = Cardinality(B)
    BY <1>1 DEF MetricsWritten
  <2>3. Cardinality(A) \in Nat /\ Cardinality(A \union {Len(exOut) + 1}) = Cardinality(A) + 1
    BY <1>1, CountOf
  <2> HIDE DEF A, B
  <2> QED
    BY <2>1, <2>2, <2>3
<1> QED
  BY <1>1, <1>2, <1>3, <1>5, <1>4

LEMMA WrittenType ==
  ASSUME exOut \in Seq(ExportEvents)
  PROVE  \A s : Written(s) \in Nat
<1> SUFFICES ASSUME NEW s PROVE Written(s) \in Nat
  OBVIOUS
<1> DEFINE A == {k \in 1 .. Len(exOut) : exOut[k].session = s}
<1>1. Len(exOut) \in Nat /\ A \subseteq 1 .. Len(exOut)
  BY LenProperties
<1>2. Written(s) = Cardinality(A)
  BY DEF Written, WrittenOf
<1> HIDE DEF A
<1> QED
  BY <1>1, <1>2, CountOf

\* The place of an event among those of its session.
LEMMA PlaceOf ==
  ASSUME exOut \in Seq(ExportEvents), NEW k \in 1 .. Len(exOut)
  PROVE  /\ exOut[k].session \in ExSessions
         /\ WrittenOf(exOut[k].session, k) \in 1 .. Written(exOut[k].session)
<1> DEFINE s == exOut[k].session
           A == {j \in 1 .. k : exOut[j].session = s}
           B == {j \in 1 .. Len(exOut) : exOut[j].session = s}
<1>1. Len(exOut) \in Nat /\ exOut[k] \in ExportEvents
  BY LenProperties, ElementOfSeq
<1>2. s \in ExSessions
  BY <1>1 DEF ExportEvents
<1>3. k \in Nat /\ A \subseteq 1 .. k /\ B \subseteq 1 .. Len(exOut) /\ A \subseteq B /\ k \in A
  BY <1>1
<1>4. WrittenOf(s, k) = Cardinality(A) /\ Written(s) = Cardinality(B)
  BY DEF Written, WrittenOf
<1> HIDE DEF A, B, s
<1>5. IsFiniteSet(A) /\ IsFiniteSet(B) /\ Cardinality(A) \in Nat /\ Cardinality(B) \in Nat
  BY <1>1, <1>3, CountOf
<1>6. Cardinality(A) <= Cardinality(B)
  BY <1>3, <1>5, FS_Subset
<1>7. Cardinality(A) # 0
  BY <1>3, <1>5, FS_EmptySet
<1>8. WrittenOf(s, k) \in 1 .. Written(s)
  BY <1>4, <1>5, <1>6, <1>7
<1> QED
  BY <1>2, <1>8 DEF s

LEMMA NothingWritten ==
  ASSUME exOut = <<>>
  PROVE  (\A s : Written(s) = 0) /\ MetricsWritten = 0
<1>1. \A s : {k \in 1 .. Len(exOut) : exOut[k].session = s} = {}
  OBVIOUS
<1>2. {k \in 1 .. Len(exOut) : exOut[k].metric} = {}
  OBVIOUS
<1> QED
  BY <1>1, <1>2, FS_EmptySet DEF Written, WrittenOf, MetricsWritten

LEMMA EventTypes ==
  ASSUME NEW e \in ExportEvents
  PROVE  /\ e.session \in ExSessions /\ e.session \in Nat /\ e.time \in Nat /\ e.metric \in BOOLEAN
         /\ BlockOf(e) \in Blocks
<1>1. e.session \in ExSessions /\ e.time \in Times /\ e.metric \in BOOLEAN
  BY DEF ExportEvents
<1>2. ExSessions \subseteq Nat /\ Times \subseteq Nat
  BY ExportAssumption DEF Times
<1>3. BlockOf(e) \in ExSessions \X Times
  BY <1>1 DEF BlockOf
<1> QED
  BY <1>1, <1>2, <1>3, Zenon DEF Blocks

MergeInv == ReadInOrder /\ WrittenInOrder /\ NothingEarlierWaits

LEMMA ExInitially == ExInit => ExInv
<1> SUFFICES ASSUME ExInit PROVE ExInv
  OBVIOUS
<1>1. /\ exOut = <<>> /\ exBuffer = <<>> /\ exRecords = <<>> /\ exFrontier = {} /\ exNeeds = {}
      /\ exBlock = NoBlock /\ exRead = [s \in ExSessions |-> <<>>]
  BY DEF ExInit
<1>2. Len(exOut) = 0 /\ \A S : <<>> \in Seq(S)
  BY <1>1, EmptySeq
<1>3. ReadInOrder
  BY <1>1, <1>2 DEF ReadInOrder
<1>4. WrittenInOrder
  BY <1>1, <1>2, NothingWritten DEF WrittenInOrder, Waiting
<1>5. NothingEarlierWaits
  BY <1>1, <1>2 DEF NothingEarlierWaits, Monotonic
<1>6. MetricsInOrder
  BY <1>1, <1>2, NothingWritten, ExportAssumption DEF MetricsInOrder, Blocks
<1>7. StagesInOrder
  <2>1. 1 \in 1 .. MaxParts + 1 /\ 1 <= MaxParts /\ 0 \in 0 .. MaxLines
    BY ExportAssumption
  <2> QED
    BY <1>1, <2>1 DEF ExInit, StagesInOrder
<1>8. FilesKept
  BY DEF ExInit, FilesKept
<1> QED
  BY <1>3, <1>4, <1>5, <1>6, <1>7, <1>8 DEF ExInv

LEMMA MergeRests ==
  ASSUME MergeInv, UNCHANGED <<exRead, exFrontier, exNeeds, exOut>>
  PROVE  MergeInv'
<1>1. ReadInOrder'
  BY DEF MergeInv, ReadInOrder, LastRead
<1>2. WrittenInOrder'
  BY DEF MergeInv, WrittenInOrder, Written, WrittenOf, Waiting
<1>3. NothingEarlierWaits'
  BY DEF MergeInv, NothingEarlierWaits, LastRead, Monotonic
<1> QED
  BY <1>1, <1>2, <1>3 DEF MergeInv

LEMMA MetricsRest ==
  ASSUME MetricsInOrder, UNCHANGED <<exOut, exBuffer, exBlock, exRecords, exFormat>>
  PROVE  MetricsInOrder'
BY DEF MetricsInOrder, MetricsWritten

\* Nothing temporary is left but what could not be removed.
LEMMA FailsClean ==
  ASSUME ExInv, ExportFails, exStage \in {"list", "open", "merge", "pack", "rename"}
  PROVE  ExInv'
<1>1. /\ exStage' = "failed" /\ CleansUp(exLeft \ exReported)
      /\ UNCHANGED <<exFormat, exCancelled, exPart, exLines, exRead, exFrontier, exNeeds,
                     exOut, exBuffer, exBlock, exRecords, exTarget>>
  BY DEF ExportFails, Removable, exSource, exContent
<1>2. PICK stays \in SUBSET (exLeft \ exReported) :
        /\ exLeft' = (exLeft \ (exLeft \ exReported)) \union stays
        /\ exReported' = exReported \union stays
  BY <1>1 DEF CleansUp
<1>3. FilesKept'
  BY <1>1, <1>2 DEF ExInv, FilesKept
<1>4. StagesInOrder'
  BY <1>1 DEF ExInv, StagesInOrder, Waiting
<1> QED
  BY <1>1, <1>3, <1>4, MergeRests, MetricsRest DEF ExInv, MergeInv

\* A line that was read is the next event of its session, or is skipped.
LEMMA LineRead ==
  ASSUME ExInv, NEW time \in Times, NEW metric \in BOOLEAN, ReadExportLine(time, metric)
  PROVE  ExInv'
<1>0. PICK s : s = Least(exNeeds)
  OBVIOUS
<1>1. PICK event : event = [session |-> s, time |-> time, metric |-> metric]
  OBVIOUS
<1>2. /\ exStage = "merge" /\ exNeeds # {} /\ exLines[s] < MaxLines
      /\ exLines' = [exLines EXCEPT ![s] = @ + 1]
      /\ UNCHANGED <<exStage, exFormat, exCancelled, exPart, exOut, exBuffer, exBlock, exRecords,
                     exLeft, exReported, exTarget>>
  BY <1>0 DEF ReadExportLine, exContent, exFiles
<1>3. exNeeds \subseteq ExSessions /\ s \in exNeeds /\ s \in ExSessions
  BY <1>0, <1>2, LeastIs, ExportAssumption DEF ExInv, ReadInOrder
<1>4. event \in ExportEvents /\ event.session = s
  BY <1>3, <1>1 DEF ExportEvents
<1>5. exLines' \in [ExSessions -> 0 .. MaxLines]
  <2>1. MaxLines \in Nat /\ exLines \in [ExSessions -> 0 .. MaxLines]
    BY ExportAssumption DEF ExInv, StagesInOrder
  <2>2. exLines[s] + 1 \in 0 .. MaxLines
    BY <1>2, <1>3, <2>1
  <2> QED
    BY <1>2, <2>1, <2>2
<1>6. FilesKept'
  BY <1>2 DEF ExInv, FilesKept
<1>7. MetricsInOrder'
  BY <1>2, MetricsRest DEF ExInv
<1>8. CASE ~InRange(time)
  <2>1. UNCHANGED <<exRead, exFrontier, exNeeds>>
    BY <1>8 DEF ReadExportLine
  <2>2. StagesInOrder'
    BY <1>2, <1>5, <2>1 DEF ExInv, StagesInOrder, Waiting
  <2> QED
    BY <1>2, <1>6, <1>7, <2>1, <2>2, MergeRests DEF ExInv, MergeInv
<1>9. CASE InRange(time)
  <2>1. /\ exRead' = [exRead EXCEPT ![s] = Append(exRead[s], event)]
        /\ exFrontier' = exFrontier \union {event}
        /\ exNeeds' = exNeeds \ {s}
    BY <1>0, <1>9, <1>1 DEF ReadExportLine
  <2>2. /\ exRead \in [ExSessions -> Seq(ExportEvents)] /\ exRead[s] \in Seq(ExportEvents)
        /\ \A c \in exFrontier : c.session # s
    BY <1>3 DEF ExInv, ReadInOrder
  <2>3. /\ exRead'[s] \in Seq(ExportEvents) /\ Len(exRead'[s]) = Len(exRead[s]) + 1 /\ Len(exRead[s]) \in Nat
        /\ \A i \in 1 .. Len(exRead[s]) : exRead'[s][i] = exRead[s][i]
        /\ exRead'[s][Len(exRead[s]) + 1] = event
        /\ \A t \in ExSessions : t # s => exRead'[t] = exRead[t]
        /\ exRead' \in [ExSessions -> Seq(ExportEvents)]
    <3>1. exRead'[s] = Append(exRead[s], event)
      BY <1>3, <2>1, <2>2
    <3>2. /\ exRead'[s] \in Seq(ExportEvents) /\ Len(exRead'[s]) = Len(exRead[s]) + 1 /\ Len(exRead[s]) \in Nat
          /\ \A i \in 1 .. Len(exRead[s]) : exRead'[s][i] = exRead[s][i]
          /\ exRead'[s][Len(exRead[s]) + 1] = event
      BY <1>4, <2>2, <3>1, AppendOf
    <3>3. exRead' \in [ExSessions -> Seq(ExportEvents)] /\ \A t \in ExSessions : t # s => exRead'[t] = exRead[t]
      BY <1>3, <2>1, <2>2, <3>1, <3>2
    <3> QED
      BY <3>2, <3>3
  <2>4. exRead'[s] # <<>> /\ LastRead(s)' = event
    BY <2>3, EmptySeq DEF LastRead
  <2>5. ReadInOrder'
    <3>1. \A t \in ExSessions : \A i \in 1 .. Len(exRead'[t]) : exRead'[t][i].session = t
      <4> SUFFICES ASSUME NEW t \in ExSessions, NEW i \in 1 .. Len(exRead'[t]) PROVE exRead'[t][i].session = t
        OBVIOUS
      <4>1. CASE t # s
        BY <2>3, <4>1 DEF ExInv, ReadInOrder
      <4>2. CASE t = s /\ i = Len(exRead[s]) + 1
        BY <1>4, <2>3, <4>2
      <4>3. CASE t = s /\ i # Len(exRead[s]) + 1
        <5>1. i \in 1 .. Len(exRead[s])
          BY <2>3, <4>3
        <5> QED
          BY <1>3, <2>3, <4>3, <5>1 DEF ExInv, ReadInOrder
      <4> QED
        BY <4>1, <4>2, <4>3
    <3>2. ASSUME NEW c \in exFrontier'
          PROVE  exRead'[c.session] # <<>> /\ c = LastRead(c.session)' /\ c.session \notin exNeeds'
      <4>1. CASE c = event
        BY <1>4, <2>1, <2>4, <4>1
      <4>2. CASE c \in exFrontier
        <5>1. c.session \in ExSessions /\ c.session # s
          BY <2>2, <4>2 DEF ExInv, ReadInOrder, ExportEvents
        <5> QED
          BY <2>1, <2>3, <4>2, <5>1 DEF ExInv, ReadInOrder, LastRead
      <4> QED
        BY <2>1, <4>1, <4>2
    <3> QED
      BY <1>3, <1>4, <2>1, <2>3, <3>1, <3>2 DEF ExInv, ReadInOrder
  <2>6. WrittenInOrder'
    <3>1. \A t : Written(t)' = Written(t) /\ \A n : WrittenOf(t, n)' = WrittenOf(t, n)
      BY <1>2 DEF Written, WrittenOf
    <3>2. Waiting(s)' /\ ~Waiting(s) /\ \A t : t # s => Waiting(t)' = Waiting(t)
      <4>1. Waiting(s)' /\ ~Waiting(s)
        BY <1>4, <2>1, <2>2 DEF Waiting
      <4>2. \A t : t # s => (Waiting(t)' <=> Waiting(t))
        BY <1>4, <2>1 DEF Waiting
      <4>3. \A t : Waiting(t) \in BOOLEAN /\ Waiting(t)' \in BOOLEAN
        BY DEF Waiting
      <4> QED
        BY <4>1, <4>2, <4>3, Zenon
    <3>3. \A t \in ExSessions : Len(exRead'[t]) = Written(t) + (IF Waiting(t)' THEN 1 ELSE 0)
      <4> SUFFICES ASSUME NEW t \in ExSessions PROVE Len(exRead'[t]) = Written(t) + (IF Waiting(t)' THEN 1 ELSE 0)
        OBVIOUS
      <4>1. Len(exRead[t]) = Written(t) + (IF Waiting(t) THEN 1 ELSE 0)
        BY DEF ExInv, WrittenInOrder
      <4>2. CASE t = s
        <5>1. Len(exRead[s]) = Written(s) + 0
          BY <3>2, <4>1, <4>2
        <5>3. Written(s) \in Nat
          BY WrittenType DEF ExInv, WrittenInOrder
        <5> QED
          BY <2>3, <3>2, <4>2, <5>1, <5>3
      <4>3. CASE t # s
        BY <2>3, <3>2, <4>1, <4>3
      <4> QED
        BY <4>2, <4>3
    <3>4. ASSUME NEW k \in 1 .. Len(exOut)
          PROVE  exOut[k] = exRead'[exOut[k].session][WrittenOf(exOut[k].session, k)]
      <4>1. /\ exOut[k].session \in ExSessions
            /\ WrittenOf(exOut[k].session, k) \in 1 .. Written(exOut[k].session)
            /\ exOut[k] = exRead[exOut[k].session][WrittenOf(exOut[k].session, k)]
        BY PlaceOf DEF ExInv, WrittenInOrder
      <4>2. CASE exOut[k].session = s
        <5>1. Written(s) = Len(exRead[s])
          <6>1. Len(exRead[s]) = Written(s) + 0
            BY <1>3, <3>2 DEF ExInv, WrittenInOrder
          <6>2. Written(s) \in Nat
            BY WrittenType DEF ExInv, WrittenInOrder
          <6> QED
            BY <6>1, <6>2
        <5> QED
          BY <2>3, <4>1, <4>2, <5>1
      <4>3. CASE exOut[k].session # s
        BY <2>3, <4>1, <4>3
      <4> QED
        BY <4>2, <4>3
    <3> QED
      BY <1>2, <3>1, <3>3, <3>4 DEF ExInv, WrittenInOrder
  <2>7. NothingEarlierWaits'
    <3> SUFFICES ASSUME \A t \in ExSessions : Monotonic(exRead'[t])
                 PROVE  /\ Monotonic(exOut)
                        /\ \A k \in 1 .. Len(exOut) :
                             /\ \A c \in exFrontier' : exOut[k].time <= c.time
                             /\ \A t \in exNeeds' : exRead'[t] # <<>> /\ exOut[k].time <= LastRead(t)'.time
      BY <1>2 DEF NothingEarlierWaits, Monotonic
    <3>1. \A t \in ExSessions : Monotonic(exRead[t])
      <4> SUFFICES ASSUME NEW t \in ExSessions PROVE Monotonic(exRead[t])
        OBVIOUS
      <4>1. CASE t # s
        BY <2>3, <4>1
      <4>2. CASE t = s
        <5>1. Monotonic(exRead'[s])
          BY <4>2
        <5>2. \A i \in 1 .. Len(exRead[s]) : i \in 1 .. Len(exRead'[s]) /\ exRead'[s][i] = exRead[s][i]
          BY <2>3
        <5>3. Monotonic(exRead[s])
          BY <5>1, <5>2 DEF Monotonic
        <5> QED
          BY <4>2, <5>3
      <4> QED
        BY <4>1, <4>2
    <3>2. /\ Monotonic(exOut)
          /\ \A k \in 1 .. Len(exOut) :
               /\ \A c \in exFrontier : exOut[k].time <= c.time
               /\ \A t \in exNeeds : exRead[t] # <<>> /\ exOut[k].time <= LastRead(t).time
      BY <3>1 DEF ExInv, NothingEarlierWaits
    <3>3. ASSUME NEW k \in 1 .. Len(exOut) PROVE exOut[k].time <= event.time
      <4>1. exRead[s] # <<>> /\ exOut[k].time <= LastRead(s).time
        BY <1>3, <3>2
      <4>2. Len(exRead[s]) \in 1 .. Len(exRead[s]) /\ Len(exRead[s]) < Len(exRead[s]) + 1
        BY <2>2, <2>3, <4>1, EmptySeq
      <4>3. exRead'[s][Len(exRead[s])].time <= exRead'[s][Len(exRead[s]) + 1].time
        <5>1. Len(exRead[s]) \in 1 .. Len(exRead'[s]) /\ Len(exRead[s]) + 1 \in 1 .. Len(exRead'[s])
          BY <2>3, <4>2
        <5>2. Monotonic(exRead'[s])
          BY <1>3
        <5> QED
          BY <4>2, <5>1, <5>2 DEF Monotonic
      <4>4. LastRead(s) = exRead'[s][Len(exRead[s])] /\ event = exRead'[s][Len(exRead[s]) + 1]
        BY <2>3, <4>2 DEF LastRead
      <4>5. exOut[k] \in ExportEvents /\ LastRead(s) \in ExportEvents
        <5>1. exOut \in Seq(ExportEvents)
          BY DEF ExInv, WrittenInOrder
        <5> QED
          BY <2>2, <4>2, <5>1, ElementOfSeq DEF LastRead
      <4>6. exOut[k].time \in Nat /\ LastRead(s).time \in Nat /\ event.time \in Nat
        BY <1>4, <4>5, EventTypes
      <4> QED
        BY <4>1, <4>3, <4>4, <4>6
    <3>4. ASSUME NEW t \in exNeeds' PROVE t \in exNeeds /\ exRead'[t] = exRead[t] /\ LastRead(t)' = LastRead(t)
      BY <1>3, <2>1, <2>3, <3>4 DEF LastRead
    <3> QED
      BY <2>1, <3>2, <3>3, <3>4
  <2>8. StagesInOrder'
    <3>1. \A t : t \in exNeeds' \/ Waiting(t)' => t \in exNeeds \/ Waiting(t)
      BY <1>3, <1>4, <2>1 DEF Waiting
    <3> QED
      BY <1>2, <1>5, <3>1 DEF ExInv, StagesInOrder
  <2> QED
    BY <1>6, <1>7, <2>5, <2>6, <2>7, <2>8 DEF ExInv
<1> QED
  BY <1>8, <1>9

LEMMA UnderBlockIs ==
  ASSUME NEW buffer \in Seq(ExportEvents), NEW block \in Blocks,
         \A i \in 1 .. Len(buffer) : BlockOf(buffer[i]) = block
  PROVE  /\ UnderBlock(buffer, block) \in Seq(MetricRecords)
         /\ Len(UnderBlock(buffer, block)) = Len(buffer) /\ Len(buffer) \in Nat
         /\ \A i \in 1 .. Len(buffer) :
              UnderBlock(buffer, block)[i].block = BlockOf(UnderBlock(buffer, block)[i].event)
<1>1. Len(buffer) \in Nat /\ \A i \in 1 .. Len(buffer) : buffer[i] \in ExportEvents
  BY LenProperties, ElementOfSeq
<1>2. \A i \in 1 .. Len(buffer) : [event |-> buffer[i], block |-> block] \in MetricRecords
  BY <1>1 DEF MetricRecords
<1>3. UnderBlock(buffer, block) \in [1 .. Len(buffer) -> MetricRecords]
  BY <1>2 DEF UnderBlock
<1>4. UnderBlock(buffer, block) \in Seq(MetricRecords) /\ Len(UnderBlock(buffer, block)) = Len(buffer)
  BY <1>1, <1>3
<1> QED
  BY <1>1, <1>4 DEF UnderBlock

\* A flush puts what is buffered under the block of all of it.
Pending(buffer, block) ==
  /\ buffer \in Seq(ExportEvents) /\ block \in Blocks
  /\ \A i \in 1 .. Len(buffer) : BlockOf(buffer[i]) = block
Filed(records) ==
  /\ records \in Seq(MetricRecords)
  /\ \A i \in 1 .. Len(records) : records[i].block = BlockOf(records[i].event)

LEMMA FlushedUnder ==
  ASSUME NEW records, NEW buffer, NEW block, Filed(records), Pending(buffer, block)
  PROVE  /\ Filed(records \o UnderBlock(buffer, block))
         /\ Len(records \o UnderBlock(buffer, block)) = Len(records) + Len(buffer)
<1> DEFINE u == UnderBlock(buffer, block)
           r == records \o u
<1>0. /\ records \in Seq(MetricRecords) /\ buffer \in Seq(ExportEvents) /\ block \in Blocks
      /\ \A i \in 1 .. Len(buffer) : BlockOf(buffer[i]) = block
      /\ \A i \in 1 .. Len(records) : records[i].block = BlockOf(records[i].event)
  BY DEF Pending, Filed
<1>1. /\ u \in Seq(MetricRecords) /\ Len(u) = Len(buffer) /\ Len(buffer) \in Nat /\ Len(records) \in Nat
      /\ \A i \in 1 .. Len(buffer) : u[i].block = BlockOf(u[i].event)
  BY <1>0, UnderBlockIs, LenProperties
<1> HIDE DEF u
<1>2. Joined(r, records, u, MetricRecords)
  BY <1>0, <1>1, ConcatJoins, Zenon
<1> HIDE DEF r
<1>3. /\ r \in Seq(MetricRecords) /\ Len(r) = Len(records) + Len(u)
      /\ \A i \in 1 .. Len(records) + Len(u) : r[i] = IF i <= Len(records) THEN records[i] ELSE u[i - Len(records)]
  BY <1>2 DEF Joined
<1>4. ASSUME NEW i \in 1 .. Len(r) PROVE r[i].block = BlockOf(r[i].event)
  <2>1. CASE i <= Len(records)
    BY <1>0, <1>1, <1>3, <2>1
  <2>2. CASE ~(i <= Len(records))
    <3>1. i - Len(records) \in 1 .. Len(buffer) /\ r[i] = u[i - Len(records)]
      BY <1>1, <1>3, <2>2
    <3> QED
      BY <1>1, <3>1
  <2> QED
    BY <2>1, <2>2
<1>5. Filed(r) /\ Len(r) = Len(records) + Len(buffer)
  BY <1>1, <1>3, <1>4 DEF Filed
<1> QED
  BY <1>5, Zenon DEF r, u

\* The block that is open for an event is its own.
OpensOwn(o, c) ==
  /\ o.block = BlockOf(c) /\ o.block \in Blocks
  /\ o.buffer \in Seq(ExportEvents) /\ Len(o.buffer) <= MaxBuffered
  /\ o.records \in Seq(MetricRecords)
  /\ Len(o.records) + Len(o.buffer) = Len(exRecords) + Len(exBuffer)
  /\ \A i \in 1 .. Len(o.buffer) : BlockOf(o.buffer[i]) = o.block
  /\ \A i \in 1 .. Len(o.records) : o.records[i].block = BlockOf(o.records[i].event)

LEMMA BlockOpens ==
  ASSUME MetricsInOrder, NEW c \in ExportEvents, NEW o, o = OpenEventBlock(c)
  PROVE  OpensOwn(o, c)
<1>1. CASE exBlock = BlockOf(c)
  <2>1. o.block = exBlock /\ o.buffer = exBuffer /\ o.records = exRecords
    BY <1>1 DEF OpenEventBlock
  <2> QED
    BY <1>1, <2>1 DEF MetricsInOrder, OpensOwn
<1>2. CASE exBlock # BlockOf(c)
  <2>1. o.block = BlockOf(c) /\ o.buffer = <<>> /\ o.records = exRecords \o UnderBlock(exBuffer, exBlock)
    BY <1>2 DEF OpenEventBlock
  <2>2. Filed(o.records) /\ Len(o.records) = Len(exRecords) + Len(exBuffer)
    <3>1. Filed(exRecords) /\ Pending(exBuffer, exBlock)
      BY DEF MetricsInOrder, Filed, Pending
    <3> QED
      BY <2>1, <3>1, FlushedUnder, Zenon
  <2>3. Len(o.buffer) = 0 /\ o.buffer \in Seq(ExportEvents) /\ Len(exRecords) \in Nat /\ Len(exBuffer) \in Nat
    BY <2>1, EmptySeq, LenProperties DEF MetricsInOrder
  <2>4. 0 <= MaxBuffered
    BY ExportAssumption
  <2> QED
    BY <2>1, <2>2, <2>3, <2>4, EventTypes DEF Filed, OpensOwn
<1> QED
  BY <1>1, <1>2

\* One metric goes to the buffer, and from there on when that is full.
LEMMA MetricTaken ==
  ASSUME ExInv, NEW c \in ExportEvents, WriteEvent(c), UNCHANGED exFormat
  PROVE  MetricsInOrder'
<1>1. MetricsInOrder /\ exOut \in Seq(ExportEvents) /\ exOut' = Append(exOut, c)
  BY DEF ExInv, WrittenInOrder, WriteEvent
<1>2. MetricsWritten' = MetricsWritten + (IF c.metric THEN 1 ELSE 0) /\ MetricsWritten \in Nat
  BY <1>1, CountsGrow
<1>3. CASE exFormat # "otlp"
  BY <1>1, <1>3 DEF WriteEvent, MetricsInOrder
<1>4. CASE exFormat = "otlp"
  <2>1. RouteEvent(c)
    BY <1>4 DEF WriteEvent
  <2>2. PICK o : o = OpenEventBlock(c)
    OBVIOUS
  <2>3. PICK b : b = AddPoint(o.buffer, c)
    OBVIOUS
  <2>4. /\ exBlock' = o.block
        /\ exBuffer' = IF Len(b) >= MaxBuffered THEN <<>> ELSE b
        /\ exRecords' = IF Len(b) >= MaxBuffered THEN o.records \o UnderBlock(b, o.block) ELSE o.records
    BY <2>1, <2>2, <2>3 DEF RouteEvent
  <2>5. OpensOwn(o, c)
    BY <1>1, <2>2, BlockOpens, Zenon
  <2>6. /\ o.block = BlockOf(c) /\ o.block \in Blocks
        /\ o.buffer \in Seq(ExportEvents) /\ Len(o.buffer) <= MaxBuffered
        /\ o.records \in Seq(MetricRecords)
        /\ Len(o.records) + Len(o.buffer) = Len(exRecords) + Len(exBuffer)
        /\ \A i \in 1 .. Len(o.buffer) : BlockOf(o.buffer[i]) = o.block
        /\ \A i \in 1 .. Len(o.records) : o.records[i].block = BlockOf(o.records[i].event)
    BY <2>5 DEF OpensOwn
  <2>7. Len(o.records) + Len(o.buffer) = MetricsWritten
    BY <1>1, <1>4, <2>6 DEF MetricsInOrder
  <2>8. /\ b \in Seq(ExportEvents) /\ Len(b) = Len(o.buffer) + (IF c.metric THEN 1 ELSE 0) /\ Len(o.buffer) \in Nat
        /\ \A i \in 1 .. Len(b) : BlockOf(b[i]) = o.block
    <3>1. CASE ~c.metric
      BY <2>3, <2>6, <3>1, LenProperties DEF AddPoint
    <3>2. CASE c.metric
      <4>1. b = Append(o.buffer, c)
        BY <2>3, <3>2 DEF AddPoint
      <4>2. /\ b \in Seq(ExportEvents) /\ Len(b) = Len(o.buffer) + 1 /\ Len(o.buffer) \in Nat
            /\ \A i \in 1 .. Len(o.buffer) : b[i] = o.buffer[i]
            /\ b[Len(o.buffer) + 1] = c
        BY <2>6, <4>1, AppendOf
      <4>3. \A i \in 1 .. Len(b) : i \in 1 .. Len(o.buffer) \/ i = Len(o.buffer) + 1
        BY <4>2
      <4> QED
        BY <2>6, <3>2, <4>2, <4>3
    <3> QED
      BY <3>1, <3>2
  <2>9. Len(o.records) \in Nat /\ Len(b) \in Nat /\ MaxBuffered \in Nat
    <3>1. MaxBuffered \in Nat
      BY ExportAssumption
    <3> QED
      BY <2>6, <2>8, <3>1, LenProperties
  <2>10. Len(o.records) + Len(b) = MetricsWritten'
    <3>1. PICK r \in Nat, l \in Nat, w \in Nat, d \in Nat :
            /\ r = Len(o.records) /\ l = Len(o.buffer) /\ w = MetricsWritten
            /\ d = IF c.metric THEN 1 ELSE 0
      BY <1>2, <2>8, <2>9
    <3>2. r + l = w /\ Len(b) = l + d /\ MetricsWritten' = w + d
      BY <1>2, <2>8, <2>7, <3>1
    <3>3. r + (l + d) = w + d
      BY <3>2
    <3> QED
      BY <3>1, <3>2, <3>3, Zenon
  <2>11. CASE Len(b) >= MaxBuffered
    <3>1. exBuffer' = <<>> /\ exRecords' = o.records \o UnderBlock(b, o.block)
      BY <2>4, <2>11
    <3>2. Filed(o.records) /\ Pending(b, o.block)
      BY <2>6, <2>8 DEF Filed, Pending
    <3>3. Filed(exRecords') /\ Len(exRecords') = Len(o.records) + Len(b)
      BY <3>1, <3>2, FlushedUnder, Zenon
    <3>4. /\ exRecords' \in Seq(MetricRecords) /\ Len(exRecords') = Len(o.records) + Len(b)
          /\ \A i \in 1 .. Len(exRecords') : exRecords'[i].block = BlockOf(exRecords'[i].event)
      BY <3>3 DEF Filed
    <3>5. Len(exBuffer') = 0 /\ exBuffer' \in Seq(ExportEvents) /\ 0 <= MaxBuffered
      BY <2>9, <3>1, EmptySeq
    <3>6. Len(exRecords') + Len(exBuffer') = MetricsWritten'
      BY <2>9, <2>10, <3>4, <3>5
    <3>7. \A i \in 1 .. Len(exBuffer') : BlockOf(exBuffer'[i]) = exBlock'
      BY <3>5
    <3> QED
      BY <2>4, <2>6, <3>4, <3>5, <3>6, <3>7 DEF MetricsInOrder
  <2>12. CASE ~(Len(b) >= MaxBuffered)
    <3>1. exBuffer' = b /\ exRecords' = o.records /\ Len(b) <= MaxBuffered
      BY <2>4, <2>9, <2>12
    <3> QED
      BY <2>4, <2>6, <2>8, <2>10, <3>1 DEF MetricsInOrder
  <2> QED
    BY <2>11, <2>12
<1> QED
  BY <1>3, <1>4

\* The first event of the frontier is written, and its session is asked again.
LEMMA EventTaken == ASSUME ExInv, TakeNextCursor PROVE ExInv'
<1>0. PICK c : c = NextCursor(exFrontier)
  OBVIOUS
<1>1. /\ exStage = "merge" /\ exNeeds = {} /\ exFrontier # {} /\ WriteEvent(c)
      /\ exFrontier' = exFrontier \ {c} /\ exNeeds' = {c.session}
      /\ UNCHANGED <<exStage, exFormat, exCancelled, exPart, exLines, exRead, exLeft, exReported, exTarget>>
  BY <1>0 DEF TakeNextCursor, exFiles
<1>2. exFrontier \subseteq ExportEvents /\ exOut \in Seq(ExportEvents)
  BY DEF ExInv, ReadInOrder, WrittenInOrder
<1>3. c \in exFrontier /\ c \in ExportEvents /\ \A d \in exFrontier : c.time <= d.time
  BY <1>0, <1>1, <1>2, NextCursorIs
<1>4. c.session \in ExSessions /\ c.time \in Nat
  BY <1>3, EventTypes
<1>5. exOut' = Append(exOut, c)
  BY <1>1 DEF WriteEvent
<1>6. /\ exOut' \in Seq(ExportEvents) /\ Len(exOut') = Len(exOut) + 1 /\ Len(exOut) \in Nat
      /\ \A k \in 1 .. Len(exOut) : exOut'[k] = exOut[k]
      /\ exOut'[Len(exOut) + 1] = c
      /\ \A s : \A n \in 0 .. Len(exOut) : WrittenOf(s, n)' = WrittenOf(s, n)
      /\ \A s : \A n : n = Len(exOut) + 1 => WrittenOf(s, n)' = Written(s) + (IF c.session = s THEN 1 ELSE 0)
      /\ \A s : Written(s)' = Written(s) + (IF c.session = s THEN 1 ELSE 0)
  BY <1>2, <1>3, <1>5, CountsGrow
<1>7. /\ exRead \in [ExSessions -> Seq(ExportEvents)]
      /\ exRead[c.session] # <<>> /\ c = LastRead(c.session) /\ Waiting(c.session)
  BY <1>3 DEF ExInv, ReadInOrder, Waiting
<1>8. \A d \in exFrontier : d # c => d.session # c.session
  BY <1>7 DEF ExInv, ReadInOrder
<1>9. ~Waiting(c.session)' /\ \A s : s # c.session => (Waiting(s)' <=> Waiting(s))
  <2>1. PICK t : t = c.session
    OBVIOUS
  <2>2. ~Waiting(t)'
    BY <1>1, <1>8, <2>1 DEF Waiting
  <2>3. \A s : s # t => (Waiting(s)' <=> Waiting(s))
    BY <1>1, <2>1 DEF Waiting
  <2> QED
    BY <2>1, <2>2, <2>3
<1>10. exOut'[Len(exOut')] = c /\ Len(exOut') \in Nat
  BY <1>6
<1>11. ReadInOrder'
  <2>1. ASSUME NEW d \in exFrontier'
        PROVE  exRead'[d.session] # <<>> /\ d = LastRead(d.session)' /\ d.session \notin exNeeds'
    BY <1>1, <1>8 DEF ExInv, ReadInOrder, LastRead
  <2> QED
    BY <1>1, <1>4, <2>1 DEF ExInv, ReadInOrder
<1>12. ASSUME NEW s \in ExSessions
       PROVE  Len(exRead[s]) = Written(s)' + (IF Waiting(s)' THEN 1 ELSE 0)
  <2>1. Len(exRead[s]) = Written(s) + (IF Waiting(s) THEN 1 ELSE 0) /\ Written(s) \in Nat
    BY <1>2, WrittenType DEF ExInv, WrittenInOrder
  <2>2. CASE s = c.session
    BY <1>6, <1>7, <1>9, <2>1, <2>2
  <2>3. CASE s # c.session
    BY <1>6, <1>9, <2>1, <2>3
  <2> QED
    BY <2>2, <2>3
<1>13. ASSUME NEW k \in 1 .. Len(exOut'), NEW s, s = exOut'[k].session
       PROVE  exOut'[k] = exRead[s][WrittenOf(s, k)']
  <2>1. CASE k \in 1 .. Len(exOut)
    <3>1. exOut[k] = exRead[exOut[k].session][WrittenOf(exOut[k].session, k)]
      BY <2>1 DEF ExInv, WrittenInOrder
    <3>2. k \in 0 .. Len(exOut) /\ exOut'[k] = exOut[k] /\ s = exOut[k].session
      BY <1>6, <1>13, <2>1
    <3>3. WrittenOf(s, k)' = WrittenOf(s, k)
      BY <1>6, <3>2
    <3> QED
      BY <3>1, <3>2, <3>3
  <2>2. CASE k = Len(exOut) + 1
    <3>1. exOut'[k] = c /\ s = c.session
      BY <1>6, <1>13, <2>2
    <3>2. WrittenOf(s, k)' = Written(s) + 1
      BY <1>6, <2>2, <3>1
    <3>3. Len(exRead[s]) = Written(s) + 1
      BY <1>4, <1>7, <3>1 DEF ExInv, WrittenInOrder
    <3> QED
      BY <1>7, <3>1, <3>2, <3>3 DEF LastRead
  <2> QED
    BY <1>6, <2>1, <2>2
<1>14. WrittenInOrder'
  <2>1. \A k \in 1 .. Len(exOut') : (exOut[k] = exRead[exOut[k].session][WrittenOf(exOut[k].session, k)])'
    <3> SUFFICES ASSUME NEW k \in 1 .. Len(exOut')
                 PROVE  (exOut[k] = exRead[exOut[k].session][WrittenOf(exOut[k].session, k)])'
      OBVIOUS
    <3>1. PICK s : s = exOut'[k].session
      OBVIOUS
    <3>2. exOut'[k] = exRead[s][WrittenOf(s, k)']
      BY <1>13, <3>1
    <3> QED
      BY <1>1, <3>1, <3>2 DEF WrittenOf
  <2> QED
    BY <1>1, <1>6, <1>12, <2>1 DEF WrittenInOrder
<1>15. NothingEarlierWaits'
  <2> SUFFICES ASSUME \A t \in ExSessions : Monotonic(exRead[t])
               PROVE  /\ Monotonic(exOut')
                      /\ \A k \in 1 .. Len(exOut') :
                           /\ \A d \in exFrontier' : exOut'[k].time <= d.time
                           /\ \A t \in exNeeds' : exRead[t] # <<>> /\ exOut'[k].time <= LastRead(t).time
    BY <1>1 DEF NothingEarlierWaits, Monotonic, LastRead
  <2>1. Monotonic(exOut) /\ \A k \in 1 .. Len(exOut) : \A d \in exFrontier : exOut[k].time <= d.time
    BY DEF ExInv, NothingEarlierWaits
  <2>2. ASSUME NEW k \in 1 .. Len(exOut')
        PROVE  /\ exOut'[k].time <= c.time
               /\ \A d \in exFrontier : exOut'[k].time <= d.time
               /\ k = Len(exOut) + 1 \/ k \in 1 .. Len(exOut)
    <3>1. CASE k \in 1 .. Len(exOut)
      BY <1>3, <1>6, <2>1, <3>1
    <3>2. CASE k = Len(exOut) + 1
      BY <1>3, <1>4, <1>6, <3>2
    <3> QED
      BY <1>6, <3>1, <3>2
  <2>3. Monotonic(exOut')
    <3> SUFFICES ASSUME NEW i \in 1 .. Len(exOut'), NEW j \in 1 .. Len(exOut'), i < j
                 PROVE  exOut'[i].time <= exOut'[j].time
      BY DEF Monotonic
    <3>1. CASE j = Len(exOut) + 1
      BY <1>6, <2>2, <3>1
    <3>2. CASE j \in 1 .. Len(exOut)
      <4>1. i \in 1 .. Len(exOut)
        BY <1>6, <3>2
      <4> QED
        BY <1>6, <2>1, <3>2, <4>1 DEF Monotonic
    <3> QED
      BY <2>2, <3>1, <3>2
  <2> QED
    BY <1>1, <1>7, <2>2, <2>3
<1>16. MetricsInOrder'
  BY <1>1, <1>3, MetricTaken
<1>17. StagesInOrder'
  BY <1>1, <1>7 DEF ExInv, StagesInOrder, Waiting
<1>18. FilesKept'
  BY <1>1 DEF ExInv, FilesKept
<1> QED
  BY <1>11, <1>14, <1>15, <1>16, <1>17, <1>18 DEF ExInv

\* The end of the merge files the last metrics.
LEMMA MergeDone == ASSUME ExInv, MergeEnds PROVE ExInv'
<1>1. /\ exStage = "merge" /\ exNeeds = {} /\ exFrontier = {}
      /\ exStage' = IF exFormat = "otlp" THEN "pack" ELSE "rename"
      /\ exRecords' = exRecords \o UnderBlock(exBuffer, exBlock) /\ exBuffer' = <<>>
      /\ UNCHANGED <<exFormat, exCancelled, exPart, exLines, exRead, exFrontier, exNeeds, exOut,
                     exBlock, exLeft, exReported, exTarget>>
  BY DEF MergeEnds, exSource, exFiles
<1>2. Filed(exRecords) /\ Pending(exBuffer, exBlock)
  BY DEF ExInv, MetricsInOrder, Filed, Pending
<1>3. Filed(exRecords') /\ Len(exRecords') = Len(exRecords) + Len(exBuffer)
  BY <1>1, <1>2, FlushedUnder, Zenon
<1>4. Len(exBuffer') = 0 /\ exBuffer' \in Seq(ExportEvents) /\ 0 <= MaxBuffered
  BY <1>1, EmptySeq, ExportAssumption
<1>5. Len(exRecords) \in Nat /\ Len(exBuffer) \in Nat
  BY <1>2, LenProperties DEF Filed, Pending
<1>6. MetricsInOrder'
  <2>1. MetricsWritten' = MetricsWritten
    BY <1>1 DEF MetricsWritten
  <2>2. exFormat = "otlp" => Len(exRecords') + Len(exBuffer') = MetricsWritten'
    BY <1>3, <1>4, <1>5, <2>1 DEF ExInv, MetricsInOrder
  <2> QED
    BY <1>1, <1>3, <1>4, <2>2 DEF ExInv, MetricsInOrder, Filed
<1>7. StagesInOrder'
  BY <1>1 DEF ExInv, StagesInOrder, Waiting
<1>8. FilesKept'
  BY <1>1 DEF ExInv, FilesKept, StagesInOrder
<1> QED
  BY <1>1, <1>6, <1>7, <1>8, MergeRests DEF ExInv, MergeInv

LEMMA ExStep == ExInv /\ ExNext => ExInv'
<1> SUFFICES ASSUME ExInv, ExNext PROVE ExInv'
  OBVIOUS
<1>0. MergeInv /\ MetricsInOrder /\ StagesInOrder /\ FilesKept
  BY DEF ExInv, MergeInv
<1>1. MergeInv' /\ MetricsInOrder' /\ StagesInOrder' /\ FilesKept' => ExInv'
  BY DEF ExInv, MergeInv
<1>2. CASE CancelExport
  <2>1. StagesInOrder' /\ FilesKept'
    BY <1>0, <1>2 DEF CancelExport, StagesInOrder, FilesKept, Waiting, exSource, exContent, exFiles
  <2> QED
    BY <1>0, <1>2, <1>1, <2>1, MergeRests, MetricsRest DEF CancelExport, exSource, exContent
<1>3. CASE Flushed
  <2>1. StagesInOrder' /\ FilesKept'
    BY <1>0, <1>3 DEF Flushed, StagesInOrder, FilesKept, Waiting, exSource, exContent, exFiles
  <2> QED
    BY <1>0, <1>3, <1>1, <2>1, MergeRests, MetricsRest DEF Flushed, exSource, exContent
<1>4. CASE Opened
  <2>1. StagesInOrder' /\ FilesKept'
    BY <1>0, <1>4 DEF Opened, StagesInOrder, FilesKept, Waiting, exSource, exContent, exFiles
  <2> QED
    BY <1>0, <1>4, <1>1, <2>1, MergeRests, MetricsRest DEF Opened, exSource, exContent
<1>5. CASE Breaks
  BY <1>5, FailsClean DEF Breaks
<1>6. CASE StopsCancelled
  BY <1>6, FailsClean DEF StopsCancelled
<1>7. CASE ExportFileEnds
  <2>0. PICK s : s = Least(exNeeds)
    OBVIOUS
  <2>1. /\ exStage = "merge" /\ exNeeds # {}
        /\ exPart' = [exPart EXCEPT ![s] = @ + 1]
        /\ exNeeds' = IF exPart[s] = MaxParts THEN exNeeds \ {s} ELSE exNeeds
        /\ UNCHANGED <<exStage, exFormat, exCancelled, exLines, exRead, exFrontier,
                       exOut, exBuffer, exBlock, exRecords, exLeft, exReported, exTarget>>
    BY <1>7, <2>0 DEF ExportFileEnds, exContent, exFiles
  <2>2. s \in exNeeds /\ exNeeds \subseteq ExSessions /\ s \in ExSessions
    BY <1>0, <2>0, <2>1, LeastIs, ExportAssumption DEF MergeInv, ReadInOrder
  <2>3. MaxParts \in Nat /\ exPart[s] \in 1 .. MaxParts /\ exPart \in [ExSessions -> 1 .. MaxParts + 1]
    <3>1. MaxParts \in Nat
      BY ExportAssumption
    <3> QED
      BY <1>0, <2>2, <3>1 DEF StagesInOrder
  <2>4. exPart' \in [ExSessions -> 1 .. MaxParts + 1]
    <3>1. exPart[s] + 1 \in 1 .. MaxParts + 1
      BY <2>3
    <3> QED
      BY <2>1, <2>2, <2>3, <3>1
  <2>5. MergeInv'
    <3>1. exNeeds' \subseteq exNeeds
      BY <2>1
    <3>2. ReadInOrder'
      BY <1>0, <2>1, <3>1 DEF MergeInv, ReadInOrder, LastRead
    <3>3. WrittenInOrder'
      BY <1>0, <2>1 DEF MergeInv, WrittenInOrder, Written, WrittenOf, Waiting
    <3>4. NothingEarlierWaits'
      BY <1>0, <2>1, <3>1 DEF MergeInv, NothingEarlierWaits, LastRead, Monotonic
    <3> QED
      BY <3>2, <3>3, <3>4 DEF MergeInv
  <2>6. ~Waiting(s)
    BY <1>0, <2>2 DEF MergeInv, ReadInOrder, Waiting
  <2>7. ASSUME NEW t \in ExSessions, t \in exNeeds' \/ Waiting(t)'
        PROVE  exPart'[t] <= MaxParts
    <3>1. Waiting(t)' = Waiting(t)
      BY <2>1 DEF Waiting
    <3>2. CASE t = s
      BY <2>1, <2>2, <2>3, <2>6, <2>7, <3>1, <3>2
    <3>3. CASE t # s
      BY <1>0, <2>1, <2>3, <2>7, <3>1, <3>3 DEF StagesInOrder
    <3> QED
      BY <3>2, <3>3
  <2>8. StagesInOrder'
    BY <1>0, <2>1, <2>4, <2>7 DEF StagesInOrder
  <2>9. FilesKept'
    BY <1>0, <2>1 DEF FilesKept
  <2> QED
    BY <1>0, <1>1, <2>1, <2>5, <2>8, <2>9, MetricsRest
<1>8. CASE TakeNextCursor
  BY <1>8, EventTaken
<1>9. CASE MergeEnds
  BY <1>9, MergeDone
<1>10. CASE Packed
  <2>1. /\ exStage = "pack" /\ exStage' = "rename" /\ CleansUp({"staging"})
        /\ UNCHANGED <<exFormat, exCancelled, exPart, exLines, exRead, exFrontier, exNeeds,
                       exOut, exBuffer, exBlock, exRecords, exTarget>>
    BY <1>10 DEF Packed, exSource, exContent
  <2>2. PICK stays \in SUBSET {"staging"} :
          exLeft' = (exLeft \ {"staging"}) \union stays /\ exReported' = exReported \union stays
    BY <2>1 DEF CleansUp
  <2>3. FilesKept'
    BY <1>0, <2>1, <2>2 DEF FilesKept
  <2>4. StagesInOrder'
    BY <1>0, <2>1 DEF StagesInOrder, Waiting
  <2> QED
    BY <1>0, <1>1, <2>1, <2>3, <2>4, MergeRests, MetricsRest
<1>11. CASE Renamed
  <2>1. /\ exStage = "rename" /\ exStage' \in {"empty", "done"}
        /\ exLeft' = exLeft \ {"temp"} /\ exTarget' = "new"
        /\ UNCHANGED <<exFormat, exCancelled, exPart, exLines, exRead, exFrontier, exNeeds,
                       exOut, exBuffer, exBlock, exRecords, exReported>>
    BY <1>11 DEF Renamed, exSource, exContent
  <2>2. FilesKept'
    BY <1>0, <2>1 DEF FilesKept
  <2>3. StagesInOrder'
    BY <1>0, <2>1 DEF StagesInOrder, Waiting
  <2> QED
    BY <1>0, <1>1, <2>1, <2>2, <2>3, MergeRests, MetricsRest
<1>12. CASE EmptyRemoved
  <2>1. FilesKept'
    BY <1>0, <1>12 DEF EmptyRemoved, FilesKept
  <2>2. StagesInOrder'
    BY <1>0, <1>12 DEF EmptyRemoved, StagesInOrder, Waiting, exSource, exContent
  <2> QED
    BY <1>0, <1>12, <1>1, <2>1, <2>2, MergeRests, MetricsRest DEF EmptyRemoved, exSource, exContent
<1>13. ASSUME NEW format \in {"json", "otlp"}, StartExport(format) PROVE ExInv'
  <2>1. StagesInOrder' /\ FilesKept'
    BY <1>0, <1>13 DEF StartExport, StagesInOrder, FilesKept, Waiting, exSource, exContent, exFiles
  <2>2. exOut = <<>> /\ Len(exRecords) = 0 /\ Len(exBuffer) = 0
    BY <1>0, <1>13 DEF StartExport, StagesInOrder
  <2>3. MetricsWritten = 0
    BY <2>2, NothingWritten
  <2>4. MetricsInOrder'
    BY <1>0, <1>13, <2>2, <2>3 DEF StartExport, exContent, MetricsInOrder, MetricsWritten
  <2> QED
    BY <1>0, <1>13, <1>1, <2>1, <2>4, MergeRests DEF StartExport, exSource, exContent
<1>14. ASSUME NEW sessions \in SUBSET ExSessions, Listed(sessions) PROVE ExInv'
  <2>1. /\ exStage = "list" /\ exStage' = (IF sessions = {} THEN "done" ELSE "open") /\ exNeeds' = sessions
        /\ UNCHANGED <<exFormat, exCancelled, exPart, exLines, exRead, exFrontier,
                       exOut, exBuffer, exBlock, exRecords, exLeft, exReported, exTarget>>
    BY <1>14 DEF Listed, exContent, exFiles
  <2>2. exOut = <<>> /\ exFrontier = {} /\ exBuffer = <<>> /\ exRecords = <<>> /\ Len(exOut) = 0
    BY <1>0, <2>1 DEF StagesInOrder
  <2>3. MergeInv'
    <3>1. ReadInOrder' /\ WrittenInOrder'
      BY <1>0, <2>1, <2>2 DEF MergeInv, ReadInOrder, WrittenInOrder, Written, WrittenOf, Waiting
    <3>2. NothingEarlierWaits'
      BY <2>1, <2>2 DEF NothingEarlierWaits, Monotonic
    <3> QED
      BY <3>1, <3>2 DEF MergeInv
  <2>4. StagesInOrder'
    BY <1>0, <2>1, <2>2 DEF StagesInOrder
  <2>5. FilesKept'
    BY <1>0, <2>1 DEF FilesKept
  <2> QED
    BY <1>0, <1>1, <2>1, <2>3, <2>4, <2>5, MetricsRest
<1>15. ASSUME NEW time \in Times, NEW metric \in BOOLEAN, ReadExportLine(time, metric) PROVE ExInv'
  BY <1>15, LineRead
<1> QED
  BY <1>2, <1>3, <1>4, <1>5, <1>6, <1>7, <1>8, <1>9, <1>10, <1>11, <1>12, <1>13, <1>14, <1>15 DEF ExNext

LEMMA ExRests == ExInv /\ UNCHANGED exVars => ExInv'
<1> SUFFICES ASSUME ExInv, UNCHANGED exVars PROVE ExInv'
  OBVIOUS
<1>1. StagesInOrder' /\ FilesKept'
  BY DEF ExInv, exVars, StagesInOrder, FilesKept, Waiting
<1>2. MergeInv' /\ MetricsInOrder'
  BY MergeRests, MetricsRest DEF ExInv, MergeInv, exVars
<1> QED
  BY <1>1, <1>2 DEF ExInv, MergeInv

LEMMA ExTypeIs == ExInv => ExportTypeOK
<1> SUFFICES ASSUME ExInv PROVE ExportTypeOK
  OBVIOUS
<1> QED
  BY DEF ExInv, ReadInOrder, WrittenInOrder, MetricsInOrder, StagesInOrder, FilesKept, ExportTypeOK

LEMMA ExWhole == ExInv => MergeIsComplete /\ MetricsKeepTheirBlock /\ ExportIsAtomic
<1> SUFFICES ASSUME ExInv PROVE MergeIsComplete /\ MetricsKeepTheirBlock /\ ExportIsAtomic
  OBVIOUS
<1>1. ExportIsAtomic
  BY DEF ExInv, FilesKept, StagesInOrder, ExportIsAtomic
<1>2. MetricsKeepTheirBlock
  <2>1. exStage = "done" => Len(exBuffer) = 0
    BY DEF ExInv, StagesInOrder
  <2>2. Len(exRecords) \in Nat
    BY LenProperties DEF ExInv, MetricsInOrder
  <2> QED
    BY <2>1, <2>2 DEF ExInv, MetricsInOrder, MetricsKeepTheirBlock
<1>3. MergeIsComplete
  <2>1. \A s \in ExSessions : Written(s) \in Nat /\ Len(exRead[s]) = Written(s) + (IF Waiting(s) THEN 1 ELSE 0)
    BY WrittenType DEF ExInv, WrittenInOrder
  <2>2. \A s \in ExSessions : Written(s) <= Len(exRead[s]) /\ (~Waiting(s) => Written(s) = Len(exRead[s]))
    BY <2>1
  <2>3. exStage = "done" => \A s \in ExSessions : ~Waiting(s)
    BY DEF ExInv, StagesInOrder, Waiting
  <2> QED
    BY <2>2, <2>3 DEF ExInv, WrittenInOrder, NothingEarlierWaits, MergeIsComplete
<1> QED
  BY <1>1, <1>2, <1>3

THEOREM ExInvariant == Spec => []ExInv
<1>1. Init => ExInv
  BY ExInitially DEF Init
<1>2. ExInv /\ [Next]_vars => ExInv'
  BY PartsAlone, ExStep, ExRests
<1> QED
  BY <1>1, <1>2, PTL DEF Spec

(* An export holds each event once, in its session's order and, unless a clock *)
(* went back, sorted; metrics are under their own block; and the target is     *)
(* replaced at once or not at all (telemetry/export/).                         *)
THEOREM ExportsStayWhole == Spec => []ExportIsWhole
<1>1. ExInv => ExportIsWhole
  BY ExWhole DEF ExportIsWhole
<1> QED
  BY <1>1, ExInvariant, PTL

-----------------------------------------------------------------------------
(* The type of the whole window.                                               *)

WindowInv ==
  /\ SshInv /\ TsInv /\ TkInv /\ AnInv /\ ArInv /\ AsInv /\ DwInv /\ CcInv
  /\ TerminalTypeOK /\ WmInv /\ TlInv /\ ExInv

LEMMA WindowTypeIs == WindowInv => TypeOK
<1> SUFFICES ASSUME WindowInv PROVE TypeOK
  OBVIOUS
<1>1. SshTypeOK /\ TasksPanelTypeOK /\ AnnouncementsTypeOK /\ ApiRequestsTypeOK
  BY DEF WindowInv, SshInv, TkInv, AnInv, ArInv
<1>2. TaskStreamsTypeOK
  BY TsTypeIs DEF WindowInv
<1>3. ApiStreamsTypeOK /\ DuplicateTypeOK /\ CredentialsTypeOK /\ TerminalTypeOK /\ MonitorTypeOK
  BY AsInvIs DEF WindowInv, DwInv, CcInv, WmInv
<1>4. TelemetryTypeOK /\ ExportTypeOK
  BY TlTypeIs, ExTypeIs DEF WindowInv
<1> QED
  BY <1>1, <1>2, <1>3, <1>4 DEF TypeOK

(* Every part keeps its type: the fields the code declares hold what it        *)
(* declares them to.                                                           *)
THEOREM PartsKeepTheirTypes == Spec => []TypeOK
<1>1. Init => WindowInv
  BY SshInitially, TsInitially, TkInitially, AnInitially, ArInitially, AsInitially, DwInitially,
     CcInitially, CtInitially, WmInitially, TlInitially, ExInitially DEF Init, WindowInv
<1>2. WindowInv /\ [Next]_vars => WindowInv'
  <2> SUFFICES ASSUME WindowInv, [Next]_vars PROVE WindowInv'
    OBVIOUS
  <2>1. SshInv' /\ TsInv' /\ TkInv' /\ AnInv'
    BY PartsAlone, SshStep, SshRests, TsStep, TsRests, TkStep, TkRests, AnStep, AnRests DEF WindowInv
  <2>2. ArInv' /\ AsInv' /\ DwInv' /\ CcInv'
    BY PartsAlone, ArStep, ArRests, AsStep, AsRests, DwStep, DwRests, CcStep, CcRests DEF WindowInv
  <2>3. TerminalTypeOK' /\ WmInv' /\ TlInv' /\ ExInv'
    BY PartsAlone, CtStep, WmStep, WmRests, TlStep, TlRests, ExStep, ExRests DEF WindowInv
  <2> QED
    BY <2>1, <2>2, <2>3 DEF WindowInv
<1> QED
  BY <1>1, <1>2, WindowTypeIs, PTL DEF Spec
=============================================================================
