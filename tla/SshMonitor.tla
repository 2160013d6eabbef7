----------------------------- MODULE SshMonitor -----------------------------
(* SshProcessMonitor (remote/sshProcess.ts): it looks for the process of the *)
(* SSH connection, then polls the file in which that process reports its     *)
(* network statistics, and looks again when the file is stale or missing.    *)
(* Beside this loop it searches for the log file of each process it found.   *)
EXTENDS Naturals, FiniteSets

CONSTANTS Pids, NoPid,
          Loops,             \* slots for loops that run at the same time
          MaxReadFailures    \* maxReadFailures (5)

ASSUME SshAssumption ==
  /\ NoPid \notin Pids /\ Loops # {} /\ IsFiniteSet(Loops)
  /\ MaxReadFailures \in Nat \ {0}

VARIABLES sshDisposed,  \* disposed
          sshPid,       \* currentPid
          sshLoop,      \* each loop: the await it is at and its read failures
          sshSearches,  \* searchForLogFile: the process and the await of each call
          sshLogFile,   \* the process whose log logFilePath names
          sshRecent,    \* lastStaleSearchTime is within the stale threshold
          sshHealth,    \* what the telemetry holds of the process
          sshInfo,      \* the network file of the current process
          sshProc       \* the process that owns the SSH port, really

sshVars == <<sshDisposed, sshPid, sshLoop, sshSearches, sshLogFile, sshRecent,
             sshHealth, sshInfo, sshProc>>

AtDelay == {"backoff", "poll", "throttle"}   \* the awaits of delay()
LoopStates == [at: {"idle", "find", "stat"} \union AtDelay, failures: 0 .. MaxReadFailures]
LoopAt(a) == [at |-> a, failures |-> 0]

SshTypeOK ==
  /\ sshDisposed \in BOOLEAN /\ sshRecent \in BOOLEAN
  /\ sshPid \in Pids \union {NoPid} /\ sshLogFile \in Pids \union {NoPid}
  /\ sshProc \in Pids \union {NoPid}
  /\ sshLoop \in [Loops -> LoopStates]
  /\ sshSearches \subseteq [pid: Pids, at: {"read", "delay"}]
  /\ sshHealth \in {"none", "running", "lost"}
  /\ sshInfo \in {"fresh", "stale", "missing"}

FirstLoop == CHOOSE l \in Loops : TRUE

\* start: the search begins at once
SshInit ==
  /\ sshDisposed = FALSE /\ sshRecent = FALSE /\ sshHealth = "none"
  /\ sshPid = NoPid /\ sshLogFile = NoPid /\ sshProc = NoPid
  /\ sshInfo = "missing" /\ sshSearches = {}
  /\ sshLoop = [i \in Loops |-> LoopAt(IF i = FirstLoop THEN "find" ELSE "idle")]

Resume(l, a) == sshLoop' = [sshLoop EXCEPT ![l].at = IF sshDisposed THEN "idle" ELSE a]

\* SshTelemetry: started, recovered or replaced; and lost, once
ProcessSeen == "running"
ProcessLost(health) == IF health = "running" THEN "lost" ELSE health

\* setCurrentPid: the log file of a replaced process is forgotten
SetCurrentPid(p) ==
  /\ sshPid' = p
  /\ sshLogFile' = IF sshPid \in {NoPid, p} THEN sshLogFile ELSE NoPid
  /\ sshHealth' = ProcessSeen

\* Mutant: monitorNetwork polls on after the search it handed over to.
MonitorsTwice(l) ==
  IF sshPid = NoPid THEN [sshLoop EXCEPT ![l] = LoopAt("stat")]
  ELSE [i \in Loops |-> LoopAt("stat")]

\* startMonitoring: the loop that searched ends, a new one polls in its place
StartMonitoring(l) == [sshLoop EXCEPT ![l] = LoopAt("stat")]

\* findSshProcessByPort finds the process
Discovered == sshProc # NoPid

\* discoverSshProcess returns and searchForProcess goes on
Found(l) ==
  /\ sshLoop[l].at = "find" /\ ~sshDisposed /\ Discovered
  /\ SetCurrentPid(sshProc)
  /\ sshLoop' = StartMonitoring(l)
  /\ sshSearches' = sshSearches \union {[pid |-> sshProc, at |-> "read"]}
  /\ sshInfo' \in IF sshProc = sshPid THEN {sshInfo} ELSE {"fresh", "stale", "missing"}
  /\ UNCHANGED <<sshDisposed, sshRecent, sshProc>>

\* no log, no port or no process; or any error: retried with a growing delay
NotFound(l) ==
  /\ sshLoop[l].at = "find"
  /\ Resume(l, "backoff")
  /\ UNCHANGED <<sshDisposed, sshPid, sshSearches, sshLogFile, sshRecent,
                 sshHealth, sshInfo, sshProc>>

DelayEnds(l) ==
  /\ sshLoop[l].at \in AtDelay
  /\ Resume(l, IF sshLoop[l].at = "backoff" THEN "find" ELSE "stat")
  /\ sshRecent' = (sshRecent /\ sshLoop[l].at # "throttle")
  /\ UNCHANGED <<sshDisposed, sshPid, sshSearches, sshLogFile, sshHealth, sshInfo, sshProc>>

\* Mutant: only a stale file makes the loop search again, never a missing one.
SearchIfStale(failures) == sshInfo = "stale"

\* what makes monitorNetwork look for the process again
SearchReason(failures) ==
  \/ sshInfo = "stale"
  \/ sshInfo = "missing" /\ failures >= MaxReadFailures

\* monitorNetwork, after the file was read; searches are at least the stale
\* threshold apart
ReadInfo(l) ==
  LET more == IF sshLoop[l].failures < MaxReadFailures THEN sshLoop[l].failures + 1
              ELSE MaxReadFailures
      failures == IF sshInfo = "missing" THEN more ELSE 0
      search == SearchReason(failures) /\ ~sshRecent /\ ~sshDisposed
      next == IF ~SearchReason(failures) THEN "poll"
              ELSE IF sshRecent THEN "throttle" ELSE "find"
  IN /\ sshLoop[l].at = "stat"
     /\ sshLoop' = [sshLoop EXCEPT ![l] =
          [at |-> IF sshDisposed THEN "idle" ELSE next, failures |-> IF search THEN 0 ELSE failures]]
     /\ sshRecent' = (sshRecent \/ search)
     /\ sshHealth' = IF search THEN ProcessLost(sshHealth) ELSE sshHealth
     /\ UNCHANGED <<sshDisposed, sshPid, sshSearches, sshLogFile, sshInfo, sshProc>>

\* searchForLogFile, after readdir: it does not look at currentPid again
ReadLogDir(s) ==
  /\ s.at = "read"
  /\ \/ /\ sshLogFile' = s.pid
        /\ sshSearches' = sshSearches \ {s}
     \/ /\ sshLogFile' = sshLogFile
        /\ sshSearches' = (sshSearches \ {s}) \union
             (IF sshDisposed THEN {} ELSE {[s EXCEPT !.at = "delay"]})
  /\ UNCHANGED <<sshDisposed, sshPid, sshLoop, sshRecent, sshHealth, sshInfo, sshProc>>

LogDelayEnds(s) ==
  /\ s.at = "delay"
  /\ sshSearches' = (sshSearches \ {s}) \union
       (IF sshPid = s.pid THEN {[s EXCEPT !.at = "read"]} ELSE {})
  /\ UNCHANGED <<sshDisposed, sshPid, sshLoop, sshLogFile, sshRecent, sshHealth,
                 sshInfo, sshProc>>

\* dispose ends every delay at once; what awaits the disk ends by itself
SshDispose ==
  /\ ~sshDisposed
  /\ sshDisposed' = TRUE /\ sshHealth' = "none"
  /\ sshLoop' = [l \in Loops |-> IF sshLoop[l].at \in AtDelay THEN LoopAt("idle") ELSE sshLoop[l]]
  /\ sshSearches' = {s \in sshSearches : s.at # "delay"}
  /\ UNCHANGED <<sshPid, sshLogFile, sshRecent, sshInfo, sshProc>>

ThresholdPasses ==
  /\ sshRecent /\ sshRecent' = FALSE
  /\ UNCHANGED <<sshDisposed, sshPid, sshLoop, sshSearches, sshLogFile, sshHealth,
                 sshInfo, sshProc>>

\* The SSH client reconnects, or ends. Only a living process writes its file.
ProcessChanges ==
  /\ sshProc' \in (Pids \union {NoPid}) \ {sshProc}
  /\ UNCHANGED <<sshDisposed, sshPid, sshLoop, sshSearches, sshLogFile, sshRecent,
                 sshHealth, sshInfo>>

InfoChanges ==
  /\ sshPid # NoPid
  /\ sshInfo' \in {"stale", "missing"} \union (IF sshPid = sshProc THEN {"fresh"} ELSE {})
  /\ sshInfo' # sshInfo
  /\ UNCHANGED <<sshDisposed, sshPid, sshLoop, sshSearches, sshLogFile, sshRecent,
                 sshHealth, sshProc>>

SshNext ==
  \/ \E l \in Loops : Found(l) \/ NotFound(l) \/ DelayEnds(l) \/ ReadInfo(l)
  \/ \E s \in sshSearches : ReadLogDir(s) \/ LogDelayEnds(s)
  \/ SshDispose \/ ThresholdPasses \/ ProcessChanges \/ InfoChanges

\* Delays end and the disk answers; the file of a dead process ages.
SshWorks == \E l \in Loops : NotFound(l) \/ DelayEnds(l) \/ ReadInfo(l)
SshAges == sshPid # sshProc /\ sshInfo = "fresh" /\ InfoChanges
SshFinds == \E l \in Loops : Found(l)

-----------------------------------------------------------------------------
(* Until it is disposed the monitor runs one loop, searching or polling:     *)
(* monitorNetwork hands over to the search it starts and never runs beside   *)
(* it, and no path ends without a successor.                                 *)
OneMonitorLoop ==
  LET running == {l \in Loops : sshLoop[l].at # "idle"}
  IN IF sshDisposed THEN Cardinality(running) <= 1 ELSE Cardinality(running) = 1

(* A process that stays is the one monitored in the end, whichever process   *)
(* the loop followed before, and however its network file was lost.          *)
FollowsProcess ==
  \A p \in Pids : <>[](sshProc = p) => <>[](sshPid = p \/ sshDisposed)
=============================================================================
