----------------------------- MODULE CliTerminal -----------------------------
(* A terminal that runs a command of the CLI (spawnCliInTerminal,              *)
(* core/cliExec.ts): its process, its keys and the escalation of Ctrl+C.       *)

VARIABLES ctProcess,  \* the process: running, asked to stop (SIGINT), or ended
          ctClosed,   \* closed
          ctExited,   \* exited: the end of the process has been reported
          ctTimer,    \* forceKillTimer: never set, armed, or cleared but kept
          ctCtrlC     \* the user pressed Ctrl+C in the running command

ctVars == <<ctProcess, ctClosed, ctExited, ctTimer, ctCtrlC>>

TerminalTypeOK ==
  /\ ctProcess \in {"none", "running", "asked", "ended"}
  /\ ctClosed \in BOOLEAN /\ ctExited \in BOOLEAN
  /\ ctTimer \in {"unset", "armed", "cleared"} /\ ctCtrlC \in BOOLEAN

CtInit ==
  /\ ctProcess = "none" /\ ctTimer = "unset"
  /\ ctClosed = FALSE /\ ctExited = FALSE /\ ctCtrlC = FALSE

Spawn ==
  /\ ctProcess = "none" /\ ctProcess' = "running"
  /\ UNCHANGED <<ctClosed, ctExited, ctTimer, ctCtrlC>>

Alive == ctProcess \in {"running", "asked"}
Killed == IF Alive THEN "ended" ELSE ctProcess
ClearTimer == ctTimer' = IF ctTimer = "armed" THEN "cleared" ELSE ctTimer

\* the process ends by itself; it may as well ignore a SIGINT, or take long
ProcessEnds ==
  /\ Alive /\ ctProcess' = "ended"
  /\ UNCHANGED <<ctClosed, ctExited, ctTimer, ctCtrlC>>

\* the "error" and "close" events of the process
ReportEnd ==
  /\ ctProcess = "ended" /\ ~ctExited /\ ~ctClosed
  /\ ctExited' = TRUE
  /\ ClearTimer
  /\ UNCHANGED <<ctProcess, ctClosed, ctCtrlC>>

\* gracefulKill
GracefulKill ==
  /\ ctProcess' = IF Alive THEN "asked" ELSE ctProcess
  /\ ctTimer' = "armed"

\* handleInput: Ctrl+C stops, a second one kills; any key closes an ended one
CtrlC ==
  /\ ctProcess # "none" /\ ~ctClosed
  /\ IF ctExited
     THEN UNCHANGED <<ctProcess, ctTimer, ctCtrlC>> /\ ctClosed' = TRUE
     ELSE /\ IF ctTimer = "unset" THEN GracefulKill
             ELSE ctProcess' = Killed /\ ClearTimer
          /\ ctCtrlC' = TRUE /\ UNCHANGED ctClosed
  /\ UNCHANGED <<ctExited>>

KillTimerFires ==
  /\ ctTimer = "armed" /\ ctTimer' = "cleared"
  /\ ctProcess' = Killed
  /\ UNCHANGED <<ctClosed, ctExited, ctCtrlC>>

\* close of the terminal
CloseTerminal ==
  /\ ctProcess # "none" /\ ~ctClosed
  /\ ctClosed' = TRUE
  /\ ClearTimer
  /\ ctProcess' = Killed
  /\ UNCHANGED <<ctExited, ctCtrlC>>

CtNext == Spawn \/ ProcessEnds \/ ReportEnd \/ CtrlC \/ KillTimerFires \/ CloseTerminal

-----------------------------------------------------------------------------
(* A command that was interrupted or whose terminal was closed ends, also when *)
(* it ignores the interrupt: the force kill is cleared only by what ends it.   *)
StoppedCommandsEnd == ctCtrlC \/ ctClosed ~> ctProcess = "ended"
=============================================================================
