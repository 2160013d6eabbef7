--------------------------- MODULE BinaryDownload ---------------------------
(***************************************************************************)
(* fetchBinary of src/core/cliManager.ts in several windows that share one *)
(* directory and one proper-lockfile: look up the binary, compare it with  *)
(* the server's version, take the lock or wait for it, download, verify,   *)
(* swap, and fall back to what is there when a step fails.                 *)
(*                                                                         *)
(* One action per await.  A window may be suspended or die at any of them; *)
(* its lock then goes stale and another window takes it over.              *)
(***************************************************************************)
EXTENDS Naturals, FiniteSets

CONSTANTS
  Windows, None,
  MaxVersion,  \* server versions, in the order of its upgrades (a bound)
  MaxFaults,   \* suspensions and deaths of windows (a bound)
  MaxCalls     \* calls of fetchBinary in all windows (a bound)

ASSUME BinaryAssumption ==
  /\ None \notin Windows
  /\ MaxVersion \in Nat \ {0} /\ MaxFaults \in Nat /\ MaxCalls \in Nat

VARIABLES
  verifies,   \* not disableSignatureVerification
  downloads,  \* enableDownloads
  layout,     \* the cache path is a "directory" or an existing "file"
  disk,       \* what is at each path, temporary files and backups included
  server,     \* the version the deployment runs
  lock,       \* whose lock file exists
  run,        \* the fetchBinary call of each window
  alive,      \* each window: "up", "suspended" or "dead"
  faults, calls

vars == <<verifies, downloads, layout, disk, server, lock, run, alive, faults, calls>>

\* Full is the platform-specific name a download uses, Other the configured
\* file or the simple name; temporary files and backups have random names, here
\* one per window.
Full  == <<"full", None>>
Other == <<"other", None>>
Paths == {Full, Other}
Temp(w) == <<"temp", w>>
Old(w)  == <<"old", w>>
Placed  == Paths \cup {Old(w) : w \in Windows}   \* where a binary is used from
Files   == Placed \cup {Temp(w) : w \in Windows}

\* The stream is closed but not flushed when download() returns: until then the
\* bytes are those of the window that still writes them.
Binaries == [version : 1..MaxVersion,
             trust : {"found", "none", "verified", "accepted"},
             bytes : {"whole", "part"} \cup Windows]
\* A binary but for its bytes.
AllBuilds == [v : 1..MaxVersion, trust : {"found", "none", "verified", "accepted"}]

ASSUME FilesAssumption == None \notin Binaries \cup AllBuilds /\ "part" \notin Windows

Runs(f) == disk[f] # None /\ disk[f].bytes = "whole"

Before == [version |-> 1, trust |-> "found", bytes |-> "whole"]

Disks ==
  [directory |-> {<<None, None>>, <<Before, None>>, <<None, Before>>},
   file      |-> {<<None, Before>>}]

NotCalled == [pc |-> "done", path |-> Full, found |-> FALSE, first |-> 1, latest |-> 1,
              source |-> 1, candidate |-> Full, held |-> FALSE, lost |-> FALSE,
              answer |-> "none"]

Init ==
  /\ verifies \in BOOLEAN /\ downloads \in BOOLEAN
  /\ verifies \/ downloads     \* without a download there is nothing to verify
  /\ layout \in {"directory", "file"}
  /\ \E d \in Disks[layout] :
       disk = [f \in Files |-> CASE f = Full -> d[1] [] f = Other -> d[2] [] OTHER -> None]
  /\ server = 1
  /\ lock = None
  /\ run = [w \in Windows |-> NotCalled]
  /\ alive = [w \in Windows |-> "up"]
  /\ faults = 0 /\ calls = 0

At(w, pc) == alive[w] = "up" /\ run[w].pc = pc
Goto(w, pc) == run' = [run EXCEPT ![w].pc = pc]

settings == <<verifies, downloads, layout>>
world    == <<server, alive, faults, calls>>

-----------------------------------------------------------------------------
(* resolveBinary: what is there, and does it match the server? *)

\* resolveBinaryPath, its stats taken together.
ResolveBinaryPath(w) ==
  /\ At(w, "done") /\ calls < MaxCalls
  /\ calls' = calls + 1
  /\ LET path == IF layout = "file" \/ (disk[Full] = None /\ disk[Other] # None)
                 THEN Other ELSE Full
     IN run' = [run EXCEPT ![w] = [NotCalled EXCEPT !.pc = "buildInfo", !.path = path,
                                                   !.found = disk[path] # None]]
  /\ UNCHANGED <<settings, disk, lock, server, alive, faults>>

\* An error outside the try of downloadBinary leaves no trace.
Ends(w, a) == run' = [run EXCEPT ![w] = [NotCalled EXCEPT !.pc = "done", !.answer = a]]
Fails(w) == Ends(w, "error")

GetBuildInfo(w) ==
  /\ At(w, "buildInfo")
  /\ \/ run' = [run EXCEPT ![w].pc = "check", ![w].first = server, ![w].latest = server]
     \/ Fails(w)
  /\ UNCHANGED <<settings, disk, lock, world>>

CheckResolvedBinary(w) ==
  /\ At(w, "check")
  /\ LET f == run[w].path
         readable == run[w].found /\ Runs(f)
         matches == readable /\ disk[f].version = run[w].first
     IN CASE matches               -> Ends(w, "path")
          [] ~matches /\ downloads -> Goto(w, "lock")
          [] ~downloads /\ readable /\ ~matches -> Ends(w, "path")
          [] OTHER                 -> Fails(w)
  /\ UNCHANGED <<settings, disk, lock, world>>

-----------------------------------------------------------------------------
(* BinaryLock, over the lock file of proper-lockfile. *)

\* The holder refreshes the lock file while it runs, so only the lock of a
\* suspended or dead window grows older than STALE_TIMEOUT_MS.
Stale == lock # None /\ alive[lock] # "up"

Locked(w, next) == lock' = w /\ run' = [run EXCEPT ![w].pc = next, ![w].held = TRUE]

\* Mutant: any lock of another window counts as stale.
AcquireAnyway(w) ==
  /\ At(w, "lock")
  /\ Locked(w, "clean")
  /\ UNCHANGED <<settings, disk, world>>

AcquireLock(w) ==
  /\ At(w, "lock")
  /\ \/ (lock = None \/ Stale) /\ Locked(w, "clean")
     \/ lock # None /\ ~Stale /\ UNCHANGED lock /\ Goto(w, "waiting")
     \/ UNCHANGED lock /\ Goto(w, "fallback")      \* not ELOCKED: thrown
  /\ UNCHANGED <<settings, disk, world>>

\* Mutant: a lock is waited for however old it is.
WaitsForRelease(w) ==
  /\ At(w, "waiting")
  /\ lock = None
  /\ Locked(w, "recheck")
  /\ UNCHANGED <<settings, disk, world>>

\* monitorDownloadProgress: polls until it has the lock.
MonitorDownloadProgress(w) ==
  /\ At(w, "waiting")
  /\ lock = None \/ Stale
  /\ Locked(w, "recheck")
  /\ UNCHANGED <<settings, disk, world>>

\* An attempt of the poll failed otherwise than for the lock being held.
PollFails(w) ==
  /\ At(w, "waiting")
  /\ Goto(w, "fallback")
  /\ UNCHANGED <<settings, disk, lock, world>>

RecheckBuildInfo(w) ==
  /\ At(w, "recheck")
  /\ \/ run' = [run EXCEPT ![w].pc = "recheckVersion", ![w].latest = server]
     \/ Goto(w, "fallback")
  /\ UNCHANGED <<settings, disk, lock, world>>

RecheckBinaryAfterWait(w) ==
  /\ At(w, "recheckVersion")
  /\ Goto(w, IF Runs(Full) /\ disk[Full].version = run[w].latest
             THEN "rename" ELSE "clean")
  /\ UNCHANGED <<settings, disk, lock, world>>

-----------------------------------------------------------------------------
(* performBinaryDownload *)

Leftovers == Files \ Paths

\* rmOld: every backup and temporary file beside the binary, whoever made it.
\* Errors are kept per file and ignored: all of them or none.
RmOld(w) ==
  /\ At(w, "clean")
  /\ \/ disk' = [f \in Files |-> IF f \in Leftovers THEN None ELSE disk[f]]
     \/ UNCHANGED disk
  /\ Goto(w, "get")
  /\ UNCHANGED <<settings, lock, world>>

\* The response: the binary of the server's version, 304 when the ETag of the
\* one at Full matches, or a status or a failure that throws.
GetBinary(w) ==
  /\ At(w, "get")
  /\ \/ /\ disk' = [disk EXCEPT ![Temp(w)] =
              [version |-> server, trust |-> "none", bytes |-> w]]
        /\ Goto(w, "stream")
     \/ /\ Runs(Full) /\ disk[Full].version = server
        /\ Goto(w, "rename") /\ UNCHANGED disk
     \/ Goto(w, "fallback") /\ UNCHANGED disk
  /\ UNCHANGED <<settings, lock, world>>

\* The temporary file stays until rmOld, and nothing reads it: here it is gone.
Abandon(w) ==
  /\ run' = [run EXCEPT ![w].pc = "fallback", ![w].source = 1, ![w].latest = run[w].first]
  /\ disk' = [disk EXCEPT ![Temp(w)] = None]

\* From here on the version and the source of the signature are of no use.
Replace(w) ==
  run' = [run EXCEPT ![w].pc = "moveOld", ![w].source = 1, ![w].latest = run[w].first]

\* The response closes, fails or is cancelled.
StreamEnds(w) ==
  /\ At(w, "stream")
  /\ \/ verifies /\ Goto(w, "signature") /\ UNCHANGED disk
     \/ ~verifies /\ Replace(w) /\ UNCHANGED disk
     \/ Abandon(w)
  /\ UNCHANGED <<settings, lock, world>>

\* The last bytes reach the file, wherever it was renamed to meanwhile.
Flushed(w) ==
  /\ alive[w] = "up" /\ run[w].pc # "stream"
  /\ \E f \in Files :
       /\ disk[f] # None /\ disk[f].bytes = w
       /\ disk' = [disk EXCEPT ![f].bytes = "whole"]
  /\ UNCHANGED <<settings, lock, run, world>>

\* verifyBinarySignature: the signature beside the binary belongs to what the
\* server has, that of releases.coder.com to the version read last.
Verifiable(w) ==
  /\ Runs(Temp(w))
  /\ disk[Temp(w)].version = IF run[w].source = 1 THEN server ELSE run[w].latest

Marked(w, trust) ==
  disk' = [disk EXCEPT ![Temp(w)] = IF @ = None THEN None ELSE [@ EXCEPT !.trust = trust]]

\* Mutant: without a signature the binary is installed unasked.
InstallsUnsigned(w) ==
  /\ At(w, "signature")
  /\ \/ Verifiable(w) /\ Marked(w, "verified")
     \/ UNCHANGED disk
  /\ Replace(w)
  /\ UNCHANGED <<settings, lock, world>>

VerifySignature(w) ==
  /\ At(w, "signature")
  /\ \/ Verifiable(w) /\ Marked(w, "verified") /\ Replace(w)
     \/ Marked(w, "accepted") /\ Replace(w)           \* bad or missing, "Run anyway"
     \/ /\ run[w].source = 1                          \* missing, "Download signature"
        /\ run' = [run EXCEPT ![w].source = 2] /\ UNCHANGED disk
     \/ Abandon(w)                                    \* refused, or its download threw
  /\ UNCHANGED <<settings, lock, world>>

\* Mutant: the existing binary is removed instead of kept as a backup.
RemovesExisting(w) ==
  /\ At(w, "moveOld")
  /\ disk' = [disk EXCEPT ![Full] = None]
  /\ Goto(w, "moveNew")
  /\ UNCHANGED <<settings, lock, world>>

\* replaceExistingBinary: two renames; either may fail, on Windows because the
\* binary is in use.
MoveExisting(w) ==
  /\ At(w, "moveOld")
  /\ \/ /\ disk' = [disk EXCEPT ![Full] = None,
                                ![Old(w)] = IF disk[Full] = None THEN @ ELSE disk[Full]]
        /\ Goto(w, "moveNew")
     \/ disk[Full] # None /\ Abandon(w)
  /\ UNCHANGED <<settings, lock, world>>

MoveNew(w) ==
  /\ At(w, "moveNew")
  /\ \/ /\ disk[Temp(w)] # None
        /\ disk' = [disk EXCEPT ![Full] = disk[Temp(w)], ![Temp(w)] = None]
        /\ Goto(w, "exec")
     \/ Abandon(w)
  /\ UNCHANGED <<settings, lock, world>>

\* Make sure the new binary can be executed.
ExecNew(w) ==
  /\ At(w, "exec")
  /\ Goto(w, IF Runs(Full) THEN "rename" ELSE "fallback")
  /\ UNCHANGED <<settings, disk, lock, world>>

\* Of the call only its answer and its lock still count.
Answers(w, a) ==
  run' = [run EXCEPT ![w] = [NotCalled EXCEPT !.pc = "release", !.answer = a,
                                             !.held = run[w].held, !.lost = run[w].lost]]

\* rename(2): replaces what is there; fails when there is nothing to rename.
Rename(p, q) == disk' = [disk EXCEPT ![p] = None, ![q] = disk[p]]

RenameToFinalPath(w) ==
  /\ At(w, "rename")
  /\ CASE layout = "directory" -> Answers(w, "path") /\ UNCHANGED disk
       [] layout = "file" /\ disk[Full] # None ->
            \/ Rename(Full, Other) /\ Answers(w, "path")
            \/ UNCHANGED disk /\ Goto(w, "fallback")
       [] OTHER -> UNCHANGED disk /\ Goto(w, "fallback")
  /\ UNCHANGED <<settings, lock, world>>

-----------------------------------------------------------------------------
(* handleAnyBinaryFailure: the first candidate that runs; the user is asked  *)
(* when it is not of the expected version, and ends the search by declining. *)

Backups == {f \in {Old(w) : w \in Windows} : disk[f] # None}

\* The most recent one: what was downloaded is younger than what was found.
LatestBackups ==
  LET downloaded == {f \in Backups : disk[f].trust # "found"}
  IN IF downloaded = {} THEN Backups ELSE downloaded

Candidates(w, step) ==
  CASE step = "fallback"  -> {Full}
    [] step = "fallback2" -> IF run[w].path = Other THEN {Other} ELSE {}
    [] step = "fallback3" -> LatestBackups

NextStep == [fallback |-> "fallback2", fallback2 |-> "fallback3"]

\* The candidate is returned once the user, if it is of another version, agreed.
Chosen(w, f) ==
  run' = [run EXCEPT ![w].candidate = f,
            ![w].pc = IF disk[f].version = run[w].first THEN "use" ELSE "ask"]

\* tryCandidate, its version compared; the user answers later (Use).
TryCandidate(w, step) ==
  /\ At(w, step)
  /\ \/ \E f \in Candidates(w, step) :
          Runs(f) /\ Chosen(w, f)
     \/ /\ Candidates(w, step) = {} \/ \E f \in Candidates(w, step) : ~Runs(f)
        /\ IF step = "fallback3" THEN Answers(w, "nothing") ELSE Goto(w, NextStep[step])
  /\ UNCHANGED <<settings, disk, lock, world>>

\* fallbackToExistingBinary: the candidate, or what is there by now, is moved to
\* the path looked up first.
Use(w) ==
  LET f == run[w].candidate
      path == run[w].path
  IN
  /\ At(w, "use") \/ At(w, "ask")
  /\ \/ f = path /\ Answers(w, "path") /\ UNCHANGED disk
     \/ f # path /\ disk[f] # None /\ Rename(f, path) /\ Answers(w, "path")
     \/ f # path /\ Answers(w, "error") /\ UNCHANGED disk
     \/ At(w, "ask") /\ Answers(w, "declined") /\ UNCHANGED disk
  /\ UNCHANGED <<settings, lock, world>>

\* The finally of downloadBinary.  The release of a lock known to be compromised
\* throws in the place of the result; one that did not notice removes the lock
\* file, whoever's it is.  A call that failed to lock has nothing to release.
Release(w) ==
  /\ At(w, "release")
  /\ Ends(w, IF run[w].lost THEN "error" ELSE run[w].answer)
  /\ lock' = IF run[w].lost \/ ~run[w].held THEN lock ELSE None
  /\ UNCHANGED <<settings, disk, world>>

-----------------------------------------------------------------------------
(* The environment. *)

Upgrade ==
  /\ server < MaxVersion
  /\ server' = server + 1
  /\ UNCHANGED <<settings, disk, lock, run, alive, faults, calls>>

Downloading == {"recheck", "recheckVersion", "clean", "get", "stream", "signature", "moveOld",
                "moveNew", "exec", "rename", "fallback", "fallback2", "fallback3", "use", "ask",
                "release"}
Critical(w) == run[w].held /\ run[w].pc \in Downloading

\* A sleeping machine: the lock is not refreshed.
Suspend(w) ==
  /\ Critical(w) /\ alive[w] = "up" /\ faults < MaxFaults
  /\ alive' = [alive EXCEPT ![w] = "suspended"]
  /\ faults' = faults + 1
  /\ UNCHANGED <<settings, disk, server, lock, run, calls>>

Resume(w) ==
  /\ alive[w] = "suspended"
  /\ alive' = [alive EXCEPT ![w] = "up"]
  /\ UNCHANGED <<settings, disk, server, lock, run, faults, calls>>

\* The refresh of the lock file finds another one: onCompromised.
Compromised(w) ==
  /\ Critical(w) /\ alive[w] = "up" /\ lock # w /\ ~run[w].lost
  /\ run' = [run EXCEPT ![w].lost = TRUE]
  /\ UNCHANGED <<settings, disk, lock, world>>

Die(w) ==
  /\ Critical(w) /\ alive[w] = "up" /\ faults < MaxFaults
  /\ alive' = [alive EXCEPT ![w] = "dead"]
  /\ faults' = faults + 1
  /\ disk' = [f \in Files |-> IF disk[f] # None /\ disk[f].bytes = w
                              THEN [disk[f] EXCEPT !.bytes = "part"] ELSE disk[f]]
  /\ UNCHANGED <<settings, server, lock, run, calls>>

Fetch(w) ==
  \/ GetBuildInfo(w) \/ CheckResolvedBinary(w)
  \/ AcquireLock(w) \/ MonitorDownloadProgress(w)
  \/ RecheckBuildInfo(w) \/ RecheckBinaryAfterWait(w)
  \/ RmOld(w) \/ GetBinary(w) \/ StreamEnds(w) \/ VerifySignature(w)
  \/ MoveExisting(w) \/ MoveNew(w) \/ ExecNew(w) \/ RenameToFinalPath(w)
  \/ \E step \in {"fallback", "fallback2", "fallback3"} : TryCandidate(w, step)
  \/ Use(w) \/ Release(w)

Next ==
  \/ \E w \in Windows :
       ResolveBinaryPath(w) \/ Fetch(w) \/ PollFails(w) \/ Flushed(w)
       \/ Suspend(w) \/ Resume(w) \/ Compromised(w) \/ Die(w)
  \/ Upgrade

Spec == Init /\ [][Next]_vars

\* A window that is up goes on: requests and files answer, a dialog is closed.
FairSpec == Spec /\ \A w \in Windows : WF_vars(Fetch(w))

-----------------------------------------------------------------------------
(* Properties *)

\* Every variable stays within its type.
TypeOK ==
  /\ verifies \in BOOLEAN /\ downloads \in BOOLEAN /\ layout \in {"directory", "file"}
  /\ disk \in [Files -> Binaries \cup {None}]
  /\ server \in 1..MaxVersion
  /\ lock \in Windows \cup {None}
  /\ run \in [Windows ->
       [pc : {"buildInfo", "check", "lock", "waiting", "done"} \cup Downloading,
        path : Paths, found : BOOLEAN, first : 1..MaxVersion, latest : 1..MaxVersion, source : 1..2,
        candidate : Placed, held : BOOLEAN, lost : BOOLEAN,
        answer : {"none", "path", "error", "declined", "nothing"}]]
  /\ alive \in [Windows -> {"up", "suspended", "dead"}]
  /\ faults \in 0..MaxFaults /\ calls \in 0..MaxCalls

\* Two windows download at once only when one of them was suspended or died
\* with the lock (BinaryLock: "coordinate between multiple VS Code windows").
ExclusiveDownload ==
  faults = 0 =>
    \A w1, w2 \in Windows : Critical(w1) /\ Critical(w2) => w1 = w2

\* The files, the lock and the calls of the windows fit together.
DownloadInvariant == TypeOK /\ ExclusiveDownload

\* As long as no window stops halfway, a binary that runs, or whose last bytes
\* are being written, stays at a path or as a backup through every swap, failure
\* and fallback; only a new download removes it (rmOld), when a refusal to run it
\* left it as a backup.
Usable == \E f \in Paths \cup Backups : disk[f] # None /\ disk[f].bytes # "part"

SwapLosesNothing ==
  [][faults' = 0 /\ Usable =>
       \/ Usable'
       \/ \E w \in Windows : run[w].pc = "clean" /\ run'[w].pc = "get"]_vars

\* Whatever fails and whoever dies, a call of a window that stays up ends: a
\* lock whose holder is gone is taken over.
FetchEnds ==
  \A w \in Windows :
    run[w].pc = "buildInfo" ~> run[w].pc = "done" \/ alive[w] # "up"

\* The promise of the component: what is at a path was verified, or waived.
BuildOf(f) == IF disk[f] = None THEN None ELSE [v |-> disk[f].version, trust |-> disk[f].trust]

Installed == INSTANCE InstalledBinary WITH
  Callers  <- Windows,
  Builds   <- AllBuilds,
  Vouched  <- {b \in AllBuilds : b.trust # "none"},
  file     <- [p \in Paths |-> BuildOf(p)],
  pending  <- {w \in Windows : run[w].pc # "done"}

\* Every step of every window is a step of the abstract specification.
ImplementsInstalledBinary == Installed!Spec
=============================================================================
