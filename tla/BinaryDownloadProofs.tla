------------------------ MODULE BinaryDownloadProofs ------------------------
(***************************************************************************)
(* What holds of the windows that fetch the CLI for every number of        *)
(* windows, versions, faults and calls: the inductive invariant of the     *)
(* lock and of the files, and from it the two safety properties and the    *)
(* refinement that TLC checks for two windows.                             *)
(***************************************************************************)
EXTENDS BinaryDownload, TLAPS

\* Everyone is up as long as nothing went wrong.
AllUp == faults = 0 => \A w \in Windows : alive[w] = "up"

\* Only a call that downloads holds the lock.
HeldWhileDownloading ==
  \A w \in Windows : run[w].held => run[w].pc \in Downloading

\* The lock file is that of the window that believes to have it.
LockIsMine == faults = 0 => \A w \in Windows : run[w].held => lock = w

\* Only a window that dies leaves part of a binary behind.
NothingPartial ==
  faults = 0 => \A f \in Files : disk[f] # None => disk[f].bytes # "part"

\* Where a binary may be used from, and where a new one waits for its renames,
\* it was verified or waived.
VouchedFor(f) == disk[f] # None => disk[f].trust # "none"
Swapping(w) == run[w].pc \in {"moveOld", "moveNew"}
UsedIsVouched ==
  verifies =>
    /\ \A p \in Paths : VouchedFor(p)
    /\ \A w \in Windows : VouchedFor(Old(w)) /\ (Swapping(w) => VouchedFor(Temp(w)))

LockInv == AllUp /\ HeldWhileDownloading /\ LockIsMine
FileInv == NothingPartial /\ UsedIsVouched
Inv == TypeOK /\ LockInv /\ FileInv

-----------------------------------------------------------------------------
(* Names of files. *)

\* No two names are those of one file.
LEMMA NamesDiffer ==
  /\ Full # Other
  /\ \A w \in Windows : /\ Temp(w) \notin Paths /\ Old(w) \notin Paths
                        /\ \A v \in Windows : /\ Temp(w) # Old(v)
                                              /\ Temp(w) = Temp(v) => w = v
                                              /\ Old(w) = Old(v) => w = v
BY DEF Full, Other, Temp, Old, Paths

\* All of them are names of files, and there are no others.
LEMMA NamesAreFiles ==
  /\ Full \in Files /\ Other \in Files
  /\ Full \in Paths /\ Other \in Paths /\ Paths \subseteq Files
  /\ Placed \subseteq Files /\ Full \in Placed
  /\ \A w \in Windows : Temp(w) \in Files /\ Old(w) \in Files
  /\ \A f \in Files : f \in Paths \/ \E w \in Windows : f = Temp(w) \/ f = Old(w)
BY DEF Files, Placed, Paths

-----------------------------------------------------------------------------
(* Types. *)

Pcs == {"buildInfo", "check", "lock", "waiting", "done"} \cup Downloading
Results == {"none", "path", "error", "declined", "nothing"}
Calls == [pc : Pcs, path : Paths, found : BOOLEAN, first : 1..MaxVersion,
          latest : 1..MaxVersion, source : 1..2, candidate : Placed, held : BOOLEAN, lost : BOOLEAN,
          answer : Results]

\* The type invariant in parts that a step changes one at a time.
SettingsOK == verifies \in BOOLEAN /\ downloads \in BOOLEAN /\ layout \in {"directory", "file"}
DiskOK == disk \in [Files -> Binaries \cup {None}]
RunOK == run \in [Windows -> Calls]
WorldOK == /\ server \in 1..MaxVersion /\ lock \in Windows \cup {None}
           /\ alive \in [Windows -> {"up", "suspended", "dead"}]
           /\ faults \in 0..MaxFaults /\ calls \in 0..MaxCalls

LEMMA TypeParts == TypeOK <=> SettingsOK /\ DiskOK /\ RunOK /\ WorldOK
BY DEF TypeOK, SettingsOK, DiskOK, RunOK, WorldOK, Calls, Pcs, Results

LEMMA TypePartsNext == TypeOK' <=> SettingsOK' /\ DiskOK' /\ RunOK' /\ WorldOK'
BY DEF TypeOK, SettingsOK, DiskOK, RunOK, WorldOK, Calls, Pcs, Results

\* What is written to a call is one: the ways of the code to change it.
LEMMA CallChanges ==
  ASSUME BinaryAssumption, RunOK, WorldOK, NEW w \in Windows
  PROVE  /\ NotCalled \in Calls
         /\ \A pc \in Pcs : Goto(w, pc) => RunOK'
         /\ \A a \in Results : Ends(w, a) \/ Answers(w, a) => RunOK'
         /\ \A pc \in Pcs : Locked(w, pc) => RunOK'
         /\ Replace(w) \/ Abandon(w) => RunOK'
         /\ UNCHANGED run => RunOK'
<1>1. NotCalled \in Calls
  BY NamesAreFiles DEF BinaryAssumption, NotCalled, Calls, Pcs, Results
<1>2. ASSUME NEW pc \in Pcs, Goto(w, pc)
      PROVE  RunOK'
  BY <1>2 DEF RunOK, Calls, Goto
<1>3. ASSUME NEW a \in Results, Ends(w, a)
      PROVE  RunOK'
  BY <1>1, <1>3 DEF RunOK, Calls, Ends, Pcs
<1>4. ASSUME NEW a \in Results, Answers(w, a)
      PROVE  RunOK'
  <2>1. "release" \in Pcs
    BY DEF Pcs, Downloading
  <2>2. run[w].held \in BOOLEAN /\ run[w].lost \in BOOLEAN
    BY DEF RunOK, Calls
  <2>3. [NotCalled EXCEPT !.pc = "release", !.answer = a,
                          !.held = run[w].held, !.lost = run[w].lost] \in Calls
    BY <1>1, <2>1, <2>2 DEF Calls
  <2> QED
    BY <1>4, <2>3 DEF Answers, RunOK
<1>5. ASSUME NEW pc \in Pcs, Locked(w, pc)
      PROVE  RunOK'
  BY <1>5 DEF RunOK, Calls, Locked
<1>6. ASSUME Replace(w) \/ Abandon(w)
      PROVE  RunOK'
  BY <1>6 DEF RunOK, Calls, Replace, Abandon, Pcs, Downloading
<1>7. UNCHANGED run => RunOK'
  BY DEF RunOK
<1> QED
  BY <1>1, <1>2, <1>3, <1>4, <1>5, <1>6, <1>7

\* Nobody changes the settings or the shape of the cache path.
LEMMA SettingsStay == [Next]_vars => UNCHANGED settings
BY DEF Next, vars, settings, ResolveBinaryPath, Fetch, GetBuildInfo, CheckResolvedBinary,
       AcquireLock, MonitorDownloadProgress, RecheckBuildInfo, RecheckBinaryAfterWait, RmOld,
       GetBinary, StreamEnds, VerifySignature, MoveExisting, MoveNew, ExecNew,
       RenameToFinalPath, TryCandidate, Use, Release, PollFails, Flushed, Suspend, Resume, Compromised, Die,
       Upgrade

\* The files stay typed when one is moved, dropped or marked.
LEMMA DiskChanges ==
  ASSUME DiskOK
  PROVE  /\ UNCHANGED disk => DiskOK'
         /\ \A p, q \in Files : Rename(p, q) => DiskOK'
         /\ \A w \in Windows : Abandon(w) => DiskOK'
         /\ \A w \in Windows, t \in {"verified", "accepted"} : Marked(w, t) => DiskOK'
<1>1. UNCHANGED disk => DiskOK'
  BY DEF DiskOK
<1>2. ASSUME NEW p \in Files, NEW q \in Files, Rename(p, q)
      PROVE  DiskOK'
  BY <1>2 DEF DiskOK, Rename
<1>3. ASSUME NEW w \in Windows, Abandon(w)
      PROVE  DiskOK'
  BY <1>3, NamesAreFiles DEF DiskOK, Abandon
<1>4. ASSUME NEW w \in Windows, NEW t \in {"verified", "accepted"}, Marked(w, t)
      PROVE  DiskOK'
  <2>1. Temp(w) \in Files
    BY NamesAreFiles
  <2>2. ASSUME disk[Temp(w)] # None
        PROVE  [disk[Temp(w)] EXCEPT !.trust = t] \in Binaries
    BY <2>1, <2>2 DEF DiskOK, Binaries
  <2> QED
    BY <1>4, <2>1, <2>2 DEF DiskOK, Marked
<1> QED
  BY <1>1, <1>2, <1>3, <1>4

\* The version the server runs is written where a call keeps versions.
LEMMA VersionsRead ==
  ASSUME RunOK, WorldOK, NEW w \in Windows, NEW pc \in Pcs
  PROVE  /\ [run[w] EXCEPT !.pc = pc, !.first = server, !.latest = server] \in Calls
         /\ [run[w] EXCEPT !.pc = pc, !.latest = server] \in Calls
<1>1. run[w] \in Calls /\ server \in 1..MaxVersion
  BY DEF RunOK, WorldOK
<1> QED
  BY <1>1 DEF Calls

\* A candidate is remembered until it is used or declined.
LEMMA ChoiceIsTyped ==
  ASSUME RunOK, NEW w \in Windows, NEW f \in Placed, Chosen(w, f)
  PROVE  RunOK'
<1> DEFINE pc == IF disk[f].version = run[w].first THEN "use" ELSE "ask"
<1>1. pc \in Pcs
  BY DEF Pcs, Downloading
<1>2. run' = [run EXCEPT ![w] = [run[w] EXCEPT !.candidate = f, !.pc = pc]]
  BY DEF Chosen, RunOK
<1> HIDE DEF pc
<1>3. [run[w] EXCEPT !.candidate = f, !.pc = pc] \in Calls
  BY <1>1 DEF RunOK, Calls
<1> QED
  BY <1>2, <1>3 DEF RunOK

\* A window's own steps, one by one.
LEMMA FetchTypes ==
  ASSUME BinaryAssumption, DiskOK, RunOK, WorldOK, NEW w \in Windows, Fetch(w)
  PROVE  DiskOK' /\ RunOK' /\ WorldOK'
<1> USE DEF Pcs, Results, Downloading
<1>1. CASE GetBuildInfo(w)
  <2>1. RunOK'
    <3>1. CASE run' = [run EXCEPT ![w].pc = "check", ![w].first = server, ![w].latest = server]
      <4>1. [run[w] EXCEPT !.pc = "check", !.first = server, !.latest = server] \in Calls
        BY VersionsRead
      <4>2. run' = [run EXCEPT ![w] =
                      [run[w] EXCEPT !.pc = "check", !.first = server, !.latest = server]]
        BY <3>1 DEF RunOK
      <4> QED
        BY <4>1, <4>2 DEF RunOK
    <3> QED
      BY <1>1, <3>1, CallChanges DEF GetBuildInfo, Fails
  <2> QED
    BY <1>1, <2>1, DiskChanges DEF GetBuildInfo, world, WorldOK
<1>2. CASE CheckResolvedBinary(w)
  <2>1. Ends(w, "path") \/ Goto(w, "lock") \/ Ends(w, "error")
    BY <1>2 DEF CheckResolvedBinary, Fails
  <2> QED
    BY <1>2, <2>1, CallChanges, DiskChanges DEF CheckResolvedBinary, world, WorldOK
<1>3. CASE AcquireLock(w) \/ MonitorDownloadProgress(w)
  <2>1. Locked(w, "clean") \/ Locked(w, "recheck") \/ Goto(w, "waiting") \/ Goto(w, "fallback")
    BY <1>3 DEF AcquireLock, MonitorDownloadProgress
  <2>2. lock' \in Windows \cup {None}
    BY <1>3 DEF AcquireLock, MonitorDownloadProgress, Locked, WorldOK
  <2>3. UNCHANGED <<disk, world>>
    BY <1>3 DEF AcquireLock, MonitorDownloadProgress
  <2> QED
    BY <2>1, <2>2, <2>3, CallChanges, DiskChanges DEF world, WorldOK
<1>4. CASE RecheckBuildInfo(w) \/ RecheckBinaryAfterWait(w) \/ ExecNew(w)
  <2>1. RunOK'
    <3>1. CASE run' = [run EXCEPT ![w].pc = "recheckVersion", ![w].latest = server]
      <4>1. [run[w] EXCEPT !.pc = "recheckVersion", !.latest = server] \in Calls
        BY VersionsRead
      <4>2. run' = [run EXCEPT ![w] = [run[w] EXCEPT !.pc = "recheckVersion", !.latest = server]]
        BY <3>1 DEF RunOK
      <4> QED
        BY <4>1, <4>2 DEF RunOK
    <3>2. \/ run' = [run EXCEPT ![w].pc = "recheckVersion", ![w].latest = server]
          \/ Goto(w, "rename") \/ Goto(w, "fallback") \/ Goto(w, "clean")
      BY <1>4 DEF RecheckBuildInfo, RecheckBinaryAfterWait, ExecNew
    <3> QED
      BY <3>1, <3>2, CallChanges
  <2> QED
    BY <1>4, <2>1, DiskChanges
       DEF RecheckBuildInfo, RecheckBinaryAfterWait, ExecNew, world, WorldOK
<1>5. CASE RmOld(w)
  <2>1. DiskOK'
    BY <1>5 DEF RmOld, DiskOK
  <2> QED
    BY <1>5, <2>1, CallChanges DEF RmOld, world, WorldOK
<1>6. CASE GetBinary(w)
  <2>1. [version |-> server, trust |-> "none", bytes |-> w] \in Binaries
    BY DEF Binaries, WorldOK
  <2>2. DiskOK'
    BY <1>6, <2>1, NamesAreFiles DEF GetBinary, DiskOK
  <2>3. Goto(w, "stream") \/ Goto(w, "rename") \/ Goto(w, "fallback")
    BY <1>6 DEF GetBinary
  <2> QED
    BY <1>6, <2>2, <2>3, CallChanges DEF GetBinary, world, WorldOK
<1>7. CASE StreamEnds(w)
  <2>1. Goto(w, "signature") \/ Replace(w) \/ Abandon(w)
    BY <1>7 DEF StreamEnds
  <2> QED
    BY <1>7, <2>1, CallChanges, DiskChanges DEF StreamEnds, world, WorldOK
<1>8. CASE VerifySignature(w)
  <2>1. RunOK'
    <3>1. CASE run' = [run EXCEPT ![w].source = 2]
      BY <3>1 DEF RunOK, Calls
    <3> QED
      BY <1>8, <3>1, CallChanges DEF VerifySignature
  <2> QED
    BY <1>8, <2>1, DiskChanges DEF VerifySignature, world, WorldOK
<1>9. CASE MoveExisting(w)
  <2>1. DiskOK'
    <3>1. CASE disk' = [disk EXCEPT ![Full] = None,
                                    ![Old(w)] = IF disk[Full] = None THEN @ ELSE disk[Full]]
      BY <3>1, NamesAreFiles, NamesDiffer DEF DiskOK
    <3> QED
      BY <1>9, <3>1, DiskChanges DEF MoveExisting
  <2>2. Goto(w, "moveNew") \/ Abandon(w)
    BY <1>9 DEF MoveExisting
  <2> QED
    BY <1>9, <2>1, <2>2, CallChanges DEF MoveExisting, world, WorldOK
<1>10. CASE MoveNew(w)
  <2>1. DiskOK'
    <3>1. CASE disk' = [disk EXCEPT ![Full] = disk[Temp(w)], ![Temp(w)] = None]
      BY <3>1, NamesAreFiles, NamesDiffer DEF DiskOK
    <3> QED
      BY <1>10, <3>1, DiskChanges DEF MoveNew
  <2>2. Goto(w, "exec") \/ Abandon(w)
    BY <1>10 DEF MoveNew
  <2> QED
    BY <1>10, <2>1, <2>2, CallChanges DEF MoveNew, world, WorldOK
<1>11. CASE RenameToFinalPath(w)
  <2>1. Answers(w, "path") \/ Goto(w, "fallback")
    BY <1>11 DEF RenameToFinalPath, SettingsOK
  <2>2. Rename(Full, Other) \/ UNCHANGED disk
    BY <1>11 DEF RenameToFinalPath
  <2> QED
    BY <1>11, <2>1, <2>2, CallChanges, DiskChanges, NamesAreFiles
       DEF RenameToFinalPath, world, WorldOK
<1>12. ASSUME NEW step \in {"fallback", "fallback2", "fallback3"}, TryCandidate(w, step)
       PROVE  DiskOK' /\ RunOK' /\ WorldOK'
  <2>1. Candidates(w, step) \subseteq Placed
    BY <1>12, NamesAreFiles DEF Candidates, LatestBackups, Backups, Placed
  <2>2. \/ \E a \in Results : Answers(w, a)
        \/ Goto(w, "fallback2") \/ Goto(w, "fallback3")
        \/ \E f \in Placed : Chosen(w, f)
    BY <1>12, <2>1 DEF TryCandidate, NextStep
  <2>3. RunOK'
    BY <2>2, CallChanges, ChoiceIsTyped
  <2> QED
    BY <1>12, <2>3, DiskChanges DEF TryCandidate, world, WorldOK
<1>13. CASE Release(w)
  <2>1. \E a \in Results : Ends(w, a)
    BY <1>13 DEF Release, RunOK, Calls
  <2> QED
    BY <1>13, <2>1, CallChanges, DiskChanges DEF Release, world, WorldOK
<1>14. CASE Use(w)
  <2>1. \E a \in Results : Answers(w, a)
    BY <1>14 DEF Use
  <2>2. UNCHANGED disk \/ Rename(run[w].candidate, run[w].path)
    BY <1>14 DEF Use
  <2>3. run[w].candidate \in Files /\ run[w].path \in Files
    BY NamesAreFiles DEF RunOK, Calls
  <2>4. RunOK' /\ DiskOK'
    BY <2>1, <2>2, <2>3, CallChanges, DiskChanges
  <2> QED
    BY <1>14, <2>4 DEF Use, world, WorldOK
<1> QED
  BY <1>1, <1>2, <1>3, <1>4, <1>5, <1>6, <1>7, <1>8, <1>9, <1>10, <1>11, <1>12, <1>13, <1>14 DEF Fetch

\* The steps of a window outside its call, and of the server.
LEMMA TypesNext ==
  ASSUME BinaryAssumption, TypeOK, [Next]_vars
  PROVE  TypeOK'
<1>0. SettingsOK /\ DiskOK /\ RunOK /\ WorldOK
  BY TypeParts
<1>1. SettingsOK'
  BY <1>0, SettingsStay DEF SettingsOK, settings
<1>2. DiskOK' /\ RunOK' /\ WorldOK'
  <2>1. CASE UNCHANGED vars
    BY <1>0, <2>1 DEF vars, DiskOK, RunOK, WorldOK
  <2>2. CASE Upgrade
    BY <1>0, <2>2 DEF Upgrade, DiskOK, RunOK, WorldOK, BinaryAssumption
  <2>3. ASSUME NEW w \in Windows, Fetch(w)
        PROVE  DiskOK' /\ RunOK' /\ WorldOK'
    BY <1>0, <2>3, FetchTypes
  <2>4. ASSUME NEW w \in Windows, ResolveBinaryPath(w)
        PROVE  DiskOK' /\ RunOK' /\ WorldOK'
    <3>1. PICK path \in Paths, found \in BOOLEAN :
            run' = [run EXCEPT ![w] = [NotCalled EXCEPT !.pc = "buildInfo", !.path = path,
                                                        !.found = found]]
      BY <2>4, NamesAreFiles DEF ResolveBinaryPath
    <3>2. [NotCalled EXCEPT !.pc = "buildInfo", !.path = path, !.found = found] \in Calls
      <4>1. NotCalled \in Calls /\ "buildInfo" \in Pcs
        BY <1>0, <2>4, CallChanges DEF Pcs
      <4> QED
        BY <4>1 DEF Calls
    <3>3. RunOK'
      BY <1>0, <3>1, <3>2 DEF RunOK
    <3> QED
      BY <1>0, <2>4, <3>3, DiskChanges DEF ResolveBinaryPath, WorldOK, BinaryAssumption
  <2>5. ASSUME NEW w \in Windows, Flushed(w)
        PROVE  DiskOK' /\ RunOK' /\ WorldOK'
    <3>1. PICK f \in Files : disk[f] # None /\ disk' = [disk EXCEPT ![f].bytes = "whole"]
      BY <2>5 DEF Flushed
    <3>2. [disk[f] EXCEPT !.bytes = "whole"] \in Binaries
      BY <1>0, <3>1 DEF DiskOK, Binaries
    <3> QED
      BY <1>0, <2>5, <3>1, <3>2 DEF Flushed, DiskOK, RunOK, WorldOK, world
  <2>6. ASSUME NEW w \in Windows, Suspend(w) \/ Resume(w)
        PROVE  DiskOK' /\ RunOK' /\ WorldOK'
    BY <1>0, <2>6 DEF Suspend, Resume, DiskOK, RunOK, WorldOK, BinaryAssumption
  <2>7. ASSUME NEW w \in Windows, Compromised(w)
        PROVE  DiskOK' /\ RunOK' /\ WorldOK'
    BY <1>0, <2>7 DEF Compromised, DiskOK, RunOK, Calls, WorldOK, world
  <2>8. ASSUME NEW w \in Windows, Die(w)
        PROVE  DiskOK' /\ RunOK' /\ WorldOK'
    <3>1. \A f \in Files : disk[f] # None => [disk[f] EXCEPT !.bytes = "part"] \in Binaries
      BY <1>0 DEF DiskOK, Binaries
    <3>2. DiskOK'
      BY <1>0, <2>8, <3>1 DEF Die, DiskOK
    <3> QED
      BY <1>0, <2>8, <3>2 DEF Die, RunOK, WorldOK, BinaryAssumption
  <2>9. ASSUME NEW w \in Windows, PollFails(w)
        PROVE  DiskOK' /\ RunOK' /\ WorldOK'
    <3>1. "fallback" \in Pcs
      BY DEF Pcs, Downloading
    <3> QED
      BY <1>0, <2>9, <3>1, CallChanges, DiskChanges DEF PollFails, world, WorldOK
  <2> QED
    BY <2>1, <2>2, <2>3, <2>4, <2>5, <2>6, <2>7, <2>8, <2>9 DEF Next
<1> QED
  BY <1>1, <1>2, TypePartsNext

-----------------------------------------------------------------------------
(* The lock. *)

\* A call goes on downloading, or goes on without the lock.
KeepsLock(w) ==
  \A v \in Windows : /\ run'[v].held => run[v].held
                     /\ run'[v].held => run'[v].pc \in Downloading

LEMMA LockFrame ==
  ASSUME TypeOK, LockInv, NEW w \in Windows, KeepsLock(w), UNCHANGED <<lock, alive, faults>>
  PROVE  LockInv'
BY DEF LockInv, AllUp, HeldWhileDownloading, LockIsMine, KeepsLock

\* The ways of the code to change a call keep it so.
LEMMA CallsKeepLock ==
  ASSUME TypeOK, LockInv, NEW w \in Windows
  PROVE  /\ UNCHANGED run => KeepsLock(w)
         /\ \A a \in Results : Ends(w, a) \/ Answers(w, a) => KeepsLock(w)
         /\ \A pc \in Pcs : Goto(w, pc) /\ (pc \in Downloading \/ ~run[w].held) => KeepsLock(w)
         /\ Replace(w) \/ Abandon(w) => KeepsLock(w)
<1>0. RunOK /\ HeldWhileDownloading
  BY TypeParts DEF LockInv
<1>1. UNCHANGED run => KeepsLock(w)
  BY <1>0 DEF KeepsLock, HeldWhileDownloading
<1>2. ASSUME NEW a \in Results, Ends(w, a)
      PROVE  KeepsLock(w)
  BY <1>0, <1>2 DEF KeepsLock, HeldWhileDownloading, RunOK, Calls, Ends, NotCalled
<1>3. ASSUME NEW a \in Results, Answers(w, a)
      PROVE  KeepsLock(w)
  <2>1. "release" \in Downloading
    BY DEF Downloading
  <2> QED
    BY <1>0, <1>3, <2>1 DEF KeepsLock, HeldWhileDownloading, RunOK, Calls, Answers, NotCalled
<1>4. ASSUME NEW pc \in Pcs, Goto(w, pc), pc \in Downloading \/ ~run[w].held
      PROVE  KeepsLock(w)
  BY <1>0, <1>4 DEF KeepsLock, HeldWhileDownloading, RunOK, Calls, Goto
<1>5. ASSUME Replace(w) \/ Abandon(w)
      PROVE  KeepsLock(w)
  <2>1. "moveOld" \in Downloading /\ "fallback" \in Downloading
    BY DEF Downloading
  <2> QED
    BY <1>0, <1>5, <2>1 DEF KeepsLock, HeldWhileDownloading, RunOK, Calls, Replace, Abandon
<1> QED
  BY <1>1, <1>2, <1>3, <1>4, <1>5

\* Who takes the lock was not kept from it by a window that runs.
LEMMA LockTaken ==
  ASSUME BinaryAssumption, TypeOK, LockInv, NEW w \in Windows, NEW pc \in Downloading,
         Locked(w, pc), lock = None \/ Stale, UNCHANGED <<alive, faults>>
  PROVE  LockInv'
<1>0. RunOK /\ WorldOK
  BY TypeParts
<1>1. AllUp'
  BY DEF LockInv, AllUp
<1>2. HeldWhileDownloading'
  BY <1>0 DEF LockInv, HeldWhileDownloading, Locked, RunOK, Calls
<1>3. ASSUME faults' = 0, NEW v \in Windows, run'[v].held
      PROVE  lock' = v
  <2>1. lock = None
    BY <1>0, <1>3 DEF LockInv, AllUp, Stale, WorldOK
  <2>2. ~run[v].held
    BY <1>3, <2>1 DEF LockInv, LockIsMine, BinaryAssumption
  <2> QED
    BY <1>0, <1>3, <2>2 DEF Locked, RunOK, Calls
<1> QED
  BY <1>1, <1>2, <1>3 DEF LockInv, LockIsMine

LEMMA LockNext ==
  ASSUME BinaryAssumption, TypeOK, LockInv, [Next]_vars
  PROVE  LockInv'
<1>0. RunOK /\ WorldOK
  BY TypeParts
<1>1. CASE UNCHANGED vars
  BY <1>1 DEF vars, LockInv, AllUp, HeldWhileDownloading, LockIsMine
<1>2. CASE Upgrade
  BY <1>2 DEF Upgrade, LockInv, AllUp, HeldWhileDownloading, LockIsMine
<1>3. ASSUME NEW w \in Windows, Fetch(w)
      PROVE  LockInv'
  <2>1. CASE AcquireLock(w) \/ MonitorDownloadProgress(w)
    <3>0. UNCHANGED <<alive, faults>>
      BY <2>1 DEF AcquireLock, MonitorDownloadProgress, world
    <3>1. CASE (lock = None \/ Stale) /\ (Locked(w, "clean") \/ Locked(w, "recheck"))
      <4>1. "clean" \in Downloading /\ "recheck" \in Downloading
        BY DEF Downloading
      <4> QED
        BY <3>0, <3>1, <4>1, LockTaken
    <3>2. CASE UNCHANGED lock /\ At(w, "lock") /\ (Goto(w, "waiting") \/ Goto(w, "fallback"))
      <4>1. ~run[w].held
        BY <3>2 DEF At, LockInv, HeldWhileDownloading, Downloading
      <4>2. "waiting" \in Pcs /\ "fallback" \in Pcs
        BY DEF Pcs, Downloading
      <4> QED
        BY <3>0, <3>2, <4>1, <4>2, CallsKeepLock, LockFrame
    <3> QED
      BY <2>1, <3>1, <3>2 DEF AcquireLock, MonitorDownloadProgress
  <2>2. CASE Release(w)
    <3>1. PICK a \in Results : Ends(w, a)
      BY <1>0, <2>2 DEF Release, RunOK, Calls, Results
    <3>2. \A v \in Windows : run'[v].held => v # w /\ run[v].held
      BY <1>0, <3>1 DEF Ends, NotCalled, RunOK, Calls
    <3>3. KeepsLock(w)
      BY <3>1, CallsKeepLock
    <3>4. faults = 0 /\ run[w].held => \A v \in Windows : ~run'[v].held
      BY <3>2 DEF LockInv, LockIsMine
    <3>5. lock' = lock \/ run[w].held
      BY <2>2 DEF Release
    <3>6. UNCHANGED <<alive, faults>>
      BY <2>2 DEF Release, world
    <3> QED
      BY <3>2, <3>3, <3>4, <3>5, <3>6
         DEF LockInv, AllUp, HeldWhileDownloading, LockIsMine, KeepsLock
  <2>3. CASE ~(AcquireLock(w) \/ MonitorDownloadProgress(w) \/ Release(w))
    <3>1. UNCHANGED <<lock, alive, faults>>
      BY <1>3, <2>3 DEF Fetch, world, GetBuildInfo, CheckResolvedBinary, RecheckBuildInfo,
         RecheckBinaryAfterWait, RmOld, GetBinary, StreamEnds, VerifySignature, MoveExisting,
         MoveNew, ExecNew, RenameToFinalPath, TryCandidate, Use
    <3>2. KeepsLock(w)
      <4>0. /\ {"path", "error", "declined", "nothing"} \subseteq Results
            /\ {"clean", "get", "stream", "signature", "moveNew", "exec", "rename", "fallback",
                "fallback2", "fallback3"} \subseteq Downloading
            /\ "lock" \in Pcs /\ Downloading \subseteq Pcs
        BY DEF Results, Downloading, Pcs
      <4>1. CASE GetBuildInfo(w) \/ CheckResolvedBinary(w)
        <5>1. ~run[w].held
          BY <4>1 DEF GetBuildInfo, CheckResolvedBinary, At, LockInv, HeldWhileDownloading,
                      Downloading
        <5>2. CASE run' = [run EXCEPT ![w].pc = "check", ![w].first = server, ![w].latest = server]
          BY <1>0, <5>1, <5>2 DEF KeepsLock, LockInv, HeldWhileDownloading, RunOK, Calls
        <5> QED
          BY <4>0, <4>1, <5>1, <5>2, CallsKeepLock DEF GetBuildInfo, CheckResolvedBinary, Fails
      <4>2. CASE RecheckBuildInfo(w)
        <5>1. CASE run' = [run EXCEPT ![w].pc = "recheckVersion", ![w].latest = server]
          <6>1. "recheckVersion" \in Downloading
            BY DEF Downloading
          <6> QED
            BY <1>0, <5>1, <6>1 DEF KeepsLock, LockInv, HeldWhileDownloading, RunOK, Calls
        <5> QED
          BY <4>0, <4>2, <5>1, CallsKeepLock DEF RecheckBuildInfo
      <4>3. CASE VerifySignature(w)
        <5>1. CASE run' = [run EXCEPT ![w].source = 2]
          BY <1>0, <5>1 DEF KeepsLock, LockInv, HeldWhileDownloading, RunOK, Calls
        <5> QED
          BY <4>3, <5>1, CallsKeepLock DEF VerifySignature
      <4>4. CASE RecheckBinaryAfterWait(w) \/ RmOld(w) \/ GetBinary(w) \/ ExecNew(w)
        <5>1. \/ Goto(w, "rename") \/ Goto(w, "clean") \/ Goto(w, "get") \/ Goto(w, "stream")
              \/ Goto(w, "fallback")
          BY <4>4 DEF RecheckBinaryAfterWait, RmOld, GetBinary, ExecNew
        <5> QED
          BY <4>0, <5>1, CallsKeepLock
      <4>5. CASE StreamEnds(w) \/ MoveExisting(w) \/ MoveNew(w)
        <5>1. \/ Goto(w, "signature") \/ Goto(w, "moveNew") \/ Goto(w, "exec")
              \/ Replace(w) \/ Abandon(w)
          BY <4>5 DEF StreamEnds, MoveExisting, MoveNew
        <5> QED
          BY <4>0, <5>1, CallsKeepLock
      <4>6. CASE \/ RenameToFinalPath(w) \/ Use(w)
                 \/ \E step \in {"fallback", "fallback2", "fallback3"} : TryCandidate(w, step)
        <5>1. \/ \E a \in Results : Answers(w, a)
              \/ Goto(w, "fallback") \/ Goto(w, "fallback2") \/ Goto(w, "fallback3")
              \/ \E f : Chosen(w, f)
          BY <4>0, <4>6 DEF RenameToFinalPath, TryCandidate, Use, NextStep
        <5>2. ASSUME NEW f, Chosen(w, f)
              PROVE  KeepsLock(w)
          <6>1. "use" \in Downloading /\ "ask" \in Downloading
            BY DEF Downloading
          <6> QED
            BY <1>0, <5>2, <6>1 DEF Chosen, KeepsLock, LockInv, HeldWhileDownloading, RunOK, Calls
        <5> QED
          BY <4>0, <5>1, <5>2, CallsKeepLock
      <4> QED
        BY <1>3, <2>3, <4>1, <4>2, <4>3, <4>4, <4>5, <4>6 DEF Fetch
    <3> QED
      BY <3>1, <3>2, LockFrame
  <2> QED
    BY <2>1, <2>2, <2>3
<1>4. ASSUME NEW w \in Windows, ResolveBinaryPath(w) \/ Flushed(w) \/ Compromised(w)
      PROVE  LockInv'
  <2>1. KeepsLock(w)
    <3>1. CASE ResolveBinaryPath(w)
      BY <1>0, <3>1 DEF ResolveBinaryPath, KeepsLock, LockInv, HeldWhileDownloading, RunOK, Calls,
                        NotCalled
    <3>2. CASE Flushed(w) \/ Compromised(w)
      BY <1>0, <3>2 DEF Flushed, Compromised, KeepsLock, LockInv, HeldWhileDownloading, RunOK, Calls
    <3> QED
      BY <1>4, <3>1, <3>2
  <2> QED
    BY <1>4, <2>1, LockFrame DEF ResolveBinaryPath, Flushed, Compromised, world
<1>5. ASSUME NEW w \in Windows, Suspend(w) \/ Resume(w) \/ Die(w)
      PROVE  LockInv'
  <2>1. faults' = 0 => faults = 0 /\ Resume(w)
    BY <1>0, <1>5 DEF Suspend, Resume, Die, WorldOK, BinaryAssumption
  <2>2. faults' # 0
    BY <1>5, <2>1 DEF LockInv, AllUp, Resume
  <2>3. UNCHANGED run
    BY <1>5 DEF Suspend, Resume, Die
  <2> QED
    BY <2>2, <2>3 DEF LockInv, AllUp, HeldWhileDownloading, LockIsMine
<1>6. ASSUME NEW w \in Windows, PollFails(w)
      PROVE  LockInv'
  <2>1. ~run[w].held
    BY <1>6 DEF PollFails, At, LockInv, HeldWhileDownloading, Downloading
  <2>2. "fallback" \in Pcs
    BY DEF Pcs, Downloading
  <2> QED
    BY <1>6, <2>1, <2>2, CallsKeepLock, LockFrame DEF PollFails, world
<1> QED
  BY <1>1, <1>2, <1>3, <1>4, <1>5, <1>6 DEF Next

-----------------------------------------------------------------------------
(* The files. *)

\* A file is what it was, its last bytes perhaps written, or gone.
Stays(f) ==
  disk'[f] # None =>
    /\ disk[f] # None
    /\ disk'[f].trust = disk[f].trust
    /\ disk'[f].bytes \in {disk[f].bytes, "whole"}

NoNewSwap(w) == \A v \in Windows : Swapping(v)' => v # w /\ Swapping(v)

LEMMA FilesFrame ==
  ASSUME FileInv, UNCHANGED verifies, faults' = 0 => faults = 0,
         \A f \in Files : Stays(f),
         \A v \in Windows : Swapping(v)' => Swapping(v)
  PROVE  FileInv'
BY NamesAreFiles DEF FileInv, NothingPartial, UsedIsVouched, VouchedFor, Stays

\* The ways of the code to change a call that start no swap.
LEMMA SwapStarts ==
  ASSUME RunOK, NEW w \in Windows
  PROVE  /\ \A a \in Results : Ends(w, a) \/ Answers(w, a) => NoNewSwap(w)
         /\ \A pc \in Pcs \ {"moveOld", "moveNew"} : Goto(w, pc) => NoNewSwap(w)
         /\ \A pc \in Pcs \ {"moveOld", "moveNew"} : Locked(w, pc) => NoNewSwap(w)
         /\ Abandon(w) => NoNewSwap(w)
<1>1. ASSUME NEW a \in Results, Ends(w, a)
      PROVE  NoNewSwap(w)
  BY <1>1 DEF NoNewSwap, Swapping, RunOK, Calls, Ends, NotCalled
<1>2. ASSUME NEW a \in Results, Answers(w, a)
      PROVE  NoNewSwap(w)
  BY <1>2 DEF NoNewSwap, Swapping, RunOK, Calls, Answers, NotCalled
<1>3. ASSUME NEW pc \in Pcs \ {"moveOld", "moveNew"}, Goto(w, pc) \/ Locked(w, pc)
      PROVE  NoNewSwap(w)
  BY <1>3 DEF NoNewSwap, Swapping, RunOK, Calls, Goto, Locked
<1>4. ASSUME Abandon(w)
      PROVE  NoNewSwap(w)
  BY <1>4 DEF NoNewSwap, Swapping, RunOK, Calls, Abandon
<1> QED
  BY <1>1, <1>2, <1>3, <1>4

LEMMA FilesGiveUp ==
  ASSUME TypeOK, FileInv, NEW w \in Windows, Abandon(w), UNCHANGED <<verifies, faults>>
  PROVE  FileInv'
<1>0. DiskOK /\ RunOK
  BY TypeParts
<1>1. \A f \in Files : Stays(f)
  BY <1>0, NamesAreFiles DEF Abandon, Stays, DiskOK
<1>2. NoNewSwap(w)
  BY <1>0, SwapStarts
<1> QED
  BY <1>1, <1>2, FilesFrame DEF NoNewSwap

\* A binary that is used moves to where a binary is used, or to a backup.
LEMMA FilesMove ==
  ASSUME TypeOK, FileInv, UNCHANGED <<verifies, faults>>,
         NEW p \in Files, NEW q \in Files, Rename(p, q),
         \A w \in Windows : p # Temp(w) /\ q # Temp(w),
         \A v \in Windows : Swapping(v)' => Swapping(v)
  PROVE  FileInv'
<1>0. DiskOK
  BY TypeParts
<1>1. \A f \in Files : disk'[f] = IF f = q THEN disk[p] ELSE IF f = p THEN None ELSE disk[f]
  BY <1>0 DEF Rename, DiskOK
<1>2. NothingPartial'
  BY <1>1 DEF FileInv, NothingPartial
<1>3. verifies => VouchedFor(p)
  BY NamesAreFiles DEF FileInv, UsedIsVouched
<1>4. ASSUME NEW f \in Files, VouchedFor(f) \/ f = q, verifies
      PROVE  VouchedFor(f)'
  BY <1>1, <1>3, <1>4 DEF VouchedFor
<1>5. UsedIsVouched'
  BY <1>4, NamesAreFiles DEF FileInv, UsedIsVouched
<1> QED
  BY <1>2, <1>5 DEF FileInv

LEMMA FilesFetch ==
  ASSUME BinaryAssumption, FilesAssumption, TypeOK, FileInv, UNCHANGED settings,
         NEW w \in Windows, Fetch(w)
  PROVE  FileInv'
<1>0. SettingsOK /\ DiskOK /\ RunOK /\ WorldOK
  BY TypeParts
<1>1. UNCHANGED verifies
  BY DEF settings
<1>2. UNCHANGED faults
  BY DEF Fetch, world, GetBuildInfo, CheckResolvedBinary, AcquireLock, MonitorDownloadProgress,
         RecheckBuildInfo, RecheckBinaryAfterWait, RmOld, GetBinary, StreamEnds, VerifySignature,
         MoveExisting, MoveNew, ExecNew, RenameToFinalPath, TryCandidate, Use, Release
<1>3. /\ {"path", "error", "declined", "nothing"} \subseteq Results
      /\ {"lock", "waiting", "recheck", "clean", "get", "stream", "signature", "exec", "rename",
          "fallback", "fallback2", "fallback3"} \subseteq Pcs \ {"moveOld", "moveNew"}
  BY DEF Results, Downloading, Pcs
<1>4. ASSUME UNCHANGED disk, NoNewSwap(w)
      PROVE  FileInv'
  BY <1>1, <1>2, <1>4, FilesFrame DEF Stays, NoNewSwap
<1>5. ASSUME Abandon(w)
      PROVE  FileInv'
  BY <1>1, <1>2, <1>5, FilesGiveUp
<1>6. CASE GetBuildInfo(w) \/ RecheckBuildInfo(w)
  <2>1. ASSUME run' = [run EXCEPT ![w].pc = "check", ![w].first = server, ![w].latest = server]
        PROVE  NoNewSwap(w)
    BY <1>0, <2>1 DEF NoNewSwap, Swapping, RunOK, Calls
  <2>2. ASSUME run' = [run EXCEPT ![w].pc = "recheckVersion", ![w].latest = server]
        PROVE  NoNewSwap(w)
    BY <1>0, <2>2 DEF NoNewSwap, Swapping, RunOK, Calls
  <2>3. NoNewSwap(w)
    BY <1>0, <1>3, <1>6, <2>1, <2>2, SwapStarts DEF GetBuildInfo, RecheckBuildInfo, Fails
  <2> QED
    BY <1>4, <1>6, <2>3 DEF GetBuildInfo, RecheckBuildInfo
<1>7. CASE CheckResolvedBinary(w) \/ Release(w)
  <2>1. Goto(w, "lock") \/ \E a \in Results : Ends(w, a)
    BY <1>0, <1>3, <1>7 DEF CheckResolvedBinary, Fails, Release, RunOK, Calls
  <2>2. NoNewSwap(w)
    BY <1>0, <1>3, <2>1, SwapStarts
  <2> QED
    BY <1>4, <1>7, <2>2 DEF CheckResolvedBinary, Release
<1>8. CASE \/ AcquireLock(w) \/ MonitorDownloadProgress(w)
           \/ RecheckBinaryAfterWait(w) \/ ExecNew(w)
  <2>1. \E pc \in {"waiting", "recheck", "clean", "rename", "fallback"} :
          Goto(w, pc) \/ Locked(w, pc)
    BY <1>8 DEF AcquireLock, MonitorDownloadProgress, RecheckBinaryAfterWait, ExecNew
  <2>2. NoNewSwap(w)
    BY <1>0, <1>3, <2>1, SwapStarts
  <2> QED
    BY <1>4, <1>8, <2>2
       DEF AcquireLock, MonitorDownloadProgress, RecheckBinaryAfterWait, ExecNew
<1>9. CASE RmOld(w)
  <2>1. \A f \in Files : Stays(f)
    BY <1>9 DEF RmOld, Stays
  <2>2. NoNewSwap(w)
    BY <1>0, <1>3, <1>9, SwapStarts DEF RmOld
  <2> QED
    BY <1>1, <1>2, <2>1, <2>2, FilesFrame DEF NoNewSwap
<1>10. CASE GetBinary(w)
  <2>1. NoNewSwap(w)
    BY <1>0, <1>3, <1>10, SwapStarts DEF GetBinary
  <2>2. CASE disk' = [disk EXCEPT ![Temp(w)] =
                        [version |-> server, trust |-> "none", bytes |-> w]]
    <3>1. \A f \in Files : f # Temp(w) => disk'[f] = disk[f]
      BY <1>0, <2>2 DEF DiskOK
    <3>2. disk'[Temp(w)].bytes # "part"
      BY <1>0, <2>2, NamesAreFiles DEF DiskOK, FilesAssumption
    <3>3. NothingPartial'
      BY <1>2, <3>1, <3>2 DEF FileInv, NothingPartial
    <3>4. ASSUME NEW f \in Files, f # Temp(w), VouchedFor(f)
          PROVE  VouchedFor(f)'
      BY <3>1, <3>4 DEF VouchedFor
    <3>5. UsedIsVouched'
      BY <1>1, <2>1, <3>4, NamesAreFiles, NamesDiffer DEF FileInv, UsedIsVouched, NoNewSwap
    <3> QED
      BY <3>3, <3>5 DEF FileInv
  <2> QED
    BY <1>4, <1>10, <2>1, <2>2 DEF GetBinary
<1>11. CASE StreamEnds(w)
  <2>1. CASE verifies /\ Goto(w, "signature") /\ UNCHANGED disk
    BY <1>0, <1>3, <1>4, <2>1, SwapStarts
  <2>2. CASE ~verifies /\ UNCHANGED disk
    BY <1>1, <1>2, <2>2 DEF FileInv, NothingPartial, UsedIsVouched
  <2> QED
    BY <1>5, <1>11, <2>1, <2>2 DEF StreamEnds
<1>12. CASE VerifySignature(w)
  <2>1. ASSUME NEW t \in {"verified", "accepted"}, Marked(w, t), Replace(w)
        PROVE  FileInv'
    <3>1. \A f \in Files : f # Temp(w) => disk'[f] = disk[f]
      BY <1>0, <2>1 DEF DiskOK, Marked
    <3>2. disk[Temp(w)] # None =>
            disk'[Temp(w)].bytes = disk[Temp(w)].bytes /\ disk'[Temp(w)].trust = t
      BY <1>0, <2>1, NamesAreFiles DEF DiskOK, Binaries, Marked
    <3>3. disk[Temp(w)] = None => disk'[Temp(w)] = None
      BY <1>0, <2>1, NamesAreFiles DEF DiskOK, Marked
    <3>4. NothingPartial'
      BY <1>2, <3>1, <3>2, <3>3, NamesAreFiles DEF FileInv, NothingPartial
    <3>5. VouchedFor(Temp(w))'
      BY <2>1, <3>2, <3>3 DEF VouchedFor
    <3>6. ASSUME NEW f \in Files, f # Temp(w), VouchedFor(f)
          PROVE  VouchedFor(f)'
      BY <3>1, <3>6 DEF VouchedFor
    <3>7. \A v \in Windows : v # w /\ Swapping(v)' => Swapping(v)
      BY <1>0, <2>1 DEF Swapping, Replace, RunOK, Calls
    <3>8. UsedIsVouched'
      BY <1>1, <3>5, <3>6, <3>7, NamesAreFiles, NamesDiffer DEF FileInv, UsedIsVouched
    <3> QED
      BY <3>4, <3>8 DEF FileInv
  <2>2. CASE run' = [run EXCEPT ![w].source = 2] /\ UNCHANGED disk
    <3>1. NoNewSwap(w)
      BY <1>0, <1>12, <2>2 DEF VerifySignature, At, NoNewSwap, Swapping, RunOK, Calls
    <3> QED
      BY <1>4, <2>2, <3>1
  <2> QED
    BY <1>5, <1>12, <2>1, <2>2 DEF VerifySignature
<1>13. CASE MoveExisting(w)
  <2>1. \A v \in Windows : Goto(w, "moveNew") => (Swapping(v)' => Swapping(v))
    BY <1>0, <1>13 DEF MoveExisting, At, Goto, Swapping, RunOK, Calls
  <2>2. CASE /\ disk' = [disk EXCEPT ![Full] = None,
                                     ![Old(w)] = IF disk[Full] = None THEN @ ELSE disk[Full]]
             /\ Goto(w, "moveNew")
    <3>1. CASE disk[Full] = None
      <4>1. UNCHANGED disk
        BY <1>0, <2>2, <3>1, NamesAreFiles, NamesDiffer DEF DiskOK
      <4> QED
        BY <1>1, <1>2, <2>1, <2>2, <4>1, FilesFrame DEF Stays
    <3>2. CASE disk[Full] # None
      <4>1. Rename(Full, Old(w))
        BY <1>0, <2>2, <3>2 DEF DiskOK, Rename
      <4>2. \A v \in Windows : Full # Temp(v) /\ Old(w) # Temp(v)
        BY NamesAreFiles, NamesDiffer
      <4> QED
        BY <1>1, <1>2, <2>1, <2>2, <4>1, <4>2, FilesMove, NamesAreFiles
    <3> QED
      BY <3>1, <3>2
  <2> QED
    BY <1>5, <1>13, <2>2 DEF MoveExisting
<1>14. CASE MoveNew(w)
  <2>1. CASE /\ disk[Temp(w)] # None
             /\ disk' = [disk EXCEPT ![Full] = disk[Temp(w)], ![Temp(w)] = None]
             /\ Goto(w, "exec")
    <3>1. \A f \in Files : disk'[f] = IF f = Temp(w) THEN None
                                      ELSE IF f = Full THEN disk[Temp(w)] ELSE disk[f]
      BY <1>0, <2>1 DEF DiskOK
    <3>2. NothingPartial'
      BY <1>2, <3>1, NamesAreFiles DEF FileInv, NothingPartial
    <3>3. NoNewSwap(w)
      BY <1>0, <1>3, <2>1, SwapStarts
    <3>4. verifies => VouchedFor(Temp(w))
      BY <1>14 DEF MoveNew, At, Swapping, FileInv, UsedIsVouched
    <3>5. ASSUME NEW f \in Files, VouchedFor(f) \/ f = Full, verifies
          PROVE  VouchedFor(f)'
      BY <3>1, <3>4, <3>5 DEF VouchedFor
    <3>6. UsedIsVouched'
      BY <1>1, <3>3, <3>5, NamesAreFiles DEF FileInv, UsedIsVouched, NoNewSwap
    <3> QED
      BY <3>2, <3>6 DEF FileInv
  <2> QED
    BY <1>5, <1>14, <2>1 DEF MoveNew
<1>15. CASE RenameToFinalPath(w)
  <2>1. NoNewSwap(w)
    BY <1>0, <1>3, <1>15, SwapStarts DEF RenameToFinalPath
  <2>2. CASE Rename(Full, Other)
    BY <1>1, <1>2, <2>1, <2>2, FilesMove, NamesAreFiles, NamesDiffer DEF NoNewSwap
  <2> QED
    BY <1>4, <1>15, <2>1, <2>2 DEF RenameToFinalPath
<1>16. ASSUME NEW step \in {"fallback", "fallback2", "fallback3"}, TryCandidate(w, step)
       PROVE  FileInv'
  <2>1. \/ \E a \in Results : Answers(w, a)
        \/ Goto(w, "fallback2") \/ Goto(w, "fallback3")
        \/ \E f : Chosen(w, f)
    BY <1>3, <1>16 DEF TryCandidate, NextStep
  <2>2. ASSUME NEW f, Chosen(w, f)
        PROVE  NoNewSwap(w)
    BY <1>0, <2>2 DEF Chosen, NoNewSwap, Swapping, RunOK, Calls
  <2>3. NoNewSwap(w)
    BY <1>0, <1>3, <2>1, <2>2, SwapStarts
  <2> QED
    BY <1>4, <1>16, <2>3 DEF TryCandidate
<1>17. CASE Use(w)
  <2>1. NoNewSwap(w)
    BY <1>0, <1>3, <1>17, SwapStarts DEF Use
  <2>2. CASE Rename(run[w].candidate, run[w].path)
    <3>1. /\ run[w].candidate \in Files
          /\ \A v \in Windows : run[w].candidate # Temp(v)
      BY <1>0, NamesAreFiles, NamesDiffer DEF RunOK, Calls, Placed
    <3>2. run[w].path \in Paths
      BY <1>0 DEF RunOK, Calls
    <3> QED
      BY <1>1, <1>2, <2>1, <2>2, <3>1, <3>2, FilesMove, NamesAreFiles, NamesDiffer DEF NoNewSwap
  <2> QED
    BY <1>4, <1>17, <2>1, <2>2 DEF Use
<1> QED
  BY <1>6, <1>7, <1>8, <1>9, <1>10, <1>11, <1>12, <1>13, <1>14, <1>15, <1>16, <1>17 DEF Fetch

LEMMA FilesNext ==
  ASSUME BinaryAssumption, FilesAssumption, TypeOK, FileInv, [Next]_vars
  PROVE  FileInv'
<1>0. SettingsOK /\ DiskOK /\ RunOK /\ WorldOK
  BY TypeParts
<1>1. UNCHANGED settings
  BY SettingsStay
<1>2. UNCHANGED verifies
  BY <1>1 DEF settings
<1>3. CASE UNCHANGED vars \/ Upgrade
  BY <1>3, FilesFrame DEF vars, Upgrade, settings, Stays, Swapping
<1>4. ASSUME NEW w \in Windows, Fetch(w)
      PROVE  FileInv'
  BY <1>1, <1>4, FilesFetch
<1>5. ASSUME NEW w \in Windows, ResolveBinaryPath(w)
      PROVE  FileInv'
  <2>1. \A v \in Windows : Swapping(v)' => Swapping(v)
    BY <1>0, <1>5 DEF ResolveBinaryPath, NotCalled, Swapping, RunOK, Calls
  <2> QED
    BY <1>2, <1>5, <2>1, FilesFrame DEF ResolveBinaryPath, Stays
<1>6. ASSUME NEW w \in Windows, Flushed(w)
      PROVE  FileInv'
  <2>1. \A f \in Files : Stays(f)
    BY <1>0, <1>6 DEF Flushed, Stays, DiskOK, Binaries
  <2> QED
    BY <1>2, <1>6, <2>1, FilesFrame DEF Flushed, world, Swapping
<1>7. ASSUME NEW w \in Windows, Suspend(w) \/ Resume(w) \/ Compromised(w)
      PROVE  FileInv'
  <2>1. \A v \in Windows : Swapping(v)' => Swapping(v)
    BY <1>0, <1>7 DEF Suspend, Resume, Compromised, Swapping, RunOK, Calls
  <2>2. faults' = 0 => faults = 0
    BY <1>0, <1>7 DEF Suspend, Resume, Compromised, world, WorldOK, BinaryAssumption
  <2>3. UNCHANGED disk
    BY <1>7 DEF Suspend, Resume, Compromised
  <2> QED
    BY <1>2, <2>1, <2>2, <2>3, FilesFrame DEF Stays
<1>8. ASSUME NEW w \in Windows, Die(w)
      PROVE  FileInv'
  <2>1. faults' # 0
    BY <1>0, <1>8 DEF Die, WorldOK, BinaryAssumption
  <2>2. \A f \in Files : disk'[f] # None => disk[f] # None /\ disk'[f].trust = disk[f].trust
    BY <1>0, <1>8 DEF Die, DiskOK, Binaries
  <2>3. \A v \in Windows : Swapping(v)' => Swapping(v)
    BY <1>8 DEF Die, Swapping
  <2> QED
    BY <1>2, <2>1, <2>2, <2>3, NamesAreFiles DEF FileInv, NothingPartial, UsedIsVouched, VouchedFor
<1>9. ASSUME NEW w \in Windows, PollFails(w)
      PROVE  FileInv'
  <2>1. \A v \in Windows : Swapping(v)' => Swapping(v)
    BY <1>0, <1>9 DEF PollFails, Goto, Swapping, RunOK, Calls
  <2> QED
    BY <1>2, <1>9, <2>1, FilesFrame DEF PollFails, world, Stays
<1> QED
  BY <1>3, <1>4, <1>5, <1>6, <1>7, <1>8, <1>9 DEF Next

-----------------------------------------------------------------------------
(* The invariant. *)

LEMMA InvInit == ASSUME BinaryAssumption, FilesAssumption, Init PROVE Inv
<1>1. Before \in Binaries
  BY DEF Before, Binaries, BinaryAssumption
<1>2. \A f \in Files : disk[f] \in {Before, None}
  BY DEF Init, Disks
<1>3. DOMAIN disk = Files /\ disk = [f \in Files |-> disk[f]]
  BY DEF Init
<1>4. DiskOK
  BY <1>1, <1>2, <1>3 DEF DiskOK
<1>5. NotCalled \in Calls
  BY NamesAreFiles DEF BinaryAssumption, NotCalled, Calls, Pcs, Results
<1>6. SettingsOK /\ RunOK /\ WorldOK
  BY <1>5 DEF Init, SettingsOK, RunOK, WorldOK, BinaryAssumption
<1>7. LockInv
  BY DEF Init, NotCalled, LockInv, AllUp, HeldWhileDownloading, LockIsMine
<1>8. \A w \in Windows : ~Swapping(w)
  BY DEF Init, NotCalled, Swapping
<1>9. FileInv
  BY <1>2, <1>8, NamesAreFiles DEF FileInv, NothingPartial, UsedIsVouched, VouchedFor, Before
<1> QED
  BY <1>4, <1>6, <1>7, <1>9, TypeParts DEF Inv

LEMMA InvNext == ASSUME BinaryAssumption, FilesAssumption, Inv, [Next]_vars PROVE Inv'
BY TypesNext, LockNext, FilesNext DEF Inv

\* Every state the windows reach satisfies the invariant.
THEOREM BinaryInvariant == Spec => []Inv
<1>1. Init => Inv
  BY InvInit, BinaryAssumption, FilesAssumption
<1>2. Inv /\ [Next]_vars => Inv'
  BY InvNext, BinaryAssumption, FilesAssumption
<1> QED
  BY <1>1, <1>2, PTL DEF Spec

\* Two windows download at once only after a fault: while there was none, the
\* lock file names the one window that holds it.
THEOREM OneDownloads == Spec => []DownloadInvariant
<1>1. Inv => DownloadInvariant
  BY DEF Inv, LockInv, LockIsMine, DownloadInvariant, ExclusiveDownload, Critical
<1> QED
  BY <1>1, BinaryInvariant, PTL

-----------------------------------------------------------------------------
(* What a swap may lose. *)

\* A fetch changes files in these ways, the removal of leftovers apart.
LEMMA FetchFiles ==
  ASSUME Inv, NEW w \in Windows, Fetch(w), ~RmOld(w)
  PROVE  \/ \A f \in Placed : disk'[f] = disk[f]
         \/ disk[Full] # None /\ Rename(Full, Old(w)) /\ Goto(w, "moveNew")
         \/ /\ disk[Temp(w)] # None
            /\ verifies => disk[Temp(w)].trust # "none"
            /\ disk' = [disk EXCEPT ![Full] = disk[Temp(w)], ![Temp(w)] = None]
            /\ Goto(w, "exec")
         \/ \E p \in Placed, q \in Paths :
              p # q /\ disk[p] # None /\ Rename(p, q) /\ Answers(w, "path")
<1>0. DiskOK /\ RunOK
  BY TypeParts DEF Inv
<1>1. \A f \in Placed : f \in Files /\ \A v \in Windows : f # Temp(v)
  BY NamesAreFiles, NamesDiffer DEF Placed
<1>2. Temp(w) \in Files
  BY NamesAreFiles
<1>3. Full \in Placed /\ Old(w) \in Placed /\ Full # Old(w)
  BY NamesAreFiles, NamesDiffer DEF Placed
<1>4. UNCHANGED disk => \A f \in Placed : disk'[f] = disk[f]
  OBVIOUS
<1>5. Abandon(w) => \A f \in Placed : disk'[f] = disk[f]
  BY <1>0, <1>1 DEF Abandon, DiskOK
<1>6. CASE \/ GetBuildInfo(w) \/ CheckResolvedBinary(w) \/ AcquireLock(w)
           \/ MonitorDownloadProgress(w) \/ RecheckBuildInfo(w)
           \/ RecheckBinaryAfterWait(w) \/ ExecNew(w) \/ Release(w)
  BY <1>4, <1>6 DEF GetBuildInfo, CheckResolvedBinary, AcquireLock, MonitorDownloadProgress,
     RecheckBuildInfo, RecheckBinaryAfterWait, ExecNew, Release
<1>7. CASE GetBinary(w)
  BY <1>0, <1>1, <1>7 DEF GetBinary, DiskOK
<1>8. CASE StreamEnds(w)
  BY <1>4, <1>5, <1>8 DEF StreamEnds
<1>9. CASE VerifySignature(w)
  <2>1. ASSUME NEW t \in {"verified", "accepted"}, Marked(w, t)
        PROVE  \A f \in Placed : disk'[f] = disk[f]
    BY <1>0, <1>1, <2>1 DEF Marked, DiskOK
  <2> QED
    BY <1>4, <1>5, <1>9, <2>1 DEF VerifySignature
<1>10. CASE MoveExisting(w)
  <2>1. CASE disk' = [disk EXCEPT ![Full] = None,
                                  ![Old(w)] = IF disk[Full] = None THEN @ ELSE disk[Full]]
    <3>1. CASE disk[Full] = None
      BY <1>0, <1>1, <1>3, <2>1, <3>1 DEF DiskOK
    <3>2. CASE disk[Full] # None
      <4>1. Rename(Full, Old(w))
        BY <1>0, <2>1, <3>2 DEF DiskOK, Rename
      <4>2. Goto(w, "moveNew") \/ Abandon(w)
        BY <1>10 DEF MoveExisting
      <4> QED
        BY <1>5, <3>2, <4>1, <4>2
    <3> QED
      BY <3>1, <3>2
  <2> QED
    BY <1>5, <1>10, <2>1 DEF MoveExisting
<1>11. CASE MoveNew(w)
  <2>1. verifies => VouchedFor(Temp(w))
    BY <1>11 DEF MoveNew, At, Swapping, Inv, FileInv, UsedIsVouched
  <2> QED
    BY <1>5, <1>11, <2>1 DEF MoveNew, VouchedFor
<1>12. CASE RenameToFinalPath(w)
  <2>1. CASE UNCHANGED disk
    BY <1>4, <2>1
  <2>2. CASE disk[Full] # None /\ Rename(Full, Other) /\ Answers(w, "path")
    BY <1>3, <2>2, NamesAreFiles, NamesDiffer
  <2> QED
    BY <1>12, <2>1, <2>2 DEF RenameToFinalPath
<1>13. CASE \E step \in {"fallback", "fallback2", "fallback3"} : TryCandidate(w, step)
  BY <1>4, <1>13 DEF TryCandidate
<1>14. CASE Use(w)
  <2>1. run[w].candidate \in Placed /\ run[w].path \in Paths
    BY <1>0 DEF RunOK, Calls
  <2> QED
    BY <1>4, <1>14, <2>1 DEF Use
<1> QED
  BY <1>6, <1>7, <1>8, <1>9, <1>10, <1>11, <1>12, <1>13, <1>14 DEF Fetch

LEMMA SwapSteps ==
  ASSUME BinaryAssumption, Inv, Inv', [Next]_vars
  PROVE  [faults' = 0 /\ Usable =>
            \/ Usable'
            \/ \E w \in Windows : run[w].pc = "clean" /\ run'[w].pc = "get"]_vars
<1>0. DiskOK /\ RunOK /\ WorldOK /\ NothingPartial'
  BY TypeParts DEF Inv, FileInv
<1>1. Placed \subseteq Files
  BY NamesAreFiles DEF Placed
<1>2. ASSUME NEW f \in Placed, disk'[f] # None, faults' = 0
      PROVE  Usable'
  BY <1>0, <1>1, <1>2 DEF NothingPartial, Usable, Placed, Backups
<1>3. Usable => \E f \in Placed : disk[f] # None
  BY DEF Usable, Placed, Backups
<1> SUFFICES ASSUME Next, faults' = 0, NEW f \in Placed, disk[f] # None
             PROVE  \/ \E g \in Placed : disk'[g] # None
                    \/ \E w \in Windows : run[w].pc = "clean" /\ run'[w].pc = "get"
  BY <1>2, <1>3
<1>4. ASSUME UNCHANGED disk
      PROVE  \E g \in Placed : disk'[g] # None
  BY <1>4
<1>5. ASSUME NEW w \in Windows, Fetch(w), ~RmOld(w)
      PROVE  \E g \in Placed : disk'[g] # None
  <2>1. ASSUME NEW p \in Placed, NEW q \in Placed, p # q, disk[p] # None, Rename(p, q)
        PROVE  \E g \in Placed : disk'[g] # None
    BY <1>0, <1>1, <2>1 DEF Rename, DiskOK
  <2>2. ASSUME disk[Temp(w)] # None,
               disk' = [disk EXCEPT ![Full] = disk[Temp(w)], ![Temp(w)] = None]
        PROVE  \E g \in Placed : disk'[g] # None
    BY <1>0, <2>2, NamesAreFiles, NamesDiffer DEF DiskOK, Placed
  <2>3. Paths \subseteq Placed /\ Full \in Placed /\ Old(w) \in Placed /\ Full # Old(w)
    BY NamesAreFiles, NamesDiffer DEF Placed
  <2>4. CASE \A g \in Placed : disk'[g] = disk[g]
    BY <2>4
  <2>5. CASE disk[Full] # None /\ Rename(Full, Old(w))
    BY <2>1, <2>3, <2>5
  <2>6. CASE \E p \in Placed, q \in Paths : p # q /\ disk[p] # None /\ Rename(p, q)
    BY <2>1, <2>3, <2>6
  <2> QED
    <3>1. \/ \A g \in Placed : disk'[g] = disk[g]
          \/ disk[Full] # None /\ Rename(Full, Old(w))
          \/ /\ disk[Temp(w)] # None
             /\ disk' = [disk EXCEPT ![Full] = disk[Temp(w)], ![Temp(w)] = None]
          \/ \E p \in Placed, q \in Paths : p # q /\ disk[p] # None /\ Rename(p, q)
      BY <1>5, FetchFiles
    <3> QED
      BY <2>2, <2>4, <2>5, <2>6, <3>1
<1>6. ASSUME NEW w \in Windows, RmOld(w)
      PROVE  run[w].pc = "clean" /\ run'[w].pc = "get"
  BY <1>0, <1>6 DEF RmOld, At, Goto, RunOK, Calls
<1>7. ASSUME NEW w \in Windows, Flushed(w)
      PROVE  \E g \in Placed : disk'[g] # None
  <2>1. disk'[f] # None
    <3>1. PICK g \in Files : disk[g] # None /\ disk' = [disk EXCEPT ![g].bytes = "whole"]
      BY <1>7 DEF Flushed
    <3>2. disk'[f] \in Binaries
      <4>1. disk[f] \in Binaries /\ f \in Files
        BY <1>0, <1>1 DEF DiskOK
      <4> QED
        BY <1>0, <3>1, <4>1 DEF DiskOK, Binaries
    <3> QED
      BY <3>2, FilesAssumption DEF FilesAssumption
  <2> QED
    BY <2>1
<1>8. ASSUME NEW w \in Windows, Die(w)
      PROVE  FALSE
  BY <1>0, <1>8 DEF Die, WorldOK, BinaryAssumption
<1>9. ASSUME NEW w \in Windows,
             \/ ResolveBinaryPath(w) \/ PollFails(w)
             \/ Suspend(w) \/ Resume(w) \/ Compromised(w)
      PROVE  UNCHANGED disk
  BY <1>9 DEF ResolveBinaryPath, PollFails, Suspend, Resume, Compromised
<1>10. CASE Upgrade
  BY <1>4, <1>10 DEF Upgrade
<1> QED
  BY <1>4, <1>5, <1>6, <1>7, <1>8, <1>9, <1>10 DEF Next

\* As long as no window stops halfway, no swap, failure or fallback of any
\* window leaves the machine without the binary it had.
THEOREM SwapKeepsABinary == Spec => SwapLosesNothing
<1>1. Inv /\ Inv' /\ [Next]_vars =>
        [faults' = 0 /\ Usable =>
           \/ Usable'
           \/ \E w \in Windows : run[w].pc = "clean" /\ run'[w].pc = "get"]_vars
  BY SwapSteps, BinaryAssumption
<1> QED
  BY <1>1, BinaryInvariant, PTL DEF Spec, SwapLosesNothing

-----------------------------------------------------------------------------
(* The refinement: what InstalledBinary sees of the state. *)

File == [p \in Paths |-> BuildOf(p)]
Pending == {w \in Windows : run[w].pc # "done"}
Vouched == {b \in AllBuilds : b.trust # "none"}

LEMMA Seen ==
  /\ Installed!Init <=> /\ verifies \in BOOLEAN
                        /\ File \in [Paths -> Vouched \cup {None}]
                        /\ Pending = {}
  /\ Installed!Next <=>
       \/ \E p \in Paths, b \in (IF verifies THEN Vouched ELSE AllBuilds) :
            File' = [File EXCEPT ![p] = b] /\ UNCHANGED <<verifies, Pending>>
       \/ \E p \in Paths :
            File[p] # None /\ File' = [File EXCEPT ![p] = None] /\ UNCHANGED <<verifies, Pending>>
       \/ \E p, q \in Paths :
            /\ File[p] # None /\ p # q
            /\ File' = [File EXCEPT ![p] = None, ![q] = File[p]]
            /\ UNCHANGED <<verifies, Pending>>
       \/ \E c \in Windows :
            \/ c \notin Pending /\ Pending' = Pending \cup {c} /\ UNCHANGED <<verifies, File>>
            \/ c \in Pending /\ Pending' = Pending \ {c} /\ UNCHANGED <<verifies, File>>
  /\ UNCHANGED Installed!abstractVars <=> UNCHANGED <<verifies, File, Pending>>
BY DEF Installed!Init, Installed!Next, Installed!Trusted, Installed!Install, Installed!SetAside,
       Installed!Move, Installed!Call, Installed!Answer, Installed!abstractVars, File, Pending,
       Vouched

\* A binary is seen as its build, which no writing of its last bytes changes.
LEMMA BuildsSeen ==
  ASSUME DiskOK, FilesAssumption, NEW f \in Files
  PROVE  /\ disk[f] = None <=> BuildOf(f) = None
         /\ disk[f] # None => BuildOf(f) \in AllBuilds /\ BuildOf(f).trust = disk[f].trust
<1>1. None \notin Binaries /\ None \notin AllBuilds
  BY DEF FilesAssumption
<1>2. ASSUME disk[f] # None
      PROVE  BuildOf(f) \in AllBuilds /\ BuildOf(f).trust = disk[f].trust
  BY <1>2 DEF DiskOK, Binaries, BuildOf, AllBuilds
<1>3. disk[f] = None => BuildOf(f) = None
  BY DEF BuildOf
<1> QED
  BY <1>1, <1>2, <1>3

\* Steps that leave a window's call open, or its end as it was.
LEMMA CallsSeen ==
  ASSUME RunOK, NEW w \in Windows
  PROVE  /\ \A a \in Results : Answers(w, a) /\ run[w].pc # "done" => UNCHANGED Pending
         /\ \A pc \in Pcs \ {"done"} :
              (Goto(w, pc) \/ Locked(w, pc)) /\ run[w].pc # "done" => UNCHANGED Pending
         /\ (Replace(w) \/ Abandon(w)) /\ run[w].pc # "done" => UNCHANGED Pending
         /\ \A a \in Results : Ends(w, a) => Pending' = Pending \ {w}
<1>1. ASSUME NEW a \in Results, Answers(w, a), run[w].pc # "done"
      PROVE  UNCHANGED Pending
  BY <1>1 DEF Pending, Answers, NotCalled, RunOK, Calls
<1>2. ASSUME NEW pc \in Pcs \ {"done"}, Goto(w, pc) \/ Locked(w, pc), run[w].pc # "done"
      PROVE  UNCHANGED Pending
  BY <1>2 DEF Pending, Goto, Locked, RunOK, Calls
<1>3. ASSUME Replace(w) \/ Abandon(w), run[w].pc # "done"
      PROVE  UNCHANGED Pending
  BY <1>3 DEF Pending, Replace, Abandon, RunOK, Calls
<1>4. ASSUME NEW a \in Results, Ends(w, a)
      PROVE  Pending' = Pending \ {w}
  BY <1>4 DEF Pending, Ends, NotCalled, RunOK, Calls
<1> QED
  BY <1>1, <1>2, <1>3, <1>4

\* What a fetch does to the files is one abstract step, or none.
LEMMA FilesSeen ==
  ASSUME Inv, FilesAssumption, UNCHANGED verifies, UNCHANGED Pending,
         NEW w \in Windows, Fetch(w)
  PROVE  [Installed!Next]_(Installed!abstractVars)
<1>0. DiskOK /\ RunOK /\ Paths \subseteq Files /\ Full \in Paths
  BY TypeParts, NamesAreFiles DEF Inv
<1>1. ASSUME \A p \in Paths : disk'[p] = disk[p]
      PROVE  UNCHANGED Installed!abstractVars
  BY <1>1, Seen DEF File, BuildOf
<1>2. CASE RmOld(w)
  BY <1>1, <1>2, NamesAreFiles DEF RmOld, Leftovers
<1>3. CASE \A f \in Placed : disk'[f] = disk[f]
  BY <1>1, <1>3 DEF Placed
<1>4. CASE disk[Full] # None /\ Rename(Full, Old(w))
  <2>1. \A p \in Paths : BuildOf(p)' = IF p = Full THEN None ELSE BuildOf(p)
    BY <1>0, <1>4, NamesDiffer, NamesAreFiles DEF Rename, BuildOf, DiskOK
  <2>2. File[Full] # None
    BY <1>0, <1>4, BuildsSeen DEF File
  <2>3. File' = [File EXCEPT ![Full] = None]
    BY <2>1 DEF File
  <2> QED
    BY <1>0, <2>2, <2>3, Seen
<1>5. CASE /\ disk[Temp(w)] # None
           /\ verifies => disk[Temp(w)].trust # "none"
           /\ disk' = [disk EXCEPT ![Full] = disk[Temp(w)], ![Temp(w)] = None]
  <2> DEFINE b == BuildOf(Temp(w))
  <2>1. \A p \in Paths : BuildOf(p)' = IF p = Full THEN b ELSE BuildOf(p)
    BY <1>0, <1>5, NamesDiffer, NamesAreFiles DEF BuildOf, DiskOK
  <2>2. b \in AllBuilds /\ b.trust = disk[Temp(w)].trust
    BY <1>0, <1>5, BuildsSeen, NamesAreFiles
  <2>3. b \in IF verifies THEN Vouched ELSE AllBuilds
    BY <1>5, <2>2 DEF Vouched
  <2>4. File' = [File EXCEPT ![Full] = b]
    BY <2>1 DEF File
  <2> HIDE DEF b
  <2> QED
    BY <1>0, <2>3, <2>4, Seen
<1>6. ASSUME NEW p \in Placed, NEW q \in Paths, p # q, disk[p] # None, Rename(p, q)
      PROVE  Installed!Next
  <2>1. p \in Files /\ q \in Files
    BY <1>0, NamesAreFiles DEF Placed
  <2>2. \A r \in Paths : BuildOf(r)' = IF r = q THEN BuildOf(p)
                                       ELSE IF r = p THEN None ELSE BuildOf(r)
    BY <1>0, <1>6, <2>1 DEF Rename, BuildOf, DiskOK
  <2>3. BuildOf(p) # None /\ BuildOf(p) \in AllBuilds /\ BuildOf(p).trust = disk[p].trust
    BY <1>0, <1>6, <2>1, BuildsSeen
  <2>4. CASE p \in Paths
    <3>1. File[p] # None /\ File' = [File EXCEPT ![p] = None, ![q] = File[p]]
      BY <1>6, <2>2, <2>3, <2>4 DEF File
    <3> QED
      BY <1>6, <2>4, <3>1, Seen
  <2>5. CASE p \notin Paths
    <3>1. File' = [File EXCEPT ![q] = BuildOf(p)]
      BY <2>2, <2>5 DEF File
    <3>2. verifies => VouchedFor(p)
      BY <2>5 DEF Placed, Inv, FileInv, UsedIsVouched
    <3>3. BuildOf(p) \in IF verifies THEN Vouched ELSE AllBuilds
      BY <1>6, <2>3, <3>2 DEF VouchedFor, Vouched
    <3> QED
      BY <3>1, <3>3, Seen
  <2> QED
    BY <2>4, <2>5
<1> QED
  BY <1>2, <1>3, <1>4, <1>5, <1>6, FetchFiles

\* A fetch that has an end answers; any other step of it leaves it pending.
LEMMA FetchSeen ==
  ASSUME Inv, FilesAssumption, UNCHANGED verifies, NEW w \in Windows, Fetch(w)
  PROVE  [Installed!Next]_(Installed!abstractVars)
<1>0. RunOK
  BY TypeParts DEF Inv
<1>1. run[w].pc # "done"
  BY DEF Fetch, At, GetBuildInfo, CheckResolvedBinary, AcquireLock, MonitorDownloadProgress,
         RecheckBuildInfo, RecheckBinaryAfterWait, RmOld, GetBinary, StreamEnds, VerifySignature,
         MoveExisting, MoveNew, ExecNew, RenameToFinalPath, TryCandidate, Use, Release
<1>2. CASE UNCHANGED disk /\ \E a \in Results : Ends(w, a)
  <2>1. w \in Pending /\ Pending' = Pending \ {w}
    BY <1>0, <1>1, <1>2, CallsSeen DEF Pending
  <2>2. UNCHANGED File
    BY <1>2 DEF File, BuildOf
  <2> QED
    BY <2>1, <2>2, Seen
<1>3. CASE UNCHANGED Pending
  BY <1>3, FilesSeen
<1>4. /\ {"path", "error", "declined", "nothing"} \subseteq Results
      /\ {"lock", "waiting", "recheck", "clean", "get", "stream", "signature", "exec", "rename",
          "moveNew", "fallback", "fallback2", "fallback3", "use", "ask"} \subseteq Pcs \ {"done"}
  BY DEF Results, Downloading, Pcs
<1>5. CASE GetBuildInfo(w) \/ RecheckBuildInfo(w)
  <2>1. CASE run' = [run EXCEPT ![w].pc = "check", ![w].first = server, ![w].latest = server]
    <3>1. UNCHANGED Pending
      BY <1>0, <1>1, <2>1 DEF Pending, RunOK, Calls
    <3> QED
      BY <1>3, <3>1
  <2>2. CASE run' = [run EXCEPT ![w].pc = "recheckVersion", ![w].latest = server]
    <3>1. UNCHANGED Pending
      BY <1>0, <1>1, <2>2 DEF Pending, RunOK, Calls
    <3> QED
      BY <1>3, <3>1
  <2>3. CASE Goto(w, "fallback")
    BY <1>0, <1>1, <1>3, <1>4, <2>3, CallsSeen
  <2> QED
    BY <1>2, <1>4, <1>5, <2>1, <2>2, <2>3 DEF GetBuildInfo, RecheckBuildInfo, Fails
<1>6. CASE CheckResolvedBinary(w) \/ Release(w)
  <2>1. Goto(w, "lock") \/ \E a \in Results : Ends(w, a)
    BY <1>0, <1>4, <1>6 DEF CheckResolvedBinary, Fails, Release, RunOK, Calls
  <2>2. UNCHANGED disk
    BY <1>6 DEF CheckResolvedBinary, Release
  <2>3. Goto(w, "lock") => UNCHANGED Pending
    BY <1>0, <1>1, <1>4, CallsSeen
  <2> QED
    BY <1>2, <1>3, <2>1, <2>2, <2>3
<1>7. CASE \/ AcquireLock(w) \/ MonitorDownloadProgress(w) \/ RecheckBinaryAfterWait(w)
           \/ ExecNew(w) \/ RmOld(w) \/ GetBinary(w) \/ StreamEnds(w) \/ MoveExisting(w)
           \/ MoveNew(w)
  <2>1. \/ \E pc \in {"waiting", "recheck", "clean", "get", "stream", "signature", "moveNew",
                      "exec", "rename", "fallback"} : Goto(w, pc) \/ Locked(w, pc)
        \/ Replace(w) \/ Abandon(w)
    BY <1>7 DEF AcquireLock, MonitorDownloadProgress, RecheckBinaryAfterWait, ExecNew, RmOld,
       GetBinary, StreamEnds, MoveExisting, MoveNew
  <2>2. UNCHANGED Pending
    BY <1>0, <1>1, <1>4, <2>1, CallsSeen
  <2> QED
    BY <1>3, <2>2
<1>8. CASE VerifySignature(w)
  <2>1. CASE run' = [run EXCEPT ![w].source = 2]
    <3>1. UNCHANGED Pending
      BY <1>0, <2>1 DEF Pending, RunOK, Calls
    <3> QED
      BY <1>3, <3>1
  <2>2. CASE Replace(w) \/ Abandon(w)
    BY <1>0, <1>1, <1>3, <2>2, CallsSeen
  <2> QED
    BY <1>8, <2>1, <2>2 DEF VerifySignature
<1>9. CASE \/ RenameToFinalPath(w) \/ Use(w)
           \/ \E step \in {"fallback", "fallback2", "fallback3"} : TryCandidate(w, step)
  <2>1. \/ \E a \in Results : Answers(w, a)
        \/ \E pc \in {"fallback", "fallback2", "fallback3"} : Goto(w, pc)
        \/ \E f : Chosen(w, f)
    BY <1>4, <1>9 DEF RenameToFinalPath, TryCandidate, Use, NextStep
  <2>2. ASSUME NEW f, Chosen(w, f)
        PROVE  UNCHANGED Pending
    BY <1>0, <1>1, <2>2 DEF Chosen, Pending, RunOK, Calls
  <2>3. UNCHANGED Pending
    BY <1>0, <1>1, <1>4, <2>1, <2>2, CallsSeen
  <2> QED
    BY <1>3, <2>3
<1> QED
  BY <1>5, <1>6, <1>7, <1>8, <1>9 DEF Fetch

LEMMA InstalledInit == ASSUME FilesAssumption, BinaryAssumption, Init PROVE Installed!Init
<1>1. DiskOK
  BY InvInit, TypeParts DEF Inv
<1>2. \A p \in Paths : disk[p] \in {Before, None}
  BY NamesAreFiles DEF Init, Disks
<1>3. ASSUME NEW p \in Paths
      PROVE  BuildOf(p) \in Vouched \cup {None}
  <2>1. CASE disk[p] = None
    BY <2>1 DEF BuildOf
  <2>2. CASE disk[p] # None
    <3>1. BuildOf(p) \in AllBuilds /\ BuildOf(p).trust = disk[p].trust
      BY <1>1, <2>2, BuildsSeen, NamesAreFiles
    <3>2. disk[p] = Before
      BY <1>2, <2>2
    <3>3. BuildOf(p).trust # "none"
      BY <3>1, <3>2 DEF Before
    <3> QED
      BY <3>1, <3>3 DEF Vouched
  <2> QED
    BY <2>1, <2>2
<1>4. File \in [Paths -> Vouched \cup {None}]
  BY <1>3 DEF File
<1>5. verifies \in BOOLEAN /\ Pending = {}
  BY DEF Init, NotCalled, Pending
<1> QED
  BY <1>4, <1>5, Seen

LEMMA InstalledNext ==
  ASSUME FilesAssumption, Inv, [Next]_vars
  PROVE  [Installed!Next]_(Installed!abstractVars)
<1>0. DiskOK /\ RunOK /\ Paths \subseteq Files
  BY TypeParts, NamesAreFiles DEF Inv
<1>1. UNCHANGED verifies
  BY SettingsStay DEF settings
<1>2. ASSUME \A f \in Files : BuildOf(f)' = BuildOf(f)
      PROVE  UNCHANGED File
  BY <1>0, <1>2 DEF File
<1>3. CASE UNCHANGED vars \/ Upgrade
  BY <1>1, <1>3, Seen DEF vars, Upgrade, File, BuildOf, Pending
<1>4. ASSUME NEW w \in Windows, Fetch(w)
      PROVE  [Installed!Next]_(Installed!abstractVars)
  BY <1>1, <1>4, FetchSeen
<1>5. ASSUME NEW w \in Windows, ResolveBinaryPath(w)
      PROVE  Installed!Next
  <2>1. w \notin Pending /\ Pending' = Pending \cup {w}
    BY <1>0, <1>5 DEF ResolveBinaryPath, At, NotCalled, Pending, RunOK, Calls
  <2>2. UNCHANGED File
    BY <1>5 DEF ResolveBinaryPath, File, BuildOf
  <2> QED
    BY <1>1, <2>1, <2>2, Seen
<1>6. ASSUME NEW w \in Windows, Flushed(w)
      PROVE  UNCHANGED Installed!abstractVars
  <2>1. \A f \in Files : disk'[f] # None <=> disk[f] # None
    <3>1. disk' \in [Files -> Binaries \cup {None}]
      <4>1. PICK g \in Files : disk[g] # None /\ disk' = [disk EXCEPT ![g].bytes = "whole"]
        BY <1>6 DEF Flushed
      <4>2. [disk[g] EXCEPT !.bytes = "whole"] \in Binaries
        BY <1>0, <4>1 DEF DiskOK, Binaries
      <4> QED
        BY <1>0, <4>1, <4>2 DEF DiskOK
    <3>2. PICK g \in Files : disk[g] # None /\ disk' = [disk EXCEPT ![g].bytes = "whole"]
      BY <1>6 DEF Flushed
    <3>3. [disk[g] EXCEPT !.bytes = "whole"] # None
      <4>1. [disk[g] EXCEPT !.bytes = "whole"] \in Binaries
        BY <1>0, <3>2 DEF DiskOK, Binaries
      <4> QED
        BY <4>1 DEF FilesAssumption
    <3> QED
      BY <1>0, <3>2, <3>3 DEF DiskOK
  <2>2. \A f \in Files : disk[f] # None =>
          disk'[f].version = disk[f].version /\ disk'[f].trust = disk[f].trust
    BY <1>0, <1>6 DEF Flushed, DiskOK, Binaries
  <2>3. UNCHANGED File
    BY <1>2, <2>1, <2>2 DEF BuildOf
  <2> QED
    BY <1>1, <1>6, <2>3, Seen DEF Flushed, Pending
<1>7. ASSUME NEW w \in Windows, Die(w)
      PROVE  UNCHANGED Installed!abstractVars
  <2>1. \A f \in Files : disk[f] # None => [disk[f] EXCEPT !.bytes = "part"] \in Binaries
    BY <1>0 DEF DiskOK, Binaries
  <2>2. \A f \in Files : disk'[f] # None <=> disk[f] # None
    BY <1>7, <2>1 DEF Die, FilesAssumption
  <2>3. \A f \in Files : disk[f] # None =>
          disk'[f].version = disk[f].version /\ disk'[f].trust = disk[f].trust
    BY <1>0, <1>7 DEF Die, DiskOK, Binaries
  <2>4. UNCHANGED File
    BY <1>2, <2>2, <2>3 DEF BuildOf
  <2> QED
    BY <1>1, <1>7, <2>4, Seen DEF Die, Pending
<1>8. ASSUME NEW w \in Windows, Suspend(w) \/ Resume(w) \/ Compromised(w)
      PROVE  UNCHANGED Installed!abstractVars
  <2>1. UNCHANGED disk
    BY <1>8 DEF Suspend, Resume, Compromised
  <2>2. UNCHANGED Pending
    <3>1. ASSUME run' = [run EXCEPT ![w].lost = TRUE]
          PROVE  UNCHANGED Pending
      BY <1>0, <3>1 DEF Pending, RunOK, Calls
    <3>2. UNCHANGED run => UNCHANGED Pending
      BY DEF Pending
    <3> QED
      BY <1>8, <3>1, <3>2 DEF Suspend, Resume, Compromised
  <2>3. UNCHANGED File
    BY <2>1 DEF File, BuildOf
  <2> QED
    BY <1>1, <2>2, <2>3, Seen
<1>9. ASSUME NEW w \in Windows, PollFails(w)
      PROVE  UNCHANGED Installed!abstractVars
  <2>1. "fallback" \in Pcs \ {"done"} /\ run[w].pc # "done"
    BY <1>9 DEF PollFails, At, Pcs, Downloading
  <2>2. UNCHANGED Pending
    BY <1>0, <1>9, <2>1, CallsSeen DEF PollFails
  <2>3. UNCHANGED File
    BY <1>9 DEF PollFails, File, BuildOf
  <2> QED
    BY <1>1, <2>2, <2>3, Seen
<1> QED
  BY <1>3, <1>4, <1>5, <1>6, <1>7, <1>8, <1>9 DEF Next

\* Whoever downloads, waits, falls back or dies: every step of every window is a
\* step of the abstract installation, or none of its business.
THEOREM InstallsAsPromised == Spec => ImplementsInstalledBinary
<1>1. Init => Installed!Init
  BY InstalledInit, FilesAssumption, BinaryAssumption
<1>2. Inv /\ [Next]_vars => [Installed!Next]_(Installed!abstractVars)
  BY InstalledNext, FilesAssumption
<1> QED
  BY <1>1, <1>2, BinaryInvariant, PTL DEF Spec, ImplementsInstalledBinary, Installed!Spec
=============================================================================
