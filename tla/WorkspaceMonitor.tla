-------------------------- MODULE WorkspaceMonitor --------------------------
(* WorkspaceMonitor (workspace/workspaceMonitor.ts): what the user of a        *)
(* connected window is told of the workspace, once for each cause. Its stream  *)
(* reports the states of the workspace, and a state again when it reconnects.  *)
EXTENDS Naturals

VARIABLES wmSeen,      \* latestWorkspace
          wmMonitor,   \* creating: watchWorkspace is awaited; live; disposed
          wmSetup,     \* completedInitialSetup
          wmMuted,     \* which notifications are disabled
          wmNotified,  \* the causes whose flag is set
          wmShown,     \* how often the message of each cause appeared
          wmFetches,   \* fetches of the new template version for its message
          wmFailed,    \* history: such a fetch failed
          wmHeard      \* history: the causes that were not muted when the
                       \* latest state was judged, as it is now

wmVars == <<wmSeen, wmMonitor, wmSetup, wmMuted, wmNotified, wmShown,
            wmFetches, wmFailed, wmHeard>>

Causes == {"autostop", "deletion", "outdated", "notRunning"}

\* what the notifications depend on; ends: the deadline is within half an hour,
\* deleting: the deletion is within a day
Workspaces == [status: {"running", "other"}, ends: BOOLEAN,
               deleting: BOOLEAN, outdated: BOOLEAN]

MonitorTypeOK ==
  /\ wmSeen \in Workspaces
  /\ wmMonitor \in {"creating", "live", "disposed"}
  /\ wmSetup \in BOOLEAN /\ wmFetches \in Nat /\ wmFailed \in BOOLEAN
  /\ wmMuted \in {"none", "updates", "all"}
  /\ wmNotified \subseteq Causes /\ wmHeard \subseteq Causes
  /\ wmShown \in [Causes -> Nat]

WmInit ==
  /\ wmSeen = [status |-> "running", ends |-> FALSE, deleting |-> FALSE, outdated |-> FALSE]
  /\ wmMonitor = "creating" /\ wmSetup = FALSE
  /\ wmMuted = "none" /\ wmNotified = {} /\ wmShown = [c \in Causes |-> 0]
  /\ wmFetches = 0 /\ wmFailed = FALSE /\ wmHeard = {}

\* create: the state it was given is not judged
MonitorCreated ==
  /\ wmMonitor = "creating" /\ wmMonitor' = "live"
  /\ wmSeen' \in Workspaces
  /\ UNCHANGED <<wmSetup, wmMuted, wmNotified, wmShown, wmFetches, wmFailed, wmHeard>>

\* what a state calls for
CallsFor(w) ==
  {c \in Causes : \/ c = "autostop" /\ w.status = "running" /\ w.ends
                  \/ c = "outdated" /\ w.outdated
                  \/ c = "deletion" /\ w.deleting
                  \/ c = "notRunning" /\ w.status # "running"}

\* areNotificationsDisabled, areUpdateNotificationsDisabled
Heard == CASE wmMuted = "none" -> Causes
           [] wmMuted = "updates" -> Causes \ {"outdated"}
           [] wmMuted = "all" -> {}

\* the conditions of maybeNotifyAutostop, -Outdated, -Deletion and -NotRunning
Due(w, setup) ==
  {c \in CallsFor(w) \intersect Heard : (c = "autostop" \/ setup) /\ c \notin wmNotified}

\* Mutant: the update is flagged only by the message, which is fetched first.
FlagsLate(w, setup) ==
  /\ wmNotified' = wmNotified \union (Due(w, setup) \ {"outdated"})
  /\ wmShown' = [c \in Causes |-> IF c \in Due(w, setup) \ {"outdated"} THEN wmShown[c] + 1
                                                                        ELSE wmShown[c]]
  /\ wmFetches' = IF "outdated" \in Due(w, setup) THEN wmFetches + 1 ELSE wmFetches
  /\ wmHeard' = Heard

\* maybeNotify; the message of an outdated workspace waits for its template
MaybeNotify(w, setup) ==
  /\ wmNotified' = wmNotified \union Due(w, setup)
  /\ wmShown' = [c \in Causes |-> IF c \in Due(w, setup) \ {"outdated"} THEN wmShown[c] + 1
                                                                        ELSE wmShown[c]]
  /\ wmFetches' = IF "outdated" \in Due(w, setup) THEN wmFetches + 1 ELSE wmFetches
  /\ wmHeard' = Heard

\* the message listener: update, maybeNotify
Message(w) ==
  /\ wmMonitor = "live"
  /\ wmSeen' = w
  /\ MaybeNotify(w, wmSetup)
  /\ UNCHANGED <<wmMonitor, wmSetup, wmMuted, wmFailed>>

MarkInitialSetupComplete ==
  /\ wmMonitor = "live" /\ ~wmSetup
  /\ wmSetup' = TRUE
  /\ MaybeNotify(wmSeen, TRUE)
  /\ UNCHANGED <<wmSeen, wmMonitor, wmMuted, wmFailed>>

\* the template and its version are there, or could not be fetched
TemplateFetched ==
  /\ wmFetches > 0 /\ wmFetches' = wmFetches - 1
  /\ \/ wmShown' = [wmShown EXCEPT !["outdated"] = @ + 1] /\ UNCHANGED wmFailed
     \/ wmFailed' = TRUE /\ UNCHANGED wmShown
  /\ UNCHANGED <<wmSeen, wmMonitor, wmSetup, wmMuted, wmNotified, wmHeard>>

\* a deadline comes near, or is over: isImpending looks only when it is asked
TimePasses ==
  /\ \E ends, deleting \in BOOLEAN :
       wmSeen' = [wmSeen EXCEPT !.ends = ends, !.deleting = deleting]
  /\ wmHeard' = wmHeard \ {"autostop", "deletion"}
  /\ UNCHANGED <<wmMonitor, wmSetup, wmMuted, wmNotified, wmShown, wmFetches, wmFailed>>

WmDispose ==
  /\ wmMonitor = "live" /\ wmMonitor' = "disposed"
  /\ UNCHANGED <<wmSeen, wmSetup, wmMuted, wmNotified, wmShown, wmFetches, wmFailed, wmHeard>>

NotificationsChange(muted) ==
  /\ muted # wmMuted /\ wmMuted' = muted
  /\ UNCHANGED <<wmSeen, wmMonitor, wmSetup, wmNotified, wmShown, wmFetches, wmFailed, wmHeard>>

WmNext ==
  \/ MonitorCreated \/ MarkInitialSetupComplete \/ TemplateFetched \/ TimePasses \/ WmDispose
  \/ \E w \in Workspaces : Message(w)
  \/ \E muted \in {"none", "updates", "all"} : NotificationsChange(muted)

-----------------------------------------------------------------------------
\* A cause is told by its message; that of an update may still be fetched, and
\* is lost for good when its template cannot be fetched.
Told(c) ==
  \/ wmShown[c] = 1
  \/ c = "outdated" /\ (wmFetches = 1 \/ wmFailed)

(* The user is told once. Every message appears at most once, counting the one *)
(* whose template is being fetched, however often a state is reported and the  *)
(* settings change; only that of the autostop appears during the set-up; and   *)
(* what the latest state calls for has been told once the set-up is complete,  *)
(* in whichever order they came, unless the cause was muted when the state was *)
(* judged or a deadline came near since.                                       *)
ToldOnce ==
  /\ \A c \in Causes : wmShown[c] + (IF c = "outdated" THEN wmFetches ELSE 0) <= 1
  /\ ~wmSetup => \A c \in Causes \ {"autostop"} : wmShown[c] = 0
  /\ \A c \in CallsFor(wmSeen) \intersect wmHeard : (c = "autostop" \/ wmSetup) => Told(c)
=============================================================================
