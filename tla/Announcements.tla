---------------------------- MODULE Announcements ----------------------------
(* AnnouncementManager (announcements/manager.ts): the banners of the          *)
(* deployment in use, fetched on sign-in, every half hour and by command.      *)
EXTENDS Naturals, FiniteSets

CONSTANTS Sites, NoSite,   \* deployments; each announces one banner, or none
          Refreshes        \* slots for calls of refresh() under way

ASSUME SitesAssumption == NoSite \notin Sites /\ IsFiniteSet(Refreshes)

VARIABLES anSession,   \* the deployment the window is signed in to
          anNews,      \* the deployments that announce their banner
          anBanners,   \* #banners: the deployment whose banner is shown
          anSurfaced,  \* the mementos: <<s, b>> when b's banner is surfaced for s
          anRefresh,   \* each call of refresh() at the await of its fetch
          anTimer,     \* refreshTimeout is set
          anTimers,    \* timeouts armed in the runtime
          anQuiet,     \* notifications are disabled
          anDisposed

anVars == <<anSession, anNews, anBanners, anSurfaced, anRefresh, anTimer, anTimers,
            anQuiet, anDisposed>>

\* kind: who asked; site: the deployment asked; current: no newer fetch began and
\* the session is the same
NoRefresh == [kind |-> "none", site |-> NoSite, current |-> FALSE]
Busy == {r \in Refreshes : anRefresh[r] # NoRefresh}
Manual == {r \in Refreshes : anRefresh[r].kind = "manual"}

AnnouncementsTypeOK ==
  /\ anSession \in Sites \union {NoSite} /\ anBanners \in Sites \union {NoSite}
  /\ anNews \subseteq Sites /\ anSurfaced \subseteq Sites \X Sites
  /\ anRefresh \in [Refreshes -> [kind: {"none", "notify", "manual"},
                                  site: Sites \union {NoSite}, current: BOOLEAN]]
  /\ anTimer \in BOOLEAN /\ anTimers \in 0 .. Cardinality(Refreshes) + 1
  /\ anQuiet \in BOOLEAN /\ anDisposed \in BOOLEAN

AnInit ==
  /\ anSession = NoSite /\ anBanners = NoSite
  /\ anNews = {} /\ anSurfaced = {}
  /\ anRefresh = [r \in Refreshes |-> NoRefresh]
  /\ anTimer = FALSE /\ anTimers = 0
  /\ anQuiet = FALSE /\ anDisposed = FALSE

CancelRefresh ==
  /\ anTimer' = FALSE
  /\ anTimers' = IF anTimer THEN anTimers - 1 ELSE anTimers

\* Mutant: only a banner that is shown is looked at again.
ArmsWhileShown == ~anDisposed /\ anBanners # NoSite /\ ~anTimer

MayArm == ~anDisposed /\ anSession # NoSite /\ ~anTimer

\* scheduleRefresh, in the finally of refresh()
ScheduleRefresh ==
  /\ anTimer' = (anTimer \/ MayArm)
  /\ anTimers' = IF MayArm THEN anTimers + 1 ELSE anTimers

\* refresh() up to the fetch; its generation ends that of the calls before it
Begin(r, kind, s) ==
  anRefresh' = [i \in Refreshes |->
    IF i = r THEN [kind |-> kind, site |-> s, current |-> TRUE]
    ELSE [anRefresh[i] EXCEPT !.current = FALSE]]

AddSurfacedBanners(s, b) == anSurfaced \union {<<s, b>>}

\* markSurfaced: for the session of this moment; the memento may fail
Surface(b) == anSurfaced' \in {anSurfaced, AddSurfacedBanners(anSession, b)}

\* onSessionChange, also for a new session at the same deployment; banners stay shown until a fetch confirms them
SessionChanges(s) ==
  /\ ~anDisposed
  /\ anSession' = s
  /\ CancelRefresh
  /\ IF s = NoSite
     THEN /\ anBanners' = NoSite
          /\ anRefresh' = [r \in Refreshes |-> [anRefresh[r] EXCEPT !.current = FALSE]]
     ELSE /\ UNCHANGED anBanners
          /\ \E r \in Refreshes \ Busy : Begin(r, "notify", s)
  /\ UNCHANGED <<anNews, anSurfaced, anQuiet, anDisposed>>

TimerFires ==
  /\ anTimers > 0
  /\ anTimers' = anTimers - 1 /\ anTimer' = FALSE
  /\ \E r \in Refreshes \ Busy : Begin(r, "notify", anSession)
  /\ UNCHANGED <<anSession, anNews, anBanners, anSurfaced, anQuiet, anDisposed>>

\* showAnnouncements: one at a time; without a session the fetch ends at once
ShowAnnouncements ==
  /\ ~anDisposed /\ Manual = {}
  /\ CancelRefresh
  /\ IF anSession = NoSite
     THEN anBanners' = NoSite /\ UNCHANGED anRefresh
     ELSE UNCHANGED anBanners /\ \E r \in Refreshes \ Busy : Begin(r, "manual", anSession)
  /\ UNCHANGED <<anSession, anNews, anSurfaced, anQuiet, anDisposed>>

\* Mutant: the answer is applied although the session changed.
AppliesAnyway(r) == ~anDisposed

\* fetch: a newer fetch or a session change supersedes the response
Applies(r) == ~anDisposed /\ anRefresh[r].current

Announced(s) == IF s \in anNews THEN s ELSE NoSite

\* a manual refresh then shows the preview, which surfaces what is shown
FetchAnswers(r) ==
  LET shown == IF Applies(r) THEN Announced(anRefresh[r].site) ELSE anBanners
      popsUp == Applies(r) /\ shown # NoSite /\ <<anSession, shown>> \notin anSurfaced
                /\ anRefresh[r].kind = "notify" /\ ~anQuiet
      previews == anRefresh[r].kind = "manual" /\ shown # NoSite /\ anSession # NoSite
  IN /\ anRefresh[r] # NoRefresh
     /\ anBanners' = shown
     /\ IF popsUp \/ previews THEN Surface(shown) ELSE UNCHANGED anSurfaced
     /\ anRefresh' = [anRefresh EXCEPT ![r] = NoRefresh]
     /\ ScheduleRefresh
     /\ UNCHANGED <<anSession, anNews, anQuiet, anDisposed>>

\* a manual refresh that failed still shows the preview of what is there
FetchFails(r) ==
  /\ anRefresh[r] # NoRefresh
  /\ IF anRefresh[r].kind = "manual" /\ anBanners # NoSite /\ anSession # NoSite
     THEN Surface(anBanners) ELSE UNCHANGED anSurfaced
  /\ anRefresh' = [anRefresh EXCEPT ![r] = NoRefresh]
  /\ ScheduleRefresh
  /\ UNCHANGED <<anSession, anNews, anBanners, anQuiet, anDisposed>>

\* "View" of a popup, whenever the user gets to it
ViewPopup ==
  /\ ~anDisposed /\ anBanners # NoSite /\ anSession # NoSite
  /\ Surface(anBanners)
  /\ UNCHANGED <<anSession, anNews, anBanners, anRefresh, anTimer, anTimers, anQuiet, anDisposed>>

AnDispose ==
  /\ ~anDisposed /\ anDisposed' = TRUE
  /\ CancelRefresh
  /\ anBanners' = NoSite
  /\ UNCHANGED <<anSession, anNews, anSurfaced, anRefresh, anQuiet>>

\* administrators announce and withdraw; the user changes the setting
NewsChange(s) ==
  /\ anNews' = IF s \in anNews THEN anNews \ {s} ELSE anNews \union {s}
  /\ UNCHANGED <<anSession, anBanners, anSurfaced, anRefresh, anTimer, anTimers, anQuiet, anDisposed>>

SettingChanges ==
  /\ anQuiet' = ~anQuiet
  /\ UNCHANGED <<anSession, anNews, anBanners, anSurfaced, anRefresh, anTimer, anTimers, anDisposed>>

AnNext ==
  \/ \E s \in Sites \union {NoSite} : SessionChanges(s)
  \/ \E r \in Refreshes : FetchAnswers(r) \/ FetchFails(r)
  \/ \E s \in Sites : NewsChange(s)
  \/ TimerFires \/ ShowAnnouncements \/ ViewPopup \/ AnDispose \/ SettingChanges

\* Requests end, timers fire, and a server that is asked for ever answers, and
\* the memento is written, some time.
AnWorks == TimerFires \/ \E r \in Refreshes : FetchAnswers(r) \/ FetchFails(r)
AnSurfaces == (\E r \in Refreshes : FetchAnswers(r)) /\ anSurfaced' # anSurfaced

-----------------------------------------------------------------------------
(* While a user is signed in the next fetch is always under way or scheduled,  *)
(* by the one timer whose handle is kept, whichever fetches failed, overtook   *)
(* each other or were overtaken by a session; nothing is shown without one.    *)
AnnouncementsGoOn ==
  /\ anTimers = (IF anTimer THEN 1 ELSE 0)
  /\ anSession # NoSite /\ ~anDisposed => anTimer \/ Busy # {}
  /\ anSession = NoSite \/ anDisposed => anBanners = NoSite

(* A banner that stays announced to a user who stays signed in is surfaced     *)
(* in the end, although manual refreshes overtake those that notify.           *)
NewsIsSurfaced ==
  \A s \in Sites : <>[](anSession = s /\ s \in anNews /\ ~anQuiet)
                   => <>(<<s, s>> \in anSurfaced \/ anDisposed)
=============================================================================
