---------------------- MODULE DeploymentSessionProofs ----------------------
(***************************************************************************)
(* For any deployments, tokens and number of calls: the client, the        *)
(* listener and the recovery flag of a window agree with the session it    *)
(* shows.  Inv strengthens what the runs check by what a call suspended at *)
(* an await still knows of the session it read before.                     *)
(***************************************************************************)
EXTENDS DeploymentSession, FiniteSetTheorems, TLAPS

Op0 == [kind : OpKinds, host : Hosts, token : Tokens \cup {None},
        recovers : BOOLEAN, moved : BOOLEAN]

\* A token travels with its host, what updates or logs in has one, and only a
\* verification is a recovery pass.
WellFormed(o) ==
  /\ o \in Op0
  /\ o.token # None => o.token.host = o.host
  /\ o.kind \in {"update", "login"} => o.token # None
  /\ o.recovers => o.kind \in {"lookup", "verify", "settle"}

\* An update or a settle that no transition overtook still has the session it
\* started from.
KnowsItsSession(o) ==
  o.kind \in {"update", "settle"} /\ ~o.moved =>
    isAuthenticated /\ session.host = o.host

CallsKnow == \A o \in ops : WellFormed(o) /\ KnowsItsSession(o)

\* The storage keeps a token under the host it is for.
StoredByHost == \A h \in Hosts : auth[h] # None => auth[h].host = h

\* The recovery flag without the count: it says whether a pass is in flight,
\* and no two are.
AtMostOne(calls) == \A o, p \in calls : o.recovers /\ p.recovers => o = p
SomeRecovers(calls) == \E o \in calls : o.recovers

RecoveryIsOne ==
  /\ AtMostOne(ops)
  /\ recoveryRunning <=> SomeRecovers(ops)
  /\ recoveryPending => recoveryRunning

Inv ==
  /\ TypeOK
  /\ StoredByHost
  /\ CallsKnow
  /\ ClientMatchesSession
  /\ ListenerMatchesSession
  /\ RecoveryIsOne

\* The invariant by what each action can disturb.
Stored ==
  /\ auth \in [Hosts -> Tokens \cup {None}]
  /\ current \in Hosts \cup {None}
  /\ authEvents \subseteq Hosts
  /\ currentEvent \in BOOLEAN
  /\ StoredByHost

Shown ==
  /\ session \in [kind : {"signedOut", "signedIn"}, host : Hosts \cup {None},
                  user : Users \cup {None}]
  /\ client \in [host : Hosts \cup {None}, token : Tokens \cup {None}]
  /\ listener \in Hosts \cup {None}
  /\ ClientMatchesSession
  /\ ListenerMatchesSession

Flags ==
  /\ disposed \in BOOLEAN
  /\ recoveryRunning \in BOOLEAN /\ recoveryPending \in BOOLEAN

LEMMA InvParts == Inv <=> Stored /\ Shown /\ Flags /\ CallsKnow /\ RecoveryIsOne
  BY DEF Inv, Stored, Shown, Flags, CallsKnow, WellFormed, Op0, TypeOK

LEMMA InvPartsNext ==
  Inv' <=> Stored' /\ Shown' /\ Flags' /\ CallsKnow' /\ RecoveryIsOne'
  BY DEF Inv, Stored, Shown, Flags, CallsKnow, WellFormed, Op0, TypeOK

\* What the assumptions on the constants give every proof.
LEMMA Constants ==
  /\ \A t \in Tokens : t.host \in Hosts /\ t.user \in Users /\ t # None
  /\ None \notin Hosts
  BY TokensAssumption DEF TokensAssumption, Users

-----------------------------------------------------------------------------
\* A call that begins is well formed when its token is for its host.
LEMMA NewCall ==
  ASSUME NEW kind \in OpKinds, NEW h \in Hosts, NEW t \in Tokens \cup {None},
         t # None => t.host = h, kind \in {"update", "login"} => t # None
  PROVE  /\ WellFormed(Op(kind, h, t, FALSE)) /\ ~Op(kind, h, t, FALSE).recovers
         /\ Op(kind, h, t, FALSE).kind = kind /\ Op(kind, h, t, FALSE).host = h
  <1> DEFINE p == Op(kind, h, t, FALSE)
  <1>1. /\ p \in Op0 /\ ~p.recovers
        /\ p.kind = kind /\ p.host = h /\ p.token = t
    BY DEF Op, Op0
  <1> HIDE DEF p
  <1>2. WellFormed(p)
    BY <1>1 DEF WellFormed
  <1> QED
    BY <1>1, <1>2 DEF p

\* A transition tells every call that compares the session, and changes
\* nothing else of it.
LEMMA MovedCalls ==
  ASSUME NEW calls, \A o \in calls : WellFormed(o)
  PROVE  \A p \in Moved(calls) : WellFormed(p) /\ (p.kind \in Calls => p.moved)
  <1> SUFFICES ASSUME NEW p \in Moved(calls)
               PROVE  WellFormed(p) /\ (p.kind \in Calls => p.moved)
    OBVIOUS
  <1>1. PICK o \in calls : p = IF o.kind \in Calls THEN [o EXCEPT !.moved = TRUE] ELSE o
    BY DEF Moved
  <1>2. CASE o.kind \notin Calls
    BY <1>1, <1>2
  <1>3. CASE o.kind \in Calls
    <2>1. o \in Op0 /\ p = [o EXCEPT !.moved = TRUE]
      BY <1>1, <1>3 DEF WellFormed
    <2>2. /\ p \in Op0 /\ p.moved
          /\ p.kind = o.kind /\ p.host = o.host /\ p.token = o.token
          /\ p.recovers = o.recovers
      BY <2>1 DEF Op0
    <2> QED
      BY <2>2 DEF WellFormed
  <1> QED
    BY <1>2, <1>3

\* A transition keeps the recovery passes there are.
LEMMA MovedRecovers ==
  ASSUME NEW calls, \A o \in calls : WellFormed(o)
  PROVE  /\ AtMostOne(calls) => AtMostOne(Moved(calls))
         /\ SomeRecovers(Moved(calls)) <=> SomeRecovers(calls)
  <1> DEFINE Told(o) == IF o.kind \in Calls THEN [o EXCEPT !.moved = TRUE] ELSE o
  <1>1. \A o \in calls : Told(o).recovers = o.recovers
    BY DEF WellFormed, Op0
  <1>2. Moved(calls) = {Told(o) : o \in calls}
    BY DEF Moved
  <1> HIDE DEF Told
  <1> QED
    BY <1>1, <1>2 DEF AtMostOne, SomeRecovers

\* A call that ends is one recovery pass less if it was one.
LEMMA RestRecovers ==
  ASSUME NEW calls, NEW o \in calls, AtMostOne(calls)
  PROVE  /\ AtMostOne(calls \ {o})
         /\ o.recovers => ~SomeRecovers(calls \ {o})
         /\ ~o.recovers => (SomeRecovers(calls \ {o}) <=> SomeRecovers(calls))
  BY DEF AtMostOne, SomeRecovers

\* A call that begins is one more, which is the only one if it is a pass.
LEMMA AddRecovers ==
  ASSUME NEW calls, NEW p, AtMostOne(calls), p.recovers => ~SomeRecovers(calls)
  PROVE  /\ AtMostOne(calls \cup {p})
         /\ SomeRecovers(calls \cup {p}) <=> SomeRecovers(calls) \/ p.recovers
  BY DEF AtMostOne, SomeRecovers

\* With the session unchanged, only the calls that begin have to be looked at.
LEMMA CallsKept ==
  ASSUME CallsKnow, UNCHANGED session,
         \A p \in ops' : p \in ops \/ (WellFormed(p) /\ KnowsItsSession(p))
  PROVE  CallsKnow'
  BY DEF CallsKnow, KnowsItsSession, isAuthenticated

\* setDeployment() shows one deployment in session, client and listener, and
\* its own settle is the one call that knows that session.
LEMMA SetDeploymentKeeps ==
  ASSUME Inv, NEW o \in ops, NEW t \in Tokens, NEW r \in BOOLEAN,
         SetDeployment(t, ops \ {o}, r)
  PROVE  /\ Shown' /\ CallsKnow'
         /\ (r <=> o.recovers) /\ UNCHANGED recovery => RecoveryIsOne'
  <1> DEFINE settle == Op("settle", t.host, None, r)
  <1>1. /\ settle \in Op0 /\ settle.kind = "settle" /\ settle.host = t.host
        /\ settle.token = None /\ settle.recovers = r
    <2>1. "settle" \in OpKinds /\ t.host \in Hosts
      BY Constants DEF OpKinds, Calls
    <2> QED
      BY <2>1 DEF Op, Op0
  <1> HIDE DEF settle
  <1>2. /\ client' = [host |-> t.host, token |-> t]
        /\ session' = [kind |-> "signedIn", host |-> t.host, user |-> t.user]
        /\ listener' = t.host
        /\ ops' = Moved(ops \ {o}) \cup {settle}
    BY DEF SetDeployment, SignedIn, settle
  <1>3. \A p \in ops \ {o} : WellFormed(p)
    BY DEF Inv, CallsKnow
  <1>4. Shown'
    BY <1>2, Constants DEF Shown, ClientMatchesSession, ListenerMatchesSession,
                           isAuthenticated
  <1>5. CallsKnow'
    <2>1. \A p \in ops' : WellFormed(p)
      BY <1>1, <1>2, <1>3, MovedCalls DEF WellFormed
    <2>2. \A p \in ops' : p = settle \/ (p.kind \in Calls => p.moved)
      BY <1>2, <1>3, MovedCalls
    <2>3. isAuthenticated' /\ session'.host = settle.host
      BY <1>1, <1>2 DEF isAuthenticated
    <2> QED
      BY <2>1, <2>2, <2>3 DEF CallsKnow, KnowsItsSession, Calls
  <1>6. ASSUME r <=> o.recovers, UNCHANGED recovery PROVE RecoveryIsOne'
    <2>1. AtMostOne(ops) /\ (recoveryRunning <=> SomeRecovers(ops))
          /\ (recoveryPending => recoveryRunning)
      BY DEF Inv, RecoveryIsOne
    <2>2. /\ AtMostOne(Moved(ops \ {o}))
          /\ SomeRecovers(Moved(ops \ {o})) <=> SomeRecovers(ops \ {o})
      BY <1>3, <2>1, MovedRecovers DEF AtMostOne
    <2>3. AtMostOne(ops')
      <3>1. r => ~SomeRecovers(ops \ {o})
        BY <1>6, <2>1 DEF AtMostOne, SomeRecovers
      <3> QED
        BY <1>1, <1>2, <2>2, <3>1 DEF AtMostOne, SomeRecovers
    <2>4. SomeRecovers(ops') <=> SomeRecovers(ops)
      BY <1>1, <1>2, <1>6, <2>2 DEF SomeRecovers
    <2> QED
      BY <1>6, <2>1, <2>3, <2>4 DEF RecoveryIsOne, recovery
  <1> QED
    BY <1>4, <1>5, <1>6

\* clearDeployment() leaves nothing to show, and no call that knows a session.
LEMMA ClearDeploymentKeeps ==
  ASSUME Stored, NEW rest, \A o \in rest : WellFormed(o), ClearDeployment(rest)
  PROVE  /\ Shown' /\ CallsKnow'
         /\ current' \in Hosts \cup {None} /\ currentEvent' \in BOOLEAN
         /\ AtMostOne(rest) => AtMostOne(ops')
         /\ SomeRecovers(ops') <=> SomeRecovers(rest)
  <1>1. /\ listener' = None
        /\ session' = [kind |-> "signedOut", host |-> None, user |-> None]
        /\ client' = [host |-> None, token |-> None]
        /\ ops' = Moved(rest)
        /\ current' = None
        /\ currentEvent' = (currentEvent \/ ~disposed)
    BY DEF ClearDeployment, SignedOut, NoClient, StoreCurrent
  <1>2. Shown'
    BY <1>1 DEF Shown, ClientMatchesSession, ListenerMatchesSession, isAuthenticated
  <1>3. CallsKnow'
    BY <1>1, MovedCalls DEF CallsKnow, KnowsItsSession, Calls
  <1>4. current' \in Hosts \cup {None} /\ currentEvent' \in BOOLEAN
    BY <1>1 DEF Stored
  <1> QED
    BY <1>1, <1>2, <1>3, <1>4, MovedRecovers

\* The end of a pass starts the next one or takes the flag down with it.
LEMMA AfterRecoveryKeeps ==
  ASSUME Inv, NEW o \in ops, AfterRecovery(o, ops \ {o}), UNCHANGED session
  PROVE  /\ RecoveryIsOne' /\ CallsKnow'
         /\ recoveryRunning' \in BOOLEAN /\ recoveryPending' \in BOOLEAN
  <1> DEFINE next == Op("lookup", session.host, None, TRUE)
  <1>1. /\ CallsKnow /\ RecoveryIsOne /\ WellFormed(o)
        /\ session.host \in Hosts \cup {None}
        /\ recoveryRunning \in BOOLEAN /\ recoveryPending \in BOOLEAN
    BY DEF Inv, TypeOK, CallsKnow
  <1>2. /\ AtMostOne(ops \ {o})
        /\ o.recovers => ~SomeRecovers(ops \ {o})
        /\ ~o.recovers => (SomeRecovers(ops \ {o}) <=> SomeRecovers(ops))
    BY <1>1, RestRecovers DEF RecoveryIsOne
  <1>3. CASE ~o.recovers
    <2>1. ops' = ops \ {o} /\ UNCHANGED <<recoveryRunning, recoveryPending>>
      BY <1>3 DEF AfterRecovery, recovery
    <2> QED
      BY <1>1, <1>2, <1>3, <2>1, CallsKept DEF RecoveryIsOne
  <1>4. CASE o.recovers /\ ops' = ops \ {o}
    <2>1. CASE recoveryRunning' = FALSE
      <3>1. recoveryPending' = FALSE
        BY <1>4 DEF AfterRecovery
      <3> QED
        BY <1>1, <1>2, <1>4, <2>1, <3>1, CallsKept DEF RecoveryIsOne
    <2>2. CASE ops' = (ops \ {o}) \cup {next}
      <3>1. next.recovers
        BY DEF Op
      <3> QED
        BY <1>2, <1>4, <2>2, <3>1 DEF SomeRecovers
    <2> QED
      BY <1>4, <2>1, <2>2 DEF AfterRecovery
  <1>5. CASE /\ o.recovers /\ session.host # None
             /\ ops' = (ops \ {o}) \cup {next}
             /\ recoveryRunning' = recoveryRunning /\ recoveryPending' = FALSE
    <2>1. /\ next \in Op0 /\ next.kind = "lookup" /\ next.token = None
          /\ next.recovers
      BY <1>1, <1>5 DEF Op, Op0, OpKinds, Calls
    <2>2. WellFormed(next) /\ KnowsItsSession(next)
      BY <2>1 DEF WellFormed, KnowsItsSession
    <2> HIDE DEF next
    <2>3. CallsKnow'
      BY <1>1, <1>5, <2>2, CallsKept
    <2>4. AtMostOne(ops') /\ SomeRecovers(ops')
      BY <1>2, <1>5, <2>1, AddRecovers
    <2>5. recoveryRunning
      BY <1>1, <1>5 DEF RecoveryIsOne, SomeRecovers
    <2> QED
      BY <1>1, <1>5, <2>3, <2>4, <2>5 DEF RecoveryIsOne
  <1> QED
    BY <1>3, <1>4, <1>5 DEF AfterRecovery

-----------------------------------------------------------------------------
\* What the storage announces stays a set of hosts with tokens of their own.
LEMMA StoreAuthKeeps ==
  ASSUME Stored, Shown, NEW h \in Hosts, NEW t \in Tokens \cup {None},
         t # None => t.host = h, StoreAuth(h, t)
  PROVE  /\ auth' \in [Hosts -> Tokens \cup {None}] /\ StoredByHost'
         /\ authEvents' \subseteq Hosts
  <1>1. /\ auth' = [auth EXCEPT ![h] = t]
        /\ authEvents' = authEvents \/ authEvents' = authEvents \cup {h}
    BY DEF StoreAuth
  <1> QED
    BY <1>1 DEF Stored, StoredByHost

\* A call that is no recovery pass ends, and one of that kind may follow it.
LEMMA CallEnds ==
  ASSUME Inv, NEW o \in ops, ~o.recovers, UNCHANGED <<session, recovery>>,
         NEW next, \A p \in next : WellFormed(p) /\ KnowsItsSession(p) /\ ~p.recovers,
         ops' = (ops \ {o}) \cup next
  PROVE  CallsKnow' /\ RecoveryIsOne'
  <1>1. CallsKnow'
    BY CallsKept DEF Inv
  <1>2. AtMostOne(ops') /\ (SomeRecovers(ops') <=> SomeRecovers(ops))
    BY DEF Inv, RecoveryIsOne, AtMostOne, SomeRecovers
  <1> QED
    BY <1>1, <1>2 DEF Inv, RecoveryIsOne, recovery

\* A call that is no recovery pass ends, and none follows it.
LEMMA CallDrops ==
  ASSUME Inv, NEW o \in ops, ~o.recovers, UNCHANGED <<session, recovery>>,
         ops' = ops \ {o}
  PROVE  CallsKnow' /\ RecoveryIsOne'
  <1>1. CallsKnow'
    BY CallsKept DEF Inv
  <1>2. AtMostOne(ops') /\ (SomeRecovers(ops') <=> SomeRecovers(ops))
    BY RestRecovers DEF Inv, RecoveryIsOne
  <1> QED
    BY <1>1, <1>2 DEF Inv, RecoveryIsOne, recovery

\* A call that is no recovery pass begins.
LEMMA CallBegins ==
  ASSUME Inv, UNCHANGED <<session, recovery>>,
         NEW next, \A p \in next : WellFormed(p) /\ KnowsItsSession(p) /\ ~p.recovers,
         ops' = ops \cup next
  PROVE  CallsKnow' /\ RecoveryIsOne'
  <1>1. CallsKnow'
    BY CallsKept DEF Inv
  <1>2. AtMostOne(ops') /\ (SomeRecovers(ops') <=> SomeRecovers(ops))
    BY DEF Inv, RecoveryIsOne, AtMostOne, SomeRecovers
  <1> QED
    BY <1>1, <1>2 DEF Inv, RecoveryIsOne, recovery

LEMMA InitInv == Init => Inv
  <1> SUFFICES ASSUME Init PROVE Inv
    OBVIOUS
  <1>1. Stored /\ Flags
    BY DEF Init, Stored, StoredByHost, Flags
  <1>2. /\ session = [kind |-> "signedOut", host |-> None, user |-> None]
        /\ listener = None
        /\ client \in [host : Hosts \cup {None}, token : Tokens \cup {None}]
    BY <1>1 DEF Init, SignedOut, NoClient, Stored
  <1>3. Shown
    BY <1>2 DEF Shown, ClientMatchesSession, ListenerMatchesSession, isAuthenticated
  <1>4. \A o \in ops : WellFormed(o) /\ o.kind = "lookup" /\ ~o.recovers
    <2>1. "lookup" \in OpKinds
      BY DEF OpKinds, Calls
    <2>2. \A h \in Hosts : /\ WellFormed(Op("lookup", h, None, FALSE))
                           /\ Op("lookup", h, None, FALSE).kind = "lookup"
                           /\ ~Op("lookup", h, None, FALSE).recovers
      BY <2>1, NewCall
    <2> QED
      BY <2>2 DEF Init
  <1>5. CallsKnow
    BY <1>4 DEF CallsKnow, KnowsItsSession
  <1>6. RecoveryIsOne
    BY <1>4 DEF Init, RecoveryIsOne, AtMostOne, SomeRecovers
  <1> QED
    BY <1>1, <1>3, <1>5, <1>6, InvParts

-----------------------------------------------------------------------------
\* Every answer to a suspended call keeps the invariant.
LEMMA ResumeInv ==
  ASSUME Inv, NEW o \in ops,
         \/ LookUp(o) \/ VerifySucceeds(o) \/ VerifyFails(o)
         \/ UpdateSucceeds(o) \/ Settle(o) \/ LoginApplies(o)
         \/ LogoutRemoves(o) \/ AuthChanged(o) \/ CurrentChanged(o)
  PROVE  Inv'
  <1>0. /\ Stored /\ Shown /\ Flags /\ CallsKnow /\ RecoveryIsOne
        /\ WellFormed(o) /\ KnowsItsSession(o)
        /\ o.host \in Hosts /\ o.token \in Tokens \cup {None}
        /\ o.recovers \in BOOLEAN
    <2>1. Stored /\ Shown /\ Flags /\ CallsKnow /\ RecoveryIsOne
      BY InvParts
    <2>2. WellFormed(o) /\ KnowsItsSession(o)
      BY <2>1 DEF CallsKnow
    <2> QED
      BY <2>1, <2>2 DEF WellFormed, Op0
  <1>1. ASSUME UNCHANGED <<storage, events>> PROVE Stored'
    BY <1>0, <1>1 DEF Stored, StoredByHost, storage, events
  <1>2. ASSUME UNCHANGED <<session, client, listener>> PROVE Shown'
    BY <1>0, <1>2 DEF Shown, ClientMatchesSession, ListenerMatchesSession,
                       isAuthenticated
  <1>3. ASSUME UNCHANGED <<recovery, disposed>> PROVE Flags'
    BY <1>0, <1>3 DEF Flags, recovery
  <1>4. CASE LookUp(o)
    <2> DEFINE p == [o EXCEPT !.kind = "verify", !.token = auth[o.host]]
    <2>1. /\ auth[o.host] \in Tokens \cup {None}
          /\ auth[o.host] # None => auth[o.host].host = o.host
      BY <1>0 DEF Stored, StoredByHost
    <2>2. /\ p \in Op0 /\ p.kind = "verify" /\ p.host = o.host
          /\ p.token = auth[o.host] /\ p.recovers = o.recovers
      BY <1>0, <2>1 DEF WellFormed, Op0, OpKinds, Calls
    <2> HIDE DEF p
    <2>3. WellFormed(p) /\ KnowsItsSession(p)
      BY <2>1, <2>2 DEF WellFormed, KnowsItsSession
    <2>4. ops' = (ops \ {o}) \cup {p} /\ UNCHANGED <<session, recovery>>
      BY <1>4 DEF LookUp, p
    <2>5. CallsKnow'
      BY <1>0, <2>3, <2>4, CallsKept
    <2>6. /\ AtMostOne(ops \ {o})
          /\ o.recovers => ~SomeRecovers(ops \ {o})
          /\ ~o.recovers => (SomeRecovers(ops \ {o}) <=> SomeRecovers(ops))
      BY <1>0, RestRecovers DEF RecoveryIsOne
    <2>7. AtMostOne(ops') /\ (SomeRecovers(ops') <=> SomeRecovers(ops))
      BY <2>2, <2>4, <2>6, AddRecovers DEF SomeRecovers
    <2>8. RecoveryIsOne'
      BY <1>0, <2>4, <2>7 DEF RecoveryIsOne, recovery
    <2> QED
      BY <1>4, <1>1, <1>2, <1>3, <2>5, <2>8, InvPartsNext DEF LookUp
  <1>5. CASE VerifySucceeds(o)
    <2>1. CASE disposed \/ isAuthenticated \/ o.moved
      BY <1>0, <1>5, <1>1, <1>2, <2>1, AfterRecoveryKeeps, InvPartsNext
      DEF VerifySucceeds, Flags
    <2>2. CASE ~(disposed \/ isAuthenticated \/ o.moved)
      <3>1. /\ SetDeployment(o.token, ops \ {o}, o.recovers)
            /\ UNCHANGED recovery /\ o.token \in Tokens
        BY <1>0, <1>5, <2>2 DEF VerifySucceeds
      <3>2. Shown' /\ CallsKnow' /\ RecoveryIsOne'
        BY <1>0, <3>1, SetDeploymentKeeps
      <3> QED
        BY <1>5, <1>1, <1>3, <3>1, <3>2, InvPartsNext DEF VerifySucceeds
    <2> QED
      BY <2>1, <2>2
  <1>6. CASE VerifyFails(o)
    BY <1>0, <1>6, <1>1, <1>2, AfterRecoveryKeeps, InvPartsNext DEF VerifyFails, Flags
  <1>7. CASE UpdateSucceeds(o)
    <2>1. /\ o.token \in Tokens /\ o.token.host = o.host /\ ~o.recovers
          /\ ~o.moved => isAuthenticated /\ session.host = o.host
          /\ UNCHANGED <<storage, events, recovery, disposed>>
      BY <1>0, <1>7, Constants DEF UpdateSucceeds, WellFormed, KnowsItsSession
    <2>2. CASE SetDeployment(o.token, ops \ {o}, FALSE)
      BY <1>1, <1>3, <2>1, <2>2, SetDeploymentKeeps, InvPartsNext
    <2>3. CASE ops' = ops \ {o} /\ UNCHANGED <<session, client, listener>>
      <3>2. CallsKnow' /\ RecoveryIsOne'
        BY <2>1, <2>3, CallDrops
      <3> QED
        BY <1>1, <1>2, <1>3, <2>1, <2>3, <3>2, InvPartsNext
    <2>4. CASE /\ ~o.moved /\ session.user = o.token.user
               /\ client' = [host |-> o.host, token |-> o.token]
               /\ ops' = ops \ {o}
               /\ UNCHANGED <<session, listener>>
      <3>2. CallsKnow' /\ RecoveryIsOne'
        BY <2>1, <2>4, CallDrops
      <3>3. Shown'
        BY <1>0, <2>1, <2>4, Constants
        DEF Shown, ClientMatchesSession, ListenerMatchesSession, isAuthenticated
      <3> QED
        BY <1>1, <1>3, <2>1, <3>2, <3>3, InvPartsNext
    <2> QED
      BY <1>7, <2>2, <2>3, <2>4 DEF UpdateSucceeds
  <1>8. CASE Settle(o)
    <2>1. Stored'
      BY <1>0, <1>8 DEF Settle, Stored, StoredByHost, StoreCurrent
    <2> QED
      BY <1>0, <1>8, <1>2, <2>1, AfterRecoveryKeeps, InvPartsNext DEF Settle, Flags
  <1>9. CASE LoginApplies(o)
    <2>1. o.token \in Tokens /\ ~o.recovers
      BY <1>0, <1>9 DEF LoginApplies, WellFormed
    <2> QED
      BY <1>9, <1>1, <1>3, <2>1, SetDeploymentKeeps, InvPartsNext DEF LoginApplies
  <1>10. CASE LogoutRemoves(o)
    <2>1. ~o.recovers
      BY <1>0, <1>10 DEF LogoutRemoves, WellFormed
    <2>2. Stored'
      BY <1>0, <1>10, StoreAuthKeeps DEF LogoutRemoves, Stored
    <2>3. CallsKnow' /\ RecoveryIsOne'
      <3>1. ops' = ops \ {o} /\ UNCHANGED <<session, recovery>>
        BY <1>10 DEF LogoutRemoves
      <3> QED
        BY <2>1, <3>1, CallDrops
    <2> QED
      BY <1>10, <1>2, <1>3, <2>2, <2>3, InvPartsNext DEF LogoutRemoves
  <1>11. CASE AuthChanged(o)
    <2>1. /\ ~o.recovers
          /\ UNCHANGED <<auth, authEvents, recovery, disposed>>
      BY <1>0, <1>11 DEF AuthChanged, WellFormed
    <2>2. CASE ClearDeployment(ops \ {o})
      <3>1. \A p \in ops \ {o} : WellFormed(p)
        BY <1>0 DEF CallsKnow
      <3>2. /\ Shown' /\ CallsKnow'
            /\ current' \in Hosts \cup {None} /\ currentEvent' \in BOOLEAN
            /\ AtMostOne(ops') /\ (SomeRecovers(ops') <=> SomeRecovers(ops))
        BY <1>0, <2>1, <2>2, <3>1, ClearDeploymentKeeps, RestRecovers
        DEF RecoveryIsOne
      <3>3. Stored' /\ RecoveryIsOne'
        BY <1>0, <2>1, <3>2 DEF Stored, StoredByHost, RecoveryIsOne, recovery
      <3> QED
        BY <1>3, <2>1, <3>2, <3>3, InvPartsNext
    <2>3. CASE ~(session.host = o.host /\ o.token = None)
      <3> DEFINE next == IF session.host # o.host THEN {}
                         ELSE {Op(IF isAuthenticated THEN "update" ELSE "verify",
                                  o.host, o.token, FALSE)}
      <3>1. /\ ops' = (ops \ {o}) \cup next
            /\ UNCHANGED <<current, currentEvent, session, client, listener>>
        BY <1>11, <2>3 DEF AuthChanged
      <3>2. \A p \in next : WellFormed(p) /\ KnowsItsSession(p) /\ ~p.recovers
        <4>0. /\ o.host \in Hosts /\ o.token \in Tokens \cup {None}
              /\ session.host = o.host => o.token # None
          BY <1>0, <2>3
        <4>1. "update" \in OpKinds /\ "verify" \in OpKinds
          BY DEF OpKinds, Calls
        <4>2. o.token # None => o.token.host = o.host
          BY <1>0 DEF WellFormed
        <4>3. CASE session.host # o.host
          BY <4>3
        <4>4. CASE session.host = o.host /\ isAuthenticated
          <5> DEFINE p == Op("update", o.host, o.token, FALSE)
          <5>1. next = {p}
            BY <4>4
          <5>2. o.token # None
            BY <4>0, <4>4
          <5>3. WellFormed(p)
            BY <4>0, <4>1, <4>2, <5>2, NewCall, ZenonT(20)
          <5>4. ~p.recovers /\ p.kind = "update" /\ p.host = o.host
            BY DEF Op
          <5> QED
            BY <4>4, <5>1, <5>3, <5>4 DEF KnowsItsSession
        <4>5. CASE session.host = o.host /\ ~isAuthenticated
          <5> DEFINE p == Op("verify", o.host, o.token, FALSE)
          <5>1. next = {p}
            BY <4>5
          <5>2. WellFormed(p) /\ ~p.recovers /\ p.kind = "verify"
            BY <4>0, <4>1, <4>2, NewCall, ZenonT(20)
          <5> QED
            BY <5>1, <5>2 DEF KnowsItsSession
        <4> QED
          BY <4>3, <4>4, <4>5
      <3> HIDE DEF next
      <3>3. CallsKnow' /\ RecoveryIsOne'
        BY <2>1, <3>1, <3>2, CallEnds
      <3> QED
        BY <1>1, <1>2, <1>3, <2>1, <3>1, <3>3, InvPartsNext DEF storage, events
    <2> QED
      BY <1>11, <2>2, <2>3 DEF AuthChanged
  <1>12. CASE CurrentChanged(o)
    <2> DEFINE next == IF isAuthenticated THEN {}
                       ELSE {Op("lookup", o.host, None, FALSE)}
    <2>1. /\ ~o.recovers /\ ops' = (ops \ {o}) \cup next
          /\ UNCHANGED <<storage, events, session, client, listener, recovery, disposed>>
      BY <1>0, <1>12 DEF CurrentChanged, WellFormed
    <2>2. \A p \in next : WellFormed(p) /\ KnowsItsSession(p) /\ ~p.recovers
      <3> DEFINE p == Op("lookup", o.host, None, FALSE)
      <3>0. o.host \in Hosts
        BY <1>0
      <3>1. "lookup" \in OpKinds
        BY DEF OpKinds, Calls
      <3>2. WellFormed(p) /\ ~p.recovers /\ p.kind = "lookup"
        BY <3>0, <3>1, NewCall
      <3> QED
        BY <3>2 DEF KnowsItsSession
    <2> HIDE DEF next
    <2>3. CallsKnow' /\ RecoveryIsOne'
      BY <2>1, <2>2, CallEnds
    <2> QED
      BY <1>1, <1>2, <1>3, <2>1, <2>3, InvPartsNext
  <1> QED
    BY <1>4, <1>5, <1>6, <1>7, <1>8, <1>9, <1>10, <1>11, <1>12

\* So do the user, the other parts of the window and the other windows.
LEMMA StepInv == Inv /\ [Next]_vars => Inv'
  <1> SUFFICES ASSUME Inv, [Next]_vars PROVE Inv'
    OBVIOUS
  <1>0. /\ Stored /\ Shown /\ Flags /\ CallsKnow /\ RecoveryIsOne
        /\ \A o \in ops : WellFormed(o)
        /\ session.host \in Hosts \cup {None}
    BY InvParts DEF CallsKnow, Shown
  <1>1. ASSUME UNCHANGED <<storage, events>> PROVE Stored'
    BY <1>0, <1>1 DEF Stored, StoredByHost, storage, events
  <1>2. ASSUME UNCHANGED <<session, client, listener>> PROVE Shown'
    BY <1>0, <1>2 DEF Shown, ClientMatchesSession, ListenerMatchesSession,
                       isAuthenticated
  <1>3. ASSUME UNCHANGED <<recovery, disposed>> PROVE Flags'
    BY <1>0, <1>3 DEF Flags, recovery
  <1>4. ASSUME UNCHANGED <<session, ops, recovery>> PROVE CallsKnow' /\ RecoveryIsOne'
    BY <1>0, <1>4 DEF CallsKnow, KnowsItsSession, isAuthenticated, RecoveryIsOne,
                       recovery
  <1>5. ASSUME UNCHANGED <<auth, authEvents, current>>, currentEvent' \in BOOLEAN
         PROVE  Stored'
    BY <1>0, <1>5 DEF Stored, StoredByHost
  <1>6. ASSUME NEW t \in Tokens, LoginStores(t) PROVE Inv'
    <2> DEFINE p == Op("login", t.host, t, FALSE)
               next == {p}
    <2>1. t.host \in Hosts /\ t # None /\ "login" \in OpKinds
      BY Constants DEF OpKinds
    <2>2. WellFormed(p) /\ ~p.recovers /\ p.kind = "login"
      BY <2>1, NewCall
    <2> HIDE DEF p
    <2>3. /\ StoreAuth(t.host, t) /\ ops' = ops \cup next
          /\ UNCHANGED <<current, currentEvent, session, client, listener, recovery, disposed>>
      BY <1>6 DEF LoginStores, p
    <2>4. \A q \in next : WellFormed(q) /\ KnowsItsSession(q) /\ ~q.recovers
      BY <2>2 DEF KnowsItsSession
    <2> HIDE DEF next
    <2>5. CallsKnow' /\ RecoveryIsOne'
      BY <2>3, <2>4, CallBegins
    <2>6. Stored'
      BY <1>0, <2>1, <2>3, StoreAuthKeeps DEF Stored
    <2> QED
      BY <1>2, <1>3, <2>3, <2>5, <2>6, InvPartsNext
  <1>7. CASE Logout
    <2> DEFINE p == Op("logout", session.host, None, FALSE)
               rest == ops \cup {p}
    <2>1. session.host \in Hosts
      BY <1>7, <1>0, Constants DEF Logout, Shown, ClientMatchesSession
    <2>2. "logout" \in OpKinds
      BY DEF OpKinds
    <2>3. WellFormed(p) /\ ~p.recovers
      BY <2>1, <2>2, NewCall
    <2> HIDE DEF p
    <2>4. /\ ClearDeployment(rest)
          /\ UNCHANGED <<auth, authEvents, recovery, disposed>>
      BY <1>7 DEF Logout, p
    <2>5. \A o \in rest : WellFormed(o)
      BY <1>0, <2>3
    <2>6. AtMostOne(rest) /\ (SomeRecovers(rest) <=> SomeRecovers(ops))
      BY <1>0, <2>3, AddRecovers DEF RecoveryIsOne
    <2> HIDE DEF rest
    <2>7. /\ Shown' /\ CallsKnow'
          /\ current' \in Hosts \cup {None} /\ currentEvent' \in BOOLEAN
          /\ AtMostOne(ops') /\ (SomeRecovers(ops') <=> SomeRecovers(ops))
      BY <1>0, <2>4, <2>5, <2>6, ClearDeploymentKeeps
    <2>8. Stored' /\ RecoveryIsOne'
      BY <1>0, <2>4, <2>7 DEF Stored, StoredByHost, RecoveryIsOne, recovery
    <2> QED
      BY <1>3, <2>4, <2>7, <2>8, InvPartsNext
  <1>8. ASSUME NEW h \in Hosts, RemoveCredentials(h) PROVE Inv'
    <2>1. Stored'
      BY <1>0, <1>8, StoreAuthKeeps DEF RemoveCredentials, Stored
    <2> QED
      BY <1>8, <1>2, <1>3, <1>4, <2>1, InvPartsNext DEF RemoveCredentials
  <1>9. CASE SuspendSession
    <2>1. /\ session' = [kind |-> "signedOut", host |-> session.host, user |-> None]
          /\ client' = [host |-> None, token |-> None]
          /\ ops' = Moved(ops)
          /\ UNCHANGED <<storage, events, listener, recovery, disposed>>
      BY <1>9 DEF SuspendSession, SignedOut, NoClient
    <2>2. Shown'
      BY <1>0, <2>1 DEF Shown, ClientMatchesSession, ListenerMatchesSession,
                        isAuthenticated, NoClient
    <2>3. CallsKnow'
      BY <1>0, <2>1, MovedCalls DEF CallsKnow, KnowsItsSession, Calls
    <2>4. RecoveryIsOne'
      BY <1>0, <2>1, MovedRecovers DEF RecoveryIsOne, recovery
    <2> QED
      BY <1>1, <1>3, <2>1, <2>2, <2>3, <2>4, InvPartsNext
  <1>10. CASE OnAuthConfigChange
    <2>1. UNCHANGED <<storage, events, session, client, listener, disposed>>
      BY <1>10 DEF OnAuthConfigChange
    <2>2. CASE recoveryRunning
      <3>1. recoveryPending' = TRUE /\ UNCHANGED <<ops, recoveryRunning>>
        BY <1>10, <2>2 DEF OnAuthConfigChange
      <3>2. Flags' /\ CallsKnow' /\ RecoveryIsOne'
        BY <1>0, <2>1, <2>2, <3>1 DEF Flags, CallsKnow, KnowsItsSession,
                                      isAuthenticated, RecoveryIsOne
      <3> QED
        BY <1>1, <1>2, <2>1, <3>2, InvPartsNext
    <2>3. CASE ~recoveryRunning
      <3> DEFINE p == Op("lookup", session.host, None, TRUE)
      <3>1. /\ session.host \in Hosts
            /\ recoveryRunning' = TRUE /\ recoveryPending' = FALSE
            /\ ops' = ops \cup {p}
        BY <1>0, <1>10, <2>3 DEF OnAuthConfigChange
      <3>2. /\ p \in Op0 /\ p.kind = "lookup" /\ p.token = None /\ p.recovers
        BY <3>1 DEF Op, Op0, OpKinds, Calls
      <3> HIDE DEF p
      <3>3. WellFormed(p) /\ KnowsItsSession(p)
        BY <3>2 DEF WellFormed, KnowsItsSession
      <3>4. CallsKnow'
        BY <1>0, <2>1, <3>1, <3>3, CallsKept
      <3>5. AtMostOne(ops) /\ ~SomeRecovers(ops)
        BY <1>0, <2>3 DEF RecoveryIsOne
      <3>6. AtMostOne(ops') /\ SomeRecovers(ops')
        BY <3>1, <3>2, <3>5, AddRecovers
      <3>7. Flags' /\ RecoveryIsOne'
        BY <1>0, <2>1, <3>1, <3>6 DEF Flags, RecoveryIsOne
      <3> QED
        BY <1>1, <1>2, <2>1, <3>4, <3>7, InvPartsNext
    <2> QED
      BY <2>2, <2>3
  <1>11. CASE Dispose
    <2>1. Shown' /\ Flags'
      BY <1>0, <1>11 DEF Dispose, Shown, ClientMatchesSession, ListenerMatchesSession,
                        isAuthenticated, Flags, recovery
    <2> QED
      BY <1>11, <1>1, <1>4, <2>1, InvPartsNext DEF Dispose
  <1>12. ASSUME NEW h \in Hosts, ReadAuthChange(h) PROVE Inv'
    <2> DEFINE t == auth[h]
               p == Op("authChanged", h, t, FALSE)
               next == {p}
    <2>1. /\ t \in Tokens \cup {None} /\ (t # None => t.host = h)
          /\ "authChanged" \in OpKinds
      BY <1>0 DEF Stored, StoredByHost, OpKinds
    <2> HIDE DEF t
    <2>2. WellFormed(p)
      BY <2>1, NewCall
    <2>3. ~p.recovers /\ p.kind = "authChanged"
      BY DEF Op
    <2> HIDE DEF p
    <2>4. /\ ops' = ops \cup next /\ authEvents' = authEvents \ {h}
          /\ UNCHANGED <<storage, currentEvent, session, client, listener, recovery, disposed>>
      BY <1>12 DEF ReadAuthChange, p, t
    <2>5. \A q \in next : WellFormed(q) /\ KnowsItsSession(q) /\ ~q.recovers
      BY <2>2, <2>3 DEF KnowsItsSession
    <2> HIDE DEF next
    <2>6. CallsKnow' /\ RecoveryIsOne'
      BY <2>4, <2>5, CallBegins
    <2>7. Stored'
      BY <1>0, <2>4 DEF Stored, StoredByHost, storage
    <2> QED
      BY <1>2, <1>3, <2>4, <2>6, <2>7, InvPartsNext
  <1>13. CASE ReadCurrentChange
    <2> DEFINE p == Op("currentChanged", current, None, FALSE)
               next == IF current = None THEN {} ELSE {p}
    <2>1. /\ ops' = ops \cup next /\ currentEvent' = FALSE
          /\ UNCHANGED <<storage, authEvents, session, client, listener, recovery, disposed>>
      BY <1>13 DEF ReadCurrentChange
    <2>2. "currentChanged" \in OpKinds /\ (current # None => current \in Hosts)
      BY <1>0 DEF OpKinds, Stored
    <2>3. current # None => WellFormed(p)
      BY <2>2, NewCall
    <2>4. ~p.recovers /\ p.kind = "currentChanged"
      BY DEF Op
    <2> HIDE DEF p
    <2>5. \A q \in next : WellFormed(q) /\ KnowsItsSession(q) /\ ~q.recovers
      BY <2>3, <2>4 DEF KnowsItsSession
    <2> HIDE DEF next
    <2>6. CallsKnow' /\ RecoveryIsOne'
      BY <2>1, <2>5, CallBegins
    <2>7. Stored'
      BY <1>0, <2>1 DEF Stored, StoredByHost, storage
    <2> QED
      BY <1>2, <1>3, <2>1, <2>6, <2>7, InvPartsNext
  <1>14. CASE OtherWindow
    <2>1. UNCHANGED <<session, client, listener, ops, recovery, disposed>>
      BY <1>14 DEF OtherWindow
    <2>2. ASSUME NEW t \in Tokens, StoreAuth(t.host, t), UNCHANGED <<current, currentEvent>>
          PROVE  Stored'
      BY <1>0, <2>2, Constants, StoreAuthKeeps DEF Stored
    <2>3. ASSUME NEW h \in Hosts, StoreAuth(h, None), UNCHANGED <<current, currentEvent>>
          PROVE  Stored'
      BY <1>0, <2>3, StoreAuthKeeps DEF Stored
    <2>4. ASSUME NEW h \in Hosts \cup {None}, StoreCurrent(h), UNCHANGED <<auth, authEvents>>
          PROVE  Stored'
      BY <1>0, <2>4 DEF StoreCurrent, Stored, StoredByHost
    <2>5. Stored'
      BY <1>14, <2>2, <2>3, <2>4 DEF OtherWindow
    <2> QED
      BY <1>2, <1>3, <1>4, <2>1, <2>5, InvPartsNext
  <1>15. CASE UNCHANGED vars
    <2>1. UNCHANGED <<storage, events, recovery, session, client, listener, ops, disposed>>
      BY <1>15 DEF vars, storage, events, recovery
    <2> QED
      BY <1>1, <1>2, <1>3, <1>4, <2>1, InvPartsNext
  <1> QED
    BY <1>6, <1>7, <1>8, <1>9, <1>10, <1>11, <1>12, <1>13, <1>14, <1>15, ResumeInv
    DEF Next, User, Resume

\* The inductive invariant holds of every behaviour of the window.
THEOREM SessionInvariant == Spec => []Inv
  BY InitInv, StepInv, PTL DEF Spec

\* Whatever verifications, logins, suspensions and changes by other windows
\* overlap, the shared client and the listener belong to the session shown.
THEOREM ClientFollowsSession == Spec => []WindowFollowsSession
  <1>1. Inv => WindowFollowsSession
    BY DEF Inv, WindowFollowsSession
  <1> QED
    BY <1>1, SessionInvariant, PTL

\* #recoveryRunning is up exactly while one recovery pass is in flight, however
\* passes end, overlap with logins or are asked for again.
THEOREM RecoveryFlag == Spec => []OneRecovery
  <1>1. Inv => OneRecovery
    <2> SUFFICES ASSUME Inv PROVE OneRecovery
      OBVIOUS
    <2> DEFINE passes == {o \in ops : o.recovers}
    <2>1. RecoveryIsOne
      BY DEF Inv
    <2>2. CASE recoveryRunning
      <3>1. PICK o \in ops : o.recovers
        BY <2>1, <2>2 DEF RecoveryIsOne, SomeRecovers
      <3>2. passes = {o}
        BY <2>1, <3>1 DEF RecoveryIsOne, AtMostOne
      <3>3. Cardinality(passes) = 1
        BY <3>2, FS_Singleton
      <3> QED
        BY <2>1, <2>2, <3>3 DEF OneRecovery, RecoveryIsOne
    <2>3. CASE ~recoveryRunning
      <3>1. passes = {}
        BY <2>1, <2>3 DEF RecoveryIsOne, SomeRecovers
      <3>2. Cardinality(passes) = 0
        BY <3>1, FS_EmptySet
      <3> QED
        BY <2>1, <2>3, <3>2 DEF OneRecovery, RecoveryIsOne
    <2> QED
      BY <2>2, <2>3
  <1> QED
    BY <1>1, SessionInvariant, PTL

\* Of the calls that show a session, only a login finds the user signed in to
\* another deployment: a verification gives way and an update is of the same.
LEMMA OnlyLoginStep ==
  ASSUME Inv, [Next]_vars, isAuthenticated, session'.kind = "signedIn",
         session'.host # session.host
  PROVE  \E o \in ops : o.kind = "login" /\ LoginApplies(o)
  <1>1. ASSUME ClearDeployment(ops) \/ SuspendSession PROVE FALSE
    BY <1>1 DEF ClearDeployment, SuspendSession, SignedOut
  <1>2. ASSUME NEW rest, ClearDeployment(rest) PROVE FALSE
    BY <1>2 DEF ClearDeployment, SignedOut
  <1>3. ASSUME UNCHANGED session PROVE FALSE
    BY <1>3
  <1>4. ASSUME NEW o \in ops, VerifySucceeds(o) PROVE FALSE
    BY <1>3, <1>4 DEF VerifySucceeds
  <1>5. ASSUME NEW o \in ops, UpdateSucceeds(o) PROVE FALSE
    <2>1. /\ o.token # None => o.token.host = o.host
          /\ o.token # None
          /\ ~o.moved => session.host = o.host
      BY <1>5 DEF Inv, CallsKnow, WellFormed, KnowsItsSession, UpdateSucceeds
    <2>2. SetDeployment(o.token, ops \ {o}, FALSE) /\ ~o.moved
      BY <1>3, <1>5 DEF UpdateSucceeds
    <2>3. session'.host = o.token.host
      BY <2>2 DEF SetDeployment, SignedIn
    <2> QED
      BY <2>1, <2>2, <2>3
  <1>6. ASSUME NEW o \in ops, AuthChanged(o) PROVE FALSE
    BY <1>2, <1>3, <1>6 DEF AuthChanged
  <1>7. PICK o \in ops : LoginApplies(o)
    <2>1. Next
      BY <1>3 DEF vars
    <2>2. ASSUME User PROVE FALSE
      BY <1>1, <1>2, <1>3, <2>2 DEF User, LoginStores, Logout, RemoveCredentials,
                                    OnAuthConfigChange, Dispose
    <2>3. ASSUME ReadCurrentChange \/ OtherWindow \/ \E h \in Hosts : ReadAuthChange(h)
          PROVE  FALSE
      BY <1>3, <2>3 DEF ReadCurrentChange, OtherWindow, ReadAuthChange
    <2>4. ASSUME NEW o \in ops, LookUp(o) \/ VerifyFails(o) \/ Settle(o)
                                \/ LogoutRemoves(o) \/ CurrentChanged(o)
          PROVE  FALSE
      BY <1>3, <2>4 DEF LookUp, VerifyFails, Settle, LogoutRemoves, CurrentChanged
    <2> QED
      BY <1>4, <1>5, <1>6, <2>1, <2>2, <2>3, <2>4 DEF Next, Resume
  <1> QED
    BY <1>7 DEF LoginApplies

\* Nothing in the background takes a signed-in user to another deployment.
THEOREM LoginAloneSwitches == Spec => OnlyLoginSwitches
  <1>1. Inv /\ [Next]_vars =>
          [isAuthenticated /\ session'.kind = "signedIn" /\ session'.host # session.host
             => \E o \in ops : o.kind = "login" /\ LoginApplies(o)]_vars
    BY OnlyLoginStep
  <1> QED
    BY <1>1, SessionInvariant, PTL DEF Spec, OnlyLoginSwitches

\* A settle that no transition overtook persists the deployment that is shown.
THEOREM ShownIsPersisted == Spec => PersistsWhatItShows
  <1>1. Inv => [\A o \in ops : Settle(o) /\ current' # current =>
                  session.host = current' /\ isAuthenticated]_vars
    <2> SUFFICES ASSUME Inv, NEW o \in ops, Settle(o), current' # current
                 PROVE  session.host = current' /\ isAuthenticated
      OBVIOUS
    <2>1. ~o.moved /\ current' = o.host
      BY DEF Settle, StoreCurrent
    <2> QED
      BY <2>1 DEF Inv, CallsKnow, KnowsItsSession, Settle
  <1> QED
    BY <1>1, SessionInvariant, PTL DEF Spec, PersistsWhatItShows

=============================================================================
