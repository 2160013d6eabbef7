---------------------------- MODULE SecretStore ----------------------------
(* core/secretsManager.ts with the access times of core/mementoManager.ts: the *)
(* session of each deployment, shared by all windows without a lock. A write   *)
(* has an await between any two of its steps: store the secret, record the     *)
(* access, read the keys, delete those beyond the newest MaxCount.             *)
EXTENDS Naturals, Sequences, FiniteSets

CONSTANTS
  Hosts,      \* deployments
  Host,       \* the one this window logs in to
  Tokens,     \* session tokens; NoToken is the empty string of a login without one
  NoToken,
  Absent,     \* no session stored
  Stored,     \* what may be stored for Host when the window starts
  Writers,    \* calls of setSecret that may be under way
  MaxCount    \* DEFAULT_MAX_DEPLOYMENTS

ASSUME StoreAssumption ==
  /\ IsFiniteSet(Hosts) /\ Host \in Hosts /\ MaxCount \in Nat \ {0}
  /\ NoToken \notin Tokens /\ Absent \notin Tokens \union {NoToken}
  /\ Stored \subseteq Tokens \union {NoToken, Absent}

VARIABLES
  session,    \* the stored session of each deployment
  recent,     \* <<a, b>>: a was accessed, and b not after it
  registered, \* the stored OAuth client of Host: "ours", or "none" (or one of another URI scheme)
  write,      \* what setSecret still has to do; hosts: the deployments to delete
  unpruned,   \* a write since the keys were last read rejected or failed to prune
  watchers,   \* listeners of onDidChangeSessionAuth(Host)
  notified    \* those with a change they have not read

storeVars == <<session, recent, registered, write, unpruned, watchers, notified>>

Idle == [step |-> "none", host |-> Host, hosts |-> {}]

StoreInit ==
  /\ \E t \in Stored : session = [h \in Hosts |-> IF h = Host THEN t ELSE Absent]
  /\ recent = {}
  /\ registered \in {"none", "ours"}
  /\ write = [w \in Writers |-> Idle] /\ unpruned = FALSE
  /\ watchers = {} /\ notified = {}

\* secrets.store or secrets.delete of session keys, and the event it raises.
SetSessions(new) ==
  /\ session' = new
  /\ notified' = IF new[Host] # session[Host] THEN notified \union watchers ELSE notified

Begins(w, h) == write' = [write EXCEPT ![w] = [step |-> "record", host |-> h, hosts |-> {}]]

\* The promise of setSecret has settled.
Returned(w) == write[w].step \in {"none", "rejected"}

StoreSession(w, h, t) ==
  /\ SetSessions([session EXCEPT ![h] = t])
  /\ Begins(w, h)

StoreRegistration(w) ==
  /\ registered' = "ours"
  /\ Begins(w, Host)

Forget(hosts) ==
  /\ SetSessions([h \in Hosts |-> IF h \in hosts THEN Absent ELSE session[h]])
  /\ registered' = IF Host \in hosts THEN "none" ELSE registered
  /\ recent' = {p \in recent : p[1] \notin hosts /\ p[2] \notin hosts}

Accessed == {h \in Hosts : <<h, h>> \in recent}

\* When the memento rejects, so does setSecret, and nothing is pruned.
RecordAccess(w) ==
  /\ write[w].step = "record"
  /\ \/ /\ LET h == write[w].host IN
           recent' = {p \in recent : p[2] # h} \union ({h} \X (Accessed \union {h}))
        /\ write' = [write EXCEPT ![w].step = "prune"] /\ UNCHANGED unpruned
     \/ write' = [write EXCEPT ![w] = [Idle EXCEPT !.step = "rejected"]] /\ unpruned' = TRUE /\ UNCHANGED recent
  /\ UNCHANGED <<session, registered, watchers, notified>>

\* A deployment with no recorded access sorts behind all others.
SortsBefore(a, b) == a \in Accessed /\ <<b, a>> \notin recent

KnownSafeHostnames == {h \in Hosts : session[h] # Absent}

\* Errors of the pruning are caught.
PruneFails(w) == write' = [write EXCEPT ![w] = Idle] /\ unpruned' = TRUE

\* The deployments beyond the newest MaxCount of those listed.
Beyond(hosts, toRemove) ==
  LET kept == hosts \ toRemove IN
  /\ toRemove \subseteq hosts
  /\ Cardinality(kept) <= MaxCount
  /\ toRemove # {} => Cardinality(kept) = MaxCount
  /\ \A k \in kept, d \in toRemove : ~SortsBefore(d, k)

Deletes(w, hosts) ==
  write' = [write EXCEPT ![w] = IF hosts = {} THEN Idle ELSE [@ EXCEPT !.step = "delete", !.hosts = hosts]]

\* Mutant: the deployment just accessed is not among those counted.
ReadOtherKeys(w) ==
  /\ write[w].step = "prune"
  /\ \E toRemove \in SUBSET KnownSafeHostnames :
       Beyond(KnownSafeHostnames \ {write[w].host}, toRemove) /\ Deletes(w, toRemove)
  /\ unpruned' = FALSE
  /\ UNCHANGED <<session, recent, registered, watchers, notified>>

\* The keys are sorted as soon as they are answered.
ReadKeys(w) ==
  /\ write[w].step = "prune"
  /\ \/ /\ \E toRemove \in SUBSET KnownSafeHostnames :
             Beyond(KnownSafeHostnames, toRemove) /\ Deletes(w, toRemove)
        /\ unpruned' = FALSE
     \/ PruneFails(w)
  /\ UNCHANGED <<session, recent, registered, watchers, notified>>

\* The deletes land in any order, whatever was stored for these deployments
\* since; the first that fails ends the write.
Prune(w) ==
  /\ write[w].step = "delete"
  /\ \/ \E h \in write[w].hosts :
          /\ Forget({h}) /\ Deletes(w, write[w].hosts \ {h})
          /\ UNCHANGED <<unpruned, watchers>>
     \/ PruneFails(w) /\ UNCHANGED <<session, recent, registered, watchers, notified>>

WriteSteps(w) == RecordAccess(w) \/ ReadKeys(w) \/ Prune(w)

StoreTypeOK ==
  /\ session \in [Hosts -> Tokens \union {NoToken, Absent}]
  /\ recent \subseteq Accessed \X Accessed
  /\ \A a, b \in Accessed : <<a, b>> \in recent \/ <<b, a>> \in recent
  /\ registered \in {"none", "ours"} /\ unpruned \in BOOLEAN
  /\ write \in [Writers -> [step : {"none", "record", "prune", "delete", "rejected"},
                           host : Hosts, hosts : SUBSET Hosts]]
  /\ notified \subseteq watchers /\ watchers \subseteq Writers

(* However the writes of the windows overlap, once all have returned no more   *)
(* than MaxCount sessions are kept, unless one of them failed and no other has *)
(* read the keys since: the last to read them has seen every session           *)
(* (recordDeploymentAccess, secretsManager.ts:212).                            *)
KeepsWithinLimit ==
  (\A w \in Writers : Returned(w)) => unpruned \/ Cardinality(KnownSafeHostnames) <= MaxCount
=============================================================================
