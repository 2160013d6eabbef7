--------------------------- MODULE CliCredentials ---------------------------
(* The credentials of one deployment in the stores of the Coder CLI            *)
(* (core/cliCredentialManager.ts, cliManager.ts, settings/cli.ts): the         *)
(* extension writes, reads and clears them through CLI processes that overlap, *)
(* and the settings and the CLI binary that select the store change meanwhile. *)
EXTENDS FiniteSets, Naturals

CONSTANTS Tokens, NoToken,
          MaxJobs           \* bound of the model on the CLI calls under way

ASSUME JobsAssumption == MaxJobs \in Nat

VARIABLES ccStores,    \* what each store holds
          ccConfig,    \* coder.useKeyring is on, or --global-config is among
                       \* coder.globalFlags (which counts for nothing beside the keyring)
          ccVersion,   \* the features of the CLI: none, keyringAuth, tokenRead as well
          ccJobs,      \* each call: its token, its settings, and, once they are
                       \* resolved, its CLI and its store
          ccLatest     \* history: the token of the last write with the settings
                       \* and the CLI of now, until a clear

ccVars == <<ccStores, ccConfig, ccVersion, ccJobs, ccLatest>>

Stores == {"keyring", "files", "override"}
Configs == {"default", "keyring", "override"}
Versions == {"old", "keyring", "read"}
JobRecords == [kind: {"store", "clear", "read"}, token: Tokens \union {NoToken},
               config: Configs, cli: Versions \union {"unresolved"},
               store: Stores \union {"unresolved"}]

CredentialsTypeOK ==
  /\ ccLatest \in Tokens \union {NoToken}
  /\ ccStores \in [Stores -> Tokens \union {NoToken}]
  /\ ccConfig \in Configs /\ ccVersion \in Versions
  /\ ccJobs \subseteq JobRecords /\ Cardinality(ccJobs) <= MaxJobs

CcInit ==
  /\ ccLatest = NoToken
  /\ ccStores = [s \in Stores |-> NoToken]
  /\ ccConfig = "default" /\ ccVersion = "old"
  /\ ccJobs = {}

-----------------------------------------------------------------------------
(* Where the credentials are.                                                *)

IsKeyringEnabled(config) == config = "keyring"

\* buildGlobalFlags: the user's own --global-config counts when it is allowed
FlagsStore(config, allowOverride) ==
  IF config = "override" /\ allowOverride THEN "override" ELSE "files"

\* resolveCliAuth: where the commands and the SSH proxy look
ResolveCliAuth(config, version) ==
  IF IsKeyringEnabled(config) /\ version # "old" THEN "keyring"
  ELSE FlagsStore(config, version = "read")

\* Mutant: the override is honoured although an older CLI cannot read it back.
AlwaysOverride(config, version) == FlagsStore(config, TRUE)

\* cliFileTransport with credentialGlobalFlags
CliFileTransport(config, version) == FlagsStore(config, version = "read")

ResolveWriteTransport(config, version) ==
  IF IsKeyringEnabled(config) /\ version # "old" THEN "keyring"
  ELSE CliFileTransport(config, version)

\* only CLIs from 2.31 on can read a token
ResolveReadTransport(config, version) ==
  IF version # "read" THEN "none"
  ELSE IF IsKeyringEnabled(config) THEN "keyring" ELSE CliFileTransport(config, version)

-----------------------------------------------------------------------------
\* the settings are read at the call, the binary is resolved meanwhile
Call(kind, token) ==
  /\ Cardinality(ccJobs) < MaxJobs
  /\ ccJobs' = ccJobs \union {[kind |-> kind, token |-> token, config |-> ccConfig,
                               cli |-> "unresolved", store |-> "unresolved"]}

\* configure, when a workspace is opened or the session changes; and
\* persistSessionAuth, in the background of a login
StoreCredentials(t) ==
  /\ Call("store", t)
  /\ UNCHANGED <<ccStores, ccConfig, ccVersion, ccLatest>>

\* clearCredentials: deleteToken removes the files and logs out of the store
ClearCredentials ==
  /\ Call("clear", NoToken)
  /\ ccStores' = [ccStores EXCEPT !["files"] = NoToken]
  /\ ccLatest' = NoToken
  /\ UNCHANGED <<ccConfig, ccVersion>>

\* a login without a stored session asks the CLI
ReadToken ==
  /\ Call("read", NoToken)
  /\ UNCHANGED <<ccStores, ccConfig, ccVersion, ccLatest>>

Transport(job) ==
  IF job.kind = "read" THEN ResolveReadTransport(job.config, ccVersion)
  ELSE ResolveWriteTransport(job.config, ccVersion)

\* resolveCli; for lack of a binary a store fails, a read and a logout give up
ResolveCli(job) ==
  /\ job.store = "unresolved"
  /\ \/ /\ Transport(job) # "none"
        /\ ccJobs' = (ccJobs \ {job}) \union
                     {[job EXCEPT !.cli = ccVersion, !.store = Transport(job)]}
     \/ ccJobs' = ccJobs \ {job}
  /\ UNCHANGED <<ccStores, ccConfig, ccVersion, ccLatest>>

\* execWithTimeout: cliLogin or cliLogout did it
Executed(job) ==
  /\ job.store \in Stores /\ job.kind # "read"
  /\ ccStores' = [ccStores EXCEPT ![job.store] = job.token]
  /\ ccLatest' = IF job.config = ccConfig /\ job.cli = ccVersion THEN job.token
                 ELSE IF job.store = ResolveCliAuth(ccConfig, ccVersion) THEN NoToken ELSE ccLatest
  /\ ccJobs' = ccJobs \ {job}
  /\ UNCHANGED <<ccConfig, ccVersion>>

\* the token was read; or the CLI failed, timed out or was cancelled by the user
\* before it changed anything
ChangedNothing(job) ==
  /\ job.store \in Stores
  /\ ccJobs' = ccJobs \ {job}
  /\ UNCHANGED <<ccStores, ccConfig, ccVersion, ccLatest>>

ConfigChanges(config) ==
  /\ config # ccConfig /\ ccConfig' = config
  /\ ccLatest' = NoToken
  /\ UNCHANGED <<ccStores, ccVersion, ccJobs>>

\* another CLI is downloaded; calls that have resolved the earlier one go on
BinaryChanges(version) ==
  /\ version # ccVersion /\ ccVersion' = version
  /\ ccLatest' = NoToken
  /\ UNCHANGED <<ccStores, ccConfig, ccJobs>>

CcNext ==
  \/ ClearCredentials \/ ReadToken
  \/ \E t \in Tokens : StoreCredentials(t)
  \/ \E job \in ccJobs : ResolveCli(job) \/ Executed(job) \/ ChangedNothing(job)
  \/ \E config \in Configs : ConfigChanges(config)
  \/ \E version \in Versions : BinaryChanges(version)

-----------------------------------------------------------------------------
(* What was written is found: with the settings and the CLI of the write the   *)
(* commands and the SSH proxy look where its token is, and so does a read,     *)
(* whichever of three code paths selected the store, and whatever overlapped,  *)
(* calls with earlier settings or an earlier CLI included. (Nothing moves a    *)
(* token to the store that other settings or another CLI select later.)        *)
CliFindsItsToken ==
  ccLatest # NoToken =>
    /\ ccStores[ResolveCliAuth(ccConfig, ccVersion)] = ccLatest
    /\ ResolveReadTransport(ccConfig, ccVersion) \in {"none", ResolveCliAuth(ccConfig, ccVersion)}
=============================================================================
