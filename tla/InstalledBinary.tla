-------------------------- MODULE InstalledBinary --------------------------
(***************************************************************************)
(* What fetching the CLI promises, whoever fetches it, however many do so  *)
(* at once and wherever one of them dies: a binary appears at a path in    *)
(* one step, only with its signature verified unless the user or the       *)
(* settings did without, and stays until it is set aside, moved or         *)
(* replaced by another such binary; and an answer answers a call.           *)
(***************************************************************************)
CONSTANTS
  Paths,     \* where a binary may be installed
  Callers,   \* the windows that fetch it
  Builds,    \* the binaries there can be
  Vouched,   \* those of them whose signature was verified, or waived by the user
  None       \* no binary

VARIABLES
  verifies,  \* the settings ask for a verification
  file,      \* the binary at each path
  pending    \* the callers that wait for their answer

abstractVars == <<verifies, file, pending>>

Trusted == IF verifies THEN Vouched ELSE Builds

Init ==
  /\ verifies \in BOOLEAN
  /\ file \in [Paths -> Vouched \cup {None}]
  /\ pending = {}

Install(p, b) ==
  /\ file' = [file EXCEPT ![p] = b]
  /\ UNCHANGED <<verifies, pending>>

SetAside(p) ==
  /\ file[p] # None
  /\ file' = [file EXCEPT ![p] = None]
  /\ UNCHANGED <<verifies, pending>>

Move(p, q) ==
  /\ file[p] # None /\ p # q
  /\ file' = [file EXCEPT ![p] = None, ![q] = file[p]]
  /\ UNCHANGED <<verifies, pending>>

Call(c) ==
  /\ c \notin pending
  /\ pending' = pending \cup {c}
  /\ UNCHANGED <<verifies, file>>

Answer(c) ==
  /\ c \in pending
  /\ pending' = pending \ {c}
  /\ UNCHANGED <<verifies, file>>

Next ==
  \/ \E p \in Paths, b \in Trusted : Install(p, b)
  \/ \E p \in Paths : SetAside(p)
  \/ \E p, q \in Paths : Move(p, q)
  \/ \E c \in Callers : Call(c) \/ Answer(c)

Spec == Init /\ [][Next]_abstractVars
=============================================================================
