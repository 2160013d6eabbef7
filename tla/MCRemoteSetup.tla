--------------------------- MODULE MCRemoteSetup ---------------------------
(***************************************************************************)
(* One set-up, a workspace of up to three builds, two tokens.              *)
(***************************************************************************)
EXTENDS RemoteSetup
=============================================================================
