-------------------------- MODULE MCBinaryDownload --------------------------
(***************************************************************************)
(* Two windows, one upgrade of the server, one window that sleeps or dies. *)
(***************************************************************************)
EXTENDS BinaryDownload
=============================================================================
