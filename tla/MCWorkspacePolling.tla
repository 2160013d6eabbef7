------------------------- MODULE MCWorkspacePolling -------------------------
(***************************************************************************)
(* Two agents, so that one watcher is open while another is being opened,  *)
(* and four sessions after the first, so that a fetch may be overtaken by *)
(* two changes.                                                            *)
(***************************************************************************)
EXTENDS WorkspacePolling
=============================================================================
