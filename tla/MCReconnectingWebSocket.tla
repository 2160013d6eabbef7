---------------------- MODULE MCReconnectingWebSocket ----------------------
(* One connection with three transports alive at once: the one in use, one  *)
(* orphaned by an overlapping connect, one being opened.                    *)
EXTENDS ReconnectingWebSocket
=============================================================================
