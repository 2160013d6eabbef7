---------------------------- MODULE MCWindowParts ----------------------------
(* Small instances of the parts of a window for TLC.                           *)
EXTENDS WindowParts

AllParts == {"ssh", "streams", "tasks", "announcements", "requests", "sockets",
             "duplicate", "credentials", "terminal", "monitor", "telemetry", "export"}
=============================================================================
