----------------------------- MODULE MCShutdown ------------------------------
(* Small instances of Shutdown, with the guests of MCTelemetryServer. *)
EXTENDS MCTelemetryServer, Shutdown
=============================================================================
