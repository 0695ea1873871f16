------------------------ MODULE MCReconnectingClient -------------------------
(* A small instance of ReconnectingClient for TLC. *)
EXTENDS ReconnectingClient

CONSTANTS t1, t2, t3
=============================================================================
