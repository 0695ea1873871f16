---------------------------- MODULE SessionLink -----------------------------
(***************************************************************************)
(* What a site client promises about its connection to the host: there is  *)
(* one at a time, it is replaced only once it is gone, and never after the *)
(* client was closed.  No calls, no lock and no handshake.                 *)
(* ReconnectingClient implements this module.                              *)
(***************************************************************************)
CONSTANT Link

VARIABLES
  link,     \* the connection in use
  up,       \* whether it works
  ended     \* whether the client has been closed

vars == <<link, up, ended>>

Init == link \in Link /\ up = TRUE /\ ended = FALSE

Drop == up' = FALSE /\ UNCHANGED <<link, ended>>

\* The connection that replaces it may be gone again before it is used.
Restore ==
  /\ ~up /\ ~ended
  /\ link' \in Link \ {link}
  /\ up' \in BOOLEAN
  /\ UNCHANGED ended

\* Closing the client need not close the connection at once.
End == ended' = TRUE /\ up' \in {up, FALSE} /\ UNCHANGED link

Spec == Init /\ [][Drop \/ Restore \/ End]_vars
=============================================================================
