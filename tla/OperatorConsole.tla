--------------------------- MODULE OperatorConsole --------------------------
(***************************************************************************)
(* Foreground sharing (serve_protocol, operator_console and rotate_invite  *)
(* in crates/urspace-host/src/main.rs): a console on standard input, over  *)
(* a registry without a journal that ends with the process.  `durable' is  *)
(* only the registry's shadow here.                                        *)
(*                                                                         *)
(* Unlike the service, a kick and the rotation that follows it are two     *)
(* registry calls, and RemovedStayOut does not hold between them.          *)
(***************************************************************************)
EXTENDS InviteRotation

ConsoleInit ==
  /\ Init
  /\ phase = "mint"
  /\ serving = FALSE
  /\ current = None
  /\ next = None
  /\ shared = {}
  /\ barred = {}

\* rotate_invite: close the current invitation, then mint.
Close ==
  /\ phase = "rotate"
  /\ CloseCurrent
  /\ phase' = "mint"
  /\ UNCHANGED <<serving, current, next, shared, barred>>

\* invite, rotate
InviteCommand ==
  /\ phase = "idle"
  /\ phase' = "rotate"
  /\ UNCHANGED <<vars, serving, current, next, shared, barred>>

\* kick <session>, kick all: the rotation comes in a later step
ConsoleKick ==
  /\ phase = "idle"
  /\ (\E s \in Session : Kick(s)) \/ KickAll
  /\ phase' = "rotate"
  /\ barred' = shared
  /\ UNCHANGED <<serving, current, next, shared>>

ConsoleNext ==
  \/ Close \/ Mint \/ Publish
  \/ InviteCommand \/ ConsoleKick
  \/ Browser \/ Time

ConsoleSpec == ConsoleInit /\ [][ConsoleNext]_hostVars

-----------------------------------------------------------------------------
(* Properties *)

(***************************************************************************)
(* RemovedStayOut does not hold here: a kick and the closing of the URL    *)
(* are two registry calls, and a browser may be admitted through the old   *)
(* URL in between.  What is left of it: never after rotate_invite has      *)
(* closed that URL.                                                        *)
(***************************************************************************)
OutOnceRotated ==
  [][\A s \in Admitted(live') \ Admitted(live) :
       live'.home[s] \in barred => phase = "rotate"]_hostVars
=============================================================================
