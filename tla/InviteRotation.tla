--------------------------- MODULE InviteRotation ---------------------------
(***************************************************************************)
(* What an operator does to a running host (crates/urspace-host/src/       *)
(* main.rs): hand out one invitation at a time, replace it, and remove     *)
(* sessions.  ServiceRuntime (named service mode) and OperatorConsole      *)
(* (foreground sharing) both extend this module; they differ in how a kick *)
(* and the rotation that goes with it are put together.                    *)
(*                                                                         *)
(* The operator's commands are handled one at a time, by one task, but     *)
(* every registry call of a command is a critical section of its own, and  *)
(* browsers are admitted by other threads between any two of them.         *)
(*                                                                         *)
(* Browsers are reduced to the registry operation a handshake ends in; the *)
(* handshake itself and connections are in SiteProtocol.                   *)
(***************************************************************************)
EXTENDS CapabilityRegistry

VARIABLES
  phase,     \* where the operator's task is
  serving,   \* the router accepts connections
  current,   \* current_invite_id
  next,      \* the invitation minted and not yet current, or None
  shared,    \* invitations whose URL has been handed out
  barred     \* history: what was handed out before the last acknowledged kick

rotationVars == <<phase, serving, current, next, shared, barred>>
hostVars == <<vars, rotationVars>>

(***************************************************************************)
(* down, opened, exit: starting and leaving, in ServiceRuntime             *)
(* idle:    waiting for a command                                          *)
(* rotate:  a command has to close the current invitation                  *)
(* mint:    the current invitation is closed, its replacement not minted   *)
(* publish: the replacement is in the registry, its short link on its way  *)
(***************************************************************************)
Phase == {"down", "opened", "exit", "idle", "rotate", "mint", "publish"}

RotationTypeOK ==
  /\ phase \in Phase
  /\ serving \in BOOLEAN
  /\ current \in Invite \cup {None}
  /\ next \in Invite \cup {None}
  /\ shared \in SUBSET Invite
  /\ barred \in SUBSET Invite

OpenInvites(st) == st.issued \ (st.closed \cup st.revoked)

-----------------------------------------------------------------------------
\* registry.close_admissions(current_invite_id): a closed one is left alone
CloseCurrent ==
  IF current \in live.issued \ live.closed
  THEN CloseAdmissions(current)
  ELSE UNCHANGED vars

\* mint_invite: sign, and only then insert.  A signed URL nobody has seen is harmless.
Mint ==
  /\ phase = "mint"
  /\ \E i \in NewInvites : Insert(i) /\ next' = i
  /\ phase' = "publish"
  /\ UNCHANGED <<serving, current, shared, barred>>

\* Mutant of Publish: current_invite_id keeps naming the closed invitation.
PublishKeepsOld ==
  /\ phase = "publish"
  /\ phase' = "idle"
  /\ serving' = TRUE
  /\ next' = None
  /\ shared' \in {shared, shared \cup {next}}
  /\ UNCHANGED <<vars, current, barred>>

(***************************************************************************)
(* publish_share_url returns, with the short link or without: it is never  *)
(* an error.  The URL is handed out, unless the start was supervised (it   *)
(* prints nothing) or whoever asked for it is gone.  At the first one, the *)
(* router begins to accept connections.                                    *)
(***************************************************************************)
Publish ==
  /\ phase = "publish"
  /\ phase' = "idle"
  /\ serving' = TRUE
  /\ current' = next
  /\ next' = None
  /\ shared' \in {shared, shared \cup {next}}
  /\ UNCHANGED <<vars, barred>>

\* A browser opens an invitation it was given, or resumes its session.
Browser ==
  /\ serving
  /\ \/ \E i \in shared, s \in NewSessions, e \in Endpoint :
          Admit(i, s, e) \/ AdmitTcp(i, s, e)
     \/ \E s \in Session, e \in Endpoint : Resume(s, e)
  /\ UNCHANGED rotationVars

Time == \E i \in Invite : Expire(i) /\ UNCHANGED rotationVars

-----------------------------------------------------------------------------
(* Properties *)

(***************************************************************************)
(* The invitation an operator's command would close is the only one that   *)
(* can be open: after any sequence of commands, failed writes, crashes and *)
(* restarts, no earlier URL still admits anyone.  Kicks depend on it, as   *)
(* they close current_invite_id and nothing else.                          *)
(***************************************************************************)
OnlyCurrentIsOpen ==
  serving => OpenInvites(live) \subseteq {IF phase = "publish" THEN next ELSE current}

(***************************************************************************)
(* "Kicking also rotates the link, so the removed identity cannot reopen   *)
(* the bearer URL as a fresh browser session" (docs/cli.md:78): nobody is  *)
(* admitted through a URL that was handed out before the last kick.        *)
(***************************************************************************)
RemovedStayOut ==
  [][up /\ up' => \A s \in Admitted(live') \ Admitted(live) : live'.home[s] \notin barred]_hostVars

(***************************************************************************)
(* A URL that has just been handed out admits: nothing that happened while *)
(* its short link was being published has closed it.                       *)
(***************************************************************************)
HandedOutIsOpen ==
  [][phase = "publish" /\ phase' = "idle" => current' \in OpenInvites(live')]_hostVars
=============================================================================
