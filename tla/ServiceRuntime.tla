--------------------------- MODULE ServiceRuntime ---------------------------
(***************************************************************************)
(* Named service mode (run_service and ServiceRuntime::handle in           *)
(* crates/urspace-host/src/main.rs): start from the journal, close every   *)
(* earlier invitation, mint a new one, serve, and handle control commands  *)
(* one after the other until the process stops or dies.                    *)
(*                                                                         *)
(* That only one process runs at a time is the business of ServiceControl. *)
(* Any registry call that appends can fail (FailAppend, at most MaxFaults  *)
(* times): the command then fails and the service goes on, but a start     *)
(* that fails ends the process.                                            *)
(***************************************************************************)
EXTENDS InviteRotation

ServiceInit ==
  /\ Init
  /\ phase = "opened"
  /\ serving = FALSE
  /\ current = None
  /\ next = None
  /\ shared = {}
  /\ barred = {}

-----------------------------------------------------------------------------
(* Start *)

OpenRegistry ==
  /\ phase = "down"
  /\ Open
  /\ phase' = "opened"
  /\ UNCHANGED <<serving, current, next, shared, barred>>

\* Mutant of CloseEarlier: the service mints without closing what was open.
CloseEarlierSkipped ==
  /\ phase = "opened"
  /\ phase' = "mint"
  /\ UNCHANGED <<vars, serving, current, next, shared, barred>>

\* The endpoint is online and the control name claimed: close_all_admissions.
CloseEarlier ==
  /\ phase = "opened"
  /\ IF CanCloseAll THEN CloseAllAdmissions ELSE UNCHANGED vars
  /\ phase' = "mint"
  /\ UNCHANGED <<serving, current, next, shared, barred>>

-----------------------------------------------------------------------------
(* Commands *)

\* Invite: close the current invitation, then replace it.
Invitation ==
  /\ phase = "idle"
  /\ CloseCurrent
  /\ phase' = "mint"
  /\ UNCHANGED <<serving, current, next, shared, barred>>

\* Kick: one event removes the session and closes the current invitation.
KickCommand(s) ==
  /\ phase = "idle"
  /\ KickAndCloseAdmissions(s, current)
  /\ phase' = "mint"
  /\ barred' = shared
  /\ UNCHANGED <<serving, current, next, shared>>

\* Mutant of KickAllCommand: the plain kick_all, which closes no invitation.
KickAllCommandOnly ==
  /\ phase = "idle"
  /\ KickAll
  /\ phase' = "mint"
  /\ barred' = shared
  /\ UNCHANGED <<serving, current, next, shared>>

\* KickAll.  With no session to remove, nothing is closed and nothing rotated.
KickAllCommand ==
  /\ phase = "idle"
  /\ KickAllAndCloseAdmissions(current)
  /\ phase' = "mint"
  /\ barred' = shared
  /\ UNCHANGED <<serving, current, next, shared>>

-----------------------------------------------------------------------------
(* Failures *)

\* The events the running host may be appending.
InProgress ==
  LET browsers == {"SessionAdmitted", "SessionEndpointUpdated"}
      commands == {"AdmissionsClosed", "SessionKickedAndAdmissionsClosed",
                   "AllSessionsKickedAndAdmissionsClosed"}
  IN {ev \in Appendable :
        \/ phase = "opened" /\ ev.type = "AllAdmissionsClosed"
        \/ phase = "mint" /\ ev.type = "InviteInserted"
        \/ phase = "idle" /\ ev.type \in commands /\ ev.invite = current
        \/ serving /\ ev.type \in browsers /\ ev.invite \in shared \cup {None}}

(***************************************************************************)
(* append_event fails.  A failed command is answered and the service waits *)
(* for the next one; a failed start makes run_service return.              *)
(***************************************************************************)
AppendFails ==
  /\ \E ev \in InProgress :
       /\ FailAppend(ev)
       /\ phase' = IF ~serving THEN "exit"
                   ELSE IF ev.type = "InviteInserted" THEN "idle" ELSE phase
  /\ UNCHANGED <<serving, current, next, shared, barred>>

\* Stopped, killed, or crashed, possibly inside an append.
Leave ==
  /\ Crash \/ \E ev \in InProgress : CrashDuringAppend(ev)
  /\ phase' = "down"
  /\ serving' = FALSE
  /\ current' = None
  /\ next' = None
  /\ UNCHANGED <<shared, barred>>

ServiceNext ==
  \/ OpenRegistry \/ CloseEarlier
  \/ Mint \/ Publish
  \/ Invitation \/ (\E s \in Session : KickCommand(s)) \/ KickAllCommand
  \/ Browser \/ Time
  \/ AppendFails \/ Leave

ServiceSpec == ServiceInit /\ [][ServiceNext]_hostVars

-----------------------------------------------------------------------------
(* Properties *)

ServiceTypeOK ==
  /\ TypeOK
  /\ RotationTypeOK
  /\ up <=> phase # "down"
=============================================================================
