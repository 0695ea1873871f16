------------------------- MODULE CapabilityRegistry -------------------------
(***************************************************************************)
(* CapabilityRegistry of urspace-host (crates/urspace-host/src/lib.rs): the *)
(* authorization state of one host, the journal it is rebuilt from, and the *)
(* map of connections that are being served.                                *)
(*                                                                          *)
(* Every operation takes the registry mutex once, appends at most one event *)
(* to the journal, syncs it, and only then changes the state in memory, so  *)
(* an operation is one action.  The one thing an operation does after it    *)
(* releases the mutex, closing connections, is a step of its own            *)
(* (CloseConnection).                                                       *)
(*                                                                          *)
(* The journal is kept as the registry state its complete lines replay to   *)
(* (`durable'), extended by one event per appended line, and by what        *)
(* follows them in the file (`file').  Replay is the same left fold.        *)
(***************************************************************************)
EXTENDS RegistryEvents

CONSTANTS
  Connection,      \* transport connections
  AllowTcp,        \* the invitations minted with allow_tcp
  SubjectMatches,  \* pairs <<i, s>>: invitation i has no subject, or it is the key of s
  MaxFaults        \* bound: failed appends in one behaviour of FaultySpec

ASSUME AttributeAssumption ==
  /\ AllowTcp \subseteq Invite
  /\ SubjectMatches \subseteq Invite \X Session
  /\ None \notin Connection
  /\ MaxFaults \in Nat

VARIABLES
  up,        \* the host process runs and has opened the registry
  live,      \* RegistryState.invites and RegistryState.sessions, in memory
  durable,   \* the registry state the complete lines of the journal replay to
  file,      \* "clean", "torn": ends in a fragment, "unreadable": a line does not replay
  active,    \* RegistryState.active: the connection served for each session
  closing,   \* connections taken out of `active' and not closed yet
  expired,   \* invitations whose expires_at_unix has passed
  faults     \* failed appends so far

storage == <<durable, file>>
connections == <<active, closing>>
vars == <<up, live, durable, file, active, closing, expired, faults>>

TypeOK ==
  /\ up \in BOOLEAN
  /\ live \in RegistryState
  /\ durable \in RegistryState
  /\ file \in {"clean", "torn", "unreadable"}
  /\ active \in [Session -> Connection \cup {None}]
  /\ closing \in SUBSET Connection
  /\ expired \in SUBSET Invite
  /\ faults \in 0..MaxFaults

NoneActive == [s \in Session |-> None]

Init ==
  /\ up = TRUE
  /\ live = EmptyRegistry
  /\ durable = EmptyRegistry
  /\ file = "clean"
  /\ active = NoneActive
  /\ closing = {}
  /\ expired = {}
  /\ faults = 0

-----------------------------------------------------------------------------
(* Journal *)

(***************************************************************************)
(* A complete line reaches the file.  Behind a fragment, or where the      *)
(* event does not apply to what precedes it, the line makes every later    *)
(* replay fail.                                                            *)
(***************************************************************************)
WriteLine(ev) ==
  IF file = "clean" /\ Applicable(durable, ev)
  THEN durable' = Apply(durable, ev) /\ UNCHANGED file
  ELSE file' = "unreadable" /\ UNCHANGED durable

\* Mutant of Commit: memory changes and the journal does not.
CommitUnsaved(ev) ==
  /\ up
  /\ live' = Apply(live, ev)
  /\ UNCHANGED <<up, durable, file, expired, faults>>

\* append_event followed by apply_registry_event, under the mutex.
Commit(ev) ==
  /\ up
  /\ WriteLine(ev)
  /\ live' = Apply(live, ev)
  /\ UNCHANGED <<up, expired, faults>>

-----------------------------------------------------------------------------
(* Conditions of the operations *)

\* Callers name what they insert by Uuid::new_v4(): never by a name in use.
NewInvites == Invite \ (live.issued \cup durable.issued)
NewSessions == Session \ (Admitted(live) \cup Admitted(durable))

\* insert_for_access
CanInsert(i) == i \notin live.issued /\ Limit[i] > 0

\* Mutant of InviteAdmits: the slots left are not looked at.
InviteAdmitsFull(i) ==
  /\ i \in live.issued \ (live.closed \cup live.revoked)
  /\ i \notin expired

\* can_admit
InviteAdmits(i) ==
  /\ i \in live.issued \ (live.closed \cup live.revoked)
  /\ i \notin expired
  /\ live.remaining[i] > 0

\* Mutant of CanAdmit: the answer can_admit gave for the hello is relied on.
CanAdmitStale(i, s) ==
  /\ s \notin Admitted(live)
  /\ i \in live.issued
  /\ <<i, s>> \in SubjectMatches

\* can_admit_locked.  Only holders of the capability reach this point: the
\* hash comparison is a property of the caller.
CanAdmit(i, s) ==
  /\ s \notin Admitted(live)
  /\ InviteAdmits(i)
  /\ <<i, s>> \in SubjectMatches

\* Neither kicked nor under a revoked invitation.
InGoodStanding(st, s) ==
  /\ s \in Admitted(st)
  /\ s \notin st.kicked
  /\ st.home[s] \notin st.revoked

\* validate_grant_record, for a grant this host signed for session s
CanResume(s) == InGoodStanding(live, s)

\* session_is_active, for an AuthorizedSession of session s at endpoint e
SessionIsActive(s, e) == InGoodStanding(live, s) /\ live.endpoint[s] = e

CanCloseAll == live.issued \ (live.closed \cup live.revoked) # {}

\* The events an operation could be appending in this state.
Appendable ==
  {InviteInserted(i) : i \in {x \in NewInvites : CanInsert(x)}}
  \cup {AdmissionsClosed(i) : i \in live.issued \ live.closed}
  \cup {AllAdmissionsClosed : x \in {y \in {None} : CanCloseAll}}
  \cup {SessionAdmitted(p[1], p[2], p[3]) :
          p \in {q \in Invite \X NewSessions \X Endpoint : CanAdmit(q[1], q[2])}}
  \cup {SessionEndpointUpdated(p[1], p[2]) :
          p \in {s \in Session : CanResume(s)} \X Endpoint}
  \cup {SessionKicked(s) : s \in Unkicked(live)}
  \cup {SessionKickedAndAdmissionsClosed(p[1], p[2]) :
          p \in Unkicked(live) \X live.issued}
  \cup {AllSessionsKicked : s \in Unkicked(live)}
  \cup {AllSessionsKickedAndAdmissionsClosed(p[2]) :
          p \in Unkicked(live) \X live.issued}
  \cup {InviteRevoked(i) : i \in live.issued \ live.revoked}

-----------------------------------------------------------------------------
(* Operations that admit *)

Insert(i) ==
  /\ CanInsert(i)
  /\ Commit(InviteInserted(i))
  /\ UNCHANGED connections

\* admit: the only place where a slot is consumed
Admit(i, s, e) ==
  /\ CanAdmit(i, s)
  /\ Commit(SessionAdmitted(i, s, e))
  /\ UNCHANGED connections

\* admit_tcp
AdmitTcp(i, s, e) ==
  /\ i \in AllowTcp
  /\ Admit(i, s, e)

\* Mutant of Resume: a resume is counted as an admission.
ResumeTakesSlot(s, e) ==
  /\ CanResume(s)
  /\ Commit(SessionAdmitted(live.home[s], s, e))
  /\ UNCHANGED connections

\* resume: the session moves to the endpoint of the connection that proved the grant
Resume(s, e) ==
  /\ CanResume(s)
  /\ Commit(SessionEndpointUpdated(s, e))
  /\ UNCHANGED connections

-----------------------------------------------------------------------------
(* Operations that withdraw *)

\* Mutant of Drop: the connections are forgotten and not closed.
DropUnclosed(sessions) ==
  /\ active' = [s \in Session |-> IF s \in sessions THEN None ELSE active[s]]
  /\ UNCHANGED closing

\* Take the connections of these sessions out of `active'; close them later.
Drop(sessions) ==
  /\ active' = [s \in Session |-> IF s \in sessions THEN None ELSE active[s]]
  /\ closing' = closing \cup ({active[s] : s \in sessions} \ {None})

\* close_admissions, for an issued invitation that is not closed already
CloseAdmissions(i) ==
  /\ i \in live.issued \ live.closed
  /\ Commit(AdmissionsClosed(i))
  /\ UNCHANGED connections

CloseAllAdmissions ==
  /\ CanCloseAll
  /\ Commit(AllAdmissionsClosed)
  /\ UNCHANGED connections

Kick(s) ==
  /\ s \in Unkicked(live)
  /\ Commit(SessionKicked(s))
  /\ Drop({s})

KickAndCloseAdmissions(s, i) ==
  /\ s \in Unkicked(live)
  /\ i \in live.issued
  /\ Commit(SessionKickedAndAdmissionsClosed(s, i))
  /\ Drop({s})

\* kick_all drains the whole map
KickAll ==
  /\ Unkicked(live) # {}
  /\ Commit(AllSessionsKicked)
  /\ Drop(Session)

KickAllAndCloseAdmissions(i) ==
  /\ i \in live.issued
  /\ Unkicked(live) # {}
  /\ Commit(AllSessionsKickedAndAdmissionsClosed(i))
  /\ Drop(Session)

\* Mutant of Revoke: the connections of its sessions stay.
RevokeKeepsConnections(i) ==
  /\ i \in live.issued \ live.revoked
  /\ Commit(InviteRevoked(i))
  /\ UNCHANGED connections

Revoke(i) ==
  /\ i \in live.issued \ live.revoked
  /\ Commit(InviteRevoked(i))
  /\ Drop(HomedAt(live, i))

-----------------------------------------------------------------------------
(* Connections *)

\* Mutant of SessionConnected: the registry is not consulted again.
SessionConnectedUnchecked(s, e, c) ==
  /\ up
  /\ active' = [active EXCEPT ![s] = c]
  /\ closing' = closing \cup ({active[s]} \ {None, c})
  /\ UNCHANGED <<up, live, durable, file, expired, faults>>

(***************************************************************************)
(* session_connected: the connection c, authorized as session s at         *)
(* endpoint e, is about to be served.  The registry is consulted again,    *)
(* because the session may have been removed or moved since; a connection  *)
(* that is replaced is closed after the mutex is released.                 *)
(***************************************************************************)
SessionConnected(s, e, c) ==
  /\ up
  /\ IF SessionIsActive(s, e)
     THEN /\ active' = [active EXCEPT ![s] = c]
          /\ closing' = closing \cup ({active[s]} \ {None, c})
     ELSE /\ closing' = closing \cup {c}
          /\ UNCHANGED active
  /\ UNCHANGED <<up, live, durable, file, expired, faults>>

\* Mutant of SessionDisconnected: whichever connection is registered is removed.
SessionDisconnectedAny(s, c) ==
  /\ up
  /\ active' = [active EXCEPT ![s] = None]
  /\ UNCHANGED <<up, live, durable, file, closing, expired, faults>>

\* session_disconnected: only the connection that is registered removes itself
SessionDisconnected(s, c) ==
  /\ up
  /\ active' = [active EXCEPT ![s] = IF @ = c THEN None ELSE @]
  /\ UNCHANGED <<up, live, durable, file, closing, expired, faults>>

\* connection.close(..), after the mutex is released
CloseConnection(c) ==
  /\ c \in closing
  /\ closing' = closing \ {c}
  /\ UNCHANGED <<up, live, durable, file, active, expired, faults>>

-----------------------------------------------------------------------------
(* The environment: time, crashes, failing writes *)

Expire(i) ==
  /\ i \notin expired
  /\ expired' = expired \cup {i}
  /\ UNCHANGED <<up, live, durable, file, active, closing, faults>>

\* The memory of the process is gone; its connections go with it.
Die ==
  /\ up
  /\ up' = FALSE
  /\ live' = EmptyRegistry
  /\ active' = NoneActive
  /\ closing' = {}
  /\ UNCHANGED <<expired, faults>>

Crash ==
  /\ Die
  /\ UNCHANGED storage

\* The process dies inside append_event: the line is complete, or torn.
CrashDuringAppend(ev) ==
  /\ ev \in Appendable
  /\ Die
  /\ \/ WriteLine(ev)
     \/ /\ file = "clean"
        /\ file' = "torn"
        /\ UNCHANGED durable

\* Mutant of Open: the fragment is skipped by the replay and stays in the file.
OpenUnrepaired ==
  /\ ~up
  /\ file # "unreadable"
  /\ up' = TRUE
  /\ live' = durable
  /\ UNCHANGED <<durable, file, active, closing, expired, faults>>

(***************************************************************************)
(* CapabilityRegistry::open: replay the complete lines, cut the fragment   *)
(* off the file.  Fails, and the host does not start, if a line does not   *)
(* replay.                                                                 *)
(***************************************************************************)
Open ==
  /\ ~up
  /\ file # "unreadable"
  /\ up' = TRUE
  /\ live' = durable
  /\ file' = "clean"
  /\ UNCHANGED <<durable, active, closing, expired, faults>>

\* Mutant of FailAppend: memory is changed before the append is tried.
FailAppendApplied(ev) ==
  /\ up
  /\ faults < MaxFaults
  /\ ev \in Appendable
  /\ faults' = faults + 1
  /\ live' = Apply(live, ev)
  /\ UNCHANGED <<up, durable, file, active, closing, expired>>

(***************************************************************************)
(* append_event returns an error and the process goes on: write_all fails  *)
(* before or after it wrote part of the line, or sync_data fails behind a  *)
(* complete line.  The operation returns the error; nothing changes in     *)
(* memory, and nothing is undone in the file.                              *)
(***************************************************************************)
FailAppend(ev) ==
  /\ up
  /\ faults < MaxFaults
  /\ ev \in Appendable
  /\ faults' = faults + 1
  /\ \/ WriteLine(ev)
     \/ /\ file = "clean"
        /\ file' = "torn"
        /\ UNCHANGED durable
     \/ UNCHANGED storage
  /\ UNCHANGED <<up, live, active, closing, expired>>

-----------------------------------------------------------------------------
Admission ==
  \/ \E i \in NewInvites : Insert(i)
  \/ \E i \in Invite, s \in NewSessions, e \in Endpoint : Admit(i, s, e)
  \/ \E i \in Invite, s \in NewSessions, e \in Endpoint : AdmitTcp(i, s, e)
  \/ \E s \in Session, e \in Endpoint : Resume(s, e)

Withdrawal ==
  \/ \E i \in Invite : CloseAdmissions(i)
  \/ CloseAllAdmissions
  \/ \E s \in Session : Kick(s)
  \/ \E s \in Session, i \in Invite : KickAndCloseAdmissions(s, i)
  \/ KickAll
  \/ \E i \in Invite : KickAllAndCloseAdmissions(i)
  \/ \E i \in Invite : Revoke(i)

Connecting ==
  \/ \E s \in Session, e \in Endpoint, c \in Connection :
       /\ \A t \in Session : active[t] # c
       /\ c \notin closing
       /\ SessionConnected(s, e, c)
  \/ \E s \in Session, c \in Connection : SessionDisconnected(s, c)
  \/ \E c \in Connection : CloseConnection(c)

Environment ==
  \/ \E i \in Invite : Expire(i)
  \/ Crash
  \/ \E ev \in Appendable : CrashDuringAppend(ev)
  \/ Open

Next == Admission \/ Withdrawal \/ Connecting \/ Environment

Spec == Init /\ [][Next]_vars

FaultyNext == Next \/ \E ev \in Appendable : FailAppend(ev)

FaultySpec == Init /\ [][FaultyNext]_vars

-----------------------------------------------------------------------------
(* Properties *)

(***************************************************************************)
(* Slot accounting: the slots an invitation has left and the sessions      *)
(* homed at it add up to what it was minted with, in memory and in the     *)
(* journal, so no interleaving of admissions, crashes and restarts can     *)
(* oversubscribe an invitation or lose a slot (remaining_sessions is a     *)
(* counter that apply_registry_event maintains apart from the sessions).   *)
(***************************************************************************)
SlotsBalancedIn(st) ==
  \A i \in Invite :
    st.remaining[i] + Cardinality(HomedAt(st, i))
      = IF i \in st.issued THEN Limit[i] ELSE 0

SlotsBalanced == SlotsBalancedIn(live) /\ SlotsBalancedIn(durable)

(***************************************************************************)
(* While every append succeeds or kills the process, the journal replays   *)
(* to exactly what the running host enforces, and it always replays.       *)
(***************************************************************************)
LiveIsDurable ==
  /\ file # "unreadable"
  /\ up => live = durable /\ file = "clean"

(***************************************************************************)
(* Whatever is in `active' may be served: no order of kick, revoke, resume *)
(* and session_connected leaves a removed session registered, so the next  *)
(* kick of any kind finds every connection it has to close.                *)
(***************************************************************************)
ActiveInGoodStanding ==
  \A s \in Session : active[s] # None => InGoodStanding(live, s)

(***************************************************************************)
(* st1 is at least as strict as st0: it knows all st0 knows, and withdraws *)
(* all st0 withdraws.                                                      *)
(***************************************************************************)
AtLeastAsStrict(st1, st0) ==
  /\ st0.issued \subseteq st1.issued
  /\ st0.closed \subseteq st1.closed
  /\ st0.revoked \subseteq st1.revoked
  /\ st0.kicked \subseteq st1.kicked
  /\ \A s \in Admitted(st0) : st1.home[s] = st0.home[s]

(***************************************************************************)
(* Failing writes included: every withdrawal the running host enforces is  *)
(* in the journal, so a restart that succeeds at all enforces it too.  A   *)
(* journal may know more (an event whose sync failed), never less.         *)
(***************************************************************************)
AcknowledgedDenialsAreDurable ==
  up /\ file # "unreadable" => AtLeastAsStrict(durable, live)

(***************************************************************************)
(* "crash-tolerant, append-only journal" (CapabilityRegistry::open): the   *)
(* host can always be restarted from its journal.                          *)
(***************************************************************************)
JournalStaysReadable == file # "unreadable"

-----------------------------------------------------------------------------
(* Refinement *)

\* What the host enforces, or will enforce once it has restarted.
Enforced == IF up THEN live ELSE durable

Ledger == INSTANCE AuthorizationLedger WITH
  known   <- Enforced.issued,
  open    <- Enforced.issued \ (Enforced.closed \cup Enforced.revoked),
  granted <- Enforced.home,
  denied  <- {s \in Admitted(Enforced) : ~InGoodStanding(Enforced, s)}

(***************************************************************************)
(* The registry implements the ledger: crashes, torn appends and restarts  *)
(* are invisible, a withdrawal is one step however many rights it          *)
(* withdraws, and nothing withdrawn ever comes back.                       *)
(***************************************************************************)
ImplementsLedger == Ledger!Spec
=============================================================================
