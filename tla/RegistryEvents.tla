--------------------------- MODULE RegistryEvents ---------------------------
(***************************************************************************)
(* The authorization journal of urspace-host: what one RegistryEvent means *)
(* (crates/urspace-host/src/lib.rs, apply_registry_event).                 *)
(*                                                                         *)
(* A registry state is the persistent part of RegistryState: the two maps  *)
(* `invites' and `sessions'.  It is kept here as sets and functions over   *)
(* the identifiers instead of maps of records.  Invitation and session     *)
(* identifiers are fresh version 4 UUIDs, and the attributes an invitation *)
(* is minted with never change, so those attributes are constants of the   *)
(* identifier.  InviteRecord.admitted_sessions is HomedAt below.           *)
(*                                                                         *)
(* Left out: access labels and operator handles, which are display data    *)
(* with no bearing on who is admitted.                                     *)
(***************************************************************************)
EXTENDS Naturals, FiniteSets

CONSTANTS
  Invite,       \* invitation identifiers
  Session,      \* session identifiers
  Endpoint,     \* endpoint identifiers a browser can connect from
  Limit,        \* Limit[i]: max_sessions invitation i is minted with
  None          \* absence of a value

ASSUME LimitAssumption == Limit \in [Invite -> Nat]

\* A session identifier is a 128-bit UUID.
ASSUME SessionAssumption == IsFiniteSet(Session)

ASSUME NoneAssumption == None \notin Invite /\ None \notin Session /\ None \notin Endpoint

(***************************************************************************)
(* issued:    keys of `invites'          closed:  admissions_closed        *)
(* revoked:   revoked                    remaining: remaining_sessions     *)
(* home:      SessionRecord.invite_id, None for a session not in the map   *)
(* endpoint:  SessionRecord.endpoint_id  kicked:  SessionRecord.kicked     *)
(***************************************************************************)
RegistryState ==
  [issued    : SUBSET Invite,
   closed    : SUBSET Invite,
   revoked   : SUBSET Invite,
   remaining : [Invite -> Nat],
   home      : [Session -> Invite \cup {None}],
   endpoint  : [Session -> Endpoint \cup {None}],
   kicked    : SUBSET Session]

EmptyRegistry ==
  [issued    |-> {},
   closed    |-> {},
   revoked   |-> {},
   remaining |-> [i \in Invite |-> 0],
   home      |-> [s \in Session |-> None],
   endpoint  |-> [s \in Session |-> None],
   kicked    |-> {}]

\* The keys of `sessions'.
Admitted(st) == {s \in Session : st.home[s] # None}

\* The sessions admitted through invitation i.
HomedAt(st, i) == {s \in Session : st.home[s] = i}

\* Sessions an operator may still see or remove: known and not kicked.
Unkicked(st) == Admitted(st) \ st.kicked

-----------------------------------------------------------------------------
(* Journal events.  Every event has the same fields; the ones its type does *)
(* not carry are None.                                                      *)

EventType ==
  {"InviteInserted", "AdmissionsClosed", "AllAdmissionsClosed",
   "SessionAdmitted", "SessionEndpointUpdated", "SessionKicked",
   "SessionKickedAndAdmissionsClosed", "AllSessionsKicked",
   "AllSessionsKickedAndAdmissionsClosed", "InviteRevoked"}

Event(t, i, s, e) == [type |-> t, invite |-> i, session |-> s, endpoint |-> e]

InviteInserted(i)      == Event("InviteInserted", i, None, None)
AdmissionsClosed(i)    == Event("AdmissionsClosed", i, None, None)
AllAdmissionsClosed    == Event("AllAdmissionsClosed", None, None, None)
SessionAdmitted(i, s, e)     == Event("SessionAdmitted", i, s, e)
SessionEndpointUpdated(s, e) == Event("SessionEndpointUpdated", None, s, e)
SessionKicked(s)       == Event("SessionKicked", None, s, None)
SessionKickedAndAdmissionsClosed(s, i) ==
  Event("SessionKickedAndAdmissionsClosed", i, s, None)
AllSessionsKicked      == Event("AllSessionsKicked", None, None, None)
AllSessionsKickedAndAdmissionsClosed(i) ==
  Event("AllSessionsKickedAndAdmissionsClosed", i, None, None)
InviteRevoked(i)       == Event("InviteRevoked", i, None, None)

JournalEvent ==
  [type : EventType, invite : Invite \cup {None},
   session : Session \cup {None}, endpoint : Endpoint \cup {None}]

(***************************************************************************)
(* The conditions under which apply_registry_event accepts an event; every *)
(* other event makes it return "authorization journal is inconsistent".    *)
(***************************************************************************)
Applicable(st, ev) ==
  LET Is(types) == ev.type \in types IN
  /\ Is({"InviteInserted"}) =>
       ev.invite \in Invite \ st.issued /\ Limit[ev.invite] > 0
  /\ Is({"AdmissionsClosed", "InviteRevoked", "SessionKickedAndAdmissionsClosed",
         "AllSessionsKickedAndAdmissionsClosed"}) => ev.invite \in st.issued
  /\ Is({"SessionEndpointUpdated", "SessionKicked",
         "SessionKickedAndAdmissionsClosed"}) => ev.session \in Admitted(st)
  /\ Is({"SessionAdmitted", "SessionEndpointUpdated"}) => ev.endpoint \in Endpoint
  /\ Is({"SessionAdmitted"}) =>
       /\ ev.session \in Session \ Admitted(st)
       /\ ev.invite \in st.issued \ (st.closed \cup st.revoked)
       /\ st.remaining[ev.invite] > 0

(***************************************************************************)
(* The state after an applicable event, field by field: which events touch *)
(* the field, and how.                                                     *)
(***************************************************************************)
Apply(st, ev) ==
  LET Is(types) == ev.type \in types IN
  [issued |->
     IF Is({"InviteInserted"}) THEN st.issued \cup {ev.invite} ELSE st.issued,
   closed |->
     IF Is({"AllAdmissionsClosed"}) THEN st.issued
     ELSE IF Is({"AdmissionsClosed", "SessionKickedAndAdmissionsClosed",
                 "AllSessionsKickedAndAdmissionsClosed"})
     THEN st.closed \cup {ev.invite}
     ELSE st.closed,
   revoked |->
     IF Is({"InviteRevoked"}) THEN st.revoked \cup {ev.invite} ELSE st.revoked,
   remaining |->
     IF Is({"InviteInserted"})
     THEN [st.remaining EXCEPT ![ev.invite] = Limit[ev.invite]]
     ELSE IF Is({"SessionAdmitted"})
     THEN [st.remaining EXCEPT ![ev.invite] = @ - 1]
     ELSE st.remaining,
   home |->
     IF Is({"SessionAdmitted"})
     THEN [st.home EXCEPT ![ev.session] = ev.invite]
     ELSE st.home,
   endpoint |->
     IF Is({"SessionAdmitted", "SessionEndpointUpdated"})
     THEN [st.endpoint EXCEPT ![ev.session] = ev.endpoint]
     ELSE st.endpoint,
   kicked |->
     IF Is({"AllSessionsKicked", "AllSessionsKickedAndAdmissionsClosed"})
     THEN Admitted(st)
     ELSE IF Is({"SessionKicked", "SessionKickedAndAdmissionsClosed"})
     THEN st.kicked \cup {ev.session}
     ELSE st.kicked]
=============================================================================
