------------------------- MODULE AuthorizationLedger ------------------------
(***************************************************************************)
(* What the capability registry promises, with no journal, no lock, no     *)
(* connection and no crash: a ledger of who was admitted through which     *)
(* invitation and who has been removed.  The ledger only moves forward.    *)
(* There is deliberately no restart action: restarting the host must be    *)
(* invisible here.  CapabilityRegistry implements this module.             *)
(***************************************************************************)
EXTENDS Naturals, FiniteSets

CONSTANTS
  Invite, Session,
  Limit,        \* how many sessions an invitation may admit
  None

VARIABLES
  known,        \* invitations ever issued
  open,         \* invitations that still admit sessions
  granted,      \* granted[s]: the invitation s was admitted through, or None
  denied        \* sessions removed for good

vars == <<known, open, granted, denied>>

Init ==
  /\ known = {}
  /\ open = {}
  /\ granted = [s \in Session |-> None]
  /\ denied = {}

Through(i) == {s \in Session : granted[s] = i}

Issue(i) ==
  /\ i \notin known
  /\ known' = known \cup {i}
  /\ open' = open \cup {i}
  /\ UNCHANGED <<granted, denied>>

\* An open invitation admits a new session while it has a slot left.
Grant(s, i) ==
  /\ i \in open
  /\ granted[s] = None
  /\ Cardinality(Through(i)) < Limit[i]
  /\ granted' = [granted EXCEPT ![s] = i]
  /\ UNCHANGED <<known, open, denied>>

\* Closing, kicking and revoking: rights are withdrawn together or not at all.
Withdraw(invites, sessions) ==
  /\ open' = open \ invites
  /\ denied' = denied \cup sessions
  /\ UNCHANGED <<known, granted>>

Next ==
  \/ \E i \in Invite : Issue(i)
  \/ \E s \in Session, i \in Invite : Grant(s, i)
  \/ \E invites \in SUBSET Invite, sessions \in SUBSET Session :
       Withdraw(invites, sessions)

Spec == Init /\ [][Next]_vars
=============================================================================
