------------------------- MODULE SiteProtocolProofs -------------------------
(***************************************************************************)
(* Proofs about SiteProtocol, for any set of connections, sessions and     *)
(* invitations: every connection that is served can be reached by the next *)
(* kick, a grant a browser holds survives a restart, and whoever is        *)
(* admitted is admitted through an invitation that is open at that moment. *)
(***************************************************************************)
EXTENDS SiteProtocol, CapabilityRegistryProofs

-----------------------------------------------------------------------------
(* The inductive invariant *)

\* The handler has not called session_connected yet.
Unserved == {"fresh", "challenged", "finalized", "granted"}

\* The registry has admitted or resumed the session of the connection.
Known == {"finalized", "granted", "serving"}

\* Past the hello a connection has a session.
SessionsNamed ==
  \A c \in Connection : conn[c].phase \in {"challenged"} \cup Known => conn[c].session \in Session

\* A connection is registered for the session it serves, and for no other.
RegisteredAreServed ==
  \A s \in Session, c \in Connection :
    active[s] = c => conn[c].phase = "serving" /\ conn[c].session = s

\* The host closes only what it has served.
UnservedAreKept == \A c \in Connection : conn[c].phase \in Unserved => c \notin closing

\* What the registry has said of a session is in the journal.
KnownAreDurable ==
  \A c \in Connection : conn[c].phase \in Known => conn[c].session \in Admitted(durable)

ConnectionInv ==
  /\ SiteTypeOK
  /\ SessionsNamed
  /\ RegisteredAreServed
  /\ UnservedAreKept
  /\ KnownAreDurable
  /\ GrantsAreDurable
  /\ NoOrphanServing

SiteInvariant == RegistryInv /\ LiveIsDurable /\ ConnectionInv

\* No connection has been accepted, and nobody admitted.
LEMMA SiteInitially ==
  ASSUME SiteInit
  PROVE  SiteInvariant
<1>1. RegistryInv
  BY InitInv DEF SiteInit
<1>2. LiveIsDurable
  BY DEF SiteInit, Init, LiveIsDurable
<1>3. ConnectionInv
  BY <1>1, NoneAssumption, AttributeAssumption
     DEF RegistryInv, SiteInit, Init, NoneActive, NoTask, ConnectionInv, SiteTypeOK, Task, Phase,
         Work, Unserved, Known, SessionsNamed, RegisteredAreServed, UnservedAreKept,
         KnownAreDurable, GrantsAreDurable, NoOrphanServing
<1> QED BY <1>1, <1>2, <1>3 DEF SiteInvariant

-----------------------------------------------------------------------------
(* Every step is one of the registry *)

\* While the host runs, a session is new for memory and journal alike.
LEMMA NewIsNew ==
  ASSUME SiteInvariant, up, NEW s \in Session \ Admitted(live)
  PROVE  s \in NewSessions
BY DEF SiteInvariant, LiveIsDurable, NewSessions

\* The handlers use the registry as its specification allows.
LEMMA SiteStepIsRegistryStep ==
  ASSUME SiteInvariant, [SiteNext]_siteVars
  PROVE  [Next]_vars
<1> USE DEF SiteInvariant, ConnectionInv
<1>1. ASSUME NEW c \in Connection, Handshake(c)
      PROVE  [Next]_vars
  <2>1. CASE ProveAdmit(c)
    <3> DEFINE i == conn[c].invite
               s == conn[c].session
    <3>1. /\ conn[c].phase = "challenged" /\ i \in Invite /\ s \in Session
          /\ EndpointOf[c] \in Endpoint
      BY <2>1, ConnectionAssumption DEF ProveAdmit, SiteTypeOK, Task, SessionsNamed
    <3>2. Admit(i, s, EndpointOf[c])
      BY <2>1 DEF ProveAdmit, AdmitTcp
    <3>3. s \in NewSessions
      BY <3>1, <3>2, NewIsNew DEF Admit, CanAdmit, Commit
    <3> QED BY <3>1, <3>2, <3>3 DEF Next, Admission
  <2>2. CASE ProveResume(c)
    BY <2>2, ConnectionAssumption DEF ProveResume, SessionsNamed, Next, Admission
  <2>3. CASE IssueFails(c)
    BY <2>3 DEF IssueFails, Unkicked, Admitted, Next, Withdrawal
  <2>4. CASE ~(ProveAdmit(c) \/ ProveResume(c) \/ IssueFails(c))
    BY <1>1, <2>4 DEF Handshake, HelloAdmit, HelloResume, HelloDenied, ProofRejected,
                      WriteReply, ReplyFails
  <2> QED BY <2>1, <2>2, <2>3, <2>4
<1>2. ASSUME NEW c \in Connection, Serving(c)
      PROVE  [Next]_vars
  <2>1. CASE Connected(c)
    <3>1. /\ conn[c].phase = "granted" /\ conn[c].session \in Session
          /\ EndpointOf[c] \in Endpoint
      BY <2>1, ConnectionAssumption DEF Connected, SessionsNamed, Known
    <3>2. c \notin closing /\ \A t \in Session : active[t] # c
      BY <3>1 DEF UnservedAreKept, RegisteredAreServed, Unserved
    <3> QED BY <2>1, <3>1, <3>2 DEF Connected, Next, Connecting
  <2>2. CASE Disconnected(c)
    BY <2>2 DEF Disconnected, SessionsNamed, Known, Next, Connecting
  <2>3. CASE ~(Connected(c) \/ Disconnected(c))
    BY <1>2, <2>3 DEF Serving, StreamChecked, StreamWaits, QueuedStreamRuns, StreamEnds,
                      SocketRevoked, StreamStarts, StreamFlows, StreamStalls
  <2> QED BY <2>1, <2>2, <2>3
<1>3. ASSUME NEW c \in Connection, ConnectionLost(c) \/ HostCloses(c)
      PROVE  [Next]_vars
  BY <1>3 DEF ConnectionLost, HostCloses, Next, Connecting
<1>4. CASE Operator
  BY <1>4 DEF Operator, Next, Admission, Environment
<1>5. CASE HostCrash \/ HostStart
  BY <1>5 DEF HostCrash, HostStart, Next, Environment
<1>6. CASE UNCHANGED siteVars
  BY <1>6 DEF siteVars
<1> QED BY <1>1, <1>2, <1>3, <1>4, <1>5, <1>6 DEF SiteNext
-----------------------------------------------------------------------------
(* What a step does to the registry, to `active' and to one connection *)

\* Memory and journal stay together, and no admitted session is forgotten.
LEMMA RegistryPart ==
  ASSUME SiteInvariant, [Next]_vars
  PROVE  RegistryInv' /\ LiveIsDurable' /\ Admitted(durable) \subseteq Admitted(durable')
<1>1. RegistryInv'
  BY NextInv DEF SiteInvariant, FaultyNext
<1> QED BY <1>1, StepJournalled, JournalGrows DEF SiteInvariant

\* Connections are at most taken out of `active', and then they will be closed.
TakenOut ==
  /\ closing \subseteq closing'
  /\ \A c \in closing' \ closing : \E s \in Session : active[s] = c
  /\ \A s \in Session :
       \/ active'[s] = active[s]
       \/ active'[s] = None /\ (active[s] # None => active[s] \in closing')

\* That is all a withdrawal does to connections.
LEMMA WithdrawalTakesOut ==
  ASSUME TypeOK, Withdrawal \/ UNCHANGED <<active, closing>>
  PROVE  TakenOut
<1>1. ASSUME NEW sessions \in SUBSET Session, Drop(sessions)
      PROVE  TakenOut
  BY <1>1 DEF Drop, TakenOut
<1>2. CASE Withdrawal
  <2>1. \/ UNCHANGED connections
        \/ \E sessions \in SUBSET Session : Drop(sessions)
    <3>1. \A i : HomedAt(live, i) \in SUBSET Session
      BY DEF HomedAt
    <3> QED BY <1>2, <3>1 DEF Withdrawal, CloseAdmissions, CloseAllAdmissions, Kick,
                   KickAndCloseAdmissions, KickAll, KickAllAndCloseAdmissions, Revoke
  <2> QED BY <1>1, <2>1 DEF TakenOut, connections
<1> QED BY <1>2 DEF TakenOut

\* A handler that moves on changes the phase of its connection only.
LEMMA MoveEffect ==
  ASSUME conn \in [Connection -> Task], NEW c \in Connection, NEW phase \in Phase, MoveTo(c, phase)
  PROVE  /\ conn' \in [Connection -> Task]
         /\ conn'[c].phase = phase /\ conn'[c].session = conn[c].session
         /\ \A d \in Connection \ {c} : conn'[d] = conn[d]
BY DEF MoveTo, Task

(***************************************************************************)
(* How a connection may move up to the call of session_connected: it ends, *)
(* its hello is acceptable, or the registry has spoken for its session.    *)
(***************************************************************************)
Moves(c) ==
  \/ conn'[c] = conn[c]
  \/ conn[c].phase \in Unserved /\ conn'[c].phase = "ended"
  \/ conn[c].phase = "fresh" /\ conn'[c].phase = "challenged" /\ conn'[c].session \in Session
  \/ /\ conn[c].phase \in Unserved /\ conn'[c].phase \in {"finalized", "granted"}
     /\ conn'[c].session \in Admitted(durable')

\* The types of what the handlers keep
HandlerTypes ==
  /\ conn \in [Connection -> Task]
  /\ shut \in SUBSET Connection
  /\ work \in [Connection -> Work]
  /\ queued \in SUBSET Connection
  /\ held \in SUBSET Session

-----------------------------------------------------------------------------
(* Steps *)

\* Before session_connected, and whatever withdraws meanwhile
LEMMA MovesStep ==
  ASSUME SiteInvariant, [Next]_vars, TakenOut, HandlerTypes', shut \subseteq shut',
         \A c \in Connection : Moves(c), held' \subseteq Admitted(durable')
  PROVE  ConnectionInv'
<1> USE DEF SiteInvariant, ConnectionInv
<1>0. RegistryInv' /\ Admitted(durable) \subseteq Admitted(durable')
  BY RegistryPart
<1>1. SiteTypeOK'
  BY <1>0 DEF RegistryInv, SiteTypeOK, HandlerTypes
<1>2. SessionsNamed'
  BY <1>0 DEF Moves, SessionsNamed, Known, Unserved, Admitted
<1>3. RegisteredAreServed'
  BY AttributeAssumption DEF TakenOut, Moves, RegisteredAreServed, Unserved
<1>4. UnservedAreKept'
  BY DEF TakenOut, Moves, UnservedAreKept, RegisteredAreServed, Unserved
<1>5. KnownAreDurable'
  BY <1>0 DEF Moves, KnownAreDurable, Known
<1>6. GrantsAreDurable'
  BY DEF GrantsAreDurable
<1>7. NoOrphanServing'
  BY AttributeAssumption DEF TakenOut, Moves, NoOrphanServing, SessionsNamed, Known, Unserved
<1> QED BY <1>1, <1>2, <1>3, <1>4, <1>5, <1>6, <1>7

\* The handshake
LEMMA HandshakeStep ==
  ASSUME SiteInvariant, [Next]_vars, NEW c \in Connection, Handshake(c)
  PROVE  ConnectionInv'
<1> USE DEF SiteInvariant, ConnectionInv, SiteTypeOK
<1>0. /\ RegistryInv' /\ LiveIsDurable' /\ LiveIsDurable
      /\ Admitted(durable) \subseteq Admitted(durable')
  BY RegistryPart
<1>1. ASSUME NEW i \in Invite, NEW s \in Session, HelloAdmit(c, i, s)
      PROVE  ConnectionInv'
  <2>1. /\ conn' = [conn EXCEPT ![c] = [phase |-> "challenged", invite |-> i, session |-> s]]
        /\ conn[c].phase = "fresh" /\ UNCHANGED <<vars, shut, work, queued, held>>
    BY <1>1 DEF HelloAdmit
  <2>2. HandlerTypes' /\ \A d \in Connection : Moves(d)
    BY <2>1 DEF HandlerTypes, Task, Phase, Moves
  <2> QED BY <2>1, <2>2, MovesStep, WithdrawalTakesOut DEF vars, GrantsAreDurable
<1>2. ASSUME NEW s \in Session, HelloResume(c, s)
      PROVE  ConnectionInv'
  <2>1. /\ conn' = [conn EXCEPT ![c] = [phase |-> "challenged", invite |-> None, session |-> s]]
        /\ conn[c].phase = "fresh" /\ UNCHANGED <<vars, shut, work, queued, held>>
    BY <1>2 DEF HelloResume
  <2>2. HandlerTypes' /\ \A d \in Connection : Moves(d)
    BY <2>1 DEF HandlerTypes, Task, Phase, Moves
  <2> QED BY <2>1, <2>2, MovesStep, WithdrawalTakesOut DEF vars, GrantsAreDurable
<1>3. CASE HelloDenied(c) \/ ProofRejected(c) \/ ReplyFails(c) \/ IssueFails(c)
  <2>1. /\ MoveTo(c, "ended") /\ shut' = shut \cup {c} /\ conn[c].phase \in Unserved
        /\ UNCHANGED <<work, queued, held>>
    BY <1>3 DEF HelloDenied, ProofRejected, ReplyFails, IssueFails, Return, Unserved
  <2>2. HandlerTypes' /\ \A d \in Connection : Moves(d)
    BY <2>1, MoveEffect DEF HandlerTypes, Phase, Moves
  <2>3. Withdrawal \/ UNCHANGED <<active, closing>>
    BY <1>3 DEF HelloDenied, ProofRejected, ReplyFails, IssueFails, vars, Withdrawal,
                Unkicked, Admitted
  <2> QED BY <1>0, <2>1, <2>2, <2>3, MovesStep, WithdrawalTakesOut DEF GrantsAreDurable
<1>4. CASE ProveAdmit(c) \/ ProveResume(c)
  <2>1. /\ MoveTo(c, "finalized") /\ conn[c].phase = "challenged"
        /\ UNCHANGED <<active, closing, shut, work, queued, held>>
    BY <1>4 DEF ProveAdmit, ProveResume, AdmitTcp, Admit, Resume, connections
  <2>2. conn[c].session \in Session
    BY <2>1 DEF SessionsNamed
  <2>3. conn[c].session \in Admitted(durable')
    <3>1. CASE ProveAdmit(c)
      <4> DEFINE i == conn[c].invite
                 s == conn[c].session
      <4>1. i \in Invite /\ Commit(SessionAdmitted(i, s, EndpointOf[c])) /\ up /\ up'
        BY <3>1 DEF ProveAdmit, AdmitTcp, Admit, Commit, Task
      <4>2. live' = Apply(live, SessionAdmitted(i, s, EndpointOf[c])) /\ live' = durable'
        BY <1>0, <4>1 DEF Commit, LiveIsDurable
      <4>3. live'.home = [live.home EXCEPT ![s] = i]
        BY <4>2 DEF Apply, SessionAdmitted, Event
      <4> QED BY <2>2, <4>1, <4>2, <4>3, NoneAssumption DEF Admitted, TypeOK, RegistryState
    <3>2. CASE ProveResume(c)
      BY <1>0, <3>2 DEF ProveResume, Resume, Commit, CanResume, InGoodStanding, LiveIsDurable
    <3> QED BY <1>4, <3>1, <3>2
  <2>4. HandlerTypes' /\ \A d \in Connection : Moves(d)
    BY <2>1, <2>3, MoveEffect DEF HandlerTypes, Phase, Moves, Unserved
  <2> QED BY <1>0, <2>1, <2>4, MovesStep, WithdrawalTakesOut DEF GrantsAreDurable
<1>5. CASE WriteReply(c)
  <2>1. /\ MoveTo(c, "granted") /\ conn[c].phase = "finalized"
        /\ held' \in {held, held \cup {conn[c].session}}
        /\ UNCHANGED <<vars, shut, work, queued>>
    BY <1>5 DEF WriteReply
  <2>2. conn[c].session \in Admitted(durable) /\ conn[c].session \in Session
    BY <2>1 DEF KnownAreDurable, SessionsNamed, Known
  <2>3. HandlerTypes' /\ \A d \in Connection : Moves(d)
    BY <1>0, <2>1, <2>2, MoveEffect DEF HandlerTypes, Phase, Moves, Unserved
  <2> QED BY <1>0, <2>1, <2>2, <2>3, MovesStep, WithdrawalTakesOut DEF GrantsAreDurable, vars
<1> QED BY <1>1, <1>2, <1>3, <1>4, <1>5 DEF Handshake

(***************************************************************************)
(* session_connected: either the session is gone or moved and the          *)
(* connection will be closed, or it is registered and the one registered   *)
(* before it will be closed.                                               *)
(***************************************************************************)
LEMMA ConnectedStep ==
  ASSUME SiteInvariant, [Next]_vars, NEW c \in Connection, Connected(c)
  PROVE  ConnectionInv'
<1> USE DEF SiteInvariant, ConnectionInv, SiteTypeOK
<1> DEFINE s == conn[c].session
<1>0. RegistryInv' /\ Admitted(durable) \subseteq Admitted(durable')
  BY RegistryPart
<1>1. /\ conn[c].phase = "granted" /\ MoveTo(c, "serving") /\ s \in Session
      /\ SessionConnected(s, EndpointOf[c], c)
      /\ UNCHANGED <<shut, work, queued, held>>
  BY DEF Connected, SessionsNamed, Known
<1>2. /\ conn' \in [Connection -> Task]
      /\ conn'[c].phase = "serving" /\ conn'[c].session = s
      /\ \A d \in Connection \ {c} : conn'[d] = conn[d]
  BY <1>1, MoveEffect DEF Phase
<1>3. /\ \A t \in Session : active[t] # c
      /\ active \in [Session -> Connection \cup {None}]
  BY <1>1 DEF RegisteredAreServed, TypeOK
<1>4. \/ /\ active' = [active EXCEPT ![s] = c]
         /\ closing' = closing \cup ({active[s]} \ {None, c})
      \/ closing' = closing \cup {c} /\ active' = active
  BY <1>1 DEF SessionConnected
<1>5. SiteTypeOK'
  BY <1>0, <1>1, <1>2 DEF RegistryInv
<1>6. SessionsNamed'
  BY <1>1, <1>2 DEF SessionsNamed, Known
<1>7. RegisteredAreServed'
  BY <1>2, <1>3, <1>4 DEF RegisteredAreServed
<1>8. UnservedAreKept'
  BY <1>1, <1>2, <1>3, <1>4 DEF UnservedAreKept, RegisteredAreServed, Unserved
<1>9. KnownAreDurable'
  BY <1>0, <1>1, <1>2 DEF KnownAreDurable, Known
<1>10. GrantsAreDurable'
  BY <1>0, <1>1 DEF GrantsAreDurable
<1>11. NoOrphanServing'
  <2> SUFFICES ASSUME NEW d \in Connection, conn'[d].phase = "serving", d \notin shut' \cup closing'
               PROVE  active'[conn'[d].session] = d
    BY DEF NoOrphanServing
  <2>1. CASE d = c
    BY <1>1, <1>2, <1>3, <1>4, <2>1
  <2>2. CASE d # c
    <3>1. /\ conn[d].phase = "serving" /\ conn'[d] = conn[d] /\ d \notin shut \cup closing
          /\ conn[d].session \in Session
      BY <1>1, <1>2, <1>4, <2>2 DEF SessionsNamed, Known
    <3>2. active[conn[d].session] = d
      BY <3>1 DEF NoOrphanServing
    <3> QED BY <1>3, <1>4, <2>2, <3>1, <3>2, AttributeAssumption
  <2> QED BY <2>1, <2>2
<1> QED BY <1>5, <1>6, <1>7, <1>8, <1>9, <1>10, <1>11

\* session_disconnected takes out the connection that ends, and no other.
LEMMA DisconnectedStep ==
  ASSUME SiteInvariant, [Next]_vars, NEW c \in Connection, Disconnected(c)
  PROVE  ConnectionInv'
<1> USE DEF SiteInvariant, ConnectionInv, SiteTypeOK
<1> DEFINE s == conn[c].session
<1>0. RegistryInv' /\ Admitted(durable) \subseteq Admitted(durable')
  BY RegistryPart
<1>1. /\ conn[c].phase = "serving" /\ MoveTo(c, "ended") /\ s \in Session
      /\ active' = [active EXCEPT ![s] = IF @ = c THEN None ELSE @] /\ closing' = closing
      /\ shut' = shut \cup {c} /\ UNCHANGED <<work, queued, held>>
  BY DEF Disconnected, SessionDisconnected, Return, SessionsNamed, Known
<1>2. /\ conn' \in [Connection -> Task] /\ conn'[c].phase = "ended"
      /\ \A d \in Connection \ {c} : conn'[d] = conn[d]
  BY <1>1, MoveEffect DEF Phase
<1>3. \A t \in Session, d \in Connection : active'[t] = d <=> active[t] = d /\ d # c
  <2>1. active \in [Session -> Connection \cup {None}]
    BY DEF TypeOK
  <2>2. \A t \in Session \ {s} : active[t] # c
    BY DEF RegisteredAreServed
  <2> QED BY <1>1, <2>1, <2>2, AttributeAssumption
<1>4. SiteTypeOK'
  BY <1>0, <1>1, <1>2 DEF RegistryInv
<1>5. SessionsNamed' /\ KnownAreDurable' /\ GrantsAreDurable'
  BY <1>0, <1>1, <1>2 DEF SessionsNamed, KnownAreDurable, GrantsAreDurable, Known
<1>6. RegisteredAreServed'
  BY <1>2, <1>3 DEF RegisteredAreServed
<1>7. UnservedAreKept'
  BY <1>1, <1>2 DEF UnservedAreKept, Unserved
<1>8. NoOrphanServing'
  BY <1>1, <1>2, <1>3 DEF NoOrphanServing, SessionsNamed, Known
<1> QED BY <1>4, <1>5, <1>6, <1>7, <1>8

\* A step of a stream, of the operator, of the clock or of the network leaves
\* every task where it is.
LEMMA StayingStep ==
  ASSUME SiteInvariant, [Next]_vars, UNCHANGED <<conn, held>>, shut \subseteq shut',
         shut' \in SUBSET Connection, work' \in [Connection -> Work],
         queued' \in SUBSET Connection, Withdrawal \/ UNCHANGED <<active, closing>>
  PROVE  ConnectionInv'
<1>1. HandlerTypes' /\ \A d \in Connection : Moves(d)
  BY DEF SiteInvariant, ConnectionInv, SiteTypeOK, HandlerTypes, Moves
<1>2. TakenOut
  BY WithdrawalTakesOut DEF SiteInvariant, RegistryInv
<1>3. held' \subseteq Admitted(durable')
  BY RegistryPart DEF SiteInvariant, ConnectionInv, GrantsAreDurable
<1> QED BY <1>1, <1>2, <1>3, MovesStep

\* Registering, deregistering and streams
LEMMA ServingStep ==
  ASSUME SiteInvariant, [Next]_vars, NEW c \in Connection, Serving(c)
  PROVE  ConnectionInv'
<1>1. CASE Connected(c)
  BY <1>1, ConnectedStep
<1>2. CASE Disconnected(c)
  BY <1>2, DisconnectedStep
<1>3. CASE ~(Connected(c) \/ Disconnected(c))
  <2>1. /\ shut \in SUBSET Connection /\ work \in [Connection -> Work]
        /\ queued \in SUBSET Connection
    BY DEF SiteInvariant, ConnectionInv, SiteTypeOK
  <2>2. /\ UNCHANGED <<vars, conn, shut, held>>
        /\ work' \in [Connection -> Work] /\ queued' \in SUBSET Connection
    BY <1>3, <2>1 DEF Serving, StreamChecked, StreamWaits, QueuedStreamRuns, StreamEnds,
                      SocketRevoked, StreamStarts, StreamFlows, StreamStalls, Work
  <2> QED BY <2>1, <2>2, StayingStep DEF vars
<1> QED BY <1>1, <1>2, <1>3

\* A connection the host had taken out is closed.
LEMMA HostClosesStep ==
  ASSUME SiteInvariant, [Next]_vars, NEW c \in Connection, HostCloses(c)
  PROVE  ConnectionInv'
<1> USE DEF SiteInvariant, ConnectionInv, SiteTypeOK
<1>0. RegistryInv' /\ Admitted(durable) \subseteq Admitted(durable')
  BY RegistryPart
<1>1. /\ closing' = closing \ {c} /\ shut' = shut \cup {c}
      /\ UNCHANGED <<active, conn, work, queued, held>>
  BY DEF HostCloses, CloseConnection
<1>2. SiteTypeOK'
  BY <1>0, <1>1 DEF RegistryInv
<1>3. SessionsNamed' /\ RegisteredAreServed' /\ UnservedAreKept'
  BY <1>1 DEF SessionsNamed, RegisteredAreServed, UnservedAreKept
<1>4. KnownAreDurable' /\ GrantsAreDurable'
  BY <1>0, <1>1 DEF KnownAreDurable, GrantsAreDurable
<1>5. NoOrphanServing'
  BY <1>1 DEF NoOrphanServing
<1> QED BY <1>2, <1>3, <1>4, <1>5

\* The process dies: nothing is served, and nothing registered.
LEMMA HostCrashStep ==
  ASSUME SiteInvariant, [Next]_vars, HostCrash
  PROVE  ConnectionInv'
<1> USE DEF SiteInvariant, ConnectionInv, SiteTypeOK
<1>0. RegistryInv' /\ Admitted(durable) \subseteq Admitted(durable')
  BY RegistryPart
<1>1. /\ active' = NoneActive /\ closing' = {} /\ held' = held /\ queued' = {}
      /\ work' = [c \in Connection |-> "none"]
      /\ shut' = shut \cup {c \in Connection : conn[c].phase # "fresh"}
      /\ conn' = [c \in Connection |-> IF conn[c].phase = "fresh" THEN conn[c]
                                       ELSE [conn[c] EXCEPT !.phase = "ended"]]
  BY DEF HostCrash, Crash, Die
<1>2. /\ conn' \in [Connection -> Task]
      /\ \A c \in Connection : conn'[c].phase \in {"fresh", "ended"}
  BY <1>1 DEF Task, Phase
<1>3. SiteTypeOK'
  BY <1>0, <1>1, <1>2 DEF RegistryInv, Work
<1>4. SessionsNamed' /\ UnservedAreKept' /\ KnownAreDurable' /\ NoOrphanServing'
  BY <1>1, <1>2 DEF SessionsNamed, UnservedAreKept, KnownAreDurable, NoOrphanServing, Known
<1>5. RegisteredAreServed'
  BY <1>1, AttributeAssumption DEF NoneActive, RegisteredAreServed
<1>6. GrantsAreDurable'
  BY <1>0, <1>1 DEF GrantsAreDurable
<1> QED BY <1>3, <1>4, <1>5, <1>6

\* Every step preserves the invariant.
LEMMA SiteStep ==
  ASSUME SiteInvariant, [SiteNext]_siteVars
  PROVE  SiteInvariant'
<1>0. [Next]_vars
  BY SiteStepIsRegistryStep
<1>1. RegistryInv' /\ LiveIsDurable'
  BY <1>0, RegistryPart
<1>2. /\ shut \in SUBSET Connection /\ work \in [Connection -> Work]
      /\ queued \in SUBSET Connection
  BY DEF SiteInvariant, ConnectionInv, SiteTypeOK
<1>3. ASSUME NEW c \in Connection, Handshake(c) \/ Serving(c)
      PROVE  ConnectionInv'
  BY <1>0, <1>3, HandshakeStep, ServingStep
<1>4. ASSUME NEW c \in Connection, ConnectionLost(c)
      PROVE  ConnectionInv'
  BY <1>0, <1>2, <1>4, StayingStep DEF ConnectionLost, vars
<1>5. ASSUME NEW c \in Connection, HostCloses(c)
      PROVE  ConnectionInv'
  BY <1>0, <1>5, HostClosesStep
<1>6. ASSUME Operator PROVE ConnectionInv'
  <2>1. Withdrawal \/ UNCHANGED <<active, closing>>
    BY <1>6 DEF Operator, Insert, Expire, connections
  <2> QED BY <1>0, <1>2, <1>6, <2>1, StayingStep DEF Operator, protocolVars
<1>7. ASSUME HostCrash PROVE ConnectionInv'
  BY <1>0, <1>7, HostCrashStep
<1>8. ASSUME HostStart PROVE ConnectionInv'
  BY <1>0, <1>2, <1>8, StayingStep DEF HostStart, Open, protocolVars
<1>9. ASSUME UNCHANGED siteVars PROVE ConnectionInv'
  BY <1>0, <1>2, <1>9, StayingStep DEF siteVars, vars, protocolVars
<1>10. ConnectionInv'
  BY <1>3, <1>4, <1>5, <1>6, <1>7, <1>8, <1>9 DEF SiteNext
<1> QED BY <1>1, <1>10 DEF SiteInvariant

-----------------------------------------------------------------------------
(* What holds for every instance *)

(***************************************************************************)
(* The invariant the others follow from.  NoOrphanServing alone is not     *)
(* inductive: it needs that a connection is registered for the session it  *)
(* serves and for no other, and that the host closes only what it served.  *)
(***************************************************************************)
THEOREM SiteInvariantHolds == SiteSpec => []SiteInvariant
<1>1. SiteInit => SiteInvariant
  BY SiteInitially
<1>2. SiteInvariant /\ [SiteNext]_siteVars => SiteInvariant'
  BY SiteStep
<1> QED BY <1>1, <1>2, PTL DEF SiteSpec

(***************************************************************************)
(* The handlers use the registry as its specification allows, whatever     *)
(* happens between any two of their awaits; what is proved of the registry *)
(* holds of the host (authorize_connection, session_connected).            *)
(***************************************************************************)
THEOREM SiteUsesRegistry == SiteSpec => Spec
<1>1. SiteInit => Init
  BY DEF SiteInit
<1>2. SiteInvariant /\ [SiteNext]_siteVars => [Next]_vars
  BY SiteStepIsRegistryStep
<1> QED BY <1>1, <1>2, SiteInvariantHolds, PTL DEF SiteSpec, Spec

\* With all its connections the host still implements the abstract ledger.
THEOREM SiteImplementsLedger == SiteSpec => ImplementsLedger
BY SiteUsesRegistry, RegistryImplementsLedger

\* Every variable of the handlers keeps its type.
THEOREM SiteTypeCorrect == SiteSpec => []SiteTypeOK
BY SiteInvariantHolds, PTL DEF SiteInvariant, ConnectionInv

(***************************************************************************)
(* Kick and revoke reach whatever is served: an open connection that is    *)
(* served is registered, or about to be closed, in every order of          *)
(* handshakes, replacements, late disconnects and removals                 *)
(* (session_connected, session_disconnected, kick).                        *)
(***************************************************************************)
THEOREM NothingServedUnseen == SiteSpec => []NoOrphanServing
BY SiteInvariantHolds, PTL DEF SiteInvariant, ConnectionInv

\* The session of every open connection that is served, unless about to be closed
ServedInGoodStanding ==
  \A c \in Connection :
    conn[c].phase = "serving" /\ c \notin shut \cup closing
      => InGoodStanding(live, conn[c].session)

(***************************************************************************)
(* A session that was kicked or whose invitation was revoked is served by  *)
(* no connection but those the host is about to close: what is served is   *)
(* registered, and what is registered is in good standing.                 *)
(***************************************************************************)
THEOREM OnlyGoodStandingIsServed == SiteSpec => []ServedInGoodStanding
<1>1. SiteInvariant => ServedInGoodStanding
  <2> SUFFICES ASSUME SiteInvariant, NEW c \in Connection,
                      conn[c].phase = "serving", c \notin shut \cup closing
               PROVE  InGoodStanding(live, conn[c].session)
    BY DEF ServedInGoodStanding
  <2>1. active[conn[c].session] = c /\ conn[c].session \in Session
    BY DEF SiteInvariant, ConnectionInv, NoOrphanServing, SessionsNamed, Known
  <2> QED BY <2>1, AttributeAssumption DEF SiteInvariant, RegistryInv, ActiveInGoodStanding
<1> QED BY <1>1, SiteInvariantHolds, PTL

\* A grant a browser holds is known to every later host: the admission was
\* synced before the reply was written (finalize, append_event).
THEOREM GrantsSurvive == SiteSpec => []GrantsAreDurable
BY SiteInvariantHolds, PTL DEF SiteInvariant, ConnectionInv

(***************************************************************************)
(* Nobody is admitted on the strength of what the hello was told: at the   *)
(* moment of the admission the invitation is open, unexpired and has a     *)
(* slot (finalize, can_admit_locked).                                      *)
(***************************************************************************)
THEOREM AdmittedWhileOpen == SiteSpec => AdmissionsAreCurrent
<1> DEFINE Current == up /\ up' =>
      \A s \in Admitted(live') \ Admitted(live) : InviteAdmits(live'.home[s])
<1>1. SiteInvariant /\ [SiteNext]_siteVars => Current
  BY SiteStepIsRegistryStep, AdmitsOnlyThroughOpen DEF SiteInvariant
<1>2. SiteSpec => [][Current]_siteVars
  BY <1>1, SiteInvariantHolds, PTL DEF SiteSpec
<1> QED BY <1>2 DEF AdmissionsAreCurrent
=============================================================================
